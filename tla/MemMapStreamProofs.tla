-------------------------- MODULE MemMapStreamProofs --------------------------
(***************************************************************************)
(* For a careful client the window of a MemMapStream is a piece of whole   *)
(* pages of the file through every remap, nothing mapped is lost but by a  *)
(* resize that fails, files are ordered as their bytes are, and the object *)
(* implements MappedFile: for all page and block sizes, files and calls.   *)
(***************************************************************************)
EXTENDS MemMapStream, SequenceTheorems, WellFoundedInduction, TLAPS

\* r is f after the bytes b were put at offset p: they are there, those before and
\* behind them are as they were, and a gap between the end and them is filled.
IsPut(r, f, p, b, gap) ==
  /\ r \in Seq(Nat)
  /\ Len(r) = IF b = <<>> \/ p + Len(b) <= Len(f) THEN Len(f) ELSE p + Len(b)
  /\ \A i \in 1..Len(r) : r[i] = IF i > p /\ i <= p + Len(b) THEN b[i - p]
                                 ELSE IF i <= Len(f) THEN f[i] ELSE gap

\* Put does that, when the gap is filled with bytes or there is none.
LEMMA PutOK ==
  ASSUME NEW f \in Seq(Nat), NEW p \in Nat, NEW b \in Seq(Nat), NEW gap,
         gap \in Nat \/ p <= Len(f)
  PROVE  IsPut(Put(f, p, b, gap), f, p, b, gap)
<1> DEFINE end == p + Len(b)
           new == IF end > Len(f) THEN end ELSE Len(f)
           at(i) == IF i > p /\ i <= end THEN b[i - p] ELSE IF i <= Len(f) THEN f[i] ELSE gap
           g == [i \in 1..new |-> at(i)]
           r == Put(f, p, b, gap)
<1>1. CASE b = <<>>
  <2>1. r = f /\ Len(b) = 0
    BY <1>1 DEF Put
  <2>2. \A i \in 1..Len(f) : ~(i > p /\ i <= p + Len(b)) /\ i <= Len(f)
    BY <2>1
  <2> HIDE DEF r
  <2> QED BY <1>1, <2>1, <2>2 DEF r, IsPut
<1>2. CASE b # <<>>
  <2>1. r = g
    BY <1>2 DEF Put
  <2>2. /\ new \in Nat /\ end = p + Len(b) /\ Len(b) \in Nat /\ Len(f) \in Nat
        /\ new = IF p + Len(b) <= Len(f) THEN Len(f) ELSE p + Len(b)
    OBVIOUS
  <2>3. \A i \in 1..new : at(i) \in Nat
    <3> SUFFICES ASSUME NEW i \in 1..new PROVE at(i) \in Nat
      OBVIOUS
    <3>1. CASE i > p /\ i <= end
      <4>1. i - p \in 1..Len(b)
        BY <3>1
      <4> QED BY <3>1, <4>1
    <3>2. CASE ~(i > p /\ i <= end) /\ i <= Len(f)
      <4>1. i \in 1..Len(f)
        BY <3>2
      <4> QED BY <3>2, <4>1
    <3>3. CASE ~(i > p /\ i <= end) /\ ~(i <= Len(f))
      <4>1. gap \in Nat
        BY <2>2, <3>3
      <4> QED BY <3>3, <4>1
    <3> QED BY <3>1, <3>2, <3>3
  <2> HIDE DEF at, new
  <2>4. g \in [1..new -> Nat] /\ \A i \in 1..new : g[i] = at(i)
    BY <2>3
  <2>5. g \in Seq(Nat) /\ Len(g) = new
    <3>1. new \in Nat
      BY <2>2
    <3> HIDE DEF g
    <3> QED BY <2>4, <3>1
  <2> HIDE DEF g, r
  <2>6. r \in Seq(Nat) /\ Len(r) = new /\ \A i \in 1..Len(r) : r[i] = at(i)
    BY <2>1, <2>4, <2>5
  <2> QED BY <1>2, <2>2, <2>6 DEF r, at, end, IsPut
<1> QED BY <1>1, <1>2

\* So it is for a file, where a gap reads as zeros.
LEMMA OverlayOK ==
  ASSUME NEW f \in Seq(Nat), NEW p \in Nat, NEW b \in Seq(Nat)
  PROVE  IsPut(Overlay(f, p, b), f, p, b, Zero)
<1>1. Zero \in Nat \/ p <= Len(f)
  BY DEF Zero
<1> QED BY <1>1, PutOK DEF Overlay

\* Nothing written changes nothing.
LEMMA OverlayNone ==
  ASSUME NEW f, NEW p PROVE Overlay(f, p, <<>>) = f
  BY DEF Overlay, Put

\* Writing two pieces, one behind the other, is writing them at once.
LEMMA OverlayTwice ==
  ASSUME NEW f \in Seq(Nat), NEW p \in Nat, NEW a \in Seq(Nat), NEW b \in Seq(Nat)
  PROVE  Overlay(Overlay(f, p, a), p + Len(a), b) = Overlay(f, p, a \o b)
<1> DEFINE g == Overlay(f, p, a)
           c == a \o b
           x == p + Len(a)
           y == x + Len(b)
           r == Overlay(g, x, b)
           q == Overlay(f, p, c)
<1>1. CASE b = <<>>
  <2>1. c = a
    BY <1>1
  <2>2. r = g
    BY <1>1, OverlayNone
  <2> QED BY <2>1, <2>2
<1>2. CASE b # <<>>
  <2>1. /\ Len(a) \in Nat /\ Len(b) \in Nat /\ Len(f) \in Nat /\ x \in Nat /\ y \in Nat
        /\ p <= x /\ x < y /\ p + (Len(a) + Len(b)) = y /\ x = p + Len(a) /\ y = x + Len(b)
        /\ (a = <<>> => x = p)
    <3>1. Len(a) \in Nat /\ Len(b) \in Nat /\ Len(f) \in Nat /\ Len(b) # 0 /\ (a = <<>> => Len(a) = 0)
      BY <1>2
    <3> DEFINE la == Len(a)
               lb == Len(b)
    <3>2. la \in Nat /\ lb \in Nat /\ lb # 0 /\ (a = <<>> => la = 0)
      BY <3>1
    <3> HIDE DEF la, lb
    <3>3. /\ p + la \in Nat /\ p + la + lb \in Nat /\ p <= p + la /\ p + la < p + la + lb
          /\ p + (la + lb) = p + la + lb /\ (la = 0 => p + la = p)
      BY <3>2
    <3> QED BY <3>1, <3>2, <3>3 DEF la, lb
  <2>2. /\ g \in Seq(Nat)
        /\ Len(g) = IF a = <<>> \/ x <= Len(f) THEN Len(f) ELSE x
        /\ \A i \in 1..Len(g) : g[i] = IF i > p /\ i <= x THEN a[i - p]
                                       ELSE IF i <= Len(f) THEN f[i] ELSE Zero
    BY OverlayOK DEF IsPut
  <2>3. /\ c \in Seq(Nat) /\ Len(c) = Len(a) + Len(b)
        /\ \A i \in 1..(Len(a) + Len(b)) : c[i] = IF i <= Len(a) THEN a[i] ELSE b[i - Len(a)]
    BY ConcatProperties
  <2> HIDE DEF g, c, x, y
  <2>4. /\ r \in Seq(Nat)
        /\ Len(r) = IF y <= Len(g) THEN Len(g) ELSE y
        /\ \A i \in 1..Len(r) : r[i] = IF i > x /\ i <= y THEN b[i - x]
                                       ELSE IF i <= Len(g) THEN g[i] ELSE Zero
    <3>1. x \in Nat /\ g \in Seq(Nat)
      BY <2>1, <2>2
    <3> HIDE DEF r
    <3> QED BY <1>2, <3>1, OverlayOK DEF r, y, IsPut
  <2>5. /\ q \in Seq(Nat)
        /\ Len(q) = IF y <= Len(f) THEN Len(f) ELSE y
        /\ \A i \in 1..Len(q) : q[i] = IF i > p /\ i <= y THEN c[i - p]
                                       ELSE IF i <= Len(f) THEN f[i] ELSE Zero
    <3>1. c # <<>> /\ p + Len(c) = y
      BY <2>1, <2>3
    <3>2. /\ q \in Seq(Nat)
          /\ Len(q) = IF c = <<>> \/ p + Len(c) <= Len(f) THEN Len(f) ELSE p + Len(c)
          /\ \A i \in 1..Len(q) : q[i] = IF i > p /\ i <= p + Len(c) THEN c[i - p]
                                         ELSE IF i <= Len(f) THEN f[i] ELSE Zero
      BY <2>3, OverlayOK DEF IsPut
    <3> HIDE DEF q
    <3> QED BY <3>1, <3>2
  <2> HIDE DEF r, q
  <2>6. Len(r) = Len(q) /\ Len(r) \in Nat /\ Len(g) \in Nat /\ (x = p \/ x <= Len(g))
    <3>1. Len(g) \in Nat
      BY <2>2
    <3>2. (Len(g) = Len(f) \/ Len(g) <= x) /\ Len(f) <= Len(g) /\ (x = p \/ x <= Len(g))
      <4>1. Len(g) = IF a = <<>> \/ x <= Len(f) THEN Len(f) ELSE x
        BY <2>2
      <4>2. Len(f) \in Nat /\ x \in Nat /\ (a = <<>> => x = p)
        BY <2>1
      <4> QED BY <4>1, <4>2
    <3>3. Len(r) = IF y <= Len(g) THEN Len(g) ELSE y
      BY <2>4
    <3>4. Len(q) = IF y <= Len(f) THEN Len(f) ELSE y
      BY <2>5
    <3>5. Len(f) \in Nat /\ x \in Nat /\ y \in Nat /\ x < y
      BY <2>1
    <3> QED BY <3>1, <3>2, <3>3, <3>4, <3>5
  <2>7. ASSUME NEW i \in 1..Len(r) PROVE r[i] = q[i]
    <3>1. i \in Nat /\ i > 0 /\ i \in 1..Len(q) /\ (i <= Len(g) => i \in 1..Len(g))
      BY <2>6
    <3>2. CASE i > x /\ i <= y
      <4>1. /\ i > p /\ i - p \in 1..(Len(a) + Len(b)) /\ ~(i - p <= Len(a))
            /\ (i - p) - Len(a) = i - x
        BY <2>1, <3>1, <3>2
      <4>2. c[i - p] = b[i - x]
        BY <2>3, <4>1
      <4> QED BY <2>4, <2>5, <3>1, <3>2, <4>1, <4>2
    <3>3. CASE i > p /\ i <= x
      <4>1. ~(i > x) /\ i <= y /\ i - p \in 1..(Len(a) + Len(b)) /\ i - p <= Len(a)
            /\ i <= Len(g)
        BY <2>1, <2>6, <3>1, <3>3
      <4>2. c[i - p] = a[i - p]
        BY <2>3, <4>1
      <4>3. g[i] = a[i - p]
        BY <2>2, <3>1, <3>3, <4>1
      <4> QED BY <2>4, <2>5, <3>1, <3>3, <4>1, <4>2, <4>3
    <3>4. CASE ~(i > p /\ i <= y)
      <4>1. ~(i > x /\ i <= y) /\ ~(i > p /\ i <= x)
        BY <2>1, <3>1, <3>4
      <4>2. q[i] = IF i <= Len(f) THEN f[i] ELSE Zero
        BY <2>5, <3>1, <3>4
      <4>3. r[i] = IF i <= Len(g) THEN g[i] ELSE Zero
        BY <2>4, <4>1
      <4>4. i <= Len(f) => i <= Len(g)
        BY <2>1, <2>2, <3>1
      <4>5. i <= Len(g) => g[i] = IF i <= Len(f) THEN f[i] ELSE Zero
        BY <2>2, <3>1, <4>1
      <4> QED BY <4>2, <4>3, <4>4, <4>5
    <3> QED BY <2>1, <3>1, <3>2, <3>3, <3>4
  <2>8. r = q
    BY <2>4, <2>5, <2>6, <2>7, SeqEqual
  <2> QED BY <2>8 DEF r, q, g, c, x
<1> QED BY <1>1, <1>2

\* The n bytes behind offset p.
LEMMA PartOK ==
  ASSUME NEW f \in Seq(Nat), NEW p \in Nat, NEW n \in Nat, n = 0 \/ p + n <= Len(f)
  PROVE  /\ SubSeq(f, p + 1, p + n) \in Seq(Nat)
         /\ Len(SubSeq(f, p + 1, p + n)) = n
         /\ \A i \in 1..n : SubSeq(f, p + 1, p + n)[i] = f[p + i]
<1> DEFINE r == SubSeq(f, p + 1, p + n)
<1>1. p + 1 \in Int /\ p + n \in Int /\ \A i \in (p + 1)..(p + n) : f[i] \in Nat
  OBVIOUS
<1>2. /\ r \in Seq(Nat)
      /\ Len(r) = IF p + 1 <= p + n THEN (p + n) - (p + 1) + 1 ELSE 0
      /\ \A i \in 1..((p + n) - (p + 1) + 1) : r[i] = f[(p + 1) + i - 1]
  BY <1>1, SubSeqProperties
<1> HIDE DEF r
<1>3. ASSUME NEW i \in 1..n PROVE r[i] = f[p + i]
  <2>1. i \in 1..((p + n) - (p + 1) + 1) /\ (p + 1) + i - 1 = p + i
    OBVIOUS
  <2> QED BY <1>2, <2>1
<1>4. Len(r) = n
  BY <1>2
<1> QED BY <1>2, <1>3, <1>4 DEF r

\* No bytes are the empty sequence.
LEMMA PartNone ==
  ASSUME NEW f, NEW p \in Int PROVE SubSeq(f, p + 1, p) = <<>>
<1>1. p + 1 \in Int /\ p < p + 1
  OBVIOUS
<1> QED BY <1>1, SubSeqEmpty

\* Adjacent parts make one.
LEMMA PartJoin ==
  ASSUME NEW f \in Seq(Nat), NEW p \in Nat, NEW m \in Nat, NEW n \in Nat,
         m + n = 0 \/ p + m + n <= Len(f)
  PROVE  SubSeq(f, p + 1, p + m) \o SubSeq(f, p + m + 1, p + m + n) =
         SubSeq(f, p + 1, p + m + n)
<1>1. CASE m + n = 0
  <2>1. m = 0 /\ n = 0
    BY <1>1
  <2>2. SubSeq(f, p + 1, p) = <<>>
    BY PartNone
  <2>3. p + 0 = p /\ p + 0 + 0 = p /\ p + 0 + 1 = p + 1
    OBVIOUS
  <2>4. <<>> \o <<>> = <<>>
    OBVIOUS
  <2> QED BY <2>1, <2>2, <2>3, <2>4
<1>2. CASE p + m + n <= Len(f)
  <2>1. /\ p + 1 \in 1..(Len(f) + 1) /\ p + m \in ((p + 1) - 1)..Len(f)
        /\ p + m + n \in (p + m)..Len(f)
    BY <1>2
  <2> QED BY <2>1, ConcatAdjacentSubSeq
<1> QED BY <1>1, <1>2

Win == [file : Seq(Nat), open : BOOLEAN, writable : BOOLEAN, size : Nat, base : Nat,
        pos : Nat, len : Nat, mapped : BOOLEAN, faults : Nat, lost : BOOLEAN]

\* d is c, or c with zeros behind it.
Extended(c, d) ==
  /\ Len(d) >= Len(c)
  /\ \A i \in 1..Len(d) : d[i] = IF i <= Len(c) THEN c[i] ELSE Zero

\* What a call may do to the bytes of the file: append zeros when it is written.
Grown(writable, c, d) == IF writable THEN Extended(c, d) ELSE d = c

\* The window is nothing, or whole pages of the file.  That of a file which is only
\* read ends with the file at the latest.
Placed(t) ==
  /\ t.size = IF t.open THEN Len(t.file) ELSE 0
  /\ t.mapped => t.open
  /\ ~t.mapped => t.base = 0 /\ t.len = 0
  /\ t.base % Page = 0 /\ t.pos <= t.len
  /\ IF t.writable THEN t.len % Page = 0
     ELSE /\ t.base + t.len <= t.size
          /\ t.len % Page = 0 \/ t.base + t.len = t.size

Good(t) == t \in Win /\ Placed(t)

Comparisons == {"compare", "compare_blocks"}
Jobs == [op : {"none", "read", "skip", "write"} \cup Comparisons, len : Nat, bytes : Seq(Nat),
         file : Seq(Nat), tell : Nat]

\* How far the call under way is.  A read has copied up to the end of the window,
\* though m_pos may not have moved yet.
Reading ==
  /\ w.base + w.len = job.tell + Len(job.bytes) /\ w.base + w.len <= w.size
  /\ TellOf(w) = job.tell \/ w.pos = w.len
  /\ job.bytes = SubSeq(w.file, job.tell + 1, job.tell + Len(job.bytes))
  /\ Grown(w.writable, job.file, w.file)

\* A write has put what it took, and m_pos is behind that.
Writing ==
  /\ w.writable
  /\ TellOf(w) = job.tell + Len(job.bytes)
  /\ Extended(Overlay(job.file, job.tell, job.bytes), w.file)
  /\ job.bytes = SubSeq(Data(job.len), 1, Len(job.bytes))

\* A comparison has found the bytes it had to be those of the other file.  Byte by
\* byte, m_pos is behind them; block by block, the files are of one size.
Comparing ==
  /\ ~w.writable
  /\ IF job.op = "compare" THEN TellOf(w) = Len(job.bytes) ELSE w.size = Len(job.file)
  /\ job.len = Least(w.size, Len(job.file)) /\ job.file \in Others
  /\ \A i \in 1..Len(job.bytes) : w.file[i] = job.file[i]

Working ==
  /\ w.open
  /\ CASE job.op \in {"read", "skip"} -> Len(job.bytes) < job.len /\ Reading
       [] job.op = "write" -> Len(job.bytes) < job.len /\ Writing
       [] job.op \in Comparisons -> Len(job.bytes) <= job.len /\ Comparing

IInv ==
  /\ Good(w)
  /\ job \in Jobs
  /\ job.op # "none" => Working
  /\ region = NoRegion \/ region \in Regions
  /\ written \in 0..MaxWritten

(***************************************************************************)
(* Pages and blocks.                                                       *)
(***************************************************************************)

\* What % and \div are to each other.
LEMMA DivIs ==
  ASSUME NEW x \in Nat, NEW a \in Nat \ {0}
  PROVE  x = (x \div a) * a + (x % a) /\ x \div a \in Nat /\ x % a \in 0..(a - 1)
OBVIOUS

\* A multiple is one.
LEMMA MultipleIs ==
  ASSUME NEW q \in Nat, NEW a \in Nat \ {0} PROVE (q * a) % a = 0
OBVIOUS

\* align_down goes down, by less than a page.
LEMMA DownIs ==
  ASSUME NEW x \in Nat, NEW a \in Nat \ {0}
  PROVE  /\ AlignDown(x, a) \in Nat /\ AlignDown(x, a) <= x /\ x < AlignDown(x, a) + a
         /\ AlignDown(x, a) % a = 0
         /\ AlignDown(x, a) = (x \div a) * a
<1> DEFINE q == x \div a
           r == x % a
           m == q * a
<1>1. x = m + r /\ q \in Nat /\ r \in Nat /\ r < a
  BY DivIs
<1>2. m \in Nat /\ m % a = 0
  <2> HIDE DEF q
  <2> QED BY <1>1, MultipleIs
<1>3. AlignDown(x, a) = x - r
  BY DEF AlignDown
<1> HIDE DEF q, r, m
<1>4. AlignDown(x, a) = m
  BY <1>1, <1>2, <1>3
<1> QED BY <1>1, <1>2, <1>4 DEF m, q

\* align_up goes up, and stays at 0.
LEMMA UpIs ==
  ASSUME NEW x \in Nat, NEW a \in Nat \ {0}
  PROVE  /\ AlignUp(x, a) \in Nat /\ x <= AlignUp(x, a) /\ AlignUp(x, a) % a = 0
         /\ x = 0 => AlignUp(x, a) = 0
<1> DEFINE y == x + a - 1
           u == AlignDown(y, a)
<1>1. y \in Nat
  OBVIOUS
<1>2. AlignUp(x, a) = u
  BY DEF AlignUp
<1>3. u \in Nat /\ u <= y /\ y < u + a /\ u % a = 0 /\ u = (y \div a) * a
  <2> HIDE DEF y
  <2> QED BY <1>1, DownIs
<1>4. x <= u
  <2> HIDE DEF u
  <2> QED BY <1>3
<1>5. ASSUME x = 0 PROVE u = 0
  <2>1. y < a
    BY <1>5
  <2>2. y % a = y
    <3> HIDE DEF y
    <3> QED BY <1>1, <2>1
  <2> QED BY <1>1, <2>2 DEF AlignDown
<1> QED BY <1>2, <1>3, <1>4, <1>5

\* A block starts on a page.
LEMMA BlockOnPage ==
  ASSUME NEW p \in Nat
  PROVE  /\ AlignDown(p, Block) \in Nat /\ AlignDown(p, Block) <= p
         /\ p < AlignDown(p, Block) + Block /\ AlignDown(p, Block) % Page = 0
<1>1. Block \in Nat \ {0} /\ Page \in Nat \ {0} /\ Block % Page = 0
  BY PageAssumption, BlockAssumption
<1> DEFINE q == p \div Block
           m == Block \div Page
<1>2. /\ AlignDown(p, Block) \in Nat /\ AlignDown(p, Block) <= p
      /\ p < AlignDown(p, Block) + Block /\ AlignDown(p, Block) = q * Block
  BY <1>1, DownIs
<1>3. q \in Nat
  BY <1>1, DivIs
<1>4. Block = m * Page /\ m \in Nat
  <2>1. Block = m * Page + (Block % Page) /\ m \in Nat
    BY <1>1, DivIs
  <2>2. m * Page \in Int
    <3> HIDE DEF m
    <3> QED BY <1>1, <2>1
  <2> HIDE DEF m
  <2> QED BY <1>1, <2>1, <2>2
<1> HIDE DEF q, m
<1>5. q * Block = (q * m) * Page /\ q * m \in Nat
  <2>1. q * (m * Page) = (q * m) * Page /\ q * m \in Nat
    BY <1>1, <1>3, <1>4
  <2> QED BY <1>4, <2>1
<1>6. ((q * m) * Page) % Page = 0
  BY <1>1, <1>5, MultipleIs
<1> QED BY <1>2, <1>5, <1>6

(***************************************************************************)
(* The bytes of the file.                                                  *)
(***************************************************************************)

\* Nothing appended, and more appended to what was extended.
LEMMA ExtendedSelf ==
  ASSUME NEW c \in Seq(Nat) PROVE Extended(c, c)
BY DEF Extended

\* Growth twice is growth.
LEMMA ExtendedTwice ==
  ASSUME NEW c \in Seq(Nat), NEW d \in Seq(Nat), NEW e \in Seq(Nat), Extended(c, d), Extended(d, e)
  PROVE  Extended(c, e)
<1>1. Len(c) \in Nat /\ Len(d) \in Nat /\ Len(e) \in Nat /\ Len(d) >= Len(c) /\ Len(e) >= Len(d)
  BY DEF Extended
<1>2. ASSUME NEW i \in 1..Len(e) PROVE e[i] = IF i <= Len(c) THEN c[i] ELSE Zero
  <2>1. e[i] = IF i <= Len(d) THEN d[i] ELSE Zero
    BY DEF Extended
  <2>2. CASE i <= Len(d)
    <3>1. i \in 1..Len(d)
      BY <1>1, <2>2
    <3> QED BY <2>1, <2>2, <3>1 DEF Extended
  <2>3. CASE ~(i <= Len(d))
    BY <1>1, <2>1, <2>3
  <2> QED BY <2>2, <2>3
<1>3. Len(e) >= Len(c)
  BY <1>1
<1> QED BY <1>2, <1>3 DEF Extended

\* ftruncate to no less than there is.
LEMMA TruncatedIs ==
  ASSUME NEW f \in Seq(Nat), NEW n \in Nat
  PROVE  /\ Truncated(f, n) \in Seq(Nat) /\ Len(Truncated(f, n)) = n
         /\ \A i \in 1..n : Truncated(f, n)[i] = IF i <= Len(f) THEN f[i] ELSE Zero
         /\ Len(f) <= n => Extended(f, Truncated(f, n))
<1> DEFINE r == Truncated(f, n)
           at(i) == IF i <= Len(f) THEN f[i] ELSE Zero
<1>1. r = [i \in 1..n |-> at(i)]
  BY DEF Truncated
<1>2. \A i \in 1..n : at(i) \in Nat
  BY DEF Zero
<1> HIDE DEF r, at
<1>3. r \in Seq(Nat) /\ Len(r) = n /\ \A i \in 1..n : r[i] = at(i)
  BY <1>1, <1>2
<1>4. Len(f) <= n => Extended(f, r)
  BY <1>3 DEF Extended, at
<1> QED BY <1>3, <1>4 DEF r, at

\* The parts of a file are those of it extended.
LEMMA PartExtended ==
  ASSUME NEW c \in Seq(Nat), NEW d \in Seq(Nat), Extended(c, d), NEW p \in Nat, NEW n \in Nat,
         n = 0 \/ p + n <= Len(c)
  PROVE  SubSeq(d, p + 1, p + n) = SubSeq(c, p + 1, p + n)
<1> DEFINE x == SubSeq(c, p + 1, p + n)
           y == SubSeq(d, p + 1, p + n)
<1>1. Len(c) \in Nat /\ Len(d) \in Nat /\ Len(d) >= Len(c)
  BY DEF Extended
<1>2. n = 0 \/ p + n <= Len(d)
  BY <1>1
<1>3. /\ x \in Seq(Nat) /\ Len(x) = n /\ \A i \in 1..n : x[i] = c[p + i]
      /\ y \in Seq(Nat) /\ Len(y) = n /\ \A i \in 1..n : y[i] = d[p + i]
  BY <1>2, PartOK
<1> HIDE DEF x, y
<1>4. ASSUME NEW i \in 1..n PROVE x[i] = y[i]
  <2>1. p + i \in 1..Len(d) /\ p + i <= Len(c)
    BY <1>1, <1>2
  <2>2. d[p + i] = c[p + i]
    BY <2>1 DEF Extended
  <2> QED BY <1>3, <2>2
<1>5. x = y
  BY <1>3, <1>4, SeqEqual
<1> QED BY <1>5 DEF x, y

(***************************************************************************)
(* The window.                                                             *)
(***************************************************************************)

\* u is t closed.
Closes(t, u) ==
  /\ u \in Win /\ u.open = FALSE /\ u.writable = t.writable
  /\ u.size = 0 /\ u.base = 0 /\ u.pos = 0 /\ u.len = 0 /\ u.mapped = FALSE

\* u is t with another size, and nothing else about the window changed.
Resized(t, u, n) ==
  /\ u \in Win /\ u.file = Truncated(t.file, n) /\ u.size = n
  /\ u.open = t.open /\ u.writable = t.writable /\ u.base = t.base /\ u.pos = t.pos
  /\ u.len = t.len /\ u.mapped = t.mapped /\ u.faults = t.faults /\ u.lost = t.lost

\* A closed object has no window.
LEMMA ClosesGood ==
  ASSUME NEW t, NEW u, Closes(t, u) PROVE Good(u) /\ TellOf(u) = 0
<1>1. 0 % Page = 0
  <2>1. (0 * Page) % Page = 0 /\ 0 * Page = 0
    BY PageAssumption, MultipleIs
  <2> QED BY <2>1
<1> QED BY <1>1 DEF Closes, Good, Placed, TellOf

\* init() and close().
LEMMA FreshIs ==
  ASSUME NEW t \in Win
  PROVE  Closes(t, Fresh(t)) /\ Fresh(t).file = t.file /\ Fresh(t).faults = t.faults
         /\ Fresh(t).lost = t.lost
<1> DEFINE u == Fresh(t)
<1>1. u = [t EXCEPT !.open = FALSE, !.size = 0, !.base = 0, !.pos = 0, !.len = 0,
                    !.mapped = FALSE]
  BY DEF Fresh
<1> HIDE DEF u
<1>2. /\ u \in Win /\ u.file = t.file /\ u.open = FALSE /\ u.writable = t.writable
      /\ u.size = 0 /\ u.base = 0 /\ u.pos = 0 /\ u.len = 0 /\ u.mapped = FALSE
      /\ u.faults = t.faults /\ u.lost = t.lost
  BY <1>1, 0 \in Nat DEF Win
<1> QED BY <1>2 DEF Closes, u

\* cleanup_and_throw() closes the file, and what is mapped is lost.
LEMMA CleanupIs ==
  ASSUME NEW t \in Win, NEW o \in CleanupAndThrow(t)
  PROVE  /\ o.exc = "io" /\ Closes(t, o.w) /\ o.w.file = t.file /\ o.w.faults = t.faults
         /\ o.w.lost = (t.lost \/ t.mapped)
<1> DEFINE l == t.lost \/ t.mapped
           f == Fresh(t)
           u == [f EXCEPT !.lost = l]
<1>1. o.w = u /\ o.exc = "io"
  BY DEF CleanupAndThrow, Thrown
<1>2. l \in BOOLEAN
  OBVIOUS
<1>3. Closes(t, f) /\ f.file = t.file /\ f.faults = t.faults
  BY FreshIs
<1> HIDE DEF l, f
<1>4. /\ u \in Win /\ u.file = f.file /\ u.open = f.open /\ u.writable = f.writable
      /\ u.size = f.size /\ u.base = f.base /\ u.pos = f.pos /\ u.len = f.len
      /\ u.mapped = f.mapped /\ u.faults = f.faults /\ u.lost = l
  <2>1. f \in Win
    BY <1>3 DEF Closes
  <2> QED BY <1>2, <2>1 DEF Win
<1> HIDE DEF u
<1>5. Closes(t, u) /\ u.file = t.file /\ u.faults = t.faults /\ u.lost = l
  BY <1>3, <1>4 DEF Closes
<1> QED BY <1>1, <1>5 DEF l

\* A system call fails only when it may.
LEMMA FaultIs ==
  ASSUME NEW t \in Win, NEW o \in Maybe(t, CleanupAndThrow)
  PROVE  /\ t.faults > 0
         /\ o.exc = "io" /\ Closes(t, o.w) /\ o.w.file = t.file
         /\ o.w.lost = (t.lost \/ t.mapped)
<1> DEFINE n == t.faults - 1
           u == [t EXCEPT !.faults = n]
<1>1. t.faults > 0 /\ o \in CleanupAndThrow(u)
  BY DEF Maybe, Win
<1>2. n \in Nat
  BY <1>1 DEF Win
<1> HIDE DEF n
<1>3. /\ u \in Win /\ u.file = t.file /\ u.writable = t.writable
      /\ u.mapped = t.mapped /\ u.lost = t.lost
  BY <1>2 DEF Win
<1> HIDE DEF u
<1>4. /\ o.exc = "io" /\ Closes(u, o.w) /\ o.w.file = u.file
      /\ o.w.lost = (u.lost \/ u.mapped)
  BY <1>1, <1>3, CleanupIs
<1> QED BY <1>1, <1>3, <1>4 DEF Closes

\* set_fsize.
LEMMA SetFsizeIs ==
  ASSUME NEW t \in Win, NEW n \in Nat, NEW o \in SetFsize(t, n)
  PROVE  \/ o.exc = "none" /\ Resized(t, o.w, n)
         \/ /\ t.faults > 0
            /\ o.exc = "io" /\ Closes(t, o.w) /\ o.w.file = t.file
            /\ o.w.lost = (t.lost \/ t.mapped)
<1> DEFINE f == Truncated(t.file, n)
           u == [t EXCEPT !.file = f, !.size = n]
<1>1. CASE o \in Fine(u)
  <2>1. o.w = u /\ o.exc = "none"
    BY <1>1 DEF Fine
  <2>2. f \in Seq(Nat)
    BY TruncatedIs DEF Win
  <2> HIDE DEF f
  <2>3. /\ u \in Win /\ u.file = f /\ u.size = n
        /\ u.open = t.open /\ u.writable = t.writable /\ u.base = t.base /\ u.pos = t.pos
        /\ u.len = t.len /\ u.mapped = t.mapped /\ u.faults = t.faults /\ u.lost = t.lost
    BY <2>2 DEF Win
  <2> HIDE DEF u
  <2> QED BY <2>1, <2>3 DEF Resized, f
<1>2. CASE o \in Maybe(t, CleanupAndThrow)
  BY <1>2, FaultIs
<1> QED BY <1>1, <1>2 DEF SetFsize

\* u is t with another position, or another window too.
Moved(t, u) ==
  /\ Good(u) /\ u.open /\ u.writable = t.writable
  /\ u.faults = t.faults /\ u.lost = t.lost
  /\ Grown(t.writable, t.file, u.file)

\* u is t with its window at fpos.
Remapped(t, u, fpos) ==
  Moved(t, u) /\ u.base = fpos /\ u.len > 0 /\ u.base + u.len <= u.size

\* A system call failed on the way, and the file is closed.
Failed(t, o) ==
  /\ o.exc = "io" /\ Closes(t, o.w) /\ o.w.lost = t.lost
  /\ Grown(t.writable, t.file, o.w.file)

\* What remap_impl leaves: the file at least as long as the window, if it is written.
Mapping(t, v, end) ==
  /\ v \in Win /\ v.open = t.open /\ v.writable = t.writable
  /\ v.base = t.base /\ v.pos = t.pos /\ v.len = t.len /\ v.lost = t.lost
  /\ v.size = Len(v.file) /\ Grown(t.writable, t.file, v.file)
  /\ t.writable => v.size >= end

\* The mapping, after the file has the length it needs.
Mapper(v, n) ==
  (IF n > 0 THEN Fine([v EXCEPT !.mapped = TRUE]) ELSE {})
  \cup (IF n = 0 THEN Thrown(v, "unmapped") ELSE {})
  \cup Maybe(v, LAMBDA x : Thrown(x, "unmapped"))

\* What mmap may leave behind: the same file and mode, mapped or not, a fault used when it fails.
LEMMA MapperIs ==
  ASSUME NEW v \in Win, NEW n \in Nat, NEW o \in Mapper(v, n)
  PROVE  LET u == o.w
         IN  /\ u \in Win /\ u.file = v.file /\ u.open = v.open /\ u.writable = v.writable
             /\ u.size = v.size /\ u.base = v.base /\ u.pos = v.pos /\ u.len = v.len
             /\ u.lost = v.lost
             /\ \/ o.exc = "none" /\ n > 0 /\ u.mapped = TRUE /\ u.faults = v.faults
                \/ o.exc = "unmapped" /\ u.mapped = v.mapped /\ (n = 0 \/ v.faults > 0)
<1>1. CASE n > 0 /\ o \in Fine([v EXCEPT !.mapped = TRUE])
  <2> DEFINE u == [v EXCEPT !.mapped = TRUE]
  <2>1. o.w = u /\ o.exc = "none"
    BY <1>1 DEF Fine
  <2>2. /\ u \in Win /\ u.file = v.file /\ u.open = v.open /\ u.writable = v.writable
        /\ u.size = v.size /\ u.base = v.base /\ u.pos = v.pos /\ u.len = v.len
        /\ u.lost = v.lost /\ u.mapped = TRUE /\ u.faults = v.faults
    BY DEF Win
  <2> HIDE DEF u
  <2> QED BY <1>1, <2>1, <2>2
<1>2. CASE n = 0 /\ o \in Thrown(v, "unmapped")
  BY <1>2 DEF Thrown
<1>3. CASE o \in Maybe(v, LAMBDA x : Thrown(x, "unmapped"))
  <2> DEFINE k == v.faults - 1
             u == [v EXCEPT !.faults = k]
  <2>1. v.faults > 0 /\ o \in Thrown(u, "unmapped")
    BY <1>3 DEF Maybe, Win
  <2>2. k \in Nat
    BY <2>1 DEF Win
  <2> HIDE DEF k
  <2>3. /\ u \in Win /\ u.file = v.file /\ u.open = v.open /\ u.writable = v.writable
        /\ u.size = v.size /\ u.base = v.base /\ u.pos = v.pos /\ u.len = v.len
        /\ u.lost = v.lost /\ u.mapped = v.mapped
    BY <2>2 DEF Win
  <2>4. o.w = u /\ o.exc = "unmapped"
    BY <2>1 DEF Thrown
  <2> HIDE DEF u
  <2> QED BY <2>1, <2>3, <2>4
<1> QED BY <1>1, <1>2, <1>3 DEF Mapper

\* remap_impl.
LEMMA RemapImplIs ==
  ASSUME NEW t, Good(t), t.open, NEW fpos \in Nat, NEW n \in Nat, NEW o \in RemapImpl(t, fpos, n)
  PROVE  \/ o.exc = "none" /\ n > 0 /\ Mapping(t, o.w, fpos + n) /\ o.w.mapped = TRUE
            /\ o.w.faults = t.faults
         \/ o.exc = "unmapped" /\ (n = 0 \/ t.faults > 0) /\ Mapping(t, o.w, fpos + n)
            /\ o.w.mapped = FALSE
         \/ o.exc = "io" /\ t.faults > 0 /\ Closes(t, o.w) /\ o.w.file = t.file
            /\ o.w.lost = t.lost
<1> DEFINE u == [t EXCEPT !.mapped = FALSE]
           end == fpos + n
<1>1. t \in Win /\ t.size = Len(t.file) /\ t.file \in Seq(Nat)
  BY DEF Good, Placed, Win
<1>2. /\ u \in Win /\ u.file = t.file /\ u.open = t.open /\ u.writable = t.writable
      /\ u.size = t.size /\ u.base = t.base /\ u.pos = t.pos /\ u.len = t.len
      /\ u.mapped = FALSE /\ u.faults = t.faults /\ u.lost = t.lost
  BY <1>1 DEF Win
<1>3. end \in Nat
  OBVIOUS
<1>4. o \in IF t.writable /\ t.size < end THEN Then(SetFsize(u, end), LAMBDA v : Mapper(v, n))
            ELSE Mapper(u, n)
  BY DEF RemapImpl, Mapper
<1>5. ASSUME NEW v \in Win, Mapping(t, v, end), v.mapped = FALSE, v.faults = t.faults,
             o \in Mapper(v, n)
      PROVE  \/ o.exc = "none" /\ n > 0 /\ Mapping(t, o.w, end) /\ o.w.mapped = TRUE
                /\ o.w.faults = t.faults
             \/ o.exc = "unmapped" /\ (n = 0 \/ t.faults > 0) /\ Mapping(t, o.w, end)
                /\ o.w.mapped = FALSE
  <2> DEFINE x == o.w
  <2>1. /\ x \in Win /\ x.file = v.file /\ x.open = v.open /\ x.writable = v.writable
        /\ x.size = v.size /\ x.base = v.base /\ x.pos = v.pos /\ x.len = v.len
        /\ x.lost = v.lost
        /\ \/ o.exc = "none" /\ n > 0 /\ x.mapped = TRUE /\ x.faults = v.faults
           \/ o.exc = "unmapped" /\ x.mapped = v.mapped /\ (n = 0 \/ v.faults > 0)
    BY <1>5, MapperIs
  <2> HIDE DEF x, end, u
  <2>2. Mapping(t, x, end)
    BY <1>5, <2>1 DEF Mapping
  <2> QED BY <1>5, <2>1, <2>2 DEF x
<1> HIDE DEF u, end
<1>6. CASE t.writable /\ t.size < end
  <2>1. PICK q \in SetFsize(u, end) : o \in IF q.exc = "none" THEN Mapper(q.w, n) ELSE {q}
    BY <1>4, <1>6 DEF Then
  <2>2. \/ q.exc = "none" /\ Resized(u, q.w, end)
        \/ /\ u.faults > 0
           /\ q.exc = "io" /\ Closes(u, q.w) /\ q.w.file = u.file
           /\ q.w.lost = (u.lost \/ u.mapped)
    BY <1>2, <1>3, SetFsizeIs
  <2>3. CASE q.exc = "none" /\ Resized(u, q.w, end)
    <3> DEFINE v == q.w
    <3>1. o \in Mapper(v, n)
      BY <2>1, <2>3
    <3>2. /\ v \in Win /\ v.file = Truncated(t.file, end) /\ v.size = end
          /\ v.open = t.open /\ v.writable = t.writable /\ v.base = t.base /\ v.pos = t.pos
          /\ v.len = t.len /\ v.mapped = FALSE /\ v.faults = t.faults /\ v.lost = t.lost
      BY <1>2, <2>3 DEF Resized
    <3> HIDE DEF v
    <3>3. Len(v.file) = end /\ Extended(t.file, v.file)
      <4>1. Len(t.file) <= end
        BY <1>1, <1>3, <1>6
      <4> QED BY <1>1, <1>3, <3>2, <4>1, TruncatedIs
    <3>4. Mapping(t, v, end)
      BY <1>3, <1>6, <3>2, <3>3 DEF Mapping, Grown
    <3> QED BY <1>5, <3>1, <3>2, <3>4 DEF end
  <2>4. CASE /\ u.faults > 0
             /\ q.exc = "io" /\ Closes(u, q.w) /\ q.w.file = u.file
             /\ q.w.lost = (u.lost \/ u.mapped)
    <3>1. o = q
      BY <2>1, <2>4
    <3>2. (u.lost \/ u.mapped) = t.lost
      BY <1>1, <1>2 DEF Win
    <3>3. Closes(t, q.w)
      BY <1>2, <2>4 DEF Closes
    <3> QED BY <1>2, <2>4, <3>1, <3>2, <3>3
  <2> QED BY <2>2, <2>3, <2>4
<1>7. CASE ~(t.writable /\ t.size < end)
  <2>1. Grown(t.writable, t.file, t.file)
    BY <1>1, ExtendedSelf DEF Grown
  <2>2. t.writable => t.size >= end
    BY <1>1, <1>3, <1>7
  <2>3. Mapping(t, u, end)
    BY <1>1, <1>2, <2>1, <2>2 DEF Mapping
  <2>4. o \in Mapper(u, n)
    BY <1>4, <1>7
  <2> QED BY <1>2, <1>5, <2>3, <2>4 DEF end
<1> QED BY <1>6, <1>7

\* The smaller of two.
LEMMA LeastIs ==
  ASSUME NEW a \in Int, NEW b \in Int
  PROVE  Least(a, b) \in {a, b} /\ Least(a, b) <= a /\ Least(a, b) <= b
BY DEF Least

\* v with its window of n bytes at fpos.
WindowAt(v, fpos, n) ==
  [v EXCEPT !.base = fpos, !.pos = 0, !.len = Least(n, v.size - fpos)]

\* What is left when the mapping is made: a window at fpos.
LEMMA MappedIs ==
  ASSUME NEW t, Good(t), t.open, NEW fpos \in Nat, fpos % Page = 0,
         t.writable \/ fpos < t.size,
         NEW n \in Nat, n > 0, n % Page = 0, NEW end, end = fpos + n, NEW v, Mapping(t, v, end),
         v.mapped = TRUE,
         v.faults = t.faults, NEW u, u = WindowAt(v, fpos, n)
  PROVE  /\ Remapped(t, u, fpos) /\ u.pos = 0
         /\ u.len = IF t.writable THEN n ELSE Least(n, t.size - fpos)
<1>1. /\ t.size = Len(t.file) /\ v \in Win /\ v.size = Len(v.file) /\ v.open = TRUE
      /\ v.writable = t.writable /\ v.lost = t.lost /\ Grown(t.writable, t.file, v.file)
      /\ t.writable \in BOOLEAN /\ t.size \in Nat
  BY DEF Mapping, Good, Placed, Win
<1>2. v.size \in Nat
  BY <1>1 DEF Win
<1> DEFINE len == Least(n, v.size - fpos)
<1>3. t.writable => v.size >= fpos + n
  BY DEF Mapping
<1>4. ~t.writable => v.size = t.size
  BY <1>1 DEF Grown
<1>5. /\ len \in Nat /\ len > 0 /\ fpos + len <= v.size
      /\ len = IF t.writable THEN n ELSE Least(n, t.size - fpos)
      /\ t.writable => len % Page = 0
      /\ len % Page = 0 \/ fpos + len = v.size
  <2>1. CASE t.writable
    <3>1. len = n
      BY <1>2, <1>3, <2>1 DEF Least
    <3> QED BY <1>2, <1>3, <2>1, <3>1
  <2>2. CASE ~t.writable
    <3>1. fpos < v.size
      BY <1>4, <2>2
    <3>2. len = n \/ len = v.size - fpos
      BY DEF Least
    <3>3. len <= v.size - fpos /\ len > 0 /\ len \in Nat
      BY <1>2, <3>1 DEF Least
    <3> QED BY <1>2, <1>4, <2>2, <3>1, <3>2, <3>3
  <2> QED BY <1>1, <2>1, <2>2
<1> HIDE DEF len
<1>6. /\ u \in Win /\ u.file = v.file /\ u.open = TRUE /\ u.writable = t.writable
      /\ u.size = v.size /\ u.base = fpos /\ u.pos = 0 /\ u.len = len /\ u.mapped = TRUE
      /\ u.faults = t.faults /\ u.lost = t.lost
  <2>1. u = [v EXCEPT !.base = fpos, !.pos = 0, !.len = len]
    BY DEF len, WindowAt
  <2>2. /\ u \in Win /\ u.file = v.file /\ u.open = v.open /\ u.writable = v.writable
        /\ u.size = v.size /\ u.base = fpos /\ u.pos = 0 /\ u.len = len /\ u.mapped = v.mapped
        /\ u.faults = v.faults /\ u.lost = v.lost
    BY <1>1, <1>5, <2>1, 0 \in Nat DEF Win
  <2> QED BY <1>1, <2>2
<1>7. Placed(u)
  BY <1>1, <1>5, <1>6 DEF Placed
<1>8. Moved(t, u)
  BY <1>1, <1>6, <1>7 DEF Moved, Good
<1> QED BY <1>5, <1>6, <1>8 DEF Remapped

\* remap: on the end of a file that is only read it throws, else the window is at fpos,
\* or the file closed.
LEMMA RemapIs ==
  ASSUME NEW t, Good(t), t.open, NEW fpos \in Nat, fpos % Page = 0, NEW n \in Nat,
         NEW o \in Remap(t, fpos, n)
  PROVE  \/ o.exc = "eof" /\ o.w = t /\ ~t.writable /\ t.size <= fpos
         \/ Failed(t, o) /\ (t.faults > 0 \/ n = 0)
         \/ /\ o.exc = "none" /\ Remapped(t, o.w, fpos) /\ o.w.pos = 0
            /\ o.w.len >= IF t.writable THEN n ELSE Least(n, t.size - fpos)
<1> DEFINE most == IF ~t.writable /\ fpos + n > t.size THEN t.size - fpos ELSE n
           size == AlignUp(most, Page)
<1>1. t \in Win /\ t.size \in Nat /\ t.writable \in BOOLEAN
  BY DEF Good, Win
<1>2. CASE ~t.writable /\ t.size <= fpos
  <2>1. o.w = t /\ o.exc = "eof"
    BY <1>2 DEF Remap, Thrown
  <2> QED BY <1>2, <2>1
<1>3. CASE ~(~t.writable /\ t.size <= fpos)
  <2>1. most \in Nat /\ (most = 0 => n = 0)
        /\ most = (IF t.writable THEN n ELSE Least(n, t.size - fpos))
    BY <1>1, <1>3 DEF Least
  <2>2. PICK q \in RemapImpl(t, fpos, size) :
          o \in CASE q.exc = "none" ->
                       Fine([q.w EXCEPT !.base = fpos, !.pos = 0,
                                        !.len = Least(size, q.w.size - fpos)])
                  [] q.exc = "unmapped" -> CleanupAndThrow(q.w)
                  [] OTHER -> {q}
    BY <1>3 DEF Remap
  <2> HIDE DEF most
  <2>3. size \in Nat /\ most <= size /\ size % Page = 0 /\ (size = 0 => n = 0)
    <3>1. size \in Nat /\ most <= size /\ size % Page = 0
      BY <2>1, UpIs, PageAssumption
    <3> HIDE DEF size
    <3> QED BY <2>1, <3>1
  <2> HIDE DEF size
  <2>4. \/ q.exc = "none" /\ size > 0 /\ Mapping(t, q.w, fpos + size) /\ q.w.mapped = TRUE
           /\ q.w.faults = t.faults
        \/ q.exc = "unmapped" /\ (size = 0 \/ t.faults > 0) /\ Mapping(t, q.w, fpos + size)
           /\ q.w.mapped = FALSE
        \/ q.exc = "io" /\ t.faults > 0 /\ Closes(t, q.w) /\ q.w.file = t.file
           /\ q.w.lost = t.lost
    BY <2>2, <2>3, RemapImplIs
  <2>5. CASE q.exc = "none" /\ size > 0 /\ Mapping(t, q.w, fpos + size) /\ q.w.mapped = TRUE
             /\ q.w.faults = t.faults
    <3> DEFINE v == q.w
               end == fpos + size
               u == [v EXCEPT !.base = fpos, !.pos = 0, !.len = Least(size, v.size - fpos)]
    <3>1. o.exc = "none" /\ o.w = u
      BY <2>2, <2>5 DEF Fine
    <3>2. t.writable \/ fpos < t.size
      BY <1>1, <1>3
    <3>0. size > 0 /\ Mapping(t, v, end) /\ v.mapped = TRUE /\ v.faults = t.faults
      BY <2>5
    <3> HIDE DEF v
    <3>5. u = WindowAt(v, fpos, size)
      BY DEF WindowAt
    <3>6. end = fpos + size
      OBVIOUS
    <3> HIDE DEF u, end
    <3>3. /\ Remapped(t, u, fpos) /\ u.pos = 0
          /\ u.len = IF t.writable THEN size ELSE Least(size, t.size - fpos)
      <4>1. size \in Nat /\ size % Page = 0
        BY <2>3
      <4>2. size > 0
        BY <3>0
      <4>3. Mapping(t, v, end)
        BY <3>0
      <4>4. v.mapped = TRUE 
        BY <3>0
      <4>5. v.faults = t.faults
        BY <3>0
      <4> QED BY <4>1, <4>2, <4>3, <4>4, <4>5, <3>5, <3>6, <3>2, MappedIs, ZenonT(90)
    <3>4. u.len >= IF t.writable THEN n ELSE Least(n, t.size - fpos)
      <4>1. Least(n, t.size - fpos) <= t.size - fpos
        BY <1>1 DEF Least
      <4> QED BY <1>1, <2>1, <2>3, <3>3, <4>1 DEF Least
    <3> QED BY <3>1, <3>3, <3>4
  <2>6. CASE q.exc = "unmapped" /\ (size = 0 \/ t.faults > 0) /\ Mapping(t, q.w, fpos + size)
             /\ q.w.mapped = FALSE
    <3>1. o \in CleanupAndThrow(q.w)
      BY <2>2, <2>6
    <3>2. /\ q.w \in Win /\ q.w.writable = t.writable /\ q.w.lost = t.lost
          /\ Grown(t.writable, t.file, q.w.file)
      BY <2>6 DEF Mapping
    <3>3. /\ o.exc = "io" /\ Closes(q.w, o.w) /\ o.w.file = q.w.file
          /\ o.w.lost = (q.w.lost \/ q.w.mapped)
      BY <3>1, <3>2, CleanupIs
    <3>4. Closes(t, o.w) /\ o.w.lost = t.lost
      <4>1. q.w.lost \in BOOLEAN
        BY <3>2 DEF Win
      <4> QED BY <2>6, <3>2, <3>3, <4>1 DEF Closes
    <3> QED BY <2>3, <2>6, <3>2, <3>3, <3>4 DEF Failed
  <2>7. CASE q.exc = "io" /\ t.faults > 0 /\ Closes(t, q.w) /\ q.w.file = t.file
             /\ q.w.lost = t.lost
    <3>1. o = q
      BY <2>2, <2>7
    <3>2. Grown(t.writable, t.file, t.file)
      <4>1. t.file \in Seq(Nat)
        BY <1>1 DEF Win
      <4> QED BY <4>1, ExtendedSelf DEF Grown
    <3> QED BY <2>7, <3>1, <3>2 DEF Failed
  <2> QED BY <2>4, <2>5, <2>6, <2>7
<1> QED BY <1>2, <1>3

\* How a window is moved within, too: m_pos goes elsewhere in it.
LEMMA MovedAgain ==
  ASSUME NEW t, NEW u, Moved(t, u), NEW p \in Nat, p <= u.len, NEW x, x = [u EXCEPT !.pos = p]
  PROVE  /\ Moved(t, x) /\ TellOf(x) = u.base + p /\ x.pos = p
         /\ x.base = u.base /\ x.len = u.len /\ x.size = u.size /\ x.file = u.file
<1>1. u \in Win /\ Placed(u)
  BY DEF Moved, Good
<1>2. /\ x \in Win /\ x.file = u.file /\ x.open = u.open /\ x.writable = u.writable
      /\ x.size = u.size /\ x.base = u.base /\ x.pos = p /\ x.len = u.len
      /\ x.mapped = u.mapped /\ x.faults = u.faults /\ x.lost = u.lost
  BY <1>1 DEF Win
<1>3. Placed(x)
  BY <1>1, <1>2 DEF Placed
<1>4. Moved(t, x)
  BY <1>2, <1>3 DEF Moved, Good
<1> QED BY <1>2, <1>4 DEF TellOf

\* A window that stays.
LEMMA MovedNot ==
  ASSUME NEW t, Good(t), t.open PROVE Moved(t, t)
<1>1. t.file \in Seq(Nat) /\ t.open = TRUE
  BY DEF Good, Win
<1> QED BY <1>1, ExtendedSelf DEF Moved, Grown

\* The numbers of a window.
LEMMA WindowIs ==
  ASSUME NEW t, Good(t), t.open
  PROVE  /\ t.size \in Nat /\ t.base \in Nat /\ t.pos \in Nat /\ t.len \in Nat
         /\ t.faults \in Nat /\ t.writable \in BOOLEAN
         /\ t.file \in Seq(Nat) /\ t.size = Len(t.file) /\ t.pos <= t.len
         /\ TellOf(t) \in Nat /\ TellOf(t) = t.base + t.pos
         /\ t.base % Page = 0
         /\ t.len % Page = 0 \/ (~t.writable /\ t.base + t.len = t.size)
         /\ ~t.writable => t.base + t.len <= t.size
BY DEF Good, Win, Placed, TellOf

\* A window that is not empty reaches beyond an offset in its first page.
LEMMA PageReaches ==
  ASSUME NEW len \in Nat, len > 0, len % Page = 0, NEW off \in Nat, off < Page
  PROVE  off < len
<1>1. Page \in Nat \ {0}
  BY PageAssumption
<1>2. CASE len < Page
  <2>1. len % Page = len
    BY <1>1, <1>2
  <2> QED BY <2>1
<1>3. CASE ~(len < Page)
  BY <1>1, <1>3
<1> QED BY <1>2, <1>3

\* unaligned_remap: from is at m_pos in the new window.
LEMMA UnalignedRemapIs ==
  ASSUME NEW t, Good(t), t.open, NEW from \in Nat, from \in {TellOf(t), t.base + t.len},
         NEW n \in Nat, NEW o \in UnalignedRemap(t, from, n)
  PROVE  \/ o.exc = "eof" /\ o.w = t /\ ~t.writable /\ t.size <= from
         \/ Failed(t, o) /\ (t.faults > 0 \/ (~t.writable /\ TellOf(t) = t.size))
         \/ /\ o.exc = "none" /\ Moved(t, o.w) /\ TellOf(o.w) = from
            /\ o.w.base + o.w.len <= o.w.size
            /\ (~t.writable /\ from < t.size) => o.w.pos < o.w.len
<1> DEFINE down == AlignDown(from, Page)
           off  == from - down
           want == Greatest(Block, off + n)
           most == IF t.writable THEN want ELSE Least(want, t.size - TellOf(t))
<1>1. /\ t.size \in Nat /\ t.base \in Nat /\ t.pos \in Nat /\ t.len \in Nat
      /\ t.writable \in BOOLEAN /\ t.pos <= t.len /\ TellOf(t) = t.base + t.pos
      /\ ~t.writable => t.base + t.len <= t.size
  BY WindowIs
<1>2. /\ down \in Nat /\ down <= from /\ from < down + Page /\ down % Page = 0
      /\ Page \in Nat
  BY DownIs, PageAssumption
<1> HIDE DEF down
<1>3. off \in Nat /\ off < Page /\ from = down + off
  BY <1>2
<1> HIDE DEF off
<1>4. want \in Nat /\ want > 0 /\ want >= off + n
  <2>1. Block \in Nat \ {0}
    BY BlockAssumption
  <2> QED BY <1>3, <2>1 DEF Greatest
<1> HIDE DEF want
<1>5. /\ most \in Nat
      /\ most = 0 => ~t.writable /\ TellOf(t) = t.size
      /\ t.writable => most >= off
  BY <1>1, <1>3, <1>4 DEF Least
<1>6. PICK q \in Remap(t, down, most) :
        o \in IF q.exc = "none" THEN Fine([q.w EXCEPT !.pos = off]) ELSE {q}
  BY DEF UnalignedRemap, Then, down, off, want
<1> HIDE DEF most
<1>7. \/ q.exc = "eof" /\ q.w = t /\ ~t.writable /\ t.size <= down
      \/ Failed(t, q) /\ (t.faults > 0 \/ most = 0)
      \/ /\ q.exc = "none" /\ Remapped(t, q.w, down) /\ q.w.pos = 0
         /\ q.w.len >= IF t.writable THEN most ELSE Least(most, t.size - down)
  BY <1>2, <1>5, <1>6, RemapIs
<1>8. CASE q.exc = "eof" /\ q.w = t /\ ~t.writable /\ t.size <= down
  <2>1. o = q
    BY <1>6, <1>8
  <2>2. t.size <= from
    BY <1>1, <1>2, <1>8
  <2> QED BY <1>8, <2>1, <2>2
<1>9. CASE Failed(t, q) /\ (t.faults > 0 \/ most = 0)
  <2>1. o = q
    BY <1>6, <1>9 DEF Failed
  <2> QED BY <1>5, <1>9, <2>1
<1>10. CASE /\ q.exc = "none" /\ Remapped(t, q.w, down) /\ q.w.pos = 0
            /\ q.w.len >= IF t.writable THEN most ELSE Least(most, t.size - down)
  <2> DEFINE v == q.w
             u == [v EXCEPT !.pos = off]
  <2>1. o.exc = "none" /\ o.w = u
    BY <1>6, <1>10 DEF Fine
  <2>2. /\ Moved(t, v) /\ v.base = down /\ v.len > 0 /\ v.base + v.len <= v.size
        /\ t.writable => v.len >= most
    BY <1>10 DEF Remapped
  <2> HIDE DEF v
  <2>3. v.len \in Nat /\ v.size \in Nat /\ v.writable = t.writable
        /\ (v.len % Page = 0 \/ (~t.writable /\ v.base + v.len = v.size))
    <3>1. Good(v) /\ v.open /\ v.writable = t.writable
      BY <2>2 DEF Moved
    <3> QED BY <3>1, WindowIs
  <2>4. ~t.writable => v.size = t.size
    <3>1. Good(v) /\ v.open /\ Grown(t.writable, t.file, v.file)
      BY <2>2 DEF Moved
    <3>2. v.size = Len(v.file) /\ t.size = Len(t.file)
      BY <3>1, WindowIs
    <3> QED BY <3>1, <3>2 DEF Grown
  <2>5. off <= v.len /\ ((~t.writable /\ from < t.size) => off < v.len)
    <3>1. CASE v.len % Page = 0
      <4>1. off < v.len
        BY <1>3, <2>2, <2>3, <3>1, PageReaches
      <4> QED BY <1>3, <2>3, <4>1
    <3>2. CASE ~t.writable /\ v.base + v.len = v.size
      <4>1. down + v.len = t.size
        BY <2>2, <2>4, <3>2
      <4>2. from <= t.size
        BY <1>1, <3>2
      <4> QED BY <1>1, <1>2, <1>3, <2>3, <4>1, <4>2
    <3> QED BY <2>3, <3>1, <3>2
  <2>6. /\ Moved(t, u) /\ TellOf(u) = v.base + off /\ u.pos = off
        /\ u.base = v.base /\ u.len = v.len /\ u.size = v.size
    BY <1>3, <2>2, <2>5, MovedAgain
  <2> HIDE DEF u
  <2> QED BY <1>3, <2>1, <2>2, <2>5, <2>6
<1> QED BY <1>7, <1>8, <1>9, <1>10

\* seek: elsewhere in the window, or in another one.
LEMMA SeekToIs ==
  ASSUME NEW t, Good(t), t.open, NEW p \in Nat, NEW o \in SeekTo(t, p)
  PROVE  \/ o.exc = "none" /\ Moved(t, o.w) /\ TellOf(o.w) = p
         \/ /\ o.exc \in {"eof", "io"} /\ o.w = t /\ ~t.writable /\ t.size <= p
            /\ p > t.base + t.len \/ p < t.base
         \/ Failed(t, o) /\ t.faults > 0
<1> DEFINE beg == AlignDown(p, Block)
           off == p - beg
<1>1. /\ t.size \in Nat /\ t.base \in Nat /\ t.pos \in Nat /\ t.len \in Nat
      /\ t.writable \in BOOLEAN
  BY WindowIs
<1>2. beg \in Nat /\ beg <= p /\ p < beg + Block /\ beg % Page = 0 /\ Block \in Nat \ {0}
  BY BlockOnPage, BlockAssumption
<1> HIDE DEF beg
<1>3. off \in Nat /\ off < Block /\ p = beg + off
  BY <1>2
<1>4. CASE t.base <= p /\ p <= t.base + t.len
  <2> DEFINE k == p - t.base
             u == [t EXCEPT !.pos = k]
  <2>1. o.exc = "none" /\ o.w = u
    <3>1. SeekTo(t, p) = Fine(u)
      BY <1>4 DEF SeekTo
    <3> HIDE DEF u
    <3> QED BY <3>1 DEF Fine
  <2>2. k \in Nat /\ k <= t.len /\ t.base + k = p
    BY <1>1, <1>4
  <2> HIDE DEF k
  <2>3. Moved(t, t)
    BY MovedNot
  <2>4. Moved(t, u) /\ TellOf(u) = t.base + k
    BY <2>2, <2>3, MovedAgain
  <2> HIDE DEF u
  <2> QED BY <2>1, <2>2, <2>4
<1>5. CASE ~(t.base <= p /\ p <= t.base + t.len) /\ ~t.writable /\ p > t.size
  <2>1. o.exc = "io" /\ o.w = t
    BY <1>5 DEF SeekTo, Thrown
  <2>2. t.size <= p /\ (p > t.base + t.len \/ p < t.base)
    BY <1>1, <1>5
  <2> QED BY <1>5, <2>1, <2>2
<1>6. CASE ~(t.base <= p /\ p <= t.base + t.len) /\ ~(~t.writable /\ p > t.size)
  <2>1. PICK q \in Remap(t, beg, Block) :
          o \in IF q.exc = "none" THEN Fine([q.w EXCEPT !.pos = off]) ELSE {q}
    BY <1>6 DEF SeekTo, Then, beg, off
  <2>2. \/ q.exc = "eof" /\ q.w = t /\ ~t.writable /\ t.size <= beg
        \/ Failed(t, q) /\ (t.faults > 0 \/ Block = 0)
        \/ /\ q.exc = "none" /\ Remapped(t, q.w, beg) /\ q.w.pos = 0
           /\ q.w.len >= IF t.writable THEN Block ELSE Least(Block, t.size - beg)
    BY <1>2, <2>1, RemapIs
  <2> HIDE DEF off
  <2>3. CASE q.exc = "eof" /\ q.w = t /\ ~t.writable /\ t.size <= beg
    <3>1. o = q
      BY <2>1, <2>3
    <3>2. t.size <= p /\ (p > t.base + t.len \/ p < t.base)
      BY <1>1, <1>2, <1>6, <2>3
    <3> QED BY <2>3, <3>1, <3>2
  <2>4. CASE Failed(t, q) /\ (t.faults > 0 \/ Block = 0)
    <3>1. o = q
      BY <2>1, <2>4 DEF Failed
    <3> QED BY <1>2, <2>4, <3>1
  <2>5. CASE /\ q.exc = "none" /\ Remapped(t, q.w, beg) /\ q.w.pos = 0
             /\ q.w.len >= IF t.writable THEN Block ELSE Least(Block, t.size - beg)
    <3> DEFINE v == q.w
               u == [v EXCEPT !.pos = off]
    <3>1. o.exc = "none" /\ o.w = u
      BY <2>1, <2>5 DEF Fine
    <3>2. /\ Moved(t, v) /\ v.base = beg
          /\ v.len >= IF t.writable THEN Block ELSE Least(Block, t.size - beg)
      BY <2>5 DEF Remapped
    <3> HIDE DEF v
    <3>3. v.len \in Nat
      <4>1. Good(v) /\ v.open
        BY <3>2 DEF Moved
      <4> QED BY <4>1, WindowIs
    <3>4. off <= v.len
      <4>1. CASE t.writable
        BY <1>2, <1>3, <3>2, <3>3, <4>1
      <4>2. CASE ~t.writable
        <5>1. p <= t.size
          BY <1>1, <1>6, <4>2
        <5>2. off <= t.size - beg
          BY <1>1, <1>2, <1>3, <5>1
        <5> QED BY <1>1, <1>2, <1>3, <3>2, <3>3, <4>2, <5>2 DEF Least
      <4> QED BY <1>1, <4>1, <4>2
    <3>5. Moved(t, u) /\ TellOf(u) = v.base + off
      BY <1>3, <3>2, <3>4, MovedAgain DEF off
    <3> HIDE DEF u
    <3> QED BY <1>3, <3>1, <3>2, <3>5
  <2> QED BY <2>2, <2>3, <2>4, <2>5
<1> QED BY <1>4, <1>5, <1>6

(***************************************************************************)
(* What the client sees: the variables of MappedFile, and its actions.     *)
(***************************************************************************)

Content  == IF job.op \in {"none", "compare", "compare_blocks"} THEN w.file ELSE job.file
Position == IF Idle THEN TellOf(w) ELSE job.tell
State    == IF ~w.open THEN "closed" ELSE IF w.writable THEN "writing" ELSE "reading"
Pads     == Grown(State = "writing", Content, Content')

\* A step of the object is one of MappedFile, or shows nothing.
Shown == File!Next \/ UNCHANGED File!vars

\* A step loses no mapping, but a resize that fails.
Kept ==
  \/ w'.lost = w.lost \/ w'.lost = FALSE
  \/ call'.op \in {"set_fsize", "map"} /\ call'.exc = "io" /\ w.mapped /\ w.faults > 0

\* The two ways to say what is written are one.
LEMMA SameWords ==
  /\ \A f, p, b : File!Overlay(f, p, b) = Overlay(f, p, b)
  /\ \A c, d : d \in Seq(Nat) => (File!Padded(c, d) <=> Extended(c, d))
<1>1. ASSUME NEW f, NEW p, NEW b PROVE File!Overlay(f, p, b) = Overlay(f, p, b)
  BY DEF File!Overlay, File!Put, File!Zero, Overlay, Put, Zero
<1>2. ASSUME NEW c, NEW d \in Seq(Nat) PROVE File!Padded(c, d) <=> Extended(c, d)
  <2>1. DOMAIN d = 1..Len(d)
    OBVIOUS
  <2> QED BY <2>1 DEF File!Padded, File!Zero, Extended, Zero
<1> QED BY <1>1, <1>2

\* A file that grew by zero bytes under a mode that may write is one MappedFile lets be padded.
LEMMA PadsIs ==
  ASSUME Pads, Content' \in Seq(Nat) PROVE File!MayPad
<1>1. IF State = "writing" THEN Extended(Content, Content') ELSE Content' = Content
  BY DEF Pads, Grown
<1>2. IF State = "writing" THEN File!Padded(Content, Content') ELSE Content' = Content
  BY <1>1, SameWords
<1> QED BY <1>2 DEF File!MayPad, Content, State

\* The actions of MappedFile, one by one.
LEMMA ShowsNothing ==
  ASSUME Content' = Content, Position' = Position, State' = State, w'.faults = w.faults,
         call' = call
  PROVE  Shown
BY DEF Shown, File!vars, Content, Position, State

\* An open shows Open: an object at 0 over a file kept or cut to zeros, or a failure.
LEMMA ShowsOpen ==
  ASSUME call'.op = "open", State = "closed",
         \/ call'.exc = "none" /\ State' \in {"reading", "writing"} /\ Position' = 0
         \/ call'.exc = "io" /\ w.faults > 0 /\ State' = State /\ Position' = Position,
         Content' = Content \/ \E n \in 0..call'.at : Content' = [i \in 1..n |-> Zero]
  PROVE  Shown
<1>1. File!Open
  BY DEF File!Open, File!Zero, Zero, Content, Position, State
<1> QED BY <1>1 DEF Shown, File!Next

\* A read or a skip that ends well shows Read: the bytes at the position, in order.
LEMMA ShowsRead ==
  ASSUME call'.op \in {"read", "skip"}, call'.exc = "none", State # "closed",
         Pads, Content' \in Seq(Nat),
         Position' = Position + call'.len, Position' <= Len(Content'),
         call'.op = "read" => call'.bytes = SubSeq(Content', Position + 1, Position'),
         State' = State
  PROVE  Shown
<1>1. File!Read
  BY PadsIs DEF File!Read, Content, Position, State
<1> QED BY <1>1 DEF Shown, File!Next

\* A read past the end of a file opened for reading shows ReadEnd.
LEMMA ShowsEnd ==
  ASSUME call'.op \in {"read", "skip", "probe"}, State = "reading",
         Position + call'.len > Len(Content),
         \/ call'.exc = "eof" /\ Position' \in {Position, Len(Content)} /\ State' = State
         \/ call'.exc = "io" /\ Position' = 0 /\ State' = "closed",
         Content' = Content
  PROVE  Shown
<1>1. File!ReadEnd
  BY DEF File!ReadEnd, Content, Position, State
<1> QED BY <1>1 DEF Shown, File!Next

\* A write that ends well shows Write: the bytes laid over the file at the position.
LEMMA ShowsWrite ==
  ASSUME call'.op = "write", call'.exc = "none", State = "writing", Content' \in Seq(Nat),
         Extended(Overlay(Content, Position, call'.bytes), Content'),
         Position' = Position + Len(call'.bytes), State' = State
  PROVE  Shown
<1>1. File!Padded(File!Overlay(Content, Position, call'.bytes), Content')
  BY SameWords
<1>2. File!Write
  BY <1>1 DEF File!Write, Content, Position, State
<1> QED BY <1>2 DEF Shown, File!Next

\* A seek shows Seek, whether it moves or refuses.
LEMMA ShowsSeek ==
  ASSUME call'.op = "seek", State # "closed", Pads, Content' \in Seq(Nat),
         \/ call'.exc = "none" /\ Position' = call'.at
         \/ call'.exc \in {"eof", "io"} /\ State = "reading" /\ call'.at >= Len(Content)
            /\ Position' = Position,
         State' = State
  PROVE  Shown
<1>1. File!Seek
  BY PadsIs DEF File!Seek, Content, Position, State
<1> QED BY <1>1 DEF Shown, File!Next

\* A probe that ends well shows Look: the position stays.
LEMMA ShowsProbe ==
  ASSUME call'.op = "probe", call'.exc = "none", Pads, Content' \in Seq(Nat),
         State' = State, Position' = Position
  PROVE  Shown
<1>1. File!Look
  BY PadsIs DEF File!Look, Content, Position, State
<1> QED BY <1>1 DEF Shown, File!Next

\* The questions tell, size and eof show Look with the answers of the file.
LEMMA ShowsAsk ==
  ASSUME call'.op = "ask", call'.exc = "none", Content' = Content, State' = State,
         Position' = Position,
         State # "closed" =>
           call'.bytes = <<Position, Len(Content), IF Position = Len(Content) THEN 1 ELSE 0>>
  PROVE  Shown
<1>1. File!Look
  BY DEF File!Look, Content, Position, State
<1> QED BY <1>1 DEF Shown, File!Next

\* A look through a region shows Look: the bytes are those of the file.
LEMMA ShowsPeek ==
  ASSUME call'.op = "peek", call'.exc = "none", Content' = Content, State' = State,
         Position' = Position,
         call'.bytes = SubSeq(Content, call'.at + 1, call'.at + call'.len)
  PROVE  Shown
<1>1. File!Look
  BY DEF File!Look, Content, Position, State
<1> QED BY <1>1 DEF Shown, File!Next

\* A comparison shows Look, wherever it leaves the position.
LEMMA ShowsCompare ==
  ASSUME call'.op = "compare", call'.exc = "none", Content' = Content, State' = State,
         Position' \in 0..Len(Content)
  PROVE  Shown
<1>1. File!Look
  BY DEF File!Look, Content, Position, State
<1> QED BY <1>1 DEF Shown, File!Next

\* A comparison that throws, or that an assertion ends, shows CompareThrows.
LEMMA ShowsThrow ==
  ASSUME call'.op = "compare", State # "closed", Content' = Content,
         \/ /\ w.faults > 0 /\ call'.exc \in {"nomap", "other"}
            /\ Position' \in 0..Len(Content) /\ State' = State
         \/ call'.exc = "abort" /\ Position' = 0 /\ State' = "closed"
  PROVE  Shown
<1>1. File!CompareThrows
  BY DEF File!CompareThrows, Content, Position, State
<1> QED BY <1>1 DEF Shown, File!Next

\* Mapping, unmapping and writing a region show Region.
LEMMA ShowsRegion ==
  ASSUME \/ call'.op = "map" /\ (call'.exc = "none" \/ (call'.exc = "nomap" /\ w.faults > 0))
            /\ Pads /\ Content' \in Seq(Nat)
         \/ call'.op = "unmap" /\ Content' = Content
         \/ call'.op = "poke" /\ Content' = Overlay(Content, call'.at, call'.bytes),
         Position' = Position, State' = State
  PROVE  Shown
<1>1. \/ call'.op = "map" /\ (call'.exc = "none" \/ (call'.exc = "nomap" /\ w.faults > 0))
         /\ File!MayPad
      \/ call'.op = "unmap" /\ Content' = Content
      \/ call'.op = "poke" /\ Content' = File!Overlay(Content, call'.at, call'.bytes)
  BY PadsIs, SameWords
<1>2. File!Region
  BY <1>1 DEF File!Region, Content, Position, State
<1> QED BY <1>2 DEF Shown, File!Next

\* set_fsize shows SetSize: cut, or padded with zeros.
LEMMA ShowsSetSize ==
  ASSUME call'.op = "set_fsize", call'.exc = "none", State = "writing",
         Content' \in Seq(Nat), Len(Content') = call'.at,
         \A i \in 1..Len(Content') :
            Content'[i] = IF i <= Len(Content) THEN Content[i] ELSE Zero,
         Position' = Position, State' = State
  PROVE  Shown
<1>1. DOMAIN Content' = 1..Len(Content')
  OBVIOUS
<1>2. File!SetSize
  BY <1>1 DEF File!SetSize, File!Zero, Zero, Content, Position, State
<1> QED BY <1>2 DEF Shown, File!Next

\* A close shows Close: the file stays.
LEMMA ShowsClose ==
  ASSUME call'.op = "close", State' = "closed", Position' = 0, Content' = Content
  PROVE  Shown
<1>1. File!Close
  BY DEF File!Close, Content, Position, State
<1> QED BY <1>1 DEF Shown, File!Next

\* A failing system call shows Fail: closed, the file padded or the write done in part.
LEMMA ShowsFail ==
  ASSUME w.faults > 0, call'.exc = "io", call'.op \notin {"open", "close"}, State # "closed",
         Content' \in Seq(Nat), Position' = 0, State' = "closed",
         \/ Pads
         \/ /\ call'.op = "write" /\ State = "writing" /\ call'.bytes \in Seq(Nat)
            /\ Extended(Overlay(Content, Position, call'.bytes), Content')
  PROVE  Shown
<1>1. ASSUME call'.op = "write", State = "writing", call'.bytes \in Seq(Nat),
             Extended(Overlay(Content, Position, call'.bytes), Content')
      PROVE  \E k \in 0..Len(call'.bytes) :
               File!Padded(File!Overlay(Content, Position, SubSeq(call'.bytes, 1, k)), Content')
  <2>1. SubSeq(call'.bytes, 1, Len(call'.bytes)) = call'.bytes
        /\ Len(call'.bytes) \in 0..Len(call'.bytes)
    BY <1>1
  <2>2. File!Padded(File!Overlay(Content, Position, call'.bytes), Content')
    BY <1>1, SameWords
  <2> QED BY <2>1, <2>2
<1>2. File!Fail
  <2>1. \/ File!MayPad
        \/ /\ call'.op = "write" /\ State = "writing"
           /\ \E k \in 0..Len(call'.bytes) :
                File!Padded(File!Overlay(Content, Position, SubSeq(call'.bytes, 1, k)), Content')
    BY <1>1, PadsIs
  <2> QED BY <2>1 DEF File!Fail, Content, Position, State
<1> QED BY <1>2 DEF Shown, File!Next

(***************************************************************************)
(* What a call leaves behind.                                              *)
(***************************************************************************)

\* The region and the count of the bytes written are as they may be.
Rest == (region' = NoRegion \/ region' \in Regions) /\ written' \in 0..MaxWritten

\* No job is a job of type Jobs.
LEMMA NoJobIs == NoJob \in Jobs /\ NoJob.op = "none"
<1>1. 0 \in Nat /\ <<>> \in Seq(Nat)
  OBVIOUS
<1> QED BY <1>1 DEF NoJob, Jobs

\* A step that leaves region and count alone leaves them as they may be.
LEMMA RestIs ==
  ASSUME IInv, region' = region, written' = written PROVE Rest
BY DEF IInv, Rest

\* The state of an open object.
LEMMA OpenIs ==
  ASSUME IInv, w.open
  PROVE  /\ Good(w) /\ w.open = TRUE /\ w.lost \in BOOLEAN
         /\ State # "closed" /\ (State = "writing" <=> w.writable)
         /\ (State = "reading" <=> ~w.writable)
BY DEF IInv, Good, Win, State

\* What a client sees between two calls.
LEMMA IdleIs ==
  ASSUME job.op = "none" PROVE Content = w.file /\ Position = TellOf(w)
BY DEF Content, Position, Idle

\* What a client sees after a step that ends a call.
LEMMA IdleThen ==
  ASSUME job'.op = "none" PROVE Content' = w'.file /\ Position' = TellOf(w')
BY DEF Content, Position, Idle

\* What a client sees in a call.
LEMMA BusyIs ==
  ASSUME job.op \in {"read", "skip", "write"} PROVE Content = job.file /\ Position = job.tell
BY DEF Content, Position, Idle

\* What a client sees after a step that stays in a call.
LEMMA BusyThen ==
  ASSUME job'.op \in {"read", "skip", "write"}
  PROVE  Content' = job'.file /\ Position' = job'.tell
BY DEF Content, Position, Idle

\* A window that moved keeps the object open.
LEMMA StateThen ==
  ASSUME IInv, w.open, Moved(w, w') PROVE State' = State /\ Kept /\ w'.faults = w.faults
BY DEF IInv, Good, Win, Moved, State, Kept

\* The call is over, and the window moved, or not.
LEMMA MovedShows ==
  ASSUME IInv, w.open, Moved(w, w'), job' \in Jobs, job'.op = "none", Rest
  PROVE  /\ IInv' /\ State' = State /\ Kept /\ w'.faults = w.faults
         /\ Content' = w'.file /\ Content' \in Seq(Nat) /\ Position' = TellOf(w')
         /\ Len(Content') = w'.size
<1>1. Good(w') /\ w'.open
  BY DEF Moved
<1>2. IInv'
  BY <1>1 DEF IInv, Rest, Good, Placed
<1>3. w'.file \in Seq(Nat) /\ Len(w'.file) = w'.size
  BY <1>1, WindowIs
<1> QED BY <1>2, <1>3, IdleThen, StateThen

\* The call is over, and the file closed.
LEMMA ClosedShows ==
  ASSUME IInv, Closes(w, w'), job' \in Jobs, job'.op = "none", Rest
  PROVE  /\ IInv' /\ State' = "closed" /\ Content' = w'.file /\ Content' \in Seq(Nat)
         /\ Position' = 0
<1>1. Good(w') /\ TellOf(w') = 0
  BY ClosesGood
<1>2. IInv'
  BY <1>1 DEF IInv, Rest, Good, Placed
<1>3. w'.file \in Seq(Nat) /\ ~w'.open
  BY DEF Closes, Win
<1> QED BY <1>1, <1>2, <1>3, IdleThen DEF State

\* A system call failed in a call that does not write.
LEMMA FailedShows ==
  ASSUME IInv, w.open, job.op = "none" \/ (Content = job.file /\ Grown(w.writable, job.file, w.file)),
         NEW o, Failed(w, o), w' = o.w, call'.exc = "io", w.faults > 0,
         call'.op \notin {"open", "close"},
         job' \in Jobs, job'.op = "none", Rest
  PROVE  IInv' /\ Shown /\ Kept
<1>1. Good(w) /\ State # "closed" /\ (State = "writing" <=> w.writable) /\ w.writable \in BOOLEAN
  BY OpenIs DEF Good, Win
<1>2. Closes(w, w') /\ w'.lost = w.lost /\ Grown(w.writable, w.file, w'.file)
  BY DEF Failed
<1>3. IInv' /\ State' = "closed" /\ Content' = w'.file /\ Content' \in Seq(Nat) /\ Position' = 0
  BY <1>2, ClosedShows
<1>4. w.file \in Seq(Nat)
  BY <1>1, WindowIs
<1>5. Grown(w.writable, Content, w'.file)
  <2>1. CASE job.op = "none"
    BY <1>2, <2>1, IdleIs
  <2>2. CASE Content = job.file /\ Grown(w.writable, job.file, w.file)
    <3>1. job.file \in Seq(Nat)
      BY DEF IInv, Jobs
    <3> QED BY <1>2, <1>3, <1>4, <2>2, <3>1, ExtendedTwice DEF Grown
  <2> QED BY <2>1, <2>2
<1>6. Pads
  BY <1>1, <1>3, <1>5 DEF Pads, Grown
<1>7. Shown
  BY <1>1, <1>3, <1>6, ShowsFail
<1> QED BY <1>2, <1>3, <1>7 DEF Kept

\* An idle object whose window moved has padded the file at most.
LEMMA PadsIdle ==
  ASSUME IInv, w.open, job.op = "none", job'.op = "none", Moved(w, w') PROVE Pads
<1>1. Grown(w.writable, w.file, w'.file)
  BY DEF Moved
<1> QED BY <1>1, OpenIs, IdleIs, IdleThen DEF Pads, Grown

(***************************************************************************)
(* The calls that are done when they return.                               *)
(***************************************************************************)

\* m_pos goes on in the window, over bytes of the file.
LEMMA Forth ==
  ASSUME IInv, w.open, NEW n \in Nat, n <= Room, w.base + w.len <= w.size
  PROVE  LET u == [w EXCEPT !.pos = @ + n]
         IN  Moved(w, u) /\ TellOf(u) = TellOf(w) + n /\ u.file = w.file /\ TellOf(u) <= w.size
<1> DEFINE k == w.pos + n
           u == [w EXCEPT !.pos = k]
<1>1. Good(w)
  BY DEF IInv
<1>2. w.pos \in Nat /\ w.len \in Nat /\ w.base \in Nat /\ w.size \in Nat
      /\ TellOf(w) = w.base + w.pos
  BY <1>1, WindowIs
<1>3. k \in Nat /\ k <= w.len /\ w.base + k <= w.size /\ w.base + k = TellOf(w) + n
  BY <1>2 DEF Room
<1> HIDE DEF k
<1>4. Moved(w, w)
  BY <1>1, MovedNot
<1>5. Moved(w, u) /\ TellOf(u) = w.base + k /\ u.file = w.file
  BY <1>3, <1>4, MovedAgain
<1>6. Moved(w, u) /\ TellOf(u) = TellOf(w) + n /\ u.file = w.file /\ TellOf(u) <= w.size
  <2> HIDE DEF u
  <2> QED BY <1>3, <1>5
<1> QED BY <1>6 DEF k

\* A read or a skip within the window.
LEMMA InWindowShows ==
  ASSUME Careful, IInv, Usable, MayTouch, NEW len \in Nat, len <= Room,
         w' = [w EXCEPT !.pos = @ + len], job' = job, region' = region, written' = written,
         call'.op \in {"read", "skip"}, call'.exc = "none", call'.len = len,
         call'.op = "read" => call'.bytes = InWindow(len)
  PROVE  IInv' /\ Shown /\ Kept
<1>1. w.open /\ job.op = "none" /\ w.base + w.len <= w.size /\ Good(w)
      /\ job' \in Jobs /\ job'.op = "none" /\ Rest
  BY RestIs DEF Usable, Idle, MayTouch, IInv
<1>2. /\ Moved(w, w') /\ TellOf(w') = TellOf(w) + len /\ w'.file = w.file
      /\ TellOf(w') <= w.size
  BY <1>1, Forth
<1>3. /\ IInv' /\ State' = State /\ Kept /\ Content' = w'.file /\ Content' \in Seq(Nat)
      /\ Position' = TellOf(w')
  BY <1>1, <1>2, MovedShows
<1>4. Content = w.file /\ Position = TellOf(w) /\ State # "closed" /\ w.size = Len(w.file)
  BY <1>1, IdleIs, OpenIs, WindowIs
<1>5. Pads
  BY <1>1, <1>2, PadsIdle
<1>6. Position' = Position + call'.len /\ Position' <= Len(Content')
  BY <1>2, <1>3, <1>4
<1>7. call'.op = "read" => call'.bytes = SubSeq(Content', Position + 1, Position')
  BY <1>2, <1>3, <1>4 DEF InWindow
<1>8. Shown
  BY <1>3, <1>4, <1>5, <1>6, <1>7, ShowsRead
<1> QED BY <1>3, <1>8

\* A read or a skip that leaves the window shows nothing yet.
LEMMA BeginShows ==
  ASSUME Careful, IInv, Usable, MayTouch, NEW len \in Nat, ~(len <= Room),
         NEW op \in {"read", "skip"}, Begin(op, len, InWindow(Room), w.file),
         region' = region, written' = written
  PROVE  IInv' /\ Shown /\ Kept
<1> DEFINE b == InWindow(Room)
           r == Room
<1>1. w.open /\ job.op = "none" /\ w.base + w.len <= w.size /\ Good(w) /\ Rest
  BY RestIs DEF Usable, Idle, MayTouch, IInv
<1>2. /\ w.pos \in Nat /\ w.len \in Nat /\ w.base \in Nat /\ w.size \in Nat /\ w.pos <= w.len
      /\ TellOf(w) = w.base + w.pos /\ w.size = Len(w.file) /\ w.file \in Seq(Nat)
  BY <1>1, WindowIs
<1>3. /\ r \in Nat /\ TellOf(w) + r = w.base + w.len /\ TellOf(w) \in Nat
      /\ TellOf(w) + r <= Len(w.file) /\ r < len
  BY <1>1, <1>2 DEF Room
<1>4. /\ job' = [op |-> op, len |-> len, bytes |-> b, file |-> w.file, tell |-> TellOf(w)]
      /\ call' = call /\ w' = w
  <2>1. [w EXCEPT !.file = w.file] = w
    <3>1. w \in Win
      BY <1>1 DEF Good
    <3> QED BY <3>1 DEF Win
  <2> QED BY <2>1 DEF Begin
<1>5. b = SubSeq(w.file, TellOf(w) + 1, TellOf(w) + r)
  BY DEF InWindow
<1> HIDE DEF r, b
<1>6. b \in Seq(Nat) /\ Len(b) = r
  BY <1>2, <1>3, <1>5, PartOK, ZenonT(30)
<1>7. /\ job' \in Jobs /\ job'.op = op /\ job'.len = len /\ job'.bytes = b
      /\ job'.file = w.file /\ job'.tell = TellOf(w)
  BY <1>2, <1>3, <1>4, <1>6 DEF Jobs
<1>8. Reading'
  <2>1. w'.base + w'.len = job'.tell + Len(job'.bytes) /\ w'.base + w'.len <= w'.size
    BY <1>1, <1>3, <1>4, <1>6, <1>7
  <2>2. TellOf(w') = job'.tell
    BY <1>4, <1>7
  <2>3. job'.bytes = SubSeq(w'.file, job'.tell + 1, job'.tell + Len(job'.bytes))
    BY <1>4, <1>5, <1>6, <1>7
  <2>4. Grown(w'.writable, job'.file, w'.file)
    BY <1>2, <1>4, <1>7, ExtendedSelf DEF Grown
  <2> QED BY <2>1, <2>2, <2>3, <2>4 DEF Reading
<1>9. IInv'
  <2>1. Working'
    BY <1>1, <1>3, <1>4, <1>6, <1>7, <1>8 DEF Working, Comparisons
  <2> QED BY <1>1, <1>4, <1>7, <2>1 DEF IInv, Rest
<1>10. Content' = Content /\ Position' = Position /\ State' = State
  BY <1>1, <1>4, <1>7, IdleIs, BusyThen DEF State
<1> QED BY <1>4, <1>9, <1>10, ShowsNothing DEF Kept

\* read: in the window, or the first part of a longer read.
LEMMA ReadStep ==
  ASSUME Careful, IInv, NEW len \in Lengths, Read(len)
  PROVE  IInv' /\ Shown /\ Kept
<1>1. Usable /\ MayTouch /\ len \in Nat /\ region' = region /\ written' = written
  BY InputsAssumption DEF Read, Touchable
<1>2. CASE len <= Room
  <2>1. /\ w' = [w EXCEPT !.pos = @ + len] /\ job' = job
        /\ call'.op = "read" /\ call'.exc = "none" /\ call'.len = len
        /\ call'.bytes = InWindow(len)
    BY <1>2 DEF Read, Return, Called
  <2> QED BY <1>1, <1>2, <2>1, InWindowShows
<1>3. CASE ~(len <= Room)
  <2>1. Begin("read", len, InWindow(Room), w.file)
    BY <1>3 DEF Read
  <2> QED BY <1>1, <1>3, <2>1, BeginShows
<1> QED BY <1>2, <1>3

\* skip: in the window, or the first part of a longer skip.
LEMMA SkipStep ==
  ASSUME Careful, IInv, NEW len \in Lengths, Skip(len)
  PROVE  IInv' /\ Shown /\ Kept
<1>1. Usable /\ MayTouch /\ len \in Nat /\ region' = region /\ written' = written
  BY InputsAssumption DEF Skip, Touchable
<1>2. CASE len <= Room
  <2>1. /\ w' = [w EXCEPT !.pos = @ + len] /\ job' = job
        /\ call'.op = "skip" /\ call'.exc = "none" /\ call'.len = len
    BY <1>2 DEF Skip, Return, Called
  <2> QED BY <1>1, <1>2, <2>1, InWindowShows
<1>3. CASE ~(len <= Room)
  <2>1. Begin("skip", len, InWindow(Room), w.file)
    BY <1>3 DEF Skip
  <2> QED BY <1>1, <1>3, <2>1, BeginShows
<1> QED BY <1>2, <1>3

\* open(). The window is none; a file that is cut holds zeros.
LEMMA OpenedIs ==
  ASSUME NEW t, Good(t), ~t.open, NEW rw \in BOOLEAN, NEW trunc \in BOOLEAN, NEW n \in Nat,
         NEW o \in Opened(t, rw, trunc, n)
  PROVE  LET u == o.w
         IN  /\ Good(u) /\ u.lost = t.lost /\ TellOf(u) = 0
             /\ u.file = t.file \/ \E k \in 0..n : u.file = [i \in 1..k |-> Zero]
             /\ \/ o.exc = "none" /\ u.open = TRUE
                \/ o.exc = "io" /\ u.open = FALSE /\ t.faults > 0
<1> DEFINE f == Fresh(t)
           l == t.lost \/ t.mapped
           x == [f EXCEPT !.lost = l, !.writable = rw]
           c == IF trunc THEN <<>> ELSE t.file
           y == [x EXCEPT !.open = TRUE, !.file = IF trunc THEN <<>> ELSE @, !.size = n]
           known(u) == Fine([u EXCEPT !.size = Len(u.file)])
<1>1. t \in Win /\ t.mapped = FALSE /\ t.lost \in BOOLEAN /\ t.file \in Seq(Nat)
  BY DEF Good, Placed, Win
<1>2. l = t.lost
  BY <1>1
<1>3. Closes(t, f) /\ f.file = t.file /\ f.faults = t.faults
  BY <1>1, FreshIs
<1>4. o \in (IF trunc THEN Then(SetFsize(y, n), known) ELSE known(y)) \cup Maybe(x, CleanupAndThrow)
  BY DEF Opened
<1> HIDE DEF f, l
<1>5. /\ x \in Win /\ x.file = t.file /\ x.open = FALSE /\ x.writable = rw
      /\ x.size = 0 /\ x.base = 0 /\ x.pos = 0 /\ x.len = 0 /\ x.mapped = FALSE
      /\ x.faults = t.faults /\ x.lost = t.lost
  <2>1. /\ f \in Win /\ f.file = t.file /\ f.open = FALSE /\ f.writable = t.writable
        /\ f.size = 0 /\ f.base = 0 /\ f.pos = 0 /\ f.len = 0 /\ f.mapped = FALSE
        /\ f.faults = t.faults
    BY <1>3 DEF Closes
  <2> QED BY <1>1, <1>2, <2>1 DEF Win
<1> HIDE DEF x
<1>6. c \in Seq(Nat)
  BY <1>1
<1>7. /\ y \in Win /\ y.file = c /\ y.open = TRUE /\ y.writable = rw
      /\ y.size = n /\ y.base = 0 /\ y.pos = 0 /\ y.len = 0 /\ y.mapped = FALSE
      /\ y.faults = t.faults /\ y.lost = t.lost
  <2>1. y = [x EXCEPT !.open = TRUE, !.file = c, !.size = n]
    BY <1>5
  <2> HIDE DEF y, c
  <2> QED BY <1>5, <1>6, <2>1 DEF Win
<1> HIDE DEF y
<1>8. 0 % Page = 0
  <2>1. (0 * Page) % Page = 0 /\ 0 * Page = 0
    BY PageAssumption, MultipleIs
  <2> QED BY <2>1
<1>9. ASSUME NEW v \in Win, v.open = TRUE, v.base = 0, v.pos = 0, v.len = 0,
             v.mapped = FALSE, v.lost = t.lost,
             v.file = t.file \/ \E k \in 0..n : v.file = [i \in 1..k |-> Zero],
             o \in known(v)
      PROVE  LET u == o.w
             IN  /\ Good(u) /\ u.lost = t.lost /\ TellOf(u) = 0
                 /\ u.file = t.file \/ \E k \in 0..n : u.file = [i \in 1..k |-> Zero]
                 /\ o.exc = "none" /\ u.open = TRUE
  <2> DEFINE m == Len(v.file)
             u == [v EXCEPT !.size = m]
  <2>1. o.w = u /\ o.exc = "none"
    <3>1. o \in Fine(u)
      BY <1>9
    <3> HIDE DEF u, known
    <3> QED BY <3>1 DEF Fine
  <2>2. m \in Nat
    <3>1. v.file \in Seq(Nat)
      BY <1>9 DEF Win
    <3> QED BY <3>1
  <2>3. m = Len(v.file)
    OBVIOUS
  <2> HIDE DEF m
  <2>4. /\ u \in Win /\ u.file = v.file /\ u.open = TRUE /\ u.writable = v.writable
        /\ u.size = m /\ u.base = 0 /\ u.pos = 0 /\ u.len = 0 /\ u.mapped = FALSE
        /\ u.lost = t.lost
    <3>1. v \in Win /\ v.open = TRUE /\ v.base = 0 /\ v.pos = 0 /\ v.len = 0
          /\ v.mapped = FALSE /\ v.lost = t.lost
      BY <1>9
    <3> QED BY <2>2, <3>1 DEF Win
  <2> HIDE DEF u
  <2>5. Good(u) /\ TellOf(u) = 0
    BY <1>8, <2>2, <2>3, <2>4 DEF Good, Placed, TellOf
  <2> QED BY <1>9, <2>1, <2>4, <2>5
<1>10. CASE o \in Maybe(x, CleanupAndThrow)
  <2>1. /\ x.faults > 0 /\ o.exc = "io" /\ Closes(x, o.w) /\ o.w.file = x.file
        /\ o.w.lost = (x.lost \/ x.mapped)
    BY <1>5, <1>10, FaultIs
  <2>2. Good(o.w) /\ TellOf(o.w) = 0 /\ o.w.open = FALSE
    BY <2>1, ClosesGood DEF Closes
  <2> QED BY <1>1, <1>5, <2>1, <2>2
<1>11. CASE ~trunc /\ o \in known(y)
  <2> HIDE DEF known
  <2> QED BY <1>7, <1>9, <1>11
<1>12. CASE trunc /\ o \in Then(SetFsize(y, n), known)
  <2>1. PICK q \in SetFsize(y, n) : o \in IF q.exc = "none" THEN known(q.w) ELSE {q}
    BY <1>12 DEF Then
  <2>2. \/ q.exc = "none" /\ Resized(y, q.w, n)
        \/ /\ y.faults > 0
           /\ q.exc = "io" /\ Closes(y, q.w) /\ q.w.file = y.file
           /\ q.w.lost = (y.lost \/ y.mapped)
    BY <1>7, <2>1, SetFsizeIs
  <2>3. CASE q.exc = "none" /\ Resized(y, q.w, n)
    <3> DEFINE v == q.w
    <3>1. /\ v \in Win /\ v.open = TRUE /\ v.base = 0 /\ v.pos = 0 /\ v.len = 0
          /\ v.mapped = FALSE /\ v.lost = t.lost /\ v.file = Truncated(<<>>, n)
      BY <1>7, <1>12, <2>3 DEF Resized
    <3>2. o \in known(v)
      BY <2>1, <2>3
    <3> HIDE DEF v, known
    <3>3. Truncated(<<>>, n) = [i \in 1..n |-> Zero]
      BY DEF Truncated
    <3>4. n \in 0..n
      OBVIOUS
    <3> QED BY <1>9, <3>1, <3>2, <3>3, <3>4
  <2>4. CASE /\ y.faults > 0
             /\ q.exc = "io" /\ Closes(y, q.w) /\ q.w.file = y.file
             /\ q.w.lost = (y.lost \/ y.mapped)
    <3>1. o = q
      BY <2>1, <2>4
    <3>2. Good(o.w) /\ TellOf(o.w) = 0 /\ o.w.open = FALSE
      BY <2>4, <3>1, ClosesGood DEF Closes
    <3>3. o.w.file = [i \in 1..0 |-> Zero] /\ 0 \in 0..n
      BY <1>7, <1>12, <2>4, <3>1
    <3>4. o.w.lost = t.lost /\ t.faults > 0
      BY <1>1, <1>7, <2>4, <3>1
    <3> QED BY <2>4, <3>1, <3>2, <3>3, <3>4
  <2> QED BY <2>2, <2>3, <2>4
<1> QED BY <1>4, <1>9, <1>10, <1>11, <1>12

\* open, for each mode and size, with the failures of its system calls.
LEMMA OpenStep ==
  ASSUME Careful, IInv, NEW m \in Modes, NEW n \in NewSizes, Open(m, n)
  PROVE  IInv' /\ Shown /\ Kept
<1>1. /\ job.op = "none" /\ ~w.open /\ Good(w) /\ n \in Nat
      /\ job' = job /\ job \in Jobs /\ Rest
  BY InputsAssumption, RestIs DEF Open, Idle, MayOpen, IInv
<1>2. PICK o \in Opened(w, m # "read", m = "trunc", n) :
        w' = o.w /\ call'.op = "open" /\ call'.exc = o.exc /\ call'.at = n
  BY DEF Open, Return, Called
<1>3. /\ Good(w') /\ w'.lost = w.lost /\ TellOf(w') = 0
      /\ w'.file = w.file \/ \E k \in 0..n : w'.file = [i \in 1..k |-> Zero]
      /\ \/ o.exc = "none" /\ w'.open = TRUE
         \/ o.exc = "io" /\ w'.open = FALSE /\ w.faults > 0
  <2> DEFINE rw == m # "read"
             trunc == m = "trunc"
  <2>1. rw \in BOOLEAN /\ trunc \in BOOLEAN
    OBVIOUS
  <2>2. o \in Opened(w, rw, trunc, n)
    BY <1>2
  <2> HIDE DEF rw, trunc
  <2>3. LET u == o.w
        IN  /\ Good(u) /\ u.lost = w.lost /\ TellOf(u) = 0
            /\ u.file = w.file \/ \E k \in 0..n : u.file = [i \in 1..k |-> Zero]
            /\ \/ o.exc = "none" /\ u.open = TRUE
               \/ o.exc = "io" /\ u.open = FALSE /\ w.faults > 0
    BY <1>1, <2>1, <2>2, OpenedIs
  <2> QED BY <1>2, <2>3
<1>4. IInv'
  BY <1>1, <1>3 DEF IInv, Rest
<1>5. /\ Content = w.file /\ Position = TellOf(w) /\ State = "closed"
      /\ Content' = w'.file /\ Position' = TellOf(w')
  BY <1>1, IdleIs, IdleThen DEF State
<1>6. TellOf(w) = 0
  <2>1. w.base = 0 /\ w.len = 0 /\ w.pos <= w.len /\ w.pos \in Nat
    BY <1>1 DEF Good, Placed, Win
  <2> QED BY <2>1 DEF TellOf
<1>7. \/ call'.exc = "none" /\ State' \in {"reading", "writing"}
      \/ call'.exc = "io" /\ w.faults > 0 /\ State' = "closed"
  BY <1>2, <1>3 DEF State
<1>8. Shown
  BY <1>2, <1>3, <1>5, <1>6, <1>7, ShowsOpen
<1> QED BY <1>3, <1>4, <1>8 DEF Kept

\* close: an object as new, the file as it was.
LEMMA CloseStep ==
  ASSUME Careful, IInv, Close
  PROVE  IInv' /\ Shown /\ Kept
<1>1. job.op = "none" /\ w \in Win /\ job' = job /\ job \in Jobs /\ Rest
      /\ w' = Fresh(w) /\ call'.op = "close"
  BY RestIs DEF Close, Usable, Idle, IInv, Good, Closed, Called
<1>2. Closes(w, w') /\ w'.file = w.file /\ w'.lost = w.lost
  BY <1>1, FreshIs
<1>3. IInv' /\ State' = "closed" /\ Content' = w'.file /\ Position' = 0
  BY <1>1, <1>2, ClosedShows
<1>4. Content' = Content
  BY <1>1, <1>2, <1>3, IdleIs
<1>5. Shown
  BY <1>1, <1>3, <1>4, ShowsClose
<1> QED BY <1>2, <1>3, <1>5 DEF Kept

\* probe looks for bytes, and padding may be all it finds.
LEMMA ProbeStep ==
  ASSUME Careful, IInv, NEW len \in Lengths, Probe(len)
  PROVE  IInv' /\ Shown /\ Kept
<1>1. /\ w.open /\ job.op = "none" /\ Good(w) /\ len \in Nat \ {0}
      /\ job' \in Jobs /\ job'.op = "none" /\ Rest
  BY InputsAssumption, RestIs DEF Probe, Touchable, Usable, Idle, IInv
<1>2. Content = w.file /\ Position = TellOf(w) /\ State # "closed"
      /\ (State = "reading" <=> ~w.writable)
  BY <1>1, IdleIs, OpenIs
<1>3. /\ w.size = Len(w.file) /\ TellOf(w) \in Nat /\ w.size \in Nat
  BY <1>1, WindowIs
<1>4. CASE len <= Room
  <2>1. w' = w /\ call'.op = "probe" /\ call'.exc = "none"
    BY <1>4 DEF Probe, Called
  <2>2. Moved(w, w')
    BY <1>1, <2>1, MovedNot
  <2>3. /\ IInv' /\ State' = State /\ Kept /\ Content' \in Seq(Nat)
        /\ Position' = TellOf(w') /\ Pads
    BY <1>1, <2>2, MovedShows, PadsIdle
  <2>4. Position' = Position
    BY <1>2, <2>1, <2>3
  <2> QED BY <2>1, <2>3, <2>4, ShowsProbe
<1>5. CASE ~(len <= Room)
  <2> DEFINE n == Greatest(Block, len)
             from == TellOf(w)
  <2>1. PICK o \in UnalignedRemap(w, from, n) :
          w' = o.w /\ call'.op = "probe" /\ call'.exc = o.exc /\ call'.len = len
    BY <1>5 DEF Probe, Return, Called
  <2>2. n \in Nat
    BY <1>1, BlockAssumption DEF Greatest
  <2>3. from \in Nat /\ from \in {TellOf(w), w.base + w.len} /\ from = TellOf(w)
    BY <1>3
  <2> HIDE DEF n, from
  <2>4. \/ o.exc = "eof" /\ o.w = w /\ ~w.writable /\ w.size <= from
        \/ Failed(w, o) /\ (w.faults > 0 \/ (~w.writable /\ TellOf(w) = w.size))
        \/ o.exc = "none" /\ Moved(w, o.w) /\ TellOf(o.w) = from
    BY <1>1, <2>1, <2>2, <2>3, UnalignedRemapIs
  <2>5. CASE o.exc = "none" /\ Moved(w, o.w) /\ TellOf(o.w) = from
    <3>1. /\ IInv' /\ State' = State /\ Kept /\ Content' \in Seq(Nat)
          /\ Position' = TellOf(w') /\ Pads
      BY <1>1, <2>1, <2>5, MovedShows, PadsIdle
    <3>2. Position' = Position
      BY <1>2, <2>1, <2>3, <2>5, <3>1
    <3> QED BY <2>1, <2>5, <3>1, <3>2, ShowsProbe
  <2>6. CASE o.exc = "eof" /\ o.w = w /\ ~w.writable /\ w.size <= from
    <3>1. Moved(w, w')
      BY <1>1, <2>1, <2>6, MovedNot
    <3>2. /\ IInv' /\ State' = State /\ Kept /\ Content' = w'.file /\ Position' = TellOf(w')
      BY <1>1, <3>1, MovedShows
    <3>3. Position + call'.len > Len(Content)
      BY <1>1, <1>2, <1>3, <2>1, <2>3, <2>6
    <3>4. Content' = Content /\ Position' = Position
      BY <1>2, <2>1, <2>6, <3>2
    <3> QED BY <1>2, <2>1, <2>6, <3>2, <3>3, <3>4, ShowsEnd
  <2>7. CASE Failed(w, o) /\ w.faults > 0
    <3>1. call'.exc = "io"
      BY <2>1, <2>7 DEF Failed
    <3> QED BY <1>1, <2>1, <2>7, <3>1, FailedShows
  <2>8. CASE Failed(w, o) /\ ~w.writable /\ TellOf(w) = w.size
    <3>1. call'.exc = "io" /\ Closes(w, w') /\ w'.lost = w.lost /\ w'.file = w.file
      BY <2>1, <2>8 DEF Failed, Grown
    <3>2. IInv' /\ State' = "closed" /\ Content' = w'.file /\ Position' = 0
      BY <1>1, <3>1, ClosedShows
    <3>3. Position + call'.len > Len(Content)
      BY <1>1, <1>2, <1>3, <2>1, <2>8
    <3>4. Content' = Content
      BY <1>2, <3>1, <3>2
    <3>5. Shown
      BY <1>2, <2>1, <2>8, <3>1, <3>2, <3>3, <3>4, ShowsEnd
    <3> QED BY <3>1, <3>2, <3>5 DEF Kept
  <2> QED BY <2>4, <2>5, <2>6, <2>7, <2>8
<1> QED BY <1>4, <1>5

\* The three seeks, to an offset in the bounds.
LEMMA SeekShows ==
  ASSUME Careful, IInv, Usable, NEW p, SeekBytes(p)
  PROVE  IInv' /\ Shown /\ Kept
<1>1. /\ w.open /\ job.op = "none" /\ Good(w) /\ p \in Nat
      /\ job' \in Jobs /\ job'.op = "none" /\ Rest
  BY InputsAssumption, RestIs DEF SeekBytes, Usable, Idle, IInv
<1>2. PICK o \in SeekTo(w, p) :
        w' = o.w /\ call'.op = "seek" /\ call'.exc = o.exc /\ call'.at = p
  BY DEF SeekBytes, Return, Called
<1>3. Content = w.file /\ Position = TellOf(w) /\ State # "closed"
      /\ (State = "reading" <=> ~w.writable) /\ w.size = Len(w.file) /\ w.size \in Nat
  BY <1>1, IdleIs, OpenIs, WindowIs
<1>4. \/ o.exc = "none" /\ Moved(w, o.w) /\ TellOf(o.w) = p
      \/ o.exc \in {"eof", "io"} /\ o.w = w /\ ~w.writable /\ w.size <= p
      \/ Failed(w, o) /\ w.faults > 0
  BY <1>1, <1>2, SeekToIs
<1>5. CASE o.exc = "none" /\ Moved(w, o.w) /\ TellOf(o.w) = p
  <2>1. /\ IInv' /\ State' = State /\ Kept /\ Content' \in Seq(Nat)
        /\ Position' = TellOf(w') /\ Pads
    BY <1>1, <1>2, <1>5, MovedShows, PadsIdle
  <2> QED BY <1>2, <1>3, <1>5, <2>1, ShowsSeek
<1>6. CASE o.exc \in {"eof", "io"} /\ o.w = w /\ ~w.writable /\ w.size <= p
  <2>1. Moved(w, w')
    BY <1>1, <1>2, <1>6, MovedNot
  <2>2. /\ IInv' /\ State' = State /\ Kept /\ Content' \in Seq(Nat)
        /\ Position' = TellOf(w') /\ Pads
    BY <1>1, <2>1, MovedShows, PadsIdle
  <2>3. call'.at >= Len(Content) /\ Position' = Position
    BY <1>1, <1>2, <1>3, <1>6, <2>2
  <2> QED BY <1>2, <1>3, <1>6, <2>2, <2>3, ShowsSeek
<1>7. CASE Failed(w, o) /\ w.faults > 0
  <2>1. call'.exc = "io"
    BY <1>2, <1>7 DEF Failed
  <2> QED BY <1>1, <1>2, <1>7, <2>1, FailedShows
<1> QED BY <1>4, <1>5, <1>6, <1>7

\* The three origins of a seek.
LEMMA SeekStep ==
  ASSUME Careful, IInv,
         \/ \E p \in 0..MaxSize : Seek(p)
         \/ \E off \in Offsets : SeekBy(off) \/ SeekFromEnd(off)
  PROVE  IInv' /\ Shown /\ Kept
<1>1. Usable /\ \E p : SeekBytes(p)
  BY DEF Seek, SeekBy, SeekFromEnd
<1> QED BY <1>1, SeekShows

\* tell, size and eof.
LEMMA AskStep ==
  ASSUME Careful, IInv, Ask
  PROVE  IInv' /\ Shown /\ Kept
<1>1. job.op = "none" /\ w' = w /\ job' = job /\ region' = region /\ written' = written
  BY DEF Ask, Idle
<1>2. /\ call'.op = "ask" /\ call'.exc = "none"
      /\ call'.bytes = <<TellOf(w), w.size, IF TellOf(w) = w.size THEN 1 ELSE 0>>
  BY DEF Ask, Called
<1>3. IInv' /\ Kept /\ State' = State
  BY <1>1 DEF IInv, Kept, State
<1>4. /\ Content = w.file /\ Position = TellOf(w) /\ Content' = w'.file
      /\ Position' = TellOf(w')
  BY <1>1, IdleIs, IdleThen
<1>5. State # "closed" => w.size = Len(w.file)
  BY DEF State, IInv, Good, Placed
<1> QED BY <1>1, <1>2, <1>3, <1>4, <1>5, ShowsAsk

\* What set_fsize leaves of an idle object.
LEMMA ResizedShows ==
  ASSUME IInv, w.open, w.writable, job.op = "none", NEW n \in Nat, Resized(w, w', n),
         job' \in Jobs, job'.op = "none", Rest
  PROVE  /\ IInv' /\ State' = State /\ Kept /\ Position' = Position
         /\ Content' \in Seq(Nat) /\ Len(Content') = n
         /\ \A i \in 1..n : Content'[i] = IF i <= Len(Content) THEN Content[i] ELSE Zero
         /\ Len(Content) <= n => Pads
<1>1. Good(w) /\ w.file \in Seq(Nat)
  BY WindowIs DEF IInv
<1>2. /\ w' \in Win /\ w'.file = Truncated(w.file, n) /\ w'.size = n
      /\ w'.open = w.open /\ w'.writable = w.writable /\ w'.base = w.base /\ w'.pos = w.pos
      /\ w'.len = w.len /\ w'.mapped = w.mapped /\ w'.lost = w.lost
  BY DEF Resized
<1>3. /\ w'.file \in Seq(Nat) /\ Len(w'.file) = n
      /\ \A i \in 1..n : w'.file[i] = IF i <= Len(w.file) THEN w.file[i] ELSE Zero
      /\ Len(w.file) <= n => Extended(w.file, w'.file)
  <2> DEFINE f == Truncated(w.file, n)
  <2>1. /\ f \in Seq(Nat) /\ Len(f) = n
        /\ \A i \in 1..n : f[i] = IF i <= Len(w.file) THEN w.file[i] ELSE Zero
        /\ Len(w.file) <= n => Extended(w.file, f)
    BY <1>1, TruncatedIs
  <2>2. w'.file = f
    BY <1>2
  <2> HIDE DEF f
  <2> QED BY <2>1, <2>2
<1>4. Good(w')
  BY <1>1, <1>2, <1>3 DEF Good, Placed
<1>5. IInv'
  BY <1>4 DEF IInv, Rest, Good, Placed
<1>6. State' = State /\ State = "writing" /\ Kept
  BY <1>2 DEF State, Kept
<1>7. Content = w.file /\ Content' = w'.file /\ Position' = Position
  BY <1>2, IdleIs, IdleThen DEF TellOf
<1>8. Len(Content) <= n => Pads
  BY <1>3, <1>6, <1>7 DEF Pads, Grown
<1> QED BY <1>3, <1>5, <1>6, <1>7, <1>8

\* set_fsize failed, and what was mapped is lost.
LEMMA ResizeFailedShows ==
  ASSUME IInv, w.open, job.op = "none", w.faults > 0, Closes(w, w'), w'.file = w.file,
         w'.lost = (w.lost \/ w.mapped), call'.exc = "io", call'.op \in {"set_fsize", "map"},
         job' \in Jobs, job'.op = "none", Rest
  PROVE  IInv' /\ Shown /\ Kept
<1>1. IInv' /\ State' = "closed" /\ Content' = w'.file /\ Content' \in Seq(Nat) /\ Position' = 0
  BY ClosedShows
<1>2. Content = w.file /\ State # "closed" /\ w.lost \in BOOLEAN
  BY IdleIs, OpenIs
<1>3. Pads
  BY <1>1, <1>2, ExtendedSelf DEF Pads, Grown
<1>4. Shown
  BY <1>1, <1>2, <1>3, ShowsFail
<1>5. Kept
  <2>1. w.mapped \in BOOLEAN
    BY DEF IInv, Good, Win
  <2> QED BY <1>2, <2>1 DEF Kept
<1> QED BY <1>1, <1>4, <1>5

\* set_fsize: the file cut or padded under a window that stays where it was, or the object closed.
LEMMA SetFileSizeStep ==
  ASSUME Careful, IInv, NEW n \in Sizes, SetFileSize(n)
  PROVE  IInv' /\ Shown /\ Kept
<1>1. /\ w.open /\ w.writable /\ job.op = "none" /\ w \in Win /\ n \in Nat
      /\ job' \in Jobs /\ job'.op = "none" /\ Rest
  BY InputsAssumption, RestIs DEF SetFileSize, Usable, Idle, IInv, Good
<1>2. PICK o \in SetFsize(w, n) :
        w' = o.w /\ call'.op = "set_fsize" /\ call'.exc = o.exc /\ call'.at = n
  BY DEF SetFileSize, Return, Called
<1>3. \/ o.exc = "none" /\ Resized(w, o.w, n)
      \/ /\ w.faults > 0
         /\ o.exc = "io" /\ Closes(w, o.w) /\ o.w.file = w.file
         /\ o.w.lost = (w.lost \/ w.mapped)
  BY <1>1, <1>2, SetFsizeIs
<1>4. CASE o.exc = "none" /\ Resized(w, o.w, n)
  <2>1. /\ IInv' /\ State' = State /\ Kept /\ Position' = Position
        /\ Content' \in Seq(Nat) /\ Len(Content') = n
        /\ \A i \in 1..n : Content'[i] = IF i <= Len(Content) THEN Content[i] ELSE Zero
    BY <1>1, <1>2, <1>4, ResizedShows
  <2>2. State = "writing"
    BY <1>1, OpenIs
  <2> QED BY <1>2, <1>4, <2>1, <2>2, ShowsSetSize
<1>5. CASE /\ w.faults > 0
           /\ o.exc = "io" /\ Closes(w, o.w) /\ o.w.file = w.file
           /\ o.w.lost = (w.lost \/ w.mapped)
  BY <1>1, <1>2, <1>5, ResizeFailedShows
<1> QED BY <1>3, <1>4, <1>5

\* The mapping of a region, which may fail.
MapRegion(t) == Fine(t) \cup Maybe(t, LAMBDA u : Thrown(u, "nomap"))

\* map of whole pages may make a written file longer first.
LEMMA MapStep ==
  ASSUME Careful, IInv, NEW r \in Regions, Map(r)
  PROVE  IInv' /\ Shown /\ Kept
<1> DEFINE x == r.at + r.n
           end == AlignUp(x, Page)
           grown == IF w.writable /\ w.size < end THEN SetFsize(w, end) ELSE Fine(w)
<1>1. /\ w.open /\ job.op = "none" /\ Good(w) /\ w \in Win /\ job' = job
      /\ job' \in Jobs /\ job'.op = "none" /\ region = NoRegion
      /\ written' = written
  BY DEF Map, Usable, Idle, IInv, Good
<1>2. end \in Nat
  <2>1. x \in Nat
    BY InputsAssumption
  <2> HIDE DEF x
  <2> QED BY <2>1, UpIs, PageAssumption
<1>3. PICK o \in UNION {IF q.exc = "none" THEN MapRegion(q.w) ELSE {q} : q \in grown} :
        /\ w' = o.w /\ call'.op = "map" /\ call'.exc = o.exc
        /\ region' = IF o.exc = "none" THEN r ELSE region
  <2>1. \E o \in Then(grown, LAMBDA t : Fine(t) \cup Maybe(t, LAMBDA u : Thrown(u, "nomap"))) :
          /\ Return(o, "map", r.n, <<>>, r.at)
          /\ region' = IF o.exc = "none" THEN r ELSE region
    BY Zenon DEF Map
  <2>2. Then(grown, LAMBDA t : Fine(t) \cup Maybe(t, LAMBDA u : Thrown(u, "nomap"))) =
        UNION {IF q.exc = "none" THEN MapRegion(q.w) ELSE {q} : q \in grown}
    <3> HIDE DEF grown
    <3> QED BY DEF Then, MapRegion
  <2> HIDE DEF grown
  <2>3. \E o \in UNION {IF q.exc = "none" THEN MapRegion(q.w) ELSE {q} : q \in grown} :
          /\ Return(o, "map", r.n, <<>>, r.at)
          /\ region' = IF o.exc = "none" THEN r ELSE region
    BY <2>1, <2>2
  <2> QED BY <2>3 DEF Return, Called
<1>4. Rest
  BY <1>1, <1>3 DEF Rest, IInv
<1>5. PICK q \in grown : o \in IF q.exc = "none" THEN MapRegion(q.w) ELSE {q}
  BY <1>3
<1> HIDE DEF x
<1>6. ASSUME NEW v \in Win, o \in MapRegion(v),
             v.faults = w.faults
      PROVE  /\ o.w \in Win /\ o.w.file = v.file /\ o.w.open = v.open
             /\ o.w.writable = v.writable
             /\ o.w.size = v.size /\ o.w.base = v.base /\ o.w.pos = v.pos /\ o.w.len = v.len
             /\ o.w.mapped = v.mapped /\ o.w.lost = v.lost
             /\ o.exc = "none" \/ (o.exc = "nomap" /\ w.faults > 0)
  <2>1. CASE o \in Fine(v)
    BY <1>6, <2>1 DEF Fine
  <2>2. CASE o \in Maybe(v, LAMBDA u : Thrown(u, "nomap"))
    <3> DEFINE k == v.faults - 1
               u == [v EXCEPT !.faults = k]
    <3>1. v.faults > 0 /\ o \in Thrown(u, "nomap")
      BY <1>6, <2>2 DEF Maybe, Win
    <3>2. k \in Nat
      BY <1>6, <3>1 DEF Win
    <3> HIDE DEF k
    <3>3. /\ u \in Win /\ u.file = v.file /\ u.open = v.open /\ u.writable = v.writable
          /\ u.size = v.size /\ u.base = v.base /\ u.pos = v.pos /\ u.len = v.len
          /\ u.mapped = v.mapped /\ u.lost = v.lost
      BY <1>6, <3>2 DEF Win
    <3>4. o.w = u /\ o.exc = "nomap"
      BY <3>1 DEF Thrown
    <3> HIDE DEF u
    <3> QED BY <1>6, <3>1, <3>3, <3>4
  <2> QED BY <1>6, <2>1, <2>2 DEF MapRegion
<1>7. w.size = Len(w.file) /\ w.size \in Nat /\ w.file \in Seq(Nat) /\ w.writable \in BOOLEAN
      /\ Content = w.file /\ Position = TellOf(w)
      /\ (State = "writing" <=> w.writable)
  BY <1>1, WindowIs, IdleIs, OpenIs
<1> HIDE DEF end
<1>8. CASE w.writable /\ w.size < end
  <2>1. \/ q.exc = "none" /\ Resized(w, q.w, end)
        \/ /\ w.faults > 0
           /\ q.exc = "io" /\ Closes(w, q.w) /\ q.w.file = w.file
           /\ q.w.lost = (w.lost \/ w.mapped)
    BY <1>1, <1>2, <1>5, <1>8, SetFsizeIs
  <2>2. CASE q.exc = "none" /\ Resized(w, q.w, end)
    <3> DEFINE v == q.w
    <3>1. /\ v \in Win /\ o \in MapRegion(v) /\ Resized(w, v, end) /\ v.faults = w.faults
      BY <1>5, <2>2 DEF Resized
    <3> HIDE DEF v
    <3>2. /\ w' \in Win /\ w'.file = v.file /\ w'.open = v.open /\ w'.writable = v.writable
          /\ w'.size = v.size /\ w'.base = v.base /\ w'.pos = v.pos /\ w'.len = v.len
          /\ w'.mapped = v.mapped /\ w'.lost = v.lost
          /\ o.exc = "none" \/ (o.exc = "nomap" /\ w.faults > 0)
      BY <1>3, <1>6, <3>1
    <3>3. /\ IInv' /\ State' = State /\ Kept /\ Position' = Position /\ Content' \in Seq(Nat)
          /\ Pads
      <4>1. /\ w'.file = Truncated(w.file, end) /\ w'.size = end /\ w' \in Win
            /\ w'.open = w.open /\ w'.writable = w.writable /\ w'.base = w.base
            /\ w'.pos = w.pos /\ w'.len = w.len /\ w'.mapped = w.mapped /\ w'.lost = w.lost
        BY <3>1, <3>2 DEF Resized
      <4> DEFINE f == Truncated(w.file, end)
      <4>2. f \in Seq(Nat) /\ Len(f) = end /\ Extended(w.file, f)
        <5>1. Len(w.file) <= end
          BY <1>2, <1>7, <1>8
        <5> QED BY <1>2, <1>7, <5>1, TruncatedIs
      <4> HIDE DEF f
      <4>3. w'.file = f
        BY <4>1 DEF f
      <4>4. Good(w')
        BY <1>1, <1>8, <4>1, <4>2, <4>3 DEF Good, Placed
      <4>5. IInv'
        BY <1>1, <1>4, <4>4 DEF IInv, Rest, Good, Placed
      <4>6. State' = State /\ Kept
        BY <4>1 DEF State, Kept
      <4>7. Position' = Position /\ Content' = f
        BY <1>1, <1>7, <4>1, <4>3, IdleThen DEF TellOf
      <4>8. Pads
        BY <1>7, <1>8, <4>2, <4>7 DEF Pads, Grown
      <4> QED BY <4>2, <4>5, <4>6, <4>7, <4>8
    <3> QED BY <1>3, <3>2, <3>3, ShowsRegion
  <2>3. CASE /\ w.faults > 0
             /\ q.exc = "io" /\ Closes(w, q.w) /\ q.w.file = w.file
             /\ q.w.lost = (w.lost \/ w.mapped)
    <3>1. o = q
      BY <1>5, <2>3
    <3> QED BY <1>1, <1>3, <1>4, <2>3, <3>1, ResizeFailedShows
  <2> QED BY <2>1, <2>2, <2>3
<1>9. CASE ~(w.writable /\ w.size < end)
  <2>1. q.w = w /\ q.exc = "none"
    BY <1>5, <1>9 DEF Fine
  <2>2. /\ w' \in Win /\ w'.file = w.file /\ w'.open = w.open /\ w'.writable = w.writable
        /\ w'.size = w.size /\ w'.base = w.base /\ w'.pos = w.pos /\ w'.len = w.len
        /\ w'.mapped = w.mapped /\ w'.lost = w.lost
        /\ o.exc = "none" \/ (o.exc = "nomap" /\ w.faults > 0)
    BY <1>1, <1>3, <1>5, <1>6, <2>1
  <2>3. Good(w')
    BY <1>1, <2>2 DEF Good, Placed
  <2>4. IInv'
    BY <1>1, <1>4, <2>3 DEF IInv, Rest, Good, Placed
  <2>5. State' = State /\ Kept
    BY <2>2 DEF State, Kept
  <2>6. Position' = Position /\ Content' = Content
    BY <1>1, <1>7, <2>2, IdleThen DEF TellOf
  <2>7. Pads
    BY <1>7, <2>6, ExtendedSelf DEF Pads, Grown
  <2> QED BY <1>3, <1>7, <2>2, <2>4, <2>5, <2>6, <2>7, ShowsRegion
<1> QED BY <1>8, <1>9

\* A look through the mapped region.
LEMMA PeekStep ==
  ASSUME Careful, IInv, Peek
  PROVE  IInv' /\ Shown /\ Kept
<1>1. job.op = "none" /\ w' = w /\ job' = job /\ region' = region /\ written' = written
  BY DEF Peek, Idle
<1>2. /\ call'.op = "peek" /\ call'.exc = "none" /\ call'.at = region.at /\ call'.len = region.n
      /\ call'.bytes = SubSeq(w.file, region.at + 1, region.at + region.n)
  BY DEF Peek, Called
<1>3. IInv' /\ Kept /\ State' = State
  BY <1>1 DEF IInv, Kept, State
<1>4. Content = w.file /\ Content' = Content /\ Position' = Position
  BY <1>1, IdleIs, IdleThen
<1> QED BY <1>2, <1>3, <1>4, ShowsPeek

\* unmap of the region.
LEMMA UnmapStep ==
  ASSUME Careful, IInv, Unmap
  PROVE  IInv' /\ Shown /\ Kept
<1>1. /\ job.op = "none" /\ w' = w /\ job' = job /\ region' = NoRegion /\ written' = written
      /\ call'.op = "unmap"
  BY DEF Unmap, Idle, Called
<1>2. IInv' /\ Kept /\ State' = State
  BY <1>1 DEF IInv, Kept, State
<1>3. Content' = Content /\ Position' = Position
  BY <1>1, IdleIs, IdleThen
<1> QED BY <1>1, <1>2, <1>3, ShowsRegion

\* The bytes of a write.
LEMMA DataIs ==
  ASSUME NEW n \in Nat PROVE Data(n) \in Seq(Nat) /\ Len(Data(n)) = n
BY DEF Data

\* What is put over bytes that are there makes the file no longer.
LEMMA PutInside ==
  ASSUME NEW f \in Seq(Nat), NEW p \in Nat, NEW b \in Seq(Nat), b = <<>> \/ p + Len(b) <= Len(f)
  PROVE  Overlay(f, p, b) \in Seq(Nat) /\ Len(Overlay(f, p, b)) = Len(f)
<1> DEFINE g == Overlay(f, p, b)
<1>1. Zero \in Nat
  BY DEF Zero
<1>2. IsPut(g, f, p, b, Zero)
  BY OverlayOK
<1> HIDE DEF g
<1>3. g \in Seq(Nat) /\ Len(g) = Len(f)
  BY <1>1, <1>2 DEF IsPut
<1> QED BY <1>3 DEF g

\* A poke shows in the file at once.
LEMMA PokeStep ==
  ASSUME Careful, IInv, Poke
  PROVE  IInv' /\ Shown /\ Kept
<1> DEFINE b == Data(1)
           f == Overlay(w.file, region.at, b)
<1>1. /\ job.op = "none" /\ w.open /\ w \in Win /\ job' = job /\ region' = region
      /\ w' = [w EXCEPT !.file = f] /\ InRegion /\ Good(w)
      /\ call'.op = "poke" /\ call'.at = region.at /\ call'.bytes = b
  BY DEF Poke, Idle, Called, IInv, Good
<1>2. region.at \in Nat /\ region.n \in Nat \ {0} /\ region.at + region.n <= Len(w.file)
  BY <1>1, InputsAssumption DEF InRegion, IInv
<1>3. b \in Seq(Nat) /\ Len(b) = 1
  BY DataIs
<1>4. w.file \in Seq(Nat)
  BY <1>1 DEF Win
<1> HIDE DEF b
<1>5. f \in Seq(Nat) /\ Len(f) = Len(w.file)
  <2>1. region.at + Len(b) <= Len(w.file)
    BY <1>2, <1>3, <1>4
  <2> QED BY <1>2, <1>3, <1>4, <2>1, PutInside
<1>6. Overlay(w.file, region.at, b) = f
  OBVIOUS
<1> HIDE DEF f
<1>7. /\ w' \in Win /\ w'.file = f /\ w'.open = w.open /\ w'.writable = w.writable
      /\ w'.size = w.size /\ w'.base = w.base /\ w'.pos = w.pos /\ w'.len = w.len
      /\ w'.mapped = w.mapped /\ w'.lost = w.lost
  BY <1>1, <1>5 DEF Win
<1>8. Good(w')
  BY <1>1, <1>5, <1>7 DEF Good, Placed
<1>9. written' \in 0..MaxWritten
  <2>1. written < MaxWritten /\ written' = written + 1
    BY DEF Poke
  <2> QED BY <2>1, InputsAssumption DEF IInv
<1>10. IInv'
  BY <1>1, <1>8, <1>9 DEF IInv
<1>11. State' = State /\ Kept
  BY <1>7 DEF State, Kept
<1>12. Content' = Overlay(Content, call'.at, call'.bytes) /\ Position' = Position
  BY <1>1, <1>6, <1>7, IdleIs, IdleThen DEF TellOf
<1> QED BY <1>1, <1>10, <1>11, <1>12, ShowsRegion

(***************************************************************************)
(* The calls that go round the loop.                                       *)
(***************************************************************************)

\* u with m_pos at p and the bytes f in its file.
WithBytes(u, f, p) == [u EXCEPT !.file = f, !.pos = p]

\* They are as many as before.
LEMMA PutIn ==
  ASSUME NEW u, Good(u), u.open, NEW f \in Seq(Nat), Len(f) = u.size, NEW p \in Nat,
         p <= u.len
  PROVE  LET x == WithBytes(u, f, p)
         IN
         /\ Good(x) /\ x.file = f /\ x.open /\ x.writable = u.writable
         /\ x.size = u.size /\ x.base = u.base /\ x.pos = p /\ x.len = u.len
         /\ x.faults = u.faults /\ x.lost = u.lost /\ TellOf(x) = u.base + p
<1> DEFINE x == WithBytes(u, f, p)
<1>1. u \in Win /\ Placed(u) /\ u.open = TRUE
  BY DEF Good, Win
<1>2. /\ x \in Win /\ x.file = f /\ x.open = u.open /\ x.writable = u.writable
      /\ x.size = u.size /\ x.base = u.base /\ x.pos = p /\ x.len = u.len
      /\ x.mapped = u.mapped /\ x.faults = u.faults /\ x.lost = u.lost
  BY <1>1 DEF Win, WithBytes
<1> HIDE DEF x
<1>3. Placed(x)
  BY <1>1, <1>2 DEF Placed
<1>4. /\ Good(x) /\ x.file = f /\ x.open /\ x.writable = u.writable
      /\ x.size = u.size /\ x.base = u.base /\ x.pos = p /\ x.len = u.len
      /\ x.faults = u.faults /\ x.lost = u.lost /\ TellOf(x) = u.base + p
  BY <1>1, <1>2, <1>3 DEF Good, TellOf
<1> QED BY <1>4 DEF x

\* A write within the window, and one that starts at its end.
LEMMA WriteStep ==
  ASSUME Careful, IInv, NEW len \in Lengths, Write(len)
  PROVE  IInv' /\ Shown /\ Kept
<1> DEFINE d == Data(len)
           first == SubSeq(d, 1, Least(len, Room))
           file  == Overlay(w.file, TellOf(w), first)
<1>1. /\ w.open /\ job.op = "none" /\ Good(w) /\ len \in Nat \ {0} /\ w.writable
      /\ w.base + w.len <= w.size /\ (len <= Room \/ Room = 0)
      /\ region' = region
  BY InputsAssumption
     DEF Write, Touchable, Usable, Idle, IInv, MayTouch, MayWrite
<1>2. Rest
  <2>1. written + len <= MaxWritten /\ written' = written + len /\ written \in 0..MaxWritten
    BY DEF Write, IInv
  <2>2. written' \in 0..MaxWritten
    BY <1>1, <2>1, InputsAssumption
  <2> QED BY <1>1, <2>2 DEF IInv, Rest
<1>3. /\ w.size \in Nat /\ w.base \in Nat /\ w.pos \in Nat /\ w.len \in Nat /\ w.pos <= w.len
      /\ w.file \in Seq(Nat) /\ w.size = Len(w.file) /\ TellOf(w) \in Nat
      /\ TellOf(w) = w.base + w.pos
  BY <1>1, WindowIs
<1>4. d \in Seq(Nat) /\ Len(d) = len
  BY <1>1, DataIs
<1>5. State = "writing" /\ Content = w.file /\ Position = TellOf(w)
  BY <1>1, OpenIs, IdleIs
<1>6. CASE len <= Room
  <2>1. /\ w' = [w EXCEPT !.file = file, !.pos = @ + len] /\ job' = job
        /\ call'.op = "write" /\ call'.exc = "none" /\ call'.bytes = d
    BY <1>6 DEF Write, Return, Called
  <2>2. first = d
    <3>1. Least(len, Room) = len
      BY <1>6 DEF Least
    <3>2. SubSeq(d, 1, Len(d)) = d
      BY <1>4
    <3> QED BY <1>4, <3>1, <3>2
  <2> HIDE DEF first, d
  <2> DEFINE k == w.pos + len
  <2>3. k \in Nat /\ k <= w.len /\ w.base + k = TellOf(w) + len /\ TellOf(w) + len <= w.size
    <3>1. len <= w.len - w.pos
      BY <1>6 DEF Room
    <3>2. /\ w.size \in Nat /\ w.base \in Nat /\ w.pos \in Nat /\ w.len \in Nat /\ len \in Nat
          /\ TellOf(w) = w.base + w.pos /\ w.base + w.len <= w.size
      BY <1>1, <1>3
    <3> QED BY <3>1, <3>2
  <2>4. file \in Seq(Nat) /\ Len(file) = w.size
    <3>1. TellOf(w) + Len(d) <= Len(w.file)
      BY <1>3, <1>4, <2>3
    <3> QED BY <1>3, <1>4, <2>2, <3>1, PutInside
  <2>5. w' = WithBytes(w, file, k)
    BY <2>1 DEF WithBytes
  <2>6. file = Overlay(Content, Position, d)
    BY <1>5, <2>2
  <2> HIDE DEF file, k
  <2>7. /\ Good(w') /\ w'.file = file /\ w'.open /\ w'.writable = w.writable
        /\ w'.lost = w.lost /\ TellOf(w') = w.base + k
    <3>1. Good(w) /\ w.open
      BY <1>1
    <3>2. k \in Nat /\ k <= w.len
      BY <2>3
    <3> QED BY <2>4, <2>5, <3>1, <3>2, PutIn
  <2>8. IInv'
    BY <1>1, <1>2, <2>1, <2>7 DEF IInv, Rest
  <2>9. State' = State /\ Kept
    BY <1>1, <2>7 DEF State, Kept
  <2>10. Content' = file /\ Position' = TellOf(w')
    BY <1>1, <2>1, <2>7, IdleThen
  <2>11. Extended(Overlay(Content, Position, call'.bytes), Content')
    BY <2>1, <2>4, <2>6, <2>10, ExtendedSelf
  <2>12. Position' = Position + Len(call'.bytes)
    BY <1>4, <1>5, <2>1, <2>3, <2>7, <2>10
  <2>13. Shown
    BY <1>5, <2>1, <2>4, <2>9, <2>10, <2>11, <2>12, ShowsWrite
  <2> QED BY <2>8, <2>9, <2>13
<1>7. CASE ~(len <= Room)
  <2>1. Room = 0
    BY <1>1, <1>7
  <2>2. first = <<>>
    <3>1. Least(len, Room) = 0
      BY <1>1, <2>1 DEF Least
    <3>2. SubSeq(d, 0 + 1, 0) = <<>>
      BY PartNone
    <3> QED BY <3>1, <3>2
  <2>3. /\ w' = [w EXCEPT !.file = file] /\ call' = call
        /\ job' = [op |-> "write", len |-> len, bytes |-> first, file |-> w.file,
                   tell |-> TellOf(w)]
    BY <1>7 DEF Write
  <2>4. file = w.file
    BY <2>2, OverlayNone
  <2> HIDE DEF file, first
  <2>5. w' = w
    <3>1. [w EXCEPT !.file = w.file] = w
      <4>1. w \in Win
        BY <1>1 DEF Good
      <4> QED BY <4>1 DEF Win
    <3> QED BY <2>3, <2>4, <3>1
  <2>6. /\ job' \in Jobs /\ job'.op = "write" /\ job'.len = len /\ job'.bytes = <<>>
        /\ job'.file = w.file /\ job'.tell = TellOf(w)
    <3>1. <<>> \in Seq(Nat)
      OBVIOUS
    <3> QED BY <1>1, <1>3, <2>2, <2>3, <3>1 DEF Jobs
  <2>7. Writing'
    <3>1. TellOf(w') = job'.tell + Len(job'.bytes)
      BY <1>3, <2>5, <2>6
    <3>2. Overlay(job'.file, job'.tell, job'.bytes) = w.file
      BY <2>6, OverlayNone
    <3>3. job'.bytes = SubSeq(Data(job'.len), 1, Len(job'.bytes))
      <4>1. SubSeq(Data(job'.len), 0 + 1, 0) = <<>>
        BY PartNone
      <4> QED BY <2>6, <4>1
    <3> QED BY <1>1, <1>3, <2>5, <3>1, <3>2, <3>3, ExtendedSelf DEF Writing
  <2>8. IInv'
    <3>1. Len(job'.bytes) < job'.len
      BY <1>1, <2>6
    <3>2. Working'
      BY <1>1, <2>5, <2>6, <2>7, <3>1 DEF Working, Comparisons
    <3> QED BY <1>1, <1>2, <2>5, <2>6, <3>2 DEF IInv, Rest
  <2>9. Content' = Content /\ Position' = Position /\ State' = State
    BY <1>5, <2>5, <2>6, BusyThen DEF State
  <2> QED BY <2>3, <2>5, <2>8, <2>9, ShowsNothing DEF Kept
<1> QED BY <1>6, <1>7

\* A pass of the loop of a read or a skip that throws.
LEMMA ReadingThrows ==
  ASSUME Careful, IInv, job.op \in {"read", "skip"}, NEW o,
         \/ o.exc = "eof" /\ o.w = w /\ ~w.writable /\ w.size <= w.base + w.len
         \/ Failed(w, o) /\ (w.faults > 0 \/ (~w.writable /\ TellOf(w) = w.size)),
         w' = o.w, job' = NoJob, Called(job.op, job.len, job.bytes, 0, o.exc), Rest
  PROVE  IInv' /\ Shown /\ Kept
<1>1. /\ w.open /\ Good(w) /\ Reading /\ Len(job.bytes) < job.len /\ job \in Jobs
      /\ job' \in Jobs /\ job'.op = "none"
      /\ call'.op = job.op /\ call'.len = job.len /\ call'.exc = o.exc
  BY NoJobIs DEF IInv, Working, Comparisons, Called
<1>2. /\ State # "closed" /\ (State = "reading" <=> ~w.writable) /\ w.writable \in BOOLEAN
      /\ Content = job.file /\ Position = job.tell
  BY <1>1, OpenIs, BusyIs, WindowIs
<1>3. /\ w.size \in Nat /\ w.base \in Nat /\ w.pos \in Nat /\ w.len \in Nat
      /\ w.size = Len(w.file) /\ TellOf(w) = w.base + w.pos /\ w.pos <= w.len
      /\ job.len \in Nat /\ Len(job.bytes) \in Nat /\ job.tell \in Nat
  BY <1>1, WindowIs DEF Jobs
<1>4. /\ w.base + w.len = job.tell + Len(job.bytes) /\ w.base + w.len <= w.size
      /\ TellOf(w) = job.tell \/ w.pos = w.len
      /\ Grown(w.writable, job.file, w.file)
  BY <1>1 DEF Reading
<1>5. ASSUME ~w.writable, w.base + w.len = w.size
      PROVE  Position + call'.len > Len(Content) /\ w.file = Content
  <2>1. w.file = job.file
    BY <1>4, <1>5 DEF Grown
  <2>2. job.tell + job.len > Len(job.file)
    BY <1>1, <1>3, <1>4, <1>5, <2>1
  <2> QED BY <1>1, <1>2, <2>1, <2>2
<1>6. CASE o.exc = "eof" /\ o.w = w /\ ~w.writable /\ w.size <= w.base + w.len
  <2>1. w.base + w.len = w.size
    BY <1>3, <1>4, <1>6
  <2>2. Moved(w, w')
    BY <1>1, <1>6, MovedNot
  <2>3. IInv' /\ State' = State /\ Kept /\ Content' = w'.file /\ Position' = TellOf(w')
    BY <1>1, <2>2, MovedShows
  <2>4. TellOf(w) \in {Position, Len(Content)}
    <3>1. CASE TellOf(w) = job.tell
      BY <1>2, <3>1
    <3>2. CASE w.pos = w.len
      <4>1. TellOf(w) = w.size
        BY <1>3, <2>1, <3>2
      <4>2. w.size = Len(Content)
        BY <1>3, <1>5, <1>6, <2>1
      <4> QED BY <4>1, <4>2
    <3> QED BY <1>4, <3>1, <3>2
  <2>5. Position' \in {Position, Len(Content)} /\ Content' = Content
    BY <1>5, <1>6, <2>1, <2>3, <2>4
  <2> QED BY <1>1, <1>2, <1>5, <1>6, <2>1, <2>3, <2>5, ShowsEnd
<1>7. CASE Failed(w, o) /\ w.faults > 0
  <2>1. call'.exc = "io" /\ call'.op \notin {"open", "close"}
    BY <1>1, <1>7 DEF Failed
  <2> QED BY <1>1, <1>2, <1>4, <1>7, <2>1, FailedShows
<1>8. CASE Failed(w, o) /\ ~w.writable /\ TellOf(w) = w.size
  <2>1. w.base + w.len = w.size
    BY <1>3, <1>4, <1>8
  <2>2. call'.exc = "io" /\ Closes(w, w') /\ w'.lost = w.lost /\ w'.file = w.file
    BY <1>1, <1>8 DEF Failed, Grown
  <2>3. IInv' /\ State' = "closed" /\ Content' = w'.file /\ Position' = 0
    BY <1>1, <2>2, ClosedShows
  <2>4. Position + call'.len > Len(Content) /\ Content' = Content
    BY <1>5, <1>8, <2>1, <2>2, <2>3
  <2>5. Shown
    BY <1>1, <1>2, <1>8, <2>2, <2>3, <2>4, ShowsEnd
  <2> QED BY <2>2, <2>3, <2>5 DEF Kept
<1> QED BY <1>6, <1>7, <1>8

\* What a pass of a read copies, behind what was copied.
LEMMA ReadingJoins ==
  ASSUME IInv, job.op \in {"read", "skip"}, NEW u, Moved(w, u), NEW n \in Nat,
         TellOf(u) = w.base + w.len, TellOf(u) + n <= u.size
  PROVE  /\ job.bytes \o FileBytesAt(u, n) =
              SubSeq(u.file, job.tell + 1, job.tell + (Len(job.bytes) + n))
         /\ job.bytes \o FileBytesAt(u, n) \in Seq(Nat)
         /\ Len(job.bytes \o FileBytesAt(u, n)) = Len(job.bytes) + n
<1> DEFINE p == job.tell
           k == Len(job.bytes)
           f == u.file
           m == k + n
<1>1. /\ Good(w) /\ w.open /\ Reading /\ job.bytes \in Seq(Nat) /\ p \in Nat /\ k \in Nat
      /\ w.file \in Seq(Nat) /\ w.size = Len(w.file)
  <2>1. /\ Good(w) /\ w.open /\ Reading /\ job.bytes \in Seq(Nat) /\ p \in Nat
    BY DEF IInv, Working, Comparisons, Jobs
  <2> QED BY <2>1, WindowIs
<1>2. Good(u) /\ u.open /\ Grown(w.writable, w.file, f)
  BY DEF Moved
<1>3. f \in Seq(Nat) /\ u.size = Len(f)
  BY <1>2, WindowIs
<1>4. p + k <= Len(w.file) /\ TellOf(u) = p + k /\ job.bytes = SubSeq(w.file, p + 1, p + k)
  BY <1>1 DEF Reading
<1>5. p + m <= Len(f) /\ m \in Nat /\ p + k + n = p + m
  BY <1>1, <1>3, <1>4
<1>6. Extended(w.file, f)
  BY <1>1, <1>2, ExtendedSelf DEF Grown
<1> DEFINE a == SubSeq(f, p + 1, p + k)
           b == SubSeq(f, p + k + 1, p + k + n)
           c == SubSeq(f, p + 1, p + m)
<1>7. FileBytesAt(u, n) = b
  BY <1>4 DEF FileBytesAt
<1> HIDE DEF p, k, f, m
<1>8. job.bytes = a
  BY <1>1, <1>3, <1>4, <1>6, PartExtended, ZenonT(30)
<1>9. a \o b = c
  <2>1. SubSeq(f, p + 1, p + k + n) = c
    BY <1>5
  <2>2. p + k + n <= Len(f)
    BY <1>5
  <2> QED BY <1>1, <1>3, <2>1, <2>2, PartJoin, ZenonT(30)
<1>10. c \in Seq(Nat) /\ Len(c) = m
  BY <1>1, <1>3, <1>5, PartOK
<1> HIDE DEF a, b, c
<1>11. job.bytes \o FileBytesAt(u, n) = c
  BY <1>7, <1>8, <1>9
<1> QED BY <1>10, <1>11 DEF c, p, k, f, m

\* A pass of the loop of a read or a skip that copies.
LEMMA ReadingGoesOn ==
  ASSUME Careful, IInv, job.op \in {"read", "skip"}, NEW u, Moved(w, u),
         TellOf(u) = w.base + w.len, u.base + u.len <= u.size, Rest,
         NEW n, n = Least(job.len - Len(job.bytes), u.len - u.pos),
         NEW all, all = job.bytes \o FileBytesAt(u, n),
         w' = [u EXCEPT !.file = u.file, !.pos = @ + n],
         IF Len(all) = job.len
         THEN job' = NoJob /\ Called(job.op, job.len, all, 0, "none")
         ELSE job' = [job EXCEPT !.bytes = all] /\ call' = call
  PROVE  IInv' /\ Shown /\ Kept
<1> DEFINE k == Len(job.bytes)
           at == u.pos + n
<1>1. /\ w.open /\ Good(w) /\ Reading /\ k < job.len /\ job \in Jobs
      /\ Good(u) /\ u.open /\ u.lost = w.lost /\ u.faults = w.faults
      /\ u.writable = w.writable /\ Grown(w.writable, w.file, u.file)
  BY DEF IInv, Working, Comparisons, Moved
<1>2. /\ job.len \in Nat /\ job.tell \in Nat /\ job.bytes \in Seq(Nat) /\ job.file \in Seq(Nat)
      /\ k \in Nat
  <2>1. /\ job.len \in Nat /\ job.tell \in Nat /\ job.bytes \in Seq(Nat)
        /\ job.file \in Seq(Nat)
    BY <1>1 DEF Jobs
  <2> QED BY <2>1
<1>3. /\ u.size \in Nat /\ u.base \in Nat /\ u.pos \in Nat /\ u.len \in Nat /\ u.pos <= u.len
      /\ u.file \in Seq(Nat) /\ u.size = Len(u.file) /\ TellOf(u) = u.base + u.pos
      /\ u.writable \in BOOLEAN
  BY <1>1, WindowIs
<1>4. w.file \in Seq(Nat)
  BY <1>1, WindowIs
<1> HIDE DEF k
<1>5. /\ n \in Nat /\ n <= u.len - u.pos /\ n <= job.len - k
      /\ n = job.len - k \/ n = u.len - u.pos
  BY <1>1, <1>2, <1>3, SMTT(30) DEF Least, k
<1>6. /\ at \in Nat /\ at <= u.len /\ u.base + at = TellOf(u) + n /\ TellOf(u) + n <= u.size
  BY <1>3, <1>5, SMTT(30)
<1>7. TellOf(u) = job.tell + k /\ Grown(w.writable, job.file, w.file)
  BY <1>1 DEF Reading, k
<1>8. Grown(w.writable, job.file, u.file)
  BY <1>1, <1>2, <1>3, <1>4, <1>7, ExtendedTwice DEF Grown
<1>9. /\ all = SubSeq(u.file, job.tell + 1, job.tell + (k + n))
      /\ all \in Seq(Nat) /\ Len(all) = k + n
  BY <1>5, <1>6, ReadingJoins, ZenonT(30) DEF k
<1>10. w' = WithBytes(u, u.file, at)
  BY DEF WithBytes
<1> HIDE DEF at
<1>11. /\ Good(w') /\ w'.file = u.file /\ w'.open /\ w'.writable = w.writable
       /\ w'.size = u.size /\ w'.base = u.base /\ w'.pos = at /\ w'.len = u.len
       /\ w'.faults = w.faults /\ w'.lost = w.lost /\ TellOf(w') = u.base + at
  <2>1. Good(u) /\ u.open /\ u.file \in Seq(Nat) /\ Len(u.file) = u.size
    BY <1>1, <1>3
  <2>2. at \in Nat /\ at <= u.len
    BY <1>6
  <2>3. /\ Good(w') /\ w'.file = u.file /\ w'.open /\ w'.writable = u.writable
        /\ w'.size = u.size /\ w'.base = u.base /\ w'.pos = at /\ w'.len = u.len
        /\ w'.faults = u.faults /\ w'.lost = u.lost /\ TellOf(w') = u.base + at
    <3> DEFINE x == WithBytes(u, u.file, at)
    <3>1. /\ Good(x) /\ x.file = u.file /\ x.open /\ x.writable = u.writable
          /\ x.size = u.size /\ x.base = u.base /\ x.pos = at /\ x.len = u.len
          /\ x.faults = u.faults /\ x.lost = u.lost /\ TellOf(x) = u.base + at
      BY <2>1, <2>2, PutIn
    <3>2. w' = x
      BY <1>10
    <3> HIDE DEF x
    <3> QED BY <3>1, <3>2
  <2> QED BY <1>1, <2>3
<1>12. TellOf(w') = job.tell + (k + n) /\ job.tell + (k + n) <= Len(u.file)
  <2>1. /\ job.tell \in Nat /\ k \in Nat /\ n \in Nat /\ TellOf(u) = job.tell + k
        /\ u.base + at = TellOf(u) + n /\ TellOf(u) + n <= u.size
    BY <1>2, <1>5, <1>6, <1>7
  <2>2. u.base + at = job.tell + (k + n) /\ job.tell + (k + n) <= u.size
    BY <2>1
  <2> QED BY <1>3, <1>11, <2>2
<1>13. State' = State /\ Kept /\ State # "closed" /\ (State = "writing" <=> w.writable)
  BY <1>1, <1>11, OpenIs DEF State, Kept
<1>14. Content = job.file /\ Position = job.tell
  BY BusyIs
<1>15. CASE Len(all) = job.len
  <2>1. /\ job' = NoJob /\ call'.op = job.op /\ call'.len = job.len /\ call'.bytes = all
        /\ call'.exc = "none"
    <3>1. job' = NoJob /\ Called(job.op, job.len, all, 0, "none")
      BY <1>15
    <3> QED BY <3>1 DEF Called
  <2>2. IInv'
    BY <1>11, <2>1, NoJobIs DEF IInv, Rest
  <2>3. Content' = u.file /\ Position' = job.tell + job.len
    BY <1>9, <1>11, <1>12, <1>15, <2>1, NoJobIs, IdleThen
  <2>4. Pads
    BY <1>8, <1>13, <1>14, <2>3 DEF Pads, Grown
  <2>5. Position' = Position + call'.len /\ Position' <= Len(Content')
    BY <1>9, <1>12, <1>14, <1>15, <2>1, <2>3
  <2>6. call'.bytes = SubSeq(Content', Position + 1, Position')
    BY <1>9, <1>14, <1>15, <2>1, <2>3
  <2>7. Shown
    BY <1>3, <1>13, <2>1, <2>3, <2>4, <2>5, <2>6, ShowsRead
  <2> QED BY <1>13, <2>2, <2>7
<1>16. CASE Len(all) # job.len
  <2>1. job' = [job EXCEPT !.bytes = all] /\ call' = call
    BY <1>16
  <2>2. /\ job' \in Jobs /\ job'.op = job.op /\ job'.len = job.len /\ job'.bytes = all
        /\ job'.file = job.file /\ job'.tell = job.tell
    BY <1>1, <1>9, <2>1 DEF Jobs
  <2>3. k + n < job.len /\ at = u.len
    <3>1. n # job.len - k
      <4>1. Len(all) = k + n
        BY <1>9
      <4>2. k + n # job.len
        BY <1>16, <4>1
      <4>3. k \in Nat /\ n \in Nat /\ job.len \in Nat
        BY <1>2, <1>5
      <4> QED BY <4>2, <4>3
    <3>2. n = u.len - u.pos
      BY <1>5, <3>1
    <3>3. at = u.len
      BY <1>3, <3>2 DEF at
    <3> QED BY <1>2, <1>5, <3>1, <3>3
  <2>4. Reading'
    <3>1. w'.base + w'.len = job'.tell + Len(job'.bytes) /\ w'.base + w'.len <= w'.size
      <4>1. Len(job'.bytes) = k + n
        BY <1>9, <2>2
      <4>2. u.base + u.len = job.tell + (k + n)
        BY <1>11, <1>12, <2>3
      <4>3. job'.tell = job.tell /\ w'.base = u.base /\ w'.len = u.len /\ w'.size = u.size
        BY <1>11, <2>2
      <4> QED BY <4>1, <4>2, <4>3
    <3>2. w'.pos = w'.len
      BY <1>11, <2>3
    <3>3. job'.bytes = SubSeq(w'.file, job'.tell + 1, job'.tell + Len(job'.bytes))
      BY <1>9, <1>11, <2>2
    <3>4. Grown(w'.writable, job'.file, w'.file)
      BY <1>8, <1>11, <2>2
    <3> QED BY <3>1, <3>2, <3>3, <3>4 DEF Reading
  <2>5. IInv'
    <3>1. Working'
      BY <1>9, <1>11, <2>2, <2>3, <2>4 DEF Working, Comparisons
    <3> QED BY <1>11, <2>2, <3>1 DEF IInv, Rest
  <2>6. Content' = Content /\ Position' = Position
    BY <1>14, <2>2, BusyThen
  <2> QED BY <1>11, <1>13, <2>1, <2>5, <2>6, ShowsNothing
<1> QED BY <1>15, <1>16

\* remap_and_read and remap_and_skip.
LEMMA ReadMoreStep ==
  ASSUME Careful, IInv, ReadMore \/ SkipMore
  PROVE  IInv' /\ Shown /\ Kept
<1>1. PICK op \in {"read", "skip"} : More(op, w.base + w.len, FileBytesAt, SameFile)
  BY DEF ReadMore, SkipMore
<1>2. job.op = op /\ region' = region /\ written' = written /\ Rest
  BY <1>1, RestIs DEF More
<1> DEFINE from == w.base + w.len
<1>3. PICK o \in UnalignedRemap(w, from, Block) :
        IF o.exc # "none"
        THEN w' = o.w /\ job' = NoJob /\ Called(job.op, job.len, job.bytes, 0, o.exc)
        ELSE LET n == Least(job.len - Len(job.bytes), o.w.len - o.w.pos)
                 all == job.bytes \o FileBytesAt(o.w, n)
             IN  /\ w' = [o.w EXCEPT !.file = o.w.file, !.pos = @ + n]
                 /\ IF Len(all) = job.len
                    THEN job' = NoJob /\ Called(job.op, job.len, all, 0, "none")
                    ELSE job' = [job EXCEPT !.bytes = all] /\ call' = call
  BY <1>1, <1>2, Zenon DEF More, SameFile
<1>4. Good(w) /\ w.open
  BY <1>2 DEF IInv, Working
<1>5. from \in Nat /\ from \in {TellOf(w), w.base + w.len}
  BY <1>4, WindowIs
<1>6. Block \in Nat
  BY BlockAssumption
<1>7. from = w.base + w.len
  OBVIOUS
<1> HIDE DEF from
<1>8. \/ o.exc = "eof" /\ o.w = w /\ ~w.writable /\ w.size <= from
      \/ Failed(w, o) /\ (w.faults > 0 \/ (~w.writable /\ TellOf(w) = w.size))
      \/ o.exc = "none" /\ Moved(w, o.w) /\ TellOf(o.w) = from /\ o.w.base + o.w.len <= o.w.size
  BY <1>3, <1>4, <1>5, <1>6, UnalignedRemapIs
<1>9. CASE \/ o.exc = "eof" /\ o.w = w /\ ~w.writable /\ w.size <= from
           \/ Failed(w, o) /\ (w.faults > 0 \/ (~w.writable /\ TellOf(w) = w.size))
  <2>1. o.exc # "none"
    BY <1>9 DEF Failed
  <2>2. w' = o.w /\ job' = NoJob /\ Called(job.op, job.len, job.bytes, 0, o.exc)
    BY <1>3, <2>1
  <2>3. \/ o.exc = "eof" /\ o.w = w /\ ~w.writable /\ w.size <= w.base + w.len
        \/ Failed(w, o) /\ (w.faults > 0 \/ (~w.writable /\ TellOf(w) = w.size))
    BY <1>7, <1>9
  <2> QED BY <1>2, <2>2, <2>3, ReadingThrows
<1>10. CASE o.exc = "none" /\ Moved(w, o.w) /\ TellOf(o.w) = from
            /\ o.w.base + o.w.len <= o.w.size
  <2> DEFINE u == o.w
             n == Least(job.len - Len(job.bytes), u.len - u.pos)
             all == job.bytes \o FileBytesAt(u, n)
  <2>1. /\ w' = [u EXCEPT !.file = u.file, !.pos = @ + n]
        /\ IF Len(all) = job.len
           THEN job' = NoJob /\ Called(job.op, job.len, all, 0, "none")
           ELSE job' = [job EXCEPT !.bytes = all] /\ call' = call
    BY <1>3, <1>10
  <2>2. Moved(w, u) /\ TellOf(u) = w.base + w.len /\ u.base + u.len <= u.size
    BY <1>7, <1>10
  <2>3. n = Least(job.len - Len(job.bytes), u.len - u.pos) /\ job.op \in {"read", "skip"}
    BY <1>2
  <2>4. all = job.bytes \o FileBytesAt(u, n)
    OBVIOUS
  <2> HIDE DEF all, n, u
  <2> QED BY <1>2, <2>1, <2>2, <2>3, <2>4, ReadingGoesOn
<1> QED BY <1>8, <1>9, <1>10

\* What is put over bytes with zeros behind them has zeros behind it, too.
LEMMA PutExtended ==
  ASSUME NEW g \in Seq(Nat), NEW h \in Seq(Nat), Extended(g, h), NEW p \in Nat, NEW b \in Seq(Nat)
  PROVE  Extended(Overlay(g, p, b), Overlay(h, p, b))
<1> DEFINE x == Overlay(g, p, b)
           y == Overlay(h, p, b)
           n == Len(b)
<1>1. IsPut(x, g, p, b, Zero) /\ IsPut(y, h, p, b, Zero)
  BY OverlayOK
<1>2. CASE b = <<>>
  BY <1>2, OverlayNone
<1>3. CASE b # <<>>
  <2>1. n \in Nat \ {0} /\ Len(g) \in Nat /\ Len(h) \in Nat /\ Len(h) >= Len(g)
    BY <1>3 DEF Extended
  <2>2. /\ Len(x) = IF p + n <= Len(g) THEN Len(g) ELSE p + n
        /\ Len(y) = IF p + n <= Len(h) THEN Len(h) ELSE p + n
    BY <1>1, <1>3 DEF IsPut
  <2>3. Len(y) >= Len(x) /\ Len(x) >= Len(g) /\ Len(x) >= p + n /\ Len(x) \in Nat /\ Len(y) \in Nat
    <3> HIDE DEF x, y, n
    <3> QED BY <2>1, <2>2
  <2>4. ASSUME NEW i \in 1..Len(y) PROVE y[i] = IF i <= Len(x) THEN x[i] ELSE Zero
    <3>1. y[i] = IF i > p /\ i <= p + n THEN b[i - p] ELSE IF i <= Len(h) THEN h[i] ELSE Zero
      BY <1>1 DEF IsPut
    <3>2. ASSUME i <= Len(x)
          PROVE  x[i] = IF i > p /\ i <= p + n THEN b[i - p] ELSE IF i <= Len(g) THEN g[i] ELSE Zero
      <4>1. i \in 1..Len(x)
        BY <2>3, <3>2
      <4> QED BY <1>1, <4>1 DEF IsPut
    <3>3. i <= Len(h) => h[i] = IF i <= Len(g) THEN g[i] ELSE Zero
      <4>1. i <= Len(h) => i \in 1..Len(h)
        BY <2>1
      <4> QED BY <4>1 DEF Extended
    <3> HIDE DEF x, y, n
    <3>4. i \in Nat
      BY <2>3
    <3>5. CASE i <= Len(x)
      <4>1. i <= Len(g) => i <= Len(h)
        BY <2>1, <3>4
      <4> QED BY <3>1, <3>2, <3>3, <3>5, <4>1
    <3>6. CASE ~(i <= Len(x))
      <4>1. ~(i <= Len(g)) /\ ~(i <= p + n)
        BY <2>1, <2>3, <3>4, <3>6
      <4> QED BY <3>1, <3>3, <3>6, <4>1
    <3> QED BY <3>5, <3>6
  <2> HIDE DEF x, y, n
  <2>5. Extended(x, y)
    BY <2>3, <2>4 DEF Extended
  <2> QED BY <2>5 DEF x, y
<1> QED BY <1>2, <1>3

\* A pass of the loop of a write that throws.
LEMMA WritingThrows ==
  ASSUME Careful, IInv, job.op = "write", NEW o, Failed(w, o), w.faults > 0,
         w' = o.w, job' = NoJob, Called(job.op, job.len, job.bytes, 0, o.exc), Rest
  PROVE  IInv' /\ Shown /\ Kept
<1>1. /\ w.open /\ Good(w) /\ Writing /\ job \in Jobs
      /\ job' \in Jobs /\ job'.op = "none"
      /\ call'.op = "write" /\ call'.exc = "io" /\ call'.bytes = job.bytes
      /\ Closes(w, w') /\ w'.lost = w.lost /\ Grown(w.writable, w.file, w'.file)
  BY NoJobIs DEF IInv, Working, Comparisons, Called, Failed
<1>2. State = "writing" /\ Content = job.file /\ Position = job.tell
  <2>1. w.writable
    BY <1>1 DEF Writing
  <2> QED BY <1>1, <2>1, OpenIs, BusyIs
<1>3. IInv' /\ State' = "closed" /\ Content' = w'.file /\ Content' \in Seq(Nat) /\ Position' = 0
  BY <1>1, ClosedShows
<1>4. Extended(Overlay(job.file, job.tell, job.bytes), w'.file)
  <2> DEFINE g == Overlay(job.file, job.tell, job.bytes)
  <2>1. job.file \in Seq(Nat) /\ job.tell \in Nat /\ job.bytes \in Seq(Nat)
    BY <1>1 DEF Jobs
  <2>2. g \in Seq(Nat)
    BY <2>1, OverlayOK DEF IsPut
  <2>3. Extended(g, w.file) /\ Extended(w.file, w'.file)
    BY <1>1 DEF Writing, Grown
  <2>4. w.file \in Seq(Nat) /\ w'.file \in Seq(Nat)
    BY <1>1, <1>3, WindowIs
  <2> HIDE DEF g
  <2>5. Extended(g, w'.file)
    BY <2>2, <2>3, <2>4, ExtendedTwice
  <2> QED BY <2>5 DEF g
<1>5. job.bytes \in Seq(Nat)
  BY <1>1 DEF Jobs
<1>6. Shown
  BY <1>1, <1>2, <1>3, <1>4, <1>5, ShowsFail
<1> QED BY <1>1, <1>3, <1>6 DEF Kept

\* What is left of a write, from m_pos on.
Left(k, n) == SubSeq(Data(job.len), k + 1, k + n)

\* The bytes that a pass of a write puts, behind those that were put.
LEMMA WritingJoins ==
  ASSUME IInv, job.op = "write", NEW f \in Seq(Nat), Extended(w.file, f), NEW n \in Nat,
         Len(job.bytes) + n <= job.len
  PROVE  LET k == Len(job.bytes)
             b == Left(k, n)
             all == job.bytes \o b
         IN  /\ b \in Seq(Nat) /\ Len(b) = n
             /\ all \in Seq(Nat) /\ Len(all) = k + n /\ all = SubSeq(Data(job.len), 1, k + n)
             /\ Extended(Overlay(job.file, job.tell, all), Overlay(f, job.tell + k, b))
<1> DEFINE k == Len(job.bytes)
           d == Data(job.len)
           b == Left(k, n)
           all == job.bytes \o b
           a == job.bytes
           c == job.file
           p == job.tell
<1>1. /\ w.open /\ Good(w) /\ Writing /\ job.len \in Nat /\ c \in Seq(Nat) /\ p \in Nat
      /\ a \in Seq(Nat)
  BY DEF IInv, Working, Comparisons, Jobs
<1>2. k \in Nat /\ w.file \in Seq(Nat) /\ d \in Seq(Nat) /\ Len(d) = job.len
  <2>1. k \in Nat
    BY <1>1
  <2>2. w.file \in Seq(Nat)
    BY <1>1, WindowIs
  <2>3. d \in Seq(Nat) /\ Len(d) = job.len
    BY <1>1, DataIs
  <2> QED BY <2>1, <2>2, <2>3
<1>3. a = SubSeq(d, 1, k) /\ Extended(Overlay(c, p, a), w.file)
  BY <1>1 DEF Writing
<1>4. b = SubSeq(d, k + 1, k + n)
  BY DEF Left
<1> HIDE DEF d, b, c, p
<1> HIDE DEF k
<1>5. b \in Seq(Nat) /\ Len(b) = n
  <2>1. k + n <= Len(d)
    BY <1>2 DEF k
  <2> QED BY <1>2, <1>4, <2>1, PartOK
<1>6. all = SubSeq(d, 1, k + n)
  <2>1. 0 \in Nat /\ 0 + 1 = 1 /\ 0 + k = k /\ 0 + k + 1 = k + 1 /\ 0 + k + n = k + n
    BY <1>2
  <2>2. 0 + k + n <= Len(d)
    BY <1>2, <2>1 DEF k
  <2>3. SubSeq(d, 0 + 1, 0 + k) \o SubSeq(d, 0 + k + 1, 0 + k + n) = SubSeq(d, 0 + 1, 0 + k + n)
    BY <1>2, <2>1, <2>2, PartJoin, SMTT(30)
  <2> QED BY <1>3, <1>4, <2>1, <2>3
<1>7. all \in Seq(Nat) /\ Len(all) = k + n
  <2>1. a \o b \in Seq(Nat) /\ Len(a \o b) = Len(a) + Len(b)
    BY <1>1, <1>5, ConcatProperties, ZenonT(30)
  <2> QED BY <1>5, <2>1 DEF k
<1>8. Extended(Overlay(c, p, all), Overlay(f, p + k, b))
  <2> DEFINE g == Overlay(c, p, a)
  <2>1. g \in Seq(Nat)
    BY <1>1, OverlayOK DEF IsPut
  <2>2. Overlay(g, p + k, b) = Overlay(c, p, a \o b)
    <3>1. c \in Seq(Nat) /\ p \in Nat /\ a \in Seq(Nat) /\ b \in Seq(Nat)
      BY <1>1, <1>5
    <3>2. k = Len(a)
      BY DEF k
    <3> HIDE DEF a
    <3> QED BY <3>1, <3>2, OverlayTwice
  <2> HIDE DEF g
  <2>3. Extended(g, w.file)
    BY <1>3 DEF g
  <2>4. Extended(g, f)
    BY <1>2, <2>1, <2>3, ExtendedTwice
  <2>5. p + k \in Nat
    BY <1>1, <1>2
  <2>6. Extended(Overlay(g, p + k, b), Overlay(f, p + k, b))
    BY <1>5, <2>1, <2>4, <2>5, PutExtended
  <2> QED BY <2>2, <2>6
<1> QED BY <1>5, <1>6, <1>7, <1>8 DEF k, b, c, p, d

\* A pass of the loop of a write that copies.
LEMMA WritingGoesOn ==
  ASSUME Careful, IInv, job.op = "write", NEW u, Moved(w, u),
         TellOf(u) = TellOf(w), u.base + u.len <= u.size, Rest,
         NEW n, n = Least(job.len - Len(job.bytes), u.len - u.pos),
         NEW all, all = job.bytes \o Left(Len(job.bytes), n),
         w' = [u EXCEPT !.file = Overlay(u.file, TellOf(u), Left(Len(job.bytes), n)), !.pos = @ + n],
         IF Len(all) = job.len
         THEN job' = NoJob /\ Called(job.op, job.len, all, 0, "none")
         ELSE job' = [job EXCEPT !.bytes = all] /\ call' = call
  PROVE  IInv' /\ Shown /\ Kept
<1> DEFINE k == Len(job.bytes)
           at == u.pos + n
           b == Left(k, n)
           f == Overlay(u.file, TellOf(u), b)
<1>1. /\ w.open /\ Good(w) /\ Writing /\ k < job.len /\ job \in Jobs
      /\ Good(u) /\ u.open /\ u.lost = w.lost /\ u.faults = w.faults
      /\ u.writable = w.writable /\ Grown(w.writable, w.file, u.file)
  BY DEF IInv, Working, Comparisons, Moved
<1>2. /\ job.len \in Nat /\ job.tell \in Nat /\ job.bytes \in Seq(Nat) /\ job.file \in Seq(Nat)
      /\ k \in Nat
  <2>1. /\ job.len \in Nat /\ job.tell \in Nat /\ job.bytes \in Seq(Nat)
        /\ job.file \in Seq(Nat)
    BY <1>1 DEF Jobs
  <2> QED BY <2>1
<1>3. /\ u.size \in Nat /\ u.base \in Nat /\ u.pos \in Nat /\ u.len \in Nat /\ u.pos <= u.len
      /\ u.file \in Seq(Nat) /\ u.size = Len(u.file) /\ TellOf(u) = u.base + u.pos
      /\ TellOf(u) \in Nat
  BY <1>1, WindowIs
<1>4. w.writable /\ TellOf(w) = job.tell + k
  BY <1>1 DEF Writing
<1>5. Extended(w.file, u.file)
  BY <1>1, <1>4 DEF Grown
<1>6. w' = WithBytes(u, f, at)
  BY DEF WithBytes
<1>7. n = Least(job.len - k, u.len - u.pos) /\ all = job.bytes \o b
  OBVIOUS
<1> HIDE DEF b, f, at
<1>8. /\ n \in Nat /\ n <= u.len - u.pos /\ k + n <= job.len
  <2>1. k \in Nat /\ k < job.len /\ job.len \in Nat
    BY <1>1, <1>2
  <2>2. u.pos \in Nat /\ u.len \in Nat /\ u.pos <= u.len
    BY <1>3
  <2>3. n = Least(job.len - k, u.len - u.pos)
    BY <1>7
  <2> HIDE DEF k
  <2> QED BY <2>1, <2>2, <2>3 DEF Least
<1>9. /\ at \in Nat /\ at <= u.len /\ u.base + at = TellOf(u) + n /\ TellOf(u) + n <= u.size
  <2>1. /\ u.size \in Nat /\ u.base \in Nat /\ u.pos \in Nat /\ u.len \in Nat
        /\ TellOf(u) = u.base + u.pos /\ n \in Nat /\ n <= u.len - u.pos
    BY <1>3, <1>8
  <2>2. at = u.pos + n
    BY DEF at
  <2> HIDE DEF k
  <2> QED BY <2>1, <2>2
<1>10. /\ b \in Seq(Nat) /\ Len(b) = n
       /\ all \in Seq(Nat) /\ Len(all) = k + n /\ all = SubSeq(Data(job.len), 1, k + n)
       /\ Extended(Overlay(job.file, job.tell, all), Overlay(u.file, job.tell + k, b))
  BY <1>3, <1>5, <1>7, <1>8, WritingJoins DEF b
<1>11. f \in Seq(Nat) /\ Len(f) = u.size
  <2>1. TellOf(u) + Len(b) <= Len(u.file)
    BY <1>3, <1>9, <1>10
  <2> QED BY <1>3, <1>10, <2>1, PutInside DEF f
<1>12. Extended(Overlay(job.file, job.tell, all), f)
  BY <1>4, <1>10 DEF f
<1>13. /\ Good(w') /\ w'.file = f /\ w'.open /\ w'.writable = w.writable
       /\ w'.size = u.size /\ w'.base = u.base /\ w'.pos = at /\ w'.len = u.len
       /\ w'.faults = w.faults /\ w'.lost = w.lost /\ TellOf(w') = u.base + at
  <2> DEFINE x == WithBytes(u, f, at)
  <2>1. /\ Good(x) /\ x.file = f /\ x.open /\ x.writable = u.writable
        /\ x.size = u.size /\ x.base = u.base /\ x.pos = at /\ x.len = u.len
        /\ x.faults = u.faults /\ x.lost = u.lost /\ TellOf(x) = u.base + at
    BY <1>1, <1>9, <1>11, PutIn
  <2>2. w' = x
    BY <1>6
  <2> HIDE DEF x
  <2> QED BY <1>1, <2>1, <2>2
<1> HIDE DEF k
<1>14. TellOf(w') = job.tell + (k + n)
  <2>1. job.tell \in Nat /\ k \in Nat /\ n \in Nat
    BY <1>2, <1>8
  <2> QED BY <1>4, <1>9, <1>13, <2>1
<1>15. State' = State /\ Kept /\ State = "writing"
  BY <1>1, <1>4, <1>13, OpenIs DEF State, Kept
<1>16. Content = job.file /\ Position = job.tell
  BY BusyIs
<1>17. CASE Len(all) = job.len
  <2>1. job' = NoJob /\ call'.op = "write" /\ call'.bytes = all /\ call'.exc = "none"
    <3>1. job' = NoJob /\ Called(job.op, job.len, all, 0, "none")
      BY <1>17
    <3> QED BY <3>1 DEF Called
  <2>2. IInv'
    BY <1>13, <2>1, NoJobIs DEF IInv, Rest
  <2>3. Content' = f /\ Position' = job.tell + (k + n)
    BY <1>13, <1>14, <2>1, NoJobIs, IdleThen
  <2>4. Extended(Overlay(Content, Position, call'.bytes), Content')
    BY <1>12, <1>16, <2>1, <2>3
  <2>5. Position' = Position + Len(call'.bytes)
    BY <1>10, <1>16, <2>1, <2>3 DEF k
  <2>6. Shown
    BY <1>11, <1>15, <2>1, <2>3, <2>4, <2>5, ShowsWrite
  <2> QED BY <1>15, <2>2, <2>6
<1>18. CASE Len(all) # job.len
  <2>1. job' = [job EXCEPT !.bytes = all] /\ call' = call
    BY <1>18
  <2>2. /\ job' \in Jobs /\ job'.op = job.op /\ job'.len = job.len /\ job'.bytes = all
        /\ job'.file = job.file /\ job'.tell = job.tell
    BY <1>1, <1>10, <2>1 DEF Jobs
  <2>3. Len(all) < job.len
    <3>1. Len(all) = k + n
      BY <1>10
    <3>2. k \in Nat /\ n \in Nat /\ job.len \in Nat /\ k + n <= job.len
      BY <1>2, <1>8
    <3>3. k + n # job.len
      BY <1>18, <3>1
    <3>4. k + n < job.len
      BY <3>2, <3>3
    <3> QED BY <3>1, <3>4
  <2>4. Writing'
    <3>1. TellOf(w') = job'.tell + Len(job'.bytes)
      BY <1>10, <1>14, <2>2 DEF k
    <3>2. Extended(Overlay(job'.file, job'.tell, job'.bytes), w'.file)
      BY <1>12, <1>13, <2>2
    <3>3. job'.bytes = SubSeq(Data(job'.len), 1, Len(job'.bytes))
      BY <1>10, <2>2 DEF k
    <3> QED BY <1>4, <1>13, <3>1, <3>2, <3>3 DEF Writing
  <2>5. IInv'
    <3>1. Working'
      BY <1>13, <2>2, <2>3, <2>4 DEF Working, Comparisons
    <3> QED BY <1>13, <2>2, <3>1 DEF IInv, Rest
  <2>6. Content' = Content /\ Position' = Position
    BY <1>16, <2>2, BusyThen
  <2> QED BY <1>13, <1>15, <2>1, <2>5, <2>6, ShowsNothing
<1> QED BY <1>17, <1>18

\* remap_and_write.
LEMMA WriteMoreStep ==
  ASSUME Careful, IInv, WriteMore
  PROVE  IInv' /\ Shown /\ Kept
<1>1. job.op = "write" /\ region' = region /\ written' = written /\ Rest
  BY RestIs DEF WriteMore, More
<1> DEFINE from == TellOf(w)
<1>2. PICK o \in UnalignedRemap(w, from, Block) :
        IF o.exc # "none"
        THEN w' = o.w /\ job' = NoJob /\ Called("write", job.len, job.bytes, 0, o.exc)
        ELSE LET n == Least(job.len - Len(job.bytes), o.w.len - o.w.pos)
                 all == job.bytes \o Left(Len(job.bytes), n)
             IN  /\ w' = [o.w EXCEPT !.file = Overlay(o.w.file, TellOf(o.w), Left(Len(job.bytes), n)),
                                     !.pos = @ + n]
                 /\ IF Len(all) = job.len
                    THEN job' = NoJob /\ Called("write", job.len, all, 0, "none")
                    ELSE job' = [job EXCEPT !.bytes = all] /\ call' = call
  BY Zenon DEF WriteMore, More, Left
<1>3. Good(w) /\ w.open /\ w.writable
  BY <1>1 DEF IInv, Working, Comparisons, Writing
<1>4. from \in Nat /\ from \in {TellOf(w), w.base + w.len}
  BY <1>3, WindowIs
<1>5. Block \in Nat
  BY BlockAssumption
<1>6. from = TellOf(w)
  OBVIOUS
<1> HIDE DEF from
<1>7. \/ o.exc = "eof" /\ o.w = w /\ ~w.writable /\ w.size <= from
      \/ Failed(w, o) /\ (w.faults > 0 \/ (~w.writable /\ TellOf(w) = w.size))
      \/ o.exc = "none" /\ Moved(w, o.w) /\ TellOf(o.w) = from /\ o.w.base + o.w.len <= o.w.size
  BY <1>2, <1>3, <1>4, <1>5, UnalignedRemapIs
<1>8. CASE Failed(w, o) /\ (w.faults > 0 \/ (~w.writable /\ TellOf(w) = w.size))
  <2>1. o.exc # "none" /\ w.faults > 0
    BY <1>3, <1>8 DEF Failed
  <2>2. w' = o.w /\ job' = NoJob /\ Called(job.op, job.len, job.bytes, 0, o.exc)
    BY <1>1, <1>2, <2>1
  <2> QED BY <1>1, <1>8, <2>1, <2>2, WritingThrows
<1>9. CASE o.exc = "none" /\ Moved(w, o.w) /\ TellOf(o.w) = from
           /\ o.w.base + o.w.len <= o.w.size
  <2> DEFINE u == o.w
             n == Least(job.len - Len(job.bytes), u.len - u.pos)
             all == job.bytes \o Left(Len(job.bytes), n)
  <2>1. /\ w' = [u EXCEPT !.file = Overlay(u.file, TellOf(u), Left(Len(job.bytes), n)), !.pos = @ + n]
        /\ IF Len(all) = job.len
           THEN job' = NoJob /\ Called(job.op, job.len, all, 0, "none")
           ELSE job' = [job EXCEPT !.bytes = all] /\ call' = call
    BY <1>1, <1>2, <1>9
  <2>2. Moved(w, u) /\ TellOf(u) = TellOf(w) /\ u.base + u.len <= u.size
    BY <1>6, <1>9
  <2>3. n = Least(job.len - Len(job.bytes), u.len - u.pos)
    OBVIOUS
  <2>4. all = job.bytes \o Left(Len(job.bytes), n)
    OBVIOUS
  <2> HIDE DEF all, n, u
  <2> QED BY <1>1, <2>1, <2>2, <2>3, <2>4, WritingGoesOn
<1> QED BY <1>3, <1>7, <1>8, <1>9

(***************************************************************************)
(* BinCompare.                                                             *)
(***************************************************************************)

\* An object that is only read is somewhere in its file.
LEMMA InFile ==
  ASSUME NEW t, Good(t), t.open, ~t.writable PROVE TellOf(t) \in 0..Len(t.file)
<1>1. /\ t.size \in Nat /\ t.base \in Nat /\ t.pos \in Nat /\ t.len \in Nat /\ t.pos <= t.len
      /\ t.base + t.len <= t.size /\ TellOf(t) = t.base + t.pos
  BY WindowIs
<1>2. t.size = Len(t.file)
  BY WindowIs
<1>3. TellOf(t) \in 0..t.size
  BY <1>1
<1> QED BY <1>2, <1>3

\* A comparison is over, and the file is as it was.
LEMMA ComparedShows ==
  ASSUME IInv, w.open, ~w.writable, job.op = "none" \/ job.op \in Comparisons, Moved(w, w'),
         job' \in Jobs, job'.op = "none", Rest, call'.op = "compare", call'.exc = "none"
  PROVE  IInv' /\ Shown /\ Kept
<1>1. /\ IInv' /\ State' = State /\ Kept /\ Content' = w'.file /\ Position' = TellOf(w')
  BY MovedShows
<1>2. /\ Good(w') /\ w'.open /\ ~w'.writable /\ w'.file = w.file
  <2>1. w.writable \in BOOLEAN
    BY DEF IInv, Good, Win
  <2> QED BY <2>1 DEF Moved, Grown
<1>3. TellOf(w') \in 0..Len(w'.file)
  BY <1>2, InFile
<1>4. Content = w.file
  BY DEF Content, Comparisons
<1> QED BY <1>1, <1>2, <1>3, <1>4, ShowsCompare

\* A system call on this file failed in a comparison.
LEMMA CompareFails ==
  ASSUME IInv, w.open, ~w.writable, job.op = "none" \/ job.op \in Comparisons, NEW o, Failed(w, o),
         w.faults > 0, w' = o.w,
         job' \in Jobs, job'.op = "none", Rest, call'.op = "compare", call'.exc = "io"
  PROVE  IInv' /\ Shown /\ Kept
<1>1. Closes(w, w') /\ w'.lost = w.lost /\ w'.file = w.file
  BY DEF Failed, Grown
<1>2. /\ IInv' /\ State' = "closed" /\ Content' = w'.file /\ Content' \in Seq(Nat)
      /\ Position' = 0
  BY <1>1, ClosedShows
<1>3. Content' = Content /\ State = "reading"
  BY <1>1, <1>2 DEF Content, State, Comparisons
<1>4. Pads
  BY <1>3 DEF Pads, Grown
<1>5. Shown
  BY <1>2, <1>3, <1>4, ShowsFail
<1> QED BY <1>1, <1>2, <1>5 DEF Kept

\* The other file, or a region of one of the two, could not be mapped.
LEMMA CompareThrown ==
  ASSUME IInv, w.open, ~w.writable, job.op = "none" \/ job.op \in Comparisons, NEW t, Moved(w, t),
         NEW e \in {"nomap", "other"}, NEW o \in Maybe(t, LAMBDA u : Thrown(u, e)),
         w' = o.w, job' = NoJob, Rest, call'.op = "compare", call'.exc = o.exc
  PROVE  o.exc = e /\ IInv' /\ Shown /\ Kept
<1> DEFINE n == t.faults - 1
<1>1. t.faults > 0 /\ w' = [t EXCEPT !.faults = n] /\ o.exc = e
  BY DEF Maybe, Thrown
<1>2. t \in Win /\ Placed(t) /\ t.open = w.open /\ t.writable = w.writable /\ t.faults = w.faults
      /\ t.lost = w.lost /\ t.file = w.file
  <2>1. w \in Win
    BY DEF IInv, Good
  <2>2. t \in Win /\ Placed(t) /\ t.open
    BY DEF Moved, Good
  <2>3. t.open = w.open
    BY <2>1, <2>2 DEF Win
  <2> QED BY <2>2, <2>3 DEF Moved, Grown
<1>3. n \in Nat
  BY <1>1, <1>2 DEF Win
<1> HIDE DEF n
<1>4. /\ w' \in Win /\ w'.file = w.file /\ w'.open = w.open /\ w'.writable = w.writable
      /\ w'.size = t.size /\ w'.base = t.base /\ w'.pos = t.pos /\ w'.len = t.len
      /\ w'.mapped = t.mapped /\ w'.lost = w.lost
  BY <1>1, <1>2, <1>3 DEF Win
<1>5. Good(w')
  BY <1>2, <1>4 DEF Good, Placed
<1>6. IInv'
  BY <1>5, NoJobIs DEF IInv, Rest, Good, Placed
<1>7. State' = State /\ State # "closed" /\ Kept
  BY <1>4 DEF State, Kept
<1>8. Content = w.file /\ Content' = w.file /\ Position' = TellOf(w')
  BY <1>4, NoJobIs, IdleThen DEF Content, Comparisons
<1>9. Position' \in 0..Len(Content)
  BY <1>4, <1>5, <1>8, InFile
<1>10. Shown
  BY <1>1, <1>2, <1>7, <1>8, <1>9, ShowsThrow
<1> QED BY <1>1, <1>6, <1>7, <1>10

\* An assertion ended the program.
LEMMA CompareAborts ==
  ASSUME IInv, w.open, ~w.writable, job.op = "none" \/ job.op \in Comparisons, NEW t, Moved(w, t),
         NEW assertion \in BOOLEAN, Aborts(t, assertion), written' = written
  PROVE  IInv' /\ Shown /\ Kept /\ call'.exc = "abort"
<1> DEFINE f == Fresh(t)
<1>1. w' = [f EXCEPT !.lost = FALSE] /\ job' = NoJob /\ region' = NoRegion
      /\ call'.op = "compare" /\ call'.exc = "abort"
  BY DEF Aborts, Called
<1>2. t \in Win /\ t.writable = w.writable /\ t.file = w.file
  BY DEF Moved, Good, Grown
<1>3. Closes(t, f) /\ f.file = t.file
  BY <1>2, FreshIs
<1> HIDE DEF f
<1>4. Closes(w, w') /\ w'.file = w.file /\ w'.lost = FALSE
  BY <1>1, <1>2, <1>3 DEF Closes, Win
<1>5. Rest
  BY <1>1 DEF Rest, IInv
<1>6. /\ IInv' /\ State' = "closed" /\ Content' = w'.file /\ Position' = 0
  BY <1>1, <1>4, <1>5, NoJobIs, ClosedShows
<1>7. Content' = Content /\ State # "closed"
  BY <1>4, <1>6 DEF Content, State, Comparisons
<1> QED BY <1>1, <1>4, <1>6, <1>7, ShowsThrow DEF Kept

\* What is known in a comparison.
LEMMA ComparingIs ==
  ASSUME IInv, job.op \in Comparisons
  PROVE  /\ w.open /\ ~w.writable /\ Good(w) /\ job \in Jobs /\ job.file \in Others
         /\ job.file \in Seq(Nat) /\ Len(job.file) \in Nat
         /\ w.file \in Seq(Nat) /\ w.size = Len(w.file) /\ w.size \in Nat
         /\ job.bytes \in Seq(Nat) /\ Len(job.bytes) \in Nat /\ job.len \in Nat
         /\ Len(job.bytes) <= job.len /\ job.len <= w.size /\ job.len <= Len(job.file)
         /\ job.len = Least(w.size, Len(job.file))
         /\ \A i \in 1..Len(job.bytes) : w.file[i] = job.file[i]
         /\ job.op = "compare" => TellOf(w) = Len(job.bytes)
         /\ job.op = "compare_blocks" => w.size = Len(job.file)
<1>1. /\ w.open /\ ~w.writable /\ Good(w) /\ job \in Jobs /\ Len(job.bytes) <= job.len
      /\ job.len = Least(w.size, Len(job.file)) /\ job.file \in Others
      /\ \A i \in 1..Len(job.bytes) : w.file[i] = job.file[i]
      /\ IF job.op = "compare" THEN TellOf(w) = Len(job.bytes) ELSE w.size = Len(job.file)
  BY DEF IInv, Working, Comparing, Comparisons
<1>2. job.bytes \in Seq(Nat) /\ job.len \in Nat /\ job.file \in Seq(Nat)
  BY <1>1 DEF Jobs
<1>3. w.size \in Nat /\ w.file \in Seq(Nat) /\ w.size = Len(w.file)
  BY <1>1, WindowIs
<1>4. job.len <= w.size /\ job.len <= Len(job.file)
  BY <1>1, <1>2, <1>3 DEF Least
<1> QED BY <1>1, <1>2, <1>3, <1>4

\* A comparison begins.
LEMMA CompareBegins ==
  ASSUME IInv, w.open, ~w.writable, job.op = "none", Moved(w, w'), Rest,
         NEW op \in Comparisons, NEW c \in Others, BeginCompare(op, w', c), call' = call,
         IF op = "compare" THEN TellOf(w') = 0 ELSE w'.size = Len(c)
  PROVE  IInv' /\ Shown /\ Kept /\ job'.op # "none"
<1> DEFINE n == Least(w'.size, Len(c))
<1>1. job' = [op |-> op, len |-> n, bytes |-> <<>>, file |-> c, tell |-> TellOf(w)]
  BY DEF BeginCompare
<1>2. /\ Good(w') /\ w'.open /\ w'.writable = w.writable /\ w'.faults = w.faults
      /\ w'.lost = w.lost /\ w'.file = w.file
  BY DEF Moved, Grown
<1>3. w'.size \in Nat /\ TellOf(w) \in Nat
  BY <1>2, WindowIs DEF IInv
<1>4. c \in Seq(Nat) /\ Len(c) \in Nat
  <2>1. c \in Seq(Nat)
    BY InputsAssumption
  <2> QED BY <2>1
<1>5. n \in Nat /\ n = Least(w'.size, Len(c))
  BY <1>3, <1>4 DEF Least
<1> HIDE DEF n
<1>6. /\ job' \in Jobs /\ job'.op = op /\ job'.len = n /\ job'.bytes = <<>>
      /\ job'.file = c /\ job'.tell = TellOf(w)
  <2>1. <<>> \in Seq(Nat)
    OBVIOUS
  <2> QED BY <1>1, <1>3, <1>4, <1>5, <2>1 DEF Jobs
<1>7. Comparing'
  <2>1. Len(job'.bytes) = 0
    BY <1>6
  <2>2. \A i \in 1..Len(job'.bytes) : w'.file[i] = job'.file[i]
    BY <2>1
  <2>3. IF job'.op = "compare" THEN TellOf(w') = Len(job'.bytes) ELSE w'.size = Len(job'.file)
    BY <1>6, <2>1
  <2> QED BY <1>2, <1>5, <1>6, <2>2, <2>3 DEF Comparing
<1>8. IInv'
  <2>1. Len(job'.bytes) <= job'.len
    BY <1>5, <1>6
  <2>2. Working'
    BY <1>2, <1>6, <1>7, <2>1 DEF Working, Comparisons
  <2> QED BY <1>2, <1>6, <2>2 DEF IInv, Rest
<1>9. Content' = Content /\ Position' = Position /\ State' = State
  BY <1>2, <1>6 DEF Content, Position, State, Idle, Comparisons
<1>10. job'.op # "none"
  BY <1>6 DEF Comparisons
<1> QED BY <1>2, <1>8, <1>9, <1>10, ShowsNothing DEF Kept

\* A comparison goes on behind bytes that are alike.
LEMMA CompareGoesOn ==
  ASSUME IInv, job.op \in Comparisons, Moved(w, w'), Rest,
         NEW b \in Seq(Nat), Alike(b), Len(job.bytes) + Len(b) <= job.len,
         \A i \in 1..Len(b) : w.file[Len(job.bytes) + i] = job.file[Len(job.bytes) + i],
         job.op = "compare" => TellOf(w') = Len(job.bytes) + Len(b)
  PROVE  IInv' /\ Shown /\ Kept /\ job'.op # "none"
<1> DEFINE k == Len(job.bytes)
           n == Len(b)
           all == job.bytes \o b
<1>1. job' = [job EXCEPT !.bytes = all] /\ call' = call
  BY DEF Alike
<1>2. /\ w.open /\ ~w.writable /\ job \in Jobs /\ job.file \in Others
      /\ w.size = Len(w.file) /\ job.bytes \in Seq(Nat) /\ k \in Nat /\ job.len \in Nat
      /\ job.len = Least(w.size, Len(job.file))
      /\ \A i \in 1..k : w.file[i] = job.file[i]
      /\ job.op = "compare_blocks" => w.size = Len(job.file)
  BY ComparingIs
<1>3. all \in Seq(Nat) /\ Len(all) = k + n /\ n \in Nat
  BY <1>2
<1> HIDE DEF all
<1>4. /\ job' \in Jobs /\ job'.op = job.op /\ job'.len = job.len /\ job'.bytes = all
      /\ job'.file = job.file /\ job'.tell = job.tell
  BY <1>1, <1>2, <1>3 DEF Jobs
<1>5. /\ Good(w') /\ w'.open /\ ~w'.writable /\ w'.faults = w.faults /\ w'.lost = w.lost
      /\ w'.file = w.file /\ w'.size = w.size
  <2>1. /\ Good(w') /\ w'.open /\ w'.writable = w.writable /\ w'.faults = w.faults
        /\ w'.lost = w.lost /\ w'.file = w.file
    BY <1>2 DEF Moved, Grown
  <2> QED BY <1>2, <2>1, WindowIs
<1>6. ASSUME NEW i \in 1..(k + n) PROVE w.file[i] = job.file[i]
  <2>1. CASE i \in 1..k
    BY <1>2, <2>1
  <2>2. CASE i \notin 1..k
    <3>1. i - k \in 1..n /\ k + (i - k) = i
      BY <1>2, <1>3, <2>2
    <3>2. w.file[k + (i - k)] = job.file[k + (i - k)]
      BY <3>1
    <3> QED BY <3>1, <3>2
  <2> QED BY <2>1, <2>2
<1>7. Comparing'
  <2>1. \A i \in 1..Len(job'.bytes) : w'.file[i] = job'.file[i]
    BY <1>3, <1>4, <1>5, <1>6
  <2>2. IF job'.op = "compare" THEN TellOf(w') = Len(job'.bytes) ELSE w'.size = Len(job'.file)
    BY <1>2, <1>3, <1>4, <1>5 DEF Comparisons
  <2> QED BY <1>2, <1>4, <1>5, <2>1, <2>2 DEF Comparing
<1>8. IInv'
  <2>1. Len(job'.bytes) <= job'.len
    BY <1>3, <1>4
  <2>2. Working'
    BY <1>4, <1>5, <1>7, <2>1 DEF Working, Comparisons
  <2> QED BY <1>4, <1>5, <2>2 DEF IInv, Rest
<1>9. Content' = Content /\ Position' = Position /\ State' = State
  BY <1>2, <1>4, <1>5 DEF Content, Position, State, Idle, Comparisons
<1>10. job'.op # "none"
  BY <1>4 DEF Comparisons
<1> QED BY <1>1, <1>5, <1>8, <1>9, <1>10, ShowsNothing DEF Kept

\* The start of the comparison block by block.
LEMMA CompareBlocksStep ==
  ASSUME Careful, IInv, NEW c \in Others, CompareBlocks(c)
  PROVE  IInv' /\ Shown /\ Kept
<1>1. /\ w.open /\ ~w.writable /\ job.op = "none" /\ w' = w /\ Rest /\ call' = call
      /\ BeginCompare("compare_blocks", w, c) /\ w.size = Len(c)
  BY RestIs DEF CompareBlocks, Usable, Idle, MayCompare
<1>2. Moved(w, w')
  BY <1>1, MovedNot DEF IInv
<1>3. "compare_blocks" \in Comparisons /\ BeginCompare("compare_blocks", w', c)
  BY <1>1 DEF Comparisons
<1> QED BY <1>1, <1>2, <1>3, CompareBegins

\* The start of the comparison byte by byte: seek to 0, and the assertion.
LEMMA CompareBytesStep ==
  ASSUME Careful, IInv, NEW c \in Others, CompareBytes(c)
  PROVE  IInv' /\ Shown /\ Kept
<1>1. /\ w.open /\ ~w.writable /\ job.op = "none" /\ Good(w) /\ job \in Jobs
      /\ written' = written
  BY DEF CompareBytes, Usable, Idle, MayCompare, IInv
<1>2. PICK o \in SeekTo(w, 0) :
        \/ o.exc # "none" /\ Return(o, "compare", 0, <<>>, 0) /\ job' = job /\ region' = region
        \/ o.exc = "none" /\ Aborts(o.w, Least(o.w.size, Len(c)) > 0)
        \/ /\ o.exc = "none" /\ w' = o.w /\ BeginCompare("compare", o.w, c)
           /\ call' = call /\ region' = region
  BY DEF CompareBytes
<1>3. /\ w.size \in Nat /\ w.base \in Nat /\ w.len \in Nat /\ w.base + w.len <= w.size
  BY <1>1, WindowIs
<1>4. \/ o.exc = "none" /\ Moved(w, o.w) /\ TellOf(o.w) = 0
      \/ /\ o.exc \in {"eof", "io"} /\ o.w = w /\ ~w.writable /\ w.size <= 0
         /\ 0 > w.base + w.len \/ 0 < w.base
      \/ Failed(w, o) /\ w.faults > 0
  BY <1>1, <1>2, SeekToIs
<1>5. ~(w.size <= 0 /\ (0 > w.base + w.len \/ 0 < w.base))
  BY <1>3
<1>6. CASE o.exc = "none" /\ Moved(w, o.w) /\ TellOf(o.w) = 0
  <2> DEFINE assertion == Least(o.w.size, Len(c)) > 0
  <2>1. CASE Aborts(o.w, assertion)
    <3>1. assertion \in BOOLEAN
      OBVIOUS
    <3> HIDE DEF assertion
    <3> QED BY <1>1, <1>6, <2>1, <3>1, CompareAborts
  <2>2. CASE w' = o.w /\ BeginCompare("compare", o.w, c) /\ call' = call /\ region' = region
    <3>1. Rest /\ "compare" \in Comparisons /\ Moved(w, w') /\ TellOf(w') = 0
          /\ BeginCompare("compare", w', c)
      BY <1>1, <1>6, <2>2, RestIs DEF Comparisons
    <3> QED BY <1>1, <2>2, <3>1, CompareBegins
  <2> QED BY <1>2, <1>6, <2>1, <2>2
<1>7. CASE Failed(w, o) /\ w.faults > 0
  <2>1. /\ w' = o.w /\ job' = job /\ region' = region /\ call'.op = "compare" /\ call'.exc = "io"
    BY <1>2, <1>7 DEF Failed, Called, Return
  <2>2. Rest
    BY <1>1, <2>1, RestIs
  <2> QED BY <1>1, <1>7, <2>1, <2>2, CompareFails
<1> QED BY <1>4, <1>5, <1>6, <1>7

(***************************************************************************)
(* The order of files.                                                     *)
(***************************************************************************)

\* The least of some numbers is one of them.
LEMMA LeastOne ==
  ASSUME NEW S \in SUBSET Nat, S # {}
  PROVE  LET i == CHOOSE i \in S : \A j \in S : i <= j
         IN  i \in S /\ \A j \in S : i <= j
<1>1. PICK i \in S : \A j \in S : ~(<<j, i>> \in OpToRel(<, Nat))
  BY NatLessThanWellFounded, WFMin
<1>2. \A j \in S : ~(j < i)
  BY <1>1 DEF OpToRel
<1>3. \A j \in S : i <= j
  BY <1>2
<1> QED BY <1>3

\* What BinCompare should answer for two files.
Order(a, b) == IF Before(a, b) THEN -1 ELSE IF Before(b, a) THEN 1 ELSE 0

\* Files are ordered by their first bytes that differ.
LEMMA BeforeAt ==
  ASSUME NEW a \in Seq(Nat), NEW b \in Seq(Nat), NEW k \in Nat, k < Len(a), k < Len(b),
         \A i \in 1..k : a[i] = b[i], a[k + 1] < b[k + 1]
  PROVE  Before(a, b) /\ ~Before(b, a)
<1>1. Len(a) \in Nat /\ Len(b) \in Nat
  OBVIOUS
<1>2. k + 1 \in 1..Len(a) /\ k + 1 \in 1..Len(b) /\ k + 1 \in 1..Least(Len(a), Len(b))
  BY <1>1 DEF Least
<1>3. a[k + 1] \in Nat /\ b[k + 1] \in Nat
  BY <1>2
<1>4. SubSeq(a, 1, k) = SubSeq(b, 1, k)
  <2>1. /\ SubSeq(a, 1, k) \in Seq(Nat) /\ Len(SubSeq(a, 1, k)) = k
        /\ \A i \in 1..k : SubSeq(a, 1, k)[i] = a[i]
    BY <1>1
  <2>2. /\ SubSeq(b, 1, k) \in Seq(Nat) /\ Len(SubSeq(b, 1, k)) = k
        /\ \A i \in 1..k : SubSeq(b, 1, k)[i] = b[i]
    BY <1>1
  <2> QED BY <2>1, <2>2, SeqEqual
<1>5. Before(a, b)
  <2>1. (k + 1) - 1 = k
    OBVIOUS
  <2> QED BY <1>2, <1>4, <2>1 DEF Before
<1>6. ASSUME Len(b) < Len(a), SubSeq(a, 1, Len(b)) = b PROVE FALSE
  <2>1. SubSeq(a, 1, Len(b))[k + 1] = a[k + 1]
    BY <1>1, <1>2, <1>6
  <2> QED BY <1>3, <1>6, <2>1
<1>7. ASSUME NEW i \in 1..Least(Len(b), Len(a)), SubSeq(b, 1, i - 1) = SubSeq(a, 1, i - 1),
             b[i] < a[i]
      PROVE  FALSE
  <2>1. i \in 1..Len(a) /\ i \in 1..Len(b) /\ i \in Nat
    BY <1>1 DEF Least
  <2>2. CASE i <= k
    <3>1. i \in 1..k
      BY <2>1, <2>2
    <3>2. b[i] = a[i]
      BY <3>1
    <3>3. a[i] \in Nat
      BY <2>1
    <3> QED BY <1>7, <3>2, <3>3
  <2>3. CASE i = k + 1
    BY <1>3, <1>7, <2>3
  <2>4. CASE i > k + 1
    <3>1. k + 1 \in 1..(i - 1) /\ i - 1 <= Len(a) /\ i - 1 <= Len(b) /\ i - 1 \in Nat
      BY <1>1, <2>1, <2>4
    <3>2. SubSeq(b, 1, i - 1)[k + 1] = b[k + 1] /\ SubSeq(a, 1, i - 1)[k + 1] = a[k + 1]
      BY <1>1, <3>1
    <3>3. b[k + 1] = a[k + 1]
      BY <1>7, <3>2
    <3>4. a[k + 1] < b[k + 1]
      OBVIOUS
    <3> QED BY <1>3, <3>3, <3>4
  <2> QED BY <2>1, <2>2, <2>3, <2>4
<1> QED BY <1>5, <1>6, <1>7 DEF Before

\* The same, for the one or the other.
LEMMA OrderAt ==
  ASSUME NEW a \in Seq(Nat), NEW b \in Seq(Nat), NEW k \in Nat, k < Len(a), k < Len(b),
         \A i \in 1..k : a[i] = b[i], a[k + 1] # b[k + 1]
  PROVE  Order(a, b) = Sign(a[k + 1], b[k + 1])
<1>1. a[k + 1] \in Nat /\ b[k + 1] \in Nat
  OBVIOUS
<1>2. CASE a[k + 1] < b[k + 1]
  <2>1. Before(a, b)
    BY <1>2, BeforeAt
  <2> QED BY <1>2, <2>1 DEF Order, Sign
<1>3. CASE b[k + 1] < a[k + 1]
  <2>1. \A i \in 1..k : b[i] = a[i]
    OBVIOUS
  <2>2. Before(b, a) /\ ~Before(a, b)
    BY <1>3, <2>1, BeforeAt
  <2>3. ~(a[k + 1] < b[k + 1])
    BY <1>1, <1>3
  <2> QED BY <1>3, <2>2, <2>3 DEF Order, Sign
<1> QED BY <1>1, <1>2, <1>3

\* Files that do not differ where both have bytes are ordered by their lengths.
LEMMA OrderOfPrefix ==
  ASSUME NEW a \in Seq(Nat), NEW b \in Seq(Nat),
         \A i \in 1..Least(Len(a), Len(b)) : a[i] = b[i]
  PROVE  Order(a, b) = Sign(Len(a), Len(b))
<1>1. Len(a) \in Nat /\ Len(b) \in Nat
  OBVIOUS
<1>2. Least(Len(a), Len(b)) = Least(Len(b), Len(a))
  BY <1>1 DEF Least
<1>3. \A i \in 1..Least(Len(a), Len(b)) : a[i] \in Nat /\ b[i] \in Nat
  BY <1>1 DEF Least
<1>4. \A i \in 1..Least(Len(a), Len(b)) : ~(a[i] < b[i]) /\ ~(b[i] < a[i])
  BY <1>3
<1>5. Before(a, b) <=> Len(a) < Len(b)
  <2>1. ASSUME Len(a) < Len(b) PROVE SubSeq(b, 1, Len(a)) = a
    <3>1. Least(Len(a), Len(b)) = Len(a)
      BY <1>1, <2>1 DEF Least
    <3>2. /\ SubSeq(b, 1, Len(a)) \in Seq(Nat) /\ Len(SubSeq(b, 1, Len(a))) = Len(a)
          /\ \A i \in 1..Len(a) : SubSeq(b, 1, Len(a))[i] = b[i]
      BY <1>1, <2>1
    <3>3. \A i \in 1..Len(a) : SubSeq(b, 1, Len(a))[i] = a[i]
      BY <3>1, <3>2
    <3> QED BY <3>2, <3>3, SeqEqual
  <2> QED BY <1>4, <2>1 DEF Before
<1>6. Before(b, a) <=> Len(b) < Len(a)
  <2>1. ASSUME Len(b) < Len(a) PROVE SubSeq(a, 1, Len(b)) = b
    <3>1. Least(Len(a), Len(b)) = Len(b)
      BY <1>1, <2>1 DEF Least
    <3>2. /\ SubSeq(a, 1, Len(b)) \in Seq(Nat) /\ Len(SubSeq(a, 1, Len(b))) = Len(b)
          /\ \A i \in 1..Len(b) : SubSeq(a, 1, Len(b))[i] = a[i]
      BY <1>1, <2>1
    <3>3. \A i \in 1..Len(b) : SubSeq(a, 1, Len(b))[i] = b[i]
      BY <3>1, <3>2
    <3> QED BY <3>2, <3>3, SeqEqual
  <2> QED BY <1>2, <1>4, <2>1 DEF Before
<1> QED BY <1>1, <1>5, <1>6 DEF Order, Sign

\* memcmp of as many bytes finds nothing, or the first bytes that differ.
LEMMA MemCmpIs ==
  ASSUME NEW x \in Seq(Nat), NEW y \in Seq(Nat), Len(x) = Len(y)
  PROVE  \/ MemCmp(x, y) = 0 /\ \A i \in 1..Len(x) : x[i] = y[i]
         \/ \E i \in 1..Len(x) : /\ MemCmp(x, y) = Sign(x[i], y[i]) /\ x[i] # y[i]
                                 /\ MemCmp(x, y) # 0
                                 /\ \A j \in 1..(i - 1) : x[j] = y[j]
<1> DEFINE diff == {i \in DOMAIN x : x[i] # y[i]}
           i == CHOOSE i \in diff : \A j \in diff : i <= j
<1>1. MemCmp(x, y) = IF diff = {} THEN 0 ELSE Sign(x[i], y[i])
  BY DEF MemCmp
<1>2. DOMAIN x = 1..Len(x) /\ Len(x) \in Nat
  OBVIOUS
<1>3. CASE diff = {}
  <2>1. MemCmp(x, y) = 0
    BY <1>1, <1>3
  <2>2. \A j \in 1..Len(x) : x[j] = y[j]
    BY <1>2, <1>3
  <2> QED BY <2>1, <2>2
<1>4. CASE diff # {}
  <2>1. diff \in SUBSET Nat
    BY <1>2
  <2>2. i \in diff /\ \A j \in diff : i <= j
    <3> HIDE DEF diff
    <3> QED BY <1>4, <2>1, LeastOne
  <2>3. i \in 1..Len(x) /\ x[i] # y[i]
    BY <1>2, <2>2
  <2>4. MemCmp(x, y) = Sign(x[i], y[i])
    BY <1>1, <1>4
  <2>5. \A j \in 1..Len(x) : j < i => x[j] = y[j]
    <3>1. ASSUME NEW j \in 1..Len(x), j < i, x[j] # y[j] PROVE FALSE
      <4>1. j \in diff
        BY <1>2, <3>1
      <4>2. i <= j
        BY <2>2, <4>1
      <4> HIDE DEF diff, i
      <4> QED BY <1>2, <2>3, <3>1, <4>2
    <3> QED BY <3>1
  <2> HIDE DEF diff, i
  <2>6. \A j \in 1..(i - 1) : x[j] = y[j]
    BY <1>2, <2>3, <2>5
  <2>7. x[i] \in Nat /\ y[i] \in Nat
    BY <2>3
  <2>8. MemCmp(x, y) # 0
    BY <2>3, <2>4, <2>7 DEF Sign
  <2> QED BY <2>3, <2>4, <2>6, <2>8
<1> QED BY <1>3, <1>4

(***************************************************************************)
(* BinCompare goes on, and answers.                                        *)
(***************************************************************************)

\* A comparison that answers gives the order of the files.
Answered ==
  job'.op = "none" /\ call'.exc = "none" => call'.at = Order(w.file, job.file)

\* The next block, or the rest of files of one size.
LEMMA CompareBlocksMoreStep ==
  ASSUME Careful, IInv, CompareBlocksMore
  PROVE  IInv' /\ Shown /\ Kept /\ Answered
<1> DEFINE a == w.file
           c == job.file
           k == Len(job.bytes)
           n == Least(Block, job.len - k)
           x == SubSeq(a, k + 1, k + n)
           y == SubSeq(c, k + 1, k + n)
<1>1. job.op = "compare_blocks" /\ job.op \in Comparisons /\ written' = written
  BY DEF CompareBlocksMore, Comparisons
<1>2. /\ w.open /\ ~w.writable /\ Good(w) /\ a \in Seq(Nat) /\ c \in Seq(Nat)
      /\ Len(a) \in Nat /\ Len(c) = Len(a) /\ job.len = Len(a) /\ k \in Nat /\ k <= job.len
      /\ \A i \in 1..k : a[i] = c[i]
  <2>1. /\ w.open /\ ~w.writable /\ Good(w) /\ a \in Seq(Nat) /\ c \in Seq(Nat)
        /\ w.size = Len(a) /\ w.size \in Nat /\ w.size = Len(c) /\ k \in Nat /\ k <= job.len
        /\ job.len = Least(w.size, Len(c)) /\ \A i \in 1..k : a[i] = c[i]
    BY <1>1, ComparingIs
  <2>2. job.len = Len(a)
    BY <2>1 DEF Least
  <2> QED BY <2>1, <2>2
<1>3. Moved(w, w)
  BY <1>2, MovedNot
<1>4. CASE k = job.len /\ job' = NoJob /\ Compared(0) /\ w' = w /\ region' = region
  <2>1. call'.op = "compare" /\ call'.exc = "none" /\ call'.at = 0 /\ Rest
    BY <1>1, <1>4, RestIs DEF Compared, Called
  <2>2. IInv' /\ Shown /\ Kept
    BY <1>1, <1>2, <1>3, <1>4, <2>1, NoJobIs, ComparedShows
  <2> HIDE DEF a, c
  <2>3. \A i \in 1..Least(Len(a), Len(c)) : a[i] = c[i]
    BY <1>2, <1>4 DEF Least
  <2>4. Order(a, c) = Sign(Len(a), Len(c))
    BY <1>2, <2>3, OrderOfPrefix
  <2>5. Sign(Len(a), Len(c)) = 0
    BY <1>2 DEF Sign
  <2> QED BY <2>1, <2>2, <2>4, <2>5 DEF Answered, a, c
<1>5. ASSUME NEW o \in Maybe(w, LAMBDA u : Thrown(u, "nomap")), job' = NoJob, region' = region,
             Return(o, "compare", 0, <<>>, 0)
      PROVE  IInv' /\ Shown /\ Kept /\ Answered
  <2>1. w' = o.w /\ call'.op = "compare" /\ call'.exc = o.exc /\ Rest
    BY <1>1, <1>5, RestIs DEF Return, Called
  <2>2. o.exc = "nomap" /\ IInv' /\ Shown /\ Kept
    BY <1>1, <1>2, <1>3, <1>5, <2>1, CompareThrown
  <2> QED BY <2>1, <2>2 DEF Answered
<1>6. CASE Aborts(w, n % Page = 0)
  <2> DEFINE assertion == n % Page = 0
  <2>1. assertion \in BOOLEAN /\ Aborts(w, assertion)
    BY <1>6
  <2> HIDE DEF assertion
  <2>2. IInv' /\ Shown /\ Kept /\ call'.exc = "abort"
    BY <1>1, <1>2, <1>3, <2>1, CompareAborts
  <2> QED BY <2>2 DEF Answered
<1>7. CASE /\ k < job.len /\ w' = w /\ region' = region
           /\ IF MemCmp(x, y) # 0 THEN job' = NoJob /\ Compared(MemCmp(x, y)) ELSE Alike(x)
  <2>1. n \in Nat /\ k + n <= Len(a) /\ k + n <= job.len
    <3>1. Block \in Nat
      BY BlockAssumption
    <3>2. job.len \in Nat /\ k \in Nat /\ k < job.len /\ job.len = Len(a)
      BY <1>2, <1>7
    <3> HIDE DEF a, c, k
    <3> QED BY <3>1, <3>2 DEF Least
  <2> HIDE DEF n
  <2>2. x \in Seq(Nat) /\ Len(x) = n /\ \A i \in 1..n : x[i] = a[k + i]
    BY <1>2, <2>1, PartOK
  <2>3. y \in Seq(Nat) /\ Len(y) = n /\ \A i \in 1..n : y[i] = c[k + i]
    BY <1>2, <2>1, PartOK
  <2>4. Rest
    BY <1>1, <1>7, RestIs
  <2> HIDE DEF x, y
  <2>5. \/ MemCmp(x, y) = 0 /\ \A i \in 1..n : x[i] = y[i]
        \/ \E i \in 1..n : /\ MemCmp(x, y) = Sign(x[i], y[i]) /\ x[i] # y[i]
                           /\ MemCmp(x, y) # 0
                           /\ \A j \in 1..(i - 1) : x[j] = y[j]
    <3>1. /\ x \in Seq(Nat) /\ y \in Seq(Nat) /\ Len(x) = Len(y) /\ Len(x) = n
      BY <2>2, <2>3
    <3>2. \/ MemCmp(x, y) = 0 /\ \A i \in 1..Len(x) : x[i] = y[i]
          \/ \E i \in 1..Len(x) : /\ MemCmp(x, y) = Sign(x[i], y[i]) /\ x[i] # y[i]
                                  /\ MemCmp(x, y) # 0
                                  /\ \A j \in 1..(i - 1) : x[j] = y[j]
      BY <3>1, MemCmpIs, Zenon
    <3> QED BY <3>1, <3>2, Zenon
  <2>6. CASE MemCmp(x, y) = 0
    <3>1. Alike(x) /\ \A i \in 1..n : x[i] = y[i]
      BY <1>7, <2>5, <2>6
    <3>2. \A i \in 1..Len(x) : w.file[Len(job.bytes) + i] = job.file[Len(job.bytes) + i]
      BY <2>2, <2>3, <3>1
    <3>3. Moved(w, w')
      BY <1>3, <1>7
    <3>4. Len(job.bytes) + Len(x) <= job.len
      BY <2>1, <2>2
    <3>5. IInv' /\ Shown /\ Kept /\ job'.op # "none"
      BY <1>1, <2>2, <2>4, <3>1, <3>2, <3>3, <3>4, CompareGoesOn
    <3> QED BY <3>5 DEF Answered
  <2>7. CASE MemCmp(x, y) # 0
    <3>1. PICK i \in 1..n : /\ MemCmp(x, y) = Sign(x[i], y[i]) /\ x[i] # y[i]
                            /\ \A j \in 1..(i - 1) : x[j] = y[j]
      BY <2>5, <2>7
    <3>2. job' = NoJob /\ call'.op = "compare" /\ call'.exc = "none" /\ call'.at = MemCmp(x, y)
      BY <1>7, <2>7 DEF Compared, Called
    <3>3. Moved(w, w')
      BY <1>3, <1>7
    <3>4. IInv' /\ Shown /\ Kept
      BY <1>1, <1>2, <2>4, <3>2, <3>3, NoJobIs, ComparedShows
    <3> DEFINE m == k + i - 1
    <3>5. m \in Nat /\ m + 1 = k + i /\ m < Len(a) /\ m < Len(c) /\ i \in Nat
      BY <1>2, <2>1, <3>1
    <3>6. x[i] = a[m + 1] /\ y[i] = c[m + 1]
      BY <2>2, <2>3, <3>1, <3>5
    <3>7. ASSUME NEW j \in 1..m PROVE a[j] = c[j]
      <4>1. CASE j \in 1..k
        BY <1>2, <4>1
      <4>2. CASE j \notin 1..k
        <5>1. j - k \in 1..(i - 1) /\ j - k \in 1..n /\ k + (j - k) = j
          <6>1. /\ k \in Nat /\ i \in Nat /\ i <= n /\ n \in Nat /\ m + 1 = k + i /\ m \in Nat
                /\ j \in 1..m /\ j \notin 1..k
            BY <1>2, <2>1, <3>1, <3>5, <3>7, <4>2
          <6> HIDE DEF m, k
          <6> QED BY <6>1
        <5>2. x[j - k] = a[j] /\ y[j - k] = c[j]
          BY <2>2, <2>3, <5>1
        <5> QED BY <3>1, <5>1, <5>2
      <4> QED BY <4>1, <4>2
    <3> HIDE DEF m, a, c
    <3>8. Order(a, c) = Sign(a[m + 1], c[m + 1])
      BY <1>2, <3>1, <3>5, <3>6, <3>7, OrderAt
    <3> QED BY <3>1, <3>2, <3>4, <3>6, <3>8 DEF Answered, a, c
  <2> QED BY <2>6, <2>7
<1>8. \/ k = job.len /\ job' = NoJob /\ Compared(0) /\ w' = w /\ region' = region
      \/ /\ job' = NoJob /\ region' = region
         /\ \E o \in Maybe(w, LAMBDA u : Thrown(u, "nomap")) : Return(o, "compare", 0, <<>>, 0)
      \/ Aborts(w, n % Page = 0)
      \/ /\ k < job.len /\ w' = w /\ region' = region
         /\ IF MemCmp(x, y) # 0 THEN job' = NoJob /\ Compared(MemCmp(x, y)) ELSE Alike(x)
  BY DEF CompareBlocksMore
<1> QED BY <1>4, <1>5, <1>6, <1>7, <1>8

\* The window that holds the next byte, and m_pos behind that byte.
LEMMA ThisByteIs ==
  ASSUME IInv, job.op = "compare", Len(job.bytes) < job.len, NEW o \in ThisByte
  PROVE  \/ Failed(w, o) /\ w.faults > 0
         \/ o.exc = "none" /\ Moved(w, o.w) /\ TellOf(o.w) = Len(job.bytes) + 1
<1> DEFINE from == w.base + w.len
           S == IF Room > 0 THEN Fine(w) ELSE UnalignedRemap(w, from, Block)
<1>1. /\ w.open /\ ~w.writable /\ Good(w) /\ TellOf(w) = Len(job.bytes)
      /\ Len(job.bytes) < w.size /\ Len(job.bytes) \in Nat
  <2>1. /\ w.open /\ ~w.writable /\ Good(w) /\ TellOf(w) = Len(job.bytes) /\ job.len <= w.size
        /\ Len(job.bytes) \in Nat /\ job.len \in Nat /\ w.size \in Nat
    BY ComparingIs DEF Comparisons
  <2> QED BY <2>1
<1>2. /\ w.size \in Nat /\ w.base \in Nat /\ w.pos \in Nat /\ w.len \in Nat /\ w.pos <= w.len
      /\ TellOf(w) = w.base + w.pos /\ w.base + w.len <= w.size
  BY <1>1, WindowIs
<1>3. PICK q \in S : o \in IF q.exc = "none" THEN Fine([q.w EXCEPT !.pos = @ + 1]) ELSE {q}
  BY DEF ThisByte, Then
<1>4. \/ Failed(w, q) /\ w.faults > 0
      \/ q.exc = "none" /\ Moved(w, q.w) /\ TellOf(q.w) = Len(job.bytes) /\ q.w.pos < q.w.len
  <2>1. CASE Room > 0
    <3>1. q.w = w /\ q.exc = "none"
      BY <1>3, <2>1 DEF Fine
    <3>2. Moved(w, w)
      BY <1>1, MovedNot
    <3>3. w.pos < w.len
      BY <1>2, <2>1 DEF Room
    <3> QED BY <1>1, <3>1, <3>2, <3>3
  <2>2. CASE ~(Room > 0)
    <3>1. from \in Nat /\ from = TellOf(w) /\ from < w.size /\ from \in {TellOf(w), w.base + w.len}
      <4>1. w.pos = w.len
        BY <1>2, <2>2 DEF Room
      <4> QED BY <1>1, <1>2, <4>1
    <3>2. q \in UnalignedRemap(w, from, Block)
      BY <1>3, <2>2
    <3>3. Block \in Nat
      BY BlockAssumption
    <3> HIDE DEF from, S
    <3>4. \/ q.exc = "eof" /\ q.w = w /\ ~w.writable /\ w.size <= from
          \/ Failed(w, q) /\ (w.faults > 0 \/ (~w.writable /\ TellOf(w) = w.size))
          \/ /\ q.exc = "none" /\ Moved(w, q.w) /\ TellOf(q.w) = from
             /\ (~w.writable /\ from < w.size) => q.w.pos < q.w.len
      BY <1>1, <3>1, <3>2, <3>3, UnalignedRemapIs
    <3>5. ~(w.size <= from) /\ TellOf(w) # w.size
      BY <1>2, <3>1
    <3> QED BY <1>1, <3>1, <3>4, <3>5
  <2> QED BY <2>1, <2>2
<1> HIDE DEF S
<1>5. CASE Failed(w, q) /\ w.faults > 0
  <2>1. o = q
    BY <1>3, <1>5 DEF Failed
  <2> QED BY <1>5, <2>1
<1>6. CASE q.exc = "none" /\ Moved(w, q.w) /\ TellOf(q.w) = Len(job.bytes) /\ q.w.pos < q.w.len
  <2> DEFINE u == q.w
             at == u.pos + 1
             t == [u EXCEPT !.pos = at]
  <2>1. o.w = t /\ o.exc = "none"
    BY <1>3, <1>6 DEF Fine
  <2>2. /\ u.pos \in Nat /\ u.len \in Nat /\ u.base \in Nat /\ TellOf(u) = u.base + u.pos
    BY <1>6, WindowIs DEF Moved
  <2>3. at \in Nat /\ at <= u.len /\ u.base + at = Len(job.bytes) + 1
    BY <1>6, <2>2
  <2>4. Moved(w, u)
    BY <1>6
  <2> HIDE DEF u, at
  <2>5. Moved(w, t) /\ TellOf(t) = u.base + at
    BY <2>3, <2>4, MovedAgain
  <2> QED BY <2>1, <2>3, <2>5
<1> QED BY <1>4, <1>5, <1>6

\* A byte of each file is compared.
LEMMA CompareMoreStep ==
  ASSUME Careful, IInv, CompareMore
  PROVE  IInv' /\ Shown /\ Kept /\ Answered
<1> DEFINE a == w.file
           c == job.file
           k == Len(job.bytes)
           byte(t) == t.file[TellOf(t)]
<1>1. /\ job.op = "compare" /\ job.op \in Comparisons /\ region' = region /\ written' = written
      /\ Rest
  BY RestIs DEF CompareMore, Comparisons
<1>2. /\ w.open /\ ~w.writable /\ Good(w) /\ a \in Seq(Nat) /\ c \in Seq(Nat)
      /\ Len(a) \in Nat /\ Len(c) \in Nat /\ w.size = Len(a) /\ k \in Nat
      /\ job.len \in Nat /\ job.len <= Len(a) /\ job.len <= Len(c)
      /\ job.len = Least(Len(a), Len(c)) /\ \A i \in 1..k : a[i] = c[i]
  BY <1>1, ComparingIs
<1>3. CASE k = job.len /\ job' = NoJob /\ Compared(AtEnd(c)) /\ w' = w
  <2>1. call'.op = "compare" /\ call'.exc = "none" /\ call'.at = Sign(Len(a), Len(c))
    BY <1>2, <1>3 DEF Compared, Called, AtEnd
  <2>2. Moved(w, w')
    BY <1>2, <1>3, MovedNot
  <2>3. IInv' /\ Shown /\ Kept
    BY <1>1, <1>2, <1>3, <2>1, <2>2, NoJobIs, ComparedShows
  <2> HIDE DEF a, c
  <2>4. Order(a, c) = Sign(Len(a), Len(c))
    BY <1>2, <1>3, OrderOfPrefix
  <2> QED BY <2>1, <2>3, <2>4 DEF Answered, a, c
<1>4. ASSUME k < job.len, NEW o \in Then(ThisByte, OtherByte), w' = o.w,
             IF o.exc # "none" THEN job' = NoJob /\ Called("compare", 0, <<>>, 0, o.exc)
             ELSE IF byte(o.w) = c[k + 1] THEN Alike(<<byte(o.w)>>)
             ELSE job' = NoJob /\ Compared(Sign(byte(o.w), c[k + 1]))
      PROVE  IInv' /\ Shown /\ Kept /\ Answered
  <2>1. PICK q \in ThisByte : o \in IF q.exc = "none" THEN OtherByte(q.w) ELSE {q}
    BY <1>4 DEF Then
  <2>2. \/ Failed(w, q) /\ w.faults > 0
        \/ q.exc = "none" /\ Moved(w, q.w) /\ TellOf(q.w) = k + 1
    BY <1>1, <1>4, <2>1, ThisByteIs
  <2>3. CASE Failed(w, q) /\ w.faults > 0
    <3>1. o = q /\ o.exc = "io"
      BY <2>1, <2>3 DEF Failed
    <3>2. job' = NoJob /\ call'.op = "compare" /\ call'.exc = "io"
      BY <1>4, <3>1 DEF Called
    <3>3. IInv' /\ Shown /\ Kept
      BY <1>1, <1>2, <1>4, <2>3, <3>1, <3>2, NoJobIs, CompareFails
    <3> QED BY <3>2, <3>3 DEF Answered
  <2>4. CASE q.exc = "none" /\ Moved(w, q.w) /\ TellOf(q.w) = k + 1
    <3>1. o \in Fine(q.w) \/ o \in Maybe(q.w, LAMBDA u : Thrown(u, "other"))
      BY <2>1, <2>4 DEF OtherByte
    <3>2. CASE o \in Maybe(q.w, LAMBDA u : Thrown(u, "other"))
      <4>1. o.exc = "other"
        BY <3>2 DEF Maybe, Thrown
      <4>2. job' = NoJob /\ call'.op = "compare" /\ call'.exc = o.exc
        BY <1>4, <4>1 DEF Called
      <4>3. IInv' /\ Shown /\ Kept
        BY <1>1, <1>2, <1>4, <2>4, <3>2, <4>2, CompareThrown
      <4> QED BY <4>1, <4>2, <4>3 DEF Answered
    <3>3. CASE o \in Fine(q.w)
      <4> DEFINE b == a[k + 1]
      <4>1. o.w = q.w /\ o.exc = "none" /\ w' = q.w
        BY <1>4, <3>3 DEF Fine
      <4>2. Moved(w, w') /\ TellOf(w') = k + 1 /\ w'.file = a
        BY <1>2, <2>4, <4>1 DEF Moved, Grown
      <4>3. byte(o.w) = b
        BY <1>4, <4>2
      <4>4. IF b = c[k + 1] THEN Alike(<<b>>) ELSE job' = NoJob /\ Compared(Sign(b, c[k + 1]))
        BY <1>4, <4>1, <4>3
      <4>5. k < Len(a) /\ k < Len(c) /\ k + 1 \in 1..Len(a)
        BY <1>2, <1>4
      <4>6. b \in Nat
        <5>1. a \in Seq(Nat)
          BY <1>2
        <5> HIDE DEF a
        <5> QED BY <4>5, <5>1
      <4>7. CASE b = c[k + 1]
        <5>1. Alike(<<b>>) /\ <<b>> \in Seq(Nat) /\ Len(<<b>>) = 1
          BY <4>4, <4>6, <4>7
        <5>2. \A i \in 1..1 : a[k + i] = c[k + i]
          BY <4>7
        <5>3. k + 1 <= job.len
          BY <1>2, <1>4
        <5>4. IInv' /\ Shown /\ Kept /\ job'.op # "none"
          <6> DEFINE s == <<b>>
          <6>1. /\ s \in Seq(Nat) /\ Len(s) = 1 /\ Alike(s)
            BY <5>1
          <6> HIDE DEF s
          <6>2. \A i \in 1..Len(s) : w.file[Len(job.bytes) + i] = job.file[Len(job.bytes) + i]
            BY <5>2, <6>1
          <6>3. Len(job.bytes) + Len(s) <= job.len /\ TellOf(w') = Len(job.bytes) + Len(s)
            BY <4>2, <5>3, <6>1
          <6> QED BY <1>1, <4>2, <6>1, <6>2, <6>3, CompareGoesOn
        <5> QED BY <5>4 DEF Answered
      <4>8. CASE b # c[k + 1]
        <5>1. job' = NoJob /\ call'.op = "compare" /\ call'.exc = "none"
              /\ call'.at = Sign(b, c[k + 1])
          BY <4>4, <4>8 DEF Compared, Called
        <5>2. IInv' /\ Shown /\ Kept
          BY <1>1, <1>2, <4>2, <5>1, NoJobIs, ComparedShows
        <5> HIDE DEF a, c, k
        <5>3. Order(a, c) = Sign(a[k + 1], c[k + 1])
          BY <1>2, <4>5, <4>8, OrderAt
        <5> QED BY <5>1, <5>2, <5>3 DEF Answered, a, c
      <4> QED BY <4>7, <4>8
    <3> QED BY <3>1, <3>2, <3>3
  <2> QED BY <2>2, <2>3, <2>4
<1>5. \/ k = job.len /\ job' = NoJob /\ Compared(AtEnd(c)) /\ w' = w
      \/ /\ k < job.len
         /\ \E o \in Then(ThisByte, OtherByte) :
              /\ w' = o.w
              /\ IF o.exc # "none" THEN job' = NoJob /\ Called("compare", 0, <<>>, 0, o.exc)
                 ELSE IF byte(o.w) = c[k + 1] THEN Alike(<<byte(o.w)>>)
                 ELSE job' = NoJob /\ Compared(Sign(byte(o.w), c[k + 1]))
  BY DEF CompareMore
<1> QED BY <1>3, <1>4, <1>5

\* A comparison under way is not disturbed by another call.
LEMMA OnlyMore ==
  ASSUME Next, job.op \in Comparisons PROVE CompareBlocksMore \/ CompareMore
<1>1. ~Idle /\ ~Usable /\ job.op \notin {"read", "skip", "write"}
  BY DEF Usable, Idle, Comparisons
<1>2. ~ReadMore /\ ~SkipMore /\ ~WriteMore
  BY <1>1 DEF ReadMore, SkipMore, WriteMore, More
<1>3. \A m \in Modes, n \in NewSizes : ~Open(m, n)
  BY <1>1 DEF Open
<1>4. \A len \in Lengths : ~Read(len) /\ ~Skip(len) /\ ~Write(len) /\ ~Probe(len)
  BY <1>1 DEF Read, Skip, Write, Probe, Touchable
<1>5. /\ \A p \in 0..MaxSize : ~Seek(p)
      /\ \A off \in Offsets : ~SeekBy(off) /\ ~SeekFromEnd(off)
  BY <1>1 DEF Seek, SeekBy, SeekFromEnd
<1>6. /\ \A n \in Sizes : ~SetFileSize(n)
      /\ \A r \in Regions : ~Map(r)
      /\ \A c \in Others : ~CompareBlocks(c) /\ ~CompareBytes(c)
      /\ ~Close /\ ~Ask /\ ~Peek /\ ~Poke /\ ~Unmap
  BY <1>1 DEF SetFileSize, Map, CompareBlocks, CompareBytes, Close, Ask, Peek, Poke, Unmap
<1> QED BY <1>2, <1>3, <1>4, <1>5, <1>6 DEF Next, Proceed

(***************************************************************************)
(* The theorems.                                                           *)
(***************************************************************************)

\* An object is closed at first.
LEMMA InitOk ==
  ASSUME Init PROVE IInv /\ File!Init
<1>1. PICK c \in Contents :
        w = [file |-> c, open |-> FALSE, writable |-> FALSE, size |-> 0, base |-> 0,
             pos |-> 0, len |-> 0, mapped |-> FALSE, faults |-> MaxFaults, lost |-> FALSE]
  BY DEF Init
<1>2. job = NoJob /\ region = NoRegion /\ written = 0
  BY DEF Init
<1>3. c \in Seq(Nat) /\ MaxFaults \in Nat /\ MaxWritten \in Nat
  BY InputsAssumption
<1>4. /\ w \in Win /\ w.open = FALSE /\ w.size = 0 /\ w.base = 0 /\ w.pos = 0 /\ w.len = 0
      /\ w.mapped = FALSE /\ w.writable = FALSE
  BY <1>1, <1>3, 0 \in Nat DEF Win
<1>5. Good(w) /\ TellOf(w) = 0
  <2>1. Closes(w, w)
    BY <1>4 DEF Closes
  <2> QED BY <2>1, ClosesGood
<1>6. IInv
  <2>1. written \in 0..MaxWritten
    BY <1>2, <1>3
  <2> QED BY <1>2, <1>5, <2>1, NoJobIs DEF IInv
<1>7. Position = 0 /\ State = "closed"
  BY <1>2, <1>4, <1>5, NoJobIs, IdleIs DEF State
<1> QED BY <1>6, <1>7 DEF File!Init, Position, State

\* A step keeps the invariant, is one of MappedFile or shows nothing, and loses no
\* mapping but by a resize that fails.
LEMMA StepOk ==
  ASSUME Careful, IInv, [Next]_vars
  PROVE  IInv' /\ Shown /\ Kept
<1>1. CASE Next
  <2>1. ASSUME NEW m \in Modes, NEW n \in NewSizes, Open(m, n) PROVE IInv' /\ Shown /\ Kept
    BY <2>1, OpenStep
  <2>2. ASSUME Close PROVE IInv' /\ Shown /\ Kept
    BY <2>2, CloseStep
  <2>3. ASSUME NEW len \in Lengths, Read(len) PROVE IInv' /\ Shown /\ Kept
    BY <2>3, ReadStep
  <2>4. ASSUME NEW len \in Lengths, Skip(len) PROVE IInv' /\ Shown /\ Kept
    BY <2>4, SkipStep
  <2>5. ASSUME NEW len \in Lengths, Write(len) PROVE IInv' /\ Shown /\ Kept
    BY <2>5, WriteStep
  <2>6. ASSUME NEW len \in Lengths, Probe(len) PROVE IInv' /\ Shown /\ Kept
    BY <2>6, ProbeStep
  <2>7. ASSUME Proceed PROVE IInv' /\ Shown /\ Kept
    BY <2>7, ReadMoreStep, WriteMoreStep, CompareBlocksMoreStep, CompareMoreStep DEF Proceed
  <2>8. ASSUME \/ \E p \in 0..MaxSize : Seek(p)
               \/ \E off \in Offsets : SeekBy(off) \/ SeekFromEnd(off)
        PROVE  IInv' /\ Shown /\ Kept
    BY <2>8, SeekStep
  <2>9. ASSUME NEW n \in Sizes, SetFileSize(n) PROVE IInv' /\ Shown /\ Kept
    BY <2>9, SetFileSizeStep
  <2>10. ASSUME Ask PROVE IInv' /\ Shown /\ Kept
    BY <2>10, AskStep
  <2>11. ASSUME NEW r \in Regions, Map(r) PROVE IInv' /\ Shown /\ Kept
    BY <2>11, MapStep
  <2>12. ASSUME Peek \/ Poke \/ Unmap PROVE IInv' /\ Shown /\ Kept
    BY <2>12, PeekStep, PokeStep, UnmapStep
  <2>13. ASSUME NEW c \in Others, CompareBlocks(c) \/ CompareBytes(c)
         PROVE  IInv' /\ Shown /\ Kept
    BY <2>13, CompareBlocksStep, CompareBytesStep
  <2> QED BY <1>1, <2>1, <2>2, <2>3, <2>4, <2>5, <2>6, <2>7, <2>8, <2>9, <2>10, <2>11, <2>12,
             <2>13 DEF Next
<1>2. CASE UNCHANGED vars
  <2>1. w' = w /\ job' = job /\ region' = region /\ written' = written /\ call' = call
    BY <1>2 DEF vars
  <2>2. IInv'
    BY <2>1 DEF IInv, Working, Reading, Writing, Comparing
  <2>3. Content' = Content /\ Position' = Position /\ State' = State
    BY <2>1 DEF Content, Position, State, Idle
  <2> QED BY <2>1, <2>2, <2>3, ShowsNothing DEF Kept
<1> QED BY <1>1, <1>2

\* Between two steps of any call the window is nothing, or whole pages of the file, and
\* the call under way has copied what its client will see.
THEOREM Invariance ==
  ASSUME Careful PROVE Spec => []IInv
<1>1. Init => IInv
  BY InitOk
<1>2. IInv /\ [Next]_vars => IInv'
  BY StepOk
<1> QED BY <1>1, <1>2, PTL DEF Spec

\* The pointers are in order and the window lies on whole pages of the file, through
\* every remap of every call, a failed one included.
THEOREM TypeCorrect ==
  ASSUME Careful PROVE Spec => []TypeOK
<1>1. IInv => TypeOK
  <2> SUFFICES ASSUME IInv PROVE TypeOK
    OBVIOUS
  <2>1. w \in Win /\ Placed(w) /\ w.pos \in Nat /\ w.len \in Nat /\ written \in 0..MaxWritten
    BY DEF IInv, Good, Win
  <2>2. w.pos \in 0..w.len
    BY <2>1 DEF Placed
  <2>3. w.len % Page = 0 \/ w.base + w.len = w.size
    BY <2>1 DEF Placed
  <2>4. ASSUME job.op # "none" PROVE w.open /\ Len(job.bytes) <= job.len
    <3>1. w.open /\ (Len(job.bytes) < job.len \/ Len(job.bytes) <= job.len)
          /\ job.bytes \in Seq(Nat) /\ job.len \in Nat
      BY <2>4 DEF IInv, Working, Jobs
    <3> QED BY <3>1
  <2> QED BY <2>1, <2>2, <2>3, <2>4 DEF TypeOK, Placed
<1> QED BY <1>1, Invariance, PTL

\* No mapping is lost, unless set_fsize fails while a window is mapped.
THEOREM LosesOnlyOnFailedResizeAlways ==
  ASSUME Careful PROVE Spec => LosesOnlyOnFailedResize
<1>1. IInv /\ [Next]_vars =>
        [w'.lost /\ ~w.lost => /\ call'.op \in {"set_fsize", "map"} /\ call'.exc = "io"
                             /\ w.mapped /\ w.faults > 0]_vars
  BY StepOk DEF Kept
<1> QED BY <1>1, Invariance, PTL DEF Spec, LosesOnlyOnFailedResize

\* The mapped file is a file: every step of the object, called with care, is one of
\* MappedFile.
THEOREM Refinement ==
  ASSUME Careful PROVE Spec => IsFile
<1>1. Init => File!Init
  BY InitOk
<1>2. IInv /\ [Next]_vars => [File!Next]_(File!vars)
  BY StepOk DEF Shown
<1> QED BY <1>1, <1>2, Invariance, PTL DEF Spec, IsFile, File!Spec

\* A BinCompare that answers, answers with the order of the bytes of the files, whether
\* it compares files of one size block by block or others byte by byte, whatever was
\* remapped in between, and whatever could not be mapped in the comparisons before.
THEOREM ComparesInOrderAlways ==
  ASSUME Careful PROVE Spec => ComparesInOrder
<1> DEFINE Answers ==
      job.op \in {"compare", "compare_blocks"} /\ job'.op = "none" /\ call'.exc = "none" =>
        call'.at = IF Before(w.file, job.file) THEN -1
                   ELSE IF Before(job.file, w.file) THEN 1 ELSE 0
<1>1. IInv /\ [Next]_vars => [Answers]_vars
  <2> SUFFICES ASSUME IInv, Next, job.op \in Comparisons, job'.op = "none", call'.exc = "none"
               PROVE  call'.at = Order(w.file, job.file)
    BY DEF Order, Comparisons
  <2>1. CompareBlocksMore \/ CompareMore
    BY OnlyMore
  <2>2. Answered
    BY <2>1, CompareBlocksMoreStep, CompareMoreStep
  <2> QED BY <2>2 DEF Answered
<1> QED BY <1>1, Invariance, PTL DEF Spec, ComparesInOrder
===============================================================================
