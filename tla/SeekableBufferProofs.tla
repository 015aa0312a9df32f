------------------------- MODULE SeekableBufferProofs -------------------------
(***************************************************************************)
(* For a client that keeps to the rules, the window of a seekable buffer   *)
(* is a piece of the file, and the object implements SeekableFile: for all *)
(* three classes and all files, capacities, lengths and offsets.           *)
(***************************************************************************)
EXTENDS SeekableBuffer, SequenceTheorems, TLAPS

\* r is f after the bytes b were put at offset p: they are there, those before and
\* behind them are as they were, and a gap between the end and them is filled.
IsPut(r, f, p, b, gap) ==
  /\ r \in Seq(Nat)
  /\ Len(r) = IF b = <<>> \/ p + Len(b) <= Len(f) THEN Len(f) ELSE p + Len(b)
  /\ \A i \in 1..Len(r) : r[i] = IF i > p /\ i <= p + Len(b) THEN b[i - p]
                                 ELSE IF i <= Len(f) THEN f[i] ELSE gap

\* Put does that, when the gap is filled with bytes or there is none.
LEMMA PutOK ==
  ASSUME NEW f \in Seq(Nat), NEW p \in Nat, NEW b \in Seq(Nat), NEW gap,
         gap \in Nat \/ p <= Len(f)
  PROVE  IsPut(Put(f, p, b, gap), f, p, b, gap)
<1> DEFINE end == p + Len(b)
           new == IF end > Len(f) THEN end ELSE Len(f)
           at(i) == IF i > p /\ i <= end THEN b[i - p] ELSE IF i <= Len(f) THEN f[i] ELSE gap
           g == [i \in 1..new |-> at(i)]
           r == Put(f, p, b, gap)
<1>1. CASE b = <<>>
  <2>1. r = f /\ Len(b) = 0
    BY <1>1 DEF Put
  <2>2. \A i \in 1..Len(f) : ~(i > p /\ i <= p + Len(b)) /\ i <= Len(f)
    BY <2>1
  <2> HIDE DEF r
  <2> QED BY <1>1, <2>1, <2>2 DEF r, IsPut
<1>2. CASE b # <<>>
  <2>1. r = g
    BY <1>2 DEF Put
  <2>2. /\ new \in Nat /\ end = p + Len(b) /\ Len(b) \in Nat /\ Len(f) \in Nat
        /\ new = IF p + Len(b) <= Len(f) THEN Len(f) ELSE p + Len(b)
    OBVIOUS
  <2>3. \A i \in 1..new : at(i) \in Nat
    <3> SUFFICES ASSUME NEW i \in 1..new PROVE at(i) \in Nat
      OBVIOUS
    <3>1. CASE i > p /\ i <= end
      <4>1. i - p \in 1..Len(b)
        BY <3>1
      <4> QED BY <3>1, <4>1
    <3>2. CASE ~(i > p /\ i <= end) /\ i <= Len(f)
      <4>1. i \in 1..Len(f)
        BY <3>2
      <4> QED BY <3>2, <4>1
    <3>3. CASE ~(i > p /\ i <= end) /\ ~(i <= Len(f))
      <4>1. gap \in Nat
        BY <2>2, <3>3
      <4> QED BY <3>3, <4>1
    <3> QED BY <3>1, <3>2, <3>3
  <2> HIDE DEF at, new
  <2>4. g \in [1..new -> Nat] /\ \A i \in 1..new : g[i] = at(i)
    BY <2>3
  <2>5. g \in Seq(Nat) /\ Len(g) = new
    <3>1. new \in Nat
      BY <2>2
    <3> HIDE DEF g
    <3> QED BY <2>4, <3>1
  <2> HIDE DEF g, r
  <2>6. r \in Seq(Nat) /\ Len(r) = new /\ \A i \in 1..Len(r) : r[i] = at(i)
    BY <2>1, <2>4, <2>5
  <2> QED BY <1>2, <2>2, <2>6 DEF r, at, end, IsPut
<1> QED BY <1>1, <1>2

\* So it is for a file, where a gap reads as zeros.
LEMMA OverlayOK ==
  ASSUME NEW f \in Seq(Nat), NEW p \in Nat, NEW b \in Seq(Nat)
  PROVE  IsPut(Overlay(f, p, b), f, p, b, Zero)
<1>1. Zero \in Nat \/ p <= Len(f)
  BY DEF Zero
<1> QED BY <1>1, PutOK DEF Overlay

\* Nothing written changes nothing.
LEMMA OverlayNone ==
  ASSUME NEW f, NEW p PROVE Overlay(f, p, <<>>) = f
  BY DEF Overlay, Put

\* What is stored behind the last byte is appended.
LEMMA StoreAtEnd ==
  ASSUME NEW m \in Seq(Nat), NEW b \in Seq(Nat)
  PROVE  Store(m, Len(m), b) = m \o b
<1> DEFINE r == Store(m, Len(m), b)
           c == m \o b
<1>1. Len(m) \in Nat /\ Len(b) \in Nat /\ Len(m) <= Len(m) /\ (b = <<>> <=> Len(b) = 0)
  OBVIOUS
<1>2. /\ r \in Seq(Nat)
      /\ Len(r) = IF b = <<>> \/ Len(m) + Len(b) <= Len(m) THEN Len(m) ELSE Len(m) + Len(b)
      /\ \A i \in 1..Len(r) : r[i] = IF i > Len(m) /\ i <= Len(m) + Len(b) THEN b[i - Len(m)]
                                     ELSE IF i <= Len(m) THEN m[i] ELSE Junk
  BY <1>1, PutOK DEF Store, IsPut
<1>3. /\ c \in Seq(Nat) /\ Len(c) = Len(m) + Len(b)
      /\ \A i \in 1..(Len(m) + Len(b)) : c[i] = IF i <= Len(m) THEN m[i] ELSE b[i - Len(m)]
  BY ConcatProperties
<1> HIDE DEF r, c
<1>4. Len(r) = Len(c)
  BY <1>1, <1>2, <1>3
<1>5. ASSUME NEW i \in 1..Len(r) PROVE r[i] = c[i]
  <2>1. /\ i \in 1..(Len(m) + Len(b)) /\ (i > Len(m) /\ i <= Len(m) + Len(b) <=> ~(i <= Len(m)))
    BY <1>1, <1>3, <1>4
  <2> QED BY <1>2, <1>3, <2>1
<1> QED BY <1>2, <1>3, <1>4, <1>5, SeqEqual DEF r, c

\* Writing two pieces, one behind the other, is writing them at once.
LEMMA OverlayTwice ==
  ASSUME NEW f \in Seq(Nat), NEW p \in Nat, NEW a \in Seq(Nat), NEW b \in Seq(Nat)
  PROVE  Overlay(Overlay(f, p, a), p + Len(a), b) = Overlay(f, p, a \o b)
<1> DEFINE g == Overlay(f, p, a)
           c == a \o b
           x == p + Len(a)
           y == x + Len(b)
           r == Overlay(g, x, b)
           q == Overlay(f, p, c)
<1>1. CASE b = <<>>
  <2>1. c = a
    BY <1>1
  <2>2. r = g
    BY <1>1, OverlayNone
  <2> QED BY <2>1, <2>2
<1>2. CASE b # <<>>
  <2>1. /\ Len(a) \in Nat /\ Len(b) \in Nat /\ Len(f) \in Nat /\ x \in Nat /\ y \in Nat
        /\ p <= x /\ x < y /\ p + (Len(a) + Len(b)) = y /\ x = p + Len(a) /\ y = x + Len(b)
        /\ (a = <<>> => x = p)
    <3>1. Len(a) \in Nat /\ Len(b) \in Nat /\ Len(f) \in Nat /\ Len(b) # 0 /\ (a = <<>> => Len(a) = 0)
      BY <1>2
    <3> DEFINE la == Len(a)
               lb == Len(b)
    <3>2. la \in Nat /\ lb \in Nat /\ lb # 0 /\ (a = <<>> => la = 0)
      BY <3>1
    <3> HIDE DEF la, lb
    <3>3. /\ p + la \in Nat /\ p + la + lb \in Nat /\ p <= p + la /\ p + la < p + la + lb
          /\ p + (la + lb) = p + la + lb /\ (la = 0 => p + la = p)
      BY <3>2
    <3> QED BY <3>1, <3>2, <3>3 DEF la, lb
  <2>2. /\ g \in Seq(Nat)
        /\ Len(g) = IF a = <<>> \/ x <= Len(f) THEN Len(f) ELSE x
        /\ \A i \in 1..Len(g) : g[i] = IF i > p /\ i <= x THEN a[i - p]
                                       ELSE IF i <= Len(f) THEN f[i] ELSE Zero
    BY OverlayOK DEF IsPut
  <2>3. /\ c \in Seq(Nat) /\ Len(c) = Len(a) + Len(b)
        /\ \A i \in 1..(Len(a) + Len(b)) : c[i] = IF i <= Len(a) THEN a[i] ELSE b[i - Len(a)]
    BY ConcatProperties
  <2> HIDE DEF g, c, x, y
  <2>4. /\ r \in Seq(Nat)
        /\ Len(r) = IF y <= Len(g) THEN Len(g) ELSE y
        /\ \A i \in 1..Len(r) : r[i] = IF i > x /\ i <= y THEN b[i - x]
                                       ELSE IF i <= Len(g) THEN g[i] ELSE Zero
    <3>1. x \in Nat /\ g \in Seq(Nat)
      BY <2>1, <2>2
    <3> HIDE DEF r
    <3> QED BY <1>2, <3>1, OverlayOK DEF r, y, IsPut
  <2>5. /\ q \in Seq(Nat)
        /\ Len(q) = IF y <= Len(f) THEN Len(f) ELSE y
        /\ \A i \in 1..Len(q) : q[i] = IF i > p /\ i <= y THEN c[i - p]
                                       ELSE IF i <= Len(f) THEN f[i] ELSE Zero
    <3>1. c # <<>> /\ p + Len(c) = y
      BY <2>1, <2>3
    <3>2. /\ q \in Seq(Nat)
          /\ Len(q) = IF c = <<>> \/ p + Len(c) <= Len(f) THEN Len(f) ELSE p + Len(c)
          /\ \A i \in 1..Len(q) : q[i] = IF i > p /\ i <= p + Len(c) THEN c[i - p]
                                         ELSE IF i <= Len(f) THEN f[i] ELSE Zero
      BY <2>3, OverlayOK DEF IsPut
    <3> HIDE DEF q
    <3> QED BY <3>1, <3>2
  <2> HIDE DEF r, q
  <2>6. Len(r) = Len(q) /\ Len(r) \in Nat /\ Len(g) \in Nat /\ (x = p \/ x <= Len(g))
    <3>1. Len(g) \in Nat
      BY <2>2
    <3>2. (Len(g) = Len(f) \/ Len(g) <= x) /\ Len(f) <= Len(g) /\ (x = p \/ x <= Len(g))
      <4>1. Len(g) = IF a = <<>> \/ x <= Len(f) THEN Len(f) ELSE x
        BY <2>2
      <4>2. Len(f) \in Nat /\ x \in Nat /\ (a = <<>> => x = p)
        BY <2>1
      <4> QED BY <4>1, <4>2
    <3>3. Len(r) = IF y <= Len(g) THEN Len(g) ELSE y
      BY <2>4
    <3>4. Len(q) = IF y <= Len(f) THEN Len(f) ELSE y
      BY <2>5
    <3>5. Len(f) \in Nat /\ x \in Nat /\ y \in Nat /\ x < y
      BY <2>1
    <3> QED BY <3>1, <3>2, <3>3, <3>4, <3>5
  <2>7. ASSUME NEW i \in 1..Len(r) PROVE r[i] = q[i]
    <3>1. i \in Nat /\ i > 0 /\ i \in 1..Len(q) /\ (i <= Len(g) => i \in 1..Len(g))
      BY <2>6
    <3>2. CASE i > x /\ i <= y
      <4>1. /\ i > p /\ i - p \in 1..(Len(a) + Len(b)) /\ ~(i - p <= Len(a))
            /\ (i - p) - Len(a) = i - x
        BY <2>1, <3>1, <3>2
      <4>2. c[i - p] = b[i - x]
        BY <2>3, <4>1
      <4> QED BY <2>4, <2>5, <3>1, <3>2, <4>1, <4>2
    <3>3. CASE i > p /\ i <= x
      <4>1. ~(i > x) /\ i <= y /\ i - p \in 1..(Len(a) + Len(b)) /\ i - p <= Len(a)
            /\ i <= Len(g)
        BY <2>1, <2>6, <3>1, <3>3
      <4>2. c[i - p] = a[i - p]
        BY <2>3, <4>1
      <4>3. g[i] = a[i - p]
        BY <2>2, <3>1, <3>3, <4>1
      <4> QED BY <2>4, <2>5, <3>1, <3>3, <4>1, <4>2, <4>3
    <3>4. CASE ~(i > p /\ i <= y)
      <4>1. ~(i > x /\ i <= y) /\ ~(i > p /\ i <= x)
        BY <2>1, <3>1, <3>4
      <4>2. q[i] = IF i <= Len(f) THEN f[i] ELSE Zero
        BY <2>5, <3>1, <3>4
      <4>3. r[i] = IF i <= Len(g) THEN g[i] ELSE Zero
        BY <2>4, <4>1
      <4>4. i <= Len(f) => i <= Len(g)
        BY <2>1, <2>2, <3>1
      <4>5. i <= Len(g) => g[i] = IF i <= Len(f) THEN f[i] ELSE Zero
        BY <2>2, <3>1, <4>1
      <4> QED BY <4>2, <4>3, <4>4, <4>5
    <3> QED BY <2>1, <3>1, <3>2, <3>3, <3>4
  <2>8. r = q
    BY <2>4, <2>5, <2>6, <2>7, SeqEqual
  <2> QED BY <2>8 DEF r, q, g, c, x
<1> QED BY <1>1, <1>2

\* The n bytes behind offset p.
LEMMA PartOK ==
  ASSUME NEW f \in Seq(Nat), NEW p \in Nat, NEW n \in Nat, n = 0 \/ p + n <= Len(f)
  PROVE  /\ SubSeq(f, p + 1, p + n) \in Seq(Nat)
         /\ Len(SubSeq(f, p + 1, p + n)) = n
         /\ \A i \in 1..n : SubSeq(f, p + 1, p + n)[i] = f[p + i]
<1> DEFINE r == SubSeq(f, p + 1, p + n)
<1>1. p + 1 \in Int /\ p + n \in Int /\ \A i \in (p + 1)..(p + n) : f[i] \in Nat
  OBVIOUS
<1>2. /\ r \in Seq(Nat)
      /\ Len(r) = IF p + 1 <= p + n THEN (p + n) - (p + 1) + 1 ELSE 0
      /\ \A i \in 1..((p + n) - (p + 1) + 1) : r[i] = f[(p + 1) + i - 1]
  BY <1>1, SubSeqProperties
<1> HIDE DEF r
<1>3. ASSUME NEW i \in 1..n PROVE r[i] = f[p + i]
  <2>1. i \in 1..((p + n) - (p + 1) + 1) /\ (p + 1) + i - 1 = p + i
    OBVIOUS
  <2> QED BY <1>2, <2>1
<1>4. Len(r) = n
  BY <1>2
<1> QED BY <1>2, <1>3, <1>4 DEF r

\* No bytes are the empty sequence.
LEMMA PartNone ==
  ASSUME NEW f, NEW p \in Int PROVE SubSeq(f, p + 1, p) = <<>>
<1>1. p + 1 \in Int /\ p < p + 1
  OBVIOUS
<1> QED BY <1>1, SubSeqEmpty

\* Adjacent parts make one.
LEMMA PartJoin ==
  ASSUME NEW f \in Seq(Nat), NEW p \in Nat, NEW m \in Nat, NEW n \in Nat,
         m + n = 0 \/ p + m + n <= Len(f)
  PROVE  SubSeq(f, p + 1, p + m) \o SubSeq(f, p + m + 1, p + m + n) =
         SubSeq(f, p + 1, p + m + n)
<1>1. CASE m + n = 0
  <2>1. m = 0 /\ n = 0
    BY <1>1
  <2>2. SubSeq(f, p + 1, p) = <<>>
    BY PartNone
  <2>3. p + 0 = p /\ p + 0 + 0 = p /\ p + 0 + 1 = p + 1
    OBVIOUS
  <2>4. <<>> \o <<>> = <<>>
    OBVIOUS
  <2> QED BY <2>1, <2>2, <2>3, <2>4
<1>2. CASE p + m + n <= Len(f)
  <2>1. /\ p + 1 \in 1..(Len(f) + 1) /\ p + m \in ((p + 1) - 1)..Len(f)
        /\ p + m + n \in (p + m)..Len(f)
    BY <1>2
  <2> QED BY <2>1, ConcatAdjacentSubSeq
<1> QED BY <1>1, <1>2

\* A part of a part.
LEMMA PartOfPart ==
  ASSUME NEW f \in Seq(Nat), NEW p \in Nat, NEW n \in Nat, n = 0 \/ p + n <= Len(f),
         NEW a \in Nat, NEW m \in Nat, a + m <= n
  PROVE  SubSeq(SubSeq(f, p + 1, p + n), a + 1, a + m) = SubSeq(f, p + a + 1, p + a + m)
<1> DEFINE g == SubSeq(f, p + 1, p + n)
           r == SubSeq(g, a + 1, a + m)
           q == SubSeq(f, p + a + 1, p + a + m)
<1>1. g \in Seq(Nat) /\ Len(g) = n /\ \A i \in 1..n : g[i] = f[p + i]
  BY PartOK
<1> HIDE DEF g
<1>2. r \in Seq(Nat) /\ Len(r) = m /\ \A i \in 1..m : r[i] = g[a + i]
  <2>1. a + m <= Len(g)
    BY <1>1
  <2> QED BY <1>1, <2>1, PartOK
<1>3. q \in Seq(Nat) /\ Len(q) = m /\ \A i \in 1..m : q[i] = f[p + a + i]
  <2>1. p + a \in Nat /\ (m = 0 \/ (p + a) + m <= Len(f))
    OBVIOUS
  <2> QED BY <2>1, PartOK
<1> HIDE DEF r, q
<1>4. ASSUME NEW i \in 1..m PROVE r[i] = q[i]
  <2>1. a + i \in 1..n /\ p + (a + i) = p + a + i
    OBVIOUS
  <2> QED BY <1>1, <1>2, <1>3, <2>1
<1>5. r = q
  BY <1>2, <1>3, <1>4, SeqEqual
<1> QED BY <1>5 DEF r, q, g

Obj == [file : Seq(Nat), at : Nat, streamPos : Nat, alloc : BOOLEAN, mem : Seq(Nat),
        pos : Nat, end : Nat, dirty : BOOLEAN, prefetched : BOOLEAN]

\* m_stream_pos is where the stream is, and without memory there are no bytes.
Settled(t) ==
  /\ cap # 0 => t.streamPos = t.at
  /\ ~t.alloc => t.mem = <<>> /\ t.pos = 0 /\ t.end = 0
  /\ cap = 0 => ~t.alloc
  /\ t.dirty \/ t.prefetched => kind = "both"

\* A window that was read holds the bytes of the file before the stream's position.
Reading(t) ==
  /\ t.pos <= t.end /\ t.end <= cap /\ t.end <= t.streamPos
  /\ t.end > 0 => t.streamPos <= Len(t.file)
  /\ t.mem = SubSeq(t.file, t.streamPos - t.end + 1, t.streamPos)
  /\ t.dirty => t.end = 0

\* A window that is written holds the bytes written, up to m_pos.  Behind a write to
\* an empty SeekableBuffer m_end stays at m_beg.
Writing(t) ==
  /\ Len(t.mem) = t.pos /\ t.pos <= cap
  /\ t.end \in {0, cap}
  /\ kind = "output" => t.pos <= t.end
  /\ kind = "both" /\ ~t.dirty => t.pos = 0

Ok(t) == t \in Obj /\ Settled(t) /\ IF IsPrefetched(t) THEN Reading(t) ELSE Writing(t)

IInv ==
  /\ kind \in Kinds /\ cap \in Capacities
  /\ written \in 0..MaxWritten /\ closed \in BOOLEAN
  /\ Ok(s)

\* What the client sees of an object and its stream.
ContentOf(t) == Overlay(t.file, t.streamPos, Waiting(t))
PositionOf(t) == IF cap = 0 THEN t.at ELSE PosBeg(t) + t.pos

Fixed == kind \in {"input", "output", "both"} /\ cap \in Nat

(***************************************************************************)
(* What the client sees, in the two states of the window.                  *)
(***************************************************************************)

\* A window that was read shows the file.
LEMMA ReadingIs ==
  ASSUME Fixed, NEW t \in Obj, Settled(t), Reading(t)
  PROVE  /\ Len(t.mem) = t.end
         /\ t.end <= t.at /\ (t.end > 0 => t.at <= Len(t.file))
         /\ t.mem = SubSeq(t.file, (t.at - t.end) + 1, (t.at - t.end) + t.end)
         /\ IsPrefetched(t) => /\ ContentOf(t) = t.file
                               /\ PosBeg(t) = t.streamPos - t.end
                               /\ PositionOf(t) = (t.at - t.end) + t.pos
<1>1. /\ t.file \in Seq(Nat) /\ t.at \in Nat /\ t.streamPos \in Nat /\ t.pos \in Nat
      /\ t.end \in Nat /\ t.mem \in Seq(Nat) /\ cap \in Nat
  BY DEF Obj, Fixed
<1>2. /\ t.end <= t.streamPos /\ (t.end > 0 => t.streamPos <= Len(t.file))
      /\ t.mem = SubSeq(t.file, t.streamPos - t.end + 1, t.streamPos)
      /\ t.pos <= t.end /\ t.end <= cap
  BY DEF Reading
<1> DEFINE beg == t.streamPos - t.end
<1>3. beg \in Nat /\ beg + t.end = t.streamPos
  <2>1. t.end \in Nat /\ t.streamPos \in Nat /\ t.end <= t.streamPos
    BY <1>1, <1>2
  <2> QED BY <2>1
<1>4. t.mem = SubSeq(t.file, beg + 1, beg + t.end)
  BY <1>2, <1>3
<1>5. t.end = 0 \/ beg + t.end <= Len(t.file)
  BY <1>1, <1>2, <1>3
<1> HIDE DEF beg
<1>6. Len(t.mem) = t.end
  BY <1>1, <1>3, <1>4, <1>5, PartOK
<1>7. CASE cap # 0
  <2>1. t.streamPos = t.at
    BY <1>7 DEF Settled
  <2>2. beg = t.at - t.end
    BY <2>1 DEF beg
  <2>3. ASSUME IsPrefetched(t)
        PROVE  ContentOf(t) = t.file /\ PosBeg(t) = beg /\ PositionOf(t) = beg + t.pos
    BY <1>7, <2>3, OverlayNone DEF ContentOf, PositionOf, PosBeg, Waiting, beg
  <2> QED BY <1>2, <1>4, <1>6, <2>1, <2>2, <2>3
<1>8. CASE cap = 0
  <2>1. t.mem = <<>> /\ t.pos = 0 /\ t.end = 0
    BY <1>8 DEF Settled
  <2>2. SubSeq(t.file, t.at + 1, t.at) = <<>>
    BY <1>1, PartNone
  <2>3. (t.at - t.end) + 1 = t.at + 1 /\ (t.at - t.end) + t.end = t.at
        /\ (t.at - t.end) + t.pos = t.at
    BY <1>1, <2>1
  <2>4. ASSUME IsPrefetched(t)
        PROVE  ContentOf(t) = t.file /\ PosBeg(t) = t.streamPos - t.end /\ PositionOf(t) = t.at
    BY <1>8, <2>4, OverlayNone DEF ContentOf, PositionOf, PosBeg, Waiting
  <2>5. t.end <= t.at /\ ~(t.end > 0)
    BY <1>1, <2>1
  <2> QED BY <1>6, <2>1, <2>2, <2>3, <2>4, <2>5
<1> QED BY <1>7, <1>8

\* A window that is written shows its bytes in front of those of the file.
LEMMA WritingIs ==
  ASSUME Fixed, NEW t \in Obj, Settled(t), Writing(t)
  PROVE  /\ Written(t) = t.mem
         /\ ~IsPrefetched(t) => /\ ContentOf(t) = Overlay(t.file, t.at, t.mem)
                                /\ PosBeg(t) = t.streamPos
                                /\ PositionOf(t) = t.at + t.pos
<1>1. /\ t.file \in Seq(Nat) /\ t.at \in Nat /\ t.streamPos \in Nat /\ t.pos \in Nat
      /\ t.mem \in Seq(Nat) /\ cap \in Nat /\ Len(t.mem) = t.pos
  BY DEF Obj, Fixed, Writing
<1>2. Written(t) = t.mem
  <2> DEFINE w == Written(t)
             m == t.mem
  <2>1. w = [i \in 1..Len(m) |-> m[i]]
    <3>1. \A i \in 1..t.pos : i <= Len(t.mem)
      BY <1>1
    <3> QED BY <1>1, <3>1 DEF Written
  <2>2. m \in Seq(Nat)
    BY <1>1
  <2> HIDE DEF m, w
  <2>3. w \in Seq(Nat) /\ Len(w) = Len(m) /\ \A i \in 1..Len(m) : w[i] = m[i]
    BY <2>1, <2>2
  <2>4. w = m
    BY <2>2, <2>3, SeqEqual
  <2> QED BY <2>4 DEF w, m
<1>3. ASSUME ~IsPrefetched(t)
      PROVE  /\ ContentOf(t) = Overlay(t.file, t.at, t.mem)
             /\ PosBeg(t) = t.streamPos
             /\ PositionOf(t) = t.at + t.pos
  <2>1. ContentOf(t) = Overlay(t.file, t.streamPos, t.mem) /\ PosBeg(t) = t.streamPos
    BY <1>2, <1>3 DEF ContentOf, Waiting, PosBeg
  <2>2. CASE cap # 0
    <3>1. t.streamPos = t.at
      BY <2>2 DEF Settled
    <3> QED BY <2>1, <2>2, <3>1 DEF PositionOf
  <2>3. CASE cap = 0
    <3>1. t.mem = <<>> /\ t.pos = 0
      BY <2>3 DEF Settled
    <3>2. t.at + t.pos = t.at
      BY <1>1, <3>1
    <3> QED BY <2>1, <2>3, <3>1, <3>2, OverlayNone DEF PositionOf
  <2> QED BY <2>2, <2>3
<1> QED BY <1>2, <1>3

\* Ok, unfolded.
LEMMA OkIs ==
  ASSUME NEW t, Ok(t)
  PROVE  /\ t \in Obj /\ Settled(t)
         /\ IsPrefetched(t) => Reading(t)
         /\ ~IsPrefetched(t) => Writing(t)
  BY DEF Ok

(***************************************************************************)
(* Flushing and leaving the window.                                        *)
(***************************************************************************)

\* u is t after the bytes that waited were written.
Emptied(t, u) ==
  /\ u \in Obj
  /\ u.file = Overlay(t.file, t.at, t.mem)
  /\ u.at = t.at + t.pos /\ u.streamPos = t.streamPos + t.pos
  /\ u.alloc = t.alloc
  /\ u.mem = <<>> /\ u.pos = 0 /\ u.end \in {0, cap}
  /\ kind = "output" /\ u.alloc => u.end = cap
  /\ ~u.alloc => u.end = 0
  /\ u.dirty = FALSE /\ u.prefetched = FALSE

\* The stream takes what is written at its position.
LEMMA StreamWriteIs ==
  ASSUME NEW t \in Obj, NEW b \in Seq(Nat)
  PROVE  LET u == StreamWrite(t, b)
         IN  /\ u \in Obj
             /\ u.file = Overlay(t.file, t.at, b)
             /\ u.at = t.at + Len(b) /\ u.streamPos = t.streamPos + Len(b)
             /\ u.alloc = t.alloc /\ u.mem = t.mem /\ u.pos = t.pos /\ u.end = t.end
             /\ u.dirty = t.dirty /\ u.prefetched = t.prefetched
<1> DEFINE f == Overlay(t.file, t.at, b)
           x == t.at + Len(b)
           y == t.streamPos + Len(b)
           u == [t EXCEPT !.file = f, !.at = x, !.streamPos = y]
<1>1. StreamWrite(t, b) = u
  BY DEF StreamWrite, Obj
<1>2. f \in Seq(Nat) /\ x \in Nat /\ y \in Nat
  <2>1. t.file \in Seq(Nat) /\ t.at \in Nat /\ t.streamPos \in Nat /\ Len(b) \in Nat
    BY DEF Obj
  <2> QED BY <2>1, OverlayOK DEF IsPut
<1> HIDE DEF f, x, y
<1>3. /\ u \in Obj /\ u.file = f /\ u.at = x /\ u.streamPos = y
      /\ u.alloc = t.alloc /\ u.mem = t.mem /\ u.pos = t.pos /\ u.end = t.end
      /\ u.dirty = t.dirty /\ u.prefetched = t.prefetched
  BY <1>2 DEF Obj
<1> HIDE DEF u
<1> QED BY <1>1, <1>3 DEF f, x, y

\* Nothing is written of a window that was read; otherwise it is empty afterwards.
LEMMA FlushIs ==
  ASSUME Fixed, NEW t, Ok(t)
  PROVE  IF IsPrefetched(t) /\ ~t.dirty THEN FlushBuffer(t) = t ELSE Emptied(t, FlushBuffer(t))
<1> DEFINE u == FlushBuffer(t)
           v == BaseFlushBuffer(t)
<1>1. /\ t \in Obj /\ Settled(t) /\ t.mem \in Seq(Nat) /\ t.file \in Seq(Nat)
      /\ t.pos \in Nat /\ t.end \in Nat /\ t.at \in Nat /\ t.streamPos \in Nat /\ t.dirty \in BOOLEAN
      /\ t.prefetched \in BOOLEAN /\ cap \in Nat
  BY DEF Ok, Obj, Fixed
<1>2. ASSUME Written(t) = t.mem, Len(t.mem) = t.pos, ~t.alloc => t.end = 0
      PROVE  /\ v \in Obj
             /\ v.file = Overlay(t.file, t.at, t.mem)
             /\ v.at = t.at + t.pos /\ v.streamPos = t.streamPos + t.pos
             /\ v.alloc = t.alloc
             /\ v.mem = <<>> /\ v.pos = 0 /\ v.end = IF v.alloc THEN cap ELSE 0
             /\ v.dirty = t.dirty /\ v.prefetched = t.prefetched
  <2>1. CASE ~t.alloc
    <3>1. v = t /\ t.mem = <<>> /\ t.pos = 0 /\ t.end = 0
      BY <1>1, <2>1 DEF BaseFlushBuffer, Settled
    <3>2. Overlay(t.file, t.at, t.mem) = t.file
      BY <3>1, OverlayNone
    <3>3. t.at + t.pos = t.at /\ t.streamPos + t.pos = t.streamPos
      BY <1>1, <3>1
    <3> HIDE DEF v
    <3> QED BY <1>1, <2>1, <3>1, <3>2, <3>3
  <2>2. CASE t.alloc
    <3> DEFINE w == StreamWrite(t, t.mem)
    <3>1. /\ w \in Obj
          /\ w.file = Overlay(t.file, t.at, t.mem)
          /\ w.at = t.at + t.pos /\ w.streamPos = t.streamPos + t.pos
          /\ w.alloc = t.alloc
          /\ w.dirty = t.dirty /\ w.prefetched = t.prefetched
      <4> DEFINE b == t.mem
      <4>1. t \in Obj /\ b \in Seq(Nat) /\ Len(b) = t.pos
        BY <1>1, <1>2
      <4> HIDE DEF b
      <4>2. /\ w \in Obj
            /\ w.file = Overlay(t.file, t.at, b)
            /\ w.at = t.at + Len(b) /\ w.streamPos = t.streamPos + Len(b)
            /\ w.alloc = t.alloc /\ w.dirty = t.dirty /\ w.prefetched = t.prefetched
        BY <4>1, StreamWriteIs DEF b
      <4> QED BY <4>1, <4>2 DEF b
    <3>2. v = [w EXCEPT !.mem = <<>>, !.pos = 0, !.end = cap]
      BY <1>2, <2>2 DEF BaseFlushBuffer
    <3> HIDE DEF w, v
    <3>3. /\ v \in Obj /\ v.file = w.file /\ v.at = w.at /\ v.streamPos = w.streamPos
          /\ v.alloc = w.alloc /\ v.mem = <<>> /\ v.pos = 0 /\ v.end = cap
          /\ v.dirty = w.dirty /\ v.prefetched = w.prefetched
      <4>1. w \in Obj /\ <<>> \in Seq(Nat) /\ 0 \in Nat /\ cap \in Nat
        BY <1>1, <3>1
      <4> QED BY <3>2, <4>1 DEF Obj
    <3> QED BY <2>2, <3>1, <3>3
  <2> QED BY <2>1, <2>2
<1>3. CASE IsPrefetched(t) /\ ~t.dirty
  BY <1>3 DEF FlushBuffer, IsPrefetched
<1>4. CASE ~(IsPrefetched(t) /\ ~t.dirty)
  <2>1. Written(t) = t.mem /\ Len(t.mem) = t.pos /\ (~t.alloc => t.end = 0)
        /\ (kind = "both" /\ ~t.dirty => t.end \in {0, cap} /\ t.pos = 0)
    <3>1. CASE ~IsPrefetched(t)
      <4>1. Writing(t)
        BY <3>1 DEF Ok
      <4> QED BY <1>1, <4>1, WritingIs DEF Writing, Settled
    <3>2. CASE IsPrefetched(t)
      <4>1. Reading(t) /\ t.dirty
        BY <1>4, <3>2 DEF Ok
      <4>2. t.end = 0 /\ t.pos = 0 /\ Len(t.mem) = 0
        <5>1. t.end = 0 /\ t.pos <= t.end /\ t.pos \in Nat
          BY <1>1, <4>1 DEF Reading
        <5>2. Len(t.mem) = t.end
          BY <1>1, <4>1, ReadingIs
        <5> QED BY <5>1, <5>2
      <4>3. t.mem = <<>>
        BY <1>1, <4>2
      <4>4. Written(t) = <<>>
        BY <4>2 DEF Written
      <4> QED BY <4>1, <4>2, <4>3, <4>4
    <3> QED BY <3>1, <3>2
  <2>2. CASE kind = "output"
    <3>1. u = v /\ t.dirty = FALSE /\ t.prefetched = FALSE
      BY <1>1, <2>2 DEF FlushBuffer, Settled
    <3> HIDE DEF u, v
    <3>2. Emptied(t, v)
      BY <1>2, <2>1, <3>1 DEF Emptied, v
    <3> QED BY <1>4, <3>1, <3>2 DEF u
  <2>3. CASE kind = "both" /\ t.dirty
    <3>1. u = [v EXCEPT !.prefetched = FALSE, !.dirty = FALSE]
      BY <2>3 DEF FlushBuffer
    <3> HIDE DEF u, v
    <3>2. v \in Obj
      BY <1>2, <2>1 DEF v
    <3>3. /\ u \in Obj /\ u.file = v.file /\ u.at = v.at /\ u.streamPos = v.streamPos
          /\ u.alloc = v.alloc /\ u.mem = v.mem /\ u.pos = v.pos /\ u.end = v.end
          /\ u.dirty = FALSE /\ u.prefetched = FALSE
      BY <3>1, <3>2 DEF Obj
    <3>4. Emptied(t, u)
      BY <1>2, <2>1, <2>3, <3>3 DEF Emptied, v
    <3> QED BY <1>4, <3>4 DEF u
  <2>4. CASE kind = "both" /\ ~t.dirty
    <3>1. u = t
      BY <2>4 DEF FlushBuffer
    <3>2. t.prefetched = FALSE
      BY <1>1, <1>4, <2>4 DEF IsPrefetched
    <3>3. t.mem = <<>> /\ t.pos = 0 /\ t.end \in {0, cap} /\ t.dirty = FALSE
      BY <1>1, <2>1, <2>4
    <3>4. Overlay(t.file, t.at, t.mem) = t.file /\ t.at + t.pos = t.at
          /\ t.streamPos + t.pos = t.streamPos
      BY <1>1, <3>3, OverlayNone
    <3>5. Emptied(t, t)
      BY <1>1, <2>1, <2>4, <3>2, <3>3, <3>4 DEF Emptied
    <3> QED BY <1>4, <3>1, <3>5
  <2>5. kind # "input"
    BY <1>1, <1>4 DEF IsPrefetched, Settled
  <2> QED BY <2>2, <2>3, <2>4, <2>5 DEF Fixed
<1> QED BY <1>3, <1>4

\* An empty window shows the file and the position of the stream.
LEMMA EmptyOk ==
  ASSUME Fixed, NEW u \in Obj, Settled(u), u.mem = <<>>, u.pos = 0, u.end \in {0, cap},
         IsPrefetched(u) => u.end = 0
  PROVE  Ok(u) /\ ContentOf(u) = u.file /\ PositionOf(u) = u.at
<1>1. /\ u.at \in Nat /\ u.streamPos \in Nat /\ u.end \in Nat /\ cap \in Nat /\ u.pos \in Nat
      /\ u.at + 0 = u.at
  BY DEF Obj, Fixed
<1>2. CASE IsPrefetched(u)
  <2>1. u.end = 0
    BY <1>2
  <2>2. SubSeq(u.file, u.streamPos - u.end + 1, u.streamPos) = <<>>
    <3>1. u.streamPos - 0 + 1 = u.streamPos + 1
      BY <1>1
    <3> QED BY <1>1, <2>1, <3>1, PartNone
  <2>3. u.pos <= u.end /\ u.end <= cap /\ u.end <= u.streamPos /\ ~(u.end > 0)
    BY <1>1, <2>1
  <2>4. Reading(u)
    BY <2>1, <2>2, <2>3 DEF Reading
  <2>5. (u.at - u.end) + u.pos = u.at
    BY <1>1, <2>1
  <2>6. ContentOf(u) = u.file /\ PositionOf(u) = (u.at - u.end) + u.pos
    BY <1>2, <2>4, ReadingIs
  <2> QED BY <1>2, <2>4, <2>5, <2>6 DEF Ok
<1>3. CASE ~IsPrefetched(u)
  <2>1. Len(u.mem) = u.pos /\ u.pos <= cap /\ u.pos <= u.end
    BY <1>1
  <2>2. Writing(u)
    BY <2>1 DEF Writing
  <2>3. ContentOf(u) = Overlay(u.file, u.at, u.mem) /\ PositionOf(u) = u.at + u.pos
    BY <1>3, <2>2, WritingIs
  <2> QED BY <1>1, <1>3, <2>2, <2>3, OverlayNone DEF Ok
<1> QED BY <1>2, <1>3

\* So does one whose bytes were written, and they are the same.
LEMMA EmptiedOk ==
  ASSUME Fixed, NEW t, Ok(t), NEW u, Emptied(t, u), ~(IsPrefetched(t) /\ ~t.dirty)
  PROVE  /\ Ok(u) /\ Settled(u) /\ ~IsPrefetched(u)
         /\ ContentOf(u) = u.file /\ PositionOf(u) = u.at
         /\ u.file = ContentOf(t) /\ u.at = PositionOf(t)
         /\ u.at = IF IsPrefetched(t) THEN t.at ELSE t.at + t.pos
<1>1. /\ t \in Obj /\ Settled(t) /\ t.at \in Nat /\ t.pos \in Nat /\ t.end \in Nat /\ cap \in Nat
      /\ t.streamPos \in Nat
  BY DEF Ok, Obj, Fixed
<1>2. kind # "input"
  BY <1>1 DEF IsPrefetched, Settled
<1>3. ~IsPrefetched(u)
  BY <1>2 DEF Emptied, IsPrefetched
<1>4. /\ u \in Obj /\ u.mem = <<>> /\ u.pos = 0 /\ u.end \in {0, cap}
      /\ u.at = t.at + t.pos /\ u.file = Overlay(t.file, t.at, t.mem)
  BY DEF Emptied
<1>5. Settled(u)
  <2>1. cap # 0 => u.streamPos = u.at
    BY DEF Emptied, Ok, Settled
  <2> QED BY <1>1, <2>1 DEF Emptied, Settled
<1>6. Ok(u) /\ ContentOf(u) = u.file /\ PositionOf(u) = u.at
  BY <1>3, <1>4, <1>5, EmptyOk
<1>7. CASE ~IsPrefetched(t)
  <2>1. Writing(t)
    BY <1>7 DEF Ok
  <2>2. ContentOf(t) = Overlay(t.file, t.at, t.mem) /\ PositionOf(t) = t.at + t.pos
    BY <1>1, <1>7, <2>1, WritingIs
  <2> QED BY <1>3, <1>4, <1>5, <1>6, <1>7, <2>2
<1>8. CASE IsPrefetched(t)
  <2>1. Reading(t) /\ t.dirty
    BY <1>8 DEF Ok
  <2>2. t.end = 0 /\ t.pos = 0
    <3>1. t.end = 0 /\ t.pos <= t.end
      BY <2>1 DEF Reading
    <3> QED BY <1>1, <3>1
  <2>3. t.mem = <<>>
    <3>1. Len(t.mem) = 0 /\ t.mem \in Seq(Nat)
      BY <1>1, <2>1, <2>2, ReadingIs DEF Obj
    <3> QED BY <3>1
  <2>4. ContentOf(t) = t.file /\ PositionOf(t) = (t.at - t.end) + t.pos
    BY <1>1, <1>8, <2>1, ReadingIs
  <2>5. t.at + t.pos = t.at /\ (t.at - t.end) + t.pos = t.at
    BY <1>1, <2>2
  <2>6. u.file = t.file
    BY <1>4, <2>3, OverlayNone
  <2> QED BY <1>3, <1>4, <1>5, <1>6, <1>8, <2>4, <2>5, <2>6
<1> QED BY <1>7, <1>8

\* A flush changes nothing that the client sees.
LEMMA FlushOK ==
  ASSUME Fixed, NEW t, Ok(t)
  PROVE  LET u == FlushBuffer(t)
         IN  Ok(u) /\ ContentOf(u) = ContentOf(t) /\ PositionOf(u) = PositionOf(t)
<1> DEFINE u == FlushBuffer(t)
<1>1. CASE IsPrefetched(t) /\ ~t.dirty
  BY <1>1, FlushIs
<1>2. CASE ~(IsPrefetched(t) /\ ~t.dirty)
  <2>1. Emptied(t, u)
    BY <1>2, FlushIs
  <2> HIDE DEF u
  <2> QED BY <1>2, <2>1, EmptiedOk DEF u
<1> QED BY <1>1, <1>2

\* invalidate_buffer writes what waits.  The window of a SeekableBuffer is left, a
\* position in the middle of one that was read with it.
LEMMA InvalidateIs ==
  ASSUME Fixed, NEW t, Ok(t)
  PROVE  LET u == InvalidateBuffer(t)
         IN  /\ u \in Obj /\ Settled(u) /\ u.dirty = FALSE
             /\ u.file = ContentOf(t)
             /\ u.at = IF IsPrefetched(t) THEN t.at ELSE PositionOf(t)
             /\ kind = "both" => /\ u.mem = <<>> /\ u.pos = 0 /\ u.end = 0
                                 /\ u.prefetched => t.prefetched /\ ~t.dirty
<1> DEFINE f == FlushBuffer(t)
           u == InvalidateBuffer(t)
<1>1. t \in Obj /\ Settled(t) /\ t.dirty \in BOOLEAN /\ t.prefetched \in BOOLEAN
  BY DEF Ok, Obj
<1>2. /\ f \in Obj /\ Settled(f) /\ f.dirty = FALSE
      /\ f.file = ContentOf(t)
      /\ f.at = IF IsPrefetched(t) THEN t.at ELSE PositionOf(t)
      /\ f.prefetched => t.prefetched /\ ~t.dirty
  <2>1. CASE IsPrefetched(t) /\ ~t.dirty
    <3>1. f = t
      BY <2>1, FlushIs
    <3>2. ContentOf(t) = t.file
      BY <1>1, <2>1, ReadingIs DEF Ok
    <3> HIDE DEF f
    <3> QED BY <1>1, <2>1, <3>1, <3>2
  <2>2. CASE ~(IsPrefetched(t) /\ ~t.dirty)
    <3>1. Emptied(t, f)
      BY <2>2, FlushIs
    <3> HIDE DEF f
    <3>2. /\ Settled(f) /\ f.file = ContentOf(t) /\ f.at = PositionOf(t)
          /\ f.at = IF IsPrefetched(t) THEN t.at ELSE t.at + t.pos
      BY <2>2, <3>1, EmptiedOk
    <3>3. f \in Obj /\ f.dirty = FALSE /\ f.prefetched = FALSE
      BY <3>1 DEF Emptied
    <3> QED BY <3>2, <3>3
  <2> QED BY <2>1, <2>2
<1>3. CASE kind # "both"
  <2>1. u = f
    BY <1>3 DEF InvalidateBuffer
  <2> HIDE DEF u, f
  <2> QED BY <1>2, <1>3, <2>1 DEF u
<1>4. CASE kind = "both"
  <2>1. u = [f EXCEPT !.mem = <<>>, !.pos = 0, !.end = 0]
    BY <1>4 DEF InvalidateBuffer
  <2> HIDE DEF u, f
  <2>2. f \in Obj /\ <<>> \in Seq(Nat) /\ 0 \in Nat
    BY <1>2
  <2>3. /\ u \in Obj /\ u.file = f.file /\ u.at = f.at /\ u.streamPos = f.streamPos
        /\ u.alloc = f.alloc /\ u.mem = <<>> /\ u.pos = 0 /\ u.end = 0
        /\ u.dirty = f.dirty /\ u.prefetched = f.prefetched
    BY <2>1, <2>2 DEF Obj
  <2>4. Settled(u)
    BY <1>2, <2>3 DEF Settled
  <2> QED BY <1>2, <2>3, <2>4 DEF u
<1> QED BY <1>3, <1>4

\* Leaving the window changes the position only.
LEMMA LeaveIs ==
  ASSUME Fixed, NEW t, Ok(t), NEW p \in Nat
  PROVE  LET u == Leave(t, p)
         IN  Ok(u) /\ ContentOf(u) = ContentOf(t) /\ PositionOf(u) = p
<1> DEFINE v == InvalidateBuffer(t)
           u == Leave(t, p)
<1>1. v \in Obj /\ Settled(v) /\ v.dirty = FALSE /\ v.file = ContentOf(t)
  BY InvalidateIs
<1>2. u = [[v EXCEPT !.at = p, !.streamPos = p] EXCEPT !.mem = <<>>, !.pos = 0, !.end = 0]
  BY DEF Leave, StreamSeek
<1> HIDE DEF u, v
<1>3. v \in Obj /\ <<>> \in Seq(Nat) /\ 0 \in Nat /\ p \in Nat
  BY <1>1
<1>4. /\ u \in Obj /\ u.file = v.file /\ u.at = p /\ u.streamPos = p
      /\ u.alloc = v.alloc /\ u.mem = <<>> /\ u.pos = 0 /\ u.end = 0
      /\ u.dirty = v.dirty /\ u.prefetched = v.prefetched
  BY <1>2, <1>3 DEF Obj
<1>5. Settled(u)
  BY <1>1, <1>4 DEF Settled
<1>6. u.end \in {0, cap} /\ (IsPrefetched(u) => u.end = 0)
  BY <1>4
<1> QED BY <1>1, <1>4, <1>5, <1>6, EmptyOk DEF u

(***************************************************************************)
(* Filling.                                                                *)
(***************************************************************************)

\* The offset of the byte at m_pos of a window that was read.
ReadAt(t) == (t.at - t.end) + t.pos

\* What do_fill_and_read makes of t, called for len bytes.  The position is that of
\* the last byte returned, or at the end of the file, or where it was.
Filled(t, len, g) ==
  /\ g.s \in Obj /\ Settled(g.s) /\ Reading(g.s)
  /\ g.s.file = t.file /\ g.s.dirty = FALSE /\ g.s.prefetched = t.prefetched
  /\ \/ /\ g.exc = "none"
        /\ \E k \in 1..len : /\ g.got = SubSeq(t.file, ReadAt(t) + 1, ReadAt(t) + k)
                             /\ ReadAt(g.s) = ReadAt(t) + k
                             /\ ReadAt(g.s) <= Len(t.file)
                             /\ k < len => ReadAt(g.s) = Len(t.file)
     \/ /\ g.exc = "eof"
        /\ Len(t.file) - ReadAt(t) < len
        /\ \/ ReadAt(g.s) = ReadAt(t)
           \/ ReadAt(t) < Len(t.file) /\ ReadAt(g.s) = Len(t.file)
        /\ t.end = 0 => g.s.end = 0

Readable(t) ==
  kind # "output" /\ t \in Obj /\ Settled(t) /\ Reading(t) /\ t.dirty = FALSE

\* IInputStream::read until min bytes are there brings less only at the end.
LEMMA Transferred ==
  ASSUME NEW t \in Obj, NEW min \in Nat, NEW max \in Nat, NEW n \in ReadMinMax(t, min, max)
  PROVE  /\ n \in Nat /\ n <= max
         /\ n = 0 \/ t.at + n <= Len(t.file)
         /\ n < min => Len(t.file) <= t.at + n
<1> DEFINE l == Len(t.file)
           a == t.at
<1>1. l \in Nat /\ a \in Nat
  BY DEF Obj
<1>2. n \in 0..Least(max, Greatest(l - a, 0)) /\ (n >= min \/ n = Greatest(l - a, 0))
  BY DEF ReadMinMax
<1> HIDE DEF l, a
<1>3. /\ n \in Nat /\ n <= max /\ (n = 0 \/ a + n <= l) /\ (n < min => l <= a + n)
  BY <1>1, <1>2 DEF Least, Greatest
<1> QED BY <1>3 DEF l, a

\* The window, and bytes of the stream behind it, are bytes of the file.
LEMMA WindowJoins ==
  ASSUME Fixed, NEW t, Readable(t), NEW m \in Nat, m = 0 \/ t.at + m <= Len(t.file)
  PROVE  /\ ReadAt(t) \in Nat /\ t.end - t.pos \in Nat /\ ReadAt(t) + (t.end - t.pos) = t.at
         /\ t.end - t.pos > 0 => t.at <= Len(t.file)
         /\ Window(t) \o StreamBytes(t, m) =
              SubSeq(t.file, ReadAt(t) + 1, ReadAt(t) + (t.end - t.pos) + m)
<1> DEFINE beg == t.at - t.end
           k == t.end - t.pos
           q == ReadAt(t)
<1>1. /\ t.at \in Nat /\ t.pos \in Nat /\ t.end \in Nat /\ t.file \in Seq(Nat)
      /\ t.pos <= t.end
  BY DEF Readable, Obj, Reading
<1>2. /\ t.end <= t.at /\ (t.end > 0 => t.at <= Len(t.file))
      /\ t.mem = SubSeq(t.file, beg + 1, beg + t.end)
  BY ReadingIs DEF Readable
<1>3. beg \in Nat /\ k \in Nat /\ q = beg + t.pos /\ q \in Nat /\ q + k = t.at /\ t.pos + k = t.end
      /\ beg + t.pos + k = t.at
  <2>1. t.at \in Nat /\ t.pos \in Nat /\ t.end \in Nat /\ t.pos <= t.end /\ t.end <= t.at
    BY <1>1, <1>2
  <2> QED BY <2>1 DEF ReadAt
<1>4. k > 0 => t.at <= Len(t.file)
  <2>1. k > 0 => t.end > 0
    BY <1>1
  <2> QED BY <1>2, <2>1
<1>5. t.end = 0 \/ beg + t.end <= Len(t.file)
  BY <1>1, <1>2
<1> HIDE DEF beg, k, q
<1>6. Window(t) = SubSeq(t.file, q + 1, q + k)
  <2>1. Window(t) = SubSeq(SubSeq(t.file, beg + 1, beg + t.end), t.pos + 1, t.pos + k)
    BY <1>2, <1>3 DEF Window
  <2>2. t.pos + k <= t.end
    BY <1>1, <1>3
  <2>3. SubSeq(SubSeq(t.file, beg + 1, beg + t.end), t.pos + 1, t.pos + k)
          = SubSeq(t.file, beg + t.pos + 1, beg + t.pos + k)
    <3> DEFINE f == t.file
               n == t.end
               o == t.pos
    <3>1. f \in Seq(Nat) /\ beg \in Nat /\ n \in Nat /\ o \in Nat /\ k \in Nat
      BY <1>1, <1>3
    <3>2. (n = 0 \/ beg + n <= Len(f)) /\ o + k <= n
      BY <1>5, <2>2
    <3> HIDE DEF f, n, o
    <3>3. SubSeq(SubSeq(f, beg + 1, beg + n), o + 1, o + k) = SubSeq(f, beg + o + 1, beg + o + k)
      BY <3>1, <3>2, PartOfPart
    <3> QED BY <3>3 DEF f, n, o
  <2> QED BY <1>3, <2>1, <2>3
<1>7. StreamBytes(t, m) = SubSeq(t.file, q + k + 1, q + k + m)
  BY <1>3 DEF StreamBytes
<1>8. k + m = 0 \/ q + k + m <= Len(t.file)
  <2>1. Len(t.file) \in Nat
    BY <1>1
  <2> QED BY <1>1, <1>3, <1>4, <2>1
<1>9. SubSeq(t.file, q + 1, q + k) \o SubSeq(t.file, q + k + 1, q + k + m)
        = SubSeq(t.file, q + 1, q + k + m)
  <2>1. t.file \in Seq(Nat) /\ q \in Nat /\ k \in Nat /\ m \in Nat
    BY <1>1, <1>3
  <2> QED BY <1>8, <2>1, PartJoin
<1> QED BY <1>3, <1>4, <1>6, <1>7, <1>9 DEF k, q

\* The stream reads to the caller.
LEMMA FillUnbufferedIs ==
  ASSUME Fixed, NEW t, Readable(t), cap = 0, NEW len \in Nat, len > 0, NEW g \in FillUnbuffered(t, len)
  PROVE  Filled(t, len, g)
<1>1. PICK n \in ReadMinMax(t, len, len) :
        g = Got([t EXCEPT !.at = @ + n], StreamBytes(t, n), EofIf(n))
  BY DEF FillUnbuffered
<1>2. /\ t \in Obj /\ Settled(t) /\ Reading(t) /\ t.dirty = FALSE
      /\ t.at \in Nat /\ t.pos = 0 /\ t.end = 0 /\ t.file \in Seq(Nat) /\ Len(t.file) \in Nat
  BY DEF Readable, Obj, Settled
<1>3. /\ n \in Nat /\ n <= len /\ (n = 0 \/ t.at + n <= Len(t.file))
      /\ (n < len => Len(t.file) <= t.at + n)
  BY <1>1, <1>2, Transferred
<1> DEFINE a == t.at + n
           u == [t EXCEPT !.at = a]
<1>4. a \in Nat /\ g.s = u /\ g.got = StreamBytes(t, n) /\ g.exc = EofIf(n)
  BY <1>1, <1>2, <1>3 DEF Got, Obj
<1> HIDE DEF a
<1>5. /\ u \in Obj /\ u.file = t.file /\ u.at = a /\ u.streamPos = t.streamPos /\ u.alloc = t.alloc
      /\ u.mem = t.mem /\ u.pos = t.pos /\ u.end = t.end /\ u.dirty = t.dirty
      /\ u.prefetched = t.prefetched
  <2>1. t \in Obj /\ a \in Nat
    BY <1>2, <1>4
  <2> QED BY <2>1 DEF Obj
<1> HIDE DEF u
<1>6. Settled(u) /\ Reading(u)
  BY <1>2, <1>5 DEF Settled, Reading
<1>7. ReadAt(t) = t.at /\ ReadAt(u) = t.at + n
  BY <1>2, <1>4, <1>5 DEF ReadAt, a
<1>8. CASE n = 0
  <2>1. g.exc = "eof" /\ Len(t.file) - t.at < len /\ t.at + n = t.at
    BY <1>2, <1>3, <1>4, <1>8 DEF EofIf
  <2> QED BY <1>2, <1>4, <1>5, <1>6, <1>7, <2>1 DEF Filled
<1>9. CASE n # 0
  <2>1. /\ g.exc = "none" /\ n \in 1..len /\ t.at + n <= Len(t.file)
        /\ (n < len => t.at + n = Len(t.file))
    <3>1. g.exc = "none"
      BY <1>4, <1>9 DEF EofIf
    <3>2. t.at + n \in Nat /\ Len(t.file) \in Nat /\ n \in Nat /\ len \in Nat
      BY <1>2, <1>3
    <3> QED BY <1>3, <1>9, <3>1, <3>2
  <2>2. g.got = SubSeq(t.file, t.at + 1, t.at + n)
    BY <1>4 DEF StreamBytes
  <2> QED BY <1>2, <1>4, <1>5, <1>6, <1>7, <2>1, <2>2 DEF Filled
<1> QED BY <1>8, <1>9

\* The window goes to the caller, and the stream reads behind it.
LEMMA FillDirectIs ==
  ASSUME Fixed, NEW t, Readable(t), cap # 0, NEW len \in Nat, t.pos + len > t.end,
         NEW g \in FillDirect(t, len - (t.end - t.pos))
  PROVE  Filled(t, len, g)
<1> DEFINE n2 == len - (t.end - t.pos)
           k == t.end - t.pos
           q == ReadAt(t)
<1>1. /\ t \in Obj /\ Settled(t) /\ Reading(t) /\ t.dirty = FALSE
      /\ t.at \in Nat /\ t.pos \in Nat /\ t.end \in Nat /\ Len(t.file) \in Nat /\ t.streamPos = t.at
  BY DEF Readable, Obj, Settled
<1>2. k \in Nat /\ q \in Nat /\ q + k = t.at /\ (k > 0 => t.at <= Len(t.file))
  BY 0 \in Nat, WindowJoins
<1>3. n2 \in Nat /\ n2 > 0 /\ len = k + n2
  <2>1. t.pos + len > t.end /\ t.pos \in Nat /\ t.end \in Nat /\ len \in Nat
        /\ t.end - t.pos \in Nat
    BY <1>1, <1>2
  <2> QED BY <2>1
<1>4. PICK n \in ReadMinMax(t, n2, n2) :
        g = Got([t EXCEPT !.alloc = TRUE, !.mem = <<>>, !.pos = 0, !.end = 0,
                          !.at = @ + n, !.streamPos = @ + n],
                Window(t) \o StreamBytes(t, n), EofIf(n))
  BY DEF FillDirect
<1>5. /\ n \in Nat /\ n <= n2 /\ (n = 0 \/ t.at + n <= Len(t.file))
      /\ (n < n2 => Len(t.file) <= t.at + n)
  <2> HIDE DEF n2
  <2> QED BY <1>1, <1>3, <1>4, Transferred
<1> DEFINE a == t.at + n
           u == [t EXCEPT !.alloc = TRUE, !.mem = <<>>, !.pos = 0, !.end = 0,
                          !.at = a, !.streamPos = a]
<1>6. a \in Nat /\ g.s = u /\ g.got = Window(t) \o StreamBytes(t, n) /\ g.exc = EofIf(n)
  <2>1. a \in Nat
    BY <1>1, <1>5
  <2> HIDE DEF n2, k, q
  <2>2. /\ g.got = Window(t) \o StreamBytes(t, n) /\ g.exc = EofIf(n)
        /\ g.s = [t EXCEPT !.alloc = TRUE, !.mem = <<>>, !.pos = 0, !.end = 0,
                           !.at = @ + n, !.streamPos = @ + n]
    BY <1>4 DEF Got
  <2>3. g.s = u
    BY <1>1, <2>2
  <2> QED BY <2>1, <2>2, <2>3
<1>7. g.got = SubSeq(t.file, q + 1, q + k + n)
  BY <1>5, <1>6, WindowJoins
<1> HIDE DEF a, k, q, n2
<1>8. /\ u \in Obj /\ u.file = t.file /\ u.at = a /\ u.streamPos = a /\ u.alloc = TRUE
      /\ u.mem = <<>> /\ u.pos = 0 /\ u.end = 0 /\ u.dirty = t.dirty
      /\ u.prefetched = t.prefetched
  <2>1. t \in Obj /\ a \in Nat /\ <<>> \in Seq(Nat) /\ 0 \in Nat
    BY <1>1, <1>6
  <2> QED BY <2>1 DEF Obj
<1> HIDE DEF u
<1>9. Settled(u)
  BY <1>1, <1>8 DEF Settled
<1>10. Reading(u)
  <2>1. SubSeq(u.file, a - 0 + 1, a) = <<>>
    <3>1. a - 0 + 1 = a + 1 /\ a \in Int
      BY <1>6
    <3> QED BY <3>1, PartNone
  <2>2. 0 <= 0 /\ 0 <= cap /\ 0 <= a /\ ~(0 > 0)
    BY <1>6 DEF Fixed
  <2>3. u.dirty = FALSE
    BY <1>1, <1>8
  <2> QED BY <1>8, <2>1, <2>2, <2>3 DEF Reading
<1>11. ReadAt(u) = a
  BY <1>6, <1>8 DEF ReadAt
<1>12. CASE n = 0
  <2>1. g.exc = "eof" /\ a = t.at /\ Len(t.file) <= t.at
    BY <1>1, <1>3, <1>5, <1>6, <1>12 DEF EofIf, a
  <2>2. /\ Len(t.file) - q < len
        /\ a = q \/ (q < Len(t.file) /\ a = Len(t.file))
    BY <1>1, <1>2, <1>3, <2>1
  <2> QED BY <1>1, <1>6, <1>8, <1>9, <1>10, <1>11, <2>1, <2>2 DEF Filled, q
<1>13. CASE n # 0
  <2>1. /\ g.exc = "none" /\ k + n \in 1..len /\ a = q + (k + n) /\ q + k + n = q + (k + n)
        /\ a <= Len(t.file) /\ (k + n < len => a = Len(t.file))
    BY <1>1, <1>2, <1>3, <1>5, <1>6, <1>13 DEF EofIf, a
  <2> QED BY <1>1, <1>6, <1>7, <1>8, <1>9, <1>10, <1>11, <2>1 DEF Filled, q
<1> QED BY <1>12, <1>13

\* The window goes to the caller, the stream fills the buffer, and the caller gets
\* the start of that.
LEMMA FillBufferedIs ==
  ASSUME Fixed, NEW t, Readable(t), cap # 0, NEW len \in Nat, t.pos + len > t.end,
         NEW g \in FillBuffered(t, len - (t.end - t.pos))
  PROVE  /\ Filled(t, len, g)
         /\ len = 1 /\ t.pos = t.end /\ g.exc = "none" => g.s.pos = 1
<1> DEFINE n2 == len - (t.end - t.pos)
           k == t.end - t.pos
           q == ReadAt(t)
<1>1. /\ t \in Obj /\ Settled(t) /\ Reading(t) /\ t.dirty = FALSE
      /\ t.at \in Nat /\ t.pos \in Nat /\ t.end \in Nat /\ Len(t.file) \in Nat /\ t.streamPos = t.at
      /\ cap \in Nat /\ t.file \in Seq(Nat)
  BY DEF Readable, Obj, Settled, Fixed
<1>2. k \in Nat /\ q \in Nat /\ q + k = t.at /\ (k > 0 => t.at <= Len(t.file))
  BY 0 \in Nat, WindowJoins
<1>3. n2 \in Nat /\ n2 > 0 /\ len = k + n2
  <2>1. t.pos + len > t.end /\ t.pos \in Nat /\ t.end \in Nat /\ len \in Nat
        /\ t.end - t.pos \in Nat
    BY <1>1, <1>2
  <2> QED BY <2>1
<1>4. PICK n \in ReadMinMax(t, n2, cap) :
        g = IF n = 0 THEN Got([t EXCEPT !.alloc = TRUE], <<>>, "eof")
            ELSE Got([t EXCEPT !.alloc = TRUE, !.at = @ + n, !.streamPos = @ + n,
                               !.mem = StreamBytes(t, n),
                               !.end = n, !.pos = Least(n, n2)],
                     Window(t) \o StreamBytes(t, Least(n, n2)), "none")
  BY DEF FillBuffered
<1>5. /\ n \in Nat /\ n <= cap /\ (n = 0 \/ t.at + n <= Len(t.file))
      /\ (n < n2 => Len(t.file) <= t.at + n)
  <2> HIDE DEF n2
  <2> QED BY <1>1, <1>3, <1>4, Transferred
<1>6. CASE n = 0
  <2> DEFINE u == [t EXCEPT !.alloc = TRUE]
  <2> HIDE DEF n2, k, q
  <2>1. g.s = u /\ g.exc = "eof"
    BY <1>4, <1>6 DEF Got
  <2>2. /\ u \in Obj /\ u.file = t.file /\ u.at = t.at /\ u.streamPos = t.streamPos
        /\ u.alloc = TRUE /\ u.mem = t.mem /\ u.pos = t.pos /\ u.end = t.end
        /\ u.dirty = t.dirty /\ u.prefetched = t.prefetched
    <3>1. t \in Obj
      BY <1>1
    <3> QED BY <3>1 DEF Obj
  <2> HIDE DEF u
  <2>3. Settled(u) /\ Reading(u) /\ ReadAt(u) = q
    BY <1>1, <2>2 DEF Settled, Reading, ReadAt, q
  <2>4. Len(t.file) - q < len
    <3>1. Len(t.file) <= t.at + n
      BY <1>3, <1>5, <1>6
    <3>2. Len(t.file) \in Nat /\ k \in Nat /\ q \in Nat /\ n2 \in Nat /\ n2 > 0 /\ len = k + n2
          /\ Len(t.file) <= (q + k) + 0
      BY <1>1, <1>2, <1>3, <1>6, <3>1
    <3> QED BY <3>2
  <2> QED BY <1>1, <2>1, <2>2, <2>3, <2>4 DEF Filled, q
<1>7. CASE n # 0
  <2> DEFINE a == t.at + n
             m == Least(n, n2)
             b == StreamBytes(t, n)
             u == [t EXCEPT !.alloc = TRUE, !.at = a, !.streamPos = a, !.mem = b,
                            !.end = n, !.pos = m]
  <2>1. /\ a \in Nat /\ a <= Len(t.file) /\ n <= a /\ a - n = t.at
        /\ m \in Nat /\ m > 0 /\ m <= n /\ m <= n2 /\ (m < n2 => m = n)
    <3> HIDE DEF n2
    <3>1. t.at \in Nat /\ n \in Nat /\ n2 \in Nat /\ n2 > 0 /\ t.at + n <= Len(t.file)
      BY <1>1, <1>3, <1>5, <1>7
    <3> QED BY <1>7, <3>1 DEF Least
  <2>2. b \in Seq(Nat) /\ b = SubSeq(t.file, t.at + 1, t.at + n)
    BY <1>1, <1>5, PartOK DEF StreamBytes
  <2>3. g.exc = "none" /\ g.got = Window(t) \o StreamBytes(t, m) /\ g.s = u
    <3> HIDE DEF n2, k, q, m, b
    <3>1. /\ g.exc = "none" /\ g.got = Window(t) \o StreamBytes(t, m)
          /\ g.s = [t EXCEPT !.alloc = TRUE, !.at = @ + n, !.streamPos = @ + n,
                             !.mem = b, !.end = n, !.pos = m]
      BY <1>4, <1>7 DEF Got, m, b
    <3>2. g.s = u
      BY <1>1, <3>1
    <3> QED BY <3>1, <3>2
  <2>4. g.got = SubSeq(t.file, q + 1, q + k + m)
    <3>1. m = 0 \/ t.at + m <= Len(t.file)
      <4> HIDE DEF m, n2
      <4>1. m \in Nat /\ n \in Nat /\ m <= n /\ t.at \in Nat /\ t.at + n <= Len(t.file)
            /\ Len(t.file) \in Nat
        BY <1>1, <1>5, <1>7, <2>1
      <4> QED BY <4>1
    <3> HIDE DEF m
    <3> QED BY <2>1, <2>3, <3>1, WindowJoins
  <2> HIDE DEF a, m, b, k, q, n2
  <2>5. /\ u \in Obj /\ u.file = t.file /\ u.at = a /\ u.streamPos = a /\ u.alloc = TRUE
        /\ u.mem = b /\ u.pos = m /\ u.end = n /\ u.dirty = t.dirty
        /\ u.prefetched = t.prefetched
    <3>1. t \in Obj /\ a \in Nat /\ b \in Seq(Nat) /\ m \in Nat /\ n \in Nat
      BY <1>1, <1>5, <2>1, <2>2
    <3> QED BY <3>1 DEF Obj
  <2> HIDE DEF u
  <2>6. Settled(u)
    BY <1>1, <2>5 DEF Settled
  <2>7. Reading(u)
    <3>1. b = SubSeq(u.file, a - n + 1, a)
      BY <2>1, <2>2, <2>5 DEF a
    <3>2. m <= n /\ n <= cap /\ n <= a /\ a <= Len(u.file) /\ u.dirty = FALSE
      BY <1>1, <1>5, <2>1, <2>5
    <3> QED BY <2>5, <3>1, <3>2 DEF Reading
  <2>8. ReadAt(u) = q + (k + m) /\ q + k + m = q + (k + m)
    <3>1. ReadAt(u) = t.at + m
      BY <2>1, <2>5 DEF ReadAt
    <3> QED BY <1>2, <2>1, <3>1
  <2>9. /\ k + m \in 1..len /\ q + (k + m) <= Len(t.file)
        /\ (k + m < len => q + (k + m) = Len(t.file))
    <3>1. /\ k \in Nat /\ m \in Nat /\ m > 0 /\ n2 \in Nat /\ len = k + n2 /\ m <= n2 /\ m <= n
          /\ q \in Nat /\ n \in Nat /\ Len(t.file) \in Nat
          /\ (q + k) + n <= Len(t.file) /\ (n < n2 => Len(t.file) <= (q + k) + n)
          /\ (m < n2 => m = n)
      BY <1>1, <1>2, <1>3, <1>5, <1>7, <2>1
    <3> QED BY <3>1
  <2>10. len = 1 /\ t.pos = t.end => m = 1
    <3>1. n2 \in Nat /\ m \in Nat /\ m > 0 /\ m <= n2 /\ len = k + n2 /\ k \in Nat
      BY <1>2, <1>3, <2>1
    <3> QED BY <3>1
  <2>11. \E x \in 1..len : /\ g.got = SubSeq(t.file, q + 1, q + x)
                           /\ ReadAt(u) = q + x /\ ReadAt(u) <= Len(t.file)
                           /\ x < len => ReadAt(u) = Len(t.file)
    BY <2>4, <2>8, <2>9
  <2> QED BY <1>1, <2>3, <2>5, <2>6, <2>7, <2>10, <2>11 DEF Filled, q
<1> QED BY <1>6, <1>7

\* do_fill_and_read, whichever way it goes.
LEMMA BaseFillIs ==
  ASSUME Fixed, NEW t, Readable(t), NEW len \in Nat, len > 0, t.pos + len > t.end,
         NEW g \in BaseFillAndRead(t, len)
  PROVE  /\ Filled(t, len, g)
         /\ cap >= 2 /\ len = 1 /\ t.pos = t.end /\ g.exc = "none" => g.s.pos = 1
<1> DEFINE n2 == len - (t.end - t.pos)
<1>1. CASE cap = 0
  <2>1. g \in FillUnbuffered(t, len)
    BY <1>1 DEF BaseFillAndRead
  <2> QED BY <1>1, <2>1, FillUnbufferedIs
<1>2. CASE cap # 0 /\ n2 >= cap
  <2>1. g \in FillDirect(t, n2)
    BY <1>2 DEF BaseFillAndRead
  <2>2. Filled(t, len, g)
    BY <1>2, <2>1, FillDirectIs
  <2>3. ~(cap >= 2 /\ len = 1 /\ t.pos = t.end)
    <3>1. cap \in Nat /\ t.pos \in Nat /\ t.end \in Nat
      BY DEF Fixed, Readable, Obj
    <3> QED BY <1>2, <3>1
  <2> QED BY <2>2, <2>3
<1>3. CASE cap # 0 /\ ~(n2 >= cap)
  <2>1. g \in FillBuffered(t, n2)
    BY <1>3 DEF BaseFillAndRead
  <2> QED BY <1>3, <2>1, FillBufferedIs
<1> QED BY <1>1, <1>2, <1>3

\* What a read makes of t, seen by the client.
HasRead(t, len, g) ==
  /\ Ok(g.s) /\ ContentOf(g.s) = ContentOf(t)
  /\ \/ /\ g.exc = "none"
        /\ \E k \in 1..len :
             /\ g.got = SubSeq(ContentOf(t), PositionOf(t) + 1, PositionOf(t) + k)
             /\ PositionOf(g.s) = PositionOf(t) + k
             /\ PositionOf(g.s) <= Len(ContentOf(t))
             /\ k < len => PositionOf(g.s) = Len(ContentOf(t))
     \/ /\ g.exc = "eof"
        /\ Len(ContentOf(t)) - PositionOf(t) < len
        /\ \/ PositionOf(g.s) = PositionOf(t)
           \/ PositionOf(t) < Len(ContentOf(t)) /\ PositionOf(g.s) = Len(ContentOf(t))

\* A window that was read is Ok.
LEMMA ReadingOk ==
  ASSUME Fixed, NEW u \in Obj, Settled(u), Reading(u), IsPrefetched(u)
  PROVE  Ok(u) /\ ContentOf(u) = u.file /\ PositionOf(u) = ReadAt(u)
BY ReadingIs DEF Ok, ReadAt

\* The virtual do_fill_and_read, when it forgets nothing.
LEMMA DoFillIs ==
  ASSUME Fixed, NEW t, Ok(t), kind # "output", NEW len \in Nat, len > 0,
         ~(t.pos + len <= t.end /\ IsPrefetched(t)),
         kind = "both" /\ IsPrefetched(t) => t.pos = t.end,
         NEW g \in DoFillAndRead(t, len)
  PROVE  /\ HasRead(t, len, g)
         /\ cap >= 2 /\ len = 1 /\ t.pos = t.end /\ g.exc = "none" =>
              g.s.pos = 1 /\ IsPrefetched(g.s)
<1>1. /\ t \in Obj /\ Settled(t) /\ t.at \in Nat /\ t.pos \in Nat /\ t.end \in Nat
      /\ t.prefetched \in BOOLEAN
  BY DEF Ok, Obj
<1>2. CASE kind = "input"
  <2>1. IsPrefetched(t) /\ Reading(t) /\ t.dirty = FALSE
    BY <1>1, <1>2 DEF IsPrefetched, Ok, Settled, Obj
  <2>2. Readable(t)
    BY <1>1, <2>1 DEF Readable
  <2>3. g \in BaseFillAndRead(t, len)
    BY <1>2 DEF DoFillAndRead
  <2>4. t.pos + len > t.end
    BY <1>1, <2>1
  <2>5. /\ Filled(t, len, g)
        /\ cap >= 2 /\ len = 1 /\ t.pos = t.end /\ g.exc = "none" => g.s.pos = 1
    BY <2>2, <2>3, <2>4, BaseFillIs
  <2>6. IsPrefetched(g.s)
    BY <1>2 DEF IsPrefetched
  <2>7. g.s \in Obj /\ Settled(g.s) /\ Reading(g.s) /\ g.s.file = t.file
    BY <2>5 DEF Filled
  <2>8. Ok(g.s) /\ ContentOf(g.s) = t.file /\ PositionOf(g.s) = ReadAt(g.s)
    BY <2>6, <2>7, ReadingOk
  <2>9. ContentOf(t) = t.file /\ PositionOf(t) = ReadAt(t)
    BY <1>1, <2>1, ReadingOk
  <2>10. HasRead(t, len, g)
    BY <2>5, <2>8, <2>9 DEF HasRead, Filled
  <2> QED BY <2>5, <2>6, <2>10
<1>3. CASE kind = "both"
  <2> DEFINE v == InvalidateBuffer(t)
  <2>1. /\ v \in Obj /\ Settled(v) /\ v.dirty = FALSE
        /\ v.file = ContentOf(t)
        /\ v.at = IF IsPrefetched(t) THEN t.at ELSE PositionOf(t)
        /\ v.mem = <<>> /\ v.pos = 0 /\ v.end = 0
    BY <1>3, InvalidateIs
  <2>2. v.at = PositionOf(t)
    <3>1. CASE IsPrefetched(t)
      <4>1. PositionOf(t) = (t.at - t.end) + t.pos
        BY <1>1, <3>1, ReadingIs DEF Ok
      <4>2. (t.at - t.end) + t.end = t.at /\ t.pos = t.end
        BY <1>1, <1>3, <3>1
      <4> HIDE DEF v
      <4> QED BY <2>1, <3>1, <4>1, <4>2
    <3>2. CASE ~IsPrefetched(t)
      <4> HIDE DEF v
      <4> QED BY <2>1, <3>2
    <3> QED BY <3>1, <3>2
  <2>3. PICK h \in BaseFillAndRead(v, len) :
          g = [h EXCEPT !.s.prefetched = IF h.exc = "none" THEN TRUE ELSE @]
    BY <1>3 DEF DoFillAndRead
  <2> HIDE DEF v
  <2>4. v.at \in Nat /\ v.streamPos \in Nat /\ v.pos = 0 /\ v.end = 0 /\ cap \in Nat
        /\ ReadAt(v) = v.at /\ v.pos + len > v.end /\ v.pos = v.end
    <3>1. v.at \in Nat /\ v.streamPos \in Nat /\ cap \in Nat
      BY <2>1 DEF Obj, Fixed
    <3>2. (v.at - 0) + 0 = v.at /\ 0 + len > 0
      BY <3>1
    <3> QED BY <2>1, <3>1, <3>2 DEF ReadAt
  <2>5. Readable(v)
    <3>1. SubSeq(v.file, v.streamPos - 0 + 1, v.streamPos) = <<>>
      <4>1. v.streamPos - 0 + 1 = v.streamPos + 1 /\ v.streamPos \in Int
        BY <2>4
      <4> QED BY <4>1, PartNone
    <3>2. 0 <= 0 /\ 0 <= cap /\ 0 <= v.streamPos /\ ~(0 > 0)
      BY <2>4
    <3>3. Reading(v)
      BY <2>1, <3>1, <3>2 DEF Reading
    <3> QED BY <2>1, <3>3 DEF Readable
  <2>6. /\ Filled(v, len, h)
        /\ cap >= 2 /\ len = 1 /\ h.exc = "none" => h.s.pos = 1
    BY <2>3, <2>4, <2>5, BaseFillIs
  <2> DEFINE w == h.s
             u == g.s
  <2>7. w \in Obj /\ Settled(w) /\ Reading(w) /\ w.file = v.file /\ w.prefetched = v.prefetched
        /\ w.dirty = FALSE
    BY <2>6 DEF Filled
  <2>8. g.exc = h.exc /\ g.got = h.got
        /\ u = [w EXCEPT !.prefetched = IF h.exc = "none" THEN TRUE ELSE @]
    BY <2>3
  <2> DEFINE pf == IF h.exc = "none" THEN TRUE ELSE w.prefetched
  <2>9. pf \in BOOLEAN /\ u = [w EXCEPT !.prefetched = pf]
    BY <2>7, <2>8 DEF Obj
  <2> HIDE DEF w, u, pf
  <2>10. /\ u \in Obj /\ u.file = w.file /\ u.at = w.at /\ u.streamPos = w.streamPos
         /\ u.alloc = w.alloc /\ u.mem = w.mem /\ u.pos = w.pos /\ u.end = w.end
         /\ u.dirty = w.dirty /\ u.prefetched = pf
    <3>1. w \in Obj /\ pf \in BOOLEAN
      BY <2>7, <2>9
    <3> QED BY <2>9, <3>1 DEF Obj
  <2>11. Settled(u) /\ Reading(u) /\ ReadAt(u) = ReadAt(w)
    BY <1>3, <2>7, <2>10 DEF Settled, Reading, ReadAt
  <2>12. IsPrefetched(u) <=> pf
    BY <1>3, <2>10 DEF IsPrefetched
  <2>13. CASE pf
    <3>1. Ok(u) /\ ContentOf(u) = v.file /\ PositionOf(u) = ReadAt(w)
      BY <2>7, <2>10, <2>11, <2>12, <2>13, ReadingOk
    <3>2. HasRead(t, len, g)
      BY <2>1, <2>2, <2>4, <2>6, <2>8, <3>1 DEF HasRead, Filled, u, w
    <3> QED BY <2>6, <2>8, <2>10, <2>12, <2>13, <3>2 DEF u, w
  <2>14. CASE ~pf
    <3>1. h.exc # "none"
      BY <2>14 DEF pf
    <3>2. u.end = 0
      BY <2>4, <2>6, <2>10, <3>1 DEF Filled, w
    <3>3. u.pos \in Nat /\ u.at \in Nat /\ u.mem \in Seq(Nat) /\ u.pos <= u.end
      BY <2>10, <2>11 DEF Obj, Reading
    <3>4. u.pos = 0 /\ ReadAt(u) = u.at
      BY <3>2, <3>3 DEF ReadAt
    <3>5. u.mem = <<>>
      <4>1. Len(u.mem) = 0
        BY <2>10, <2>11, <3>2, ReadingIs
      <4> QED BY <3>3, <4>1
    <3>6. Ok(u) /\ ContentOf(u) = v.file /\ PositionOf(u) = ReadAt(w)
      <4>1. Ok(u) /\ ContentOf(u) = u.file /\ PositionOf(u) = u.at
        BY <2>10, <2>11, <2>12, <2>14, <3>2, <3>4, <3>5, EmptyOk
      <4> QED BY <2>7, <2>10, <2>11, <3>4, <4>1
    <3>7. HasRead(t, len, g)
      BY <2>1, <2>2, <2>4, <2>6, <2>8, <3>6 DEF HasRead, Filled, u, w
    <3> QED BY <2>8, <3>1, <3>7
  <2> QED BY <2>13, <2>14
<1> QED BY <1>2, <1>3 DEF Fixed

\* read and its relatives, in the window or not.
LEMMA GetIs ==
  ASSUME Fixed, NEW t, Ok(t), kind # "output", NEW len \in Nat, len > 0,
         kind = "both" /\ IsPrefetched(t) => t.pos = t.end \/ t.pos + len <= t.end,
         NEW g \in Get(t, len)
  PROVE  HasRead(t, len, g)
<1>1. CASE ~(t.pos + len <= t.end /\ IsPrefetched(t))
  <2>1. g \in DoFillAndRead(t, len)
    BY <1>1 DEF Get
  <2>2. kind = "both" /\ IsPrefetched(t) => t.pos = t.end
    BY <1>1
  <2> QED BY <1>1, <2>1, <2>2, DoFillIs
<1>2. CASE t.pos + len <= t.end /\ IsPrefetched(t)
  <2> DEFINE p == t.pos + len
             u == [t EXCEPT !.pos = p]
             q == ReadAt(t)
  <2>1. g = Got([t EXCEPT !.pos = @ + len], SubSeq(t.mem, t.pos + 1, t.pos + len), "none")
    BY <1>2 DEF Get
  <2>2. /\ t \in Obj /\ Settled(t) /\ Reading(t) /\ t.at \in Nat /\ t.pos \in Nat /\ t.end \in Nat
        /\ t.file \in Seq(Nat) /\ Len(t.file) \in Nat
    BY <1>2 DEF Ok, Obj
  <2>3. /\ t.end <= t.at /\ (t.end > 0 => t.at <= Len(t.file))
        /\ t.mem = SubSeq(t.file, (t.at - t.end) + 1, (t.at - t.end) + t.end)
        /\ ContentOf(t) = t.file /\ PositionOf(t) = q
    BY <1>2, <2>2, ReadingIs DEF ReadAt
  <2>4. g.s = u /\ g.exc = "none" /\ g.got = SubSeq(t.mem, t.pos + 1, t.pos + len)
    BY <2>1, <2>2 DEF Got
  <2>5. /\ p \in Nat /\ p <= t.end /\ t.end > 0 /\ t.at - t.end \in Nat
        /\ (t.at - t.end) + t.end = t.at /\ q \in Nat /\ q = (t.at - t.end) + t.pos
        /\ (t.at - t.end) + p = q + len /\ (t.at - t.end) + t.pos + len = q + len
        /\ q + len <= t.at
    <3>1. t.pos \in Nat /\ t.end \in Nat /\ t.at \in Nat /\ t.end <= t.at /\ t.pos + len <= t.end
      BY <1>2, <2>2, <2>3
    <3> QED BY <3>1 DEF ReadAt
  <2> HIDE DEF p
  <2>6. /\ u \in Obj /\ u.file = t.file /\ u.at = t.at /\ u.streamPos = t.streamPos
        /\ u.alloc = t.alloc /\ u.mem = t.mem /\ u.pos = p /\ u.end = t.end
        /\ u.dirty = t.dirty /\ u.prefetched = t.prefetched
    <3>1. t \in Obj /\ p \in Nat
      BY <2>2, <2>5
    <3> QED BY <3>1 DEF Obj
  <2> HIDE DEF u, q
  <2>7. Settled(u)
    <3>1. t.alloc
      <4>1. t.end # 0
        BY <2>2, <2>5
      <4> QED BY <2>2, <4>1 DEF Settled
    <3> QED BY <2>2, <2>6, <3>1 DEF Settled
  <2>8. Reading(u) /\ ReadAt(u) = q + len /\ IsPrefetched(u)
    BY <1>2, <2>2, <2>5, <2>6 DEF Reading, ReadAt, IsPrefetched
  <2>9. Ok(u) /\ ContentOf(u) = t.file /\ PositionOf(u) = q + len
    BY <2>6, <2>7, <2>8, ReadingOk
  <2>10. g.got = SubSeq(t.file, q + 1, q + len)
    <3> DEFINE f == t.file
               beg == t.at - t.end
               n == t.end
               o == t.pos
    <3>1. f \in Seq(Nat) /\ beg \in Nat /\ n \in Nat /\ o \in Nat /\ len \in Nat
      BY <2>2, <2>5
    <3>2. (n = 0 \/ beg + n <= Len(f)) /\ o + len <= n
      BY <1>2, <2>3, <2>5
    <3>3. g.got = SubSeq(SubSeq(f, beg + 1, beg + n), o + 1, o + len)
      BY <2>3, <2>4
    <3>4. beg + o = q /\ beg + o + len = q + len
      BY <2>5
    <3> HIDE DEF f, beg, n, o
    <3>5. g.got = SubSeq(f, beg + o + 1, beg + o + len)
      BY <3>1, <3>2, <3>3, PartOfPart
    <3>6. g.got = SubSeq(f, q + 1, q + len)
      BY <3>4, <3>5
    <3> QED BY <3>6 DEF f
  <2>11. q + len <= Len(t.file)
    BY <2>2, <2>3, <2>5
  <2>12. len \in 1..len /\ ~(len < len)
    OBVIOUS
  <2>13. \E k \in 1..len : /\ g.got = SubSeq(t.file, q + 1, q + k)
                           /\ PositionOf(u) = q + k
                           /\ PositionOf(u) <= Len(t.file)
                           /\ k < len => PositionOf(u) = Len(t.file)
    BY <2>9, <2>10, <2>11, <2>12
  <2> QED BY <2>3, <2>4, <2>9, <2>13 DEF HasRead
<1> QED BY <1>1, <1>2

(***************************************************************************)
(* Writing.                                                                *)
(***************************************************************************)

\* w is v after the bytes b, seen by the client.
HasPut(v, b, w) ==
  /\ ContentOf(w) = Overlay(ContentOf(v), PositionOf(v), b)
  /\ PositionOf(w) = PositionOf(v) + Len(b)

\* The window shows its bytes in front of those of the file.
Shows(w, c, p) ==
  /\ w \in Obj /\ Settled(w)
  /\ Len(w.mem) = w.pos /\ w.pos <= cap /\ w.end \in {0, cap}
  /\ kind = "output" => w.pos <= w.end
  /\ w.prefetched = FALSE
  /\ Overlay(w.file, w.at, w.mem) = c
  /\ w.at + w.pos = p

\* A buffer that is written and may not be full.
Writable(v) ==
  /\ Ok(v) /\ kind \in {"output", "both"} /\ ~v.prefetched
  /\ v.pos <= v.end
  /\ kind = "both" => v.mem = <<>> /\ v.pos = 0 /\ v.end = 0 /\ v.dirty = FALSE

\* What a Writable buffer is.
LEMMA WritableIs ==
  ASSUME Fixed, NEW v, Writable(v)
  PROVE  /\ ~IsPrefetched(v) /\ v \in Obj /\ Settled(v) /\ Writing(v)
         /\ ContentOf(v) = Overlay(v.file, v.at, v.mem) /\ PositionOf(v) = v.at + v.pos
         /\ v.file \in Seq(Nat) /\ v.mem \in Seq(Nat) /\ v.at \in Nat /\ v.pos \in Nat
         /\ v.end \in Nat /\ v.end <= cap /\ cap \in Nat /\ Len(v.mem) = v.pos /\ v.dirty = FALSE
<1>1. ~IsPrefetched(v)
  BY DEF Writable, IsPrefetched
<1>2. v \in Obj /\ Settled(v) /\ Writing(v)
  BY <1>1 DEF Writable, Ok
<1>3. /\ v.file \in Seq(Nat) /\ v.mem \in Seq(Nat) /\ v.at \in Nat /\ v.pos \in Nat
      /\ v.end \in Nat /\ cap \in Nat /\ v.dirty \in BOOLEAN
  BY <1>2 DEF Obj, Fixed
<1>4. v.end <= cap /\ Len(v.mem) = v.pos
  BY <1>2, <1>3 DEF Writing
<1>5. v.dirty = FALSE
  BY <1>2, <1>3 DEF Writable, Settled
<1> QED BY <1>1, <1>2, <1>3, <1>4, <1>5, WritingIs

\* As much data as the buffer holds goes to the stream, behind what waited.
LEMMA WriteThroughIs ==
  ASSUME Fixed, NEW v, Writable(v), NEW b \in Seq(Nat)
  PROVE  Shows(WriteThrough(v, b), Overlay(ContentOf(v), PositionOf(v), b), PositionOf(v) + Len(b))
<1> DEFINE f == FlushBuffer(v)
           w == WriteThrough(v, b)
<1>1. ~IsPrefetched(v) /\ Ok(v) /\ cap \in Nat
  BY WritableIs DEF Writable
<1>2. Emptied(v, f)
  BY <1>1, FlushIs
<1>3. f.file = ContentOf(v) /\ f.at = PositionOf(v) /\ Settled(f)
  <2> HIDE DEF f
  <2> QED BY <1>1, <1>2, EmptiedOk
<1>4. w = StreamWrite(f, b)
  BY DEF WriteThrough
<1> HIDE DEF f, w
<1>5. /\ f \in Obj /\ f.mem = <<>> /\ f.pos = 0 /\ f.end \in {0, cap} /\ f.prefetched = FALSE
  BY <1>2 DEF Emptied
<1>6. /\ w \in Obj /\ w.file = Overlay(f.file, f.at, b)
      /\ w.at = f.at + Len(b) /\ w.streamPos = f.streamPos + Len(b)
      /\ w.alloc = f.alloc /\ w.mem = f.mem /\ w.pos = f.pos /\ w.end = f.end
      /\ w.dirty = f.dirty /\ w.prefetched = f.prefetched
  BY <1>4, <1>5, StreamWriteIs
<1>7. Settled(w)
  BY <1>3, <1>6 DEF Settled
<1>8. Overlay(w.file, w.at, w.mem) = w.file
  BY <1>5, <1>6, OverlayNone
<1>9. w.at \in Nat /\ w.at + 0 = w.at /\ 0 <= cap /\ w.end \in {0, cap} /\ w.pos = 0
      /\ Len(w.mem) = 0 /\ 0 <= w.end
  BY <1>1, <1>5, <1>6 DEF Obj
<1>10. Shows(w, Overlay(ContentOf(v), PositionOf(v), b), PositionOf(v) + Len(b))
  BY <1>3, <1>5, <1>6, <1>7, <1>8, <1>9 DEF Shows
<1> QED BY <1>10 DEF w

\* Less data fills the buffer up to its end, that is flushed, and the rest waits.
LEMMA WriteBehindIs ==
  ASSUME Fixed, NEW v, Writable(v), NEW b \in Seq(Nat), Len(b) < cap, v.pos + Len(b) > v.end
  PROVE  Shows(WriteBehind(v, b), Overlay(ContentOf(v), PositionOf(v), b), PositionOf(v) + Len(b))
<1> DEFINE n == v.end - v.pos
           b1 == SubSeq(b, 1, n)
           rest == SubSeq(b, n + 1, Len(b))
           m == Store(v.mem, v.pos, b1)
           e == [v EXCEPT !.alloc = TRUE, !.pos = v.end, !.mem = m]
           full == FlushBuffer(e)
           w == WriteBehind(v, b)
           c == ContentOf(v)
           p == PositionOf(v)
<1>1. /\ ~IsPrefetched(v) /\ v \in Obj /\ Settled(v) /\ Writing(v)
      /\ c = Overlay(v.file, v.at, v.mem) /\ p = v.at + v.pos
      /\ v.file \in Seq(Nat) /\ v.mem \in Seq(Nat) /\ v.at \in Nat /\ v.pos \in Nat
      /\ v.end \in Nat /\ v.end <= cap /\ cap \in Nat /\ Len(v.mem) = v.pos /\ v.dirty = FALSE
  BY WritableIs
<1>2. v.pos <= v.end /\ v.prefetched = FALSE /\ kind \in {"output", "both"}
      /\ (kind = "both" => v.mem = <<>> /\ v.pos = 0 /\ v.end = 0)
  BY <1>1 DEF Writable, Obj
<1>3. /\ n \in Nat /\ n < Len(b) /\ v.pos + n = v.end /\ Len(b) \in Nat /\ Len(b) - n \in Nat
      /\ n + (Len(b) - n) = Len(b) /\ Len(b) - n < cap /\ cap # 0
  <2>1. Len(b) \in Nat /\ v.pos \in Nat /\ v.end \in Nat /\ v.pos <= v.end /\ cap \in Nat
        /\ v.pos + Len(b) > v.end /\ Len(b) < cap
    BY <1>1, <1>2
  <2> DEFINE l == Len(b)
             x == v.pos
             y == v.end
  <2>2. l \in Nat /\ x \in Nat /\ y \in Nat /\ x <= y /\ cap \in Nat /\ x + l > y /\ l < cap
    BY <2>1
  <2> HIDE DEF l, x, y
  <2>3. /\ y - x \in Nat /\ y - x < l /\ x + (y - x) = y /\ l - (y - x) \in Nat
        /\ (y - x) + (l - (y - x)) = l /\ l - (y - x) < cap /\ cap # 0
    BY <2>2
  <2> QED BY <2>2, <2>3 DEF l, x, y
<1>4. b1 \in Seq(Nat) /\ Len(b1) = n /\ rest \in Seq(Nat) /\ Len(rest) = Len(b) - n /\ b1 \o rest = b
  <2> HIDE DEF n
  <2> DEFINE l == Len(b) - n
  <2>1. n \in Nat /\ l \in Nat /\ n + l = Len(b) /\ 0 + n <= Len(b)
    BY <1>3
  <2> HIDE DEF l
  <2>2. SubSeq(b, 0 + 1, 0 + n) \in Seq(Nat) /\ Len(SubSeq(b, 0 + 1, 0 + n)) = n
    BY <2>1, 0 \in Nat, PartOK
  <2>3. SubSeq(b, n + 1, n + l) \in Seq(Nat) /\ Len(SubSeq(b, n + 1, n + l)) = l
    BY <2>1, PartOK
  <2>4. SubSeq(b, 0 + 1, 0 + n) \o SubSeq(b, 0 + n + 1, 0 + n + l) = SubSeq(b, 0 + 1, 0 + n + l)
    <3>1. 0 + n + l <= Len(b)
      BY <2>1
    <3> QED BY <2>1, <3>1, 0 \in Nat, PartJoin
  <2>5. 0 + 1 = 1 /\ 0 + n = n /\ 0 + n + 1 = n + 1 /\ 0 + n + l = Len(b)
    BY <2>1
  <2>6. SubSeq(b, 1, Len(b)) = b
    OBVIOUS
  <2> QED BY <2>1, <2>2, <2>3, <2>4, <2>5, <2>6 DEF l
<1>5. m = v.mem \o b1 /\ m \in Seq(Nat) /\ Len(m) = v.end
  <2> HIDE DEF b1, n
  <2>1. m = v.mem \o b1
    BY <1>1, <1>4, StoreAtEnd
  <2>2. v.mem \o b1 \in Seq(Nat) /\ Len(v.mem \o b1) = v.pos + n
    <3>1. v.mem \in Seq(Nat) /\ b1 \in Seq(Nat) /\ Len(v.mem) = v.pos /\ Len(b1) = n
      BY <1>1, <1>4
    <3>2. Len(v.mem \o b1) = Len(v.mem) + Len(b1)
      BY <3>1, ConcatProperties
    <3> QED BY <3>1, <3>2
  <2> QED BY <1>3, <2>1, <2>2
<1>6. w = [full EXCEPT !.mem = Store(@, 0, rest), !.pos = Len(rest)]
  BY <1>1 DEF WriteBehind
<1> HIDE DEF m, b1, rest, n
<1>7. /\ e \in Obj /\ e.file = v.file /\ e.at = v.at /\ e.streamPos = v.streamPos
      /\ e.alloc = TRUE /\ e.mem = m /\ e.pos = v.end /\ e.end = v.end
      /\ e.dirty = v.dirty /\ e.prefetched = v.prefetched
  <2>1. v \in Obj /\ m \in Seq(Nat) /\ v.end \in Nat
    BY <1>1, <1>5
  <2> QED BY <2>1 DEF Obj
<1> HIDE DEF e, w, full, c, p
<1>8. ~IsPrefetched(e)
  BY <1>2, <1>7 DEF IsPrefetched
<1>9. Ok(e)
  <2>1. Settled(e)
    BY <1>1, <1>3, <1>7 DEF Settled
  <2>2. v.end \in {0, cap} /\ v.end <= v.end
    BY <1>1 DEF Writing
  <2>3. Writing(e)
    BY <1>1, <1>2, <1>5, <1>7, <2>2 DEF Writing
  <2> QED BY <1>7, <1>8, <2>1, <2>3 DEF Ok
<1>10. Emptied(e, full)
  BY <1>8, <1>9, FlushIs DEF full
<1>11. /\ full \in Obj /\ full.file = Overlay(v.file, v.at, m) /\ full.at = v.at + v.end
       /\ full.alloc = TRUE /\ full.mem = <<>> /\ full.pos = 0 /\ full.end \in {0, cap}
       /\ (kind = "output" => full.end = cap)
       /\ full.dirty = FALSE /\ full.prefetched = FALSE
  BY <1>7, <1>10 DEF Emptied
<1>12. Settled(full)
  BY <1>8, <1>9, <1>10, EmptiedOk
<1>13. Store(<<>>, 0, rest) = rest
  <2>1. Store(<<>>, Len(<<>>), rest) = <<>> \o rest
    BY <1>4, <<>> \in Seq(Nat), StoreAtEnd
  <2>2. <<>> \o rest = rest /\ Len(<<>>) = 0
    BY <1>4
  <2> QED BY <2>1, <2>2
<1>14. /\ w \in Obj /\ w.file = full.file /\ w.at = full.at /\ w.streamPos = full.streamPos
       /\ w.alloc = full.alloc /\ w.mem = rest /\ w.pos = Len(rest) /\ w.end = full.end
       /\ w.dirty = full.dirty /\ w.prefetched = full.prefetched
  <2> DEFINE l == Len(rest)
  <2>1. l \in Nat /\ rest \in Seq(Nat) /\ full \in Obj
    BY <1>3, <1>4, <1>11
  <2>2. w = [full EXCEPT !.mem = rest, !.pos = l]
    BY <1>6, <1>11, <1>13
  <2> HIDE DEF l
  <2>3. /\ w \in Obj /\ w.file = full.file /\ w.at = full.at /\ w.streamPos = full.streamPos
        /\ w.alloc = full.alloc /\ w.mem = rest /\ w.pos = l /\ w.end = full.end
        /\ w.dirty = full.dirty /\ w.prefetched = full.prefetched
    BY <2>1, <2>2 DEF Obj
  <2> QED BY <2>3 DEF l
<1>15. Settled(w)
  BY <1>3, <1>11, <1>12, <1>14 DEF Settled
<1>16. Overlay(w.file, w.at, w.mem) = Overlay(c, p, b)
  <2>1. full.file = Overlay(c, p, b1)
    <3>1. Overlay(Overlay(v.file, v.at, v.mem), v.at + Len(v.mem), b1) = Overlay(v.file, v.at, m)
      <4> DEFINE f == v.file
                 x == v.at
                 a == v.mem
      <4>1. f \in Seq(Nat) /\ x \in Nat /\ a \in Seq(Nat) /\ b1 \in Seq(Nat)
        BY <1>1, <1>4
      <4> HIDE DEF f, x, a
      <4>2. Overlay(Overlay(f, x, a), x + Len(a), b1) = Overlay(f, x, a \o b1)
        BY <4>1, OverlayTwice
      <4> QED BY <1>5, <4>2 DEF f, x, a
    <3> QED BY <1>1, <1>11, <3>1
  <2>2. full.at = p + n /\ p \in Nat
    <3> DEFINE x == v.at
               y == v.pos
    <3>1. x \in Nat /\ y \in Nat /\ n \in Nat /\ full.at = x + (y + n) /\ p = x + y
      BY <1>1, <1>3, <1>11
    <3> HIDE DEF x, y
    <3> QED BY <3>1
  <2>3. c \in Seq(Nat)
    BY <1>1, OverlayOK DEF IsPut
  <2>4. Overlay(Overlay(c, p, b1), p + Len(b1), rest) = Overlay(c, p, b1 \o rest)
    <3>1. b1 \in Seq(Nat) /\ rest \in Seq(Nat) /\ p \in Nat
      BY <1>4, <2>2
    <3> QED BY <2>3, <3>1, OverlayTwice
  <2> QED BY <1>4, <1>14, <2>1, <2>2, <2>4
<1>17. w.at + w.pos = p + Len(b)
  <2> DEFINE l == Len(b)
  <2>1. /\ v.at \in Nat /\ v.pos \in Nat /\ n \in Nat /\ l \in Nat
        /\ w.at = v.at + v.end /\ w.pos = l - n /\ v.pos + n = v.end /\ p = v.at + v.pos
    BY <1>1, <1>3, <1>4, <1>11, <1>14
  <2> HIDE DEF l
  <2>2. w.at + w.pos = p + l
    BY <2>1
  <2> QED BY <2>2 DEF l
<1>18. Len(w.mem) = w.pos /\ w.pos <= cap /\ (kind = "output" => w.pos <= w.end)
  <2>1. w.pos \in Nat /\ cap \in Nat /\ w.pos < cap
    BY <1>1, <1>3, <1>4, <1>14
  <2> QED BY <1>11, <1>14, <2>1
<1>19. Shows(w, Overlay(c, p, b), p + Len(b))
  BY <1>11, <1>14, <1>15, <1>16, <1>17, <1>18 DEF Shows
<1> QED BY <1>19 DEF w, c, p

\* What a window shows, the client sees.
LEMMA ShowsOk ==
  ASSUME Fixed, NEW w, NEW c, NEW p, Shows(w, c, p),
         kind = "output" \/ (kind = "both" /\ w.dirty = TRUE)
  PROVE  Ok(w) /\ ContentOf(w) = c /\ PositionOf(w) = p
<1>1. w \in Obj /\ Settled(w) /\ ~IsPrefetched(w) /\ Writing(w)
  BY DEF Shows, IsPrefetched, Writing
<1>2. ContentOf(w) = Overlay(w.file, w.at, w.mem) /\ PositionOf(w) = w.at + w.pos
  BY <1>1, WritingIs
<1> QED BY <1>1, <1>2 DEF Ok, Shows

\* do_flush_and_write of a buffer that is Writable.
LEMMA BaseFlushAndWriteIs ==
  ASSUME Fixed, NEW v, Writable(v), NEW b \in Seq(Nat), v.pos + Len(b) > v.end
  PROVE  Shows(BaseFlushAndWrite(v, b), Overlay(ContentOf(v), PositionOf(v), b),
               PositionOf(v) + Len(b))
<1>1. CASE Len(b) >= cap
  BY <1>1, WriteThroughIs DEF BaseFlushAndWrite
<1>2. CASE ~(Len(b) >= cap)
  <2>1. Len(b) < cap
    <3>1. Len(b) \in Nat /\ cap \in Nat
      BY DEF Fixed
    <3> QED BY <1>2, <3>1
  <2> QED BY <1>2, <2>1, WriteBehindIs DEF BaseFlushAndWrite
<1> QED BY <1>1, <1>2

\* write and its relatives: the bytes are put at the position.
LEMMA PutIs ==
  ASSUME Fixed, NEW t, Ok(t), kind # "input", kind = "both" /\ IsPrefetched(t) => t.end = 0,
         NEW b \in Seq(Nat), b # <<>>
  PROVE  Ok(PutBytes(t, b)) /\ HasPut(t, b, PutBytes(t, b))
<1> DEFINE dt == kind = "both"
           d == [t EXCEPT !.dirty = dt]
           u == PutBytes(t, b)
           c == ContentOf(t)
           p == PositionOf(t)
<1>1. /\ t \in Obj /\ Settled(t) /\ t.at \in Nat /\ t.streamPos \in Nat /\ t.pos \in Nat
      /\ t.end \in Nat /\ t.file \in Seq(Nat) /\ t.mem \in Seq(Nat) /\ cap \in Nat
      /\ kind \in {"output", "both"} /\ t.prefetched \in BOOLEAN
  BY DEF Ok, Obj, Fixed
<1>2. /\ d \in Obj /\ d.file = t.file /\ d.at = t.at /\ d.streamPos = t.streamPos
      /\ d.alloc = t.alloc /\ d.mem = t.mem /\ d.pos = t.pos /\ d.end = t.end
      /\ d.dirty = dt /\ d.prefetched = t.prefetched
  <2>1. t \in Obj /\ dt \in BOOLEAN
    BY <1>1
  <2> HIDE DEF dt
  <2> QED BY <2>1 DEF Obj
<1>3. u = IF t.pos + Len(b) <= t.end
          THEN [d EXCEPT !.mem = Store(@, t.pos, b), !.pos = @ + Len(b)]
          ELSE DoFlushAndWrite(d, b)
  BY DEF PutBytes
<1> HIDE DEF d, u, c, p
<1>4. IsPrefetched(d) <=> IsPrefetched(t)
  BY <1>2 DEF IsPrefetched
<1>5. Settled(d) /\ (IsPrefetched(t) => Reading(d)) /\ (~IsPrefetched(t) => Writing(d))
  <2>1. Settled(d)
    BY <1>1, <1>2 DEF Settled
  <2>2. ASSUME IsPrefetched(t) PROVE Reading(d)
    <3>1. t.end = 0 /\ Reading(t)
      BY <1>1, <2>2 DEF IsPrefetched, Ok
    <3> QED BY <1>2, <3>1 DEF Reading
  <2>3. ASSUME ~IsPrefetched(t) PROVE Writing(d)
    <3>1. Writing(t)
      BY <2>3 DEF Ok
    <3> QED BY <1>2, <3>1 DEF Writing
  <2> QED BY <2>1, <2>2, <2>3
<1>6. Ok(d)
  BY <1>2, <1>4, <1>5 DEF Ok
<1>7. ContentOf(d) = c /\ PositionOf(d) = p
  <2>1. Written(d) = Written(t)
    BY <1>2 DEF Written
  <2>2. Waiting(d) = Waiting(t) /\ PosBeg(d) = PosBeg(t)
    BY <1>2, <1>4, <2>1 DEF Waiting, PosBeg
  <2> QED BY <1>2, <2>2 DEF ContentOf, PositionOf, c, p
<1>8. Len(b) \in Nat /\ Len(b) > 0
  OBVIOUS
<1>9. CASE t.pos + Len(b) <= t.end
  <2>1. ~IsPrefetched(t) /\ t.end # 0
    <3>1. t.end > 0
      BY <1>1, <1>8, <1>9
    <3> QED BY <1>1, <3>1 DEF IsPrefetched
  <2>2. Writing(d)
    BY <1>5, <2>1
  <2> DEFINE m == d.mem \o b
             l == t.pos + Len(b)
  <2>3. d.mem \in Seq(Nat) /\ Len(d.mem) = t.pos
    BY <1>1, <1>2, <2>2 DEF Writing
  <2>4. m \in Seq(Nat) /\ Len(m) = l /\ l \in Nat
    <3>1. Len(d.mem \o b) = Len(d.mem) + Len(b)
      BY <2>3, ConcatProperties
    <3>2. m \in Seq(Nat)
      BY <2>3
    <3>3. l \in Nat
      BY <1>1, <1>8
    <3> QED BY <2>3, <3>1, <3>2, <3>3
  <2>5. u = [d EXCEPT !.mem = m, !.pos = l]
    <3>1. Store(d.mem, t.pos, b) = m
      BY <2>3, StoreAtEnd
    <3>2. d.pos = t.pos /\ d \in Obj
      BY <1>2
    <3> HIDE DEF m
    <3> QED BY <1>3, <1>9, <3>1, <3>2
  <2> HIDE DEF m, l
  <2>6. /\ u \in Obj /\ u.file = d.file /\ u.at = d.at /\ u.streamPos = d.streamPos
        /\ u.alloc = d.alloc /\ u.mem = m /\ u.pos = l /\ u.end = d.end
        /\ u.dirty = d.dirty /\ u.prefetched = d.prefetched
    <3>1. d \in Obj /\ m \in Seq(Nat) /\ l \in Nat
      BY <1>2, <2>4
    <3> QED BY <2>5, <3>1 DEF Obj
  <2>7. Settled(u)
    <3>1. t.alloc
      BY <1>1, <2>1 DEF Settled
    <3> QED BY <1>2, <1>5, <2>6, <3>1 DEF Settled
  <2>8. Writing(u)
    <3>1. l <= t.end
      BY <1>9 DEF l
    <3>2. t.end \in {0, cap} /\ t.end <= cap
      BY <1>1, <1>2, <2>2 DEF Writing
    <3>3. l <= cap
      BY <1>1, <2>4, <3>1, <3>2
    <3> QED BY <1>2, <2>4, <2>6, <3>1, <3>2, <3>3 DEF Writing
  <2>9. ~IsPrefetched(u)
    BY <1>2, <2>1, <2>6 DEF IsPrefetched
  <2>10. ContentOf(u) = Overlay(t.file, t.at, m) /\ PositionOf(u) = t.at + l
    BY <1>2, <2>6, <2>7, <2>8, <2>9, WritingIs
  <2>11. c = Overlay(t.file, t.at, d.mem) /\ p = t.at + t.pos
    BY <1>2, <1>4, <1>5, <1>7, <2>1, <2>2, WritingIs
  <2>12. Overlay(Overlay(t.file, t.at, d.mem), t.at + Len(d.mem), b) = Overlay(t.file, t.at, m)
    <3> DEFINE f == t.file
               x == t.at
               a == d.mem
    <3>1. f \in Seq(Nat) /\ x \in Nat /\ a \in Seq(Nat)
      BY <1>1, <2>3
    <3> HIDE DEF f, x, a
    <3>2. Overlay(Overlay(f, x, a), x + Len(a), b) = Overlay(f, x, a \o b)
      BY <3>1, OverlayTwice
    <3> QED BY <3>2 DEF m, f, x, a
  <2>13. t.at + l = p + Len(b)
    <3> DEFINE n == Len(b)
    <3>1. n \in Nat /\ t.at \in Nat /\ t.pos \in Nat /\ l = t.pos + n /\ p = t.at + t.pos
      BY <1>1, <1>8, <2>11 DEF l
    <3> HIDE DEF n
    <3>2. t.at + l = p + n
      BY <3>1
    <3> QED BY <3>2 DEF n
  <2>14. HasPut(t, b, u)
    BY <2>3, <2>10, <2>11, <2>12, <2>13 DEF HasPut, c, p
  <2> QED BY <2>6, <2>7, <2>8, <2>9, <2>14 DEF Ok, u
<1>10. CASE ~(t.pos + Len(b) <= t.end) /\ kind = "output"
  <2>1. u = BaseFlushAndWrite(d, b)
    BY <1>3, <1>10 DEF DoFlushAndWrite
  <2>2. Writable(d)
    <3>1. Writing(d) /\ d.prefetched = FALSE
      BY <1>1, <1>2, <1>5, <1>10 DEF IsPrefetched, Settled
    <3> QED BY <1>6, <1>10, <3>1 DEF Writable, Writing
  <2>3. d.pos + Len(b) > d.end
    BY <1>1, <1>2, <1>8, <1>10
  <2>4. Shows(u, Overlay(c, p, b), p + Len(b))
    BY <1>7, <2>1, <2>2, <2>3, BaseFlushAndWriteIs
  <2>5. Ok(u) /\ ContentOf(u) = Overlay(c, p, b) /\ PositionOf(u) = p + Len(b)
    BY <1>10, <2>4, ShowsOk
  <2> QED BY <2>5 DEF HasPut, u, c, p
<1>11. CASE ~(t.pos + Len(b) <= t.end) /\ kind = "both"
  <2> DEFINE v == InvalidateBuffer(d)
             w == BaseFlushAndWrite(v, b)
  <2>1. u = [w EXCEPT !.prefetched = FALSE, !.dirty = TRUE]
    BY <1>3, <1>11 DEF DoFlushAndWrite
  <2>2. /\ v \in Obj /\ Settled(v) /\ v.dirty = FALSE
        /\ v.file = c /\ v.at = IF IsPrefetched(d) THEN d.at ELSE p
        /\ v.mem = <<>> /\ v.pos = 0 /\ v.end = 0 /\ v.prefetched = FALSE
    <3>1. d.dirty = TRUE
      BY <1>2, <1>11
    <3>2. v \in Obj
      BY <1>6, InvalidateIs
    <3>3. v.prefetched \in BOOLEAN
      BY <3>2 DEF Obj
    <3> HIDE DEF v
    <3> QED BY <1>6, <1>7, <1>11, <3>1, <3>3, InvalidateIs DEF v
  <2> HIDE DEF v, w
  <2>3. v.at = p
    <3>1. CASE IsPrefetched(d)
      <4>1. Reading(d) /\ d.end = 0
        BY <1>2, <1>4, <1>5, <1>11, <3>1
      <4>2. d.pos = 0
        BY <1>1, <1>2, <4>1 DEF Reading
      <4>3. PositionOf(d) = (d.at - d.end) + d.pos
        BY <1>2, <1>5, <3>1, <4>1, ReadingIs
      <4>4. (d.at - 0) + 0 = d.at
        BY <1>1, <1>2
      <4> QED BY <1>7, <2>2, <3>1, <4>1, <4>2, <4>3, <4>4
    <3> QED BY <2>2, <3>1
  <2>4. ~IsPrefetched(v) /\ v.end \in {0, cap}
    BY <1>11, <2>2 DEF IsPrefetched
  <2>5. Ok(v) /\ ContentOf(v) = c /\ PositionOf(v) = p
    BY <2>2, <2>3, <2>4, EmptyOk
  <2>6. Writable(v)
    BY <1>11, <2>2, <2>5 DEF Writable
  <2>7. v.pos + Len(b) > v.end
    BY <1>8, <2>2
  <2>8. Shows(w, Overlay(c, p, b), p + Len(b))
    BY <2>5, <2>6, <2>7, BaseFlushAndWriteIs DEF w
  <2>9. w \in Obj
    BY <2>8 DEF Shows
  <2>10. /\ u \in Obj /\ u.file = w.file /\ u.at = w.at /\ u.streamPos = w.streamPos
         /\ u.alloc = w.alloc /\ u.mem = w.mem /\ u.pos = w.pos /\ u.end = w.end
         /\ u.dirty = TRUE /\ u.prefetched = FALSE
    BY <2>1, <2>9 DEF Obj
  <2>11. Settled(u)
    BY <1>11, <2>8, <2>10 DEF Shows, Settled
  <2>12. Shows(u, Overlay(c, p, b), p + Len(b))
    BY <2>8, <2>10, <2>11 DEF Shows
  <2>13. Ok(u) /\ ContentOf(u) = Overlay(c, p, b) /\ PositionOf(u) = p + Len(b)
    BY <1>11, <2>10, <2>12, ShowsOk
  <2> QED BY <2>13 DEF HasPut, u, c, p
<1> QED BY <1>1, <1>9, <1>10, <1>11

(***************************************************************************)
(* Seeking and asking.                                                     *)
(***************************************************************************)

\* u shows the file of t at position p.
At(t, u, p) == Ok(u) /\ ContentOf(u) = ContentOf(t) /\ PositionOf(u) = p

\* A window with no bytes shows the file of the stream.
LEMMA EmptyIs ==
  ASSUME Fixed, NEW t, Ok(t), t.end = 0, t.pos = 0
  PROVE  t.mem = <<>> /\ ContentOf(t) = t.file /\ PositionOf(t) = t.at
<1>1. t \in Obj /\ Settled(t) /\ t.mem \in Seq(Nat) /\ t.at \in Nat
  BY DEF Ok, Obj
<1>2. t.mem = <<>>
  <2>1. Len(t.mem) = 0
    <3>1. CASE IsPrefetched(t)
      BY <1>1, <3>1, ReadingIs DEF Ok
    <3>2. CASE ~IsPrefetched(t)
      BY <3>2 DEF Ok, Writing
    <3> QED BY <3>1, <3>2
  <2> QED BY <1>1, <2>1
<1> QED BY <1>1, <1>2, EmptyOk

\* Where one with bytes is in the file.
LEMMA WindowIs ==
  ASSUME Fixed, NEW t, Ok(t), t.end # 0
  PROVE  /\ cap # 0 /\ t.streamPos = t.at /\ t.at \in Nat /\ t.pos \in Nat /\ t.end \in Nat
         /\ PositionOf(t) = PosBeg(t) + t.pos /\ PosEnd(t) = PosBeg(t) + t.end
         /\ PosBeg(t) \in Nat
         /\ IsPrefetched(t) => PosBeg(t) = t.at - t.end
         /\ ~IsPrefetched(t) => PosBeg(t) = t.at
<1>1. /\ t.at \in Nat /\ t.pos \in Nat /\ t.end \in Nat /\ cap \in Nat /\ t.streamPos \in Nat
      /\ Settled(t)
  BY DEF Ok, Obj, Fixed
<1>2. cap # 0
  BY <1>1 DEF Settled
<1>3. t.streamPos = t.at
  BY <1>1, <1>2 DEF Settled
<1>4. CASE IsPrefetched(t)
  <2>1. t.end <= t.streamPos
    BY <1>4 DEF Ok, Reading
  <2> QED BY <1>1, <1>2, <1>3, <1>4, <2>1 DEF PositionOf, PosBeg, PosEnd
<1>5. CASE ~IsPrefetched(t)
  BY <1>1, <1>2, <1>3, <1>5 DEF PositionOf, PosBeg, PosEnd
<1> QED BY <1>4, <1>5

\* The stream seeks under an empty window.
LEMMA SeekEmptyIs ==
  ASSUME Fixed, NEW t, Ok(t), t.end = 0, t.pos = 0, NEW p \in Nat
  PROVE  At(t, StreamSeek(t, p), p)
<1> DEFINE u == StreamSeek(t, p)
<1>1. t \in Obj /\ Settled(t) /\ t.mem = <<>> /\ ContentOf(t) = t.file
  BY EmptyIs DEF Ok
<1>2. u = [t EXCEPT !.at = p, !.streamPos = p]
  BY DEF StreamSeek
<1> HIDE DEF u
<1>3. /\ u \in Obj /\ u.file = t.file /\ u.at = p /\ u.streamPos = p
      /\ u.alloc = t.alloc /\ u.mem = t.mem /\ u.pos = t.pos /\ u.end = t.end
      /\ u.dirty = t.dirty /\ u.prefetched = t.prefetched
  BY <1>1, <1>2 DEF Obj
<1>4. Settled(u)
  BY <1>1, <1>3 DEF Settled
<1>5. u.mem = <<>> /\ u.pos = 0 /\ u.end = 0
  BY <1>1, <1>3
<1>6. Ok(u) /\ ContentOf(u) = u.file /\ PositionOf(u) = u.at
  BY <1>3, <1>4, <1>5, EmptyOk
<1> QED BY <1>1, <1>3, <1>6 DEF At, u

\* seek(pos), out of the window or to where it is.
LEMMA SeekToIs ==
  ASSUME Fixed, NEW t, Ok(t), NEW p \in Nat,
         \/ t.end = 0
         \/ ~(PosBeg(t) <= p /\ p <= PosEnd(t))
         \/ ~IsPrefetched(t) /\ p = PositionOf(t)
  PROVE  At(t, SeekTo(t, p), p)
<1>1. CASE t.end # 0 /\ PosBeg(t) <= p /\ p <= PosEnd(t)
  <2>1. ~IsPrefetched(t) /\ p = PositionOf(t)
    BY <1>1
  <2>2. t.streamPos = t.at /\ PositionOf(t) = t.at + t.pos /\ t.at \in Nat /\ t.pos \in Nat
    BY <1>1, <2>1, WindowIs
  <2>3. p - t.streamPos = t.pos
    BY <2>1, <2>2
  <2>4. SeekTo(t, p) = [t EXCEPT !.pos = t.pos]
    BY <1>1, <2>3 DEF SeekTo
  <2>5. t \in Obj
    BY DEF Ok
  <2>6. SeekTo(t, p) = t
    BY <2>4, <2>5 DEF Obj
  <2> QED BY <2>1, <2>6 DEF At
<1>2. CASE ~(t.end # 0 /\ PosBeg(t) <= p /\ p <= PosEnd(t))
  BY <1>2, LeaveIs DEF SeekTo, At
<1> QED BY <1>1, <1>2

\* seek(offset, 1), out of the window or in one that was read.
LEMMA SeekRelativeIs ==
  ASSUME Fixed, NEW t, Ok(t), NEW off \in Int, PositionOf(t) + off \in Nat,
         IF t.end = 0 THEN t.pos = 0
         ELSE IF IsPrefetched(t)
         THEN \/ t.pos = t.end
              \/ PosBeg(t) <= PositionOf(t) + off /\ PositionOf(t) + off <= PosEnd(t)
         ELSE \/ off = 0
              \/ ~(PosBeg(t) <= PositionOf(t) + off /\ PositionOf(t) + off <= PosEnd(t))
  PROVE  At(t, SeekRelative(t, off), PositionOf(t) + off)
<1> DEFINE cur == PosBeg(t) + t.pos + off
           inv == InvalidateBuffer(t)
           u == SeekRelative(t, off)
           p == PositionOf(t) + off
<1>1. CASE t.end = 0
  <2>1. t.pos = 0 /\ PositionOf(t) = t.at
    BY <1>1, EmptyIs
  <2>2. u = StreamSeek(t, t.at + off)
    BY <1>1 DEF SeekRelative
  <2> QED BY <1>1, <2>1, <2>2, SeekEmptyIs
<1>2. CASE t.end # 0
  <2>1. /\ t.at \in Nat /\ t.pos \in Nat /\ t.end \in Nat /\ PosBeg(t) \in Nat
        /\ PositionOf(t) = PosBeg(t) + t.pos /\ PosEnd(t) = PosBeg(t) + t.end
        /\ (IsPrefetched(t) => PosBeg(t) = t.at - t.end)
    BY <1>2, WindowIs
  <2>2. cur = p
    BY <2>1
  <2>3. u = IF PosBeg(t) <= cur /\ cur <= PosEnd(t) THEN [t EXCEPT !.pos = @ + off]
            ELSE Leave(t, inv.at + off)
    BY <1>2 DEF SeekRelative
  <2>4. t \in Obj /\ Settled(t)
    BY DEF Ok
  <2> HIDE DEF cur, inv, u
  <2>5. CASE PosBeg(t) <= cur /\ cur <= PosEnd(t) /\ IsPrefetched(t)
    <3> DEFINE x == t.pos + off
    <3>1. x \in Nat /\ x <= t.end /\ (t.at - t.end) + x = p
      <4>1. /\ t.pos \in Nat /\ t.end \in Nat /\ PosBeg(t) \in Nat /\ PosBeg(t) <= PosBeg(t) + t.pos + off
            /\ PosBeg(t) + t.pos + off <= PosBeg(t) + t.end /\ PosBeg(t) = t.at - t.end
            /\ PositionOf(t) = PosBeg(t) + t.pos
        BY <2>1, <2>5 DEF cur
      <4> QED BY <4>1
    <3>2. u = [t EXCEPT !.pos = x]
      BY <2>3, <2>4, <2>5
    <3> HIDE DEF x, p
    <3>3. /\ u \in Obj /\ u.file = t.file /\ u.at = t.at /\ u.streamPos = t.streamPos
          /\ u.alloc = t.alloc /\ u.mem = t.mem /\ u.pos = x /\ u.end = t.end
          /\ u.dirty = t.dirty /\ u.prefetched = t.prefetched
      <4>1. t \in Obj /\ x \in Nat
        BY <2>4, <3>1
      <4> QED BY <3>2, <4>1 DEF Obj
    <3>4. Reading(t) /\ t.alloc
      BY <1>2, <2>4, <2>5 DEF Ok, Settled
    <3>5. Settled(u) /\ Reading(u) /\ IsPrefetched(u) /\ ReadAt(u) = p
      BY <2>4, <2>5, <3>1, <3>3, <3>4 DEF Settled, Reading, IsPrefetched, ReadAt
    <3>6. Ok(u) /\ ContentOf(u) = t.file /\ PositionOf(u) = p
      BY <3>3, <3>5, ReadingOk
    <3>7. ContentOf(t) = t.file
      BY <2>4, <2>5, <3>4, ReadingOk
    <3> QED BY <3>6, <3>7 DEF At, u, p
  <2>6. CASE PosBeg(t) <= cur /\ cur <= PosEnd(t) /\ ~IsPrefetched(t)
    <3>1. off = 0
      BY <1>2, <2>2, <2>6
    <3>2. u = [t EXCEPT !.pos = t.pos + off] /\ t.pos + off = t.pos
      BY <2>1, <2>3, <2>4, <2>6, <3>1
    <3>3. u = t
      BY <2>4, <3>2 DEF Obj
    <3>4. p = PositionOf(t)
      BY <2>1, <3>1
    <3> QED BY <3>3, <3>4 DEF At, u
  <2>7. CASE ~(PosBeg(t) <= cur /\ cur <= PosEnd(t))
    <3>1. inv.at = IF IsPrefetched(t) THEN t.at ELSE PositionOf(t)
      BY InvalidateIs DEF inv
    <3>2. inv.at = PositionOf(t)
      <4>1. CASE IsPrefetched(t)
        <5>1. t.pos = t.end
          BY <1>2, <2>2, <2>7, <4>1
        <5> QED BY <2>1, <3>1, <4>1, <5>1
      <4> QED BY <3>1, <4>1
    <3>3. u = Leave(t, p)
      BY <2>3, <2>7, <3>2
    <3> QED BY <3>3, LeaveIs DEF At, u
  <2> QED BY <2>5, <2>6, <2>7
<1> QED BY <1>1, <1>2

\* seek(offset, 2).
LEMMA SeekFromEndIs ==
  ASSUME Fixed, NEW t, Ok(t), NEW off \in Int, Len(t.file) + off \in Nat,
         \/ t.end = 0 /\ t.pos = 0
         \/ t.end # 0 /\ ~(PosBeg(t) <= Len(t.file) + off /\ Len(t.file) + off <= PosEnd(t))
         \/ t.end # 0 /\ ~IsPrefetched(t) /\ Len(t.file) + off = PositionOf(t)
  PROVE  At(t, SeekFromEnd(t, off), Len(t.file) + off)
<1>1. CASE t.end = 0
  BY <1>1, SeekEmptyIs DEF SeekFromEnd
<1>2. CASE t.end # 0
  BY <1>2, SeekToIs DEF SeekFromEnd
<1> QED BY <1>1, <1>2

\* tell, with m_pos in the window.
LEMMA TellIs ==
  ASSUME Fixed, NEW t, Ok(t), t.pos <= t.end
  PROVE  TellOf(t) = PositionOf(t)
<1>1. CASE t.end = 0
  <2>1. t.pos = 0
    <3>1. t.pos \in Nat
      BY DEF Ok, Obj
    <3> QED BY <1>1, <3>1
  <2> QED BY <1>1, <2>1, EmptyIs DEF TellOf
<1>2. CASE t.end # 0
  BY <1>2, WindowIs DEF TellOf
<1> QED BY <1>1, <1>2

\* size, with m_pos in the window and at no offset beyond the end.
LEMMA SizeIs ==
  ASSUME Fixed, NEW t, Ok(t), t.pos <= t.end, PositionOf(t) <= Len(ContentOf(t))
  PROVE  SizeOf(t) = Len(ContentOf(t))
<1>1. /\ t \in Obj /\ Settled(t) /\ t.pos \in Nat /\ t.end \in Nat /\ t.at \in Nat
      /\ t.file \in Seq(Nat) /\ t.mem \in Seq(Nat) /\ Len(t.file) \in Nat
  BY DEF Ok, Obj
<1>2. CASE t.end = 0
  <2>1. t.pos = 0
    BY <1>1, <1>2
  <2> QED BY <1>2, <2>1, EmptyIs DEF SizeOf
<1>3. CASE t.end # 0 /\ IsPrefetched(t)
  <2>1. ContentOf(t) = t.file
    BY <1>1, <1>3, ReadingIs DEF Ok
  <2> QED BY <1>3, <2>1 DEF SizeOf
<1>4. CASE t.end # 0 /\ ~IsPrefetched(t)
  <2> DEFINE c == Overlay(t.file, t.at, t.mem)
  <2>1. Writing(t)
    BY <1>4 DEF Ok
  <2>2. ContentOf(t) = c /\ PositionOf(t) = t.at + t.pos /\ Len(t.mem) = t.pos /\ t.streamPos = t.at
    BY <1>1, <1>4, <2>1, WindowIs, WritingIs DEF Writing
  <2>3. Len(c) = IF t.mem = <<>> \/ t.at + Len(t.mem) <= Len(t.file) THEN Len(t.file)
                 ELSE t.at + Len(t.mem)
    <3>1. t.file \in Seq(Nat) /\ t.at \in Nat /\ t.mem \in Seq(Nat)
      BY <1>1
    <3>2. IsPut(c, t.file, t.at, t.mem, Zero)
      BY <3>1, OverlayOK
    <3> HIDE DEF c
    <3> QED BY <3>2 DEF IsPut
  <2>4. SizeOf(t) = Greatest(t.at + t.pos, Len(t.file))
    BY <1>4, <2>2 DEF SizeOf
  <2> HIDE DEF c
  <2>5. Len(c) = IF t.at + t.pos <= Len(t.file) THEN Len(t.file) ELSE t.at + t.pos
    <3>1. CASE t.mem = <<>>
      <4>1. Len(c) = Len(t.file) /\ t.at + t.pos <= Len(t.file)
        BY <2>2, <2>3, <3>1
      <4> QED BY <4>1
    <3>2. CASE t.mem # <<>>
      BY <2>2, <2>3, <3>2
    <3> QED BY <3>1, <3>2
  <2>6. Len(c) = Greatest(t.at + t.pos, Len(t.file))
    <3>1. t.at + t.pos \in Nat
      BY <1>1
    <3> QED BY <1>1, <2>5, <3>1 DEF Greatest
  <2> QED BY <2>2, <2>4, <2>6
<1> QED BY <1>2, <1>3, <1>4

\* The byte that eof read goes back into the window.
LEMMA PushedBackIs ==
  ASSUME Fixed, NEW t, Ok(t), IsPrefetched(t), t.pos = 1
  PROVE  At(t, [t EXCEPT !.pos = 0], PositionOf(t) - 1)
<1> DEFINE u == [t EXCEPT !.pos = 0]
<1>1. t \in Obj /\ Settled(t) /\ Reading(t) /\ t.at \in Nat /\ t.end \in Nat
  BY DEF Ok, Obj
<1>2. /\ u \in Obj /\ u.file = t.file /\ u.at = t.at /\ u.streamPos = t.streamPos
      /\ u.alloc = t.alloc /\ u.mem = t.mem /\ u.pos = 0 /\ u.end = t.end
      /\ u.dirty = t.dirty /\ u.prefetched = t.prefetched
  BY <1>1, 0 \in Nat DEF Obj
<1> HIDE DEF u
<1>3. Settled(u)
  BY <1>1, <1>2 DEF Settled
<1>4. Reading(u) /\ IsPrefetched(u)
  BY <1>1, <1>2 DEF Reading, IsPrefetched
<1>5. Ok(u) /\ ContentOf(u) = t.file /\ PositionOf(u) = ReadAt(u)
  BY <1>2, <1>3, <1>4, ReadingOk
<1>6. ContentOf(t) = t.file /\ PositionOf(t) = ReadAt(t)
  BY <1>1, ReadingOk
<1>7. ReadAt(u) = ReadAt(t) - 1
  <2>1. ((t.at - t.end) + 1) - 1 = (t.at - t.end) + 0
    BY <1>1
  <2> QED BY <1>2, <2>1 DEF ReadAt
<1> QED BY <1>5, <1>6, <1>7 DEF At, u

\* The destructors write what waits.
LEMMA ClosedIs ==
  ASSUME Fixed, NEW t, Ok(t)
  PROVE  LET u == [FlushBuffer(t) EXCEPT !.mem = <<>>, !.pos = 0, !.end = 0]
         IN  Ok(u) /\ ContentOf(u) = ContentOf(t)
<1> DEFINE f == FlushBuffer(t)
           u == [f EXCEPT !.mem = <<>>, !.pos = 0, !.end = 0]
<1>1. f \in Obj /\ Settled(f) /\ f.file = ContentOf(t)
  <2>1. CASE IsPrefetched(t) /\ ~t.dirty
    <3>1. f = t /\ t \in Obj /\ Settled(t)
      BY <2>1, FlushIs DEF Ok
    <3>2. ContentOf(t) = t.file
      BY <2>1, <3>1, ReadingIs DEF Ok
    <3> HIDE DEF f
    <3> QED BY <3>1, <3>2
  <2>2. CASE ~(IsPrefetched(t) /\ ~t.dirty)
    <3>1. Emptied(t, f)
      BY <2>2, FlushIs
    <3> HIDE DEF f
    <3>2. Settled(f) /\ f.file = ContentOf(t)
      BY <2>2, <3>1, EmptiedOk
    <3> QED BY <3>1, <3>2 DEF Emptied
  <2> QED BY <2>1, <2>2
<1> HIDE DEF f
<1>2. /\ u \in Obj /\ u.file = f.file /\ u.at = f.at /\ u.streamPos = f.streamPos
      /\ u.alloc = f.alloc /\ u.mem = <<>> /\ u.pos = 0 /\ u.end = 0
      /\ u.dirty = f.dirty /\ u.prefetched = f.prefetched
  <2>1. f \in Obj /\ <<>> \in Seq(Nat) /\ 0 \in Nat
    BY <1>1
  <2> QED BY <2>1 DEF Obj
<1> HIDE DEF u
<1>3. Settled(u)
  BY <1>1, <1>2 DEF Settled
<1>4. Ok(u) /\ ContentOf(u) = u.file
  BY <1>2, <1>3, EmptyOk
<1> QED BY <1>1, <1>2, <1>4 DEF u, f

\* What the client sees has its type.
LEMMA SeenIs ==
  ASSUME Fixed, NEW t, Ok(t)
  PROVE  ContentOf(t) \in Seq(Nat) /\ PositionOf(t) \in Nat /\ Len(ContentOf(t)) \in Nat
<1>1. /\ t \in Obj /\ Settled(t) /\ t.file \in Seq(Nat) /\ t.mem \in Seq(Nat)
      /\ t.at \in Nat /\ t.pos \in Nat /\ t.end \in Nat
  BY DEF Ok, Obj
<1>2. ContentOf(t) \in Seq(Nat) /\ PositionOf(t) \in Nat
  <2>1. CASE IsPrefetched(t)
    <3>1. /\ ContentOf(t) = t.file /\ PositionOf(t) = (t.at - t.end) + t.pos /\ t.end <= t.at
      BY <1>1, <2>1, ReadingIs DEF Ok
    <3> QED BY <1>1, <3>1
  <2>2. CASE ~IsPrefetched(t)
    <3>1. /\ ContentOf(t) = Overlay(t.file, t.at, t.mem) /\ PositionOf(t) = t.at + t.pos
      BY <1>1, <2>2, WritingIs DEF Ok
    <3>2. Overlay(t.file, t.at, t.mem) \in Seq(Nat)
      BY <1>1, OverlayOK DEF IsPut
    <3> QED BY <1>1, <3>1, <3>2
  <2> QED BY <2>1, <2>2
<1> QED BY <1>2

(***************************************************************************)
(* The steps.                                                              *)
(***************************************************************************)

\* The class and the capacity have their types.
LEMMA FixedIs ==
  ASSUME IInv PROVE Fixed /\ Ok(s)
BY KindsAssumption, NumbersAssumption DEF IInv, Fixed

\* They do not change, and what the client sees is a function of s.
LEMMA NowIs == Content = ContentOf(s) /\ Position = PositionOf(s)
BY DEF Content, ContentOf, Position, PositionOf

\* So it is after a step that leaves class and capacity alone.
LEMMA ThenIs ==
  ASSUME kind' = kind, cap' = cap
  PROVE  /\ Content' = ContentOf(s') /\ Position' = PositionOf(s')
         /\ Ok(s') => Ok(s)'
<1>1. Content' = ContentOf(s')
  BY DEF Content, ContentOf, Waiting, IsPrefetched, Written
<1>2. Position' = PositionOf(s')
  BY DEF Position, PositionOf, PosBeg, IsPrefetched
<1>3. Ok(s') => Ok(s)'
  BY DEF Ok, Obj, Settled, IsPrefetched, Reading, Writing
<1> QED BY <1>1, <1>2, <1>3

\* A step of which the object comes out Ok, and the class and capacity as they were.
LEMMA KeepsIInv ==
  ASSUME IInv, kind' = kind, cap' = cap, written' \in 0..MaxWritten, closed' \in BOOLEAN, Ok(s')
  PROVE  IInv'
BY ThenIs DEF IInv

\* A read takes the bytes at the position, or finds the end.
LEMMA ReadStep ==
  ASSUME Careful, IInv, NEW len \in Lengths, Read(len)
  PROVE  IInv' /\ File!Next
<1>1. Fixed /\ Ok(s) /\ len \in Nat /\ len > 0
  BY FixedIs, NumbersAssumption
<1>2. PICK g \in Get(s, len) :
        /\ s' = g.s
        /\ Called("read", len, IF g.exc = "none" THEN g.got ELSE <<>>, 0, g.exc)
  BY DEF Read
<1>3. HasRead(s, len, g)
  <2>1. kind # "output" /\ (kind = "both" /\ IsPrefetched(s) => s.pos = s.end \/ s.pos + len <= s.end)
    BY DEF Read, MayRead
  <2> QED BY <1>1, <2>1, GetIs
<1>4. Ok(s') /\ kind' = kind /\ cap' = cap
  BY <1>2, <1>3 DEF HasRead, Read
<1>5. IInv'
  <2>1. written' \in 0..MaxWritten /\ closed' \in BOOLEAN
    BY DEF IInv, Read
  <2> QED BY <1>4, <2>1, KeepsIInv
<1> DEFINE c == Content
           p == Position
           p1 == Position'
<1>6. /\ Content' = c /\ c \in Seq(Nat) /\ p \in Nat /\ Len(c) \in Nat
      /\ \/ /\ g.exc = "none"
            /\ \E k \in 1..len : /\ g.got = SubSeq(c, p + 1, p + k)
                                 /\ p1 = p + k /\ p1 <= Len(c)
                                 /\ k < len => p1 = Len(c)
         \/ /\ g.exc = "eof"
            /\ Len(c) - p < len
            /\ p1 = p \/ (p < Len(c) /\ p1 = Len(c))
  BY <1>1, <1>2, <1>3, <1>4, NowIs, ThenIs, SeenIs DEF HasRead
<1>7. CASE g.exc = "none"
  <2>1. /\ call'.op = "read" /\ call'.len = len /\ call'.bytes = g.got /\ call'.exc = "none"
    BY <1>2, <1>7 DEF Called
  <2>2. PICK k \in 1..len : /\ g.got = SubSeq(c, p + 1, p + k)
                            /\ p1 = p + k /\ p1 <= Len(c)
                            /\ k < len => p1 = Len(c)
    BY <1>6, <1>7
  <2> HIDE DEF c, p, p1
  <2>3. k \in 0..len /\ k <= Len(c) - p /\ (k < len => k = Len(c) - p)
    BY <1>1, <1>6, <2>2
  <2>4. File!Read
    BY <1>6, <2>1, <2>2, <2>3 DEF File!Read, File!Left, c, p, p1
  <2> QED BY <1>5, <2>4 DEF File!Next
<1>8. CASE g.exc = "eof"
  <2>1. call'.op = "read" /\ call'.len = len /\ call'.exc = "eof"
    BY <1>2, <1>8 DEF Called
  <2>2. Len(c) - p < len /\ (p1 = p \/ (p < Len(c) /\ p1 = Len(c)))
    BY <1>6, <1>8
  <2> HIDE DEF c, p, p1
  <2>3. p < Len(c) => Len(c) - p > 0
    BY <1>6
  <2>4. File!ReadEnd
    BY <1>6, <2>1, <2>2, <2>3 DEF File!ReadEnd, File!Left, c, p, p1
  <2> QED BY <1>5, <2>4 DEF File!Next
<1> QED BY <1>6, <1>7, <1>8

\* A write puts its bytes at the position.
LEMMA WriteStep ==
  ASSUME Careful, IInv, NEW len \in Lengths, Write(len)
  PROVE  IInv' /\ File!Next
<1> DEFINE b == Data(len)
<1>1. Fixed /\ Ok(s) /\ len \in Nat /\ len > 0 /\ written \in Nat /\ FileSize \in Nat
      /\ MaxWritten \in Nat
  BY FixedIs, NumbersAssumption DEF IInv
<1>2. b \in Seq(Nat) /\ b # <<>>
  <2>1. \A i \in 1..len : FileSize + written + i \in Nat
    BY <1>1
  <2>2. b \in Seq(Nat) /\ Len(b) = len
    BY <1>1, <2>1 DEF Data
  <2> HIDE DEF b
  <2> QED BY <1>1, <2>2
<1>3. kind # "input" /\ (kind = "both" /\ IsPrefetched(s) => s.end = 0) /\ s' = PutBytes(s, b)
      /\ kind' = kind /\ cap' = cap
  BY DEF Write, MayWrite
<1> HIDE DEF b
<1>4. Ok(s') /\ HasPut(s, b, s')
  BY <1>1, <1>2, <1>3, PutIs
<1>5. IInv'
  <2>1. written' \in 0..MaxWritten /\ closed' \in BOOLEAN
    BY <1>1 DEF IInv, Write
  <2> QED BY <1>3, <1>4, <2>1, KeepsIInv
<1>6. Content' = Overlay(Content, Position, b) /\ Position' = Position + Len(b)
  BY <1>3, <1>4, NowIs, ThenIs DEF HasPut
<1>7. call'.op = "write" /\ call'.bytes = b
  BY DEF Write, Called, b
<1>8. File!Overlay(Content, Position, b) = Overlay(Content, Position, b)
  BY DEF File!Overlay, File!Put, File!Zero, Overlay, Put, Zero
<1> QED BY <1>5, <1>6, <1>7, <1>8 DEF File!Next, File!Write

\* A seek, of any kind.
LEMMA Sought ==
  ASSUME IInv, NEW p, At(s, s', p), kind' = kind, cap' = cap, written' = written,
         closed' = closed, call'.op = "seek", call'.at = p
  PROVE  IInv' /\ File!Next
<1>1. Ok(s') /\ ContentOf(s') = ContentOf(s) /\ PositionOf(s') = p
  BY DEF At
<1>2. IInv'
  BY <1>1, KeepsIInv DEF IInv
<1>3. Content' = Content /\ Position' = p
  BY <1>1, NowIs, ThenIs
<1> QED BY <1>2, <1>3 DEF File!Next, File!Seek

\* The seeks move the position and nothing else.
LEMMA SeekStep ==
  ASSUME Careful, IInv, NEW p \in 0..MaxSize, Seek(p)
  PROVE  IInv' /\ File!Next
<1>1. Fixed /\ Ok(s) /\ p \in Nat
  BY FixedIs, NumbersAssumption
<1>2. /\ s' = SeekTo(s, p) /\ kind' = kind /\ cap' = cap /\ written' = written
      /\ closed' = closed /\ call'.op = "seek" /\ call'.at = p /\ MaySeekTo(p)
  BY DEF Seek, Called
<1>3. \/ s.end = 0
      \/ ~(PosBeg(s) <= p /\ p <= PosEnd(s))
      \/ ~IsPrefetched(s) /\ p = PositionOf(s)
  <2>1. s.end # 0 => PosBeg(s) \in Int /\ PosEnd(s) \in Int
    BY <1>1, WindowIs
  <2> QED BY <1>1, <1>2, <2>1, NowIs DEF MaySeekTo
<1>4. At(s, s', p)
  BY <1>1, <1>2, <1>3, SeekToIs
<1> QED BY <1>2, <1>4, Sought

\* seek from the position, and skip.
LEMMA SkipStep ==
  ASSUME Careful, IInv, NEW off \in Offsets, Skip(off)
  PROVE  IInv' /\ File!Next
<1> DEFINE p == PositionOf(s) + off
<1>1. Fixed /\ Ok(s) /\ off \in Int /\ MaxSize \in Nat
  BY FixedIs, NumbersAssumption
<1>2. /\ s' = SeekRelative(s, off) /\ kind' = kind /\ cap' = cap /\ written' = written
      /\ closed' = closed /\ call'.op = "seek" /\ call'.at = p /\ MaySeekRelative(off)
      /\ p \in 0..MaxSize
  BY NowIs DEF Skip, Called
<1>3. p \in Nat
  BY <1>1, <1>2
<1>4. IF s.end = 0 THEN s.pos = 0
      ELSE IF IsPrefetched(s)
      THEN s.pos = s.end \/ (PosBeg(s) <= p /\ p <= PosEnd(s))
      ELSE off = 0 \/ ~(PosBeg(s) <= p /\ p <= PosEnd(s))
  <2>1. s.end # 0 => PosBeg(s) \in Int /\ PosEnd(s) \in Int
    BY <1>1, WindowIs
  <2> QED BY <1>1, <1>2, <1>3, <2>1, NowIs DEF MaySeekRelative
<1>5. At(s, s', p)
  BY <1>1, <1>2, <1>3, <1>4, SeekRelativeIs
<1> QED BY <1>2, <1>5, Sought

\* seek from the end.
LEMMA SeekEndStep ==
  ASSUME Careful, IInv, NEW off \in Offsets, SeekEnd(off)
  PROVE  IInv' /\ File!Next
<1> DEFINE p == Len(s.file) + off
<1>1. Fixed /\ Ok(s) /\ off \in Int /\ MaxSize \in Nat
  BY FixedIs, NumbersAssumption
<1>2. /\ s' = SeekFromEnd(s, off) /\ kind' = kind /\ cap' = cap /\ written' = written
      /\ closed' = closed /\ call'.op = "seek" /\ call'.at = Len(Content) + off
      /\ Len(Content) + off \in 0..MaxSize /\ MaySeekFromEnd(off)
  BY DEF SeekEnd, Called
<1>3. Len(Content) = Len(s.file) /\ (IF s.end = 0 THEN s.pos = 0 ELSE MaySeekTo(p))
  BY <1>2 DEF MaySeekFromEnd
<1>4. p \in Nat /\ call'.at = p
  BY <1>1, <1>2, <1>3
<1>5. \/ s.end = 0 /\ s.pos = 0
      \/ s.end # 0 /\ ~(PosBeg(s) <= p /\ p <= PosEnd(s))
      \/ s.end # 0 /\ ~IsPrefetched(s) /\ p = PositionOf(s)
  <2>1. s.end # 0 => PosBeg(s) \in Int /\ PosEnd(s) \in Int
    BY <1>1, WindowIs
  <2> QED BY <1>3, <1>4, <2>1, NowIs DEF MaySeekTo
<1>6. At(s, s', p)
  BY <1>1, <1>2, <1>4, <1>5, SeekFromEndIs
<1> QED BY <1>2, <1>4, <1>6, Sought

\* tell and size tell the truth and change nothing.
LEMMA AskStep ==
  ASSUME Careful, IInv, Tell \/ Size
  PROVE  IInv' /\ File!Next
<1>1. Fixed /\ Ok(s)
  BY FixedIs
<1>2. s' = s /\ kind' = kind /\ cap' = cap /\ written' = written /\ closed' = closed
  BY DEF Tell, Size
<1>3. IInv' /\ Content' = Content /\ Position' = Position
  BY <1>1, <1>2, KeepsIInv, NowIs, ThenIs DEF IInv
<1>4. CASE Tell
  <2>1. call'.op = "tell" /\ call'.at = Position
    BY <1>1, <1>4, TellIs, NowIs DEF Tell, MayAsk, Called
  <2> QED BY <1>3, <2>1 DEF File!Next, File!Tell
<1>5. CASE Size
  <2>1. call'.op = "size" /\ call'.at = Len(Content)
    BY <1>1, <1>5, SizeIs, NowIs DEF Size, MayAskSize, MayAsk, Called
  <2> QED BY <1>3, <2>1 DEF File!Next, File!Size
<1> QED BY <1>4, <1>5

\* So does eof, whose byte is read and pushed back.
LEMMA EofStep ==
  ASSUME Careful, IInv, Eof
  PROVE  IInv' /\ File!Next
<1> DEFINE c == Content
           p == Position
<1>1. /\ Fixed /\ Ok(s) /\ s \in Obj /\ s.pos \in Nat /\ s.end \in Nat /\ s.at \in Nat
      /\ cap \in Nat /\ Len(s.file) \in Nat
  BY FixedIs DEF Ok, Obj, Fixed
<1>2. /\ kind' = kind /\ cap' = cap /\ written' = written /\ closed' = closed /\ kind # "output"
      /\ MayTestEof
  BY DEF Eof
<1>3. c = ContentOf(s) /\ p = PositionOf(s) /\ Len(c) \in Nat /\ p \in Nat
  BY <1>1, NowIs, SeenIs
<1>4. CASE s.pos # s.end
  <2>1. s' = s /\ call'.op = "eof" /\ call'.at = 0
    BY <1>4 DEF Eof, Called
  <2>2. IInv' /\ Content' = c /\ Position' = p
    BY <1>1, <1>2, <2>1, KeepsIInv, NowIs, ThenIs DEF IInv
  <2>3. IsPrefetched(s) /\ s.pos <= s.end
    BY <1>2, <1>4 DEF MayTestEof, MayAsk
  <2>4. /\ c = s.file /\ p = (s.at - s.end) + s.pos /\ s.at <= Len(s.file)
    <3>1. s.end > 0
      BY <1>1, <1>4, <2>3
    <3> QED BY <1>1, <1>3, <2>3, <3>1, ReadingIs DEF Ok
  <2> HIDE DEF c, p
  <2>5. Len(c) - p > 0
    BY <1>1, <1>4, <2>3, <2>4
  <2> QED BY <2>1, <2>2, <2>5 DEF File!Next, File!Eof, File!Left, c, p
<1>5. CASE s.pos = s.end
  <2>1. PICK g \in DoFillAndRead(s, 1) :
          /\ s' = IF g.exc = "none" THEN [g.s EXCEPT !.pos = 0] ELSE g.s
          /\ Called("eof", 0, <<>>, IF g.exc = "none" THEN 0 ELSE 1, "none")
    BY <1>5 DEF Eof
  <2>2. /\ HasRead(s, 1, g)
        /\ g.exc = "none" => g.s.pos = 1 /\ IsPrefetched(g.s)
    <3>1. cap >= 2 /\ ~(s.pos + 1 <= s.end) /\ 1 \in Nat /\ 1 > 0
      BY <1>1, <1>2, <1>5 DEF MayTestEof
    <3> QED BY <1>1, <1>2, <1>5, <2>1, <3>1, DoFillIs
  <2>3. call'.op = "eof" /\ call'.at = IF g.exc = "none" THEN 0 ELSE 1
    BY <2>1 DEF Called
  <2> HIDE DEF c, p
  <2>4. CASE g.exc = "none"
    <3> DEFINE q == PositionOf(g.s)
    <3>1. Ok(g.s) /\ ContentOf(g.s) = c
      BY <1>3, <2>2 DEF HasRead
    <3>2. PICK k \in 1..1 : q = p + k /\ q <= Len(c)
      BY <1>3, <2>2, <2>4 DEF HasRead
    <3> HIDE DEF q
    <3>3. q - 1 = p /\ Len(c) - p > 0
      BY <1>3, <3>2
    <3>4. At(g.s, s', PositionOf(g.s) - 1)
      <4>1. g.s.pos = 1 /\ IsPrefetched(g.s)
        BY <2>2, <2>4
      <4>2. At(g.s, [g.s EXCEPT !.pos = 0], PositionOf(g.s) - 1)
        BY <1>1, <3>1, <4>1, PushedBackIs
      <4> QED BY <2>1, <2>4, <4>2
    <3>5. Ok(s') /\ ContentOf(s') = c /\ PositionOf(s') = p
      BY <3>1, <3>3, <3>4 DEF At, q
    <3>6. IInv' /\ Content' = c /\ Position' = p
      BY <1>2, <3>5, KeepsIInv, ThenIs DEF IInv
    <3> QED BY <2>3, <2>4, <3>3, <3>6 DEF File!Next, File!Eof, File!Left, c, p
  <2>5. CASE g.exc = "eof"
    <3>1. s' = g.s /\ call'.at = 1
      BY <2>1, <2>3, <2>5
    <3>2. /\ Ok(s') /\ ContentOf(s') = c /\ Len(c) - p < 1
          /\ PositionOf(s') = p \/ (p < Len(c) /\ PositionOf(s') = Len(c))
      BY <1>3, <2>2, <2>5, <3>1 DEF HasRead
    <3>3. ~(p < Len(c)) /\ ~(Len(c) - p > 0)
      BY <1>3, <3>2
    <3>4. IInv' /\ Content' = c /\ Position' = p
      BY <1>2, <3>2, <3>3, KeepsIInv, ThenIs DEF IInv
    <3> QED BY <2>3, <3>1, <3>3, <3>4 DEF File!Next, File!Eof, File!Left, c, p
  <2>6. g.exc \in {"none", "eof"}
    BY <2>2 DEF HasRead
  <2> QED BY <2>4, <2>5, <2>6
<1> QED BY <1>4, <1>5

\* A flush shows nothing.
LEMMA FlushStep ==
  ASSUME IInv, Flush
  PROVE  IInv' /\ File!Next
<1>1. Fixed /\ Ok(s)
  BY FixedIs
<1>2. /\ s' = FlushBuffer(s) /\ kind' = kind /\ cap' = cap /\ written' = written
      /\ closed' = closed /\ call'.op = "flush"
  BY DEF Flush, Called
<1>3. Ok(s') /\ ContentOf(s') = ContentOf(s) /\ PositionOf(s') = PositionOf(s)
  BY <1>1, <1>2, FlushOK
<1>4. IInv' /\ Content' = Content /\ Position' = Position
  BY <1>2, <1>3, KeepsIInv, NowIs, ThenIs DEF IInv
<1> QED BY <1>2, <1>4 DEF File!Next, File!Flush

\* A destroyed object has left all bytes in the file.
LEMMA CloseStep ==
  ASSUME IInv, Close
  PROVE  IInv' /\ File!Next
<1>1. Fixed /\ Ok(s)
  BY FixedIs
<1>2. /\ s' = [FlushBuffer(s) EXCEPT !.mem = <<>>, !.pos = 0, !.end = 0]
      /\ kind' = kind /\ cap' = cap /\ written' = written
      /\ closed' = TRUE /\ call'.op = "close"
  BY DEF Close, Called
<1>3. Ok(s') /\ ContentOf(s') = ContentOf(s)
  BY <1>1, <1>2, ClosedIs
<1>4. IInv' /\ Content' = Content
  BY <1>2, <1>3, KeepsIInv, NowIs, ThenIs DEF IInv
<1> QED BY <1>2, <1>4 DEF File!Next, File!Close

(***************************************************************************)
(* The theorems.                                                           *)
(***************************************************************************)

\* A new object has an empty buffer and is at the start of the file.
LEMMA InitOk ==
  ASSUME Init PROVE IInv /\ File!Init
<1> DEFINE f == [i \in 1..FileSize |-> i]
<1>1. Fixed /\ FileSize \in Nat /\ MaxWritten \in Nat
  BY KindsAssumption, NumbersAssumption DEF Init, Fixed
<1>2. f \in Seq(Nat)
  <2>1. \A i \in 1..FileSize : i \in Nat
    BY <1>1
  <2> QED BY <1>1, <2>1
<1> HIDE DEF f
<1>3. s = [file |-> f, at |-> 0, streamPos |-> 0, alloc |-> FALSE, mem |-> <<>>, pos |-> 0,
           end |-> 0, dirty |-> FALSE, prefetched |-> FALSE]
  BY DEF Init, f
<1>4. s \in Obj
  <2>1. <<>> \in Seq(Nat) /\ 0 \in Nat
    OBVIOUS
  <2> QED BY <1>2, <1>3, <2>1 DEF Obj
<1>5. Settled(s)
  BY <1>3 DEF Settled
<1>6. Ok(s) /\ PositionOf(s) = s.at
  BY <1>1, <1>3, <1>4, <1>5, EmptyOk
<1>7. Position = 0
  BY <1>3, <1>6, NowIs
<1>8. 0 \in 0..MaxWritten
  BY <1>1
<1> QED BY <1>6, <1>7, <1>8 DEF Init, IInv, File!Init

\* A step keeps the invariant and is one of the file, or changes nothing.
LEMMA StepOk ==
  ASSUME Careful, IInv, [Next]_vars
  PROVE  IInv' /\ [File!Next]_(File!vars)
<1>1. CASE Next
  <2>1. ASSUME NEW len \in Lengths, Read(len) PROVE IInv' /\ File!Next
    BY <2>1, ReadStep
  <2>2. ASSUME NEW len \in Lengths, Write(len) PROVE IInv' /\ File!Next
    BY <2>2, WriteStep
  <2>3. ASSUME NEW p \in 0..MaxSize, Seek(p) PROVE IInv' /\ File!Next
    BY <2>3, SeekStep
  <2>4. ASSUME NEW off \in Offsets, Skip(off) PROVE IInv' /\ File!Next
    BY <2>4, SkipStep
  <2>5. ASSUME NEW off \in Offsets, SeekEnd(off) PROVE IInv' /\ File!Next
    BY <2>5, SeekEndStep
  <2>6. ASSUME Tell \/ Size PROVE IInv' /\ File!Next
    BY <2>6, AskStep
  <2>7. ASSUME Eof PROVE IInv' /\ File!Next
    BY <2>7, EofStep
  <2>8. ASSUME Flush PROVE IInv' /\ File!Next
    BY <2>8, FlushStep
  <2>9. ASSUME Close PROVE IInv' /\ File!Next
    BY <2>9, CloseStep
  <2> QED BY <1>1, <2>1, <2>2, <2>3, <2>4, <2>5, <2>6, <2>7, <2>8, <2>9 DEF Next
<1>2. CASE UNCHANGED vars
  <2>1. /\ kind' = kind /\ cap' = cap /\ s' = s /\ written' = written /\ closed' = closed
        /\ call' = call
    BY <1>2 DEF vars
  <2>2. IInv' /\ Content' = Content /\ Position' = Position
    BY <2>1, KeepsIInv, NowIs, ThenIs, FixedIs DEF IInv
  <2> QED BY <2>1, <2>2 DEF File!vars
<1> QED BY <1>1, <1>2

\* In every state of a careful client the buffer is empty, or holds a piece of the
\* file, or bytes that go in front of it.
THEOREM Invariance ==
  ASSUME Careful PROVE Spec => []IInv
<1>1. Init => IInv
  BY InitOk
<1>2. IInv /\ [Next]_vars => IInv'
  BY StepOk
<1> QED BY <1>1, <1>2, PTL DEF Spec

\* The members have their types, and m_pos is in the memory.
THEOREM TypeCorrect ==
  ASSUME Careful PROVE Spec => []TypeOK
<1>1. IInv => TypeOK
  <2> SUFFICES ASSUME IInv PROVE TypeOK
    OBVIOUS
  <2>1. /\ Fixed /\ Ok(s) /\ s \in Obj /\ Settled(s)
        /\ s.pos \in Nat /\ s.end \in Nat /\ cap \in Nat /\ s.prefetched \in BOOLEAN
    BY FixedIs DEF Ok, Obj, Fixed
  <2>2. CASE IsPrefetched(s)
    <3>1. Reading(s) /\ Len(s.mem) = s.end
      BY <2>1, <2>2, ReadingIs DEF Ok
    <3>2. s.pos <= s.end /\ s.end <= cap
      BY <3>1 DEF Reading
    <3>3. s.end \in 0..cap /\ s.pos \in 0..cap /\ s.pos \in 0..s.end
      BY <2>1, <3>2
    <3> QED BY <2>1, <3>1, <3>2, <3>3 DEF TypeOK, IInv, Obj
  <2>3. CASE ~IsPrefetched(s)
    <3>1. /\ Len(s.mem) = s.pos /\ s.pos <= cap /\ s.end \in {0, cap}
          /\ kind = "output" => s.pos <= s.end
      <4>1. Writing(s)
        BY <2>1, <2>3 DEF Ok
      <4> QED BY <4>1 DEF Writing
    <3>2. kind = "output" \/ (kind = "both" /\ ~s.prefetched)
      BY <2>1, <2>3 DEF Fixed, IsPrefetched
    <3>3. s.end \in 0..cap /\ s.pos \in 0..cap /\ (kind = "output" => s.pos \in 0..s.end)
      BY <2>1, <3>1
    <3>4. s.pos \in 0..(IF kind = "both" /\ ~s.prefetched THEN cap ELSE s.end)
      BY <3>2, <3>3
    <3> QED BY <2>1, <3>1, <3>3, <3>4 DEF TypeOK, IInv, Obj
  <2> QED BY <2>2, <2>3
<1> QED BY <1>1, Invariance, PTL

\* m_stream_pos is the position of the stream, and a window that was read holds the
\* bytes of the file at the offsets it stands for.
THEOREM WindowIsFileAlways ==
  ASSUME Careful PROVE Spec => []WindowIsFile
<1>1. IInv => WindowIsFile
  <2> SUFFICES ASSUME IInv PROVE WindowIsFile
    OBVIOUS
  <2>1. Fixed /\ Ok(s) /\ s \in Obj /\ Settled(s)
    BY FixedIs DEF Ok
  <2>2. ASSUME IsPrefetched(s), s.end > 0
        PROVE  SubSeq(s.mem, 1, s.end) = SubSeq(s.file, PosBeg(s) + 1, PosEnd(s))
    <3>1. s.end # 0 /\ s.mem \in Seq(Nat)
      BY <2>1, <2>2 DEF Obj
    <3>2. /\ Len(s.mem) = s.end
          /\ s.mem = SubSeq(s.file, (s.at - s.end) + 1, (s.at - s.end) + s.end)
      BY <2>1, <2>2, ReadingIs DEF Ok
    <3>3. PosBeg(s) = s.at - s.end /\ PosEnd(s) = (s.at - s.end) + s.end
      BY <2>1, <2>2, <3>1, WindowIs
    <3>4. SubSeq(s.mem, 1, Len(s.mem)) = s.mem
      BY <3>1
    <3> QED BY <3>2, <3>3, <3>4
  <2> QED BY <2>1, <2>2 DEF WindowIsFile, Settled
<1> QED BY <1>1, Invariance, PTL

\* The buffered file is a file: every step of the object, called with care, is one of
\* SeekableFile.
THEOREM Refinement ==
  ASSUME Careful PROVE Spec => IsFile
<1>1. Init => File!Init
  BY InitOk
<1>2. IInv /\ [Next]_vars => [File!Next]_(File!vars)
  BY StepOk
<1> QED BY <1>1, <1>2, Invariance, PTL DEF Spec, IsFile, File!Spec
===============================================================================
