------------------------------ MODULE MemIOProofs ------------------------------
(***************************************************************************)
(* The memory streams own what they allocate, and implement GrowingFile,   *)
(* for all sizes, lengths and bounds and any allocation that fails.        *)
(***************************************************************************)
EXTENDS MemIO, SequenceTheorems, TLAPS

(***************************************************************************)
(* Facts about bytes put into memory.                                      *)
(***************************************************************************)

\* Bytes stored are there, and what is before and behind them is as it was.
LEMMA StoreOK ==
  ASSUME NEW m \in Seq(Int), NEW p \in 0..Len(m), NEW b \in Seq(Int)
  PROVE  LET s == Store(m, p, b)
         IN  /\ s \in Seq(Int)
             /\ Len(m) <= Len(s) /\ p + Len(b) <= Len(s)
             /\ p + Len(b) <= Len(m) => Len(s) = Len(m)
             /\ \A i \in 1..Len(m) : (i <= p \/ i > p + Len(b)) => s[i] = m[i]
             /\ \A i \in 1..Len(b) : s[p + i] = b[i]
<1> DEFINE end == p + Len(b)
           new == IF end > Len(m) THEN end ELSE Len(m)
           g == [i \in 1..new |-> IF i > p /\ i <= end THEN b[i - p]
                                  ELSE IF i <= Len(m) THEN m[i] ELSE Junk]
           s == Store(m, p, b)
<1>1. /\ new \in Nat /\ end \in Nat /\ Len(m) \in Nat /\ Len(b) \in Nat /\ end <= new
      /\ Len(m) <= new /\ (end <= Len(m) => new = Len(m)) /\ end = p + Len(b) /\ p \in Nat
      /\ p <= Len(m)
  OBVIOUS
<1>2. \A i \in 1..new : g[i] \in Int
  <2> SUFFICES ASSUME NEW i \in 1..new PROVE g[i] \in Int
    OBVIOUS
  <2>1. CASE i > p /\ i <= end
    <3>1. i - p \in 1..Len(b) /\ g[i] = b[i - p]
      BY <2>1
    <3> QED BY <3>1
  <2>2. CASE ~(i > p /\ i <= end) /\ i <= Len(m)
    <3>1. i \in 1..Len(m) /\ g[i] = m[i]
      BY <2>2
    <3> QED BY <3>1
  <2>3. CASE ~(i > p /\ i <= end) /\ ~(i <= Len(m))
    BY <2>3 DEF Junk
  <2> QED BY <2>1, <2>2, <2>3
<1>3. \A i \in 1..Len(m) : (i <= p \/ i > end) => g[i] = m[i]
  <2> SUFFICES ASSUME NEW i \in 1..Len(m), i <= p \/ i > end PROVE g[i] = m[i]
    OBVIOUS
  <2>1. i \in 1..new /\ ~(i > p /\ i <= end) /\ i <= Len(m)
    BY <1>1
  <2> QED BY <2>1
<1>4. \A i \in 1..Len(b) : g[p + i] = b[i]
  <2> SUFFICES ASSUME NEW i \in 1..Len(b) PROVE g[p + i] = b[i]
    OBVIOUS
  <2>1. p + i \in 1..new /\ p + i > p /\ p + i <= end /\ (p + i) - p = i
    BY <1>1
  <2> QED BY <2>1
<1>5. CASE b = <<>>
  <2>1. s = m /\ Len(b) = 0
    BY <1>5 DEF Store, Put
  <2> HIDE DEF s
  <2> QED BY <1>1, <2>1 DEF s
<1>6. CASE b # <<>>
  <2>1. s = g
    BY <1>6 DEF Store, Put
  <2> HIDE DEF new, end
  <2>2. g \in [1..new -> Int]
    BY <1>2
  <2>3. g \in Seq(Int) /\ Len(g) = new
    BY <1>1, <2>2
  <2> HIDE DEF g, s
  <2> QED BY <1>1, <1>3, <1>4, <2>1, <2>3 DEF s, end
<1> QED BY <1>5, <1>6

\* Memory that grows, or shrinks, keeps what fits.
LEMMA GrownOK ==
  ASSUME NEW m \in Seq(Int), NEW n \in Nat
  PROVE  /\ Grown(m, n) \in Seq(Int) /\ Len(Grown(m, n)) = n
         /\ \A i \in 1..Len(m) : i <= n => Grown(m, n)[i] = m[i]
<1> DEFINE g == Grown(m, n)
<1>1. \A i \in 1..n : (IF i <= Len(m) THEN m[i] ELSE Junk) \in Int
  BY DEF Junk
<1>2. g \in [1..n -> Int]
  BY <1>1 DEF Grown
<1>3. \A i \in 1..Len(m) : i <= n => g[i] = m[i]
  BY DEF Grown
<1> HIDE DEF g
<1>4. g \in Seq(Int) /\ Len(g) = n
  BY <1>2
<1> QED BY <1>3, <1>4 DEF g

\* The part of a sequence from one offset to another.
LEMMA PartOK ==
  ASSUME NEW s \in Seq(Int), NEW p \in Nat, NEW n \in Nat, p + n <= Len(s)
  PROVE  /\ SubSeq(s, p + 1, p + n) \in Seq(Int)
         /\ Len(SubSeq(s, p + 1, p + n)) = n
         /\ \A i \in 1..n : SubSeq(s, p + 1, p + n)[i] = s[p + i]
<1>1. p + 1 \in Int /\ p + n \in Int /\ \A i \in (p + 1)..(p + n) : s[i] \in Int
  OBVIOUS
<1>2. /\ SubSeq(s, p + 1, p + n) \in Seq(Int)
      /\ Len(SubSeq(s, p + 1, p + n)) = IF p + 1 <= p + n THEN (p + n) - (p + 1) + 1 ELSE 0
      /\ \A i \in 1..((p + n) - (p + 1) + 1) : SubSeq(s, p + 1, p + n)[i] = s[(p + 1) + i - 1]
  BY <1>1, SubSeqProperties
<1>3. ASSUME NEW i \in 1..n PROVE SubSeq(s, p + 1, p + n)[i] = s[p + i]
  <2>1. i \in 1..((p + n) - (p + 1) + 1) /\ (p + 1) + i - 1 = p + i
    OBVIOUS
  <2> QED BY <1>2, <2>1
<1> QED BY <1>2, <1>3

\* The first n elements of a sequence: what trimming a block to its position keeps.
LEMMA KeptOK ==
  ASSUME NEW s \in Seq(Int), NEW n \in 0..Len(s)
  PROVE  /\ SubSeq(s, 1, n) \in Seq(Int) /\ Len(SubSeq(s, 1, n)) = n
         /\ \A i \in 1..n : SubSeq(s, 1, n)[i] = s[i]
<1>1. 0 + 1 = 1 /\ 0 + n = n /\ 0 \in Nat /\ n \in Nat /\ 0 + n <= Len(s)
  OBVIOUS
<1>2. /\ SubSeq(s, 0 + 1, 0 + n) \in Seq(Int) /\ Len(SubSeq(s, 0 + 1, 0 + n)) = n
      /\ \A i \in 1..n : SubSeq(s, 0 + 1, 0 + n)[i] = s[0 + i]
  BY <1>1, PartOK
<1>3. \A i \in 1..n : 0 + i = i
  OBVIOUS
<1> QED BY <1>1, <1>2, <1>3

(***************************************************************************)
(* What every method leaves of an object and the heap.                     *)
(***************************************************************************)
Objs == [block : Blocks \cup {0}, mem : Seq(Int), pos : Nat]
Excs == {"none", "bad_alloc", "length_error", "space", "eof", "invalid_argument"}
Outs == [m : Objs, heap : SUBSET Blocks, exc : Excs]

\* The position is in the memory, and no memory has no bytes.
InBounds(m) == m \in Objs /\ m.pos <= Len(m.mem)
NullHasNone(m) == m.block = 0 => m.mem = <<>>

\* The block of m is that of n, or n had none and m has one that was free.
OwnsAs(m, h, n, g) ==
  \/ m.block = n.block /\ h = g
  \/ n.block = 0 /\ m.block \in Blocks \ g /\ h = g \cup {m.block}

\* m is an object whose block, if it has one, is allocated; else there is a free one.
Live(m, h) ==
  /\ InBounds(m) /\ h \subseteq Blocks
  /\ IF m.block = 0 THEN Blocks \ h # {} ELSE m.block \in h

\* A method that began with n and g may end with r.
Sound(r, n, g) ==
  /\ r \in Outs /\ InBounds(r.m)
  /\ OwnsAs(r.m, r.heap, n, g)
  /\ NullHasNone(n) => NullHasNone(r.m)
  /\ r.exc # "none" => r.m.pos = n.pos

\* A block that is not allocated.
LEMMA FreshOK ==
  ASSUME NEW h, Blocks \ h # {}
  PROVE  FreshBlock(h) \in Blocks \ h
<1>1. \E b \in Blocks \ h : \A c \in Blocks \ h : b <= c
  <2>1. Blocks = {1, 2, 3, 4}
    BY DEF Blocks
  <2>3. CASE 1 \notin h
    BY <2>1, <2>3
  <2>4. CASE 1 \in h /\ 2 \notin h
    BY <2>1, <2>4
  <2>5. CASE 1 \in h /\ 2 \in h /\ 3 \notin h
    BY <2>1, <2>5
  <2>6. CASE 1 \in h /\ 2 \in h /\ 3 \in h /\ 4 \notin h
    BY <2>1, <2>6
  <2> QED BY <2>1, <2>3, <2>4, <2>5, <2>6
<1> QED BY <1>1 DEF FreshBlock

\* Resizing fails, and leaves everything, or keeps what fits.
LEMMA ResizedOK ==
  ASSUME NEW m, NEW h, Live(m, h), NEW n \in Nat, NEW r \in Resized(m, h, n)
  PROVE  /\ Sound(r, m, h) /\ r.m.pos = m.pos
         /\ r.exc = "none" => r.m.mem = Grown(m.mem, n) /\ m.pos <= n /\ r.m.block # 0
         /\ r.exc # "none" => r.m = m /\ r.heap = h
<1>1. /\ m \in [block : Blocks \cup {0}, mem : Seq(Int), pos : Nat] /\ m.pos <= Len(m.mem)
      /\ m.mem \in Seq(Int) /\ m.block \in Blocks \cup {0} /\ m.pos \in Nat
      /\ h \subseteq Blocks /\ (m.block # 0 => m.block \in h)
  BY DEF Live, InBounds, Objs
<1> DEFINE b == IF m.block = 0 THEN FreshBlock(h) ELSE m.block
           g == Grown(m.mem, n)
           x == [m EXCEPT !.block = b, !.mem = g]
<1>2. b \in Blocks /\ b # 0 /\ IF m.block = 0 THEN b \in Blocks \ h ELSE b = m.block /\ b \in h
  <2>1. CASE m.block = 0
    <3>1. FreshBlock(h) \in Blocks \ h
      BY <2>1, FreshOK DEF Live
    <3> QED BY <2>1, <3>1 DEF Blocks
  <2>2. CASE m.block # 0
    BY <1>1, <2>2
  <2> QED BY <2>1, <2>2
<1>3. g \in Seq(Int) /\ Len(g) = n
  BY <1>1, GrownOK
<1>4. \/ r = [m |-> m, heap |-> h, exc |-> "length_error"]
      \/ r = [m |-> m, heap |-> h, exc |-> "bad_alloc"]
      \/ n >= m.pos /\ r = [m |-> x, heap |-> h \cup {b}, exc |-> "none"]
  BY <1>1 DEF Resized, Realloc, Outcome, Fine, Failed
<1> HIDE DEF b, g
<1>5. /\ x.block = b /\ x.mem = g /\ x.pos = m.pos
      /\ x \in [block : Blocks \cup {0}, mem : Seq(Int), pos : Nat]
  BY <1>1, <1>2, <1>3
<1> HIDE DEF x
<1>7. ASSUME NEW e \in Excs \ {"none"}, r = [m |-> m, heap |-> h, exc |-> e]
      PROVE  Sound(r, m, h) /\ r.m.pos = m.pos /\ r.exc # "none" /\ r.m = m /\ r.heap = h
  BY <1>1, <1>7 DEF Sound, Outs, Objs, InBounds, OwnsAs
<1>8. CASE n >= m.pos /\ r = [m |-> x, heap |-> h \cup {b}, exc |-> "none"]
  <2>1. r.m = x /\ r.heap = h \cup {b} /\ r.exc = "none"
    BY <1>8
  <2>2. r \in Outs /\ InBounds(r.m)
    BY <1>1, <1>2, <1>3, <1>5, <1>8 DEF Outs, Objs, InBounds, Excs
  <2>3. OwnsAs(r.m, r.heap, m, h)
    BY <1>2, <1>5, <2>1 DEF OwnsAs
  <2> QED BY <1>1, <1>2, <1>5, <1>8, <2>1, <2>2, <2>3 DEF Sound, NullHasNone, g
<1> QED BY <1>4, <1>7, <1>8 DEF Excs

(***************************************************************************)
(* Writing.                                                                *)
(***************************************************************************)

\* new is old with b put at p; what is behind b up to last may be anything.
Puts(new, old, p, b, last) ==
  /\ Len(old) <= Len(new) /\ p + Len(b) <= Len(new)
  /\ \A i \in 1..Len(b) : new[p + i] = b[i]
  /\ \A i \in 1..Len(old) : (i <= p \/ i > last) => new[i] = old[i]

\* new is as long as old at least, and the same before p.
Begins(new, old, p) == Len(old) <= Len(new) /\ \A i \in 1..p : new[i] = old[i]

\* b was written, or the position and what is before it are as they were.
Wrote(r, m, b, behind) ==
  /\ r.exc = "none" => /\ r.m.pos = m.pos + Len(b)
                       /\ Puts(r.m.mem, m.mem, m.pos, b, m.pos + Len(b) + behind)
  /\ r.exc # "none" => Begins(r.m.mem, m.mem, m.pos)

\* What a method does that began with the object o.m, o left by a resize.
LEMMA AfterResize ==
  ASSUME NEW m, NEW h, Live(m, h), NEW o \in Outs, Sound(o, m, h), o.exc = "none",
         NEW r \in Outs, InBounds(r.m), r.m.block = o.m.block, r.heap = o.heap,
         o.m.block # 0, r.exc # "none" => r.m.pos = m.pos
  PROVE  Sound(r, m, h)
  BY DEF Sound, OwnsAs, NullHasNone

\* Bytes for which there is room.
LEMMA StoredOK ==
  ASSUME NEW m, InBounds(m), NEW b \in Seq(Int), m.pos + Len(b) <= Len(m.mem)
  PROVE  LET s == Stored(m, b)
         IN  /\ InBounds(s) /\ s.block = m.block /\ s.pos = m.pos + Len(b)
             /\ Puts(s.mem, m.mem, m.pos, b, m.pos + Len(b)) /\ Len(s.mem) = Len(m.mem)
<1>1. /\ m \in [block : Blocks \cup {0}, mem : Seq(Int), pos : Nat]
      /\ m.mem \in Seq(Int) /\ m.block \in Blocks \cup {0} /\ m.pos \in 0..Len(m.mem)
      /\ Len(b) \in Nat
  BY DEF InBounds, Objs
<1> DEFINE t == Store(m.mem, m.pos, b)
           q == m.pos + Len(b)
           s == [m EXCEPT !.mem = t, !.pos = q]
<1>2. /\ t \in Seq(Int) /\ Len(t) = Len(m.mem)
      /\ \A i \in 1..Len(m.mem) : (i <= m.pos \/ i > m.pos + Len(b)) => t[i] = m.mem[i]
      /\ \A i \in 1..Len(b) : t[m.pos + i] = b[i]
  BY <1>1, StoreOK
<1>3. Stored(m, b) = s
  BY DEF Stored
<1>4. q \in Nat /\ q = m.pos + Len(b) /\ q <= Len(t)
  BY <1>1, <1>2
<1> HIDE DEF t, q
<1>5. s.mem = t /\ s.pos = q /\ s.block = m.block /\ s \in Objs
  BY <1>1, <1>2, <1>4 DEF Objs
<1> HIDE DEF s
<1>6. Puts(t, m.mem, m.pos, b, m.pos + Len(b))
  BY <1>2, <1>4 DEF Puts
<1> QED BY <1>2, <1>3, <1>4, <1>5, <1>6 DEF InBounds

\* Bytes stored in memory that was resized for them.
LEMMA GrownPuts ==
  ASSUME NEW m \in Seq(Int), NEW n \in Nat, NEW p \in 0..Len(m), Len(m) <= n,
         NEW b \in Seq(Int), NEW s \in Seq(Int), NEW last \in Int, Puts(s, Grown(m, n), p, b, last)
  PROVE  Puts(s, m, p, b, last)
<1> DEFINE g == Grown(m, n)
<1>0. Len(g) = n /\ \A i \in 1..Len(m) : i <= n => g[i] = m[i]
  BY GrownOK
<1>2. Len(m) \in Nat /\ \A i \in 1..Len(m) : i <= n
  OBVIOUS
<1>1. Len(g) = n /\ \A i \in 1..Len(m) : g[i] = m[i]
  BY <1>0, <1>2
<1>3. Puts(s, g, p, b, last)
  OBVIOUS
<1> HIDE DEF g
<1>4. Len(g) <= Len(s) /\ p + Len(b) <= Len(s) /\ (\A i \in 1..Len(b) : s[p + i] = b[i])
  BY <1>3 DEF Puts
<1>5. \A i \in 1..Len(m) : i \in 1..Len(g)
  BY <1>1, <1>2
<1>6. \A i \in 1..Len(g) : (i <= p \/ i > last) => s[i] = g[i]
  BY <1>3 DEF Puts
<1>7. Len(m) <= Len(s)
  BY <1>1, <1>2, <1>4
<1> QED BY <1>1, <1>4, <1>5, <1>6, <1>7 DEF Puts

\* do_ensureWrite: the block is grown when needed, and the bytes land at the position.
LEMMA EnsureWrittenOK ==
  ASSUME NEW m, NEW h, Live(m, h), NEW b \in Seq(Int), NEW size \in Nat,
         m.pos + Len(b) > Size(m) => m.pos + Len(b) <= size /\ Size(m) <= size,
         NEW r \in EnsureWritten(m, h, b, size)
  PROVE  Sound(r, m, h) /\ Wrote(r, m, b, 0)
<1>1. /\ InBounds(m) /\ m.mem \in Seq(Int) /\ m.pos \in 0..Len(m.mem) /\ Len(b) \in Nat
      /\ h \in SUBSET Blocks /\ m \in Objs /\ m.pos \in Nat
  BY DEF Live, InBounds, Objs
<1>2. CASE m.pos + Len(b) <= Size(m)
  <2>1. r = [m |-> Stored(m, b), heap |-> h, exc |-> "none"]
    BY <1>2 DEF EnsureWritten, Fine, Outcome
  <2> DEFINE s == Stored(m, b)
  <2>2. /\ InBounds(s) /\ s.block = m.block /\ s.pos = m.pos + Len(b)
        /\ Puts(s.mem, m.mem, m.pos, b, m.pos + Len(b)) /\ Len(s.mem) = Len(m.mem)
    BY <1>1, <1>2, StoredOK DEF Size
  <2> HIDE DEF s
  <2>3. r.m = s /\ r.heap = h /\ r.exc = "none" /\ r \in Outs
    BY <1>1, <2>1, <2>2 DEF s, Outs, InBounds, Excs
  <2>4. Sound(r, m, h)
    <3>1. NullHasNone(m) => NullHasNone(s)
      BY <1>1, <2>2 DEF NullHasNone, InBounds, Objs
    <3> QED BY <2>2, <2>3, <3>1 DEF Sound, OwnsAs
  <2>5. Wrote(r, m, b, 0)
    <3>1. m.pos + Len(b) + 0 = m.pos + Len(b)
      BY <1>1
    <3> QED BY <2>2, <2>3, <3>1 DEF Wrote
  <2> QED BY <2>4, <2>5
<1>3. CASE ~(m.pos + Len(b) <= Size(m)) /\ kind = "fixed"
  <2>1. r = [m |-> m, heap |-> h, exc |-> "space"]
    BY <1>3 DEF EnsureWritten, Outcome
  <2>2. r.m = m /\ r.heap = h /\ r.exc = "space" /\ r \in Outs
    BY <1>1, <2>1 DEF Outs, Excs
  <2> QED BY <1>1, <2>2 DEF Sound, OwnsAs, Wrote, Begins
<1>4. CASE ~(m.pos + Len(b) <= Size(m)) /\ kind # "fixed"
  <2>1. PICK o \in Resized(m, h, size) :
          \/ o.exc = "none" /\ r = [m |-> Stored(o.m, b), heap |-> o.heap, exc |-> "none"]
          \/ o.exc # "none" /\ r = o
    BY <1>4 DEF EnsureWritten, Then, Fine, Outcome
  <2>2. /\ Sound(o, m, h) /\ o.m.pos = m.pos
        /\ o.exc = "none" => o.m.mem = Grown(m.mem, size) /\ m.pos <= size /\ o.m.block # 0
        /\ o.exc # "none" => o.m = m /\ o.heap = h
    BY ResizedOK
  <2>3. CASE o.exc # "none"
    <3>1. r = o /\ r.m = m
      BY <2>1, <2>2, <2>3
    <3> QED BY <1>1, <2>2, <2>3, <3>1 DEF Wrote, Begins
  <2>4. CASE o.exc = "none"
    <3> DEFINE s == Stored(o.m, b)
    <3>1. r = [m |-> s, heap |-> o.heap, exc |-> "none"]
      BY <2>1, <2>4
    <3>2. o.m.mem = Grown(m.mem, size) /\ o.m.block # 0 /\ InBounds(o.m) /\ o \in Outs
      BY <2>2, <2>4 DEF Sound
    <3>3. Len(o.m.mem) = size /\ Len(m.mem) <= size /\ m.pos + Len(b) <= size
      <4>1. Len(Grown(m.mem, size)) = size
        BY <1>1, GrownOK
      <4> QED BY <1>1, <1>4, <3>2, <4>1 DEF Size
    <3>4. /\ InBounds(s) /\ s.block = o.m.block /\ s.pos = m.pos + Len(b)
          /\ Puts(s.mem, o.m.mem, m.pos, b, m.pos + Len(b))
      BY <2>2, <3>2, <3>3, StoredOK
    <3> HIDE DEF s
    <3>5. r.m = s /\ r.heap = o.heap /\ r.exc = "none" /\ r \in Outs
      BY <3>1, <3>2, <3>4 DEF Outs, InBounds, Excs
    <3>6. Sound(r, m, h)
      BY <2>2, <2>4, <3>2, <3>4, <3>5, AfterResize
    <3>7. Puts(s.mem, m.mem, m.pos, b, m.pos + Len(b))
      <4>1. s.mem \in Seq(Int) /\ m.pos + Len(b) \in Int
        BY <1>1, <3>4 DEF InBounds, Objs
      <4>2. Puts(s.mem, Grown(m.mem, size), m.pos, b, m.pos + Len(b))
        BY <3>2, <3>4
      <4> QED BY <1>1, <3>3, <4>1, <4>2, GrownPuts
    <3>8. m.pos + Len(b) + 0 = m.pos + Len(b)
      BY <1>1
    <3> QED BY <3>4, <3>5, <3>6, <3>7, <3>8 DEF Wrote
  <2> QED BY <2>3, <2>4
<1> QED BY <1>2, <1>3, <1>4

(***************************************************************************)
(* Printing.                                                               *)
(***************************************************************************)

\* new is old but for what is behind p, up to last, and what it has grown by.
Agrees(new, old, p, last) ==
  /\ Len(old) <= Len(new)
  /\ \A i \in 1..Len(old) : (i <= p \/ i > last) => new[i] = old[i]

\* Agreement outside a range passes through an intermediate block.
LEMMA AgreesTrans ==
  ASSUME NEW a \in Seq(Int), NEW b \in Seq(Int), NEW c \in Seq(Int), NEW p \in Int, NEW last \in Int,
         Agrees(b, a, p, last), Agrees(c, b, p, last)
  PROVE  Agrees(c, a, p, last)
<1>1. Len(a) \in Nat /\ Len(b) \in Nat /\ Len(c) \in Nat /\ Len(a) <= Len(b) /\ Len(b) <= Len(c)
  BY DEF Agrees
<1>2. \A i \in 1..Len(a) : i \in 1..Len(b)
  BY <1>1
<1>3. /\ \A i \in 1..Len(a) : (i <= p \/ i > last) => b[i] = a[i]
      /\ \A i \in 1..Len(b) : (i <= p \/ i > last) => c[i] = b[i]
  BY DEF Agrees
<1>4. Len(a) <= Len(c)
  BY <1>1
<1> QED BY <1>2, <1>3, <1>4 DEF Agrees

\* Bytes put into a block that only grew are bytes put into the block it grew from.
LEMMA PutsThrough ==
  ASSUME NEW a \in Seq(Int), NEW b \in Seq(Int), NEW c \in Seq(Int), NEW p \in Int, NEW last \in Int,
         NEW x, Agrees(b, a, p, last), Puts(c, b, p, x, last)
  PROVE  Puts(c, a, p, x, last)
<1>1. Agrees(c, b, p, last)
  BY DEF Puts, Agrees
<1>2. Agrees(c, a, p, last)
  BY <1>1, AgreesTrans
<1> QED BY <1>2 DEF Puts, Agrees

\* A grown block begins with the old one.
LEMMA GrownAgrees ==
  ASSUME NEW m \in Seq(Int), NEW n \in Nat, Len(m) <= n, NEW p, NEW last
  PROVE  Agrees(Grown(m, n), m, p, last)
<1>1. /\ Len(Grown(m, n)) = n
      /\ \A i \in 1..Len(m) : i <= n => Grown(m, n)[i] = m[i]
  BY GrownOK
<1>2. \A i \in 1..Len(m) : i <= n
  OBVIOUS
<1> QED BY <1>1, <1>2 DEF Agrees

\* Agreement outside a range that begins at p leaves the first p bytes alone.
LEMMA AgreesBegins ==
  ASSUME NEW a \in Seq(Int), NEW b, NEW p \in 0..Len(a), NEW last, Agrees(b, a, p, last)
  PROVE  Begins(b, a, p)
<1>1. \A i \in 1..p : i \in 1..Len(a) /\ i <= p
  OBVIOUS
<1> QED BY <1>1 DEF Agrees, Begins

\* vsnprintf puts what there is room for behind the position, and a '\0'.
LEMMA PrintedOK ==
  ASSUME NEW m, InBounds(m), NEW text \in Seq(Int)
  PROVE  LET q == Printed(m, text)
             last == m.pos + Len(text) + 1
         IN  /\ InBounds(q) /\ q.block = m.block /\ q.pos = m.pos /\ Len(q.mem) = Len(m.mem)
             /\ Agrees(q.mem, m.mem, m.pos, last)
             /\ Len(text) < Size(m) - m.pos =>
                  Puts(q.mem, m.mem, m.pos, text, last) /\ last <= Len(q.mem) /\ q.mem[last] = Zero
<1>1. /\ m \in [block : Blocks \cup {0}, mem : Seq(Int), pos : Nat]
      /\ m.mem \in Seq(Int) /\ m.block \in Blocks \cup {0} /\ m.pos \in 0..Len(m.mem)
      /\ Len(text) \in Nat /\ m.pos \in Nat /\ Len(m.mem) \in Nat
  BY DEF InBounds, Objs
<1> DEFINE room == Len(m.mem) - m.pos
           out == IF Len(text) < room THEN Append(text, Zero)
                  ELSE IF room = 0 THEN <<>> ELSE Append(SubSeq(text, 1, room - 1), Zero)
           last == m.pos + Len(text) + 1
           t == Store(m.mem, m.pos, out)
           q == [m EXCEPT !.mem = t]
<1>2. room \in Nat /\ m.pos + room = Len(m.mem)
  BY <1>1
<1>3. Zero \in Int
  BY DEF Zero
<1>4. /\ out \in Seq(Int) /\ Len(out) <= room /\ Len(out) <= Len(text) + 1
      /\ Len(text) < room => /\ Len(out) = Len(text) + 1 /\ out[Len(text) + 1] = Zero
                             /\ \A i \in 1..Len(text) : out[i] = text[i]
  <2> HIDE DEF room
  <2>1. CASE Len(text) < room
    <3>1. out = Append(text, Zero)
      BY <2>1
    <3> QED BY <1>1, <1>2, <1>3, <2>1, <3>1
  <2>2. CASE ~(Len(text) < room) /\ room = 0
    <3>1. out = <<>>
      BY <2>2
    <3> QED BY <1>1, <2>2, <3>1
  <2>3. CASE ~(Len(text) < room) /\ room # 0
    <3> DEFINE u == SubSeq(text, 1, room - 1)
    <3>1. out = Append(u, Zero)
      BY <2>3
    <3>2. room - 1 \in 0..Len(text)
      BY <1>1, <1>2, <2>3
    <3>3. u \in Seq(Int) /\ Len(u) = room - 1
      BY <3>2, KeptOK
    <3> HIDE DEF u
    <3>4. out \in Seq(Int) /\ Len(out) = Len(u) + 1
      <4> HIDE DEF out
      <4> DEFINE z == Zero
      <4>1. z \in Int /\ out = Append(u, z)
        BY <1>3, <3>1
      <4> HIDE DEF z
      <4> QED BY <3>3, <4>1, AppendProperties
    <3>5. Len(out) <= room /\ Len(out) <= Len(text) + 1
      <4> HIDE DEF out
      <4> QED BY <1>1, <1>2, <2>3, <3>3, <3>4
    <3> QED BY <2>3, <3>4, <3>5
  <2> QED BY <2>1, <2>2, <2>3
<1>5. Printed(m, text) = q
  BY DEF Printed, Size
<1> HIDE DEF out, room
<1>6. /\ t \in Seq(Int) /\ Len(t) = Len(m.mem)
      /\ \A i \in 1..Len(m.mem) : (i <= m.pos \/ i > m.pos + Len(out)) => t[i] = m.mem[i]
      /\ \A i \in 1..Len(out) : t[m.pos + i] = out[i]
  <2>1. m.pos + Len(out) <= Len(m.mem)
    BY <1>1, <1>2, <1>4
  <2> QED BY <1>1, <1>4, <2>1, StoreOK
<1> HIDE DEF t
<1>7. q.mem = t /\ q.pos = m.pos /\ q.block = m.block /\ q \in Objs
  BY <1>1, <1>6 DEF Objs
<1> HIDE DEF q
<1>8. Len(out) \in Nat /\ last \in Nat /\ last >= m.pos + Len(out)
  BY <1>1, <1>4
<1>9. Agrees(t, m.mem, m.pos, last)
  <2>1. \A i \in 1..Len(m.mem) : i > last => i > m.pos + Len(out)
    BY <1>1, <1>8
  <2> QED BY <1>6, <2>1 DEF Agrees
<1>10. ASSUME Len(text) < room
       PROVE  Puts(t, m.mem, m.pos, text, last) /\ last <= Len(t) /\ t[last] = Zero
  <2>1. m.pos + Len(text) <= Len(t) /\ last <= Len(t)
    BY <1>1, <1>2, <1>6, <1>10
  <2>2. Len(text) + 1 \in 1..Len(out) /\ m.pos + (Len(text) + 1) = last /\ \A i \in 1..Len(text) : i \in 1..Len(out)
    <3> DEFINE l == Len(text)
    <3>1. Len(out) = l + 1 /\ l \in Nat
      BY <1>1, <1>4, <1>10
    <3>2. m.pos + (l + 1) = last
      BY <1>1
    <3> HIDE DEF l
    <3>3. l + 1 \in 1..Len(out) /\ \A i \in 1..l : i \in 1..Len(out)
      BY <3>1
    <3> QED BY <3>2, <3>3 DEF l
  <2>3. t[last] = Zero /\ \A i \in 1..Len(text) : t[m.pos + i] = text[i]
    BY <1>4, <1>6, <1>10, <2>2
  <2> QED BY <1>9, <2>1, <2>3 DEF Puts, Agrees
<1>11. InBounds(q)
  BY <1>1, <1>6, <1>7 DEF InBounds
<1> QED BY <1>5, <1>6, <1>7, <1>9, <1>10, <1>11 DEF room, Size

\* One method after another.
LEMMA SoundLive ==
  ASSUME NEW m, NEW h, Live(m, h), NEW o, Sound(o, m, h)
  PROVE  Live(o.m, o.heap)
<1>1. o.heap \subseteq Blocks /\ InBounds(o.m) /\ o.m.block \in Blocks \cup {0}
  BY DEF Sound, Outs, InBounds, Objs
<1>2. CASE o.m.block = m.block /\ o.heap = h
  BY <1>1, <1>2 DEF Live
<1>3. CASE m.block = 0 /\ o.m.block \in Blocks \ h /\ o.heap = h \cup {o.m.block}
  <2>1. o.m.block # 0
    BY <1>3 DEF Blocks
  <2> QED BY <1>1, <1>3, <2>1 DEF Live
<1> QED BY <1>2, <1>3 DEF Sound, OwnsAs

\* Two sound steps on one object, the first without moving it, are one.
LEMMA SoundTrans ==
  ASSUME NEW m, NEW h, Live(m, h), NEW o, Sound(o, m, h), o.m.pos = m.pos,
         NEW r, Sound(r, o.m, o.heap)
  PROVE  Sound(r, m, h)
<1>1. o.m.block \in Blocks => o.m.block # 0
  BY DEF Blocks
<1>2. OwnsAs(r.m, r.heap, m, h)
  BY <1>1 DEF Sound, OwnsAs
<1> QED BY <1>2 DEF Sound

\* An object that changed in place.
LEMMA InPlace ==
  ASSUME NEW m, NEW h, Live(m, h), NEW q, InBounds(q), q.block = m.block, NEW e \in Excs,
         e # "none" => q.pos = m.pos,
         NullHasNone(m) => NullHasNone(q)
  PROVE  Sound([m |-> q, heap |-> h, exc |-> e], m, h)
<1> DEFINE r == [m |-> q, heap |-> h, exc |-> e]
<1>1. r \in Outs /\ r.m = q /\ r.heap = h /\ r.exc = e
  BY DEF Live, Outs, InBounds
<1> HIDE DEF r
<1>2. Sound(r, m, h)
  BY <1>1 DEF Sound, OwnsAs
<1> QED BY <1>2 DEF r

\* vsnprintf with room enough writes the text at the position, which moves behind it.
LEMMA WorkedOK ==
  ASSUME NEW m, InBounds(m), NEW text \in Seq(Int), Len(text) < Size(m) - m.pos
  PROVE  /\ InBounds(Worked(m, text)) /\ Worked(m, text).block = m.block
         /\ Worked(m, text).pos = m.pos + Len(text)
         /\ Worked(m, text).mem = Printed(m, text).mem
<1> DEFINE q == Printed(m, text)
           p == m.pos + Len(text)
<1>1. InBounds(q) /\ q.block = m.block /\ q.pos = m.pos /\ Len(q.mem) = Len(m.mem)
  BY PrintedOK
<1>2. p \in Nat /\ p <= Len(m.mem)
  BY DEF InBounds, Objs, Size
<1>3. Worked(m, text) = [q EXCEPT !.pos = @ + Len(text)]
  BY DEF Worked
<1> HIDE DEF q
<1>4. q \in [block : Blocks \cup {0}, mem : Seq(Int), pos : Nat]
  BY <1>1 DEF InBounds, Objs
<1>5. Worked(m, text) = [q EXCEPT !.pos = p]
  BY <1>1, <1>3, <1>4
<1> HIDE DEF p
<1> QED BY <1>1, <1>2, <1>4, <1>5 DEF InBounds, Objs, q, p

\* The text is where the position was, and a '\0' behind it.
Said(r, m, text) ==
  /\ Wrote(r, m, text, 1)
  /\ r.exc = "none" => /\ m.pos + Len(text) + 1 <= Len(r.m.mem)
                       /\ r.m.mem[m.pos + Len(text) + 1] = Zero

\* A pass of vprintf that fits is sound and has said the text.
LEMMA VprintfPass ==
  ASSUME NEW m, NEW h, Live(m, h), NEW text \in Seq(Int),
         Len(text) < Size(m) - m.pos,
         NEW r, r = [m |-> Worked(m, text), heap |-> h, exc |-> "none"]
  PROVE  Sound(r, m, h) /\ Said(r, m, text)
<1> DEFINE w == Worked(m, text)
           last == m.pos + Len(text) + 1
<1>1. InBounds(m) /\ m.mem \in Seq(Int)
  BY DEF Live, InBounds, Objs
<1>2. /\ InBounds(w) /\ w.block = m.block /\ w.pos = m.pos + Len(text)
      /\ w.mem = Printed(m, text).mem
  BY <1>1, WorkedOK
<1>3. /\ Puts(w.mem, m.mem, m.pos, text, last) /\ last <= Len(w.mem) /\ w.mem[last] = Zero
      /\ Len(w.mem) = Len(m.mem)
  BY <1>1, <1>2, PrintedOK
<1> HIDE DEF w
<1>4. NullHasNone(m) => NullHasNone(w)
  BY <1>1, <1>2, <1>3 DEF NullHasNone, InBounds, Objs
<1>5. Sound(r, m, h)
  <2>1. "none" \in Excs
    BY DEF Excs
  <2> QED BY <1>2, <1>4, <2>1, InPlace DEF w
<1>6. r.m = w /\ r.exc = "none"
  BY DEF w
<1> QED BY <1>2, <1>3, <1>5, <1>6 DEF Said, Wrote

\* The text does not fit: a second resize.
LEMMA VprintfAgain ==
  ASSUME NEW m, NEW h, Live(m, h), NEW text \in Seq(Int), ~(Len(text) < Size(m) - m.pos),
         NEW p \in Resized(Printed(m, text), h, 2 * (m.pos + Len(text) + 1)), NEW r,
         \/ p.exc = "none" /\ r = [m |-> Worked(p.m, text), heap |-> p.heap, exc |-> "none"]
         \/ p.exc # "none" /\ r = p
  PROVE  Sound(r, m, h) /\ Said(r, m, text)
<1> DEFINE q == Printed(m, text)
           last == m.pos + Len(text) + 1
           size == 2 * last
<1>1. /\ InBounds(m) /\ m.mem \in Seq(Int) /\ m.pos \in 0..Len(m.mem) /\ Len(text) \in Nat
      /\ last \in Nat /\ size \in Nat /\ Len(m.mem) \in Nat
  BY DEF Live, InBounds, Objs
<1>2. /\ InBounds(q) /\ q.block = m.block /\ q.pos = m.pos /\ Len(q.mem) = Len(m.mem)
      /\ Agrees(q.mem, m.mem, m.pos, last)
  BY <1>1, PrintedOK
<1>3. p \in Resized(q, h, size)
  OBVIOUS
<1> HIDE DEF q
<1>4. Live(q, h)
  BY <1>2 DEF Live
<1> DEFINE o == [m |-> q, heap |-> h, exc |-> "none"]
<1>5. Sound(o, m, h) /\ o.m = q /\ o.heap = h
  <2>1. NullHasNone(m) => NullHasNone(q)
    BY <1>1, <1>2 DEF NullHasNone, InBounds, Objs
  <2>2. "none" \in Excs
    BY DEF Excs
  <2> QED BY <1>2, <2>1, <2>2, InPlace
<1> HIDE DEF o, size
<1>6. /\ Sound(p, q, h) /\ p.m.pos = q.pos
      /\ p.exc = "none" => p.m.mem = Grown(q.mem, size) /\ p.m.block # 0
      /\ p.exc # "none" => p.m = q /\ p.heap = h
  BY <1>1, <1>3, <1>4, ResizedOK
<1>7. Sound(p, m, h)
  BY <1>2, <1>5, <1>6, SoundTrans
<1>8. CASE p.exc # "none"
  <2>1. Begins(q.mem, m.mem, m.pos)
    BY <1>1, <1>2, AgreesBegins
  <2>2. r = p /\ p.m = q
    BY <1>6, <1>8
  <2> QED BY <1>7, <1>8, <2>1, <2>2 DEF Said, Wrote
<1>9. CASE p.exc = "none"
  <2>1. r = [m |-> Worked(p.m, text), heap |-> p.heap, exc |-> "none"]
    BY <1>9
  <2>2. /\ p.m.mem = Grown(q.mem, size) /\ p.m.pos = m.pos /\ InBounds(p.m)
        /\ q.mem \in Seq(Int) /\ p.m.mem \in Seq(Int)
    BY <1>2, <1>6, <1>9 DEF Sound, InBounds, Objs
  <2>3. Len(q.mem) <= size /\ Len(p.m.mem) = size /\ Len(text) < Size(p.m) - p.m.pos
    <3>1. Len(p.m.mem) = size
      BY <1>1, <2>2, GrownOK
    <3> DEFINE l == Len(text)
               t == Len(m.mem)
               u == m.pos
    <3>2. /\ l \in Nat /\ t \in Nat /\ u \in Nat /\ ~(l < t - u) /\ size = 2 * (u + l + 1)
          /\ Len(q.mem) = t /\ Len(p.m.mem) = size /\ p.m.pos = u
      BY <1>1, <1>2, <2>2, <3>1 DEF Size, size
    <3> HIDE DEF l, t, u
    <3>3. t <= size /\ l < size - u
      BY <3>2
    <3>4. Len(q.mem) <= size /\ l < Size(p.m) - p.m.pos
      BY <3>2, <3>3 DEF Size
    <3> QED BY <3>1, <3>4 DEF l
  <2>4. Live(p.m, p.heap)
    BY <1>7, SoundLive
  <2>5. Sound(r, p.m, p.heap) /\ Said(r, p.m, text)
    BY <2>1, <2>3, <2>4, VprintfPass
  <2>6. Sound(r, m, h)
    BY <1>7, <2>2, <2>5, SoundTrans
  <2>7. r.exc = "none" /\ r.m.mem \in Seq(Int)
    BY <2>1, <2>6 DEF Sound, Outs, Objs
  <2>8. Agrees(p.m.mem, m.mem, m.pos, last)
    <3>1. Agrees(p.m.mem, q.mem, m.pos, last)
      BY <1>1, <2>2, <2>3, GrownAgrees
    <3>2. m.pos \in Int /\ last \in Int
      BY <1>1
    <3> QED BY <1>1, <1>2, <2>2, <3>1, <3>2, AgreesTrans
  <2>9. Puts(r.m.mem, p.m.mem, m.pos, text, last)
    BY <2>2, <2>5, <2>7 DEF Said, Wrote
  <2>10. Puts(r.m.mem, m.mem, m.pos, text, last)
    <3>1. m.pos \in Int /\ last \in Int
      BY <1>1
    <3> QED BY <1>1, <2>2, <2>7, <2>8, <2>9, <3>1, PutsThrough
  <2> QED BY <2>2, <2>5, <2>6, <2>7, <2>10 DEF Said, Wrote
<1> QED BY <1>8, <1>9

\* vprintf, by its first pass or by the pass after it grew the block.
LEMMA VprintfOK ==
  ASSUME NEW m, NEW h, Live(m, h), NEW text \in Seq(Int), NEW r \in Vprintf(m, h, text)
  PROVE  Sound(r, m, h) /\ Said(r, m, text)
<1> DEFINE again(o) ==
             \E p \in Resized(Printed(o.m, text), o.heap, 2 * (o.m.pos + Len(text) + 1)) :
                \/ p.exc = "none" /\ r = [m |-> Worked(p.m, text), heap |-> p.heap, exc |-> "none"]
                \/ p.exc # "none" /\ r = p
           size == Greatest(Chunk, 2 * Size(m))
           first == IF Size(m) - m.pos < Chunk THEN Resized(m, h, size) ELSE Fine(m, h)
           last == m.pos + Len(text) + 1
<1>1. PICK o \in first :
        \/ o.exc # "none" /\ r = o
        \/ /\ o.exc = "none" /\ Len(text) < Size(o.m) - o.m.pos
           /\ r = [m |-> Worked(o.m, text), heap |-> o.heap, exc |-> "none"]
        \/ o.exc = "none" /\ ~(Len(text) < Size(o.m) - o.m.pos) /\ again(o)
  BY DEF Vprintf, Then, Fine, Outcome
<1>2. /\ InBounds(m) /\ m.mem \in Seq(Int) /\ m.pos \in 0..Len(m.mem) /\ Len(text) \in Nat
      /\ Len(m.mem) \in Nat /\ last \in Nat /\ m \in Objs
  BY DEF Live, InBounds, Objs
<1>3. size \in Nat /\ Len(m.mem) <= size
  BY <1>2, NumbersAssumption DEF Greatest, Size
<1> HIDE DEF size
<1>4. /\ Sound(o, m, h) /\ o.m.pos = m.pos /\ o.m.mem \in Seq(Int)
      /\ Agrees(o.m.mem, m.mem, m.pos, last)
  <2>1. CASE Size(m) - m.pos < Chunk
    <3>1. o \in Resized(m, h, size)
      BY <2>1
    <3>2. /\ Sound(o, m, h) /\ o.m.pos = m.pos
          /\ o.exc = "none" => o.m.mem = Grown(m.mem, size)
          /\ o.exc # "none" => o.m = m
      BY <1>3, <3>1, ResizedOK
    <3>3. o.m.mem \in Seq(Int)
      BY <3>2 DEF Sound, InBounds, Objs
    <3>4. Agrees(o.m.mem, m.mem, m.pos, last)
      <4>1. Agrees(m.mem, m.mem, m.pos, last)
        BY <1>2 DEF Agrees
      <4>2. Agrees(Grown(m.mem, size), m.mem, m.pos, last)
        BY <1>2, <1>3, GrownAgrees
      <4> QED BY <3>2, <4>1, <4>2
    <3> QED BY <3>2, <3>3, <3>4
  <2>2. CASE ~(Size(m) - m.pos < Chunk)
    <3>1. o = [m |-> m, heap |-> h, exc |-> "none"]
      BY <2>2 DEF Fine, Outcome
    <3>2. "none" \in Excs
      BY DEF Excs
    <3>3. Sound(o, m, h)
      BY <1>2, <3>1, <3>2, InPlace
    <3>4. o.m = m
      BY <3>1
    <3> QED BY <1>2, <3>3, <3>4 DEF Agrees
  <2> QED BY <2>1, <2>2
<1> HIDE DEF first
<1>5. Live(o.m, o.heap)
  BY <1>4, SoundLive
<1>6. CASE o.exc # "none" /\ r = o
  <2>1. Begins(o.m.mem, m.mem, m.pos)
    BY <1>2, <1>4, AgreesBegins
  <2> QED BY <1>4, <1>6, <2>1 DEF Said, Wrote
<1>7. CASE o.exc = "none" /\ (r.exc = "none" => TRUE)
  <2>1. Sound(r, o.m, o.heap) /\ Said(r, o.m, text)
    <3>1. CASE Len(text) < Size(o.m) - o.m.pos
      BY <1>1, <1>5, <1>7, <3>1, VprintfPass
    <3>2. CASE ~(Len(text) < Size(o.m) - o.m.pos)
      <4>1. again(o)
        BY <1>1, <1>7, <3>2
      <4> QED BY <1>5, <3>2, <4>1, VprintfAgain
    <3> QED BY <3>1, <3>2
  <2>2. Sound(r, m, h) /\ r.m.mem \in Seq(Int)
    <3>1. Sound(r, m, h)
      BY <1>4, <2>1, SoundTrans
    <3> QED BY <3>1 DEF Sound, InBounds, Objs
  <2>3. m.pos \in Int /\ last \in Int
    BY <1>2
  <2>4. CASE r.exc = "none"
    <3>1. /\ r.m.pos = m.pos + Len(text) /\ Puts(r.m.mem, o.m.mem, m.pos, text, last)
          /\ last <= Len(r.m.mem) /\ r.m.mem[last] = Zero
      BY <1>4, <2>1, <2>4 DEF Said, Wrote
    <3>2. Puts(r.m.mem, m.mem, m.pos, text, last)
      BY <1>2, <1>4, <2>2, <2>3, <3>1, PutsThrough
    <3> QED BY <2>2, <2>4, <3>1, <3>2 DEF Said, Wrote
  <2>5. CASE r.exc # "none"
    <3>1. Begins(r.m.mem, o.m.mem, m.pos)
      BY <1>4, <2>1, <2>5 DEF Said, Wrote
    <3>2. Begins(o.m.mem, m.mem, m.pos)
      BY <1>2, <1>4, AgreesBegins
    <3>3. Begins(r.m.mem, m.mem, m.pos)
      <4>1. Len(r.m.mem) \in Nat /\ Len(o.m.mem) \in Nat /\ Len(m.mem) \in Nat
        BY <1>2, <1>4, <2>2
      <4>2. Len(o.m.mem) <= Len(r.m.mem) /\ Len(m.mem) <= Len(o.m.mem)
        BY <3>1, <3>2 DEF Begins
      <4>3. Len(m.mem) <= Len(r.m.mem)
        BY <4>1, <4>2
      <4>4. \A i \in 1..m.pos : r.m.mem[i] = m.mem[i]
        BY <1>4, <3>1, <3>2 DEF Begins
      <4> QED BY <4>3, <4>4 DEF Begins
    <3> QED BY <2>2, <2>5, <3>3 DEF Said, Wrote
  <2> QED BY <2>4, <2>5
<1> QED BY <1>1, <1>6, <1>7

\* What was written in memory that a resize left, is written in what there was.
LEMMA WroteThrough ==
  ASSUME NEW m, NEW h, Live(m, h), NEW o, Sound(o, m, h), o.m.pos = m.pos,
         NEW b \in Seq(Int), Agrees(o.m.mem, m.mem, m.pos, m.pos + Len(b)),
         NEW r, Sound(r, o.m, o.heap), Wrote(r, o.m, b, 0)
  PROVE  Sound(r, m, h) /\ Wrote(r, m, b, 0)
<1> DEFINE last == m.pos + Len(b)
<1>1. /\ m.mem \in Seq(Int) /\ m.pos \in 0..Len(m.mem) /\ Len(b) \in Nat /\ last \in Int
      /\ m.pos \in Int /\ last + 0 = last
  BY DEF Live, InBounds, Objs
<1>2. o.m.mem \in Seq(Int) /\ Sound(r, m, h)
  BY SoundTrans DEF Sound, InBounds, Objs
<1>3. r.m.mem \in Seq(Int)
  BY <1>2 DEF Sound, InBounds, Objs
<1>4. Agrees(o.m.mem, m.mem, m.pos, last)
  OBVIOUS
<1>5. /\ r.exc = "none" => r.m.pos = last /\ Puts(r.m.mem, o.m.mem, m.pos, b, last)
      /\ r.exc # "none" => Begins(r.m.mem, o.m.mem, m.pos)
  BY <1>1 DEF Wrote
<1> HIDE DEF last
<1>6. CASE r.exc = "none"
  <2>1. Puts(r.m.mem, m.mem, m.pos, b, last)
    BY <1>1, <1>2, <1>3, <1>4, <1>5, <1>6, PutsThrough
  <2> QED BY <1>1, <1>2, <1>5, <1>6, <2>1 DEF Wrote, last
<1>7. CASE r.exc # "none"
  <2>1. Begins(o.m.mem, m.mem, m.pos)
    BY <1>1, <1>4, AgreesBegins
  <2>2. Len(r.m.mem) \in Nat /\ Len(o.m.mem) \in Nat /\ Len(m.mem) \in Nat
    BY <1>1, <1>2, <1>3
  <2>3. Len(m.mem) <= Len(r.m.mem)
    BY <1>5, <1>7, <2>1, <2>2 DEF Begins
  <2>4. \A i \in 1..m.pos : r.m.mem[i] = m.mem[i]
    BY <1>5, <1>7, <2>1 DEF Begins
  <2> QED BY <1>2, <1>7, <2>3, <2>4 DEF Wrote, Begins
<1> QED BY <1>6, <1>7

\* Bytes read into memory there is room in, or some of them and an exception.
LEMMA FromInputRead ==
  ASSUME NEW m, NEW h, Live(m, h), NEW b \in Seq(Int), m.pos + Len(b) <= Len(m.mem), NEW r,
         \/ r = [m |-> Stored(m, b), heap |-> h, exc |-> "none"]
         \/ \E k \in 0..Len(b) :
               r = [m |-> [m EXCEPT !.mem = Store(@, m.pos, SubSeq(b, 1, k))],
                    heap |-> h, exc |-> "eof"]
  PROVE  Sound(r, m, h) /\ Wrote(r, m, b, 0)
<1>1. /\ InBounds(m) /\ m.mem \in Seq(Int) /\ m.pos \in 0..Len(m.mem) /\ Len(b) \in Nat
      /\ m.pos \in Nat /\ m.block \in Blocks \cup {0} /\ Len(m.mem) \in Nat
      /\ m \in [block : Blocks \cup {0}, mem : Seq(Int), pos : Nat]
  BY DEF Live, InBounds, Objs
<1>2. CASE r = [m |-> Stored(m, b), heap |-> h, exc |-> "none"]
  <2> DEFINE s == Stored(m, b)
  <2>1. /\ InBounds(s) /\ s.block = m.block /\ s.pos = m.pos + Len(b)
        /\ Puts(s.mem, m.mem, m.pos, b, m.pos + Len(b)) /\ Len(s.mem) = Len(m.mem)
    BY <1>1, StoredOK
  <2> HIDE DEF s
  <2>2. NullHasNone(m) => NullHasNone(s)
    BY <1>1, <2>1 DEF NullHasNone, InBounds, Objs
  <2>3. "none" \in Excs /\ m.pos + Len(b) + 0 = m.pos + Len(b)
    BY <1>1 DEF Excs
  <2>4. Sound(r, m, h)
    BY <1>2, <2>1, <2>2, <2>3, InPlace DEF s
  <2>5. r.m = s /\ r.exc = "none"
    BY <1>2 DEF s
  <2> QED BY <2>1, <2>3, <2>4, <2>5 DEF Wrote
<1>3. ASSUME NEW k \in 0..Len(b),
             r = [m |-> [m EXCEPT !.mem = Store(@, m.pos, SubSeq(b, 1, k))],
                  heap |-> h, exc |-> "eof"]
      PROVE  Sound(r, m, h) /\ Wrote(r, m, b, 0)
  <2> DEFINE c == SubSeq(b, 1, k)
             t == Store(m.mem, m.pos, c)
             q == [m EXCEPT !.mem = t]
  <2>1. c \in Seq(Int) /\ Len(c) = k
    BY KeptOK
  <2> HIDE DEF c
  <2>2. m.pos + Len(c) <= Len(m.mem) /\ Len(c) \in Nat
    BY <1>1, <2>1
  <2>3. /\ t \in Seq(Int) /\ Len(t) = Len(m.mem)
        /\ \A i \in 1..Len(m.mem) : (i <= m.pos \/ i > m.pos + Len(c)) => t[i] = m.mem[i]
    BY <1>1, <2>1, <2>2, StoreOK, ZenonT(40)
  <2> HIDE DEF t
  <2>4. q.mem = t /\ q.pos = m.pos /\ q.block = m.block /\ q \in Objs
    BY <1>1, <2>3 DEF Objs
  <2>5. r = [m |-> q, heap |-> h, exc |-> "eof"]
    BY <1>1, <1>3 DEF t, c
  <2> HIDE DEF q
  <2>6. InBounds(q)
    BY <1>1, <2>3, <2>4 DEF InBounds
  <2>7. NullHasNone(m) => NullHasNone(q)
    BY <1>1, <2>3, <2>4 DEF NullHasNone
  <2>8. "eof" \in Excs
    BY DEF Excs
  <2>9. Sound(r, m, h)
    BY <2>4, <2>5, <2>6, <2>7, <2>8, InPlace
  <2>10. Begins(t, m.mem, m.pos)
    <3>1. \A i \in 1..m.pos : i \in 1..Len(m.mem) /\ i <= m.pos
      BY <1>1
    <3> QED BY <1>1, <2>3, <3>1 DEF Begins
  <2>11. r.m = q /\ r.exc = "eof"
    BY <2>5
  <2> QED BY <2>4, <2>9, <2>10, <2>11 DEF Wrote
<1> QED BY <1>2, <1>3

\* from_input: the block is grown to hold what is read, which lands at the position.
LEMMA FromInputOK ==
  ASSUME NEW m, NEW h, Live(m, h), NEW b \in Seq(Int), NEW r \in FromInput(m, h, b)
  PROVE  Sound(r, m, h) /\ Wrote(r, m, b, 0)
<1>1. /\ InBounds(m) /\ m.mem \in Seq(Int) /\ m.pos \in 0..Len(m.mem) /\ Len(b) \in Nat
      /\ m.pos \in Nat /\ m.block \in Blocks \cup {0} /\ Len(m.mem) \in Nat /\ h \in SUBSET Blocks
      /\ m \in Objs
  BY DEF Live, InBounds, Objs
<1>2. \A k \in 0..Least(1, Len(b) - 1) : k \in 0..Len(b)
  BY <1>1 DEF Least
<1> DEFINE got(o) == \/ r = [m |-> Stored(o.m, b), heap |-> o.heap, exc |-> "none"]
                     \/ \E k \in 0..Len(b) :
                          r = [m |-> [o.m EXCEPT !.mem = Store(@, o.m.pos, SubSeq(b, 1, k))],
                               heap |-> o.heap, exc |-> "eof"]
           size == m.pos + Len(b)
<1>3. CASE size <= Size(m)
  <2> DEFINE o == [m |-> m, heap |-> h, exc |-> "none"]
  <2>1. got(o)
    BY <1>2, <1>3 DEF FromInput, Fine, Outcome
  <2>2. o.m = m /\ o.heap = h
    OBVIOUS
  <2> HIDE DEF o
  <2> QED BY <1>3, <2>1, <2>2, FromInputRead DEF Size
<1>4. CASE ~(size <= Size(m)) /\ kind = "fixed"
  <2>1. r = [m |-> m, heap |-> h, exc |-> "space"]
    BY <1>4 DEF FromInput, Outcome
  <2>2. "space" \in Excs
    BY DEF Excs
  <2>3. Sound(r, m, h)
    BY <1>1, <2>1, <2>2, InPlace
  <2>4. r.m = m /\ r.exc = "space"
    BY <2>1
  <2> QED BY <1>1, <2>3, <2>4 DEF Wrote, Begins
<1>5. CASE ~(size <= Size(m)) /\ kind # "fixed"
  <2>1. PICK o \in Resized(m, h, size) :
          \/ o.exc # "none" /\ r = o
          \/ o.exc = "none" /\ got(o)
    BY <1>2, <1>5 DEF FromInput, Then, Fine, Outcome
  <2> HIDE DEF got
  <2>2. size \in Nat /\ Len(m.mem) <= size
    BY <1>1, <1>5 DEF Size
  <2>3. /\ Sound(o, m, h) /\ o.m.pos = m.pos
        /\ o.exc = "none" => o.m.mem = Grown(m.mem, size)
        /\ o.exc # "none" => o.m = m
    BY <2>2, ResizedOK
  <2>4. CASE o.exc # "none"
    <3>1. r = o /\ r.m = m
      BY <2>1, <2>3, <2>4
    <3> QED BY <1>1, <2>3, <2>4, <3>1 DEF Wrote, Begins
  <2>5. CASE o.exc = "none"
    <3>1. Len(Grown(m.mem, size)) = size
      BY <1>1, <2>2, GrownOK
    <3>2. o.m.pos + Len(b) <= Len(o.m.mem)
      BY <2>2, <2>3, <2>5, <3>1
    <3>3. Live(o.m, o.heap)
      BY <2>3, SoundLive
    <3>4. Sound(r, o.m, o.heap) /\ Wrote(r, o.m, b, 0)
      BY <2>1, <2>5, <3>2, <3>3, FromInputRead DEF got
    <3>5. Agrees(o.m.mem, m.mem, m.pos, m.pos + Len(b))
      BY <1>1, <2>2, <2>3, <2>5, GrownAgrees
    <3> QED BY <2>3, <3>4, <3>5, WroteThrough
  <2> QED BY <2>4, <2>5
<1> QED BY <1>3, <1>4, <1>5

\* An object that is loaded has the bytes that were saved, and keeps its position.
LEMMA LoadedOK ==
  ASSUME NEW m, NEW h, Live(m, h), NEW w \in Seq(Int), NEW r \in Loaded(m, h, w)
  PROVE  /\ Sound(r, m, h) /\ r.m.pos = m.pos /\ (r.exc = "none" => r.m.mem = w)
         /\ r.exc \notin {"none", "eof"} => r.m = m
<1>1. Len(w) \in Nat
  OBVIOUS
<1>2. PICK o \in Resized(m, h, Len(w)) :
        \/ o.exc # "none" /\ r = o
        \/ /\ o.exc = "none"
           /\ \/ r = [m |-> [o.m EXCEPT !.mem = w], heap |-> o.heap, exc |-> "none"]
              \/ r = [m |-> [o.m EXCEPT !.mem = Grown(<<>>, Size(o.m))], heap |-> o.heap, exc |-> "eof"]
  BY DEF Loaded, Then, Fine, Outcome
<1>3. /\ Sound(o, m, h) /\ o.m.pos = m.pos
      /\ o.exc = "none" => o.m.mem = Grown(m.mem, Len(w)) /\ m.pos <= Len(w) /\ o.m.block # 0
      /\ o.exc # "none" => o.m = m
  BY <1>1, ResizedOK
<1>4. CASE o.exc # "none"
  BY <1>2, <1>3, <1>4
<1>5. CASE o.exc = "none"
  <2>1. PICK v \in {w, Grown(<<>>, Size(o.m))}, e \in {"none", "eof"} :
          r = [m |-> [o.m EXCEPT !.mem = v], heap |-> o.heap, exc |-> e] /\ (e = "none" => v = w)
    BY <1>2, <1>5
  <2>2. v \in Seq(Int) /\ Len(v) = Len(w)
    <3>1. m.mem \in Seq(Int)
      BY DEF Live, InBounds, Objs
    <3>2. Size(o.m) = Len(w)
      BY <1>1, <1>3, <1>5, <3>1, GrownOK, ZenonT(40) DEF Size
    <3>3. <<>> \in Seq(Int)
      OBVIOUS
    <3>4. Grown(<<>>, Len(w)) \in Seq(Int) /\ Len(Grown(<<>>, Len(w))) = Len(w)
      BY <1>1, <3>3, GrownOK
    <3> QED BY <2>1, <3>2, <3>4
  <2> DEFINE q == [o.m EXCEPT !.mem = v]
  <2>3. o.m \in [block : Blocks \cup {0}, mem : Seq(Int), pos : Nat]
    BY <1>3 DEF Sound, InBounds, Objs
  <2>4. q \in Objs /\ q.mem = v /\ q.pos = m.pos /\ q.block = o.m.block
    BY <1>3, <2>2, <2>3 DEF Objs
  <2>5. r = [m |-> q, heap |-> o.heap, exc |-> e]
    BY <2>1
  <2> HIDE DEF q
  <2>6. InBounds(q) /\ NullHasNone(q)
    BY <1>3, <1>5, <2>2, <2>4 DEF InBounds, NullHasNone
  <2>7. e \in Excs
    BY DEF Excs
  <2>8. Live(o.m, o.heap)
    BY <1>3, SoundLive
  <2>9. Sound(r, o.m, o.heap)
    BY <1>3, <2>4, <2>5, <2>6, <2>7, <2>8, InPlace
  <2>10. r.m = q /\ r.exc = e
    BY <2>5
  <2> QED BY <1>3, <2>1, <2>4, <2>9, <2>10, SoundTrans
<1> QED BY <1>4, <1>5

\* Memory that is new, or an exception and none.
LEMMA AllocOK ==
  ASSUME NEW h \in SUBSET Blocks, Blocks \ h # {}, NEW n \in Nat, NEW r \in Alloc(h, n)
  PROVE  /\ Sound(r, Null, h) /\ NullHasNone(r.m) /\ r.m.pos = 0
         /\ r.exc = "none" => Len(r.m.mem) = n
         /\ r.exc # "none" => r.m = Null /\ r.heap = h
<1> DEFINE b == FreshBlock(h)
           g == Grown(<<>>, n)
           x == [Null EXCEPT !.block = b, !.mem = g]
<1>1. b \in Blocks \ h /\ b # 0
  BY FreshOK DEF Blocks
<1>2. g \in Seq(Int) /\ Len(g) = n
  <2>1. <<>> \in Seq(Int)
    OBVIOUS
  <2> QED BY <2>1, GrownOK
<1>3. Null = [block |-> 0, mem |-> <<>>, pos |-> 0]
  BY DEF Null
<1>4. Null \in Objs /\ Null.mem = <<>> /\ Null.block = 0 /\ Null.pos = 0
  BY <1>3 DEF Objs
<1>10. Null \in [block : Blocks \cup {0}, mem : Seq(Int), pos : Nat]
  BY <1>4 DEF Objs
<1>5. \/ n = 0 /\ r = [m |-> Null, heap |-> h, exc |-> "none"]
      \/ r = [m |-> Null, heap |-> h, exc |-> "bad_alloc"]
      \/ r = [m |-> x, heap |-> h \cup {b}, exc |-> "none"]
  <2>2. CASE n = 0
    BY <2>2 DEF Alloc, Fine, Outcome
  <2>3. CASE n # 0
    <3>1. \/ r \in Fine(x, h \cup {b})
          \/ r \in Failed(Null, h)
      BY <2>3 DEF Alloc
    <3> HIDE DEF x, b, g
    <3>2. CASE r \in Failed(Null, h)
      BY <3>2 DEF Failed, Outcome
    <3> QED BY <3>1, <3>2 DEF Fine, Outcome
  <2> QED BY <2>2, <2>3
<1> HIDE DEF b, g
<1>6. x \in Objs /\ x.mem = g /\ x.block = b /\ x.pos = 0
  BY <1>1, <1>2, <1>4, <1>10 DEF Objs
<1> HIDE DEF x
<1>7. InBounds(Null) /\ InBounds(x) /\ NullHasNone(Null) /\ NullHasNone(x) /\ Len(Null.mem) = 0
  BY <1>1, <1>2, <1>4, <1>6 DEF InBounds, NullHasNone
<1>8. ASSUME NEW e \in {"none", "bad_alloc"}, r = [m |-> Null, heap |-> h, exc |-> e]
      PROVE  r.m = Null /\ r.heap = h /\ r.exc = e /\ Sound(r, Null, h)
  BY <1>4, <1>7, <1>8 DEF Sound, Outs, OwnsAs, Excs
<1>9. CASE r = [m |-> x, heap |-> h \cup {b}, exc |-> "none"]
  <2>1. r.m = x /\ r.heap = h \cup {b} /\ r.exc = "none" /\ r \in Outs
    BY <1>1, <1>6, <1>9 DEF Outs, Excs
  <2> QED BY <1>1, <1>2, <1>4, <1>6, <1>7, <2>1 DEF Sound, OwnsAs
<1> QED BY <1>4, <1>5, <1>7, <1>8, <1>9

(***************************************************************************)
(* The inductive invariant: the types, and who owns what.                  *)
(***************************************************************************)

\* What the objects, and what was released, are made of.
Parts ==
  /\ kind \in {"fixed", "grown"}
  /\ obj \in [{1, 2} -> Objs]
  /\ loose \in Objs /\ loose.pos = 0 /\ NullHasNone(loose)

IInv == TypeOK /\ Owned /\ Parts

\* Owned, of the three owners a, b and c of the blocks of h.
OwnedBy(h, a, b, c) ==
  /\ h = {a, b, c} \ {0}
  /\ a # 0 => a # b /\ a # c
  /\ b # 0 => b # c

\* Ownership as a relation of the heap and the three places that may own a block.
LEMMA OwnedIs == Owned <=> OwnedBy(heap, obj[1].block, obj[2].block, loose.block)
<1> DEFINE a == obj[1].block
           b == obj[2].block
           c == loose.block
           blocks == <<a, b, c>>
<1>1. /\ 1..3 = {1, 2, 3} /\ blocks[1] = a /\ blocks[2] = b /\ blocks[3] = c
  OBVIOUS
<1>2. Owned <=> /\ heap = {blocks[i] : i \in 1..3} \ {0}
                /\ \A i, j \in 1..3 : i # j /\ blocks[i] # 0 => blocks[i] # blocks[j]
  BY DEF Owned
<1> HIDE DEF a, b, c, blocks
<1>3. {blocks[i] : i \in 1..3} = {a, b, c}
  BY <1>1
<1>4. (\A i, j \in 1..3 : i # j /\ blocks[i] # 0 => blocks[i] # blocks[j])
      <=> (a # 0 => a # b /\ a # c) /\ (b # 0 => b # c)
  <2>1. (\A i, j \in {1, 2, 3} : i # j /\ blocks[i] # 0 => blocks[i] # blocks[j])
        <=> /\ (a # 0 => a # b) /\ (a # 0 => a # c) /\ (b # 0 => b # a)
            /\ (b # 0 => b # c) /\ (c # 0 => c # a) /\ (c # 0 => c # b)
    BY <1>1
  <2> QED BY <1>1, <2>1
<1>5. Owned <=> OwnedBy(heap, a, b, c)
  BY <1>2, <1>3, <1>4 DEF OwnedBy
<1> QED BY <1>5 DEF a, b, c

\* Three owners leave a block free.
LEMMA RoomLeft ==
  ASSUME NEW h, NEW a, NEW b, NEW c, h \subseteq {a, b, c}
  PROVE  Blocks \ h # {}
<1>1. Blocks = {1, 2, 3, 4}
  BY DEF Blocks
<1>2. \E x \in {1, 2, 3, 4} : x # a /\ x # b /\ x # c
  <2>1. CASE 1 \notin {a, b, c}
    BY <2>1
  <2>2. CASE 2 \notin {a, b, c}
    BY <2>2
  <2>3. CASE 3 \notin {a, b, c}
    BY <2>3
  <2>4. CASE 4 \notin {a, b, c}
    BY <2>4
  <2> QED BY <2>1, <2>2, <2>3, <2>4
<1> QED BY <1>1, <1>2

\* An owner keeps its block, or has one that was free.
LEMMA OwnedFirst ==
  ASSUME NEW h, NEW a, NEW b, NEW c, OwnedBy(h, a, b, c), NEW g, NEW x, 0 \notin Blocks,
         b \in Blocks \cup {0}, c \in Blocks \cup {0},
         \/ x = a /\ g = h
         \/ a = 0 /\ x \in Blocks \ h /\ g = h \cup {x}
  PROVE  OwnedBy(g, x, b, c)
<1>1. CASE x = a /\ g = h
  BY <1>1
<1>2. CASE a = 0 /\ x \in Blocks \ h /\ g = h \cup {x}
  <2>1. x # 0
    BY <1>2
  <2>2. x # b /\ x # c
    BY <1>2, <2>1 DEF OwnedBy
  <2>3. g = {x, b, c} \ {0}
    BY <1>2, <2>1 DEF OwnedBy
  <2> QED BY <2>2, <2>3 DEF OwnedBy
<1> QED BY <1>1, <1>2

\* Ownership does not depend on which place is named first.
LEMMA OwnedSwap ==
  ASSUME NEW h, NEW a, NEW b, NEW c, OwnedBy(h, a, b, c)
  PROVE  OwnedBy(h, b, a, c) /\ OwnedBy(h, c, b, a)
  BY DEF OwnedBy

\* A block that its owner frees, setting its pointer to null, leaves the others owned.
LEMMA OwnedFreed ==
  ASSUME NEW h, NEW a, NEW b, NEW c, OwnedBy(h, a, b, c)
  PROVE  OwnedBy(h \ {a}, 0, b, c)
  BY DEF OwnedBy

\* The null pointer names no block.
LEMMA NoBlockZero == 0 \notin Blocks
  BY DEF Blocks

\* Every object is one a method may begin with.
LEMMA IsLive ==
  IInv => /\ \A o \in {1, 2} : Live(obj[o], heap)
          /\ OwnedBy(heap, obj[1].block, obj[2].block, loose.block)
          /\ \A o \in {1, 2} : (o = 2 \/ kind = "grown") => NullHasNone(obj[o])
<1> SUFFICES ASSUME IInv
             PROVE  /\ \A o \in {1, 2} : Live(obj[o], heap)
                    /\ OwnedBy(heap, obj[1].block, obj[2].block, loose.block)
                    /\ \A o \in {1, 2} : (o = 2 \/ kind = "grown") => NullHasNone(obj[o])
  OBVIOUS
<1>1. OwnedBy(heap, obj[1].block, obj[2].block, loose.block)
  BY OwnedIs DEF IInv
<1>2. Blocks \ heap # {}
  <2>1. heap \subseteq {obj[1].block, obj[2].block, loose.block}
    BY <1>1 DEF OwnedBy
  <2> QED BY <2>1, RoomLeft
<1>3. ASSUME NEW o \in {1, 2} PROVE InBounds(obj[o])
  BY DEF IInv, Parts, TypeOK, InBounds, Objs, Size
<1>4. heap \subseteq Blocks
  BY DEF IInv, TypeOK
<1>5. ASSUME NEW o \in {1, 2}, obj[o].block # 0 PROVE obj[o].block \in heap
  BY <1>1, <1>5 DEF OwnedBy
<1>6. ASSUME NEW o \in {1, 2}, o = 2 \/ kind = "grown" PROVE NullHasNone(obj[o])
  BY <1>6 DEF IInv, TypeOK, NullHasNone
<1> QED BY <1>1, <1>2, <1>3, <1>4, <1>5, <1>6 DEF Live

\* What a step has to show of the object o it changed.
LEMMA StepKeeps ==
  ASSUME IInv, NEW o \in {1, 2}, NEW q, InBounds(q), Len(q.mem) <= MaxSize,
         (o = 2 \/ kind = "grown") => NullHasNone(q),
         obj' = [obj EXCEPT ![o] = q], kind' = kind, written' \in 0..MaxWritten,
         loose' \in Objs, loose'.pos = 0, NullHasNone(loose'),
         OwnedBy(heap', obj'[1].block, obj'[2].block, loose'.block)
  PROVE  IInv'
<1>1. obj \in [{1, 2} -> Objs] /\ q \in Objs /\ kind \in {"fixed", "grown"} /\ kind \in Kinds
  BY DEF IInv, Parts, TypeOK, InBounds
<1>2. obj' \in [{1, 2} -> Objs] /\ obj'[o] = q /\ \A p \in {1, 2} \ {o} : obj'[p] = obj[p]
  BY <1>1
<1>3. Parts'
  <2>1. NullHasNone(loose)'
    BY DEF NullHasNone
  <2> QED BY <1>1, <1>2, <2>1 DEF Parts
<1>4. Owned'
  <2>1. OwnedBy(heap, obj[1].block, obj[2].block, loose.block)'
    BY DEF OwnedBy
  <2>2. (Owned <=> OwnedBy(heap, obj[1].block, obj[2].block, loose.block))'
    BY OwnedIs, PTL
  <2> QED BY <2>1, <2>2
<1>5. TypeOK'
  <2>1. ASSUME NEW p \in {1, 2}
        PROVE  /\ obj'[p].mem \in Seq(Int) /\ Len(obj'[p].mem) <= MaxSize
               /\ obj'[p].pos \in 0..Len(obj'[p].mem)
               /\ obj'[p].block \in Blocks \cup {0}
               /\ (obj'[p].block = 0 /\ (p = 2 \/ kind = "grown")) => obj'[p].mem = <<>>
    <3>1. CASE p = o
      BY <1>1, <1>2, <3>1 DEF InBounds, Objs, NullHasNone
    <3>2. CASE p # o
      BY <1>2, <3>2 DEF IInv, TypeOK, Size
    <3> QED BY <3>1, <3>2
  <2>2. heap' \subseteq Blocks
    <3>1. /\ obj'[1].block \in Blocks \cup {0} /\ obj'[2].block \in Blocks \cup {0}
          /\ loose'.block \in Blocks \cup {0}
      BY <2>1 DEF Objs
    <3> QED BY <3>1 DEF OwnedBy
  <2> QED BY <1>1, <2>1, <2>2 DEF TypeOK, Size
<1> QED BY <1>3, <1>4, <1>5 DEF IInv

\* A method of object o that is sound.
LEMMA SoundKeeps ==
  ASSUME IInv, NEW o \in {1, 2}, NEW r, Sound(r, obj[o], heap), Len(r.m.mem) <= MaxSize,
         obj' = [obj EXCEPT ![o] = r.m], heap' = r.heap, kind' = kind, loose' = loose,
         written' \in 0..MaxWritten
  PROVE  IInv'
<1>1. /\ Live(obj[o], heap) /\ OwnedBy(heap, obj[1].block, obj[2].block, loose.block)
      /\ (o = 2 \/ kind = "grown") => NullHasNone(obj[o])
  BY IsLive
<1>2. /\ obj \in [{1, 2} -> Objs] /\ loose \in Objs /\ loose.pos = 0 /\ NullHasNone(loose)
      /\ r.m \in Objs /\ r.heap \in SUBSET Blocks
  BY DEF IInv, Parts, Sound, InBounds, Outs
<1>3. /\ obj[1].block \in Blocks \cup {0} /\ obj[2].block \in Blocks \cup {0}
      /\ loose.block \in Blocks \cup {0}
  BY <1>2 DEF Objs
<1>4. \/ r.m.block = obj[o].block /\ r.heap = heap
      \/ /\ obj[o].block = 0 /\ r.m.block \in Blocks \ heap /\ r.heap = heap \cup {r.m.block}
  BY DEF Sound, OwnsAs
<1>5. OwnedBy(heap', obj'[1].block, obj'[2].block, loose'.block)
  <2>1. CASE o = 1
    <3>1. obj'[1] = r.m /\ obj'[2] = obj[2]
      BY <1>2, <2>1
    <3>2. OwnedBy(r.heap, r.m.block, obj[2].block, loose.block)
      BY <1>1, <1>3, <1>4, <2>1, NoBlockZero, OwnedFirst
    <3> QED BY <3>1, <3>2
  <2>2. CASE o = 2
    <3>1. obj'[2] = r.m /\ obj'[1] = obj[1]
      BY <1>2, <2>2
    <3>2. OwnedBy(heap, obj[2].block, obj[1].block, loose.block)
      BY <1>1, OwnedSwap
    <3>3. OwnedBy(r.heap, r.m.block, obj[1].block, loose.block)
      BY <1>3, <1>4, <2>2, <3>2, NoBlockZero, OwnedFirst
    <3>4. OwnedBy(r.heap, obj[1].block, r.m.block, loose.block)
      BY <3>3, OwnedSwap
    <3> QED BY <3>1, <3>4
  <2> QED BY <2>1, <2>2
<1>6. InBounds(r.m) /\ ((o = 2 \/ kind = "grown") => NullHasNone(r.m))
  BY <1>1 DEF Sound
<1>7. loose' \in Objs /\ loose'.pos = 0 /\ NullHasNone(loose')
  BY <1>2
<1> QED BY <1>5, <1>6, <1>7, StepKeeps

(***************************************************************************)
(* What the actions do.                                                    *)
(***************************************************************************)

\* A call on object o has the outcome r.
Does(o, r) ==
  /\ Sound(r, obj[o], heap) /\ Len(r.m.mem) <= MaxSize
  /\ obj' = [obj EXCEPT ![o] = r.m] /\ heap' = r.heap
  /\ kind' = kind /\ loose' = loose /\ written' \in 0..MaxWritten
  /\ call'.obj = o /\ call'.exc = r.exc

\* A call that writes what it returns in bytes, and what is behind.
DoesWrite(r) ==
  /\ Does(1, r) /\ call'.op = "write" /\ call'.bytes \in Seq(Int)
  /\ Wrote(r, obj[1], call'.bytes, 0)

DoesPrint(r) ==
  /\ Does(1, r) /\ call'.op = "print" /\ call'.bytes \in Seq(Int)
  /\ Said(r, obj[1], call'.bytes)

DoesRead(r) ==
  /\ Does(1, r) /\ call'.op = "read" /\ r.m.mem = obj[1].mem
  /\ r.exc # "none" => r.m.pos = obj[1].pos
  /\ r.exc = "none" =>
       /\ call'.bytes = SubSeq(obj[1].mem, obj[1].pos + 1, r.m.pos) /\ call'.bytes \in Seq(Int)
       /\ r.m.pos = obj[1].pos + Len(call'.bytes)

DoesSeek(r) ==
  /\ Does(1, r) /\ call'.op = "seek" /\ r.m.mem = obj[1].mem
  /\ r.m.pos = IF r.exc = "none" THEN call'.at ELSE obj[1].pos

DoesResize(r) ==
  /\ Does(1, r) /\ call'.op = "resize" /\ r.m.pos = obj[1].pos /\ call'.at \in Nat
  /\ r.m.mem = IF r.exc = "none" THEN Grown(obj[1].mem, call'.at) ELSE obj[1].mem

DoesLoad(r) ==
  /\ Does(2, r) /\ call'.op = "load" /\ r.m.pos = obj[2].pos
  /\ r.exc = "none" => r.m.mem = Saved(obj[1])
  /\ r.exc \notin {"none", "eof"} => r.m = obj[2]

\* A call's data has the length asked for.
LEMMA DataOK ==
  ASSUME written \in Nat, NEW n \in Nat
  PROVE  Data(n) \in Seq(Int) /\ Len(Data(n)) = n
<1> DEFINE d == Data(n)
<1>1. d \in [1..n -> Int]
  BY DEF Data
<1> HIDE DEF d
<1>2. d \in Seq(Int) /\ Len(d) = n
  BY <1>1
<1> QED BY <1>2 DEF d

\* What the invariant says of the numbers.
LEMMA Sizes1 ==
  IInv => /\ written \in Nat /\ MaxSize \in Nat /\ MaxOther \in Nat /\ MaxOther <= MaxSize
          /\ \A o \in {1, 2} : /\ InBounds(obj[o]) /\ obj[o].mem \in Seq(Int)
                               /\ Len(obj[o].mem) \in Nat /\ Len(obj[o].mem) <= MaxSize
                               /\ obj[o].pos \in 0..Len(obj[o].mem) /\ obj[o].pos \in Nat
                               /\ obj[o].block \in Blocks \cup {0}
                               /\ obj[o] \in [block : Blocks \cup {0}, mem : Seq(Int), pos : Nat]
          /\ obj \in [{1, 2} -> Objs] /\ heap \in SUBSET Blocks /\ loose \in Objs
  BY NumbersAssumption, BoundsAssumption DEF IInv, TypeOK, Parts, InBounds, Objs, Size

\* Return with an outcome that is sound.
LEMMA ReturnDoes ==
  ASSUME IInv, NEW o \in {1, 2}, NEW op, NEW b, NEW at, NEW r, Return(op, o, b, at, r),
         Sound(r, obj[o], heap), kind' = kind, loose' = loose, written' \in 0..MaxWritten
  PROVE  /\ Does(o, r) /\ call'.op = op /\ call'.bytes = b /\ call'.at = at
         /\ call'.obj = o /\ call'.exc = r.exc
<1>1. call' = [op |-> op, obj |-> o, bytes |-> b, at |-> at, exc |-> r.exc]
  BY DEF Return, Called
<1>2. /\ call'.op = op /\ call'.bytes = b /\ call'.at = at
      /\ call'.obj = o /\ call'.exc = r.exc
  BY <1>1
<1>3. Len(r.m.mem) <= MaxSize
  <2>1. Len(r.m.mem) <= IF o = 1 THEN MaxSize ELSE MaxOther
    BY DEF Return, Size
  <2>2. Len(r.m.mem) \in Nat
    BY DEF Sound, InBounds, Objs
  <2> QED BY <2>1, <2>2, Sizes1
<1>4. obj' = [obj EXCEPT ![o] = r.m] /\ heap' = r.heap
  BY DEF Return
<1> QED BY <1>2, <1>3, <1>4 DEF Does

\* The bytes that are counted stay in bounds.
LEMMA WritesOK ==
  ASSUME IInv, NEW n \in Nat, Writes(n)
  PROVE  written' \in 0..MaxWritten
  BY NumbersAssumption DEF IInv, TypeOK, Writes

\* ensureWrite is a sound write.
LEMMA EnsureWriteDoes ==
  ASSUME IInv, NEW len \in Lengths, EnsureWrite(len)
  PROVE  \E r : DoesWrite(r)
<1> DEFINE b == Data(len)
           m == obj[1]
           size == SizeForWrite(m, len)
<1>1. len \in Nat /\ Chunk \in Nat
  BY NumbersAssumption
<1>2. b \in Seq(Int) /\ Len(b) = len
  BY <1>1, DataOK, Sizes1
<1>3. Live(m, heap) /\ Len(m.mem) \in Nat /\ m.pos \in 0..Len(m.mem)
  BY IsLive, Sizes1
<1>4. PICK r \in EnsureWritten(m, heap, b, size) : Return("write", 1, b, 0, r)
  BY DEF EnsureWrite, one
<1>5. size \in Nat /\ m.pos + len <= size /\ Len(m.mem) <= size
  <2> DEFINE l == Len(m.mem)
             p == m.pos
  <2>1. l \in Nat /\ p \in 0..l /\ size = Greatest(l + Greatest(len, l), Chunk)
    BY <1>3 DEF SizeForWrite, Size
  <2> HIDE DEF l, p, size
  <2>2. size \in Nat /\ p + len <= size /\ l <= size
    BY <1>1, <2>1 DEF Greatest
  <2> QED BY <2>2 DEF l, p
<1> HIDE DEF b, m, size
<1>6. Sound(r, m, heap) /\ Wrote(r, m, b, 0)
  BY <1>2, <1>3, <1>4, <1>5, EnsureWrittenOK DEF Size
<1>7. kind' = kind /\ loose' = loose /\ written' \in 0..MaxWritten
  BY <1>1, WritesOK DEF EnsureWrite
<1>8. Does(1, r) /\ call'.op = "write" /\ call'.bytes = b
  BY <1>4, <1>6, <1>7, ReturnDoes DEF m
<1> QED BY <1>2, <1>6, <1>8 DEF DoesWrite, m

\* writeByte is a sound write of one byte.
LEMMA WriteByteDoes ==
  ASSUME IInv, WriteByte
  PROVE  \E r : DoesWrite(r)
<1> DEFINE b == Data(1)
           m == obj[1]
           size == SizeForByte(m)
<1>1. 1 \in Nat /\ Chunk \in Nat \ {0}
  BY NumbersAssumption
<1>2. b \in Seq(Int) /\ Len(b) = 1
  BY <1>1, DataOK, Sizes1
<1>3. Live(m, heap) /\ Len(m.mem) \in Nat /\ m.pos \in 0..Len(m.mem)
  BY IsLive, Sizes1
<1>4. PICK r \in EnsureWritten(m, heap, b, size) : Return("write", 1, b, 0, r)
  BY DEF WriteByte, one
<1>5. size \in Nat /\ m.pos + 1 <= size /\ Len(m.mem) <= size
  <2> DEFINE l == Len(m.mem)
             p == m.pos
  <2>1. l \in Nat /\ p \in 0..l /\ size = Greatest(2 * l, Chunk)
    BY <1>3 DEF SizeForByte, Size
  <2> HIDE DEF l, p, size
  <2>2. size \in Nat /\ p + 1 <= size /\ l <= size
    BY <1>1, <2>1 DEF Greatest
  <2> QED BY <2>2 DEF l, p
<1> HIDE DEF b, m, size
<1>6. Sound(r, m, heap) /\ Wrote(r, m, b, 0)
  BY <1>2, <1>3, <1>4, <1>5, EnsureWrittenOK DEF Size
<1>7. kind' = kind /\ loose' = loose /\ written' \in 0..MaxWritten
  BY <1>1, WritesOK DEF WriteByte
<1>8. Does(1, r) /\ call'.op = "write" /\ call'.bytes = b
  BY <1>4, <1>6, <1>7, ReturnDoes DEF m
<1> QED BY <1>2, <1>6, <1>8 DEF DoesWrite, m

\* from_input is a sound write.
LEMMA FromStreamDoes ==
  ASSUME IInv, NEW len \in Lengths, FromStream(len)
  PROVE  \E r : DoesWrite(r)
<1> DEFINE b == Data(len)
           m == obj[1]
<1>1. len \in Nat
  BY NumbersAssumption
<1>2. b \in Seq(Int)
  BY <1>1, DataOK, Sizes1
<1>3. PICK r \in FromInput(m, heap, b) : Return("write", 1, b, 0, r)
  BY DEF FromStream, one
<1>4. Live(m, heap)
  BY IsLive
<1> HIDE DEF b, m
<1>5. Sound(r, m, heap) /\ Wrote(r, m, b, 0)
  BY <1>2, <1>3, <1>4, FromInputOK
<1>6. kind' = kind /\ loose' = loose /\ written' \in 0..MaxWritten
  BY <1>1, WritesOK DEF FromStream
<1>7. Does(1, r) /\ call'.op = "write" /\ call'.bytes = b
  BY <1>3, <1>5, <1>6, ReturnDoes DEF m
<1> QED BY <1>2, <1>5, <1>7 DEF DoesWrite, m

\* vprintf is a sound print.
LEMMA VprintDoes ==
  ASSUME IInv, NEW len \in Lengths, Vprint(len)
  PROVE  \E r : DoesPrint(r)
<1> DEFINE b == Data(len)
           m == obj[1]
<1>1. len \in Nat
  BY NumbersAssumption
<1>2. b \in Seq(Int)
  BY <1>1, DataOK, Sizes1
<1>3. PICK r \in Vprintf(m, heap, b) : Return("print", 1, b, 0, r)
  BY DEF Vprint, one
<1>4. Live(m, heap)
  BY IsLive
<1> HIDE DEF b, m
<1>5. Sound(r, m, heap) /\ Said(r, m, b)
  BY <1>2, <1>3, <1>4, VprintfOK
<1>6. kind' = kind /\ loose' = loose /\ written' \in 0..MaxWritten
  BY <1>1, WritesOK DEF Vprint
<1>7. Does(1, r) /\ call'.op = "print" /\ call'.bytes = b
  BY <1>3, <1>5, <1>6, ReturnDoes DEF m
<1> QED BY <1>2, <1>5, <1>7 DEF DoesPrint, m

\* write of the fixed kind is a sound write of what fits.
LEMMA WriteSomeDoes ==
  ASSUME IInv, NEW len \in Lengths, WriteSome(len)
  PROVE  \E r : DoesWrite(r)
<1> DEFINE m == obj[1]
           k == Least(len, Size(m) - m.pos)
           b == SubSeq(Data(len), 1, k)
           r == Outcome(Stored(m, b), heap, "none")
<1>1. len \in Nat
  BY NumbersAssumption
<1>2. Data(len) \in Seq(Int) /\ Len(Data(len)) = len
  BY <1>1, DataOK, Sizes1
<1>3. Live(m, heap) /\ Len(m.mem) \in Nat /\ m.pos \in 0..Len(m.mem)
  BY IsLive, Sizes1
<1>4. Return("write", 1, b, 0, r)
  BY DEF WriteSome, one
<1>5. k \in 0..len /\ m.pos + k <= Len(m.mem)
  BY <1>1, <1>3 DEF Least, Size
<1> HIDE DEF m, k
<1>6. b \in Seq(Int) /\ Len(b) = k
  BY <1>2, <1>5, KeptOK
<1> HIDE DEF b
<1>7. r = [m |-> Stored(m, b), heap |-> heap, exc |-> "none"]
  BY DEF Outcome
<1> HIDE DEF r
<1>8. Sound(r, m, heap) /\ Wrote(r, m, b, 0)
  BY <1>3, <1>5, <1>6, <1>7, FromInputRead
<1>9. kind' = kind /\ loose' = loose /\ written' \in 0..MaxWritten
  BY <1>1, WritesOK DEF WriteSome
<1>10. Does(1, r) /\ call'.op = "write" /\ call'.bytes = b
  BY <1>4, <1>8, <1>9, ReturnDoes DEF m
<1> QED BY <1>6, <1>8, <1>10 DEF DoesWrite, m

\* An object that moves only its position.
LEMMA MovedOK ==
  ASSUME NEW m, NEW h, Live(m, h), NEW p \in 0..Len(m.mem), NEW e \in Excs,
         e # "none" => p = m.pos
  PROVE  LET q == [m EXCEPT !.pos = p]
         IN  /\ q.mem = m.mem /\ q.pos = p /\ q.block = m.block
             /\ Sound([m |-> q, heap |-> h, exc |-> e], m, h)
<1> DEFINE q == [m EXCEPT !.pos = p]
<1>1. m \in [block : Blocks \cup {0}, mem : Seq(Int), pos : Nat] /\ p \in Nat
  BY DEF Live, InBounds, Objs
<1>2. q.mem = m.mem /\ q.pos = p /\ q.block = m.block /\ q \in Objs
  BY <1>1 DEF Objs
<1> HIDE DEF q
<1>3. InBounds(q) /\ (NullHasNone(m) => NullHasNone(q))
  BY <1>2 DEF InBounds, NullHasNone
<1>4. Sound([m |-> q, heap |-> h, exc |-> e], m, h)
  BY <1>2, <1>3, InPlace
<1> QED BY <1>2, <1>4 DEF q

\* A read of n bytes that are there.
LEMMA ReadSome ==
  ASSUME IInv, NEW n \in Nat, obj[1].pos + n <= Len(obj[1].mem),
         obj' = [obj EXCEPT ![1].pos = @ + n],
         Called("read", 1, SubSeq(obj[1].mem, obj[1].pos + 1, obj[1].pos + n), 0, "none"),
         UNCHANGED <<kind, heap, loose, written>>
  PROVE  \E r : DoesRead(r)
<1> DEFINE m == obj[1]
           p == m.pos + n
           q == [m EXCEPT !.pos = p]
           r == [m |-> q, heap |-> heap, exc |-> "none"]
           b == SubSeq(m.mem, m.pos + 1, p)
<1>1. /\ Live(m, heap) /\ m.mem \in Seq(Int) /\ m.pos \in Nat /\ Len(m.mem) <= MaxSize
      /\ m \in [block : Blocks \cup {0}, mem : Seq(Int), pos : Nat] /\ obj \in [{1, 2} -> Objs]
      /\ "none" \in Excs /\ p \in 0..Len(m.mem) /\ p \in Nat
  BY IsLive, Sizes1, SMTT(20) DEF Excs
<1>2. b \in Seq(Int) /\ Len(b) = n
  BY <1>1, PartOK
<1>3. obj' = [obj EXCEPT ![1] = q]
  BY <1>1
<1>4. call'.op = "read" /\ call'.obj = 1 /\ call'.bytes = b /\ call'.exc = "none"
  BY DEF Called
<1>5. written' \in 0..MaxWritten /\ kind' = kind /\ loose' = loose /\ heap' = heap
  BY DEF IInv, TypeOK
<1>6. q.mem = m.mem /\ q.pos = p /\ Sound(r, m, heap)
  BY <1>1, MovedOK
<1> HIDE DEF q
<1>7. r.m = q /\ r.heap = heap /\ r.exc = "none"
  OBVIOUS
<1> HIDE DEF r, b
<1>8. Does(1, r)
  BY <1>1, <1>3, <1>4, <1>5, <1>6, <1>7 DEF Does
<1>9. b = SubSeq(obj[1].mem, obj[1].pos + 1, r.m.pos) /\ r.m.pos = obj[1].pos + Len(b)
  BY <1>2, <1>6, <1>7 DEF b
<1>10. r.m.mem = obj[1].mem
  BY <1>6, <1>7
<1> QED BY <1>2, <1>4, <1>7, <1>8, <1>9, <1>10 DEF DoesRead

\* read is a sound read of at most what is left.
LEMMA ReadDoes ==
  ASSUME IInv, NEW len \in Lengths, Read(len)
  PROVE  \E r : DoesRead(r)
<1> DEFINE n == Least(len, Size(one) - one.pos)
<1>1. len \in Nat /\ obj[1].pos \in 0..Len(obj[1].mem) /\ Len(obj[1].mem) \in Nat
  BY NumbersAssumption, Sizes1
<1>2. n \in Nat /\ obj[1].pos + n <= Len(obj[1].mem)
  BY <1>1 DEF Least, Size, one
<1>3. /\ obj' = [obj EXCEPT ![1].pos = @ + n]
      /\ Called("read", 1, SubSeq(obj[1].mem, obj[1].pos + 1, obj[1].pos + n), 0, "none")
      /\ UNCHANGED <<kind, heap, loose, written>>
  BY DEF Read, one
<1> HIDE DEF n
<1> QED BY <1>2, <1>3, ReadSome

\* A call that does nothing to its object, which it fails.
LEMMA NothingDone ==
  ASSUME IInv, NEW o \in {1, 2}, NEW e \in Excs
  PROVE  /\ Sound([m |-> obj[o], heap |-> heap, exc |-> e], obj[o], heap)
         /\ obj = [obj EXCEPT ![o] = obj[o]]
<1>1. Live(obj[o], heap) /\ obj \in [{1, 2} -> Objs] /\ InBounds(obj[o])
  BY IsLive, Sizes1
<1>2. obj = [obj EXCEPT ![o] = obj[o]]
  BY <1>1
<1> QED BY <1>1, <1>2, InPlace

\* ensureRead is a sound read of all that was asked, or fails and reads nothing.
LEMMA EnsureReadDoes ==
  ASSUME IInv, NEW len \in Lengths, EnsureRead(len)
  PROVE  \E r : DoesRead(r)
<1>1. len \in Nat
  BY NumbersAssumption
<1>2. CASE one.pos + len <= Size(one)
  <2>1. /\ obj' = [obj EXCEPT ![1].pos = @ + len]
        /\ Called("read", 1, SubSeq(obj[1].mem, obj[1].pos + 1, obj[1].pos + len), 0, "none")
        /\ UNCHANGED <<kind, heap, loose, written>> /\ obj[1].pos + len <= Len(obj[1].mem)
    BY <1>2 DEF EnsureRead, one, Size
  <2> QED BY <1>1, <2>1, ReadSome
<1>3. CASE ~(one.pos + len <= Size(one))
  <2> DEFINE r == [m |-> obj[1], heap |-> heap, exc |-> "eof"]
  <2>1. /\ obj' = obj /\ call'.op = "read" /\ call'.obj = 1 /\ call'.exc = "eof"
        /\ kind' = kind /\ heap' = heap /\ loose' = loose /\ written' = written
    BY <1>3 DEF EnsureRead, Called
  <2>2. "eof" \in Excs
    BY DEF Excs
  <2>3. Sound(r, obj[1], heap) /\ obj = [obj EXCEPT ![1] = obj[1]]
    BY <2>2, NothingDone
  <2>4. r.m = obj[1] /\ r.heap = heap /\ r.exc = "eof"
    OBVIOUS
  <2> HIDE DEF r
  <2>5. written \in 0..MaxWritten
    BY DEF IInv, TypeOK
  <2>6. Does(1, r)
    BY <2>1, <2>3, <2>4, <2>5, Sizes1 DEF Does
  <2> QED BY <2>1, <2>4, <2>6 DEF DoesRead
<1> QED BY <1>2, <1>3

\* seek is a sound move within the block, or fails and moves nothing.
LEMMA SeekToDoes ==
  ASSUME IInv, NEW p, SeekTo(p), UNCHANGED <<kind, loose, written>>
  PROVE  \E r : DoesSeek(r)
<1> DEFINE m == obj[1]
<1>1. /\ Live(m, heap) /\ kind' = kind /\ loose' = loose /\ written' \in 0..MaxWritten
      /\ "none" \in Excs /\ "invalid_argument" \in Excs
  BY IsLive DEF IInv, TypeOK, Excs
<1>2. CASE p \in 0..Size(one)
  <2> DEFINE q == [m EXCEPT !.pos = p]
             r == [m |-> q, heap |-> heap, exc |-> "none"]
  <2>1. Return("seek", 1, NoBytes, p, r)
    BY <1>2 DEF SeekTo, one, Outcome
  <2>2. q.mem = m.mem /\ q.pos = p /\ Sound(r, m, heap)
    BY <1>1, <1>2, MovedOK DEF one, Size
  <2> HIDE DEF q
  <2>3. r.m = q /\ r.exc = "none"
    OBVIOUS
  <2> HIDE DEF r
  <2>4. Does(1, r) /\ call'.op = "seek" /\ call'.at = p
    BY <1>1, <2>1, <2>2, ReturnDoes
  <2> QED BY <2>2, <2>3, <2>4 DEF DoesSeek
<1>3. CASE ~(p \in 0..Size(one))
  <2> DEFINE r == [m |-> m, heap |-> heap, exc |-> "invalid_argument"]
  <2>1. Return("seek", 1, NoBytes, p, r)
    BY <1>3 DEF SeekTo, one, Outcome
  <2>2. Sound(r, m, heap)
    BY <1>1, NothingDone
  <2>3. r.m = m /\ r.exc = "invalid_argument"
    OBVIOUS
  <2> HIDE DEF r
  <2>4. Does(1, r) /\ call'.op = "seek" /\ call'.at = p
    BY <1>1, <2>1, <2>2, ReturnDoes
  <2> QED BY <2>3, <2>4 DEF DoesSeek
<1> QED BY <1>2, <1>3

\* A resize is sound whether it succeeds, finds no memory, or is refused below the position.
LEMMA ResizedDoes ==
  ASSUME IInv, NEW n \in Nat, NEW r \in Resized(obj[1], heap, n),
         Return("resize", 1, NoBytes, n, r), UNCHANGED <<kind, loose, written>>
  PROVE  DoesResize(r)
<1>1. Live(obj[1], heap) /\ kind' = kind /\ loose' = loose /\ written' \in 0..MaxWritten
  BY IsLive DEF IInv, TypeOK
<1>2. /\ Sound(r, obj[1], heap) /\ r.m.pos = obj[1].pos
      /\ r.exc = "none" => r.m.mem = Grown(obj[1].mem, n)
      /\ r.exc # "none" => r.m = obj[1]
  BY <1>1, ResizedOK
<1>3. Does(1, r) /\ call'.op = "resize" /\ call'.at = n
  BY <1>1, <1>2, ReturnDoes
<1> QED BY <1>2, <1>3 DEF DoesResize

\* resize and grow are sound resizes.
LEMMA ResizeDoes ==
  ASSUME IInv, NEW n \in Sizes, Resize(n) \/ Grow(n)
  PROVE  \E r : DoesResize(r)
<1>1. PICK new \in Nat : \E r \in Resized(obj[1], heap, new) :
        Return("resize", 1, NoBytes, new, r)
  <2>1. CASE Resize(n)
    BY <2>1, NumbersAssumption DEF Resize, one
  <2>2. CASE Grow(n)
    <3>1. \A new \in 0..MaxSize : new \in Nat
      BY Sizes1
    <3> QED BY <2>2, <3>1 DEF Grow, one
  <2> QED BY <2>1, <2>2
<1>2. UNCHANGED <<kind, loose, written>>
  BY DEF Resize, Grow
<1>3. PICK r \in Resized(obj[1], heap, new) : Return("resize", 1, NoBytes, new, r)
  BY <1>1
<1> QED BY <1>2, <1>3, ResizedDoes

\* The second object loads what the first one saved: a sound step of the second.
LEMMA LoadDoes ==
  ASSUME IInv, Load
  PROVE  \E r : DoesLoad(r)
<1> DEFINE m == obj[2]
           w == Saved(obj[1])
<1>1. Live(m, heap) /\ kind' = kind /\ loose' = loose /\ written' \in 0..MaxWritten
  BY IsLive DEF IInv, TypeOK, Load
<1>2. w \in Seq(Int)
  BY Sizes1, KeptOK DEF Saved
<1>3. PICK r \in Loaded(m, heap, w) : Return("load", 2, NoBytes, 0, r)
  BY DEF Load, one
<1> HIDE DEF w
<1>4. /\ Sound(r, m, heap) /\ r.m.pos = m.pos /\ (r.exc = "none" => r.m.mem = w)
      /\ r.exc \notin {"none", "eof"} => r.m = m
  BY <1>1, <1>2, <1>3, LoadedOK
<1>5. Does(2, r) /\ call'.op = "load"
  BY <1>1, <1>3, <1>4, ReturnDoes
<1> QED BY <1>4, <1>5 DEF DoesLoad, w

(***************************************************************************)
(* What the actions do that free memory, or let it change hands.           *)
(***************************************************************************)

\* Object o is now q, which is no larger than it may be.
Becomes(o, q) == InBounds(q) /\ Len(q.mem) <= MaxSize /\ obj' = [obj EXCEPT ![o] = q]

\* StepKeeps, for a step of Return.
LEMMA BecomesKeeps ==
  ASSUME IInv, NEW o \in {1, 2}, NEW q, InBounds(q), NullHasNone(q),
         NEW op, NEW b, NEW at, NEW r, Return(op, o, b, at, r), r.m = q,
         kind' = kind, written' = written,
         loose' \in Objs, loose'.pos = 0, NullHasNone(loose'),
         NEW x, NEW y, OwnedBy(r.heap, x, y, loose'.block),
         IF o = 1 THEN x = q.block /\ y = obj[2].block ELSE x = obj[1].block /\ y = q.block
  PROVE  IInv' /\ Becomes(o, q)
<1>1. /\ obj' = [obj EXCEPT ![o] = q] /\ heap' = r.heap
      /\ Len(q.mem) <= IF o = 1 THEN MaxSize ELSE MaxOther
  BY DEF Return, Size
<1>2. Len(q.mem) <= MaxSize
  <2>1. Len(q.mem) \in Nat
    BY DEF InBounds, Objs
  <2> QED BY <1>1, <2>1, Sizes1
<1>3. written' \in 0..MaxWritten
  BY DEF IInv, TypeOK
<1>4. obj \in [{1, 2} -> Objs]
  BY Sizes1
<1>5. obj'[1].block = x /\ obj'[2].block = y
  BY <1>1, <1>4
<1>6. OwnedBy(heap', obj'[1].block, obj'[2].block, loose'.block)
  BY <1>1, <1>5
<1>7. IInv'
  BY <1>1, <1>2, <1>3, <1>6, StepKeeps
<1> QED BY <1>1, <1>2, <1>7 DEF Becomes

\* The null object is in bounds and owns nothing.
LEMMA NullOK ==
  Null \in Objs /\ InBounds(Null) /\ NullHasNone(Null) /\ Null.mem = <<>> /\ Null.pos = 0
  /\ Null.block = 0 /\ Len(Null.mem) = 0
<1>1. Null.mem = <<>> /\ Null.pos = 0 /\ Null.block = 0 /\ Null \in Objs
  BY DEF Null, Objs
<1>2. Len(Null.mem) = 0
  BY <1>1
<1> QED BY <1>1, <1>2 DEF InBounds, NullHasNone

\* What the invariant says of the blocks.
LEMMA Owners ==
  IInv => /\ OwnedBy(heap, obj[1].block, obj[2].block, loose.block)
          /\ obj[1].block \in Blocks \cup {0} /\ obj[2].block \in Blocks \cup {0}
          /\ loose.block \in Blocks \cup {0}
          /\ heap \in SUBSET Blocks /\ Blocks \ heap # {}
          /\ loose \in Objs /\ loose.pos = 0 /\ NullHasNone(loose)
<1> SUFFICES ASSUME IInv
             PROVE  /\ OwnedBy(heap, obj[1].block, obj[2].block, loose.block)
                    /\ obj[1].block \in Blocks \cup {0} /\ obj[2].block \in Blocks \cup {0}
                    /\ loose.block \in Blocks \cup {0}
                    /\ heap \in SUBSET Blocks /\ Blocks \ heap # {}
                    /\ loose \in Objs /\ loose.pos = 0 /\ NullHasNone(loose)
  OBVIOUS
<1>1. OwnedBy(heap, obj[1].block, obj[2].block, loose.block)
  BY IsLive
<1>2. heap \subseteq {obj[1].block, obj[2].block, loose.block}
  BY <1>1 DEF OwnedBy
<1>3. Blocks \ heap # {}
  BY <1>2, RoomLeft
<1>4. loose \in Objs /\ loose.pos = 0 /\ NullHasNone(loose)
  BY DEF IInv, Parts
<1>5. loose.block \in Blocks \cup {0}
  BY <1>4 DEF Objs
<1> QED BY <1>1, <1>3, <1>4, <1>5, Sizes1

\* init frees the old block first, so a failure leaves the null object.
LEMMA ReinitDoes ==
  ASSUME IInv, NEW n \in Sizes, Reinit(n)
  PROVE  /\ IInv' /\ call'.op = "init" /\ call'.obj = 1
         /\ \E q : /\ Becomes(1, q) /\ q.pos = 0
                   /\ Len(q.mem) = IF call'.exc = "none" THEN call'.at ELSE 0
<1> DEFINE h == heap \ {obj[1].block}
<1>1. n \in Nat /\ kind' = kind /\ written' = written /\ loose' = loose
  BY NumbersAssumption DEF Reinit
<1>2. PICK r \in Alloc(h, n) : Return("init", 1, NoBytes, n, r)
  BY DEF Reinit, one
<1>3. h \in SUBSET Blocks /\ Blocks \ h # {}
  BY Owners
<1>4. OwnedBy(h, 0, obj[2].block, loose.block)
  BY Owners, OwnedFreed
<1> HIDE DEF h
<1>5. /\ Sound(r, Null, h) /\ NullHasNone(r.m) /\ r.m.pos = 0
      /\ r.exc = "none" => Len(r.m.mem) = n
      /\ r.exc # "none" => r.m = Null /\ r.heap = h
  BY <1>1, <1>2, <1>3, AllocOK
<1>6. OwnedBy(r.heap, r.m.block, obj[2].block, loose.block)
  <2>1. \/ r.m.block = 0 /\ r.heap = h
        \/ r.m.block \in Blocks \ h /\ r.heap = h \cup {r.m.block}
    BY <1>5, NullOK DEF Sound, OwnsAs
  <2> QED BY <1>4, <2>1, Owners, NoBlockZero, OwnedFirst
<1>7. InBounds(r.m)
  BY <1>5 DEF Sound
<1>8. IInv' /\ Becomes(1, r.m)
  BY <1>1, <1>2, <1>5, <1>6, <1>7, Owners, BecomesKeeps
<1>9. call'.op = "init" /\ call'.obj = 1 /\ call'.exc = r.exc /\ call'.at = n
  BY <1>2 DEF Return, Called
<1>10. Len(r.m.mem) = IF call'.exc = "none" THEN call'.at ELSE 0
  BY <1>5, <1>9, NullOK
<1> QED BY <1>5, <1>8, <1>9, <1>10

\* shrink_to_fit keeps the bytes before the position; with none of them the block is freed.
LEMMA ShrinkDoes ==
  ASSUME IInv, ShrinkToFit
  PROVE  /\ IInv' /\ call'.op = "shrink" /\ call'.obj = 1 /\ call'.exc = "none"
         /\ \E q : /\ Becomes(1, q) /\ q.pos = obj[1].pos
                   /\ q.mem = SubSeq(obj[1].mem, 1, obj[1].pos)
<1> DEFINE m == obj[1]
           k == SubSeq(m.mem, 1, m.pos)
           q == [m EXCEPT !.mem = k]
           r == IF m.pos = 0 THEN Outcome(Null, heap \ {m.block}, "none")
                ELSE Outcome(q, heap, "none")
<1>1. /\ Return("shrink", 1, NoBytes, 0, r) /\ kind' = kind /\ written' = written /\ loose' = loose
      /\ kind = "grown"
  BY DEF ShrinkToFit, one
<1>2. /\ m.mem \in Seq(Int) /\ m.pos \in 0..Len(m.mem) /\ m.pos \in Nat /\ Len(m.mem) \in Nat
      /\ m \in [block : Blocks \cup {0}, mem : Seq(Int), pos : Nat] /\ NullHasNone(m)
  BY <1>1, Sizes1, IsLive
<1>3. k \in Seq(Int) /\ Len(k) = m.pos
  BY <1>2, KeptOK
<1>4. CASE m.pos = 0
  <2>1. r.m = Null /\ r.heap = heap \ {m.block} /\ r.exc = "none"
    BY <1>4 DEF Outcome
  <2>2. k = <<>>
    BY <1>3, <1>4
  <2> HIDE DEF r, k
  <2>3. OwnedBy(r.heap, 0, obj[2].block, loose.block)
    BY <2>1, Owners, OwnedFreed
  <2>4. IInv' /\ Becomes(1, Null)
    BY <1>1, <2>1, <2>3, NullOK, Owners, BecomesKeeps
  <2>5. call'.op = "shrink" /\ call'.obj = 1 /\ call'.exc = "none"
    BY <1>1, <2>1 DEF Return, Called
  <2> QED BY <1>4, <2>2, <2>4, <2>5, NullOK DEF k
<1>5. CASE m.pos # 0
  <2>1. r.m = q /\ r.heap = heap /\ r.exc = "none"
    BY <1>5 DEF Outcome
  <2> HIDE DEF k
  <2>2. q \in Objs /\ q.mem = k /\ q.pos = m.pos /\ q.block = m.block
    BY <1>2, <1>3 DEF Objs
  <2> HIDE DEF q, r
  <2>3. InBounds(q)
    BY <1>3, <2>2 DEF InBounds
  <2>4. NullHasNone(q)
    <3>1. m.block # 0
      BY <1>2, <1>5 DEF NullHasNone
    <3> QED BY <2>2, <3>1 DEF NullHasNone
  <2>5. OwnedBy(r.heap, q.block, obj[2].block, loose.block)
    BY <2>1, <2>2, Owners
  <2>6. IInv' /\ Becomes(1, q)
    BY <1>1, <2>1, <2>3, <2>4, <2>5, Owners, BecomesKeeps
  <2>7. call'.op = "shrink" /\ call'.obj = 1 /\ call'.exc = "none"
    BY <1>1, <2>1 DEF Return, Called
  <2> QED BY <2>2, <2>6, <2>7 DEF k
<1> QED BY <1>4, <1>5

\* release hands the block to the caller and leaves the null object.
LEMMA ReleaseDoes ==
  ASSUME IInv, Release
  PROVE  /\ IInv' /\ call'.op = "release" /\ call'.obj = 1 /\ call'.exc = "none" /\ call'.at = 0
         /\ Becomes(1, Null)
<1> DEFINE m == obj[1]
           u == [m EXCEPT !.pos = 0]
           r == Outcome(Null, heap, "none")
<1>1. /\ Return("release", 1, NoBytes, 0, r) /\ kind' = kind /\ written' = written
      /\ loose' = u /\ kind = "grown" /\ loose.block = 0
  BY DEF Release, one
<1>2. m \in [block : Blocks \cup {0}, mem : Seq(Int), pos : Nat] /\ NullHasNone(m)
  BY <1>1, Sizes1, IsLive
<1>3. u \in Objs /\ u.mem = m.mem /\ u.pos = 0 /\ u.block = m.block
  BY <1>2 DEF Objs
<1>4. NullHasNone(u)
  BY <1>2, <1>3 DEF NullHasNone
<1>5. r.m = Null /\ r.heap = heap /\ r.exc = "none"
  BY DEF Outcome
<1> HIDE DEF r, u
<1>6. OwnedBy(r.heap, 0, obj[2].block, loose'.block)
  BY <1>1, <1>3, <1>5, Owners, OwnedSwap
<1>7. IInv' /\ Becomes(1, Null)
  BY <1>1, <1>3, <1>4, <1>5, <1>6, NullOK, BecomesKeeps
<1>8. call'.op = "release" /\ call'.obj = 1 /\ call'.exc = "none" /\ call'.at = 0
  BY <1>1, <1>5 DEF Return, Called
<1> QED BY <1>7, <1>8

\* take_ownership makes an object without a block own the one the caller had.
LEMMA TakeDoes ==
  ASSUME IInv, TakeOwnership
  PROVE  /\ IInv' /\ call'.op = "take" /\ call'.obj = 1 /\ call'.exc = "none"
         /\ \E q : Becomes(1, q) /\ q.pos = 0 /\ q.mem = call'.bytes
<1> DEFINE r == Outcome(loose, heap, "none")
<1>1. /\ Return("take", 1, loose.mem, 0, r) /\ kind' = kind /\ written' = written
      /\ loose' = Null /\ obj[1].block = 0
  BY DEF TakeOwnership, one
<1>2. r.m = loose /\ r.heap = heap /\ r.exc = "none"
  BY DEF Outcome
<1> HIDE DEF r
<1>3. InBounds(loose)
  <2>1. loose \in Objs /\ loose.pos = 0 /\ loose.mem \in Seq(Int)
    BY Owners DEF Objs
  <2> QED BY <2>1 DEF InBounds
<1>4. OwnedBy(r.heap, loose.block, obj[2].block, loose'.block)
  BY <1>1, <1>2, Owners, OwnedSwap, NullOK
<1>5. IInv' /\ Becomes(1, loose)
  BY <1>1, <1>2, <1>3, <1>4, Owners, NullOK, BecomesKeeps
<1>6. call'.op = "take" /\ call'.obj = 1 /\ call'.exc = "none" /\ call'.bytes = loose.mem
  BY <1>1, <1>2 DEF Return, Called
<1> QED BY <1>5, <1>6, Owners

\* swap exchanges the two objects, blocks and positions alike.
LEMMA SwapDoes ==
  ASSUME IInv, Swap
  PROVE  /\ IInv' /\ call'.op = "swap" /\ call'.obj = 1 /\ call'.exc = "none"
         /\ obj' = [obj EXCEPT ![1] = obj[2], ![2] = obj[1]]
<1>1. /\ obj' = [o \in {1, 2} |-> obj[3 - o]] /\ kind' = kind /\ heap' = heap /\ loose' = loose
      /\ written' = written /\ call'.op = "swap" /\ call'.obj = 1 /\ call'.exc = "none"
      /\ kind = "grown"
  BY DEF Swap, Called
<1>2. obj \in [{1, 2} -> Objs]
  BY Sizes1
<1>3. obj'[1] = obj[2] /\ obj'[2] = obj[1] /\ obj' \in [{1, 2} -> Objs]
  BY <1>1, <1>2
<1>4. obj' = [obj EXCEPT ![1] = obj[2], ![2] = obj[1]]
  <2> DEFINE x == [obj EXCEPT ![1] = obj[2], ![2] = obj[1]]
  <2>1. x \in [{1, 2} -> Objs] /\ x[1] = obj[2] /\ x[2] = obj[1]
    BY <1>2
  <2> HIDE DEF x
  <2>2. obj' = x
    BY <1>3, <2>1
  <2> QED BY <2>2 DEF x
<1>5. Owned'
  <2>1. OwnedBy(heap, obj[1].block, obj[2].block, loose.block)'
    BY <1>1, <1>3, Owners, OwnedSwap
  <2>2. (Owned <=> OwnedBy(heap, obj[1].block, obj[2].block, loose.block))'
    BY OwnedIs, PTL
  <2> QED BY <2>1, <2>2
<1>6. Parts'
  <2>1. NullHasNone(loose)'
    BY <1>1, Owners DEF NullHasNone
  <2> QED BY <1>1, <1>3, <2>1 DEF IInv, Parts
<1>7. TypeOK'
  <2>1. ASSUME NEW p \in {1, 2}
        PROVE  /\ obj'[p].mem \in Seq(Int) /\ Size(obj'[p]) <= MaxSize
               /\ obj'[p].pos \in 0..Size(obj'[p])
               /\ obj'[p].block \in Blocks \cup {0}
               /\ (obj'[p].block = 0 /\ (p = 2 \/ kind = "grown")) => obj'[p].mem = <<>>
    BY <1>1, <1>3 DEF IInv, TypeOK
  <2>2. heap' \subseteq Blocks /\ kind' \in Kinds /\ written' \in 0..MaxWritten
    BY <1>1 DEF IInv, TypeOK
  <2> QED BY <1>1, <2>1, <2>2 DEF TypeOK, Size
<1> QED BY <1>1, <1>4, <1>5, <1>6, <1>7 DEF IInv

\* clone fills a block of its own and frees the one the second object had, or fails and changes nothing.
LEMMA CloneDoes ==
  ASSUME IInv, Clone
  PROVE  /\ IInv' /\ call'.op = "clone" /\ call'.obj = 2
         /\ call'.exc # "none" => obj' = obj
         /\ call'.exc = "none" => \E q : Becomes(2, q) /\ q.pos = 0 /\ q.mem = obj[1].mem
<1> DEFINE m == obj[1]
           n == Len(m.mem)
<1>1. /\ kind' = kind /\ written' = written /\ loose' = loose /\ kind = "grown"
      /\ n \in Nat /\ m.mem \in Seq(Int) /\ NullHasNone(m) /\ NullHasNone(obj[2])
      /\ InBounds(obj[2]) /\ obj \in [{1, 2} -> Objs]
  BY IsLive, Sizes1 DEF Clone
<1>2. PICK r \in Alloc(heap, n) :
        \/ r.exc # "none" /\ Return("clone", 2, NoBytes, 0, [r EXCEPT !.m = obj[2]])
        \/ /\ r.exc = "none"
           /\ Return("clone", 2, NoBytes, 0,
                     [r EXCEPT !.m.mem = m.mem, !.heap = @ \ {obj[2].block}])
  BY DEF Clone, one, Size
<1>3. /\ Sound(r, Null, heap) /\ NullHasNone(r.m) /\ r.m.pos = 0
      /\ r.exc = "none" => Len(r.m.mem) = n
      /\ r.exc # "none" => r.m = Null /\ r.heap = heap
  BY <1>1, <1>2, Owners, AllocOK
<1>4. /\ r \in [m : Objs, heap : SUBSET Blocks, exc : Excs]
      /\ r.m \in [block : Blocks \cup {0}, mem : Seq(Int), pos : Nat]
  BY <1>3 DEF Sound, Outs, Objs
<1> HIDE DEF n, m
<1>5. CASE r.exc # "none"
  <2> DEFINE x == [r EXCEPT !.m = obj[2]]
  <2>1. Return("clone", 2, NoBytes, 0, x)
    BY <1>2, <1>5
  <2>2. x.m = obj[2] /\ x.heap = heap /\ x.exc = r.exc
    BY <1>3, <1>4, <1>5
  <2> HIDE DEF x
  <2>3. OwnedBy(x.heap, obj[1].block, obj[2].block, loose'.block)
    BY <1>1, <2>2, Owners
  <2>4. IInv' /\ Becomes(2, obj[2])
    BY <1>1, <2>1, <2>2, <2>3, Owners, BecomesKeeps
  <2>5. call'.op = "clone" /\ call'.obj = 2 /\ call'.exc = r.exc
    BY <2>1, <2>2 DEF Return, Called
  <2>6. obj' = obj
    BY <1>1, <2>4 DEF Becomes
  <2> QED BY <1>5, <2>4, <2>5, <2>6
<1>6. CASE r.exc = "none"
  <2> DEFINE q == [r.m EXCEPT !.mem = m.mem]
             g == r.heap \ {obj[2].block}
             x == [r EXCEPT !.m = q, !.heap = g]
  <2>1. Return("clone", 2, NoBytes, 0, x)
    BY <1>2, <1>4, <1>6
  <2>2. q \in Objs /\ q.mem = m.mem /\ q.pos = 0 /\ q.block = r.m.block
    BY <1>1, <1>3, <1>4 DEF Objs
  <2> HIDE DEF q, g
  <2>3. x.m = q /\ x.heap = g /\ x.exc = "none"
    BY <1>4, <1>6
  <2> HIDE DEF x
  <2>4. InBounds(q)
    BY <1>1, <2>2 DEF InBounds, n
  <2>5. NullHasNone(q)
    <3>1. ASSUME r.m.block = 0 PROVE m.mem = <<>>
      <4>1. Len(r.m.mem) = 0
        BY <1>3, <3>1 DEF NullHasNone
      <4>2. Len(m.mem) = 0
        BY <1>3, <1>6, <4>1 DEF n
      <4> QED BY <1>1, <4>2
    <3> QED BY <2>2, <3>1 DEF NullHasNone
  <2>6. OwnedBy(g, obj[1].block, q.block, loose'.block)
    <3> DEFINE a == obj[1].block
               b == obj[2].block
               c == loose.block
    <3>1. OwnedBy(heap, a, b, c) /\ a \in Blocks \cup {0} /\ c \in Blocks \cup {0}
      BY Owners
    <3>2. \/ q.block = 0 /\ g = heap \ {b}
          \/ q.block \in Blocks \ heap /\ g = (heap \cup {q.block}) \ {b}
      BY <1>3, <2>2, NullOK DEF Sound, OwnsAs, g
    <3>3. OwnedBy(heap \ {b}, a, 0, c)
      BY <3>1, OwnedSwap, OwnedFreed
    <3>4. CASE q.block = 0 /\ g = heap \ {b}
      BY <1>1, <3>3, <3>4
    <3>5. CASE q.block \in Blocks \ heap /\ g = (heap \cup {q.block}) \ {b}
      <4>1. q.block # b
        BY <3>1, <3>5, NoBlockZero DEF OwnedBy
      <4>2. g = (heap \ {b}) \cup {q.block} /\ q.block \in Blocks \ (heap \ {b})
        BY <3>5, <4>1
      <4>3. OwnedBy(heap \ {b}, 0, a, c)
        BY <3>3, OwnedSwap
      <4>4. OwnedBy(g, q.block, a, c)
        BY <3>1, <4>2, <4>3, NoBlockZero, OwnedFirst
      <4> QED BY <1>1, <4>4, OwnedSwap
    <3> QED BY <3>2, <3>4, <3>5
  <2>7. IInv' /\ Becomes(2, q)
    BY <1>1, <2>1, <2>3, <2>4, <2>5, <2>6, Owners, BecomesKeeps
  <2>8. call'.op = "clone" /\ call'.obj = 2 /\ call'.exc = "none"
    BY <2>1, <2>3 DEF Return, Called
  <2> QED BY <2>2, <2>7, <2>8 DEF m
<1> QED BY <1>5, <1>6

(***************************************************************************)
(* The invariant holds.                                                    *)
(***************************************************************************)

\* The objects the constructors make satisfy the invariant.
LEMMA InitInv == Init => IInv
<1> SUFFICES ASSUME Init PROVE IInv
  OBVIOUS
<1> DEFINE f == [i \in 1..FixedSize |-> Junk]
           x == [Null EXCEPT !.mem = f]
<1>1. /\ kind \in Kinds /\ heap = {} /\ loose = Null /\ written = 0
      /\ obj = [o \in {1, 2} |-> IF o = 1 /\ kind = "fixed" THEN x ELSE Null]
  BY DEF Init
<1>2. f \in Seq(Int) /\ Len(f) = FixedSize
  <2>1. f \in [1..FixedSize -> Int] /\ FixedSize \in Nat
    BY NumbersAssumption DEF Junk
  <2> HIDE DEF f
  <2> QED BY <2>1
<1> HIDE DEF f
<1>3. x \in Objs /\ x.mem = f /\ x.pos = 0 /\ x.block = 0
  <2>1. Null \in [block : Blocks \cup {0}, mem : Seq(Int), pos : Nat] /\ Null.pos = 0 /\ Null.block = 0
    BY NullOK DEF Objs
  <2> QED BY <1>2, <2>1 DEF Objs
<1> HIDE DEF x
<1>4. obj \in [{1, 2} -> Objs] /\ obj[1] \in {x, Null} /\ obj[2] = Null
      /\ (kind = "grown" => obj[1] = Null)
  BY <1>1, <1>3, NullOK
<1>5. Parts
  BY <1>1, <1>4, KindsAssumption, NullOK DEF Parts
<1>6. Owned
  <2>1. obj[1].block = 0 /\ obj[2].block = 0 /\ loose.block = 0
    BY <1>1, <1>3, <1>4, NullOK
  <2>2. OwnedBy(heap, obj[1].block, obj[2].block, loose.block)
    BY <1>1, <2>1 DEF OwnedBy
  <2> QED BY <2>2, OwnedIs
<1>7. TypeOK
  <2>1. ASSUME NEW p \in {1, 2}
        PROVE  /\ obj[p].mem \in Seq(Int) /\ Len(obj[p].mem) <= MaxSize
               /\ obj[p].pos \in 0..Len(obj[p].mem)
               /\ obj[p].block \in Blocks \cup {0}
               /\ (obj[p].block = 0 /\ (p = 2 \/ kind = "grown")) => obj[p].mem = <<>>
    <3>1. obj[p] \in Objs /\ obj[p].pos = 0 /\ obj[p].block = 0
      BY <1>3, <1>4, NullOK
    <3>2. Len(obj[p].mem) \in {0, FixedSize}
      BY <1>2, <1>3, <1>4, NullOK
    <3>3. p = 2 \/ kind = "grown" => obj[p].mem = <<>>
      BY <1>4, NullOK
    <3> QED BY <3>1, <3>2, <3>3, NumbersAssumption, BoundsAssumption DEF Objs
  <2> QED BY <1>1, <2>1, NumbersAssumption DEF TypeOK, Size
<1> QED BY <1>5, <1>6, <1>7 DEF IInv

\* Every action, by what it does.
LEMMA Cases ==
  ASSUME IInv, Next
  PROVE  \/ \E r : DoesRead(r)
         \/ \E r : DoesWrite(r)
         \/ \E r : DoesPrint(r)
         \/ \E r : DoesSeek(r)
         \/ \E r : DoesResize(r)
         \/ \E r : DoesLoad(r)
         \/ \E n \in Sizes : Reinit(n)
         \/ ShrinkToFit \/ Clone \/ Swap \/ Release \/ TakeOwnership
<1>1. ASSUME NEW len \in Lengths, \/ Read(len) \/ EnsureRead(len) \/ EnsureWrite(len)
                                  \/ WriteSome(len) \/ Vprint(len) \/ FromStream(len)
      PROVE  (\E r : DoesRead(r)) \/ (\E r : DoesWrite(r)) \/ (\E r : DoesPrint(r))
  BY <1>1, ReadDoes, EnsureReadDoes, EnsureWriteDoes, WriteSomeDoes, VprintDoes, FromStreamDoes
<1>2. ASSUME NEW n \in Sizes, Seek(n)
      PROVE  \E r : DoesSeek(r)
  BY <1>2, SeekToDoes DEF Seek
<1>3. ASSUME NEW off \in Offsets, SeekBy(off)
      PROVE  \E r : DoesSeek(r)
  BY <1>3, SeekToDoes DEF SeekBy
<1> QED BY <1>1, <1>2, <1>3, WriteByteDoes, ResizeDoes, LoadDoes DEF Next

\* A sound step on one object keeps the invariant of the pair.
LEMMA DoesKeeps ==
  ASSUME IInv, NEW o \in {1, 2}, NEW r, Does(o, r)
  PROVE  IInv'
  BY SoundKeeps DEF Does

\* Every step keeps the invariant.
LEMMA NextInv == IInv /\ [Next]_vars => IInv'
<1> SUFFICES ASSUME IInv, [Next]_vars PROVE IInv'
  OBVIOUS
<1>1. CASE UNCHANGED vars
  BY <1>1 DEF vars, IInv, TypeOK, Owned, Parts, NullHasNone
<1>2. CASE Next
  <2>1. ASSUME NEW r, \/ DoesRead(r) \/ DoesWrite(r) \/ DoesPrint(r) \/ DoesSeek(r)
                      \/ DoesResize(r)
        PROVE  IInv'
    <3>1. Does(1, r)
      BY <2>1 DEF DoesRead, DoesWrite, DoesPrint, DoesSeek, DoesResize
    <3> QED BY <3>1, DoesKeeps
  <2>2. ASSUME NEW r, DoesLoad(r)
        PROVE  IInv'
    BY <2>2, DoesKeeps DEF DoesLoad
  <2> QED BY <1>2, <2>1, <2>2, Cases, ReinitDoes, ShrinkDoes, CloneDoes, SwapDoes, ReleaseDoes, TakeDoes
<1> QED BY <1>1, <1>2

\* The invariant, of which the others are parts.
THEOREM Invariance == Spec => []IInv
<1>1. Init => IInv
  BY InitInv
<1>2. IInv /\ [Next]_vars => IInv'
  BY NextInv
<1> QED BY <1>1, <1>2, PTL DEF Spec

\* The memory stays in its bounds, the position in the memory, and NULL has no
\* bytes, for all sizes and lengths (MemStream.hpp, AutoGrownMemIO).
THEOREM TypeCorrect == Spec => []TypeOK
<1>1. IInv => TypeOK
  BY DEF IInv
<1> QED BY <1>1, Invariance, PTL

\* Every allocated block has exactly one owner: no method leaks a block, frees one
\* twice or keeps a pointer to a freed one, whichever allocation fails
\* (MemStream.cpp: resize, init, clone, shrink_to_fit; MemStream.hpp: swap,
\* release, risk_take_ownership).
THEOREM OwnedAlways == Spec => []Owned
<1>1. IInv => Owned
  BY DEF IInv
<1> QED BY <1>1, Invariance, PTL

(***************************************************************************)
(* A call that fails leaves its object where it was.                       *)
(***************************************************************************)

\* What two sequences have in common before p.
LEMMA BeginsSame ==
  ASSUME NEW a \in Seq(Int), NEW b \in Seq(Int), NEW p \in 0..Len(a), Begins(b, a, p)
  PROVE  SubSeq(b, 1, p) = SubSeq(a, 1, p)
<1> DEFINE s == SubSeq(a, 1, p)
           t == SubSeq(b, 1, p)
<1>1. Len(a) \in Nat /\ Len(b) \in Nat /\ Len(a) <= Len(b) /\ \A i \in 1..p : b[i] = a[i]
  BY DEF Begins
<1>2. p \in 0..Len(b)
  BY <1>1
<1>3. s \in Seq(Int) /\ Len(s) = p /\ \A i \in 1..p : s[i] = a[i]
  BY KeptOK
<1>4. t \in Seq(Int) /\ Len(t) = p /\ \A i \in 1..p : t[i] = b[i]
  BY <1>2, KeptOK
<1> HIDE DEF s, t
<1>5. Len(t) = Len(s) /\ \A i \in 1..Len(t) : t[i] = s[i]
  BY <1>1, <1>3, <1>4
<1>6. t = s
  BY <1>3, <1>4, <1>5, SeqEqual
<1> QED BY <1>6 DEF s, t

\* What was put at p is there.
LEMMA PutsThere ==
  ASSUME NEW a, NEW new \in Seq(Int), NEW p \in Nat, NEW b \in Seq(Int), NEW last,
         Puts(new, a, p, b, last)
  PROVE  SubSeq(new, p + 1, p + Len(b)) = b
<1> DEFINE s == SubSeq(new, p + 1, p + Len(b))
<1>1. Len(b) \in Nat /\ p + Len(b) <= Len(new) /\ \A i \in 1..Len(b) : new[p + i] = b[i]
  BY DEF Puts
<1>2. s \in Seq(Int) /\ Len(s) = Len(b) /\ \A i \in 1..Len(b) : s[i] = new[p + i]
  BY <1>1, PartOK
<1> HIDE DEF s
<1>3. \A i \in 1..Len(s) : s[i] = b[i]
  BY <1>1, <1>2
<1>4. s = b
  BY <1>2, <1>3, SeqEqual
<1> QED BY <1>4 DEF s

\* What a sound step leaves: one object changed, the other as it was.
LEMMA OutcomeOK ==
  ASSUME IInv, NEW o \in {1, 2}, NEW r, Does(o, r)
  PROVE  /\ r.m \in Objs /\ r.m.mem \in Seq(Int) /\ r.m.pos \in 0..Len(r.m.mem) /\ r.m.pos \in Nat
         /\ Len(r.m.mem) \in Nat /\ call'.obj = o /\ call'.exc = r.exc
         /\ obj' = [obj EXCEPT ![o] = r.m] /\ obj'[o] = r.m
         /\ \A p \in {1, 2} \ {o} : obj'[p] = obj[p]
<1>1. obj \in [{1, 2} -> Objs]
  BY Sizes1
<1> QED BY <1>1 DEF Does, Sound, InBounds, Objs

\* What a failing call keeps of object o.
Keeps(o) ==
  \/ call'.op = "init" /\ o = call'.obj
  \/ /\ obj'[o].pos = obj[o].pos
     /\ \/ call'.op = "load" /\ call'.exc = "eof" /\ o = call'.obj
        \/ BytesKept(o)

\* A call that fails moves no object and keeps the bytes before the position, but
\* for an init, and for the bytes of a load that reached the end of its stream.
LEMMA FailureStep ==
  ASSUME IInv, Next, call'.exc # "none", NEW o \in {1, 2}
  PROVE  Keeps(o)
<1> DEFINE same == Keeps(o)
<1>0. obj'[o] = obj[o] => same
  BY DEF Keeps, BytesKept
<1>1. ASSUME NEW r, Does(1, r), r.exc # "none" =>
                                  r.m.pos = obj[1].pos /\ Begins(r.m.mem, obj[1].mem, obj[1].pos)
      PROVE  same
  <2>1. CASE o = 1
    <3>1. obj'[1] = r.m /\ r.m.mem \in Seq(Int) /\ r.exc # "none"
      BY <1>1, OutcomeOK
    <3>2. SubSeq(r.m.mem, 1, obj[1].pos) = SubSeq(obj[1].mem, 1, obj[1].pos)
      BY <1>1, <3>1, Sizes1, BeginsSame
    <3> QED BY <1>1, <2>1, <3>1, <3>2 DEF Keeps, BytesKept
  <2>2. CASE o = 2
    <3>1. obj'[2] = obj[2]
      BY <1>1, OutcomeOK
    <3> QED BY <1>0, <2>2, <3>1
  <2> QED BY <2>1, <2>2
<1>2. ASSUME NEW r, DoesRead(r) \/ DoesSeek(r) \/ DoesResize(r)
      PROVE  same
  <2>1. Does(1, r) /\ (r.exc # "none" => r.m.pos = obj[1].pos /\ r.m.mem = obj[1].mem)
    BY <1>2 DEF DoesRead, DoesSeek, DoesResize
  <2>2. r.exc # "none" => Begins(r.m.mem, obj[1].mem, obj[1].pos)
    BY <2>1, Sizes1 DEF Begins
  <2> QED BY <1>1, <2>1, <2>2
<1>3. ASSUME NEW r, DoesWrite(r) \/ DoesPrint(r)
      PROVE  same
  <2>1. Does(1, r) /\ (r.exc # "none" => Begins(r.m.mem, obj[1].mem, obj[1].pos))
    BY <1>3 DEF DoesWrite, DoesPrint, Said, Wrote
  <2>2. r.exc # "none" => r.m.pos = obj[1].pos
    BY <2>1 DEF Does, Sound
  <2> QED BY <1>1, <2>1, <2>2
<1>4. ASSUME NEW r, DoesLoad(r)
      PROVE  same
  <2>1. Does(2, r) /\ r.m.pos = obj[2].pos /\ call'.op = "load"
    BY <1>4 DEF DoesLoad
  <2>2. obj'[2] = r.m /\ obj'[1] = obj[1] /\ call'.exc = r.exc /\ call'.obj = 2
    BY <2>1, OutcomeOK
  <2>3. CASE o = 1
    BY <1>0, <2>2, <2>3
  <2>4. CASE o = 2 /\ r.exc = "eof"
    BY <2>1, <2>2, <2>4 DEF Keeps
  <2>5. CASE o = 2 /\ r.exc # "eof"
    <3>1. r.m = obj[2]
      BY <1>4, <2>2, <2>5 DEF DoesLoad
    <3> QED BY <1>0, <2>2, <2>5, <3>1
  <2> QED BY <2>3, <2>4, <2>5
<1>5. ASSUME ShrinkToFit \/ Swap \/ Release \/ TakeOwnership
      PROVE  same
  BY <1>5, ShrinkDoes, SwapDoes, ReleaseDoes, TakeDoes
<1>6. ASSUME Clone PROVE same
  BY <1>0, <1>6, CloneDoes
<1>9. ASSUME NEW n \in Sizes, Reinit(n) PROVE same
  <2>1. call'.op = "init" /\ call'.obj = 1
    BY <1>9, ReinitDoes
  <2>2. o = 2 => obj'[2] = obj[2]
    BY <1>9, Sizes1 DEF Reinit, Return
  <2> QED BY <1>0, <2>1, <2>2 DEF Keeps
<1>7. \A r : \/ DoesRead(r) \/ DoesSeek(r) \/ DoesResize(r) \/ DoesWrite(r) \/ DoesPrint(r)
               \/ DoesLoad(r)
             => same
  BY <1>2, <1>3, <1>4
<1>8. \/ \E r : \/ DoesRead(r) \/ DoesSeek(r) \/ DoesResize(r) \/ DoesWrite(r) \/ DoesPrint(r)
                \/ DoesLoad(r)
      \/ ShrinkToFit \/ Swap \/ Release \/ TakeOwnership \/ \E n \in Sizes : Reinit(n)
      \/ Clone
  BY Cases
<1>10. same
  BY <1>5, <1>6, <1>7, <1>8, <1>9
<1> QED BY <1>10 DEF same

\* Whatever call throws, the position of both objects is where it was, and so are
\* the bytes before it (MemStream.cpp, resize and grow; MemStream.hpp, from_input
\* and vprintf), but for the object of an init, which frees first, and for the
\* bytes of an object that is loaded from a stream that ends too early.
THEOREM FailureKeepsAlways == Spec => FailureKeeps
<1> DEFINE A == call'.exc # "none" => \A o \in {1, 2} : Keeps(o)
<1>1. IInv /\ [Next]_vars => [A]_vars
  BY FailureStep
<1>2. Spec => [][A]_vars
  BY <1>1, Invariance, PTL DEF Spec
<1> QED BY <1>2 DEF FailureKeeps, Keeps

(***************************************************************************)
(* The objects are growing files.                                          *)
(***************************************************************************)

\* The abstract state, and a call that changes object o to q.
Mems == [o \in {1, 2} |-> obj[o].mem]
Poss == [o \in {1, 2} |-> obj[o].pos]

\* Changing one object changes one file of the abstract specification.
LEMMA Abstract ==
  ASSUME obj \in [{1, 2} -> Objs], NEW o \in {1, 2}, NEW q \in Objs, obj' = [obj EXCEPT ![o] = q]
  PROVE  /\ Mems' = [Mems EXCEPT ![o] = q.mem] /\ Poss' = [Poss EXCEPT ![o] = q.pos]
         /\ Mems[o] = obj[o].mem /\ Poss[o] = obj[o].pos /\ Mems'[o] = q.mem
<1>1. /\ obj'[o] = q /\ (\A p \in {1, 2} \ {o} : obj'[p] = obj[p])
  OBVIOUS
<1>2. Mems' = [Mems EXCEPT ![o] = q.mem] /\ Poss' = [Poss EXCEPT ![o] = q.pos]
  BY <1>1 DEF Mems, Poss
<1>3. Mems[o] = obj[o].mem /\ Poss[o] = obj[o].pos /\ Mems'[o] = q.mem
  BY <1>1 DEF Mems, Poss
<1> QED BY <1>2, <1>3

\* A step of one file is a step of the abstract specification.
LEMMA SomeObject ==
  ASSUME NEW o \in {1, 2}, call'.obj = o,
         \/ File!Read(o) \/ File!Write(o) \/ File!Seek(o) \/ File!Resize(o) \/ File!Shrink(o)
         \/ File!Empty(o) \/ File!Take(o) \/ File!Load(o) \/ File!Clone(o) \/ File!Swap(o)
         \/ File!Fail(o)
  PROVE  File!Next
<1>1. o \in File!Objects
  BY DEF File!Objects
<1> QED BY <1>1 DEF File!Next

\* What Does says of the files.
LEMMA FileMoves ==
  ASSUME IInv, NEW o \in {1, 2}, NEW r, Does(o, r)
  PROVE  /\ Mems' = [Mems EXCEPT ![o] = r.m.mem] /\ Poss' = [Poss EXCEPT ![o] = r.m.pos]
         /\ Mems[o] = obj[o].mem /\ Poss[o] = obj[o].pos /\ Mems'[o] = r.m.mem
         /\ call'.obj = o /\ call'.exc = r.exc
  BY Sizes1, OutcomeOK, Abstract, SMTT(20)

\* A call that throws, and leaves everything, or the position and what is before it.
LEMMA FailNothing ==
  ASSUME IInv, NEW o \in {1, 2}, NEW r, Does(o, r), r.exc # "none", call'.op # "init",
         r.m.mem = obj[o].mem, r.m.pos = obj[o].pos
  PROVE  File!Fail(o)
<1>1. /\ obj \in [{1, 2} -> Objs] /\ call'.exc = r.exc /\ obj'[o] = r.m
      /\ \A p \in {1, 2} \ {o} : obj'[p] = obj[p]
  BY Sizes1, OutcomeOK
<1>2. Mems' = Mems /\ Poss' = Poss
  BY <1>1 DEF Mems, Poss
<1> QED BY <1>1, <1>2 DEF File!Fail, Mems, Poss

\* What a write keeps.
KeepsAll(old, new, first, last) ==
  /\ Len(new) >= Len(old)
  /\ \A i \in DOMAIN old : i <= first \/ i > last => new[i] = old[i]

\* Agreement outside a range, in the terms of the abstract specification.
LEMMA KeepsIs ==
  ASSUME NEW old \in Seq(Int), NEW new \in Seq(Int), NEW first \in Int, NEW last \in Int,
         Agrees(new, old, first, last)
  PROVE  KeepsAll(old, new, first, last)
<1>1. DOMAIN old = 1..Len(old) /\ Len(old) \in Nat /\ Len(new) \in Nat
  OBVIOUS
<1>2. Len(old) <= Len(new) /\ \A i \in 1..Len(old) : (i <= first \/ i > last) => new[i] = old[i]
  BY DEF Agrees
<1>3. Len(new) >= Len(old)
  BY <1>1, <1>2
<1> QED BY <1>1, <1>2, <1>3 DEF KeepsAll

\* A write or print that fails leaves the bytes before the position: an abstract failure.
LEMMA FailBegun ==
  ASSUME IInv, NEW r, Does(1, r), r.exc # "none", call'.op \in {"write", "print"},
         Begins(r.m.mem, obj[1].mem, obj[1].pos)
  PROVE  File!Fail(1)
<1> DEFINE old == obj[1].mem
           new == r.m.mem
           p == obj[1].pos
           kept == SubSeq(old, 1, p)
<1>1. /\ Mems' = [Mems EXCEPT ![1] = new] /\ Poss' = [Poss EXCEPT ![1] = p]
      /\ Mems[1] = old /\ Poss[1] = p /\ Mems'[1] = new /\ call'.exc = r.exc
  <2>1. r.m.pos = p
    BY DEF Does, Sound
  <2> QED BY <2>1, FileMoves
<1>2. /\ old \in Seq(Int) /\ new \in Seq(Int) /\ p \in 0..Len(old)
      /\ Len(old) \in Nat /\ Len(new) \in Nat /\ Len(new) >= Len(old) /\ p <= Len(new)
      /\ Begins(new, old, p)
  <2>1. old \in Seq(Int) /\ new \in Seq(Int) /\ p \in 0..Len(old) /\ Len(old) <= Len(new)
    BY Sizes1, OutcomeOK DEF Begins
  <2> HIDE DEF old, new, p
  <2>2. Begins(new, old, p)
    BY DEF old, new, p
  <2> QED BY <2>1, <2>2
<1>3. kept \in Seq(Int) /\ Len(kept) = p /\ \A i \in 1..p : kept[i] = old[i]
  BY <1>2, KeptOK
<1> HIDE DEF old, new, p, kept
<1>4. KeepsAll(kept, new, 0, 0)
  <2>1. Len(kept) <= Len(new) /\ \A i \in 1..Len(kept) : new[i] = kept[i]
    BY <1>2, <1>3 DEF Begins
  <2>2. Agrees(new, kept, 0, 0)
    BY <2>1 DEF Agrees
  <2> QED BY <1>2, <1>3, <2>2, KeepsIs
<1>5. KeepsAll(SubSeq(Mems[1], 1, Poss[1]), Mems'[1], 0, 0)
  BY <1>1, <1>4 DEF kept
<1>6. /\ Len(Mems'[1]) >= Len(Mems[1])
      /\ Mems' = [Mems EXCEPT ![1] = Mems'[1]] /\ Poss' = [Poss EXCEPT ![1] = Poss[1]]
  BY <1>1, <1>2
<1> QED BY <1>1, <1>5, <1>6
        DEF File!Fail, File!Keeps, File!Kept, File!Moves, KeepsAll, Mems, Poss

\* A sound read is an abstract read, or failure.
LEMMA ReadIsRead ==
  ASSUME IInv, NEW r, DoesRead(r)
  PROVE  File!Next
<1>1. /\ Does(1, r) /\ call'.op = "read" /\ r.m.mem = obj[1].mem
      /\ r.exc # "none" => r.m.pos = obj[1].pos
  BY DEF DoesRead
<1>2. /\ Mems' = [Mems EXCEPT ![1] = obj[1].mem] /\ Poss' = [Poss EXCEPT ![1] = r.m.pos]
      /\ Mems[1] = obj[1].mem /\ Poss[1] = obj[1].pos /\ call'.obj = 1 /\ call'.exc = r.exc
  BY <1>1, FileMoves
<1>3. CASE r.exc # "none"
  BY <1>1, <1>2, <1>3, FailNothing, SomeObject
<1>4. CASE r.exc = "none"
  <2> DEFINE b == call'.bytes
  <2>1. /\ b = SubSeq(obj[1].mem, obj[1].pos + 1, r.m.pos)
        /\ r.m.pos = obj[1].pos + Len(b) /\ r.m.pos <= Len(obj[1].mem)
    BY <1>1, <1>4, OutcomeOK DEF DoesRead
  <2>2. /\ Poss[1] + Len(b) <= Len(Mems[1])
        /\ b = SubSeq(Mems[1], Poss[1] + 1, Poss[1] + Len(b))
        /\ Mems' = [Mems EXCEPT ![1] = Mems[1]]
        /\ Poss' = [Poss EXCEPT ![1] = Poss[1] + Len(b)]
    <3> HIDE DEF b
    <3> QED BY <1>2, <2>1
  <2>3. call'.op \in {"read"} /\ call'.exc = "none"
    BY <1>1, <1>2, <1>4
  <2>4. File!Read(1)
    BY <2>2, <2>3 DEF File!Read, File!Succeeds, File!At, File!Moves, Mems, Poss
  <2> QED BY <1>2, <2>4, SomeObject
<1> QED BY <1>3, <1>4

\* What is written, or printed with a '\0' behind it, is a write of the file.
LEMMA WriteIsWrite ==
  ASSUME IInv, NEW r, DoesWrite(r) \/ DoesPrint(r)
  PROVE  File!Next
<1> DEFINE old == obj[1].mem
           new == r.m.mem
           p == obj[1].pos
           b == call'.bytes
           printed == call'.op = "print"
           behind == IF printed THEN 1 ELSE 0
<1>1. /\ Does(1, r) /\ call'.op \in {"write", "print"} /\ b \in Seq(Int)
      /\ Wrote(r, obj[1], b, behind)
      /\ printed /\ r.exc = "none" => new[p + Len(b) + 1] = Zero
  BY DEF DoesWrite, DoesPrint, Said
<1>2. /\ Mems' = [Mems EXCEPT ![1] = new] /\ Poss' = [Poss EXCEPT ![1] = r.m.pos]
      /\ Mems[1] = old /\ Poss[1] = p /\ Mems'[1] = new /\ call'.obj = 1 /\ call'.exc = r.exc
  BY <1>1, FileMoves
<1>3. CASE r.exc # "none"
  <2>1. Begins(new, old, p)
    BY <1>1, <1>3 DEF Wrote
  <2>2. File!Fail(1)
    BY <1>1, <1>3, <2>1, FailBegun
  <2> QED BY <1>2, <2>2, SomeObject
<1>4. CASE r.exc = "none"
  <2> DEFINE last == p + Len(b)
             end == last + behind
  <2>1. r.m.pos = last /\ Puts(new, old, p, b, end)
    BY <1>1, <1>4 DEF Wrote
  <2>2. /\ old \in Seq(Int) /\ new \in Seq(Int) /\ p \in Nat /\ Len(b) \in Nat /\ last \in Nat
    BY <1>1, Sizes1, OutcomeOK
  <2> HIDE DEF old, new, p
  <2>3. SubSeq(new, p + 1, p + Len(b)) = b
    BY <1>1, <2>1, <2>2, PutsThere
  <2> HIDE DEF b, last
  <2>4. end \in Int /\ end = IF printed THEN last + 1 ELSE last
    <3> HIDE DEF printed
    <3> QED BY <2>2
  <2> HIDE DEF end, behind, printed
  <2>5. KeepsAll(old, new, p, end)
    <3>1. Agrees(new, old, p, end)
      BY <2>1 DEF Puts, Agrees
    <3> QED BY <2>2, <2>4, <3>1, KeepsIs
  <2>6. printed => new[last + 1] = Zero
    BY <1>1, <1>4 DEF last
  <2>7. call'.op \in {"write", "print"} /\ call'.exc = "none"
    BY <1>1, <1>2, <1>4
  <2>8. /\ SubSeq(Mems'[1], Poss[1] + 1, Poss[1] + Len(b)) = b
        /\ printed => Mems'[1][Poss[1] + Len(b) + 1] = Zero
        /\ KeepsAll(Mems[1], Mems'[1], Poss[1],
                    IF printed THEN Poss[1] + Len(b) + 1 ELSE Poss[1] + Len(b))
        /\ Mems' = [Mems EXCEPT ![1] = Mems'[1]]
        /\ Poss' = [Poss EXCEPT ![1] = Poss[1] + Len(b)]
    BY <1>2, <2>1, <2>3, <2>4, <2>5, <2>6 DEF last
  <2>9. File!Write(1)
    BY ONLY <2>7, <2>8
       DEF File!Write, File!Succeeds, File!At, File!Keeps, File!Moves, File!Zero, Zero, KeepsAll,
           Mems, Poss, b, printed
  <2> QED BY <1>2, <2>9, SomeObject
<1> QED BY <1>3, <1>4

\* A sound seek is an abstract seek, or failure.
LEMMA SeekIsSeek ==
  ASSUME IInv, NEW r, DoesSeek(r)
  PROVE  File!Next
<1>1. /\ Does(1, r) /\ call'.op = "seek" /\ r.m.mem = obj[1].mem
      /\ r.m.pos = IF r.exc = "none" THEN call'.at ELSE obj[1].pos
  BY DEF DoesSeek
<1>2. /\ Mems' = [Mems EXCEPT ![1] = r.m.mem] /\ Poss' = [Poss EXCEPT ![1] = r.m.pos]
      /\ Mems[1] = obj[1].mem /\ call'.obj = 1 /\ call'.exc = r.exc
  BY <1>1, FileMoves
<1>3. CASE r.exc # "none"
  BY <1>1, <1>2, <1>3, FailNothing, SomeObject
<1>4. CASE r.exc = "none"
  <2>1. /\ call'.op \in {"seek"} /\ call'.exc = "none"
        /\ Mems' = [Mems EXCEPT ![1] = Mems[1]] /\ Poss' = [Poss EXCEPT ![1] = call'.at]
    BY <1>1, <1>2, <1>4
  <2>2. File!Seek(1)
    BY ONLY <2>1 DEF File!Seek, File!Succeeds, File!Moves, Mems, Poss
  <2> QED BY <1>2, <2>2, SomeObject
<1> QED BY <1>3, <1>4

\* A sound resize, of resize or grow, is an abstract resize, or failure.
LEMMA ResizeIsResize ==
  ASSUME IInv, NEW r, DoesResize(r)
  PROVE  File!Next
<1> DEFINE old == obj[1].mem
           new == r.m.mem
           n == call'.at
<1>1. /\ Does(1, r) /\ call'.op = "resize" /\ r.m.pos = obj[1].pos /\ n \in Nat
      /\ r.exc = "none" => new = Grown(old, n)
      /\ r.exc # "none" => new = old
  BY DEF DoesResize
<1>2. /\ Mems' = [Mems EXCEPT ![1] = new] /\ Poss' = [Poss EXCEPT ![1] = r.m.pos]
      /\ Mems[1] = old /\ Poss[1] = obj[1].pos /\ Mems'[1] = new
      /\ call'.obj = 1 /\ call'.exc = r.exc
  BY <1>1, FileMoves
<1>3. CASE r.exc # "none"
  BY <1>1, <1>2, <1>3, FailNothing, SomeObject
<1>4. CASE r.exc = "none"
  <2> DEFINE fits == IF n <= Len(old) THEN n ELSE Len(old)
  <2>1. old \in Seq(Int) /\ Len(old) \in Nat /\ r.m.pos <= Len(new)
    BY <1>1, OutcomeOK, Sizes1
  <2>2. /\ new \in Seq(Int) /\ Len(new) = n /\ \A i \in 1..Len(old) : i <= n => new[i] = old[i]
    <3>1. new = Grown(old, n) /\ n \in Nat
      BY <1>1, <1>4
    <3> HIDE DEF old, new, n
    <3> QED BY <2>1, <3>1, GrownOK
  <2> HIDE DEF old, new, n
  <2>3. fits \in 0..Len(old) /\ fits \in 0..Len(new) /\ fits <= n
    BY <1>1, <2>1, <2>2
  <2> HIDE DEF fits
  <2>4. SubSeq(new, 1, fits) = SubSeq(old, 1, fits)
    <3> DEFINE s == SubSeq(old, 1, fits)
               t == SubSeq(new, 1, fits)
    <3>1. s \in Seq(Int) /\ Len(s) = fits /\ \A i \in 1..fits : s[i] = old[i]
      BY <2>1, <2>3, KeptOK
    <3>2. t \in Seq(Int) /\ Len(t) = fits /\ \A i \in 1..fits : t[i] = new[i]
      BY <2>2, <2>3, KeptOK
    <3>3. \A i \in 1..fits : new[i] = old[i]
      <4>1. \A i \in 1..fits : i \in 1..Len(old) /\ i <= n
        BY <1>1, <2>1, <2>3
      <4> QED BY <2>2, <4>1
    <3> HIDE DEF s, t
    <3>4. Len(t) = Len(s) /\ \A i \in 1..Len(t) : t[i] = s[i]
      BY <3>1, <3>2, <3>3
    <3>5. t = s
      BY <3>1, <3>2, <3>4, SeqEqual
    <3> QED BY <3>5 DEF s, t
  <2>5. call'.op \in {"resize"} /\ call'.exc = "none"
    BY <1>1, <1>2, <1>4
  <2>6. /\ Poss[1] <= Len(Mems'[1]) /\ Len(Mems'[1]) = n
        /\ SubSeq(Mems'[1], 1, IF n <= Len(Mems[1]) THEN n ELSE Len(Mems[1]))
             = SubSeq(Mems[1], 1, IF n <= Len(Mems[1]) THEN n ELSE Len(Mems[1]))
        /\ Mems' = [Mems EXCEPT ![1] = Mems'[1]] /\ Poss' = [Poss EXCEPT ![1] = Poss[1]]
    BY <1>1, <1>2, <2>1, <2>2, <2>4 DEF fits
  <2>7. File!Resize(1)
    BY ONLY <2>5, <2>6 DEF File!Resize, File!Succeeds, File!Kept, File!Moves, Mems, Poss, n
  <2> QED BY <1>2, <2>7, SomeObject
<1> QED BY <1>3, <1>4

\* A sound load is an abstract load, or failure.
LEMMA LoadIsLoad ==
  ASSUME IInv, NEW r, DoesLoad(r)
  PROVE  File!Next
<1>1. /\ Does(2, r) /\ call'.op = "load" /\ r.m.pos = obj[2].pos
      /\ r.exc = "none" => r.m.mem = SubSeq(obj[1].mem, 1, obj[1].pos)
  BY DEF DoesLoad, Saved
<1>2. /\ Mems' = [Mems EXCEPT ![2] = r.m.mem] /\ Poss' = [Poss EXCEPT ![2] = Poss[2]]
      /\ Mems'[2] = r.m.mem /\ call'.obj = 2 /\ call'.exc = r.exc
  BY <1>1, FileMoves
<1>3. Mems[1] = obj[1].mem /\ Poss[1] = obj[1].pos
  BY DEF Mems, Poss
<1>4. CASE r.exc # "none"
  <2>1. /\ call'.exc # "none" /\ call'.op = "load"
        /\ Mems' = [Mems EXCEPT ![2] = Mems'[2]] /\ Poss' = [Poss EXCEPT ![2] = Poss[2]]
    BY <1>1, <1>2, <1>4
  <2>2. File!Fail(2)
    BY ONLY <2>1 DEF File!Fail, File!Moves, Mems, Poss
  <2> QED BY <1>2, <2>2, SomeObject
<1>5. CASE r.exc = "none"
  <2>1. call'.op \in {"load"} /\ call'.exc = "none"
    BY <1>1, <1>2, <1>5
  <2>2. /\ Mems' = [Mems EXCEPT ![2] = SubSeq(Mems[1], 1, Poss[1])]
        /\ Poss' = [Poss EXCEPT ![2] = Poss[2]]
    BY <1>1, <1>2, <1>3, <1>5
  <2>3. 1 \in DOMAIN Mems \ {2}
    BY DEF Mems
  <2>4. File!Load(2)
    BY ONLY <2>1, <2>2, <2>3
       DEF File!Load, File!Objects, File!Succeeds, File!Kept, File!Moves, Mems, Poss
  <2> QED BY <1>2, <2>4, SomeObject
<1> QED BY <1>4, <1>5

\* What Becomes says of the files.
LEMMA FileBecomes ==
  ASSUME IInv, NEW o \in {1, 2}, NEW q, Becomes(o, q)
  PROVE  /\ Mems' = [Mems EXCEPT ![o] = q.mem] /\ Poss' = [Poss EXCEPT ![o] = q.pos]
         /\ Mems[o] = obj[o].mem /\ Poss[o] = obj[o].pos /\ Mems'[o] = q.mem
<1>1. obj \in [{1, 2} -> Objs] /\ q \in Objs /\ obj' = [obj EXCEPT ![o] = q]
  BY Sizes1 DEF Becomes, InBounds
<1> QED BY <1>1, Abstract, ZenonT(40)

\* init and release are the abstract emptying.
LEMMA EmptyIsEmpty ==
  ASSUME IInv, NEW q, Becomes(1, q), q.pos = 0, call'.op \in {"init", "release"}, call'.obj = 1,
         Len(q.mem) = IF call'.exc = "none" THEN call'.at ELSE 0
  PROVE  File!Next
<1>1. /\ Mems' = [Mems EXCEPT ![1] = Mems'[1]] /\ Poss' = [Poss EXCEPT ![1] = 0]
      /\ Len(Mems'[1]) = IF call'.exc = "none" THEN call'.at ELSE 0
      /\ call'.op \in {"init", "release"}
  BY FileBecomes
<1>2. File!Empty(1)
  BY ONLY <1>1 DEF File!Empty, File!Moves, Mems, Poss
<1> QED BY <1>2, SomeObject

\* shrink_to_fit is the abstract shrinking.
LEMMA ShrinkIsShrink ==
  ASSUME IInv, ShrinkToFit
  PROVE  File!Next
<1>1. PICK q : /\ Becomes(1, q) /\ q.pos = obj[1].pos
               /\ q.mem = SubSeq(obj[1].mem, 1, obj[1].pos)
  BY ShrinkDoes
<1>2. /\ Mems' = [Mems EXCEPT ![1] = SubSeq(Mems[1], 1, Poss[1])]
      /\ Poss' = [Poss EXCEPT ![1] = Poss[1]]
  BY <1>1, FileBecomes
<1>3. call'.op \in {"shrink"} /\ call'.exc = "none" /\ call'.obj = 1
  BY ShrinkDoes
<1>4. File!Shrink(1)
  BY ONLY <1>2, <1>3 DEF File!Shrink, File!Succeeds, File!Kept, File!Moves, Mems, Poss
<1> QED BY <1>3, <1>4, SomeObject

\* take_ownership is the abstract taking.
LEMMA TakeIsTake ==
  ASSUME IInv, TakeOwnership
  PROVE  File!Next
<1>1. PICK q : Becomes(1, q) /\ q.pos = 0 /\ q.mem = call'.bytes
  BY TakeDoes
<1>2. Mems' = [Mems EXCEPT ![1] = call'.bytes] /\ Poss' = [Poss EXCEPT ![1] = 0]
  BY <1>1, FileBecomes
<1>3. call'.op \in {"take"} /\ call'.exc = "none" /\ call'.obj = 1
  BY TakeDoes
<1>4. File!Take(1)
  BY ONLY <1>2, <1>3 DEF File!Take, File!Succeeds, File!Moves, Mems, Poss
<1> QED BY <1>3, <1>4, SomeObject

\* clone is the abstract cloning, or failure.
LEMMA CloneIsClone ==
  ASSUME IInv, Clone
  PROVE  File!Next
<1>1. /\ call'.op = "clone" /\ call'.obj = 2
      /\ call'.exc # "none" => obj' = obj
      /\ call'.exc = "none" => \E q : Becomes(2, q) /\ q.pos = 0 /\ q.mem = obj[1].mem
  BY CloneDoes
<1>2. CASE call'.exc # "none"
  <2>1. Mems' = Mems /\ Poss' = Poss /\ call'.exc # "none" /\ call'.op # "init"
    BY <1>1, <1>2 DEF Mems, Poss
  <2>2. File!Fail(2)
    BY ONLY <2>1 DEF File!Fail, Mems, Poss
  <2> QED BY <1>1, <2>2, SomeObject
<1>3. CASE call'.exc = "none"
  <2>1. PICK q : Becomes(2, q) /\ q.pos = 0 /\ q.mem = obj[1].mem
    BY <1>1, <1>3
  <2>2. Mems[1] = obj[1].mem /\ 1 \in DOMAIN Mems \ {2}
    BY DEF Mems
  <2>3. Mems' = [Mems EXCEPT ![2] = Mems[1]] /\ Poss' = [Poss EXCEPT ![2] = 0]
    BY <2>1, <2>2, FileBecomes
  <2>4. call'.op \in {"clone"} /\ call'.exc = "none"
    BY <1>1, <1>3
  <2>5. File!Clone(2)
    BY ONLY <2>2, <2>3, <2>4
       DEF File!Clone, File!Objects, File!Succeeds, File!Moves, Mems, Poss
  <2> QED BY <1>1, <2>5, SomeObject
<1> QED BY <1>2, <1>3

\* swap is the abstract swap.
LEMMA SwapIsSwap ==
  ASSUME IInv, Swap
  PROVE  File!Next
<1>1. /\ call'.op \in {"swap"} /\ call'.exc = "none" /\ call'.obj = 1
      /\ obj' = [obj EXCEPT ![1] = obj[2], ![2] = obj[1]] /\ obj \in [{1, 2} -> Objs]
  BY SwapDoes, Sizes1
<1>2. obj'[1] = obj[2] /\ obj'[2] = obj[1]
  BY <1>1
<1>3. /\ Mems' = [Mems EXCEPT ![1] = Mems[2], ![2] = Mems[1]]
      /\ Poss' = [Poss EXCEPT ![1] = Poss[2], ![2] = Poss[1]]
  BY <1>2 DEF Mems, Poss
<1>4. 2 \in DOMAIN Mems \ {1}
  BY DEF Mems
<1>5. File!Swap(1)
  BY ONLY <1>1, <1>3, <1>4 DEF File!Swap, File!Objects, File!Succeeds, Mems, Poss
<1> QED BY <1>1, <1>5, SomeObject

\* Every step is one of the files, or none.
LEMMA FileStep == IInv /\ [Next]_vars => [File!Next]_(File!vars)
<1> SUFFICES ASSUME IInv, [Next]_vars PROVE [File!Next]_(File!vars)
  OBVIOUS
<1>1. CASE UNCHANGED vars
  BY <1>1 DEF vars, File!vars
<1>2. CASE Next
  <2>1. ASSUME NEW r, \/ DoesRead(r) \/ DoesWrite(r) \/ DoesPrint(r) \/ DoesSeek(r)
                      \/ DoesResize(r) \/ DoesLoad(r)
        PROVE  File!Next
    BY <2>1, ReadIsRead, WriteIsWrite, SeekIsSeek, ResizeIsResize, LoadIsLoad
  <2>2. ASSUME NEW n \in Sizes, Reinit(n) PROVE File!Next
    <3>1. PICK q : /\ Becomes(1, q) /\ q.pos = 0
                   /\ Len(q.mem) = IF call'.exc = "none" THEN call'.at ELSE 0
      BY <2>2, ReinitDoes
    <3>2. call'.op \in {"init", "release"} /\ call'.obj = 1
      BY <2>2, ReinitDoes
    <3> QED BY <3>1, <3>2, EmptyIsEmpty
  <2>3. ASSUME Release PROVE File!Next
    <3>1. /\ Becomes(1, Null) /\ call'.op \in {"init", "release"} /\ call'.obj = 1
          /\ call'.exc = "none" /\ call'.at = 0
      BY <2>3, ReleaseDoes
    <3> QED BY <3>1, NullOK, EmptyIsEmpty
  <2>4. ASSUME ShrinkToFit \/ Clone \/ Swap \/ TakeOwnership PROVE File!Next
    BY <2>4, ShrinkIsShrink, CloneIsClone, SwapIsSwap, TakeIsTake
  <2>5. \/ \E r : \/ DoesRead(r) \/ DoesWrite(r) \/ DoesPrint(r) \/ DoesSeek(r)
                  \/ DoesResize(r) \/ DoesLoad(r)
        \/ \E n \in Sizes : Reinit(n)
        \/ ShrinkToFit \/ Clone \/ Swap \/ TakeOwnership
        \/ Release
    BY <1>2, Cases
  <2>6. File!Next
    BY <2>1, <2>2, <2>3, <2>4, <2>5
  <2> QED BY <2>6
<1> QED BY <1>1, <1>2

\* However the memory of an object grows, shrinks, is released, taken over or
\* swapped, and whatever fails on the way, a client sees a growing file: it reads
\* what it wrote last, and a failed call moves nothing (MemStream.hpp and .cpp).
THEOREM Refinement == Spec => IsFile
<1>1. Init => File!Init
  <2> SUFFICES ASSUME Init PROVE File!Init
    OBVIOUS
  <2>1. obj[1].pos = 0 /\ obj[2].pos = 0
    <3>1. Null.pos = 0 /\ Null \in [block : Blocks \cup {0}, mem : Seq(Int), pos : Nat]
      BY NullOK DEF Objs
    <3> QED BY <3>1 DEF Init
  <2> QED BY <2>1 DEF File!Init, File!Objects
<1>2. IInv /\ [Next]_vars => [File!Next]_(File!vars)
  BY FileStep
<1> QED BY <1>1, <1>2, Invariance, PTL DEF Spec, IsFile, File!Spec

===============================================================================
