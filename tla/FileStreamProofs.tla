--------------------------- MODULE FileStreamProofs ---------------------------
(***************************************************************************)
(* Type correctness of FileStream, that the length kept by a RangeStream   *)
(* never ends its range too early and stays the distance to its end while  *)
(* no two subtractions race, and that a pread or pwrite nothing came       *)
(* between is exact, for all files, buffers, threads, lengths and offsets. *)
(***************************************************************************)
EXTENDS FileStream, SequenceTheorems, FiniteSetTheorems, TLAPS

FileType == [disk : Seq(Int), pos : Nat, ahead : Seq(Int), dirty : Seq(Int), eof : BOOLEAN]

TransferType == [op : {"pread", "pwrite"}, pc : {"seek", "transfer", "back"},
                 at : Nat, n : Nat, old : Nat, alone : BOOLEAN,
                 got : Seq(Int), text : Seq(Int)]

Below == 0..(Wrap - 1)

RangeType == [left : Below, end : Nat, exact : BOOLEAN, owed : Int, raced : BOOLEAN]

CountType == [pc : {"no", "load", "store"}, n : Below, seen : Below]

Types ==
  /\ fp \in FileType
  /\ transfer \in [Threads -> TransferType \cup {Idle}]
  /\ range \in RangeType
  /\ counting \in [Threads -> CountType]

Alone(t) == InTransfer(t) /\ transfer[t].alone
NoTransfer == \A t \in Threads : ~InTransfer(t)

\* The bytes that threads have read and not yet counted, and what the position and
\* m_len add up to, if m_len is exact.
Untaken(c) == UNION {{t} \X (1..c[t].n) : t \in Threads}
Due(r, c) == r.end + r.owed + Cardinality(Untaken(c))

\* How m_len, and what a thread has seen of it, relate to the position p.
InStep(p, r, c) ==
  /\ p + r.left >= Due(r, c)
  /\ ~r.raced /\ p <= Due(r, c) => p + r.left = Due(r, c)
  /\ \A t \in Threads : c[t].pc = "store" => p + c[t].seen >= Due(r, c)

\* A thread that is about to store m_len is the only one, and has seen what it is.
OneStore(r, c) ==
  \A t \in Threads : c[t].pc = "store" => /\ c[t].seen = r.left
                                          /\ \A u \in Threads \ {t} : c[u].pc # "store"

NothingTaken(c) == \A t \in Threads : c[t].pc = "no" => c[t].n = 0

\* A transfer nothing came between is the only one; where it will leave the
\* position is in step with the range as the position was.
IInv ==
  /\ Types
  /\ NothingTaken(counting)
  /\ \A t \in Threads : Alone(t) => \A u \in Threads \ {t} : ~InTransfer(u)
  /\ range.exact /\ NoTransfer => InStep(fp.pos, range, counting)
  /\ range.exact => \A t \in Threads : Alone(t) => InStep(transfer[t].old, range, counting)
  /\ range.exact /\ ~range.raced => OneStore(range, counting)

(***************************************************************************)
(* m_len and the bytes not yet taken from it.                              *)
(***************************************************************************)

\* Numbers below Wrap, and their differences.
LEMMA BelowOK ==
  /\ Below \subseteq Nat /\ 0 \in Below /\ Lengths \subseteq Below
  /\ \A a, b \in Below : Minus(a, b) \in Below /\ Minus(a, b) >= a - b
                         /\ (b <= a => Minus(a, b) = a - b)
BY ArgumentsAssumption DEF Below, Minus

\* They are finitely many, and change with the count of one thread.
LEMMA UntakenOK ==
  ASSUME NEW c \in [Threads -> CountType]
  PROVE  /\ IsFiniteSet(Untaken(c)) /\ Cardinality(Untaken(c)) \in Nat
         /\ \A t \in Threads, y \in CountType :
              Cardinality(Untaken([c EXCEPT ![t] = y]))
                = Cardinality(Untaken(c)) - c[t].n + y.n
<1>1. \A u \in Threads : c[u] \in CountType
  OBVIOUS
<1>2. \A x \in CountType : x.n \in Nat /\ x.n <= Wrap - 1
  BY ArgumentsAssumption DEF CountType, Below
<1>3. ASSUME NEW S \in SUBSET Threads
      PROVE  IsFiniteSet(UNION {{u} \X (1..c[u].n) : u \in S})
  <2>1. IsFiniteSet(1..(Wrap - 1))
    BY FS_Interval, ArgumentsAssumption
  <2>2. IsFiniteSet(Threads \X (1..(Wrap - 1)))
    BY <2>1, FS_Product, ThreadsAssumption
  <2>3. \A u \in S : 1..c[u].n \subseteq 1..(Wrap - 1)
    BY <1>1, <1>2, ArgumentsAssumption
  <2>4. (UNION {{u} \X (1..c[u].n) : u \in S}) \subseteq Threads \X (1..(Wrap - 1))
    BY <2>3
  <2> QED BY <2>2, <2>4, FS_Subset
<1>4. IsFiniteSet(Untaken(c)) /\ Cardinality(Untaken(c)) \in Nat
  BY <1>3, FS_CardinalityType DEF Untaken
<1>5. ASSUME NEW t \in Threads, NEW y \in CountType
      PROVE  Cardinality(Untaken([c EXCEPT ![t] = y])) = Cardinality(Untaken(c)) - c[t].n + y.n
  <2> DEFINE rest == UNION {{u} \X (1..c[u].n) : u \in Threads \ {t}}
             d == [c EXCEPT ![t] = y]
  <2>1. IsFiniteSet(rest) /\ Cardinality(rest) \in Nat
    BY <1>3, FS_CardinalityType
  <2>2. ASSUME NEW n \in Nat
        PROVE  Cardinality(rest \cup ({t} \X (1..n))) = Cardinality(rest) + n
    <3>1. IsFiniteSet(1..n) /\ Cardinality(1..n) = n
      BY FS_Interval
    <3>2. IsFiniteSet({t}) /\ Cardinality({t}) = 1
      BY FS_Singleton
    <3>3. IsFiniteSet({t} \X (1..n)) /\ Cardinality({t} \X (1..n)) = n
      <4> DEFINE a == {t}
                 b == 1..n
      <4>1. IsFiniteSet(a) /\ IsFiniteSet(b) /\ Cardinality(a) = 1 /\ Cardinality(b) = n
        BY <3>1, <3>2
      <4> HIDE DEF a, b
      <4>2. IsFiniteSet(a \X b) /\ Cardinality(a \X b) = Cardinality(a) * Cardinality(b)
        BY <4>1, FS_Product
      <4>3. 1 * n = n
        OBVIOUS
      <4>4. IsFiniteSet(a \X b) /\ Cardinality(a \X b) = n
        BY <4>1, <4>2, <4>3
      <4> QED BY <4>4 DEF a, b
    <3>4. rest \cap ({t} \X (1..n)) = {}
      OBVIOUS
    <3>5. Cardinality({}) = 0
      BY FS_EmptySet
    <3> DEFINE new == {t} \X (1..n)
    <3>6. /\ IsFiniteSet(new) /\ IsFiniteSet(rest)
          /\ Cardinality(new) = n /\ Cardinality(rest \cap new) = 0
      BY <2>1, <3>3, <3>4, <3>5
    <3> HIDE DEF rest, new
    <3>7. Cardinality(rest \cup new)
            = Cardinality(rest) + Cardinality(new) - Cardinality(rest \cap new)
      BY <3>6, FS_Union
    <3>8. Cardinality(rest \cup new) = Cardinality(rest) + n
      BY <2>1, <3>6, <3>7
    <3> QED BY <3>8 DEF new
  <2>3. Untaken(c) = rest \cup ({t} \X (1..c[t].n))
    BY DEF Untaken
  <2>4. Untaken(d) = rest \cup ({t} \X (1..y.n))
    <3>1. d[t] = y /\ \A u \in Threads \ {t} : d[u] = c[u]
      OBVIOUS
    <3> HIDE DEF d
    <3> QED BY <3>1 DEF Untaken
  <2> HIDE DEF rest, d
  <2>5. Cardinality(Untaken(c)) = Cardinality(rest) + c[t].n
    BY <1>1, <1>2, <2>2, <2>3
  <2>6. Cardinality(Untaken(d)) = Cardinality(rest) + y.n
    BY <1>2, <2>2, <2>4
  <2>7. c[t].n \in Nat /\ y.n \in Nat
    BY <1>1, <1>2
  <2> QED BY <2>1, <2>5, <2>6, <2>7 DEF d
<1> QED BY <1>4, <1>5

\* None while no thread is counting.
LEMMA NoneUntaken ==
  ASSUME IInv, \A t \in Threads : ~Counting(t)
  PROVE  Cardinality(Untaken(counting)) = 0 /\ \A t \in Threads : counting[t].pc = "no"
<1>1. \A t \in Threads : counting[t].pc = "no" /\ counting[t].n = 0
  BY DEF Counting, IInv, NothingTaken
<1>2. Untaken(counting) = {}
  BY <1>1 DEF Untaken
<1> QED BY <1>1, <1>2, FS_EmptySet

(***************************************************************************)
(* The FILE.                                                               *)
(***************************************************************************)

\* Changing some members of a FILE, each to a value of its type.
LEMMA ExceptDirty ==
  ASSUME NEW f \in FileType, NEW p \in Nat, NEW w \in Seq(Int), NEW a \in Seq(Int)
  PROVE  /\ [f EXCEPT !.pos = p, !.dirty = w] \in FileType
         /\ [f EXCEPT !.pos = p, !.dirty = w, !.ahead = a] \in FileType
BY DEF FileType

\* No bytes are a sequence of bytes.
LEMMA NoBytes == <<>> \in Seq(Int)
OBVIOUS

\* A piece of a sequence is a sequence of at most the length asked for, and of
\* that length if the sequence goes so far.
LEMMA PieceOK ==
  ASSUME NEW s \in Seq(Int), NEW p \in Nat, NEW n \in Nat
  PROVE  /\ Piece(s, p, n) \in Seq(Int)
         /\ Len(Piece(s, p, n)) \in 0..n
         /\ p + n <= Len(s) => Len(Piece(s, p, n)) = n
<1> DEFINE e == Least(p + n, Len(s))
<1>1. /\ e \in Int /\ p + 1 \in Int /\ e <= Len(s) /\ e <= p + n
      /\ p + n <= Len(s) => e = p + n
  BY DEF Least
<1> HIDE DEF e
<1>2. \A i \in (p + 1)..e : s[i] \in Int
  <2>1. \A i \in (p + 1)..e : i \in 1..Len(s)
    BY <1>1
  <2> QED BY <2>1
<1>3. /\ SubSeq(s, p + 1, e) \in Seq(Int)
      /\ Len(SubSeq(s, p + 1, e)) = IF p + 1 <= e THEN e - (p + 1) + 1 ELSE 0
  BY <1>1, <1>2, SubSeqProperties
<1>4. Piece(s, p, n) = SubSeq(s, p + 1, e)
  BY DEF Piece, e
<1> QED BY <1>1, <1>3, <1>4

\* Bytes put into bytes are bytes.
LEMMA OverlayOK ==
  ASSUME NEW f \in Seq(Int), NEW p \in Int, NEW b \in Seq(Int)
  PROVE  Overlay(f, p, b) \in Seq(Int)
<1> DEFINE end == p + Len(b)
           new == IF end > Len(f) THEN end ELSE Len(f)
           g == [i \in 1..new |-> IF i > p /\ i <= end THEN b[i - p]
                                  ELSE IF i <= Len(f) THEN f[i] ELSE Zero]
<1>1. new \in Nat /\ end \in Int
  OBVIOUS
<1>2. \A i \in 1..new : g[i] \in Int
  <2> SUFFICES ASSUME NEW i \in 1..new PROVE g[i] \in Int
    OBVIOUS
  <2>1. CASE i > p /\ i <= end
    <3>1. i - p \in 1..Len(b)
      BY <2>1
    <3>2. g[i] = b[i - p]
      BY <2>1
    <3> QED BY <3>1, <3>2
  <2>2. CASE ~(i > p /\ i <= end) /\ i <= Len(f)
    <3>1. i \in 1..Len(f) /\ g[i] = f[i]
      BY <2>2
    <3> QED BY <3>1
  <2>3. CASE ~(i > p /\ i <= end) /\ ~(i <= Len(f))
    BY <2>3 DEF Zero
  <2> QED BY <2>1, <2>2, <2>3
<1>3. Overlay(f, p, b) = f \/ Overlay(f, p, b) = g
  BY DEF Overlay, Put
<1> HIDE DEF new
<1>4. g \in [1..new -> Int]
  BY <1>2
<1>5. g \in Seq(Int)
  BY <1>1, <1>4
<1> HIDE DEF g
<1> QED BY <1>3, <1>5

\* A flush keeps the position.
LEMMA FlushedOK ==
  ASSUME NEW f \in FileType
  PROVE  Text(f) \in Seq(Int) /\ Flushed(f) \in FileType /\ Flushed(f).pos = f.pos
<1>1. f.pos - Len(f.dirty) \in Int /\ f.disk \in Seq(Int) /\ f.dirty \in Seq(Int)
  BY DEF FileType
<1>2. Text(f) \in Seq(Int)
  BY <1>1, OverlayOK DEF Text
<1>3. [f EXCEPT !.disk = Text(f), !.dirty = <<>>] = Flushed(f)
  BY DEF Flushed
<1> DEFINE d == Text(f)
           w == <<>>
<1>4. d \in Seq(Int) /\ w \in Seq(Int) /\ [f EXCEPT !.disk = d, !.dirty = w] = Flushed(f)
  BY <1>2, <1>3, NoBytes
<1> HIDE DEF d, w
<1>5. [f EXCEPT !.disk = d, !.dirty = w] \in FileType /\ [f EXCEPT !.disk = d, !.dirty = w].pos = f.pos
  BY <1>4 DEF FileType
<1>6. Flushed(f) \in FileType /\ Flushed(f).pos = f.pos
  BY <1>4, <1>5
<1> QED BY <1>2, <1>6

\* A seek sets the position.
LEMMA SoughtOK ==
  ASSUME NEW f \in FileType, NEW p \in Nat
  PROVE  SeekTo(f, p) \in FileType /\ SeekTo(f, p).pos = p
<1>1. Flushed(f) \in FileType
  BY FlushedOK
<1> DEFINE g == Flushed(f)
           a == <<>>
           e == FALSE
<1>2. /\ g \in FileType /\ a \in Seq(Int) /\ e \in BOOLEAN
      /\ SeekTo(f, p) = [g EXCEPT !.pos = p, !.ahead = a, !.eof = e]
  BY <1>1, NoBytes DEF SeekTo, Sought
<1> HIDE DEF g, a, e
<1>3. /\ [g EXCEPT !.pos = p, !.ahead = a, !.eof = e] \in FileType
      /\ [g EXCEPT !.pos = p, !.ahead = a, !.eof = e].pos = p
  BY <1>2 DEF FileType
<1> QED BY <1>2, <1>3

\* A read moves the position by what it got.
LEMMA FreadOK ==
  ASSUME NEW f \in FileType, NEW n \in Nat
  PROVE  /\ Fread(f, n).f \in FileType
         /\ Len(Fread(f, n).got) \in 0..n
         /\ Fread(f, n).f.pos = f.pos + Len(Fread(f, n).got)
         /\ Fread(f, n).got \in Seq(Int)
<1> DEFINE g == Flushed(f)
           rest == SubSeq(g.disk, g.pos + 1, Len(g.disk))
           from == IF n <= Len(g.ahead) \/ g.eof THEN g.ahead ELSE rest
           got == Piece(from, 0, n)
<1>1. g \in FileType /\ g.pos = f.pos
  BY FlushedOK
<1> HIDE DEF g
<1>2. rest \in Seq(Int)
  <2>1. g.disk \in Seq(Int) /\ g.pos \in Nat
    BY <1>1 DEF FileType
  <2>2. \A i \in (g.pos + 1)..Len(g.disk) : g.disk[i] \in Int
    <3>1. \A i \in (g.pos + 1)..Len(g.disk) : i \in 1..Len(g.disk)
      BY <2>1
    <3> QED BY <2>1, <3>1
  <2>3. g.pos + 1 \in Int /\ Len(g.disk) \in Int
    BY <2>1
  <2> QED BY <2>2, <2>3, SubSeqProperties
<1> HIDE DEF rest
<1>3. from \in Seq(Int)
  BY <1>1, <1>2 DEF FileType
<1> HIDE DEF from
<1>4. got \in Seq(Int) /\ Len(got) \in 0..n
  BY <1>3, PieceOK
<1> HIDE DEF got
<1>5. Piece(from, Len(got), Buf) \in Seq(Int)
  BY <1>3, <1>4, PieceOK, FileAssumption
<1> DEFINE q == f.pos + Len(got)
           left == Piece(from, Len(got), Buf)
           e == g.eof \/ Len(got) < n
           h == [g EXCEPT !.pos = q, !.ahead = left, !.eof = e]
<1>6. Fread(f, n) = [f |-> h, got |-> got]
  BY <1>1 DEF Fread, g, from, got, rest
<1>7. q \in Nat /\ left \in Seq(Int) /\ e \in BOOLEAN
  BY <1>1, <1>4, <1>5 DEF FileType
<1>8. q = f.pos + Len(got)
  OBVIOUS
<1> HIDE DEF q, left, e
<1>9. h \in FileType /\ h.pos = q
  BY <1>1, <1>7 DEF FileType
<1> HIDE DEF h
<1> QED BY <1>4, <1>6, <1>8, <1>9

\* So does ensureRead, and when it does not throw it got what was asked for.
LEMMA EnsureReadOK ==
  ASSUME NEW f \in FileType, NEW n \in Nat
  PROVE  /\ EnsureRead(f, n).f \in FileType
         /\ EnsureRead(f, n).exc \in BOOLEAN
         /\ Len(EnsureRead(f, n).got) \in Nat
         /\ EnsureRead(f, n).f.pos = f.pos + Len(EnsureRead(f, n).got)
         /\ ~EnsureRead(f, n).exc => Len(EnsureRead(f, n).got) = n
<1>1. CASE n <= Len(f.ahead)
  <2> DEFINE q == f.pos + n
             more == Piece(f.ahead, n, Buf)
             h == [f EXCEPT !.pos = q, !.ahead = more]
  <2>1. more \in Seq(Int) /\ q \in Nat
    <3>1. f.ahead \in Seq(Int) /\ f.pos \in Nat /\ Buf \in Nat
      BY FileAssumption DEF FileType
    <3>2. more \in Seq(Int)
      BY <3>1, PieceOK
    <3>3. q \in Nat
      BY <3>1
    <3> QED BY <3>2, <3>3
  <2>2. /\ EnsureRead(f, n).f = h /\ EnsureRead(f, n).exc = FALSE
        /\ EnsureRead(f, n).got = Piece(f.ahead, 0, n)
    BY <1>1 DEF EnsureRead
  <2>5. Len(Piece(f.ahead, 0, n)) = n
    BY <1>1, PieceOK DEF FileType
  <2>3. q = f.pos + n
    OBVIOUS
  <2> HIDE DEF q, more
  <2>4. h \in FileType /\ h.pos = q
    BY <2>1 DEF FileType
  <2> HIDE DEF h
  <2> QED BY <2>2, <2>3, <2>4, <2>5
<1>2. CASE ~(n <= Len(f.ahead))
  <2> DEFINE r == Fread(f, n)
  <2>1. EnsureRead(f, n) = [f |-> r.f, got |-> r.got, exc |-> Len(r.got) # n]
    BY <1>2 DEF EnsureRead
  <2>2. r.f \in FileType /\ Len(r.got) \in 0..n /\ r.f.pos = f.pos + Len(r.got)
    BY FreadOK
  <2> DEFINE k == Len(r.got)
             e == k # n
  <2>3. /\ EnsureRead(f, n).f = r.f /\ EnsureRead(f, n).exc = e
        /\ Len(EnsureRead(f, n).got) = k
    BY <2>1
  <2> HIDE DEF r, k
  <2>4. k \in Nat /\ r.f \in FileType /\ r.f.pos = f.pos + k
    BY <2>2 DEF k
  <2> QED BY <2>3, <2>4
<1> QED BY <1>1, <1>2

\* A write leaves a FILE, by either path.
LEMMA WriteOK ==
  ASSUME NEW f \in FileType, NEW b \in Seq(Int)
  PROVE  Fwrite(f, b) \in FileType /\ EnsureWrite(f, b) \in FileType
<1> DEFINE q == f.pos + Len(b)
           w == f.dirty \o b
<1>1. q \in Nat /\ w \in Seq(Int)
  BY ConcatProperties DEF FileType
<1>2. /\ [f EXCEPT !.pos = @ + Len(b), !.dirty = @ \o b, !.ahead = <<>>]
           = [f EXCEPT !.pos = q, !.dirty = w, !.ahead = <<>>]
      /\ [f EXCEPT !.pos = @ + Len(b), !.dirty = @ \o b] = [f EXCEPT !.pos = q, !.dirty = w]
  OBVIOUS
<1> HIDE DEF q, w
<1>3. /\ [f EXCEPT !.pos = q, !.dirty = w, !.ahead = <<>>] \in FileType
      /\ [f EXCEPT !.pos = q, !.dirty = w] \in FileType
  BY <1>1, NoBytes, ExceptDirty
<1>4. Fwrite(f, b) \in FileType
  BY <1>2, <1>3, FlushedOK DEF Fwrite
<1> QED BY <1>2, <1>3, <1>4 DEF EnsureWrite

\* What a thread writes is a sequence of bytes.
LEMMA BytesOK ==
  ASSUME NEW t \in Threads, NEW n \in Nat
  PROVE  Bytes(t, n) \in Seq(Int)
BY ThreadsAssumption DEF Bytes

(***************************************************************************)
(* What a call does to the transfers that are under way.                   *)
(***************************************************************************)

\* They stay under way, and those of other threads are not alone any more.
LEMMA OverlappedOK ==
  ASSUME Types, NEW t \in Threads
  PROVE  /\ Overlapped(t) \in [Threads -> TransferType \cup {Idle}]
         /\ Overlapped(t)[t] = transfer[t]
         /\ \A u \in Threads \ {t} :
              /\ Overlapped(t)[u].op = "none" <=> ~InTransfer(u)
              /\ InTransfer(u) => ~Overlapped(t)[u].alone
<1>1. \A u \in Threads : InTransfer(u) => transfer[u] \in TransferType
  BY DEF Types, InTransfer, Idle
<1>2. \A x \in TransferType : Spoiled(x) \in TransferType /\ ~Spoiled(x).alone
  BY NoBytes DEF Spoiled, TransferType
<1>3. \A x \in TransferType : x.op # "none"
  BY DEF TransferType
<1>4. \A u \in Threads : Overlapped(t)[u] = IF u # t /\ InTransfer(u) THEN Spoiled(transfer[u])
                                            ELSE transfer[u]
  BY DEF Overlapped
<1>5. Overlapped(t) \in [Threads -> TransferType \cup {Idle}]
  <2>1. \A u \in Threads : Overlapped(t)[u] \in TransferType \cup {Idle}
    BY <1>1, <1>2, <1>4 DEF Types
  <2> QED BY <2>1 DEF Overlapped
<1>6. ASSUME NEW u \in Threads \ {t}
      PROVE  /\ Overlapped(t)[u].op = "none" <=> ~InTransfer(u)
             /\ InTransfer(u) => ~Overlapped(t)[u].alone
  <2>1. CASE InTransfer(u)
    <3>1. Overlapped(t)[u] = Spoiled(transfer[u]) /\ transfer[u] \in TransferType
      BY <1>1, <1>4, <2>1
    <3> QED BY <1>2, <1>3, <2>1, <3>1
  <2>2. CASE ~InTransfer(u)
    BY <1>4, <2>2 DEF InTransfer
  <2> QED BY <2>1, <2>2
<1> QED BY <1>4, <1>5, <1>6

\* A range that was left is not comparable any more.
LEMMA MovedOK ==
  ASSUME Types
  PROVE  Moved \in RangeType /\ Moved.exact = FALSE /\ Moved.left = range.left
<1>1. range.left \in Below /\ 0 \in Nat /\ 0 \in Int
  BY DEF Types, RangeType
<1> QED BY <1>1 DEF Moved, LooseRange, RangeType

\* A thread that has the object for itself comes between nothing.
LEMMA UnsharedOverlapped ==
  ASSUME Types, NEW t \in Threads, Unshared(t)
  PROVE  Overlapped(t) = transfer
<1>1. \A u \in Threads : Overlapped(t)[u] = transfer[u]
  BY DEF Unshared, Overlapped
<1>2. DOMAIN Overlapped(t) = Threads /\ Overlapped(t) = [u \in Threads |-> Overlapped(t)[u]]
  BY DEF Overlapped
<1>3. transfer = [u \in Threads |-> transfer[u]]
  BY DEF Types
<1> QED BY <1>1, <1>2, <1>3

\* A call of a thread that is in no transfer of its own leaves none alone; it
\* has to keep the range in step only when there was none at all.
LEMMA CallIInv ==
  ASSUME IInv, NEW t \in Threads, ~InTransfer(t),
         fp' \in FileType, transfer' = Overlapped(t), range' \in RangeType,
         counting' \in [Threads -> CountType], NothingTaken(counting'),
         range'.exact /\ NoTransfer => InStep(fp'.pos, range', counting'),
         range'.exact /\ ~range'.raced => OneStore(range', counting')
  PROVE  IInv'
<1>1. Types'
  BY OverlappedOK DEF IInv, Types
<1>2. \A u \in Threads : InTransfer(u)' <=> InTransfer(u)
  BY OverlappedOK DEF IInv, InTransfer
<1>3. \A u \in Threads : ~Alone(u)'
  BY <1>2, OverlappedOK DEF IInv, Alone
<1>4. NoTransfer' => NoTransfer
  BY <1>2 DEF NoTransfer
<1> QED BY <1>1, <1>3, <1>4 DEF IInv

\* read, write and seek of the stream itself give up the range.
LEMMA MovingCallIInv ==
  ASSUME IInv, NEW t \in Threads, Sharing(t),
         ReadCall(t) \/ WriteCall(t) \/ SeekCall(t)
  PROVE  IInv'
<1>1. ~InTransfer(t) /\ fp \in FileType
  BY DEF Sharing, IInv, Types
<1>2. range' = Moved /\ transfer' = Overlapped(t) /\ counting' = counting
  BY DEF ReadCall, WriteCall, SeekCall
<1>3. fp' \in FileType
  <2>1. CASE ReadCall(t)
    <3>1. PICK n \in Lengths : fp' = Read(fp, n).f \/ fp' = EnsureRead(fp, n).f
      BY <2>1 DEF ReadCall
    <3>2. n \in Nat
      BY BelowOK
    <3> QED BY <1>1, <3>1, <3>2, FreadOK, EnsureReadOK DEF Read
  <2>2. CASE WriteCall(t)
    <3>1. PICK n \in Lengths : fp' = Write(fp, Bytes(t, n)) \/ fp' = EnsureWrite(fp, Bytes(t, n))
      BY <2>2 DEF WriteCall
    <3>2. Bytes(t, n) \in Seq(Int)
      BY BelowOK, BytesOK
    <3> QED BY <1>1, <3>1, <3>2, WriteOK DEF Write
  <2>3. CASE SeekCall(t)
    <3>1. PICK p \in Positions, from \in {0, fp.pos, Len(Text(fp))} : fp' = SeekTo(fp, from + p)
      BY <2>3 DEF SeekCall
    <3>2. from + p \in Nat
      <4>1. Text(fp) \in Seq(Int) /\ fp.pos \in Nat /\ p \in Nat
        BY <1>1, FlushedOK, ArgumentsAssumption DEF FileType
      <4> QED BY <4>1
    <3> QED BY <1>1, <3>1, <3>2, SoughtOK
  <2> QED BY <2>1, <2>2, <2>3
<1>4. range' \in RangeType /\ ~range'.exact
  BY <1>2, MovedOK DEF IInv
<1>5. counting' \in [Threads -> CountType] /\ NothingTaken(counting')
  BY <1>2 DEF IInv, Types
<1> QED BY <1>1, <1>2, <1>3, <1>4, <1>5, CallIInv

\* flush moves nothing.
LEMMA FlushCallIInv ==
  ASSUME IInv, NEW t \in Threads, FlushCall(t)
  PROVE  IInv'
<1>1. fp' \in FileType /\ fp'.pos = fp.pos
  BY FlushedOK DEF FlushCall, IInv, Types
<1>2. ~InTransfer(t) /\ transfer' = Overlapped(t) /\ range' = range /\ counting' = counting
  BY DEF FlushCall, Sharing
<1>3. range' \in RangeType /\ counting' \in [Threads -> CountType] /\ NothingTaken(counting')
  BY <1>2 DEF IInv, Types
<1>4. /\ range'.exact /\ NoTransfer => InStep(fp'.pos, range', counting')
      /\ range'.exact /\ ~range'.raced => OneStore(range', counting')
  BY <1>1, <1>2 DEF IInv
<1> QED BY <1>1, <1>2, <1>3, <1>4, CallIInv

\* The locked half of read: what came is still to be counted.
LEMMA RangeReadIInv ==
  ASSUME IInv, NEW t \in Threads, RangeRead(t)
  PROVE  IInv'
<1>1. /\ fp \in FileType /\ fp.pos \in Nat /\ range \in RangeType
      /\ counting \in [Threads -> CountType] /\ Types
  BY DEF IInv, Types, FileType
<1>2. ~InTransfer(t) /\ counting[t].pc = "no" /\ counting[t].n = 0
  BY DEF RangeRead, Sharing, Counting, IInv, NothingTaken
<1>3. PICK n \in Lengths \cup {range.left} :
        /\ fp' = Read(fp, n).f
        /\ counting' = [counting EXCEPT ![t] = [pc |-> "load", n |-> Came(Read(fp, n).got, n),
                                                seen |-> 0]]
  BY DEF RangeRead
<1>4. n \in Below /\ n \in Nat
  BY <1>1, BelowOK DEF RangeType
<1> DEFINE k == Len(Fread(fp, n).got)
           y == [pc |-> "load", n |-> k, seen |-> 0]
<1>5. fp' \in FileType /\ fp'.pos = fp.pos + k /\ k \in 0..n
  BY <1>1, <1>3, <1>4, FreadOK DEF Read
<1>6. counting' = [counting EXCEPT ![t] = y]
  BY <1>3 DEF Came, Read
<1> HIDE DEF k
<1>7. k \in Below /\ k \in Nat
  BY <1>4, <1>5, ArgumentsAssumption DEF Below
<1>8. y \in CountType /\ y.pc = "load" /\ y.n = k
  BY <1>7, BelowOK DEF CountType
<1> HIDE DEF y
<1>9. /\ counting' \in [Threads -> CountType] /\ counting'[t] = y
      /\ \A u \in Threads \ {t} : counting'[u] = counting[u]
  BY <1>1, <1>6, <1>8
<1>10. NothingTaken(counting')
  BY <1>8, <1>9 DEF IInv, NothingTaken
<1>11. range' = (IF \E u \in Threads : InTransfer(u) THEN Moved ELSE range)
       /\ transfer' = Overlapped(t)
  BY DEF RangeRead
<1>12. range' \in RangeType /\ (range'.exact => NoTransfer /\ range' = range)
  BY <1>1, <1>11, MovedOK DEF NoTransfer
<1>13. Due(range, counting') = Due(range, counting) + k /\ Due(range, counting) \in Int
  <2>1. Cardinality(Untaken(counting')) = Cardinality(Untaken(counting)) - 0 + k
    BY <1>1, <1>2, <1>6, <1>8, UntakenOK
  <2>2. Cardinality(Untaken(counting)) \in Nat
    BY <1>1, UntakenOK
  <2>3. range.end \in Int /\ range.owed \in Int
    BY <1>1 DEF RangeType
  <2> QED BY <1>7, <2>1, <2>2, <2>3 DEF Due
<1>14. ASSUME range'.exact PROVE InStep(fp'.pos, range', counting')
  <2>1. InStep(fp.pos, range, counting) /\ range' = range
    BY <1>12, <1>14 DEF IInv
  <2>2. range.left \in Nat
    BY <1>1, BelowOK DEF RangeType
  <2>3. \A u \in Threads : counting'[u].pc = "store" => /\ counting[u].pc = "store"
                                                         /\ counting'[u].seen = counting[u].seen
                                                         /\ counting[u].seen \in Nat
    BY <1>1, <1>8, <1>9, BelowOK DEF CountType
  <2> QED BY <1>1, <1>5, <1>7, <1>13, <2>1, <2>2, <2>3 DEF InStep
<1>15. range'.exact /\ ~range'.raced => OneStore(range', counting')
  BY <1>8, <1>9, <1>12 DEF IInv, OneStore
<1> QED BY <1>2, <1>5, <1>9, <1>10, <1>11, <1>12, <1>14, <1>15, CallIInv

\* A step that leaves the FILE and the transfers alone, and what is in step in step.
LEMMA CountIInv ==
  ASSUME IInv, UNCHANGED <<fp, transfer>>, range' \in RangeType,
         counting' \in [Threads -> CountType], NothingTaken(counting'),
         range'.exact => range.exact,
         range.exact => \A p \in Nat : InStep(p, range, counting) => InStep(p, range', counting'),
         range'.exact /\ ~range'.raced => OneStore(range', counting')
  PROVE  IInv'
<1>1. fp' = fp /\ transfer' = transfer
  OBVIOUS
<1>2. Types'
  BY <1>1 DEF IInv, Types
<1>3. /\ \A u \in Threads : (InTransfer(u)' <=> InTransfer(u)) /\ (Alone(u)' <=> Alone(u))
      /\ NoTransfer' <=> NoTransfer
  BY <1>1 DEF InTransfer, Alone, NoTransfer
<1>4. fp.pos \in Nat
  BY DEF IInv, Types, FileType
<1>5. \A u \in Threads : Alone(u) => transfer[u].old \in Nat
  BY DEF Alone, InTransfer, IInv, Types, Idle, TransferType
<1>6. range'.exact /\ NoTransfer' => InStep(fp'.pos, range', counting')
  BY <1>1, <1>3, <1>4 DEF IInv
<1>7. range'.exact => \A u \in Threads : Alone(u)' => InStep(transfer'[u].old, range', counting')
  BY <1>1, <1>3, <1>5 DEF IInv
<1>8. \A u \in Threads : Alone(u)' => \A v \in Threads \ {u} : ~InTransfer(v)'
  BY <1>3 DEF IInv
<1> QED BY <1>2, <1>6, <1>7, <1>8 DEF IInv

\* The load of m_len.
LEMMA CountLoadIInv ==
  ASSUME IInv, NEW t \in Threads, CountLoad(t)
  PROVE  IInv'
<1>1. /\ range \in RangeType /\ counting \in [Threads -> CountType]
      /\ counting[t] \in CountType /\ counting[t].pc = "load"
  BY DEF IInv, Types, CountLoad
<1> DEFINE pc == "store"
           l == range.left
           y == [counting[t] EXCEPT !.pc = pc, !.seen = l]
           b == range.raced \/ Overtaking
           r == [range EXCEPT !.raced = b]
<1>2. counting' = [counting EXCEPT ![t] = y]
  BY <1>1 DEF CountLoad
<1>3. range' = r
  BY DEF CountLoad
<1>4. /\ b \in BOOLEAN /\ l \in Below /\ l \in Nat
      /\ range.exact /\ ~b => \A u \in Threads : counting[u].pc # "store"
  <2>1. range.raced \in BOOLEAN /\ l \in Below /\ l \in Nat /\ Overtaking \in BOOLEAN
    BY <1>1, BelowOK DEF RangeType, Overtaking
  <2>2. range.exact /\ ~b => \A u \in Threads : counting[u].pc # "store"
    BY DEF Overtaking
  <2> HIDE DEF l
  <2> QED BY <2>1, <2>2
<1>5. b = FALSE => range.raced = FALSE
  BY <1>1 DEF RangeType
<1> HIDE DEF b
<1>6. /\ r \in RangeType /\ r.left = l /\ r.end = range.end /\ r.owed = range.owed
      /\ r.exact = range.exact /\ r.raced = b
  BY <1>1, <1>4 DEF RangeType
<1> HIDE DEF r
<1>7. y \in CountType /\ y.n = counting[t].n /\ y.pc = "store" /\ y.seen = l
  BY <1>1, <1>4 DEF CountType
<1> HIDE DEF y
<1>8. /\ counting' \in [Threads -> CountType] /\ counting'[t] = y
      /\ \A u \in Threads \ {t} : counting'[u] = counting[u]
  BY <1>1, <1>2, <1>7
<1>9. NothingTaken(counting')
  BY <1>7, <1>8 DEF IInv, NothingTaken
<1>10. counting[t].n \in Int /\ range.end \in Int /\ range.owed \in Int
  <2>1. counting[t].n \in Below /\ range.end \in Nat /\ range.owed \in Int
    BY <1>1 DEF CountType, RangeType
  <2> QED BY <2>1, ArgumentsAssumption DEF Below
<1>11. Due(range', counting') = Due(range, counting)
  <2>1. Cardinality(Untaken(counting'))
          = Cardinality(Untaken(counting)) - counting[t].n + counting[t].n
    BY <1>1, <1>2, <1>7, UntakenOK
  <2>2. Cardinality(Untaken(counting)) \in Nat
    BY <1>1, UntakenOK
  <2> QED BY <1>3, <1>6, <1>10, <2>1, <2>2 DEF Due
<1>12. ASSUME NEW p \in Nat, InStep(p, range, counting)
       PROVE  InStep(p, range', counting')
  <2>1. p + range'.left >= Due(range', counting')
    BY <1>3, <1>6, <1>11, <1>12 DEF InStep, l
  <2>2. ~range'.raced /\ p <= Due(range', counting') => p + range'.left = Due(range', counting')
    BY <1>3, <1>4, <1>5, <1>6, <1>11, <1>12 DEF InStep, l
  <2>3. \A u \in Threads : counting'[u].pc = "store" => p + counting'[u].seen >= Due(range', counting')
    BY <1>7, <1>8, <1>11, <1>12 DEF InStep, l
  <2> QED BY <2>1, <2>2, <2>3 DEF InStep
<1>13. ASSUME range'.exact, ~range'.raced PROVE OneStore(range', counting')
  <2>1. \A u \in Threads : counting[u].pc # "store"
    BY <1>3, <1>4, <1>6, <1>13
  <2> QED BY <1>3, <1>6, <1>7, <1>8, <2>1 DEF OneStore
<1>14. UNCHANGED <<fp, transfer>>
  BY DEF CountLoad
<1> QED BY <1>3, <1>6, <1>8, <1>9, <1>12, <1>13, <1>14, CountIInv

\* The store takes what came from what was seen.
LEMMA CountStoreIInv ==
  ASSUME IInv, NEW t \in Threads, CountStore(t)
  PROVE  IInv'
<1>1. /\ range \in RangeType /\ counting \in [Threads -> CountType]
      /\ counting[t] \in CountType /\ counting[t].pc = "store"
  BY DEF IInv, Types, CountStore
<1> DEFINE s == counting[t].seen
           n == counting[t].n
           l == Minus(s, n)
           r == [range EXCEPT !.left = l]
<1>2. counting' = [counting EXCEPT ![t] = NotCounting] /\ range' = r
  BY DEF CountStore
<1>3. s \in Below /\ n \in Below /\ s \in Nat /\ n \in Nat
  BY <1>1, BelowOK DEF CountType
<1>4. l \in Below /\ l \in Nat /\ l >= s - n /\ (n <= s => l = s - n)
  BY <1>3, BelowOK
<1> HIDE DEF l
<1>5. /\ r \in RangeType /\ r.left = l /\ r.end = range.end /\ r.owed = range.owed
      /\ r.exact = range.exact /\ r.raced = range.raced
  BY <1>1, <1>4 DEF RangeType
<1> HIDE DEF r
<1>6. NotCounting \in CountType /\ NotCounting.pc = "no" /\ NotCounting.n = 0
  BY BelowOK DEF NotCounting, CountType
<1>7. /\ counting' \in [Threads -> CountType] /\ counting'[t] = NotCounting
      /\ \A u \in Threads \ {t} : counting'[u] = counting[u]
  BY <1>1, <1>2, <1>6
<1>8. NothingTaken(counting')
  BY <1>6, <1>7 DEF IInv, NothingTaken
<1>9. range.end \in Int /\ range.owed \in Int /\ range.left \in Nat
  <2>1. range.left \in Below /\ range.end \in Nat /\ range.owed \in Int
    BY <1>1 DEF RangeType
  <2> QED BY <2>1, ArgumentsAssumption DEF Below
<1>10. /\ Due(range', counting') = Due(range, counting) - n
       /\ Due(range, counting) \in Int
  <2>1. Cardinality(Untaken(counting')) = Cardinality(Untaken(counting)) - n + 0
    BY <1>1, <1>2, <1>6, UntakenOK
  <2>2. Cardinality(Untaken(counting)) \in Nat
    BY <1>1, UntakenOK
  <2>3. /\ Due(range', counting') = range.end + range.owed + Cardinality(Untaken(counting'))
        /\ Due(range, counting) = range.end + range.owed + Cardinality(Untaken(counting))
    BY <1>2, <1>5 DEF Due
  <2> QED BY <1>3, <1>9, <2>1, <2>2, <2>3
<1>11. ASSUME range.exact, NEW p \in Nat, InStep(p, range, counting)
       PROVE  InStep(p, range', counting')
  <2>1. p + s >= Due(range, counting)
    BY <1>1, <1>11 DEF InStep
  <2>2. p + range'.left >= Due(range', counting')
    BY <1>2, <1>3, <1>4, <1>5, <1>10, <2>1
  <2>3. ASSUME ~range'.raced, p <= Due(range', counting')
        PROVE  p + range'.left = Due(range', counting')
    <3>1. s = range.left
      BY <1>1, <1>2, <1>5, <1>11, <2>3 DEF IInv, OneStore
    <3>2. p + s = Due(range, counting)
      BY <1>2, <1>3, <1>5, <1>10, <1>11, <2>3, <3>1 DEF InStep
    <3>3. n <= s
      BY <1>3, <1>10, <2>3, <3>2
    <3> QED BY <1>2, <1>3, <1>4, <1>5, <1>10, <3>2, <3>3
  <2>4. ASSUME NEW u \in Threads, counting'[u].pc = "store"
        PROVE  p + counting'[u].seen >= Due(range', counting')
    <3>1. u # t /\ counting'[u] = counting[u]
      BY <1>6, <1>7, <2>4
    <3>2. p + counting[u].seen >= Due(range, counting) /\ counting[u].seen \in Nat
      BY <1>1, <1>11, <2>4, <3>1, BelowOK DEF InStep, CountType
    <3> QED BY <1>3, <1>10, <3>1, <3>2
  <2> QED BY <2>2, <2>3, <2>4 DEF InStep
<1>12. ASSUME range'.exact, ~range'.raced PROVE OneStore(range', counting')
  <2>1. \A u \in Threads \ {t} : counting[u].pc # "store"
    BY <1>1, <1>2, <1>5, <1>12 DEF IInv, OneStore
  <2> QED BY <1>6, <1>7, <2>1 DEF OneStore
<1>13. UNCHANGED <<fp, transfer>>
  BY DEF CountStore
<1> QED BY <1>2, <1>5, <1>7, <1>8, <1>11, <1>12, <1>13, CountIInv

\* The calls without a lock take from the length what the position moves by, but for
\* what they owe.
LEMMA RangedIInv ==
  ASSUME IInv, NEW t \in Threads, RangeEnsureRead(t) \/ RangeByte(t)
  PROVE  IInv'
<1>1. /\ fp \in FileType /\ fp.pos \in Nat /\ range \in RangeType /\ range.left \in Nat
      /\ counting \in [Threads -> CountType] /\ Types
  BY BelowOK DEF IInv, Types, FileType, RangeType
<1>2. \E f \in FileType, counted \in Nat, owed \in Int :
        /\ Ranged(t, f, counted, owed)
        /\ counted <= range.left /\ f.pos = fp.pos + counted + owed
  <2>1. CASE RangeEnsureRead(t)
    <3>1. PICK n \in Lengths \cup {range.left} :
            /\ n <= range.left
            /\ IF EnsureRead(fp, n).exc
               THEN Ranged(t, EnsureRead(fp, n).f, 0, Len(EnsureRead(fp, n).got))
               ELSE Ranged(t, EnsureRead(fp, n).f, n, 0)
      BY <2>1 DEF RangeEnsureRead
    <3>2. n \in Nat
      BY <1>1, BelowOK
    <3> DEFINE f == EnsureRead(fp, n).f
               k == Len(EnsureRead(fp, n).got)
               e == EnsureRead(fp, n).exc
    <3>3. f \in FileType /\ k \in Nat /\ f.pos = fp.pos + k /\ (~e => k = n)
      BY <1>1, <3>2, EnsureReadOK
    <3>4. n <= range.left /\ IF e THEN Ranged(t, f, 0, k) ELSE Ranged(t, f, n, 0)
      BY <3>1
    <3> HIDE DEF f, k, e
    <3>5. CASE e
      <4>1. 0 \in Nat /\ k \in Int /\ 0 <= range.left /\ f.pos = fp.pos + 0 + k
        BY <1>1, <3>3
      <4> QED BY <3>3, <3>4, <3>5, <4>1
    <3>6. CASE ~e
      <4>1. 0 \in Int /\ f.pos = fp.pos + n + 0
        BY <1>1, <3>2, <3>3, <3>6
      <4> QED BY <3>2, <3>3, <3>4, <3>6, <4>1
    <3> QED BY <3>5, <3>6
  <2>2. CASE RangeByte(t)
    <3> DEFINE f == EnsureRead(fp, 1).f
               k == Len(EnsureRead(fp, 1).got)
    <3>1. f \in FileType /\ k \in Nat /\ f.pos = fp.pos + k
      BY <1>1, EnsureReadOK
    <3>2. Ranged(t, f, 1, k - 1) /\ range.left > 0
      BY <2>2 DEF RangeByte, ReadByte
    <3> HIDE DEF f, k
    <3>3. 1 \in Nat /\ k - 1 \in Int /\ 1 <= range.left /\ f.pos = fp.pos + 1 + (k - 1)
      BY <1>1, <3>1, <3>2
    <3> QED BY <3>1, <3>2, <3>3
  <2> QED BY <2>1, <2>2
<1>3. PICK f \in FileType, counted \in Nat, owed \in Int :
        /\ Ranged(t, f, counted, owed)
        /\ counted <= range.left /\ f.pos = fp.pos + counted + owed
  BY <1>2
<1>4. Unshared(t) /\ fp' = f /\ transfer' = transfer /\ counting' = counting
  BY <1>3 DEF Ranged
<1>5. transfer' = Overlapped(t) /\ ~InTransfer(t) /\ \A u \in Threads : ~Counting(u)
  BY <1>1, <1>4, UnsharedOverlapped DEF Unshared, Sharing
<1> DEFINE l == range.left - counted
           o == IF range.exact THEN range.owed + owed ELSE 0
           r == [range EXCEPT !.left = l, !.owed = o]
<1>6. range' = r
  BY <1>3 DEF Ranged
<1>7. l \in Below /\ l \in Nat /\ l = range.left - counted
  BY <1>1, <1>3, ArgumentsAssumption DEF RangeType, Below
<1>8. o \in Int /\ (range.exact => o = range.owed + owed)
  BY <1>1 DEF RangeType
<1> HIDE DEF l, o
<1>9. /\ r \in RangeType /\ r.left = l /\ r.end = range.end /\ r.owed = o
      /\ r.exact = range.exact /\ r.raced = range.raced
  BY <1>1, <1>7, <1>8 DEF RangeType
<1> HIDE DEF r
<1>10. /\ Cardinality(Untaken(counting)) = 0
       /\ \A u \in Threads : counting'[u].pc = "no"
  BY <1>4, <1>5, NoneUntaken
<1>11. range.end \in Int /\ range.owed \in Int
  BY <1>1 DEF RangeType
<1>12. /\ Due(range, counting) = range.end + range.owed
       /\ Due(range', counting') = range.end + o
  BY <1>4, <1>6, <1>8, <1>9, <1>10, <1>11 DEF Due
<1>13. ASSUME range'.exact, NoTransfer PROVE InStep(fp'.pos, range', counting')
  <2>1. InStep(fp.pos, range, counting) /\ o = range.owed + owed
    BY <1>6, <1>8, <1>9, <1>13 DEF IInv
  <2>2. /\ fp.pos + range.left >= range.end + range.owed
        /\ ~range.raced /\ fp.pos <= range.end + range.owed
             => fp.pos + range.left = range.end + range.owed
    BY <1>12, <2>1 DEF InStep
  <2>3. fp'.pos = fp.pos + counted + owed /\ range'.left = range.left - counted
        /\ Due(range', counting') = range.end + range.owed + owed
    BY <1>3, <1>4, <1>6, <1>7, <1>9, <1>11, <1>12, <2>1
  <2>4. fp'.pos + range'.left >= Due(range', counting')
    BY <1>1, <1>3, <1>11, <2>2, <2>3
  <2>5. ~range'.raced /\ fp'.pos <= Due(range', counting')
          => fp'.pos + range'.left = Due(range', counting')
    BY <1>1, <1>3, <1>6, <1>9, <1>11, <2>2, <2>3
  <2> QED BY <1>10, <2>4, <2>5 DEF InStep
<1>14. OneStore(range', counting')
  BY <1>10 DEF OneStore
<1>15. NothingTaken(counting') /\ counting' \in [Threads -> CountType]
  BY <1>1, <1>4 DEF IInv
<1> QED BY <1>4, <1>5, <1>6, <1>9, <1>13, <1>14, <1>15, CallIInv

\* A new length of the range is measured from the position.
LEMMA SetRangeLenIInv ==
  ASSUME IInv, NEW t \in Threads, SetRangeLen(t)
  PROVE  IInv'
<1>1. PICK n \in Lengths :
        range' = IF \E u \in Threads : InTransfer(u) \/ Counting(u)
                 THEN LooseRange(n) ELSE NewRange(n, fp.pos + n)
  BY DEF SetRangeLen
<1>2. n \in Below /\ n \in Nat /\ fp.pos \in Nat
  BY BelowOK DEF IInv, Types, FileType
<1>3. fp' = fp /\ transfer' = transfer /\ counting' = counting
  BY DEF SetRangeLen
<1>4. range' \in RangeType
  BY <1>1, <1>2 DEF RangeType, LooseRange, NewRange
<1>5. ASSUME range'.exact
      PROVE  /\ NoTransfer /\ \A u \in Threads : ~Counting(u)
             /\ range'.left = n /\ range'.end = fp.pos + n /\ range'.owed = 0
  BY <1>1, <1>5 DEF NoTransfer, LooseRange, NewRange
<1>6. Types' /\ NothingTaken(counting')
  BY <1>3, <1>4 DEF IInv, Types
<1>7. \A u \in Threads : (InTransfer(u)' <=> InTransfer(u)) /\ (Alone(u)' <=> Alone(u))
  BY <1>3 DEF InTransfer, Alone
<1>8. range'.exact => \A u \in Threads : ~Alone(u)'
  BY <1>5, <1>7 DEF NoTransfer, Alone
<1>9. ASSUME range'.exact
      PROVE  InStep(fp'.pos, range', counting') /\ OneStore(range', counting')
  <2>1. Cardinality(Untaken(counting')) = 0 /\ \A u \in Threads : counting'[u].pc = "no"
    BY <1>3, <1>5, <1>9, NoneUntaken
  <2>2. Due(range', counting') = fp.pos + n
    BY <1>2, <1>5, <1>9, <2>1 DEF Due
  <2> QED BY <1>2, <1>3, <1>5, <1>9, <2>1, <2>2 DEF InStep, OneStore
<1>10. \A u \in Threads : Alone(u)' => \A v \in Threads \ {u} : ~InTransfer(v)'
  BY <1>7 DEF IInv
<1> QED BY <1>6, <1>8, <1>9, <1>10 DEF IInv

OthersIdle(t) == \A u \in Threads \ {t} : ~InTransfer(u)

\* A step of the pread or pwrite of a thread leaves that thread alone at most.
LEMMA TransferIInv ==
  ASSUME IInv, NEW t \in Threads, NEW y \in TransferType \cup {Idle},
         transfer' = [Overlapped(t) EXCEPT ![t] = y],
         fp' \in FileType, range' \in RangeType,
         counting' = counting, range'.exact => range' = range,
         y.op # "none" /\ y.alone => OthersIdle(t),
         range'.exact /\ y.op # "none" /\ y.alone => InStep(y.old, range, counting),
         range'.exact /\ y.op = "none" /\ OthersIdle(t) => InStep(fp'.pos, range, counting)
  PROVE  IInv'
<1>1. Overlapped(t) \in [Threads -> TransferType \cup {Idle}]
  BY OverlappedOK DEF IInv
<1>2. transfer' \in [Threads -> TransferType \cup {Idle}]
  BY <1>1
<1>3. transfer'[t] = y /\ \A u \in Threads \ {t} : transfer'[u] = Overlapped(t)[u]
  BY <1>1
<1>4. \A u \in Threads \ {t} : (InTransfer(u)' <=> InTransfer(u)) /\ ~Alone(u)'
  BY <1>3, OverlappedOK DEF IInv, InTransfer, Alone
<1>5. InTransfer(t)' <=> y.op # "none"
  BY <1>3 DEF InTransfer
<1>6. Alone(t)' <=> y.op # "none" /\ y.alone
  BY <1>3, <1>5 DEF Alone
<1>7. Types'
  BY <1>2 DEF IInv, Types
<1>8. ASSUME NEW u \in Threads, Alone(u)'
      PROVE  u = t /\ \A v \in Threads \ {u} : ~InTransfer(v)'
  BY <1>4, <1>6, <1>8 DEF OthersIdle
<1>9. NoTransfer' => y.op = "none" /\ OthersIdle(t)
  BY <1>4, <1>5 DEF NoTransfer, OthersIdle
<1>10. ASSUME range'.exact, NEW u \in Threads, Alone(u)'
       PROVE  InStep(transfer'[u].old, range', counting')
  BY <1>3, <1>6, <1>8, <1>10
<1>11. range'.exact /\ NoTransfer' => InStep(fp'.pos, range', counting')
  BY <1>9
<1>12. /\ NothingTaken(counting')
       /\ range'.exact /\ ~range'.raced => OneStore(range', counting')
  BY DEF IInv
<1> QED BY <1>7, <1>8, <1>10, <1>11, <1>12 DEF IInv

\* The first step of a pread or pwrite notes the position.
LEMMA TellOldIInv ==
  ASSUME IInv, NEW t \in Threads, TellOld(t)
  PROVE  IInv'
<1>1. fp \in FileType /\ fp.pos \in Nat /\ range \in RangeType /\ ~InTransfer(t)
  BY DEF TellOld, Sharing, IInv, Types, FileType
<1>2. PICK op \in {"pread", "pwrite"}, at \in Positions, n \in Lengths : Begin(t, op, at, n)
  BY DEF TellOld
<1>3. fp' = fp /\ range' = range /\ counting' = counting /\ at \in Nat /\ n \in Nat
  BY ArgumentsAssumption, BelowOK DEF TellOld
<1> DEFINE x == [op |-> op, pc |-> "seek", at |-> at, n |-> n, old |-> fp.pos,
                 alone |-> TRUE, got |-> <<>>, text |-> Text(fp)]
           y == IF \E u \in Threads : InTransfer(u) THEN Spoiled(x) ELSE x
<1>4. x \in TransferType /\ x.old = fp.pos
  <2>1. Text(fp) \in Seq(Int)
    BY <1>1, FlushedOK
  <2> QED BY <1>1, <1>3, <2>1, NoBytes DEF TransferType
<1>5. transfer' = [Overlapped(t) EXCEPT ![t] = y]
  BY <1>2 DEF Begin
<1> HIDE DEF x
<1>6. Spoiled(x) \in TransferType /\ ~Spoiled(x).alone
  BY <1>4, NoBytes DEF Spoiled, TransferType
<1>7. y \in TransferType /\ (y.alone => NoTransfer /\ y.old = fp.pos)
  BY <1>4, <1>6 DEF NoTransfer
<1> HIDE DEF y
<1>8. y.op # "none"
  BY <1>7 DEF TransferType
<1>9. y.alone => OthersIdle(t)
  BY <1>7 DEF NoTransfer, OthersIdle
<1>10. range'.exact /\ y.alone => InStep(y.old, range, counting)
  BY <1>3, <1>7 DEF IInv
<1>11. fp' \in FileType /\ range' \in RangeType
  BY <1>1, <1>3
<1> QED BY <1>3, <1>5, <1>7, <1>8, <1>9, <1>10, <1>11, TransferIInv

\* What a step within a pread or pwrite keeps of its record.
LEMMA GoesOK ==
  ASSUME Types, NEW t \in Threads, InTransfer(t), NEW pc \in {"transfer", "back"},
         NEW got \in Seq(Int), Goes(t, pc, got)
  PROVE  \E y \in TransferType :
           /\ transfer' = [Overlapped(t) EXCEPT ![t] = y]
           /\ y.old = transfer[t].old /\ y.alone = transfer[t].alone
           /\ y.op = transfer[t].op /\ y.at = transfer[t].at /\ y.n = transfer[t].n
           /\ y.text = transfer[t].text /\ y.pc = pc /\ (y.alone => y.got = got)
<1> DEFINE g == IF transfer[t].alone THEN got ELSE <<>>
           x == transfer[t]
           y == [x EXCEPT !.pc = pc, !.got = g]
<1>1. x \in TransferType
  BY DEF Types, InTransfer, Idle
<1>2. g \in Seq(Int)
  BY NoBytes
<1>3. Overlapped(t) \in [Threads -> TransferType \cup {Idle}] /\ Overlapped(t)[t] = x
  BY OverlappedOK
<1>4. transfer' = [Overlapped(t) EXCEPT ![t].pc = pc, ![t].got = g]
  BY DEF Goes
<1> HIDE DEF g, x
<1>5. transfer' = [Overlapped(t) EXCEPT ![t] = y]
  BY <1>3, <1>4
<1>6. /\ y \in TransferType /\ y.old = x.old /\ y.alone = x.alone /\ y.op = x.op
      /\ y.at = x.at /\ y.n = x.n /\ y.text = x.text /\ y.pc = pc /\ y.got = g
  BY <1>1, <1>2 DEF TransferType
<1>7. y.alone => y.got = got
  BY <1>6 DEF g, x
<1> HIDE DEF y
<1> QED BY <1>5, <1>6, <1>7 DEF x

\* The steps in between keep what was noted.
LEMMA StepIInv ==
  ASSUME IInv, NEW t \in Threads, SeekAt(t) \/ PreadRead(t) \/ PwriteWrite(t)
  PROVE  IInv'
<1>1. /\ InTransfer(t) /\ Types /\ fp \in FileType /\ range' = range /\ range \in RangeType
      /\ counting' = counting
  BY DEF SeekAt, PreadRead, PwriteWrite, At, IInv, Types
<1>2. transfer[t] \in TransferType /\ transfer[t].at \in Nat /\ transfer[t].n \in Nat
  BY <1>1 DEF Types, InTransfer, Idle, TransferType
<1>3. fp' \in FileType /\ \E pc \in {"transfer", "back"}, got \in Seq(Int) : Goes(t, pc, got)
  <2>1. CASE SeekAt(t)
    BY <1>1, <1>2, <2>1, SoughtOK, NoBytes DEF SeekAt
  <2>2. CASE PreadRead(t)
    BY <1>1, <1>2, <2>2, FreadOK DEF PreadRead, Read
  <2>3. CASE PwriteWrite(t)
    BY <1>1, <1>2, <2>3, WriteOK, BytesOK, NoBytes DEF PwriteWrite, Write
  <2> QED BY <2>1, <2>2, <2>3
<1>4. PICK y \in TransferType :
        /\ transfer' = [Overlapped(t) EXCEPT ![t] = y]
        /\ y.old = transfer[t].old /\ y.alone = transfer[t].alone
  BY <1>1, <1>3, GoesOK
<1>5. y.op # "none"
  BY DEF TransferType
<1>6. y.alone => Alone(t)
  BY <1>1, <1>4 DEF Alone
<1>7. y.alone => OthersIdle(t)
  BY <1>6 DEF IInv, OthersIdle
<1>8. range'.exact /\ y.alone => InStep(y.old, range, counting)
  BY <1>1, <1>4, <1>6 DEF IInv
<1> QED BY <1>1, <1>3, <1>4, <1>5, <1>7, <1>8, TransferIInv

\* The last step goes back to it.
LEMMA SeekBackIInv ==
  ASSUME IInv, NEW t \in Threads, SeekBack(t)
  PROVE  IInv'
<1>1. InTransfer(t) /\ Types /\ fp \in FileType /\ range \in RangeType
  BY DEF SeekBack, At, IInv, Types
<1>2. transfer[t].old \in Nat
  BY <1>1 DEF Types, InTransfer, Idle, TransferType
<1>3. fp' \in FileType /\ fp'.pos = transfer[t].old
  BY <1>1, <1>2, SoughtOK DEF SeekBack, Back
<1>4. transfer' = [Overlapped(t) EXCEPT ![t] = Idle] /\ Idle.op = "none"
  BY DEF SeekBack, Idle
<1>5. range' = (IF transfer[t].alone THEN range ELSE Moved) /\ counting' = counting
  BY DEF SeekBack
<1>6. range' \in RangeType /\ (range'.exact => transfer[t].alone /\ range' = range)
  BY <1>1, <1>5, MovedOK
<1>7. range'.exact => InStep(fp'.pos, range, counting)
  BY <1>1, <1>3, <1>6 DEF IInv, Alone
<1> QED BY <1>3, <1>4, <1>5, <1>6, <1>7, TransferIInv

\* Nothing that the invariant is about has changed.
LEMMA StutterIInv ==
  ASSUME IInv, UNCHANGED <<fp, transfer, range, counting>>
  PROVE  IInv'
BY DEF IInv, Types, Alone, NoTransfer, InTransfer, NothingTaken, InStep, Due, Untaken, OneStore

\* The invariant holds at first.
LEMMA InitIInv == Init => IInv
<1> SUFFICES ASSUME Init PROVE IInv
  OBVIOUS
<1>1. PICK text \in Texts :
        fp = [disk |-> text, pos |-> 0, ahead |-> <<>>, dirty |-> <<>>, eof |-> FALSE]
  BY DEF Init
<1>2. fp \in FileType /\ fp.pos = 0
  BY <1>1, NoBytes, FileAssumption DEF FileType
<1>3. /\ transfer = [t \in Threads |-> Idle]
      /\ range = NewRange(0, 0) /\ counting = [t \in Threads |-> NotCounting]
  BY DEF Init
<1>4. /\ range \in RangeType /\ transfer \in [Threads -> TransferType \cup {Idle}]
      /\ range.left = 0 /\ range.end = 0 /\ range.owed = 0
  BY <1>3, BelowOK DEF NewRange, RangeType
<1>5. \A t \in Threads : ~InTransfer(t)
  BY <1>3 DEF InTransfer, Idle
<1>6. \A t \in Threads : counting[t] = NotCounting
  BY <1>3
<1>7. NotCounting \in CountType /\ NotCounting.pc = "no" /\ NotCounting.n = 0
  BY BelowOK DEF NotCounting, CountType
<1>8. counting \in [Threads -> CountType] /\ NothingTaken(counting)
  BY <1>3, <1>7 DEF NothingTaken
<1>9. Untaken(counting) = {}
  BY <1>6, <1>7 DEF Untaken
<1>10. Due(range, counting) = 0
  BY <1>4, <1>9, FS_EmptySet DEF Due
<1>11. InStep(fp.pos, range, counting) /\ OneStore(range, counting)
  BY <1>2, <1>4, <1>6, <1>7, <1>10 DEF InStep, OneStore
<1> QED BY <1>2, <1>4, <1>5, <1>8, <1>11 DEF IInv, Types, Alone

\* Each step keeps the invariant.
LEMMA NextIInv == IInv /\ [Next]_vars => IInv'
<1> SUFFICES ASSUME IInv, [Next]_vars PROVE IInv'
  OBVIOUS
<1>1. ASSUME NEW t \in Threads, ReadCall(t) \/ WriteCall(t) \/ SeekCall(t) PROVE IInv'
  <2>1. Sharing(t)
    BY <1>1 DEF ReadCall, WriteCall, SeekCall
  <2> QED BY <1>1, <2>1, MovingCallIInv
<1>2. ASSUME NEW t \in Threads, FlushCall(t) PROVE IInv'
  BY <1>2, FlushCallIInv
<1>3. ASSUME NEW t \in Threads, TellOld(t) PROVE IInv'
  BY <1>3, TellOldIInv
<1>4. ASSUME NEW t \in Threads, SeekAt(t) \/ PreadRead(t) \/ PwriteWrite(t) PROVE IInv'
  BY <1>4, StepIInv
<1>5. ASSUME NEW t \in Threads, SeekBack(t) PROVE IInv'
  BY <1>5, SeekBackIInv
<1>6. ASSUME NEW t \in Threads, SetRangeLen(t) PROVE IInv'
  BY <1>6, SetRangeLenIInv
<1>7. ASSUME NEW t \in Threads,
             RangeRead(t) \/ CountLoad(t) \/ CountStore(t) \/ RangeEnsureRead(t) \/ RangeByte(t)
      PROVE  IInv'
  BY <1>7, RangeReadIInv, CountLoadIInv, CountStoreIInv, RangedIInv
<1>8. CASE CopyOpen \/ CopyTurn
  BY <1>8, StutterIInv DEF CopyOpen, CopyTurn
<1>9. CASE UNCHANGED vars
  BY <1>9, StutterIInv DEF vars
<1> QED BY <1>1, <1>2, <1>3, <1>4, <1>5, <1>6, <1>7, <1>8, <1>9 DEF Next

\* The object, the transfers under way and the range have their types, and no
\* two transfers are both counted as undisturbed.
THEOREM Invariance == Spec => []IInv
<1>1. IInv /\ [Next]_vars => IInv'
  BY NextIInv
<1> QED BY InitIInv, <1>1, PTL DEF Spec

\* However the unlocked subtractions of threads that read at once come between each
\* other, the length a RangeStream keeps never says its range is at the end too
\* early, and while no two of them raced it is the distance from the position of the
\* file to the end of the range, what failed calls counted and did not get, or took
\* and did not count, put right (RangeStream.hpp:23-55 over FileStream.cpp:470-492).
THEOREM RangeInStepAlways == Spec => []RangeInStep
<1>1. IInv => RangeInStep
  BY DEF IInv, RangeInStep, NoTransfer, InStep, Due, Untaken, Uncounted
<1> QED BY Invariance, <1>1, PTL

(***************************************************************************)
(* A pread or pwrite that nothing comes between.                           *)
(***************************************************************************)

\* How far the transfer x of thread t is, if the FILE is f: at its start the file is
\* what it was found to be; after the seek nothing is in the buffer; and then the
\* bytes have been transferred.
Progress(f, t, x) ==
  /\ x.pc = "seek" => Text(f) = x.text
  /\ x.pc = "transfer" => f = [disk |-> x.text, pos |-> x.at, ahead |-> <<>>, dirty |-> <<>>,
                               eof |-> FALSE]
  /\ x.pc = "back" => IF x.op = "pread" THEN Text(f) = x.text /\ x.got = Piece(x.text, x.at, x.n)
                      ELSE Text(f) = Overlay(x.text, x.at, Bytes(t, x.n))

Undisturbed == \A t \in Threads : Alone(t) => Progress(fp, t, transfer[t])

\* What TransferAlone says of a step and a thread.
Exact(t) ==
  At(t, "back") /\ transfer'[t] = Idle /\ transfer[t].alone =>
    LET x == transfer[t] IN
    /\ fp'.pos = x.old
    /\ x.op = "pread" => /\ Text(fp') = x.text
                         /\ x.got = Piece(x.text, x.at, x.n)
    /\ x.op = "pwrite" => Text(fp') = Overlay(x.text, x.at, Bytes(t, x.n))

\* A seek writes what was not yet written and forgets what was prefetched.
LEMMA SoughtIs ==
  ASSUME NEW f \in FileType, NEW p \in Nat
  PROVE  /\ SeekTo(f, p) = [disk |-> Text(f), pos |-> p, ahead |-> <<>>, dirty |-> <<>>, eof |-> FALSE]
         /\ Text(SeekTo(f, p)) = Text(f)
<1> DEFINE d == Text(f)
           z == <<>>
<1>1. SeekTo(f, p) = [[f EXCEPT !.disk = d, !.dirty = z] EXCEPT !.pos = p, !.ahead = z, !.eof = FALSE]
  BY DEF SeekTo, Sought, Flushed
<1> HIDE DEF d, z
<1>2. SeekTo(f, p) = [disk |-> d, pos |-> p, ahead |-> z, dirty |-> z, eof |-> FALSE]
  BY <1>1 DEF FileType
<1>3. Text(SeekTo(f, p)) = Overlay(d, p - Len(z), z)
  BY <1>2 DEF Text
<1>4. Overlay(d, p - Len(z), z) = d
  BY DEF Overlay, Put, z
<1> QED BY <1>2, <1>3, <1>4 DEF d, z

\* The bytes of a piece.
LEMMA PieceIs ==
  ASSUME NEW s \in Seq(Int), NEW p \in Nat, NEW n \in Nat
  PROVE  /\ Piece(s, p, n) \in Seq(Int)
         /\ Len(Piece(s, p, n)) = IF p < Len(s) THEN Least(n, Len(s) - p) ELSE 0
         /\ \A i \in 1..Len(Piece(s, p, n)) : Piece(s, p, n)[i] = s[p + i]
<1> DEFINE e == Least(p + n, Len(s))
           q == SubSeq(s, p + 1, e)
<1>1. /\ e \in Int /\ Len(s) \in Nat /\ e <= Len(s)
      /\ e = p + n \/ e = Len(s)
      /\ e = IF p + n <= Len(s) THEN p + n ELSE Len(s)
  BY DEF Least
<1> HIDE DEF e
<1>2. /\ Len(q) = IF p + 1 <= e THEN e - (p + 1) + 1 ELSE 0
      /\ \A i \in 1..(e - (p + 1) + 1) : q[i] = s[(p + 1) + i - 1]
  <2>1. \A i \in (p + 1)..e : s[i] \in Int
    <3>1. \A i \in (p + 1)..e : i \in 1..Len(s)
      BY <1>1
    <3> QED BY <3>1
  <2> QED BY <1>1, <2>1, SubSeqProperties
<1>3. Piece(s, p, n) = q
  BY DEF Piece, e
<1> HIDE DEF q
<1>4. Len(q) = IF p < Len(s) THEN Least(n, Len(s) - p) ELSE 0
  BY <1>1, <1>2 DEF Least
<1>5. ASSUME NEW i \in 1..Len(q) PROVE q[i] = s[p + i]
  <2>1. p + 1 <= e /\ Len(q) = e - (p + 1) + 1
    BY <1>1, <1>2
  <2>2. i \in 1..(e - (p + 1) + 1) /\ (p + 1) + i - 1 = p + i
    BY <2>1
  <2> QED BY <1>2, <2>2
<1> QED BY <1>3, <1>4, <1>5, PieceOK

\* A piece of what follows a position.
LEMMA PieceOfRest ==
  ASSUME NEW d \in Seq(Int), NEW p \in Nat, NEW n \in Nat,
         NEW rest, rest = SubSeq(d, p + 1, Len(d))
  PROVE  Piece(rest, 0, n) = Piece(d, p, n)
<1>1. Len(d) \in Nat
  OBVIOUS
<1>2. rest = Piece(d, p, Len(d))
  BY <1>1 DEF Piece, Least
<1>3. /\ rest \in Seq(Int)
      /\ Len(rest) = IF p < Len(d) THEN Least(Len(d), Len(d) - p) ELSE 0
      /\ \A i \in 1..Len(rest) : rest[i] = d[p + i]
  <2> DEFINE l == Len(d)
             q == Piece(d, p, l)
  <2>1. l \in Nat
    BY <1>1
  <2> HIDE DEF l
  <2>2. /\ q \in Seq(Int)
        /\ Len(q) = IF p < Len(d) THEN Least(l, Len(d) - p) ELSE 0
        /\ \A i \in 1..Len(q) : q[i] = d[p + i]
    BY <2>1, PieceIs
  <2>3. rest = q /\ l = Len(d)
    BY <1>2 DEF l
  <2> HIDE DEF q
  <2> QED BY <2>2, <2>3
<1>4. Len(rest) = IF p < Len(d) THEN Len(d) - p ELSE 0
  BY <1>1, <1>3 DEF Least
<1> DEFINE x == Piece(rest, 0, n)
           y == Piece(d, p, n)
<1>5. /\ x \in Seq(Int) /\ Len(x) = IF 0 < Len(rest) THEN Least(n, Len(rest) - 0) ELSE 0
      /\ \A i \in 1..Len(x) : x[i] = rest[0 + i]
  BY <1>3, 0 \in Nat, PieceIs
<1>6. /\ y \in Seq(Int) /\ Len(y) = IF p < Len(d) THEN Least(n, Len(d) - p) ELSE 0
      /\ \A i \in 1..Len(y) : y[i] = d[p + i]
  BY PieceIs
<1> HIDE DEF x, y
<1>7. Len(x) = Len(y) /\ Len(x) <= Len(rest) /\ Len(x) \in Nat /\ Len(rest) \in Nat
  <2>1. Len(x) \in Nat /\ Len(rest) \in Nat
    BY <1>3, <1>5
  <2>2. CASE p < Len(d)
    <3>1. /\ 0 < Len(rest) /\ Len(rest) = Len(d) - p /\ Len(rest) - 0 = Len(rest)
          /\ Len(rest) \in Nat
      BY <1>1, <1>4, <2>2
    <3>2. Len(x) = Least(n, Len(rest)) /\ Len(y) = Least(n, Len(rest))
      BY <1>5, <1>6, <2>2, <3>1
    <3>3. Least(n, Len(rest)) <= Len(rest)
      BY <3>1 DEF Least
    <3> QED BY <2>1, <3>2, <3>3
  <2>3. CASE ~(p < Len(d))
    <3>1. Len(rest) = 0
      BY <1>4, <2>3
    <3>2. Len(x) = 0 /\ Len(y) = 0
      BY <1>5, <1>6, <2>3, <3>1
    <3> QED BY <2>1, <3>1, <3>2
  <2> QED BY <2>1, <2>2, <2>3
<1>8. ASSUME NEW i \in 1..Len(x) PROVE x[i] = y[i]
  <2>1. i \in 1..Len(rest) /\ i \in 1..Len(y) /\ 0 + i = i
    BY <1>7
  <2>2. x[i] = rest[i]
    BY <1>5, <2>1
  <2> QED BY <1>3, <1>6, <2>1, <2>2
<1>9. x = y
  BY <1>5, <1>6, <1>7, <1>8, SeqEqual
<1> QED BY <1>9 DEF x, y

\* With nothing in the buffer fread takes the bytes of the file.
LEMMA FreadAlone ==
  ASSUME NEW d \in Seq(Int), NEW p \in Nat, NEW n \in Nat,
         NEW f, f = [disk |-> d, pos |-> p, ahead |-> <<>>, dirty |-> <<>>, eof |-> FALSE]
  PROVE  Fread(f, n).got = Piece(d, p, n) /\ Text(Fread(f, n).f) = d
<1> DEFINE z == <<>>
           rest == SubSeq(d, p + 1, Len(d))
           from == IF n <= Len(z) THEN z ELSE rest
           got == Piece(from, 0, n)
<1>1. Text(f) = d
  BY DEF Text, Overlay, Put
<1>2. Flushed(f) = f
  <2>1. Flushed(f) = [f EXCEPT !.disk = d, !.dirty = z]
    BY <1>1 DEF Flushed
  <2>2. f \in FileType /\ f.disk = d /\ f.dirty = z
    BY NoBytes DEF FileType
  <2> HIDE DEF z
  <2>3. [f EXCEPT !.disk = d, !.dirty = z] = f
    BY <2>2 DEF FileType
  <2> QED BY <2>1, <2>3
<1>3. Fread(f, n).got = got /\ Fread(f, n).f.disk = d /\ Fread(f, n).f.dirty = z
  <2>1. /\ f.disk = d /\ f.pos = p /\ f.ahead = z /\ f.dirty = z /\ f.eof = FALSE
        /\ DOMAIN f = {"disk", "pos", "ahead", "dirty", "eof"}
    OBVIOUS
  <2>2. (IF n <= Len(f.ahead) \/ f.eof THEN f.ahead
         ELSE SubSeq(f.disk, f.pos + 1, Len(f.disk))) = from
    BY <2>1
  <2> HIDE DEF from, rest, z
  <2> DEFINE q == f.pos + Len(got)
             left == Piece(from, Len(got), Buf)
             e == f.eof \/ Len(got) < n
             h == [f EXCEPT !.pos = q, !.ahead = left, !.eof = e]
  <2>3. Fread(f, n) = [f |-> h, got |-> got]
    <3> DEFINE g == Flushed(f)
               found == IF n <= Len(g.ahead) \/ g.eof THEN g.ahead
                        ELSE SubSeq(g.disk, g.pos + 1, Len(g.disk))
    <3>1. Fread(f, n) =
            [f |-> [g EXCEPT !.pos = @ + Len(Piece(found, 0, n)),
                             !.ahead = Piece(found, Len(Piece(found, 0, n)), Buf),
                             !.eof = @ \/ Len(Piece(found, 0, n)) < n],
             got |-> Piece(found, 0, n)]
      BY DEF Fread
    <3>2. g = f
      BY <1>2
    <3> HIDE DEF g
    <3>3. found = from
      BY <2>2, <3>2
    <3> HIDE DEF found
    <3> QED BY <3>1, <3>2, <3>3
  <2>4. f \in FileType
    BY NoBytes DEF FileType
  <2> HIDE DEF got, q, left, e
  <2>5. h.disk = d /\ h.dirty = z
    BY <2>1, <2>4 DEF FileType
  <2> HIDE DEF h
  <2> QED BY <2>3, <2>5
<1>4. Text(Fread(f, n).f) = d
  BY <1>3 DEF Text, Overlay, Put
<1>5. Len(z) = 0 /\ z \in Seq(Int)
  BY EmptySeq
<1>6. Piece(rest, 0, n) = Piece(d, p, n)
  BY PieceOfRest
<1> HIDE DEF z, rest
<1>7. CASE n = 0
  <2>1. from = z
    BY <1>5, <1>7
  <2>2. got \in Seq(Int) /\ Len(got) = 0
    <3>1. got = Piece(z, 0, 0) /\ z \in Seq(Int) /\ 0 \in Nat
      BY <1>5, <1>7, <2>1
    <3>2. Piece(z, 0, 0) \in Seq(Int) /\ Len(Piece(z, 0, 0)) \in 0..0
      BY <3>1, PieceOK
    <3> QED BY <3>1, <3>2
  <2>3. Piece(d, p, n) \in Seq(Int) /\ Len(Piece(d, p, n)) = 0
    BY <1>7, PieceOK
  <2> HIDE DEF got
  <2>4. got = Piece(d, p, n)
    BY <2>2, <2>3, SeqEqual
  <2> QED BY <1>3, <1>4, <2>4
<1>8. CASE n # 0
  <2>1. from = rest
    BY <1>5, <1>8
  <2> QED BY <1>3, <1>4, <1>6, <2>1
<1> QED BY <1>7, <1>8

\* With nothing in the buffer fwrite puts the bytes at the position.
LEMMA FwriteAlone ==
  ASSUME NEW d \in Seq(Int), NEW p \in Nat, NEW b \in Seq(Int),
         NEW f, f = [disk |-> d, pos |-> p, ahead |-> <<>>, dirty |-> <<>>, eof |-> FALSE]
  PROVE  Text(Fwrite(f, b)) = Overlay(d, p, b)
<1> DEFINE q == p + Len(b)
           z == <<>>
           g == [f EXCEPT !.pos = q, !.dirty = b, !.ahead = z]
<1>1. z \o b = b
  BY ConcatEmptySeq
<1>2. f \in FileType /\ f.disk = d /\ f.pos = p /\ f.dirty = z /\ z \in Seq(Int)
  BY NoBytes DEF FileType
<1>3. [f EXCEPT !.pos = @ + Len(b), !.dirty = @ \o b, !.ahead = <<>>] = g
  BY <1>1, <1>2
<1>4. Len(b) \in Nat /\ q - Len(b) = p /\ q \in Nat
  OBVIOUS
<1> HIDE DEF q, z
<1>5. g \in FileType
  BY <1>2, <1>4, ExceptDirty
<1>6. g.disk = d /\ g.pos = q /\ g.dirty = b
  BY <1>2 DEF FileType
<1> HIDE DEF g
<1>7. Text(g) = Overlay(d, p, b)
  BY <1>4, <1>6 DEF Text
<1>8. Text(Flushed(g)) = Text(g)
  <2>1. Flushed(g).disk = Text(g) /\ Flushed(g).dirty = <<>>
    BY <1>5 DEF Flushed, FileType
  <2> QED BY <2>1 DEF Text, Overlay, Put
<1> QED BY <1>3, <1>7, <1>8 DEF Fwrite

\* A call of another thread leaves no transfer undisturbed and ends none.
LEMMA CallDisturbs ==
  ASSUME Types, NEW t \in Threads, ~InTransfer(t), transfer' = Overlapped(t)
  PROVE  Undisturbed' /\ \A u \in Threads : Exact(u)
<1>1. \A u \in Threads : ~Alone(u)'
  BY OverlappedOK DEF InTransfer, Alone
<1>2. ASSUME NEW u \in Threads, InTransfer(u) PROVE transfer'[u] # Idle
  BY <1>2, OverlappedOK DEF Idle, InTransfer
<1> QED BY <1>1, <1>2 DEF Undisturbed, Exact, At

\* A step of the transfer of thread t disturbs those of the others.
LEMMA TransferGoes ==
  ASSUME Types, NEW t \in Threads, NEW y \in TransferType,
         transfer' = [Overlapped(t) EXCEPT ![t] = y], y.alone => Progress(fp', t, y)
  PROVE  Undisturbed' /\ \A u \in Threads : Exact(u)
<1>1. Overlapped(t) \in [Threads -> TransferType \cup {Idle}]
  BY OverlappedOK
<1>2. transfer'[t] = y /\ \A u \in Threads \ {t} : transfer'[u] = Overlapped(t)[u]
  BY <1>1
<1>3. \A u \in Threads \ {t} : ~Alone(u)'
  BY <1>2, OverlappedOK DEF InTransfer, Alone
<1>4. Alone(t)' => y.alone
  BY <1>2 DEF Alone
<1>5. Undisturbed'
  <2>1. ASSUME NEW u \in Threads, Alone(u)' PROVE Progress(fp', u, transfer'[u])
    BY <1>2, <1>3, <1>4, <2>1
  <2>2. \A u \in Threads : Progress(fp, u, transfer[u])' <=> Progress(fp', u, transfer'[u])
    BY DEF Progress
  <2> QED BY <2>1, <2>2 DEF Undisturbed
<1>6. ASSUME NEW u \in Threads, InTransfer(u) PROVE transfer'[u] # Idle
  <2>1. y.op # "none"
    BY DEF TransferType
  <2>2. CASE u = t
    BY <1>2, <2>1, <2>2 DEF Idle
  <2>3. CASE u # t
    BY <1>2, <1>6, <2>3, OverlappedOK DEF Idle, InTransfer
  <2> QED BY <2>2, <2>3
<1> QED BY <1>5, <1>6 DEF Exact, At

\* A step that leaves the FILE and the transfers alone.
LEMMA NothingMoves ==
  ASSUME Types, Undisturbed, UNCHANGED <<fp, transfer>>
  PROVE  Undisturbed' /\ \A u \in Threads : Exact(u)
<1>1. fp' = fp /\ transfer' = transfer
  OBVIOUS
<1>2. Undisturbed'
  BY <1>1 DEF Undisturbed, Progress, Alone, InTransfer
<1>3. \A u \in Threads : Exact(u)
  BY <1>1 DEF Exact, At, InTransfer, Idle
<1> QED BY <1>2, <1>3

\* tell: the file is what it is found to be.
LEMMA TellOldExact ==
  ASSUME IInv, NEW t \in Threads, TellOld(t)
  PROVE  Undisturbed' /\ \A u \in Threads : Exact(u)
<1>1. fp \in FileType /\ fp.pos \in Nat /\ Types /\ fp' = fp
  BY DEF TellOld, IInv, Types, FileType
<1>2. PICK op \in {"pread", "pwrite"}, at \in Positions, n \in Lengths : Begin(t, op, at, n)
  BY DEF TellOld
<1>3. at \in Nat /\ n \in Nat /\ Text(fp) \in Seq(Int)
  BY <1>1, ArgumentsAssumption, FlushedOK
<1> DEFINE x == [op |-> op, pc |-> "seek", at |-> at, n |-> n, old |-> fp.pos,
                 alone |-> TRUE, got |-> <<>>, text |-> Text(fp)]
           y == IF \E u \in Threads : InTransfer(u) THEN Spoiled(x) ELSE x
<1>4. transfer' = [Overlapped(t) EXCEPT ![t] = y]
  BY <1>2 DEF Begin
<1>5. x \in TransferType /\ x.pc = "seek" /\ x.text = Text(fp)
  BY <1>1, <1>3, NoBytes DEF TransferType
<1> HIDE DEF x
<1>6. Spoiled(x) \in TransferType /\ ~Spoiled(x).alone
  BY <1>5, NoBytes DEF Spoiled, TransferType
<1>7. y \in TransferType /\ (y.alone => y.pc = "seek" /\ y.text = Text(fp))
  BY <1>5, <1>6
<1> HIDE DEF y
<1>8. y.alone => Progress(fp', t, y)
  BY <1>1, <1>7 DEF Progress
<1> QED BY <1>1, <1>4, <1>7, <1>8, TransferGoes

\* seek, and then the transfer itself.
LEMMA StepExact ==
  ASSUME IInv, Undisturbed, NEW t \in Threads, SeekAt(t) \/ PreadRead(t) \/ PwriteWrite(t)
  PROVE  Undisturbed' /\ \A u \in Threads : Exact(u)
<1> DEFINE x == transfer[t]
<1>1. InTransfer(t) /\ Types /\ fp \in FileType
  BY DEF SeekAt, PreadRead, PwriteWrite, At, IInv, Types
<1>2. /\ x \in TransferType /\ x.at \in Nat /\ x.n \in Nat /\ x.text \in Seq(Int)
      /\ x.op \in {"pread", "pwrite"}
  BY <1>1 DEF Types, InTransfer, Idle, TransferType
<1>3. x.alone => Progress(fp, t, x)
  BY <1>1 DEF Undisturbed, Alone
<1>4. CASE SeekAt(t)
  <2>1. x.pc = "seek" /\ fp' = SeekTo(fp, x.at) /\ Goes(t, "transfer", <<>>)
    BY <1>4 DEF SeekAt, At
  <2>2. PICK y \in TransferType :
          /\ transfer' = [Overlapped(t) EXCEPT ![t] = y] /\ y.alone = x.alone
          /\ y.at = x.at /\ y.text = x.text /\ y.pc = "transfer"
    <3> DEFINE got == <<>>
               pc == "transfer"
    <3>1. got \in Seq(Int) /\ pc \in {"transfer", "back"} /\ Goes(t, pc, got)
      BY <2>1, NoBytes
    <3> HIDE DEF got, pc
    <3>2. \E y \in TransferType :
            /\ transfer' = [Overlapped(t) EXCEPT ![t] = y]
            /\ y.old = transfer[t].old /\ y.alone = transfer[t].alone
            /\ y.op = transfer[t].op /\ y.at = transfer[t].at /\ y.n = transfer[t].n
            /\ y.text = transfer[t].text /\ y.pc = pc /\ (y.alone => y.got = got)
      BY <1>1, <3>1, GoesOK
    <3> QED BY <3>2 DEF pc
  <2>3. fp' = [disk |-> Text(fp), pos |-> x.at, ahead |-> <<>>, dirty |-> <<>>, eof |-> FALSE]
    BY <1>1, <1>2, <2>1, SoughtIs
  <2>4. x.alone => Text(fp) = x.text
    BY <1>3, <2>1 DEF Progress
  <2> HIDE DEF x
  <2>5. y.alone => Progress(fp', t, y)
    BY <2>2, <2>3, <2>4 DEF Progress
  <2> QED BY <1>1, <2>2, <2>5, TransferGoes
<1>5. CASE PreadRead(t)
  <2>1. /\ x.pc = "transfer" /\ x.op = "pread" /\ fp' = Fread(fp, x.n).f
        /\ Goes(t, "back", Fread(fp, x.n).got)
    BY <1>5 DEF PreadRead, At, Read
  <2>2. Fread(fp, x.n).got \in Seq(Int)
    BY <1>1, <1>2, FreadOK
  <2>3. PICK y \in TransferType :
          /\ transfer' = [Overlapped(t) EXCEPT ![t] = y] /\ y.alone = x.alone
          /\ y.at = x.at /\ y.text = x.text /\ y.pc = "back" /\ y.op = x.op /\ y.n = x.n
          /\ y.alone => y.got = Fread(fp, x.n).got
    BY <1>1, <2>1, <2>2, GoesOK
  <2>4. x.alone => fp = [disk |-> x.text, pos |-> x.at, ahead |-> <<>>, dirty |-> <<>>,
                         eof |-> FALSE]
    BY <1>3, <2>1 DEF Progress
  <2> HIDE DEF x
  <2>5. x.alone => Fread(fp, x.n).got = Piece(x.text, x.at, x.n) /\ Text(fp') = x.text
    BY <1>2, <2>1, <2>4, FreadAlone
  <2>6. y.alone => Progress(fp', t, y)
    BY <2>1, <2>3, <2>5 DEF Progress
  <2> QED BY <1>1, <2>3, <2>6, TransferGoes
<1>6. CASE PwriteWrite(t)
  <2>1. /\ x.pc = "transfer" /\ x.op = "pwrite" /\ fp' = Fwrite(fp, Bytes(t, x.n))
        /\ Goes(t, "back", <<>>)
    BY <1>6 DEF PwriteWrite, At, Write
  <2>2. Bytes(t, x.n) \in Seq(Int)
    BY <1>2, BytesOK
  <2>3. PICK y \in TransferType :
          /\ transfer' = [Overlapped(t) EXCEPT ![t] = y] /\ y.alone = x.alone
          /\ y.at = x.at /\ y.text = x.text /\ y.pc = "back" /\ y.op = x.op /\ y.n = x.n
    <3> DEFINE got == <<>>
               pc == "back"
    <3>1. got \in Seq(Int) /\ pc \in {"transfer", "back"} /\ Goes(t, pc, got)
      BY <2>1, NoBytes
    <3> HIDE DEF got, pc
    <3>2. \E y \in TransferType :
            /\ transfer' = [Overlapped(t) EXCEPT ![t] = y]
            /\ y.old = transfer[t].old /\ y.alone = transfer[t].alone
            /\ y.op = transfer[t].op /\ y.at = transfer[t].at /\ y.n = transfer[t].n
            /\ y.text = transfer[t].text /\ y.pc = pc /\ (y.alone => y.got = got)
      BY <1>1, <3>1, GoesOK
    <3> QED BY <3>2 DEF pc
  <2>4. x.alone => fp = [disk |-> x.text, pos |-> x.at, ahead |-> <<>>, dirty |-> <<>>,
                         eof |-> FALSE]
    BY <1>3, <2>1 DEF Progress
  <2> HIDE DEF x
  <2>5. x.alone => Text(fp') = Overlay(x.text, x.at, Bytes(t, x.n))
    BY <1>2, <2>1, <2>2, <2>4, FwriteAlone
  <2>6. y.alone => Progress(fp', t, y)
    BY <2>1, <2>3, <2>5 DEF Progress
  <2> QED BY <1>1, <2>3, <2>6, TransferGoes
<1> QED BY <1>4, <1>5, <1>6

\* The seek back ends the transfer of its thread, where it began.
LEMMA SeekBackExact ==
  ASSUME IInv, Undisturbed, NEW t \in Threads, SeekBack(t)
  PROVE  Undisturbed' /\ \A u \in Threads : Exact(u)
<1> DEFINE x == transfer[t]
<1>1. InTransfer(t) /\ Types /\ fp \in FileType /\ x.pc = "back"
  BY DEF SeekBack, At, IInv, Types
<1>2. x.old \in Nat /\ x.op \in {"pread", "pwrite"}
  BY <1>1 DEF Types, InTransfer, Idle, TransferType
<1>3. fp'.pos = x.old /\ Text(fp') = Text(fp)
  BY <1>1, <1>2, SoughtOK, SoughtIs DEF SeekBack, Back
<1>4. x.alone => Progress(fp, t, x)
  BY <1>1 DEF Undisturbed, Alone
<1>5. Overlapped(t) \in [Threads -> TransferType \cup {Idle}]
  BY <1>1, OverlappedOK
<1>6. transfer' = [Overlapped(t) EXCEPT ![t] = Idle]
  BY DEF SeekBack
<1>7. transfer'[t] = Idle /\ \A u \in Threads \ {t} : transfer'[u] = Overlapped(t)[u]
  BY <1>5, <1>6
<1>8. \A u \in Threads : ~Alone(u)'
  <2>1. ~Alone(t)'
    BY <1>7 DEF Alone, InTransfer, Idle
  <2>2. \A u \in Threads \ {t} : ~Alone(u)'
    BY <1>1, <1>7, OverlappedOK DEF InTransfer, Alone
  <2> QED BY <2>1, <2>2
<1>9. ASSUME NEW u \in Threads \ {t}, InTransfer(u) PROVE transfer'[u] # Idle
  BY <1>1, <1>7, <1>9, OverlappedOK DEF Idle, InTransfer
<1>10. Exact(t)
  BY <1>1, <1>3, <1>4 DEF Exact, Progress
<1>11. \A u \in Threads \ {t} : Exact(u)
  BY <1>9 DEF Exact, At
<1> QED BY <1>8, <1>10, <1>11 DEF Undisturbed

\* Each step keeps what is known of the transfers, and ends them exactly.
LEMMA NextExact ==
  ASSUME IInv, Undisturbed, [Next]_vars
  PROVE  Undisturbed' /\ \A u \in Threads : Exact(u)
<1>0. Types
  BY DEF IInv
<1>1. ASSUME NEW t \in Threads,
             \/ ReadCall(t) \/ WriteCall(t) \/ SeekCall(t) \/ FlushCall(t)
             \/ RangeRead(t) \/ RangeEnsureRead(t) \/ RangeByte(t)
      PROVE  Undisturbed' /\ \A u \in Threads : Exact(u)
  <2>1. ~InTransfer(t)
    BY <1>1 DEF ReadCall, WriteCall, SeekCall, FlushCall, RangeRead, RangeEnsureRead,
                RangeByte, Ranged, Unshared, Sharing
  <2>2. transfer' = Overlapped(t)
    <3>1. CASE ReadCall(t) \/ WriteCall(t) \/ SeekCall(t) \/ FlushCall(t) \/ RangeRead(t)
      BY <3>1 DEF ReadCall, WriteCall, SeekCall, FlushCall, RangeRead
    <3>2. CASE RangeEnsureRead(t) \/ RangeByte(t)
      BY <1>0, <3>2, UnsharedOverlapped DEF RangeEnsureRead, RangeByte, Ranged
    <3> QED BY <1>1, <3>1, <3>2
  <2> QED BY <1>0, <2>1, <2>2, CallDisturbs
<1>2. ASSUME NEW t \in Threads, SetRangeLen(t) \/ CountLoad(t) \/ CountStore(t)
      PROVE  UNCHANGED <<fp, transfer>>
  BY <1>2 DEF SetRangeLen, CountLoad, CountStore
<1>3. ASSUME CopyOpen \/ CopyTurn \/ UNCHANGED vars PROVE UNCHANGED <<fp, transfer>>
  BY <1>3 DEF CopyOpen, CopyTurn, vars
<1>4. ASSUME UNCHANGED <<fp, transfer>> PROVE Undisturbed' /\ \A u \in Threads : Exact(u)
  BY <1>0, <1>4, NothingMoves
<1>5. ASSUME NEW t \in Threads, TellOld(t) PROVE Undisturbed' /\ \A u \in Threads : Exact(u)
  BY <1>5, TellOldExact
<1>6. ASSUME NEW t \in Threads, SeekAt(t) \/ PreadRead(t) \/ PwriteWrite(t)
      PROVE  Undisturbed' /\ \A u \in Threads : Exact(u)
  BY <1>6, StepExact
<1>7. ASSUME NEW t \in Threads, SeekBack(t) PROVE Undisturbed' /\ \A u \in Threads : Exact(u)
  BY <1>7, SeekBackExact
<1> QED BY <1>1, <1>2, <1>3, <1>4, <1>5, <1>6, <1>7 DEF Next

\* A pread or pwrite that no other call came between transfers the bytes at its offset,
\* whatever the FILE had prefetched or not yet written, and leaves the position where it
\* was (FileStream.cpp:470-492).
THEOREM TransferAloneAlways == Spec => TransferAlone
<1>1. Init => Undisturbed
  BY DEF Init, Undisturbed, Alone, InTransfer, Idle
<1>2. IInv /\ Undisturbed /\ [Next]_vars => Undisturbed'
  BY NextExact
<1>3. Spec => []Undisturbed
  BY <1>1, <1>2, Invariance, PTL DEF Spec
<1>4. IInv /\ Undisturbed /\ [Next]_vars => [\A t \in Threads : Exact(t)]_vars
  BY NextExact
<1>5. [][\A t \in Threads : Exact(t)]_vars => TransferAlone
  BY DEF TransferAlone, Exact
<1> QED BY <1>3, <1>4, <1>5, Invariance, PTL DEF Spec
===============================================================================
