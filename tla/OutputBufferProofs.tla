-------------------------- MODULE OutputBufferProofs --------------------------
(***************************************************************************)
(* Type correctness of OutputBuffer, and that what it reports as written   *)
(* is in the stream and the buffer, once and in order, as long as the      *)
(* stream does not fail; in order and with nothing left out when it does;  *)
(* for all capacities, lengths and clients.                                *)
(***************************************************************************)
EXTENDS OutputBuffer, SequenceTheorems, TLAPS

(***************************************************************************)
(* Facts about sequences.                                                  *)
(***************************************************************************)

\* A sequence is its first n elements and the ones after them.
LEMMA Split ==
  ASSUME NEW s \in Seq(Nat), NEW n \in 0..Len(s)
  PROVE  /\ First(s, n) \in Seq(Nat) /\ Len(First(s, n)) = n
         /\ After(s, n) \in Seq(Nat) /\ Len(After(s, n)) = Len(s) - n
         /\ First(s, n) \o After(s, n) = s
<1>0. 1 \in Int /\ n \in Int /\ n + 1 \in Int /\ Len(s) \in Nat /\ Len(s) \in Int
  OBVIOUS
<1>1. First(s, n) \in Seq(Nat) /\ Len(First(s, n)) = n
  <2>1. \A i \in 1..n : s[i] \in Nat
    OBVIOUS
  <2>2. /\ First(s, n) \in Seq(Nat)
        /\ Len(First(s, n)) = IF 1 <= n THEN n - 1 + 1 ELSE 0
    BY <1>0, <2>1, SubSeqProperties DEF First
  <2> QED BY <2>2
<1>2. After(s, n) \in Seq(Nat) /\ Len(After(s, n)) = Len(s) - n
  <2>1. \A i \in (n + 1)..Len(s) : s[i] \in Nat
    OBVIOUS
  <2>2. /\ After(s, n) \in Seq(Nat)
        /\ Len(After(s, n)) = IF n + 1 <= Len(s) THEN Len(s) - (n + 1) + 1 ELSE 0
    BY <1>0, <2>1, SubSeqProperties DEF After
  <2> QED BY <1>0, <2>2
<1>3. First(s, n) \o After(s, n) = s
  <2>1. 1 \in 1..(Len(s) + 1) /\ n \in (1 - 1)..Len(s) /\ Len(s) \in n..Len(s)
    BY <1>0
  <2>2. SubSeq(s, 1, n) \o SubSeq(s, n + 1, Len(s)) = SubSeq(s, 1, Len(s))
    BY <2>1, ConcatAdjacentSubSeq
  <2>3. SubSeq(s, 1, Len(s)) = s
    BY SubSeqFull
  <2> QED BY <2>2, <2>3 DEF First, After
<1> QED BY <1>1, <1>2, <1>3

\* All of a sequence, and nothing of it.
LEMMA FirstAll == ASSUME NEW s \in Seq(Nat) PROVE First(s, Len(s)) = s
  BY DEF First

\* The first zero elements of a sequence are none.
LEMMA FirstNone == ASSUME NEW s \in Seq(Nat) PROVE First(s, 0) = <<>>
  BY DEF First

\* The bytes of a call are as many as it says.
LEMMA DataIsSeq ==
  ASSUME NEW n \in Nat, accepted \in Seq(Nat)
  PROVE  Data(n) \in Seq(Nat) /\ Len(Data(n)) = n
<1>1. Len(accepted) \in Nat
  OBVIOUS
<1> QED BY <1>1 DEF Data

\* Concatenation of sequences of bytes.
LEMMA Append2 ==
  ASSUME NEW a \in Seq(Nat), NEW b \in Seq(Nat)
  PROVE  /\ a \o b \in Seq(Nat)
         /\ Len(a \o b) = Len(a) + Len(b)
         /\ a \o <<>> = a
         /\ <<>> \o a = a
<1>1. a \o b \in Seq(Nat) /\ Len(a \o b) = Len(a) + Len(b)
  BY ConcatProperties
<1> QED BY <1>1, ConcatEmptySeq

\* Appending is associative: sink, buffer and new bytes may be grouped either way.
LEMMA Append3 ==
  ASSUME NEW a \in Seq(Nat), NEW b \in Seq(Nat), NEW c \in Seq(Nat)
  PROVE  (a \o b) \o c = a \o (b \o c)
  BY ConcatAssociative, SMTT(20)

(***************************************************************************)
(* The inductive invariant.  TypeOK and ExactlyOnce lack what the loops    *)
(* rely on: from_input never has more to do than it was called for, and    *)
(* vprintf has memory, so that it does not round up to a multiple of 0.    *)
(***************************************************************************)
IInv ==
  /\ TypeOK
  /\ ExactlyOnce
  /\ Delivered
  /\ pc = "from_input" => todo <= call.len
  /\ pc = "vprintf" => alloc

\* What every outcome of a flush or a write satisfies: the pointers are in
\* order, the failures are counted.
OutcomeOK(o) ==
  /\ o.alloc \in BOOLEAN
  /\ o.sink \in Seq(Nat)
  /\ o.mem \in Seq(Nat)
  /\ o.fin \in Len(o.mem)..cap
  /\ o.fin # 0 => o.alloc
  /\ o.alloc => cap # 0
  /\ o.failures \in failures..MaxFailures
  /\ o.n \in Nat
  /\ o.exc \in {"none", "delay", "space", "io"}

\* Without failures, o leaves the bytes d in the stream and the buffer.
Holds(o, d) == o.failures = 0 => o.sink \o o.mem = d

Flushed(o, m) ==
  /\ OutcomeOK(o)
  /\ Holds(o, sink \o m)
  /\ o.exc = "none" => o.mem = <<>>
  /\ o.exc = "none" /\ o.alloc => o.fin = cap
  /\ o.exc # "none" /\ attached => o.failures # 0

\* A stream that does not fail takes all it is given.
LEMMA StreamTakes ==
  ASSUME NEW s \in Seq(Nat), NEW f \in 0..MaxFailures, NEW d \in Seq(Nat),
         NEW w \in StreamWrite(s, f, d)
  PROVE  /\ w.sink \in Seq(Nat)
         /\ w.n \in 0..Len(d)
         /\ w.failures \in f..MaxFailures
         /\ w.failures = 0 => w.n = Len(d) /\ w.sink = s \o d
         /\ w.n # Len(d) => w.failures # 0
<1>1. PICK k \in IF f < MaxFailures THEN 0..Len(d) ELSE {Len(d)} :
        w = [sink |-> s \o First(d, k), n |-> k,
             failures |-> IF k = Len(d) THEN f ELSE f + 1]
  BY DEF StreamWrite
<1>2. k \in 0..Len(d) /\ (k # Len(d) => f < MaxFailures)
  <2>1. Len(d) \in Nat
    OBVIOUS
  <2> QED BY <2>1, <1>1
<1>3. First(d, k) \in Seq(Nat) /\ First(d, Len(d)) = d
  BY <1>2, Split, FirstAll
<1>4. s \o First(d, k) \in Seq(Nat)
  BY <1>3, Append2
<1>5. w.failures = IF k = Len(d) THEN f ELSE f + 1
  BY <1>1
<1>6. w.n = k /\ w.sink = s \o First(d, k)
  BY <1>1
<1>7. w.failures \in f..MaxFailures /\ (k # Len(d) => w.failures # 0)
  BY <1>2, <1>5, BoundsAssumption
<1> QED BY <1>2, <1>3, <1>4, <1>6, <1>7

\* flush_buffer, whatever the buffer holds.
LEMMA FlushOK ==
  ASSUME TypeOK, NEW a \in BOOLEAN, NEW m \in Seq(Nat),
         fin \in Len(m)..cap, fin # 0 => a, a => cap # 0,
         NEW o \in FlushBuffer(a, m, fin)
  PROVE  Flushed(o, m) /\ o.alloc = a /\ o.n = 0
<1>1. /\ sink \in Seq(Nat) /\ failures \in 0..MaxFailures /\ cap \in Nat
      /\ fin \in Nat /\ Len(m) \in Nat
  BY DEF TypeOK
<1>2. sink \o m \in Seq(Nat) /\ sink \o <<>> = sink
  BY <1>1, Append2
<1>3. CASE ~a
  <2>1. o = Outcome(a, sink, m, fin, failures, 0, "none")
    BY <1>3 DEF FlushBuffer
  <2>2. m = <<>>
    BY <1>1, <1>3
  <2>3. OutcomeOK(o) /\ Holds(o, sink \o m)
    BY <1>1, <1>2, <1>3, <2>1 DEF Outcome, OutcomeOK, Holds
  <2>4. o.mem = <<>> /\ ~o.alloc /\ o.exc = "none" /\ o.alloc = a /\ o.n = 0
    BY <1>3, <2>1, <2>2 DEF Outcome
  <2> QED BY <2>3, <2>4 DEF Flushed
<1>4. CASE a /\ ~attached
  <2>1. o = Outcome(a, sink, m, fin, failures, 0, "delay")
    BY <1>4 DEF FlushBuffer
  <2>2. OutcomeOK(o) /\ Holds(o, sink \o m)
    BY <1>1, <1>2, <1>4, <2>1 DEF Outcome, OutcomeOK, Holds
  <2> QED BY <1>4, <2>1, <2>2 DEF Flushed, Outcome
<1>5. CASE a /\ attached
  <2>1. PICK w \in StreamWrite(sink, failures, m) :
          o = IF w.n = Len(m) THEN Outcome(a, w.sink, <<>>, cap, w.failures, 0, "none")
                              ELSE Outcome(a, w.sink, m, fin, w.failures, 0, "delay")
    BY <1>5 DEF FlushBuffer
  <2>2. /\ w.sink \in Seq(Nat)
        /\ w.failures \in failures..MaxFailures
        /\ w.failures = 0 => w.n = Len(m) /\ w.sink = sink \o m
        /\ w.n # Len(m) => w.failures # 0
    BY <1>1, StreamTakes
  <2>3. w.sink \o <<>> = w.sink
    BY <2>2, Append2
  <2>4. CASE w.n = Len(m)
    <3>1. o = Outcome(a, w.sink, <<>>, cap, w.failures, 0, "none")
      BY <2>1, <2>4
    <3>2. <<>> \in Seq(Nat) /\ Len(<<>>) = 0 /\ cap \in 0..cap
      BY <1>1, EmptySeq
    <3>3. OutcomeOK(o)
      BY <1>1, <1>5, <2>2, <3>1, <3>2 DEF Outcome, OutcomeOK
    <3>4. Holds(o, sink \o m)
      BY <2>2, <2>3, <3>1 DEF Outcome, Holds
    <3> QED BY <3>1, <3>3, <3>4 DEF Flushed, Outcome
  <2>5. CASE w.n # Len(m)
    <3>1. o = Outcome(a, w.sink, m, fin, w.failures, 0, "delay")
      BY <2>1, <2>5
    <3>2. OutcomeOK(o)
      BY <1>1, <1>5, <2>2, <3>1 DEF Outcome, OutcomeOK
    <3>3. Holds(o, sink \o m)
      BY <2>2, <2>5, <3>1 DEF Outcome, Holds
    <3> QED BY <2>2, <2>5, <3>1, <3>2, <3>3 DEF Flushed, Outcome
  <2> QED BY <2>4, <2>5
<1> QED BY <1>3, <1>4, <1>5

\* What write, ensureWrite and writeByte get for the bytes d.
Wrote(o, d) ==
  /\ OutcomeOK(o)
  /\ o.n \in 0..Len(d)
  /\ Holds(o, IF o.exc = "none" THEN (sink \o mem) \o d ELSE sink \o mem)
  /\ o.exc = "none" /\ o.failures = 0 => o.n = Len(d)

\* Data as large as the buffer passes it, behind what was in it.
LEMMA WriteThroughOK ==
  ASSUME TypeOK, NEW d \in Seq(Nat), Len(d) # 0, attached,
         NEW o \in WriteThrough(d)
  PROVE  Wrote(o, d)
<1>1. /\ sink \in Seq(Nat) /\ mem \in Seq(Nat) /\ alloc \in BOOLEAN
      /\ failures \in 0..MaxFailures /\ cap \in Nat /\ Len(d) \in Nat
      /\ fin \in Len(mem)..cap /\ (fin # 0 => alloc) /\ (alloc => cap # 0)
  BY DEF TypeOK
<1>2. PICK f \in FlushBuffer(alloc, mem, fin) :
        o \in IF f.exc # "none" THEN {f}
              ELSE {Outcome(alloc, w.sink, f.mem, f.fin, w.failures, w.n,
                            IF w.n = 0 THEN "space" ELSE "none") :
                       w \in StreamWrite(f.sink, f.failures, d)}
                   \cup
                   {Outcome(alloc, w.sink, f.mem, f.fin, w.failures, 0, "io") :
                       w \in {v \in StreamWrite(f.sink, f.failures, d) : v.n < Len(d)}}
  BY DEF WriteThrough
<1>3. Flushed(f, mem) /\ f.alloc = alloc /\ f.n = 0
  BY <1>1, FlushOK
<1>4. CASE f.exc # "none"
  <2>1. o = f
    BY <1>2, <1>4
  <2>2. OutcomeOK(o) /\ Holds(o, sink \o mem) /\ o.exc # "none" /\ o.n = 0
    BY <1>3, <1>4, <2>1 DEF Flushed
  <2>3. 0 \in 0..Len(d)
    BY <1>1
  <2> QED BY <2>2, <2>3 DEF Wrote
<1>5. CASE f.exc = "none"
  <2>1. /\ f.mem = <<>> /\ f.sink \in Seq(Nat) /\ f.failures \in failures..MaxFailures
        /\ f.fin \in 0..cap /\ (f.fin # 0 => alloc)
    BY <1>3, <1>5, EmptySeq DEF Flushed, OutcomeOK
  <2>2. f.failures = 0 => f.sink = sink \o mem
    BY <1>3, <2>1, Append2 DEF Flushed, Holds
  <2>3. f.failures \in 0..MaxFailures
    BY <1>1, <2>1
  <2>4. ASSUME NEW w \in StreamWrite(f.sink, f.failures, d), NEW n \in {0, w.n},
               NEW e \in {"none", "space", "io"}, e = "none" => n = w.n,
               e # "none" => w.failures # 0
        PROVE  Wrote(Outcome(alloc, w.sink, f.mem, f.fin, w.failures, n, e), d)
    <3> DEFINE r == Outcome(alloc, w.sink, f.mem, f.fin, w.failures, n, e)
    <3>1. /\ w.sink \in Seq(Nat)
          /\ w.n \in 0..Len(d)
          /\ w.failures \in f.failures..MaxFailures
          /\ w.failures = 0 => w.n = Len(d) /\ w.sink = f.sink \o d
      BY <2>1, <2>3, StreamTakes, ZenonT(40)
    <3>2. /\ r.alloc = alloc /\ r.sink = w.sink /\ r.mem = <<>> /\ r.fin = f.fin
          /\ r.failures = w.failures /\ r.n = n /\ r.exc = e
      BY <2>1 DEF Outcome
    <3> HIDE DEF r
    <3>3. <<>> \in Seq(Nat) /\ Len(<<>>) = 0
      BY EmptySeq
    <3>4. w.failures \in failures..MaxFailures /\ n \in 0..Len(d) /\ n \in Nat
      <4>1. n = 0 \/ n = w.n
        OBVIOUS
      <4>2. n \in 0..Len(d)
        BY <1>1, <3>1, <4>1
      <4>3. w.failures \in failures..MaxFailures
        BY <1>1, <2>1, <3>1, BoundsAssumption
      <4> QED BY <1>1, <4>2, <4>3
    <3>5. OutcomeOK(r)
      BY <1>1, <2>1, <3>1, <3>2, <3>3, <3>4 DEF OutcomeOK
    <3>6. w.failures = 0 => f.failures = 0
      BY <2>3, <3>1
    <3>7. r.failures = 0 => e = "none" /\ r.n = Len(d) /\ r.sink \o r.mem = (sink \o mem) \o d
      BY <2>2, <2>4, <3>1, <3>2, <3>6, Append2
    <3>8. Wrote(r, d)
      BY <3>2, <3>4, <3>5, <3>7 DEF Wrote, Holds
    <3> QED BY <3>8 DEF r
  <2>5. CASE o \in {Outcome(alloc, w.sink, f.mem, f.fin, w.failures, w.n,
                            IF w.n = 0 THEN "space" ELSE "none") :
                       w \in StreamWrite(f.sink, f.failures, d)}
    <3>1. PICK w \in StreamWrite(f.sink, f.failures, d) :
            o = Outcome(alloc, w.sink, f.mem, f.fin, w.failures, w.n,
                        IF w.n = 0 THEN "space" ELSE "none")
      BY <2>5
    <3>2. w.n # Len(d) => w.failures # 0
      BY <2>1, <2>3, StreamTakes
    <3>3. CASE w.n = 0
      <4>1. o = Outcome(alloc, w.sink, f.mem, f.fin, w.failures, w.n, "space")
        BY <3>1, <3>3
      <4> QED BY <2>4, <3>2, <3>3, <4>1
    <3>4. CASE w.n # 0
      <4>1. o = Outcome(alloc, w.sink, f.mem, f.fin, w.failures, w.n, "none")
        BY <3>1, <3>4
      <4> QED BY <2>4, <4>1
    <3> QED BY <3>3, <3>4
  <2>6. CASE o \in {Outcome(alloc, w.sink, f.mem, f.fin, w.failures, 0, "io") :
                       w \in {v \in StreamWrite(f.sink, f.failures, d) : v.n < Len(d)}}
    <3>1. PICK w \in StreamWrite(f.sink, f.failures, d) :
            w.n < Len(d) /\ o = Outcome(alloc, w.sink, f.mem, f.fin, w.failures, 0, "io")
      BY <2>6
    <3>2. w.n \in 0..Len(d) /\ (w.n # Len(d) => w.failures # 0)
      BY <2>1, <2>3, StreamTakes
    <3>3. w.failures # 0
      BY <1>1, <3>1, <3>2
    <3> QED BY <2>4, <3>1, <3>3
  <2> QED BY <1>2, <1>5, <2>5, <2>6
<1> QED BY <1>4, <1>5

\* Smaller data fills the buffer, which is flushed, and the rest follows.
LEMMA WriteBehindOK ==
  ASSUME TypeOK, NEW d \in Seq(Nat), attached, Len(mem) + Len(d) > fin, Len(d) < cap,
         NEW o \in WriteBehind(d)
  PROVE  Wrote(o, d)
<1> DEFINE n == fin - Len(mem)
           m == mem \o First(d, n)
<1>1. /\ sink \in Seq(Nat) /\ mem \in Seq(Nat) /\ alloc \in BOOLEAN
      /\ failures \in 0..MaxFailures /\ cap \in Nat /\ Len(d) \in Nat
      /\ Len(mem) \in Nat /\ fin \in Len(mem)..cap
  BY DEF TypeOK
<1>2. n \in 0..Len(d) /\ Len(mem) + n = fin /\ cap # 0
  BY <1>1
<1>3. /\ First(d, n) \in Seq(Nat) /\ Len(First(d, n)) = n
      /\ After(d, n) \in Seq(Nat) /\ Len(After(d, n)) = Len(d) - n
      /\ First(d, n) \o After(d, n) = d
  BY <1>2, Split
<1>4. m \in Seq(Nat) /\ Len(m) = fin
  <2>1. m \in Seq(Nat) /\ Len(m) = Len(mem) + Len(First(d, n))
    BY <1>1, <1>3, Append2
  <2> QED BY <1>2, <1>3, <2>1
<1>5. PICK f \in FlushBuffer(TRUE, m, fin) :
        o = IF f.exc # "none" THEN f
            ELSE Outcome(TRUE, f.sink, After(d, n), f.fin, f.failures, Len(d), "none")
  BY DEF WriteBehind
<1> HIDE DEF n, m
<1>6. Flushed(f, m) /\ f.alloc = TRUE /\ f.n = 0
  <2>1. fin \in Len(m)..cap
    BY <1>1, <1>4
  <2> QED BY <1>2, <1>4, <2>1, FlushOK
<1>7. CASE f.exc # "none"
  <2>1. o = f
    BY <1>5, <1>7
  <2>2. OutcomeOK(o) /\ o.failures # 0 /\ o.exc # "none" /\ o.n = 0
    BY <1>6, <1>7, <2>1 DEF Flushed
  <2>3. 0 \in 0..Len(d)
    BY <1>1
  <2> QED BY <2>2, <2>3 DEF Wrote, Holds
<1>8. CASE f.exc = "none"
  <2>1. o = Outcome(TRUE, f.sink, After(d, n), f.fin, f.failures, Len(d), "none")
    BY <1>5, <1>8
  <2>2. /\ f.sink \in Seq(Nat) /\ f.mem = <<>> /\ f.fin = cap
        /\ f.failures \in failures..MaxFailures
    BY <1>6, <1>8 DEF Flushed, OutcomeOK
  <2>3. /\ o.alloc = TRUE /\ o.sink = f.sink /\ o.mem = After(d, n) /\ o.fin = cap
        /\ o.failures = f.failures /\ o.n = Len(d) /\ o.exc = "none"
    BY <2>1, <2>2 DEF Outcome
  <2>4. cap \in Len(After(d, n))..cap
    BY <1>1, <1>2, <1>3
  <2>5. OutcomeOK(o)
    BY <1>1, <1>2, <1>3, <2>2, <2>3, <2>4 DEF OutcomeOK
  <2>6. ASSUME o.failures = 0 PROVE o.sink \o o.mem = (sink \o mem) \o d
    <3>1. f.sink = sink \o m
      BY <1>6, <2>2, <2>3, <2>6, Append2 DEF Flushed, Holds
    <3>2. sink \o m = (sink \o mem) \o First(d, n)
      BY <1>1, <1>3, Append3 DEF m
    <3>3. sink \o mem \in Seq(Nat)
      BY <1>1, Append2
    <3>4. ((sink \o mem) \o First(d, n)) \o After(d, n) = (sink \o mem) \o d
      <4> DEFINE a == sink \o mem
                 b == First(d, n)
                 c == After(d, n)
      <4>1. a \in Seq(Nat) /\ b \in Seq(Nat) /\ c \in Seq(Nat) /\ b \o c = d
        BY <1>3, <3>3
      <4> HIDE DEF a, b, c
      <4>2. (a \o b) \o c = a \o (b \o c)
        BY <4>1, Append3, ZenonT(40)
      <4> QED BY <4>1, <4>2 DEF a, b, c
    <3> QED BY <2>3, <3>1, <3>2, <3>4
  <2>7. Len(d) \in 0..Len(d)
    BY <1>1
  <2> QED BY <2>3, <2>5, <2>6, <2>7 DEF Wrote, Holds
<1> QED BY <1>7, <1>8

\* The inline path, and the two behind it.
LEMMA PutOK ==
  ASSUME TypeOK, NEW d \in Seq(Nat), NEW o \in Put(d)
  PROVE  Wrote(o, d)
<1>1. /\ sink \in Seq(Nat) /\ mem \in Seq(Nat) /\ alloc \in BOOLEAN
      /\ failures \in 0..MaxFailures /\ cap \in Nat /\ Len(d) \in Nat
      /\ Len(mem) \in Nat /\ fin \in Len(mem)..cap
      /\ (fin # 0 => alloc) /\ (alloc => cap # 0)
  BY DEF TypeOK
<1>2. CASE Len(mem) + Len(d) <= fin
  <2>1. o = Outcome(alloc, sink, mem \o d, fin, failures, Len(d), "none")
    BY <1>2 DEF Put
  <2>2. /\ o.alloc = alloc /\ o.sink = sink /\ o.mem = mem \o d /\ o.fin = fin
        /\ o.failures = failures /\ o.n = Len(d) /\ o.exc = "none"
    BY <2>1 DEF Outcome
  <2>3. mem \o d \in Seq(Nat) /\ Len(mem \o d) = Len(mem) + Len(d)
    BY <1>1, Append2
  <2>4. fin \in Len(mem \o d)..cap /\ failures \in failures..MaxFailures
    BY <1>1, <1>2, <2>3
  <2>5. OutcomeOK(o)
    BY <1>1, <2>2, <2>3, <2>4 DEF OutcomeOK
  <2>6. sink \o (mem \o d) = (sink \o mem) \o d
    BY <1>1, Append3
  <2>7. Len(d) \in 0..Len(d)
    BY <1>1
  <2> QED BY <2>2, <2>5, <2>6, <2>7 DEF Wrote, Holds
<1>3. CASE Len(mem) + Len(d) > fin /\ ~attached
  <2>1. ~(Len(mem) + Len(d) <= fin)
    BY <1>1, <1>3
  <2>2. o = Outcome(alloc, sink, mem, fin, failures, 0, "delay")
    BY <1>3, <2>1 DEF Put, DoFlushAndWrite
  <2>3. /\ o.alloc = alloc /\ o.sink = sink /\ o.mem = mem /\ o.fin = fin
        /\ o.failures = failures /\ o.n = 0 /\ o.exc = "delay"
    BY <2>2 DEF Outcome
  <2>4. failures \in failures..MaxFailures /\ 0 \in 0..Len(d)
    BY <1>1
  <2>5. OutcomeOK(o)
    BY <1>1, <2>3, <2>4 DEF OutcomeOK
  <2> QED BY <2>3, <2>4, <2>5 DEF Wrote, Holds
<1>4. CASE Len(mem) + Len(d) > fin /\ attached
  <2>1. ~(Len(mem) + Len(d) <= fin) /\ Len(d) # 0
    BY <1>1, <1>4
  <2>2. o \in IF Len(d) >= cap THEN WriteThrough(d) ELSE WriteBehind(d)
    BY <1>4, <2>1 DEF Put, DoFlushAndWrite
  <2>3. CASE Len(d) >= cap
    <3>1. o \in WriteThrough(d)
      BY <2>2, <2>3
    <3> QED BY <1>4, <2>1, <3>1, WriteThroughOK
  <2>4. CASE Len(d) < cap
    <3>1. o \in WriteBehind(d)
      BY <1>1, <2>2, <2>4
    <3> QED BY <1>4, <2>4, <3>1, WriteBehindOK
  <2> QED BY <1>1, <2>3, <2>4
<1> QED BY <1>1, <1>2, <1>3, <1>4

\* flush: flush_buffer, and the flush of the stream behind it.
LEMMA FlushBothOK ==
  ASSUME TypeOK, NEW o \in FlushBoth
  PROVE  Flushed(o, mem) /\ o.alloc = alloc
<1>1. /\ alloc \in BOOLEAN /\ mem \in Seq(Nat) /\ fin \in Len(mem)..cap
      /\ (fin # 0 => alloc) /\ (alloc => cap # 0) /\ failures \in 0..MaxFailures
  BY DEF TypeOK
<1>2. \A f \in FlushBuffer(alloc, mem, fin) : Flushed(f, mem) /\ f.alloc = alloc
  BY <1>1, FlushOK
<1>3. CASE o \in FlushBuffer(alloc, mem, fin)
  BY <1>2, <1>3
<1>4. CASE o \notin FlushBuffer(alloc, mem, fin)
  <2>1. PICK f \in FlushBuffer(alloc, mem, fin) :
          /\ f.exc = "none" /\ f.failures < MaxFailures
          /\ o = [f EXCEPT !.exc = "io", !.failures = @ + 1]
    BY <1>4 DEF FlushBoth
  <2>2. Flushed(f, mem) /\ f.alloc = alloc
    BY <1>2
  <2>3. \E a, s, m, e, g, n, x : f = Outcome(a, s, m, e, g, n, x)
    BY DEF FlushBuffer
  <2>4. /\ o.alloc = f.alloc /\ o.sink = f.sink /\ o.mem = f.mem /\ o.fin = f.fin
        /\ o.failures = f.failures + 1 /\ o.n = f.n /\ o.exc = "io"
    BY <2>1, <2>3 DEF Outcome
  <2>5. f.failures \in failures..MaxFailures
    BY <2>2 DEF Flushed, OutcomeOK
  <2>6. o.failures \in failures..MaxFailures /\ o.failures # 0
    BY <1>1, <2>1, <2>4, <2>5, BoundsAssumption
  <2>7. OutcomeOK(o)
    BY <2>2, <2>4, <2>6 DEF Flushed, OutcomeOK
  <2> QED BY <2>2, <2>4, <2>6, <2>7 DEF Flushed, Holds
<1> QED BY <1>3, <1>4

(***************************************************************************)
(* The actions.  TypeOK is about the buffer and about the calls.           *)
(***************************************************************************)
BufferType ==
  /\ attached \in BOOLEAN
  /\ alloc \in BOOLEAN
  /\ cap \in Nat
  /\ mem \in Seq(Nat)
  /\ fin \in Len(mem)..cap
  /\ fin # 0 => alloc
  /\ alloc => cap # 0
  /\ sink \in Seq(Nat)
  /\ failures \in 0..MaxFailures

Exceptions == {"none", "delay", "space", "io", "eof"}

CallType ==
  /\ accepted \in Seq(Nat)
  /\ pc \in {"idle", "vprintf", "from_input", "destroyed"}
  /\ todo \in Nat
  /\ call \in [op : AllCalls \cup {"none"}, len : Nat, n : Nat, exc : Exceptions]

\* The type invariant is the buffer's part and the call's part, each of which a step treats apart.
LEMMA TypeParts == TypeOK <=> BufferType /\ CallType
  BY DEF TypeOK, BufferType, CallType, Exceptions

\* The buffer after a flush or a write, also if it grew meanwhile.
LEMMA BecomeType ==
  ASSUME TypeOK, NEW o, OutcomeOK(o), Become(o), cap' \in Nat, cap' >= cap
  PROVE  BufferType'
<1>1. /\ attached \in BOOLEAN /\ cap \in Nat /\ failures \in 0..MaxFailures
  BY DEF TypeOK
<1>2. /\ alloc' = o.alloc /\ sink' = o.sink /\ mem' = o.mem /\ fin' = o.fin
      /\ failures' = o.failures /\ attached' = attached
  BY DEF Become
<1>3. fin' \in Len(mem')..cap'
  <2>1. mem' \in Seq(Nat) /\ fin' \in Len(mem')..cap
    BY <1>2 DEF OutcomeOK
  <2>2. Len(mem') \in Nat
    BY <2>1
  <2> QED BY <1>1, <2>1, <2>2
<1>4. failures' \in 0..MaxFailures
  BY <1>1, <1>2, BoundsAssumption DEF OutcomeOK
<1>5. alloc' => cap' # 0
  BY <1>1, <1>2 DEF OutcomeOK
<1> QED BY <1>1, <1>2, <1>3, <1>4, <1>5 DEF OutcomeOK, BufferType

\* A call that returns.
LEMMA FinishedType ==
  ASSUME NEW op \in AllCalls, NEW len \in Nat, NEW n \in Nat, NEW e \in Exceptions,
         Finished(op, len, n, e), accepted' \in Seq(Nat), todo' \in Nat
  PROVE  CallType' /\ pc' = "idle"
  BY DEF Finished, CallType

\* A client's bytes go to the stream or to the buffer and are accepted, or not.
LEMMA PutStep ==
  ASSUME IInv, pc # "destroyed", NEW d \in Seq(Nat), NEW o, Wrote(o, d), Become(o),
         NEW k \in 0..Len(d), Accept(d, k), UNCHANGED cap, pc' # "destroyed",
         o.failures = 0 => k = IF o.exc = "none" THEN Len(d) ELSE 0
  PROVE  BufferType' /\ accepted' \in Seq(Nat) /\ ExactlyOnce' /\ Delivered'
<1>1. TypeOK /\ ExactlyOnce /\ cap \in Nat /\ accepted \in Seq(Nat)
      /\ failures \in 0..MaxFailures /\ Len(d) \in Nat
  BY DEF IInv, TypeOK
<1>2. OutcomeOK(o) /\ Holds(o, IF o.exc = "none" THEN (sink \o mem) \o d ELSE sink \o mem)
  BY DEF Wrote
<1>3. BufferType'
  <2>1. cap' \in Nat /\ cap' >= cap
    BY <1>1
  <2> QED BY <1>1, <1>2, <2>1, BecomeType
<1>4. First(d, k) \in Seq(Nat)
  BY Split
<1>5. accepted' = accepted \o First(d, k) /\ accepted' \in Seq(Nat)
  BY <1>1, <1>4, Append2 DEF Accept
<1>6. ASSUME failures' = 0 PROVE sink' \o mem' = accepted'
  <2>1. o.failures = 0 /\ sink' = o.sink /\ mem' = o.mem
    BY <1>6 DEF Become
  <2>2. failures = 0
    BY <1>1, <1>2, <2>1 DEF OutcomeOK
  <2>3. sink \o mem = accepted
    BY <1>1, <2>2 DEF ExactlyOnce
  <2>4. CASE o.exc = "none"
    <3>1. accepted' = accepted \o d
      BY <1>5, <2>1, <2>4, FirstAll
    <3> QED BY <1>2, <2>1, <2>3, <2>4, <3>1 DEF Holds
  <2>5. CASE o.exc # "none"
    <3>1. accepted' = accepted
      BY <1>1, <1>5, <2>1, <2>5, FirstNone, Append2
    <3> QED BY <1>2, <2>1, <2>3, <2>5, <3>1 DEF Holds
  <2> QED BY <2>4, <2>5
<1> QED BY <1>3, <1>5, <1>6 DEF ExactlyOnce, Delivered

\* A new buffer has sent, holds and was given nothing.
LEMMA InitIInv == Init => IInv
<1> SUFFICES ASSUME Init PROVE IInv
  OBVIOUS
<1>1. <<>> \in Seq(Nat) /\ Len(<<>>) = 0
  BY EmptySeq
<1>2. cap \in Nat
  BY ArgumentsAssumption DEF Init
<1>3. BufferType
  <2>1. fin \in Len(mem)..cap /\ failures \in 0..MaxFailures /\ mem \in Seq(Nat) /\ sink \in Seq(Nat)
    BY <1>1, <1>2, BoundsAssumption DEF Init
  <2>2. alloc = FALSE /\ attached \in BOOLEAN /\ fin = 0
    BY DEF Init
  <2> QED BY <1>2, <2>1, <2>2 DEF BufferType
<1>4. CallType
  BY <1>1 DEF Init, CallType, Exceptions
<1>5. <<>> \o <<>> = <<>>
  BY <1>1, Append2
<1> QED BY <1>3, <1>4, <1>5, TypeParts DEF Init, IInv, ExactlyOnce, Delivered

\* write: its bytes are stored, or sent, or both; those it reports are the ones accepted.
LEMMA WriteIInv ==
  ASSUME IInv, NEW len \in Lengths, Write(len)
  PROVE  IInv'
<1>1. TypeOK /\ accepted \in Seq(Nat) /\ len \in Nat /\ todo \in Nat
  BY ArgumentsAssumption DEF IInv, TypeOK
<1>2. Data(len) \in Seq(Nat) /\ Len(Data(len)) = len
  BY <1>1, DataIsSeq
<1>3. PICK o \in Put(Data(len)) :
        /\ Become(o)
        /\ Accept(Data(len), IF o.exc = "none" THEN o.n ELSE 0)
        /\ Finished("write", len, o.n, o.exc)
  BY DEF Write
<1>4. pc = "idle" /\ cap' = cap /\ todo' = todo
  BY DEF Write
<1>5. Wrote(o, Data(len))
  BY <1>1, <1>2, PutOK
<1> DEFINE k == IF o.exc = "none" THEN o.n ELSE 0
<1>6. k \in 0..Len(Data(len)) /\ o.n \in Nat /\ o.exc \in Exceptions
      /\ (o.failures = 0 => k = IF o.exc = "none" THEN Len(Data(len)) ELSE 0)
  <2>1. 0 \in 0..Len(Data(len))
    BY <1>1, <1>2
  <2> QED BY <1>5, <2>1 DEF Wrote, OutcomeOK, Exceptions
<1>7. pc' = "idle"
  BY <1>3 DEF Finished
<1>8. BufferType' /\ accepted' \in Seq(Nat) /\ ExactlyOnce' /\ Delivered'
  <2>1. Accept(Data(len), k)
    BY <1>3
  <2> HIDE DEF k
  <2> QED BY <1>2, <1>3, <1>4, <1>5, <1>6, <1>7, <2>1, PutStep
<1>9. CallType'
  <2>1. "write" \in AllCalls
    BY DEF AllCalls
  <2>2. todo' \in Nat
    BY <1>1, <1>4
  <2> QED BY <1>1, <1>3, <1>6, <1>8, <2>1, <2>2, FinishedType
<1> QED BY <1>7, <1>8, <1>9, TypeParts DEF IInv, TypeOK, BufferType, CallType, Exceptions

\* ensureWrite accepts all the bytes, or throws: the bytes put when it throws are not counted.
LEMMA EnsureWriteIInv ==
  ASSUME IInv, NEW len \in Lengths, EnsureWrite(len)
  PROVE  IInv'
<1>1. TypeOK /\ accepted \in Seq(Nat) /\ len \in Nat /\ todo \in Nat
  BY ArgumentsAssumption DEF IInv, TypeOK
<1>2. Data(len) \in Seq(Nat) /\ Len(Data(len)) = len
  BY <1>1, DataIsSeq
<1>3. PICK o \in Put(Data(len)) :
        LET e == IF o.exc = "none" /\ o.n # len THEN "space" ELSE o.exc
        IN  /\ Become(o)
            /\ Accept(Data(len), IF e = "none" THEN len ELSE 0)
            /\ Finished("ensureWrite", len, o.n, e)
  BY DEF EnsureWrite
<1> DEFINE e == IF o.exc = "none" /\ o.n # len THEN "space" ELSE o.exc
           k == IF e = "none" THEN len ELSE 0
<1>4. pc = "idle" /\ cap' = cap /\ todo' = todo
  BY DEF EnsureWrite
<1>5. Wrote(o, Data(len))
  BY <1>1, <1>2, PutOK
<1>6. o.n \in Nat /\ e \in Exceptions
  BY <1>5 DEF Wrote, OutcomeOK, Exceptions
<1>7. k \in 0..Len(Data(len))
  BY <1>1, <1>2
<1>8. o.failures = 0 => k = IF o.exc = "none" THEN Len(Data(len)) ELSE 0
  BY <1>2, <1>5 DEF Wrote
<1>9. Become(o) /\ Accept(Data(len), k) /\ Finished("ensureWrite", len, o.n, e)
  BY <1>3
<1> HIDE DEF e, k
<1>10. pc' = "idle"
  BY <1>9 DEF Finished
<1>11. BufferType' /\ accepted' \in Seq(Nat) /\ ExactlyOnce' /\ Delivered'
  BY <1>2, <1>4, <1>5, <1>7, <1>8, <1>9, <1>10, PutStep
<1>12. CallType'
  <2>1. "ensureWrite" \in AllCalls
    BY DEF AllCalls
  <2>2. todo' \in Nat
    BY <1>1, <1>4
  <2> QED BY <1>1, <1>6, <1>9, <1>11, <2>1, <2>2, FinishedType
<1> QED BY <1>10, <1>11, <1>12, TypeParts DEF IInv, TypeOK, BufferType, CallType, Exceptions

\* writeByte is the putting of one byte.
LEMMA WriteByteIInv ==
  ASSUME IInv, WriteByte
  PROVE  IInv'
<1>1. TypeOK /\ accepted \in Seq(Nat) /\ todo \in Nat /\ 1 \in Nat
  BY DEF IInv, TypeOK
<1>2. Data(1) \in Seq(Nat) /\ Len(Data(1)) = 1
  BY <1>1, DataIsSeq
<1>3. PICK o \in Put(Data(1)) :
        /\ Become(o)
        /\ Accept(Data(1), IF o.exc = "none" THEN 1 ELSE 0)
        /\ Finished("writeByte", 1, o.n, o.exc)
  BY DEF WriteByte
<1>4. pc = "idle" /\ cap' = cap /\ todo' = todo
  BY DEF WriteByte
<1>5. Wrote(o, Data(1))
  BY <1>1, <1>2, PutOK
<1> DEFINE k == IF o.exc = "none" THEN 1 ELSE 0
<1>6. k \in 0..Len(Data(1)) /\ o.n \in Nat /\ o.exc \in Exceptions
      /\ (o.failures = 0 => k = IF o.exc = "none" THEN Len(Data(1)) ELSE 0)
  <2>1. 0 \in 0..Len(Data(1)) /\ 1 \in 0..Len(Data(1))
    BY <1>2
  <2>2. o.n \in Nat /\ o.exc \in Exceptions
    BY <1>5 DEF Wrote, OutcomeOK, Exceptions
  <2> QED BY <1>2, <2>1, <2>2
<1>7. pc' = "idle"
  BY <1>3 DEF Finished
<1>8. BufferType' /\ accepted' \in Seq(Nat) /\ ExactlyOnce' /\ Delivered'
  <2>1. Accept(Data(1), k)
    BY <1>3
  <2> HIDE DEF k
  <2> QED BY <1>2, <1>3, <1>4, <1>5, <1>6, <1>7, <2>1, PutStep
<1>9. CallType'
  <2>1. "writeByte" \in AllCalls
    BY DEF AllCalls
  <2>2. todo' \in Nat
    BY <1>1, <1>4
  <2> QED BY <1>1, <1>3, <1>6, <1>8, <2>1, <2>2, FinishedType
<1> QED BY <1>7, <1>8, <1>9, TypeParts DEF IInv, TypeOK, BufferType, CallType, Exceptions

\* The buffer after a flush: nothing was accepted, nothing is lost.
LEMMA FlushStep ==
  ASSUME IInv, pc # "destroyed", NEW o, OutcomeOK(o), Holds(o, sink \o mem), Become(o),
         accepted' = accepted, cap' \in Nat, cap' >= cap, pc' # "destroyed"
  PROVE  BufferType' /\ accepted' \in Seq(Nat) /\ ExactlyOnce' /\ Delivered'
<1>1. TypeOK /\ ExactlyOnce /\ accepted \in Seq(Nat) /\ failures \in 0..MaxFailures
  BY DEF IInv, TypeOK
<1>2. BufferType'
  BY <1>1, BecomeType
<1>3. ASSUME failures' = 0 PROVE sink' \o mem' = accepted'
  <2>1. o.failures = 0 /\ sink' = o.sink /\ mem' = o.mem
    BY <1>3 DEF Become
  <2>2. failures = 0
    BY <1>1, <2>1 DEF OutcomeOK
  <2> QED BY <1>1, <2>1, <2>2 DEF ExactlyOnce, Holds
<1> QED BY <1>1, <1>2, <1>3 DEF ExactlyOnce, Delivered

\* flush sends the buffer; after a short write it keeps all of it.
LEMMA FlushIInv ==
  ASSUME IInv, Flush
  PROVE  IInv'
<1>1. TypeOK /\ todo \in Nat /\ cap \in Nat /\ accepted \in Seq(Nat)
  BY DEF IInv, TypeOK
<1>2. PICK o \in FlushBoth : Become(o) /\ Finished("flush", 0, 0, o.exc)
  BY DEF Flush
<1>3. pc = "idle" /\ cap' = cap /\ accepted' = accepted /\ todo' = todo
  BY DEF Flush
<1>4. Flushed(o, mem) /\ o.exc \in Exceptions
  BY <1>1, FlushBothOK DEF Flushed, OutcomeOK, Exceptions
<1>5. pc' = "idle"
  BY <1>2 DEF Finished
<1>6. BufferType' /\ ExactlyOnce' /\ Delivered'
  <2>1. cap' \in Nat /\ cap' >= cap /\ pc # "destroyed" /\ pc' # "destroyed"
    BY <1>1, <1>3, <1>5
  <2> QED BY <1>2, <1>3, <1>4, <2>1, FlushStep DEF Flushed
<1>7. CallType'
  <2>1. "flush" \in AllCalls /\ 0 \in Nat
    BY DEF AllCalls
  <2> QED BY <1>1, <1>2, <1>3, <1>4, <2>1, FinishedType
<1> QED BY <1>5, <1>6, <1>7, TypeParts DEF IInv, TypeOK, BufferType, CallType, Exceptions

\* The call of vprintf starts its loop and moves no byte.
LEMMA VprintfCallIInv ==
  ASSUME IInv, NEW len \in Lengths, VprintfCall(len)
  PROVE  IInv'
<1>1. BufferType /\ CallType /\ ExactlyOnce /\ len \in Nat
  BY ArgumentsAssumption, TypeParts DEF IInv
<1>2. pc = "idle"
  BY DEF VprintfCall
<1>3. /\ attached' = attached /\ cap' = cap /\ mem' = mem /\ fin' = fin /\ sink' = sink
      /\ failures' = failures /\ accepted' = accepted
  BY DEF VprintfCall
<1>4. "vprintf" \in AllCalls /\ 0 \in Nat /\ "io" \in Exceptions /\ "none" \in Exceptions
  BY DEF AllCalls, Exceptions
<1>5. BufferType' /\ CallType' /\ (pc' = "idle" \/ (pc' = "vprintf" /\ alloc'))
  <2>1. CASE cap = 0
    <3>1. Finished("vprintf", len, 0, "io") /\ alloc' = alloc /\ todo' = todo
      BY <2>1 DEF VprintfCall
    <3>2. BufferType'
      BY <1>1, <1>3, <3>1 DEF BufferType
    <3>3. accepted' \in Seq(Nat) /\ todo' \in Nat
      BY <1>1, <1>3, <3>1 DEF CallType
    <3>4. CallType' /\ pc' = "idle"
      BY <1>1, <1>4, <3>1, <3>3, FinishedType
    <3> QED BY <3>2, <3>4
  <2>2. CASE cap # 0
    <3>1. /\ alloc' = TRUE /\ todo' = len /\ pc' = "vprintf"
          /\ call' = [op |-> "vprintf", len |-> len, n |-> 0, exc |-> "none"]
      BY <2>2 DEF VprintfCall
    <3>2. BufferType'
      BY <1>1, <1>3, <2>2, <3>1 DEF BufferType
    <3>3. CallType'
      BY <1>1, <1>3, <1>4, <3>1 DEF CallType
    <3> QED BY <3>1, <3>2, <3>3
  <2> QED BY <2>1, <2>2
<1>6. ExactlyOnce' /\ Delivered'
  BY <1>1, <1>2, <1>3, <1>5 DEF ExactlyOnce, Delivered
<1> QED BY <1>5, <1>6, TypeParts DEF IInv, TypeOK, BufferType, CallType, Exceptions

\* align_up does not round down.
LEMMA AlignUpBound ==
  ASSUME NEW x \in Nat, NEW a \in Nat \ {0}
  PROVE  AlignUp(x, a) \in Nat /\ AlignUp(x, a) >= x
<1> DEFINE y == (x + a) - 1
           q == y \div a
           r == y % a
<1>1. y \in Nat /\ a > 0
  OBVIOUS
<1>2. q \in Nat /\ r \in 0..(a - 1) /\ y = a * q + r
  BY <1>1
<1>3. AlignUp(x, a) = q * a
  BY DEF AlignUp
<1>4. y = x + (a - 1)
  OBVIOUS
<1> HIDE DEF y, q, r
<1>5. q * a \in Nat /\ q * a = a * q
  BY <1>2
<1> DEFINE p == q * a
<1>6. p \in Nat /\ y = p + r
  BY <1>2, <1>5
<1> HIDE DEF p
<1>7. p >= x
  BY <1>2, <1>4, <1>6
<1> QED BY <1>3, <1>6, <1>7 DEF p

\* A pass of vprintf: the text fits and is stored, or the buffer is flushed and grows for another pass.
LEMMA VprintfPassIInv ==
  ASSUME IInv, VprintfPass
  PROVE  IInv'
<1>1. /\ TypeOK /\ BufferType /\ CallType /\ ExactlyOnce
      /\ todo \in Nat /\ cap \in Nat /\ accepted \in Seq(Nat)
      /\ mem \in Seq(Nat) /\ sink \in Seq(Nat) /\ Len(mem) \in Nat
      /\ fin \in Nat
  BY TypeParts DEF IInv, TypeOK
<1>2. pc = "vprintf"
  BY DEF VprintfPass
<1>3. "vprintf" \in AllCalls /\ 0 \in Nat /\ "none" \in Exceptions
  BY DEF AllCalls, Exceptions
<1>4. CASE /\ todo < fin - Len(mem)
           /\ mem' = mem \o Data(todo)
           /\ Accept(Data(todo), todo)
           /\ Finished("vprintf", todo, todo, "none")
           /\ UNCHANGED <<attached, alloc, cap, fin, sink, failures, todo>>
  <2>1. Data(todo) \in Seq(Nat) /\ Len(Data(todo)) = todo
    BY <1>1, DataIsSeq
  <2>2. accepted' = accepted \o Data(todo)
    BY <1>4, <2>1, FirstAll DEF Accept
  <2>3. accepted' \in Seq(Nat) /\ mem' \in Seq(Nat) /\ Len(mem') = Len(mem) + todo
    <3>1. accepted \o Data(todo) \in Seq(Nat)
      BY <1>1, <2>1, Append2
    <3>2. mem \o Data(todo) \in Seq(Nat) /\ Len(mem \o Data(todo)) = Len(mem) + Len(Data(todo))
      BY <1>1, <2>1, Append2
    <3> QED BY <1>4, <2>1, <2>2, <3>1, <3>2
  <2>4. fin \in Len(mem')..cap
    BY <1>1, <1>4, <2>3 DEF BufferType
  <2>5. BufferType'
    BY <1>1, <1>4, <2>3, <2>4 DEF BufferType
  <2>6. CallType' /\ pc' = "idle"
    <3>1. todo' \in Nat
      BY <1>1, <1>4
    <3> QED BY <1>1, <1>3, <1>4, <2>3, <3>1, FinishedType
  <2>7. sink \o (mem \o Data(todo)) = (sink \o mem) \o Data(todo)
    BY <1>1, <2>1, Append3
  <2>8. ASSUME failures' = 0 PROVE sink' \o mem' = accepted'
    <3>1. sink \o mem = accepted
      BY <1>1, <1>2, <1>4, <2>8 DEF ExactlyOnce
    <3> QED BY <1>4, <2>2, <2>7, <3>1
  <2> QED BY <2>5, <2>6, <2>8, TypeParts
          DEF IInv, TypeOK, BufferType, CallType, Exceptions, ExactlyOnce, Delivered
<1>5. CASE /\ todo >= fin - Len(mem)
           /\ \E o \in FlushBoth :
                 /\ Become(o)
                 /\ IF o.exc = "none"
                    THEN /\ cap' = IF todo + 1 > cap THEN AlignUp(todo + 1, cap) ELSE cap
                         /\ UNCHANGED <<pc, call>>
                    ELSE /\ Finished("vprintf", todo, 0, o.exc)
                         /\ UNCHANGED cap
           /\ UNCHANGED <<accepted, todo>>
  <2>1. PICK o \in FlushBoth :
          /\ Become(o)
          /\ IF o.exc = "none"
             THEN /\ cap' = IF todo + 1 > cap THEN AlignUp(todo + 1, cap) ELSE cap
                  /\ UNCHANGED <<pc, call>>
             ELSE /\ Finished("vprintf", todo, 0, o.exc)
                  /\ UNCHANGED cap
    BY <1>5
  <2>2. accepted' = accepted /\ todo' = todo
    BY <1>5
  <2>3. Flushed(o, mem) /\ o.alloc = alloc /\ o.exc \in Exceptions
    BY <1>1, FlushBothOK DEF Flushed, OutcomeOK, Exceptions
  <2>4. CASE o.exc = "none"
    <3>1. pc' = pc /\ call' = call
      BY <2>1, <2>4
    <3>2. cap' \in Nat /\ cap' >= cap
      <4>1. CASE todo + 1 > cap
        <5>1. cap' = AlignUp(todo + 1, cap)
          BY <2>1, <2>4, <4>1
        <5>2. todo + 1 \in Nat /\ cap \in Nat \ {0}
          BY <1>1, <1>2 DEF IInv, BufferType
        <5>3. AlignUp(todo + 1, cap) \in Nat /\ AlignUp(todo + 1, cap) >= todo + 1
          BY <5>2, AlignUpBound
        <5> QED BY <1>1, <4>1, <5>1, <5>3
      <4>2. CASE ~(todo + 1 > cap)
        BY <1>1, <2>1, <2>4, <4>2
      <4> QED BY <4>1, <4>2
    <3>3. BufferType' /\ ExactlyOnce' /\ Delivered'
      <4>1. pc # "destroyed" /\ pc' # "destroyed"
        BY <1>2, <3>1
      <4> QED BY <2>1, <2>2, <2>3, <3>2, <4>1, FlushStep DEF Flushed
    <3>4. CallType' /\ pc' = "vprintf" /\ alloc'
      BY <1>1, <1>2, <2>1, <2>2, <2>3, <3>1 DEF CallType, IInv, Become
    <3> QED BY <3>3, <3>4, TypeParts DEF IInv, TypeOK, BufferType, CallType, Exceptions
  <2>5. CASE o.exc # "none"
    <3>1. Finished("vprintf", todo, 0, o.exc) /\ cap' = cap
      BY <2>1, <2>5
    <3>2. CallType' /\ pc' = "idle"
      BY <1>1, <1>3, <2>2, <2>3, <3>1, FinishedType
    <3>3. BufferType' /\ ExactlyOnce' /\ Delivered'
      <4>1. cap' \in Nat /\ cap' >= cap /\ pc # "destroyed" /\ pc' # "destroyed"
        BY <1>1, <1>2, <3>1, <3>2
      <4> QED BY <2>1, <2>2, <2>3, <4>1, FlushStep DEF Flushed
    <3> QED BY <3>2, <3>3, TypeParts DEF IInv, TypeOK, BufferType, CallType, Exceptions
  <2> QED BY <2>4, <2>5
<1> QED BY <1>4, <1>5 DEF VprintfPass

\* The call of from_input starts its loop and moves no byte.
LEMMA FromInputCallIInv ==
  ASSUME IInv, NEW len \in Lengths, FromInputCall(len)
  PROVE  IInv'
<1>1. BufferType /\ CallType /\ ExactlyOnce /\ len \in Nat
  BY ArgumentsAssumption, TypeParts DEF IInv
<1>2. /\ pc = "idle" /\ pc' = "from_input" /\ todo' = len
      /\ call' = [op |-> "from_input", len |-> len, n |-> 0, exc |-> "none"]
      /\ UNCHANGED <<attached, alloc, cap, mem, fin, sink, failures, accepted>>
  BY DEF FromInputCall
<1>3. BufferType'
  BY <1>1, <1>2 DEF BufferType
<1>4. CallType'
  BY <1>1, <1>2 DEF CallType, AllCalls, Exceptions
<1>5. ExactlyOnce' /\ Delivered'
  BY <1>1, <1>2 DEF ExactlyOnce, Delivered
<1>6. todo' <= call'.len
  BY <1>1, <1>2
<1> QED BY <1>2, <1>3, <1>4, <1>5, <1>6, TypeParts
        DEF IInv, TypeOK, BufferType, CallType, Exceptions

\* from_input returns, or throws, with what it did not do left.
LEMMA FromInputDoneType ==
  ASSUME IInv, pc = "from_input", NEW e \in Exceptions, FromInputDone(e),
         accepted' \in Seq(Nat), todo' \in 0..todo
  PROVE  CallType' /\ pc' = "idle"
<1>1. /\ todo \in Nat /\ call.len \in Nat /\ todo <= call.len
  BY DEF IInv, TypeOK
<1>2. call.len - todo' \in Nat /\ todo' \in Nat
  BY <1>1
<1>3. "from_input" \in AllCalls
  BY DEF AllCalls
<1> QED BY <1>1, <1>2, <1>3, FinishedType DEF FromInputDone

\* A turn of from_input: a full buffer is flushed, then bytes are read into its room.
LEMMA FromInputTurnIInv ==
  ASSUME IInv, FromInputTurn
  PROVE  IInv'
<1>1. /\ TypeOK /\ CallType /\ todo \in Nat /\ cap \in Nat /\ accepted \in Seq(Nat)
      /\ mem \in Seq(Nat) /\ sink \in Seq(Nat) /\ alloc \in BOOLEAN
      /\ fin \in Len(mem)..cap /\ (fin # 0 => alloc) /\ (alloc => cap # 0)
      /\ failures \in 0..MaxFailures /\ call.len \in Nat /\ todo <= call.len
  BY TypeParts DEF IInv, TypeOK, FromInputTurn
<1>2. pc = "from_input" /\ cap' = cap
  BY DEF FromInputTurn
<1> DEFINE flushes == IF Len(mem) = fin THEN FlushBuffer(alloc, mem, fin)
                      ELSE {Outcome(alloc, sink, mem, fin, failures, 0, "none")}
<1>3. PICK o \in flushes :
        LET n == Least(o.fin - Len(o.mem), todo)
        IN  \/ /\ o.exc = "none"
               /\ Become([o EXCEPT !.mem = @ \o Data(n)])
               /\ Accept(Data(n), n)
               /\ todo' = todo - n
               /\ UNCHANGED <<pc, call>>
            \/ /\ o.exc # "none" \/ InputEnds
               /\ Become(o)
               /\ UNCHANGED <<accepted, todo>>
               /\ FromInputDone(IF o.exc = "none" THEN "eof" ELSE o.exc)
  BY DEF FromInputTurn
<1>4. /\ OutcomeOK(o) /\ Holds(o, sink \o mem) /\ o.n = 0
      /\ \E a, s, m, e, g, n, x : o = Outcome(a, s, m, e, g, n, x)
  <2>1. CASE Len(mem) = fin
    <3>1. o \in FlushBuffer(alloc, mem, fin)
      BY <2>1
    <3>2. Flushed(o, mem) /\ o.n = 0
      BY <1>1, <3>1, FlushOK
    <3>3. \E a, s, m, e, g, n, x : o = Outcome(a, s, m, e, g, n, x)
      BY <3>1 DEF FlushBuffer
    <3> QED BY <3>2, <3>3 DEF Flushed
  <2>2. CASE Len(mem) # fin
    <3>1. o = Outcome(alloc, sink, mem, fin, failures, 0, "none")
      BY <2>2
    <3>2. OutcomeOK(o) /\ Holds(o, sink \o mem) /\ o.n = 0
      BY <1>1, <3>1 DEF Outcome, OutcomeOK, Holds
    <3> QED BY <3>1, <3>2
  <2> QED BY <2>1, <2>2
<1> HIDE DEF flushes
<1> DEFINE n == Least(o.fin - Len(o.mem), todo)
<1>5. CASE /\ o.exc = "none"
           /\ Become([o EXCEPT !.mem = @ \o Data(n)])
           /\ Accept(Data(n), n)
           /\ todo' = todo - n
           /\ UNCHANGED <<pc, call>>
  <2>1. o.mem \in Seq(Nat) /\ o.fin \in Len(o.mem)..cap /\ Len(o.mem) \in Nat /\ o.sink \in Seq(Nat)
    BY <1>4 DEF OutcomeOK
  <2>2. n \in 0..todo /\ n \in Nat /\ Len(o.mem) + n <= o.fin
    BY <1>1, <2>1 DEF Least
  <2> DEFINE d == Data(n)
             q == [o EXCEPT !.mem = @ \o Data(n)]
             r == [q EXCEPT !.n = n]
  <2>3. d \in Seq(Nat) /\ Len(d) = n
    BY <1>1, <2>2, DataIsSeq
  <2>4. /\ r.alloc = o.alloc /\ r.sink = o.sink /\ r.mem = o.mem \o d /\ r.fin = o.fin
        /\ r.failures = o.failures /\ r.n = n /\ r.exc = "none"
    BY <1>4, <1>5 DEF Outcome
  <2>5. Become(r) /\ Accept(d, n) /\ todo' = todo - n /\ pc' = pc /\ call' = call
    <3>1. /\ r.alloc = q.alloc /\ r.sink = q.sink /\ r.mem = q.mem /\ r.fin = q.fin
          /\ r.failures = q.failures
      BY <1>4 DEF Outcome
    <3> HIDE DEF r
    <3>2. Become(r) <=> Become(q)
      BY <3>1 DEF Become
    <3> QED BY <1>5, <3>2
  <2> HIDE DEF n, q, r, d
  <2>6. r.mem \in Seq(Nat) /\ Len(r.mem) = Len(o.mem) + n
    <3>1. o.mem \o d \in Seq(Nat) /\ Len(o.mem \o d) = Len(o.mem) + Len(d)
      BY <2>1, <2>3, Append2
    <3> QED BY <2>3, <2>4, <3>1
  <2>7. r.fin \in Len(r.mem)..cap
    BY <2>1, <2>2, <2>4, <2>6
  <2>8. OutcomeOK(r)
    BY <1>4, <2>2, <2>4, <2>6, <2>7 DEF OutcomeOK
  <2>9. Holds(r, (sink \o mem) \o d)
    <3>1. o.sink \o (o.mem \o d) = (o.sink \o o.mem) \o d
      BY <2>1, <2>3, Append3
    <3> QED BY <1>4, <2>4, <3>1 DEF Holds
  <2>10. BufferType' /\ accepted' \in Seq(Nat) /\ ExactlyOnce' /\ Delivered'
    <3>1. n \in 0..Len(d) /\ 0 \in 0..Len(d)
      BY <2>2, <2>3
    <3>2. r.failures = 0 => n = IF r.exc = "none" THEN Len(d) ELSE 0
      BY <2>3, <2>4
    <3>3. Wrote(r, d)
      BY <2>3, <2>4, <2>8, <2>9, <3>1 DEF Wrote
    <3>4. pc # "destroyed" /\ pc' # "destroyed"
      BY <1>2, <2>5
    <3> QED BY <1>2, <2>3, <2>5, <3>1, <3>2, <3>3, <3>4, PutStep
  <2>11. todo' \in Nat /\ todo' <= call'.len
    BY <1>1, <2>2, <2>5
  <2>12. CallType' /\ pc' = "from_input"
    BY <1>1, <1>2, <2>5, <2>10, <2>11 DEF CallType
  <2> QED BY <2>10, <2>11, <2>12, TypeParts DEF IInv, TypeOK, BufferType, CallType, Exceptions
<1>6. CASE /\ o.exc # "none" \/ InputEnds
           /\ Become(o)
           /\ UNCHANGED <<accepted, todo>>
           /\ FromInputDone(IF o.exc = "none" THEN "eof" ELSE o.exc)
  <2>1. PICK e \in Exceptions : FromInputDone(e)
    <3>1. (IF o.exc = "none" THEN "eof" ELSE o.exc) \in Exceptions
      BY <1>4 DEF OutcomeOK, Exceptions
    <3> QED BY <1>6, <3>1
  <2>2. todo' \in 0..todo /\ accepted' = accepted
    BY <1>1, <1>6
  <2>3. CallType' /\ pc' = "idle"
    BY <1>1, <1>2, <2>1, <2>2, FromInputDoneType
  <2>4. BufferType' /\ ExactlyOnce' /\ Delivered'
    <3>1. cap' \in Nat /\ cap' >= cap /\ pc # "destroyed" /\ pc' # "destroyed"
      BY <1>1, <1>2, <2>3
    <3> QED BY <1>4, <1>6, <2>2, <3>1, FlushStep
  <2> QED BY <2>3, <2>4, TypeParts DEF IInv, TypeOK, BufferType, CallType, Exceptions
<1> QED BY <1>3, <1>5, <1>6

\* from_input's return once the length asked for was read.
LEMMA FromInputReturnIInv ==
  ASSUME IInv, FromInputReturn
  PROVE  IInv'
<1>1. BufferType /\ CallType /\ ExactlyOnce /\ todo \in Nat /\ accepted \in Seq(Nat)
  BY TypeParts DEF IInv, CallType
<1>2. /\ pc = "from_input" /\ FromInputDone("none")
      /\ UNCHANGED <<attached, alloc, cap, mem, fin, sink, failures, accepted, todo>>
  BY DEF FromInputReturn
<1>3. CallType' /\ pc' = "idle"
  <2>1. "none" \in Exceptions /\ todo' \in 0..todo /\ accepted' \in Seq(Nat)
    BY <1>1, <1>2 DEF Exceptions
  <2> QED BY <1>2, <2>1, FromInputDoneType
<1>4. BufferType'
  BY <1>1, <1>2 DEF BufferType
<1>5. ExactlyOnce' /\ Delivered'
  BY <1>1, <1>2, <1>3 DEF ExactlyOnce, Delivered
<1> QED BY <1>3, <1>4, <1>5, TypeParts DEF IInv, TypeOK, BufferType, CallType, Exceptions

\* initbuf, set_bufsize and attach leave the bytes where they are.
LEMMA SettingIInv ==
  ASSUME IInv, pc = "idle", BufferType',
         UNCHANGED <<mem, sink, failures, accepted, pc, todo, call>>
  PROVE  IInv'
<1>1. CallType /\ ExactlyOnce
  BY TypeParts DEF IInv
<1>2. CallType'
  BY <1>1 DEF CallType
<1>3. ExactlyOnce' /\ Delivered'
  BY <1>1 DEF ExactlyOnce, Delivered
<1> QED BY <1>2, <1>3, TypeParts DEF IInv, TypeOK, BufferType, CallType, Exceptions

\* initbuf allocates the memory and moves no byte.
LEMMA InitbufIInv ==
  ASSUME IInv, NEW c \in Capacities, Initbuf(c)
  PROVE  IInv'
<1>1. BufferType /\ c \in Nat /\ Len(mem) \in Nat
  BY ArgumentsAssumption, TypeParts DEF IInv, BufferType
<1>2. /\ pc = "idle" /\ ~alloc /\ c > 0 /\ alloc' = TRUE /\ cap' = c
      /\ UNCHANGED <<attached, mem, fin, sink, failures, accepted, pc, todo, call>>
  BY DEF Initbuf
<1>3. fin = 0
  BY <1>1, <1>2 DEF BufferType
<1>4. fin' \in Len(mem')..cap' /\ cap' # 0
  BY <1>1, <1>2, <1>3 DEF BufferType
<1>5. BufferType'
  BY <1>1, <1>2, <1>4 DEF BufferType
<1> QED BY <1>2, <1>5, SettingIInv

\* set_bufsize changes the capacity alone.
LEMMA SetBufsizeIInv ==
  ASSUME IInv, NEW c \in Capacities, SetBufsize(c)
  PROVE  IInv'
<1>1. BufferType /\ c \in Nat /\ Len(mem) \in Nat
  BY ArgumentsAssumption, TypeParts DEF IInv, BufferType
<1>2. /\ pc = "idle" /\ (alloc => c > 0 /\ c >= fin) /\ cap' = c
      /\ UNCHANGED <<attached, alloc, mem, fin, sink, failures, accepted, pc, todo, call>>
  BY DEF SetBufsize
<1>3. fin' \in Len(mem')..cap' /\ (alloc' => cap' # 0)
  <2>1. fin \in Nat /\ fin >= Len(mem)
    BY <1>1 DEF BufferType
  <2>2. c >= fin
    BY <1>1, <1>2, <2>1 DEF BufferType
  <2> QED BY <1>1, <1>2, <2>1, <2>2
<1>4. BufferType'
  BY <1>1, <1>2, <1>3 DEF BufferType
<1> QED BY <1>2, <1>4, SettingIInv

\* attach and detach leave the buffer as it is.
LEMMA AttachIInv ==
  ASSUME IInv, Attach
  PROVE  IInv'
<1>1. BufferType
  BY TypeParts DEF IInv
<1>2. /\ pc = "idle" /\ attached' = ~attached
      /\ UNCHANGED <<alloc, cap, mem, fin, sink, failures, accepted, pc, todo, call>>
  BY DEF Attach
<1>3. BufferType'
  BY <1>1, <1>2 DEF BufferType
<1> QED BY <1>2, <1>3, SettingIInv

\* The destructor with a stream that does not fail delivers what is buffered.
LEMMA DestroyIInv ==
  ASSUME IInv, Destroy
  PROVE  IInv'
<1>1. /\ TypeOK /\ BufferType /\ CallType /\ ExactlyOnce
      /\ mem \in Seq(Nat) /\ sink \in Seq(Nat) /\ alloc \in BOOLEAN
      /\ fin \in Len(mem)..cap /\ (fin # 0 => alloc) /\ (alloc => cap # 0)
      /\ failures \in 0..MaxFailures /\ cap \in Nat /\ Len(mem) \in Nat
  BY TypeParts DEF IInv, TypeOK
<1>2. /\ pc = "idle" /\ mem' = <<>> /\ pc' = "destroyed"
      /\ UNCHANGED <<attached, alloc, cap, fin, accepted, todo, call>>
  BY DEF Destroy
<1>3. PICK o \in IF attached THEN FlushBuffer(alloc, mem, fin)
                 ELSE {Outcome(alloc, sink, mem, fin, failures, 0, "none")} :
        sink' = o.sink /\ failures' = o.failures
  BY DEF Destroy
<1>4. /\ o.sink \in Seq(Nat) /\ o.failures \in failures..MaxFailures
      /\ attached /\ o.failures = 0 => o.sink = sink \o mem
  <2>1. CASE attached
    <3>1. o \in FlushBuffer(alloc, mem, fin)
      BY <2>1, <1>3
    <3>2. Flushed(o, mem)
      BY <1>1, <3>1, FlushOK
    <3>3. ASSUME o.failures = 0 PROVE o.sink = sink \o mem
      <4>1. o.mem = <<>> /\ o.sink \in Seq(Nat)
        BY <2>1, <3>2, <3>3 DEF Flushed, OutcomeOK
      <4>2. o.sink \o o.mem = sink \o mem
        BY <3>2, <3>3 DEF Flushed, Holds
      <4> QED BY <4>1, <4>2, Append2
    <3> QED BY <3>2, <3>3 DEF Flushed, OutcomeOK
  <2>2. CASE ~attached
    <3>1. o = Outcome(alloc, sink, mem, fin, failures, 0, "none")
      BY <2>2, <1>3
    <3> QED BY <1>1, <2>2, <3>1 DEF Outcome
  <2> QED BY <2>1, <2>2
<1>5. failures' \in 0..MaxFailures
  BY <1>1, <1>3, <1>4
<1>6. BufferType'
  <2>1. <<>> \in Seq(Nat) /\ Len(<<>>) = 0
    BY EmptySeq
  <2>2. mem' \in Seq(Nat) /\ fin' \in Len(mem')..cap'
    BY <1>1, <1>2, <2>1
  <2> QED BY <1>1, <1>2, <1>3, <1>4, <1>5, <2>2 DEF BufferType
<1>7. CallType'
  BY <1>1, <1>2 DEF CallType
<1>8. Delivered'
  <2>1. ASSUME attached', failures' = 0 PROVE sink' = accepted'
    <3>1. failures = 0
      BY <1>1, <1>3, <1>4, <2>1
    <3>2. sink \o mem = accepted
      BY <1>1, <1>2, <3>1 DEF ExactlyOnce
    <3> QED BY <1>2, <1>3, <1>4, <2>1, <3>2
  <2> QED BY <2>1 DEF Delivered
<1>9. ExactlyOnce'
  BY <1>2 DEF ExactlyOnce
<1> QED BY <1>2, <1>6, <1>7, <1>8, <1>9, TypeParts
        DEF IInv, TypeOK, BufferType, CallType, Exceptions

\* Every step of an OutputBuffer preserves the invariant.
LEMMA NextIInv ==
  ASSUME IInv, [Next]_vars
  PROVE  IInv'
<1>1. ASSUME NEW len \in Lengths, Write(len) \/ EnsureWrite(len)
      PROVE  IInv'
  BY <1>1, WriteIInv, EnsureWriteIInv
<1>2. CASE WriteByte
  BY <1>2, WriteByteIInv
<1>3. CASE Flush
  BY <1>3, FlushIInv
<1>4. ASSUME NEW len \in Lengths, VprintfCall(len)
      PROVE  IInv'
  BY <1>4, VprintfCallIInv
<1>5. CASE VprintfPass
  BY <1>5, VprintfPassIInv
<1>6. ASSUME NEW len \in Lengths, FromInputCall(len)
      PROVE  IInv'
  BY <1>6, FromInputCallIInv
<1>7. CASE FromInput
  BY <1>7, FromInputTurnIInv, FromInputReturnIInv DEF FromInput
<1>8. ASSUME NEW c \in Capacities, Initbuf(c) \/ SetBufsize(c)
      PROVE  IInv'
  BY <1>8, InitbufIInv, SetBufsizeIInv
<1>9. CASE Attach
  BY <1>9, AttachIInv
<1>10. CASE Destroy
  BY <1>10, DestroyIInv
<1>11. CASE UNCHANGED vars
  <2>1. BufferType /\ CallType
    BY TypeParts DEF IInv
  <2>2. BufferType' /\ CallType'
    BY <1>11, <2>1 DEF vars, BufferType, CallType
  <2>3. ExactlyOnce' /\ Delivered'
    BY <1>11 DEF vars, IInv, ExactlyOnce, Delivered
  <2>4. (pc' = "from_input" => todo' <= call'.len) /\ (pc' = "vprintf" => alloc')
    BY <1>11 DEF vars, IInv
  <2> QED BY <2>2, <2>3, <2>4, TypeParts
          DEF IInv, TypeOK, BufferType, CallType, Exceptions
<1> QED BY <1>1, <1>2, <1>3, <1>4, <1>5, <1>6, <1>7, <1>8, <1>9, <1>10, <1>11 DEF Next

\* The invariant of an OutputBuffer, with any stream, capacity and length.
THEOREM Invariance == Spec => []IInv
<1>1. Init => IInv
  BY InitIInv
<1>2. IInv /\ [Next]_vars => IInv'
  BY NextIInv
<1> QED BY <1>1, <1>2, PTL DEF Spec

\* m_beg <= m_pos <= m_end <= m_beg + m_capacity, whatever write, flush,
\* vprintf, from_input, initbuf, set_bufsize and attach do, and however the
\* stream fails in between.
THEOREM TypeCorrect == Spec => []TypeOK
<1>1. IInv => TypeOK
  BY DEF IInv
<1> QED BY <1>1, Invariance, PTL

\* What write, ensureWrite, writeByte, vprintf and from_input reported as
\* written is in the stream and, behind it, in the buffer, each byte once and
\* in order, as long as the stream did not fail.
THEOREM ExactlyOnceAlways == Spec => []ExactlyOnce
<1>1. IInv => ExactlyOnce
  BY DEF IInv
<1> QED BY <1>1, Invariance, PTL

\* The destructor of a buffer with a stream that did not fail has put every
\* byte reported as written into it.
THEOREM DeliveredAlways == Spec => []Delivered
<1>1. IInv => Delivered
  BY DEF IInv
<1> QED BY <1>1, Invariance, PTL

(***************************************************************************)
(* After failures.  NoGaps says nothing of what the stream may have taken  *)
(* twice; what keeps it true is that the bytes accepted so far are all in  *)
(* the stream or the buffer, so that the next ones have a predecessor.     *)
(***************************************************************************)
Out == sink \o mem

Linked(s) ==
  \A i \in 1..Len(s) : s[i] = 1 \/ \E j \in 1..(i - 1) : s[j] = s[i] - 1

Contains(s, b) == \E i \in 1..Len(s) : s[i] = b

OrderInv ==
  /\ \A i \in 1..Len(accepted) : accepted[i] = i
  /\ Linked(Out)
  /\ pc # "destroyed" => \A b \in 1..Len(accepted) : Contains(Out, b)

\* y is x, or x with a part in the middle of it repeated: a stream took some of
\* the buffered bytes b and failed, and b will be offered again.
Redone(x, y) ==
  \E a, b \in Seq(Nat) : \E k \in 0..Len(b) :
     x = a \o b /\ y = (a \o First(b, k)) \o b

\* The elements of a concatenation.
LEMMA Elements ==
  ASSUME NEW a \in Seq(Nat), NEW b \in Seq(Nat)
  PROVE  /\ a \o b \in Seq(Nat) /\ Len(a \o b) = Len(a) + Len(b)
         /\ \A i \in 1..Len(a) : i \in 1..Len(a \o b) /\ (a \o b)[i] = a[i]
         /\ \A i \in 1..Len(b) : Len(a) + i \in 1..Len(a \o b) /\ (a \o b)[Len(a) + i] = b[i]
<1>1. a \o b \in Seq(Nat) /\ Len(a \o b) = Len(a) + Len(b)
  BY ConcatProperties
<1>2. \A i \in 1..Len(a) + Len(b) : (a \o b)[i] = IF i <= Len(a) THEN a[i] ELSE b[i - Len(a)]
  BY ConcatProperties
<1>3. Len(a) \in Nat /\ Len(b) \in Nat
  OBVIOUS
<1>4. ASSUME NEW i \in 1..Len(a) PROVE i \in 1..Len(a \o b) /\ (a \o b)[i] = a[i]
  <2>1. i \in 1..Len(a) + Len(b) /\ i <= Len(a)
    BY <1>3
  <2> QED BY <1>1, <1>2, <2>1
<1>5. ASSUME NEW i \in 1..Len(b)
      PROVE  Len(a) + i \in 1..Len(a \o b) /\ (a \o b)[Len(a) + i] = b[i]
  <2>1. Len(a) + i \in 1..Len(a) + Len(b) /\ ~(Len(a) + i <= Len(a)) /\ Len(a) + i - Len(a) = i
    BY <1>3
  <2> QED BY <1>1, <1>2, <2>1
<1> QED BY <1>1, <1>4, <1>5

\* A prefix of what has no gaps has none.
LEMMA LinkedPrefix ==
  ASSUME NEW a \in Seq(Nat), NEW b \in Seq(Nat), Linked(a \o b)
  PROVE  Linked(a)
<1> SUFFICES ASSUME NEW i \in 1..Len(a), a[i] # 1
             PROVE  \E j \in 1..(i - 1) : a[j] = a[i] - 1
  BY DEF Linked
<1>1. i \in 1..Len(a \o b) /\ (a \o b)[i] = a[i]
  BY Elements
<1>2. PICK j \in 1..(i - 1) : (a \o b)[j] = a[i] - 1
  BY <1>1 DEF Linked
<1>3. j \in 1..Len(a)
  OBVIOUS
<1>4. a[j] = a[i] - 1
  BY <1>2, <1>3, Elements
<1> QED BY <1>4

\* What follows a number that is there may be appended.
LEMMA LinkedAppend ==
  ASSUME NEW s \in Seq(Nat), Linked(s), NEW L \in Nat, L = 0 \/ Contains(s, L),
         NEW d \in Seq(Nat), \A i \in 1..Len(d) : d[i] = L + i
  PROVE  Linked(s \o d)
<1>1. /\ Len(s \o d) = Len(s) + Len(d) /\ Len(s) \in Nat /\ Len(d) \in Nat
      /\ \A i \in 1..Len(s) : (s \o d)[i] = s[i]
      /\ \A i \in 1..Len(d) : (s \o d)[Len(s) + i] = d[i]
  BY Elements
<1> SUFFICES ASSUME NEW i \in 1..Len(s \o d), (s \o d)[i] # 1
             PROVE  \E j \in 1..(i - 1) : (s \o d)[j] = (s \o d)[i] - 1
  BY DEF Linked
<1>2. CASE i <= Len(s)
  <2>1. i \in 1..Len(s) /\ s[i] # 1 /\ (s \o d)[i] = s[i]
    BY <1>1, <1>2
  <2>2. PICK j \in 1..(i - 1) : s[j] = s[i] - 1
    BY <2>1 DEF Linked
  <2>3. j \in 1..Len(s)
    BY <2>1
  <2> QED BY <1>1, <2>1, <2>2, <2>3
<1>3. CASE i > Len(s)
  <2> DEFINE m == i - Len(s)
  <2>1. m \in 1..Len(d) /\ i = Len(s) + m
    BY <1>1, <1>3
  <2>2. (s \o d)[i] = L + m /\ L + m # 1
    BY <1>1, <2>1
  <2>3. CASE m = 1
    <3>1. L # 0
      BY <2>2, <2>3
    <3>2. PICK j \in 1..Len(s) : s[j] = L
      BY <3>1 DEF Contains
    <3>3. j \in 1..(i - 1) /\ (s \o d)[j] = L /\ L = (s \o d)[i] - 1
      BY <1>1, <1>3, <2>2, <2>3, <3>2
    <3> QED BY <3>3
  <2>4. CASE m # 1
    <3> DEFINE q == m - 1
    <3>0. m \in 1..Len(d) /\ Len(d) \in Nat
      BY <1>1, <2>1
    <3>1. q \in 1..Len(d) /\ m = q + 1
      <4> HIDE DEF m
      <4> QED BY <2>4, <3>0
    <3> HIDE DEF m, q
    <3>2. d[q] = L + q /\ (s \o d)[Len(s) + q] = d[q]
      BY <1>1, <3>1
    <3>3. Len(s) + q \in 1..(i - 1) /\ L + q = (s \o d)[i] - 1
      <4>1. Len(s) \in Nat /\ q \in Nat /\ q >= 1 /\ m = q + 1
        BY <3>1, <1>1
      <4>2. Len(s) + q \in 1..(i - 1)
        BY <2>1, <4>1
      <4>3. L + q = (L + m) - 1
        BY <4>1
      <4> QED BY <2>2, <4>2, <4>3
    <3> QED BY <3>2, <3>3
  <2> QED BY <2>3, <2>4
<1>4. i <= Len(s) \/ i > Len(s)
  <2>1. Len(s \o d) \in Nat /\ Len(s) \in Nat /\ i \in 1..Len(s \o d)
    BY <1>1
  <2> QED BY <2>1
<1> QED BY <1>2, <1>3, <1>4

\* Repeating a part leaves no gaps, and everything that was there is.
LEMMA RedoneLinked ==
  ASSUME NEW x, NEW y, Redone(x, y), Linked(x)
  PROVE  /\ x \in Seq(Nat) /\ y \in Seq(Nat) /\ Linked(y)
         /\ \A n : Contains(x, n) => Contains(y, n)
<1>0. PICK a \in Seq(Nat), b \in Seq(Nat) :
        \E k \in 0..Len(b) : x = a \o b /\ y = (a \o First(b, k)) \o b
  BY DEF Redone
<1>1. PICK k \in 0..Len(b) : x = a \o b /\ y = (a \o First(b, k)) \o b
  BY <1>0
<1> DEFINE f == First(b, k)
           c == a \o f
<1>2. f \in Seq(Nat) /\ After(b, k) \in Seq(Nat) /\ f \o After(b, k) = b
  BY Split
<1> HIDE DEF f
<1>3. c \in Seq(Nat) /\ Len(c) = Len(a) + Len(f) /\ (\A i \in 1..Len(a) : c[i] = a[i])
  BY <1>2, Elements
<1>4. Linked(c)
  <2> DEFINE r == After(b, k)
  <2>0. r \in Seq(Nat) /\ f \o r = b
    BY <1>2
  <2> HIDE DEF r
  <2>1. c \o r = x
    BY <1>1, <1>2, <2>0, Append3, ZenonT(40)
  <2> QED BY <1>3, <2>0, <2>1, LinkedPrefix
<1>5. y = c \o b
  BY <1>1 DEF f
<1> HIDE DEF c
<1>6. /\ Len(a) \in Nat /\ Len(b) \in Nat /\ Len(c) \in Nat /\ Len(f) \in Nat
      /\ Len(x) = Len(a) + Len(b) /\ Len(y) = Len(c) + Len(b)
      /\ \A i \in 1..Len(a) : x[i] = a[i]
      /\ \A i \in 1..Len(b) : x[Len(a) + i] = b[i]
      /\ \A i \in 1..Len(c) : y[i] = c[i]
      /\ \A i \in 1..Len(b) : y[Len(c) + i] = b[i]
  <2>1. /\ Len(x) = Len(a) + Len(b)
        /\ \A i \in 1..Len(a) : x[i] = a[i]
        /\ \A i \in 1..Len(b) : x[Len(a) + i] = b[i]
    BY <1>1, Elements
  <2>2. /\ Len(y) = Len(c) + Len(b)
        /\ \A i \in 1..Len(c) : y[i] = c[i]
        /\ \A i \in 1..Len(b) : y[Len(c) + i] = b[i]
    BY <1>3, <1>5, Elements, ZenonT(40)
  <2>3. Len(a) \in Nat /\ Len(b) \in Nat /\ Len(c) \in Nat /\ Len(f) \in Nat
    BY <1>2, <1>3
  <2> QED BY <2>1, <2>2, <2>3
\* An element before position Len(a) + m of x is before Len(c) + m of y.
<1>7. ASSUME NEW m \in 1..(Len(b) + 1), NEW j \in 1..(Len(a) + m - 1)
      PROVE  \E p \in 1..(Len(c) + m - 1) : y[p] = x[j]
  <2>1. CASE j <= Len(a)
    <3>0. Len(a) \in Nat /\ Len(c) \in Nat /\ Len(a) <= Len(c) /\ j \in Nat /\ 1 <= j
      <4>1. Len(a) \in Nat /\ Len(c) \in Nat /\ Len(f) \in Nat /\ Len(c) = Len(a) + Len(f)
        BY <1>3, <1>6
      <4> QED BY <4>1
    <3>1. j \in 1..Len(a) /\ j \in 1..Len(c) /\ j \in 1..(Len(c) + m - 1)
      BY <2>1, <3>0
    <3>2. y[j] = x[j]
      BY <1>3, <1>6, <3>1
    <3> QED BY <3>1, <3>2
  <2>2. CASE j > Len(a)
    <3> DEFINE q == j - Len(a)
    <3>1. q \in 1..Len(b) /\ j = Len(a) + q /\ Len(c) + q \in 1..(Len(c) + m - 1)
      BY <1>6, <2>2
    <3>2. y[Len(c) + q] = x[j]
      BY <1>6, <3>1
    <3> QED BY <3>1, <3>2
  <2> QED BY <1>6, <2>1, <2>2
<1>8. Linked(y)
  <2> SUFFICES ASSUME NEW i \in 1..Len(y), y[i] # 1
               PROVE  \E j \in 1..(i - 1) : y[j] = y[i] - 1
    BY DEF Linked
  <2>1. CASE i <= Len(c)
    <3>1. i \in 1..Len(c) /\ y[i] = c[i]
      BY <1>6, <2>1
    <3>2. PICK j \in 1..(i - 1) : c[j] = c[i] - 1
      BY <1>4, <3>1 DEF Linked
    <3>3. j \in 1..Len(c)
      BY <1>6, <3>1
    <3> QED BY <1>6, <3>1, <3>2, <3>3
  <2>2. CASE i > Len(c)
    <3> DEFINE m == i - Len(c)
    <3>1. m \in 1..Len(b) /\ i = Len(c) + m /\ m \in 1..(Len(b) + 1)
      BY <1>6, <2>2
    <3> HIDE DEF m
    <3>2. y[i] = b[m] /\ x[Len(a) + m] = b[m] /\ Len(a) + m \in 1..Len(x)
      BY <1>6, <3>1
    <3>3. PICK j \in 1..(Len(a) + m - 1) : x[j] = b[m] - 1
      <4> DEFINE q == Len(a) + m
      <4>1. q \in 1..Len(x) /\ x[q] = b[m] /\ x[q] # 1
        BY <3>2
      <4> HIDE DEF q
      <4>2. PICK j \in 1..(q - 1) : x[j] = x[q] - 1
        BY <4>1 DEF Linked
      <4>3. j \in 1..(Len(a) + m - 1)
        <5>1. q = Len(a) + m
          BY DEF q
        <5> QED BY <1>6, <3>1, <5>1
      <4>4. x[j] = b[m] - 1
        BY <4>1, <4>2
      <4> QED BY <4>3, <4>4
    <3>4. PICK p \in 1..(Len(c) + m - 1) : y[p] = x[j]
      BY <1>7, <3>1
    <3> QED BY <3>1, <3>2, <3>3, <3>4
  <2> QED BY <1>6, <2>1, <2>2
<1>9. ASSUME NEW n, Contains(x, n) PROVE Contains(y, n)
  <2>1. PICK j \in 1..Len(x) : x[j] = n
    BY <1>9 DEF Contains
  <2> DEFINE m == Len(b) + 1
  <2>2. m \in 1..(Len(b) + 1) /\ j \in 1..(Len(a) + m - 1) /\ Len(c) + m - 1 = Len(y)
    BY <1>6, <2>1
  <2>3. PICK p \in 1..(Len(c) + m - 1) : y[p] = x[j]
    BY <1>7, <2>2
  <2> QED BY <2>1, <2>2, <2>3 DEF Contains
<1>10. x \in Seq(Nat) /\ y \in Seq(Nat)
  BY <1>1, <1>3, <1>5, Elements
<1> QED BY <1>8, <1>9, <1>10

\* Nothing was repeated, or the part that was is the last.
LEMMA RedoneSame ==
  ASSUME NEW x \in Seq(Nat)
  PROVE  Redone(x, x)
<1>1. <<>> \in Seq(Nat) /\ Len(<<>>) = 0 /\ First(<<>>, 0) = <<>>
  BY EmptySeq, FirstNone
<1>2. x = x \o <<>> /\ x = (x \o First(<<>>, 0)) \o <<>> /\ 0 \in 0..Len(<<>>)
  BY <1>1, Append2
<1> QED BY <1>1, <1>2 DEF Redone

\* What a stream took of what it was given.
LEMMA StreamTook ==
  ASSUME NEW s \in Seq(Nat), NEW f, NEW d \in Seq(Nat), NEW w \in StreamWrite(s, f, d)
  PROVE  w.n \in 0..Len(d) /\ w.sink = s \o First(d, w.n) /\ w.sink \in Seq(Nat)
<1>1. PICK k \in IF f < MaxFailures THEN 0..Len(d) ELSE {Len(d)} :
        w = [sink |-> s \o First(d, k), n |-> k,
             failures |-> IF k = Len(d) THEN f ELSE f + 1]
  BY DEF StreamWrite
<1>2. Len(d) \in Nat
  OBVIOUS
<1>3. k \in 0..Len(d)
  BY <1>1, <1>2
<1>4. w.n = k /\ w.sink = s \o First(d, k)
  BY <1>1
<1>5. First(d, k) \in Seq(Nat)
  BY <1>3, Split
<1> QED BY <1>3, <1>4, <1>5, Append2

\* A flush that fails leaves what the stream took of the buffer in the buffer.
LEMMA FlushRedone ==
  ASSUME TypeOK, NEW a \in BOOLEAN, NEW m \in Seq(Nat),
         fin \in Len(m)..cap, fin # 0 => a, NEW o \in FlushBuffer(a, m, fin)
  PROVE  /\ Redone(sink \o m, o.sink \o o.mem)
         /\ o.sink \in Seq(Nat) /\ o.mem \in Seq(Nat)
         /\ o.exc = "none" => o.mem = <<>> /\ o.sink = sink \o m
<1>1. sink \in Seq(Nat) /\ Len(m) \in Nat /\ cap \in Nat
  BY DEF TypeOK
<1>2. sink \o m \in Seq(Nat) /\ sink \o <<>> = sink
  BY <1>1, Append2
<1>3. Redone(sink \o m, sink \o m)
  BY <1>2, RedoneSame
<1>4. CASE ~a
  <2>1. o = Outcome(a, sink, m, fin, failures, 0, "none")
    BY <1>4 DEF FlushBuffer
  <2>2. m = <<>>
    BY <1>1, <1>4
  <2> QED BY <1>1, <1>2, <1>3, <2>1, <2>2 DEF Outcome
<1>5. CASE a /\ ~attached
  <2>1. o = Outcome(a, sink, m, fin, failures, 0, "delay")
    BY <1>5 DEF FlushBuffer
  <2> QED BY <1>1, <1>3, <2>1 DEF Outcome
<1>6. CASE a /\ attached
  <2>1. PICK w \in StreamWrite(sink, failures, m) :
          o = IF w.n = Len(m) THEN Outcome(a, w.sink, <<>>, cap, w.failures, 0, "none")
                              ELSE Outcome(a, w.sink, m, fin, w.failures, 0, "delay")
    BY <1>6 DEF FlushBuffer
  <2>2. w.n \in 0..Len(m) /\ w.sink = sink \o First(m, w.n) /\ w.sink \in Seq(Nat)
    BY <1>1, StreamTook
  <2>3. CASE w.n = Len(m)
    <3>1. o.sink = w.sink /\ o.mem = <<>> /\ o.exc = "none"
      BY <2>1, <2>3 DEF Outcome
    <3>2. o.sink = sink \o m /\ <<>> \in Seq(Nat)
      BY <2>2, <2>3, <3>1, FirstAll, EmptySeq
    <3>3. o.sink \o o.mem = sink \o m
      BY <1>2, <3>1, <3>2, Append2
    <3> QED BY <1>3, <2>2, <3>1, <3>2, <3>3
  <2>4. CASE w.n # Len(m)
    <3>1. o.sink = w.sink /\ o.mem = m /\ o.exc = "delay"
      BY <2>1, <2>4 DEF Outcome
    <3>2. o.sink \o o.mem = (sink \o First(m, w.n)) \o m
      BY <2>2, <3>1
    <3>3. Redone(sink \o m, o.sink \o o.mem)
      BY <1>1, <2>2, <3>2 DEF Redone
    <3> QED BY <2>2, <3>1, <3>3
  <2> QED BY <2>3, <2>4
<1> QED BY <1>4, <1>5, <1>6

\* What a write of d leaves behind: j of its bytes are in the stream or the
\* buffer, at least as many as are reported.
Left(o, d) ==
  \E j \in 0..Len(d) :
     /\ Redone(Out \o First(d, j), o.sink \o o.mem)
     /\ o.exc = "none" => o.n = j /\ (j # 0 \/ Len(d) = 0)

\* A write past the buffer sends a beginning of the data behind what the buffer held, or none of them.
LEMMA WriteThroughLeft ==
  ASSUME TypeOK, NEW d \in Seq(Nat), NEW o \in WriteThrough(d)
  PROVE  Left(o, d)
<1>1. /\ sink \in Seq(Nat) /\ mem \in Seq(Nat) /\ alloc \in BOOLEAN /\ Len(d) \in Nat
      /\ fin \in Len(mem)..cap /\ (fin # 0 => alloc)
  BY DEF TypeOK
<1>2. Out \in Seq(Nat)
  BY <1>1, Append2 DEF Out
<1>3. PICK f \in FlushBuffer(alloc, mem, fin) :
        o \in IF f.exc # "none" THEN {f}
              ELSE {Outcome(alloc, w.sink, f.mem, f.fin, w.failures, w.n,
                            IF w.n = 0 THEN "space" ELSE "none") :
                       w \in StreamWrite(f.sink, f.failures, d)}
                   \cup
                   {Outcome(alloc, w.sink, f.mem, f.fin, w.failures, 0, "io") :
                       w \in {v \in StreamWrite(f.sink, f.failures, d) : v.n < Len(d)}}
  BY DEF WriteThrough
<1>4. /\ Redone(Out, f.sink \o f.mem)
      /\ f.sink \in Seq(Nat)
      /\ f.exc = "none" => f.mem = <<>> /\ f.sink = Out
  BY <1>1, <1>3, FlushRedone DEF Out
<1>5. CASE f.exc # "none"
  <2>1. o = f
    BY <1>3, <1>5
  <2>2. Out \o First(d, 0) = Out /\ 0 \in 0..Len(d)
    BY <1>1, <1>2, FirstNone, Append2
  <2> QED BY <1>4, <1>5, <2>1, <2>2 DEF Left
<1>6. CASE f.exc = "none"
  <2>1. PICK w \in StreamWrite(f.sink, f.failures, d) :
          \/ o = Outcome(alloc, w.sink, f.mem, f.fin, w.failures, w.n,
                         IF w.n = 0 THEN "space" ELSE "none")
          \/ o = Outcome(alloc, w.sink, f.mem, f.fin, w.failures, 0, "io")
    BY <1>3, <1>6
  <2>2. w.n \in 0..Len(d) /\ w.sink = Out \o First(d, w.n) /\ w.sink \in Seq(Nat)
    <3>1. w.n \in 0..Len(d) /\ w.sink = f.sink \o First(d, w.n) /\ w.sink \in Seq(Nat)
      BY <1>4, StreamTook
    <3> QED BY <1>4, <1>6, <3>1
  <2>3. /\ o.sink = w.sink /\ o.mem = <<>>
        /\ o.exc = "none" => o.n = w.n /\ w.n # 0
    BY <1>4, <1>6, <2>1 DEF Outcome
  <2>4. o.sink \o o.mem = Out \o First(d, w.n)
    BY <2>2, <2>3, Append2
  <2>5. Redone(Out \o First(d, w.n), o.sink \o o.mem)
    BY <2>2, <2>4, RedoneSame
  <2> QED BY <2>2, <2>3, <2>5 DEF Left
<1> QED BY <1>5, <1>6

\* A write that fills the buffer, flushes it and keeps the rest leaves the bytes in the order given.
LEMMA WriteBehindLeft ==
  ASSUME TypeOK, NEW d \in Seq(Nat), Len(mem) + Len(d) > fin, Len(d) < cap, Len(d) # 0,
         NEW o \in WriteBehind(d)
  PROVE  Left(o, d)
<1> DEFINE n == fin - Len(mem)
           b == First(d, n)
           c == After(d, n)
           m == mem \o b
<1>1. /\ sink \in Seq(Nat) /\ mem \in Seq(Nat) /\ cap \in Nat /\ Len(d) \in Nat
      /\ Len(mem) \in Nat /\ fin \in Len(mem)..cap
  BY DEF TypeOK
<1>2. n \in 0..Len(d) /\ Len(mem) + n = fin
  BY <1>1
<1>3. b \in Seq(Nat) /\ Len(b) = n /\ c \in Seq(Nat) /\ b \o c = d
  BY <1>2, Split
<1>4. m \in Seq(Nat) /\ Len(m) = fin
  <2>1. m \in Seq(Nat) /\ Len(m) = Len(mem) + Len(b)
    BY <1>1, <1>3, Append2
  <2> QED BY <1>2, <1>3, <2>1
<1>5. PICK f \in FlushBuffer(TRUE, m, fin) :
        o = IF f.exc # "none" THEN f
            ELSE Outcome(TRUE, f.sink, c, f.fin, f.failures, Len(d), "none")
  BY DEF WriteBehind
<1>6. Out \in Seq(Nat) /\ sink \o m = Out \o b
  <2> HIDE DEF b
  <2>1. (sink \o mem) \o b = sink \o (mem \o b)
    BY <1>1, <1>3, Append3
  <2> QED BY <1>1, <2>1, Append2 DEF Out
<1>7. b = First(d, n)
  OBVIOUS
<1> HIDE DEF n, b, c, m
<1>8. /\ Redone(sink \o m, f.sink \o f.mem)
      /\ f.exc = "none" => f.mem = <<>> /\ f.sink = sink \o m
  <2>1. fin \in Len(m)..cap
    BY <1>1, <1>4
  <2> QED BY <1>4, <2>1, FlushRedone
<1>9. CASE f.exc # "none"
  <2>1. o = f
    BY <1>5, <1>9
  <2>2. Redone(Out \o First(d, n), o.sink \o o.mem)
    BY <1>6, <1>7, <1>8, <2>1
  <2> QED BY <1>2, <1>9, <2>1, <2>2 DEF Left
<1>10. CASE f.exc = "none"
  <2>1. o = Outcome(TRUE, f.sink, c, f.fin, f.failures, Len(d), "none")
    BY <1>5, <1>10
  <2>2. o.sink = Out \o b /\ o.mem = c /\ o.exc = "none" /\ o.n = Len(d)
    BY <1>6, <1>8, <1>10, <2>1 DEF Outcome
  <2>3. o.sink \o o.mem = Out \o d
    <3>1. (Out \o b) \o c = Out \o (b \o c)
      BY <1>3, <1>6, Append3
    <3> QED BY <1>3, <2>2, <3>1
  <2>4. First(d, Len(d)) = d /\ Len(d) \in 0..Len(d) /\ Out \o d \in Seq(Nat)
    BY <1>1, <1>6, FirstAll, Append2
  <2>5. Redone(Out \o First(d, Len(d)), o.sink \o o.mem)
    BY <2>3, <2>4, RedoneSame
  <2> QED BY <2>2, <2>4, <2>5 DEF Left
<1> QED BY <1>9, <1>10

\* Every way do_ensureWrite puts bytes leaves them in the order given, a resent beginning aside.
LEMMA PutLeft ==
  ASSUME TypeOK, NEW d \in Seq(Nat), NEW o \in Put(d)
  PROVE  Left(o, d)
<1>1. /\ sink \in Seq(Nat) /\ mem \in Seq(Nat) /\ cap \in Nat /\ Len(d) \in Nat
      /\ Len(mem) \in Nat /\ fin \in Len(mem)..cap
  BY DEF TypeOK
<1>2. Out \in Seq(Nat)
  BY <1>1, Append2 DEF Out
<1>3. CASE Len(mem) + Len(d) <= fin
  <2>1. o = Outcome(alloc, sink, mem \o d, fin, failures, Len(d), "none")
    BY <1>3 DEF Put
  <2>2. o.sink = sink /\ o.mem = mem \o d /\ o.n = Len(d) /\ o.exc = "none"
    BY <2>1 DEF Outcome
  <2>3. o.sink \o o.mem = Out \o d
    <3>1. sink \o (mem \o d) = (sink \o mem) \o d
      BY <1>1, Append3
    <3> QED BY <2>2, <3>1 DEF Out
  <2>4. First(d, Len(d)) = d /\ Len(d) \in 0..Len(d) /\ Out \o d \in Seq(Nat)
    BY <1>1, <1>2, FirstAll, Append2
  <2>5. Redone(Out \o First(d, Len(d)), o.sink \o o.mem)
    BY <2>3, <2>4, RedoneSame
  <2> QED BY <2>2, <2>4, <2>5 DEF Left
<1>4. CASE ~(Len(mem) + Len(d) <= fin) /\ ~attached
  <2>1. o = Outcome(alloc, sink, mem, fin, failures, 0, "delay")
    BY <1>4 DEF Put, DoFlushAndWrite
  <2>2. o.sink \o o.mem = Out /\ o.exc = "delay"
    BY <2>1 DEF Outcome, Out
  <2>3. Out \o First(d, 0) = Out /\ 0 \in 0..Len(d)
    BY <1>1, <1>2, FirstNone, Append2
  <2> QED BY <1>2, <2>2, <2>3, RedoneSame DEF Left
<1>5. CASE ~(Len(mem) + Len(d) <= fin) /\ attached
  <2>1. Len(d) # 0 /\ Len(mem) + Len(d) > fin
    BY <1>1, <1>5
  <2>2. o \in IF Len(d) >= cap THEN WriteThrough(d) ELSE WriteBehind(d)
    BY <1>5 DEF Put, DoFlushAndWrite
  <2>3. CASE Len(d) >= cap
    <3>1. o \in WriteThrough(d)
      BY <2>2, <2>3
    <3> QED BY <3>1, WriteThroughLeft
  <2>4. CASE ~(Len(d) >= cap)
    <3>1. o \in WriteBehind(d) /\ Len(d) < cap
      BY <1>1, <2>2, <2>4
    <3> QED BY <2>1, <3>1, WriteBehindLeft
  <2> QED BY <2>3, <2>4
<1> QED BY <1>3, <1>4, <1>5

\* The first bytes of a call are the ones that follow those accepted.
LEMMA FirstData ==
  ASSUME accepted \in Seq(Nat), NEW n \in Nat, NEW j \in 0..n
  PROVE  LET d == First(Data(n), j)
         IN  d \in Seq(Nat) /\ Len(d) = j /\ \A i \in 1..j : d[i] = Len(accepted) + i
<1> DEFINE d == First(Data(n), j)
<1>1. Data(n) \in Seq(Nat) /\ Len(Data(n)) = n
  BY DataIsSeq
<1>2. d \in Seq(Nat) /\ Len(d) = j
  BY <1>1, Split
<1>3. ASSUME NEW i \in 1..j PROVE d[i] = Len(accepted) + i
  <2>1. i \in 1..n
    OBVIOUS
  <2>2. Data(n)[i] = Len(accepted) + i
    BY <2>1 DEF Data
  <2>3. d[i] = Data(n)[i]
    BY <1>1 DEF First
  <2> QED BY <2>2, <2>3
<1> QED BY <1>2, <1>3

\* A call that left j bytes of n and accepts k of them.
LEMMA OrderStep ==
  ASSUME TypeOK, OrderInv, pc # "destroyed", NEW n \in Nat, NEW j \in 0..n, NEW k \in 0..j,
         Redone(Out \o First(Data(n), j), Out'),
         accepted' = accepted \o First(Data(n), k)
  PROVE  OrderInv'
<1> DEFINE d == First(Data(n), j)
           e == First(Data(n), k)
           L == Len(accepted)
<1>1. accepted \in Seq(Nat) /\ L \in Nat /\ k \in 0..n
  BY DEF TypeOK
<1>2. Out \in Seq(Nat)
  BY Append2 DEF TypeOK, Out
<1>3. d \in Seq(Nat) /\ Len(d) = j /\ \A i \in 1..j : d[i] = L + i
  BY <1>1, FirstData
<1>4. e \in Seq(Nat) /\ Len(e) = k /\ \A i \in 1..k : e[i] = L + i
  BY <1>1, FirstData
<1>5. /\ \A i \in 1..L : accepted[i] = i
      /\ Linked(Out) /\ \A b \in 1..L : Contains(Out, b)
  BY DEF OrderInv
<1>6. Redone(Out \o d, Out') /\ accepted' = accepted \o e
  OBVIOUS
<1> HIDE DEF d, e, L
<1>7. Linked(Out \o d)
  <2>1. L = 0 \/ Contains(Out, L)
    BY <1>1, <1>5
  <2> QED BY <1>1, <1>2, <1>3, <1>5, <2>1, LinkedAppend
<1>8. Linked(Out') /\ \A b : Contains(Out \o d, b) => Contains(Out', b)
  BY <1>6, <1>7, RedoneLinked
<1>9. /\ Len(accepted') = L + k
      /\ \A i \in 1..L : accepted'[i] = accepted[i]
      /\ \A i \in 1..k : accepted'[L + i] = e[i]
  <2>1. /\ Len(accepted \o e) = Len(accepted) + Len(e)
        /\ \A i \in 1..Len(accepted) : (accepted \o e)[i] = accepted[i]
        /\ \A i \in 1..Len(e) : (accepted \o e)[Len(accepted) + i] = e[i]
    BY <1>1, <1>4, Elements
  <2> QED BY <1>4, <1>6, <2>1 DEF L
<1>10. ASSUME NEW i \in 1..Len(accepted') PROVE accepted'[i] = i
  <2>1. CASE i <= L
    BY <1>1, <1>5, <1>9, <2>1
  <2>2. CASE i > L
    <3> DEFINE m == i - L
    <3>1. m \in 1..k /\ i = L + m
      BY <1>1, <1>9, <2>2
    <3> HIDE DEF m
    <3> QED BY <1>4, <1>9, <3>1
  <2> QED BY <1>1, <1>9, <2>1, <2>2
<1>11. ASSUME NEW b \in 1..Len(accepted') PROVE Contains(Out \o d, b)
  <2>1. /\ Len(Out) \in Nat /\ Len(Out \o d) = Len(Out) + j
        /\ \A i \in 1..Len(Out) : i \in 1..Len(Out \o d) /\ (Out \o d)[i] = Out[i]
        /\ \A i \in 1..j : Len(Out) + i \in 1..Len(Out \o d) /\ (Out \o d)[Len(Out) + i] = d[i]
    <3>1. /\ Len(Out \o d) = Len(Out) + Len(d)
          /\ \A i \in 1..Len(Out) : i \in 1..Len(Out \o d) /\ (Out \o d)[i] = Out[i]
          /\ \A i \in 1..Len(d) :
                Len(Out) + i \in 1..Len(Out \o d) /\ (Out \o d)[Len(Out) + i] = d[i]
      BY <1>2, <1>3, Elements
    <3>2. Len(Out) \in Nat
      BY <1>2
    <3> QED BY <1>3, <3>1, <3>2
  <2>2. CASE b <= L
    <3>1. b \in 1..L
      BY <1>1, <1>9, <2>2
    <3>2. PICK i \in 1..Len(Out) : Out[i] = b
      BY <1>5, <3>1 DEF Contains
    <3> QED BY <2>1, <3>2 DEF Contains
  <2>3. CASE b > L
    <3> DEFINE m == b - L
    <3>1. m \in 1..j /\ b = L + m
      BY <1>1, <1>9, <2>3
    <3> HIDE DEF m
    <3>2. Len(Out) + m \in 1..Len(Out \o d) /\ (Out \o d)[Len(Out) + m] = b
      BY <1>3, <2>1, <3>1
    <3> QED BY <3>2 DEF Contains
  <2> QED BY <1>1, <1>9, <2>2, <2>3
<1> QED BY <1>8, <1>10, <1>11 DEF OrderInv

\* A call that accepts nothing, whatever it flushed.
LEMMA OrderFlushStep ==
  ASSUME OrderInv, pc # "destroyed", Redone(Out, Out'), accepted' = accepted
  PROVE  OrderInv'
<1>1. Linked(Out') /\ \A b : Contains(Out, b) => Contains(Out', b)
  BY RedoneLinked DEF OrderInv
<1> QED BY <1>1 DEF OrderInv

\* What is in the stream and the buffer after a call is what its outcome says.
LEMMA BecomeOut ==
  ASSUME NEW o, Become(o)
  PROVE  Out' = o.sink \o o.mem
  BY DEF Become, Out

\* The order invariant holds of a new buffer.
LEMMA InitOrder == Init => OrderInv
<1> SUFFICES ASSUME Init PROVE OrderInv
  OBVIOUS
<1>1. accepted = <<>> /\ Out = <<>> /\ Len(<<>>) = 0
  BY EmptySeq, Append2 DEF Init, Out
<1> QED BY <1>1 DEF OrderInv, Linked

\* write keeps the order of the bytes.
LEMMA WriteOrder ==
  ASSUME TypeOK, OrderInv, NEW len \in Lengths, Write(len)
  PROVE  OrderInv'
<1>1. accepted \in Seq(Nat) /\ len \in Nat /\ pc = "idle"
  BY ArgumentsAssumption DEF TypeOK, Write
<1>2. Data(len) \in Seq(Nat) /\ Len(Data(len)) = len
  BY <1>1, DataIsSeq
<1>3. PICK o \in Put(Data(len)) :
        Become(o) /\ Accept(Data(len), IF o.exc = "none" THEN o.n ELSE 0)
  BY DEF Write
<1>4. PICK j \in 0..Len(Data(len)) :
        /\ Redone(Out \o First(Data(len), j), o.sink \o o.mem)
        /\ o.exc = "none" => o.n = j
  BY <1>2, PutLeft DEF Left
<1>5. Redone(Out \o First(Data(len), j), Out')
  BY <1>3, <1>4, BecomeOut
<1> DEFINE k == IF o.exc = "none" THEN o.n ELSE 0
<1>6. k \in 0..j /\ j \in 0..len /\ accepted' = accepted \o First(Data(len), k)
  BY <1>2, <1>3, <1>4 DEF Accept
<1> HIDE DEF k
<1> QED BY <1>1, <1>5, <1>6, OrderStep

\* ensureWrite keeps the order of the bytes.
LEMMA EnsureWriteOrder ==
  ASSUME TypeOK, OrderInv, NEW len \in Lengths, EnsureWrite(len)
  PROVE  OrderInv'
<1>1. accepted \in Seq(Nat) /\ len \in Nat /\ pc = "idle"
  BY ArgumentsAssumption DEF TypeOK, EnsureWrite
<1>2. Data(len) \in Seq(Nat) /\ Len(Data(len)) = len
  BY <1>1, DataIsSeq
<1>3. PICK o \in Put(Data(len)) :
        LET e == IF o.exc = "none" /\ o.n # len THEN "space" ELSE o.exc
        IN  Become(o) /\ Accept(Data(len), IF e = "none" THEN len ELSE 0)
  BY DEF EnsureWrite
<1>4. PICK j \in 0..Len(Data(len)) :
        /\ Redone(Out \o First(Data(len), j), o.sink \o o.mem)
        /\ o.exc = "none" => o.n = j
  BY <1>2, PutLeft DEF Left
<1>5. Redone(Out \o First(Data(len), j), Out')
  BY <1>3, <1>4, BecomeOut
<1> DEFINE k == IF o.exc = "none" /\ o.n = len THEN len ELSE 0
<1>6. k \in 0..j /\ j \in 0..len
  BY <1>1, <1>2, <1>4
<1>7. accepted' = accepted \o First(Data(len), k)
  BY <1>3 DEF Accept
<1> HIDE DEF k
<1> QED BY <1>1, <1>5, <1>6, <1>7, OrderStep

\* writeByte keeps the order of the bytes.
LEMMA WriteByteOrder ==
  ASSUME TypeOK, OrderInv, WriteByte
  PROVE  OrderInv'
<1>1. accepted \in Seq(Nat) /\ 1 \in Nat /\ pc = "idle"
  BY DEF TypeOK, WriteByte
<1>2. Data(1) \in Seq(Nat) /\ Len(Data(1)) = 1
  BY <1>1, DataIsSeq
<1>3. PICK o \in Put(Data(1)) :
        Become(o) /\ Accept(Data(1), IF o.exc = "none" THEN 1 ELSE 0)
  BY DEF WriteByte
<1>4. PICK j \in 0..Len(Data(1)) :
        /\ Redone(Out \o First(Data(1), j), o.sink \o o.mem)
        /\ o.exc = "none" => o.n = j /\ (j # 0 \/ Len(Data(1)) = 0)
  BY <1>2, PutLeft DEF Left
<1>5. Redone(Out \o First(Data(1), j), Out')
  BY <1>3, <1>4, BecomeOut
<1> DEFINE k == IF o.exc = "none" THEN 1 ELSE 0
<1>6. k \in 0..j /\ j \in 0..1
  <2>1. j \in 0..1
    BY <1>2, <1>4
  <2>2. o.exc = "none" => j # 0
    <3> DEFINE l == Len(Data(1))
    <3>1. l = 1
      BY <1>2
    <3>2. o.exc = "none" => j # 0 \/ l = 0
      BY <1>4
    <3> HIDE DEF l
    <3>3. l # 0
      BY <3>1
    <3> QED BY <3>2, <3>3
  <2> QED BY <2>1, <2>2
<1>7. accepted' = accepted \o First(Data(1), k)
  BY <1>3 DEF Accept
<1> HIDE DEF k
<1> QED BY <1>1, <1>5, <1>6, <1>7, OrderStep

\* flush and the flushes of vprintf.
LEMMA FlushBothRedone ==
  ASSUME TypeOK, NEW o \in FlushBoth
  PROVE  /\ Redone(Out, o.sink \o o.mem)
         /\ o.exc = "none" => o.mem = <<>> /\ o.sink = Out
<1>1. /\ alloc \in BOOLEAN /\ mem \in Seq(Nat) /\ fin \in Len(mem)..cap
      /\ (fin # 0 => alloc)
  BY DEF TypeOK
<1>2. \A f \in FlushBuffer(alloc, mem, fin) :
        /\ Redone(Out, f.sink \o f.mem)
        /\ f.exc = "none" => f.mem = <<>> /\ f.sink = Out
  BY <1>1, FlushRedone DEF Out
<1>3. CASE o \in FlushBuffer(alloc, mem, fin)
  BY <1>2, <1>3
<1>4. CASE o \notin FlushBuffer(alloc, mem, fin)
  <2>1. PICK f \in FlushBuffer(alloc, mem, fin) :
          o = [f EXCEPT !.exc = "io", !.failures = @ + 1]
    BY <1>4 DEF FlushBoth
  <2>2. \E a, s, m, e, g, n, x : f = Outcome(a, s, m, e, g, n, x)
    BY DEF FlushBuffer
  <2>3. o.sink = f.sink /\ o.mem = f.mem /\ o.exc = "io"
    BY <2>1, <2>2 DEF Outcome
  <2> QED BY <1>2, <2>3
<1> QED BY <1>3, <1>4

\* flush keeps the order of the bytes.
LEMMA FlushOrder ==
  ASSUME TypeOK, OrderInv, Flush
  PROVE  OrderInv'
<1>1. PICK o \in FlushBoth : Become(o)
  BY DEF Flush
<1>2. Redone(Out, Out') /\ pc # "destroyed" /\ accepted' = accepted
  BY <1>1, FlushBothRedone, BecomeOut DEF Flush
<1> QED BY <1>2, OrderFlushStep

\* A pass of vprintf keeps the order of the bytes.
LEMMA VprintfPassOrder ==
  ASSUME TypeOK, OrderInv, VprintfPass
  PROVE  OrderInv'
<1>1. /\ accepted \in Seq(Nat) /\ mem \in Seq(Nat) /\ sink \in Seq(Nat) /\ todo \in Nat
      /\ pc = "vprintf"
  BY DEF TypeOK, VprintfPass
<1>2. CASE mem' = mem \o Data(todo) /\ Accept(Data(todo), todo) /\ sink' = sink
  <2>1. Data(todo) \in Seq(Nat) /\ Len(Data(todo)) = todo
    BY <1>1, DataIsSeq
  <2>2. First(Data(todo), todo) = Data(todo)
    BY <2>1, FirstAll
  <2>3. Out \in Seq(Nat) /\ Out' = Out \o Data(todo)
    <3>1. sink \o (mem \o Data(todo)) = (sink \o mem) \o Data(todo)
      BY <1>1, <2>1, Append3
    <3> QED BY <1>1, <1>2, <3>1, Append2 DEF Out
  <2>4. Redone(Out \o First(Data(todo), todo), Out')
    <3>1. Out \o Data(todo) \in Seq(Nat)
      BY <2>1, <2>3, Append2
    <3> QED BY <2>2, <2>3, <3>1, RedoneSame
  <2>5. todo \in 0..todo /\ accepted' = accepted \o First(Data(todo), todo)
    BY <1>1, <1>2 DEF Accept
  <2> QED BY <1>1, <2>4, <2>5, OrderStep
<1>3. CASE accepted' = accepted /\ \E o \in FlushBoth : Become(o)
  <2>1. Redone(Out, Out')
    BY <1>3, FlushBothRedone, BecomeOut
  <2> QED BY <1>1, <1>3, <2>1, OrderFlushStep
<1> QED BY <1>2, <1>3 DEF VprintfPass

\* A turn of from_input keeps the order of the bytes.
LEMMA FromInputTurnOrder ==
  ASSUME TypeOK, OrderInv, FromInputTurn
  PROVE  OrderInv'
<1>1. /\ accepted \in Seq(Nat) /\ mem \in Seq(Nat) /\ sink \in Seq(Nat) /\ todo \in Nat
      /\ alloc \in BOOLEAN /\ cap \in Nat /\ fin \in Len(mem)..cap /\ (fin # 0 => alloc)
      /\ pc = "from_input"
  BY DEF TypeOK, FromInputTurn
<1>2. Out \in Seq(Nat)
  BY <1>1, Append2 DEF Out
<1> DEFINE flushes == IF Len(mem) = fin THEN FlushBuffer(alloc, mem, fin)
                      ELSE {Outcome(alloc, sink, mem, fin, failures, 0, "none")}
<1>3. PICK o \in flushes :
        LET n == Least(o.fin - Len(o.mem), todo)
        IN  \/ /\ o.exc = "none"
               /\ Become([o EXCEPT !.mem = @ \o Data(n)])
               /\ Accept(Data(n), n)
            \/ Become(o) /\ accepted' = accepted
  BY DEF FromInputTurn
<1>4. /\ Redone(Out, o.sink \o o.mem)
      /\ o.exc = "none" => o.sink \o o.mem = Out
      /\ o.sink \in Seq(Nat) /\ o.mem \in Seq(Nat) /\ o.fin \in Len(o.mem)..cap
      /\ \E a, s, m, e, g, n, x : o = Outcome(a, s, m, e, g, n, x)
  <2>1. CASE Len(mem) = fin
    <3>1. o \in FlushBuffer(alloc, mem, fin)
      BY <2>1
    <3>2. /\ Redone(Out, o.sink \o o.mem) /\ o.sink \in Seq(Nat) /\ o.mem \in Seq(Nat)
          /\ o.exc = "none" => o.mem = <<>> /\ o.sink = Out
      BY <1>1, <3>1, FlushRedone DEF Out
    <3>3. \E a, s, m, e, g, n, x : o = Outcome(a, s, m, e, g, n, x)
      BY <3>1 DEF FlushBuffer
    <3>4. o.fin \in Len(o.mem)..cap
      <4>1. alloc => cap # 0
        BY DEF TypeOK
      <4> QED BY <1>1, <3>1, <4>1, FlushOK DEF Flushed, OutcomeOK
    <3>5. o.exc = "none" => o.sink \o o.mem = Out
      BY <1>2, <3>2, Append2
    <3> QED BY <3>2, <3>3, <3>4, <3>5
  <2>2. CASE Len(mem) # fin
    <3>1. o = Outcome(alloc, sink, mem, fin, failures, 0, "none")
      BY <2>2
    <3>2. o.sink = sink /\ o.mem = mem /\ o.fin = fin
      BY <3>1 DEF Outcome
    <3>3. o.sink \o o.mem = Out /\ Redone(Out, Out)
      BY <1>2, <3>2, RedoneSame DEF Out
    <3> QED BY <1>1, <3>1, <3>2, <3>3
  <2> QED BY <2>1, <2>2
<1> HIDE DEF flushes
<1> DEFINE n == Least(o.fin - Len(o.mem), todo)
<1>5. CASE o.exc = "none" /\ Become([o EXCEPT !.mem = @ \o Data(n)]) /\ Accept(Data(n), n)
  <2>1. n \in Nat
    <3>1. Len(o.mem) \in Nat /\ o.fin \in Nat /\ o.fin >= Len(o.mem)
      BY <1>1, <1>4
    <3> QED BY <1>1, <3>1 DEF Least
  <2> DEFINE d == Data(n)
             q == [o EXCEPT !.mem = @ \o Data(n)]
  <2>2. d \in Seq(Nat) /\ Len(d) = n
    BY <1>1, <2>1, DataIsSeq
  <2>3. q.sink = o.sink /\ q.mem = o.mem \o d
    BY <1>4 DEF Outcome
  <2>4. Become(q) /\ accepted' = accepted \o First(Data(n), n)
    BY <1>5 DEF Accept
  <2> HIDE DEF q
  <2>5. Out' = o.sink \o (o.mem \o d)
    BY <2>3, <2>4, BecomeOut
  <2>6. First(Data(n), n) = d
    BY <2>2, FirstAll
  <2>7. d = Data(n)
    OBVIOUS
  <2> HIDE DEF n, d
  <2>8. Out' = Out \o d /\ Out \o d \in Seq(Nat)
    <3>1. o.sink \o (o.mem \o d) = (o.sink \o o.mem) \o d
      BY <1>4, <2>2, Append3
    <3> QED BY <1>2, <1>4, <1>5, <2>2, <2>5, <3>1, Append2
  <2>9. Redone(Out \o First(Data(n), n), Out')
    BY <2>6, <2>8, RedoneSame
  <2>10. n \in 0..n /\ pc # "destroyed"
    BY <1>1, <2>1
  <2> QED BY <2>1, <2>4, <2>9, <2>10, OrderStep
<1>6. CASE Become(o) /\ accepted' = accepted
  <2>1. Redone(Out, Out')
    BY <1>4, <1>6, BecomeOut
  <2> QED BY <1>1, <1>6, <2>1, OrderFlushStep
<1> QED BY <1>3, <1>5, <1>6

\* The destructor gives up what it could not flush.
LEMMA DestroyOrder ==
  ASSUME TypeOK, OrderInv, Destroy
  PROVE  OrderInv'
<1>1. /\ mem \in Seq(Nat) /\ sink \in Seq(Nat) /\ alloc \in BOOLEAN
      /\ fin \in Len(mem)..cap /\ (fin # 0 => alloc)
  BY DEF TypeOK
<1>2. mem' = <<>> /\ pc' = "destroyed" /\ accepted' = accepted
  BY DEF Destroy
<1>3. PICK o \in IF attached THEN FlushBuffer(alloc, mem, fin)
                 ELSE {Outcome(alloc, sink, mem, fin, failures, 0, "none")} :
        sink' = o.sink
  BY DEF Destroy
<1>4. Redone(Out, o.sink \o o.mem) /\ o.sink \in Seq(Nat) /\ o.mem \in Seq(Nat)
  <2>1. CASE attached
    <3>1. o \in FlushBuffer(alloc, mem, fin)
      BY <1>3, <2>1
    <3> QED BY <1>1, <3>1, FlushRedone DEF Out
  <2>2. CASE ~attached
    <3>1. o = Outcome(alloc, sink, mem, fin, failures, 0, "none")
      BY <1>3, <2>2
    <3>2. o.sink = sink /\ o.mem = mem
      BY <3>1 DEF Outcome
    <3>3. Out = o.sink \o o.mem /\ Out \in Seq(Nat)
      BY <1>1, <3>2, Append2 DEF Out
    <3> QED BY <1>1, <3>2, <3>3, RedoneSame
  <2> QED BY <2>1, <2>2
<1>5. Linked(o.sink \o o.mem)
  BY <1>4, RedoneLinked DEF OrderInv
<1>6. Out' = o.sink
  BY <1>2, <1>3, <1>4, Append2 DEF Out
<1>7. Linked(Out')
  BY <1>4, <1>5, <1>6, LinkedPrefix
<1> QED BY <1>2, <1>7 DEF OrderInv

\* Steps that move no byte.
LEMMA SameOrder ==
  ASSUME OrderInv, pc # "destroyed", UNCHANGED <<mem, sink, accepted>>
  PROVE  OrderInv'
  BY DEF OrderInv, Out

\* Every step keeps the order of the bytes.
LEMMA NextOrder ==
  ASSUME IInv, OrderInv, [Next]_vars
  PROVE  OrderInv'
<1>0. TypeOK
  BY DEF IInv
<1>1. ASSUME NEW len \in Lengths, Write(len) \/ EnsureWrite(len)
      PROVE  OrderInv'
  BY <1>0, <1>1, WriteOrder, EnsureWriteOrder
<1>2. CASE WriteByte
  BY <1>0, <1>2, WriteByteOrder
<1>3. CASE Flush
  BY <1>0, <1>3, FlushOrder
<1>4. ASSUME NEW len \in Lengths, VprintfCall(len) \/ FromInputCall(len)
      PROVE  OrderInv'
  BY <1>4, SameOrder DEF VprintfCall, FromInputCall
<1>5. CASE VprintfPass
  BY <1>0, <1>5, VprintfPassOrder
<1>6. CASE FromInput
  <2>1. FromInputReturn => pc # "destroyed" /\ UNCHANGED <<mem, sink, accepted>>
    BY DEF FromInputReturn
  <2> QED BY <1>0, <1>6, <2>1, FromInputTurnOrder, SameOrder DEF FromInput
<1>7. ASSUME NEW c \in Capacities, Initbuf(c) \/ SetBufsize(c)
      PROVE  OrderInv'
  BY <1>7, SameOrder DEF Initbuf, SetBufsize
<1>8. CASE Attach
  BY <1>8, SameOrder DEF Attach
<1>9. CASE Destroy
  BY <1>0, <1>9, DestroyOrder
<1>10. CASE UNCHANGED vars
  BY <1>10 DEF vars, OrderInv, Out
<1> QED BY <1>1, <1>2, <1>3, <1>4, <1>5, <1>6, <1>7, <1>8, <1>9, <1>10 DEF Next

\* The order of the bytes, for any stream, failing as often and wherever it may.
THEOREM OrderInvariance == Spec => [](IInv /\ OrderInv)
<1>1. Init => IInv /\ OrderInv
  BY InitIInv, InitOrder
<1>2. IInv /\ OrderInv /\ [Next]_vars => (IInv /\ OrderInv)'
  BY NextIInv, NextOrder
<1> QED BY <1>1, <1>2, PTL DEF Spec

\* No byte overtakes another or is skipped, also by the second attempts of
\* flush, write-behind and write-through after the stream took a part.
THEOREM NoGapsAlways == Spec => []NoGaps
<1>1. OrderInv => NoGaps
  BY DEF OrderInv, NoGaps, Linked, Out
<1> QED BY <1>1, OrderInvariance, PTL

\* A flush that returns has sent every byte ever reported as written, whatever
\* failed before it.
THEOREM FlushedIsSentAlways == Spec => FlushedIsSent
<1>1. ASSUME IInv, OrderInv, Flush, call'.exc = "none", NEW b \in 1..Len(accepted)
      PROVE  \E i \in 1..Len(sink') : sink'[i] = b
  <2>1. PICK o \in FlushBoth : Become(o) /\ Finished("flush", 0, 0, o.exc)
    BY <1>1 DEF Flush
  <2>2. o.exc = "none"
    BY <1>1, <2>1 DEF Finished
  <2>3. sink' = Out
    BY <1>1, <2>1, <2>2, FlushBothRedone DEF Become, IInv
  <2>4. Contains(Out, b)
    BY <1>1 DEF OrderInv, Flush
  <2> QED BY <2>3, <2>4 DEF Contains
<1>2. IInv /\ OrderInv =>
        [(Flush /\ call'.exc = "none") =>
           \A b \in 1..Len(accepted) : \E i \in 1..Len(sink') : sink'[i] = b]_vars
  BY <1>1
<1> QED BY <1>2, OrderInvariance, PTL DEF FlushedIsSent
===============================================================================
