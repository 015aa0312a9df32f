-------------------------- MODULE InputBufferProofs --------------------------
(***************************************************************************)
(* Type correctness of InputBuffer, that the bytes it hands out are the    *)
(* bytes of the stream, each once and in order, that a short result means  *)
(* its end, that getline takes its line and nothing more, and what a throw *)
(* may lose, for all streams, capacities, lengths and clients.             *)
(***************************************************************************)
EXTENDS InputBuffer, SequenceTheorems, TLAPS

(***************************************************************************)
(* Facts about Span.                                                       *)
(***************************************************************************)

\* A span is a sequence of n bytes.
LEMMA SpanIsSeq ==
  ASSUME NEW a \in Nat, NEW n \in Nat
  PROVE  /\ Span(a, n) \in Seq(Nat)
         /\ Len(Span(a, n)) = n
         /\ DOMAIN Span(a, n) = 1..n
         /\ \A i \in 1..n : Span(a, n)[i] = a + i
  BY DEF Span

\* Adjacent spans concatenate to a span.
LEMMA SpanConcat ==
  ASSUME NEW a \in Nat, NEW b \in Nat, NEW c \in Nat
  PROVE  Span(a, b) \o Span(a + b, c) = Span(a, b + c)
<1> DEFINE s == Span(a, b)
           t == Span(a + b, c)
           u == Span(a, b + c)
<1>1. a + b \in Nat /\ b + c \in Nat
  OBVIOUS
<1>2. /\ s \in Seq(Nat) /\ Len(s) = b
      /\ t \in Seq(Nat) /\ Len(t) = c
      /\ u \in Seq(Nat) /\ Len(u) = b + c
  BY <1>1, SpanIsSeq
<1>3. /\ \A i \in 1..b : s[i] = a + i
      /\ \A i \in 1..c : t[i] = a + b + i
      /\ \A i \in 1..(b + c) : u[i] = a + i
  BY DEF Span
<1> HIDE DEF s, t, u
<1>4. /\ s \o t \in Seq(Nat)
      /\ Len(s \o t) = Len(s) + Len(t)
      /\ \A i \in 1..(Len(s) + Len(t)) :
            (s \o t)[i] = IF i <= Len(s) THEN s[i] ELSE t[i - Len(s)]
  BY <1>2, ConcatProperties
<1>5. ASSUME NEW i \in 1..Len(u) PROVE (s \o t)[i] = u[i]
  <2>1. i \in 1..(Len(s) + Len(t)) /\ u[i] = a + i
    BY <1>2, <1>3
  <2>2. CASE i <= b
    BY <1>2, <1>3, <1>4, <2>1, <2>2
  <2>3. CASE i > b
    <3>1. i - b \in 1..c
      BY <1>2, <2>1, <2>3
    <3>2. t[i - b] = a + b + (i - b)
      BY <1>3, <3>1
    <3> QED BY <1>2, <1>4, <2>1, <2>3, <3>2
  <2> QED BY <1>2, <2>2, <2>3
<1>6. s \o t = u
  BY <1>2, <1>4, <1>5, SeqEqual
<1> QED BY <1>6 DEF s, t, u

\* The m elements of a sequence that follow the first i.
Part(s, i, m) == SubSeq(s, i + 1, i + m)

\* A part of a span is a span.
LEMMA SubSpan ==
  ASSUME NEW a \in Nat, NEW n \in Nat, NEW i \in Nat, NEW m \in Nat, i + m <= n
  PROVE  Part(Span(a, n), i, m) = Span(a + i, m)
<1>1. /\ Part(Span(a, n), i, m) \in Seq(Nat)
      /\ Len(Part(Span(a, n), i, m)) = m
      /\ \A k \in 1..m : Part(Span(a, n), i, m)[k] = Span(a, n)[i + k]
  <2>1. \A k \in (i + 1)..(i + m) : Span(a, n)[k] \in Nat
    BY DEF Span
  <2>2. i + 1 \in Int /\ i + m \in Int /\ (i + m) - (i + 1) + 1 = m
    OBVIOUS
  <2> QED BY <2>1, <2>2, SubSeqProperties DEF Part
<1>2. Span(a + i, m) \in Seq(Nat) /\ Len(Span(a + i, m)) = m
  BY a + i \in Nat, SpanIsSeq
<1>3. \A k \in 1..m : Part(Span(a, n), i, m)[k] = Span(a + i, m)[k]
  BY <1>1 DEF Span
<1> QED BY <1>1, <1>2, <1>3, SeqEqual

\* Taking the last byte off a span leaves a span.
LEMMA SpanPrefix ==
  ASSUME NEW k \in Nat, NEW n \in Nat, NEW g \in Seq(Nat), Len(g) = 1,
         Span(0, k) \o g = Span(0, n)
  PROVE  n = k + 1
<1> DEFINE s == Span(0, k)
<1>1. s \in Seq(Nat) /\ Len(s) = k
  BY SpanIsSeq
<1>2. Len(Span(0, n)) = n
  BY SpanIsSeq
<1>3. s \o g = Span(0, n)
  OBVIOUS
<1> HIDE DEF s
<1>4. Len(s \o g) = Len(s) + Len(g)
  BY <1>1, ConcatProperties
<1> QED BY <1>1, <1>2, <1>3, <1>4

(***************************************************************************)
(* The inductive invariant: the memory holds the last Len(mem) bytes the   *)
(* stream returned, and the calls have taken all bytes before m_pos.       *)
(* Control adds what the loops rely on: a '\r' was found in memory of its  *)
(* own, and to_output never hands out more than it was asked for.          *)
(***************************************************************************)
Memory ==
  /\ src \in Seq(Classes)
  /\ avail \in 0..Len(src)
  /\ spos \in 0..avail
  /\ attached \in BOOLEAN
  /\ alloc \in BOOLEAN
  /\ cap \in Nat
  /\ mem \in Seq(Nat)
  /\ pos \in 0..Len(mem)
  /\ consumed \in Seq(Nat)
  /\ Len(mem) <= spos
  /\ mem = Span(spos - Len(mem), Len(mem))
  /\ consumed = Span(0, spos - Len(mem) + pos)
  /\ mem # <<>> => alloc
  /\ alloc => cap # 0
  /\ cap \in Capacities

CallType == [op : AllCalls \cup {"none"}, len : Nat, from : Nat, n : Nat,
             exc : {"none", "eof", "io"}, left : Nat]

Control ==
  /\ pc \in {"idle", "getline", "getline_cr", "to_output"}
  /\ line \in Seq(Nat)
  /\ todo \in Nat
  /\ dropped \in SUBSET Nat
  /\ call \in CallType
  /\ pc = "getline_cr" => alloc
  /\ pc = "to_output" => todo <= call.len

IInv == Memory /\ Control

\* What every outcome of do_fill_and_read and of the inline paths satisfies.
OutcomeOK(o) ==
  /\ o.spos \in spos..avail
  /\ o.mem \in Seq(Nat)
  /\ Len(o.mem) <= o.spos
  /\ o.mem = Span(o.spos - Len(o.mem), Len(o.mem))
  /\ o.pos \in 0..Len(o.mem)
  /\ o.alloc \in BOOLEAN
  /\ alloc => o.alloc
  /\ o.mem # <<>> => o.alloc
  /\ o.alloc => cap # 0
  /\ o.got \in Seq(Nat)
  /\ consumed \o o.got = Span(0, o.spos - Len(o.mem) + o.pos)
  /\ o.exc \in {"none", "eof"}

\* The window is the span of bytes that end at spos.
LEMMA WindowIsSpan ==
  ASSUME IInv
  PROVE  /\ Len(mem) - pos \in Nat
         /\ spos - (Len(mem) - pos) \in Nat
         /\ Window = Part(mem, pos, Len(mem) - pos)
         /\ Window = Span(spos - (Len(mem) - pos), Len(mem) - pos)
         /\ Window \in Seq(Nat) /\ Len(Window) = Len(mem) - pos
         /\ consumed = Span(0, spos - (Len(mem) - pos))
<1>1. /\ Len(mem) \in Nat /\ spos \in Nat /\ pos \in 0..Len(mem)
      /\ Len(mem) <= spos
      /\ mem = Span(spos - Len(mem), Len(mem))
      /\ consumed = Span(0, spos - Len(mem) + pos)
  BY DEF IInv, Memory
<1>2. /\ spos - Len(mem) \in Nat /\ Len(mem) - pos \in Nat
      /\ pos + (Len(mem) - pos) = Len(mem)
      /\ spos - Len(mem) + pos = spos - (Len(mem) - pos)
      /\ spos - (Len(mem) - pos) \in Nat
  BY <1>1
<1>3. Window = Part(mem, pos, Len(mem) - pos)
  BY <1>2 DEF Window, Part
<1>4. Part(Span(spos - Len(mem), Len(mem)), pos, Len(mem) - pos)
        = Span(spos - Len(mem) + pos, Len(mem) - pos)
  BY <1>1, <1>2, SubSpan
<1>5. Window = Span(spos - (Len(mem) - pos), Len(mem) - pos)
  BY <1>1, <1>2, <1>3, <1>4
<1>6. Window \in Seq(Nat) /\ Len(Window) = Len(mem) - pos
  BY <1>2, <1>5, SpanIsSeq
<1> QED BY <1>1, <1>2, <1>3, <1>5, <1>6

\* Taking the first m bytes of the window advances the taken span by m.
LEMMA TakeFromWindow ==
  ASSUME IInv, NEW m \in 0..(Len(mem) - pos)
  PROVE  /\ SubSeq(Window, 1, m) = Part(Window, 0, m)
         /\ SubSeq(Window, 1, m) \in Seq(Nat)
         /\ Len(SubSeq(Window, 1, m)) = m
         /\ consumed \o SubSeq(Window, 1, m) = Span(0, spos - Len(mem) + pos + m)
<1> DEFINE k == Len(mem) - pos
           a == spos - k
<1>1. /\ k \in Nat /\ a \in Nat
      /\ Window = Span(a, k) /\ consumed = Span(0, a)
  BY WindowIsSpan
<1>2. spos - Len(mem) + pos + m = a + m /\ m \in Nat /\ m <= k
  BY DEF IInv, Memory
<1> HIDE DEF k, a
<1>3. a + 0 = a /\ 0 + a = a /\ 0 + m = m
  BY <1>1, <1>2
<1>4. SubSeq(Window, 1, m) = Part(Window, 0, m)
  BY <1>2 DEF Part
<1>5. Part(Span(a, k), 0, m) = Span(a + 0, m)
  BY <1>1, <1>2, <1>3, SubSpan
<1>6. Span(0, a) \o Span(0 + a, m) = Span(0, a + m)
  BY <1>1, <1>2, SpanConcat
<1>7. consumed \o SubSeq(Window, 1, m) = Span(0, spos - Len(mem) + pos + m)
  BY <1>1, <1>2, <1>3, <1>4, <1>5, <1>6
<1>8. SubSeq(Window, 1, m) = Span(a, m)
  BY <1>1, <1>3, <1>4, <1>5
<1>9. Span(a, m) \in Seq(Nat) /\ Len(Span(a, m)) = m
  BY <1>1, <1>2, SpanIsSeq
<1> QED BY <1>4, <1>7, <1>8, <1>9

\* The first m bytes of the window, addressed from m_beg.
LEMMA WindowPrefix ==
  ASSUME IInv, NEW m \in 0..(Len(mem) - pos)
  PROVE  SubSeq(mem, pos + 1, pos + m) = SubSeq(Window, 1, m)
<1>1. /\ Len(mem) \in Nat /\ spos \in Nat /\ pos \in 0..Len(mem)
      /\ spos - Len(mem) \in Nat /\ m \in Nat /\ pos + m <= Len(mem)
      /\ mem = Span(spos - Len(mem), Len(mem))
  BY DEF IInv, Memory
<1> DEFINE k == Len(mem) - pos
           a == spos - k
<1>2. /\ k \in Nat /\ a \in Nat /\ Window = Span(a, k)
  BY WindowIsSpan
<1>3. a + 0 = spos - Len(mem) + pos /\ 0 + m <= k
  BY <1>1
<1> HIDE DEF k, a
<1>4. Part(Span(spos - Len(mem), Len(mem)), pos, m) = Span(spos - Len(mem) + pos, m)
  BY <1>1, SubSpan
<1>5. Part(Span(a, k), 0, m) = Span(a + 0, m)
  BY <1>1, <1>2, <1>3, SubSpan
<1>6. Part(mem, pos, m) = Part(Window, 0, m)
  BY <1>1, <1>2, <1>3, <1>4, <1>5
<1>7. Part(Window, 0, m) = SubSeq(Window, 1, m)
  BY TakeFromWindow
<1> QED BY <1>6, <1>7 DEF Part

\* Taking the window and then n fresh bytes.
LEMMA TakeFresh ==
  ASSUME IInv, NEW n \in Nat
  PROVE  /\ Fresh(n) \in Seq(Nat) /\ Len(Fresh(n)) = n
         /\ Window \o Fresh(n) \in Seq(Nat)
         /\ consumed \o (Window \o Fresh(n)) = Span(0, spos + n)
<1> DEFINE k == Len(mem) - pos
           a == spos - k
<1>1. /\ k \in Nat /\ a \in Nat
      /\ Window = Span(a, k) /\ consumed = Span(0, a)
  BY WindowIsSpan
<1>2. spos = a + k /\ spos \in Nat
  BY <1>1 DEF IInv, Memory
<1> HIDE DEF k, a
<1>3. k + n \in Nat /\ 0 + a = a /\ a + (k + n) = spos + n
  BY <1>1, <1>2
<1>4. Window \o Fresh(n) = Span(a, k + n)
  <2>1. Window = Span(a, k) /\ Fresh(n) = Span(a + k, n)
    BY <1>1, <1>2 DEF Fresh
  <2>2. Span(a, k) \o Span(a + k, n) = Span(a, k + n)
    BY <1>1, SpanConcat
  <2> QED BY <2>1, <2>2
<1>5. Span(0, a) \o Span(0 + a, k + n) = Span(0, a + (k + n))
  <2> DEFINE m == k + n
  <2>1. m \in Nat /\ 0 \in Nat
    BY <1>3
  <2> HIDE DEF m
  <2>2. ASSUME NEW b \in Nat PROVE Span(b, a) \o Span(b + a, m) = Span(b, a + m)
    <3>1. a \in Nat
      BY <1>1
    <3> QED BY <2>1, <2>2, <3>1, SpanConcat
  <2> QED BY <2>1, <2>2 DEF m
<1>6. Fresh(n) \in Seq(Nat) /\ Len(Fresh(n)) = n
  BY <1>2, SpanIsSeq DEF Fresh
<1> QED BY <1>1, <1>3, <1>4, <1>5, <1>6, SpanIsSeq

\* read_min_max does not return more than was asked or than the stream holds.
LEMMA ReadMinMaxBound ==
  ASSUME IInv, NEW min \in Nat, NEW max \in Nat, NEW n \in ReadMinMax(min, max)
  PROVE  n \in Nat /\ n <= max /\ spos + n <= avail /\ spos + n \in Nat
<1>1. spos \in Nat /\ avail \in Nat /\ spos <= avail
  BY DEF IInv, Memory
<1>2. n \in Nat /\ n <= max /\ spos + n <= avail
  BY <1>1 DEF ReadMinMax, Least
<1> QED BY <1>1, <1>2

\* do_fill_and_read keeps the layout and what it copies continues the stream.
LEMMA FillOK ==
  ASSUME IInv, ~StreamThrows,
         NEW len \in Nat, len >= Len(mem) - pos,
         NEW o \in Fill(len)
  PROVE  OutcomeOK(o)
<1> DEFINE n2 == len - (Len(mem) - pos)
<1>1. n2 \in Nat /\ len - (Len(mem) - pos) = n2
  BY WindowIsSpan
<1>2. /\ spos \in Nat /\ avail \in Nat /\ spos <= avail /\ cap \in Nat
      /\ mem \in Seq(Nat) /\ pos \in 0..Len(mem)
      /\ alloc \in BOOLEAN /\ Len(mem) <= spos
      /\ mem = Span(spos - Len(mem), Len(mem))
      /\ consumed = Span(0, spos - Len(mem) + pos)
      /\ consumed \in Seq(Nat)
      /\ mem # <<>> => alloc
      /\ alloc => cap # 0
  BY DEF IInv, Memory
<1>3. consumed \o <<>> = consumed /\ <<>> \in Seq(Nat) /\ Len(<<>>) = 0
  BY <1>2
<1>4. \A min : StoredAtThrow(min) = {}
  BY DEF StoredAtThrow
<1>5. spos - 0 = spos /\ Span(spos, 0) = <<>>
  BY <1>2 DEF Span
<1> HIDE DEF n2
<1>6. CASE ~attached
  <2>1. o = Outcome(spos, mem, pos, alloc, <<>>, "eof")
    BY <1>6 DEF Fill, FillDetached
  <2> QED BY <1>2, <1>3, <2>1 DEF OutcomeOK, Outcome
<1>7. CASE attached /\ ~alloc /\ cap = 0
  <2>1. PICK n \in ReadMinMax(len, len) :
          o = Outcome(spos + n, mem, pos, alloc, Fresh(n),
                      IF n = 0 THEN "eof" ELSE "none")
    BY <1>4, <1>7 DEF Fill, FillUnbuffered
  <2>2. n \in Nat /\ spos + n <= avail
    BY <2>1, ReadMinMaxBound
  <2>3. mem = <<>> /\ pos = 0 /\ Window = <<>>
    BY <1>2, <1>7 DEF Window
  <2>4. Fresh(n) \in Seq(Nat) /\ <<>> \o Fresh(n) = Fresh(n)
    BY <2>2, TakeFresh
  <2>5. consumed \o Fresh(n) = Span(0, spos + n)
    BY <2>2, <2>3, <2>4, TakeFresh
  <2>6. mem = Span((spos + n) - Len(mem), Len(mem)) /\ (spos + n) - Len(mem) + pos = spos + n
    BY <1>2, <1>3, <2>2, <2>3 DEF Span
  <2> QED BY <1>2, <2>1, <2>2, <2>3, <2>4, <2>5, <2>6 DEF OutcomeOK, Outcome
<1>8. CASE attached /\ ~(~alloc /\ cap = 0) /\ n2 >= cap
  <2>1. PICK n \in ReadMinMax(n2, n2) :
          o = Outcome(spos + n, <<>>, 0, TRUE, Window \o Fresh(n),
                      IF n = 0 THEN "eof" ELSE "none")
    BY <1>1, <1>4, <1>8 DEF Fill, FillDirect
  <2>2. n \in Nat /\ spos + n <= avail
    BY <1>1, <2>1, ReadMinMaxBound
  <2>3. <<>> = Span((spos + n) - 0, 0) /\ (spos + n) - 0 + 0 = spos + n
    BY <1>2, <2>2 DEF Span
  <2>4. /\ Window \o Fresh(n) \in Seq(Nat)
        /\ consumed \o (Window \o Fresh(n)) = Span(0, spos + n)
    BY <2>2, TakeFresh
  <2>5. cap # 0
    BY <1>2, <1>8
  <2> DEFINE t == spos + n
             z == <<>>
             g == Window \o Fresh(n)
             e == IF n = 0 THEN "eof" ELSE "none"
  <2>6. /\ t \in spos..avail /\ z \in Seq(Nat) /\ Len(z) = 0 /\ 0 \in 0..Len(z)
        /\ Len(z) <= t /\ z = Span(t - Len(z), Len(z)) /\ z = <<>>
        /\ g \in Seq(Nat) /\ e \in {"none", "eof"}
        /\ consumed \o g = Span(0, t - Len(z) + 0)
    <3>1. t \in spos..avail /\ t \in Nat
      BY <1>2, <2>2
    <3>2. z \in Seq(Nat) /\ Len(z) = 0 /\ z = <<>> /\ 0 \in 0..Len(z)
      BY <1>3
    <3>3. g \in Seq(Nat) /\ consumed \o g = Span(0, t)
      BY <2>4
    <3>6. e \in {"none", "eof"}
      OBVIOUS
    <3>4. z = Span(t - 0, 0)
      BY <2>3
    <3> HIDE DEF t, z, g, e
    <3>5. t - Len(z) = t - 0 /\ Len(z) <= t /\ t - Len(z) + 0 = t
      BY <3>1, <3>2
    <3> QED BY <3>1, <3>2, <3>3, <3>4, <3>5, <3>6
  <2>7. o = Outcome(t, z, 0, TRUE, g, e)
    BY <2>1
  <2> HIDE DEF t, z, g, e
  <2>8. OutcomeOK(Outcome(t, z, 0, TRUE, g, e))
    BY <2>5, <2>6 DEF OutcomeOK, Outcome
  <2> QED BY <2>7, <2>8
<1>9. CASE attached /\ ~(~alloc /\ cap = 0) /\ ~(n2 >= cap)
  <2>1. PICK n \in ReadMinMax(n2, cap) :
          o = IF n = 0
              THEN Outcome(spos, mem, pos, TRUE, <<>>, "eof")
              ELSE Outcome(spos + n, Fresh(n), Least(n, n2), TRUE,
                           Window \o Fresh(Least(n, n2)), "none")
    BY <1>1, <1>4, <1>9 DEF Fill, FillBuffered
  <2>2. n \in Nat /\ spos + n <= avail
    BY <1>1, <1>2, <2>1, ReadMinMaxBound
  <2>3. cap # 0
    BY <1>2, <1>9
  <2>4. CASE n = 0
    BY <1>2, <1>3, <2>1, <2>3, <2>4 DEF OutcomeOK, Outcome
  <2>5. CASE n # 0
    <3>1. PICK k \in 0..n : k = Least(n, n2)
      BY <1>1, <2>2 DEF Least
    <3>2. k \in Nat
      BY <2>2, <3>1
    <3>3. o = Outcome(spos + n, Fresh(n), k, TRUE, Window \o Fresh(k), "none")
      BY <2>1, <2>5, <3>1
    <3>4. /\ Window \o Fresh(k) \in Seq(Nat)
          /\ consumed \o (Window \o Fresh(k)) = Span(0, spos + k)
      BY <3>2, TakeFresh
    <3>5. Fresh(n) \in Seq(Nat) /\ Len(Fresh(n)) = n
      BY <2>2, TakeFresh
    <3>6. /\ (spos + n) - n = spos /\ (spos + n) - n + k = spos + k
          /\ spos + n \in spos..avail /\ n <= spos + n
      BY <1>2, <2>2, <3>2
    <3>7. /\ Fresh(n) = Span((spos + n) - Len(Fresh(n)), Len(Fresh(n)))
          /\ consumed \o (Window \o Fresh(k)) = Span(0, (spos + n) - Len(Fresh(n)) + k)
      BY <3>4, <3>5, <3>6 DEF Fresh
    <3>8. k \in 0..Len(Fresh(n)) /\ Len(Fresh(n)) <= spos + n
      BY <3>1, <3>5, <3>6
    <3> DEFINE t == spos + n
               f == Fresh(n)
               g == Window \o Fresh(k)
    <3>9. /\ t \in spos..avail /\ f \in Seq(Nat) /\ g \in Seq(Nat)
          /\ k \in 0..Len(f) /\ Len(f) <= t
          /\ f = Span(t - Len(f), Len(f))
          /\ consumed \o g = Span(0, t - Len(f) + k)
      <4>1. t \in spos..avail /\ f \in Seq(Nat) /\ g \in Seq(Nat)
        BY <3>4, <3>5, <3>6
      <4>2. k \in 0..Len(f) /\ Len(f) <= t
        BY <3>8
      <4>3. f = Span(t - Len(f), Len(f)) /\ consumed \o g = Span(0, t - Len(f) + k)
        BY <3>7
      <4> HIDE DEF t, f, g
      <4> QED BY <4>1, <4>2, <4>3
    <3> HIDE DEF t, f, g
    <3>10. OutcomeOK(Outcome(t, f, k, TRUE, g, "none"))
      BY <2>3, <3>9 DEF OutcomeOK, Outcome
    <3> QED BY <3>3, <3>10 DEF t, f, g
  <2> QED BY <2>4, <2>5
<1> QED BY <1>6, <1>7, <1>8, <1>9

\* So do the inline paths in front of it.
LEMMA GetOK ==
  ASSUME IInv, ~StreamThrows, NEW len \in Nat, NEW o \in Get(len)
  PROVE  OutcomeOK(o)
<1>1. /\ spos \in Nat /\ avail \in Nat /\ spos <= avail
      /\ mem \in Seq(Nat) /\ Len(mem) \in Nat /\ pos \in 0..Len(mem)
  BY DEF IInv, Memory
<1>2. CASE pos + len <= Len(mem)
  <2>1. o = Outcome(spos, mem, pos + len, alloc, SubSeq(mem, pos + 1, pos + len), "none")
    BY <1>2 DEF Get
  <2>2. SubSeq(mem, pos + 1, pos + len) = SubSeq(Window, 1, len)
    <3>1. len \in 0..(Len(mem) - pos)
      BY <1>1, <1>2
    <3> QED BY <3>1, WindowPrefix
  <2>3. /\ SubSeq(Window, 1, len) \in Seq(Nat)
        /\ consumed \o SubSeq(Window, 1, len) = Span(0, spos - Len(mem) + pos + len)
    <3>1. len \in 0..(Len(mem) - pos)
      BY <1>1, <1>2
    <3> QED BY <3>1, TakeFromWindow
  <2>4. spos - Len(mem) + pos + len = spos - Len(mem) + (pos + len)
    BY <1>1
  <2>5. /\ spos \in spos..avail /\ pos + len \in 0..Len(mem) /\ alloc \in BOOLEAN
        /\ Len(mem) <= spos /\ mem = Span(spos - Len(mem), Len(mem))
        /\ mem # <<>> => alloc
        /\ alloc => cap # 0
    BY <1>1, <1>2 DEF IInv, Memory
  <2> DEFINE q == pos + len
             g == SubSeq(Window, 1, len)
  <2>6. /\ o = Outcome(spos, mem, q, alloc, g, "none")
        /\ q \in 0..Len(mem) /\ g \in Seq(Nat)
        /\ consumed \o g = Span(0, spos - Len(mem) + q)
    BY <2>1, <2>2, <2>3, <2>4, <2>5
  <2> HIDE DEF q, g
  <2> QED BY <1>1, <2>5, <2>6 DEF OutcomeOK, Outcome
<1>3. CASE ~(pos + len <= Len(mem))
  <2>1. len >= Len(mem) - pos
    BY <1>1, <1>3
  <2> QED BY <1>3, <2>1, FillOK DEF Get
<1> QED BY <1>2, <1>3

\* What do_fill_and_read does when one byte is asked of an empty window.
LEMMA FillOne ==
  ASSUME IInv, ~StreamThrows, pos = Len(mem), NEW o \in Fill(1)
  PROVE  /\ o.exc = "none" => Len(o.got) = 1
         /\ o.exc = "none" /\ o.mem # <<>> => o.pos = 1
         /\ o.exc = "none" /\ alloc /\ cap # 1 => o.mem # <<>>
         /\ o.exc # "none" => o.got = <<>>
<1>1. /\ spos \in Nat /\ avail \in Nat /\ cap \in Nat /\ Len(mem) \in Nat
      /\ 1 - (Len(mem) - pos) = 1
      /\ mem # <<>> => alloc
      /\ alloc => cap # 0
  BY DEF IInv, Memory
<1>2. \A min : StoredAtThrow(min) = {}
  BY DEF StoredAtThrow
<1>3. Window \in Seq(Nat) /\ Len(Window) = 0 /\ Window = <<>>
  <2>1. Window \in Seq(Nat) /\ Len(Window) = 0
    BY <1>1, WindowIsSpan
  <2> QED BY <2>1, EmptySeq
<1>4. \A n \in Nat : /\ Fresh(n) \in Seq(Nat) /\ Len(Fresh(n)) = n
                     /\ Window \o Fresh(n) = Fresh(n)
  <2> TAKE n \in Nat
  <2>1. Fresh(n) \in Seq(Nat) /\ Len(Fresh(n)) = n
    BY TakeFresh
  <2> DEFINE f == Fresh(n)
  <2>2. f \in Seq(Nat)
    BY <2>1
  <2> HIDE DEF f
  <2>3. <<>> \o f = f
    BY <2>2
  <2> QED BY <1>3, <2>1, <2>3 DEF f
<1>5. CASE ~attached
  <2>1. o = Outcome(spos, mem, pos, alloc, <<>>, "eof")
    BY <1>5 DEF Fill, FillDetached
  <2> QED BY <2>1 DEF Outcome
<1>6. CASE attached /\ ~alloc /\ cap = 0
  <2>1. PICK n \in ReadMinMax(1, 1) :
          o = Outcome(spos + n, mem, pos, alloc, Fresh(n),
                      IF n = 0 THEN "eof" ELSE "none")
    BY <1>2, <1>6 DEF Fill, FillUnbuffered
  <2>2. n \in Nat /\ n <= 1
    BY <2>1, ReadMinMaxBound
  <2>4. /\ o.mem = mem /\ o.got = Fresh(n) /\ Len(Fresh(n)) = n
        /\ o.exc = "none" => n = 1
    BY <1>4, <2>1, <2>2 DEF Outcome
  <2>3. mem = <<>> /\ (n = 0 => Fresh(n) = <<>>)
    BY <1>1, <1>4, <1>6, <2>2, EmptySeq
  <2>5. o.exc # "none" => n = 0
    BY <2>1 DEF Outcome
  <2> QED BY <2>3, <1>6, <2>4, <2>5
<1>7. CASE attached /\ ~(~alloc /\ cap = 0) /\ 1 >= cap
  <2>1. PICK n \in ReadMinMax(1, 1) :
          o = Outcome(spos + n, <<>>, 0, TRUE, Window \o Fresh(n),
                      IF n = 0 THEN "eof" ELSE "none")
    <3>1. Fill(1) = FillDirect(1)
      BY <1>1, <1>7 DEF Fill
    <3> QED BY <1>2, <3>1 DEF FillDirect
  <2>2. n \in Nat /\ n <= 1
    BY <2>1, ReadMinMaxBound
  <2>3. Window \o Fresh(n) = Fresh(n) /\ Len(Fresh(n)) = n
    BY <1>4, <2>2
  <2>4. /\ o.mem = <<>> /\ o.got = Fresh(n)
        /\ o.exc = "none" => n = 1
    BY <2>1, <2>2, <2>3 DEF Outcome
  <2>5. cap = 1 \/ cap = 0
    BY <1>1, <1>7
  <2>6. o.exc # "none" => o.got = <<>>
    <3>1. o.exc # "none" => n = 0
      BY <2>1 DEF Outcome
    <3>2. n = 0 => Fresh(n) = <<>>
      BY <1>4, <2>2, EmptySeq
    <3> QED BY <2>4, <3>1, <3>2
  <2> QED BY <1>1, <2>3, <2>4, <2>5, <2>6
<1>8. CASE attached /\ ~(~alloc /\ cap = 0) /\ ~(1 >= cap)
  <2>1. PICK n \in ReadMinMax(1, cap) :
          o = IF n = 0
              THEN Outcome(spos, mem, pos, TRUE, <<>>, "eof")
              ELSE Outcome(spos + n, Fresh(n), Least(n, 1), TRUE,
                           Window \o Fresh(Least(n, 1)), "none")
    BY <1>1, <1>2, <1>8 DEF Fill, FillBuffered
  <2>2. n \in Nat
    <3>1. 1 \in Nat
      OBVIOUS
    <3> QED BY <1>1, <2>1, <3>1, ReadMinMaxBound
  <2>3. CASE n = 0
    BY <2>1, <2>3 DEF Outcome
  <2>4. CASE n # 0
    <3>1. Least(n, 1) = 1
      BY <2>2, <2>4 DEF Least
    <3>2. o = Outcome(spos + n, Fresh(n), 1, TRUE, Fresh(1), "none")
      BY <1>4, <2>1, <2>4, <3>1
    <3>3. Fresh(n) # <<>> /\ Len(Fresh(1)) = 1
      BY <1>4, <2>2, <2>4
    <3> QED BY <3>2, <3>3 DEF Outcome
  <2> QED BY <2>3, <2>4
<1> QED BY <1>5, <1>6, <1>7, <1>8

(***************************************************************************)
(* The invariant holds initially and is preserved.                         *)
(***************************************************************************)
LEMMA InitIInv == Init => IInv
<1> SUFFICES ASSUME Init PROVE IInv
  OBVIOUS
<1>1. /\ src \in Seq(Classes) /\ avail \in 0..Len(src) /\ cap \in Nat
      /\ Len(src) \in Nat
  BY SourcesAssumption, ArgumentsAssumption, ClientAssumption DEF Init
<1>2. Span(0, 0) = <<>>
  BY DEF Span
<1>3. Memory
  <2>1. /\ spos = 0 /\ pos = 0 /\ mem = <<>> /\ consumed = <<>> /\ alloc = FALSE
        /\ attached = TRUE /\ cap \in Capacities
    BY DEF Init
  <2>2. /\ Len(mem) = 0 /\ spos - Len(mem) = 0 /\ spos - Len(mem) + pos = 0
        /\ mem \in Seq(Nat) /\ consumed \in Seq(Nat)
        /\ pos \in 0..Len(mem) /\ spos \in 0..avail /\ Len(mem) <= spos
    <3>1. Len(mem) = 0 /\ mem \in Seq(Nat) /\ consumed \in Seq(Nat)
      BY <2>1
    <3>2. avail \in Nat
      BY <1>1
    <3>3. spos = 0 /\ pos = 0
      BY <2>1
    <3>4. spos - Len(mem) = 0 /\ spos - Len(mem) + pos = 0 /\ Len(mem) <= spos
      BY <3>1, <3>3
    <3>5. pos \in 0..Len(mem) /\ spos \in 0..avail
      BY <3>1, <3>2, <3>3
    <3> QED BY <3>1, <3>4, <3>5
  <2>3. mem = Span(spos - Len(mem), Len(mem)) /\ consumed = Span(0, spos - Len(mem) + pos)
    BY <1>2, <2>1, <2>2
  <2> QED BY <1>1, <2>1, <2>2, <2>3 DEF Memory
<1>4. Control
  BY <1>1 DEF Init, Control, CallType
<1> QED BY <1>3, <1>4 DEF IInv

\* The part Memory is the work of an outcome whose bytes the call has taken.
LEMMA MemoryAfter ==
  ASSUME IInv, NEW o, OutcomeOK(o), Become(o), UNCHANGED streamVars,
         consumed' = consumed \o o.got
  PROVE  Memory'
<1>1. consumed' \in Seq(Nat)
  <2>1. consumed \in Seq(Nat) /\ o.got \in Seq(Nat)
    BY DEF IInv, Memory, OutcomeOK
  <2> QED BY <2>1
<1>2. /\ spos' \in 0..avail /\ mem' \in Seq(Nat)
      /\ pos' \in 0..Len(mem') /\ alloc' \in BOOLEAN /\ Len(mem') <= spos'
      /\ mem' = Span(spos' - Len(mem'), Len(mem'))
      /\ consumed' = Span(0, spos' - Len(mem') + pos')
      /\ mem' # <<>> => alloc'
      /\ alloc' => cap # 0
  <2>1. spos \in Nat /\ avail \in Nat
    BY DEF IInv, Memory
  <2>2. spos' = o.spos /\ mem' = o.mem /\ pos' = o.pos /\ alloc' = o.alloc
    BY DEF Become
  <2>3. o.spos \in 0..avail
    BY <2>1 DEF OutcomeOK
  <2> QED BY <2>2, <2>3 DEF OutcomeOK
<1> QED BY <1>1, <1>2 DEF IInv, Memory, Become, streamVars

\* The call record a finished call leaves is well formed.
LEMMA OutcallType ==
  ASSUME IInv, Memory', UNCHANGED <<streamVars, attached>>,
         NEW op \in AllCalls, NEW len \in Nat, NEW from \in Nat, NEW n \in Nat,
         NEW e \in {"none", "eof", "io"}
  PROVE  Outcall(op, len, from, n, e) \in CallType
<1>1. avail - spos' \in Nat
  <2>1. avail' = avail /\ avail \in 0..Len(src) /\ spos' \in 0..avail'
    BY DEF IInv, Memory, streamVars
  <2>2. src \in Seq(Classes)
    BY DEF IInv, Memory
  <2>3. avail \in Nat
    BY <2>1, <2>2
  <2>4. spos' \in 0..avail
    BY <2>1
  <2>5. \A a \in Nat : \A b \in 0..a : a - b \in Nat
    OBVIOUS
  <2> QED BY <2>3, <2>4, <2>5
<1> QED BY <1>1 DEF Outcall, CallType

\* Taking bytes keeps the history variables what they are.
LEMMA TakeType ==
  ASSUME IInv, NEW g \in Seq(Nat), NEW e, Take(g, e)
  PROVE  consumed' = consumed \o g /\ dropped' \in SUBSET Nat
<1>1. BytesOf(g) \in SUBSET Nat
  BY DEF BytesOf
<1> QED BY <1>1 DEF Take, IInv, Control

\* One byte handed back after the '\r' of getline stays in the window.
LEMMA PushBack ==
  ASSUME IInv, NEW o, OutcomeOK(o), Len(o.got) = 1
  PROVE  o.spos - Len(o.mem) + o.pos = (spos - Len(mem) + pos) + 1
<1> DEFINE k == spos - Len(mem) + pos
           n == o.spos - Len(o.mem) + o.pos
           g == o.got
<1>1. k \in Nat /\ consumed = Span(0, k)
  BY DEF IInv, Memory
<1>2. /\ n \in Nat /\ g \in Seq(Nat) /\ Len(g) = 1
      /\ consumed \o g = Span(0, n)
  <2>1. o.spos \in Nat /\ Len(o.mem) \in Nat /\ Len(o.mem) <= o.spos /\ o.pos \in Nat
    BY DEF IInv, Memory, OutcomeOK
  <2> QED BY <2>1 DEF OutcomeOK
<1> HIDE DEF k, n, g
<1>3. n = k + 1
  BY <1>1, <1>2, SpanPrefix
<1> QED BY <1>3 DEF k, n

\* A call that ends leaves the control variables well formed.
LEMMA DoneControl ==
  ASSUME IInv, Memory', UNCHANGED <<streamVars, attached>>,
         line' \in Seq(Nat), todo' \in Nat, dropped' \in SUBSET Nat, pc' = "idle",
         NEW op \in AllCalls, NEW len \in Nat, NEW from \in Nat, NEW n \in Nat,
         NEW e \in {"none", "eof", "io"}, call' = Outcall(op, len, from, n, e)
  PROVE  Control'
<1>1. call' \in CallType
  BY OutcallType
<1> QED BY <1>1 DEF Control

\* Bytes taken from the window, the rest of the memory left as it is.
LEMMA MemoryTake ==
  ASSUME IInv, NEW m \in 0..(Len(mem) - pos), pos' = pos + m,
         consumed' = consumed \o SubSeq(Window, 1, m),
         UNCHANGED <<streamVars, spos, attached, alloc, cap, mem>>
  PROVE  Memory'
<1>1. /\ Len(mem) \in Nat /\ spos \in Nat /\ pos \in 0..Len(mem) /\ Len(mem) <= spos
      /\ consumed \in Seq(Nat)
  BY DEF IInv, Memory
<1>2. SubSeq(Window, 1, m) \in Seq(Nat)
      /\ consumed' = Span(0, spos - Len(mem) + pos + m)
  BY TakeFromWindow
<1>3. consumed' \in Seq(Nat)
  <2> DEFINE g == SubSeq(Window, 1, m)
  <2>1. g \in Seq(Nat) /\ consumed' = consumed \o g
    BY <1>2
  <2>2. consumed \in Seq(Nat)
    BY <1>1
  <2> HIDE DEF g
  <2>3. consumed \o g \in Seq(Nat)
    BY <2>1, <2>2, ConcatProperties
  <2> QED BY <2>1, <2>3
<1>4. pos' \in 0..Len(mem) /\ spos - Len(mem) + pos + m = spos - Len(mem) + pos'
  BY <1>1
<1> QED BY <1>2, <1>3, <1>4 DEF IInv, Memory, streamVars

\* The whole window taken.
LEMMA TakeWindow ==
  ASSUME IInv
  PROVE  /\ consumed \o Window \in Seq(Nat)
         /\ consumed \o Window = Span(0, spos)
         /\ SubSeq(Window, 1, Len(mem) - pos) = Window
<1>1. /\ Len(mem) - pos \in Nat /\ spos - (Len(mem) - pos) \in Nat
      /\ Window \in Seq(Nat) /\ Len(Window) = Len(mem) - pos
      /\ Window = Span(spos - (Len(mem) - pos), Len(mem) - pos)
      /\ consumed = Span(0, spos - (Len(mem) - pos))
  BY WindowIsSpan
<1>2. spos \in Nat
  BY DEF IInv, Memory
<1> DEFINE k == Len(mem) - pos
           a == spos - k
<1>3. k \in Nat /\ a \in Nat /\ 0 + a = a /\ a + k = spos
  BY <1>1, <1>2
<1>4. Window = Span(a, k) /\ consumed = Span(0, a) /\ Len(Window) = k
  BY <1>1
<1> HIDE DEF k, a
<1>5. Span(0, a) \o Span(0 + a, k) = Span(0, a + k)
  BY <1>3, SpanConcat
<1>6. consumed \o Window = Span(0, spos)
  BY <1>3, <1>4, <1>5
<1>7. Span(0, spos) \in Seq(Nat)
  BY <1>2, SpanIsSeq
<1>8. SubSeq(Window, 1, k) = Window
  <2> DEFINE w == Window
  <2>1. w \in Seq(Nat) /\ Len(w) = k
    BY <1>1, <1>4
  <2> HIDE DEF w
  <2>2. SubSeq(w, 1, Len(w)) = w
    BY <2>1
  <2> QED BY <2>1, <2>2 DEF w
<1> QED BY <1>6, <1>7, <1>8 DEF k

\* A stream that gains a byte leaves the buffer and the loop under way as they were.
LEMMA GrowIInv == IInv /\ Grow => IInv'
<1> SUFFICES ASSUME IInv, Grow PROVE IInv'
  OBVIOUS
<1>1. avail' \in 0..Len(src) /\ spos \in 0..avail'
  <2>1. src \in Seq(Classes) /\ avail \in 0..Len(src) /\ spos \in 0..avail
    BY DEF IInv, Memory
  <2>2. Len(src) \in Nat /\ avail < Len(src) /\ avail' = avail + 1
    BY <2>1 DEF Grow
  <2> QED BY <2>1, <2>2
<1>2. UNCHANGED <<src, bufVars, pc, line, todo, consumed, dropped, call>>
  BY DEF Grow
<1>3. Memory'
  BY <1>1, <1>2 DEF IInv, Memory, bufVars
<1>4. Control'
  BY <1>2 DEF IInv, Control, CallType, bufVars
<1> QED BY <1>3, <1>4 DEF IInv

\* read, ensureRead, readByte and getByte.
LEMMA ReadIInv ==
  ASSUME IInv, ~StreamThrows, NEW len \in Nat, NEW o \in Get(len),
         Become(o), UNCHANGED <<streamVars, line, todo>>,
         NEW e \in {"none", "eof"}, Take(o.got, e),
         NEW op \in AllCalls, NEW n \in Nat, Finished(op, len, n, e)
  PROVE  IInv'
<1>1. OutcomeOK(o)
  BY GetOK
<1>2. o.got \in Seq(Nat)
  BY <1>1 DEF OutcomeOK
<1>3. consumed' = consumed \o o.got /\ dropped' \in SUBSET Nat
  BY <1>2, TakeType
<1>4. Memory'
  BY <1>1, <1>3, MemoryAfter
<1>5. /\ pc' = "idle" /\ call' = Outcall(op, len, Len(consumed), n, e)
      /\ Len(consumed) \in Nat /\ UNCHANGED attached
      /\ line' \in Seq(Nat) /\ todo' \in Nat
  BY DEF Finished, Become, IInv, Memory, Control
<1>6. Control'
  BY <1>3, <1>4, <1>5, DoneControl
<1> QED BY <1>4, <1>6 DEF IInv

\* eof: the byte of test_eof is pushed back, or was handed over and is gone.
LEMMA EofIInv ==
  ASSUME IInv, ~StreamThrows, Eof
  PROVE  IInv'
<1>1. UNCHANGED <<streamVars, line, todo>> /\ 0 \in Nat /\ 1 \in Nat
  BY DEF Eof
<1>2. /\ line \in Seq(Nat) /\ todo \in Nat /\ dropped \in SUBSET Nat
      /\ Len(consumed) \in Nat
  BY DEF IInv, Memory, Control
<1>3. CASE /\ pos < Len(mem) /\ UNCHANGED <<bufVars, consumed, dropped>>
           /\ Finished("eof", 0, 0, "none")
  <2>1. Memory'
    BY <1>1, <1>3 DEF IInv, Memory, bufVars, streamVars
  <2>2. /\ pc' = "idle" /\ call' = Outcall("eof", 0, Len(consumed), 0, "none")
        /\ line' = line /\ todo' = todo /\ dropped' = dropped
        /\ attached' = attached /\ "eof" \in AllCalls
    BY <1>1, <1>3 DEF Finished, bufVars, AllCalls
  <2>3. Control'
    BY <1>1, <1>2, <2>1, <2>2, DoneControl
  <2> QED BY <2>1, <2>3 DEF IInv
<1>4. ASSUME pos = Len(mem), NEW o \in Fill(1),
             Become([o EXCEPT !.pos = IF o.exc = "none" THEN 0 ELSE o.pos]),
             Take(IF o.mem = <<>> THEN o.got ELSE <<>>, "peeked"),
             Finished("eof", 0, IF o.exc = "eof" THEN 1 ELSE 0,
                      IF o.exc = "io" THEN "io" ELSE "none")
      PROVE  IInv'
  <2>1. OutcomeOK(o)
    <3>1. 1 >= Len(mem) - pos
      BY <1>4 DEF IInv, Memory
    <3> QED BY <1>1, <1>4, <3>1, FillOK
  <2> DEFINE g == IF o.mem = <<>> THEN o.got ELSE <<>>
             p == IF o.exc = "none" THEN 0 ELSE o.pos
             r == [o EXCEPT !.pos = p, !.got = g]
  <2>2. g \in Seq(Nat)
    BY <2>1 DEF OutcomeOK
  <2>3. /\ r.spos = o.spos /\ r.mem = o.mem /\ r.pos = p /\ r.alloc = o.alloc
        /\ r.got = g /\ r.exc = o.exc
    BY <1>4 DEF Fill, FillDetached, FillUnbuffered, FillDirect, FillBuffered, Outcome
  <2>4. OutcomeOK(r)
    <3>1. p \in 0..Len(o.mem)
      BY <2>1 DEF OutcomeOK
    <3>2. consumed \o g = Span(0, o.spos - Len(o.mem) + p)
      <4>1. CASE o.mem = <<>>
        <5>1. o.pos = 0 /\ p = 0
          BY <2>1, <4>1 DEF OutcomeOK
        <5> QED BY <2>1, <4>1, <5>1 DEF OutcomeOK
      <4>2. CASE o.mem # <<>> /\ o.exc = "none"
        <5>1. o.pos = 1 /\ Len(o.got) = 1
          BY <1>4, <4>2, FillOne
        <5>2. o.spos - Len(o.mem) + o.pos = (spos - Len(mem) + pos) + 1
          BY <2>1, <5>1, PushBack
        <5>3. /\ o.spos \in Nat /\ Len(o.mem) \in Nat /\ spos \in Nat
              /\ Len(mem) \in Nat /\ pos \in Nat
          <6>1. o.spos \in Nat /\ Len(o.mem) \in Nat
            BY <2>1 DEF OutcomeOK
          <6>2. spos \in Nat /\ Len(mem) \in Nat /\ pos \in Nat
            BY DEF IInv, Memory
          <6> QED BY <6>1, <6>2
        <5>4. o.spos - Len(o.mem) + 0 = spos - Len(mem) + pos
          BY <5>1, <5>2, <5>3
        <5>5. consumed \o <<>> = Span(0, spos - Len(mem) + pos)
          BY DEF IInv, Memory
        <5> QED BY <4>2, <5>4, <5>5
      <4>3. CASE o.mem # <<>> /\ o.exc # "none"
        <5>1. o.got = <<>>
          BY <1>4, <4>3, FillOne
        <5> QED BY <2>1, <4>3, <5>1 DEF OutcomeOK
      <4> QED BY <4>1, <4>2, <4>3
    <3> HIDE DEF g, p, r
    <3> QED BY <2>1, <2>2, <2>3, <3>1, <3>2 DEF OutcomeOK
  <2>5. Become(r)
    BY <1>4, <2>3 DEF Become, Fill, FillDetached, FillUnbuffered, FillDirect,
                      FillBuffered, Outcome
  <2>6. consumed' = consumed \o r.got /\ dropped' \in SUBSET Nat
    <3>1. Take(g, "peeked")
      BY <1>4
    <3> HIDE DEF g, r
    <3> QED BY <2>2, <2>3, <3>1, TakeType
  <2> HIDE DEF r, g, p
  <2>7. Memory'
    BY <1>1, <2>4, <2>5, <2>6, MemoryAfter
  <2> DEFINE n == IF o.exc = "eof" THEN 1 ELSE 0
             e == IF o.exc = "io" THEN "io" ELSE "none"
  <2>8. n \in Nat /\ e \in {"none", "eof", "io"} /\ "eof" \in AllCalls
    BY DEF AllCalls
  <2>9. pc' = "idle" /\ call' = Outcall("eof", 0, Len(consumed), n, e)
    BY <1>4 DEF Finished
  <2>10. attached' = attached /\ line' = line /\ todo' = todo
    BY <1>1, <2>5 DEF Become
  <2> HIDE DEF n, e
  <2>11. Control'
    BY <1>1, <1>2, <2>6, <2>7, <2>8, <2>9, <2>10, DoneControl
  <2> QED BY <2>7, <2>11 DEF IInv
<1> QED BY <1>3, <1>4 DEF Eof

\* getline.
LEMMA GetlineCallIInv ==
  ASSUME IInv, NEW maxlen \in Nat, GetlineCall(maxlen)
  PROVE  IInv'
<1>1. avail - spos \in Nat /\ Len(consumed) \in Nat
  <2>1. avail \in Nat /\ spos \in 0..avail /\ consumed \in Seq(Nat)
    BY DEF IInv, Memory
  <2> QED BY <2>1
<1>2. Memory'
  BY DEF GetlineCall, IInv, Memory, streamVars, bufVars
<1>3. call' \in CallType
  BY <1>1 DEF GetlineCall, CallType, AllCalls
<1>4. Control'
  BY <1>3 DEF GetlineCall, IInv, Control
<1> QED BY <1>2, <1>4 DEF IInv

\* What holds when a turn of getline takes m bytes off the window, whatever
\* part of them goes to the line.
LEMMA GetlineTakes ==
  ASSUME IInv, pc = "getline", NEW m \in 0..(Len(mem) - pos), NEW k \in 0..m,
         pos' = pos + m, line' = line \o SubSeq(Window, 1, k),
         consumed' = consumed \o SubSeq(Window, 1, m),
         UNCHANGED <<streamVars, spos, attached, alloc, cap, mem, todo, dropped>>
  PROVE  /\ Memory'
         /\ line' \in Seq(Nat) /\ Len(line') \in Nat
         /\ todo' \in Nat /\ dropped' \in SUBSET Nat
<1>1. Memory'
  BY MemoryTake
<1>2. k \in 0..(Len(mem) - pos)
  BY DEF IInv, Memory
<1>3. line' \in Seq(Nat) /\ Len(line') \in Nat
  <2> DEFINE g == SubSeq(Window, 1, k)
  <2>1. g \in Seq(Nat) /\ line' = line \o g
    BY <1>2, TakeFromWindow
  <2>2. line \in Seq(Nat)
    BY DEF IInv, Control
  <2> HIDE DEF g
  <2>3. line \o g \in Seq(Nat)
    BY <2>1, <2>2, ConcatProperties
  <2>4. line' \in Seq(Nat)
    BY <2>1, <2>3
  <2> QED BY <2>4
<1>4. todo' \in Nat /\ dropped' \in SUBSET Nat
  BY DEF IInv, Control
<1> QED BY <1>1, <1>3, <1>4

\* getline's return at maxlen: the bytes taken are the first ones of the window.
LEMMA GetlineMaxlenIInv ==
  ASSUME IInv, GetlineMaxlen
  PROVE  IInv'
<1>1. PICK n \in 0..Len(Window) :
        /\ line' = line \o SubSeq(Window, 1, n)
        /\ consumed' = consumed \o SubSeq(Window, 1, n)
        /\ pos' = pos + n
        /\ GetlineDone(line', "none")
  BY DEF GetlineMaxlen
<1>2. /\ pc = "getline"
      /\ UNCHANGED <<streamVars, spos, attached, alloc, cap, mem, todo, dropped>>
  BY DEF GetlineMaxlen
<1>3. n \in 0..(Len(mem) - pos) /\ n \in 0..n
  BY <1>1, WindowIsSpan
<1>4. /\ Memory' /\ line' \in Seq(Nat) /\ Len(line') \in Nat
      /\ todo' \in Nat /\ dropped' \in SUBSET Nat
  BY <1>1, <1>2, <1>3, GetlineTakes
<1>5. /\ pc' = "idle"
      /\ call' = Outcall("getline", call.len, call.from, Len(line'), "none")
      /\ call.len \in Nat /\ call.from \in Nat /\ "getline" \in AllCalls
  BY <1>1 DEF GetlineDone, IInv, Control, CallType, AllCalls
<1>6. Control'
  BY <1>2, <1>4, <1>5, DoneControl
<1> QED BY <1>4, <1>6 DEF IInv

\* getline's return at a terminator: it takes the line and the terminator and no more.
LEMMA GetlineTerminatorIInv ==
  ASSUME IInv, GetlineTerminator
  PROVE  IInv'
<1>1. PICK n \in 0..(Len(Window) - 1) :
        /\ line' = line \o SubSeq(Window, 1, n)
        /\ consumed' = consumed \o SubSeq(Window, 1, n + 1)
        /\ pos' = pos + n + 1
        /\ IF src[Window[n + 1]] = "lf" THEN GetlineDone(line', "none")
                                        ELSE pc' = "getline_cr" /\ UNCHANGED call
  BY DEF GetlineTerminator
<1>2. /\ pc = "getline"
      /\ UNCHANGED <<streamVars, spos, attached, alloc, cap, mem, todo, dropped>>
  BY DEF GetlineTerminator
<1>3. /\ n + 1 \in 0..(Len(mem) - pos) /\ n \in 0..(n + 1)
      /\ pos + n + 1 = pos + (n + 1) /\ Len(mem) # 0
  <2>1. Len(Window) = Len(mem) - pos /\ Len(mem) \in Nat /\ pos \in 0..Len(mem)
    BY WindowIsSpan DEF IInv, Memory
  <2> QED BY <1>1, <2>1
<1>4. /\ Memory' /\ line' \in Seq(Nat) /\ Len(line') \in Nat
      /\ todo' \in Nat /\ dropped' \in SUBSET Nat
  <2>1. pos' = pos + (n + 1)
    BY <1>1, <1>3
  <2> QED BY <1>1, <1>2, <1>3, <2>1, GetlineTakes
<1>5. alloc'
  <2>1. mem # <<>>
    BY <1>3
  <2> QED BY <1>2, <2>1 DEF IInv, Memory
<1>6. CASE GetlineDone(line', "none")
  <2>1. /\ pc' = "idle"
        /\ call' = Outcall("getline", call.len, call.from, Len(line'), "none")
        /\ call.len \in Nat /\ call.from \in Nat /\ "getline" \in AllCalls
    BY <1>6 DEF GetlineDone, IInv, Control, CallType, AllCalls
  <2>2. Control'
    BY <1>2, <1>4, <2>1, DoneControl
  <2> QED BY <1>4, <2>2 DEF IInv
<1>7. CASE pc' = "getline_cr" /\ UNCHANGED call
  <2>1. Control'
    BY <1>4, <1>5, <1>7 DEF IInv, Control, CallType
  <2> QED BY <1>4, <2>1 DEF IInv
<1> QED BY <1>1, <1>6, <1>7

\* getline's look behind a CR: an LF is taken, another byte put back; a throw drops the line.
LEMMA GetlineCrIInv ==
  ASSUME IInv, ~StreamThrows, 1 \notin Capacities, GetlineCr
  PROVE  IInv'
<1>1. PICK o \in Get(1) :
        LET lf == o.exc = "none" /\ src[o.got[1]] = "lf"
        IN  /\ Become([o EXCEPT !.pos = IF o.exc = "none" /\ ~lf THEN @ - 1 ELSE @])
            /\ consumed' = IF lf THEN consumed \o o.got ELSE consumed
            /\ dropped' = IF o.exc = "none" THEN dropped ELSE dropped \cup BytesOf(line)
            /\ GetlineDone(line, o.exc)
  BY DEF GetlineCr
<1>2. pc = "getline_cr" /\ UNCHANGED <<streamVars, line, todo>>
  BY DEF GetlineCr
<1>3. OutcomeOK(o)
  BY 1 \in Nat, GetOK
<1>4. alloc /\ cap # 1 /\ pos \in 0..Len(mem) /\ Len(mem) \in Nat /\ mem \in Seq(Nat)
  BY <1>2 DEF IInv, Memory, Control
\* A byte was got: it is the one before the new m_pos, so it can be put back.
<1>5. ASSUME o.exc = "none"
      PROVE  Len(o.got) = 1 /\ o.pos >= 1
  <2>1. CASE pos + 1 <= Len(mem)
    <3>1. o = Outcome(spos, mem, pos + 1, alloc, SubSeq(mem, pos + 1, pos + 1), "none")
      BY <2>1 DEF Get
    <3>2. Len(SubSeq(mem, pos + 1, pos + 1)) = 1
      <4>1. 1 \in 0..(Len(mem) - pos)
        BY <1>4, <2>1
      <4>2. SubSeq(mem, pos + 1, pos + 1) = SubSeq(Window, 1, 1)
        BY <4>1, WindowPrefix
      <4> QED BY <4>1, <4>2, TakeFromWindow
    <3>3. pos + 1 >= 1
      BY <1>4
    <3> QED BY <3>1, <3>2, <3>3 DEF Outcome
  <2>2. CASE ~(pos + 1 <= Len(mem))
    <3>1. pos = Len(mem) /\ o \in Fill(1)
      BY <1>4, <2>2 DEF Get
    <3>2. /\ Len(o.got) = 1
          /\ o.mem # <<>> => o.pos = 1
          /\ o.mem # <<>>
      BY <1>4, <1>5, <3>1, FillOne
    <3> QED BY <3>2
  <2> QED BY <2>1, <2>2
<1> DEFINE lf == o.exc = "none" /\ src[o.got[1]] = "lf"
           back == o.exc = "none" /\ ~lf
           g == IF lf THEN o.got ELSE <<>>
           p == IF back THEN o.pos - 1 ELSE o.pos
           r == [o EXCEPT !.pos = p, !.got = g]
<1>6. /\ r.spos = o.spos /\ r.mem = o.mem /\ r.pos = p /\ r.alloc = o.alloc
      /\ r.got = g /\ r.exc = o.exc
  BY <1>1 DEF Get, Fill, FillDetached, FillUnbuffered, FillDirect, FillBuffered, Outcome
<1>7. consumed \in Seq(Nat) /\ consumed \o <<>> = consumed /\ <<>> \in Seq(Nat)
      /\ consumed = Span(0, spos - Len(mem) + pos)
  BY DEF IInv, Memory
<1>8. ASSUME o.exc = "none" PROVE Memory' /\ dropped' \in SUBSET Nat
  <2>1. p \in 0..Len(o.mem) /\ g \in Seq(Nat)
    <3>1. /\ o.pos \in Nat /\ Len(o.mem) \in Nat /\ o.pos <= Len(o.mem) /\ o.pos >= 1
          /\ o.got \in Seq(Nat)
      BY <1>3, <1>5, <1>8 DEF OutcomeOK
    <3>2. p \in 0..Len(o.mem)
      BY <3>1
    <3> QED BY <1>7, <3>1, <3>2
  <2>2. consumed \o g = Span(0, o.spos - Len(o.mem) + p)
    <3>1. CASE lf
      BY <1>3, <3>1 DEF OutcomeOK
    <3>2. CASE ~lf
      <4>1. o.spos - Len(o.mem) + o.pos = (spos - Len(mem) + pos) + 1
        BY <1>3, <1>5, <1>8, PushBack
      <4>2. /\ o.spos \in Nat /\ Len(o.mem) \in Nat /\ spos \in Nat
            /\ Len(mem) \in Nat /\ pos \in Nat /\ o.pos \in Nat
        <5>1. o.spos \in Nat /\ Len(o.mem) \in Nat /\ o.pos \in Nat
          BY <1>3 DEF OutcomeOK
        <5>2. spos \in Nat /\ Len(mem) \in Nat /\ pos \in Nat
          BY DEF IInv, Memory
        <5> QED BY <5>1, <5>2
      <4>3. o.spos - Len(o.mem) + (o.pos - 1) = spos - Len(mem) + pos
        BY <4>1, <4>2, SMTT(20)
      <4>4. g = <<>> /\ p = o.pos - 1
        BY <1>8, <3>2
      <4> QED BY <1>7, <4>3, <4>4
    <3> QED BY <3>1, <3>2
  <2>3. OutcomeOK(r)
    <3> HIDE DEF lf, back, g, p, r
    <3> QED BY <1>3, <1>6, <2>1, <2>2 DEF OutcomeOK
  <2>4. Become(r)
    BY <1>1, <1>6, <1>8 DEF Become, Get, Fill, FillDetached, FillUnbuffered, FillDirect,
                           FillBuffered, Outcome
  <2>5. consumed' = consumed \o r.got /\ dropped' = dropped
    <3>1. consumed' = consumed \o g /\ dropped' = dropped
      BY <1>1, <1>7, <1>8
    <3> HIDE DEF lf, back, g, p, r
    <3> QED BY <1>6, <3>1
  <2> HIDE DEF lf, back, g, p, r
  <2>6. Memory'
    BY <1>2, <2>3, <2>4, <2>5, MemoryAfter
  <2>7. dropped \in SUBSET Nat
    BY DEF IInv, Control
  <2> QED BY <2>5, <2>6, <2>7
\* None was got: nothing was stored, nothing is put back.
<1>9. ASSUME o.exc # "none" PROVE Memory' /\ dropped' \in SUBSET Nat
  <2>1. o.got = <<>>
    <3>1. CASE pos + 1 <= Len(mem)
      BY <1>9, <3>1 DEF Get, Outcome
    <3>2. CASE ~(pos + 1 <= Len(mem))
      <4>1. pos = Len(mem) /\ o \in Fill(1)
        BY <1>4, <3>2 DEF Get
      <4> QED BY <1>9, <4>1, FillOne
    <3> QED BY <3>1, <3>2
  <2>2. Become(o)
    BY <1>1, <1>9, <1>6 DEF Become
  <2>3. consumed' = consumed \o o.got
    BY <1>1, <1>7, <1>9, <2>1
  <2>4. Memory'
    BY <1>2, <1>3, <2>2, <2>3, MemoryAfter
  <2>5. dropped' \in SUBSET Nat
    <3>1. BytesOf(line) \in SUBSET Nat
      BY DEF BytesOf, IInv, Control
    <3> QED BY <1>1, <1>9, <3>1 DEF IInv, Control
  <2> QED BY <2>4, <2>5
<1>10. Memory' /\ dropped' \in SUBSET Nat
  BY <1>8, <1>9
<1>11. /\ pc' = "idle"
       /\ call' = Outcall("getline", call.len, call.from, Len(line), o.exc)
       /\ UNCHANGED attached
  BY <1>1 DEF GetlineDone, Become
<1>12. /\ call.len \in Nat /\ call.from \in Nat /\ Len(line) \in Nat
       /\ line' \in Seq(Nat) /\ todo' \in Nat
       /\ o.exc \in {"none", "eof", "io"} /\ "getline" \in AllCalls
  BY <1>2, <1>3 DEF IInv, Control, CallType, OutcomeOK, AllCalls
<1>13. Control'
  BY <1>2, <1>10, <1>11, <1>12, DoneControl
<1> QED BY <1>10, <1>13 DEF IInv

\* getline on a buffer of capacity 0 throws, and no byte moves.
LEMMA GetlineUnbufferedIInv ==
  ASSUME IInv, GetlineUnbuffered
  PROVE  IInv'
<1>1. /\ UNCHANGED <<streamVars, bufVars, line, todo, consumed, dropped>>
      /\ pc' = "idle"
      /\ call' = Outcall("getline", call.len, call.from, Len(line), "io")
  BY DEF GetlineUnbuffered, GetlineDone
<1>2. Memory'
  BY <1>1 DEF IInv, Memory, bufVars, streamVars
<1>3. /\ call.len \in Nat /\ call.from \in Nat /\ Len(line) \in Nat
      /\ line' \in Seq(Nat) /\ todo' \in Nat /\ dropped' \in SUBSET Nat
      /\ UNCHANGED attached /\ "getline" \in AllCalls
  BY <1>1 DEF IInv, Control, CallType, AllCalls, bufVars
<1>4. Control'
  BY <1>1, <1>2, <1>3, DoneControl
<1> QED BY <1>2, <1>4 DEF IInv

\* initbuf inside getline allocates the empty buffer: nothing prefetched, nothing lost.
LEMMA GetlineInitbufIInv ==
  ASSUME IInv, GetlineInitbuf
  PROVE  IInv'
<1>1. Memory'
  BY DEF GetlineInitbuf, IInv, Memory, streamVars
<1>2. Control'
  BY DEF GetlineInitbuf, IInv, Control, CallType
<1> QED BY <1>1, <1>2 DEF IInv

\* getline's refill: the whole window joins the line, then the stream is read into the buffer.
LEMMA GetlineRefillIInv ==
  ASSUME IInv, ~StreamThrows, GetlineRefill
  PROVE  IInv'
<1> DEFINE l == line \o Window
<1>1. /\ pc = "getline" /\ alloc /\ line' = l
      /\ consumed' = consumed \o Window
      /\ UNCHANGED <<streamVars, attached, alloc, cap, todo>>
  BY DEF GetlineRefill
<1>2. l \in Seq(Nat) /\ Len(l) \in Nat
  <2>1. Window \in Seq(Nat)
    BY WindowIsSpan
  <2>2. line \in Seq(Nat)
    BY DEF IInv, Control
  <2>3. l \in Seq(Nat)
    BY <2>1, <2>2, ConcatProperties
  <2> HIDE DEF l
  <2> QED BY <2>3
<1>3. consumed' \in Seq(Nat) /\ consumed' = Span(0, spos)
  BY <1>1, TakeWindow
<1>4. /\ spos \in Nat /\ avail \in Nat /\ spos <= avail /\ cap \in Nat
      /\ Len(mem) \in Nat /\ Len(mem) <= spos
  BY DEF IInv, Memory
<1>5. /\ line' \in Seq(Nat) /\ todo' \in Nat /\ call.len \in Nat /\ call.from \in Nat
      /\ "getline" \in AllCalls /\ dropped \in SUBSET Nat
  BY <1>1, <1>2 DEF IInv, Control, CallType, AllCalls
<1> HIDE DEF l
\* The buffer was refilled and the scan goes on.
<1>6. ASSUME NEW n \in ReadMinMax(1, cap) \ {0},
             spos' = spos + n, mem' = Fresh(n), pos' = 0,
             UNCHANGED <<dropped, pc, call>>
      PROVE  IInv'
  <2>1. n \in Nat /\ spos + n <= avail /\ spos + n \in Nat
    BY <1>4, <1>6, 1 \in Nat, ReadMinMaxBound
  <2>2. Fresh(n) \in Seq(Nat) /\ Len(Fresh(n)) = n /\ Fresh(n) = Span(spos, n)
    BY <2>1, TakeFresh DEF Fresh
  <2>3. spos' - Len(mem') = spos /\ spos + 0 = spos
    BY <1>4, <1>6, <2>1, <2>2
  <2>4. /\ spos' \in 0..avail /\ mem' \in Seq(Nat) /\ pos' \in 0..Len(mem')
        /\ Len(mem') <= spos'
    BY <1>4, <1>6, <2>1, <2>2
  <2>5. /\ mem' = Span(spos' - Len(mem'), Len(mem'))
        /\ consumed' = Span(0, spos' - Len(mem') + pos')
    BY <1>3, <1>6, <2>2, <2>3
  <2>6. Memory'
    BY <1>1, <1>3, <2>4, <2>5 DEF IInv, Memory, streamVars
  <2>7. Control'
    BY <1>1, <1>5, <1>6 DEF IInv, Control, CallType
  <2> QED BY <2>6, <2>7 DEF IInv
\* The stream is at its end.
<1>7. ASSUME UNCHANGED <<spos, dropped>>,
             mem' = IF l = <<>> THEN mem ELSE <<>>,
             pos' = Len(mem'),
             GetlineDone(l, IF l = <<>> THEN "eof" ELSE "none")
      PROVE  IInv'
  <2>1. /\ mem' \in Seq(Nat) /\ Len(mem') \in Nat /\ Len(mem') <= spos'
        /\ mem' = Span(spos' - Len(mem'), Len(mem'))
        /\ mem' # <<>> => alloc
    <3>1. CASE l = <<>>
      BY <1>4, <1>7, <3>1 DEF IInv, Memory
    <3>2. CASE l # <<>>
      <4>1. mem' = <<>> /\ mem' \in Seq(Nat) /\ Len(mem') = 0
        BY <1>7, <3>2
      <4>2. Span(spos' - Len(mem'), 0) = <<>>
        BY DEF Span
      <4> QED BY <1>4, <1>7, <4>1, <4>2
    <3> QED BY <3>1, <3>2
  <2>2. spos' - Len(mem') + pos' = spos /\ pos' \in 0..Len(mem')
    BY <1>4, <1>7, <2>1
  <2>3. consumed' = Span(0, spos' - Len(mem') + pos')
    BY <1>3, <2>2
  <2>4. Memory'
    BY <1>1, <1>3, <1>7, <2>1, <2>2, <2>3 DEF IInv, Memory, streamVars
  <2> DEFINE e == IF l = <<>> THEN "eof" ELSE "none"
  <2>5. /\ pc' = "idle" /\ call' = Outcall("getline", call.len, call.from, Len(l), e)
        /\ e \in {"none", "eof", "io"} /\ dropped' \in SUBSET Nat
    BY <1>5, <1>7 DEF GetlineDone
  <2> HIDE DEF e
  <2>6. Control'
    BY <1>1, <1>2, <1>5, <2>4, <2>5, DoneControl
  <2> QED BY <2>4, <2>6 DEF IInv
\* There is no stream.
<1>8. ASSUME ~attached, UNCHANGED <<spos, mem>>, pos' = Len(mem),
             dropped' = dropped \cup BytesOf(l),
             GetlineDone(l, IF attached THEN "io" ELSE "eof")
      PROVE  IInv'
  <2>1. pos' \in 0..Len(mem') /\ spos' - Len(mem') + pos' = spos
    BY <1>4, <1>8
  <2>2. consumed' = Span(0, spos' - Len(mem') + pos')
    BY <1>3, <2>1
  <2>3. Memory'
    BY <1>1, <1>3, <1>8, <2>1, <2>2 DEF IInv, Memory, streamVars
  <2>4. dropped' \in SUBSET Nat
    <3>1. BytesOf(l) \in SUBSET Nat
      BY <1>2 DEF BytesOf
    <3> QED BY <1>5, <1>8, <3>1
  <2>5. pc' = "idle" /\ call' = Outcall("getline", call.len, call.from, Len(l), "eof")
    BY <1>8 DEF GetlineDone
  <2>6. Control'
    BY <1>1, <1>2, <1>5, <2>3, <2>4, <2>5, DoneControl
  <2> QED BY <2>3, <2>6 DEF IInv
<1>9. \/ \E n \in IF attached THEN ReadMinMax(1, cap) \ {0} ELSE {} :
            /\ spos' = spos + n
            /\ mem' = Fresh(n)
            /\ pos' = 0
            /\ UNCHANGED <<dropped, pc, call>>
      \/ /\ UNCHANGED <<spos, dropped>>
         /\ mem' = IF l = <<>> THEN mem ELSE <<>>
         /\ pos' = Len(mem')
         /\ GetlineDone(l, IF l = <<>> THEN "eof" ELSE "none")
      \/ /\ ~attached \/ StreamThrows
         /\ UNCHANGED <<spos, mem>>
         /\ pos' = Len(mem)
         /\ dropped' = dropped \cup BytesOf(l)
         /\ GetlineDone(l, IF attached THEN "io" ELSE "eof")
  BY DEF GetlineRefill, l
<1> QED BY <1>6, <1>7, <1>8, <1>9

\* Every step of getline, from the four cases above and the refill.
LEMMA GetlineIInv ==
  ASSUME IInv, ~StreamThrows, 1 \notin Capacities, Getline
  PROVE  IInv'
BY GetlineMaxlenIInv, GetlineTerminatorIInv, GetlineCrIInv, GetlineUnbufferedIInv,
   GetlineInitbufIInv, GetlineRefillIInv DEF Getline

\* to_output.
LEMMA ToOutputCallIInv ==
  ASSUME IInv, NEW len \in Nat, ToOutputCall(len)
  PROVE  IInv'
<1>1. avail - spos \in Nat /\ Len(consumed) \in Nat
  <2>1. avail \in Nat /\ spos \in 0..avail /\ consumed \in Seq(Nat)
    BY DEF IInv, Memory
  <2> QED BY <2>1
<1>2. Memory'
  BY DEF ToOutputCall, IInv, Memory, streamVars, bufVars
<1>3. call' \in CallType /\ call'.len = len
  BY <1>1 DEF ToOutputCall, CallType, AllCalls
<1>4. Control'
  BY <1>3 DEF ToOutputCall, IInv, Control
<1> QED BY <1>2, <1>4 DEF IInv

\* A to_output that ends has handed out what it was asked for, less todo.
LEMMA ToOutputDoneControl ==
  ASSUME IInv, pc = "to_output", Memory', UNCHANGED <<streamVars, attached, line>>,
         todo' \in 0..todo, dropped' \in SUBSET Nat,
         NEW e \in {"none", "eof", "io"}, ToOutputDone(e)
  PROVE  Control'
<1>1. /\ call.len \in Nat /\ call.from \in Nat /\ todo <= call.len /\ todo \in Nat
      /\ line' \in Seq(Nat) /\ "to_output" \in AllCalls
  BY DEF IInv, Control, CallType, AllCalls
<1>2. todo' \in Nat /\ call.len - todo' \in Nat
  BY <1>1
<1>3. pc' = "idle" /\ call' = Outcall("to_output", call.len, call.from, call.len - todo', e)
  BY DEF ToOutputDone
<1> QED BY <1>1, <1>2, <1>3, DoneControl

\* to_output's refill of an empty buffer, and its end when the stream has no more.
LEMMA ToOutputFillIInv ==
  ASSUME IInv, ~StreamThrows, ToOutputFill
  PROVE  IInv'
<1>1. PICK o \in Fill(Len(mem)) :
        /\ Become(o)
        /\ Take(o.got, "skipped")
        /\ todo' = todo
        /\ IF o.exc = "none" THEN UNCHANGED <<pc, call>> ELSE ToOutputDone(o.exc)
  BY DEF ToOutputFill
<1>2. pc = "to_output" /\ UNCHANGED <<streamVars, line>>
  BY DEF ToOutputFill
<1>3. OutcomeOK(o)
  <2>1. Len(mem) \in Nat /\ Len(mem) >= Len(mem) - pos
    BY DEF IInv, Memory
  <2> QED BY <2>1, FillOK
<1>4. consumed' = consumed \o o.got /\ dropped' \in SUBSET Nat
  <2>1. o.got \in Seq(Nat)
    BY <1>3 DEF OutcomeOK
  <2> QED BY <1>1, <2>1, TakeType
<1>5. Memory'
  BY <1>1, <1>2, <1>3, <1>4, MemoryAfter
<1>6. todo' \in 0..todo /\ UNCHANGED attached /\ o.exc \in {"none", "eof", "io"}
  BY <1>1, <1>3 DEF IInv, Control, Become, OutcomeOK
<1>7. CASE o.exc = "none"
  <2>1. Control'
    BY <1>1, <1>2, <1>4, <1>7 DEF IInv, Control, CallType
  <2> QED BY <1>5, <2>1 DEF IInv
<1>8. CASE o.exc # "none"
  <2>1. Control'
    BY <1>1, <1>2, <1>4, <1>5, <1>6, <1>8, ToOutputDoneControl
  <2> QED BY <1>5, <2>1 DEF IInv
<1> QED BY <1>7, <1>8

\* to_output's write of the window: the bytes passed on are the next ones of the stream.
LEMMA ToOutputWriteIInv ==
  ASSUME IInv, ToOutputWrite
  PROVE  IInv'
<1> DEFINE n == Least(Len(mem) - pos, todo)
<1>1. /\ pc = "to_output"
      /\ pos' = pos + n /\ todo' = todo - n
      /\ Take(SubSeq(Window, 1, n), "none")
      /\ UNCHANGED <<streamVars, spos, attached, alloc, cap, mem, pc, line, call>>
  BY DEF ToOutputWrite
<1>2. n \in 0..(Len(mem) - pos) /\ todo - n \in Nat /\ todo - n <= todo
  BY DEF Least, IInv, Memory, Control
<1> HIDE DEF n
<1>3. SubSeq(Window, 1, n) \in Seq(Nat)
  BY <1>2, TakeFromWindow
<1>4. consumed' = consumed \o SubSeq(Window, 1, n) /\ dropped' \in SUBSET Nat
  BY <1>1, <1>3, TakeType
<1>5. Memory'
  BY <1>1, <1>2, <1>4, MemoryTake
<1>6. todo' \in Nat /\ todo' <= call'.len
  BY <1>1, <1>2 DEF IInv, Control, CallType
<1>7. Control'
  BY <1>1, <1>4, <1>6 DEF IInv, Control, CallType
<1> QED BY <1>5, <1>7 DEF IInv

\* to_output's return once the length asked for was passed on.
LEMMA ToOutputReturnIInv ==
  ASSUME IInv, ToOutputReturn
  PROVE  IInv'
<1>1. /\ pc = "to_output" /\ ToOutputDone("none")
      /\ UNCHANGED <<streamVars, bufVars, line, todo, consumed, dropped>>
  BY DEF ToOutputReturn
<1>2. Memory'
  BY <1>1 DEF IInv, Memory, bufVars, streamVars
<1>3. todo' \in 0..todo /\ dropped' \in SUBSET Nat /\ UNCHANGED attached
  BY <1>1 DEF IInv, Control, bufVars
<1>4. Control'
  BY <1>1, <1>2, <1>3, ToOutputDoneControl
<1> QED BY <1>2, <1>4 DEF IInv

\* initbuf, set_bufsize, resetbuf and attach.
LEMMA InitbufIInv ==
  ASSUME IInv, NEW c \in Capacities, Initbuf(c)
  PROVE  IInv'
<1>1. c \in Nat /\ c # 0
  BY ArgumentsAssumption DEF Initbuf
<1>2. Memory'
  BY <1>1 DEF Initbuf, IInv, Memory, streamVars
<1>3. Control'
  BY DEF Initbuf, IInv, Control, CallType
<1> QED BY <1>2, <1>3 DEF IInv

\* set_bufsize changes the capacity alone.
LEMMA SetBufsizeIInv ==
  ASSUME IInv, NEW c \in Capacities, SetBufsize(c)
  PROVE  IInv'
<1>1. c \in Nat /\ (alloc => c # 0)
  BY ArgumentsAssumption DEF SetBufsize
<1>2. Memory'
  BY <1>1 DEF SetBufsize, IInv, Memory, streamVars
<1>3. Control'
  BY DEF SetBufsize, IInv, Control, CallType
<1> QED BY <1>2, <1>3 DEF IInv

\* resetbuf drops what was prefetched, and the history counts it.
LEMMA ResetbufIInv ==
  ASSUME IInv, Resetbuf
  PROVE  IInv'
<1>1. /\ UNCHANGED <<streamVars, spos, attached, alloc, cap, line, todo>>
      /\ mem' = <<>> /\ pos' = 0 /\ Take(Window, "reset")
      /\ pc' = "idle" /\ call' = Outcall("resetbuf", 0, Len(consumed), 0, "none")
  BY DEF Resetbuf, Finished
<1>2. consumed' = consumed \o Window /\ dropped' \in SUBSET Nat
  BY <1>1, WindowIsSpan, TakeType
<1>3. consumed' \in Seq(Nat) /\ consumed' = Span(0, spos)
  BY <1>2, TakeWindow
<1>4. spos \in Nat /\ spos' = spos
  BY <1>1 DEF IInv, Memory
<1>5. mem' \in Seq(Nat) /\ Len(mem') = 0 /\ pos' \in 0..Len(mem')
  BY <1>1
<1>6. Span(spos' - Len(mem'), 0) = <<>>
  BY DEF Span
<1>7. spos' - Len(mem') + pos' = spos /\ Len(mem') <= spos'
  BY <1>1, <1>4, <1>5
<1>8. Memory'
  BY <1>1, <1>3, <1>4, <1>5, <1>6, <1>7 DEF IInv, Memory, streamVars
<1>9. Len(consumed) \in Nat /\ "resetbuf" \in AllCalls /\ line' \in Seq(Nat) /\ todo' \in Nat
  BY <1>1 DEF IInv, Memory, Control, AllCalls
<1>10. Control'
  BY <1>1, <1>2, <1>8, <1>9, DoneControl
<1> QED BY <1>8, <1>10 DEF IInv

\* attach and detach leave the buffer as it is.
LEMMA AttachIInv ==
  ASSUME IInv, Attach
  PROVE  IInv'
<1>1. Memory'
  BY DEF Attach, IInv, Memory, streamVars
<1>2. Control'
  BY DEF Attach, IInv, Control, CallType
<1> QED BY <1>1, <1>2 DEF IInv

\* ensureRead: the bytes it returns or throws away follow the ones consumed before.
LEMMA EnsureReadIInv ==
  ASSUME IInv, ~StreamThrows, NEW len \in Nat, EnsureRead(len)
  PROVE  IInv'
<1>1. PICK o \in Get(len) :
        LET e == IF o.exc = "none" /\ Len(o.got) # len THEN "eof" ELSE o.exc
        IN  /\ Become(o)
            /\ Take(o.got, e)
            /\ Finished("ensureRead", len, IF e = "none" THEN len ELSE 0, e)
  BY DEF EnsureRead
<1> DEFINE e == IF o.exc = "none" /\ Len(o.got) # len THEN "eof" ELSE o.exc
           n == IF e = "none" THEN len ELSE 0
<1>2. o.exc \in {"none", "eof"}
  BY GetOK DEF OutcomeOK
<1>3. e \in {"none", "eof"} /\ n \in Nat /\ "ensureRead" \in AllCalls
  BY <1>2 DEF AllCalls
<1>4. /\ Become(o) /\ Take(o.got, e) /\ Finished("ensureRead", len, n, e)
      /\ UNCHANGED <<streamVars, line, todo>>
  BY <1>1 DEF EnsureRead
<1> HIDE DEF e, n
<1> QED BY <1>3, <1>4, ReadIInv

\* read: the bytes it returns follow the ones consumed before.
LEMMA ReadCallIInv ==
  ASSUME IInv, ~StreamThrows, NEW len \in Nat, Read(len)
  PROVE  IInv'
<1>1. PICK o \in Get(len) :
        /\ Become(o)
        /\ Take(o.got, o.exc)
        /\ Finished("read", len, IF o.exc = "none" THEN Len(o.got) ELSE 0, o.exc)
  BY DEF Read
<1> DEFINE n == IF o.exc = "none" THEN Len(o.got) ELSE 0
<1>2. o.exc \in {"none", "eof"} /\ o.got \in Seq(Nat)
  BY GetOK DEF OutcomeOK
<1>3. n \in Nat /\ "read" \in AllCalls
  BY <1>2 DEF AllCalls
<1>4. Finished("read", len, n, o.exc) /\ UNCHANGED <<streamVars, line, todo>>
  BY <1>1 DEF Read
<1> HIDE DEF n
<1> QED BY <1>1, <1>2, <1>3, <1>4, ReadIInv

\* readByte and getByte take one byte, the next of the stream, or signal the end.
LEMMA OneByteIInv ==
  ASSUME IInv, ~StreamThrows, NEW op \in {"readByte", "getByte"}, OneByte(op)
  PROVE  IInv'
<1>1. PICK o \in Get(1) :
        /\ Become(o)
        /\ Take(o.got, o.exc)
        /\ Finished(op, 1, IF o.exc = "none" THEN 1 ELSE 0, o.exc)
  BY DEF OneByte
<1> DEFINE n == IF o.exc = "none" THEN 1 ELSE 0
<1>2. o.exc \in {"none", "eof"} /\ 1 \in Nat
  BY 1 \in Nat, GetOK DEF OutcomeOK
<1>3. n \in Nat /\ op \in AllCalls
  BY DEF AllCalls
<1>4. Finished(op, 1, n, o.exc) /\ UNCHANGED <<streamVars, line, todo>>
  BY <1>1 DEF OneByte
<1> HIDE DEF n
<1> QED BY <1>1, <1>2, <1>3, <1>4, ReadIInv

\* Every step of an InputBuffer whose stream does not fail, and whose buffer
\* has more than one byte when it has one, preserves the invariant.
LEMMA NextIInv ==
  ASSUME IInv, ~StreamThrows, 1 \notin Capacities, [Next]_vars
  PROVE  IInv'
<1>1. CASE Grow
  BY <1>1, GrowIInv
<1>2. ASSUME NEW len \in Lengths, Read(len) \/ EnsureRead(len)
      PROVE  IInv'
  BY <1>2, ArgumentsAssumption, ReadCallIInv, EnsureReadIInv
<1>3. CASE OneByte("readByte") \/ OneByte("getByte")
  BY <1>3, OneByteIInv
<1>4. CASE Eof
  BY <1>4, EofIInv
<1>5. ASSUME NEW maxlen \in Lengths, GetlineCall(maxlen)
      PROVE  IInv'
  BY <1>5, ArgumentsAssumption, GetlineCallIInv
<1>6. CASE Getline
  BY <1>6, GetlineIInv
<1>7. ASSUME NEW len \in Lengths, ToOutputCall(len)
      PROVE  IInv'
  BY <1>7, ArgumentsAssumption, ToOutputCallIInv
<1>8. CASE ToOutput
  BY <1>8, ToOutputFillIInv, ToOutputWriteIInv, ToOutputReturnIInv DEF ToOutput
<1>9. ASSUME NEW c \in Capacities, Initbuf(c) \/ SetBufsize(c)
      PROVE  IInv'
  BY <1>9, InitbufIInv, SetBufsizeIInv
<1>10. CASE Resetbuf
  BY <1>10, ResetbufIInv
<1>11. CASE Attach
  BY <1>11, AttachIInv
<1>12. CASE UNCHANGED vars
  <2>1. Memory'
    BY <1>12 DEF vars, IInv, Memory
  <2>2. Control'
    BY <1>12 DEF vars, IInv, Control, CallType
  <2> QED BY <2>1, <2>2 DEF IInv
<1> QED BY <1>1, <1>2, <1>3, <1>4, <1>5, <1>6, <1>7, <1>8, <1>9, <1>10, <1>11, <1>12
        DEF Next

\* What the invariant says of the properties of InputBuffer.
LEMMA IInvImplies == IInv => TypeOK /\ Contiguous
<1> SUFFICES ASSUME IInv PROVE TypeOK /\ Contiguous
  OBVIOUS
<1>1. TypeOK
  BY DEF IInv, Memory, Control, CallType, TypeOK
<1>2. Contiguous
  BY TakeWindow DEF Contiguous
<1> QED BY <1>1, <1>2

\* The invariant of an InputBuffer with a stream that does not throw, whose
\* buffer is never a single byte (there getline has nowhere to put back the
\* byte after '\r': m_pos would fall below m_beg).
THEOREM Invariance ==
  ASSUME ~StreamThrows, 1 \notin Capacities
  PROVE  Spec => []IInv
<1>1. Init => IInv
  BY InitIInv
<1>2. IInv /\ [Next]_vars => IInv'
  BY NextIInv
<1> QED BY <1>1, <1>2, PTL DEF Spec

\* Every member of an InputBuffer keeps its type and 0 <= m_pos <= m_end, and
\* the stream position stays within the stream, whatever is called.
THEOREM TypeCorrect ==
  ASSUME ~StreamThrows, 1 \notin Capacities
  PROVE  Spec => []TypeOK
<1>1. Spec => []IInv
  BY Invariance
<1>2. IInv => TypeOK
  BY IInvImplies
<1> QED BY <1>1, <1>2, PTL

\* The bytes taken by calls, followed by the prefetched ones, are the bytes
\* the stream has returned, each once and in order, for every stream, buffer
\* size, length and sequence of calls.
THEOREM ContiguousAlways ==
  ASSUME ~StreamThrows, 1 \notin Capacities
  PROVE  Spec => []Contiguous
<1>1. Spec => []IInv
  BY Invariance
<1>2. IInv => Contiguous
  BY IInvImplies
<1> QED BY <1>1, <1>2, PTL

(***************************************************************************)
(* What is prefetched stays within the memory: m_end <= m_beg + m_capacity *)
(* for a client that does not shrink the memory below it.                  *)
(***************************************************************************)
Fits == Len(mem) <= cap

\* A read of at most so many bytes brings at most so many.
LEMMA FreshLength ==
  ASSUME IInv, NEW min, NEW max \in Nat, NEW n \in ReadMinMax(min, max)
  PROVE  n \in Nat /\ n <= max /\ Len(Fresh(n)) = n
<1>1. n \in Nat /\ n <= max
  BY DEF ReadMinMax, Least, IInv, Memory
<1> QED BY <1>1 DEF Fresh, Span

\* do_fill_and_read refills with no more than the capacity, or not at all.
LEMMA FillFits ==
  ASSUME IInv, Fits, ~StreamThrows, NEW len \in Nat, NEW o \in Fill(len)
  PROVE  Len(o.mem) <= cap
<1> DEFINE n2 == len - (Len(mem) - pos)
<1>1. /\ cap \in Nat /\ n2 \in Int /\ len - (Len(mem) - pos) = n2 /\ Len(<<>>) <= cap
  BY DEF IInv, Memory
<1>2. \A min : StoredAtThrow(min) = {}
  BY DEF StoredAtThrow
<1> HIDE DEF n2
<1>3. CASE ~attached
  BY <1>3 DEF Fill, FillDetached, Outcome, Fits
<1>4. CASE attached /\ ~alloc /\ cap = 0
  BY <1>2, <1>4 DEF Fill, FillUnbuffered, Outcome, Fits
<1>5. CASE attached /\ ~(~alloc /\ cap = 0) /\ n2 >= cap
  <2>1. o \in FillDirect(n2)
    BY <1>1, <1>5 DEF Fill
  <2>2. o.mem = <<>>
    BY <1>2, <2>1 DEF FillDirect, Outcome
  <2> QED BY <1>1, <2>2
<1>6. CASE attached /\ ~(~alloc /\ cap = 0) /\ ~(n2 >= cap)
  <2>1. o \in FillBuffered(n2)
    BY <1>1, <1>6 DEF Fill
  <2>2. PICK n \in ReadMinMax(n2, cap) : o.mem = mem \/ o.mem = Fresh(n)
    BY <1>2, <2>1 DEF FillBuffered, Outcome
  <2>3. Len(Fresh(n)) <= cap
    BY <1>1, FreshLength
  <2> QED BY <2>2, <2>3 DEF Fits
<1> QED BY <1>3, <1>4, <1>5, <1>6

\* So do the inline paths in front of it, which leave the window alone.
LEMMA GetFits ==
  ASSUME IInv, Fits, ~StreamThrows, NEW len \in Nat, NEW o \in Get(len)
  PROVE  Len(o.mem) <= cap
<1>1. CASE pos + len <= Len(mem)
  BY <1>1 DEF Get, Outcome, Fits
<1>2. CASE ~(pos + len <= Len(mem))
  BY <1>2, FillFits DEF Get
<1> QED BY <1>1, <1>2

\* A turn of getline.
LEMMA GetlineFits ==
  ASSUME IInv, Fits, ~StreamThrows, Getline
  PROVE  Fits'
<1>1. CASE GetlineMaxlen \/ GetlineTerminator
  BY <1>1 DEF GetlineMaxlen, GetlineTerminator, Fits
<1>2. CASE GetlineCr
  <2>1. PICK o \in Get(1) : mem' = o.mem /\ cap' = cap
    BY <1>2 DEF GetlineCr, Become
  <2> QED BY <2>1, 1 \in Nat, GetFits DEF Fits
<1>3. CASE GetlineUnbuffered \/ GetlineInitbuf
  BY <1>3 DEF GetlineUnbuffered, GetlineInitbuf, bufVars, Fits
<1>4. CASE GetlineRefill
  <2>1. cap' = cap /\ cap \in Nat /\ Len(<<>>) <= cap
    BY <1>4 DEF GetlineRefill, IInv, Memory
  <2>2. \/ \E n \in ReadMinMax(1, cap) : mem' = Fresh(n)
        \/ mem' = mem
        \/ mem' = <<>>
    BY <1>4 DEF GetlineRefill
  <2>3. \A n \in ReadMinMax(1, cap) : Len(Fresh(n)) <= cap
    BY <2>1, FreshLength
  <2> QED BY <2>1, <2>2, <2>3 DEF Fits
<1> QED BY <1>1, <1>2, <1>3, <1>4 DEF Getline

\* Every step: only refills bring bytes, and only set_bufsize and initbuf
\* change the capacity.
LEMMA NextFits ==
  ASSUME IInv, Fits, ~StreamThrows, "shrink" \notin Calls, [Next]_vars
  PROVE  Fits'
<1>1. ASSUME NEW len \in Lengths, Read(len) \/ EnsureRead(len)
      PROVE  Fits'
  <2>1. len \in Nat
    BY ArgumentsAssumption
  <2>2. PICK o \in Get(len) : mem' = o.mem /\ cap' = cap
    BY <1>1 DEF Read, EnsureRead, Become
  <2> QED BY <2>1, <2>2, GetFits DEF Fits
<1>2. CASE OneByte("readByte") \/ OneByte("getByte")
  <2>1. PICK o \in Get(1) : mem' = o.mem /\ cap' = cap
    BY <1>2 DEF OneByte, Become
  <2> QED BY <2>1, 1 \in Nat, GetFits DEF Fits
<1>3. CASE Eof
  <2>1. CASE UNCHANGED bufVars
    BY <2>1 DEF bufVars, Fits
  <2>2. CASE \E o \in Fill(1) : mem' = o.mem /\ cap' = cap
    BY <2>2, 1 \in Nat, FillFits DEF Fits
  <2> QED BY <1>3, <2>1, <2>2 DEF Eof, Become
<1>4. CASE Getline
  BY <1>4, GetlineFits
<1>5. CASE ToOutput
  <2>1. CASE ToOutputFill
    <3>1. Len(mem) \in Nat
      BY DEF IInv, Memory
    <3>2. PICK o \in Fill(Len(mem)) : mem' = o.mem /\ cap' = cap
      BY <2>1 DEF ToOutputFill, Become
    <3> QED BY <3>1, <3>2, FillFits DEF Fits
  <2>2. CASE ToOutputWrite \/ ToOutputReturn
    BY <2>2 DEF ToOutputWrite, ToOutputReturn, bufVars, Fits
  <2> QED BY <1>5, <2>1, <2>2 DEF ToOutput
<1>6. ASSUME NEW c \in Capacities, Initbuf(c)
      PROVE  Fits'
  <2>1. mem = <<>> /\ c \in Nat /\ Len(<<>>) <= c
    BY <1>6, ArgumentsAssumption DEF Initbuf, IInv, Memory
  <2> QED BY <1>6, <2>1 DEF Initbuf, Fits
<1>7. ASSUME NEW c \in Capacities, SetBufsize(c)
      PROVE  Fits'
  <2>1. c >= Len(mem)
    <3>1. c \in Nat /\ Len(mem) \in Nat /\ cap \in Nat
      BY ArgumentsAssumption DEF IInv, Memory
    <3>2. c >= Len(mem) \/ ~alloc
      BY <1>7 DEF SetBufsize
    <3>3. ~alloc => mem = <<>>
      BY DEF IInv, Memory
    <3> QED BY <3>1, <3>2, <3>3
  <2>2. c \in Nat /\ Len(mem) \in Nat
    BY ArgumentsAssumption DEF IInv, Memory
  <2> QED BY <1>7, <2>1, <2>2 DEF SetBufsize, Fits
<1>8. CASE Resetbuf
  <2>1. cap \in Nat /\ Len(<<>>) <= cap
    BY DEF IInv, Memory
  <2> QED BY <1>8, <2>1 DEF Resetbuf, Fits
<1>9. CASE Grow \/ Attach \/ UNCHANGED vars
  BY <1>9 DEF Grow, Attach, vars, bufVars, Fits
<1>10. ASSUME NEW n \in Lengths, GetlineCall(n) \/ ToOutputCall(n)
      PROVE  Fits'
  BY <1>10 DEF GetlineCall, ToOutputCall, bufVars, Fits
<1> QED BY <1>1, <1>2, <1>3, <1>4, <1>5, <1>6, <1>7, <1>8, <1>9, <1>10 DEF Next

\* m_beg <= m_pos <= m_end <= m_beg + m_capacity through every refill, resize
\* and reset, for every stream and client that does not shrink the memory below
\* what is prefetched: no copy leaves the memory.
THEOREM PointerOrderAlways ==
  ASSUME ~StreamThrows, 1 \notin Capacities, "shrink" \notin Calls
  PROVE  Spec => []PointerOrder
<1>1. Spec => []IInv
  BY Invariance
<1>2. Init => Fits
  <2> SUFFICES ASSUME Init PROVE Fits
    OBVIOUS
  <2>1. mem = <<>> /\ cap \in Nat
    BY ArgumentsAssumption DEF Init
  <2> QED BY <2>1 DEF Fits
<1>3. IInv /\ Fits /\ [Next]_vars => Fits'
  BY NextFits
<1>4. IInv /\ Fits => PointerOrder
  BY DEF IInv, Memory, Fits, PointerOrder
<1> QED BY <1>1, <1>2, <1>3, <1>4, PTL DEF Spec

(***************************************************************************)
(* Short results, and what is lost.  A refill that brings less than was    *)
(* asked, or nothing, has seen the end of the stream.                      *)
(***************************************************************************)

\* do_fill_and_read returns something, and less than was asked only at the end; it
\* ends with an exception only there, or without a stream.
Ends(o, len) ==
  /\ o.exc \in {"none", "eof"}
  /\ o.exc = "eof" => (attached => o.spos = avail)
  /\ o.exc = "none" => /\ Len(o.got) \in 0..len
                       /\ len > 0 => Len(o.got) > 0
                       /\ Len(o.got) # len => o.spos = avail

\* read_min_max brings less than the minimum only at the end of the stream.
LEMMA ReadMinMaxEnds ==
  ASSUME IInv, NEW min \in Nat, min # 0, NEW max \in Nat, NEW n \in ReadMinMax(min, max)
  PROVE  n \in Nat /\ (n < min => spos + n = avail)
<1>1. spos \in Nat /\ avail \in Nat /\ spos <= avail
  BY DEF IInv, Memory
<1> QED BY <1>1 DEF ReadMinMax, Least

\* A refill ends short, or throws eof, only when the stream has no more to read.
LEMMA FillEnds ==
  ASSUME IInv, ~StreamThrows, NEW len \in Nat, len > Len(mem) - pos, NEW o \in Fill(len)
  PROVE  Ends(o, len)
<1> DEFINE k == Len(mem) - pos
           n2 == len - k
<1>1. k \in Nat /\ n2 \in Nat /\ n2 # 0 /\ len = k + n2 /\ len - (Len(mem) - pos) = n2
      /\ Window \in Seq(Nat) /\ Len(Window) = k
  BY WindowIsSpan
<1>2. /\ spos \in Nat /\ avail \in Nat /\ spos <= avail /\ cap \in Nat
      /\ mem # <<>> => alloc
      /\ mem \in Seq(Nat) /\ Len(mem) \in Nat /\ pos \in 0..Len(mem)
  BY DEF IInv, Memory
<1>3. \A min : StoredAtThrow(min) = {}
  BY DEF StoredAtThrow
<1>4. \A n \in Nat : Len(Window \o Fresh(n)) = k + n
  <2> TAKE n \in Nat
  <2> DEFINE w == Window
             f == Fresh(n)
  <2>1. f \in Seq(Nat) /\ Len(f) = n /\ w \in Seq(Nat) /\ Len(w) = k
    BY <1>1, TakeFresh
  <2> HIDE DEF w, f, k
  <2>2. Len(w \o f) = k + n
    BY <2>1, ConcatProperties
  <2> QED BY <2>2 DEF w, f
<1>5. CASE ~attached
  <2>1. o = Outcome(spos, mem, pos, alloc, <<>>, "eof")
    BY <1>5 DEF Fill, FillDetached
  <2> QED BY <1>5, <2>1 DEF Ends, Outcome
<1>6. CASE attached /\ ~alloc /\ cap = 0
  <2>1. PICK n \in ReadMinMax(len, len) :
          o = Outcome(spos + n, mem, pos, alloc, Fresh(n),
                      IF n = 0 THEN "eof" ELSE "none")
    BY <1>3, <1>6 DEF Fill, FillUnbuffered
  <2>2. len # 0
    BY <1>1
  <2> HIDE DEF k, n2
  <2>3. n \in Nat /\ n <= len /\ (n < len => spos + n = avail)
    BY <2>1, <2>2, ReadMinMaxEnds, ReadMinMaxBound
  <2>4. Len(Fresh(n)) = n
    BY <2>3, TakeFresh
  <2>5. CASE n = 0
    <3>1. o.exc = "eof" /\ o.spos = spos + n
      BY <2>1, <2>5 DEF Outcome
    <3> QED BY <2>2, <2>3, <2>5, <3>1 DEF Ends
  <2>6. CASE n # 0
    <3>1. o.exc = "none" /\ o.spos = spos + n /\ Len(o.got) = n
      BY <2>1, <2>4, <2>6 DEF Outcome
    <3> QED BY <2>3, <2>6, <3>1 DEF Ends
  <2> QED BY <2>5, <2>6
<1>7. CASE attached /\ ~(~alloc /\ cap = 0) /\ n2 >= cap
  <2>1. PICK n \in ReadMinMax(n2, n2) :
          o = Outcome(spos + n, <<>>, 0, TRUE, Window \o Fresh(n),
                      IF n = 0 THEN "eof" ELSE "none")
    BY <1>1, <1>3, <1>7 DEF Fill, FillDirect
  <2>2. n \in Nat /\ n <= n2 /\ (n < n2 => spos + n = avail)
    BY <1>1, <2>1, ReadMinMaxEnds, ReadMinMaxBound
  <2>3. Len(Window \o Fresh(n)) = k + n
    BY <1>4, <2>2
  <2> HIDE DEF k, n2
  <2>5. CASE n = 0
    <3>1. o.exc = "eof" /\ o.spos = spos + n
      BY <2>1, <2>5 DEF Outcome
    <3>2. spos + n = avail
      BY <1>1, <2>2, <2>5
    <3> QED BY <3>1, <3>2 DEF Ends
  <2>6. CASE n # 0
    <3>1. o.exc = "none" /\ o.spos = spos + n /\ Len(o.got) = k + n
      BY <2>1, <2>3, <2>6 DEF Outcome
    <3>2. k + n \in 0..len /\ k + n > 0 /\ (k + n # len => spos + n = avail)
      BY <1>1, <2>2, <2>6
    <3> QED BY <3>1, <3>2 DEF Ends
  <2> QED BY <2>5, <2>6
<1>8. CASE attached /\ ~(~alloc /\ cap = 0) /\ ~(n2 >= cap)
  <2>1. PICK n \in ReadMinMax(n2, cap) :
          o = IF n = 0
              THEN Outcome(spos, mem, pos, TRUE, <<>>, "eof")
              ELSE Outcome(spos + n, Fresh(n), Least(n, n2), TRUE,
                           Window \o Fresh(Least(n, n2)), "none")
    BY <1>1, <1>3, <1>8 DEF Fill, FillBuffered
  <2>2. n \in Nat /\ (n < n2 => spos + n = avail)
    BY <1>1, <1>2, <2>1, ReadMinMaxEnds
  <2>3. PICK m \in Nat : m = Least(n, n2) /\ m <= n2 /\ (m < n2 => m = n) /\ (n # 0 => m # 0)
    BY <1>1, <2>2 DEF Least
  <2>4. Len(Window \o Fresh(m)) = k + m
    BY <1>4
  <2> HIDE DEF k, n2
  <2>5. CASE n = 0
    <3>1. o.exc = "eof" /\ o.spos = spos
      BY <2>1, <2>5 DEF Outcome
    <3>2. spos = avail
      BY <1>1, <1>2, <2>2, <2>5
    <3> QED BY <3>1, <3>2 DEF Ends
  <2>6. CASE n # 0
    <3>1. o.exc = "none" /\ o.spos = spos + n /\ Len(o.got) = k + m
      BY <2>1, <2>3, <2>4, <2>6 DEF Outcome
    <3>2. k + m \in 0..len /\ k + m > 0 /\ (k + m # len => spos + n = avail)
      BY <1>1, <2>2, <2>3, <2>6
    <3> QED BY <3>1, <3>2 DEF Ends
  <2> QED BY <2>5, <2>6
<1> QED BY <1>5, <1>6, <1>7, <1>8

\* So do the inline paths in front of it.
LEMMA GetEnds ==
  ASSUME IInv, ~StreamThrows, NEW len \in Nat, NEW o \in Get(len)
  PROVE  Ends(o, len)
<1>1. /\ mem \in Seq(Nat) /\ Len(mem) \in Nat /\ pos \in 0..Len(mem)
  BY DEF IInv, Memory
<1>2. CASE pos + len <= Len(mem)
  <2>1. o.exc = "none" /\ o.got = SubSeq(mem, pos + 1, pos + len)
    BY <1>2 DEF Get, Outcome
  <2>2. len \in 0..(Len(mem) - pos)
    BY <1>1, <1>2
  <2>3. Len(o.got) = len
    BY <2>1, <2>2, WindowPrefix, TakeFromWindow
  <2>4. len \in 0..len
    OBVIOUS
  <2> QED BY <2>1, <2>3, <2>4 DEF Ends
<1>3. CASE ~(pos + len <= Len(mem))
  <2>1. len > Len(mem) - pos
    BY <1>1, <1>3
  <2> QED BY <1>3, <2>1, FillEnds DEF Get
<1> QED BY <1>2, <1>3

\* The answers of a call with outcome o are those EndIsTrue asks for.
LEMMA EndIsTrueRead ==
  ASSUME IInv, ~StreamThrows, NEW len \in Lengths, Read(len)
  PROVE  EndIsTrue'
<1>1. PICK o \in Get(len) :
        /\ Become(o)
        /\ Finished("read", len, IF o.exc = "none" THEN Len(o.got) ELSE 0, o.exc)
  BY DEF Read
<1>2. len \in Nat
  BY ArgumentsAssumption
<1>3. Ends(o, len)
  BY <1>1, <1>2, GetEnds
<1>4. /\ call'.op = "read" /\ call'.len = len /\ call'.exc = o.exc
      /\ call'.n = (IF o.exc = "none" THEN Len(o.got) ELSE 0)
      /\ call'.left = (IF attached THEN avail - o.spos ELSE 0)
  BY <1>1 DEF Finished, Outcall, Become
<1>5. avail \in Nat
  BY DEF IInv, Memory
<1>6. ASSUME call'.exc = "none", call'.n # call'.len
      PROVE  call'.n \in 1..(call'.len - 1) /\ call'.left = 0
  <2>1. call'.n = Len(o.got) /\ call'.len = len /\ Len(o.got) # len
    BY <1>4, <1>6
  <2>2. Len(o.got) \in 0..len /\ (len > 0 => Len(o.got) > 0) /\ o.spos = avail
    BY <1>3, <1>4, <1>6, <2>1 DEF Ends
  <2> QED BY <1>2, <1>4, <1>5, <2>1, <2>2
<1> QED BY <1>4, <1>6 DEF EndIsTrue

\* eof() looks at the stream only behind an empty window.
LEMMA EofPeeks ==
  ASSUME IInv, ~StreamThrows, pos = Len(mem), MayPeek, NEW o \in Fill(1)
  PROVE  /\ o.exc = "none" => o.mem # <<>>
         /\ o.exc = "eof" => o.mem = mem /\ o.got = <<>>
<1>1. /\ spos \in Nat /\ avail \in Nat /\ cap \in Nat /\ cap >= 2
      /\ 1 - (Len(mem) - pos) = 1
  BY DEF IInv, Memory, MayPeek
<1>2. \A min : StoredAtThrow(min) = {}
  BY DEF StoredAtThrow
<1>3. CASE ~attached
  BY <1>3 DEF Fill, FillDetached, Outcome
<1>4. CASE attached
  <2>1. PICK n \in ReadMinMax(1, cap) :
          o = IF n = 0
              THEN Outcome(spos, mem, pos, TRUE, <<>>, "eof")
              ELSE Outcome(spos + n, Fresh(n), Least(n, 1), TRUE,
                           Window \o Fresh(Least(n, 1)), "none")
    <3>1. ~(1 >= cap) /\ cap # 0
      BY <1>1
    <3>2. o \in FillBuffered(1)
      BY <1>1, <1>4, <3>1 DEF Fill
    <3> QED BY <1>2, <3>2 DEF FillBuffered
  <2>2. n \in Nat /\ Len(Fresh(n)) = n
    BY <1>1, <2>1, FreshLength
  <2>3. n # 0 => Fresh(n) # <<>>
    BY <2>2
  <2> QED BY <2>1, <2>3 DEF Outcome
<1> QED BY <1>3, <1>4

\* eof() answers TRUE only at the end, and FALSE with a byte in the window.
LEMMA EndIsTrueEof ==
  ASSUME IInv, ~StreamThrows, Eof
  PROVE  EndIsTrue'
<1>1. /\ mem \in Seq(Nat) /\ Len(mem) \in Nat /\ pos \in 0..Len(mem) /\ avail \in Nat
  BY DEF IInv, Memory
<1>2. CASE /\ pos < Len(mem) /\ UNCHANGED bufVars /\ Finished("eof", 0, 0, "none")
  <2>1. call'.op = "eof" /\ call'.n = 0
    BY <1>2 DEF Finished, Outcall
  <2>2. Window # <<>> /\ Window' = Window
    <3>1. Len(Window) = Len(mem) - pos
      BY WindowIsSpan
    <3>2. Len(Window) # 0
      BY <1>1, <1>2, <3>1
    <3>3. Window' = Window
      BY <1>2 DEF Window, bufVars
    <3> QED BY <3>2, <3>3
  <2> QED BY <2>1, <2>2 DEF EndIsTrue
<1>3. ASSUME pos = Len(mem), MayPeek, NEW o \in Fill(1),
             Become([o EXCEPT !.pos = IF o.exc = "none" THEN 0 ELSE o.pos]),
             Finished("eof", 0, IF o.exc = "eof" THEN 1 ELSE 0,
                      IF o.exc = "io" THEN "io" ELSE "none")
      PROVE  EndIsTrue'
  <2>1. Ends(o, 1)
    BY <1>1, <1>3, FillEnds
  <2>2. /\ spos' = o.spos /\ mem' = o.mem
        /\ pos' = (IF o.exc = "none" THEN 0 ELSE o.pos) /\ attached' = attached
    BY <1>3 DEF Become, Fill, FillDetached, FillUnbuffered, FillDirect, FillBuffered, Outcome
  <2>3. /\ call'.op = "eof" /\ call'.n = (IF o.exc = "eof" THEN 1 ELSE 0)
        /\ call'.left = (IF attached THEN avail - o.spos ELSE 0)
    BY <1>3, <2>2 DEF Finished, Outcall
  <2>4. CASE o.exc = "eof"
    <3>1. call'.left = 0
      BY <1>1, <2>1, <2>3, <2>4 DEF Ends
    <3> QED BY <2>3, <2>4, <3>1 DEF EndIsTrue
  <2>5. CASE o.exc = "none"
    <3>1. mem' # <<>> /\ mem' \in Seq(Nat) /\ pos' = 0
      <4>1. OutcomeOK(o)
        BY <1>1, <1>3, FillOK
      <4> QED BY <1>3, <2>2, <2>5, <4>1, EofPeeks DEF OutcomeOK
    <3>2. Window' = mem'
      <4>1. Window' = SubSeq(mem', 1, Len(mem'))
        BY <3>1 DEF Window
      <4> QED BY <3>1, <4>1
    <3> QED BY <2>3, <2>5, <3>1, <3>2 DEF EndIsTrue
  <2> QED BY <2>1, <2>4, <2>5 DEF Ends
<1> QED BY <1>2, <1>3 DEF Eof

\* Every step: only read and eof() give such answers, and they stay true until the
\* next call.
LEMMA EndIsTrueNext ==
  ASSUME IInv, EndIsTrue, ~StreamThrows, [Next]_vars
  PROVE  EndIsTrue'
<1>1. CASE UNCHANGED <<pc, call, mem, pos>>
  BY <1>1 DEF EndIsTrue, Window
<1>2. CASE pc' # "idle"
  BY <1>2 DEF EndIsTrue
<1>3. CASE call'.op \notin {"read", "eof"}
  BY <1>3 DEF EndIsTrue
<1>4. ASSUME NEW len \in Lengths, EnsureRead(len)
      PROVE  EndIsTrue'
  <2>1. call'.op = "ensureRead"
    BY <1>4 DEF EnsureRead, Finished, Outcall
  <2> QED BY <1>3, <2>1
<1>5. CASE OneByte("readByte") \/ OneByte("getByte")
  <2>1. call'.op \in {"readByte", "getByte"}
    BY <1>5 DEF OneByte, Finished, Outcall
  <2> QED BY <1>3, <2>1
<1>6. CASE Getline
  <2>1. \/ pc' # "idle"
        \/ call'.op = "getline"
    <3>1. CASE GetlineMaxlen
      BY <3>1 DEF GetlineMaxlen, GetlineDone, Outcall
    <3>2. CASE GetlineTerminator
      BY <3>2 DEF GetlineTerminator, GetlineDone, Outcall
    <3>3. CASE GetlineCr
      BY <3>3 DEF GetlineCr, GetlineDone, Outcall
    <3>4. CASE GetlineUnbuffered
      BY <3>4 DEF GetlineUnbuffered, GetlineDone, Outcall
    <3>5. CASE GetlineInitbuf
      BY <3>5 DEF GetlineInitbuf
    <3>6. CASE GetlineRefill
      BY <3>6 DEF GetlineRefill, GetlineDone, Outcall
    <3> QED BY <1>6, <3>1, <3>2, <3>3, <3>4, <3>5, <3>6 DEF Getline
  <2> QED BY <1>2, <1>3, <2>1
<1>7. CASE ToOutput
  <2>1. \/ pc' # "idle"
        \/ call'.op = "to_output"
    BY <1>7 DEF ToOutput, ToOutputFill, ToOutputWrite, ToOutputReturn, ToOutputDone, Outcall
  <2> QED BY <1>2, <1>3, <2>1
<1>8. CASE Resetbuf
  <2>1. call'.op = "resetbuf"
    BY <1>8 DEF Resetbuf, Finished, Outcall
  <2> QED BY <1>3, <2>1
<1>9. ASSUME NEW len \in Lengths, GetlineCall(len) \/ ToOutputCall(len)
      PROVE  EndIsTrue'
  BY <1>2, <1>9 DEF GetlineCall, ToOutputCall
<1>10. CASE Grow \/ Attach \/ UNCHANGED vars \/ \E c \in Capacities : Initbuf(c) \/ SetBufsize(c)
  BY <1>1, <1>10 DEF Grow, Attach, vars, bufVars, Initbuf, SetBufsize
<1> QED BY <1>4, <1>5, <1>6, <1>7, <1>8, <1>9, <1>10, EndIsTrueRead, EndIsTrueEof DEF Next

(***************************************************************************)
(* Lines.  While getline runs, its line is what was taken since the call,  *)
(* less the terminator behind it.                                          *)
(***************************************************************************)
InLine(behind) ==
  /\ call.op = "getline" /\ call.len = todo
  /\ line = Span(call.from, Len(line)) /\ Len(line) <= todo
  /\ call.from + Len(line) + behind = Len(consumed)
  /\ \A i \in 1..Len(line) : ~Terminator(line[i])

Lines ==
  /\ pc = "getline" => InLine(0)
  /\ pc = "getline_cr" => /\ InLine(1) /\ Len(line) < todo
                          /\ Len(consumed) \in 1..Len(src) /\ src[Len(consumed)] = "cr"
  /\ GetlineExact

\* The line l of a call that began behind the first from bytes, may be len long, and
\* left taken bytes taken, w in the window and left behind it.
Exact(l, from, len, taken, left, w) ==
  LET last     == from + Len(l)
      Is(i, c) == i \in 1..Len(src) /\ src[i] = c
  IN  /\ l = Span(from, Len(l))
      /\ \A i \in 1..Len(l) : ~Terminator(l[i])
      /\ \/ taken = last /\ Len(l) = len
         \/ taken = last + 1 /\ Is(last + 1, "lf") /\ Len(l) < len
         \/ taken = last + 1 /\ Is(last + 1, "cr") /\ ~Is(last + 2, "lf") /\ Len(l) < len
         \/ taken = last + 2 /\ Is(last + 1, "cr") /\ Is(last + 2, "lf") /\ Len(l) < len
         \/ taken = last /\ Len(l) < len /\ left = 0 /\ w = <<>>

Whole ==
  /\ Len(line) \in Nat /\ call.from \in Nat /\ Len(consumed) \in Nat
  /\ Exact(line, call.from, call.len, Len(consumed), call.left, Window)

\* Exact says of the members what GetlineExact says of a getline that returned.
LEMMA ExactIsExact ==
  Whole => GetlineExact
<1> SUFFICES ASSUME Len(line) \in Nat, call.from \in Nat, Len(consumed) \in Nat,
                    Exact(line, call.from, call.len, Len(consumed), call.left, Window)
             PROVE  GetlineExact
  BY DEF Whole
<1> DEFINE last     == call.from + Len(line)
           Is(i, c) == i \in 1..Len(src) /\ src[i] = c
           eol      == IF Is(last + 1, "cr") /\ Is(last + 2, "lf") THEN 2
                       ELSE IF Is(last + 1, "cr") \/ Is(last + 1, "lf") THEN 1
                       ELSE 0
           eaten    == Len(consumed) - last
<1>1. /\ line = Span(call.from, Len(line))
      /\ \A i \in BytesOf(line) : ~Terminator(i)
  BY DEF Exact, BytesOf
<1>2. last \in Nat
  OBVIOUS
<1>3. \/ Len(consumed) = last /\ Len(line) = call.len
      \/ Len(consumed) = last + 1 /\ Is(last + 1, "lf") /\ Len(line) < call.len
      \/ Len(consumed) = last + 1 /\ Is(last + 1, "cr") /\ ~Is(last + 2, "lf") /\ Len(line) < call.len
      \/ Len(consumed) = last + 2 /\ Is(last + 1, "cr") /\ Is(last + 2, "lf") /\ Len(line) < call.len
      \/ Len(consumed) = last /\ Len(line) < call.len /\ call.left = 0 /\ Window = <<>>
  BY DEF Exact
<1>4. Is(last + 1, "lf") => ~Is(last + 1, "cr")
  OBVIOUS
<1> DEFINE one == Is(last + 1, "cr")
           two == Is(last + 2, "lf")
           lf  == Is(last + 1, "lf")
<1> HIDE DEF last, Is
<1>5. /\ (one /\ two) => eol = 2
      /\ (one /\ ~two) => eol = 1
      /\ lf => eol = 1
  <2>1. eol = IF one /\ two THEN 2 ELSE IF one \/ lf THEN 1 ELSE 0
    OBVIOUS
  <2>2. lf => ~one
    BY <1>4
  <2> HIDE DEF one, two, lf, eol
  <2> QED BY <2>1, <2>2
<1> HIDE DEF eol
<1>6. \/ eaten = 0 /\ Len(line) = call.len
      \/ eaten = eol /\ eol > 0 /\ Len(line) < call.len
      \/ eaten = 0 /\ Len(line) < call.len /\ call.left = 0 /\ Window = <<>>
  <2>1. CASE Len(consumed) = last
    BY <1>2, <1>3, <2>1
  <2>2. CASE Len(consumed) = last + 1
    <3>1. eol = 1 /\ Len(line) < call.len
      BY <1>2, <1>3, <1>5, <2>2
    <3> QED BY <1>2, <2>2, <3>1
  <2>3. CASE Len(consumed) = last + 2
    <3>1. eol = 2 /\ Len(line) < call.len
      BY <1>2, <1>3, <1>5, <2>3
    <3> QED BY <1>2, <2>3, <3>1
  <2> QED BY <1>3, <2>1, <2>2, <2>3
<1> QED BY <1>1, <1>6 DEF GetlineExact, eol, last, Is, eaten

\* Offsets of the bytes of the window.
LEMMA WindowAt ==
  ASSUME IInv
  PROVE  /\ Len(consumed) \in Nat /\ Len(Window) \in Nat
         /\ Window = Span(Len(consumed), Len(Window))
         /\ Len(consumed) + Len(Window) <= Len(src)
         /\ \A i \in 1..Len(Window) : Window[i] = Len(consumed) + i
<1> DEFINE k == Len(mem) - pos
           a == spos - k
<1>1. /\ k \in Nat /\ a \in Nat /\ Window = Span(a, k) /\ Len(Window) = k
      /\ consumed = Span(0, a)
  BY WindowIsSpan
<1>2. a + k <= Len(src)
  <2>1. spos \in Nat /\ avail \in Nat /\ Len(src) \in Nat /\ spos <= avail /\ avail <= Len(src)
    BY DEF IInv, Memory
  <2>2. a + k = spos
    BY <1>1, <2>1
  <2> QED BY <2>1, <2>2
<1> HIDE DEF k, a
<1>3. Len(consumed) = a
  BY <1>1, SpanIsSeq
<1>4. \A i \in 1..k : Window[i] = a + i
  BY <1>1 DEF Span
<1> QED BY <1>1, <1>2, <1>3, <1>4

\* What the first n bytes of the window make of the line.
LEMMA LineGrows ==
  ASSUME IInv, InLine(0), NEW n \in 0..Len(Window), Plain(n),
         NEW l, l = line \o SubSeq(Window, 1, n)
  PROVE  /\ l \in Seq(Nat) /\ Len(l) = Len(line) + n /\ Len(l) <= todo
         /\ l = Span(call.from, Len(l))
         /\ call.from + Len(l) = Len(consumed) + n
         /\ \A i \in 1..Len(l) : ~Terminator(l[i])
<1> DEFINE from == call.from
           c == Len(consumed)
           k == Len(line)
           g == SubSeq(Window, 1, n)
<1>1. from \in Nat /\ k \in Nat /\ line \in Seq(Nat)
  BY DEF IInv, Control, CallType
<1>2. c \in Nat /\ n \in Nat
  BY WindowAt
<1>3. line = Span(from, k) /\ from + k = c /\ (\A i \in 1..k : ~Terminator(line[i]))
  BY <1>1, <1>2 DEF InLine
<1>4. g = Span(c, n) /\ g \in Seq(Nat) /\ Len(g) = n
  <2>1. n \in 0..(Len(mem) - pos)
    BY WindowIsSpan
  <2>2. g = Part(Window, 0, n) /\ g \in Seq(Nat) /\ Len(g) = n
    BY <2>1, TakeFromWindow
  <2> DEFINE m == Len(Window)
  <2>3. Window = Span(c, m) /\ m \in Nat /\ 0 + n <= m
    BY WindowAt
  <2> HIDE DEF m, c, g
  <2>4. Part(Span(c, m), 0, n) = Span(c + 0, n) /\ c + 0 = c
    BY <1>2, <2>3, SubSpan
  <2> QED BY <2>2, <2>3, <2>4
<1>5. \A i \in 1..n : ~Terminator(g[i])
  <2> TAKE i \in 1..n
  <2>1. ~Terminator(Window[i])
    BY DEF Plain
  <2>2. Window[i] = c + i
    BY WindowAt
  <2>3. g[i] = c + i
    BY <1>4 DEF Span
  <2> QED BY <2>1, <2>2, <2>3
<1>6. k + n <= todo
  BY DEF Plain
<1> HIDE DEF from, c, k, g
<1>7. l = Span(from, k + n)
  <2>1. l = line \o g
    BY DEF g
  <2>2. Span(from, k) \o Span(from + k, n) = Span(from, k + n)
    BY <1>1, <1>2, SpanConcat
  <2> QED BY <1>3, <1>4, <2>1, <2>2
<1>8. Len(l) = k + n /\ l \in Seq(Nat)
  <2>1. k + n \in Nat
    BY <1>1, <1>2
  <2> DEFINE m == k + n
  <2> HIDE DEF m
  <2>2. Len(Span(from, m)) = m /\ Span(from, m) \in Seq(Nat)
    BY <1>1, <2>1, SpanIsSeq DEF m
  <2>3. l = Span(from, m)
    BY <1>7 DEF m
  <2>4. Len(l) = m /\ l \in Seq(Nat)
    BY <2>2, <2>3
  <2> QED BY <2>4 DEF m
<1>9. \A i \in 1..(k + n) : ~Terminator(l[i])
  <2> SUFFICES ASSUME NEW i \in 1..(k + n) PROVE ~Terminator(l[i])
    OBVIOUS
  <2>1. l[i] = from + i
    BY <1>7 DEF Span
  <2>2. CASE i <= k
    <3>1. i \in 1..k
      BY <1>1, <1>2, <2>2
    <3>2. line[i] = from + i
      BY <1>3, <3>1 DEF Span
    <3> QED BY <1>3, <2>1, <3>1, <3>2
  <2>3. CASE ~(i <= k)
    <3>1. i - k \in 1..n /\ c + (i - k) = from + i
      BY <1>1, <1>2, <1>3, <2>3
    <3>2. g[i - k] = c + (i - k)
      BY <1>4, <3>1 DEF Span
    <3> QED BY <1>5, <2>1, <3>1, <3>2
  <2> QED BY <2>2, <2>3
<1>10. from + (k + n) = c + n
  BY <1>1, <1>2, <1>3
<1> QED BY <1>6, <1>7, <1>8, <1>9, <1>10 DEF from, c, k

\* What is taken grows by what is taken.
LEMMA TakenLength ==
  ASSUME IInv, NEW m \in 0..Len(Window)
  PROVE  Len(consumed \o SubSeq(Window, 1, m)) = Len(consumed) + m
<1> DEFINE g == SubSeq(Window, 1, m)
<1>1. m \in 0..(Len(mem) - pos)
  BY WindowIsSpan
<1>2. g \in Seq(Nat) /\ Len(g) = m /\ consumed \in Seq(Nat)
  BY <1>1, TakeFromWindow DEF IInv, Memory
<1> HIDE DEF g
<1> QED BY <1>2, ConcatProperties DEF g

\* maxlen ends the line.
LEMMA GetlineMaxlenLines ==
  ASSUME IInv, Lines, GetlineMaxlen
  PROVE  Lines'
<1>1. PICK n \in 0..Len(Window) :
        /\ Plain(n) /\ Len(line) + n = todo
        /\ line' = line \o SubSeq(Window, 1, n)
        /\ consumed' = consumed \o SubSeq(Window, 1, n)
        /\ GetlineDone(line', "none")
  BY DEF GetlineMaxlen
<1>2. src' = src /\ InLine(0)
  BY DEF GetlineMaxlen, Lines, streamVars
<1>3. /\ line' \in Seq(Nat) /\ Len(line') = todo /\ line' = Span(call.from, Len(line'))
      /\ call.from + Len(line') = Len(consumed) + n
      /\ \A i \in 1..Len(line') : ~Terminator(line'[i])
  BY <1>1, <1>2, LineGrows
<1>4. Len(consumed') = Len(consumed) + n
  BY <1>1, TakenLength
<1>5. pc' = "idle" /\ call'.from = call.from /\ call'.len = call.len
  BY <1>1 DEF GetlineDone, Outcall
<1>6. call.from \in Nat /\ call.len = todo
  BY <1>2 DEF IInv, Control, CallType, InLine
<1>7. Exact(line', call'.from, call'.len, Len(consumed'), call'.left, Window')
  BY <1>3, <1>4, <1>5, <1>6 DEF Exact
<1>8. Exact(line, call.from, call.len, Len(consumed), call.left, Window)'
  BY <1>2, <1>7 DEF Exact, Terminator
<1>9. Len(line') \in Nat /\ call'.from \in Nat /\ Len(consumed') \in Nat
  <2>1. Len(consumed) \in Nat /\ n \in Nat
    BY WindowAt
  <2> QED BY <1>3, <1>4, <1>5, <1>6, <2>1
<1>10. Whole'
  BY <1>8, <1>9 DEF Whole
<1>11. GetlineExact'
  BY <1>10, ExactIsExact, PTL
<1> QED BY <1>5, <1>11 DEF Lines

\* A '\n' ends the line; a '\r' is left for the next turn.
LEMMA GetlineTerminatorLines ==
  ASSUME IInv, Lines, GetlineTerminator
  PROVE  Lines'
<1>1. PICK n \in 0..(Len(Window) - 1) :
        /\ Plain(n) /\ Len(line) + n < todo
        /\ Terminator(Window[n + 1])
        /\ line' = line \o SubSeq(Window, 1, n)
        /\ consumed' = consumed \o SubSeq(Window, 1, n + 1)
        /\ IF src[Window[n + 1]] = "lf" THEN GetlineDone(line', "none")
                                        ELSE pc' = "getline_cr" /\ UNCHANGED call
  BY DEF GetlineTerminator
<1>2. src' = src /\ todo' = todo /\ InLine(0)
  BY DEF GetlineTerminator, Lines, streamVars
<1>3. /\ n \in Nat /\ n \in 0..Len(Window) /\ n + 1 \in 0..Len(Window) /\ n + 1 \in 1..Len(Window)
  BY WindowAt
<1>4. /\ line' \in Seq(Nat) /\ Len(line') = Len(line) + n /\ line' = Span(call.from, Len(line'))
      /\ call.from + Len(line') = Len(consumed) + n
      /\ \A i \in 1..Len(line') : ~Terminator(line'[i])
  BY <1>1, <1>2, <1>3, LineGrows
<1>5. Len(consumed') = Len(consumed) + (n + 1)
  BY <1>1, <1>3, TakenLength
<1>6. call.from \in Nat /\ call.len = todo /\ call.op = "getline" /\ Len(consumed) \in Nat
  BY <1>2, WindowAt DEF IInv, Control, CallType, InLine
<1> DEFINE last == call.from + Len(line')
<1>7. /\ last \in Nat /\ Len(consumed') = last + 1 /\ Len(consumed') \in Nat
      /\ Len(line') \in Nat /\ Len(line') < call.len
  <2>1. Len(line') \in Nat
    BY <1>4
  <2>2. Len(line) \in Nat /\ Len(line) + n < todo
    BY <1>1, <1>2 DEF InLine, IInv, Control
  <2> QED BY <1>3, <1>4, <1>5, <1>6, <2>1, <2>2
<1>8. Window[n + 1] = last + 1 /\ last + 1 \in 1..Len(src)
  <2>1. Window[n + 1] = Len(consumed) + (n + 1) /\ Len(consumed) + (n + 1) <= Len(src)
        /\ Len(src) \in Nat
    <3>1. Len(src) \in Nat
      BY DEF IInv, Memory
    <3> QED BY <1>3, <3>1, WindowAt
  <2> QED BY <1>3, <1>4, <1>6, <1>7, <2>1
<1> HIDE DEF last
<1>9. CASE src[Window[n + 1]] = "lf"
  <2>1. pc' = "idle" /\ call'.from = call.from /\ call'.len = call.len
    BY <1>1, <1>9 DEF GetlineDone, Outcall
  <2>2. Exact(line', call'.from, call'.len, Len(consumed'), call'.left, Window')
    BY <1>4, <1>7, <1>8, <1>9, <2>1 DEF Exact, last
  <2>3. Exact(line, call.from, call.len, Len(consumed), call.left, Window)'
    BY <1>2, <2>2 DEF Exact, Terminator
  <2>4. Whole'
    BY <1>6, <1>7, <2>1, <2>3 DEF Whole
  <2>5. GetlineExact'
    BY <2>4, ExactIsExact, PTL
  <2> QED BY <2>1, <2>5 DEF Lines
<1>10. CASE src[Window[n + 1]] # "lf"
  <2>1. pc' = "getline_cr" /\ call' = call
    BY <1>1, <1>10
  <2>2. src[last + 1] = "cr"
    BY <1>1, <1>8, <1>10 DEF Terminator
  <2>3. call.from + Len(line') + 1 = Len(consumed')
    BY <1>7 DEF last
  <2>4. Len(line') < todo /\ Len(line') <= todo
    <3>1. todo \in Nat
      BY DEF IInv, Control
    <3> QED BY <1>6, <1>7, <3>1
  <2>5. InLine(1)'
    <3>1. /\ (call.op = "getline")' /\ (call.len = todo)' /\ (Len(line) <= todo)'
          /\ (line = Span(call.from, Len(line)))'
      BY <1>2, <1>4, <1>6, <2>1, <2>4
    <3>2. (call.from + Len(line) + 1 = Len(consumed))'
      BY <2>1, <2>3
    <3>3. (\A i \in 1..Len(line) : ~Terminator(line[i]))'
      BY <1>2, <1>4 DEF Terminator
    <3> QED BY <3>1, <3>2, <3>3 DEF InLine
  <2>6. Len(consumed') \in 1..Len(src') /\ src'[Len(consumed')] = "cr"
    BY <1>2, <1>7, <1>8, <2>2
  <2>7. GetlineExact'
    BY <2>1 DEF GetlineExact
  <2> QED BY <1>2, <2>1, <2>4, <2>5, <2>6, <2>7 DEF Lines
<1> QED BY <1>9, <1>10

\* The byte that a call got is the one behind what was taken.
LEMMA GotByte ==
  ASSUME IInv, NEW o, OutcomeOK(o), Len(o.got) = 1
  PROVE  /\ o.got[1] = Len(consumed) + 1 /\ Len(consumed) + 1 \in 1..Len(src)
         /\ Len(consumed \o o.got) = Len(consumed) + 1
<1> DEFINE c == Len(consumed)
           k == spos - Len(mem) + pos
           n == o.spos - Len(o.mem) + o.pos
           g == o.got
           s == Span(0, n)
<1>1. k \in Nat /\ consumed = Span(0, k) /\ c = k /\ consumed \in Seq(Nat)
  <2>1. k \in Nat /\ consumed = Span(0, k) /\ consumed \in Seq(Nat)
    BY DEF IInv, Memory
  <2> HIDE DEF k
  <2> QED BY <2>1, SpanIsSeq
<1>2. g \in Seq(Nat) /\ Len(g) = 1 /\ consumed \o g = s
  BY DEF OutcomeOK
<1>3. n = k + 1
  BY PushBack
<1>4. n <= Len(src)
  <2>1. o.spos \in Nat /\ Len(o.mem) \in Nat /\ o.pos \in Nat /\ o.pos <= Len(o.mem)
        /\ avail \in Nat /\ o.spos <= avail /\ Len(src) \in Nat /\ avail <= Len(src)
    BY DEF IInv, Memory, OutcomeOK
  <2> QED BY <2>1
<1>5. Len(src) \in Nat
  BY DEF IInv, Memory
<1> HIDE DEF c, k, n, g, s
<1>6. /\ Len(consumed \o g) = c + 1
      /\ (consumed \o g)[c + 1] = g[1]
  <2>1. Len(consumed) = c /\ c \in Nat
    BY <1>1 DEF c
  <2>2. c + 1 \in 1..(Len(consumed) + Len(g)) /\ ~(c + 1 <= Len(consumed)) /\ (c + 1) - Len(consumed) = 1
    BY <1>2, <2>1
  <2>3. Len(consumed \o g) = Len(consumed) + Len(g) /\ (consumed \o g)[c + 1] = g[(c + 1) - Len(consumed)]
    BY <1>1, <1>2, <2>2, ConcatProperties
  <2> QED BY <1>2, <2>1, <2>2, <2>3
<1>7. s[c + 1] = c + 1
  <2>1. c + 1 \in 1..n /\ 0 + (c + 1) = c + 1
    BY <1>1, <1>3
  <2> QED BY <2>1 DEF s, Span
<1>8. c + 1 \in 1..Len(src)
  BY <1>1, <1>3, <1>4, <1>5
<1> QED BY <1>2, <1>6, <1>7, <1>8 DEF c, g

\* A call for one byte returns one.
LEMMA GetOne ==
  ASSUME IInv, ~StreamThrows, NEW o \in Get(1), o.exc = "none"
  PROVE  OutcomeOK(o) /\ Len(o.got) = 1
<1>1. OutcomeOK(o) /\ Ends(o, 1)
  BY 1 \in Nat, GetOK, GetEnds
<1>2. Len(o.got) \in 0..1 /\ Len(o.got) > 0
  BY <1>1 DEF Ends
<1> QED BY <1>1, <1>2

\* The byte after '\r' is eaten if it is '\n', and stays where it is if not.
LEMMA GetlineCrLines ==
  ASSUME IInv, Lines, ~StreamThrows, GetlineCr
  PROVE  Lines'
<1>1. PICK o \in Get(1) :
        LET lf == o.exc = "none" /\ src[o.got[1]] = "lf"
        IN  /\ consumed' = IF lf THEN consumed \o o.got ELSE consumed
            /\ GetlineDone(line, o.exc)
  BY DEF GetlineCr
<1>2. /\ src' = src /\ line' = line /\ InLine(1) /\ Len(line) < todo
      /\ Len(consumed) \in 1..Len(src) /\ src[Len(consumed)] = "cr"
  BY DEF GetlineCr, Lines, streamVars
<1>3. pc' = "idle" /\ call'.from = call.from /\ call'.len = call.len /\ call'.exc = o.exc
  BY <1>1 DEF GetlineDone, Outcall
<1>4. CASE o.exc # "none"
  <2>1. GetlineExact'
    BY <1>3, <1>4 DEF GetlineExact
  <2> QED BY <1>3, <2>1 DEF Lines
<1>5. CASE o.exc = "none"
  <2>1. /\ o.got[1] = Len(consumed) + 1 /\ Len(consumed) + 1 \in 1..Len(src)
        /\ Len(consumed \o o.got) = Len(consumed) + 1
    BY <1>5, GetOne, GotByte
  <2> DEFINE last == call.from + Len(line)
  <2>2. /\ last \in Nat /\ Len(consumed) = last + 1 /\ Len(line) \in Nat /\ call.from \in Nat
        /\ call.len = todo
    BY <1>2 DEF InLine, IInv, Control, CallType
  <2>3. last + 2 = Len(consumed) + 1
    BY <2>2
  <2>4. /\ line = Span(call.from, Len(line)) /\ Len(line) < call.len
        /\ \A i \in 1..Len(line) : ~Terminator(line[i])
    BY <1>2, <2>2 DEF InLine
  <2> HIDE DEF last
  <2>5. CASE src[o.got[1]] = "lf"
    <3>1. Len(consumed') = last + 2
      BY <1>1, <1>5, <2>1, <2>3, <2>5
    <3>2. Exact(line, call.from, call.len, Len(consumed'), call'.left, Window')
      BY <1>2, <2>1, <2>2, <2>3, <2>4, <2>5, <3>1 DEF Exact, last
    <3>3. Exact(line, call.from, call.len, Len(consumed), call.left, Window)'
      BY <1>2, <1>3, <3>2 DEF Exact, Terminator
    <3>4. Whole'
      BY <1>2, <1>3, <2>2, <3>1, <3>3 DEF Whole
    <3>5. GetlineExact'
      BY <3>4, ExactIsExact, PTL
    <3> QED BY <1>3, <3>5 DEF Lines
  <2>6. CASE src[o.got[1]] # "lf"
    <3>1. Len(consumed') = last + 1
      BY <1>1, <1>5, <2>2, <2>6
    <3>2. Exact(line, call.from, call.len, Len(consumed'), call'.left, Window')
      BY <1>2, <2>1, <2>2, <2>3, <2>4, <2>6, <3>1 DEF Exact, last
    <3>3. Exact(line, call.from, call.len, Len(consumed), call.left, Window)'
      BY <1>2, <1>3, <3>2 DEF Exact, Terminator
    <3>4. Whole'
      BY <1>2, <1>3, <2>2, <3>1, <3>3 DEF Whole
    <3>5. GetlineExact'
      BY <3>4, ExactIsExact, PTL
    <3> QED BY <1>3, <3>5 DEF Lines
  <2> QED BY <2>5, <2>6
<1> QED BY <1>4, <1>5

\* The window went to the line; the stream has more, or the line ends with it.
LEMMA GetlineRefillLines ==
  ASSUME IInv, Lines, ~StreamThrows, GetlineRefill
  PROVE  Lines'
<1> DEFINE l == line \o Window
<1>1. /\ pc = "getline" /\ AtEnd /\ line' = l /\ consumed' = consumed \o Window
      /\ src' = src /\ todo' = todo /\ attached' = attached /\ avail' = avail
  BY DEF GetlineRefill, streamVars
<1>2. InLine(0) /\ GetlineExact
  BY <1>1 DEF Lines
<1>3. /\ SubSeq(Window, 1, Len(Window)) = Window /\ Len(Window) \in 0..Len(Window)
      /\ Len(consumed) \in Nat
  <2>1. Len(Window) = Len(mem) - pos /\ Len(Window) \in Nat
    BY WindowIsSpan
  <2>2. SubSeq(Window, 1, Len(Window)) = Window
    BY <2>1, TakeWindow
  <2> QED BY <2>1, <2>2, WindowAt
<1>4. /\ l \in Seq(Nat) /\ Len(l) = Len(line) + Len(Window)
      /\ l = Span(call.from, Len(l)) /\ call.from + Len(l) = Len(consumed) + Len(Window)
      /\ \A i \in 1..Len(l) : ~Terminator(l[i])
  <2>1. Plain(Len(Window))
    BY <1>1 DEF AtEnd
  <2>2. l = line \o SubSeq(Window, 1, Len(Window))
    BY <1>3
  <2> HIDE DEF l
  <2> QED BY <1>2, <1>3, <2>1, <2>2, LineGrows
<1>5. Len(consumed') = Len(consumed) + Len(Window)
  BY <1>1, <1>3, TakenLength
<1>6. Len(l) < todo
  BY <1>1, <1>4 DEF AtEnd
<1>7. /\ call.from \in Nat /\ call.len = todo /\ call.op = "getline"
      /\ Len(line) \in Nat /\ Len(Window) \in Nat
  BY <1>2, WindowAt DEF IInv, Control, CallType, InLine
<1>8. Len(l) \in Nat /\ Len(consumed') = call.from + Len(l) /\ Len(consumed') \in Nat /\ todo \in Nat
  <2>1. todo \in Nat
    BY DEF IInv, Control
  <2> QED BY <1>4, <1>5, <1>7, <2>1
<1> HIDE DEF l
<1>9. CASE UNCHANGED <<pc, call>>
  <2>1. call.from + Len(l) + 0 = Len(consumed') /\ Len(l) <= todo
    BY <1>6, <1>7, <1>8
  <2>2. InLine(0)'
    BY <1>1, <1>4, <1>7, <1>9, <2>1 DEF InLine, Terminator
  <2>3. GetlineExact'
    BY <1>1, <1>9 DEF GetlineExact
  <2> QED BY <1>1, <1>9, <2>2, <2>3 DEF Lines
<1>10. ASSUME attached, 0 \in ReadMinMax(1, cap), spos' = spos,
              mem' = IF l = <<>> THEN mem ELSE <<>>, pos' = Len(mem'),
              GetlineDone(l, IF l = <<>> THEN "eof" ELSE "none")
       PROVE  Lines'
  <2>1. /\ pc' = "idle" /\ call'.from = call.from /\ call'.len = call.len
        /\ call'.exc = (IF l = <<>> THEN "eof" ELSE "none") /\ call'.left = avail - spos'
    BY <1>10 DEF GetlineDone, Outcall
  <2>2. CASE l = <<>>
    <3>1. GetlineExact'
      BY <2>1, <2>2 DEF GetlineExact
    <3> QED BY <2>1, <3>1 DEF Lines
  <2>3. CASE l # <<>>
    <3>1. spos + 0 = avail /\ spos \in Nat /\ avail \in Nat
      <4>1. spos \in Nat /\ avail \in Nat /\ cap \in Nat
        BY DEF IInv, Memory
      <4>2. 1 \in Nat /\ 1 # 0 /\ 0 < 1
        OBVIOUS
      <4> QED BY <1>10, <4>1, <4>2, ReadMinMaxEnds
    <3>2. call'.left = 0
      BY <1>10, <2>1, <3>1
    <3>3. Window' = <<>>
      BY <1>10, <2>3 DEF Window
    <3>4. Exact(line', call'.from, call'.len, Len(consumed'), call'.left, Window')
      BY <1>1, <1>4, <1>6, <1>7, <1>8, <2>1, <3>2, <3>3 DEF Exact
    <3>5. Exact(line, call.from, call.len, Len(consumed), call.left, Window)'
      BY <1>1, <3>4 DEF Exact, Terminator
    <3>6. Whole'
      BY <1>1, <1>7, <1>8, <2>1, <3>5 DEF Whole
    <3>7. GetlineExact'
      BY <3>6, ExactIsExact, PTL
    <3> QED BY <2>1, <3>7 DEF Lines
  <2> QED BY <2>2, <2>3
<1>11. ASSUME GetlineDone(l, IF attached THEN "io" ELSE "eof")
       PROVE  Lines'
  <2>1. pc' = "idle" /\ call'.exc # "none"
    BY <1>11 DEF GetlineDone, Outcall
  <2>2. GetlineExact'
    BY <2>1 DEF GetlineExact
  <2> QED BY <2>1, <2>2 DEF Lines
<1> QED BY <1>9, <1>10, <1>11 DEF GetlineRefill, l

\* Every step: the loop of getline makes the line, and its result stays until the
\* next call.
LEMMA NextLines ==
  ASSUME IInv, Lines, ~StreamThrows, [Next]_vars
  PROVE  Lines'
<1>1. CASE UNCHANGED <<src, mem, pos, pc, line, todo, consumed, call>>
  BY <1>1 DEF Lines, InLine, GetlineExact, Terminator, Window
<1>2. ASSUME pc' \notin {"getline", "getline_cr"}, pc' # "idle" \/ call'.op # "getline"
      PROVE  Lines'
  BY <1>2 DEF Lines, GetlineExact
<1>3. ASSUME NEW len \in Lengths, Read(len) \/ EnsureRead(len)
      PROVE  Lines'
  <2>1. pc' = "idle" /\ call'.op \in {"read", "ensureRead"}
    BY <1>3 DEF Read, EnsureRead, Finished, Outcall
  <2> QED BY <1>2, <2>1
<1>4. CASE OneByte("readByte") \/ OneByte("getByte")
  <2>1. pc' = "idle" /\ call'.op \in {"readByte", "getByte"}
    BY <1>4 DEF OneByte, Finished, Outcall
  <2> QED BY <1>2, <2>1
<1>5. CASE Eof
  <2>1. pc' = "idle" /\ call'.op = "eof"
    <3>1. CASE pos < Len(mem) /\ Finished("eof", 0, 0, "none")
      BY <3>1 DEF Finished, Outcall
    <3>2. ASSUME NEW o \in Fill(1),
                 Finished("eof", 0, IF o.exc = "eof" THEN 1 ELSE 0,
                          IF o.exc = "io" THEN "io" ELSE "none")
          PROVE  pc' = "idle" /\ call'.op = "eof"
      BY <3>2 DEF Finished, Outcall
    <3> QED BY <1>5, <3>1, <3>2 DEF Eof
  <2> QED BY <1>2, <2>1
<1>6. ASSUME NEW len \in Lengths, GetlineCall(len)
      PROVE  Lines'
  <2>1. /\ pc' = "getline" /\ line' = <<>> /\ todo' = len /\ consumed' = consumed
        /\ call'.op = "getline" /\ call'.len = len /\ call'.from = Len(consumed)
    BY <1>6 DEF GetlineCall
  <2>2. len \in Nat /\ Len(consumed) \in Nat
    BY ArgumentsAssumption, WindowAt
  <2>3. Len(line') = 0 /\ line' = Span(Len(consumed), 0) /\ 0 <= len
        /\ Len(consumed) + 0 + 0 = Len(consumed)
    BY <2>1, <2>2 DEF Span
  <2>4. InLine(0)'
    BY <2>1, <2>2, <2>3 DEF InLine
  <2>5. GetlineExact'
    BY <2>1 DEF GetlineExact
  <2> QED BY <2>1, <2>4, <2>5 DEF Lines
<1>7. CASE Getline
  <2>1. CASE GetlineUnbuffered
    <3>1. pc' = "idle" /\ call'.exc = "io"
      BY <2>1 DEF GetlineUnbuffered, GetlineDone, Outcall
    <3>2. GetlineExact'
      BY <3>1 DEF GetlineExact
    <3> QED BY <3>1, <3>2 DEF Lines
  <2>2. CASE GetlineInitbuf
    BY <1>1, <2>2 DEF GetlineInitbuf, streamVars
  <2> QED BY <1>7, <2>1, <2>2, GetlineMaxlenLines, GetlineTerminatorLines, GetlineCrLines,
             GetlineRefillLines DEF Getline
<1>8. ASSUME NEW len \in Lengths, ToOutputCall(len)
      PROVE  Lines'
  BY <1>2, <1>8 DEF ToOutputCall
<1>9. CASE ToOutput
  <2>1. \/ pc' = "to_output"
        \/ pc' = "idle" /\ call'.op = "to_output"
    BY <1>9 DEF ToOutput, ToOutputFill, ToOutputWrite, ToOutputReturn, ToOutputDone, Outcall
  <2> QED BY <1>2, <2>1
<1>10. CASE Resetbuf
  <2>1. pc' = "idle" /\ call'.op = "resetbuf"
    BY <1>10 DEF Resetbuf, Finished, Outcall
  <2> QED BY <1>2, <2>1
<1>11. CASE Grow \/ Attach \/ UNCHANGED vars \/ \E c \in Capacities : Initbuf(c) \/ SetBufsize(c)
  BY <1>1, <1>11 DEF Grow, Attach, vars, bufVars, streamVars, Initbuf, SetBufsize
<1> QED BY <1>3, <1>4, <1>5, <1>6, <1>7, <1>8, <1>9, <1>10, <1>11 DEF Next

(***************************************************************************)
(* What is lost.                                                           *)
(***************************************************************************)

\* A call for bytes that loses some throws, at the end only when nothing is left.
LEMMA ReadLoses ==
  ASSUME IInv, ~StreamThrows, NEW len \in Nat, NEW o \in Get(len), Become(o), NEW op, NEW n,
         NEW e, e = o.exc \/ (o.exc = "none" /\ e = "eof" /\ Len(o.got) # len),
         Take(o.got, e), Finished(op, len, n, e), dropped' # dropped
  PROVE  call'.exc # "none" /\ (call'.exc = "eof" => call'.left = 0)
<1>1. Ends(o, len)
  BY GetEnds
<1>2. e # "none"
  BY DEF Take
<1>3. call'.exc = e /\ call'.left = (IF attached THEN avail - o.spos ELSE 0)
  BY DEF Finished, Outcall, Become
<1>4. avail \in Nat
  BY DEF IInv, Memory
<1>5. attached => o.spos = avail
  BY <1>1, <1>2 DEF Ends
<1> QED BY <1>2, <1>3, <1>4, <1>5

\* Outside to_output only a throw or resetbuf drops bytes, and a throw of eof leaves the stream empty.
LEMMA NextLoses ==
  ASSUME IInv, ~StreamThrows, Next, dropped' # dropped, pc # "to_output"
  PROVE  /\ call'.exc # "none" \/ call'.op = "resetbuf"
         /\ call'.exc = "eof" => call'.left = 0
<1>1. ASSUME NEW len \in Lengths, Read(len)
      PROVE  call'.exc # "none" /\ (call'.exc = "eof" => call'.left = 0)
  <2>1. len \in Nat
    BY ArgumentsAssumption
  <2>2. PICK o \in Get(len) :
          /\ Become(o) /\ Take(o.got, o.exc)
          /\ Finished("read", len, IF o.exc = "none" THEN Len(o.got) ELSE 0, o.exc)
    BY <1>1 DEF Read
  <2> QED BY <2>1, <2>2, ReadLoses
<1>2. ASSUME NEW len \in Lengths, EnsureRead(len)
      PROVE  call'.exc # "none" /\ (call'.exc = "eof" => call'.left = 0)
  <2>1. len \in Nat
    BY ArgumentsAssumption
  <2>2. PICK o \in Get(len) :
          LET e == IF o.exc = "none" /\ Len(o.got) # len THEN "eof" ELSE o.exc
          IN  /\ Become(o) /\ Take(o.got, e)
              /\ Finished("ensureRead", len, IF e = "none" THEN len ELSE 0, e)
    BY <1>2 DEF EnsureRead
  <2> DEFINE e == IF o.exc = "none" /\ Len(o.got) # len THEN "eof" ELSE o.exc
             n == IF e = "none" THEN len ELSE 0
  <2>3. /\ Become(o) /\ Take(o.got, e) /\ Finished("ensureRead", len, n, e)
        /\ e = o.exc \/ (o.exc = "none" /\ e = "eof" /\ Len(o.got) # len)
    BY <2>2
  <2> HIDE DEF e, n
  <2> QED BY <2>1, <2>3, ReadLoses
<1>3. ASSUME NEW op, OneByte(op)
      PROVE  call'.exc # "none" /\ (call'.exc = "eof" => call'.left = 0)
  <2>1. PICK o \in Get(1) :
          /\ Become(o) /\ Take(o.got, o.exc)
          /\ Finished(op, 1, IF o.exc = "none" THEN 1 ELSE 0, o.exc)
    BY <1>3 DEF OneByte
  <2> QED BY 1 \in Nat, <2>1, ReadLoses
\* eof() pushes its byte back.
<1>4. CASE Eof
  <2>1. CASE UNCHANGED dropped
    BY <2>1
  <2>2. ASSUME pos = Len(mem), MayPeek, NEW o \in Fill(1),
               Take(IF o.mem = <<>> THEN o.got ELSE <<>>, "peeked")
        PROVE  FALSE
    <3>1. Len(mem) \in Nat /\ 1 > Len(mem) - pos
      BY <2>2 DEF IInv, Memory
    <3>2. o.exc \in {"none", "eof"}
      BY <2>2, <3>1, FillEnds DEF Ends
    <3>3. (IF o.mem = <<>> THEN o.got ELSE <<>>) = <<>>
      BY <2>2, <3>2, EofPeeks
    <3>4. BytesOf(<<>>) = {}
      BY DEF BytesOf
    <3> QED BY <2>2, <3>3, <3>4 DEF Take
  <2> QED BY <1>4, <2>1, <2>2 DEF Eof
<1>5. CASE Getline
  <2>1. CASE GetlineCr
    <3>1. PICK o \in Get(1) :
            /\ spos' = o.spos /\ attached' = attached
            /\ dropped' = IF o.exc = "none" THEN dropped ELSE dropped \cup BytesOf(line)
            /\ GetlineDone(line, o.exc)
      <4>1. PICK o \in Get(1) :
              /\ Become([o EXCEPT !.pos = IF o.exc = "none" /\ ~(o.exc = "none" /\ src[o.got[1]] = "lf")
                                          THEN @ - 1 ELSE @])
              /\ dropped' = IF o.exc = "none" THEN dropped ELSE dropped \cup BytesOf(line)
              /\ GetlineDone(line, o.exc)
        BY <2>1 DEF GetlineCr
      <4> QED BY <4>1 DEF Become, Get, Fill, FillDetached, FillUnbuffered, FillDirect, FillBuffered, Outcome
    <3>2. Ends(o, 1) /\ o.exc # "none"
      BY 1 \in Nat, <3>1, GetEnds
    <3>3. call'.exc = o.exc /\ call'.left = (IF attached THEN avail - o.spos ELSE 0)
      BY <3>1 DEF GetlineDone, Outcall
    <3>4. avail \in Nat
      BY DEF IInv, Memory
    <3> QED BY <3>2, <3>3, <3>4 DEF Ends
  <2>2. CASE GetlineRefill
    <3>1. ~attached /\ GetlineDone(line \o Window, "eof")
      BY <2>2 DEF GetlineRefill
    <3>2. call'.exc = "eof" /\ call'.left = 0
      BY <3>1 DEF GetlineDone, Outcall
    <3> QED BY <3>2
  <2> QED BY <1>5, <2>1, <2>2 DEF Getline, GetlineMaxlen, GetlineTerminator, GetlineUnbuffered,
             GetlineInitbuf
<1>6. CASE Resetbuf
  <2>1. call'.op = "resetbuf" /\ call'.exc = "none"
    BY <1>6 DEF Resetbuf, Finished, Outcall
  <2> QED BY <2>1
<1>7. CASE ToOutput
  BY <1>7 DEF ToOutput, ToOutputFill, ToOutputWrite, ToOutputReturn
<1>8. ASSUME NEW len \in Lengths, GetlineCall(len) \/ ToOutputCall(len)
      PROVE  FALSE
  BY <1>8 DEF GetlineCall, ToOutputCall
<1>9. CASE Grow \/ Attach \/ \E c \in Capacities : Initbuf(c) \/ SetBufsize(c)
  BY <1>9 DEF Grow, Attach, Initbuf, SetBufsize
<1> QED BY <1>1, <1>2, <1>3, <1>4, <1>5, <1>6, <1>7, <1>8, <1>9 DEF Next

\* read comes short, and eof() is TRUE, only at the end of the stream, and after
\* FALSE there is a byte in the buffer, whatever the stream returned to refills.
THEOREM EndIsTrueAlways ==
  ASSUME ~StreamThrows, 1 \notin Capacities
  PROVE  Spec => []EndIsTrue
<1>1. Init => EndIsTrue
  BY DEF Init, EndIsTrue
<1>2. IInv /\ EndIsTrue /\ [Next]_vars => EndIsTrue'
  BY EndIsTrueNext
<1> QED BY <1>1, <1>2, Invariance, PTL DEF Spec

\* A getline that returned took its line, free of terminators, and one whole CR, LF
\* or CR LF, wherever refills cut them, and no byte more.
THEOREM GetlineExactAlways ==
  ASSUME ~StreamThrows, 1 \notin Capacities
  PROVE  Spec => []GetlineExact
<1>1. Init => Lines
  BY DEF Init, Lines, GetlineExact
<1>2. IInv /\ Lines /\ [Next]_vars => Lines'
  BY NextLines
<1>3. Lines => GetlineExact
  BY DEF Lines
<1> QED BY <1>1, <1>2, <1>3, Invariance, PTL DEF Spec

\* Bytes are lost to the caller only by a call that throws, or where the caller
\* gives them up, and by an EndOfFileException only when nothing is left.
THEOREM DroppedByThrowAlways ==
  ASSUME ~StreamThrows, 1 \notin Capacities
  PROVE  Spec => DroppedByThrow
<1>1. IInv => [(dropped' # dropped /\ pc # "to_output") =>
                 /\ call'.exc # "none" \/ call'.op = "resetbuf"
                 /\ call'.exc = "eof" => call'.left = 0]_vars
               \/ ~[Next]_vars
  <2> SUFFICES ASSUME IInv, [Next]_vars, ~UNCHANGED vars, dropped' # dropped, pc # "to_output"
               PROVE  /\ call'.exc # "none" \/ call'.op = "resetbuf"
                      /\ call'.exc = "eof" => call'.left = 0
    OBVIOUS
  <2> QED BY NextLoses
<1> QED BY <1>1, Invariance, PTL DEF Spec, DroppedByThrow
=============================================================================
