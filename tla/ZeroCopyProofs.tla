---------------------------- MODULE ZeroCopyProofs ----------------------------
(***************************************************************************)
(* The bytes that ZcReader takes and ZcWriter puts are those of the        *)
(* stream, in order, each once, for all streams, windows and lengths:      *)
(* ZeroCopy implements BytePipe.                                           *)
(***************************************************************************)
EXTENDS ZeroCopy, SequenceTheorems, TLAPS

(***************************************************************************)
(* Facts about Span.                                                       *)
(***************************************************************************)

\* A span is a sequence of n bytes.
LEMMA SpanIsSeq ==
  ASSUME NEW a \in Nat, NEW n \in Nat
  PROVE  /\ Span(a, n) \in Seq(Nat)
         /\ Len(Span(a, n)) = n
         /\ DOMAIN Span(a, n) = 1..n
         /\ \A i \in 1..n : Span(a, n)[i] = a + i
  BY DEF Span

\* Adjacent spans concatenate to a span.
LEMMA SpanConcat ==
  ASSUME NEW a \in Nat, NEW b \in Nat, NEW c \in Nat
  PROVE  Span(a, b) \o Span(a + b, c) = Span(a, b + c)
<1> DEFINE s == Span(a, b)
           t == Span(a + b, c)
           u == Span(a, b + c)
<1>1. a + b \in Nat /\ b + c \in Nat
  OBVIOUS
<1>2. /\ s \in Seq(Nat) /\ Len(s) = b
      /\ t \in Seq(Nat) /\ Len(t) = c
      /\ u \in Seq(Nat) /\ Len(u) = b + c
  BY <1>1, SpanIsSeq
<1>3. /\ \A i \in 1..b : s[i] = a + i
      /\ \A i \in 1..c : t[i] = a + b + i
      /\ \A i \in 1..(b + c) : u[i] = a + i
  BY DEF Span
<1> HIDE DEF s, t, u
<1>4. /\ s \o t \in Seq(Nat)
      /\ Len(s \o t) = Len(s) + Len(t)
      /\ \A i \in 1..(Len(s) + Len(t)) :
            (s \o t)[i] = IF i <= Len(s) THEN s[i] ELSE t[i - Len(s)]
  BY <1>2, ConcatProperties
<1>5. ASSUME NEW i \in 1..Len(u) PROVE (s \o t)[i] = u[i]
  <2>1. i \in 1..(Len(s) + Len(t)) /\ u[i] = a + i
    BY <1>2, <1>3
  <2>2. CASE i <= b
    BY <1>2, <1>3, <1>4, <2>1, <2>2
  <2>3. CASE i > b
    <3>1. i - b \in 1..c
      BY <1>2, <2>1, <2>3
    <3>2. t[i - b] = a + b + (i - b)
      BY <1>3, <3>1
    <3> QED BY <1>2, <1>4, <2>1, <2>3, <3>2
  <2> QED BY <1>2, <2>2, <2>3
<1>6. s \o t = u
  BY <1>2, <1>4, <1>5, SeqEqual
<1> QED BY <1>6 DEF s, t, u

\* A span of no bytes.
LEMMA SpanNone == ASSUME NEW a \in Nat PROVE Span(a, 0) = <<>>
<1>1. Span(a, 0) \in Seq(Nat) /\ Len(Span(a, 0)) = 0
  BY SpanIsSeq
<1> QED BY <1>1, EmptySeq

(***************************************************************************)
(* The inductive invariant.  None of the properties is inductive: what the *)
(* loops do rests on what the first pass left in job and, for a line, on   *)
(* how far it has come.                                                    *)
(***************************************************************************)
Classes == {"cr", "lf", "other"}

Ops  == {"none", "read", "ensureRead", "eof", "getline", "write", "flush", "close"}
Excs == {"none", "short", "eof", "io", "delay"}
Jobs == [op : Ops, len : Nat, n : Nat, first : BOOLEAN]
Calls == [op : Ops, len : Nat, from : Nat, exc : Excs]

Types ==
  /\ kind \in {"reader", "writer"} /\ src \in Seq(Classes)
  /\ beg \in Nat \cup {Nowhere} /\ pos \in Nat /\ end \in Nat /\ pos <= end
  /\ fresh \in BOOLEAN
  /\ avail \in 0..Len(src) /\ lent \in Nat /\ final \in Nat /\ given \in Nat
  /\ tape \in Seq(Int) /\ line \in Seq(Nat) /\ done \in Seq(Nat)
  /\ closed \in BOOLEAN
  /\ pc \in {"idle", "fill", "getline", "getline_cr"}
  /\ job \in Jobs
  /\ call \in Calls

\* A call in its loop has not what it asked for.  Until its first window comes it
\* has counted what is left in the old one; after that nothing is left in any.
Loop ==
  pc = "fill" =>
    /\ job.n < job.len
    /\ job.first => job.n = Room
    /\ ~job.first => Room = 0 /\ job.n > 0
    /\ job.op = "eof" => job.n = 0 /\ job.len = 1
    /\ job.op # "getline"

\* A reader's window ends where the next will start, and what calls have taken are
\* all bytes before m_pos.
Reading ==
  kind = "reader" =>
    /\ end = lent /\ lent <= avail
    /\ Room = 0 \/ fresh
    /\ done = Span(0, pos)

\* The line is what was taken since the call began, less the bytes behind it.
InLine(behind) ==
  /\ kind = "reader"
  /\ job.op = "getline" /\ call.op = "getline" /\ job.len = call.len
  /\ call.from + Len(line) + behind = pos
  /\ line = Span(call.from, Len(line)) /\ Len(line) <= job.len
  /\ \A i \in 1..Len(line) : ~Terminator(line[i])

Lines ==
  /\ pc = "getline" => InLine(0)
  /\ pc = "getline_cr" => InLine(1) /\ src[pos] = "cr"
  /\ kind = "reader" => LineExact
  /\ kind = "writer" => call.op # "getline"

\* A writer has one loop only, and none when it is destroyed.
Writing ==
  kind = "writer" =>
    /\ pc \in {"idle", "fill"} /\ fresh
    /\ pc = "fill" => job.op = "write" /\ job.len <= given
    /\ closed => pc = "idle"

\* The tape t begins with the bytes d.
Holds(t, d) == Len(d) <= Len(t) /\ \A i \in 1..Len(d) : t[i] = d[i]

\* What m_pos will have passed when the window is left.
Passed == IF job.first THEN done \o Bytes(0, job.n) ELSE done

\* The tape of a careful client's writer holds what m_pos has passed, and what the
\* stream takes for written is no more than that, and all but the last window.
Written ==
  (kind = "writer" /\ Careful) =>
    /\ final <= lent /\ final <= pos /\ end <= final + MaxLend
    /\ Len(done) = pos /\ Holds(tape, done)
    /\ pc = "fill" => lent = end /\ Holds(tape, Passed)
    /\ closed /\ beg # Nowhere => final = pos

IInv == Types /\ Loop /\ Reading /\ Lines /\ Writing /\ Written

\* A new reader or writer has no window and has moved no byte.
LEMMA InitIInv == Init => IInv
<1> SUFFICES ASSUME Init PROVE IInv
  OBVIOUS
<1>1. kind \in {"reader", "writer"} /\ src \in Seq(Classes)
  BY InputsAssumption DEF Init, Classes
<1>2. avail \in 0..Len(src)
  BY <1>1 DEF Init
<1>3. /\ beg = 0 /\ pos = 0 /\ end = 0 /\ fresh = TRUE /\ lent = 0 /\ tape = <<>> /\ final = 0
      /\ pc = "idle" /\ job = NoJob /\ line = <<>> /\ given = 0 /\ done = <<>> /\ closed = FALSE
      /\ call = [op |-> "none", len |-> 0, from |-> 0, exc |-> "none"]
  BY DEF Init
<1>4. Types
  <2>1. <<>> \in Seq(Nat) /\ <<>> \in Seq(Int)
    OBVIOUS
  <2>2. /\ job \in Jobs
        /\ call \in Calls
    BY <1>3 DEF NoJob, Jobs, Calls, Ops, Excs
  <2>3. /\ beg \in Nat /\ pos \in Nat /\ end \in Nat /\ pos <= end
        /\ lent \in Nat /\ final \in Nat /\ given \in Nat
    <3>1. beg = 0 /\ pos = 0 /\ end = 0 /\ lent = 0 /\ final = 0 /\ given = 0
      BY <1>3
    <3> QED BY <3>1
  <2>5. /\ fresh \in BOOLEAN /\ closed \in BOOLEAN
        /\ pc \in {"idle", "fill", "getline", "getline_cr"}
    BY <1>3
  <2>4. tape \in Seq(Int) /\ line \in Seq(Nat) /\ done \in Seq(Nat)
    BY <1>3, <2>1
  <2> QED BY <1>1, <1>2, <2>2, <2>3, <2>4, <2>5 DEF Types
<1>5. Reading
  BY <1>2, <1>3, SpanNone DEF Reading, Room
<1>6. Lines /\ Loop /\ Writing
  BY <1>3 DEF Lines, Loop, Writing, LineExact
<1>7. Written
  BY <1>3, InputsAssumption DEF Written, Holds
<1> QED BY <1>4, <1>5, <1>6, <1>7 DEF IInv

\* What of the invariant is about the other class.
LEMMA ReaderOK ==
  ASSUME kind' = "reader", Types', Loop', Reading', Lines'
  PROVE  IInv'
  BY DEF IInv, Writing, Written

\* For a writer the reading parts of the invariant are void: the others suffice.
LEMMA WriterOK ==
  ASSUME kind' = "writer", Types', Loop', Writing', Written', call'.op # "getline"
  PROVE  IInv'
  BY DEF IInv, Reading, Lines, Writing, InLine

\* A reader takes the next k bytes of the window.
LEMMA TakesNext ==
  ASSUME NEW p \in Nat, NEW k \in Nat
  PROVE  /\ Span(0, p) \o Span(p, k) = Span(0, p + k)
         /\ Span(0, p + k) \in Seq(Nat) /\ Len(Span(0, p + k)) = p + k
<1>1. 0 + p = p /\ 0 \in Nat /\ p + k \in Nat
  OBVIOUS
<1>2. Span(0, p) \o Span(0 + p, k) = Span(0, p + k)
  BY <1>1, SpanConcat
<1> QED BY <1>1, <1>2, SpanIsSeq

\* read and ensureRead: taken from the window, or the start of the refilling loop.
LEMMA ReadIInv ==
  ASSUME IInv, NEW op \in {"read", "ensureRead"}, NEW len \in Lengths, Read(op, len)
  PROVE  IInv'
<1>0. len \in Nat /\ len > 0
  BY InputsAssumption
<1>1. kind = "reader" /\ kind' = "reader" /\ pc = "idle" /\ ~closed /\ UNCHANGED client
  BY DEF Read, Can, client
<1>2. Types /\ Loop /\ Reading /\ Lines
  BY DEF IInv
<1>3. CASE len <= Room
  <2>1. /\ pos' = pos + len /\ done' = done \o Span(pos, len)
        /\ call' = [op |-> op, len |-> len, from |-> Len(done), exc |-> "none"]
        /\ UNCHANGED <<beg, end, fresh, src, avail, lent, tape, final, throws, pc, job, line>>
    BY <1>3 DEF Read, Called, stream
  <2>2. done' = Span(0, pos + len) /\ done' \in Seq(Nat)
    <3>1. pos \in Nat /\ done = Span(0, pos)
      BY <1>1, <1>2 DEF Types, Reading
    <3> QED BY <1>0, <2>1, <3>1, TakesNext
  <2>3. Types'
    <3>1. pos' \in Nat /\ pos' <= end' /\ Len(done) \in Nat
      BY <1>0, <1>2, <1>3, <2>1 DEF Types, Room
    <3>2. call' \in Calls
      BY <1>0, <2>1, <3>1 DEF Calls, Ops, Excs
    <3> QED BY <1>1, <1>2, <2>1, <2>2, <3>1, <3>2 DEF Types, client
  <2>4. Reading'
    BY <1>0, <1>1, <1>2, <1>3, <2>1, <2>2 DEF Types, Reading, Room
  <2>5. Loop' /\ Lines'
    BY <1>1, <2>1 DEF Loop, Lines, LineExact
  <2> QED BY <1>1, <2>3, <2>4, <2>5, ReaderOK
<1>4. CASE ~(len <= Room)
  <2>1. /\ pc' = "fill" /\ job' = [op |-> op, len |-> len, n |-> Room, first |-> TRUE]
        /\ call' = [op |-> op, len |-> len, from |-> Len(done), exc |-> "none"]
        /\ UNCHANGED <<beg, pos, end, fresh, src, avail, lent, tape, final, throws, line, done>>
    BY <1>4 DEF Read, Start, Called, stream, pointers
  <2>2. Room \in Nat /\ Room' = Room
    BY <1>2, <2>1 DEF Types, Room
  <2>3. Types'
    <3>1. Len(done) \in Nat
      BY <1>2 DEF Types
    <3>2. /\ job' \in Jobs
          /\ call' \in Calls
      BY <1>0, <2>1, <2>2, <3>1 DEF Jobs, Calls, Ops, Excs
    <3> QED BY <1>1, <1>2, <2>1, <3>2 DEF Types, client
  <2>4. Reading'
    BY <1>1, <1>2, <2>1, <2>2 DEF Reading
  <2>5. Loop' /\ Lines'
    BY <1>0, <1>1, <1>4, <2>1, <2>2 DEF Loop, Lines, LineExact
  <2> QED BY <1>1, <2>3, <2>4, <2>5, ReaderOK
<1> QED BY <1>3, <1>4

\* What the end of a call leaves.
LEMMA FinishOK ==
  ASSUME Types, NEW e \in Excs, Finish(e)
  PROVE  /\ pc' = "idle" /\ job' \in Jobs /\ call' \in Calls
         /\ call'.op = job.op /\ call'.len = job.len /\ call'.from = call.from
         /\ call'.exc = e
<1>1. job \in Jobs /\ call \in Calls
  BY DEF Types
<1>2. /\ pc' = "idle" /\ job' = [op |-> "none", len |-> 0, n |-> 0, first |-> TRUE]
      /\ call' = [op |-> job.op, len |-> job.len, from |-> call.from, exc |-> e]
  BY DEF Finish, NoJob
<1> QED BY <1>1, <1>2 DEF Jobs, Calls, Ops

\* eof with bytes in the window answers at once; else it starts the loop that asks for more.
LEMMA EofIInv ==
  ASSUME IInv, Eof
  PROVE  IInv'
<1>1. kind = "reader" /\ kind' = "reader" /\ pc = "idle" /\ ~closed /\ UNCHANGED client
  BY DEF Eof, Can, client
<1>2. Types /\ Loop /\ Reading /\ Lines
  BY DEF IInv
<1>3. Room \in Nat /\ Len(done) \in Nat
  BY <1>2 DEF Types, Room
<1>4. /\ call' = [op |-> "eof", len |-> 1, from |-> Len(done), exc |-> "none"]
      /\ UNCHANGED <<beg, pos, end, fresh, src, avail, lent, tape, final, line, done>>
  BY DEF Eof, Start, Called, stream, pointers
<1>5. \/ UNCHANGED <<pc, job>>
      \/ /\ Room = 0 /\ pc' = "fill"
         /\ job' = [op |-> "eof", len |-> 1, n |-> Room, first |-> TRUE]
  BY <1>3 DEF Eof, Start
<1>6. call' \in Calls /\ job' \in Jobs /\ pc' \in {"idle", "fill", "getline", "getline_cr"}
  <2>1. call' \in Calls
    BY <1>3, <1>4 DEF Calls, Ops, Excs
  <2>2. CASE UNCHANGED <<pc, job>>
    BY <1>2, <2>1, <2>2 DEF Types
  <2>3. CASE pc' = "fill" /\ job' = [op |-> "eof", len |-> 1, n |-> Room, first |-> TRUE]
    BY <1>3, <2>1, <2>3 DEF Jobs, Ops
  <2> QED BY <1>5, <2>2, <2>3
<1>7. Types'
  BY <1>1, <1>2, <1>4, <1>6 DEF Types, client
<1>8. Room' = Room
  BY <1>4 DEF Room
<1>9. Reading'
  BY <1>1, <1>2, <1>4, <1>8 DEF Reading
<1>10. Loop' /\ Lines'
  BY <1>1, <1>4, <1>5, <1>8 DEF Loop, Lines, LineExact
<1> QED BY <1>1, <1>7, <1>9, <1>10, ReaderOK

\* A source that gains a byte leaves window and position as they were.
LEMMA GrowIInv ==
  ASSUME IInv, Grow
  PROVE  IInv'
<1>1. kind = "reader" /\ kind' = "reader" /\ avail' = avail + 1 /\ avail < Len(src)
  BY DEF Grow
<1>2. /\ UNCHANGED <<beg, pos, end, fresh, src, lent, tape, final, pc, job, line, given, done>>
      /\ UNCHANGED <<closed, call>>
  BY DEF Grow, pointers
<1>3. Types /\ Loop /\ Reading /\ Lines
  BY DEF IInv
<1>4. Types'
  <2>1. avail' \in 0..Len(src)
    BY <1>1, <1>3 DEF Types
  <2> QED BY <1>1, <1>2, <1>3, <2>1 DEF Types
<1>5. Room' = Room
  BY <1>2 DEF Room
<1>6. Reading'
  <2>1. avail \in Nat /\ lent \in Nat
    BY <1>3 DEF Types
  <2>2. lent <= avail'
    BY <1>1, <1>3, <2>1 DEF Reading
  <2> QED BY <1>1, <1>2, <1>3, <1>5, <2>2 DEF Reading
<1>7. Loop'
  BY <1>2, <1>3, <1>5 DEF Loop
<1>8. Lines'
  BY <1>1, <1>2, <1>3 DEF Lines, InLine, LineExact, Terminator
<1> QED BY <1>1, <1>4, <1>6, <1>7, <1>8, ReaderOK

\* How many bytes a window can bring.
LEMMA LendsOK ==
  ASSUME IInv, kind = "reader", NEW n \in Lends
  PROVE  /\ n \in Nat /\ lent + n <= avail
         /\ n = 0 => lent = avail
<1>1. avail \in Nat /\ lent \in Nat /\ lent <= avail
  BY DEF IInv, Types, Reading
<1>2. n \in 0..Least(MaxLend, avail - lent) /\ (n = 0 <=> avail = lent)
  BY DEF Lends
<1>3. MaxLend \in Nat
  BY InputsAssumption
<1> QED BY <1>1, <1>2, <1>3 DEF Least

\* A reader's window is lent to its end.
LEMMA WindowOK ==
  ASSUME IInv, kind = "reader"
  PROVE  /\ pos \in Nat /\ lent \in Nat /\ Room \in Nat
         /\ end = lent /\ pos + Room = lent /\ done = Span(0, pos)
         /\ done \o Window = Span(0, lent) /\ Window = Span(pos, Room)
         /\ Span(0, lent) \in Seq(Nat)
<1>1. pos \in Nat /\ lent \in Nat /\ end = lent /\ pos <= end /\ done = Span(0, pos)
  BY DEF IInv, Types, Reading
<1>2. Room \in Nat /\ pos + Room = lent
  BY <1>1 DEF Room
<1>3. done \o Window = Span(0, lent) /\ Span(0, lent) \in Seq(Nat)
  BY <1>1, <1>2, TakesNext DEF Window
<1> QED BY <1>1, <1>2, <1>3 DEF Window

\* One zcRead of the refilling loop: the rest of the window was copied, the new one follows it.
LEMMA FillIInv ==
  ASSUME IInv, Fill
  PROVE  IInv'
<1>0. kind = "reader" /\ pc = "fill" /\ UNCHANGED <<client, line>>
  BY DEF Fill
<1>1. kind' = "reader" /\ UNCHANGED <<given, closed, line>>
  BY <1>0 DEF client
<1>2. Types /\ Loop /\ Reading /\ Lines
  BY DEF IInv
<1>3. PICK n \in Lends \ {0} :
        LET k == Least(job.len - job.n, n)
        IN  /\ NewWindow(n, IF job.op = "eof" THEN 0 ELSE k)
            /\ done' = IF job.op = "eof" THEN done
                       ELSE (IF job.first THEN done \o Window ELSE done) \o Span(lent, k)
            /\ IF job.n + k = job.len THEN Finish("none")
               ELSE job' = [job EXCEPT !.n = @ + k, !.first = FALSE] /\ UNCHANGED <<pc, call>>
  BY DEF Fill
<1> DEFINE k == Least(job.len - job.n, n)
           t == IF job.op = "eof" THEN 0 ELSE k
<1>4. n \in Nat /\ n > 0 /\ lent + n <= avail
  BY <1>0, LendsOK
<1>5. /\ job.n \in Nat /\ job.len \in Nat /\ job.n < job.len
      /\ job \in Jobs /\ call \in Calls
  BY <1>0, <1>2 DEF Types, Loop, Jobs
<1>6. k \in Nat /\ k <= n /\ k > 0 /\ k <= job.len - job.n /\ (k = n \/ job.n + k = job.len)
  BY <1>4, <1>5 DEF Least
<1>7. /\ beg' = lent /\ pos' = lent + t /\ end' = lent + n /\ fresh' = TRUE
      /\ lent' = lent + n
      /\ UNCHANGED <<src, avail, tape, final, throws>>
  BY <1>3 DEF NewWindow
<1>8. done' = IF job.op = "eof" THEN done
              ELSE (IF job.first THEN done \o Window ELSE done) \o Span(lent, k)
  BY <1>3
<1>9. \/ job.n + k = job.len /\ Finish("none")
      \/ /\ k = n /\ job.n + k # job.len
         /\ job' = [job EXCEPT !.n = @ + k, !.first = FALSE] /\ UNCHANGED <<pc, call>>
  BY <1>3, <1>6
<1> HIDE DEF k
<1>10. t \in Nat /\ t <= n
  BY <1>4, <1>6
<1>11. pos \in Nat /\ lent \in Nat /\ Room \in Nat /\ pos + Room = lent /\ done = Span(0, pos)
  BY <1>0, WindowOK
<1>12. done' = Span(0, lent + t) /\ done' \in Seq(Nat)
  <2>1. CASE job.op = "eof"
    <3>1. job.n = 0 /\ Room = 0
      BY <1>0, <1>2, <1>5, <2>1 DEF Loop
    <3>2. lent = pos /\ lent + t = pos
      BY <1>11, <2>1, <3>1
    <3> QED BY <1>2, <1>8, <1>11, <2>1, <3>2 DEF Types
  <2>2. CASE job.op # "eof"
    <3>1. (IF job.first THEN done \o Window ELSE done) = Span(0, lent)
      <4>1. CASE job.first
        BY <1>0, <4>1, WindowOK
      <4>2. CASE ~job.first
        <5>1. pos = lent
          BY <1>0, <1>2, <1>11, <4>2 DEF Loop
        <5> QED BY <1>11, <4>2, <5>1
      <4> QED BY <4>1, <4>2
    <3>2. done' = Span(0, lent) \o Span(lent, k) /\ t = k
      BY <1>8, <2>2, <3>1
    <3> QED BY <1>6, <1>11, <3>2, TakesNext
  <2> QED BY <2>1, <2>2
<1> HIDE DEF t
<1>13. Reading'
  <2>1. lent' <= avail' /\ end' = lent' /\ fresh' = TRUE /\ done' = Span(0, pos')
    BY <1>4, <1>7, <1>12
  <2> QED BY <2>1 DEF Reading
<1>14. /\ beg' \in Nat \cup {Nowhere} /\ pos' \in Nat /\ end' \in Nat /\ pos' <= end' /\ lent' \in Nat
       /\ fresh' \in BOOLEAN
  BY <1>4, <1>7, <1>10, <1>11
<1>15. CASE job.n + k = job.len /\ Finish("none")
  <2>1. pc' = "idle" /\ job' \in Jobs /\ call' \in Calls /\ call'.op = job.op
    BY <1>2, <1>15, FinishOK DEF Excs
  <2>2. Types'
    BY <1>1, <1>2, <1>7, <1>12, <1>14, <2>1 DEF Types
  <2>3. Loop' /\ Lines'
    BY <1>0, <1>1, <1>2, <2>1 DEF Loop, Lines, LineExact
  <2> QED BY <1>1, <1>13, <2>2, <2>3, ReaderOK
<1>16. CASE /\ k = n /\ job.n + k # job.len
            /\ job' = [job EXCEPT !.n = @ + k, !.first = FALSE] /\ UNCHANGED <<pc, call>>
  <2>1. /\ job' \in Jobs /\ job'.op = job.op /\ job'.len = job.len /\ job'.n = job.n + k
        /\ job'.first = FALSE
    <3>1. job.n + k \in Nat /\ job \in [op : Ops, len : Nat, n : Nat, first : BOOLEAN]
      BY <1>5, <1>6 DEF Jobs
    <3>2. job' = [job EXCEPT !.n = job.n + k, !.first = FALSE]
      BY <1>16
    <3> QED BY <3>1, <3>2 DEF Jobs
  <2>2. pc' = "fill" /\ call' \in Calls
    BY <1>0, <1>5, <1>16
  <2>3. Types'
    BY <1>1, <1>2, <1>7, <1>12, <1>14, <2>1, <2>2 DEF Types
  <2>4. job.op # "eof" /\ t = k
    <3>1. job.op = "eof" => job.n = 0 /\ job.len = 1
      BY <1>0, <1>2 DEF Loop
    <3>2. job.op # "eof"
      BY <1>5, <1>6, <1>16, <3>1
    <3> QED BY <3>2 DEF t
  <2>5. Room' = 0
    BY <1>4, <1>7, <1>11, <1>16, <2>4 DEF Room
  <2>6. job'.n < job'.len /\ job'.n > 0
    BY <1>5, <1>6, <1>16, <2>1
  <2>7. Loop'
    BY <1>0, <1>2, <2>1, <2>4, <2>5, <2>6 DEF Loop
  <2>8. Lines'
    BY <1>0, <1>1, <2>2 DEF Lines, LineExact
  <2> QED BY <1>1, <1>13, <2>3, <2>7, <2>8, ReaderOK
<1> QED BY <1>9, <1>15, <1>16

\* The end of the source inside the loop: read returns short, ensureRead throws.
LEMMA FillEndIInv ==
  ASSUME IInv, FillEnd
  PROVE  IInv'
<1>0. kind = "reader" /\ pc = "fill"
  BY DEF FillEnd
<1>1. kind' = "reader" /\ UNCHANGED <<given, closed, line, src, avail, lent, tape, final>>
  BY <1>0 DEF client, stream, FillEnd
<1>2. Types /\ Loop /\ Reading /\ Lines
  BY DEF IInv
<1> DEFINE e == IF job.op = "read" /\ job.n > 0 THEN "short" ELSE "eof"
<1>3. pc' = "idle" /\ job' \in Jobs /\ call' \in Calls /\ call'.op = job.op
  <2>1. e \in Excs /\ Finish(e)
    BY DEF FillEnd, Excs
  <2> QED BY <1>2, <2>1, FinishOK
<1>4. Loop' /\ Lines'
  BY <1>0, <1>1, <1>2, <1>3 DEF Loop, Lines, LineExact
<1>5. /\ pos \in Nat /\ lent \in Nat /\ Room \in Nat /\ end = lent /\ pos + Room = lent
      /\ done = Span(0, pos)
  BY <1>0, WindowOK
<1>6. /\ beg' \in Nat \cup {Nowhere} /\ pos' \in Nat /\ end' = lent /\ pos' = end'
      /\ fresh' \in BOOLEAN /\ done' = Span(0, pos') /\ done' \in Seq(Nat)
  <2>1. CASE job.n = 0
    <3>1. fresh' = FALSE /\ UNCHANGED <<beg, pos, end, done>>
      BY <2>1 DEF FillEnd
    <3>2. Room = 0
      BY <1>0, <1>2, <2>1 DEF Loop
    <3>3. pos = lent
      BY <1>5, <3>2
    <3> QED BY <1>2, <1>5, <3>1, <3>3 DEF Types
  <2>2. CASE job.n # 0
    <3>1. beg' = lent /\ pos' = lent /\ end' = lent /\ fresh' = TRUE
      BY <2>2 DEF FillEnd, NoWindow
    <3>2. done' = IF job.first THEN done \o Window ELSE done
      BY <2>2 DEF FillEnd
    <3>3. done' = Span(0, lent) /\ done' \in Seq(Nat)
      <4>1. CASE job.first
        BY <1>0, <3>2, <4>1, WindowOK
      <4>2. CASE ~job.first
        <5>1. pos = lent
          BY <1>0, <1>2, <1>5, <4>2 DEF Loop
        <5> QED BY <1>2, <1>5, <3>2, <4>2, <5>1 DEF Types
      <4> QED BY <4>1, <4>2
    <3> QED BY <1>5, <3>1, <3>3
  <2> QED BY <2>1, <2>2
<1>7. Types'
  <2>1. end' \in Nat /\ pos' <= end'
    BY <1>5, <1>6
  <2> QED BY <1>1, <1>2, <1>3, <1>6, <2>1 DEF Types
<1>8. Reading'
  <2>1. Room' = 0
    BY <1>5, <1>6 DEF Room
  <2> QED BY <1>0, <1>1, <1>2, <1>6, <2>1 DEF Reading
<1> QED BY <1>1, <1>4, <1>7, <1>8, ReaderOK

\* A call of a reader that ends with an exception of the stream.
LEMMA ThrownIInv ==
  ASSUME IInv, kind = "reader", Throws, Finish("io"),
         UNCHANGED <<pointers, done, client>>, line' \in Seq(Nat)
  PROVE  IInv'
<1>1. UNCHANGED <<kind, beg, pos, end, fresh, done, given, closed, src, avail, lent, tape, final>>
  BY DEF Throws, pointers, client
<1>2. Types /\ Reading
  BY DEF IInv
<1>3. pc' = "idle" /\ job' \in Jobs /\ call' \in Calls /\ call'.exc = "io"
  BY <1>2, FinishOK DEF Excs
<1>4. Types'
  BY <1>1, <1>2, <1>3 DEF Types
<1>5. Room' = Room
  BY <1>1 DEF Room
<1>6. Reading' /\ Loop' /\ Lines'
  BY <1>1, <1>2, <1>3, <1>5 DEF Reading, Loop, Lines, LineExact
<1> QED BY <1>1, <1>4, <1>6, ReaderOK

\* A source that throws inside the loop of read or ensureRead.
LEMMA FillThrowsIInv == ASSUME IInv, FillThrows PROVE IInv'
<1>1. line' \in Seq(Nat)
  BY DEF FillThrows, IInv, Types
<1> QED BY <1>1, ThrownIInv DEF FillThrows

\* A source that throws inside getline's refill.
LEMMA GetlineThrowsIInv == ASSUME IInv, GetlineThrows PROVE IInv'
<1>1. kind = "reader"
  BY DEF GetlineThrows, IInv, Lines, InLine
<1>2. line' \in Seq(Nat)
  <2>1. line \in Seq(Nat) /\ Window \in Seq(Nat)
    BY <1>1, WindowOK, SpanIsSeq DEF IInv, Types
  <2>2. line' = line \o Window
    BY DEF GetlineThrows
  <2> DEFINE w == Window
  <2> HIDE DEF w
  <2> QED BY <2>1, <2>2, ConcatProperties
<1> QED BY <1>1, <1>2, ThrownIInv DEF GetlineThrows

\* A source that throws while getline looks for the LF behind a CR.
LEMMA GetlineCrThrowsIInv == ASSUME IInv, GetlineCrThrows PROVE IInv'
<1>1. kind = "reader" /\ line' \in Seq(Nat)
  BY DEF GetlineCrThrows, IInv, Lines, InLine, Types
<1> QED BY <1>1, ThrownIInv DEF GetlineCrThrows

\* The call of getline starts its loop with an empty line.
LEMMA GetlineIInv ==
  ASSUME IInv, NEW len \in Lengths, Getline(len)
  PROVE  IInv'
<1>0. len \in Nat
  BY InputsAssumption
<1>1. kind = "reader" /\ kind' = "reader" /\ pc' = "getline" /\ line' = <<>>
  BY DEF Getline, Can, client
<1>2. UNCHANGED <<beg, pos, end, fresh, src, avail, lent, tape, final, done, given, closed>>
  BY DEF Getline, pointers, stream, client
<1>3. job' = [op |-> "getline", len |-> len, n |-> 0, first |-> TRUE]
  BY DEF Getline, NoJob
<1>4. call' = [op |-> "getline", len |-> len, from |-> Len(done), exc |-> "none"]
  BY DEF Getline, Called
<1>5. Types /\ Reading
  BY DEF IInv
<1>6. pos \in Nat /\ Len(done) = pos /\ Room' = Room
  BY <1>1, <1>2, WindowOK, SpanIsSeq DEF Room
<1>7. job' \in Jobs /\ call' \in Calls
  BY <1>0, <1>3, <1>4, <1>6 DEF Jobs, Calls, Ops, Excs
<1>8. Types'
  <2>1. line' \in Seq(Nat)
    BY <1>1
  <2> QED BY <1>1, <1>2, <1>5, <1>7, <2>1 DEF Types
<1>9. Reading' /\ Loop'
  BY <1>1, <1>2, <1>5, <1>6 DEF Reading, Loop
<1>10. Lines'
  <2>1. Span(Len(done), 0) = <<>>
    BY <1>6, SpanNone
  <2>2. InLine(0)'
    BY <1>0, <1>1, <1>2, <1>3, <1>4, <1>6, <2>1 DEF InLine
  <2> QED BY <1>1, <2>2 DEF Lines, LineExact
<1> QED BY <1>1, <1>8, <1>9, <1>10, ReaderOK

\* The line as it is after n more bytes of the window, none of them a terminator.
LEMMA LineGrows ==
  ASSUME IInv, pc = "getline", NEW n \in 0..Room, Plain(n)
  PROVE  LET all == line \o Span(pos, n)
         IN  /\ all \in Seq(Nat) /\ all = Span(call.from, Len(all))
             /\ Len(all) = Len(line) + n /\ call.from + Len(all) = pos + n
             /\ Len(all) <= job.len
             /\ \A i \in 1..Len(all) : ~Terminator(all[i])
<1>1. InLine(0) /\ call \in Calls /\ line \in Seq(Nat)
  BY DEF IInv, Lines, Types
<1>2. /\ pos \in Nat /\ Room \in Nat /\ call.from \in Nat /\ Len(line) \in Nat /\ n \in Nat
      /\ call.from + Len(line) = pos /\ line = Span(call.from, Len(line))
  BY <1>1, WindowOK DEF InLine, Calls
<1> DEFINE f == call.from
           l == Len(line)
           all == line \o Span(pos, n)
<1>3. line = Span(f, l) /\ l \in Nat /\ f \in Nat /\ f + l = pos
  BY <1>2
<1>12. n \in Nat /\ pos \in Nat
  BY <1>2
<1>5. \A i \in 1..l : ~Terminator(line[i])
  BY <1>1 DEF InLine
<1>6. \A i \in 1..n : ~Terminator(pos + i)
  BY DEF Plain
<1>7. l + n <= job.len
  BY DEF Plain
<1> HIDE DEF f, l
<1>4. all = Span(f, l + n)
  <2>1. Span(f, l) \o Span(f + l, n) = Span(f, l + n)
    BY <1>3, <1>12, SpanConcat
  <2> QED BY <1>3, <2>1
<1> HIDE DEF all
<1>9. l + n \in Nat /\ all \in Seq(Nat) /\ Len(all) = l + n /\ \A i \in 1..(l + n) : all[i] = f + i
  <2>1. l + n \in Nat
    BY <1>2, <1>3
  <2> QED BY <1>3, <1>4, <2>1, SpanIsSeq
<1>10. \A i \in 1..l : line[i] = f + i
  BY <1>3, SpanIsSeq
<1>8. ASSUME NEW i \in 1..(l + n) PROVE ~Terminator(all[i])
  <2>1. all[i] = f + i
    BY <1>9
  <2>2. CASE i <= l
    <3>1. i \in 1..l
      BY <1>3, <2>2
    <3> QED BY <1>5, <1>10, <2>1, <3>1
  <2>3. CASE i > l
    <3>1. i - l \in 1..n /\ f + i = pos + (i - l)
      BY <1>2, <1>3, <2>3
    <3> QED BY <1>6, <2>1, <3>1
  <2> QED BY <1>3, <2>2, <2>3
<1>11. f + (l + n) = pos + n
  BY <1>2, <1>3
<1> QED BY <1>4, <1>7, <1>8, <1>9, <1>11 DEF f, l, all

\* When a line has its end.
LEMMA LineEnds ==
  ASSUME line' \in Seq(Nat), NEW n \in Nat, Len(line') = n, line' = Span(call'.from, n),
         \A i \in 1..Len(line') : ~(src'[line'[i]] \in {"cr", "lf"}),
         NEW last \in Nat, last = call'.from + n,
         \/ /\ Len(done') - last = 0
            /\ n = call'.len \/ lent' = last
         \/ /\ Len(done') - last = 1 /\ last + 1 \in 1..Len(src')
            /\ \/ src'[last + 1] = "lf"
               \/ src'[last + 1] = "cr" /\ ~(last + 2 \in 1..Len(src') /\ src'[last + 2] = "lf")
               \/ src'[last + 1] = "cr" /\ lent' = last + 1
         \/ /\ Len(done') - last = 2 /\ last + 1 \in 1..Len(src') /\ last + 2 \in 1..Len(src')
            /\ src'[last + 1] = "cr" /\ src'[last + 2] = "lf"
  PROVE  LineExact'
<1>1. DOMAIN line' = 1..Len(line')
  OBVIOUS
<1> QED BY <1>1 DEF LineExact, Terminator

\* A pass that looks through the window: what it passes are bytes taken.
LEMMA ScannedOK ==
  ASSUME IInv, kind = "reader", NEW n \in 0..Room, NEW k \in n..Room, Scanned(n, k),
         UNCHANGED client
  PROVE  /\ kind' = "reader" /\ Reading'
         /\ UNCHANGED <<beg, end, fresh, src, avail, lent, tape, final, given, closed>>
         /\ line' = line \o Span(pos, n) /\ pos' = pos + k /\ pos' \in Nat /\ pos' <= end'
         /\ done' \in Seq(Nat) /\ Len(done') = pos + k
<1>1. /\ pos \in Nat /\ lent \in Nat /\ Room \in Nat /\ end = lent /\ pos + Room = lent
      /\ done = Span(0, pos)
  BY WindowOK
<1>2. /\ UNCHANGED <<beg, end, fresh, src, avail, lent, tape, final, given, closed, kind>>
      /\ line' = line \o Span(pos, n) /\ pos' = pos + k /\ done' = done \o Span(pos, k)
  BY DEF Scanned, stream, client
<1>3. k \in Nat /\ pos + k <= end
  BY <1>1
<1>4. done' = Span(0, pos + k) /\ done' \in Seq(Nat) /\ Len(done') = pos + k
  BY <1>1, <1>2, <1>3, TakesNext
<1>5. Reading'
  <2>1. Room = 0 => Room' = 0
    BY <1>1, <1>2 DEF Room
  <2>2. Reading
    BY DEF IInv
  <2> QED BY <1>2, <1>4, <2>1, <2>2 DEF Reading
<1> QED BY <1>1, <1>2, <1>3, <1>4, <1>5

\* getline's return at maxlen.
LEMMA GetlineFullIInv ==
  ASSUME IInv, GetlineFull
  PROVE  IInv'
<1>1. PICK n \in 0..Room : Plain(n) /\ Len(line) + n = job.len /\ Scanned(n, n)
  BY DEF GetlineFull
<1>2. Types /\ pc = "getline" /\ InLine(0) /\ UNCHANGED client /\ Finish("none")
  BY DEF GetlineFull, IInv, Lines
<1>3. kind = "reader" /\ call.op = "getline" /\ job.op = "getline" /\ job.len = call.len
  BY <1>2 DEF InLine
<1>4. /\ pc' = "idle" /\ job' \in Jobs /\ call' \in Calls /\ call'.op = "getline"
      /\ call'.len = job.len /\ call'.from = call.from
  BY <1>2, <1>3, FinishOK DEF Excs
<1>5. /\ kind' = "reader" /\ Reading'
      /\ UNCHANGED <<beg, end, fresh, src, avail, lent, tape, final, given, closed>>
      /\ line' = line \o Span(pos, n) /\ pos' = pos + n /\ pos' \in Nat /\ pos' <= end'
      /\ done' \in Seq(Nat) /\ Len(done') = pos + n
  <2>1. n \in n..Room
    BY <1>3, WindowOK
  <2> QED BY <1>1, <1>2, <1>3, <2>1, ScannedOK
<1>6. /\ line' \in Seq(Nat) /\ line' = Span(call.from, Len(line'))
      /\ Len(line') = job.len /\ call.from + Len(line') = pos + n
      /\ \A i \in 1..Len(line') : ~Terminator(line'[i])
  BY <1>1, <1>2, <1>5, LineGrows
<1>7. Types'
  BY <1>2, <1>3, <1>4, <1>5, <1>6 DEF Types
<1>8. LineExact'
  <2> DEFINE last == call'.from + Len(line')
  <2>1. last = pos + n /\ last \in Nat /\ Len(done') - last = 0 /\ Len(line') = call'.len
    BY <1>3, <1>4, <1>5, <1>6, WindowOK
  <2>2. \A i \in 1..Len(line') : ~(src'[line'[i]] \in {"cr", "lf"})
    BY <1>5, <1>6 DEF Terminator
  <2>3. line' = Span(call'.from, Len(line')) /\ Len(line') \in Nat
    BY <1>4, <1>6
  <2>4. last = call'.from + Len(line')
    OBVIOUS
  <2> HIDE DEF last
  <2> QED BY <1>6, <2>1, <2>2, <2>3, <2>4, LineEnds
<1>9. Loop' /\ Lines'
  BY <1>4, <1>5, <1>8 DEF Loop, Lines
<1> QED BY <1>5, <1>7, <1>9, ReaderOK

\* getline's return at a terminator, or its wait for the byte behind a CR.
LEMMA GetlineTerminatorIInv ==
  ASSUME IInv, GetlineTerminator
  PROVE  IInv'
<1>1. PICK n \in 0..(Room - 1) :
        /\ Plain(n) /\ Len(line) + n < job.len /\ Terminator(pos + n + 1)
        /\ Scanned(n, n + 1)
        /\ IF src[pos + n + 1] = "lf" THEN Finish("none")
           ELSE pc' = "getline_cr" /\ UNCHANGED <<job, call>>
  BY DEF GetlineTerminator
<1>2. Types /\ pc = "getline" /\ InLine(0) /\ UNCHANGED client
  BY DEF GetlineTerminator, IInv, Lines
<1>3. kind = "reader" /\ call.op = "getline" /\ job.op = "getline" /\ job.len = call.len
  BY <1>2 DEF InLine
<1>4. Room \in Nat /\ n \in 0..Room /\ n + 1 \in n..Room /\ pos + Room = lent /\ end = lent /\ pos \in Nat
  BY <1>3, WindowOK
<1>5. /\ kind' = "reader" /\ Reading'
      /\ UNCHANGED <<beg, end, fresh, src, avail, lent, tape, final, given, closed>>
      /\ line' = line \o Span(pos, n) /\ pos' = pos + (n + 1) /\ pos' \in Nat /\ pos' <= end'
      /\ done' \in Seq(Nat) /\ Len(done') = pos + (n + 1)
  BY <1>1, <1>2, <1>3, <1>4, ScannedOK
<1>6. /\ line' \in Seq(Nat) /\ line' = Span(call.from, Len(line'))
      /\ Len(line') = Len(line) + n /\ call.from + Len(line') = pos + n /\ Len(line') <= job.len
      /\ \A i \in 1..Len(line') : ~Terminator(line'[i])
  BY <1>1, <1>2, <1>4, <1>5, LineGrows
<1>7. pos + n + 1 \in 1..Len(src) /\ src[pos + n + 1] \in {"cr", "lf"} /\ pos + (n + 1) = pos + n + 1
  <2>1. lent <= avail /\ avail \in 0..Len(src)
    BY <1>3 DEF IInv, Types, Reading
  <2> QED BY <1>1, <1>4, <2>1 DEF Terminator
<1>8. CASE src[pos + n + 1] = "lf"
  <2>1. Finish("none")
    BY <1>1, <1>8
  <2>2. /\ pc' = "idle" /\ job' \in Jobs /\ call' \in Calls /\ call'.op = "getline"
        /\ call'.len = job.len /\ call'.from = call.from
    BY <1>2, <1>3, <2>1, FinishOK DEF Excs
  <2>3. Types'
    BY <1>2, <1>3, <1>5, <1>6, <2>2 DEF Types
  <2>4. LineExact'
    <3> DEFINE last == pos + n
    <3>1. /\ last \in Nat /\ Len(done') - last = 1 /\ last + 1 \in 1..Len(src')
          /\ src'[last + 1] = "lf" /\ call'.from + Len(line') = last
      BY <1>4, <1>5, <1>6, <1>7, <1>8, <2>2
    <3>2. \A i \in 1..Len(line') : ~(src'[line'[i]] \in {"cr", "lf"})
      BY <1>5, <1>6 DEF Terminator
    <3>3. line' = Span(call'.from, Len(line')) /\ Len(line') \in Nat
      BY <1>6, <2>2
    <3> HIDE DEF last
    <3> QED BY <1>6, <3>1, <3>2, <3>3, LineEnds
  <2>5. Loop' /\ Lines'
    BY <1>5, <2>2, <2>4 DEF Loop, Lines
  <2> QED BY <1>5, <2>3, <2>5, ReaderOK
<1>9. CASE src[pos + n + 1] # "lf"
  <2>1. pc' = "getline_cr" /\ UNCHANGED <<job, call>>
    BY <1>1, <1>9
  <2>2. Types'
    BY <1>2, <1>3, <1>5, <1>6, <2>1 DEF Types
  <2>3. InLine(1)'
    <3>1. call.from + Len(line') + 1 = pos'
      BY <1>2, <1>4, <1>5, <1>6 DEF Types, Calls
    <3>2. \A i \in 1..Len(line') : ~Terminator(line[i])'
      BY <1>5, <1>6 DEF Terminator
    <3> QED BY <1>3, <1>5, <1>6, <2>1, <3>1, <3>2 DEF InLine
  <2>4. src'[pos'] = "cr"
    BY <1>5, <1>7, <1>9
  <2>5. Loop' /\ Lines'
    BY <1>5, <2>1, <2>3, <2>4 DEF Loop, Lines, LineExact
  <2> QED BY <1>5, <2>2, <2>5, ReaderOK
<1> QED BY <1>8, <1>9

\* getline's refill: the window joins the line and the next follows it, or the source has ended.
LEMMA GetlineRefillIInv ==
  ASSUME IInv, GetlineRefill
  PROVE  IInv'
<1> DEFINE all == line \o Window
<1>1. PICK n \in Lends :
        IF n > 0 THEN NewWindow(n, 0) /\ UNCHANGED <<pc, job, call>>
        ELSE NoWindow /\ Finish(IF all = <<>> THEN "eof" ELSE "none") /\ UNCHANGED stream
  BY DEF GetlineRefill
<1>2. /\ Types /\ pc = "getline" /\ InLine(0) /\ UNCHANGED client
      /\ Plain(Room) /\ line' = all /\ done' = done \o Window
  BY DEF GetlineRefill, IInv, Lines
<1>3. kind = "reader" /\ call.op = "getline" /\ job.op = "getline" /\ job.len = call.len
  BY <1>2 DEF InLine
<1>4. /\ pos \in Nat /\ lent \in Nat /\ Room \in Nat /\ end = lent /\ pos + Room = lent
      /\ Window = Span(pos, Room)
  BY <1>3, WindowOK
<1>5. done' = Span(0, lent) /\ done' \in Seq(Nat) /\ Len(done') = lent
  BY <1>2, <1>3, WindowOK, SpanIsSeq
<1>6. /\ line' \in Seq(Nat) /\ line' = Span(call.from, Len(line'))
      /\ call.from + Len(line') = lent /\ Len(line') <= job.len
      /\ \A i \in 1..Len(line') : ~Terminator(line'[i])
  <2>1. Room \in 0..Room
    BY <1>4
  <2> QED BY <1>2, <1>4, <2>1, LineGrows
<1>7. n \in Nat /\ lent + n <= avail
  BY <1>3, LendsOK
<1>8. kind' = "reader" /\ UNCHANGED <<given, closed>>
  BY <1>2, <1>3 DEF client
<1> HIDE DEF all
<1>9. CASE n > 0
  <2>1. /\ beg' = lent /\ pos' = lent + 0 /\ end' = lent + n /\ fresh' = TRUE /\ lent' = lent + n
        /\ UNCHANGED <<src, avail, tape, final, throws, pc, job, call>>
    BY <1>1, <1>9 DEF NewWindow
  <2>2. /\ pos' = lent /\ pos' \in Nat /\ end' \in Nat /\ pos' <= end' /\ lent' \in Nat
        /\ lent' <= avail' /\ lent' = end'
    BY <1>4, <1>7, <2>1
  <2>3. Types'
    <3>1. beg' \in Nat \cup {Nowhere} /\ fresh' \in BOOLEAN
      BY <1>4, <2>1
    <3> QED BY <1>2, <1>5, <1>6, <1>8, <2>1, <2>2, <3>1 DEF Types
  <2>4. Reading'
    BY <1>5, <2>1, <2>2 DEF Reading
  <2>5. InLine(0)'
    <3>1. call.from + Len(line') + 0 = pos'
      BY <1>4, <1>6, <2>2
    <3>2. \A i \in 1..Len(line') : ~Terminator(line[i])'
      BY <1>6, <2>1 DEF Terminator
    <3> QED BY <1>3, <1>6, <1>8, <2>1, <3>1, <3>2 DEF InLine
  <2>6. Loop' /\ Lines'
    BY <1>2, <1>8, <2>1, <2>5 DEF Loop, Lines, LineExact
  <2> QED BY <1>8, <2>3, <2>4, <2>6, ReaderOK
<1>10. CASE ~(n > 0)
  <2> DEFINE e == IF all = <<>> THEN "eof" ELSE "none"
  <2>1. /\ beg' = lent /\ pos' = lent /\ end' = lent /\ fresh' = TRUE
        /\ UNCHANGED <<src, avail, lent, tape, final>> /\ Finish(e)
    BY <1>1, <1>10 DEF NoWindow, stream
  <2>2. e \in Excs
    BY DEF Excs
  <2> HIDE DEF e
  <2>3. /\ pc' = "idle" /\ job' \in Jobs /\ call' \in Calls /\ call'.op = "getline"
        /\ call'.len = job.len /\ call'.from = call.from
    BY <1>2, <1>3, <2>1, <2>2, FinishOK
  <2>4. pos' \in Nat /\ beg' \in Nat \cup {Nowhere} /\ end' \in Nat /\ pos' <= end' /\ Room' = 0
    BY <1>4, <2>1 DEF Room
  <2>5. Types'
    <3>1. fresh' \in BOOLEAN
      BY <2>1
    <3> QED BY <1>2, <1>5, <1>6, <1>8, <2>1, <2>3, <2>4, <3>1 DEF Types
  <2>6. Reading'
    <3>1. lent <= avail
      BY <1>3 DEF IInv, Reading
    <3> QED BY <1>5, <2>1, <3>1 DEF Reading
  <2>7. LineExact'
    <3>1. \A i \in 1..Len(line') : ~(src'[line'[i]] \in {"cr", "lf"})
      BY <1>6, <2>1 DEF Terminator
    <3>2. line' = Span(call'.from, Len(line')) /\ Len(line') \in Nat
      BY <1>6, <2>3
    <3>3. Len(done') - lent = 0 /\ lent' = lent /\ lent = call'.from + Len(line')
      BY <1>4, <1>5, <1>6, <2>1, <2>3
    <3> QED BY <1>4, <1>6, <3>1, <3>2, <3>3, LineEnds
  <2>8. Loop' /\ Lines'
    BY <1>8, <2>3, <2>7 DEF Loop, Lines
  <2> QED BY <1>8, <2>5, <2>6, <2>8, ReaderOK
<1> QED BY <1>9, <1>10

\* A line behind whose '\r' the call looked.
LEMMA CrEnds ==
  ASSUME IInv, pc = "getline_cr", Finish("none"), UNCHANGED <<client, line, src, avail>>,
         NEW k \in {0, 1}, done' = Span(0, pos + k),
         \/ k = 1 /\ pos + 1 \in 1..Len(src) /\ src[pos + 1] = "lf"
         \/ k = 0 /\ (lent' = pos \/ ~(pos + 1 \in 1..Len(src) /\ src[pos + 1] = "lf")),
         beg' \in Nat \cup {Nowhere}, pos' \in Nat, end' \in Nat, pos' <= end', fresh' \in BOOLEAN,
         lent' \in Nat, UNCHANGED <<final, tape>>, Reading'
  PROVE  IInv'
<1>1. Types /\ InLine(1) /\ src[pos] = "cr"
  BY DEF IInv, Lines
<1>2. kind = "reader" /\ call.op = "getline" /\ job.op = "getline" /\ job.len = call.len
  BY <1>1 DEF InLine
<1>3. kind' = "reader" /\ UNCHANGED <<given, closed>>
  BY <1>2 DEF client
<1>4. /\ pc' = "idle" /\ job' \in Jobs /\ call' \in Calls /\ call'.op = "getline"
      /\ call'.len = job.len /\ call'.from = call.from
  BY <1>1, <1>2, FinishOK DEF Excs
<1>5. pos \in Nat /\ pos <= Len(src) /\ call.from \in Nat /\ call.from + Len(line) + 1 = pos
  <2>1. lent <= avail /\ avail \in 0..Len(src) /\ pos \in Nat /\ pos + Room = lent /\ Room \in Nat
    BY <1>1, <1>2, WindowOK DEF IInv, Types, Reading
  <2> QED BY <1>1, <2>1 DEF InLine, Types, Calls
<1>6. done' \in Seq(Nat) /\ Len(done') = pos + k
  <2>1. pos + k \in Nat /\ 0 \in Nat
    BY <1>5
  <2> QED BY <2>1, SpanIsSeq
<1>7. Types'
  BY <1>1, <1>2, <1>3, <1>4, <1>6 DEF Types
<1>8. LineExact'
  <2> DEFINE last == call.from + Len(line)
             l == Len(line)
  <2>1. l \in Nat /\ line = Span(call.from, l) /\ last + 1 = pos /\ last \in Nat /\ last = call'.from + l
    <3>1. l \in Nat
      BY DEF IInv, Types
    <3>2. line = Span(call.from, l)
      BY <1>1 DEF InLine
    <3> HIDE DEF l
    <3>3. call.from + l + 1 = pos
      BY <1>5 DEF l
    <3> QED BY <1>4, <1>5, <3>1, <3>2, <3>3 DEF l
  <2>2. \A i \in 1..Len(line') : ~(src'[line'[i]] \in {"cr", "lf"})
    BY <1>1 DEF InLine, Terminator
  <2>3. line' \in Seq(Nat) /\ Len(line') = l /\ line' = Span(call'.from, l)
    BY <1>1, <1>4, <2>1 DEF Types
  <2> HIDE DEF last, l
  <2>6. /\ last \in Nat /\ last + 1 = pos /\ last + 2 = pos + 1 /\ pos \in 1..Len(src)
        /\ src' = src /\ src'[last + 1] = "cr"
    <3>1. Len(src) \in Nat
      BY <1>1 DEF Types
    <3>2. last \in Nat /\ last + 1 = pos /\ pos <= Len(src)
      BY <1>5, <2>1
    <3>3. last + 2 = pos + 1 /\ pos \in 1..Len(src)
      BY <3>1, <3>2
    <3> QED BY <1>1, <3>2, <3>3
  <2>4. CASE k = 1
    <3>1. Len(done') - last = 2 /\ last + 1 \in 1..Len(src')
      BY <1>6, <2>4, <2>6
    <3>2. last + 2 \in 1..Len(src') /\ src'[last + 1] = "cr" /\ src'[last + 2] = "lf"
      BY <2>4, <2>6
    <3> QED BY <2>1, <2>2, <2>3, <3>1, <3>2, LineEnds
  <2>5. CASE k = 0
    <3>1. Len(done') - last = 1 /\ last + 1 \in 1..Len(src')
      BY <1>6, <2>5, <2>6
    <3>2. src'[last + 1] = "cr"
      BY <2>6
    <3>3. lent' = last + 1 \/ ~(last + 2 \in 1..Len(src') /\ src'[last + 2] = "lf")
      <4>1. lent' = pos \/ ~(pos + 1 \in 1..Len(src) /\ src[pos + 1] = "lf")
        BY <2>5
      <4> QED BY <2>6, <4>1
    <3> QED BY <2>1, <2>2, <2>3, <3>1, <3>2, <3>3, LineEnds
  <2> QED BY <2>4, <2>5
<1>9. Loop' /\ Lines'
  BY <1>3, <1>4, <1>8 DEF Loop, Lines
<1> QED BY <1>3, <1>7, <1>9, ReaderOK

\* getline's look behind a CR: an LF is taken, another byte put back; a throw drops the line.
LEMMA GetlineCrIInv ==
  ASSUME IInv, GetlineCr
  PROVE  IInv'
<1> DEFINE k == IF src[pos + 1] = "lf" THEN 1 ELSE 0
<1>1. /\ pc = "getline_cr" /\ Room > 0 /\ pos' = pos + k /\ done' = done \o Span(pos, k)
      /\ Finish("none")
      /\ UNCHANGED <<kind, given, closed, beg, end, fresh, src, avail, lent, tape, final, line>>
  BY DEF GetlineCr, stream, client
<1>2. Types /\ Reading /\ kind = "reader"
  BY <1>1 DEF IInv, Lines, InLine
<1>3. k \in {0, 1} /\ k \in Nat
  OBVIOUS
<1>4. pos + 1 \in 1..Len(src)
  <2>1. lent <= avail /\ avail \in 0..Len(src) /\ pos \in Nat /\ pos + Room = lent /\ Room \in Nat
    BY <1>2, WindowOK DEF Types, Reading
  <2> QED BY <1>1, <2>1
<1>5. \/ k = 1 /\ pos + 1 \in 1..Len(src) /\ src[pos + 1] = "lf"
      \/ k = 0 /\ (lent' = pos \/ ~(pos + 1 \in 1..Len(src) /\ src[pos + 1] = "lf"))
  BY <1>4
<1> HIDE DEF k
<1>6. pos \in Nat /\ done = Span(0, pos) /\ end = lent /\ pos + Room = lent /\ Room \in Nat /\ lent \in Nat
  BY <1>2, WindowOK
<1>7. done' = Span(0, pos + k)
  BY <1>1, <1>3, <1>6, TakesNext
<1>8. pos' \in Nat /\ end' \in Nat /\ pos' <= end'
  BY <1>1, <1>3, <1>6
<1>9. Reading'
  <2>1. fresh
    BY <1>1, <1>2 DEF Reading
  <2> QED BY <1>1, <1>2, <1>7, <2>1 DEF Reading
<1>10. beg' \in Nat \cup {Nowhere} /\ fresh' \in BOOLEAN /\ lent' \in Nat
  BY <1>1, <1>2 DEF Types
<1> QED BY <1>1, <1>3, <1>5, <1>7, <1>8, <1>9, <1>10, CrEnds DEF client

\* The byte behind a CR is in the next window, where an LF is taken, or the source has ended.
LEMMA GetlineCrRefillIInv ==
  ASSUME IInv, GetlineCrRefill
  PROVE  IInv'
<1>1. /\ pc = "getline_cr" /\ Room = 0 /\ Finish("none")
      /\ UNCHANGED <<kind, given, closed, line>>
  BY DEF GetlineCrRefill, client
<1>2. Types /\ Reading /\ kind = "reader"
  BY <1>1 DEF IInv, Lines, InLine
<1>3. PICK n \in Lends :
        LET k == IF n > 0 /\ src[lent + 1] = "lf" THEN 1 ELSE 0
        IN  IF n > 0 THEN NewWindow(n, k) /\ done' = done \o Span(lent, k)
            ELSE fresh' = FALSE /\ UNCHANGED <<beg, pos, end, done, stream>>
  BY DEF GetlineCrRefill
<1>4. /\ pos \in Nat /\ done = Span(0, pos) /\ end = lent /\ pos = lent /\ lent \in Nat
  BY <1>1, <1>2, WindowOK
<1>5. n \in Nat /\ lent + n <= avail /\ avail \in 0..Len(src)
  BY <1>2, LendsOK DEF Types
<1>6. CASE n > 0
  <2> DEFINE k == IF src[lent + 1] = "lf" THEN 1 ELSE 0
  <2>1. /\ beg' = lent /\ pos' = lent + k /\ end' = lent + n /\ fresh' = TRUE /\ lent' = lent + n
        /\ UNCHANGED <<src, avail, tape, final>> /\ done' = done \o Span(lent, k)
    BY <1>3, <1>6 DEF NewWindow
  <2>2. k \in {0, 1} /\ k \in Nat /\ pos + 1 \in 1..Len(src)
    BY <1>4, <1>5, <1>6
  <2>3. \/ k = 1 /\ pos + 1 \in 1..Len(src) /\ src[pos + 1] = "lf"
        \/ k = 0 /\ (lent' = pos \/ ~(pos + 1 \in 1..Len(src) /\ src[pos + 1] = "lf"))
    BY <1>4, <2>2
  <2> HIDE DEF k
  <2>4. done' = Span(0, pos + k)
    BY <1>4, <2>1, <2>2, TakesNext
  <2>5. /\ beg' \in Nat \cup {Nowhere} /\ pos' \in Nat /\ end' \in Nat /\ pos' <= end' /\ lent' \in Nat
        /\ lent' = end' /\ lent' <= avail'
    BY <1>4, <1>5, <1>6, <2>1, <2>2
  <2>6. Reading' /\ fresh' \in BOOLEAN
    BY <1>4, <2>1, <2>4, <2>5 DEF Reading
  <2> QED BY <1>1, <2>1, <2>2, <2>3, <2>4, <2>5, <2>6, CrEnds DEF client
<1>7. CASE ~(n > 0)
  <2>1. fresh' = FALSE /\ UNCHANGED <<beg, pos, end, done, src, avail, lent, tape, final>>
    BY <1>3, <1>7 DEF stream
  <2>2. done' = Span(0, pos + 0) /\ lent' = pos
    BY <1>4, <2>1
  <2>3. beg' \in Nat \cup {Nowhere} /\ pos' \in Nat /\ end' \in Nat /\ pos' <= end' /\ lent' \in Nat
    BY <1>2, <2>1 DEF Types
  <2>4. Room' = 0
    BY <1>1, <2>1 DEF Room
  <2>5. Reading' /\ fresh' \in BOOLEAN
    BY <1>1, <1>2, <2>1, <2>4 DEF Reading
  <2>6. 0 \in {0, 1}
    OBVIOUS
  <2> QED BY <1>1, <2>1, <2>2, <2>3, <2>5, <2>6, CrEnds DEF client
<1> QED BY <1>6, <1>7

(***************************************************************************)
(* The writer.                                                             *)
(***************************************************************************)

\* What is put into memory is there, and what was in front of it is as it was.
LEMMA StoreOK ==
  ASSUME NEW m \in Seq(Int), NEW p \in Nat, NEW b \in Seq(Int)
  PROVE  LET s == Store(m, p, b)
         IN  /\ s \in Seq(Int)
             /\ p <= Len(m) => /\ p + Len(b) <= Len(s)
                               /\ \A i \in 1..p : s[i] = m[i]
                               /\ \A i \in 1..Len(b) : s[p + i] = b[i]
<1> DEFINE stop == p + Len(b)
           new == IF stop > Len(m) THEN stop ELSE Len(m)
           g == [i \in 1..new |-> IF i > p /\ i <= stop THEN b[i - p]
                                  ELSE IF i <= Len(m) THEN m[i] ELSE Junk]
           s == Store(m, p, b)
<1>1. new \in Nat /\ stop \in Nat /\ Len(m) \in Nat /\ Len(b) \in Nat /\ stop <= new /\ Len(m) <= new
  OBVIOUS
<1>2. \A i \in 1..new : g[i] \in Int
  <2> SUFFICES ASSUME NEW i \in 1..new PROVE g[i] \in Int
    OBVIOUS
  <2>1. CASE i > p /\ i <= stop
    <3>1. i - p \in 1..Len(b) /\ g[i] = b[i - p]
      BY <2>1
    <3> QED BY <3>1
  <2>2. CASE ~(i > p /\ i <= stop) /\ i <= Len(m)
    <3>1. i \in 1..Len(m) /\ g[i] = m[i]
      BY <2>2
    <3> QED BY <3>1
  <2>3. CASE ~(i > p /\ i <= stop) /\ ~(i <= Len(m))
    BY <2>3 DEF Junk
  <2> QED BY <2>1, <2>2, <2>3
<1>3. \A i \in 1..p : p <= Len(m) => i \in 1..new /\ g[i] = m[i]
  BY <1>1
<1>4. \A i \in 1..Len(b) : p + i \in 1..new /\ g[p + i] = b[i]
  <2> SUFFICES ASSUME NEW i \in 1..Len(b) PROVE p + i \in 1..new /\ g[p + i] = b[i]
    OBVIOUS
  <2>1. p + i \in 1..new /\ p + i > p /\ p + i <= stop /\ (p + i) - p = i
    BY <1>1
  <2> QED BY <2>1
<1>5. CASE b = <<>>
  <2>1. s = m
    BY <1>5 DEF Store, Put
  <2>2. Len(b) = 0
    BY <1>5
  <2> QED BY <1>1, <2>1, <2>2
<1>6. CASE b # <<>>
  <2>1. s = g
    BY <1>6 DEF Store, Put
  <2> HIDE DEF new, stop
  <2>2. g \in [1..new -> Int]
    BY <1>2
  <2>3. g \in Seq(Int) /\ Len(g) = new
    BY <1>1, <2>2
  <2> HIDE DEF g, s
  <2> QED BY <1>1, <1>3, <1>4, <2>1, <2>3 DEF s, stop
<1> QED BY <1>5, <1>6

\* The elements of a concatenation.
LEMMA Elements ==
  ASSUME NEW a \in Seq(Nat), NEW b \in Seq(Nat)
  PROVE  /\ a \o b \in Seq(Nat)
         /\ Len(a \o b) = Len(a) + Len(b)
         /\ \A i \in 1..Len(a) : (a \o b)[i] = a[i]
         /\ \A i \in 1..Len(b) : (a \o b)[Len(a) + i] = b[i]
<1>1. /\ a \o b \in Seq(Nat)
      /\ Len(a \o b) = Len(a) + Len(b)
      /\ \A i \in 1..(Len(a) + Len(b)) :
            (a \o b)[i] = IF i <= Len(a) THEN a[i] ELSE b[i - Len(a)]
  BY ConcatProperties
<1>2. Len(a) \in Nat /\ Len(b) \in Nat
  OBVIOUS
<1>3. \A i \in 1..Len(a) : i \in 1..(Len(a) + Len(b)) /\ i <= Len(a)
  BY <1>2
<1>4. \A i \in 1..Len(b) : /\ Len(a) + i \in 1..(Len(a) + Len(b)) /\ ~(Len(a) + i <= Len(a))
                           /\ (Len(a) + i) - Len(a) = i
  BY <1>2
<1> QED BY <1>1, <1>3, <1>4

\* Bytes stored behind what the tape holds are held with it.
LEMMA StoreBehind ==
  ASSUME NEW t \in Seq(Int), NEW d \in Seq(Nat), Holds(t, d), NEW b \in Seq(Nat)
  PROVE  Holds(Store(t, Len(d), b), d) /\ Holds(Store(t, Len(d), b), d \o b)
<1> DEFINE s == Store(t, Len(d), b)
           p == Len(d)
<1>1. p \in Nat /\ Len(b) \in Nat /\ b \in Seq(Int) /\ p <= Len(t)
  BY DEF Holds
<1>2. /\ s \in Seq(Int) /\ p + Len(b) <= Len(s)
      /\ \A i \in 1..p : s[i] = t[i]
      /\ \A i \in 1..Len(b) : s[p + i] = b[i]
  BY <1>1, StoreOK
<1>3. /\ Len(d \o b) = p + Len(b)
      /\ \A i \in 1..p : (d \o b)[i] = d[i]
      /\ \A i \in 1..Len(b) : (d \o b)[p + i] = b[i]
  BY Elements
<1>4. \A i \in 1..p : t[i] = d[i]
  BY DEF Holds
<1>5. p <= Len(s)
  <2>1. Len(s) \in Nat
    BY <1>2
  <2> HIDE DEF s, p
  <2> QED BY <1>1, <1>2, <2>1
<1> HIDE DEF s, p
<1>6. \A i \in 1..p : s[i] = d[i]
  BY <1>2, <1>4
<1>7. ASSUME NEW i \in 1..(p + Len(b)) PROVE s[i] = (d \o b)[i]
  <2>1. CASE i <= p
    <3>1. i \in 1..p
      BY <1>1, <2>1
    <3> QED BY <1>3, <1>6, <3>1
  <2>2. CASE i > p
    <3> DEFINE j == i - p
    <3>1. j \in 1..Len(b) /\ i = p + j
      BY <1>1, <2>2
    <3> HIDE DEF j
    <3> QED BY <1>2, <1>3, <3>1
  <2>3. i <= p \/ i > p
    BY <1>1
  <2> QED BY <2>1, <2>2, <2>3
<1> QED BY <1>2, <1>3, <1>5, <1>6, <1>7 DEF Holds, s, p

\* write: copied to the window lent, or the start of the loop that asks for more.
LEMMA WriteIInv ==
  ASSUME IInv, NEW len \in Lengths, Write(len)
  PROVE  IInv'
<1>0. len \in Nat /\ len > 0
  BY InputsAssumption
<1>1. /\ kind = "writer" /\ kind' = "writer" /\ pc = "idle" /\ ~closed /\ ~closed'
      /\ UNCHANGED <<beg, end, fresh, src, avail, lent, final, line, closed>>
  BY DEF Write, Can
<1>2. /\ given' = given + len
      /\ call' = [op |-> "write", len |-> len, from |-> Len(done), exc |-> "none"]
      /\ tape' = Store(tape, pos, Span(given, Least(len, Room)))
  BY DEF Write, Called
<1>3. Types /\ Writing /\ Written
  BY DEF IInv
<1>4. /\ pos \in Nat /\ end \in Nat /\ given \in Nat /\ given' \in Nat /\ Room \in Nat
      /\ pos + Room = end /\ Len(done) \in Nat /\ done \in Seq(Nat) /\ tape \in Seq(Int)
  BY <1>0, <1>2, <1>3 DEF Types, Room
<1>5. Span(given, len) \in Seq(Nat) /\ Len(Span(given, len)) = len
  BY <1>0, <1>4, SpanIsSeq
<1>6. Span(given, Room) \in Seq(Nat) /\ Len(Span(given, Room)) = Room
  BY <1>4, SpanIsSeq
<1>7. call' \in Calls /\ call'.op = "write"
  BY <1>0, <1>2, <1>4 DEF Calls, Ops, Excs
<1>8. CASE len <= Room
  <2>1. tape' = Store(tape, pos, Span(given, len))
    BY <1>2, <1>8 DEF Least
  <2>2. pos' = pos + len /\ done' = done \o Span(given, len) /\ UNCHANGED <<pc, job>>
    BY <1>8 DEF Write
  <2>3. tape' \in Seq(Int)
    <3>1. Span(given, len) \in Seq(Int)
      BY <1>5
    <3> QED BY <1>4, <2>1, <3>1, StoreOK
  <2>4. done' \in Seq(Nat) /\ Len(done') = Len(done) + len
    BY <1>4, <1>5, <2>2, Elements
  <2>5. pos' \in Nat /\ pos' <= end'
    BY <1>0, <1>1, <1>4, <1>8, <2>2
  <2>6. Types'
    BY <1>1, <1>3, <1>4, <1>7, <2>2, <2>3, <2>4, <2>5 DEF Types
  <2>7. Loop' /\ Writing'
    BY <1>1, <1>3, <2>2 DEF Loop, Writing
  <2>8. Written'
    <3> SUFFICES ASSUME Careful
                 PROVE /\ final' <= lent' /\ final' <= pos' /\ end' <= final' + MaxLend
                       /\ Len(done') = pos' /\ Holds(tape', done')
      BY <1>1, <2>2 DEF Written, Holds
    <3>1. /\ final <= lent /\ final <= pos /\ end <= final + MaxLend /\ Len(done) = pos /\ Holds(tape, done) /\ final \in Nat
      BY <1>1, <1>3 DEF Written, Types
    <3>2. Holds(tape', done')
      BY <1>4, <1>5, <2>1, <2>2, <3>1, StoreBehind
    <3> QED BY <1>0, <1>1, <1>4, <2>2, <2>4, <3>1, <3>2
  <2> QED BY <1>1, <1>7, <2>6, <2>7, <2>8, WriterOK
<1>9. CASE ~(len <= Room)
  <2>1. tape' = Store(tape, pos, Span(given, Room))
    BY <1>2, <1>9 DEF Least
  <2>2. /\ UNCHANGED <<pos, done>> /\ pc' = "fill"
        /\ job' = [op |-> "write", len |-> len, n |-> Room, first |-> TRUE]
    BY <1>9 DEF Write
  <2>3. tape' \in Seq(Int)
    <3>1. Span(given, Room) \in Seq(Int)
      BY <1>6
    <3> QED BY <1>4, <2>1, <3>1, StoreOK
  <2>4. job' \in Jobs /\ Room' = Room
    BY <1>0, <1>1, <1>4, <2>2 DEF Jobs, Ops, Room
  <2>5. Types'
    BY <1>1, <1>3, <1>4, <1>7, <2>2, <2>3, <2>4 DEF Types
  <2>6. Loop'
    BY <1>0, <1>4, <1>9, <2>2, <2>4 DEF Loop
  <2>7. Writing'
    <3>1. len <= given'
      BY <1>0, <1>2, <1>4
    <3>2. job'.op = "write" /\ job'.len = len
      BY <2>2
    <3> QED BY <1>1, <1>3, <2>2, <3>1, <3>2 DEF Writing
  <2>8. Written'
    <3> SUFFICES ASSUME Careful
                 PROVE /\ final' <= lent' /\ final' <= pos' /\ end' <= final' + MaxLend
                       /\ Len(done') = pos' /\ Holds(tape', done')
                       /\ lent' = end' /\ Holds(tape', Passed')
      BY <1>1 DEF Written
    <3>1. /\ final <= lent /\ final <= pos /\ end <= final + MaxLend
          /\ Len(done) = pos /\ Holds(tape, done)
      BY <1>1, <1>3 DEF Written
    <3>2. lent = end
      BY <1>9 DEF Write, MayWrite
    <3>3. Passed' = done \o Span(given, Room)
      <4>1. job'.first = TRUE /\ job'.n = Room /\ job'.len = len
        BY <2>2
      <4>2. given' - len + Room * 0 = given /\ given' - job'.len + 0 = given
        BY <1>0, <1>2, <1>4, <4>1
      <4>3. Passed' = done' \o Span(given' - job'.len + 0, job'.n)
        BY <4>1 DEF Passed, Bytes
      <4> QED BY <2>2, <4>1, <4>2, <4>3
    <3>4. Holds(tape', done) /\ Holds(tape', done \o Span(given, Room))
      BY <1>4, <1>6, <2>1, <3>1, StoreBehind
    <3> QED BY <1>1, <2>2, <3>1, <3>2, <3>3, <3>4
  <2> QED BY <1>1, <1>7, <2>5, <2>6, <2>7, <2>8, WriterOK
<1> QED BY <1>8, <1>9

\* What m_pos will have passed reaches to the end of the window.
LEMMA PassedOK ==
  ASSUME IInv, kind = "writer", pc = "fill"
  PROVE  /\ Passed \in Seq(Nat)
         /\ Careful => Len(Passed) = lent /\ Holds(tape, Passed)
         /\ \A i \in 1..Len(done) : i \in 1..Len(Passed) /\ Passed[i] = done[i]
         /\ Len(done) <= Len(Passed)
<1>1. Types /\ Loop /\ Writing /\ Written
  BY DEF IInv
<1>2. /\ job.n \in Nat /\ job.len \in Nat /\ given \in Nat /\ job.len <= given
      /\ done \in Seq(Nat) /\ Len(done) \in Nat /\ pos \in Nat /\ end \in Nat /\ pos <= end
  BY <1>1 DEF Types, Jobs, Writing
<1>3. Careful => Len(done) = pos /\ lent = end /\ Holds(tape, Passed)
  BY <1>1 DEF Written
<1>4. CASE job.first
  <2> DEFINE b == Bytes(0, job.n)
  <2>1. b \in Seq(Nat) /\ Len(b) = job.n
    <3>1. given - job.len + 0 \in Nat
      BY <1>2
    <3> QED BY <1>2, <3>1, SpanIsSeq DEF Bytes
  <2>2. Passed = done \o b
    BY <1>4 DEF Passed
  <2>3. job.n = end - pos
    BY <1>1, <1>4 DEF Loop, Room
  <2> HIDE DEF b
  <2>4. /\ Passed \in Seq(Nat) /\ Len(Passed) = Len(done) + Len(b)
        /\ \A i \in 1..Len(done) : Passed[i] = done[i]
    BY <1>2, <2>1, <2>2, Elements
  <2>5. Len(Passed) = Len(done) + (end - pos)
    BY <2>1, <2>3, <2>4
  <2>6. Careful => Len(Passed) = lent
    BY <1>2, <1>3, <2>5
  <2>7. Len(done) <= Len(Passed) /\ \A i \in 1..Len(done) : i \in 1..Len(Passed)
    <3> DEFINE m == Len(done)
               n == Len(Passed)
    <3>1. m \in Nat /\ n = m + (end - pos) /\ pos \in Nat /\ end \in Nat /\ pos <= end
      BY <1>2, <2>5
    <3>2. m <= n /\ \A i \in 1..m : i \in 1..n
      <4> HIDE DEF m, n
      <4> QED BY <3>1
    <3> QED BY <3>2
  <2> QED BY <1>3, <2>4, <2>6, <2>7
<1>5. CASE ~job.first
  <2>1. Passed = done
    BY <1>5 DEF Passed
  <2>2. pos = end
    BY <1>1, <1>2, <1>5 DEF Loop, Room
  <2> QED BY <1>2, <1>3, <2>1, <2>2
<1> QED BY <1>4, <1>5

\* A turn of the loop: the full window is given back and the data go on in the next one.
LEMMA WriteFillIInv ==
  ASSUME IInv, WriteFill
  PROVE  IInv'
<1>1. PICK n \in 1..MaxLend :
       LET k == Least(job.len - job.n, n)
       IN  /\ tape' = Store(tape, lent, Bytes(job.n, k))
           /\ beg' = lent /\ pos' = lent + k /\ end' = lent + n /\ fresh' = TRUE
           /\ final' = lent /\ lent' = lent + n
           /\ done' = (IF job.first THEN done \o Bytes(0, job.n) ELSE done) \o Bytes(job.n, k)
           /\ IF job.n + k = job.len THEN Finish("none")
              ELSE job' = [job EXCEPT !.n = @ + k, !.first = FALSE] /\ UNCHANGED <<pc, call>>
  BY DEF WriteFill
<1>2. /\ kind = "writer" /\ pc = "fill" /\ kind' = "writer"
      /\ UNCHANGED <<given, closed, src, avail, line>>
  BY DEF WriteFill, client
<1>3. Types /\ Loop /\ Writing /\ Written
  BY DEF IInv
<1> DEFINE k == Least(job.len - job.n, n)
<1>4. /\ job.n \in Nat /\ job.len \in Nat /\ job.n < job.len /\ given \in Nat /\ job.len <= given
      /\ job \in [op : Ops, len : Nat, n : Nat, first : BOOLEAN] /\ job.op = "write"
      /\ lent \in Nat /\ n \in Nat /\ n > 0 /\ call \in Calls
  BY <1>2, <1>3, InputsAssumption DEF Types, Jobs, Loop, Writing
<1>5. k \in Nat /\ k <= n /\ k > 0 /\ (k = n \/ job.n + k = job.len)
  BY <1>4 DEF Least
<1>6. /\ tape' = Store(tape, lent, Bytes(job.n, k))
      /\ beg' = lent /\ pos' = lent + k /\ end' = lent + n /\ fresh' = TRUE
      /\ final' = lent /\ lent' = lent + n
      /\ done' = Passed \o Bytes(job.n, k)
  BY <1>1 DEF Passed
<1>7. \/ job.n + k = job.len /\ Finish("none")
      \/ /\ job.n + k # job.len
         /\ job' = [job EXCEPT !.n = @ + k, !.first = FALSE] /\ UNCHANGED <<pc, call>>
  BY <1>1
<1> HIDE DEF k
<1> DEFINE b == Bytes(job.n, k)
<1>8. b \in Seq(Nat) /\ b \in Seq(Int) /\ Len(b) = k
  <2>1. given - job.len + job.n \in Nat
    BY <1>4
  <2>2. b \in Seq(Nat) /\ Len(b) = k
    BY <1>5, <2>1, SpanIsSeq DEF Bytes
  <2> HIDE DEF b
  <2> QED BY <2>2
<1>9. done' = Passed \o b /\ tape' = Store(tape, lent, b)
  BY <1>6
<1> HIDE DEF b
<1>10. Passed \in Seq(Nat) /\ (Careful => Len(Passed) = lent /\ Holds(tape, Passed))
  BY <1>2, PassedOK
<1>11. done' \in Seq(Nat) /\ Len(done') = Len(Passed) + k /\ tape' \in Seq(Int)
  <2>1. tape \in Seq(Int)
    BY <1>3 DEF Types
  <2> QED BY <1>4, <1>8, <1>9, <1>10, <2>1, Elements, StoreOK
<1>12. Careful => Len(done') = pos' /\ Holds(tape', done')
  <2>1. tape \in Seq(Int)
    BY <1>3 DEF Types
  <2> SUFFICES ASSUME Careful PROVE Len(done') = pos' /\ Holds(tape', done')
    OBVIOUS
  <2>2. Holds(tape', done')
    BY <1>8, <1>9, <1>10, <2>1, StoreBehind
  <2> QED BY <1>6, <1>10, <1>11, <2>2
<1>13. /\ beg' \in Nat \cup {Nowhere} /\ pos' \in Nat /\ end' \in Nat /\ pos' <= end' /\ lent' \in Nat
       /\ lent' = end' /\ final' \in Nat /\ final' <= lent' /\ final' <= pos'
       /\ end' <= final' + MaxLend
       /\ k = n => Room' = 0
  BY <1>4, <1>5, <1>6, InputsAssumption DEF Room
<1>14. closed' = FALSE /\ fresh' = TRUE
  <2>1. closed \in BOOLEAN /\ ~closed
    BY <1>2, <1>3 DEF Types, Writing
  <2> QED BY <1>2, <1>6, <2>1
<1>15. CASE job.n + k = job.len /\ Finish("none")
  <2>1. pc' = "idle" /\ job' \in Jobs /\ call' \in Calls /\ call'.op = "write"
    BY <1>3, <1>4, <1>15, FinishOK DEF Excs
  <2>2. Types'
    BY <1>2, <1>3, <1>11, <1>13, <1>14, <2>1 DEF Types
  <2>3. Loop' /\ Writing' /\ Written'
    BY <1>12, <1>13, <1>14, <2>1 DEF Loop, Writing, Written
  <2> QED BY <1>2, <2>1, <2>2, <2>3, WriterOK
<1>16. CASE /\ job.n + k # job.len
            /\ job' = [job EXCEPT !.n = @ + k, !.first = FALSE] /\ UNCHANGED <<pc, call>>
  <2>1. job' \in Jobs /\ job'.op = "write" /\ job'.len = job.len /\ job'.n = job.n + k /\ ~job'.first
    <3>1. job.n + k \in Nat /\ job' = [job EXCEPT !.n = job.n + k, !.first = FALSE]
      BY <1>4, <1>5, <1>16
    <3> QED BY <1>4, <3>1 DEF Jobs
  <2>2. pc' = "fill" /\ call' = call
    BY <1>2, <1>16
  <2>3. Types'
    BY <1>2, <1>3, <1>11, <1>13, <1>14, <2>1, <2>2 DEF Types
  <2>4. k = n /\ Room' = 0 /\ job'.n < job'.len /\ job'.n > 0
    <3>1. k = n
      BY <1>5, <1>16
    <3>2. job.n + k <= job.len
      BY <1>4 DEF k, Least
    <3> QED BY <1>4, <1>5, <1>13, <1>16, <2>1, <3>1, <3>2
  <2>5. Loop'
    BY <2>1, <2>4 DEF Loop
  <2>6. Writing'
    BY <1>2, <1>4, <1>14, <2>1, <2>2 DEF Writing
  <2>7. Passed' = done'
    BY <2>1 DEF Passed
  <2>8. Written'
    BY <1>12, <1>13, <1>14, <2>7 DEF Written
  <2>9. call'.op # "getline"
    BY <1>2, <1>3, <2>2 DEF IInv, Lines
  <2> QED BY <1>2, <2>3, <2>5, <2>6, <2>8, <2>9, WriterOK
<1> QED BY <1>7, <1>15, <1>16

\* A target that throws, or lends nothing, inside write: what was given back stays
\* written.
LEMMA WriteThrowsIInv ==
  ASSUME IInv, WriteThrows \/ WriteNothing
  PROVE  IInv'
<1>1. /\ kind = "writer" /\ kind' = "writer" /\ pc = "fill"
      /\ Finish("io") \/ Finish("delay")
      /\ beg' = beg \/ beg' = Nowhere
      /\ UNCHANGED <<pos, end, fresh, src, avail, lent, tape, final, line, done, given, closed>>
  BY DEF WriteThrows, WriteNothing, Throws, pointers, client
<1>2. Types /\ Loop /\ Writing /\ Written
  BY DEF IInv
<1>3. pc' = "idle" /\ job' \in Jobs /\ call' \in Calls /\ call'.op = "write"
  <2>1. "io" \in Excs /\ "delay" \in Excs /\ job.op = "write"
    BY <1>1, <1>2 DEF Excs, Writing
  <2> QED BY <1>1, <1>2, <2>1, FinishOK
<1>4. Types'
  BY <1>1, <1>2, <1>3 DEF Types
<1>5. Loop' /\ Writing' /\ Written'
  <2>1. closed' = FALSE
    BY <1>1, <1>2 DEF Types, Writing
  <2> QED BY <1>1, <1>2, <1>3, <2>1 DEF Loop, Writing, Written, Holds
<1> QED BY <1>1, <1>3, <1>4, <1>5, WriterOK

\* flush and close tell the target that it ends at the position.
LEMMA FlushIInv ==
  ASSUME IInv, Flush \/ Close
  PROVE  IInv'
<1>1. /\ kind = "writer" /\ kind' = "writer" /\ pc = "idle" /\ pc' = "idle"
      /\ \/ beg # Nowhere /\ final' = pos /\ lent' = pos
         \/ beg = Nowhere /\ final' = final /\ lent' = lent
      /\ UNCHANGED <<beg, pos, end, fresh, src, avail, tape, line, done, given, job>>
      /\ ~closed
  BY DEF Flush, Close, Flushed, Can, pointers, client
<1>2. Types /\ Loop /\ Writing /\ Written
  BY DEF IInv
<1>3. \/ closed' = closed /\ call' = [op |-> "flush", len |-> 0, from |-> Len(done), exc |-> "none"]
      \/ closed' = TRUE /\ call' = [op |-> "close", len |-> 0, from |-> Len(done), exc |-> "none"]
  BY DEF Flush, Close, Called, client
<1>4. call' \in Calls /\ call'.op # "getline" /\ closed' \in BOOLEAN
  <2>1. Len(done) \in Nat /\ closed \in BOOLEAN
    BY <1>2 DEF Types
  <2>2. call' \in Calls /\ call'.op # "getline"
    BY <1>3, <2>1 DEF Calls, Ops, Excs
  <2> QED BY <1>3, <2>1, <2>2
<1>5. Types'
  BY <1>1, <1>2, <1>4 DEF Types
<1>6. Loop' /\ Writing'
  BY <1>1, <1>2 DEF Loop, Writing
<1>7. Written'
  <2>1. pos \in Nat /\ pos <= pos /\ end \in Nat /\ final \in Nat /\ MaxLend \in Nat
    BY <1>2, InputsAssumption DEF Types
  <2> SUFFICES ASSUME Careful
               PROVE  /\ final' <= lent' /\ final' <= pos' /\ end' <= final' + MaxLend
                      /\ Len(done') = pos' /\ Holds(tape', done')
                      /\ closed' /\ beg' # Nowhere => final' = pos'
    BY <1>1 DEF Written
  <2>2. /\ final <= lent /\ final <= pos /\ end <= final + MaxLend
        /\ Len(done) = pos /\ Holds(tape, done)
    BY <1>1, <1>2 DEF Written
  <2>3. end <= pos + MaxLend
    BY <2>1, <2>2
  <2> QED BY <1>1, <2>1, <2>2, <2>3 DEF Holds
<1> QED BY <1>1, <1>4, <1>5, <1>6, <1>7, WriterOK

\* Every step keeps the invariant.
LEMMA NextIInv == IInv /\ [Next]_vars => IInv'
<1> SUFFICES ASSUME IInv, [Next]_vars PROVE IInv'
  OBVIOUS
<1>1. ASSUME NEW len \in Lengths, Read("read", len) \/ Read("ensureRead", len) PROVE IInv'
  BY <1>1, ReadIInv
<1>2. ASSUME NEW len \in Lengths, Getline(len) PROVE IInv'
  BY <1>2, GetlineIInv
<1>3. ASSUME NEW len \in Lengths, Write(len) PROVE IInv'
  BY <1>3, WriteIInv
<1>4. CASE Fill \/ FillEnd \/ FillThrows \/ Eof \/ Grow
  BY <1>4, FillIInv, FillEndIInv, FillThrowsIInv, EofIInv, GrowIInv
<1>5. CASE GetlineFull \/ GetlineTerminator \/ GetlineRefill \/ GetlineThrows
  BY <1>5, GetlineFullIInv, GetlineTerminatorIInv, GetlineRefillIInv, GetlineThrowsIInv
<1>6. CASE GetlineCr \/ GetlineCrRefill \/ GetlineCrThrows
  BY <1>6, GetlineCrIInv, GetlineCrRefillIInv, GetlineCrThrowsIInv
<1>7. CASE WriteFill \/ WriteNothing \/ WriteThrows \/ Flush \/ Close
  BY <1>7, WriteFillIInv, WriteThrowsIInv, FlushIInv
<1>8. CASE UNCHANGED vars
  BY <1>8 DEF vars, pointers, stream, IInv, Types, Loop, Reading, Lines, Writing, Written, Room,
              InLine, LineExact, Terminator, Passed, Bytes
<1> QED BY <1>1, <1>2, <1>3, <1>4, <1>5, <1>6, <1>7, <1>8 DEF Next

\* Types, the bookkeeping of the loops, what a reader has taken, what a writer
\* has in the memory of the stream, and the line that is being read.
THEOREM Invariance == Spec => []IInv
<1>1. IInv /\ [Next]_vars => IInv'
  BY NextIInv
<1> QED BY InitIInv, <1>1, PTL DEF Spec

\* m_pos and m_end point into the window lent last whenever there is room between
\* them, in every call, after every exception and for clients that are not careful
\* too (ZeroCopy.cpp: do_fill_and_read, do_getline, do_flush_and_write).
THEOREM NeverStaleAlways == Spec => []NeverStale
<1>1. IInv => NeverStale
  <2> SUFFICES ASSUME IInv PROVE NeverStale
    OBVIOUS
  <2>1. Room \in Int /\ Room >= 0 /\ kind \in {"reader", "writer"}
    BY DEF IInv, Types, Room
  <2>2. Room > 0 => fresh /\ (kind = "reader" => end = lent)
    BY <2>1 DEF IInv, Reading, Writing
  <2> QED BY <2>1, <2>2 DEF NeverStale
<1> QED BY Invariance, <1>1, PTL

\* A getline that returns takes one line with the whole of its terminator, wherever
\* the windows end and however often the stream throws (ZeroCopy.cpp, do_getline).
THEOREM LineExactAlways == Spec => []LineExact
<1>1. IInv => LineExact
  BY DEF IInv, Types, Lines, LineExact
<1> QED BY Invariance, <1>1, PTL

\* The first n elements of a sequence that is at least as long.
LEMMA FirstPart ==
  ASSUME NEW S, NEW s \in Seq(S), NEW n \in 0..Len(s)
  PROVE  /\ SubSeq(s, 1, n) \in Seq(S) /\ Len(SubSeq(s, 1, n)) = n
         /\ \A i \in 1..n : SubSeq(s, 1, n)[i] = s[i]
<1>1. 1 \in Int /\ n \in Int /\ n \in Nat /\ \A i \in 1..n : s[i] \in S
  OBVIOUS
<1>2. /\ SubSeq(s, 1, n) \in Seq(S)
      /\ Len(SubSeq(s, 1, n)) = IF 1 <= n THEN n - 1 + 1 ELSE 0
      /\ \A i \in 1..(n - 1 + 1) : SubSeq(s, 1, n)[i] = s[1 + i - 1]
  BY <1>1, SubSeqProperties
<1>3. ASSUME NEW i \in 1..n PROVE SubSeq(s, 1, n)[i] = s[i]
  <2>1. i \in 1..(n - 1 + 1) /\ 1 + i - 1 = i
    BY <1>1
  <2> QED BY <1>2, <2>1
<1> QED BY <1>1, <1>2, <1>3

\* What the stream takes for written is the first of what was passed.
Final ==
  /\ SubSeq(tape, 1, final) \in Seq(Int) /\ Len(SubSeq(tape, 1, final)) = final
  /\ final \in Nat /\ final <= Len(done) /\ final <= lent /\ Len(done) = pos
  /\ \A i \in 1..final : SubSeq(tape, 1, final)[i] = done[i]

\* The target up to its final mark holds the first bytes a careful writer gave.
LEMMA FinalOK == IInv /\ kind = "writer" /\ Careful => Final
<1> SUFFICES ASSUME IInv, kind = "writer", Careful PROVE Final
  OBVIOUS
<1>1. /\ final \in Nat /\ pos \in Nat /\ lent \in Nat /\ tape \in Seq(Int)
      /\ final <= lent /\ final <= pos /\ Len(done) = pos /\ Holds(tape, done)
  BY DEF IInv, Types, Written
<1>2. pos <= Len(tape) /\ \A i \in 1..pos : tape[i] = done[i]
  BY <1>1 DEF Holds
<1>3. final \in 0..Len(tape) /\ \A i \in 1..final : i \in 1..pos
  BY <1>1, <1>2
<1> QED BY <1>1, <1>2, <1>3, FirstPart DEF Final

\* Only a writer has a destructor that does anything.
LEMMA ClosedIsWriter == Spec => [](closed => kind = "writer")
<1> DEFINE Inv == closed => kind = "writer"
<1>1. Init => Inv
  BY DEF Init
<1>2. ASSUME Inv, [Next]_vars PROVE Inv'
  <2>1. CASE Close
    BY <2>1 DEF Close, Can
  <2>2. CASE UNCHANGED vars
    BY <1>2, <2>2 DEF vars
  <2>3. CASE Next /\ ~Close
    <3>1. UNCHANGED <<kind, closed>>
      BY <2>3 DEF Next, client, Read, Getline, Write, Fill, FillEnd, FillThrows, Eof, Grow,
         GetlineFull, GetlineTerminator, GetlineRefill, GetlineThrows, GetlineCr,
         GetlineCrRefill, GetlineCrThrows, WriteFill, WriteNothing, WriteThrows, Flush
    <3> QED BY <1>2, <3>1
  <2> QED BY <1>2, <2>1, <2>2, <2>3
<1> QED BY <1>1, <1>2, PTL DEF Spec

\* When a careful client's writer is destroyed the stream has every byte that was
\* written, whatever it refused before; but if it had no room when it was last asked,
\* m_beg is lost, and with it at most the window it lent last (ZeroCopy.cpp:241-244,
\* 275-310).
THEOREM DeliveredAlways ==
  ASSUME Careful
  PROVE  Spec => []Delivered
<1>1. IInv /\ (closed => kind = "writer") => Delivered
  <2> SUFFICES ASSUME IInv, closed, kind = "writer"
               PROVE IF beg # Nowhere THEN SubSeq(tape, 1, final) = done
                     ELSE Len(done) <= final + MaxLend
    BY DEF Delivered
  <2>1. CASE beg # Nowhere
    <3>1. final = pos
      BY <2>1 DEF IInv, Written
    <3>2. done \in Seq(Nat)
      BY DEF IInv, Types
    <3> DEFINE left == SubSeq(tape, 1, final)
    <3>3. left \in Seq(Int) /\ Len(left) = final /\ Len(done) = final
          /\ \A i \in 1..final : left[i] = done[i]
      BY <3>1, FinalOK DEF Final
    <3> HIDE DEF left
    <3>4. left = done
      BY <3>2, <3>3, SeqEqual
    <3> QED BY <2>1, <3>4 DEF left
  <2>2. CASE beg = Nowhere
    <3>1. /\ Len(done) = pos /\ pos <= end /\ end <= final + MaxLend
          /\ pos \in Nat /\ end \in Nat /\ final \in Nat /\ MaxLend \in Nat
      BY InputsAssumption DEF IInv, Types, Written
    <3> QED BY <2>2, <3>1
  <2> QED BY <2>1, <2>2
<1> QED BY Invariance, ClosedIsWriter, <1>1, PTL

(***************************************************************************)
(* ZeroCopy implements BytePipe.                                           *)
(***************************************************************************)

\* A span of the first bytes extends a shorter one.
LEMMA SpanExtends ==
  ASSUME NEW a \in Nat, NEW b \in Nat, a <= b
  PROVE  Pipe!Extends(Span(0, b), Span(0, a))
<1>1. /\ Len(Span(0, a)) = a /\ Len(Span(0, b)) = b
      /\ \A i \in 1..a : Span(0, a)[i] = 0 + i
      /\ \A i \in 1..b : Span(0, b)[i] = 0 + i
  BY SpanIsSeq
<1>2. \A i \in 1..a : i \in 1..b
  OBVIOUS
<1> QED BY <1>1, <1>2 DEF Pipe!Extends

\* No step gives a byte back to the stream, or takes back what it lent.
LEMMA ReaderMoves ==
  ASSUME IInv, [Next]_vars, kind = "reader"
  PROVE  kind' = "reader" /\ lent <= lent' /\ pos <= pos'
<1>1. /\ pos \in Nat /\ lent \in Nat /\ Room \in Nat /\ pos + Room = lent
  BY WindowOK
<1>2. ASSUME NEW len \in Lengths, Read("read", len) \/ Read("ensureRead", len)
      PROVE  kind' = "reader" /\ lent <= lent' /\ pos <= pos'
  <2>1. len \in Nat
    BY InputsAssumption
  <2>2. kind' = kind /\ lent' = lent /\ (pos' = pos + len \/ pos' = pos)
    BY <1>2 DEF Read, Start, pointers, stream, client
  <2> QED BY <1>1, <2>1, <2>2
<1>3. ASSUME NEW len \in Lengths, Getline(len)
      PROVE  kind' = "reader" /\ lent <= lent' /\ pos <= pos'
  BY <1>1, <1>3 DEF Getline, pointers, stream, client
<1>4. CASE Eof \/ Grow \/ FillThrows \/ GetlineThrows \/ GetlineCrThrows
  <2>1. kind' = kind /\ lent' = lent /\ pos' = pos
    BY <1>4 DEF Eof, Start, Grow, FillThrows, GetlineThrows, GetlineCrThrows, Throws,
       pointers, stream, client
  <2> QED BY <1>1, <2>1
<1>5. CASE Fill
  <2>1. PICK n \in Lends \ {0} :
          NewWindow(n, IF job.op = "eof" THEN 0 ELSE Least(job.len - job.n, n))
    BY <1>5 DEF Fill
  <2>2. n \in Nat
    BY LendsOK
  <2>3. pc = "fill" /\ kind' = kind
    BY <1>5 DEF Fill, client
  <2>4. job.len \in Nat /\ job.n \in Nat /\ job.n < job.len
    BY <2>3 DEF IInv, Types, Loop, Jobs
  <2> DEFINE k == IF job.op = "eof" THEN 0 ELSE Least(job.len - job.n, n)
  <2>5. k \in Nat
    BY <2>2, <2>4 DEF Least
  <2>6. pos' = lent + k /\ lent' = lent + n
    BY <2>1 DEF NewWindow
  <2> HIDE DEF k
  <2> QED BY <1>1, <2>2, <2>3, <2>5, <2>6
<1>6. CASE FillEnd
  <2>1. kind' = kind /\ lent' = lent /\ (pos' = pos \/ pos' = lent)
    BY <1>6 DEF FillEnd, NoWindow, stream, client
  <2> QED BY <1>1, <2>1
<1>7. CASE GetlineFull \/ GetlineTerminator
  <2>1. PICK k \in 0..Room : Scanned(k, k) \/ (k > 0 /\ Scanned(k - 1, k))
    <3>1. CASE GetlineFull
      BY <3>1 DEF GetlineFull
    <3>2. CASE GetlineTerminator
      <4>1. PICK n \in 0..(Room - 1) : Scanned(n, n + 1)
        BY <3>2 DEF GetlineTerminator
      <4>2. n + 1 \in 0..Room /\ n + 1 > 0 /\ (n + 1) - 1 = n
        BY <1>1
      <4> QED BY <4>1, <4>2
    <3> QED BY <1>7, <3>1, <3>2
  <2>2. kind' = kind /\ lent' = lent /\ pos' = pos + k
    BY <1>7, <2>1 DEF GetlineFull, GetlineTerminator, Scanned, stream, client
  <2> QED BY <1>1, <2>2
<1>8. CASE GetlineRefill
  <2>1. PICK n \in Lends : IF n > 0 THEN NewWindow(n, 0) ELSE NoWindow /\ UNCHANGED stream
    BY <1>8 DEF GetlineRefill
  <2>2. n \in Nat
    BY LendsOK
  <2>3. kind' = kind /\ (lent' = lent + n \/ lent' = lent) /\ (pos' = lent + 0 \/ pos' = lent)
    BY <1>8, <2>1 DEF GetlineRefill, NewWindow, NoWindow, stream, client
  <2> QED BY <1>1, <2>2, <2>3
<1>9. CASE GetlineCr
  <2>1. kind' = kind /\ lent' = lent /\ (pos' = pos + 1 \/ pos' = pos + 0)
    BY <1>9 DEF GetlineCr, stream, client
  <2> QED BY <1>1, <2>1
<1>10. CASE GetlineCrRefill
  <2>1. PICK n \in Lends :
          IF n > 0 THEN NewWindow(n, IF n > 0 /\ src[lent + 1] = "lf" THEN 1 ELSE 0)
          ELSE UNCHANGED <<beg, pos, end, done, stream>>
    BY <1>10 DEF GetlineCrRefill
  <2>2. n \in Nat
    BY LendsOK
  <2>3. /\ kind' = kind
        /\ \/ lent' = lent + n /\ (pos' = lent + 1 \/ pos' = lent + 0)
           \/ lent' = lent /\ pos' = pos
    BY <1>10, <2>1 DEF GetlineCrRefill, NewWindow, stream, client
  <2> QED BY <1>1, <2>2, <2>3
<1>11. CASE \/ \E len \in Lengths : Write(len)
            \/ WriteFill \/ WriteNothing \/ WriteThrows \/ Flush \/ Close
  BY <1>11 DEF Write, WriteFill, WriteNothing, WriteThrows, Flush, Close, Can
<1>12. CASE UNCHANGED vars
  <2>1. kind' = kind /\ lent' = lent /\ pos' = pos
    BY <1>12 DEF vars, pointers, stream
  <2> QED BY <1>1, <2>1
<1> QED BY <1>2, <1>3, <1>4, <1>5, <1>6, <1>7, <1>8, <1>9, <1>10, <1>11, <1>12 DEF Next

\* The bytes m_pos has passed only grow, and so does what the stream takes for
\* written.
LEMMA WriterMoves ==
  ASSUME Careful, IInv, [Next]_vars, kind = "writer"
  PROVE  kind' = "writer" /\ Pipe!Extends(done', done) /\ final <= final'
<1>1. /\ done \in Seq(Nat) /\ final \in Nat /\ final <= lent /\ final <= pos /\ pos \in Nat
      /\ lent \in Nat /\ pc \in {"idle", "fill"} /\ given \in Nat
  BY DEF IInv, Types, Written, Writing
<1>2. Pipe!Extends(done, done)
  BY <1>1 DEF Pipe!Extends
<1>3. ASSUME NEW len \in Lengths, Write(len)
      PROVE  kind' = "writer" /\ Pipe!Extends(done', done) /\ final <= final'
  <2>1. kind' = kind /\ final' = final /\ (done' = done \/ done' = done \o Span(given, len))
    BY <1>3 DEF Write
  <2>2. len \in Nat
    BY InputsAssumption
  <2> DEFINE b == Span(given, len)
  <2>3. b \in Seq(Nat) /\ Len(b) = len
    BY <1>1, <2>2, SpanIsSeq
  <2> HIDE DEF b
  <2>4. /\ Len(done \o b) = Len(done) + Len(b)
        /\ \A i \in 1..Len(done) : (done \o b)[i] = done[i]
    BY <1>1, <2>3, Elements
  <2>5. Pipe!Extends(done \o b, done)
    <3>1. Len(done) \in Nat
      BY <1>1
    <3> QED BY <2>2, <2>3, <2>4, <3>1 DEF Pipe!Extends
  <2>6. done' = done \/ done' = done \o b
    BY <2>1 DEF b
  <2>7. Pipe!Extends(done', done)
    BY <1>2, <2>5, <2>6
  <2>8. final <= final'
    BY <1>1, <2>1
  <2> QED BY <2>1, <2>7, <2>8
<1>4. CASE WriteFill
  <2>1. PICK n \in 1..MaxLend :
          done' = Passed \o Bytes(job.n, Least(job.len - job.n, n)) /\ final' = lent
    BY <1>4 DEF WriteFill, Passed
  <2>2. kind' = kind /\ pc = "fill"
    BY <1>4 DEF WriteFill, client
  <2>3. job.n \in Nat /\ job.len \in Nat /\ job.n < job.len /\ job.len <= given /\ n \in Nat
    BY <2>2, InputsAssumption DEF IInv, Types, Loop, Writing, Jobs
  <2> DEFINE b == Bytes(job.n, Least(job.len - job.n, n))
  <2>4. b \in Seq(Nat) /\ Len(b) \in Nat
    <3>1. given - job.len + job.n \in Nat /\ Least(job.len - job.n, n) \in Nat
      BY <1>1, <2>3 DEF Least
    <3> QED BY <3>1, SpanIsSeq DEF Bytes
  <2>5. done' = Passed \o b
    BY <2>1
  <2> HIDE DEF b
  <2>6. /\ Passed \in Seq(Nat) /\ Len(done) <= Len(Passed)
        /\ \A i \in 1..Len(done) : i \in 1..Len(Passed) /\ Passed[i] = done[i]
    BY <2>2, PassedOK
  <2>7. /\ Len(Passed \o b) = Len(Passed) + Len(b) /\ Len(Passed) \in Nat /\ Len(done) \in Nat
        /\ \A i \in 1..Len(Passed) : (Passed \o b)[i] = Passed[i]
    BY <1>1, <2>4, <2>6, Elements
  <2>8. Pipe!Extends(Passed \o b, done)
    BY <2>4, <2>6, <2>7 DEF Pipe!Extends
  <2> QED BY <1>1, <2>1, <2>2, <2>5, <2>8
<1>5. CASE WriteNothing \/ WriteThrows \/ Flush \/ Close
  <2>1. kind' = kind /\ done' = done /\ (final' = final \/ final' = pos)
    BY <1>5 DEF WriteNothing, WriteThrows, Throws, Flush, Close, Flushed, client
  <2> QED BY <1>1, <1>2, <2>1
<1>6. CASE UNCHANGED vars
  <2>1. kind' = kind /\ done' = done /\ final' = final
    BY <1>6 DEF vars, stream
  <2> QED BY <1>1, <1>2, <2>1
<1>7. CASE \/ \E len \in Lengths : Read("read", len) \/ Read("ensureRead", len) \/ Getline(len)
           \/ Fill \/ FillEnd \/ FillThrows \/ Eof \/ Grow
           \/ GetlineFull \/ GetlineTerminator \/ GetlineRefill \/ GetlineThrows
           \/ GetlineCr \/ GetlineCrRefill \/ GetlineCrThrows
  BY <1>1, <1>7 DEF Read, Getline, Fill, FillEnd, FillThrows, Eof, Grow, GetlineFull,
     GetlineTerminator, GetlineRefill, GetlineThrows, GetlineCr, GetlineCrRefill,
     GetlineCrThrows, Can
<1> QED BY <1>3, <1>4, <1>5, <1>6, <1>7 DEF Next

\* Each step moves bytes into the pipe and out of it.
LEMMA PipeStep ==
  ASSUME Careful, IInv, [Next]_vars, IInv'
  PROVE  Pipe!Move
<1>1. CASE kind = "reader"
  <2>1. kind' = "reader" /\ lent <= lent' /\ pos <= pos'
    BY <1>1, ReaderMoves
  <2>2. /\ pos \in Nat /\ lent \in Nat /\ done = Span(0, pos)
        /\ pos' \in Nat /\ lent' \in Nat /\ done' = Span(0, pos') /\ pos' <= lent'
    BY <1>1, <2>1 DEF IInv, Types, Reading
  <2>3. /\ Pipe!Extends(Span(0, lent'), Span(0, lent))
        /\ Pipe!Extends(Span(0, pos'), Span(0, pos))
        /\ Pipe!Extends(Span(0, lent'), Span(0, pos'))
    BY <2>1, <2>2, SpanExtends
  <2> QED BY <1>1, <2>1, <2>2, <2>3 DEF Pipe!Move
<1>2. CASE kind = "writer"
  <2>1. kind' = "writer" /\ Pipe!Extends(done', done) /\ final <= final'
    BY <1>2, WriterMoves
  <2>2. Final
    BY <1>2, FinalOK
  <2>3. Final'
    <3>1. (IInv /\ kind = "writer" /\ Careful)' => Final'
      BY FinalOK, PTL
    <3> QED BY <2>1, <3>1
  <2> DEFINE l == SubSeq(tape, 1, final)
             m == SubSeq(tape', 1, final')
             d == done
             e == done'
  <2>4. Len(l) = final /\ final \in Nat /\ final <= Len(d) /\ \A i \in 1..final : l[i] = d[i]
    BY <2>2 DEF Final
  <2>5. Len(m) = final' /\ final' \in Nat /\ final' <= Len(e) /\ \A i \in 1..final' : m[i] = e[i]
    BY <2>3 DEF Final
  <2>6. Len(d) <= Len(e) /\ \A i \in 1..Len(d) : e[i] = d[i]
    BY <2>1 DEF Pipe!Extends
  <2>7. Len(d) \in Nat
    BY DEF IInv, Types
  <2> HIDE DEF l, m, d, e
  <2>8. \A i \in 1..final : i \in 1..final' /\ i \in 1..Len(d)
    BY <2>1, <2>4, <2>5, <2>7
  <2>9. Pipe!Extends(m, l)
    BY <2>1, <2>4, <2>5, <2>6, <2>8 DEF Pipe!Extends
  <2>10. Pipe!Extends(e, m)
    BY <2>5 DEF Pipe!Extends
  <2>11. Pipe!Extends(e, d)
    BY <2>1 DEF d, e
  <2> QED BY <1>2, <2>1, <2>9, <2>10, <2>11 DEF Pipe!Move, l, m, d, e
<1>3. kind \in {"reader", "writer"}
  BY DEF IInv, Types
<1> QED BY <1>1, <1>2, <1>3

\* Through windows of any sizes, short reads and a stream that throws, the bytes a
\* reader's calls take are those that were lent, in order, each once, and those a
\* careful client's writer has put are the ones it was given: the classes of
\* ZeroCopy.cpp implement the pipe.
THEOREM Refinement ==
  ASSUME Careful
  PROVE  Spec => IsPipe
<1>1. Init => Pipe!Init
  <2> SUFFICES ASSUME Init PROVE Pipe!Init
    OBVIOUS
  <2>1. lent = 0 /\ done = <<>> /\ tape = <<>> /\ final = 0
    BY DEF Init
  <2>2. SubSeq(tape, 1, final) = <<>> /\ Span(0, lent) = <<>>
    BY <2>1, SpanNone
  <2> QED BY <2>1, <2>2 DEF Pipe!Init
<1>2. IInv /\ [Next]_vars /\ IInv' => [Pipe!Move]_(Pipe!vars)
  BY PipeStep
<1> QED BY <1>1, <1>2, Invariance, PTL DEF Spec, IsPipe, Pipe!Spec

===============================================================================
