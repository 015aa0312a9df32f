----------------------------- MODULE OutputBuffer -----------------------------
(***************************************************************************)
(* nark::OutputBuffer = OutputBufferBase<IOBufferBase> (StreamBuffer.hpp,  *)
(* .cpp): a write buffer in front of an IOutputStream.                     *)
(*                                                                         *)
(* A byte is its number in what the client has to write: a call is given   *)
(* the bytes that follow the ones accepted so far, so after a call that    *)
(* threw the client offers the same bytes again.  The memory [m_beg, m_pos) *)
(* is the sequence mem, m_end - m_beg is fin.                              *)
(*                                                                         *)
(* The stream may write less than it was given, or throw, at most          *)
(* MaxFailures times; sink is what it has taken.                           *)
(***************************************************************************)
EXTENDS Integers, Sequences

CONSTANTS
  Capacities,   \* arguments of initbuf and set_bufsize
  Lengths,      \* lengths given to write, ensureWrite, from_input, and printed
  Calls,        \* the operations this client uses
  MaxBytes,     \* bound on the bytes the client has to write
  MaxFailures,  \* bound on the failures of the stream
  InputEnds     \* may the input of from_input end early?

AllCalls == {"write", "ensureWrite", "writeByte", "flush", "from_input",
             "from_input_fresh", "vprintf", "initbuf", "set_bufsize", "attach",
             "destroy"}

ASSUME ArgumentsAssumption ==
  /\ Capacities \subseteq Nat
  /\ Capacities # {}
  /\ Lengths \subseteq Nat
ASSUME BoundsAssumption ==
  /\ MaxBytes \in Nat
  /\ MaxFailures \in Nat
ASSUME ClientAssumption ==
  /\ Calls \subseteq AllCalls
  /\ InputEnds \in BOOLEAN

VARIABLES
  attached,  \* m_os # NULL
  alloc,     \* m_beg # NULL
  cap,       \* m_capacity
  mem,       \* the bytes in [m_beg, m_pos)
  fin,       \* m_end - m_beg
  sink,      \* the bytes the stream has taken, in order
  failures,  \* how often the stream failed
  accepted,  \* history: the bytes calls reported as written, in order
  pc,        \* "idle", "destroyed", or the loop of vprintf or from_input
  todo,      \* bytes the running loop still has to write
  call       \* the call in progress or the last one, and its outcome

vars == <<attached, alloc, cap, mem, fin, sink, failures, accepted, pc, todo, call>>

-----------------------------------------------------------------------------
Least(a, b) == IF a <= b THEN a ELSE b
First(s, n) == SubSeq(s, 1, n)
After(s, n) == SubSeq(s, n + 1, Len(s))

\* The next n bytes of the client.
Data(n) == [i \in 1..n |-> Len(accepted) + i]
Offered(n) == Len(accepted) + n <= MaxBytes

\* External: align_up(x, a), the least multiple of a that is not below x.
AlignUp(x, a) == ((x + a - 1) \div a) * a

\* External: IOutputStream::write of data to a stream that has taken s; what
\* it has taken then, and how many bytes it reported.
StreamWrite(s, f, data) ==
  {[sink |-> s \o First(data, k), n |-> k,
    failures |-> IF k = Len(data) THEN f ELSE f + 1] :
      k \in IF f < MaxFailures THEN 0..Len(data) ELSE {Len(data)}}

Outcome(a, s, m, e, f, n, x) ==
  [alloc |-> a, sink |-> s, mem |-> m, fin |-> e, failures |-> f, n |-> n, exc |-> x]

\* OutputBufferBase::flush_buffer of the bytes m with m_end - m_beg = e.  A
\* short write throws and leaves the buffer as it was, all of it.
FlushBuffer(a, m, e) ==
  IF ~a THEN {Outcome(a, sink, m, e, failures, 0, "none")}
  ELSE IF ~attached THEN {Outcome(a, sink, m, e, failures, 0, "delay")}
  ELSE {IF w.n = Len(m) THEN Outcome(a, w.sink, <<>>, cap, w.failures, 0, "none")
                        ELSE Outcome(a, w.sink, m, e, w.failures, 0, "delay") :
           w \in StreamWrite(sink, failures, m)}

\* Mutant: the buffered bytes are not flushed before.
WriteThroughFirst(data) ==
  {Outcome(alloc, w.sink, mem, fin, w.failures, w.n,
           IF w.n = 0 THEN "space" ELSE "none") :
      w \in StreamWrite(sink, failures, data)}

\* data goes past the buffer: what was buffered first, then one stream write,
\* whose short count is returned, 0 being an OutOfSpaceException.
WriteThrough(data) ==
  UNION {IF f.exc # "none" THEN {f}
         ELSE {Outcome(alloc, w.sink, f.mem, f.fin, w.failures, w.n,
                       IF w.n = 0 THEN "space" ELSE "none") :
                  w \in StreamWrite(f.sink, f.failures, data)}
              \cup
              {Outcome(alloc, w.sink, f.mem, f.fin, w.failures, 0, "io") :
                  w \in {v \in StreamWrite(f.sink, f.failures, data) : v.n < Len(data)}} :
         f \in FlushBuffer(alloc, mem, fin)}

\* Mutant: m_pos is set to m_end only after the flush.
WriteBehindLate(data) ==
  LET n == fin - Len(mem)
  IN  {IF f.exc # "none" THEN f
       ELSE Outcome(TRUE, f.sink, After(data, n), f.fin, f.failures, Len(data), "none") :
         f \in FlushBuffer(TRUE, mem, fin)}

\* The buffer is filled to m_end and flushed, the rest of data is copied to
\* its start.  A flush that throws leaves the part of data that fitted in.
WriteBehind(data) ==
  LET n == fin - Len(mem)
  IN  {IF f.exc # "none" THEN f
       ELSE Outcome(TRUE, f.sink, After(data, n), f.fin, f.failures, Len(data), "none") :
         f \in FlushBuffer(TRUE, mem \o First(data, n), fin)}

\* OutputBufferBase::do_flush_and_write.
DoFlushAndWrite(data) ==
  IF ~attached THEN {Outcome(alloc, sink, mem, fin, failures, 0, "delay")}
  ELSE IF Len(data) >= cap THEN WriteThrough(data)
  ELSE WriteBehind(data)

\* The inline paths of write, ensureWrite and writeByte in front of it.
Put(data) ==
  IF Len(mem) + Len(data) <= fin
  THEN {Outcome(alloc, sink, mem \o data, fin, failures, Len(data), "none")}
  ELSE DoFlushAndWrite(data)

Become(o) ==
  /\ alloc' = o.alloc
  /\ sink' = o.sink
  /\ mem' = o.mem
  /\ fin' = o.fin
  /\ failures' = o.failures
  /\ UNCHANGED attached

Finished(op, len, n, e) ==
  /\ pc' = "idle"
  /\ call' = [op |-> op, len |-> len, n |-> n, exc |-> e]
Accept(data, n) == accepted' = accepted \o First(data, n)

-----------------------------------------------------------------------------
Init ==
  /\ attached \in BOOLEAN
  /\ alloc = FALSE
  /\ cap \in Capacities
  /\ mem = <<>>
  /\ fin = 0
  /\ sink = <<>>
  /\ failures = 0
  /\ accepted = <<>>
  /\ pc = "idle"
  /\ todo = 0
  /\ call = [op |-> "none", len |-> 0, n |-> 0, exc |-> "none"]

\* OutputBufferBase::write.
Write(len) ==
  /\ pc = "idle" /\ "write" \in Calls /\ Offered(len)
  /\ \E o \in Put(Data(len)) :
        /\ Become(o)
        /\ Accept(Data(len), IF o.exc = "none" THEN o.n ELSE 0)
        /\ Finished("write", len, o.n, o.exc)
  /\ UNCHANGED <<cap, todo>>

\* OutputBufferBase::ensureWrite: a short count is an OutOfSpaceException.
EnsureWrite(len) ==
  /\ pc = "idle" /\ "ensureWrite" \in Calls /\ Offered(len)
  /\ \E o \in Put(Data(len)) :
        LET e == IF o.exc = "none" /\ o.n # len THEN "space" ELSE o.exc
        IN  /\ Become(o)
            /\ Accept(Data(len), IF e = "none" THEN len ELSE 0)
            /\ Finished("ensureWrite", len, o.n, e)
  /\ UNCHANGED <<cap, todo>>

\* OutputBufferBase::writeByte.
WriteByte ==
  /\ pc = "idle" /\ "writeByte" \in Calls /\ Offered(1)
  /\ \E o \in Put(Data(1)) :
        /\ Become(o)
        /\ Accept(Data(1), IF o.exc = "none" THEN 1 ELSE 0)
        /\ Finished("writeByte", 1, o.n, o.exc)
  /\ UNCHANGED <<cap, todo>>

\* Mutant: only the stream is flushed, the buffer is not.
FlushStream ==
  {Outcome(alloc, sink, mem, fin, failures, 0, "none")}

\* OutputBufferBase::flush: flush_buffer, then IOutputStream::flush, which may
\* throw as well.
FlushBoth ==
  LET buffer == FlushBuffer(alloc, mem, fin)
  IN  buffer \cup {[f EXCEPT !.exc = "io", !.failures = @ + 1] :
                      f \in {b \in buffer : b.exc = "none" /\ b.failures < MaxFailures}}

\* m_os is used without a test: a client without stream and memory may not.
Flush ==
  /\ pc = "idle" /\ "flush" \in Calls /\ (attached \/ alloc)
  /\ \E o \in FlushBoth : Become(o) /\ Finished("flush", 0, 0, o.exc)
  /\ UNCHANGED <<cap, accepted, todo>>

-----------------------------------------------------------------------------
(* OutputBufferBase::vprintf of a text of len bytes: one step per pass.     *)

VprintfCall(len) ==
  /\ pc = "idle" /\ "vprintf" \in Calls /\ Offered(len)
  /\ IF cap = 0
     THEN /\ Finished("vprintf", len, 0, "io")
          /\ UNCHANGED <<alloc, todo>>
     ELSE /\ alloc' = TRUE
          /\ todo' = len
          /\ pc' = "vprintf"
          /\ call' = [op |-> "vprintf", len |-> len, n |-> 0, exc |-> "none"]
  /\ UNCHANGED <<attached, cap, mem, fin, sink, failures, accepted>>

\* Mutant: the buffer is flushed but never made larger.
VprintfPassNoGrow ==
  /\ pc = "vprintf"
  /\ \/ /\ todo < fin - Len(mem)
        /\ mem' = mem \o Data(todo)
        /\ Accept(Data(todo), todo)
        /\ Finished("vprintf", todo, todo, "none")
        /\ UNCHANGED <<attached, alloc, cap, fin, sink, failures, todo>>
     \/ /\ todo >= fin - Len(mem)
        /\ \E o \in FlushBoth :
              /\ Become(o)
              /\ IF o.exc = "none" THEN UNCHANGED <<pc, call>>
                                   ELSE Finished("vprintf", todo, 0, o.exc)
        /\ UNCHANGED <<cap, accepted, todo>>

\* The text and its NUL fit into [m_pos, m_end), or the buffer is flushed and
\* made large enough; m_end follows at the next flush only.
VprintfPass ==
  /\ pc = "vprintf"
  /\ \/ /\ todo < fin - Len(mem)
        /\ mem' = mem \o Data(todo)
        /\ Accept(Data(todo), todo)
        /\ Finished("vprintf", todo, todo, "none")
        /\ UNCHANGED <<attached, alloc, cap, fin, sink, failures, todo>>
     \/ /\ todo >= fin - Len(mem)
        /\ \E o \in FlushBoth :
              /\ Become(o)
              /\ IF o.exc = "none"
                 THEN /\ cap' = IF todo + 1 > cap THEN AlignUp(todo + 1, cap) ELSE cap
                      /\ UNCHANGED <<pc, call>>
                 ELSE /\ Finished("vprintf", todo, 0, o.exc)
                      /\ UNCHANGED cap
        /\ UNCHANGED <<accepted, todo>>

-----------------------------------------------------------------------------
(* OutputBufferBase::from_input: one step per turn of its loop.  A client   *)
(* that does not call "from_input_fresh" calls it once there is memory.     *)

FromInputCall(len) ==
  /\ pc = "idle" /\ "from_input" \in Calls /\ Offered(len)
  /\ alloc \/ "from_input_fresh" \in Calls
  /\ pc' = "from_input"
  /\ todo' = len
  /\ call' = [op |-> "from_input", len |-> len, n |-> 0, exc |-> "none"]
  /\ UNCHANGED <<attached, alloc, cap, mem, fin, sink, failures, accepted>>

FromInputDone(e) == Finished("from_input", call.len, call.len - todo', e)

\* Mutant: what the input is asked for is not limited by the room left.
FromInputOverrun ==
  /\ pc = "from_input" /\ todo > 0
  /\ \E o \in IF Len(mem) = fin THEN FlushBuffer(alloc, mem, fin)
              ELSE {Outcome(alloc, sink, mem, fin, failures, 0, "none")} :
        IF o.exc # "none"
        THEN /\ Become(o)
             /\ UNCHANGED <<accepted, todo>>
             /\ FromInputDone(o.exc)
        ELSE /\ Become([o EXCEPT !.mem = @ \o Data(todo)])
             /\ Accept(Data(todo), todo)
             /\ todo' = 0
             /\ UNCHANGED <<pc, call>>
  /\ UNCHANGED cap

\* Mutant: the full buffer is not flushed.
FromInputNoFlush ==
  /\ pc = "from_input" /\ todo > 0
  /\ LET n == Least(fin - Len(mem), todo)
     IN  \/ /\ mem' = mem \o Data(n)
            /\ Accept(Data(n), n)
            /\ todo' = todo - n
            /\ UNCHANGED <<pc, call>>
         \/ /\ InputEnds /\ n > 0
            /\ UNCHANGED <<mem, accepted, todo>>
            /\ FromInputDone("eof")
  /\ UNCHANGED <<attached, alloc, cap, fin, sink, failures>>

\* A full buffer is flushed; then the input fills what is free of it, or
\* throws, and m_pos stays.
FromInputTurn ==
  /\ pc = "from_input" /\ todo > 0
  /\ \E o \in IF Len(mem) = fin THEN FlushBuffer(alloc, mem, fin)
              ELSE {Outcome(alloc, sink, mem, fin, failures, 0, "none")} :
        LET n == Least(o.fin - Len(o.mem), todo)
        IN  \/ /\ o.exc = "none"
               /\ Become([o EXCEPT !.mem = @ \o Data(n)])
               /\ Accept(Data(n), n)
               /\ todo' = todo - n
               /\ UNCHANGED <<pc, call>>
            \/ /\ o.exc # "none" \/ InputEnds
               /\ Become(o)
               /\ UNCHANGED <<accepted, todo>>
               /\ FromInputDone(IF o.exc = "none" THEN "eof" ELSE o.exc)
  /\ UNCHANGED cap

FromInputReturn ==
  /\ pc = "from_input" /\ todo = 0
  /\ UNCHANGED <<attached, alloc, cap, mem, fin, sink, failures, accepted, todo>>
  /\ FromInputDone("none")

FromInput == FromInputTurn \/ FromInputReturn

-----------------------------------------------------------------------------
(* initbuf, set_bufsize, attach, and the destructor.                        *)

Initbuf(c) ==
  /\ pc = "idle" /\ "initbuf" \in Calls
  /\ ~alloc /\ c > 0
  /\ alloc' = TRUE
  /\ cap' = c
  /\ UNCHANGED <<attached, mem, fin, sink, failures, accepted, pc, todo, call>>

\* A client that does not cut off what m_end encloses.
SetBufsize(c) ==
  /\ pc = "idle" /\ "set_bufsize" \in Calls
  /\ alloc => c > 0 /\ c >= fin
  /\ cap' = c
  /\ UNCHANGED <<attached, alloc, mem, fin, sink, failures, accepted, pc, todo, call>>

\* attach(NULL) and attach(stream): what is buffered stays.
Attach ==
  /\ pc = "idle" /\ "attach" \in Calls
  /\ attached' = ~attached
  /\ UNCHANGED <<alloc, cap, mem, fin, sink, failures, accepted, pc, todo, call>>

\* Mutant: the destructor only frees the memory.
DestroyOnly ==
  /\ pc = "idle" /\ "destroy" \in Calls
  /\ mem' = <<>>
  /\ pc' = "destroyed"
  /\ UNCHANGED <<attached, alloc, cap, fin, sink, failures, accepted, todo, call>>

\* The destructor flushes the buffer into its stream, ignores an exception,
\* and frees the memory.
Destroy ==
  /\ pc = "idle" /\ "destroy" \in Calls
  /\ \E o \in IF attached THEN FlushBuffer(alloc, mem, fin)
              ELSE {Outcome(alloc, sink, mem, fin, failures, 0, "none")} :
        /\ sink' = o.sink
        /\ failures' = o.failures
  /\ mem' = <<>>
  /\ pc' = "destroyed"
  /\ UNCHANGED <<attached, alloc, cap, fin, accepted, todo, call>>

Next ==
  \/ \E len \in Lengths : Write(len) \/ EnsureWrite(len)
  \/ WriteByte
  \/ Flush
  \/ \E len \in Lengths : VprintfCall(len)
  \/ VprintfPass
  \/ \E len \in Lengths : FromInputCall(len)
  \/ FromInput
  \/ \E c \in Capacities : Initbuf(c) \/ SetBufsize(c)
  \/ Attach
  \/ Destroy

Spec == Init /\ [][Next]_vars

\* A call that was made is executed: the loops are the thread's own steps.
FairSpec == Spec /\ WF_vars(VprintfPass) /\ WF_vars(FromInput)

-----------------------------------------------------------------------------
(* Properties.                                                              *)

\* m_beg <= m_pos <= m_end <= m_beg + m_capacity is part of the type.
TypeOK ==
  /\ attached \in BOOLEAN
  /\ alloc \in BOOLEAN
  /\ cap \in Nat
  /\ mem \in Seq(Nat)
  /\ fin \in Len(mem)..cap
  /\ fin # 0 => alloc
  /\ alloc => cap # 0
  /\ sink \in Seq(Nat)
  /\ failures \in 0..MaxFailures
  /\ accepted \in Seq(Nat)
  /\ pc \in {"idle", "vprintf", "from_input", "destroyed"}
  /\ todo \in Nat
  /\ call \in [op : AllCalls \cup {"none"}, len : Nat, n : Nat,
               exc : {"none", "delay", "space", "io", "eof"}]

\* As long as the stream did not fail, every byte reported as written is in
\* the stream or in the buffer behind it, once and in order, whichever of
\* inline copies, write-behind and write-through it took.
ExactlyOnce ==
  (failures = 0 /\ pc # "destroyed") => sink \o mem = accepted

\* Also after failures nothing overtakes and nothing is skipped: a byte comes
\* after its predecessor, though it may come again.
NoGaps ==
  LET out == sink \o mem
  IN  \A i \in 1..Len(out) : out[i] = 1 \/ \E j \in 1..(i - 1) : out[j] = out[i] - 1

\* A flush that returned has put everything into the stream, whatever failed
\* before it.
FlushedIsSent ==
  [][(Flush /\ call'.exc = "none") =>
        \A b \in 1..Len(accepted) : \E i \in 1..Len(sink') : sink'[i] = b]_vars

\* An object that is destroyed with its stream attached leaves nothing behind.
Delivered ==
  (pc = "destroyed" /\ attached /\ failures = 0) => sink = accepted

\* vprintf ends, however long the text and small the buffer, and so does
\* from_input.
LoopsEnd ==
  /\ (pc = "vprintf") ~> (pc = "idle")
  /\ (pc = "from_input") ~> (pc = "idle")
===============================================================================
