------------------------------ MODULE InputBuffer ------------------------------
(***************************************************************************)
(* nark::InputBuffer (StreamBuffer.hpp/.cpp): a read buffer in front of an *)
(* IInputStream, "used like a Stream".                                     *)
(*                                                                         *)
(* A byte is its offset 1, 2, ... in the attached stream; src[i] is its    *)
(* class, which only getline looks at.  The memory [m_beg, m_end) is the   *)
(* sequence mem, so m_end - m_beg is Len(mem), and m_pos - m_beg is pos.   *)
(* What lies beyond m_end is never read and is not represented.            *)
(*                                                                         *)
(* The object is sequential: read, ensureRead, readByte, getByte, eof are  *)
(* one step each, the loops of getline and to_output take a step per turn. *)
(* The stream behind it may return short reads, may grow after it reported *)
(* its end (a pipe, a file being appended) and may throw.                  *)
(***************************************************************************)
EXTENDS Integers, Sequences

CONSTANTS
  Sources,       \* streams that may be attached: sequences of byte classes
  Capacities,    \* arguments of set_bufsize
  Lengths,       \* lengths asked of read, ensureRead, to_output, and maxlen
  Calls,         \* the operations this client uses
  Growing,       \* may the stream grow after the client has seen its end?
  StreamThrows   \* may IInputStream::read throw IOException?

Classes == {"cr", "lf", "other"}
AllCalls == {"read", "ensureRead", "readByte", "getByte", "eof", "getline",
             "to_output", "initbuf", "set_bufsize", "shrink", "resetbuf", "attach"}

ASSUME SourcesAssumption ==
  /\ \A s \in Sources : s \in Seq(Classes)
  /\ Sources # {}
ASSUME ArgumentsAssumption ==
  /\ Capacities \subseteq Nat
  /\ Lengths \subseteq Nat
  /\ Capacities # {}
ASSUME ClientAssumption ==
  /\ Calls \subseteq AllCalls
  /\ Growing \in BOOLEAN
  /\ StreamThrows \in BOOLEAN

VARIABLES
  src,       \* the byte classes of the attached stream
  avail,     \* how many of its bytes exist so far
  spos,      \* how many bytes IInputStream::read has returned
  attached,  \* m_is # NULL
  alloc,     \* m_beg # NULL
  cap,       \* m_capacity
  mem,       \* the bytes in [m_beg, m_end)
  pos,       \* m_pos - m_beg
  pc,        \* "idle", or the loop of getline or to_output that is running
  line,      \* the line getline has assembled
  todo,      \* maxlen of the running getline; length - total of to_output
  consumed,  \* history: every byte taken off the stream by calls, in order
  dropped,   \* history: consumed bytes that no call returned
  call       \* the call in progress or the last one, and its outcome

streamVars == <<src, avail>>
bufVars    == <<spos, attached, alloc, cap, mem, pos>>
vars == <<src, avail, spos, attached, alloc, cap, mem, pos, pc, line, todo,
          consumed, dropped, call>>

-----------------------------------------------------------------------------
Least(a, b) == IF a <= b THEN a ELSE b

\* The n bytes after offset a, the next n of the stream, and [m_pos, m_end).
Span(a, n) == [i \in 1..n |-> a + i]
Fresh(n) == Span(spos, n)
Window   == SubSeq(mem, pos + 1, Len(mem))
BytesOf(s) == {s[i] : i \in 1..Len(s)}

\* Mutant: a single read instead of the loop of read_min_max.
ReadOnce(min, max) ==
  IF min = 0 THEN {0}
  ELSE {n \in 0..Least(max, avail - spos) : n > 0 \/ avail = spos}

\* InputBuffer::read_min_max on a stream that does not fail: the totals it
\* may return.  It stops at min_length, or when a read returned 0.
ReadMinMax(min, max) ==
  IF min = 0 THEN {0}
  ELSE {n \in 0..Least(max, avail - spos) : n >= min \/ n = avail - spos}

\* The bytes a read_min_max has stored when a later read of its loop throws.
StoredAtThrow(min) == 
  IF StreamThrows /\ min > 0 THEN 0..Least(min - 1, avail - spos) ELSE {}

-----------------------------------------------------------------------------
(* InputBuffer::do_fill_and_read.  An outcome says what the members become, *)
(* what was copied to the caller (got), and how the call ends (exc).        *)

Outcome(s, m, p, a, g, e) ==
  [spos |-> s, mem |-> m, pos |-> p, alloc |-> a, got |-> g, exc |-> e]

\* m_is == NULL: regarded as eof, before anything is touched.
FillDetached == {Outcome(spos, mem, pos, alloc, <<>>, "eof")}

\* m_capacity == 0 and no memory yet: straight into the caller's buffer.
FillUnbuffered(len) ==
  {Outcome(spos + n, mem, pos, alloc, Fresh(n), IF n = 0 THEN "eof" ELSE "none") :
      n \in ReadMinMax(len, len)}
  \cup
  {Outcome(spos + n, mem, pos, alloc, Fresh(n), "io") : n \in StoredAtThrow(len)}

\* Mutant: the window is copied but m_pos and m_end are left where they are.
FillDirectKeepsWindow(n2) ==
  {Outcome(spos + n, mem, pos, TRUE, Window \o Fresh(n),
           IF n = 0 THEN "eof" ELSE "none") : n \in ReadMinMax(n2, n2)}

\* n2 >= m_capacity: the rest goes straight into the caller's buffer, after
\* the window was copied there and given up.
FillDirect(n2) ==
  {Outcome(spos + n, <<>>, 0, TRUE, Window \o Fresh(n),
           IF n = 0 THEN "eof" ELSE "none") : n \in ReadMinMax(n2, n2)}
  \cup
  {Outcome(spos + n, <<>>, 0, TRUE, Window \o Fresh(n), "io") :
      n \in StoredAtThrow(n2)}

\* Mutant: m_pos = m_beg + n2 also when fewer than n2 bytes were read.
FillBufferedOvershoot(n2) ==
  {IF n = 0
   THEN Outcome(spos, mem, pos, TRUE, <<>>, "eof")
   ELSE Outcome(spos + n, Fresh(n), n2, TRUE,
                Window \o Fresh(Least(n, n2)), "none") :
      n \in ReadMinMax(n2, cap)}

\* Mutant: the refill forgets the capacity and takes all the stream holds.
FillBufferedGreedy(n2) ==
  {IF n = 0
   THEN Outcome(spos, mem, pos, TRUE, <<>>, "eof")
   ELSE Outcome(spos + n, Fresh(n), Least(n, n2), TRUE,
                Window \o Fresh(Least(n, n2)), "none") :
      n \in ReadMinMax(n2, cap + 1)}

\* Otherwise the buffer is refilled from m_beg.  A throw in the middle of
\* read_min_max has overwritten a prefix of the memory, m_pos and m_end stand.
FillBuffered(n2) ==
  {IF n = 0
   THEN Outcome(spos, mem, pos, TRUE, <<>>, "eof")
   ELSE Outcome(spos + n, Fresh(n), Least(n, n2), TRUE,
                Window \o Fresh(Least(n, n2)), "none") :
      n \in ReadMinMax(n2, cap)}
  \cup
  {Outcome(spos + n, [i \in 1..Len(mem) |-> IF i <= n THEN spos + i ELSE mem[i]],
           pos, TRUE, <<>>, "io") : n \in StoredAtThrow(n2)}

Fill(len) ==
  LET n2 == len - (Len(mem) - pos)
  IN  IF ~attached THEN FillDetached
      ELSE IF ~alloc /\ cap = 0 THEN FillUnbuffered(len)
      ELSE IF n2 >= cap THEN FillDirect(n2)
      ELSE FillBuffered(n2)

\* The inline paths of read/ensureRead/readByte/getByte in front of it.
Get(len) ==
  IF pos + len <= Len(mem)
  THEN {Outcome(spos, mem, pos + len, alloc, SubSeq(mem, pos + 1, pos + len), "none")}
  ELSE Fill(len)

Become(o) ==
  /\ spos' = o.spos
  /\ mem' = o.mem
  /\ pos' = o.pos
  /\ alloc' = o.alloc
  /\ UNCHANGED <<attached, cap>>

\* A call ends.  from: bytes consumed before it; n: bytes it returned (the
\* answer 0 or 1 of eof); left: bytes that could still be asked of the stream.
Outcall(op, len, from, n, e) ==
  [op |-> op, len |-> len, from |-> from, n |-> n, exc |-> e,
   left |-> IF attached THEN avail - spos' ELSE 0]
Finished(op, len, n, e) ==
  /\ pc' = "idle"
  /\ call' = Outcall(op, len, Len(consumed), n, e)

\* Bytes taken off the stream: returned to the caller unless the call threw.
Take(got, e) ==
  /\ consumed' = consumed \o got
  /\ dropped' = IF e = "none" THEN dropped ELSE dropped \cup BytesOf(got)

-----------------------------------------------------------------------------
Init ==
  /\ src \in Sources
  /\ avail \in IF Growing THEN 0..Len(src) ELSE {Len(src)}
  /\ spos = 0
  /\ attached = TRUE
  /\ alloc = FALSE
  /\ cap \in Capacities
  /\ mem = <<>>
  /\ pos = 0
  /\ pc = "idle"
  /\ line = <<>>
  /\ todo = 0
  /\ consumed = <<>>
  /\ dropped = {}
  /\ call = [op |-> "none", len |-> 0, from |-> 0, n |-> 0, exc |-> "none",
             left |-> avail]

\* Another process appends to the stream, whatever this object is doing.
Grow ==
  /\ Growing
  /\ avail < Len(src)
  /\ avail' = avail + 1
  /\ UNCHANGED <<src, bufVars, pc, line, todo, consumed, dropped, call>>

\* InputBuffer::read.
Read(len) ==
  /\ pc = "idle" /\ "read" \in Calls
  /\ \E o \in Get(len) :
        /\ Become(o)
        /\ Take(o.got, o.exc)
        /\ Finished("read", len, IF o.exc = "none" THEN Len(o.got) ELSE 0, o.exc)
  /\ UNCHANGED <<streamVars, line, todo>>

\* InputBuffer::ensureRead: a short result is an EndOfFileException too.
EnsureRead(len) ==
  /\ pc = "idle" /\ "ensureRead" \in Calls
  /\ \E o \in Get(len) :
        LET e == IF o.exc = "none" /\ Len(o.got) # len THEN "eof" ELSE o.exc
        IN  /\ Become(o)
            /\ Take(o.got, e)
            /\ Finished("ensureRead", len, IF e = "none" THEN len ELSE 0, e)
  /\ UNCHANGED <<streamVars, line, todo>>

\* InputBuffer::readByte and getByte: do_fill_and_read never returns 0, so
\* the branches after it (throw, return -1) are dead.
OneByte(op) ==
  /\ pc = "idle" /\ op \in Calls
  /\ \E o \in Get(1) :
        /\ Become(o)
        /\ Take(o.got, o.exc)
        /\ Finished(op, 1, IF o.exc = "none" THEN 1 ELSE 0, o.exc)
  /\ UNCHANGED <<streamVars, line, todo>>

\* The pushed-back byte has to be in memory: with less than two bytes of buffer
\* test_eof loses it, and a client does not ask there.
MayPeek == cap >= 2

\* Mutant: eof() without test_eof, an empty buffer is taken for the end.
EofUntested ==
  /\ pc = "idle" /\ "eof" \in Calls
  /\ UNCHANGED <<streamVars, bufVars, consumed, dropped, line, todo>>
  /\ Finished("eof", 0, IF pos = Len(mem) THEN 1 ELSE 0, "none")

\* InputBuffer::eof: m_pos == m_end && test_eof().  test_eof reads a byte and
\* pushes it back by m_pos = m_beg, which needs it to be in the buffer.
Eof ==
  /\ pc = "idle" /\ "eof" \in Calls
  /\ \/ /\ pos < Len(mem)
        /\ UNCHANGED <<bufVars, consumed, dropped>>
        /\ Finished("eof", 0, 0, "none")
     \/ /\ pos = Len(mem) /\ MayPeek
        /\ \E o \in Fill(1) :
              /\ Become([o EXCEPT !.pos = IF o.exc = "none" THEN 0 ELSE o.pos])
              /\ Take(IF o.mem = <<>> THEN o.got ELSE <<>>, "peeked")
              /\ Finished("eof", 0, IF o.exc = "eof" THEN 1 ELSE 0,
                          IF o.exc = "io" THEN "io" ELSE "none")
  /\ UNCHANGED <<streamVars, line, todo>>

-----------------------------------------------------------------------------
(* InputBuffer::getline.  One step per turn of its outer loop.              *)

GetlineCall(maxlen) ==
  /\ pc = "idle" /\ "getline" \in Calls
  /\ pc' = "getline"
  /\ line' = <<>>
  /\ todo' = maxlen
  /\ call' = [op |-> "getline", len |-> maxlen, from |-> Len(consumed), n |-> 0,
              exc |-> "none", left |-> avail - spos]
  /\ UNCHANGED <<streamVars, bufVars, consumed, dropped>>

GetlineDone(l, e) ==
  /\ pc' = "idle"
  /\ call' = Outcall("getline", call.len, call.from, Len(l), e)

\* The first n bytes of the window hold no terminator, and the line has room.
Terminator(b) == src[b] \in {"cr", "lf"}
Plain(n) == /\ Len(line) + n <= todo
            /\ \A i \in 1..n : ~Terminator(Window[i])

\* The scan stops at maxlen, then at m_end, then at a terminator: in that order.
GetlineMaxlen ==
  /\ pc = "getline"
  /\ UNCHANGED <<streamVars, spos, attached, alloc, cap, mem, todo, dropped>>
  /\ \E n \in 0..Len(Window) :
        /\ Plain(n) /\ Len(line) + n = todo
        /\ line' = line \o SubSeq(Window, 1, n)
        /\ consumed' = consumed \o SubSeq(Window, 1, n)
        /\ pos' = pos + n
        /\ GetlineDone(line', "none")

\* '\n' ends the line; after '\r' the next byte has to be looked at.
GetlineTerminator ==
  /\ pc = "getline"
  /\ UNCHANGED <<streamVars, spos, attached, alloc, cap, mem, todo, dropped>>
  /\ \E n \in 0..(Len(Window) - 1) :
        /\ Plain(n) /\ Len(line) + n < todo
        /\ Terminator(Window[n + 1])
        /\ line' = line \o SubSeq(Window, 1, n)
        /\ consumed' = consumed \o SubSeq(Window, 1, n + 1)
        /\ pos' = pos + n + 1
        /\ IF src[Window[n + 1]] = "lf" THEN GetlineDone(line', "none")
                                        ELSE pc' = "getline_cr" /\ UNCHANGED call

\* Mutant: after '\r' the line is over, a '\n' behind it is not looked for.
GetlineCrAlone ==
  /\ pc = "getline_cr"
  /\ UNCHANGED <<streamVars, bufVars, line, todo, consumed, dropped>>
  /\ GetlineDone(line, "none")

\* Mutant: the byte after '\r' is not pushed back.
GetlineCrSwallows ==
  /\ pc = "getline_cr"
  /\ \E o \in Get(1) :
        /\ Become(o)
        /\ consumed' = IF o.exc = "none" /\ src[o.got[1]] = "lf"
                       THEN consumed \o o.got ELSE consumed
        /\ UNCHANGED dropped
        /\ GetlineDone(line, o.exc)
  /\ UNCHANGED <<streamVars, line, todo>>

\* getByte() for the byte after '\r': '\n' is eaten, another is pushed back.
GetlineCr ==
  /\ pc = "getline_cr"
  /\ \E o \in Get(1) :
        LET lf == o.exc = "none" /\ src[o.got[1]] = "lf"
        IN  /\ Become([o EXCEPT !.pos = IF o.exc = "none" /\ ~lf THEN @ - 1 ELSE @])
            /\ consumed' = IF lf THEN consumed \o o.got ELSE consumed
            /\ dropped' = IF o.exc = "none" THEN dropped ELSE dropped \cup BytesOf(line)
            /\ GetlineDone(line, o.exc)
  /\ UNCHANGED <<streamVars, line, todo>>

\* m_end: the window goes to the line, then the buffer is refilled.
AtEnd == Plain(Len(Window)) /\ Len(line) + Len(Window) < todo

GetlineUnbuffered ==
  /\ pc = "getline" /\ AtEnd /\ ~alloc /\ cap = 0
  /\ UNCHANGED <<streamVars, bufVars, line, todo, consumed, dropped>>
  /\ GetlineDone(line, "io")

GetlineInitbuf ==
  /\ pc = "getline" /\ AtEnd /\ ~alloc /\ cap > 0
  /\ alloc' = TRUE
  /\ UNCHANGED <<streamVars, spos, attached, cap, mem, pos, pc, line, todo,
                 consumed, dropped, call>>

\* Mutant: 0 bytes read at the end of the stream are not told from a short read.
GetlineRefillForever ==
  /\ pc = "getline" /\ AtEnd /\ alloc
  /\ line' = line \o Window
  /\ consumed' = consumed \o Window
  /\ \E n \in ReadMinMax(1, cap) :
        /\ spos' = spos + n
        /\ mem' = Fresh(n)
        /\ pos' = 0
  /\ UNCHANGED <<streamVars, attached, alloc, cap, todo, pc, call, dropped>>

GetlineRefill ==
  /\ pc = "getline" /\ AtEnd /\ alloc
  /\ LET l == line \o Window IN
     /\ line' = l
     /\ consumed' = consumed \o Window
     /\ \/ \E n \in IF attached THEN ReadMinMax(1, cap) \ {0} ELSE {} :
              /\ spos' = spos + n
              /\ mem' = Fresh(n)
              /\ pos' = 0
              /\ UNCHANGED <<dropped, pc, call>>
        \/ /\ attached /\ 0 \in ReadMinMax(1, cap)
           /\ UNCHANGED <<spos, dropped>>
           /\ mem' = IF l = <<>> THEN mem ELSE <<>>
           /\ pos' = Len(mem')
           /\ GetlineDone(l, IF l = <<>> THEN "eof" ELSE "none")
        \/ /\ ~attached \/ StreamThrows
           /\ UNCHANGED <<spos, mem>>
           /\ pos' = Len(mem)
           /\ dropped' = dropped \cup BytesOf(l)
           /\ GetlineDone(l, IF attached THEN "io" ELSE "eof")
  /\ UNCHANGED <<streamVars, attached, alloc, cap, todo>>

Getline == \/ GetlineMaxlen \/ GetlineTerminator \/ GetlineCr
           \/ GetlineUnbuffered \/ GetlineInitbuf \/ GetlineRefill

-----------------------------------------------------------------------------
(* InputBuffer::to_output(output, length), output taking whatever it gets.  *)

ToOutputCall(len) ==
  /\ pc = "idle" /\ "to_output" \in Calls
  /\ pc' = "to_output"
  /\ todo' = len
  /\ call' = [op |-> "to_output", len |-> len, from |-> Len(consumed), n |-> 0,
              exc |-> "none", left |-> avail - spos]
  /\ UNCHANGED <<streamVars, bufVars, line, consumed, dropped>>

ToOutputDone(e) ==
  /\ pc' = "idle"
  /\ call' = Outcall("to_output", call.len, call.from, call.len - todo', e)

\* Mutant: the EndOfFileException of the refill is ignored.
ToOutputFillRetry ==
  /\ pc = "to_output" /\ todo > 0 /\ pos = Len(mem)
  /\ \E o \in Fill(Len(mem)) :
        /\ Become(o)
        /\ Take(o.got, "skipped")
  /\ UNCHANGED <<streamVars, line, todo, pc, call>>

\* fill_and_read(m_beg, m_end-m_beg): what it reads is read to m_beg and
\* counts as returned, but nothing hands it to the output.
ToOutputFill ==
  /\ pc = "to_output" /\ todo > 0 /\ pos = Len(mem)
  /\ \E o \in Fill(Len(mem)) :
        /\ Become(o)
        /\ Take(o.got, "skipped")
        /\ todo' = todo
        /\ IF o.exc = "none" THEN UNCHANGED <<pc, call>> ELSE ToOutputDone(o.exc)
  /\ UNCHANGED <<streamVars, line>>

ToOutputWrite ==
  /\ pc = "to_output" /\ todo > 0 /\ pos < Len(mem)
  /\ LET n == Least(Len(mem) - pos, todo)
     IN  /\ pos' = pos + n
         /\ todo' = todo - n
         /\ Take(SubSeq(Window, 1, n), "none")
  /\ UNCHANGED <<streamVars, spos, attached, alloc, cap, mem, pc, line, call>>

ToOutputReturn ==
  /\ pc = "to_output" /\ todo = 0
  /\ UNCHANGED <<streamVars, bufVars, line, todo, consumed, dropped>>
  /\ ToOutputDone("none")

ToOutput == ToOutputFill \/ ToOutputWrite \/ ToOutputReturn

-----------------------------------------------------------------------------
(* IOBufferBase::initbuf, set_bufsize, resetbuf, and attach.  A client that *)
(* does not "shrink" gives set_bufsize at least the bytes in the buffer.    *)

Initbuf(c) ==
  /\ pc = "idle" /\ "initbuf" \in Calls
  /\ ~alloc /\ c > 0
  /\ alloc' = TRUE
  /\ cap' = c
  /\ UNCHANGED <<streamVars, spos, attached, mem, pos, pc, line, todo,
                 consumed, dropped, call>>

SetBufsize(c) ==
  /\ pc = "idle" /\ "set_bufsize" \in Calls
  /\ alloc => c > 0 /\ (c >= Len(mem) \/ "shrink" \in Calls)
  /\ cap' = c
  /\ UNCHANGED <<streamVars, spos, attached, alloc, mem, pos, pc, line, todo,
                 consumed, dropped, call>>

\* The caller gives the prefetched bytes up.
Resetbuf ==
  /\ pc = "idle" /\ "resetbuf" \in Calls
  /\ UNCHANGED <<streamVars, spos, attached, alloc, cap, line, todo>>
  /\ mem' = <<>>
  /\ pos' = 0
  /\ Take(Window, "reset")
  /\ Finished("resetbuf", 0, 0, "none")

\* Mutant: attach throws the prefetched bytes away.
AttachResets ==
  /\ pc = "idle" /\ "attach" \in Calls
  /\ attached' = ~attached
  /\ mem' = <<>>
  /\ pos' = 0
  /\ Take(Window, "reset")
  /\ UNCHANGED <<streamVars, spos, alloc, cap, pc, line, todo, call>>

\* attach(NULL) and attach(stream): the buffer stays as it is.
Attach ==
  /\ pc = "idle" /\ "attach" \in Calls
  /\ attached' = ~attached
  /\ UNCHANGED <<streamVars, spos, alloc, cap, mem, pos, pc, line, todo,
                 consumed, dropped, call>>

Next ==
  \/ Grow
  \/ \E len \in Lengths : Read(len) \/ EnsureRead(len)
  \/ OneByte("readByte") \/ OneByte("getByte")
  \/ Eof
  \/ \E maxlen \in Lengths : GetlineCall(maxlen)
  \/ Getline
  \/ \E len \in Lengths : ToOutputCall(len)
  \/ ToOutput
  \/ \E c \in Capacities : Initbuf(c) \/ SetBufsize(c)
  \/ Resetbuf
  \/ Attach

Spec == Init /\ [][Next]_vars

\* A call that was made is executed: the loops are the thread's own steps.
FairSpec == Spec /\ WF_vars(Getline) /\ WF_vars(ToOutput)

-----------------------------------------------------------------------------
(* Properties.                                                              *)

TypeOK ==
  /\ src \in Seq(Classes)
  /\ avail \in 0..Len(src)
  /\ spos \in 0..avail
  /\ attached \in BOOLEAN
  /\ alloc \in BOOLEAN
  /\ cap \in Nat
  /\ mem \in Seq(Nat)
  /\ pos \in 0..Len(mem)
  /\ pc \in {"idle", "getline", "getline_cr", "to_output"}
  /\ line \in Seq(Nat)
  /\ todo \in Nat
  /\ consumed \in Seq(Nat)
  /\ dropped \in SUBSET Nat
  /\ call \in [op : AllCalls \cup {"none"}, len : Nat, from : Nat, n : Nat,
               exc : {"none", "eof", "io"}, left : Nat]

\* m_beg <= m_pos <= m_end <= m_beg + m_capacity (StreamBuffer.hpp:113-116).
PointerOrder == 0 <= pos /\ pos <= Len(mem) /\ Len(mem) <= cap

\* The stream through the buffer: whatever sequence of calls, short reads and
\* refills happened, the bytes taken by calls followed by the prefetched ones
\* are the bytes the stream has returned, each once and in order.
Contiguous == consumed \o Window = Span(0, spos)

\* Bytes are lost to the caller only by a call that throws, and by one that
\* throws EndOfFileException only when nothing is left to be read: never
\* because of how the calls fell on the buffer boundary.  Not so to_output: the
\* window it wrote is refilled by a call that hands over what it reads to m_beg
\* and skips it (StreamBuffer.hpp:183).
DroppedByThrow ==
  [][(dropped' # dropped /\ pc # "to_output") =>
       /\ call'.exc # "none" \/ call'.op = "resetbuf"
       /\ call'.exc = "eof" => call'.left = 0]_vars

\* Short results mean the end of the stream, not a short read of the stream
\* behind: read returns fewer bytes than asked, but not nothing, only there;
\* eof() is TRUE only there, and after FALSE the next byte is in the buffer and
\* can be read without asking the stream.
EndIsTrue ==
  (pc = "idle" /\ call.exc = "none") =>
    /\ call.op = "read" /\ call.n # call.len => call.n \in 1..(call.len - 1) /\ call.left = 0
    /\ call.op = "eof" => IF call.n = 1 THEN call.left = 0 ELSE Window # <<>>

\* What a getline that returned took off the stream: the line, free of
\* terminators and at most maxlen long, then the whole of one CR, LF or CR LF
\* unless maxlen was reached or nothing was left.
GetlineExact ==
  (pc = "idle" /\ call.op = "getline" /\ call.exc = "none") =>
    LET last     == call.from + Len(line)
        Is(i, c) == i \in 1..Len(src) /\ src[i] = c
        eol      == IF Is(last + 1, "cr") /\ Is(last + 2, "lf") THEN 2
                    ELSE IF Is(last + 1, "cr") \/ Is(last + 1, "lf") THEN 1
                    ELSE 0
        eaten    == Len(consumed) - last
    IN  /\ line = Span(call.from, Len(line))
        /\ \A i \in BytesOf(line) : ~Terminator(i)
        /\ \/ eaten = 0 /\ Len(line) = call.len
           \/ eaten = eol /\ eol > 0 /\ Len(line) < call.len
           \/ eaten = 0 /\ Len(line) < call.len /\ call.left = 0 /\ Window = <<>>

\* A getline or a to_output that was called ends: it returns, or it throws.
LoopsEnd ==
  /\ (pc = "getline") ~> (pc = "idle")
  /\ (pc = "to_output") ~> (pc = "idle")
===============================================================================
