------------------------------- MODULE ZeroCopy -------------------------------
(***************************************************************************)
(* nark::ZcReader and nark::ZcWriter (ZeroCopy.hpp/.cpp): they copy from   *)
(* and to windows of memory that a stream lends, one window at a time.     *)
(* When the next one is lent the last is gone.                             *)
(*                                                                         *)
(* The stream is external: an IZeroCopyInputStream or IZeroCopyOutputStream *)
(* that lends windows of any size, may throw, may have more to read after  *)
(* it had nothing, and may have no room for a writer and later have some.  *)
(* A byte is its offset 1, 2, ... in the stream, or the number of the byte *)
(* written; src[i] is its class, for getline.                              *)
(***************************************************************************)
EXTENDS FileBytes

CONSTANTS
  Kinds,      \* \subseteq {"reader", "writer"}
  Sources,    \* what is read: sequences of byte classes
  MaxLend,    \* the largest window that is lent
  Lengths,    \* lengths read and written, and maxlen of getline
  MaxGiven,   \* bound on the bytes given to write
  MaxThrows,  \* how often the stream throws, or has no room
  Careful     \* does the client keep to MayWrite?

ASSUME InputsAssumption ==
  /\ Kinds \subseteq {"reader", "writer"} /\ Kinds # {}
  /\ Sources \subseteq Seq({"cr", "lf", "other"}) /\ Sources # {}
  /\ MaxLend \in Nat \ {0} /\ Lengths \subseteq Nat \ {0}
  /\ MaxGiven \in Nat /\ MaxThrows \in Nat /\ Careful \in BOOLEAN

VARIABLES
  kind,      \* the class of the object
  beg, pos, end,  \* m_beg, m_pos, m_end, as offsets in the stream
  fresh,     \* do they point into the window that is lent?
  src,       \* reader: the classes of the bytes
  avail,     \* reader: how many of them there are so far
  lent,      \* how many bytes were lent: where the next window will start
  tape,      \* writer: the memory of the stream
  final,     \* writer: how much of the tape the stream takes for written
  throws,    \* how often the stream has thrown, or had no room
  pc,        \* "idle", or the loop that runs: "fill", "getline", "getline_cr"
  job,       \* the call under way: op, len, n bytes done, first pass or not
  line,      \* the line getline has assembled
  given,     \* how many bytes were given to write
  done,      \* history: reader: bytes taken; writer: bytes m_pos has passed
  closed,    \* the writer is destroyed
  call       \* the last call: op, len, from (the bytes done before it), exc

pointers == <<beg, pos, end, fresh>>
stream   == <<src, avail, lent, tape, final, throws>>
client   == <<kind, given, closed>>
vars == <<kind, pointers, stream, pc, job, line, given, done, closed, call>>

-----------------------------------------------------------------------------
Least(a, b) == IF a <= b THEN a ELSE b
Span(a, n) == [i \in 1..n |-> a + i]
Room == end - pos

\* m_beg when a stream with no room was asked for a window: where no window starts.
Nowhere == -1
Window == Span(pos, Room)
NoJob == [op |-> "none", len |-> 0, n |-> 0, first |-> TRUE]

\* ZeroCopyBase::init: NULL pointers, an empty window at the start.
Init ==
  /\ kind \in Kinds /\ src \in Sources
  /\ beg = 0 /\ pos = 0 /\ end = 0 /\ fresh = TRUE
  /\ avail \in Nat \cap {Len(src), Len(src) - 1}
  /\ lent = 0 /\ tape = <<>> /\ final = 0 /\ throws = 0
  /\ pc = "idle" /\ job = NoJob /\ line = <<>>
  /\ given = 0 /\ done = <<>> /\ closed = FALSE
  /\ call = [op |-> "none", len |-> 0, from |-> 0, exc |-> "none"]

Called(op, len, e) == call' = [op |-> op, len |-> len, from |-> Len(done), exc |-> e]
Finish(e) ==
  /\ pc' = "idle" /\ job' = NoJob
  /\ call' = [op |-> job.op, len |-> job.len, from |-> call.from, exc |-> e]

Can(k) == kind = k /\ pc = "idle" /\ ~closed

\* A call that needs another window: what is in this one is copied, but m_pos
\* stays.
Start(op, len, next) ==
  /\ pc' = next
  /\ job' = [op |-> op, len |-> len, n |-> Room, first |-> TRUE]
  /\ Called(op, len, "none")
  /\ UNCHANGED <<pointers, stream, line, done>>

-----------------------------------------------------------------------------
(* Reading.                                                                 *)

\* External: another window of n bytes, or none.
Lends == {n \in 0..Least(MaxLend, avail - lent) : n = 0 <=> avail = lent}

\* External: the stream throws, and lends nothing.
Throws == throws < MaxThrows /\ throws' = throws + 1 /\ UNCHANGED <<src, avail, lent, tape, final>>

\* The new window, n bytes long, of which k are taken.
NewWindow(n, k) ==
  /\ beg' = lent /\ pos' = lent + k /\ end' = lent + n /\ fresh' = TRUE
  /\ lent' = lent + n
  /\ UNCHANGED <<src, avail, tape, final, throws>>

\* m_beg = m_pos = m_end = NULL.
NoWindow == beg' = lent /\ pos' = lent /\ end' = lent /\ fresh' = TRUE

\* read, ensureRead and readByte.
Read(op, len) ==
  /\ Can("reader")
  /\ IF len <= Room
     THEN /\ pos' = pos + len /\ done' = done \o Span(pos, len)
          /\ Called(op, len, "none")
          /\ UNCHANGED <<beg, end, fresh, stream, pc, job, line>>
     ELSE Start(op, len, "fill")
  /\ UNCHANGED client

\* Mutant: the pointers are left when the stream ends after the first bytes.
FillEndKeeps ==
  /\ kind = "reader" /\ pc = "fill" /\ 0 \in Lends
  /\ UNCHANGED <<beg, pos, end, client, stream, line>> /\ fresh' = FALSE
  /\ done' = IF job.n > 0 /\ job.first THEN done \o Window ELSE done
  /\ Finish(IF job.op = "read" /\ job.n > 0 THEN "short" ELSE "eof")

\* do_fill_and_read when nothing is lent.  With nothing read at all it throws and
\* leaves m_pos and m_end; else read returns what there was and ensureRead throws.
FillEnd ==
  /\ kind = "reader" /\ pc = "fill" /\ 0 \in Lends
  /\ UNCHANGED <<client, stream, line>>
  /\ IF job.n = 0 THEN fresh' = FALSE /\ UNCHANGED <<beg, pos, end, done>>
     ELSE /\ NoWindow
          /\ done' = IF job.first THEN done \o Window ELSE done
  /\ Finish(IF job.op = "read" /\ job.n > 0 THEN "short" ELSE "eof")

\* Another pass of its loop.  eof() puts its byte back: m_pos = m_beg.
Fill ==
  /\ kind = "reader" /\ pc = "fill"
  /\ UNCHANGED <<client, line>>
  /\ \E n \in Lends \ {0} :
       LET k == Least(job.len - job.n, n)
       IN  /\ NewWindow(n, IF job.op = "eof" THEN 0 ELSE k)
           /\ done' = IF job.op = "eof" THEN done
                      ELSE (IF job.first THEN done \o Window ELSE done) \o Span(lent, k)
           /\ IF job.n + k = job.len THEN Finish("none")
              ELSE job' = [job EXCEPT !.n = @ + k, !.first = FALSE] /\ UNCHANGED <<pc, call>>

\* zcRead throws: only the windows that were left behind are taken.
FillThrows ==
  /\ kind = "reader" /\ pc = "fill" /\ Throws
  /\ UNCHANGED <<pointers, client, line, done>>
  /\ Finish("io")

\* eof() and test_eof(), where the EndOfFileException of an empty read is caught.
Eof ==
  /\ Can("reader")
  /\ IF Room > 0 THEN Called("eof", 1, "none") /\ UNCHANGED <<pointers, stream, pc, job, line, done>>
     ELSE Start("eof", 1, "fill")
  /\ UNCHANGED client

\* External: the stream gets its last byte.
Grow ==
  /\ kind = "reader" /\ avail < Len(src) /\ avail' = avail + 1
  /\ UNCHANGED <<kind, pointers, src, lent, tape, final, throws, pc, job, line, given, done, closed, call>>

-----------------------------------------------------------------------------
(* getline: a pass of its loop looks through the window.                    *)

Getline(maxlen) ==
  /\ Can("reader")
  /\ pc' = "getline" /\ line' = <<>>
  /\ job' = [NoJob EXCEPT !.op = "getline", !.len = maxlen]
  /\ Called("getline", maxlen, "none")
  /\ UNCHANGED <<pointers, stream, done, client>>

Terminator(b) == src[b] \in {"cr", "lf"}
Plain(n) == Len(line) + n <= job.len /\ \A i \in 1..n : ~Terminator(pos + i)

\* n bytes of the window go to the line and k are passed.
Scanned(n, k) ==
  /\ line' = line \o Span(pos, n)
  /\ done' = done \o Span(pos, k)
  /\ pos' = pos + k
  /\ UNCHANGED <<beg, end, fresh, stream>>

GetlineFull ==
  /\ pc = "getline"
  /\ \E n \in 0..Room : Plain(n) /\ Len(line) + n = job.len /\ Scanned(n, n)
  /\ Finish("none") /\ UNCHANGED client

GetlineTerminator ==
  /\ pc = "getline"
  /\ \E n \in 0..(Room - 1) :
       /\ Plain(n) /\ Len(line) + n < job.len /\ Terminator(pos + n + 1)
       /\ Scanned(n, n + 1)
       /\ IF src[pos + n + 1] = "lf" THEN Finish("none")
          ELSE pc' = "getline_cr" /\ UNCHANGED <<job, call>>
  /\ UNCHANGED client

\* The window holds no end of the line: the next one is looked at from its start.
GetlineRefill ==
  /\ pc = "getline" /\ Plain(Room) /\ Len(line) + Room < job.len
  /\ LET all == line \o Window
     IN  /\ line' = all /\ done' = done \o Window
         /\ \E n \in Lends :
              IF n > 0 THEN NewWindow(n, 0) /\ UNCHANGED <<pc, job, call>>
              ELSE NoWindow /\ Finish(IF all = <<>> THEN "eof" ELSE "none") /\ UNCHANGED stream
  /\ UNCHANGED client

\* zcRead throws while the line is being read.  The window went to the line but
\* m_pos has not moved: the bytes will be read again.
GetlineThrows ==
  /\ pc = "getline" /\ Plain(Room) /\ Len(line) + Room < job.len
  /\ Throws
  /\ line' = line \o Window
  /\ Finish("io") /\ UNCHANGED <<pointers, done, client>>

\* Mutant: a byte behind '\r' that is not '\n' is not put back.
GetlineCrSwallows ==
  /\ pc = "getline_cr" /\ Room > 0
  /\ pos' = pos + 1 /\ done' = IF src[pos + 1] = "lf" THEN done \o Span(pos, 1) ELSE done
  /\ Finish("none") /\ UNCHANGED <<beg, end, fresh, stream, line, client>>

\* Behind '\r', readByte: '\n' is taken, another byte is put back.
GetlineCr ==
  /\ pc = "getline_cr" /\ Room > 0
  /\ LET k == IF src[pos + 1] = "lf" THEN 1 ELSE 0
     IN  pos' = pos + k /\ done' = done \o Span(pos, k)
  /\ Finish("none") /\ UNCHANGED <<beg, end, fresh, stream, line, client>>

\* The same at the end of a window.  The end of the stream is ignored.
GetlineCrRefill ==
  /\ pc = "getline_cr" /\ Room = 0
  /\ \E n \in Lends :
       LET k == IF n > 0 /\ src[lent + 1] = "lf" THEN 1 ELSE 0
       IN  IF n > 0 THEN NewWindow(n, k) /\ done' = done \o Span(lent, k)
           ELSE fresh' = FALSE /\ UNCHANGED <<beg, pos, end, done, stream>>
  /\ Finish("none") /\ UNCHANGED <<line, client>>

GetlineCrThrows ==
  /\ pc = "getline_cr" /\ Room = 0 /\ Throws
  /\ Finish("io") /\ UNCHANGED <<pointers, line, done, client>>

-----------------------------------------------------------------------------
(* Writing.  "zcFlush tells the Stream how many bytes has actual written,   *)
(* next zcWrite will get the unwritten buffer" (ZeroCopy.hpp:55): until it  *)
(* is told otherwise the stream takes a whole window for written.           *)

\* A careful client does not write beyond a window that it flushed before it was
\* full: what goes into the rest of that window is lent again.
MayWrite(len) == lent = end \/ len <= Room

Bytes(from, n) == Span(given - job.len + from, n)

\* write, ensureWrite and writeByte.
Write(len) ==
  /\ Can("writer") /\ given + len <= MaxGiven
  /\ Careful => MayWrite(len)
  /\ given' = given + len
  /\ LET n == Least(len, Room)
     IN  tape' = Store(tape, pos, Span(given, n))
  /\ Called("write", len, "none")
  /\ IF len <= Room
     THEN /\ pos' = pos + len /\ done' = done \o Span(given, len)
          /\ UNCHANGED <<pc, job>>
     ELSE /\ pc' = "fill"
          /\ job' = [op |-> "write", len |-> len, n |-> Room, first |-> TRUE]
          /\ UNCHANGED <<pos, done>>
  /\ UNCHANGED <<kind, beg, end, fresh, src, avail, lent, final, throws, line, closed>>

\* Mutant: each new window is filled from the start of the data.
WriteFillAgain ==
  /\ kind = "writer" /\ pc = "fill"
  /\ \E n \in 1..MaxLend :
       LET k == Least(job.len - job.n, n)
       IN  /\ tape' = Store(tape, lent, Bytes(0, k))
           /\ beg' = lent /\ pos' = lent + k /\ end' = lent + n /\ fresh' = TRUE
           /\ final' = lent /\ lent' = lent + n
           /\ done' = (IF job.first THEN done \o Bytes(0, job.n) ELSE done) \o Bytes(job.n, k)
           /\ IF job.n + k = job.len THEN Finish("none")
              ELSE job' = [job EXCEPT !.n = @ + k, !.first = FALSE] /\ UNCHANGED <<pc, call>>
  /\ UNCHANGED <<client, src, avail, throws, line>>

\* A pass of the loop of do_flush_and_write.  External: zcWrite lends a window.
WriteFill ==
  /\ kind = "writer" /\ pc = "fill"
  /\ \E n \in 1..MaxLend :
       LET k == Least(job.len - job.n, n)
       IN  /\ tape' = Store(tape, lent, Bytes(job.n, k))
           /\ beg' = lent /\ pos' = lent + k /\ end' = lent + n /\ fresh' = TRUE
           /\ final' = lent /\ lent' = lent + n
           /\ done' = (IF job.first THEN done \o Bytes(0, job.n) ELSE done) \o Bytes(job.n, k)
           /\ IF job.n + k = job.len THEN Finish("none")
              ELSE job' = [job EXCEPT !.n = @ + k, !.first = FALSE] /\ UNCHANGED <<pc, call>>
  /\ UNCHANGED <<client, src, avail, throws, line>>

\* zcWrite lends nothing: the first part is in the rest of the last window, where
\* m_pos and m_end still point, and m_beg is what came back (DelayWriteException).
\* External: such a stream takes nothing back, and may have room the next time.
WriteNothing ==
  /\ kind = "writer" /\ pc = "fill" /\ Throws
  /\ beg' = Nowhere
  /\ Finish("delay") /\ UNCHANGED <<pos, end, fresh, line, done, client>>

WriteThrows ==
  /\ kind = "writer" /\ pc = "fill" /\ Throws
  /\ Finish("io") /\ UNCHANGED <<pointers, line, done, client>>

\* Mutant: the count passed to zcFlush is that of the bytes not written.
FlushRest == IF beg = Nowhere THEN UNCHANGED <<final, lent>>
             ELSE final' = beg + Room /\ lent' = beg + Room

\* flush(): zcFlush(m_pos - m_beg).  External: where m_beg starts no window this is no
\* count of its bytes, and the stream keeps what it had.
Flushed == IF beg = Nowhere THEN UNCHANGED <<final, lent>>
           ELSE final' = pos /\ lent' = pos

Flush ==
  /\ Can("writer")
  /\ Flushed
  /\ Called("flush", 0, "none")
  /\ UNCHANGED <<client, pointers, src, avail, tape, throws, pc, job, line, done>>

\* The destructor.
Close ==
  /\ Can("writer")
  /\ Flushed /\ closed' = TRUE
  /\ Called("close", 0, "none")
  /\ UNCHANGED <<kind, given, pointers, src, avail, tape, throws, pc, job, line, done>>

-----------------------------------------------------------------------------
Next ==
  \/ \E len \in Lengths :
       \/ Read("read", len) \/ Read("ensureRead", len) \/ Getline(len)
       \/ Write(len)
  \/ Fill \/ FillEnd \/ FillThrows \/ Eof \/ Grow
  \/ GetlineFull \/ GetlineTerminator \/ GetlineRefill \/ GetlineThrows
  \/ GetlineCr \/ GetlineCrRefill \/ GetlineCrThrows
  \/ WriteFill \/ WriteNothing \/ WriteThrows \/ Flush \/ Close

Spec == Init /\ [][Next]_vars

-----------------------------------------------------------------------------
(* Properties.                                                              *)

\* Nothing is taken from, or put into, a window that is no longer lent: whenever
\* there is room between m_pos and m_end they point into the window lent last.
NeverStale == Room >= 0 /\ (Room > 0 => fresh /\ (kind = "reader" => end = lent))

\* Through windows of any sizes, short reads and a stream that throws, the bytes
\* come out as they went in: a reader's calls take what was lent, and a stream has
\* what a writer's calls wrote, in order, each once.
Pipe == INSTANCE BytePipe
          WITH entered <- IF kind = "reader" THEN Span(0, lent) ELSE done,
               left    <- IF kind = "reader" THEN done ELSE SubSeq(tape, 1, final)
IsPipe == Pipe!Spec

\* When the writer is destroyed the stream has every byte that was written, also
\* when it had no room for some of them and they were written again; but if it had
\* none when it was last asked, it lacks no more than the window it lent last.
Delivered ==
  closed => IF beg # Nowhere THEN SubSeq(tape, 1, final) = done
            ELSE Len(done) <= final + MaxLend

\* A getline that returned took the line, free of terminators and at most maxlen
\* long, and the whole of one terminator, unless maxlen was reached or the stream
\* had no more.
LineExact ==
  (call.op = "getline" /\ call.exc = "none" /\ pc = "idle") =>
    LET last     == call.from + Len(line)
        Is(i, c) == i \in 1..Len(src) /\ src[i] = c
        eaten    == Len(done) - last
    IN  /\ line = Span(call.from, Len(line))
        /\ \A i \in DOMAIN line : ~Terminator(line[i])
        /\ CASE eaten = 0 -> Len(line) = call.len \/ lent = last
             [] eaten = 1 -> \/ Is(last + 1, "lf")
                             \/ Is(last + 1, "cr") /\ ~Is(last + 2, "lf")
                             \/ Is(last + 1, "cr") /\ lent = last + 1
             [] eaten = 2 -> Is(last + 1, "cr") /\ Is(last + 2, "lf")
             [] OTHER -> FALSE
===============================================================================
