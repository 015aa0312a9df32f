---------------------------- MODULE SeekableBuffer ----------------------------
(***************************************************************************)
(* nark::SeekableBufferBase (StreamBuffer.hpp/.cpp) and the three classes  *)
(* made from it: SeekableInputBuffer ("input"), SeekableOutputBuffer       *)
(* ("output") and SeekableBuffer ("both", also FileStreamBuffer), in front *)
(* of a stream with one position.                                          *)
(*                                                                         *)
(* The object and its stream are one record s, so that a method is an      *)
(* operator from records to records and a method that calls another is the *)
(* composition of the two.  An initial byte is its number in the file, a   *)
(* written byte has a number of its own.                                   *)
(*                                                                         *)
(* Much of what a client of a file may do goes wrong here.  A Careful      *)
(* client keeps to the rules in the section of that name; for it the       *)
(* object implements SeekableFile.                                         *)
(***************************************************************************)
EXTENDS FileBytes

CONSTANTS
  Kinds,        \* which of the three classes
  Capacities,   \* arguments of set_bufsize, before the first use
  FileSize,     \* bytes in the file at first
  Lengths,      \* lengths read and written
  Offsets,      \* arguments of the relative seeks
  MaxSize,      \* bound on the offsets sought
  MaxWritten,   \* bound on the bytes written
  Careful       \* does the client keep to the rules below?

ASSUME KindsAssumption == Kinds \subseteq {"input", "output", "both"} /\ Kinds # {}
ASSUME NumbersAssumption ==
  /\ Capacities \subseteq Nat /\ Capacities # {}
  /\ FileSize \in Nat /\ MaxSize \in Nat /\ MaxWritten \in Nat
  /\ Lengths \subseteq Nat \ {0}
  /\ Offsets \subseteq Int
ASSUME CarefulAssumption == Careful \in BOOLEAN

VARIABLES
  kind,     \* the class of the object
  cap,      \* m_capacity
  s,        \* the object and the stream behind it:
            \*   file, at      the stream's bytes and its position
            \*   streamPos     m_stream_pos
            \*   alloc         m_beg # NULL
            \*   mem           the bytes from m_beg on that were set since the
            \*                 buffer was empty; beyond them is Junk
            \*   pos, end      m_pos - m_beg, m_end - m_beg
            \*   dirty, prefetched
  written,  \* how many bytes the client has written
  closed,   \* the object is destroyed
  call      \* the last call and what it returned

vars == <<kind, cap, s, written, closed, call>>

-----------------------------------------------------------------------------
Least(a, b) == IF a <= b THEN a ELSE b
Greatest(a, b) == IF a <= b THEN b ELSE a

Data(n) == [i \in 1..n |-> FileSize + written + i]

\* External: IInputStream::read until min bytes are there, IOutputStream::write,
\* ISeekable::seek, of a file that does not fail.
ReadMinMax(t, min, max) ==
  LET left == Greatest(Len(t.file) - t.at, 0)
  IN  {n \in 0..Least(max, left) : n >= min \/ n = left}
StreamBytes(t, n) == SubSeq(t.file, t.at + 1, t.at + n)
StreamSeek(t, p) == [t EXCEPT !.at = p, !.streamPos = p]

\* IOutputStream::write with the update_pos that follows it.
StreamWrite(t, b) ==
  [t EXCEPT !.file = Overlay(t.file, t.at, b), !.at = @ + Len(b),
            !.streamPos = @ + Len(b)]

\* [m_beg, m_pos), which a flush writes, and [m_pos, m_end), which is read.
Written(t) == [i \in 1..t.pos |-> IF i <= Len(t.mem) THEN t.mem[i] ELSE Junk]
Window(t)  == SubSeq(t.mem, t.pos + 1, t.end)

\* is_prefetched(): is m_stream_pos the file offset of m_end, or of m_beg?
IsPrefetched(t) == kind = "input" \/ (kind = "both" /\ t.prefetched)

\* The file offsets of m_beg and m_end, as seek computes them.
PosBeg(t) == IF IsPrefetched(t) THEN t.streamPos - t.end ELSE t.streamPos
PosEnd(t) == PosBeg(t) + t.end

\* OutputBufferBase::flush_buffer.
BaseFlushBuffer(t) ==
  IF ~t.alloc THEN t
  ELSE [StreamWrite(t, Written(t)) EXCEPT !.mem = <<>>, !.pos = 0, !.end = cap]

\* The virtual flush_buffer: SeekableBuffer's looks at m_dirty first.
FlushBuffer(t) ==
  CASE kind = "input" -> t
    [] kind = "output" -> BaseFlushBuffer(t)
    [] kind = "both" ->
         IF t.dirty
         THEN [BaseFlushBuffer(t) EXCEPT !.prefetched = FALSE, !.dirty = FALSE]
         ELSE t

\* The virtual invalidate_buffer.
InvalidateBuffer(t) ==
  IF kind = "both" THEN [FlushBuffer(t) EXCEPT !.mem = <<>>, !.pos = 0, !.end = 0] ELSE FlushBuffer(t)

-----------------------------------------------------------------------------
(* Reading.                                                                 *)

Got(t, g, e) == [s |-> t, got |-> g, exc |-> e]
EofIf(n) == IF n = 0 THEN "eof" ELSE "none"

\* InputBuffer::do_fill_and_read.  Without a buffer there is no update_pos.
FillUnbuffered(t, len) ==
  {Got([t EXCEPT !.at = @ + n], StreamBytes(t, n), EofIf(n)) : n \in ReadMinMax(t, len, len)}

FillDirect(t, n2) ==
  {Got([t EXCEPT !.alloc = TRUE, !.mem = <<>>, !.pos = 0, !.end = 0,
                 !.at = @ + n, !.streamPos = @ + n],
       Window(t) \o StreamBytes(t, n), EofIf(n)) : n \in ReadMinMax(t, n2, n2)}

\* Mutant: m_pos is m_beg + n2 also when fewer than n2 bytes were read.
FillBufferedOvershoot(t, n2) ==
  {IF n = 0 THEN Got([t EXCEPT !.alloc = TRUE], <<>>, "eof")
   ELSE Got([t EXCEPT !.alloc = TRUE, !.at = @ + n, !.streamPos = @ + n,
                      !.mem = StreamBytes(t, n), !.end = n, !.pos = n2],
            Window(t) \o StreamBytes(t, Least(n, n2)), "none") :
      n \in ReadMinMax(t, n2, cap)}

\* Mutant: m_stream_pos is moved by what was returned, not by what was read.
FillBufferedMiscounts(t, n2) ==
  {IF n = 0 THEN Got([t EXCEPT !.alloc = TRUE], <<>>, "eof")
   ELSE Got([t EXCEPT !.alloc = TRUE, !.at = @ + n, !.streamPos = @ + Least(n, n2),
                      !.mem = StreamBytes(t, n),
                      !.end = n, !.pos = Least(n, n2)],
            Window(t) \o StreamBytes(t, Least(n, n2)), "none") :
      n \in ReadMinMax(t, n2, cap)}

FillBuffered(t, n2) ==
  {IF n = 0 THEN Got([t EXCEPT !.alloc = TRUE], <<>>, "eof")
   ELSE Got([t EXCEPT !.alloc = TRUE, !.at = @ + n, !.streamPos = @ + n,
                      !.mem = StreamBytes(t, n),
                      !.end = n, !.pos = Least(n, n2)],
            Window(t) \o StreamBytes(t, Least(n, n2)), "none") :
      n \in ReadMinMax(t, n2, cap)}

BaseFillAndRead(t, len) ==
  LET n2 == len - (t.end - t.pos)
  IN  IF cap = 0 THEN FillUnbuffered(t, len)
      ELSE IF n2 >= cap THEN FillDirect(t, n2)
      ELSE FillBuffered(t, n2)

\* The virtual do_fill_and_read: SeekableBuffer's invalidates first, and sets
\* m_prefetched unless an exception passes.
DoFillAndRead(t, len) ==
  IF kind = "both"
  THEN {[g EXCEPT !.s.prefetched = IF g.exc = "none" THEN TRUE ELSE @] :
          g \in BaseFillAndRead(InvalidateBuffer(t), len)}
  ELSE BaseFillAndRead(t, len)

\* read, ensureRead, readByte, getByte: the inline path and the other.
Get(t, len) ==
  IF t.pos + len <= t.end /\ IsPrefetched(t)
  THEN {Got([t EXCEPT !.pos = @ + len], SubSeq(t.mem, t.pos + 1, t.pos + len), "none")}
  ELSE DoFillAndRead(t, len)

-----------------------------------------------------------------------------
(* Writing.                                                                 *)

\* OutputBufferBase::do_flush_and_write, data at least as large as the buffer.
WriteThrough(t, b) == StreamWrite(FlushBuffer(t), b)

\* Otherwise: fill up to m_end, flush, the rest to the start.
WriteBehind(t, b) ==
  LET n == t.end - t.pos
      full == FlushBuffer([t EXCEPT !.alloc = TRUE, !.pos = t.end,
                                    !.mem = Store(@, t.pos, SubSeq(b, 1, n))])
      rest == SubSeq(b, n + 1, Len(b))
  IN  [full EXCEPT !.mem = Store(@, 0, rest), !.pos = Len(rest)]

BaseFlushAndWrite(t, b) ==
  IF Len(b) >= cap THEN WriteThrough(t, b) ELSE WriteBehind(t, b)

\* The virtual do_flush_and_write.
DoFlushAndWrite(t, b) ==
  IF kind = "both"
  THEN [BaseFlushAndWrite(InvalidateBuffer(t), b) EXCEPT !.prefetched = FALSE, !.dirty = TRUE]
  ELSE BaseFlushAndWrite(t, b)

\* write, ensureWrite, writeByte: SeekableBuffer's set m_dirty first.
PutBytes(t, b) ==
  LET d == [t EXCEPT !.dirty = kind = "both"]
  IN  IF t.pos + Len(b) <= t.end
      THEN [d EXCEPT !.mem = Store(@, t.pos, b), !.pos = @ + Len(b)]
      ELSE DoFlushAndWrite(d, b)

-----------------------------------------------------------------------------
(* Seeking.                                                                 *)

\* Mutant: the stream seeks away from under the window.
LeaveWindow(t, p) == StreamSeek(InvalidateBuffer(t), p)

\* Mutant: the buffer is not invalidated before the stream seeks.
LeaveUnflushed(t, p) == [StreamSeek(t, p) EXCEPT !.mem = <<>>, !.pos = 0, !.end = 0]

\* Leave the window: the stream seeks, the buffer is empty.
Leave(t, p) == [StreamSeek(InvalidateBuffer(t), p) EXCEPT !.mem = <<>>, !.pos = 0, !.end = 0]

\* seek(pos).  In the window m_pos is computed from m_stream_pos, which is the
\* offset of m_end when the window is prefetched.
SeekTo(t, p) ==
  IF t.end # 0 /\ PosBeg(t) <= p /\ p <= PosEnd(t)
  THEN [t EXCEPT !.pos = p - t.streamPos]
  ELSE Leave(t, p)

\* seek(offset, 1), and skip.  Outside of the window the stream seeks from its
\* own position, after what invalidate_buffer has written.
SeekRelative(t, off) ==
  LET cur == PosBeg(t) + t.pos + off
      inv == InvalidateBuffer(t)
  IN  IF t.end = 0 THEN StreamSeek(t, t.at + off)
      ELSE IF PosBeg(t) <= cur /\ cur <= PosEnd(t) THEN [t EXCEPT !.pos = @ + off]
      ELSE Leave(t, inv.at + off)

\* seek(offset, 2).
SeekFromEnd(t, off) ==
  IF t.end = 0 THEN StreamSeek(t, Len(t.file) + off)
  ELSE SeekTo(t, Len(t.file) + off)

\* tell() and size().
TellOf(t) ==
  IF t.end = 0 THEN t.at
  ELSE IF IsPrefetched(t) THEN t.streamPos - (t.end - t.pos)
  ELSE t.streamPos + t.pos
SizeOf(t) ==
  IF t.end = 0 \/ IsPrefetched(t) THEN Len(t.file)
  ELSE Greatest(t.streamPos + t.pos, Len(t.file))

-----------------------------------------------------------------------------
(* What the client sees: bytes that wait in the buffer are in the file, and *)
(* its position is that of m_pos.                                           *)

Waiting(t) == IF IsPrefetched(t) THEN <<>> ELSE Written(t)
Content  == Overlay(s.file, s.streamPos, Waiting(s))
Position == IF cap = 0 THEN s.at ELSE PosBeg(s) + s.pos

(* The rules of a Careful client.                                           *)

\* Of a SeekableBuffer it reads no more than the window holds, unless that is
\* empty: do_fill_and_read forgets the bytes that are left.
MayRead(len) ==
  (kind = "both" /\ IsPrefetched(s)) => s.pos = s.end \/ s.pos + len <= s.end

\* Between reading and writing it seeks: a flush writes from m_beg on, at the
\* stream's position, whatever the window was.
MayWrite == (kind = "both" /\ IsPrefetched(s)) => s.end = 0

\* It seeks by offset out of the window only, or to where it is in a window
\* that is being written (a flush writes [m_beg, m_pos), no less, no more).
MaySeekTo(p) ==
  \/ s.end = 0
  \/ p \notin PosBeg(s)..PosEnd(s)
  \/ ~IsPrefetched(s) /\ p = Position

\* Relative to the position: in a prefetched window, or from its end.
MaySeekRelative(off) ==
  IF s.end = 0 THEN s.pos = 0
  ELSE IF IsPrefetched(s) THEN \/ s.pos = s.end
                               \/ Position + off \in PosBeg(s)..PosEnd(s)
  ELSE off = 0 \/ Position + off \notin PosBeg(s)..PosEnd(s)

\* Relative to the end: with nothing appended that is still in the buffer.
MaySeekFromEnd(off) ==
  /\ Len(Content) = Len(s.file)
  /\ IF s.end = 0 THEN s.pos = 0 ELSE MaySeekTo(Len(s.file) + off)

\* It asks for position, size and end only when m_pos is not beyond m_end,
\* where a write to an empty SeekableBuffer leaves it; eof() also needs a
\* window that was read, and room to push a byte back; size() of a window that
\* is written takes a position beyond the end for the size.
MayAsk == s.pos <= s.end
MayAskSize == MayAsk /\ Position <= Len(Content)
MayTestEof == cap >= 2 /\ MayAsk /\ (IsPrefetched(s) \/ s.pos = s.end)

-----------------------------------------------------------------------------
Called(op, len, b, at, e) ==
  call' = [op |-> op, len |-> len, bytes |-> b, at |-> at, exc |-> e]

\* Reading or writing outside of the memory is not followed further.
Usable == ~closed /\ s.pos >= 0

Init ==
  /\ kind \in Kinds
  /\ cap \in Capacities
  /\ s = [file |-> [i \in 1..FileSize |-> i], at |-> 0, streamPos |-> 0,
          alloc |-> FALSE, mem |-> <<>>, pos |-> 0, end |-> 0,
          dirty |-> FALSE, prefetched |-> FALSE]
  /\ written = 0
  /\ closed = FALSE
  /\ call = [op |-> "none", len |-> 0, bytes |-> <<>>, at |-> 0, exc |-> "none"]

Read(len) ==
  /\ Usable /\ kind # "output"
  /\ Careful => MayRead(len)
  /\ \E g \in Get(s, len) :
        /\ s' = g.s
        /\ Called("read", len, IF g.exc = "none" THEN g.got ELSE <<>>, 0, g.exc)
  /\ UNCHANGED <<kind, cap, written, closed>>

Write(len) ==
  /\ Usable /\ kind # "input"
  /\ written + len <= MaxWritten
  /\ Careful => MayWrite
  /\ s' = PutBytes(s, Data(len))
  /\ written' = written + len
  /\ Called("write", len, Data(len), 0, "none")
  /\ UNCHANGED <<kind, cap, closed>>

Seek(p) ==
  /\ Usable
  /\ Careful => MaySeekTo(p)
  /\ s' = SeekTo(s, p)
  /\ Called("seek", 0, <<>>, p, "none")
  /\ UNCHANGED <<kind, cap, written, closed>>

\* seek(offset, 1) and skip(offset).
Skip(off) ==
  /\ Usable
  /\ Position + off \in 0..MaxSize
  /\ Careful => MaySeekRelative(off)
  /\ s' = SeekRelative(s, off)
  /\ Called("seek", 0, <<>>, Position + off, "none")
  /\ UNCHANGED <<kind, cap, written, closed>>

SeekEnd(off) ==
  /\ Usable
  /\ Len(Content) + off \in 0..MaxSize
  /\ Careful => MaySeekFromEnd(off)
  /\ s' = SeekFromEnd(s, off)
  /\ Called("seek", 0, <<>>, Len(Content) + off, "none")
  /\ UNCHANGED <<kind, cap, written, closed>>

Tell ==
  /\ Usable /\ (Careful => MayAsk)
  /\ Called("tell", 0, <<>>, TellOf(s), "none")
  /\ UNCHANGED <<kind, cap, s, written, closed>>

Size ==
  /\ Usable /\ (Careful => MayAskSize)
  /\ Called("size", 0, <<>>, SizeOf(s), "none")
  /\ UNCHANGED <<kind, cap, s, written, closed>>

\* InputBuffer::eof and test_eof, which pushes its byte back to m_beg.
Eof ==
  /\ Usable /\ kind # "output"
  /\ Careful => MayTestEof
  /\ IF s.pos # s.end
     THEN UNCHANGED s /\ Called("eof", 0, <<>>, 0, "none")
     ELSE \E g \in DoFillAndRead(s, 1) :
            /\ s' = IF g.exc = "none" THEN [g.s EXCEPT !.pos = 0] ELSE g.s
            /\ Called("eof", 0, <<>>, IF g.exc = "none" THEN 0 ELSE 1, "none")
  /\ UNCHANGED <<kind, cap, written, closed>>

Flush ==
  /\ Usable /\ kind # "input"
  /\ s' = FlushBuffer(s)
  /\ Called("flush", 0, <<>>, 0, "none")
  /\ UNCHANGED <<kind, cap, written, closed>>

\* The destructors: flush_buffer, and nothing is left for the base class.
Close ==
  /\ Usable
  /\ s' = [FlushBuffer(s) EXCEPT !.mem = <<>>, !.pos = 0, !.end = 0]
  /\ closed' = TRUE
  /\ Called("close", 0, <<>>, 0, "none")
  /\ UNCHANGED <<kind, cap, written>>

Next ==
  \/ \E len \in Lengths : Read(len) \/ Write(len)
  \/ \E p \in 0..MaxSize : Seek(p)
  \/ \E off \in Offsets : Skip(off) \/ SeekEnd(off)
  \/ Tell \/ Size \/ Eof
  \/ Flush \/ Close

Spec == Init /\ [][Next]_vars

-----------------------------------------------------------------------------
(* Properties.                                                              *)

\* The members have their types and, for a careful client, m_pos is in the
\* memory: at most at m_end, or beyond it only in a SeekableBuffer that writes.
TypeOK ==
  /\ kind \in Kinds /\ cap \in Capacities
  /\ s.file \in Seq(Nat) /\ s.at \in Nat /\ s.streamPos \in Nat
  /\ s.alloc \in BOOLEAN
  /\ Len(s.mem) <= cap
  /\ s.end \in 0..cap
  /\ s.pos \in 0..(IF kind = "both" /\ ~s.prefetched THEN cap ELSE s.end)
  /\ s.dirty \in BOOLEAN /\ s.prefetched \in BOOLEAN
  /\ written \in 0..MaxWritten
  /\ closed \in BOOLEAN

\* m_stream_pos, which is kept by update_pos after every transfer, is the
\* stream's position, and a prefetched window holds the bytes of the file at the
\* offsets it stands for, whatever is read, written and sought in whatever order.
WindowIsFile ==
  /\ cap # 0 => s.streamPos = s.at
  /\ (IsPrefetched(s) /\ s.end > 0) =>
       SubSeq(s.mem, 1, s.end) = SubSeq(s.file, PosBeg(s) + 1, PosEnd(s))

\* Read, written, sought, asked and closed with care, the buffered file is a
\* file: every byte read is the one at the position, every byte written is at
\* its place, also after the object is destroyed.
File == INSTANCE SeekableFile WITH content <- Content, position <- Position
IsFile == File!Spec

-----------------------------------------------------------------------------
(* What a comment of the source says and the code does not do.              *)

\* Bytes are read in order: "used like a Stream" (StreamBuffer.hpp:18).
ReadsInOrder ==
  [][(call'.op = "read" /\ call'.exc = "none") =>
        call'.bytes = SubSeq(Content, Position + 1, Position + Len(call'.bytes))]_vars
===============================================================================
