------------------------------ MODULE FileStream ------------------------------
(***************************************************************************)
(* FileStream: a C FILE with exceptions, used by several threads, whose    *)
(* pread and pwrite take four calls of it (tell, seek, transfer, seek      *)
(* back) and are "not reentrent"; a RangeStream<FileStream>, which is the  *)
(* same object with a count of the bytes left in a range; and copyFile.    *)
(*                                                                         *)
(* read, write, seek, tell and flush are one locked call of the C library  *)
(* each, and an action each.  The inline calls (ensureRead, ensureWrite,   *)
(* readByte, getByte) take no lock: the header calls them "maybe not       *)
(* thread-safe", and a thread makes them only while no other one is inside *)
(* a call.  m_len of the range is a plain member: read subtracts from it   *)
(* behind the locked call, in a load and a store that other threads come   *)
(* between.                                                                *)
(*                                                                         *)
(* The FILE is external: bytes on disk, bytes prefetched from it, bytes    *)
(* not yet written to it, an EOF flag that stays set until a seek.         *)
(***************************************************************************)
EXTENDS FileBytes, FiniteSets

CONSTANTS
  Threads,    \* those that use the object
  Texts,      \* what the file may hold
  Sources,    \* what copyFile may be asked to copy
  Lengths,    \* the lengths of reads, writes and ranges
  Positions,  \* the offsets asked for
  Buf,        \* the size of the buffer of the FILE
  Chunk,      \* nbuf of copyFile
  Wrap,       \* m_len is a number below Wrap (2^64)
  MaxLen,     \* bound: the length of the file
  MaxWrites   \* bound: writes

\* Threads are numbers to tell their bytes apart.
ASSUME ThreadsAssumption == Threads \subseteq Nat /\ IsFiniteSet(Threads)
ASSUME FileAssumption ==
  /\ Texts \subseteq Seq(Int) /\ Texts # {}
  /\ Sources \subseteq Seq(Int)
  /\ Buf \in Nat /\ Chunk \in Nat \ {0}
ASSUME ArgumentsAssumption ==
  /\ Wrap \in Nat \ {0} /\ Lengths \subseteq 0..(Wrap - 1)
  /\ Positions \subseteq Nat
ASSUME BoundsAssumption == MaxLen \in Nat /\ MaxWrites \in Nat

VARIABLES
  fp,        \* [disk, pos, ahead, dirty, eof]: the FILE behind m_fp
  transfer,  \* of each thread the pread or pwrite it is in
  range,     \* m_len and what there is to compare it with
  counting,  \* of each thread the subtraction from m_len it is in
  writes,    \* how many writes there were
  copy       \* [pc, source, done]: copyFile

vars == <<fp, transfer, range, counting, writes, copy>>

Least(a, b) == IF a <= b THEN a ELSE b
Piece(s, p, n) == SubSeq(s, p + 1, Least(p + n, Len(s)))

Idle == [op |-> "none"]
InTransfer(t) == transfer[t].op # "none"

\* A thread in RangeStream::read: "load" before it loads m_len, "store" before it
\* stores what it saw less the n bytes that came.
NotCounting == [pc |-> "no", n |-> 0, seen |-> 0]
Counting(t) == counting[t].pc # "no"

\* left is m_len.  The range ends at the position end, if it is exact: nothing
\* moved the position but calls of the range.  owed are the bytes taken less those
\* counted by the calls that failed; two subtractions raced.
NewRange(n, end) == [left |-> n, end |-> end, exact |-> TRUE, owed |-> 0, raced |-> FALSE]
LooseRange(n) == [left |-> n, end |-> 0, exact |-> FALSE, owed |-> 0, raced |-> FALSE]

Init ==
  /\ \E text \in Texts : fp = [disk |-> text, pos |-> 0, ahead |-> <<>>, dirty |-> <<>>, eof |-> FALSE]
  /\ transfer = [t \in Threads |-> Idle]
  /\ range = NewRange(0, 0)
  /\ counting = [t \in Threads |-> NotCounting]
  /\ writes = 0
  /\ \/ copy = [pc |-> "off", source |-> <<>>, done |-> <<>>]
     \/ \E text \in Sources : copy = [pc |-> "call", source |-> text, done |-> <<>>]

-----------------------------------------------------------------------------
(* External: the calls of the C library. *)

\* The bytes of the file as the FILE shows them.
Text(f) == Overlay(f.disk, f.pos - Len(f.dirty), f.dirty)

Flushed(f) == [f EXCEPT !.disk = Text(f), !.dirty = <<>>]

Sought(f, p) == [Flushed(f) EXCEPT !.pos = p, !.ahead = <<>>, !.eof = FALSE]

\* fread: what is prefetched, and more of the file if that is not enough.
Fread(f, n) ==
  LET g == Flushed(f)
      from == IF n <= Len(g.ahead) \/ g.eof THEN g.ahead
              ELSE SubSeq(g.disk, g.pos + 1, Len(g.disk))
      got == Piece(from, 0, n)
  IN  [f |-> [g EXCEPT !.pos = @ + Len(got), !.ahead = Piece(from, Len(got), Buf),
                       !.eof = @ \/ Len(got) < n],
       got |-> got]

Fwrite(f, b) ==
  LET g == [f EXCEPT !.pos = @ + Len(b), !.dirty = @ \o b, !.ahead = <<>>]
  IN  IF Len(g.dirty) > Buf THEN Flushed(g) ELSE g

-----------------------------------------------------------------------------
(* The methods of FileStream, over the FILE. *)

Read(f, n) == Fread(f, n)
Write(f, b) == Fwrite(f, b)

\* The inline path of ensureRead takes prefetched bytes through the pointers of
\* glibc; the slow one throws after a short read.
EnsureRead(f, n) ==
  IF n <= Len(f.ahead)
  THEN [f |-> [f EXCEPT !.pos = @ + n, !.ahead = Piece(f.ahead, n, Buf)],
        got |-> Piece(f.ahead, 0, n), exc |-> FALSE]
  ELSE LET r == Fread(f, n) IN [f |-> r.f, got |-> r.got, exc |-> Len(r.got) # n]

\* readByte: the same for one byte.  getByte returns -1 where it throws.
ReadByte(f) == EnsureRead(f, 1)

\* The inline path of ensureWrite needs room behind bytes that are not yet
\* written.
EnsureWrite(f, b) ==
  IF f.dirty # <<>> /\ Len(f.dirty) + Len(b) <= Buf
  THEN [f EXCEPT !.pos = @ + Len(b), !.dirty = @ \o b]
  ELSE Fwrite(f, b)

SeekTo(f, p) == Sought(f, p)

-----------------------------------------------------------------------------
(* Calls of the threads.  A call spoils the transfers of the others that are *)
(* under way, and the range if it moves the position.                        *)

\* What only the properties look at is forgotten with it.
Spoiled(x) == [x EXCEPT !.alone = FALSE, !.got = <<>>, !.text = <<>>]
Overlapped(t) == [u \in Threads |-> IF u # t /\ InTransfer(u) THEN Spoiled(transfer[u])
                                    ELSE transfer[u]]
Moved == LooseRange(range.left)

\* Thread t may make a call, and one of those without a lock.
Sharing(t) == copy.pc = "off" /\ ~InTransfer(t) /\ ~Counting(t)
Unshared(t) == Sharing(t) /\ \A u \in Threads : ~InTransfer(u) /\ ~Counting(u)

\* What thread t writes.
Bytes(t, n) == [i \in 1..n |-> 10 * t + i]
MayWrite(p, n) == writes < MaxWrites /\ p + n <= MaxLen

ReadCall(t) ==
  /\ Sharing(t)
  /\ \E n \in Lengths :
       \/ fp' = Read(fp, n).f
       \/ Unshared(t) /\ fp' = EnsureRead(fp, n).f
  /\ transfer' = Overlapped(t) /\ range' = Moved
  /\ UNCHANGED <<counting, writes, copy>>

WriteCall(t) ==
  /\ Sharing(t)
  /\ \E n \in Lengths :
       /\ MayWrite(fp.pos, n)
       /\ \/ fp' = Write(fp, Bytes(t, n))
          \/ Unshared(t) /\ fp' = EnsureWrite(fp, Bytes(t, n))
  /\ writes' = writes + 1
  /\ transfer' = Overlapped(t) /\ range' = Moved
  /\ UNCHANGED <<counting, copy>>

\* seek to an offset (rewind is one), or from the position or the end.
SeekCall(t) ==
  /\ Sharing(t)
  /\ \E p \in Positions : \E from \in {0, fp.pos, Len(Text(fp))} :
       from + p <= MaxLen /\ fp' = SeekTo(fp, from + p)
  /\ transfer' = Overlapped(t) /\ range' = Moved
  /\ UNCHANGED <<counting, writes, copy>>

FlushCall(t) ==
  /\ Sharing(t)
  /\ fp' = Flushed(fp)
  /\ transfer' = Overlapped(t)
  /\ UNCHANGED <<range, counting, writes, copy>>

-----------------------------------------------------------------------------
(* pread and pwrite, one call of the FILE a step. *)

Begin(t, op, at, n) ==
  LET x == [op |-> op, pc |-> "seek", at |-> at, n |-> n, old |-> fp.pos,
            alone |-> TRUE, got |-> <<>>, text |-> Text(fp)]
  IN  transfer' = [Overlapped(t) EXCEPT
        ![t] = IF \E u \in Threads : InTransfer(u) THEN Spoiled(x) ELSE x]

\* tell().
TellOld(t) ==
  /\ Sharing(t)
  /\ \E at \in Positions, n \in Lengths :
       \/ Begin(t, "pread", at, n)
       \/ MayWrite(at, n) /\ Begin(t, "pwrite", at, n)
  /\ UNCHANGED <<fp, range, counting, writes, copy>>

At(t, pc) == InTransfer(t) /\ transfer[t].pc = pc
Goes(t, pc, got) ==
  transfer' = [Overlapped(t) EXCEPT ![t].pc = pc, ![t].got = IF transfer[t].alone THEN got ELSE <<>>]

SeekAt(t) ==
  /\ At(t, "seek")
  /\ fp' = SeekTo(fp, transfer[t].at)
  /\ Goes(t, "transfer", <<>>)
  /\ UNCHANGED <<range, counting, writes, copy>>

PreadRead(t) ==
  /\ At(t, "transfer") /\ transfer[t].op = "pread"
  /\ LET r == Read(fp, transfer[t].n) IN fp' = r.f /\ Goes(t, "back", r.got)
  /\ UNCHANGED <<range, counting, writes, copy>>

PwriteWrite(t) ==
  /\ At(t, "transfer") /\ transfer[t].op = "pwrite"
  /\ MayWrite(fp.pos, transfer[t].n)
  /\ fp' = Write(fp, Bytes(t, transfer[t].n))
  /\ writes' = writes + 1
  /\ Goes(t, "back", <<>>)
  /\ UNCHANGED <<range, counting, copy>>

\* Mutant: the position stays behind what was transferred.
BackNot(t) == fp
\* Where the file is left.
Back(t) == SeekTo(fp, transfer[t].old)

SeekBack(t) ==
  /\ At(t, "back")
  /\ fp' = Back(t)
  /\ transfer' = [Overlapped(t) EXCEPT ![t] = Idle]
  /\ range' = IF transfer[t].alone THEN range ELSE Moved
  /\ UNCHANGED <<counting, writes, copy>>

-----------------------------------------------------------------------------
(* RangeStream<FileStream>: reading no further than the range goes. *)

SetRangeLen(t) ==
  /\ Sharing(t)
  /\ \E n \in Lengths :
       range' = IF \E u \in Threads : InTransfer(u) \/ Counting(u)
                THEN LooseRange(n) ELSE NewRange(n, fp.pos + n)
  /\ UNCHANGED <<fp, transfer, counting, writes, copy>>

\* Mutant: m_len loses what was asked for.
Asked(got, n) == n
\* What read takes from m_len.
Came(got, n) == Len(got)

\* read: the locked call first.
RangeRead(t) ==
  /\ Sharing(t)
  /\ \E n \in Lengths \cup {range.left} : LET r == Read(fp, n) IN
       /\ fp' = r.f
       /\ counting' = [counting EXCEPT ![t] = [pc |-> "load", n |-> Came(r.got, n), seen |-> 0]]
  /\ range' = IF \E u \in Threads : InTransfer(u) THEN Moved ELSE range
  /\ transfer' = Overlapped(t)
  /\ UNCHANGED <<writes, copy>>

\* A subtraction that could still be compared is under way.
Overtaking == range.exact /\ \E u \in Threads : counting[u].pc = "store"

CountLoad(t) ==
  /\ counting[t].pc = "load"
  /\ counting' = [counting EXCEPT ![t].pc = "store", ![t].seen = range.left]
  /\ range' = [range EXCEPT !.raced = @ \/ Overtaking]
  /\ UNCHANGED <<fp, transfer, writes, copy>>

Minus(a, b) == IF b <= a THEN a - b ELSE a - b + Wrap

CountStore(t) ==
  /\ counting[t].pc = "store"
  /\ range' = [range EXCEPT !.left = Minus(counting[t].seen, counting[t].n)]
  /\ counting' = [counting EXCEPT ![t] = NotCounting]
  /\ UNCHANGED <<fp, transfer, writes, copy>>

\* A call without a lock that leaves the FILE f, counted so many bytes of the range
\* and took owed more.
Ranged(t, f, counted, owed) ==
  /\ Unshared(t)
  /\ fp' = f
  /\ range' = [range EXCEPT !.left = @ - counted, !.owed = IF range.exact THEN @ + owed ELSE 0]
  /\ UNCHANGED <<transfer, counting, writes, copy>>

\* ensureRead, and readAll with all that is left: m_len is kept when it throws.
RangeEnsureRead(t) ==
  \E n \in Lengths \cup {range.left} :
    /\ n <= range.left
    /\ LET r == EnsureRead(fp, n) IN
         IF r.exc THEN Ranged(t, r.f, 0, Len(r.got)) ELSE Ranged(t, r.f, n, 0)

\* readByte and getByte count first, and find nothing to read at the end.
RangeByte(t) ==
  /\ range.left > 0
  /\ LET r == ReadByte(fp) IN Ranged(t, r.f, 1, Len(r.got) - 1)

-----------------------------------------------------------------------------
(* copyFile. *)

CopyOpen ==
  /\ copy.pc = "call"
  /\ copy' = [copy EXCEPT !.pc = "loop"]
  /\ UNCHANGED <<fp, transfer, range, counting, writes>>

\* Mutant: a short write is not noticed.
CopyEndUnchecked(read, written) == IF read < Chunk THEN "true" ELSE "loop"
\* What a turn that read and wrote so many bytes ends with.
CopyEnd(read, written) ==
  IF written # read THEN "threw" ELSE IF read < Chunk THEN "true" ELSE "loop"

\* One turn: fread of an unbuffered FILE sets the EOF flag when it gets less
\* than a chunk; fwrite may run out of space.
CopyTurn ==
  /\ copy.pc = "loop"
  /\ LET got == Piece(copy.source, Len(copy.done), Chunk)
     IN  \E w \in 0..Len(got) :
           copy' = [copy EXCEPT !.pc = CopyEnd(Len(got), w), !.done = @ \o SubSeq(got, 1, w)]
  /\ UNCHANGED <<fp, transfer, range, counting, writes>>

-----------------------------------------------------------------------------
Next ==
  \/ \E t \in Threads :
       \/ ReadCall(t) \/ WriteCall(t) \/ SeekCall(t) \/ FlushCall(t)
       \/ TellOld(t) \/ SeekAt(t) \/ PreadRead(t) \/ PwriteWrite(t) \/ SeekBack(t)
       \/ SetRangeLen(t) \/ RangeRead(t) \/ CountLoad(t) \/ CountStore(t)
       \/ RangeEnsureRead(t) \/ RangeByte(t)
  \/ CopyOpen \/ CopyTurn

\* copyFile is a loop without waiting.
Spec == Init /\ [][Next]_vars /\ WF_vars(CopyOpen \/ CopyTurn)

-----------------------------------------------------------------------------
(* Properties *)

\* A pread or pwrite no other call came between transfers the bytes at its
\* offset, whatever was prefetched or not yet written, and leaves the position
\* where it was.
TransferAlone ==
  [][\A t \in Threads :
       At(t, "back") /\ transfer'[t] = Idle /\ transfer[t].alone =>
         LET x == transfer[t] IN
         /\ fp'.pos = x.old
         /\ x.op = "pread" => /\ Text(fp') = x.text
                              /\ x.got = Piece(x.text, x.at, x.n)
         /\ x.op = "pwrite" => Text(fp') = Overlay(x.text, x.at, Bytes(t, x.n))]_vars

\* The bytes that threads have read and not yet taken from m_len.
Uncounted == UNION {{t} \X (1..counting[t].n) : t \in Threads}

\* However the subtractions of threads that read at once come between each other,
\* m_len never says the range is at its end before it is, but for the bytes that
\* failed calls counted and did not get.  While no two of them raced it is the
\* distance from the position to the end of the range, the bytes still to be counted
\* and those that failed calls took and did not count put right; across short
\* reads, and across preads and pwrites of the same object nothing came between.
RangeInStep ==
  range.exact /\ (\A t \in Threads : ~InTransfer(t)) =>
    LET due == range.end + range.owed + Cardinality(Uncounted)
    IN  /\ fp.pos + range.left >= due
        /\ ~range.raced /\ fp.pos <= due => fp.pos + range.left = due

\* copyFile ends: with a copy, or by throwing because not all could be written.
CopyEnds ==
  copy.pc = "call" ~> \/ copy.pc = "true" /\ copy.done = copy.source
                      \/ copy.pc = "threw" /\ Len(copy.done) < Len(copy.source)
===============================================================================
