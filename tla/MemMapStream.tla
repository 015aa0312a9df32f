----------------------------- MODULE MemMapStream -----------------------------
(***************************************************************************)
(* nark::MemMapStream (MemMapStream.hpp/.cpp, the part for POSIX): a file  *)
(* read and written through a window that is mapped into memory.           *)
(*                                                                         *)
(* A call that leaves the window goes round a loop that remaps and copies. *)
(* Each pass is a step here, and job is the call under way.                *)
(*                                                                         *)
(* A Careful client keeps to the rules in the section of that name; for it *)
(* the object implements MappedFile.                                       *)
(***************************************************************************)
EXTENDS MapWindow

CONSTANTS
  Contents,    \* what the file may hold at first
  Others,      \* what the files hold that it is compared with
  Modes,       \* \subseteq {"read", "write", "trunc"}
  NewSizes,    \* arguments of open
  MaxFaults,   \* how many system calls may fail
  Lengths,     \* lengths read, written, skipped, probed
  Offsets,     \* arguments of the relative seeks
  Regions,     \* what is mapped beside the window: at, n
  Sizes,       \* arguments of set_fsize
  MaxSize,     \* bound on the offsets reached
  MaxWritten,  \* bound on the bytes written
  Builds,      \* \subseteq {"debug", "release"}: the assertions are in the first
  Careful      \* does the client keep to the rules below?

ASSUME InputsAssumption ==
  /\ Contents \cup Others \subseteq Seq(Nat) /\ MaxFaults \in Nat
  /\ Modes \subseteq {"read", "write", "trunc"}
  /\ Lengths \subseteq Nat \ {0} /\ Offsets \subseteq Int
  /\ Regions \subseteq [at : Nat, n : Nat \ {0}] /\ Sizes \cup NewSizes \subseteq Nat
  /\ MaxSize \in Nat /\ MaxWritten \in Nat /\ Careful \in BOOLEAN
  /\ Builds \subseteq {"debug", "release"}

VARIABLES
  w,        \* the window and the file (MapWindow)
  job,      \* the call under way: op, len, the bytes copied so far, and what
            \* the client saw when it called: file, tell
  region,   \* an MMS_MapRegion or MMS_MapData: at, n; n = 0 if there is none
  written,  \* how many bytes the client has written
  call      \* the last call that returned, and what it returned

vars == <<w, job, region, written, call>>

-----------------------------------------------------------------------------
\* The bytes of a write.
Data(n) == [i \in 1..n |-> 100 + i]
NoJob == [op |-> "none", len |-> 0, bytes |-> <<>>, file |-> <<>>, tell |-> 0]
NoRegion == [at |-> 0, n |-> 0]

Init ==
  /\ \E c \in Contents :
       w = [file |-> c, open |-> FALSE, writable |-> FALSE, size |-> 0, base |-> 0,
            pos |-> 0, len |-> 0, mapped |-> FALSE, faults |-> MaxFaults, lost |-> FALSE]
  /\ job = NoJob /\ region = NoRegion /\ written = 0
  /\ call = [op |-> "none", len |-> 0, bytes |-> <<>>, at |-> 0, exc |-> "none"]

Called(op, len, b, at, e) ==
  call' = [op |-> op, len |-> len, bytes |-> b, at |-> at, exc |-> e]

Idle == job.op = "none"
Room == w.len - w.pos
InWindow(n) == SubSeq(w.file, TellOf(w) + 1, TellOf(w) + n)

\* A call that is done when it returns.
Return(o, op, len, b, at) ==
  /\ w' = o.w
  /\ Called(op, len, b, at, o.exc)

-----------------------------------------------------------------------------
(* The rules of a Careful client.                                           *)

\* It opens a closed object (an open one forgets its file and its mapping).
MayOpen == ~w.open

\* After it has cut the file below the end of the window it seeks away first:
\* memory beyond the end of the file cannot be touched.
MayTouch == w.base + w.len <= w.size

\* It writes at most up to the end of the window, or starts there: what a write
\* puts before the end of the window is overwritten by the rest of it.
MayWrite(n) == w.writable /\ (n <= Room \/ Room = 0)

\* It compares files it only reads (see BinCompare).
MayCompare == ~w.writable

Usable == w.open /\ Idle
Reaches(len) == TellOf(w) + len <= MaxSize
Touchable(len) == Usable /\ Reaches(len) /\ (Careful => MayTouch)

-----------------------------------------------------------------------------
Open(m, n) ==
  /\ Idle /\ (Careful => MayOpen)
  /\ \E o \in Opened(w, m # "read", m = "trunc", n) : Return(o, "open", 0, <<>>, n)
  /\ UNCHANGED <<job, region, written>>

Close ==
  /\ Usable
  /\ w' = Closed(w) /\ Called("close", 0, <<>>, 0, "none")
  /\ UNCHANGED <<job, region, written>>

\* The start of a call that does not fit in the window: what fits is copied, but
\* m_pos stays.
Begin(op, len, b, file) ==
  /\ job' = [op |-> op, len |-> len, bytes |-> b, file |-> file, tell |-> TellOf(w)]
  /\ w' = [w EXCEPT !.file = file]
  /\ UNCHANGED call

\* read, ensureRead, readByte, getByte.
Read(len) ==
  /\ Touchable(len)
  /\ IF len <= Room
     THEN /\ Return([w |-> [w EXCEPT !.pos = @ + len], exc |-> "none"], "read", len, InWindow(len), 0)
          /\ UNCHANGED job
     ELSE Begin("read", len, InWindow(Room), w.file)
  /\ UNCHANGED <<region, written>>

Skip(len) ==
  /\ Touchable(len)
  /\ IF len <= Room
     THEN /\ Return([w |-> [w EXCEPT !.pos = @ + len], exc |-> "none"], "skip", len, <<>>, 0)
          /\ UNCHANGED job
     ELSE Begin("skip", len, InWindow(Room), w.file)
  /\ UNCHANGED <<region, written>>

\* write, ensureWrite, writeByte.
Write(len) ==
  /\ Touchable(len) /\ w.writable /\ (Careful => MayWrite(len))
  /\ written + len <= MaxWritten /\ written' = written + len
  /\ LET first == SubSeq(Data(len), 1, Least(len, Room))
         file  == Overlay(w.file, TellOf(w), first)
     IN  IF len <= Room
         THEN /\ Return([w |-> [w EXCEPT !.file = file, !.pos = @ + len], exc |-> "none"],
                        "write", len, Data(len), 0)
              /\ UNCHANGED job
         ELSE /\ job' = [op |-> "write", len |-> len, bytes |-> first, file |-> w.file,
                         tell |-> TellOf(w)]
              /\ w' = [w EXCEPT !.file = file]
              /\ UNCHANGED call
  /\ UNCHANGED region

\* Once more round the loop: remap, then copy what the new window has.
More(op, from, chunk(_, _), copied(_, _)) ==
  /\ job.op = op
  /\ \E o \in UnalignedRemap(w, from, Block) :
       /\ IF o.exc # "none"
          THEN w' = o.w /\ job' = NoJob /\ Called(op, job.len, job.bytes, 0, o.exc)
          ELSE LET n == Least(job.len - Len(job.bytes), o.w.len - o.w.pos)
                   all == job.bytes \o chunk(o.w, n)
               IN  /\ w' = [o.w EXCEPT !.file = copied(o.w, n), !.pos = @ + n]
                   /\ IF Len(all) = job.len
                      THEN job' = NoJob /\ Called(op, job.len, all, 0, "none")
                      ELSE job' = [job EXCEPT !.bytes = all] /\ UNCHANGED call
  /\ UNCHANGED <<region, written>>

FileBytesAt(t, n) == SubSeq(t.file, TellOf(t) + 1, TellOf(t) + n)
SameFile(t, n) == t.file

\* remap_and_read.  (Its test for the end, fpos > m_file_size, is never true.)
ReadMore == More("read", w.base + w.len, FileBytesAt, SameFile)

\* remap_and_skip.
SkipMore == More("skip", w.base + w.len, FileBytesAt, SameFile)

\* remap_and_write: from m_pos on, not from the end of the window.
WriteMore ==
  LET rest(n) == SubSeq(Data(job.len), Len(job.bytes) + 1, Len(job.bytes) + n)
  IN  More("write", TellOf(w), LAMBDA t, n : rest(n),
           LAMBDA t, n : Overlay(t.file, TellOf(t), rest(n)))

\* probe, and remap_and_probe, which puts m_pos where it was.
Probe(len) ==
  /\ Touchable(len)
  /\ IF len <= Room THEN UNCHANGED w /\ Called("probe", len, <<>>, 0, "none")
     ELSE \E o \in UnalignedRemap(w, TellOf(w), Greatest(Block, len)) :
            Return(o, "probe", len, <<>>, 0)
  /\ UNCHANGED <<job, region, written>>

-----------------------------------------------------------------------------
\* seek(pos), and seek(offset, origin) of the three origins.
SeekBytes(p) ==
  /\ p \in 0..MaxSize
  /\ \E o \in SeekTo(w, p) : Return(o, "seek", 0, <<>>, p)
  /\ UNCHANGED <<job, region, written>>

Seek(p) == Usable /\ SeekBytes(p)
SeekBy(off) == Usable /\ SeekBytes(TellOf(w) + off)
SeekFromEnd(off) == Usable /\ SeekBytes(w.size + off)

\* tell, size and eof.
Ask ==
  /\ Idle
  /\ Called("ask", 0, <<TellOf(w), w.size, IF TellOf(w) = w.size THEN 1 ELSE 0>>, 0, "none")
  /\ UNCHANGED <<w, job, region, written>>

\* set_fsize, to cut what padding a written file has, or to make it longer.
SetFileSize(n) ==
  /\ Usable /\ w.writable
  /\ \E o \in SetFsize(w, n) : Return(o, "set_fsize", 0, <<>>, n)
  /\ UNCHANGED <<job, region, written>>

-----------------------------------------------------------------------------
(* Regions.                                                                 *)

\* MMS_MapData: map() of whole pages around the bytes.  (MMS_MapRegion is the same
\* for bytes that are whole pages.)
Map(r) ==
  /\ Usable /\ region = NoRegion
  /\ w.writable \/ r.at + r.n <= w.size
  /\ LET end == AlignUp(r.at + r.n, Page)
         grown == IF w.writable /\ w.size < end THEN SetFsize(w, end) ELSE Fine(w)
     IN  \E o \in Then(grown, LAMBDA t : Fine(t) \cup Maybe(t, LAMBDA u : Thrown(u, "nomap"))) :
            /\ Return(o, "map", r.n, <<>>, r.at)
            /\ region' = IF o.exc = "none" THEN r ELSE region
  /\ UNCHANGED <<job, written>>

InRegion == region # NoRegion /\ region.at + region.n <= Len(w.file)

Peek ==
  /\ Idle /\ InRegion
  /\ Called("peek", region.n, SubSeq(w.file, region.at + 1, region.at + region.n), region.at, "none")
  /\ UNCHANGED <<w, job, region, written>>

Poke ==
  /\ Idle /\ InRegion /\ w.open /\ w.writable
  /\ written < MaxWritten /\ written' = written + 1
  /\ w' = [w EXCEPT !.file = Overlay(@, region.at, Data(1))]
  /\ Called("poke", 1, Data(1), region.at, "none")
  /\ UNCHANGED <<job, region>>

Unmap ==
  /\ Idle /\ region # NoRegion
  /\ region' = NoRegion
  /\ Called("unmap", 0, <<>>, 0, "none")
  /\ UNCHANGED <<w, job, written>>

-----------------------------------------------------------------------------
(* BinCompare with another file, of the bytes c, that was just opened.      *)

Sign(a, b) == IF a < b THEN -1 ELSE IF a > b THEN 1 ELSE 0
Compared(r) == Called("compare", 0, <<>>, r, "none")

\* The comparison of t.size and c begins, or goes on to the byte after b.
BeginCompare(op, t, c) ==
  job' = [op |-> op, len |-> Least(t.size, Len(c)), bytes |-> <<>>, file |-> c, tell |-> TellOf(w)]
Alike(b) == job' = [job EXCEPT !.bytes = @ \o b] /\ UNCHANGED call

\* An assertion holds, or is not in the build.
Passes(assertion) == assertion \/ "release" \in Builds

\* It ends the program.  What comes next is another one, with nothing open or mapped.
Aborts(t, assertion) ==
  /\ ~assertion /\ "debug" \in Builds
  /\ w' = [Fresh(t) EXCEPT !.lost = FALSE] /\ job' = NoJob /\ region' = NoRegion
  /\ Called("compare", 0, <<>>, 0, "abort")

\* memcmp.
MemCmp(a, b) ==
  LET diff == {i \in DOMAIN a : a[i] # b[i]}
      i == CHOOSE i \in diff : \A j \in diff : i <= j
  IN  IF diff = {} THEN 0 ELSE Sign(a[i], b[i])

\* Files of one size are mapped block by block, or, when their windows are not of
\* one size, read byte by byte like other files.
CompareBlocks(c) ==
  /\ Usable /\ (Careful => MayCompare)
  /\ Len(c) = w.size
  /\ BeginCompare("compare_blocks", w, c)
  /\ UNCHANGED <<w, region, written, call>>

\* The next block, or what is left, of both files as an MMS_MapRegion: mmap fails
\* for the one or the other, or they are compared, and unmapped.  unmap asserts
\* that a region is whole pages, which the rest of a file need not be.
CompareBlocksMore ==
  LET k == Len(job.bytes)
      n == Least(Block, job.len - k)
      x == SubSeq(w.file, k + 1, k + n)
      y == SubSeq(job.file, k + 1, k + n)
      pages == n % Page = 0
  IN  /\ job.op = "compare_blocks"
      /\ \/ k = job.len /\ job' = NoJob /\ Compared(0) /\ UNCHANGED <<w, region>>
         \/ /\ k < job.len /\ job' = NoJob /\ UNCHANGED region
            /\ \E o \in Maybe(w, LAMBDA u : Thrown(u, "nomap")) :
                 Return(o, "compare", 0, <<>>, 0)
         \/ k < job.len /\ Aborts(w, pages)
         \/ /\ k < job.len /\ Passes(pages) /\ UNCHANGED <<w, region>>
            /\ IF MemCmp(x, y) # 0 THEN job' = NoJob /\ Compared(MemCmp(x, y)) ELSE Alike(x)
      /\ UNCHANGED written

\* n is taken, and asserted not to be 0, before the first byte is read.
CompareBytes(c) ==
  /\ Usable /\ (Careful => MayCompare)
  /\ w.size # 0 \/ Len(c) # 0
  /\ \E o \in SeekTo(w, 0) :
       \/ o.exc # "none" /\ Return(o, "compare", 0, <<>>, 0) /\ UNCHANGED <<job, region>>
       \/ o.exc = "none" /\ Aborts(o.w, Least(o.w.size, Len(c)) > 0)
       \/ /\ o.exc = "none" /\ Passes(Least(o.w.size, Len(c)) > 0)
          /\ w' = o.w /\ BeginCompare("compare", o.w, c) /\ UNCHANGED <<call, region>>
  /\ UNCHANGED written

\* Mutant: what is left of the longer file is not looked at.
AtEndPrefix(c) == 0

\* The answer when the shorter file has no more bytes.
AtEnd(c) == Sign(w.size, Len(c))

\* readByte of this file; and of the other one, whose window may have to be mapped
\* for it: when that fails, the other file is closed.
ThisByte ==
  Then(IF Room > 0 THEN Fine(w) ELSE UnalignedRemap(w, w.base + w.len, Block),
       LAMBDA t : Fine([t EXCEPT !.pos = @ + 1]))
OtherByte(t) == Fine(t) \cup Maybe(t, LAMBDA u : Thrown(u, "other"))

\* A byte of each, until they differ or the shorter file ends.
CompareMore ==
  LET k == Len(job.bytes)
      byte(t) == t.file[TellOf(t)]
  IN  /\ job.op = "compare"
      /\ \/ k = job.len /\ job' = NoJob /\ Compared(AtEnd(job.file)) /\ UNCHANGED w
         \/ /\ k < job.len
            /\ \E o \in Then(ThisByte, OtherByte) :
                 /\ w' = o.w
                 /\ IF o.exc # "none" THEN job' = NoJob /\ Called("compare", 0, <<>>, 0, o.exc)
                    ELSE IF byte(o.w) = job.file[k + 1] THEN Alike(<<byte(o.w)>>)
                    ELSE job' = NoJob /\ Compared(Sign(byte(o.w), job.file[k + 1]))
      /\ UNCHANGED <<region, written>>

-----------------------------------------------------------------------------
\* The passes of the loop of a call that is under way.
Proceed == ReadMore \/ SkipMore \/ WriteMore \/ CompareBlocksMore \/ CompareMore

Next ==
  \/ \E m \in Modes, n \in NewSizes : Open(m, n)
  \/ Close
  \/ \E len \in Lengths : Read(len) \/ Skip(len) \/ Write(len) \/ Probe(len)
  \/ Proceed
  \/ \E p \in 0..MaxSize : Seek(p)
  \/ \E n \in Sizes : SetFileSize(n)
  \/ \E off \in Offsets : SeekBy(off) \/ SeekFromEnd(off)
  \/ Ask
  \/ \E r \in Regions : Map(r)
  \/ Peek \/ Poke \/ Unmap
  \/ \E c \in Others : CompareBlocks(c) \/ CompareBytes(c)

\* A call that has begun goes on: the loops are in one thread.
Spec == Init /\ [][Next]_vars /\ WF_vars(Proceed)

-----------------------------------------------------------------------------
(* Properties.                                                              *)

\* The pointers are in order and the window lies on whole pages of the file, to
\* its end or up to a page boundary, through every remap of every call, a failed
\* one included: it ends beyond the file only after set_fsize has cut the file.
TypeOK ==
  /\ w.size = (IF w.open THEN Len(w.file) ELSE 0)
  /\ w.mapped => w.open
  /\ ~w.mapped => w.base = 0 /\ w.len = 0
  /\ w.base % Page = 0 /\ w.pos \in 0..w.len
  /\ w.len % Page = 0 \/ w.base + w.len = w.size \/ ~MayTouch
  /\ job.op # "none" => w.open /\ Len(job.bytes) <= job.len
  /\ written \in 0..MaxWritten

\* No mapping and no descriptor is lost, unless set_fsize fails, called by the
\* client or by a mapped region, while a window is mapped.
LosesOnlyOnFailedResize ==
  [][w'.lost /\ ~w.lost => /\ call'.op \in {"set_fsize", "map"} /\ call'.exc = "io"
                           /\ w.mapped /\ w.faults > 0]_vars

\* Every call returns, at the end of the file and when a system call fails too.
Returns == job.op # "none" ~> job.op = "none"

\* With care, the mapped file is a file.  While a call is under way the client
\* sees what it saw before.
File == INSTANCE MappedFile
          WITH content  <- IF job.op \in {"none", "compare", "compare_blocks"} THEN w.file ELSE job.file,
               position <- IF Idle THEN TellOf(w) ELSE job.tell,
               state    <- IF ~w.open THEN "closed" ELSE IF w.writable THEN "writing" ELSE "reading",
               faulty   <- w.faults > 0
IsFile == File!Spec

\* A BinCompare that answers orders the files as their bytes are ordered, however it
\* compares them, block by block or byte by byte, whatever was remapped meanwhile.
Before(a, b) ==
  \/ Len(a) < Len(b) /\ SubSeq(b, 1, Len(a)) = a
  \/ \E i \in 1..Least(Len(a), Len(b)) :
        SubSeq(a, 1, i - 1) = SubSeq(b, 1, i - 1) /\ a[i] < b[i]
ComparesInOrder ==
  [][job.op \in {"compare", "compare_blocks"} /\ job'.op = "none" /\ call'.exc = "none" =>
       call'.at = IF Before(w.file, job.file) THEN -1
                  ELSE IF Before(job.file, w.file) THEN 1 ELSE 0]_vars
===============================================================================
