--------------------------------- MODULE MemIO ---------------------------------
(***************************************************************************)
(* The memory streams (MemStream.hpp/.cpp): SeekableMemIO over memory of   *)
(* the caller ("fixed"; MemIO is the same without seeking), and            *)
(* AutoGrownMemIO, which owns and grows its own ("grown").                 *)
(*                                                                         *)
(* Object 1 is the one the client works on; object 2, an AutoGrownMemIO,   *)
(* is the other side of clone, swap and of a load.  A method is an         *)
(* operator from an object and the heap to the set of its outcomes, an     *)
(* allocation may fail wherever there is one.                              *)
(***************************************************************************)
EXTENDS FileBytes, FiniteSets

CONSTANTS
  Kinds,       \* \subseteq {"fixed", "grown"}
  FixedSize,   \* the memory of a fixed one
  Sizes,       \* arguments of resize, grow, init, seek
  Lengths,     \* lengths read and written
  Offsets,     \* arguments of the relative seeks
  Chunk,       \* the 64 bytes asked for at least, scaled
  HalfChunk,   \* the 32 bytes grow starts from
  MaxSize,     \* bound on the memory of object 1
  MaxOther,    \* bound on the memory of object 2, and of what is released
  MaxWritten,  \* bound on the bytes written
  MaxBlocks,   \* bound on the blocks allocated at once, temporaries aside
  AllocFails   \* may malloc and realloc return NULL?

ASSUME KindsAssumption == Kinds \subseteq {"fixed", "grown"} /\ Kinds # {}
ASSUME NumbersAssumption ==
  /\ FixedSize \in Nat /\ MaxSize \in Nat /\ MaxOther \in Nat /\ MaxWritten \in Nat /\ MaxBlocks \in Nat
  /\ Sizes \subseteq Nat /\ Lengths \subseteq Nat /\ Offsets \subseteq Int
  /\ Chunk \in Nat \ {0} /\ HalfChunk \in Nat \ {0}
ASSUME BoundsAssumption == FixedSize <= MaxSize /\ MaxOther <= MaxSize
ASSUME AllocFailsAssumption == AllocFails \in BOOLEAN

VARIABLES
  kind,     \* the class of object 1
  obj,      \* the two objects:
            \*   block   the heap block m_beg points to, or 0 (NULL)
            \*   mem     the bytes in [m_beg, m_end)
            \*   pos     m_pos - m_beg
  heap,     \* the heap blocks that are allocated
  loose,    \* what release() gave to the client
  written,  \* how many bytes the client has written
  call      \* the last call and what it returned

vars == <<kind, obj, heap, loose, written, call>>

-----------------------------------------------------------------------------
Least(a, b) == IF a <= b THEN a ELSE b
Greatest(a, b) == IF a <= b THEN b ELSE a

Data(n) == [i \in 1..n |-> written + i]
Null == [block |-> 0, mem |-> <<>>, pos |-> 0]
NoBytes == <<>>

Size(m) == Len(m.mem)

Outcome(m, h, e) == [m |-> m, heap |-> h, exc |-> e]
Fine(m, h) == {Outcome(m, h, "none")}

\* What follows a call that may throw.
Then(outcomes, next(_, _)) ==
  UNION {IF o.exc = "none" THEN next(o.m, o.heap) ELSE {o} : o \in outcomes}

-----------------------------------------------------------------------------
(* The heap.                                                                *)

Blocks == 1..4
FreshBlock(h) == CHOOSE b \in Blocks \ h : \A c \in Blocks \ h : b <= c

Failed(m, h) == IF AllocFails THEN {Outcome(m, h, "bad_alloc")} ELSE {}

Grown(m, n) == [i \in 1..n |-> IF i <= Len(m) THEN m[i] ELSE Junk]

\* External: realloc to n > 0 bytes, or of NULL, with the pointers that follow
\* the memory.  (realloc of a block to 0 bytes: see MayResize.)
Realloc(m, h, n) ==
  LET b == IF m.block = 0 THEN FreshBlock(h) ELSE m.block
  IN  Fine([m EXCEPT !.block = b, !.mem = Grown(@, n)], h \cup {b})
      \cup Failed(m, h)

\* AutoGrownMemIO(size) and init, which frees first.
Alloc(h, n) ==
  IF n = 0 THEN Fine(Null, h)
  ELSE Fine([Null EXCEPT !.block = FreshBlock(h), !.mem = Grown(<<>>, n)], h \cup {FreshBlock(h)})
       \cup Failed(Null, h)

-----------------------------------------------------------------------------
(* Growing.                                                                 *)

\* Mutant: a size below the position is not refused.
ResizedUnchecked(m, h, n) == Realloc(m, h, n)

\* AutoGrownMemIO::resize.
Resized(m, h, n) ==
  IF n < m.pos THEN {Outcome(m, h, "length_error")} ELSE Realloc(m, h, n)

\* AutoGrownMemIO::grow: new is what is had by doubling until it is enough.
GrownSize(new, old, n) ==
  /\ new >= old + n
  /\ \E k \in 0..n : /\ new = Greatest(HalfChunk, old) * 2^k
                     /\ k = 0 \/ new \div 2 < old + n

\* growAndWrite and growAndWriteByte.
SizeForWrite(m, n) == Greatest(Size(m) + Greatest(n, Size(m)), Chunk)
SizeForByte(m) == Greatest(2 * Size(m), Chunk)

-----------------------------------------------------------------------------
(* Writing.                                                                 *)

Stored(m, b) ==
  [m EXCEPT !.mem = Store(@, m.pos, b), !.pos = @ + Len(b)]

\* ensureWrite of both classes; writeByte grows to another size.
EnsureWritten(m, h, b, size) ==
  IF m.pos + Len(b) <= Size(m) THEN Fine(Stored(m, b), h)
  ELSE IF kind = "fixed" THEN {Outcome(m, h, "space")}
  ELSE Then(Resized(m, h, size), LAMBDA n, g : Fine(Stored(n, b), g))

\* vsnprintf(m_pos, m_end - m_pos): text and '\0', as much as there is room for.
Printed(m, text) ==
  LET room == Size(m) - m.pos
      out == IF Len(text) < room THEN Append(text, Zero)
             ELSE IF room = 0 THEN <<>> ELSE Append(SubSeq(text, 1, room - 1), Zero)
  IN  [m EXCEPT !.mem = Store(@, m.pos, out)]

Worked(m, text) == [Printed(m, text) EXCEPT !.pos = @ + Len(text)]

\* AutoGrownMemIO::vprintf: a first resize when less than 64 bytes are left, and
\* a second one, to what vsnprintf asked for, when they were not enough.
Vprintf(m, h, text) ==
  LET first == IF Size(m) - m.pos < Chunk
               THEN Resized(m, h, Greatest(Chunk, 2 * Size(m))) ELSE Fine(m, h)
      pass(n, g) ==
        IF Len(text) < Size(n) - n.pos THEN Fine(Worked(n, text), g)
        ELSE Then(Resized(Printed(n, text), g, 2 * (n.pos + Len(text) + 1)),
                  LAMBDA p, q : Fine(Worked(p, text), q))
  IN  Then(first, pass)

\* Mutant: the position moves before the input is read.
FromInputEarly(m, h, b) ==
  LET read(n, g) ==
        Fine(Stored(n, b), g) \cup {Outcome([n EXCEPT !.pos = @ + Len(b)], g, "eof")}
  IN  IF m.pos + Len(b) <= Size(m) THEN read(m, h)
      ELSE IF kind = "fixed" THEN {Outcome(m, h, "space")}
      ELSE Then(Resized(m, h, m.pos + Len(b)), read)

\* from_input: ensureRead of the input stores b at m_pos, or some of it and
\* throws.
FromInput(m, h, b) ==
  LET read(n, g) ==
        Fine(Stored(n, b), g) \cup
        {Outcome([n EXCEPT !.mem = Store(@, n.pos, SubSeq(b, 1, k))],
                 g, "eof") : k \in 0..Least(1, Len(b) - 1)}
  IN  IF m.pos + Len(b) <= Size(m) THEN read(m, h)
      ELSE IF kind = "fixed" THEN {Outcome(m, h, "space")}
      ELSE Then(Resized(m, h, m.pos + Len(b)), read)

\* Mutant: the object is loaded at its position.
LoadedAtPos(m, h, w) ==
  LET read(n, g) ==
        Fine([n EXCEPT !.mem = SubSeq(Store(@, n.pos, w), 1, Len(w))], g)
        \cup {Outcome([n EXCEPT !.mem = Grown(<<>>, Size(n))], g, "eof")}
  IN  Then(Resized(m, h, Len(w)), read)

\* DataIO_loadObject: resize, then ensureRead to begin().  m_pos stays.
Loaded(m, h, w) ==
  LET read(n, g) ==
        Fine([n EXCEPT !.mem = w], g)
        \cup {Outcome([n EXCEPT !.mem = Grown(<<>>, Size(n))], g, "eof")}
  IN  Then(Resized(m, h, Len(w)), read)

-----------------------------------------------------------------------------
Init ==
  /\ kind \in Kinds
  /\ heap = {} /\ loose = Null /\ written = 0
  /\ obj = [o \in {1, 2} |->
              IF o = 1 /\ kind = "fixed"
              THEN [Null EXCEPT !.mem = [i \in 1..FixedSize |-> Junk]] ELSE Null]
  /\ call = [op |-> "none", obj |-> 1, bytes |-> NoBytes, at |-> 0, exc |-> "none"]

Called(op, o, b, at, e) ==
  call' = [op |-> op, obj |-> o, bytes |-> b, at |-> at, exc |-> e]

\* Object o gets the outcome r of the method op.
Return(op, o, b, at, r) ==
  /\ Size(r.m) <= (IF o = 1 THEN MaxSize ELSE MaxOther) /\ Cardinality(r.heap) <= MaxBlocks
  /\ obj' = [obj EXCEPT ![o] = r.m]
  /\ heap' = r.heap
  /\ Called(op, o, b, at, r.exc)

one == obj[1]

Writes(len) == written + len <= MaxWritten /\ written' = written + len

\* MemIO::read and getByte take what is there; readByte, ensureRead and to_output
\* throw when that is not enough.
Read(len) ==
  /\ UNCHANGED <<kind, heap, loose, written>>
  /\ LET n == Least(len, Size(one) - one.pos)
     IN  /\ obj' = [obj EXCEPT ![1].pos = @ + n]
         /\ Called("read", 1, SubSeq(one.mem, one.pos + 1, one.pos + n), 0, "none")

EnsureRead(len) ==
  /\ UNCHANGED <<kind, heap, loose, written>>
  /\ IF one.pos + len <= Size(one)
     THEN /\ obj' = [obj EXCEPT ![1].pos = @ + len]
          /\ Called("read", 1, SubSeq(one.mem, one.pos + 1, one.pos + len), 0, "none")
     ELSE UNCHANGED obj /\ Called("read", 1, NoBytes, 0, "eof")

\* ensureWrite; AutoGrownMemIO::write is the same (but cannot throw: there the
\* program ends where ensureWrite throws bad_alloc).
EnsureWrite(len) ==
  /\ UNCHANGED <<kind, loose>> /\ Writes(len)
  /\ \E r \in EnsureWritten(one, heap, Data(len), SizeForWrite(one, len)) :
        Return("write", 1, Data(len), 0, r)

WriteByte ==
  /\ UNCHANGED <<kind, loose>> /\ Writes(1)
  /\ \E r \in EnsureWritten(one, heap, Data(1), SizeForByte(one)) :
        Return("write", 1, Data(1), 0, r)

\* MemIO::write writes what fits.
WriteSome(len) ==
  /\ kind = "fixed"
  /\ UNCHANGED <<kind, loose>> /\ Writes(len)
  /\ LET b == SubSeq(Data(len), 1, Least(len, Size(one) - one.pos))
     IN  Return("write", 1, b, 0, Outcome(Stored(one, b), heap, "none"))

\* printf and vprintf: the '\0' behind the text replaces the byte that was there.
Vprint(len) ==
  /\ kind = "grown"
  /\ UNCHANGED <<kind, loose>> /\ Writes(len)
  /\ \E r \in Vprintf(one, heap, Data(len)) :
        Return("print", 1, Data(len), 0, r)

FromStream(len) ==
  /\ UNCHANGED <<kind, loose>> /\ Writes(len)
  /\ \E r \in FromInput(one, heap, Data(len)) : Return("write", 1, Data(len), 0, r)

\* seek of the three origins, skip and rewind.
SeekTo(p) ==
  IF p \in 0..Size(one)
  THEN Return("seek", 1, NoBytes, p, Outcome([one EXCEPT !.pos = p], heap, "none"))
  ELSE Return("seek", 1, NoBytes, p, Outcome(one, heap, "invalid_argument"))

Seek(p) == UNCHANGED <<kind, loose, written>> /\ SeekTo(p)

SeekBy(off) ==
  /\ UNCHANGED <<kind, loose, written>>
  /\ SeekTo(one.pos + off) \/ SeekTo(Size(one) + off)

\* realloc(m_beg, 0) frees the block and returns NULL, so that resize throws
\* bad_alloc and keeps the pointers: a client does not resize memory to nothing.
MayResize(m, n) == n > 0 \/ m.block = 0

Resize(n) ==
  /\ kind = "grown" /\ MayResize(one, n)
  /\ UNCHANGED <<kind, loose, written>>
  /\ \E r \in Resized(one, heap, n) : Return("resize", 1, NoBytes, n, r)

Grow(n) ==
  /\ kind = "grown"
  /\ UNCHANGED <<kind, loose, written>>
  /\ \E new \in 0..MaxSize :
        /\ GrownSize(new, Size(one), n)
        /\ \E r \in Resized(one, heap, new) : Return("resize", 1, NoBytes, new, r)

\* AutoGrownMemIO::init and the constructor.
Reinit(n) ==
  /\ kind = "grown"
  /\ UNCHANGED <<kind, loose, written>>
  /\ \E r \in Alloc(heap \ {one.block}, n) : Return("init", 1, NoBytes, n, r)

\* shrink_to_fit: m_end becomes m_pos.
ShrinkToFit ==
  /\ kind = "grown"
  /\ UNCHANGED <<kind, loose, written>>
  /\ Return("shrink", 1, NoBytes, 0,
            IF one.pos = 0 THEN Outcome(Null, heap \ {one.block}, "none")
            ELSE Outcome([one EXCEPT !.mem = SubSeq(@, 1, one.pos)],
                         heap, "none"))

\* Mutant: clone forgets the memory it had.
CloneLeaks ==
  /\ UNCHANGED <<kind, loose, written>>
  /\ kind = "grown"
  /\ \E r \in Alloc(heap, Size(one)) :
        IF r.exc # "none" THEN Return("clone", 2, NoBytes, 0, [r EXCEPT !.m = obj[2]])
        ELSE Return("clone", 2, NoBytes, 0,
                    [r EXCEPT !.m.mem = one.mem])

\* clone: a new object with the memory of the source, swapped with this one,
\* whose memory the destructor of the temporary frees.  The position is 0.
Clone ==
  /\ UNCHANGED <<kind, loose, written>>
  /\ kind = "grown"
  /\ \E r \in Alloc(heap, Size(one)) :
        IF r.exc # "none" THEN Return("clone", 2, NoBytes, 0, [r EXCEPT !.m = obj[2]])
        ELSE Return("clone", 2, NoBytes, 0,
                    [r EXCEPT !.m.mem = one.mem,
                              !.heap = @ \ {obj[2].block}])

Swap ==
  /\ kind = "grown" /\ Size(one) <= MaxOther
  /\ UNCHANGED <<kind, heap, loose, written>>
  /\ obj' = [o \in {1, 2} |-> obj[3 - o]]
  /\ Called("swap", 1, NoBytes, 0, "none")

\* release, and risk_take_ownership of what was released.
Release ==
  /\ kind = "grown" /\ loose.block = 0 /\ Size(one) <= MaxOther
  /\ UNCHANGED <<kind, written>>
  /\ loose' = [one EXCEPT !.pos = 0]
  /\ Return("release", 1, NoBytes, 0, Outcome(Null, heap, "none"))

TakeOwnership ==
  /\ kind = "grown" /\ one.block = 0 /\ loose.block # 0
  /\ UNCHANGED <<kind, written>>
  /\ loose' = Null
  /\ Return("take", 1, loose.mem, 0,
            Outcome(loose, heap, "none"))

\* DataIO_saveObject writes the tell() bytes before the position, with their
\* number before them, and DataIO_loadObject reads them into object 2.
Saved(m) == SubSeq(m.mem, 1, m.pos)

Load ==
  /\ kind = "grown" /\ MayResize(obj[2], one.pos)
  /\ UNCHANGED <<kind, loose, written>>
  /\ \E r \in Loaded(obj[2], heap, Saved(one)) : Return("load", 2, NoBytes, 0, r)

Next ==
  \/ \E len \in Lengths : \/ Read(len) \/ EnsureRead(len) \/ EnsureWrite(len)
                          \/ WriteSome(len) \/ Vprint(len) \/ FromStream(len)
  \/ WriteByte
  \/ \E n \in Sizes : Seek(n) \/ Resize(n) \/ Grow(n) \/ Reinit(n)
  \/ \E off \in Offsets : SeekBy(off)
  \/ ShrinkToFit \/ Clone \/ Swap \/ Release \/ TakeOwnership \/ Load

Spec == Init /\ [][Next]_vars

-----------------------------------------------------------------------------
(* Properties.                                                              *)

\* m_beg <= m_pos <= m_end, and NULL has no bytes.
TypeOK ==
  /\ kind \in Kinds
  /\ \A o \in {1, 2} :
       /\ obj[o].mem \in Seq(Int) /\ Size(obj[o]) <= MaxSize
       /\ obj[o].pos \in 0..Size(obj[o])
       /\ obj[o].block \in Blocks \cup {0}
       /\ (obj[o].block = 0 /\ (o = 2 \/ kind = "grown")) => obj[o].mem = <<>>
  /\ heap \subseteq Blocks
  /\ written \in 0..MaxWritten

\* Every allocated block has exactly one owner, nothing else is owned: no leak,
\* no block freed twice, no pointer to a freed one, on any path, whichever
\* allocation failed.
Owned ==
  LET blocks == <<obj[1].block, obj[2].block, loose.block>>
  IN  /\ heap = {blocks[i] : i \in 1..3} \ {0}
      /\ \A i, j \in 1..3 : i # j /\ blocks[i] # 0 => blocks[i] # blocks[j]

\* A call that throws leaves the position of both objects and the bytes before it
\* as they were, but for two calls, and in the object they are called on: init
\* gives its memory up before it fails to have new memory, and a load that got its
\* size and then meets the end of the stream has overwritten the bytes, so that it
\* keeps the position alone.  A load that is refused its size keeps all.
BytesKept(o) == SubSeq(obj'[o].mem, 1, obj[o].pos) = SubSeq(obj[o].mem, 1, obj[o].pos)

FailureKeeps ==
  [][call'.exc # "none" =>
       \A o \in {1, 2} :
          \/ call'.op = "init" /\ o = call'.obj
          \/ /\ obj'[o].pos = obj[o].pos
             /\ \/ call'.op = "load" /\ call'.exc = "eof" /\ o = call'.obj
                \/ BytesKept(o)]_vars

\* However the memory grows, shrinks and changes hands, the objects are growing
\* files: reads find what was written last.
File == INSTANCE GrowingFile
          WITH content <- [o \in {1, 2} |-> obj[o].mem],
               position <- [o \in {1, 2} |-> obj[o].pos]
IsFile == File!Spec
===============================================================================
