------------------------------ MODULE GrowingFile ------------------------------
(***************************************************************************)
(* What a memory stream promises its client: some bytes and a position in  *)
(* them.  Its memory may grow while it writes; what it grows by is Junk.   *)
(* call is the interface: the last call, its object and what it returned.  *)
(***************************************************************************)
EXTENDS FileBytes

VARIABLES
  content,    \* of every object, the bytes in [0, size())
  position,   \* of every object, the offset of the next byte
  call        \* [op, obj, bytes, at, exc] of the last call

vars == <<content, position, call>>

Objects == DOMAIN content

Init == \A o \in Objects : position[o] = 0

Succeeds(ops) == call'.op \in ops /\ call'.exc = "none"
Moves(o, c, p) ==
  /\ content' = [content EXCEPT ![o] = c]
  /\ position' = [position EXCEPT ![o] = p]

\* new has the bytes of old outside the offsets from first to last.
Keeps(old, new, first, last) ==
  /\ Len(new) >= Len(old)
  /\ \A i \in DOMAIN old : i <= first \/ i > last => new[i] = old[i]

Kept(f, n) == SubSeq(f, 1, n)
At(f, p, n) == SubSeq(f, p + 1, p + n)

\* A read returns the bytes at the position.
Read(o) ==
  /\ Succeeds({"read"})
  /\ position[o] + Len(call'.bytes) <= Len(content[o])
  /\ call'.bytes = At(content[o], position[o], Len(call'.bytes))
  /\ Moves(o, content[o], position[o] + Len(call'.bytes))

\* What is written is there, and so is everything else that was there; behind
\* what is printed there is a '\0'.
Write(o) ==
  /\ Succeeds({"write", "print"})
  /\ LET new == content'[o]
         len == Len(call'.bytes)
         last == position[o] + len
         printed == call'.op = "print"
     IN  /\ At(new, position[o], len) = call'.bytes
         /\ printed => new[last + 1] = Zero
         /\ Keeps(content[o], new, position[o], IF printed THEN last + 1 ELSE last)
         /\ Moves(o, new, last)

Seek(o) ==
  /\ Succeeds({"seek"})
  /\ Moves(o, content[o], call'.at)

\* Resizing keeps what fits, and the position.
Resize(o) ==
  /\ Succeeds({"resize"})
  /\ LET new == content'[o]
         fits == IF call'.at <= Len(content[o]) THEN call'.at ELSE Len(content[o])
     IN  /\ position[o] <= Len(new) /\ Len(new) = call'.at
         /\ Kept(new, fits) = Kept(content[o], fits)
         /\ Moves(o, new, position[o])

\* Shrinking keeps what is before the position.
Shrink(o) ==
  /\ Succeeds({"shrink"})
  /\ Moves(o, Kept(content[o], position[o]), position[o])

\* init and release forget what there was, init also when it fails.
Empty(o) ==
  /\ call'.op \in {"init", "release"}
  /\ Len(content'[o]) = IF call'.exc = "none" THEN call'.at ELSE 0
  /\ Moves(o, content'[o], 0)

\* The bytes of a block that is taken over come from outside.
Take(o) == Succeeds({"take"}) /\ Moves(o, call'.bytes, 0)

\* Saving one object and loading it in another gives the other the bytes before
\* the position of the first, and leaves its position.
Load(o) ==
  /\ Succeeds({"load"})
  /\ \E p \in Objects \ {o} : Moves(o, Kept(content[p], position[p]), position[o])

Clone(o) ==
  /\ Succeeds({"clone"})
  /\ \E p \in Objects \ {o} : Moves(o, content[p], 0)

Swap(o) ==
  /\ Succeeds({"swap"})
  /\ \E p \in Objects \ {o} :
        /\ content' = [content EXCEPT ![o] = content[p], ![p] = content[o]]
        /\ position' = [position EXCEPT ![o] = position[p], ![p] = position[o]]

\* A call that fails moves nothing.  It may have grown the memory, and begun to
\* write behind the position (from_input, printf) or everywhere (load).
Fail(o) ==
  /\ call'.exc # "none" /\ call'.op # "init"
  /\ \/ UNCHANGED <<content, position>>
     \/ /\ call'.op \in {"write", "print"}
        /\ Keeps(Kept(content[o], position[o]), content'[o], 0, 0)
        /\ Len(content'[o]) >= Len(content[o])
        /\ Moves(o, content'[o], position[o])
     \/ call'.op = "load" /\ Moves(o, content'[o], position[o])

Next == \E o \in Objects :
  /\ call'.obj = o
  /\ \/ Read(o) \/ Write(o) \/ Seek(o) \/ Resize(o) \/ Shrink(o)
     \/ Empty(o) \/ Take(o) \/ Load(o) \/ Clone(o) \/ Swap(o) \/ Fail(o)

Spec == Init /\ [][Next]_vars
===============================================================================
