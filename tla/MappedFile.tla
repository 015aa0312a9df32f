------------------------------ MODULE MappedFile ------------------------------
(***************************************************************************)
(* What a file opened with MemMapStream promises its client: the bytes,    *)
(* one position, and calls that happen at once.  A file that is written    *)
(* may be longer than what was written: zeros are appended by any call     *)
(* that maps it, reading included.  A call that throws "eof" may have moved *)
(* to the end; one that throws "io" has closed the file, unless it was a   *)
(* seek beyond the end of a file that is only read.                        *)
(***************************************************************************)
EXTENDS FileBytes

VARIABLES
  content,    \* the bytes
  position,   \* the offset of the next byte
  state,      \* "closed", "reading" or "writing"
  faulty,     \* may system calls fail?
  call        \* [op, len, bytes, at, exc] of the last call

vars == <<content, position, state, faulty, call>>

\* d is c, or c with zeros behind it.
Padded(c, d) ==
  /\ Len(d) >= Len(c)
  /\ \A i \in DOMAIN d : d[i] = IF i <= Len(c) THEN c[i] ELSE Zero

MayPad == IF state = "writing" THEN Padded(content, content') ELSE UNCHANGED content

Init == state = "closed" /\ position = 0

Open ==
  /\ call'.op = "open" /\ state = "closed"
  /\ \/ call'.exc = "none" /\ state' \in {"reading", "writing"} /\ position' = 0
     \/ call'.exc = "io" /\ faulty /\ UNCHANGED <<state, position>>
  /\ content' = content \/ \E n \in 0..call'.at : content' = [i \in 1..n |-> Zero]

\* All the bytes asked for, those of the file at the position.
Read ==
  /\ call'.op \in {"read", "skip"} /\ call'.exc = "none" /\ state # "closed"
  /\ MayPad
  /\ position' = position + call'.len /\ position' <= Len(content')
  /\ call'.op = "read" => call'.bytes = SubSeq(content', position + 1, position')
  /\ UNCHANGED state

\* The end of a file that is only read.
ReadEnd ==
  /\ call'.op \in {"read", "skip", "probe"} /\ state = "reading"
  /\ position + call'.len > Len(content)
  /\ \/ call'.exc = "eof" /\ position' \in {position, Len(content)} /\ UNCHANGED state
     \/ call'.exc = "io" /\ position' = 0 /\ state' = "closed"
  /\ UNCHANGED content

Write ==
  /\ call'.op = "write" /\ call'.exc = "none" /\ state = "writing"
  /\ Padded(Overlay(content, position, call'.bytes), content')
  /\ position' = position + Len(call'.bytes)
  /\ UNCHANGED state

Seek ==
  /\ call'.op = "seek" /\ state # "closed"
  /\ MayPad
  /\ \/ call'.exc = "none" /\ position' = call'.at
     \/ /\ call'.exc \in {"eof", "io"} /\ state = "reading" /\ call'.at >= Len(content)
        /\ UNCHANGED position
  /\ UNCHANGED state

\* What only looks: probe, tell with size and eof, compare, and reads of a mapped region.
Look ==
  /\ call'.exc = "none"
  /\ IF call'.op = "probe" THEN MayPad ELSE UNCHANGED content
  /\ CASE call'.op = "probe" -> TRUE
       [] call'.op = "ask" ->
            state # "closed" =>
              call'.bytes = <<position, Len(content), IF position = Len(content) THEN 1 ELSE 0>>
       [] call'.op = "peek" -> call'.bytes = SubSeq(content, call'.at + 1, call'.at + call'.len)
       [] call'.op = "compare" -> position' \in 0..Len(content)
       [] OTHER -> FALSE
  /\ UNCHANGED state
  /\ call'.op # "compare" => UNCHANGED position

\* A comparison that throws, as the other file or a piece of one of the two could
\* not be mapped, or one that an assertion ends, with the program: only the file is
\* left, and closed.
CompareThrows ==
  /\ call'.op = "compare" /\ state # "closed" /\ UNCHANGED content
  /\ \/ faulty /\ call'.exc \in {"nomap", "other"} /\ position' \in 0..Len(content) /\ UNCHANGED state
     \/ call'.exc = "abort" /\ position' = 0 /\ state' = "closed"

\* Regions mapped beside the window: a write shows in the file at once.
Region ==
  /\ \/ call'.op = "map" /\ call'.exc \in {"none"} \cup (IF faulty THEN {"nomap"} ELSE {}) /\ MayPad
     \/ call'.op = "unmap" /\ UNCHANGED content
     \/ call'.op = "poke" /\ content' = Overlay(content, call'.at, call'.bytes)
  /\ UNCHANGED <<position, state>>

SetSize ==
  /\ call'.op = "set_fsize" /\ call'.exc = "none" /\ state = "writing"
  /\ Len(content') = call'.at
  /\ \A i \in DOMAIN content' : content'[i] = IF i <= Len(content) THEN content[i] ELSE Zero
  /\ UNCHANGED <<position, state>>

Close ==
  /\ call'.op = "close" /\ state' = "closed" /\ position' = 0
  /\ UNCHANGED content

\* A system call failed: the file is closed, and keeps the bytes it had, with
\* those a write may already have put there.
Fail ==
  /\ faulty /\ call'.exc = "io" /\ call'.op \notin {"open", "close"} /\ state # "closed"
  /\ \/ MayPad
     \/ /\ call'.op = "write" /\ state = "writing"
        /\ \E k \in 0..Len(call'.bytes) :
              Padded(Overlay(content, position, SubSeq(call'.bytes, 1, k)), content')
  /\ position' = 0 /\ state' = "closed"

Next == Open \/ Read \/ ReadEnd \/ Write \/ Seek \/ Look \/ CompareThrows \/ Region \/ SetSize \/ Close \/ Fail

Spec == Init /\ [][Next]_vars
===============================================================================
