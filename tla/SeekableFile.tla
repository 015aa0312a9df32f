----------------------------- MODULE SeekableFile -----------------------------
(***************************************************************************)
(* What a seekable stream promises its client: one sequence of bytes and   *)
(* one position in it.  A read returns the bytes at the position, a write  *)
(* replaces or appends there, a seek goes where it was told, tell, size    *)
(* and eof tell the truth.  call is the interface: the last call and what  *)
(* it returned.                                                            *)
(***************************************************************************)
EXTENDS FileBytes

VARIABLES
  content,    \* the bytes
  position,   \* the offset of the next byte to be read or written
  call        \* [op, len, bytes, at, exc] of the last call

vars == <<content, position, call>>

Left == Len(content) - position

Init == position = 0

\* Fewer bytes than asked are returned only with the last byte.
Read ==
  /\ call'.op = "read" /\ call'.exc = "none"
  /\ \E k \in 0..call'.len :
        /\ k <= Left \/ k = 0
        /\ k < call'.len => k = Left
        /\ call'.bytes = SubSeq(content, position + 1, position + k)
        /\ position' = position + k
  /\ UNCHANGED content

\* The end was met: nothing is returned, and what was left may be gone.
ReadEnd ==
  /\ call'.op = "read" /\ call'.exc = "eof"
  /\ Left < call'.len
  /\ position' = position \/ (Left > 0 /\ position' = Len(content))
  /\ UNCHANGED content

Write ==
  /\ call'.op = "write"
  /\ content' = Overlay(content, position, call'.bytes)
  /\ position' = position + Len(call'.bytes)

Seek ==
  /\ call'.op = "seek"
  /\ position' = call'.at
  /\ UNCHANGED content

Tell ==
  /\ call'.op = "tell" /\ call'.at = position
  /\ UNCHANGED <<content, position>>

Size ==
  /\ call'.op = "size" /\ call'.at = Len(content)
  /\ UNCHANGED <<content, position>>

Eof ==
  /\ call'.op = "eof" /\ call'.at = IF Left > 0 THEN 0 ELSE 1
  /\ UNCHANGED <<content, position>>

\* Flushing shows nothing, closing keeps the bytes.
Flush ==
  /\ call'.op = "flush"
  /\ UNCHANGED <<content, position>>

Close ==
  /\ call'.op = "close"
  /\ UNCHANGED content

Next == Read \/ ReadEnd \/ Write \/ Seek \/ Tell \/ Size \/ Eof \/ Flush \/ Close

Spec == Init /\ [][Next]_vars
===============================================================================
