------------------------------- MODULE BytePipe -------------------------------
(***************************************************************************)
(* What a buffer in front of a stream promises: the bytes that left it are *)
(* the first of the bytes that entered it, in their order, none twice and  *)
(* none left out.  How many are inside, and when they move on, is the      *)
(* buffer's own business.                                                  *)
(***************************************************************************)
EXTENDS Naturals, Sequences

VARIABLES
  entered,   \* the bytes that went in, in order
  left       \* the bytes that came out, in order

vars == <<entered, left>>

Extends(t, s) == Len(s) <= Len(t) /\ \A i \in 1..Len(s) : t[i] = s[i]

Init == entered = <<>> /\ left = <<>>

\* Any number of bytes goes in, any number of those inside comes out.
Move ==
  /\ Extends(entered', entered)
  /\ Extends(left', left)
  /\ Extends(entered', left')

Spec == Init /\ [][Move]_vars
===============================================================================
