------------------------------- MODULE FileBytes -------------------------------
(* Writing into a sequence of bytes, as files and memory do. *)
EXTENDS Integers, Sequences

\* What a hole in a file reads as, and memory nobody has set.
Zero == 0
Junk == -1

\* f after the bytes b were put at offset p, beyond its end behind a gap.
Put(f, p, b, gap) ==
  LET end == p + Len(b)
      new == IF end > Len(f) THEN end ELSE Len(f)
  IN  IF b = <<>> THEN f
      ELSE [i \in 1..new |-> IF i > p /\ i <= end THEN b[i - p]
                             ELSE IF i <= Len(f) THEN f[i] ELSE gap]

Overlay(f, p, b) == Put(f, p, b, Zero)
Store(m, p, b)   == Put(m, p, b, Junk)
===============================================================================
