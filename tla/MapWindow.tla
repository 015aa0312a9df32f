------------------------------- MODULE MapWindow -------------------------------
(***************************************************************************)
(* The window of MemMapStream and of ZcMemMap, whose sources have it word  *)
(* for word: a piece of a file mapped into memory, and remapped elsewhere  *)
(* when the position leaves it.  The mapping is shared, so that its bytes  *)
(* are the file's bytes.                                                   *)
(*                                                                         *)
(* A window and the file behind it are a record:                           *)
(*   file       the bytes of the file                                      *)
(*   open       m_hFile # -1                                               *)
(*   writable   m_mode & O_RDWR                                            *)
(*   size       m_file_size                                                *)
(*   base       m_file_pos, the offset of the window in the file           *)
(*   pos, len   m_pos - m_beg, m_end - m_beg                               *)
(*   mapped     something is mapped at m_beg                               *)
(*   faults     how often open, ftruncate and mmap may still fail          *)
(*   lost       something is mapped that no pointer leads to any more      *)
(***************************************************************************)
EXTENDS FileBytes

CONSTANTS
  Page,     \* m_page_size and m_AllocationGranularity
  Block     \* m_best_block_size

ASSUME PageAssumption  == Page \in Nat \ {0}
ASSUME BlockAssumption == Block \in Nat \ {0} /\ Block % Page = 0

Least(a, b) == IF a <= b THEN a ELSE b
Greatest(a, b) == IF a <= b THEN b ELSE a

\* External: align_down and align_up of the library the sources include.
AlignDown(x, a) == x - (x % a)
AlignUp(x, a) == AlignDown(x + a - 1, a)

Fine(t) == {[w |-> t, exc |-> "none"]}
Thrown(t, e) == {[w |-> t, exc |-> e]}
\* A system call fails.
Maybe(t, fails(_)) == IF t.faults > 0 THEN fails([t EXCEPT !.faults = @ - 1]) ELSE {}

\* What follows a call that may throw.
Then(outcomes, next(_)) ==
  UNION {IF o.exc = "none" THEN next(o.w) ELSE {o} : o \in outcomes}

-----------------------------------------------------------------------------
\* init().
Fresh(t) == [t EXCEPT !.open = FALSE, !.size = 0, !.base = 0, !.pos = 0, !.len = 0,
                      !.mapped = FALSE]

\* cleanup_and_throw(): the file is closed; what is mapped stays mapped.
CleanupAndThrow(t) == Thrown([Fresh(t) EXCEPT !.lost = t.lost \/ t.mapped], "io")

\* Mutant: what is mapped is not unmapped.
ClosedMapped(t) == [Fresh(t) EXCEPT !.lost = t.lost \/ t.mapped]

\* close().
Closed(t) == Fresh(t)

\* External: the bytes of a file after ftruncate.
Truncated(f, n) == [i \in 1..n |-> IF i <= Len(f) THEN f[i] ELSE Zero]

SetFsize(t, n) ==
  Fine([t EXCEPT !.file = Truncated(t.file, n), !.size = n])
  \cup Maybe(t, CleanupAndThrow)

\* open().  init() comes first, and forgets what was open and mapped before.
Opened(t, rw, trunc, n) ==
  LET i == [Fresh(t) EXCEPT !.lost = t.lost \/ t.mapped, !.writable = rw]
      o == [i EXCEPT !.open = TRUE, !.file = IF trunc THEN <<>> ELSE @, !.size = n]
      known(u) == Fine([u EXCEPT !.size = Len(u.file)])
  IN  (IF trunc THEN Then(SetFsize(o, n), known) ELSE known(o))
      \cup Maybe(i, CleanupAndThrow)

-----------------------------------------------------------------------------
\* remap_impl().  External: mmap of no bytes fails.
RemapImpl(t, fpos, n) ==
  LET u == [t EXCEPT !.mapped = FALSE]
      map(v) == (IF n > 0 THEN Fine([v EXCEPT !.mapped = TRUE]) ELSE {})
                \cup (IF n = 0 THEN Thrown(v, "unmapped") ELSE {})
                \cup Maybe(v, LAMBDA x : Thrown(x, "unmapped"))
  IN  IF t.writable /\ t.size < fpos + n THEN Then(SetFsize(u, fpos + n), map)
      ELSE map(u)

\* Mutant: at the end of a file that is only read the window is empty.
RemapEmpty(t, fpos, n) ==
  LET most == IF ~t.writable /\ fpos + n > t.size THEN t.size - fpos ELSE n
      size == AlignUp(most, Page)
  IN  IF ~t.writable /\ t.size <= fpos THEN Fine([t EXCEPT !.base = fpos, !.pos = 0, !.len = 0])
      ELSE UNION {CASE o.exc = "none" ->
                         Fine([o.w EXCEPT !.base = fpos, !.pos = 0,
                                          !.len = Least(size, o.w.size - fpos)])
                    [] o.exc = "unmapped" -> CleanupAndThrow(o.w)
                    [] OTHER -> {o} : o \in RemapImpl(t, fpos, size)}

\* try_remap() and remap().
Remap(t, fpos, n) ==
  LET most == IF ~t.writable /\ fpos + n > t.size THEN t.size - fpos ELSE n
      size == AlignUp(most, Page)
  IN  IF ~t.writable /\ t.size <= fpos THEN Thrown(t, "eof")
      ELSE UNION {CASE o.exc = "none" ->
                         Fine([o.w EXCEPT !.base = fpos, !.pos = 0,
                                          !.len = Least(size, o.w.size - fpos)])
                    [] o.exc = "unmapped" -> CleanupAndThrow(o.w)
                    [] OTHER -> {o} : o \in RemapImpl(t, fpos, size)}

TellOf(t) == t.base + t.pos

\* Mutant: m_pos stays at the start of the page.
UnalignedRemapAtStart(t, fpos, n) ==
  LET want == Greatest(Block, n)
      most == IF t.writable THEN want ELSE Least(want, t.size - TellOf(t))
  IN  Remap(t, AlignDown(fpos, Page), most)

\* unaligned_remap().
UnalignedRemap(t, fpos, n) ==
  LET down == AlignDown(fpos, Page)
      off  == fpos - down
      want == Greatest(Block, off + n)
      most == IF t.writable THEN want ELSE Least(want, t.size - TellOf(t))
  IN  Then(Remap(t, down, most), LAMBDA u : Fine([u EXCEPT !.pos = off]))

-----------------------------------------------------------------------------
\* Mutant: the end of the window is not in the window.
SeekToPast(t, p) ==
  IF t.base <= p /\ p <= t.base + t.len + 1 THEN Fine([t EXCEPT !.pos = p - t.base])
  ELSE Remap(t, AlignDown(p, Block), Block)

\* seek(pos).
SeekTo(t, p) ==
  LET beg == AlignDown(p, Block)
  IN  IF t.base <= p /\ p <= t.base + t.len
      THEN Fine([t EXCEPT !.pos = p - t.base])
      ELSE IF ~t.writable /\ p > t.size THEN Thrown(t, "io")
      ELSE Then(Remap(t, beg, Block), LAMBDA u : Fine([u EXCEPT !.pos = p - beg]))
===============================================================================
