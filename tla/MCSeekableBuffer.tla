--------------------------- MODULE MCSeekableBuffer ---------------------------
(* Small instances of SeekableBuffer. *)
EXTENDS SeekableBuffer

BackAndForth == {-2, 1}
===============================================================================
