-------------------------------- MODULE MCMemIO --------------------------------
(* Small instances of MemIO. *)
EXTENDS MemIO

BackAndForth == {-1}
===============================================================================
