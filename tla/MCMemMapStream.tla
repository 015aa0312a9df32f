---------------------------- MODULE MCMemMapStream ----------------------------
(* Small instances of MemMapStream. *)
EXTENDS MemMapStream

OneFile == {<<1, 2, 3>>}
OtherFiles == {<<>>, <<1, 2, 2>>, <<1, 2, 3, 4>>}
Backwards == {-2}
OneRegion == {[at |-> 1, n |-> 2]}
===============================================================================
