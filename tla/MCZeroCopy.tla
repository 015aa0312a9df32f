------------------------------ MODULE MCZeroCopy ------------------------------
(* Small instances of ZeroCopy. *)
EXTENDS ZeroCopy

\* Every line end, also at the end of the stream and two in a row.
Texts == {<<"other", "cr", "lf", "other", "cr">>, <<"other", "lf", "cr", "cr", "other", "other">>}
===============================================================================
