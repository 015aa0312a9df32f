----------------------------- MODULE MCFileStream -----------------------------
(* Small instances of FileStream. *)
EXTENDS FileStream

TwoTexts == {<<>>, <<1, 2, 3>>}
CopySources == TwoTexts \cup {<<1, 2>>}
===============================================================================
