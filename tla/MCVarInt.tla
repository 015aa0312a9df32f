-------------------------------- MODULE MCVarInt --------------------------------
(* Small instances of VarInt. *)
EXTENDS VarInt

CONSTANT Tops   \* the bits that lead the words written

\* Nothing, a leading bit alone, and one with all bits below it.
LedByTops == {{}} \cup {{t} : t \in Tops} \cup {0..t : t \in Tops}

\* Empty, and with bytes that look like the start and the end of a number.
ShortStrings == {<<>>, <<{7}>>, <<0..7, {}>>}
===============================================================================
