-------------------------------- MODULE VarInt --------------------------------
(***************************************************************************)
(* The integers of variable length (var_int.hpp, var_int_inline.hpp,       *)
(* var_int.cpp) as the streams read and write them (var_int_io.hpp), with  *)
(* strings and differences (int_diff_coding.hpp) on top of them.           *)
(*                                                                         *)
(* A machine word is the set of the numbers of its 1 bits, so the widths   *)
(* are the real ones and a shift that leaves the word drops bits.  A byte  *)
(* is such a set too; bit 7 says that another byte follows.                *)
(*                                                                         *)
(* A writer appends values to a stream; the stream may then be cut; a      *)
(* reader takes the values out from the start, another one backwards from  *)
(* the end.  Both have two paths for a value, a fast one inside the buffer *)
(* when enough bytes remain there, and a slow one byte by byte.            *)
(***************************************************************************)
EXTENDS Integers, Sequences, FiniteSets, FiniteSetsExt

CONSTANTS
  Codes,      \* what the writer writes: see Width
  Words,      \* the words written
  Strings,    \* the strings written
  MaxValues,  \* bound on the values in a stream
  Careful     \* do the readers keep to the rules MayReadSlowly, MayGoBack?

Width(c) == IF c \in {"uint64", "int64", "uint61", "int61"} THEN 64 ELSE 32

PrefixCodes == {"uint30", "int30", "uint61", "int61"}
SignedCodes == {"int32", "int64", "int30", "int61"}
GroupCodes  == {"uint32", "uint64", "int32", "int64"}
AllCodes    == PrefixCodes \cup GroupCodes \cup {"string", "first", "diff"}

ASSUME CodesAssumption == Codes \subseteq AllCodes
ASSUME WordsAssumption == \A x \in Words : x \subseteq 0..63
\* Lengths fit in TLC's integers.
Longest == 2147483647
ASSUME StringsAssumption ==
  \A s \in Strings : s \in Seq(SUBSET (0..7)) /\ Len(s) <= Longest
ASSUME BoundsAssumption == MaxValues \in Nat /\ Careful \in BOOLEAN

VARIABLES
  values,   \* what was written: [code, value]
  ends,     \* the length of the stream after each of them
  bytes,    \* the stream
  cut,      \* the stream lost its end
  encCur,   \* EncodeIntDiff::m_cur
  decCur,   \* DecodeIntDiff::m_cur
  rpos,     \* the reader's offset
  got,      \* what it has read, as values
  err,      \* the exception that ended its reading
  cur,      \* the backward reader's offset: cur - buf + 1
  gotBack   \* what it has read, last value first

vars == <<values, ends, bytes, cut, encCur, decCur, rpos, got, err, cur, gotBack>>

-----------------------------------------------------------------------------
(* Words.                                                                   *)

Least(a, b) == IF a <= b THEN a ELSE b

Bits(w) == 0..(w - 1)
Shl(x, n, w) == {b + n : b \in x} \cap Bits(w)
Shr(x, n) == {b - n : b \in {c \in x : c >= n}}

\* n shifted right by 0, 1, .. 31 bits; n is below 2^31.
Halved(n) ==
  LET half[b \in 0..31] == IF b = 0 THEN n ELSE half[b - 1] \div 2 IN half
Word(n) == LET half == Halved(n) IN {b \in 0..30 : half[b] % 2 = 1}
\* The number that the i highest bits of a word make.
Highest(x) ==
  LET high[i \in 0..32] ==
        IF i = 0 THEN 0 ELSE 2 * high[i - 1] + (IF 32 - i \in x THEN 1 ELSE 0)
  IN  high
Number(x) == Highest(x)[32]

\* -x: all bits above the lowest 1 change.
Neg(x, w) == {b \in Bits(w) : b \in x <=> ~\E c \in 0..(b - 1) : c \in x}

\* Is there a carry into a bit of x + y?
Carry(x, y, w) ==
  LET carry[i \in 0..w] ==
        i > 0 /\ LET b == i - 1
                 IN  \/ b \in x /\ b \in y
                     \/ (b \in x \/ b \in y) /\ carry[b]
  IN  carry
\* x + y: a bit is 1 where an odd number of x, y and the carry is.
Add(x, y, w) ==
  LET carry == Carry(x, y, w)
  IN  {b \in Bits(w) : (b \in x <=> b \in y) <=> carry[b]}

\* var_int_s2u: the sign goes to bit 0; the minimum, which has no magnitude in
\* the word, takes the code of -0.
S2U(x, w) ==
  IF w - 1 \notin x THEN Shl(x, 1, w)
  ELSE IF x = {w - 1} THEN {0}
  ELSE Shl(Neg(x, w), 1, w) \cup {0}

\* var_int_u2s.
U2S(u, w) ==
  IF 0 \notin u THEN Shr(u, 1)
  ELSE IF Shr(u, 1) = {} THEN {w - 1}
  ELSE Neg(Shr(u, 1), w)

-----------------------------------------------------------------------------
(* Saving.                                                                  *)

Groups(x) == IF x = {} THEN 1 ELSE Max(x) \div 7 + 1

\* gg_save_var_uint: seven bits a byte, the low ones first.
SaveGroups(x) ==
  [i \in 1..Groups(x) |->
     (Shr(x, 7 * (i - 1)) \cap 0..6) \cup (IF i < Groups(x) THEN {7} ELSE {})]

\* gg_save_var_uint30 (tag 2) and gg_save_var_uint61 (tag 3): the low bits of
\* the first byte say how many bytes follow.
SavePrefix(x, tag, w) ==
  LET y == Shl(x, tag, w)
      more == IF y = {} THEN 0 ELSE Max(y) \div 8
  IN  [i \in 1..(more + 1) |->
         (Shr(y, 8 * (i - 1)) \cap 0..7) \cup (IF i = 1 THEN Word(more) ELSE {})]

-----------------------------------------------------------------------------
(* Loading.  b is what is left of the stream.                               *)

Loaded(v, n, e) == [value |-> v, used |-> n, exc |-> e]

MaxGroups(w) == IF w = 32 THEN 5 ELSE 10

GroupValue(b, n, w) == UNION {Shl(b[i] \ {7}, 7 * (i - 1), w) : i \in 1..n}

\* Mutant: the loop ends before the last group.
LoadGroupsSlowShort(b, w) ==
  LET last == {i \in 1..Least(MaxGroups(w) - 1, Len(b)) : 7 \notin b[i]}
  IN  IF last # {} THEN Loaded(GroupValue(b, Min(last), w), Min(last), "none")
      ELSE IF Len(b) < MaxGroups(w) - 1 THEN Loaded({}, Len(b), "eof")
      ELSE Loaded({}, MaxGroups(w) - 1, "too long")

\* gg_load_var_uint_slow.
LoadGroupsSlow(b, w) ==
  LET last == {i \in 1..Least(MaxGroups(w), Len(b)) : 7 \notin b[i]}
  IN  IF last # {} THEN Loaded(GroupValue(b, Min(last), w), Min(last), "none")
      ELSE IF Len(b) < MaxGroups(w) THEN Loaded({}, Len(b), "eof")
      ELSE Loaded({}, MaxGroups(w), "too long")

\* gg_load_var_uint: *endp is not set when it throws.
LoadGroups(b, w) ==
  LET g == LoadGroupsSlow(b, w)
  IN  IF g.exc = "none" THEN g ELSE Loaded({}, 0, g.exc)

PrefixLength(b, tag) == Number(b[1] \cap Bits(tag)) + 1

\* Mutant: the bytes of the next value are not masked.
LoadPrefixUnmasked(b, tag, w) ==
  Loaded(Shr(UNION {Shl(b[i], 8 * (i - 1), w) : i \in 1..(w \div 8)}, tag),
         PrefixLength(b, tag), "none")

\* gg_load_var_uint30 and gg_load_var_uint61: a whole word is loaded, and what
\* does not belong to the value is masked.
LoadPrefix(b, tag, w) ==
  LET n == PrefixLength(b, tag)
      x == UNION {Shl(b[i], 8 * (i - 1), w) : i \in 1..(w \div 8)}
  IN  Loaded(Shr(x \cap Bits(8 * n), tag), n, "none")

\* gg_load_var_uint30_slow and gg_load_var_uint61_slow: the first byte after
\* the tag is shifted by all that follow.
LoadPrefixSlow(b, tag, w) ==
  IF b = <<>> THEN Loaded({}, 0, "eof")
  ELSE LET n == PrefixLength(b, tag)
           y == UNION {Shl(b[i], 8 * (n - i), w) : i \in 2..n}
       IN  IF Len(b) < n THEN Loaded({}, Len(b), "eof")
           ELSE Loaded(Shr(b[1] \cup Shl(y, 8, w), tag), n, "none")

\* Mutant: the 32-bit one stops after three more bytes.
ReverseGetShort(b, w) ==
  LET starts == {p \in 1..Len(b) :
                   /\ \A i \in p..(Len(b) - 1) : 7 \in b[i]
                   /\ Len(b) - p <= IF w = 64 THEN 8 ELSE 3}
      p == Min(starts)
  IN  Loaded(UNION {Shl(IF i = Len(b) THEN b[i] ELSE b[i] \ {7}, 7 * (i - p), w) :
                      i \in p..Len(b)},
             Len(b) - p + 1, "none")

\* reverse_get_var_uint32 and reverse_get_var_uint64 of the bytes b, all that
\* precede the cursor; the 64-bit one looks at eight more bytes at most.
ReverseGet(b, w) ==
  LET starts == {p \in 1..Len(b) :
                   /\ \A i \in p..(Len(b) - 1) : 7 \in b[i]
                   /\ w = 64 => Len(b) - p <= 8}
      p == Min(starts)
  IN  Loaded(UNION {Shl(IF i = Len(b) THEN b[i] ELSE b[i] \ {7}, 7 * (i - p), w) :
                      i \in p..Len(b)},
             Len(b) - p + 1, "none")

-----------------------------------------------------------------------------
(* The codes.                                                               *)

Tag(c) == IF Width(c) = 32 THEN 2 ELSE 3
Carrier(c, x) == IF c \in SignedCodes THEN S2U(x, Width(c)) ELSE x
Original(c, x) == IF c \in SignedCodes THEN U2S(x, Width(c)) ELSE x

\* buf_remain_bytes() has to be this much for the fast paths of the reader (a
\* difference is read with 64 bits) and of the writer.
Room(c) ==
  CASE c \in PrefixCodes -> Width(c) \div 8
    [] c \in {"first", "diff"} -> MaxGroups(64)
    [] OTHER -> MaxGroups(Width(c))

\* Mutant: no room for the tenth byte.
RoomToWriteTight(c) ==
  IF c \in PrefixCodes THEN Width(c) \div 8 ELSE IF Width(c) = 32 THEN 5 ELSE 9

RoomToWrite(c) == IF c \in PrefixCodes THEN Width(c) \div 8 ELSE MaxGroups(Width(c))

\* EncodeIntDiff::operator(): next - m_cur, as a var_uint32_t.
Difference(next) == Add(next, Neg(encCur, 32), 32)

\* write_var_*, write_string, EncodeIntDiff::init and operator().
Encode(c, v) ==
  CASE c \in PrefixCodes -> SavePrefix(Carrier(c, v), Tag(c), Width(c))
    [] c \in GroupCodes -> SaveGroups(Carrier(c, v))
    [] c = "string" -> SaveGroups(Word(Len(v))) \o v
    [] c = "first" -> SaveGroups(v)
    [] c = "diff" -> SaveGroups(Difference(v))

\* DataIO_loadObject of DecodeIntDiff: m_cur += diff.
DecodeDiff(x) == Add(decCur, x \cap Bits(32), 32)

\* read_string: the length by either path, then ensureRead of so many bytes
\* (what that consumes when it fails is the stream's affair).
LoadString(b, size) ==
  LET n == Number(size.value)
  IN  IF size.exc # "none" THEN size
      ELSE IF Len(b) < size.used + n
      THEN Loaded({}, size.used, "eof")
      ELSE Loaded(SubSeq(b, size.used + 1, size.used + n), size.used + n, "none")

\* read_var_*, read_string and the two of DecodeIntDiff, which read 64 bits.
Decode(c, b, fast) ==
  LET groups(w) == IF fast THEN LoadGroups(b, w) ELSE LoadGroupsSlow(b, w)
      prefix == IF fast THEN LoadPrefix(b, Tag(c), Width(c))
                        ELSE LoadPrefixSlow(b, Tag(c), Width(c))
      g == CASE c \in PrefixCodes -> prefix
             [] c \in GroupCodes -> groups(Width(c))
             [] c \in {"first", "diff"} -> groups(64)
             [] c = "string" -> LoadString(b, groups(32))
  IN  IF g.exc # "none" THEN g
      ELSE CASE c = "diff" -> [g EXCEPT !.value = DecodeDiff(@)]
             [] c = "first" -> [g EXCEPT !.value = @ \cap Bits(32)]
             [] OTHER -> [g EXCEPT !.value = Original(c, @)]

\* The values of a code: the words of its width, and for the signed ones their
\* negations.  A prefix code has no room for all of them.
Values(c) ==
  LET w == Width(c)
      plain == {x \in Words : x \subseteq Bits(w)}
      signed == plain \cup {Neg(x, w) : x \in plain}
  IN  CASE c = "string" -> Strings
        [] c \in {"first", "diff"} -> plain
        [] c \in PrefixCodes -> {x \in (IF c \in SignedCodes THEN signed ELSE plain) :
                                   Carrier(c, x) \subseteq Bits(w - Tag(c))}
        [] c \in GroupCodes -> IF c \in SignedCodes THEN signed ELSE plain

-----------------------------------------------------------------------------
Init ==
  /\ values = <<>> /\ ends = <<>> /\ bytes = <<>> /\ cut = FALSE
  /\ encCur = {} /\ decCur = {}
  /\ rpos = 0 /\ got = <<>> /\ err = "none"
  /\ cur = 0 /\ gotBack = <<>>

Left == SubSeq(bytes, rpos + 1, Len(bytes))

Reading == rpos > 0 \/ err # "none" \/ gotBack # <<>>

\* Both paths of the writer leave the same bytes; they differ in where room is
\* looked for.  A difference follows a first value.
Write(c, v) ==
  /\ Len(values) < MaxValues /\ ~cut /\ ~Reading
  /\ c = "diff" => \E i \in 1..Len(values) : values[i].code = "first"
  /\ c = "first" => \A i \in 1..Len(values) : values[i].code # "first"
  /\ values' = Append(values, [code |-> c, value |-> v])
  /\ bytes' = bytes \o Encode(c, v)
  /\ ends' = Append(ends, Len(bytes'))
  /\ cur' = Len(bytes')
  /\ encCur' = IF c \in {"first", "diff"} THEN v ELSE encCur
  /\ UNCHANGED <<cut, decCur, rpos, got, err, gotBack>>

\* The stream loses its last n bytes before it is read.
Cut(n) ==
  /\ ~cut /\ ~Reading /\ n \in 1..Len(bytes)
  /\ cut' = TRUE
  /\ bytes' = SubSeq(bytes, 1, Len(bytes) - n)
  /\ cur' = Len(bytes')
  /\ UNCHANGED <<values, ends, encCur, decCur, rpos, got, err, gotBack>>

\* The slow path turns the bytes of a prefix code around: a careful reader
\* takes it only where there is but one of them.
MayReadSlowly(c) ==
  IF c \in PrefixCodes /\ Left # <<>> THEN PrefixLength(Left, Tag(c)) <= 2 ELSE TRUE

\* The reader takes the fast path if enough bytes remain in its buffer, which
\* holds any part of what is left of the stream.
Read(fast) ==
  /\ err = "none" /\ Len(got) < Len(values)
  /\ LET c == values[Len(got) + 1].code
         g == Decode(c, Left, fast)
     IN  /\ IF fast THEN Len(Left) >= Room(c)
            ELSE Careful => MayReadSlowly(c)
         /\ rpos' = rpos + g.used
         /\ err' = g.exc
         /\ got' = IF g.exc = "none" THEN Append(got, g.value) ELSE got
         /\ decCur' = IF g.exc = "none" /\ c \in {"first", "diff"} THEN g.value ELSE decCur
  /\ UNCHANGED <<values, ends, bytes, cut, encCur, cur, gotBack>>

\* Backwards only through groups of seven bits, up to nine of them.
MayGoBack ==
  /\ \A i \in 1..Len(values) : values[i].code \in GroupCodes
  /\ Careful => \A i \in 1..Len(values) : Groups(Carrier(values[i].code, values[i].value)) <= 9

\* reverse_get_var_uint32 and its three siblings.
ReadBack ==
  /\ ~cut /\ cur > 0 /\ Len(gotBack) < Len(values) /\ MayGoBack
  /\ LET c == values[Len(values) - Len(gotBack)].code
         g == ReverseGet(SubSeq(bytes, 1, cur), Width(c))
     IN  /\ cur' = cur - g.used
         /\ gotBack' = Append(gotBack, Original(c, g.value))
  /\ UNCHANGED <<values, ends, bytes, cut, encCur, decCur, rpos, got, err>>

Next ==
  \/ \E c \in Codes : \E v \in Values(c) : Write(c, v)
  \/ \E n \in 1..Len(bytes) : Cut(n)
  \/ \E fast \in BOOLEAN : Read(fast)
  \/ ReadBack

Spec == Init /\ [][Next]_vars
-----------------------------------------------------------------------------
(* Properties.                                                              *)

EndOf(n) == IF n = 0 THEN 0 ELSE ends[n]

\* The reader gets the values that were written, in order, and stands where
\* each ended, by whatever path it reads each of them, with whatever values
\* behind them in the stream, also when the stream was cut.
RoundTrip ==
  /\ \A i \in 1..Len(got) : got[i] = values[i].value
  /\ err = "none" => rpos = EndOf(Len(got))

\* Only a value that lost its end raises an exception, and that is an
\* EndOfFileException; no value is too long.
ErrorsMeanCut ==
  err # "none" => err = "eof" /\ cut /\ Len(bytes) < ends[Len(got) + 1]

\* Read backwards, the values are the ones written, last first, and the cursor
\* stands at the end of the one before.
Backward ==
  LET n == Len(values)
  IN  /\ \A i \in 1..Len(gotBack) : gotBack[i] = values[n + 1 - i].value
      /\ ~cut => cur = EndOf(n - Len(gotBack))

\* What the fast paths write and read without looking at the end of the buffer
\* is in the room they asked for (the assertions after gg_save_*).
FitsRoom ==
  \A i \in 1..Len(values) :
     values[i].code # "string" => ends[i] - EndOf(i - 1) <= RoomToWrite(values[i].code)
===============================================================================
