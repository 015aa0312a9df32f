------------------------------- MODULE DataTypes -------------------------------
(***************************************************************************)
(* The types the serialization knows, their layout in memory, and the      *)
(* rules by which the templates decide whether a value is copied as a      *)
(* piece of memory (DataIO_is_dump, DataIO_is_realdump) and whether its    *)
(* bytes are swapped (DataIO_need_bswap).                                  *)
(*                                                                         *)
(* A type is a name; Types maps it to a record [is, of, n, since]:         *)
(*   char, short, int   an integer of 1, 2, 4 bytes                        *)
(*   var32              var_uint32_t                                       *)
(*   pair, class, raw   of is the sequence of the members' types; a class  *)
(*                      is DATA_IO_LOAD_SAVE, with its members in the      *)
(*                      order of memory (check_member_order); raw is       *)
(*                      DATA_IO_DUMP_RAW_MEM                               *)
(*   array              n elements of the type of[1]                       *)
(*   vector, list, set  elements of the type of[1]; list is a deque too    *)
(*   map, entry         elements of the type of[1], an entry: the          *)
(*                      pair<const Key, Value>, which nothing copies       *)
(*   string, wstring    of characters of 1 and of 4 bytes                  *)
(*   tuple, ptr         boost::tuple; a smart pointer to a of[1]           *)
(*   versioned          DATA_IO_LOAD_SAVE_V; since[i] is the first version *)
(*                      with member i, 0 if it always was one              *)
(*   version            the member named in get_version                    *)
(*   base               the base class in base(this) (n = 0) and in        *)
(*                      base(this, n); of[1] is a versioned class          *)
(*   run                a count and elements, for a DataInputIterator      *)
(* Values are numbers, and sequences of the values of the parts; a set and *)
(* a map are in the order of their comparison.                             *)
(*                                                                         *)
(* A context c is a program that saves or loads: big, fixed (the format:   *)
(* Big/LittleEndian..., ...NoVarInt...), on (the machine is big endian),   *)
(* word (sizeof(var_size_t)), deduce (C++14 return type deduction),        *)
(* dumps (no NARK_DATA_IO_DISABLE_OPTIMIZE_DUMPABLE), ver (the version it  *)
(* gives its classes).                                                     *)
(***************************************************************************)
EXTENDS Integers, SequencesExt

CONSTANT Types

Kind(t) == Types[t].is
Parts(t) == Types[t].of
Elem(t) == Parts(t)[1]

\* An indeterminate byte.
Pad == 255

(* Layout *)

RoundUp(x, a) == x + ((-x) % a)

Width == [char |-> 1, short |-> 2, int |-> 4, var32 |-> 4]
Scalar(t) == Kind(t) \in DOMAIN Width
Members(t) == IF Kind(t) = "array" THEN [i \in 1..Types[t].n |-> Elem(t)] ELSE Parts(t)

AlignOf[t \in DOMAIN Types] ==
  IF Scalar(t) THEN Width[Kind(t)] ELSE Max({AlignOf[u] : u \in Range(Parts(t))})
\* The ends of members of the sizes given, laid out from offset 0.
Ends(size, of) ==
  LET end[i \in 0..Len(of)] ==
        IF i = 0 THEN 0 ELSE RoundUp(end[i - 1], AlignOf[of[i]]) + size[of[i]]
  IN  end
SizeOf[t \in DOMAIN Types] ==
  IF Scalar(t) THEN Width[Kind(t)]
  ELSE RoundUp(Ends(SizeOf, Members(t))[Len(Members(t))], AlignOf[t])
\* The bytes of member i in the bytes b of an object.
Slice(b, at, n) == SubSeq(b, at + 1, at + n)
Part(t, i, b) ==
  Slice(b, RoundUp(Ends(SizeOf, Members(t))[i - 1], AlignOf[Members(t)[i]]), SizeOf[Members(t)[i]])
\* b with the padding that brings it to a multiple of a.
Padded(b, a) == b \o [k \in 1..((-Len(b)) % a) |-> Pad]

\* The n bytes of a number; the ones models use are below 2^31.
Bytes(big, n, x) ==
  [i \in 1..n |-> LET k == IF big THEN n - i ELSE i - 1
                  IN  IF k < 4 THEN (x \div 256^k) % 256 ELSE 0]
Number(big, b) ==
  LET high[i \in 0..Len(b)] ==   \* the number of the i highest bytes
        IF i = 0 THEN 0 ELSE 256 * high[i - 1] + b[IF big THEN i ELSE Len(b) + 1 - i]
  IN  high[Len(b)]

\* The memory of a value on a machine, and the value in some memory.
RECURSIVE Image(_, _, _), Value(_, _, _)
Image(on, t, v) ==
  IF Scalar(t) THEN Bytes(on, SizeOf[t], v)
  ELSE LET mem[i \in 0..Len(v)] ==
             IF i = 0 THEN <<>>
             ELSE Padded(mem[i - 1], AlignOf[Members(t)[i]]) \o Image(on, Members(t)[i], v[i])
       IN  Padded(mem[Len(v)], AlignOf[t])
Value(on, t, b) ==
  IF Scalar(t) THEN Number(on, b)
  ELSE [i \in 1..Len(Members(t)) |-> Value(on, Members(t)[i], Part(t, i, b))]

\* A value that was just constructed.
Default[t \in DOMAIN Types] ==
  CASE Kind(t) \in {"char", "short", "int", "var32", "version"} -> 0
    [] Kind(t) = "base" -> Default[Elem(t)]
    [] Kind(t) \in {"pair", "entry", "class", "raw", "array", "tuple", "versioned"} ->
         [i \in 1..Len(Members(t)) |-> Default[Members(t)[i]]]
    [] OTHER -> <<>>

(* DataIO_need_bswap, byte_swap_in *)

NeedBswap[t \in DOMAIN Types] ==
  CASE Kind(t) \in {"char", "raw"} -> FALSE
    [] Kind(t) = "pair" -> NeedBswap[Parts(t)[1]]   \* of the first type, twice
    [] OTHER -> TRUE
RECURSIVE SwapIn(_, _)
\* byte_swap_in(x, need_bswap of x): the bytes of x after it.
SwapParts(t, b) == FlattenSeq([i \in 1..Len(Members(t)) |-> SwapIn(Members(t)[i], Part(t, i, b))])
SwapIn(t, b) ==
  CASE ~NeedBswap[t] /\ Kind(t) # "pair" -> b
    [] Kind(t) \in {"short", "int", "var32"} -> Reverse(b)
    [] OTHER -> SwapParts(t, b)

InOrder(c, t, b) == IF c.big # c.on /\ NeedBswap[t] THEN SwapIn(t, b) ELSE b

(* DataIO_is_dump, DataIO_is_realdump *)

\* What is copied of a value: its elements, or it.
Unit(t) == IF Kind(t) \in {"array", "vector"} THEN Elem(t) ELSE t
\* sizeof(t) is what the sizes of its members add up to.
SizesAdd(t) ==
  LET sum[i \in 0..Len(Parts(t))] == IF i = 0 THEN 0 ELSE sum[i - 1] + SizeOf[Parts(t)[i]]
  IN  SizeOf[t] = sum[Len(Parts(t))]
\* Mutant: copies padding.
MembersDumpPadded(dump, t) == \A u \in Range(Parts(t)) : dump[u]
\* The members are of dumpable types, with no padding between them.
MembersDump(dump, t) == (\A u \in Range(Parts(t)) : dump[u]) /\ SizesAdd(t)
\* The types that are dumped.
IsDump(c) ==
  LET dump[t \in DOMAIN Types] ==
        CASE Kind(t) \in {"char", "short", "int"} -> c.dumps
          [] Kind(t) = "var32" -> c.fixed /\ c.dumps
          [] Kind(t) \in {"pair", "class"} ->
               (Kind(t) = "class" => c.deduce /\ c.dumps) /\ MembersDump(dump, t)
          [] Kind(t) = "array" -> dump[Elem(t)]
          [] Kind(t) = "raw"   -> c.deduce
          [] OTHER -> FALSE
  IN  dump
\* What the overloads ask: DATA_IO_LOAD_SAVE makes one for its class, DataIO_is_realdump.
Copied(dump, c, t) == IF Kind(t) = "class" THEN c.dumps /\ MembersDump(dump, t) ELSE dump[t]
===============================================================================
