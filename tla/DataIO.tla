--------------------------------- MODULE DataIO ---------------------------------
(***************************************************************************)
(* operator<< and operator>> of the data outputs and inputs, for the types *)
(* of DataTypes: one program saves objects to a stream, the stream may be  *)
(* cut short, and another program, built by other means for another        *)
(* machine and with other versions of its classes, loads them.             *)
(*                                                                         *)
(* The stream is a MemIO: ensureRead of more than there is copies nothing  *)
(* and throws.  Variable length integers are below 128 and take one byte   *)
(* (VarInt has their code); a size takes as many bytes as var_size_t in    *)
(* the formats without them.                                               *)
(***************************************************************************)
EXTENDS DataTypes

CONSTANTS
  Runs,      \* [w, r, todo]: the context that saves, the one that loads, and
             \* what is saved, a sequence of [t, v], a type and a value of it
  Olds(_)    \* the values of a type an object has before it is loaded

VARIABLES
  world,     \* the two programs
  todo,      \* the objects still to be saved
  saved,     \* the objects saved: [t, v, from, to], bytes from + 1 .. to of the stream
  tape,      \* the bytes of the stream
  closed,    \* the writer is done
  at,        \* the reader's position
  next,      \* the object it loads next
  left,      \* m_count of its DataInputIterator, -1 if there is none
  last       \* its last load: what it is of, the value, what was there before, the exception
vars == <<world, todo, saved, tape, closed, at, next, left, last>>

--------------------------------------------------------------------------------
(* Saving *)

SaveFixLen(c, x) == Bytes(c.big, 4, x)
SaveVarLen(x) == <<x>>
SaveVarInt(c, x) == IF c.fixed THEN SaveFixLen(c, x) ELSE SaveVarLen(x)
SaveSize(c, x) == IF c.fixed THEN Bytes(c.big, c.word, x) ELSE SaveVarLen(x)

SaveRaw(c, t, v) == InOrder(c, t, Image(c.on, t, v))
\* Copied: numbers, and what the rules say, or elements of which they say it.
SavesRaw(c, t) ==
  \/ Kind(t) \in {"char", "short", "int", "raw"}
  \/ Kind(t) \in {"pair", "class", "array", "vector"} /\ Copied(IsDump(c), c, Unit(t))
SaveRawEach(c, u, v) == FlattenSeq([i \in 1..Len(v) |-> SaveRaw(c, u, v[i])])

\* What is before the parts: the size of a container, the version of an object.
SaveHead(c, t, v) ==
  CASE Kind(t) \in {"vector", "list", "set", "map", "wstring"} -> SaveSize(c, Len(v))
    [] Kind(t) = "string" -> SaveVarLen(Len(v))   \* write_string, whatever the format
    [] Kind(t) = "run" -> SaveVarInt(c, Len(v))
    [] Kind(t) = "versioned" -> SaveVarInt(c, c.ver)
    [] OTHER -> <<>>
\* What has no parts, behind its head.
SaveLeaf(c, t, v) ==
  CASE Kind(t) = "var32" -> SaveVarInt(c, v)
    [] Kind(t) = "string" -> v
    [] Kind(t) = "version" -> <<>>
    [] Kind(t) = "wstring" -> FlattenSeq([i \in 1..Len(v) |-> Bytes(c.big, 4, v[i])])

\* Mutant: a member that came with a version is not in it.
MissingAfter(t, i, ver) == Types[t].since[i] >= ver /\ Types[t].since[i] > 0
\* since: a member the version ver does not have.
Missing(t, i, ver) == Types[t].since[i] > ver
\* base: the version of the base class in an object of version ver.
BaseVersion(u, ver) == IF Types[u].n = 0 THEN ver ELSE Types[u].n

\* The version of the class of t, in an object of version ver if it is a base.
VersionOf(c, t, ver) ==
  CASE Kind(t) = "versioned" -> c.ver
    [] Kind(t) = "base" -> BaseVersion(t, ver)
    [] OTHER -> ver
\* The types of the parts; there are n of them.
PartTypes(t, n) ==
  CASE Kind(t) \in {"vector", "list", "set", "map", "ptr", "run"} -> [i \in 1..n |-> Elem(t)]
    [] Kind(t) = "base" -> Parts(Elem(t))
    [] OTHER -> Members(t)
\* The parts that version ver does not have.
Gone(t, ver) ==
  CASE Kind(t) = "versioned" -> {i \in DOMAIN Parts(t) : Missing(t, i, ver)}
    [] Kind(t) = "base" -> {i \in DOMAIN Parts(Elem(t)) : Missing(Elem(t), i, ver)}
    [] OTHER -> {}

\* ver is the version of the object that t is a member or the base of.
RECURSIVE Save(_, _, _, _)
SaveParts(c, ver, t, v) ==
  LET of == PartTypes(t, Len(v))
  IN  FlattenSeq([i \in 1..Len(v) |->
        IF i \in Gone(t, ver) THEN <<>> ELSE Save(c, ver, of[i], v[i])])
Save(c, ver, t, v) ==
  SaveHead(c, t, v)
    \o CASE SavesRaw(c, t) -> SaveRawEach(c, Unit(t), IF Unit(t) = t THEN <<v>> ELSE v)
         [] Kind(t) \in {"var32", "string", "wstring", "version"} -> SaveLeaf(c, t, v)
         [] OTHER -> SaveParts(c, VersionOf(c, t, ver), t, v)
SaveObject(c, t, v) == Save(c, c.ver, t, v)

--------------------------------------------------------------------------------
(* Loading: from position p of the bytes b, over the value old; the value  *)
(* then, the position, and the exception or "".                            *)

\* Mutant: a short read is taken for a whole one.
EnsureReadShort(b, p, n) ==
  [v |-> [i \in 1..n |-> IF p + i <= Len(b) THEN b[p + i] ELSE 0], p |-> p + n, exc |-> ""]
EnsureRead(b, p, n) ==
  IF p + n <= Len(b) THEN [v |-> SubSeq(b, p + 1, p + n), p |-> p + n, exc |-> ""]
  ELSE [v |-> <<>>, p |-> p, exc |-> "eof"]

\* v is made of what e has read; old stays where it has not.
Made(e, v, old) == [e EXCEPT !.v = IF e.exc = "" THEN v ELSE old]
LoadFix(c, b, p, n) == LET e == EnsureRead(b, p, n) IN Made(e, Number(c.big, e.v), 0)
LoadVarLen(b, p) == LET e == EnsureRead(b, p, 1) IN Made(e, e.v[1], 0)
LoadVarInt(c, b, p) == IF c.fixed THEN LoadFix(c, b, p, 4) ELSE LoadVarLen(b, p)
LoadSize(c, b, p) == IF c.fixed THEN LoadFix(c, b, p, c.word) ELSE LoadVarLen(b, p)

\* As SavesRaw, but a pair is not copied whole, and elements that are numbers always are.
LoadsRaw(c, t) ==
  \/ Kind(t) \in {"char", "short", "int", "raw"}
  \/ /\ Kind(t) \in {"class", "array", "vector"}
     /\ Kind(Unit(t)) \in {"short", "int"} \/ Copied(IsDump(c), c, Unit(t))
\* The n objects of type t in the bytes s, each after its byte_swap.
Objects(c, t, n, s) ==
  [i \in 1..n |-> Value(c.on, t, InOrder(c, t, SubSeq(s, (i - 1) * SizeOf[t] + 1, i * SizeOf[t])))]
\* One ensureRead of Len(olds) objects.
LoadRaw(c, b, p, t, olds) ==
  LET e == EnsureRead(b, p, SizeOf[t] * Len(olds))
  IN  Made(e, Objects(c, t, Len(olds), e.v), olds)

\* x.resize(n).
Resized(old, n, new) == [i \in 1..n |-> IF i <= Len(old) THEN old[i] ELSE new]

\* Mutant: an object newer than the class by one version is read all the same.
CheckVersionLate(c, e) == IF e.exc = "" /\ e.v > c.ver + 1 THEN [e EXCEPT !.exc = "version"] ELSE e
CheckVersion(c, e) == IF e.exc = "" /\ e.v > c.ver THEN [e EXCEPT !.exc = "version"] ELSE e

\* A size or a version that is allowed; the one object behind a smart pointer.
LoadHead(c, b, p, t) ==
  CASE Kind(t) \in {"vector", "list", "set", "map", "wstring"} -> LoadSize(c, b, p)
    [] Kind(t) = "string" -> LoadVarLen(b, p)
    [] Kind(t) = "versioned" -> CheckVersion(c, LoadVarInt(c, b, p))
    [] OTHER -> [v |-> 1, p |-> p, exc |-> ""]
\* The value of an object whose head is not there: a list, a deque and a set are cleared first.
Headless(t, old) == IF Kind(t) \in {"list", "set"} THEN <<>> ELSE old
\* n characters.
LoadText(c, b, p, t, n, old) ==
  LET width == IF Kind(t) = "string" THEN 1 ELSE 4
      e     == EnsureRead(b, p, width * n)
  IN  Made(e, [i \in 1..n |-> Number(c.big, SubSeq(e.v, width * (i - 1) + 1, width * i))], Resized(old, n, 0))
LoadLeaf(c, b, p, t, n, old) ==
  IF Kind(t) = "var32" THEN LET e == LoadVarInt(c, b, p) IN Made(e, e.v, old) ELSE LoadText(c, b, p, t, n, old)

RECURSIVE Load(_, _, _, _, _, _)
\* The parts in order, over the values they have, until one throws; n of them were begun.
PartLoaded(d, i, m) == [v |-> [d.v EXCEPT ![i] = m.v], p |-> m.p, exc |-> m.exc, n |-> i]
LoadParts(c, ver, b, p, t, olds) ==
  LET of == PartTypes(t, Len(olds))
      after[i \in 0..Len(olds)] ==
        LET d == IF i = 0 THEN [v |-> olds, p |-> p, exc |-> "", n |-> 0] ELSE after[i - 1] IN
        IF i = 0 \/ d.exc # "" \/ i \in Gone(t, ver) THEN d
        ELSE PartLoaded(d, i, Load(c, ver, b, d.p, of[i], d.v[i]))
  IN  after[Len(olds)]
\* New elements, each added after it is loaded; to a list or a deque, and to a smart
\* pointer, before it.
Adds(t) == Kind(t) \in {"vector", "list", "set", "map", "ptr"}
Added(t, e) ==
  LET n == IF e.exc = "" \/ Kind(t) \in {"list", "ptr"} THEN e.n ELSE e.n - 1
  IN  IF Adds(t) THEN [e EXCEPT !.v = [i \in 1..n |-> @[i]]] ELSE e
\* One object that is copied whole, or the n elements of an array or a vector.
LoadCopied(c, b, p, t, n, old) ==
  LET olds == CASE Kind(t) = "array" -> old
                [] Kind(t) = "vector" -> Resized(old, n, Default[Elem(t)])
                [] OTHER -> <<old>>
      e == LoadRaw(c, b, p, Unit(t), olds)
  IN  [e EXCEPT !.v = IF Unit(t) = t THEN @[1] ELSE @]
\* What is behind the head.
LoadBody(c, ver, b, t, old, head) ==
  IF head.exc # "" THEN [head EXCEPT !.v = Headless(t, old)] ELSE
  CASE LoadsRaw(c, t) -> LoadCopied(c, b, head.p, t, head.v, old)
    [] Kind(t) = "version" -> [head EXCEPT !.v = ver]
    [] Kind(t) \in {"var32", "string", "wstring"} -> LoadLeaf(c, b, head.p, t, head.v, old)
    [] OTHER ->
         LET now  == IF Kind(t) = "versioned" THEN head.v ELSE VersionOf(c, t, ver)
             olds == IF Adds(t) THEN [i \in 1..head.v |-> Default[Elem(t)]] ELSE old
         IN  Added(t, LoadParts(c, now, b, head.p, t, olds))
Load(c, ver, b, p, t, old) == LoadBody(c, ver, b, t, old, LoadHead(c, b, p, t))
LoadObject(c, b, p, t, old) == Load(c, c.ver, b, p, t, old)

--------------------------------------------------------------------------------
(* The two programs *)

Nothing == [of |-> 0, v |-> <<>>, old |-> <<>>, exc |-> ""]

Init ==
  /\ \E run \in Runs : world = [w |-> run.w, r |-> run.r] /\ todo = run.todo
  /\ saved = <<>> /\ tape = <<>> /\ closed = FALSE
  /\ at = 0 /\ next = 1 /\ left = -1 /\ last = Nothing

SaveNext ==
  /\ ~closed /\ todo # <<>>
  /\ tape' = tape \o SaveObject(world.w, Head(todo).t, Head(todo).v)
  /\ saved' = Append(saved, [t |-> Head(todo).t, v |-> Head(todo).v, from |-> Len(tape), to |-> Len(tape')])
  /\ todo' = Tail(todo)
  /\ UNCHANGED <<world, closed, at, next, left, last>>

\* The writer stops; what the reader gets may be cut anywhere.
Close ==
  /\ ~closed /\ todo = <<>>
  /\ closed' = TRUE
  /\ \E n \in 0..Len(tape) : tape' = SubSeq(tape, 1, n)
  /\ UNCHANGED <<world, todo, saved, at, next, left, last>>

Reading == closed /\ next <= Len(saved) /\ last.exc = ""

\* What a load does, over old, for the reader.
Loads(e, old) ==
  /\ last' = [of |-> next, v |-> e.v, old |-> old, exc |-> e.exc]
  /\ at' = e.p

\* operator>>, and load_as and skip_obj, whose object is new.
LoadNext ==
  /\ Reading
  /\ Kind(saved[next].t) # "run"
  /\ \E old \in Olds(saved[next].t) : Loads(LoadObject(world.r, tape, at, saved[next].t, old), old)
  /\ next' = next + 1
  /\ UNCHANGED <<world, todo, saved, tape, closed, left>>

\* DataInputIterator(input): the count is in the stream.
Iterate ==
  /\ Reading /\ left = -1 /\ Kind(saved[next].t) = "run"
  /\ LET e == LoadVarInt(world.r, tape, at)
     IN  /\ at' = e.p
         /\ left' = IF e.exc = "" THEN e.v ELSE -1
         /\ last' = [Nothing EXCEPT !.exc = e.exc]
  /\ UNCHANGED <<world, todo, saved, tape, closed, next>>
\* *iterator, which steps past what it returns; ++ does nothing.
NextElement ==
  /\ Reading /\ left > 0
  /\ LET u == Elem(saved[next].t)
     IN  Loads(LoadObject(world.r, tape, at, u, Default[u]), Default[u])
  /\ left' = left - 1
  /\ UNCHANGED <<world, todo, saved, tape, closed, next>>
\* is_end().
IterateEnd ==
  /\ Reading /\ left = 0
  /\ left' = -1 /\ next' = next + 1 /\ last' = Nothing
  /\ UNCHANGED <<world, todo, saved, tape, closed, at>>

Next == SaveNext \/ Close \/ LoadNext \/ Iterate \/ NextElement \/ IterateEnd

Spec == Init /\ [][Next]_vars
--------------------------------------------------------------------------------
(* What the object read should be: what was written, and what was there    *)
(* before in the members that version did not have.                        *)
RECURSIVE Adapted(_, _, _, _)
Adapted(t, ver, v, old) ==
  CASE Kind(t) \in {"pair", "entry", "class", "tuple", "array", "raw"} ->
         [i \in 1..Len(v) |-> Adapted(Members(t)[i], ver, v[i], old[i])]
    [] Kind(t) \in {"vector", "list", "set", "map", "ptr"} ->
         [i \in 1..Len(v) |-> Adapted(Elem(t), ver, v[i], Default[Elem(t)])]
    [] Kind(t) = "versioned" ->
         [i \in 1..Len(v) |->
            IF Types[t].since[i] > ver THEN old[i]
            ELSE Adapted(Parts(t)[i], ver, v[i], old[i])]
    [] Kind(t) = "version" -> ver
    [] Kind(t) = "base" -> Adapted(Elem(t), BaseVersion(t, ver), v, old)
    [] OTHER -> v

\* There is a versioned object in a value, and a raw one in a type.
RECURSIVE HasVersion(_, _), HasRaw(_)
HasVersion(t, v) ==
  CASE Kind(t) = "versioned" -> TRUE
    [] Kind(t) \in {"pair", "entry", "class", "tuple", "array"} -> \E i \in 1..Len(v) : HasVersion(Members(t)[i], v[i])
    [] Kind(t) \in {"vector", "list", "set", "map", "ptr", "run"} -> \E i \in 1..Len(v) : HasVersion(Elem(t), v[i])
    [] OTHER -> FALSE
HasRaw(t) ==
  CASE Kind(t) = "raw" -> TRUE
    [] Kind(t) \in {"char", "short", "int", "var32", "string", "wstring", "version"} -> FALSE
    [] OTHER -> \E u \in Range(Parts(t)) : HasRaw(u)

Loaded == last.of > 0
Source == saved[last.of]
Iterated == Kind(Source.t) = "run"
\* The type and the value of what was loaded last.
SourceType == IF Iterated THEN Elem(Source.t) ELSE Source.t
SourceValue == IF Iterated THEN Source.v[Len(Source.v) - left] ELSE Source.v

\* What is loaded without an exception is what was saved, whatever machines,
\* builds and versions the two programs are (DataInput.hpp:63-188 against
\* DataOutput.hpp:61-198), members the saved version lacks keep their value
\* (DataIO_Version.hpp:40), and the next object is read from where it begins.
LoadsWhatWasSaved ==
  (Loaded /\ last.exc = "") =>
    /\ last.v = Adapted(SourceType, world.w.ver, SourceValue, last.old)
    /\ (~Iterated \/ left = 0) => at = Source.to

\* An object of a newer version than the reader's class is refused, and nothing
\* else is (DataIO_load_check_version, DataInput.hpp:378).
RefusesNewer ==
  LET newer == world.w.ver > world.r.ver IN
  Loaded =>
    /\ (last.exc = "version") => newer /\ HasVersion(SourceType, SourceValue)
    /\ (last.exc = "") => ~(newer /\ HasVersion(SourceType, SourceValue))

\* A load of an object the stream ends in throws, and only such a load does:
\* no container or string is taken for a shorter one.
CutIsNoticed ==
  Loaded =>
    /\ (last.exc = "eof") => Source.to > Len(tape)
    /\ (last.exc = "" /\ ~Iterated) => Source.to <= Len(tape)

\* A format is one: the bytes are those of the build without the copying of
\* whole objects, on the machine whose byte order the format has
\* (DataIO_Basic.hpp:51-55).
Plain(c, t) == [c EXCEPT !.dumps = FALSE, !.on = IF HasRaw(t) THEN @ ELSE c.big]
OneFormat ==
  ~closed =>
    \A i \in 1..Len(saved) :
      SubSeq(tape, saved[i].from + 1, saved[i].to)
        = SaveObject(Plain(world.w, saved[i].t), saved[i].t, saved[i].v)
===============================================================================
