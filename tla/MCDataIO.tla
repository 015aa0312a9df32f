-------------------------------- MODULE MCDataIO --------------------------------
(* Types with every rule of DataTypes, and programs that differ in one or  *)
(* more respects.                                                          *)
EXTENDS DataIO

T(is, of) == [is |-> is, of |-> of, n |-> 0, since |-> [i \in 1..Len(of) |-> 0]]
AllTypes == [
  ch     |-> T("char", <<>>),    sh |-> T("short", <<>>),
  i      |-> T("int", <<>>),     vu |-> T("var32", <<>>),
  str    |-> T("string", <<>>),  wstr |-> T("wstring", <<>>),
  cc     |-> T("pair", <<"ch", "ch">>),
  ss     |-> T("pair", <<"sh", "sh">>),
  cs     |-> T("pair", <<"ch", "sh">>),          \* with padding
  scc    |-> T("pair", <<"sh", "cc">>),
  ccs    |-> T("pair", <<"cc", "sh">>),          \* byte_swap.hpp:151
  dense  |-> T("class", <<"ch", "ch", "sh">>),
  sparse |-> T("class", <<"sh", "ch">>),         \* with padding
  outer  |-> T("class", <<"dense", "sh", "sa">>),
  vuc    |-> T("class", <<"i", "vu">>),          \* copied in the formats without variable lengths
  mix    |-> T("class", <<"sh", "str", "cs">>),
  raw    |-> T("raw", <<"ch", "sh">>),
  sa     |-> [T("array", <<"sh">>) EXCEPT !.n = 2],
  da     |-> [T("array", <<"dense">>) EXCEPT !.n = 2],
  va     |-> [T("array", <<"ver">>) EXCEPT !.n = 2],
  vs     |-> T("vector", <<"sh">>),    vd |-> T("vector", <<"dense">>),
  vp     |-> T("vector", <<"scc">>),   vx |-> T("vector", <<"sparse">>),
  vr     |-> T("vector", <<"raw">>),   vccs |-> T("vector", <<"ccs">>),
  vv     |-> T("vector", <<"ver">>),   vvs |-> T("vector", <<"vs">>),
  ls     |-> T("list", <<"outer">>),   lv |-> T("list", <<"ver">>),
  set    |-> T("set", <<"sh">>),
  csp    |-> T("entry", <<"cc", "dense">>),     \* not copied, or the class would not be swapped
  map    |-> T("map", <<"csp">>),
  tup    |-> T("tuple", <<"ch", "vs", "i">>),
  ptr    |-> T("ptr", <<"ver">>),
  vn     |-> T("version", <<>>),
  \* sh & since(2, vu) & since(3, vs) & get_version(vn)
  ver    |-> [T("versioned", <<"sh", "vu", "vs", "vn">>) EXCEPT !.since = <<0, 2, 3, 0>>],
  same   |-> T("base", <<"ver">>),
  prev   |-> [T("base", <<"ver">>) EXCEPT !.n = 2],
  \* base(this) & since(2, ch), base(this, 2) & ch
  child  |-> [T("versioned", <<"same", "ch">>) EXCEPT !.since = <<0, 2>>],
  heir   |-> T("versioned", <<"prev", "ch">>),
  rs     |-> T("run", <<"sh">>),       rv |-> T("run", <<"ver">>)]

\* Numbers whose bytes differ.
Sh == 258
Int4 == 16909060
Ver == <<Sh, 7, <<Sh>>, 9>>
Value0 == [
  ch |-> 5, sh |-> Sh, i |-> Int4, vu |-> 6, str |-> <<1, 2>>, wstr |-> <<Int4>>,
  cc |-> <<1, 2>>, ss |-> <<Sh, 3>>, cs |-> <<1, Sh>>, scc |-> <<Sh, <<3, 4>>>>, ccs |-> <<<<3, 4>>, Sh>>,
  dense |-> <<3, 4, Sh>>, sparse |-> <<Sh, 3>>, outer |-> <<<<3, 4, Sh>>, 5, <<Sh, 6>>>>,
  vuc |-> <<Int4, 6>>, mix |-> <<Sh, <<1>>, <<3, Sh>>>>, raw |-> <<3, Sh>>,
  sa |-> <<Sh, 3>>, da |-> <<<<3, 4, Sh>>, <<5, 6, 7>>>>, va |-> <<Ver, Ver>>,
  vs |-> <<Sh, 3>>, vd |-> <<<<3, 4, Sh>>>>, vp |-> <<<<Sh, <<3, 4>>>>>>, vx |-> <<<<Sh, 3>>>>,
  vr |-> <<<<3, Sh>>>>, vccs |-> <<<<<<3, 4>>, Sh>>>>, vv |-> <<Ver>>, vvs |-> <<<<Sh>>, <<>>, <<3>>>>,
  ls |-> <<<<<<3, 4, Sh>>, 5, <<Sh, 6>>>>>>, lv |-> <<Ver, Ver>>, set |-> <<3, Sh>>,
  map |-> <<<<<<1, 3>>, <<3, 4, Sh>>>>>>, tup |-> <<1, <<Sh>>, Int4>>, ptr |-> <<Ver>>,
  ver |-> Ver, child |-> <<Ver, 8>>, heir |-> <<Ver, 8>>, rs |-> <<Sh, 3>>, rv |-> <<Ver>>]

Item(t) == [t |-> t, v |-> Value0[t]]
Empty == {"vs", "vd", "str", "wstr", "ls", "map", "rs"}
AllSessions ==
  {<<Item(t)>> : t \in DOMAIN Value0 \ {"ccs", "vccs"}}
    \cup {<<[t |-> t, v |-> <<>>], Item("sh")>> : t \in Empty}
    \cup {<<Item("vd"), Item("rs"), Item("ver")>>}

\* A new object; one that was used before.
NewOrUsed(t) == {Default[t]} \cup (IF t \in {"ver", "va", "vs", "vd", "ls", "child", "mix"} THEN {Value0[t]} ELSE {})

Big == [on |-> TRUE, word |-> 4, deduce |-> FALSE, dumps |-> TRUE]
Little == [on |-> FALSE, word |-> 8, deduce |-> TRUE, dumps |-> TRUE]
Small == [on |-> FALSE, word |-> 4, deduce |-> FALSE, dumps |-> FALSE]
Program(m, big, fixed, ver) ==
  [big |-> big, fixed |-> fixed, ver |-> ver, on |-> m.on, word |-> m.word, deduce |-> m.deduce, dumps |-> m.dumps]
Pairs(machines, versions) ==
  {[w |-> Program(m[1], big, fixed, v[1]), r |-> Program(m[2], big, fixed, v[2])] :
     m \in machines, v \in versions, big \in BOOLEAN, fixed \in BOOLEAN}
\* A format without variable lengths is for machines of one word.
OneWord(w) == w.w.fixed => w.w.word = w.r.word
AllWorlds ==
  {w \in Pairs({<<Big, Big>>, <<Little, Little>>, <<Big, Small>>, <<Small, Big>>, <<Little, Small>>, <<Big, Little>>},
               {<<1, 3>>, <<2, 2>>, <<3, 2>>}) : OneWord(w)}
\* DATA_IO_DUMP_RAW_MEM is for machines of one byte order.
OneOrder(w, s) == w.w.on = w.r.on \/ \A k \in 1..Len(s) : ~HasRaw(s[k].t)
RunsOf(sessions) ==
  {[w |-> p[1].w, r |-> p[1].r, todo |-> p[2]] :
     p \in {q \in AllWorlds \X sessions : OneOrder(q[1], q[2])}}
AllRuns == RunsOf(AllSessions)
PairRuns == RunsOf({<<Item("vccs")>>})
================================================================================
