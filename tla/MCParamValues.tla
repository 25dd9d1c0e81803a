---------------------------- MODULE MCParamValues ----------------------------
(* A parameter that others nest in, under two spellings; the bridge's        *)
(* namespace and the parameter in it; a name off the whitelist and one that  *)
(* is not valid; ints of 2 bits.                                             *)
EXTENDS ParamValues

(* A value without members, and a container of the values es. *)
Scalar(t, n) == [p \in {<<>>} |-> Node(t, n)]
Nest(t, es) ==
  [p \in {<<>>} \cup UNION {{<<i>> \o q : q \in DOMAIN es[i]} : i \in DOMAIN es} |->
     IF p = <<>> THEN Node(t, 0) ELSE es[Head(p)][Tail(p)]]

Array(m) == Nest("array", <<m>>)
List(m) == Nest("list", <<m>>)
half == Scalar("double", 1)
whole == Scalar("double", 2)
one == Scalar("int", 1)

Absolute(p) == [path |-> p, abs |-> TRUE]
bridge == Absolute(<<1>>)
own == Absolute(<<1, 1>>)
off == Absolute(<<2>>)
x == Absolute(<<3>>)
y == Absolute(<<3, 1>>)
relative == [path |-> <<3>>, abs |-> FALSE]
bad == [path |-> <<4>>, abs |-> FALSE]

MCNames == {bridge, own, off, x, y, relative, bad}
MCNodePath == bridge.path
MCUnlisted == {off}
MCRefused == {bad}
MCGiven == Nest("struct", <<Nest("struct", <<Scalar("string", 1)>>), one>>)
MCShared == {x.path}

MCRosValues ==
  {one, half, whole, Scalar("boolean", 1), Scalar("date", 0),
   Nest("array", <<>>), Array(half), Array(whole), Nest("struct", <<one, whole>>),
   Array(Array(one)), Array(Array(Array(one)))}

Set(n, v, ty) == [name |-> n, value |-> v, type |-> ty]

MCItems ==
  {Set(x, Scalar("int64", 2), ty) : ty \in {"none", "float64"}}
    \cup {Set(n, v, "none") : n \in {x, y}, v \in {Scalar("int64", 1), Unset}}
    \cup {Set(x, v, "none") : v \in {Scalar("float64", 1), List(Scalar("int64", 2)),
                                     List(List(Scalar("text", 1))), Nest("list", <<>>),
                                     Nest("dict", <<Scalar("int64", 1)>>)}}
    \cup {Set(x, List(Scalar("int64", 2)), "float64")}
    \cup {Set(n, Scalar("int64", 1), "none") : n \in {relative, own, off, bad}}
    \cup {Set(bridge, Unset, "none")}
=============================================================================
