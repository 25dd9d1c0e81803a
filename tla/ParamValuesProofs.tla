--------------------------- MODULE ParamValuesProofs ---------------------------
(***************************************************************************)
(* Parameter values of any shape: what survives the way to a client and    *)
(* back, what setting a parameter does to the master's tree, and, for      *)
(* batches of any length, that each item is applied and echoed by itself.  *)
(***************************************************************************)
EXTENDS ParamValues, FiniteSetTheorems, SequenceTheorems, TLAPS

-----------------------------------------------------------------------------
(* Conversions                                                              *)

LEMMA NarrowFits ==
  ASSUME NEW n \in Int
  PROVE  Narrow(n) \in Ints /\ (Narrow(n) = n <=> n \in Ints)
<1> DEFINE m == 2 * (IntMax + 1)
           k == n + IntMax + 1
<1>1. IntMax \in Nat /\ m \in Nat /\ m > 0 /\ k \in Int
  BY ValuesAssumption
<1>2. k % m \in 0 .. m - 1
  <2> HIDE DEF m, k
  <2> QED BY <1>1
<1>3. k \in 0 .. m - 1 => k % m = k
  <2> HIDE DEF m, k
  <2> QED BY <1>1
<1>4. Narrow(n) = (k % m) - (IntMax + 1)
  BY DEF Narrow
<1>5. n \in Ints <=> k \in 0 .. m - 1
  BY <1>1 DEF Ints
<1> DEFINE r == k % m
<1>6. r \in 0 .. m - 1 /\ (k \in 0 .. m - 1 => r = k) /\ Narrow(n) = r - (IntMax + 1)
  BY <1>2, <1>3, <1>4
<1> HIDE DEF r
<1>7. Narrow(n) \in Ints
  BY <1>1, <1>6 DEF Ints
<1>8. Narrow(n) = n <=> n \in Ints
  BY <1>1, <1>5, <1>6, <1>7
<1> QED BY <1>7, <1>8

LEMMA HalvesAndWholes ==
  ASSUME NEW n \in Int
  PROVE  /\ n \div 2 \in Int
         /\ n % 2 = 0 => 2 * (n \div 2) = n
         /\ (2 * n) % 2 = 0 /\ (2 * n) \div 2 = n
  OBVIOUS

LEMMA NodesEqual ==
  ASSUME NEW t, NEW u, NEW m, NEW n
  PROVE  /\ Node(t, m) = Node(u, n) <=> t = u /\ m = n
         /\ Node(t, m).t = t /\ Node(t, m).v = m
  BY DEF Node

(* The two tables of types are each other's inverse.                        *)
LEMMA TypesOfRos ==
  ASSUME NEW t \in DOMAIN SdkType
  PROVE  /\ SdkType[t] \in DOMAIN RosType /\ RosType[SdkType[t]] = t
         /\ SdkType[t] = "int64" <=> t = "int"
         /\ SdkType[t] = "float64" <=> t = "double"
         /\ SdkType[t] \in {"list", "dict", "array", "struct"} <=>
              t \in {"list", "dict", "array", "struct"}
  BY DEF SdkType, RosType

LEMMA TypesOfSdk ==
  ASSUME NEW t \in DOMAIN RosType
  PROVE  /\ RosType[t] \in DOMAIN SdkType /\ SdkType[RosType[t]] = t
         /\ RosType[t] = "int" <=> t = "int64"
         /\ RosType[t] = "double" <=> t = "float64"
         /\ RosType[t] \in {"list", "dict", "array", "struct"} <=>
              t \in {"list", "dict", "array", "struct"}
  BY DEF SdkType, RosType

LEMMA KnownTypes ==
  /\ {"int", "double"} \subseteq DOMAIN SdkType /\ "invalid" \notin DOMAIN SdkType
  /\ {"int64", "float64"} \subseteq DOMAIN RosType
  /\ SdkType["int"] = "int64" /\ SdkType["double"] = "float64"
  BY DEF SdkType, RosType

(* A value of the same shape with the same types has the same empty         *)
(* containers.                                                              *)
LEMMA SameShapeSameEmpty ==
  ASSUME NEW x, NEW y, DOMAIN x = DOMAIN y, NEW p,
         x[p].t \in {"list", "dict", "array", "struct"} <=>
           y[p].t \in {"list", "dict", "array", "struct"}
  PROVE  Empty(x, p) <=> Empty(y, p)
  BY DEF Empty, Members

LEMMA NodeOfTree ==
  ASSUME NEW x, Tree(x), NEW p \in DOMAIN x
  PROVE  x[p] = Node(x[p].t, x[p].v) /\ x[p].v \in Int
  BY DEF Tree

LEMMA TreesEqual ==
  ASSUME NEW x, NEW y, Tree(x), Tree(y), DOMAIN x = DOMAIN y,
         \A p \in DOMAIN x : x[p].t = y[p].t /\ x[p].v = y[p].v
  PROVE  x = y
  BY DEF Tree

(* Another value of the same shape is a tree too.                           *)
LEMMA SameShape ==
  ASSUME NEW x, Tree(x), NEW y, DOMAIN y = DOMAIN x, y = [p \in DOMAIN x |-> y[p]],
         \A p \in DOMAIN x : y[p] = Node(y[p].t, y[p].v) /\ y[p].v \in Int
  PROVE  Tree(y)
<1>1. y = [p \in DOMAIN y |-> Node(y[p].t, y[p].v)]
  BY Zenon
<1> QED BY <1>1 DEF Tree

LEMMA UnsetIsNoTree == \A x : Tree(x) => x # Unset
  BY DEF Tree, Unset

(* What a client's value becomes, member by member.                         *)
LEMMA WrittenNode ==
  ASSUME NEW x, SdkValue(x), NEW type, NEW p \in DOMAIN x
  PROVE  LET w == toRosParam(x, type)
             hint == p = <<>> /\ type = "float64"
         IN /\ DOMAIN w = DOMAIN x
            /\ x[p].t = "int64" =>
                 w[p] = IF hint THEN Node("double", 2 * x[p].v)
                        ELSE Node("int", Narrow(x[p].v))
            /\ x[p].t # "int64" /\ Empty(x, p) => w[p] = Node("invalid", 0)
            /\ x[p].t # "int64" /\ ~Empty(x, p) => w[p] = Node(RosType[x[p].t], x[p].v)
            /\ w[p] = Node(w[p].t, w[p].v) /\ w[p].v \in Int
            /\ w[p].t = "int" => w[p].v \in Ints
<1> DEFINE w == toRosParam(x, type)
<1>1. w = [q \in DOMAIN x |->
            CASE x[q].t = "int64" -> Integer(x[q].v, IF q = <<>> THEN type ELSE "none")
              [] Empty(x, q) -> Node("invalid", 0)
              [] OTHER -> Node(RosType[x[q].t], x[q].v)]
  BY DEF toRosParam
<1>2. x[p].v \in Int /\ x[p].t \in DOMAIN RosType
  BY NodeOfTree DEF SdkValue
<1> HIDE DEF w
<1>3. DOMAIN w = DOMAIN x
  BY <1>1
<1>4. CASE x[p].t = "int64"
  <2>1. w[p] = Integer(x[p].v, IF p = <<>> THEN type ELSE "none")
    <3>1. w[p] = CASE x[p].t = "int64" -> Integer(x[p].v, IF p = <<>> THEN type ELSE "none")
                   [] Empty(x, p) -> Node("invalid", 0)
                   [] OTHER -> Node(RosType[x[p].t], x[p].v)
      BY <1>1, Zenon
    <3>2. ~Empty(x, p)
      BY <1>4 DEF Empty
    <3> QED BY <3>1, <3>2, <1>4
  <2>2. Narrow(x[p].v) \in Ints /\ Narrow(x[p].v) \in Int /\ 2 * x[p].v \in Int
    BY <1>2, NarrowFits, ValuesAssumption DEF Ints
  <2>3. w[p] = IF p = <<>> /\ type = "float64" THEN Node("double", 2 * x[p].v)
               ELSE Node("int", Narrow(x[p].v))
    BY <2>1 DEF Integer
  <2> QED BY <1>3, <1>4, <2>2, <2>3, NodesEqual DEF w
<1>5. CASE x[p].t # "int64" /\ Empty(x, p)
  <2>1. w[p] = Node("invalid", 0)
    BY <1>1, <1>5
  <2> QED BY <1>3, <1>5, <2>1, NodesEqual DEF w
<1>6. CASE x[p].t # "int64" /\ ~Empty(x, p)
  <2>1. w[p] = Node(RosType[x[p].t], x[p].v)
    BY <1>1, <1>6
  <2> QED BY <1>2, <1>3, <1>6, <2>1, NodesEqual, TypesOfSdk DEF w
<1> QED BY <1>4, <1>5, <1>6

LEMMA WrittenIsRos ==
  ASSUME NEW x, SdkValue(x), NEW type
  PROVE  RosValue(toRosParam(x, type))
<1> DEFINE w == toRosParam(x, type)
<1>1. DOMAIN w = DOMAIN x /\ w = [p \in DOMAIN x |-> w[p]]
  BY DEF toRosParam
<1>2. ASSUME NEW p \in DOMAIN x
      PROVE  /\ w[p] = Node(w[p].t, w[p].v) /\ w[p].v \in Int
             /\ w[p].t = "int" => w[p].v \in Ints
  BY WrittenNode
<1> HIDE DEF w
<1>3. Tree(w)
  BY <1>1, <1>2, SameShape DEF SdkValue
<1>4. RosValue(w)
  BY <1>1, <1>2, <1>3 DEF RosValue
<1> QED BY <1>4 DEF w

(* What a parameter becomes for a client, who gives it back as JSON.        *)
LEMMA ReadNode ==
  ASSUME NEW x, RosValue(x), ~FromThrows(x)
  PROVE  LET r == fromRosParam(x).value
         IN /\ SdkValue(r) /\ DOMAIN r = DOMAIN x
            /\ \A p \in DOMAIN x : r[p] = Node(SdkType[x[p].t], x[p].v)
<1> DEFINE r == fromRosParam(x).value
<1>1. r = [p \in DOMAIN x |-> Node(SdkType[x[p].t], x[p].v)]
  BY DEF fromRosParam
<1> HIDE DEF r
<1>2. DOMAIN r = DOMAIN x /\ r = [p \in DOMAIN x |-> r[p]]
  BY <1>1
<1>3. ASSUME NEW p \in DOMAIN x
      PROVE  /\ r[p] = Node(SdkType[x[p].t], x[p].v)
             /\ r[p] = Node(r[p].t, r[p].v) /\ r[p].v \in Int
             /\ r[p].t \in DOMAIN RosType
  <2>1. x[p].v \in Int /\ x[p].t \in DOMAIN SdkType
    BY NodeOfTree DEF RosValue, FromThrows
  <2>2. SdkType[x[p].t] \in DOMAIN RosType
    BY <2>1, TypesOfRos
  <2> QED BY <1>1, <2>1, <2>2, NodesEqual
<1>4. Tree(r)
  BY <1>2, <1>3, SameShape DEF RosValue
<1> QED BY <1>2, <1>3, <1>4 DEF SdkValue, r

LEMMA JsonNode ==
  ASSUME NEW x, SdkValue(x)
  PROVE  LET j == AsJson(x)
         IN /\ SdkValue(j) /\ DOMAIN j = DOMAIN x
            /\ \A p \in DOMAIN x :
                 j[p] = IF x[p].t = "float64" /\ x[p].v % 2 = 0
                        THEN Node("int64", x[p].v \div 2) ELSE x[p]
<1> DEFINE j == AsJson(x)
<1>1. j = [p \in DOMAIN x |-> IF x[p].t = "float64" /\ x[p].v % 2 = 0
                             THEN Node("int64", x[p].v \div 2) ELSE x[p]]
  BY DEF AsJson
<1> HIDE DEF j
<1>2. DOMAIN j = DOMAIN x /\ j = [p \in DOMAIN x |-> j[p]]
  BY <1>1
<1>3. ASSUME NEW p \in DOMAIN x
      PROVE  /\ j[p] = IF x[p].t = "float64" /\ x[p].v % 2 = 0
                        THEN Node("int64", x[p].v \div 2) ELSE x[p]
             /\ j[p] = Node(j[p].t, j[p].v) /\ j[p].v \in Int
             /\ j[p].t \in DOMAIN RosType
  <2>1. /\ x[p].v \in Int /\ x[p].t \in DOMAIN RosType
        /\ x[p] = Node(x[p].t, x[p].v)
    BY NodeOfTree DEF SdkValue
  <2>2. x[p].v \div 2 \in Int
    BY <2>1, HalvesAndWholes
  <2> QED BY <1>1, <2>1, <2>2, NodesEqual, KnownTypes
<1>4. Tree(j)
  BY <1>2, <1>3, SameShape DEF SdkValue
<1> QED BY <1>2, <1>3, <1>4 DEF SdkValue, j

(* What becomes of one member of a parameter that a client reads and writes *)
(* back.                                                                    *)
LEMMA BackNode ==
  ASSUME NEW x, RosValue(x), ~FromThrows(x), NEW p \in DOMAIN x
  PROVE  LET read == fromRosParam(x)
             back == AsJson(read.value)
             again == toRosParam(back, read.type)
         IN /\ DOMAIN back = DOMAIN x /\ DOMAIN again = DOMAIN x
            /\ again[p] = x[p] <=>
                 ~Empty(x, p) /\ (x[p].t = "double" /\ x[p].v % 2 = 0 => p = <<>>)
<1> DEFINE r == fromRosParam(x).value
           type == fromRosParam(x).type
           j == AsJson(r)
           w == toRosParam(j, type)
<1>1. /\ SdkValue(r) /\ DOMAIN r = DOMAIN x
      /\ r[p] = Node(SdkType[x[p].t], x[p].v)
  BY ReadNode
<1>2. type = IF x[<<>>].t = "double" THEN "float64" ELSE "none"
  BY DEF fromRosParam
<1> HIDE DEF r, type
<1>3. /\ SdkValue(j) /\ DOMAIN j = DOMAIN x
      /\ j[p] = IF r[p].t = "float64" /\ r[p].v % 2 = 0
                THEN Node("int64", r[p].v \div 2) ELSE r[p]
  BY <1>1, JsonNode
<1> HIDE DEF j
<1>4. /\ DOMAIN w = DOMAIN x
      /\ j[p].t = "int64" =>
           w[p] = IF p = <<>> /\ type = "float64" THEN Node("double", 2 * j[p].v)
                  ELSE Node("int", Narrow(j[p].v))
      /\ j[p].t # "int64" /\ Empty(j, p) => w[p] = Node("invalid", 0)
      /\ j[p].t # "int64" /\ ~Empty(j, p) => w[p] = Node(RosType[j[p].t], j[p].v)
  BY <1>3, WrittenNode
<1> HIDE DEF w
<1>5. /\ x[p] = Node(x[p].t, x[p].v) /\ x[p].v \in Int /\ x[p].t \in DOMAIN SdkType
      /\ x[p].t = "int" => x[p].v \in Ints
  BY NodeOfTree DEF RosValue, FromThrows
<1>6. CASE x[p].t = "int"
  <2>1. j[p] = Node("int64", x[p].v)
    BY <1>1, <1>3, <1>6, KnownTypes, NodesEqual
  <2>2. ~(p = <<>> /\ type = "float64")
    BY <1>2, <1>6
  <2>3. Narrow(x[p].v) = x[p].v
    BY <1>5, <1>6, NarrowFits
  <2>4. w[p] = x[p]
    BY <1>4, <1>5, <1>6, <2>1, <2>2, <2>3, NodesEqual
  <2>5. ~Empty(x, p) /\ x[p].t # "double"
    BY <1>6 DEF Empty
  <2> QED BY <1>3, <1>4, <2>4, <2>5 DEF w, j, r, type
<1>7. CASE x[p].t = "double" /\ x[p].v % 2 = 0
  <2>1. j[p] = Node("int64", x[p].v \div 2)
    BY <1>1, <1>3, <1>7, KnownTypes, NodesEqual
  <2>2. ~Empty(x, p)
    BY <1>7 DEF Empty
  <2>3. CASE p = <<>>
    <3>1. w[p] = Node("double", 2 * (x[p].v \div 2))
      BY <1>2, <1>4, <1>7, <2>1, <2>3, NodesEqual
    <3>2. 2 * (x[p].v \div 2) = x[p].v
      BY <1>5, <1>7, HalvesAndWholes
    <3>3. w[p] = x[p]
      BY <1>5, <1>7, <3>1, <3>2
    <3> QED BY <1>3, <1>4, <2>2, <2>3, <3>3 DEF w, j, r, type
  <2>4. CASE p # <<>>
    <3>1. w[p].t = "int"
      BY <1>4, <2>1, <2>4, NodesEqual
    <3>2. w[p] # x[p]
      BY <1>7, <3>1
    <3> QED BY <1>3, <1>4, <1>7, <2>4, <3>2 DEF w, j, r, type
  <2> QED BY <2>3, <2>4
<1>8. CASE x[p].t # "int" /\ ~(x[p].t = "double" /\ x[p].v % 2 = 0)
  <2>1. r[p].t = SdkType[x[p].t] /\ r[p].v = x[p].v
    BY <1>1, NodesEqual
  <2>2. j[p] = r[p] /\ j[p].t # "int64"
    BY <1>3, <1>5, <1>8, <2>1, TypesOfRos
  <2>3. Empty(j, p) <=> Empty(x, p)
    BY <1>3, <1>5, <2>1, <2>2, TypesOfRos, SameShapeSameEmpty
  <2>4. CASE Empty(x, p)
    <3>1. w[p].t = "invalid"
      BY <1>4, <2>2, <2>3, <2>4, NodesEqual
    <3>2. w[p] # x[p]
      BY <1>5, <3>1, KnownTypes
    <3> QED BY <1>3, <1>4, <2>4, <3>2 DEF w, j, r, type
  <2>5. CASE ~Empty(x, p)
    <3>1. w[p] = Node(x[p].t, x[p].v)
      BY <1>4, <1>5, <2>1, <2>2, <2>3, <2>5, TypesOfRos
    <3>2. w[p] = x[p]
      BY <1>5, <3>1
    <3> QED BY <1>3, <1>4, <1>8, <2>5, <3>2 DEF w, j, r, type
  <2> QED BY <2>4, <2>5
<1> QED BY <1>6, <1>7, <1>8

LEMMA WrittenBackKept ==
  ASSUME NEW x, RosValue(x)
  PROVE  LET read == fromRosParam(x)
             back == AsJson(read.value)
         IN ((/\ ~FromThrows(x) /\ ~ToThrows(back)
              /\ toRosParam(back, read.type) = x)
               <=> (Keeps(x) /\ \A p \in DOMAIN x : ~TooDeep(Len(p) + 1)))
<1> DEFINE back == AsJson(fromRosParam(x).value)
           again == toRosParam(back, fromRosParam(x).type)
<1>1. CASE FromThrows(x)
  BY <1>1 DEF FromThrows, Keeps
<1>2. CASE ~FromThrows(x)
  <2>1. <<>> \in DOMAIN x /\ x = [p \in DOMAIN x |-> x[p]]
        /\ \A p \in DOMAIN x : Len(p) \in Nat
    BY DEF RosValue, Tree
  <2>2. /\ DOMAIN back = DOMAIN x /\ DOMAIN again = DOMAIN x
        /\ \A p \in DOMAIN x :
             again[p] = x[p] <=>
               ~Empty(x, p) /\ (x[p].t = "double" /\ x[p].v % 2 = 0 => p = <<>>)
    BY <1>2, <2>1, BackNode
  <2>3. again = [p \in DOMAIN back |-> again[p]]
    BY DEF toRosParam
  <2> HIDE DEF back, again
  <2>4. again = x <=> \A p \in DOMAIN x : again[p] = x[p]
    BY <2>1, <2>2, <2>3
  <2>5. \A p \in DOMAIN x : x[p].t \in DOMAIN SdkType /\ ~TooDeep(Len(p) + 1)
    BY <1>2 DEF FromThrows
  <2>6. ~ToThrows(back)
    BY <2>1, <2>2, <2>5, ValuesAssumption DEF ToThrows, TooDeep
  <2>7. again = x <=> Keeps(x)
    BY <2>2, <2>4, <2>5 DEF Keeps
  <2> QED BY <1>2, <2>5, <2>6, <2>7 DEF again, back
<1> QED BY <1>1, <1>2

(* What a client is told of one member of a value it has set.               *)
LEMMA EchoNode ==
  ASSUME NEW x, SdkValue(x), ~HasEmpty(x), NEW type, NEW p \in DOMAIN x,
         ~FromThrows(toRosParam(x, type))
  PROVE  LET e == fromRosParam(toRosParam(x, type)).value
         IN /\ DOMAIN AsJson(e) = DOMAIN x /\ DOMAIN AsJson(x) = DOMAIN x
            /\ AsJson(e)[p] = AsJson(x)[p] <=>
                 (x[p].t = "int64" =>
                    x[p].v \in Ints \/ (p = <<>> /\ type = "float64"))
<1> DEFINE w == toRosParam(x, type)
           e == fromRosParam(w).value
           j == AsJson(e)
           k == AsJson(x)
           hint == p = <<>> /\ type = "float64"
<1>1. ~Empty(x, p)
  BY DEF HasEmpty
<1>2. /\ DOMAIN w = DOMAIN x
      /\ x[p].t = "int64" => w[p] = IF hint THEN Node("double", 2 * x[p].v)
                                    ELSE Node("int", Narrow(x[p].v))
      /\ x[p].t # "int64" => w[p] = Node(RosType[x[p].t], x[p].v)
  BY <1>1, WrittenNode
<1>3. RosValue(w)
  BY WrittenIsRos
<1> HIDE DEF w
<1>4. SdkValue(e) /\ DOMAIN e = DOMAIN x /\ e[p] = Node(SdkType[w[p].t], w[p].v)
  BY <1>2, <1>3, ReadNode DEF w
<1> HIDE DEF e
<1>5. /\ DOMAIN j = DOMAIN x
      /\ j[p] = IF e[p].t = "float64" /\ e[p].v % 2 = 0
                THEN Node("int64", e[p].v \div 2) ELSE e[p]
  BY <1>4, JsonNode
<1>6. /\ DOMAIN k = DOMAIN x
      /\ k[p] = IF x[p].t = "float64" /\ x[p].v % 2 = 0
                THEN Node("int64", x[p].v \div 2) ELSE x[p]
  BY JsonNode
<1> HIDE DEF j, k
<1>7. x[p] = Node(x[p].t, x[p].v) /\ x[p].v \in Int /\ x[p].t \in DOMAIN RosType
  BY NodeOfTree DEF SdkValue
<1> SUFFICES j[p] = k[p] <=> (x[p].t = "int64" => x[p].v \in Ints \/ hint)
  BY <1>5, <1>6 DEF j, k, e, w
<1>8. CASE x[p].t = "int64" /\ hint
  <2>1. e[p].t = "float64" /\ e[p].v = 2 * x[p].v
    BY <1>2, <1>4, <1>8, NodesEqual, KnownTypes
  <2>2. j[p] = Node("int64", x[p].v)
    BY <1>5, <1>7, <2>1, HalvesAndWholes
  <2> QED BY <1>6, <1>7, <1>8, <2>2
<1>9. CASE x[p].t = "int64" /\ ~hint
  <2>1. e[p] = Node("int64", Narrow(x[p].v))
    BY <1>2, <1>4, <1>9, NodesEqual, KnownTypes
  <2>2. j[p] = Node("int64", Narrow(x[p].v)) /\ k[p] = Node("int64", x[p].v)
    BY <1>5, <1>6, <1>7, <1>9, <2>1, NodesEqual
  <2>3. Narrow(x[p].v) = x[p].v <=> x[p].v \in Ints
    BY <1>7, NarrowFits
  <2> QED BY <1>9, <2>2, <2>3, NodesEqual
<1>10. CASE x[p].t # "int64"
  <2>1. e[p] = x[p]
    BY <1>2, <1>4, <1>7, <1>10, NodesEqual, TypesOfSdk
  <2> QED BY <1>5, <1>6, <1>10, <2>1
<1> QED BY <1>8, <1>9, <1>10

(* A client that sets a value, and can have it read back, is told the same  *)
(* value exactly if it fits.                                                *)
LEMMA EchoIsTrue ==
  ASSUME NEW item \in Items, item.value # Unset, ~HasEmpty(item.value)
  PROVE  LET w == toRosParam(item.value, item.type)
         IN /\ RosValue(w) /\ ~FromThrows(w)
            /\ AsJson(fromRosParam(w).value) = AsJson(item.value) <=> Fits(item)
<1> DEFINE x == item.value
           type == item.type
           w == toRosParam(x, type)
           e == fromRosParam(w).value
<1>1. SdkValue(x) /\ \A p \in DOMAIN x : ~TooDeep(Len(p) + 1)
  BY ValuesAssumption
<1>2. RosValue(w)
  BY <1>1, WrittenIsRos
<1>3. \A p \in DOMAIN x : w[p].t \in DOMAIN SdkType
  <2> SUFFICES ASSUME NEW p \in DOMAIN x  PROVE w[p].t \in DOMAIN SdkType
    OBVIOUS
  <2>1. ~Empty(x, p) /\ x[p].t \in DOMAIN RosType
    BY <1>1 DEF HasEmpty, SdkValue
  <2>2. /\ x[p].t = "int64" => w[p].t \in {"int", "double"}
        /\ x[p].t # "int64" => w[p].t = RosType[x[p].t]
    BY <1>1, <2>1, WrittenNode, NodesEqual
  <2> QED BY <2>1, <2>2, KnownTypes, TypesOfSdk
<1>4. DOMAIN w = DOMAIN x
  BY DEF toRosParam
<1>5. ~FromThrows(w)
  BY <1>1, <1>3, <1>4 DEF FromThrows
<1>6. /\ DOMAIN AsJson(e) = DOMAIN x /\ DOMAIN AsJson(x) = DOMAIN x
      /\ \A p \in DOMAIN x :
           AsJson(e)[p] = AsJson(x)[p] <=>
             (x[p].t = "int64" => x[p].v \in Ints \/ (p = <<>> /\ type = "float64"))
  <2>1. <<>> \in DOMAIN x
    BY <1>1 DEF SdkValue, Tree
  <2>2. ~HasEmpty(x)
    OBVIOUS
  <2>3. ASSUME NEW p \in DOMAIN x
        PROVE  /\ DOMAIN AsJson(e) = DOMAIN x /\ DOMAIN AsJson(x) = DOMAIN x
               /\ AsJson(e)[p] = AsJson(x)[p] <=>
                    (x[p].t = "int64" => x[p].v \in Ints \/ (p = <<>> /\ type = "float64"))
    <3> HIDE DEF x, type
    <3> QED BY <1>1, <1>5, <2>2, EchoNode DEF e, w
  <2> QED BY <2>1, <2>3
<1>7. AsJson(e) = AsJson(x) <=> \A p \in DOMAIN x : AsJson(e)[p] = AsJson(x)[p]
  <2> DEFINE j == AsJson(e)
             k == AsJson(x)
  <2>1. j = [p \in DOMAIN j |-> j[p]] /\ k = [p \in DOMAIN k |-> k[p]]
        /\ DOMAIN j = DOMAIN k /\ DOMAIN k = DOMAIN x
    BY <1>6 DEF AsJson
  <2> HIDE DEF j, k
  <2>2. j = k <=> \A p \in DOMAIN x : j[p] = k[p]
    BY <2>1
  <2> QED BY <2>2 DEF j, k
<1>8. AsJson(e) = AsJson(x) <=> Fits(item)
  <2> HIDE DEF e
  <2> QED BY <1>6, <1>7 DEF Fits
<1> QED BY <1>2, <1>5, <1>8

-----------------------------------------------------------------------------
(* Paths and the master's tree                                              *)

Path == Seq(Nat)
Drop(p, q) == SubSeq(q, Len(p) + 1, Len(q))

LEMMA PathLen ==
  ASSUME NEW p \in Path
  PROVE  Len(p) \in Nat /\ \A i \in 1 .. Len(p) : p[i] \in Nat
  BY DEF Path

LEMMA Joined ==
  ASSUME NEW p \in Path, NEW r \in Path
  PROVE  /\ p \o r \in Path /\ Prefix(p, p \o r) /\ Drop(p, p \o r) = r
         /\ Len(p \o r) = Len(p) + Len(r)
<1> DEFINE q == p \o r
<1>1. /\ q \in Seq(Nat) /\ Len(q) = Len(p) + Len(r)
      /\ \A i \in 1 .. Len(p) + Len(r) : q[i] = IF i <= Len(p) THEN p[i] ELSE r[i - Len(p)]
  BY ConcatProperties DEF Path
<1>2. Len(p) \in Nat /\ Len(r) \in Nat
  BY PathLen
<1> HIDE DEF q
<1>3. Prefix(p, q)
  BY <1>1, <1>2 DEF Prefix
<1>4. Drop(p, q) = r
  <2>1. \A i \in Len(p) + 1 .. Len(q) : q[i] \in Nat
    BY <1>1, <1>2, PathLen DEF Path
  <2>2. /\ Drop(p, q) \in Seq(Nat)
        /\ Len(Drop(p, q)) = Len(r)
        /\ \A i \in 1 .. Len(r) : Drop(p, q)[i] = q[Len(p) + 1 + i - 1]
    BY <1>1, <1>2, <2>1, SubSeqProperties DEF Drop
  <2>3. ASSUME NEW i \in 1 .. Len(r)  PROVE Drop(p, q)[i] = r[i]
    <3>1. Len(p) + i \in 1 .. Len(p) + Len(r) /\ ~(Len(p) + i <= Len(p))
          /\ Len(p) + 1 + i - 1 = Len(p) + i /\ (Len(p) + i) - Len(p) = i
      BY <1>2
    <3> QED BY <1>1, <2>2, <3>1
  <2> QED BY <2>2, <2>3, SeqEqual DEF Path
<1> QED BY <1>1, <1>3, <1>4 DEF q, Path

LEMMA Dropped ==
  ASSUME NEW p \in Path, NEW q \in Path, Prefix(p, q)
  PROVE  Drop(p, q) \in Path /\ p \o Drop(p, q) = q
<1> DEFINE r == Drop(p, q)
           s == p \o r
<1>1. Len(p) \in Nat /\ Len(q) \in Nat /\ Len(p) <= Len(q)
      /\ \A i \in 1 .. Len(p) : p[i] = q[i]
  BY PathLen DEF Prefix
<1>2. \A i \in Len(p) + 1 .. Len(q) : q[i] \in Nat
  BY <1>1, PathLen
<1>3. /\ r \in Seq(Nat) /\ Len(r) = Len(q) - Len(p)
      /\ \A i \in 1 .. Len(r) : r[i] = q[Len(p) + 1 + i - 1]
  BY <1>1, <1>2, SubSeqProperties DEF Drop
<1> HIDE DEF r
<1>4. /\ s \in Seq(Nat) /\ Len(s) = Len(p) + Len(r)
      /\ \A i \in 1 .. Len(p) + Len(r) : s[i] = IF i <= Len(p) THEN p[i] ELSE r[i - Len(p)]
  BY <1>3, ConcatProperties DEF Path
<1> HIDE DEF s
<1>5. ASSUME NEW i \in 1 .. Len(q)  PROVE s[i] = q[i]
  <2>1. CASE i <= Len(p)
    BY <1>1, <1>3, <1>4, <2>1
  <2>2. CASE ~(i <= Len(p))
    <3>1. i \in 1 .. Len(p) + Len(r) /\ i - Len(p) \in 1 .. Len(r)
          /\ Len(p) + 1 + (i - Len(p)) - 1 = i
      BY <1>1, <1>3, <2>2
    <3> QED BY <1>3, <1>4, <2>2, <3>1
  <2> QED BY <2>1, <2>2
<1>6. s = q
  BY <1>1, <1>3, <1>4, <1>5, SeqEqual DEF Path
<1> QED BY <1>3, <1>6 DEF r, s, Path

LEMMA Prefixes ==
  ASSUME NEW a \in Path, NEW b \in Path, NEW q \in Path
  PROVE  /\ Prefix(a, a)
         /\ Prefix(a, b) /\ Prefix(b, q) => Prefix(a, q)
         /\ Prefix(a, b) /\ Prefix(b, a) => a = b
         /\ Prefix(a, q) /\ Prefix(b, q) => Overlap(a, b)
<1>1. Len(a) \in Nat /\ Len(b) \in Nat /\ Len(q) \in Nat
  BY PathLen
<1>2. ASSUME Prefix(a, b), Prefix(b, a)  PROVE a = b
  BY <1>1, <1>2, SeqEqual DEF Prefix, Path
<1> QED BY <1>1, <1>2 DEF Prefix, Overlap

LEMMA AboveIs ==
  ASSUME NEW p \in Path
  PROVE  /\ \A a : a \in Above(p) <=> a \in Path /\ Prefix(a, p) /\ ~Prefix(p, a)
         /\ IsFiniteSet(Above(p))
<1>1. Len(p) \in Nat /\ \A i \in 1 .. Len(p) : p[i] \in Nat
  BY PathLen
<1>2. ASSUME NEW k \in 0 .. Len(p) - 1
      PROVE  LET a == SubSeq(p, 1, k) IN
             a \in Path /\ Len(a) = k /\ \A i \in 1 .. k : a[i] = p[i]
  <2>1. \A i \in 1 .. k : p[i] \in Nat
    BY <1>1
  <2>2. /\ SubSeq(p, 1, k) \in Seq(Nat)
        /\ Len(SubSeq(p, 1, k)) = IF 1 <= k THEN k - 1 + 1 ELSE 0
        /\ \A i \in 1 .. k - 1 + 1 : SubSeq(p, 1, k)[i] = p[1 + i - 1]
    BY <1>1, <2>1, SubSeqProperties
  <2> QED BY <1>1, <2>2 DEF Path
<1>3. ASSUME NEW a \in Above(p)  PROVE a \in Path /\ Prefix(a, p) /\ ~Prefix(p, a)
  <2>1. PICK k \in 0 .. Len(p) - 1 : a = SubSeq(p, 1, k)
    BY DEF Above
  <2>2. a \in Path /\ Len(a) = k /\ \A i \in 1 .. k : a[i] = p[i]
    BY <1>2, <2>1
  <2> QED BY <1>1, <2>2 DEF Prefix
<1>4. ASSUME NEW a \in Path, Prefix(a, p), ~Prefix(p, a)  PROVE a \in Above(p)
  <2>1. Len(a) \in Nat /\ Len(a) <= Len(p) /\ \A i \in 1 .. Len(a) : a[i] = p[i]
    BY <1>4, PathLen DEF Prefix
  <2>2. Len(a) \in 0 .. Len(p) - 1
    BY <1>1, <1>4, <2>1 DEF Prefix
  <2>3. a = SubSeq(p, 1, Len(a))
    BY <1>2, <2>1, <2>2, SeqEqual DEF Path
  <2> QED BY <2>2, <2>3 DEF Above
<1>5. IsFiniteSet(Above(p))
  <2> DEFINE f == [k \in 0 .. Len(p) - 1 |-> SubSeq(p, 1, k)]
  <2>1. f \in Surjection(0 .. Len(p) - 1, Above(p))
    BY DEF Surjection, Above
  <2>2. IsFiniteSet(0 .. Len(p) - 1)
    BY <1>1, FS_Interval
  <2> QED BY <2>1, <2>2, FS_Surjection
<1> QED BY <1>3, <1>4, <1>5

LEMMA JoinedPrefix ==
  ASSUME NEW p \in Path, NEW r \in Path, NEW a \in Path
  PROVE  /\ Prefix(a, p \o r) => Prefix(a, p) \/ Prefix(p, a)
         /\ Prefix(p \o a, p \o r) <=> Prefix(a, r)
<1>1. Prefix(p, p \o r) /\ p \o r \in Path
  BY Joined
<1>2. Prefix(a, p \o r) => Prefix(a, p) \/ Prefix(p, a)
  BY <1>1, Prefixes DEF Overlap
<1>3. Len(p) \in Nat /\ Len(a) \in Nat /\ Len(r) \in Nat
  BY PathLen
<1> DEFINE s == p \o a
           t == p \o r
<1>4. /\ Len(s) = Len(p) + Len(a) /\ Len(t) = Len(p) + Len(r)
      /\ \A i \in 1 .. Len(p) + Len(a) : s[i] = IF i <= Len(p) THEN p[i] ELSE a[i - Len(p)]
      /\ \A i \in 1 .. Len(p) + Len(r) : t[i] = IF i <= Len(p) THEN p[i] ELSE r[i - Len(p)]
  BY ConcatProperties DEF Path
<1> HIDE DEF s, t
<1>5. ASSUME Prefix(s, t)  PROVE Prefix(a, r)
  <2>1. Len(a) <= Len(r) /\ \A i \in 1 .. Len(p) + Len(a) : s[i] = t[i]
    BY <1>3, <1>4, <1>5 DEF Prefix
  <2>2. ASSUME NEW i \in 1 .. Len(a)  PROVE a[i] = r[i]
    <3>1. Len(p) + i \in 1 .. Len(p) + Len(a) /\ ~(Len(p) + i <= Len(p))
          /\ Len(p) + i \in 1 .. Len(p) + Len(r) /\ (Len(p) + i) - Len(p) = i
      BY <1>3, <2>1
    <3>2. s[Len(p) + i] = a[i] /\ t[Len(p) + i] = r[i]
      BY <1>4, <3>1
    <3> QED BY <2>1, <3>1, <3>2
  <2> QED BY <2>1, <2>2 DEF Prefix
<1>6. ASSUME Prefix(a, r)  PROVE Prefix(s, t)
  BY <1>3, <1>4, <1>6 DEF Prefix
<1> QED BY <1>2, <1>5, <1>6 DEF s, t
LEMMA PathsOf ==
  ASSUME NEW m, Tree(m)
  PROVE  /\ DOMAIN m \subseteq Path /\ IsFiniteSet(DOMAIN m) /\ <<>> \in DOMAIN m
         /\ m = [q \in DOMAIN m |-> m[q]]
         /\ \A q \in DOMAIN m : /\ m[q] = Node(m[q].t, m[q].v) /\ m[q].v \in Int
                                /\ Above(q) \subseteq DOMAIN m
<1>1. m = [q \in DOMAIN m |-> m[q]]
  BY DEF Tree
<1> QED BY <1>1, NodeOfTree DEF Tree, Path

LEMMA AtIs ==
  ASSUME NEW m, Tree(m), NEW p \in Path, Has(m, p)
  PROVE  LET v == At(m, p) IN
         /\ \A r : r \in DOMAIN v <=> r \in Path /\ p \o r \in DOMAIN m
         /\ v = [r \in DOMAIN v |-> m[p \o r]]
<1> DEFINE v == At(m, p)
           D == {Drop(p, q) : q \in {k \in DOMAIN m : Prefix(p, k)}}
<1>1. v = [r \in D |-> m[p \o r]]
  BY DEF At, Drop
<1>2. ASSUME NEW r \in D  PROVE r \in Path /\ p \o r \in DOMAIN m
  <2>1. PICK q \in DOMAIN m : Prefix(p, q) /\ r = Drop(p, q)
    OBVIOUS
  <2>2. q \in Path
    BY PathsOf
  <2> QED BY <2>1, <2>2, Dropped
<1>3. ASSUME NEW r \in Path, p \o r \in DOMAIN m  PROVE r \in D
  <2>1. Prefix(p, p \o r) /\ Drop(p, p \o r) = r
    BY Joined
  <2> QED BY <1>3, <2>1
<1> HIDE DEF v, D
<1>4. DOMAIN v = D
  BY <1>1
<1> QED BY <1>1, <1>2, <1>3, <1>4 DEF v

LEMMA AtIsRos ==
  ASSUME NEW m, RosValue(m), NEW p \in Path
  PROVE  At(m, p) = Unset \/ RosValue(At(m, p))
<1> SUFFICES ASSUME Has(m, p)  PROVE RosValue(At(m, p))
  BY DEF At
<1>1. Tree(m)
  BY DEF RosValue
<1> DEFINE v == At(m, p)
<1>2. /\ \A r : r \in DOMAIN v <=> r \in Path /\ p \o r \in DOMAIN m
      /\ v = [r \in DOMAIN v |-> m[p \o r]]
  BY <1>1, AtIs
<1> HIDE DEF v
<1>3. IsFiniteSet(DOMAIN v)
  <2> DEFINE B == {k \in DOMAIN m : Prefix(p, k)}
             f == [q \in B |-> Drop(p, q)]
  <2>1. IsFiniteSet(B)
    BY <1>1, PathsOf, FS_Subset
  <2>2. ASSUME NEW q \in B  PROVE f[q] \in DOMAIN v
    <3>1. q \in Path /\ q \in DOMAIN m /\ Prefix(p, q)
      BY <1>1, PathsOf
    <3>2. Drop(p, q) \in Path /\ p \o Drop(p, q) = q
      BY <3>1, Dropped
    <3> QED BY <1>2, <3>1, <3>2
  <2>3. ASSUME NEW r \in DOMAIN v  PROVE \E q \in B : f[q] = r
    BY <1>2, Joined
  <2>4. f \in Surjection(B, DOMAIN v)
    BY <2>2, <2>3 DEF Surjection
  <2> QED BY <2>1, <2>4, FS_Surjection
<1>4. <<>> \in DOMAIN v
  <2>1. <<>> \in Path /\ p \o <<>> = p
    BY ConcatEmptySeq DEF Path
  <2> QED BY <1>2, <2>1 DEF Has
<1>5. ASSUME NEW r \in DOMAIN v
      PROVE  /\ v[r] = Node(v[r].t, v[r].v) /\ v[r].v \in Int
             /\ v[r].t = "int" => v[r].v \in Ints
  <2>1. v[r] = m[p \o r] /\ p \o r \in DOMAIN m
    BY <1>2
  <2> QED BY <1>1, <2>1, PathsOf DEF RosValue
<1>6. ASSUME NEW r \in DOMAIN v, NEW a \in Above(r)  PROVE a \in DOMAIN v
  <2>1. r \in Path /\ p \o r \in DOMAIN m /\ a \in Path /\ Prefix(a, r) /\ ~Prefix(r, a)
    BY <1>2, AboveIs
  <2>2. Prefix(p \o a, p \o r) /\ ~Prefix(p \o r, p \o a)
    BY <2>1, JoinedPrefix
  <2>3. p \o a \in Path /\ p \o r \in Path
    BY <2>1, Joined
  <2>4. p \o a \in Above(p \o r)
    BY <2>2, <2>3, AboveIs
  <2>5. p \o a \in DOMAIN m
    BY <1>1, <2>1, <2>4, PathsOf
  <2> QED BY <1>2, <2>1, <2>5
<1>7. v = [r \in DOMAIN v |-> Node(v[r].t, v[r].v)]
  <2>1. v = [r \in DOMAIN v |-> v[r]]
    BY <1>2
  <2> QED BY <1>5, <2>1
<1>8. Tree(v)
  BY <1>2, <1>3, <1>4, <1>5, <1>6, <1>7 DEF Tree, Path
<1> QED BY <1>5, <1>8 DEF RosValue, v

(* What stays of a tree when a value is set at a path. *)
Kept(m, p) ==
  {k \in DOMAIN m : ~Prefix(p, k)
                    /\ \A a \in Above(p) \cap DOMAIN m : m[a].t # "struct" => ~Prefix(a, k)}

LEMMA WithIs ==
  ASSUME NEW m, NEW x, NEW p \in Path
  PROVE  LET w == With(m, p, x) IN
         /\ \A q : q \in DOMAIN w <=>
              q \in Kept(m, p) \/ q \in Above(p) \/ \E r \in DOMAIN x : q = p \o r
         /\ \A q \in DOMAIN w :
              w[q] = IF Prefix(p, q) THEN x[Drop(p, q)]
                     ELSE IF q \in Kept(m, p) THEN m[q] ELSE Node("struct", 0)
         /\ w = [q \in DOMAIN w |-> w[q]]
<1> DEFINE blocking == {a \in Above(p) \cap DOMAIN m : m[a].t # "struct"}
           kept == {k \in DOMAIN m : \A a \in blocking \cup {p} : ~Prefix(a, k)}
           D == kept \cup Above(p) \cup {p \o r : r \in DOMAIN x}
           w == With(m, p, x)
<1>1. kept = Kept(m, p)
  BY DEF Kept
<1>2. w = [q \in D |-> IF Prefix(p, q) THEN x[SubSeq(q, Len(p) + 1, Len(q))]
                       ELSE IF q \in kept THEN m[q] ELSE Node("struct", 0)]
  BY Zenon DEF With
<1>3. \A q : q \in D <=> q \in kept \/ q \in Above(p) \/ \E r \in DOMAIN x : q = p \o r
  OBVIOUS
<1> HIDE DEF D, kept, w
<1>4. DOMAIN w = D /\ w = [q \in DOMAIN w |-> w[q]]
  BY <1>2
<1>5. \A q \in D : w[q] = IF Prefix(p, q) THEN x[SubSeq(q, Len(p) + 1, Len(q))]
                         ELSE IF q \in kept THEN m[q] ELSE Node("struct", 0)
  BY <1>2
<1> QED BY <1>1, <1>3, <1>4, <1>5, Zenon DEF w, Drop

(* Setting a value keeps a tree a tree of what XML-RPC has. *)
LEMMA WithIsRos ==
  ASSUME NEW m, RosValue(m), m[<<>>].t = "struct", NEW p \in Path, p # <<>>,
         NEW x, RosValue(x)
  PROVE  RosValue(With(m, p, x)) /\ With(m, p, x)[<<>>].t = "struct"
<1> DEFINE w == With(m, p, x)
<1>1. /\ \A q : q \in DOMAIN w <=>
              q \in Kept(m, p) \/ q \in Above(p) \/ \E r \in DOMAIN x : q = p \o r
      /\ \A q \in DOMAIN w :
           w[q] = IF Prefix(p, q) THEN x[Drop(p, q)]
                  ELSE IF q \in Kept(m, p) THEN m[q] ELSE Node("struct", 0)
      /\ w = [q \in DOMAIN w |-> w[q]]
  BY WithIs
<1>2. Tree(m) /\ Tree(x)
  BY DEF RosValue
<1> HIDE DEF w
<1>3. ASSUME NEW q \in DOMAIN w
      PROVE  /\ q \in Path
             /\ Prefix(p, q) => q = p \o Drop(p, q) /\ Drop(p, q) \in DOMAIN x
             /\ w[q] = IF Prefix(p, q) THEN x[Drop(p, q)]
                       ELSE IF q \in Kept(m, p) THEN m[q] ELSE Node("struct", 0)
  <2>1. CASE q \in Kept(m, p)
    BY <1>1, <1>2, <2>1, PathsOf DEF Kept
  <2>2. CASE q \in Above(p)
    BY <1>1, <2>2, AboveIs
  <2>3. CASE \E r \in DOMAIN x : q = p \o r
    BY <1>1, <1>2, <2>3, PathsOf, Joined
  <2> QED BY <1>1, <2>1, <2>2, <2>3
<1>4. IsFiniteSet(DOMAIN w)
  <2> DEFINE E == {p \o r : r \in DOMAIN x}
             f == [r \in DOMAIN x |-> p \o r]
  <2>1. IsFiniteSet(Kept(m, p))
    BY <1>2, PathsOf, FS_Subset DEF Kept
  <2>2. IsFiniteSet(Above(p))
    BY AboveIs
  <2>3. IsFiniteSet(E)
    <3>1. f \in Surjection(DOMAIN x, E)
      BY DEF Surjection
    <3> QED BY <1>2, <3>1, PathsOf, FS_Surjection
  <2>4. DOMAIN w = Kept(m, p) \cup Above(p) \cup E
    BY <1>1
  <2> HIDE DEF E
  <2> QED BY <2>1, <2>2, <2>3, <2>4, FS_Union
<1>5. <<>> \in DOMAIN w /\ w[<<>>].t = "struct"
  <2>1. <<>> \in Path /\ Prefix(<<>>, p) /\ ~Prefix(p, <<>>)
    <3>1. <<>> \in Path /\ Len(p) \in Nat /\ Len(<<>>) = 0
      BY PathLen DEF Path
    <3>2. Prefix(<<>>, p)
      BY <3>1 DEF Prefix
    <3> QED BY <3>1, <3>2, Prefixes
  <2>2. <<>> \in DOMAIN w
    BY <1>1, <2>1, AboveIs
  <2> QED BY <1>3, <2>1, <2>2, NodesEqual
<1>6. ASSUME NEW q \in DOMAIN w
      PROVE  /\ w[q] = Node(w[q].t, w[q].v) /\ w[q].v \in Int
             /\ w[q].t = "int" => w[q].v \in Ints
  <2>1. CASE Prefix(p, q)
    BY <1>2, <1>3, <2>1, PathsOf DEF RosValue
  <2>2. CASE ~Prefix(p, q) /\ q \in Kept(m, p)
    BY <1>2, <1>3, <2>2, PathsOf DEF RosValue, Kept
  <2>3. CASE ~Prefix(p, q) /\ q \notin Kept(m, p)
    <3>1. w[q] = Node("struct", 0)
      BY <1>3, <2>3
    <3> QED BY <3>1, NodesEqual
  <2> QED BY <2>1, <2>2, <2>3
<1>7. ASSUME NEW q \in DOMAIN w, NEW a \in Above(q)  PROVE a \in DOMAIN w
  <2>1. q \in Path /\ a \in Path /\ Prefix(a, q) /\ ~Prefix(q, a)
    BY <1>3, AboveIs
  <2>2. CASE q \in Kept(m, p)
    <3>1. a \in DOMAIN m
      BY <1>2, <2>2, PathsOf DEF Kept
    <3>2. ASSUME NEW b \in Path, ~Prefix(b, q)  PROVE ~Prefix(b, a)
      BY <2>1, <3>2, Prefixes
    <3>3. a \in Kept(m, p)
      BY <2>2, <3>1, <3>2, AboveIs DEF Kept
    <3> QED BY <1>1, <3>3
  <2>3. CASE q \in Above(p)
    <3>1. Prefix(q, p) /\ ~Prefix(p, q)
      BY <2>3, AboveIs
    <3>2. Prefix(a, p) /\ ~Prefix(p, a)
      BY <2>1, <3>1, Prefixes
    <3> QED BY <1>1, <2>1, <3>2, AboveIs
  <2>4. ASSUME NEW r \in DOMAIN x, q = p \o r  PROVE a \in DOMAIN w
    <3>1. r \in Path
      BY <1>2, PathsOf
    <3>2. CASE ~Prefix(p, a)
      <4>1. Prefix(a, p)
        BY <2>1, <2>4, <3>1, <3>2, JoinedPrefix
      <4> QED BY <1>1, <2>1, <3>2, <4>1, AboveIs
    <3>3. CASE Prefix(p, a)
      <4> DEFINE c == Drop(p, a)
      <4>1. c \in Path /\ p \o c = a
        BY <2>1, <3>3, Dropped
      <4> HIDE DEF c
      <4>2. Prefix(c, r) /\ ~Prefix(r, c)
        BY <2>1, <2>4, <3>1, <4>1, JoinedPrefix
      <4>3. c \in DOMAIN x
        BY <1>2, <3>1, <4>1, <4>2, AboveIs, PathsOf
      <4> QED BY <1>1, <4>1, <4>3
    <3> QED BY <3>2, <3>3
  <2> QED BY <1>1, <2>2, <2>3, <2>4
<1>8. w = [q \in DOMAIN w |-> Node(w[q].t, w[q].v)]
  <2>1. w = [q \in DOMAIN w |-> w[q]]
    BY <1>1
  <2> QED BY <1>6, <2>1
<1>9. Tree(w)
  BY <1>3, <1>4, <1>5, <1>6, <1>7, <1>8 DEF Tree, Path
<1> QED BY <1>5, <1>6, <1>9 DEF RosValue, w

LEMMA WithoutIsRos ==
  ASSUME NEW m, RosValue(m), m[<<>>].t = "struct", NEW p \in Path, p # <<>>
  PROVE  RosValue(Without(m, p)) /\ Without(m, p)[<<>>].t = "struct"
<1> DEFINE w == Without(m, p)
<1>1. Tree(m) /\ w = [q \in {k \in DOMAIN m : ~Prefix(p, k)} |-> m[q]]
  BY DEF RosValue, Without
<1> HIDE DEF w
<1>2. /\ \A q : q \in DOMAIN w <=> q \in DOMAIN m /\ ~Prefix(p, q)
      /\ \A q \in DOMAIN w : w[q] = m[q]
      /\ w = [q \in DOMAIN w |-> w[q]]
  BY <1>1
<1>3. <<>> \in DOMAIN w
  <2>1. <<>> \in Path /\ Len(p) \in Nat /\ Len(<<>>) = 0
    BY PathLen DEF Path
  <2>2. Prefix(<<>>, p)
    BY <2>1 DEF Prefix
  <2>3. ~Prefix(p, <<>>)
    BY <2>1, <2>2, Prefixes
  <2> QED BY <1>1, <1>2, <2>3, PathsOf
<1>4. ASSUME NEW q \in DOMAIN w, NEW a \in Above(q)  PROVE a \in DOMAIN w
  <2>1. q \in Path /\ a \in Path /\ Prefix(a, q) /\ a \in DOMAIN m
    BY <1>1, <1>2, PathsOf, AboveIs
  <2>2. ~Prefix(p, a)
    BY <1>2, <2>1, Prefixes
  <2> QED BY <1>2, <2>1, <2>2
<1>5. w = [q \in DOMAIN w |-> Node(w[q].t, w[q].v)]
  BY <1>1, <1>2, PathsOf
<1>6. IsFiniteSet(DOMAIN w)
  BY <1>1, <1>2, PathsOf, FS_Subset
<1>7. Tree(w)
  BY <1>1, <1>2, <1>3, <1>4, <1>5, <1>6, PathsOf DEF Tree, Path
<1> QED BY <1>2, <1>3, <1>7 DEF RosValue, w

LEMMA PutIsRos ==
  ASSUME NEW m, RosValue(m), m[<<>>].t = "struct", NEW p \in Path, p # <<>>,
         NEW x, x = Unset \/ RosValue(x)
  PROVE  RosValue(Put(m, p, x)) /\ Put(m, p, x)[<<>>].t = "struct"
  BY WithIsRos, WithoutIsRos DEF Put
(* What has been set is found at its name. *)
LEMMA AtPut ==
  ASSUME NEW m, RosValue(m), m[<<>>].t = "struct", NEW p \in Path, p # <<>>,
         NEW x, x = Unset \/ RosValue(x)
  PROVE  At(Put(m, p, x), p) = x
<1>1. CASE x # Unset
  <2> DEFINE w == With(m, p, x)
  <2>1. Tree(x) /\ Tree(m) /\ Tree(w)
    BY <1>1, WithIsRos DEF RosValue
  <2>2. /\ \A q : q \in DOMAIN w <=>
              q \in Kept(m, p) \/ q \in Above(p) \/ \E r \in DOMAIN x : q = p \o r
        /\ \A q \in DOMAIN w : w[q] = IF Prefix(p, q) THEN x[Drop(p, q)]
                   ELSE IF q \in Kept(m, p) THEN m[q] ELSE Node("struct", 0)
    BY WithIs
  <2> HIDE DEF w
  <2>3. ASSUME NEW a \in Above(p)  PROVE w[a].t = "struct"
    <3>1. a \in Path /\ ~Prefix(p, a) /\ a \in DOMAIN w /\ Prefix(a, a)
      BY <2>2, AboveIs, Prefixes
    <3>2. CASE a \in Kept(m, p)
      BY <2>2, <3>1, <3>2 DEF Kept
    <3>3. CASE a \notin Kept(m, p)
      BY <2>2, <3>1, <3>3, NodesEqual
    <3> QED BY <3>2, <3>3
  <2>4. Has(w, p)
    <3>1. <<>> \in DOMAIN x /\ p \o <<>> = p
      BY <2>1, PathsOf, ConcatEmptySeq DEF Path
    <3>2. p \in DOMAIN w
      BY <2>2, <3>1
    <3> QED BY <2>3, <3>2 DEF Has
  <2>5. ASSUME NEW r \in Path
        PROVE  /\ p \o r \in DOMAIN w <=> r \in DOMAIN x
               /\ p \o r \in DOMAIN w => w[p \o r] = x[r]
    <3>1. Prefix(p, p \o r) /\ Drop(p, p \o r) = r
      BY Joined
    <3>2. p \o r \notin Kept(m, p) /\ p \o r \notin Above(p)
      BY <3>1, AboveIs DEF Kept
    <3>3. ASSUME NEW s \in DOMAIN x, p \o r = p \o s  PROVE r = s
      <4>1. Drop(p, p \o s) = s
        BY <2>1, PathsOf, Joined
      <4> QED BY <3>1, <3>3, <4>1
    <3> QED BY <2>2, <3>1, <3>2, <3>3
  <2> DEFINE v == At(w, p)
  <2>6. /\ \A r : r \in DOMAIN v <=> r \in Path /\ p \o r \in DOMAIN w
        /\ v = [r \in DOMAIN v |-> w[p \o r]]
    BY <2>1, <2>4, AtIs
  <2> HIDE DEF v
  <2>7. DOMAIN v = DOMAIN x
    BY <2>1, <2>5, <2>6, PathsOf
  <2>8. v = x
    BY <2>1, <2>5, <2>6, <2>7, PathsOf
  <2> QED BY <1>1, <2>8 DEF w, v, Put
<1>2. CASE x = Unset /\ Has(m, p)
  <2>1. Prefix(p, p)
    BY Prefixes
  <2>2. ~Has(Without(m, p), p)
    BY <2>1 DEF Has, Without
  <2> QED BY <1>2, <2>2 DEF Put, At
<1>3. CASE x = Unset /\ ~Has(m, p)
  BY <1>3 DEF Put, At
<1> QED BY <1>1, <1>2, <1>3

(* Two trees that agree above and below a path have the same value there. *)
LEMMA SameAt ==
  ASSUME NEW m, Tree(m), NEW w, Tree(w), NEW q \in Path,
         Has(w, q) <=> Has(m, q),
         Has(m, q) => \A k \in Path : Prefix(q, k) =>
                        /\ k \in DOMAIN w <=> k \in DOMAIN m
                        /\ k \in DOMAIN m => w[k] = m[k]
  PROVE  At(w, q) = At(m, q)
<1>1. CASE ~Has(m, q)
  BY <1>1 DEF At
<1>2. CASE Has(m, q)
  <2> DEFINE u == At(w, q)
             v == At(m, q)
  <2>1. /\ \A r : r \in DOMAIN u <=> r \in Path /\ q \o r \in DOMAIN w
        /\ u = [r \in DOMAIN u |-> w[q \o r]]
        /\ \A r : r \in DOMAIN v <=> r \in Path /\ q \o r \in DOMAIN m
        /\ v = [r \in DOMAIN v |-> m[q \o r]]
    BY <1>2, AtIs
  <2> HIDE DEF u, v
  <2>2. ASSUME NEW r \in Path
        PROVE  /\ q \o r \in DOMAIN w <=> q \o r \in DOMAIN m
               /\ q \o r \in DOMAIN m => w[q \o r] = m[q \o r]
    BY <1>2, Joined
  <2>3. DOMAIN u = DOMAIN v
    BY <2>1, <2>2
  <2>4. u = v
    BY <2>1, <2>2, <2>3
  <2> QED BY <2>4 DEF u, v
<1> QED BY <1>1, <1>2

(* Setting or deleting a parameter leaves alone what is neither above nor  *)
(* below it.                                                               *)
LEMMA AtElsewhere ==
  ASSUME NEW m, RosValue(m), m[<<>>].t = "struct", NEW p \in Path, p # <<>>,
         NEW x, x = Unset \/ RosValue(x), NEW q \in Path, ~Overlap(p, q)
  PROVE  At(Put(m, p, x), q) = At(m, q)
<1>1. Tree(m) /\ Tree(Put(m, p, x)) /\ ~Prefix(p, q) /\ ~Prefix(q, p)
  BY PutIsRos DEF RosValue, Overlap
<1>2. ASSUME NEW k \in Path, Prefix(q, k)  PROVE ~Prefix(p, k) /\ ~Prefix(k, p)
  BY <1>1, <1>2, Prefixes DEF Overlap
<1>3. ASSUME NEW a \in Above(q)  PROVE a \in Path /\ ~Prefix(p, a) /\ Prefix(a, q) /\ ~Prefix(q, a)
  BY <1>1, AboveIs, Prefixes
<1>4. CASE x # Unset
  <2> DEFINE w == With(m, p, x)
  <2>1. /\ \A k : k \in DOMAIN w <=>
              k \in Kept(m, p) \/ k \in Above(p) \/ \E r \in DOMAIN x : k = p \o r
        /\ \A k \in DOMAIN w : w[k] = IF Prefix(p, k) THEN x[Drop(p, k)]
                   ELSE IF k \in Kept(m, p) THEN m[k] ELSE Node("struct", 0)
    <3>1. \A k : k \in DOMAIN w <=>
              k \in Kept(m, p) \/ k \in Above(p) \/ \E r \in DOMAIN x : k = p \o r
      BY WithIs
    <3>2. \A k \in DOMAIN w : w[k] = IF Prefix(p, k) THEN x[Drop(p, k)]
                   ELSE IF k \in Kept(m, p) THEN m[k] ELSE Node("struct", 0)
      BY WithIs
    <3> QED BY <3>1, <3>2
  <2>2. Tree(x) /\ Tree(w)
    BY <1>1, <1>4 DEF RosValue, Put
  <2> HIDE DEF w
  <2>3. ASSUME NEW k \in Path, Prefix(q, k)
        PROVE  /\ k \in DOMAIN w <=> k \in Kept(m, p)
               /\ k \in Kept(m, p) => w[k] = m[k]
    <3>1. ~Prefix(p, k) /\ k \notin Above(p)
      BY <1>2, <2>3, AboveIs
    <3>2. \A r \in DOMAIN x : k # p \o r
      BY <2>2, <3>1, PathsOf, Joined
    <3> QED BY <2>1, <3>1, <3>2
  <2>4. ASSUME Has(m, q), NEW k \in DOMAIN m, Prefix(q, k)  PROVE k \in Kept(m, p)
    <3>1. k \in Path
      BY <1>1, PathsOf
    <3>2. ASSUME NEW a \in Above(p), m[a].t # "struct", Prefix(a, k)  PROVE FALSE
      <4>1. a \in Path /\ Prefix(a, p)
        BY AboveIs
      <4>2. Prefix(a, q) \/ Prefix(q, a)
        BY <2>4, <3>1, <3>2, <4>1, Prefixes DEF Overlap
      <4>3. ~Prefix(q, a)
        BY <1>1, <4>1, Prefixes
      <4>4. a \in Above(q)
        BY <4>1, <4>2, <4>3, AboveIs
      <4> QED BY <2>4, <3>2, <4>4 DEF Has
    <3> QED BY <1>2, <2>4, <3>1, <3>2 DEF Kept
  <2>5. ASSUME q \in Kept(m, p), NEW a \in Above(q)  PROVE a \in Kept(m, p)
    <3>1. a \in DOMAIN m
      BY <1>1, <2>5, PathsOf DEF Kept
    <3>2. ASSUME NEW b \in Path, ~Prefix(b, q)  PROVE ~Prefix(b, a)
      BY <1>3, <3>2, Prefixes
    <3> QED BY <1>3, <2>5, <3>1, <3>2, AboveIs DEF Kept
  <2>6. Prefix(q, q)
    BY Prefixes
  <2>7. Has(w, q) <=> Has(m, q)
    <3>1. ASSUME q \in Kept(m, p), NEW a \in Above(q)  PROVE w[a] = m[a]
      BY <1>3, <2>1, <2>5, <3>1
    <3>2. ASSUME Has(m, q)  PROVE Has(w, q)
      BY <2>3, <2>4, <2>6, <3>1, <3>2 DEF Has
    <3>3. ASSUME Has(w, q)  PROVE Has(m, q)
      BY <2>3, <2>6, <3>1, <3>3 DEF Has, Kept
    <3> QED BY <3>2, <3>3
  <2>8. ASSUME Has(m, q), NEW k \in Path, Prefix(q, k)
        PROVE  /\ k \in DOMAIN w <=> k \in DOMAIN m
               /\ k \in DOMAIN m => w[k] = m[k]
    BY <2>3, <2>4, <2>8 DEF Kept
  <2>9. At(w, q) = At(m, q)
    BY <1>1, <2>2, <2>7, <2>8, SameAt
  <2> QED BY <1>4, <2>9 DEF w, Put
<1>5. CASE x = Unset /\ Has(m, p)
  <2> DEFINE w == Without(m, p)
  <2>1. /\ \A k : k \in DOMAIN w <=> k \in DOMAIN m /\ ~Prefix(p, k)
        /\ \A k \in DOMAIN w : w[k] = m[k]
    BY DEF Without
  <2>2. Tree(w)
    BY <1>1, <1>5 DEF Put
  <2> HIDE DEF w
  <2>3. Has(w, q) <=> Has(m, q)
    <3>1. ASSUME q \in DOMAIN m, NEW a \in Above(q)  PROVE a \in DOMAIN w /\ w[a] = m[a]
      BY <1>1, <1>3, <2>1, <3>1, PathsOf
    <3>2. q \in DOMAIN w <=> q \in DOMAIN m
      BY <1>1, <2>1
    <3> QED BY <3>1, <3>2 DEF Has
  <2>4. ASSUME NEW k \in Path, Prefix(q, k)
        PROVE  /\ k \in DOMAIN w <=> k \in DOMAIN m
               /\ k \in DOMAIN m => w[k] = m[k]
    BY <1>2, <2>1, <2>4
  <2>5. At(w, q) = At(m, q)
    BY <1>1, <2>2, <2>3, <2>4, SameAt
  <2> QED BY <1>5, <2>5 DEF w, Put
<1>6. CASE x = Unset /\ ~Has(m, p)
  BY <1>6 DEF Put
<1> QED BY <1>4, <1>5, <1>6
-----------------------------------------------------------------------------
(* The worker                                                               *)

(* The bridge may set the parameter, and reports what it reads of it.       *)
Reported(n) ==
  Settable(n) /\ At(master, n.path) # Unset /\ ~FromThrows(At(master, n.path))

(* x is what an item without an empty container makes of a parameter.       *)
Applied(item, x) ==
  IF item.value = Unset THEN x = Unset
  ELSE HasEmpty(item.value) \/ x = toRosParam(item.value, item.type)

(* How much of a request has been dealt with. *)
Done == Len(request) - Len(todo)
SetSoFar == IF phase = "setting" THEN 1 .. Done ELSE 1 .. Len(request)
ReadSoFar == IF phase = "reading" THEN 1 .. Done ELSE 1 .. Len(request)

(* What is left to do is the rest of the request. *)
RestInv ==
  /\ phase = "idle" => request = <<>> /\ response = <<>>
  /\ phase = "setting" =>
       /\ response = <<>> /\ request # <<>> /\ Len(todo) <= Len(request)
       /\ \A i \in 1 .. Len(todo) : todo[i] = request[Done + i]
  /\ phase = "reading" /\ request # <<>> =>
       /\ Len(todo) <= Len(request)
       /\ \A i \in 1 .. Len(todo) : todo[i] = request[Done + i].name

(* What no item dealt with so far and no other node was near is as it was,  *)
(* and what an item has set stays until something near it is set.           *)
MasterInv ==
  request # <<>> =>
    /\ \A p \in Path :
         Untouched(p) /\ (\A i \in SetSoFar : ~Concerns(i, p)) =>
           At(master, p) = At(before, p)
    /\ \A i \in SetSoFar :
         LET n == request[i].name IN
         /\ Settable(n) /\ Untouched(n.path)
         /\ \A j \in SetSoFar : j > i => ~Concerns(j, n.path)
         => Applied(request[i], At(master, n.path))

(* The answer has the values of the parameters read so far, and of no other. *)
EchoInv ==
  request # <<>> /\ phase # "setting" =>
    \A n \in Name :
      /\ ~Settable(n) => Echo(n) = {}
      /\ Untouched(n.path) =>
           Echo(n) = IF Reported(n) /\ \E i \in ReadSoFar : request[i].name = n
                     THEN {fromRosParam(At(master, n.path)).value} ELSE {}

BatchInv == ValuesTypeOK /\ RestInv /\ MasterInv /\ EchoInv

LEMMA BatchesAreSequences == Batches \subseteq Seq(Items)
<1> SUFFICES ASSUME NEW k \in 0 .. MaxBatch, NEW s \in [1 .. k -> Items]
             PROVE  s \in Seq(Items)
  BY Zenon DEF Batches
<1> QED BY ValuesAssumption

LEMMA NamesAreNames ==
  /\ Names \subseteq Name
  /\ \A n \in Names : n.path \in Path /\ n.path # <<>>
  /\ \A n \in Name : n.path \in Path
<1>1. Names \subseteq [path : Seq(Nat) \ {<<>>}, abs : BOOLEAN]
  BY ValuesAssumption
<1> QED BY <1>1 DEF Name, Path

(* The order in which the master lists the names is a sequence of names.    *)
LEMMA ListsAreSequences ==
  ASSUME NEW m, Tree(m)  PROVE Lists(AllNames(m)) \subseteq Seq(Name)
<1> DEFINE D == {q \in DOMAIN m : Has(m, q) /\ m[q].t # "struct"}
           S == AllNames(m)
           f == [p \in D |-> [path |-> p, abs |-> TRUE]]
<1>1. IsFiniteSet(D) /\ D \subseteq Seq(Nat)
  BY PathsOf, FS_Subset DEF Path
<1>2. f \in Surjection(D, S)
  BY DEF Surjection, AllNames
<1>3. IsFiniteSet(S) /\ S \subseteq Name
  <2>1. IsFiniteSet(S)
    BY <1>1, <1>2, FS_Surjection
  <2>2. \A p \in D : [path |-> p, abs |-> TRUE] \in Name
    BY <1>1 DEF Name
  <2>3. S = {[path |-> p, abs |-> TRUE] : p \in D}
    BY DEF AllNames
  <2> QED BY <2>1, <2>2, <2>3
<1>4. Cardinality(S) \in Nat
  BY <1>3, FS_CardinalityType
<1> HIDE DEF S
<1> SUFFICES Lists(S) \subseteq Seq(Name)
  BY DEF S
<1> QED BY <1>3, <1>4 DEF Lists

LEMMA SeqOfElements ==
  ASSUME NEW s, NEW n \in Nat, NEW T, s = [i \in 1 .. n |-> s[i]],
         \A i \in 1 .. n : s[i] \in T
  PROVE  s \in Seq(T)
<1>1. s \in [1 .. n -> T]
  OBVIOUS
<1> QED BY <1>1

(* A sequence of whatever it holds, and what one more element makes of it.  *)
LEMMA Extended ==
  ASSUME NEW s, s \in Seq({s[i] : i \in DOMAIN s}), NEW r, NEW t, t = Append(s, r)
  PROVE  /\ t \in Seq({t[i] : i \in DOMAIN t})
         /\ Len(s) \in Nat /\ DOMAIN s = 1 .. Len(s)
         /\ DOMAIN t = 1 .. Len(s) + 1 /\ t[Len(s) + 1] = r
         /\ \A i \in 1 .. Len(s) : t[i] = s[i]
<1> DEFINE S == {s[i] : i \in DOMAIN s} \cup {r}
           T == {t[i] : i \in DOMAIN t}
<1>1. s \in Seq(S) /\ r \in S
  OBVIOUS
<1> HIDE DEF S
<1>2. /\ t \in Seq(S) /\ Len(t) = Len(s) + 1 /\ t[Len(s) + 1] = r
      /\ \A i \in 1 .. Len(s) : t[i] = s[i]
      /\ Len(s) \in Nat /\ DOMAIN s = 1 .. Len(s)
  BY <1>1
<1>3. DOMAIN t = 1 .. Len(t) /\ Len(t) \in Nat
  BY <1>2
<1>4. \A i \in 1 .. Len(t) : t[i] \in T
  BY <1>3
<1> HIDE DEF T
<1>5. t = [i \in 1 .. Len(t) |-> t[i]]
  <2>1. t \in [1 .. Len(t) -> S]
    BY <1>2, LenProperties
  <2> QED BY <2>1
<1>6. t \in Seq(T)
  BY <1>3, <1>4, <1>5, SeqOfElements
<1> QED BY <1>2, <1>3, <1>6 DEF T

LEMMA StoredIsRos ==
  ASSUME ValuesTypeOK, NEW item \in Items, NEW x \in Stored(item)
  PROVE  x = Unset \/ RosValue(x)
<1>1. CASE item.value = Unset
  BY <1>1 DEF Stored
<1>2. CASE item.value # Unset /\ HasEmpty(item.value)
  <2>1. item.name.path \in Path
    BY ValuesAssumption, NamesAreNames
  <2>2. At(master, item.name.path) = Unset \/ RosValue(At(master, item.name.path))
    BY <2>1, AtIsRos DEF ValuesTypeOK
  <2> QED BY <1>2, <2>2, ValuesAssumption DEF Stored
<1>3. CASE item.value # Unset /\ ~HasEmpty(item.value)
  <2>1. RosValue(toRosParam(item.value, item.type))
    BY <1>3, ValuesAssumption, WrittenIsRos
  <2> QED BY <1>3, <2>1 DEF Stored
<1> QED BY <1>1, <1>2, <1>3

-----------------------------------------------------------------------------
LEMMA TypesKept == ValuesTypeOK /\ [Next]_vars => ValuesTypeOK'
<1> SUFFICES ASSUME ValuesTypeOK, [Next]_vars  PROVE ValuesTypeOK'
  OBVIOUS
<1>1. ASSUME NEW items \in Batches, ClientSets(items)  PROVE ValuesTypeOK'
  <2>1. items \in Seq(Items) /\ <<>> \in Seq(Name)
    BY BatchesAreSequences
  <2> QED BY <1>1, <2>1 DEF ClientSets, ValuesTypeOK
<1>2. ASSUME NEW names \in {<<n>> : n \in Names} \cup {<<>>}, ClientGets(names)
      PROVE  ValuesTypeOK'
  <2>1. names \in Seq(Name)
    <3>1. \A n \in Names : <<n>> \in Seq(Name)
      BY NamesAreNames
    <3>2. <<>> \in Seq(Name)
      OBVIOUS
    <3> QED BY <3>1, <3>2, Zenon
  <2>2. Lists(AllNames(master)) \subseteq Seq(Name)
    BY ListsAreSequences DEF ValuesTypeOK, RosValue
  <2>3. todo' \in Seq(Name)
    BY <1>2, <2>1, <2>2 DEF ClientGets
  <2> QED BY <1>2, <2>3 DEF ClientGets, ValuesTypeOK
<1>3. CASE NamesFail
  BY <1>3 DEF NamesFail, ValuesTypeOK
<1>4. CASE SetNext
  <2>1. todo \in Seq(Items) /\ todo # <<>>
    BY <1>4 DEF SetNext, ValuesTypeOK
  <2>2. Head(todo) \in Items /\ Tail(todo) \in Seq(Items)
    BY <2>1
  <2>3. todo' = Tail(todo)
    BY <1>4 DEF SetNext, AfterThrow
  <2>4. \/ UNCHANGED master
        \/ \E x \in Stored(Head(todo)) : master' = Put(master, Head(todo).name.path, x)
    BY <1>4 DEF SetNext
  <2>5. RosValue(master') /\ master'[<<>>].t = "struct"
    <3>1. Head(todo).name.path \in Path /\ Head(todo).name.path # <<>>
      BY <2>2, ValuesAssumption, NamesAreNames
    <3>2. RosValue(master) /\ master[<<>>].t = "struct"
      BY DEF ValuesTypeOK
    <3>3. \A x \in Stored(Head(todo)) : x = Unset \/ RosValue(x)
      BY <2>2, StoredIsRos
    <3> QED BY <2>4, <3>1, <3>2, <3>3, PutIsRos
  <2> QED BY <1>4, <2>2, <2>3, <2>5 DEF SetNext, ValuesTypeOK
<1>5. CASE ReadBack
  <2>1. \A i \in DOMAIN request : request[i].name \in Name
    BY ValuesAssumption, NamesAreNames DEF ValuesTypeOK
  <2>2. [i \in DOMAIN request |-> request[i].name] \in Seq(Name)
    BY <2>1 DEF ValuesTypeOK
  <2> QED BY <1>5, <2>2 DEF ReadBack, ValuesTypeOK
<1>6. CASE GetNext
  <2>1. todo \in Seq(Name) /\ Head(todo) \in Name /\ Tail(todo) \in Seq(Name)
    BY <1>6 DEF GetNext, ValuesTypeOK
  <2>2. CASE UNCHANGED response
    BY <1>6, <2>1, <2>2 DEF GetNext, ValuesTypeOK
  <2>3. ASSUME RosValue(At(master, Head(todo).path)), ~FromThrows(At(master, Head(todo).path)),
               response' = Append(response,
                 [name |-> Head(todo), value |-> fromRosParam(At(master, Head(todo).path)).value])
        PROVE  ValuesTypeOK'
    <3> DEFINE r == [name |-> Head(todo),
                     value |-> fromRosParam(At(master, Head(todo).path)).value]
    <3>1. r.name \in Name /\ SdkValue(r.value)
      BY <2>1, <2>3, ReadNode
    <3> HIDE DEF r
    <3>2. /\ response' \in Seq({response'[i] : i \in DOMAIN response'})
          /\ DOMAIN response = 1 .. Len(response) /\ Len(response) \in Nat
          /\ DOMAIN response' = 1 .. Len(response) + 1
          /\ response'[Len(response) + 1] = r
          /\ \A i \in 1 .. Len(response) : response'[i] = response[i]
      <4>1. response \in Seq({response[i] : i \in DOMAIN response})
        BY DEF ValuesTypeOK
      <4>2. response' = Append(response, r)
        BY <2>3 DEF r
      <4> HIDE DEF r
      <4> QED BY <4>1, <4>2, Extended
    <3>3. \A i \in DOMAIN response' :
            response'[i].name \in Name /\ SdkValue(response'[i].value)
      <4> SUFFICES ASSUME NEW i \in 1 .. Len(response) + 1
                   PROVE  response'[i].name \in Name /\ SdkValue(response'[i].value)
        BY <3>2
      <4>1. CASE i = Len(response) + 1
        BY <3>1, <3>2, <4>1
      <4>2. CASE i \in 1 .. Len(response)
        BY <3>2, <4>2 DEF ValuesTypeOK
      <4> QED BY <3>2, <4>1, <4>2
    <3> QED BY <1>6, <2>1, <3>2, <3>3 DEF GetNext, ValuesTypeOK
  <2>4. \/ UNCHANGED response
        \/ /\ At(master, Head(todo).path) # Unset /\ ~FromThrows(At(master, Head(todo).path))
           /\ response' = Append(response,
                [name |-> Head(todo), value |-> fromRosParam(At(master, Head(todo).path)).value])
    BY <1>6 DEF GetNext
  <2>5. At(master, Head(todo).path) = Unset \/ RosValue(At(master, Head(todo).path))
    BY <2>1, NamesAreNames, AtIsRos DEF ValuesTypeOK
  <2> QED BY <2>2, <2>3, <2>4, <2>5
<1>7. CASE Respond
  BY <1>7 DEF Respond, ValuesTypeOK
<1>8. CASE NextOp
  BY <1>8, ValuesAssumption DEF NextOp, ValuesTypeOK
<1>9. ASSUME NEW p \in Shared, NEW x \in RosValues \cup {Unset}, OtherNodeSets(p, x)
      PROVE  ValuesTypeOK'
  <2>1. p \in Path /\ p # <<>> /\ (x = Unset \/ RosValue(x))
    BY ValuesAssumption DEF Path
  <2>2. RosValue(master') /\ master'[<<>>].t = "struct"
    BY <1>9, <2>1, PutIsRos DEF OtherNodeSets, ValuesTypeOK
  <2> QED BY <1>9, <2>1, <2>2 DEF OtherNodeSets, ValuesTypeOK, Path
<1>10. CASE UNCHANGED vars
  BY <1>10 DEF vars, ValuesTypeOK
<1> QED BY <1>1, <1>2, <1>3, <1>4, <1>5, <1>6, <1>7, <1>8, <1>9, <1>10 DEF Next

-----------------------------------------------------------------------------
LEMMA HeadAndTail ==
  ASSUME NEW S, NEW s \in Seq(S), s # <<>>
  PROVE  /\ Len(s) \in Nat \ {0} /\ Head(s) = s[1] /\ Head(s) \in S
         /\ Tail(s) \in Seq(S) /\ Len(Tail(s)) = Len(s) - 1
         /\ \A i \in 1 .. Len(s) - 1 : Tail(s)[i] = s[i + 1]
  OBVIOUS

(* Nothing a client sends is too deep for the bridge to write. *)
LEMMA ItemsAreWritable ==
  ASSUME NEW item \in Items, item.value # Unset
  PROVE  ~ToThrows(item.value)
<1>1. SdkValue(item.value) /\ \A p \in DOMAIN item.value : ~TooDeep(Len(p) + 1)
  BY ValuesAssumption
<1>2. \A p \in DOMAIN item.value : Len(p) \in Nat
  BY <1>1 DEF SdkValue, Tree
<1> QED BY <1>1, <1>2, ValuesAssumption DEF ToThrows, TooDeep

LEMMA StoredIsApplied ==
  ASSUME NEW item, NEW x \in Stored(item)  PROVE Applied(item, x)
  BY DEF Stored, Applied

(* One item has been set or passed over: the next is the rest's first.      *)
LEMMA SetStep == BatchInv /\ SetNext => RestInv' /\ MasterInv' /\ EchoInv'
<1> SUFFICES ASSUME BatchInv, SetNext  PROVE RestInv' /\ MasterInv' /\ EchoInv'
  OBVIOUS
<1> DEFINE item == Head(todo)
<1>1. /\ todo \in Seq(Items) /\ todo # <<>> /\ request \in Seq(Items) /\ request # <<>>
      /\ phase = "setting" /\ phase' = "setting" /\ todo' = Tail(todo)
      /\ UNCHANGED <<response, request, before, touched>>
      /\ Len(todo) <= Len(request) /\ response = <<>>
      /\ \A i \in 1 .. Len(todo) : todo[i] = request[Done + i]
  BY DEF BatchInv, ValuesTypeOK, RestInv, SetNext, AfterThrow
<1>2. /\ Len(todo) \in Nat \ {0} /\ item = todo[1] /\ item \in Items
      /\ Len(todo') = Len(todo) - 1 /\ Len(request) \in Nat
      /\ \A i \in 1 .. Len(todo) - 1 : todo'[i] = todo[i + 1]
  BY <1>1, HeadAndTail
<1>3. Done \in Nat /\ Done' = Done + 1 /\ Done < Len(request) /\ request[Done + 1] = item
  BY <1>1, <1>2 DEF Done
<1>4. RestInv'
  <2>1. ASSUME NEW i \in 1 .. Len(todo')  PROVE todo'[i] = request'[Done' + i]
    <3>1. todo'[i] = todo[i + 1] /\ i + 1 \in 1 .. Len(todo)
      BY <1>2
    <3>2. todo[i + 1] = request[Done + (i + 1)]
      BY <1>1, <3>1
    <3> QED BY <1>1, <1>3, <3>1, <3>2
  <2>2. Len(todo') <= Len(request')
    BY <1>1, <1>2
  <2> QED BY <1>1, <2>1, <2>2 DEF RestInv
<1>5. MasterInv'
  <2> DEFINE at == item.name.path
  <2>1. /\ at \in Path /\ at # <<>> /\ RosValue(master) /\ master[<<>>].t = "struct"
        /\ \A x \in Stored(item) : x = Unset \/ RosValue(x)
    BY <1>2, ValuesAssumption, NamesAreNames, StoredIsRos DEF BatchInv, ValuesTypeOK
  <2>2. ~Settable(item.name) => UNCHANGED master
    BY DEF SetNext, Settable
  <2>3. Settable(item.name) => \E x \in Stored(item) : master' = Put(master, at, x)
    <3>1. item.value # Unset => ~ToThrows(item.value)
      BY <1>2, ItemsAreWritable
    <3> QED BY <3>1 DEF SetNext, Settable
  <2> HIDE DEF at
  <2>4. ASSUME NEW p \in Path, Settable(item.name) => ~Overlap(at, p)
        PROVE  At(master', p) = At(master, p)
    BY <2>1, <2>2, <2>3, <2>4, AtElsewhere
  <2>5. Settable(item.name) => Applied(item, At(master', at))
    BY <2>1, <2>3, AtPut, StoredIsApplied
  <2>6. SetSoFar = 1 .. Done /\ SetSoFar' = 1 .. Done + 1
    BY <1>1, <1>3 DEF SetSoFar
  <2>7. \A p : /\ Untouched(p)' <=> Untouched(p)
               /\ \A i : Concerns(i, p)' <=> Concerns(i, p)
               /\ Concerns(Done + 1, p) <=> Settable(item.name) /\ Overlap(at, p)
    BY <1>1, <1>3 DEF Untouched, Concerns, at
  <2>8. ASSUME NEW p \in Path, Untouched(p), \A i \in 1 .. Done + 1 : ~Concerns(i, p)
        PROVE  At(master', p) = At(before, p)
    <3>1. Done + 1 \in 1 .. Done + 1 /\ 1 .. Done \subseteq 1 .. Done + 1
      BY <1>3
    <3>2. At(master', p) = At(master, p)
      BY <2>4, <2>7, <2>8, <3>1
    <3>3. At(master, p) = At(before, p)
      BY <1>1, <2>6, <2>8, <3>1 DEF BatchInv, MasterInv
    <3> QED BY <3>2, <3>3
  <2>9. ASSUME NEW i \in 1 .. Done + 1, Settable(request[i].name),
               Untouched(request[i].name.path),
               \A j \in 1 .. Done + 1 : j > i => ~Concerns(j, request[i].name.path)
        PROVE  Applied(request[i], At(master', request[i].name.path))
    <3>1. CASE i = Done + 1
      BY <1>3, <2>5, <2>9, <3>1 DEF at
    <3>2. CASE i \in 1 .. Done
      <4> DEFINE p == request[i].name.path
      <4>1. /\ Done + 1 \in 1 .. Done + 1 /\ Done + 1 > i
            /\ \A j \in 1 .. Done : j \in 1 .. Done + 1
        BY <1>3, <3>2
      <4>2. p \in Path
        <5>1. request[i] \in Items
          BY <1>1, <1>2, <1>3, <3>2
        <5> QED BY <5>1, ValuesAssumption, NamesAreNames
      <4>3. Applied(request[i], At(master, p))
        BY <1>1, <2>6, <2>9, <3>2, <4>1 DEF BatchInv, MasterInv
      <4>4. ~Concerns(Done + 1, p)
        BY <2>9, <4>1
      <4> HIDE DEF p
      <4>5. At(master', p) = At(master, p)
        BY <2>4, <2>7, <4>2, <4>4
      <4> QED BY <4>3, <4>5 DEF p
    <3> QED BY <1>3, <3>1, <3>2
  <2> QED BY <1>1, <2>6, <2>7, <2>8, <2>9 DEF MasterInv, Settable, Readable, Own, OwnPath, Applied
<1>6. EchoInv'
  BY <1>1 DEF EchoInv
<1> QED BY <1>4, <1>5, <1>6

(* What one more value adds to the answer.                                  *)
LEMMA EchoAppended ==
  ASSUME ValuesTypeOK, NEW m, NEW val, NEW n,
         response' = Append(response, [name |-> m, value |-> val])
  PROVE  Echo(n)' = IF n = m THEN Echo(n) \cup {val} ELSE Echo(n)
<1> DEFINE r == [name |-> m, value |-> val]
           k == Len(response)
           new == response'
<1>1. r.name = m /\ r.value = val
  OBVIOUS
<1> HIDE DEF r
<1>2. new = Append(response, r)
  BY DEF r
<1>3. /\ k \in Nat /\ DOMAIN response = 1 .. k /\ DOMAIN new = 1 .. k + 1
      /\ new[k + 1] = r /\ \A i \in 1 .. k : new[i] = response[i]
  BY <1>2, Extended DEF ValuesTypeOK
<1> HIDE DEF k, new
<1>4. \A v : v \in Echo(n) <=> \E i \in 1 .. k : response[i].name = n /\ response[i].value = v
  BY <1>3 DEF Echo
<1>5. \A v : v \in Echo(n)' <=> \E i \in 1 .. k + 1 : new[i].name = n /\ new[i].value = v
  BY <1>3 DEF Echo, new
<1>6. \A v : v \in Echo(n)' <=> v \in Echo(n) \/ (n = m /\ v = val)
  <2> SUFFICES ASSUME NEW v
               PROVE  v \in Echo(n)' <=> v \in Echo(n) \/ (n = m /\ v = val)
    OBVIOUS
  <2>1. ASSUME v \in Echo(n)'  PROVE v \in Echo(n) \/ (n = m /\ v = val)
    <3>1. PICK i \in 1 .. k + 1 : new[i].name = n /\ new[i].value = v
      BY <1>5, <2>1
    <3>2. i = k + 1 \/ i \in 1 .. k
      BY <1>3
    <3> QED BY <1>1, <1>3, <1>4, <3>1, <3>2
  <2>2. ASSUME v \in Echo(n)  PROVE v \in Echo(n)'
    <3>1. PICK i \in 1 .. k : response[i].name = n /\ response[i].value = v
      BY <1>4, <2>2
    <3>2. i \in 1 .. k + 1
      BY <1>3
    <3> QED BY <1>3, <1>5, <3>1, <3>2
  <2>3. ASSUME n = m, v = val  PROVE v \in Echo(n)'
    <3>1. k + 1 \in 1 .. k + 1
      BY <1>3
    <3> QED BY <1>1, <1>3, <1>5, <2>3, <3>1
  <2> QED BY <2>1, <2>2, <2>3
<1> QED BY <1>6

(* One name has been read or passed over.                                   *)
(* Nothing changes in what is said of the parameters while none is set.     *)
LEMMA MasterStays ==
  MasterInv /\ UNCHANGED <<master, before, request, touched>> /\ SetSoFar' = SetSoFar
    => MasterInv'
<1> SUFFICES ASSUME MasterInv, UNCHANGED <<master, before, request, touched>>,
                    SetSoFar' = SetSoFar
             PROVE  MasterInv'
  OBVIOUS
<1>1. \A p : /\ Untouched(p)' <=> Untouched(p)
             /\ \A i : Concerns(i, p)' <=> Concerns(i, p)
  BY DEF Untouched, Concerns
<1> QED BY <1>1 DEF MasterInv, Settable, Readable, Own, OwnPath, Applied

(* Nor in what is said of the answer while nothing is added to it.          *)
LEMMA EchoStays ==
  ASSUME EchoInv, UNCHANGED <<master, request, touched, response>>,
         ReadSoFar' = ReadSoFar, phase' # "setting" => phase # "setting"
  PROVE  EchoInv'
<1>1. \A n : /\ Untouched(n.path)' <=> Untouched(n.path)
             /\ Echo(n)' = Echo(n) /\ (Reported(n)' <=> Reported(n))
  BY DEF Untouched, Echo, Reported, Settable, Readable, Own, OwnPath
<1> QED BY <1>1 DEF EchoInv, Settable, Readable, Own, OwnPath

LEMMA GetStep == BatchInv /\ GetNext => RestInv' /\ MasterInv' /\ EchoInv'
<1> SUFFICES ASSUME BatchInv, GetNext  PROVE RestInv' /\ MasterInv' /\ EchoInv'
  OBVIOUS
<1> DEFINE m == Head(todo)
<1>1. /\ todo \in Seq(Name) /\ todo # <<>> /\ request \in Seq(Items)
      /\ phase = "reading" /\ phase' = "reading" /\ todo' = Tail(todo)
      /\ UNCHANGED <<master, request, before, touched>>
  BY DEF BatchInv, ValuesTypeOK, GetNext
<1>2. /\ Len(todo) \in Nat \ {0} /\ m = todo[1] /\ m \in Name
      /\ Len(todo') = Len(todo) - 1 /\ Len(request) \in Nat
      /\ \A i \in 1 .. Len(todo) - 1 : todo'[i] = todo[i + 1]
  BY <1>1, HeadAndTail
<1>3. MasterInv'
  <2>1. SetSoFar' = SetSoFar
    BY <1>1 DEF SetSoFar
  <2> QED BY <1>1, <2>1, MasterStays DEF BatchInv
<1>4. CASE request = <<>>
  BY <1>1, <1>3, <1>4 DEF RestInv, EchoInv
<1>5. CASE request # <<>>
  <2>1. /\ Len(todo) <= Len(request)
        /\ \A i \in 1 .. Len(todo) : todo[i] = request[Done + i].name
    BY <1>1, <1>5 DEF BatchInv, RestInv
  <2>2. Done \in Nat /\ Done' = Done + 1 /\ request[Done + 1].name = m
    BY <1>1, <1>2, <2>1 DEF Done
  <2>3. RestInv'
    <3>1. ASSUME NEW i \in 1 .. Len(todo')  PROVE todo'[i] = request'[Done' + i].name
      <4>1. todo'[i] = todo[i + 1] /\ i + 1 \in 1 .. Len(todo)
        BY <1>2
      <4>2. todo[i + 1] = request[Done + (i + 1)].name
        BY <2>1, <4>1
      <4> QED BY <1>1, <2>2, <4>1, <4>2
    <3>2. Len(todo') <= Len(request')
      BY <1>1, <1>2, <2>1
    <3> QED BY <1>1, <3>1, <3>2 DEF RestInv
  <2>4. EchoInv'
    <3> DEFINE value(n) == fromRosParam(At(master, n.path)).value
               Read(k, n) == \E i \in 1 .. k : request[i].name = n
    <3>1. Reported(m) => response' = Append(response, [name |-> m, value |-> value(m)])
      BY DEF GetNext, Reported
    <3>2. ~Reported(m) => response' = response
      BY DEF GetNext, Reported
    <3>3. ASSUME NEW n  PROVE Echo(n)' = IF Reported(m) /\ n = m THEN Echo(n) \cup {value(m)}
                                        ELSE Echo(n)
      <4>1. CASE Reported(m)
        BY <3>1, <4>1, EchoAppended DEF BatchInv
      <4>2. CASE ~Reported(m)
        BY <3>2, <4>2 DEF Echo
      <4> QED BY <4>1, <4>2
    <3>4. ASSUME NEW n \in Name
          PROVE  /\ ~Settable(n) => Echo(n) = {}
                 /\ Untouched(n.path) =>
                      Echo(n) = IF Reported(n) /\ Read(Done, n) THEN {value(n)} ELSE {}
      BY <1>1, <1>5 DEF BatchInv, EchoInv, ReadSoFar
    <3>5. \A n : Read(Done + 1, n) <=> n = m \/ Read(Done, n)
      BY <2>2
    <3>6. \A n : Reported(n) => Settable(n)
      BY DEF Reported
    <3> HIDE DEF value, Read
    <3>7. ASSUME NEW n \in Name
          PROVE  /\ ~Settable(n) => Echo(n)' = {}
                 /\ Untouched(n.path) =>
                      Echo(n)' = IF Reported(n) /\ Read(Done + 1, n) THEN {value(n)} ELSE {}
      BY <3>3, <3>4, <3>5, <3>6
    <3> QED BY <1>1, <2>2, <3>7
        DEF EchoInv, ReadSoFar, Reported, Settable, Readable, Own, OwnPath, Untouched, value, Read
  <2> QED BY <1>3, <2>3, <2>4
<1> QED BY <1>4, <1>5

(* The worker turns from setting to reading what was set.                   *)
LEMMA ReadBackStep == BatchInv /\ ReadBack => RestInv' /\ MasterInv' /\ EchoInv'
<1> SUFFICES ASSUME BatchInv, ReadBack  PROVE RestInv' /\ MasterInv' /\ EchoInv'
  OBVIOUS
<1>1. /\ phase = "setting" /\ phase' = "reading" /\ todo = <<>>
      /\ todo' = [i \in DOMAIN request |-> request[i].name]
      /\ UNCHANGED <<master, response, request, before, touched>>
      /\ response = <<>> /\ request \in Seq(Items)
  BY DEF BatchInv, ValuesTypeOK, RestInv, ReadBack
<1>2. Len(request) \in Nat /\ DOMAIN request = 1 .. Len(request) /\ Len(todo) = 0
  BY <1>1
<1>3. Len(todo') = Len(request)
  BY <1>1, <1>2
<1>4. Done = Len(request) /\ Done' = 0
  BY <1>1, <1>2, <1>3 DEF Done
<1>5. RestInv'
  BY <1>1, <1>2, <1>3, <1>4 DEF RestInv
<1>6. MasterInv'
  <2>1. SetSoFar' = SetSoFar
    BY <1>1, <1>4 DEF SetSoFar
  <2> QED BY <1>1, <2>1, MasterStays DEF BatchInv
<1>7. EchoInv'
  <2>1. ReadSoFar' = {}
    BY <1>1, <1>4 DEF ReadSoFar
  <2>2. \A n : Echo(n)' = {}
    BY <1>1 DEF Echo
  <2> QED BY <2>1, <2>2 DEF EchoInv
<1> QED BY <1>5, <1>6, <1>7

LEMMA BatchKept == BatchInv /\ [Next]_vars => BatchInv'
<1> SUFFICES ASSUME BatchInv, [Next]_vars  PROVE RestInv' /\ MasterInv' /\ EchoInv'
  BY TypesKept DEF BatchInv
<1> USE DEF BatchInv
<1>1. ASSUME NEW items \in Batches, ClientSets(items)
      PROVE  RestInv' /\ MasterInv' /\ EchoInv'
  <2>1. items \in Seq(Items)
    BY BatchesAreSequences
  <2>2. /\ todo' = items /\ request' = items /\ before' = master /\ UNCHANGED <<master, response>>
        /\ phase' = IF items = <<>> THEN "answered" ELSE "setting"
        /\ response = <<>>
    BY <1>1 DEF ClientSets, RestInv
  <2>3. CASE items = <<>>
    BY <2>2, <2>3 DEF RestInv, MasterInv, EchoInv
  <2>4. CASE items # <<>>
    <3>1. Done' = 0 /\ Len(items) \in Nat
      BY <2>1, <2>2 DEF Done
    <3>2. SetSoFar' = {}
      BY <2>2, <2>4, <3>1 DEF SetSoFar
    <3> QED BY <2>1, <2>2, <2>4, <3>1, <3>2 DEF RestInv, MasterInv, EchoInv
  <2> QED BY <2>3, <2>4
<1>2. ASSUME NEW names \in {<<n>> : n \in Names} \cup {<<>>}, ClientGets(names)
      PROVE  RestInv' /\ MasterInv' /\ EchoInv'
  <2>1. phase' = "reading" /\ request' = <<>>
    BY <1>2 DEF ClientGets, RestInv
  <2> QED BY <2>1 DEF RestInv, MasterInv, EchoInv
<1>3. CASE NamesFail
  <2>1. phase' = "answered" /\ request' = <<>>
    BY <1>3 DEF NamesFail, RestInv
  <2> QED BY <2>1 DEF RestInv, MasterInv, EchoInv
<1>4. CASE SetNext
  BY <1>4, SetStep
<1>5. CASE ReadBack
  BY <1>5, ReadBackStep
<1>6. CASE GetNext
  BY <1>6, GetStep
<1>7. CASE Respond
  <2>1. /\ phase = "reading" /\ phase' = "answered" /\ todo = <<>>
        /\ UNCHANGED <<master, todo, response, request, before, touched>>
        /\ request \in Seq(Items)
    BY <1>7 DEF Respond, ValuesTypeOK
  <2>2. SetSoFar' = SetSoFar /\ ReadSoFar' = ReadSoFar
    BY <2>1 DEF SetSoFar, ReadSoFar, Done
  <2>3. RestInv'
    BY <2>1 DEF RestInv
  <2>4. MasterInv'
    BY <2>1, <2>2, MasterStays
  <2>5. EchoInv'
    BY <2>1, <2>2, EchoStays
  <2> QED BY <2>3, <2>4, <2>5
<1>8. CASE NextOp
  BY <1>8 DEF NextOp, RestInv, MasterInv, EchoInv
<1>9. ASSUME NEW p \in Shared, NEW x \in RosValues \cup {Unset}, OtherNodeSets(p, x)
      PROVE  RestInv' /\ MasterInv' /\ EchoInv'
  <2>1. /\ touched' = touched \cup {p} /\ master' = Put(master, p, x)
        /\ UNCHANGED <<phase, todo, response, request, before>>
    BY <1>9 DEF OtherNodeSets
  <2>2. SetSoFar' = SetSoFar /\ ReadSoFar' = ReadSoFar /\ Done' = Done
    BY <2>1 DEF SetSoFar, ReadSoFar, Done
  <2>3. RestInv'
    BY <2>1, <2>2 DEF RestInv
  <2>4. /\ p \in Path /\ p # <<>> /\ (x = Unset \/ RosValue(x))
        /\ RosValue(master) /\ master[<<>>].t = "struct"
    BY ValuesAssumption DEF Path, ValuesTypeOK
  <2>5. ASSUME NEW q \in Path, Untouched(q)'
        PROVE  Untouched(q) /\ At(master', q) = At(master, q)
    <3>1. Untouched(q) /\ ~Overlap(p, q)
      BY <2>1, <2>5 DEF Untouched
    <3> QED BY <2>1, <2>4, <3>1, AtElsewhere
  <2>6. MasterInv'
    <3>1. \A q : \A i : Concerns(i, q)' <=> Concerns(i, q)
      BY <2>1 DEF Concerns
    <3>2. \A i \in SetSoFar : request # <<>> => request[i].name.path \in Path
      <4> SUFFICES ASSUME NEW i \in SetSoFar, request # <<>>
                   PROVE  request[i].name.path \in Path
        OBVIOUS
      <4>1. i \in 1 .. Len(request) /\ request \in Seq(Items)
        BY DEF SetSoFar, RestInv, ValuesTypeOK, Done
      <4>2. request[i] \in Items
        BY <4>1
      <4> QED BY <4>2, ValuesAssumption, NamesAreNames
    <3> QED BY <2>1, <2>2, <2>5, <3>1, <3>2
        DEF MasterInv, Settable, Readable, Own, OwnPath, Applied
  <2>7. EchoInv'
    <3> SUFFICES ASSUME request # <<>>, phase # "setting", NEW n \in Name
                 PROVE  /\ ~Settable(n) => Echo(n)' = {}
                        /\ Untouched(n.path)' =>
                             Echo(n)' = IF Reported(n)' /\ \E i \in ReadSoFar : request[i].name = n
                                        THEN {fromRosParam(At(master', n.path)).value} ELSE {}
      BY <2>1, <2>2 DEF EchoInv, Settable, Readable, Own, OwnPath
    <3>1. Echo(n)' = Echo(n)
      BY <2>1 DEF Echo
    <3>2. Untouched(n.path)' =>
            /\ Untouched(n.path) /\ At(master', n.path) = At(master, n.path)
            /\ Reported(n)' <=> Reported(n)
      <4>1. n.path \in Path
        BY NamesAreNames
      <4> QED BY <2>5, <4>1 DEF Reported, Settable, Readable, Own, OwnPath
    <3>3. /\ ~Settable(n) => Echo(n) = {}
          /\ Untouched(n.path) =>
               Echo(n) = IF Reported(n) /\ \E i \in ReadSoFar : request[i].name = n
                         THEN {fromRosParam(At(master, n.path)).value} ELSE {}
      BY DEF EchoInv
    <3> QED BY <3>1, <3>2, <3>3
  <2> QED BY <2>3, <2>6, <2>7
<1>10. CASE UNCHANGED vars
  <2>1. UNCHANGED <<master, phase, todo, response, request, before, touched>>
    BY <1>10 DEF vars
  <2>2. SetSoFar' = SetSoFar /\ ReadSoFar' = ReadSoFar /\ Done' = Done
    BY <2>1 DEF SetSoFar, ReadSoFar, Done
  <2>3. RestInv'
    BY <2>1, <2>2 DEF RestInv
  <2> QED BY <2>1, <2>2, <2>3, MasterStays, EchoStays
<1> QED BY <1>1, <1>2, <1>3, <1>4, <1>5, <1>6, <1>7, <1>8, <1>9, <1>10 DEF Next

LEMMA BatchInvHolds == Spec => []BatchInv
<1>1. Init => BatchInv
  <2> SUFFICES ASSUME Init  PROVE BatchInv
    OBVIOUS
  <2>1. ValuesTypeOK
    BY ValuesAssumption DEF Init, ValuesTypeOK
  <2> QED BY <2>1 DEF Init, BatchInv, RestInv, MasterInv, EchoInv
<1> QED BY <1>1, BatchKept, PTL DEF Spec

-----------------------------------------------------------------------------
(* Whatever values, of any depth, the clients of getParams and setParams    *)
(* and other nodes send, what is stored and what is told are values that    *)
(* XML-RPC and the SDK have.                                                *)
THEOREM ValuesTypeCorrect == Spec => []ValuesTypeOK
<1>1. BatchInv => ValuesTypeOK
  BY DEF BatchInv
<1> QED BY <1>1, BatchInvHolds, PTL

(* fromRosParam and toRosParam: exactly the values without an empty         *)
(* container, an unsupported type or a nested whole double survive being    *)
(* read and written back, for values of any shape up to MAX_PARAM_DEPTH.    *)
THEOREM ReadWriteBack == Spec => []WriteBackKeeps
<1>1. ValuesTypeOK => WriteBackKeeps
  <2> SUFFICES ASSUME ValuesTypeOK, NEW n \in Names, At(master, n.path) # Unset
               PROVE  LET param == At(master, n.path)
                          read == fromRosParam(param)
                          back == AsJson(read.value)
                      IN ((/\ ~FromThrows(param) /\ ~ToThrows(back)
                           /\ toRosParam(back, read.type) = param)
                            <=> (Keeps(param) /\ \A p \in DOMAIN param : ~TooDeep(Len(p) + 1)))
    BY Zenon DEF WriteBackKeeps
  <2>1. RosValue(At(master, n.path))
    BY NamesAreNames, AtIsRos DEF ValuesTypeOK
  <2> QED BY <2>1, WrittenBackKept
<1> QED BY <1>1, ValuesTypeCorrect, PTL

(* handleSetParams, for batches of any length: an item takes effect and is  *)
(* echoed as sent exactly if its integers fit, unless it is refused or      *)
(* something above, at or below its path is set after it; and parameters    *)
(* that nothing was set near are as they were.                              *)
THEOREM BatchesAreEchoed == Spec => []BatchEchoed
<1>1. BatchInv => BatchEchoed
  <2> SUFFICES ASSUME BatchInv, phase = "answered", request # <<>>
               PROVE  BatchEchoed
    BY DEF BatchEchoed
  <2>1. request \in Seq(Items) /\ DOMAIN request = 1 .. Len(request)
    BY DEF BatchInv, ValuesTypeOK
  <2>2. SetSoFar = DOMAIN request /\ ReadSoFar = DOMAIN request
    BY <2>1 DEF SetSoFar, ReadSoFar
  <2>3. ASSUME NEW n \in Names, Untouched(n.path),
               \A i \in DOMAIN request : ~Concerns(i, n.path)
        PROVE  At(master, n.path) = At(before, n.path)
    BY <2>2, <2>3, NamesAreNames DEF BatchInv, MasterInv
  <2>4. ASSUME NEW i \in DOMAIN request
        PROVE  LET sent == request[i]
                   n == sent.name
               IN IF ~Settable(n) THEN Echo(n) = {}
                  ELSE Stands(i) =>
                    IF sent.value = Unset THEN Echo(n) = {} /\ At(master, n.path) = Unset
                    ELSE HasEmpty(sent.value)
                         \/ /\ Cardinality(Echo(n)) = 1
                            /\ \A v \in Echo(n) :
                                 AsJson(v) = AsJson(sent.value) <=> Fits(sent)
    <3> DEFINE sent == request[i]
               n == sent.name
               param == At(master, n.path)
    <3>1. sent \in Items /\ n \in Name
      BY <2>1, ValuesAssumption, NamesAreNames
    <3>2. CASE ~Settable(n)
      BY <3>1, <3>2 DEF BatchInv, EchoInv
    <3>3. CASE Settable(n) /\ ~Stands(i)
      BY <3>3
    <3>4. CASE Settable(n) /\ Stands(i)
      <4>1. Untouched(n.path) /\ \A j \in DOMAIN request : j > i => ~Concerns(j, n.path)
        BY <3>4, Zenon DEF Stands
      <4>2. Applied(sent, param)
        BY <2>2, <3>4, <4>1 DEF BatchInv, MasterInv
      <4>3. Echo(n) = IF Reported(n) THEN {fromRosParam(param).value} ELSE {}
        BY <2>2, <3>1, <4>1 DEF BatchInv, EchoInv
      <4>4. Reported(n) <=> param # Unset /\ ~FromThrows(param)
        BY <3>4 DEF Reported
      <4> HIDE DEF param
      <4>5. CASE sent.value = Unset
        BY <3>4, <4>2, <4>3, <4>4, <4>5 DEF Applied, param
      <4>6. CASE sent.value # Unset /\ ~HasEmpty(sent.value)
        <5> DEFINE e == fromRosParam(param).value
        <5>1. param = toRosParam(sent.value, sent.type)
          BY <4>2, <4>6 DEF Applied
        <5>2. /\ RosValue(param) /\ ~FromThrows(param)
              /\ AsJson(e) = AsJson(sent.value) <=> Fits(sent)
          BY <3>1, <4>6, <5>1, EchoIsTrue
        <5>3. param # Unset
          BY <5>2, UnsetIsNoTree DEF RosValue
        <5>4. Echo(n) = {e}
          BY <4>3, <4>4, <5>2, <5>3
        <5>5. Cardinality({e}) = 1
          BY FS_Singleton
        <5> HIDE DEF e
        <5> QED BY <3>4, <4>6, <5>2, <5>4, <5>5
      <4>7. CASE sent.value # Unset /\ HasEmpty(sent.value)
        BY <3>4, <4>7
      <4> QED BY <4>5, <4>6, <4>7
    <3> QED BY <3>2, <3>3, <3>4
  <2> QED BY <2>3, <2>4, Zenon DEF BatchEchoed
<1> QED BY <1>1, BatchInvHolds, PTL
=============================================================================
