----------------------------- MODULE ParamValues -----------------------------
(***************************************************************************)
(* Reading and writing parameters: the conversions between XML-RPC values  *)
(* and the SDK's, getParams and setParams, and how the worker answers.     *)
(*                                                                         *)
(* A value is a tree: from the paths of its members, and of their members, *)
(* to their type and number.  A double counts in halves; the members of a  *)
(* struct are numbered in the order of their names.                        *)
(* External: the master's parameters, one such tree of structs whose       *)
(* members are the components of names.  Other nodes change it too, and it *)
(* is always within reach.  Also external: what a client makes of a value. *)
(***************************************************************************)
EXTENDS Integers, Sequences, FiniteSets

CONSTANTS
  Names,      \* names clients use
  NodePath,   \* the bridge's own name
  Unlisted,   \* names that do not match the whitelist
  Refused,    \* names roscpp throws InvalidNameException for
  Given,      \* the parameters at the start
  Shared,     \* bound: the paths other nodes set or delete
  MaxDepth,   \* MAX_PARAM_DEPTH
  IntMax,     \* INT_MAX
  RosValues,  \* values other nodes set
  Items,      \* what clients set: name, value (Unset deletes), type
  MaxBatch    \* bound: items of one request

VARIABLES
  master,    \* the tree of all parameters
  phase,     \* what the worker does
  todo,      \* items still to set, or names still to read
  response,  \* what has been read
  request,   \* items of the setParams request being served
  before,    \* the parameters when it came
  touched    \* paths other nodes have changed since

vars == <<master, phase, todo, response, request, before, touched>>

-----------------------------------------------------------------------------
(* Values and their conversions, which treat every member by itself *)

Node(t, n) == [t |-> t, v |-> n]

Unset == [p \in {} |-> Node("invalid", 0)]

Ints == -(IntMax + 1) .. IntMax

(* Paths: what is above one, and whether one leads through another. *)
Above(p) == {SubSeq(p, 1, k) : k \in 0 .. Len(p) - 1}
Prefix(p, q) == Len(p) <= Len(q) /\ \A i \in 1 .. Len(p) : p[i] = q[i]
Overlap(p, q) == Prefix(p, q) \/ Prefix(q, p)

Tree(x) ==
  /\ x = [p \in DOMAIN x |-> Node(x[p].t, x[p].v)] /\ IsFiniteSet(DOMAIN x)
  /\ <<>> \in DOMAIN x /\ DOMAIN x \subseteq Seq(Nat)
  /\ \A p \in DOMAIN x : x[p].v \in Int /\ Above(p) \subseteq DOMAIN x

Members(x, p) == {q \in DOMAIN x : Len(q) = Len(p) + 1 /\ SubSeq(q, 1, Len(p)) = p}

SdkType == [boolean |-> "bool", int |-> "int64", double |-> "float64",
            string |-> "text", array |-> "list", struct |-> "dict"]
RosType == [bool |-> "boolean", int64 |-> "int", float64 |-> "double",
            text |-> "string", list |-> "array", dict |-> "struct"]

(* What another node may have set, and what the SDK hands over.             *)
RosValue(x) == Tree(x) /\ \A p \in DOMAIN x : x[p].t = "int" => x[p].v \in Ints
SdkValue(x) == Tree(x) /\ \A p \in DOMAIN x : x[p].t \in DOMAIN RosType

TooDeep(depth) == depth > MaxDepth

(* Where valueFromRosParam throws; fromRosParam starts it at depth 1, and   *)
(* only for containers: a scalar is within any cap.                         *)
FromThrows(x) ==
  \E p \in DOMAIN x : TooDeep(Len(p) + 1) \/ x[p].t \notin DOMAIN SdkType

fromRosParam(x) ==
  [value |-> [p \in DOMAIN x |-> Node(SdkType[x[p].t], x[p].v)],
   type |-> IF x[<<>>].t = "double" THEN "float64" ELSE "none"]

ToThrows(x) == \E p \in DOMAIN x : TooDeep(Len(p))

(* static_cast<int> of an int64_t. *)
Narrow(n) == ((n + IntMax + 1) % (2 * (IntMax + 1))) - (IntMax + 1)

(* Wrong variant: the type hint is not looked at. *)
Unhinted(n, type) == Node("int", Narrow(n))

Integer(n, type) ==
  IF type = "float64" THEN Node("double", 2 * n) ELSE Node("int", Narrow(n))

(* Only a member makes an XmlRpcValue a container: an empty one stays       *)
(* invalid.                                                                 *)
Empty(x, p) == x[p].t \in {"list", "dict", "array", "struct"} /\ Members(x, p) = {}
HasEmpty(x) == \E p \in DOMAIN x : Empty(x, p)

(* Only the top level gets the hint. *)
toRosParam(x, type) ==
  [p \in DOMAIN x |->
     CASE x[p].t = "int64" -> Integer(x[p].v, IF p = <<>> THEN type ELSE "none")
       [] Empty(x, p) -> Node("invalid", 0)
       [] OTHER -> Node(RosType[x[p].t], x[p].v)]

(* JSON, as a client writes it, does not tell 2.0 from 2. *)
AsJson(x) ==
  [p \in DOMAIN x |-> IF x[p].t = "float64" /\ x[p].v % 2 = 0
                        THEN Node("int64", x[p].v \div 2) ELSE x[p]]

(* MAX_PARAM_DEPTH "never rejects a value the SDK accepted": the SDK's limit *)
(* counts the levels of the message around the value as well.               *)
ASSUME ValuesAssumption ==
  /\ MaxDepth \in Nat \ {0} /\ IntMax \in Nat /\ MaxBatch \in Nat
  /\ Names \subseteq [path : Seq(Nat) \ {<<>>}, abs : BOOLEAN]
  /\ Shared \subseteq Seq(Nat) \ {<<>>} /\ NodePath \in Seq(Nat)
  /\ RosValue(Given) /\ Given[<<>>].t = "struct"
  /\ \A x \in RosValues : RosValue(x)
  /\ \A item \in Items :
       /\ item.name \in Names
       /\ item.value # Unset =>
            /\ SdkValue(item.value)
            /\ \A p \in DOMAIN item.value : ~TooDeep(Len(p) + 1)

-----------------------------------------------------------------------------
(* The master's tree *)

(* A name leads through structs only. *)
Has(m, p) == p \in DOMAIN m /\ \A a \in Above(p) : m[a].t = "struct"

(* What getParam finds: a value, of a namespace a struct. *)
At(m, p) ==
  IF Has(m, p)
    THEN [r \in {SubSeq(q, Len(p) + 1, Len(q)) : q \in {k \in DOMAIN m : Prefix(p, k)}}
            |-> m[p \o r]]
    ELSE Unset

Without(m, p) == [q \in {k \in DOMAIN m : ~Prefix(p, k)} |-> m[q]]

(* The namespaces a value is set in are made; a parameter that has the name *)
(* of one gives way.                                                        *)
With(m, p, x) ==
  LET blocking == {a \in Above(p) \cap DOMAIN m : m[a].t # "struct"}
      kept == {k \in DOMAIN m : \A a \in blocking \cup {p} : ~Prefix(a, k)}
  IN [q \in kept \cup Above(p) \cup {p \o r : r \in DOMAIN x} |->
        IF Prefix(p, q) THEN x[SubSeq(q, Len(p) + 1, Len(q))]
        ELSE IF q \in kept THEN m[q] ELSE Node("struct", 0)]

(* setParam and deleteParam act on everything below the name as well. *)
Put(m, p, x) ==
  IF x # Unset THEN With(m, p, x) ELSE IF Has(m, p) THEN Without(m, p) ELSE m

(* A name: where it leads once resolved, and whether it is spelled from the *)
(* root.                                                                    *)
Name == [path : Seq(Nat), abs : BOOLEAN]

(* getParamNames: namespaces are not listed. *)
AllNames(m) ==
  {[path |-> p, abs |-> TRUE] : p \in {q \in DOMAIN m : Has(m, q) /\ m[q].t # "struct"}}

(* isOwnParameter looks at the name as it is spelled: one above them, or one *)
(* not spelled from the root, is no own name.                               *)
OwnPath(p) == Len(NodePath) < Len(p) /\ Prefix(NodePath, p)
Own(n) == n.abs /\ OwnPath(n.path)

Readable(n) == ~Own(n) /\ n \notin Unlisted
Settable(n) == Readable(n) /\ n \notin Refused

-----------------------------------------------------------------------------
(* The worker *)

(* The orders in which the master may list names. *)
Lists(S) == {s \in [1 .. Cardinality(S) -> S] :
               \A i, j \in DOMAIN s : i # j => s[i] # s[j]}

ClientSets(items) ==
  /\ phase = "idle"
  /\ phase' = IF items = <<>> THEN "answered" ELSE "setting"
  /\ todo' = items /\ request' = items
  /\ before' = master /\ touched' = {}
  /\ UNCHANGED <<master, response>>

ClientGets(names) ==
  /\ phase = "idle"
  /\ phase' = "reading"
  /\ todo' \in IF names # <<>> THEN {names}
              ELSE Lists(AllNames(master))
  /\ touched' = {}
  /\ UNCHANGED <<master, response, request, before>>

(* The master does not tell the names: the responder is dropped. *)
NamesFail ==
  /\ phase = "idle"
  /\ phase' = "answered"
  /\ UNCHANGED <<master, todo, response, request, before, touched>>

(* Wrong variant: the exception ends the batch. *)
AbortBatch == <<>>

(* What the master may hold after a call for an item.  XML-RPC has no       *)
(* notation for an invalid value: what becomes of it is left open.          *)
Stored(item) ==
  IF item.value = Unset THEN {Unset}
  ELSE IF HasEmpty(item.value) THEN RosValues \cup {At(master, item.name.path)}
  ELSE {toRosParam(item.value, item.type)}

(* What is left of the batch after an item whose conversion or call throws. *)
AfterThrow == Tail(todo)

SetNext ==
  /\ phase = "setting" /\ todo # <<>>
  /\ LET item == Head(todo)
         throws == item.name \in Refused
                   \/ (item.value # Unset /\ ToThrows(item.value))
     IN IF ~Readable(item.name) THEN todo' = Tail(todo) /\ UNCHANGED master
        ELSE IF throws THEN todo' = AfterThrow /\ UNCHANGED master
        ELSE /\ todo' = Tail(todo)
             /\ \E x \in Stored(item) : master' = Put(master, item.name.path, x)
  /\ UNCHANGED <<phase, response, request, before, touched>>

(* The values are fetched to be echoed. *)
ReadBack ==
  /\ phase = "setting" /\ todo = <<>>
  /\ phase' = "reading"
  /\ todo' = [i \in DOMAIN request |-> request[i].name]
  /\ UNCHANGED <<master, response, request, before, touched>>

GetNext ==
  /\ phase = "reading" /\ todo # <<>>
  /\ LET n == Head(todo)
         param == At(master, n.path)
     IN response' = IF Settable(n) /\ param # Unset /\ ~FromThrows(param)
                    THEN Append(response, [name |-> n, value |-> fromRosParam(param).value])
                    ELSE response
  /\ todo' = Tail(todo)
  /\ UNCHANGED <<master, phase, request, before, touched>>

Respond ==
  /\ phase = "reading" /\ todo = <<>>
  /\ phase' = "answered"
  /\ UNCHANGED <<master, todo, response, request, before, touched>>

NextOp ==
  /\ phase = "answered"
  /\ phase' = "idle"
  /\ todo' = <<>> /\ response' = <<>> /\ request' = <<>>
  /\ before' = Given /\ touched' = {}
  /\ UNCHANGED master

(* Bound: once for each path while a request is served. *)
OtherNodeSets(p, x) ==
  /\ p \notin touched
  /\ master' = Put(master, p, x)
  /\ touched' = touched \cup {p}
  /\ UNCHANGED <<phase, todo, response, request, before>>

-----------------------------------------------------------------------------
Init ==
  /\ master = Given /\ before = Given
  /\ phase = "idle" /\ todo = <<>> /\ response = <<>> /\ request = <<>>
  /\ touched = {}

Batches == UNION {[1 .. k -> Items] : k \in 0 .. MaxBatch}

Next ==
  \/ \E items \in Batches : ClientSets(items)
  \/ \E names \in {<<n>> : n \in Names} \cup {<<>>} : ClientGets(names)
  \/ NamesFail \/ SetNext \/ ReadBack \/ GetNext \/ Respond \/ NextOp
  \/ \E p \in Shared, x \in RosValues \cup {Unset} : OtherNodeSets(p, x)

Spec == Init /\ [][Next]_vars

-----------------------------------------------------------------------------
(* Properties *)

(* Types: whatever a client sends, a parameter holds nothing that an XML-RPC *)
(* value could not be, and clients are told nothing that the SDK could not   *)
(* express.                                                                  *)
ValuesTypeOK ==
  /\ \A m \in {master, before} : RosValue(m) /\ m[<<>>].t = "struct"
  /\ phase \in {"idle", "setting", "reading", "answered"}
  /\ todo \in IF phase = "setting" THEN Seq(Items) ELSE Seq(Name)
  /\ request \in Seq(Items)
  /\ touched \subseteq Seq(Nat)
  /\ response \in Seq({response[i] : i \in DOMAIN response})
  /\ \A i \in DOMAIN response :
       response[i].name \in Name /\ SdkValue(response[i].value)

(* Values whose types survive the way to a client and back. *)
Keeps(x) ==
  \A p \in DOMAIN x :
    /\ x[p].t \in DOMAIN SdkType /\ ~Empty(x, p)
    /\ x[p].t = "double" /\ x[p].v % 2 = 0 => p = <<>>

(* What a client reads and writes back unchanged leaves the parameter as it *)
(* was, unless it is too deep to read, holds a type or an empty container   *)
(* that has no counterpart, or a whole double inside a container, which     *)
(* comes back an int.                                                       *)
WriteBackKeeps ==
  \A n \in Names :
    LET param == At(master, n.path)
        read == fromRosParam(param)
        back == AsJson(read.value)
    IN param # Unset =>
         ((/\ ~FromThrows(param) /\ ~ToThrows(back)
           /\ toRosParam(back, read.type) = param)
            <=> (Keeps(param) /\ \A p \in DOMAIN param : ~TooDeep(Len(p) + 1)))

Echo(n) == {response[i].value : i \in {j \in DOMAIN response : response[j].name = n}}

(* Every integer fits an int, or is the hinted value itself. *)
Fits(item) ==
  \A p \in DOMAIN item.value :
    item.value[p].t = "int64" =>
      item.value[p].v \in Ints \/ (p = <<>> /\ item.type = "float64")

Untouched(p) == \A t \in touched : ~Overlap(t, p)

(* An item of the request that is set, at, above or below a path. *)
Concerns(i, p) == Settable(request[i].name) /\ Overlap(request[i].name.path, p)

(* Nothing that was set after an item, by whomever, is near its path.       *)
Stands(i) ==
  LET p == request[i].name.path IN
  Untouched(p) /\ \A j \in DOMAIN request : j > i => ~Concerns(j, p)

(* Once a setParams request is answered, an item that was not refused, and  *)
(* whose path, what is above it and what is below it nobody has set since,  *)
(* is in force, whatever became of the other items; and the requester is    *)
(* told so: it gets back the very value it set exactly if that value fits   *)
(* an int wherever one is needed.  Of a refused item it is told nothing,    *)
(* and what no item and no other node was near is as it was.                *)
(* What becomes of an empty list or struct is left open.                    *)
BatchEchoed ==
  phase = "answered" /\ request # <<>> =>
    /\ \A n \in Names :
         Untouched(n.path) /\ (\A i \in DOMAIN request : ~Concerns(i, n.path)) =>
           At(master, n.path) = At(before, n.path)
    /\ \A i \in DOMAIN request :
         LET sent == request[i]
             n == sent.name
         IN IF ~Settable(n) THEN Echo(n) = {}
            ELSE Stands(i) =>
              IF sent.value = Unset THEN Echo(n) = {} /\ At(master, n.path) = Unset
              ELSE HasEmpty(sent.value)
                   \/ /\ Cardinality(Echo(n)) = 1
                      /\ \A v \in Echo(n) :
                           AsJson(v) = AsJson(sent.value) <=> Fits(sent)
=============================================================================
