------------------------ MODULE ServiceDiscoveryProofs ------------------------
(***************************************************************************)
(* Safety of service discovery for every set of services and types.        *)
(* First updateAdvertisedServices: what the transports offer is known to   *)
(* handleServiceRequest, and after an update the map and the WebSocket     *)
(* server agree, but for removals that failed.  Then the probes: with their callbacks discovery          *)
(* implements ServiceRegistry, and no answer goes to another probe.        *)
(***************************************************************************)
EXTENDS ServiceProbe, TLAPS

-----------------------------------------------------------------------------
(* The registry *)

(* Which part of an update the poll thread's lists belong to. *)
UpdatePhase ==
  /\ poll \notin {"remove", "removeGateway"} => removing = {}
  /\ poll \in {"removeGateway", "register", "gateway"} => current \in Services
  /\ poll \in {"remove", "removeGateway"} => removing \cap Offered = {}
  /\ poll \in {"remove", "removeGateway", "add", "register", "gateway"} =>
       fresh \cap Offered = {}

(* What the map and removing know of the WebSocket server's list: its call  *)
(* for the service in hand is made already, or still to come.               *)
InHand == IF poll \in {"removeGateway", "register"} THEN {current} ELSE {}
Listed == (Offered \cup removing) \ InHand

(* The rest of that list are the services it would not remove. *)
ServerList ==
  /\ wsServices = Listed \cup wsLeft /\ wsLeft \cap Listed = {}
  /\ poll = "removeGateway" => current \in removing
  /\ poll \in {"register", "gateway"} => current \in Offered

(* The gateway's list; the service being registered is not yet on it, but   *)
(* for a failed removal.                                                    *)
GatewayList ==
  /\ gwServices \subseteq (Offered \cap wsServices) \cup removing \cup gwLeft
  /\ poll = "register" => current \notin gwServices \ gwLeft

RegistryIInv ==
  /\ RegistryTypeOK
  /\ UpdatePhase
  /\ ServerList
  /\ GatewayList

-----------------------------------------------------------------------------
LEMMA RegistryInitial == RegistryInit => RegistryIInv
BY RegistryAssumption
   DEF RegistryInit, RegistryIInv, RegistryTypeOK, leftVars, UpdatePhase,
       ServerList, InHand, Listed, GatewayList, Offered

(* The insertion of an entry adds its service to the map, and nothing else. *)
LEMMA InsertedIsOffered ==
  ASSUME RegistryTypeOK, NEW sv \in Services, NEW ty \in SrvTypes,
         advertised' = [advertised EXCEPT ![sv] = ty]
  PROVE  Offered' = Offered \cup {sv}
BY RegistryAssumption DEF RegistryTypeOK, Offered

LEMMA TakenBackIsNotOffered ==
  ASSUME RegistryTypeOK, current \in Services, TakeBackEntry
  PROVE  Offered' = Offered \ {current}
BY DEF RegistryTypeOK, Offered, TakeBackEntry

LEMMA UpdateStep ==
  ASSUME RegistryIInv, UpdateServices  PROVE RegistryIInv'
<1> USE DEF RegistryIInv, RegistryTypeOK, leftVars,
       UpdatePhase, ServerList, InHand, Listed, GatewayList
<1>1. CASE QueryServices
  BY <1>1, RegistryAssumption DEF QueryServices, Offered
<1>2. CASE QueryFails  BY <1>2 DEF QueryFails, Offered
<1>3. CASE EraseServices
  <2>1. Offered' = Offered \cap names
    BY <1>3 DEF EraseServices, Offered
  <2>2. advertised' \in [Services -> SrvTypes \cup {None}]
    BY <1>3 DEF EraseServices
  <2> QED BY <1>3, <2>1, <2>2 DEF EraseServices
<1>4. ASSUME NEW sv \in Services, NEW ok \in BOOLEAN, RemoveFromServer(sv, ok)
      PROVE  RegistryIInv'
  <2>1. Offered' = Offered  BY <1>4 DEF RemoveFromServer, Offered
  <2> QED BY <1>4, <2>1 DEF RemoveFromServer
<1>5. ASSUME NEW sv \in Services, NEW ty \in SrvTypes, ProbeType(sv, ty)
      PROVE  RegistryIInv'
  <2>1. Offered' = Offered \cup {sv}
    BY <1>5, InsertedIsOffered DEF ProbeType, InsertEntry
  <2>2. sv \notin Offered  BY <1>5 DEF ProbeType
  <2>3. advertised' \in [Services -> SrvTypes \cup {None}]
    BY <1>5 DEF ProbeType, InsertEntry
  <2> QED BY <1>5, <2>1, <2>2, <2>3 DEF ProbeType, InsertEntry
<1>6. ASSUME NEW sv \in Services, ProbeFails(sv)  PROVE RegistryIInv'
  BY <1>6 DEF ProbeFails, Offered
<1>7. ASSUME NEW ok \in BOOLEAN, RemoveFromGateway(ok)  PROVE RegistryIInv'
  <2>1. Offered' = Offered  BY <1>7 DEF RemoveFromGateway, Offered
  <2> QED BY <1>7, <2>1 DEF RemoveFromGateway
<1>8. CASE RemoveDone  BY <1>8 DEF RemoveDone, Offered
<1>9. CASE AddToServer
  <2>1. Offered' = Offered  BY <1>9 DEF AddToServer, Offered
  <2> QED BY <1>9, <2>1 DEF AddToServer
<1>10. ASSUME NEW ok \in BOOLEAN, AddToGateway(ok)  PROVE RegistryIInv'
  <2>1. Offered' = Offered  BY <1>10 DEF AddToGateway, Offered
  <2> QED BY <1>10, <2>1 DEF AddToGateway
<1>11. CASE AddFails
  <2>1. Offered' = Offered \ {current}
    BY <1>11, TakenBackIsNotOffered DEF AddFails
  <2>2. advertised' \in [Services -> SrvTypes \cup {None}]
    BY <1>11 DEF AddFails, TakeBackEntry
  <2> QED BY <1>11, <2>1, <2>2 DEF AddFails
<1>12. CASE AddDone  BY <1>12 DEF AddDone, Offered
<1> QED BY <1>1, <1>2, <1>3, <1>4, <1>5, <1>6, <1>7, <1>8, <1>9, <1>10, <1>11,
           <1>12 DEF UpdateServices

LEMMA ServersStep ==
  ASSUME RegistryIInv, ServersChange  PROVE RegistryIInv'
<1>1. PICK sv \in Services, ty \in SrvTypes \cup {None} : ServerChange(sv, ty)
  BY DEF ServersChange
<1>2. srvChanges' \in 0..MaxSrvChanges
  BY <1>1, RegistryAssumption DEF ServerChange, RegistryIInv, RegistryTypeOK
<1> QED BY <1>1, <1>2 DEF ServerChange, RegistryIInv, RegistryTypeOK,
                          leftVars, UpdatePhase, ServerList, InHand, Listed,
                          GatewayList, Offered

LEMMA EndCycleStep ==
  ASSUME RegistryIInv, EndCycle  PROVE RegistryIInv'
BY DEF EndCycle, RegistryIInv, RegistryTypeOK, leftVars,
       UpdatePhase, ServerList, InHand, Listed, GatewayList, Offered

LEMMA RegistryUnchanged ==
  ASSUME RegistryIInv, UNCHANGED registryVars  PROVE RegistryIInv'
BY DEF registryVars, RegistryIInv, RegistryTypeOK, leftVars,
       UpdatePhase, ServerList, InHand, Listed, GatewayList, Offered

LEMMA RegistryInductive == RegistrySpec => []RegistryIInv
<1>1. RegistryIInv /\ [RegistryNext]_registryVars => RegistryIInv'
  BY UpdateStep, ServersStep, EndCycleStep, RegistryUnchanged DEF RegistryNext
<1> QED BY <1>1, RegistryInitial, PTL DEF RegistrySpec

LEMMA RegistryIsSafe ==
  ASSUME RegistryIInv  PROVE OfferedIsKnown /\ MapMatchesServer
BY DEF RegistryIInv, RegistryTypeOK, leftVars,
       UpdatePhase, ServerList, InHand, Listed, GatewayList, OfferedIsKnown,
       MapMatchesServer

(* A request never finds its service unknown, unless the service is just    *)
(* being taken off the transports or its transport refused to remove it,    *)
(* for every set of services.                                               *)
THEOREM OfferedServicesKnown == RegistrySpec => []OfferedIsKnown
<1>1. RegistryIInv => OfferedIsKnown  BY RegistryIsSafe
<1> QED BY <1>1, RegistryInductive, PTL

(* Between two updates the WebSocket server offers what is in               *)
(* _advertisedServices and, besides, exactly the services it refused to     *)
(* remove and has not accepted again: no other failure makes them differ.   *)
THEOREM MapAgreesWithServer == RegistrySpec => []MapMatchesServer
<1>1. RegistryIInv => MapMatchesServer  BY RegistryIsSafe
<1> QED BY <1>1, RegistryInductive, PTL

-----------------------------------------------------------------------------
(* Probes *)

(* A service in the making has its connection's type, and so has a header   *)
(* that this probe's callback was given.                                    *)
ProbeIInv ==
  /\ RegistryIInv
  /\ DiscoveryTypeOK
  /\ AnswerIsOwn
  /\ probing # None => linkType # None
  /\ own => header \in {linkType, "untyped"}

-----------------------------------------------------------------------------
LEMMA ProbeInitial == ProbeInit => ProbeIInv
BY RegistryInitial
   DEF ProbeInit, ProbeIInv, RegistryInit, RegistryIInv, DiscoveryTypeOK, AnswerIsOwn

(* What a probe does to the registry is a step of the registry. *)
LEMMA WaiterSteps ==
  ASSUME ProbeIInv, Waiter  PROVE UpdateServices \/ UNCHANGED registryVars
<1> USE DEF ProbeIInv, RegistryIInv, RegistryTypeOK, UpdateServices
<1>1. ASSUME NEW sv \in Services, ConnectFails(sv) \/ Connect(sv)
      PROVE  UpdateServices \/ UNCHANGED registryVars
  BY <1>1 DEF ConnectFails, Connect
<1>2. CASE GetType  BY <1>2 DEF GetType, ProbeType
<1>3. CASE GetThrows  BY <1>3 DEF GetThrows, ProbeFails
<1>4. CASE TimesOut  BY <1>4 DEF TimesOut, ProbeFails
<1> QED BY <1>1, <1>2, <1>3, <1>4 DEF Waiter

LEMMA RefinesStep ==
  ASSUME ProbeIInv, [ProbeNext]_discoveryVars  PROVE [RegistryNext]_registryVars
<1>1. CASE ServersChange \/ Update
  BY <1>1 DEF RegistryNext, Update, UpdateServices
<1>2. CASE Waiter  BY <1>2, WaiterSteps DEF RegistryNext
<1>3. ASSUME NEW typed \in BOOLEAN, HeaderArrives(typed)
      PROVE  [RegistryNext]_registryVars
  BY <1>3 DEF HeaderArrives
<1>4. CASE HeaderCallback
  BY <1>4 DEF HeaderCallback, Fulfil, DropConnection
<1>5. CASE UNCHANGED discoveryVars  BY <1>5 DEF discoveryVars
<1> QED BY <1>1, <1>2, <1>3, <1>4, <1>5 DEF ProbeNext

(* While a probe waits, no other step of an update is possible, and the     *)
(* entry being registered is not touched by the others.                     *)
LEMMA UpdateKeepsProbe ==
  ASSUME ProbeIInv, RegistryIInv', ServersChange \/ Update, UNCHANGED probeVars
  PROVE  ProbeIInv'
<1> USE DEF ProbeIInv, DiscoveryTypeOK, AnswerIsOwn, RegistryIInv, RegistryTypeOK,
            probeVars, waitVars, headerVars
<1>1. CASE ServersChange  BY <1>1 DEF ServersChange, ServerChange
<1>2. CASE QueryServices \/ QueryFails \/ EraseServices
  BY <1>2 DEF QueryServices, QueryFails, EraseServices
<1>3. CASE RemoveDone \/ AddDone \/ EndCycle
  BY <1>3 DEF RemoveDone, AddDone, EndCycle
<1>4. ASSUME NEW sv \in Services, NEW ok \in BOOLEAN, RemoveFromServer(sv, ok)
      PROVE  ProbeIInv'
  BY <1>4 DEF RemoveFromServer
<1>5. CASE AddToServer \/ AddFails  BY <1>5 DEF AddToServer, AddFails
<1>6. ASSUME NEW ok \in BOOLEAN, RemoveFromGateway(ok) \/ AddToGateway(ok)
      PROVE  ProbeIInv'
  BY <1>6 DEF RemoveFromGateway, AddToGateway
<1> QED BY <1>1, <1>2, <1>3, <1>4, <1>5, <1>6 DEF Update

LEMMA WaiterKeepsProbe ==
  ASSUME ProbeIInv, RegistryIInv', Waiter  PROVE ProbeIInv'
<1> USE RegistryAssumption, ProbeAssumption
    DEF ProbeIInv, DiscoveryTypeOK, AnswerIsOwn, RegistryIInv, RegistryTypeOK
<1>1. ASSUME NEW sv \in Services, ConnectFails(sv)  PROVE ProbeIInv'
  BY <1>1 DEF ConnectFails, ProbeFails, probeVars, waitVars, headerVars
<1>2. ASSUME NEW sv \in Services, Connect(sv)  PROVE ProbeIInv'
  <2>1. promise' = None /\ linkType' \in SrvTypes /\ probing' = sv
    BY <1>2 DEF Connect
  <2>2. UNCHANGED <<poll, fresh, advertised, current, callback, own, header>>
    BY <1>2 DEF Connect, registryVars, headerVars
  <2>3. poll = "add" /\ probing = None /\ sv \in fresh  BY <1>2 DEF Connect
  <2> QED BY <2>1, <2>2, <2>3
<1>3. CASE GetType
  <2>1. promise = linkType  BY <1>3 DEF GetType
  <2>2. advertised'[current'] = promise
    BY <1>3 DEF GetType, ProbeType, InsertEntry
  <2> QED BY <1>3, <2>1, <2>2 DEF GetType, ProbeType, InsertEntry, Finish
<1>4. CASE GetThrows \/ TimesOut
  BY <1>4 DEF GetThrows, TimesOut, ProbeFails, Finish
<1> QED BY <1>1, <1>2, <1>3, <1>4 DEF Waiter

LEMMA CallbackKeepsProbe ==
  ASSUME ProbeIInv, RegistryIInv',
         HeaderCallback \/ \E typed \in BOOLEAN : HeaderArrives(typed)
  PROVE  ProbeIInv'
<1> USE DEF ProbeIInv, DiscoveryTypeOK, AnswerIsOwn, RegistryIInv,
            registryVars, waitVars
<1>1. CASE Fulfil  BY <1>1 DEF Fulfil, SetOwn
<1>2. CASE DropConnection  BY <1>2 DEF DropConnection
<1>3. ASSUME NEW typed \in BOOLEAN, HeaderArrives(typed)  PROVE ProbeIInv'
  BY <1>3 DEF HeaderArrives
<1> QED BY <1>1, <1>2, <1>3 DEF HeaderCallback

LEMMA ProbeInductive == ProbeSpec => []ProbeIInv
<1>1. ASSUME ProbeIInv, [ProbeNext]_discoveryVars  PROVE ProbeIInv'
  <2>1. RegistryIInv'
    BY <1>1, RefinesStep, UpdateStep, ServersStep, EndCycleStep,
       RegistryUnchanged DEF ProbeIInv, RegistryNext
  <2>2. CASE UNCHANGED discoveryVars
    BY <1>1, <2>1, <2>2 DEF discoveryVars, registryVars, probeVars, waitVars, headerVars,
       ProbeIInv, DiscoveryTypeOK, RegistryIInv, AnswerIsOwn
  <2> QED BY <1>1, <2>1, <2>2, UpdateKeepsProbe, WaiterKeepsProbe,
             CallbackKeepsProbe DEF ProbeNext
<1> QED BY <1>1, ProbeInitial, PTL DEF ProbeSpec

(* Probing with a callback that may come too late, or in the middle of the  *)
(* wait's timeout, looks to the rest of the bridge as ServiceRegistry has   *)
(* it: a probe gives a type or fails.                                       *)
THEOREM ProbeImplementsRegistry == ProbeSpec => RegistrySpec
<1>1. ProbeInit => RegistryInit  BY DEF ProbeInit
<1>2. ProbeIInv /\ [ProbeNext]_discoveryVars => [RegistryNext]_registryVars
  BY RefinesStep
<1> QED BY <1>1, <1>2, ProbeInductive, PTL DEF ProbeSpec, RegistrySpec

(* Types hold for the registry and the probe together, and a callback       *)
(* belongs to the current probe only while the poll thread waits for it.    *)
THEOREM DiscoveryTypeCorrect == ProbeSpec => []DiscoveryTypeOK
<1>1. ProbeIInv => DiscoveryTypeOK  BY DEF ProbeIInv
<1> QED BY <1>1, ProbeInductive, PTL

(* A service is registered with the type its own server answered, however   *)
(* late the callbacks of abandoned probes run.                              *)
THEOREM AnswersAreOwn == ProbeSpec => []AnswerIsOwn
<1>1. ProbeIInv => AnswerIsOwn  BY DEF ProbeIInv
<1> QED BY <1>1, ProbeInductive, PTL
===============================================================================
