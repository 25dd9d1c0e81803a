----------------------------- MODULE ServiceProbe -----------------------------
(***************************************************************************)
(* Service discovery with the inside of retrieveServiceType: the poll      *)
(* thread connects to a service's server and waits for the connection      *)
(* header, which roscpp's own poll thread delivers to a callback that can  *)
(* still run when the wait has timed out.  The promise belongs to one probe *)
(* and the callback shares its ownership, so that of an abandoned probe    *)
(* stays around for it.  A refinement of ServiceRegistry.                  *)
(***************************************************************************)
EXTENDS ServiceRegistry

ASSUME ProbeAssumption == "untyped" \notin SrvTypes

VARIABLES
  probing,   \* the service being probed, None if none
  linkType,  \* type of the server its connection goes to
  promise,   \* what its SharedState::promise holds: a type, "untyped", or None
  callback,  \* where the header callback on roscpp's poll thread is
  own,       \* TRUE while that callback belongs to this probe
  header     \* the "type" it was given, "untyped" if the key is missing

waitVars == <<probing, linkType>>
headerVars == <<callback, own, header>>
probeVars == <<waitVars, promise, headerVars>>
discoveryVars == <<registryVars, probeVars>>

-----------------------------------------------------------------------------
(* The waiter, on the bridge's poll thread *)

(* lookupService or connect fails. *)
ConnectFails(sv) ==
  /\ probing = None
  /\ ProbeFails(sv)
  /\ UNCHANGED probeVars

Connect(sv) ==
  /\ poll = "add" /\ probing = None
  /\ sv \in fresh /\ server[sv] # None
  /\ probing' = sv
  /\ linkType' = server[sv]
  /\ promise' = None
  /\ UNCHANGED <<registryVars, headerVars>>

(* This probe is over; a callback still in flight is nobody's. *)
Finish ==
  /\ probing' = None
  /\ own' = FALSE
  /\ UNCHANGED <<linkType, promise, callback, header>>

(* Wrong variant: a probe that failed is taken for a type. *)
GetAnything ==
  /\ probing # None /\ promise # None
  /\ ProbeType(probing, promise)
  /\ Finish

(* wait_for finds the promise set; future.get() returns its value ...       *)
GetType ==
  /\ probing # None /\ promise \in SrvTypes
  /\ ProbeType(probing, promise)
  /\ Finish

(* ... or throws its exception. *)
GetThrows ==
  /\ probing # None /\ promise = "untyped"
  /\ ProbeFails(probing)
  /\ Finish

TimesOut ==
  /\ probing # None /\ promise = None
  /\ ProbeFails(probing)
  /\ Finish

-----------------------------------------------------------------------------
(* The callback, on roscpp's poll thread *)

(* The header, one per connection, arrives before the connection is         *)
(* dropped.  roscpp runs one callback at a time.                            *)
HeaderArrives(typed) ==
  /\ probing # None /\ promise = None /\ callback = "none"
  /\ callback' = "begun"
  /\ own' = TRUE
  /\ header' = IF typed THEN linkType ELSE "untyped"
  /\ UNCHANGED <<registryVars, waitVars, promise>>

(* Wrong variant: all probes share one promise. *)
SetShared == promise' = header

(* set_value or set_exception, on the promise of the callback's own probe.  *)
(* The exchange of fulfilled lets only the first callback get here.         *)
SetOwn == promise' = IF own THEN header ELSE promise

Fulfil ==
  /\ callback = "begun"
  /\ SetOwn
  /\ callback' = "fulfilled"
  /\ UNCHANGED <<registryVars, waitVars, own, header>>

DropConnection ==
  /\ callback = "fulfilled"
  /\ callback' = "none"
  /\ own' = FALSE
  /\ UNCHANGED <<registryVars, waitVars, promise, header>>

-----------------------------------------------------------------------------
ProbeInit ==
  /\ RegistryInit
  /\ probing = None /\ linkType = None /\ promise = None
  /\ callback = "none" /\ own = FALSE /\ header = "untyped"

Waiter ==
  \/ \E sv \in Services : ConnectFails(sv) \/ Connect(sv)
  \/ GetType
  \/ GetThrows
  \/ TimesOut

HeaderCallback == Fulfil \/ DropConnection

(* The steps of an update other than those of a probe. *)
Update ==
  \/ QueryServices
  \/ QueryFails
  \/ EraseServices
  \/ \E sv \in Services, ok \in BOOLEAN : RemoveFromServer(sv, ok)
  \/ \E ok \in BOOLEAN : RemoveFromGateway(ok) \/ AddToGateway(ok)
  \/ RemoveDone
  \/ AddToServer
  \/ AddFails
  \/ AddDone
  \/ EndCycle

ProbeNext ==
  \/ (ServersChange \/ Update) /\ UNCHANGED probeVars
  \/ Waiter
  \/ \E typed \in BOOLEAN : HeaderArrives(typed)
  \/ HeaderCallback

ProbeSpec == ProbeInit /\ [][ProbeNext]_discoveryVars

(* Both threads keep running.  What is tried again in every cycle succeeds  *)
(* in the end: the master answers, and for a service the WebSocket server   *)
(* does not offer already, a running server is reached, a probe repeated    *)
(* for ever gets its header before the timeout some time (no callback of an *)
(* earlier probe being in its way), and the WebSocket server takes the      *)
(* service.  Nothing is assumed of removals, which are not tried again.     *)
ProbeFairness ==
  /\ WF_discoveryVars(Waiter \/ (Update /\ UNCHANGED probeVars))
  /\ WF_discoveryVars(HeaderCallback)
  /\ SF_discoveryVars(QueryServices /\ UNCHANGED probeVars)
  /\ SF_discoveryVars(\E sv \in Services \ wsLeft : Connect(sv))
  /\ \/ <>[](probing \in wsLeft \cup {None})
     \/ []<><<probing \notin wsLeft /\ HeaderArrives(TRUE)>>_discoveryVars
  /\ SF_discoveryVars(own /\ probing \notin wsLeft /\ header \in SrvTypes /\ Fulfil)
  /\ SF_discoveryVars(AddToServer /\ current \notin wsLeft /\ UNCHANGED probeVars)

ProbeFairSpec == ProbeSpec /\ ProbeFairness

-----------------------------------------------------------------------------
(* Every variable of the discovery keeps its type, those of the registry    *)
(* included; a callback is this probe's only while the poll thread waits.   *)
DiscoveryTypeOK ==
  /\ RegistryTypeOK
  /\ probing \in fresh \cup {None} /\ (probing # None => poll = "add")
  /\ linkType \in SrvTypes \cup {None}
  /\ promise \in SrvTypes \cup {None, "untyped"}
  /\ callback \in {"none", "begun", "fulfilled"}
  /\ header \in SrvTypes \cup {"untyped"}
  /\ own \in BOOLEAN /\ (own => probing # None /\ callback # "none")

(* A service is registered with the type its own server answered: the late  *)
(* callback of a probe that timed out never answers for another one.        *)
AnswerIsOwn ==
  /\ probing # None => promise \in {linkType, "untyped", None}
  /\ poll \in {"register", "gateway"} => advertised[current] = linkType
=============================================================================
