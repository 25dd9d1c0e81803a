--------------------------- MODULE ServiceRegistry ---------------------------
(***************************************************************************)
(* The services the bridge offers: updateAdvertisedServices on the poll    *)
(* thread, with TransportManager::addService and removeService towards the *)
(* WebSocket server and the remote access gateway.                         *)
(*                                                                         *)
(* _servicesMutex is held only for the changes of _advertisedServices, so  *)
(* each such change, each probe of a service server and each call into a   *)
(* transport is a step of its own.  External: the master's service list,   *)
(* the service servers and the two transports' own lists.                  *)
(***************************************************************************)
EXTENDS Naturals

CONSTANTS
  Services,    \* service names
  SrvTypes,    \* service types
  KnownSrv,    \* the types whose definition, and so md5sum, is found
  SrvWhite,    \* the services that match service_whitelist
  HasGateway,  \* TRUE if the remote access gateway runs
  None,        \* no type, no service
  MaxSrvChanges \* bound: changes of the service servers

ASSUME RegistryAssumption ==
  /\ KnownSrv \subseteq SrvTypes /\ SrvWhite \subseteq Services
  /\ HasGateway \in BOOLEAN /\ None \notin Services \cup SrvTypes
  /\ MaxSrvChanges \in Nat

VARIABLES
  server,      \* type a running service server has, None if none runs
  srvChanges,  \* how often that changed (bounded by MaxSrvChanges)
  advertised,  \* _advertisedServices: type of each entry, None if no entry
  wsServices,  \* services the WebSocket server offers
  gwServices,  \* services the gateway offers
  wsLeft,      \* history: services the WebSocket server would not remove
  gwLeft,      \* history: services the gateway would not remove
  poll,        \* where the poll thread is in its cycle
  names,       \* serviceNames of this cycle
  removing,    \* servicesToRemove not yet taken off the transports
  fresh,       \* services of names that have not been looked at yet
  current      \* the service being added or removed, None if none

leftVars == <<wsLeft, gwLeft>>
registryVars == <<server, srvChanges, advertised, wsServices, gwServices,
                  leftVars, poll, names, removing, fresh, current>>

-----------------------------------------------------------------------------
(* A service server starts, stops, or is replaced by one of another type.   *)
ServerChange(sv, ty) ==
  /\ srvChanges < MaxSrvChanges /\ server[sv] # ty
  /\ srvChanges' = srvChanges + 1
  /\ server' = [server EXCEPT ![sv] = ty]
  /\ UNCHANGED <<advertised, wsServices, gwServices, leftVars, poll, names,
                 removing, fresh, current>>

(* getSystemState succeeds. *)
QueryServices ==
  /\ poll = "query"
  /\ names' = {sv \in SrvWhite : server[sv] # None}
  /\ poll' = "erase"
  /\ UNCHANGED <<server, srvChanges, advertised, wsServices, gwServices,
                 leftVars, removing, fresh, current>>

(* getSystemState fails: the whole update is skipped. *)
QueryFails ==
  /\ poll = "query"
  /\ poll' = "sweep"
  /\ UNCHANGED <<server, srvChanges, advertised, wsServices, gwServices,
                 leftVars, names, removing, fresh, current>>

Offered == {sv \in Services : advertised[sv] # None}

(* Entries whose service is gone leave the map first. *)
EraseServices ==
  /\ poll = "erase"
  /\ removing' = Offered \ names
  /\ advertised' = [sv \in Services |->
                      IF sv \in names THEN advertised[sv] ELSE None]
  /\ fresh' = names \ Offered
  /\ poll' = "remove"
  /\ UNCHANGED <<server, srvChanges, wsServices, gwServices, leftVars, names,
                 current>>

(* removeService: the WebSocket server first, then the gateway.  A failure  *)
(* is only logged: the transport goes on offering the service, whose entry  *)
(* is gone, and no later cycle tries again.                                 *)
RemoveFromServer(sv, ok) ==
  /\ poll = "remove" /\ sv \in removing
  /\ \/ ok /\ wsServices' = wsServices \ {sv} /\ wsLeft' = wsLeft \ {sv}
     \/ ~ok /\ wsLeft' = wsLeft \cup {sv} /\ UNCHANGED wsServices
  /\ current' = sv
  /\ poll' = "removeGateway"
  /\ UNCHANGED <<server, srvChanges, advertised, gwServices, gwLeft, names,
                 removing, fresh>>

RemoveFromGateway(ok) ==
  /\ poll = "removeGateway"
  /\ \/ /\ ok
        /\ gwServices' = gwServices \ {current}
        /\ gwLeft' = gwLeft \ {current}
     \/ /\ ~ok /\ HasGateway
        /\ gwLeft' = gwLeft \cup ({current} \cap gwServices)
        /\ UNCHANGED gwServices
  /\ removing' = removing \ {current}
  /\ current' = None
  /\ poll' = "remove"
  /\ UNCHANGED <<server, srvChanges, advertised, wsServices, wsLeft, names,
                 fresh>>

RemoveDone ==
  /\ poll = "remove" /\ removing = {}
  /\ poll' = "add"
  /\ UNCHANGED <<server, srvChanges, advertised, wsServices, gwServices,
                 leftVars, names, removing, fresh, current>>

(* Wrong variant: the entry appears only once the transports know it. *)
InsertLate(sv, ty) ==
  /\ current' = sv
  /\ poll' = "register"
  /\ UNCHANGED advertised

(* The entry is in the map before any transport offers the service. *)
InsertEntry(sv, ty) ==
  /\ advertised' = [advertised EXCEPT ![sv] = ty]
  /\ current' = sv
  /\ poll' = "register"

(* retrieveServiceType got a type from the connection header of the         *)
(* service's server, which may be gone or replaced by now.                  *)
ProbeType(sv, ty) ==
  /\ poll = "add" /\ sv \in fresh
  /\ fresh' = fresh \ {sv}
  /\ InsertEntry(sv, ty)
  /\ UNCHANGED <<server, srvChanges, wsServices, gwServices, leftVars, names,
                 removing>>

(* The lookup or the connection fails, or the probe times out; the service  *)
(* is tried again next cycle.                                               *)
ProbeFails(sv) ==
  /\ poll = "add" /\ sv \in fresh
  /\ fresh' = fresh \ {sv}
  /\ UNCHANGED <<server, srvChanges, advertised, wsServices, gwServices,
                 leftVars, poll, names, removing, current>>

(* addService reaches the WebSocket server, then the gateway if there is    *)
(* one; the gateway's failure is only logged.  A service that is still      *)
(* offered may be accepted or refused.                                      *)
AddToServer ==
  /\ poll = "register"
  /\ wsServices' = wsServices \cup {current}
  /\ wsLeft' = wsLeft \ {current}
  /\ poll' = "gateway"
  /\ UNCHANGED <<server, srvChanges, advertised, gwServices, gwLeft, names,
                 removing, fresh, current>>

AddToGateway(ok) ==
  /\ poll = "gateway"
  /\ ok => HasGateway
  /\ gwServices' = IF ok THEN gwServices \cup {current} ELSE gwServices
  /\ gwLeft' = IF ok THEN gwLeft \ {current} ELSE gwLeft
  /\ current' = None
  /\ poll' = "add"
  /\ UNCHANGED <<server, srvChanges, advertised, wsServices, wsLeft, names,
                 removing, fresh>>

(* Wrong variant: the failed service stays in the map. *)
KeepEntry == UNCHANGED advertised

(* The entry of a service that could not be registered is taken back. *)
TakeBackEntry == advertised' = [advertised EXCEPT ![current] = None]

(* The WebSocket server refuses the service. *)
AddFails ==
  /\ poll = "register"
  /\ TakeBackEntry
  /\ current' = None
  /\ poll' = "add"
  /\ UNCHANGED <<server, srvChanges, wsServices, gwServices, leftVars, names,
                 removing, fresh>>

AddDone ==
  /\ poll = "add" /\ fresh = {}
  /\ poll' = "sweep"
  /\ UNCHANGED <<server, srvChanges, advertised, wsServices, gwServices,
                 leftVars, names, removing, fresh, current>>

(* The rest of the cycle, and the wait for the next. *)
EndCycle ==
  /\ poll = "sweep"
  /\ poll' = "query"
  /\ UNCHANGED <<server, srvChanges, advertised, wsServices, gwServices,
                 leftVars, names, removing, fresh, current>>

-----------------------------------------------------------------------------
RegistryInit ==
  /\ server \in [Services -> SrvTypes \cup {None}] /\ srvChanges = 0
  /\ advertised = [sv \in Services |-> None]
  /\ wsServices = {} /\ gwServices = {} /\ wsLeft = {} /\ gwLeft = {}
  /\ poll = "query" /\ names = {} /\ removing = {} /\ fresh = {}
  /\ current = None

UpdateServices ==
  \/ QueryServices
  \/ QueryFails
  \/ EraseServices
  \/ \E sv \in Services :
       \/ ProbeFails(sv)
       \/ \E ok \in BOOLEAN : RemoveFromServer(sv, ok)
       \/ \E ty \in SrvTypes : ProbeType(sv, ty)
  \/ \E ok \in BOOLEAN : RemoveFromGateway(ok) \/ AddToGateway(ok)
  \/ RemoveDone
  \/ AddToServer
  \/ AddFails
  \/ AddDone

ServersChange ==
  \E sv \in Services, ty \in SrvTypes \cup {None} : ServerChange(sv, ty)

RegistryNext == ServersChange \/ UpdateServices \/ EndCycle

RegistrySpec == RegistryInit /\ [][RegistryNext]_registryVars

-----------------------------------------------------------------------------
(* Every variable keeps its type. *)
RegistryTypeOK ==
  /\ server \in [Services -> SrvTypes \cup {None}]
  /\ srvChanges \in 0..MaxSrvChanges
  /\ advertised \in [Services -> SrvTypes \cup {None}]
  /\ wsServices \subseteq Services /\ gwServices \subseteq Services
  /\ wsLeft \subseteq Services /\ gwLeft \subseteq Services
  /\ poll \in {"query", "erase", "remove", "removeGateway", "add",
               "register", "gateway", "sweep"}
  /\ names \subseteq Services /\ removing \subseteq Services
  /\ fresh \subseteq Services /\ current \in Services \cup {None}

(* A request never arrives for a service handleServiceRequest does not know *)
(* unless its transport refused to remove it, or it is just being taken off *)
(* the transports; and else the gateway never offers what the WebSocket     *)
(* server does not.                                                         *)
OfferedIsKnown ==
  /\ wsServices \subseteq Offered \cup removing \cup wsLeft
  /\ gwServices \subseteq (Offered \cap wsServices) \cup removing \cup gwLeft

(* Between two updates the map and the WebSocket server differ exactly by   *)
(* the services whose removal failed: no failed registration leaves an      *)
(* entry that hides the service for good, and nothing else stays offered.   *)
MapMatchesServer ==
  poll \in {"query", "erase", "add", "sweep"} =>
    /\ Offered \subseteq wsServices
    /\ wsServices \ Offered = wsLeft

(* Once the servers stop changing, the WebSocket server offers exactly the  *)
(* whitelisted services that run, but for those it would not remove,        *)
(* however often queries, probes, registrations and removals failed on the  *)
(* way.                                                                     *)
ServicesConverge ==
  LET running == {sv \in SrvWhite : server[sv] # None} IN
  <>[](wsServices \ wsLeft = running \ wsLeft)
=============================================================================
