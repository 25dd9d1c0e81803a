---------------------------- MODULE ServiceCalls ----------------------------
(***************************************************************************)
(* Client service calls: handleServiceRequest on an SDK thread, the        *)
(* detached worker that runs ros::service::call, the watchdog              *)
(* sweepExpiredServiceCalls on the poll thread, and what the bridge's      *)
(* destructor leaves behind.  The poll thread's service discovery is that  *)
(* of ServiceRegistry.                                                     *)
(*                                                                         *)
(* A responder is in exactly one place at a time: with the handler, in     *)
(* PendingServiceCall::responder (slot), or in the local takenResponder of *)
(* the worker or of the sweep.                                             *)
(***************************************************************************)
EXTENDS ServiceRegistry, Sequences

CONSTANTS Calls   \* client calls, each made once

ASSUME CallsAssumption == None \notin Calls

Replies == {"ok", "error", "timeout", "dropped"}

VARIABLES
  cpc,      \* what the handler has done for a call
  svc,      \* the service a call names
  slot,     \* PendingServiceCall::responder holds a value
  pending,  \* calls in _pendingServiceCalls
  late,     \* calls whose deadline has passed
  wpc,      \* what a call's worker thread is doing
  callOk,   \* what ros::service::call returned to it
  sweep,    \* where sweepExpiredServiceCalls is
  now,      \* the calls that were late when the sweep read the clock
  expired,  \* the sweep's list of expired calls
  taken,    \* the call whose responder the sweep has taken, None if none
  replies,  \* answers sent for a call, in order
  life      \* the bridge's life cycle

callVars == <<cpc, svc, slot, pending, late, wpc, callOk, sweep, now, expired,
              taken, replies, life>>
vars == <<registryVars, callVars>>

Respond(c, r) == replies' = [replies EXCEPT ![c] = Append(@, r)]

-----------------------------------------------------------------------------
(* handleServiceRequest *)

(* A client calls a service its transport offers (external). *)
ClientCall(c, sv) ==
  /\ cpc[c] = "new" /\ sv \in wsServices \cup gwServices
  /\ life \notin {"stopped", "destroyed"}
  /\ cpc' = [cpc EXCEPT ![c] = "sent"]
  /\ svc' = [svc EXCEPT ![c] = sv]
  /\ UNCHANGED <<registryVars, slot, pending, late, wpc, callOk, sweep, now,
                 expired, taken, replies, life>>

(* The request is for an advertised service of a known type, and encoded    *)
(* as ROS 1.                                                                *)
Acceptable(c, encodingOk) == advertised[svc[c]] \in KnownSrv /\ encodingOk

(* The handler copies the service's details under _servicesMutex and either *)
(* answers with an error or moves the responder into a PendingServiceCall.  *)
HandleRequest(c, encodingOk) ==
  /\ cpc[c] = "sent"
  /\ \/ /\ ~Acceptable(c, encodingOk)
        /\ Respond(c, "error")
        /\ cpc' = [cpc EXCEPT ![c] = "answered"]
        /\ UNCHANGED slot
     \/ /\ Acceptable(c, encodingOk)
        /\ slot' = [slot EXCEPT ![c] = TRUE]
        /\ cpc' = [cpc EXCEPT ![c] = "prepared"]
        /\ UNCHANGED replies
  /\ UNCHANGED <<registryVars, svc, pending, late, wpc, callOk, sweep, now,
                 expired, taken, life>>

ListCall(c) ==
  /\ cpc[c] = "prepared"
  /\ pending' = pending \cup {c}
  /\ cpc' = [cpc EXCEPT ![c] = "listed"]
  /\ UNCHANGED <<registryVars, svc, slot, late, wpc, callOk, sweep, now,
                 expired, taken, replies, life>>

SpawnWorker(c) ==
  /\ cpc[c] = "listed"
  /\ wpc' = [wpc EXCEPT ![c] = "calling"]
  /\ cpc' = [cpc EXCEPT ![c] = "handed"]
  /\ UNCHANGED <<registryVars, svc, slot, pending, late, callOk, sweep, now,
                 expired, taken, replies, life>>

(* service_call_timeout_ms passes. *)
Deadline(c) ==
  /\ c \in pending \ late
  /\ late' = late \cup {c}
  /\ UNCHANGED <<registryVars, cpc, svc, slot, pending, wpc, callOk, sweep,
                 now, expired, taken, replies, life>>

-----------------------------------------------------------------------------
(* The worker *)

(* ros::service::call returns; it may as well never do so. *)
CallReturns(c, ok) ==
  /\ wpc[c] = "calling"
  /\ callOk' = [callOk EXCEPT ![c] = ok]
  /\ wpc' = [wpc EXCEPT ![c] = "returned"]
  /\ UNCHANGED <<registryVars, cpc, svc, slot, pending, late, sweep, now,
                 expired, taken, replies, life>>

(* Wrong variant: the worker does not look whether it got a responder. *)
WorkerTookAlways(c) == "took"

WorkerTook(c) == IF slot[c] THEN "took" ELSE "done"

(* The worker swaps the responder out, or finds that the sweep was first. *)
WorkerTake(c) ==
  /\ wpc[c] = "returned"
  /\ wpc' = [wpc EXCEPT ![c] = WorkerTook(c)]
  /\ slot' = [slot EXCEPT ![c] = FALSE]
  /\ UNCHANGED <<registryVars, cpc, svc, pending, late, callOk, sweep, now,
                 expired, taken, replies, life>>

WorkerRespond(c) ==
  /\ wpc[c] = "took"
  /\ Respond(c, IF callOk[c] THEN "ok" ELSE "error")
  /\ wpc' = [wpc EXCEPT ![c] = "done"]
  /\ UNCHANGED <<registryVars, cpc, svc, slot, pending, late, callOk, sweep,
                 now, expired, taken, life>>

-----------------------------------------------------------------------------
(* sweepExpiredServiceCalls, at the end of every poll cycle *)

(* Wrong variant: the sweep does not wait for its place in the cycle. *)
SweepDueAlways == sweep = "idle"

SweepDue == poll = "sweep" /\ sweep = "idle"

SweepStart ==
  /\ SweepDue
  /\ now' = late
  /\ sweep' = "scan"
  /\ UNCHANGED <<registryVars, cpc, svc, slot, pending, late, wpc, callOk,
                 expired, taken, replies, life>>

(* Wrong variant: every open call counts as expired. *)
IsExpiredEarly(c) == slot[c]

(* Wrong variant: nothing ever expires. *)
IsExpiredNever(c) == FALSE

IsExpired(c) == slot[c] /\ c \in now

(* Wrong variant: completed entries are kept. *)
KeepsCompleted(c) == ~IsExpired(c)

(* Wrong variant: the clock is read a second time. *)
DropsLate(c) == slot[c] /\ c \notin late

(* An entry stays in the list while it is open and not expired. *)
StaysListed(c) == slot[c] /\ ~IsExpired(c)

SweepScan ==
  /\ sweep = "scan"
  /\ expired' = {c \in pending : IsExpired(c)}
  /\ pending' = {c \in pending : StaysListed(c)}
  /\ sweep' = "take"
  /\ UNCHANGED <<registryVars, cpc, svc, slot, late, wpc, callOk, now, taken,
                 replies, life>>

(* The worker may have answered since the scan. *)
SweepTake(c) ==
  /\ sweep = "take" /\ taken = None /\ c \in expired
  /\ expired' = expired \ {c}
  /\ taken' = IF slot[c] THEN c ELSE None
  /\ slot' = [slot EXCEPT ![c] = FALSE]
  /\ UNCHANGED <<registryVars, cpc, svc, pending, late, wpc, callOk, sweep,
                 now, replies, life>>

SweepRespond ==
  /\ taken # None
  /\ Respond(taken, "timeout")
  /\ taken' = None
  /\ UNCHANGED <<registryVars, cpc, svc, slot, pending, late, wpc, callOk,
                 sweep, now, expired, life>>

SweepDone ==
  /\ sweep = "take" /\ taken = None /\ expired = {}
  /\ sweep' = "idle"
  /\ EndCycle
  /\ UNCHANGED <<cpc, svc, slot, pending, late, wpc, callOk, now, expired,
                 taken, replies, life>>

-----------------------------------------------------------------------------
(* ~Ros1FoxgloveBridge *)

BeginShutdown ==
  /\ life = "running"
  /\ life' = "stopping"
  /\ UNCHANGED <<registryVars, cpc, svc, slot, pending, late, wpc, callOk,
                 sweep, now, expired, taken, replies>>

(* The poll loop sees the flag at the top of its cycle; then the transports *)
(* stop, once the callbacks that run have returned.                         *)
StopTransports ==
  /\ life = "stopping" /\ poll = "query"
  /\ \A c \in Calls : cpc[c] \notin {"sent", "prepared", "listed"}
  /\ life' = "stopped"
  /\ UNCHANGED <<registryVars, cpc, svc, slot, pending, late, wpc, callOk,
                 sweep, now, expired, taken, replies>>

(* A worker that has not yet returned shares ownership of its call. *)
HeldByWorker(c) == wpc[c] \in {"calling", "returned"}

(* _pendingServiceCalls is destroyed; a responder dies with the last owner  *)
(* of its PendingServiceCall.                                               *)
DestroyBridge ==
  /\ life = "stopped"
  /\ LET Freed == {c \in pending : slot[c] /\ ~HeldByWorker(c)} IN
     /\ slot' = [c \in Calls |-> slot[c] /\ c \notin Freed]
     /\ replies' = [c \in Calls |-> IF c \in Freed
                                      THEN Append(replies[c], "dropped")
                                      ELSE replies[c]]
  /\ pending' = {}
  /\ life' = "destroyed"
  /\ UNCHANGED <<registryVars, cpc, svc, late, wpc, callOk, sweep, now,
                 expired, taken>>

-----------------------------------------------------------------------------
Init ==
  /\ RegistryInit
  /\ cpc = [c \in Calls |-> "new"] /\ svc = [c \in Calls |-> None]
  /\ slot = [c \in Calls |-> FALSE] /\ pending = {} /\ late = {}
  /\ wpc = [c \in Calls |-> "none"] /\ callOk = [c \in Calls |-> FALSE]
  /\ sweep = "idle" /\ now = {} /\ expired = {} /\ taken = None
  /\ replies = [c \in Calls |-> <<>>] /\ life = "running"

Handler(c) ==
  \/ \E encodingOk \in BOOLEAN : HandleRequest(c, encodingOk)
  \/ ListCall(c)
  \/ SpawnWorker(c)

Worker(c) == WorkerTake(c) \/ WorkerRespond(c)

Discovery ==
  /\ poll = "query" => life = "running"
  /\ UpdateServices
  /\ UNCHANGED callVars

Sweep ==
  \/ SweepStart
  \/ SweepScan
  \/ \E c \in Calls : SweepTake(c)
  \/ SweepRespond
  \/ SweepDone

Shutdown == BeginShutdown \/ StopTransports \/ DestroyBridge

Next ==
  \/ ServersChange /\ UNCHANGED callVars
  \/ Discovery
  \/ \E c \in Calls, sv \in Services : ClientCall(c, sv)
  \/ \E c \in Calls :
       \/ Handler(c)
       \/ Deadline(c)
       \/ Worker(c)
       \/ \E ok \in BOOLEAN : CallReturns(c, ok)
  \/ Sweep
  \/ Shutdown

Spec == Init /\ [][Next]_vars

(* The threads keep running and time passes.  Nothing is assumed of         *)
(* ros::service::call, which may block for ever, nor that the bridge is     *)
(* ever shut down.                                                          *)
Fairness ==
  /\ WF_vars(Discovery \/ Sweep)
  /\ \A c \in Calls :
       WF_vars(Handler(c)) /\ WF_vars(Worker(c)) /\ WF_vars(Deadline(c))

FairSpec == Spec /\ Fairness

-----------------------------------------------------------------------------
(* Properties *)

(* Every variable of the calls keeps its type; the sweep only runs on the   *)
(* poll thread's own turn.                                                  *)
TypeOK ==
  /\ RegistryTypeOK
  /\ cpc \in [Calls -> {"new", "sent", "prepared", "listed", "handed",
                        "answered"}]
  /\ svc \in [Calls -> Services \cup {None}]
  /\ slot \in [Calls -> BOOLEAN] /\ callOk \in [Calls -> BOOLEAN]
  /\ pending \subseteq Calls /\ late \subseteq Calls /\ now \subseteq Calls
  /\ expired \subseteq Calls /\ taken \in Calls \cup {None}
  /\ wpc \in [Calls -> {"none", "calling", "returned", "took", "done"}]
  /\ sweep \in {"idle", "scan", "take"} /\ sweep # "idle" => poll = "sweep"
  /\ replies \in [Calls -> Seq(Replies)]
  /\ life \in {"running", "stopping", "stopped", "destroyed"}

(* Where a call's responder is, each place named once. *)
Holders(c) ==
  {"handler" : x \in {c} \cap {d \in Calls : cpc[d] = "sent"}}
    \cup {"slot" : x \in {c} \cap {d \in Calls : slot[d]}}
    \cup {"worker" : x \in {c} \cap {d \in Calls : wpc[d] = "took"}}
    \cup {"sweep" : x \in {c} \cap {taken}}

(* Whoever takes the responder out of the shared state responds, exactly    *)
(* once: a call in progress has its responder in exactly one place and no   *)
(* answer yet, an answered call has one answer and no responder left.       *)
RespondedOnce ==
  \A c \in Calls :
    \/ cpc[c] = "new" /\ Holders(c) = {} /\ replies[c] = <<>>
    \/ (\E h \in Holders(c) : Holders(c) = {h}) /\ replies[c] = <<>>
    \/ Holders(c) = {} /\ Len(replies[c]) = 1

(* No call is answered with a timeout before its own deadline, even when    *)
(* the sweep is slow and calls keep arriving while it runs.                 *)
TimeoutOnlyLate ==
  \A c \in Calls : replies[c] = <<"timeout">> => c \in late

(* An open call is one the sweep can still find, until the destructor runs: *)
(* no open responder is out of both the watchdog's and the handler's reach. *)
OpenIsWatched ==
  \A c \in Calls :
    slot[c] /\ life # "destroyed" =>
      cpc[c] = "prepared" \/ c \in pending \cup expired

(* Every call is answered while the bridge runs, even if ros::service::call *)
(* never returns.                                                           *)
EveryCallAnswered ==
  \A c \in Calls :
    cpc[c] = "sent" ~> (replies[c] # <<>> \/ life # "running")

(* Completed and expired calls leave _pendingServiceCalls. *)
PendingDrains ==
  \A c \in Calls : c \in pending ~> (c \notin pending \/ life # "running")

(* What a client sees of a call, as OneShotReply describes it. *)
Outcome(c) ==
  IF replies[c] # <<>>
    THEN IF Len(replies[c]) = 1 THEN replies[c][1] ELSE "twice"
    ELSE IF cpc[c] = "new" THEN "idle" ELSE "open"

OneShot == INSTANCE OneShotReply WITH outcome <- [c \in Calls |-> Outcome(c)]

(* The handler, the workers and the sweep together implement the promise of *)
(* a single answer that never changes.                                      *)
ImplementsOneShot == OneShot!OneShotSpec
=============================================================================
