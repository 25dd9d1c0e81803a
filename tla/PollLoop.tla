------------------------------ MODULE PollLoop ------------------------------
(***************************************************************************)
(* The control of pollThread: when a cycle runs and how long the thread    *)
(* then waits, pokePoll, the connection graph's subscriptions, and the     *)
(* shutdown flag and join of ~Ros1FoxgloveBridge.  What a cycle does with  *)
(* topics and services is the subject of Subscriptions, ServiceRegistry    *)
(* and ServiceCalls.                                                       *)
(*                                                                         *)
(* The condition variable is explicit: the thread evaluates its predicate  *)
(* while it holds _pollMutex ("evaluated") and releases the mutex as it    *)
(* falls asleep; a flag is set under the mutex and notified after it.      *)
(***************************************************************************)
EXTENDS Naturals, FiniteSets

CONSTANTS
  Transports,       \* the WebSocket server and the gateway
  Publishers,       \* threads on which clients advertise channels, those of
                    \* the transports or others
  ServicesEnabled,  \* TRUE if the services capability is offered
  MaxPeriod,        \* max_update_ms
  MaxCount,         \* bound: updateCount is not counted further than this
  MaxCycles         \* bound: cycles without a poke that BackoffGrows looks at

MinPeriod == 100

ASSUME PollAssumption ==
  /\ ServicesEnabled \in BOOLEAN /\ MaxPeriod \in Nat
  /\ MaxCount \in Nat \ {0} /\ MaxCycles \in Nat
  /\ IsFiniteSet(Transports)

Callers == Transports \cup Publishers

VARIABLES
  loop,           \* where the poll thread is
  querying,       \* querySystemState of this cycle
  stateKnown,     \* systemStateRetrieved of this cycle
  updateCount,
  period,         \* updatePeriodMs of the last wait
  pollPoke,       \* _pollPoke
  shuttingDown,   \* _shuttingDown
  rosOk,          \* ros::ok()
  graphCount,     \* _graphSubscriptionCount
  caller,         \* what a callback is doing
  graphWanted,    \* transports with a client subscribed to the graph
  unserved,       \* those that got no graph since they subscribed
  owed,           \* a poke was made and no cycle has begun since
  dtor            \* where the destructor is

cycleVars == <<querying, stateKnown>>
waitVars == <<updateCount, period, pollPoke>>
endVars == <<shuttingDown, rosOk, dtor>>
graphVars == <<graphCount, graphWanted, unserved>>
vars == <<loop, cycleVars, waitVars, endVars, graphVars, caller, owed>>

-----------------------------------------------------------------------------
(* The cycle *)

BeginCycle ==
  /\ loop = "top" /\ ~shuttingDown /\ rosOk
  /\ querying' = (ServicesEnabled \/ graphCount > 0)
  /\ stateKnown' = FALSE
  /\ owed' = FALSE
  /\ loop' = "topics"
  /\ UNCHANGED <<waitVars, endVars, graphVars, caller>>

LeaveLoop ==
  /\ loop = "top" /\ (shuttingDown \/ ~rosOk)
  /\ loop' = "exited"
  /\ UNCHANGED <<cycleVars, waitVars, endVars, graphVars, caller, owed>>

QueryTopics ==
  /\ loop = "topics"
  /\ loop' = IF querying THEN "state" ELSE "update"
  /\ UNCHANGED <<cycleVars, waitVars, endVars, graphVars, caller, owed>>

QuerySystemState(ok) ==
  /\ loop = "state"
  /\ stateKnown' = ok
  /\ loop' = "update"
  /\ UNCHANGED <<querying, waitVars, endVars, graphVars, caller, owed>>

(* updateAdvertisedTopics and updateAdvertisedServices. *)
Update ==
  /\ loop = "update"
  /\ loop' = "graph"
  /\ UNCHANGED <<cycleVars, waitVars, endVars, graphVars, caller, owed>>

(* An exception, from a malformed reply say, skips to the sweep. *)
Throw ==
  /\ loop \in {"topics", "state", "update"}
  /\ loop' = "sweep"
  /\ UNCHANGED <<cycleVars, waitVars, endVars, graphVars, caller, owed>>

(* The count is read a second time: a graph is only published if somebody   *)
(* still wants it and this cycle has retrieved it.                          *)
PublishGraph ==
  /\ loop = "graph"
  /\ unserved' = IF graphCount > 0 /\ stateKnown THEN {} ELSE unserved
  /\ loop' = "sweep"
  /\ UNCHANGED <<cycleVars, waitVars, endVars, graphCount, graphWanted, caller,
                 owed>>

(* Wrong variant: the exponent is not capped; x86 shifts modulo the width.  *)
ShiftUncapped(n) == n % 64

Shift(n) == IF n < 32 THEN n ELSE 32

(* min(1 << Shift(n), MaxPeriod); max_update_ms is an int, below 2^31.      *)
Bounded(n) ==
  IF Shift(n) < 31 /\ 2 ^ Shift(n) < MaxPeriod THEN 2 ^ Shift(n) ELSE MaxPeriod

(* Wrong variant: the floor is forgotten. *)
BackoffNoFloor(n) == Bounded(n)

Backoff(n) == IF Bounded(n) > MinPeriod THEN Bounded(n) ELSE MinPeriod

Counted(n) == IF n < MaxCount THEN n + 1 ELSE n

(* sweepExpiredServiceCalls, and the length of the wait. *)
Sweep ==
  /\ loop = "sweep"
  /\ updateCount' = Counted(updateCount)
  /\ period' = Backoff(updateCount')
  /\ loop' = "wait"
  /\ UNCHANGED <<cycleVars, pollPoke, endVars, graphVars, caller, owed>>

(* wait_for, holding _pollMutex: evaluate the predicate, then sleep. *)
EvaluateWait ==
  /\ loop = "wait" /\ ~shuttingDown /\ ~pollPoke
  /\ loop' = "evaluated"
  /\ UNCHANGED <<cycleVars, waitVars, endVars, graphVars, caller, owed>>

FallAsleep ==
  /\ loop = "evaluated"
  /\ loop' = "asleep"
  /\ UNCHANGED <<cycleVars, waitVars, endVars, graphVars, caller, owed>>

(* A poke is consumed and restarts the backoff. *)
Restart ==
  /\ updateCount' = IF pollPoke THEN 0 ELSE updateCount
  /\ pollPoke' = FALSE

WaitReturns ==
  /\ loop = "wait" /\ (shuttingDown \/ pollPoke)
  /\ Restart
  /\ loop' = "top"
  /\ UNCHANGED <<cycleVars, period, endVars, graphVars, caller, owed>>

Timeout ==
  /\ loop = "asleep"
  /\ Restart
  /\ loop' = "top"
  /\ UNCHANGED <<cycleVars, period, endVars, graphVars, caller, owed>>

(* A notified thread evaluates the predicate again. *)
Woken == IF loop = "asleep" THEN "wait" ELSE loop

-----------------------------------------------------------------------------
(* Callbacks, one at a time per transport and per publishing client *)

(* Wrong variant: the flags are set without _pollMutex. *)
PollMutexIgnored == TRUE

(* The poll thread keeps _pollMutex from its evaluation until it sleeps. *)
PollMutexFree == loop # "evaluated"

(* onClientAdvertise has created its publisher. *)
ClientAdvertise(c) ==
  /\ c \in Publishers /\ caller[c] = "idle"
  /\ caller' = [caller EXCEPT ![c] = "poke"]
  /\ UNCHANGED <<loop, cycleVars, waitVars, endVars, graphVars, owed>>

(* The first client of a transport subscribes to the graph (external).      *)
GraphRequested(c) ==
  /\ c \in Transports \ graphWanted /\ caller[c] = "idle"
  /\ graphWanted' = graphWanted \cup {c}
  /\ unserved' = unserved \cup {c}
  /\ caller' = [caller EXCEPT ![c] = "subscribe"]
  /\ UNCHANGED <<loop, cycleVars, waitVars, endVars, graphCount, owed>>

(* The last one unsubscribes (external). *)
GraphReleased(c) ==
  /\ c \in graphWanted /\ caller[c] = "idle"
  /\ graphWanted' = graphWanted \ {c}
  /\ unserved' = unserved \ {c}
  /\ caller' = [caller EXCEPT ![c] = "unsubscribe"]
  /\ UNCHANGED <<loop, cycleVars, waitVars, endVars, graphCount, owed>>

(* onConnectionGraphSubscribe(true) *)
CountUp(c) ==
  /\ caller[c] = "subscribe"
  /\ graphCount' = graphCount + 1
  /\ caller' = [caller EXCEPT ![c] = "poke"]
  /\ UNCHANGED <<loop, cycleVars, waitVars, endVars, graphWanted, unserved,
                 owed>>

(* Wrong variant: an unsubscribe clears the count. *)
OneLessIsNone == 0

(* fetch_sub, taken back when there was nothing to take.                    *)
OneLess == IF graphCount > 0 THEN graphCount - 1 ELSE graphCount

(* onConnectionGraphSubscribe(false) *)
CountDown(c) ==
  /\ caller[c] = "unsubscribe"
  /\ graphCount' = OneLess
  /\ caller' = [caller EXCEPT ![c] = "idle"]
  /\ UNCHANGED <<loop, cycleVars, waitVars, endVars, graphWanted, unserved,
                 owed>>

(* pokePoll *)
SetPoke(c) ==
  /\ caller[c] = "poke" /\ PollMutexFree
  /\ pollPoke' = TRUE
  /\ owed' = TRUE
  /\ caller' = [caller EXCEPT ![c] = "notify"]
  /\ UNCHANGED <<loop, cycleVars, updateCount, period, endVars, graphVars>>

NotifyPoke(c) ==
  /\ caller[c] = "notify"
  /\ loop' = Woken
  /\ caller' = [caller EXCEPT ![c] = "idle"]
  /\ UNCHANGED <<cycleVars, waitVars, endVars, graphVars, owed>>

-----------------------------------------------------------------------------
(* Shutdown *)

RosShutdown ==
  /\ rosOk /\ rosOk' = FALSE
  /\ UNCHANGED <<loop, cycleVars, waitVars, shuttingDown, dtor, graphVars,
                 caller, owed>>

BeginDestructor ==
  /\ dtor = "none" /\ PollMutexFree
  /\ shuttingDown' = TRUE
  /\ dtor' = "notify"
  /\ UNCHANGED <<loop, cycleVars, waitVars, rosOk, graphVars, caller, owed>>

(* Wrong variant: nobody is notified. *)
NotWoken == loop

WokenByDestructor == Woken

NotifyShutdown ==
  /\ dtor = "notify"
  /\ loop' = WokenByDestructor
  /\ dtor' = "join"
  /\ UNCHANGED <<cycleVars, waitVars, shuttingDown, rosOk, graphVars, caller,
                 owed>>

JoinPollThread ==
  /\ dtor = "join" /\ loop = "exited"
  /\ dtor' = "joined"
  /\ UNCHANGED <<loop, cycleVars, waitVars, shuttingDown, rosOk, graphVars,
                 caller, owed>>

-----------------------------------------------------------------------------
Init ==
  /\ loop = "top" /\ querying = FALSE /\ stateKnown = FALSE
  /\ updateCount = 0 /\ period = MinPeriod /\ pollPoke = FALSE
  /\ shuttingDown = FALSE /\ rosOk = TRUE /\ dtor = "none"
  /\ graphCount = 0 /\ graphWanted = {} /\ unserved = {}
  /\ caller = [c \in Callers |-> "idle"] /\ owed = FALSE

PollThread ==
  \/ BeginCycle
  \/ LeaveLoop
  \/ QueryTopics
  \/ \E ok \in BOOLEAN : QuerySystemState(ok)
  \/ Update
  \/ Throw
  \/ PublishGraph
  \/ Sweep
  \/ EvaluateWait
  \/ FallAsleep
  \/ WaitReturns

Callback(c) == CountUp(c) \/ CountDown(c) \/ SetPoke(c) \/ NotifyPoke(c)

Destructor == NotifyShutdown \/ JoinPollThread

Next ==
  \/ PollThread
  \/ Timeout
  \/ \E c \in Callers :
       ClientAdvertise(c) \/ GraphRequested(c) \/ GraphReleased(c) \/ Callback(c)
  \/ RosShutdown
  \/ BeginDestructor
  \/ Destructor

Spec == Init /\ [][Next]_vars

(* The threads keep running and callbacks get the mutex in the end.  Time   *)
(* passes, but a timeout is only relied on while nothing has been signalled *)
(* that should end the wait without one.  The master answers when it is     *)
(* asked again and again, and not every cycle with an answer ends in an     *)
(* exception.                                                               *)
Fairness ==
  /\ WF_vars(PollThread)
  /\ \A c \in Callers : SF_vars(Callback(c))
  /\ WF_vars(Destructor)
  /\ WF_vars(Timeout /\ ~pollPoke /\ ~shuttingDown)
  /\ SF_vars(QueryTopics) /\ SF_vars(QuerySystemState(TRUE))
  /\ SF_vars(Update /\ stateKnown)

FairSpec == Spec /\ Fairness

-----------------------------------------------------------------------------
(* Properties *)

(* Every variable keeps its type, and a wait is never shorter than the      *)
(* floor nor longer than the larger of it and max_update_ms.                *)
PollTypeOK ==
  /\ loop \in {"top", "topics", "state", "update", "graph", "sweep", "wait",
               "evaluated", "asleep", "exited"}
  /\ {querying, stateKnown, pollPoke, shuttingDown, rosOk, owed} \subseteq BOOLEAN
  /\ updateCount \in 0..MaxCount
  /\ period >= MinPeriod /\ (period <= MinPeriod \/ period <= MaxPeriod)
  /\ graphCount \in 0..Cardinality(Transports)
  /\ graphWanted \subseteq Transports /\ unserved \subseteq graphWanted
  /\ caller \in [Callers -> {"idle", "subscribe", "unsubscribe", "poke",
                             "notify"}]
  /\ dtor \in {"none", "notify", "join", "joined"}

(* The poll thread never sleeps through a poke or the shutdown flag: if one *)
(* is set while it sleeps, a thread is about to notify it.                  *)
NoLostWakeup ==
  loop = "asleep" =>
    /\ pollPoke => \E c \in Callers : caller[c] = "notify"
    /\ shuttingDown => dtor = "notify"

(* The graph count that both transports share never drifts from the         *)
(* transports that have subscribers, the callbacks under way considered.    *)
GraphCountExact ==
  graphCount = Cardinality(
    {tr \in Transports : \/ tr \in graphWanted /\ caller[tr] # "subscribe"
                         \/ caller[tr] = "unsubscribe"})

(* From any cycle on, if no poke comes the waits never get shorter, however *)
(* many cycles follow: not after 32, nor after as many as size_t has bits.  *)
BackoffGrows ==
  \A n \in updateCount + 1..MaxCycles : Backoff(n) <= Backoff(n + 1)

(* A cycle begins after every poke without waiting for a timeout: the poll  *)
(* that a client's advertisement asks for reads the master after it.        *)
PokeIsServed == owed ~> (~owed \/ loop = "exited")

(* The destructor's join returns without waiting for a timeout. *)
DestructorJoins == dtor # "none" ~> dtor = "joined"

(* A transport that subscribed to the connection graph gets one, whatever   *)
(* failed in some cycles.                                                   *)
GraphIsServed ==
  \A tr \in Transports : tr \in unserved ~> (tr \notin unserved \/ loop = "exited")
=============================================================================
