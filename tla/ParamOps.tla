------------------------------ MODULE ParamOps ------------------------------
(***************************************************************************)
(* Parameter requests: TransportManager's queue of parameter operations    *)
(* and its worker thread, Ros1ParameterInterface behind it, the XML-RPC    *)
(* thread that pushes updates, and the part of the bridge's destructor     *)
(* that stops them all.                                                    *)
(*                                                                         *)
(* A step is a critical section of _paramOpMutex or of the backend's       *)
(* _mutex, one call of the ROS master, or one callback of a transport.     *)
(* External: the two transports, which report the first subscriber and the *)
(* last unsubscriber of a parameter, and the master's own table of         *)
(* parameter subscriptions.                                                *)
(***************************************************************************)
EXTENDS Naturals, Sequences, FiniteSets

CONSTANTS
  Params,      \* parameter names
  Visible,     \* those that match param_whitelist and are not the bridge's own
  Transports,  \* the WebSocket server and the gateway
  MaxCalls     \* bound: transport callbacks

ASSUME ParamAssumption ==
  Visible \subseteq Params /\ IsFiniteSet(Transports) /\ MaxCalls \in Nat

Ids == 1..MaxCalls
Requests == {"get", "getAll", "set", "setNone"}
Kinds == Requests \cup {"subscribe", "unsubscribe"}
Op == [kind : Kinds, names : SUBSET Params, id : Ids]
NoOp == [kind |-> "none", names |-> {}, id |-> 0]

VARIABLES
  (* transports *)
  wants,       \* parameters a transport has subscribers for
  call,        \* the operation of a transport's running callback, or NoOp
  calls,       \* callbacks made so far (bounded by MaxCalls)
  replies,     \* answers sent for each request, in order
  transportsUp,
  (* TransportManager *)
  queue,       \* _paramOpQueue
  opShutdown,  \* _paramOpShutdown
  drained,     \* the operations stop() swapped out of the queue
  worker,      \* where parameterWorkerLoop is
  op,          \* the operation it handles
  count,       \* _paramSubscriberCount, 0 if no entry
  forward,     \* names not yet passed to the master
  name,        \* the name whose master call has just succeeded, {} if none
  (* Ros1ParameterInterface *)
  subscribed,  \* _subscribedParams
  backendDown, \* _shutdown
  callbackSet, \* _paramUpdateFunc is set
  xmlrpcUp,    \* the second XML-RPC server runs
  pushing,     \* where parameterUpdates is
  registered,  \* the master's subscriptions for that server's URI
  failed,      \* parameters for which a call of the master has failed
  (* ~Ros1FoxgloveBridge, after the poll thread has been joined *)
  dtor,        \* where the destructor is
  leaving      \* shutdown()'s copy of _subscribedParams

sdkVars == <<wants, call, calls, transportsUp>>
opVars == <<queue, opShutdown, drained>>
workVars == <<op, count, forward, name>>
backVars == <<subscribed, registered, failed>>
pushVars == <<callbackSet, pushing>>
stopVars == <<backendDown, xmlrpcUp, dtor, leaving>>
vars == <<sdkVars, replies, opVars, worker, workVars, backVars, pushVars,
          stopVars>>

-----------------------------------------------------------------------------
(* Transport callbacks (external), one at a time per transport *)

Call(tr, kind, names) ==
  /\ transportsUp /\ call[tr] = NoOp /\ calls < MaxCalls
  /\ calls' = calls + 1
  /\ call' = [call EXCEPT ![tr] =
                [kind |-> kind, names |-> names, id |-> calls + 1]]
  /\ UNCHANGED <<transportsUp, replies, opVars, worker, workVars, backVars,
                 pushVars, stopVars>>

ClientRequest(tr, kind) == Call(tr, kind, {}) /\ UNCHANGED wants

FirstSubscribers(tr, names) ==
  /\ names # {} /\ names \cap wants[tr] = {}
  /\ wants' = [wants EXCEPT ![tr] = @ \cup names]
  /\ Call(tr, "subscribe", names)

LastUnsubscribers(tr, names) ==
  /\ names # {} /\ names \subseteq wants[tr]
  /\ wants' = [wants EXCEPT ![tr] = @ \ names]
  /\ Call(tr, "unsubscribe", names)

-----------------------------------------------------------------------------
(* The queue *)

Respond(ids, r) ==
  replies' = [n \in Ids |-> IF n \in ids THEN Append(replies[n], r)
                                         ELSE replies[n]]

(* The requests among a set of operations: dropping one of these destroys   *)
(* its responder, which sends the client an error status.                   *)
RequestIds(ops) == {o.id : o \in {x \in ops : x.kind \in Requests}}

OpsOf(q) == {q[i] : i \in DOMAIN q}

(* notify_one or notify_all: the worker re-evaluates its predicate. *)
Woken == IF worker = "asleep" THEN "check" ELSE worker

(* Wrong variant: the operation is queued although the worker is gone. *)
EnqueueAlways(tr) ==
  /\ queue' = Append(queue, call[tr])
  /\ worker' = Woken
  /\ UNCHANGED replies

(* enqueueParameterOp; after shutdown the operation is dropped. *)
Enqueue(tr) ==
  IF opShutdown
    THEN /\ Respond(RequestIds({call[tr]}), "error")
         /\ UNCHANGED <<queue, worker>>
    ELSE /\ queue' = Append(queue, call[tr])
         /\ worker' = Woken
         /\ UNCHANGED replies

EnqueueParameterOp(tr) ==
  /\ call[tr] # NoOp
  /\ Enqueue(tr)
  /\ call' = [call EXCEPT ![tr] = NoOp]
  /\ UNCHANGED <<wants, calls, transportsUp, opShutdown, drained, workVars,
                 backVars, pushVars, stopVars>>

-----------------------------------------------------------------------------
(* parameterWorkerLoop and the handlers *)

WorkerSleep ==
  /\ worker = "check" /\ queue = <<>> /\ ~opShutdown
  /\ worker' = "asleep"
  /\ UNCHANGED <<sdkVars, replies, opVars, workVars, backVars, pushVars,
                 stopVars>>

WorkerExit ==
  /\ worker = "check" /\ queue = <<>> /\ opShutdown
  /\ worker' = "exited"
  /\ UNCHANGED <<sdkVars, replies, opVars, workVars, backVars, pushVars,
                 stopVars>>

WorkerPop ==
  /\ worker = "check" /\ queue # <<>>
  /\ op' = Head(queue)
  /\ queue' = Tail(queue)
  /\ worker' = "handle"
  /\ UNCHANGED <<sdkVars, replies, opShutdown, drained, count, forward, name,
                 backVars, pushVars, stopVars>>

(* Back to the top of the loop. *)
Handled == worker' = "check" /\ op' = NoOp

(* handleGetParams; only the query for all names can throw, which drops the *)
(* responder.                                                               *)
HandleGetParams(ok) ==
  /\ worker = "handle" /\ op.kind \in {"get", "getAll"}
  /\ ~ok => op.kind = "getAll"
  /\ Respond({op.id}, IF ok THEN "values" ELSE "error")
  /\ Handled
  /\ UNCHANGED <<sdkVars, opVars, count, forward, name, backVars, pushVars,
                 stopVars>>

(* handleSetParams with nothing to set: an empty answer. *)
HandleSetNone ==
  /\ worker = "handle" /\ op.kind = "setNone"
  /\ Respond({op.id}, "values")
  /\ Handled
  /\ UNCHANGED <<sdkVars, opVars, count, forward, name, backVars, pushVars,
                 stopVars>>

(* handleSetParams sets, then reads back what was really applied. *)
HandleSetParams ==
  /\ worker = "handle" /\ op.kind = "set"
  /\ worker' = "echo"
  /\ UNCHANGED <<sdkVars, replies, opVars, workVars, backVars, pushVars,
                 stopVars>>

EchoParams ==
  /\ worker = "echo"
  /\ Respond({op.id}, "values")
  /\ Handled
  /\ UNCHANGED <<sdkVars, opVars, count, forward, name, backVars, pushVars,
                 stopVars>>

(* Wrong variant: the second transport's subscription is not counted. *)
CountedUpOnce == [p \in Params |-> IF p \in op.names THEN 1 ELSE count[p]]

CountedUp == [p \in Params |-> count[p] + IF p \in op.names THEN 1 ELSE 0]

(* handleSubscribeParams: the first of the two transports to subscribe to a *)
(* parameter forwards it.                                                   *)
HandleSubscribeParams ==
  /\ worker = "handle" /\ op.kind = "subscribe"
  /\ count' = CountedUp
  /\ forward' = {p \in op.names : count'[p] = 1}
  /\ IF forward' = {} THEN Handled
                      ELSE worker' = "subscribeParams" /\ UNCHANGED op
  /\ UNCHANGED <<sdkVars, replies, opVars, name, backVars, pushVars, stopVars>>

(* Wrong variant: an unsubscription counts up as well. *)
CountedDownUp == CountedUp

CountedDown ==
  [p \in Params |-> IF p \in op.names /\ count[p] # 0
                      THEN count[p] - 1 ELSE count[p]]

(* handleUnsubscribeParams: the last one forwards; an untracked parameter   *)
(* is only logged.                                                          *)
HandleUnsubscribeParams ==
  /\ worker = "handle" /\ op.kind = "unsubscribe"
  /\ count' = CountedDown
  /\ forward' = {p \in op.names : count[p] # 0 /\ count'[p] = 0}
  /\ IF forward' = {} THEN Handled
                      ELSE worker' = "unregister" /\ UNCHANGED op
  /\ UNCHANGED <<sdkVars, replies, opVars, name, backVars, pushVars, stopVars>>

-----------------------------------------------------------------------------
(* Ros1ParameterInterface *)

(* subscribeParams looks at _shutdown once, before the first master call.   *)
SubscribeParams ==
  /\ worker = "subscribeParams"
  /\ forward' = IF backendDown THEN {} ELSE forward \cap Visible
  /\ worker' = "register"
  /\ UNCHANGED <<sdkVars, replies, opVars, op, count, name, backVars, pushVars,
                 stopVars>>

(* executeParamSubscription("subscribeParam").  A call that fails may still *)
(* have reached the master.                                                 *)
Register(p, ok, reached) ==
  /\ worker = "register" /\ name = {} /\ p \in forward
  /\ ok => reached
  /\ forward' = forward \ {p}
  /\ registered' = IF reached THEN registered \cup {p} ELSE registered
  /\ failed' = IF ok THEN failed ELSE failed \cup {p}
  /\ name' = IF ok THEN {p} ELSE {}
  /\ UNCHANGED <<sdkVars, replies, opVars, worker, op, count, subscribed,
                 pushVars, stopVars>>

Track ==
  /\ worker = "register" /\ name # {}
  /\ subscribed' = subscribed \cup name
  /\ name' = {}
  /\ UNCHANGED <<sdkVars, replies, opVars, worker, op, count, forward,
                 registered, failed, pushVars, stopVars>>

(* unsubscribeParams, which does not look at _shutdown or the whitelist. *)
Unregister(p, ok, reached) ==
  /\ worker = "unregister" /\ name = {} /\ p \in forward
  /\ ok => reached
  /\ forward' = forward \ {p}
  /\ registered' = IF reached THEN registered \ {p} ELSE registered
  /\ failed' = IF ok THEN failed ELSE failed \cup {p}
  /\ name' = IF ok THEN {p} ELSE {}
  /\ UNCHANGED <<sdkVars, replies, opVars, worker, op, count, subscribed,
                 pushVars, stopVars>>

(* Wrong variant: _subscribedParams keeps the parameter. *)
UntrackedNot == subscribed

Untracked == subscribed \ name

Untrack ==
  /\ worker = "unregister" /\ name # {}
  /\ subscribed' = Untracked
  /\ name' = {}
  /\ UNCHANGED <<sdkVars, replies, opVars, worker, op, count, forward,
                 registered, failed, pushVars, stopVars>>

ForwardDone ==
  /\ worker \in {"register", "unregister"} /\ name = {} /\ forward = {}
  /\ Handled
  /\ UNCHANGED <<sdkVars, replies, opVars, count, forward, name, backVars,
                 pushVars, stopVars>>

SetParamUpdateCallback ==
  /\ ~callbackSet /\ callbackSet' = TRUE
  /\ UNCHANGED <<sdkVars, replies, opVars, worker, workVars, backVars,
                 pushing, stopVars>>

(* parameterUpdates on the XML-RPC thread: the master pushes a new value.   *)
(* Before the callback is set the update is lost.                           *)
ParameterUpdate ==
  /\ xmlrpcUp /\ ~pushing /\ registered # {} /\ callbackSet
  /\ pushing' = TRUE
  /\ UNCHANGED <<sdkVars, replies, opVars, worker, workVars, backVars,
                 callbackSet, stopVars>>

(* publishParameterValues returns. *)
UpdatePublished ==
  /\ pushing /\ pushing' = FALSE
  /\ UNCHANGED <<sdkVars, replies, opVars, worker, workVars, backVars,
                 callbackSet, stopVars>>

-----------------------------------------------------------------------------
(* The destructor: _paramInterface->shutdown(), then _transports->stop() *)

BackendShutdown ==
  /\ dtor = "none" /\ callbackSet
  /\ backendDown' = TRUE
  /\ leaving' = subscribed
  /\ subscribed' = {}
  /\ dtor' = "leave"
  /\ UNCHANGED <<sdkVars, replies, opVars, worker, workVars, registered,
                 failed, pushVars, xmlrpcUp>>

Leave(p, ok, reached) ==
  /\ dtor = "leave" /\ p \in leaving
  /\ ok => reached
  /\ leaving' = leaving \ {p}
  /\ registered' = IF reached THEN registered \ {p} ELSE registered
  /\ failed' = IF ok THEN failed ELSE failed \cup {p}
  /\ UNCHANGED <<sdkVars, replies, opVars, worker, workVars, subscribed,
                 pushVars, backendDown, xmlrpcUp, dtor>>

(* Wrong variant: the XML-RPC thread is not joined. *)
NoUpdateRunsEver == TRUE

(* XMLRPCManager::shutdown joins the thread that runs parameterUpdates. *)
NoUpdateRuns == ~pushing

StopXmlRpc ==
  /\ dtor = "leave" /\ leaving = {} /\ NoUpdateRuns
  /\ xmlrpcUp' = FALSE
  /\ dtor' = "transports"
  /\ UNCHANGED <<sdkVars, replies, opVars, worker, workVars, backVars,
                 pushVars, backendDown, leaving>>

StopTransports ==
  /\ dtor = "transports"
  /\ transportsUp' = FALSE
  /\ dtor' = "drain"
  /\ UNCHANGED <<wants, call, calls, replies, opVars, worker, workVars,
                 backVars, pushVars, backendDown, xmlrpcUp, leaving>>

(* Wrong variant: stop() wakes nobody. *)
WokenNot == worker

WokenByStop == Woken

(* Wrong variant: stop() copies the queue instead of swapping it out. *)
QueueCopied == queue

QueueLeft == <<>>

DrainQueue ==
  /\ dtor = "drain"
  /\ opShutdown' = TRUE
  /\ drained' = queue
  /\ queue' = QueueLeft
  /\ worker' = WokenByStop
  /\ dtor' = "join"
  /\ UNCHANGED <<sdkVars, replies, workVars, backVars, pushVars, backendDown,
                 xmlrpcUp, leaving>>

(* The drained operations die after the join, with their responders. *)
JoinWorker ==
  /\ dtor = "join" /\ worker = "exited"
  /\ Respond(RequestIds(OpsOf(drained)), "error")
  /\ drained' = <<>>
  /\ dtor' = "done"
  /\ UNCHANGED <<sdkVars, queue, opShutdown, worker, workVars, backVars,
                 pushVars, backendDown, xmlrpcUp, leaving>>

-----------------------------------------------------------------------------
Init ==
  /\ wants = [tr \in Transports |-> {}]
  /\ call = [tr \in Transports |-> NoOp] /\ calls = 0
  /\ replies = [n \in Ids |-> <<>>] /\ transportsUp = TRUE
  /\ queue = <<>> /\ opShutdown = FALSE /\ drained = <<>>
  /\ worker = "check" /\ op = NoOp
  /\ count = [p \in Params |-> 0] /\ forward = {} /\ name = {}
  /\ subscribed = {} /\ registered = {} /\ failed = {}
  /\ callbackSet = FALSE /\ pushing = FALSE
  /\ backendDown = FALSE /\ xmlrpcUp = TRUE /\ dtor = "none" /\ leaving = {}

Clients(tr) ==
  \/ \E kind \in Requests : ClientRequest(tr, kind)
  \/ \E names \in SUBSET Params :
       FirstSubscribers(tr, names) \/ LastUnsubscribers(tr, names)

Worker ==
  \/ WorkerSleep
  \/ WorkerExit
  \/ WorkerPop
  \/ \E ok \in BOOLEAN : HandleGetParams(ok)
  \/ HandleSetNone
  \/ HandleSetParams
  \/ EchoParams
  \/ HandleSubscribeParams
  \/ HandleUnsubscribeParams
  \/ SubscribeParams
  \/ \E p \in Params, ok, reached \in BOOLEAN :
       Register(p, ok, reached) \/ Unregister(p, ok, reached)
  \/ Track
  \/ Untrack
  \/ ForwardDone

Updates == ParameterUpdate \/ UpdatePublished

Stopping ==
  \/ \E p \in Params, ok, reached \in BOOLEAN : Leave(p, ok, reached)
  \/ StopXmlRpc
  \/ StopTransports
  \/ DrainQueue
  \/ JoinWorker

Next ==
  \/ \E tr \in Transports : Clients(tr) \/ EnqueueParameterOp(tr)
  \/ Worker
  \/ SetParamUpdateCallback
  \/ Updates
  \/ BackendShutdown
  \/ Stopping

Spec == Init /\ [][Next]_vars

(* Callbacks, the worker, the XML-RPC thread and a destructor once begun    *)
(* keep running; calls of the master return, if only with an error.         *)
Fairness ==
  /\ \A tr \in Transports : WF_vars(EnqueueParameterOp(tr))
  /\ WF_vars(Worker)
  /\ WF_vars(UpdatePublished)
  /\ SF_vars(Stopping)

FairSpec == Spec /\ Fairness

-----------------------------------------------------------------------------
(* Properties *)

(* Every variable keeps its type; a parameter is counted at most once per   *)
(* transport.                                                               *)
ParamTypeOK ==
  /\ wants \in [Transports -> SUBSET Params]
  /\ call \in [Transports -> Op \cup {NoOp}] /\ calls \in 0..MaxCalls
  /\ replies \in [Ids -> Seq({"values", "error"})]
  /\ queue \in Seq(Op) /\ drained \in Seq(Op)
  /\ op \in Op \cup {NoOp} /\ (op = NoOp <=> worker \in {"check", "asleep", "exited"})
  /\ worker \in {"check", "asleep", "handle", "echo", "subscribeParams",
                 "register", "unregister", "exited"}
  /\ count \in [Params -> 0..Cardinality(Transports)]
  /\ {forward, name, subscribed, registered, failed, leaving}
       \subseteq SUBSET Params
  /\ {transportsUp, opShutdown, callbackSet, pushing, backendDown, xmlrpcUp}
       \subseteq BOOLEAN
  /\ dtor \in {"none", "leave", "transports", "drain", "join", "done"}

(* Operations of a kind on a parameter that are under way: in a callback,   *)
(* in the queue, or taken by the worker and not yet counted.                *)
UnderWay(kind, p) ==
  LET Is(o) == o.kind = kind /\ p \in o.names IN
  Cardinality({tr \in Transports : Is(call[tr])})
    + Cardinality({i \in DOMAIN queue : Is(queue[i])})
    + IF worker = "handle" /\ Is(op) THEN 1 ELSE 0

(* The subscriber count that aggregates both transports never drifts: with  *)
(* the operations still under way it comes to exactly the transports that   *)
(* have subscribers, so the last to leave is recognised and no unsubscribe  *)
(* is ever for an untracked parameter.                                      *)
CountFollowsTransports ==
  opShutdown \/ \A p \in Params :
    count[p] + UnderWay("subscribe", p)
      = Cardinality({tr \in Transports : p \in wants[tr]})
          + UnderWay("unsubscribe", p)

(* While no call of the master has failed for it, a visible parameter is    *)
(* registered there, and known as subscribed, exactly while a transport     *)
(* counts on it, except for the one being forwarded.                        *)
RegisteredFollowsCount ==
  dtor = "none" => \A p \in Params \ (failed \cup forward \cup name) :
    /\ p \in registered <=> p \in Visible /\ count[p] > 0
    /\ p \in subscribed <=> p \in registered

(* The places a request's responder can be in. *)
HeldAt(n) ==
  {<<"callback", tr>> : tr \in {x \in Transports : n \in RequestIds({call[x]})}}
    \cup {<<"queue", i>> : i \in {x \in DOMAIN queue : n \in RequestIds({queue[x]})}}
    \cup {<<"worker", i>> : i \in RequestIds({op}) \cap {n}}
    \cup {<<"drained", i>> : i \in {x \in DOMAIN drained : n \in RequestIds({drained[x]})}}

(* Every get or set is answered once, by its handler or by dropping its     *)
(* responder: before the answer the responder is in exactly one place,      *)
(* after it nowhere, whatever stop() overtakes.                             *)
AnsweredOnce ==
  \A n \in Ids :
    \/ HeldAt(n) = {} /\ Len(replies[n]) <= 1
    \/ (\E h \in HeldAt(n) : HeldAt(n) = {h}) /\ replies[n] = <<>>

(* No parameter update is published into transports that are stopped. *)
PushesIntoRunning == pushing => transportsUp /\ xmlrpcUp

(* subscribeParams, by its comment, issues no registration once shutdown()  *)
(* has begun to clean up.                                                   *)
NoRegistrationAfterShutdown ==
  [][backendDown => registered' \subseteq registered]_vars

(* Every request that reached a callback is answered, the destructor's      *)
(* drained ones included.                                                   *)
EveryRequestAnswered ==
  \A n \in Ids : HeldAt(n) # {} ~> replies[n] # <<>>

(* A destructor that has begun returns: the worker is woken and exits, even *)
(* from the middle of an operation.                                         *)
DestructorReturns == dtor # "none" ~> dtor = "done"
=============================================================================
