---------------------------- MODULE ParamOpsProofs ----------------------------
(***************************************************************************)
(* Proofs about ParamOps, for every set of parameters and transports and   *)
(* every number of callbacks.  Three invariants, each over Types:          *)
(* AnswerInv about responders, RegInv about the master's registrations and *)
(* CountInv about the count that the transports share.                     *)
(***************************************************************************)
EXTENDS ParamOps, FiniteSetTheorems, TLAPS

-----------------------------------------------------------------------------
(* Types *)

(* ParamTypeOK without the bound on the count.                              *)
Types ==
  /\ wants \in [Transports -> SUBSET Params]
  /\ call \in [Transports -> Op \cup {NoOp}] /\ calls \in 0..MaxCalls
  /\ replies \in [Ids -> Seq({"values", "error"})]
  /\ queue \in Seq(Op) /\ drained \in Seq(Op)
  /\ op \in Op \cup {NoOp}
  /\ op = NoOp <=> worker \in {"check", "asleep", "exited"}
  /\ worker \in {"check", "asleep", "handle", "echo", "subscribeParams",
                 "register", "unregister", "exited"}
  /\ count \in [Params -> Nat]
  /\ forward \in SUBSET Params /\ name \in SUBSET Params
  /\ subscribed \in SUBSET Params /\ registered \in SUBSET Params
  /\ failed \in SUBSET Params /\ leaving \in SUBSET Params
  /\ transportsUp \in BOOLEAN /\ opShutdown \in BOOLEAN
  /\ callbackSet \in BOOLEAN /\ pushing \in BOOLEAN
  /\ backendDown \in BOOLEAN /\ xmlrpcUp \in BOOLEAN
  /\ dtor \in {"none", "leave", "transports", "drain", "join", "done"}

USE DEF sdkVars, opVars, workVars, backVars, pushVars, stopVars

LEMMA NoOpIsNone == NoOp \notin Op
  BY ParamAssumption DEF NoOp, Op, Ids

LEMMA TypesInit == Init => Types
<1> SUFFICES ASSUME Init PROVE Types
  OBVIOUS
<1>1. /\ queue \in Seq(Op) /\ drained \in Seq(Op)
      /\ replies \in [Ids -> Seq({"values", "error"})]
  BY DEF Init
<1>2. /\ call \in [Transports -> Op \cup {NoOp}] /\ calls \in 0..MaxCalls
      /\ wants \in [Transports -> SUBSET Params] /\ count \in [Params -> Nat]
  BY ParamAssumption DEF Init
<1> QED BY <1>1, <1>2 DEF Init, Types

LEMMA RespondTypes ==
  ASSUME Types, NEW ids, NEW r \in {"values", "error"}, Respond(ids, r)
  PROVE  replies' \in [Ids -> Seq({"values", "error"})]
  BY DEF Types, Respond

LEMMA ClientTypes ==
  ASSUME Types, NEW tr \in Transports, Clients(tr) \/ EnqueueParameterOp(tr)
  PROVE  Types'
<1>1. ASSUME NEW kind \in Kinds, NEW names \in SUBSET Params, Call(tr, kind, names)
      PROVE  /\ calls' \in 0..MaxCalls /\ call' \in [Transports -> Op \cup {NoOp}]
             /\ UNCHANGED <<transportsUp, replies, opVars, worker, workVars,
                            backVars, pushVars, stopVars>>
  <2>1. calls + 1 \in Ids
    BY <1>1, ParamAssumption DEF Types, Call, Ids
  <2>2. [kind |-> kind, names |-> names, id |-> calls + 1] \in Op
    BY <2>1 DEF Op
  <2> QED BY <1>1, <2>1, <2>2, ParamAssumption DEF Types, Call, Ids
<1>2. ASSUME NEW kind \in Requests, ClientRequest(tr, kind) PROVE Types'
  BY <1>1, <1>2 DEF ClientRequest, Types, Kinds
<1>3. ASSUME NEW names \in SUBSET Params,
             FirstSubscribers(tr, names) \/ LastUnsubscribers(tr, names)
      PROVE  Types'
  <2>1. wants' \in [Transports -> SUBSET Params]
    BY <1>3 DEF Types, FirstSubscribers, LastUnsubscribers
  <2>2. PICK kind \in {"subscribe", "unsubscribe"} : Call(tr, kind, names)
    BY <1>3 DEF FirstSubscribers, LastUnsubscribers
  <2>3. kind \in Kinds
    BY DEF Kinds
  <2> QED BY <1>1, <2>1, <2>2, <2>3 DEF Types
<1>4. CASE EnqueueParameterOp(tr)
  <2>1. call[tr] \in Op
    BY <1>4 DEF Types, EnqueueParameterOp
  <2>2. queue' = queue \/ queue' = Append(queue, call[tr])
    BY <1>4 DEF EnqueueParameterOp, Enqueue
  <2>7. queue' \in Seq(Op)
    <3>1. queue \in Seq(Op)
      BY DEF Types
    <3>2. Append(queue, call[tr]) \in Seq(Op)
      BY <2>1, <3>1
    <3> QED BY <2>2, <3>1, <3>2
  <2>3. replies' \in [Ids -> Seq({"values", "error"})]
    BY <1>4, RespondTypes DEF Types, EnqueueParameterOp, Enqueue
  <2>4. worker' = worker \/ (worker = "asleep" /\ worker' = "check")
    BY <1>4 DEF EnqueueParameterOp, Enqueue, Woken, Types
  <2>5. call' \in [Transports -> Op \cup {NoOp}]
    BY <1>4 DEF Types, EnqueueParameterOp
  <2>6. UNCHANGED <<wants, calls, transportsUp, opShutdown, drained, workVars,
                    backVars, pushVars, stopVars>>
    BY <1>4 DEF EnqueueParameterOp
  <2> QED BY <2>7, <2>3, <2>4, <2>5, <2>6 DEF Types
<1> QED BY <1>2, <1>3, <1>4 DEF Clients

LEMMA HandlerTypes ==
  ASSUME Types,
         \/ WorkerSleep \/ WorkerExit \/ WorkerPop
         \/ \E ok \in BOOLEAN : HandleGetParams(ok)
         \/ HandleSetNone \/ HandleSetParams \/ EchoParams
         \/ HandleSubscribeParams \/ HandleUnsubscribeParams
  PROVE  Types'
<1>1. CASE WorkerSleep  BY <1>1 DEF WorkerSleep, Types
<1>2. CASE WorkerExit  BY <1>2 DEF WorkerExit, Types
<1>3. CASE WorkerPop
  <2>1. op' \in Op /\ queue' \in Seq(Op)
    BY <1>3 DEF WorkerPop, Types
  <2> QED BY <1>3, <2>1, NoOpIsNone DEF WorkerPop, Types
<1>4. ASSUME NEW ok \in BOOLEAN, HandleGetParams(ok) PROVE Types'
  <2>1. replies' \in [Ids -> Seq({"values", "error"})]
    BY <1>4, RespondTypes DEF HandleGetParams
  <2> QED BY <1>4, <2>1 DEF HandleGetParams, Handled, Types
<1>5. CASE HandleSetNone \/ EchoParams
  <2>1. replies' \in [Ids -> Seq({"values", "error"})]
    BY <1>5, RespondTypes DEF HandleSetNone, EchoParams
  <2> QED BY <1>5, <2>1 DEF HandleSetNone, EchoParams, Handled, Types
<1>6. CASE HandleSetParams  BY <1>6 DEF HandleSetParams, Types
<1>7. CASE HandleSubscribeParams
  <2>1. count' \in [Params -> Nat] /\ forward' \in SUBSET Params
    BY <1>7, NoOpIsNone DEF HandleSubscribeParams, CountedUp, Types, Op
  <2> QED BY <1>7, <2>1 DEF HandleSubscribeParams, Handled, Types
<1>8. CASE HandleUnsubscribeParams
  <2>1. count' \in [Params -> Nat] /\ forward' \in SUBSET Params
    BY <1>8, NoOpIsNone DEF HandleUnsubscribeParams, CountedDown, Types, Op
  <2> QED BY <1>8, <2>1 DEF HandleUnsubscribeParams, Handled, Types
<1> QED BY <1>1, <1>2, <1>3, <1>4, <1>5, <1>6, <1>7, <1>8

LEMMA BackendTypes ==
  ASSUME Types,
         \/ SubscribeParams
         \/ \E p \in Params, ok, reached \in BOOLEAN :
              Register(p, ok, reached) \/ Unregister(p, ok, reached)
         \/ Track \/ Untrack \/ ForwardDone \/ SetParamUpdateCallback \/ Updates
  PROVE  Types'
<1>1. CASE SubscribeParams  BY <1>1 DEF SubscribeParams, Types
<1>2. ASSUME NEW p \in Params, NEW ok \in BOOLEAN, NEW reached \in BOOLEAN,
             Register(p, ok, reached) \/ Unregister(p, ok, reached)
      PROVE  Types'
  BY <1>2 DEF Register, Unregister, Types
<1>3. CASE Track  BY <1>3 DEF Track, Types
<1>4. CASE Untrack  BY <1>4 DEF Untrack, Untracked, Types
<1>5. CASE ForwardDone  BY <1>5 DEF ForwardDone, Handled, Types
<1>6. CASE SetParamUpdateCallback  BY <1>6 DEF SetParamUpdateCallback, Types
<1>7. CASE ParameterUpdate  BY <1>7 DEF ParameterUpdate, Types
<1>8. CASE UpdatePublished  BY <1>8 DEF UpdatePublished, Types
<1> QED BY <1>1, <1>2, <1>3, <1>4, <1>5, <1>6, <1>7, <1>8 DEF Updates

LEMMA StoppingTypes ==
  ASSUME Types, BackendShutdown \/ Stopping  PROVE Types'
<1>1. CASE BackendShutdown  BY <1>1 DEF BackendShutdown, Types
<1>2. ASSUME NEW p \in Params, NEW ok \in BOOLEAN, NEW reached \in BOOLEAN,
             Leave(p, ok, reached)
      PROVE  Types'
  BY <1>2 DEF Leave, Types
<1>3. CASE StopXmlRpc  BY <1>3 DEF StopXmlRpc, Types
<1>4. CASE StopTransports  BY <1>4 DEF StopTransports, Types
<1>5. CASE DrainQueue
  BY <1>5 DEF DrainQueue, QueueLeft, WokenByStop, Woken, Types
<1>6. CASE JoinWorker
  <2>1. replies' \in [Ids -> Seq({"values", "error"})]
    BY <1>6, RespondTypes DEF JoinWorker
  <2> QED BY <1>6, <2>1 DEF JoinWorker, Types
<1> QED BY <1>1, <1>2, <1>3, <1>4, <1>5, <1>6 DEF Stopping

LEMMA TypesStep == Types /\ [Next]_vars => Types'
<1> SUFFICES ASSUME Types, [Next]_vars PROVE Types'
  OBVIOUS
<1>1. CASE UNCHANGED vars  BY <1>1 DEF vars, Types
<1>2. CASE Next
  BY <1>2, ClientTypes, HandlerTypes, BackendTypes, StoppingTypes DEF Next, Worker
<1> QED BY <1>1, <1>2

-----------------------------------------------------------------------------
(* Pushes *)

(* What the destructor has stopped so far.                                  *)
StoppedInOrder ==
  /\ pushing => xmlrpcUp
  /\ xmlrpcUp => dtor \in {"none", "leave"}
  /\ dtor \in {"none", "leave", "transports"} => transportsUp

LEMMA StoppedInOrderStep == Types /\ StoppedInOrder /\ [Next]_vars => StoppedInOrder'
<1> SUFFICES ASSUME Types, StoppedInOrder, [Next]_vars PROVE StoppedInOrder'
  OBVIOUS
<1> USE DEF StoppedInOrder
<1>1. ASSUME UNCHANGED <<pushing, stopVars, transportsUp>>
      PROVE  StoppedInOrder'
  BY <1>1
<1>2. CASE UNCHANGED vars
  BY <1>1, <1>2 DEF vars
<1>3. ASSUME NEW tr \in Transports, Clients(tr) \/ EnqueueParameterOp(tr)
      PROVE  StoppedInOrder'
  BY <1>1, <1>3 DEF Clients, ClientRequest, FirstSubscribers, LastUnsubscribers,
                    Call, EnqueueParameterOp
<1>4. CASE Worker
  BY <1>1, <1>4
  DEF Worker, WorkerSleep, WorkerExit, WorkerPop, HandleGetParams, HandleSetNone,
      HandleSetParams, EchoParams, HandleSubscribeParams, HandleUnsubscribeParams,
      SubscribeParams, Register, Unregister, Track, Untrack, ForwardDone
<1>5. CASE SetParamUpdateCallback
  BY <1>1, <1>5 DEF SetParamUpdateCallback
<1>6. CASE ParameterUpdate
  BY <1>6 DEF ParameterUpdate
<1>7. CASE UpdatePublished
  BY <1>7 DEF UpdatePublished
<1>8. CASE BackendShutdown
  BY <1>8 DEF BackendShutdown
<1>9. ASSUME NEW p \in Params, NEW ok \in BOOLEAN, NEW reached \in BOOLEAN,
             Leave(p, ok, reached)
      PROVE  StoppedInOrder'
  BY <1>9 DEF Leave
<1>10. CASE StopXmlRpc
  BY <1>10 DEF StopXmlRpc, NoUpdateRuns
<1>11. CASE StopTransports
  BY <1>11 DEF StopTransports
<1>12. CASE DrainQueue
  BY <1>12 DEF DrainQueue
<1>13. CASE JoinWorker
  BY <1>13 DEF JoinWorker
<1> QED BY <1>2, <1>3, <1>4, <1>5, <1>6, <1>7, <1>8, <1>9, <1>10, <1>11, <1>12, <1>13
        DEF Next, Updates, Stopping

(* Whatever the XML-RPC thread is doing when the destructor begins, and     *)
(* whichever steps of it follow, parameterUpdates publishes only while the  *)
(* transports run: shutdown() joins that thread before stop() is called.    *)
THEOREM PushesReachRunningTransports == Spec => []PushesIntoRunning
<1>1. Init => StoppedInOrder
  BY DEF Init, StoppedInOrder
<1>2. StoppedInOrder => PushesIntoRunning
  BY DEF StoppedInOrder, PushesIntoRunning
<1> QED BY <1>1, <1>2, TypesInit, TypesStep, StoppedInOrderStep, PTL DEF Spec

-----------------------------------------------------------------------------
(* Answers *)

(* Every operation is in one place: a callback, the queue, the worker, or   *)
(* stop()'s local.                                                          *)
InOnePlace ==
  /\ \A tr1, tr2 \in Transports :
       call[tr1] # NoOp /\ call[tr1].id = call[tr2].id => tr1 = tr2
  /\ \A i, j \in DOMAIN queue : queue[i].id = queue[j].id => i = j
  /\ \A i, j \in DOMAIN drained : drained[i].id = drained[j].id => i = j
  /\ \A tr \in Transports, i \in DOMAIN queue : call[tr].id # queue[i].id
  /\ \A tr \in Transports, i \in DOMAIN drained : call[tr].id # drained[i].id
  /\ \A i \in DOMAIN queue, j \in DOMAIN drained : queue[i].id # drained[j].id
  /\ op # NoOp => /\ \A tr \in Transports : call[tr].id # op.id
                  /\ \A i \in DOMAIN queue : queue[i].id # op.id
                  /\ \A i \in DOMAIN drained : drained[i].id # op.id

(* Ids are given out in order.                                              *)
IdsGivenOut ==
  /\ \A tr \in Transports : call[tr].id <= calls
  /\ \A i \in DOMAIN queue : queue[i].id <= calls
  /\ \A i \in DOMAIN drained : drained[i].id <= calls
  /\ op.id <= calls
  /\ \A n \in Ids : n > calls => replies[n] = <<>>

(* An operation that is somewhere has not been answered.                    *)
Unanswered ==
  /\ \A tr \in Transports : call[tr] # NoOp => replies[call[tr].id] = <<>>
  /\ \A i \in DOMAIN queue : replies[queue[i].id] = <<>>
  /\ \A i \in DOMAIN drained : replies[drained[i].id] = <<>>
  /\ op # NoOp => replies[op.id] = <<>>
  /\ \A n \in Ids : Len(replies[n]) <= 1
  /\ worker = "echo" => op.kind = "set"

AnswerInv == Types /\ InOnePlace /\ IdsGivenOut /\ Unanswered

LEMMA OpIds ==
  ASSUME Types
  PROVE  /\ \A tr \in Transports : call[tr] # NoOp => call[tr].id \in Ids
         /\ \A tr \in Transports : call[tr].id \in Nat
         /\ \A i \in DOMAIN queue : queue[i].id \in Ids
         /\ \A i \in DOMAIN drained : drained[i].id \in Ids
         /\ op # NoOp => op.id \in Ids
         /\ op.id \in Nat
         /\ calls \in Nat /\ Ids \subseteq Nat /\ NoOp.id = 0
<1>1. calls \in Nat /\ Ids \subseteq Nat
  BY ParamAssumption DEF Types, Ids
<1>2. \A x \in Op : x.id \in Ids
  BY DEF Op
<1>3. NoOp.id = 0 /\ NoOp.id \in Nat
  BY DEF NoOp
<1>4. \A tr \in Transports : call[tr] \in Op \cup {NoOp}
  BY DEF Types
<1>5. \A i \in DOMAIN queue : queue[i] \in Op
  BY DEF Types
<1>6. \A i \in DOMAIN drained : drained[i] \in Op
  BY DEF Types
<1>7. op \in Op \cup {NoOp}
  BY DEF Types
<1>8. \A tr \in Transports :
        call[tr].id \in Nat /\ (call[tr] # NoOp => call[tr].id \in Ids)
  BY <1>1, <1>2, <1>3, <1>4, Zenon
<1>9. op.id \in Nat /\ (op # NoOp => op.id \in Ids)
  BY <1>1, <1>2, <1>3, <1>7, Zenon
<1> QED BY <1>1, <1>2, <1>3, <1>5, <1>6, <1>8, <1>9, Zenon

LEMMA AnswerInit == Init => AnswerInv
<1> SUFFICES ASSUME Init PROVE AnswerInv
  OBVIOUS
<1>1. NoOp.id = 0 /\ DOMAIN queue = {} /\ DOMAIN drained = {}
  BY DEF Init, NoOp
<1>2. InOnePlace
  BY <1>1 DEF Init, InOnePlace
<1>3. IdsGivenOut
  BY <1>1 DEF Init, IdsGivenOut
<1>4. Unanswered
  BY <1>1 DEF Init, Unanswered
<1> QED BY <1>2, <1>3, <1>4, TypesInit DEF AnswerInv

LEMMA AnswerFrame ==
  ASSUME AnswerInv, Types', UNCHANGED <<call, calls, replies, queue, drained, op>>,
         worker' = "echo" => worker = "echo" \/ op.kind = "set"
  PROVE  AnswerInv'
<1>1. InOnePlace'
  BY DEF AnswerInv, InOnePlace
<1>2. IdsGivenOut'
  BY DEF AnswerInv, IdsGivenOut
<1>3. Unanswered'
  BY DEF AnswerInv, Unanswered
<1> QED BY <1>1, <1>2, <1>3 DEF AnswerInv

(* The worker is done with its operation, answering it or not.              *)
LEMMA WorkerDoneAnswers ==
  ASSUME AnswerInv, Types', op # NoOp, op' = NoOp, worker' = "check",
         UNCHANGED <<call, calls, queue, drained>>,
         NEW r \in {"values", "error"},
         Respond({op.id}, r) \/ UNCHANGED replies
  PROVE  AnswerInv'
<1>1. op \in Op /\ op.id \in Ids /\ NoOp.id = 0
  BY DEF AnswerInv, Types, Op, NoOp
<1>2. InOnePlace'
  BY DEF AnswerInv, InOnePlace
<1>3. replies[op.id] = <<>>
  BY DEF AnswerInv, Unanswered
<1>4. \A n \in Ids : n # op.id => replies'[n] = replies[n]
  BY DEF Respond
<1>5. Len(replies'[op.id]) <= 1
  BY <1>1, <1>3 DEF Respond
<1>6. /\ \A tr \in Transports : call[tr] # NoOp => call[tr].id \in Ids
      /\ \A i \in DOMAIN queue : queue[i].id \in Ids
      /\ \A i \in DOMAIN drained : drained[i].id \in Ids
      /\ calls \in Nat
  BY OpIds DEF AnswerInv
<1>7. IdsGivenOut'
  BY <1>1, <1>4, <1>6, ParamAssumption DEF AnswerInv, IdsGivenOut, Ids
<1>8. Unanswered'
  BY <1>1, <1>4, <1>5, <1>6 DEF AnswerInv, Unanswered, InOnePlace
<1> QED BY <1>2, <1>7, <1>8 DEF AnswerInv

LEMMA CallAnswers ==
  ASSUME AnswerInv, Types', NEW tr \in Transports, Clients(tr)
  PROVE  AnswerInv'
<1>1. PICK kind \in Kinds, names \in SUBSET Params : Call(tr, kind, names)
  BY DEF Clients, ClientRequest, FirstSubscribers, LastUnsubscribers, Kinds
<1>2. calls \in Nat /\ calls + 1 \in Ids /\ calls' = calls + 1
  BY <1>1, ParamAssumption DEF Call, Ids, AnswerInv, Types
<1>3. /\ call'[tr].id = calls + 1 /\ call[tr] = NoOp
      /\ \A x \in Transports : x # tr => call'[x] = call[x]
  BY <1>1 DEF Call, AnswerInv, Types
<1>4. UNCHANGED <<replies, queue, drained, op, worker>>
  BY <1>1 DEF Call, opVars, workVars
<1>5. /\ \A x \in Transports : call[x].id \in Nat /\ call[x].id <= calls
      /\ \A i \in DOMAIN queue : queue[i].id \in Nat /\ queue[i].id <= calls
      /\ \A i \in DOMAIN drained : drained[i].id \in Nat /\ drained[i].id <= calls
      /\ op.id \in Nat /\ op.id <= calls
  BY OpIds DEF AnswerInv, IdsGivenOut
<1>6. InOnePlace'
  BY <1>2, <1>3, <1>4, <1>5 DEF AnswerInv, InOnePlace
<1>7. IdsGivenOut'
  BY <1>2, <1>3, <1>4, <1>5 DEF AnswerInv, IdsGivenOut, Ids
<1>8. replies[calls + 1] = <<>>
  BY <1>2 DEF AnswerInv, IdsGivenOut
<1>9. Unanswered'
  BY <1>3, <1>4, <1>8 DEF AnswerInv, Unanswered
<1> QED BY <1>6, <1>7, <1>9 DEF AnswerInv

LEMMA RequestIdsOfOne ==
  ASSUME NEW x, NEW n
  PROVE  n \in RequestIds({x}) <=> x.kind \in Requests /\ x.id = n
  BY DEF RequestIds

LEMMA EnqueueAnswers ==
  ASSUME AnswerInv, Types', NEW tr \in Transports, EnqueueParameterOp(tr)
  PROVE  AnswerInv'
<1> DEFINE id == call[tr].id
<1>1. /\ call[tr] # NoOp /\ call'[tr] = NoOp /\ id \in Ids
      /\ \A x \in Transports : x # tr => call'[x] = call[x]
      /\ UNCHANGED <<calls, drained, op>>
  BY OpIds DEF EnqueueParameterOp, AnswerInv, Types, opVars, workVars, sdkVars
<1>2. replies[id] = <<>> /\ queue \in Seq(Op)
  BY <1>1 DEF AnswerInv, Unanswered, Types
<1>3. worker' = "echo" => worker = "echo"
  BY DEF EnqueueParameterOp, Enqueue, Woken
<1>a. /\ \A x \in Transports : call[x].id \in Nat /\ call[x].id <= calls
      /\ \A i \in DOMAIN queue : queue[i].id \in Nat /\ queue[i].id <= calls
      /\ \A i \in DOMAIN drained : drained[i].id \in Nat /\ drained[i].id <= calls
      /\ op.id \in Nat /\ op.id <= calls /\ calls \in Nat /\ NoOp.id = 0
      /\ Ids \subseteq Nat /\ 0 \notin Ids
      /\ \A i \in DOMAIN queue : queue[i].id \in Ids
      /\ \A i \in DOMAIN drained : drained[i].id \in Ids
      /\ op # NoOp => op.id \in Ids
      /\ \A x \in Transports : call[x] # NoOp => call[x].id \in Ids
  BY OpIds DEF AnswerInv, IdsGivenOut, Ids
<1>4. CASE opShutdown
  <2>1. queue' = queue /\ Respond(RequestIds({call[tr]}), "error")
    BY <1>4 DEF EnqueueParameterOp, Enqueue
  <2>2. /\ \A n \in Ids : n # id => replies'[n] = replies[n]
        /\ Len(replies'[id]) <= 1
    BY <1>1, <1>2, <2>1, RequestIdsOfOne DEF Respond
  <2>3. InOnePlace'
    BY <1>1, <1>a, <2>1 DEF AnswerInv, InOnePlace
  <2>4. IdsGivenOut'
    <3>1. \A x \in Transports : call'[x].id <= calls
      BY <1>1, <1>a
    <3>2. ASSUME NEW n \in Ids, n > calls PROVE replies'[n] = <<>>
      <4>1. id <= calls /\ id \in Nat /\ n \in Nat /\ calls \in Nat
        BY <1>1, <1>a
      <4>2. n # id
        BY <3>2, <4>1
      <4> QED BY <2>2, <3>2, <4>2 DEF AnswerInv, IdsGivenOut
    <3> QED BY <1>1, <1>a, <2>1, <3>1, <3>2 DEF IdsGivenOut
  <2>5. Unanswered'
    <3>1. \A x \in Transports : call'[x] # NoOp => replies'[call'[x].id] = <<>>
      BY <1>1, <2>2, OpIds DEF AnswerInv, InOnePlace, Unanswered
    <3>2. \A i \in DOMAIN queue : replies'[queue[i].id] = <<>>
      BY <1>1, <1>a, <2>2 DEF AnswerInv, InOnePlace, Unanswered
    <3>3. \A i \in DOMAIN drained : replies'[drained[i].id] = <<>>
      BY <1>1, <1>a, <2>2 DEF AnswerInv, InOnePlace, Unanswered
    <3>4. op # NoOp => replies'[op.id] = <<>>
      BY <1>1, <1>a, <2>2 DEF AnswerInv, InOnePlace, Unanswered
    <3>5. \A n \in Ids : Len(replies'[n]) <= 1
      BY <2>2 DEF AnswerInv, Unanswered
    <3> QED BY <1>1, <1>3, <2>1, <3>1, <3>2, <3>3, <3>4, <3>5
            DEF AnswerInv, Unanswered
  <2> QED BY <2>3, <2>4, <2>5 DEF AnswerInv
<1>5. CASE ~opShutdown
  <2>1. queue' = Append(queue, call[tr]) /\ replies' = replies
    BY <1>5 DEF EnqueueParameterOp, Enqueue
  <2>2. /\ \A i \in DOMAIN queue' : queue'[i] = IF i \in DOMAIN queue THEN queue[i] ELSE call[tr]
        /\ \A i, j \in DOMAIN queue' :
             i \notin DOMAIN queue /\ j \notin DOMAIN queue => i = j
    BY <1>2, <2>1
  <2>3. InOnePlace'
    BY <1>1, <1>a, <2>2 DEF AnswerInv, InOnePlace
  <2>4. IdsGivenOut'
    <3>1. \A x \in Transports : call'[x].id <= calls
      BY <1>1, <1>a
    <3>2. \A i \in DOMAIN queue' : queue'[i].id <= calls
      BY <1>a, <2>2
    <3> QED BY <1>1, <1>a, <2>1, <3>1, <3>2 DEF AnswerInv, IdsGivenOut
  <2>5. Unanswered'
    BY <1>1, <1>2, <1>3, <2>1, <2>2 DEF AnswerInv, Unanswered
  <2> QED BY <2>3, <2>4, <2>5 DEF AnswerInv
<1> QED BY <1>4, <1>5

LEMMA PopAnswers ==
  ASSUME AnswerInv, Types', WorkerPop
  PROVE  AnswerInv'
<1>1. /\ UNCHANGED <<call, calls, replies, drained>> /\ worker' = "handle"
      /\ op = NoOp /\ op' = Head(queue) /\ queue' = Tail(queue)
      /\ queue # <<>> /\ queue \in Seq(Op)
  BY DEF WorkerPop, AnswerInv, Types, sdkVars
<1>2. /\ op' = queue[1] /\ 1 \in DOMAIN queue
      /\ \A i \in DOMAIN queue' :
           i + 1 \in DOMAIN queue /\ i \in Nat \ {0} /\ queue'[i] = queue[i + 1]
  BY <1>1
<1>3. InOnePlace'
  <2>1. \A i, j \in DOMAIN queue' : queue'[i].id = queue'[j].id => i = j
    BY <1>2 DEF AnswerInv, InOnePlace
  <2>2. \A i \in DOMAIN queue' : queue'[i].id # op'.id
    BY <1>2 DEF AnswerInv, InOnePlace
  <2> QED BY <1>1, <1>2, <2>1, <2>2 DEF AnswerInv, InOnePlace
<1>4. IdsGivenOut'
  BY <1>1, <1>2 DEF AnswerInv, IdsGivenOut
<1>5. Unanswered'
  BY <1>1, <1>2 DEF AnswerInv, Unanswered
<1> QED BY <1>3, <1>4, <1>5 DEF AnswerInv

LEMMA DrainAnswers ==
  ASSUME AnswerInv, Types', DrainQueue
  PROVE  AnswerInv'
<1>1. /\ UNCHANGED <<call, calls, replies, op>>
      /\ worker' = "echo" => worker = "echo"
      /\ drained' = queue /\ queue' = <<>> /\ DOMAIN queue' = {}
  BY DEF DrainQueue, QueueLeft, WokenByStop, Woken, sdkVars, workVars
<1>2. InOnePlace'
  BY <1>1 DEF AnswerInv, InOnePlace
<1>3. IdsGivenOut'
  BY <1>1 DEF AnswerInv, IdsGivenOut
<1>4. Unanswered'
  BY <1>1 DEF AnswerInv, Unanswered
<1> QED BY <1>2, <1>3, <1>4 DEF AnswerInv

LEMMA JoinAnswers ==
  ASSUME AnswerInv, Types', JoinWorker
  PROVE  AnswerInv'
<1> DEFINE ids == RequestIds(OpsOf(drained))
<1>1. /\ UNCHANGED <<call, calls, queue, op, worker>>
      /\ drained' = <<>> /\ DOMAIN drained' = {} /\ Respond(ids, "error")
  BY DEF JoinWorker, sdkVars, workVars
<1>2. \A n \in ids : \E i \in DOMAIN drained : drained[i].id = n
  BY DEF RequestIds, OpsOf
<1>3. /\ \A n \in Ids \ ids : replies'[n] = replies[n]
      /\ \A n \in Ids \cap ids : replies'[n] = Append(replies[n], "error")
  BY <1>1 DEF Respond
<1>4. \A n \in ids : replies[n] = <<>>
  BY <1>2 DEF AnswerInv, Unanswered
<1>5. /\ \A tr \in Transports : call[tr] # NoOp => call[tr].id \in Ids \ ids
      /\ \A i \in DOMAIN queue : queue[i].id \in Ids \ ids
      /\ op # NoOp => op.id \in Ids \ ids
  BY <1>2, OpIds DEF AnswerInv, InOnePlace
<1>6. InOnePlace'
  BY <1>1 DEF AnswerInv, InOnePlace
<1>7. IdsGivenOut'
  <2>1. ASSUME NEW n \in Ids, n > calls PROVE replies'[n] = <<>>
    <3>1. \A i \in DOMAIN drained : drained[i].id \in Nat /\ drained[i].id <= calls
      BY OpIds DEF AnswerInv, IdsGivenOut
    <3>2. n \in Nat /\ calls \in Nat
      BY OpIds DEF AnswerInv
    <3>3. n \notin ids
      BY <1>2, <2>1, <3>1, <3>2
    <3> QED BY <1>3, <2>1, <3>3 DEF AnswerInv, IdsGivenOut
  <2> QED BY <1>1, <2>1 DEF AnswerInv, IdsGivenOut
<1>8. Unanswered'
  <2>1. ASSUME NEW n \in Ids PROVE Len(replies'[n]) <= 1
    <3>1. CASE n \in ids
      BY <1>3, <1>4, <3>1
    <3>2. CASE n \notin ids
      BY <1>3, <3>2 DEF AnswerInv, Unanswered
    <3> QED BY <3>1, <3>2
  <2> QED BY <1>1, <1>3, <1>5, <2>1 DEF AnswerInv, Unanswered
<1> QED BY <1>6, <1>7, <1>8 DEF AnswerInv

LEMMA AnswerStep == AnswerInv /\ [Next]_vars => AnswerInv'
<1> SUFFICES ASSUME AnswerInv, [Next]_vars PROVE AnswerInv'
  OBVIOUS
<1>1. Types /\ Types'
  BY TypesStep DEF AnswerInv
<1>2. CASE UNCHANGED vars
  BY <1>1, <1>2, AnswerFrame DEF vars
<1>3. ASSUME NEW tr \in Transports, Clients(tr) \/ EnqueueParameterOp(tr)
      PROVE  AnswerInv'
  BY <1>1, <1>3, CallAnswers, EnqueueAnswers
<1>4. CASE WorkerSleep \/ WorkerExit
  BY <1>1, <1>4, AnswerFrame DEF WorkerSleep, WorkerExit
<1>5. CASE WorkerPop
  BY <1>1, <1>5, PopAnswers
<1>6. ASSUME NEW ok \in BOOLEAN, HandleGetParams(ok) PROVE AnswerInv'
  <2>1. op # NoOp
    BY <1>1, <1>6 DEF HandleGetParams, Types
  <2>2. PICK r \in {"values", "error"} : Respond({op.id}, r)
    BY <1>6 DEF HandleGetParams
  <2> QED BY <1>1, <1>6, <2>1, <2>2, WorkerDoneAnswers DEF HandleGetParams, Handled
<1>7. CASE HandleSetNone \/ EchoParams
  <2>1. op # NoOp
    BY <1>1, <1>7 DEF HandleSetNone, EchoParams, Types
  <2> QED BY <1>1, <1>7, <2>1, WorkerDoneAnswers DEF HandleSetNone, EchoParams, Handled
<1>8. CASE HandleSetParams
  BY <1>1, <1>8, AnswerFrame DEF HandleSetParams
<1>9. CASE HandleSubscribeParams
  <2>1. op # NoOp
    BY <1>1, <1>9 DEF HandleSubscribeParams, Types
  <2>2. CASE Handled
    BY <1>1, <1>9, <2>1, <2>2, WorkerDoneAnswers DEF HandleSubscribeParams, Handled
  <2>3. CASE worker' = "subscribeParams" /\ UNCHANGED op
    BY <1>1, <1>9, <2>3, AnswerFrame DEF HandleSubscribeParams
  <2> QED BY <1>9, <2>2, <2>3 DEF HandleSubscribeParams
<1>10. CASE HandleUnsubscribeParams
  <2>1. op # NoOp
    BY <1>1, <1>10 DEF HandleUnsubscribeParams, Types
  <2>2. CASE Handled
    BY <1>1, <1>10, <2>1, <2>2, WorkerDoneAnswers DEF HandleUnsubscribeParams, Handled
  <2>3. CASE worker' = "unregister" /\ UNCHANGED op
    BY <1>1, <1>10, <2>3, AnswerFrame DEF HandleUnsubscribeParams
  <2> QED BY <1>10, <2>2, <2>3 DEF HandleUnsubscribeParams
<1>11. CASE SubscribeParams
  BY <1>1, <1>11, AnswerFrame DEF SubscribeParams
<1>12. ASSUME NEW p \in Params, NEW ok \in BOOLEAN, NEW reached \in BOOLEAN,
              Register(p, ok, reached) \/ Unregister(p, ok, reached)
       PROVE  AnswerInv'
  BY <1>1, <1>12, AnswerFrame DEF Register, Unregister
<1>13. CASE Track \/ Untrack
  BY <1>1, <1>13, AnswerFrame DEF Track, Untrack
<1>14. CASE ForwardDone
  <2>1. op # NoOp
    BY <1>1, <1>14 DEF ForwardDone, Types
  <2> QED BY <1>1, <1>14, <2>1, WorkerDoneAnswers DEF ForwardDone, Handled
<1>15. CASE SetParamUpdateCallback \/ Updates
  BY <1>1, <1>15, AnswerFrame
  DEF SetParamUpdateCallback, Updates, ParameterUpdate, UpdatePublished
<1>16. CASE BackendShutdown
  BY <1>1, <1>16, AnswerFrame DEF BackendShutdown
<1>17. ASSUME NEW p \in Params, NEW ok \in BOOLEAN, NEW reached \in BOOLEAN,
              Leave(p, ok, reached)
       PROVE  AnswerInv'
  BY <1>1, <1>17, AnswerFrame DEF Leave
<1>18. CASE StopXmlRpc \/ StopTransports
  BY <1>1, <1>18, AnswerFrame DEF StopXmlRpc, StopTransports
<1>19. CASE DrainQueue
  BY <1>1, <1>19, DrainAnswers
<1>20. CASE JoinWorker
  BY <1>1, <1>20, JoinAnswers
<1> QED BY <1>2, <1>3, <1>4, <1>5, <1>6, <1>7, <1>8, <1>9, <1>10, <1>11, <1>12,
           <1>13, <1>14, <1>15, <1>16, <1>17, <1>18, <1>19, <1>20
        DEF Next, Worker, Stopping

LEMMA AnswerInvSuffices == AnswerInv => AnsweredOnce
<1> SUFFICES ASSUME AnswerInv, NEW n \in Ids
             PROVE  \/ HeldAt(n) = {} /\ Len(replies[n]) <= 1
                    \/ (\E h \in HeldAt(n) : HeldAt(n) = {h}) /\ replies[n] = <<>>
  BY DEF AnsweredOnce
<1> DEFINE C == {tr \in Transports : n \in RequestIds({call[tr]})}
           Q == {i \in DOMAIN queue : n \in RequestIds({queue[i]})}
           W == RequestIds({op}) \cap {n}
           D == {i \in DOMAIN drained : n \in RequestIds({drained[i]})}
<1>1. HeldAt(n) = {<<"callback", tr>> : tr \in C} \cup {<<"queue", i>> : i \in Q}
                    \cup {<<"worker", i>> : i \in W} \cup {<<"drained", i>> : i \in D}
  BY DEF HeldAt
<1>2. /\ \A tr \in C : tr \in Transports /\ call[tr] # NoOp /\ call[tr].id = n
      /\ \A i \in Q : i \in DOMAIN queue /\ queue[i].id = n
      /\ \A i \in W : i = n /\ op # NoOp /\ op.id = n
      /\ \A i \in D : i \in DOMAIN drained /\ drained[i].id = n
  BY RequestIdsOfOne DEF NoOp, Requests
<1> HIDE DEF C, Q, W, D
<1>3. /\ \A x, y \in C : x = y
      /\ \A x, y \in Q : x = y
      /\ \A x, y \in W : x = y
      /\ \A x, y \in D : x = y
      /\ C = {} \/ (Q = {} /\ W = {} /\ D = {})
      /\ Q = {} \/ (W = {} /\ D = {})
      /\ W = {} \/ D = {}
  BY <1>2 DEF AnswerInv, InOnePlace
<1>4. C # {} \/ Q # {} \/ W # {} \/ D # {} => replies[n] = <<>>
  BY <1>2 DEF AnswerInv, Unanswered
<1>5. Len(replies[n]) <= 1
  BY DEF AnswerInv, Unanswered
<1>6. \A h, k \in HeldAt(n) : h = k
  BY <1>1, <1>3
<1>7. HeldAt(n) # {} => C # {} \/ Q # {} \/ W # {} \/ D # {}
  BY <1>1
<1> QED BY <1>4, <1>5, <1>6, <1>7

(* Every get and set is answered at most once and never lost: until its     *)
(* answer the responder is in exactly one of callback, queue, worker and    *)
(* stop()'s local, for any number of requests and transports and wherever   *)
(* the destructor overtakes them.                                           *)
THEOREM RequestsAnsweredOnce == Spec => []AnsweredOnce
BY AnswerInit, AnswerStep, AnswerInvSuffices, PTL DEF Spec

-----------------------------------------------------------------------------
(* Registrations *)

(* What the worker still has to pass on, and where it stands with it.       *)
ForwardPhase ==
  /\ worker \notin {"subscribeParams", "register", "unregister"} => forward = {}
  /\ worker \notin {"register", "unregister"} => name = {}
  /\ forward \cap name = {}
  /\ dtor = "none" => ~backendDown

(* The parameters that are being passed on, unless a call failed for them.  *)
BeingForwarded ==
  dtor = "none" => \A p \in Params \ failed :
    /\ p \in forward /\ worker = "subscribeParams" =>
         count[p] > 0 /\ p \notin registered /\ p \notin subscribed
    /\ p \in forward /\ worker = "register" =>
         count[p] > 0 /\ p \in Visible /\ p \notin registered /\ p \notin subscribed
    /\ p \in forward /\ worker = "unregister" => count[p] = 0
    /\ p \in name /\ worker = "register" =>
         count[p] > 0 /\ p \in Visible /\ p \in registered
    /\ p \in name /\ worker = "unregister" => count[p] = 0 /\ p \notin registered

RegInv == Types /\ ForwardPhase /\ BeingForwarded /\ RegisteredFollowsCount

(* Most steps touch none of this; a step that does not touch it may still   *)
(* be the destructor's first.                                               *)
LEMMA RegFrame ==
  ASSUME RegInv, Types',
         UNCHANGED <<count, forward, name, registered, failed>>,
         dtor' = "none" =>
           dtor = "none" /\ UNCHANGED <<subscribed, backendDown>>,
         \/ worker' = worker
         \/ forward = {} /\ name = {}
  PROVE  RegInv'
<1>1. ForwardPhase'
  BY DEF RegInv, ForwardPhase
<1>2. BeingForwarded'
  BY DEF RegInv, BeingForwarded
<1>3. RegisteredFollowsCount'
  BY DEF RegInv, RegisteredFollowsCount
<1> QED BY <1>1, <1>2, <1>3 DEF RegInv

LEMMA HandleSubscribeReg ==
  ASSUME RegInv, Types', HandleSubscribeParams
  PROVE  RegInv'
<1>1. /\ UNCHANGED <<name, registered, failed, subscribed, dtor, backendDown>>
      /\ forward = {} /\ name = {} /\ count \in [Params -> Nat]
  BY DEF HandleSubscribeParams, RegInv, ForwardPhase, Types
<1>2. /\ \A p \in Params : count'[p] = count[p] + IF p \in op.names THEN 1 ELSE 0
      /\ forward' = {p \in op.names : count'[p] = 1}
      /\ forward' = {} \/ worker' = "subscribeParams"
      /\ worker' \in {"check", "subscribeParams"}
  BY DEF HandleSubscribeParams, CountedUp, Handled
<1>3. /\ \A p \in Params : p \in forward' => count[p] = 0 /\ count'[p] = 1
      /\ \A p \in Params : p \notin forward' => (count'[p] > 0 <=> count[p] > 0)
  BY <1>1, <1>2
<1>4. ForwardPhase'
  BY <1>1, <1>2 DEF RegInv, ForwardPhase
<1>5. BeingForwarded'
  BY <1>1, <1>2, <1>3 DEF RegInv, BeingForwarded, RegisteredFollowsCount
<1>6. RegisteredFollowsCount'
  BY <1>1, <1>3 DEF RegInv, RegisteredFollowsCount
<1> QED BY <1>4, <1>5, <1>6 DEF RegInv

LEMMA HandleUnsubscribeReg ==
  ASSUME RegInv, Types', HandleUnsubscribeParams
  PROVE  RegInv'
<1>1. /\ UNCHANGED <<name, registered, failed, subscribed, dtor, backendDown>>
      /\ forward = {} /\ name = {} /\ count \in [Params -> Nat]
  BY DEF HandleUnsubscribeParams, RegInv, ForwardPhase, Types
<1>2. /\ \A p \in Params :
           count'[p] = IF p \in op.names /\ count[p] # 0 THEN count[p] - 1 ELSE count[p]
      /\ forward' = {p \in op.names : count[p] # 0 /\ count'[p] = 0}
      /\ forward' = {} \/ worker' = "unregister"
      /\ worker' \in {"check", "unregister"}
  BY DEF HandleUnsubscribeParams, CountedDown, Handled
<1>3. /\ \A p \in Params : p \in forward' => count'[p] = 0
      /\ \A p \in Params : p \notin forward' => (count'[p] > 0 <=> count[p] > 0)
  BY <1>1, <1>2
<1>4. ForwardPhase'
  BY <1>1, <1>2 DEF RegInv, ForwardPhase
<1>5. BeingForwarded'
  BY <1>1, <1>2, <1>3 DEF RegInv, BeingForwarded
<1>6. RegisteredFollowsCount'
  BY <1>1, <1>3 DEF RegInv, RegisteredFollowsCount
<1> QED BY <1>4, <1>5, <1>6 DEF RegInv

LEMMA SubscribeParamsReg ==
  ASSUME RegInv, Types', SubscribeParams
  PROVE  RegInv'
<1>1. /\ UNCHANGED <<count, name, registered, failed, subscribed, dtor, backendDown>>
      /\ worker = "subscribeParams" /\ worker' = "register" /\ name = {}
      /\ dtor = "none" => forward' = forward \cap Visible
      /\ forward \subseteq Params /\ dtor' = dtor
  BY DEF SubscribeParams, RegInv, ForwardPhase, Types
<1>2. ForwardPhase'
  BY <1>1 DEF RegInv, ForwardPhase
<1>3. BeingForwarded'
  BY <1>1 DEF RegInv, BeingForwarded
<1>4. RegisteredFollowsCount'
  BY <1>1 DEF RegInv, RegisteredFollowsCount, BeingForwarded
<1> QED BY <1>2, <1>3, <1>4 DEF RegInv

LEMMA ForwardReg ==
  ASSUME RegInv, Types', NEW p \in Params, NEW ok \in BOOLEAN, NEW reached \in BOOLEAN,
         Register(p, ok, reached) \/ Unregister(p, ok, reached)
  PROVE  RegInv'
<1>1. /\ UNCHANGED <<worker, count, subscribed, dtor, backendDown>>
      /\ worker \in {"register", "unregister"}
      /\ name = {} /\ p \in forward /\ forward' = forward \ {p}
      /\ ok => reached
      /\ failed' = IF ok THEN failed ELSE failed \cup {p}
      /\ name' = IF ok THEN {p} ELSE {}
      /\ \A x \in Params \ {p} : x \in registered' <=> x \in registered
      /\ reached => (p \in registered' <=> worker = "register")
  BY DEF Register, Unregister
<1>2. ForwardPhase'
  BY <1>1 DEF RegInv, ForwardPhase
<1>3. BeingForwarded'
  BY <1>1 DEF RegInv, BeingForwarded
<1>4. RegisteredFollowsCount'
  BY <1>1 DEF RegInv, RegisteredFollowsCount
<1> QED BY <1>2, <1>3, <1>4 DEF RegInv

LEMMA TrackReg ==
  ASSUME RegInv, Types', Track \/ Untrack
  PROVE  RegInv'
<1>1. /\ UNCHANGED <<worker, count, forward, registered, failed, dtor, backendDown>>
      /\ worker \in {"register", "unregister"} /\ name' = {} /\ count \in [Params -> Nat]
      /\ \A x \in Params \ name : x \in subscribed' <=> x \in subscribed
      /\ \A x \in name : x \in subscribed' <=> worker = "register"
  BY DEF Track, Untrack, Untracked, RegInv, Types
<1>2. ForwardPhase'
  BY <1>1 DEF RegInv, ForwardPhase
<1>3. BeingForwarded'
  BY <1>1 DEF RegInv, ForwardPhase, BeingForwarded
<1>4. RegisteredFollowsCount'
  BY <1>1 DEF RegInv, RegisteredFollowsCount, BeingForwarded
<1> QED BY <1>2, <1>3, <1>4 DEF RegInv

LEMMA RegStep == RegInv /\ [Next]_vars => RegInv'
<1> SUFFICES ASSUME RegInv, [Next]_vars PROVE RegInv'
  OBVIOUS
<1>1. Types /\ Types'
  BY TypesStep DEF RegInv
<1>2. CASE UNCHANGED vars
  BY <1>1, <1>2, RegFrame DEF vars
<1>3. ASSUME NEW tr \in Transports, Clients(tr)  PROVE RegInv'
  BY <1>1, <1>3, RegFrame
  DEF Clients, ClientRequest, FirstSubscribers, LastUnsubscribers, Call
<1>4. ASSUME NEW tr \in Transports, EnqueueParameterOp(tr)  PROVE RegInv'
  <2>1. worker' = worker \/ worker = "asleep"
    BY <1>4 DEF EnqueueParameterOp, Enqueue, Woken
  <2>2. worker = "asleep" => forward = {} /\ name = {}
    BY DEF RegInv, ForwardPhase
  <2> QED BY <1>1, <1>4, <2>1, <2>2, RegFrame DEF EnqueueParameterOp
<1>5. CASE \/ WorkerSleep \/ WorkerExit \/ WorkerPop
           \/ \E ok \in BOOLEAN : HandleGetParams(ok)
           \/ HandleSetNone \/ HandleSetParams \/ EchoParams
  <2>1. worker \in {"check", "handle", "echo"}
    BY <1>5 DEF WorkerSleep, WorkerExit, WorkerPop, HandleGetParams, HandleSetNone,
                HandleSetParams, EchoParams
  <2>2. forward = {} /\ name = {}
    BY <2>1 DEF RegInv, ForwardPhase
  <2> QED BY <1>1, <1>5, <2>2, RegFrame
          DEF WorkerSleep, WorkerExit, WorkerPop, HandleGetParams, HandleSetNone,
              HandleSetParams, EchoParams
<1>6. CASE HandleSubscribeParams
  BY <1>1, <1>6, HandleSubscribeReg
<1>7. CASE HandleUnsubscribeParams
  BY <1>1, <1>7, HandleUnsubscribeReg
<1>8. CASE SubscribeParams
  BY <1>1, <1>8, SubscribeParamsReg
<1>9. ASSUME NEW p \in Params, NEW ok \in BOOLEAN, NEW reached \in BOOLEAN,
             Register(p, ok, reached) \/ Unregister(p, ok, reached)
      PROVE  RegInv'
  BY <1>1, <1>9, ForwardReg
<1>10. CASE Track \/ Untrack
  BY <1>1, <1>10, TrackReg
<1>11. CASE ForwardDone
  BY <1>1, <1>11, RegFrame DEF ForwardDone
<1>12. CASE SetParamUpdateCallback \/ Updates
  BY <1>1, <1>12, RegFrame
  DEF SetParamUpdateCallback, Updates, ParameterUpdate, UpdatePublished
<1>13. CASE BackendShutdown
  BY <1>1, <1>13, RegFrame DEF BackendShutdown
<1>14. CASE Stopping
  <2>1. dtor # "none" /\ dtor' # "none"
    BY <1>14 DEF Stopping, Leave, StopXmlRpc, StopTransports, DrainQueue, JoinWorker
  <2>2. ForwardPhase'
    <3>1. UNCHANGED <<forward, name>>
      BY <1>14 DEF Stopping, Leave, StopXmlRpc, StopTransports, DrainQueue, JoinWorker
    <3>2. worker' = worker \/ worker = "asleep"
      BY <1>14 DEF Stopping, Leave, StopXmlRpc, StopTransports, DrainQueue, JoinWorker,
                   WokenByStop, Woken
    <3> QED BY <2>1, <3>1, <3>2 DEF RegInv, ForwardPhase
  <2> QED BY <1>1, <2>1, <2>2 DEF RegInv, BeingForwarded, RegisteredFollowsCount
<1> QED BY <1>2, <1>3, <1>4, <1>5, <1>6, <1>7, <1>8, <1>9, <1>10, <1>11, <1>12,
           <1>13, <1>14
        DEF Next, Worker

(* The master's registrations and _subscribedParams follow the count that   *)
(* both transports share, for any number of them, however subscriptions,    *)
(* unsubscriptions and failing master calls interleave.                     *)
THEOREM RegistrationsFollowCount == Spec => []RegisteredFollowsCount
<1>1. Init => RegInv
  BY TypesInit DEF Init, RegInv, ForwardPhase, BeingForwarded, RegisteredFollowsCount
<1>2. RegInv => RegisteredFollowsCount
  BY DEF RegInv
<1> QED BY <1>1, <1>2, RegStep, PTL DEF Spec

-----------------------------------------------------------------------------
(* Counting over transports and over the end of a queue *)

(* The operations of a kind on p in q, from its k-th on.                    *)
From(k, q, kind, p) == {i \in DOMAIN q : i >= k /\ q[i].kind = kind /\ p \in q[i].names}
Queued(k, q, kind, p) == Cardinality(From(k, q, kind, p))
Asking(kind, p) == {tr \in Transports : call[tr].kind = kind /\ p \in call[tr].names}
Wanting(p) == {tr \in Transports : p \in wants[tr]}
One(kind, p, o) == IF o.kind = kind /\ p \in o.names THEN 1 ELSE 0

LEMMA FromFinite ==
  ASSUME NEW q \in Seq(Op), NEW k \in Nat, NEW kind, NEW p
  PROVE  IsFiniteSet(From(k, q, kind, p)) /\ Queued(k, q, kind, p) \in Nat
<1>1. IsFiniteSet(1..Len(q))
  BY FS_Interval
<1>2. From(k, q, kind, p) \in SUBSET (1..Len(q))
  BY DEF From
<1>3. IsFiniteSet(From(k, q, kind, p))
  BY <1>1, <1>2, FS_Subset
<1> QED BY <1>3, FS_CardinalityType DEF Queued

LEMMA QueuedAppend ==
  ASSUME NEW q \in Seq(Op), NEW o \in Op, NEW k \in 1..(Len(q) + 1), NEW kind, NEW p
  PROVE  Queued(k, Append(q, o), kind, p) = Queued(k, q, kind, p) + One(kind, p, o)
<1> DEFINE r == Append(q, o)
           S == From(k, q, kind, p)
<1>1. /\ DOMAIN r = 1..(Len(q) + 1) /\ r[Len(q) + 1] = o
      /\ \A i \in 1..Len(q) : r[i] = q[i]
      /\ DOMAIN q = 1..Len(q) /\ Len(q) \in Nat
  OBVIOUS
<1>2. IsFiniteSet(S) /\ Queued(k, q, kind, p) \in Nat
  BY FromFinite
<1>3. CASE o.kind = kind /\ p \in o.names
  <2>1. From(k, r, kind, p) = S \cup {Len(q) + 1} /\ Len(q) + 1 \notin S
    BY <1>1, <1>3 DEF From
  <2> QED BY <1>2, <1>3, <2>1, FS_AddElement DEF Queued, One
<1>4. CASE ~(o.kind = kind /\ p \in o.names)
  <2>1. From(k, r, kind, p) = S
    BY <1>1, <1>4 DEF From
  <2> QED BY <1>2, <1>4, <2>1 DEF Queued, One
<1> QED BY <1>3, <1>4

LEMMA QueuedNone ==
  ASSUME NEW q \in Seq(Op), NEW k \in Nat, k > Len(q), NEW kind, NEW p
  PROVE  Queued(k, q, kind, p) = 0
<1>1. From(k, q, kind, p) = {}
  BY DEF From
<1> QED BY <1>1, FS_EmptySet DEF Queued

LEMMA QueuedHead ==
  ASSUME NEW q \in Seq(Op), q # <<>>, NEW kind, NEW p
  PROVE  Queued(1, q, kind, p) = Queued(2, q, kind, p) + One(kind, p, Head(q))
<1>1. 1 \in DOMAIN q /\ Head(q) = q[1] /\ DOMAIN q \subseteq Nat \ {0}
  OBVIOUS
<1>2. IsFiniteSet(From(2, q, kind, p)) /\ Queued(2, q, kind, p) \in Nat
  BY FromFinite
<1>3. CASE q[1].kind = kind /\ p \in q[1].names
  <2>1. From(1, q, kind, p) = From(2, q, kind, p) \cup {1} /\ 1 \notin From(2, q, kind, p)
    BY <1>1, <1>3 DEF From
  <2> QED BY <1>1, <1>2, <1>3, <2>1, FS_AddElement DEF Queued, One
<1>4. CASE ~(q[1].kind = kind /\ p \in q[1].names)
  <2>1. From(1, q, kind, p) = From(2, q, kind, p)
    BY <1>1, <1>4 DEF From
  <2> QED BY <1>1, <1>2, <1>4, <2>1 DEF Queued, One
<1> QED BY <1>3, <1>4

LEMMA QueuedTail ==
  ASSUME NEW q \in Seq(Op), q # <<>>, NEW k \in Nat \ {0}, NEW kind, NEW p
  PROVE  Queued(k, Tail(q), kind, p) = Queued(k + 1, q, kind, p)
<1> DEFINE S == From(k, Tail(q), kind, p)
           T == From(k + 1, q, kind, p)
           f == [i \in S |-> i + 1]
<1>1. /\ DOMAIN Tail(q) = 1..(Len(q) - 1) /\ DOMAIN q = 1..Len(q) /\ Len(q) \in Nat \ {0}
      /\ \A i \in 1..(Len(q) - 1) : Tail(q)[i] = q[i + 1]
  OBVIOUS
<1>2. S \subseteq Nat /\ IsFiniteSet(S)
  <2>1. Tail(q) \in Seq(Op) /\ k \in Nat
    OBVIOUS
  <2>2. IsFiniteSet(From(k, Tail(q), kind, p))
    BY <2>1, FromFinite
  <2>3. From(k, Tail(q), kind, p) \subseteq Nat
    BY <1>1 DEF From
  <2> QED BY <2>2, <2>3
<1>3. \A i \in S : i + 1 \in T
  BY <1>1 DEF From
<1>4. \A j \in T : j - 1 \in S /\ (j - 1) + 1 = j
  BY <1>1 DEF From
<1> HIDE DEF S, T
<1>5. f \in [S -> T]
  BY <1>3
<1>6. \A a, b \in S : f[a] = f[b] => a = b
  BY <1>2
<1>7. \A j \in T : \E i \in S : f[i] = j
  BY <1>4
<1> HIDE DEF f
<1>8. f \in Bijection(S, T)
  BY <1>5, <1>6, <1>7 DEF Bijection, Injection, Surjection, IsInjective
<1>9. Cardinality(S) = Cardinality(T)
  BY <1>2, <1>8, FS_Bijection DEF ExistsBijection
<1> QED BY <1>9 DEF S, T, Queued

-----------------------------------------------------------------------------
(* The shared count *)

NT == Cardinality(Transports)

(* What an operation takes off the count.                                   *)
Net(p, o) == One("unsubscribe", p, o) - One("subscribe", p, o)
QueuedNet(k, q, p) == Queued(k, q, "unsubscribe", p) - Queued(k, q, "subscribe", p)
TakenNet(p) == IF worker = "handle" THEN Net(p, op) ELSE 0

(* The count that the transports had when their callbacks began.            *)
Enqueued(p) == Cardinality(Wanting(p)) + Cardinality(Asking("unsubscribe", p))
                 - Cardinality(Asking("subscribe", p))

(* A running callback has already changed its transport's own record.       *)
AskedIsRecorded ==
  \A tr \in Transports, p \in Params :
    /\ tr \in Asking("subscribe", p) => tr \in Wanting(p)
    /\ tr \in Asking("unsubscribe", p) => tr \notin Wanting(p)

(* The count is what the transports want, less what is still to come; and   *)
(* it will be a number of transports after each of the queued operations.   *)
NeverDrifts(p) ==
  /\ count[p] = Enqueued(p) + QueuedNet(1, queue, p) + TakenNet(p)
  /\ \A k \in 1..(Len(queue) + 1) : Enqueued(p) + QueuedNet(k, queue, p) \in 0..NT

(* The operation that the worker has taken leaves the count in its range.   *)
CountBounded(p) ==
  count[p] \in 0..NT /\ (worker = "handle" => count[p] - Net(p, op) \in 0..NT)

CountInv ==
  /\ Types /\ AskedIsRecorded
  /\ opShutdown => queue = <<>>
  /\ opShutdown \/ \A p \in Params : NeverDrifts(p)
  /\ \A p \in Params : CountBounded(p)

LEMMA Finiteness ==
  ASSUME NEW p, NEW kind
  PROVE  /\ IsFiniteSet(Asking(kind, p)) /\ Cardinality(Asking(kind, p)) \in Nat
         /\ IsFiniteSet(Wanting(p)) /\ Cardinality(Wanting(p)) \in Nat
         /\ NT \in Nat
<1>1. Asking(kind, p) \in SUBSET Transports /\ Wanting(p) \in SUBSET Transports
  BY DEF Asking, Wanting
<1>2. IsFiniteSet(Asking(kind, p)) /\ IsFiniteSet(Wanting(p)) /\ IsFiniteSet(Transports)
  BY <1>1, ParamAssumption, FS_Subset
<1> QED BY <1>2, FS_CardinalityType DEF NT

(* Callbacks of a kind on p come from different transports.                 *)
LEMMA EnqueuedInRange ==
  AskedIsRecorded => \A p \in Params : Enqueued(p) \in 0..NT
<1> SUFFICES ASSUME AskedIsRecorded, NEW p \in Params  PROVE Enqueued(p) \in 0..NT
  OBVIOUS
<1> DEFINE W == Wanting(p)
           A == Asking("unsubscribe", p)
           S == Asking("subscribe", p)
<1>1. /\ S \in SUBSET W /\ W \cap A = {} /\ W \cup A \in SUBSET Transports
  BY DEF AskedIsRecorded, Asking, Wanting
<1>2. /\ IsFiniteSet(W) /\ Cardinality(W) \in Nat
      /\ IsFiniteSet(A) /\ Cardinality(A) \in Nat /\ NT \in Nat
      /\ Cardinality(S) \in Nat
  BY Finiteness
<1>3. Cardinality(S) <= Cardinality(W)
  BY <1>1, <1>2, FS_Subset
<1>4. Cardinality(W \cup A) <= NT
  BY <1>1, ParamAssumption, FS_Subset DEF NT
<1>5. Cardinality(W \cup A) = Cardinality(W) + Cardinality(A) - Cardinality({})
  BY <1>1, <1>2, FS_Union
<1>6. Cardinality({}) = 0
  BY FS_EmptySet
<1> QED BY <1>2, <1>3, <1>4, <1>5, <1>6 DEF Enqueued

LEMMA NetTypes ==
  ASSUME NEW p
  PROVE  /\ Enqueued(p) \in Int /\ TakenNet(p) \in {-1, 0, 1} /\ NT \in Nat
         /\ \A o : Net(p, o) \in {-1, 0, 1}
<1>1. Enqueued(p) \in Int /\ NT \in Nat
  BY Finiteness DEF Enqueued
<1>2. \A o : Net(p, o) \in {-1, 0, 1}
  BY DEF Net, One
<1> QED BY <1>1, <1>2 DEF TakenNet

LEMMA QueuedNetType ==
  ASSUME NEW q \in Seq(Op), NEW k \in Nat, NEW p
  PROVE  QueuedNet(k, q, p) \in Int
  BY FromFinite DEF QueuedNet

LEMMA QueuedNetAppend ==
  ASSUME NEW q \in Seq(Op), NEW o \in Op, NEW k \in 1..(Len(q) + 1), NEW p
  PROVE  QueuedNet(k, Append(q, o), p) = QueuedNet(k, q, p) + Net(p, o)
<1>1. k \in Nat
  OBVIOUS
<1>2. /\ Queued(k, q, "subscribe", p) \in Nat /\ Queued(k, q, "unsubscribe", p) \in Nat
      /\ One("subscribe", p, o) \in Nat /\ One("unsubscribe", p, o) \in Nat
  BY <1>1, FromFinite DEF One
<1>3. /\ Queued(k, Append(q, o), "subscribe", p)
           = Queued(k, q, "subscribe", p) + One("subscribe", p, o)
      /\ Queued(k, Append(q, o), "unsubscribe", p)
           = Queued(k, q, "unsubscribe", p) + One("unsubscribe", p, o)
  BY QueuedAppend
<1> QED BY <1>2, <1>3 DEF QueuedNet, Net

LEMMA QueuedNetNone ==
  ASSUME NEW q \in Seq(Op), NEW k \in Nat, k > Len(q), NEW p
  PROVE  QueuedNet(k, q, p) = 0
  BY QueuedNone DEF QueuedNet

LEMMA QueuedNetHead ==
  ASSUME NEW q \in Seq(Op), q # <<>>, NEW p
  PROVE  QueuedNet(1, q, p) = QueuedNet(2, q, p) + Net(p, Head(q))
<1>1. /\ Queued(2, q, "subscribe", p) \in Nat /\ Queued(2, q, "unsubscribe", p) \in Nat
      /\ One("subscribe", p, Head(q)) \in Nat /\ One("unsubscribe", p, Head(q)) \in Nat
  BY FromFinite DEF One
<1>2. /\ Queued(1, q, "subscribe", p)
           = Queued(2, q, "subscribe", p) + One("subscribe", p, Head(q))
      /\ Queued(1, q, "unsubscribe", p)
           = Queued(2, q, "unsubscribe", p) + One("unsubscribe", p, Head(q))
  BY QueuedHead
<1> QED BY <1>1, <1>2 DEF QueuedNet, Net

LEMMA QueuedNetTail ==
  ASSUME NEW q \in Seq(Op), q # <<>>, NEW k \in Nat \ {0}, NEW p
  PROVE  QueuedNet(k, Tail(q), p) = QueuedNet(k + 1, q, p)
  BY QueuedTail DEF QueuedNet

LEMMA CountFrame ==
  ASSUME CountInv, Types', UNCHANGED <<queue, count, opShutdown>>,
         AskedIsRecorded', \A p \in Params : Enqueued(p)' = Enqueued(p),
         \/ UNCHANGED <<worker, op>>
         \/ /\ worker' # "handle"
            /\ worker = "handle" => op.kind \notin {"subscribe", "unsubscribe"}
  PROVE  CountInv'
<1>1. ASSUME NEW p \in Params
      PROVE  /\ TakenNet(p)' = TakenNet(p)
             /\ \A k : QueuedNet(k, queue, p)' = QueuedNet(k, queue, p)
  BY DEF TakenNet, Net, One
<1>2. ASSUME ~opShutdown', NEW p \in Params PROVE NeverDrifts(p)'
  BY <1>1, <1>2 DEF CountInv, NeverDrifts
<1>3. \A p \in Params : CountBounded(p)'
  BY DEF CountInv, CountBounded, Net, One
<1> QED BY <1>2, <1>3 DEF CountInv

(* The steps that leave the transports alone.                               *)
LEMMA TransportsSame ==
  ASSUME CountInv, UNCHANGED <<wants, call>>
  PROVE  AskedIsRecorded' /\ \A p \in Params : Enqueued(p)' = Enqueued(p)
  BY DEF CountInv, AskedIsRecorded, Enqueued, Wanting, Asking

(* A callback that changes what its transport wants asks for just that.     *)
LEMMA CallCounts ==
  ASSUME CountInv, Types', NEW tr \in Transports, Clients(tr)
  PROVE  CountInv'
<1>1. PICK kind \in Kinds, names \in SUBSET Params :
        /\ Call(tr, kind, names)
        /\ \/ kind \in Requests /\ wants' = wants
           \/ /\ kind = "subscribe" /\ names \cap wants[tr] = {}
              /\ wants' = [wants EXCEPT ![tr] = @ \cup names]
           \/ /\ kind = "unsubscribe" /\ names \subseteq wants[tr]
              /\ wants' = [wants EXCEPT ![tr] = @ \ names]
  BY DEF Clients, ClientRequest, FirstSubscribers, LastUnsubscribers, Kinds
<1>2. /\ call[tr] = NoOp /\ call'[tr].kind = kind /\ call'[tr].names = names
      /\ \A x \in Transports : x # tr => call'[x] = call[x]
      /\ UNCHANGED <<queue, count, worker, op, opShutdown>>
  BY <1>1 DEF Call, CountInv, Types, opVars, workVars
<1>3. /\ wants \in [Transports -> SUBSET Params]
      /\ \A x \in Transports : x # tr => wants'[x] = wants[x]
  BY <1>1 DEF CountInv, Types
<1>4. NoOp.names = {}
  BY DEF NoOp
<1>5. ASSUME NEW p \in Params
      PROVE  \/ /\ Asking("subscribe", p)' = Asking("subscribe", p) \cup {tr}
                /\ tr \notin Asking("subscribe", p)
                /\ Asking("unsubscribe", p)' = Asking("unsubscribe", p)
                /\ tr \notin Asking("unsubscribe", p)
                /\ Wanting(p)' = Wanting(p) \cup {tr} /\ tr \notin Wanting(p)
             \/ /\ Asking("unsubscribe", p)' = Asking("unsubscribe", p) \cup {tr}
                /\ tr \notin Asking("unsubscribe", p)
                /\ Asking("subscribe", p)' = Asking("subscribe", p)
                /\ tr \notin Asking("subscribe", p)
                /\ Wanting(p)' = Wanting(p) \ {tr} /\ tr \in Wanting(p)
             \/ /\ Asking("subscribe", p)' = Asking("subscribe", p)
                /\ Asking("unsubscribe", p)' = Asking("unsubscribe", p)
                /\ Wanting(p)' = Wanting(p)
  <2>1. CASE p \in names /\ kind = "subscribe"
    BY <1>1, <1>2, <1>3, <1>4, <2>1 DEF Asking, Wanting, Requests
  <2>2. CASE p \in names /\ kind = "unsubscribe"
    BY <1>1, <1>2, <1>3, <1>4, <2>2 DEF Asking, Wanting, Requests
  <2>3. CASE p \notin names \/ kind \in Requests
    <3>1. /\ Asking("subscribe", p)' = Asking("subscribe", p)
          /\ Asking("unsubscribe", p)' = Asking("unsubscribe", p)
      BY <1>2, <1>4, <2>3 DEF Asking, Requests
    <3>2. Wanting(p)' = Wanting(p)
      BY <1>1, <1>3, <2>3 DEF Wanting, Requests
    <3> QED BY <3>1, <3>2
  <2> QED BY <2>1, <2>2, <2>3 DEF Kinds
<1>6. AskedIsRecorded'
  <2> SUFFICES ASSUME NEW x \in Transports, NEW p \in Params
               PROVE  /\ x \in Asking("subscribe", p)' => x \in Wanting(p)'
                      /\ x \in Asking("unsubscribe", p)' => x \notin Wanting(p)'
    BY DEF AskedIsRecorded
  <2>1. /\ x \in Asking("subscribe", p) => x \in Wanting(p)
        /\ x \in Asking("unsubscribe", p) => x \notin Wanting(p)
    BY DEF CountInv, AskedIsRecorded
  <2> QED BY <1>5, <2>1, Zenon
<1>7. ASSUME NEW p \in Params  PROVE Enqueued(p)' = Enqueued(p)
  <2> DEFINE S == Asking("subscribe", p)
             U == Asking("unsubscribe", p)
             W == Wanting(p)
  <2>1. /\ IsFiniteSet(S) /\ IsFiniteSet(W) /\ IsFiniteSet(U)
        /\ Cardinality(S) \in Nat /\ Cardinality(W) \in Nat /\ Cardinality(U) \in Nat
    BY Finiteness
  <2>2. /\ tr \notin W => Cardinality(W \cup {tr}) = Cardinality(W) + 1
        /\ tr \in W => Cardinality(W \ {tr}) = Cardinality(W) - 1
        /\ tr \notin S => Cardinality(S \cup {tr}) = Cardinality(S) + 1
        /\ tr \notin U => Cardinality(U \cup {tr}) = Cardinality(U) + 1
    BY <2>1, FS_AddElement, FS_RemoveElement
  <2>3. /\ Enqueued(p) = Cardinality(W) + Cardinality(U) - Cardinality(S)
        /\ Enqueued(p)' = Cardinality(W') + Cardinality(U') - Cardinality(S')
    BY DEF Enqueued
  <2>4. \/ Cardinality(W') = Cardinality(W) + 1 /\ Cardinality(S') = Cardinality(S) + 1
           /\ Cardinality(U') = Cardinality(U)
        \/ Cardinality(W') = Cardinality(W) - 1 /\ Cardinality(U') = Cardinality(U) + 1
           /\ Cardinality(S') = Cardinality(S)
        \/ Cardinality(W') = Cardinality(W) /\ Cardinality(U') = Cardinality(U)
           /\ Cardinality(S') = Cardinality(S)
    BY <1>5, <2>2, Zenon
  <2> QED BY <2>1, <2>3, <2>4
<1> QED BY <1>2, <1>6, <1>7, CountFrame

(* From the callback to the end of the queue.                               *)
LEMMA EnqueueCounts ==
  ASSUME CountInv, Types', NEW tr \in Transports, EnqueueParameterOp(tr)
  PROVE  CountInv'
<1> DEFINE o == call[tr]
<1>1. /\ o \in Op /\ call'[tr] = NoOp /\ queue \in Seq(Op)
      /\ \A x \in Transports : x # tr => call'[x] = call[x]
      /\ UNCHANGED <<wants, count, op, opShutdown>>
  BY DEF EnqueueParameterOp, CountInv, Types, workVars
<1>2. NoOp.names = {}
  BY DEF NoOp
<1>3. ASSUME NEW p
      PROVE  /\ Asking("subscribe", p)' = Asking("subscribe", p) \ {tr}
             /\ Asking("unsubscribe", p)' = Asking("unsubscribe", p) \ {tr}
             /\ tr \in Asking("subscribe", p) <=> o.kind = "subscribe" /\ p \in o.names
             /\ tr \in Asking("unsubscribe", p) <=> o.kind = "unsubscribe" /\ p \in o.names
             /\ Wanting(p)' = Wanting(p)
  BY <1>1, <1>2 DEF Asking, Wanting
<1>4. AskedIsRecorded'
  <2> SUFFICES ASSUME NEW x \in Transports, NEW p \in Params
               PROVE  /\ x \in Asking("subscribe", p)' => x \in Wanting(p)'
                      /\ x \in Asking("unsubscribe", p)' => x \notin Wanting(p)'
    BY DEF AskedIsRecorded
  <2>1. /\ x \in Asking("subscribe", p) => x \in Wanting(p)
        /\ x \in Asking("unsubscribe", p) => x \notin Wanting(p)
    BY DEF CountInv, AskedIsRecorded
  <2> QED BY <1>3, <2>1
<1>a. (\A p \in Params : Enqueued(p) \in 0..NT)'
  BY <1>4, EnqueuedInRange, PTL
<1>5. UNCHANGED worker \/ (worker' # "handle" /\ worker # "handle")
  BY DEF EnqueueParameterOp, Enqueue, Woken
<1>6. ASSUME NEW p \in Params  PROVE CountBounded(p)'
  BY <1>1, <1>5 DEF CountInv, CountBounded
<1>7. ASSUME ~opShutdown, NEW p \in Params  PROVE NeverDrifts(p)'
  <2>1. queue' = Append(queue, o) /\ NeverDrifts(p)
    BY <1>7 DEF EnqueueParameterOp, Enqueue, CountInv
  <2>2. Enqueued(p)' = Enqueued(p) - Net(p, o)
    <3> DEFINE S == Asking("subscribe", p)
               U == Asking("unsubscribe", p)
    <3>1. /\ IsFiniteSet(S) /\ IsFiniteSet(U) /\ Cardinality(Wanting(p)) \in Nat
          /\ Cardinality(S) \in Nat /\ Cardinality(U) \in Nat
      BY Finiteness
    <3>2. /\ Cardinality(S \ {tr}) = Cardinality(S) - One("subscribe", p, o)
          /\ Cardinality(U \ {tr}) = Cardinality(U) - One("unsubscribe", p, o)
      <4>1. /\ Cardinality(S \ {tr}) = IF tr \in S THEN Cardinality(S) - 1 ELSE Cardinality(S)
            /\ Cardinality(U \ {tr}) = IF tr \in U THEN Cardinality(U) - 1 ELSE Cardinality(U)
        BY <3>1, FS_RemoveElement
      <4>2. /\ One("subscribe", p, o) = IF tr \in S THEN 1 ELSE 0
            /\ One("unsubscribe", p, o) = IF tr \in U THEN 1 ELSE 0
        BY <1>3 DEF One
      <4> HIDE DEF S, U, o
      <4> QED BY <3>1, <4>1, <4>2
    <3>3. Enqueued(p)' = Cardinality(Wanting(p)) + Cardinality(U \ {tr}) - Cardinality(S \ {tr})
      BY <1>3 DEF Enqueued
    <3>4. One("subscribe", p, o) \in Nat /\ One("unsubscribe", p, o) \in Nat
      BY DEF One
    <3>5. Enqueued(p) = Cardinality(Wanting(p)) + Cardinality(U) - Cardinality(S)
      BY DEF Enqueued
    <3> HIDE DEF S, U, o
    <3> QED BY <3>1, <3>2, <3>3, <3>4, <3>5 DEF Net
  <2>3. /\ Enqueued(p) \in Int /\ Net(p, o) \in Int /\ TakenNet(p) \in Int /\ NT \in Nat
        /\ TakenNet(p)' = TakenNet(p) /\ Enqueued(p)' \in 0..NT
    <3>1. TakenNet(p)' = TakenNet(p)
      BY <1>1, <1>5 DEF TakenNet, Net, One
    <3>2. Enqueued(p)' \in 0..NT
      BY <1>a DEF NT
    <3>3. Net(p, o) \in Int /\ TakenNet(p) \in Int
      <4>1. Net(p, o) \in {-1, 0, 1} /\ TakenNet(p) \in {-1, 0, 1}
        BY NetTypes
      <4> QED BY <4>1
    <3> QED BY <3>1, <3>2, <3>3, NetTypes
  <2>4. \A k \in 1..(Len(queue) + 1) :
          /\ QueuedNet(k, queue', p) = QueuedNet(k, queue, p) + Net(p, o)
          /\ QueuedNet(k, queue, p) \in Int
    BY <1>1, <2>1, QueuedNetAppend, QueuedNetType
  <2>5. Len(queue') = Len(queue) + 1 /\ Len(queue) \in Nat /\ queue' \in Seq(Op)
    BY <1>1, <2>1
  <2>6. QueuedNet(Len(queue) + 2, queue', p) = 0
    <3>1. Len(queue) + 2 \in Nat /\ Len(queue) + 2 > Len(queue')
      BY <2>5
    <3> QED BY <2>5, <3>1, QueuedNetNone
  <2>7. /\ count[p] = Enqueued(p) + QueuedNet(1, queue, p) + TakenNet(p)
        /\ \A k \in 1..(Len(queue) + 1) : Enqueued(p) + QueuedNet(k, queue, p) \in 0..NT
    BY <2>1 DEF NeverDrifts
  <2>8. count'[p] = Enqueued(p)' + QueuedNet(1, queue', p) + TakenNet(p)'
    <3>1. /\ QueuedNet(1, queue', p) = QueuedNet(1, queue, p) + Net(p, o)
          /\ QueuedNet(1, queue, p) \in Int
      BY <2>4, <2>5
    <3>2. count'[p] = Enqueued(p) + QueuedNet(1, queue, p) + TakenNet(p)
      BY <1>1, <2>7
    <3> HIDE DEF o
    <3> QED BY <2>2, <2>3, <3>1, <3>2
  <2>9. ASSUME NEW k \in 1..(Len(queue') + 1)
        PROVE  Enqueued(p)' + QueuedNet(k, queue', p) \in 0..NT
    <3>1. CASE k = Len(queue) + 2
      BY <2>3, <2>6, <3>1
    <3>2. CASE k \in 1..(Len(queue) + 1)
      BY <2>2, <2>3, <2>4, <2>7, <3>2
    <3> QED BY <2>5, <3>1, <3>2
  <2> QED BY <2>8, <2>9 DEF NeverDrifts, NT
<1>8. opShutdown => queue' = <<>>
  BY DEF CountInv, EnqueueParameterOp, Enqueue
<1> QED BY <1>1, <1>4, <1>6, <1>7, <1>8 DEF CountInv

LEMMA PopCounts ==
  ASSUME CountInv, Types', WorkerPop
  PROVE  CountInv'
<1>1. /\ UNCHANGED <<wants, call, count, opShutdown>>
      /\ queue # <<>> /\ queue \in Seq(Op) /\ queue' = Tail(queue)
      /\ worker = "check" /\ worker' = "handle" /\ op' = Head(queue)
  BY DEF WorkerPop, CountInv, Types, sdkVars
<1>2. AskedIsRecorded' /\ \A p \in Params : Enqueued(p)' = Enqueued(p)
  BY <1>1, TransportsSame
<1>3. ~opShutdown
  BY <1>1 DEF CountInv
<1>4. Len(queue) \in Nat \ {0} /\ Len(queue') = Len(queue) - 1
  BY <1>1
<1>5. ASSUME NEW p \in Params  PROVE NeverDrifts(p)' /\ CountBounded(p)'
  <2> DEFINE n == Net(p, Head(queue))
  <2>1. /\ count[p] = Enqueued(p) + QueuedNet(1, queue, p)
        /\ \A k \in 1..(Len(queue) + 1) : Enqueued(p) + QueuedNet(k, queue, p) \in 0..NT
    <3>1. /\ count[p] = Enqueued(p) + QueuedNet(1, queue, p) + TakenNet(p)
          /\ \A k \in 1..(Len(queue) + 1) : Enqueued(p) + QueuedNet(k, queue, p) \in 0..NT
      BY <1>3 DEF CountInv, NeverDrifts
    <3>2. Enqueued(p) \in Int /\ QueuedNet(1, queue, p) \in Int /\ TakenNet(p) = 0
      BY <1>1, NetTypes, QueuedNetType DEF TakenNet
    <3> QED BY <3>1, <3>2
  <2>2. /\ QueuedNet(1, queue, p) = QueuedNet(2, queue, p) + n
        /\ \A k \in Nat \ {0} : QueuedNet(k, queue', p) = QueuedNet(k + 1, queue, p)
    BY <1>1, QueuedNetHead, QueuedNetTail
  <2>3. TakenNet(p)' = n
    BY <1>1 DEF TakenNet, Net, One
  <2>4. Enqueued(p) \in Int /\ NT \in Nat /\ n \in Int /\ QueuedNet(2, queue, p) \in Int
    <3>1. n \in {-1, 0, 1}
      BY NetTypes
    <3>2. n \in Int
      BY <3>1
    <3> QED BY <1>1, <3>2, NetTypes, QueuedNetType
  <2> HIDE DEF n
  <2>5. count'[p] = Enqueued(p)' + QueuedNet(1, queue', p) + TakenNet(p)'
    <3>1. QueuedNet(1, queue', p) = QueuedNet(2, queue, p)
      BY <2>2
    <3>2. count'[p] = Enqueued(p) + QueuedNet(1, queue, p) /\ Enqueued(p)' = Enqueued(p)
      BY <1>1, <1>2, <2>1
    <3> QED BY <2>2, <2>3, <2>4, <3>1, <3>2
  <2>6. \A k \in 1..(Len(queue') + 1) : Enqueued(p)' + QueuedNet(k, queue', p) \in 0..NT
    <3> SUFFICES ASSUME NEW k \in 1..(Len(queue') + 1)
                 PROVE  Enqueued(p)' + QueuedNet(k, queue', p) \in 0..NT
      OBVIOUS
    <3>1. k + 1 \in 1..(Len(queue) + 1) /\ k \in Nat \ {0}
      BY <1>4
    <3> QED BY <1>2, <2>1, <2>2, <3>1
  <2>7. count'[p] - n \in 0..NT
    <3>1. Enqueued(p) + QueuedNet(2, queue, p) \in 0..NT
      BY <1>4, <2>1
    <3>2. count'[p] = Enqueued(p) + QueuedNet(1, queue, p)
      BY <1>1, <2>1
    <3> QED BY <2>2, <2>4, <3>1, <3>2
  <2>8. count'[p] \in 0..NT
    BY <1>1 DEF CountInv, CountBounded
  <2>9. NeverDrifts(p)'
    BY <2>5, <2>6 DEF NeverDrifts, NT
  <2>10. CountBounded(p)'
    BY <1>1, <2>7, <2>8 DEF CountBounded, NT, n, Net, One
  <2> QED BY <2>9, <2>10
<1> QED BY <1>1, <1>2, <1>3, <1>5 DEF CountInv

(* Counting takes effect what the worker had taken.                         *)
LEMMA HandleCounts ==
  ASSUME CountInv, Types', HandleSubscribeParams \/ HandleUnsubscribeParams
  PROVE  CountInv'
<1>1. /\ UNCHANGED <<wants, call, queue, opShutdown>>
      /\ worker = "handle" /\ worker' # "handle" /\ count \in [Params -> Nat]
  BY DEF HandleSubscribeParams, HandleUnsubscribeParams, Handled, CountInv, Types,
         sdkVars, opVars
<1>2. AskedIsRecorded' /\ \A p \in Params : Enqueued(p)' = Enqueued(p)
  BY <1>1, TransportsSame
<1>3. ASSUME NEW p \in Params
      PROVE  count'[p] = count[p] - Net(p, op) /\ count'[p] \in 0..NT
  <2>1. /\ count[p] \in Nat /\ count[p] - Net(p, op) \in 0..NT /\ NT \in Nat
    BY <1>1, NetTypes DEF CountInv, CountBounded
  <2>2. CASE HandleSubscribeParams
    <3>1. /\ Net(p, op) = IF p \in op.names THEN -1 ELSE 0
          /\ count'[p] = count[p] + IF p \in op.names THEN 1 ELSE 0
      BY <2>2 DEF HandleSubscribeParams, CountedUp, Net, One
    <3> QED BY <2>1, <3>1
  <2>3. CASE HandleUnsubscribeParams
    <3>1. /\ Net(p, op) = IF p \in op.names THEN 1 ELSE 0
          /\ count'[p] = IF p \in op.names /\ count[p] # 0 THEN count[p] - 1 ELSE count[p]
      BY <2>3 DEF HandleUnsubscribeParams, CountedDown, Net, One
    <3> QED BY <2>1, <3>1
  <2> QED BY <2>2, <2>3
<1>4. ASSUME ~opShutdown', NEW p \in Params  PROVE NeverDrifts(p)'
  <2>1. /\ count[p] = Enqueued(p) + QueuedNet(1, queue, p) + TakenNet(p)
        /\ \A k \in 1..(Len(queue) + 1) : Enqueued(p) + QueuedNet(k, queue, p) \in 0..NT
    BY <1>1, <1>4 DEF CountInv, NeverDrifts
  <2>2. TakenNet(p) = Net(p, op) /\ TakenNet(p)' = 0
    BY <1>1 DEF TakenNet
  <2>3. Enqueued(p) \in Int /\ QueuedNet(1, queue, p) \in Int /\ Net(p, op) \in Int
    <3>1. Net(p, op) \in {-1, 0, 1}
      BY NetTypes
    <3>2. Net(p, op) \in Int
      BY <3>1
    <3>3. queue \in Seq(Op)
      BY DEF CountInv, Types
    <3> QED BY <3>2, <3>3, NetTypes, QueuedNetType
  <2>4. count'[p] = Enqueued(p)' + QueuedNet(1, queue, p) + TakenNet(p)'
    BY <1>2, <1>3, <2>1, <2>2, <2>3
  <2> QED BY <1>1, <1>2, <2>1, <2>4 DEF NeverDrifts, NT
<1>5. \A p \in Params : CountBounded(p)'
  BY <1>1, <1>3 DEF CountBounded, NT
<1>6. opShutdown' => queue' = <<>>
  BY <1>1 DEF CountInv
<1> QED BY <1>2, <1>4, <1>5, <1>6 DEF CountInv

LEMMA DrainCounts ==
  ASSUME CountInv, Types', DrainQueue
  PROVE  CountInv'
<1>1. /\ UNCHANGED <<wants, call, count, op>> /\ opShutdown' /\ queue' = <<>>
      /\ UNCHANGED worker \/ (worker' # "handle" /\ worker # "handle")
  BY DEF DrainQueue, QueueLeft, WokenByStop, Woken, sdkVars, workVars
<1>2. AskedIsRecorded'
  BY <1>1, TransportsSame
<1>3. \A p \in Params : CountBounded(p)'
  BY <1>1 DEF CountInv, CountBounded, Net, One
<1> QED BY <1>1, <1>2, <1>3 DEF CountInv

LEMMA CountStep == CountInv /\ [Next]_vars => CountInv'
<1> SUFFICES ASSUME CountInv, [Next]_vars PROVE CountInv'
  OBVIOUS
<1>1. Types /\ Types'
  BY TypesStep DEF CountInv
<1>2. ASSUME UNCHANGED <<wants, call, queue, count, opShutdown>>,
             \/ UNCHANGED <<worker, op>>
             \/ /\ worker' # "handle"
                /\ worker = "handle" => op.kind \notin {"subscribe", "unsubscribe"}
      PROVE  CountInv'
  <2>1. AskedIsRecorded' /\ \A p \in Params : Enqueued(p)' = Enqueued(p)
    BY <1>2, TransportsSame
  <2> QED BY <1>1, <1>2, <2>1, CountFrame
<1>3. CASE UNCHANGED vars
  BY <1>2, <1>3 DEF vars
<1>4. ASSUME NEW tr \in Transports, Clients(tr) \/ EnqueueParameterOp(tr)
      PROVE  CountInv'
  BY <1>1, <1>4, CallCounts, EnqueueCounts
<1>5. CASE \/ WorkerSleep \/ WorkerExit
           \/ \E ok \in BOOLEAN : HandleGetParams(ok)
           \/ HandleSetNone \/ HandleSetParams \/ EchoParams
  BY <1>2, <1>5 DEF WorkerSleep, WorkerExit, HandleGetParams, HandleSetNone,
                    HandleSetParams, EchoParams, Handled
<1>6. CASE WorkerPop
  BY <1>1, <1>6, PopCounts
<1>7. CASE HandleSubscribeParams \/ HandleUnsubscribeParams
  BY <1>1, <1>7, HandleCounts
<1>8. CASE \/ SubscribeParams \/ Track \/ Untrack \/ ForwardDone
           \/ \E p \in Params, ok, reached \in BOOLEAN :
                Register(p, ok, reached) \/ Unregister(p, ok, reached)
  BY <1>2, <1>8 DEF SubscribeParams, Track, Untrack, ForwardDone, Handled, Register,
                    Unregister
<1>9. CASE SetParamUpdateCallback \/ Updates \/ BackendShutdown
  BY <1>2, <1>9 DEF SetParamUpdateCallback, Updates, ParameterUpdate, UpdatePublished,
                    BackendShutdown
<1>10. CASE \/ \E p \in Params, ok, reached \in BOOLEAN : Leave(p, ok, reached)
            \/ StopXmlRpc \/ StopTransports \/ JoinWorker
  BY <1>2, <1>10 DEF Leave, StopXmlRpc, StopTransports, JoinWorker
<1>11. CASE DrainQueue
  BY <1>1, <1>11, DrainCounts
<1> QED BY <1>3, <1>4, <1>5, <1>6, <1>7, <1>8, <1>9, <1>10, <1>11
        DEF Next, Worker, Stopping

LEMMA CountInit == Init => CountInv
<1> SUFFICES ASSUME Init PROVE CountInv
  OBVIOUS
<1>1. /\ queue = <<>> /\ queue \in Seq(Op) /\ Len(queue) = 0 /\ worker = "check"
      /\ \A tr \in Transports : call[tr] = NoOp /\ wants[tr] = {}
      /\ \A p \in Params : count[p] = 0
  BY DEF Init
<1>2. \A kind, p : Asking(kind, p) = {} /\ Wanting(p) = {}
  BY <1>1 DEF Asking, Wanting, NoOp
<1>3. AskedIsRecorded
  BY <1>2 DEF AskedIsRecorded
<1>4. ASSUME NEW p \in Params  PROVE NeverDrifts(p) /\ CountBounded(p)
  <2>1. Enqueued(p) = 0 /\ TakenNet(p) = 0 /\ NT \in Nat
    <3>1. /\ Asking("subscribe", p) = {} /\ Asking("unsubscribe", p) = {}
          /\ Wanting(p) = {} /\ Cardinality({}) = 0
      BY <1>2, FS_EmptySet
    <3>2. NT \in Nat
      BY NetTypes
    <3>3. Enqueued(p) = 0 + 0 - 0
      BY <3>1 DEF Enqueued
    <3>4. TakenNet(p) = 0
      BY <1>1 DEF TakenNet
    <3> QED BY <3>2, <3>3, <3>4
  <2>2. QueuedNet(1, queue, p) = 0
    <3>1. 1 \in Nat /\ 1 > Len(queue)
      BY <1>1
    <3> QED BY <1>1, <3>1, QueuedNetNone
  <2>3. count[p] = Enqueued(p) + QueuedNet(1, queue, p) + TakenNet(p)
    BY <1>1, <2>1, <2>2
  <2>4. \A k \in 1..(Len(queue) + 1) : Enqueued(p) + QueuedNet(k, queue, p) \in 0..NT
    <3>1. \A k \in 1..(Len(queue) + 1) : k = 1
      BY <1>1
    <3> QED BY <2>1, <2>2, <3>1
  <2> QED BY <1>1, <2>1, <2>3, <2>4 DEF NeverDrifts, CountBounded
<1> QED BY <1>1, <1>3, <1>4, TypesInit DEF CountInv

LEMMA UnderWayCounts ==
  ASSUME Types, NEW p \in Params, NEW kind
  PROVE  /\ UnderWay(kind, p)
              = Cardinality(Asking(kind, p)) + Queued(1, queue, kind, p)
                  + (IF worker = "handle" THEN One(kind, p, op) ELSE 0)
         /\ Cardinality(Asking(kind, p)) \in Nat /\ Queued(1, queue, kind, p) \in Nat
         /\ One(kind, p, op) \in Nat
<1>1. queue \in Seq(Op)
  BY DEF Types
<1>2. {i \in DOMAIN queue : queue[i].kind = kind /\ p \in queue[i].names}
        = From(1, queue, kind, p)
  BY <1>1 DEF From
<1>3. /\ Cardinality(Asking(kind, p)) \in Nat /\ Queued(1, queue, kind, p) \in Nat
      /\ One(kind, p, op) \in Nat
  BY <1>1, Finiteness, FromFinite DEF One
<1>4. UnderWay(kind, p)
        = Cardinality(Asking(kind, p)) + Queued(1, queue, kind, p)
            + (IF worker = "handle" /\ op.kind = kind /\ p \in op.names THEN 1 ELSE 0)
  BY <1>2 DEF UnderWay, Asking, Queued
<1> QED BY <1>3, <1>4 DEF One

(* The count that both transports share never drifts from what they want,   *)
(* for any number of transports, parameters and queued operations; so the   *)
(* last transport to leave is always recognised.                            *)
THEOREM CountNeverDrifts == Spec => []CountFollowsTransports
<1>1. CountInv => CountFollowsTransports
  <2> SUFFICES ASSUME CountInv, ~opShutdown, NEW p \in Params
               PROVE  count[p] + UnderWay("subscribe", p)
                        = Cardinality({tr \in Transports : p \in wants[tr]})
                            + UnderWay("unsubscribe", p)
    BY DEF CountFollowsTransports
  <2>1. count[p] = Enqueued(p) + QueuedNet(1, queue, p) + TakenNet(p)
    BY DEF CountInv, NeverDrifts
  <2>2. Cardinality({tr \in Transports : p \in wants[tr]}) = Cardinality(Wanting(p))
    BY DEF Wanting
  <2>3. Cardinality(Wanting(p)) \in Nat
    BY Finiteness
  <2> QED BY <2>1, <2>2, <2>3, UnderWayCounts
          DEF CountInv, Enqueued, QueuedNet, TakenNet, Net
<1> QED BY <1>1, CountInit, CountStep, PTL DEF Spec

(* Every variable keeps its type, and no parameter is counted more often    *)
(* than there are transports, even after stop() has thrown operations away. *)
THEOREM ParamTypesCorrect == Spec => []ParamTypeOK
<1>1. CountInv => ParamTypeOK
  <2> SUFFICES ASSUME CountInv PROVE ParamTypeOK
    OBVIOUS
  <2>1. count \in [Params -> 0..Cardinality(Transports)]
    BY DEF CountInv, CountBounded, Types, NT
  <2> QED BY <2>1 DEF CountInv, Types, ParamTypeOK
<1> QED BY <1>1, CountInit, CountStep, PTL DEF Spec
=============================================================================
