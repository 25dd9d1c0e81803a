-------------------------- MODULE ServiceCallsProofs --------------------------
(***************************************************************************)
(* Safety of client service calls for every set of calls: the responder of *)
(* a call is in one place at a time and is used at most once, a timeout is *)
(* never early, an open call stays within the watchdog's reach, and what a *)
(* client sees is what OneShotReply promises.                              *)
(***************************************************************************)
EXTENDS ServiceCalls, ServiceDiscoveryProofs

CallTypeOK ==
  /\ cpc \in [Calls -> {"new", "sent", "prepared", "listed", "handed",
                        "answered"}]
  /\ slot \in [Calls -> BOOLEAN] /\ callOk \in [Calls -> BOOLEAN]
  /\ pending \subseteq Calls /\ late \subseteq Calls /\ now \subseteq Calls
  /\ expired \subseteq Calls /\ taken \in Calls \cup {None}
  /\ wpc \in [Calls -> {"none", "calling", "returned", "took", "done"}]
  /\ sweep \in {"idle", "scan", "take"}
  /\ replies \in [Calls -> Seq(Replies)]
  /\ life \in {"running", "stopping", "stopped", "destroyed"}

(* Somebody has the responder of the call. *)
Held(c) == cpc[c] = "sent" \/ slot[c] \/ wpc[c] = "took" \/ taken = c

(* The handler hands a call on in order: the slot, the list, the worker.    *)
HandedOn(c) ==
  /\ wpc[c] # "none" => cpc[c] = "handed"
  /\ slot[c] => cpc[c] \in {"prepared", "listed", "handed"}
  /\ cpc[c] = "prepared" => slot[c]
  /\ taken = c \/ c \in pending \cup expired => cpc[c] \in {"listed", "handed"}

(* No two places hold the responder. *)
HeldOnce(c) ==
  /\ slot[c] => wpc[c] # "took" /\ taken # c
  /\ wpc[c] = "took" => taken # c

(* A call whose handler is done is answered, or its worker is still going.  *)
WorkerHolds(c) == slot[c] /\ cpc[c] = "handed" => wpc[c] \in {"calling", "returned"}

(* A call is unanswered as long as its responder is held, and answered once *)
(* afterwards.                                                              *)
AnswerMatches(c) ==
  /\ Held(c) \/ cpc[c] = "new" => replies[c] = <<>>
  /\ ~Held(c) /\ cpc[c] # "new" => Len(replies[c]) = 1

CallInv(c) == HandedOn(c) /\ HeldOnce(c) /\ WorkerHolds(c) /\ AnswerMatches(c)

(* The sweep's lists are empty between sweeps, and it times out what was    *)
(* late when it began.                                                      *)
SweepInv ==
  /\ sweep # "take" => taken = None /\ expired = {}
  /\ now \subseteq late /\ expired \subseteq now
  /\ taken \in now \cup {None}

StoppedInv ==
  life \in {"stopped", "destroyed"} =>
    \A c \in Calls : cpc[c] \notin {"sent", "prepared", "listed"}

CallsIInv ==
  /\ CallTypeOK
  /\ \A c \in Calls : CallInv(c)
  /\ SweepInv
  /\ StoppedInv
  /\ OpenIsWatched
  /\ TimeoutOnlyLate

-----------------------------------------------------------------------------
LEMMA CallsInitial == Init => CallsIInv
BY CallsAssumption
   DEF Init, CallsIInv, CallTypeOK, CallInv, HandedOn, HeldOnce, WorkerHolds,
       AnswerMatches, Held, SweepInv, StoppedInv, OpenIsWatched,
       TimeoutOnlyLate, Replies

LEMMA CallsUnchanged ==
  ASSUME CallsIInv, UNCHANGED callVars  PROVE CallsIInv'
BY DEF callVars, CallsIInv, CallTypeOK, CallInv, HandedOn, HeldOnce,
       WorkerHolds, AnswerMatches, Held, SweepInv, StoppedInv, OpenIsWatched,
       TimeoutOnlyLate

(* An answer to a call that had none. *)
LEMMA FirstAnswer ==
  ASSUME CallTypeOK, NEW c \in Calls, NEW r \in Replies, Respond(c, r),
         replies[c] = <<>>
  PROVE  /\ replies' \in [Calls -> Seq(Replies)]
         /\ replies'[c] = <<r>> /\ Len(replies'[c]) = 1
         /\ replies'[c] = <<"timeout">> => r = "timeout"
         /\ \A d \in Calls \ {c} : replies'[d] = replies[d]
<1>1. Append(replies[c], r) = <<r>>  OBVIOUS
<1>2. <<r>> \in Seq(Replies) /\ Len(<<r>>) = 1  OBVIOUS
<1>3. <<r>> = <<"timeout">> => <<r>>[1] = <<"timeout">>[1]  OBVIOUS
<1>4. replies'[c] = <<r>>  BY <1>1 DEF CallTypeOK, Respond
<1> QED BY <1>1, <1>2, <1>3, <1>4 DEF CallTypeOK, Respond

(* The steps of the handler, of the workers and of the clock. *)
LEMMA HandlerStep ==
  ASSUME CallsIInv, NEW c \in Calls, Handler(c)  PROVE CallsIInv'
<1> USE DEF CallsIInv, CallInv, HandedOn, HeldOnce, WorkerHolds, AnswerMatches,
            Held, SweepInv, StoppedInv, OpenIsWatched, TimeoutOnlyLate
<1>1. ASSUME NEW encodingOk \in BOOLEAN, HandleRequest(c, encodingOk)
      PROVE  CallsIInv'
  <2>1. CASE Respond(c, "error") /\ UNCHANGED slot
             /\ cpc' = [cpc EXCEPT ![c] = "answered"]
    <3>1. /\ replies' \in [Calls -> Seq(Replies)]
          /\ Len(replies'[c]) = 1 /\ replies'[c] # <<"timeout">>
          /\ \A d \in Calls \ {c} : replies'[d] = replies[d]
      BY <1>1, <2>1, FirstAnswer DEF HandleRequest, Replies
    <3>2. CallTypeOK'  BY <1>1, <2>1, <3>1 DEF HandleRequest, CallTypeOK
    <3>3. \A d \in Calls : CallInv(d)'
      BY <1>1, <2>1, <3>1 DEF HandleRequest, CallTypeOK
    <3>4. TimeoutOnlyLate'
      BY <1>1, <2>1, <3>1 DEF HandleRequest
    <3> QED BY <1>1, <2>1, <3>2, <3>3, <3>4 DEF HandleRequest, CallTypeOK
  <2>2. CASE slot' = [slot EXCEPT ![c] = TRUE] /\ UNCHANGED replies
             /\ cpc' = [cpc EXCEPT ![c] = "prepared"]
    BY <1>1, <2>2 DEF HandleRequest, CallTypeOK
  <2> QED BY <1>1, <2>1, <2>2 DEF HandleRequest
<1>2. CASE ListCall(c)  BY <1>2 DEF ListCall, CallTypeOK
<1>3. CASE SpawnWorker(c)  BY <1>3 DEF SpawnWorker, CallTypeOK
<1> QED BY <1>1, <1>2, <1>3 DEF Handler

LEMMA WorkerStep ==
  ASSUME CallsIInv, NEW c \in Calls, Worker(c) \/ Deadline(c)
                                     \/ \E ok \in BOOLEAN : CallReturns(c, ok)
  PROVE  CallsIInv'
<1> USE DEF CallsIInv, CallInv, HandedOn, HeldOnce, WorkerHolds, AnswerMatches,
            Held, SweepInv, StoppedInv, OpenIsWatched, TimeoutOnlyLate
<1>1. CASE WorkerTake(c)  BY <1>1 DEF WorkerTake, WorkerTook, CallTypeOK
<1>2. CASE WorkerRespond(c)
  <2> DEFINE r == IF callOk[c] THEN "ok" ELSE "error"
  <2>1. /\ replies' \in [Calls -> Seq(Replies)]
        /\ Len(replies'[c]) = 1 /\ replies'[c] # <<"timeout">>
        /\ \A d \in Calls \ {c} : replies'[d] = replies[d]
    BY <1>2, FirstAnswer DEF WorkerRespond, Replies
  <2>2. CallTypeOK'  BY <1>2, <2>1 DEF WorkerRespond, CallTypeOK
  <2>3. \A d \in Calls : CallInv(d)'
    BY <1>2, <2>1 DEF WorkerRespond, CallTypeOK
  <2>4. TimeoutOnlyLate'
    BY <1>2, <2>1 DEF WorkerRespond
  <2> QED BY <1>2, <2>2, <2>3, <2>4 DEF WorkerRespond, CallTypeOK
<1>3. CASE Deadline(c)  BY <1>3 DEF Deadline, CallTypeOK
<1>4. ASSUME NEW ok \in BOOLEAN, CallReturns(c, ok)  PROVE CallsIInv'
  BY <1>4 DEF CallReturns, CallTypeOK
<1> QED BY <1>1, <1>2, <1>3, <1>4 DEF Worker

(* The steps of the watchdog. *)
LEMMA SweepStep ==
  ASSUME CallsIInv, Sweep  PROVE CallsIInv'
<1> USE DEF CallsIInv, CallInv, HandedOn, HeldOnce, WorkerHolds, AnswerMatches,
            Held, SweepInv, StoppedInv, OpenIsWatched, TimeoutOnlyLate
<1>1. CASE SweepStart  BY <1>1 DEF SweepStart, SweepDue, CallTypeOK
<1>2. CASE SweepScan
  BY <1>2 DEF SweepScan, IsExpired, StaysListed, CallTypeOK
<1>3. ASSUME NEW c \in Calls, SweepTake(c)  PROVE CallsIInv'
  <2>1. CallTypeOK' /\ SweepInv' /\ StoppedInv' /\ TimeoutOnlyLate'
    BY <1>3 DEF SweepTake, CallTypeOK
  <2>2. OpenIsWatched'  BY <1>3 DEF SweepTake, CallTypeOK
  <2>3. ASSUME NEW d \in Calls  PROVE CallInv(d)'
    <3>1. CASE slot[c]
      BY <1>3, <2>3, <3>1, CallsAssumption DEF SweepTake, CallTypeOK
    <3>2. CASE ~slot[c]
      BY <1>3, <2>3, <3>2, CallsAssumption DEF SweepTake, CallTypeOK
    <3> QED BY <3>1, <3>2
  <2> QED BY <2>1, <2>2, <2>3
<1>4. CASE SweepRespond
  <2>1. taken \in Calls /\ taken \in late /\ replies[taken] = <<>>
    BY <1>4 DEF SweepRespond, CallTypeOK
  <2>2. /\ replies' \in [Calls -> Seq(Replies)]
        /\ Len(replies'[taken]) = 1
        /\ \A d \in Calls \ {taken} : replies'[d] = replies[d]
    BY <1>4, <2>1, FirstAnswer DEF SweepRespond, Replies
  <2>3. CallTypeOK' /\ SweepInv' /\ StoppedInv' /\ OpenIsWatched'
    BY <1>4, <2>2 DEF SweepRespond, CallTypeOK
  <2>4. \A d \in Calls : CallInv(d)'
    BY <1>4, <2>1, <2>2, CallsAssumption DEF SweepRespond, CallTypeOK
  <2>5. TimeoutOnlyLate'
    BY <1>4, <2>1, <2>2 DEF SweepRespond
  <2> QED BY <2>3, <2>4, <2>5
<1>5. CASE SweepDone  BY <1>5 DEF SweepDone, CallTypeOK
<1> QED BY <1>1, <1>2, <1>3, <1>4, <1>5 DEF Sweep

(* When the destructor destroys the list, every open call belongs to a      *)
(* worker as well: it answers none of them.                                 *)
LEMMA NothingFreed ==
  ASSUME CallsIInv, DestroyBridge
  PROVE  UNCHANGED <<slot, replies>>
<1>1. \A c \in Calls : slot[c] => HeldByWorker(c)
  BY DEF CallsIInv, CallTypeOK, CallInv, HandedOn, WorkerHolds, StoppedInv,
         DestroyBridge, HeldByWorker
<1>2. {c \in pending : slot[c] /\ ~HeldByWorker(c)} = {}
  BY <1>1 DEF CallsIInv, CallTypeOK
<1>3. slot' = [c \in Calls |-> slot[c]] /\ replies' = [c \in Calls |-> replies[c]]
  BY <1>2 DEF DestroyBridge, CallsIInv, CallTypeOK
<1> QED BY <1>3 DEF CallsIInv, CallTypeOK

LEMMA ShutdownCallsStep ==
  ASSUME CallsIInv, Shutdown  PROVE CallsIInv'
<1> USE DEF CallsIInv, CallInv, HandedOn, HeldOnce, WorkerHolds, AnswerMatches,
            Held, SweepInv, StoppedInv, OpenIsWatched, TimeoutOnlyLate
<1>1. CASE BeginShutdown  BY <1>1 DEF BeginShutdown, CallTypeOK
<1>2. CASE StopTransports  BY <1>2 DEF StopTransports, CallTypeOK
<1>3. CASE DestroyBridge
  BY <1>3, NothingFreed DEF DestroyBridge, CallTypeOK
<1> QED BY <1>1, <1>2, <1>3 DEF Shutdown

LEMMA ClientStep ==
  ASSUME CallsIInv, NEW c \in Calls, NEW sv \in Services, ClientCall(c, sv)
  PROVE  CallsIInv'
BY DEF ClientCall, CallsIInv, CallTypeOK, CallInv, HandedOn, HeldOnce,
       WorkerHolds, AnswerMatches, Held, SweepInv, StoppedInv, OpenIsWatched,
       TimeoutOnlyLate

LEMMA CallsStep ==
  ASSUME CallsIInv, [Next]_vars  PROVE CallsIInv'
<1>1. CASE UNCHANGED callVars  BY <1>1, CallsUnchanged
<1>2. CASE Discovery  BY <1>2, CallsUnchanged DEF Discovery
<1>3. CASE \E c \in Calls, sv \in Services : ClientCall(c, sv)
  BY <1>3, ClientStep
<1>4. ASSUME NEW c \in Calls,
             \/ Handler(c) \/ Deadline(c) \/ Worker(c)
             \/ \E ok \in BOOLEAN : CallReturns(c, ok)
      PROVE  CallsIInv'
  BY <1>4, HandlerStep, WorkerStep
<1>5. CASE Sweep  BY <1>5, SweepStep
<1>6. CASE Shutdown  BY <1>6, ShutdownCallsStep
<1> QED BY <1>1, <1>2, <1>3, <1>4, <1>5, <1>6 DEF Next, vars

LEMMA CallsInductive == Spec => []CallsIInv
<1>1. CallsIInv /\ [Next]_vars => CallsIInv'  BY CallsStep
<1> QED BY <1>1, CallsInitial, PTL DEF Spec

-----------------------------------------------------------------------------
(* The registry under the calls: the calls' own steps leave it alone, but   *)
(* for the end of a sweep, which ends the poll thread's cycle.              *)
LEMMA RegistryBelow ==
  ASSUME [Next]_vars
  PROVE  [RegistryNext]_registryVars
<1> USE DEF vars, RegistryNext
<1>1. CASE ServersChange  BY <1>1
<1>2. CASE Discovery  BY <1>2 DEF Discovery
<1>3. ASSUME NEW c \in Calls, NEW sv \in Services, ClientCall(c, sv)
      PROVE  UNCHANGED registryVars
  BY <1>3 DEF ClientCall
<1>4. ASSUME NEW c \in Calls,
             \/ Handler(c) \/ Deadline(c) \/ Worker(c)
             \/ \E ok \in BOOLEAN : CallReturns(c, ok)
      PROVE  UNCHANGED registryVars
  BY <1>4 DEF Handler, HandleRequest, ListCall, SpawnWorker, Deadline, Worker,
              WorkerTake, WorkerRespond, CallReturns
<1>5. CASE Sweep
  BY <1>5 DEF Sweep, SweepStart, SweepScan, SweepTake, SweepRespond, SweepDone
<1>6. CASE Shutdown
  BY <1>6 DEF Shutdown, BeginShutdown, StopTransports, DestroyBridge
<1>7. CASE UNCHANGED vars  BY <1>7
<1> QED BY <1>1, <1>2, <1>3, <1>4, <1>5, <1>6, <1>7 DEF Next

(* What a sweep and the registry say of each other. *)
SweepInCycle ==
  /\ svc \in [Calls -> Services \cup {None}]
  /\ sweep # "idle" => poll = "sweep"

LEMMA SweepInCycleStep ==
  ASSUME SweepInCycle, [Next]_vars  PROVE SweepInCycle'
<1> USE DEF SweepInCycle, registryVars
<1>1. CASE ServersChange /\ UNCHANGED callVars
  BY <1>1 DEF ServersChange, ServerChange, callVars
<1>2. CASE Discovery
  BY <1>2 DEF Discovery, UpdateServices, QueryServices, QueryFails,
              EraseServices, RemoveFromServer, ProbeType, ProbeFails,
              RemoveFromGateway, RemoveDone, AddToServer, AddToGateway,
              AddFails, AddDone, callVars
<1>3. ASSUME NEW c \in Calls, NEW sv \in Services, ClientCall(c, sv)
      PROVE  SweepInCycle'
  BY <1>3 DEF ClientCall
<1>4. ASSUME NEW c \in Calls,
             \/ Handler(c) \/ Deadline(c) \/ Worker(c)
             \/ \E ok \in BOOLEAN : CallReturns(c, ok)
      PROVE  UNCHANGED <<poll, svc, sweep>>
  BY <1>4 DEF Handler, HandleRequest, ListCall, SpawnWorker, Deadline, Worker,
              WorkerTake, WorkerRespond, CallReturns
<1>5. CASE Sweep
  BY <1>5 DEF Sweep, SweepStart, SweepDue, SweepScan, SweepTake, SweepRespond,
              SweepDone
<1>6. CASE Shutdown
  BY <1>6 DEF Shutdown, BeginShutdown, StopTransports, DestroyBridge
<1>7. CASE UNCHANGED vars  BY <1>7 DEF vars, callVars
<1> QED BY <1>1, <1>2, <1>3, <1>4, <1>5, <1>6, <1>7 DEF Next

LEMMA RegistryBelowInductive == Spec => [](RegistryIInv /\ SweepInCycle)
<1>1. Init => RegistryIInv /\ SweepInCycle
  BY RegistryInitial DEF Init, SweepInCycle
<1>2. RegistryIInv /\ [Next]_vars => RegistryIInv'
  BY RegistryBelow, UpdateStep, ServersStep, EndCycleStep, RegistryUnchanged
     DEF RegistryNext
<1>3. SweepInCycle /\ [Next]_vars => SweepInCycle'  BY SweepInCycleStep
<1> QED BY <1>1, <1>2, <1>3, PTL DEF Spec

(* Every variable keeps its type, for every set of services and calls.      *)
THEOREM CallsTypeCorrect == Spec => []TypeOK
<1>1. RegistryIInv /\ SweepInCycle /\ CallsIInv => TypeOK
  BY DEF RegistryIInv, SweepInCycle, CallsIInv, CallTypeOK, TypeOK
<1> QED BY <1>1, RegistryBelowInductive, CallsInductive, PTL

(* The responder of a call is in one place, or the call has one answer: the *)
(* worker, the watchdog and the destructor never answer the same call twice *)
(* and never lose one, for every set of calls.                              *)
THEOREM ResponderUsedOnce == Spec => []RespondedOnce
<1>1. CallsIInv => RespondedOnce
  <2> SUFFICES ASSUME CallsIInv, NEW c \in Calls
      PROVE  \/ cpc[c] = "new" /\ Holders(c) = {} /\ replies[c] = <<>>
             \/ (\E h \in Holders(c) : Holders(c) = {h}) /\ replies[c] = <<>>
             \/ Holders(c) = {} /\ Len(replies[c]) = 1
    BY DEF RespondedOnce
  <2>1. CallInv(c)  BY DEF CallsIInv
  <2>2. CASE ~Held(c)
    BY <2>1, <2>2 DEF CallInv, AnswerMatches, Held, Holders
  <2>3. CASE Held(c)
    <3>1. CASE cpc[c] = "sent"
      <4>1. Holders(c) = {"handler"}
        BY <2>1, <3>1 DEF CallInv, HandedOn, Holders
      <4> QED BY <4>1, <2>1, <2>3 DEF CallInv, AnswerMatches
    <3>2. CASE slot[c]
      <4>1. Holders(c) = {"slot"}
        BY <2>1, <3>2 DEF CallInv, HandedOn, HeldOnce, Holders
      <4> QED BY <4>1, <2>1, <2>3 DEF CallInv, AnswerMatches
    <3>3. CASE wpc[c] = "took"
      <4>1. Holders(c) = {"worker"}
        BY <2>1, <3>3 DEF CallInv, HandedOn, HeldOnce, Holders
      <4> QED BY <4>1, <2>1, <2>3 DEF CallInv, AnswerMatches
    <3>4. CASE taken = c
      <4>1. Holders(c) = {"sweep"}
        BY <2>1, <3>4 DEF CallInv, HandedOn, HeldOnce, Holders
      <4> QED BY <4>1, <2>1, <2>3 DEF CallInv, AnswerMatches
    <3> QED BY <2>3, <3>1, <3>2, <3>3, <3>4 DEF Held
  <2> QED BY <2>2, <2>3
<1> QED BY <1>1, CallsInductive, PTL

(* No call gets a timeout before its deadline, however slow the sweep is.   *)
THEOREM TimeoutsAreLate == Spec => []TimeoutOnlyLate
<1>1. CallsIInv => TimeoutOnlyLate  BY DEF CallsIInv
<1> QED BY <1>1, CallsInductive, PTL

(* Until the destructor runs, every open call is the handler's or the       *)
(* watchdog's.                                                              *)
THEOREM OpenCallsWatched == Spec => []OpenIsWatched
<1>1. CallsIInv => OpenIsWatched  BY DEF CallsIInv
<1> QED BY <1>1, CallsInductive, PTL

-----------------------------------------------------------------------------
(* Refinement: what the client of a call sees. *)

Outcomes == [c \in Calls |-> Outcome(c)]

(* A step that sends nothing and whose calls were begun before stutters.    *)
LEMMA QuietStep ==
  ASSUME CallsIInv, UNCHANGED replies,
         \A d \in Calls : cpc'[d] = "new" <=> cpc[d] = "new"
  PROVE  UNCHANGED Outcomes
<1>1. \A d \in Calls : Outcome(d)' = Outcome(d)  BY DEF Outcome
<1> QED BY <1>1 DEF Outcomes

(* A first answer is OneShotReply's Answer. *)
LEMMA AnswerStep ==
  ASSUME CallsIInv, NEW c \in Calls, NEW r \in Replies, Respond(c, r), Held(c),
         \A d \in Calls : cpc'[d] = "new" <=> cpc[d] = "new"
  PROVE  OneShot!Answer(c, r)
<1>1. cpc[c] # "new" /\ replies[c] = <<>>
  BY DEF CallsIInv, CallTypeOK, CallInv, HandedOn, AnswerMatches, Held
<1>2. /\ replies'[c] = <<r>> /\ Len(replies'[c]) = 1
      /\ \A d \in Calls \ {c} : replies'[d] = replies[d]
  BY <1>1, FirstAnswer DEF CallsIInv
<1>3. Outcome(c) = "open"  BY <1>1 DEF Outcome
<1>4. replies'[c] # <<>> /\ replies'[c][1] = r  BY <1>2
<1>5. Outcome(c)' = r  BY <1>2, <1>4 DEF Outcome
<1>6. \A d \in Calls \ {c} : Outcome(d)' = Outcome(d)  BY <1>2 DEF Outcome
<1> QED BY <1>3, <1>5, <1>6 DEF OneShot!Answer

LEMMA RefinementStep ==
  ASSUME CallsIInv, [Next]_vars
  PROVE  [OneShot!OneShotNext]_Outcomes
<1> USE DEF OneShot!OneShotNext
<1>1. CASE UNCHANGED callVars
  BY <1>1, QuietStep DEF callVars
<1>2. CASE Discovery  BY <1>2, QuietStep DEF Discovery, callVars
<1>3. ASSUME NEW c \in Calls, NEW sv \in Services, ClientCall(c, sv)
      PROVE  OneShot!Open(c)
  <2>1. replies[c] = <<>> /\ UNCHANGED replies
    BY <1>3 DEF ClientCall, CallsIInv, CallInv, AnswerMatches
  <2>2. Outcome(c) = "idle" /\ Outcome(c)' = "open"
    BY <1>3, <2>1 DEF ClientCall, Outcome, CallsIInv, CallTypeOK
  <2>3. \A d \in Calls \ {c} : Outcome(d)' = Outcome(d)
    BY <1>3, <2>1 DEF ClientCall, Outcome, CallsIInv, CallTypeOK
  <2> QED BY <2>2, <2>3 DEF OneShot!Open
<1>4. ASSUME NEW c \in Calls, NEW encodingOk \in BOOLEAN,
             HandleRequest(c, encodingOk)
      PROVE  [OneShot!OneShotNext]_Outcomes
  <2>1. \A d \in Calls : cpc'[d] = "new" <=> cpc[d] = "new"
    BY <1>4 DEF HandleRequest, CallsIInv, CallTypeOK
  <2>2. CASE Respond(c, "error")
    BY <1>4, <2>1, <2>2, AnswerStep DEF HandleRequest, Held, Replies
  <2>3. CASE UNCHANGED replies  BY <2>1, <2>3, QuietStep
  <2> QED BY <1>4, <2>2, <2>3 DEF HandleRequest
<1>5. ASSUME NEW c \in Calls, ListCall(c) \/ SpawnWorker(c)
      PROVE  UNCHANGED Outcomes
  BY <1>5, QuietStep DEF ListCall, SpawnWorker, CallsIInv, CallTypeOK
<1>6. ASSUME NEW c \in Calls, WorkerTake(c) \/ Deadline(c)
                              \/ \E ok \in BOOLEAN : CallReturns(c, ok)
      PROVE  UNCHANGED Outcomes
  BY <1>6, QuietStep DEF WorkerTake, Deadline, CallReturns
<1>7. ASSUME NEW c \in Calls, WorkerRespond(c)
      PROVE  OneShot!OneShotNext
  <2> DEFINE r == IF callOk[c] THEN "ok" ELSE "error"
  <2>1. r \in Replies /\ Respond(c, r) /\ Held(c) /\ UNCHANGED cpc
    BY <1>7 DEF WorkerRespond, Held, Replies
  <2>2. OneShot!Answer(c, r)  BY <2>1, AnswerStep
  <2> QED BY <2>1, <2>2
<1>8. CASE SweepRespond
  <2>1. taken \in Calls /\ Respond(taken, "timeout") /\ Held(taken) /\ UNCHANGED cpc
    BY <1>8 DEF SweepRespond, CallsIInv, CallTypeOK, Held
  <2>2. OneShot!Answer(taken, "timeout")  BY <2>1, AnswerStep DEF Replies
  <2> QED BY <2>1, <2>2 DEF Replies
<1>9. CASE SweepStart \/ SweepScan \/ (\E c \in Calls : SweepTake(c)) \/ SweepDone
  BY <1>9, QuietStep DEF SweepStart, SweepScan, SweepTake, SweepDone
<1>10. CASE Shutdown
  BY <1>10, NothingFreed, QuietStep
     DEF Shutdown, BeginShutdown, StopTransports, DestroyBridge
<1> QED BY <1>1, <1>2, <1>3, <1>4, <1>5, <1>6, <1>7, <1>8, <1>9, <1>10
        DEF Next, vars, Handler, Worker, Sweep

(* Destroying _pendingServiceCalls answers nobody: the comment at its        *)
(* declaration has entries left at shutdown drop their responders, but the  *)
(* worker of an open call still owns the entry.                             *)
THEOREM DestructionAnswersNobody ==
  Spec => [][DestroyBridge => UNCHANGED <<slot, replies>>]_vars
<1>1. CallsIInv /\ [Next]_vars => [DestroyBridge => UNCHANGED <<slot, replies>>]_vars
  BY NothingFreed
<1> QED BY <1>1, CallsInductive, PTL DEF Spec

(* The handler, the workers, the watchdog and the destructor implement a    *)
(* one-shot reply, for every set of calls.                                  *)
THEOREM OneShotImplemented == Spec => ImplementsOneShot
<1>1. Init => OneShot!OneShotInit
  BY DEF Init, OneShot!OneShotInit, Outcome
<1>2. CallsIInv /\ [Next]_vars => [OneShot!OneShotNext]_Outcomes
  BY RefinementStep
<1> QED BY <1>1, <1>2, CallsInductive, PTL
        DEF Spec, ImplementsOneShot, OneShot!OneShotSpec, Outcomes
=============================================================================
