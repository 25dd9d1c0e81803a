--------------------------- MODULE PollLoopProofs ---------------------------
(***************************************************************************)
(* Safety of the poll loop for every number of transports and publishers   *)
(* and every max_update_ms: no wake-up is lost, the graph count that both  *)
(* transports share is exact, and a wait keeps to its bounds and never     *)
(* gets shorter without a poke.                                            *)
(***************************************************************************)
EXTENDS PollLoop, FiniteSetTheorems, TLAPS

USE DEF Callers

(* The part of PollTypeOK that the proofs need. *)
ControlTypeOK ==
  /\ loop \in {"top", "topics", "state", "update", "graph", "sweep", "wait",
               "evaluated", "asleep", "exited"}
  /\ pollPoke \in BOOLEAN /\ shuttingDown \in BOOLEAN
  /\ graphCount \in Nat
  /\ graphWanted \subseteq Transports
  /\ caller \in [Callers -> {"idle", "subscribe", "unsubscribe", "poke",
                             "notify"}]

(* Between the evaluation of the predicate and the sleep _pollMutex is      *)
(* held, so what the thread saw is still so.                                *)
EvaluatedIsCurrent == loop = "evaluated" => ~shuttingDown /\ ~pollPoke

(* Which transports are in the middle of which callback. *)
CallbacksMatchWishes ==
  \A c \in Callers :
    /\ caller[c] = "subscribe" => c \in graphWanted
    /\ caller[c] = "unsubscribe" => c \in Transports \ graphWanted

(* The transports that the count stands for. *)
Counting ==
  {tr \in Transports : \/ tr \in graphWanted /\ caller[tr] # "subscribe"
                       \/ caller[tr] = "unsubscribe"}

IInv ==
  /\ ControlTypeOK
  /\ EvaluatedIsCurrent
  /\ NoLostWakeup
  /\ CallbacksMatchWishes
  /\ GraphCountExact

-----------------------------------------------------------------------------
(* The poll thread's own steps touch neither callers nor the graph's count. *)
LEMMA PollThreadStep ==
  ASSUME IInv, PollThread \/ Timeout
  PROVE  /\ UNCHANGED <<caller, graphCount, graphWanted, shuttingDown, dtor>>
         /\ ControlTypeOK' /\ EvaluatedIsCurrent' /\ NoLostWakeup'
<1> USE DEF IInv, ControlTypeOK, EvaluatedIsCurrent, NoLostWakeup, cycleVars,
            waitVars, endVars, graphVars
<1>1. CASE BeginCycle  BY <1>1 DEF BeginCycle
<1>2. CASE LeaveLoop  BY <1>2 DEF LeaveLoop
<1>3. CASE QueryTopics  BY <1>3 DEF QueryTopics
<1>4. CASE \E ok \in BOOLEAN : QuerySystemState(ok)  BY <1>4 DEF QuerySystemState
<1>5. CASE Update  BY <1>5 DEF Update
<1>6. CASE Throw  BY <1>6 DEF Throw
<1>7. CASE PublishGraph  BY <1>7 DEF PublishGraph
<1>8. CASE Sweep  BY <1>8 DEF Sweep
<1>9. CASE EvaluateWait  BY <1>9 DEF EvaluateWait
<1>10. CASE FallAsleep  BY <1>10 DEF FallAsleep
<1>11. CASE WaitReturns  BY <1>11 DEF WaitReturns, Restart
<1>12. CASE Timeout  BY <1>12 DEF Timeout, Restart
<1> QED BY <1>1, <1>2, <1>3, <1>4, <1>5, <1>6, <1>7, <1>8, <1>9, <1>10, <1>11,
           <1>12 DEF PollThread

(* With callers and wishes as they were, the count stays exact. *)
LEMMA CountUndisturbed ==
  ASSUME IInv, UNCHANGED <<caller, graphCount, graphWanted>>
  PROVE  CallbacksMatchWishes' /\ GraphCountExact'
BY DEF IInv, CallbacksMatchWishes, GraphCountExact

LEMMA CountingFinite ==
  ASSUME IInv  PROVE IsFiniteSet(Counting) /\ graphCount = Cardinality(Counting)
<1>1. IsFiniteSet(Transports)  BY PollAssumption
<1>2. Counting \subseteq Transports  BY DEF Counting
<1> QED BY <1>1, <1>2, FS_Subset DEF IInv, GraphCountExact, Counting

(* Each step of a callback or of a client. *)
LEMMA CallerStep ==
  ASSUME IInv, NEW c \in Callers,
         ClientAdvertise(c) \/ GraphRequested(c) \/ GraphReleased(c) \/ Callback(c)
  PROVE  IInv'
<1> USE DEF ControlTypeOK, EvaluatedIsCurrent, CallbacksMatchWishes, cycleVars,
            waitVars, endVars, graphVars
<1>c. /\ IsFiniteSet(Counting) /\ graphCount = Cardinality(Counting)
      /\ GraphCountExact' <=> graphCount' = Cardinality(Counting')
  BY CountingFinite DEF GraphCountExact, Counting
<1>1. CASE ClientAdvertise(c)
  <2>1. Counting' = Counting  BY <1>1 DEF ClientAdvertise, IInv, Counting
  <2> QED BY <1>1, <1>c, <2>1 DEF ClientAdvertise, IInv, NoLostWakeup
<1>2. CASE GraphRequested(c)
  <2>1. Counting' = Counting  BY <1>2 DEF GraphRequested, IInv, Counting
  <2> QED BY <1>2, <1>c, <2>1 DEF GraphRequested, IInv, NoLostWakeup
<1>3. CASE GraphReleased(c)
  <2>1. Counting' = Counting  BY <1>3 DEF GraphReleased, IInv, Counting
  <2> QED BY <1>3, <1>c, <2>1 DEF GraphReleased, IInv, NoLostWakeup
<1>4. CASE CountUp(c)
  <2>1. c \notin Counting /\ Counting' = Counting \cup {c}
    BY <1>4 DEF CountUp, IInv, Counting
  <2>2. Cardinality(Counting') = Cardinality(Counting) + 1
    BY <1>c, <2>1, FS_AddElement
  <2>3. GraphCountExact'  BY <1>4, <1>c, <2>2 DEF CountUp
  <2> QED BY <1>4, <2>3 DEF CountUp, IInv, NoLostWakeup
<1>5. CASE CountDown(c)
  <2>1. c \in Counting /\ Counting' = Counting \ {c}
    BY <1>5 DEF CountDown, IInv, Counting
  <2>2. Cardinality(Counting') = Cardinality(Counting) - 1 /\ Counting # {}
    BY <1>c, <2>1, FS_RemoveElement
  <2>3. graphCount \in Nat \ {0}
    BY <1>c, <2>2, FS_EmptySet DEF IInv
  <2>4. graphCount' = graphCount - 1
    BY <1>5, <2>3, SMT DEF CountDown, OneLess
  <2>5. GraphCountExact' /\ graphCount' \in Nat
    BY <1>c, <2>2, <2>3, <2>4
  <2> QED BY <1>5, <2>5 DEF CountDown, IInv, NoLostWakeup
<1>6. CASE SetPoke(c)
  <2>1. Counting' = Counting  BY <1>6 DEF SetPoke, IInv, Counting
  <2>2. NoLostWakeup' /\ EvaluatedIsCurrent'
    BY <1>6 DEF SetPoke, PollMutexFree, IInv, NoLostWakeup
  <2> QED BY <1>6, <1>c, <2>1, <2>2 DEF SetPoke, IInv
<1>7. CASE NotifyPoke(c)
  <2>1. Counting' = Counting  BY <1>7 DEF NotifyPoke, IInv, Counting
  <2>2. NoLostWakeup' /\ EvaluatedIsCurrent' /\ loop' # "asleep"
    BY <1>7 DEF NotifyPoke, Woken, IInv, NoLostWakeup
  <2> QED BY <1>7, <1>c, <2>1, <2>2 DEF NotifyPoke, Woken, IInv
<1> QED BY <1>1, <1>2, <1>3, <1>4, <1>5, <1>6, <1>7 DEF Callback

(* The steps of shutting down. *)
LEMMA ShutdownStep ==
  ASSUME IInv, RosShutdown \/ BeginDestructor \/ Destructor
  PROVE  /\ UNCHANGED <<caller, graphCount, graphWanted>>
         /\ ControlTypeOK' /\ EvaluatedIsCurrent' /\ NoLostWakeup'
<1> USE DEF IInv, ControlTypeOK, EvaluatedIsCurrent, NoLostWakeup, cycleVars,
            waitVars, graphVars
<1>1. CASE RosShutdown  BY <1>1 DEF RosShutdown
<1>2. CASE BeginDestructor  BY <1>2 DEF BeginDestructor, PollMutexFree
<1>3. CASE NotifyShutdown
  BY <1>3 DEF NotifyShutdown, WokenByDestructor, Woken
<1>4. CASE JoinPollThread  BY <1>4 DEF JoinPollThread
<1> QED BY <1>1, <1>2, <1>3, <1>4 DEF Destructor

LEMMA Inductive == Spec => []IInv
<1>1. Init => IInv
  <2> SUFFICES ASSUME Init PROVE IInv  OBVIOUS
  <2>1. Counting = {}  BY DEF Init, Counting
  <2>2. GraphCountExact  BY <2>1, FS_EmptySet DEF Init, Counting, GraphCountExact
  <2> QED BY <2>2 DEF Init, IInv, ControlTypeOK, EvaluatedIsCurrent,
                      NoLostWakeup, CallbacksMatchWishes
<1>2. IInv /\ [Next]_vars => IInv'
  <2> SUFFICES ASSUME IInv, [Next]_vars PROVE IInv'  OBVIOUS
  <2>1. CASE PollThread \/ Timeout
    BY <2>1, PollThreadStep, CountUndisturbed DEF IInv
  <2>2. CASE \E c \in Callers : ClientAdvertise(c) \/ GraphRequested(c)
                                \/ GraphReleased(c) \/ Callback(c)
    BY <2>2, CallerStep
  <2>3. CASE RosShutdown \/ BeginDestructor \/ Destructor
    BY <2>3, ShutdownStep, CountUndisturbed DEF IInv
  <2>4. CASE UNCHANGED vars
    BY <2>4 DEF vars, cycleVars, waitVars, endVars, graphVars, IInv,
                ControlTypeOK, EvaluatedIsCurrent, NoLostWakeup,
                CallbacksMatchWishes, GraphCountExact
  <2> QED BY <2>1, <2>2, <2>3, <2>4 DEF Next
<1> QED BY <1>1, <1>2, PTL DEF Spec

(* The poll thread sleeps through neither pokePoll nor the destructor's     *)
(* flag, for every number of transports and publishing clients.             *)
THEOREM WakeupsArrive == Spec => []NoLostWakeup
<1>1. IInv => NoLostWakeup  BY DEF IInv
<1> QED BY <1>1, Inductive, PTL

(* _graphSubscriptionCount is the number of transports with a subscriber to *)
(* the graph, callbacks under way considered, for every set of transports.  *)
THEOREM GraphCountIsExact == Spec => []GraphCountExact
<1>1. IInv => GraphCountExact  BY DEF IInv
<1> QED BY <1>1, Inductive, PTL

-----------------------------------------------------------------------------
(* The length of a wait.  Below the cap of the exponent the powers are      *)
(* numbers, and each is compared with max_update_ms by itself.              *)

LEMMA PowersDouble ==
  \A k \in 0..30 : 2 ^ k \in Nat /\ (k < 30 => 2 ^ k <= 2 ^ (k + 1))
<1> TAKE k \in 0..30
<1> DEFINE Good(j) == 2 ^ j \in Nat /\ (j < 30 => 2 ^ j <= 2 ^ (j + 1))
<1>1. Good(0) /\ Good(1) /\ Good(2) /\ Good(3) /\ Good(4) /\ Good(5) /\ Good(6) /\ Good(7)
  OBVIOUS
<1>2. Good(8) /\ Good(9) /\ Good(10) /\ Good(11) /\ Good(12) /\ Good(13) /\ Good(14) /\ Good(15)
  OBVIOUS
<1>3. Good(16) /\ Good(17) /\ Good(18) /\ Good(19) /\ Good(20) /\ Good(21) /\ Good(22) /\ Good(23)
  OBVIOUS
<1>4. Good(24) /\ Good(25) /\ Good(26) /\ Good(27) /\ Good(28) /\ Good(29) /\ Good(30)
  OBVIOUS
<1> HIDE DEF Good
<1>5. \/ k = 0 \/ k = 1 \/ k = 2 \/ k = 3 \/ k = 4 \/ k = 5 \/ k = 6
      \/ k = 7 \/ k = 8 \/ k = 9 \/ k = 10 \/ k = 11 \/ k = 12 \/ k = 13
      \/ k = 14 \/ k = 15 \/ k = 16 \/ k = 17 \/ k = 18 \/ k = 19 \/ k = 20
      \/ k = 21 \/ k = 22 \/ k = 23 \/ k = 24 \/ k = 25 \/ k = 26 \/ k = 27
      \/ k = 28 \/ k = 29 \/ k = 30
  OBVIOUS
<1>6. Good(k)
  BY <1>1, <1>2, <1>3, <1>4, <1>5, Zenon
<1> QED BY <1>6 DEF Good

LEMMA BoundedIsNat ==
  ASSUME NEW n \in Nat  PROVE Bounded(n) \in Nat /\ Backoff(n) \in Nat
<1>1. Shift(n) < 31 => Shift(n) \in 0..30  BY DEF Shift
<1>2. Bounded(n) \in Nat  BY <1>1, PowersDouble, PollAssumption DEF Bounded
<1> QED BY <1>2 DEF Backoff, MinPeriod

LEMMA BackoffBounds ==
  ASSUME NEW n \in Nat
  PROVE  /\ Backoff(n) >= MinPeriod
         /\ Backoff(n) <= MinPeriod \/ Backoff(n) <= MaxPeriod
<1>1. Bounded(n) \in Nat  BY BoundedIsNat
<1>2. Bounded(n) <= MaxPeriod
  <2>1. Shift(n) < 31 => Shift(n) \in 0..30  BY DEF Shift
  <2> QED BY <2>1, PowersDouble, PollAssumption DEF Bounded
<1> QED BY <1>1, <1>2, PollAssumption DEF Backoff, MinPeriod

(* One cycle more never makes the wait shorter: the power doubles up to     *)
(* max_update_ms, and stays there when the exponent meets its cap.          *)
LEMMA BackoffMonotone ==
  ASSUME NEW n \in Nat  PROVE Backoff(n) <= Backoff(n + 1)
<1>1. /\ Bounded(n) \in Nat /\ Bounded(n + 1) \in Nat
      /\ Bounded(n) <= MaxPeriod
  BY BoundedIsNat, PowersDouble, PollAssumption DEF Bounded, Shift
<1>2. Bounded(n) <= Bounded(n + 1)
  <2>1. CASE n < 30
    <3>1. n \in 0..30 /\ n + 1 \in 0..30 /\ Shift(n) = n /\ Shift(n + 1) = n + 1
      BY <2>1 DEF Shift
    <3>2. 2 ^ n \in Nat /\ 2 ^ (n + 1) \in Nat /\ 2 ^ n <= 2 ^ (n + 1)
      BY <2>1, <3>1, PowersDouble
    <3> QED BY <2>1, <3>1, <3>2, PollAssumption DEF Bounded
  <2>2. CASE n >= 30
    <3>1. ~(Shift(n + 1) < 31)  BY <2>2 DEF Shift
    <3>2. Bounded(n + 1) = MaxPeriod  BY <3>1 DEF Bounded
    <3> QED BY <1>1, <3>2
  <2> QED BY <2>1, <2>2
<1> QED BY <1>1, <1>2 DEF Backoff, MinPeriod

LEMMA CountBounded == IInv => graphCount \in 0..Cardinality(Transports)
<1> SUFFICES ASSUME IInv PROVE graphCount \in 0..Cardinality(Transports)
  OBVIOUS
<1>1. Counting \subseteq Transports  BY DEF Counting
<1>2. Cardinality(Counting) <= Cardinality(Transports)
  BY <1>1, FS_Subset, PollAssumption
<1>3. Cardinality(Counting) \in Nat /\ Cardinality(Transports) \in Nat
  BY CountingFinite, FS_CardinalityType, PollAssumption
<1> QED BY <1>2, <1>3, CountingFinite

(* What PollTypeOK says of the loop's own variables and the graph. *)
LoopTypeOK ==
  /\ {querying, stateKnown, rosOk, owed} \subseteq BOOLEAN
  /\ updateCount \in 0..MaxCount
  /\ period >= MinPeriod /\ (period <= MinPeriod \/ period <= MaxPeriod)
  /\ unserved \subseteq graphWanted
  /\ dtor \in {"none", "notify", "join", "joined"}

LEMMA LoopTypeInitially == Init => LoopTypeOK
<1> SUFFICES ASSUME Init PROVE LoopTypeOK  OBVIOUS
<1>1. period >= MinPeriod /\ (period <= MinPeriod \/ period <= MaxPeriod)
  BY DEF Init, MinPeriod
<1>2. updateCount \in 0..MaxCount
  BY PollAssumption DEF Init
<1>3. {querying, stateKnown, rosOk, owed} \subseteq BOOLEAN
  BY DEF Init
<1> QED BY <1>1, <1>2, <1>3 DEF Init, LoopTypeOK

LEMMA LoopTypePreserved == IInv /\ LoopTypeOK /\ [Next]_vars => LoopTypeOK'
<1> SUFFICES ASSUME IInv, LoopTypeOK, [Next]_vars PROVE LoopTypeOK'  OBVIOUS
<1> USE PollAssumption DEF LoopTypeOK, cycleVars, waitVars, endVars, graphVars
<1>1. CASE BeginCycle  BY <1>1 DEF BeginCycle
<1>2. CASE LeaveLoop \/ QueryTopics \/ Update \/ Throw \/ EvaluateWait \/ FallAsleep
  BY <1>2 DEF LeaveLoop, QueryTopics, Update, Throw, EvaluateWait, FallAsleep
<1>3. CASE \E ok \in BOOLEAN : QuerySystemState(ok)  BY <1>3 DEF QuerySystemState
<1>4. CASE PublishGraph  BY <1>4 DEF PublishGraph
<1>5. CASE Sweep
  <2>1. updateCount' \in 0..MaxCount /\ updateCount' \in Nat
    BY <1>5 DEF Sweep, Counted
  <2> QED BY <1>5, <2>1, BackoffBounds DEF Sweep
<1>6. CASE WaitReturns \/ Timeout  BY <1>6 DEF WaitReturns, Timeout, Restart
<1>7. CASE \E c \in Callers : ClientAdvertise(c) \/ GraphRequested(c)
                              \/ GraphReleased(c) \/ Callback(c)
  BY <1>7 DEF ClientAdvertise, GraphRequested, GraphReleased, Callback, CountUp,
              CountDown, SetPoke, NotifyPoke
<1>8. CASE RosShutdown \/ BeginDestructor \/ Destructor
  BY <1>8 DEF RosShutdown, BeginDestructor, Destructor, NotifyShutdown,
              JoinPollThread
<1>9. CASE UNCHANGED vars  BY <1>9 DEF vars
<1> QED BY <1>1, <1>2, <1>3, <1>4, <1>5, <1>6, <1>7, <1>8, <1>9
        DEF Next, PollThread

(* Type correctness, the bounds of a wait among it: at least 100 ms, at     *)
(* most the larger of this floor and max_update_ms, whatever it is set to.  *)
THEOREM PollTypeCorrect == Spec => []PollTypeOK
<1>1. IInv /\ LoopTypeOK => PollTypeOK
  BY CountBounded DEF IInv, ControlTypeOK, LoopTypeOK, PollTypeOK
<1> QED BY <1>1, LoopTypeInitially, LoopTypePreserved, Inductive, PTL DEF Spec

(* Without a poke the waits never get shorter, for any max_update_ms and    *)
(* any number of cycles.                                                    *)
THEOREM WaitsNeverShrink == Spec => []BackoffGrows
<1>1. LoopTypeOK => BackoffGrows
  BY BackoffMonotone, PollAssumption DEF LoopTypeOK, BackoffGrows
<1> QED BY <1>1, LoopTypeInitially, LoopTypePreserved, Inductive, PTL DEF Spec
=============================================================================
