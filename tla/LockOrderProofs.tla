--------------------------- MODULE LockOrderProofs ---------------------------
(* Threads that keep the lock order never all wait for one another.         *)
EXTENDS LockOrder, TLAPS

(* What the argument needs: a waiting thread holds lower locks only.        *)
LockInv ==
  /\ held \in [Threads -> SUBSET Locks]
  /\ want \in [Threads -> Locks \cup {NoLock}]
  /\ \A th \in Threads :
       want[th] # NoLock => \A l \in held[th] : Rank[l] < Rank[want[th]]

(* Waiting for nothing is told from waiting for a lock.                     *)
LEMMA NoLockOutside == NoLock \notin Locks
  BY DEF NoLock, Locks, Rank

LEMMA RankBounds == \A l \in Locks : Rank[l] \in 1..11
  BY DEF Locks, Rank

(* A step touches one thread, which afterwards holds only locks below the   *)
(* one it waits for.                                                        *)
LEMMA LockInvInductive == LockInv /\ [\E th \in Threads : Step(th)]_lockVars => LockInv'
<1> SUFFICES ASSUME LockInv, [\E th \in Threads : Step(th)]_lockVars PROVE LockInv'
  OBVIOUS
<1>1. CASE UNCHANGED lockVars
  BY <1>1 DEF LockInv, lockVars
<1>2. ASSUME NEW th \in Threads, Step(th) PROVE LockInv'
  <2>1. want' \in [Threads -> Locks \cup {NoLock}]
    BY <1>2 DEF LockInv, Step
  <2>2. held' \in [Threads -> SUBSET Locks]
    BY <1>2 DEF LockInv, Step
  <2>3. ASSUME NEW u \in Threads, want'[u] # NoLock
        PROVE \A l \in held'[u] : Rank[l] < Rank[want'[u]]
    <3>1. CASE u = th
      BY <1>2, <2>3, <3>1 DEF Step
    <3>2. CASE u # th
      <4>1. want'[u] = want[u] /\ held'[u] = held[u]
        BY <1>2, <3>2 DEF LockInv, Step
      <4> QED BY <2>3, <4>1 DEF LockInv
    <3> QED BY <3>1, <3>2
  <2> QED BY <2>1, <2>2, <2>3 DEF LockInv
<1> QED BY <1>1, <1>2

(* Were everyone in X waiting for a lock held in X, the ranks waited for    *)
(* would have no greatest.                                                  *)
LEMMA OrderBreaksCycles == LockInv => NoCircularWait
<1> SUFFICES ASSUME LockInv, NEW X \in SUBSET Threads, X # {},
                    \A th \in X : \E u \in X : want[th] \in held[u]
             PROVE FALSE
  BY DEF NoCircularWait
<1> DEFINE waited == {Rank[want[th]] : th \in X}
<1>1. \A th \in X : want[th] \in Locks
  BY DEF LockInv
<1>2. waited \subseteq 1..11 /\ waited # {}
  BY <1>1, RankBounds
<1>3. \A th \in X : \E u \in X : Rank[want[th]] < Rank[want[u]]
  BY <1>1, NoLockOutside DEF LockInv
<1>4. \A r \in waited : \E s \in waited : r < s
  BY <1>3
<1> HIDE DEF waited
<1>5. 11 \notin waited /\ 10 \notin waited /\ 9 \notin waited
  BY <1>2, <1>4
<1>6. 8 \notin waited /\ 7 \notin waited /\ 6 \notin waited
  BY <1>2, <1>4, <1>5
<1>7. 5 \notin waited /\ 4 \notin waited /\ 3 \notin waited
  BY <1>2, <1>4, <1>5, <1>6
<1>8. 2 \notin waited /\ 1 \notin waited
  BY <1>2, <1>4, <1>5, <1>6, <1>7
<1>9. PICK r \in waited : r \in 1..11
  BY <1>2
<1>10. \/ r = 11 \/ r = 10 \/ r = 9 \/ r = 8 \/ r = 7 \/ r = 6
       \/ r = 5 \/ r = 4 \/ r = 3 \/ r = 2 \/ r = 1
  BY <1>9
<1> QED BY <1>5, <1>6, <1>7, <1>8, <1>9, <1>10

(* Deadlock freedom: with the locks of onClientAdvertise, onSubscribe,      *)
(* rosMessageHandler, updateAdvertisedTopics, sweepExpiredServiceCalls and  *)
(* the sessions' classifier taken in rank order, no set of threads waits in *)
(* a circle.                                                                *)
THEOREM LockOrderPreventsDeadlock == LocksSpec => []NoCircularWait
<1>1. LocksInit => LockInv
  BY NoLockOutside DEF LocksInit, LockInv
<1>2. LockInv /\ [\E th \in Threads : Step(th)]_lockVars => LockInv'
  BY LockInvInductive
<1>3. LockInv => NoCircularWait
  BY OrderBreaksCycles
<1> QED BY <1>1, <1>2, <1>3, PTL DEF LocksSpec
=============================================================================
