------------------------------ MODULE LockOrder ------------------------------
(***************************************************************************)
(* The order in which threads take the mutexes of the bridge and those of  *)
(* the SDK and roscpp that its calls meet.  Abstract: a thread that waits  *)
(* for a lock holds only locks that come before it.                        *)
(***************************************************************************)
EXTENDS Naturals

CONSTANT Threads

(* The outermost lock has the lowest rank.  "gateway" is the gateway's      *)
(* subscription lock, "callbacks" roscpp's lock of a subscriber whose       *)
(* callback runs, "registry" the SDK's channel registry, "session" what a   *)
(* gateway session makes channel.log() wait for, "pendingCall" the mutex of *)
(* one pending service call.                                                *)
Rank == [gateway |-> 1, callbacks |-> 2, ads |-> 3, subscriptions |-> 4,
         descriptions |-> 5, registry |-> 6, session |-> 7, latched |-> 8,
         poll |-> 9, pendingCalls |-> 10, pendingCall |-> 11]

Locks == DOMAIN Rank

NoLock == "none"

VARIABLES
  held,  \* the locks a thread holds
  want   \* the lock it waits for, NoLock if it waits for none

lockVars == <<held, want>>

Free(l) == \A th \in Threads : l \notin held[th]

(* A thread gets the lock it wants, for good or for a critical section that *)
(* is over at once; or it wants none and may release one.                   *)
Step(th) ==
  /\ \E l \in Locks \cup {NoLock} : want' = [want EXCEPT ![th] = l]
  /\ \/ /\ want[th] # NoLock /\ Free(want[th])
        /\ \/ held' = [held EXCEPT ![th] = @ \cup {want[th]}]
           \/ UNCHANGED held
     \/ /\ want[th] = NoLock
        /\ \/ \E l \in held[th] : held' = [held EXCEPT ![th] = @ \ {l}]
           \/ UNCHANGED held
  /\ want'[th] # NoLock => \A l \in held'[th] : Rank[l] < Rank[want'[th]]

LocksInit ==
  /\ held = [th \in Threads |-> {}]
  /\ want = [th \in Threads |-> NoLock]

LocksSpec == LocksInit /\ [][\E th \in Threads : Step(th)]_lockVars

(* In no set of threads does everyone wait for a lock that somebody of the  *)
(* set holds.                                                               *)
NoCircularWait ==
  \A X \in SUBSET Threads :
    X # {} => \E th \in X : \A u \in X : want[th] \notin held[u]
=============================================================================
