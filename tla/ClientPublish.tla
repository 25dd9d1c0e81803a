----------------------------- MODULE ClientPublish -----------------------------
(***************************************************************************)
(* Publishing by clients: onClientAdvertise, onClientUnadvertise and       *)
(* onClientMessage, next to the bridge's other operations that nest locks. *)
(*                                                                         *)
(* An operation is the sequence of what it still has to do; Under is the   *)
(* scope of a lock_guard.  A critical section that takes no other lock is  *)
(* one step.  External: the SDK's and roscpp's own locks, as the comments  *)
(* of the source describe them; the SDK's list of client channels; the ROS *)
(* publication of a topic, which lives as long as a handle of it.          *)
(***************************************************************************)
EXTENDS Sequences, FiniteSets

CONSTANTS
  PollThreads, Sdk, Spinners, Sessions, \* threads
  Keys,      \* ClientChannelKey: channel, client and transport
  Types,     \* types a client may advertise the topic with
  Known,     \* those whose message description is found
  None

Threads == PollThreads \cup Sdk \cup Spinners \cup Sessions

ASSUME PublishAssumption ==
  /\ Known \subseteq Types
  /\ None \notin Types \cup Threads
  /\ Sdk \cap (PollThreads \cup Spinners \cup Sessions) = {}

Locks == {"gateway", "callbacks", "ads", "subscriptions", "descriptions",
          "registry", "session", "latched", "poll", "pendingCalls", "pendingCall"}

VARIABLES
  todo,     \* what a thread's operation still has to do
  owner,    \* the thread that holds a lock, None if free
  job,      \* the key and type of a client's request, by SDK thread
  ads,      \* _clientAdvertisedTopics: a key's type, None if no entry
  copy,     \* onClientMessage's copy of the publisher, by its type
  live,     \* type of the topic's publication in roscpp, None if none
  channel   \* what the SDK knows of a client's channel

lockState == <<todo, owner>>
clientVars == <<job, ads, copy, live, channel>>
vars == <<lockState, clientVars>>

Lock(l) == [do |-> "lock", at |-> l]
Unlock(l) == [do |-> "unlock", at |-> l]
Touch(l) == <<[do |-> "touch", at |-> l]>>
Do(what) == <<[do |-> what, at |-> "-"]>>
Under(l, body) == <<Lock(l)>> \o body \o <<Unlock(l)>>

-----------------------------------------------------------------------------
(* The operations *)

(* classifyRemoteAccessQos, called from inside a gateway session; a topic   *)
(* that is reliable by its name does not get to the lock.                   *)
ClassifyQos == Touch("latched")
SessionAdvertises == Under("session", ClassifyQos)

(* channel.log() and RawChannel::create(). *)
Log == Under("registry", Touch("session"))
CreateChannel == Under("registry", SessionAdvertises)

OnSubscribe == Under("subscriptions", Log)

(* The released subscriber is destroyed outside _subscriptionsMutex, which  *)
(* waits for its callback.                                                  *)
OnUnsubscribe == Under("subscriptions", Touch("latched")) \o Touch("callbacks")

RosMessageHandler ==
  Under("callbacks", Under("subscriptions", Touch("latched") \o Log))

(* channel.close() makes the gateway call onUnsubscribe. *)
CloseChannel == Under("gateway", OnUnsubscribe)

(* Wrong variant: removed channels are closed under the mutex. *)
RemoveAndClose == Under("subscriptions", Touch("latched") \o CloseChannel)

RemoveChannels == Under("subscriptions", Touch("latched")) \o CloseChannel

UpdateAdvertisedTopics ==
  RemoveChannels \o Touch("callbacks")
    \o Under("subscriptions", Touch("descriptions") \o CreateChannel)

(* The poll thread looks at each call under the list's lock.                *)
SweepExpiredServiceCalls == Under("pendingCalls", Touch("pendingCall"))

OnClientAdvertise ==
  Under("ads", Do("check") \o Touch("descriptions") \o Do("advertise")
                 \o Touch("poll"))

OnClientUnadvertise == Under("ads", Do("erase"))

OnClientMessage == Under("ads", Do("find")) \o Do("publish")

-----------------------------------------------------------------------------
(* Running an operation *)

Begin(th, operation) ==
  /\ todo[th] = <<>>
  /\ todo' = [todo EXCEPT ![th] = operation]
  /\ UNCHANGED owner

At(th, what) == todo[th] # <<>> /\ Head(todo[th]).do = what

Next1(th) == todo' = [todo EXCEPT ![th] = Tail(@)]

(* Wait for a lock, or release it. *)
LockStep(th) ==
  LET l == Head(todo[th]).at IN
  /\ \/ At(th, "lock") /\ owner[l] = None /\ owner' = [owner EXCEPT ![l] = th]
     \/ At(th, "touch") /\ owner[l] = None /\ UNCHANGED owner
     \/ At(th, "unlock") /\ owner' = [owner EXCEPT ![l] = None]
  /\ Next1(th)
  /\ UNCHANGED clientVars

(* An exception leaves the one scope that a handler throws in. *)
Throw(th) ==
  /\ todo' = [todo EXCEPT ![th] = <<Unlock("ads")>>]
  /\ UNCHANGED owner

-----------------------------------------------------------------------------
(* Clients (external).  The SDK handles one request of a channel at a time, *)
(* except that a client may leave while its last message is handled.        *)

Busy(k, kinds) == \E th \in Sdk : job[th].key = k /\ job[th].kind \in kinds

Request(th, kind, k, ty, operation) ==
  /\ Begin(th, operation)
  /\ job' = [job EXCEPT ![th] = [kind |-> kind, key |-> k, type |-> ty]]

ClientAdvertises(th, k, ty) ==
  /\ ~Busy(k, {"advertise", "unadvertise", "message"})
  /\ Request(th, "advertise", k, ty, OnClientAdvertise)
  /\ UNCHANGED <<ads, copy, live, channel>>

ClientUnadvertises(th, k) ==
  /\ channel[k] # "none" /\ ~Busy(k, {"advertise", "unadvertise"})
  /\ Request(th, "unadvertise", k, None, OnClientUnadvertise)
  /\ channel' = [channel EXCEPT ![k] = "none"]
  /\ UNCHANGED <<ads, copy, live>>

ClientSends(th, k) ==
  /\ channel[k] # "none" /\ ~Busy(k, {"advertise", "unadvertise", "message"})
  /\ Request(th, "message", k, None, OnClientMessage)
  /\ UNCHANGED <<ads, copy, live, channel>>

ClientSubscribes(th) ==
  /\ \E operation \in {OnSubscribe, OnUnsubscribe, Under("gateway", OnSubscribe),
                       Under("gateway", OnUnsubscribe)} : Begin(th, operation)
  /\ UNCHANGED clientVars

(* The callback returns. *)
Idle == [kind |-> "idle", key |-> None, type |-> None]

Return(th) ==
  /\ todo[th] = <<>> /\ job[th] # Idle
  /\ job' = [job EXCEPT ![th] = Idle]
  /\ UNCHANGED <<lockState, ads, copy, live, channel>>

-----------------------------------------------------------------------------
(* What the handlers do under _clientAdvertisementsMutex *)

Handles == {ads[k] : k \in Keys} \cup {copy[th] : th \in Sdk}

(* roscpp drops the publication with its last handle. *)
ReleaseLive == live' = IF Handles' \subseteq {None} THEN None ELSE live

(* Wrong variant: the transport is not part of the key. *)
EntryOfAny(k) == LET same == {x \in Keys : ads[x] # None} IN
                 IF same = {} THEN k ELSE CHOOSE x \in same : TRUE

Entry(k) == k

(* The key is taken already. *)
Check(th) ==
  /\ At(th, "check")
  /\ IF ads[Entry(job[th].key)] # None THEN Throw(th) ELSE Next1(th) /\ UNCHANGED owner
  /\ UNCHANGED clientVars

(* No description, or roscpp refuses: with the topic advertised as another  *)
(* type, or for reasons of its own.  An unsupported encoding, found before  *)
(* the lock is taken, ends the same way.                                    *)
AdvertiseFails(th) ==
  /\ At(th, "advertise")
  /\ Throw(th)
  /\ channel' = [channel EXCEPT ![job[th].key] = "refused"]
  /\ UNCHANGED <<job, ads, copy, live>>

Advertise(th) ==
  /\ At(th, "advertise")
  /\ job[th].type \in Known /\ live \in {None, job[th].type}
  /\ ads' = [ads EXCEPT ![Entry(job[th].key)] = job[th].type]
  /\ live' = job[th].type
  /\ channel' = [channel EXCEPT ![job[th].key] = "open"]
  /\ Next1(th)
  /\ UNCHANGED <<owner, job, copy>>

(* An unknown key throws, here and in Find. *)
Erase(th) ==
  /\ At(th, "erase")
  /\ IF ads[Entry(job[th].key)] = None THEN Throw(th) ELSE Next1(th) /\ UNCHANGED owner
  /\ ads' = [ads EXCEPT ![Entry(job[th].key)] = None]
  /\ UNCHANGED <<job, copy, channel>>
  /\ ReleaseLive

(* Wrong variant: the handler keeps no handle of its own. *)
CopiedNot(th) == UNCHANGED copy

Copied(th) == copy' = [copy EXCEPT ![th] = ads[Entry(job[th].key)]]

Find(th) ==
  /\ At(th, "find")
  /\ IF ads[Entry(job[th].key)] = None
       THEN Throw(th) /\ UNCHANGED <<job, copy>>
       ELSE /\ Copied(th)
            /\ job' = [job EXCEPT ![th].type = ads[Entry(job[th].key)]]
            /\ Next1(th) /\ UNCHANGED owner
  /\ UNCHANGED <<ads, live, channel>>

(* publish(), outside the lock; the copy is gone when the handler returns.  *)
Publish(th) ==
  /\ At(th, "publish")
  /\ copy' = [copy EXCEPT ![th] = None]
  /\ Next1(th)
  /\ UNCHANGED <<owner, job, ads, channel>>
  /\ ReleaseLive

-----------------------------------------------------------------------------
Init ==
  /\ todo = [th \in Threads |-> <<>>]
  /\ owner = [l \in Locks |-> None]
  /\ job = [th \in Sdk |-> Idle]
  /\ ads = [k \in Keys |-> None] /\ copy = [th \in Sdk |-> None]
  /\ live = None /\ channel = [k \in Keys |-> "none"]

Clients(th) ==
  \/ \E k \in Keys :
       \/ \E ty \in Types : ClientAdvertises(th, k, ty)
       \/ ClientUnadvertises(th, k)
       \/ ClientSends(th, k)
  \/ job[th] = Idle /\ ClientSubscribes(th)

Handler(th) ==
  \/ Check(th)
  \/ AdvertiseFails(th)
  \/ Advertise(th)
  \/ Erase(th)
  \/ Find(th)
  \/ Publish(th)
  \/ Return(th)

Background(th) ==
  /\ \/ /\ th \in PollThreads
        /\ \/ Begin(th, UpdateAdvertisedTopics)
           \/ Begin(th, SweepExpiredServiceCalls)
     \/ th \in Spinners /\ Begin(th, RosMessageHandler)
     \/ th \in Sessions /\ Begin(th, SessionAdvertises)
  /\ UNCHANGED clientVars

ThreadStep(th) ==
  \/ th \in Sdk /\ (Clients(th) \/ Handler(th))
  \/ LockStep(th)
  \/ Background(th)

Next == \E th \in Threads : ThreadStep(th)

Spec == Init /\ [][Next]_vars

-----------------------------------------------------------------------------
(* Properties *)

(* Once the callbacks for a channel have returned, the bridge has an entry  *)
(* for it exactly if the SDK has it open: no channel refused half-way, and  *)
(* no client that left, leaves an entry behind, and channels of the two     *)
(* transports with equal ids are kept apart.                                *)
AdvertisedFollowsSdk ==
  \A k \in Keys :
    ~Busy(k, {"advertise", "unadvertise"}) =>
      (ads[k] # None <=> channel[k] = "open")

(* A message the handler has accepted goes out on a publication of the type *)
(* it was accepted for, though the advertisement may be removed, and the    *)
(* topic advertised anew, before it does.                                   *)
MessageGoesOut ==
  \A th \in Sdk : At(th, "publish") => live = job[th].type

HeldLocks(th) == {l \in Locks : owner[l] = th}

Awaited(th) ==
  IF At(th, "lock") \/ At(th, "touch") THEN Head(todo[th]).at ELSE "none"

Order == INSTANCE LockOrder
           WITH held <- [th \in Threads |-> HeldLocks(th)],
                want <- [th \in Threads |-> Awaited(th)]

(* All threads keep to one order of the bridge's locks, the SDK's and       *)
(* roscpp's; so, by LockOrderProofs, they never all wait for one another.   *)
KeepsLockOrder == Order!LocksSpec
=============================================================================
