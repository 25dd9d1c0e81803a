------------------------- MODULE SubscriptionsProofs -------------------------
(***************************************************************************)
(* Proofs about Subscriptions, for any topics, types, clients, publishers  *)
(* and bounds.                                                             *)
(***************************************************************************)
EXTENDS Subscriptions, TLAPS

-----------------------------------------------------------------------------
(* Operators of the model *)

(* roscpp hands out a subscriber that is not in use. *)
LEMMA NewSubFresh ==
  Alive # SubIds => NewSub \in SubIds /\ NewSub \notin Alive
BY DEF NewSub, Alive

(* A queue that drops its oldest message when full stays within its length. *)
LEMMA EnqueueBounded ==
  ASSUME NEW q \in Seq(Message), NEW m \in Message, Len(q) <= QueueLen
  PROVE  Enqueue(q, m) \in Seq(Message) /\ Len(Enqueue(q, m)) <= QueueLen
<1>1. QueueLen \in Nat \ {0}
  BY ConstantsAssumption
<1>2. CASE Len(q) < QueueLen
  BY <1>1, <1>2 DEF Enqueue
<1>3. CASE ~(Len(q) < QueueLen)
  <2>1. q # <<>> /\ Len(q) = QueueLen
    BY <1>1, <1>3
  <2>2. Tail(q) \in Seq(Message) /\ Len(Tail(q)) = QueueLen - 1
    BY <1>1, <2>1
  <2> QED BY <1>1, <1>3, <2>2 DEF Enqueue
<1> QED BY <1>2, <1>3

-----------------------------------------------------------------------------
(* Type correctness *)

LEMMA TypeInit == Init => TypeOK
BY ConstantsAssumption
DEF Init, TypeOK, RosTypes, SubTypes, SdkTypes, MapTypes, ClientTypes,
    ChanTypes, PollTypes, NoView, Foreign, ChannelIds

(* Destroying a subscriber leaves roscpp's state well typed. *)
LEMMA DestroyTypes ==
  ASSUME SubTypes, NEW s, Destroy(s)
  PROVE  SubTypes'
<1> USE ConstantsAssumption DEF Destroy, SubTypes
<1>1. <<>> \in Seq(Message) /\ Len(<<>>) = 0
  OBVIOUS
<1>2. queue' \in [SubIds -> Seq(Message)]
  BY <1>1
<1>3. \A r \in SubIds : Len(queue'[r]) <= QueueLen
  BY <1>1
<1>4. md5' \in [Topics -> Types \cup {None}]
  <2> DEFINE t == topicOf[subChan[s]]
  <2>1. CASE t \in Topics
    BY <2>1
  <2>2. CASE t \notin Topics
    BY <2>2
  <2> QED BY <2>1, <2>2
<1>5. /\ subChan' \in [SubIds -> ChannelIds \cup {0}]
      /\ connected' \in [SubIds -> SUBSET Callers]
      /\ inflight' \in [SubIds -> Message \cup {None}]
  OBVIOUS
<1> QED BY <1>2, <1>3, <1>4, <1>5

(* Taking a client off an entry leaves _subscriptions well typed. *)
LEMMA UnregisterTypes ==
  ASSUME MapTypes, NEW c, NEW ch \in ChannelIds, Unregister(c, ch)
  PROVE  MapTypes'
<1> USE ConstantsAssumption DEF MapTypes
<1>1. NoView \in [Callers -> 0..MaxMsgs]
  BY DEF NoView
<1>2. Without(clientIds[ch], c) \in SUBSET Clients
  BY DEF Without
<1>3. CASE Without(clientIds[ch], c) = {}
  BY <1>1, <1>3 DEF Unregister, EraseEntry
<1>4. CASE Without(clientIds[ch], c) # {}
  BY <1>2, <1>4 DEF Unregister
<1> QED BY <1>3, <1>4

(* A client thread that runs a callback has a channel. *)
LEMMA BusyHasChannel ==
  ASSUME SdkTypes, NEW c \in Clients, pc[c] # "idle"
  PROVE  callChan[c] \in ChannelIds
BY DEF SdkTypes

(* The message of a running callback. *)
LEMMA InflightIsMessage ==
  ASSUME SubTypes, NEW s \in SubIds, inflight[s] # None
  PROVE  /\ inflight[s] \in Message
         /\ inflight[s].caller \in Callers
         /\ inflight[s].seq \in 1..MaxMsgs
         /\ inflight[s].seq \in 0..MaxMsgs /\ inflight[s].seq # 0
BY ConstantsAssumption DEF SubTypes, Message

(* A group of variables that a step leaves alone keeps its types. *)
LEMMA TypesUnchanged ==
  /\ RosTypes /\ UNCHANGED rosVars => RosTypes'
  /\ SubTypes /\ UNCHANGED subVars => SubTypes'
  /\ SdkTypes /\ UNCHANGED sdkVars => SdkTypes'
  /\ MapTypes /\ UNCHANGED mapVars => MapTypes'
  /\ ClientTypes /\ UNCHANGED <<view, releasing, unreplayed>> => ClientTypes'
  /\ ChanTypes /\ UNCHANGED chanVars => ChanTypes'
  /\ PollTypes /\ UNCHANGED pollVars => PollTypes'
BY DEF RosTypes, SubTypes, SdkTypes, MapTypes, ClientTypes, ChanTypes,
       PollTypes, rosVars, subVars, sdkVars, mapVars, chanVars, pollVars

LEMMA TypeStep == TypeOK /\ [Next]_vars => TypeOK'
<1> SUFFICES ASSUME TypeOK, [Next]_vars PROVE TypeOK'
  OBVIOUS
<1> USE ConstantsAssumption, TypesUnchanged DEF TypeOK
<1>1. CASE UNCHANGED vars
  BY <1>1 DEF vars
<1>2. ASSUME NEW t \in Topics, NEW ty \in Types \cup {None}, TopicChange(t, ty)
      PROVE TypeOK'
  <2>1. RosTypes'
    BY <1>2 DEF TopicChange, RosTypes
  <2>2. SubTypes'
    BY <1>2 DEF TopicChange, SubTypes
  <2> QED BY <1>2, <2>1, <2>2
    DEF TopicChange, rosVars, subVars, sdkVars, mapVars, chanVars, pollVars
<1>3. ASSUME NEW p \in Callers, Publish(p) PROVE TypeOK'
  <2>1. RosTypes'
    BY <1>3 DEF Publish, RosTypes
  <2>2. SubTypes'
    <3> DEFINE m == [caller |-> p, seq |-> sent[p] + 1]
    <3>1. m \in Message
      BY <1>3 DEF Publish, Message, RosTypes
    <3>2. \A r \in SubIds : queue[r] \in Seq(Message) /\ Len(queue[r]) <= QueueLen
      BY DEF SubTypes
    <3>3. \A r \in SubIds : /\ Enqueue(queue[r], m) \in Seq(Message)
                            /\ Len(Enqueue(queue[r], m)) <= QueueLen
      BY <3>1, <3>2, EnqueueBounded
    <3> HIDE DEF m
    <3>4. queue' \in [SubIds -> Seq(Message)]
      BY <1>3, <3>2, <3>3 DEF Publish, m
    <3>5. \A r \in SubIds : Len(queue'[r]) <= QueueLen
      BY <1>3, <3>2, <3>3 DEF Publish, m
    <3> QED BY <1>3, <3>4, <3>5 DEF Publish, SubTypes
  <2> QED BY <1>3, <2>1, <2>2
    DEF Publish, rosVars, subVars, sdkVars, mapVars, chanVars, pollVars
<1>4. ASSUME NEW s \in SubIds, NEW p \in Callers, Connect(s, p) PROVE TypeOK'
  <2>1. SubTypes'
    <3> DEFINE m == [caller |-> p, seq |-> last[p]]
    <3>1. last[p] # 0 => m \in Message
      BY DEF Message, RosTypes
    <3>2. \A r \in SubIds : queue[r] \in Seq(Message) /\ Len(queue[r]) <= QueueLen
      BY DEF SubTypes
    <3>3. last[p] # 0 => /\ Enqueue(queue[s], m) \in Seq(Message)
                         /\ Len(Enqueue(queue[s], m)) <= QueueLen
      BY <3>1, <3>2, EnqueueBounded
    <3> HIDE DEF m
    <3>4. queue' \in [SubIds -> Seq(Message)]
      BY <1>4, <3>3 DEF Connect, SubTypes, m
    <3>5. \A r \in SubIds : Len(queue'[r]) <= QueueLen
      BY <1>4, <3>2, <3>3 DEF Connect, SubTypes, m
    <3>6. md5' \in [Topics -> Types \cup {None}]
      BY <1>4 DEF Connect, SubTypes, RosTypes
    <3>7. connected' \in [SubIds -> SUBSET Callers]
      BY <1>4 DEF Connect, SubTypes
    <3> QED BY <1>4, <3>4, <3>5, <3>6, <3>7 DEF Connect, SubTypes
  <2> QED BY <1>4, <2>1
    DEF Connect, rosVars, subVars, sdkVars, mapVars, chanVars, pollVars
<1>5. ASSUME NEW c \in Clients, NEW ch \in ChannelIds, ClientSubscribe(c, ch)
      PROVE TypeOK'
  <2>1. SdkTypes'
    BY <1>5 DEF ClientSubscribe, SdkTypes, ChannelIds
  <2>2. ClientTypes'
    BY <1>5 DEF ClientSubscribe, ClientTypes, NoView
  <2> QED BY <1>5, <2>1, <2>2
    DEF ClientSubscribe, rosVars, subVars, sdkVars, mapVars, chanVars, pollVars
<1>6. ASSUME NEW c \in Clients, NEW ch \in ChannelIds, ClientUnsubscribe(c, ch)
      PROVE TypeOK'
  <2>1. SdkTypes'
    BY <1>6 DEF ClientUnsubscribe, SdkTypes, ChannelIds
  <2> QED BY <1>6, <2>1
    DEF ClientUnsubscribe, rosVars, subVars, sdkVars, mapVars, chanVars, pollVars
<1>7. ASSUME NEW c \in Clients, OnSubscribeUnknown(c) PROVE TypeOK'
  <2>1. SdkTypes'
    BY <1>7 DEF OnSubscribeUnknown, SdkTypes, Return
  <2> QED BY <1>7, <2>1
    DEF OnSubscribeUnknown, rosVars, subVars, sdkVars, mapVars, chanVars, pollVars
<1>8. ASSUME NEW c \in Clients, OnSubscribeFirst(c) PROVE TypeOK'
  <2>1. SubTypes'
    BY <1>8, NewSubFresh DEF OnSubscribeFirst, SubTypes, SdkTypes
  <2>2. SdkTypes'
    BY <1>8 DEF OnSubscribeFirst, SdkTypes, Return
  <2>3. MapTypes'
    BY <1>8, NewSubFresh DEF OnSubscribeFirst, MapTypes, NoView, SdkTypes
  <2> QED BY <1>8, <2>1, <2>2, <2>3
    DEF OnSubscribeFirst, rosVars, subVars, sdkVars, mapVars, chanVars, pollVars
<1>9. ASSUME NEW c \in Clients, NEW h \in BOOLEAN, OnSubscribeJoin(c, h)
      PROVE TypeOK'
  <2>1. SdkTypes'
    BY <1>9 DEF OnSubscribeJoin, SdkTypes, Return
  <2>2. MapTypes'
    BY <1>9 DEF OnSubscribeJoin, MapTypes
  <2>3. ClientTypes'
    <3>1. callChan[c] \in ChannelIds
      BY <1>9, BusyHasChannel DEF OnSubscribeJoin
    <3>2. ASSUME NEW v \in [Callers -> 0..MaxMsgs]
          PROVE Replay(v, callChan[c]) \in [Callers -> 0..MaxMsgs]
      BY <3>1 DEF Replay, MapTypes
    <3>3. view[c][callChan[c]] \in [Callers -> 0..MaxMsgs]
      BY <3>1 DEF ClientTypes
    <3>4. view' \in [Clients -> [ChannelIds -> [Callers -> 0..MaxMsgs]]]
      BY <1>9, <3>1, <3>2, <3>3 DEF OnSubscribeJoin, ClientTypes
    <3> QED BY <1>9, <3>1, <3>4 DEF OnSubscribeJoin, ClientTypes
  <2> QED BY <1>9, <2>1, <2>2, <2>3
    DEF OnSubscribeJoin, rosVars, subVars, sdkVars, mapVars, chanVars, pollVars
<1>10. ASSUME NEW c \in Clients, OnUnsubscribe(c) PROVE TypeOK'
  <2>1. SdkTypes'
    BY <1>10 DEF OnUnsubscribe, SdkTypes, Return
  <2>2. MapTypes'
    <3>1. callChan[c] \in ChannelIds
      BY <1>10, BusyHasChannel DEF OnUnsubscribe
    <3> QED BY <1>10, <3>1, UnregisterTypes, TypesUnchanged DEF OnUnsubscribe
  <2>3. ClientTypes'
    <3>1. callChan[c] \in ChannelIds
      BY <1>10, BusyHasChannel DEF OnUnsubscribe
    <3>2. subOf[callChan[c]] \in SubIds \cup {None}
      BY <3>1 DEF MapTypes
    <3> QED BY <1>10, <3>2 DEF OnUnsubscribe, ClientTypes
  <2> QED BY <1>10, <2>1, <2>2, <2>3
    DEF OnUnsubscribe, rosVars, subVars, sdkVars, mapVars, chanVars, pollVars
<1>11. ASSUME NEW c \in Clients, ReleaseSubscription(c) PROVE TypeOK'
  <2>1. SubTypes'
    BY <1>11, DestroyTypes DEF ReleaseSubscription
  <2>2. SdkTypes'
    BY <1>11 DEF ReleaseSubscription, SdkTypes, Return
  <2>3. ClientTypes'
    BY <1>11 DEF ReleaseSubscription, ClientTypes
  <2> QED BY <1>11, <2>1, <2>2, <2>3
    DEF ReleaseSubscription, rosVars, subVars, sdkVars, mapVars, chanVars, pollVars
<1>12. ASSUME NEW s \in SubIds, TakeMessage(s) PROVE TypeOK'
  <2>1. SubTypes'
    BY <1>12 DEF TakeMessage, SubTypes
  <2> QED BY <1>12, <2>1
    DEF TakeMessage, rosVars, subVars, sdkVars, mapVars, chanVars, pollVars
<1>13. ASSUME NEW s \in SubIds, RosMessageHandler(s) PROVE TypeOK'
  <2>1. SubTypes'
    BY <1>13 DEF RosMessageHandler, SubTypes
  <2>2. MapTypes'
    <3> DEFINE m == inflight[s]
    <3>1. m.caller \in Callers /\ m.seq \in 0..MaxMsgs
      BY <1>13, InflightIsMessage DEF RosMessageHandler
    <3>2. subChan[s] \in ChannelIds
      BY <1>13 DEF RosMessageHandler, Alive, SubTypes
    <3> HIDE DEF m
    <3>3. [cache EXCEPT ![subChan[s]][m.caller] = m.seq]
            \in [ChannelIds -> [Callers -> 0..MaxMsgs]]
      BY <3>1 DEF MapTypes
    <3>4. cache' \in {cache, [cache EXCEPT ![subChan[s]][m.caller] = m.seq]}
      BY <1>13, Zenon DEF RosMessageHandler, m
    <3>5. cache' \in [ChannelIds -> [Callers -> 0..MaxMsgs]]
      BY <3>3, <3>4 DEF MapTypes
    <3>6. latchedChannels' \in {latchedChannels, latchedChannels \cup {subChan[s]}}
      BY <1>13, Zenon DEF RosMessageHandler
    <3> QED BY <1>13, <3>2, <3>5, <3>6 DEF RosMessageHandler, MapTypes
  <2>3. ClientTypes'
    <3> DEFINE m == inflight[s]
    <3>1. m.caller \in Callers /\ m.seq \in 0..MaxMsgs
      BY <1>13, InflightIsMessage DEF RosMessageHandler
    <3>2. \A c \in Clients : view[c] \in [ChannelIds -> [Callers -> 0..MaxMsgs]]
      BY DEF ClientTypes
    <3> HIDE DEF m
    <3>3. \A c \in Clients : [view[c] EXCEPT ![subChan[s]][m.caller] = m.seq]
                             \in [ChannelIds -> [Callers -> 0..MaxMsgs]]
      BY <3>1, <3>2
    <3>4. view' \in [Clients -> [ChannelIds -> [Callers -> 0..MaxMsgs]]]
      <4>1. \/ view' = view
            \/ view' = [c \in Clients |->
                         IF <<c, subChan[s]>> \in sdkSubs
                           THEN [view[c] EXCEPT ![subChan[s]][m.caller] = m.seq]
                           ELSE view[c]]
        BY <1>13, Zenon DEF RosMessageHandler, m
      <4>2. \A c \in Clients :
              (IF <<c, subChan[s]>> \in sdkSubs
                 THEN [view[c] EXCEPT ![subChan[s]][m.caller] = m.seq]
                 ELSE view[c]) \in [ChannelIds -> [Callers -> 0..MaxMsgs]]
        BY <3>2, <3>3
      <4>3. view \in [Clients -> [ChannelIds -> [Callers -> 0..MaxMsgs]]]
        BY DEF ClientTypes
      <4> QED BY <4>1, <4>2, <4>3, Zenon
    <3> QED BY <1>13, <3>4 DEF RosMessageHandler, ClientTypes
  <2> QED BY <1>13, <2>1, <2>2, <2>3
    DEF RosMessageHandler, rosVars, subVars, sdkVars, mapVars, chanVars, pollVars
<1>14. CASE PollQuery
  <2>1. PollTypes'
    BY <1>14 DEF PollQuery, PollTypes, PublishedTopics
  <2> QED BY <1>14, <2>1
    DEF PollQuery, rosVars, subVars, sdkVars, mapVars, chanVars, pollVars
<1>15. CASE RemoveChannels
  <2>1. MapTypes'
    BY <1>15 DEF RemoveChannels, MapTypes, NoView
  <2>2. ChanTypes'
    BY <1>15 DEF RemoveChannels, ChanTypes, Gone
  <2>3. PollTypes'
    <3>1. Gone \subseteq ChannelIds
      BY DEF Gone, ChanTypes
    <3>2. {subOf[ch] : ch \in Gone} \ {None} \subseteq SubIds
      BY <3>1 DEF MapTypes
    <3> QED BY <1>15, <3>1, <3>2 DEF RemoveChannels, PollTypes
  <2> QED BY <1>15, <2>1, <2>2, <2>3
    DEF RemoveChannels, rosVars, subVars, sdkVars, mapVars, chanVars, pollVars
<1>16. ASSUME NEW ch \in ChannelIds, CloseChannel(ch) PROVE TypeOK'
  <2>1. SdkTypes'
    BY <1>16 DEF CloseChannel, SdkTypes
  <2>2. PollTypes'
    BY <1>16 DEF CloseChannel, PollTypes, SdkTypes
  <2> QED BY <1>16, <2>1, <2>2
    DEF CloseChannel, rosVars, subVars, sdkVars, mapVars, chanVars, pollVars
<1>17. ASSUME NEW c \in Clients, NEW ch \in ChannelIds, CloseCallback(c, ch)
      PROVE TypeOK'
  <2>1. MapTypes'
    BY <1>17, UnregisterTypes, TypesUnchanged DEF CloseCallback
  <2>2. PollTypes'
    BY <1>17 DEF CloseCallback, PollTypes, Released, MapTypes
  <2> QED BY <1>17, <2>1, <2>2
    DEF CloseCallback, rosVars, subVars, sdkVars, mapVars, chanVars, pollVars
<1>18. CASE CloseDone
  <2>1. PollTypes'
    BY <1>18 DEF CloseDone, PollTypes
  <2> QED BY <1>18, <2>1
    DEF CloseDone, rosVars, subVars, sdkVars, mapVars, chanVars, pollVars
<1>19. ASSUME NEW s \in SubIds, ReleaseRemoved(s) PROVE TypeOK'
  <2>1. SubTypes'
    BY <1>19, DestroyTypes DEF ReleaseRemoved
  <2>2. PollTypes'
    BY <1>19 DEF ReleaseRemoved, PollTypes
  <2> QED BY <1>19, <2>1, <2>2
    DEF ReleaseRemoved, rosVars, subVars, sdkVars, mapVars, chanVars, pollVars
<1>20. CASE AdvertiseBegin
  <2>1. PollTypes'
    BY <1>20 DEF AdvertiseBegin, PollTypes
  <2> QED BY <1>20, <2>1
    DEF AdvertiseBegin, rosVars, subVars, sdkVars, mapVars, chanVars, pollVars
<1>21. ASSUME NEW t \in Topics, NEW ty \in Types, CreateChannel(t, ty)
      PROVE TypeOK'
  <2>1. SdkTypes'
    BY <1>21 DEF CreateChannel, SdkTypes
  <2>2. ChanTypes'
    BY <1>21 DEF CreateChannel, ChanTypes, ChannelIds
  <2>3. PollTypes'
    BY <1>21 DEF CreateChannel, PollTypes
  <2> QED BY <1>21, <2>1, <2>2, <2>3
    DEF CreateChannel, rosVars, subVars, sdkVars, mapVars, chanVars, pollVars
<1>22. ASSUME NEW t \in Topics, NEW ty \in Types, CreateFails(t, ty)
      PROVE TypeOK'
  <2>1. PollTypes'
    BY <1>22 DEF CreateFails, PollTypes
  <2> QED BY <1>22, <2>1
    DEF CreateFails, rosVars, subVars, sdkVars, mapVars, chanVars, pollVars
<1>23. CASE InsertChannel
  <2>1. ChanTypes'
    BY <1>23 DEF InsertChannel, ChanTypes
  <2> QED BY <1>23, <2>1
    DEF InsertChannel, rosVars, subVars, sdkVars, mapVars, chanVars, pollVars
<1>24. CASE AdvertiseEnd
  <2>1. PollTypes'
    BY <1>24 DEF AdvertiseEnd, PollTypes
  <2> QED BY <1>24, <2>1
    DEF AdvertiseEnd, rosVars, subVars, sdkVars, mapVars, chanVars, pollVars
<1> QED
  BY <1>1, <1>2, <1>3, <1>4, <1>5, <1>6, <1>7, <1>8, <1>9, <1>10, <1>11,
     <1>12, <1>13, <1>14, <1>15, <1>16, <1>17, <1>18, <1>19, <1>20, <1>21,
     <1>22, <1>23, <1>24
  DEF Next, Environment, ClientThread, Spinner, PollThread

(* Every behaviour of the threads keeps all of the bridge's and its         *)
(* libraries' state well typed.                                             *)
THEOREM TypeCorrect == Spec => []TypeOK
BY TypeInit, TypeStep, PTL DEF Spec

-----------------------------------------------------------------------------
(* The inductive invariant *)

(* What each phase of updateAdvertisedTopics has left in its locals: the    *)
(* removed channels are out of _channels before anything is closed.         *)
PollPhase ==
  /\ poll # "close" => toClose = {} /\ closeCalls = {}
  /\ poll \notin {"close", "release"} => toRelease = {}
  /\ poll # "advertise" => created = 0
  /\ \A ch \in toClose : ch \notin channels
  /\ \A x \in closeCalls : x[2] \notin channels

(* Channel ids are never reused. *)
ChannelNumbers ==
  /\ \A ch \in channels \cup sdkChannels : ch < nextChan
  /\ created < nextChan /\ created \notin channels
  /\ \A x \in sdkSubs : x[2] < nextChan
  /\ \A c \in Clients : callChan[c] < nextChan

(* What the SDK has recorded for a client whose callback is running.  Nobody *)
(* gets through onSubscribe for a channel that is not in _channels yet.      *)
CallInProgress ==
  /\ \A c \in Clients :
       /\ pc[c] = "subscribe" /\ callChan[c] \in channels \cup {created}
            => <<c, callChan[c]>> \in sdkSubs
       /\ pc[c] \in {"unsubscribe", "release"}
            => <<c, callChan[c]>> \notin sdkSubs
       /\ pc[c] = "release" => c \notin clientIds[callChan[c]]
  /\ created # 0 => \A c \in Clients : <<c, created>> \in sdkSubs
                                        => callChan[c] = created

(* Who owns which subscriber. *)
Owned ==
  /\ \A ch \in ChannelIds : subOf[ch] # None => subChan[subOf[ch]] = ch
  /\ \A c \in Clients : releasing[c] # None <=> pc[c] = "release"
  /\ \A c \in Clients : releasing[c] # None =>
       /\ subChan[releasing[c]] # 0 /\ releasing[c] \notin toRelease
       /\ subOf[subChan[releasing[c]]] # releasing[c]
       /\ \A d \in Clients : releasing[d] = releasing[c] => d = c
  /\ \A s \in toRelease : subChan[s] # 0 /\ subOf[subChan[s]] # s
  /\ \A s \in SubIds : subChan[s] # 0 =>
       \/ subOf[subChan[s]] = s
       \/ s \in toRelease
       \/ \E c \in Clients : releasing[c] = s

(* Only publishers that latch have a message cached. *)
OnlyLatchedCached ==
  \A ch \in ChannelIds, p \in Callers : cache[ch][p] # 0 => p \in Latching

IInv ==
  /\ TypeOK /\ PollPhase /\ ChannelNumbers /\ CallInProgress /\ Owned
  /\ NoOrphanSubscription /\ LatchedChannelsExact /\ OnlyLatchedCached
  /\ RegisteredMatchesSdk /\ LateJoinerCaughtUp

LEMMA IInvInit == Init => IInv
<1> SUFFICES ASSUME Init PROVE IInv
  OBVIOUS
<1>1. TypeOK
  BY TypeInit
<1>2. PollPhase /\ ChannelNumbers
  BY ConstantsAssumption DEF Init, PollPhase, ChannelNumbers, Foreign
<1>3. CallInProgress /\ RegisteredMatchesSdk /\ LateJoinerCaughtUp
  BY DEF Init, CallInProgress, RegisteredMatchesSdk, LateJoinerCaughtUp
<1>4. Owned
  BY DEF Init, Owned
<1>5. NoOrphanSubscription /\ LatchedChannelsExact /\ OnlyLatchedCached
  BY DEF Init, NoOrphanSubscription, LatchedChannelsExact, OnlyLatchedCached,
     NoView
<1> QED BY <1>1, <1>2, <1>3, <1>4, <1>5 DEF IInv

(* The steps that change _channels, _subscriptions or _latchedChannels. *)
LEMMA MapFrame ==
  ASSUME [Next]_vars
  PROVE  \/ UNCHANGED <<channels, mapVars>>
         \/ \E c \in Clients :
              \/ OnSubscribeFirst(c) \/ OnUnsubscribe(c)
              \/ \E h \in BOOLEAN : OnSubscribeJoin(c, h)
         \/ \E s \in SubIds : RosMessageHandler(s)
         \/ \E c \in Clients, ch \in ChannelIds : CloseCallback(c, ch)
         \/ RemoveChannels
         \/ InsertChannel
BY Zenon DEF Next, vars, Environment, ClientThread, Spinner, PollThread,
   TopicChange, Publish, Connect, ClientSubscribe, ClientUnsubscribe, OnSubscribeUnknown,
   ReleaseSubscription, TakeMessage, PollQuery, CloseChannel, CloseDone,
   ReleaseRemoved, AdvertiseBegin, CreateChannel, CreateFails, AdvertiseEnd,
   mapVars, chanVars

(* Taking a client off an entry leaves every other entry alone, and an      *)
(* entry that goes takes its cache and its latched mark with it.            *)
LEMMA UnregisterEffect ==
  ASSUME MapTypes, NEW c \in Clients, NEW ch \in ChannelIds, subOf[ch] # None,
         Unregister(c, ch)
  PROVE  /\ \A d \in ChannelIds \ {ch} :
              /\ subOf'[d] = subOf[d] /\ clientIds'[d] = clientIds[d]
              /\ cache'[d] = cache[d]
              /\ d \in latchedChannels' <=> d \in latchedChannels
         /\ clientIds'[ch] = clientIds[ch] \ {c}
         /\ \/ /\ clientIds'[ch] = {} /\ subOf'[ch] = None
               /\ cache'[ch] = NoView /\ ch \notin latchedChannels'
               /\ Released(c, ch) = subOf[ch]
            \/ /\ clientIds'[ch] # {} /\ subOf'[ch] = subOf[ch]
               /\ cache'[ch] = cache[ch] /\ latchedChannels' = latchedChannels
               /\ Released(c, ch) = None
<1>1. CASE Without(clientIds[ch], c) = {}
  BY <1>1 DEF Unregister, EraseEntry, Released, Without, MapTypes
<1>2. CASE Without(clientIds[ch], c) # {}
  BY <1>2 DEF Unregister, Released, Without, MapTypes
<1> QED BY <1>1, <1>2

(* What onUnsubscribe does to the maps, on whichever thread it runs. *)
LEMMA UnsubscribeCases ==
  ASSUME SdkTypes, NEW c \in Clients, OnUnsubscribe(c)
  PROVE  /\ callChan[c] \in ChannelIds
         /\ \/ subOf[callChan[c]] = None /\ UNCHANGED mapVars
            \/ subOf[callChan[c]] # None /\ Unregister(c, callChan[c])
BY BusyHasChannel DEF OnUnsubscribe

LEMMA EntriesStep ==
  ASSUME IInv, [Next]_vars
  PROVE  NoOrphanSubscription' /\ LatchedChannelsExact'
<1> USE DEF IInv, TypeOK
<1> DEFINE Fine(ch) ==
      /\ IF subOf[ch] # None THEN ch \in channels /\ clientIds[ch] # {}
                             ELSE clientIds[ch] = {} /\ cache[ch] = NoView
      /\ ch \in latchedChannels <=> cache[ch] # NoView
<1>1. \A ch \in ChannelIds : Fine(ch)
  BY DEF NoOrphanSubscription, LatchedChannelsExact
<1> SUFFICES \A ch \in ChannelIds : Fine(ch)'
  <2>1. MapTypes'
    BY TypeStep
  <2> QED BY <2>1 DEF NoOrphanSubscription, LatchedChannelsExact, MapTypes, NoView
<1>2. CASE UNCHANGED <<channels, mapVars>>
  BY <1>1, <1>2 DEF mapVars, NoView
<1>3. ASSUME NEW c \in Clients, OnSubscribeFirst(c)
      PROVE \A ch \in ChannelIds : Fine(ch)'
  <2>1. callChan[c] \in ChannelIds /\ NewSub # None
    BY <1>3, BusyHasChannel, NewSubFresh, ConstantsAssumption
    DEF OnSubscribeFirst
  <2> QED BY <1>1, <1>3, <2>1 DEF OnSubscribeFirst, MapTypes, NoView, chanVars
<1>4. ASSUME NEW c \in Clients, NEW h \in BOOLEAN, OnSubscribeJoin(c, h)
      PROVE \A ch \in ChannelIds : Fine(ch)'
  <2>1. callChan[c] \in ChannelIds
    BY <1>4, BusyHasChannel DEF OnSubscribeJoin
  <2> QED BY <1>1, <1>4, <2>1 DEF OnSubscribeJoin, MapTypes, NoView, chanVars
<1>5. ASSUME NEW c \in Clients, NEW ch \in ChannelIds, subOf[ch] # None,
             Unregister(c, ch), UNCHANGED channels
      PROVE \A d \in ChannelIds : Fine(d)'
  BY <1>1, <1>5, UnregisterEffect DEF NoView
<1>6. ASSUME NEW c \in Clients, OnUnsubscribe(c)
      PROVE \A ch \in ChannelIds : Fine(ch)'
  <2>1. UNCHANGED channels
    BY <1>6 DEF OnUnsubscribe, chanVars
  <2> QED BY <1>2, <1>5, <1>6, <2>1, UnsubscribeCases
<1>7. ASSUME NEW s \in SubIds, RosMessageHandler(s)
      PROVE \A ch \in ChannelIds : Fine(ch)'
  <2> DEFINE m == inflight[s]
  <2>1. m.caller \in Callers /\ m.seq # 0
    BY <1>7, InflightIsMessage DEF RosMessageHandler
  <2>2. UNCHANGED <<channels, subOf, clientIds>>
    BY <1>7 DEF RosMessageHandler, chanVars
  <2>3. CASE UNCHANGED <<cache, latchedChannels>>
    BY <1>1, <2>2, <2>3 DEF NoView
  <2>4. CASE /\ subOf[subChan[s]] # None
             /\ cache' = [cache EXCEPT ![subChan[s]][m.caller] = m.seq]
             /\ latchedChannels' = latchedChannels \cup {subChan[s]}
    <3> HIDE DEF m
    <3>1. subChan[s] \in ChannelIds
      BY <1>7 DEF RosMessageHandler, Alive, SubTypes
    <3>2. cache'[subChan[s]][m.caller] # 0
      BY <2>1, <2>4, <3>1 DEF MapTypes
    <3>3. cache'[subChan[s]] # NoView
      BY <2>1, <3>2 DEF NoView
    <3> QED BY <1>1, <2>2, <2>4, <3>1, <3>3 DEF MapTypes, NoView
  <2> QED BY <1>7, <2>3, <2>4 DEF RosMessageHandler, Caches
<1>8. ASSUME NEW c \in Clients, NEW ch \in ChannelIds, CloseCallback(c, ch)
      PROVE \A d \in ChannelIds : Fine(d)'
  <2>1. UNCHANGED channels
    BY <1>8 DEF CloseCallback, chanVars
  <2> QED BY <1>2, <1>5, <1>8, <2>1 DEF CloseCallback
<1>9. CASE RemoveChannels
  BY <1>1, <1>9 DEF RemoveChannels, NoView
<1>10. CASE InsertChannel
  BY <1>1, <1>10 DEF InsertChannel, mapVars, NoView
<1> QED
  BY <1>2, <1>3, <1>4, <1>6, <1>7, <1>8, <1>9, <1>10, MapFrame

LEMMA OnlyLatchedStep ==
  ASSUME IInv, [Next]_vars
  PROVE  OnlyLatchedCached'
<1> USE DEF IInv, TypeOK, OnlyLatchedCached
<1>1. CASE UNCHANGED cache
  BY <1>1
<1>2. ASSUME NEW c \in Clients, OnSubscribeFirst(c) PROVE OnlyLatchedCached'
  BY <1>2, BusyHasChannel DEF OnSubscribeFirst, MapTypes, NoView
<1>3. ASSUME NEW c \in Clients, NEW ch \in ChannelIds, subOf[ch] # None,
             Unregister(c, ch)
      PROVE OnlyLatchedCached'
  BY <1>3, UnregisterEffect DEF NoView
<1>4. ASSUME NEW c \in Clients, OnUnsubscribe(c) PROVE OnlyLatchedCached'
  BY <1>1, <1>3, <1>4, UnsubscribeCases DEF mapVars
<1>5. ASSUME NEW s \in SubIds, RosMessageHandler(s) PROVE OnlyLatchedCached'
  <2> DEFINE m == inflight[s]
  <2>1. \/ UNCHANGED cache
        \/ m.caller \in Latching
           /\ cache' = [cache EXCEPT ![subChan[s]][m.caller] = m.seq]
    BY <1>5, Zenon DEF RosMessageHandler, Caches
  <2> HIDE DEF m
  <2> QED BY <2>1 DEF MapTypes
<1>6. ASSUME NEW c \in Clients, NEW ch \in ChannelIds, CloseCallback(c, ch)
      PROVE OnlyLatchedCached'
  BY <1>1, <1>3, <1>6 DEF CloseCallback, mapVars
<1>7. CASE RemoveChannels
  BY <1>7 DEF RemoveChannels, NoView
<1>8. (\E c \in Clients, h \in BOOLEAN : OnSubscribeJoin(c, h)) \/ InsertChannel
        => UNCHANGED cache
  BY DEF OnSubscribeJoin, InsertChannel, mapVars
<1> QED
  BY <1>1, <1>2, <1>4, <1>5, <1>6, <1>7, <1>8, MapFrame DEF mapVars

LEMMA PollStep ==
  ASSUME IInv, [Next]_vars
  PROVE  PollPhase'
<1> USE DEF IInv, PollPhase
<1>1. CASE UNCHANGED <<pollVars, channels, created>>
  BY <1>1 DEF pollVars
<1>2. CASE PollQuery
  BY <1>2 DEF PollQuery, chanVars
<1>3. CASE RemoveChannels
  BY <1>3 DEF RemoveChannels
<1>4. ASSUME NEW ch \in ChannelIds, CloseChannel(ch) PROVE PollPhase'
  BY <1>4 DEF CloseChannel, chanVars
<1>5. ASSUME NEW c \in Clients, NEW ch \in ChannelIds, CloseCallback(c, ch)
      PROVE PollPhase'
  BY <1>5 DEF CloseCallback, chanVars
<1>6. CASE CloseDone
  BY <1>6 DEF CloseDone, chanVars
<1>7. ASSUME NEW s \in SubIds, ReleaseRemoved(s) PROVE PollPhase'
  BY <1>7 DEF ReleaseRemoved, chanVars
<1>8. CASE AdvertiseBegin
  BY <1>8 DEF AdvertiseBegin, ReadyToAdvertise, chanVars
<1>9. ASSUME NEW t \in Topics, NEW ty \in Types, CreateChannel(t, ty)
      PROVE PollPhase'
  BY <1>9 DEF CreateChannel
<1>10. ASSUME NEW t \in Topics, NEW ty \in Types, CreateFails(t, ty)
       PROVE PollPhase'
  BY <1>10 DEF CreateFails, chanVars
<1>11. CASE InsertChannel
  BY <1>11 DEF InsertChannel, pollVars
<1>12. CASE AdvertiseEnd
  BY <1>12 DEF AdvertiseEnd, chanVars
<1>13. (\E c \in Clients : ClientThread(c)) => UNCHANGED <<pollVars, chanVars>>
  BY Zenon DEF ClientThread, OnSubscribeUnknown, OnSubscribeFirst, OnSubscribeJoin,
         OnUnsubscribe, ReleaseSubscription
<1>14. (\E s \in SubIds : Spinner(s)) => UNCHANGED <<pollVars, chanVars>>
  BY Zenon DEF Spinner, TakeMessage, RosMessageHandler
<1>15. Environment => UNCHANGED <<pollVars, chanVars>>
  BY Zenon DEF Environment, TopicChange, Publish, Connect, ClientSubscribe,
         ClientUnsubscribe
<1> QED
  BY <1>1, <1>2, <1>3, <1>4, <1>5, <1>6, <1>7, <1>8, <1>9, <1>10, <1>11,
     <1>12, <1>13, <1>14, <1>15
  DEF Next, vars, PollThread, chanVars

(* The steps that change what the SDK knows of clients and channels. *)
LEMMA SdkFrame ==
  ASSUME [Next]_vars
  PROVE  \/ UNCHANGED <<sdkVars, channels, clientIds, created, nextChan>>
         \/ UNCHANGED <<sdkVars, chanVars>>
            /\ \E c \in Clients, ch \in ChannelIds : CloseCallback(c, ch)
         \/ \E c \in Clients, ch \in ChannelIds :
              ClientSubscribe(c, ch) \/ ClientUnsubscribe(c, ch)
         \/ \E c \in Clients :
              \/ OnSubscribeUnknown(c) \/ OnSubscribeFirst(c)
              \/ \E h \in BOOLEAN : OnSubscribeJoin(c, h)
              \/ OnUnsubscribe(c) \/ ReleaseSubscription(c)
         \/ RemoveChannels
         \/ \E ch \in ChannelIds : CloseChannel(ch)
         \/ \E t \in Topics, ty \in Types : CreateChannel(t, ty)
         \/ InsertChannel
BY Zenon DEF Next, vars, Environment, ClientThread, Spinner, PollThread,
   TopicChange, Publish, Connect, TakeMessage, RosMessageHandler, PollQuery,
   CloseCallback, CloseDone, ReleaseRemoved, AdvertiseBegin, CreateFails,
   AdvertiseEnd, sdkVars, mapVars, chanVars

LEMMA NumbersStep ==
  ASSUME IInv, [Next]_vars
  PROVE  ChannelNumbers'
<1> USE DEF IInv, TypeOK, ChannelNumbers
<1>1. CASE UNCHANGED <<sdkVars, channels, created, nextChan>>
  BY <1>1 DEF sdkVars
<1>2. ASSUME NEW c \in Clients, NEW ch \in ChannelIds,
             ClientSubscribe(c, ch) \/ ClientUnsubscribe(c, ch)
      PROVE ChannelNumbers'
  BY <1>2 DEF ClientSubscribe, ClientUnsubscribe, chanVars, SdkTypes
<1>3. ASSUME NEW c \in Clients, Return(c), UNCHANGED <<sdkChannels, sdkSubs,
             chanVars>>
      PROVE ChannelNumbers'
  BY <1>3 DEF Return, chanVars, SdkTypes, ChanTypes
<1>4. ASSUME NEW c \in Clients, NEW h \in BOOLEAN,
             \/ OnSubscribeUnknown(c) \/ OnSubscribeFirst(c)
             \/ OnSubscribeJoin(c, h) \/ ReleaseSubscription(c)
      PROVE ChannelNumbers'
  <2>1. Return(c) /\ UNCHANGED <<sdkChannels, sdkSubs, chanVars>>
    BY <1>4, Zenon DEF OnSubscribeUnknown, OnSubscribeFirst, OnSubscribeJoin,
       ReleaseSubscription
  <2> QED BY <1>3, <2>1
<1>5. ASSUME NEW c \in Clients, OnUnsubscribe(c)
      PROVE ChannelNumbers'
  <2>1. Return(c) \/ UNCHANGED callChan
    BY <1>5 DEF OnUnsubscribe
  <2>2. UNCHANGED <<sdkChannels, sdkSubs, chanVars>>
    BY <1>5 DEF OnUnsubscribe
  <2> QED BY <1>3, <2>1, <2>2 DEF chanVars
<1>6. CASE RemoveChannels
  BY <1>6 DEF RemoveChannels, sdkVars
<1>7. ASSUME NEW ch \in ChannelIds, CloseChannel(ch) PROVE ChannelNumbers'
  BY <1>7 DEF CloseChannel, chanVars
<1>8. ASSUME NEW t \in Topics, NEW ty \in Types, CreateChannel(t, ty)
      PROVE ChannelNumbers'
  <2>1. /\ nextChan \in Nat /\ created' = nextChan /\ nextChan' = nextChan + 1
        /\ sdkChannels' = sdkChannels \cup {nextChan}
        /\ UNCHANGED <<channels, sdkSubs, callChan>>
    BY <1>8, ConstantsAssumption DEF CreateChannel, ChannelIds
  <2>2. \A n \in ChannelIds \cup {0} : n < nextChan => n < nextChan + 1
    BY <2>1, ConstantsAssumption DEF ChannelIds
  <2>3. /\ channels \cup sdkChannels \subseteq ChannelIds
        /\ \A x \in sdkSubs : x[2] \in ChannelIds
        /\ \A c \in Clients : callChan[c] \in ChannelIds \cup {0}
    BY DEF ChanTypes, SdkTypes
  <2>4. nextChan < nextChan + 1 /\ nextChan \notin channels
    BY <2>1
  <2> QED BY <2>1, <2>2, <2>3, <2>4
<1>9. CASE InsertChannel
  BY <1>9 DEF InsertChannel, sdkVars, ChanTypes, ChannelIds
<1> QED
  BY <1>1, <1>2, <1>4, <1>5, <1>6, <1>7, <1>8, <1>9, SdkFrame DEF chanVars

(* The steps of one client's callback, and of closing a channel, keep the   *)
(* SDK's record and the entry's client ids in step.                         *)
LEMMA RegistrationStep ==
  ASSUME IInv, [Next]_vars
  PROVE  CallInProgress' /\ RegisteredMatchesSdk'
<1> DEFINE Goal == CallInProgress' /\ RegisteredMatchesSdk'
<1> USE DEF IInv, TypeOK, CallInProgress, RegisteredMatchesSdk
<1>1. CASE UNCHANGED <<sdkVars, channels, clientIds, created>>
  BY <1>1 DEF sdkVars
<1>2. ASSUME NEW c \in Clients, NEW ch \in ChannelIds, CloseCallback(c, ch)
      PROVE UNCHANGED clientIds
  BY <1>2 DEF CloseCallback, PollPhase, NoOrphanSubscription, mapVars
<1>3. ASSUME NEW c \in Clients, NEW ch \in ChannelIds, ClientSubscribe(c, ch)
      PROVE Goal
  <2>1. /\ pc[c] = "idle" /\ callChan[c] = 0 /\ callChan'[c] = ch
        /\ pc'[c] = "subscribe"
        /\ \A d \in Clients \ {c} : callChan'[d] = callChan[d] /\ pc'[d] = pc[d]
        /\ sdkSubs' = sdkSubs \cup {<<c, ch>>}
        /\ UNCHANGED <<channels, clientIds, created>>
    BY <1>3 DEF ClientSubscribe, SdkTypes, mapVars, chanVars
  <2>2. 0 \notin channels /\ ch # 0
    BY DEF ChanTypes, ChannelIds
  <2>3. CallInProgress'
    BY <2>1, <2>2
  <2>4. RegisteredMatchesSdk'
    BY <2>1, <2>2
  <2> QED BY <2>3, <2>4
<1>4. ASSUME NEW c \in Clients, NEW ch \in ChannelIds, ClientUnsubscribe(c, ch)
      PROVE Goal
  <2>1. /\ pc[c] = "idle" /\ callChan[c] = 0 /\ callChan'[c] = ch
        /\ pc'[c] = "unsubscribe"
        /\ \A d \in Clients \ {c} : callChan'[d] = callChan[d] /\ pc'[d] = pc[d]
        /\ sdkSubs' = sdkSubs \ {<<c, ch>>}
        /\ UNCHANGED <<channels, clientIds, created>>
    BY <1>4 DEF ClientUnsubscribe, SdkTypes, mapVars, chanVars
  <2>2. 0 \notin channels /\ ch # 0
    BY DEF ChanTypes, ChannelIds
  <2>3. CallInProgress'
    BY <2>1, <2>2
  <2>4. RegisteredMatchesSdk'
    BY <2>1, <2>2
  <2> QED BY <2>3, <2>4
<1>5. ASSUME NEW c \in Clients, OnSubscribeUnknown(c) PROVE Goal
  <2>1. /\ created = 0 /\ callChan[c] \notin channels /\ callChan'[c] = 0
        /\ pc'[c] = "idle"
        /\ \A d \in Clients \ {c} : callChan'[d] = callChan[d] /\ pc'[d] = pc[d]
        /\ UNCHANGED <<channels, clientIds, created, sdkSubs>>
    BY <1>5 DEF OnSubscribeUnknown, Return, MutexFree, PollPhase, SdkTypes,
       mapVars, chanVars
  <2> QED BY <2>1
<1>6. ASSUME NEW c \in Clients,
             OnSubscribeFirst(c) \/ \E h \in BOOLEAN : OnSubscribeJoin(c, h)
      PROVE Goal
  <2> DEFINE ch == callChan[c]
  <2>1. /\ created = 0 /\ ch \in channels /\ pc[c] = "subscribe"
        /\ callChan'[c] = 0 /\ pc'[c] = "idle"
        /\ \A d \in Clients \ {c} : callChan'[d] = callChan[d] /\ pc'[d] = pc[d]
        /\ UNCHANGED <<channels, created, sdkSubs>>
    BY <1>6 DEF OnSubscribeFirst, OnSubscribeJoin, Return, MutexFree,
       PollPhase, SdkTypes, chanVars
  <2>2. ch \in ChannelIds
    BY <2>1 DEF ChanTypes
  <2>3. /\ clientIds'[ch] = clientIds[ch] \cup {c}
        /\ \A d \in ChannelIds \ {ch} : clientIds'[d] = clientIds[d]
    BY <1>6, <2>2 DEF OnSubscribeFirst, OnSubscribeJoin, MapTypes,
       NoOrphanSubscription
  <2>4. CallInProgress'
    <3> SUFFICES ASSUME NEW d \in Clients \ {c}, pc[d] = "release"
                 PROVE  d \notin clientIds'[callChan[d]]
      BY <2>1
    <3>1. callChan[d] \in ChannelIds
      BY BusyHasChannel
    <3> QED BY <2>3, <3>1
  <2>5. RegisteredMatchesSdk'
    BY <2>1, <2>3 DEF ChanTypes
  <2> QED BY <2>4, <2>5
<1>7. ASSUME NEW c \in Clients, OnUnsubscribe(c) PROVE Goal
  <2> DEFINE ch == callChan[c]
  <2>1. /\ created = 0 /\ pc[c] = "unsubscribe"
        /\ \/ callChan'[c] = 0 /\ pc'[c] = "idle"
           \/ callChan'[c] = ch /\ pc'[c] = "release"
        /\ \A d \in Clients \ {c} : callChan'[d] = callChan[d] /\ pc'[d] = pc[d]
        /\ UNCHANGED <<channels, created, sdkSubs>>
    BY <1>7 DEF OnUnsubscribe, Return, MutexFree, PollPhase, SdkTypes, chanVars
  <2>2. ch \in ChannelIds
    BY <1>7, UnsubscribeCases
  <2>3. /\ clientIds'[ch] = clientIds[ch] \ {c}
        /\ \A d \in ChannelIds \ {ch} : clientIds'[d] = clientIds[d]
    <3>1. CASE subOf[ch] = None /\ UNCHANGED mapVars
      BY <2>2, <3>1 DEF NoOrphanSubscription, mapVars
    <3>2. CASE subOf[ch] # None /\ Unregister(c, ch)
      BY <2>2, <3>2, UnregisterEffect
    <3> QED BY <1>7, <3>1, <3>2, UnsubscribeCases
  <2>4. CallInProgress'
    <3> SUFFICES ASSUME NEW d \in Clients \ {c}, pc[d] = "release"
                 PROVE  d \notin clientIds'[callChan[d]]
      BY <2>1, <2>3
    <3>1. callChan[d] \in ChannelIds
      BY BusyHasChannel
    <3> QED BY <2>3, <3>1
  <2>5. RegisteredMatchesSdk'
    BY <2>1, <2>3 DEF ChanTypes
  <2> QED BY <2>4, <2>5
<1>8. ASSUME NEW c \in Clients, ReleaseSubscription(c) PROVE Goal
  <2>1. /\ pc[c] = "release" /\ callChan'[c] = 0 /\ pc'[c] = "idle"
        /\ \A d \in Clients \ {c} : callChan'[d] = callChan[d] /\ pc'[d] = pc[d]
        /\ UNCHANGED <<channels, clientIds, created, sdkSubs>>
    BY <1>8 DEF ReleaseSubscription, Return, SdkTypes, mapVars, chanVars
  <2> QED BY <2>1
<1>9. CASE RemoveChannels
  <2>1. /\ created = 0 /\ channels' \subseteq channels
        /\ UNCHANGED <<created, sdkVars>>
        /\ \A ch \in ChannelIds : clientIds'[ch] \in {{}, clientIds[ch]}
        /\ \A ch \in channels' : clientIds'[ch] = clientIds[ch]
    BY <1>9 DEF RemoveChannels, Gone, PollPhase, ChanTypes
  <2>2. CallInProgress'
    BY <2>1, BusyHasChannel DEF sdkVars
  <2>3. RegisteredMatchesSdk'
    BY <2>1 DEF sdkVars
  <2> QED BY <2>2, <2>3
<1>10. ASSUME NEW ch \in ChannelIds, CloseChannel(ch) PROVE Goal
  <2>1. /\ created = 0 /\ ch \notin channels
        /\ sdkSubs' = {x \in sdkSubs : x[2] # ch}
        /\ UNCHANGED <<pc, callChan, clientIds, channels, created>>
    BY <1>10 DEF CloseChannel, PollPhase, mapVars, chanVars
  <2>2. \A c \in Clients : pc[c] = "subscribe" => callChan[c] # 0
    BY DEF SdkTypes
  <2> QED BY <2>1, <2>2
<1>11. ASSUME NEW t \in Topics, NEW ty \in Types, CreateChannel(t, ty)
       PROVE Goal
  <2>1. /\ created' = nextChan /\ nextChan \in ChannelIds
        /\ UNCHANGED <<sdkSubs, pc, callChan, clientIds, channels>>
    BY <1>11 DEF CreateChannel, mapVars
  <2>2. /\ \A c \in Clients : callChan[c] # nextChan
        /\ \A c \in Clients : <<c, nextChan>> \notin sdkSubs
    BY <2>1 DEF ChannelNumbers, ChannelIds
  <2> QED BY <2>1, <2>2
<1>12. CASE InsertChannel
  <2>1. /\ created # 0 /\ created' = 0 /\ channels' = channels \cup {created}
        /\ UNCHANGED <<sdkVars, clientIds>>
    BY <1>12 DEF InsertChannel, mapVars
  <2>2. clientIds[created] = {}
    BY <2>1 DEF NoOrphanSubscription, ChannelNumbers, ChanTypes
  <2>3. \A c \in Clients : pc[c] = "subscribe" => callChan[c] # 0
    BY DEF SdkTypes
  <2> QED BY <2>1, <2>2, <2>3 DEF sdkVars
<1> QED
  BY <1>1, <1>2, <1>3, <1>4, <1>5, <1>6, <1>7, <1>8, <1>9, <1>10, <1>11,
     <1>12, SdkFrame DEF chanVars

(* The steps that move a subscriber from one owner to another. *)
LEMMA OwnerFrame ==
  ASSUME [Next]_vars
  PROVE  \/ UNCHANGED <<subChan, subOf, releasing, toRelease, pc>>
         \/ \E c \in Clients, ch \in ChannelIds :
              ClientSubscribe(c, ch) \/ ClientUnsubscribe(c, ch)
         \/ \E c \in Clients :
              \/ OnSubscribeUnknown(c) \/ OnSubscribeFirst(c)
              \/ \E h \in BOOLEAN : OnSubscribeJoin(c, h)
              \/ OnUnsubscribe(c) \/ ReleaseSubscription(c)
         \/ RemoveChannels
         \/ \E c \in Clients, ch \in ChannelIds : CloseCallback(c, ch)
         \/ \E s \in SubIds : ReleaseRemoved(s)
BY Zenon DEF Next, vars, Environment, ClientThread, Spinner, PollThread,
   TopicChange, Publish, Connect, TakeMessage, RosMessageHandler, PollQuery,
   CloseChannel, CloseDone, AdvertiseBegin, CreateChannel, CreateFails,
   InsertChannel, AdvertiseEnd, subVars, sdkVars, mapVars, pollVars

LEMMA OwnedStep ==
  ASSUME IInv, [Next]_vars
  PROVE  Owned'
<1> USE ConstantsAssumption DEF IInv, TypeOK, Owned
<1>1. CASE UNCHANGED <<subChan, subOf, releasing, toRelease, pc>>
  BY <1>1
<1>2. ASSUME NEW c \in Clients, pc[c] # "release", pc'[c] # "release",
             \A d \in Clients \ {c} : pc'[d] = pc[d],
             UNCHANGED <<subChan, subOf, releasing, toRelease>>
      PROVE Owned'
  BY <1>2
<1>3. ASSUME NEW c \in Clients, NEW ch \in ChannelIds,
             ClientSubscribe(c, ch) \/ ClientUnsubscribe(c, ch)
      PROVE Owned'
  BY <1>2, <1>3 DEF ClientSubscribe, ClientUnsubscribe, SdkTypes, subVars,
     mapVars, pollVars
<1>4. ASSUME NEW c \in Clients, NEW h \in BOOLEAN,
             OnSubscribeUnknown(c) \/ OnSubscribeJoin(c, h)
      PROVE Owned'
  BY <1>2, <1>4 DEF OnSubscribeUnknown, OnSubscribeJoin, Return, SdkTypes,
     subVars, mapVars, pollVars
<1>5. ASSUME NEW c \in Clients, OnSubscribeFirst(c) PROVE Owned'
  <2> DEFINE ch == callChan[c]
  <2> DEFINE n == NewSub
  <2>1. n \in SubIds /\ n # None /\ subChan[n] = 0
    BY <1>5, NewSubFresh DEF OnSubscribeFirst, Alive
  <2>2. ch \in ChannelIds /\ ch # 0
    BY <1>5, BusyHasChannel DEF OnSubscribeFirst, ChannelIds
  <2>3. /\ subOf[ch] = None /\ subOf' = [subOf EXCEPT ![ch] = n]
        /\ subChan' = [subChan EXCEPT ![n] = ch]
        /\ UNCHANGED <<releasing, toRelease>>
        /\ pc[c] # "release" /\ pc' = [pc EXCEPT ![c] = "idle"]
    BY <1>5 DEF OnSubscribeFirst, Return, pollVars
  <2> HIDE DEF ch, n
  <2>4. \A s \in SubIds \ {n} : subChan'[s] = subChan[s]
    BY <2>3 DEF SubTypes
  <2>5. \A d \in ChannelIds \ {ch} : subOf'[d] = subOf[d] /\ subOf[d] # n
    BY <2>1, <2>3 DEF MapTypes, ChannelIds
  <2>6. subChan'[n] = ch /\ subOf'[ch] = n
    BY <2>1, <2>2, <2>3 DEF SubTypes, MapTypes
  <2>7. \A d \in ChannelIds : subOf'[d] # None => subChan'[subOf'[d]] = d
    BY <2>4, <2>5, <2>6 DEF MapTypes
  <2>8. \A d \in Clients : releasing[d] # n
    BY <2>1
  <2>9. n \notin toRelease
    BY <2>1
  <2>10. \A s \in SubIds \ {n} :
           subChan[s] # 0 => (subOf'[subChan[s]] = s <=> subOf[subChan[s]] = s)
    BY <2>1, <2>3, <2>5, <2>6 DEF SubTypes
  <2>11. \A d \in Clients : pc'[d] = "release" <=> pc[d] = "release"
    BY <2>3 DEF SdkTypes
  <2>12. \A d \in Clients : releasing[d] # None => releasing[d] \in SubIds \ {n}
    BY <2>8 DEF ClientTypes
  <2>13. toRelease \subseteq SubIds \ {n}
    BY <2>9 DEF PollTypes
  <2> QED BY <2>1, <2>2, <2>3, <2>4, <2>6, <2>7, <2>10, <2>11, <2>12, <2>13
<1>6. ASSUME NEW c \in Clients, OnUnsubscribe(c) PROVE Owned'
  <2> DEFINE ch == callChan[c]
  <2>1. /\ ch \in ChannelIds /\ pc[c] = "unsubscribe"
        /\ UNCHANGED <<subChan, toRelease>>
        /\ \A d \in Clients \ {c} : pc'[d] = pc[d]
    BY <1>6, BusyHasChannel
    DEF OnUnsubscribe, Return, SdkTypes, subVars, pollVars
  <2>2. CASE UNCHANGED <<subOf, releasing>> /\ pc'[c] = "idle"
    BY <1>2, <2>1, <2>2
  <2>3. CASE /\ subOf[ch] # None /\ Released(c, ch) # None /\ Unregister(c, ch)
             /\ releasing' = [releasing EXCEPT ![c] = subOf[ch]]
             /\ pc'[c] = "release"
    <3> DEFINE s == subOf[ch]
    <3>1. /\ subOf'[ch] = None
          /\ \A d \in ChannelIds \ {ch} : subOf'[d] = subOf[d]
      BY <2>1, <2>3, UnregisterEffect
    <3>2. s \in SubIds /\ subChan[s] = ch /\ ch # 0
      BY <2>1, <2>3 DEF MapTypes, ChannelIds
    <3>3. releasing'[c] = s
          /\ \A d \in Clients \ {c} : releasing'[d] = releasing[d]
      BY <2>3 DEF ClientTypes
    <3>4. s \notin toRelease /\ \A d \in Clients : releasing[d] # s
      BY <2>3, <3>2
    <3>5. releasing[c] = None
      BY <2>1
    <3> HIDE DEF s, ch
    <3>6. \A r \in SubIds \ {s} : subChan[r] # 0 =>
            (subOf'[subChan[r]] = r <=> subOf[subChan[r]] = r)
      <4> TAKE r \in SubIds \ {s}
      <4>1. CASE subChan[r] = ch
        BY <3>1, <4>1 DEF s
      <4>2. CASE subChan[r] # ch
        BY <3>1, <4>2 DEF SubTypes
      <4> QED BY <4>1, <4>2
    <3>7. \A d \in ChannelIds : subOf'[d] # None => subChan'[subOf'[d]] = d
      BY <2>1, <3>1
    <3>8. \A d \in Clients : releasing[d] # None => releasing[d] \in SubIds \ {s}
      BY <3>4 DEF ClientTypes
    <3>9. toRelease \subseteq SubIds \ {s}
      BY <3>4 DEF PollTypes
    <3>10. subOf'[subChan'[s]] # s /\ s # None
      BY <2>1, <3>1, <3>2
    <3> QED BY <2>1, <2>3, <3>2, <3>3, <3>4, <3>5, <3>6, <3>7, <3>8, <3>9, <3>10
  <2>4. \/ subOf[ch] = None /\ UNCHANGED <<mapVars, releasing>> /\ Return(c)
        \/ /\ subOf[ch] # None /\ Released(c, ch) = None /\ Unregister(c, ch)
           /\ Return(c) /\ UNCHANGED releasing
        \/ /\ subOf[ch] # None /\ Released(c, ch) # None /\ Unregister(c, ch)
           /\ releasing' = [releasing EXCEPT ![c] = subOf[ch]]
           /\ pc' = [pc EXCEPT ![c] = "release"]
    BY <1>6, Zenon DEF OnUnsubscribe
  <2>5. subOf[ch] # None /\ Released(c, ch) = None /\ Unregister(c, ch)
          => UNCHANGED subOf
    <3> SUFFICES ASSUME subOf[ch] # None, Released(c, ch) = None,
                        Unregister(c, ch)
                 PROVE UNCHANGED subOf
      OBVIOUS
    <3> QED BY DEF Released, Unregister
  <2> QED BY <2>1, <2>2, <2>3, <2>4, <2>5 DEF Return, mapVars, SdkTypes
<1>7. ASSUME NEW s \in SubIds, Destroy(s), UNCHANGED subOf,
             subOf[subChan[s]] # s
      PROVE /\ \A r \in SubIds \ {s} : subChan'[r] = subChan[r]
            /\ subChan'[s] = 0
            /\ \A d \in ChannelIds : subOf[d] # s
  BY <1>7 DEF Destroy, SubTypes
<1>8. ASSUME NEW c \in Clients, ReleaseSubscription(c) PROVE Owned'
  <2> DEFINE s == releasing[c]
  <2>1. /\ pc[c] = "release" /\ s # None /\ s \in SubIds
        /\ releasing' = [releasing EXCEPT ![c] = None]
        /\ pc' = [pc EXCEPT ![c] = "idle"]
        /\ UNCHANGED <<subOf, toRelease>> /\ Destroy(s)
    BY <1>8 DEF ReleaseSubscription, Return, ClientTypes, mapVars, pollVars
  <2>2. /\ \A r \in SubIds \ {s} : subChan'[r] = subChan[r]
        /\ subChan'[s] = 0
        /\ \A d \in ChannelIds : subOf[d] # s
    BY <1>7, <2>1
  <2>3. \A d \in Clients \ {c} : /\ releasing'[d] = releasing[d]
                                 /\ releasing[d] # s /\ pc'[d] = pc[d]
    BY <2>1 DEF ClientTypes, SdkTypes
  <2>4. releasing'[c] = None /\ pc'[c] = "idle" /\ s \notin toRelease
    BY <2>1 DEF ClientTypes, SdkTypes
  <2> HIDE DEF s
  <2>5. \A d \in ChannelIds : subOf'[d] # None => subChan'[subOf'[d]] = d
    BY <2>1, <2>2 DEF MapTypes
  <2>6. /\ toRelease \subseteq SubIds \ {s}
        /\ \A d \in Clients : releasing'[d] # None => releasing'[d] \in SubIds \ {s}
    BY <2>3, <2>4 DEF PollTypes, ClientTypes
  <2> QED BY <2>1, <2>2, <2>3, <2>4, <2>5, <2>6 DEF s
<1>9. CASE RemoveChannels
  <2>1. /\ toRelease = {} /\ toRelease' = {subOf[ch] : ch \in Gone} \ {None}
        /\ \A ch \in ChannelIds : subOf'[ch] = IF ch \in Gone THEN None
                                                         ELSE subOf[ch]
        /\ UNCHANGED <<subChan, releasing, pc>> /\ Gone \subseteq ChannelIds
    BY <1>9 DEF RemoveChannels, PollPhase, Gone, ChanTypes, subVars, sdkVars
  <2>2. \A s \in toRelease' : /\ s \in SubIds /\ subChan[s] \in Gone
                              /\ subOf[subChan[s]] = s
    BY <2>1 DEF MapTypes
  <2>3. \A s \in SubIds : subChan[s] # 0 => subChan[s] \in ChannelIds
    BY DEF SubTypes
  <2>4. \A c \in Clients : releasing[c] # None => releasing[c] \in SubIds
    BY DEF ClientTypes
  <2>5. \A s \in SubIds : subChan[s] # 0 /\ subOf[subChan[s]] = s
           => subOf'[subChan[s]] = s \/ s \in toRelease'
    BY <2>1, <2>3
  <2>6. \A s \in SubIds : subChan[s] # 0 /\ subOf[subChan[s]] # s
           => subOf'[subChan[s]] # s
    BY <2>1, <2>3
  <2>7. \A s \in toRelease' : subChan[s] # 0 /\ subOf'[subChan[s]] # s
    BY <2>1, <2>2, <2>3 DEF ChannelIds
  <2>8. \A ch \in ChannelIds : subOf'[ch] # None => subChan[subOf'[ch]] = ch
    BY <2>1
  <2> QED BY <2>1, <2>2, <2>4, <2>5, <2>6, <2>7, <2>8
<1>10. ASSUME NEW c \in Clients, NEW ch \in ChannelIds, CloseCallback(c, ch)
       PROVE Owned'
  <2>1. subOf[ch] = None
    BY <1>10 DEF CloseCallback, PollPhase, NoOrphanSubscription
  <2> QED BY <1>1, <1>10, <2>1 DEF CloseCallback, subVars, sdkVars, mapVars
<1>11. ASSUME NEW s \in SubIds, ReleaseRemoved(s) PROVE Owned'
  <2>1. /\ s \in toRelease /\ toRelease' = toRelease \ {s}
        /\ UNCHANGED <<subOf, releasing, pc>> /\ Destroy(s)
    BY <1>11 DEF ReleaseRemoved, mapVars, sdkVars
  <2>2. /\ \A r \in SubIds \ {s} : subChan'[r] = subChan[r]
        /\ subChan'[s] = 0
        /\ \A d \in ChannelIds : subOf[d] # s
    BY <1>7, <2>1
  <2>3. \A d \in ChannelIds : subOf'[d] # None => subChan'[subOf'[d]] = d
    BY <2>1, <2>2 DEF MapTypes
  <2>4. /\ toRelease' \subseteq SubIds \ {s}
        /\ \A d \in Clients : releasing[d] # None => releasing[d] \in SubIds \ {s}
    BY <2>1 DEF PollTypes, ClientTypes
  <2> QED BY <2>1, <2>2, <2>3, <2>4
<1> QED
  BY <1>1, <1>3, <1>4, <1>5, <1>6, <1>8, <1>9, <1>10, <1>11, OwnerFrame

(* The steps that change what a client has seen or what is cached. *)
LEMMA ViewFrame ==
  ASSUME [Next]_vars
  PROVE  \/ UNCHANGED <<view, unreplayed, sdkSubs, clientIds, cache>>
         \/ \E c \in Clients, ch \in ChannelIds :
              ClientSubscribe(c, ch) \/ ClientUnsubscribe(c, ch)
         \/ \E c \in Clients :
              \/ OnSubscribeFirst(c) \/ OnUnsubscribe(c)
              \/ \E h \in BOOLEAN : OnSubscribeJoin(c, h)
         \/ \E s \in SubIds : RosMessageHandler(s)
         \/ \E c \in Clients, ch \in ChannelIds : CloseCallback(c, ch)
         \/ \E ch \in ChannelIds : CloseChannel(ch)
         \/ RemoveChannels
BY Zenon DEF Next, vars, Environment, ClientThread, Spinner, PollThread,
   TopicChange, Publish, Connect, OnSubscribeUnknown, ReleaseSubscription,
   TakeMessage, PollQuery, CloseDone, ReleaseRemoved, AdvertiseBegin,
   CreateChannel, CreateFails, InsertChannel, AdvertiseEnd, sdkVars, mapVars

LEMMA LateJoinerStep ==
  ASSUME IInv, [Next]_vars
  PROVE  LateJoinerCaughtUp'
<1> USE DEF IInv, TypeOK
<1> DEFINE CaughtUp(c, ch, p) ==
      c \in clientIds[ch] /\ <<c, ch>> \in sdkSubs \ unreplayed /\ cache[ch][p] # 0
        => view[c][ch][p] = cache[ch][p]
<1>1. \A c \in Clients, ch \in ChannelIds, p \in Callers : CaughtUp(c, ch, p)
  BY DEF LateJoinerCaughtUp
<1> SUFFICES \A c \in Clients, ch \in ChannelIds, p \in Callers : CaughtUp(c, ch, p)'
  BY DEF LateJoinerCaughtUp
<1> DEFINE Goal ==
      \A c \in Clients, ch \in ChannelIds, p \in Callers : CaughtUp(c, ch, p)'
<1>2. CASE UNCHANGED <<view, unreplayed, sdkSubs, clientIds, cache>>
  BY <1>1, <1>2
<1>3. ASSUME NEW c \in Clients, NEW ch \in ChannelIds, ClientSubscribe(c, ch)
      PROVE Goal
  <2>1. c \notin clientIds[ch]
    BY <1>3 DEF ClientSubscribe, NoOrphanSubscription, RegisteredMatchesSdk,
       SdkTypes, ChannelIds
  <2>2. \A d \in Clients, e \in ChannelIds : <<d, e>> # <<c, ch>> =>
          /\ view'[d][e] = view[d][e]
          /\ <<d, e>> \in sdkSubs' <=> <<d, e>> \in sdkSubs
          /\ <<d, e>> \in unreplayed' <=> <<d, e>> \in unreplayed
    BY <1>3 DEF ClientSubscribe, ClientTypes
  <2>3. UNCHANGED <<clientIds, cache>>
    BY <1>3 DEF ClientSubscribe, mapVars
  <2> QED BY <1>1, <2>1, <2>2, <2>3
<1>4. ASSUME NEW c \in Clients, NEW ch \in ChannelIds, ClientUnsubscribe(c, ch)
      PROVE Goal
  BY <1>1, <1>4 DEF ClientUnsubscribe, mapVars
<1>5. ASSUME NEW c \in Clients, OnSubscribeFirst(c) PROVE Goal
  <2>1. callChan[c] \in ChannelIds
    BY <1>5, BusyHasChannel DEF OnSubscribeFirst
  <2> QED BY <1>1, <1>5, <2>1 DEF OnSubscribeFirst, MapTypes, NoView
<1>6. ASSUME NEW c \in Clients, NEW h \in BOOLEAN, OnSubscribeJoin(c, h)
      PROVE Goal
  <2> DEFINE k == callChan[c]
  <2>1. k \in ChannelIds
    BY <1>6, BusyHasChannel DEF OnSubscribeJoin
  <2>2. UNCHANGED <<sdkSubs, cache>>
    BY <1>6 DEF OnSubscribeJoin
  <2>3. /\ view' = [view EXCEPT ![c][k] = IF h THEN Replay(@, k) ELSE @]
        /\ unreplayed' = IF h THEN unreplayed ELSE unreplayed \cup {<<c, k>>}
        /\ clientIds' = [clientIds EXCEPT ![k] = @ \cup {c}]
    BY <1>6 DEF OnSubscribeJoin
  <2> HIDE DEF k
  <2>4. \A d \in Clients, ch \in ChannelIds : <<d, ch>> # <<c, k>> =>
          /\ view'[d][ch] = view[d][ch]
          /\ <<d, ch>> \in unreplayed' <=> <<d, ch>> \in unreplayed
          /\ d \in clientIds'[ch] <=> d \in clientIds[ch]
    BY <2>3 DEF ClientTypes, MapTypes
  <2>5. h => view'[c][k] = Replay(view[c][k], k)
    BY <2>1, <2>3 DEF ClientTypes
  <2>6. h => \A p \in Callers : cache[k][p] # 0 => view'[c][k][p] = cache[k][p]
    BY <2>5 DEF Replay
  <2>7. ~h => <<c, k>> \in unreplayed'
    BY <2>3
  <2> QED BY <1>1, <2>2, <2>4, <2>6, <2>7
<1>7. ASSUME NEW c \in Clients, NEW ch \in ChannelIds, subOf[ch] # None,
             Unregister(c, ch), UNCHANGED <<view, unreplayed, sdkSubs>>
      PROVE Goal
  <2>1. \A d \in ChannelIds : /\ clientIds'[d] \subseteq clientIds[d]
                              /\ clientIds'[d] # {} => cache'[d] = cache[d]
    BY <1>7, UnregisterEffect
  <2> QED BY <1>1, <1>7, <2>1
<1>8. ASSUME NEW c \in Clients, OnUnsubscribe(c) PROVE Goal
  <2>1. UNCHANGED <<view, unreplayed, sdkSubs>>
    BY <1>8 DEF OnUnsubscribe
  <2> QED BY <1>2, <1>7, <1>8, <2>1, UnsubscribeCases DEF mapVars
<1>9. ASSUME NEW s \in SubIds, RosMessageHandler(s) PROVE Goal
  <2> DEFINE m == inflight[s]
  <2> DEFINE k == subChan[s]
  <2>1. m.caller \in Callers
    BY <1>9, InflightIsMessage DEF RosMessageHandler
  <2>2. k \in ChannelIds
    BY <1>9 DEF RosMessageHandler, Alive, SubTypes
  <2>3. UNCHANGED <<unreplayed, sdkSubs, clientIds>>
    BY <1>9 DEF RosMessageHandler, sdkVars
  <2>4. \/ UNCHANGED <<view, cache>>
        \/ /\ \/ UNCHANGED cache /\ ~Caches(k, m)
              \/ cache' = [cache EXCEPT ![k][m.caller] = m.seq]
           /\ view' = [c \in Clients |->
                         IF <<c, k>> \in sdkSubs
                           THEN [view[c] EXCEPT ![k][m.caller] = m.seq]
                           ELSE view[c]]
    BY <1>9, Zenon DEF RosMessageHandler
  <2>5. CASE UNCHANGED <<view, cache>>
    BY <1>1, <2>3, <2>5
  <2> HIDE DEF m, k
  <2>6. ASSUME view' = [c \in Clients |->
                          IF <<c, k>> \in sdkSubs
                            THEN [view[c] EXCEPT ![k][m.caller] = m.seq]
                            ELSE view[c]]
        PROVE \A c \in Clients, ch \in ChannelIds, p \in Callers :
                <<c, ch>> \in sdkSubs =>
                  view'[c][ch][p] = IF ch = k /\ p = m.caller THEN m.seq
                                                              ELSE view[c][ch][p]
    <3> SUFFICES ASSUME NEW c \in Clients, NEW ch \in ChannelIds,
                        NEW p \in Callers, <<c, ch>> \in sdkSubs
                 PROVE  view'[c][ch][p] = IF ch = k /\ p = m.caller
                                            THEN m.seq ELSE view[c][ch][p]
      OBVIOUS
    <3>1. view[c] \in [ChannelIds -> [Callers -> 0..MaxMsgs]]
      BY DEF ClientTypes
    <3>2. CASE <<c, k>> \in sdkSubs
      <4>1. view'[c] = [view[c] EXCEPT ![k][m.caller] = m.seq]
        BY <2>6, <3>2
      <4> QED BY <2>1, <2>2, <3>1, <4>1
    <3>3. CASE <<c, k>> \notin sdkSubs
      <4>1. view'[c] = view[c] /\ ch # k
        BY <2>6, <3>3
      <4> QED BY <4>1
    <3> QED BY <3>2, <3>3
  <2>7. ASSUME cache' = [cache EXCEPT ![k][m.caller] = m.seq],
               view' = [c \in Clients |->
                          IF <<c, k>> \in sdkSubs
                            THEN [view[c] EXCEPT ![k][m.caller] = m.seq]
                            ELSE view[c]]
        PROVE Goal
    <3>1. \A ch \in ChannelIds, p \in Callers :
            cache'[ch][p] = IF ch = k /\ p = m.caller THEN m.seq ELSE cache[ch][p]
      BY <2>7, <2>1, <2>2 DEF MapTypes
    <3> QED BY <1>1, <2>3, <2>6, <2>7, <3>1
  <2>8. ASSUME UNCHANGED cache, ~Caches(k, m),
               view' = [c \in Clients |->
                          IF <<c, k>> \in sdkSubs
                            THEN [view[c] EXCEPT ![k][m.caller] = m.seq]
                            ELSE view[c]]
        PROVE Goal
    <3>1. cache[k][m.caller] = 0 \/ clientIds[k] = {}
      BY <2>1, <2>2, <2>8 DEF Caches, OnlyLatchedCached, NoOrphanSubscription
    <3> QED BY <1>1, <2>3, <2>6, <2>8, <3>1
  <2> QED BY <2>4, <2>5, <2>7, <2>8
<1>10. ASSUME NEW c \in Clients, NEW ch \in ChannelIds, CloseCallback(c, ch)
       PROVE Goal
  <2>1. UNCHANGED <<view, unreplayed, sdkSubs>>
    BY <1>10 DEF CloseCallback, sdkVars
  <2> QED BY <1>2, <1>7, <1>10, <2>1 DEF CloseCallback, mapVars
<1>11. ASSUME NEW ch \in ChannelIds, CloseChannel(ch) PROVE Goal
  BY <1>1, <1>11 DEF CloseChannel, mapVars
<1>12. CASE RemoveChannels
  BY <1>1, <1>12 DEF RemoveChannels, sdkVars
<1> QED
  BY <1>2, <1>3, <1>4, <1>5, <1>6, <1>8, <1>9, <1>10, <1>11, <1>12, ViewFrame

LEMMA IInvStep == IInv /\ [Next]_vars => IInv'
<1> SUFFICES ASSUME IInv, [Next]_vars PROVE IInv'
  OBVIOUS
<1>1. TypeOK'
  BY TypeStep DEF IInv
<1> QED
  BY <1>1, EntriesStep, OnlyLatchedStep, PollStep, NumbersStep,
     RegistrationStep, OwnedStep, LateJoinerStep
  DEF IInv

LEMMA IInvAlways == Spec => []IInv
BY IInvInit, IInvStep, PTL DEF Spec

-----------------------------------------------------------------------------
(* Theorems *)

(* _subscriptions stays in step with _channels: whatever the threads do, an *)
(* entry has a live channel and at least one client.                        *)
THEOREM EntriesHaveClients == Spec => []NoOrphanSubscription
<1>1. IInv => NoOrphanSubscription
  BY DEF IInv
<1> QED BY <1>1, IInvAlways, PTL

(* No subscription of a client is lost or left behind, whichever of its     *)
(* thread and the poll thread runs first.                                   *)
THEOREM RegistrationFollowsSdk == Spec => []RegisteredMatchesSdk
<1>1. IInv => RegisteredMatchesSdk
  BY DEF IInv
<1> QED BY <1>1, IInvAlways, PTL

(* A ros::Subscriber that is moved out of the map under the lock is neither *)
(* leaked nor destroyed twice.                                              *)
THEOREM SubscribersAccounted == Spec => []SubscriberOwnedOnce
<1>1. ASSUME IInv PROVE SubscriberOwnedOnce
  <2> USE ConstantsAssumption, <1>1 DEF IInv, TypeOK, Owned
  <2> SUFFICES ASSUME NEW s \in SubIds
               PROVE  IF s \in Alive THEN \E o \in Owners(s) : Owners(s) = {o}
                                     ELSE Owners(s) = {}
    BY DEF SubscriberOwnedOnce
  <2>1. \A ch \in ChannelIds : subOf[ch] = s => subChan[s] = ch /\ ch # 0
    BY DEF MapTypes, ChannelIds
  <2>2. CASE s \notin Alive
    BY <2>1, <2>2 DEF Owners, Alive
  <2>3. CASE s \in Alive /\ subOf[subChan[s]] = s
    <3>1. subChan[s] \in ChannelIds
      BY <2>3 DEF Alive, SubTypes
    <3>2. Owners(s) = {<<"entry", subChan[s]>>}
      BY <2>1, <2>3, <3>1 DEF Owners
    <3> QED BY <2>3, <3>2
  <2>4. CASE s \in Alive /\ s \in toRelease
    <3>1. \A ch \in ChannelIds : subOf[ch] # s
      BY <2>1, <2>4
    <3>2. \A c \in Clients : releasing[c] # s
      BY <2>4
    <3>3. Owners(s) = {<<"poll", 0>>}
      BY <2>4, <3>1, <3>2 DEF Owners
    <3> QED BY <2>4, <3>3
  <2>5. ASSUME NEW c \in Clients, s \in Alive, releasing[c] = s
        PROVE  \E o \in Owners(s) : Owners(s) = {o}
    <3>1. \A ch \in ChannelIds : subOf[ch] # s
      BY <2>1, <2>5
    <3>2. s \notin toRelease /\ \A d \in Clients : releasing[d] = s => d = c
      BY <2>5
    <3>3. Owners(s) = {<<"client", c>>}
      BY <2>5, <3>1, <3>2 DEF Owners
    <3> QED BY <3>3
  <2> QED BY <2>2, <2>3, <2>4, <2>5 DEF Alive
<1> QED BY <1>1, IInvAlways, PTL

(* The set the SDK's cache filter reads is exact at every moment.           *)
THEOREM LatchedSetExact == Spec => []LatchedChannelsExact
<1>1. IInv => LatchedChannelsExact
  BY DEF IInv
<1> QED BY <1>1, IInvAlways, PTL

(* A late joiner has every cached latched message once it is in the entry,  *)
(* however its callback interleaves with messages and other clients.        *)
THEOREM LateJoinersCaughtUp == Spec => []LateJoinerCaughtUp
<1>1. IInv => LateJoinerCaughtUp
  BY DEF IInv
<1> QED BY <1>1, IInvAlways, PTL

(* Replacement channels are advertised only when the poll thread has        *)
(* destroyed the subscribers of the channels it removed.                    *)
THEOREM TeardownComesFirst == Spec => []TornDownBeforeAdvertise
<1>1. ASSUME IInv PROVE TornDownBeforeAdvertise
  BY <1>1, ConstantsAssumption
  DEF IInv, TypeOK, SubTypes, Owned, PollPhase, NoOrphanSubscription,
      TornDownBeforeAdvertise, Alive
<1> QED BY <1>1, IInvAlways, PTL
=============================================================================
