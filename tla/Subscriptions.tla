---------------------------- MODULE Subscriptions ----------------------------
(***************************************************************************)
(* Topic channels and their shared ROS subscriptions, the core of          *)
(* Ros1FoxgloveBridge: updateAdvertisedTopics on the poll thread,          *)
(* onSubscribe / onUnsubscribe on the SDK's client threads, and            *)
(* rosMessageHandler on the ROS spinner threads.                           *)
(*                                                                         *)
(* A step is one critical section of _subscriptionsMutex, or one piece of  *)
(* work that a thread does between two of them (a channel.close(), the     *)
(* destruction of a ros::Subscriber).  The poll thread holds the mutex     *)
(* over several steps only while it advertises new topics, because         *)
(* RawChannel::create makes a channel visible to clients before the bridge *)
(* has put it in _channels: MutexFree is FALSE meanwhile.                  *)
(*                                                                         *)
(* External, modelled from how the code uses it: the ROS master's list of  *)
(* published topics, roscpp's subscribers (queue, one callback at a time   *)
(* per subscriber, latched re-send, md5sum lock of a topic), and the       *)
(* SDK's record of which client is subscribed to which channel.            *)
(***************************************************************************)
EXTENDS Naturals, Sequences, FiniteSets

CONSTANTS
  Topics,       \* topic names
  Types,        \* message datatypes
  KnownTypes,   \* the datatypes the description provider finds on disk
  Whitelist,    \* the topics that match topic_whitelist
  Clients,      \* [gw : transport, id : client id unique per transport]
  Callers,      \* ROS publishers, by callerid
  Latching,     \* the callers whose connection header says latching = 1
  PubTopic,     \* the topic each caller publishes on
  SubIds,       \* names for ros::Subscriber objects; reused once destroyed
  Sysinfo,      \* TRUE if the SDK context also carries the sysinfo channel
  None,         \* no topic, type, subscriber or message
  QueueLen,     \* subscription_queue_length
  MaxChannels,  \* bound: channel ids the SDK hands out
  MaxMsgs,      \* bound: messages published per caller
  MaxChanges    \* bound: changes of the master's topic list

ChannelIds == 1..MaxChannels

ASSUME ConstantsAssumption ==
  /\ KnownTypes \subseteq Types /\ Whitelist \subseteq Topics
  /\ Latching \subseteq Callers /\ PubTopic \in [Callers -> Topics]
  /\ Clients \subseteq [gw : BOOLEAN, id : Nat]
  /\ None \notin Topics \cup Types \cup SubIds \cup [caller : Callers, seq : Nat]
  /\ Sysinfo \in BOOLEAN /\ QueueLen \in Nat \ {0}
  /\ MaxChannels \in Nat \ {0} /\ MaxMsgs \in Nat /\ MaxChanges \in Nat

VARIABLES
  (* ROS master and publishers *)
  published,       \* type each topic is published with, None if unpublished
  changes,         \* how often published changed (bounded by MaxChanges)
  sent,            \* messages each caller has published so far
  last,            \* the message a latching caller re-sends, 0 if none
  (* roscpp *)
  subChan,         \* channel bound in a subscriber's callback, 0 if not alive
  connected,       \* callers a subscriber is connected to
  queue,           \* messages waiting for the spinner
  inflight,        \* message of the callback now running, None if none
  md5,             \* type a topic's md5sum is locked to while subscribed
  (* SDK *)
  sdkChannels,     \* channels advertised to clients
  sdkSubs,         \* <<client, channel>> the SDK counts as subscribed
  pc,              \* what each client's SDK thread is doing
  callChan,        \* the channel of that callback, 0 when idle
  view,            \* last message of a caller a client got on a channel
  (* Ros1FoxgloveBridge *)
  channels,        \* keys of _channels
  topicOf, typeOf, \* topic and datatype of each channel ever created
  subOf,           \* rosSubscription in _subscriptions, None if no entry
  clientIds,       \* wsClientIds and gatewayClientIds of that entry
  cache,           \* latchedMessages of that entry, 0 if no message cached
  latchedChannels, \* _latchedChannels
  releasing,       \* releasedSubscription of a client thread, None if none
  unreplayed,      \* <<client, channel>> joined without a sink id
  (* locals of updateAdvertisedTopics *)
  poll, latest, toClose, closeCalls, toRelease, todo, created, nextChan

rosVars == <<published, changes, sent, last>>
subVars == <<subChan, connected, queue, inflight, md5>>
sdkVars == <<sdkChannels, sdkSubs, pc, callChan>>
mapVars == <<subOf, clientIds, cache, latchedChannels>>
chanVars == <<channels, topicOf, typeOf, created, nextChan>>
pollVars == <<poll, latest, toClose, closeCalls, toRelease, todo>>
vars == <<rosVars, subVars, sdkVars, mapVars, chanVars, pollVars,
          view, releasing, unreplayed>>

-----------------------------------------------------------------------------
(* Shared vocabulary *)

Message == [caller : Callers, seq : 1..MaxMsgs]
NoView == [p \in Callers |-> 0]
Foreign == IF Sysinfo THEN {1} ELSE {}

(* Wrong variant: onUnsubscribe destroys the subscriber under the lock. *)
MutexHeldInRelease ==
  poll # "advertise" /\ \A c \in Clients : pc[c] # "release"

(* _subscriptionsMutex is held across steps only while advertising. *)
MutexFree == poll # "advertise"

(* Subscribers not yet destroyed, and those on a topic. *)
Alive == {s \in SubIds : subChan[s] # 0}
AliveOn(t) == {s \in Alive : topicOf[subChan[s]] = t}

(* The schema name a channel reports: empty when the description provider   *)
(* had no definition and the channel was created without a schema.          *)
SchemaName(ch) == IF typeOf[ch] \in KnownTypes THEN typeOf[ch] ELSE None

-----------------------------------------------------------------------------
(* ROS master and publishers (external) *)

(* A topic appears, disappears or comes back with another type; its         *)
(* publishers are new processes that have latched nothing yet.              *)
TopicChange(t, ty) ==
  /\ changes < MaxChanges /\ published[t] # ty
  /\ changes' = changes + 1
  /\ published' = [published EXCEPT ![t] = ty]
  /\ last' = [p \in Callers |-> IF PubTopic[p] = t THEN 0 ELSE last[p]]
  /\ connected' = [s \in SubIds |->
                     {p \in connected[s] : PubTopic[p] # t}]
  /\ UNCHANGED <<sent, subChan, queue, inflight, md5, sdkVars, mapVars,
                 chanVars, pollVars, view, releasing, unreplayed>>

(* Wrong variant: the queue grows. *)
EnqueueUnbounded(q, m) == Append(q, m)

(* A full queue drops its oldest message. *)
Enqueue(q, m) == Append(IF Len(q) < QueueLen THEN q ELSE Tail(q), m)

Publish(p) ==
  LET m == [caller |-> p, seq |-> sent[p] + 1] IN
  /\ sent[p] < MaxMsgs /\ published[PubTopic[p]] # None
  /\ sent' = [sent EXCEPT ![p] = @ + 1]
  /\ last' = [last EXCEPT ![p] = IF p \in Latching THEN m.seq ELSE @]
  /\ queue' = [s \in SubIds |->
                 IF p \in connected[s] THEN Enqueue(queue[s], m) ELSE queue[s]]
  /\ UNCHANGED <<published, changes, subChan, connected, inflight, md5,
                 sdkVars, mapVars, chanVars, pollVars, view, releasing,
                 unreplayed>>

(* A publisher accepts a subscriber unless roscpp's per-topic subscription  *)
(* is locked to another type; a latching one re-sends its last message.     *)
Connect(s, p) ==
  LET t == PubTopic[p] IN
  /\ s \in AliveOn(t) /\ p \notin connected[s]
  /\ published[t] # None /\ md5[t] \in {None, published[t]}
  /\ md5' = [md5 EXCEPT ![t] = published[t]]
  /\ connected' = [connected EXCEPT ![s] = @ \cup {p}]
  /\ queue' = [queue EXCEPT ![s] =
                 IF last[p] # 0
                   THEN Enqueue(@, [caller |-> p, seq |-> last[p]]) ELSE @]
  /\ UNCHANGED <<rosVars, subChan, inflight, sdkVars, mapVars, chanVars,
                 pollVars, view, releasing, unreplayed>>

-----------------------------------------------------------------------------
(* roscpp: creation and destruction of a subscriber (external) *)

NewSub == CHOOSE s \in SubIds : s \notin Alive

(* Shutting a subscriber down waits for its running callback. *)
CanDestroy(s) == inflight[s] = None

Destroy(s) ==
  LET t == topicOf[subChan[s]] IN
  /\ subChan' = [subChan EXCEPT ![s] = 0]
  /\ connected' = [connected EXCEPT ![s] = {}]
  /\ queue' = [queue EXCEPT ![s] = <<>>]
  /\ md5' = [md5 EXCEPT ![t] = IF AliveOn(t) = {s} THEN None ELSE @]
  /\ UNCHANGED inflight

-----------------------------------------------------------------------------
(* Clients, as the SDK sees them (external).  A client's thread runs one    *)
(* callback at a time, after the SDK has recorded the subscription.         *)

ClientSubscribe(c, ch) ==
  /\ pc[c] = "idle" /\ ch \in sdkChannels /\ <<c, ch>> \notin sdkSubs
  /\ sdkSubs' = sdkSubs \cup {<<c, ch>>}
  /\ pc' = [pc EXCEPT ![c] = "subscribe"]
  /\ callChan' = [callChan EXCEPT ![c] = ch]
  /\ view' = [view EXCEPT ![c][ch] = NoView]
  /\ unreplayed' = unreplayed \ {<<c, ch>>}
  /\ UNCHANGED <<rosVars, subVars, sdkChannels, mapVars, chanVars, pollVars,
                 releasing>>

(* An unsubscribe request, or a disconnect, one channel at a time. *)
ClientUnsubscribe(c, ch) ==
  /\ pc[c] = "idle" /\ <<c, ch>> \in sdkSubs
  /\ sdkSubs' = sdkSubs \ {<<c, ch>>}
  /\ pc' = [pc EXCEPT ![c] = "unsubscribe"]
  /\ callChan' = [callChan EXCEPT ![c] = ch]
  /\ UNCHANGED <<rosVars, subVars, sdkChannels, mapVars, chanVars, pollVars,
                 view, releasing, unreplayed>>

Return(c) ==
  /\ pc' = [pc EXCEPT ![c] = "idle"]
  /\ callChan' = [callChan EXCEPT ![c] = 0]

-----------------------------------------------------------------------------
(* onSubscribe *)

(* The channel is not, or no longer, one of the bridge's. *)
OnSubscribeUnknown(c) ==
  /\ pc[c] = "subscribe" /\ MutexFree /\ callChan[c] \notin channels
  /\ Return(c)
  /\ UNCHANGED <<rosVars, subVars, sdkChannels, sdkSubs, mapVars, chanVars,
                 pollVars, view, releasing, unreplayed>>

(* First subscriber of the channel: create the ROS subscription. *)
OnSubscribeFirst(c) ==
  LET ch == callChan[c] IN
  /\ pc[c] = "subscribe" /\ MutexFree
  /\ ch \in channels /\ subOf[ch] = None
  /\ Alive # SubIds
  /\ subChan' = [subChan EXCEPT ![NewSub] = ch]
  /\ subOf' = [subOf EXCEPT ![ch] = NewSub]
  /\ clientIds' = [clientIds EXCEPT ![ch] = {c}]
  /\ cache' = [cache EXCEPT ![ch] = NoView]
  /\ Return(c)
  /\ UNCHANGED <<rosVars, connected, queue, inflight, md5, sdkChannels,
                 sdkSubs, latchedChannels, chanVars, pollVars, view,
                 releasing, unreplayed>>

(* Wrong variant: the late joiner gets no replay. *)
ReplayNothing(v, ch) == v

(* What a client has seen once every cached message is logged to its sink. *)
Replay(v, ch) == [p \in Callers |-> IF cache[ch][p] # 0 THEN cache[ch][p]
                                    ELSE v[p]]

(* A later subscriber.  A gateway client may join while the session has no  *)
(* sink id; then nothing is replayed to it.                                 *)
OnSubscribeJoin(c, hasSink) ==
  LET ch == callChan[c] IN
  /\ pc[c] = "subscribe" /\ MutexFree
  /\ ch \in channels /\ subOf[ch] # None
  /\ ~c.gw => hasSink
  /\ view' = [view EXCEPT ![c][ch] = IF hasSink THEN Replay(@, ch) ELSE @]
  /\ unreplayed' = IF hasSink THEN unreplayed ELSE unreplayed \cup {<<c, ch>>}
  /\ clientIds' = [clientIds EXCEPT ![ch] = @ \cup {c}]
  /\ Return(c)
  /\ UNCHANGED <<rosVars, subVars, sdkChannels, sdkSubs, subOf, cache,
                 latchedChannels, chanVars, pollVars, releasing>>

-----------------------------------------------------------------------------
(* onUnsubscribe, run by a client's thread or, for a channel being closed,  *)
(* by the poll thread inside channel.close().                               *)

(* Wrong variant: one set of ids for both transports. *)
WithoutId(ids, c) == {d \in ids : d.id # c.id}

(* The entry's client ids without those of c, on c's own transport. *)
Without(ids, c) == ids \ {c}

(* Wrong variant: _latchedChannels keeps the channel. *)
EraseEntryOnly(ch) ==
  /\ subOf' = [subOf EXCEPT ![ch] = None]
  /\ clientIds' = [clientIds EXCEPT ![ch] = {}]
  /\ cache' = [cache EXCEPT ![ch] = NoView]
  /\ UNCHANGED latchedChannels

(* Drop the whole _subscriptions entry; its subscriber outlives it. *)
EraseEntry(ch) ==
  /\ subOf' = [subOf EXCEPT ![ch] = None]
  /\ clientIds' = [clientIds EXCEPT ![ch] = {}]
  /\ cache' = [cache EXCEPT ![ch] = NoView]
  /\ latchedChannels' = latchedChannels \ {ch}

(* Wrong variant: the emptied entry is left in the map. *)
UnregisterKeeping(c, ch) ==
  /\ clientIds' = [clientIds EXCEPT ![ch] = Without(@, c)]
  /\ UNCHANGED <<subOf, cache, latchedChannels>>

(* Take c off the entry; the last client takes the entry with it. *)
Unregister(c, ch) ==
  IF Without(clientIds[ch], c) = {}
    THEN EraseEntry(ch)
    ELSE /\ clientIds' = [clientIds EXCEPT ![ch] = Without(@, c)]
         /\ UNCHANGED <<subOf, cache, latchedChannels>>

(* Wrong variant: the erased entry's subscriber is not moved out. *)
ReleasedNever(c, ch) == None

(* The subscription that Unregister moves out of the map, if any. *)
Released(c, ch) == IF Without(clientIds[ch], c) = {} THEN subOf[ch] ELSE None

OnUnsubscribe(c) ==
  LET ch == callChan[c] IN
  /\ pc[c] = "unsubscribe" /\ MutexFree
  /\ \/ /\ subOf[ch] = None
        /\ Return(c)
        /\ UNCHANGED <<mapVars, releasing>>
     \/ /\ subOf[ch] # None /\ Released(c, ch) = None
        /\ Unregister(c, ch)
        /\ Return(c)
        /\ UNCHANGED releasing
     \/ /\ subOf[ch] # None /\ Released(c, ch) # None
        /\ Unregister(c, ch)
        /\ releasing' = [releasing EXCEPT ![c] = subOf[ch]]
        /\ pc' = [pc EXCEPT ![c] = "release"]
        /\ UNCHANGED callChan
  /\ UNCHANGED <<rosVars, subVars, sdkChannels, sdkSubs, chanVars, pollVars,
                 view, unreplayed>>

(* releasedSubscription is destroyed after the lock is released. *)
ReleaseSubscription(c) ==
  /\ pc[c] = "release" /\ CanDestroy(releasing[c])
  /\ Destroy(releasing[c])
  /\ releasing' = [releasing EXCEPT ![c] = None]
  /\ Return(c)
  /\ UNCHANGED <<rosVars, sdkChannels, sdkSubs, mapVars, chanVars, pollVars,
                 view, unreplayed>>

-----------------------------------------------------------------------------
(* rosMessageHandler *)

(* A spinner thread starts the callback: it takes the message and           *)
(* serializes it before asking for the mutex.                               *)
TakeMessage(s) ==
  /\ s \in Alive /\ inflight[s] = None /\ queue[s] # <<>>
  /\ inflight' = [inflight EXCEPT ![s] = Head(queue[s])]
  /\ queue' = [queue EXCEPT ![s] = Tail(@)]
  /\ UNCHANGED <<rosVars, subChan, connected, md5, sdkVars, mapVars, chanVars,
                 pollVars, view, releasing, unreplayed>>

(* Wrong variant: caches although the entry is gone. *)
CachesAlways(ch, m) == m.caller \in Latching

(* The message updates the latched cache only while the channel has an      *)
(* entry in _subscriptions.                                                 *)
Caches(ch, m) == m.caller \in Latching /\ subOf[ch] # None

RosMessageHandler(s) ==
  LET ch == subChan[s]  m == inflight[s] IN
  /\ s \in Alive /\ m # None /\ MutexFree
  /\ \/ /\ ch \notin channels
        /\ UNCHANGED <<view, cache, latchedChannels>>
     \/ /\ ch \in channels
        /\ IF Caches(ch, m)
             THEN /\ cache' = [cache EXCEPT ![ch][m.caller] = m.seq]
                  /\ latchedChannels' = latchedChannels \cup {ch}
             ELSE UNCHANGED <<cache, latchedChannels>>
        /\ view' = [c \in Clients |->
                      IF <<c, ch>> \in sdkSubs
                        THEN [view[c] EXCEPT ![ch][m.caller] = m.seq]
                        ELSE view[c]]
  /\ inflight' = [inflight EXCEPT ![s] = None]
  /\ UNCHANGED <<rosVars, subChan, connected, queue, md5, sdkVars, subOf,
                 clientIds, chanVars, pollVars, releasing, unreplayed>>

-----------------------------------------------------------------------------
(* pollThread and updateAdvertisedTopics *)

(* What the master answers, less the topics off the whitelist. *)
PublishedTopics == {x \in Whitelist \X Types : published[x[1]] = x[2]}

(* getPublishedTopics succeeds; topics off the whitelist are ignored.  When *)
(* the query fails the cycle leaves everything as it is.                    *)
PollQuery ==
  /\ poll = "query"
  /\ latest' = PublishedTopics
  /\ poll' = "remove"
  /\ UNCHANGED <<rosVars, subVars, sdkVars, mapVars, chanVars, view,
                 releasing, unreplayed, toClose, closeCalls, toRelease, todo>>

(* Wrong variant: nothing is ever removed. *)
GoneNever == {}

(* The channels whose topic and schema name the master no longer lists. *)
Gone == {ch \in channels : <<topicOf[ch], SchemaName(ch)>> \notin latest}

(* First critical section: forget the channels that are gone. *)
RemoveChannels ==
  /\ poll = "remove"
  /\ channels' = channels \ Gone
  /\ toClose' = Gone
  /\ toRelease' = {subOf[ch] : ch \in Gone} \ {None}
  /\ subOf' = [ch \in ChannelIds |-> IF ch \in Gone THEN None ELSE subOf[ch]]
  /\ clientIds' = [ch \in ChannelIds |->
                     IF ch \in Gone THEN {} ELSE clientIds[ch]]
  /\ cache' = [ch \in ChannelIds |->
                 IF ch \in Gone THEN NoView ELSE cache[ch]]
  /\ latchedChannels' = latchedChannels \ Gone
  /\ poll' = "close"
  /\ UNCHANGED <<rosVars, subVars, sdkVars, topicOf, typeOf, created, nextChan,
                 view, releasing, unreplayed, latest, closeCalls, todo>>

(* channel.close(): the SDK unadvertises the channel and owes an            *)
(* onUnsubscribe to every client still subscribed.                          *)
CloseChannel(ch) ==
  /\ poll = "close" /\ ch \in toClose /\ closeCalls = {}
  /\ toClose' = toClose \ {ch}
  /\ sdkChannels' = sdkChannels \ {ch}
  /\ closeCalls' = {x \in sdkSubs : x[2] = ch}
  /\ sdkSubs' = {x \in sdkSubs : x[2] # ch}
  /\ UNCHANGED <<rosVars, subVars, pc, callChan, mapVars, chanVars, view,
                 releasing, unreplayed, poll, latest, toRelease, todo>>

(* onUnsubscribe on the poll thread, from inside close(). *)
CloseCallback(c, ch) ==
  /\ poll = "close" /\ <<c, ch>> \in closeCalls
  /\ closeCalls' = closeCalls \ {<<c, ch>>}
  /\ IF subOf[ch] = None
       THEN UNCHANGED <<mapVars, toRelease>>
       ELSE /\ Unregister(c, ch)
            /\ toRelease' = toRelease \cup ({Released(c, ch)} \ {None})
  /\ UNCHANGED <<rosVars, subVars, sdkVars, chanVars, view, releasing,
                 unreplayed, poll, latest, toClose, todo>>

CloseDone ==
  /\ poll = "close" /\ toClose = {} /\ closeCalls = {}
  /\ poll' = "release"
  /\ UNCHANGED <<rosVars, subVars, sdkVars, mapVars, chanVars, view,
                 releasing, unreplayed, latest, toClose, closeCalls,
                 toRelease, todo>>

(* subscriptionsToRelease.clear(), one subscriber at a time. *)
ReleaseRemoved(s) ==
  /\ poll = "release" /\ s \in toRelease /\ CanDestroy(s)
  /\ Destroy(s)
  /\ toRelease' = toRelease \ {s}
  /\ UNCHANGED <<rosVars, sdkVars, mapVars, chanVars, view, releasing,
                 unreplayed, poll, latest, toClose, closeCalls, todo>>

(* Wrong variant: replacements are advertised before the old subscribers    *)
(* are gone.                                                                *)
AdvertiseEarly == poll = "release"

(* Teardown of the removed channels is complete. *)
ReadyToAdvertise == poll = "release" /\ toRelease = {}

(* A topic already has its channel, recognised by topic and schema name. *)
Advertised(t, ty) ==
  \E ch \in channels :
    topicOf[ch] = t /\ typeOf[ch] \in KnownTypes /\ typeOf[ch] = ty

(* Second critical section: the poll thread takes the mutex and keeps it. *)
AdvertiseBegin ==
  /\ ReadyToAdvertise
  /\ todo' = {x \in latest : ~Advertised(x[1], x[2])}
  /\ poll' = "advertise"
  /\ UNCHANGED <<rosVars, subVars, sdkVars, mapVars, chanVars, view,
                 releasing, unreplayed, latest, toClose, closeCalls,
                 toRelease>>

(* RawChannel::create: clients can see the channel from here on. *)
CreateChannel(t, ty) ==
  /\ poll = "advertise" /\ created = 0 /\ <<t, ty>> \in todo
  /\ nextChan \in ChannelIds
  /\ created' = nextChan
  /\ nextChan' = nextChan + 1
  /\ topicOf' = [topicOf EXCEPT ![nextChan] = t]
  /\ typeOf' = [typeOf EXCEPT ![nextChan] = ty]
  /\ sdkChannels' = sdkChannels \cup {nextChan}
  /\ todo' = todo \ {<<t, ty>>}
  /\ UNCHANGED <<rosVars, subVars, sdkSubs, pc, callChan, mapVars, channels,
                 view, releasing, unreplayed, poll, latest, toClose,
                 closeCalls, toRelease>>

(* RawChannel::create fails; the topic is tried again next cycle. *)
CreateFails(t, ty) ==
  /\ poll = "advertise" /\ created = 0 /\ <<t, ty>> \in todo
  /\ todo' = todo \ {<<t, ty>>}
  /\ UNCHANGED <<rosVars, subVars, sdkVars, mapVars, chanVars, view,
                 releasing, unreplayed, poll, latest, toClose, closeCalls,
                 toRelease>>

InsertChannel ==
  /\ poll = "advertise" /\ created # 0
  /\ channels' = channels \cup {created}
  /\ created' = 0
  /\ UNCHANGED <<rosVars, subVars, sdkVars, mapVars, topicOf, typeOf,
                 nextChan, view, releasing, unreplayed, pollVars>>

AdvertiseEnd ==
  /\ poll = "advertise" /\ created = 0 /\ todo = {}
  /\ poll' = "query"
  /\ UNCHANGED <<rosVars, subVars, sdkVars, mapVars, chanVars, view,
                 releasing, unreplayed, latest, toClose, closeCalls,
                 toRelease, todo>>

-----------------------------------------------------------------------------
Init ==
  /\ published \in [Topics -> Types \cup {None}] /\ changes = 0
  /\ sent = [p \in Callers |-> 0] /\ last = [p \in Callers |-> 0]
  /\ subChan = [s \in SubIds |-> 0]
  /\ connected = [s \in SubIds |-> {}]
  /\ queue = [s \in SubIds |-> <<>>]
  /\ inflight = [s \in SubIds |-> None]
  /\ md5 = [t \in Topics |-> None]
  /\ sdkChannels = Foreign /\ sdkSubs = {}
  /\ pc = [c \in Clients |-> "idle"] /\ callChan = [c \in Clients |-> 0]
  /\ view = [c \in Clients |-> [ch \in ChannelIds |-> NoView]]
  /\ channels = {}
  /\ topicOf = [ch \in ChannelIds |-> None]
  /\ typeOf = [ch \in ChannelIds |-> None]
  /\ subOf = [ch \in ChannelIds |-> None]
  /\ clientIds = [ch \in ChannelIds |-> {}]
  /\ cache = [ch \in ChannelIds |-> NoView]
  /\ latchedChannels = {}
  /\ releasing = [c \in Clients |-> None] /\ unreplayed = {}
  /\ poll = "query" /\ latest = {} /\ toClose = {} /\ closeCalls = {}
  /\ toRelease = {} /\ todo = {} /\ created = 0
  /\ nextChan = IF Sysinfo THEN 2 ELSE 1

Environment ==
  \/ \E t \in Topics, ty \in Types \cup {None} : TopicChange(t, ty)
  \/ \E p \in Callers : Publish(p)
  \/ \E s \in SubIds, p \in Callers : Connect(s, p)
  \/ \E c \in Clients, ch \in ChannelIds : ClientSubscribe(c, ch)
  \/ \E c \in Clients, ch \in ChannelIds : ClientUnsubscribe(c, ch)

ClientThread(c) ==
  \/ OnSubscribeUnknown(c)
  \/ OnSubscribeFirst(c)
  \/ \E hasSink \in BOOLEAN : OnSubscribeJoin(c, hasSink)
  \/ OnUnsubscribe(c)
  \/ ReleaseSubscription(c)

Spinner(s) == TakeMessage(s) \/ RosMessageHandler(s)

PollThread ==
  \/ PollQuery
  \/ RemoveChannels
  \/ \E ch \in ChannelIds : CloseChannel(ch)
  \/ \E c \in Clients, ch \in ChannelIds : CloseCallback(c, ch)
  \/ CloseDone
  \/ \E s \in SubIds : ReleaseRemoved(s)
  \/ AdvertiseBegin
  \/ \E t \in Topics, ty \in Types : CreateChannel(t, ty) \/ CreateFails(t, ty)
  \/ InsertChannel
  \/ AdvertiseEnd

Next ==
  \/ Environment
  \/ \E c \in Clients : ClientThread(c)
  \/ \E s \in SubIds : Spinner(s)
  \/ PollThread

Spec == Init /\ [][Next]_vars

(* Each thread keeps running and gets the mutex in the end: the poll thread *)
(* gives it up at the end of every cycle and then sleeps for at least 100   *)
(* ms.  RawChannel::create does not fail for ever.                          *)
Fairness ==
  /\ WF_vars(PollThread)
  /\ \A c \in Clients : SF_vars(ClientThread(c))
  /\ \A s \in SubIds : SF_vars(Spinner(s))
  /\ \A t \in Topics, ty \in Types : SF_vars(CreateChannel(t, ty))

FairSpec == Spec /\ Fairness

-----------------------------------------------------------------------------
(* Properties *)

RosTypes ==
  /\ published \in [Topics -> Types \cup {None}] /\ changes \in 0..MaxChanges
  /\ sent \in [Callers -> 0..MaxMsgs] /\ last \in [Callers -> 0..MaxMsgs]

SubTypes ==
  /\ subChan \in [SubIds -> ChannelIds \cup {0}]
  /\ connected \in [SubIds -> SUBSET Callers]
  /\ queue \in [SubIds -> Seq(Message)]
  /\ \A s \in SubIds : Len(queue[s]) <= QueueLen
  /\ inflight \in [SubIds -> Message \cup {None}]
  /\ md5 \in [Topics -> Types \cup {None}]

SdkTypes ==
  /\ sdkChannels \subseteq ChannelIds
  /\ sdkSubs \subseteq Clients \X ChannelIds
  /\ pc \in [Clients -> {"idle", "subscribe", "unsubscribe", "release"}]
  /\ callChan \in [Clients -> ChannelIds \cup {0}]
  /\ \A c \in Clients : callChan[c] = 0 <=> pc[c] = "idle"

MapTypes ==
  /\ subOf \in [ChannelIds -> SubIds \cup {None}]
  /\ clientIds \in [ChannelIds -> SUBSET Clients]
  /\ cache \in [ChannelIds -> [Callers -> 0..MaxMsgs]]
  /\ latchedChannels \subseteq ChannelIds

ClientTypes ==
  /\ view \in [Clients -> [ChannelIds -> [Callers -> 0..MaxMsgs]]]
  /\ releasing \in [Clients -> SubIds \cup {None}]
  /\ unreplayed \subseteq Clients \X ChannelIds

ChanTypes ==
  /\ channels \subseteq ChannelIds
  /\ topicOf \in [ChannelIds -> Topics \cup {None}]
  /\ typeOf \in [ChannelIds -> Types \cup {None}]
  /\ created \in ChannelIds \cup {0} /\ nextChan \in 1..MaxChannels + 1

PollTypes ==
  /\ poll \in {"query", "remove", "close", "release", "advertise"}
  /\ latest \subseteq Topics \X Types /\ todo \subseteq Topics \X Types
  /\ toClose \subseteq ChannelIds
  /\ closeCalls \subseteq Clients \X ChannelIds
  /\ toRelease \subseteq SubIds

(* Every variable keeps its type: the maps are keyed by channels the SDK    *)
(* really handed out, a client thread has a channel exactly while it runs a *)
(* callback, and no queue outgrows subscription_queue_length.               *)
TypeOK ==
  /\ RosTypes /\ SubTypes /\ SdkTypes /\ MapTypes /\ ClientTypes
  /\ ChanTypes /\ PollTypes

(* onSubscribe, onUnsubscribe and the poll thread keep _subscriptions in    *)
(* step with _channels: an entry belongs to a channel the bridge still has  *)
(* and to at least one client, so no topic is subscribed to for nobody.     *)
NoOrphanSubscription ==
  \A ch \in ChannelIds :
    IF subOf[ch] # None THEN ch \in channels /\ clientIds[ch] # {}
                        ELSE clientIds[ch] = {} /\ cache[ch] = NoView

(* A client whose callback has returned is in the entry of a live channel   *)
(* exactly when the SDK counts it as subscribed, whichever of its thread    *)
(* and the poll thread ran first: no subscription is lost, none is left.    *)
RegisteredMatchesSdk ==
  \A c \in Clients, ch \in channels :
    callChan[c] # ch => (<<c, ch>> \in sdkSubs <=> c \in clientIds[ch])

(* The places that own a ros::Subscriber: a map entry, the local of an      *)
(* onUnsubscribe, subscriptionsToRelease.                                   *)
Owners(s) ==
  {<<"entry", ch>> : ch \in {d \in ChannelIds : subOf[d] = s}}
    \cup {<<"client", c>> : c \in {d \in Clients : releasing[d] = s}}
    \cup {<<"poll", 0>> : d \in {s} \cap toRelease}

(* Moving a subscriber out of the map under the lock and destroying it      *)
(* later neither leaks it nor destroys it twice: one that is alive has      *)
(* exactly one owner, and a destroyed one has none.                         *)
SubscriberOwnedOnce ==
  \A s \in SubIds :
    IF s \in Alive THEN \E o \in Owners(s) : Owners(s) = {o}
                   ELSE Owners(s) = {}

(* _latchedChannels, which the SDK's cache filter reads under its own       *)
(* mutex, holds exactly the channels with a cached latched message, even    *)
(* when a callback outlives the entry it would have cached into.            *)
LatchedChannelsExact ==
  latchedChannels = {ch \in ChannelIds : cache[ch] # NoView}

(* A client in the entry has seen every latched message that is cached, be  *)
(* it live or replayed when it joined late, unless it joined over the       *)
(* gateway while that had no sink id.                                       *)
LateJoinerCaughtUp ==
  \A c \in Clients, ch \in ChannelIds, p \in Callers :
    (/\ c \in clientIds[ch] /\ <<c, ch>> \in sdkSubs \ unreplayed
     /\ cache[ch][p] # 0)
      => view[c][ch][p] = cache[ch][p]

(* While replacements are advertised, no subscriber of a removed channel is *)
(* alive, except one that a client's own onUnsubscribe is still destroying. *)
TornDownBeforeAdvertise ==
  poll = "advertise" =>
    \A s \in Alive : \/ subChan[s] \in channels
                     \/ \E c \in Clients : releasing[c] = s

(* The comment of updateAdvertisedTopics: a client that subscribes to the   *)
(* new channel of a retyped topic is not locked to the old type's md5sum,   *)
(* so the channel does receive data.                                        *)
NoMd5Lockout ==
  \A ch \in channels :
    LET t == topicOf[ch] IN
    subOf[ch] # None /\ published[t] = typeOf[ch]
      => md5[t] \in {None, typeOf[ch]}

(* latchedMessages holds the last message per latched publisher: within one *)
(* subscription a cached message is never replaced by an earlier one.       *)
CacheKeepsLast ==
  [][\A ch \in ChannelIds, p \in Callers :
       subOf[ch] # None /\ subOf'[ch] = subOf[ch]
         => cache'[ch][p] >= cache[ch][p]]_vars

(* The poll thread only removes a channel whose topic is not published with *)
(* the channel's type any more, as its comment says.                        *)
OnlyGoneRemoved ==
  \A ch \in toClose : <<topicOf[ch], typeOf[ch]>> \notin latest

(* Once the master's topic list stops changing, the bridge advertises       *)
(* exactly the whitelisted topics, one channel each, with their types.      *)
DiscoveryConverges ==
  <>[](/\ {<<topicOf[ch], typeOf[ch]>> : ch \in channels}
            = PublishedTopics
       /\ \A ch, d \in channels : topicOf[ch] = topicOf[d] => ch = d)

(* No wait is for ever: a callback that a client's thread or close() has    *)
(* begun returns, and so does the destruction of a subscriber that waits    *)
(* for an in-flight message, which itself waits for the mutex.              *)
EveryCallReturns ==
  /\ \A c \in Clients : pc[c] # "idle" ~> pc[c] = "idle"
  /\ poll = "close" ~> poll = "query"

=============================================================================
