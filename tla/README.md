# TLA+ models of foxglove_bridge (ROS 1)

`foxglove_bridge` offers the topics, services, parameters and connection graph
of a ROS 1 system to Foxglove clients, over a WebSocket server and, optionally,
a remote access gateway. It has no persistent state and no protocol of its own;
its difficulty is concurrency. The poll thread, the SDK's callback threads, the
roscpp spinner threads, one detached thread per service call, a parameter
worker and an XML-RPC thread share a handful of maps, under locks that may not
be held across most of the calls the threads make. The modules here model those
threads step by step; TLC checks small instances and TLAPS proves the safety of
the core for all of them.

Source paths below are relative to the repository: `cpp` is
`src/ros1_foxglove_bridge.cpp`, `hpp` its header, `tm` is
`src/transport_manager.cpp`, `pi` is `src/param_interface.cpp`.

## The system

| Part | State | Operations | Where |
| --- | --- | --- | --- |
| Topic channels and shared subscriptions | `_channels`, `_subscriptions` (one `ros::Subscriber` per channel, client ids per transport, latched cache), `_latchedChannels` | `updateAdvertisedTopics`, `onSubscribe`, `onUnsubscribe`, `rosMessageHandler` | cpp 479-588, 704-856 |
| Service discovery | `_advertisedServices`; the transports' own service lists | `updateAdvertisedServices`, `addService`, `removeService`, `retrieveServiceType` | cpp 590-691, tm 457-532, `service_utils.cpp` |
| Client service calls | `PendingServiceCall`, `_pendingServiceCalls` | `handleServiceRequest`, its worker lambda, `sweepExpiredServiceCalls` | cpp 1022-1141 |
| Parameters | `_paramOpQueue`, `_paramSubscriberCount`, `_subscribedParams`, `_shutdown` | `enqueueParameterOp`, `parameterWorkerLoop`, the four handlers, `subscribeParams`, `unsubscribeParams`, `parameterUpdates`, `shutdown`, `stop` | tm 401-431, 557-721, pi 140-339 |
| Poll loop and connection graph | `_pollPoke`, `_shuttingDown`, `updateCount`, `_graphSubscriptionCount` | `pollThread`, `pokePoll`, `onConnectionGraphSubscribe` | cpp 350-476, 982-990 |
| Parameter values | none of their own | `valueFromRosParam`, `fromRosParam`, `toRosParam`, `getParams`, `setParams` | pi 28-262, tm 615-683 |
| Client publishing | `_clientAdvertisedTopics` | `onClientAdvertise`, `onClientUnadvertise`, `onClientMessage` | cpp 858-980 |
| Assets, time, configuration, logging | none, or constants after start-up | `fetchAsset`, `/clock`, options | cpp, `capabilities.cpp` |

How they meet. The poll thread runs everything periodic: topics, services,
graph, then the service watchdog, then it waits. The transports call the bridge
on SDK threads, one callback at a time per transport client; `channel.close()`
calls `onUnsubscribe` back on the poll thread, inside the call. roscpp calls
`rosMessageHandler`, one at a time per subscriber, and destroying a subscriber
waits for the one that runs. The parameter worker calls the ROS master; the
master calls back on the XML-RPC thread, which publishes into the transports.
`~Ros1FoxgloveBridge` stops the poll thread, the parameter backend and the
transports in this order, and leaves the service workers running.

What is hard about it, and what correct means:

- A channel can be removed while clients subscribe to it, unsubscribe from it
  and receive messages on it. The bridge's maps must follow the SDK's record of
  subscriptions; no subscriber may be leaked or destroyed twice; a subscriber is
  destroyed outside the lock its own callback takes, or everybody waits for
  everybody.
- A retyped topic's old subscriber must be gone before the new one exists, or
  roscpp keeps the old md5sum and the channel stays silent.
- A latched message is replayed to late joiners while new ones are broadcast.
- A service must not be callable before the handler knows it; a failed
  registration may not hide it from later cycles, and a failed removal, which
  nobody retries, must not spoil anything else.
- The worker, the watchdog and the destructor compete for the one responder of
  a service call. Every call must be answered, though `ros::service::call` may
  never return.
- roscpp delivers a service's type on a thread of its own, perhaps after the
  poll thread has given up on it and probes the next service.
- A message from a client goes out on a copied publisher, outside the lock,
  while the advertisement may be removed. Clients of the two transports may have
  equal ids.
- Eleven locks, four of them inside the SDK or roscpp, are nested by the poll
  thread, SDK threads, spinners and gateway sessions.
- A batch of parameters must be set item by item, whatever fails, and the echo
  must tell the client what was applied, conversions both ways included. The
  master's parameters are one tree: an item for a namespace sets or deletes
  everything in it.
- Two transports share one subscriber count per parameter through a queue. The
  destructor overtakes queued and running operations, whose responders must
  still be used exactly once.
- A poke or a shutdown between the poll thread's predicate and its sleep must
  not be slept through.

`PROJECT.json` lists these hazards with their lines and the properties that
would catch each one going wrong, and the hazards that no property covers.

## Modules

| Module | Models | A step is |
| --- | --- | --- |
| `Subscriptions` | channels, subscriptions, latched cache | a critical section of `_subscriptionsMutex`, or what a thread does between two of them |
| `ServiceRegistry` | service discovery and registration | a change of `_advertisedServices`, a probe, a call into a transport |
| `ServiceProbe` (extends `ServiceRegistry`) | the inside of a probe: connection, wait, header callback | a step of the waiter or of the callback |
| `ServiceCalls` (extends `ServiceRegistry`) | client calls, workers, watchdog, destruction | a critical section of a call's mutex or of `_pendingServiceCallsMutex`, a response |
| `OneShotReply` | abstract: a call gets at most one answer, which never changes | |
| `ParamOps` | parameter operations from callback to master, pushes, shutdown | a critical section of `_paramOpMutex` or of the backend's `_mutex`, one master call |
| `ParamValues` | conversions both ways; a get or set request from the queue to its answer | one parameter set or read, or one change by another node |
| `ClientPublish` | advertise, unadvertise, message; all operations that nest locks | a lock taken or released, what a handler does under it, `publish()` |
| `LockOrder` | abstract: who waits for a lock holds only locks that come before it | |
| `PollLoop` | when a cycle runs, the wait, pokes, graph subscriptions, join | one stage of a cycle; the wait as predicate, sleep, wake-up |
| `MC...` | instances: model values and client sets | |
| `...Proofs` | theorems and their lemmas | |

`PROJECT.json` maps every definition to the lines it stands for. Definitions
marked "Wrong variant" are used nowhere: each is a plausible mistake in the
operator that follows it, and with it the property named in `PROJECT.json`
fails. Some notes on the correspondence:

- **Subscriptions.** `poll` is the poll thread's place in
  `updateAdvertisedTopics`; `toClose`, `toRelease` and `todo` are
  `channelsToClose`, `subscriptionsToRelease` and the topics still to advertise.
  `CloseChannel` followed by `CloseCallback` is `channel.close()` with the
  `onUnsubscribe` it makes for each client. `MutexFree` is FALSE while the poll
  thread advertises, which is the one place where the lock spans an SDK call
  (`RawChannel::create`, whose channel a client may subscribe to before it is in
  the map). `view`, what a client has received, exists for the properties only.
  A failed `getPublishedTopics` leaves everything as it was and is no action.
- **ServiceRegistry.** A service in `fresh` is probed (`ProbeType`,
  `ProbeFails`: the two outcomes of `retrieveServiceType`), inserted in the map
  (`InsertEntry`), registered with the server (`AddToServer` or `AddFails`) and
  with the gateway, whose failure is only logged. A removal may fail in each
  transport by itself, which is only logged as well. The code keeps no record of
  that: `wsLeft` and `gwLeft` are history variables, the services a transport
  would not remove, and exist for the properties and the fairness only.
- **ServiceProbe.** `ProbeType` and `ProbeFails` of the registry become several
  steps. `promise` is the probe's `SharedState::promise`; `callback` and `header`
  are the header callback on roscpp's thread, which may outlive the probe. It
  then owns its old promise alone, so `own` is FALSE and `Fulfil` reaches nobody.
  `linkType` is the type of the server the connection was made to.
- **ServiceCalls.** `slot` is `PendingServiceCall::responder.has_value()`.
  `late` is the set of calls whose deadline has passed; the sweep works with
  `now`, the calls that were late when it read the clock. `DestroyBridge`
  destroys `_pendingServiceCalls`; a call its worker still holds survives it.
- **ParamOps.** Requests carry an id and `replies` records what was sent for
  it. An `unsubscribe` is passed to the master only for the names whose count
  came to 0. A master call may fail before or after it reached the master
  (`ok`, `reached`).
- **ParamValues.** A value is a tree: a function from the paths of its members,
  their members and so on to a type and a number (`Node`). The conversions of
  the code recurse over a value and treat each member by itself, knowing no more
  than its depth and whether it is the top; so each is one function of the node
  at a path, and throws if some path makes it throw. A double counts in halves,
  so that whole and fractional ones exist; a string or boolean is a number as
  well; struct members are in the order of their names. The master's parameters
  are one more such tree, of structs: `At` is what `getParam` finds, of a
  namespace a struct of all that is in it, and `Put` is `setParam` or
  `deleteParam`, which act on everything below the name, make the namespaces
  above it, and replace a parameter that is in their way. A name is the path it
  resolves to and whether it is spelled from the root, since `isOwnParameter`
  compares the spelling (`Own`); the whitelist and the names roscpp refuses are
  sets of such names. The name "/" and spellings with doubled or trailing
  slashes are not modelled.
  `AsJson` is the one thing a client does to a value it writes back: JSON does
  not tell 2.0 from 2. `todo` is what the worker's loop still has to do. An
  empty list or struct becomes an invalid `XmlRpcValue`, which XML-RPC cannot
  carry: what the master holds after that is left open (`Stored`).
- **ClientPublish.** `todo[th]` is what is left of a thread's operation. `Under`
  is the scope of a `lock_guard`, `Touch` a critical section that takes no other
  lock. An exception leaves the one scope that a handler throws in (`Throw`).
  `live` is roscpp's publication of the topic, whose type is fixed while any
  handle of it exists. What subscription handlers, the poll thread with its
  service watchdog, spinners and gateway sessions do appears as the locks they
  take, in order; their effects are in `Subscriptions` and `ServiceCalls`. All
  pending calls' mutexes are one lock, `pendingCall`: no thread holds two.
- **LockOrder.** `Rank` is the order of hpp 175-190, extended by the other
  mutexes that are nested. A critical section that is over at once counts as
  waiting for its lock, not as holding it.
- **PollLoop.** The condition variable is explicit: `evaluated` is the instant
  between a FALSE predicate and the sleep, while `_pollMutex` is held. `owed`
  is set by a poke and cleared when a cycle begins.

External parts are modelled from how the code uses them: the master's topic and
service lists change at will; a roscpp subscriber has a bounded queue that drops
its oldest message, one callback at a time, a re-send of a latched message to a
new connection, and an md5sum lock per topic; the SDK runs one callback per
client at a time, reports the first and last parameter or graph subscriber per
transport, and invokes `onUnsubscribe` for the subscribers of a channel that is
closed; it handles one request of a client's channel at a time, except that a
client may leave while its last message is handled. The locks of the SDK and of
roscpp are those the comments of the source name. Message contents, encodings
and log text are left out, and parameter values everywhere but in
`ParamValues`.

## Runs

| Run | Question | Instance |
| --- | --- | --- |
| `sub_safety` | Are the maps, the SDK's subscriptions, the live subscribers and the latched cache consistent in every interleaving? | one topic, two types, a WebSocket and a gateway client with the same id, three subscribers, two messages, two channel ids |
| `sub_liveness` | Do the channels converge, and does every callback and teardown return? | one client, a second topic outside the whitelist, the sysinfo channel, three channel ids |
| `sub_retype_race` (violation) | Does a retyped topic's channel get data with two clients? | two clients, one retype |
| `sub_stale_cache` (violation) | Does the cache keep the last message? | two clients, two messages, one channel |
| `sub_schemaless` (violation) | Are only channels removed whose topic is gone? | a type without definition |
| `service_discovery` | Is what is offered known and of its own server's type, and does it converge? | `ServiceProbe`: two whitelisted services, one other, two types, two changes, probes that time out, registrations and removals that fail |
| `service_calls` | Is every call answered, once, and not early? | two calls, a known and an unknown type |
| `param_ops` | Are counts, registrations and responders consistent, is every request answered, does the destructor return? | both transports, a visible and a hidden parameter, three callbacks |
| `param_ops_shutdown` (violation) | Does no registration follow `shutdown()`? | one callback |
| `param_values` | Does a value survive being read and written back, and is a batch's echo what was applied? | seven names: the bridge's namespace and a parameter in it, one off the whitelist, a parameter under two spellings, one that lies in it, an invalid name; eleven values other nodes set, seventeen items of clients, batches of two |
| `client_publish` | Do advertisements follow the SDK, do messages go out, is there one lock order? | two clients with equal ids, one per transport, with the other threads that nest locks |
| `poll_loop` | Is no wake-up lost, and does every poke, shutdown and graph subscription take effect? | both transports, one of which also advertises |

### Bounds

Every bound is a constant. `MaxChannels` of 2 is one removal and one
replacement, which is what the removal races need; 3 leaves room for the sysinfo
channel, whose id is not the bridge's. In `sub_safety`, `SubIds` has a name
more than there are channels, so that a subscriber being destroyed overlaps with
both its predecessor's and its successor's life. Two messages per caller tell a stale one
from the last. `QueueLen = 1` makes the queue overflow. `MaxSrvChanges` of 2 lets
a service stop and come back, or change its type twice, in the middle of a probe
and of a cycle. `MaxCount` only caps `updateCount`, which decides the length of a
wait and nothing else; that the wait never shrinks is checked of the operator
itself for 70 cycles (`MaxCycles`), beyond the 32 where the shift is capped and
the 64 where an uncapped one would wrap.

- `param_ops`: three parameter callbacks are two subscribers and the first of
  them leaving. `Bounded` in `MCParamOps` leaves out symmetric histories: a
  transport always names the same parameters (the WebSocket server both, the
  gateway the visible one), the first callback is a subscription, and only the
  last may be a `setParams`. The proofs have none of these restrictions.
- `param_values`: `MaxBatch` of 2 is an item that fails next to one that must
  not be affected, in either order, and two items for one parameter. `MaxDepth`
  is 3 instead of 128 and `IntMax` 1, which makes an int 2 bits wide instead of
  32: values exist at the cap, beyond it, at the edge of an int and past it, and
  with a hint on the top level and below it. Other nodes set or delete the paths
  in `Shared`, each at most once while a request is served: in the run the one
  parameter that has another inside it and two spellings.
- `client_publish`: the threads that run are one of `Crews`, which between them
  hold every pair of kinds of threads, both clients at once, and the three
  threads of the cycle that hpp 175-190 warns of. In which order a thread takes
  its locks does not depend on the others, so `KeepsLockOrder` loses nothing.

What the proofs below cover does not depend on any of these bounds.

Deadlock is checked where the system never has to stop: in the runs of
`Subscriptions`, `ServiceProbe`, `ParamValues` and `ClientPublish`. In the
others (`CHECK_DEADLOCK FALSE`) the bridge is destroyed, ROS shuts down or the
callbacks run out, after which nothing need happen.

### Fairness

- Threads keep running: weak fairness of the poll thread, of the parameter
  worker, of callbacks in progress. Strong fairness where a step needs a mutex
  that others take again and again: client threads and spinners in
  `Subscriptions`, `SetPoke` in `PollLoop`. The poll thread gives its mutexes up
  and sleeps at least 100 ms per cycle, so they do get it.
- What may fail does not fail for ever: `CreateChannel`, the service query and
  the WebSocket server's `addService` are strongly fair. Without this the bridge
  owes nobody convergence. Nothing is assumed of `removeService`.
- `ServiceProbe`: the waiter and a callback that has begun keep running. Of
  probes tried again and again, some connect, some get their header in time
  (`HeaderArrives(TRUE)`), and some of these name a type (`Fulfil`): strong
  fairness of each, since a probe may also time out, at any moment. All of this,
  and that of `addService`, is asked for services the server does not offer
  already: one that it would not remove, and may refuse for ever as a duplicate,
  must not count as the success of another.
- `ServiceCalls` assumes nothing of `ros::service::call`. That a deadline passes
  is time passing.
- `ParamOps`: the destructor's steps are strongly fair once it has begun, since
  `StopXmlRpc` waits for pushes that come and go. That a destructor begins is
  not assumed.
- `PollLoop` relies on a timeout only while neither flag is set, so a poke or a
  shutdown has to end the wait by itself: a lost notification would fail
  `PokeIsServed` and `DestructorJoins` and not merely delay them.

### What the violations show

- **`sub_retype_race`** (cpp 526-535, 770-774). `updateAdvertisedTopics` waits
  for the subscribers it releases, "otherwise the new publisher would reject it
  and the channel would never receive data". It does not wait for one that a
  client's `onUnsubscribe` has already moved out of the map and is still
  destroying. A second client that subscribes to the replacement then joins a
  topic still locked to the old md5sum.
- **`sub_stale_cache`** (cpp 822-837). `rosMessageHandler` finds the entry by
  channel id. A callback of a subscriber that was moved out of the map, blocked
  on the mutex while its successor was created and has cached a newer message,
  caches its older one over it.
- **`sub_schemaless`** (cpp 500-504). A channel created with an empty schema
  reports an empty schema name, so it never equals the `<topic, datatype>` that
  the next cycle looks for: every poll closes it, with its clients'
  subscriptions, and creates it again.
- **`param_ops_shutdown`** (pi 263-283). `_shutdown` is looked at once, then the
  master is called without the lock. `shutdown()` in between has taken its copy
  of `_subscribedParams`; the registration is issued and nobody removes it.

### Observations without a run

- hpp 216-220 has entries left at shutdown drop their responders. Every entry
  with an open responder is also owned by its detached worker, so none is
  dropped (cpp 1079); a call that never returns is never answered. That the
  destruction of the list answers nobody is a theorem,
  `DestructionAnswersNobody`.
- The waits are not 100, 200, 400 ms as the comment at cpp 447 and the
  repository's README say. The exponent starts at 2 ms under a floor of 100 ms,
  so the first six waits are 100 ms each, then 128 and so on; and a
  `max_update_ms` below 100 is not an upper bound.
- A service that a transport refuses to remove stays offered (tm 511-531): its
  entry is out of the map before, so no later cycle sees that it should go. A
  call to it is answered with an error. If its server comes back, `addService`
  may meet a duplicate; whether the SDK then accepts it is left open.
- `isOwnParameter` compares a name as it is spelled with the node's name and a
  slash (pi 255-257). The namespace itself is no such name, nor is a name not
  spelled from the root, so that a get of it is answered and a set or delete of
  it takes the parameters in it along, while the comments at pi 181-182 and
  214-216 say that the bridge's own are never exposed or modified. The model does
  what the code does: `BatchEchoed` promises the bridge's own parameters no more
  than any other that no item of the batch and no other node was near, and the
  instance has the namespace, a parameter in it and a name that is not spelled
  from the root.
- The copied publisher of a message in flight (cpp 974) keeps its topic's type
  in roscpp. A client that unadvertises and advertises the topic with another
  type in that instant is refused (`AdvertiseFails`), and may try again.
- The type hint of a whole-valued double is only looked at on the top level
  (pi 93): inside a list or a struct it comes back as an int when a client
  writes back what it read. `WriteBackKeeps` states exactly which values
  survive.
- An empty list or struct that a client sets is written as an invalid
  `XmlRpcValue` (pi 103, 110): only inserting a member gives the value a type.
  The client is not promised its own value back, and `BatchEchoed` exempts it.
- Reading counts a container from depth 1, writing from depth 0 (pi 76). A value
  of exactly `MAX_PARAM_DEPTH` levels could be set and not be read back;
  `BatchEchoed` holds because the SDK's limit counts the levels of the message
  around the value as well (`ValuesAssumption`).

## Proofs

All theorems hold for every value of the constants that satisfies the modules'
named assumptions (`ConstantsAssumption`, `RegistryAssumption`,
`ProbeAssumption`, `CallsAssumption`, `ParamAssumption`, `ValuesAssumption`,
`PollAssumption`, `PublishAssumption`): these say that `None` is not a topic, type, service, call
or thread, that "untyped" is no type, that the bounds are naturals, that sets
which are counted are finite, that a thread of the SDK is not the poll thread, a
spinner or a gateway session, that no name is the root of the parameters, which
is a struct, and that the values other nodes and clients set are trees of the
types that XML-RPC and the SDK have, a client's no deeper than the comment at
pi 20-25 says the SDK lets through. `LockOrder` needs none.

- **`SubscriptionsProofs`**: `TypeCorrect`, `EntriesHaveClients`,
  `RegistrationFollowsSdk`, `SubscribersAccounted`, `LatchedSetExact`,
  `LateJoinersCaughtUp`, `TeardownComesFirst`. One inductive invariant, `IInv`,
  carries them. Beyond the properties themselves it says where the poll thread's
  lists are empty and what they hold (`PollPhase`), that channel ids are handed
  out once (`ChannelNumbers`), what a client thread may find while its callback
  runs (`CallInProgress`), and who owns which subscriber (`Owned`, the form of
  `SubscriberOwnedOnce` that can be preserved: every live subscriber is in its
  channel's entry, in a client's local or in the poll thread's list, and these
  exclude each other). `OnlyLatchedCached` says that a message of a caller that
  does not latch is never cached, so passing it on cannot leave anybody behind
  the cache.
  None of the properties is inductive alone: `RegisteredMatchesSdk`, for
  instance, survives a channel's removal only because `PollPhase` knows that a
  removed channel is out of `_channels` before the SDK forgets it.
- **`ServiceDiscoveryProofs`**, of the registry: `OfferedServicesKnown`,
  `MapAgreesWithServer`. `ServerList` says that the server's list is, at every
  stage of an update, the map's services and those still to be removed, without
  the one in hand (`InHand`), and the ones it would not remove, which are not in
  the map; `GatewayList` bounds the gateway's in the same way. Of the probe:
  `ProbeImplementsRegistry`, the refinement: each step of a probe is one of the
  registry's or changes nothing of it; so the two theorems hold of it as well.
  `DiscoveryTypeCorrect`, and `AnswersAreOwn`, for which the invariant says that
  a header given to this probe's callback is that of the server it connected to.
- **`ServiceCallsProofs`**: `CallsTypeCorrect`, `ResponderUsedOnce`,
  `TimeoutsAreLate`, `OpenCallsWatched` and the refinement
  `OneShotImplemented`. The invariant is a conjunction of facts about one call
  (`HandedOn`, `HeldOnce`, `WorkerHolds`, `AnswerMatches`) and one about the
  sweep. `DestructionAnswersNobody` is the theorem behind the observation above:
  destroying the list changes no responder at all, which is also why destruction
  refines a stuttering step (`NothingFreed`).
- **`ParamOpsProofs`**: `ParamTypesCorrect`, `CountNeverDrifts`,
  `RegistrationsFollowCount`, `RequestsAnsweredOnce`,
  `PushesReachRunningTransports`. `CountFollowsTransports` is not inductive: an
  unsubscription is only counted if the count is not 0, and that depends on the
  order of the operations in the queue. `NeverDrifts` adds that the count stays
  within 0 and the number of transports after each prefix of the queue; it is
  preserved because a callback has already changed its transport's own record
  (`AskedIsRecorded`), so that subscriptions not yet queued are at most, and
  unsubscriptions at least, what the transports have. The lemmas before it count the
  operations on a parameter in the rest of a queue. `RegInv` says for each stage
  of a forwarded operation what master and map hold for the names still to be
  passed on (`BeingForwarded`). `AnswerInv` says that ids are given out in order
  and no two operations anywhere have the same.
- **`ParamValuesProofs`**: `ValuesTypeCorrect`, `ReadWriteBack`,
  `BatchesAreEchoed`, for values of any shape and depth, ints of any width and
  batches of any length. The first part is about the conversions: `WrittenNode`,
  `ReadNode` and `JsonNode` say what each makes of one member, `BackNode` what is
  left of a member after reading, JSON and writing, and `WrittenBackKept` lifts
  that to whole values; `EchoNode` and `EchoIsTrue` are the same for writing and
  reading back, where a 32-bit int keeps exactly the integers that fit
  (`NarrowFits`). The second part is about the master's tree: `PutIsRos`
  says that setting or deleting leaves a tree of structs down to every name,
  `AtPut` that what is set is found there, and `AtElsewhere` that nothing changes
  at a path that lies neither above nor below the one set.
  The third part is the worker. `ValuesTypeOK` is not in the run: it is proved,
  and what it says of a narrowed integer `BatchEchoed` would catch as well.
  `RestInv` says that `todo` is what is left of the request; `MasterInv`, that
  what no item set so far and no other node was near is as it was before the
  request, and that an item is in force until something near it is set;
  `EchoInv`, that the response has the present value of each name read so far,
  unless another node changed something near it. `BatchEchoed` follows when
  nothing is left. Two of its conditions came out of the proof: that of the
  empty containers, and that a type hint on a list reaches no member (`Fits`).
  The instance has an item for each.
- **`LockOrderProofs`**: `LockOrderPreventsDeadlock`. In a set of threads that
  wait for one another the thread whose lock has the highest rank waits for
  a lock whose holder, waiting too, waits for a higher one.
- **`ClientPublishProofs`**: `ImplementsLockOrder`, `ThreadsNeverDeadlock`,
  `EntriesFollowChannels`, `AcceptedMessageGoesOut`, for any numbers of threads,
  channels and types. An operation is a sequence of steps, so the first half of
  the module is about such sequences. `HeldAt(s, i)` is the set of locks that
  the rest of `s` releases without taking them first: what a thread must hold
  there. A sequence is `Disciplined` if each lock it waits for ranks above all
  it holds, and is released once; it is `Nested(s, r)` if moreover it begins
  and ends with nothing held and takes only locks above rank `r`. `UnderNested` and
  `ConcatNested` show that scopes and sequences of scopes are `Nested`, and
  `OperationsNested` that every operation is: moving one lock out of its scope,
  or closing channels under `_subscriptionsMutex`, would break it. `LockInv` says
  that every thread holds exactly `HeldAt` of what it still has to do; each step
  keeps that (`LockStepInOrder`, `BeginInOrder`, `HandlerInOrder`) and is a step
  of `LockOrder` (`MoveKeepsOrder`). A thrown exception does not break it because a
  handler throws only where it holds `_clientAdvertisementsMutex` and nothing
  else (`StagesHoldAds`). `ThreadsNeverDeadlock` then takes the argument of
  `LockOrderProofs` over to the bridge's own threads.
  For the two properties of clients, `StageInv` names what a request still has
  to do (`AdvCheck`, `AdvLookup` and so on). `FollowInv` makes
  `AdvertisedFollowsSdk` inductive: requests that register a channel exclude each
  other, the key stays free between `check` and `advertise`, and entry and
  channel differ only while the erasure is pending. `MessageInv` says that every
  publisher, in the map or copied by a handler, is one of the single publication
  of the topic, and that a handler which found its entry still has its copy.
- **`PollLoopProofs`**: `PollTypeCorrect`, `WakeupsArrive`, `GraphCountIsExact`,
  `WaitsNeverShrink`. The strengthening of `NoLostWakeup` is
  `EvaluatedIsCurrent`: while the mutex is held after the predicate, both flags
  are still FALSE. The bounds of the wait rest on `BackoffBounds` and
  `BackoffMonotone`: below 2^31 one more shift doubles the wait, and from there
  on it is `MaxPeriod`.

Only model-checked: all liveness, since the provers have neither fairness nor
ENABLED. What a recursive definition computes would be out of their reach as
well; no module has one, since the recursion over values is stated path by path.
The properties of the four violation runs are false of the code, so there is
nothing to prove of them. Every invariant, action
property and refinement of a passing run has a theorem.

## Not modelled

- The constructor's failure paths and the order of member destruction: one
  thread, and a failure ends the process. What the destructor stops, and in
  which order, is in the modules of the parts that are stopped.
- Types of messages. A channel's first subscriber that arrives after a retype
  and before the next poll connects with the new type, and its messages go out on
  the old type's channel until that poll. `Subscriptions` has the connection, but
  its messages carry no type, so no property can tell.
- Latched messages that roscpp drops from a full queue before they are cached:
  the queue overflows in the model, but `LateJoinerCaughtUp` compares with the
  cache.
- What a later poll does about a service that the gateway refused: nothing, as
  `addService` reports success (tm 486). `gwServices` then lacks it, and no
  property asks for more, since nothing in the code promises it.
- A parameter update that arrives before `setParamUpdateCallback` is lost
  (pi 327). `ParamOps` has the window, but no values to lose.
- A master that is out of reach while parameters are read or set, for all but
  the query for all names (`NamesFail`); each failing call is caught like a
  failing conversion.
- Asset fetching, percent decoding, `/clock`, option parsing, capabilities,
  logging, regular expression filters, the graph's contents: sequential, without
  shared state.

## Plan

1. `Subscriptions`, `ServiceRegistry`, `ServiceCalls`, `OneShotReply`,
   `PollLoop`, with proofs. Done.
2. `ParamOps`, with proofs of all its safety properties. Done.
3. `ServiceProbe` as a refinement of the registry, with proofs. Done.
4. `ParamValues`, with proofs of all its properties. Done.
5. `ClientPublish` and `LockOrder`, with proofs. Done.

## Running

In this directory, with TLC and the TLA+ proof system installed:

    tlc -config SubSafety.cfg MCSubscriptions
    tlapm SubscriptionsProofs.tla

`PROJECT.json` names the module, the configuration and the expected result of
every run.
