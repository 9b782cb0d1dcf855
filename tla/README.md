# KubeEdge in TLA+

KubeEdge extends Kubernetes to edge nodes: **cloudcore** runs next to the API
server, **edgecore** on every edge node, and the two exchange messages over a
connection that breaks, while either side may be restarted.  This directory
holds TLA+ models of the parts of that exchange that are hard to test, the TLC
runs that check them on small instances, and TLAPS proofs of the properties that
matter most.  Paths below are relative to the root of the repository.

## 1. The system and its parts

| part | code | state | operations | talks to |
|---|---|---|---|---|
| dispatcher, message pool, ack session | `cloud/pkg/cloudhub/{dispatcher,common,session}` | per node a store and a work queue; ObjectSync objects in the API server; the message waiting for its ack | dispatch, compare versions, enqueue, send, rewrite, take an ack, record | edgecontroller, syncController, edgehub, API server |
| syncController | `cloud/pkg/synccontroller` | none of its own: the informers' caches | compare every ObjectSync with its object every 5 s; send updates and deletes; collect orphans | dispatcher |
| sessions and connections | `cloud/pkg/cloudhub/{handler,session}` | session map, pool map, `NodeNumber` | register, evict, keepalive, read error, terminate, clean up | viaduct, dispatcher |
| edgehub | `edge/pkg/edgehub` | the client, `reconnectChan`, three goroutines per connection | dial, read, send, ping, reconnect, rotate certificate | cloudhub, edge modules |
| metamanager | `edge/pkg/metamanager` | the meta table (SQLite), pending remote queries | insert, update, delete, response, query | edgehub, edged |
| metaserver | `edge/pkg/metamanager/metaserver` | meta table v2, watches, applications | list, watch, get at the edge | dynamiccontroller, metamanager |
| beehive | `staging/src/github.com/kubeedge/beehive` | module channels, groups, anonymous response channels | Send, SendSync, SendResp, SendToGroup(Sync) | every module |
| viaduct | `pkg/viaduct` | connections, pending sync messages | read loop, write, keeper | cloudhub, edgehub |
| edgecontroller | `cloud/pkg/edgecontroller` | LocationCache, informer caches | downstream events, upstream status updates and queries | dispatcher, API server |
| devicetwin | `edge/pkg/devicetwin` | device list, SQLite tables, a mutex per device and a read-write lock | twin, attribute and state updates, membership | edgehub, eventbus |
| devicecontroller | `cloud/pkg/devicecontroller` | devices and models | downstream device messages, upstream twins | dispatcher, API server |
| dynamiccontroller | `cloud/pkg/dynamiccontroller` | applications, listeners | serve the edge's list-watch | metaserver |
| node jobs | `cloud/pkg/taskmanager`, `cloud/pkg/controllermanager/nodetask`, `edge/pkg/taskmanager` | the job object, executors with a pool, timeout jobs | reconcile, execute, report, update status, time out | dispatcher, API server |
| cloudstream, edgestream | `cloud/pkg/cloudstream`, `edge/pkg/edgestream`, `pkg/stream` | session map, requests per session, local connections with three goroutines each | connect, add, serve, remove, close, for logs, metrics, exec and attach | kubectl, edged |
| router, eventbus, servicebus | `cloud/pkg/router`, `edge/pkg/{eventbus,servicebus}` | rules, subscriptions | forward | each other |
| edged | `edge/pkg/edged` | the vendored kubelet | pods | metamanager |
| controllers of CRDs | `cloud/pkg/{controllermanager,policycontroller,csrapprovercontroller,admissioncontroller,csidriver}` | none between requests | reconcile, validate, forward | API server |
| keadm, edgesite, generated clients | `keadm`, `edgesite`, `staging/.../api` | files, processes | install | – |

What is hard here: acks and rewrites crossing each other; the same object sent by
the informer path, by syncController and as the answer to a query; decisions on
caches that lag; ObjectSyncs written in two API calls; a session that is replaced
while it still records; cloudcore restarting with everything in memory lost;
metamanager handling each message in its own goroutine; maps and counters
updated in separate atomic steps by overlapping connections of one node;
goroutines of a closed connection that go on with the next one; answers that
cross the timeout of their caller; five parties that read, change and write one
job object; locks that are looked up in a map while others replace them there;
two ends of a tunnel that tell each other to stop over the channels that have to
be stopped.

## 2. Modules

```
ReliableSync          delivery of objects to one node, cloud and edge composed
  ReliableSyncTypes   type correctness (TLAPS)
    ReliableSyncProofs   what ObjectSyncs may claim (TLAPS)
  MCReliableSync      instances for TLC
CloudHubSessions      sessions, pools and connections of all nodes
  CloudHubSessionsProofs, MCCloudHubSessions
EdgeHub               the edge's connection loop
  EdgeHubProofs
BeehiveChannel        the message bus between the modules of a process
  RequestReply        what the bus promises its callers
  BeehiveChannelProofs, MCBeehiveChannel
NodeJobs              a node job: controller manager, cloudcore and edge composed
  NodeJobsProofs, MCNodeJobs
DeviceTwin            the workers of devicetwin on memory, SQLite and locks
  DeviceTwinProofs, MCDeviceTwin
StreamTunnel          logs, exec, attach and metrics over the tunnel, both ends composed
  StreamTunnelProofs, MCStreamTunnel
```

An operator whose comment begins with "A mutant of" is a variant of the definition
after it, with a plausible mistake in it.  It is used by no specification;
`PROJECT.json` names the property that must fail when it is put in place.

### ReliableSync

One edge node and the objects that concern it.  An object is a UID; `NameOf`
gives the key under which the edge stores it, so that two UIDs of one name are a
deletion followed by a re-creation.  The state follows the path of a message:

* `obj`, `events`: the informer's indexer and the events on their way through
  edgecontroller (`downstream.go`).  API server and indexer are one state; no
  code here reads anything newer than the indexer.
* `chan`: messages that syncController or the answer to a remote query has
  built, with the version read when they were built.  Two sources feed the
  dispatcher and either can come first.
* `disp`, `dispPc`, `dispStale`: `DispatchDownstream` between its look-ups, API
  calls, `store.Add` and `queue.Add`; `dispStale` says that the pool it looked
  up has been replaced.
* `api`, `lister`: `ObjectSync.Status.ObjectResourceVersion` (absent, empty, or a
  version) and the informer's cache of it.
* `store`, `queue`, `redo`, `delayed`: the node's `AckMessageStore` and its
  rate-limited work queue (waiting, dirty while processing, delayed).
* `sMsg` … `sSeen`: the `SendAckMessage` goroutine: waiting for an ack, or between
  the API calls of `saveNamespaceResourceSuccess`.  `oMsg`, `oPc`, `oSeen`: the
  same goroutine of a session that has been terminated and is still saving.
* `down`, `up`: copies on the wire or in the edge's goroutines, and acks.
* `edge`, `asking`: the meta table and the remote queries metamanager waits on.
* `persisted`, `removed`: history variables, used only by properties.

Each API call, store access and queue access that another goroutine can see is a
step; everything between two of them is one step.  The one exception is
`deleteSuccessPoint`, whose API delete and store delete are taken together.  Namespaced and cluster-scoped syncs run the same
steps and are modelled once.  Insert and update are one operation: no code here
distinguishes them.  At most one terminated session's goroutine is still saving
when a second connection ends.  Message IDs are taken from a small set, always
one that no part of the system still holds, which is what a UUID guarantees.

### CloudHubSessions

All nodes and connections of one cloudcore.  Every connection has the goroutine
of `HandleConnection` (`pc`) and a read loop (`reading`), which viaduct starts
for a refused connection too.  `sessions`, `pools` and `NodeNumber` are the two
`sync.Map`s and the atomic counter; every access is a step.  A session and its
pool are named after their connection.  An authentication failure ends
`HandleConnection` before anything is registered, exactly like `ReachLimit`, and
is not a separate action.  The connect and disconnect events that cloudhub
publishes have no consumer and are left out.

### EdgeHub

`Start` (`pc`), the client's connection (`link`) and the numbers of goroutines in
each place, since goroutines of one kind are interchangeable.  `reconnectChan` is
unbuffered: `blocked` counts the goroutines at the send.  `Clean` waits until the
reader and the pinger of the closed connection have failed; this is what the
pause of twice the heartbeat before it is for (`edgehub.go:104`), and the model
assumes that it suffices.  A sender waits for a message of an edge module and so
may outlive any number of connections.

### BeehiveChannel and RequestReply

The calls of `Send`, `SendSync`, `SendToGroup` and `SendToGroupSync`, each a
goroutine (`pc`) with, for the synchronous ones, an entry in `anonChannels`.
`queue` holds the bounded channels of the modules.  `senders` are the goroutines
a broadcast has started.  A responder is first in `working` (it has taken the
request), then in `replying` (it holds `anonChsLock` for reading, between lookup
and send); writers of the map need `replying = {}`.  The anonymous channel of
`SendSync` is unbuffered: an answer that comes before the caller is in its second
select is discarded.  `Retry` is the metaclient's loop, which sends the same
message ID again.  `Cancel`, `DelChannel` and `CloseChannel` are
`GracefulShutdown`; a send that meets a closed channel panics, is recovered, and
the call returns an empty message without an error (`SendPanics`).

`RequestReply` knows nothing of channels: a call is `pending` or has one outcome,
modules take a request before they answer it, "ok" needs the answers of all that
owe one, and "empty" occurs only for a module that is gone.  `BeehiveChannel`
instantiates it as `RR`, with `channels` for the live modules and the result of a
call that is done for its outcome.

### NodeJobs

One `ImagePrePullJob` from its creation on: the API object (`phase`, `task`,
`deleting`), the reconciler and the timeout job of the controller manager
(`registered`, `ticker`, `expired`), the executors, status updater and upstream
handler of cloudcore (`events`, `exec`, `current`, `updates`, `reports`) and the
runs of the flow Check, Pull at the nodes (`runs`).  A write of the object and the
informer event it causes are one step; the lag is that of the downstream channel.
A conflict is modelled where it is not retried, in `CheckTimeout`: `expired` is
emptied by every other write of the object.  An executor that an interrupted
`Execute` leaves behind still runs its deferred `RemoveExecutor`.
`FinishTask` on an executor whose wait group is zero panics: cloudcore restarts.
Losses, restarts, a deletion and a failing update spend from `budget.faults`.

### DeviceTwin

The twin and the device worker handle one message each at a time, in the steps
`Lock` (lookup, read lock, mutex), lookup of the device, change in memory,
statement, `Unlock` (lookup again).  The membership worker adds and removes
devices without their locks, with `LockAll` for a full list.  `list` holds
pointers into `heap`, so that a handler may go on with a structure that is no
longer in the list.  A device is one twin, one attribute and its state; the
comparison of versions in `dealTwinCompare` is the choice of whether the value is
written.  `dealTwinDelete` may accept the cloud's delete for the expected value and
refuse it for the actual one: memory is then changed, no statement is written and
nothing undoes it.  The twin has the value `Half` from there until a message or a
resynchronisation replaces it.  Unlocking a mutex that is not locked ends the process
(`Fatal`).  The membership messages of this cloud carry no twins and no attributes.

Three history variables say what a property excuses: `raced` (devices on which a
membership change met a handler at work), `stale` (devices whose last removal or
resynchronisation failed) and `refused` (new devices whose rows SQLite did not
insert; `addDevice` then unlocks a mutex it never locked).

### StreamTunnel

A node dials a tunnel (`TLSClientConnect`); the cloud's end is a `Session` with its
reader, the edge's a `TunnelSession`.  A request of the API server is a handler
goroutine in the cloud (`pc`) and, after its connect message, `ServeConnection`
with a receiver and a writer at the edge (`local`, `rcv`, `wr`).  `Upgrades` are the
exec and attach requests, which hijack their connection and poll; the others are
logs and metrics, which wait in a select.  `down` and `up` are the two directions of
a tunnel, buffers of `TunnelCap` messages on which a writer waits when they are
full; `readChan` is `ReadChan`, of `ReadCap` messages (128 in the code).  `peerStop` and
`stop` count the tokens in `edgePeerStop` and `Stop`.  `apiConnlock` is held over several
steps by the reader, which signals or writes to a client, and by `Close`; `Locked`
says so.  A send on a closed `ReadChan` is an action of its own, `SendOnClosed`: it
ends edgecore, which comes back without connections.  A tunnel may break at any
time; a write to it then fails or is lost.  Not in the model: the bytes of the
streams, pings, and the choice of the session key from the URL.

## 3. Runs

The passing runs, with their bounds.

| run | instance | checks |
|---|---|---|
| `RSDelivery` | one object, two versions, one early timeout; either one lost connection and messages in any order, or a delete, a connection that stays and messages in order | `RecordedWasPersisted`, `AtLeastOnce`, `SyncedWhileConnected` |
| `RSSafety` | three cases: a failing API call, a cloudcore restart and a delete; a remote query with timeouts, a graceful deletion and writes refused until rewrites are used up; a pod deleted and created again under its name | `TypeOK`, `RecordedWasPersisted`, `NothingStranded`, `RowOutlivesObject`, `ForgottenOnlyWhenRemoved` |
| `CHSessions` | a node with two connections that overlap, or two nodes; node limit 1 or 2, one late keepalive, one pool made by the dispatcher | `TypeOK`, `NoDeadSession`, `NumberExact`, `LimitRespected`, `PoolIsRead`, `SessionsEnd`, `HealthyKeepsRunning` |
| `EHReconnect` | two breaks, one failing dial, one rotation, three messages | `TypeOK`, `WorkingLinkIsServed`, `StaysConnected` |
| `BCRequests` | two modules with channels of size 1; a request with one retry beside a synchronous broadcast or a plain message, a synchronous beside a plain broadcast; a shutdown at any time | `TypeOK`, `NoSendOnClosed`, `ImplementsRequestReply`, `EveryCallReturns` |
| `NJPrePull` | two nodes, concurrency 1; one executor and one fault, or two executors | `TypeOK`, `SlotsRespected`, `CompletedMeansPulled`, `FinalPhaseStays`, `JobEndsWhileTimed` |
| `DTWorkers` | a known and a new device; up to three messages, two membership changes and two failing statements, in six mixes | `TypeOK`, `LocksBalanced`, `MemoryMatchesStore`, `EveryMessageHandled` |
| `STunnel` | a log stream, an exec, or both; up to two tunnels, buffers of one message; mixes of a client that leaves, a stream that ends, input, output, a lost tunnel, a refused endpoint and a refused dial | `TypeOK`, `PeerDoneFits`, `StopFits`, `SessionCloses`, `RequestEnds`, `EdgeStops` |

Why the bounds are enough.  In ReliableSync all retries are cut to one
(`RetryTimes`, 4 in the code): the properties tell "another rewrite" from "the
last one" and not the number.  `ChanCap = 1` keeps one message of syncController
waiting, which can already be stale; `MaxId = 8` is never exhausted.  `Cases` says
which objects exist and how many faults of each kind may happen; one fault can
come anywhere in the behaviour, and with two versions there is always an older
message to confuse it with.  In BeehiveChannel a channel of size 1 is full after
one message and two modules give a broadcast that is half answered; three tries
differ from two in nothing.  In NodeJobs concurrency 1 with two nodes makes the
second node wait for a slot, and a second executor is what a stale event starts.
In DeviceTwin two devices are one to work on and one to leave alone, three messages
change a twin, delete it by half and change it again, and there are
enough objects and mutexes that `SpareObjects` and `SpareMutexes` are never empty
when they are asked for.  In StreamTunnel buffers of one message make every writer
wait, a second tunnel is what a session can be confused with, and one connection of
each kind suffices because connections meet only at the lock and in the tunnel.

What they say of the code:

* `RecordedWasPersisted`: an ObjectSync never records a version the edge has not
  written.  It is the basis of everything syncController decides.
* `ForgottenOnlyWhenRemoved`: an ObjectSync vanishes only for an object that is
  gone and whose delete the edge has carried out, also if a late copy of an
  earlier message is acknowledged meanwhile.
* `NothingStranded`: no message in the store loses its wake-up between
  `store.Add`, `queue.Add`, `Done` and `AddRateLimited`.
* `AtLeastOnce`: the latest version reaches the meta table at some time, and the
  ObjectSyncs of deleted objects go away, over one lost connection.
* `SyncedWhileConnected`: over a connection that stays and keeps order, edge and
  ObjectSyncs settle on what Kubernetes holds (`EventuallySynced`).  Without order
  this is not so:
  `handleMessage` (`edge/pkg/metamanager/process.go:139`) compares no versions, and a
  late copy of version 1 that is handled after version 2 stays.  Messages
  are handed on in a goroutine each (`SendToGroup`), so order is the scheduler's
  to keep; the budget "reorder" of a case says whether it does.
* `RowOutlivesObject`: a late delete of a pod does not take the row of the pod
  that replaced it.  It holds for pods only, which are deleted by key and UID;
  with `Pods = {}` TLC finds the late delete of another kind of object (`edge/pkg/metamanager/dao/meta.go:45`)
  taking the row of its successor, which stays away until the object changes.
* `NoDeadSession`: keepalives, acks and read errors are never handed to a session
  whose goroutine has ended.
* `SessionsEnd`: a session that lost its connection, or its place in the map,
  ends.  The one exception is written into the property: keepalives of a refused
  connection of the node feed the old session, because the read loop of a refused
  connection runs.
* `NumberExact`, `LimitRespected`, `PoolIsRead`, `HealthyKeepsRunning`: what
  `NodeNumber`, the limit, the pool map and a working session should be.  Each is
  stated under the condition that one kind of overlap, recorded in `overlaps`, has
  not happened, and this is as much as the code keeps: a node that reconnects before
  the clean-up lets `DeleteSession` and `AddSession` count one session twice; nodes
  admitted together pass `ReachLimit` together; the dispatcher's `Load` and `Store`
  of a pool straddle the registration of another; the read error of an old
  connection is reported by node ID and ends the session of the new one.  With the
  conditions removed TLC shows each of these behaviours.
* `WorkingLinkIsServed`: a working connection has exactly one reader and one
  pinger, and a sender, although goroutines outlive connections.
* `StaysConnected`: once faults stop, edgehub settles on a working connection.  On
  the way a sender of the previous connection may fail on a client that is still
  dialling, and its signal ends the connection that is then made.
* `NoSendOnClosed`: a caller that times out cannot close its anonymous channel
  under a responder that has found it; `SendResp` has no recover.
* `ImplementsRequestReply`: a synchronous call succeeds only if every module that
  owes an answer gave one to this call, through timeouts, retries under one
  message ID, and modules that leave during a shutdown.
* `EveryCallReturns`: `SendSync` and `SendToGroupSync` come back whatever the
  modules do; no responder can hold the lock they need for ever.
* `SlotsRespected`: no more than `Concurrency` nodes work on a job at a time, and no
  wait group falls below zero, through stale events and repeated executors, until
  the job is deleted or cloudcore restarts.  After that neither holds: the nodes go
  on while a new executor starts, and late reports count against it.
* `CompletedMeansPulled`: a job is `Completed` only if all nodes but those
  `FailureTolerate` admits did pull the images, whatever was lost or restarted.
* `FinalPhaseStays`: no party's old copy of the job takes a final phase back.
* `JobEndsWhileTimed`: a job with a timeout ends, even if tasks or reports are lost,
  as long as the goroutine of its timeout job lives.
* `LocksBalanced`, `EveryMessageHandled`: locks are given back and no worker waits
  for ever, as long as `raced` is empty: one such meeting, on any device, may lose a
  lock that all wait for.  One more exception is named, `Ended`: a new device that
  SQLite refuses ends the process, without any other worker taking part.
* `MemoryMatchesStore`: memory is what SQLite holds although it is changed first and
  the statement may fail; device by device, for those that are neither `raced` nor
  `stale`, and except for the value of a twin that the cloud deleted by half.
* `PeerDoneFits`: `SetEdgePeerDone`, called with the session's lock held, never waits
  for an exec or attach, which may be reading from a user who types nothing.
* `StopFits`: no goroutine of a logs or metrics connection waits on `Stop` after
  `Serve` has left.  It does not hold of exec and attach, whose handler repeats the
  RemoveConnect at every read after the end of file
  (`containerexec_connection.go:141`): their receiver may stay for ever.
* `SessionCloses`: the `Close` of a lost session gets through all its connections,
  whatever they are doing, and gives the lock back.
* `RequestEnds`: the handler of a client that closed its connection returns.  An exec
  waits for the edge's answer, and gets one although the edge may ignore its first
  RemoveConnect, because it repeats it.  Two limits: if edged refuses the request
  nobody tells the cloud (`DialFailed`); and a client that is reset instead of closed
  leaves the handler in its loop until the edge's stream ends.
* `EdgeStops`: what is over in the cloud comes to an end at the edge, unless the
  RemoveConnect was handled before `AddLocalConnection` (`dropped`) or the tunnel was
  lost: local connections of a lost tunnel are not told, and one whose container is
  silent stays.

`RequestEnds` is checked for cases in which one client leaves.  If a log client and
an exec client leave together while there is output and all buffers are full, TLC
finds a circle: the cloud's reader waits in `SetEdgePeerDone` for the log handler,
this for room in the tunnel, the edge's reader for room in the exec's `ReadChan`, its
receiver for room in `Stop`, and `ServeConnection`, which would empty it, for the
cloud's reader.

Deadlock is not checked: every model comes to rest when its budgets are spent
and nothing is left to do, as the program does when nothing happens.

### Disagreements between the code and what it says of itself

| run | property | what happens |
|---|---|---|
| `RSCrash` | `AtLeastOnce` | cloudcore stops between Create and UpdateStatus of an ObjectSync (`message_dispatcher.go:395`).  Its status stays empty, which neither the dispatcher nor syncController handles: the object is never sent |
| `RSReconnect` | `EventuallySynced` | after one reconnection an old message follows a newer one, whose ack a terminated session still records: the edge keeps the old version and the ObjectSync says it has the new one |
| `NJTimeout` | `JobEnds` | `CheckTimeout` loses a race for the job object.  `TimeoutJob.Run` ends on the conflict (`timeout_job.go:91`) and its entry stays in the map, so none is started again: a silent node keeps the job in progress for ever |
| `DTUnlock` | `UnlockRemovesTheLock` | a membership update removes a device, and its mutex from the map, while a handler has it locked; `Unlock` (`dtcontext.go:98`) finds no mutex and leaves it and the read lock held, after which `LockAll` waits for ever |

`PROJECT.json` quotes the comment or document each property is taken from.

## 4. Fairness

* ReliableSync: goroutines of the Go runtime run, timers fire, informers catch up
  and the edge reconnects (weak fairness).  syncController's loop visits every
  ObjectSync every 5 s and its send waits for room in the channel, so
  `Reconcile(u)` is strongly fair; `DispatchEvent` too, because two senders of one
  Go channel are served in turn.  Nothing obliges Kubernetes to act, an edge to
  query or a fault to happen.  A timer that fires while an answer is coming spends
  from a budget: rewrites cannot beat the edge's answer for ever.
* CloudHubSessions: goroutines run, a read loop whose transport is gone returns,
  and the keepalive timer fires for a session that gets no keepalive.
* EdgeHub: goroutines run and a dial succeeds in the end; `MaxFailures` bounds the
  failing ones.
* BeehiveChannel: a calling goroutine that can go on does, its timers fire, and
  `SendResp`, which never blocks, runs to its end.  Nothing is assumed of the
  modules: they may be slow, or never answer.
* NodeJobs: the goroutines and the reconciler's queue run.  A silent task is late at
  some tick, whenever ticks keep coming: `CheckRead(Unfinished)` is strongly fair.
  That an edge node runs a task it has is assumed, that a message arrives is not.
* DeviceTwin: each worker runs; a goroutine that waits for a `sync.Mutex` or a
  `sync.RWMutex` which is free again and again gets it (both are starvation-free),
  hence strong fairness of `RLock` and `MLock`.
* StreamTunnel: every goroutine that can go on does (weak fairness).  The reader of a
  lost tunnel notices in the end, since the server keeps TCP alive, and clients read
  what is written to them.  Nothing makes a client leave, a stream end, a tunnel
  break or the edge dial again.

## 5. Proofs

The theorems hold for every set of objects, names, nodes and connections, every
bound and every budget, from the assumptions named in the modules: `Uids` is
finite and has names, the bounds are natural numbers, `None` and `Made` are no
connections; `Modules` is finite and every call has a target; the job has a node;
there are an object and a mutex for each known device; `Conns` is finite and the
buffers of the tunnel hold at least one message.  One theorem, `RowsOutliveObjects`,
has an assumption of its own, explained below.  Many leaves name Zenon as their prover:
each SMT call makes the later ones of a long module slower, and these leaves need no
arithmetic.

| theorem | statement |
|---|---|
| `TypeCorrect` | `Spec => []TypeOK` (ReliableSync) |
| `RecordedIsPersisted` | `Spec => []RecordedWasPersisted` |
| `ForgettingIsJustified` | `Spec => ForgottenOnlyWhenRemoved` |
| `NothingIsStranded` | `Spec => []NothingStranded` |
| `RowsOutliveObjects` | `Spec => RowOutlivesObject`, if only the keys of pods are used again |
| `SessionsTyped` | `Spec => []TypeOK` (CloudHubSessions) |
| `MapHoldsNoDeadSession` | `Spec => []NoDeadSession` |
| `PoolsAreRead` | `Spec => []PoolIsRead` |
| `NumberIsExact`, `LimitIsRespected` | `Spec => []NumberExact`, `Spec => []LimitRespected` |
| `HealthyIsKept` | `Spec => HealthyKeepsRunning` |
| `LoopTyped`, `LinkServed` | `Spec => []TypeOK` (EdgeHub), `Spec => []WorkingLinkIsServed` |
| `TypeCorrect`, `ResponsesSafe` | `Spec => []TypeOK` (BeehiveChannel), `Spec => []NoSendOnClosed` |
| `BusRefines` | `Spec => ImplementsRequestReply` |
| `JobsTyped`, `CompletedSound` | `Spec => []TypeOK` (NodeJobs), `Spec => []CompletedMeansPulled` |
| `FinalPhaseKept`, `SlotsAreRespected` | `Spec => FinalPhaseStays`, `Spec => []SlotsRespected` |
| `TwinTyped`, `LocksStayBalanced` | `Spec => []TypeOK` (DeviceTwin), `Spec => []LocksBalanced` |
| `StoreIsMatched` | `Spec => []MemoryMatchesStore` |
| `TypeCorrect` | `Spec => []TypeOK` (StreamTunnel) |
| `PeerDoneAlwaysFits`, `StopAlwaysFits` | `Spec => []PeerDoneFits`, `Spec => []StopFits` |

*ReliableSync.*  `RecordedWasPersisted` is not inductive: that a recorded version
was written follows from the ack, the ack from the message, and the match from
the IDs.  `IInv` (`ReliableSyncProofs.tla`) adds

* `AcksTruthful`: every ack on its way answers something the edge carried out;
* `SendersTruthful`: a goroutine that was acknowledged, of the present or of a
  terminated session, holds a message that was carried out;
* `IdsUnique`: two messages anywhere in the system with the same ID are the same
  message, so matching acks by ID is matching them by content;
* `AllJustified`: every delete on its way to the edge, wherever it is, is of an
  object that is gone.

`IdsUnique` needs that a step adds no message except a fresh one: lemma
`CarriedStep` shows that whatever is carried after a step was carried before or is
`DispAdd`'s, and `AddIsFresh` that its ID was free.  `Monotone` shows that the
histories and "gone" only grow, which keeps the other conjuncts true.
`ForgottenOnlyWhenRemoved` is an action property and follows from the same
invariant: only `SaveStep` makes an ObjectSync disappear, for an acknowledged
delete.

`NothingStranded` is inductive next to `IInv` and `StoreKeyed` (a message is stored
under the key of its object).  `AddWakes` and `DoneWakes` say what the workqueue does:
`Add` puts the key into the queue or marks the one being processed, `Done` puts a
marked key back.  What is left is the step that ends a key's processing without a
wake-up: it follows an ack, so by `SendersTruthful` what it forgets was carried out.
`RowOutlivesObject` needs `AllJustified`, and `RowsNamed`: a row is stored under the
key of its object.  A pod's row is removed for its own UID only.  For the other kinds
the edge removes whatever is under the key, so the theorem assumes that no two UIDs
share the key of one of them; without that assumption a late delete takes the row of
the object created under the same name, and the property is false.

*CloudHubSessions.*  `NoDeadSession` is preserved because a goroutine leaves the
places in `InMap` in one of two ways: through `DeleteSession`, which empties the
node's entry, or through `CheckSession`, which has just seen another session there.
A goroutine stores its session once.  `NumberInv` and `LimitInv` count sets of
goroutines instead of map entries.  Without early reconnections a node has one
connection at a time, so the goroutines between `Add` and the last step of
`DeleteSession` are as many as `NodeNumber` says, and when none is in the middle they
correspond one to one to the nodes in the map.  Without comparisons that overlap an
addition the admitted goroutines are no more than `NodeLimit`, and the nodes in the
map are no more than these.  `HealthInv` says that a session `AddSession` is about to
terminate is no longer in the map, and that a working connection is being read: a
session that is registered and works is then ended by none of the parties that end
sessions.

*EdgeHub.*  `LoopInv` ties the place of `Start` to the state of the connection:
when it dials there is no reader and no pinger left.

*BeehiveChannel.*  `NoSendOnClosed` needs only the lock: an entry is deleted when
nobody is replying.  The refinement needs more.  `MessagesRouted`: messages and
answers are with modules their call addressed, and what is being answered was
taken.  `CallConsistent`: what a call has collected fits the place it has reached;
for a broadcast, the modules counted in `channelNumber` still include all live ones,
because channels only disappear.  `ResultJustified`: the result a call is about to
report is one `RequestReply` allows.  A full buffer then means that all counted
modules answered, since it holds answers of counted modules only and has as many.
`ClosedAreGone` settles the empty message.  Each step then maps to a step of
`RequestReply` or to a stutter.

*NodeJobs.*  `Earned` follows success backwards: a successful task comes from a
status update, this from a report of Pull, and this from a node that pulled.  With
it the failed tasks include the nodes that have not pulled, when no task is open,
and `ExceedsMonotone` carries the tolerance from one set to the other.  This
argument needs no types beyond "the queues are sequences".  `TInv` strengthens
`TypeOK` by what is always true of an executor (`ExecOK`): its pool and its wait group
agree, and an executor that is at a task is not past the last one.  `SlotInv` then counts: the nodes
at work and the final reports on their way are together no more than the slots taken
of the executor in the map.  `ExecSend` takes a slot for the node it puts to work, a
run that ends turns a node at work into a report, and a report that is handled gives
the slot back.  A lost message only lowers the first number.  `FinalPhaseStays` needs
no invariant: every writer either writes the phase it finds or requires an open one.

*DeviceTwin.*  `DInv` says that the functions have their shape and that, as long as
`raced` is empty, the process has `Ended` or `Quiet` holds: a handler's mutex is still the one in the map
(`HandlerInv`), nobody else is busy with the device the membership worker is at
(`MemInv`), and mutexes are not shared and owned only as `Lock` says (`LockInv`).
`raced` only grows (`RacedGrows`), so one may assume it empty before and after a
step; a membership step then concerns a device no handler is at, and keeps what the
handlers know.  Nobody owns the mutex of the device that `addDevice` is adding, so the
Unlock of a refused one does end the process (`AddFailsEnds`), and nothing happens
after that (`NothingAfterEnd`).

`MemoryMatchesStore` is about each device that is not in `raced` or `stale`, also when
others are.  `MInv` therefore goes device by device.  `Apart`: devices share neither
entries nor mutexes, and what a worker points at belongs to its own device.  `LockOf`:
a handler of the device took the mutex that is in the map, and while the membership
worker changes the device no handler has a message for it.  `DataOf`: memory and SQLite
agree on the device, up to a twin deleted by half, unless some worker is between the
two writes (`Mid`); then they differ in the field of its job only, or the device is
new, or its rows are gone (`MidOK`).  A refused new device leaves its mutex behind in
the map, but `LockOf` knows that nobody owns it, so the process has ended.  A step
touches one device (`Touches`); `ElsewhereLocked` and `ElsewhereAgrees` carry the
other devices over.  For the device it touches, `Alone` shows that nobody else is in
the middle of it, so `LockedHere` and `AgreesHere` reduce the claim to the worker that
moves.  `TypeOK` follows from the same invariant.

*StreamTunnel.*  That two places are enough rests on "once", which has to be followed
through the tunnel.  `IInv` (`StreamTunnelProofs.tla`) says: everything about a
connection is on its session (`Routes`); it is started once, since its connect message
is sent once (`Starts`); its edge side sends one RemoveConnect, which is in the tunnel,
with the reader, or handled (`UpOnce`); a log handler sends one, which is in the
tunnel, with the edge's reader, in `ReadChan`, or handled (`DownOnce`).  `Tokens` and
`Stops` then count: a token for each of the two events that has happened, none for one
that may still come.  `MayComeStep`, `PassedStep` and `ComingStep` show that what has
happened does not come again; `Has` and `Once` keep the sequences out of the rest.

Only model-checked: all liveness properties (`AtLeastOnce`, `SyncedWhileConnected`,
`SessionsEnd`, `StaysConnected`, `EveryCallReturns`, `JobEndsWhileTimed`,
`EveryMessageHandled`, `SessionCloses`, `RequestEnds`, `EdgeStops`; fairness is out of
the prover's reach).  Every other property of a passing run is a theorem.

## 6. Not modelled, and why

* The path of messages that need no ack: fire and forget, by design.
* Late answers to remote queries: a response that comes after
  `RemoteQueryTimeout` is discarded and never acknowledged, and blocks its key
  until a newer message replaces it.  The model has it (`EdgeResponse`), no
  property forbids it.
* `deleteObjectSyncs` for nodes removed while cloudcore was down.
* In devicetwin the watchdog that starts a second goroutine of a slow worker, the
  comm and dmi workers, and the contents of twins: versions, types and deltas.
* Node upgrades and configuration updates run the steps of NodeJobs along longer
  flows, and an upgrade resumes after a restart of the edge; the older v1alpha1
  tasks have code of their own.
* Of the stream tunnel the data, pings, HTTP servers and the choice of the session key;
  a session that was held up in `updateNodeKubeletEndpoint` may replace a newer one in
  the map, and an entry of a handler that returned nil stays in `apiServerConn`: both
  are in the model, and nothing in the repository says otherwise.
* `Send` may block for ever on a full channel; which modules send to each other in a
  circle is not a question about the bus.
* The parts listed with status `not_modelled` in `PROJECT.json`, each with its reason:
  stateless request handlers, conversions, I/O, installation, generated code.

The models cover the concurrent core of the exchange between cloud and edge, which
is a small part of the repository by lines: most of it is generated clients and
types, conversions, command-line tools, and controllers that hold no state between
two requests.

## 7. Plan

1. An abstract specification of delivery (an edge copy that may lag its source but
   never claims what it has not seen), implemented by ReliableSync.
2. Twin versions of cloud and edge, with devicecontroller.
3. edgecontroller's `LocationCache` and upstream; metaserver's imitator and watch
   with dynamiccontroller.
4. Node upgrades: waiting for confirmation and resuming after a restart.
