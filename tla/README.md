# Xenon: TLA+ models, model checking and proofs

Xenon is a Java framework for distributed REST-like services. Its core is a
service host that runs stateful services: each has one document, receives GET,
PATCH, PUT, POST and DELETE operations, saves its document in a Lucene index
and replicates its updates to the peers of a node group over pooled HTTP
connections; the nodes of a group find and watch each other by gossip. Pages in
a browser take part through a JavaScript library over a web socket, and through
the Angular application of `xenon-ui`. This directory models the parts that
decide whether that works under concurrency and failure: the request pipeline
of a stateful service, the replication quorum, the client's connection pools,
the gossip of a node group, the web socket services of a browser and the
service pages of the UI.

Paths below are relative to `src/xenon-common/src/main/java/com/vmware/xenon/`,
and those that start with `ui/` to `src/xenon-ui/src/main/ui/src/client/app/`.

## Inventory of the system

| component | state it keeps | operations | what is hard | what makes it correct |
|---|---|---|---|---|
| `common/OperationQueue` | store, element count, limit (sign = FIFO/LIFO) | offer, poll, clear, transferAll, setLimit, size | count and store can disagree | refuses only when full |
| `common/StatefulService`, with dispatch and save in `ServiceHost`, cache in `ServiceResourceTracker` | processing stage, active-update flag, active-GET count, two queues, version, ownership, cached and indexed documents | queueRequest, handleRequest, completion stages, processPending, synchronize, stop, delete | slot released before the index answers; stops and ownership changes race updates; every error path must wake the queue | updates serialized, no acknowledged update lost, reads see acknowledged updates, nobody stranded, everybody answered |
| `services/common/NodeSelectorReplicationService`, `NodeSelectorReplicationContext` | per update: thresholds, counters, locations, status; per host: cached node count of the location | replicateUpdate, answers of peers | answers in any order while the send loop runs; five sources of a quorum | success means quorum, failure means no quorum possible, completed once, always decided |
| `services/common/ConsistentHashingNodeSelectorService` | cached group state, queue of requests while the group is unavailable | selectAndForward, group updates, maintenance | membership changes under requests | requests leave the queue when the group is available |
| `services/common/NodeGroupService` | entry per node (status, version, time, expiration) in the state and in a cached copy, the maintenance under way | join, gossip PATCH and merge, marking of silent peers, expiration, maintenance | views and reports overtake each other; a join works with an old entry; crashes | views converge, a live node never stays marked, only markings raise another node's version |
| `services/common/NodeSelectorSynchronizationService`, `common/SynchronizationTaskService`, `ServiceSynchronizationTracker` | peers' states, epochs, task stages, pending synchronizations | choose best state, broadcast, restart on membership change | owner changes during a synchronization | newest epoch and version win on every peer |
| `common/http/netty/NettyChannelPool`, `NettyChannelContext`, `NettyHttpServiceClient`, `NettyHttpServerResponseHandler` | contexts available and in use, pending requests, the operation of each channel or stream | connectOrReuse, returnOrClose, fail, expiry, maintenance | threads of sender, event loop, maintenance and executor; late responses | limit held, no leaked connection, right response, nobody stranded |
| `services/common/TransactionService`, `SimpleTransactionService` | transaction stage, pending operations | commit, abort, resolution | coordinator against participants | all or nothing |
| `services/common/LuceneDocumentIndexService` | index writer, searchers, link access times | index, query, retention, backup | Lucene's own concurrency | (external library) |
| `common/OperationJoin`, `OperationSequence`, `DeferredResult` | counts of pending operations | complete, fail | concurrent completions | joined handler runs once |
| `ws-service-lib.js`, `common/http/netty/NettyWebSocketRequestHandler`, `common/WebSocketService` | page: queued calls, handlers by request id, services; server: services and subscriptions of a connection, operations forwarded to the page | create, subscribe, unsubscribe, stop, reply, close | the executor reorders frames; answer written before the subscription is recorded; the connection breaks anywhere | each handler gets its own answer once, an operation is completed once, no subscription outlives the connection |
| `ui/components/main/service/*`, `ui/modules/app/services/base.service.ts`, `node-selector.service.ts` | selected node, route, selected service and child, list and its next page, dialogs | navigate, select, scroll, create, edit, delete | answers of replaced requests arrive late and in any order, some after their page is gone | dialogs are about what is shown, next pages are appended once, settled views show the last selection |
| `services/common/MigrationTaskService`, `TaskService`, reliable subscriptions, queries, authorization | task stages, caches | many | restarts, paging | see the plan |

Components interact by operations: the host's dispatcher hands an operation to
`StatefulService.queueRequest`; the service posts its document to the index
service and its proposal to the node selector, and continues in their
callbacks; the node selector sends to peers through the HTTP client; the client
takes a channel from the pool and completes the operation in the response
handler, or in maintenance when it expires. The node selector takes the group's
members from the gossip's state. A web socket service forwards operations to
its page and sends the page's subscriptions to other services; the UI sends
requests as any HTTP client does. A component only sees another
through the callbacks' order and result, which is how the modules are cut.
`PROJECT.json` lists every component, with the reason where it is not modelled,
and the hazards, each at its line.

## Modules

`OperationQueue` - the queue as a value `[limit, elementCount, store]`; every
method that changes it is an operator. It keeps the element count apart from
the store, as the code does, because `clear` and `transferAll` do not reset it.
`StatefulService` and both pool modules extend it.

`StatefulService` - one instance on one host, from AVAILABLE to STOPPED. Every
request is an actor: `pc[o]` is where its thread or callback is. The document
is its version and the set of updates folded into it. Places and code:

* `dispatched` -> `queueRequest`; `queued` in one of the two queues;
  `scheduled` -> `handleRequest` on an executor thread;
* `linking`, `loading` -> `loadServiceState`, from the cache or the index;
* `handler` -> the service's handler and `handleRequestCompletion`;
* `replicating`, `committing`, `saving`, `indexing` -> the completion stages;
* `synchronizing`, `reprocessing`, `reindexing`, `synchStopping` ->
  `synchronizeWithPeers`, `synchWithPeersAndReProcess` and their failures;
* `stopHandler`, `stopCheck`, `stopping` -> the stages of a stop;
  `abandoned` -> a stop whose `handleStop` failed, which nothing completes.

An action is what happens between two points where another thread can see the
context: a critical section or a callback. `processPending` is two critical
sections (release the slot, then dequeue); it is one step in the model, since a
request admitted in between could as well have been admitted before the
dequeued one is dispatched, which the model allows. `handleDelete` includes
`handleDeleteCompletion` and the stop it makes, which run on the same thread.
Requests handed to the host come back to `queueRequest` later and in any order.
Left out: CONCURRENT_UPDATE_HANDLING, OPTIONS, IMMUTABLE services, transactions,
requests that come from replication, epochs, configuration and statistics. The
branch of a failed replication that synchronizes and tries again (lines 959-961)
is left out too: it looks for the detail SHOULD_RETRY, and the body the
replication context fails an operation with has no details.

`ReplicationQuorum` - one node that replicates updates one after another: the
selection of nodes, the thresholds, the send loop, the answers. The hash that
says which nodes are closest to a key is left open: any selection of the right
size is possible. The group changes only between updates, as an update works on
the group state it was given. Observers are skipped by the send loop and never
answer. The configuration of host and selector (location, factor, quorums) is
chosen in `Init`, the request's options and header with each update.

`NettyChannelPool` - the HTTP/1.1 connections to one host. `threads` holds the
returns of contexts under way, so that the two halves of `returnOrCloseDirect`
(the channel's check, the group's lock) interleave with everything else.
`wire[c]` is the requests written to a channel and not answered; a response
belongs to its head and is given to the operation on the channel, as in
`NettyHttpServerResponseHandler.findOperation`. An expiry is two steps
(`failExpiredRequests`, `returnAfterExpiry`), because `fail()` reads the socket
context without a lock and a response may be handled before it resets it.
`closing` stands for keep-alive being off or an unwritable channel. The section
under the group's lock and the close or send after it (lines 640-668) are one
step: in between, the context is known only to this thread and to another return
of the same context, and two such returns end as one of their two orders does,
up to which of the polled requests each has; a request on its way to
`connectOrReuse` is already `selecting`. Contexts nobody refers to are the ones
yet to be created. Left out: retries in `fail()`, server-sent events with their
branch of `channelInactive`, `stop()`, proxies. Requests pending here
are not expired before they are sent, because only a request with an active
socket is, so the pool's `checkPendingOperations` has nothing to do.

`NettyHttp2ChannelPool` - the same for HTTP/2, where a context carries many
streams, requests wait in the queue while a context is being opened, and a
context is used up after `MaxStreams` streams. A return is three steps, since
here other requests are on the context meanwhile: `checkContext` looks at it,
`takePending` holds the group's lock, and `sendPending` or `closeAndReconnect`
follows after the unlock. `expired` are requests failed by force before they were
sent; `pc` follows what the pool still does with them, and `lost` are the
requests that waited when a return handed its context to an expired one.
`closeBadChannelContext` runs after the group's lock was released, so a bad
context stays selectable until its return is handled, and two requests may each
replace it.

`NodeGroupService` - the gossip between the nodes of one group. `stored` is the
service's state, `cachedState` the copy that is sent and that maintenance and
`handlePatch` change in place; `aliased` says whether the maintenance under way
still works on that copy. A `round` is one `handleMaintenance` with the answers
it waits for; `patches` are the PATCHes a node sends to itself; `joins` and
`inserts` are the two passes of a join. A gossip request is handled by the peer
and answered in one step, or fails. A node that misses an answer marks the peer.
`documentUpdateTimeMicros` only decides between two entries of one version and
different status, so time is counted in markings of a node, and ties go either
way. An entry expires (`DelayHasPassed`) only when nobody takes its node for
available any more: `nodeRemovalDelayMicros`, five minutes by default, is
longer than gossip needs. A node's next maintenance begins after the PATCHes it
sent to itself were handled, which takes far less than the second between two
maintenance periods; without this a node could send itself PATCHes faster than
it handles them, for ever. Every peer is probed, as the code does in groups of
at most `MIN_PEER_GOSSIP_COUNT` peers. Each behaviour begins with one of the
`Scenarios`.
Left out: entries that are REPLACED, quorum and configuration updates, the time
of the last membership change and the convergence check, and a request that is
handled after it has timed out at its sender.

`WebSocketServices` - one connection of a page: `ws-service-lib.js`, the
server's handler and the subscriptions of the services the page observes. The
page calls create, subscribe, unsubscribe and stop when it likes; frames to the
server are a set, since each is handed to the host's executor, frames to the
page a sequence. `hostRequests` are the POSTs and DELETEs to `/subscriptions`,
in three steps: handled by the publisher, answer written, sets updated. The
close listener visits the entries one by one. A stop is one step although it
removes the service from two maps in turn; what the listener can meet in between,
a service missing from either map, at which it throws, is the second disjunct of
`closeEntry`, possible while the stop's frame is being handled (`Stopping`).
`raced` collects the pairs of service and publisher whose requests failed or
overlapped each other, a stop or the close; the properties about subscriptions
say nothing of these.

`ServiceViews` - the UI's service pages. A request carries what it asks for; a
response is applied to whatever the component holds by then, as nothing
cancels the older one. A component that is destroyed unsubscribes from the data
it loads; a next page, a creation, an edit or a deletion it asked for stays under
way (`abandoned`), and its callback finds nothing that is shown, while the
component opened next starts with an empty list and an open lock. Pages of a list
stand for their links. `disturbed` are the kinds of request of which an answer
failed or overtook an earlier one since the last quiet moment.

`AtomicDocument` - what a stateful service promises its clients: a document
that one update at a time is applied to, that keeps what it acknowledged, and
whose reads hold all that was acknowledged before they were sent.
`StatefulService` implements it under the mapping `Promise`: the document is
the newest one that is cached, indexed or on its way to the index
(`VisibleDoc`), since an update is visible to GETs from the moment it is cached.

`MC*` modules give constants their instances and state the symmetry sets.
Definitions whose comment starts with "Mutant of" are plausible bugs; each is
put in the place of the definition it follows to see that a property notices.

`*Proofs` modules hold the theorems, each about the module it is named after:
`StatefulServiceProofs` (types, queues, slots and answers) and, on top of it,
`StatefulServiceDocumentProofs` (the document and the refinement);
`ReplicationQuorumProofs`, `NettyChannelPoolProofs`,
`NettyHttp2ChannelPoolProofs`, `NodeGroupServiceProofs`,
`WebSocketServicesProofs` and `ServiceViewsProofs` stand alone.

## Runs

| run | bounds | checks |
|---|---|---|
| `StatefulServiceOwner` | 4 requests (GET, PATCH, SYNCH, DELETE), queue 2, synch queue 1, peers up to version 2 | types, no lost update, reads, cache and index consistent, refinement of `AtomicDocument` |
| `StatefulServiceInMemory` | 3 requests of any kind, LIFO queue 2, peers up to version 1 | GETs and updates exclude each other, every request answered |
| `StatefulServiceFailures` | 3 requests (PATCH, SYNCH, STOP), index failures, ownership moves | nobody stranded |
| `Replication` | 3 nodes and a fourth that may join, as an observer or not; two locations; 2 updates | quorum, certainty of failure, decision |
| `NodeGroup` | five scenarios: 3 members with a failed request or a crash, a node joining 2 members, 2 hosts joining with 2 failures or a crash | a node's view of itself, versions, convergence |
| `ChannelPool` | 2 requests, 1 connection at a time, 3 contexts, queue 1, expiry races | limit, leaks, wake-ups, right response unless a response raced its expiry, completion |
| `Http2Pool` | 2 requests, 1 connection at a time, 3 contexts, 2 streams each, queue 1 | wake-ups, streams, completion |
| `WebSocket` | 2 services, 1 publisher, 1 operation, 3 calls, 4 frames, failing publisher, broken connection | answers, completions, subscriptions, close, creation answered |
| `ServiceViews` | 2 nodes, 2 factories (three pages and one), 2 children, 6 requests | dialogs, next pages, settled views |
| `StatefulServiceIndexFailure` | 3 PATCHes, index failures | violated: `UpdateExclusion` |
| `WebSocketStop` | 1 service, 2 calls, a connection that holds | violated: `EveryCallAnswered` |
| `ChannelPoolResponses` | 3 requests, 1 connection at a time, 3 contexts, queue 2 | violated: `OwnResponse` |

Why these bounds: a queue overflows, a request waits behind a waiting request,
and an admission overtakes a dequeued request with three requests and a limit
of one or two; four let two updates be indexed while a third runs and a GET
reads. Four nodes give quorums of one to four, ties in two locations and a
member that joins late. A pool needs one request on the connection and one that
waits for it, and contexts for a bad one and its replacement; its liveness rules
out symmetry, so the passing runs stop at two requests, and the theorems below
have the safety properties for every number. To mix up two responses takes a
third request. A list of three pages has a middle one that could be appended
twice. Gossip needs a third node for a
report to travel and overtake the reported node's own, and one failure for a
marking; two failures with two nodes let a node be marked again before it has
heard of it. Three calls create a service, subscribe it and stop or unsubscribe
it, or create two services whose frames are swapped. Six requests load a detail
page, select two children or two services, and fetch a next page in between.

Deadlock is checked for the pipeline, the replication and the pools: `Quiescent`
is the only step of a system that has answered everything. A page may make no
more calls, a user may stop clicking and a group may be at rest, so `WebSocket`,
`WebSocketStop`, `ServiceViews` and `NodeGroup` do not check it.

The violated runs and what they show are under "findings" in `PROJECT.json`.
Each counterexample is a sequence of the code's own steps:

1. *Index failure.* `processCompletionStageIndexing` frees the slot in its
   `finally` block. Update p is admitted. The index refuses the first update,
   `failRequest` frees the slot again, q is admitted, and p and q run together.
2. *Stop of a web socket service.* `deleteServiceSubscriptions` iterates over
   the set it takes out of `serviceSubscriptions`, which is null for a service
   that never subscribed. The exception ends the handler before `stopService`;
   its answer is a String, which the web socket pipeline does not encode, so
   the page's `stop` calls neither of its callbacks and the service stays.
3. *A response that races its expiry.* Maintenance has read the socket context
   of an expired request when the response handler completes it. Both return the
   connection, and the check of the operation on the channel
   (`NettyChannelPool.java:621`), meant to close a connection whose request timed
   out, finds none, as the response handler has taken it. The two returns send
   two pending requests on one connection, and the response to the first
   completes the second. Without such a race responses are not mixed up
   (`OwnResponseUnlessRaced`, in the run `ChannelPool` and as a theorem).

## Deviations met while modelling

Places where the code does something else than its comments say. The models
follow the code; no run is spent on these:

* `ServiceHost.java:3806`: PATCH p is being indexed; a stop finds both queues
  empty and drops the cached state; PATCH q, admitted before, loads the older
  document from the index and saves a higher version without p, which was
  acknowledged (`AcknowledgedUpdatesKept` fails with PATCH and STOP on a
  persistent service, if the index answers a load before an earlier save).
* `OperationQueue.java:134`: `transferAll` leaves the element count behind, so
  that an empty HTTP/2 queue refuses requests until statistics or maintenance
  call `size()`.
* `StatefulService.java:598`: a request processed again after a synchronization
  has given its slot away, so `UpdateExclusion` fails when ownership can move
  too (the theorem below assumes that it does not).
* `ServiceHost.java:5240`: a failed index write rolls the cache back to its
  previous state although a newer one may be indexed
  (`CacheServesHighestVersion` fails with `IndexCanFail`).
* `StatefulService.java:180`: a stop looks at the queues, not at a running
  update; line 204 says a service with active updates should not stop.
* `NodeSelectorReplicationService.java:147`: with two eligible nodes the local
  success is enough, with one the update is never decided; lines 145-146
  promise a remote node and an immediate success.
* `NodeSelectorReplicationService.java:131`: the selector's quorum comes before
  the membership quorum; the comment at line 94 lists them the other way.
* `NodeSelectorReplicationService.java:156`: the node count of the location is
  cached for ever.
* `NodeSelectorReplicationContext.java:94`: a failed answer's location counts
  towards the location quorum.
* `NettyChannelPool.java:450`: two requests that find the same closed HTTP/2
  context each open a replacement, so that the group exceeds its limit. If one
  opens and the other fails, the closing of the other hands one queued request
  to the open connection; the rest of the queue waits until a context is
  returned. A request that was failed by force returns none, so when it is the
  one that was woken the rest waits for the next request to the host
  (`NoStrandedRequest` without its `lost` fails with five requests and three
  contexts, too large for a run; the proof below met it first).
* `NettyChannelPool.java:617`: the first response on an exhausted HTTP/2
  connection closes it and fails the requests still on it; line 409 says it is
  cleaned up, by maintenance, once nothing is pending on it. Between the unlock
  and the close such a connection carries requests and is outside the group.
* `NodeGroupService.java:861` says versions always move forward; `handlePost`
  (line 474) replaces the entry of a joining node whatever is there. Line 886
  says a node increments its version on a report about itself; it adopts the
  reported one.
* Nodes separated for longer than `nodeRemovalDelayMicros` forget each other and
  never meet again without a new join.
* `NettyWebSocketRequestHandler.java:362`: the completion of a subscription that
  ends after the stop of its service makes a new entry, at which the close
  listener throws; later entries keep their subscriptions. A DELETE that failed
  removes the path as one that succeeded. Services without an entry are not
  stopped when the connection closes, and an operation whose reply was lost
  stays in `pendingOperations`.
* `ui/components/main/service/service-detail.component.ts:230` says the list is
  reset when the service changes; it is only reset while `serviceLinks` is empty.
  The lock of the next page stays taken after an error or an empty page, and the
  link to the next page survives a change to a service with a single page. Line
  50 says the lock prevents the same link from being requested several times;
  after the last page the link is kept and the lock released (lines 210-216), so
  the last page is requested and appended again, which `PagesShownOnce` leaves
  out. `ngOnDestroy` (line 112) does not unsubscribe from the next page, so that
  one may be under way for a page that is gone while the new page asks for
  another.
* `ui/components/main/service/child-service-detail.component.ts`: the answer to an
  edit empties the body of the dialog even if it is about another child by then,
  and a child of the same id in another factory is not loaded by back or forward.

## Fairness

`StatefulService`: weak fairness for each request's next step once it was
admitted: executor threads run what was scheduled, and the index, the replication
and the peers answer every operation, with a failure at the latest when it
expires. Sending a request and moving ownership are not fair.
`NettyChannelPool`, `NettyHttp2ChannelPool`: threads that have started go on,
connects end, and maintenance expires a request that is not answered; neither
responses nor closed connections are fair. `ReplicationQuorum` has no liveness
property and no fairness. `NodeGroupService`: maintenance is periodic, what a
node sends to itself is handled, and a request is answered or, if the peer has
crashed, fails; failures of requests to live nodes, crashes and joins are not
fair. `WebSocketServices`: the executor handles every frame, publishers answer,
and the browser's event loop handles what arrives; the page, the services'
handlers and the connection's end are not fair. `ServiceViews` has only safety
properties and no fairness. With `OwnershipCanMove` a request may be sent from
synchronization to synchronization for ever, so liveness is checked without it.

## Theorems

Proved with TLAPS for every value of the constants, from the ASSUME of the
module that declares them. These only give the constants their kinds (limits
are positive, sets of nodes are finite where they are counted, null is no
request, context, entry or component); the other hypotheses are named with the
theorem. Each inductive invariant was checked by TLC on the instance of its run
before it was proved. Every proof has one lemma per action, or first classifies
the actions by their effect and has one lemma per effect.

**Stateful service, the request pipeline** (`StatefulServiceProofs`)

* `TypeCorrect`: `Spec => []TypeOK`. The invariant is `TypeOK` with `HasLatest`
  (the index of a persistent service has a newest document, so that a load
  returns one) and `LoadsPersisted` (only a persistent service reads the index).
* `NoRequestStranded`: `Spec => []NoStrandedRequest`, with index failures,
  ownership changes and stops. It is not inductive: that some request will call
  `processPending` depends on why a request had to wait. `WakeInv` adds that
  the queues hold each waiting request once and only waiting requests
  (`QueuesOK`), that GETs are counted exactly while the instance is available
  (`GetsCounted`), that a taken slot has a holder (`SlotHasHolder`), and that a
  stopped instance has nothing pending. Then whoever has to wait waits for a
  running request. The proof first classifies every action by its effect on
  slots and places (`Moves`, `Releases`, `Admits`, `Waits`, `SendsAway`,
  `Stops`; lemma `StepEffect`), then shows each effect preserves the invariant.
* `RunningGetsCounted`: `Spec => []GetsAreCounted`, from `WakeInv`.
* `UpdatesSerialized`: with `~IndexCanFail` and `~OwnershipCanMove`,
  `Spec => []UpdateExclusion`. `ExclusionInv` adds that the owner stays and that
  a running update holds the slot. The two assumptions are needed: the run
  `StatefulServiceIndexFailure` and the deviation at `StatefulService.java:598`
  are what happens without them.
* `AnsweredOnce`, an action property no run checks: no step completes a request
  again, changes its outcome or goes on with it, although index failures, stops
  and other requests' `processPending` all complete or dispatch requests. The
  invariant is `WakeInv` with `AnsweredWhenDone` (an outcome exactly where a
  request is done); each action's effect on the answers is `Answers`.

**Stateful service, its document** (`StatefulServiceDocumentProofs`). All of
these assume `StableService`: the index accepts every write, the owner stays,
and a persistent service is not sent a STOP (it may be deleted, and stopped by a
synchronization). None of the three can be dropped: without each, TLC finds a
lost update or a stale cache (the deviations at `ServiceHost.java:3806`,
`StatefulService.java:598` and `ServiceHost.java:5240`).

* `AcknowledgedKept`, `ReadsCurrent`, `CacheNotBehind`, `VersionsUnique`:
  `AcknowledgedUpdatesKept`, `ReadsSeeAcknowledged`, `CacheServesHighestVersion`
  and `IndexedVersionsUnique`. The difficulty is that a document is in several
  places at once: cached, on its way to the index behind a slot that is free
  again, and indexed. `DocumentInv` speaks of all of them together (`Saved`):
  the saved documents are a chain, each with the updates of the ones before
  (`SavedInOrder`), up to the service's version (`VersionsKnown`); the cache of
  a running instance is the newest (`CacheIsNewest`); the request in the slot
  works on the newest (`SlotDocument`, from `UpdateExclusion`); acknowledged
  updates are in a saved document (`AcknowledgedSaved`), and a GET has what was
  acknowledged when it was sent (`ReadDocument`).
* `ServiceIsAtomicDocument`: for a persistent service,
  `Spec => ImplementsAtomicDocument`, the refinement that the run
  `StatefulServiceOwner` checks: an initial state is one of `AtomicDocument`,
  and each effect on the document (`Loads`, `Reads`, `Applies`, `Saves`,
  `Indexes`, `Halts` or none) is one of its steps or a stutter. An update takes
  effect where it is cached.

**Replication** (`ReplicationQuorumProofs`): `TypeCorrect`, `QuorumSafety`,
`FailureCertainty`, `EveryUpdateDecided`, `LocalQuorumSafety`, for every finite
group, assignment of locations and source of a quorum. The properties are about
sets of nodes, the code only counts: `QuorumInv` says that every counted success
is a node of its own (`SuccessesAreNodes`), that successes, failures and nodes
still awaited add up to the selected ones (`FailuresAreNodes`, `Undecided`), and
how both thresholds come from the quorum (`ThresholdsOfQuorum`).

**HTTP/1.1 pool** (`NettyChannelPoolProofs`)

* `TypeCorrect`, `LimitHeld`, `NoneStranded`, `NoLeak`: types,
  `ConnectionLimitHeld`, `NoStrandedRequest` and `InUseIsReturned`, with expiry
  racing responses. `PoolInv` follows a context in use from the request
  that selected it to the operation sent on it and to the thread that returns
  it, and says the queue holds the pending requests once each.
* `ResponsesOwned`: `OwnResponseUnlessRaced`. `OwnResponse` itself is false (the
  run `ChannelPoolResponses`); the theorem says that the one race found there,
  `Raced`, is the only way it fails. `UnracedInv` holds until then: no two
  requests or threads have the same context (`SoleAt`), and at most the response
  to its own request can come on a channel (`WireAt`). The step that breaks it is
  a response handled while its request expires, which `AnsweredInv` recognizes.

**HTTP/2 pool** (`NettyHttp2ChannelPoolProofs`)

* `TypeCorrect`, `NoneStranded`, `StreamsAttended`: types, `NoStrandedRequest`
  and `ActiveContextsAttended`, for any number of requests, connections and
  streams. `Http2Inv` says that the queue holds the pending requests once each
  (`QueueInv`), which places have a context or a socket context (`RequestInv`),
  that a stream belongs to a request sent on its connection (`StreamInv`), what a
  return holds at each of its steps (`ThreadInv`), and that a connection that is
  not closed is in the group or about to be closed by the return that took it out
  (`LiveContextsAttended`). `NoStrandedRequest` first demanded an opening or a
  return under way; that held on the run's instance and is false in general (the
  deviation at `NettyChannelPool.java:450`), so it now names everything that
  wakes a request, and `lost` the requests that nobody wakes.
* `OpeningsAttended`, part of `Http2Inv` and no run's property: a connection that
  is being opened has exactly the one request that opens it and no return, or a
  return that closes it.
* `RequestsCompletedOnce`, an action property no run checks: a completed request
  keeps its result, a sent one its connection, a waiting one is failed only if
  it had expired, and an expired one is not written any more.
* `RemoveFacts`, the lemma about `removeAll`: what the recursive function that
  takes the expired requests out of the queue computes, for every queue. The
  library's induction theorems cannot be used, so it is by least counterexample
  (`LeastNatural`, from the well-foundedness of the natural numbers): if the
  filter were wrong for some prefix, it would be wrong for a shortest one.

**Gossip** (`NodeGroupServiceProofs`): `TypeCorrect`, `SelfAvailable`
(`NeverUnavailableToItself`), `NoVersionInvented` (`OnlyMarkingsRunAhead`), and
`OwnVersionsGrow`, an action property no run checks: no step moves the version of
a node's own entry back. What ends up in a node's state travels through the copy
maintenance changes in place, the round and its PATCH body, the PATCHes to itself
and the joins; `GossipInv` says of each of these what the properties say of the
state (`SelfInv`, `AheadInv`).

**Web socket services** (`WebSocketServicesProofs`): `TypeCorrect`,
`AnswersOwned`, `CompletedOnce`, `NoSubscriptionForgotten`, `ClosedUnsubscribed`,
`KnownRun`, for any number of services, publishers, operations and calls, with
failing publishers and connections that break anywhere. `WebSocketInv` follows an
identifier from the call through the frame, the request to the publisher and the
answer: it is in one place at a time, and the handler stored under it is the
call's or gone (`AnswersInv`); and a subscription that did not race is in the
server's sets, in a request under way or in the close listener's remaining
entries (`TrackingInv`, `ClosingInv`).

**UI service pages** (`ServiceViewsProofs`): `TypeCorrect`, `DialogsAboutView`
(`DialogsMatchView`), `PagesAppendedOnce` (`PagesShownOnce`), `SettlesOnLatest`
(`SettledViewIsLatest`), for any number of nodes, services, pages and requests.
A component does not keep its requests, so what it will show is a matter of the
newest request of each kind (`Newest`): until an answer fails or overtakes
another, that request is about what was selected last, and once it is answered so
is the view (`ListInv`, `GridInv`, `DocInv`, `StatsInv`). `ChildInv` says that an
answer for the child component finds it there, `PageInv` that a page under way
has the lock and comes after every page of its service that is shown, the last
one excepted, so that it can only be appended once.

Only model-checked:

* liveness, since the prover does not handle fairness and ENABLED: every request
  of the pipeline and the pools is answered, gossip converges, `CreateAnswered`;
* the three violated properties, which are false.

## Plan

1. Done: the request pipeline with its abstract specification, the quorum, the
   two pools, gossip, web socket services, the UI's service pages; theorems for
   every safety property of all of these.
2. Modules, in this order: `NodeSelector` (queue of requests while the group is
   unavailable, composed with the group's state); `Synchronization` (choice of
   the best state, several instances with epochs, replicated requests);
   `OperationJoin`; the transaction coordinator.

## Not modelled

The index's internals (Lucene), queries, serialization, the HTTP listener and
wall-clock rate limits are data transformation, I/O or code of external
libraries. Most JavaScript in the repository is third-party: AngularJS, jQuery,
D3, NVD3 and Bootstrap below `src/xenon-samples/src/main/resources/ui`, which
Xenon ships and does not own; of its own, the build tools of the UI
(`src/xenon-ui/src/main/ui/tools`) have no run-time state, and the query,
dashboard, trace and log pages are forms and charts over single requests.
