--------------------------- MODULE StatefulService --------------------------
(***************************************************************************)
(* One instance of com.vmware.xenon.common.StatefulService on one host:    *)
(* how it admits, queues, runs, saves and completes the requests sent to   *)
(* it, from the moment it is AVAILABLE until it is STOPPED.  Each request  *)
(* is an actor: pc[o] is the place its thread or callback has reached, so  *)
(* the interleavings are those of the executor threads, the index service  *)
(* callbacks and the replication callbacks.                                *)
(*                                                                         *)
(* The service's document is abstracted to its version and the set of      *)
(* updates (PATCH operations) folded into it.                              *)
(***************************************************************************)
EXTENDS OperationQueue, FiniteSets

CONSTANTS
    Ops,                  \* identities of the requests
    Actions,              \* the kinds of request that are sent
    OperationQueueLimit,  \* limit of operationQueue, negative for LIFO_QUEUE
    SynchQueueLimit,      \* Service.SYNCH_QUEUE_DEFAULT_LIMIT
    Persistence,          \* ServiceOption.PERSISTENCE (implies CONCURRENT_GET_HANDLING)
    OwnerSelection,       \* ServiceOption.REPLICATION and OWNER_SELECTION
    IndexCanFail,         \* the index service may refuse an update
    OwnershipCanMove,     \* the node group may select another owner
    MaxVersion            \* bound on the versions peers may answer with

(* PATCH stands for every update whose handler modifies the state, SYNCH   *)
(* for a POST with PRAGMA_DIRECTIVE_SYNCH_OWNER, DELETE for a client's     *)
(* delete (isServiceDeleteAndStop), STOP for a DELETE with                 *)
(* PRAGMA_DIRECTIVE_NO_INDEX_UPDATE (isServiceStop).                       *)
AllActions == {"GET", "PATCH", "SYNCH", "DELETE", "STOP"}

ASSUME ConstantsAssumption ==
    /\ Actions \subseteq AllActions
    /\ OperationQueueLimit \in Int \ {0}
    /\ SynchQueueLimit \in Nat \ {0}
    /\ Persistence \in BOOLEAN
    /\ OwnerSelection \in BOOLEAN
    /\ IndexCanFail \in BOOLEAN
    /\ OwnershipCanMove \in BOOLEAN
    /\ MaxVersion \in Nat

VARIABLES
    stage,           \* context.processingStage
    isUpdateActive,  \* context.isUpdateActive
    getActiveCount,  \* context.getActiveCount
    operationQueue,  \* context.operationQueue
    synchQueue,      \* context.synchQueue, NoQueue for null
    version,         \* context.version
    isOwner,         \* option DOCUMENT_OWNER
    cached,          \* AttachedServiceInfo.cachedState of this service
    index,           \* documents the index service has stored for this service
    pc,              \* where each request is
    action,          \* Operation.action and pragmas of each request
    linked,          \* Operation.linkedState
    previous,        \* previousState captured by saveServiceState
    outcome,         \* how the request was completed
    acked            \* history: the updates acknowledged when the request was sent

slots == <<isUpdateActive, getActiveCount, operationQueue, synchQueue>>
document == <<version, isOwner, cached, index>>
requests == <<action, linked, previous, acked>>
vars == <<stage, slots, document, requests, pc, outcome>>

Docs == [version : Int, updates : SUBSET Ops]
NoDoc == [version |-> -1, updates |-> {}]
NoQueue == createFifo(0)

(* Places a request that owns the update slot (or counts in               *)
(* getActiveCount) goes through, and the places outside it.               *)
SlotPlaces == {"scheduled", "linking", "loading", "synchronizing", "reprocessing", "handler",
               "stopHandler", "synchStopping", "replicating", "committing", "saving"}
Places == SlotPlaces \cup {"new", "dispatched", "queued", "indexing", "reindexing",
                           "stopCheck", "stopping", "abandoned", "done"}
Outcomes == {"none", "ok", "notModified", "fail", "retry"}

Latest(D) == CHOOSE d \in D : \A e \in D : e.version <= d.version

-----------------------------------------------------------------------------
(* The instance has just become AVAILABLE: its state was created, cached   *)
(* and, if it is persistent, indexed at version 0.                         *)
InitialDoc == [version |-> 0, updates |-> {}]

Init ==
    /\ stage = "AVAILABLE"
    /\ isUpdateActive = FALSE
    /\ getActiveCount = 0
    /\ operationQueue = [limit |-> OperationQueueLimit, elementCount |-> 0, store |-> <<>>]
    /\ synchQueue = NoQueue
    /\ version = 0
    /\ isOwner = OwnerSelection
    /\ cached = InitialDoc
    /\ index = IF Persistence THEN {InitialDoc} ELSE {}
    /\ pc = [o \in Ops |-> "new"]
    /\ action \in [Ops -> Actions]
    /\ linked = [o \in Ops |-> NoDoc]
    /\ previous = [o \in Ops |-> NoDoc]
    /\ outcome = [o \in Ops |-> "none"]
    /\ acked = [o \in Ops |-> {}]

-----------------------------------------------------------------------------
(* GETs to a service with CONCURRENT_GET_HANDLING bypass queue and slot.   *)
IsConcurrent(o) == action[o] = "GET" /\ Persistence

Acknowledged == {o \in Ops : action[o] = "PATCH" /\ outcome[o] = "ok"}

(* What retryOnDemandLoadConflict leaves of a request: a persistent        *)
(* service is started again by the retried request, another one fails it.  *)
RetryOutcome == IF Persistence THEN "retry" ELSE "fail"

Complete(o, result) ==
    /\ pc' = [pc EXCEPT ![o] = "done"]
    /\ outcome' = [outcome EXCEPT ![o] = result]

(* dequeueRequest: one operation, synchronization requests first.          *)
Dequeued ==
    IF ~isEmpty(synchQueue) THEN {polled(synchQueue)}
    ELSE IF ~isEmpty(operationQueue) THEN {polled(operationQueue)} ELSE {}

dequeueRequest ==
    /\ synchQueue' = IF isEmpty(poll(synchQueue)) THEN NoQueue ELSE poll(synchQueue)
    /\ operationQueue' = IF isEmpty(synchQueue) THEN poll(operationQueue) ELSE operationQueue

(* Mutant of processPending: every request gives back both the slot and a  *)
(* count, and the count is not kept above zero.                            *)
ReleaseBoth(o, next) ==
    /\ getActiveCount' = getActiveCount - 1
    /\ isUpdateActive' = FALSE
    /\ dequeueRequest
    /\ pc' = [p \in Ops |-> IF p = o THEN next
                            ELSE IF p \in Dequeued THEN "dispatched" ELSE pc[p]]

(* processPending: the request gives up its slot and the next pending      *)
(* request is handed to the host, which sends it through the operation     *)
(* processing chain back to queueRequest.  next is where o goes.           *)
processPending(o, next) ==
    IF IsConcurrent(o)
    THEN pc' = [pc EXCEPT ![o] = next] /\ UNCHANGED slots
    ELSE /\ IF action[o] = "GET"
            THEN /\ getActiveCount' = IF getActiveCount > 0 THEN getActiveCount - 1 ELSE 0
                 /\ UNCHANGED isUpdateActive
            ELSE isUpdateActive' = FALSE /\ UNCHANGED getActiveCount
         /\ dequeueRequest
         /\ pc' = [p \in Ops |-> IF p = o THEN next
                                 ELSE IF p \in Dequeued THEN "dispatched" ELSE pc[p]]

(* Mutant of failRequest: the error path forgets processPending.           *)
FailWithoutProcessPending(o) == Complete(o, "fail") /\ UNCHANGED slots

(* failRequest: the pending requests first, then the failure.              *)
failRequest(o) ==
    /\ processPending(o, "done")
    /\ outcome' = [outcome EXCEPT ![o] = "fail"]

(* cancelPendingRequests: both queues are drained, what was pending gets   *)
(* result, and o goes on to next.                                          *)
Pending == toCollection(operationQueue) \cup toCollection(synchQueue)

(* Mutant of cancelPendingRequests: the queues are dropped with what they  *)
(* hold.                                                                   *)
DropPendingRequests(o, next, mine, result) ==
    /\ operationQueue' = clear(operationQueue)
    /\ synchQueue' = NoQueue
    /\ pc' = [pc EXCEPT ![o] = next]
    /\ outcome' = [outcome EXCEPT ![o] = mine]

cancelPendingRequests(o, next, mine, result) ==
    /\ operationQueue' = clear(operationQueue)
    /\ synchQueue' = IF synchQueue = NoQueue THEN NoQueue ELSE clear(synchQueue)
    /\ pc' = [p \in Ops |-> IF p = o THEN next ELSE IF p \in Pending THEN "done" ELSE pc[p]]
    /\ outcome' = [p \in Ops |-> IF p = o THEN mine
                                 ELSE IF p \in Pending THEN result ELSE outcome[p]]

(* ServiceHost.stopService: the instance is detached and its cached state  *)
(* goes with it.                                                           *)
stopService == stage' = "STOPPED" /\ cached' = NoDoc

(* Mutant of updateCachedServiceState: the version check is inverted.      *)
KeepOlderState(st) ==
    cached' = IF stage = "STOPPED" \/ cached.version < st.version THEN cached ELSE st

(* updateCachedServiceState with its version check; a detached service is  *)
(* not cached, and an existing higher version is kept.                     *)
updateCachedServiceState(st) ==
    cached' = IF stage = "STOPPED" \/ cached.version > st.version THEN cached ELSE st

(* resetCachedServiceState / clearCachedServiceState: no version check.    *)
resetCachedServiceState(st) == cached' = IF stage = "STOPPED" THEN cached ELSE st

-----------------------------------------------------------------------------
(* Admission: ServiceHost.queueOrScheduleRequest and queueRequest.         *)

Submit(o) ==
    /\ pc[o] = "new" /\ stage = "AVAILABLE"
    /\ pc' = [pc EXCEPT ![o] = "dispatched"]
    /\ acked' = [acked EXCEPT ![o] = Acknowledged]
    /\ UNCHANGED <<stage, slots, document, action, linked, previous, outcome>>

(* checkServiceStopped(op, false) on a stopped instance: a pure stop has   *)
(* nothing left to do, every other request is retried.                     *)
checkServiceStopped(o) ==
    /\ pc[o] = "dispatched" /\ stage = "STOPPED"
    /\ Complete(o, IF action[o] = "STOP" THEN "ok" ELSE RetryOutcome)
    /\ UNCHANGED <<stage, slots, document, requests>>

queueConcurrentGet(o) ==
    /\ pc[o] = "dispatched" /\ stage = "AVAILABLE" /\ IsConcurrent(o)
    /\ pc' = [pc EXCEPT ![o] = "scheduled"]
    /\ UNCHANGED <<stage, slots, document, requests, outcome>>

(* offer the request to operationQueue, or fail it with                    *)
(* failRequestLimitExceeded.                                               *)
EnqueueOrFail(o) ==
    /\ IF canOffer(operationQueue)
       THEN /\ operationQueue' = offer(operationQueue, o)
            /\ pc' = [pc EXCEPT ![o] = "queued"]
            /\ UNCHANGED outcome
       ELSE Complete(o, "fail") /\ UNCHANGED operationQueue
    /\ UNCHANGED <<isUpdateActive, getActiveCount, synchQueue>>

queueGetRequestInternal(o) ==
    /\ pc[o] = "dispatched" /\ stage = "AVAILABLE"
    /\ action[o] = "GET" /\ ~IsConcurrent(o)
    /\ IF isUpdateActive
       THEN EnqueueOrFail(o)
       ELSE /\ getActiveCount' = getActiveCount + 1
            /\ pc' = [pc EXCEPT ![o] = "scheduled"]
            /\ UNCHANGED <<isUpdateActive, operationQueue, synchQueue, outcome>>
    /\ UNCHANGED <<stage, document, requests>>

(* The synchQueue is created by the first request that needs it.           *)
queueSynchRequest(o) ==
    LET q == IF synchQueue = NoQueue THEN createFifo(SynchQueueLimit) ELSE synchQueue
    IN  /\ IF canOffer(q)
           THEN /\ synchQueue' = offer(q, o)
                /\ pc' = [pc EXCEPT ![o] = "queued"]
                /\ UNCHANGED outcome
           ELSE Complete(o, "fail") /\ synchQueue' = q
        /\ UNCHANGED <<isUpdateActive, getActiveCount, operationQueue>>

(* Mutants of MustWait: one half of the condition is forgotten.            *)
WaitForGetsOnly == getActiveCount # 0
WaitForUpdatesOnly == isUpdateActive

MustWait == isUpdateActive \/ getActiveCount # 0

queueUpdateRequestInternal(o) ==
    /\ pc[o] = "dispatched" /\ stage = "AVAILABLE" /\ action[o] # "GET"
    /\ IF MustWait
       THEN IF action[o] = "SYNCH" THEN queueSynchRequest(o) ELSE EnqueueOrFail(o)
       ELSE /\ isUpdateActive' = TRUE
            /\ pc' = [pc EXCEPT ![o] = "scheduled"]
            /\ UNCHANGED <<getActiveCount, operationQueue, synchQueue, outcome>>
    /\ UNCHANGED <<stage, document, requests>>

-----------------------------------------------------------------------------
(* handleRequest on an executor thread: LOADING_STATE, PROCESSING_FILTERS. *)

handleRequest(o) ==
    /\ pc[o] = "scheduled"
    /\ IF action[o] = "STOP"
       THEN pc' = [pc EXCEPT ![o] = "stopHandler"] /\ UNCHANGED outcome
       ELSE IF stage = "STOPPED"
       THEN Complete(o, RetryOutcome)
       ELSE pc' = [pc EXCEPT ![o] = "linking"] /\ UNCHANGED outcome
    /\ UNCHANGED <<stage, slots, document, requests>>

(* validateOwnerSelectedUpdate for requests that are not replicated.       *)
PlaceAfterLoad(o) ==
    IF action[o] = "GET" THEN "handler"
    ELSE IF action[o] = "SYNCH" THEN "synchronizing"
    ELSE IF OwnerSelection /\ ~isOwner THEN "reprocessing" ELSE "handler"

(* loadServiceState: from the cache, else from the index.                  *)
loadServiceState(o) ==
    /\ pc[o] = "linking"
    /\ IF cached = NoDoc /\ Persistence
       THEN pc' = [pc EXCEPT ![o] = "loading"] /\ UNCHANGED linked
       ELSE /\ linked' = [linked EXCEPT ![o] = cached]
            /\ pc' = [pc EXCEPT ![o] = PlaceAfterLoad(o)]
    /\ UNCHANGED <<stage, slots, document, action, previous, acked, outcome>>

loadFromIndex(o) ==
    /\ pc[o] = "loading"
    /\ linked' = [linked EXCEPT ![o] = Latest(index)]
    /\ updateCachedServiceState(Latest(index))
    /\ pc' = [pc EXCEPT ![o] = PlaceAfterLoad(o)]
    /\ UNCHANGED <<stage, slots, version, isOwner, index, action, previous, acked, outcome>>

-----------------------------------------------------------------------------
(* The service handlers complete or fail the request, and                  *)
(* handleRequestCompletion runs.                                           *)

(* A GET without a state was overtaken by a stop: it is retried.           *)
handleGet(o) ==
    /\ pc[o] = "handler" /\ action[o] = "GET"
    /\ IF linked[o] = NoDoc /\ stage = "STOPPED"
       THEN Complete(o, RetryOutcome) /\ UNCHANGED slots
       ELSE processPending(o, "done") /\ outcome' = [outcome EXCEPT ![o] = "ok"]
    /\ UNCHANGED <<stage, document, requests>>

(* A handler, a validation or an authorization check fails the request.    *)
handlerFailure(o) ==
    /\ pc[o] \in {"linking", "loading", "handler"}
    /\ failRequest(o)
    /\ UNCHANGED <<stage, document, requests>>

(* The handler set PRAGMA_DIRECTIVE_STATE_NOT_MODIFIED.                    *)
stateNotModified(o) ==
    /\ pc[o] = "handler" /\ action[o] = "PATCH"
    /\ processPending(o, "done")
    /\ outcome' = [outcome EXCEPT ![o] = "notModified"]
    /\ UNCHANGED <<stage, document, requests>>

(* Where an update goes after its handler: the replication proposal on the *)
(* owner of a replicated service, else straight to saving.                 *)
PlaceAfterHandler == IF OwnerSelection /\ isOwner THEN "replicating" ELSE "saving"

(* Mutant of applyUpdate: the version is not incremented.                  *)
ApplyWithoutIncrement(o, changes) ==
    /\ version' = version
    /\ linked' = [linked EXCEPT ![o] = [version |-> version,
                                        updates |-> linked[o].updates \cup changes]]

(* applyUpdate, for a request that did not come from replication.          *)
applyUpdate(o, changes) ==
    /\ version' = version + 1
    /\ linked' = [linked EXCEPT ![o] = [version |-> version + 1,
                                        updates |-> linked[o].updates \cup changes]]

handleUpdate(o) ==
    /\ pc[o] = "handler" /\ action[o] = "PATCH"
    /\ applyUpdate(o, {o})
    /\ pc' = [pc EXCEPT ![o] = PlaceAfterHandler]
    /\ UNCHANGED <<stage, slots, isOwner, cached, index, action, previous, acked, outcome>>

(* A DELETE ends with handleDeleteCompletion: checkServiceStopped(op, true)*)
(* stops the instance and fails what is pending.                           *)
handleDelete(o) ==
    /\ pc[o] = "handler" /\ action[o] = "DELETE"
    /\ applyUpdate(o, {})
    /\ IF stage = "STOPPED"
       THEN Complete(o, RetryOutcome) /\ UNCHANGED <<slots, stage, cached>>
       ELSE /\ cancelPendingRequests(o, PlaceAfterHandler, "none", "fail")
            /\ stopService
            /\ UNCHANGED <<isUpdateActive, getActiveCount>>
    /\ UNCHANGED <<isOwner, index, action, previous, acked>>

-----------------------------------------------------------------------------
(* Completion stages: replication, commit, indexing.                       *)

(* processCompletionStageCommit: an idle owner advertises the commit of    *)
(* its newest version.                                                     *)
SendsCommit(o) ==
    /\ isOwner
    /\ action[o] = "DELETE" \/ isEmpty(operationQueue)
    /\ linked[o].version >= version

(* The proposal reached its quorum.  With quorum ALL the update waits for  *)
(* its commit as well, whatever the commit's result.                       *)
replicationComplete(o) ==
    /\ pc[o] = "replicating"
    /\ \E next \in {"saving"} \cup (IF SendsCommit(o) THEN {"committing"} ELSE {}) :
        pc' = [pc EXCEPT ![o] = next]
    /\ UNCHANGED <<stage, slots, document, requests, outcome>>

commitComplete(o) ==
    /\ pc[o] = "committing"
    /\ pc' = [pc EXCEPT ![o] = "saving"]
    /\ UNCHANGED <<stage, slots, document, requests, outcome>>

replicationFailure(o) ==
    /\ pc[o] = "replicating"
    /\ failRequest(o)
    /\ UNCHANGED <<stage, document, requests>>

(* saveServiceState caches the new state, posts it to the index, and the   *)
(* finally block of processCompletionStageIndexing calls processPending    *)
(* before the index has answered.                                          *)
processCompletionStageIndexing(o) ==
    /\ pc[o] = "saving"
    /\ previous' = [previous EXCEPT ![o] = cached]
    /\ updateCachedServiceState(linked[o])
    /\ IF Persistence
       THEN processPending(o, "indexing") /\ UNCHANGED outcome
       ELSE processPending(o, "done") /\ outcome' = [outcome EXCEPT ![o] = "ok"]
    /\ UNCHANGED <<stage, version, isOwner, index, action, linked, acked>>

indexComplete(o) ==
    /\ pc[o] = "indexing"
    /\ index' = index \cup {linked[o]}
    /\ Complete(o, "ok")
    /\ UNCHANGED <<stage, slots, version, isOwner, cached, requests>>

indexFailure(o) ==
    /\ IndexCanFail /\ pc[o] = "indexing"
    /\ resetCachedServiceState(previous[o])
    /\ failRequest(o)
    /\ UNCHANGED <<stage, version, isOwner, index, requests>>

-----------------------------------------------------------------------------
(* Synchronization with peers.  selectServiceOwnerAndSynchState, the node  *)
(* selector and the peers answer with who the owner is and with the best   *)
(* state, which is never older than the state this instance offered.       *)

PeerAnswers(o) ==
    [owner : IF OwnershipCanMove THEN BOOLEAN ELSE {isOwner},
     version : {linked[o].version} \cup linked[o].version .. MaxVersion]

(* handleSynchronizeWithPeersCompletion: version (and epoch, left out) only *)
(* move forward; a new owner always saves, since its epoch changed.         *)
IsStateUpdated(a) == a.version > version \/ (~isOwner /\ a.owner)

AdoptPeerState(o, a) ==
    /\ isOwner' = a.owner
    /\ version' = IF a.version > version THEN a.version ELSE version
    /\ linked' = [linked EXCEPT ![o].version = a.version]

synchronizeWithPeers(o) ==
    /\ pc[o] = "synchronizing"
    /\ \E a \in PeerAnswers(o) :
        /\ a.owner \/ a.version = linked[o].version
        /\ AdoptPeerState(o, a)
        /\ IF IsStateUpdated(a)
           THEN pc' = [pc EXCEPT ![o] = "saving"] /\ UNCHANGED <<slots, outcome>>
           ELSE /\ processPending(o, "done")
                /\ outcome' = [outcome EXCEPT ![o] = "notModified"]
    /\ UNCHANGED <<stage, cached, index, action, previous, acked>>

handleSynchFailure(o) ==
    /\ pc[o] \in {"synchronizing", "reprocessing"}
    /\ failRequest(o)
    /\ UNCHANGED <<stage, document, requests>>

HasActiveUpdates == synchQueue # NoQueue \/ ~isEmpty(operationQueue)

(* A peer holds a newer, deleted version: the request fails, and unless    *)
(* requests are pending ...                                                *)
synchMarkedDeleted(o) ==
    /\ pc[o] \in {"synchronizing", "reprocessing"}
    /\ IF stage = "STOPPED" \/ HasActiveUpdates
       THEN failRequest(o)
       ELSE pc' = [pc EXCEPT ![o] = "synchStopping"] /\ UNCHANGED <<slots, outcome>>
    /\ UNCHANGED <<stage, document, requests>>

(* ... the instance stops, after the lock has been released.               *)
synchStopAndCancel(o) ==
    /\ pc[o] = "synchStopping"
    /\ cancelPendingRequests(o, "done", "fail", RetryOutcome)
    /\ isUpdateActive' = FALSE
    /\ stopService
    /\ UNCHANGED <<getActiveCount, version, isOwner, index, requests>>

(* synchWithPeersAndReProcess: a request of its own synchronizes, its      *)
(* completion stages end in processPending, and o is handled again.        *)
synchWithPeersAndReProcess(o) ==
    /\ pc[o] = "reprocessing"
    /\ \E a \in PeerAnswers(o) :
        /\ a.owner \/ a.version = linked[o].version
        /\ AdoptPeerState(o, a)
        /\ IF IsStateUpdated(a)
           THEN /\ previous' = [previous EXCEPT ![o] = cached]
                /\ updateCachedServiceState([linked[o] EXCEPT !.version = a.version])
                /\ processPending(o, IF Persistence THEN "reindexing" ELSE "scheduled")
           ELSE processPending(o, "scheduled") /\ UNCHANGED <<previous, cached>>
    /\ UNCHANGED <<stage, index, action, acked, outcome>>

reprocessAfterIndexing(o) ==
    /\ pc[o] = "reindexing"
    /\ index' = index \cup {linked[o]}
    /\ pc' = [pc EXCEPT ![o] = "scheduled"]
    /\ UNCHANGED <<stage, slots, version, isOwner, cached, requests, outcome>>

reprocessIndexFailure(o) ==
    /\ IndexCanFail /\ pc[o] = "reindexing"
    /\ resetCachedServiceState(previous[o])
    /\ failRequest(o)
    /\ UNCHANGED <<stage, version, isOwner, index, requests>>

(* A replicated update from another owner, which needs the slot, turns     *)
(* DOCUMENT_OWNER off.                                                     *)
loseOwnership ==
    /\ OwnershipCanMove /\ OwnerSelection /\ isOwner /\ ~MustWait /\ stage = "AVAILABLE"
    /\ isOwner' = FALSE
    /\ UNCHANGED <<stage, slots, version, cached, index, requests, pc, outcome>>

-----------------------------------------------------------------------------
(* Stopping the instance without deleting it.                              *)

handleStop(o) ==
    /\ pc[o] = "stopHandler"
    /\ processPending(o, "stopCheck")
    /\ UNCHANGED <<stage, document, requests, outcome>>

(* When handleStop, which only the owner calls, fails the operation,       *)
(* nothing completes it.                                                   *)
handleStopFailure(o) ==
    /\ pc[o] = "stopHandler" /\ (OwnerSelection => isOwner)
    /\ processPending(o, "abandoned")
    /\ UNCHANGED <<stage, document, requests, outcome>>

(* handleStopCompletion: checkServiceStopped(op, true) looks at the queues *)
(* under the lock ...                                                      *)
handleStopCompletion(o) ==
    /\ pc[o] = "stopCheck"
    /\ IF stage = "STOPPED" THEN Complete(o, "ok")
       ELSE IF HasActiveUpdates THEN Complete(o, "fail")
       ELSE pc' = [pc EXCEPT ![o] = "stopping"] /\ UNCHANGED outcome
    /\ UNCHANGED <<stage, slots, document, requests>>

(* ... and stops the instance after it has released the lock.              *)
stopAndCancel(o) ==
    /\ pc[o] = "stopping"
    /\ cancelPendingRequests(o, "done", "ok", RetryOutcome)
    /\ stopService
    /\ UNCHANGED <<isUpdateActive, getActiveCount, version, isOwner, index, requests>>

-----------------------------------------------------------------------------
Admit(o) ==
    \/ checkServiceStopped(o) \/ queueConcurrentGet(o)
    \/ queueGetRequestInternal(o) \/ queueUpdateRequestInternal(o)

Process(o) ==
    \/ handleRequest(o) \/ loadServiceState(o) \/ loadFromIndex(o)
    \/ handleGet(o) \/ handlerFailure(o) \/ stateNotModified(o)
    \/ handleUpdate(o) \/ handleDelete(o)
    \/ replicationComplete(o) \/ commitComplete(o) \/ replicationFailure(o)
    \/ processCompletionStageIndexing(o) \/ indexComplete(o) \/ indexFailure(o)

Synchronize(o) ==
    \/ synchronizeWithPeers(o) \/ handleSynchFailure(o) \/ synchMarkedDeleted(o)
    \/ synchStopAndCancel(o)
    \/ synchWithPeersAndReProcess(o) \/ reprocessAfterIndexing(o) \/ reprocessIndexFailure(o)

Stop(o) ==
    \/ handleStop(o) \/ handleStopFailure(o) \/ handleStopCompletion(o) \/ stopAndCancel(o)

(* Every request has been answered: the system may rest.                   *)
Quiescent == (\A o \in Ops : pc[o] \in {"done", "abandoned"} \/ (pc[o] = "new" /\ stage = "STOPPED"))
             /\ UNCHANGED vars

Next ==
    \/ \E o \in Ops : Submit(o) \/ Admit(o) \/ Process(o) \/ Synchronize(o) \/ Stop(o)
    \/ loseOwnership
    \/ Quiescent

Fairness == \A o \in Ops : WF_vars(Admit(o) \/ Process(o) \/ Synchronize(o) \/ Stop(o))

Spec == Init /\ [][Next]_vars /\ Fairness

-----------------------------------------------------------------------------
(* Every variable has its type (one instance's context, its cached and     *)
(* indexed documents, and the requests' bookkeeping).                      *)
TypeOK ==
    /\ stage \in {"AVAILABLE", "STOPPED"}
    /\ isUpdateActive \in BOOLEAN
    /\ getActiveCount \in Nat
    /\ operationQueue \in Queue(Ops)
    /\ synchQueue \in Queue(Ops)
    /\ version \in Nat
    /\ isOwner \in BOOLEAN
    /\ cached \in Docs
    /\ index \in SUBSET Docs
    /\ pc \in [Ops -> Places]
    /\ action \in [Ops -> AllActions]
    /\ linked \in [Ops -> Docs]
    /\ previous \in [Ops -> Docs]
    /\ outcome \in [Ops -> Outcomes]
    /\ acked \in [Ops -> SUBSET Ops]

ActiveUpdates == {o \in Ops : action[o] # "GET" /\ pc[o] \in SlotPlaces}
ActiveGets == {o \in Ops : action[o] = "GET" /\ ~IsConcurrent(o) /\ pc[o] \in SlotPlaces}

(* Modifications are serialized (queueUpdateRequestInternal and            *)
(* processPending): between admission and processPending there is at most  *)
(* one update, and no GET runs beside it on a service that serializes GETs *)
(* with updates.                                                           *)
UpdateExclusion ==
    /\ \A o, p \in ActiveUpdates : o = p
    /\ ActiveUpdates # {} => ActiveGets = {}

(* getActiveCount never falls below the number of GETs that are running,   *)
(* so processPending never meets its "Negative pending gets" state and no  *)
(* update is admitted beside a GET.                                        *)
GetsAreCounted == Cardinality(ActiveGets) <= getActiveCount

(* No lost wake-up between processPending and the two queues: while a      *)
(* request is pending, some request that will call processPending is       *)
(* running or on its way back to queueRequest.                             *)
NoStrandedRequest ==
    Pending # {} =>
        \E o \in Ops : ~IsConcurrent(o) /\ pc[o] \in SlotPlaces \cup {"dispatched"}

(* The newest document the instance would serve or be restarted from.      *)
NewestDoc == IF Persistence THEN Latest(index) ELSE cached

(* An update the client saw succeed is part of the newest document, no     *)
(* matter in which order the index answered (saveServiceState,             *)
(* processCompletionStageIndexing).  A stopped instance that is not        *)
(* persistent has no document.                                             *)
AcknowledgedUpdatesKept ==
    Persistence \/ stage = "AVAILABLE" => Acknowledged \subseteq NewestDoc.updates

(* A GET returns every update acknowledged before the GET was sent         *)
(* (loadServiceState against saveServiceState).                            *)
ReadsSeeAcknowledged ==
    \A o \in Ops : action[o] = "GET" /\ outcome[o] = "ok" => acked[o] \subseteq linked[o].updates

(* "our index and caching policy serves the highest version": the cached   *)
(* document of a running instance is never behind the index.               *)
CacheServesHighestVersion ==
    stage = "AVAILABLE" => \A d \in index : d.version <= cached.version

(* Two documents saved under the same version are the same document.       *)
IndexedVersionsUnique == \A d, e \in index : d.version = e.version => d = e

(* The document as the clients know it: the newest one that is cached,     *)
(* indexed or on its way to the index.                                     *)
VisibleDoc == Latest(index \cup {cached} \cup {linked[o] : o \in {p \in Ops : pc[p] = "indexing"}})

(* The service is an atomic document (AtomicDocument) to its clients,      *)
(* although an update passes the cache, the replicas and the index in      *)
(* separate steps and is visible before the index has answered.            *)
Promise == INSTANCE AtomicDocument WITH
    kind <- [o \in Ops |-> IF action[o] \in {"GET", "PATCH"} THEN action[o] ELSE "other"],
    document <- VisibleDoc.updates,
    floor <- acked,
    answer <- [o \in Ops |-> IF action[o] \notin {"GET", "PATCH"} \/ outcome[o] = "none"
                             THEN "none"
                             ELSE IF outcome[o] = "ok" THEN "ok" ELSE "refused"],
    seen <- [o \in Ops |-> IF action[o] = "GET" /\ outcome[o] = "ok"
                           THEN linked[o].updates ELSE {}]
ImplementsAtomicDocument == Promise!Spec

(* Every request that was sent is answered (completed, failed or handed to *)
(* a restarted instance), except a stop whose handleStop failed.           *)
EveryRequestAnswered ==
    \A o \in Ops : pc[o] = "dispatched" ~>
        pc[o] = "done" \/ (pc[o] = "abandoned" /\ action[o] = "STOP")
=============================================================================
