------------------------ MODULE StatefulServiceProofs -----------------------
(***************************************************************************)
(* Theorems about StatefulService, for every set of requests, every queue  *)
(* limit and every combination of service options: first the types, then   *)
(* the queues and slots.  For these, every step has one of a few effects   *)
(* on the slots, the queues and the places of the requests, and each       *)
(* invariant is shown to survive each effect.                              *)
(***************************************************************************)
EXTENDS StatefulService, FiniteSetTheorems, TLAPS

-----------------------------------------------------------------------------
(* What the methods of OperationQueue do to a queue of requests.           *)

LEMMA OfferType ==
    ASSUME NEW q \in Queue(Ops), NEW o \in Ops
    PROVE  offer(q, o) \in Queue(Ops)
  <1>1. q.store \in Seq(Ops) /\ q.elementCount \in Int /\ q.limit \in Int
    BY DEF Queue
  <1>2. <<o>> \o q.store \in Seq(Ops) /\ Append(q.store, o) \in Seq(Ops)
    BY <1>1
  <1>3. q.elementCount + 1 \in Int
    BY <1>1
  <1>4. QED
    BY <1>2, <1>3 DEF offer, Queue

LEMMA PollType ==
    ASSUME NEW q \in Queue(Ops)
    PROVE  /\ poll(q) \in Queue(Ops)
           /\ ~isEmpty(q) => polled(q) \in Ops
  <1>1. q.store \in Seq(Ops) /\ q.elementCount \in Int /\ q.limit \in Int
    BY DEF Queue
  <1>2. CASE isEmpty(q)
    BY <1>2 DEF poll
  <1>3. CASE ~isEmpty(q)
    <2>1. Tail(q.store) \in Seq(Ops) /\ Head(q.store) \in Ops
      BY <1>1, <1>3 DEF isEmpty
    <2>2. q.elementCount - 1 \in Int
      BY <1>1
    <2>3. QED
      BY <1>3, <2>1, <2>2 DEF poll, polled, Queue
  <1>4. QED
    BY <1>2, <1>3

LEMMA ClearType ==
    ASSUME NEW q \in Queue(Ops)
    PROVE  /\ clear(q) \in Queue(Ops)
           /\ isEmpty(clear(q))
  <1>1. <<>> \in Seq(Ops)
    OBVIOUS
  <1>2. QED
    BY <1>1 DEF clear, isEmpty, Queue

LEMMA FifoType ==
    ASSUME NEW n \in Int
    PROVE  /\ createFifo(n) \in Queue(Ops)
           /\ isEmpty(createFifo(n))
  <1>1. <<>> \in Seq(Ops)
    OBVIOUS
  <1>2. QED
    BY <1>1 DEF createFifo, isEmpty, Queue

LEMMA NoDocType == NoDoc \in Docs /\ InitialDoc \in Docs
  BY DEF NoDoc, InitialDoc, Docs

-----------------------------------------------------------------------------
(* Type correctness.  The index of a persistent service always has a       *)
(* newest document, so loadFromIndex links a document.                     *)
HasLatest ==
    Persistence => \E d \in index : \A e \in index : e.version <= d.version

(* Only a persistent service reads the index.                              *)
LoadsPersisted == \A o \in Ops : pc[o] = "loading" => Persistence

TypeInv == TypeOK /\ HasLatest

LEMMA LatestType ==
    ASSUME TypeInv, Persistence
    PROVE  Latest(index) \in Docs
  BY DEF TypeInv, TypeOK, HasLatest, Latest

LEMMA IndexGrows ==
    ASSUME TypeInv, NEW d \in Docs, index' = index \cup {d}
    PROVE  index' \in SUBSET Docs /\ HasLatest'
  <1>1. index' \in SUBSET Docs
    BY DEF TypeInv, TypeOK
  <1>2. ASSUME Persistence
        PROVE  \E m \in index' : \A e \in index' : e.version <= m.version
    <2>1. PICK m \in index : \A e \in index : e.version <= m.version
      BY <1>2 DEF TypeInv, HasLatest
    <2>2. m.version \in Int /\ d.version \in Int /\ \A e \in index : e.version \in Int
      BY DEF TypeInv, TypeOK, Docs
    <2>3. CASE d.version <= m.version
      BY <2>1, <2>3
    <2>4. CASE m.version < d.version
      BY <2>1, <2>2, <2>4
    <2>5. QED
      BY <2>2, <2>3, <2>4
  <1>3. QED
    BY <1>1, <1>2 DEF HasLatest

(* The variables processPending and cancelPendingRequests change.          *)
SlotsType ==
    /\ isUpdateActive \in BOOLEAN
    /\ getActiveCount \in Nat
    /\ operationQueue \in Queue(Ops)
    /\ synchQueue \in Queue(Ops)

LEMMA DequeueType ==
    ASSUME TypeInv, dequeueRequest
    PROVE  operationQueue' \in Queue(Ops) /\ synchQueue' \in Queue(Ops)
  <1>1. NoQueue \in Queue(Ops)
    BY FifoType DEF NoQueue
  <1>2. poll(operationQueue) \in Queue(Ops) /\ poll(synchQueue) \in Queue(Ops)
    BY PollType DEF TypeInv, TypeOK
  <1>3. QED
    BY <1>1, <1>2 DEF dequeueRequest, TypeInv, TypeOK

LEMMA ProcessPendingType ==
    ASSUME TypeInv, NEW o \in Ops, NEW next \in Places, processPending(o, next)
    PROVE  SlotsType' /\ pc' \in [Ops -> Places]
  <1>1. CASE IsConcurrent(o)
    BY <1>1 DEF processPending, slots, SlotsType, TypeInv, TypeOK
  <1>2. CASE ~IsConcurrent(o)
    <2>1. dequeueRequest
      BY <1>2 DEF processPending
    <2>2. operationQueue' \in Queue(Ops) /\ synchQueue' \in Queue(Ops)
      BY <2>1, DequeueType
    <2>3. getActiveCount' \in Nat
      BY <1>2 DEF processPending, TypeInv, TypeOK
    <2>4. isUpdateActive' \in BOOLEAN
      <3>1. isUpdateActive' = FALSE \/ isUpdateActive' = isUpdateActive
        BY <1>2 DEF processPending
      <3>2. QED
        BY <3>1 DEF TypeInv, TypeOK
    <2>5. pc' \in [Ops -> Places]
      BY <1>2 DEF processPending, TypeInv, TypeOK, Places
    <2>6. QED
      BY <2>2, <2>3, <2>4, <2>5 DEF SlotsType
  <1>3. QED
    BY <1>1, <1>2

LEMMA FailRequestType ==
    ASSUME TypeInv, NEW o \in Ops, failRequest(o)
    PROVE  SlotsType' /\ pc' \in [Ops -> Places] /\ outcome' \in [Ops -> Outcomes]
  <1>1. "done" \in Places
    BY DEF Places
  <1>2. SlotsType' /\ pc' \in [Ops -> Places]
    BY <1>1, ProcessPendingType DEF failRequest
  <1>3. QED
    BY <1>2 DEF failRequest, TypeInv, TypeOK, Outcomes

LEMMA CancelType ==
    ASSUME TypeInv, NEW o \in Ops, NEW next \in Places,
           NEW mine \in Outcomes, NEW result \in Outcomes,
           cancelPendingRequests(o, next, mine, result)
    PROVE  /\ operationQueue' \in Queue(Ops) /\ synchQueue' \in Queue(Ops)
           /\ pc' \in [Ops -> Places] /\ outcome' \in [Ops -> Outcomes]
  <1>1. clear(operationQueue) \in Queue(Ops) /\ clear(synchQueue) \in Queue(Ops)
    BY ClearType DEF TypeInv, TypeOK
  <1>2. operationQueue' \in Queue(Ops) /\ synchQueue' \in Queue(Ops)
    BY <1>1 DEF cancelPendingRequests, TypeInv, TypeOK
  <1>3. pc' \in [Ops -> Places] /\ outcome' \in [Ops -> Outcomes]
    BY DEF cancelPendingRequests, TypeInv, TypeOK, Places
  <1>4. QED
    BY <1>2, <1>3

(* The service starts with its types.                                      *)
LEMMA TypeInit == Init => TypeInv
  <1>1. SUFFICES ASSUME Init PROVE TypeInv
    OBVIOUS
  <1>2. operationQueue \in Queue(Ops) /\ synchQueue \in Queue(Ops)
    <2>1. <<>> \in Seq(Ops)
      OBVIOUS
    <2>2. QED
      BY <1>1, <2>1, FifoType, ConstantsAssumption DEF Init, Queue, NoQueue
  <1>3. index \in SUBSET Docs /\ HasLatest
    BY <1>1, NoDocType DEF Init, HasLatest, InitialDoc
  <1>4. isOwner \in BOOLEAN /\ isUpdateActive \in BOOLEAN
    BY <1>1, ConstantsAssumption DEF Init
  <1>5. QED
    BY <1>1, <1>2, <1>3, <1>4, NoDocType, ConstantsAssumption
       DEF Init, TypeInv, TypeOK, Places, Outcomes

(* Admission.                                                              *)
LEMMA TypeSubmit ==
    ASSUME TypeInv, NEW o \in Ops, Submit(o)
    PROVE  TypeInv'
  <1>1. acked' \in [Ops -> SUBSET Ops] /\ pc' \in [Ops -> Places]
    BY DEF Submit, Acknowledged, TypeInv, TypeOK, Places
  <1>2. QED
    BY <1>1 DEF Submit, slots, document, TypeInv, TypeOK, HasLatest

LEMMA CompleteType ==
    ASSUME TypeInv, NEW o \in Ops, NEW result \in Outcomes, Complete(o, result)
    PROVE  pc' \in [Ops -> Places] /\ outcome' \in [Ops -> Outcomes]
  BY DEF Complete, TypeInv, TypeOK, Places

LEMMA OutcomeMembers ==
    /\ RetryOutcome \in Outcomes
    /\ "none" \in Outcomes /\ "ok" \in Outcomes
    /\ "fail" \in Outcomes /\ "notModified" \in Outcomes
  BY DEF RetryOutcome, Outcomes

LEMMA EnqueueType ==
    ASSUME TypeInv, NEW o \in Ops, EnqueueOrFail(o)
    PROVE  SlotsType' /\ pc' \in [Ops -> Places] /\ outcome' \in [Ops -> Outcomes]
  <1>1. offer(operationQueue, o) \in Queue(Ops)
    BY OfferType DEF TypeInv, TypeOK
  <1>2. SlotsType'
    BY <1>1 DEF EnqueueOrFail, SlotsType, TypeInv, TypeOK
  <1>3. CASE canOffer(operationQueue)
    BY <1>2, <1>3 DEF EnqueueOrFail, TypeInv, TypeOK, Places
  <1>4. CASE ~canOffer(operationQueue)
    BY <1>2, <1>4, CompleteType, OutcomeMembers DEF EnqueueOrFail
  <1>5. QED
    BY <1>3, <1>4

LEMMA QueueSynchType ==
    ASSUME TypeInv, NEW o \in Ops, queueSynchRequest(o)
    PROVE  SlotsType' /\ pc' \in [Ops -> Places] /\ outcome' \in [Ops -> Outcomes]
  <1> DEFINE q == IF synchQueue = NoQueue THEN createFifo(SynchQueueLimit) ELSE synchQueue
  <1>1. q \in Queue(Ops)
    BY FifoType, ConstantsAssumption DEF TypeInv, TypeOK
  <1>2. offer(q, o) \in Queue(Ops)
    BY <1>1, OfferType
  <1>3. SlotsType'
    BY <1>1, <1>2 DEF queueSynchRequest, SlotsType, TypeInv, TypeOK
  <1>4. CASE canOffer(q)
    BY <1>3, <1>4 DEF queueSynchRequest, TypeInv, TypeOK, Places
  <1>5. CASE ~canOffer(q)
    BY <1>3, <1>5, CompleteType, OutcomeMembers DEF queueSynchRequest
  <1>6. QED
    BY <1>4, <1>5

LEMMA TypeAdmit ==
    ASSUME TypeInv, NEW o \in Ops, Admit(o)
    PROVE  TypeInv'
  <1>1. UNCHANGED <<stage, document, requests>>
    BY DEF Admit, checkServiceStopped, queueConcurrentGet, queueGetRequestInternal,
           queueUpdateRequestInternal
  <1>2. SlotsType' /\ pc' \in [Ops -> Places] /\ outcome' \in [Ops -> Outcomes]
    <2>1. CASE checkServiceStopped(o)
      <3>1. Complete(o, IF action[o] = "STOP" THEN "ok" ELSE RetryOutcome) /\ UNCHANGED slots
        BY <2>1 DEF checkServiceStopped
      <3>2. QED
        BY <3>1, CompleteType, OutcomeMembers DEF slots, SlotsType, TypeInv, TypeOK
    <2>2. CASE queueConcurrentGet(o)
      BY <2>2 DEF queueConcurrentGet, slots, SlotsType, TypeInv, TypeOK, Places, SlotPlaces
    <2>3. CASE queueGetRequestInternal(o)
      <3>1. CASE isUpdateActive
        BY <2>3, <3>1, EnqueueType DEF queueGetRequestInternal
      <3>2. CASE ~isUpdateActive
        BY <2>3, <3>2
           DEF queueGetRequestInternal, SlotsType, TypeInv, TypeOK, Places, SlotPlaces
      <3>3. QED
        BY <3>1, <3>2
    <2>4. CASE queueUpdateRequestInternal(o)
      <3>1. CASE MustWait
        BY <2>4, <3>1, EnqueueType, QueueSynchType DEF queueUpdateRequestInternal
      <3>2. CASE ~MustWait
        <4>1. pc' \in [Ops -> Places] /\ UNCHANGED outcome
          BY <2>4, <3>2 DEF queueUpdateRequestInternal, TypeInv, TypeOK, Places, SlotPlaces
        <4>2. isUpdateActive' = TRUE
          BY <2>4, <3>2 DEF queueUpdateRequestInternal
        <4>3. UNCHANGED <<getActiveCount, operationQueue, synchQueue>>
          BY <2>4, <3>2 DEF queueUpdateRequestInternal
        <4>4. QED
          BY <4>1, <4>2, <4>3 DEF SlotsType, TypeInv, TypeOK
      <3>3. QED
        BY <3>1, <3>2
    <2>5. QED
      BY <2>1, <2>2, <2>3, <2>4 DEF Admit
  <1>3. QED
    BY <1>1, <1>2 DEF document, requests, SlotsType, TypeInv, TypeOK, HasLatest

(* Where a request goes next is a place.                                   *)
LEMMA PlaceMembers ==
    /\ \A o \in Ops : PlaceAfterLoad(o) \in Places
    /\ PlaceAfterHandler \in Places
    /\ SlotPlaces \subseteq Places
    /\ "done" \in Places /\ "indexing" \in Places /\ "reindexing" \in Places
    /\ "stopCheck" \in Places /\ "stopping" \in Places /\ "abandoned" \in Places
  BY DEF PlaceAfterLoad, PlaceAfterHandler, Places, SlotPlaces

LEMMA CacheType ==
    ASSUME TypeInv, NEW st \in Docs,
           updateCachedServiceState(st) \/ resetCachedServiceState(st)
    PROVE  cached' \in Docs
  BY DEF updateCachedServiceState, resetCachedServiceState, TypeInv, TypeOK

LEMMA StopServiceType ==
    ASSUME stopService
    PROVE  cached' \in Docs /\ stage' \in {"AVAILABLE", "STOPPED"}
  BY NoDocType DEF stopService

LEMMA ApplyUpdateType ==
    ASSUME TypeInv, NEW o \in Ops, NEW changes \in SUBSET Ops, applyUpdate(o, changes)
    PROVE  version' \in Nat /\ linked' \in [Ops -> Docs]
  <1>1. version + 1 \in Nat /\ linked[o].updates \cup changes \in SUBSET Ops
    BY DEF TypeInv, TypeOK, Docs
  <1>2. [version |-> version + 1, updates |-> linked[o].updates \cup changes] \in Docs
    BY <1>1 DEF Docs
  <1>3. QED
    BY <1>1, <1>2 DEF applyUpdate, TypeInv, TypeOK

(* The handlers and the completion stages.                                 *)
LEMMA TypeProcess ==
    ASSUME TypeInv, LoadsPersisted, NEW o \in Ops, Process(o)
    PROVE  TypeInv'
  <1>1. CASE handleRequest(o)
    <2>1. pc' \in [Ops -> Places] /\ outcome' \in [Ops -> Outcomes]
      BY <1>1, CompleteType, OutcomeMembers
         DEF handleRequest, TypeInv, TypeOK, Places, SlotPlaces
    <2>2. QED
      BY <1>1, <2>1 DEF handleRequest, slots, document, requests, TypeInv, TypeOK, HasLatest
  <1>2. CASE loadServiceState(o)
    <2>1. linked' \in [Ops -> Docs] /\ pc' \in [Ops -> Places]
      BY <1>2, PlaceMembers DEF loadServiceState, TypeInv, TypeOK, SlotPlaces
    <2>2. QED
      BY <1>2, <2>1 DEF loadServiceState, slots, document, TypeInv, TypeOK, HasLatest
  <1>3. CASE loadFromIndex(o)
    <2>1. Persistence
      BY <1>3 DEF loadFromIndex, LoadsPersisted
    <2>2. Latest(index) \in Docs
      BY <2>1, LatestType
    <2>3. cached' \in Docs
      BY <1>3, <2>2, CacheType DEF loadFromIndex
    <2>4. linked' \in [Ops -> Docs] /\ pc' \in [Ops -> Places]
      BY <1>3, <2>2, PlaceMembers DEF loadFromIndex, TypeInv, TypeOK
    <2>5. QED
      BY <1>3, <2>3, <2>4 DEF loadFromIndex, slots, TypeInv, TypeOK, HasLatest
  <1>4. CASE handleGet(o)
    <2>1. SlotsType' /\ pc' \in [Ops -> Places] /\ outcome' \in [Ops -> Outcomes]
      <3>1. CASE linked[o] = NoDoc /\ stage = "STOPPED"
        <4>1. Complete(o, RetryOutcome) /\ UNCHANGED slots
          BY <1>4, <3>1 DEF handleGet
        <4>2. QED
          BY <4>1, CompleteType, OutcomeMembers DEF slots, SlotsType, TypeInv, TypeOK
      <3>2. CASE ~(linked[o] = NoDoc /\ stage = "STOPPED")
        <4>1. processPending(o, "done") /\ outcome' = [outcome EXCEPT ![o] = "ok"]
          BY <1>4, <3>2 DEF handleGet
        <4>2. QED
          BY <4>1, ProcessPendingType, PlaceMembers, OutcomeMembers DEF TypeInv, TypeOK
      <3>3. QED
        BY <3>1, <3>2
    <2>2. QED
      BY <1>4, <2>1 DEF handleGet, SlotsType, document, requests, TypeInv, TypeOK, HasLatest
  <1>5. CASE handlerFailure(o)
    BY <1>5, FailRequestType
       DEF handlerFailure, SlotsType, document, requests, TypeInv, TypeOK, HasLatest
  <1>6. CASE stateNotModified(o)
    <2>1. SlotsType' /\ pc' \in [Ops -> Places]
      BY <1>6, ProcessPendingType, PlaceMembers DEF stateNotModified
    <2>2. QED
      BY <1>6, <2>1, OutcomeMembers
         DEF stateNotModified, SlotsType, document, requests, TypeInv, TypeOK, HasLatest
  <1>7. CASE handleUpdate(o)
    <2>1. version' \in Nat /\ linked' \in [Ops -> Docs]
      BY <1>7, ApplyUpdateType DEF handleUpdate
    <2>2. QED
      BY <1>7, <2>1, PlaceMembers DEF handleUpdate, slots, TypeInv, TypeOK, HasLatest
  <1>8. CASE handleDelete(o)
    <2>1. version' \in Nat /\ linked' \in [Ops -> Docs]
      BY <1>8, ApplyUpdateType DEF handleDelete
    <2>2. CASE stage = "STOPPED"
      <3>1. pc' \in [Ops -> Places] /\ outcome' \in [Ops -> Outcomes]
        BY <1>8, <2>2, CompleteType, OutcomeMembers DEF handleDelete
      <3>2. QED
        BY <1>8, <2>1, <2>2, <3>1 DEF handleDelete, slots, TypeInv, TypeOK, HasLatest
    <2>3. CASE stage # "STOPPED"
      <3>1. cancelPendingRequests(o, PlaceAfterHandler, "none", "fail") /\ stopService
        BY <1>8, <2>3 DEF handleDelete
      <3>2. /\ operationQueue' \in Queue(Ops) /\ synchQueue' \in Queue(Ops)
            /\ pc' \in [Ops -> Places] /\ outcome' \in [Ops -> Outcomes]
        BY <3>1, CancelType, PlaceMembers, OutcomeMembers
      <3>3. cached' \in Docs /\ stage' \in {"AVAILABLE", "STOPPED"}
        BY <3>1, StopServiceType
      <3>4. QED
        BY <1>8, <2>1, <2>3, <3>2, <3>3 DEF handleDelete, TypeInv, TypeOK, HasLatest
    <2>4. QED
      BY <2>2, <2>3
  <1>9. CASE replicationComplete(o)
    <2>1. pc' \in [Ops -> Places]
      BY <1>9 DEF replicationComplete, TypeInv, TypeOK, Places, SlotPlaces
    <2>2. QED
      BY <1>9, <2>1
         DEF replicationComplete, slots, document, requests, TypeInv, TypeOK, HasLatest
  <1>10. CASE commitComplete(o)
    <2>1. pc' \in [Ops -> Places]
      BY <1>10 DEF commitComplete, TypeInv, TypeOK, Places, SlotPlaces
    <2>2. QED
      BY <1>10, <2>1 DEF commitComplete, slots, document, requests, TypeInv, TypeOK, HasLatest
  <1>11. CASE replicationFailure(o)
    BY <1>11, FailRequestType
       DEF replicationFailure, SlotsType, document, requests, TypeInv, TypeOK, HasLatest
  <1>12. CASE processCompletionStageIndexing(o)
    <2>1. linked[o] \in Docs
      BY DEF TypeInv, TypeOK
    <2>2. cached' \in Docs /\ previous' \in [Ops -> Docs]
      BY <1>12, <2>1, CacheType DEF processCompletionStageIndexing, TypeInv, TypeOK
    <2>3. SlotsType' /\ pc' \in [Ops -> Places]
      BY <1>12, ProcessPendingType, PlaceMembers DEF processCompletionStageIndexing
    <2>4. outcome' \in [Ops -> Outcomes]
      BY <1>12, OutcomeMembers DEF processCompletionStageIndexing, TypeInv, TypeOK
    <2>5. QED
      BY <1>12, <2>2, <2>3, <2>4
         DEF processCompletionStageIndexing, SlotsType, TypeInv, TypeOK, HasLatest
  <1>13. CASE indexComplete(o)
    <2>1. linked[o] \in Docs
      BY DEF TypeInv, TypeOK
    <2>2. index' \in SUBSET Docs /\ HasLatest'
      BY <1>13, <2>1, IndexGrows DEF indexComplete
    <2>3. pc' \in [Ops -> Places] /\ outcome' \in [Ops -> Outcomes]
      BY <1>13, CompleteType, OutcomeMembers DEF indexComplete
    <2>4. QED
      BY <1>13, <2>2, <2>3 DEF indexComplete, slots, requests, TypeInv, TypeOK
  <1>14. CASE indexFailure(o)
    <2>1. previous[o] \in Docs
      BY DEF TypeInv, TypeOK
    <2>2. cached' \in Docs
      BY <1>14, <2>1, CacheType DEF indexFailure
    <2>3. QED
      BY <1>14, <2>2, FailRequestType
         DEF indexFailure, SlotsType, requests, TypeInv, TypeOK, HasLatest
  <1>15. QED
    BY <1>1, <1>2, <1>3, <1>4, <1>5, <1>6, <1>7, <1>8, <1>9, <1>10, <1>11, <1>12, <1>13, <1>14
       DEF Process

(* Synchronization.                                                        *)
LEMMA AdoptType ==
    ASSUME TypeInv, NEW o \in Ops, NEW a \in PeerAnswers(o), AdoptPeerState(o, a)
    PROVE  /\ isOwner' \in BOOLEAN /\ version' \in Nat /\ linked' \in [Ops -> Docs]
           /\ [linked[o] EXCEPT !.version = a.version] \in Docs
  <1>1. linked[o] \in Docs /\ linked[o].version \in Int
    BY DEF TypeInv, TypeOK, Docs
  <1>2. a.version \in Int /\ a.owner \in BOOLEAN
    BY <1>1, ConstantsAssumption DEF PeerAnswers, TypeInv, TypeOK
  <1>3. [linked[o] EXCEPT !.version = a.version] \in Docs
    BY <1>1, <1>2 DEF Docs
  <1>4. linked' \in [Ops -> Docs]
    BY <1>3 DEF AdoptPeerState, TypeInv, TypeOK
  <1>5. version' \in Nat
    BY <1>2 DEF AdoptPeerState, TypeInv, TypeOK
  <1>6. isOwner' \in BOOLEAN
    BY <1>2 DEF AdoptPeerState
  <1>7. QED
    BY <1>3, <1>4, <1>5, <1>6

LEMMA TypeSynchronize ==
    ASSUME TypeInv, NEW o \in Ops, Synchronize(o)
    PROVE  TypeInv'
  <1>1. CASE synchronizeWithPeers(o)
    <2>1. PICK a \in PeerAnswers(o) :
            /\ AdoptPeerState(o, a)
            /\ IF IsStateUpdated(a)
               THEN pc' = [pc EXCEPT ![o] = "saving"] /\ UNCHANGED <<slots, outcome>>
               ELSE /\ processPending(o, "done")
                    /\ outcome' = [outcome EXCEPT ![o] = "notModified"]
      BY <1>1 DEF synchronizeWithPeers
    <2>2. isOwner' \in BOOLEAN /\ version' \in Nat /\ linked' \in [Ops -> Docs]
      BY <2>1, AdoptType
    <2>3. SlotsType' /\ pc' \in [Ops -> Places] /\ outcome' \in [Ops -> Outcomes]
      <3>1. CASE IsStateUpdated(a)
        BY <2>1, <3>1, PlaceMembers DEF slots, SlotsType, SlotPlaces, TypeInv, TypeOK
      <3>2. CASE ~IsStateUpdated(a)
        BY <2>1, <3>2, ProcessPendingType, PlaceMembers, OutcomeMembers DEF TypeInv, TypeOK
      <3>3. QED
        BY <3>1, <3>2
    <2>4. QED
      BY <1>1, <2>2, <2>3 DEF synchronizeWithPeers, SlotsType, TypeInv, TypeOK, HasLatest
  <1>2. CASE handleSynchFailure(o)
    BY <1>2, FailRequestType
       DEF handleSynchFailure, SlotsType, document, requests, TypeInv, TypeOK, HasLatest
  <1>3. CASE synchMarkedDeleted(o)
    <2>1. SlotsType' /\ pc' \in [Ops -> Places] /\ outcome' \in [Ops -> Outcomes]
      <3>1. CASE failRequest(o)
        BY <3>1, FailRequestType
      <3>2. CASE pc' = [pc EXCEPT ![o] = "synchStopping"] /\ UNCHANGED <<slots, outcome>>
        BY <3>2, PlaceMembers DEF slots, SlotsType, SlotPlaces, TypeInv, TypeOK
      <3>3. QED
        BY <1>3, <3>1, <3>2 DEF synchMarkedDeleted
    <2>2. QED
      BY <1>3, <2>1
         DEF synchMarkedDeleted, SlotsType, document, requests, TypeInv, TypeOK, HasLatest
  <1>4. CASE synchStopAndCancel(o)
    <2>1. cancelPendingRequests(o, "done", "fail", RetryOutcome) /\ stopService
      BY <1>4 DEF synchStopAndCancel
    <2>2. /\ operationQueue' \in Queue(Ops) /\ synchQueue' \in Queue(Ops)
          /\ pc' \in [Ops -> Places] /\ outcome' \in [Ops -> Outcomes]
      BY <2>1, CancelType, PlaceMembers, OutcomeMembers
    <2>3. cached' \in Docs /\ stage' \in {"AVAILABLE", "STOPPED"}
      BY <2>1, StopServiceType
    <2>4. isUpdateActive' \in BOOLEAN
      BY <1>4 DEF synchStopAndCancel
    <2>5. QED
      BY <1>4, <2>2, <2>3, <2>4 DEF synchStopAndCancel, requests, TypeInv, TypeOK, HasLatest
  <1>5. CASE synchWithPeersAndReProcess(o)
    <2>1. PICK a \in PeerAnswers(o) :
            /\ AdoptPeerState(o, a)
            /\ IF IsStateUpdated(a)
               THEN /\ previous' = [previous EXCEPT ![o] = cached]
                    /\ updateCachedServiceState([linked[o] EXCEPT !.version = a.version])
                    /\ processPending(o, IF Persistence THEN "reindexing" ELSE "scheduled")
               ELSE processPending(o, "scheduled") /\ UNCHANGED <<previous, cached>>
      BY <1>5 DEF synchWithPeersAndReProcess
    <2>2. /\ isOwner' \in BOOLEAN /\ version' \in Nat /\ linked' \in [Ops -> Docs]
          /\ [linked[o] EXCEPT !.version = a.version] \in Docs
      BY <2>1, AdoptType
    <2>3. SlotsType' /\ pc' \in [Ops -> Places]
      BY <2>1, ProcessPendingType, PlaceMembers DEF SlotPlaces
    <2>4. cached' \in Docs /\ previous' \in [Ops -> Docs]
      <3>1. CASE IsStateUpdated(a)
        BY <2>1, <2>2, <3>1, CacheType DEF TypeInv, TypeOK
      <3>2. CASE ~IsStateUpdated(a)
        BY <2>1, <3>2 DEF TypeInv, TypeOK
      <3>3. QED
        BY <3>1, <3>2
    <2>5. QED
      BY <1>5, <2>2, <2>3, <2>4
         DEF synchWithPeersAndReProcess, SlotsType, TypeInv, TypeOK, HasLatest
  <1>6. CASE reprocessAfterIndexing(o)
    <2>1. linked[o] \in Docs
      BY DEF TypeInv, TypeOK
    <2>2. index' \in SUBSET Docs /\ HasLatest'
      BY <1>6, <2>1, IndexGrows DEF reprocessAfterIndexing
    <2>3. pc' \in [Ops -> Places]
      BY <1>6, PlaceMembers DEF reprocessAfterIndexing, TypeInv, TypeOK, SlotPlaces
    <2>4. QED
      BY <1>6, <2>2, <2>3 DEF reprocessAfterIndexing, slots, requests, TypeInv, TypeOK
  <1>7. CASE reprocessIndexFailure(o)
    <2>1. previous[o] \in Docs
      BY DEF TypeInv, TypeOK
    <2>2. cached' \in Docs
      BY <1>7, <2>1, CacheType DEF reprocessIndexFailure
    <2>3. QED
      BY <1>7, <2>2, FailRequestType
         DEF reprocessIndexFailure, SlotsType, requests, TypeInv, TypeOK, HasLatest
  <1>8. QED
    BY <1>1, <1>2, <1>3, <1>4, <1>5, <1>6, <1>7 DEF Synchronize

(* Stopping.                                                               *)
LEMMA TypeStop ==
    ASSUME TypeInv, NEW o \in Ops, Stop(o)
    PROVE  TypeInv'
  <1>1. CASE handleStop(o) \/ handleStopFailure(o)
    <2>1. SlotsType' /\ pc' \in [Ops -> Places]
      BY <1>1, ProcessPendingType, PlaceMembers DEF handleStop, handleStopFailure
    <2>2. QED
      BY <1>1, <2>1
         DEF handleStop, handleStopFailure, SlotsType, document, requests, TypeInv, TypeOK,
             HasLatest
  <1>2. CASE handleStopCompletion(o)
    <2>1. pc' \in [Ops -> Places] /\ outcome' \in [Ops -> Outcomes]
      BY <1>2, CompleteType, OutcomeMembers, PlaceMembers
         DEF handleStopCompletion, TypeInv, TypeOK
    <2>2. QED
      BY <1>2, <2>1
         DEF handleStopCompletion, slots, document, requests, TypeInv, TypeOK, HasLatest
  <1>3. CASE stopAndCancel(o)
    <2>1. cancelPendingRequests(o, "done", "ok", RetryOutcome) /\ stopService
      BY <1>3 DEF stopAndCancel
    <2>2. /\ operationQueue' \in Queue(Ops) /\ synchQueue' \in Queue(Ops)
          /\ pc' \in [Ops -> Places] /\ outcome' \in [Ops -> Outcomes]
      BY <2>1, CancelType, PlaceMembers, OutcomeMembers
    <2>3. cached' \in Docs /\ stage' \in {"AVAILABLE", "STOPPED"}
      BY <2>1, StopServiceType
    <2>4. QED
      BY <1>3, <2>2, <2>3 DEF stopAndCancel, requests, TypeInv, TypeOK, HasLatest
  <1>4. QED
    BY <1>1, <1>2, <1>3 DEF Stop

(* No step but loadServiceState sends a request to the index.              *)
LEMMA LoadsPersistedStep ==
    ASSUME TypeInv, LoadsPersisted, [Next]_vars
    PROVE  LoadsPersisted'
  <1>1. ASSUME NEW o \in Ops, NEW next \in Places \ {"loading"}, processPending(o, next)
        PROVE  LoadsPersisted'
    BY <1>1 DEF processPending, LoadsPersisted, TypeInv, TypeOK
  <1>2. ASSUME NEW o \in Ops, failRequest(o)
        PROVE  LoadsPersisted'
    BY <1>1, <1>2, PlaceMembers DEF failRequest
  <1>3. ASSUME NEW o \in Ops, NEW next \in Places \ {"loading"}, NEW mine, NEW result,
               cancelPendingRequests(o, next, mine, result)
        PROVE  LoadsPersisted'
    BY <1>3 DEF cancelPendingRequests, LoadsPersisted, TypeInv, TypeOK
  <1>4. ASSUME NEW o \in Ops, NEW next \in Places \ {"loading"}, pc' = [pc EXCEPT ![o] = next]
        PROVE  LoadsPersisted'
    BY <1>4 DEF LoadsPersisted, TypeInv, TypeOK
  <1>5. /\ \A o \in Ops : PlaceAfterLoad(o) # "loading"
        /\ PlaceAfterHandler # "loading"
    BY DEF PlaceAfterLoad, PlaceAfterHandler
  <1>6. ASSUME NEW o \in Ops, Submit(o) \/ Admit(o)
        PROVE  LoadsPersisted'
    BY <1>4, <1>6, PlaceMembers
       DEF Submit, Admit, checkServiceStopped, queueConcurrentGet, queueGetRequestInternal,
           queueUpdateRequestInternal, EnqueueOrFail, queueSynchRequest, Complete, SlotPlaces,
           Places
  <1>7. ASSUME NEW o \in Ops, Process(o)
        PROVE  LoadsPersisted'
    <2>1. CASE loadServiceState(o)
      BY <2>1, <1>5 DEF loadServiceState, LoadsPersisted, TypeInv, TypeOK
    <2>2. CASE handleRequest(o) \/ loadFromIndex(o) \/ handleUpdate(o) \/ replicationComplete(o)
               \/ commitComplete(o) \/ indexComplete(o)
      BY <2>2, <1>4, <1>5, PlaceMembers
         DEF handleRequest, loadFromIndex, handleUpdate, replicationComplete, commitComplete,
             indexComplete, Complete, SlotPlaces
    <2>3. CASE handleGet(o) \/ handlerFailure(o) \/ stateNotModified(o) \/ replicationFailure(o)
               \/ processCompletionStageIndexing(o) \/ indexFailure(o)
      BY <2>3, <1>1, <1>2, <1>4, PlaceMembers
         DEF handleGet, handlerFailure, stateNotModified, replicationFailure,
             processCompletionStageIndexing, indexFailure, Complete
    <2>4. CASE handleDelete(o)
      BY <2>4, <1>3, <1>4, <1>5, PlaceMembers DEF handleDelete, Complete
    <2>5. QED
      BY <1>7, <2>1, <2>2, <2>3, <2>4 DEF Process
  <1>8. ASSUME NEW o \in Ops, Synchronize(o)
        PROVE  LoadsPersisted'
    BY <1>1, <1>2, <1>3, <1>4, <1>8, PlaceMembers
       DEF Synchronize, synchronizeWithPeers, handleSynchFailure, synchMarkedDeleted,
           synchStopAndCancel, synchWithPeersAndReProcess, reprocessAfterIndexing,
           reprocessIndexFailure, SlotPlaces
  <1>9. ASSUME NEW o \in Ops, Stop(o)
        PROVE  LoadsPersisted'
    BY <1>1, <1>3, <1>4, <1>9, PlaceMembers
       DEF Stop, handleStop, handleStopFailure, handleStopCompletion, stopAndCancel, Complete
  <1>10. CASE loseOwnership \/ Quiescent \/ UNCHANGED vars
    BY <1>10 DEF loseOwnership, Quiescent, vars, LoadsPersisted
  <1>11. QED
    BY <1>6, <1>7, <1>8, <1>9, <1>10 DEF Next

LEMMA TypeStep ==
    ASSUME TypeInv, LoadsPersisted, [Next]_vars
    PROVE  TypeInv'
  <1>1. CASE loseOwnership
    <2>1. isOwner' \in BOOLEAN
      BY <1>1 DEF loseOwnership
    <2>2. UNCHANGED <<isUpdateActive, getActiveCount, operationQueue, synchQueue>>
      BY <1>1 DEF loseOwnership, slots
    <2>3. UNCHANGED <<action, linked, previous, acked>>
      BY <1>1 DEF loseOwnership, requests
    <2>4. UNCHANGED <<stage, version, cached, index, pc, outcome>>
      BY <1>1 DEF loseOwnership
    <2>5. QED
      BY <2>1, <2>2, <2>3, <2>4 DEF TypeInv, TypeOK, HasLatest
  <1>2. CASE Quiescent \/ UNCHANGED vars
    <2>1. UNCHANGED <<stage, slots, document, requests, pc, outcome>>
      BY <1>2 DEF Quiescent, vars
    <2>2. UNCHANGED <<isUpdateActive, getActiveCount, operationQueue, synchQueue>>
      BY <2>1 DEF slots
    <2>3. UNCHANGED <<action, linked, previous, acked>>
      BY <2>1 DEF requests
    <2>4. UNCHANGED <<version, isOwner, cached, index>>
      BY <2>1 DEF document
    <2>5. QED
      BY <2>1, <2>2, <2>3, <2>4 DEF TypeInv, TypeOK, HasLatest
  <1>3. QED
    BY <1>1, <1>2, TypeSubmit, TypeAdmit, TypeProcess, TypeSynchronize, TypeStop
       DEF Next

(* Every reachable state of the service has the types of TypeOK, whatever  *)
(* the requests, the options and the failures.                             *)
THEOREM TypeCorrect == Spec => []TypeOK
  <1>1. Init => TypeInv /\ LoadsPersisted
    BY TypeInit DEF Init, LoadsPersisted
  <1>2. TypeInv /\ LoadsPersisted /\ [Next]_vars => (TypeInv /\ LoadsPersisted)'
    BY TypeStep, LoadsPersistedStep
  <1>3. QED
    BY <1>1, <1>2, PTL DEF Spec, TypeInv

-----------------------------------------------------------------------------
(* The effects of a step on slots, pc and stage.                           *)

(* Only updates synchronize, replicate and are saved.                      *)
UpdatePlaces == {"synchronizing", "reprocessing", "reindexing", "synchStopping",
                 "replicating", "committing", "saving", "indexing"}

KeepsKind(o, next) == next \in UpdatePlaces => action[o] # "GET" \/ pc[o] \in UpdatePlaces

(* A request moves inside the slot, or outside it; one that synchronized   *)
(* for itself is handled again without having been admitted again.         *)
Moves(o, next) ==
    /\ UNCHANGED <<slots, stage>>
    /\ pc' = [pc EXCEPT ![o] = next]
    /\ \/ pc[o] \in SlotPlaces /\ next \in SlotPlaces
       \/ pc[o] \notin SlotPlaces \cup {"dispatched", "queued"} /\ next \notin SlotPlaces
       \/ pc[o] = "dispatched" /\ next \in SlotPlaces /\ IsConcurrent(o)
       \/ pc[o] = "reindexing" /\ next \in SlotPlaces
    /\ next # "queued"
    /\ KeepsKind(o, next)

(* A stopped instance sends a request away and keeps its slot.             *)
SendsAway(o) ==
    /\ UNCHANGED <<slots, stage>>
    /\ stage = "STOPPED"
    /\ pc' = [pc EXCEPT ![o] = "done"]
    /\ pc[o] \in SlotPlaces \cup {"dispatched"}

(* A request gives up its slot, and the next pending one is dispatched.    *)
Releases(o, next) ==
    /\ UNCHANGED stage
    /\ processPending(o, next)
    /\ KeepsKind(o, next)
    /\ \/ pc[o] \in SlotPlaces /\ next \notin SlotPlaces \cup {"dispatched", "queued"}
       \/ pc[o] \in {"indexing", "reindexing"} /\ next = "done" /\ IndexCanFail
       \/ pc[o] = "reprocessing" /\ next \in {"scheduled", "reindexing"}

Admits(o) ==
    /\ pc[o] = "dispatched" /\ stage = "AVAILABLE" /\ ~IsConcurrent(o)
    /\ pc' = [pc EXCEPT ![o] = "scheduled"]
    /\ UNCHANGED <<stage, operationQueue, synchQueue>>
    /\ \/ /\ action[o] = "GET" /\ ~isUpdateActive
          /\ getActiveCount' = getActiveCount + 1 /\ UNCHANGED isUpdateActive
       \/ /\ action[o] # "GET" /\ ~MustWait
          /\ isUpdateActive' = TRUE /\ UNCHANGED getActiveCount

(* A request that must wait enters a queue, or fails because it is full.   *)
Waits(o) ==
    /\ pc[o] = "dispatched" /\ stage = "AVAILABLE" /\ ~IsConcurrent(o) /\ MustWait
    /\ UNCHANGED <<stage, isUpdateActive, getActiveCount>>
    /\ \/ /\ operationQueue' = offer(operationQueue, o) /\ UNCHANGED synchQueue
          /\ pc' = [pc EXCEPT ![o] = "queued"]
       \/ /\ synchQueue' = offer(IF synchQueue = NoQueue THEN createFifo(SynchQueueLimit)
                                 ELSE synchQueue, o)
          /\ UNCHANGED operationQueue
          /\ pc' = [pc EXCEPT ![o] = "queued"]
       \/ /\ synchQueue' = (IF synchQueue = NoQueue THEN createFifo(SynchQueueLimit)
                            ELSE synchQueue) \/ UNCHANGED synchQueue
          /\ UNCHANGED operationQueue
          /\ pc' = [pc EXCEPT ![o] = "done"]

(* The instance stops and the queues are drained.                          *)
Stops(o, next) ==
    /\ stage' = "STOPPED"
    /\ next \notin {"queued", "dispatched"} /\ KeepsKind(o, next)
    /\ \E mine, result \in Outcomes : cancelPendingRequests(o, next, mine, result)
    /\ UNCHANGED getActiveCount
    /\ \/ UNCHANGED isUpdateActive
       \/ pc[o] = "synchStopping" /\ next = "done" /\ isUpdateActive' = FALSE
    /\ \/ pc[o] \in SlotPlaces
       \/ pc[o] = "stopping" /\ next = "done"

Effect(o) ==
    \/ SendsAway(o) \/ Admits(o) \/ Waits(o)
    \/ \E next \in Places : Moves(o, next) \/ Releases(o, next) \/ Stops(o, next)

NoEffect == UNCHANGED <<slots, stage, pc>>

LEMMA SubmitEffect ==
    ASSUME TypeInv, NEW o \in Ops, Submit(o)
    PROVE  Effect(o)
  <1>1. "dispatched" \in Places
    BY DEF Places
  <1>2. Moves(o, "dispatched")
    BY DEF Submit, Moves, SlotPlaces, UpdatePlaces, KeepsKind
  <1>3. QED
    BY <1>1, <1>2 DEF Effect

LEMMA AdmitEffect ==
    ASSUME TypeInv, NEW o \in Ops, Admit(o)
    PROVE  Effect(o)
  <1>1. CASE checkServiceStopped(o)
    BY <1>1 DEF checkServiceStopped, Complete, SendsAway, Effect
  <1>2. CASE queueConcurrentGet(o)
    <2>1. Moves(o, "scheduled")
      BY <1>2 DEF queueConcurrentGet, Moves, SlotPlaces, UpdatePlaces, KeepsKind
    <2>2. QED
      BY <2>1, PlaceMembers DEF Effect, SlotPlaces
  <1>3. CASE queueGetRequestInternal(o)
    <2>1. CASE isUpdateActive
      BY <1>3, <2>1 DEF queueGetRequestInternal, EnqueueOrFail, Complete, Waits, MustWait, Effect
    <2>2. CASE ~isUpdateActive
      BY <1>3, <2>2 DEF queueGetRequestInternal, Admits, Effect
    <2>3. QED
      BY <2>1, <2>2
  <1>4. CASE queueUpdateRequestInternal(o)
    <2>1. ~IsConcurrent(o)
      BY <1>4 DEF queueUpdateRequestInternal, IsConcurrent
    <2>2. CASE MustWait /\ action[o] = "SYNCH"
      BY <1>4, <2>1, <2>2
         DEF queueUpdateRequestInternal, queueSynchRequest, Complete, Waits, Effect
    <2>3. CASE MustWait /\ action[o] # "SYNCH"
      BY <1>4, <2>1, <2>3 DEF queueUpdateRequestInternal, EnqueueOrFail, Complete, Waits, Effect
    <2>4. CASE ~MustWait
      BY <1>4, <2>1, <2>4 DEF queueUpdateRequestInternal, Admits, Effect
    <2>5. QED
      BY <2>2, <2>3, <2>4
  <1>5. QED
    BY <1>1, <1>2, <1>3, <1>4 DEF Admit

LEMMA FailEffect ==
    ASSUME TypeInv, NEW o \in Ops, failRequest(o), UNCHANGED stage,
           pc[o] \in SlotPlaces \/ (pc[o] \in {"indexing", "reindexing"} /\ IndexCanFail)
    PROVE  Effect(o)
  <1>1. Releases(o, "done")
    BY DEF failRequest, Releases, SlotPlaces, UpdatePlaces, KeepsKind
  <1>2. QED
    BY <1>1, PlaceMembers DEF Effect

LEMMA ProcessEffect ==
    ASSUME TypeInv, NEW o \in Ops, Process(o)
    PROVE  Effect(o)
  <1>1. CASE handleRequest(o)
    <2>1. CASE SendsAway(o)
      BY <2>1 DEF Effect
    <2>2. CASE Moves(o, "stopHandler") \/ Moves(o, "linking")
      BY <2>2, PlaceMembers DEF Effect, SlotPlaces
    <2>3. QED
      BY <1>1, <2>1, <2>2 DEF handleRequest, Complete, SendsAway, Moves, SlotPlaces, UpdatePlaces, KeepsKind
  <1>2. CASE loadServiceState(o) \/ loadFromIndex(o)
    <2>1. /\ PlaceAfterLoad(o) \in SlotPlaces
          /\ PlaceAfterLoad(o) \in UpdatePlaces => action[o] # "GET"
      BY DEF PlaceAfterLoad, SlotPlaces, UpdatePlaces
    <2>2. CASE Moves(o, "loading") \/ Moves(o, PlaceAfterLoad(o))
      BY <2>2, PlaceMembers DEF Effect, SlotPlaces
    <2>3. QED
      BY <1>2, <2>1, <2>2 DEF loadServiceState, loadFromIndex, Moves, SlotPlaces, UpdatePlaces, KeepsKind
  <1>3. CASE handleGet(o)
    <2>1. CASE SendsAway(o)
      BY <2>1 DEF Effect
    <2>2. CASE Releases(o, "done")
      BY <2>2, PlaceMembers DEF Effect
    <2>3. QED
      BY <1>3, <2>1, <2>2 DEF handleGet, Complete, SendsAway, Releases, SlotPlaces, UpdatePlaces, KeepsKind
  <1>4. CASE handlerFailure(o)
    BY <1>4, FailEffect DEF handlerFailure, SlotPlaces
  <1>5. CASE stateNotModified(o)
    <2>1. Releases(o, "done")
      BY <1>5 DEF stateNotModified, Releases, SlotPlaces, UpdatePlaces, KeepsKind
    <2>2. QED
      BY <2>1, PlaceMembers DEF Effect
  <1>6. CASE handleUpdate(o)
    <2>1. PlaceAfterHandler \in SlotPlaces
      BY DEF PlaceAfterHandler, SlotPlaces
    <2>2. Moves(o, PlaceAfterHandler)
      BY <1>6, <2>1 DEF handleUpdate, Moves, SlotPlaces, UpdatePlaces, KeepsKind
    <2>3. QED
      BY <2>2, PlaceMembers DEF Effect
  <1>7. CASE handleDelete(o)
    <2>1. CASE stage = "STOPPED"
      BY <1>7, <2>1 DEF handleDelete, Complete, SendsAway, SlotPlaces, Effect
    <2>2. CASE stage # "STOPPED"
      <3>1. Stops(o, PlaceAfterHandler)
        BY <1>7, <2>2, OutcomeMembers
           DEF handleDelete, stopService, Stops, SlotPlaces, UpdatePlaces, KeepsKind, PlaceAfterHandler
      <3>2. QED
        BY <3>1, PlaceMembers DEF Effect
    <2>3. QED
      BY <2>1, <2>2
  <1>8. CASE replicationComplete(o) \/ commitComplete(o)
    <2>1. CASE Moves(o, "saving") \/ Moves(o, "committing")
      BY <2>1, PlaceMembers DEF Effect, SlotPlaces
    <2>2. QED
      BY <1>8, <2>1 DEF replicationComplete, commitComplete, Moves, SlotPlaces, UpdatePlaces, KeepsKind
  <1>9. CASE replicationFailure(o)
    BY <1>9, FailEffect DEF replicationFailure, SlotPlaces
  <1>10. CASE processCompletionStageIndexing(o)
    <2>1. CASE Releases(o, "indexing") \/ Releases(o, "done")
      BY <2>1, PlaceMembers DEF Effect
    <2>2. QED
      BY <1>10, <2>1 DEF processCompletionStageIndexing, Releases, SlotPlaces, UpdatePlaces, KeepsKind
  <1>11. CASE indexComplete(o)
    <2>1. Moves(o, "done")
      BY <1>11 DEF indexComplete, Complete, Moves, SlotPlaces, UpdatePlaces, KeepsKind
    <2>2. QED
      BY <2>1, PlaceMembers DEF Effect
  <1>12. CASE indexFailure(o)
    BY <1>12, FailEffect DEF indexFailure
  <1>13. QED
    BY <1>1, <1>2, <1>3, <1>4, <1>5, <1>6, <1>7, <1>8, <1>9, <1>10, <1>11, <1>12 DEF Process

LEMMA SynchronizeEffect ==
    ASSUME TypeInv, NEW o \in Ops, Synchronize(o)
    PROVE  Effect(o)
  <1>1. CASE synchronizeWithPeers(o)
    <2>1. CASE Moves(o, "saving") \/ Releases(o, "done")
      BY <2>1, PlaceMembers DEF Effect, SlotPlaces
    <2>2. QED
      BY <1>1, <2>1 DEF synchronizeWithPeers, Moves, Releases, SlotPlaces, UpdatePlaces, KeepsKind
  <1>2. CASE handleSynchFailure(o)
    BY <1>2, FailEffect DEF handleSynchFailure, SlotPlaces
  <1>3. CASE synchMarkedDeleted(o)
    <2>1. CASE failRequest(o)
      BY <1>3, <2>1, FailEffect DEF synchMarkedDeleted, SlotPlaces
    <2>2. CASE Moves(o, "synchStopping")
      BY <2>2, PlaceMembers DEF Effect, SlotPlaces
    <2>3. QED
      BY <1>3, <2>1, <2>2 DEF synchMarkedDeleted, Moves, SlotPlaces, UpdatePlaces, KeepsKind
  <1>4. CASE synchStopAndCancel(o)
    <2>1. Stops(o, "done")
      BY <1>4, OutcomeMembers DEF synchStopAndCancel, stopService, Stops, SlotPlaces, UpdatePlaces, KeepsKind
    <2>2. QED
      BY <2>1, PlaceMembers DEF Effect
  <1>5. CASE synchWithPeersAndReProcess(o)
    <2>1. CASE Releases(o, "reindexing") \/ Releases(o, "scheduled")
      BY <2>1, PlaceMembers DEF Effect, SlotPlaces
    <2>2. QED
      BY <1>5, <2>1 DEF synchWithPeersAndReProcess, Releases, UpdatePlaces, KeepsKind
  <1>6. CASE reprocessAfterIndexing(o)
    <2>1. Moves(o, "scheduled")
      BY <1>6 DEF reprocessAfterIndexing, Moves, SlotPlaces, UpdatePlaces, KeepsKind
    <2>2. QED
      BY <2>1, PlaceMembers DEF Effect, SlotPlaces
  <1>7. CASE reprocessIndexFailure(o)
    BY <1>7, FailEffect DEF reprocessIndexFailure
  <1>8. QED
    BY <1>1, <1>2, <1>3, <1>4, <1>5, <1>6, <1>7 DEF Synchronize

LEMMA StopEffect ==
    ASSUME TypeInv, NEW o \in Ops, Stop(o)
    PROVE  Effect(o)
  <1>1. CASE handleStop(o) \/ handleStopFailure(o)
    <2>1. CASE Releases(o, "stopCheck") \/ Releases(o, "abandoned")
      BY <2>1, PlaceMembers DEF Effect
    <2>2. QED
      BY <1>1, <2>1 DEF handleStop, handleStopFailure, Releases, SlotPlaces, UpdatePlaces, KeepsKind
  <1>2. CASE handleStopCompletion(o)
    <2>1. CASE Moves(o, "done") \/ Moves(o, "stopping")
      BY <2>1, PlaceMembers DEF Effect
    <2>2. QED
      BY <1>2, <2>1 DEF handleStopCompletion, Complete, Moves, SlotPlaces, UpdatePlaces, KeepsKind
  <1>3. CASE stopAndCancel(o)
    <2>1. Stops(o, "done")
      BY <1>3, OutcomeMembers DEF stopAndCancel, stopService, Stops, UpdatePlaces, KeepsKind
    <2>2. QED
      BY <2>1, PlaceMembers DEF Effect
  <1>4. QED
    BY <1>1, <1>2, <1>3 DEF Stop

(* Every step has one of the effects, and no request changes its action.   *)
LEMMA StepEffect ==
    ASSUME TypeInv, [Next]_vars
    PROVE  /\ NoEffect \/ \E o \in Ops : Effect(o)
           /\ UNCHANGED action
  <1>1. NoEffect \/ \E o \in Ops : Effect(o)
    <2>1. CASE loseOwnership \/ Quiescent \/ UNCHANGED vars
      BY <2>1 DEF loseOwnership, Quiescent, vars, NoEffect
    <2>2. QED
      BY <2>1, SubmitEffect, AdmitEffect, ProcessEffect, SynchronizeEffect, StopEffect DEF Next
  <1>2. UNCHANGED action
    BY DEF Next, Submit, Admit, Process, Synchronize, Stop, loseOwnership, Quiescent, vars,
           requests, checkServiceStopped, queueConcurrentGet, queueGetRequestInternal,
           queueUpdateRequestInternal, handleRequest, loadServiceState, loadFromIndex,
           handleGet, handlerFailure, stateNotModified, handleUpdate, handleDelete,
           replicationComplete, commitComplete, replicationFailure,
           processCompletionStageIndexing, indexComplete, indexFailure,
           synchronizeWithPeers, handleSynchFailure, synchMarkedDeleted, synchStopAndCancel,
           synchWithPeersAndReProcess, reprocessAfterIndexing, reprocessIndexFailure,
           handleStop, handleStopFailure, handleStopCompletion, stopAndCancel
  <1>3. QED
    BY <1>1, <1>2

-----------------------------------------------------------------------------
(* The elements of a queue without duplicates.                             *)

Distinct(q) == \A i, j \in 1..Len(q.store) : q.store[i] = q.store[j] => i = j

LEMMA OfferElements ==
    ASSUME NEW q \in Queue(Ops), NEW o \in Ops, Distinct(q), o \notin toCollection(q)
    PROVE  /\ Distinct(offer(q, o))
           /\ toCollection(offer(q, o)) = toCollection(q) \cup {o}
  <1> DEFINE s == q.store
  <1>1. s \in Seq(Ops) /\ Len(s) \in Nat
    BY DEF Queue
  <1>2. \A i \in 1..Len(s) : s[i] # o
    BY DEF toCollection
  <1>3. CASE q.limit < 0
    <2> DEFINE t == <<o>> \o s
    <2>1. offer(q, o).store = t
      BY <1>3 DEF offer, Queue
    <2>2. /\ Len(t) = Len(s) + 1 /\ t[1] = o
          /\ \A i \in 2..Len(t) : t[i] = s[i - 1] /\ i - 1 \in 1..Len(s)
      BY <1>1
    <2> HIDE DEF t
    <2>3. ASSUME NEW i \in 1..Len(t), NEW j \in 1..Len(t), t[i] = t[j] PROVE i = j
      <3>1. CASE i = 1
        BY <1>1, <1>2, <2>2, <2>3, <3>1
      <3>2. CASE j = 1
        BY <1>1, <1>2, <2>2, <2>3, <3>2
      <3>3. CASE i # 1 /\ j # 1
        <4>1. i \in 2..Len(t) /\ j \in 2..Len(t)
          BY <1>1, <2>2, <3>3
        <4>2. s[i - 1] = s[j - 1] /\ i - 1 \in 1..Len(s) /\ j - 1 \in 1..Len(s)
          BY <2>2, <2>3, <4>1
        <4>3. i - 1 = j - 1
          BY <4>2 DEF Distinct
        <4>4. QED
          BY <4>1, <4>3
      <3>4. QED
        BY <3>1, <3>2, <3>3
    <2>4. {t[i] : i \in 1..Len(t)} = {s[i] : i \in 1..Len(s)} \cup {o}
      <3>1. ASSUME NEW i \in 1..Len(t) PROVE t[i] \in {s[k] : k \in 1..Len(s)} \cup {o}
        BY <1>1, <2>2
      <3>2. ASSUME NEW i \in 1..Len(s) PROVE \E k \in 1..Len(t) : s[i] = t[k]
        <4>1. i + 1 \in 2..Len(t) /\ (i + 1) - 1 = i /\ i + 1 \in 1..Len(t)
          BY <1>1, <2>2
        <4>2. QED
          BY <2>2, <4>1
      <3>3. \E k \in 1..Len(t) : o = t[k]
        BY <1>1, <2>2
      <3>4. QED
        BY <3>1, <3>2, <3>3
    <2>5. Distinct(offer(q, o))
      BY <2>1, <2>3 DEF Distinct
    <2>6. toCollection(offer(q, o)) = toCollection(q) \cup {o}
      BY <2>1, <2>4 DEF toCollection
    <2>7. QED
      BY <2>5, <2>6
  <1>4. CASE ~(q.limit < 0)
    <2> DEFINE t == Append(s, o)
    <2>1. offer(q, o).store = t
      BY <1>4 DEF offer, Queue
    <2>2. /\ Len(t) = Len(s) + 1 /\ t[Len(s) + 1] = o
          /\ \A i \in 1..Len(s) : t[i] = s[i]
      BY <1>1
    <2> HIDE DEF t
    <2>3. \A i, j \in 1..Len(t) : t[i] = t[j] => i = j
      BY <1>1, <1>2, <2>2 DEF Distinct
    <2>4. {t[i] : i \in 1..Len(t)} = {s[i] : i \in 1..Len(s)} \cup {o}
      BY <1>1, <2>2
    <2>5. Distinct(offer(q, o))
      BY <2>1, <2>3 DEF Distinct
    <2>6. toCollection(offer(q, o)) = toCollection(q) \cup {o}
      BY <2>1, <2>4 DEF toCollection
    <2>7. QED
      BY <2>5, <2>6
  <1>5. QED
    BY <1>3, <1>4

LEMMA PollElements ==
    ASSUME NEW q \in Queue(Ops), Distinct(q)
    PROVE  /\ Distinct(poll(q))
           /\ isEmpty(q) => toCollection(q) = {} /\ toCollection(poll(q)) = {}
           /\ ~isEmpty(q) => /\ polled(q) \in toCollection(q)
                             /\ toCollection(poll(q)) = toCollection(q) \ {polled(q)}
  <1> DEFINE s == q.store
  <1>1. s \in Seq(Ops) /\ Len(s) \in Nat
    BY DEF Queue
  <1>2. CASE isEmpty(q)
    BY <1>2 DEF isEmpty, poll, toCollection
  <1>3. CASE ~isEmpty(q)
    <2> DEFINE t == Tail(s)
    <2>1. poll(q).store = t
      BY <1>3 DEF poll, Queue
    <2>2. /\ Len(s) >= 1 /\ Len(t) = Len(s) - 1 /\ Head(s) = s[1]
          /\ \A i \in 1..Len(t) : t[i] = s[i + 1]
      BY <1>1, <1>3 DEF isEmpty
    <2> HIDE DEF t
    <2>3. \A i, j \in 1..Len(t) : t[i] = t[j] => i = j
      BY <1>1, <2>2 DEF Distinct
    <2>4. {t[i] : i \in 1..Len(t)} = {s[i] : i \in 1..Len(s)} \ {s[1]}
      <3>1. ASSUME NEW i \in 1..Len(t)
            PROVE  t[i] \in {s[k] : k \in 1..Len(s)} \ {s[1]}
        <4>1. i + 1 \in 1..Len(s) /\ 1 \in 1..Len(s) /\ i + 1 # 1
          BY <1>1, <2>2
        <4>2. QED
          BY <2>2, <4>1 DEF Distinct
      <3>2. ASSUME NEW i \in 1..Len(s), s[i] # s[1]
            PROVE  \E k \in 1..Len(t) : s[i] = t[k]
        <4>1. i - 1 \in 1..Len(t) /\ (i - 1) + 1 = i
          BY <1>1, <2>2, <3>2
        <4>2. QED
          BY <2>2, <4>1
      <3>3. QED
        BY <3>1, <3>2
    <2>5. polled(q) = s[1] /\ s[1] \in toCollection(q)
      BY <1>1, <2>2 DEF polled, toCollection
    <2>6. Distinct(poll(q))
      BY <2>1, <2>3 DEF Distinct
    <2>7. toCollection(poll(q)) = toCollection(q) \ {polled(q)}
      BY <2>1, <2>4, <2>5 DEF toCollection
    <2>8. QED
      BY <1>3, <2>5, <2>6, <2>7
  <1>4. QED
    BY <1>2, <1>3

LEMMA EmptyElements ==
    ASSUME NEW q \in Queue(Ops), isEmpty(q)
    PROVE  Distinct(q) /\ toCollection(q) = {}
  BY DEF isEmpty, Distinct, toCollection

-----------------------------------------------------------------------------
(* A pending request is in one queue, once, and nowhere else.              *)
QueuesOK ==
    /\ Distinct(operationQueue) /\ Distinct(synchQueue)
    /\ toCollection(operationQueue) \cap toCollection(synchQueue) = {}
    /\ \A p \in Pending : p \in Ops /\ pc[p] = "queued" /\ ~IsConcurrent(p)

LEMMA DequeueElements ==
    ASSUME TypeInv, QueuesOK, dequeueRequest
    PROVE  /\ Distinct(operationQueue)' /\ Distinct(synchQueue)'
           /\ toCollection(operationQueue)' \cap toCollection(synchQueue)' = {}
           /\ Pending' = Pending \ Dequeued
           /\ Dequeued \subseteq Pending
           /\ Pending # {} => Dequeued # {}
  <1>1. /\ operationQueue \in Queue(Ops) /\ synchQueue \in Queue(Ops)
        /\ NoQueue \in Queue(Ops) /\ isEmpty(NoQueue)
    BY FifoType DEF TypeInv, TypeOK, NoQueue
  <1>2. Distinct(NoQueue) /\ toCollection(NoQueue) = {}
    BY <1>1, EmptyElements
  <1>3. /\ poll(synchQueue) \in Queue(Ops)
        /\ isEmpty(poll(synchQueue)) => toCollection(poll(synchQueue)) = {}
    BY <1>1, PollType, EmptyElements
  <1>4. Distinct(synchQueue)' /\ toCollection(synchQueue)' = toCollection(poll(synchQueue))
    <2>1. Distinct(poll(synchQueue))
      BY <1>1, PollElements DEF QueuesOK
    <2>2. CASE isEmpty(poll(synchQueue))
      <3>1. synchQueue' = NoQueue
        BY <2>2 DEF dequeueRequest
      <3>2. QED
        BY <1>2, <1>3, <2>2, <3>1 DEF Distinct, toCollection
    <2>3. CASE ~isEmpty(poll(synchQueue))
      <3>1. synchQueue' = poll(synchQueue)
        BY <2>3 DEF dequeueRequest
      <3>2. QED
        BY <2>1, <3>1 DEF Distinct, toCollection
    <2>4. QED
      BY <2>2, <2>3
  <1>5. CASE isEmpty(synchQueue)
    <2>1. operationQueue' = poll(operationQueue)
      BY <1>5 DEF dequeueRequest
    <2>2. Distinct(operationQueue)'
      <3>1. Distinct(poll(operationQueue))
        BY <1>1, PollElements DEF QueuesOK
      <3>2. QED
        BY <2>1, <3>1 DEF Distinct
    <2>3. toCollection(operationQueue)' = toCollection(poll(operationQueue))
      BY <2>1 DEF toCollection
    <2>4. toCollection(synchQueue) = {} /\ toCollection(synchQueue)' = {}
      BY <1>1, <1>4, <1>5, PollElements DEF QueuesOK
    <2>5. CASE isEmpty(operationQueue)
      BY <1>1, <1>4, <1>5, <2>2, <2>3, <2>4, <2>5, PollElements DEF QueuesOK, Pending, Dequeued
    <2>6. CASE ~isEmpty(operationQueue)
      BY <1>1, <1>4, <1>5, <2>2, <2>3, <2>4, <2>6, PollElements DEF QueuesOK, Pending, Dequeued
    <2>7. QED
      BY <2>5, <2>6
  <1>6. CASE ~isEmpty(synchQueue)
    <2>1. operationQueue' = operationQueue
      BY <1>6 DEF dequeueRequest
    <2>2. Distinct(operationQueue)' /\ toCollection(operationQueue)' = toCollection(operationQueue)
      BY <2>1 DEF QueuesOK, Distinct, toCollection
    <2>3. /\ polled(synchQueue) \in toCollection(synchQueue)
          /\ toCollection(poll(synchQueue)) = toCollection(synchQueue) \ {polled(synchQueue)}
      BY <1>1, <1>6, PollElements DEF QueuesOK
    <2>4. QED
      BY <1>4, <1>6, <2>2, <2>3 DEF QueuesOK, Pending, Dequeued
  <1>7. QED
    BY <1>5, <1>6

-----------------------------------------------------------------------------
(* The inductive invariant behind GetsAreCounted and NoStrandedRequest.    *)

UpdatesOnly == \A o \in Ops : pc[o] \in UpdatePlaces => action[o] # "GET"

(* While the instance is available getActiveCount is exact; a stopped one  *)
(* sends requests away without counting them out.                          *)
GetsCounted ==
    /\ IsFiniteSet(ActiveGets)
    /\ Cardinality(ActiveGets) <= getActiveCount
    /\ stage = "AVAILABLE" => Cardinality(ActiveGets) = getActiveCount

SlotHasHolder == stage = "AVAILABLE" /\ isUpdateActive => ActiveUpdates # {}

NothingPendingWhenStopped == stage = "STOPPED" => Pending = {}

WakeInv ==
    /\ TypeInv /\ LoadsPersisted
    /\ QueuesOK /\ UpdatesOnly /\ GetsCounted /\ SlotHasHolder
    /\ NothingPendingWhenStopped /\ NoStrandedRequest

LEMMA SameElements ==
    ASSUME UNCHANGED <<operationQueue, synchQueue>>
    PROVE  /\ Pending' = Pending
           /\ Distinct(operationQueue)' <=> Distinct(operationQueue)
           /\ Distinct(synchQueue)' <=> Distinct(synchQueue)
           /\ toCollection(operationQueue)' = toCollection(operationQueue)
           /\ toCollection(synchQueue)' = toCollection(synchQueue)
  BY DEF Pending, Distinct, toCollection

LEMMA WakeNoEffect ==
    ASSUME WakeInv, NoEffect, UNCHANGED action
    PROVE  (QueuesOK /\ UpdatesOnly /\ GetsCounted /\ SlotHasHolder
            /\ NothingPendingWhenStopped /\ NoStrandedRequest)'
  <1>1. UNCHANGED <<operationQueue, synchQueue, isUpdateActive, getActiveCount, stage, pc>>
    BY DEF NoEffect, slots
  <1>2. Pending' = Pending /\ ActiveGets' = ActiveGets /\ ActiveUpdates' = ActiveUpdates
    BY <1>1, SameElements DEF ActiveGets, ActiveUpdates, IsConcurrent
  <1>3. QueuesOK'
    BY <1>1, <1>2, SameElements DEF WakeInv, QueuesOK, IsConcurrent
  <1>4. UpdatesOnly' /\ GetsCounted' /\ SlotHasHolder' /\ NothingPendingWhenStopped'
    BY <1>1, <1>2
       DEF WakeInv, UpdatesOnly, GetsCounted, SlotHasHolder, NothingPendingWhenStopped
  <1>5. NoStrandedRequest'
    BY <1>1, <1>2 DEF WakeInv, NoStrandedRequest, IsConcurrent
  <1>6. QED
    BY <1>3, <1>4, <1>5

LEMMA WakeMoves ==
    ASSUME WakeInv, NEW o \in Ops, NEW next \in Places, Moves(o, next), UNCHANGED action
    PROVE  (QueuesOK /\ UpdatesOnly /\ GetsCounted /\ SlotHasHolder
            /\ NothingPendingWhenStopped /\ NoStrandedRequest)'
  <1>1. UNCHANGED <<operationQueue, synchQueue, isUpdateActive, getActiveCount, stage>>
    BY DEF Moves, slots
  <1>2. /\ pc \in [Ops -> Places] /\ pc' = [pc EXCEPT ![o] = next]
        /\ pc[o] # "queued" /\ next # "queued"
    BY DEF Moves, WakeInv, TypeInv, TypeOK, SlotPlaces
  <1>3. Pending' = Pending
    BY <1>1, SameElements
  <1>4. QueuesOK'
    BY <1>1, <1>2, <1>3, SameElements DEF WakeInv, QueuesOK, IsConcurrent
  <1>5. UpdatesOnly'
    BY <1>2 DEF WakeInv, UpdatesOnly, Moves, KeepsKind
  <1>6. ActiveGets' = ActiveGets
    <2>1. pc[o] = "reindexing" => action[o] # "GET"
      BY DEF WakeInv, UpdatesOnly, UpdatePlaces
    <2>2. QED
      BY <1>2, <2>1 DEF Moves, ActiveGets, IsConcurrent, SlotPlaces
  <1>7. ActiveUpdates \subseteq ActiveUpdates'
    BY <1>2 DEF Moves, ActiveUpdates, IsConcurrent
  <1>8. GetsCounted' /\ SlotHasHolder' /\ NothingPendingWhenStopped'
    BY <1>1, <1>3, <1>6, <1>7
       DEF WakeInv, GetsCounted, SlotHasHolder, NothingPendingWhenStopped
  <1>9. NoStrandedRequest'
    BY <1>2, <1>3 DEF WakeInv, NoStrandedRequest, Moves, IsConcurrent
  <1>10. QED
    BY <1>4, <1>5, <1>8, <1>9

LEMMA WakeSendsAway ==
    ASSUME WakeInv, NEW o \in Ops, SendsAway(o), UNCHANGED action
    PROVE  (QueuesOK /\ UpdatesOnly /\ GetsCounted /\ SlotHasHolder
            /\ NothingPendingWhenStopped /\ NoStrandedRequest)'
  <1>1. /\ UNCHANGED <<operationQueue, synchQueue, isUpdateActive, getActiveCount, stage>>
        /\ stage = "STOPPED" /\ stage' = "STOPPED"
    BY DEF SendsAway, slots
  <1>2. pc \in [Ops -> Places] /\ pc' = [pc EXCEPT ![o] = "done"]
    BY DEF SendsAway, WakeInv, TypeInv, TypeOK
  <1>3. Pending = {} /\ Pending' = {}
    BY <1>1, SameElements DEF WakeInv, NothingPendingWhenStopped
  <1>4. QueuesOK'
    BY <1>1, <1>3, SameElements DEF WakeInv, QueuesOK
  <1>5. UpdatesOnly'
    BY <1>2 DEF WakeInv, UpdatesOnly, UpdatePlaces
  <1>6. ActiveGets' \subseteq ActiveGets
    BY <1>2 DEF ActiveGets, IsConcurrent, SlotPlaces
  <1>7. GetsCounted'
    <2>1. IsFiniteSet(ActiveGets) /\ Cardinality(ActiveGets) \in Nat
      BY FS_CardinalityType DEF WakeInv, GetsCounted
    <2>2. /\ IsFiniteSet(ActiveGets') /\ Cardinality(ActiveGets') \in Nat
          /\ Cardinality(ActiveGets') <= Cardinality(ActiveGets)
      BY <1>6, <2>1, FS_Subset, FS_CardinalityType
    <2>3. getActiveCount \in Nat
      BY DEF WakeInv, TypeInv, TypeOK
    <2>4. QED
      BY <1>1, <2>1, <2>2, <2>3 DEF WakeInv, GetsCounted
  <1>8. SlotHasHolder' /\ NothingPendingWhenStopped' /\ NoStrandedRequest'
    BY <1>1, <1>3 DEF SlotHasHolder, NothingPendingWhenStopped, NoStrandedRequest
  <1>9. QED
    BY <1>4, <1>5, <1>7, <1>8

(* What processPending does to the requests, apart from the queues.        *)
LEMMA ReleasePlaces ==
    ASSUME WakeInv, NEW o \in Ops, NEW next \in Places, Releases(o, next), UNCHANGED action
    PROVE  /\ pc'[o] = next
           /\ \A p \in Ops \ {o} :
                \/ pc'[p] = pc[p]
                \/ p \in Dequeued /\ pc[p] = "queued" /\ pc'[p] = "dispatched"
           /\ o \notin Pending
           /\ IsConcurrent(o)
              \/ (dequeueRequest /\ \A p \in Dequeued : p \in Ops /\ pc'[p] = "dispatched")
  <1>1. pc \in [Ops -> Places] /\ processPending(o, next) /\ pc[o] # "queued"
    BY DEF WakeInv, TypeInv, TypeOK, Releases, SlotPlaces
  <1>2. o \notin Pending
    BY <1>1 DEF WakeInv, QueuesOK
  <1>3. CASE IsConcurrent(o)
    BY <1>1, <1>2, <1>3 DEF processPending
  <1>4. CASE ~IsConcurrent(o)
    <2>1. /\ dequeueRequest
          /\ pc' = [p \in Ops |-> IF p = o THEN next
                                  ELSE IF p \in Dequeued THEN "dispatched" ELSE pc[p]]
      BY <1>1, <1>4 DEF processPending
    <2>2. Dequeued \subseteq Pending
      BY <2>1, DequeueElements DEF WakeInv
    <2>3. \A p \in Dequeued : p \in Ops /\ p # o /\ pc[p] = "queued"
      BY <1>2, <2>2 DEF WakeInv, QueuesOK
    <2>4. QED
      BY <1>2, <2>1, <2>3
  <1>5. QED
    BY <1>3, <1>4

LEMMA WakeReleases ==
    ASSUME WakeInv, NEW o \in Ops, NEW next \in Places, Releases(o, next), UNCHANGED action
    PROVE  (QueuesOK /\ UpdatesOnly /\ GetsCounted /\ SlotHasHolder
            /\ NothingPendingWhenStopped /\ NoStrandedRequest)'
  <1>1. /\ pc'[o] = next
        /\ \A p \in Ops \ {o} : \/ pc'[p] = pc[p]
                                \/ p \in Dequeued /\ pc[p] = "queued" /\ pc'[p] = "dispatched"
        /\ o \notin Pending
    BY ReleasePlaces
  <1>2. UpdatesOnly'
    BY <1>1 DEF WakeInv, UpdatesOnly, Releases, KeepsKind, UpdatePlaces
  <1>3. /\ \A p \in Ops \ {o} : pc'[p] \in SlotPlaces <=> pc[p] \in SlotPlaces
        /\ \A p \in Ops \ {o} : pc[p] = "dispatched" => pc'[p] = "dispatched"
    BY <1>1 DEF SlotPlaces
  <1>4. stage' = stage
    BY DEF Releases
  <1>5. CASE IsConcurrent(o)
    <2>1. UNCHANGED <<isUpdateActive, getActiveCount, operationQueue, synchQueue>>
      BY <1>5 DEF Releases, processPending, slots
    <2>2. \A p \in Ops \ {o} : pc'[p] = pc[p]
      BY <1>5 DEF Releases, processPending, WakeInv, TypeInv, TypeOK
    <2>3. Pending' = Pending
      BY <2>1, SameElements
    <2>4. QueuesOK'
      BY <1>1, <2>1, <2>2, <2>3, SameElements DEF WakeInv, QueuesOK, IsConcurrent
    <2>5. ActiveGets' = ActiveGets /\ ActiveUpdates' = ActiveUpdates
      BY <1>3, <1>5 DEF ActiveGets, ActiveUpdates, IsConcurrent
    <2>6. GetsCounted' /\ SlotHasHolder' /\ NothingPendingWhenStopped'
      BY <1>4, <2>1, <2>3, <2>5
         DEF WakeInv, GetsCounted, SlotHasHolder, NothingPendingWhenStopped
    <2>7. NoStrandedRequest'
      BY <1>5, <2>2, <2>3 DEF WakeInv, NoStrandedRequest, IsConcurrent
    <2>8. QED
      BY <1>2, <2>4, <2>6, <2>7
  <1>6. CASE ~IsConcurrent(o)
    <2>1. dequeueRequest /\ \A p \in Dequeued : p \in Ops /\ pc'[p] = "dispatched"
      BY <1>6, ReleasePlaces
    <2>2. /\ Distinct(operationQueue)' /\ Distinct(synchQueue)'
          /\ toCollection(operationQueue)' \cap toCollection(synchQueue)' = {}
          /\ Pending' = Pending \ Dequeued
          /\ Dequeued \subseteq Pending
          /\ Pending # {} => Dequeued # {}
      BY <2>1, DequeueElements DEF WakeInv
    <2>3. QueuesOK'
      BY <1>1, <2>2 DEF WakeInv, QueuesOK, IsConcurrent
    <2>4. NoStrandedRequest'
      <3>1. ASSUME Pending' # {}
            PROVE  \E p \in Ops : ~IsConcurrent(p) /\ pc'[p] = "dispatched"
        <4>1. PICK p \in Dequeued : p \in Pending
          BY <2>2, <3>1
        <4>2. p \in Ops /\ pc'[p] = "dispatched" /\ ~IsConcurrent(p)
          BY <2>1, <4>1 DEF WakeInv, QueuesOK
        <4>3. QED
          BY <4>2
      <3>2. QED
        BY <3>1 DEF NoStrandedRequest, IsConcurrent
    <2>5. NothingPendingWhenStopped'
      BY <1>4, <2>2 DEF WakeInv, NothingPendingWhenStopped
    <2>6. CASE action[o] = "GET"
      <3>1. pc[o] \in SlotPlaces /\ next \notin SlotPlaces
        BY <2>6 DEF Releases, WakeInv, UpdatesOnly, UpdatePlaces
      <3>2. ActiveGets' = ActiveGets \ {o} /\ o \in ActiveGets
        BY <1>1, <1>3, <1>6, <2>6, <3>1 DEF ActiveGets, IsConcurrent
      <3>3. ActiveUpdates' = ActiveUpdates
        BY <1>1, <1>3, <2>6 DEF ActiveUpdates
      <3>4. /\ getActiveCount' = IF getActiveCount > 0 THEN getActiveCount - 1 ELSE 0
            /\ UNCHANGED isUpdateActive
        BY <1>6, <2>6 DEF Releases, processPending
      <3>5. /\ IsFiniteSet(ActiveGets) /\ Cardinality(ActiveGets) \in Nat
            /\ Cardinality(ActiveGets) # 0
        BY <3>2, FS_CardinalityType, FS_EmptySet DEF WakeInv, GetsCounted
      <3>6. /\ IsFiniteSet(ActiveGets')
            /\ Cardinality(ActiveGets') = Cardinality(ActiveGets) - 1
        BY <3>2, <3>5, FS_RemoveElement
      <3>7. getActiveCount \in Nat
        BY DEF WakeInv, TypeInv, TypeOK
      <3>8. GetsCounted'
        BY <1>4, <3>4, <3>5, <3>6, <3>7 DEF WakeInv, GetsCounted
      <3>9. SlotHasHolder'
        BY <1>4, <3>3, <3>4 DEF WakeInv, SlotHasHolder
      <3>10. QED
        BY <1>2, <2>3, <2>4, <2>5, <3>8, <3>9
    <2>7. CASE action[o] # "GET"
      <3>1. isUpdateActive' = FALSE /\ UNCHANGED getActiveCount
        BY <1>6, <2>7 DEF Releases, processPending
      <3>2. ActiveGets' = ActiveGets
        BY <1>3, <2>7 DEF ActiveGets, IsConcurrent
      <3>3. GetsCounted' /\ SlotHasHolder'
        BY <1>4, <3>1, <3>2 DEF WakeInv, GetsCounted, SlotHasHolder
      <3>4. QED
        BY <1>2, <2>3, <2>4, <2>5, <3>3
    <2>8. QED
      BY <2>6, <2>7
  <1>7. QED
    BY <1>5, <1>6

(* While a request must wait, another one holds the slot or a GET runs.    *)
LEMMA WaitingHasHolder ==
    ASSUME WakeInv, MustWait, stage = "AVAILABLE"
    PROVE  \E p \in Ops : ~IsConcurrent(p) /\ pc[p] \in SlotPlaces
  <1>1. CASE isUpdateActive
    <2>1. PICK p \in Ops : action[p] # "GET" /\ pc[p] \in SlotPlaces
      BY <1>1 DEF WakeInv, SlotHasHolder, ActiveUpdates
    <2>2. QED
      BY <2>1 DEF IsConcurrent
  <1>2. CASE getActiveCount # 0
    <2>1. ActiveGets # {}
      BY <1>2, FS_EmptySet DEF WakeInv, GetsCounted
    <2>2. QED
      BY <2>1 DEF ActiveGets
  <1>3. QED
    BY <1>1, <1>2 DEF MustWait

LEMMA WakeAdmits ==
    ASSUME WakeInv, NEW o \in Ops, Admits(o), UNCHANGED action
    PROVE  (QueuesOK /\ UpdatesOnly /\ GetsCounted /\ SlotHasHolder
            /\ NothingPendingWhenStopped /\ NoStrandedRequest)'
  <1>1. /\ UNCHANGED <<operationQueue, synchQueue, stage>>
        /\ pc \in [Ops -> Places] /\ pc' = [pc EXCEPT ![o] = "scheduled"]
        /\ pc[o] = "dispatched" /\ ~IsConcurrent(o)
    BY DEF Admits, WakeInv, TypeInv, TypeOK
  <1>2. Pending' = Pending
    BY <1>1, SameElements
  <1>3. QueuesOK'
    BY <1>1, <1>2, SameElements DEF WakeInv, QueuesOK, IsConcurrent
  <1>4. UpdatesOnly' /\ NothingPendingWhenStopped'
    BY <1>1, <1>2 DEF WakeInv, UpdatesOnly, UpdatePlaces, NothingPendingWhenStopped
  <1>5. NoStrandedRequest'
    <2>1. ~IsConcurrent(o)' /\ pc'[o] \in SlotPlaces
      BY <1>1 DEF IsConcurrent, SlotPlaces
    <2>2. QED
      BY <2>1 DEF NoStrandedRequest, IsConcurrent
  <1>6. IsFiniteSet(ActiveGets) /\ Cardinality(ActiveGets) \in Nat
    BY FS_CardinalityType DEF WakeInv, GetsCounted
  <1>7. CASE action[o] = "GET"
    <2>1. getActiveCount' = getActiveCount + 1 /\ UNCHANGED isUpdateActive
      BY <1>7 DEF Admits
    <2>2. ActiveGets' = ActiveGets \cup {o} /\ o \notin ActiveGets
      BY <1>1, <1>7 DEF ActiveGets, IsConcurrent, SlotPlaces
    <2>3. IsFiniteSet(ActiveGets') /\ Cardinality(ActiveGets') = Cardinality(ActiveGets) + 1
      BY <1>6, <2>2, FS_AddElement
    <2>4. getActiveCount \in Nat
      BY DEF WakeInv, TypeInv, TypeOK
    <2>5. GetsCounted'
      BY <1>1, <1>6, <2>1, <2>3, <2>4 DEF WakeInv, GetsCounted
    <2>6. ActiveUpdates' = ActiveUpdates
      BY <1>1, <1>7 DEF ActiveUpdates
    <2>7. SlotHasHolder'
      BY <1>1, <2>1, <2>6 DEF WakeInv, SlotHasHolder
    <2>8. QED
      BY <1>3, <1>4, <1>5, <2>5, <2>7
  <1>8. CASE action[o] # "GET"
    <2>1. isUpdateActive' = TRUE /\ UNCHANGED getActiveCount
      BY <1>8 DEF Admits
    <2>2. ActiveGets' = ActiveGets /\ o \in ActiveUpdates'
      BY <1>1, <1>8 DEF ActiveGets, ActiveUpdates, IsConcurrent, SlotPlaces
    <2>3. GetsCounted' /\ SlotHasHolder'
      BY <1>1, <2>1, <2>2 DEF WakeInv, GetsCounted, SlotHasHolder
    <2>4. QED
      BY <1>3, <1>4, <1>5, <2>3
  <1>9. QED
    BY <1>7, <1>8

LEMMA WakeWaits ==
    ASSUME WakeInv, NEW o \in Ops, Waits(o), UNCHANGED action
    PROVE  (QueuesOK /\ UpdatesOnly /\ GetsCounted /\ SlotHasHolder
            /\ NothingPendingWhenStopped /\ NoStrandedRequest)'
  <1> DEFINE q == IF synchQueue = NoQueue THEN createFifo(SynchQueueLimit) ELSE synchQueue
  <1>1. /\ UNCHANGED <<isUpdateActive, getActiveCount, stage>>
        /\ pc \in [Ops -> Places] /\ stage = "AVAILABLE" /\ MustWait
        /\ pc[o] = "dispatched" /\ ~IsConcurrent(o)
        /\ operationQueue \in Queue(Ops) /\ synchQueue \in Queue(Ops)
    BY DEF Waits, WakeInv, TypeInv, TypeOK
  <1>2. PICK next \in {"queued", "done"} : pc' = [pc EXCEPT ![o] = next]
    BY DEF Waits
  <1>3. o \notin Pending
    BY <1>1 DEF WakeInv, QueuesOK
  <1>4. q \in Queue(Ops) /\ Distinct(q) /\ toCollection(q) = toCollection(synchQueue)
    <2>1. CASE synchQueue = NoQueue
      <3>1. /\ q \in Queue(Ops) /\ isEmpty(q)
            /\ isEmpty(synchQueue)
        BY <1>1, <2>1, FifoType, ConstantsAssumption DEF NoQueue
      <3>2. QED
        BY <1>1, <3>1, EmptyElements
    <2>2. CASE synchQueue # NoQueue
      BY <1>1, <2>2 DEF WakeInv, QueuesOK
    <2>3. QED
      BY <2>1, <2>2
  <1> HIDE DEF q
  <1>5. /\ Distinct(operationQueue)' /\ Distinct(synchQueue)'
        /\ toCollection(operationQueue)' \cap toCollection(synchQueue)' = {}
        /\ Pending' = IF next = "queued" THEN Pending \cup {o} ELSE Pending
    <2>1. CASE /\ operationQueue' = offer(operationQueue, o) /\ UNCHANGED synchQueue
               /\ next = "queued"
      <3>1. /\ Distinct(offer(operationQueue, o))
            /\ toCollection(offer(operationQueue, o)) = toCollection(operationQueue) \cup {o}
        BY <1>1, <1>3, OfferElements DEF WakeInv, QueuesOK, Pending
      <3>2. /\ Distinct(operationQueue)'
            /\ toCollection(operationQueue)' = toCollection(operationQueue) \cup {o}
        BY <2>1, <3>1 DEF Distinct, toCollection
      <3>3. Distinct(synchQueue)' /\ toCollection(synchQueue)' = toCollection(synchQueue)
        BY <2>1 DEF WakeInv, QueuesOK, Distinct, toCollection
      <3>4. QED
        BY <1>3, <2>1, <3>2, <3>3 DEF WakeInv, QueuesOK, Pending
    <2>2. CASE synchQueue' = offer(q, o) /\ UNCHANGED operationQueue /\ next = "queued"
      <3>1. /\ Distinct(offer(q, o))
            /\ toCollection(offer(q, o)) = toCollection(synchQueue) \cup {o}
        BY <1>3, <1>4, OfferElements DEF Pending
      <3>2. /\ Distinct(operationQueue)' /\ Distinct(synchQueue)'
            /\ toCollection(operationQueue)' = toCollection(operationQueue)
            /\ toCollection(synchQueue)' = toCollection(synchQueue) \cup {o}
        BY <2>2, <3>1 DEF WakeInv, QueuesOK, Distinct, toCollection
      <3>3. QED
        BY <1>3, <2>2, <3>2 DEF WakeInv, QueuesOK, Pending
    <2>3. CASE /\ synchQueue' = q \/ UNCHANGED synchQueue
               /\ UNCHANGED operationQueue /\ next = "done"
      <3>1. /\ Distinct(operationQueue)' /\ Distinct(synchQueue)'
            /\ toCollection(operationQueue)' = toCollection(operationQueue)
            /\ toCollection(synchQueue)' = toCollection(synchQueue)
        <4>1. /\ Distinct(operationQueue)'
              /\ toCollection(operationQueue)' = toCollection(operationQueue)
          BY <2>3 DEF WakeInv, QueuesOK, Distinct, toCollection
        <4>2. CASE synchQueue' = q
          <5>1. Distinct(synchQueue)' /\ toCollection(synchQueue)' = toCollection(q)
            BY <1>4, <4>2 DEF Distinct, toCollection
          <5>2. QED
            BY <1>4, <4>1, <5>1
        <4>3. CASE UNCHANGED synchQueue
          <5>1. Distinct(synchQueue)' /\ toCollection(synchQueue)' = toCollection(synchQueue)
            BY <4>3 DEF WakeInv, QueuesOK, Distinct, toCollection
          <5>2. QED
            BY <4>1, <5>1
        <4>4. QED
          BY <2>3, <4>2, <4>3
      <3>2. QED
        BY <2>3, <3>1 DEF WakeInv, QueuesOK, Pending
    <2>4. QED
      <3>1. pc'[o] = next
        BY <1>1, <1>2
      <3>2. \/ /\ operationQueue' = offer(operationQueue, o) /\ UNCHANGED synchQueue
               /\ pc' = [pc EXCEPT ![o] = "queued"]
            \/ /\ synchQueue' = offer(q, o) /\ UNCHANGED operationQueue
               /\ pc' = [pc EXCEPT ![o] = "queued"]
            \/ /\ synchQueue' = q \/ UNCHANGED synchQueue
               /\ UNCHANGED operationQueue
               /\ pc' = [pc EXCEPT ![o] = "done"]
        BY DEF Waits, q
      <3>3. /\ pc' = [pc EXCEPT ![o] = "queued"] => next = "queued"
            /\ pc' = [pc EXCEPT ![o] = "done"] => next = "done"
        BY <1>1, <3>1
      <3>4. QED
        BY <2>1, <2>2, <2>3, <3>2, <3>3
  <1>6. QueuesOK'
    <2>1. \A p \in Pending' : p \in Ops /\ pc'[p] = "queued" /\ ~IsConcurrent(p)
      BY <1>1, <1>2, <1>3, <1>5 DEF WakeInv, QueuesOK
    <2>2. QED
      BY <1>5, <2>1 DEF QueuesOK, IsConcurrent
  <1>7. UpdatesOnly'
    BY <1>1, <1>2 DEF WakeInv, UpdatesOnly, UpdatePlaces
  <1>8. ActiveGets' = ActiveGets /\ ActiveUpdates' = ActiveUpdates
    BY <1>1, <1>2 DEF ActiveGets, ActiveUpdates, IsConcurrent, SlotPlaces
  <1>9. GetsCounted' /\ SlotHasHolder' /\ NothingPendingWhenStopped'
    BY <1>1, <1>8 DEF WakeInv, GetsCounted, SlotHasHolder, NothingPendingWhenStopped
  <1>10. NoStrandedRequest'
    <2>1. PICK p \in Ops : ~IsConcurrent(p) /\ pc[p] \in SlotPlaces
      BY <1>1, WaitingHasHolder
    <2>2. pc'[p] \in SlotPlaces /\ ~IsConcurrent(p)'
      BY <1>1, <1>2, <2>1 DEF SlotPlaces, IsConcurrent
    <2>3. QED
      BY <2>2 DEF NoStrandedRequest
  <1>11. QED
    BY <1>6, <1>7, <1>9, <1>10

LEMMA WakeStops ==
    ASSUME WakeInv, NEW o \in Ops, NEW next \in Places, Stops(o, next), UNCHANGED action
    PROVE  (QueuesOK /\ UpdatesOnly /\ GetsCounted /\ SlotHasHolder
            /\ NothingPendingWhenStopped /\ NoStrandedRequest)'
  <1>1. /\ pc \in [Ops -> Places]
        /\ operationQueue \in Queue(Ops) /\ synchQueue \in Queue(Ops) /\ getActiveCount \in Nat
    BY DEF WakeInv, TypeInv, TypeOK
  <1>2. /\ operationQueue' = clear(operationQueue)
        /\ synchQueue' = IF synchQueue = NoQueue THEN NoQueue ELSE clear(synchQueue)
        /\ pc' = [p \in Ops |-> IF p = o THEN next
                                ELSE IF p \in Pending THEN "done" ELSE pc[p]]
        /\ stage' = "STOPPED" /\ getActiveCount' = getActiveCount
    BY DEF Stops, cancelPendingRequests
  <1>3. /\ operationQueue' \in Queue(Ops) /\ isEmpty(operationQueue)'
        /\ synchQueue' \in Queue(Ops) /\ isEmpty(synchQueue)'
    <2>1. clear(operationQueue) \in Queue(Ops) /\ isEmpty(clear(operationQueue))
      BY <1>1, ClearType
    <2>2. clear(synchQueue) \in Queue(Ops) /\ isEmpty(clear(synchQueue))
      BY <1>1, ClearType
    <2>3. NoQueue \in Queue(Ops) /\ isEmpty(NoQueue)
      BY FifoType DEF NoQueue
    <2>4. QED
      BY <1>2, <2>1, <2>2, <2>3 DEF isEmpty
  <1>4. /\ Distinct(operationQueue)' /\ Distinct(synchQueue)'
        /\ toCollection(operationQueue)' = {} /\ toCollection(synchQueue)' = {}
    BY <1>3, EmptyElements DEF isEmpty, Distinct, toCollection
  <1>5. Pending' = {}
    BY <1>4 DEF Pending
  <1>6. QueuesOK' /\ NothingPendingWhenStopped' /\ NoStrandedRequest' /\ SlotHasHolder'
    BY <1>2, <1>4, <1>5 DEF QueuesOK, NothingPendingWhenStopped, NoStrandedRequest, SlotHasHolder
  <1>7. UpdatesOnly'
    BY <1>2 DEF WakeInv, UpdatesOnly, UpdatePlaces, Stops, KeepsKind
  <1>8. ActiveGets' \subseteq ActiveGets
    <2>1. next \in SlotPlaces => pc[o] \in SlotPlaces
      BY DEF Stops, SlotPlaces
    <2>2. QED
      BY <1>2, <2>1 DEF ActiveGets, IsConcurrent, SlotPlaces
  <1>9. GetsCounted'
    <2>1. IsFiniteSet(ActiveGets) /\ Cardinality(ActiveGets) \in Nat
      BY FS_CardinalityType DEF WakeInv, GetsCounted
    <2>2. /\ IsFiniteSet(ActiveGets') /\ Cardinality(ActiveGets') \in Nat
          /\ Cardinality(ActiveGets') <= Cardinality(ActiveGets)
      BY <1>8, <2>1, FS_Subset, FS_CardinalityType
    <2>3. QED
      BY <1>1, <1>2, <2>1, <2>2 DEF WakeInv, GetsCounted
  <1>10. QED
    BY <1>6, <1>7, <1>9

LEMMA WakeInit == Init => WakeInv
  <1>1. SUFFICES ASSUME Init PROVE WakeInv
    OBVIOUS
  <1>2. TypeInv /\ LoadsPersisted
    BY <1>1, TypeInit DEF Init, LoadsPersisted
  <1>3. /\ operationQueue \in Queue(Ops) /\ isEmpty(operationQueue)
        /\ synchQueue \in Queue(Ops) /\ isEmpty(synchQueue)
    BY <1>1, <1>2, FifoType DEF Init, TypeInv, TypeOK, NoQueue, isEmpty
  <1>4. /\ Distinct(operationQueue) /\ Distinct(synchQueue)
        /\ toCollection(operationQueue) = {} /\ toCollection(synchQueue) = {}
    BY <1>3, EmptyElements
  <1>5. Pending = {} /\ ActiveGets = {}
    BY <1>1, <1>4 DEF Init, Pending, ActiveGets, SlotPlaces
  <1>6. QueuesOK /\ NothingPendingWhenStopped /\ NoStrandedRequest
    BY <1>4, <1>5 DEF QueuesOK, NothingPendingWhenStopped, NoStrandedRequest
  <1>7. GetsCounted
    BY <1>1, <1>5, FS_EmptySet DEF Init, GetsCounted
  <1>8. UpdatesOnly /\ SlotHasHolder
    BY <1>1 DEF Init, UpdatesOnly, UpdatePlaces, SlotHasHolder
  <1>9. QED
    BY <1>2, <1>6, <1>7, <1>8 DEF WakeInv

LEMMA WakeStep == WakeInv /\ [Next]_vars => WakeInv'
  <1>1. SUFFICES ASSUME WakeInv, [Next]_vars PROVE WakeInv'
    OBVIOUS
  <1>2. TypeInv' /\ LoadsPersisted'
    BY <1>1, TypeStep, LoadsPersistedStep DEF WakeInv
  <1>3. /\ NoEffect \/ \E o \in Ops : Effect(o)
        /\ UNCHANGED action
    BY <1>1, StepEffect DEF WakeInv
  <1>4. (QueuesOK /\ UpdatesOnly /\ GetsCounted /\ SlotHasHolder
         /\ NothingPendingWhenStopped /\ NoStrandedRequest)'
    BY <1>1, <1>3, WakeNoEffect, WakeMoves, WakeSendsAway, WakeReleases, WakeAdmits, WakeWaits,
       WakeStops DEF Effect
  <1>5. QED
    BY <1>2, <1>4 DEF WakeInv

LEMMA WakeInvariant == Spec => []WakeInv
  BY WakeInit, WakeStep, PTL DEF Spec

(* No request is stranded in operationQueue or synchQueue: no interleaving *)
(* of admissions, completions, index failures, ownership changes and stops *)
(* loses the wake-up that processPending owes to a pending request.        *)
THEOREM NoRequestStranded == Spec => []NoStrandedRequest
  <1>1. WakeInv => NoStrandedRequest
    BY DEF WakeInv
  <1>2. QED
    BY <1>1, WakeInvariant, PTL

(* getActiveCount covers every GET that runs.                              *)
THEOREM RunningGetsCounted == Spec => []GetsAreCounted
  <1>1. WakeInv => GetsAreCounted
    BY DEF WakeInv, GetsCounted, GetsAreCounted
  <1>2. QED
    BY <1>1, WakeInvariant, PTL

-----------------------------------------------------------------------------
(* Update exclusion, while the index accepts every update and the owner    *)
(* stays the owner.                                                        *)

OwnerStays ==
    /\ isOwner = OwnerSelection
    /\ \A o \in Ops : pc[o] \notin {"reprocessing", "reindexing"}

SlotExclusive ==
    /\ ActiveUpdates # {} => isUpdateActive
    /\ \A o, p \in ActiveUpdates : o = p
    /\ isUpdateActive => ActiveGets = {}

ExclusionInv == WakeInv /\ OwnerStays /\ SlotExclusive

LEMMA OwnerStaysStep ==
    ASSUME ~OwnershipCanMove, TypeInv, OwnerStays, [Next]_vars
    PROVE  OwnerStays'
  <1> DEFINE Allowed == Places \ {"reprocessing", "reindexing"}
             Stays == \A o \in Ops : pc'[o] \notin {"reprocessing", "reindexing"}
  <1>1. pc \in [Ops -> Places] /\ \A o \in Ops : pc[o] \in Allowed
    BY DEF TypeInv, TypeOK, OwnerStays
  <1>2. ASSUME NEW o \in Ops, NEW next \in Allowed, processPending(o, next)
        PROVE  Stays
    BY <1>1, <1>2 DEF processPending
  <1>3. ASSUME NEW o \in Ops, failRequest(o)
        PROVE  Stays
    BY <1>2, <1>3, PlaceMembers DEF failRequest
  <1>4. ASSUME NEW o \in Ops, NEW next \in Allowed, NEW mine, NEW result,
               cancelPendingRequests(o, next, mine, result)
        PROVE  Stays
    BY <1>1, <1>4 DEF cancelPendingRequests
  <1>5. ASSUME NEW o \in Ops, NEW next \in Allowed, pc' = [pc EXCEPT ![o] = next]
        PROVE  Stays
    BY <1>1, <1>5
  <1>6. /\ \A o \in Ops : PlaceAfterLoad(o) \in Allowed
        /\ PlaceAfterHandler \in Allowed
    BY ConstantsAssumption DEF PlaceAfterLoad, PlaceAfterHandler, OwnerStays, Places, SlotPlaces
  <1>7. {"new", "dispatched", "scheduled", "linking", "loading", "stopHandler", "synchStopping",
         "committing", "saving", "queued", "indexing", "stopCheck", "stopping", "abandoned",
         "done"} \subseteq Allowed
    BY DEF Places, SlotPlaces
  <1> HIDE DEF Allowed, Stays
  <1>8. ASSUME NEW o \in Ops, Submit(o) \/ Admit(o)
        PROVE  Stays /\ UNCHANGED isOwner
    BY <1>5, <1>7, <1>8
       DEF Submit, Admit, checkServiceStopped, queueConcurrentGet, queueGetRequestInternal,
           queueUpdateRequestInternal, EnqueueOrFail, queueSynchRequest, Complete, document
  <1>9. ASSUME NEW o \in Ops, Process(o)
        PROVE  Stays /\ UNCHANGED isOwner
    <2>1. CASE handleRequest(o) \/ loadServiceState(o) \/ loadFromIndex(o) \/ handleUpdate(o)
               \/ replicationComplete(o) \/ commitComplete(o) \/ indexComplete(o)
      BY <2>1, <1>5, <1>6, <1>7
         DEF handleRequest, loadServiceState, loadFromIndex, handleUpdate, replicationComplete,
             commitComplete, indexComplete, Complete, document
    <2>2. CASE handleGet(o) \/ handlerFailure(o) \/ stateNotModified(o) \/ replicationFailure(o)
               \/ processCompletionStageIndexing(o) \/ indexFailure(o)
      BY <2>2, <1>2, <1>3, <1>5, <1>7
         DEF handleGet, handlerFailure, stateNotModified, replicationFailure,
             processCompletionStageIndexing, indexFailure, Complete, document
    <2>3. CASE handleDelete(o)
      BY <2>3, <1>4, <1>5, <1>6, <1>7 DEF handleDelete, Complete
    <2>4. QED
      BY <1>9, <2>1, <2>2, <2>3 DEF Process
  <1>10. ASSUME NEW o \in Ops, Synchronize(o)
         PROVE  Stays /\ UNCHANGED isOwner
    <2>1. CASE synchronizeWithPeers(o)
      <3>1. ASSUME NEW a \in PeerAnswers(o), AdoptPeerState(o, a)
            PROVE  isOwner' = isOwner
        BY <3>1 DEF PeerAnswers, AdoptPeerState
      <3>2. QED
        BY <2>1, <3>1, <1>2, <1>5, <1>7 DEF synchronizeWithPeers
    <2>2. CASE handleSynchFailure(o) \/ synchMarkedDeleted(o) \/ synchStopAndCancel(o)
      BY <2>2, <1>3, <1>4, <1>5, <1>7
         DEF handleSynchFailure, synchMarkedDeleted, synchStopAndCancel, document
    <2>3. ~(synchWithPeersAndReProcess(o) \/ reprocessAfterIndexing(o)
            \/ reprocessIndexFailure(o))
      BY DEF synchWithPeersAndReProcess, reprocessAfterIndexing, reprocessIndexFailure, OwnerStays
    <2>4. QED
      BY <1>10, <2>1, <2>2, <2>3 DEF Synchronize
  <1>11. ASSUME NEW o \in Ops, Stop(o)
         PROVE  Stays /\ UNCHANGED isOwner
    BY <1>2, <1>4, <1>5, <1>7, <1>11
       DEF Stop, handleStop, handleStopFailure, handleStopCompletion, stopAndCancel, Complete,
           document
  <1>12. CASE Quiescent \/ UNCHANGED vars
    BY <1>12 DEF Quiescent, vars, document, OwnerStays
  <1>13. ~loseOwnership
    BY DEF loseOwnership
  <1>14. QED
    BY <1>8, <1>9, <1>10, <1>11, <1>12, <1>13 DEF Next, OwnerStays, Stays

LEMMA ExclusionEffect ==
    ASSUME ~IndexCanFail, ExclusionInv, NEW o \in Ops, Effect(o), UNCHANGED action
    PROVE  SlotExclusive'
  <1>1. pc \in [Ops -> Places]
    BY DEF ExclusionInv, WakeInv, TypeInv, TypeOK
  <1>2. ASSUME NEW next \in Places, Moves(o, next)
        PROVE  SlotExclusive'
    <2>1. ActiveGets' = ActiveGets /\ ActiveUpdates' = ActiveUpdates
      BY <1>1, <1>2
         DEF Moves, ExclusionInv, OwnerStays, ActiveGets, ActiveUpdates, IsConcurrent, SlotPlaces
    <2>2. UNCHANGED isUpdateActive
      BY <1>2 DEF Moves, slots
    <2>3. QED
      BY <2>1, <2>2 DEF ExclusionInv, SlotExclusive
  <1>3. CASE SendsAway(o)
    <2>1. ActiveGets' \subseteq ActiveGets /\ ActiveUpdates' \subseteq ActiveUpdates
      BY <1>1, <1>3 DEF SendsAway, ActiveGets, ActiveUpdates, IsConcurrent, SlotPlaces
    <2>2. UNCHANGED isUpdateActive
      BY <1>3 DEF SendsAway, slots
    <2>3. QED
      BY <2>1, <2>2 DEF ExclusionInv, SlotExclusive
  <1>4. ASSUME NEW next \in Places, Releases(o, next)
        PROVE  SlotExclusive'
    <2>1. /\ pc'[o] = next
          /\ \A p \in Ops \ {o} : pc'[p] \in SlotPlaces <=> pc[p] \in SlotPlaces
      BY <1>4, ReleasePlaces DEF ExclusionInv, SlotPlaces
    <2>2. pc[o] \in SlotPlaces /\ next \notin SlotPlaces
      BY <1>4 DEF Releases, ExclusionInv, OwnerStays
    <2>3. ActiveGets' \subseteq ActiveGets /\ ActiveUpdates' = ActiveUpdates \ {o}
      BY <2>1, <2>2 DEF ActiveGets, ActiveUpdates, IsConcurrent
    <2>4. CASE action[o] = "GET"
      BY <1>4, <2>3, <2>4
         DEF Releases, processPending, slots, ExclusionInv, SlotExclusive
    <2>5. CASE action[o] # "GET"
      <3>1. isUpdateActive' = FALSE
        BY <1>4, <2>5 DEF Releases, processPending, IsConcurrent
      <3>2. ActiveUpdates' = {}
        BY <2>2, <2>3, <2>5 DEF ExclusionInv, SlotExclusive, ActiveUpdates
      <3>3. QED
        BY <3>1, <3>2 DEF SlotExclusive
    <2>6. QED
      BY <2>4, <2>5
  <1>5. CASE Admits(o)
    <2>1. ActiveUpdates = {}
      BY <1>5 DEF Admits, MustWait, ExclusionInv, SlotExclusive
    <2>2. CASE action[o] = "GET"
      <3>1. ActiveUpdates' = {} /\ isUpdateActive' = isUpdateActive /\ ~isUpdateActive
        BY <1>1, <1>5, <2>1, <2>2 DEF Admits, ActiveUpdates
      <3>2. QED
        BY <3>1 DEF SlotExclusive
    <2>3. CASE action[o] # "GET"
      <3>1. isUpdateActive' = TRUE /\ getActiveCount = 0
        BY <1>5, <2>3 DEF Admits, MustWait
      <3>2. ActiveGets = {}
        BY <1>5, <3>1, FS_EmptySet DEF Admits, ExclusionInv, WakeInv, GetsCounted
      <3>3. ActiveGets' = {} /\ ActiveUpdates' = {o}
        BY <1>1, <1>5, <2>1, <2>3, <3>2
           DEF Admits, ActiveGets, ActiveUpdates, IsConcurrent, SlotPlaces
      <3>4. QED
        BY <3>1, <3>3 DEF SlotExclusive
    <2>4. QED
      BY <2>2, <2>3
  <1>6. CASE Waits(o)
    <2>1. ActiveGets' = ActiveGets /\ ActiveUpdates' = ActiveUpdates
      BY <1>1, <1>6 DEF Waits, ActiveGets, ActiveUpdates, IsConcurrent, SlotPlaces
    <2>2. UNCHANGED isUpdateActive
      BY <1>6 DEF Waits
    <2>3. QED
      BY <2>1, <2>2 DEF ExclusionInv, SlotExclusive
  <1>7. ASSUME NEW next \in Places, Stops(o, next)
        PROVE  SlotExclusive'
    <2>1. pc' = [p \in Ops |-> IF p = o THEN next
                               ELSE IF p \in Pending THEN "done" ELSE pc[p]]
      BY <1>7 DEF Stops, cancelPendingRequests
    <2>2. next \in SlotPlaces => pc[o] \in SlotPlaces
      BY <1>7 DEF Stops, SlotPlaces
    <2>3. ActiveGets' \subseteq ActiveGets /\ ActiveUpdates' \subseteq ActiveUpdates
      BY <2>1, <2>2 DEF ActiveGets, ActiveUpdates, IsConcurrent, SlotPlaces
    <2>4. CASE UNCHANGED isUpdateActive
      BY <2>3, <2>4 DEF ExclusionInv, SlotExclusive
    <2>5. CASE pc[o] = "synchStopping" /\ next = "done" /\ isUpdateActive' = FALSE
      <3>1. o \in ActiveUpdates
        BY <2>5 DEF ActiveUpdates, SlotPlaces, ExclusionInv, WakeInv, UpdatesOnly, UpdatePlaces
      <3>2. o \notin ActiveUpdates'
        BY <2>1, <2>5 DEF ActiveUpdates, SlotPlaces
      <3>3. ActiveUpdates' = {}
        BY <2>3, <3>1, <3>2 DEF ExclusionInv, SlotExclusive
      <3>4. QED
        BY <2>5, <3>3 DEF SlotExclusive
    <2>6. QED
      BY <1>7, <2>4, <2>5 DEF Stops
  <1>8. QED
    BY <1>2, <1>3, <1>4, <1>5, <1>6, <1>7 DEF Effect

LEMMA ExclusionInit == Init => ExclusionInv
  <1>1. SUFFICES ASSUME Init PROVE ExclusionInv
    OBVIOUS
  <1>2. ActiveUpdates = {} /\ ActiveGets = {}
    BY <1>1 DEF Init, ActiveUpdates, ActiveGets, SlotPlaces
  <1>3. OwnerStays
    BY <1>1 DEF Init, OwnerStays
  <1>4. QED
    BY <1>1, <1>2, <1>3, WakeInit DEF ExclusionInv, SlotExclusive

LEMMA ExclusionStep ==
    ASSUME ~IndexCanFail, ~OwnershipCanMove
    PROVE  ExclusionInv /\ [Next]_vars => ExclusionInv'
  <1>1. SUFFICES ASSUME ExclusionInv, [Next]_vars PROVE ExclusionInv'
    OBVIOUS
  <1>2. WakeInv' /\ OwnerStays'
    BY <1>1, WakeStep, OwnerStaysStep DEF ExclusionInv, WakeInv
  <1>3. /\ NoEffect \/ \E o \in Ops : Effect(o)
        /\ UNCHANGED action
    BY <1>1, StepEffect DEF ExclusionInv, WakeInv
  <1>4. CASE NoEffect
    <2>1. ActiveGets' = ActiveGets /\ ActiveUpdates' = ActiveUpdates
      BY <1>3, <1>4 DEF NoEffect, ActiveGets, ActiveUpdates, IsConcurrent
    <2>2. UNCHANGED isUpdateActive
      BY <1>4 DEF NoEffect, slots
    <2>3. SlotExclusive'
      BY <1>1, <2>1, <2>2 DEF ExclusionInv, SlotExclusive
    <2>4. QED
      BY <1>2, <2>3 DEF ExclusionInv
  <1>5. CASE \E o \in Ops : Effect(o)
    BY <1>1, <1>2, <1>3, <1>5, ExclusionEffect DEF ExclusionInv
  <1>6. QED
    BY <1>3, <1>4, <1>5

(* Modifications are serialized: as long as the index accepts every update *)
(* and ownership stays, no two updates are ever between admission and      *)
(* processPending, and no GET runs beside one, whatever stops, deletes,    *)
(* synchronizations, failed handlers and failed replications do.           *)
THEOREM UpdatesSerialized ==
    ASSUME ~IndexCanFail, ~OwnershipCanMove
    PROVE  Spec => []UpdateExclusion
  <1>1. ExclusionInv => UpdateExclusion
    BY DEF ExclusionInv, SlotExclusive, UpdateExclusion
  <1>2. QED
    BY <1>1, ExclusionInit, ExclusionStep, PTL DEF Spec

-----------------------------------------------------------------------------
(* Every request is answered once.                                         *)

(* A request has an outcome exactly when it is done.                       *)
AnsweredWhenDone == \A o \in Ops : (outcome[o] # "none") <=> (pc[o] = "done")

(* The effect of a step of request o on answers: o, which had none, gets   *)
(* one if it is done; a pending request is dispatched, or is cancelled     *)
(* with an answer; nobody else is concerned.                               *)
Answers(o) ==
    /\ pc[o] # "done"
    /\ (outcome'[o] # "none") <=> (pc'[o] = "done")
    /\ \A p \in Ops \ {o} :
          \/ pc'[p] = pc[p] /\ outcome'[p] = outcome[p]
          \/ pc[p] = "queued" /\ pc'[p] = "dispatched" /\ outcome'[p] = outcome[p]
          \/ pc[p] = "queued" /\ pc'[p] = "done" /\ outcome'[p] # "none"

(* No step takes an answer back, replaces it, or goes on with a request    *)
(* that has been answered.                                                 *)
AnswersKept == \A o \in Ops : outcome[o] # "none" => outcome'[o] = outcome[o] /\ pc'[o] = "done"

LEMMA AnswersMove ==
    ASSUME TypeInv, AnsweredWhenDone, NEW o \in Ops, NEW next, pc[o] # "done", next # "done",
           pc' = [pc EXCEPT ![o] = next], UNCHANGED outcome
    PROVE  Answers(o)
  <1>1. pc \in [Ops -> Places] /\ outcome[o] = "none"
    BY DEF TypeInv, TypeOK, AnsweredWhenDone
  <1>2. QED
    BY <1>1 DEF Answers

LEMMA AnswersComplete ==
    ASSUME TypeInv, NEW o \in Ops, NEW result, pc[o] # "done", result # "none",
           Complete(o, result)
    PROVE  Answers(o)
  BY DEF TypeInv, TypeOK, Complete, Answers

LEMMA DequeuedQueued ==
    ASSUME TypeInv, QueuesOK, dequeueRequest
    PROVE  \A p \in Dequeued : pc[p] = "queued"
  BY DequeueElements DEF QueuesOK

LEMMA ReleasedPlaces ==
    ASSUME TypeInv, QueuesOK, NEW o \in Ops, NEW next, processPending(o, next)
    PROVE  /\ pc'[o] = next
           /\ \A p \in Ops \ {o} : pc'[p] = pc[p] \/ (pc[p] = "queued" /\ pc'[p] = "dispatched")
  <1>1. CASE IsConcurrent(o)
    BY <1>1 DEF processPending, TypeInv, TypeOK
  <1>2. CASE ~IsConcurrent(o)
    <2>1. /\ dequeueRequest
          /\ pc' = [p \in Ops |-> IF p = o THEN next
                                  ELSE IF p \in Dequeued THEN "dispatched" ELSE pc[p]]
      BY <1>2 DEF processPending
    <2>2. QED
      BY <2>1, DequeuedQueued
  <1>3. QED
    BY <1>1, <1>2

LEMMA AnswersPending ==
    ASSUME TypeInv, QueuesOK, AnsweredWhenDone, NEW o \in Ops, NEW next, pc[o] # "done",
           processPending(o, next), next # "done", UNCHANGED outcome
    PROVE  Answers(o)
  <1>1. outcome[o] = "none"
    BY DEF AnsweredWhenDone
  <1>2. QED
    BY <1>1, ReleasedPlaces DEF Answers

LEMMA AnswersDone ==
    ASSUME TypeInv, QueuesOK, NEW o \in Ops, NEW result, pc[o] # "done", result # "none",
           processPending(o, "done"), outcome' = [outcome EXCEPT ![o] = result]
    PROVE  Answers(o)
  <1>1. outcome'[o] = result /\ \A p \in Ops \ {o} : outcome'[p] = outcome[p]
    BY DEF TypeInv, TypeOK
  <1>2. /\ pc'[o] = "done"
        /\ \A p \in Ops \ {o} : pc'[p] = pc[p] \/ (pc[p] = "queued" /\ pc'[p] = "dispatched")
    BY ReleasedPlaces
  <1>3. QED
    BY <1>1, <1>2 DEF Answers

LEMMA AnswersFail ==
    ASSUME TypeInv, QueuesOK, NEW o \in Ops, pc[o] # "done", failRequest(o)
    PROVE  Answers(o)
  BY AnswersDone DEF failRequest

LEMMA AnswersCancel ==
    ASSUME QueuesOK, NEW o \in Ops, NEW next, NEW mine, NEW result, pc[o] # "done",
           (mine # "none") <=> (next = "done"), result # "none",
           cancelPendingRequests(o, next, mine, result)
    PROVE  Answers(o)
  <1>1. pc'[o] = next /\ outcome'[o] = mine
    BY DEF cancelPendingRequests
  <1>2. ASSUME NEW p \in Ops \ {o}
        PROVE  \/ pc'[p] = pc[p] /\ outcome'[p] = outcome[p]
               \/ pc[p] = "queued" /\ pc'[p] = "done" /\ outcome'[p] # "none"
    <2>1. CASE p \in Pending
      BY <2>1 DEF cancelPendingRequests, QueuesOK
    <2>2. CASE p \notin Pending
      BY <2>2 DEF cancelPendingRequests
    <2>3. QED
      BY <2>1, <2>2
  <1>3. QED
    BY <1>1, <1>2 DEF Answers

LEMMA AdmitAnswers ==
    ASSUME TypeInv, QueuesOK, AnsweredWhenDone, NEW o \in Ops, Submit(o) \/ Admit(o)
    PROVE  Answers(o)
  <1>1. RetryOutcome # "none"
    BY DEF RetryOutcome
  <1>2. CASE Submit(o)
    BY <1>2, AnswersMove DEF Submit
  <1>3. CASE checkServiceStopped(o)
    BY <1>1, <1>3, AnswersComplete DEF checkServiceStopped
  <1>4. CASE queueConcurrentGet(o)
    BY <1>4, AnswersMove DEF queueConcurrentGet
  <1>5. CASE queueGetRequestInternal(o) \/ queueUpdateRequestInternal(o)
    <2>1. /\ pc[o] = "dispatched"
          /\ \/ pc' = [pc EXCEPT ![o] = "scheduled"] /\ UNCHANGED outcome
             \/ pc' = [pc EXCEPT ![o] = "queued"] /\ UNCHANGED outcome
             \/ Complete(o, "fail")
      BY <1>5 DEF queueGetRequestInternal, queueUpdateRequestInternal, queueSynchRequest,
                  EnqueueOrFail
    <2>2. QED
      BY <2>1, AnswersMove, AnswersComplete
  <1>6. QED
    BY <1>2, <1>3, <1>4, <1>5 DEF Admit

LEMMA ProcessAnswers ==
    ASSUME TypeInv, QueuesOK, AnsweredWhenDone, NEW o \in Ops, Process(o)
    PROVE  Answers(o)
  <1>1. /\ RetryOutcome # "none" /\ PlaceAfterLoad(o) # "done" /\ PlaceAfterHandler # "done"
    BY DEF RetryOutcome, PlaceAfterLoad, PlaceAfterHandler
  <1>2. CASE handleRequest(o)
    BY <1>1, <1>2, AnswersMove, AnswersComplete DEF handleRequest
  <1>3. CASE loadServiceState(o) \/ loadFromIndex(o)
    BY <1>1, <1>3, AnswersMove DEF loadServiceState, loadFromIndex
  <1>4. CASE handleGet(o)
    BY <1>1, <1>4, AnswersComplete, AnswersDone DEF handleGet
  <1>5. CASE handlerFailure(o) \/ replicationFailure(o) \/ indexFailure(o)
    BY <1>5, AnswersFail DEF handlerFailure, replicationFailure, indexFailure
  <1>6. CASE stateNotModified(o)
    BY <1>6, AnswersDone DEF stateNotModified
  <1>7. CASE handleUpdate(o)
    BY <1>1, <1>7, AnswersMove DEF handleUpdate
  <1>8. CASE handleDelete(o)
    BY <1>1, <1>8, AnswersComplete, AnswersCancel DEF handleDelete
  <1>9. CASE replicationComplete(o) \/ commitComplete(o)
    <2>1. /\ pc[o] # "done" /\ UNCHANGED outcome
          /\ pc' = [pc EXCEPT ![o] = "saving"] \/ pc' = [pc EXCEPT ![o] = "committing"]
      BY <1>9 DEF replicationComplete, commitComplete
    <2>2. QED
      BY <2>1, AnswersMove
  <1>10. CASE processCompletionStageIndexing(o)
    BY <1>10, AnswersPending, AnswersDone DEF processCompletionStageIndexing
  <1>11. CASE indexComplete(o)
    BY <1>11, AnswersComplete DEF indexComplete
  <1>12. QED
    BY <1>2, <1>3, <1>4, <1>5, <1>6, <1>7, <1>8, <1>9, <1>10, <1>11 DEF Process

LEMMA SynchronizeAnswers ==
    ASSUME TypeInv, QueuesOK, AnsweredWhenDone, NEW o \in Ops, Synchronize(o) \/ Stop(o)
    PROVE  Answers(o)
  <1>1. RetryOutcome # "none"
    BY DEF RetryOutcome
  <1>2. CASE synchronizeWithPeers(o)
    <2>1. /\ pc[o] # "done"
          /\ \/ pc' = [pc EXCEPT ![o] = "saving"] /\ UNCHANGED outcome
             \/ processPending(o, "done") /\ outcome' = [outcome EXCEPT ![o] = "notModified"]
      BY <1>2 DEF synchronizeWithPeers
    <2>2. QED
      BY <2>1, AnswersMove, AnswersDone
  <1>3. CASE handleSynchFailure(o) \/ reprocessIndexFailure(o)
    BY <1>3, AnswersFail DEF handleSynchFailure, reprocessIndexFailure
  <1>4. CASE synchMarkedDeleted(o)
    BY <1>4, AnswersMove, AnswersFail DEF synchMarkedDeleted
  <1>5. CASE synchStopAndCancel(o)
    BY <1>1, <1>5, AnswersCancel DEF synchStopAndCancel
  <1>6. CASE synchWithPeersAndReProcess(o)
    <2>1. /\ pc[o] # "done" /\ UNCHANGED outcome
          /\ processPending(o, "reindexing") \/ processPending(o, "scheduled")
      BY <1>6 DEF synchWithPeersAndReProcess
    <2>2. QED
      BY <2>1, AnswersPending
  <1>7. CASE reprocessAfterIndexing(o)
    BY <1>7, AnswersMove DEF reprocessAfterIndexing
  <1>8. CASE handleStop(o) \/ handleStopFailure(o)
    BY <1>8, AnswersPending DEF handleStop, handleStopFailure
  <1>9. CASE handleStopCompletion(o)
    BY <1>9, AnswersMove, AnswersComplete DEF handleStopCompletion
  <1>10. CASE stopAndCancel(o)
    BY <1>1, <1>10, AnswersCancel DEF stopAndCancel
  <1>11. QED
    BY <1>2, <1>3, <1>4, <1>5, <1>6, <1>7, <1>8, <1>9, <1>10 DEF Synchronize, Stop

LEMMA StepAnswers ==
    ASSUME WakeInv, AnsweredWhenDone, [Next]_vars
    PROVE  UNCHANGED <<pc, outcome>> \/ \E o \in Ops : Answers(o)
  <1>1. TypeInv /\ QueuesOK
    BY DEF WakeInv
  <1>2. CASE loseOwnership \/ Quiescent \/ UNCHANGED vars
    BY <1>2 DEF loseOwnership, Quiescent, vars
  <1>3. QED
    BY <1>1, <1>2, AdmitAnswers, ProcessAnswers, SynchronizeAnswers DEF Next

LEMMA AnsweredStep ==
    ASSUME WakeInv, AnsweredWhenDone, [Next]_vars
    PROVE  AnsweredWhenDone' /\ AnswersKept
  <1>1. CASE UNCHANGED <<pc, outcome>>
    BY <1>1 DEF AnsweredWhenDone, AnswersKept
  <1>2. CASE \E o \in Ops : Answers(o)
    <2>1. PICK o \in Ops : Answers(o)
      BY <1>2
    <2>2. AnsweredWhenDone'
      BY <2>1 DEF Answers, AnsweredWhenDone
    <2>3. AnswersKept
      BY <2>1 DEF Answers, AnsweredWhenDone, AnswersKept
    <2>4. QED
      BY <2>2, <2>3
  <1>3. QED
    BY <1>1, <1>2, StepAnswers

(* A request is completed at most once: whatever index failures, stops,    *)
(* deletes, ownership changes and cancelled queues do, no later step of    *)
(* another request or callback completes or processes it again             *)
(* (failRequest, cancelPendingRequests, processPending).                   *)
THEOREM AnsweredOnce == Spec => [][AnswersKept]_vars
  <1>1. Init => AnsweredWhenDone
    BY DEF Init, AnsweredWhenDone
  <1>2. AnsweredWhenDone /\ WakeInv /\ [Next]_vars => AnsweredWhenDone'
    BY AnsweredStep
  <1>3. AnsweredWhenDone /\ WakeInv /\ [Next]_vars => [AnswersKept]_vars
    BY AnsweredStep
  <1>4. QED
    BY <1>1, <1>2, <1>3, WakeInvariant, PTL DEF Spec
=============================================================================
