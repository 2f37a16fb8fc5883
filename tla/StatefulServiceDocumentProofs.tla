-------------------- MODULE StatefulServiceDocumentProofs -------------------
(***************************************************************************)
(* What StatefulService does to its document: no acknowledged update is    *)
(* lost, reads see what was acknowledged, the cache is never behind the    *)
(* index, and the whole pipeline implements AtomicDocument.                *)
(*                                                                         *)
(* All of it while the index accepts every update, the owner stays the     *)
(* owner, and a persistent service is not stopped other than by a DELETE   *)
(* or by synchronization (StableService).  None of the three can be        *)
(* dropped: TLC finds the code losing an acknowledged update, or caching   *)
(* an older document than the index holds, without each of them.           *)
(***************************************************************************)
EXTENDS StatefulServiceProofs

StableService ==
    /\ ~IndexCanFail
    /\ ~OwnershipCanMove
    /\ Persistence => "STOP" \notin Actions

-----------------------------------------------------------------------------
(* The inductive invariant.                                                *)

Indexing == {o \in Ops : pc[o] = "indexing"}

(* The documents that were saved: indexed, on their way to the index, or   *)
(* cached by a running instance.                                           *)
Saved == index \cup {linked[o] : o \in Indexing}
               \cup (IF stage = "AVAILABLE" THEN {cached} ELSE {})

Newest(d) == d \in Saved /\ \A e \in Saved : e.version <= d.version

(* Places of the one update in the slot before and after its handler.      *)
BeforeHandler == {"scheduled", "linking", "loading", "synchronizing", "handler",
                  "stopHandler", "synchStopping"}
AfterHandler == {"replicating", "committing", "saving"}

OwnUpdate(o) == IF action[o] = "PATCH" THEN {o} ELSE {}

(* A document saved under a higher version holds all a lower one holds.    *)
SavedInOrder == \A d, e \in Saved : d.version <= e.version => d.updates \subseteq e.updates

(* context.version is never behind a saved document.                       *)
VersionsKnown == \A d \in Saved : d.version \in 0 .. version

(* A running instance caches the newest document; a persistent one has     *)
(* sent it to the index.  A stopped instance has no cached document.       *)
CacheIsNewest ==
    /\ stage = "AVAILABLE" => Newest(cached)
    /\ stage = "AVAILABLE" /\ Persistence =>
          cached \in index \cup {linked[o] : o \in Indexing}
    /\ stage = "STOPPED" => cached = NoDoc
    /\ Persistence => \E m \in Saved : Newest(m)

(* The update in the slot of a persistent service finds the instance       *)
(* running until its handler has run, and only a DELETE goes on after that *)
(* when it is stopped.                                                     *)
SlotAlive ==
    Persistence /\ stage = "STOPPED" =>
        \A o \in Ops :
            /\ action[o] # "STOP"
            /\ pc[o] \in BeforeHandler => action[o] = "GET"
            /\ pc[o] \in AfterHandler => action[o] = "DELETE"

(* What the update in the slot works on: the cached document until its     *)
(* handler has run, then that document with its own change and a version   *)
(* no saved document has.                                                  *)
SlotDocument ==
    \A o \in Ops : action[o] # "GET" =>
        /\ pc[o] \in {"handler", "synchronizing"} /\ stage = "AVAILABLE" => linked[o] = cached
        /\ pc[o] \in AfterHandler /\ (stage = "AVAILABLE" \/ Persistence) =>
             /\ linked[o].version <= version
             /\ \A d \in Saved : d.version < linked[o].version
             /\ \E m \in Saved : Newest(m) /\ linked[o].updates = m.updates \cup OwnUpdate(o)

(* A document holds updates that were saved only.                          *)
SavedUpdates ==
    /\ \A d \in Saved : \A p \in d.updates :
          action[p] = "PATCH" /\ (pc[p] = "indexing" \/ outcome[p] = "ok")
    /\ \A o \in Ops : action[o] = "PATCH" /\ pc[o] = "indexing" => o \in linked[o].updates

(* What was acknowledged is in the index, or cached.                       *)
AcknowledgedSaved ==
    /\ Persistence => \A p \in Acknowledged : \E d \in index : p \in d.updates
    /\ stage = "AVAILABLE" => Acknowledged \subseteq cached.updates

(* What a GET carries.                                                     *)
ReadDocument ==
    \A o \in Ops :
        /\ acked[o] \subseteq Acknowledged
        /\ action[o] = "GET" /\ (pc[o] = "handler" \/ outcome[o] = "ok") =>
             \/ acked[o] \subseteq linked[o].updates
             \/ pc[o] = "handler" /\ linked[o] = NoDoc /\ stage = "STOPPED"
        /\ action[o] = "GET" /\ pc[o] = "handler" /\ Persistence =>
             \E d \in Saved : linked[o].updates \subseteq d.updates

(* A request has an outcome when it is done, and only then; a stopped      *)
(* instance alone loads from the index.                                    *)
Bookkeeping ==
    \A o \in Ops :
        /\ pc[o] = "done" <=> outcome[o] # "none"
        /\ pc[o] = "loading" => stage = "STOPPED" /\ Persistence
        /\ pc[o] \in {"stopHandler", "stopCheck", "stopping", "abandoned"} => action[o] = "STOP"
        /\ pc[o] = "indexing" => Persistence
        /\ pc[o] = "synchronizing" => action[o] = "SYNCH"
        /\ Persistence => action[o] # "STOP"

DocumentInv ==
    /\ SavedInOrder /\ VersionsKnown /\ CacheIsNewest /\ SlotAlive /\ SlotDocument
    /\ SavedUpdates /\ AcknowledgedSaved /\ ReadDocument /\ Bookkeeping

-----------------------------------------------------------------------------
(* Documents.                                                              *)

LEMMA SavedType ==
    ASSUME TypeInv
    PROVE  /\ \A d \in Saved : d \in Docs
           /\ \A d \in Docs : d.version \in Int /\ d.updates \subseteq Ops
           /\ \A d, e \in Docs : d.version = e.version /\ d.updates = e.updates => d = e
  BY DEF TypeInv, TypeOK, Saved, Indexing, Docs

(* The newest of an ordered set of documents is unique, whether or not the *)
(* missing document is beside it.                                          *)
LEMMA LatestOrdered ==
    ASSUME NEW S \in SUBSET Docs, \A d \in S : d.version >= 0,
           \A d, e \in S : d.version <= e.version => d.updates \subseteq e.updates,
           NEW D \in SUBSET (S \cup {NoDoc}),
           NEW m \in S, m \in D, \A e \in D : e.version <= m.version
    PROVE  Latest(D) = m
  <1>1. Latest(D) \in D /\ \A e \in D : e.version <= Latest(D).version
    <2>1. \E d \in D : \A e \in D : e.version <= d.version
      OBVIOUS
    <2>2. QED
      BY <2>1, Zenon DEF Latest
  <1>2. m.version >= 0 /\ m.version \in Int /\ NoDoc.version = -1
    BY DEF Docs, NoDoc
  <1>3. m.version <= Latest(D).version /\ Latest(D).version <= m.version
    BY <1>1
  <1>4. Latest(D) # NoDoc
    BY <1>2, <1>3
  <1>5. Latest(D) \in S
    BY <1>1, <1>4
  <1>6. m.version = Latest(D).version
    BY <1>3, <1>5 DEF Docs
  <1>7. m.updates = Latest(D).updates
    <2>1. m.updates \subseteq Latest(D).updates /\ Latest(D).updates \subseteq m.updates
      BY <1>3, <1>5
    <2>2. QED
      BY <2>1, Zenon
  <1>8. QED
    BY <1>5, <1>6, <1>7 DEF Docs

LEMMA LatestSaved ==
    ASSUME TypeInv, DocumentInv, NEW D \in SUBSET Saved,
           NEW m \in D, \A e \in D : e.version <= m.version
    PROVE  Latest(D) = m
  <1>1. Saved \in SUBSET Docs /\ \A d \in Saved : d.version >= 0
    BY SavedType DEF DocumentInv, VersionsKnown
  <1>2. QED
    BY <1>1, LatestOrdered DEF DocumentInv, SavedInOrder

(* A running instance never caches the missing document.                   *)
LEMMA CachedExists ==
    ASSUME TypeInv, DocumentInv, stage = "AVAILABLE"
    PROVE  /\ cached \in Saved /\ cached # NoDoc /\ Newest(cached)
           /\ \A d \in Saved : d.version <= cached.version /\ d.updates \subseteq cached.updates
  <1>1. Newest(cached) /\ cached \in Saved
    BY DEF DocumentInv, CacheIsNewest, Newest
  <1>2. cached # NoDoc
    BY <1>1 DEF DocumentInv, VersionsKnown, NoDoc
  <1>3. QED
    BY <1>1, <1>2 DEF DocumentInv, SavedInOrder, Newest

(* Requests other than o: unchanged, or handed on by processPending.       *)
LEMMA PendingPlaces ==
    ASSUME WakeInv, NEW o \in Ops, NEW next, processPending(o, next), pc[o] # "queued"
    PROVE  /\ pc'[o] = next
           /\ \A p \in Ops \ {o} : pc'[p] = pc[p] \/ (pc[p] = "queued" /\ pc'[p] = "dispatched")
  <1>1. pc \in [Ops -> Places]
    BY DEF WakeInv, TypeInv, TypeOK
  <1>2. CASE IsConcurrent(o)
    BY <1>1, <1>2 DEF processPending
  <1>3. CASE ~IsConcurrent(o)
    <2>1. /\ dequeueRequest
          /\ pc' = [p \in Ops |-> IF p = o THEN next
                                  ELSE IF p \in Dequeued THEN "dispatched" ELSE pc[p]]
      BY <1>3 DEF processPending
    <2>2. Dequeued \subseteq Pending
      BY <2>1, DequeueElements DEF WakeInv
    <2>3. QED
      BY <2>1, <2>2 DEF WakeInv, QueuesOK
  <1>4. QED
    BY <1>2, <1>3

(* Requests other than o: unchanged, or cancelled by                       *)
(* cancelPendingRequests.                                                  *)
LEMMA CancelledPlaces ==
    ASSUME WakeInv, NEW o \in Ops, NEW next, NEW mine, NEW result,
           cancelPendingRequests(o, next, mine, result)
    PROVE  /\ pc'[o] = next /\ outcome'[o] = mine
           /\ \A p \in Ops \ {o} :
                \/ pc'[p] = pc[p] /\ outcome'[p] = outcome[p]
                \/ pc[p] = "queued" /\ pc'[p] = "done" /\ outcome'[p] = result
  BY DEF cancelPendingRequests, WakeInv, QueuesOK

-----------------------------------------------------------------------------
(* Steps that leave the documents alone.                                   *)

(* How a request goes on in such a step: not at all, on its way to be      *)
(* saved, to a place where it has no document yet, or to an answer that    *)
(* acknowledges nothing.                                                   *)
Passes(p) ==
    \/ pc'[p] = pc[p] /\ outcome'[p] = outcome[p]
    \/ /\ pc[p] \in {"replicating", "committing"} /\ pc'[p] \in {"committing", "saving"}
       /\ outcome'[p] = outcome[p]
    \/ /\ pc[p] \notin {"indexing", "done"} /\ outcome'[p] = outcome[p]
       /\ pc'[p] \in {"dispatched", "queued", "scheduled", "linking", "loading",
                      "stopHandler", "synchStopping", "stopCheck", "stopping", "abandoned"}
       /\ pc'[p] \in BeforeHandler =>
             action[p] = "GET" \/ stage = "AVAILABLE" \/ pc[p] \in BeforeHandler
       /\ pc'[p] = "loading" => stage = "STOPPED" /\ Persistence
       /\ pc'[p] \in {"stopHandler", "stopCheck", "stopping", "abandoned"} => action[p] = "STOP"
    \/ /\ pc[p] \notin {"indexing", "done"} /\ pc'[p] = "done"
       /\ outcome'[p] # "none"
       /\ outcome'[p] = "ok" => action[p] = "STOP"

(* Only a request that is finished or is being sent changes what it keeps. *)
KeepsDocument(p) ==
    /\ linked'[p] = linked[p]
       \/ (action[p] # "GET" /\ pc[p] \notin {"indexing", "done"} /\ pc'[p] = "done")
    /\ acked'[p] = acked[p] \/ (pc[p] = "new" /\ acked'[p] = Acknowledged)

Quiet ==
    /\ UNCHANGED <<stage, cached, index, action>>
    /\ version' \in Nat /\ version' >= version
    /\ \A p \in Ops : Passes(p) /\ KeepsDocument(p)

LEMMA QuietSaved ==
    ASSUME DocumentInv, Quiet
    PROVE  Saved' = Saved /\ Acknowledged' = Acknowledged /\ Indexing' = Indexing
           /\ \A p \in Indexing : linked'[p] = linked[p]
  <1>1. \A p \in Ops : pc'[p] = "indexing" <=> pc[p] = "indexing"
    BY DEF Quiet, Passes, BeforeHandler
  <1>2. \A p \in Ops : pc[p] = "indexing" => linked'[p] = linked[p]
    BY DEF Quiet, KeepsDocument
  <1>3. \A p \in Ops : action[p] # "STOP" => (outcome'[p] = "ok" <=> outcome[p] = "ok")
    BY DEF Quiet, Passes, DocumentInv, Bookkeeping
  <1>4. Acknowledged' = Acknowledged
    BY <1>3 DEF Acknowledged, Quiet
  <1>5. Indexing' = Indexing
    BY <1>1 DEF Indexing
  <1>6. {linked'[p] : p \in Indexing'} = {linked[p] : p \in Indexing}
    BY <1>2, <1>5 DEF Indexing
  <1>7. Saved' = Saved
    BY <1>6 DEF Saved, Quiet
  <1>8. QED
    BY <1>2, <1>4, <1>5, <1>7 DEF Indexing

LEMMA QuietDocument ==
    ASSUME TypeInv, DocumentInv, Quiet
    PROVE  DocumentInv'
  <1>1. /\ UNCHANGED <<stage, cached, index, action, Saved, Acknowledged, Indexing>>
        /\ version' \in Nat /\ version \in Nat /\ version' >= version
    BY QuietSaved DEF Quiet, TypeInv, TypeOK
  <1>2. {linked[p] : p \in Indexing}' = {linked[p] : p \in Indexing}
    BY QuietSaved
  <1>3. SavedInOrder'
    BY <1>1 DEF DocumentInv, SavedInOrder
  <1>4. VersionsKnown'
    BY <1>1 DEF DocumentInv, VersionsKnown
  <1>5. CacheIsNewest'
    BY <1>1, <1>2 DEF DocumentInv, CacheIsNewest, Newest
  <1>6. SlotAlive'
    BY <1>1 DEF DocumentInv, SlotAlive, Quiet, Passes, BeforeHandler, AfterHandler
  <1>7. SlotDocument'
    <2>1. SUFFICES ASSUME NEW o \in Ops, action[o] # "GET"
                   PROVE  /\ pc'[o] \in {"handler", "synchronizing"} /\ stage = "AVAILABLE" =>
                               linked'[o] = cached
                          /\ pc'[o] \in AfterHandler /\ (stage = "AVAILABLE" \/ Persistence) =>
                               /\ linked'[o].version <= version'
                               /\ \A d \in Saved : d.version < linked'[o].version
                               /\ \E m \in Saved : Newest(m)
                                     /\ linked'[o].updates = m.updates \cup OwnUpdate(o)
      BY <1>1 DEF SlotDocument, Newest, OwnUpdate
    <2>2. pc'[o] \in {"handler", "synchronizing"} => pc[o] = pc'[o] /\ linked'[o] = linked[o]
      BY DEF Quiet, Passes, KeepsDocument
    <2>3. pc'[o] \in AfterHandler => pc[o] \in AfterHandler /\ linked'[o] = linked[o]
      BY DEF Quiet, Passes, KeepsDocument, AfterHandler
    <2>4. linked[o].version \in Int
      BY DEF TypeInv, TypeOK, Docs
    <2>5. QED
      BY <1>1, <2>1, <2>2, <2>3, <2>4 DEF DocumentInv, SlotDocument
  <1>8. SavedUpdates'
    <2>1. \A p \in Ops : /\ pc'[p] = "indexing" <=> pc[p] = "indexing"
                         /\ pc[p] = "indexing" => linked'[p] = linked[p]
      BY DEF Quiet, Passes, KeepsDocument
    <2>2. \A p \in Ops : outcome[p] = "ok" => outcome'[p] = "ok"
      BY DEF Quiet, Passes, DocumentInv, Bookkeeping
    <2>3. \A d \in Saved : d.updates \subseteq Ops
      BY SavedType
    <2>4. QED
      BY <1>1, <2>1, <2>2, <2>3 DEF DocumentInv, SavedUpdates
  <1>9. AcknowledgedSaved'
    BY <1>1 DEF DocumentInv, AcknowledgedSaved
  <1>10. ReadDocument'
    <2>1. SUFFICES ASSUME NEW o \in Ops
                   PROVE  /\ acked'[o] \subseteq Acknowledged
                          /\ action[o] = "GET" /\ (pc'[o] = "handler" \/ outcome'[o] = "ok") =>
                               \/ acked'[o] \subseteq linked'[o].updates
                               \/ pc'[o] = "handler" /\ linked'[o] = NoDoc /\ stage = "STOPPED"
                          /\ action[o] = "GET" /\ pc'[o] = "handler" /\ Persistence =>
                               \E d \in Saved : linked'[o].updates \subseteq d.updates
      BY <1>1 DEF ReadDocument
    <2>2. acked'[o] \subseteq Acknowledged
      BY DEF Quiet, KeepsDocument, DocumentInv, ReadDocument
    <2>3. ASSUME action[o] = "GET"
          PROVE  /\ pc'[o] = "handler" => pc[o] = "handler" /\ acked'[o] = acked[o]
                 /\ outcome'[o] = "ok" => outcome[o] = "ok" /\ pc[o] = "done" /\ acked'[o] = acked[o]
                 /\ linked'[o] = linked[o]
      BY <2>3 DEF Quiet, Passes, KeepsDocument, DocumentInv, Bookkeeping
    <2>4. QED
      BY <2>2, <2>3 DEF DocumentInv, ReadDocument
  <1>11. Bookkeeping'
    BY <1>1 DEF DocumentInv, Bookkeeping, Quiet, Passes
  <1>12. QED
    BY <1>3, <1>4, <1>5, <1>6, <1>7, <1>8, <1>9, <1>10, <1>11 DEF DocumentInv

-----------------------------------------------------------------------------
(* Steps of one request that reads or changes a document.                  *)

(* Everyone but o stays where it is.                                       *)
OthersStay(o) ==
    \A p \in Ops \ {o} : pc'[p] = pc[p] /\ outcome'[p] = outcome[p] /\ linked'[p] = linked[p]

(* loadServiceState, from the cache or from the index.                     *)
Loads(o) ==
    /\ UNCHANGED <<stage, version, cached, index, action, acked, outcome>>
    /\ OthersStay(o)
    /\ \/ pc[o] = "linking" /\ (stage = "AVAILABLE" \/ ~Persistence) /\ linked'[o] = cached
       \/ pc[o] = "loading" /\ linked'[o] = Latest(index)
    /\ pc'[o] \in {"handler", "synchronizing"}
    /\ action[o] = "GET" => pc'[o] = "handler"
    /\ pc'[o] = "synchronizing" => action[o] = "SYNCH"

LEMMA LoadsDocument ==
    ASSUME TypeInv, DocumentInv, NEW o \in Ops, Loads(o)
    PROVE  DocumentInv' /\ Saved' = Saved
  <1>1. /\ UNCHANGED <<stage, version, cached, index, action, acked, outcome, Acknowledged>>
        /\ pc[o] \in {"linking", "loading"} /\ pc'[o] \in {"handler", "synchronizing"}
    BY DEF Loads, Acknowledged
  <1>2. \A p \in Ops : /\ pc'[p] = "indexing" <=> pc[p] = "indexing"
                       /\ pc[p] = "indexing" => linked'[p] = linked[p]
    BY <1>1 DEF Loads, OthersStay
  <1>3. Indexing' = Indexing /\ {linked[p] : p \in Indexing}' = {linked[p] : p \in Indexing}
    BY <1>2 DEF Indexing
  <1>4. Saved' = Saved
    BY <1>1, <1>3 DEF Saved
  <1>5. SavedInOrder' /\ VersionsKnown' /\ CacheIsNewest'
    BY <1>1, <1>3, <1>4 DEF DocumentInv, SavedInOrder, VersionsKnown, CacheIsNewest, Newest
  <1>6. SlotAlive'
    BY <1>1 DEF DocumentInv, SlotAlive, Loads, OthersStay, BeforeHandler, AfterHandler
  <1>7. SlotDocument'
    <2>1. ASSUME NEW p \in Ops \ {o}
          PROVE  pc'[p] = pc[p] /\ linked'[p] = linked[p]
      BY DEF Loads, OthersStay
    <2>2. stage = "AVAILABLE" => linked'[o] = cached
      BY DEF Loads, DocumentInv, Bookkeeping
    <2>3. pc'[o] \notin AfterHandler
      BY <1>1 DEF AfterHandler
    <2>4. QED
      BY <1>1, <1>4, <2>1, <2>2, <2>3 DEF DocumentInv, SlotDocument, Newest, OwnUpdate
  <1>8. SavedUpdates' /\ AcknowledgedSaved'
    BY <1>1, <1>2, <1>4, SavedType DEF DocumentInv, SavedUpdates, AcknowledgedSaved
  <1>9. ReadDocument'
    <2>1. ASSUME NEW p \in Ops \ {o}
          PROVE  pc'[p] = pc[p] /\ linked'[p] = linked[p]
      BY DEF Loads, OthersStay
    <2>2. acked[o] \subseteq Acknowledged /\ outcome[o] = "none"
      BY <1>1 DEF DocumentInv, ReadDocument, Bookkeeping
    <2>3. CASE pc[o] = "linking" /\ stage = "AVAILABLE"
      <3>1. linked'[o] = cached /\ cached \in Saved /\ Acknowledged \subseteq cached.updates
        BY <2>3, CachedExists DEF Loads, DocumentInv, AcknowledgedSaved
      <3>2. QED
        BY <1>1, <1>4, <2>1, <2>2, <3>1 DEF DocumentInv, ReadDocument
    <2>4. CASE pc[o] = "linking" /\ stage # "AVAILABLE"
      <3>1. linked'[o] = NoDoc /\ ~Persistence /\ stage = "STOPPED"
        BY <2>4 DEF Loads, DocumentInv, CacheIsNewest, TypeInv, TypeOK
      <3>2. action[o] = "GET" => pc'[o] = "handler"
        BY DEF Loads
      <3>3. QED
        BY <1>1, <1>4, <2>1, <2>2, <3>1, <3>2 DEF DocumentInv, ReadDocument
    <2>5. CASE pc[o] = "loading"
      <3>1. Persistence
        BY <2>5 DEF DocumentInv, Bookkeeping
      <3>2. PICK m \in index : \A e \in index : e.version <= m.version
        BY <3>1 DEF TypeInv, HasLatest
      <3>3. index \subseteq Saved
        BY DEF Saved
      <3>4. Latest(index) = m
        BY <3>2, <3>3, LatestSaved
      <3>5. Acknowledged \subseteq m.updates
        BY <3>1, <3>2, <3>3 DEF DocumentInv, AcknowledgedSaved, SavedInOrder
      <3>6. linked'[o] = m
        BY <2>5, <3>4 DEF Loads
      <3>7. QED
        BY <1>1, <1>4, <2>1, <2>2, <3>2, <3>3, <3>5, <3>6 DEF DocumentInv, ReadDocument
    <2>6. QED
      BY <1>1, <2>3, <2>4, <2>5
  <1>10. Bookkeeping'
    BY <1>1 DEF DocumentInv, Bookkeeping, Loads, OthersStay
  <1>11. QED
    BY <1>4, <1>5, <1>6, <1>7, <1>8, <1>9, <1>10 DEF DocumentInv

(* A GET is completed with the document it carries.                        *)
Reads(o) ==
    /\ UNCHANGED <<stage, version, cached, index, linked, action, acked>>
    /\ pc[o] = "handler" /\ action[o] = "GET"
    /\ ~(linked[o] = NoDoc /\ stage = "STOPPED")
    /\ pc'[o] = "done" /\ outcome'[o] = "ok"
    /\ \A p \in Ops \ {o} : /\ outcome'[p] = outcome[p]
                            /\ pc'[p] = pc[p] \/ (pc[p] = "queued" /\ pc'[p] = "dispatched")

LEMMA ReadsDocument ==
    ASSUME TypeInv, DocumentInv, NEW o \in Ops, Reads(o)
    PROVE  DocumentInv' /\ Saved' = Saved
  <1>1. /\ UNCHANGED <<stage, version, cached, index, linked, action, acked>>
        /\ \A p \in Ops : /\ pc'[p] \in {"dispatched", "done", pc[p]}
                          /\ pc'[p] = "indexing" <=> pc[p] = "indexing"
    BY DEF Reads
  <1>2. Indexing' = Indexing /\ Acknowledged' = Acknowledged
    BY DEF Reads, Indexing, Acknowledged
  <1>3. Saved' = Saved
    BY <1>1, <1>2 DEF Saved
  <1>4. SavedInOrder' /\ VersionsKnown' /\ CacheIsNewest' /\ AcknowledgedSaved'
    BY <1>1, <1>2, <1>3
       DEF DocumentInv, SavedInOrder, VersionsKnown, CacheIsNewest, Newest, AcknowledgedSaved
  <1>5. SlotAlive'
    BY <1>1 DEF DocumentInv, SlotAlive, BeforeHandler, AfterHandler
  <1>6. SlotDocument'
    BY <1>1, <1>3 DEF DocumentInv, SlotDocument, Newest, OwnUpdate, AfterHandler
  <1>7. SavedUpdates'
    <2>1. \A p \in Ops : outcome[p] = "ok" => outcome'[p] = "ok"
      BY DEF Reads
    <2>2. QED
      BY <1>1, <1>3, <2>1, SavedType DEF DocumentInv, SavedUpdates
  <1>8. ReadDocument'
    BY <1>1, <1>2, <1>3 DEF DocumentInv, ReadDocument, Reads
  <1>9. Bookkeeping'
    BY <1>1 DEF DocumentInv, Bookkeeping, Reads
  <1>10. QED
    BY <1>3, <1>4, <1>5, <1>6, <1>7, <1>8, <1>9 DEF DocumentInv

(* The handler of an update, or a synchronization that brought a newer     *)
(* version, makes the next document.                                       *)
Applies(o) ==
    /\ UNCHANGED <<stage, cached, index, action, acked, outcome>>
    /\ OthersStay(o)
    /\ action[o] # "GET" /\ pc[o] \in {"handler", "synchronizing"}
    /\ pc'[o] \in AfterHandler
    /\ version' \in Nat /\ version' > version
    /\ linked'[o].version = version'
    /\ linked'[o].updates = linked[o].updates \cup OwnUpdate(o)

LEMMA AppliesDocument ==
    ASSUME TypeInv, DocumentInv, NEW o \in Ops, Applies(o)
    PROVE  DocumentInv' /\ Saved' = Saved
  <1>1. /\ UNCHANGED <<stage, cached, index, action, acked, outcome, Acknowledged>>
        /\ pc[o] \in {"handler", "synchronizing"} /\ action[o] # "GET"
        /\ pc'[o] \in {"replicating", "committing", "saving"}
        /\ version' \in Nat /\ version \in Nat /\ version' > version
    BY DEF Applies, Acknowledged, AfterHandler, TypeInv, TypeOK
  <1>2. \A p \in Ops \ {o} : pc'[p] = pc[p] /\ linked'[p] = linked[p]
    BY DEF Applies, OthersStay
  <1>3. Indexing' = Indexing /\ {linked[p] : p \in Indexing}' = {linked[p] : p \in Indexing}
    BY <1>1, <1>2 DEF Indexing
  <1>4. Saved' = Saved
    BY <1>1, <1>3 DEF Saved
  <1>5. SavedInOrder' /\ CacheIsNewest' /\ AcknowledgedSaved'
    BY <1>1, <1>3, <1>4 DEF DocumentInv, SavedInOrder, CacheIsNewest, Newest, AcknowledgedSaved
  <1>6. VersionsKnown'
    BY <1>1, <1>4 DEF DocumentInv, VersionsKnown
  <1>7. Persistence => stage = "AVAILABLE"
    BY <1>1 DEF DocumentInv, SlotAlive, BeforeHandler, TypeInv, TypeOK
  <1>8. SlotAlive'
    BY <1>1, <1>7 DEF SlotAlive, TypeInv, TypeOK
  <1>9. SlotDocument'
    <2>1. ASSUME stage = "AVAILABLE"
          PROVE  /\ linked'[o].version <= version'
                 /\ \A d \in Saved : d.version < linked'[o].version
                 /\ \E m \in Saved : Newest(m) /\ linked'[o].updates = m.updates \cup OwnUpdate(o)
      <3>1. linked[o] = cached
        BY <1>1, <2>1 DEF DocumentInv, SlotDocument
      <3>2. cached \in Saved /\ Newest(cached)
        BY <2>1, CachedExists
      <3>3. linked'[o].version = version' /\ linked'[o].updates = cached.updates \cup OwnUpdate(o)
        BY <3>1 DEF Applies
      <3>4. QED
        BY <1>1, <3>2, <3>3 DEF DocumentInv, VersionsKnown
    <2>2. ASSUME NEW p \in Ops \ {o} PROVE linked[p].version \in Int
      BY DEF TypeInv, TypeOK, Docs
    <2>3. QED
      BY <1>1, <1>2, <1>4, <1>7, <2>1, <2>2
         DEF DocumentInv, SlotDocument, Newest, OwnUpdate, AfterHandler
  <1>10. SavedUpdates'
    <2>1. \A p \in Ops : /\ pc'[p] = "indexing" <=> pc[p] = "indexing"
                         /\ pc[p] = "indexing" => linked'[p] = linked[p]
      BY <1>1, <1>2
    <2>2. QED
      BY <1>1, <1>4, <2>1, SavedType DEF DocumentInv, SavedUpdates
  <1>11. ReadDocument'
    BY <1>1, <1>2, <1>4 DEF DocumentInv, ReadDocument
  <1>12. Bookkeeping'
    BY <1>1, <1>2 DEF DocumentInv, Bookkeeping
  <1>13. QED
    BY <1>4, <1>5, <1>6, <1>8, <1>9, <1>10, <1>11, <1>12 DEF DocumentInv

-----------------------------------------------------------------------------
(* The update in the slot is alone there.                                  *)
AloneInSlot(o) == \A p \in Ops \ {o} : action[p] # "GET" => pc[p] \notin SlotPlaces

LEMMA UpdateAlone ==
    ASSUME ExclusionInv, NEW o \in Ops, action[o] # "GET", pc[o] \in SlotPlaces
    PROVE  AloneInSlot(o)
  BY DEF ExclusionInv, SlotExclusive, ActiveUpdates, AloneInSlot

(* saveServiceState caches the document and sends it to the index, if      *)
(* there is one.                                                           *)
Saves(o) ==
    /\ UNCHANGED <<stage, version, index, linked, action, acked>>
    /\ action[o] # "GET" /\ pc[o] = "saving" /\ AloneInSlot(o)
    /\ cached' = IF stage = "STOPPED" \/ cached.version > linked[o].version
                 THEN cached ELSE linked[o]
    /\ IF Persistence THEN pc'[o] = "indexing" /\ outcome'[o] = outcome[o]
                      ELSE pc'[o] = "done" /\ outcome'[o] = "ok"
    /\ \A p \in Ops \ {o} : /\ outcome'[p] = outcome[p]
                            /\ pc'[p] = pc[p] \/ (pc[p] = "queued" /\ pc'[p] = "dispatched")

(* The new document follows all saved ones.                                *)
LEMMA NextDocument ==
    ASSUME TypeInv, DocumentInv, NEW o \in Ops, Saves(o), stage = "AVAILABLE" \/ Persistence
    PROVE  /\ linked[o].version \in 0 .. version
           /\ \A d \in Saved : d.version < linked[o].version /\ d.updates \subseteq linked[o].updates
           /\ \A p \in linked[o].updates : p \in OwnUpdate(o) \/ \E d \in Saved : p \in d.updates
           /\ OwnUpdate(o) \subseteq linked[o].updates
           /\ stage = "AVAILABLE" => cached' = linked[o]
  <1>1. pc[o] \in AfterHandler /\ action[o] # "GET"
    BY DEF Saves, AfterHandler
  <1>2. /\ linked[o].version <= version
        /\ \A d \in Saved : d.version < linked[o].version
    BY <1>1 DEF DocumentInv, SlotDocument
  <1>3. PICK m \in Saved : Newest(m) /\ linked[o].updates = m.updates \cup OwnUpdate(o)
    BY <1>1 DEF DocumentInv, SlotDocument
  <1>4. linked[o].version \in Int /\ m.version \in 0 .. version /\ version \in Nat
    BY DEF TypeInv, TypeOK, Docs, DocumentInv, VersionsKnown
  <1>5. linked[o].version \in 0 .. version
    BY <1>2, <1>4
  <1>6. \A d \in Saved : d.updates \subseteq linked[o].updates
    BY <1>3 DEF DocumentInv, SavedInOrder, Newest
  <1>7. ASSUME stage = "AVAILABLE" PROVE cached' = linked[o]
    <2>1. cached \in Saved /\ cached.version \in Int
      BY <1>7, CachedExists, SavedType
    <2>2. ~(cached.version > linked[o].version)
      BY <1>2, <1>4, <2>1
    <2>3. QED
      BY <1>7, <2>2 DEF Saves
  <1>8. QED
    BY <1>2, <1>3, <1>5, <1>6, <1>7

LEMMA SavesDocument ==
    ASSUME TypeInv, DocumentInv, NEW o \in Ops, Saves(o)
    PROVE  DocumentInv' /\ (Persistence => Saved' = Saved \cup {linked[o]})
  <1>1. /\ UNCHANGED <<stage, version, index, linked, action, acked>>
        /\ pc[o] = "saving" /\ action[o] # "GET" /\ pc'[o] \in {"indexing", "done"}
        /\ \A p \in Ops \ {o} : pc'[p] = pc[p] \/ (pc[p] = "queued" /\ pc'[p] = "dispatched")
        /\ \A p \in Ops \ {o} : outcome'[p] = outcome[p]
    BY DEF Saves
  <1>2. stage = "STOPPED" => cached' = cached
    BY DEF Saves
  <1>3. Acknowledged' = IF Persistence THEN Acknowledged ELSE Acknowledged \cup OwnUpdate(o)
    BY DEF Saves, Acknowledged, OwnUpdate
  <1>4. SlotAlive'
    BY <1>1 DEF DocumentInv, SlotAlive, BeforeHandler, AfterHandler
  <1>5. SlotDocument'
    <2>1. \A p \in Ops : action[p] # "GET" =>
             pc'[p] \notin AfterHandler \cup {"handler", "synchronizing"}
      BY <1>1 DEF Saves, AloneInSlot, AfterHandler, SlotPlaces
    <2>2. QED
      BY <1>1, <2>1 DEF SlotDocument
  <1>6. Bookkeeping'
    BY <1>1 DEF DocumentInv, Bookkeeping, Saves
  <1>7. stage \in {"AVAILABLE", "STOPPED"}
    BY DEF TypeInv, TypeOK
  <1>8. CASE stage = "AVAILABLE" \/ Persistence
    <2>1. /\ linked[o].version \in 0 .. version
          /\ \A d \in Saved : d.version < linked[o].version /\ d.updates \subseteq linked[o].updates
          /\ \A p \in linked[o].updates : p \in OwnUpdate(o) \/ \E d \in Saved : p \in d.updates
          /\ OwnUpdate(o) \subseteq linked[o].updates
          /\ stage = "AVAILABLE" => cached' = linked[o]
      BY <1>8, NextDocument
    <2>2. /\ linked[o] \in Saved'
          /\ Saved' \subseteq Saved \cup {linked[o]}
          /\ Persistence => Saved \subseteq Saved' /\ linked[o] \in {linked[p] : p \in Indexing}'
      <3>1. CASE Persistence
        <4>1. Indexing' = Indexing \cup {o}
          BY <1>1, <3>1 DEF Indexing, Saves
        <4>2. stage = "AVAILABLE" => cached \in index \cup {linked[p] : p \in Indexing}
          BY <3>1 DEF DocumentInv, CacheIsNewest
        <4>3. QED
          BY <1>1, <1>7, <2>1, <4>1, <4>2 DEF Saved, Indexing
      <3>2. CASE ~Persistence
        <4>1. Indexing' = {} /\ Indexing = {}
          BY <1>6, <3>2 DEF DocumentInv, Bookkeeping, Indexing
        <4>2. QED
          BY <1>1, <1>8, <2>1, <3>2, <4>1 DEF Saved
      <3>3. QED
        BY <3>1, <3>2
    <2>3. /\ \A d \in Saved : d.version \in Int
          /\ \A d \in Saved : d.updates \subseteq Ops
          /\ linked[o].updates \subseteq Ops /\ linked[o].version \in Int
      BY SavedType DEF TypeInv, TypeOK
    <2>4. SavedInOrder'
      BY <2>1, <2>2, <2>3 DEF DocumentInv, SavedInOrder
    <2>5. VersionsKnown'
      BY <1>1, <2>1, <2>2 DEF DocumentInv, VersionsKnown
    <2>6. CacheIsNewest'
      <3>1. ASSUME stage = "AVAILABLE" PROVE Newest(cached)'
        BY <2>1, <2>2, <2>3, <3>1 DEF Newest
      <3>2. Newest(linked[o])'
        BY <1>1, <2>1, <2>2, <2>3 DEF Newest
      <3>3. QED
        BY <1>1, <1>2, <2>1, <2>2, <3>1, <3>2 DEF DocumentInv, CacheIsNewest
    <2>7. SavedUpdates'
      <3>1. ASSUME NEW d \in Saved', NEW p \in d.updates
            PROVE  action[p] = "PATCH" /\ (pc'[p] = "indexing" \/ outcome'[p] = "ok")
        <4>1. \/ p \in OwnUpdate(o)
              \/ action[p] = "PATCH" /\ (pc[p] = "indexing" \/ outcome[p] = "ok") /\ p \in Ops
          BY <2>1, <2>2, <2>3 DEF DocumentInv, SavedUpdates
        <4>2. CASE p \in OwnUpdate(o)
          BY <4>2 DEF OwnUpdate, Saves
        <4>3. CASE p \notin OwnUpdate(o)
          <5>1. p \in Ops \ {o}
            BY <1>1, <4>1, <4>3 DEF OwnUpdate
          <5>2. QED
            BY <1>1, <4>1, <4>3, <5>1
        <4>4. QED
          BY <4>2, <4>3
      <3>2. ASSUME NEW p \in Ops, action[p] = "PATCH", pc'[p] = "indexing"
            PROVE  p \in linked[p].updates
        BY <1>1, <2>1, <3>2 DEF DocumentInv, SavedUpdates, OwnUpdate
      <3>3. QED
        BY <1>1, <3>1, <3>2 DEF SavedUpdates
    <2>8. AcknowledgedSaved'
      <3>1. ASSUME stage = "AVAILABLE" PROVE Acknowledged' \subseteq cached'.updates
        <4>1. cached \in Saved /\ Acknowledged \subseteq cached.updates
          BY <3>1, CachedExists DEF DocumentInv, AcknowledgedSaved
        <4>2. QED
          BY <1>3, <2>1, <3>1, <4>1
      <3>2. QED
        BY <1>1, <1>3, <3>1 DEF DocumentInv, AcknowledgedSaved
    <2>9. ReadDocument'
      <3>1. Acknowledged \subseteq Acknowledged'
        BY <1>3
      <3>2. QED
        BY <1>1, <2>2, <3>1 DEF DocumentInv, ReadDocument
    <2>10. QED
      BY <2>2, <1>4, <1>5, <1>6, <2>4, <2>5, <2>6, <2>7, <2>8, <2>9 DEF DocumentInv
  <1>9. CASE stage = "STOPPED" /\ ~Persistence
    <2>1. Indexing' = {} /\ Indexing = {}
      BY <1>6, <1>9 DEF DocumentInv, Bookkeeping, Indexing
    <2>2. Saved' = Saved
      BY <1>1, <1>9, <2>1 DEF Saved
    <2>3. SavedInOrder' /\ VersionsKnown' /\ CacheIsNewest' /\ AcknowledgedSaved'
      BY <1>1, <1>2, <1>9, <2>2
         DEF DocumentInv, SavedInOrder, VersionsKnown, CacheIsNewest, Newest, AcknowledgedSaved
    <2>4. SavedUpdates'
      <3>1. \A p \in Ops : outcome[p] = "ok" => outcome'[p] = "ok"
        BY <1>1, <1>9 DEF Saves
      <3>2. \A p \in Ops : pc[p] # "indexing" /\ pc'[p] # "indexing"
        BY <2>1 DEF Indexing
      <3>3. QED
        BY <1>1, <2>2, <3>1, <3>2, SavedType DEF DocumentInv, SavedUpdates
    <2>5. ReadDocument'
      <3>1. Acknowledged \subseteq Acknowledged'
        BY <1>3
      <3>2. QED
        BY <1>1, <2>2, <3>1 DEF DocumentInv, ReadDocument
    <2>6. QED
      BY <1>4, <1>5, <1>6, <1>9, <2>3, <2>4, <2>5 DEF DocumentInv
  <1>10. QED
    BY <1>7, <1>8, <1>9

(* The index answers: the update is acknowledged.                          *)
Indexes(o) ==
    /\ UNCHANGED <<stage, version, cached, linked, action, acked>>
    /\ pc[o] = "indexing" /\ pc'[o] = "done" /\ outcome'[o] = "ok"
    /\ index' = index \cup {linked[o]}
    /\ OthersStay(o)

LEMMA IndexesDocument ==
    ASSUME TypeInv, UpdatesOnly, DocumentInv, NEW o \in Ops, Indexes(o)
    PROVE  DocumentInv' /\ Saved' = Saved
  <1>1. /\ UNCHANGED <<stage, version, cached, linked, action, acked>>
        /\ pc[o] = "indexing" /\ pc'[o] = "done" /\ outcome'[o] = "ok" /\ action[o] # "GET"
        /\ \A p \in Ops \ {o} : pc'[p] = pc[p] /\ outcome'[p] = outcome[p]
    BY DEF Indexes, OthersStay, UpdatesOnly, UpdatePlaces
  <1>2. Indexing' = Indexing \ {o} /\ o \in Indexing
    BY <1>1 DEF Indexing
  <1>3. /\ (index \cup {linked[p] : p \in Indexing})' = index \cup {linked[p] : p \in Indexing}
        /\ index \subseteq index' /\ linked[o] \in index' /\ linked[o] \in Saved
    BY <1>1, <1>2 DEF Indexes, Saved
  <1>4. Saved' = Saved
    BY <1>1, <1>3 DEF Saved
  <1>5. Acknowledged' = Acknowledged \cup OwnUpdate(o)
    BY <1>1 DEF Acknowledged, OwnUpdate
  <1>6. OwnUpdate(o) \subseteq linked[o].updates
    BY <1>1 DEF DocumentInv, SavedUpdates, OwnUpdate
  <1>7. SavedInOrder' /\ VersionsKnown' /\ CacheIsNewest'
    BY <1>1, <1>3, <1>4 DEF DocumentInv, SavedInOrder, VersionsKnown, CacheIsNewest, Newest
  <1>8. SlotAlive'
    BY <1>1 DEF DocumentInv, SlotAlive, BeforeHandler, AfterHandler
  <1>9. SlotDocument'
    BY <1>1, <1>4 DEF DocumentInv, SlotDocument, Newest, OwnUpdate, AfterHandler
  <1>10. SavedUpdates'
    BY <1>1, <1>4, SavedType DEF DocumentInv, SavedUpdates
  <1>11. AcknowledgedSaved'
    <2>1. ASSUME Persistence, NEW p \in Acknowledged'
          PROVE  \E d \in index' : p \in d.updates
      BY <1>3, <1>5, <1>6, <2>1 DEF DocumentInv, AcknowledgedSaved
    <2>2. ASSUME stage = "AVAILABLE"
          PROVE  Acknowledged' \subseteq cached.updates
      <3>1. linked[o].updates \subseteq cached.updates
        BY <1>3, <2>2, CachedExists
      <3>2. QED
        BY <1>5, <1>6, <2>2, <3>1 DEF DocumentInv, AcknowledgedSaved
    <2>3. QED
      BY <1>1, <2>1, <2>2 DEF AcknowledgedSaved
  <1>12. ReadDocument'
    BY <1>1, <1>4, <1>5 DEF DocumentInv, ReadDocument
  <1>13. Bookkeeping'
    BY <1>1 DEF DocumentInv, Bookkeeping
  <1>14. QED
    BY <1>4, <1>7, <1>8, <1>9, <1>10, <1>11, <1>12, <1>13 DEF DocumentInv

(* The instance stops: pending requests are answered, its cached document  *)
(* is gone, and only a DELETE goes on with a document of its own.          *)
Halts(o) ==
    /\ stage' = "STOPPED" /\ cached' = NoDoc
    /\ UNCHANGED <<index, action, acked>>
    /\ version' \in Nat /\ version' >= version
    /\ action[o] # "GET"
    /\ Persistence => AloneInSlot(o) /\ stage = "AVAILABLE"
    /\ \A p \in Ops \ {o} :
          /\ linked'[p] = linked[p]
          /\ \/ pc'[p] = pc[p] /\ outcome'[p] = outcome[p]
             \/ pc[p] = "queued" /\ pc'[p] = "done" /\ outcome'[p] \in {"fail", "retry"}
    /\ \/ /\ pc[o] \in {"synchStopping", "stopping"} /\ pc'[o] = "done" /\ linked'[o] = linked[o]
          /\ outcome'[o] # "none" /\ (outcome'[o] = "ok" => action[o] = "STOP")
       \/ /\ pc[o] = "handler" /\ action[o] = "DELETE" /\ stage = "AVAILABLE"
          /\ pc'[o] \in AfterHandler /\ outcome'[o] = outcome[o]
          /\ version' > version /\ linked'[o].version = version'
          /\ linked'[o].updates = linked[o].updates

LEMMA HaltsDocument ==
    ASSUME TypeInv, UpdatesOnly, DocumentInv, NEW o \in Ops, Halts(o)
    PROVE  DocumentInv' /\ (Persistence => Saved' = Saved)
  <1>1. /\ stage' = "STOPPED" /\ cached' = NoDoc /\ UNCHANGED <<index, action, acked>>
        /\ version' \in Nat /\ version \in Nat /\ version' >= version /\ action[o] # "GET"
        /\ pc[o] \in {"synchStopping", "stopping", "handler"}
        /\ pc'[o] \in {"done", "replicating", "committing", "saving"}
    BY DEF Halts, AfterHandler, TypeInv, TypeOK
  <1>2. \A p \in Ops \ {o} :
           /\ linked'[p] = linked[p]
           /\ \/ pc'[p] = pc[p] /\ outcome'[p] = outcome[p]
              \/ pc[p] = "queued" /\ pc'[p] = "done" /\ outcome'[p] \in {"fail", "retry"}
    BY DEF Halts
  <1>3. Indexing' = Indexing /\ {linked[p] : p \in Indexing}' = {linked[p] : p \in Indexing}
    BY <1>1, <1>2 DEF Indexing
  <1>4. Saved' \subseteq Saved /\ (Persistence => Saved' = Saved)
    BY <1>1, <1>3 DEF Saved, Halts, DocumentInv, CacheIsNewest
  <1>5. \A p \in Ops : action[p] # "STOP" => (outcome'[p] = "ok" <=> outcome[p] = "ok")
    BY <1>1, <1>2 DEF Halts, DocumentInv, Bookkeeping
  <1>6. Acknowledged' = Acknowledged
    BY <1>1, <1>5 DEF Acknowledged
  <1>7. SavedInOrder' /\ CacheIsNewest' /\ AcknowledgedSaved'
    BY <1>1, <1>4, <1>6 DEF DocumentInv, SavedInOrder, CacheIsNewest, Newest, AcknowledgedSaved
  <1>8. VersionsKnown'
    BY <1>1, <1>4 DEF DocumentInv, VersionsKnown
  <1>9. SlotAlive'
    <2>1. ASSUME Persistence, NEW p \in Ops
          PROVE  /\ pc'[p] \in BeforeHandler => action[p] = "GET"
                 /\ pc'[p] \in AfterHandler => action[p] = "DELETE"
      <3>1. CASE p = o
        BY <1>1, <3>1 DEF Halts, BeforeHandler, AfterHandler
      <3>2. CASE p # o
        <4>1. action[p] # "GET" => pc[p] \notin SlotPlaces
          BY <2>1, <3>2 DEF Halts, AloneInSlot
        <4>2. BeforeHandler \subseteq SlotPlaces /\ AfterHandler \subseteq SlotPlaces
              /\ "done" \notin SlotPlaces
          BY DEF BeforeHandler, AfterHandler, SlotPlaces
        <4>3. pc[p] \in AfterHandler => pc[p] \in UpdatePlaces
          BY DEF AfterHandler, UpdatePlaces
        <4>4. pc'[p] \in SlotPlaces => pc'[p] = pc[p] /\ action[p] = "GET"
          BY <1>2, <3>2, <4>1, <4>2
        <4>5. pc'[p] \in AfterHandler => FALSE
          BY <4>2, <4>3, <4>4 DEF UpdatesOnly
        <4>6. QED
          BY <4>2, <4>4, <4>5
      <3>3. QED
        BY <3>1, <3>2
    <2>2. QED
      BY <1>1, <2>1 DEF SlotAlive, DocumentInv, Bookkeeping
  <1>10. SlotDocument'
    <2>1. SUFFICES ASSUME NEW p \in Ops, action[p] # "GET", pc'[p] \in AfterHandler, Persistence
                   PROVE  /\ linked'[p].version <= version'
                          /\ \A d \in Saved : d.version < linked'[p].version
                          /\ \E m \in Saved : Newest(m)
                                /\ linked'[p].updates = m.updates \cup OwnUpdate(p)
      BY <1>1, <1>4 DEF SlotDocument, Newest, OwnUpdate
    <2>2. p = o
      BY <1>2, <2>1 DEF Halts, AloneInSlot, AfterHandler, SlotPlaces
    <2>3. /\ pc[o] = "handler" /\ action[o] = "DELETE" /\ stage = "AVAILABLE"
          /\ version' > version /\ linked'[o].version = version'
          /\ linked'[o].updates = linked[o].updates
      BY <2>1, <2>2 DEF Halts, AfterHandler
    <2>4. linked[o] = cached /\ OwnUpdate(o) = {}
      BY <2>3 DEF DocumentInv, SlotDocument, OwnUpdate
    <2>5. cached \in Saved /\ Newest(cached)
      BY <2>3, CachedExists
    <2>6. \A d \in Saved : d.version < linked'[o].version
      BY <1>1, <2>3 DEF DocumentInv, VersionsKnown
    <2>7. linked'[o].updates = cached.updates \cup OwnUpdate(o)
      BY <2>3, <2>4
    <2>8. QED
      BY <1>1, <2>2, <2>3, <2>5, <2>6, <2>7
  <1>11. SavedUpdates'
    <2>1. \A p \in Ops : /\ pc'[p] = "indexing" <=> pc[p] = "indexing"
                         /\ pc[p] = "indexing" => linked'[p] = linked[p]
      BY <1>1, <1>2
    <2>2. QED
      BY <1>1, <1>4, <1>5, <2>1, SavedType DEF DocumentInv, SavedUpdates
  <1>12. ReadDocument'
    BY <1>1, <1>2, <1>4, <1>6 DEF DocumentInv, ReadDocument, TypeInv, TypeOK
  <1>13. Bookkeeping'
    BY <1>1, <1>2 DEF DocumentInv, Bookkeeping, Halts, AfterHandler
  <1>14. QED
    BY <1>4, <1>7, <1>8, <1>9, <1>10, <1>11, <1>12, <1>13 DEF DocumentInv

-----------------------------------------------------------------------------
(* Every step has one of these effects on the document.                    *)
DocumentEffect ==
    \/ Quiet
    \/ \E o \in Ops : Loads(o) \/ Reads(o) \/ Applies(o) \/ Saves(o) \/ Indexes(o) \/ Halts(o)

(* Nothing but places and outcomes changes, and only those of o and of the *)
(* request processPending hands on.                                        *)
LEMMA OnePasses ==
    ASSUME TypeInv, NEW o \in Ops, Passes(o), UNCHANGED <<stage, document, requests>>,
           \A p \in Ops \ {o} :
              /\ outcome'[p] = outcome[p]
              /\ pc'[p] = pc[p] \/ (pc[p] = "queued" /\ pc'[p] = "dispatched")
    PROVE  Quiet
  <1>1. \A p \in Ops : Passes(p)
    <2>1. ASSUME NEW p \in Ops \ {o} PROVE Passes(p)
      BY DEF Passes, BeforeHandler
    <2>2. QED
      BY <2>1
  <1>2. \A p \in Ops : KeepsDocument(p)
    BY DEF KeepsDocument, requests
  <1>3. version' \in Nat /\ version' >= version
    BY DEF document, TypeInv, TypeOK
  <1>4. QED
    BY <1>1, <1>2, <1>3 DEF Quiet, document, requests

(* ... in an action that does not release the slot.                        *)
LEMMA MovePasses ==
    ASSUME TypeInv, NEW o \in Ops, NEW next, UNCHANGED <<stage, document, requests, outcome>>,
           pc' = [pc EXCEPT ![o] = next],
           \/ pc[o] \in {"replicating", "committing"} /\ next \in {"committing", "saving"}
           \/ /\ pc[o] \notin {"indexing", "done"}
              /\ next \in {"dispatched", "queued", "scheduled", "linking", "loading",
                           "stopHandler", "synchStopping", "stopCheck", "stopping", "abandoned"}
              /\ next \in BeforeHandler =>
                    action[o] = "GET" \/ stage = "AVAILABLE" \/ pc[o] \in BeforeHandler
              /\ next = "loading" => stage = "STOPPED" /\ Persistence
              /\ next \in {"stopHandler", "stopCheck", "stopping", "abandoned"} => action[o] = "STOP"
    PROVE  Quiet
  <1>1. pc \in [Ops -> Places]
    BY DEF TypeInv, TypeOK
  <1>2. pc'[o] = next /\ \A p \in Ops \ {o} : pc'[p] = pc[p]
    BY <1>1
  <1>3. Passes(o)
    BY <1>2 DEF Passes
  <1>4. QED
    BY <1>2, <1>3, OnePasses

LEMMA CompletePasses ==
    ASSUME TypeInv, NEW o \in Ops, NEW result, Complete(o, result),
           UNCHANGED <<stage, document, requests>>, pc[o] \notin {"indexing", "done"},
           result # "none", result = "ok" => action[o] = "STOP"
    PROVE  Quiet
  <1>1. pc \in [Ops -> Places] /\ outcome \in [Ops -> Outcomes]
    BY DEF TypeInv, TypeOK
  <1>2. /\ pc'[o] = "done" /\ outcome'[o] = result
        /\ \A p \in Ops \ {o} : pc'[p] = pc[p] /\ outcome'[p] = outcome[p]
    BY <1>1 DEF Complete
  <1>3. Passes(o)
    BY <1>2 DEF Passes
  <1>4. QED
    BY <1>2, <1>3, OnePasses

LEMMA ReleasePasses ==
    ASSUME WakeInv, NEW o \in Ops, NEW next, NEW result, processPending(o, next),
           outcome' = [outcome EXCEPT ![o] = result],
           UNCHANGED <<stage, document, requests>>, pc[o] \notin {"queued", "indexing", "done"},
           \/ next = "done" /\ result # "none" /\ result # "ok"
           \/ next \in {"stopCheck", "abandoned"} /\ result = outcome[o] /\ action[o] = "STOP"
    PROVE  Quiet
  <1>1. TypeInv /\ outcome \in [Ops -> Outcomes]
    BY DEF WakeInv, TypeInv, TypeOK
  <1>2. /\ outcome'[o] = result
        /\ \A p \in Ops \ {o} : outcome'[p] = outcome[p]
    BY <1>1
  <1>3. /\ pc'[o] = next
        /\ \A p \in Ops \ {o} : pc'[p] = pc[p] \/ (pc[p] = "queued" /\ pc'[p] = "dispatched")
    BY PendingPlaces
  <1>4. Passes(o)
    BY <1>2, <1>3 DEF Passes, BeforeHandler
  <1>5. QED
    BY <1>1, <1>2, <1>3, <1>4, OnePasses

LEMMA SubmitDocument ==
    ASSUME TypeInv, NEW o \in Ops, Submit(o)
    PROVE  Quiet
  <1>1. /\ pc \in [Ops -> Places] /\ acked \in [Ops -> SUBSET Ops] /\ version \in Nat
    BY DEF TypeInv, TypeOK
  <1>2. \A p \in Ops : Passes(p) /\ KeepsDocument(p)
    BY <1>1 DEF Submit, Passes, KeepsDocument, BeforeHandler
  <1>3. QED
    BY <1>1, <1>2 DEF Submit, Quiet, document

LEMMA RetryIsNotOk == RetryOutcome \in {"retry", "fail"}
  BY DEF RetryOutcome

LEMMA AdmitDocument ==
    ASSUME TypeInv, NEW o \in Ops, Admit(o)
    PROVE  Quiet
  <1>1. CASE checkServiceStopped(o)
    <2>1. PICK result : /\ Complete(o, result) /\ result # "none"
                        /\ result = "ok" => action[o] = "STOP"
      BY <1>1, RetryIsNotOk DEF checkServiceStopped
    <2>2. QED
      BY <1>1, <2>1, CompletePasses DEF checkServiceStopped
  <1>2. ASSUME UNCHANGED <<stage, document, requests>>, pc[o] = "dispatched", stage = "AVAILABLE",
               \/ UNCHANGED outcome /\ \E next \in {"scheduled", "queued"} :
                                           pc' = [pc EXCEPT ![o] = next]
               \/ Complete(o, "fail")
        PROVE  Quiet
    BY <1>2, MovePasses, CompletePasses
  <1>3. CASE queueConcurrentGet(o)
    BY <1>2, <1>3 DEF queueConcurrentGet
  <1>4. CASE queueGetRequestInternal(o)
    BY <1>2, <1>4 DEF queueGetRequestInternal, EnqueueOrFail
  <1>5. CASE queueUpdateRequestInternal(o)
    BY <1>2, <1>5 DEF queueUpdateRequestInternal, EnqueueOrFail, queueSynchRequest
  <1>6. QED
    BY <1>1, <1>3, <1>4, <1>5 DEF Admit

(* A request that fails where its document does not count yet.             *)
LEMMA FailDocument ==
    ASSUME WakeInv, NEW o \in Ops, failRequest(o), UNCHANGED <<stage, document, requests>>,
           pc[o] \notin {"queued", "indexing", "done"}
    PROVE  Quiet
  BY ReleasePasses DEF failRequest

LEMMA LoadDocument ==
    ASSUME ExclusionInv, DocumentInv, NEW o \in Ops, loadServiceState(o) \/ loadFromIndex(o)
    PROVE  DocumentEffect
  <1>1. /\ TypeInv /\ stage \in {"AVAILABLE", "STOPPED"}
        /\ pc \in [Ops -> Places] /\ linked \in [Ops -> Docs]
    BY DEF ExclusionInv, WakeInv, TypeInv, TypeOK
  <1>2. /\ PlaceAfterLoad(o) \in {"handler", "synchronizing"}
        /\ action[o] = "GET" => PlaceAfterLoad(o) = "handler"
        /\ PlaceAfterLoad(o) = "synchronizing" => action[o] = "SYNCH"
    BY ConstantsAssumption DEF PlaceAfterLoad, ExclusionInv, OwnerStays
  <1>3. CASE loadServiceState(o) /\ cached = NoDoc /\ Persistence
    <2>1. stage = "STOPPED"
      BY <1>1, <1>3, CachedExists
    <2>2. UNCHANGED <<stage, document, requests, outcome>> /\ pc' = [pc EXCEPT ![o] = "loading"]
          /\ pc[o] = "linking"
      BY <1>3 DEF loadServiceState, requests
    <2>3. Quiet
      BY <1>1, <1>3, <2>1, <2>2, MovePasses DEF BeforeHandler
    <2>4. QED
      BY <2>3 DEF DocumentEffect
  <1>4. CASE loadServiceState(o) /\ ~(cached = NoDoc /\ Persistence)
    <2>1. stage = "AVAILABLE" \/ ~Persistence
      BY <1>1, <1>4 DEF DocumentInv, CacheIsNewest
    <2>2. Loads(o)
      BY <1>1, <1>2, <1>4, <2>1 DEF loadServiceState, Loads, OthersStay, document
    <2>3. QED
      BY <2>2 DEF DocumentEffect
  <1>5. CASE loadFromIndex(o)
    <2>1. stage = "STOPPED"
      BY <1>5 DEF loadFromIndex, DocumentInv, Bookkeeping
    <2>2. UNCHANGED cached
      BY <1>5, <2>1 DEF loadFromIndex, updateCachedServiceState
    <2>3. Loads(o)
      BY <1>1, <1>2, <1>5, <2>2 DEF loadFromIndex, Loads, OthersStay
    <2>4. QED
      BY <2>3 DEF DocumentEffect
  <1>6. QED
    BY <1>3, <1>4, <1>5

LEMMA ProcessDocument ==
    ASSUME ~IndexCanFail, ExclusionInv, DocumentInv, NEW o \in Ops, Process(o)
    PROVE  DocumentEffect
  <1>1. /\ WakeInv /\ TypeInv /\ stage \in {"AVAILABLE", "STOPPED"} /\ version \in Nat
        /\ pc \in [Ops -> Places] /\ linked \in [Ops -> Docs] /\ outcome \in [Ops -> Outcomes]
    BY DEF ExclusionInv, WakeInv, TypeInv, TypeOK
  <1>2. CASE handleRequest(o)
    <2>1. Quiet
      <3>1. UNCHANGED <<stage, document, requests>> /\ pc[o] = "scheduled"
        BY <1>2 DEF handleRequest
      <3>2. \/ UNCHANGED outcome /\ pc' = [pc EXCEPT ![o] = "stopHandler"] /\ action[o] = "STOP"
            \/ UNCHANGED outcome /\ pc' = [pc EXCEPT ![o] = "linking"]
            \/ Complete(o, RetryOutcome)
        BY <1>2 DEF handleRequest
      <3>3. QED
        BY <1>1, <3>1, <3>2, MovePasses, CompletePasses, RetryIsNotOk DEF BeforeHandler
    <2>2. QED
      BY <2>1 DEF DocumentEffect
  <1>3. CASE loadServiceState(o) \/ loadFromIndex(o)
    BY <1>3, LoadDocument
  <1>4. CASE handleGet(o) /\ linked[o] = NoDoc /\ stage = "STOPPED"
    <2>1. Complete(o, RetryOutcome) /\ UNCHANGED <<stage, document, requests>> /\ pc[o] = "handler"
      BY <1>4 DEF handleGet
    <2>2. Quiet
      BY <1>1, <2>1, CompletePasses, RetryIsNotOk
    <2>3. QED
      BY <2>2 DEF DocumentEffect
  <1>5. CASE handleGet(o) /\ ~(linked[o] = NoDoc /\ stage = "STOPPED")
    <2>1. processPending(o, "done") /\ outcome' = [outcome EXCEPT ![o] = "ok"]
          /\ UNCHANGED <<stage, document, requests>> /\ pc[o] = "handler" /\ action[o] = "GET"
      BY <1>5 DEF handleGet
    <2>2. /\ pc'[o] = "done"
          /\ \A p \in Ops \ {o} : pc'[p] = pc[p] \/ (pc[p] = "queued" /\ pc'[p] = "dispatched")
      BY <1>1, <2>1, PendingPlaces
    <2>3. Reads(o)
      BY <1>1, <1>5, <2>1, <2>2 DEF Reads, document, requests
    <2>4. QED
      BY <2>3 DEF DocumentEffect
  <1>6. CASE handlerFailure(o) \/ replicationFailure(o)
    <2>1. failRequest(o) /\ UNCHANGED <<stage, document, requests>>
          /\ pc[o] \notin {"queued", "indexing", "done"}
      BY <1>6 DEF handlerFailure, replicationFailure
    <2>2. QED
      BY <1>1, <2>1, FailDocument DEF DocumentEffect
  <1>7. CASE stateNotModified(o)
    <2>1. Quiet
      BY <1>1, <1>7, ReleasePasses DEF stateNotModified
    <2>2. QED
      BY <2>1 DEF DocumentEffect
  <1>8. CASE handleUpdate(o)
    <2>1. /\ version' = version + 1
          /\ linked'[o] = [version |-> version + 1, updates |-> linked[o].updates \cup {o}]
          /\ \A p \in Ops \ {o} : linked'[p] = linked[p]
      BY <1>1, <1>8 DEF handleUpdate, applyUpdate
    <2>2. pc'[o] \in AfterHandler /\ \A p \in Ops \ {o} : pc'[p] = pc[p]
      BY <1>1, <1>8 DEF handleUpdate, PlaceAfterHandler, AfterHandler
    <2>3. /\ UNCHANGED <<stage, cached, index, action, acked, outcome>>
          /\ pc[o] = "handler" /\ action[o] = "PATCH"
      BY <1>8 DEF handleUpdate
    <2>4. Applies(o)
      BY <1>1, <2>1, <2>2, <2>3 DEF Applies, OthersStay, OwnUpdate
    <2>5. QED
      BY <2>4 DEF DocumentEffect
  <1>9. CASE handleDelete(o)
    <2>1. /\ version' = version + 1
          /\ linked'[o] = [version |-> version + 1, updates |-> linked[o].updates \cup {}]
          /\ \A p \in Ops \ {o} : linked'[p] = linked[p]
          /\ UNCHANGED <<index, action, acked>> /\ pc[o] = "handler" /\ action[o] = "DELETE"
      BY <1>1, <1>9 DEF handleDelete, applyUpdate
    <2>2. CASE stage = "STOPPED"
      <3>1. Complete(o, RetryOutcome) /\ UNCHANGED <<stage, cached>>
        BY <1>9, <2>2 DEF handleDelete
      <3>2. /\ pc'[o] = "done" /\ outcome'[o] = RetryOutcome
            /\ \A p \in Ops \ {o} : pc'[p] = pc[p] /\ outcome'[p] = outcome[p]
        BY <1>1, <3>1 DEF Complete
      <3>3. \A p \in Ops : Passes(p) /\ KeepsDocument(p)
        BY <2>1, <3>2, RetryIsNotOk DEF Passes, KeepsDocument
      <3>4. Quiet
        BY <1>1, <2>1, <3>1, <3>3 DEF Quiet
      <3>5. QED
        BY <3>4 DEF DocumentEffect
    <2>3. CASE stage = "AVAILABLE"
      <3>1. cancelPendingRequests(o, PlaceAfterHandler, "none", "fail") /\ stopService
        BY <1>9, <2>3 DEF handleDelete
      <3>2. /\ pc'[o] = PlaceAfterHandler /\ outcome'[o] = "none"
            /\ \A p \in Ops \ {o} :
                  \/ pc'[p] = pc[p] /\ outcome'[p] = outcome[p]
                  \/ pc[p] = "queued" /\ pc'[p] = "done" /\ outcome'[p] = "fail"
        BY <1>1, <3>1, CancelledPlaces
      <3>3. outcome[o] = "none" /\ AloneInSlot(o)
        BY <2>1, UpdateAlone DEF DocumentInv, Bookkeeping, SlotPlaces
      <3>4. pc'[o] \in AfterHandler
        BY <3>2 DEF PlaceAfterHandler, AfterHandler
      <3>5. Halts(o)
        BY <1>1, <2>1, <2>3, <3>1, <3>2, <3>3, <3>4 DEF Halts, stopService
      <3>6. QED
        BY <3>5 DEF DocumentEffect
    <2>4. QED
      BY <1>1, <2>2, <2>3
  <1>10. CASE replicationComplete(o) \/ commitComplete(o)
    <2>1. PICK next \in {"committing", "saving"} : pc' = [pc EXCEPT ![o] = next]
      BY <1>10 DEF replicationComplete, commitComplete
    <2>2. UNCHANGED <<stage, document, requests, outcome>> /\ pc[o] \in {"replicating", "committing"}
      BY <1>10 DEF replicationComplete, commitComplete
    <2>3. Quiet
      BY <1>1, <2>1, <2>2, MovePasses
    <2>4. QED
      BY <2>3 DEF DocumentEffect
  <1>11. CASE processCompletionStageIndexing(o)
    <2>1. /\ pc[o] = "saving" /\ updateCachedServiceState(linked[o])
          /\ UNCHANGED <<stage, version, index, action, linked, acked>>
      BY <1>11 DEF processCompletionStageIndexing
    <2>2. \E next : processPending(o, next) /\ next = IF Persistence THEN "indexing" ELSE "done"
      BY <1>11 DEF processCompletionStageIndexing
    <2>3. /\ pc'[o] = IF Persistence THEN "indexing" ELSE "done"
          /\ \A p \in Ops \ {o} : pc'[p] = pc[p] \/ (pc[p] = "queued" /\ pc'[p] = "dispatched")
      BY <1>1, <2>1, <2>2, PendingPlaces
    <2>4. /\ outcome'[o] = IF Persistence THEN outcome[o] ELSE "ok"
          /\ \A p \in Ops \ {o} : outcome'[p] = outcome[p]
      BY <1>1, <1>11 DEF processCompletionStageIndexing
    <2>5. action[o] # "GET"
      BY <1>1, <2>1 DEF WakeInv, UpdatesOnly, UpdatePlaces
    <2>6. AloneInSlot(o)
      BY <2>1, <2>5, UpdateAlone DEF SlotPlaces
    <2>7. Saves(o)
      BY <2>1, <2>3, <2>4, <2>5, <2>6 DEF Saves, updateCachedServiceState
    <2>8. QED
      BY <2>7 DEF DocumentEffect
  <1>12. CASE indexComplete(o)
    <2>1. Indexes(o)
      BY <1>1, <1>12 DEF indexComplete, Complete, Indexes, OthersStay, requests
    <2>2. QED
      BY <2>1 DEF DocumentEffect
  <1>13. ~indexFailure(o)
    BY DEF indexFailure
  <1>14. QED
    BY <1>2, <1>3, <1>4, <1>5, <1>6, <1>7, <1>8, <1>9, <1>10, <1>11, <1>12, <1>13 DEF Process

LEMMA SynchronizeDocument ==
    ASSUME ~IndexCanFail, ~OwnershipCanMove, ExclusionInv, DocumentInv, NEW o \in Ops, Synchronize(o)
    PROVE  DocumentEffect
  <1>1. /\ WakeInv /\ TypeInv /\ stage \in {"AVAILABLE", "STOPPED"} /\ version \in Nat
        /\ pc \in [Ops -> Places] /\ linked \in [Ops -> Docs] /\ outcome \in [Ops -> Outcomes]
        /\ isOwner \in BOOLEAN
    BY DEF ExclusionInv, WakeInv, TypeInv, TypeOK
  <1>2. pc[o] \in UpdatePlaces => action[o] # "GET"
    BY <1>1 DEF WakeInv, UpdatesOnly
  <1>3. CASE synchronizeWithPeers(o)
    <2>1. PICK a \in PeerAnswers(o) :
             /\ AdoptPeerState(o, a)
             /\ IF IsStateUpdated(a)
                THEN pc' = [pc EXCEPT ![o] = "saving"] /\ UNCHANGED <<slots, outcome>>
                ELSE /\ processPending(o, "done")
                     /\ outcome' = [outcome EXCEPT ![o] = "notModified"]
      BY <1>3 DEF synchronizeWithPeers
    <2>2. UNCHANGED <<stage, cached, index, action, acked>> /\ pc[o] = "synchronizing"
      BY <1>3 DEF synchronizeWithPeers
    <2>3. a.owner = isOwner /\ a.version \in Int
      <3>1. linked[o].version \in Int /\ MaxVersion \in Nat
        BY <1>1, ConstantsAssumption DEF Docs
      <3>2. QED
        BY <3>1 DEF PeerAnswers
    <2>4. IsStateUpdated(a) <=> a.version > version
      BY <1>1, <2>3 DEF IsStateUpdated
    <2>5. /\ version' = IF a.version > version THEN a.version ELSE version
          /\ linked'[o].version = a.version /\ linked'[o].updates = linked[o].updates
          /\ \A p \in Ops \ {o} : linked'[p] = linked[p]
      BY <1>1, <2>1 DEF AdoptPeerState, Docs
    <2>6. action[o] # "GET"
      BY <1>2, <2>2 DEF UpdatePlaces
    <2>7. CASE a.version > version
      <3>1. pc' = [pc EXCEPT ![o] = "saving"] /\ UNCHANGED outcome
        BY <2>1, <2>4, <2>7
      <3>2. OwnUpdate(o) = {}
        BY <2>2 DEF OwnUpdate, DocumentInv, Bookkeeping
      <3>3. Applies(o)
        BY <1>1, <2>2, <2>3, <2>5, <2>6, <2>7, <3>1, <3>2 DEF Applies, OthersStay, AfterHandler
      <3>4. QED
        BY <3>3 DEF DocumentEffect
    <2>8. CASE ~(a.version > version)
      <3>1. processPending(o, "done") /\ outcome' = [outcome EXCEPT ![o] = "notModified"]
        BY <2>1, <2>4, <2>8
      <3>2. /\ pc'[o] = "done"
            /\ \A p \in Ops \ {o} : pc'[p] = pc[p] \/ (pc[p] = "queued" /\ pc'[p] = "dispatched")
        BY <1>1, <2>2, <3>1, PendingPlaces
      <3>3. /\ outcome'[o] = "notModified"
            /\ \A p \in Ops \ {o} : outcome'[p] = outcome[p]
        BY <1>1, <3>1
      <3>4. ASSUME NEW p \in Ops PROVE Passes(p) /\ KeepsDocument(p)
        BY <2>2, <2>5, <2>6, <3>2, <3>3 DEF Passes, KeepsDocument, BeforeHandler
      <3>5. Quiet
        BY <1>1, <2>2, <2>5, <2>8, <3>4 DEF Quiet
      <3>6. QED
        BY <3>5 DEF DocumentEffect
    <2>9. QED
      BY <2>7, <2>8
  <1>4. CASE handleSynchFailure(o)
    <2>1. Quiet
      BY <1>1, <1>4, FailDocument DEF handleSynchFailure
    <2>2. QED
      BY <2>1 DEF DocumentEffect
  <1>5. CASE synchMarkedDeleted(o)
    <2>1. UNCHANGED <<stage, document, requests>> /\ pc[o] = "synchronizing"
      BY <1>5 DEF synchMarkedDeleted, ExclusionInv, OwnerStays
    <2>2. \/ failRequest(o)
          \/ UNCHANGED outcome /\ pc' = [pc EXCEPT ![o] = "synchStopping"]
      BY <1>5 DEF synchMarkedDeleted
    <2>3. Quiet
      BY <1>1, <2>1, <2>2, FailDocument, MovePasses DEF BeforeHandler
    <2>4. QED
      BY <2>3 DEF DocumentEffect
  <1>6. CASE synchStopAndCancel(o)
    <2>1. /\ cancelPendingRequests(o, "done", "fail", RetryOutcome) /\ stopService
          /\ UNCHANGED <<version, index, requests>> /\ pc[o] = "synchStopping"
      BY <1>6 DEF synchStopAndCancel
    <2>2. /\ pc'[o] = "done" /\ outcome'[o] = "fail"
          /\ \A p \in Ops \ {o} :
                \/ pc'[p] = pc[p] /\ outcome'[p] = outcome[p]
                \/ pc[p] = "queued" /\ pc'[p] = "done" /\ outcome'[p] = RetryOutcome
      BY <1>1, <2>1, CancelledPlaces
    <2>3. action[o] # "GET" /\ AloneInSlot(o)
      BY <1>2, <2>1, UpdateAlone DEF UpdatePlaces, SlotPlaces
    <2>4. Persistence => stage = "AVAILABLE"
      BY <1>1, <2>1, <2>3 DEF DocumentInv, SlotAlive, BeforeHandler
    <2>5. Halts(o)
      BY <1>1, <2>1, <2>2, <2>3, <2>4, RetryIsNotOk DEF Halts, stopService, requests
    <2>6. QED
      BY <2>5 DEF DocumentEffect
  <1>7. ~(synchWithPeersAndReProcess(o) \/ reprocessAfterIndexing(o) \/ reprocessIndexFailure(o))
    BY DEF synchWithPeersAndReProcess, reprocessAfterIndexing, reprocessIndexFailure,
           ExclusionInv, OwnerStays
  <1>8. QED
    BY <1>3, <1>4, <1>5, <1>6, <1>7 DEF Synchronize

LEMMA StopDocument ==
    ASSUME ExclusionInv, DocumentInv, NEW o \in Ops, Stop(o)
    PROVE  DocumentEffect
  <1>1. /\ WakeInv /\ TypeInv /\ stage \in {"AVAILABLE", "STOPPED"} /\ version \in Nat
        /\ pc \in [Ops -> Places] /\ outcome \in [Ops -> Outcomes]
    BY DEF ExclusionInv, WakeInv, TypeInv, TypeOK
  <1>2. pc[o] \in {"stopHandler", "stopCheck", "stopping"} /\ action[o] = "STOP" /\ ~Persistence
    BY DEF Stop, handleStop, handleStopFailure, handleStopCompletion, stopAndCancel,
           DocumentInv, Bookkeeping
  <1>3. CASE handleStop(o) \/ handleStopFailure(o)
    <2>1. PICK next \in {"stopCheck", "abandoned"} : processPending(o, next)
      BY <1>3 DEF handleStop, handleStopFailure
    <2>2. outcome' = [outcome EXCEPT ![o] = outcome[o]] /\ UNCHANGED <<stage, document, requests>>
      BY <1>1, <1>3 DEF handleStop, handleStopFailure
    <2>3. Quiet
      BY <1>1, <1>2, <2>1, <2>2, ReleasePasses
    <2>4. QED
      BY <2>3 DEF DocumentEffect
  <1>4. CASE handleStopCompletion(o)
    <2>1. UNCHANGED <<stage, document, requests>> /\ pc[o] = "stopCheck"
      BY <1>4 DEF handleStopCompletion
    <2>2. \/ \E result \in {"ok", "fail"} : Complete(o, result)
          \/ UNCHANGED outcome /\ pc' = [pc EXCEPT ![o] = "stopping"]
      BY <1>4 DEF handleStopCompletion
    <2>3. Quiet
      BY <1>1, <1>2, <2>1, <2>2, CompletePasses, MovePasses DEF BeforeHandler
    <2>4. QED
      BY <2>3 DEF DocumentEffect
  <1>5. CASE stopAndCancel(o)
    <2>1. /\ cancelPendingRequests(o, "done", "ok", RetryOutcome) /\ stopService
          /\ UNCHANGED <<version, index, requests>> /\ pc[o] = "stopping"
      BY <1>5 DEF stopAndCancel
    <2>2. /\ pc'[o] = "done" /\ outcome'[o] = "ok"
          /\ \A p \in Ops \ {o} :
                \/ pc'[p] = pc[p] /\ outcome'[p] = outcome[p]
                \/ pc[p] = "queued" /\ pc'[p] = "done" /\ outcome'[p] = RetryOutcome
      BY <1>1, <2>1, CancelledPlaces
    <2>3. Halts(o)
      BY <1>1, <1>2, <2>1, <2>2, RetryIsNotOk DEF Halts, stopService, requests
    <2>4. QED
      BY <2>3 DEF DocumentEffect
  <1>6. QED
    BY <1>3, <1>4, <1>5 DEF Stop

LEMMA DocumentInit == StableService /\ Init => DocumentInv
  <1>1. SUFFICES ASSUME StableService, Init PROVE DocumentInv
    OBVIOUS
  <1>2. /\ stage = "AVAILABLE" /\ cached = InitialDoc /\ version = 0
        /\ index = IF Persistence THEN {InitialDoc} ELSE {}
        /\ \A o \in Ops : pc[o] = "new" /\ outcome[o] = "none" /\ acked[o] = {}
        /\ \A o \in Ops : Persistence => action[o] # "STOP"
    BY <1>1 DEF Init, StableService
  <1>3. InitialDoc.version = 0 /\ InitialDoc.updates = {}
    BY DEF InitialDoc
  <1>4. Indexing = {} /\ Acknowledged = {}
    BY <1>2 DEF Indexing, Acknowledged
  <1>5. Saved = {InitialDoc}
    BY <1>2, <1>4 DEF Saved
  <1>6. SavedInOrder /\ VersionsKnown /\ CacheIsNewest
    BY <1>2, <1>3, <1>5 DEF SavedInOrder, VersionsKnown, CacheIsNewest, Newest
  <1>7. SlotAlive /\ SlotDocument /\ SavedUpdates /\ AcknowledgedSaved
    BY <1>2, <1>3, <1>4, <1>5
       DEF SlotAlive, SlotDocument, SavedUpdates, AcknowledgedSaved, AfterHandler
  <1>8. ReadDocument /\ Bookkeeping
    BY <1>2 DEF ReadDocument, Bookkeeping
  <1>9. QED
    BY <1>6, <1>7, <1>8 DEF DocumentInv

LEMMA StepDocument ==
    ASSUME ~IndexCanFail, ~OwnershipCanMove, ExclusionInv, DocumentInv, [Next]_vars
    PROVE  DocumentEffect
  <1>1. TypeInv /\ version \in Nat
    BY DEF ExclusionInv, WakeInv, TypeInv, TypeOK
  <1>2. ASSUME NEW o \in Ops, Submit(o) \/ Admit(o) PROVE DocumentEffect
    BY <1>1, <1>2, SubmitDocument, AdmitDocument DEF DocumentEffect
  <1>3. ASSUME NEW o \in Ops, Process(o) PROVE DocumentEffect
    BY <1>3, ProcessDocument
  <1>4. ASSUME NEW o \in Ops, Synchronize(o) PROVE DocumentEffect
    BY <1>4, SynchronizeDocument
  <1>5. ASSUME NEW o \in Ops, Stop(o) PROVE DocumentEffect
    BY <1>5, StopDocument
  <1>6. ~loseOwnership
    BY DEF loseOwnership
  <1>7. CASE Quiescent \/ UNCHANGED vars
    <2>1. UNCHANGED <<stage, document, requests, pc, outcome>>
      BY <1>7 DEF Quiescent, vars
    <2>2. Quiet
      BY <1>1, <2>1 DEF Quiet, Passes, KeepsDocument, document, requests
    <2>3. QED
      BY <2>2 DEF DocumentEffect
  <1>8. QED
    BY <1>2, <1>3, <1>4, <1>5, <1>6, <1>7 DEF Next

StableInv == ExclusionInv /\ DocumentInv

LEMMA StableStep ==
    ASSUME StableService
    PROVE  StableInv /\ [Next]_vars => StableInv'
  <1>1. SUFFICES ASSUME StableInv, [Next]_vars PROVE StableInv'
    OBVIOUS
  <1>2. ExclusionInv'
    BY <1>1, ExclusionStep DEF StableInv, StableService
  <1>3. TypeInv /\ UpdatesOnly /\ DocumentInv
    BY <1>1 DEF StableInv, ExclusionInv, WakeInv
  <1>4. DocumentEffect
    BY <1>1, StepDocument DEF StableInv, StableService
  <1>5. DocumentInv'
    BY <1>3, <1>4, QuietDocument, LoadsDocument, ReadsDocument, AppliesDocument, SavesDocument,
       IndexesDocument, HaltsDocument DEF DocumentEffect
  <1>6. QED
    BY <1>2, <1>5 DEF StableInv

LEMMA StableInvariant ==
    ASSUME StableService
    PROVE  Spec => []StableInv
  <1>1. Init => StableInv
    BY DocumentInit, ExclusionInit DEF StableInv
  <1>2. QED
    BY <1>1, StableStep, PTL DEF Spec

-----------------------------------------------------------------------------
(* No update the client saw succeed is lost, in whatever order the index   *)
(* answers, whichever updates fail in between, and also when a DELETE or a *)
(* synchronization stops the instance (saveServiceState).                  *)
THEOREM AcknowledgedKept ==
    ASSUME StableService
    PROVE  Spec => []AcknowledgedUpdatesKept
  <1>1. StableInv => AcknowledgedUpdatesKept
    <2>1. SUFFICES ASSUME StableInv, Persistence \/ stage = "AVAILABLE"
                   PROVE  Acknowledged \subseteq NewestDoc.updates
      BY DEF AcknowledgedUpdatesKept
    <2>2. TypeInv /\ DocumentInv
      BY <2>1 DEF StableInv, ExclusionInv, WakeInv
    <2>3. CASE Persistence
      <3>1. PICK m \in index : \A e \in index : e.version <= m.version
        BY <2>2, <2>3 DEF TypeInv, HasLatest
      <3>2. index \subseteq Saved
        BY DEF Saved
      <3>3. Latest(index) = m
        BY <2>2, <3>1, <3>2, LatestSaved
      <3>4. Acknowledged \subseteq m.updates
        BY <2>2, <2>3, <3>1, <3>2 DEF DocumentInv, AcknowledgedSaved, SavedInOrder
      <3>5. QED
        BY <2>3, <3>3, <3>4 DEF NewestDoc
    <2>4. CASE ~Persistence
      BY <2>1, <2>2, <2>4 DEF NewestDoc, DocumentInv, AcknowledgedSaved
    <2>5. QED
      BY <2>3, <2>4
  <1>2. QED
    BY <1>1, StableInvariant, PTL

(* A GET returns every update acknowledged before it was sent, from the    *)
(* cache or from the index (loadServiceState).                             *)
THEOREM ReadsCurrent ==
    ASSUME StableService
    PROVE  Spec => []ReadsSeeAcknowledged
  <1>1. StableInv => ReadsSeeAcknowledged
    BY DEF StableInv, DocumentInv, ReadDocument, Bookkeeping, ReadsSeeAcknowledged
  <1>2. QED
    BY <1>1, StableInvariant, PTL

(* The cached document of a running instance is never behind the index.    *)
THEOREM CacheNotBehind ==
    ASSUME StableService
    PROVE  Spec => []CacheServesHighestVersion
  <1>1. StableInv => CacheServesHighestVersion
    BY DEF StableInv, DocumentInv, CacheIsNewest, Newest, Saved, CacheServesHighestVersion
  <1>2. QED
    BY <1>1, StableInvariant, PTL

(* No two different documents are saved under one version.                 *)
THEOREM VersionsUnique ==
    ASSUME StableService
    PROVE  Spec => []IndexedVersionsUnique
  <1>1. StableInv => IndexedVersionsUnique
    <2>1. SUFFICES ASSUME StableInv, NEW d \in index, NEW e \in index, d.version = e.version
                   PROVE  d = e
      BY DEF IndexedVersionsUnique
    <2>2. TypeInv /\ DocumentInv /\ d \in Saved /\ e \in Saved
      BY <2>1 DEF StableInv, ExclusionInv, WakeInv, Saved
    <2>3. d \in Docs /\ e \in Docs
      BY <2>2, SavedType
    <2>4. d.version <= e.version /\ e.version <= d.version
      BY <2>1, <2>2, <2>3, SavedType
    <2>5. d.updates \subseteq e.updates /\ e.updates \subseteq d.updates
      BY <2>2, <2>4 DEF DocumentInv, SavedInOrder
    <2>6. d.updates = e.updates
      BY <2>5, Zenon
    <2>7. QED
      BY <2>1, <2>2, <2>3, <2>6, SavedType
  <1>2. QED
    BY <1>1, StableInvariant, PTL

-----------------------------------------------------------------------------
(* A persistent service implements AtomicDocument.                         *)

(* The document the clients know is the newest saved one.                  *)
LEMMA VisibleOf ==
    ASSUME NEW S \in SUBSET Docs, \A d \in S : d.version >= 0,
           \A d, e \in S : d.version <= e.version => d.updates \subseteq e.updates,
           NEW m \in S, \A e \in S : e.version <= m.version,
           NEW D, S \subseteq D, D \subseteq S \cup {NoDoc}
    PROVE  Latest(D) = m
  <1>1. m.version >= 0 /\ m.version \in Int /\ NoDoc.version = -1
    BY DEF Docs, NoDoc
  <1>2. \A e \in D : e.version <= m.version
    BY <1>1
  <1>3. QED
    BY <1>2, LatestOrdered

LEMMA VisibleIsNewest ==
    ASSUME TypeInv, DocumentInv, Persistence
    PROVE  /\ VisibleDoc \in Saved /\ \A e \in Saved : e.version <= VisibleDoc.version
           /\ \A d \in Saved : d.updates \subseteq VisibleDoc.updates
           /\ \A m \in Saved : (\A e \in Saved : e.version <= m.version) => VisibleDoc = m
  <1> DEFINE D == index \cup {cached} \cup {linked[o] : o \in {p \in Ops : pc[p] = "indexing"}}
  <1>1. Saved \in SUBSET Docs /\ \A d \in Saved : d.version >= 0
    BY SavedType DEF DocumentInv, VersionsKnown
  <1>2. stage \in {"AVAILABLE", "STOPPED"}
    BY DEF TypeInv, TypeOK
  <1>3. D \subseteq Saved \cup {NoDoc} /\ Saved \subseteq D
    BY <1>2 DEF Saved, Indexing, DocumentInv, CacheIsNewest
  <1>4. ASSUME NEW m \in Saved, \A e \in Saved : e.version <= m.version PROVE VisibleDoc = m
    <2>1. Latest(D) = m
      <3> HIDE DEF D
      <3> QED
        BY <1>1, <1>3, <1>4, VisibleOf DEF DocumentInv, SavedInOrder
    <2>2. QED
      BY <2>1 DEF VisibleDoc
  <1>5. PICK m \in Saved : Newest(m)
    BY DEF DocumentInv, CacheIsNewest
  <1>6. VisibleDoc = m
    BY <1>4, <1>5 DEF Newest
  <1>7. QED
    BY <1>4, <1>5, <1>6 DEF DocumentInv, SavedInOrder, Newest

(* ... also after a step.                                                  *)
LEMMA VisibleNext ==
    ASSUME TypeInv', DocumentInv', Persistence,
           NEW m \in Saved', \A e \in Saved' : e.version <= m.version
    PROVE  VisibleDoc' = m
  <1> DEFINE D == index' \cup {cached'} \cup {linked'[o] : o \in {p \in Ops : pc'[p] = "indexing"}}
  <1>1. Saved' \in SUBSET Docs
    BY DEF TypeInv, TypeOK, Saved, Indexing
  <1>2. \A d \in Saved' : d.version >= 0
    BY DEF DocumentInv, VersionsKnown
  <1>3. stage' \in {"AVAILABLE", "STOPPED"}
    BY DEF TypeInv, TypeOK
  <1>4. D \subseteq Saved' \cup {NoDoc} /\ Saved' \subseteq D
    BY <1>3 DEF Saved, Indexing, DocumentInv, CacheIsNewest
  <1>5. \A d, e \in Saved' : d.version <= e.version => d.updates \subseteq e.updates
    BY DEF DocumentInv, SavedInOrder
  <1>6. Latest(D) = m
    <2> HIDE DEF D
    <2> QED
      BY <1>1, <1>2, <1>4, <1>5, VisibleOf
  <1>7. QED
    BY <1>6 DEF VisibleDoc

LEMMA VisibleSame ==
    ASSUME TypeInv, DocumentInv, TypeInv', DocumentInv', Persistence, Saved' = Saved
    PROVE  VisibleDoc' = VisibleDoc
  BY VisibleIsNewest, VisibleNext

(* The state of AtomicDocument, as the refinement mapping reads it.        *)
Kind == [o \in Ops |-> IF action[o] \in {"GET", "PATCH"} THEN action[o] ELSE "other"]
Answer == [o \in Ops |-> IF action[o] \notin {"GET", "PATCH"} \/ outcome[o] = "none"
                         THEN "none"
                         ELSE IF outcome[o] = "ok" THEN "ok" ELSE "refused"]
Seen == [o \in Ops |-> IF action[o] = "GET" /\ outcome[o] = "ok"
                       THEN linked[o].updates ELSE {}]

(* An update in the document the clients know is being indexed, or was     *)
(* acknowledged.                                                           *)
LEMMA VisibleUpdates ==
    ASSUME TypeInv, DocumentInv, Persistence
    PROVE  \A p \in VisibleDoc.updates :
              p \in Ops /\ action[p] = "PATCH" /\ (pc[p] = "indexing" \/ outcome[p] = "ok")
  <1>1. VisibleDoc \in Saved /\ VisibleDoc.updates \subseteq Ops
    BY VisibleIsNewest, SavedType
  <1>2. QED
    BY <1>1 DEF DocumentInv, SavedUpdates

(* The client sees no more than requests being refused, if anything.       *)
Refuses ==
    /\ UNCHANGED <<action, acked>>
    /\ VisibleDoc'.updates = VisibleDoc.updates
    /\ \A p \in Ops :
          /\ \/ outcome'[p] = outcome[p]
             \/ /\ outcome[p] = "none" /\ pc[p] # "indexing" /\ outcome'[p] \notin {"none", "ok"}
             \/ action[p] \notin {"GET", "PATCH"}
          /\ action[p] = "GET" /\ outcome'[p] = "ok" => linked'[p].updates = linked[p].updates

LEMMA RefusesStep ==
    ASSUME TypeInv, DocumentInv, Persistence, Refuses
    PROVE  Promise!Next
  <1>0. PICK R \in SUBSET Ops :
              R = {p \in Ops : /\ action[p] \in {"GET", "PATCH"}
                               /\ outcome[p] = "none" /\ outcome'[p] # "none"}
    OBVIOUS
  <1>1. UNCHANGED <<Kind, acked, VisibleDoc.updates>>
    BY DEF Refuses, Kind
  <1>2. Seen' = Seen
    <2>1. \A p \in Ops : action'[p] = "GET" /\ outcome'[p] = "ok" <=>
                         action[p] = "GET" /\ outcome[p] = "ok"
      BY DEF Refuses
    <2>2. \A p \in Ops : action'[p] = "GET" /\ outcome'[p] = "ok" =>
                         linked'[p].updates = linked[p].updates
      BY DEF Refuses
    <2>3. QED
      BY <2>1, <2>2 DEF Seen
  <1>3. Answer' = [p \in Ops |-> IF p \in R THEN "refused" ELSE Answer[p]]
    <2>1. ASSUME NEW p \in Ops
          PROVE  Answer'[p] = IF p \in R THEN "refused" ELSE Answer[p]
      BY <1>0 DEF Refuses, Answer
    <2>2. QED
      BY <2>1 DEF Answer
  <1>4. R \subseteq (Promise!Reads \cup Promise!Updates) \ VisibleDoc.updates
    <2>1. \A p \in R : p \notin VisibleDoc.updates
      BY <1>0, VisibleUpdates DEF Refuses
    <2>2. QED
      BY <1>0, <2>1 DEF Promise!Reads, Promise!Updates
  <1>5. \A p \in R : Answer[p] = "none"
    BY <1>0 DEF Answer
  <1>6. Promise!Refuse(R)
    BY <1>1, <1>2, <1>3, <1>4, <1>5 DEF Promise!Refuse, Kind, Answer, Seen
  <1>7. QED
    BY <1>6 DEF Promise!Next

LEMMA SendsStep ==
    ASSUME TypeInv, DocumentInv, NEW o \in Ops, Submit(o), VisibleDoc' = VisibleDoc
    PROVE  Promise!Next
  <1>1. UNCHANGED <<action, outcome, linked>> /\ acked' = [acked EXCEPT ![o] = Acknowledged]
    BY DEF Submit
  <1>2. outcome[o] = "none"
    BY DEF Submit, DocumentInv, Bookkeeping
  <1>3. Promise!Acknowledged = Acknowledged
    BY DEF Promise!Acknowledged, Promise!Updates, Acknowledged
  <1>4. Promise!Send(o)
    BY <1>1, <1>2, <1>3 DEF Promise!Send
  <1>5. QED
    BY <1>4 DEF Promise!Next

LEMMA ReadsStep ==
    ASSUME TypeInv, DocumentInv, Persistence, NEW o \in Ops, Reads(o), VisibleDoc' = VisibleDoc
    PROVE  Promise!Next
  <1>1. /\ UNCHANGED <<action, acked, linked>> /\ action[o] = "GET" /\ outcome[o] = "none"
        /\ outcome'[o] = "ok" /\ \A p \in Ops \ {o} : outcome'[p] = outcome[p]
    BY DEF Reads, DocumentInv, Bookkeeping
  <1>2. acked[o] \subseteq linked[o].updates
    BY DEF Reads, DocumentInv, ReadDocument
  <1>3. linked[o].updates \in SUBSET VisibleDoc.updates
    <2>1. PICK d \in Saved : linked[o].updates \subseteq d.updates
      BY DEF Reads, DocumentInv, ReadDocument
    <2>2. d.updates \subseteq VisibleDoc.updates
      BY VisibleIsNewest
    <2>3. QED
      BY <2>1, <2>2
  <1>4. UNCHANGED <<Kind, acked, VisibleDoc.updates>> /\ Answer[o] = "none" /\ o \in Promise!Reads
    BY <1>1 DEF Kind, Answer, Promise!Reads
  <1>5. Answer' = [Answer EXCEPT ![o] = "ok"]
    <2>1. \A p \in Ops : Answer'[p] = IF p = o THEN "ok" ELSE Answer[p]
      BY <1>1 DEF Answer
    <2>2. QED
      BY <2>1 DEF Answer
  <1>6. Seen' = [Seen EXCEPT ![o] = linked[o].updates]
    <2>1. \A p \in Ops : Seen'[p] = IF p = o THEN linked[o].updates ELSE Seen[p]
      BY <1>1 DEF Seen
    <2>2. QED
      BY <2>1 DEF Seen
  <1>7. Promise!Read(o)
    BY <1>2, <1>3, <1>4, <1>5, <1>6 DEF Promise!Read, Kind, Answer, Seen
  <1>8. QED
    BY <1>7 DEF Promise!Next

LEMMA SavesStep ==
    ASSUME TypeInv, DocumentInv, TypeInv', DocumentInv', Persistence, NEW o \in Ops, Saves(o),
           Saved' = Saved \cup {linked[o]}
    PROVE  Promise!Next
  <1>1. /\ UNCHANGED <<action, acked, linked>> /\ pc[o] = "saving" /\ action[o] # "GET"
        /\ outcome[o] = "none" /\ \A p \in Ops : outcome'[p] = outcome[p]
    BY DEF Saves, DocumentInv, Bookkeeping
  <1>2. VisibleDoc' = linked[o]
    <2>1. \A e \in Saved : e.version < linked[o].version /\ e.version \in Int
      BY NextDocument, SavedType
    <2>2. linked[o].version \in Int
      BY DEF TypeInv, TypeOK, Docs
    <2>3. \A e \in Saved' : e.version <= linked[o].version
      BY <2>1, <2>2
    <2>4. QED
      BY <2>3, VisibleNext
  <1>3. linked[o].updates = VisibleDoc.updates \cup OwnUpdate(o)
    <2>1. PICK m \in Saved : Newest(m) /\ linked[o].updates = m.updates \cup OwnUpdate(o)
      BY <1>1 DEF DocumentInv, SlotDocument, AfterHandler
    <2>2. QED
      BY <2>1, VisibleIsNewest DEF Newest
  <1>4. CASE action[o] # "PATCH"
    <2>1. VisibleDoc'.updates = VisibleDoc.updates
      BY <1>2, <1>3, <1>4 DEF OwnUpdate
    <2>2. Refuses
      BY <1>1, <2>1 DEF Refuses
    <2>3. QED
      BY <2>2, RefusesStep
  <1>5. CASE action[o] = "PATCH"
    <2>1. VisibleDoc'.updates = VisibleDoc.updates \cup {o}
      BY <1>2, <1>3, <1>5 DEF OwnUpdate
    <2>2. o \notin VisibleDoc.updates
      BY <1>1, VisibleUpdates
    <2>3. UNCHANGED <<Kind, acked, Answer, Seen>> /\ Answer[o] = "none" /\ o \in Promise!Updates
      BY <1>1, <1>5 DEF Kind, Answer, Seen, Promise!Updates
    <2>4. Promise!Apply(o)
      BY <2>1, <2>2, <2>3 DEF Promise!Apply, Kind, Answer, Seen
    <2>5. QED
      BY <2>4 DEF Promise!Next
  <1>6. QED
    BY <1>4, <1>5

LEMMA IndexesStep ==
    ASSUME TypeInv, UpdatesOnly, DocumentInv, Persistence, NEW o \in Ops, Indexes(o),
           VisibleDoc' = VisibleDoc
    PROVE  Promise!Next
  <1>1. /\ UNCHANGED <<action, acked, linked>> /\ action[o] # "GET" /\ pc[o] = "indexing"
        /\ outcome[o] = "none" /\ outcome'[o] = "ok"
        /\ \A p \in Ops \ {o} : outcome'[p] = outcome[p]
    BY DEF Indexes, OthersStay, DocumentInv, Bookkeeping, UpdatesOnly, UpdatePlaces
  <1>2. CASE action[o] # "PATCH"
    <2>1. Refuses
      BY <1>1, <1>2 DEF Refuses
    <2>2. QED
      BY <2>1, RefusesStep
  <1>3. CASE action[o] = "PATCH"
    <2>1. o \in VisibleDoc.updates
      <3>1. linked[o] \in Saved /\ o \in linked[o].updates
        BY <1>1, <1>3 DEF Saved, Indexing, DocumentInv, SavedUpdates
      <3>2. QED
        BY <3>1, VisibleIsNewest
    <2>2. UNCHANGED <<Kind, acked, Seen>> /\ Answer[o] = "none"
      BY <1>1, <1>3 DEF Kind, Answer, Seen
    <2>3. Answer' = [Answer EXCEPT ![o] = "ok"]
      <3>1. \A p \in Ops : Answer'[p] = IF p = o THEN "ok" ELSE Answer[p]
        BY <1>1, <1>3 DEF Answer
      <3>2. QED
        BY <3>1 DEF Answer
    <2>4. Promise!Acknowledge(o)
      BY <2>1, <2>2, <2>3 DEF Promise!Acknowledge, Kind, Answer, Seen
    <2>5. QED
      BY <2>4 DEF Promise!Next
  <1>4. QED
    BY <1>2, <1>3

(* Only Submit looks at what has been acknowledged.                        *)
LEMMA AckedStep ==
    ASSUME [Next]_vars
    PROVE  acked' = acked \/ \E o \in Ops : Submit(o)
  <1>1. ASSUME NEW o \in Ops, Admit(o) PROVE acked' = acked
    BY <1>1 DEF Admit, checkServiceStopped, queueConcurrentGet, queueGetRequestInternal,
       queueUpdateRequestInternal, requests
  <1>2. ASSUME NEW o \in Ops, Process(o) PROVE acked' = acked
    BY <1>2 DEF Process, handleRequest, loadServiceState, loadFromIndex, handleGet, handlerFailure,
       stateNotModified, handleUpdate, handleDelete, replicationComplete, commitComplete,
       replicationFailure, processCompletionStageIndexing, indexComplete, indexFailure, requests
  <1>3. ASSUME NEW o \in Ops, Synchronize(o) PROVE acked' = acked
    BY <1>3 DEF Synchronize, synchronizeWithPeers, handleSynchFailure, synchMarkedDeleted,
       synchStopAndCancel, synchWithPeersAndReProcess, reprocessAfterIndexing,
       reprocessIndexFailure, requests
  <1>4. ASSUME NEW o \in Ops, Stop(o) PROVE acked' = acked
    BY <1>4 DEF Stop, handleStop, handleStopFailure, handleStopCompletion, stopAndCancel, requests
  <1>5. loseOwnership \/ Quiescent \/ UNCHANGED vars => acked' = acked
    BY DEF loseOwnership, Quiescent, vars, requests
  <1>6. QED
    BY <1>1, <1>2, <1>3, <1>4, <1>5 DEF Next

LEMMA PromiseInit == ASSUME Persistence PROVE Init => Promise!Init
  <1>1. SUFFICES ASSUME Init PROVE Promise!Init
    OBVIOUS
  <1>2. VisibleDoc = InitialDoc
    <2>1. index \cup {cached} \cup {linked[o] : o \in {p \in Ops : pc[p] = "indexing"}} = {InitialDoc}
      BY <1>1 DEF Init
    <2>2. InitialDoc.version <= InitialDoc.version
      BY DEF InitialDoc
    <2>3. \E d \in {InitialDoc} : \A e \in {InitialDoc} : e.version <= d.version
      BY <2>2
    <2>4. Latest({InitialDoc}) \in {InitialDoc}
      BY <2>3, Zenon DEF Latest
    <2>5. QED
      BY <2>1, <2>4 DEF VisibleDoc
  <1>3. VisibleDoc.updates = {}
    BY <1>2 DEF InitialDoc
  <1>4. \A o \in Ops : outcome[o] = "none" /\ action[o] \in AllActions
    BY <1>1, ConstantsAssumption DEF Init
  <1>5. acked = [o \in Ops |-> {}]
    BY <1>1 DEF Init
  <1>6. QED
    BY <1>3, <1>4, <1>5 DEF Promise!Init

LEMMA PromiseStep ==
    ASSUME StableService, Persistence, StableInv, StableInv', [Next]_vars
    PROVE  Promise!Next
  <1>1. TypeInv /\ UpdatesOnly /\ DocumentInv /\ TypeInv' /\ DocumentInv'
    BY DEF StableInv, ExclusionInv, WakeInv
  <1>2. DocumentEffect
    BY StepDocument DEF StableInv, StableService
  <1>3. CASE \E o \in Ops : Submit(o)
    <2>1. PICK o \in Ops : Submit(o)
      BY <1>3
    <2>2. Quiet
      BY <1>1, <2>1, SubmitDocument
    <2>3. VisibleDoc' = VisibleDoc
      BY <1>1, <2>2, QuietSaved, VisibleSame
    <2>4. QED
      BY <1>1, <2>1, <2>3, SendsStep
  <1>4. CASE acked' = acked /\ Quiet
    <2>1. VisibleDoc' = VisibleDoc
      BY <1>1, <1>4, QuietSaved, VisibleSame
    <2>2. Refuses
      BY <1>1, <1>4, <2>1
         DEF Refuses, Quiet, Passes, KeepsDocument, DocumentInv, Bookkeeping
    <2>3. QED
      BY <1>1, <2>2, RefusesStep
  <1>5. ASSUME NEW o \in Ops, Loads(o) \/ Applies(o) PROVE Promise!Next
    <2>1. VisibleDoc' = VisibleDoc
      BY <1>1, <1>5, LoadsDocument, AppliesDocument, VisibleSame
    <2>2. outcome[o] = "none"
      BY <1>1, <1>5 DEF Loads, Applies, DocumentInv, Bookkeeping
    <2>3. Refuses
      BY <1>5, <2>1, <2>2 DEF Refuses, Loads, Applies, OthersStay
    <2>4. QED
      BY <1>1, <2>3, RefusesStep
  <1>6. ASSUME NEW o \in Ops, Halts(o) PROVE Promise!Next
    <2>1. VisibleDoc' = VisibleDoc
      BY <1>1, <1>6, HaltsDocument, VisibleSame
    <2>2. \A p \in Ops : outcome'[p] = outcome[p]
                         \/ (outcome[p] = "none" /\ pc[p] # "indexing" /\ outcome'[p] # "none"
                             /\ (outcome'[p] = "ok" => action[p] = "STOP"))
      BY <1>1, <1>6 DEF Halts, DocumentInv, Bookkeeping
    <2>3. \A p \in Ops : action[p] = "GET" => linked'[p] = linked[p]
      BY <1>6 DEF Halts
    <2>4. Refuses
      BY <1>6, <2>1, <2>2, <2>3 DEF Refuses, Halts
    <2>5. QED
      BY <1>1, <2>4, RefusesStep
  <1>7. ASSUME NEW o \in Ops, Reads(o) PROVE Promise!Next
    <2>1. VisibleDoc' = VisibleDoc
      BY <1>1, <1>7, ReadsDocument, VisibleSame
    <2>2. QED
      BY <1>1, <1>7, <2>1, ReadsStep
  <1>8. ASSUME NEW o \in Ops, Saves(o) PROVE Promise!Next
    BY <1>1, <1>8, SavesDocument, SavesStep
  <1>9. ASSUME NEW o \in Ops, Indexes(o) PROVE Promise!Next
    <2>1. VisibleDoc' = VisibleDoc
      BY <1>1, <1>9, IndexesDocument, VisibleSame
    <2>2. QED
      BY <1>1, <1>9, <2>1, IndexesStep
  <1>10. acked' = acked \/ \E o \in Ops : Submit(o)
    BY AckedStep
  <1>11. QED
    BY <1>2, <1>3, <1>4, <1>5, <1>6, <1>7, <1>8, <1>9, <1>10 DEF DocumentEffect

(* A persistent service is an atomic document to its clients: every step   *)
(* of the pipeline, from queueRequest to the answer of the index, is one   *)
(* step of AtomicDocument or leaves its state alone.  An update takes      *)
(* effect where saveServiceState caches it, before the index answers.      *)
THEOREM ServiceIsAtomicDocument ==
    ASSUME StableService, Persistence
    PROVE  Spec => ImplementsAtomicDocument
  <1>1. Init => Promise!Init
    BY PromiseInit
  <1>2. StableInv /\ StableInv' /\ [Next]_vars => Promise!Next
    BY PromiseStep
  <1>3. QED
    BY <1>1, <1>2, StableInvariant, PTL DEF Spec, ImplementsAtomicDocument, Promise!Spec
=============================================================================
