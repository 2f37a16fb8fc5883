----------------------- MODULE ReplicationQuorumProofs ----------------------
(***************************************************************************)
(* Theorems about ReplicationQuorum, for every finite set of nodes, every  *)
(* assignment of locations, every quorum and every number of updates.      *)
(***************************************************************************)
EXTENDS ReplicationQuorum, FiniteSetTheorems, TLAPS

-----------------------------------------------------------------------------
(* The inductive invariant.                                                *)

(* Nodes whose answer to the current update is still to come.              *)
Awaited == unsent \cup inFlight

AcceptedLocally == {n \in accepted : LocationOf[n] = LocationOf[Self]}

(* The send loop visits selected nodes only, and no node that accepted the *)
(* update is asked again.                                                  *)
AwaitedOnce == Awaited \subseteq selected /\ Awaited \cap accepted = {}

(* Every counted success is a node of its own, in the host's location when *)
(* only that one counts.                                                   *)
SuccessesAreNodes ==
    /\ successCount <= Cardinality(accepted)
    /\ locationAware /\ locationQuorum = 1 => successCount <= Cardinality(AcceptedLocally)

(* The decision follows from the counters.                                 *)
DecisionCounted ==
    /\ completionStatus = "SUCCEEDED" => successCount >= successThreshold
    /\ completionStatus = "FAILED" => failureCount >= failureThreshold

QuorumAskedFor ==
    IF header = AllHeader THEN Cardinality(selected)
    ELSE IF header # NoHeader THEN header
    ELSE IF replicationQuorum # 0 /\ ~isDelete THEN replicationQuorum
    ELSE Least(Cardinality(selected), membershipQuorum)

(* The thresholds of an update that was sent are those of its quorums.     *)
ThresholdsOfQuorum ==
    /\ Replicated /\ completionStatus # "FAILED"
          /\ (header # NoHeader \/ (ownerSelection /\ ~locationAware)) =>
       successThreshold = QuorumAskedFor
    /\ Replicated /\ completionStatus # "FAILED"
          /\ UsesNodeCountInLocation(header, ownerSelection) /\ locationQuorum = 1 =>
       successThreshold = Least(nodeCountPerLocation, membershipQuorum)
    /\ ~locationAware /\ successThreshold # 0 =>
       failureThreshold = Cardinality(selected) - successThreshold + 1

(* A node that failed is neither among those that accepted nor awaited.    *)
FailuresAreNodes ==
    Self \in selected =>
        /\ accepted \subseteq selected
        /\ Cardinality(accepted \cup Awaited) + failureCount <= Cardinality(selected)

(* Until the decision every selected node is counted or awaited, and both  *)
(* counters are below their thresholds.                                    *)
Undecided ==
    completionStatus = "PENDING" /\ Self \in selected /\ selected \cap observers = {}
        /\ ~locationAware /\ successThreshold \in 1 .. Cardinality(selected) =>
    /\ successCount + failureCount + Cardinality(Awaited) = Cardinality(selected)
    /\ successCount < successThreshold
    /\ failureCount < failureThreshold

CountInv == /\ AwaitedOnce /\ SuccessesAreNodes /\ DecisionCounted
            /\ ThresholdsOfQuorum /\ FailuresAreNodes /\ Undecided

QuorumInv == TypeOK /\ CountInv
-----------------------------------------------------------------------------
(* Cardinalities of sets of nodes.                                         *)

LEMMA NodeSets ==
    ASSUME NEW S \in SUBSET Nodes
    PROVE  IsFiniteSet(S) /\ Cardinality(S) \in Nat
  <1>1. IsFiniteSet(S)
    BY FS_Subset, ReplicationAssumption
  <1>2. QED
    BY <1>1, FS_CardinalityType

LEMMA NodeAdded ==
    ASSUME NEW S \in SUBSET Nodes, NEW n \in Nodes \ S
    PROVE  Cardinality(S \cup {n}) = Cardinality(S) + 1
  BY NodeSets, FS_AddElement

LEMMA NodeRemoved ==
    ASSUME NEW S \in SUBSET Nodes, NEW n \in S
    PROVE  Cardinality(S \ {n}) = Cardinality(S) - 1
  BY NodeSets, FS_RemoveElement

-----------------------------------------------------------------------------
(* What replicateUpdate computes.                                          *)

LEMMA SelectionType ==
    ASSUME TypeOK, NEW delete \in BOOLEAN, NEW sel \in Selections(delete)
    PROVE  sel \in SUBSET Nodes
  BY DEF TypeOK, Selections, kSubset, AvailableMembers

LEMMA CountInLocationType ==
    ASSUME TypeOK, NEW sel \in SUBSET Nodes
    PROVE  getNodeCountInLocation(sel) \in Nat
  <1>1. Cardinality({n \in sel : LocationOf[n] = LocationOf[Self]}) \in Nat
    BY NodeSets
  <1>2. QED
    BY <1>1 DEF TypeOK, getNodeCountInLocation, NotCached

LEMMA ThresholdType ==
    ASSUME TypeOK, NEW sel \in SUBSET Nodes, NEW h \in Int,
           NEW delete \in BOOLEAN, NEW owned \in BOOLEAN
    PROVE  /\ SuccessThreshold(sel, h, delete, owned) \in Int
           /\ FailureThreshold(sel, h, delete, owned) \in Int
  <1>1. Cardinality(sel) \in Nat /\ getNodeCountInLocation(sel) \in Nat
    BY NodeSets, CountInLocationType
  <1>2. SuccessThreshold(sel, h, delete, owned) \in Int
    BY <1>1 DEF TypeOK, SuccessThreshold, Least, NoHeader, AllHeader
  <1>3. QED
    BY <1>1, <1>2 DEF FailureThreshold

(* The request's quorum comes before the selector's and the membership     *)
(* quorum; on a host with a location the nodes there are counted.          *)
LEMMA ThresholdPrecedence ==
    ASSUME TypeOK, NEW sel \in SUBSET Nodes, NEW h \in Int,
           NEW delete \in BOOLEAN, NEW owned \in BOOLEAN
    PROVE  /\ h # NoHeader \/ (owned /\ ~locationAware) =>
                SuccessThreshold(sel, h, delete, owned) =
                    IF h = AllHeader THEN Cardinality(sel)
                    ELSE IF h # NoHeader THEN h
                    ELSE IF replicationQuorum # 0 /\ ~delete THEN replicationQuorum
                    ELSE Least(Cardinality(sel), membershipQuorum)
           /\ UsesNodeCountInLocation(h, owned) /\ locationQuorum = 1 =>
                SuccessThreshold(sel, h, delete, owned) =
                    Least(getNodeCountInLocation(sel), membershipQuorum)
           /\ ~locationAware =>
                FailureThreshold(sel, h, delete, owned) =
                    Cardinality(sel) - SuccessThreshold(sel, h, delete, owned) + 1
  BY DEF TypeOK, SuccessThreshold, FailureThreshold, UsesNodeCountInLocation,
         NoHeader, AllHeader

(* What one counted answer decides.                                        *)
LEMMA StatusDecided ==
    ASSUME NEW ok \in BOOLEAN, NEW success \in Nat, NEW failure \in Nat, NEW locs,
           NEW threshold \in Int, NEW failThreshold \in Int, locationAware \in BOOLEAN,
           NEW status, status = StatusAfter(ok, success, failure, locs, "PENDING",
                                            threshold, failThreshold)
    PROVE  /\ status \in {"PENDING", "SUCCEEDED", "FAILED"}
           /\ status = "SUCCEEDED" => success >= threshold
           /\ status = "FAILED" => ~ok /\ failure = failThreshold
           /\ status = "PENDING" /\ ~locationAware =>
                 (ok => success # threshold) /\ (~ok => failure # failThreshold)
  BY DEF StatusAfter

-----------------------------------------------------------------------------
(* The counters start below a node's own answer.                           *)
LEMMA InitQuorumInv == Init => QuorumInv
  <1> SUFFICES ASSUME Init PROVE QuorumInv
    OBVIOUS
  <1>1. Cardinality(Nodes) \in Nat
    BY NodeSets
  <1>2. membershipQuorum \in Nat
    BY <1>1 DEF Init
  <1>3. TypeOK
    <2>1. /\ locationAware \in BOOLEAN /\ isDelete \in BOOLEAN /\ ownerSelection \in BOOLEAN
          /\ locations \subseteq {LocationOf[n] : n \in Nodes}
      BY ReplicationAssumption DEF Init
    <2>2. members \subseteq Nodes /\ unavailable \subseteq members \ {Self}
          /\ observers \subseteq Nodes
      BY ReplicationAssumption DEF Init
    <2>3. QED
      BY <1>2, <2>1, <2>2, ReplicationAssumption DEF Init, TypeOK, NotCached, NoHeader
  <1>4. Cardinality(accepted) = 0 /\ Cardinality(AcceptedLocally) = 0
    BY FS_EmptySet DEF Init, AcceptedLocally
  <1>5. CountInv
    BY <1>4, FS_EmptySet
       DEF Init, CountInv, AwaitedOnce, Awaited, SuccessesAreNodes, DecisionCounted,
           ThresholdsOfQuorum, FailuresAreNodes, Undecided, Replicated
  <1>6. QED
    BY <1>3, <1>5 DEF QuorumInv
-----------------------------------------------------------------------------
(* An answer of a node that was awaited: sent to an unavailable node, or   *)
(* received from a peer.                                                   *)
AnswerOf(n, ok) ==
    /\ n \in Awaited
    /\ Awaited' = Awaited \ {n}
    /\ checkAndCompleteOperation(n, ok)
    /\ UNCHANGED <<group, nodeCountPerLocation, input>>

LEMMA AnswerCounters ==
    ASSUME QuorumInv, NEW n \in Nodes, NEW ok \in BOOLEAN, AnswerOf(n, ok)
    PROVE  \/ /\ IsIgnored(n)
              /\ UNCHANGED <<successCount, failureCount, locations, completionStatus>>
           \/ /\ ~IsIgnored(n)
              /\ successCount' = IF ok THEN successCount + 1 ELSE successCount
              /\ failureCount' = IF ok THEN failureCount ELSE failureCount + 1
              /\ locations' = IF locationAware THEN locations \cup {LocationOf[n]} ELSE locations
              /\ completionStatus' = StatusAfter(ok, successCount', failureCount', locations',
                                                 "PENDING", successThreshold, failureThreshold)
  BY DEF AnswerOf, checkAndCompleteOperation, IsIgnored

LEMMA AnswerType ==
    ASSUME QuorumInv, NEW n \in Nodes, NEW ok \in BOOLEAN, AnswerOf(n, ok)
    PROVE  /\ successCount' \in Nat /\ failureCount' \in Nat
           /\ locations' \subseteq {LocationOf[m] : m \in Nodes}
           /\ completionStatus' \in {"PENDING", "SUCCEEDED", "FAILED"}
           /\ accepted' \subseteq Nodes
  <1> USE DEF QuorumInv, TypeOK
  <1>1. accepted' \subseteq Nodes
    BY DEF AnswerOf, checkAndCompleteOperation
  <1>2. CASE IsIgnored(n)
    BY <1>1, <1>2, AnswerCounters
  <1>3. CASE ~IsIgnored(n)
    <2>1. successCount' \in Nat /\ failureCount' \in Nat
      BY <1>3, AnswerCounters
    <2>2. locations' \subseteq {LocationOf[m] : m \in Nodes}
      BY <1>3, AnswerCounters
    <2>3. completionStatus' \in {"PENDING", "SUCCEEDED", "FAILED"}
      BY <1>3, <2>1, AnswerCounters, StatusDecided
    <2>4. QED
      BY <1>1, <2>1, <2>2, <2>3
  <1>4. QED
    BY <1>2, <1>3

LEMMA AnswerDecision ==
    ASSUME QuorumInv, NEW n \in Nodes, NEW ok \in BOOLEAN, AnswerOf(n, ok)
    PROVE  /\ DecisionCounted'
           /\ ThresholdsOfQuorum'
  <1> USE DEF QuorumInv, TypeOK
  <1>1. UNCHANGED <<group, nodeCountPerLocation, input>>
    BY DEF AnswerOf
  <1>2. completionStatus = "FAILED" => completionStatus' = "FAILED"
    BY AnswerCounters DEF IsIgnored
  <1>3. ThresholdsOfQuorum'
    BY <1>1, <1>2 DEF CountInv, ThresholdsOfQuorum, group, quorums, input, QuorumAskedFor,
                      Replicated, UsesNodeCountInLocation
  <1>4. CASE IsIgnored(n)
    BY <1>1, <1>3, <1>4, AnswerCounters DEF CountInv, DecisionCounted, input
  <1>5. CASE ~IsIgnored(n)
    <2>1. successCount' \in Nat /\ failureCount' \in Nat
      BY AnswerType
    <2>2. /\ completionStatus' = "SUCCEEDED" => successCount' >= successThreshold
          /\ completionStatus' = "FAILED" => failureCount' >= failureThreshold
      BY <1>5, <2>1, AnswerCounters, StatusDecided
    <2>3. QED
      BY <1>1, <1>3, <2>2 DEF DecisionCounted, input
  <1>6. QED
    BY <1>4, <1>5

LEMMA AnswerNodes ==
    ASSUME QuorumInv, NEW n \in Nodes, NEW ok \in BOOLEAN, AnswerOf(n, ok)
    PROVE  /\ AwaitedOnce'
           /\ SuccessesAreNodes'
           /\ FailuresAreNodes'
  <1> USE DEF QuorumInv, TypeOK
  <1>1. UNCHANGED <<group, nodeCountPerLocation, input>>
        /\ accepted' = (IF ok THEN accepted \cup {n} ELSE accepted)
        /\ n \in Awaited /\ Awaited' = Awaited \ {n}
    BY DEF AnswerOf, checkAndCompleteOperation
  <1>2. n \notin accepted /\ n \in selected /\ Awaited \subseteq selected
    BY <1>1 DEF CountInv, AwaitedOnce
  <1>3. AwaitedOnce'
    BY <1>1, <1>2 DEF CountInv, AwaitedOnce, input
  <1>4. Cardinality(accepted) \in Nat /\ Cardinality(AcceptedLocally) \in Nat
        /\ Cardinality(selected) \in Nat
    BY NodeSets DEF AcceptedLocally
  <1>5. SuccessesAreNodes'
    <2>1. CASE ~ok
      <3>1. accepted' = accepted /\ AcceptedLocally' = AcceptedLocally
            /\ successCount' = successCount
        BY <1>1, <2>1, AnswerCounters DEF AcceptedLocally
      <3>2. QED
        BY <1>1, <3>1 DEF CountInv, SuccessesAreNodes, group, quorums
    <2>2. CASE ok
      <3>1. Cardinality(accepted') = Cardinality(accepted) + 1
        BY <1>1, <1>2, <2>2, NodeAdded
      <3>2. successCount' <= successCount + 1
        <4>1. successCount' = successCount \/ successCount' = successCount + 1
          BY <2>2, AnswerCounters
        <4>2. QED
          BY <4>1
      <3>3. successCount' <= Cardinality(accepted')
        BY <1>4, <3>1, <3>2, AnswerType DEF CountInv, SuccessesAreNodes
      <3>4. ASSUME locationAware, locationQuorum = 1
            PROVE  successCount' <= Cardinality(AcceptedLocally')
        <4>1. CASE LocationOf[n] = LocationOf[Self]
          <5>1. AcceptedLocally' = AcceptedLocally \cup {n}
            BY <1>1, <2>2, <4>1 DEF AcceptedLocally
          <5>2. AcceptedLocally \in SUBSET Nodes /\ n \in Nodes \ AcceptedLocally
            BY <1>2 DEF AcceptedLocally
          <5>3. Cardinality(AcceptedLocally') = Cardinality(AcceptedLocally) + 1
            BY <5>1, <5>2, NodeAdded
          <5>4. QED
            BY <1>4, <3>2, <3>4, <5>3, AnswerType DEF CountInv, SuccessesAreNodes
        <4>2. CASE LocationOf[n] # LocationOf[Self]
          <5>1. AcceptedLocally' = AcceptedLocally
            BY <1>1, <2>2, <4>2 DEF AcceptedLocally
          <5>2. successCount' = successCount
            BY <3>4, <4>2, AnswerCounters DEF IsIgnored, IsCounted
          <5>3. QED
            BY <3>4, <5>1, <5>2 DEF CountInv, SuccessesAreNodes
        <4>3. QED
          BY <4>1, <4>2
      <3>5. QED
        BY <1>1, <3>3, <3>4 DEF SuccessesAreNodes, group, quorums
    <2>3. QED
      BY <2>1, <2>2
  <1>6. FailuresAreNodes'
    <2>1. SUFFICES ASSUME Self \in selected
                   PROVE  /\ accepted' \subseteq selected
                          /\ Cardinality(accepted' \cup Awaited') + failureCount'
                                <= Cardinality(selected)
      BY <1>1 DEF FailuresAreNodes, input
    <2>2. accepted \subseteq selected
          /\ Cardinality(accepted \cup Awaited) + failureCount <= Cardinality(selected)
      BY <2>1 DEF CountInv, FailuresAreNodes
    <2>3. accepted' \subseteq selected
      BY <1>1, <1>2, <2>2
    <2>4. CASE ok
      <3>1. accepted' \cup Awaited' = accepted \cup Awaited
        BY <1>1, <2>4
      <3>2. failureCount' = failureCount
        BY <2>4, AnswerCounters
      <3>3. QED
        BY <2>2, <2>3, <3>1, <3>2
    <2>5. CASE ~ok
      <3>1. accepted' \cup Awaited' = (accepted \cup Awaited) \ {n}
        BY <1>1, <1>2, <2>5
      <3>2. accepted \cup Awaited \in SUBSET Nodes /\ n \in accepted \cup Awaited
        BY <1>1 DEF Awaited
      <3>3. Cardinality(accepted' \cup Awaited') = Cardinality(accepted \cup Awaited) - 1
            /\ Cardinality(accepted \cup Awaited) \in Nat
        BY <3>1, <3>2, NodeRemoved, NodeSets
      <3>4. failureCount' <= failureCount + 1
        BY <2>5, AnswerCounters
      <3>5. QED
        BY <1>4, <2>2, <2>3, <3>3, <3>4, AnswerType
    <2>6. QED
      BY <2>4, <2>5
  <1>7. QED
    BY <1>3, <1>5, <1>6

LEMMA AnswerUndecided ==
    ASSUME QuorumInv, NEW n \in Nodes, NEW ok \in BOOLEAN, AnswerOf(n, ok)
    PROVE  Undecided'
  <1> USE DEF QuorumInv, TypeOK
  <1>1. UNCHANGED <<group, nodeCountPerLocation, input>>
        /\ n \in Awaited /\ Awaited' = Awaited \ {n}
    BY DEF AnswerOf
  <1>2. SUFFICES ASSUME completionStatus' = "PENDING", Self \in selected,
                        selected \cap observers = {}, ~locationAware,
                        successThreshold \in 1 .. Cardinality(selected)
                 PROVE  /\ successCount' + failureCount' + Cardinality(Awaited')
                              = Cardinality(selected)
                        /\ successCount' < successThreshold
                        /\ failureCount' < failureThreshold
    BY <1>1 DEF Undecided, input, group, quorums
  <1>3. ~IsIgnored(n)
    BY <1>2, AnswerCounters DEF IsIgnored, IsCounted
  <1>4. completionStatus = "PENDING"
    BY <1>3 DEF IsIgnored
  <1>5. /\ successCount + failureCount + Cardinality(Awaited) = Cardinality(selected)
        /\ successCount < successThreshold
        /\ failureCount < failureThreshold
    BY <1>2, <1>4 DEF CountInv, Undecided
  <1>6. Cardinality(Awaited') = Cardinality(Awaited) - 1 /\ Cardinality(Awaited) \in Nat
        /\ Cardinality(selected) \in Nat
    BY <1>1, NodeRemoved, NodeSets DEF Awaited
  <1>7. /\ successCount' = IF ok THEN successCount + 1 ELSE successCount
        /\ failureCount' = IF ok THEN failureCount ELSE failureCount + 1
    BY <1>3, AnswerCounters
  <1>8. (ok => successCount' # successThreshold) /\ (~ok => failureCount' # failureThreshold)
    BY <1>2, <1>3, AnswerCounters, AnswerType, StatusDecided
  <1>9. QED
    BY <1>5, <1>6, <1>7, <1>8
-----------------------------------------------------------------------------
(* Each action preserves the invariant.                                    *)

(* Joins and status changes between updates leave the update alone.        *)
LEMMA GroupChange ==
    ASSUME QuorumInv, NEW n \in Nodes, joinGroup(n) \/ changeStatus(n)
    PROVE  QuorumInv'
  <1>1. UNCHANGED <<quorums, nodeCountPerLocation, input, counts, unsent, inFlight>>
    BY DEF joinGroup, changeStatus
  <1>2. members' \subseteq Nodes /\ unavailable' \subseteq members' \ {Self}
    BY DEF QuorumInv, TypeOK, joinGroup, changeStatus
  <1>3. TypeOK'
    BY <1>1, <1>2 DEF QuorumInv, TypeOK, quorums, input, counts
  <1>4. CountInv'
    BY <1>1 DEF QuorumInv, CountInv, AwaitedOnce, Awaited, SuccessesAreNodes, AcceptedLocally,
                DecisionCounted, ThresholdsOfQuorum, QuorumAskedFor, FailuresAreNodes,
                Undecided, Replicated, UsesNodeCountInLocation, quorums, input, counts
  <1>5. QED
    BY <1>3, <1>4 DEF QuorumInv

(* An update that is rejected, or completed on a group of one node.        *)
LEMMA UnsentUpdate ==
    ASSUME QuorumInv, NEW h \in Headers, NEW delete \in BOOLEAN, NEW owned \in OwnerSelections,
           NEW sel \in Selections(delete), replicateUpdate(h, delete, owned, sel),
           Rejected(sel, h, owned) \/ Cardinality(members) = 1
    PROVE  QuorumInv'
  <1>1. /\ Idle /\ Idle'
        /\ updates < MaxUpdates
        /\ updates' = updates + 1 /\ header' = h /\ isDelete' = delete /\ ownerSelection' = owned
        /\ memberCount' = Cardinality(members) /\ selected' = sel
        /\ successThreshold' = 0 /\ failureThreshold' = 0
        /\ successCount' = 0 /\ failureCount' = 0 /\ locations' = {}
        /\ UNCHANGED <<group, inFlight, unsent, nodeCountPerLocation>>
    BY DEF replicateUpdate, Idle
  <1>2. /\ accepted' = {} \/ accepted' = {Self}
        /\ completionStatus' \in {"SUCCEEDED", "FAILED"}
        /\ completionStatus' = "SUCCEEDED" => Cardinality(members) = 1
    BY DEF replicateUpdate
  <1>3. sel \in SUBSET Nodes /\ Self \in Nodes /\ Cardinality(members) \in Nat
    BY SelectionType, ReplicationAssumption, NodeSets DEF QuorumInv, TypeOK
  <1>4. TypeOK'
    <2>1. h \in Int /\ owned \in BOOLEAN /\ MaxUpdates \in Nat
      BY ReplicationAssumption
    <2>2. locations' \subseteq {LocationOf[n] : n \in Nodes} /\ accepted' \subseteq Nodes
      BY <1>1, <1>2, <1>3
    <2>3. QED
      BY <1>1, <1>2, <1>3, <2>1, <2>2 DEF QuorumInv, TypeOK, group, quorums
  <1>5. Awaited' = {}
    BY <1>1 DEF Idle, Awaited
  <1>6. AwaitedOnce' /\ DecisionCounted' /\ Undecided'
    BY <1>1, <1>2, <1>5 DEF AwaitedOnce, DecisionCounted, Undecided
  <1>7. SuccessesAreNodes'
    <2>1. Cardinality(accepted') \in Nat /\ Cardinality(AcceptedLocally') \in Nat
      BY <1>2, <1>3, NodeSets DEF AcceptedLocally
    <2>2. QED
      BY <1>1, <2>1 DEF SuccessesAreNodes
  <1>8. ThresholdsOfQuorum'
    BY <1>1, <1>2 DEF ThresholdsOfQuorum, Replicated
  <1>9. FailuresAreNodes'
    <2>1. SUFFICES ASSUME Self \in sel
                   PROVE  accepted' \subseteq sel /\ Cardinality(accepted') <= Cardinality(sel)
      <3>1. accepted' \cup Awaited' = accepted' /\ Cardinality(accepted') \in Nat
        BY <1>2, <1>3, <1>5, NodeSets
      <3>2. QED
        BY <1>1, <3>1 DEF FailuresAreNodes
    <2>2. accepted' \in SUBSET sel
      BY <1>2, <2>1
    <2>3. QED
      BY <1>3, <2>2, NodeSets, FS_Subset
  <1>10. QED
    BY <1>4, <1>6, <1>7, <1>8, <1>9 DEF QuorumInv, CountInv

(* An update whose context is set up.                                      *)
LEMMA SentUpdate ==
    ASSUME QuorumInv, NEW h \in Headers, NEW delete \in BOOLEAN, NEW owned \in OwnerSelections,
           NEW sel \in Selections(delete), replicateUpdate(h, delete, owned, sel),
           ~(Rejected(sel, h, owned) \/ Cardinality(members) = 1)
    PROVE  QuorumInv'
  <1> DEFINE threshold == SuccessThreshold(sel, h, delete, owned)
             failThreshold == FailureThreshold(sel, h, delete, owned)
             locs == IF locationAware THEN {LocationOf[Self]} ELSE {}
             uses == UsesNodeCountInLocation(h, owned)
  <1>1. /\ Idle /\ updates < MaxUpdates
        /\ updates' = updates + 1 /\ header' = h /\ isDelete' = delete /\ ownerSelection' = owned
        /\ memberCount' = Cardinality(members) /\ selected' = sel
        /\ UNCHANGED <<group, inFlight>>
    BY DEF replicateUpdate
  <1>2. /\ successThreshold' = threshold /\ failureThreshold' = failThreshold
        /\ successCount' = 1 /\ failureCount' = 0 /\ locations' = locs
        /\ completionStatus' = StatusAfter(TRUE, 1, 0, locs, "PENDING", threshold, failThreshold)
        /\ accepted' = {Self}
        /\ unsent' = sel \ {Self}
        /\ nodeCountPerLocation' = IF uses THEN getNodeCountInLocation(sel)
                                   ELSE nodeCountPerLocation
    BY DEF replicateUpdate
  <1>3. sel \in SUBSET Nodes /\ Self \in Nodes /\ Cardinality(members) \in Nat
        /\ Cardinality(sel) \in Nat
    BY SelectionType, ReplicationAssumption, NodeSets DEF QuorumInv, TypeOK
  <1>4. h \in Int /\ owned \in BOOLEAN /\ MaxUpdates \in Nat
    BY ReplicationAssumption
  <1>5. threshold \in Int /\ failThreshold \in Int
    BY <1>3, <1>4, ThresholdType DEF QuorumInv
  <1> HIDE DEF threshold, failThreshold, locs, uses
  <1>6. /\ completionStatus' \in {"PENDING", "SUCCEEDED", "FAILED"}
        /\ completionStatus' = "SUCCEEDED" => 1 >= threshold
        /\ completionStatus' # "FAILED"
        /\ completionStatus' = "PENDING" /\ ~locationAware => 1 # threshold
    BY <1>2, <1>5 DEF StatusAfter
  <1>7. TypeOK'
    <2>1. locations' \subseteq {LocationOf[n] : n \in Nodes} /\ accepted' \subseteq Nodes
      BY <1>2, <1>3 DEF locs
    <2>2. nodeCountPerLocation' \in Nat \cup {NotCached}
      BY <1>2, <1>3, CountInLocationType DEF QuorumInv, TypeOK
    <2>3. unsent' \subseteq Nodes /\ inFlight' \subseteq Nodes \ unsent'
      BY <1>1, <1>2, <1>3 DEF Idle
    <2>4. updates' \in 0 .. MaxUpdates
      BY <1>1, <1>4 DEF QuorumInv, TypeOK
    <2>5. /\ memberCount' \in Nat /\ selected' \subseteq Nodes
          /\ header' \in Int /\ isDelete' \in BOOLEAN /\ ownerSelection' \in BOOLEAN
      BY <1>1, <1>3, <1>4
    <2>6. /\ successThreshold' \in Int /\ failureThreshold' \in Int
          /\ successCount' \in Nat /\ failureCount' \in Nat
      BY <1>2, <1>5
    <2>7. QED
      BY <1>1, <1>6, <2>1, <2>2, <2>3, <2>4, <2>5, <2>6 DEF QuorumInv, TypeOK, group, quorums
  <1>8. Awaited' = sel \ {Self}
    BY <1>1, <1>2 DEF Awaited, Idle
  <1>9. AwaitedOnce' /\ DecisionCounted'
    BY <1>1, <1>2, <1>5, <1>6, <1>8 DEF AwaitedOnce, DecisionCounted
  <1>10. SuccessesAreNodes'
    <2>1. accepted' = {Self} /\ AcceptedLocally' = {Self}
      BY <1>2 DEF AcceptedLocally
    <2>2. Cardinality(accepted') = 1 /\ Cardinality(AcceptedLocally') = 1
      BY <2>1, FS_Singleton
    <2>3. QED
      BY <1>2, <2>2 DEF SuccessesAreNodes
  <1>11. ThresholdsOfQuorum'
    <2>1. UNCHANGED <<replicationQuorum, membershipQuorum, locationAware, locationQuorum>>
      BY <1>1 DEF group, quorums
    <2>2. h # NoHeader \/ (owned /\ ~locationAware) => threshold = QuorumAskedFor'
      BY <1>1, <1>3, <1>4, <2>1, ThresholdPrecedence DEF QuorumInv, QuorumAskedFor, threshold
    <2>3. UsesNodeCountInLocation(h, owned) /\ locationQuorum = 1 =>
              threshold = Least(nodeCountPerLocation', membershipQuorum)
      BY <1>2, <1>3, <1>4, ThresholdPrecedence DEF QuorumInv, threshold, uses
    <2>4. ~locationAware => failThreshold = Cardinality(sel) - threshold + 1
      BY <1>3, <1>4, ThresholdPrecedence DEF QuorumInv, threshold, failThreshold
    <2>5. QED
      BY <1>1, <1>2, <2>1, <2>2, <2>3, <2>4
         DEF ThresholdsOfQuorum, UsesNodeCountInLocation
  <1>12. FailuresAreNodes'
    <2>1. SUFFICES ASSUME Self \in sel
                   PROVE  /\ accepted' \subseteq sel
                          /\ Cardinality(accepted' \cup Awaited') = Cardinality(sel)
      BY <1>1, <1>2, <1>3 DEF FailuresAreNodes
    <2>2. accepted' \cup Awaited' = sel
      BY <1>2, <1>8, <2>1
    <2>3. QED
      BY <1>2, <1>3, <2>1, <2>2
  <1>13. Undecided'
    <2>1. SUFFICES ASSUME completionStatus' = "PENDING", Self \in sel, ~locationAware,
                          threshold \in 1 .. Cardinality(sel)
                   PROVE  /\ 1 + 0 + Cardinality(Awaited') = Cardinality(sel)
                          /\ 1 < threshold
                          /\ 0 < failThreshold
      BY <1>1, <1>2 DEF Undecided, group, quorums
    <2>2. Cardinality(Awaited') = Cardinality(sel) - 1
      BY <1>3, <1>8, <2>1, NodeRemoved
    <2>3. failThreshold = Cardinality(sel) - threshold + 1
      BY <1>3, <1>4, <2>1, ThresholdPrecedence DEF QuorumInv, threshold, failThreshold
    <2>4. QED
      BY <1>3, <1>5, <1>6, <2>1, <2>2, <2>3
  <1>14. QED
    BY <1>7, <1>9, <1>10, <1>11, <1>12, <1>13 DEF QuorumInv, CountInv

LEMMA SendPreserves ==
    ASSUME QuorumInv, NEW n \in Nodes, sendToNode(n)
    PROVE  QuorumInv'
  <1> USE DEF QuorumInv
  <1>1. n \in unsent /\ unsent' = unsent \ {n} /\ UNCHANGED <<group, nodeCountPerLocation, input>>
    BY DEF sendToNode
  <1>2. n \notin inFlight /\ n \in Awaited /\ n \in selected /\ n \notin accepted
    BY <1>1 DEF TypeOK, CountInv, AwaitedOnce, Awaited
  <1>3. CASE n \in observers
    <2>1. UNCHANGED <<counts, inFlight>>
      BY <1>3 DEF sendToNode
    <2>2. TypeOK'
      BY <1>1, <2>1 DEF TypeOK, group, quorums, input, counts
    <2>3. Awaited' = Awaited \ {n}
      BY <1>1, <1>2, <2>1 DEF Awaited
    <2>4. AwaitedOnce' /\ SuccessesAreNodes' /\ DecisionCounted' /\ ThresholdsOfQuorum'
      BY <1>1, <2>1, <2>3
         DEF CountInv, AwaitedOnce, SuccessesAreNodes, AcceptedLocally, DecisionCounted,
             ThresholdsOfQuorum, QuorumAskedFor, Replicated, UsesNodeCountInLocation,
             group, quorums, input, counts
    <2>5. FailuresAreNodes'
      <3>1. accepted' \cup Awaited' = (accepted \cup Awaited) \ {n}
        BY <1>2, <2>1, <2>3 DEF counts
      <3>2. Cardinality(accepted' \cup Awaited') = Cardinality(accepted \cup Awaited) - 1
            /\ Cardinality(accepted \cup Awaited) \in Nat /\ Cardinality(selected) \in Nat
        BY <1>2, <3>1, NodeRemoved, NodeSets DEF TypeOK, Awaited
      <3>3. QED
        BY <1>1, <2>1, <3>2 DEF TypeOK, CountInv, FailuresAreNodes, input, counts
    <2>6. Undecided'
      BY <1>1, <1>2, <1>3 DEF Undecided, group, quorums, input
    <2>7. QED
      BY <2>2, <2>4, <2>5, <2>6 DEF CountInv
  <1>4. CASE n \notin observers /\ IsUnAvailable(n)
    <2>1. UNCHANGED inFlight /\ checkAndCompleteOperation(n, FALSE)
      BY <1>4 DEF sendToNode
    <2>2. AnswerOf(n, FALSE)
      BY <1>1, <1>2, <2>1 DEF AnswerOf, Awaited
    <2>3. TypeOK'
      BY <1>1, <2>1, <2>2, AnswerType DEF TypeOK, group, quorums, input
    <2>4. QED
      BY <2>2, <2>3, AnswerDecision, AnswerNodes, AnswerUndecided DEF CountInv
  <1>5. CASE ~IsUnAvailable(n)
    <2>1. inFlight' = inFlight \cup {n} /\ UNCHANGED counts
      BY <1>5 DEF sendToNode, IsUnAvailable
    <2>2. TypeOK'
      BY <1>1, <2>1 DEF TypeOK, group, quorums, input, counts
    <2>3. Awaited' = Awaited
      BY <1>1, <2>1 DEF Awaited
    <2>4. CountInv'
      BY <1>1, <2>1, <2>3
         DEF CountInv, AwaitedOnce, SuccessesAreNodes, AcceptedLocally, DecisionCounted,
             ThresholdsOfQuorum, QuorumAskedFor, FailuresAreNodes, Undecided, Replicated,
             UsesNodeCountInLocation, group, quorums, input, counts
    <2>5. QED
      BY <2>2, <2>4
  <1>6. QED
    BY <1>3, <1>4, <1>5

LEMMA ResponsePreserves ==
    ASSUME QuorumInv, NEW n \in Nodes, NEW ok \in BOOLEAN, peerResponse(n, ok)
    PROVE  QuorumInv'
  <1> USE DEF QuorumInv
  <1>1. n \notin unsent
    BY DEF peerResponse, TypeOK
  <1>2. AnswerOf(n, ok)
    BY <1>1 DEF AnswerOf, Awaited, peerResponse
  <1>3. TypeOK'
    BY <1>2, AnswerType DEF peerResponse, TypeOK, group, quorums, input
  <1>4. QED
    BY <1>2, <1>3, AnswerDecision, AnswerNodes, AnswerUndecided DEF CountInv

LEMMA NextPreserves == QuorumInv /\ [Next]_vars => QuorumInv'
  <1> SUFFICES ASSUME QuorumInv, [Next]_vars PROVE QuorumInv'
    OBVIOUS
  <1>1. ASSUME NEW n \in Nodes, joinGroup(n) \/ changeStatus(n) PROVE QuorumInv'
    BY <1>1, GroupChange
  <1>2. ASSUME NEW n \in Nodes, sendToNode(n) PROVE QuorumInv'
    BY <1>2, SendPreserves
  <1>3. ASSUME NEW n \in Nodes, NEW ok \in BOOLEAN, peerResponse(n, ok) PROVE QuorumInv'
    BY <1>3, ResponsePreserves
  <1>4. CASE Replicate
    <2>1. PICK h \in Headers, delete \in BOOLEAN, owned \in OwnerSelections :
             \E sel \in Selections(delete) : replicateUpdate(h, delete, owned, sel)
      BY <1>4 DEF Replicate
    <2>2. PICK sel \in Selections(delete) : replicateUpdate(h, delete, owned, sel)
      BY <2>1
    <2>3. QED
      BY <2>2, UnsentUpdate, SentUpdate
  <1>5. CASE UNCHANGED vars
    BY <1>5 DEF QuorumInv, TypeOK, CountInv, AwaitedOnce, Awaited, SuccessesAreNodes,
                AcceptedLocally, DecisionCounted, ThresholdsOfQuorum, QuorumAskedFor,
                FailuresAreNodes, Undecided, Replicated, UsesNodeCountInLocation,
                vars, group, quorums, input, counts
  <1>6. QED
    BY <1>1, <1>2, <1>3, <1>4, <1>5 DEF Next

LEMMA QuorumInvariant == Spec => []QuorumInv
  BY InitQuorumInv, NextPreserves, PTL DEF Spec

-----------------------------------------------------------------------------
(* The state of the selector and of the update's context stays well typed. *)
THEOREM TypeCorrect == Spec => []TypeOK
  BY QuorumInvariant, PTL DEF QuorumInv

(* checkAndCompleteOperation reports success only when as many nodes have  *)
(* accepted the update as the quorum in force asks for.                    *)
THEOREM QuorumSafety == Spec => []QuorumAccepted
  <1>1. QuorumInv => QuorumAccepted
    <2>1. SUFFICES ASSUME QuorumInv, Replicated, completionStatus = "SUCCEEDED",
                          header # NoHeader \/ (ownerSelection /\ ~locationAware)
                   PROVE  Cardinality(accepted) >= QuorumAskedFor
      BY DEF QuorumAccepted, QuorumAskedFor
    <2>2. successThreshold = QuorumAskedFor /\ successCount >= successThreshold
      BY <2>1 DEF QuorumInv, CountInv, ThresholdsOfQuorum, DecisionCounted
    <2>3. Cardinality(accepted) \in Nat
      BY <2>1, NodeSets DEF QuorumInv, TypeOK
    <2>4. QED
      BY <2>1, <2>2, <2>3 DEF QuorumInv, TypeOK, CountInv, SuccessesAreNodes
  <1>2. QED
    BY <1>1, QuorumInvariant, PTL

(* checkAndCompleteOperation reports failure only when the nodes that      *)
(* accepted and those still awaited cannot make the quorum together.       *)
THEOREM FailureCertainty == Spec => []FailureIsCertain
  <1>1. QuorumInv => FailureIsCertain
    <2>1. SUFFICES ASSUME QuorumInv, completionStatus = "FAILED", successThreshold # 0,
                          Self \in selected, ~locationAware
                   PROVE  Cardinality(accepted \cup Awaited) < successThreshold
      <3>1. accepted \cup unsent \cup inFlight = accepted \cup Awaited
        BY DEF Awaited
      <3>2. QED
        BY <3>1 DEF FailureIsCertain
    <2>2. failureCount >= failureThreshold
          /\ failureThreshold = Cardinality(selected) - successThreshold + 1
      BY <2>1 DEF QuorumInv, CountInv, DecisionCounted, ThresholdsOfQuorum
    <2>3. Cardinality(accepted \cup Awaited) + failureCount <= Cardinality(selected)
      BY <2>1 DEF QuorumInv, CountInv, FailuresAreNodes
    <2>4. Cardinality(accepted \cup Awaited) \in Nat /\ Cardinality(selected) \in Nat
      BY <2>1, NodeSets DEF QuorumInv, TypeOK, Awaited
    <2>5. QED
      BY <2>1, <2>2, <2>3, <2>4 DEF QuorumInv, TypeOK
  <1>2. QED
    BY <1>1, QuorumInvariant, PTL

(* No update with a reachable quorum is left pending once every selected   *)
(* node has answered or was found unavailable.                             *)
THEOREM EveryUpdateDecided == Spec => []UpdateDecided
  <1>1. QuorumInv => UpdateDecided
    <2>1. SUFFICES ASSUME QuorumInv, Idle, Self \in selected, selected \cap observers = {},
                          ~locationAware, successThreshold \in 1 .. Cardinality(selected),
                          completionStatus = "PENDING"
                   PROVE  FALSE
      BY DEF UpdateDecided
    <2>2. Cardinality(Awaited) = 0 /\ Cardinality(selected) \in Nat
      BY <2>1, FS_EmptySet, NodeSets DEF Idle, Awaited, QuorumInv, TypeOK
    <2>3. successCount + failureCount = Cardinality(selected)
          /\ successCount < successThreshold /\ failureCount < failureThreshold
      BY <2>1, <2>2 DEF QuorumInv, TypeOK, CountInv, Undecided
    <2>4. failureThreshold = Cardinality(selected) - successThreshold + 1
      BY <2>1 DEF QuorumInv, TypeOK, CountInv, ThresholdsOfQuorum
    <2>5. QED
      BY <2>1, <2>2, <2>3, <2>4 DEF QuorumInv, TypeOK
  <1>2. QED
    BY <1>1, QuorumInvariant, PTL

(* On a host with a location and location quorum 1, success means a quorum *)
(* of the nodes of that location.                                          *)
THEOREM LocalQuorumSafety == Spec => []LocalQuorumAccepted
  <1>1. QuorumInv => LocalQuorumAccepted
    <2>1. SUFFICES ASSUME QuorumInv, Replicated, completionStatus = "SUCCEEDED",
                          UsesNodeCountInLocation(header, ownerSelection), locationQuorum = 1
                   PROVE  Cardinality(AcceptedLocally)
                              >= Least(nodeCountPerLocation, membershipQuorum)
      BY DEF LocalQuorumAccepted, AcceptedLocally
    <2>2. successThreshold = Least(nodeCountPerLocation, membershipQuorum)
          /\ successCount >= successThreshold /\ locationAware
      BY <2>1 DEF QuorumInv, CountInv, ThresholdsOfQuorum, DecisionCounted,
                  UsesNodeCountInLocation
    <2>3. Cardinality(AcceptedLocally) \in Nat
      BY <2>1, NodeSets DEF QuorumInv, TypeOK, AcceptedLocally
    <2>4. QED
      BY <2>1, <2>2, <2>3 DEF QuorumInv, TypeOK, CountInv, SuccessesAreNodes
  <1>2. QED
    BY <1>1, QuorumInvariant, PTL
=============================================================================
