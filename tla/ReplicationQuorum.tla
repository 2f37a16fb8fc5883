-------------------------- MODULE ReplicationQuorum -------------------------
(***************************************************************************)
(* How a node replicates one update after another to its peers and decides *)
(* whether each one succeeded: NodeSelectorReplicationService and the      *)
(* NodeSelectorReplicationContext it keeps per update, with the selection  *)
(* of nodes by ConsistentHashingNodeSelectorService.  Peers answer in any  *)
(* order, with success or failure, while the update is still being sent to *)
(* the others.                                                             *)
(***************************************************************************)
EXTENDS Integers, FiniteSets, FiniteSetsExt

CONSTANTS
    Nodes,              \* every node that is or may become a member
    Self,               \* the node that replicates
    InitialMembers,     \* the members of the node group at the start
    LocationOf,         \* PROPERTY_NAME_LOCATION of each node
    MayObserve,         \* the nodes that may have NodeOption.OBSERVER
    LocationAwareness,  \* values of ServiceHost.getLocation() # null
    OwnerSelections,    \* whether services with ServiceOption.OWNER_SELECTION are updated
    ReplicationFactors, \* values of the selector's replicationFactor, 0 for null
    ReplicationQuorums, \* values of the selector's replicationQuorum, 0 for null
    LocationQuorums,    \* values of NodeState.locationQuorum
    Headers,            \* values of REPLICATION_QUORUM_HEADER
    MaxUpdates          \* bound on the number of updates

NoHeader == 0
AllHeader == -1
NotCached == -1

ASSUME ReplicationAssumption ==
    /\ IsFiniteSet(Nodes)
    /\ InitialMembers \subseteq Nodes /\ Self \in InitialMembers \ MayObserve
    /\ MayObserve \subseteq Nodes
    /\ LocationAwareness \subseteq BOOLEAN /\ OwnerSelections \subseteq BOOLEAN
    /\ ReplicationFactors \subseteq Nat
    /\ ReplicationQuorums \subseteq Nat
    /\ LocationQuorums \subseteq Nat \ {0}
    /\ Headers \subseteq Int
    /\ MaxUpdates \in Nat

VARIABLES
    members,               \* NodeGroupState.nodes
    observers,             \* nodes with NodeOption.OBSERVER
    unavailable,           \* members whose status is UNAVAILABLE
    membershipQuorum,      \* of the self node
    locationQuorum,        \* of the self node
    locationAware,         \* the host has a location
    replicationFactor,     \* NodeSelectorState.replicationFactor
    replicationQuorum,     \* NodeSelectorState.replicationQuorum
    nodeCountPerLocation,  \* the cached count for the host's location
    updates,               \* number of updates replicated so far
    header,                \* the update's REPLICATION_QUORUM_HEADER
    isDelete,              \* the update is a DELETE
    ownerSelection,        \* OWNER_SELECTION in the update's service options
    memberCount,           \* localState.nodes.size() when the update was replicated
    selected,              \* context.nodes
    successThreshold, failureThreshold, successCount, failureCount,
    locations,             \* context.locations
    completionStatus,      \* context.completionStatus
    unsent,                \* nodes the send loop has not reached
    inFlight,              \* nodes that have not answered
    accepted               \* history: nodes that answered with success

quorums == <<observers, membershipQuorum, locationQuorum, locationAware,
             replicationFactor, replicationQuorum>>
group == <<members, unavailable, quorums>>
input == <<updates, header, isDelete, ownerSelection, memberCount, selected,
           successThreshold, failureThreshold>>
counts == <<successCount, failureCount, locations, completionStatus, accepted>>
vars == <<group, nodeCountPerLocation, input, counts, unsent, inFlight>>

Least(a, b) == IF a < b THEN a ELSE b

IsUnAvailable(n) == n \in unavailable \/ n \in observers
Idle == unsent = {} /\ inFlight = {}

-----------------------------------------------------------------------------
Init ==
    /\ members = InitialMembers
    /\ observers \in SUBSET MayObserve
    /\ unavailable = {}
    /\ membershipQuorum \in 1 .. Cardinality(Nodes)
    /\ locationQuorum \in LocationQuorums
    /\ locationAware \in LocationAwareness
    /\ replicationFactor \in ReplicationFactors
    /\ replicationQuorum \in {q \in ReplicationQuorums :
           q <= IF replicationFactor = 0 THEN Cardinality(InitialMembers) ELSE replicationFactor}
    /\ nodeCountPerLocation = NotCached
    /\ updates = 0 /\ header = NoHeader /\ isDelete = FALSE /\ ownerSelection = TRUE
    /\ memberCount = 0 /\ selected = {}
    /\ successThreshold = 0 /\ failureThreshold = 0
    /\ successCount = 0 /\ failureCount = 0
    /\ locations = {} /\ completionStatus = "PENDING"
    /\ unsent = {} /\ inFlight = {}
    /\ accepted = {}

(* The node group changes between updates; an update works on the group    *)
(* state it was given.                                                     *)
joinGroup(n) ==
    /\ Idle /\ n \in Nodes \ members
    /\ members' = members \cup {n}
    /\ UNCHANGED <<unavailable, quorums, nodeCountPerLocation, input, counts, unsent, inFlight>>

changeStatus(n) ==
    /\ Idle /\ n \in members \ {Self}
    /\ unavailable' = IF n \in unavailable THEN unavailable \ {n} ELSE unavailable \cup {n}
    /\ UNCHANGED <<members, quorums, nodeCountPerLocation, input, counts, unsent, inFlight>>

-----------------------------------------------------------------------------
(* selectAndForward and selectNodes: every member without a replication    *)
(* factor (and for a DELETE), else the available nodes closest to the key, *)
(* which the model leaves open.                                            *)
AvailableMembers == {n \in members : ~IsUnAvailable(n)}

Selections(delete) ==
    IF replicationFactor = 0 \/ delete \/ Cardinality(members) = 1
    THEN {members}
    ELSE kSubset(Least(replicationFactor, Cardinality(AvailableMembers)), AvailableMembers)

(* Early failures of selectAndForward and replicateUpdate.                 *)
Rejected(sel, h, owned) ==
    \/ replicationFactor # 0 /\ Cardinality(AvailableMembers) < membershipQuorum
    \/ owned /\ membershipQuorum > Cardinality(members)
    \/ Cardinality(members) > 1 /\ h > Cardinality(sel)

getNodeCountInLocation(sel) ==
    IF nodeCountPerLocation # NotCached THEN nodeCountPerLocation
    ELSE Cardinality({n \in sel : LocationOf[n] = LocationOf[Self]})

UsesNodeCountInLocation(h, owned) == h = NoHeader /\ owned /\ locationAware

(* Mutant of SuccessThreshold: an update needs one node less.              *)
OneNodeFewer(sel, h, delete, owned) ==
    Least(Cardinality(sel), membershipQuorum) - 1

(* replicateUpdate: the precedence of the quorums.  With a location quorum *)
(* above 1 both thresholds keep their initial 0.                           *)
SuccessThreshold(sel, h, delete, owned) ==
    LET eligibleMemberCount == Cardinality(sel)
    IN  CASE h = AllHeader -> eligibleMemberCount
          [] h # AllHeader /\ h # NoHeader -> h
          [] h = NoHeader /\ owned /\ ~locationAware ->
                IF replicationQuorum # 0 /\ ~delete THEN replicationQuorum
                ELSE Least(eligibleMemberCount, membershipQuorum)
          [] h = NoHeader /\ owned /\ locationAware ->
                IF locationQuorum = 1
                THEN Least(getNodeCountInLocation(sel), membershipQuorum) ELSE 0
          [] h = NoHeader /\ ~owned -> Least(2, eligibleMemberCount - 1)

(* Mutants of FailureThreshold: off by one in either direction.            *)
FailOneTooEarly(sel, h, delete, owned) == Cardinality(sel) - SuccessThreshold(sel, h, delete, owned)
FailOneTooLate(sel, h, delete, owned) == Cardinality(sel) - SuccessThreshold(sel, h, delete, owned) + 2

FailureThreshold(sel, h, delete, owned) ==
    IF UsesNodeCountInLocation(h, owned)
    THEN IF locationQuorum = 1
         THEN getNodeCountInLocation(sel) - SuccessThreshold(sel, h, delete, owned) + 1 ELSE 0
    ELSE Cardinality(sel) - SuccessThreshold(sel, h, delete, owned) + 1

-----------------------------------------------------------------------------
(* handleReplicationCompletion and checkAndCompleteOperation for one       *)
(* answer, given the counters before it.                                   *)

(* Mutant of IsCounted: every location counts.                             *)
CountEveryLocation(n) == TRUE

(* With location quorum 1 only answers from the host's location count.     *)
IsCounted(n) == locationAware /\ locationQuorum = 1 => LocationOf[n] = LocationOf[Self]

(* Answers after the update was decided change nothing.                    *)
IsIgnored(n) == completionStatus # "PENDING" \/ ~IsCounted(n)

StatusAfter(ok, success, failure, locs, status, threshold, failThreshold) ==
    LET byCount == IF ok /\ success = threshold THEN "SUCCEEDED"
                   ELSE IF ~ok /\ failure = failThreshold THEN "FAILED" ELSE status
    IN  IF locationAware /\ success >= threshold
        THEN IF Cardinality(locs) < locationQuorum THEN "PENDING" ELSE "SUCCEEDED"
        ELSE byCount

(* One answer of node n; the first answer is the node's own.               *)
checkAndCompleteOperation(n, ok) ==
    /\ accepted' = IF ok THEN accepted \cup {n} ELSE accepted
    /\ IF IsIgnored(n)
       THEN UNCHANGED <<successCount, failureCount, locations, completionStatus>>
       ELSE LET success == IF ok THEN successCount + 1 ELSE successCount
                failure == IF ok THEN failureCount ELSE failureCount + 1
                locs == IF locationAware THEN locations \cup {LocationOf[n]} ELSE locations
                status == StatusAfter(ok, success, failure, locs, completionStatus,
                                      successThreshold, failureThreshold)
            IN  /\ successCount' = success /\ failureCount' = failure
                /\ locations' = locs
                /\ completionStatus' = status

-----------------------------------------------------------------------------
(* A new update: it is rejected, completed at once on a group of one node, *)
(* or its context is set up and the node's own success is counted.         *)
replicateUpdate(h, delete, owned, sel) ==
    /\ Idle /\ updates < MaxUpdates
    /\ updates' = updates + 1 /\ header' = h /\ isDelete' = delete /\ ownerSelection' = owned
    /\ memberCount' = Cardinality(members) /\ selected' = sel
    /\ IF Rejected(sel, h, owned) \/ Cardinality(members) = 1
       THEN /\ completionStatus' = IF Rejected(sel, h, owned) THEN "FAILED" ELSE "SUCCEEDED"
            /\ accepted' = IF Rejected(sel, h, owned) THEN {} ELSE {Self}
            /\ successThreshold' = 0 /\ failureThreshold' = 0
            /\ successCount' = 0 /\ failureCount' = 0 /\ locations' = {}
            /\ UNCHANGED <<unsent, nodeCountPerLocation>>
       ELSE LET threshold == SuccessThreshold(sel, h, delete, owned)
                failThreshold == FailureThreshold(sel, h, delete, owned)
                locs == IF locationAware THEN {LocationOf[Self]} ELSE {}
                status == StatusAfter(TRUE, 1, 0, locs, "PENDING", threshold, failThreshold)
            IN  /\ successThreshold' = threshold /\ failureThreshold' = failThreshold
                /\ successCount' = 1 /\ failureCount' = 0 /\ locations' = locs
                /\ completionStatus' = status
                /\ accepted' = {Self}
                /\ unsent' = sel \ {Self}
                /\ nodeCountPerLocation' = IF UsesNodeCountInLocation(h, owned)
                                           THEN getNodeCountInLocation(sel)
                                           ELSE nodeCountPerLocation
    /\ UNCHANGED <<group, inFlight>>

(* Mutant of sendToNode: the loop does not advance.                        *)
SendAgain(n) ==
    /\ n \in unsent /\ ~IsUnAvailable(n)
    /\ inFlight' = inFlight \cup {n}
    /\ UNCHANGED <<group, nodeCountPerLocation, input, counts, unsent>>

(* The loop of replicateUpdateToNodes reaches node n.                      *)
sendToNode(n) ==
    /\ n \in unsent
    /\ unsent' = unsent \ {n}
    /\ IF n \in observers THEN UNCHANGED <<counts, inFlight>>
       ELSE IF IsUnAvailable(n) THEN checkAndCompleteOperation(n, FALSE) /\ UNCHANGED inFlight
       ELSE inFlight' = inFlight \cup {n} /\ UNCHANGED counts
    /\ UNCHANGED <<group, nodeCountPerLocation, input>>

(* A peer answers, or the client gives up on it.                           *)
peerResponse(n, ok) ==
    /\ n \in inFlight
    /\ inFlight' = inFlight \ {n}
    /\ checkAndCompleteOperation(n, ok)
    /\ UNCHANGED <<group, nodeCountPerLocation, input, unsent>>

Replicate == \E h \in Headers, delete \in BOOLEAN, owned \in OwnerSelections :
                \E sel \in Selections(delete) : replicateUpdate(h, delete, owned, sel)

Next ==
    \/ \E n \in Nodes : joinGroup(n) \/ changeStatus(n) \/ sendToNode(n)
                        \/ \E ok \in BOOLEAN : peerResponse(n, ok)
    \/ Replicate

Spec == Init /\ [][Next]_vars

-----------------------------------------------------------------------------
(* Every variable of the selector's and the context's state has its type.  *)
TypeOK ==
    /\ members \subseteq Nodes /\ unavailable \subseteq members \ {Self}
    /\ observers \subseteq Nodes
    /\ membershipQuorum \in Nat /\ locationQuorum \in Nat
    /\ locationAware \in BOOLEAN /\ replicationFactor \in Nat /\ replicationQuorum \in Nat
    /\ nodeCountPerLocation \in Nat \cup {NotCached}
    /\ updates \in 0 .. MaxUpdates /\ header \in Int /\ isDelete \in BOOLEAN
    /\ ownerSelection \in BOOLEAN
    /\ memberCount \in Nat /\ selected \subseteq Nodes
    /\ successThreshold \in Int /\ failureThreshold \in Int
    /\ successCount \in Nat /\ failureCount \in Nat
    /\ locations \subseteq {LocationOf[n] : n \in Nodes}
    /\ completionStatus \in {"PENDING", "SUCCEEDED", "FAILED"}
    /\ unsent \subseteq Nodes /\ inFlight \subseteq Nodes \ unsent
    /\ accepted \subseteq Nodes

Replicated == memberCount > 1

(* A replicated update succeeds only after as many nodes accepted it as    *)
(* its quorum asks for: the request's own quorum first, then, for a        *)
(* service with OWNER_SELECTION on a host without a location, the          *)
(* selector's, then the membership quorum.                                 *)
QuorumAccepted ==
    Replicated /\ completionStatus = "SUCCEEDED"
        /\ (header # NoHeader \/ (ownerSelection /\ ~locationAware)) =>
        Cardinality(accepted) >=
            (IF header = AllHeader THEN Cardinality(selected)
             ELSE IF header # NoHeader THEN header
             ELSE IF replicationQuorum # 0 /\ ~isDelete THEN replicationQuorum
             ELSE Least(Cardinality(selected), membershipQuorum))

(* Nobody gives up too early: when a replicated update whose sender is one *)
(* of the selected nodes fails, the answers still to come could not have   *)
(* made its quorum (the failure threshold).                                *)
FailureIsCertain ==
    completionStatus = "FAILED" /\ successThreshold # 0 /\ Self \in selected /\ ~locationAware =>
        Cardinality(accepted \cup unsent \cup inFlight) < successThreshold

(* Once every selected node was reached and has answered, the update is   *)
(* decided, provided its quorum can be reached at all (it asks for no more *)
(* than the selected nodes, none of which is an observer).                 *)
UpdateDecided ==
    Idle /\ Self \in selected /\ selected \cap observers = {} /\ ~locationAware
        /\ successThreshold \in 1 .. Cardinality(selected) =>
        completionStatus # "PENDING"

(* With location quorum 1, the quorum of nodes is found within the host's  *)
(* own location, however many nodes elsewhere answer.                      *)
LocalQuorumAccepted ==
    Replicated /\ completionStatus = "SUCCEEDED"
        /\ UsesNodeCountInLocation(header, ownerSelection) /\ locationQuorum = 1 =>
        Cardinality({n \in accepted : LocationOf[n] = LocationOf[Self]})
            >= Least(nodeCountPerLocation, membershipQuorum)
=============================================================================
