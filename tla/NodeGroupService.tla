-------------------------- MODULE NodeGroupService --------------------------
(***************************************************************************)
(* Membership gossip: com.vmware.xenon.services.common.NodeGroupService on *)
(* the nodes of one group.  Each node keeps an entry per node it knows,    *)
(* sends its view to its peers at every maintenance, merges the views it   *)
(* receives, and marks a peer that does not answer UNAVAILABLE.            *)
(*                                                                         *)
(* stored[n] is the state of the service; cachedState[n] is the copy that  *)
(* GETs and gossip use.  handleMaintenance and handlePatch change the      *)
(* entries of the copy in place, without changing the state.               *)
(*                                                                         *)
(* Times: documentUpdateTimeMicros only decides between entries of one     *)
(* version and different status, so a node's own time is counted against   *)
(* the number of times the node was marked unavailable, and the order of   *)
(* two of its own statements in between is left open.                      *)
(***************************************************************************)
EXTENDS Integers, FiniteSets

CONSTANTS
    Nodes,        \* the hosts
    None,         \* null
    Scenarios     \* what a behaviour begins with and which faults it may have

(* hosts are started, members are a group already, mayCrash are the ones   *)
(* that may crash, and failures bounds the requests to live nodes that     *)
(* fail.                                                                   *)
ASSUME GroupAssumption ==
    Scenarios \subseteq [hosts : SUBSET Nodes, members : SUBSET Nodes,
                         mayCrash : SUBSET Nodes, failures : Nat]

VARIABLES
    scenario,     \* the one of this behaviour
    alive,        \* hosts that have not crashed
    stored,       \* the nodes of each node's NodeGroupState
    cachedState,  \* the nodes of each node's cachedState
    round,        \* the maintenance under way: view, todo and patchBody, or None
    aliased,      \* cachedState is the object the maintenance works on
    patches,      \* PATCH requests of a node to itself that are to be handled
    joins,        \* joins that wait for the member's state
    inserts,      \* POST requests that insert a joining node
    joined,       \* nodes that were told to join
    marks,        \* times each node was marked unavailable
    failures      \* failed requests to live nodes

views == <<stored, cachedState>>
joining == <<joins, inserts, joined>>
vars == <<scenario, alive, views, round, aliased, patches, joining, marks, failures>>

Entry == [status : {"SYNCHRONIZING", "AVAILABLE", "UNAVAILABLE"}, version : Nat, time : Nat,
          expires : BOOLEAN]
View == [Nodes -> Entry \cup {None}]
Round == [view : View, todo : SUBSET Nodes, patchBody : View]

(* null is no entry, and no maintenance.                                   *)
ASSUME NoneAssumption == None \notin Entry /\ None \notin Round

NoView == [x \in Nodes |-> None]
Known(view) == {x \in Nodes : view[x] # None}

(* The times of a statement of x about itself and of a marking of x.       *)
Now(x) == 2 * marks[x] + 1
MarkTime(x) == 2 * marks[x] + 2

-----------------------------------------------------------------------------
(* buildLocalNodeState, and the entries of a group that has converged.     *)
NewEntry == [status |-> "SYNCHRONIZING", version |-> 0, time |-> 1, expires |-> FALSE]
MemberEntry == [NewEntry EXCEPT !.status = "AVAILABLE", !.version = 1]

Init ==
    /\ scenario \in Scenarios
    /\ alive = scenario.hosts
    /\ stored = [n \in Nodes |->
                   IF n \in scenario.members
                   THEN [x \in Nodes |-> IF x \in scenario.members THEN MemberEntry ELSE None]
                   ELSE [NoView EXCEPT ![n] = NewEntry]]
    /\ cachedState = stored
    /\ round = [n \in Nodes |-> None] /\ aliased = [n \in Nodes |-> FALSE]
    /\ patches = [n \in Nodes |-> {}]
    /\ joins = {} /\ inserts = {} /\ joined = {}
    /\ marks = [x \in Nodes |-> 0]
    /\ failures = 0

-----------------------------------------------------------------------------
(* mergeRemoteAndLocalMembership at node n, of a body whose documentOwner  *)
(* is owner.                                                               *)

(* Mutant of ReportOnSelf: the version of the report is not adopted.       *)
IgnoreReport(n, c, r) == c

ReportOnSelf(n, c, r) ==
    IF r.status # c.status /\ r.version > c.version
    THEN [c EXCEPT !.version = r.version, !.time = Now(n)] ELSE c

OwnChange(n, c, r) ==
    [c EXCEPT !.status = r.status, !.time = Now(n),
              !.version = (IF r.version > c.version THEN r.version ELSE c.version) + 1]

(* Mutant of Accept: every change of a status moves the version forward.   *)
AcceptAndIncrement(c, r) == IF r.status # c.status THEN [r EXCEPT !.version = @ + 1] ELSE r

(* An entry that is not older than the current one replaces it.  The first *)
(* node that finds a node unavailable sets the expiration of its entry.    *)
Accept(c, r) ==
    LET first == r.status = "UNAVAILABLE" /\ ~c.expires /\ ~r.expires
    IN [r EXCEPT !.expires = @ \/ first,
                 !.version = IF first /\ c.status = "UNAVAILABLE" THEN @ + 1 ELSE @]

(* Of two entries of one version and different status the later is kept.   *)
Differ(c, r) == r.version = c.version /\ r.status # c.status
Stale(c, r, keep) ==
    r.version < c.version \/ (Differ(c, r) /\ (r.time < c.time \/ (r.time = c.time /\ keep)))

(* Mutant of MergedEntry: the node's own entry is merged like any other.   *)
MergedLikeAnyOther(n, owner, x, c, r, keep) ==
    CASE r = None -> c
      [] r # None /\ c = None -> IF r.status = "UNAVAILABLE" THEN None ELSE r
      [] OTHER -> IF Stale(c, r, keep) THEN c ELSE Accept(c, r)

MergedEntry(n, owner, x, c, r, keep) ==
    CASE r = None -> c
      [] r # None /\ x = n /\ owner # n -> ReportOnSelf(n, c, r)
      [] r # None /\ c = None -> IF r.status = "UNAVAILABLE" THEN None ELSE r
      [] r # None /\ c # None /\ x = n /\ owner = n /\ r.status # c.status -> OwnChange(n, c, r)
      [] OTHER -> IF Stale(c, r, keep) THEN c ELSE Accept(c, r)

Merged(n, owner, body, keep) ==
    [x \in Nodes |-> MergedEntry(n, owner, x, stored[n][x], body[x], x \in keep)]

(* nodeRemovalDelayMicros, by default five minutes, is longer than gossip  *)
(* needs: an entry expires when no node takes its node for available.      *)
DelayHasPassed(x) ==
    \A m \in alive : /\ stored[m][x] # None => stored[m][x].status = "UNAVAILABLE"
                     /\ round[m] # None /\ round[m].view[x] # None =>
                            round[m].view[x].status = "UNAVAILABLE"
                     /\ \A q \in patches[m] : q.body[x] # None => q.body[x].status = "UNAVAILABLE"
                     /\ \A i \in inserts : i.node # x

Expired(n, view, body) ==
    {x \in Nodes \ {n} : /\ view[x] # None /\ view[x].status = "UNAVAILABLE"
                         /\ view[x].expires \/ (body[x] # None /\ body[x].expires)
                         /\ DelayHasPassed(x)}

(* handlePatch at node n leaves the merged view, and makes the node        *)
(* available if it is not: the copy at once, the state with another PATCH. *)
Available(view, n) == [view EXCEPT ![n].status = "AVAILABLE"]
SelfPatch(n, body) == [owner |-> n, body |-> body]

Ties(n, body) ==
    {x \in Known(body) \cap Known(stored[n]) :
        Differ(stored[n][x], body[x]) /\ stored[n][x].time = body[x].time}

PatchResults(n, owner, body) ==
    UNION {LET merged == Merged(n, owner, body, keep)
           IN {[x \in Nodes |-> IF x \in gone THEN None ELSE merged[x]] :
                  gone \in SUBSET Expired(n, merged, body)} : keep \in SUBSET Ties(n, body)}

AvailablePatch(n, view) ==
    IF view[n].status = "AVAILABLE" THEN {}
    ELSE {SelfPatch(n, [NoView EXCEPT ![n] = Available(view, n)[n]])}

-----------------------------------------------------------------------------
(* A PATCH from the node itself, or its own merge of the state of the      *)
(* member it joins.                                                        *)
handlePatch(n, q) ==
    /\ n \in alive /\ q \in patches[n]
    /\ \E view \in PatchResults(n, q.owner, q.body) :
        /\ stored' = [stored EXCEPT ![n] = view]
        /\ cachedState' = [cachedState EXCEPT ![n] = Available(view, n)]
        /\ patches' = [patches EXCEPT ![n] = (@ \ {q}) \cup AvailablePatch(n, view)]
    /\ aliased' = [aliased EXCEPT ![n] = FALSE]
    /\ UNCHANGED <<scenario, alive, round, joining, marks, failures>>

(* handleMaintenance of a node that knows no other.                        *)
maintenanceAlone(n) ==
    /\ n \in alive /\ Known(cachedState[n]) = {n}
    /\ patches[n] = {} /\ stored[n][n].status # "AVAILABLE"
    /\ patches' = [patches EXCEPT ![n] = {SelfPatch(n, cachedState[n])}]
    /\ UNCHANGED <<scenario, alive, views, round, aliased, joining, marks, failures>>

(* Mutant of handleMaintenance: the node does not leave itself out.        *)
probeSelf(n) ==
    /\ n \in alive /\ round[n] = None /\ patches[n] = {}
    /\ Known(cachedState[n]) # {n}
    /\ LET view == [cachedState[n] EXCEPT ![n].time = Now(n)]
       IN /\ cachedState' = [cachedState EXCEPT ![n] = view]
          /\ round' = [round EXCEPT ![n] = [view |-> view, todo |-> Known(view),
                                            patchBody |-> NoView]]
    /\ aliased' = [aliased EXCEPT ![n] = TRUE]
    /\ UNCHANGED <<scenario, alive, stored, patches, joining, marks, failures>>

(* handleMaintenance: the node's view goes to its peers (all of them, in   *)
(* groups of at most MIN_PEER_GOSSIP_COUNT).                               *)
handleMaintenance(n) ==
    /\ n \in alive /\ round[n] = None /\ patches[n] = {}
    /\ Known(cachedState[n]) # {n}
    /\ LET view == [cachedState[n] EXCEPT ![n].time = Now(n)]
       IN /\ cachedState' = [cachedState EXCEPT ![n] = view]
          /\ round' = [round EXCEPT ![n] = [view |-> view, todo |-> Known(view) \ {n},
                                            patchBody |-> NoView]]
    /\ aliased' = [aliased EXCEPT ![n] = TRUE]
    /\ UNCHANGED <<scenario, alive, stored, patches, joining, marks, failures>>

(* handleGossipPatchCompletion: the entry of peer p goes into patchBody,   *)
(* and with the last one patchBody is sent to the node itself.  pending    *)
(* are the patches of every node so far.                                   *)
Collect(n, p, entry, pending) ==
    LET body == [round[n].patchBody EXCEPT ![p] = entry]
    IN IF round[n].todo = {p}
       THEN /\ patches' = [pending EXCEPT ![n] = @ \cup {SelfPatch(n, body)}]
            /\ round' = [round EXCEPT ![n] = None]
       ELSE /\ patches' = pending
            /\ round' = [round EXCEPT ![n].todo = @ \ {p}, ![n].patchBody = body]

(* The peer handles the gossip PATCH and answers with its merged view, of  *)
(* which the sender uses the peer's own entry.                             *)
gossip(n, p) ==
    /\ n \in alive /\ p \in alive /\ round[n] # None /\ p \in round[n].todo
    /\ \E view \in PatchResults(p, n, round[n].view) :
        /\ stored' = [stored EXCEPT ![p] = view]
        /\ cachedState' = [cachedState EXCEPT ![p] = Available(view, p)]
        /\ LET sent == round[n].view[p]
           IN Collect(n, p, IF view[p].version > sent.version THEN view[p] ELSE sent,
                      [patches EXCEPT ![p] = @ \cup AvailablePatch(p, view)])
    /\ aliased' = [aliased EXCEPT ![p] = FALSE]
    /\ UNCHANGED <<scenario, alive, joining, marks, failures>>

(* The request fails: the peer's entry is marked, in the copy as well if   *)
(* that is still the object this maintenance works on.                     *)
Marked(n, p) ==
    LET e == round[n].view[p]
    IN IF e.status = "UNAVAILABLE" THEN e
       ELSE [e EXCEPT !.status = "UNAVAILABLE", !.version = @ + 1, !.time = MarkTime(p)]

gossipFailure(n, p) ==
    /\ n \in alive /\ round[n] # None /\ p \in round[n].todo
    /\ IF p \in alive THEN failures < scenario.failures /\ failures' = failures + 1
                      ELSE UNCHANGED failures
    /\ cachedState' = IF aliased[n] THEN [cachedState EXCEPT ![n][p] = Marked(n, p)]
                                    ELSE cachedState
    /\ marks' = [marks EXCEPT ![p] = IF Marked(n, p) = round[n].view[p] THEN @ ELSE @ + 1]
    /\ Collect(n, p, Marked(n, p), patches)
    /\ UNCHANGED <<scenario, alive, stored, aliased, joining>>

-----------------------------------------------------------------------------
(* handlePost with a JoinPeerRequest: the node's version moves forward and *)
(* the state of member m is asked for.                                     *)
handleJoinPost(n, m) ==
    /\ n \in alive /\ n \notin scenario.members \cup joined /\ m # n
    /\ LET self == [stored[n][n] EXCEPT !.version = @ + 1, !.time = Now(n)]
       IN /\ stored' = [stored EXCEPT ![n][n] = self]
          /\ joins' = joins \cup {[node |-> n, member |-> m, self |-> self]}
    /\ cachedState' = [cachedState EXCEPT ![n] = stored'[n]]
    /\ aliased' = [aliased EXCEPT ![n] = FALSE]
    /\ joined' = joined \cup {n}
    /\ UNCHANGED <<scenario, alive, round, patches, inserts, marks, failures>>

(* Pass 2: the member's state is merged, and the entry the join began with *)
(* is sent to the member.                                                  *)
joinState(j) ==
    /\ j \in joins /\ j.node \in alive /\ j.member \in alive
    /\ patches' = [patches EXCEPT ![j.node] =
                     @ \cup {[owner |-> j.member, body |-> cachedState[j.member]]}]
    /\ inserts' = inserts \cup {j}
    /\ joins' = joins \ {j}
    /\ UNCHANGED <<scenario, alive, views, round, aliased, joined, marks, failures>>

(* The GET fails.  It is tried again, which leaves the join waiting, until *)
(* the join expires, which is this step.                                   *)
handleJoinFailure(j) ==
    /\ j \in joins
    /\ IF j.member \in alive THEN failures < scenario.failures /\ failures' = failures + 1
                             ELSE UNCHANGED failures
    /\ joins' = joins \ {j}
    /\ UNCHANGED <<scenario, alive, views, round, aliased, patches, inserts, joined, marks>>

(* handlePost with a NodeState at the member: the entry replaces any other.*)
handlePost(j) ==
    /\ j \in inserts /\ j.member \in alive
    /\ stored' = [stored EXCEPT ![j.member][j.node] = j.self]
    /\ cachedState' = [cachedState EXCEPT ![j.member] = stored'[j.member]]
    /\ aliased' = [aliased EXCEPT ![j.member] = FALSE]
    /\ inserts' = inserts \ {j}
    /\ UNCHANGED <<scenario, alive, round, patches, joins, joined, marks, failures>>

insertFailure(j) ==
    /\ j \in inserts
    /\ IF j.member \in alive THEN failures < scenario.failures /\ failures' = failures + 1
                             ELSE UNCHANGED failures
    /\ inserts' = inserts \ {j}
    /\ UNCHANGED <<scenario, alive, views, round, aliased, patches, joins, joined, marks>>

crash(n) ==
    /\ n \in alive \cap scenario.mayCrash
    /\ alive' = alive \ {n}
    /\ round' = [round EXCEPT ![n] = None]
    /\ patches' = [patches EXCEPT ![n] = {}]
    /\ joins' = {j \in joins : j.node # n}
    /\ UNCHANGED <<scenario, views, aliased, inserts, joined, marks, failures>>

Answered(n, p) == gossip(n, p) \/ (p \notin alive /\ gossipFailure(n, p))
Joining(n) ==
    \E j \in joins \cup inserts :
        /\ j.node = n
        /\ joinState(j) \/ handlePost(j)
             \/ (j.member \notin alive /\ (handleJoinFailure(j) \/ insertFailure(j)))

Next ==
    \/ \E n \in Nodes : \/ \E q \in patches[n] : handlePatch(n, q)
                        \/ maintenanceAlone(n) \/ handleMaintenance(n)
                        \/ \E p \in Nodes : gossip(n, p) \/ gossipFailure(n, p)
                        \/ \E m \in Nodes : handleJoinPost(n, m)
                        \/ crash(n)
    \/ \E j \in joins : joinState(j) \/ handleJoinFailure(j)
    \/ \E j \in inserts : handlePost(j) \/ insertFailure(j)

(* Maintenance is periodic, requests are answered or time out, and what a  *)
(* node sends to itself is handled.                                        *)
Fairness ==
    \A n \in Nodes :
        /\ WF_vars(maintenanceAlone(n)) /\ WF_vars(handleMaintenance(n))
        /\ WF_vars(\E q \in patches[n] : handlePatch(n, q))
        /\ \A p \in Nodes : WF_vars(Answered(n, p))
        /\ WF_vars(Joining(n))

Spec == Init /\ [][Next]_vars /\ Fairness

-----------------------------------------------------------------------------
(* The types of the variables.                                             *)
TypeOK ==
    /\ scenario \in Scenarios /\ alive \subseteq scenario.hosts
    /\ \A n \in Nodes : stored[n] \in View /\ cachedState[n] \in View
    /\ \A n \in Nodes : round[n] # None => /\ round[n].view \in View
                                           /\ round[n].patchBody \in View
                                           /\ round[n].todo \subseteq Known(round[n].view) \ {n}
    /\ aliased \in [Nodes -> BOOLEAN]
    /\ \A n \in Nodes : \A q \in patches[n] : q.owner \in Nodes /\ q.body \in View
    /\ \A j \in joins \cup inserts :
          j.node \in Nodes /\ j.member \in Nodes /\ j.self \in Entry
    /\ joined \subseteq Nodes
    /\ marks \in [Nodes -> Nat] /\ failures \in 0 .. scenario.failures

(* "local instance of node group service is the only one that can update   *)
(* its own status": whatever its peers report, a node never takes itself   *)
(* for unavailable, in its state or in the copy it sends to others.        *)
NeverUnavailableToItself ==
    \A n \in Nodes : /\ n \in Known(stored[n]) /\ stored[n][n].status # "UNAVAILABLE"
                     /\ cachedState[n][n].status # "UNAVAILABLE"

(* "A node should never increment the version of a node entry, for other   *)
(* nodes, unless that node entry is marked UNAVAILABLE": no view holds a   *)
(* version of a node that is neither its own nor that of a marking, so a   *)
(* statement of the node itself is never hidden by a version it did not    *)
(* reach.                                                                  *)
OnlyMarkingsRunAhead ==
    \A n, x \in Nodes : /\ stored[n][x] # None /\ stored[n][x].version > stored[x][x].version
                        /\ x \in alive
                        => stored[n][x].status = "UNAVAILABLE"

(* Gossip converges once requests no longer fail: the live nodes that know *)
(* each other know each other as available and with the same version, and  *)
(* no node takes a crashed one for available.                              *)
Converged ==
    \A n \in alive : \A x \in Nodes \cap Known(stored[n]) :
        IF x \in alive
        THEN /\ stored[n][x].status = "AVAILABLE"
             /\ stored[n][x].version = stored[x][x].version
             /\ n \in Known(stored[x])
             /\ Known(stored[n]) \cap alive = Known(stored[x]) \cap alive
        ELSE stored[n][x].status = "UNAVAILABLE"
GossipConverges == <>[]Converged
=============================================================================
