----------------------- MODULE NodeGroupServiceProofs -----------------------
(***************************************************************************)
(* What membership gossip guarantees for any number of nodes, any initial  *)
(* group, any joins, crashes and failed requests: a node never takes       *)
(* itself for unavailable, and no view holds a version of a node that is   *)
(* neither the node's own nor that of a marking.                           *)
(*                                                                         *)
(* Both are about the state of the service, but what ends up in the state  *)
(* travels through the copy that maintenance changes in place, the view of *)
(* a round, its patchBody, the PATCH requests of a node to itself and the  *)
(* POST requests of joining nodes.  The inductive invariant GossipInv says *)
(* of every one of these what the properties say of the state.             *)
(***************************************************************************)
EXTENDS NodeGroupService, TLAPS

Patch == [owner : Nodes, body : View]
Join == [node : Nodes, member : Nodes, self : Entry]

(* The values of the variables that TypeOK describes node by node.         *)
Shapes ==
    /\ stored \in [Nodes -> View] /\ cachedState \in [Nodes -> View]
    /\ round \in [Nodes -> Round \cup {None}]
    /\ patches \in [Nodes -> SUBSET Patch]
    /\ joins \subseteq Join /\ inserts \subseteq Join

(* An entry is there and does not say UNAVAILABLE.                         *)
InService(e) == e # None /\ e.status # "UNAVAILABLE"

(* An entry has version v at most, or is a marking, or is missing.         *)
Within(e, v) == e # None /\ e.version > v => e.status = "UNAVAILABLE"
ViewWithin(view, bounds) == \A x \in Nodes : Within(view[x], bounds[x])

(* The versions the nodes have reached.                                    *)
Own == [x \in Nodes |-> stored[x][x].version]

(* What a node says of itself, wherever it says it.                        *)
SelfInv ==
    \A n \in Nodes :
        /\ InService(stored[n][n]) /\ InService(cachedState[n][n])
        /\ round[n] # None => round[n].patchBody[n] = None
        /\ \A q \in patches[n] : q.owner = n /\ q.body[n] # None => InService(q.body[n])

(* No view, wherever it is kept or on its way, runs ahead of a node.       *)
AheadOf(bounds) ==
    /\ \A n \in Nodes :
        /\ ViewWithin(stored[n], bounds) /\ ViewWithin(cachedState[n], bounds)
        /\ round[n] # None => /\ ViewWithin(round[n].view, bounds)
                              /\ ViewWithin(round[n].patchBody, bounds)
        /\ \A q \in patches[n] : ViewWithin(q.body, bounds)
    /\ \A j \in joins \cup inserts : Within(j.self, bounds[j.node])

AheadInv == AheadOf(Own) /\ \A j \in joins \cup inserts : j.node # j.member

(* What is left of TypeOK.                                                 *)
Rest ==
    /\ scenario \in Scenarios /\ alive \subseteq scenario.hosts
    /\ \A n \in Nodes : round[n] # None => round[n].todo \subseteq Known(round[n].view) \ {n}
    /\ aliased \in [Nodes -> BOOLEAN] /\ joined \subseteq Nodes
    /\ marks \in [Nodes -> Nat] /\ failures \in 0 .. scenario.failures

GossipInv == Shapes /\ Rest /\ SelfInv /\ AheadInv

-----------------------------------------------------------------------------
(* Entries and their merging.                                              *)
LEMMA EntryFields ==
  ASSUME NEW e \in Entry
  PROVE  /\ e # None /\ e.version \in Nat /\ e.time \in Nat /\ e.expires \in BOOLEAN
         /\ e.status \in {"SYNCHRONIZING", "AVAILABLE", "UNAVAILABLE"}
  BY NoneAssumption DEF Entry

(* A bound that grows keeps what it bounds.                                *)
LEMMA WithinGrows ==
  ASSUME NEW e \in Entry \cup {None}, NEW v \in Nat, NEW w \in Nat, v =< w, Within(e, v)
  PROVE  Within(e, w)
  BY EntryFields DEF Within

(* An entry that is accepted is one, keeps its status, and has the version *)
(* that was reported unless it is a marking.                               *)
LEMMA AcceptFacts ==
  ASSUME NEW c \in Entry, NEW r \in Entry
  PROVE  /\ Accept(c, r) \in Entry /\ Accept(c, r).status = r.status
         /\ Accept(c, r).version >= r.version
         /\ r.status # "UNAVAILABLE" => Accept(c, r).version = r.version
  <1> DEFINE first == r.status = "UNAVAILABLE" /\ ~c.expires /\ ~r.expires
             next == IF first /\ c.status = "UNAVAILABLE" THEN r.version + 1 ELSE r.version
             e == [r EXCEPT !.expires = r.expires \/ first, !.version = next]
  <1>1. Accept(c, r) = e
    BY DEF Accept
  <1>2. next \in Nat /\ next >= r.version /\ (r.status # "UNAVAILABLE" => next = r.version)
    BY EntryFields
  <1>3. (r.expires \/ first) \in BOOLEAN
    BY Zenon
  <1> HIDE DEF next, first
  <1>4. e \in Entry /\ e.status = r.status /\ e.version = next
    BY <1>2, <1>3 DEF Entry
  <1>5. QED
    BY <1>1, <1>2, <1>4

(* The node's own entry keeps to what the node says of itself, and its     *)
(* version does not go back.                                               *)
LEMMA MergedSelf ==
  ASSUME NEW n \in Nodes, NEW owner \in Nodes, NEW c \in Entry, NEW r \in Entry \cup {None},
         NEW keep \in BOOLEAN, marks \in [Nodes -> Nat], InService(c),
         owner = n /\ r # None => InService(r)
  PROVE  /\ MergedEntry(n, owner, n, c, r, keep) \in Entry
         /\ InService(MergedEntry(n, owner, n, c, r, keep))
         /\ MergedEntry(n, owner, n, c, r, keep).version >= c.version
  <1> DEFINE e == MergedEntry(n, owner, n, c, r, keep)
  <1>0. c # None /\ Now(n) \in Nat
    BY EntryFields DEF Now
  <1>1. CASE r = None
    <2>1. e = c
      BY <1>1 DEF MergedEntry
    <2>2. QED
      BY <2>1, EntryFields
  <1>2. CASE r \in Entry /\ owner # n
    <2>1. e = ReportOnSelf(n, c, r)
      BY <1>2, EntryFields DEF MergedEntry
    <2>2. CASE r.status # c.status /\ r.version > c.version
      <3>1. e = [c EXCEPT !.version = r.version, !.time = Now(n)]
        BY <2>1, <2>2 DEF ReportOnSelf
      <3>2. e \in Entry /\ e.status = c.status /\ e.version = r.version
        BY <3>1, <1>0, <1>2 DEF Entry
      <3>3. QED
        BY <3>2, <2>2, <1>2, EntryFields DEF InService
    <2>3. CASE ~(r.status # c.status /\ r.version > c.version)
      <3>1. e = c
        BY <2>1, <2>3 DEF ReportOnSelf
      <3>2. QED
        BY <3>1, EntryFields
    <2>4. QED
      BY <2>2, <2>3
  <1>3. CASE r \in Entry /\ owner = n /\ r.status # c.status
    <2>1. e = OwnChange(n, c, r)
      BY <1>3, <1>0, EntryFields DEF MergedEntry
    <2>2. PICK v \in Nat : /\ v >= c.version
                           /\ e = [c EXCEPT !.status = r.status, !.time = Now(n), !.version = v]
      <3>1. (IF r.version > c.version THEN r.version ELSE c.version) + 1 \in Nat
        BY <1>3, EntryFields
      <3>2. (IF r.version > c.version THEN r.version ELSE c.version) + 1 >= c.version
        BY <1>3, EntryFields
      <3>3. QED
        BY <3>1, <3>2, <2>1 DEF OwnChange
    <2>3. e \in Entry /\ e.status = r.status /\ e.version = v
      BY <2>2, <1>0, <1>3 DEF Entry
    <2>4. QED
      BY <2>2, <2>3, <1>3, EntryFields DEF InService
  <1>4. CASE r \in Entry /\ owner = n /\ r.status = c.status
    <2>1. e = IF Stale(c, r, keep) THEN c ELSE Accept(c, r)
      BY <1>4, <1>0, EntryFields DEF MergedEntry
    <2>2. CASE r.version < c.version
      <3>1. e = c
        BY <2>1, <2>2 DEF Stale
      <3>2. QED
        BY <3>1, EntryFields
    <2>3. CASE ~(r.version < c.version)
      <3>1. e = Accept(c, r)
        BY <2>1, <2>3, <1>4 DEF Stale, Differ
      <3>2. e \in Entry /\ e.status = r.status /\ e.version >= r.version
        BY <3>1, <1>4, AcceptFacts
      <3>3. e.version \in Nat /\ r.version \in Nat /\ c.version \in Nat /\ e # None
        BY <3>2, <1>4, EntryFields
      <3>4. QED
        BY <3>2, <3>3, <2>3, <1>4 DEF InService
    <2>4. QED
      BY <2>2, <2>3
  <1>5. QED
    BY <1>1, <1>2, <1>3, <1>4

(* The entry of another node stays within that node's own version.         *)
LEMMA MergedOther ==
  ASSUME NEW n \in Nodes, NEW owner \in Nodes, NEW x \in Nodes, x # n,
         NEW c \in Entry \cup {None}, NEW r \in Entry \cup {None}, NEW keep \in BOOLEAN,
         NEW v \in Nat, Within(c, v), Within(r, v)
  PROVE  /\ MergedEntry(n, owner, x, c, r, keep) \in Entry \cup {None}
         /\ Within(MergedEntry(n, owner, x, c, r, keep), v)
  <1> DEFINE e == MergedEntry(n, owner, x, c, r, keep)
  <1>1. CASE r = None
    <2>1. e = c
      BY <1>1 DEF MergedEntry
    <2>2. QED
      BY <2>1
  <1>2. CASE r \in Entry /\ c = None
    <2>1. e = IF r.status = "UNAVAILABLE" THEN None ELSE r
      BY <1>2, EntryFields DEF MergedEntry
    <2>2. e = None \/ e = r
      BY <2>1
    <2>3. QED
      BY <2>2, <1>2 DEF Within
  <1>3. CASE r \in Entry /\ c \in Entry
    <2>1. e = IF Stale(c, r, keep) THEN c ELSE Accept(c, r)
      BY <1>3, EntryFields DEF MergedEntry
    <2>2. e = c \/ e = Accept(c, r)
      BY <2>1
    <2>3. Within(Accept(c, r), v)
      BY <1>3, AcceptFacts, EntryFields DEF Within
    <2>4. QED
      BY <2>2, <2>3, <1>3, AcceptFacts
  <1>4. QED
    BY <1>1, <1>2, <1>3

(* What a handled PATCH may leave.                                         *)
BodyOK(n, owner, body) ==
    /\ body \in View /\ ViewWithin(body, Own)
    /\ owner = n /\ body[n] # None => InService(body[n])

ResultOK(n, view) ==
    /\ view \in View /\ InService(view[n]) /\ view[n].version >= Own[n]
    /\ \A x \in Nodes \ {n} : Within(view[x], Own[x])

LEMMA OwnVersion ==
  ASSUME Shapes, SelfInv, NEW x \in Nodes
  PROVE  stored[x] \in View /\ stored[x][x] \in Entry /\ Own[x] \in Nat
  <1>1. stored[x] \in View /\ stored[x][x] # None
    BY DEF Shapes, SelfInv, InService
  <1>2. stored[x][x] \in Entry
    BY <1>1 DEF View
  <1>3. QED
    BY <1>1, <1>2, EntryFields DEF Own

LEMMA PatchResultFacts ==
  ASSUME GossipInv, NEW n \in Nodes, NEW owner \in Nodes, NEW body, BodyOK(n, owner, body),
         NEW view \in PatchResults(n, owner, body)
  PROVE  ResultOK(n, view)
  <1>1. PICK keep \in SUBSET Ties(n, body) :
          \E gone \in SUBSET Expired(n, Merged(n, owner, body, keep), body) :
            view = [x \in Nodes |-> IF x \in gone THEN None
                                    ELSE Merged(n, owner, body, keep)[x]]
    BY DEF PatchResults
  <1> DEFINE merged == Merged(n, owner, body, keep)
  <1>2. PICK gone \in SUBSET Expired(n, merged, body) :
            view = [x \in Nodes |-> IF x \in gone THEN None ELSE merged[x]]
    BY <1>1
  <1>3. n \notin gone
    BY <1>2 DEF Expired
  <1>4. \A x \in Nodes : merged[x] = MergedEntry(n, owner, x, stored[n][x], body[x], x \in keep)
    BY DEF Merged
  <1>5. /\ stored[n] \in View /\ body \in View /\ marks \in [Nodes -> Nat]
        /\ stored[n][n] \in Entry /\ InService(stored[n][n])
        /\ \A x \in Nodes : Own[x] \in Nat /\ Within(stored[n][x], Own[x]) /\ Within(body[x], Own[x])
    BY OwnVersion DEF GossipInv, Rest, SelfInv, AheadInv, AheadOf, ViewWithin, BodyOK
  <1>6. merged[n] \in Entry /\ InService(merged[n]) /\ merged[n].version >= Own[n]
    <2>1. body[n] \in Entry \cup {None} /\ (owner = n /\ body[n] # None => InService(body[n]))
      BY <1>5 DEF View, BodyOK
    <2> DEFINE k == n \in keep
    <2>2. k \in BOOLEAN
      OBVIOUS
    <2>3. merged[n] = MergedEntry(n, owner, n, stored[n][n], body[n], k)
      BY <1>4
    <2> HIDE DEF merged, k
    <2>4. QED
      BY <2>1, <2>2, <2>3, <1>5, MergedSelf DEF Own
  <1>7. \A x \in Nodes \ {n} : merged[x] \in Entry \cup {None} /\ Within(merged[x], Own[x])
    <2>1. TAKE x \in Nodes \ {n}
    <2>2. body[x] \in Entry \cup {None} /\ stored[n][x] \in Entry \cup {None}
      BY <1>5 DEF View
    <2> DEFINE k == x \in keep
    <2>3. k \in BOOLEAN
      OBVIOUS
    <2>4. merged[x] = MergedEntry(n, owner, x, stored[n][x], body[x], k)
      BY <1>4
    <2> HIDE DEF merged, k
    <2>5. /\ x \in Nodes /\ x # n /\ Own[x] \in Nat
          /\ Within(stored[n][x], Own[x]) /\ Within(body[x], Own[x])
      BY <1>5
    <2>6. PICK c, r, v : c = stored[n][x] /\ r = body[x] /\ v = Own[x]
      OBVIOUS
    <2>7. /\ c \in Entry \cup {None} /\ r \in Entry \cup {None} /\ v \in Nat
          /\ Within(c, v) /\ Within(r, v)
      BY <2>2, <2>5, <2>6
    <2>8. /\ MergedEntry(n, owner, x, c, r, k) \in Entry \cup {None}
          /\ Within(MergedEntry(n, owner, x, c, r, k), v)
      BY <2>3, <2>5, <2>7, MergedOther, Zenon
    <2>9. QED
      BY <2>4, <2>6, <2>8
  <1> HIDE DEF merged
  <1>8. view[n] = merged[n]
    BY <1>2, <1>3
  <1>9. \A x \in Nodes \ {n} : view[x] = None \/ view[x] = merged[x]
    BY <1>2
  <1>10. view \in View
    BY <1>2, <1>6, <1>7 DEF View
  <1>11. \A x \in Nodes \ {n} : Within(view[x], Own[x])
    BY <1>7, <1>9 DEF Within
  <1>12. QED
    BY <1>6, <1>8, <1>10, <1>11 DEF ResultOK

-----------------------------------------------------------------------------
(* Versions that move forward.                                             *)
LEMMA OwnGrows ==
  ASSUME GossipInv, stored' \in [Nodes -> View],
         \A x \in Nodes : /\ InService(stored'[x][x])
                          /\ stored'[x][x].version >= stored[x][x].version
  PROVE  Own' \in [Nodes -> Nat] /\ \A x \in Nodes : Own[x] \in Nat /\ Own'[x] >= Own[x]
  <1>1. \A x \in Nodes : stored'[x][x] \in Entry
    BY DEF View, InService
  <1>2. \A x \in Nodes : stored'[x][x].version \in Nat
    BY <1>1, EntryFields
  <1>3. Own' = [x \in Nodes |-> stored'[x][x].version]
    BY DEF Own
  <1>4. \A x \in Nodes : Own[x] = stored[x][x].version /\ Own[x] \in Nat
    BY OwnVersion DEF Own, GossipInv
  <1>5. QED
    BY <1>2, <1>3, <1>4

LEMMA ViewGrows ==
  ASSUME NEW view \in View, NEW v, NEW w, ViewWithin(view, v),
         \A x \in Nodes : v[x] \in Nat /\ w[x] \in Nat /\ w[x] >= v[x]
  PROVE  ViewWithin(view, w)
  <1>1. SUFFICES ASSUME NEW x \in Nodes
                 PROVE  Within(view[x], w[x])
    BY DEF ViewWithin
  <1>2. view[x] \in Entry \cup {None} /\ Within(view[x], v[x])
    BY DEF View, ViewWithin
  <1>3. QED
    BY <1>2, WithinGrows

LEMMA RoundFields ==
  ASSUME NEW r \in Round
  PROVE  /\ r # None /\ r.view \in View /\ r.patchBody \in View /\ r.todo \in SUBSET Nodes
  BY NoneAssumption DEF Round

LEMMA AheadGrows ==
  ASSUME GossipInv, NEW w, \A x \in Nodes : Own[x] \in Nat /\ w[x] \in Nat /\ w[x] >= Own[x]
  PROVE  AheadOf(w)
  <1>0. PICK v : v = Own
    OBVIOUS
  <1>1. AheadOf(v) /\ \A x \in Nodes : v[x] \in Nat /\ w[x] \in Nat /\ w[x] >= v[x]
    BY <1>0 DEF GossipInv, AheadInv
  <1>2. ASSUME NEW n \in Nodes
        PROVE  /\ ViewWithin(stored[n], w) /\ ViewWithin(cachedState[n], w)
               /\ round[n] # None => /\ ViewWithin(round[n].view, w)
                                     /\ ViewWithin(round[n].patchBody, w)
               /\ \A q \in patches[n] : ViewWithin(q.body, w)
    <2>1. stored[n] \in View /\ cachedState[n] \in View
      BY DEF GossipInv, Shapes
    <2>2. ViewWithin(stored[n], v) /\ ViewWithin(cachedState[n], v)
      BY <1>1 DEF AheadOf
    <2>3. ViewWithin(stored[n], w) /\ ViewWithin(cachedState[n], w)
      BY <1>1, <2>1, <2>2, ViewGrows
    <2>4. ASSUME round[n] # None
          PROVE  ViewWithin(round[n].view, w) /\ ViewWithin(round[n].patchBody, w)
      <3>1. round[n].view \in View /\ round[n].patchBody \in View
        BY <2>4, RoundFields DEF GossipInv, Shapes
      <3>2. ViewWithin(round[n].view, v) /\ ViewWithin(round[n].patchBody, v)
        BY <1>1, <2>4 DEF AheadOf
      <3>3. QED
        BY <1>1, <3>1, <3>2, ViewGrows
    <2>5. ASSUME NEW q \in patches[n]
          PROVE  ViewWithin(q.body, w)
      <3>1. q.body \in View
        BY DEF GossipInv, Shapes, Patch
      <3>2. ViewWithin(q.body, v)
        BY <1>1 DEF AheadOf
      <3>3. QED
        BY <1>1, <3>1, <3>2, ViewGrows
    <2>6. QED
      BY <2>3, <2>4, <2>5
  <1>3. ASSUME NEW j \in joins \cup inserts
        PROVE  Within(j.self, w[j.node])
    <2>1. j.self \in Entry /\ j.node \in Nodes
      BY DEF GossipInv, Shapes, Join
    <2>2. Within(j.self, v[j.node])
      BY <1>1 DEF AheadOf
    <2>3. QED
      BY <1>1, <2>1, <2>2, WithinGrows
  <1>4. QED
    BY <1>2, <1>3 DEF AheadOf

(* handlePatch leaves views that keep to what GossipInv says of them.      *)
LEMMA AvailableFacts ==
  ASSUME NEW view \in View, NEW n \in Nodes, InService(view[n])
  PROVE  /\ Available(view, n) \in View /\ InService(Available(view, n)[n])
         /\ Available(view, n)[n] \in Entry
         /\ Available(view, n)[n].version = view[n].version
         /\ \A x \in Nodes \ {n} : Available(view, n)[x] = view[x]
  <1>1. view[n] \in Entry
    BY DEF View, InService
  <1> DEFINE e == [view[n] EXCEPT !.status = "AVAILABLE"]
  <1>2. e \in Entry /\ e.status = "AVAILABLE" /\ e.version = view[n].version
    BY <1>1 DEF Entry
  <1>3. Available(view, n) = [view EXCEPT ![n] = e]
    BY DEF Available
  <1> HIDE DEF e
  <1>4. Available(view, n)[n] = e /\ \A x \in Nodes \ {n} : Available(view, n)[x] = view[x]
    BY <1>3 DEF View
  <1>5. Available(view, n) \in View
    BY <1>2, <1>3 DEF View
  <1>6. QED
    BY <1>2, <1>4, <1>5, EntryFields DEF InService

LEMMA ResultStored ==
  ASSUME GossipInv, NEW p \in Nodes, NEW view, ResultOK(p, view),
         stored' = [stored EXCEPT ![p] = view],
         cachedState' = [cachedState EXCEPT ![p] = Available(view, p)]
  PROVE  /\ stored' \in [Nodes -> View] /\ cachedState' \in [Nodes -> View]
         /\ \A n \in Nodes : InService(stored'[n][n]) /\ InService(cachedState'[n][n])
         /\ Own' \in [Nodes -> Nat] /\ \A x \in Nodes : Own[x] \in Nat /\ Own'[x] >= Own[x]
         /\ \A n \in Nodes : ViewWithin(stored'[n], Own') /\ ViewWithin(cachedState'[n], Own')
  <1>0. /\ stored \in [Nodes -> View] /\ cachedState \in [Nodes -> View]
        /\ view \in View /\ InService(view[p])
    BY DEF GossipInv, Shapes, ResultOK
  <1>1. stored' \in [Nodes -> View] /\ cachedState' \in [Nodes -> View]
    BY <1>0, AvailableFacts
  <1>2. /\ stored'[p] = view /\ cachedState'[p] = Available(view, p)
        /\ \A n \in Nodes \ {p} : stored'[n] = stored[n] /\ cachedState'[n] = cachedState[n]
    BY <1>0
  <1>3. ASSUME NEW n \in Nodes
        PROVE  InService(stored'[n][n]) /\ InService(cachedState'[n][n])
    <2>1. CASE n = p
      BY <2>1, <1>0, <1>2, AvailableFacts
    <2>2. CASE n # p
      BY <2>2, <1>2 DEF GossipInv, SelfInv
    <2>3. QED
      BY <2>1, <2>2
  <1>4. ASSUME NEW x \in Nodes
        PROVE  stored'[x][x].version >= stored[x][x].version
    <2>1. CASE x = p
      BY <2>1, <1>2 DEF ResultOK, Own
    <2>2. CASE x # p
      <3>1. stored[x][x].version \in Nat
        BY OwnVersion DEF GossipInv, Own
      <3>2. QED
        BY <2>2, <3>1, <1>2
    <2>3. QED
      BY <2>1, <2>2
  <1>5. Own' \in [Nodes -> Nat] /\ \A x \in Nodes : Own[x] \in Nat /\ Own'[x] >= Own[x]
    BY <1>1, <1>3, <1>4, OwnGrows
  <1>6. PICK w : w = Own'
    OBVIOUS
  <1>7. AheadOf(w)
    BY <1>5, <1>6, AheadGrows
  <1>8. ASSUME NEW x \in Nodes
        PROVE  Within(view[x], w[x]) /\ Within(Available(view, p)[x], w[x])
    <2>1. CASE x = p
      <3>1. w[x] = view[p].version
        BY <2>1, <1>2, <1>6 DEF Own
      <3>2. view[p] \in Entry
        BY <1>0 DEF View, InService
      <3>3. QED
        BY <2>1, <3>1, <3>2, <1>0, AvailableFacts, EntryFields DEF Within
    <2>2. CASE x # p
      <3>1. Within(view[x], Own[x]) /\ view[x] \in Entry \cup {None}
        BY <2>2, <1>0 DEF ResultOK, View
      <3>2. Own[x] \in Nat /\ w[x] \in Nat /\ w[x] >= Own[x]
        BY <1>5, <1>6
      <3>3. Within(view[x], w[x])
        BY <3>1, <3>2, WithinGrows
      <3>4. QED
        BY <2>2, <3>3, <1>0, AvailableFacts
    <2>3. QED
      BY <2>1, <2>2
  <1>9. ASSUME NEW n \in Nodes
        PROVE  ViewWithin(stored'[n], w) /\ ViewWithin(cachedState'[n], w)
    <2>1. CASE n = p
      BY <2>1, <1>2, <1>8 DEF ViewWithin
    <2>2. CASE n # p
      BY <2>2, <1>2, <1>7 DEF AheadOf
    <2>3. QED
      BY <2>1, <2>2
  <1>10. QED
    BY <1>1, <1>3, <1>5, <1>6, <1>9

-----------------------------------------------------------------------------
(* GossipInv place by place: what it says of a view that node n keeps, of  *)
(* a maintenance of n, of a PATCH of n to itself and of a join, when the   *)
(* nodes have reached the versions own.                                    *)
ViewOK(n, view, own) == view \in View /\ InService(view[n]) /\ ViewWithin(view, own)
RoundOK(n, r, own) ==
    r # None => /\ r \in Round /\ r.todo \subseteq Known(r.view) \ {n}
                /\ r.patchBody[n] = None
                /\ ViewWithin(r.view, own) /\ ViewWithin(r.patchBody, own)
PatchOK(n, q, own) ==
    /\ q \in Patch /\ (q.owner = n /\ q.body[n] # None => InService(q.body[n]))
    /\ ViewWithin(q.body, own)
JoinOK(j, own) == j \in Join /\ j.node # j.member /\ Within(j.self, own[j.node])

LEMMA Places ==
  ASSUME GossipInv, NEW w, \A x \in Nodes : Own[x] \in Nat /\ w[x] \in Nat /\ w[x] >= Own[x]
  PROVE  /\ \A n \in Nodes : /\ ViewOK(n, stored[n], w) /\ ViewOK(n, cachedState[n], w)
                             /\ RoundOK(n, round[n], w)
                             /\ \A q \in patches[n] : PatchOK(n, q, w)
         /\ \A j \in joins \cup inserts : JoinOK(j, w)
  <1>1. AheadOf(w)
    BY AheadGrows
  <1>2. ASSUME NEW n \in Nodes
        PROVE  ViewOK(n, stored[n], w) /\ ViewOK(n, cachedState[n], w)
    BY <1>1 DEF GossipInv, Shapes, SelfInv, AheadOf, ViewOK
  <1>3. ASSUME NEW n \in Nodes
        PROVE  RoundOK(n, round[n], w)
    <2>1. SUFFICES ASSUME round[n] # None
                   PROVE  RoundOK(n, round[n], w)
      BY DEF RoundOK
    <2>2. round[n] \in Round /\ round[n].todo \subseteq Known(round[n].view) \ {n}
      BY <2>1 DEF GossipInv, Shapes, Rest
    <2>3. round[n].patchBody[n] = None
      BY <2>1 DEF GossipInv, SelfInv
    <2>4. ViewWithin(round[n].view, w) /\ ViewWithin(round[n].patchBody, w)
      BY <2>1, <1>1 DEF AheadOf
    <2>5. QED
      BY <2>2, <2>3, <2>4 DEF RoundOK
  <1>4. ASSUME NEW n \in Nodes, NEW q \in patches[n]
        PROVE  PatchOK(n, q, w)
    BY <1>1 DEF GossipInv, Shapes, SelfInv, AheadOf, PatchOK
  <1>5. ASSUME NEW j \in joins \cup inserts
        PROVE  JoinOK(j, w)
    BY <1>1 DEF GossipInv, Shapes, AheadInv, AheadOf, JoinOK
  <1>6. QED
    BY <1>2, <1>3, <1>4, <1>5

LEMMA PlacesNow ==
  ASSUME GossipInv
  PROVE  /\ \A x \in Nodes : Own[x] \in Nat /\ Own[x] >= Own[x]
         /\ \A x \in Nodes : Own[x] = stored[x][x].version
         /\ \A n \in Nodes : /\ ViewOK(n, stored[n], Own) /\ ViewOK(n, cachedState[n], Own)
                             /\ RoundOK(n, round[n], Own)
                             /\ \A q \in patches[n] : PatchOK(n, q, Own)
         /\ \A j \in joins \cup inserts : JoinOK(j, Own)
  <1>1. \A x \in Nodes : Own[x] \in Nat /\ Own[x] = stored[x][x].version
    BY OwnVersion DEF GossipInv, Own
  <1>2. PICK w : w = Own
    OBVIOUS
  <1>3. \A x \in Nodes : Own[x] \in Nat /\ w[x] \in Nat /\ w[x] >= Own[x]
    BY <1>1, <1>2
  <1>4. QED
    BY <1>1, <1>2, <1>3, Places

(* The other way round, for the state after a step.                        *)
LEMMA Assemble ==
  ASSUME NEW w, w = Own',
         stored' \in [Nodes -> View], cachedState' \in [Nodes -> View],
         round' \in [Nodes -> Round \cup {None}], patches' \in [Nodes -> SUBSET Patch],
         \A n \in Nodes : ViewOK(n, stored'[n], w) /\ ViewOK(n, cachedState'[n], w),
         \A n \in Nodes : RoundOK(n, round'[n], w),
         \A n \in Nodes : \A q \in patches'[n] : PatchOK(n, q, w),
         \A j \in joins' \cup inserts' : JoinOK(j, w),
         scenario' \in Scenarios, alive' \subseteq scenario'.hosts,
         aliased' \in [Nodes -> BOOLEAN], joined' \subseteq Nodes,
         marks' \in [Nodes -> Nat], failures' \in 0 .. scenario'.failures
  PROVE  GossipInv'
  <1>1. Shapes'
    BY DEF Shapes, JoinOK
  <1>2. Rest'
    BY DEF Rest, RoundOK
  <1>3. SelfInv'
    BY DEF SelfInv, ViewOK, RoundOK, PatchOK
  <1>4. AheadInv'
    <2>1. \A n \in Nodes : ViewWithin(stored'[n], w) /\ ViewWithin(cachedState'[n], w)
      BY DEF ViewOK
    <2>2. \A n \in Nodes : round'[n] # None => /\ ViewWithin(round'[n].view, w)
                                               /\ ViewWithin(round'[n].patchBody, w)
      BY DEF RoundOK
    <2>3. \A n \in Nodes : \A q \in patches'[n] : ViewWithin(q.body, w)
      BY DEF PatchOK
    <2>4. \A j \in joins' \cup inserts' : Within(j.self, w[j.node]) /\ j.node # j.member
      BY DEF JoinOK
    <2>5. QED
      BY <2>1, <2>2, <2>3, <2>4 DEF AheadInv, AheadOf
  <1>5. QED
    BY <1>1, <1>2, <1>3, <1>4 DEF GossipInv

-----------------------------------------------------------------------------
(* The PATCH with which a node makes itself available.                     *)
LEMMA SelfPatchOK ==
  ASSUME NEW n \in Nodes, NEW body \in View, NEW own, ViewWithin(body, own),
         body[n] # None => InService(body[n])
  PROVE  SelfPatch(n, body) \in Patch /\ PatchOK(n, SelfPatch(n, body), own)
  <1>1. /\ SelfPatch(n, body) \in Patch
        /\ SelfPatch(n, body).owner = n /\ SelfPatch(n, body).body = body
    BY DEF SelfPatch, Patch
  <1>2. QED
    BY <1>1 DEF PatchOK

LEMMA NoViewFacts ==
  ASSUME NEW n \in Nodes, NEW e \in Entry, NEW own, Within(e, own[n])
  PROVE  /\ NoView \in View /\ ViewWithin(NoView, own) /\ NoView[n] = None
         /\ [NoView EXCEPT ![n] = e] \in View /\ [NoView EXCEPT ![n] = e][n] = e
         /\ ViewWithin([NoView EXCEPT ![n] = e], own)
  <1>1. NoView \in View /\ \A x \in Nodes : NoView[x] = None
    BY DEF NoView, View
  <1>2. [NoView EXCEPT ![n] = e] \in View /\ [NoView EXCEPT ![n] = e][n] = e
    BY <1>1 DEF View
  <1>3. \A x \in Nodes \ {n} : [NoView EXCEPT ![n] = e][x] = None
    BY <1>1 DEF View
  <1>4. ViewWithin(NoView, own)
    BY <1>1 DEF ViewWithin, Within
  <1>5. ViewWithin([NoView EXCEPT ![n] = e], own)
    BY <1>2, <1>3 DEF ViewWithin, Within
  <1>6. QED
    BY <1>1, <1>2, <1>4, <1>5

LEMMA AvailablePatchOK ==
  ASSUME NEW n \in Nodes, NEW view \in View, NEW own, InService(view[n]),
         own[n] = view[n].version
  PROVE  \A q \in AvailablePatch(n, view) : q \in Patch /\ PatchOK(n, q, own)
  <1>1. PICK e : e = Available(view, n)[n]
    OBVIOUS
  <1>2. e \in Entry /\ InService(e) /\ e.version = own[n] /\ view[n] \in Entry
    BY <1>1, AvailableFacts DEF View, InService
  <1>3. Within(e, own[n])
    BY <1>2, EntryFields DEF Within
  <1>4. PICK body : body = [NoView EXCEPT ![n] = e]
    OBVIOUS
  <1>5. body \in View /\ body[n] = e /\ ViewWithin(body, own)
    BY <1>2, <1>3, <1>4, NoViewFacts
  <1>6. SelfPatch(n, body) \in Patch /\ PatchOK(n, SelfPatch(n, body), own)
    BY <1>2, <1>5, SelfPatchOK
  <1>7. QED
    BY <1>1, <1>4, <1>6 DEF AvailablePatch

(* handleGossipPatchCompletion keeps the rounds and the patches in order.  *)
LEMMA CollectKept ==
  ASSUME GossipInv, NEW n \in Nodes, NEW p \in Nodes, round[n] # None, p \in round[n].todo,
         NEW w, \A x \in Nodes : Own[x] \in Nat /\ w[x] \in Nat /\ w[x] >= Own[x],
         NEW entry \in Entry, Within(entry, w[p]),
         NEW pending \in [Nodes -> SUBSET Patch],
         \A m \in Nodes : \A q \in pending[m] : PatchOK(m, q, w),
         Collect(n, p, entry, pending)
  PROVE  /\ round' \in [Nodes -> Round \cup {None}] /\ patches' \in [Nodes -> SUBSET Patch]
         /\ \A m \in Nodes : RoundOK(m, round'[m], w)
         /\ \A m \in Nodes : \A q \in patches'[m] : PatchOK(m, q, w)
  <1>1. \A m \in Nodes : RoundOK(m, round[m], w)
    BY Places
  <1>2. PICK r : r = round[n]
    OBVIOUS
  <1>3. /\ r \in Round /\ r.view \in View /\ r.patchBody \in View /\ r.todo \in SUBSET Nodes
        /\ r.todo \subseteq Known(r.view) \ {n} /\ r.patchBody[n] = None /\ p \in r.todo
        /\ ViewWithin(r.view, w) /\ ViewWithin(r.patchBody, w)
    BY <1>1, <1>2, RoundFields DEF RoundOK
  <1>4. round \in [Nodes -> Round \cup {None}]
    BY DEF GossipInv, Shapes
  <1>5. PICK body : body = [r.patchBody EXCEPT ![p] = entry]
    OBVIOUS
  <1>6. p # n
    BY <1>3
  <1>7. body \in View /\ body[n] = None /\ ViewWithin(body, w)
    <2>1. body \in View /\ body[n] = None /\ body[p] = entry
      BY <1>3, <1>5, <1>6 DEF View
    <2>2. \A x \in Nodes \ {p} : body[x] = r.patchBody[x]
      BY <1>3, <1>5 DEF View
    <2>3. QED
      BY <2>1, <2>2, <1>3 DEF ViewWithin
  <1>8. CASE r.todo = {p}
    <2>1. /\ patches' = [pending EXCEPT ![n] = pending[n] \cup {SelfPatch(n, body)}]
          /\ round' = [round EXCEPT ![n] = None]
      BY <1>2, <1>5, <1>8 DEF Collect
    <2>2. round' \in [Nodes -> Round \cup {None}] /\ \A m \in Nodes : RoundOK(m, round'[m], w)
      BY <2>1, <1>1, <1>4 DEF RoundOK
    <2>3. PICK q0 : q0 = SelfPatch(n, body)
      OBVIOUS
    <2>4. q0 \in Patch /\ PatchOK(n, q0, w)
      BY <2>3, <1>7, SelfPatchOK
    <2>5. patches' = [pending EXCEPT ![n] = pending[n] \cup {q0}]
      BY <2>1, <2>3
    <2>6. patches' \in [Nodes -> SUBSET Patch]
      BY <2>4, <2>5
    <2>7. \A m \in Nodes : \A q \in patches'[m] : q \in pending[m] \/ (m = n /\ q = q0)
      BY <2>5
    <2>8. QED
      BY <2>2, <2>4, <2>6, <2>7
  <1>9. CASE r.todo # {p}
    <2>1. PICK s : s = [r EXCEPT !.todo = r.todo \ {p}, !.patchBody = body]
      OBVIOUS
    <2>2. /\ s \in Round /\ s.view = r.view /\ s.todo = r.todo \ {p} /\ s.patchBody = body
      BY <2>1, <1>3, <1>7 DEF Round
    <2>3. patches' = pending /\ round' = [round EXCEPT ![n] = s]
      BY <2>1, <1>2, <1>4, <1>5, <1>9 DEF Collect
    <2>4. RoundOK(n, s, w)
      BY <2>2, <1>3, <1>7 DEF RoundOK
    <2>5. round' \in [Nodes -> Round \cup {None}]
      BY <2>2, <2>3, <1>4
    <2>6. \A m \in Nodes : round'[m] = IF m = n THEN s ELSE round[m]
      BY <2>3, <1>4
    <2>7. \A m \in Nodes : RoundOK(m, round'[m], w)
      BY <2>4, <2>6, <1>1
    <2>8. QED
      BY <2>3, <2>5, <2>7
  <1>10. QED
    BY <1>8, <1>9

-----------------------------------------------------------------------------
(* Init, and the steps.                                                    *)
LEMMA GossipInit == Init => GossipInv
  <1> SUFFICES ASSUME Init
               PROVE  GossipInv
    OBVIOUS
  <1>1. NewEntry \in Entry /\ NewEntry.version = 0 /\ NewEntry.status = "SYNCHRONIZING"
    BY DEF NewEntry, Entry
  <1>2. MemberEntry \in Entry /\ MemberEntry.version = 1 /\ MemberEntry.status = "AVAILABLE"
    BY DEF MemberEntry, NewEntry, Entry
  <1>3. /\ scenario \in Scenarios /\ scenario.hosts \subseteq Nodes
        /\ scenario.members \subseteq Nodes /\ scenario.failures \in Nat
    BY GroupAssumption DEF Init
  <1>4. NoView \in View /\ \A x \in Nodes : NoView[x] = None
    BY DEF NoView, View
  <1>5. ASSUME NEW n \in Nodes
        PROVE  stored[n] \in View /\ \A x \in Nodes :
                 \/ x = n /\ n \notin scenario.members /\ stored[n][x] = NewEntry
                 \/ x \in scenario.members /\ n \in scenario.members /\ stored[n][x] = MemberEntry
                 \/ x # n /\ stored[n][x] = None
    <2>1. CASE n \in scenario.members
      <3>1. stored[n] = [x \in Nodes |-> IF x \in scenario.members THEN MemberEntry ELSE None]
        BY <2>1 DEF Init
      <3>2. stored[n] \in View
        BY <3>1, <1>2 DEF View
      <3>3. \A x \in Nodes : stored[n][x] = IF x \in scenario.members THEN MemberEntry ELSE None
        BY <3>1
      <3>4. QED
        BY <2>1, <3>2, <3>3
    <2>2. CASE n \notin scenario.members
      <3>1. stored[n] = [NoView EXCEPT ![n] = NewEntry]
        BY <2>2 DEF Init
      <3>2. stored[n] \in View
        BY <3>1, <1>1, <1>4 DEF View
      <3>3. \A x \in Nodes : stored[n][x] = IF x = n THEN NewEntry ELSE None
        BY <3>1, <1>4 DEF View
      <3>4. QED
        BY <2>2, <3>2, <3>3
    <2>3. QED
      BY <2>1, <2>2
  <1>6. stored \in [Nodes -> View] /\ cachedState = stored
    <2>1. stored = [n \in Nodes |-> stored[n]] /\ cachedState = stored
      BY DEF Init
    <2>2. QED
      BY <2>1, <1>5
  <1>7. /\ round = [n \in Nodes |-> None] /\ patches = [n \in Nodes |-> {}]
        /\ joins = {} /\ inserts = {}
    BY DEF Init
  <1>8. Shapes
    BY <1>6, <1>7 DEF Shapes
  <1>9. Rest
    BY <1>3, <1>7 DEF Init, Rest
  <1>10. SelfInv
    <2>1. \A n \in Nodes : stored[n][n] = NewEntry \/ stored[n][n] = MemberEntry
      BY <1>5
    <2>2. \A n \in Nodes : InService(stored[n][n])
      BY <2>1, <1>1, <1>2, EntryFields DEF InService
    <2>3. QED
      BY <2>2, <1>6, <1>7 DEF SelfInv
  <1>11. AheadInv
    <2>1. ASSUME NEW n \in Nodes, NEW x \in Nodes
          PROVE  Within(stored[n][x], Own[x])
      <3>1. Own[x] = stored[x][x].version
        BY DEF Own
      <3>2. \/ stored[n][x] = NewEntry
            \/ x \in scenario.members /\ stored[n][x] = MemberEntry
            \/ stored[n][x] = None
        BY <1>5
      <3>3. /\ x \in scenario.members => stored[x][x] = MemberEntry
            /\ stored[x][x] = NewEntry \/ stored[x][x] = MemberEntry
        BY <1>5
      <3>4. QED
        BY <3>1, <3>2, <3>3, <1>1, <1>2 DEF Within
    <2>2. \A n \in Nodes : ViewWithin(stored[n], Own) /\ ViewWithin(cachedState[n], Own)
      BY <2>1, <1>6 DEF ViewWithin
    <2>3. QED
      BY <2>2, <1>7 DEF AheadInv, AheadOf
  <1>12. QED
    BY <1>8, <1>9, <1>10, <1>11 DEF GossipInv

(* handlePatch.                                                            *)
LEMMA HandlePatchStep ==
  ASSUME GossipInv, NEW n \in Nodes, NEW q \in patches[n], handlePatch(n, q)
  PROVE  GossipInv'
  <1>1. PICK view \in PatchResults(n, q.owner, q.body) :
          /\ stored' = [stored EXCEPT ![n] = view]
          /\ cachedState' = [cachedState EXCEPT ![n] = Available(view, n)]
          /\ patches' = [patches EXCEPT ![n] = (patches[n] \ {q}) \cup AvailablePatch(n, view)]
    BY DEF handlePatch
  <1>2. BodyOK(n, q.owner, q.body) /\ q.owner \in Nodes
    BY PlacesNow DEF PatchOK, Patch, BodyOK
  <1>3. PICK owner, body : owner = q.owner /\ body = q.body
    OBVIOUS
  <1>4. ResultOK(n, view)
    BY <1>1, <1>2, <1>3, PatchResultFacts
  <1>5. /\ stored' \in [Nodes -> View] /\ cachedState' \in [Nodes -> View]
        /\ \A m \in Nodes : InService(stored'[m][m]) /\ InService(cachedState'[m][m])
        /\ Own' \in [Nodes -> Nat] /\ \A x \in Nodes : Own[x] \in Nat /\ Own'[x] >= Own[x]
        /\ \A m \in Nodes : ViewWithin(stored'[m], Own') /\ ViewWithin(cachedState'[m], Own')
    BY <1>1, <1>4, ResultStored
  <1>6. PICK w : w = Own'
    OBVIOUS
  <1>7. \A x \in Nodes : Own[x] \in Nat /\ w[x] \in Nat /\ w[x] >= Own[x]
    BY <1>5, <1>6
  <1>8. /\ \A m \in Nodes : RoundOK(m, round[m], w) /\ \A r \in patches[m] : PatchOK(m, r, w)
        /\ \A j \in joins \cup inserts : JoinOK(j, w)
    BY <1>7, Places
  <1>9. w[n] = view[n].version /\ view \in View /\ InService(view[n])
    BY <1>1, <1>4, <1>6 DEF Own, ResultOK, GossipInv, Shapes
  <1>10. PICK more : more = AvailablePatch(n, view)
    OBVIOUS
  <1>11. \A r \in more : r \in Patch /\ PatchOK(n, r, w)
    BY <1>9, <1>10, AvailablePatchOK
  <1>12. patches \in [Nodes -> SUBSET Patch] /\ round \in [Nodes -> Round \cup {None}]
    BY DEF GossipInv, Shapes
  <1>13. patches' = [patches EXCEPT ![n] = (patches[n] \ {q}) \cup more]
    BY <1>1, <1>10
  <1>14. patches' \in [Nodes -> SUBSET Patch]
    BY <1>11, <1>12, <1>13
  <1>15. \A m \in Nodes : \A r \in patches'[m] : r \in patches[m] \/ (m = n /\ r \in more)
    BY <1>12, <1>13
  <1>16. \A m \in Nodes : \A r \in patches'[m] : PatchOK(m, r, w)
    BY <1>8, <1>11, <1>15
  <1>17. \A m \in Nodes : ViewOK(m, stored'[m], w) /\ ViewOK(m, cachedState'[m], w)
    BY <1>5, <1>6 DEF ViewOK
  <1>18. /\ round' = round /\ joins' = joins /\ inserts' = inserts /\ joined' = joined
         /\ scenario' = scenario /\ alive' = alive /\ marks' = marks /\ failures' = failures
         /\ aliased' = [aliased EXCEPT ![n] = FALSE]
    BY DEF handlePatch, joining
  <1>19. /\ scenario' \in Scenarios /\ alive' \subseteq scenario'.hosts
         /\ aliased' \in [Nodes -> BOOLEAN] /\ joined' \subseteq Nodes
         /\ marks' \in [Nodes -> Nat] /\ failures' \in 0 .. scenario'.failures
    BY <1>18 DEF GossipInv, Rest
  <1>20. QED
    BY <1>5, <1>6, <1>8, <1>12, <1>14, <1>16, <1>17, <1>18, <1>19, Assemble

(* Steps that leave the state of the service alone.                        *)
LEMMA SameVersions ==
  ASSUME GossipInv, stored' = stored
  PROVE  /\ Own' = Own /\ stored' \in [Nodes -> View]
         /\ \A n \in Nodes : ViewOK(n, stored'[n], Own)
  BY PlacesNow DEF Own, GossipInv, Shapes

(* handleMaintenance of a node on its own, and of one with peers.          *)
LEMMA MaintenanceAloneStep ==
  ASSUME GossipInv, NEW n \in Nodes, maintenanceAlone(n)
  PROVE  GossipInv'
  <1>1. PICK w : w = Own
    OBVIOUS
  <1>2. PICK q0 : q0 = SelfPatch(n, cachedState[n])
    OBVIOUS
  <1>3. patches' = [patches EXCEPT ![n] = {q0}]
    BY <1>2 DEF maintenanceAlone
  <1>4. /\ scenario' = scenario /\ alive' = alive /\ stored' = stored /\ round' = round
        /\ cachedState' = cachedState /\ aliased' = aliased /\ joins' = joins
        /\ inserts' = inserts /\ joined' = joined /\ marks' = marks /\ failures' = failures
    BY DEF maintenanceAlone, views, joining
  <1>5. /\ \A m \in Nodes : /\ ViewOK(m, stored[m], w) /\ ViewOK(m, cachedState[m], w)
                            /\ RoundOK(m, round[m], w)
                            /\ \A q \in patches[m] : PatchOK(m, q, w)
        /\ \A j \in joins \cup inserts : JoinOK(j, w)
    BY <1>1, PlacesNow
  <1>6. q0 \in Patch /\ PatchOK(n, q0, w)
    BY <1>2, <1>5, SelfPatchOK DEF ViewOK
  <1>7. /\ patches \in [Nodes -> SUBSET Patch] /\ round \in [Nodes -> Round \cup {None}]
        /\ stored \in [Nodes -> View] /\ cachedState \in [Nodes -> View]
    BY DEF GossipInv, Shapes
  <1>8. patches' \in [Nodes -> SUBSET Patch]
    BY <1>3, <1>6, <1>7
  <1>9. \A m \in Nodes : \A r \in patches'[m] : r \in patches[m] \/ (m = n /\ r = q0)
    BY <1>3, <1>7
  <1>10. \A m \in Nodes : \A r \in patches'[m] : PatchOK(m, r, w)
    BY <1>5, <1>6, <1>9
  <1>11. w = Own'
    BY <1>1, <1>4, SameVersions
  <1>12. /\ scenario' \in Scenarios /\ alive' \subseteq scenario'.hosts
         /\ aliased' \in [Nodes -> BOOLEAN] /\ joined' \subseteq Nodes
         /\ marks' \in [Nodes -> Nat] /\ failures' \in 0 .. scenario'.failures
    BY <1>4 DEF GossipInv, Rest
  <1>13. QED
    BY <1>4, <1>5, <1>7, <1>8, <1>10, <1>11, <1>12, Assemble

LEMMA HandleMaintenanceStep ==
  ASSUME GossipInv, NEW n \in Nodes, handleMaintenance(n)
  PROVE  GossipInv'
  <1>1. PICK w : w = Own
    OBVIOUS
  <1>2. PICK view : view = [cachedState[n] EXCEPT ![n].time = Now(n)]
    OBVIOUS
  <1>3. PICK r : r = [view |-> view, todo |-> Known(view) \ {n}, patchBody |-> NoView]
    OBVIOUS
  <1>4. /\ cachedState' = [cachedState EXCEPT ![n] = view]
        /\ round' = [round EXCEPT ![n] = r] /\ aliased' = [aliased EXCEPT ![n] = TRUE]
    BY <1>2, <1>3 DEF handleMaintenance
  <1>5. /\ scenario' = scenario /\ alive' = alive /\ stored' = stored /\ patches' = patches
        /\ joins' = joins /\ inserts' = inserts /\ joined' = joined
        /\ marks' = marks /\ failures' = failures
    BY DEF handleMaintenance, joining
  <1>6. /\ \A m \in Nodes : /\ ViewOK(m, stored[m], w) /\ ViewOK(m, cachedState[m], w)
                            /\ RoundOK(m, round[m], w)
                            /\ \A q \in patches[m] : PatchOK(m, q, w)
        /\ \A j \in joins \cup inserts : JoinOK(j, w)
    BY <1>1, PlacesNow
  <1>7. /\ patches \in [Nodes -> SUBSET Patch] /\ round \in [Nodes -> Round \cup {None}]
        /\ stored \in [Nodes -> View] /\ cachedState \in [Nodes -> View]
    BY DEF GossipInv, Shapes
  <1>8. ViewOK(n, view, w)
    <2>1. PICK c, e : c = cachedState[n] /\ e = [c[n] EXCEPT !.time = Now(n)]
      OBVIOUS
    <2>2. c \in View /\ InService(c[n]) /\ ViewWithin(c, w) /\ view = [c EXCEPT ![n] = e]
      BY <1>2, <1>6, <2>1 DEF ViewOK
    <2>3. c[n] \in Entry /\ Now(n) \in Nat
      BY <2>2 DEF View, InService, Now, GossipInv, Rest
    <2>4. e \in Entry /\ e.status = c[n].status /\ e.version = c[n].version
      BY <2>1, <2>3 DEF Entry
    <2>5. view \in View /\ view[n] = e /\ \A x \in Nodes \ {n} : view[x] = c[x]
      BY <2>2, <2>4 DEF View
    <2>6. Within(e, w[n]) /\ InService(e)
      BY <2>2, <2>4, EntryFields DEF ViewWithin, Within, InService
    <2>7. QED
      BY <2>2, <2>5, <2>6 DEF ViewOK, ViewWithin
  <1>9. r \in Round /\ RoundOK(n, r, w)
    <2>1. NoView \in View /\ NoView[n] = None /\ ViewWithin(NoView, w)
      BY DEF NoView, View, ViewWithin, Within
    <2>2. /\ r.view = view /\ r.todo = Known(view) \ {n} /\ r.patchBody = NoView
          /\ Known(view) \in SUBSET Nodes
      BY <1>3 DEF Known
    <2>3. r \in Round
      BY <1>3, <1>8, <2>1, <2>2 DEF Round, ViewOK
    <2>4. QED
      BY <1>8, <2>1, <2>2, <2>3 DEF RoundOK, ViewOK
  <1>10. cachedState' \in [Nodes -> View] /\ round' \in [Nodes -> Round \cup {None}]
    BY <1>4, <1>7, <1>8, <1>9 DEF ViewOK
  <1>11. /\ \A m \in Nodes : cachedState'[m] = IF m = n THEN view ELSE cachedState[m]
         /\ \A m \in Nodes : round'[m] = IF m = n THEN r ELSE round[m]
    BY <1>4, <1>7
  <1>12. /\ \A m \in Nodes : ViewOK(m, cachedState'[m], w)
         /\ \A m \in Nodes : RoundOK(m, round'[m], w)
    BY <1>6, <1>8, <1>9, <1>11
  <1>13. w = Own'
    BY <1>1, <1>5, SameVersions
  <1>14. /\ scenario' \in Scenarios /\ alive' \subseteq scenario'.hosts
         /\ aliased' \in [Nodes -> BOOLEAN] /\ joined' \subseteq Nodes
         /\ marks' \in [Nodes -> Nat] /\ failures' \in 0 .. scenario'.failures
    BY <1>4, <1>5 DEF GossipInv, Rest
  <1>15. QED
    BY <1>5, <1>6, <1>7, <1>10, <1>12, <1>13, <1>14, Assemble

(* The gossip PATCH at a peer, and the peer's answer.                      *)
LEMMA GossipStep ==
  ASSUME GossipInv, NEW n \in Nodes, NEW p \in Nodes, gossip(n, p)
  PROVE  GossipInv'
  <1>1. round[n] # None /\ p \in round[n].todo
    BY DEF gossip
  <1>2. PICK view \in PatchResults(p, n, round[n].view) :
          /\ stored' = [stored EXCEPT ![p] = view]
          /\ cachedState' = [cachedState EXCEPT ![p] = Available(view, p)]
          /\ LET sent == round[n].view[p]
             IN Collect(n, p, IF view[p].version > sent.version THEN view[p] ELSE sent,
                        [patches EXCEPT ![p] = patches[p] \cup AvailablePatch(p, view)])
    BY DEF gossip
  <1>3. PICK r : r = round[n]
    OBVIOUS
  <1>4. /\ r \in Round /\ r.view \in View /\ r.todo \subseteq Known(r.view) \ {n}
        /\ ViewWithin(r.view, Own)
    BY <1>1, <1>3, PlacesNow, RoundFields DEF RoundOK
  <1>5. PICK body : body = r.view
    OBVIOUS
  <1>6. p # n /\ BodyOK(p, n, body) /\ view \in PatchResults(p, n, body)
    BY <1>1, <1>2, <1>3, <1>4, <1>5 DEF BodyOK
  <1>7. ResultOK(p, view)
    BY <1>6, PatchResultFacts
  <1>8. /\ stored' \in [Nodes -> View] /\ cachedState' \in [Nodes -> View]
        /\ \A m \in Nodes : InService(stored'[m][m]) /\ InService(cachedState'[m][m])
        /\ Own' \in [Nodes -> Nat] /\ \A x \in Nodes : Own[x] \in Nat /\ Own'[x] >= Own[x]
        /\ \A m \in Nodes : ViewWithin(stored'[m], Own') /\ ViewWithin(cachedState'[m], Own')
    BY <1>2, <1>7, ResultStored
  <1>9. PICK w : w = Own'
    OBVIOUS
  <1>10. \A x \in Nodes : Own[x] \in Nat /\ w[x] \in Nat /\ w[x] >= Own[x]
    BY <1>8, <1>9
  <1>11. /\ \A m \in Nodes : /\ RoundOK(m, round[m], w)
                             /\ \A q \in patches[m] : PatchOK(m, q, w)
         /\ \A j \in joins \cup inserts : JoinOK(j, w)
    BY <1>10, Places
  <1>12. w[p] = view[p].version /\ view \in View /\ InService(view[p])
    BY <1>2, <1>7, <1>9 DEF Own, ResultOK, GossipInv, Shapes
  <1>13. PICK more : more = AvailablePatch(p, view)
    OBVIOUS
  <1>14. \A q \in more : q \in Patch /\ PatchOK(p, q, w)
    BY <1>12, <1>13, AvailablePatchOK
  <1>15. PICK pending : pending = [patches EXCEPT ![p] = patches[p] \cup more]
    OBVIOUS
  <1>16. patches \in [Nodes -> SUBSET Patch]
    BY DEF GossipInv, Shapes
  <1>17. pending \in [Nodes -> SUBSET Patch]
    BY <1>14, <1>15, <1>16
  <1>18. \A m \in Nodes : \A q \in pending[m] : q \in patches[m] \/ (m = p /\ q \in more)
    BY <1>15, <1>16
  <1>19. \A m \in Nodes : \A q \in pending[m] : PatchOK(m, q, w)
    BY <1>11, <1>14, <1>18
  <1>20. PICK entry : entry = IF view[p].version > r.view[p].version THEN view[p] ELSE r.view[p]
    OBVIOUS
  <1>21. entry \in Entry /\ Within(entry, w[p])
    <2>1. r.view[p] \in Entry /\ view[p] \in Entry
      BY <1>1, <1>3, <1>4, <1>12 DEF Known, View, InService
    <2>2. Within(r.view[p], w[p])
      BY <1>1, <1>3, <1>11 DEF RoundOK, ViewWithin
    <2>3. Within(view[p], w[p])
      BY <2>1, <1>12, EntryFields DEF Within
    <2>4. QED
      BY <2>1, <2>2, <2>3, <1>20
  <1>22. Collect(n, p, entry, pending)
    BY <1>2, <1>3, <1>13, <1>15, <1>20 DEF Collect
  <1>23. /\ round' \in [Nodes -> Round \cup {None}] /\ patches' \in [Nodes -> SUBSET Patch]
         /\ \A m \in Nodes : RoundOK(m, round'[m], w)
         /\ \A m \in Nodes : \A q \in patches'[m] : PatchOK(m, q, w)
    BY <1>1, <1>10, <1>17, <1>19, <1>21, <1>22, CollectKept
  <1>24. \A m \in Nodes : ViewOK(m, stored'[m], w) /\ ViewOK(m, cachedState'[m], w)
    BY <1>8, <1>9 DEF ViewOK
  <1>25. /\ joins' = joins /\ inserts' = inserts /\ joined' = joined
         /\ scenario' = scenario /\ alive' = alive /\ marks' = marks /\ failures' = failures
         /\ aliased' = [aliased EXCEPT ![p] = FALSE]
    BY DEF gossip, joining
  <1>26. /\ scenario' \in Scenarios /\ alive' \subseteq scenario'.hosts
         /\ aliased' \in [Nodes -> BOOLEAN] /\ joined' \subseteq Nodes
         /\ marks' \in [Nodes -> Nat] /\ failures' \in 0 .. scenario'.failures
    BY <1>25 DEF GossipInv, Rest
  <1>27. QED
    BY <1>8, <1>9, <1>11, <1>23, <1>24, <1>25, <1>26, Assemble

(* A gossip request that fails.                                            *)
LEMMA FailuresBounded ==
  ASSUME GossipInv,
         \/ failures < scenario.failures /\ failures' = failures + 1
         \/ failures' = failures
  PROVE  failures' \in 0 .. scenario.failures
  <1>1. scenario.failures \in Nat /\ failures \in 0 .. scenario.failures
    BY GroupAssumption DEF GossipInv, Rest
  <1>2. QED
    BY <1>1

LEMMA GossipFailureStep ==
  ASSUME GossipInv, NEW n \in Nodes, NEW p \in Nodes, gossipFailure(n, p)
  PROVE  GossipInv'
  <1>1. round[n] # None /\ p \in round[n].todo
    BY DEF gossipFailure
  <1>2. PICK w : w = Own
    OBVIOUS
  <1>3. /\ \A m \in Nodes : /\ ViewOK(m, stored[m], w) /\ ViewOK(m, cachedState[m], w)
                            /\ RoundOK(m, round[m], w)
                            /\ \A q \in patches[m] : PatchOK(m, q, w)
        /\ \A j \in joins \cup inserts : JoinOK(j, w)
        /\ \A x \in Nodes : Own[x] \in Nat /\ w[x] \in Nat /\ w[x] >= Own[x]
    BY <1>2, PlacesNow
  <1>4. PICK r, e, entry : r = round[n] /\ e = r.view[p] /\ entry = Marked(n, p)
    OBVIOUS
  <1>5. r \in Round /\ r.view \in View /\ r.todo \subseteq Known(r.view) \ {n}
    BY <1>1, <1>3, <1>4, RoundFields DEF RoundOK
  <1>6. p # n /\ e \in Entry /\ Within(e, w[p])
    BY <1>1, <1>3, <1>4, <1>5 DEF Known, View, RoundOK, ViewWithin
  <1>7. marks \in [Nodes -> Nat] /\ MarkTime(p) \in Nat
    BY DEF GossipInv, Rest, MarkTime
  <1>8. entry \in Entry /\ entry.status = "UNAVAILABLE"
    <2>1. CASE e.status = "UNAVAILABLE"
      BY <2>1, <1>4, <1>6 DEF Marked
    <2>2. CASE e.status # "UNAVAILABLE"
      <3>1. entry = [e EXCEPT !.status = "UNAVAILABLE", !.version = e.version + 1,
                              !.time = MarkTime(p)]
        BY <2>2, <1>4 DEF Marked
      <3>2. e.version + 1 \in Nat
        BY <1>6, EntryFields
      <3>3. QED
        BY <3>1, <3>2, <1>6, <1>7 DEF Entry
    <2>3. QED
      BY <2>1, <2>2
  <1>9. Within(entry, w[p])
    BY <1>8 DEF Within
  <1>10. /\ patches \in [Nodes -> SUBSET Patch] /\ cachedState \in [Nodes -> View]
         /\ stored \in [Nodes -> View]
    BY DEF GossipInv, Shapes
  <1>11. PICK pending : pending = patches
    OBVIOUS
  <1>12. Collect(n, p, entry, pending)
    BY <1>4, <1>11 DEF gossipFailure, Collect
  <1>13. /\ round' \in [Nodes -> Round \cup {None}] /\ patches' \in [Nodes -> SUBSET Patch]
         /\ \A m \in Nodes : RoundOK(m, round'[m], w)
         /\ \A m \in Nodes : \A q \in patches'[m] : PatchOK(m, q, w)
    BY <1>1, <1>3, <1>8, <1>9, <1>10, <1>11, <1>12, CollectKept
  <1>14. cachedState' \in [Nodes -> View] /\ \A m \in Nodes : ViewOK(m, cachedState'[m], w)
    <2>1. CASE aliased[n]
      <3>1. PICK c, view : c = cachedState[n] /\ view = [c EXCEPT ![p] = entry]
        OBVIOUS
      <3>2. cachedState' = [cachedState EXCEPT ![n] = view]
        BY <2>1, <3>1, <1>4 DEF gossipFailure
      <3>3. c \in View /\ InService(c[n]) /\ ViewWithin(c, w)
        BY <3>1, <1>3 DEF ViewOK
      <3>4. view \in View /\ view[p] = entry /\ \A x \in Nodes \ {p} : view[x] = c[x]
        BY <3>1, <3>3, <1>8 DEF View
      <3>5. ViewOK(n, view, w)
        BY <3>3, <3>4, <1>6, <1>9 DEF ViewOK, ViewWithin
      <3>6. cachedState' \in [Nodes -> View]
        BY <3>2, <3>4, <1>10
      <3>7. \A m \in Nodes : cachedState'[m] = IF m = n THEN view ELSE cachedState[m]
        BY <3>2, <1>10
      <3>8. QED
        BY <3>5, <3>6, <3>7, <1>3
    <2>2. CASE ~aliased[n]
      <3>1. cachedState' = cachedState
        BY <2>2 DEF gossipFailure
      <3>2. QED
        BY <3>1, <1>3, <1>10
    <2>3. QED
      BY <2>1, <2>2
  <1>15. marks' \in [Nodes -> Nat]
    <2>1. marks' = [marks EXCEPT ![p] = marks[p]] \/ marks' = [marks EXCEPT ![p] = marks[p] + 1]
      BY DEF gossipFailure
    <2>2. QED
      BY <2>1, <1>7
  <1>16. /\ scenario' = scenario /\ alive' = alive /\ stored' = stored /\ aliased' = aliased
         /\ joins' = joins /\ inserts' = inserts /\ joined' = joined
    BY DEF gossipFailure, joining
  <1>17. failures' \in 0 .. scenario.failures
    BY FailuresBounded DEF gossipFailure
  <1>18. w = Own'
    BY <1>2, <1>16, SameVersions
  <1>19. /\ scenario' \in Scenarios /\ alive' \subseteq scenario'.hosts
         /\ aliased' \in [Nodes -> BOOLEAN] /\ joined' \subseteq Nodes
         /\ failures' \in 0 .. scenario'.failures
    BY <1>16, <1>17 DEF GossipInv, Rest
  <1>20. QED
    BY <1>3, <1>10, <1>13, <1>14, <1>15, <1>16, <1>18, <1>19, Assemble

(* handlePost with a JoinPeerRequest.                                      *)
LEMMA HandleJoinPostStep ==
  ASSUME GossipInv, NEW n \in Nodes, NEW m \in Nodes, handleJoinPost(n, m)
  PROVE  GossipInv'
  <1>1. PICK s, self, view : /\ s = stored[n]
                             /\ self = [s[n] EXCEPT !.version = s[n].version + 1, !.time = Now(n)]
                             /\ view = [s EXCEPT ![n] = self]
    OBVIOUS
  <1>2. PICK j0 : j0 = [node |-> n, member |-> m, self |-> self]
    OBVIOUS
  <1>3. /\ stored \in [Nodes -> View] /\ cachedState \in [Nodes -> View]
        /\ patches \in [Nodes -> SUBSET Patch] /\ round \in [Nodes -> Round \cup {None}]
        /\ marks \in [Nodes -> Nat]
    BY DEF GossipInv, Shapes, Rest
  <1>4. /\ stored' = [stored EXCEPT ![n] = view] /\ joins' = joins \cup {j0} /\ m # n
        /\ cachedState' = [cachedState EXCEPT ![n] = stored'[n]]
        /\ aliased' = [aliased EXCEPT ![n] = FALSE] /\ joined' = joined \cup {n}
    BY <1>1, <1>2 DEF handleJoinPost
  <1>5. /\ scenario' = scenario /\ alive' = alive /\ round' = round /\ patches' = patches
        /\ inserts' = inserts /\ marks' = marks /\ failures' = failures
    BY DEF handleJoinPost
  <1>6. /\ s \in View /\ InService(s[n]) /\ \A x \in Nodes : Within(s[x], Own[x])
        /\ \A x \in Nodes : Own[x] = stored[x][x].version /\ Own[x] \in Nat
    BY <1>1, PlacesNow DEF ViewOK, ViewWithin
  <1>7. s[n] \in Entry /\ Now(n) \in Nat
    BY <1>3, <1>6 DEF View, InService, Now
  <1>8. self \in Entry /\ self.status = s[n].status /\ self.version = s[n].version + 1
    <2>1. s[n].version + 1 \in Nat
      BY <1>7, EntryFields
    <2>2. QED
      BY <2>1, <1>1, <1>7 DEF Entry
  <1>9. view \in View /\ view[n] = self /\ \A x \in Nodes \ {n} : view[x] = s[x]
    BY <1>1, <1>6, <1>8 DEF View
  <1>10. InService(self)
    BY <1>6, <1>8, EntryFields DEF InService
  <1>11. \A x \in Nodes : stored'[x] = IF x = n THEN view ELSE stored[x]
    BY <1>3, <1>4
  <1>12. \A x \in Nodes : cachedState'[x] = IF x = n THEN view ELSE cachedState[x]
    BY <1>3, <1>4, <1>11
  <1>13. stored' \in [Nodes -> View] /\ cachedState' \in [Nodes -> View]
    <2>1. stored' \in [Nodes -> View]
      BY <1>3, <1>4, <1>9
    <2>2. cachedState' = [cachedState EXCEPT ![n] = view]
      BY <1>4, <1>11
    <2>3. QED
      BY <2>1, <2>2, <1>3, <1>9
  <1>14. ASSUME NEW x \in Nodes
         PROVE  InService(stored'[x][x]) /\ stored'[x][x].version >= stored[x][x].version
    <2>1. CASE x = n
      <3>1. s[n].version \in Nat
        BY <1>7, EntryFields
      <3>2. stored'[n][n] = self /\ stored[n][n] = s[n]
        BY <1>1, <1>9, <1>11
      <3>3. self.version >= s[n].version
        BY <3>1, <1>8
      <3>4. QED
        BY <2>1, <3>2, <3>3, <1>10
    <2>2. CASE x # n
      <3>1. stored'[x] = stored[x] /\ InService(stored[x][x]) /\ stored[x][x].version \in Nat
        BY <2>2, <1>6, <1>11, PlacesNow DEF ViewOK
      <3>2. QED
        BY <3>1
    <2>3. QED
      BY <2>1, <2>2
  <1>15. PICK w : w = Own'
    OBVIOUS
  <1>16. \A x \in Nodes : Own[x] \in Nat /\ w[x] \in Nat /\ w[x] >= Own[x]
    BY <1>13, <1>14, <1>15, OwnGrows
  <1>17. /\ \A x \in Nodes : /\ ViewOK(x, stored[x], w) /\ ViewOK(x, cachedState[x], w)
                             /\ RoundOK(x, round[x], w)
                             /\ \A q \in patches[x] : PatchOK(x, q, w)
         /\ \A j \in joins \cup inserts : JoinOK(j, w)
    BY <1>16, Places
  <1>18. w[n] = self.version /\ Within(self, w[n])
    <2>1. w[n] = self.version
      BY <1>9, <1>11, <1>15 DEF Own
    <2>2. QED
      BY <2>1, <1>8, EntryFields DEF Within
  <1>19. ViewOK(n, view, w)
    <2>1. \A x \in Nodes : Within(s[x], w[x])
      BY <1>1, <1>17 DEF ViewOK, ViewWithin
    <2>2. QED
      BY <2>1, <1>9, <1>10, <1>18 DEF ViewOK, ViewWithin
  <1>20. \A x \in Nodes : ViewOK(x, stored'[x], w) /\ ViewOK(x, cachedState'[x], w)
    BY <1>11, <1>12, <1>17, <1>19
  <1>21. JoinOK(j0, w)
    <2>1. j0 \in Join /\ j0.node = n /\ j0.member = m /\ j0.self = self
      BY <1>2, <1>8 DEF Join
    <2>2. QED
      BY <2>1, <1>4, <1>18 DEF JoinOK
  <1>22. \A j \in joins' \cup inserts' : JoinOK(j, w)
    BY <1>4, <1>5, <1>17, <1>21
  <1>23. /\ scenario' \in Scenarios /\ alive' \subseteq scenario'.hosts
         /\ aliased' \in [Nodes -> BOOLEAN] /\ joined' \subseteq Nodes
         /\ marks' \in [Nodes -> Nat] /\ failures' \in 0 .. scenario'.failures
    BY <1>4, <1>5 DEF GossipInv, Rest
  <1>24. QED
    BY <1>3, <1>5, <1>13, <1>15, <1>17, <1>20, <1>22, <1>23, Assemble

(* The answer to the GET of a join, and its failure.                       *)
LEMMA JoinStateStep ==
  ASSUME GossipInv, NEW j \in joins, joinState(j)
  PROVE  GossipInv'
  <1>1. PICK w : w = Own
    OBVIOUS
  <1>2. /\ \A m \in Nodes : /\ ViewOK(m, stored[m], w) /\ ViewOK(m, cachedState[m], w)
                            /\ RoundOK(m, round[m], w)
                            /\ \A q \in patches[m] : PatchOK(m, q, w)
        /\ \A i \in joins \cup inserts : JoinOK(i, w)
    BY <1>1, PlacesNow
  <1>3. j.node \in Nodes /\ j.member \in Nodes /\ j.node # j.member
    BY <1>2 DEF JoinOK, Join
  <1>4. PICK n, q0 : n = j.node /\ q0 = [owner |-> j.member, body |-> cachedState[j.member]]
    OBVIOUS
  <1>5. /\ patches' = [patches EXCEPT ![n] = patches[n] \cup {q0}]
        /\ inserts' = inserts \cup {j} /\ joins' = joins \ {j}
        /\ scenario' = scenario /\ alive' = alive /\ stored' = stored /\ round' = round
        /\ cachedState' = cachedState /\ aliased' = aliased /\ joined' = joined
        /\ marks' = marks /\ failures' = failures
    BY <1>4 DEF joinState, views
  <1>6. /\ patches \in [Nodes -> SUBSET Patch] /\ round \in [Nodes -> Round \cup {None}]
        /\ stored \in [Nodes -> View] /\ cachedState \in [Nodes -> View]
    BY DEF GossipInv, Shapes
  <1>7. q0 \in Patch /\ PatchOK(n, q0, w)
    <2>1. q0 \in Patch /\ q0.owner = j.member /\ q0.body = cachedState[j.member]
      BY <1>3, <1>4, <1>6 DEF Patch
    <2>2. QED
      BY <2>1, <1>2, <1>3, <1>4 DEF PatchOK, ViewOK
  <1>8. patches' \in [Nodes -> SUBSET Patch]
    BY <1>3, <1>4, <1>5, <1>6, <1>7
  <1>9. \A m \in Nodes : \A r \in patches'[m] : r \in patches[m] \/ (m = n /\ r = q0)
    BY <1>5, <1>6
  <1>10. \A m \in Nodes : \A r \in patches'[m] : PatchOK(m, r, w)
    BY <1>2, <1>7, <1>9
  <1>11. \A i \in joins' \cup inserts' : JoinOK(i, w)
    BY <1>2, <1>5
  <1>12. w = Own'
    BY <1>1, <1>5, SameVersions
  <1>13. /\ scenario' \in Scenarios /\ alive' \subseteq scenario'.hosts
         /\ aliased' \in [Nodes -> BOOLEAN] /\ joined' \subseteq Nodes
         /\ marks' \in [Nodes -> Nat] /\ failures' \in 0 .. scenario'.failures
    BY <1>5 DEF GossipInv, Rest
  <1>14. QED
    BY <1>2, <1>5, <1>6, <1>8, <1>10, <1>11, <1>12, <1>13, Assemble

(* Steps that only take joins, inserts, rounds and patches away.           *)
LEMMA DroppingStep ==
  ASSUME GossipInv, stored' = stored, cachedState' = cachedState, scenario' = scenario,
         aliased' = aliased, marks' = marks, joined' = joined,
         alive' \subseteq alive, failures' \in 0 .. scenario.failures,
         round' \in [Nodes -> Round \cup {None}], patches' \in [Nodes -> SUBSET Patch],
         \A n \in Nodes : round'[n] = round[n] \/ round'[n] = None,
         \A n \in Nodes : patches'[n] \subseteq patches[n],
         joins' \subseteq joins, inserts' \subseteq inserts
  PROVE  GossipInv'
  <1>1. PICK w : w = Own
    OBVIOUS
  <1>2. /\ \A m \in Nodes : /\ ViewOK(m, stored[m], w) /\ ViewOK(m, cachedState[m], w)
                            /\ RoundOK(m, round[m], w)
                            /\ \A q \in patches[m] : PatchOK(m, q, w)
        /\ \A i \in joins \cup inserts : JoinOK(i, w)
    BY <1>1, PlacesNow
  <1>3. \A m \in Nodes : RoundOK(m, round'[m], w)
    BY <1>2 DEF RoundOK
  <1>4. /\ \A m \in Nodes : \A q \in patches'[m] : PatchOK(m, q, w)
        /\ \A i \in joins' \cup inserts' : JoinOK(i, w)
    BY <1>2
  <1>5. w = Own'
    BY <1>1, SameVersions
  <1>6. stored \in [Nodes -> View] /\ cachedState \in [Nodes -> View]
    BY DEF GossipInv, Shapes
  <1>7. /\ scenario' \in Scenarios /\ alive' \subseteq scenario'.hosts
        /\ aliased' \in [Nodes -> BOOLEAN] /\ joined' \subseteq Nodes
        /\ marks' \in [Nodes -> Nat]
    BY DEF GossipInv, Rest
  <1>8. QED
    BY <1>2, <1>3, <1>4, <1>5, <1>6, <1>7, Assemble

LEMMA JoinFailureStep ==
  ASSUME GossipInv, NEW j, handleJoinFailure(j) \/ insertFailure(j)
  PROVE  GossipInv'
  <1>1. failures' \in 0 .. scenario.failures
    BY FailuresBounded DEF handleJoinFailure, insertFailure
  <1>2. /\ stored' = stored /\ cachedState' = cachedState /\ scenario' = scenario
        /\ aliased' = aliased /\ marks' = marks /\ joined' = joined /\ alive' = alive
        /\ round' = round /\ patches' = patches
        /\ joins' \subseteq joins /\ inserts' \subseteq inserts
    BY DEF handleJoinFailure, insertFailure, views
  <1>3. round \in [Nodes -> Round \cup {None}] /\ patches \in [Nodes -> SUBSET Patch]
    BY DEF GossipInv, Shapes
  <1>4. QED
    BY <1>1, <1>2, <1>3, DroppingStep

LEMMA CrashStep ==
  ASSUME GossipInv, NEW n \in Nodes, crash(n)
  PROVE  GossipInv'
  <1>1. round \in [Nodes -> Round \cup {None}] /\ patches \in [Nodes -> SUBSET Patch]
    BY DEF GossipInv, Shapes
  <1>2. /\ stored' = stored /\ cachedState' = cachedState /\ scenario' = scenario
        /\ aliased' = aliased /\ marks' = marks /\ joined' = joined /\ failures' = failures
        /\ alive' = alive \ {n} /\ inserts' = inserts /\ joins' = {j \in joins : j.node # n}
        /\ round' = [round EXCEPT ![n] = None] /\ patches' = [patches EXCEPT ![n] = {}]
    BY DEF crash, views
  <1>3. failures' \in 0 .. scenario.failures
    BY <1>2, FailuresBounded
  <1>4. /\ round' \in [Nodes -> Round \cup {None}] /\ patches' \in [Nodes -> SUBSET Patch]
        /\ \A m \in Nodes : round'[m] = round[m] \/ round'[m] = None
        /\ \A m \in Nodes : patches'[m] \subseteq patches[m]
    BY <1>1, <1>2
  <1>5. alive' \subseteq alive /\ joins' \subseteq joins /\ inserts' \subseteq inserts
    BY <1>2
  <1>6. QED
    BY <1>2, <1>3, <1>4, <1>5, DroppingStep

(* handlePost with a NodeState at the member.                              *)
LEMMA HandlePostStep ==
  ASSUME GossipInv, NEW j \in inserts, handlePost(j)
  PROVE  GossipInv'
  <1>1. /\ stored \in [Nodes -> View] /\ cachedState \in [Nodes -> View]
        /\ patches \in [Nodes -> SUBSET Patch] /\ round \in [Nodes -> Round \cup {None}]
    BY DEF GossipInv, Shapes
  <1>2. JoinOK(j, Own)
    BY PlacesNow
  <1>3. PICK m, n, self : m = j.member /\ n = j.node /\ self = j.self
    OBVIOUS
  <1>4. m \in Nodes /\ n \in Nodes /\ m # n /\ self \in Entry /\ Within(self, Own[n])
    BY <1>2, <1>3 DEF JoinOK, Join
  <1>5. PICK s, view : s = stored[m] /\ view = [s EXCEPT ![n] = self]
    OBVIOUS
  <1>6. /\ stored' = [stored EXCEPT ![m] = view]
        /\ cachedState' = [cachedState EXCEPT ![m] = stored'[m]]
        /\ aliased' = [aliased EXCEPT ![m] = FALSE] /\ inserts' = inserts \ {j}
        /\ scenario' = scenario /\ alive' = alive /\ round' = round /\ patches' = patches
        /\ joins' = joins /\ joined' = joined /\ marks' = marks /\ failures' = failures
    BY <1>3, <1>5 DEF handlePost
  <1>7. s \in View /\ view \in View /\ view[n] = self /\ \A x \in Nodes \ {n} : view[x] = s[x]
    BY <1>1, <1>4, <1>5 DEF View
  <1>8. \A x \in Nodes : stored'[x] = IF x = m THEN view ELSE stored[x]
    BY <1>1, <1>6
  <1>9. \A x \in Nodes : cachedState'[x] = IF x = m THEN view ELSE cachedState[x]
    BY <1>1, <1>4, <1>6, <1>8
  <1>10. stored' \in [Nodes -> View] /\ cachedState' \in [Nodes -> View]
    <2>1. stored' \in [Nodes -> View]
      BY <1>1, <1>6, <1>7
    <2>2. cachedState' = [cachedState EXCEPT ![m] = view]
      BY <1>4, <1>6, <1>8
    <2>3. QED
      BY <2>1, <2>2, <1>1, <1>7
  <1>11. \A x \in Nodes : stored'[x][x] = stored[x][x]
    <2>1. TAKE x \in Nodes
    <2>2. CASE x = m
      BY <2>2, <1>4, <1>5, <1>7, <1>8
    <2>3. CASE x # m
      BY <2>3, <1>8
    <2>4. QED
      BY <2>2, <2>3
  <1>12. PICK w : w = Own
    OBVIOUS
  <1>13. w = Own'
    BY <1>11, <1>12 DEF Own
  <1>14. /\ \A x \in Nodes : /\ ViewOK(x, stored[x], w) /\ ViewOK(x, cachedState[x], w)
                             /\ RoundOK(x, round[x], w)
                             /\ \A q \in patches[x] : PatchOK(x, q, w)
         /\ \A i \in joins \cup inserts : JoinOK(i, w)
    BY <1>12, PlacesNow
  <1>15. ViewOK(m, view, w)
    <2>1. InService(s[m]) /\ \A x \in Nodes : Within(s[x], w[x])
      BY <1>4, <1>5, <1>14 DEF ViewOK, ViewWithin
    <2>2. QED
      BY <2>1, <1>4, <1>7, <1>12 DEF ViewOK, ViewWithin
  <1>16. \A x \in Nodes : ViewOK(x, stored'[x], w) /\ ViewOK(x, cachedState'[x], w)
    BY <1>8, <1>9, <1>14, <1>15
  <1>17. \A i \in joins' \cup inserts' : JoinOK(i, w)
    BY <1>6, <1>14
  <1>18. /\ scenario' \in Scenarios /\ alive' \subseteq scenario'.hosts
         /\ aliased' \in [Nodes -> BOOLEAN] /\ joined' \subseteq Nodes
         /\ marks' \in [Nodes -> Nat] /\ failures' \in 0 .. scenario'.failures
    BY <1>4, <1>6 DEF GossipInv, Rest
  <1>19. QED
    BY <1>1, <1>6, <1>10, <1>13, <1>14, <1>16, <1>17, <1>18, Assemble

LEMMA GossipStutter ==
  ASSUME GossipInv, UNCHANGED vars
  PROVE  GossipInv'
  <1>1. round \in [Nodes -> Round \cup {None}] /\ patches \in [Nodes -> SUBSET Patch]
    BY DEF GossipInv, Shapes
  <1>2. failures' \in 0 .. scenario.failures
    BY FailuresBounded DEF vars
  <1>3. QED
    BY <1>1, <1>2, DroppingStep DEF vars, views, joining

LEMMA GossipNext == GossipInv /\ [Next]_vars => GossipInv'
  <1> SUFFICES ASSUME GossipInv, [Next]_vars
               PROVE  GossipInv'
    OBVIOUS
  <1>1. CASE UNCHANGED vars
    BY <1>1, GossipStutter
  <1>2. ASSUME NEW n \in Nodes, NEW q \in patches[n], handlePatch(n, q)
        PROVE  GossipInv'
    BY <1>2, HandlePatchStep
  <1>3. ASSUME NEW n \in Nodes, maintenanceAlone(n) \/ handleMaintenance(n) \/ crash(n)
        PROVE  GossipInv'
    BY <1>3, MaintenanceAloneStep, HandleMaintenanceStep, CrashStep
  <1>4. ASSUME NEW n \in Nodes, NEW p \in Nodes,
               gossip(n, p) \/ gossipFailure(n, p) \/ handleJoinPost(n, p)
        PROVE  GossipInv'
    BY <1>4, GossipStep, GossipFailureStep, HandleJoinPostStep
  <1>5. ASSUME NEW j \in joins, joinState(j) \/ handleJoinFailure(j)
        PROVE  GossipInv'
    BY <1>5, JoinStateStep, JoinFailureStep
  <1>6. ASSUME NEW j \in inserts, handlePost(j) \/ insertFailure(j)
        PROVE  GossipInv'
    BY <1>6, HandlePostStep, JoinFailureStep
  <1>7. QED
    BY <1>1, <1>2, <1>3, <1>4, <1>5, <1>6 DEF Next

LEMMA Invariant == Spec => []GossipInv
  BY GossipInit, GossipNext, PTL DEF Spec

-----------------------------------------------------------------------------
(* Every variable of the group keeps its type.                             *)
THEOREM TypeCorrect == Spec => []TypeOK
  <1>1. GossipInv => TypeOK
    <2> SUFFICES ASSUME GossipInv
                 PROVE  TypeOK
      OBVIOUS
    <2>1. \A n \in Nodes : stored[n] \in View /\ cachedState[n] \in View
      BY DEF GossipInv, Shapes
    <2>2. \A n \in Nodes : round[n] # None => /\ round[n].view \in View
                                              /\ round[n].patchBody \in View
      BY RoundFields DEF GossipInv, Shapes
    <2>3. \A n \in Nodes : \A q \in patches[n] : q.owner \in Nodes /\ q.body \in View
      BY DEF GossipInv, Shapes, Patch
    <2>4. \A j \in joins \cup inserts :
            j.node \in Nodes /\ j.member \in Nodes /\ j.self \in Entry
      BY DEF GossipInv, Shapes, Join
    <2>5. QED
      BY <2>1, <2>2, <2>3, <2>4 DEF GossipInv, Rest, TypeOK
  <1>2. QED
    BY <1>1, Invariant, PTL

(* "local instance of node group service is the only one that can update   *)
(* its own status": no report, marking, join or expiration makes a node    *)
(* unavailable in its own state or copy (mergeRemoteAndLocalMembership).   *)
THEOREM SelfAvailable == Spec => []NeverUnavailableToItself
  <1>1. GossipInv => NeverUnavailableToItself
    BY DEF GossipInv, SelfInv, InService, Known, NeverUnavailableToItself
  <1>2. QED
    BY <1>1, Invariant, PTL

(* A version beyond the one a live node has reached is that of a marking,  *)
(* in whatever order maintenance, gossip and joins move entries between    *)
(* the nodes (handleGossipPatchCompletion, mergeRemoteAndLocalMembership). *)
THEOREM NoVersionInvented == Spec => []OnlyMarkingsRunAhead
  <1>1. GossipInv => OnlyMarkingsRunAhead
    <2> SUFFICES ASSUME GossipInv, NEW n \in Nodes, NEW x \in Nodes, stored[n][x] # None,
                        stored[n][x].version > stored[x][x].version
                 PROVE  stored[n][x].status = "UNAVAILABLE"
      BY DEF OnlyMarkingsRunAhead
    <2>1. Within(stored[n][x], Own[x]) /\ Own[x] = stored[x][x].version
      BY PlacesNow DEF ViewOK, ViewWithin
    <2>2. QED
      BY <2>1 DEF Within
  <1>2. QED
    BY <1>1, Invariant, PTL

(* No step moves the version of a node's own entry back.                   *)
OwnVersionForward == \A x \in Nodes : stored'[x][x].version >= stored[x][x].version

LEMMA OwnVersionStep == GossipInv /\ [Next]_vars => OwnVersionForward
  <1> SUFFICES ASSUME GossipInv, [Next]_vars
               PROVE  OwnVersionForward
    OBVIOUS
  <1>0. /\ stored \in [Nodes -> View]
        /\ \A x \in Nodes : Own[x] = stored[x][x].version /\ stored[x][x].version \in Nat
    BY PlacesNow DEF GossipInv, Shapes
  <1>1. CASE \A x \in Nodes : stored'[x][x] = stored[x][x]
    BY <1>0, <1>1 DEF OwnVersionForward
  <1>2. ASSUME NEW p \in Nodes, NEW view, ResultOK(p, view), stored' = [stored EXCEPT ![p] = view]
        PROVE  OwnVersionForward
    <2>1. view[p].version >= Own[p]
      BY <1>2 DEF ResultOK
    <2>2. \A x \in Nodes : stored'[x] = IF x = p THEN view ELSE stored[x]
      BY <1>0, <1>2
    <2>3. QED
      BY <1>0, <2>1, <2>2 DEF OwnVersionForward
  <1>3. ASSUME NEW n \in Nodes, NEW q \in patches[n], handlePatch(n, q)
        PROVE  OwnVersionForward
    <2>1. BodyOK(n, q.owner, q.body) /\ q.owner \in Nodes
      BY PlacesNow DEF PatchOK, Patch, BodyOK
    <2>2. PICK view \in PatchResults(n, q.owner, q.body) : stored' = [stored EXCEPT ![n] = view]
      BY <1>3 DEF handlePatch
    <2>3. ResultOK(n, view)
      BY <2>1, PatchResultFacts
    <2>4. QED
      BY <2>2, <2>3, <1>2
  <1>4. ASSUME NEW n \in Nodes, NEW p \in Nodes, gossip(n, p)
        PROVE  OwnVersionForward
    <2>1. round[n] # None /\ p \in round[n].todo
      BY <1>4 DEF gossip
    <2>2. PICK body : body = round[n].view
      OBVIOUS
    <2>3. BodyOK(p, n, body)
      BY <2>1, <2>2, PlacesNow, RoundFields DEF RoundOK, BodyOK
    <2>4. PICK view \in PatchResults(p, n, body) : stored' = [stored EXCEPT ![p] = view]
      BY <2>2, <1>4 DEF gossip
    <2>5. ResultOK(p, view)
      BY <2>3, PatchResultFacts
    <2>6. QED
      BY <2>4, <2>5, <1>2
  <1>5. ASSUME NEW n \in Nodes, NEW m \in Nodes, handleJoinPost(n, m)
        PROVE  OwnVersionForward
    <2>1. PICK self : self = [stored[n][n] EXCEPT !.version = stored[n][n].version + 1,
                                                  !.time = Now(n)]
      OBVIOUS
    <2>2. stored' = [stored EXCEPT ![n][n] = self]
      BY <2>1, <1>5 DEF handleJoinPost
    <2>3. stored[n] \in View /\ stored[n][n] \in Entry
      BY OwnVersion DEF GossipInv
    <2>4. self.version = stored[n][n].version + 1
      BY <2>1, <2>3 DEF Entry
    <2>5. stored'[n][n] = self /\ \A x \in Nodes \ {n} : stored'[x] = stored[x]
      BY <2>2, <2>3, <1>0 DEF View
    <2>6. QED
      BY <2>4, <2>5, <1>0 DEF OwnVersionForward
  <1>6. ASSUME NEW j \in inserts, handlePost(j)
        PROVE  \A x \in Nodes : stored'[x][x] = stored[x][x]
    <2>1. j.node \in Nodes /\ j.member \in Nodes /\ j.node # j.member
      BY PlacesNow DEF JoinOK, Join
    <2>2. stored' = [stored EXCEPT ![j.member][j.node] = j.self]
      BY <1>6 DEF handlePost
    <2>3. QED
      BY <2>1, <2>2, <1>0 DEF View
  <1>7. CASE stored' = stored
    BY <1>1, <1>7
  <1>8. \/ stored' = stored
        \/ \E n \in Nodes : \E q \in patches[n] : handlePatch(n, q)
        \/ \E n \in Nodes : \E p \in Nodes : gossip(n, p) \/ handleJoinPost(n, p)
        \/ \E j \in inserts : handlePost(j)
    <2>1. UNCHANGED vars => stored' = stored
      BY DEF vars, views
    <2>2. \A n \in Nodes : maintenanceAlone(n) \/ handleMaintenance(n) \/ crash(n) =>
            stored' = stored
      BY DEF maintenanceAlone, handleMaintenance, crash, views
    <2>3. \A n, p \in Nodes : gossipFailure(n, p) => stored' = stored
      BY DEF gossipFailure
    <2>4. \A j \in joins : joinState(j) \/ handleJoinFailure(j) => stored' = stored
      BY DEF joinState, handleJoinFailure, views
    <2>5. \A j \in inserts : insertFailure(j) => stored' = stored
      BY DEF insertFailure, views
    <2>6. QED
      BY <2>1, <2>2, <2>3, <2>4, <2>5 DEF Next
  <1>9. QED
    BY <1>1, <1>3, <1>4, <1>5, <1>6, <1>7, <1>8

(* What a node has said of itself is not taken back: whatever PATCH, POST  *)
(* or maintenance it handles, the version of its own entry never falls, so *)
(* a peer that has seen it accepts what the node says later                *)
(* (mergeRemoteAndLocalMembership, handleJoinPost).                        *)
THEOREM OwnVersionsGrow == Spec => [][OwnVersionForward]_vars
  <1>1. GossipInv /\ [Next]_vars => [OwnVersionForward]_vars
    BY OwnVersionStep
  <1>2. QED
    BY <1>1, Invariant, PTL DEF Spec
=============================================================================
