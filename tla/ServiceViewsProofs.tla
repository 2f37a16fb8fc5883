------------------------- MODULE ServiceViewsProofs -------------------------
(***************************************************************************)
(* What the service pages show and change, for any number of services,     *)
(* nodes and requests and in any order of the answers: the dialogs are     *)
(* about what is shown, a next page is appended once and a view that is    *)
(* not disturbed settles on what was selected last.                        *)
(*                                                                         *)
(* ViewsInv is inductive.  A component does not keep its requests, so what *)
(* it will show is a matter of the newest request of each kind: until an   *)
(* answer fails or overtakes another, the newest request is about what was *)
(* selected last, and once it is answered so is the view.                  *)
(***************************************************************************)
EXTENDS ServiceViews, FiniteSetTheorems, SequenceTheorems, TLAPS

(* The requests of a page, and the child component of a list that has      *)
(* links.                                                                  *)
RouteInv ==
    /\ route.view # "grid" => selectedServiceId = route.svc
    /\ \A q \in requests : q.kind \in GridKinds <=> route.view = "grid"
    /\ childServicesLinks # <<>> => route.view # "grid"

ChildInv ==
    /\ child # None <=> childServicesLinks # <<>>
    /\ \A q \in requests : q.kind \in ChildKinds => child # None
    /\ latest # None => child # None

(* A page p that comes after those of its service in list, or after all    *)
(* but the last page of the service.                                       *)
ComesNext(p, list) ==
    /\ p.page =< PagesOf[p.svc]
    /\ \A i \in 1 .. Len(list) :
          list[i].svc = p.svc => list[i].page < p.page \/ list[i].page = PagesOf[p.svc]

NoneTwice(list) ==
    \A i, j \in 1 .. Len(list) :
        i # j /\ list[i] = list[j] => list[i].page = PagesOf[list[i].svc]

PageInv ==
    /\ \A q \in requests : q.kind = "page" => /\ locked /\ q.about.page > 1
                                             /\ ComesNext(q.about, childServicesLinks)
    /\ nextPageLink # None => /\ nextPageLink.page > 1
                              /\ ComesNext(nextPageLink, childServicesLinks)
    /\ NoneTwice(childServicesLinks)

(* The lock: a component has one request for a next page under way.        *)
OnePageRequest ==
    \A q, r \in requests : q.kind = "page" /\ r.kind = "page" => q = r

IdInv == \A q \in requests : q.id =< sent

-----------------------------------------------------------------------------
(* The newest requests of kind k among S.                                  *)
Newest(S, k) == {q \in S : q.kind = k /\ \A p \in S : p.kind = k => p.id =< q.id}

ListSettled ==
    IF PagesOf[selectedServiceId] = 0
    THEN \A i \in 1 .. Len(childServicesLinks) : childServicesLinks[i].page > 1
    ELSE /\ childServicesLinks # <<>>
         /\ childServicesLinks[1] = [svc |-> selectedServiceId, page |-> 1]

ListInv ==
    route.view # "grid" /\ "list" \notin disturbed =>
        IF Pending(requests, "list")
        THEN \A q \in Newest(requests, "list") : q.about = selectedServiceId
        ELSE ListSettled

GridInv ==
    route.view = "grid" /\ "gridLinks" \notin disturbed =>
        /\ \A q \in Newest(requests, "gridLinks") : q.node = selectedNode
        /\ ~Pending(requests, "gridLinks") /\ "gridDocs" \notin disturbed =>
            IF Pending(requests, "gridDocs")
            THEN \A q \in Newest(requests, "gridDocs") :
                    q.about = selectedNode /\ q.node = selectedNode
            ELSE grid = [links |-> selectedNode, docs |-> selectedNode]

DocInv ==
    child # None /\ latest # None /\ "doc" \notin disturbed =>
        IF Pending(requests, "doc")
        THEN \A q \in Newest(requests, "doc") : q.about = latest
        ELSE child.doc = latest

StatsInv ==
    child # None /\ latest # None /\ "stats" \notin disturbed =>
        IF Pending(requests, "stats")
        THEN \A q \in Newest(requests, "stats") : q.about = latest
        ELSE child.stats = latest

ViewsInv ==
    /\ ViewTypes /\ RouteInv /\ ChildInv /\ PageInv /\ IdInv
    /\ DialogsMatchView /\ OnePageRequest
    /\ ListInv /\ GridInv /\ DocInv /\ StatsInv

-----------------------------------------------------------------------------
(* Pages of a list.                                                        *)

LEMMA EmptyList ==
  NoneTwice(<<>>) /\ \A p : p.page =< PagesOf[p.svc] => ComesNext(p, <<>>)
  <1>1. PICK list : list = <<>>
    OBVIOUS
  <1>2. \A i \in 1 .. Len(list) : FALSE
    BY <1>1
  <1>3. NoneTwice(list) /\ \A p : p.page =< PagesOf[p.svc] => ComesNext(p, list)
    BY <1>2 DEF NoneTwice, ComesNext
  <1>4. QED
    BY <1>1, <1>3

(* Any next page comes after the first one.                                *)
LEMMA FirstPage ==
  ASSUME NEW s, NEW list, list = <<[svc |-> s, page |-> 1]>>
  PROVE  /\ NoneTwice(list)
         /\ \A p \in Page : p.page > 1 /\ p.page =< PagesOf[p.svc] => ComesNext(p, list)
  <1>1. PICK e : e = [svc |-> s, page |-> 1]
    OBVIOUS
  <1>2. Len(list) = 1 /\ \A i \in 1 .. Len(list) : i = 1 /\ list[i] = e
    BY <1>1
  <1>3. e.page = 1
    BY <1>1
  <1>4. NoneTwice(list)
    BY <1>2 DEF NoneTwice
  <1>5. ASSUME NEW p \in Page, p.page > 1, p.page =< PagesOf[p.svc]
        PROVE  ComesNext(p, list)
    BY <1>2, <1>3, <1>5 DEF ComesNext, Page
  <1>6. QED
    BY <1>4, <1>5

(* The page that comes next is appended: the page after it, or another     *)
(* one when there is none, then comes next.                                *)
LEMMA NextAppended ==
  ASSUME NEW old \in Seq(Page), NEW p \in Page, ComesNext(p, old), NoneTwice(old),
         NEW list, Len(list) = Len(old) + 1, list[Len(list)] = p,
         \A i \in 1 .. Len(old) : list[i] = old[i]
  PROVE  /\ NoneTwice(list)
         /\ \A q \in Page : q.svc = p.svc /\ q.page = p.page + 1 /\ p.page < PagesOf[p.svc]
                => ComesNext(q, list)
         /\ \A q \in Page : ComesNext(q, old) /\ ~(p.page < PagesOf[p.svc]) => ComesNext(q, list)
  <1>1. /\ Len(old) \in Nat /\ \A i \in 1 .. Len(old) : old[i] \in Page
        /\ p.page \in Nat /\ p.svc \in Factories /\ PagesOf[p.svc] \in Nat
    <2>1. Len(old) \in Nat /\ \A i \in 1 .. Len(old) : old[i] \in Page
      OBVIOUS
    <2>2. p.page \in Nat /\ p.svc \in Factories
      BY DEF Page
    <2>3. PagesOf[p.svc] \in Nat
      BY <2>2, ServiceViewsAssumption
    <2>4. QED
      BY <2>1, <2>2, <2>3
  <1>2. \A i \in 1 .. Len(list) : \/ i \in 1 .. Len(old) /\ list[i] = old[i]
                                  \/ i = Len(list) /\ list[i] = p
    BY <1>1
  <1>3. ASSUME NEW i \in 1 .. Len(old), old[i] = p
        PROVE  p.page = PagesOf[p.svc]
    BY <1>1, <1>3 DEF ComesNext
  <1>4. NoneTwice(list)
    <2>1. SUFFICES ASSUME NEW i \in 1 .. Len(list), NEW j \in 1 .. Len(list), i # j,
                          list[i] = list[j]
                   PROVE  list[i].page = PagesOf[list[i].svc]
      BY DEF NoneTwice
    <2>2. CASE i \in 1 .. Len(old) /\ j \in 1 .. Len(old)
      BY <2>1, <2>2 DEF NoneTwice
    <2>3. CASE i = Len(list) \/ j = Len(list)
      <3>1. list[i] = p /\ \E k \in 1 .. Len(old) : old[k] = p
        BY <1>2, <2>1, <2>3
      <3>2. QED
        BY <3>1, <1>3
    <2>4. QED
      BY <1>2, <2>2, <2>3
  <1>5. ASSUME NEW q \in Page, q.svc = p.svc, q.page = p.page + 1, p.page < PagesOf[p.svc]
        PROVE  ComesNext(q, list)
    <2>1. q.page =< PagesOf[q.svc]
      BY <1>1, <1>5
    <2>2. ASSUME NEW i \in 1 .. Len(list), list[i].svc = q.svc
          PROVE  list[i].page < q.page \/ list[i].page = PagesOf[q.svc]
      <3>1. CASE i \in 1 .. Len(old) /\ list[i] = old[i]
        <4>1. old[i].page \in Nat
          BY <1>1, <3>1 DEF Page
        <4>2. old[i].page < p.page \/ old[i].page = PagesOf[p.svc]
          BY <1>5, <2>2, <3>1 DEF ComesNext
        <4>3. QED
          BY <1>1, <1>5, <3>1, <4>1, <4>2
      <3>2. CASE list[i] = p
        BY <1>1, <1>5, <3>2
      <3>3. QED
        BY <1>2, <3>1, <3>2
    <2>3. QED
      BY <2>1, <2>2 DEF ComesNext
  <1>6. ASSUME NEW q \in Page, ComesNext(q, old), ~(p.page < PagesOf[p.svc])
        PROVE  ComesNext(q, list)
    <2>1. p.page = PagesOf[p.svc]
      BY <1>1, <1>6 DEF ComesNext
    <2>2. QED
      BY <1>2, <1>6, <2>1 DEF ComesNext
  <1>7. QED
    BY <1>4, <1>5, <1>6

-----------------------------------------------------------------------------
(* Requests.                                                               *)

(* What the detail page and its child component ask for.                   *)
LEMMA RequestAbout ==
  ASSUME NEW q, IsRequest(q)
  PROVE  /\ q.kind \in Kinds /\ q.id \in Nat /\ q.node \in Nodes
         /\ q.kind = "gridDocs" => q.about \in Nodes
         /\ q.kind = "list" => q.about \in Factories
         /\ q.kind = "page" => q.about \in Page
         /\ q.kind \in ChildKinds => q.about \in Link
  BY DEF IsRequest, About, ChildKinds

(* A request before it is sent.                                            *)
Fresh(q) ==
    IsRequest(q) /\ q = [id |-> 0, kind |-> q.kind, about |-> q.about, node |-> q.node]

LEMMA FreshRequest ==
  ASSUME NEW k \in Kinds, NEW a \in About[k], NEW n \in Nodes, NEW q,
         q = [id |-> 0, kind |-> k, about |-> a, node |-> n]
  PROVE  Fresh(q) /\ q.kind = k /\ q.about = a /\ q.node = n
  BY DEF Fresh, IsRequest

(* The requests N are sent after the ones in open.                         *)
Sends(open, N, before) ==
    /\ requests' = open \cup N
    /\ \A q \in open : IsRequest(q) /\ q.id =< sent
    /\ \A n \in N : IsRequest(n) /\ n.id > sent /\ n.id =< sent'
    /\ sent \in Nat /\ sent' \in 0 .. MaxRequests /\ sent' >= sent
    /\ disturbed' \subseteq Kinds
    /\ \A k : k \in disturbed' <=> k \in before /\ ((\E n \in N : n.kind = k) => Pending(open, k))

Like(n, q) == n.kind = q.kind /\ n.about = q.about /\ n.node = q.node

LEMMA SendFacts ==
  ASSUME NEW open, NEW seq, NEW before, Len(seq) \in Nat, sent \in 0 .. MaxRequests,
         before \subseteq Kinds, SendAll(open, seq, before),
         \A i \in 1 .. Len(seq) : Fresh(seq[i]),
         \A q \in open : IsRequest(q) /\ q.id =< sent
  PROVE  \E N : /\ Sends(open, N, before)
                /\ \A n \in N : \E i \in 1 .. Len(seq) : Like(n, seq[i])
                /\ \A i \in 1 .. Len(seq) : \E n \in N : Like(n, seq[i])
  <1>1. PICK N : N = {[seq[i] EXCEPT !.id = sent + i] : i \in 1 .. Len(seq)}
    OBVIOUS
  <1>2. sent \in Nat /\ MaxRequests \in Nat
    BY ServiceViewsAssumption
  <1>3. /\ sent' = sent + Len(seq) /\ sent + Len(seq) =< MaxRequests /\ requests' = open \cup N
        /\ disturbed' = {k \in before : \A i \in 1 .. Len(seq) :
                                           seq[i].kind = k => Pending(open, k)}
    BY <1>1 DEF SendAll
  <1>4. ASSUME NEW i \in 1 .. Len(seq), NEW n, n = [seq[i] EXCEPT !.id = sent + i]
        PROVE  IsRequest(n) /\ n.id = sent + i /\ Like(n, seq[i])
    <2>1. PICK q : q = seq[i]
      OBVIOUS
    <2>2. /\ q = [id |-> 0, kind |-> q.kind, about |-> q.about, node |-> q.node]
          /\ IsRequest(q)
      BY <2>1 DEF Fresh
    <2>3. n = [q EXCEPT !.id = sent + i]
      BY <1>4, <2>1
    <2>4. n.id = sent + i /\ n.kind = q.kind /\ n.about = q.about /\ n.node = q.node
      BY <2>2, <2>3
    <2>5. sent + i \in Nat
      BY <1>2
    <2>6. QED
      BY <2>1, <2>2, <2>4, <2>5 DEF IsRequest, Like
  <1>5. /\ \A n \in N : \E i \in 1 .. Len(seq) : Like(n, seq[i])
        /\ \A i \in 1 .. Len(seq) : \E n \in N : Like(n, seq[i])
    BY <1>1, <1>4
  <1>6. \A n \in N : IsRequest(n) /\ n.id > sent /\ n.id =< sent'
    <2>1. SUFFICES ASSUME NEW n \in N
                   PROVE  IsRequest(n) /\ n.id > sent /\ n.id =< sent'
      OBVIOUS
    <2>2. PICK i \in 1 .. Len(seq) : n = [seq[i] EXCEPT !.id = sent + i]
      BY <1>1
    <2>3. IsRequest(n) /\ n.id = sent + i
      BY <2>2, <1>4
    <2>4. QED
      BY <2>3, <1>2, <1>3
  <1>7. \A k : k \in disturbed' <=> k \in before /\ ((\E n \in N : n.kind = k) => Pending(open, k))
    <2>1. ASSUME NEW k
          PROVE  (\A i \in 1 .. Len(seq) : seq[i].kind = k => Pending(open, k))
                    <=> ((\E n \in N : n.kind = k) => Pending(open, k))
      <3>1. (\E i \in 1 .. Len(seq) : seq[i].kind = k) <=> \E n \in N : n.kind = k
        <4>1. ASSUME NEW i \in 1 .. Len(seq), seq[i].kind = k
              PROVE  \E n \in N : n.kind = k
          <5>1. PICK n \in N : Like(n, seq[i])
            BY <1>5
          <5>2. QED
            BY <5>1, <4>1 DEF Like
        <4>2. ASSUME NEW n \in N, n.kind = k
              PROVE  \E i \in 1 .. Len(seq) : seq[i].kind = k
          <5>1. PICK i \in 1 .. Len(seq) : Like(n, seq[i])
            BY <1>5
          <5>2. QED
            BY <5>1, <4>2 DEF Like
        <4>3. QED
          BY <4>1, <4>2
      <3>2. QED
        BY <3>1
    <2>2. QED
      BY <1>3, <2>1
  <1>8. sent' \in 0 .. MaxRequests /\ sent' >= sent /\ disturbed' \subseteq Kinds
    BY <1>2, <1>3
  <1>9. Sends(open, N, before)
    BY <1>2, <1>3, <1>6, <1>7, <1>8 DEF Sends
  <1>10. QED
    BY <1>5, <1>9

-----------------------------------------------------------------------------
(* The newest requests.                                                    *)

(* Nothing that could concern the view of kind k has happened.             *)
Same(k) ==
    /\ Newest(requests', k) \subseteq Newest(requests, k)
    /\ Pending(requests', k) <=> Pending(requests, k)
    /\ k \notin disturbed' => k \notin disturbed

LEMMA NewestSent ==
  ASSUME NEW open, NEW N, NEW before, NEW k, Sends(open, N, before)
  PROVE  /\ (\E n \in N : n.kind = k) =>
                /\ Pending(requests', k)
                /\ Newest(requests', k) \subseteq N
         /\ (\A n \in N : n.kind # k) =>
                /\ Pending(requests', k) <=> Pending(open, k)
                /\ Newest(requests', k) = Newest(open, k)
                /\ k \in disturbed' <=> k \in before
  <1>1. /\ \A q \in open : q.id \in Nat /\ q.id =< sent
        /\ \A n \in N : n.id \in Nat /\ n.id > sent
        /\ sent \in Nat /\ requests' = open \cup N
    BY DEF Sends, IsRequest
  <1>2. ASSUME NEW n \in N, n.kind = k
        PROVE  Pending(requests', k) /\ Newest(requests', k) \subseteq N
    <2>1. Pending(requests', k)
      BY <1>1, <1>2 DEF Pending
    <2>2. ASSUME NEW q \in Newest(requests', k)
          PROVE  q \in N
      <3>1. q \in open \cup N /\ n.id =< q.id
        BY <1>1, <1>2, <2>2 DEF Newest
      <3>2. QED
        BY <1>1, <3>1
    <2>3. QED
      BY <2>1, <2>2
  <1>3. ASSUME \A n \in N : n.kind # k
        PROVE  /\ Pending(requests', k) <=> Pending(open, k)
               /\ Newest(requests', k) = Newest(open, k)
               /\ k \in disturbed' <=> k \in before
    <2>1. Pending(requests', k) <=> Pending(open, k)
      BY <1>1, <1>3 DEF Pending
    <2>2. Newest(requests', k) \subseteq Newest(open, k)
      BY <1>1, <1>3 DEF Newest
    <2>3. Newest(open, k) \subseteq Newest(requests', k)
      BY <1>1, <1>3 DEF Newest
    <2>4. k \in disturbed' <=> k \in before
      BY <1>3 DEF Sends
    <2>5. QED
      BY <2>1, <2>2, <2>3, <2>4
  <1>4. QED
    BY <1>2, <1>3

(* An answer, seen from another kind and from its own.                     *)
LEMMA NewestAnswered ==
  ASSUME NEW r \in requests, NEW k, \A q \in requests : IsRequest(q)
  PROVE  /\ k # r.kind => /\ Pending(requests \ {r}, k) <=> Pending(requests, k)
                          /\ Newest(requests \ {r}, k) = Newest(requests, k)
                          /\ k \in Overtaking(r) <=> k \in disturbed
         /\ k = r.kind /\ k \notin Overtaking(r) =>
                /\ k \notin disturbed /\ Pending(requests, k)
                /\ Newest(requests \ {r}, k) \subseteq Newest(requests, k)
                /\ ~Pending(requests \ {r}, k) => r \in Newest(requests, k)
  <1>1. \A q \in requests : q.id \in Nat
    BY DEF IsRequest
  <1>2. ASSUME k # r.kind
        PROVE  /\ Pending(requests \ {r}, k) <=> Pending(requests, k)
               /\ Newest(requests \ {r}, k) = Newest(requests, k)
               /\ k \in Overtaking(r) <=> k \in disturbed
    <2>1. Pending(requests \ {r}, k) <=> Pending(requests, k)
      BY <1>2 DEF Pending
    <2>2. Newest(requests \ {r}, k) \subseteq Newest(requests, k)
      BY <1>2 DEF Newest
    <2>3. Newest(requests, k) \subseteq Newest(requests \ {r}, k)
      BY <1>2 DEF Newest
    <2>4. k \in Overtaking(r) <=> k \in disturbed
      BY <1>2 DEF Overtaking
    <2>5. QED
      BY <2>1, <2>2, <2>3, <2>4
  <1>3. ASSUME k = r.kind, k \notin Overtaking(r)
        PROVE  /\ k \notin disturbed /\ Pending(requests, k)
               /\ Newest(requests \ {r}, k) \subseteq Newest(requests, k)
               /\ ~Pending(requests \ {r}, k) => r \in Newest(requests, k)
    <2>1. k \notin disturbed /\ \A q \in requests : q.kind = k => ~(q.id < r.id)
      BY <1>3 DEF Overtaking
    <2>2. Pending(requests, k)
      BY <1>3 DEF Pending
    <2>3. ASSUME NEW q \in Newest(requests \ {r}, k)
          PROVE  q \in Newest(requests, k)
      <3>1. /\ q \in requests /\ q.kind = k
            /\ \A p \in requests \ {r} : p.kind = k => p.id =< q.id
        BY <2>3 DEF Newest
      <3>2. r.id =< q.id
        BY <3>1, <2>1, <1>1
      <3>3. QED
        BY <3>1, <3>2 DEF Newest
    <2>4. ~Pending(requests \ {r}, k) => r \in Newest(requests, k)
      <3>1. r.id =< r.id
        BY <1>1
      <3>2. QED
        BY <3>1, <1>3 DEF Pending, Newest
    <2>5. QED
      BY <2>1, <2>2, <2>3, <2>4
  <1>4. QED
    BY <1>2, <1>3

(* What a step that leaves kind k alone does to it.                        *)
LEMMA SameKind ==
  ASSUME NEW open, NEW N, NEW before, NEW k, Sends(open, N, before), open \subseteq requests,
         \A q \in requests : q.kind = k => q \in open,
         k \notin before => k \notin disturbed, \A n \in N : n.kind # k
  PROVE  Same(k)
  <1>1. /\ Pending(requests', k) <=> Pending(open, k)
        /\ Newest(requests', k) = Newest(open, k) /\ (k \in disturbed' <=> k \in before)
    BY NewestSent
  <1>2. Pending(open, k) <=> Pending(requests, k)
    BY DEF Pending
  <1>3. Newest(open, k) \subseteq Newest(requests, k)
    BY DEF Newest
  <1>4. QED
    BY <1>1, <1>2, <1>3 DEF Same

(* What an answer does to its own kind, when no request of it is sent.     *)
LEMMA OwnKind ==
  ASSUME \A q \in requests : IsRequest(q), NEW open, NEW N, NEW r \in requests, NEW k, k = r.kind,
         NEW before, before = Overtaking(r), Sends(open, N, before), open \subseteq requests \ {r},
         \A q \in requests \ {r} : q.kind = k => q \in open,
         \A n \in N : n.kind # k, k \notin disturbed'
  PROVE  /\ k \notin disturbed /\ Pending(requests, k)
         /\ Newest(requests', k) \subseteq Newest(requests, k)
         /\ ~Pending(requests', k) => r \in Newest(requests, k)
  <1>1. /\ Pending(requests', k) <=> Pending(open, k)
        /\ Newest(requests', k) = Newest(open, k) /\ k \notin Overtaking(r)
    BY NewestSent
  <1>2. Pending(open, k) <=> Pending(requests \ {r}, k)
    BY DEF Pending
  <1>3. Newest(open, k) \subseteq Newest(requests \ {r}, k)
    BY DEF Newest
  <1>4. /\ k \notin disturbed /\ Pending(requests, k)
        /\ Newest(requests \ {r}, k) \subseteq Newest(requests, k)
        /\ ~Pending(requests \ {r}, k) => r \in Newest(requests, k)
    BY <1>1, NewestAnswered
  <1>5. QED
    BY <1>1, <1>2, <1>3, <1>4

LEMMA ListKept ==
  ASSUME ListInv, Same("list"), route' = route, selectedServiceId' = selectedServiceId,
         childServicesLinks' = childServicesLinks
  PROVE  ListInv'
  BY DEF ListInv, Same, ListSettled

LEMMA GridKept ==
  ASSUME GridInv, Same("gridLinks"), Same("gridDocs"), route' = route,
         selectedNode' = selectedNode, grid' = grid
  PROVE  GridInv'
  BY DEF GridInv, Same

LEMMA DocKept ==
  ASSUME DocInv, Same("doc"), latest' = latest,
         child' # None /\ latest # None => child # None /\ child'.doc = child.doc
  PROVE  DocInv'
  BY DEF DocInv, Same

LEMMA StatsKept ==
  ASSUME StatsInv, Same("stats"), latest' = latest,
         child' # None /\ latest # None => child # None /\ child'.stats = child.stats
  PROVE  StatsInv'
  BY DEF StatsInv, Same

-----------------------------------------------------------------------------
(* What is sent: nothing, one request or two.                              *)
LEMMA SendNone ==
  ASSUME ViewsInv, NEW open, open \subseteq requests, NEW before, before \subseteq Kinds,
         SendAll(open, <<>>, before)
  PROVE  Sends(open, {}, before)
  <1>1. PICK seq : seq = <<>>
    OBVIOUS
  <1>2. Len(seq) = 0 /\ \A i \in 1 .. Len(seq) : FALSE
    BY <1>1
  <1>3. /\ \A q \in open : IsRequest(q) /\ q.id =< sent
        /\ sent \in 0 .. MaxRequests
    BY DEF ViewsInv, ViewTypes, IdInv
  <1>4. PICK N : /\ Sends(open, N, before)
                 /\ \A n \in N : \E i \in 1 .. Len(seq) : Like(n, seq[i])
    <2>1. SendAll(open, seq, before)
      BY <1>1
    <2>2. QED
      BY <1>2, <1>3, <2>1, SendFacts
  <1>5. N = {}
    BY <1>2, <1>4
  <1>6. QED
    BY <1>4, <1>5

LEMMA SendOne ==
  ASSUME ViewsInv, NEW open, open \subseteq requests, NEW before, before \subseteq Kinds,
         NEW q, Fresh(q), SendAll(open, <<q>>, before)
  PROVE  \E N : /\ Sends(open, N, before)
                /\ \A n \in N : Like(n, q)
                /\ \E n \in N : Like(n, q)
  <1>1. PICK seq : seq = <<q>>
    OBVIOUS
  <1>2. Len(seq) = 1 /\ seq[1] = q /\ \A i \in 1 .. Len(seq) : seq[i] = q
    BY <1>1
  <1>3. /\ \A x \in open : IsRequest(x) /\ x.id =< sent
        /\ sent \in 0 .. MaxRequests
    BY DEF ViewsInv, ViewTypes, IdInv
  <1>4. PICK N : /\ Sends(open, N, before)
                 /\ \A n \in N : \E i \in 1 .. Len(seq) : Like(n, seq[i])
                 /\ \A i \in 1 .. Len(seq) : \E n \in N : Like(n, seq[i])
    <2>1. SendAll(open, seq, before) /\ \A i \in 1 .. Len(seq) : Fresh(seq[i])
      BY <1>1, <1>2
    <2>2. Len(seq) \in Nat
      BY <1>2
    <2>3. QED
      BY <1>3, <2>1, <2>2, SendFacts
  <1>5. (\A n \in N : Like(n, q)) /\ \E n \in N : Like(n, q)
    BY <1>2, <1>4
  <1>6. QED
    BY <1>4, <1>5

LEMMA SendTwo ==
  ASSUME ViewsInv, NEW open, open \subseteq requests, NEW before, before \subseteq Kinds,
         NEW p, NEW q, Fresh(p), Fresh(q), SendAll(open, <<p, q>>, before)
  PROVE  \E N : /\ Sends(open, N, before)
                /\ \A n \in N : Like(n, p) \/ Like(n, q)
                /\ \E n \in N : Like(n, p)
                /\ \E n \in N : Like(n, q)
  <1>1. PICK seq : seq = <<p, q>>
    OBVIOUS
  <1>2. Len(seq) = 2 /\ seq[1] = p /\ seq[2] = q /\ \A i \in 1 .. Len(seq) : i = 1 \/ i = 2
    BY <1>1
  <1>3. /\ \A x \in open : IsRequest(x) /\ x.id =< sent
        /\ sent \in 0 .. MaxRequests
    BY DEF ViewsInv, ViewTypes, IdInv
  <1>4. PICK N : /\ Sends(open, N, before)
                 /\ \A n \in N : \E i \in 1 .. Len(seq) : Like(n, seq[i])
                 /\ \A i \in 1 .. Len(seq) : \E n \in N : Like(n, seq[i])
    <2>1. SendAll(open, seq, before) /\ \A i \in 1 .. Len(seq) : Fresh(seq[i])
      BY <1>1, <1>2
    <2>2. Len(seq) \in Nat
      BY <1>2
    <2>3. QED
      BY <1>3, <2>1, <2>2, SendFacts
  <1>5. /\ \A n \in N : Like(n, p) \/ Like(n, q)
        /\ \E n \in N : Like(n, p)
        /\ \E n \in N : Like(n, q)
    <2>1. 1 \in 1 .. Len(seq) /\ 2 \in 1 .. Len(seq)
      BY <1>2
    <2>2. QED
      BY <1>2, <1>4, <2>1
  <1>6. QED
    BY <1>4, <1>5

(* A typed history, whatever is sent.                                      *)
LEMMA TrafficKept ==
  ASSUME ViewsInv, NEW open, NEW N, NEW before, open \subseteq requests, Sends(open, N, before)
  PROVE  /\ \A q \in requests' : IsRequest(q)
         /\ sent' \in 0 .. MaxRequests /\ disturbed' \subseteq Kinds /\ IdInv'
  <1>1. \A q \in open : q.id \in Nat /\ q.id =< sent
    BY DEF Sends, IsRequest
  <1>2. sent \in Nat /\ sent' \in Nat /\ sent' >= sent
    BY ServiceViewsAssumption DEF Sends
  <1>3. \A q \in requests' : q.id =< sent'
    BY <1>1, <1>2 DEF Sends
  <1>4. QED
    BY <1>3 DEF Sends, IdInv

LEMMA OvertakingType ==
  ASSUME ViewsInv, NEW r \in requests
  PROVE  Overtaking(r) \subseteq Kinds /\ disturbed \subseteq Kinds
         /\ \A k : k \in disturbed => k \in Overtaking(r)
  BY DEF Overtaking, ViewsInv, ViewTypes, IsRequest

LEMMA AnswerNone ==
  ASSUME ViewsInv, NEW r \in requests, Answer(r, <<>>)
  PROVE  /\ requests' = requests \ {r}
         /\ \A q \in requests' : IsRequest(q)
         /\ sent' \in 0 .. MaxRequests /\ disturbed' \subseteq Kinds /\ IdInv'
         /\ \A k : k # r.kind => Same(k)
         /\ \A k : k = r.kind /\ k \notin disturbed' =>
                /\ k \notin disturbed /\ Pending(requests, k)
                /\ Newest(requests', k) \subseteq Newest(requests, k)
                /\ ~Pending(requests', k) => r \in Newest(requests, k)
  <1>1. PICK open, B : open = requests \ {r} /\ B = Overtaking(r)
    OBVIOUS
  <1>2. /\ B \subseteq Kinds /\ \A k : k \in disturbed => k \in B
        /\ \A q \in requests : IsRequest(q)
    BY <1>1, OvertakingType DEF ViewsInv, ViewTypes
  <1>3. Sends(open, {}, B)
    <2>1. SendAll(open, <<>>, B)
      BY <1>1 DEF Answer
    <2>2. QED
      BY <2>1, <1>1, <1>2, SendNone
  <1>4. /\ \A q \in requests' : IsRequest(q)
        /\ sent' \in 0 .. MaxRequests /\ disturbed' \subseteq Kinds /\ IdInv'
    BY <1>1, <1>3, TrafficKept
  <1>5. requests' = requests \ {r}
    BY <1>1, <1>3 DEF Sends
  <1>6. ASSUME NEW k, k # r.kind
        PROVE  Same(k)
    <2>1. k \notin B => k \notin disturbed
      BY <1>2
    <2>2. \A q \in requests : q.kind = k => q \in open
      BY <1>1, <1>6
    <2>3. PICK N : N = {} /\ Sends(open, N, B) /\ \A n \in N : n.kind # k
      BY <1>3
    <2>4. open \subseteq requests
      BY <1>1
    <2>5. QED
      BY <2>1, <2>2, <2>3, <2>4, SameKind
  <1>7. ASSUME NEW k, k = r.kind, k \notin disturbed'
        PROVE  /\ k \notin disturbed /\ Pending(requests, k)
               /\ Newest(requests', k) \subseteq Newest(requests, k)
               /\ ~Pending(requests', k) => r \in Newest(requests, k)
    <2>1. open \subseteq requests \ {r} /\ \A q \in requests \ {r} : q.kind = k => q \in open
      BY <1>1
    <2>2. QED
      BY <2>1, <1>1, <1>2, <1>3, <1>7, OwnKind
  <1>8. QED
    BY <1>4, <1>5, <1>6, <1>7

-----------------------------------------------------------------------------
(* Init.                                                                   *)
LEMMA RouteFields ==
  ASSUME NEW rt \in Route
  PROVE  /\ rt.view \in {"grid", "detail", "child"}
         /\ rt.svc \in Factories \cup {None} /\ rt.child \in Children \cup {None}
         /\ rt.view # "grid" => rt.svc \in Factories
  BY DEF Route

LEMMA ViewsInit == Init => ViewsInv
  <1> SUFFICES ASSUME Init
               PROVE  ViewsInv
    OBVIOUS
  <1>1. /\ route \in Route /\ selectedNode = HostNode /\ HostNode \in Nodes
        /\ redirected = FALSE /\ grid = [links |-> None, docs |-> None]
        /\ serviceLinks = FALSE /\ selectedServiceId = route.svc
        /\ selectedChildServiceId = route.child
        /\ childServicesLinks = <<>> /\ nextPageLink = None /\ locked = FALSE
        /\ createTarget = route.svc /\ createBody = FALSE
        /\ child = None /\ latest = None /\ disturbed = {}
        /\ sent = Cardinality(requests)
    BY ServiceViewsAssumption DEF Init
  <1>2. PICK g, l, s : /\ g = [id |-> 1, kind |-> "gridLinks", about |-> None, node |-> HostNode]
                       /\ l = [id |-> 1, kind |-> "links", about |-> None, node |-> HostNode]
                       /\ s = [id |-> 2, kind |-> "list", about |-> route.svc, node |-> HostNode]
    OBVIOUS
  <1>3. requests = IF route.view = "grid" THEN {g} ELSE {l, s}
    <2>1. /\ [request("gridLinks", None) EXCEPT !.id = 1] = g
          /\ [request("links", None) EXCEPT !.id = 1] = l
          /\ [request("list", route.svc) EXCEPT !.id = 2] = s
      BY <1>1, <1>2 DEF request
    <2>2. QED
      BY <2>1 DEF Init
  <1>4. /\ route.view = "grid" => sent = 1
        /\ route.view # "grid" => sent = 2
    <2>1. Cardinality({g}) = 1 /\ Cardinality({l}) = 1 /\ IsFiniteSet({l})
      BY FS_Singleton
    <2>2. s \notin {l}
      BY <1>2
    <2>3. {l, s} = {l} \cup {s}
      OBVIOUS
    <2>4. Cardinality({l, s}) = 2
      BY <2>1, <2>2, <2>3, FS_AddElement
    <2>5. QED
      BY <1>1, <1>3, <2>1, <2>4
  <1>5. IsRequest(g) /\ IsRequest(l) /\ (route.view # "grid" => IsRequest(s))
    BY <1>1, <1>2, RouteFields DEF IsRequest, Kinds, GridKinds, ChildKinds, About
  <1>6. ViewTypes
    <2>1. (\A q \in requests : IsRequest(q)) /\ sent \in 0 .. MaxRequests
      BY <1>3, <1>4, <1>5, ServiceViewsAssumption
    <2>2. <<>> \in Seq(Page)
      OBVIOUS
    <2>3. QED
      BY <1>1, <2>1, <2>2, RouteFields DEF ViewTypes
  <1>7. RouteInv /\ ChildInv
    BY <1>1, <1>2, <1>3 DEF RouteInv, ChildInv, GridKinds, ChildKinds
  <1>8. PageInv /\ OnePageRequest
    BY <1>1, <1>2, <1>3, EmptyList DEF PageInv, OnePageRequest
  <1>9. IdInv
    BY <1>2, <1>3, <1>4 DEF IdInv
  <1>10. DialogsMatchView
    BY <1>1 DEF DialogsMatchView
  <1>11. ListInv
    BY <1>1, <1>2, <1>3 DEF ListInv, Pending, Newest
  <1>12. GridInv
    BY <1>1, <1>2, <1>3 DEF GridInv, Pending, Newest
  <1>13. DocInv /\ StatsInv
    BY <1>1 DEF DocInv, StatsInv
  <1>14. QED
    BY <1>6, <1>7, <1>8, <1>9, <1>10, <1>11, <1>12, <1>13 DEF ViewsInv

-----------------------------------------------------------------------------
(* Answers that send nothing.                                              *)

(* What of the invariant is about requests, when one is answered.          *)
LEMMA RequestsRemoved ==
  ASSUME ViewsInv, requests' \subseteq requests, route' = route,
         locked' = locked, selectedServiceId' = selectedServiceId, nextPageLink' = nextPageLink,
         childServicesLinks' = childServicesLinks, latest' = latest, createTarget' = createTarget,
         child' # None <=> child # None
  PROVE  RouteInv' /\ ChildInv' /\ PageInv' /\ OnePageRequest'
  BY DEF ViewsInv, RouteInv, ChildInv, PageInv, OnePageRequest

LEMMA OnGridDocsStep ==
  ASSUME ViewsInv, NEW r \in requests, onGridDocs(r)
  PROVE  ViewsInv'
  <1>1. /\ r.kind = "gridDocs" /\ grid' = [links |-> r.about, docs |-> r.node] /\ Answer(r, <<>>)
        /\ selectedNode' = selectedNode /\ route' = route /\ redirected' = redirected
        /\ serviceLinks' = serviceLinks /\ selectedServiceId' = selectedServiceId
        /\ selectedChildServiceId' = selectedChildServiceId
        /\ childServicesLinks' = childServicesLinks /\ nextPageLink' = nextPageLink
        /\ locked' = locked /\ createTarget' = createTarget /\ createBody' = createBody
        /\ child' = child /\ latest' = latest
    BY DEF onGridDocs, detail
  <1>2. /\ requests' = requests \ {r} /\ \A q \in requests' : IsRequest(q)
        /\ sent' \in 0 .. MaxRequests /\ disturbed' \subseteq Kinds /\ IdInv'
        /\ \A k : k # r.kind => Same(k)
        /\ "gridDocs" \notin disturbed' =>
                /\ "gridDocs" \notin disturbed /\ Pending(requests, "gridDocs")
                /\ Newest(requests', "gridDocs") \subseteq Newest(requests, "gridDocs")
                /\ ~Pending(requests', "gridDocs") => r \in Newest(requests, "gridDocs")
    BY <1>1, AnswerNone
  <1>3. r.about \in Nodes /\ r.node \in Nodes
    BY <1>1, RequestAbout DEF ViewsInv, ViewTypes
  <1>4. ViewTypes'
    BY <1>1, <1>2, <1>3 DEF ViewsInv, ViewTypes
  <1>5. RouteInv' /\ ChildInv' /\ PageInv' /\ OnePageRequest'
    BY <1>1, <1>2, RequestsRemoved
  <1>6. DialogsMatchView'
    BY <1>1 DEF ViewsInv, DialogsMatchView
  <1>7. Same("list") /\ Same("doc") /\ Same("stats") /\ Same("gridLinks")
    BY <1>1, <1>2
  <1>8. ListInv' /\ DocInv' /\ StatsInv'
    BY <1>1, <1>7, ListKept, DocKept, StatsKept DEF ViewsInv
  <1>9. GridInv'
    BY <1>1, <1>2, <1>7 DEF ViewsInv, GridInv, Same
  <1>10. QED
    BY <1>2, <1>4, <1>5, <1>6, <1>8, <1>9 DEF ViewsInv

LEMMA OnLinksStep ==
  ASSUME ViewsInv, NEW r \in requests, onLinks(r)
  PROVE  ViewsInv'
  <1>1. /\ r.kind = "links" /\ serviceLinks' = TRUE /\ Answer(r, <<>>) /\ grid' = grid
        /\ selectedNode' = selectedNode /\ route' = route /\ redirected' = redirected
        /\ selectedServiceId' = selectedServiceId
        /\ selectedChildServiceId' = selectedChildServiceId
        /\ childServicesLinks' = childServicesLinks /\ nextPageLink' = nextPageLink
        /\ locked' = locked /\ createTarget' = createTarget /\ createBody' = createBody
        /\ child' = child /\ latest' = latest
    BY DEF onLinks
  <1>2. /\ requests' = requests \ {r} /\ \A q \in requests' : IsRequest(q)
        /\ sent' \in 0 .. MaxRequests /\ disturbed' \subseteq Kinds /\ IdInv'
        /\ \A k : k # r.kind => Same(k)
    BY <1>1, AnswerNone
  <1>3. ViewTypes'
    BY <1>1, <1>2 DEF ViewsInv, ViewTypes
  <1>4. RouteInv' /\ ChildInv' /\ PageInv' /\ OnePageRequest'
    BY <1>1, <1>2, RequestsRemoved
  <1>5. DialogsMatchView'
    BY <1>1 DEF ViewsInv, DialogsMatchView
  <1>6. Same("list") /\ Same("doc") /\ Same("stats") /\ Same("gridLinks") /\ Same("gridDocs")
    BY <1>1, <1>2
  <1>7. ListInv' /\ DocInv' /\ StatsInv' /\ GridInv'
    BY <1>1, <1>6, ListKept, DocKept, StatsKept, GridKept DEF ViewsInv
  <1>8. QED
    BY <1>2, <1>3, <1>4, <1>5, <1>7 DEF ViewsInv

(* The document and the statistics: answers in order leave the newest      *)
(* request as it was.                                                      *)
LEMMA ChildAnswered ==
  ASSUME ViewsInv, NEW r \in requests, r.kind \in ChildKinds
  PROVE  child \in ChildView /\ child # None /\ r.about \in Link
  <1>1. child # None
    BY DEF ViewsInv, ChildInv
  <1>2. r.about \in Link
    BY RequestAbout DEF ViewsInv, ViewTypes
  <1>3. QED
    BY <1>1, <1>2 DEF ViewsInv, ViewTypes

LEMMA OnDocStep ==
  ASSUME ViewsInv, NEW r \in requests, onDoc(r)
  PROVE  ViewsInv'
  <1>1. /\ r.kind = "doc" /\ Answer(r, <<>>) /\ grid' = grid
        /\ child' = [child EXCEPT !.doc = r.about, !.editTarget = r.about, !.editBody = TRUE,
                                  !.deleteTarget = r.about]
        /\ selectedNode' = selectedNode /\ route' = route /\ redirected' = redirected
        /\ serviceLinks' = serviceLinks /\ selectedServiceId' = selectedServiceId
        /\ selectedChildServiceId' = selectedChildServiceId
        /\ childServicesLinks' = childServicesLinks /\ nextPageLink' = nextPageLink
        /\ locked' = locked /\ createTarget' = createTarget /\ createBody' = createBody
        /\ latest' = latest
    BY DEF onDoc
  <1>2. /\ requests' = requests \ {r} /\ \A q \in requests' : IsRequest(q)
        /\ sent' \in 0 .. MaxRequests /\ disturbed' \subseteq Kinds /\ IdInv'
        /\ \A k : k # r.kind => Same(k)
        /\ "doc" \notin disturbed' =>
                /\ "doc" \notin disturbed /\ Pending(requests, "doc")
                /\ Newest(requests', "doc") \subseteq Newest(requests, "doc")
                /\ ~Pending(requests', "doc") => r \in Newest(requests, "doc")
    BY <1>1, AnswerNone
  <1>3. child \in ChildView /\ child # None /\ r.about \in Link
    BY <1>1, ChildAnswered DEF ChildKinds
  <1>4. /\ child' \in ChildView /\ child'.doc = r.about /\ child'.editTarget = r.about
        /\ child'.deleteTarget = r.about /\ child'.stats = child.stats
    BY <1>1, <1>3 DEF ChildView
  <1>5. child' # None
    BY <1>4, NoneAssumption
  <1>6. ViewTypes'
    BY <1>1, <1>2, <1>4 DEF ViewsInv, ViewTypes
  <1>7. RouteInv' /\ ChildInv' /\ PageInv' /\ OnePageRequest'
    BY <1>1, <1>2, <1>3, <1>5, RequestsRemoved
  <1>8. DialogsMatchView'
    BY <1>1, <1>4 DEF ViewsInv, DialogsMatchView
  <1>9. Same("list") /\ Same("stats") /\ Same("gridLinks") /\ Same("gridDocs")
    BY <1>1, <1>2
  <1>10. ListInv' /\ GridInv'
    BY <1>1, <1>9, ListKept, GridKept DEF ViewsInv
  <1>11. StatsInv'
    BY <1>1, <1>3, <1>4, <1>9, StatsKept DEF ViewsInv
  <1>12. DocInv'
    BY <1>1, <1>2, <1>3, <1>4 DEF ViewsInv, DocInv
  <1>13. QED
    BY <1>2, <1>6, <1>7, <1>8, <1>10, <1>11, <1>12 DEF ViewsInv

LEMMA OnStatsStep ==
  ASSUME ViewsInv, NEW r \in requests, onStats(r)
  PROVE  ViewsInv'
  <1>1. /\ r.kind = "stats" /\ Answer(r, <<>>) /\ grid' = grid
        /\ child' = [child EXCEPT !.stats = r.about]
        /\ selectedNode' = selectedNode /\ route' = route /\ redirected' = redirected
        /\ serviceLinks' = serviceLinks /\ selectedServiceId' = selectedServiceId
        /\ selectedChildServiceId' = selectedChildServiceId
        /\ childServicesLinks' = childServicesLinks /\ nextPageLink' = nextPageLink
        /\ locked' = locked /\ createTarget' = createTarget /\ createBody' = createBody
        /\ latest' = latest
    BY DEF onStats
  <1>2. /\ requests' = requests \ {r} /\ \A q \in requests' : IsRequest(q)
        /\ sent' \in 0 .. MaxRequests /\ disturbed' \subseteq Kinds /\ IdInv'
        /\ \A k : k # r.kind => Same(k)
        /\ "stats" \notin disturbed' =>
                /\ "stats" \notin disturbed /\ Pending(requests, "stats")
                /\ Newest(requests', "stats") \subseteq Newest(requests, "stats")
                /\ ~Pending(requests', "stats") => r \in Newest(requests, "stats")
    BY <1>1, AnswerNone
  <1>3. child \in ChildView /\ child # None /\ r.about \in Link
    BY <1>1, ChildAnswered DEF ChildKinds
  <1>4. /\ child' \in ChildView /\ child'.stats = r.about /\ child'.doc = child.doc
        /\ child'.editTarget = child.editTarget /\ child'.deleteTarget = child.deleteTarget
    BY <1>1, <1>3 DEF ChildView
  <1>5. child' # None
    BY <1>4, NoneAssumption
  <1>6. ViewTypes'
    BY <1>1, <1>2, <1>4 DEF ViewsInv, ViewTypes
  <1>7. RouteInv' /\ ChildInv' /\ PageInv' /\ OnePageRequest'
    BY <1>1, <1>2, <1>3, <1>5, RequestsRemoved
  <1>8. DialogsMatchView'
    BY <1>1, <1>3, <1>4 DEF ViewsInv, DialogsMatchView
  <1>9. Same("list") /\ Same("doc") /\ Same("gridLinks") /\ Same("gridDocs")
    BY <1>1, <1>2
  <1>10. ListInv' /\ GridInv'
    BY <1>1, <1>9, ListKept, GridKept DEF ViewsInv
  <1>11. DocInv'
    BY <1>1, <1>3, <1>4, <1>9, DocKept DEF ViewsInv
  <1>12. StatsInv'
    BY <1>1, <1>2, <1>3, <1>4 DEF ViewsInv, StatsInv
  <1>13. QED
    BY <1>2, <1>6, <1>7, <1>8, <1>10, <1>11, <1>12 DEF ViewsInv

LEMMA OnChangedStep ==
  ASSUME ViewsInv, NEW r \in requests, onChanged(r)
  PROVE  ViewsInv'
  <1>1. /\ r.kind \in {"edit", "delete", "create"} /\ Answer(r, <<>>) /\ grid' = grid
        /\ child' = IF r.kind = "edit" THEN [child EXCEPT !.editBody = FALSE] ELSE child
        /\ createBody' \in {FALSE, createBody}
        /\ selectedNode' = selectedNode /\ route' = route /\ redirected' = redirected
        /\ serviceLinks' = serviceLinks /\ selectedServiceId' = selectedServiceId
        /\ selectedChildServiceId' = selectedChildServiceId
        /\ childServicesLinks' = childServicesLinks /\ nextPageLink' = nextPageLink
        /\ locked' = locked /\ createTarget' = createTarget /\ latest' = latest
    BY DEF onChanged
  <1>2. /\ requests' = requests \ {r} /\ \A q \in requests' : IsRequest(q)
        /\ sent' \in 0 .. MaxRequests /\ disturbed' \subseteq Kinds /\ IdInv'
        /\ \A k : k # r.kind => Same(k)
    BY <1>1, AnswerNone
  <1>3. /\ child' \in ChildView \cup {None} /\ (child' # None <=> child # None)
        /\ child # None => /\ child'.doc = child.doc /\ child'.stats = child.stats
                           /\ child'.editTarget = child.editTarget
                           /\ child'.deleteTarget = child.deleteTarget
    <2>1. CASE r.kind = "edit"
      <3>1. child \in ChildView /\ child # None
        BY <2>1, ChildAnswered DEF ChildKinds
      <3>2. /\ child' \in ChildView /\ child'.doc = child.doc /\ child'.stats = child.stats
            /\ child'.editTarget = child.editTarget /\ child'.deleteTarget = child.deleteTarget
        BY <1>1, <2>1, <3>1 DEF ChildView
      <3>3. QED
        BY <3>1, <3>2, NoneAssumption
    <2>2. CASE r.kind # "edit"
      BY <1>1, <2>2 DEF ViewsInv, ViewTypes
    <2>3. QED
      BY <2>1, <2>2
  <1>4. ViewTypes'
    BY <1>1, <1>2, <1>3 DEF ViewsInv, ViewTypes
  <1>5. RouteInv' /\ ChildInv' /\ PageInv' /\ OnePageRequest'
    BY <1>1, <1>2, <1>3, RequestsRemoved
  <1>6. DialogsMatchView'
    BY <1>1, <1>3 DEF ViewsInv, DialogsMatchView
  <1>7. Same("list") /\ Same("doc") /\ Same("stats") /\ Same("gridLinks") /\ Same("gridDocs")
    BY <1>1, <1>2
  <1>8. ListInv' /\ GridInv'
    BY <1>1, <1>7, ListKept, GridKept DEF ViewsInv
  <1>9. DocInv' /\ StatsInv'
    BY <1>1, <1>3, <1>7, DocKept, StatsKept DEF ViewsInv
  <1>10. QED
    BY <1>2, <1>4, <1>5, <1>6, <1>8, <1>9 DEF ViewsInv

(* An error disturbs the view of its kind.                                 *)
LEMMA OnErrorStep ==
  ASSUME ViewsInv, NEW r \in requests, onError(r)
  PROVE  ViewsInv'
  <1>1. /\ requests' = requests \ {r} /\ disturbed' = disturbed \cup {r.kind} /\ sent' = sent
        /\ selectedNode' = selectedNode /\ route' = route /\ redirected' = redirected
        /\ grid' = grid /\ serviceLinks' = serviceLinks /\ selectedServiceId' = selectedServiceId
        /\ selectedChildServiceId' = selectedChildServiceId
        /\ childServicesLinks' = childServicesLinks /\ nextPageLink' = nextPageLink
        /\ locked' = locked /\ createTarget' = createTarget /\ createBody' = createBody
        /\ child' = child /\ latest' = latest
    BY DEF onError, detail
  <1>2. ViewTypes'
    BY <1>1 DEF ViewsInv, ViewTypes, IsRequest
  <1>3. RouteInv' /\ ChildInv' /\ PageInv' /\ OnePageRequest'
    BY <1>1, RequestsRemoved
  <1>4. DialogsMatchView' /\ IdInv'
    BY <1>1 DEF ViewsInv, DialogsMatchView, IdInv
  <1>5. ASSUME NEW k, k # r.kind
        PROVE  Same(k)
    <2>1. Pending(requests', k) <=> Pending(requests, k)
      BY <1>1, <1>5 DEF Pending
    <2>2. Newest(requests', k) \subseteq Newest(requests, k)
      BY <1>1, <1>5 DEF Newest
    <2>3. QED
      BY <1>1, <2>1, <2>2 DEF Same
  <1>6. ListInv'
    <2>1. CASE r.kind = "list"
      BY <1>1, <2>1 DEF ListInv
    <2>2. CASE r.kind # "list"
      BY <1>1, <1>5, <2>2, ListKept DEF ViewsInv
    <2>3. QED
      BY <2>1, <2>2
  <1>7. DocInv'
    <2>1. CASE r.kind = "doc"
      BY <1>1, <2>1 DEF DocInv
    <2>2. CASE r.kind # "doc"
      BY <1>1, <1>5, <2>2, DocKept DEF ViewsInv
    <2>3. QED
      BY <2>1, <2>2
  <1>8. StatsInv'
    <2>1. CASE r.kind = "stats"
      BY <1>1, <2>1 DEF StatsInv
    <2>2. CASE r.kind # "stats"
      BY <1>1, <1>5, <2>2, StatsKept DEF ViewsInv
    <2>3. QED
      BY <2>1, <2>2
  <1>9. GridInv'
    <2>1. CASE r.kind = "gridLinks"
      BY <1>1, <2>1 DEF GridInv
    <2>2. CASE r.kind = "gridDocs"
      <3>1. Same("gridLinks") /\ "gridDocs" \in disturbed'
        BY <1>1, <1>5, <2>2
      <3>2. QED
        BY <1>1, <3>1 DEF ViewsInv, GridInv, Same
    <2>3. CASE r.kind # "gridLinks" /\ r.kind # "gridDocs"
      BY <1>1, <1>5, <2>3, GridKept DEF ViewsInv
    <2>4. QED
      BY <2>1, <2>2, <2>3
  <1>10. QED
    BY <1>2, <1>3, <1>4, <1>6, <1>7, <1>8, <1>9 DEF ViewsInv

(* The body of a dialog.                                                   *)
LEMMA TypeBodyStep ==
  ASSUME ViewsInv, NEW b \in BOOLEAN, typeBody(b)
  PROVE  ViewsInv'
  <1>1. /\ requests' = requests /\ disturbed' = disturbed /\ sent' = sent
        /\ selectedNode' = selectedNode /\ route' = route /\ redirected' = redirected
        /\ grid' = grid /\ serviceLinks' = serviceLinks /\ selectedServiceId' = selectedServiceId
        /\ selectedChildServiceId' = selectedChildServiceId
        /\ childServicesLinks' = childServicesLinks /\ nextPageLink' = nextPageLink
        /\ locked' = locked /\ createTarget' = createTarget /\ latest' = latest
        /\ createBody' \in {b, createBody}
        /\ \/ child' = child
           \/ child # None /\ child' = [child EXCEPT !.editBody = b]
    BY DEF typeBody, traffic
  <1>2. /\ child' \in ChildView \cup {None} /\ (child' # None <=> child # None)
        /\ child # None => /\ child'.doc = child.doc /\ child'.stats = child.stats
                           /\ child'.editTarget = child.editTarget
                           /\ child'.deleteTarget = child.deleteTarget
    <2>1. CASE child' = child
      BY <2>1 DEF ViewsInv, ViewTypes
    <2>2. CASE child # None /\ child' = [child EXCEPT !.editBody = b]
      <3>1. child \in ChildView
        BY <2>2 DEF ViewsInv, ViewTypes
      <3>2. /\ child' \in ChildView /\ child'.doc = child.doc /\ child'.stats = child.stats
            /\ child'.editTarget = child.editTarget /\ child'.deleteTarget = child.deleteTarget
        BY <2>2, <3>1 DEF ChildView
      <3>3. QED
        BY <2>2, <3>2, NoneAssumption
    <2>3. QED
      BY <1>1, <2>1, <2>2
  <1>3. ViewTypes'
    BY <1>1, <1>2 DEF ViewsInv, ViewTypes
  <1>4. RouteInv' /\ ChildInv' /\ PageInv' /\ OnePageRequest'
    BY <1>1, <1>2, RequestsRemoved
  <1>5. DialogsMatchView' /\ IdInv'
    BY <1>1, <1>2 DEF ViewsInv, DialogsMatchView, IdInv
  <1>6. \A k : Same(k)
    BY <1>1 DEF Same
  <1>7. ListInv' /\ GridInv'
    BY <1>1, <1>6, ListKept, GridKept DEF ViewsInv
  <1>8. DocInv' /\ StatsInv'
    BY <1>1, <1>2, <1>6, DocKept, StatsKept DEF ViewsInv
  <1>9. QED
    BY <1>3, <1>4, <1>5, <1>7, <1>8 DEF ViewsInv

-----------------------------------------------------------------------------
(* What the user does.                                                     *)
LEMMA NewRequest ==
  ASSUME ViewsInv, NEW k \in Kinds, NEW a \in About[k]
  PROVE  /\ Fresh(request(k, a))
         /\ request(k, a).kind = k /\ request(k, a).about = a
         /\ request(k, a).node = selectedNode
  <1>1. PICK n : n = selectedNode
    OBVIOUS
  <1>2. n \in Nodes
    BY <1>1 DEF ViewsInv, ViewTypes
  <1>3. PICK q : q = [id |-> 0, kind |-> k, about |-> a, node |-> n]
    OBVIOUS
  <1>4. request(k, a) = q
    BY <1>1, <1>3 DEF request
  <1>5. QED
    BY <1>1, <1>2, <1>3, <1>4, FreshRequest

LEMMA SentOne ==
  ASSUME ViewsInv, NEW q, Fresh(q), Send(<<q>>)
  PROVE  /\ \A x \in requests' : IsRequest(x)
         /\ sent' \in 0 .. MaxRequests /\ disturbed' \subseteq Kinds /\ IdInv'
         /\ \A x \in requests' : x \in requests \/ Like(x, q)
         /\ \A x \in Newest(requests', q.kind) : Like(x, q)
         /\ Pending(requests', q.kind)
         /\ \A k : k # q.kind => Same(k)
  <1>1. PICK open, B : open = requests /\ B = disturbed
    OBVIOUS
  <1>2. B \subseteq Kinds
    BY <1>1 DEF ViewsInv, ViewTypes
  <1>3. PICK N : /\ Sends(open, N, B)
                 /\ \A n \in N : Like(n, q)
                 /\ \E n \in N : Like(n, q)
    <2>1. SendAll(open, <<q>>, B)
      BY <1>1 DEF Send
    <2>2. QED
      BY <2>1, <1>1, <1>2, SendOne
  <1>4. /\ \A x \in requests' : IsRequest(x)
        /\ sent' \in 0 .. MaxRequests /\ disturbed' \subseteq Kinds /\ IdInv'
    BY <1>1, <1>3, TrafficKept
  <1>5. \A x \in requests' : x \in requests \/ Like(x, q)
    BY <1>1, <1>3 DEF Sends
  <1>6. Pending(requests', q.kind) /\ Newest(requests', q.kind) \subseteq N
    <2>1. PICK k : k = q.kind
      OBVIOUS
    <2>2. \E n \in N : n.kind = k
      BY <1>3, <2>1 DEF Like
    <2>3. Pending(requests', k) /\ Newest(requests', k) \subseteq N
      BY <1>3, <2>2, NewestSent
    <2>4. QED
      BY <2>1, <2>3
  <1>7. ASSUME NEW k, k # q.kind
        PROVE  Same(k)
    <2>1. \A n \in N : n.kind # k
      BY <1>3, <1>7 DEF Like
    <2>2. /\ open \subseteq requests /\ \A x \in requests : x.kind = k => x \in open
          /\ k \notin B => k \notin disturbed
      BY <1>1
    <2>3. QED
      BY <1>3, <2>1, <2>2, SameKind
  <1>8. QED
    BY <1>3, <1>4, <1>5, <1>6, <1>7

(* The dialogs of the child component and of the detail page.              *)
LEMMA DialogStep ==
  ASSUME ViewsInv, NEW q, Fresh(q), Send(<<q>>), route.view # "grid",
         q.kind \in {"edit", "delete", "create"}, q.kind \in ChildKinds => child # None,
         UNCHANGED <<selectedNode, route, redirected, grid, detail>>
  PROVE  ViewsInv'
  <1>1. /\ selectedNode' = selectedNode /\ route' = route /\ redirected' = redirected
        /\ grid' = grid /\ serviceLinks' = serviceLinks /\ selectedServiceId' = selectedServiceId
        /\ selectedChildServiceId' = selectedChildServiceId
        /\ childServicesLinks' = childServicesLinks /\ nextPageLink' = nextPageLink
        /\ locked' = locked /\ createTarget' = createTarget /\ createBody' = createBody
        /\ child' = child /\ latest' = latest
    BY DEF detail
  <1>2. /\ \A x \in requests' : IsRequest(x)
        /\ sent' \in 0 .. MaxRequests /\ disturbed' \subseteq Kinds /\ IdInv'
        /\ \A x \in requests' : x \in requests \/ Like(x, q)
        /\ \A k : k # q.kind => Same(k)
    BY SentOne
  <1>3. ViewTypes'
    BY <1>1, <1>2 DEF ViewsInv, ViewTypes
  <1>4. \A x \in requests' : x \in requests \/ x.kind = q.kind
    BY <1>2 DEF Like
  <1>5. RouteInv' /\ ChildInv'
    BY <1>1, <1>4 DEF ViewsInv, RouteInv, ChildInv, GridKinds
  <1>6. PageInv' /\ OnePageRequest'
    BY <1>1, <1>4 DEF ViewsInv, PageInv, OnePageRequest
  <1>7. DialogsMatchView'
    BY <1>1 DEF ViewsInv, DialogsMatchView
  <1>8. Same("list") /\ Same("doc") /\ Same("stats") /\ Same("gridLinks") /\ Same("gridDocs")
    BY <1>2
  <1>9. ListInv' /\ DocInv' /\ StatsInv' /\ GridInv'
    BY <1>1, <1>8, ListKept, DocKept, StatsKept, GridKept DEF ViewsInv
  <1>10. QED
    BY <1>2, <1>3, <1>5, <1>6, <1>7, <1>9 DEF ViewsInv

LEMMA DialogsStep ==
  ASSUME ViewsInv, onEditChildService \/ onDeleteChildService \/ onCreateChildService
  PROVE  ViewsInv'
  <1>1. CASE onEditChildService
    <2>1. PICK a : a = child.editTarget
      OBVIOUS
    <2>2. a \in Link
      BY <1>1, <2>1 DEF onEditChildService, ViewsInv, ViewTypes, ChildView
    <2>3. "edit" \in Kinds /\ a \in About["edit"]
      BY <2>2 DEF Kinds, GridKinds, ChildKinds, About
    <2>4. PICK q : q = request("edit", a)
      OBVIOUS
    <2>5. Fresh(q) /\ q.kind = "edit"
      BY <2>3, <2>4, NewRequest
    <2>6. Send(<<q>>)
      BY <1>1, <2>1, <2>4 DEF onEditChildService
    <2>7. QED
      BY <1>1, <2>5, <2>6, DialogStep DEF onEditChildService
  <1>2. CASE onDeleteChildService
    <2>1. PICK a : a = child.deleteTarget
      OBVIOUS
    <2>2. a \in Link
      BY <1>2, <2>1 DEF onDeleteChildService, ViewsInv, ViewTypes, ChildView
    <2>3. "delete" \in Kinds /\ a \in About["delete"]
      BY <2>2 DEF Kinds, GridKinds, ChildKinds, About
    <2>4. PICK q : q = request("delete", a)
      OBVIOUS
    <2>5. Fresh(q) /\ q.kind = "delete"
      BY <2>3, <2>4, NewRequest
    <2>6. Send(<<q>>)
      BY <1>2, <2>1, <2>4 DEF onDeleteChildService
    <2>7. QED
      BY <1>2, <2>5, <2>6, DialogStep DEF onDeleteChildService
  <1>3. CASE onCreateChildService
    <2>1. PICK a : a = createTarget
      OBVIOUS
    <2>2. a \in Factories
      BY <1>3, <2>1 DEF onCreateChildService, ViewsInv, ViewTypes
    <2>3. "create" \in Kinds /\ a \in About["create"]
      BY <2>2 DEF Kinds, GridKinds, ChildKinds, About
    <2>4. PICK q : q = request("create", a)
      OBVIOUS
    <2>5. Fresh(q) /\ q.kind = "create"
      BY <2>3, <2>4, NewRequest
    <2>6. Send(<<q>>)
      BY <1>3, <2>1, <2>4 DEF onCreateChildService
    <2>7. QED
      BY <1>3, <2>5, <2>6, DialogStep DEF onCreateChildService, ChildKinds
  <1>4. QED
    BY <1>1, <1>2, <1>3

(* The next page: the lock is taken, so no page is under way.              *)
LEMMA OnLoadNextPageStep ==
  ASSUME ViewsInv, onLoadNextPage
  PROVE  ViewsInv'
  <1>1. PICK a, q : a = nextPageLink /\ q = request("page", a)
    OBVIOUS
  <1>2. /\ childServicesLinks # <<>> /\ route.view # "grid" /\ a # None /\ ~locked
        /\ locked' = TRUE /\ Send(<<q>>)
        /\ selectedNode' = selectedNode /\ route' = route /\ redirected' = redirected
        /\ grid' = grid /\ serviceLinks' = serviceLinks /\ selectedServiceId' = selectedServiceId
        /\ selectedChildServiceId' = selectedChildServiceId
        /\ childServicesLinks' = childServicesLinks /\ nextPageLink' = nextPageLink
        /\ createTarget' = createTarget /\ createBody' = createBody
        /\ child' = child /\ latest' = latest
    BY <1>1 DEF onLoadNextPage
  <1>3. a \in Page /\ a.page > 1 /\ ComesNext(a, childServicesLinks)
    BY <1>1, <1>2 DEF ViewsInv, ViewTypes, PageInv
  <1>4. "page" \in Kinds /\ a \in About["page"]
    BY <1>3 DEF Kinds, GridKinds, ChildKinds, About
  <1>5. Fresh(q) /\ q.kind = "page" /\ q.about = a
    BY <1>1, <1>4, NewRequest
  <1>6. PICK open, B : open = requests /\ B = disturbed
    OBVIOUS
  <1>7. \A x \in open : x.kind # "page"
    BY <1>2, <1>6 DEF ViewsInv, PageInv
  <1>8. /\ \A x \in requests' : IsRequest(x)
        /\ sent' \in 0 .. MaxRequests /\ disturbed' \subseteq Kinds /\ IdInv'
        /\ \A x \in requests' : x \in requests \/ Like(x, q)
        /\ \A k : k # q.kind => Same(k)
    BY <1>2, <1>5, SentOne
  <1>9. ViewTypes'
    BY <1>2, <1>8 DEF ViewsInv, ViewTypes
  <1>10. \A x \in requests' : x \in requests \/ (x.kind = "page" /\ x.about = a)
    BY <1>5, <1>8 DEF Like
  <1>11. RouteInv' /\ ChildInv'
    BY <1>2, <1>10 DEF ViewsInv, RouteInv, ChildInv, GridKinds, ChildKinds
  <1>12. PageInv'
    BY <1>2, <1>3, <1>10 DEF ViewsInv, PageInv
  <1>13. OnePageRequest'
    <2>1. PICK e : e = [q EXCEPT !.id = sent + 1]
      OBVIOUS
    <2>2. requests' = open \cup {e}
      <3>1. PICK seq : seq = <<q>>
        OBVIOUS
      <3>2. Len(seq) = 1 /\ seq[1] = q
        BY <3>1
      <3>3. requests' = open \cup {[seq[i] EXCEPT !.id = sent + i] : i \in 1 .. Len(seq)}
        BY <3>1, <1>2, <1>6 DEF Send, SendAll
      <3>4. \A i \in 1 .. Len(seq) : [seq[i] EXCEPT !.id = sent + i] = e
        <4>1. \A i \in 1 .. Len(seq) : i = 1
          BY <3>2
        <4>2. QED
          BY <4>1, <3>2, <2>1
      <3>5. 1 \in 1 .. Len(seq)
        BY <3>2
      <3>6. QED
        BY <3>3, <3>4, <3>5
    <2>3. QED
      BY <2>2, <1>7 DEF OnePageRequest
  <1>14. DialogsMatchView'
    BY <1>2 DEF ViewsInv, DialogsMatchView
  <1>15. Same("list") /\ Same("doc") /\ Same("stats") /\ Same("gridLinks") /\ Same("gridDocs")
    BY <1>5, <1>8
  <1>16. ListInv' /\ DocInv' /\ StatsInv' /\ GridInv'
    BY <1>2, <1>15, ListKept, DocKept, StatsKept, GridKept DEF ViewsInv
  <1>17. QED
    BY <1>8, <1>9, <1>11, <1>12, <1>13, <1>14, <1>16 DEF ViewsInv

-----------------------------------------------------------------------------
(* The router and the node selector.                                       *)
LEMMA SetSelectedNodeStep ==
  ASSUME ViewsInv, NEW n \in Nodes, setSelectedNode(n)
  PROVE  ViewsInv'
  <1>1. /\ selectedNode' = n /\ route' = route
        /\ grid' = grid /\ serviceLinks' = serviceLinks /\ selectedServiceId' = selectedServiceId
        /\ selectedChildServiceId' = selectedChildServiceId
        /\ childServicesLinks' = childServicesLinks /\ nextPageLink' = nextPageLink
        /\ locked' = locked /\ createTarget' = createTarget /\ createBody' = createBody
        /\ child' = child /\ latest' = latest
    BY DEF setSelectedNode, detail
  <1>2. DialogsMatchView'
    BY <1>1 DEF ViewsInv, DialogsMatchView
  <1>3. CASE route.view = "grid"
    <2>1. PICK q : q = [id |-> 0, kind |-> "gridLinks", about |-> None, node |-> n]
      OBVIOUS
    <2>2. [request("gridLinks", None) EXCEPT !.node = n] = q
      BY <2>1 DEF request
    <2>3. Send(<<q>>) /\ redirected' = redirected
      BY <1>3, <2>2 DEF setSelectedNode
    <2>4. Fresh(q) /\ q.kind = "gridLinks" /\ q.node = n
      BY <2>1 DEF Fresh, IsRequest, Kinds, GridKinds, About
    <2>5. /\ \A x \in requests' : IsRequest(x)
          /\ sent' \in 0 .. MaxRequests /\ disturbed' \subseteq Kinds /\ IdInv'
          /\ \A x \in requests' : x \in requests \/ Like(x, q)
          /\ \A x \in Newest(requests', q.kind) : Like(x, q)
          /\ Pending(requests', q.kind)
          /\ \A k : k # q.kind => Same(k)
      BY <2>3, <2>4, SentOne
    <2>6. ViewTypes'
      BY <1>1, <2>3, <2>5 DEF ViewsInv, ViewTypes
    <2>7. \A x \in requests' : x \in requests \/ x.kind = "gridLinks"
      BY <2>4, <2>5 DEF Like
    <2>8. RouteInv' /\ ChildInv'
      BY <1>1, <1>3, <2>7 DEF ViewsInv, RouteInv, ChildInv, GridKinds, ChildKinds
    <2>9. PageInv' /\ OnePageRequest'
      BY <1>1, <2>7 DEF ViewsInv, PageInv, OnePageRequest
    <2>10. Same("list") /\ Same("doc") /\ Same("stats")
      BY <2>4, <2>5
    <2>11. ListInv' /\ DocInv' /\ StatsInv'
      BY <1>1, <2>10, ListKept, DocKept, StatsKept DEF ViewsInv
    <2>12. GridInv'
      BY <1>1, <2>4, <2>5 DEF GridInv, Like
    <2>13. QED
      BY <1>2, <2>5, <2>6, <2>8, <2>9, <2>11, <2>12 DEF ViewsInv
  <1>4. CASE route.view # "grid"
    <2>1. /\ redirected' = TRUE /\ requests' = requests /\ sent' = sent
          /\ disturbed' = disturbed
      BY <1>4 DEF setSelectedNode, traffic
    <2>2. ViewTypes' /\ IdInv'
      BY <1>1, <2>1 DEF ViewsInv, ViewTypes, IdInv
    <2>3. RouteInv' /\ ChildInv' /\ PageInv' /\ OnePageRequest'
      BY <1>1, <2>1, RequestsRemoved
    <2>4. \A k : Same(k)
      BY <2>1 DEF Same
    <2>5. ListInv' /\ DocInv' /\ StatsInv'
      BY <1>1, <2>4, ListKept, DocKept, StatsKept DEF ViewsInv
    <2>6. GridInv'
      BY <1>1, <1>4 DEF GridInv
    <2>7. QED
      BY <1>2, <2>2, <2>3, <2>5, <2>6 DEF ViewsInv
  <1>5. QED
    BY <1>3, <1>4

(* A page is opened: the requests N of the new component are the only ones. *)
LEMMA NewPage ==
  ASSUME ViewsInv, NEW N, NEW rt \in Route, route' = rt, redirected' = FALSE,
         newDetail(rt), Sends({}, N, disturbed), selectedNode' = selectedNode,
         grid' \in [links : Nodes \cup {None}, docs : Nodes \cup {None}],
         \A n \in N : /\ n.kind \in GridKinds <=> rt.view = "grid"
                      /\ n.kind # "page" /\ n.kind \notin ChildKinds
  PROVE  /\ ViewTypes' /\ RouteInv' /\ ChildInv' /\ PageInv' /\ IdInv'
         /\ DialogsMatchView' /\ OnePageRequest' /\ DocInv' /\ StatsInv'
  <1>1. /\ serviceLinks' = FALSE /\ selectedServiceId' = rt.svc
        /\ selectedChildServiceId' = rt.child
        /\ childServicesLinks' = <<>> /\ nextPageLink' = None /\ locked' = FALSE
        /\ createTarget' = rt.svc /\ createBody' = FALSE
        /\ child' = None /\ latest' = None
    BY DEF newDetail
  <1>2. PICK open, B : open = {} /\ B = disturbed
    OBVIOUS
  <1>3. /\ \A x \in requests' : IsRequest(x)
        /\ sent' \in 0 .. MaxRequests /\ disturbed' \subseteq Kinds /\ IdInv'
    <2>1. open \subseteq requests /\ Sends(open, N, B)
      BY <1>2 DEF Sends
    <2>2. QED
      BY <2>1, TrafficKept
  <1>4. requests' = N
    BY DEF Sends
  <1>5. ViewTypes'
    <2>1. <<>> \in Seq(Page)
      OBVIOUS
    <2>2. QED
      BY <1>1, <1>3, <2>1, RouteFields DEF ViewsInv, ViewTypes
  <1>6. RouteInv' /\ ChildInv'
    BY <1>1, <1>4 DEF RouteInv, ChildInv
  <1>7. PageInv' /\ OnePageRequest'
    BY <1>1, <1>4, EmptyList DEF PageInv, OnePageRequest
  <1>8. DialogsMatchView' /\ DocInv' /\ StatsInv'
    BY <1>1 DEF DialogsMatchView, DocInv, StatsInv
  <1>9. QED
    BY <1>3, <1>5, <1>6, <1>7, <1>8

LEMMA OpenGridStep ==
  ASSUME ViewsInv, openGrid
  PROVE  ViewsInv'
  <1>1. PICK q, open, B : q = request("gridLinks", None) /\ open = {} /\ B = disturbed
    OBVIOUS
  <1>2. /\ route' = GridRoute /\ redirected' = FALSE /\ grid' = [links |-> None, docs |-> None]
        /\ SendAll(open, <<q>>, B) /\ newDetail(GridRoute) /\ selectedNode' = selectedNode
    BY <1>1 DEF openGrid
  <1>3. Fresh(q) /\ q.kind = "gridLinks" /\ q.node = selectedNode
    <2>1. "gridLinks" \in Kinds /\ None \in About["gridLinks"]
      BY DEF Kinds, GridKinds, About
    <2>2. QED
      BY <1>1, <2>1, NewRequest
  <1>4. open \subseteq requests /\ B \subseteq Kinds
    BY <1>1 DEF ViewsInv, ViewTypes
  <1>5. PICK N : /\ Sends(open, N, B)
                 /\ \A n \in N : Like(n, q)
                 /\ \E n \in N : Like(n, q)
    BY <1>2, <1>3, <1>4, SendOne
  <1>6. GridRoute \in Route /\ GridRoute.view = "grid"
    BY DEF GridRoute, Route
  <1>7. \A n \in N : n.kind = "gridLinks" /\ n.node = selectedNode
    BY <1>3, <1>5 DEF Like
  <1>8. /\ ViewTypes' /\ RouteInv' /\ ChildInv' /\ PageInv' /\ IdInv'
        /\ DialogsMatchView' /\ OnePageRequest' /\ DocInv' /\ StatsInv'
    <2>1. PICK rt \in Route : rt = GridRoute
      BY <1>6
    <2>2. /\ route' = rt /\ newDetail(rt) /\ rt.view = "grid" /\ Sends({}, N, disturbed)
      BY <2>1, <1>1, <1>2, <1>5, <1>6
    <2>3. \A n \in N : /\ n.kind \in GridKinds <=> rt.view = "grid"
                       /\ n.kind # "page" /\ n.kind \notin ChildKinds
      BY <1>7, <2>2 DEF GridKinds, ChildKinds
    <2>4. grid' \in [links : Nodes \cup {None}, docs : Nodes \cup {None}]
      BY <1>2
    <2>5. QED
      BY <1>2, <2>2, <2>3, <2>4, NewPage
  <1>9. ListInv'
    BY <1>2, <1>6 DEF ListInv
  <1>10. GridInv'
    <2>1. Pending(requests', "gridLinks") /\ Newest(requests', "gridLinks") \subseteq N
      BY <1>5, <1>7, NewestSent
    <2>2. QED
      BY <2>1, <1>2, <1>7 DEF GridInv
  <1>11. QED
    BY <1>8, <1>9, <1>10 DEF ViewsInv

LEMMA OpenDetailStep ==
  ASSUME ViewsInv, NEW rt \in Route, openDetail(rt)
  PROVE  ViewsInv'
  <1>1. PICK p, q, open, B : /\ p = request("links", None) /\ q = request("list", rt.svc)
                             /\ open = {} /\ B = disturbed
    OBVIOUS
  <1>2. /\ rt.view # "grid" /\ route' = rt /\ redirected' = FALSE /\ newDetail(rt)
        /\ SendAll(open, <<p, q>>, B) /\ selectedNode' = selectedNode /\ grid' = grid
    BY <1>1 DEF openDetail
  <1>3. /\ Fresh(p) /\ p.kind = "links"
        /\ Fresh(q) /\ q.kind = "list" /\ q.about = rt.svc
    <2>1. /\ "links" \in Kinds /\ None \in About["links"]
          /\ "list" \in Kinds /\ rt.svc \in About["list"]
      BY <1>2, RouteFields DEF Kinds, GridKinds, About
    <2>2. QED
      BY <1>1, <2>1, NewRequest
  <1>4. open \subseteq requests /\ B \subseteq Kinds
    BY <1>1 DEF ViewsInv, ViewTypes
  <1>5. PICK N : /\ Sends(open, N, B)
                 /\ \A n \in N : Like(n, p) \/ Like(n, q)
                 /\ \E n \in N : Like(n, q)
    BY <1>2, <1>3, <1>4, SendTwo
  <1>6. \A n \in N : n.kind = "links" \/ (n.kind = "list" /\ n.about = rt.svc)
    BY <1>3, <1>5 DEF Like
  <1>7. /\ ViewTypes' /\ RouteInv' /\ ChildInv' /\ PageInv' /\ IdInv'
        /\ DialogsMatchView' /\ OnePageRequest' /\ DocInv' /\ StatsInv'
    <2>1. Sends({}, N, disturbed)
      BY <1>1, <1>5
    <2>2. \A n \in N : /\ n.kind \in GridKinds <=> rt.view = "grid"
                       /\ n.kind # "page" /\ n.kind \notin ChildKinds
      BY <1>2, <1>6 DEF GridKinds, ChildKinds
    <2>3. grid' \in [links : Nodes \cup {None}, docs : Nodes \cup {None}]
      BY <1>2 DEF ViewsInv, ViewTypes
    <2>4. QED
      BY <1>2, <2>1, <2>2, <2>3, NewPage
  <1>8. ListInv'
    <2>1. \E n \in N : n.kind = "list"
      BY <1>3, <1>5 DEF Like
    <2>2. Pending(requests', "list") /\ Newest(requests', "list") \subseteq N
      BY <1>5, <2>1, NewestSent
    <2>3. \A x \in Newest(requests', "list") : x.about = rt.svc
      BY <2>2, <1>6 DEF Newest
    <2>4. selectedServiceId' = rt.svc
      BY <1>2 DEF newDetail
    <2>5. QED
      BY <2>2, <2>3, <2>4 DEF ListInv
  <1>9. GridInv'
    BY <1>2 DEF GridInv
  <1>10. QED
    BY <1>7, <1>8, <1>9 DEF ViewsInv

-----------------------------------------------------------------------------
(* Answers and selections that send requests.                              *)
LEMMA OnGridLinksStep ==
  ASSUME ViewsInv, NEW r \in requests, onGridLinks(r)
  PROVE  ViewsInv'
  <1>1. PICK q, open, B : /\ q = request("gridDocs", r.node)
                          /\ open = requests \ {r} /\ B = Overtaking(r)
    OBVIOUS
  <1>2. /\ r.kind = "gridLinks" /\ SendAll(open, <<q>>, B)
        /\ selectedNode' = selectedNode /\ route' = route /\ redirected' = redirected
        /\ grid' = grid /\ serviceLinks' = serviceLinks /\ selectedServiceId' = selectedServiceId
        /\ selectedChildServiceId' = selectedChildServiceId
        /\ childServicesLinks' = childServicesLinks /\ nextPageLink' = nextPageLink
        /\ locked' = locked /\ createTarget' = createTarget /\ createBody' = createBody
        /\ child' = child /\ latest' = latest
    BY <1>1 DEF onGridLinks, Answer, detail
  <1>3. \A x \in requests : IsRequest(x)
    BY DEF ViewsInv, ViewTypes
  <1>4. Fresh(q) /\ q.kind = "gridDocs" /\ q.about = r.node /\ q.node = selectedNode
    <2>1. "gridDocs" \in Kinds /\ r.node \in About["gridDocs"]
      BY <1>3 DEF Kinds, GridKinds, About, IsRequest
    <2>2. QED
      BY <1>1, <2>1, NewRequest
  <1>5. open \subseteq requests /\ B \subseteq Kinds /\ \A k : k \in disturbed => k \in B
    BY <1>1, OvertakingType
  <1>6. PICK N : /\ Sends(open, N, B)
                 /\ \A n \in N : Like(n, q)
                 /\ \E n \in N : Like(n, q)
    BY <1>2, <1>4, <1>5, SendOne
  <1>7. \A n \in N : n.kind = "gridDocs" /\ n.about = r.node /\ n.node = selectedNode
    BY <1>4, <1>6 DEF Like
  <1>8. /\ \A x \in requests' : IsRequest(x)
        /\ sent' \in 0 .. MaxRequests /\ disturbed' \subseteq Kinds /\ IdInv'
    BY <1>5, <1>6, TrafficKept
  <1>9. ViewTypes'
    BY <1>2, <1>8 DEF ViewsInv, ViewTypes
  <1>10. \A x \in requests' : x \in requests \/ x.kind = "gridDocs"
    BY <1>5, <1>6, <1>7 DEF Sends
  <1>11. route.view = "grid"
    BY <1>2 DEF ViewsInv, RouteInv, GridKinds
  <1>12. RouteInv' /\ ChildInv'
    BY <1>2, <1>10, <1>11 DEF ViewsInv, RouteInv, ChildInv, GridKinds, ChildKinds
  <1>13. PageInv' /\ OnePageRequest'
    BY <1>2, <1>10 DEF ViewsInv, PageInv, OnePageRequest
  <1>14. DialogsMatchView' /\ ListInv'
    BY <1>2, <1>11 DEF ViewsInv, DialogsMatchView, ListInv
  <1>15. DocInv' /\ StatsInv'
    <2>1. child = None
      BY <1>11 DEF ViewsInv, RouteInv, ChildInv
    <2>2. QED
      BY <2>1, <1>2 DEF DocInv, StatsInv
  <1>16. GridInv'
    <2>1. PICK k : k = "gridLinks"
      OBVIOUS
    <2>2. k \notin disturbed' =>
            /\ k \notin disturbed /\ Pending(requests, k)
            /\ Newest(requests', k) \subseteq Newest(requests, k)
            /\ ~Pending(requests', k) => r \in Newest(requests, k)
      <3>1. /\ open \subseteq requests \ {r} /\ \A x \in requests \ {r} : x.kind = k => x \in open
            /\ \A n \in N : n.kind # k
        BY <1>1, <1>7, <2>1
      <3>2. QED
        BY <3>1, <1>1, <1>2, <1>3, <1>6, <2>1, OwnKind
    <2>3. Pending(requests', "gridDocs") /\ Newest(requests', "gridDocs") \subseteq N
      <3>1. \E n \in N : n.kind = "gridDocs"
        BY <1>6, <1>7
      <3>2. QED
        BY <3>1, <1>6, NewestSent
    <2>4. QED
      BY <1>2, <1>7, <1>11, <2>1, <2>2, <2>3 DEF ViewsInv, GridInv
  <1>17. QED
    BY <1>8, <1>9, <1>12, <1>13, <1>14, <1>15, <1>16 DEF ViewsInv

(* The child component asks for a document and its statistics.             *)
LEMMA SentChild ==
  ASSUME NEW open, NEW N, NEW B, Sends(open, N, B),
         \E n \in N : n.kind = "doc", \E n \in N : n.kind = "stats",
         \A n \in N : n.kind \in {"doc", "stats"} => n.about = latest'
  PROVE  DocInv' /\ StatsInv'
  <1>1. Pending(requests', "doc") /\ Newest(requests', "doc") \subseteq N
    BY NewestSent
  <1>2. Pending(requests', "stats") /\ Newest(requests', "stats") \subseteq N
    BY NewestSent
  <1>3. \A q \in Newest(requests', "doc") : q.about = latest'
    BY <1>1 DEF Newest
  <1>4. \A q \in Newest(requests', "stats") : q.about = latest'
    BY <1>2 DEF Newest
  <1>5. QED
    BY <1>1, <1>2, <1>3, <1>4 DEF DocInv, StatsInv

LEMMA ChildRequests ==
  ASSUME ViewsInv, NEW s \in Factories, NEW c \in Children
  PROVE  /\ ChildLink(s, c) \in Link
         /\ Fresh(request("doc", ChildLink(s, c))) /\ Fresh(request("stats", ChildLink(s, c)))
         /\ request("doc", ChildLink(s, c)).kind = "doc"
         /\ request("doc", ChildLink(s, c)).about = ChildLink(s, c)
         /\ request("stats", ChildLink(s, c)).kind = "stats"
         /\ request("stats", ChildLink(s, c)).about = ChildLink(s, c)
  <1>1. PICK a : a = ChildLink(s, c)
    OBVIOUS
  <1>2. a \in Link
    BY <1>1 DEF ChildLink, Link
  <1>3. /\ "doc" \in Kinds /\ a \in About["doc"]
        /\ "stats" \in Kinds /\ a \in About["stats"]
    BY <1>2 DEF Kinds, GridKinds, ChildKinds, About
  <1>4. QED
    BY <1>1, <1>2, <1>3, NewRequest

LEMMA OnSelectChildServiceStep ==
  ASSUME ViewsInv, NEW c \in Children, onSelectChildService(c)
  PROVE  ViewsInv'
  <1>1. PICK v, a, p, q, open, B :
          /\ v = selectedServiceId /\ a = ChildLink(v, c)
          /\ p = request("doc", a) /\ q = request("stats", a)
          /\ open = requests /\ B = disturbed
    OBVIOUS
  <1>2. /\ childServicesLinks # <<>> /\ route.view # "grid"
        /\ selectedChildServiceId' = c /\ latest' = a /\ SendAll(open, <<p, q>>, B)
        /\ selectedNode' = selectedNode /\ route' = route /\ redirected' = redirected
        /\ grid' = grid /\ serviceLinks' = serviceLinks /\ selectedServiceId' = selectedServiceId
        /\ childServicesLinks' = childServicesLinks /\ nextPageLink' = nextPageLink
        /\ locked' = locked /\ createTarget' = createTarget /\ createBody' = createBody
        /\ child' = child
    BY <1>1 DEF onSelectChildService, childGetData, Send
  <1>3. v \in Factories
    BY <1>1, <1>2, RouteFields DEF ViewsInv, ViewTypes, RouteInv
  <1>4. /\ a \in Link /\ Fresh(p) /\ p.kind = "doc" /\ p.about = a
        /\ Fresh(q) /\ q.kind = "stats" /\ q.about = a
    BY <1>1, <1>3, ChildRequests
  <1>5. open \subseteq requests /\ B \subseteq Kinds
    BY <1>1 DEF ViewsInv, ViewTypes
  <1>6. PICK N : /\ Sends(open, N, B)
                 /\ \A n \in N : Like(n, p) \/ Like(n, q)
                 /\ \E n \in N : Like(n, p)
                 /\ \E n \in N : Like(n, q)
    BY <1>2, <1>4, <1>5, SendTwo
  <1>7. /\ \A n \in N : n.kind \in {"doc", "stats"} /\ n.about = a
        /\ \E n \in N : n.kind = "doc"
        /\ \E n \in N : n.kind = "stats"
    BY <1>4, <1>6 DEF Like
  <1>8. /\ \A x \in requests' : IsRequest(x)
        /\ sent' \in 0 .. MaxRequests /\ disturbed' \subseteq Kinds /\ IdInv'
    BY <1>5, <1>6, TrafficKept
  <1>9. ViewTypes'
    BY <1>2, <1>4, <1>8 DEF ViewsInv, ViewTypes
  <1>10. \A x \in requests' : x \in requests \/ x.kind \in {"doc", "stats"}
    BY <1>5, <1>6, <1>7 DEF Sends
  <1>11. child # None
    BY <1>2 DEF ViewsInv, ChildInv
  <1>12. RouteInv' /\ ChildInv'
    BY <1>2, <1>10, <1>11 DEF ViewsInv, RouteInv, ChildInv, GridKinds, ChildKinds
  <1>13. PageInv' /\ OnePageRequest'
    BY <1>2, <1>10 DEF ViewsInv, PageInv, OnePageRequest
  <1>14. DialogsMatchView' /\ GridInv'
    BY <1>2 DEF ViewsInv, DialogsMatchView, GridInv
  <1>15. DocInv' /\ StatsInv'
    BY <1>2, <1>6, <1>7, SentChild
  <1>16. ListInv'
    <2>1. Same("list")
      BY <1>1, <1>6, <1>7, SameKind
    <2>2. QED
      BY <2>1, <1>2, ListKept DEF ViewsInv
  <1>17. QED
    BY <1>8, <1>9, <1>12, <1>13, <1>14, <1>15, <1>16 DEF ViewsInv

(* An answer makes other links visible: requests of other kinds than the   *)
(* child component's stay, and only the child component sends some.        *)
LEMMA LinksShown ==
  ASSUME ViewsInv, NEW r \in requests, r.kind \in {"list", "page"}, NEW open, NEW N, NEW B,
         B = Overtaking(r), open \subseteq requests \ {r}, Sends(open, N, B),
         \A q \in requests \ {r} : q.kind \notin ChildKinds => q \in open,
         \A n \in N : n.kind \in {"doc", "stats"}
  PROVE  /\ \A q \in requests' : IsRequest(q)
         /\ sent' \in 0 .. MaxRequests /\ disturbed' \subseteq Kinds /\ IdInv'
         /\ \A q \in requests' : q \in requests \ {r} \/ q.kind \in {"doc", "stats"}
         /\ r.kind = "page" => Same("list")
         /\ r.kind = "list" /\ "list" \notin disturbed' =>
                /\ "list" \notin disturbed /\ Pending(requests, "list")
                /\ Newest(requests', "list") \subseteq Newest(requests, "list")
                /\ ~Pending(requests', "list") => r \in Newest(requests, "list")
  <1>1. /\ open \subseteq requests /\ (\A q \in requests : IsRequest(q))
        /\ \A k : k \in disturbed => k \in B
    BY OvertakingType DEF ViewsInv, ViewTypes
  <1>2. /\ \A q \in requests' : IsRequest(q)
        /\ sent' \in 0 .. MaxRequests /\ disturbed' \subseteq Kinds /\ IdInv'
    BY <1>1, TrafficKept
  <1>3. \A q \in requests' : q \in requests \ {r} \/ q.kind \in {"doc", "stats"}
    BY DEF Sends
  <1>4. PICK k : k = "list"
    OBVIOUS
  <1>5. /\ \A n \in N : n.kind # k
        /\ \A q \in requests \ {r} : q.kind = k => q \in open
    BY <1>4 DEF ChildKinds
  <1>6. ASSUME r.kind = "page"
        PROVE  Same("list")
    <2>1. \A q \in requests : q.kind = k => q \in open
      BY <1>4, <1>5, <1>6
    <2>2. k \notin B => k \notin disturbed
      BY <1>1
    <2>3. QED
      BY <1>1, <1>4, <1>5, <2>1, <2>2, SameKind
  <1>7. ASSUME r.kind = "list", "list" \notin disturbed'
        PROVE  /\ "list" \notin disturbed /\ Pending(requests, "list")
               /\ Newest(requests', "list") \subseteq Newest(requests, "list")
               /\ ~Pending(requests', "list") => r \in Newest(requests, "list")
    BY <1>1, <1>4, <1>5, <1>7, OwnKind
  <1>8. QED
    BY <1>2, <1>3, <1>6, <1>7

LEMMA ShowLinks ==
  ASSUME ViewsInv, NEW r \in requests, r.kind \in {"list", "page"}, NEW list, showLinks(r, list)
  PROVE  /\ \A q \in requests' : IsRequest(q)
         /\ sent' \in 0 .. MaxRequests /\ disturbed' \subseteq Kinds /\ IdInv'
         /\ \A q \in requests' : q \in requests \ {r} \/ q.kind \in {"doc", "stats"}
         /\ r.kind = "page" => Same("list")
         /\ r.kind = "list" /\ "list" \notin disturbed' =>
                /\ "list" \notin disturbed /\ Pending(requests, "list")
                /\ Newest(requests', "list") \subseteq Newest(requests, "list")
                /\ ~Pending(requests', "list") => r \in Newest(requests, "list")
         /\ childServicesLinks' = list
         /\ child' \in ChildView \cup {None} /\ latest' \in Link \cup {None}
         /\ child' # None <=> list # <<>>
         /\ latest' # None => child' # None
         /\ \A q \in requests' : q.kind \in ChildKinds => child' # None
         /\ child' # None => child'.editTarget = child'.doc /\ child'.deleteTarget = child'.doc
         /\ DocInv' /\ StatsInv'
  <1>1. PICK B : B = Overtaking(r)
    OBVIOUS
  <1>2. /\ B \subseteq Kinds /\ \A k : k \in disturbed => k \in B
    BY <1>1, OvertakingType
  <1>3. CASE list = <<>>
    <2>1. PICK open, N : open = {q \in requests \ {r} : q.kind \notin ChildKinds} /\ N = {}
      OBVIOUS
    <2>2. /\ childServicesLinks' = list /\ child' = None /\ latest' = None
          /\ SendAll(open, <<>>, B)
      BY <1>1, <1>3, <2>1 DEF showLinks
    <2>3. open \subseteq requests \ {r} /\ open \subseteq requests
      BY <2>1
    <2>4. Sends(open, N, B)
      BY <2>1, <2>2, <2>3, <1>2, SendNone
    <2>5. requests' = open
      BY <2>1, <2>4 DEF Sends
    <2>6. \A q \in requests' : q.kind \notin ChildKinds
      BY <2>1, <2>5
    <2>7. DocInv' /\ StatsInv'
      BY <2>2 DEF DocInv, StatsInv
    <2>8. /\ \A q \in requests \ {r} : q.kind \notin ChildKinds => q \in open
          /\ \A n \in N : n.kind \in {"doc", "stats"}
      BY <2>1
    <2>9. QED
      BY <1>1, <1>3, <2>2, <2>3, <2>4, <2>6, <2>7, <2>8, LinksShown
  <1>4. CASE list # <<>> /\ child = None /\ selectedChildServiceId # None
    <2>1. PICK s, c, a, p, q, open :
            /\ s = selectedServiceId /\ c = selectedChildServiceId /\ a = ChildLink(s, c)
            /\ p = request("doc", a) /\ q = request("stats", a) /\ open = requests \ {r}
      OBVIOUS
    <2>2. /\ childServicesLinks' = list /\ child' = NewChildView /\ latest' = a
          /\ SendAll(open, <<p, q>>, B)
      BY <1>1, <1>4, <2>1 DEF showLinks, Answer, childGetData
    <2>3. route.view # "grid"
      BY DEF ViewsInv, RouteInv, GridKinds
    <2>4. s \in Factories /\ c \in Children
      BY <1>4, <2>1, <2>3, RouteFields DEF ViewsInv, ViewTypes, RouteInv
    <2>5. /\ a \in Link /\ Fresh(p) /\ p.kind = "doc" /\ p.about = a
          /\ Fresh(q) /\ q.kind = "stats" /\ q.about = a
      BY <2>1, <2>4, ChildRequests
    <2>6. open \subseteq requests \ {r} /\ open \subseteq requests
      BY <2>1
    <2>7. PICK N : /\ Sends(open, N, B)
                   /\ \A n \in N : Like(n, p) \/ Like(n, q)
                   /\ \E n \in N : Like(n, p)
                   /\ \E n \in N : Like(n, q)
      BY <2>2, <2>5, <2>6, <1>2, SendTwo
    <2>8. /\ \A n \in N : n.kind \in {"doc", "stats"} /\ n.about = a
          /\ \E n \in N : n.kind = "doc"
          /\ \E n \in N : n.kind = "stats"
      BY <2>5, <2>7 DEF Like
    <2>9. DocInv' /\ StatsInv'
      BY <2>2, <2>7, <2>8, SentChild
    <2>10. /\ child' \in ChildView /\ child'.editTarget = None /\ child'.deleteTarget = None
           /\ child'.doc = None
      BY <2>2 DEF NewChildView, ChildView
    <2>11. child' # None
      BY <2>10, NoneAssumption
    <2>12. \A x \in requests \ {r} : x.kind \notin ChildKinds => x \in open
      BY <2>1
    <2>13. QED
      BY <1>1, <1>4, <2>2, <2>5, <2>6, <2>7, <2>8, <2>9, <2>10, <2>11, <2>12, LinksShown
  <1>5. CASE list # <<>> /\ ~(child = None /\ selectedChildServiceId # None)
    <2>1. PICK open, N : open = requests \ {r} /\ N = {}
      OBVIOUS
    <2>2. /\ childServicesLinks' = list /\ latest' = latest
          /\ child' = IF child = None THEN NewChildView ELSE child
          /\ Answer(r, <<>>)
      BY <1>5 DEF showLinks
    <2>3. SendAll(open, <<>>, B)
      BY <1>1, <2>1, <2>2 DEF Answer
    <2>4. open \subseteq requests \ {r} /\ open \subseteq requests
      BY <2>1
    <2>5. Sends(open, N, B)
      BY <2>1, <2>3, <2>4, <1>2, SendNone
    <2>6. /\ child' \in ChildView
          /\ child'.editTarget = child'.doc /\ child'.deleteTarget = child'.doc
      <3>1. CASE child = None
        BY <2>2, <3>1 DEF NewChildView, ChildView
      <3>2. CASE child # None
        BY <2>2, <3>2 DEF ViewsInv, ViewTypes, DialogsMatchView
      <3>3. QED
        BY <3>1, <3>2
    <2>7. child' # None /\ (latest # None => child # None /\ child' = child)
      BY <2>2, <2>6, NoneAssumption DEF ViewsInv, ChildInv
    <2>8. Same("doc") /\ Same("stats")
      BY <2>2, AnswerNone
    <2>9. DocInv' /\ StatsInv'
      BY <2>2, <2>7, <2>8, DocKept, StatsKept DEF ViewsInv
    <2>10. latest' \in Link \cup {None}
      BY <2>2 DEF ViewsInv, ViewTypes
    <2>11. /\ \A q \in requests \ {r} : q.kind \notin ChildKinds => q \in open
           /\ \A n \in N : n.kind \in {"doc", "stats"}
      BY <2>1
    <2>12. QED
      BY <1>1, <1>5, <2>2, <2>4, <2>5, <2>6, <2>7, <2>9, <2>10, <2>11, LinksShown
  <1>6. QED
    BY <1>3, <1>4, <1>5

(* The first page of the selected service replaces the list.               *)
LEMMA OnListStep ==
  ASSUME ViewsInv, NEW r \in requests, onList(r)
  PROVE  ViewsInv'
  <1>1. PICK s, list : /\ s = r.about
                       /\ list = IF PagesOf[s] = 0 THEN <<>> ELSE <<[svc |-> s, page |-> 1]>>
    OBVIOUS
  <1>2. /\ r.kind = "list" /\ showLinks(r, list)
        /\ nextPageLink' = IF PagesOf[s] > 1 THEN [svc |-> s, page |-> 2] ELSE nextPageLink
        /\ selectedNode' = selectedNode /\ route' = route /\ redirected' = redirected
        /\ grid' = grid /\ serviceLinks' = serviceLinks /\ selectedServiceId' = selectedServiceId
        /\ selectedChildServiceId' = selectedChildServiceId
        /\ locked' = locked /\ createTarget' = createTarget /\ createBody' = createBody
    BY <1>1 DEF onList
  <1>3. s \in Factories
    BY <1>1, <1>2, RequestAbout DEF ViewsInv, ViewTypes
  <1>4. PagesOf[s] \in Nat
    BY <1>3, ServiceViewsAssumption
  <1>5. list \in Seq(Page) /\ (PagesOf[s] = 0 => list = <<>>)
        /\ (PagesOf[s] # 0 => list # <<>> /\ list[1] = [svc |-> s, page |-> 1])
    <2>1. PICK e : e = [svc |-> s, page |-> 1]
      OBVIOUS
    <2>2. e \in Page
      BY <2>1, <1>3 DEF Page
    <2>3. <<e>> \in Seq(Page) /\ <<e>> # <<>> /\ <<e>>[1] = e
      BY <2>2
    <2>4. QED
      BY <1>1, <2>1, <2>3
  <1>6. /\ \A q \in requests' : IsRequest(q)
        /\ sent' \in 0 .. MaxRequests /\ disturbed' \subseteq Kinds /\ IdInv'
        /\ \A q \in requests' : q \in requests \ {r} \/ q.kind \in {"doc", "stats"}
        /\ "list" \notin disturbed' =>
                /\ "list" \notin disturbed /\ Pending(requests, "list")
                /\ Newest(requests', "list") \subseteq Newest(requests, "list")
                /\ ~Pending(requests', "list") => r \in Newest(requests, "list")
        /\ childServicesLinks' = list
        /\ child' \in ChildView \cup {None} /\ latest' \in Link \cup {None}
        /\ (child' # None <=> list # <<>>) /\ (latest' # None => child' # None)
        /\ \A q \in requests' : q.kind \in ChildKinds => child' # None
        /\ child' # None => child'.editTarget = child'.doc /\ child'.deleteTarget = child'.doc
        /\ DocInv' /\ StatsInv'
    BY <1>2, ShowLinks
  <1>7. nextPageLink' \in Page \cup {None} /\ (nextPageLink' # None => nextPageLink'.page > 1)
    <2>1. CASE PagesOf[s] > 1
      BY <1>2, <1>3, <2>1 DEF Page
    <2>2. CASE ~(PagesOf[s] > 1)
      BY <1>2, <2>2 DEF ViewsInv, ViewTypes, PageInv
    <2>3. QED
      BY <2>1, <2>2
  <1>8. ViewTypes'
    BY <1>2, <1>5, <1>6, <1>7 DEF ViewsInv, ViewTypes
  <1>9. route.view # "grid"
    BY <1>2 DEF ViewsInv, RouteInv, GridKinds
  <1>10. RouteInv' /\ ChildInv'
    BY <1>2, <1>6, <1>9 DEF ViewsInv, RouteInv, ChildInv, GridKinds
  <1>11. PageInv' /\ OnePageRequest'
    <2>1. /\ NoneTwice(list)
          /\ \A p \in Page : p.page > 1 /\ p.page =< PagesOf[p.svc] => ComesNext(p, list)
      BY <1>1, EmptyList, FirstPage
    <2>2. \A q \in requests' : q.kind = "page" =>
             locked /\ q.about.page > 1 /\ ComesNext(q.about, list)
      <3>1. SUFFICES ASSUME NEW q \in requests, q.kind = "page"
                     PROVE  locked /\ q.about.page > 1 /\ ComesNext(q.about, list)
        BY <1>6
      <3>2. /\ locked /\ q.about.page > 1 /\ q.about.page =< PagesOf[q.about.svc]
            /\ q.about \in Page
        BY <3>1, RequestAbout DEF ViewsInv, ViewTypes, PageInv, ComesNext
      <3>3. QED
        BY <2>1, <3>2
    <2>3. nextPageLink' # None => nextPageLink'.page > 1 /\ ComesNext(nextPageLink', list)
      <3>1. SUFFICES ASSUME nextPageLink' # None
                     PROVE  nextPageLink'.page > 1 /\ ComesNext(nextPageLink', list)
        OBVIOUS
      <3>2. /\ nextPageLink' \in Page /\ nextPageLink'.page > 1
            /\ nextPageLink'.page =< PagesOf[nextPageLink'.svc]
        <4>1. CASE PagesOf[s] > 1
          BY <1>2, <1>4, <1>7, <3>1, <4>1
        <4>2. CASE ~(PagesOf[s] > 1)
          BY <1>2, <1>7, <3>1, <4>2 DEF ViewsInv, PageInv, ComesNext
        <4>3. QED
          BY <4>1, <4>2
      <3>3. QED
        BY <2>1, <3>2
    <2>4. PageInv'
      BY <1>2, <1>6, <2>1, <2>2, <2>3 DEF PageInv
    <2>5. OnePageRequest'
      BY <1>6 DEF ViewsInv, OnePageRequest
    <2>6. QED
      BY <2>4, <2>5
  <1>12. DialogsMatchView' /\ GridInv'
    BY <1>2, <1>6, <1>9 DEF ViewsInv, DialogsMatchView, GridInv
  <1>13. ListInv'
    <2>1. SUFFICES ASSUME "list" \notin disturbed'
                   PROVE  IF Pending(requests', "list")
                          THEN \A q \in Newest(requests', "list") : q.about = selectedServiceId'
                          ELSE ListSettled'
      BY DEF ListInv
    <2>2. \A q \in Newest(requests, "list") : q.about = selectedServiceId
      BY <1>6, <1>9, <2>1 DEF ViewsInv, ListInv
    <2>3. CASE Pending(requests', "list")
      BY <1>2, <1>6, <2>1, <2>2, <2>3
    <2>4. CASE ~Pending(requests', "list")
      <3>1. selectedServiceId' = s
        BY <1>1, <1>2, <1>6, <2>1, <2>2, <2>4
      <3>2. PagesOf[s] = 0 => \A i \in 1 .. Len(list) : FALSE
        BY <1>5
      <3>3. ListSettled'
        BY <1>5, <1>6, <3>1, <3>2 DEF ListSettled
      <3>4. QED
        BY <2>4, <3>3
    <2>5. QED
      BY <2>3, <2>4
  <1>14. QED
    BY <1>6, <1>8, <1>10, <1>11, <1>12, <1>13 DEF ViewsInv

(* A next page is appended, to whichever list is there by now.             *)
LEMMA PageAppended ==
  ASSUME ViewsInv, NEW r \in requests, r.kind = "page", NEW old, NEW list,
         old = childServicesLinks, list = Append(old, r.about)
  PROVE  /\ list \in Seq(Page) /\ list # <<>> /\ Len(list) = Len(old) + 1
         /\ \A i \in 1 .. Len(old) : list[i] = old[i]
         /\ list[Len(list)] = r.about /\ old \in Seq(Page) /\ Len(old) \in Nat
         /\ r.about \in Page /\ r.about.page > 1
  <1>1. r.about \in Page /\ r.about.page > 1
    BY RequestAbout DEF ViewsInv, ViewTypes, PageInv
  <1>2. old \in Seq(Page) /\ Len(old) \in Nat
    BY DEF ViewsInv, ViewTypes
  <1>3. /\ list \in Seq(Page) /\ Len(list) = Len(old) + 1
        /\ \A i \in 1 .. Len(old) : list[i] = old[i]
        /\ list[Len(old) + 1] = r.about
    BY <1>1, <1>2, AppendProperties
  <1>4. list # <<>>
    BY <1>2, <1>3
  <1>5. QED
    BY <1>1, <1>2, <1>3, <1>4

LEMMA OnPageStep ==
  ASSUME ViewsInv, NEW r \in requests, NEW empty \in BOOLEAN, onPage(r, empty)
  PROVE  ViewsInv'
  <1>1. /\ r.kind = "page"
        /\ selectedNode' = selectedNode /\ route' = route /\ redirected' = redirected
        /\ grid' = grid /\ serviceLinks' = serviceLinks /\ selectedServiceId' = selectedServiceId
        /\ selectedChildServiceId' = selectedChildServiceId
        /\ createTarget' = createTarget /\ createBody' = createBody
    BY DEF onPage
  <1>2. route.view # "grid"
    BY <1>1 DEF ViewsInv, RouteInv, GridKinds
  <1>3. CASE empty
    <2>1. /\ Answer(r, <<>>) /\ childServicesLinks' = childServicesLinks
          /\ nextPageLink' = nextPageLink /\ locked' = locked
          /\ child' = child /\ latest' = latest
      BY <1>3 DEF onPage
    <2>2. /\ requests' = requests \ {r} /\ \A q \in requests' : IsRequest(q)
          /\ sent' \in 0 .. MaxRequests /\ disturbed' \subseteq Kinds /\ IdInv'
          /\ \A k : k # r.kind => Same(k)
      BY <2>1, AnswerNone
    <2>3. ViewTypes'
      BY <1>1, <2>1, <2>2 DEF ViewsInv, ViewTypes
    <2>4. RouteInv' /\ ChildInv' /\ PageInv' /\ OnePageRequest'
      BY <1>1, <2>1, <2>2, RequestsRemoved
    <2>5. DialogsMatchView'
      BY <1>1, <2>1 DEF ViewsInv, DialogsMatchView
    <2>6. Same("list") /\ Same("doc") /\ Same("stats") /\ Same("gridLinks") /\ Same("gridDocs")
      BY <1>1, <2>2
    <2>7. ListInv' /\ DocInv' /\ StatsInv' /\ GridInv'
      BY <1>1, <2>1, <2>6, ListKept, DocKept, StatsKept, GridKept DEF ViewsInv
    <2>8. QED
      BY <2>2, <2>3, <2>4, <2>5, <2>7 DEF ViewsInv
  <1>4. CASE ~empty
    <2>1. PICK old, list, s, n :
            /\ old = childServicesLinks /\ list = Append(old, r.about)
            /\ s = r.about.svc /\ n = r.about.page
      OBVIOUS
    <2>2. /\ locked' = FALSE /\ showLinks(r, list)
          /\ nextPageLink' = IF n < PagesOf[s] THEN [svc |-> s, page |-> n + 1]
                                               ELSE nextPageLink
      BY <1>4, <2>1 DEF onPage
    <2>3. /\ list \in Seq(Page) /\ list # <<>> /\ Len(list) = Len(old) + 1
          /\ \A i \in 1 .. Len(old) : list[i] = old[i]
          /\ list[Len(list)] = r.about /\ old \in Seq(Page) /\ Len(old) \in Nat
          /\ r.about \in Page /\ r.about.page > 1
      BY <1>1, <2>1, PageAppended
    <2>4. /\ \A q \in requests' : IsRequest(q)
          /\ sent' \in 0 .. MaxRequests /\ disturbed' \subseteq Kinds /\ IdInv'
          /\ \A q \in requests' : q \in requests \ {r} \/ q.kind \in {"doc", "stats"}
          /\ Same("list") /\ childServicesLinks' = list
          /\ child' \in ChildView \cup {None} /\ latest' \in Link \cup {None}
          /\ (child' # None <=> list # <<>>) /\ (latest' # None => child' # None)
          /\ \A q \in requests' : q.kind \in ChildKinds => child' # None
          /\ child' # None => child'.editTarget = child'.doc /\ child'.deleteTarget = child'.doc
          /\ DocInv' /\ StatsInv'
      BY <1>1, <2>2, ShowLinks
    <2>5. nextPageLink' \in Page \cup {None} /\ (nextPageLink' # None => nextPageLink'.page > 1)
      <3>1. s \in Factories /\ n \in Nat /\ n > 1
        BY <2>1, <2>3 DEF Page
      <3>2. CASE n < PagesOf[s]
        BY <2>2, <3>1, <3>2 DEF Page
      <3>3. CASE ~(n < PagesOf[s])
        BY <2>2, <3>3 DEF ViewsInv, ViewTypes, PageInv
      <3>4. QED
        BY <3>2, <3>3
    <2>6. ViewTypes'
      BY <1>1, <2>2, <2>3, <2>4, <2>5 DEF ViewsInv, ViewTypes
    <2>7. RouteInv' /\ ChildInv'
      BY <1>1, <1>2, <2>4 DEF ViewsInv, RouteInv, ChildInv, GridKinds
    <2>8. \A q \in requests' : q.kind # "page"
      BY <1>1, <2>4 DEF ViewsInv, OnePageRequest
    <2>9. PageInv' /\ OnePageRequest'
      <3>1. PICK p : p = r.about
        OBVIOUS
      <3>2. /\ p \in Page /\ ComesNext(p, old) /\ NoneTwice(old)
            /\ nextPageLink # None => nextPageLink \in Page /\ ComesNext(nextPageLink, old)
        BY <1>1, <2>1, <2>3, <3>1 DEF ViewsInv, ViewTypes, PageInv
      <3>3. /\ NoneTwice(list)
            /\ \A q \in Page : q.svc = p.svc /\ q.page = p.page + 1 /\ p.page < PagesOf[p.svc]
                  => ComesNext(q, list)
            /\ \A q \in Page : ComesNext(q, old) /\ ~(p.page < PagesOf[p.svc])
                  => ComesNext(q, list)
        BY <2>3, <3>1, <3>2, NextAppended
      <3>4. nextPageLink' # None => ComesNext(nextPageLink', list)
        <4>1. CASE n < PagesOf[s]
          <5>1. PICK q : q = [svc |-> s, page |-> n + 1]
            OBVIOUS
          <5>2. q \in Page /\ q.svc = p.svc /\ q.page = p.page + 1
            BY <2>1, <3>1, <3>2, <5>1 DEF Page
          <5>3. nextPageLink' = q /\ p.page < PagesOf[p.svc]
            BY <2>1, <2>2, <3>1, <4>1, <5>1
          <5>4. QED
            BY <3>3, <5>2, <5>3
        <4>2. CASE ~(n < PagesOf[s])
          <5>1. nextPageLink' = nextPageLink /\ ~(p.page < PagesOf[p.svc])
            BY <2>1, <2>2, <3>1, <4>2
          <5>2. QED
            BY <3>2, <3>3, <5>1
        <4>3. QED
          BY <4>1, <4>2
      <3>5. QED
        BY <2>4, <2>5, <2>8, <3>3, <3>4 DEF PageInv, OnePageRequest
    <2>10. DialogsMatchView' /\ GridInv'
      BY <1>1, <1>2, <2>4 DEF ViewsInv, DialogsMatchView, GridInv
    <2>11. ListSettled => ListSettled'
      <3>1. CASE PagesOf[selectedServiceId] = 0
        <4>1. SUFFICES ASSUME ListSettled, NEW i \in 1 .. Len(list)
                       PROVE  list[i].page > 1
          BY <1>1, <2>4, <3>1 DEF ListSettled
        <4>2. i \in 1 .. Len(old) \/ i = Len(list)
          BY <2>3
        <4>3. i \in 1 .. Len(old) => old[i].page > 1
          BY <2>1, <3>1, <4>1 DEF ListSettled
        <4>4. QED
          BY <2>3, <4>2, <4>3
      <3>2. CASE PagesOf[selectedServiceId] # 0
        <4>1. old # <<>> => 1 \in 1 .. Len(old)
          BY <2>3
        <4>2. QED
          BY <1>1, <2>1, <2>3, <2>4, <3>2, <4>1 DEF ListSettled
      <3>3. QED
        BY <3>1, <3>2
    <2>12. ListInv'
      BY <1>1, <2>4, <2>11 DEF ViewsInv, ListInv, Same
    <2>13. QED
      BY <2>4, <2>6, <2>7, <2>9, <2>10, <2>12 DEF ViewsInv
  <1>5. QED
    BY <1>3, <1>4

-----------------------------------------------------------------------------
(* The parameters of the route change.                                     *)

(* The requests of the detail page and of its child component, in order.   *)
LEMMA ConcatOne ==
  ASSUME NEW p, NEW l
  PROVE  <<p>> \o <<l>> = <<p, l>>
  <1>1. PICK a, b, c : a = <<p>> /\ b = <<l>> /\ c = <<p, l>>
    OBVIOUS
  <1>2. PICK S : S = {p, l}
    OBVIOUS
  <1>3. /\ a \in Seq(S) /\ b \in Seq(S) /\ c \in Seq(S)
        /\ Len(a) = 1 /\ Len(b) = 1 /\ Len(c) = 2
        /\ a[1] = p /\ b[1] = l /\ c[1] = p /\ c[2] = l
    BY <1>1, <1>2
  <1>4. /\ a \o b \in Seq(S) /\ Len(a \o b) = 2
        /\ (a \o b)[1] = p /\ (a \o b)[2] = l
    BY <1>3, ConcatProperties
  <1>5. \A i \in 1 .. Len(a \o b) : (a \o b)[i] = c[i]
    <2>1. \A i \in 1 .. 2 : i = 1 \/ i = 2
      OBVIOUS
    <2>2. QED
      BY <1>3, <1>4, <2>1
  <1>6. a \o b = c
    BY <1>3, <1>4, <1>5, SeqEqual
  <1>7. QED
    BY <1>1, <1>6

LEMMA ConcatTwo ==
  ASSUME NEW p, NEW l, NEW m
  PROVE  <<p>> \o <<l, m>> = <<p, l, m>>
  <1>1. PICK a, b, c : a = <<p>> /\ b = <<l, m>> /\ c = <<p, l, m>>
    OBVIOUS
  <1>2. PICK S : S = {p, l, m}
    OBVIOUS
  <1>3. /\ a \in Seq(S) /\ b \in Seq(S) /\ c \in Seq(S)
        /\ Len(a) = 1 /\ Len(b) = 2 /\ Len(c) = 3
        /\ a[1] = p /\ b[1] = l /\ b[2] = m /\ c[1] = p /\ c[2] = l /\ c[3] = m
    BY <1>1, <1>2
  <1>4. /\ a \o b \in Seq(S) /\ Len(a \o b) = 3
        /\ (a \o b)[1] = p /\ (a \o b)[2] = l /\ (a \o b)[3] = m
    <2>1. /\ a \o b \in Seq(S) /\ Len(a \o b) = Len(a) + Len(b)
          /\ \A i \in 1 .. Len(a) + Len(b) :
                (a \o b)[i] = IF i <= Len(a) THEN a[i] ELSE b[i - Len(a)]
      BY <1>3, ConcatProperties
    <2>2. (a \o b)[1] = a[1]
      BY <1>3, <2>1
    <2>3. (a \o b)[2] = b[1]
      BY <1>3, <2>1
    <2>4. (a \o b)[3] = b[2]
      BY <1>3, <2>1
    <2>5. QED
      BY <1>3, <2>1, <2>2, <2>3, <2>4
  <1>5. \A i \in 1 .. Len(a \o b) : (a \o b)[i] = c[i]
    <2>1. \A i \in 1 .. 3 : i = 1 \/ i = 2 \/ i = 3
      OBVIOUS
    <2>2. QED
      BY <1>3, <1>4, <2>1
  <1>6. a \o b = c
    BY <1>3, <1>4, <1>5, SeqEqual
  <1>7. QED
    BY <1>1, <1>6

LEMMA ConcatEmpty ==
  ASSUME NEW p, NEW l
  PROVE  /\ (<<>> \o <<l>>) = <<l>>
         /\ <<l>> \o <<>> = <<l>>
         /\ <<p, l>> \o <<>> = <<p, l>>
  <1>1. PICK S, a, b : S = {p, l} /\ a = <<l>> /\ b = <<p, l>>
    OBVIOUS
  <1>2. a \in Seq(S) /\ b \in Seq(S)
    BY <1>1
  <1>3. <<>> \o a = a /\ a \o <<>> = a /\ b \o <<>> = b
    BY <1>2, ConcatEmptySeq
  <1>4. QED
    BY <1>1, <1>3

(* N carries the requests S.                                               *)
Carries(N, S) ==
    /\ \A n \in N : \E q \in S : Like(n, q)
    /\ \A q \in S : \E n \in N : Like(n, q)

LEMMA SendThree ==
  ASSUME ViewsInv, NEW open, open \subseteq requests, NEW before, before \subseteq Kinds,
         NEW p, NEW q, NEW t, Fresh(p), Fresh(q), Fresh(t), SendAll(open, <<p, q, t>>, before)
  PROVE  \E N : Sends(open, N, before) /\ Carries(N, {p, q, t})
  <1>1. PICK seq : seq = <<p, q, t>>
    OBVIOUS
  <1>2. /\ Len(seq) = 3 /\ seq[1] = p /\ seq[2] = q /\ seq[3] = t
        /\ \A i \in 1 .. Len(seq) : i = 1 \/ i = 2 \/ i = 3
    BY <1>1
  <1>3. /\ \A x \in open : IsRequest(x) /\ x.id =< sent
        /\ sent \in 0 .. MaxRequests
    BY DEF ViewsInv, ViewTypes, IdInv
  <1>4. PICK N : /\ Sends(open, N, before)
                 /\ \A n \in N : \E i \in 1 .. Len(seq) : Like(n, seq[i])
                 /\ \A i \in 1 .. Len(seq) : \E n \in N : Like(n, seq[i])
    <2>1. SendAll(open, seq, before) /\ \A i \in 1 .. Len(seq) : Fresh(seq[i])
      BY <1>1, <1>2
    <2>2. Len(seq) \in Nat
      BY <1>2
    <2>3. QED
      BY <1>3, <2>1, <2>2, SendFacts
  <1>5. /\ \A n \in N : Like(n, p) \/ Like(n, q) \/ Like(n, t)
        /\ \E n \in N : Like(n, p)
        /\ \E n \in N : Like(n, q)
        /\ \E n \in N : Like(n, t)
    <2>1. 1 \in 1 .. Len(seq) /\ 2 \in 1 .. Len(seq) /\ 3 \in 1 .. Len(seq)
      BY <1>2
    <2>2. QED
      BY <1>2, <1>4, <2>1
  <1>6. Carries(N, {p, q, t})
    BY <1>5 DEF Carries
  <1>7. QED
    BY <1>4, <1>6

(* What is kept and asked for when the parameters change: reload when the  *)
(* child component loads data, keep when the component has service links.  *)
ParamsRequests(N, rt, reload) ==
    /\ \A n \in N : /\ n.kind \in {"links", "list", "doc", "stats"}
                    /\ n.kind = "list" => n.about = rt.svc
                    /\ n.kind \in {"doc", "stats"} =>
                          reload /\ n.about = ChildLink(rt.svc, rt.child)
    /\ \E n \in N : n.kind = "list"
    /\ reload => (\E n \in N : n.kind = "doc") /\ \E n \in N : n.kind = "stats"

LEMMA ParamsSent ==
  ASSUME ViewsInv, NEW rt \in Route, paramsChanged(rt), NEW keep, NEW reload, NEW open,
         keep = serviceLinks,
         reload = (keep /\ child # None /\ rt.child # None /\ rt.child # selectedChildServiceId),
         open = {q \in requests : keep \/ q.kind \notin ChildKinds}
  PROVE  \E N : Sends(open, N, disturbed) /\ ParamsRequests(N, rt, reload)
  <1>1. PICK l, p, B : /\ l = request("list", rt.svc) /\ p = request("links", None)
                       /\ B = disturbed
    OBVIOUS
  <1>2. rt.view # "grid" /\ rt.svc \in Factories
    BY RouteFields DEF paramsChanged
  <1>3. SendAll(open,
                (IF keep THEN <<>> ELSE <<p>>) \o <<l>>
                   \o (IF reload THEN childGetData(rt.svc, rt.child) ELSE <<>>), B)
    BY <1>1 DEF paramsChanged
  <1>4. /\ Fresh(p) /\ p.kind = "links"
        /\ Fresh(l) /\ l.kind = "list" /\ l.about = rt.svc
    <2>1. /\ "links" \in Kinds /\ None \in About["links"]
          /\ "list" \in Kinds /\ rt.svc \in About["list"]
      BY <1>2 DEF Kinds, GridKinds, About
    <2>2. QED
      BY <1>1, <2>1, NewRequest
  <1>5. open \subseteq requests /\ B \subseteq Kinds
    BY <1>1 DEF ViewsInv, ViewTypes
  <1>6. CASE reload
    <2>1. PICK a, d, t : /\ a = ChildLink(rt.svc, rt.child)
                         /\ d = request("doc", a) /\ t = request("stats", a)
      OBVIOUS
    <2>2. keep /\ rt.child \in Children
      BY <1>6, RouteFields
    <2>3. /\ Fresh(d) /\ d.kind = "doc" /\ d.about = a
          /\ Fresh(t) /\ t.kind = "stats" /\ t.about = a
      BY <1>2, <2>1, <2>2, ChildRequests
    <2>4. childGetData(rt.svc, rt.child) = <<d, t>>
      BY <2>1 DEF childGetData
    <2>5. <<>> \o <<l>> = <<l>> /\ <<l>> \o <<d, t>> = <<l, d, t>>
      BY ConcatEmpty, ConcatTwo
    <2>6. SendAll(open, <<l, d, t>>, B)
      BY <1>3, <1>6, <2>2, <2>4, <2>5
    <2>7. PICK N : Sends(open, N, B) /\ Carries(N, {l, d, t})
      BY <1>4, <1>5, <2>3, <2>6, SendThree
    <2>8. \A n \in N : /\ n.kind \in {"links", "list", "doc", "stats"}
                       /\ n.kind = "list" => n.about = rt.svc
                       /\ n.kind \in {"doc", "stats"} => reload /\ n.about = a
      BY <1>4, <1>6, <2>3, <2>7 DEF Carries, Like
    <2>9. /\ \E n \in N : n.kind = "list"
          /\ \E n \in N : n.kind = "doc"
          /\ \E n \in N : n.kind = "stats"
      BY <1>4, <2>3, <2>7 DEF Carries, Like
    <2>10. ParamsRequests(N, rt, reload)
      BY <2>1, <2>8, <2>9 DEF ParamsRequests
    <2>11. QED
      BY <1>1, <2>7, <2>10
  <1>7. CASE keep /\ ~reload
    <2>1. <<>> \o <<l>> = <<l>> /\ <<l>> \o <<>> = <<l>>
      BY ConcatEmpty
    <2>2. SendAll(open, <<l>>, B)
      BY <1>3, <1>7, <2>1
    <2>3. PICK N : /\ Sends(open, N, B)
                   /\ \A n \in N : Like(n, l)
                   /\ \E n \in N : Like(n, l)
      BY <1>4, <1>5, <2>2, SendOne
    <2>4. /\ \A n \in N : n.kind = "list" /\ n.about = rt.svc
          /\ \E n \in N : n.kind = "list"
      BY <1>4, <2>3 DEF Like
    <2>5. ParamsRequests(N, rt, reload)
      BY <1>7, <2>4 DEF ParamsRequests
    <2>6. QED
      BY <1>1, <2>3, <2>5
  <1>8. CASE ~keep
    <2>1. ~reload
      BY <1>8
    <2>2. <<p>> \o <<l>> = <<p, l>> /\ <<p, l>> \o <<>> = <<p, l>>
      BY ConcatEmpty, ConcatOne
    <2>3. SendAll(open, <<p, l>>, B)
      BY <1>3, <1>8, <2>1, <2>2
    <2>4. PICK N : /\ Sends(open, N, B)
                   /\ \A n \in N : Like(n, p) \/ Like(n, l)
                   /\ \E n \in N : Like(n, l)
      BY <1>4, <1>5, <2>3, SendTwo
    <2>5. /\ \A n \in N : n.kind = "links" \/ (n.kind = "list" /\ n.about = rt.svc)
          /\ \E n \in N : n.kind = "list"
      BY <1>4, <2>4 DEF Like
    <2>6. ParamsRequests(N, rt, reload)
      BY <2>1, <2>5 DEF ParamsRequests
    <2>7. QED
      BY <1>1, <2>4, <2>6
  <1>9. QED
    BY <1>6, <1>7, <1>8

LEMMA ParamsChangedStep ==
  ASSUME ViewsInv, NEW rt \in Route, paramsChanged(rt)
  PROVE  ViewsInv'
  <1>1. PICK keep, reload, open :
          /\ keep = serviceLinks
          /\ reload = (keep /\ child # None /\ rt.child # None
                         /\ rt.child # selectedChildServiceId)
          /\ open = {q \in requests : keep \/ q.kind \notin ChildKinds}
    OBVIOUS
  <1>2. /\ rt.view # "grid" /\ rt.view = route.view /\ route' = rt /\ redirected' = FALSE
        /\ selectedServiceId' = rt.svc /\ selectedChildServiceId' = rt.child
        /\ createTarget' = rt.svc /\ createBody' = FALSE
        /\ childServicesLinks' = IF keep THEN childServicesLinks ELSE <<>>
        /\ child' = IF keep THEN child ELSE None
        /\ selectedNode' = selectedNode /\ grid' = grid /\ serviceLinks' = serviceLinks
        /\ nextPageLink' = nextPageLink /\ locked' = locked
    BY <1>1 DEF paramsChanged
  <1>3. /\ reload => latest' = ChildLink(rt.svc, rt.child)
        /\ keep /\ ~reload => latest' = latest
        /\ ~keep => latest' = None
    <2>1. latest' = CASE reload -> ChildLink(rt.svc, rt.child)
                      [] ~keep -> None
                      [] OTHER -> latest
      BY <1>1 DEF paramsChanged
    <2>2. keep \in BOOLEAN /\ reload \in BOOLEAN /\ (reload => keep)
      BY <1>1 DEF ViewsInv, ViewTypes
    <2>3. QED
      BY <2>1, <2>2
  <1>4. PICK B : B = disturbed
    OBVIOUS
  <1>5. PICK N : /\ Sends(open, N, B)
                 /\ \A n \in N : /\ n.kind \in {"links", "list", "doc", "stats"}
                                 /\ n.kind = "list" => n.about = rt.svc
                                 /\ n.kind \in {"doc", "stats"} =>
                                       reload /\ n.about = ChildLink(rt.svc, rt.child)
                 /\ \E n \in N : n.kind = "list"
                 /\ reload => (\E n \in N : n.kind = "doc") /\ \E n \in N : n.kind = "stats"
    <2>1. PICK N : Sends(open, N, disturbed) /\ ParamsRequests(N, rt, reload)
      BY <1>1, ParamsSent
    <2>2. Sends(open, N, B)
      BY <1>4, <2>1
    <2>3. QED
      BY <2>1, <2>2 DEF ParamsRequests
  <1>6. open \subseteq requests
    BY <1>1
  <1>7. /\ \A x \in requests' : IsRequest(x)
        /\ sent' \in 0 .. MaxRequests /\ disturbed' \subseteq Kinds /\ IdInv'
    BY <1>5, <1>6, TrafficKept
  <1>8. /\ rt.svc \in Factories /\ rt.child \in Children \cup {None}
        /\ reload => keep /\ child # None /\ rt.child # None
    BY <1>1, <1>2, RouteFields
  <1>9. ViewTypes'
    <2>1. latest' \in Link \cup {None}
      <3>1. CASE reload
        BY <1>3, <1>8, <3>1 DEF ChildLink, Link
      <3>2. CASE ~reload
        BY <1>3, <3>2 DEF ViewsInv, ViewTypes
      <3>3. QED
        BY <3>1, <3>2
    <2>2. childServicesLinks' \in Seq(Page) /\ child' \in ChildView \cup {None}
      <3>1. <<>> \in Seq(Page)
        OBVIOUS
      <3>2. QED
        BY <1>2, <3>1 DEF ViewsInv, ViewTypes
    <2>3. QED
      BY <1>2, <1>7, <1>8, <2>1, <2>2 DEF ViewsInv, ViewTypes
  <1>10. \A x \in requests' : \/ x \in requests /\ (keep \/ x.kind \notin ChildKinds)
                              \/ x.kind \in {"links", "list"}
                              \/ x.kind \in {"doc", "stats"} /\ reload
    BY <1>1, <1>5 DEF Sends
  <1>11. RouteInv'
    BY <1>2, <1>10 DEF ViewsInv, RouteInv, GridKinds
  <1>12. ChildInv'
    <2>1. CASE keep
      <3>1. /\ child' = child /\ childServicesLinks' = childServicesLinks
            /\ latest' # None => child # None
        BY <1>2, <1>3, <1>8, <2>1 DEF ViewsInv, ChildInv
      <3>2. \A x \in requests' : x.kind \in ChildKinds => child # None
        BY <1>8, <1>10 DEF ViewsInv, ChildInv, ChildKinds
      <3>3. QED
        BY <3>1, <3>2 DEF ViewsInv, ChildInv
    <2>2. CASE ~keep
      <3>1. \A x \in requests' : x.kind \notin ChildKinds
        BY <1>8, <1>10, <2>2 DEF ChildKinds
      <3>2. QED
        BY <1>2, <1>3, <2>2, <3>1 DEF ChildInv
    <2>3. QED
      BY <2>1, <2>2
  <1>13. PageInv' /\ OnePageRequest'
    <2>1. /\ \A p : ComesNext(p, childServicesLinks) => ComesNext(p, childServicesLinks')
          /\ NoneTwice(childServicesLinks')
      <3>1. CASE keep
        BY <1>2, <3>1 DEF ViewsInv, PageInv
      <3>2. CASE ~keep
        <4>1. \A p : ComesNext(p, childServicesLinks) => p.page =< PagesOf[p.svc]
          BY DEF ComesNext
        <4>2. QED
          BY <1>2, <3>2, <4>1, EmptyList
      <3>3. QED
        BY <3>1, <3>2
    <2>2. \A x \in requests' : x.kind = "page" => x \in requests
      BY <1>10
    <2>3. PageInv'
      BY <1>2, <2>1, <2>2 DEF ViewsInv, PageInv
    <2>4. OnePageRequest'
      BY <2>2 DEF ViewsInv, OnePageRequest
    <2>5. QED
      BY <2>3, <2>4
  <1>14. DialogsMatchView'
    BY <1>2 DEF ViewsInv, DialogsMatchView
  <1>15. GridInv'
    BY <1>2 DEF GridInv
  <1>16. ListInv'
    <2>1. Pending(requests', "list") /\ Newest(requests', "list") \subseteq N
      BY <1>5, NewestSent
    <2>2. \A x \in Newest(requests', "list") : x.about = rt.svc
      BY <2>1, <1>5 DEF Newest
    <2>3. QED
      BY <1>2, <2>1, <2>2 DEF ListInv
  <1>17. DocInv' /\ StatsInv'
    <2>1. CASE reload
      <3>1. /\ \E n \in N : n.kind = "doc"
            /\ \E n \in N : n.kind = "stats"
            /\ \A n \in N : n.kind \in {"doc", "stats"} => n.about = latest'
        BY <1>3, <1>5, <2>1
      <3>2. QED
        BY <1>5, <3>1, SentChild
    <2>2. CASE keep /\ ~reload
      <3>1. /\ child' = child /\ latest' = latest
            /\ \A n \in N : n.kind # "doc" /\ n.kind # "stats"
        BY <1>2, <1>3, <1>5, <2>2
      <3>2. \A x \in requests : x \in open
        BY <1>1, <2>2
      <3>3. \A k : k \notin B => k \notin disturbed
        BY <1>4
      <3>4. Same("doc")
        BY <1>5, <1>6, <3>1, <3>2, <3>3, SameKind
      <3>5. Same("stats")
        BY <1>5, <1>6, <3>1, <3>2, <3>3, SameKind
      <3>6. QED
        BY <3>1, <3>4, <3>5, DocKept, StatsKept DEF ViewsInv
    <2>3. CASE ~keep
      BY <1>2, <2>3 DEF DocInv, StatsInv
    <2>4. QED
      BY <2>1, <2>2, <2>3
  <1>18. QED
    BY <1>7, <1>9, <1>11, <1>12, <1>13, <1>14, <1>15, <1>16, <1>17 DEF ViewsInv

-----------------------------------------------------------------------------
(* The invariant and what follows from it.                                 *)
LEMMA ViewsNext == ViewsInv /\ [Next]_vars => ViewsInv'
  <1> SUFFICES ASSUME ViewsInv, [Next]_vars
               PROVE  ViewsInv'
    OBVIOUS
  <1>1. CASE openGrid
    BY <1>1, OpenGridStep
  <1>2. ASSUME NEW rt \in Route, openDetail(rt)
        PROVE  ViewsInv'
    BY <1>2, OpenDetailStep
  <1>3. ASSUME NEW rt \in Route, paramsChanged(rt)
        PROVE  ViewsInv'
    BY <1>3, ParamsChangedStep
  <1>4. ASSUME NEW n \in Nodes, setSelectedNode(n)
        PROVE  ViewsInv'
    BY <1>4, SetSelectedNodeStep
  <1>5. ASSUME NEW r \in requests, answered(r)
        PROVE  ViewsInv'
    <2>1. CASE onGridLinks(r)
      BY <2>1, OnGridLinksStep
    <2>2. CASE onGridDocs(r)
      BY <2>2, OnGridDocsStep
    <2>3. CASE onLinks(r)
      BY <2>3, OnLinksStep
    <2>4. CASE onList(r)
      BY <2>4, OnListStep
    <2>5. CASE onDoc(r)
      BY <2>5, OnDocStep
    <2>6. CASE onStats(r)
      BY <2>6, OnStatsStep
    <2>7. ASSUME NEW empty \in BOOLEAN, onPage(r, empty)
          PROVE  ViewsInv'
      BY <2>7, OnPageStep
    <2>8. CASE onChanged(r)
      BY <2>8, OnChangedStep
    <2>9. CASE onError(r)
      BY <2>9, OnErrorStep
    <2>10. QED
      BY <1>5, <2>1, <2>2, <2>3, <2>4, <2>5, <2>6, <2>7, <2>8, <2>9 DEF answered
  <1>6. ASSUME NEW c \in Children, onSelectChildService(c)
        PROVE  ViewsInv'
    BY <1>6, OnSelectChildServiceStep
  <1>7. CASE onLoadNextPage
    BY <1>7, OnLoadNextPageStep
  <1>8. CASE onEditChildService \/ onDeleteChildService \/ onCreateChildService
    BY <1>8, DialogsStep
  <1>9. ASSUME NEW b \in BOOLEAN, typeBody(b)
        PROVE  ViewsInv'
    BY <1>9, TypeBodyStep
  <1>10. CASE (\E r \in abandoned : onAbandoned(r)) \/ UNCHANGED vars
    <2>1. /\ selectedNode' = selectedNode /\ route' = route /\ redirected' = redirected
          /\ requests' = requests /\ sent' = sent /\ disturbed' = disturbed /\ grid' = grid
          /\ serviceLinks' = serviceLinks /\ selectedServiceId' = selectedServiceId
          /\ selectedChildServiceId' = selectedChildServiceId
          /\ childServicesLinks' = childServicesLinks /\ nextPageLink' = nextPageLink
          /\ locked' = locked /\ createTarget' = createTarget /\ createBody' = createBody
          /\ child' = child /\ latest' = latest
      BY <1>10 DEF onAbandoned, vars, traffic, detail
    <2>2. ViewTypes' /\ IdInv' /\ DialogsMatchView'
      BY <2>1 DEF ViewsInv, ViewTypes, IdInv, DialogsMatchView
    <2>3. RouteInv' /\ ChildInv' /\ PageInv' /\ OnePageRequest'
      BY <2>1, RequestsRemoved
    <2>4. \A k : Same(k)
      BY <2>1 DEF Same
    <2>5. ListInv' /\ DocInv' /\ StatsInv' /\ GridInv'
      BY <2>1, <2>4, ListKept, DocKept, StatsKept, GridKept DEF ViewsInv
    <2>6. QED
      BY <2>2, <2>3, <2>5 DEF ViewsInv
  <1>11. QED
    BY <1>1, <1>2, <1>3, <1>4, <1>5, <1>6, <1>7, <1>8, <1>9, <1>10 DEF Next

LEMMA ViewsInvariant == Spec => []ViewsInv
  BY ViewsInit, ViewsNext, PTL DEF Spec

(* A component that is destroyed leaves requests of its own behind.        *)
LEMMA AbandonedKept ==
  ASSUME ViewsInv, AbandonedOK, NEW gone, gone \subseteq requests, Abandon(gone)
  PROVE  AbandonedOK'
  BY DEF ViewsInv, ViewTypes, AbandonedOK, Abandon

LEMMA AbandonedNext ==
  ASSUME ViewsInv, AbandonedOK, [Next]_vars
  PROVE  AbandonedOK'
  <1>1. ASSUME abandoned' \subseteq abandoned
        PROVE  AbandonedOK'
    BY <1>1 DEF AbandonedOK
  <1>2. ASSUME NEW r, NEW list, showLinks(r, list)
        PROVE  AbandonedOK'
    <2>1. CASE list = <<>>
      <3>1. PICK gone : gone = {q \in requests \ {r} : q.kind \in ChildKinds}
        OBVIOUS
      <3>2. gone \subseteq requests /\ Abandon(gone)
        BY <1>2, <2>1, <3>1 DEF showLinks
      <3>3. QED
        BY <3>2, AbandonedKept
    <2>2. CASE list # <<>>
      BY <1>1, <1>2, <2>2 DEF showLinks
    <2>3. QED
      BY <2>1, <2>2
  <1>3. CASE openGrid
    BY <1>3, AbandonedKept DEF openGrid
  <1>4. ASSUME NEW rt \in Route, openDetail(rt)
        PROVE  AbandonedOK'
    BY <1>4, AbandonedKept DEF openDetail
  <1>5. ASSUME NEW rt \in Route, paramsChanged(rt)
        PROVE  AbandonedOK'
    <2>1. PICK gone : gone = {q \in requests : ~serviceLinks /\ q.kind \in ChildKinds}
      OBVIOUS
    <2>2. gone \subseteq requests /\ Abandon(gone)
      BY <1>5, <2>1 DEF paramsChanged
    <2>3. QED
      BY <2>2, AbandonedKept
  <1>6. ASSUME NEW r \in requests, answered(r)
        PROVE  AbandonedOK'
    <2>1. CASE onGridLinks(r) \/ onGridDocs(r) \/ onLinks(r) \/ onDoc(r) \/ onStats(r)
      BY <1>1, <2>1 DEF onGridLinks, onGridDocs, onLinks, onDoc, onStats
    <2>2. CASE onList(r)
      BY <1>2, <2>2 DEF onList
    <2>3. ASSUME NEW empty \in BOOLEAN, onPage(r, empty)
          PROVE  AbandonedOK'
      BY <1>1, <1>2, <2>3 DEF onPage
    <2>4. CASE onChanged(r) \/ onError(r)
      BY <1>1, <2>4 DEF onChanged, onError
    <2>5. QED
      BY <1>6, <2>1, <2>2, <2>3, <2>4 DEF answered
  <1>7. ASSUME \/ \E n \in Nodes : setSelectedNode(n)
               \/ \E c \in Children : onSelectChildService(c)
               \/ onLoadNextPage
        PROVE  AbandonedOK'
    BY <1>1, <1>7 DEF setSelectedNode, onSelectChildService, onLoadNextPage
  <1>8. ASSUME \/ onEditChildService \/ onDeleteChildService \/ onCreateChildService
               \/ \E b \in BOOLEAN : typeBody(b)
        PROVE  AbandonedOK'
    BY <1>1, <1>8 DEF onEditChildService, onDeleteChildService, onCreateChildService, typeBody
  <1>9. ASSUME (\E r \in abandoned : onAbandoned(r)) \/ UNCHANGED vars
        PROVE  AbandonedOK'
    BY <1>1, <1>9 DEF onAbandoned, vars
  <1>10. QED
    BY <1>3, <1>4, <1>5, <1>6, <1>7, <1>8, <1>9 DEF Next

(* What the components of the service pages keep is typed: in particular   *)
(* no answer finds its child component gone.                               *)
THEOREM TypeCorrect == Spec => []TypeOK
  <1>1. Init => AbandonedOK
    BY DEF Init, AbandonedOK
  <1>2. ViewsInv /\ AbandonedOK /\ [Next]_vars => AbandonedOK'
    BY AbandonedNext
  <1>3. ViewsInv /\ AbandonedOK => TypeOK
    BY DEF ViewsInv, TypeOK
  <1>4. QED
    BY <1>1, <1>2, <1>3, ViewsInvariant, PTL DEF Spec

(* The edit and delete dialogs are always about the document that is shown *)
(* and the create dialog about the selected service, whichever selections, *)
(* late answers and errors came before: onDoc sets the view and both       *)
(* contexts from the answer, and a new route replaces the create context.  *)
THEOREM DialogsAboutView == Spec => []DialogsMatchView
  <1>1. ViewsInv => DialogsMatchView
    BY DEF ViewsInv
  <1>2. QED
    BY <1>1, ViewsInvariant, PTL

(* A next page is appended once, for any number of services and pages and  *)
(* whichever lists and selections come in between, except for the last     *)
(* page of a service: the lock lets one page be under way, and the link    *)
(* moves on with every page that is shown.                                 *)
THEOREM PagesAppendedOnce == Spec => []PagesShownOnce
  <1>1. ASSUME ViewsInv
        PROVE  PagesShownOnce
    <2>1. NoneTwice(childServicesLinks) /\ childServicesLinks \in Seq(Page)
      BY <1>1 DEF ViewsInv, ViewTypes, PageInv
    <2>2. DOMAIN childServicesLinks = 1 .. Len(childServicesLinks)
      BY <2>1
    <2>3. QED
      BY <2>1, <2>2 DEF PagesShownOnce, NoneTwice
  <1>2. QED
    BY <1>1, ViewsInvariant, PTL

(* When no request of a kind is under way, the grid, the list, the         *)
(* document and the statistics are what was selected last, unless an       *)
(* answer failed or overtook another: for any number of nodes, services,   *)
(* pages and requests.                                                     *)
THEOREM SettlesOnLatest == Spec => []SettledViewIsLatest
  <1>1. ASSUME ViewsInv
        PROVE  SettledViewIsLatest
    <2>1. (route.view = "grid" /\ \A k \in GridKinds : ~Pending(requests, k) /\ k \notin disturbed)
            => grid = [links |-> selectedNode, docs |-> selectedNode]
      BY <1>1 DEF ViewsInv, GridInv, GridKinds
    <2>2. (route.view # "grid" /\ ~Pending(requests, "list") /\ "list" \notin disturbed)
            => IF PagesOf[selectedServiceId] = 0
               THEN \A i \in 1 .. Len(childServicesLinks) :
                       childServicesLinks[i].page > 1
               ELSE childServicesLinks[1] = [svc |-> selectedServiceId, page |-> 1]
      BY <1>1 DEF ViewsInv, ListInv, ListSettled
    <2>3. (child # None /\ latest # None /\ ~Pending(requests, "doc") /\ "doc" \notin disturbed)
            => child.doc = latest
      BY <1>1 DEF ViewsInv, DocInv
    <2>4. (child # None /\ latest # None /\ ~Pending(requests, "stats")
             /\ "stats" \notin disturbed)
            => child.stats = latest
      BY <1>1 DEF ViewsInv, StatsInv
    <2>5. QED
      BY <2>1, <2>2, <2>3, <2>4 DEF SettledViewIsLatest
  <1>2. QED
    BY <1>1, ViewsInvariant, PTL
=============================================================================
