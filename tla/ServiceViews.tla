---------------------------- MODULE ServiceViews ----------------------------
(***************************************************************************)
(* The service pages of the Xenon UI: ServiceGridComponent,                *)
(* ServiceDetailComponent with its ChildServiceDetailComponent, the        *)
(* BaseService that sends their requests and the selected node.  A         *)
(* component keeps no track of the requests it has replaced, and responses *)
(* arrive in any order.                                                    *)
(*                                                                         *)
(* A page of a list stands for the links on it.  Where a request goes      *)
(* matters for the grid, which is kept when another node is selected; the  *)
(* detail page is left then.  A component that is destroyed unsubscribes   *)
(* from the data it loads, but not from a next page or a change that it    *)
(* asked for: these stay under way, and their answers find nothing to      *)
(* show them.                                                              *)
(***************************************************************************)
EXTENDS Integers, Sequences, FiniteSets

CONSTANTS
    Nodes, HostNode,  \* nodes of the group, the one that serves the UI
    Factories,        \* factory services
    Children,         \* ids of child services
    None,             \* undefined
    PagesOf,          \* factory -> the number of pages of its list
    MaxRequests       \* bound on the requests sent

ASSUME ServiceViewsAssumption ==
    /\ HostNode \in Nodes
    /\ None \notin Nodes \cup Factories \cup Children
    /\ PagesOf \in [Factories -> Nat]
    /\ MaxRequests \in Nat /\ MaxRequests >= 2

VARIABLES
    selectedNode,     \* BaseService.selectedNodeId
    route,            \* the active route
    redirected,       \* the router was told to leave the detail page for the grid
    requests,         \* requests of the components that exist, not answered yet
    abandoned,        \* requests still under way whose component was destroyed
    sent,             \* number of requests sent
    grid,             \* where the grid's links and documents came from
    serviceLinks,     \* serviceLinks is not empty
    selectedServiceId, selectedChildServiceId,
    childServicesLinks,
    nextPageLink,     \* childServiceNextPageLink
    locked,           \* childServiceNextPageLinkRequestLocked
    createTarget, createBody,  \* createChildServiceModalContext
    child,            \* the ChildServiceDetailComponent, or None
    latest,           \* the link its getData last asked for (history)
    disturbed         \* kinds of which a response failed or overtook another (history)

detail == <<serviceLinks, selectedServiceId, selectedChildServiceId, childServicesLinks,
            nextPageLink, locked, createTarget, createBody, child, latest>>
traffic == <<requests, sent, disturbed>>
vars == <<selectedNode, route, redirected, traffic, abandoned, grid, detail>>

Link == [svc : Factories, child : Children]
Page == [svc : Factories, page : Nat]
Route == [view : {"grid"}, svc : {None}, child : {None}]
           \cup [view : {"detail"}, svc : Factories, child : {None}]
           \cup [view : {"child"}, svc : Factories, child : Children]
GridRoute == [view |-> "grid", svc |-> None, child |-> None]

GridKinds == {"gridLinks", "gridDocs"}
ChildKinds == {"doc", "stats", "edit", "delete"}
(* The requests that ngOnDestroy does not unsubscribe from.                *)
KeptKinds == {"page", "create", "edit", "delete"}
Kinds == GridKinds \cup ChildKinds \cup {"links", "list", "page", "create"}

(* A request: what it asks for, and for the grid the node it went to.      *)
About == [gridLinks |-> {None}, gridDocs |-> Nodes, links |-> {None}, list |-> Factories,
          page |-> Page, create |-> Factories,
          doc |-> Link, stats |-> Link, edit |-> Link, delete |-> Link]
IsRequest(q) == q.kind \in Kinds /\ q.id \in Nat /\ q.about \in About[q.kind] /\ q.node \in Nodes
request(k, a) == [id |-> 0, kind |-> k, about |-> a, node |-> selectedNode]

(* ChildServiceDetailComponent: the document and statistics it shows and   *)
(* the contexts of its edit and delete dialogs.                            *)
ChildView == [doc : Link \cup {None}, stats : Link \cup {None}, editTarget : Link \cup {None},
              editBody : BOOLEAN, deleteTarget : Link \cup {None}]
NewChildView == [doc |-> None, stats |-> None, editTarget |-> None, editBody |-> FALSE,
                 deleteTarget |-> None]

ASSUME NoneAssumption == None \notin ChildView

-----------------------------------------------------------------------------
(* http: open is what remains of the requests, seq the ones that are sent, *)
(* and disturbed the kinds that were disturbed before.  A request that is  *)
(* the only one of its kind can no longer be overtaken by an older one.    *)
Pending(open, k) == \E q \in open : q.kind = k

SendAll(open, seq, before) ==
    /\ sent + Len(seq) =< MaxRequests
    /\ sent' = sent + Len(seq)
    /\ requests' = open \cup {[seq[i] EXCEPT !.id = sent + i] : i \in 1 .. Len(seq)}
    /\ disturbed' = {k \in before : \A i \in 1 .. Len(seq) :
                                       seq[i].kind = k => Pending(open, k)}

Send(seq) == SendAll(requests, seq, disturbed)
(* The answer to r arrives and seq is sent in its handler.                 *)
Overtaking(r) ==
    IF \E q \in requests : q.kind = r.kind /\ q.id < r.id
    THEN disturbed \cup {r.kind} ELSE disturbed
Answer(r, seq) == SendAll(requests \ {r}, seq, Overtaking(r))

(* The components of the requests gone, a part of requests, are destroyed. *)
Abandon(gone) == abandoned' = abandoned \cup {q \in gone : q.kind \in KeptKinds}

ChildLink(s, c) == [svc |-> s, child |-> c]
(* ChildServiceDetailComponent.getData.                                    *)
childGetData(s, c) == <<request("doc", ChildLink(s, c)), request("stats", ChildLink(s, c))>>

-----------------------------------------------------------------------------
(* The application is opened at one of its URLs.                           *)
Init ==
    /\ selectedNode = HostNode
    /\ route \in Route /\ redirected = FALSE
    /\ grid = [links |-> None, docs |-> None]
    /\ serviceLinks = FALSE
    /\ selectedServiceId = route.svc /\ selectedChildServiceId = route.child
    /\ childServicesLinks = <<>> /\ nextPageLink = None /\ locked = FALSE
    /\ createTarget = route.svc /\ createBody = FALSE
    /\ child = None /\ latest = None
    /\ requests = IF route.view = "grid"
                  THEN {[request("gridLinks", None) EXCEPT !.id = 1]}
                  ELSE {[request("links", None) EXCEPT !.id = 1],
                        [request("list", route.svc) EXCEPT !.id = 2]}
    /\ sent = Cardinality(requests)
    /\ abandoned = {} /\ disturbed = {}

-----------------------------------------------------------------------------
(* The router and the node selector.                                       *)

(* Mutant of setSelectedNode: the grid hears of the node before the        *)
(* BaseService does.                                                       *)
setSelectedNodeGridFirst(n) ==
    /\ selectedNode' = n
    /\ IF route.view = "grid"
       THEN /\ Send(<<request("gridLinks", None)>>)
            /\ UNCHANGED redirected
       ELSE /\ redirected' = TRUE
            /\ UNCHANGED traffic
    /\ UNCHANGED <<route, abandoned, grid, detail>>

(* setSelectedNode: the grid loads its data again, the detail page tells   *)
(* the router to go to the grid.                                           *)
setSelectedNode(n) ==
    /\ selectedNode' = n
    /\ IF route.view = "grid"
       THEN /\ Send(<<[request("gridLinks", None) EXCEPT !.node = n]>>)
            /\ UNCHANGED redirected
       ELSE /\ redirected' = TRUE
            /\ UNCHANGED traffic
    /\ UNCHANGED <<route, abandoned, grid, detail>>

(* A new ServiceDetailComponent at route rt; without one its fields are    *)
(* undefined.                                                              *)
newDetail(rt) ==
    /\ serviceLinks' = FALSE
    /\ selectedServiceId' = rt.svc /\ selectedChildServiceId' = rt.child
    /\ childServicesLinks' = <<>> /\ nextPageLink' = None /\ locked' = FALSE
    /\ createTarget' = rt.svc /\ createBody' = FALSE
    /\ child' = None /\ latest' = None

(* The grid is opened, by a link or by the detail page: a new component,   *)
(* whose ngOnInit loads the data.                                          *)
openGrid ==
    /\ route.view # "grid"
    /\ route' = GridRoute /\ redirected' = FALSE
    /\ grid' = [links |-> None, docs |-> None]
    /\ SendAll({}, <<request("gridLinks", None)>>, disturbed)
    /\ Abandon(requests)
    /\ newDetail(GridRoute)
    /\ UNCHANGED selectedNode

(* A detail page is opened, by a link, back or forward: a new component,   *)
(* whose subscription to the route's parameters loads the data (getData).  *)
(* It has no links, so no child component yet.                             *)
openDetail(rt) ==
    /\ rt.view # "grid" /\ rt.view # route.view
    /\ route' = rt /\ redirected' = FALSE
    /\ newDetail(rt)
    /\ SendAll({}, <<request("links", None), request("list", rt.svc)>>, disturbed)
    /\ Abandon(requests)
    /\ UNCHANGED <<selectedNode, grid>>

(* Mutant of paramsChanged: the lock is released for the new service.      *)
paramsChangedUnlocks(rt) ==
    /\ rt.view # "grid" /\ rt.view = route.view /\ rt # route
    /\ route' = rt /\ redirected' = FALSE
    /\ selectedServiceId' = rt.svc
    /\ selectedChildServiceId' = rt.child
    /\ createTarget' = rt.svc /\ createBody' = FALSE
    /\ locked' = FALSE
    /\ Send(<<request("list", rt.svc)>>)
    /\ UNCHANGED <<selectedNode, abandoned, grid, serviceLinks, childServicesLinks,
                   nextPageLink, child, latest>>

(* The parameters of the same route change: the component is kept.  Its    *)
(* list is emptied only while the service links are missing; the child     *)
(* component loads data (ngOnChanges) when the child's id changes.         *)
paramsChanged(rt) ==
    /\ rt.view # "grid" /\ rt.view = route.view /\ rt # route
    /\ route' = rt /\ redirected' = FALSE
    /\ selectedServiceId' = rt.svc
    /\ selectedChildServiceId' = rt.child
    /\ createTarget' = rt.svc /\ createBody' = FALSE
    /\ LET keep == serviceLinks
           reload == keep /\ child # None /\ rt.child # None
                       /\ rt.child # selectedChildServiceId
       IN /\ childServicesLinks' = IF keep THEN childServicesLinks ELSE <<>>
          /\ child' = IF keep THEN child ELSE None
          /\ latest' = CASE reload -> ChildLink(rt.svc, rt.child)
                         [] ~keep -> None
                         [] OTHER -> latest
          /\ SendAll({q \in requests : keep \/ q.kind \notin ChildKinds},
                     (IF keep THEN <<>> ELSE <<request("links", None)>>)
                       \o <<request("list", rt.svc)>>
                       \o (IF reload THEN childGetData(rt.svc, rt.child) ELSE <<>>),
                     disturbed)
          /\ Abandon({q \in requests : ~keep /\ q.kind \in ChildKinds})
    /\ UNCHANGED <<selectedNode, grid, serviceLinks, nextPageLink, locked>>

-----------------------------------------------------------------------------
(* Answers for the grid: _getData asks for the links, then for the         *)
(* documents of these links.                                               *)

onGridLinks(r) ==
    /\ r \in requests /\ r.kind = "gridLinks"
    /\ Answer(r, <<request("gridDocs", r.node)>>)
    /\ UNCHANGED <<selectedNode, route, redirected, abandoned, grid, detail>>

onGridDocs(r) ==
    /\ r \in requests /\ r.kind = "gridDocs"
    /\ grid' = [links |-> r.about, docs |-> r.node]
    /\ Answer(r, <<>>)
    /\ UNCHANGED <<selectedNode, route, redirected, abandoned, detail>>

-----------------------------------------------------------------------------
(* Answers for the detail page.                                            *)

onLinks(r) ==
    /\ r \in requests /\ r.kind = "links"
    /\ serviceLinks' = TRUE
    /\ Answer(r, <<>>)
    /\ UNCHANGED <<selectedNode, route, redirected, abandoned, grid, selectedServiceId,
                   selectedChildServiceId, childServicesLinks, nextPageLink, locked,
                   createTarget, createBody, child, latest>>

(* The answer r makes list the links that are shown.  The child component  *)
(* exists while there are any, and loads its data when it is created.      *)
showLinks(r, list) ==
    /\ childServicesLinks' = list
    /\ IF list = <<>>
       THEN /\ child' = None /\ latest' = None
            /\ SendAll({q \in requests \ {r} : q.kind \notin ChildKinds}, <<>>, Overtaking(r))
            /\ Abandon({q \in requests \ {r} : q.kind \in ChildKinds})
       ELSE LET load == child = None /\ selectedChildServiceId # None
            IN /\ child' = IF child = None THEN NewChildView ELSE child
               /\ latest' = IF load THEN ChildLink(selectedServiceId, selectedChildServiceId)
                                    ELSE latest
               /\ Answer(r, IF load THEN childGetData(selectedServiceId, selectedChildServiceId)
                                    ELSE <<>>)
               /\ UNCHANGED abandoned

(* The first page replaces the list; the link to the next page is only     *)
(* replaced by another one.                                                *)
onList(r) ==
    /\ r \in requests /\ r.kind = "list"
    /\ LET s == r.about
       IN /\ showLinks(r, IF PagesOf[s] = 0 THEN <<>> ELSE <<[svc |-> s, page |-> 1]>>)
          /\ nextPageLink' = IF PagesOf[s] > 1 THEN [svc |-> s, page |-> 2] ELSE nextPageLink
    /\ UNCHANGED <<selectedNode, route, redirected, grid, serviceLinks, selectedServiceId,
                   selectedChildServiceId, locked, createTarget, createBody>>

(* A next page is appended to the list that is there by now.  A page       *)
(* without results leaves the lock taken.                                  *)
onPage(r, empty) ==
    /\ r \in requests /\ r.kind = "page"
    /\ LET s == r.about.svc
           n == r.about.page
       IN IF empty
          THEN /\ Answer(r, <<>>)
               /\ UNCHANGED <<abandoned, childServicesLinks, nextPageLink, locked, child, latest>>
          ELSE /\ locked' = FALSE
               /\ showLinks(r, Append(childServicesLinks, r.about))
               /\ nextPageLink' = IF n < PagesOf[s] THEN [svc |-> s, page |-> n + 1]
                                                    ELSE nextPageLink
    /\ UNCHANGED <<selectedNode, route, redirected, grid, serviceLinks, selectedServiceId,
                   selectedChildServiceId, createTarget, createBody>>

(* Mutant of onDoc: the dialogs take the link that is selected by now.     *)
onDocSelectedLink(r) ==
    /\ r \in requests /\ r.kind = "doc"
    /\ LET link == ChildLink(selectedServiceId, selectedChildServiceId)
       IN child' = [child EXCEPT !.doc = r.about, !.editTarget = link, !.editBody = TRUE,
                                 !.deleteTarget = link]
    /\ Answer(r, <<>>)
    /\ UNCHANGED <<selectedNode, route, redirected, abandoned, grid, serviceLinks,
                   selectedServiceId, selectedChildServiceId, childServicesLinks,
                   nextPageLink, locked, createTarget, createBody, latest>>

(* The document is shown and becomes the target of both dialogs.           *)
onDoc(r) ==
    /\ r \in requests /\ r.kind = "doc"
    /\ child' = [child EXCEPT !.doc = r.about, !.editTarget = r.about, !.editBody = TRUE,
                              !.deleteTarget = r.about]
    /\ Answer(r, <<>>)
    /\ UNCHANGED <<selectedNode, route, redirected, abandoned, grid, serviceLinks,
                   selectedServiceId, selectedChildServiceId, childServicesLinks,
                   nextPageLink, locked, createTarget, createBody, latest>>

onStats(r) ==
    /\ r \in requests /\ r.kind = "stats"
    /\ child' = [child EXCEPT !.stats = r.about]
    /\ Answer(r, <<>>)
    /\ UNCHANGED <<selectedNode, route, redirected, abandoned, grid, serviceLinks,
                   selectedServiceId, selectedChildServiceId, childServicesLinks,
                   nextPageLink, locked, createTarget, createBody, latest>>

(* A successful edit or creation empties the body of the dialog, whatever  *)
(* the dialog is about by now.                                             *)
onChanged(r) ==
    /\ r \in requests /\ r.kind \in {"edit", "delete", "create"}
    /\ child' = IF r.kind = "edit" THEN [child EXCEPT !.editBody = FALSE] ELSE child
    /\ createBody' = IF r.kind = "create" THEN FALSE ELSE createBody
    /\ Answer(r, <<>>)
    /\ UNCHANGED <<selectedNode, route, redirected, abandoned, grid, serviceLinks,
                   selectedServiceId, selectedChildServiceId, childServicesLinks,
                   nextPageLink, locked, createTarget, latest>>

(* Every error handler only notifies the user.                             *)
onError(r) ==
    /\ r \in requests
    /\ requests' = requests \ {r}
    /\ disturbed' = disturbed \cup {r.kind}
    /\ UNCHANGED <<selectedNode, route, redirected, sent, abandoned, grid, detail>>

(* An answer, or an error, for a component that was destroyed.             *)
onAbandoned(r) ==
    /\ r \in abandoned
    /\ abandoned' = abandoned \ {r}
    /\ UNCHANGED <<selectedNode, route, redirected, traffic, grid, detail>>

-----------------------------------------------------------------------------
(* What the user does on the detail page.                                  *)

onSelectChildService(c) ==
    /\ childServicesLinks # <<>> /\ route.view # "grid"
    /\ selectedChildServiceId' = c
    /\ c # selectedChildServiceId
    /\ latest' = ChildLink(selectedServiceId, c)
    /\ Send(childGetData(selectedServiceId, c))
    /\ UNCHANGED <<selectedNode, route, redirected, abandoned, grid, serviceLinks,
                   selectedServiceId, childServicesLinks, nextPageLink, locked, createTarget,
                   createBody, child>>

(* Mutant of onLoadNextPage: a missing link is not noticed.                *)
onLoadNextPageNoLink ==
    /\ childServicesLinks # <<>> /\ route.view # "grid" /\ ~locked
    /\ locked' = TRUE
    /\ Send(<<request("page", nextPageLink)>>)
    /\ UNCHANGED <<selectedNode, route, redirected, abandoned, grid, serviceLinks,
                   selectedServiceId, selectedChildServiceId, childServicesLinks,
                   nextPageLink, createTarget, createBody, child, latest>>

(* The list is scrolled to its end.                                        *)
onLoadNextPage ==
    /\ childServicesLinks # <<>> /\ route.view # "grid"
    /\ nextPageLink # None /\ ~locked
    /\ locked' = TRUE
    /\ Send(<<request("page", nextPageLink)>>)
    /\ UNCHANGED <<selectedNode, route, redirected, abandoned, grid, serviceLinks,
                   selectedServiceId, selectedChildServiceId, childServicesLinks,
                   nextPageLink, createTarget, createBody, child, latest>>

(* onEditChildService and onDeleteChildService.                            *)
onEditChildService ==
    /\ child # None /\ route.view # "grid"
    /\ child.editTarget # None /\ child.editBody
    /\ Send(<<request("edit", child.editTarget)>>)
    /\ UNCHANGED <<selectedNode, route, redirected, abandoned, grid, detail>>

onDeleteChildService ==
    /\ child # None /\ route.view # "grid"
    /\ child.deleteTarget # None
    /\ Send(<<request("delete", child.deleteTarget)>>)
    /\ UNCHANGED <<selectedNode, route, redirected, abandoned, grid, detail>>

onCreateChildService ==
    /\ route.view # "grid"
    /\ createTarget # None /\ createBody
    /\ Send(<<request("create", createTarget)>>)
    /\ UNCHANGED <<selectedNode, route, redirected, abandoned, grid, detail>>

(* The user changes the body in a dialog, or the method of the edit dialog *)
(* (onEditChildServiceMethodChanged), which sets the body.                 *)
typeBody(b) ==
    /\ route.view # "grid"
    /\ \/ createBody' = b /\ UNCHANGED child
       \/ /\ child # None
          /\ child' = [child EXCEPT !.editBody = b]
          /\ UNCHANGED createBody
    /\ UNCHANGED <<selectedNode, route, redirected, traffic, abandoned, grid, serviceLinks,
                   selectedServiceId, selectedChildServiceId, childServicesLinks,
                   nextPageLink, locked, createTarget, latest>>

answered(r) ==
    \/ onGridLinks(r) \/ onGridDocs(r)
    \/ onLinks(r) \/ onList(r) \/ onDoc(r) \/ onStats(r)
    \/ \E empty \in BOOLEAN : onPage(r, empty)
    \/ onChanged(r) \/ onError(r)

Next ==
    \/ openGrid \/ \E rt \in Route : openDetail(rt) \/ paramsChanged(rt)
    \/ \E n \in Nodes : setSelectedNode(n)
    \/ \E r \in requests : answered(r)
    \/ \E r \in abandoned : onAbandoned(r)
    \/ \E c \in Children : onSelectChildService(c)
    \/ onLoadNextPage
    \/ onEditChildService \/ onDeleteChildService \/ onCreateChildService
    \/ \E b \in BOOLEAN : typeBody(b)

Spec == Init /\ [][Next]_vars

-----------------------------------------------------------------------------
(* Properties.                                                             *)

(* The requests that were left behind are ones that ngOnDestroy leaves.    *)
AbandonedOK == \A q \in abandoned : IsRequest(q) /\ q.kind \in KeptKinds

(* What the components keep.                                               *)
ViewTypes ==
    /\ selectedNode \in Nodes
    /\ route \in Route /\ redirected \in BOOLEAN
    /\ (\A q \in requests : IsRequest(q)) /\ sent \in 0 .. MaxRequests
    /\ disturbed \subseteq Kinds
    /\ grid \in [links : Nodes \cup {None}, docs : Nodes \cup {None}]
    /\ serviceLinks \in BOOLEAN /\ locked \in BOOLEAN
    /\ selectedServiceId \in Factories \cup {None}
    /\ selectedChildServiceId \in Children \cup {None}
    /\ childServicesLinks \in Seq(Page)
    /\ nextPageLink \in Page \cup {None}
    /\ createTarget \in Factories \cup {None} /\ createBody \in BOOLEAN
    /\ child \in ChildView \cup {None}
    /\ latest \in Link \cup {None}

(* The types of the variables.                                             *)
TypeOK == ViewTypes /\ AbandonedOK

(* The edit and delete dialogs of a child service are about the document   *)
(* that is shown, and the create dialog about the selected service, so no  *)
(* change goes to a service the user does not see: whichever selections,   *)
(* late answers and errors came before.                                    *)
DialogsMatchView ==
    /\ child # None => /\ child.editTarget = child.doc
                       /\ child.deleteTarget = child.doc
    /\ route.view # "grid" => createTarget = selectedServiceId

(* onLoadNextPage appends a next page once, although the list can be       *)
(* replaced and another service be selected while the page is under way:   *)
(* what childServiceNextPageLinkRequestLocked is for.  The last page of a  *)
(* service is left out: childServiceNextPageLink still leads to it after   *)
(* it was shown and the lock is released, so it is appended again whenever *)
(* the list is scrolled to its end.                                        *)
PagesShownOnce ==
    \A i, j \in DOMAIN childServicesLinks :
        i # j /\ childServicesLinks[i] = childServicesLinks[j]
            => childServicesLinks[i].page = PagesOf[childServicesLinks[i].svc]

(* When nothing is under way, a view shows what was selected last, unless  *)
(* an answer for it failed or overtook an earlier one: the grid the        *)
(* services of the selected node, the detail page a list that starts with  *)
(* the selected service's and the document and statistics asked for last.  *)
SettledViewIsLatest ==
    /\ (route.view = "grid" /\ \A k \in GridKinds : ~Pending(requests, k) /\ k \notin disturbed)
          => grid = [links |-> selectedNode, docs |-> selectedNode]
    /\ (route.view # "grid" /\ ~Pending(requests, "list") /\ "list" \notin disturbed)
          => IF PagesOf[selectedServiceId] = 0
             THEN \A i \in 1 .. Len(childServicesLinks) :
                     childServicesLinks[i].page > 1
             ELSE childServicesLinks[1] = [svc |-> selectedServiceId, page |-> 1]
    /\ (child # None /\ latest # None /\ ~Pending(requests, "doc") /\ "doc" \notin disturbed)
          => child.doc = latest
    /\ (child # None /\ latest # None /\ ~Pending(requests, "stats") /\ "stats" \notin disturbed)
          => child.stats = latest
=============================================================================
