--------------------------- MODULE AtomicDocument ---------------------------
(***************************************************************************)
(* What the clients of a StatefulService are promised about its document:  *)
(* it changes by one whole update at a time, an update that is refused     *)
(* leaves no trace and one that is acknowledged stays, and a read returns  *)
(* a document that holds everything acknowledged before it was sent.       *)
(***************************************************************************)
CONSTANT Ops  \* the requests

VARIABLES
    kind,     \* what each request is: GET, PATCH or neither
    document, \* the updates the document consists of
    floor,    \* what was acknowledged when a request was sent
    answer,   \* none, ok or refused
    seen      \* what a read returned

vars == <<kind, document, floor, answer, seen>>

Updates == {o \in Ops : kind[o] = "PATCH"}
Reads == {o \in Ops : kind[o] = "GET"}
Acknowledged == {o \in Updates : answer[o] = "ok"}

Init ==
    /\ kind \in [Ops -> {"GET", "PATCH", "other"}]
    /\ document = {}
    /\ floor = [o \in Ops |-> {}]
    /\ answer = [o \in Ops |-> "none"]
    /\ seen = [o \in Ops |-> {}]

Send(o) ==
    /\ floor' = [floor EXCEPT ![o] = Acknowledged]
    /\ answer[o] = "none"
    /\ UNCHANGED <<kind, document, answer, seen>>

Apply(o) ==
    /\ o \in Updates \ document /\ answer[o] = "none"
    /\ document' = document \cup {o}
    /\ UNCHANGED <<kind, floor, answer, seen>>

Acknowledge(o) ==
    /\ o \in document /\ answer[o] = "none"
    /\ answer' = [answer EXCEPT ![o] = "ok"]
    /\ UNCHANGED <<kind, document, floor, seen>>

Read(o) ==
    /\ o \in Reads /\ answer[o] = "none"
    /\ \E s \in SUBSET document :
          floor[o] \subseteq s /\ seen' = [seen EXCEPT ![o] = s]
    /\ answer' = [answer EXCEPT ![o] = "ok"]
    /\ UNCHANGED <<kind, document, floor>>

(* Requests are refused one by one, or together when the service stops.    *)
Refuse(R) ==
    /\ R \subseteq (Reads \cup Updates) \ document
    /\ \A o \in R : answer[o] = "none"
    /\ answer' = [o \in Ops |-> IF o \in R THEN "refused" ELSE answer[o]]
    /\ UNCHANGED <<kind, document, floor, seen>>

Next ==
    \/ \E o \in Ops : Send(o) \/ Apply(o) \/ Acknowledge(o) \/ Read(o)
    \/ \E R \in SUBSET Ops : Refuse(R)

Spec == Init /\ [][Next]_vars
=============================================================================
