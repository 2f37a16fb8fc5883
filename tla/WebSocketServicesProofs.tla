----------------------- MODULE WebSocketServicesProofs ----------------------
(***************************************************************************)
(* Proofs about WebSocketServices: answers reach the call they belong to,  *)
(* operations are completed once, the services the page knows run, and no  *)
(* subscription is forgotten, for any number of services, publishers,      *)
(* operations and calls.                                                   *)
(***************************************************************************)
EXTENDS WebSocketServices, TLAPS

-----------------------------------------------------------------------------
(* The inductive invariant, by what its parts are about.                   *)

Calls == 1 .. Len(calls)
Frames == {toClient[i] : i \in 1 .. Len(toClient)}
Results == {f \in Frames : f.type = "result"}

(* Requests of the page to publishers; the others unsubscribe a service    *)
(* that has ended.                                                         *)
Forwarded == {r \in hostRequests : r.id # NoRequest}

(* What a frame or a request with this id and call may be answered to: the *)
(* call itself, or nobody any more.                                        *)
Carries(x) ==
    /\ x.id < requestCounter /\ x.call \in Calls
    /\ doneHandlers[x.id] \in {x.call, NoCall}

(* The services the page may know.                                         *)
Runs(s) ==
    s \in attached \/ socket = "closed" \/ \E i \in Calls : calls[i].kind = "stop" /\ calls[i].svc = s

(* The calls of the page name what their kind of request needs.            *)
CallsNamed ==
    \A i \in Calls :
        /\ calls[i].kind # "reply"
        /\ calls[i].kind # "create" => calls[i].svc \in Services
        /\ calls[i].kind \in {"subscribe", "unsubscribe"} => calls[i].pub \in Publishers

(* A request keeps its id and its call on the way to the server, in the    *)
(* server and back.                                                        *)
RequestsCarried ==
    /\ \A f \in toServer : f.msg.kind # "reply" => Carries(f) /\ calls[f.call] = f.msg
    /\ \A f \in toServer : f.msg.kind = "reply" => f.msg.svc \in Services /\ f.msg.op \in Ops
    /\ \A t \in starting : Carries(t) /\ calls[t.call].kind = "create"
    /\ \A r \in Forwarded : Carries(r) /\ calls[r.call].kind \in {"subscribe", "unsubscribe"}

ResultsCarried ==
    \A f \in Results :
        /\ Carries(f)
        /\ calls[f.call].kind = "create" /\ f.ok => f.svc \in Services /\ Runs(f.svc)

(* A handler waits under one id, for a call that has no answer yet.        *)
HandlersWait ==
    /\ \A i \in RequestIds : doneHandlers[i] # NoCall =>
          i < requestCounter /\ doneHandlers[i] \in Calls /\ answers[doneHandlers[i]] = <<>>
    /\ \A i, j \in RequestIds : doneHandlers[i] = doneHandlers[j] /\ doneHandlers[i] # NoCall => i = j

(* The calls queued before the connection is ready.                        *)
QueuedWait ==
    /\ \A i \in 1 .. Len(requestQueue) :
          requestQueue[i] \in Calls /\ answers[requestQueue[i]] = <<>>
    /\ \A i, j \in 1 .. Len(requestQueue) : requestQueue[i] = requestQueue[j] => i = j
    /\ ready => requestQueue = <<>>

(* Nothing has happened before the connection is open.                     *)
Unconnected ==
    /\ socket = "connecting" <=> ~ready
    /\ ~ready => /\ requestCounter = 0 /\ \A i \in RequestIds : doneHandlers[i] = NoCall
                 /\ toServer = {} /\ toClient = <<>> /\ starting = {} /\ hostRequests = {}
                 /\ known = {} /\ inHand = {}

Answered ==
    \A c \in CallIds :
        \/ answers[c] = <<>>
        \/ c \in Calls /\ Len(answers[c]) = 1 /\ answers[c][1].of = c

AnswersInv ==
    /\ CallsNamed /\ RequestsCarried /\ ResultsCarried /\ HandlersWait /\ QueuedWait
    /\ Unconnected /\ Answered /\ \A s \in known : Runs(s)

(* An operation is pending with one service, until it is completed.        *)
OperationsInv ==
    /\ \A o \in Ops : completions[o] \in {0, 1}
    /\ \A s \in Services : \A o \in pendingOperations[s] : completions[o] = 0
    /\ \A s, t \in Services : \A o \in pendingOperations[s] : o \in pendingOperations[t] => s = t

Raced(s, p) == <<s, p>> \in raced

(* What serviceSubscriptions and the requests under way say of the         *)
(* subscriptions that did not race.                                        *)
TrackingInv ==
    /\ SubscriptionsTracked
    /\ \A s \in Services : paths[s] # {} => s \in entries
    /\ \A r \in hostRequests : r.id = NoRequest => r.method = "DELETE" /\ r.phase = "sent"
    /\ \A r \in hostRequests : r.phase # "sent" =>
          Raced(r.svc, r.pub) \/ (r.ok /\ (r.method = "DELETE" => r.svc \notin subscribers[r.pub]))
    /\ \A q, r \in hostRequests : q.svc = r.svc /\ q.pub = r.pub => q = r \/ Raced(r.svc, r.pub)

(* What is left to the close listener.                                     *)
ClosingInv ==
    /\ socket = "closed" => \A r \in Forwarded : Raced(r.svc, r.pub)
    /\ closer # "idle" => socket = "closed"
    /\ closer = "running" =>
          \A s \in Services : \A p \in paths[s] : Raced(s, p) \/ s \in closeEntries
    /\ closer = "finished" => \A s \in Services : \A p \in paths[s] : Raced(s, p)

WebSocketInv == TypeOK /\ AnswersInv /\ OperationsInv /\ TrackingInv /\ ClosingInv

-----------------------------------------------------------------------------
(* Sequences.                                                              *)

LEMMA AppendElements ==
    ASSUME NEW S, NEW q \in Seq(S), NEW x \in S
    PROVE  /\ Append(q, x) \in Seq(S) /\ Len(Append(q, x)) = Len(q) + 1 /\ Len(q) \in Nat
           /\ \A i \in 1 .. Len(q) : Append(q, x)[i] = q[i]
           /\ Append(q, x)[Len(q) + 1] = x
           /\ \A i \in 1 .. Len(Append(q, x)) : i \in 1 .. Len(q) \/ i = Len(q) + 1
  OBVIOUS

LEMMA TailElements ==
    ASSUME NEW S, NEW q \in Seq(S), q # <<>>
    PROVE  /\ Tail(q) \in Seq(S) /\ Head(q) \in S
           /\ {Tail(q)[i] : i \in 1 .. Len(Tail(q))} \subseteq {q[i] : i \in 1 .. Len(q)}
           /\ Head(q) \in {q[i] : i \in 1 .. Len(q)}
  <1>1. Tail(q) \in Seq(S) /\ Head(q) \in S /\ Len(q) \in Nat \ {0} /\ Len(Tail(q)) = Len(q) - 1
    OBVIOUS
  <1>2. \A i \in 1 .. Len(Tail(q)) : Tail(q)[i] = q[i + 1] /\ i + 1 \in 1 .. Len(q)
    BY <1>1
  <1>3. Head(q) = q[1] /\ 1 \in 1 .. Len(q)
    BY <1>1
  <1>4. QED
    BY <1>1, <1>2, <1>3

LEMMA ResultTypes ==
    ASSUME TypeOK, NEW f \in Results
    PROVE  /\ f.id \in RequestIds /\ f.ok \in BOOLEAN /\ f.svc \in Services \cup {NoService}
           /\ f.call \in CallIds \cup {NoCall}
  <1>1. PICK i \in 1 .. Len(toClient) : f = toClient[i]
    BY DEF Results, Frames
  <1>2. toClient \in Seq(ClientFrame)
    BY DEF TypeOK
  <1>3. f \in ClientFrame /\ f.type = "result"
    BY <1>1, <1>2 DEF Results
  <1>4. QED
    BY <1>3 DEF ClientFrame

-----------------------------------------------------------------------------
(* The calls of the page.                                                  *)

(* createService, subscribe, unsubscribe and stop: a call that names what  *)
(* its kind needs.                                                         *)
PageCalls(msg) ==
    /\ msg \in Message /\ msg.kind # "reply"
    /\ msg.kind # "create" => msg.svc \in Services
    /\ msg.kind \in {"subscribe", "unsubscribe"} => msg.pub \in Publishers
    /\ Len(calls) < MaxCalls
    /\ calls' = Append(calls, msg)
    /\ doRequest(Len(calls) + 1, msg)
    /\ UNCHANGED <<ready, failure, known, inHand, socket, toClient, registry, tracking,
                   forwarded, closing>>

LEMMA CreateCalls == ASSUME createService PROVE \E msg : PageCalls(msg)
  <1> DEFINE msg == message("create", NoService, NoPublisher, NoOp)
  <1>1. msg \in Message /\ msg.kind = "create"
    BY DEF Message, message
  <1>2. PageCalls(msg)
    BY <1>1 DEF createService, PageCalls
  <1>3. QED
    BY <1>2

LEMMA ServiceCalls ==
    ASSUME NEW s \in Services,
           (\E p \in Publishers : subscribe(s, p) \/ unsubscribe(s, p)) \/ stop(s)
    PROVE  \E msg : PageCalls(msg)
  <1>1. ASSUME NEW p \in Publishers, subscribe(s, p) PROVE \E msg : PageCalls(msg)
    <2>1. PageCalls(message("subscribe", s, p, NoOp))
      BY <1>1 DEF subscribe, PageCalls, Message, message
    <2>2. QED
      BY <2>1
  <1>2. ASSUME NEW p \in Publishers, unsubscribe(s, p) PROVE \E msg : PageCalls(msg)
    <2>1. PageCalls(message("unsubscribe", s, p, NoOp))
      BY <1>2 DEF unsubscribe, PageCalls, Message, message
    <2>2. QED
      BY <2>1
  <1>3. CASE stop(s)
    <2>1. PageCalls(message("stop", s, NoPublisher, NoOp))
      BY <1>3 DEF stop, PageCalls, Message, message
    <2>2. QED
      BY <2>1
  <1>4. QED
    BY <1>1, <1>2, <1>3

LEMMA CallAppended ==
    ASSUME TypeOK, NEW msg, PageCalls(msg)
    PROVE  /\ Len(calls) \in Nat /\ Len(calls') = Len(calls) + 1 /\ calls' \in Seq(Message)
           /\ Len(calls) + 1 \in CallIds /\ Len(calls) + 1 # NoCall
           /\ \A i \in Calls : calls'[i] = calls[i] /\ i \in Calls' /\ i # Len(calls) + 1
           /\ calls'[Len(calls) + 1] = msg /\ Len(calls) + 1 \in Calls'
           /\ \A i \in Calls' : i \in Calls \/ i = Len(calls) + 1
  <1>1. calls \in Seq(Message) /\ msg \in Message /\ MaxCalls \in Nat
    BY WebSocketAssumption DEF TypeOK, PageCalls
  <1>2. /\ calls' \in Seq(Message) /\ Len(calls') = Len(calls) + 1 /\ Len(calls) \in Nat
        /\ \A i \in 1 .. Len(calls) : calls'[i] = calls[i]
        /\ calls'[Len(calls) + 1] = msg
    BY <1>1, AppendElements DEF PageCalls
  <1>3. QED
    BY <1>1, <1>2 DEF PageCalls, Calls, CallIds, NoCall

(* What doRequest does with the call: it is queued, refused at once, or    *)
(* sent under a new id.                                                    *)
LEMMA CallTypes ==
    ASSUME TypeOK, NEW msg, PageCalls(msg)
    PROVE  TypeOK'
  <1> DEFINE c == Len(calls) + 1
  <1>1. /\ c \in CallIds /\ calls' \in Seq(Message) /\ Len(calls') =< MaxCalls
        /\ MaxRequests \in Nat /\ msg \in Message
    BY CallAppended, WebSocketAssumption DEF PageCalls
  <1>2. UNCHANGED <<ready, failure, known, inHand, socket, toClient, registry, tracking,
                    forwarded, closing>>
    BY DEF PageCalls
  <1>3. doRequest(c, msg)
    BY DEF PageCalls
  <1> HIDE DEF c
  <1>4. requestQueue' \in Seq(CallIds)
    <2>1. requestQueue \in Seq(CallIds) /\ Append(requestQueue, c) \in Seq(CallIds)
      BY <1>1, AppendElements DEF TypeOK
    <2>2. QED
      BY <1>3, <2>1 DEF doRequest
  <1>5. requestCounter' \in 0 .. MaxRequests
    BY <1>1, <1>3 DEF doRequest, TypeOK
  <1>6. doneHandlers' \in [RequestIds -> CallIds \cup {NoCall}]
    BY <1>1, <1>3 DEF doRequest, TypeOK
  <1>7. answers' \in [CallIds -> Seq([of : CallIds \cup {NoCall}, ok : BOOLEAN])]
    <2>1. [of |-> c, ok |-> FALSE] \in [of : CallIds \cup {NoCall}, ok : BOOLEAN]
      BY <1>1
    <2>2. answers[c] \in Seq([of : CallIds \cup {NoCall}, ok : BOOLEAN])
      BY <1>1 DEF TypeOK
    <2>3. Append(answers[c], [of |-> c, ok |-> FALSE]) \in Seq([of : CallIds \cup {NoCall}, ok : BOOLEAN])
      BY <2>1, <2>2, AppendElements
    <2>4. QED
      BY <1>3, <2>3 DEF doRequest, TypeOK
  <1>8. toServer' \subseteq ServerFrame
    <2>1. requestCounter < MaxRequests => requestCounter \in RequestIds
      BY <1>1 DEF TypeOK, RequestIds
    <2>2. requestCounter < MaxRequests =>
             [id |-> requestCounter, call |-> c, msg |-> msg] \in ServerFrame
      BY <1>1, <2>1 DEF ServerFrame
    <2>3. QED
      BY <1>3, <2>2 DEF doRequest, send, TypeOK
  <1>9. QED
    BY <1>1, <1>2, <1>4, <1>5, <1>6, <1>7, <1>8
       DEF TypeOK, registry, tracking, forwarded, closing

LEMMA CallAnswers ==
    ASSUME TypeOK, AnswersInv, NEW msg, PageCalls(msg)
    PROVE  AnswersInv'
  <1> DEFINE c == Len(calls) + 1
  <1>1. /\ c \in CallIds /\ c # NoCall
        /\ \A i \in Calls : calls'[i] = calls[i] /\ i \in Calls' /\ i # c
        /\ calls'[c] = msg /\ c \in Calls' /\ c \notin Calls
        /\ \A i \in Calls' : i \in Calls \/ i = c
    BY CallAppended DEF Calls
  <1>2. /\ UNCHANGED <<ready, known, inHand, socket, toClient, starting, hostRequests, attached>>
        /\ Results' = Results /\ Forwarded' = Forwarded
    BY DEF PageCalls, registry, tracking, Results, Frames, Forwarded
  <1>3. doRequest(c, msg)
    BY DEF PageCalls
  <1>4. /\ msg.kind # "reply"
        /\ msg.kind # "create" => msg.svc \in Services
        /\ msg.kind \in {"subscribe", "unsubscribe"} => msg.pub \in Publishers
    BY DEF PageCalls
  <1>5. requestCounter \in Nat /\ MaxRequests \in Nat
    BY WebSocketAssumption DEF TypeOK
  <1> HIDE DEF c
  <1>6. CallsNamed'
    BY <1>1, <1>4 DEF AnswersInv, CallsNamed
  <1>7. \A s : Runs(s) => Runs(s)'
    BY <1>1, <1>2 DEF Runs
  <1>8. answers[c] = <<>>
    BY <1>1 DEF AnswersInv, Answered
  <1>9. \A i \in RequestIds : doneHandlers[i] # c
    BY <1>1 DEF AnswersInv, HandlersWait
  <1>10. ASSUME NEW x, x.id \in RequestIds, Carries(x)
         PROVE  Carries(x)' /\ calls'[x.call] = calls[x.call]
    BY <1>1, <1>3, <1>5, <1>10 DEF Carries, doRequest, TypeOK, RequestIds
  <1>11. RequestsCarried'
    <2>1. /\ \A f \in toServer : f.id \in RequestIds
          /\ \A t \in starting : t.id \in RequestIds
          /\ \A r \in Forwarded : r.id \in RequestIds
      BY DEF TypeOK, ServerFrame, HostRequest, Forwarded
    <2>2. ASSUME NEW f \in toServer', f \notin toServer
          PROVE  f.msg.kind # "reply" /\ Carries(f)' /\ calls'[f.call] = f.msg
      <3>1. /\ f = [id |-> requestCounter, call |-> c, msg |-> msg]
            /\ requestCounter < MaxRequests /\ requestCounter' = requestCounter + 1
            /\ doneHandlers' = [doneHandlers EXCEPT ![requestCounter] = c]
        BY <1>3, <2>2 DEF doRequest, send
      <3>2. requestCounter \in RequestIds
        BY <1>5, <3>1 DEF RequestIds
      <3>3. f.id = requestCounter /\ f.call = c /\ f.msg = msg /\ doneHandlers'[requestCounter] = c
        BY <3>1, <3>2 DEF TypeOK
      <3>4. QED
        BY <1>1, <1>4, <1>5, <3>1, <3>3 DEF Carries
    <2>3. ASSUME NEW f \in toServer, f.msg.kind # "reply"
          PROVE  Carries(f)' /\ calls'[f.call] = f.msg
      BY <1>10, <2>1, <2>3 DEF AnswersInv, RequestsCarried
    <2>4. \A t \in starting : Carries(t)' /\ calls'[t.call].kind = "create"
      BY <1>10, <2>1 DEF AnswersInv, RequestsCarried
    <2>5. \A r \in Forwarded : Carries(r)' /\ calls'[r.call].kind \in {"subscribe", "unsubscribe"}
      BY <1>10, <2>1 DEF AnswersInv, RequestsCarried
    <2>6. QED
      BY <1>2, <2>2, <2>3, <2>4, <2>5 DEF AnswersInv, RequestsCarried
  <1>12. ResultsCarried'
    <2>1. \A f \in Results : f.id \in RequestIds
      BY ResultTypes
    <2>2. QED
      BY <1>2, <1>7, <1>10, <2>1 DEF AnswersInv, ResultsCarried
  <1>13. HandlersWait'
    <2>1. \A i \in RequestIds : doneHandlers[i] # NoCall => answers'[doneHandlers[i]] = <<>>
      BY <1>3, <1>9 DEF doRequest, AnswersInv, HandlersWait, TypeOK
    <2>2. CASE UNCHANGED <<doneHandlers, requestCounter>>
      BY <1>1, <2>1, <2>2 DEF AnswersInv, HandlersWait
    <2>3. CASE /\ requestCounter < MaxRequests /\ requestCounter' = requestCounter + 1
               /\ doneHandlers' = [doneHandlers EXCEPT ![requestCounter] = c]
               /\ answers' = answers
      <3>1. requestCounter \in RequestIds /\ RequestIds \subseteq Int
        BY <1>5, <2>3 DEF RequestIds
      <3>2. \A i \in RequestIds : doneHandlers'[i] = IF i = requestCounter THEN c ELSE doneHandlers[i]
        BY <2>3 DEF TypeOK
      <3>3. ASSUME NEW i \in RequestIds, doneHandlers'[i] # NoCall
            PROVE  i < requestCounter' /\ doneHandlers'[i] \in Calls' /\ answers'[doneHandlers'[i]] = <<>>
        BY <1>1, <1>5, <1>8, <2>1, <2>3, <3>1, <3>2, <3>3 DEF AnswersInv, HandlersWait
      <3>4. ASSUME NEW i \in RequestIds, NEW j \in RequestIds, doneHandlers'[i] = doneHandlers'[j],
                   doneHandlers'[i] # NoCall
            PROVE  i = j
        BY <1>9, <3>2, <3>4 DEF AnswersInv, HandlersWait
      <3>5. QED
        BY <3>3, <3>4 DEF HandlersWait
    <2>4. QED
      BY <1>3, <2>2, <2>3 DEF doRequest
  <1>14. QueuedWait'
    <2>1. CASE ready
      BY <1>2, <1>3, <2>1 DEF doRequest, AnswersInv, QueuedWait
    <2>2. CASE ~ready
      <3>1. requestQueue' = Append(requestQueue, c) /\ answers' = answers
        BY <1>3, <2>2 DEF doRequest
      <3>2. requestQueue \in Seq(CallIds)
        BY DEF TypeOK
      <3>3. /\ Len(requestQueue) \in Nat /\ Len(requestQueue') = Len(requestQueue) + 1
            /\ \A i \in 1 .. Len(requestQueue) : requestQueue'[i] = requestQueue[i]
            /\ requestQueue'[Len(requestQueue) + 1] = c
            /\ \A i \in 1 .. Len(requestQueue') :
                  i \in 1 .. Len(requestQueue) \/ i = Len(requestQueue) + 1
        BY <1>1, <3>1, <3>2, AppendElements
      <3>4. \A i \in 1 .. Len(requestQueue) : requestQueue[i] \in Calls /\ requestQueue[i] # c
        BY <1>1 DEF AnswersInv, QueuedWait
      <3>5. \A i \in 1 .. Len(requestQueue') :
               requestQueue'[i] \in Calls' /\ answers'[requestQueue'[i]] = <<>>
        BY <1>1, <1>8, <3>1, <3>3, <3>4 DEF AnswersInv, QueuedWait
      <3>6. \A i, j \in 1 .. Len(requestQueue') : requestQueue'[i] = requestQueue'[j] => i = j
        BY <3>3, <3>4 DEF AnswersInv, QueuedWait
      <3>7. QED
        BY <1>2, <2>2, <3>5, <3>6 DEF QueuedWait
    <2>3. QED
      BY <2>1, <2>2
  <1>15. Unconnected'
    BY <1>2, <1>3 DEF doRequest, AnswersInv, Unconnected
  <1>16. Answered'
    <2>1. CASE answers' = answers
      BY <1>1, <2>1 DEF AnswersInv, Answered
    <2>2. CASE answers' = [answers EXCEPT ![c] = Append(@, [of |-> c, ok |-> FALSE])]
      <3>1. answers'[c] = Append(<<>>, [of |-> c, ok |-> FALSE])
        BY <1>1, <1>8, <2>2 DEF TypeOK
      <3>2. Len(answers'[c]) = 1 /\ answers'[c][1].of = c
        BY <3>1
      <3>3. \A d \in CallIds \ {c} : answers'[d] = answers[d]
        BY <2>2 DEF TypeOK
      <3>4. QED
        BY <1>1, <3>2, <3>3 DEF AnswersInv, Answered
    <2>3. QED
      BY <1>3, <2>1, <2>2 DEF doRequest
  <1>17. \A s \in known : Runs(s)'
    BY <1>7 DEF AnswersInv
  <1>18. QED
    BY <1>2, <1>6, <1>11, <1>12, <1>13, <1>14, <1>15, <1>16, <1>17 DEF AnswersInv

-----------------------------------------------------------------------------
(* The events of the browser's web socket.                                 *)

(* The queued calls get the ids 0, 1, ... in their order.                  *)
LEMMA OpenAnswers ==
    ASSUME TypeOK, AnswersInv, onopen
    PROVE  TypeOK' /\ AnswersInv'
  <1> DEFINE n == Len(requestQueue)
             frame(i) == [id |-> i - 1, call |-> requestQueue[i], msg |-> calls[requestQueue[i]]]
  <1>0. n \in Nat /\ MaxRequests \in Nat
    BY WebSocketAssumption DEF TypeOK
  <1>1. /\ socket' = "open" /\ ready' = TRUE /\ n =< MaxRequests
        /\ toServer' = {frame(i) : i \in 1 .. n}
        /\ doneHandlers' = [i \in RequestIds |-> IF i < n THEN requestQueue[i + 1] ELSE NoCall]
        /\ requestCounter' = n /\ requestQueue' = <<>>
        /\ UNCHANGED <<failure, known, inHand, calls, answers, toClient, registry, tracking,
                       forwarded, closing>>
    BY Zenon DEF onopen
  <1>2. /\ \A i \in 1 .. n : requestQueue[i] \in Calls /\ requestQueue[i] \in CallIds
                             /\ answers[requestQueue[i]] = <<>> /\ requestQueue[i] # NoCall
        /\ \A i, j \in 1 .. n : requestQueue[i] = requestQueue[j] => i = j
    <2>1. \A i \in 1 .. n : requestQueue[i] \in CallIds
      BY <1>0 DEF TypeOK
    <2>2. NoCall \notin CallIds
      BY DEF NoCall, CallIds
    <2>3. QED
      BY <2>1, <2>2 DEF AnswersInv, QueuedWait
  <1>3. /\ toClient = <<>> /\ starting = {} /\ hostRequests = {} /\ known = {}
        /\ Results' = {} /\ Forwarded' = {} /\ Calls' = Calls
    BY <1>0, <1>1 DEF AnswersInv, Unconnected, onopen, Results, Frames, Forwarded, Calls, registry, tracking
  <1>4. \A i \in 1 .. n : i - 1 \in RequestIds /\ doneHandlers'[i - 1] = requestQueue[i]
    <2>1. \A i \in 1 .. n : i - 1 \in RequestIds /\ i - 1 < n /\ (i - 1) + 1 = i
      BY <1>0, <1>1 DEF RequestIds
    <2>2. QED
      BY <1>0, <1>1, <2>1
  <1>5. \A i \in 1 .. n : frame(i) \in ServerFrame
    <2>1. \A i \in 1 .. n : calls[requestQueue[i]] \in Message
      BY <1>2 DEF TypeOK, Calls
    <2>2. QED
      BY <1>2, <1>4, <2>1 DEF ServerFrame
  <1>6. TypeOK'
    <2>1. \A i \in RequestIds : doneHandlers'[i] \in CallIds \cup {NoCall}
      BY <1>0, <1>1, <1>2 DEF RequestIds
    <2>2. doneHandlers' \in [RequestIds -> CallIds \cup {NoCall}]
      BY <1>0, <1>1, <2>1
    <2>3. toServer' \subseteq ServerFrame
      BY <1>0, <1>1, <1>5
    <2>4. requestQueue' \in Seq(CallIds) /\ requestCounter' \in 0 .. MaxRequests
      BY <1>0, <1>1
    <2>5. QED
      BY <1>0, <1>1, <2>2, <2>3, <2>4 DEF TypeOK, registry, tracking, forwarded, closing
  <1>7. CallsNamed' /\ Answered'
    BY <1>0, <1>1, <1>3 DEF AnswersInv, CallsNamed, Answered
  <1>8. ASSUME NEW f \in toServer'
        PROVE  f.msg.kind # "reply" /\ Carries(f)' /\ calls'[f.call] = f.msg
    <2>1. PICK i \in 1 .. n : f = frame(i)
      BY <1>0, <1>1
    <2>2. f.id = i - 1 /\ f.call = requestQueue[i] /\ f.msg = calls[requestQueue[i]] /\ i - 1 < n
      BY <1>0, <2>1
    <2>3. Carries(f)'
      BY <1>0, <1>1, <1>2, <1>3, <1>4, <2>2 DEF Carries
    <2>4. QED
      BY <1>0, <1>1, <1>2, <2>2, <2>3 DEF AnswersInv, CallsNamed
  <1>9. RequestsCarried'
    BY <1>0, <1>1, <1>3, <1>8 DEF RequestsCarried, registry
  <1>10. ResultsCarried'
    BY <1>3 DEF ResultsCarried
  <1>11. HandlersWait'
    <2>1. ASSUME NEW i \in RequestIds, doneHandlers'[i] # NoCall
          PROVE  i < n /\ i + 1 \in 1 .. n /\ doneHandlers'[i] = requestQueue[i + 1]
      BY <1>0, <1>1, <2>1 DEF RequestIds
    <2>2. \A i \in RequestIds : doneHandlers'[i] # NoCall =>
             i < requestCounter' /\ doneHandlers'[i] \in Calls' /\ answers'[doneHandlers'[i]] = <<>>
      BY <1>0, <1>1, <1>2, <1>3, <2>1
    <2>3. ASSUME NEW i \in RequestIds, NEW j \in RequestIds, doneHandlers'[i] = doneHandlers'[j],
                 doneHandlers'[i] # NoCall
          PROVE  i = j
      <3>1. i + 1 = j + 1
        BY <1>2, <2>1, <2>3
      <3>2. QED
        BY <3>1 DEF RequestIds
    <2>4. QED
      BY <2>2, <2>3 DEF HandlersWait
  <1>12. QueuedWait' /\ Unconnected' /\ \A s \in known' : Runs(s)'
    BY <1>0, <1>1, <1>3 DEF QueuedWait, Unconnected
  <1>13. QED
    BY <1>6, <1>7, <1>9, <1>10, <1>11, <1>12 DEF AnswersInv

LEMMA ErrorAnswers ==
    ASSUME TypeOK, AnswersInv, onerrorConnecting
    PROVE  TypeOK' /\ AnswersInv'
  <1> DEFINE Queued(c) == \E i \in 1 .. Len(requestQueue) : requestQueue[i] = c
  <1>1. /\ socket = "connecting" /\ socket' = "closed" /\ ready' = TRUE /\ failure' = TRUE
        /\ answers' = [c \in CallIds |-> IF Queued(c) THEN Append(answers[c], [of |-> c, ok |-> FALSE])
                                         ELSE answers[c]]
        /\ requestQueue' = <<>>
        /\ UNCHANGED <<requestCounter, doneHandlers, known, inHand, calls, toServer, toClient,
                       registry, tracking, forwarded, closing>>
    BY DEF onerrorConnecting
  <1>2. \A c \in CallIds : Queued(c) => c \in Calls /\ answers[c] = <<>>
    BY DEF AnswersInv, QueuedWait
  <1>3. /\ toServer = {} /\ toClient = <<>> /\ starting = {} /\ hostRequests = {} /\ known = {}
        /\ Results' = {} /\ Forwarded' = {} /\ Calls' = Calls
        /\ \A i \in RequestIds : doneHandlers[i] = NoCall
    BY <1>1 DEF AnswersInv, Unconnected, Results, Frames, Forwarded, Calls, registry, tracking
  <1> HIDE DEF Queued
  <1>4. TypeOK'
    <2>1. ASSUME NEW c \in CallIds
          PROVE  answers'[c] \in Seq([of : CallIds \cup {NoCall}, ok : BOOLEAN])
      <3>1. [of |-> c, ok |-> FALSE] \in [of : CallIds \cup {NoCall}, ok : BOOLEAN]
        OBVIOUS
      <3>2. answers[c] \in Seq([of : CallIds \cup {NoCall}, ok : BOOLEAN])
        BY DEF TypeOK
      <3>3. QED
        BY <1>1, <3>1, <3>2, AppendElements
    <2>2. answers' \in [CallIds -> Seq([of : CallIds \cup {NoCall}, ok : BOOLEAN])]
      BY <1>1, <2>1
    <2>3. requestQueue' \in Seq(CallIds)
      BY <1>1
    <2>4. QED
      BY <1>1, <2>2, <2>3 DEF TypeOK, registry, tracking, forwarded, closing
  <1>5. CallsNamed' /\ RequestsCarried' /\ ResultsCarried' /\ HandlersWait' /\ QueuedWait'
        /\ Unconnected' /\ \A s \in known' : Runs(s)'
    BY <1>1, <1>3 DEF AnswersInv, CallsNamed, RequestsCarried, ResultsCarried, HandlersWait,
       QueuedWait, Unconnected, registry
  <1>6. Answered'
    <2>1. ASSUME NEW c \in CallIds, Queued(c)
          PROVE  c \in Calls /\ Len(answers'[c]) = 1 /\ answers'[c][1].of = c
      <3>1. answers'[c] = Append(<<>>, [of |-> c, ok |-> FALSE])
        BY <1>1, <1>2, <2>1
      <3>2. QED
        BY <1>2, <2>1, <3>1
    <2>2. ASSUME NEW c \in CallIds, ~Queued(c) PROVE answers'[c] = answers[c]
      BY <1>1, <2>2
    <2>3. QED
      BY <1>3, <2>1, <2>2 DEF AnswersInv, Answered
  <1>7. QED
    BY <1>4, <1>5, <1>6 DEF AnswersInv

(* A result is given to the call it answers, or dropped.                   *)
LEMMA ResultAnswers ==
    ASSUME TypeOK, AnswersInv, onmessageResult
    PROVE  TypeOK' /\ AnswersInv'
  <1> DEFINE f == Head(toClient)
             c == doneHandlers[f.id]
  <1>1. /\ toClient # <<>> /\ f.type = "result" /\ toClient' = Tail(toClient)
        /\ UNCHANGED <<ready, failure, requestQueue, requestCounter, inHand, calls, socket,
                       toServer, registry, tracking, forwarded, closing>>
    BY DEF onmessageResult
  <1>2. IF c # NoCall
        THEN /\ answers' = [answers EXCEPT ![c] = Append(@, [of |-> f.call, ok |-> f.ok])]
             /\ doneHandlers' = [doneHandlers EXCEPT ![f.id] = NoCall]
             /\ known' = IF calls[c].kind = "create" /\ f.ok THEN known \cup {f.svc} ELSE known
        ELSE UNCHANGED <<answers, doneHandlers, known>>
    BY DEF onmessageResult
  <1>3. toClient \in Seq(ClientFrame)
    BY DEF TypeOK
  <1>4. toClient' \in Seq(ClientFrame) /\ Frames' \subseteq Frames /\ f \in Frames
    BY <1>1, <1>3, TailElements DEF Frames
  <1>5. f \in Results /\ Results' \subseteq Results
    BY <1>1, <1>4 DEF Results
  <1>6. f.id \in RequestIds /\ f.ok \in BOOLEAN /\ Carries(f) /\ Calls' = Calls
    BY <1>1, <1>5, ResultTypes DEF AnswersInv, ResultsCarried, Calls
  <1>7. UNCHANGED <<ready, requestQueue, requestCounter, inHand, calls, socket, toServer,
                    starting, hostRequests, attached, Forwarded>>
    BY <1>1 DEF registry, tracking, Forwarded
  <1> HIDE DEF f, c
  <1>8. CASE c = NoCall
    <2>1. UNCHANGED <<answers, doneHandlers, known>>
      BY <1>2, <1>8
    <2>2. TypeOK'
      BY <1>1, <1>4, <2>1 DEF TypeOK, registry, tracking, forwarded, closing
    <2>3. ResultsCarried'
      BY <1>5, <1>6, <1>7, <2>1 DEF AnswersInv, ResultsCarried, Carries, Runs
    <2>4. RequestsCarried'
      BY <1>6, <1>7, <2>1 DEF AnswersInv, RequestsCarried, Carries
    <2>5. CallsNamed' /\ HandlersWait' /\ QueuedWait' /\ Answered'
      BY <1>6, <1>7, <2>1 DEF AnswersInv, CallsNamed, HandlersWait, QueuedWait, Answered
    <2>6. Unconnected' /\ \A s \in known' : Runs(s)'
      BY <1>1, <1>6, <1>7, <2>1 DEF AnswersInv, Unconnected, Runs
    <2>7. QED
      BY <2>2, <2>3, <2>4, <2>5, <2>6 DEF AnswersInv
  <1>9. CASE c # NoCall
    <2>1. /\ c = f.call /\ c \in Calls /\ c \in CallIds /\ answers[c] = <<>>
          /\ \A i \in RequestIds \ {f.id} : doneHandlers[i] # c
      BY <1>6, <1>9 DEF c, Carries, TypeOK, AnswersInv, HandlersWait
    <2>2. /\ answers' = [answers EXCEPT ![c] = Append(@, [of |-> c, ok |-> f.ok])]
          /\ doneHandlers' = [doneHandlers EXCEPT ![f.id] = NoCall]
          /\ known' = IF calls[c].kind = "create" /\ f.ok THEN known \cup {f.svc} ELSE known
      BY <1>2, <1>9, <2>1
    <2>3. /\ answers'[c] = <<[of |-> c, ok |-> f.ok]>>
          /\ \A d \in CallIds \ {c} : answers'[d] = answers[d]
      <3>1. answers'[c] = Append(<<>>, [of |-> c, ok |-> f.ok])
        BY <2>1, <2>2 DEF TypeOK
      <3>2. QED
        BY <2>2, <3>1 DEF TypeOK
    <2>4. \A i \in RequestIds : doneHandlers'[i] = IF i = f.id THEN NoCall ELSE doneHandlers[i]
      BY <2>2 DEF TypeOK
    <2>5. calls[c].kind = "create" /\ f.ok => f.svc \in Services /\ Runs(f.svc)
      BY <1>5, <2>1 DEF AnswersInv, ResultsCarried
    <2>6. TypeOK'
      <3>1. answers' \in [CallIds -> Seq([of : CallIds \cup {NoCall}, ok : BOOLEAN])]
        <4> DEFINE A == [of : CallIds \cup {NoCall}, ok : BOOLEAN]
        <4>1. [of |-> c, ok |-> f.ok] \in A /\ answers \in [CallIds -> Seq(A)]
          BY <1>6, <2>1 DEF TypeOK
        <4> HIDE DEF A
        <4>2. answers'[c] \in Seq(A)
          BY <2>3, <4>1
        <4>3. answers' \in [CallIds -> Seq(A)]
          BY <2>2, <2>3, <4>1, <4>2
        <4>4. QED
          BY <4>3 DEF A
      <3>2. doneHandlers' \in [RequestIds -> CallIds \cup {NoCall}]
        BY <2>2 DEF TypeOK
      <3>3. known' \subseteq Services
        BY <2>2, <2>5 DEF TypeOK
      <3>4. QED
        BY <1>1, <1>4, <3>1, <3>2, <3>3 DEF TypeOK, registry, tracking, forwarded, closing
    <2>7. \A s : Runs(s)' <=> Runs(s)
      BY <1>6, <1>7 DEF Runs
    <2>8. ASSUME NEW x, x.id \in RequestIds, Carries(x) PROVE Carries(x)'
      BY <1>6, <1>7, <2>4, <2>8 DEF Carries
    <2>9. ResultsCarried'
      <3>1. \A g \in Results : g.id \in RequestIds
        BY ResultTypes
      <3>2. QED
        BY <1>5, <1>7, <2>7, <2>8, <3>1 DEF AnswersInv, ResultsCarried
    <2>10. RequestsCarried'
      <3>1. /\ \A g \in toServer : g.id \in RequestIds
            /\ \A t \in starting : t.id \in RequestIds
            /\ \A r \in Forwarded : r.id \in RequestIds
        BY DEF TypeOK, ServerFrame, HostRequest, Forwarded
      <3>2. QED
        BY <1>7, <2>8, <3>1 DEF AnswersInv, RequestsCarried
    <2>11. CallsNamed' /\ HandlersWait'
      <3>1. \A i \in RequestIds : doneHandlers'[i] # NoCall =>
               doneHandlers'[i] = doneHandlers[i] /\ doneHandlers[i] # c
        BY <2>1, <2>4
      <3>2. \A i \in RequestIds : doneHandlers[i] # NoCall => doneHandlers[i] \in CallIds
        BY DEF TypeOK
      <3>3. QED
        BY <1>6, <1>7, <2>3, <3>1, <3>2 DEF AnswersInv, CallsNamed, HandlersWait
    <2>12. ready
      BY <1>6, <1>9 DEF c, AnswersInv, Unconnected
    <2>13. QueuedWait' /\ Unconnected'
      BY <1>7, <2>12 DEF AnswersInv, QueuedWait, Unconnected
    <2>14. Answered'
      <3>1. Len(answers'[c]) = 1 /\ answers'[c][1].of = c
        BY <2>3
      <3>2. QED
        BY <1>6, <2>1, <2>3, <3>1 DEF AnswersInv, Answered
    <2>15. \A s \in known' : Runs(s)'
      BY <2>2, <2>5, <2>7 DEF AnswersInv
    <2>16. QED
      BY <2>6, <2>9, <2>10, <2>11, <2>13, <2>14, <2>15 DEF AnswersInv
  <1>10. QED
    BY <1>8, <1>9

LEMMA RequestAnswers ==
    ASSUME TypeOK, AnswersInv, onmessageRequest
    PROVE  TypeOK' /\ AnswersInv'
  <1> DEFINE f == Head(toClient)
  <1>1. /\ toClient # <<>> /\ f.type = "request" /\ toClient' = Tail(toClient)
        /\ inHand' = IF f.svc \in known THEN inHand \cup {<<f.svc, f.op>>} ELSE inHand
        /\ UNCHANGED <<ready, failure, requestQueue, requestCounter, doneHandlers, known, calls,
                       answers, socket, toServer, registry, tracking, forwarded, closing>>
    BY DEF onmessageRequest
  <1>2. toClient \in Seq(ClientFrame)
    BY DEF TypeOK
  <1>3. toClient' \in Seq(ClientFrame) /\ Frames' \subseteq Frames /\ f \in ClientFrame
    BY <1>1, <1>2, TailElements DEF Frames
  <1>4. f.svc \in Services /\ f.op \in Ops
    BY <1>1, <1>3 DEF ClientFrame
  <1> HIDE DEF f
  <1>5. TypeOK'
    <2>1. inHand' \subseteq Services \X Ops
      BY <1>1, <1>4 DEF TypeOK
    <2>2. QED
      BY <1>1, <1>3, <2>1 DEF TypeOK, registry, tracking, forwarded, closing
  <1>6. Results' \subseteq Results
    BY <1>3 DEF Results
  <1>0. ready
    BY <1>1 DEF AnswersInv, Unconnected
  <1>7. UNCHANGED <<ready, requestQueue, requestCounter, doneHandlers, known, calls, answers,
                    socket, toServer, starting, hostRequests, attached, Forwarded, Calls>>
    BY <1>1 DEF registry, tracking, Forwarded, Calls
  <1>8. ResultsCarried'
    BY <1>6, <1>7 DEF AnswersInv, ResultsCarried, Carries, Runs
  <1>9. CallsNamed' /\ RequestsCarried' /\ HandlersWait' /\ QueuedWait' /\ Unconnected' /\ Answered'
    BY <1>0, <1>7 DEF AnswersInv, CallsNamed, RequestsCarried, Carries, HandlersWait, QueuedWait,
       Unconnected, Answered
  <1>10. \A s \in known' : Runs(s)'
    BY <1>7 DEF AnswersInv, Runs
  <1>11. QED
    BY <1>5, <1>8, <1>9, <1>10 DEF AnswersInv

(* A REPLY takes an id nobody waits for.                                   *)
LEMMA ReplyAnswers ==
    ASSUME TypeOK, AnswersInv, NEW s \in Services, NEW o \in Ops, completeRequest(s, o)
    PROVE  TypeOK' /\ AnswersInv'
  <1> DEFINE g == [id |-> requestCounter, call |-> NoCall, msg |-> message("reply", s, NoPublisher, o)]
  <1>1. /\ <<s, o>> \in inHand /\ requestCounter < MaxRequests
        /\ requestCounter' = requestCounter + 1 /\ send({g})
        /\ UNCHANGED <<ready, failure, requestQueue, doneHandlers, known, inHand, calls, answers,
                       socket, toClient, registry, tracking, forwarded, closing>>
    BY DEF completeRequest
  <1>2. requestCounter \in RequestIds /\ requestCounter \in Nat /\ MaxRequests \in Nat
    BY <1>1, WebSocketAssumption DEF TypeOK, RequestIds
  <1>3. g \in ServerFrame /\ g.msg.kind = "reply" /\ g.msg.svc = s /\ g.msg.op = o
    BY <1>2 DEF ServerFrame, Message, message
  <1> HIDE DEF g
  <1>4. TypeOK'
    <2>1. toServer' \subseteq ServerFrame
      BY <1>1, <1>3 DEF TypeOK, send
    <2>2. requestCounter' \in 0 .. MaxRequests
      BY <1>1, <1>2
    <2>3. QED
      BY <1>1, <2>1, <2>2 DEF TypeOK, registry, tracking, forwarded, closing
  <1>0. ready
    BY <1>1 DEF AnswersInv, Unconnected
  <1>5. UNCHANGED <<ready, requestQueue, doneHandlers, known, inHand, calls, answers, socket,
                    toClient, starting, hostRequests, attached, Forwarded, Calls, Results>>
    BY <1>1 DEF registry, tracking, Forwarded, Calls, Results, Frames
  <1>6. ASSUME NEW x, x.id \in RequestIds, Carries(x) PROVE Carries(x)'
    BY <1>1, <1>2, <1>5, <1>6 DEF Carries, RequestIds
  <1>7. ResultsCarried'
    BY <1>5, <1>6, ResultTypes DEF AnswersInv, ResultsCarried, Runs
  <1>8. RequestsCarried'
    <2>1. /\ \A h \in toServer : h.id \in RequestIds
          /\ \A t \in starting : t.id \in RequestIds
          /\ \A r \in Forwarded : r.id \in RequestIds
      BY DEF TypeOK, ServerFrame, HostRequest, Forwarded
    <2>2. \A h \in toServer' : h \in toServer \/ h = g
      BY <1>1 DEF send
    <2>3. QED
      BY <1>3, <1>5, <1>6, <2>1, <2>2 DEF AnswersInv, RequestsCarried
  <1>9. HandlersWait'
    <2>1. \A i \in RequestIds : i < requestCounter => i < requestCounter'
      BY <1>1, <1>2 DEF RequestIds
    <2>2. QED
      BY <1>5, <2>1 DEF AnswersInv, HandlersWait
  <1>10. CallsNamed' /\ QueuedWait' /\ Unconnected' /\ Answered'
    BY <1>0, <1>5 DEF AnswersInv, CallsNamed, QueuedWait, Unconnected, Answered
  <1>11. \A t \in known' : Runs(t)'
    BY <1>5 DEF AnswersInv, Runs
  <1>12. QED
    BY <1>4, <1>7, <1>8, <1>9, <1>10, <1>11 DEF AnswersInv

-----------------------------------------------------------------------------
(* The steps of the server, as the browser's calls are concerned: a        *)
(* request or a result that is new has the id and the call of one that was *)
(* there, and a service ends with the connection or after a stop.          *)
ServesCalls ==
    /\ UNCHANGED browser
    /\ toServer' \subseteq toServer
    /\ ready \/ UNCHANGED <<socket, toServer, toClient, starting, hostRequests>>
    /\ socket' = socket \/ socket' = "closed"
    /\ \A t \in starting' \ starting : Carries(t) /\ calls[t.call].kind = "create"
    /\ \A r \in Forwarded' \ Forwarded :
          Carries(r) /\ calls[r.call].kind \in {"subscribe", "unsubscribe"}
    /\ \A f \in Results' \ Results :
          Carries(f) /\ (calls[f.call].kind = "create" /\ f.ok => f.svc \in Services /\ Runs(f.svc)')
    /\ \A s : Runs(s) => Runs(s)'

LEMMA ServesAnswers ==
    ASSUME AnswersInv, ServesCalls
    PROVE  AnswersInv'
  <1>1. UNCHANGED <<ready, requestQueue, requestCounter, doneHandlers, known, inHand, calls,
                    answers, Calls>>
    BY DEF ServesCalls, browser, Calls
  <1>2. \A x : Carries(x)' <=> Carries(x)
    BY <1>1 DEF Carries
  <1>3. RequestsCarried'
    BY <1>1, <1>2 DEF AnswersInv, RequestsCarried, ServesCalls
  <1>4. ResultsCarried'
    BY <1>1, <1>2 DEF AnswersInv, ResultsCarried, ServesCalls
  <1>5. CallsNamed' /\ HandlersWait' /\ QueuedWait' /\ Answered'
    BY <1>1 DEF AnswersInv, CallsNamed, HandlersWait, QueuedWait, Answered
  <1>6. Unconnected'
    BY <1>1 DEF AnswersInv, Unconnected, ServesCalls
  <1>7. \A s \in known' : Runs(s)'
    BY <1>1 DEF AnswersInv, ServesCalls
  <1>8. QED
    BY <1>3, <1>4, <1>5, <1>6, <1>7 DEF AnswersInv

(* write: a new frame at most.                                             *)
LEMMA WriteFrames ==
    ASSUME TypeOK, NEW g \in ClientFrame, write(g)
    PROVE  /\ toClient' \in Seq(ClientFrame)
           /\ \A f \in Results' \ Results : f = g
           /\ socket = "connecting" => toClient' = toClient
  <1>1. toClient \in Seq(ClientFrame)
    BY DEF TypeOK
  <1>2. CASE socket = "open"
    <2>1. toClient' = Append(toClient, g)
      BY <1>2 DEF write
    <2>2. /\ toClient' \in Seq(ClientFrame)
          /\ \A i \in 1 .. Len(toClient) : toClient'[i] = toClient[i]
          /\ toClient'[Len(toClient) + 1] = g
          /\ \A i \in 1 .. Len(toClient') : i \in 1 .. Len(toClient) \/ i = Len(toClient) + 1
      BY <1>1, <2>1, AppendElements
    <2>3. Frames' \subseteq Frames \cup {g}
      BY <2>2 DEF Frames
    <2>4. QED
      BY <1>2, <2>2, <2>3 DEF Results
  <1>3. CASE socket # "open"
    BY <1>1, <1>3 DEF write, Results, Frames
  <1>4. QED
    BY <1>2, <1>3

(* Whatever the server handles, the connection has been opened before.     *)
LEMMA Connected ==
    ASSUME AnswersInv
    PROVE  toServer # {} \/ starting # {} \/ hostRequests # {} \/ toClient # <<>>
             \/ socket # "connecting" => ready
  BY DEF AnswersInv, Unconnected

LEMMA CreateServes ==
    ASSUME TypeOK, AnswersInv, NEW f \in toServer, NEW s \in Services, handleCreate(f, s)
    PROVE  TypeOK' /\ ServesCalls
  <1> DEFINE t == [svc |-> s, id |-> f.id, call |-> f.call]
  <1>1. /\ f.msg.kind = "create" /\ starting' = starting \cup {t} /\ created' = created \cup {s}
        /\ putting' = putting \cup {s} /\ toServer' = toServer \ {f}
        /\ UNCHANGED <<browser, socket, toClient, attached, webSocketServices, tracking,
                       forwarded, closing>>
    BY DEF handleCreate
  <1>2. f \in ServerFrame /\ Carries(f) /\ calls[f.call].kind = "create"
    BY <1>1 DEF TypeOK, AnswersInv, RequestsCarried
  <1>3. f.id \in RequestIds /\ f.call \in CallIds
    BY <1>2 DEF ServerFrame, Carries, Calls, CallIds, NoCall
  <1>4. t.svc = s /\ t.id = f.id /\ t.call = f.call
        /\ t \in [svc : Services, id : RequestIds, call : CallIds]
    BY <1>3
  <1> HIDE DEF t
  <1>5. TypeOK'
    BY <1>1, <1>4 DEF TypeOK, browser, tracking, forwarded, closing
  <1>6. UNCHANGED <<calls, hostRequests, Results, Forwarded, Calls>>
    BY <1>1 DEF browser, tracking, Results, Frames, Forwarded, Calls
  <1>7. ready
    BY Connected
  <1>8. \A x : Runs(x)' <=> Runs(x)
    BY <1>1, <1>6 DEF Runs
  <1>9. Carries(t)
    BY <1>2, <1>4 DEF Carries
  <1>10. QED
    BY <1>1, <1>2, <1>4, <1>5, <1>6, <1>7, <1>8, <1>9 DEF ServesCalls

LEMMA PutServes ==
    ASSUME TypeOK, NEW s \in Services, putService(s)
    PROVE  TypeOK' /\ ServesCalls
  <1>1. TypeOK'
    BY DEF putService, TypeOK, browser, tracking, forwarded, closing
  <1>2. UNCHANGED <<browser, calls, socket, toServer, toClient, starting, attached, hostRequests,
                    Results, Forwarded, Calls>>
    BY DEF putService, browser, tracking, Results, Frames, Forwarded, Calls
  <1>3. \A x : Runs(x)' <=> Runs(x)
    BY <1>2 DEF Runs
  <1>4. QED
    BY <1>1, <1>2, <1>3 DEF ServesCalls

LEMMA StartServes ==
    ASSUME TypeOK, AnswersInv, NEW t \in starting, NEW ok \in BOOLEAN, startCompleted(t, ok)
    PROVE  TypeOK' /\ ServesCalls
  <1> DEFINE g == result(t, ok, IF ok THEN t.svc ELSE NoService)
  <1>1. /\ starting' = starting \ {t} /\ write(g)
        /\ attached' = IF ok THEN attached \cup {t.svc} ELSE attached
        /\ UNCHANGED <<browser, socket, toServer, created, putting, webSocketServices, tracking,
                       forwarded, closing>>
    BY DEF startCompleted
  <1>2. t.svc \in Services /\ t.id \in RequestIds /\ t.call \in CallIds /\ Carries(t)
    BY DEF TypeOK, AnswersInv, RequestsCarried
  <1>3. /\ g.id = t.id /\ g.call = t.call /\ g.ok = ok /\ (ok => g.svc = t.svc)
        /\ g \in ClientFrame
    BY <1>2 DEF result, ClientFrame
  <1> HIDE DEF g
  <1>4. toClient' \in Seq(ClientFrame) /\ \A f \in Results' \ Results : f = g
    BY <1>1, <1>3, WriteFrames
  <1>5. TypeOK'
    <2>1. attached' \subseteq Services
      BY <1>1, <1>2 DEF TypeOK
    <2>2. QED
      BY <1>1, <1>4, <2>1 DEF TypeOK, browser, tracking, forwarded, closing
  <1>6. UNCHANGED <<calls, hostRequests, Forwarded, Calls>>
    BY <1>1 DEF browser, tracking, Forwarded, Calls
  <1>7. /\ \A x : Runs(x) => Runs(x)'
        /\ ok => Runs(t.svc)'
    BY <1>1, <1>6 DEF Runs
  <1>8. Carries(g)
    BY <1>2, <1>3 DEF Carries
  <1>9. ready
    BY Connected
  <1>10. g.ok => g.svc \in Services /\ Runs(g.svc)'
    BY <1>2, <1>3, <1>7 DEF Runs
  <1>11. QED
    BY <1>1, <1>4, <1>5, <1>6, <1>7, <1>8, <1>9, <1>10 DEF ServesCalls

(* handleSubscribe and handleUnsubscribe.                                  *)
Forwards(f, method) ==
    /\ f.msg.kind \in {"subscribe", "unsubscribe"} /\ method \in {"POST", "DELETE"}
    /\ forward(f, method)
    /\ toServer' = toServer \ {f}
    /\ UNCHANGED <<browser, socket, toClient, registry, entries, paths, subscribers,
                   forwarded, closing>>

LEMMA ForwardServes ==
    ASSUME TypeOK, AnswersInv, NEW f \in toServer, NEW method, Forwards(f, method)
    PROVE  TypeOK' /\ ServesCalls
  <1> DEFINE q == [method |-> method, svc |-> f.msg.svc, pub |-> f.msg.pub, id |-> f.id,
                   call |-> f.call, phase |-> "sent", ok |-> FALSE]
  <1>1. /\ f.msg.kind \in {"subscribe", "unsubscribe"} /\ method \in {"POST", "DELETE"}
        /\ toServer' = toServer \ {f}
        /\ UNCHANGED <<browser, socket, toClient, registry, entries, paths, subscribers,
                       forwarded, closing>>
    BY DEF Forwards
  <1>2. /\ hostRequests' = hostRequests \cup {q} \/ hostRequests' = hostRequests
        /\ raced' = raced \/ raced' = raced \cup {<<f.msg.svc, f.msg.pub>>}
    BY DEF Forwards, forward
  <1>3. f \in ServerFrame /\ Carries(f) /\ calls[f.call] = f.msg
    BY <1>1 DEF TypeOK, AnswersInv, RequestsCarried
  <1>4. f.id \in RequestIds /\ f.call \in CallIds /\ f.msg.svc \in Services /\ f.msg.pub \in Publishers
    BY <1>1, <1>3 DEF ServerFrame, Carries, Calls, CallIds, NoCall, AnswersInv, CallsNamed
  <1>5. q.id = f.id /\ q.call = f.call /\ q \in HostRequest
    BY <1>1, <1>4 DEF HostRequest
  <1> HIDE DEF q
  <1>6. TypeOK'
    <2>1. hostRequests' \subseteq HostRequest /\ raced' \subseteq Services \X Publishers
      BY <1>2, <1>4, <1>5 DEF TypeOK
    <2>2. QED
      BY <1>1, <2>1 DEF TypeOK, browser, registry, forwarded, closing
  <1>7. UNCHANGED <<calls, starting, attached, Calls, Results>>
    BY <1>1 DEF browser, registry, Calls, Results, Frames
  <1>8. \A r \in Forwarded' \ Forwarded : r = q
    BY <1>2 DEF Forwarded
  <1>9. Carries(q) /\ calls[q.call].kind \in {"subscribe", "unsubscribe"}
    BY <1>1, <1>3, <1>5 DEF Carries
  <1>10. \A x : Runs(x)' <=> Runs(x)
    BY <1>1, <1>7 DEF Runs
  <1>11. ready
    BY Connected
  <1>12. QED
    BY <1>1, <1>6, <1>7, <1>8, <1>9, <1>10, <1>11 DEF ServesCalls

(* The unsubscriptions of a service that ends.                             *)
Unsubscriptions(s) ==
    {[method |-> "DELETE", svc |-> s, pub |-> p, id |-> NoRequest, call |-> NoCall,
      phase |-> "sent", ok |-> FALSE] : p \in paths[s]}

LEMMA UnderwayTypes ==
    ASSUME TypeOK, NEW s \in Services
    PROVE  UnderwayFor(s) \subseteq Services \X Publishers
  BY DEF UnderwayFor

LEMMA DeleteTypes ==
    ASSUME TypeOK, NEW s \in Services, deleteServiceSubscriptions(s)
    PROVE  /\ entries' \subseteq Services /\ paths' \in [Services -> SUBSET Publishers]
           /\ hostRequests' \subseteq HostRequest /\ raced' \subseteq Services \X Publishers
           /\ hostRequests' = hostRequests \cup Unsubscriptions(s)
           /\ Forwarded' = Forwarded
  <1>1. hostRequests' = hostRequests \cup Unsubscriptions(s)
    BY DEF deleteServiceSubscriptions, Unsubscriptions
  <1>2. ASSUME NEW r \in Unsubscriptions(s) PROVE r \in HostRequest /\ r.id = NoRequest
    <2>1. PICK p \in paths[s] :
             r = [method |-> "DELETE", svc |-> s, pub |-> p, id |-> NoRequest, call |-> NoCall,
                  phase |-> "sent", ok |-> FALSE]
      BY DEF Unsubscriptions
    <2>2. p \in Publishers
      BY DEF TypeOK
    <2>3. QED
      BY <2>1, <2>2 DEF HostRequest
  <1>3. Forwarded' = Forwarded
    BY <1>1, <1>2 DEF Forwarded
  <1>4. raced' \subseteq Services \X Publishers
    BY UnderwayTypes DEF deleteServiceSubscriptions, TypeOK
  <1>5. entries' \subseteq Services /\ paths' \in [Services -> SUBSET Publishers]
    BY DEF deleteServiceSubscriptions, TypeOK
  <1>6. QED
    BY <1>1, <1>2, <1>3, <1>4, <1>5 DEF TypeOK

LEMMA StopServes ==
    ASSUME TypeOK, AnswersInv, NEW f \in toServer, handleStop(f)
    PROVE  TypeOK' /\ ServesCalls /\ f.msg.svc \in Services
  <1>1. /\ f.msg.kind = "stop" /\ toServer' = toServer \ {f}
        /\ UNCHANGED <<browser, socket, created, starting, putting, subscribers, forwarded, closing>>
    BY DEF handleStop
  <1>2. f \in ServerFrame /\ Carries(f) /\ calls[f.call] = f.msg /\ f.call \in Calls
    BY <1>1 DEF TypeOK, AnswersInv, RequestsCarried, Carries
  <1>3. f.msg.svc \in Services /\ f.id \in RequestIds /\ f.call \in CallIds \cup {NoCall}
    BY <1>1, <1>2 DEF ServerFrame, AnswersInv, CallsNamed
  <1>4. ASSUME NEW ok \in BOOLEAN, NEW g, g = result(f, ok, NoService)
        PROVE  g \in ClientFrame /\ Carries(g) /\ calls[g.call].kind = "stop"
    <2>1. g \in ClientFrame /\ g.id = f.id /\ g.call = f.call
      BY <1>3, <1>4 DEF result, ClientFrame
    <2>2. QED
      BY <1>1, <1>2, <2>1 DEF Carries
  <1>5. UNCHANGED <<calls, Calls>>
    BY <1>1 DEF browser, Calls
  <1>6. \A x : Runs(x) /\ (x \in attached => x \in attached' \/ x = f.msg.svc) => Runs(x)'
    BY <1>1, <1>2, <1>5 DEF Runs
  <1>7. ready
    BY Connected
  <1>8. CASE /\ f.msg.svc \in webSocketServices /\ f.msg.svc \in entries
             /\ deleteServiceSubscriptions(f.msg.svc)
             /\ attached' = attached \ {f.msg.svc}
             /\ webSocketServices' = webSocketServices \ {f.msg.svc}
             /\ write(result(f, TRUE, NoService))
    <2>1. toClient' \in Seq(ClientFrame)
          /\ \A h \in Results' \ Results : Carries(h) /\ calls[h.call].kind = "stop"
      BY <1>4, <1>8, WriteFrames
    <2>2. /\ entries' \subseteq Services /\ paths' \in [Services -> SUBSET Publishers]
          /\ hostRequests' \subseteq HostRequest /\ raced' \subseteq Services \X Publishers
          /\ Forwarded' = Forwarded
      BY <1>3, <1>8, DeleteTypes
    <2>3. TypeOK'
      BY <1>1, <1>8, <2>1, <2>2 DEF TypeOK, browser, forwarded, closing
    <2>4. \A x : Runs(x) => Runs(x)'
      BY <1>6, <1>8
    <2>5. QED
      BY <1>1, <1>3, <1>7, <2>1, <2>2, <2>3, <2>4 DEF ServesCalls
  <1>9. CASE /\ f.msg.svc \in webSocketServices /\ f.msg.svc \notin entries
             /\ webSocketServices' = webSocketServices \ {f.msg.svc}
             /\ raced' = raced \cup UnderwayFor(f.msg.svc)
             /\ UNCHANGED <<entries, paths, hostRequests, attached, toClient>>
    <2>1. UNCHANGED <<Results, Forwarded>>
      BY <1>9 DEF Results, Frames, Forwarded
    <2>2. raced' \subseteq Services \X Publishers
      BY <1>3, <1>9, UnderwayTypes DEF TypeOK
    <2>3. TypeOK'
      BY <1>1, <1>9, <2>2 DEF TypeOK, browser, forwarded, closing
    <2>4. \A x : Runs(x) => Runs(x)'
      BY <1>6, <1>9
    <2>5. QED
      BY <1>1, <1>3, <1>7, <2>1, <2>3, <2>4 DEF ServesCalls
  <1>10. CASE /\ f.msg.svc \notin webSocketServices
              /\ write(result(f, FALSE, NoService))
              /\ UNCHANGED <<entries, paths, hostRequests, raced, attached, webSocketServices>>
    <2>1. toClient' \in Seq(ClientFrame)
          /\ \A h \in Results' \ Results : Carries(h) /\ calls[h.call].kind = "stop"
      BY <1>4, <1>10, WriteFrames
    <2>2. UNCHANGED Forwarded
      BY <1>10 DEF Forwarded
    <2>3. TypeOK'
      BY <1>1, <1>10, <2>1 DEF TypeOK, browser, forwarded, closing
    <2>4. \A x : Runs(x) => Runs(x)'
      BY <1>6, <1>10
    <2>5. QED
      BY <1>1, <1>3, <1>7, <2>1, <2>2, <2>3, <2>4 DEF ServesCalls
  <1>11. QED
    BY <1>8, <1>9, <1>10 DEF handleStop

LEMMA ReplyServes ==
    ASSUME TypeOK, AnswersInv, NEW f \in toServer, handleReply(f)
    PROVE  TypeOK' /\ ServesCalls /\ f.msg.svc \in Services /\ f.msg.op \in Ops
  <1>1. /\ f.msg.kind = "reply" /\ toServer' = toServer \ {f}
        /\ UNCHANGED <<browser, socket, toClient, registry, tracking, closing>>
    BY DEF handleReply
  <1>2. f.msg.svc \in Services /\ f.msg.op \in Ops
    BY <1>1 DEF AnswersInv, RequestsCarried
  <1>3. pendingOperations' \in [Services -> SUBSET Ops] /\ completions' \in [Ops -> Nat]
    <2>1. pendingOperations \in [Services -> SUBSET Ops] /\ completions \in [Ops -> Nat]
      BY DEF TypeOK
    <2>2. CASE UNCHANGED forwarded
      BY <2>1, <2>2 DEF forwarded
    <2>3. CASE /\ pendingOperations' = [pendingOperations EXCEPT ![f.msg.svc] = @ \ {f.msg.op}]
               /\ completions' = [completions EXCEPT ![f.msg.op] = @ + 1]
      BY <1>2, <2>1, <2>3
    <2>4. QED
      BY <2>2, <2>3 DEF handleReply
  <1>4. TypeOK'
    BY <1>1, <1>3 DEF TypeOK, browser, registry, tracking, closing
  <1>5. UNCHANGED <<calls, attached, starting, hostRequests, Results, Forwarded, Calls>>
    BY <1>1 DEF browser, registry, tracking, Results, Frames, Forwarded, Calls
  <1>6. \A x : Runs(x)' <=> Runs(x)
    BY <1>1, <1>5 DEF Runs
  <1>7. ready
    BY Connected
  <1>8. QED
    BY <1>1, <1>2, <1>4, <1>5, <1>6, <1>7 DEF ServesCalls

LEMMA OperationServes ==
    ASSUME TypeOK, AnswersInv, NEW s \in Services, NEW o \in Ops, handleRequest(s, o)
    PROVE  TypeOK' /\ ServesCalls
  <1> DEFINE g == [type |-> "request", svc |-> s, op |-> o]
  <1>1. UNCHANGED <<browser, socket, toServer, registry, tracking, closing>>
    BY DEF handleRequest
  <1>2. g \in ClientFrame /\ g.type = "request"
    BY DEF ClientFrame
  <1>3. write(g)
    BY DEF handleRequest, write
  <1> HIDE DEF g
  <1>4. /\ toClient' \in Seq(ClientFrame) /\ Results' \subseteq Results
        /\ socket = "connecting" => toClient' = toClient
    BY <1>2, <1>3, WriteFrames DEF Results
  <1>5. pendingOperations' \in [Services -> SUBSET Ops] /\ completions' \in [Ops -> Nat]
    <2>1. pendingOperations \in [Services -> SUBSET Ops] /\ completions \in [Ops -> Nat]
      BY DEF TypeOK
    <2>2. CASE socket = "open"
      BY <2>1, <2>2 DEF handleRequest
    <2>3. CASE socket # "open"
      BY <2>1, <2>3 DEF handleRequest
    <2>4. QED
      BY <2>2, <2>3
  <1>6. TypeOK'
    BY <1>1, <1>4, <1>5 DEF TypeOK, browser, registry, tracking, closing
  <1>7. UNCHANGED <<calls, attached, starting, hostRequests, Forwarded, Calls>>
    BY <1>1 DEF browser, registry, tracking, Forwarded, Calls
  <1>8. \A x : Runs(x)' <=> Runs(x)
    BY <1>1, <1>7 DEF Runs
  <1>9. ready \/ socket = "connecting"
    BY DEF AnswersInv, Unconnected
  <1>10. QED
    BY <1>1, <1>4, <1>6, <1>7, <1>8, <1>9 DEF ServesCalls

LEMMA PublisherServes ==
    ASSUME TypeOK, AnswersInv, NEW r \in hostRequests, NEW applied \in BOOLEAN, NEW ok \in BOOLEAN,
           handleSubscriptionsRequest(r, applied, ok)
    PROVE  TypeOK' /\ ServesCalls
  <1> DEFINE q == [r EXCEPT !.phase = "handled", !.ok = ok]
  <1>1. /\ hostRequests' = IF r.id = NoRequest THEN hostRequests \ {r} ELSE (hostRequests \ {r}) \cup {q}
        /\ raced' = IF ok THEN raced ELSE raced \cup {<<r.svc, r.pub>>}
        /\ UNCHANGED <<browser, socket, toServer, toClient, registry, entries, paths, forwarded,
                       closing>>
    BY DEF handleSubscriptionsRequest
  <1>2. r \in HostRequest
    BY DEF TypeOK
  <1>3. /\ q \in HostRequest /\ q.id = r.id /\ q.call = r.call
        /\ r.svc \in Services /\ r.pub \in Publishers
    BY <1>2 DEF HostRequest
  <1> HIDE DEF q
  <1>4. subscribers' \in [Publishers -> SUBSET Services]
    <2>1. subscribers \in [Publishers -> SUBSET Services]
      BY DEF TypeOK
    <2>2. r.method \in {"POST", "DELETE"}
      BY <1>2 DEF HostRequest
    <2>3. \/ subscribers' = [subscribers EXCEPT ![r.pub] = @]
          \/ subscribers' = [subscribers EXCEPT ![r.pub] = @ \cup {r.svc}]
          \/ subscribers' = [subscribers EXCEPT ![r.pub] = @ \ {r.svc}]
      BY <2>2 DEF handleSubscriptionsRequest
    <2>4. QED
      BY <1>3, <2>1, <2>3
  <1>5. TypeOK'
    <2>1. hostRequests' \subseteq HostRequest /\ raced' \subseteq Services \X Publishers
      BY <1>1, <1>3 DEF TypeOK
    <2>2. QED
      BY <1>1, <1>4, <2>1 DEF TypeOK, browser, registry, forwarded, closing
  <1>6. UNCHANGED <<calls, attached, starting, Results, Calls>>
    BY <1>1 DEF browser, registry, Results, Frames, Calls
  <1>7. \A h \in Forwarded' \ Forwarded : h = q /\ r \in Forwarded
    BY <1>1, <1>3 DEF Forwarded
  <1>8. r \in Forwarded => Carries(q) /\ calls[q.call].kind \in {"subscribe", "unsubscribe"}
    BY <1>3 DEF AnswersInv, RequestsCarried, Carries
  <1>9. \A x : Runs(x)' <=> Runs(x)
    BY <1>1, <1>6 DEF Runs
  <1>10. ready
    BY Connected
  <1>11. QED
    BY <1>1, <1>5, <1>6, <1>7, <1>8, <1>9, <1>10 DEF ServesCalls

LEMMA WriteServes ==
    ASSUME TypeOK, AnswersInv, TrackingInv, NEW r \in hostRequests, writeResult(r)
    PROVE  TypeOK' /\ ServesCalls
  <1> DEFINE q == [r EXCEPT !.phase = "written"]
             g == result(r, r.ok, NoService)
  <1>1. /\ hostRequests' = (hostRequests \ {r}) \cup {q} /\ write(g) /\ r.phase = "handled"
        /\ UNCHANGED <<browser, socket, toServer, registry, entries, paths, subscribers, raced,
                       forwarded, closing>>
    BY DEF writeResult
  <1>2. r \in HostRequest /\ r \in Forwarded
    BY <1>1 DEF TypeOK, TrackingInv, Forwarded
  <1>3. r.id \in RequestIds /\ Carries(r) /\ calls[r.call].kind \in {"subscribe", "unsubscribe"}
    BY <1>2 DEF HostRequest, Forwarded, AnswersInv, RequestsCarried
  <1>4. /\ q \in HostRequest /\ q.id = r.id /\ q.call = r.call
        /\ g \in ClientFrame /\ g.id = r.id /\ g.call = r.call
    BY <1>2, <1>3 DEF HostRequest, result, ClientFrame
  <1> HIDE DEF q, g
  <1>5. toClient' \in Seq(ClientFrame) /\ \A f \in Results' \ Results : f = g
    BY <1>1, <1>4, WriteFrames
  <1>6. TypeOK'
    <2>1. hostRequests' \subseteq HostRequest
      BY <1>1, <1>4 DEF TypeOK
    <2>2. QED
      BY <1>1, <1>5, <2>1 DEF TypeOK, browser, registry, forwarded, closing
  <1>7. UNCHANGED <<calls, attached, starting, Calls>>
    BY <1>1 DEF browser, registry, Calls
  <1>8. Carries(q) /\ Carries(g)
    BY <1>3, <1>4 DEF Carries
  <1>9. \A h \in Forwarded' \ Forwarded : h = q
    BY <1>1 DEF Forwarded
  <1>10. \A x : Runs(x)' <=> Runs(x)
    BY <1>1, <1>7 DEF Runs
  <1>11. ready
    BY Connected
  <1>12. QED
    BY <1>1, <1>3, <1>4, <1>5, <1>6, <1>7, <1>8, <1>9, <1>10, <1>11 DEF ServesCalls

LEMMA UpdateServes ==
    ASSUME TypeOK, AnswersInv, NEW r \in hostRequests, updateSubscriptions(r)
    PROVE  TypeOK' /\ ServesCalls
  <1>1. /\ hostRequests' = hostRequests \ {r}
        /\ UNCHANGED <<browser, socket, toServer, toClient, registry, subscribers, raced,
                       forwarded, closing>>
    BY DEF updateSubscriptions
  <1>2. r.svc \in Services /\ r.pub \in Publishers
    BY DEF TypeOK, HostRequest
  <1>3. entries' \subseteq Services /\ paths' \in [Services -> SUBSET Publishers]
    <2>1. entries \subseteq Services /\ paths \in [Services -> SUBSET Publishers]
      BY DEF TypeOK
    <2>2. \/ UNCHANGED <<entries, paths>>
          \/ entries' = entries \cup {r.svc} /\ paths' = [paths EXCEPT ![r.svc] = @ \cup {r.pub}]
          \/ entries' = entries \cup {r.svc} /\ paths' = [paths EXCEPT ![r.svc] = @ \ {r.pub}]
      BY DEF updateSubscriptions
    <2>3. QED
      BY <1>2, <2>1, <2>2
  <1>4. TypeOK'
    BY <1>1, <1>3 DEF TypeOK, browser, registry, forwarded, closing
  <1>5. UNCHANGED <<calls, attached, starting, Results, Calls>> /\ Forwarded' \subseteq Forwarded
    BY <1>1 DEF browser, registry, Results, Frames, Calls, Forwarded
  <1>6. \A x : Runs(x)' <=> Runs(x)
    BY <1>1, <1>5 DEF Runs
  <1>7. ready
    BY Connected
  <1>8. QED
    BY <1>1, <1>4, <1>5, <1>6, <1>7 DEF ServesCalls

LEMMA DisconnectServes ==
    ASSUME TypeOK, AnswersInv, NEW err \in BOOLEAN, disconnect(err)
    PROVE  TypeOK' /\ AnswersInv'
  <1>1. /\ socket = "open" /\ socket' = "closed" /\ failure' = err /\ toClient' = <<>>
        /\ closer' = "running" /\ closeEntries' = entries
        /\ UNCHANGED <<ready, requestQueue, requestCounter, doneHandlers, known, inHand, calls,
                       answers, toServer, registry, entries, paths, hostRequests, subscribers,
                       forwarded>>
    BY DEF disconnect
  <1>2. raced' \subseteq Services \X Publishers
    <2>1. raced \subseteq Services \X Publishers
          /\ raced' = raced \cup UNION {UnderwayFor(s) : s \in Services}
      BY DEF disconnect, TypeOK
    <2>2. UNION {UnderwayFor(s) : s \in Services} \subseteq Services \X Publishers
      BY UnderwayTypes, Zenon
    <2>3. QED
      BY <2>1, <2>2
  <1>3. toClient' \in Seq(ClientFrame)
    BY <1>1
  <1>4. TypeOK'
    BY <1>1, <1>2, <1>3 DEF TypeOK, registry, forwarded
  <1>5. UNCHANGED <<starting, attached, Forwarded, Calls>> /\ Results' = {} /\ ready
    BY <1>1 DEF registry, Forwarded, Calls, Results, Frames, AnswersInv, Unconnected
  <1>6. ResultsCarried' /\ \A s \in known' : Runs(s)'
    BY <1>1, <1>5 DEF ResultsCarried, Runs
  <1>7. CallsNamed' /\ RequestsCarried' /\ HandlersWait' /\ QueuedWait' /\ Unconnected' /\ Answered'
    BY <1>1, <1>5 DEF AnswersInv, CallsNamed, RequestsCarried, Carries, HandlersWait, QueuedWait,
       Unconnected, Answered
  <1>8. QED
    BY <1>4, <1>6, <1>7 DEF AnswersInv

LEMMA CloseServes ==
    ASSUME TypeOK, AnswersInv, ClosingInv, closeFinished \/ \E s \in Services : closeEntry(s)
    PROVE  TypeOK' /\ ServesCalls
  <1>1. /\ closer = "running"
        /\ UNCHANGED <<browser, socket, toServer, toClient, created, starting, putting,
                       webSocketServices, subscribers, forwarded>>
    BY DEF closeEntry, closeFinished, registry, tracking
  <1>2. /\ closer' \in {"running", "finished", "aborted"} /\ closeEntries' \subseteq closeEntries
        /\ attached' \subseteq attached
    BY <1>1 DEF closeEntry, closeFinished, registry
  <1>3. UNCHANGED tracking \/ UNCHANGED <<entries, paths, hostRequests, raced>>
          \/ \E s \in Services : deleteServiceSubscriptions(s)
    BY DEF closeEntry, closeFinished
  <1>4. /\ entries' \subseteq Services /\ paths' \in [Services -> SUBSET Publishers]
        /\ hostRequests' \subseteq HostRequest /\ raced' \subseteq Services \X Publishers
        /\ Forwarded' = Forwarded
    BY <1>3, DeleteTypes DEF TypeOK, Forwarded, tracking
  <1>5. TypeOK'
    BY <1>1, <1>2, <1>4 DEF TypeOK, browser, forwarded
  <1>6. UNCHANGED <<calls, Results, Calls>> /\ socket = "closed"
    BY <1>1 DEF browser, Results, Frames, Calls, ClosingInv
  <1>7. \A x : Runs(x)'
    BY <1>1, <1>6 DEF Runs
  <1>8. ready
    BY <1>6, Connected
  <1>9. QED
    BY <1>1, <1>4, <1>5, <1>6, <1>7, <1>8 DEF ServesCalls

-----------------------------------------------------------------------------
(* Operations: only handleRequest and handleReply touch them.              *)

LEMMA OperationsKept ==
    ASSUME OperationsInv, UNCHANGED forwarded
    PROVE  OperationsInv'
  BY DEF OperationsInv, forwarded

LEMMA ReplyCompletes ==
    ASSUME TypeOK, AnswersInv, OperationsInv, NEW f \in toServer, handleReply(f)
    PROVE  OperationsInv'
  <1>1. f.msg.svc \in Services /\ f.msg.op \in Ops
    BY ReplyServes
  <1>2. CASE UNCHANGED forwarded
    BY <1>2, OperationsKept
  <1>3. CASE /\ f.msg.op \in pendingOperations[f.msg.svc]
             /\ pendingOperations' = [pendingOperations EXCEPT ![f.msg.svc] = @ \ {f.msg.op}]
             /\ completions' = [completions EXCEPT ![f.msg.op] = @ + 1]
    <2>1. \A s \in Services : pendingOperations'[s] = IF s = f.msg.svc
                                 THEN pendingOperations[s] \ {f.msg.op} ELSE pendingOperations[s]
      BY <1>3 DEF TypeOK
    <2>2. \A o \in Ops : completions'[o] = IF o = f.msg.op THEN completions[o] + 1 ELSE completions[o]
      BY <1>3 DEF TypeOK
    <2>3. completions[f.msg.op] = 0
      BY <1>1, <1>3 DEF OperationsInv
    <2>4. \A s \in Services : f.msg.op \notin pendingOperations'[s] /\ pendingOperations'[s] \subseteq pendingOperations[s]
      BY <1>1, <1>3, <2>1 DEF OperationsInv
    <2>5. \A s \in Services : pendingOperations[s] \subseteq Ops
      BY DEF TypeOK
    <2>6. \A o \in Ops : completions'[o] \in {0, 1}
      BY <2>2, <2>3 DEF OperationsInv
    <2>7. \A s \in Services : \A o \in pendingOperations'[s] : completions'[o] = 0
      BY <2>2, <2>4, <2>5 DEF OperationsInv
    <2>8. \A s, t \in Services : \A o \in pendingOperations'[s] : o \in pendingOperations'[t] => s = t
      BY <2>4 DEF OperationsInv
    <2>9. QED
      BY <2>6, <2>7, <2>8 DEF OperationsInv
  <1>4. QED
    BY <1>2, <1>3 DEF handleReply

LEMMA RequestCompletes ==
    ASSUME TypeOK, OperationsInv, NEW s \in Services, NEW o \in Ops, handleRequest(s, o)
    PROVE  OperationsInv'
  <1>1. (\A t \in Services : o \notin pendingOperations[t]) /\ completions[o] = 0
    BY DEF handleRequest
  <1>2. CASE socket = "open"
    <2>1. completions' = completions /\ pendingOperations' = [pendingOperations EXCEPT ![s] = @ \cup {o}]
      BY <1>2 DEF handleRequest
    <2>2. \A t \in Services : pendingOperations'[t] = IF t = s
                                 THEN pendingOperations[t] \cup {o} ELSE pendingOperations[t]
      BY <2>1 DEF TypeOK
    <2>3. QED
      BY <1>1, <2>1, <2>2 DEF OperationsInv
  <1>3. CASE socket # "open"
    <2>1. pendingOperations' = pendingOperations /\ completions' = [completions EXCEPT ![o] = @ + 1]
      BY <1>3 DEF handleRequest
    <2>2. \A p \in Ops : completions'[p] = IF p = o THEN 1 ELSE completions[p]
      BY <1>1, <2>1 DEF TypeOK
    <2>3. \A t \in Services : pendingOperations[t] \subseteq Ops
      BY DEF TypeOK
    <2>4. QED
      BY <1>1, <2>1, <2>2, <2>3 DEF OperationsInv
  <1>4. QED
    BY <1>2, <1>3

-----------------------------------------------------------------------------
(* Subscriptions.                                                          *)

SubscriptionsInv == TrackingInv /\ ClosingInv

LEMMA SubscriptionsKept ==
    ASSUME SubscriptionsInv, UNCHANGED <<tracking, closing, socket>>
    PROVE  SubscriptionsInv'
  BY DEF SubscriptionsInv, TrackingInv, ClosingInv, SubscriptionsTracked, Underway, Raced, Forwarded,
     tracking, closing

LEMMA ConnectionKept ==
    ASSUME AnswersInv, SubscriptionsInv, UNCHANGED <<tracking, closing>>, socket = "connecting"
    PROVE  SubscriptionsInv'
  <1>1. hostRequests = {} /\ closer = "idle"
    BY DEF AnswersInv, Unconnected, SubscriptionsInv, ClosingInv
  <1>2. TrackingInv'
    BY DEF SubscriptionsInv, TrackingInv, SubscriptionsTracked, Underway, Raced, tracking
  <1>3. ClosingInv'
    BY <1>1 DEF ClosingInv, Forwarded, tracking, closing
  <1>4. QED
    BY <1>2, <1>3 DEF SubscriptionsInv

LEMMA ForwardTracks ==
    ASSUME TypeOK, SubscriptionsInv, NEW f \in toServer, NEW method, Forwards(f, method)
    PROVE  SubscriptionsInv'
  <1> DEFINE q == [method |-> method, svc |-> f.msg.svc, pub |-> f.msg.pub, id |-> f.id,
                   call |-> f.call, phase |-> "sent", ok |-> FALSE]
  <1>1. UNCHANGED <<entries, paths, subscribers, closer, closeEntries, socket>>
    BY DEF Forwards, closing
  <1>2. CASE UNCHANGED <<hostRequests, raced>>
    BY <1>1, <1>2, SubscriptionsKept DEF tracking, closing
  <1>3. CASE /\ hostRequests' = hostRequests \cup {q}
             /\ raced' = IF Underway(f.msg.svc, f.msg.pub) \/ socket # "open"
                         THEN raced \cup {<<f.msg.svc, f.msg.pub>>} ELSE raced
    <2>1. f.id \in RequestIds
      BY DEF TypeOK, ServerFrame
    <2>2. /\ q.svc = f.msg.svc /\ q.pub = f.msg.pub /\ q.phase = "sent" /\ q.id # NoRequest
      BY <2>1 DEF RequestIds, NoRequest
    <2> HIDE DEF q
    <2>3. \A s, p : Raced(s, p) => Raced(s, p)'
      BY <1>3 DEF Raced
    <2>4. \A s, p : Underway(s, p) => Underway(s, p)'
      BY <1>3 DEF Underway
    <2>5. SubscriptionsTracked'
      BY <1>1, <2>3, <2>4 DEF SubscriptionsInv, TrackingInv, SubscriptionsTracked, Raced
    <2>6. Raced(q.svc, q.pub)' \/ \A r \in hostRequests : ~(r.svc = q.svc /\ r.pub = q.pub)
      BY <1>3, <2>2 DEF Raced, Underway
    <2>7. \A g, r \in hostRequests' : g.svc = r.svc /\ g.pub = r.pub => g = r \/ Raced(r.svc, r.pub)'
      BY <1>3, <2>3, <2>6 DEF SubscriptionsInv, TrackingInv
    <2>8. TrackingInv'
      BY <1>1, <1>3, <2>2, <2>3, <2>5, <2>7 DEF SubscriptionsInv, TrackingInv
    <2>9. socket = "closed" => Raced(q.svc, q.pub)'
      BY <1>3, <2>2 DEF Raced
    <2>10. ClosingInv'
      BY <1>1, <1>3, <2>3, <2>9 DEF SubscriptionsInv, ClosingInv, Forwarded
    <2>11. QED
      BY <2>8, <2>10 DEF SubscriptionsInv
  <1>4. QED
    BY <1>2, <1>3 DEF Forwards, forward

(* A service that ends: what it subscribed to is unsubscribed, and what is *)
(* under way for it has raced.                                             *)
LEMMA DeleteTracks ==
    ASSUME TypeOK, TrackingInv, NEW s \in Services, deleteServiceSubscriptions(s),
           subscribers' = subscribers
    PROVE  /\ TrackingInv' /\ Forwarded' = Forwarded /\ raced \subseteq raced'
           /\ paths'[s] = {} /\ \A t \in Services : paths'[t] \subseteq paths[t]
  <1>1. /\ entries' = entries \ {s} /\ raced' = raced \cup UnderwayFor(s)
        /\ hostRequests' = hostRequests \cup Unsubscriptions(s) /\ Forwarded' = Forwarded
    BY DeleteTypes DEF deleteServiceSubscriptions
  <1>2. \A t \in Services : paths'[t] = IF t = s THEN {} ELSE paths[t]
    BY DEF deleteServiceSubscriptions, TypeOK
  <1>3. \A p \in Publishers : Underway(s, p) => <<s, p>> \in raced'
    BY <1>1 DEF UnderwayFor
  <1>4. \A r \in Unsubscriptions(s) : /\ r.svc = s /\ r.pub \in paths[s] /\ r.id = NoRequest
                                      /\ r.method = "DELETE" /\ r.phase = "sent"
    BY DEF Unsubscriptions
  <1>5. ASSUME NEW p \in paths[s] PROVE \E r \in hostRequests' : r.svc = s /\ r.pub = p
    <2> DEFINE u == [method |-> "DELETE", svc |-> s, pub |-> p, id |-> NoRequest, call |-> NoCall,
                     phase |-> "sent", ok |-> FALSE]
    <2>1. u \in hostRequests'
      BY <1>1 DEF Unsubscriptions
    <2>2. QED
      BY <2>1
  <1>6. paths[s] \subseteq Publishers
    BY DEF TypeOK
  <1>7. SubscriptionsTracked'
    <2>1. SUFFICES ASSUME NEW t \in Services, NEW p \in Publishers, t \in subscribers[p],
                          <<t, p>> \notin raced'
                   PROVE  p \in paths'[t] \/ Underway(t, p)'
      BY DEF SubscriptionsTracked
    <2>2. p \in paths[t] \/ Underway(t, p)
      BY <1>1, <2>1 DEF TrackingInv, SubscriptionsTracked
    <2>3. CASE t # s
      BY <1>1, <1>2, <2>2, <2>3 DEF Underway
    <2>4. CASE t = s
      BY <1>3, <1>5, <2>1, <2>2, <2>4 DEF Underway
    <2>5. QED
      BY <2>3, <2>4
  <1>8. \A t \in Services : paths'[t] # {} => t \in entries'
    BY <1>1, <1>2 DEF TrackingInv
  <1>9. \A r \in hostRequests' : r.id = NoRequest => r.method = "DELETE" /\ r.phase = "sent"
    BY <1>1, <1>4 DEF TrackingInv
  <1>10. \A r \in hostRequests' : r.phase # "sent" =>
            Raced(r.svc, r.pub)' \/ (r.ok /\ (r.method = "DELETE" => r.svc \notin subscribers'[r.pub]))
    BY <1>1, <1>4 DEF TrackingInv, Raced
  <1>11. ASSUME NEW q \in hostRequests', NEW r \in hostRequests', q.svc = r.svc, q.pub = r.pub
         PROVE  q = r \/ Raced(r.svc, r.pub)'
    <2>1. CASE q \in hostRequests /\ r \in hostRequests
      BY <1>1, <1>11, <2>1 DEF TrackingInv, Raced
    <2>2. CASE q \in Unsubscriptions(s) /\ r \in Unsubscriptions(s)
      <3>1. PICK p \in paths[s] :
               q = [method |-> "DELETE", svc |-> s, pub |-> p, id |-> NoRequest, call |-> NoCall,
                    phase |-> "sent", ok |-> FALSE]
        BY <2>2 DEF Unsubscriptions
      <3>2. PICK t \in paths[s] :
               r = [method |-> "DELETE", svc |-> s, pub |-> t, id |-> NoRequest, call |-> NoCall,
                    phase |-> "sent", ok |-> FALSE]
        BY <2>2 DEF Unsubscriptions
      <3>3. p = t
        BY <1>11, <3>1, <3>2
      <3>4. QED
        BY <3>1, <3>2, <3>3
    <2>3. CASE \/ q \in hostRequests /\ r \in Unsubscriptions(s)
               \/ r \in hostRequests /\ q \in Unsubscriptions(s)
      <3>1. r.svc = s /\ r.pub \in Publishers /\ Underway(s, r.pub)
        BY <1>4, <1>6, <1>11, <2>3 DEF Underway
      <3>2. QED
        BY <1>3, <3>1 DEF Raced
    <2>4. QED
      BY <1>1, <2>1, <2>2, <2>3
  <1>12. TrackingInv'
    BY <1>7, <1>8, <1>9, <1>10, <1>11 DEF TrackingInv
  <1>13. QED
    BY <1>1, <1>2, <1>12

LEMMA StopTracks ==
    ASSUME TypeOK, AnswersInv, SubscriptionsInv, NEW f \in toServer, handleStop(f)
    PROVE  SubscriptionsInv'
  <1>1. f.msg.svc \in Services
    BY StopServes
  <1>2. UNCHANGED <<socket, subscribers, closer, closeEntries>>
    BY DEF handleStop, closing
  <1>3. CASE deleteServiceSubscriptions(f.msg.svc)
    <2>1. TrackingInv' /\ Forwarded' = Forwarded /\ raced \subseteq raced'
          /\ \A t \in Services : paths'[t] \subseteq paths[t]
      BY <1>1, <1>2, <1>3, DeleteTracks DEF SubscriptionsInv
    <2>2. ClosingInv'
      BY <1>2, <2>1 DEF SubscriptionsInv, ClosingInv, Raced
    <2>3. QED
      BY <2>1, <2>2 DEF SubscriptionsInv
  <1>4. CASE /\ raced' = raced \cup UnderwayFor(f.msg.svc)
             /\ UNCHANGED <<entries, paths, hostRequests>>
    <2>1. TrackingInv'
      BY <1>2, <1>4 DEF SubscriptionsInv, TrackingInv, SubscriptionsTracked, Underway, Raced
    <2>2. ClosingInv'
      BY <1>2, <1>4 DEF SubscriptionsInv, ClosingInv, Forwarded, Raced
    <2>3. QED
      BY <2>1, <2>2 DEF SubscriptionsInv
  <1>5. CASE UNCHANGED <<entries, paths, hostRequests, raced>>
    BY <1>2, <1>5, SubscriptionsKept DEF tracking, closing
  <1>6. QED
    BY <1>3, <1>4, <1>5 DEF handleStop

(* The publisher handles a request, or fails it, applied or not.           *)
LEMMA PublisherTracks ==
    ASSUME TypeOK, SubscriptionsInv, NEW r \in hostRequests, NEW applied \in BOOLEAN,
           NEW ok \in BOOLEAN, handleSubscriptionsRequest(r, applied, ok)
    PROVE  SubscriptionsInv'
  <1> DEFINE q == [r EXCEPT !.phase = "handled", !.ok = ok]
  <1>1. /\ r.phase = "sent" /\ (ok => applied)
        /\ hostRequests' = IF r.id = NoRequest THEN hostRequests \ {r} ELSE (hostRequests \ {r}) \cup {q}
        /\ raced' = IF ok THEN raced ELSE raced \cup {<<r.svc, r.pub>>}
        /\ UNCHANGED <<socket, entries, paths, closer, closeEntries>>
    BY DEF handleSubscriptionsRequest, closing
  <1>2. /\ r.svc \in Services /\ r.pub \in Publishers /\ r.method \in {"POST", "DELETE"}
        /\ q.svc = r.svc /\ q.pub = r.pub /\ q.id = r.id /\ q.method = r.method
        /\ q.phase = "handled" /\ q.ok = ok
    BY DEF TypeOK, HostRequest
  <1> HIDE DEF q
  <1>3. /\ \A p \in Publishers \ {r.pub} : subscribers'[p] = subscribers[p]
        /\ ~applied => subscribers' = subscribers
        /\ applied /\ r.method = "POST" => subscribers'[r.pub] = subscribers[r.pub] \cup {r.svc}
        /\ applied /\ r.method = "DELETE" => subscribers'[r.pub] = subscribers[r.pub] \ {r.svc}
    <2>1. subscribers \in [Publishers -> SUBSET Services]
      BY DEF TypeOK
    <2>2. CASE ~applied
      BY <2>1, <2>2 DEF handleSubscriptionsRequest
    <2>3. CASE applied /\ r.method = "POST"
      BY <1>2, <2>1, <2>3 DEF handleSubscriptionsRequest
    <2>4. CASE applied /\ r.method = "DELETE"
      BY <1>2, <2>1, <2>4 DEF handleSubscriptionsRequest
    <2>5. QED
      BY <1>2, <2>2, <2>3, <2>4
  <1>4. \A s, p : Raced(s, p) => Raced(s, p)'
    BY <1>1 DEF Raced
  <1>5. ok \/ Raced(r.svc, r.pub)'
    BY <1>1 DEF Raced
  <1>6. r.id = NoRequest => r.method = "DELETE"
    BY DEF SubscriptionsInv, TrackingInv
  <1>7. \A s, p : Underway(s, p) /\ ~Underway(s, p)' =>
           s = r.svc /\ p = r.pub /\ r.id = NoRequest
    BY <1>1, <1>2 DEF Underway
  <1>8. SubscriptionsTracked'
    <2>1. SUFFICES ASSUME NEW s \in Services, NEW p \in Publishers, s \in subscribers'[p],
                          ~Raced(s, p)'
                   PROVE  p \in paths[s] \/ Underway(s, p)'
      BY <1>1 DEF SubscriptionsTracked, Raced
    <2>2. CASE s = r.svc /\ p = r.pub
      <3>1. ok /\ applied
        BY <1>1, <1>5, <2>1, <2>2
      <3>2. CASE r.id = NoRequest
        BY <1>3, <1>6, <2>1, <2>2, <3>1, <3>2
      <3>3. CASE r.id # NoRequest
        BY <1>1, <1>2, <2>2, <3>3 DEF Underway
      <3>4. QED
        BY <3>2, <3>3
    <2>3. CASE ~(s = r.svc /\ p = r.pub)
      <3>1. s \in subscribers[p]
        BY <1>2, <1>3, <2>1, <2>3
      <3>2. QED
        BY <1>4, <1>7, <2>1, <2>3, <3>1
           DEF SubscriptionsInv, TrackingInv, SubscriptionsTracked, Raced
    <2>4. QED
      BY <2>2, <2>3
  <1>9. \A h \in hostRequests' : h.id = NoRequest => h.method = "DELETE" /\ h.phase = "sent"
    BY <1>1, <1>2 DEF SubscriptionsInv, TrackingInv
  <1>10. ASSUME NEW h \in hostRequests', h.phase # "sent"
         PROVE  Raced(h.svc, h.pub)'
                \/ (h.ok /\ (h.method = "DELETE" => h.svc \notin subscribers'[h.pub]))
    <2>1. CASE h = q
      BY <1>1, <1>2, <1>3, <1>5, <2>1
    <2>2. CASE h # q /\ ~Raced(h.svc, h.pub)'
      <3>1. h \in hostRequests /\ h # r
        BY <1>1, <2>2
      <3>2. ~(h.svc = r.svc /\ h.pub = r.pub)
        BY <1>4, <2>2, <3>1 DEF SubscriptionsInv, TrackingInv
      <3>3. h.ok /\ (h.method = "DELETE" => h.svc \notin subscribers[h.pub])
        BY <1>4, <1>10, <2>2, <3>1 DEF SubscriptionsInv, TrackingInv
      <3>4. h.pub \in Publishers
        BY <3>1 DEF TypeOK, HostRequest
      <3>5. QED
        BY <1>2, <1>3, <3>2, <3>3, <3>4
    <2>3. QED
      BY <2>1, <2>2
  <1>11. \A g, h \in hostRequests' : g.svc = h.svc /\ g.pub = h.pub => g = h \/ Raced(h.svc, h.pub)'
    BY <1>1, <1>2, <1>4 DEF SubscriptionsInv, TrackingInv
  <1>12. TrackingInv'
    BY <1>1, <1>8, <1>9, <1>10, <1>11 DEF SubscriptionsInv, TrackingInv
  <1>13. ClosingInv'
    <2>1. \A h \in Forwarded' : h \in Forwarded \/ (h = q /\ r \in Forwarded)
      BY <1>1, <1>2 DEF Forwarded
    <2>2. QED
      BY <1>1, <1>2, <1>4, <2>1 DEF SubscriptionsInv, ClosingInv
  <1>14. QED
    BY <1>12, <1>13 DEF SubscriptionsInv

LEMMA WriteTracks ==
    ASSUME TypeOK, SubscriptionsInv, NEW r \in hostRequests, writeResult(r)
    PROVE  SubscriptionsInv'
  <1> DEFINE q == [r EXCEPT !.phase = "written"]
  <1>1. /\ r.phase = "handled" /\ hostRequests' = (hostRequests \ {r}) \cup {q}
        /\ UNCHANGED <<socket, entries, paths, subscribers, raced, closer, closeEntries>>
    BY DEF writeResult, closing
  <1>2. /\ q.svc = r.svc /\ q.pub = r.pub /\ q.id = r.id /\ q.method = r.method
        /\ q.phase = "written" /\ q.ok = r.ok
    BY DEF TypeOK, HostRequest
  <1> HIDE DEF q
  <1>3. \A s, p : (Underway(s, p) => Underway(s, p)') /\ (Raced(s, p)' <=> Raced(s, p))
    BY <1>1, <1>2 DEF Underway, Raced
  <1>4. SubscriptionsTracked'
    BY <1>1, <1>3 DEF SubscriptionsInv, TrackingInv, SubscriptionsTracked
  <1>5. \A h \in hostRequests' : h \in hostRequests \/ h = q
    BY <1>1
  <1>6. r.id # NoRequest
    BY <1>1 DEF SubscriptionsInv, TrackingInv
  <1>7. Raced(q.svc, q.pub) \/ (q.ok /\ (q.method = "DELETE" => q.svc \notin subscribers[q.pub]))
    BY <1>1, <1>2 DEF SubscriptionsInv, TrackingInv
  <1>8. \A g, h \in hostRequests' : g.svc = h.svc /\ g.pub = h.pub => g = h \/ Raced(h.svc, h.pub)
    BY <1>1, <1>2 DEF SubscriptionsInv, TrackingInv
  <1>9. TrackingInv'
    BY <1>1, <1>2, <1>3, <1>4, <1>5, <1>6, <1>7, <1>8 DEF SubscriptionsInv, TrackingInv
  <1>10. ClosingInv'
    <2>1. \A h \in Forwarded' : h \in Forwarded \/ (h = q /\ r \in Forwarded)
      BY <1>1, <1>2 DEF Forwarded
    <2>2. QED
      BY <1>1, <1>2, <1>3, <2>1 DEF SubscriptionsInv, ClosingInv
  <1>11. QED
    BY <1>9, <1>10 DEF SubscriptionsInv

(* serviceSubscriptions follows the publisher.                             *)
LEMMA UpdateTracks ==
    ASSUME TypeOK, SubscriptionsInv, NEW r \in hostRequests, updateSubscriptions(r)
    PROVE  SubscriptionsInv'
  <1>1. /\ r.phase = "written" /\ hostRequests' = hostRequests \ {r}
        /\ UNCHANGED <<socket, subscribers, raced, closer, closeEntries>>
    BY DEF updateSubscriptions, closing
  <1>2. r.svc \in Services /\ r.pub \in Publishers /\ paths \in [Services -> SUBSET Publishers]
    BY DEF TypeOK, HostRequest
  <1>3. \/ r.method = "POST" /\ r.ok /\ paths' = [paths EXCEPT ![r.svc] = @ \cup {r.pub}]
           /\ entries' = entries \cup {r.svc}
        \/ r.method = "POST" /\ ~r.ok /\ UNCHANGED <<entries, paths>>
        \/ r.method = "DELETE" /\ paths' = [paths EXCEPT ![r.svc] = @ \ {r.pub}]
           /\ entries' = entries \cup {r.svc}
    BY DEF updateSubscriptions
  <1>4. /\ \A s \in Services \ {r.svc} : paths'[s] = paths[s]
        /\ \A p \in Publishers \ {r.pub} : p \in paths'[r.svc] <=> p \in paths[r.svc]
        /\ r.method = "POST" /\ r.ok => r.pub \in paths'[r.svc]
        /\ r.method = "DELETE" => r.pub \notin paths'[r.svc]
        /\ r.method = "POST" \/ r.method = "DELETE"
        /\ r.method = "POST" /\ ~r.ok => UNCHANGED <<entries, paths>>
        /\ r.method = "DELETE" \/ r.ok => entries' = entries \cup {r.svc}
    BY <1>2, <1>3
  <1>5. Raced(r.svc, r.pub) \/ (r.ok /\ (r.method = "DELETE" => r.svc \notin subscribers[r.pub]))
    BY <1>1 DEF SubscriptionsInv, TrackingInv
  <1>6. r \in Forwarded
    BY <1>1 DEF SubscriptionsInv, TrackingInv, Forwarded
  <1>7. \A s, p : Raced(s, p)' <=> Raced(s, p)
    BY <1>1 DEF Raced
  <1>8. SubscriptionsTracked'
    <2>1. SUFFICES ASSUME NEW s \in Services, NEW p \in Publishers, s \in subscribers[p],
                          ~Raced(s, p)
                   PROVE  p \in paths'[s] \/ Underway(s, p)'
      BY <1>1 DEF SubscriptionsTracked, Raced
    <2>2. p \in paths[s] \/ Underway(s, p)
      BY <2>1 DEF SubscriptionsInv, TrackingInv, SubscriptionsTracked, Raced
    <2>3. CASE s = r.svc /\ p = r.pub
      BY <1>4, <1>5, <2>1, <2>3
    <2>4. CASE ~(s = r.svc /\ p = r.pub)
      <3>1. Underway(s, p) => Underway(s, p)'
        BY <1>1, <2>4 DEF Underway
      <3>2. QED
        BY <1>4, <2>2, <2>4, <3>1
    <2>5. QED
      BY <2>3, <2>4
  <1>9. \A s \in Services : paths'[s] # {} => s \in entries'
    BY <1>4 DEF SubscriptionsInv, TrackingInv
  <1>10. TrackingInv'
    BY <1>1, <1>7, <1>8, <1>9 DEF SubscriptionsInv, TrackingInv
  <1>11. \A s \in Services : \A p \in paths'[s] : p \in paths[s] \/ (s = r.svc /\ p = r.pub)
    BY <1>2, <1>3
  <1>12. socket = "closed" => Raced(r.svc, r.pub)
    BY <1>6 DEF SubscriptionsInv, ClosingInv
  <1>13. ClosingInv'
    BY <1>1, <1>7, <1>11, <1>12 DEF SubscriptionsInv, ClosingInv, Forwarded
  <1>14. QED
    BY <1>10, <1>13 DEF SubscriptionsInv

(* The connection ends: what is under way has raced, and what is           *)
(* subscribed is in the entries the listener visits.                       *)
LEMMA DisconnectTracks ==
    ASSUME TypeOK, SubscriptionsInv, NEW err \in BOOLEAN, disconnect(err)
    PROVE  SubscriptionsInv'
  <1>1. /\ socket' = "closed" /\ closer' = "running" /\ closeEntries' = entries
        /\ raced' = raced \cup UNION {UnderwayFor(s) : s \in Services}
        /\ UNCHANGED <<entries, paths, hostRequests, subscribers>>
    BY DEF disconnect
  <1>2. \A s, p : Raced(s, p) => Raced(s, p)'
    BY <1>1 DEF Raced
  <1>3. ASSUME NEW r \in hostRequests PROVE Raced(r.svc, r.pub)'
    <2>1. r.svc \in Services /\ r.pub \in Publishers
      BY DEF TypeOK, HostRequest
    <2>2. <<r.svc, r.pub>> \in UnderwayFor(r.svc)
      BY <2>1 DEF UnderwayFor, Underway
    <2>3. <<r.svc, r.pub>> \in UNION {UnderwayFor(s) : s \in Services}
      BY <2>1, <2>2, Zenon
    <2>4. QED
      BY <1>1, <2>3 DEF Raced
  <1>4. TrackingInv'
    BY <1>1, <1>2, <1>3 DEF SubscriptionsInv, TrackingInv, SubscriptionsTracked, Underway, Raced
  <1>5. ClosingInv'
    BY <1>1, <1>3 DEF SubscriptionsInv, TrackingInv, ClosingInv, Forwarded
  <1>6. QED
    BY <1>4, <1>5 DEF SubscriptionsInv

LEMMA CloseTracks ==
    ASSUME TypeOK, SubscriptionsInv, NEW s \in Services, closeEntry(s)
    PROVE  SubscriptionsInv'
  <1>1. closer = "running" /\ UNCHANGED <<socket, subscribers>>
    BY DEF closeEntry
  <1>2. CASE deleteServiceSubscriptions(s) /\ closeEntries' = closeEntries \ {s} /\ closer' = closer
    <2>1. /\ TrackingInv' /\ Forwarded' = Forwarded /\ raced \subseteq raced'
          /\ paths'[s] = {} /\ \A t \in Services : paths'[t] \subseteq paths[t]
      BY <1>1, <1>2, DeleteTracks DEF SubscriptionsInv
    <2>2. ClosingInv'
      BY <1>1, <1>2, <2>1 DEF SubscriptionsInv, ClosingInv, Raced
    <2>3. QED
      BY <2>1, <2>2 DEF SubscriptionsInv
  <1>3. CASE closer' = "aborted" /\ UNCHANGED <<closeEntries, entries, paths, hostRequests, raced>>
    <2>1. TrackingInv'
      BY <1>1, <1>3 DEF SubscriptionsInv, TrackingInv, SubscriptionsTracked, Underway, Raced
    <2>2. ClosingInv'
      BY <1>1, <1>3 DEF SubscriptionsInv, ClosingInv, Forwarded, Raced
    <2>3. QED
      BY <2>1, <2>2 DEF SubscriptionsInv
  <1>4. QED
    BY <1>2, <1>3 DEF closeEntry

LEMMA FinishTracks ==
    ASSUME SubscriptionsInv, closeFinished
    PROVE  SubscriptionsInv'
  <1>1. /\ closer = "running" /\ closer' = "finished" /\ closeEntries \cap entries = {}
        /\ UNCHANGED <<socket, entries, paths, hostRequests, subscribers, raced>>
    BY DEF closeFinished, tracking
  <1>2. TrackingInv'
    BY <1>1 DEF SubscriptionsInv, TrackingInv, SubscriptionsTracked, Underway, Raced
  <1>3. \A s \in Services : \A p \in paths[s] : s \notin closeEntries
    BY <1>1 DEF SubscriptionsInv, TrackingInv
  <1>4. ClosingInv'
    BY <1>1, <1>3 DEF SubscriptionsInv, ClosingInv, Forwarded, Raced
  <1>5. QED
    BY <1>2, <1>4 DEF SubscriptionsInv

-----------------------------------------------------------------------------
(* The invariant is kept.                                                  *)

LEMMA InvariantInit == Init => WebSocketInv
  <1>1. SUFFICES ASSUME Init PROVE WebSocketInv
    OBVIOUS
  <1>2. TypeOK
    <2>1. 0 \in 0 .. MaxRequests /\ 0 =< MaxCalls
      BY WebSocketAssumption
    <2>2. Len(calls) = 0 /\ calls \in Seq(Message) /\ requestQueue \in Seq(CallIds)
          /\ toClient \in Seq(ClientFrame)
      BY <1>1 DEF Init
    <2>3. answers \in [CallIds -> Seq([of : CallIds \cup {NoCall}, ok : BOOLEAN])]
      BY <1>1 DEF Init
    <2>4. QED
      BY <1>1, <2>1, <2>2, <2>3 DEF Init, TypeOK
  <1>3. Calls = {} /\ Results = {} /\ Forwarded = {} /\ Len(requestQueue) = 0
    BY <1>1 DEF Init, Calls, Results, Frames, Forwarded
  <1>4. AnswersInv
    BY <1>1, <1>3 DEF Init, AnswersInv, CallsNamed, RequestsCarried, ResultsCarried, HandlersWait,
       QueuedWait, Unconnected, Answered
  <1>5. OperationsInv
    BY <1>1 DEF Init, OperationsInv
  <1>6. TrackingInv /\ ClosingInv
    BY <1>1, <1>3 DEF Init, TrackingInv, SubscriptionsTracked, ClosingInv
  <1>7. QED
    BY <1>2, <1>4, <1>5, <1>6 DEF WebSocketInv

(* What is left alone by the browser's events.                             *)
LEMMA BrowserStep ==
    ASSUME WebSocketInv, browserStep
    PROVE  WebSocketInv'
  <1>1. TypeOK /\ AnswersInv /\ OperationsInv /\ SubscriptionsInv
    BY DEF WebSocketInv, SubscriptionsInv
  <1>2. ASSUME TypeOK', AnswersInv', UNCHANGED forwarded, SubscriptionsInv' PROVE WebSocketInv'
    BY <1>1, <1>2, OperationsKept DEF WebSocketInv, SubscriptionsInv
  <1>3. ASSUME NEW msg, PageCalls(msg) PROVE WebSocketInv'
    <2>1. UNCHANGED <<forwarded, tracking, closing, socket>>
      BY <1>3 DEF PageCalls
    <2>2. QED
      BY <1>1, <1>2, <1>3, <2>1, CallTypes, CallAnswers, SubscriptionsKept
  <1>4. CASE onopen \/ onerrorConnecting
    <2>1. UNCHANGED <<forwarded, tracking, closing>> /\ socket = "connecting"
      BY <1>4 DEF onopen, onerrorConnecting
    <2>2. QED
      BY <1>1, <1>2, <1>4, <2>1, OpenAnswers, ErrorAnswers, ConnectionKept
  <1>5. CASE onmessageResult \/ onmessageRequest
    <2>1. UNCHANGED <<forwarded, tracking, closing, socket>>
      BY <1>5 DEF onmessageResult, onmessageRequest
    <2>2. QED
      BY <1>1, <1>2, <1>5, <2>1, ResultAnswers, RequestAnswers, SubscriptionsKept
  <1>6. ASSUME NEW s \in Services, NEW o \in Ops, completeRequest(s, o) PROVE WebSocketInv'
    <2>1. UNCHANGED <<forwarded, tracking, closing, socket>>
      BY <1>6 DEF completeRequest
    <2>2. QED
      BY <1>1, <1>2, <1>6, <2>1, ReplyAnswers, SubscriptionsKept
  <1>7. QED
    BY <1>3, <1>4, <1>5, <1>6, CreateCalls, ServiceCalls DEF browserStep

LEMMA ServerStep ==
    ASSUME WebSocketInv, serverStep
    PROVE  WebSocketInv'
  <1>1. TypeOK /\ AnswersInv /\ OperationsInv /\ SubscriptionsInv /\ TrackingInv /\ ClosingInv
    BY DEF WebSocketInv, SubscriptionsInv
  <1>2. ASSUME TypeOK', ServesCalls, OperationsInv', SubscriptionsInv' PROVE WebSocketInv'
    BY <1>1, <1>2, ServesAnswers DEF WebSocketInv, SubscriptionsInv
  <1>3. ASSUME NEW f \in toServer, NEW s \in Services, handleCreate(f, s) PROVE WebSocketInv'
    <2>1. UNCHANGED <<forwarded, tracking, closing, socket>>
      BY <1>3 DEF handleCreate
    <2>2. QED
      BY <1>1, <1>2, <1>3, <2>1, CreateServes, OperationsKept, SubscriptionsKept
  <1>4. ASSUME NEW f \in toServer, handleSubscribe(f) \/ handleUnsubscribe(f) PROVE WebSocketInv'
    <2>1. PICK method : Forwards(f, method)
      BY <1>4 DEF handleSubscribe, handleUnsubscribe, Forwards
    <2>2. UNCHANGED forwarded
      BY <2>1 DEF Forwards
    <2>3. QED
      BY <1>1, <1>2, <2>1, <2>2, ForwardServes, OperationsKept, ForwardTracks
  <1>5. ASSUME NEW f \in toServer, handleStop(f) PROVE WebSocketInv'
    <2>1. UNCHANGED forwarded
      BY <1>5 DEF handleStop
    <2>2. QED
      BY <1>1, <1>2, <1>5, <2>1, StopServes, OperationsKept, StopTracks
  <1>6. ASSUME NEW f \in toServer, handleReply(f) PROVE WebSocketInv'
    <2>1. UNCHANGED <<tracking, closing, socket>>
      BY <1>6 DEF handleReply
    <2>2. QED
      BY <1>1, <1>2, <1>6, <2>1, ReplyServes, ReplyCompletes, SubscriptionsKept
  <1>7. ASSUME NEW s \in Services, putService(s) PROVE WebSocketInv'
    <2>1. UNCHANGED <<forwarded, tracking, closing, socket>>
      BY <1>7 DEF putService
    <2>2. QED
      BY <1>1, <1>2, <1>7, <2>1, PutServes, OperationsKept, SubscriptionsKept
  <1>8. ASSUME NEW s \in Services, closeEntry(s) PROVE WebSocketInv'
    <2>1. UNCHANGED forwarded
      BY <1>8 DEF closeEntry
    <2>2. QED
      BY <1>1, <1>2, <1>8, <2>1, CloseServes, OperationsKept, CloseTracks
  <1>9. ASSUME NEW t \in starting, NEW ok \in BOOLEAN, startCompleted(t, ok) PROVE WebSocketInv'
    <2>1. UNCHANGED <<forwarded, tracking, closing, socket>>
      BY <1>9 DEF startCompleted
    <2>2. QED
      BY <1>1, <1>2, <1>9, <2>1, StartServes, OperationsKept, SubscriptionsKept
  <1>10. ASSUME NEW r \in hostRequests, NEW applied \in BOOLEAN, NEW ok \in BOOLEAN,
                handleSubscriptionsRequest(r, applied, ok)
         PROVE  WebSocketInv'
    <2>1. UNCHANGED forwarded
      BY <1>10 DEF handleSubscriptionsRequest
    <2>2. QED
      BY <1>1, <1>2, <1>10, <2>1, PublisherServes, OperationsKept, PublisherTracks
  <1>11. ASSUME NEW r \in hostRequests, writeResult(r) PROVE WebSocketInv'
    <2>1. UNCHANGED forwarded
      BY <1>11 DEF writeResult
    <2>2. QED
      BY <1>1, <1>2, <1>11, <2>1, WriteServes, OperationsKept, WriteTracks
  <1>12. ASSUME NEW r \in hostRequests, updateSubscriptions(r) PROVE WebSocketInv'
    <2>1. UNCHANGED forwarded
      BY <1>12 DEF updateSubscriptions
    <2>2. QED
      BY <1>1, <1>2, <1>12, <2>1, UpdateServes, OperationsKept, UpdateTracks
  <1>13. CASE closeFinished
    <2>1. UNCHANGED forwarded
      BY <1>13 DEF closeFinished
    <2>2. TypeOK' /\ ServesCalls
      BY <1>1, <1>13, CloseServes
    <2>3. QED
      BY <1>1, <1>2, <1>13, <2>1, <2>2, OperationsKept, FinishTracks
  <1>14. QED
    BY <1>3, <1>4, <1>5, <1>6, <1>7, <1>8, <1>9, <1>10, <1>11, <1>12, <1>13 DEF serverStep

LEMMA InvariantStep == WebSocketInv /\ [Next]_vars => WebSocketInv'
  <1>1. SUFFICES ASSUME WebSocketInv, [Next]_vars PROVE WebSocketInv'
    OBVIOUS
  <1>2. TypeOK /\ AnswersInv /\ OperationsInv /\ SubscriptionsInv
    BY <1>1 DEF WebSocketInv, SubscriptionsInv
  <1>3. CASE browserStep \/ serverStep
    BY <1>1, <1>3, BrowserStep, ServerStep
  <1>4. ASSUME NEW s \in Services, NEW o \in Ops, handleRequest(s, o) PROVE WebSocketInv'
    <2>1. UNCHANGED <<tracking, closing, socket>>
      BY <1>4 DEF handleRequest
    <2>2. TypeOK' /\ AnswersInv' /\ OperationsInv' /\ SubscriptionsInv'
      BY <1>2, <1>4, <2>1, OperationServes, ServesAnswers, RequestCompletes, SubscriptionsKept
    <2>3. QED
      BY <2>2 DEF WebSocketInv, SubscriptionsInv
  <1>5. ASSUME NEW err \in BOOLEAN, disconnect(err) PROVE WebSocketInv'
    <2>1. UNCHANGED forwarded
      BY <1>5 DEF disconnect
    <2>2. TypeOK' /\ AnswersInv' /\ OperationsInv' /\ SubscriptionsInv'
      BY <1>2, <1>5, <2>1, DisconnectServes, OperationsKept, DisconnectTracks
    <2>3. QED
      BY <2>2 DEF WebSocketInv, SubscriptionsInv
  <1>6. CASE UNCHANGED vars
    <2>1. UNCHANGED <<browser, socket, toServer, toClient, registry, tracking, forwarded, closing>>
      BY <1>6 DEF vars
    <2>2. TypeOK'
      BY <1>2, <2>1 DEF TypeOK, browser, registry, tracking, forwarded, closing
    <2>3. UNCHANGED <<calls, starting, hostRequests, attached, Results, Forwarded, Calls>>
      BY <2>1 DEF browser, registry, tracking, Results, Frames, Forwarded, Calls
    <2>4. \A x : Runs(x)' <=> Runs(x)
      BY <2>1, <2>3 DEF Runs
    <2>5. ServesCalls
      BY <2>1, <2>3, <2>4 DEF ServesCalls
    <2>6. QED
      BY <1>2, <2>1, <2>2, <2>5, ServesAnswers, OperationsKept, SubscriptionsKept
         DEF WebSocketInv, SubscriptionsInv
  <1>7. QED
    BY <1>1, <1>3, <1>4, <1>5, <1>6 DEF Next

LEMMA Invariant == Spec => []WebSocketInv
  BY InvariantInit, InvariantStep, PTL DEF Spec

-----------------------------------------------------------------------------
(* Every variable of the browser, the connection and the server keeps its  *)
(* type.                                                                   *)
THEOREM TypeCorrect == Spec => []TypeOK
  <1>1. WebSocketInv => TypeOK
    BY DEF WebSocketInv
  <1>2. QED
    BY <1>1, Invariant, PTL

(* A handler the page passed to the library is called at most once and     *)
(* with the answer to its own call, in whatever order the server's         *)
(* executor handles the frames (doRequest, onopen, onmessage).             *)
THEOREM AnswersOwned == Spec => []OwnAnswerOnce
  <1>1. WebSocketInv => OwnAnswerOnce
    <2>1. SUFFICES ASSUME WebSocketInv, NEW c \in CallIds
                   PROVE  /\ Len(answers[c]) =< 1
                          /\ \A i \in 1 .. Len(answers[c]) : answers[c][i].of = c
      BY DEF OwnAnswerOnce
    <2>2. CASE answers[c] = <<>>
      BY <2>2
    <2>3. CASE Len(answers[c]) = 1 /\ answers[c][1].of = c
      BY <2>3
    <2>4. QED
      BY <2>1, <2>2, <2>3 DEF WebSocketInv, AnswersInv, Answered
  <1>2. QED
    BY <1>1, Invariant, PTL

(* An operation sent to a web socket service is completed at most once,    *)
(* however often the page replies (handleWebSocketMessage).                *)
THEOREM CompletedOnce == Spec => []OperationsCompletedOnce
  <1>1. WebSocketInv => OperationsCompletedOnce
    BY DEF WebSocketInv, OperationsInv, OperationsCompletedOnce
  <1>2. QED
    BY <1>1, Invariant, PTL

(* The handler knows every subscription that did not race                  *)
(* (processWebSocketFrame, deleteServiceSubscriptions).                    *)
THEOREM NoSubscriptionForgotten == Spec => []SubscriptionsTracked
  <1>1. WebSocketInv => SubscriptionsTracked
    BY DEF WebSocketInv, TrackingInv
  <1>2. QED
    BY <1>1, Invariant, PTL

(* A close listener that went through all entries leaves no subscription   *)
(* behind that did not race.                                               *)
THEOREM ClosedUnsubscribed == Spec => []CloseUnsubscribes
  <1>1. WebSocketInv => CloseUnsubscribes
    BY DEF WebSocketInv, TrackingInv, SubscriptionsTracked, Underway, ClosingInv, Raced,
       CloseUnsubscribes
  <1>2. QED
    BY <1>1, Invariant, PTL

(* A service the page was given runs until it is stopped or the connection *)
(* ends.                                                                   *)
THEOREM KnownRun == Spec => []KnownServicesRun
  <1>1. WebSocketInv => KnownServicesRun
    BY DEF WebSocketInv, AnswersInv, Runs, Calls, KnownServicesRun
  <1>2. QED
    BY <1>1, Invariant, PTL
=============================================================================
