-------------------------- MODULE WebSocketServices -------------------------
(***************************************************************************)
(* Services that live in a browser: the JavaScript library                 *)
(* ws-service-lib.js (WSL.WebSocketConnection, one connection), the        *)
(* server's NettyWebSocketRequestHandler of that connection, the           *)
(* WebSocketService objects it starts, and the /subscriptions of the       *)
(* services they observe.                                                  *)
(*                                                                         *)
(* The browser's frames are handled by the executor of the host            *)
(* (host.run), so in any order; the server's frames reach the browser in   *)
(* the order they were written.                                            *)
(***************************************************************************)
EXTENDS Integers, Sequences, FiniteSets

CONSTANTS
    Services,         \* URIs the server can give to services (random UUIDs)
    Publishers,       \* paths that end in /subscriptions
    Ops,              \* operations other services send to these services
    NoService, NoPublisher, NoOp,
    Kinds,            \* what the page calls: create, subscribe, unsubscribe, stop
    MaxCalls,         \* bound on the calls the page makes
    MaxRequests,      \* bound on the frames the library sends
    PublisherCanFail, \* requests to a publisher may fail
    CanDisconnect     \* the connection may break

ASSUME WebSocketAssumption ==
    /\ NoService \notin Services /\ NoPublisher \notin Publishers /\ NoOp \notin Ops
    /\ Kinds \subseteq {"create", "subscribe", "unsubscribe", "stop"}
    /\ MaxCalls \in Nat /\ MaxRequests \in Nat
    /\ PublisherCanFail \in BOOLEAN /\ CanDisconnect \in BOOLEAN

VARIABLES
    \* the browser
    ready, failure,   \* connection.ready, connection.failure # null
    requestQueue,     \* calls made before the connection was ready
    requestCounter,
    doneHandlers,     \* request id -> the call whose handler waits, or NoCall
    known,            \* connection.services: the URIs of its services
    inHand,           \* requests given to a service's handleRequest
    calls,            \* the calls the page has made (history)
    answers,          \* how the handlers of each call were invoked (history)
    \* the connection
    socket,           \* "connecting", "open" or "closed"
    toServer,         \* frames sent and not yet handled by the executor
    toClient,         \* frames written to the channel
    \* the server
    created,          \* URIs that were given out
    starting,         \* startService calls that have not completed
    putting,          \* services to be put in webSocketServices
    attached,         \* web socket services the host runs
    webSocketServices,
    entries,          \* keys of serviceSubscriptions
    paths,            \* its values
    hostRequests,     \* requests to publishers that have not completed
    subscribers,      \* publisher -> the services it notifies
    pendingOperations,
    completions,      \* how often each operation was completed (history)
    closer,           \* the channel's close listener
    closeEntries,     \* keys it still has to visit
    raced             \* pairs whose requests overlapped or failed (history)

browser == <<ready, failure, requestQueue, requestCounter, doneHandlers, known,
             inHand, calls, answers>>
registry == <<created, starting, putting, attached, webSocketServices>>
tracking == <<entries, paths, hostRequests, subscribers, raced>>
forwarded == <<pendingOperations, completions>>
closing == <<closer, closeEntries>>
vars == <<browser, socket, toServer, toClient, registry, tracking, forwarded, closing>>

NoCall == 0
CallIds == 1 .. MaxCalls
RequestIds == 0 .. MaxRequests - 1
NoRequest == -1       \* an unsubscription nobody waits for

Message == [kind : {"create", "subscribe", "unsubscribe", "stop", "reply"},
            svc : Services \cup {NoService}, pub : Publishers \cup {NoPublisher},
            op : Ops \cup {NoOp}]
message(k, s, p, o) == [kind |-> k, svc |-> s, pub |-> p, op |-> o]

ServerFrame == [id : RequestIds, call : CallIds \cup {NoCall}, msg : Message]
ClientFrame ==
    [type : {"result"}, id : RequestIds, ok : BOOLEAN, svc : Services \cup {NoService},
     call : CallIds \cup {NoCall}]
      \cup [type : {"request"}, svc : Services, op : Ops]

HostRequest == [method : {"POST", "DELETE"}, svc : Services, pub : Publishers,
                id : RequestIds \cup {NoRequest}, call : CallIds \cup {NoCall},
                phase : {"sent", "handled", "written"}, ok : BOOLEAN]

-----------------------------------------------------------------------------
Init ==
    /\ ready = FALSE /\ failure = FALSE
    /\ requestQueue = <<>> /\ requestCounter = 0
    /\ doneHandlers = [i \in RequestIds |-> NoCall]
    /\ known = {} /\ inHand = {}
    /\ calls = <<>> /\ answers = [c \in CallIds |-> <<>>]
    /\ socket = "connecting" /\ toServer = {} /\ toClient = <<>>
    /\ created = {} /\ starting = {} /\ putting = {} /\ attached = {}
    /\ webSocketServices = {}
    /\ entries = {} /\ paths = [s \in Services |-> {}]
    /\ hostRequests = {} /\ subscribers = [p \in Publishers |-> {}] /\ raced = {}
    /\ pendingOperations = [s \in Services |-> {}]
    /\ completions = [o \in Ops |-> 0]
    /\ closer = "idle" /\ closeEntries = {}

-----------------------------------------------------------------------------
(* The browser.                                                            *)

(* webSocket.send: a socket that is closed discards the frame.             *)
send(frames) == toServer' = IF socket = "open" THEN toServer \cup frames ELSE toServer

(* doRequest for a call with a doneHandler.  Before the connection is      *)
(* ready the call is queued; once it has failed the handler is called at   *)
(* once.                                                                   *)
doRequest(c, msg) ==
    \/ /\ ~ready
       /\ requestQueue' = Append(requestQueue, c)
       /\ UNCHANGED <<requestCounter, doneHandlers, answers, toServer>>
    \/ /\ ready /\ failure
       /\ answers' = [answers EXCEPT ![c] = Append(@, [of |-> c, ok |-> FALSE])]
       /\ UNCHANGED <<requestQueue, requestCounter, doneHandlers, toServer>>
    \/ /\ ready /\ ~failure /\ requestCounter < MaxRequests
       /\ send({[id |-> requestCounter, call |-> c, msg |-> msg]})
       /\ requestCounter' = requestCounter + 1
       /\ doneHandlers' = [doneHandlers EXCEPT ![requestCounter] = c]
       /\ UNCHANGED <<requestQueue, answers>>

(* The page creates at most as many services as there are URIs.            *)
createService ==
    /\ "create" \in Kinds
    /\ Len(calls) < MaxCalls
    /\ Cardinality({i \in 1 .. Len(calls) : calls[i].kind = "create"}) < Cardinality(Services)
    /\ LET msg == message("create", NoService, NoPublisher, NoOp)
       IN /\ calls' = Append(calls, msg)
          /\ doRequest(Len(calls) + 1, msg)
    /\ UNCHANGED <<ready, failure, known, inHand, socket, toClient, registry, tracking,
                   forwarded, closing>>

(* The page has an object of every service onServiceReady was called with. *)
subscribe(s, p) ==
    /\ "subscribe" \in Kinds
    /\ Len(calls) < MaxCalls /\ s \in known
    /\ LET msg == message("subscribe", s, p, NoOp)
       IN /\ calls' = Append(calls, msg)
          /\ doRequest(Len(calls) + 1, msg)
    /\ UNCHANGED <<ready, failure, known, inHand, socket, toClient, registry, tracking,
                   forwarded, closing>>

unsubscribe(s, p) ==
    /\ "unsubscribe" \in Kinds
    /\ Len(calls) < MaxCalls /\ s \in known
    /\ LET msg == message("unsubscribe", s, p, NoOp)
       IN /\ calls' = Append(calls, msg)
          /\ doRequest(Len(calls) + 1, msg)
    /\ UNCHANGED <<ready, failure, known, inHand, socket, toClient, registry, tracking,
                   forwarded, closing>>

stop(s) ==
    /\ "stop" \in Kinds
    /\ Len(calls) < MaxCalls /\ s \in known
    /\ LET msg == message("stop", s, NoPublisher, NoOp)
       IN /\ calls' = Append(calls, msg)
          /\ doRequest(Len(calls) + 1, msg)
    /\ UNCHANGED <<ready, failure, known, inHand, socket, toClient, registry, tracking,
                   forwarded, closing>>

(* Mutant of onopen: the queued calls do not advance requestCounter.       *)
onopenSameIds ==
    /\ socket = "connecting"
    /\ socket' = "open" /\ ready' = TRUE
    /\ toServer' = {[id |-> i - 1, call |-> requestQueue[i], msg |-> calls[requestQueue[i]]] :
                       i \in 1 .. Len(requestQueue)}
    /\ doneHandlers' = [i \in RequestIds |->
                          IF i < Len(requestQueue) THEN requestQueue[i + 1] ELSE NoCall]
    /\ requestQueue' = <<>>
    /\ UNCHANGED <<failure, requestCounter, known, inHand, calls, answers, toClient, registry,
                   tracking, forwarded, closing>>

(* webSocket.onopen: the queued calls are sent, in order.                  *)
onopen ==
    /\ socket = "connecting"
    /\ socket' = "open" /\ ready' = TRUE
    /\ Len(requestQueue) =< MaxRequests
    /\ toServer' = {[id |-> i - 1, call |-> requestQueue[i], msg |-> calls[requestQueue[i]]] :
                       i \in 1 .. Len(requestQueue)}
    /\ doneHandlers' = [i \in RequestIds |->
                          IF i < Len(requestQueue) THEN requestQueue[i + 1] ELSE NoCall]
    /\ requestCounter' = Len(requestQueue)
    /\ requestQueue' = <<>>
    /\ UNCHANGED <<failure, known, inHand, calls, answers, toClient, registry, tracking,
                   forwarded, closing>>

(* webSocket.onerror before the connection is open: the queued calls fail. *)
onerrorConnecting ==
    /\ CanDisconnect
    /\ socket = "connecting"
    /\ socket' = "closed" /\ ready' = TRUE /\ failure' = TRUE
    /\ answers' = [c \in CallIds |->
                     IF \E i \in 1 .. Len(requestQueue) : requestQueue[i] = c
                     THEN Append(answers[c], [of |-> c, ok |-> FALSE])
                     ELSE answers[c]]
    /\ requestQueue' = <<>>
    /\ UNCHANGED <<requestCounter, doneHandlers, known, inHand, calls, toServer, toClient,
                   registry, tracking, forwarded, closing>>

(* webSocket.onmessage: a result goes to the handler of its request id,    *)
(* which is then removed; a new service is registered by the handler that  *)
(* createService passed.                                                   *)
onmessageResult ==
    /\ socket = "open" /\ toClient # <<>>
    /\ Head(toClient).type = "result"
    /\ LET f == Head(toClient)
           c == doneHandlers[f.id]
       IN IF c # NoCall
          THEN /\ answers' = [answers EXCEPT ![c] = Append(@, [of |-> f.call, ok |-> f.ok])]
               /\ doneHandlers' = [doneHandlers EXCEPT ![f.id] = NoCall]
               /\ known' = IF calls[c].kind = "create" /\ f.ok THEN known \cup {f.svc} ELSE known
          ELSE UNCHANGED <<answers, doneHandlers, known>>
    /\ toClient' = Tail(toClient)
    /\ UNCHANGED <<ready, failure, requestQueue, requestCounter, inHand, calls, socket,
                   toServer, registry, tracking, forwarded, closing>>

(* webSocket.onmessage: a request goes to the service's handleRequest, if  *)
(* the service is known.                                                   *)
onmessageRequest ==
    /\ socket = "open" /\ toClient # <<>>
    /\ Head(toClient).type = "request"
    /\ LET f == Head(toClient)
       IN inHand' = IF f.svc \in known THEN inHand \cup {<<f.svc, f.op>>} ELSE inHand
    /\ toClient' = Tail(toClient)
    /\ UNCHANGED <<ready, failure, requestQueue, requestCounter, doneHandlers, known, calls,
                   answers, socket, toServer, registry, tracking, forwarded, closing>>

(* The handler calls op.complete() or op.fail(), at any time and as often  *)
(* as it likes: each call sends a REPLY, for which nothing waits.  After a *)
(* failure doRequest throws, as there is no doneHandler to call.           *)
completeRequest(s, o) ==
    /\ <<s, o>> \in inHand
    /\ ~failure /\ requestCounter < MaxRequests
    /\ send({[id |-> requestCounter, call |-> NoCall,
              msg |-> message("reply", s, NoPublisher, o)]})
    /\ requestCounter' = requestCounter + 1
    /\ UNCHANGED <<ready, failure, requestQueue, doneHandlers, known, inHand, calls, answers,
                   socket, toClient, registry, tracking, forwarded, closing>>

browserStep ==
    \/ createService
    \/ \E s \in Services, p \in Publishers : subscribe(s, p) \/ unsubscribe(s, p)
    \/ \E s \in Services : stop(s)
    \/ onopen \/ onerrorConnecting
    \/ onmessageResult \/ onmessageRequest
    \/ \E s \in Services, o \in Ops : completeRequest(s, o)

-----------------------------------------------------------------------------
(* The server: processWebSocketFrame, one action per kind of frame.        *)

(* ctx.writeAndFlush of a text frame: a closed channel discards it.        *)
write(frame) == toClient' = IF socket = "open" THEN Append(toClient, frame) ELSE toClient
result(f, ok, s) == [type |-> "result", id |-> f.id, ok |-> ok, svc |-> s, call |-> f.call]

(* Requests about the same service and publisher that are under way.       *)
Underway(s, p) == \E r \in hostRequests : r.svc = s /\ r.pub = p
UnderwayFor(s) == {<<s, p>> : p \in {q \in Publishers : Underway(s, q)}}

(* POST /ws-service: startService, then webSocketServices.put.             *)
handleCreate(f, s) ==
    /\ f.msg.kind = "create"
    /\ s \in Services \ created
    /\ created' = created \cup {s}
    /\ starting' = starting \cup {[svc |-> s, id |-> f.id, call |-> f.call]}
    /\ putting' = putting \cup {s}
    /\ toServer' = toServer \ {f}
    /\ UNCHANGED <<browser, socket, toClient, attached, webSocketServices, tracking,
                   forwarded, closing>>

putService(s) ==
    /\ s \in putting
    /\ putting' = putting \ {s}
    /\ webSocketServices' = webSocketServices \cup {s}
    /\ UNCHANGED <<browser, socket, toServer, toClient, created, starting, attached,
                   tracking, forwarded, closing>>

(* Mutants of startCompleted: the answer lacks the URI; a failure is       *)
(* answered like a success; a failure is not answered.                     *)
startCompletedNoUri(t, ok) ==
    /\ t \in starting
    /\ starting' = starting \ {t}
    /\ attached' = IF ok THEN attached \cup {t.svc} ELSE attached
    /\ write(result(t, ok, NoService))
    /\ UNCHANGED <<browser, socket, toServer, created, putting, webSocketServices, tracking,
                   forwarded, closing>>

startCompletedAlwaysOk(t, ok) ==
    /\ t \in starting
    /\ starting' = starting \ {t}
    /\ attached' = IF ok THEN attached \cup {t.svc} ELSE attached
    /\ write(result(t, TRUE, t.svc))
    /\ UNCHANGED <<browser, socket, toServer, created, putting, webSocketServices, tracking,
                   forwarded, closing>>

startCompletedSilent(t, ok) ==
    /\ t \in starting
    /\ starting' = starting \ {t}
    /\ attached' = IF ok THEN attached \cup {t.svc} ELSE attached
    /\ IF ok THEN write(result(t, ok, t.svc)) ELSE UNCHANGED toClient
    /\ UNCHANGED <<browser, socket, toServer, created, putting, webSocketServices, tracking,
                   forwarded, closing>>

(* The completion of startService, which may come before the put.          *)
startCompleted(t, ok) ==
    /\ t \in starting
    /\ starting' = starting \ {t}
    /\ attached' = IF ok THEN attached \cup {t.svc} ELSE attached
    /\ write(result(t, ok, IF ok THEN t.svc ELSE NoService))
    /\ UNCHANGED <<browser, socket, toServer, created, putting, webSocketServices, tracking,
                   forwarded, closing>>

(* POST or DELETE .../subscriptions: without the service, a null pointer   *)
(* exception; its answer is written as a String, which the pipeline cannot *)
(* encode, so the browser gets none.                                       *)
forward(f, method) ==
    LET s == f.msg.svc
        p == f.msg.pub
    IN IF s \in webSocketServices
       THEN /\ hostRequests' = hostRequests \cup
                 {[method |-> method, svc |-> s, pub |-> p, id |-> f.id, call |-> f.call,
                   phase |-> "sent", ok |-> FALSE]}
            /\ raced' = IF Underway(s, p) \/ socket # "open"
                        THEN raced \cup {<<s, p>>} ELSE raced
       ELSE UNCHANGED <<hostRequests, raced>>

handleSubscribe(f) ==
    /\ f.msg.kind = "subscribe"
    /\ forward(f, "POST")
    /\ toServer' = toServer \ {f}
    /\ UNCHANGED <<browser, socket, toClient, registry, entries, paths, subscribers,
                   forwarded, closing>>

handleUnsubscribe(f) ==
    /\ f.msg.kind = "unsubscribe"
    /\ forward(f, "DELETE")
    /\ toServer' = toServer \ {f}
    /\ UNCHANGED <<browser, socket, toClient, registry, entries, paths, subscribers,
                   forwarded, closing>>

(* Mutant of deleteServiceSubscriptions: the publishers are not told.      *)
deleteServiceSubscriptionsSilent(s) ==
    /\ entries' = entries \ {s}
    /\ paths' = [paths EXCEPT ![s] = {}]
    /\ raced' = raced \cup UnderwayFor(s)
    /\ UNCHANGED hostRequests

(* deleteServiceSubscriptions(service), for a service with an entry.       *)
deleteServiceSubscriptions(s) ==
    /\ entries' = entries \ {s}
    /\ paths' = [paths EXCEPT ![s] = {}]
    /\ hostRequests' = hostRequests \cup
         {[method |-> "DELETE", svc |-> s, pub |-> p, id |-> NoRequest, call |-> NoCall,
           phase |-> "sent", ok |-> FALSE] : p \in paths[s]}
    /\ raced' = raced \cup UnderwayFor(s)

(* DELETE /ws-service/<id>.  A service that never subscribed has no entry: *)
(* deleteServiceSubscriptions throws, and neither stopService nor the      *)
(* answer follows.                                                         *)
handleStop(f) ==
    /\ f.msg.kind = "stop"
    /\ LET s == f.msg.svc
       IN \/ /\ s \in webSocketServices /\ s \in entries
             /\ deleteServiceSubscriptions(s)
             /\ attached' = attached \ {s}
             /\ webSocketServices' = webSocketServices \ {s}
             /\ write(result(f, TRUE, NoService))
          \/ /\ s \in webSocketServices /\ s \notin entries
             /\ webSocketServices' = webSocketServices \ {s}
             /\ raced' = raced \cup UnderwayFor(s)
             /\ UNCHANGED <<entries, paths, hostRequests, attached, toClient>>
          \/ /\ s \notin webSocketServices
             /\ write(result(f, FALSE, NoService))
             /\ UNCHANGED <<entries, paths, hostRequests, raced, attached, webSocketServices>>
    /\ toServer' = toServer \ {f}
    /\ UNCHANGED <<browser, socket, created, starting, putting, subscribers, forwarded, closing>>

(* Mutant of handleReply: pendingOperations.get instead of remove.         *)
handleReplyKeepsPending(f) ==
    /\ f.msg.kind = "reply"
    /\ LET s == f.msg.svc
           o == f.msg.op
       IN IF s \in webSocketServices /\ o \in pendingOperations[s]
          THEN completions' = [completions EXCEPT ![o] = @ + 1]
          ELSE UNCHANGED completions
    /\ toServer' = toServer \ {f}
    /\ UNCHANGED <<browser, socket, toClient, registry, tracking, pendingOperations, closing>>

(* REPLY: handleWebSocketMessage completes the operation it finds.         *)
handleReply(f) ==
    /\ f.msg.kind = "reply"
    /\ LET s == f.msg.svc
           o == f.msg.op
       IN IF s \in webSocketServices /\ o \in pendingOperations[s]
          THEN /\ pendingOperations' = [pendingOperations EXCEPT ![s] = @ \ {o}]
               /\ completions' = [completions EXCEPT ![o] = @ + 1]
          ELSE UNCHANGED forwarded
    /\ toServer' = toServer \ {f}
    /\ UNCHANGED <<browser, socket, toClient, registry, tracking, closing>>

(* WebSocketService.handleRequest: the operation is kept and forwarded, or *)
(* fails with the write.                                                   *)
handleRequest(s, o) ==
    /\ s \in attached
    /\ \A t \in Services : o \notin pendingOperations[t]
    /\ completions[o] = 0
    /\ IF socket = "open"
       THEN /\ pendingOperations' = [pendingOperations EXCEPT ![s] = @ \cup {o}]
            /\ toClient' = Append(toClient, [type |-> "request", svc |-> s, op |-> o])
            /\ UNCHANGED completions
       ELSE /\ completions' = [completions EXCEPT ![o] = @ + 1]
            /\ UNCHANGED <<pendingOperations, toClient>>
    /\ UNCHANGED <<browser, socket, toServer, registry, tracking, closing>>

-----------------------------------------------------------------------------
(* Requests to publishers: handleSubscriptionsRequest at the publisher,    *)
(* then the completion, which writes the answer and only then updates      *)
(* serviceSubscriptions.                                                   *)

(* A request that fails may have been applied.                             *)
handleSubscriptionsRequest(r, applied, ok) ==
    /\ r \in hostRequests /\ r.phase = "sent"
    /\ IF ok THEN applied ELSE PublisherCanFail
    /\ subscribers' = [subscribers EXCEPT ![r.pub] =
                         CASE ~applied -> @
                           [] applied /\ r.method = "POST" -> @ \cup {r.svc}
                           [] applied /\ r.method = "DELETE" -> @ \ {r.svc}]
    /\ hostRequests' = IF r.id = NoRequest
                       THEN hostRequests \ {r}
                       ELSE (hostRequests \ {r}) \cup {[r EXCEPT !.phase = "handled", !.ok = ok]}
    /\ raced' = IF ok THEN raced ELSE raced \cup {<<r.svc, r.pub>>}
    /\ UNCHANGED <<browser, socket, toServer, toClient, registry, entries, paths, forwarded,
                   closing>>

writeResult(r) ==
    /\ r \in hostRequests /\ r.phase = "handled"
    /\ write(result(r, r.ok, NoService))
    /\ hostRequests' = (hostRequests \ {r}) \cup {[r EXCEPT !.phase = "written"]}
    /\ UNCHANGED <<browser, socket, toServer, registry, entries, paths, subscribers, raced,
                   forwarded, closing>>

(* getSubscriptions(service).add(path) after a POST that succeeded, and    *)
(* .remove(path) after any DELETE; it makes an entry where there is none.  *)
updateSubscriptions(r) ==
    /\ r \in hostRequests /\ r.phase = "written"
    /\ hostRequests' = hostRequests \ {r}
    /\ \/ /\ r.method = "POST" /\ r.ok
          /\ entries' = entries \cup {r.svc}
          /\ paths' = [paths EXCEPT ![r.svc] = @ \cup {r.pub}]
       \/ /\ r.method = "POST" /\ ~r.ok
          /\ UNCHANGED <<entries, paths>>
       \/ /\ r.method = "DELETE"
          /\ entries' = entries \cup {r.svc}
          /\ paths' = [paths EXCEPT ![r.svc] = @ \ {r.pub}]
    /\ UNCHANGED <<browser, socket, toServer, toClient, registry, subscribers, raced,
                   forwarded, closing>>

-----------------------------------------------------------------------------
(* The end of the connection.                                              *)

(* Mutant of disconnect: the listener has no entries to visit.             *)
disconnectNoEntries(err) ==
    /\ CanDisconnect
    /\ socket = "open"
    /\ socket' = "closed"
    /\ failure' = err
    /\ toClient' = <<>>
    /\ closer' = "running"
    /\ closeEntries' = {}
    /\ raced' = raced \cup UNION {UnderwayFor(s) : s \in Services}
    /\ UNCHANGED <<ready, requestQueue, requestCounter, doneHandlers, known, inHand, calls,
                   answers, toServer, registry, entries, paths, hostRequests, subscribers,
                   forwarded>>

(* The channel closes; the browser may get an onerror.  Frames the server  *)
(* has received may still be handled.                                      *)
disconnect(err) ==
    /\ CanDisconnect
    /\ socket = "open"
    /\ socket' = "closed"
    /\ failure' = err
    /\ toClient' = <<>>
    /\ closer' = "running"
    /\ closeEntries' = entries
    /\ raced' = raced \cup UNION {UnderwayFor(s) : s \in Services}
    /\ UNCHANGED <<ready, requestQueue, requestCounter, doneHandlers, known, inHand, calls,
                   answers, toServer, registry, entries, paths, hostRequests, subscribers,
                   forwarded>>

(* One iteration of the listener.  An entry of a service that is no longer *)
(* in webSocketServices makes it call stopService(null), which throws.     *)
(* While a stop of the service is handled, which removes it from both maps *)
(* in turn, the listener can find it missing from either: it throws then,  *)
(* and the stop goes on as if it had come later.                           *)
Stopping(s) == \E f \in toServer : f.msg.kind = "stop" /\ f.msg.svc = s

closeEntry(s) ==
    /\ closer = "running"
    /\ s \in entries
    /\ \/ /\ s \in webSocketServices
          /\ deleteServiceSubscriptions(s)
          /\ attached' = attached \ {s}
          /\ closeEntries' = closeEntries \ {s}
          /\ UNCHANGED closer
       \/ /\ s \notin webSocketServices \/ Stopping(s)
          /\ closer' = "aborted"
          /\ UNCHANGED <<closeEntries, entries, paths, hostRequests, raced, attached>>
    /\ UNCHANGED <<browser, socket, toServer, toClient, created, starting, putting,
                   webSocketServices, subscribers, forwarded>>

(* The iterator may miss entries that are added while it runs.             *)
closeFinished ==
    /\ closer = "running"
    /\ closeEntries \cap entries = {}
    /\ closer' = "finished"
    /\ UNCHANGED <<browser, socket, toServer, toClient, registry, tracking, forwarded,
                   closeEntries>>

serverStep ==
    \/ \E f \in toServer : \/ \E s \in Services : handleCreate(f, s)
                           \/ handleSubscribe(f) \/ handleUnsubscribe(f)
                           \/ handleStop(f) \/ handleReply(f)
    \/ \E s \in Services : putService(s) \/ closeEntry(s)
    \/ \E t \in starting, ok \in BOOLEAN : startCompleted(t, ok)
    \/ \E r \in hostRequests : \/ \E applied, ok \in BOOLEAN :
                                     handleSubscriptionsRequest(r, applied, ok)
                               \/ writeResult(r) \/ updateSubscriptions(r)
    \/ closeFinished

Next ==
    \/ browserStep \/ serverStep
    \/ \E s \in Services, o \in Ops : handleRequest(s, o)
    \/ \E err \in BOOLEAN : disconnect(err)

(* The server's threads and the browser's event loop keep running; nothing *)
(* obliges the page to call, a service's handler to answer, another        *)
(* service to send, or the connection to break.                            *)
Fairness ==
    /\ WF_vars(serverStep)
    /\ WF_vars(onopen \/ onmessageResult \/ onmessageRequest)

Spec == Init /\ [][Next]_vars /\ Fairness

-----------------------------------------------------------------------------
(* Properties.                                                             *)

(* The types of the variables.                                             *)
TypeOK ==
    /\ ready \in BOOLEAN /\ failure \in BOOLEAN
    /\ requestQueue \in Seq(CallIds) /\ requestCounter \in 0 .. MaxRequests
    /\ doneHandlers \in [RequestIds -> CallIds \cup {NoCall}]
    /\ known \subseteq Services /\ inHand \subseteq Services \X Ops
    /\ calls \in Seq(Message) /\ Len(calls) =< MaxCalls
    /\ answers \in [CallIds -> Seq([of : CallIds \cup {NoCall}, ok : BOOLEAN])]
    /\ socket \in {"connecting", "open", "closed"}
    /\ toServer \subseteq ServerFrame /\ toClient \in Seq(ClientFrame)
    /\ created \subseteq Services /\ putting \subseteq Services /\ attached \subseteq Services
    /\ starting \subseteq [svc : Services, id : RequestIds, call : CallIds]
    /\ webSocketServices \subseteq Services /\ entries \subseteq Services
    /\ paths \in [Services -> SUBSET Publishers]
    /\ hostRequests \subseteq HostRequest
    /\ subscribers \in [Publishers -> SUBSET Services]
    /\ raced \subseteq Services \X Publishers
    /\ pendingOperations \in [Services -> SUBSET Ops]
    /\ completions \in [Ops -> Nat]
    /\ closer \in {"idle", "running", "finished", "aborted"}
    /\ closeEntries \subseteq Services

(* A handler passed to createService, subscribe, unsubscribe or stop is    *)
(* called at most once, and with the answer to its own call: answers are   *)
(* matched by request id although the server's executor reorders the       *)
(* requests, and the calls queued before onopen get ids of their own.      *)
OwnAnswerOnce ==
    \A c \in CallIds : /\ Len(answers[c]) =< 1
                       /\ \A i \in 1 .. Len(answers[c]) : answers[c][i].of = c

(* An operation another service sent to a web socket service is completed  *)
(* at most once, however often the page's handler completes it and         *)
(* whatever the connection does: pendingOperations.remove decides.         *)
OperationsCompletedOnce == \A o \in Ops : completions[o] =< 1

(* As long as its requests neither failed nor overlapped (with each other, *)
(* with the stop of the service or with the end of the connection), the    *)
(* handler knows every subscription a publisher holds: it is in            *)
(* serviceSubscriptions or a request about it is under way.                *)
SubscriptionsTracked ==
    \A s \in Services, p \in Publishers :
        s \in subscribers[p] /\ <<s, p>> \notin raced => p \in paths[s] \/ Underway(s, p)

(* Once the close listener has gone through all entries and its requests   *)
(* are done, no publisher notifies a service of the broken connection,     *)
(* other than through requests that failed or overlapped as above.         *)
CloseUnsubscribes ==
    closer = "finished" /\ hostRequests = {} =>
        \A s \in Services, p \in Publishers : s \in subscribers[p] => <<s, p>> \in raced

(* A service the page was given runs on the server until the page calls    *)
(* stop or the connection ends, whichever order the executor handles the   *)
(* frames in.                                                              *)
KnownServicesRun ==
    \A s \in known : \/ s \in attached
                     \/ socket = "closed"
                     \/ \E i \in 1 .. Len(calls) : calls[i].kind = "stop" /\ calls[i].svc = s

(* createService always calls one of its handlers, unless the connection   *)
(* breaks.                                                                 *)
CreateAnswered ==
    \A c \in CallIds :
        (Len(calls) >= c /\ calls[c].kind = "create") ~> (answers[c] # <<>> \/ socket = "closed")

(* "onSuccess() or onFailure(http_status_code, body) is called when        *)
(* operation is complete": so it is for every call, unless the connection  *)
(* breaks.                                                                 *)
EveryCallAnswered ==
    \A c \in CallIds : (Len(calls) >= c) ~> (answers[c] # <<>> \/ socket = "closed")
=============================================================================
