-------------------------- MODULE NettyChannelPool --------------------------
(***************************************************************************)
(* The HTTP/1.1 connections a host keeps to one remote host: one           *)
(* NettyChannelGroup of com.vmware.xenon.common.http.netty.                *)
(* NettyChannelPool, used by NettyHttpServiceClient, which sends requests  *)
(* and expires them, and by NettyHttpServerResponseHandler, which receives *)
(* the responses.  The threads of the sender, of the event loop, of the    *)
(* client's maintenance and of the executor interleave between the         *)
(* synchronized sections of the group.                                     *)
(***************************************************************************)
EXTENDS OperationQueue, FiniteSets

CONSTANTS
    Requests,         \* the operations that are sent
    Contexts,         \* NettyChannelContext objects
    NoRequest,        \* null, for an operation
    NoContext,        \* null, for a context
    ConnectionLimit,  \* getConnectionLimitPerTag
    QueueLimit        \* pendingRequestQueueLimit

ASSUME PoolAssumption ==
    /\ NoRequest \notin Requests /\ NoContext \notin Contexts
    /\ ConnectionLimit \in Nat \ {0}
    /\ QueueLimit \in Nat \ {0}

VARIABLES
    available,        \* group.availableChannels
    inUse,            \* group.inUseChannels
    pendingRequests,  \* group.pendingRequests
    channel,          \* state of each context's channel
    operation,        \* OPERATION_KEY attribute of each context's channel
    wire,             \* requests written to each channel and not yet answered
    pc,               \* where each request is
    held,             \* the context connectOrReuse selected for a request
    socketContext,    \* Operation.getSocketContext()
    expired,          \* the request's completion was taken by failExpiredRequests
    answer,           \* the request whose response completed this one
    threads           \* response, expiry and return steps under way

group == <<available, inUse, pendingRequests>>
channels == <<channel, operation, wire>>
client == <<pc, held, socketContext, expired, answer>>
vars == <<group, channels, client, threads>>

Places == {"new", "selecting", "queued", "holding", "sent", "ok", "failed"}
Completed == {"ok", "failed"}

(* A step a thread still has to take for request req: "respond" and        *)
(* "expire" have yet to return the context; "check" and "return" are the   *)
(* two halves of returnOrCloseDirect.  by tells two threads apart that     *)
(* return a context for the same request.                                  *)
Thread == [step : {"respond", "expire", "check", "return"}, req : Requests,
           ctx : Contexts \cup {NoContext}, close : BOOLEAN,
           by : {"response", "failure", "replacement"}]

thread(step, r, c, close, by) ==
    [step |-> step, req |-> r, ctx |-> c, close |-> close, by |-> by]

(* Contexts nobody refers to any more stand for the ones yet to be created. *)
Unreferenced ==
    {c \in Contexts : /\ c \notin available \cup inUse
                      /\ \A r \in Requests : held[r] # c /\ socketContext[r] # c
                      /\ \A t \in threads : t.ctx # c}

-----------------------------------------------------------------------------
Init ==
    /\ available = {} /\ inUse = {}
    /\ pendingRequests = createFifo(QueueLimit)
    /\ channel = [c \in Contexts |-> "closed"]
    /\ operation = [c \in Contexts |-> NoRequest]
    /\ wire = [c \in Contexts |-> <<>>]
    /\ pc = [r \in Requests |-> "new"]
    /\ held = [r \in Requests |-> NoContext]
    /\ socketContext = [r \in Requests |-> NoContext]
    /\ expired = [r \in Requests |-> FALSE]
    /\ answer = [r \in Requests |-> NoRequest]
    /\ threads = {}

(* sendRemote: the request is tracked and goes to connectOrReuse.          *)
sendRemote(r) ==
    /\ pc[r] = "new"
    /\ pc' = [pc EXCEPT ![r] = "selecting"]
    /\ UNCHANGED <<group, channels, held, socketContext, expired, answer, threads>>

-----------------------------------------------------------------------------
(* selectHttp11Context, under the group's lock.                            *)

NewContext(r, c) ==
    /\ channel' = [channel EXCEPT ![c] = "connecting"]
    /\ operation' = [operation EXCEPT ![c] = NoRequest]
    /\ wire' = [wire EXCEPT ![c] = <<>>]
    /\ held' = [held EXCEPT ![r] = c]
    /\ pc' = [pc EXCEPT ![r] = "holding"]

reuseAvailable(r, c) ==
    /\ pc[r] = "selecting" /\ c \in available /\ channel[c] = "open"
    /\ available' = available \ {c}
    /\ inUse' = inUse \cup {c}
    /\ held' = [held EXCEPT ![r] = c]
    /\ pc' = [pc EXCEPT ![r] = "holding"]
    /\ UNCHANGED <<pendingRequests, channels, socketContext, expired, answer, threads>>

(* A channel that was closed while it was available is replaced, and       *)
(* closeBadChannelContext returns it.                                      *)
replaceBad(r, c, d) ==
    /\ pc[r] = "selecting" /\ c \in available /\ channel[c] = "closed"
    /\ d \in Unreferenced
    /\ available' = available \ {c}
    /\ inUse' = inUse \cup {d}
    /\ NewContext(r, d)
    /\ threads' = threads \cup {thread("check", r, c, TRUE, "replacement")}
    /\ UNCHANGED <<pendingRequests, socketContext, expired, answer>>

(* Mutant of AtConnectionLimit: off by one.                                *)
OneAboveLimit == Cardinality(inUse) > ConnectionLimit

AtConnectionLimit == Cardinality(inUse) >= ConnectionLimit

createContext(r, c) ==
    /\ pc[r] = "selecting" /\ available = {} /\ ~AtConnectionLimit
    /\ c \in Unreferenced
    /\ inUse' = inUse \cup {c}
    /\ NewContext(r, c)
    /\ UNCHANGED <<available, pendingRequests, socketContext, expired, answer, threads>>

queuePendingRequest(r) ==
    /\ pc[r] = "selecting" /\ available = {} /\ AtConnectionLimit
    /\ IF canOffer(pendingRequests)
       THEN /\ pendingRequests' = offer(pendingRequests, r)
            /\ pc' = [pc EXCEPT ![r] = "queued"]
       ELSE pc' = [pc EXCEPT ![r] = "failed"] /\ UNCHANGED pendingRequests
    /\ UNCHANGED <<available, inUse, channels, held, socketContext, expired, answer, threads>>

-----------------------------------------------------------------------------
(* The channel's operation is set and sendHttpRequest writes the request;  *)
(* what is written to a closed channel is lost.                            *)
Written(r, c, state) == [wire EXCEPT ![c] = IF state = "open" THEN Append(@, r) ELSE @]

(* connectOrReuse on an open channel.                                      *)
sendOnReused(r) ==
    LET c == held[r]
    IN  /\ pc[r] = "holding" /\ channel[c] # "connecting"
        /\ operation' = [operation EXCEPT ![c] = r]
        /\ socketContext' = [socketContext EXCEPT ![r] = c]
        /\ wire' = Written(r, c, channel[c])
        /\ pc' = [pc EXCEPT ![r] = "sent"]
        /\ held' = [held EXCEPT ![r] = NoContext]
        /\ UNCHANGED <<group, channel, expired, answer, threads>>

connectSuccess(r) ==
    LET c == held[r]
    IN  /\ pc[r] = "holding" /\ channel[c] = "connecting"
        /\ channel' = [channel EXCEPT ![c] = "open"]
        /\ operation' = [operation EXCEPT ![c] = r]
        /\ socketContext' = [socketContext EXCEPT ![r] = c]
        /\ wire' = Written(r, c, "open")
        /\ pc' = [pc EXCEPT ![r] = "sent"]
        /\ held' = [held EXCEPT ![r] = NoContext]
        /\ UNCHANGED <<group, expired, answer, threads>>

(* Without a channel, returnOrClose goes straight to its second half.      *)
connectFailure(r) ==
    LET c == held[r]
    IN  /\ pc[r] = "holding" /\ channel[c] = "connecting"
        /\ threads' = threads \cup {thread("return", r, c, TRUE, "failure")}
        /\ pc' = [pc EXCEPT ![r] = "failed"]
        /\ held' = [held EXCEPT ![r] = NoContext]
        /\ UNCHANGED <<group, channels, socketContext, expired, answer>>

-----------------------------------------------------------------------------
(* Mutant of FailAndReturn: the failed operation's context is not given    *)
(* back.                                                                   *)
FailWithoutReturn(r) ==
    /\ pc' = [pc EXCEPT ![r] = "failed"]
    /\ socketContext' = [socketContext EXCEPT ![r] = NoContext]
    /\ UNCHANGED threads

(* Mutant of FailAndReturn: the operation forgets its context before it is *)
(* returned.                                                               *)
ForgetContext(r) ==
    /\ pc' = [pc EXCEPT ![r] = "failed"]
    /\ socketContext' = [socketContext EXCEPT ![r] = NoContext]
    /\ threads' = threads \cup {thread("check", r, NoContext, FALSE, "failure")}

(* NettyHttpServiceClient.fail: the context leaves the operation and is    *)
(* returned on an executor thread.                                         *)
FailAndReturn(r) ==
    /\ pc' = [pc EXCEPT ![r] = "failed"]
    /\ socketContext' = [socketContext EXCEPT ![r] = NoContext]
    /\ threads' = threads \cup {thread("check", r, socketContext[r], FALSE, "failure")}

(* A response arrives.  Its operation is the channel's, whatever the       *)
(* response answers; nobody waits for the response of an operation that    *)
(* was taken off the channel.                                              *)
channelRead(c) ==
    /\ channel[c] = "open" /\ wire[c] # <<>>
    /\ wire' = [wire EXCEPT ![c] = Tail(@)]
    /\ operation' = [operation EXCEPT ![c] = NoRequest]
    /\ IF operation[c] = NoRequest
       THEN UNCHANGED <<client, threads>>
       ELSE LET r == operation[c]
            IN  /\ answer' = [answer EXCEPT ![r] = IF pc[r] = "sent" THEN Head(wire[c]) ELSE @]
                /\ \/ /\ \E result \in IF expired[r] THEN Completed ELSE {"ok"} :
                            pc' = [pc EXCEPT ![r] = IF @ = "sent" THEN result ELSE @]
                      /\ threads' = threads \cup
                            (IF socketContext[r] = NoContext THEN {}
                             ELSE {thread("respond", r, NoContext, FALSE, "response")})
                      /\ UNCHANGED socketContext
                   \/ /\ pc[r] = "sent" /\ ~expired[r]  \* an error response
                      /\ FailAndReturn(r)
                /\ UNCHANGED <<held, expired>>
    /\ UNCHANGED <<group, channel>>

(* completeRequest, after the completion has run; nobody looks at the      *)
(* completed operation's context after that, except its expiry.            *)
returnAfterResponse(t) ==
    /\ t \in threads /\ t.step = "respond"
    /\ threads' = (threads \ {t}) \cup
           (IF socketContext[t.req] = NoContext THEN {}
            ELSE {[t EXCEPT !.step = "check", !.ctx = socketContext[t.req]]})
    /\ socketContext' = [socketContext EXCEPT ![t.req] = IF expired[t.req] THEN @ ELSE NoContext]
    /\ UNCHANGED <<group, channels, pc, held, expired, answer>>

(* A request, written to a channel once at most, gets no response.         *)
Unanswered(s, r) ==
    IF \E i \in 1 .. Len(s) : s[i] = r
    THEN LET i == CHOOSE i \in 1 .. Len(s) : s[i] = r
         IN SubSeq(s, 1, i - 1) \o SubSeq(s, i + 1, Len(s))
    ELSE s

(* An encoding error instead of the write, which leaves the operation on   *)
(* the channel, or exceptionCaught, which takes it off: no response comes. *)
requestFailure(r) ==
    /\ pc[r] = "sent" /\ ~expired[r] /\ operation[socketContext[r]] = r
    /\ \E left \in {NoRequest, r} :
        operation' = [operation EXCEPT ![socketContext[r]] = left]
    /\ wire' = [wire EXCEPT ![socketContext[r]] = Unanswered(@, r)]
    /\ FailAndReturn(r)
    /\ UNCHANGED <<group, channel, held, expired, answer>>

(* failExpiredRequests fails an operation that was written: fail reads its *)
(* socket context and, later, resets it and completes the operation.  No   *)
(* lock keeps a response from being handled in between.                    *)
failExpiredRequests(r) ==
    /\ pc[r] = "sent" /\ ~expired[r]
    /\ expired' = [expired EXCEPT ![r] = TRUE]
    /\ threads' = threads \cup {thread("expire", r, socketContext[r], FALSE, "failure")}
    /\ UNCHANGED <<group, channels, pc, held, socketContext, answer>>

returnAfterExpiry(t) ==
    /\ t \in threads /\ t.step = "expire"
    /\ pc' = [pc EXCEPT ![t.req] = IF @ = "sent" THEN "failed" ELSE @]
    /\ socketContext' = [socketContext EXCEPT ![t.req] = NoContext]
    /\ threads' = (threads \ {t}) \cup {[t EXCEPT !.step = "check"]}
    /\ UNCHANGED <<group, channels, held, expired, answer>>

-----------------------------------------------------------------------------
(* returnOrCloseDirect.  A channel that still has an operation is closed:  *)
(* its response may yet come.                                              *)

(* Mutant of StillHasOperation: the operation is not looked at.            *)
IgnoreOperation(c) == FALSE

StillHasOperation(c) == operation[c] # NoRequest

(* closing: the operation is not keep-alive, or the channel not writable.  *)
checkChannel(t) ==
    /\ t \in threads /\ t.step = "check"
    /\ LET c == t.ctx
       IN  \E closing \in BOOLEAN :
            /\ threads' = (threads \ {t}) \cup
                  {[t EXCEPT !.step = "return",
                             !.close = \/ t.close \/ closing \/ channel[c] = "closed"
                                       \/ StillHasOperation(c)]}
            /\ operation' = [operation EXCEPT ![c] = NoRequest]
    /\ UNCHANGED <<group, channel, wire, client>>

(* The group's lock, then what follows it: close the context or give it to *)
(* the pending request.                                                    *)
returnAndSendPending(t) ==
    LET c == t.ctx
        p == IF isEmpty(pendingRequests) THEN NoRequest ELSE polled(pendingRequests)
    IN  /\ t \in threads /\ t.step = "return" /\ ~t.close
        /\ pendingRequests' = poll(pendingRequests)
        /\ threads' = threads \ {t}
        /\ IF p = NoRequest
           THEN /\ inUse' = inUse \ {c}
                /\ available' = IF c \in inUse THEN available \cup {c} ELSE available
                /\ UNCHANGED <<operation, wire, socketContext, pc>>
           ELSE /\ operation' = [operation EXCEPT ![c] = p]
                /\ socketContext' = [socketContext EXCEPT ![p] = c]
                /\ wire' = Written(p, c, channel[c])
                /\ pc' = [pc EXCEPT ![p] = "sent"]
                /\ UNCHANGED <<inUse, available>>
        /\ UNCHANGED <<channel, held, expired, answer>>

(* Mutant of Reconnecting: a pending request is only sent on a channel     *)
(* that stays open.                                                        *)
LeavePending == {}

(* The pending request that looks for another channel.                     *)
Reconnecting == IF isEmpty(pendingRequests) THEN {} ELSE {polled(pendingRequests)}

(* Closing a context fails the operation that was set on it meanwhile.     *)
closeAndReconnect(t) ==
    LET c == t.ctx
        q == IF operation[c] # NoRequest /\ ~expired[operation[c]] /\ pc[operation[c]] = "sent"
             THEN {operation[c]} ELSE {}
    IN  /\ t \in threads /\ t.step = "return" /\ t.close
        /\ pendingRequests' = IF Reconnecting = {} THEN pendingRequests ELSE poll(pendingRequests)
        /\ inUse' = inUse \ {c}
        /\ channel' = [channel EXCEPT ![c] = "closed"]
        /\ operation' = [operation EXCEPT ![c] = NoRequest]
        /\ wire' = [wire EXCEPT ![c] = <<>>]
        /\ pc' = [r \in Requests |-> IF r \in Reconnecting THEN "selecting"
                                     ELSE IF r \in q THEN "failed" ELSE pc[r]]
        /\ socketContext' = [r \in Requests |-> IF r \in q THEN NoContext ELSE socketContext[r]]
        /\ threads' = (threads \ {t}) \cup {thread("check", r, c, FALSE, "failure") : r \in q}
        /\ UNCHANGED <<available, held, expired, answer>>

-----------------------------------------------------------------------------
(* The remote host closes a connection: channelInactive takes the          *)
(* operation off the channel and leaves it to its expiration.              *)
channelInactive(c) ==
    /\ channel[c] = "open"
    /\ channel' = [channel EXCEPT ![c] = "closed"]
    /\ operation' = [operation EXCEPT ![c] = NoRequest]
    /\ wire' = [wire EXCEPT ![c] = <<>>]
    /\ UNCHANGED <<group, client, threads>>

(* Maintenance closes an open channel that has been idle for long.         *)
closeIdleChannelContext(c) ==
    /\ c \in available /\ channel[c] = "open"
    /\ available' = available \ {c}
    /\ channel' = [channel EXCEPT ![c] = "closed"]
    /\ UNCHANGED <<inUse, pendingRequests, operation, wire, client, threads>>

Select(r) ==
    \/ \E c \in Contexts : reuseAvailable(r, c) \/ createContext(r, c)
    \/ \E c, d \in Contexts : replaceBad(r, c, d)
    \/ queuePendingRequest(r)

Connect(r) == sendOnReused(r) \/ connectSuccess(r) \/ connectFailure(r)

Continue(t) ==
    \/ returnAfterResponse(t) \/ returnAfterExpiry(t)
    \/ checkChannel(t) \/ returnAndSendPending(t) \/ closeAndReconnect(t)

(* Every request was completed and every thread has finished.              *)
Quiescent == (\A r \in Requests : pc[r] \in Completed) /\ threads = {} /\ UNCHANGED vars

Next ==
    \/ \E r \in Requests : \/ sendRemote(r) \/ Select(r) \/ Connect(r)
                           \/ requestFailure(r) \/ failExpiredRequests(r)
    \/ \E c \in Contexts : channelRead(c) \/ channelInactive(c) \/ closeIdleChannelContext(c)
    \/ \E t \in threads : Continue(t)
    \/ Quiescent

(* Threads that have started go on; connects end; maintenance expires what *)
(* is not answered.                                                        *)
Fairness ==
    \A r \in Requests :
        /\ WF_vars(Select(r)) /\ WF_vars(Connect(r)) /\ WF_vars(failExpiredRequests(r))
        /\ WF_vars(\E t \in threads : t.req = r /\ Continue(t))

Spec == Init /\ [][Next]_vars /\ Fairness

-----------------------------------------------------------------------------
(* Every variable has its type.                                            *)
TypeOK ==
    /\ available \subseteq Contexts /\ inUse \subseteq Contexts
    /\ pendingRequests \in Queue(Requests)
    /\ channel \in [Contexts -> {"connecting", "open", "closed"}]
    /\ operation \in [Contexts -> Requests \cup {NoRequest}]
    /\ wire \in [Contexts -> Seq(Requests)]
    /\ pc \in [Requests -> Places]
    /\ held \in [Requests -> Contexts \cup {NoContext}]
    /\ socketContext \in [Requests -> Contexts \cup {NoContext}]
    /\ expired \in [Requests -> BOOLEAN]
    /\ answer \in [Requests -> Requests \cup {NoRequest}]
    /\ threads \subseteq Thread
    /\ \A t \in threads : t.step = "respond" \/ t.ctx # NoContext

(* The group never has more connections than the limit of its tag, counting *)
(* the ones that wait to be reused, and never lists one twice              *)
(* (selectHttp11Context, returnOrCloseDirect).                             *)
ConnectionLimitHeld ==
    /\ inUse \cap available = {}
    /\ Cardinality(inUse) + Cardinality(available) <= ConnectionLimit

(* A request waits only while every connection is busy: whenever requests  *)
(* are pending, the contexts in use and the requests on their way to       *)
(* select one make up the limit, and none is available (no lost wake-up    *)
(* in returnOrCloseDirect).                                                *)
NoStrandedRequest ==
    ~isEmpty(pendingRequests) =>
        /\ available = {}
        /\ Cardinality(inUse) + Cardinality({r \in Requests : pc[r] = "selecting"})
               >= ConnectionLimit

(* No connection leaks: a context counts as in use only while a request    *)
(* holds it or a thread is about to return it.                             *)
InUseIsReturned ==
    \A c \in inUse :
        \/ \E r \in Requests : held[r] = c \/ (socketContext[r] = c /\ pc[r] = "sent")
        \/ \E t \in threads : t.ctx = c \/ (t.step = "respond" /\ socketContext[t.req] = c)

(* A request is completed by the response to it, never by the late         *)
(* response to another one: a channel that still has an operation is       *)
(* closed rather than reused (the comment on OPERATION_KEY in              *)
(* returnOrCloseDirect).                                                   *)
OwnResponse == \A r \in Requests : answer[r] \in {NoRequest, r}

(* A response was handled while its request was being expired: both return *)
(* the request's context.                                                  *)
Raced == \E r \in Requests : expired[r] /\ answer[r] # NoRequest

(* Without such a race every request is completed by the response to it,   *)
(* whatever expires, fails or is closed before its response comes: the     *)
(* check of OPERATION_KEY in returnOrCloseDirect is enough for these.      *)
OwnResponseUnlessRaced == Raced \/ OwnResponse

(* Every request that is sent is completed or failed, pending ones too.    *)
EveryRequestCompleted == \A r \in Requests : pc[r] = "selecting" ~> pc[r] \in Completed
=============================================================================
