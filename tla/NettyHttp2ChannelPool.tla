----------------------- MODULE NettyHttp2ChannelPool ------------------------
(***************************************************************************)
(* The shared HTTP/2 connections a host keeps to one remote host: one      *)
(* NettyChannelGroup of a NettyChannelPool with isHttp2Only.  A connection *)
(* carries many requests, each on a stream of its own; requests that come  *)
(* while it is being opened wait in pendingRequests, and a connection that *)
(* has used up its stream identifiers is replaced.                         *)
(***************************************************************************)
EXTENDS OperationQueue, FiniteSets

CONSTANTS
    Requests,         \* the operations that are sent
    Contexts,         \* NettyChannelContext objects
    NoContext,        \* null, for a context
    ConnectionLimit,  \* getConnectionLimitPerTag
    QueueLimit,       \* pendingRequestQueueLimit
    MaxStreams        \* streams a connection can carry (maxStreamId)

ASSUME Http2PoolAssumption ==
    /\ NoContext \notin Contexts
    /\ ConnectionLimit \in Nat \ {0}
    /\ QueueLimit \in Nat \ {0}
    /\ MaxStreams \in Nat \ {0}

VARIABLES
    inUse,            \* group.inUseChannels
    pendingRequests,  \* group.pendingRequests
    channel,          \* state of each context: openInProgress, open or closed
    used,             \* largestStreamId of each context, in streams
    streams,          \* streamIdMap: the requests a context waits for
    pc,               \* where each request is
    held,             \* the context connectOrReuse selected for a request
    socketContext,    \* Operation.getSocketContext()
    expired,          \* requests that were failed before they were sent
    threads,          \* returns of contexts under way
    lost              \* history: the requests that waited when a wake-up was lost

group == <<inUse, pendingRequests>>
contexts == <<channel, used, streams>>
client == <<pc, held, socketContext, expired>>
vars == <<group, contexts, client, threads, lost>>

Places == {"new", "selecting", "queued", "polled", "holding", "sent", "ok", "failed"}
Completed == {"ok", "failed"}

(* A call of returnOrClose for request req, made by the response handler   *)
(* or where the request failed, and how far it has come: it looks at the   *)
(* context, takes the group's lock and, after releasing it, closes the     *)
(* context or sends next, the request it took out of the queue, if any.    *)
Thread == [step : {"check", "lock", "close", "send"}, req : Requests, ctx : Contexts,
           close : BOOLEAN, by : {"response", "failure"}, next : SUBSET Requests]
thread(r, c, close, by) ==
    [step |-> "check", req |-> r, ctx |-> c, close |-> close, by |-> by, next |-> {}]

hasRemainingStreamIds(c) == used[c] < MaxStreams

(* Contexts nobody refers to any more stand for the ones yet to be created. *)
Unreferenced ==
    {c \in Contexts : /\ c \notin inUse
                      /\ \A r \in Requests : held[r] # c /\ socketContext[r] # c
                      /\ \A t \in threads : t.ctx # c}

-----------------------------------------------------------------------------
Init ==
    /\ inUse = {}
    /\ pendingRequests = createFifo(QueueLimit)
    /\ channel = [c \in Contexts |-> "closed"]
    /\ used = [c \in Contexts |-> 0]
    /\ streams = [c \in Contexts |-> {}]
    /\ pc = [r \in Requests |-> "new"]
    /\ held = [r \in Requests |-> NoContext]
    /\ socketContext = [r \in Requests |-> NoContext]
    /\ expired = {}
    /\ threads = {}
    /\ lost = {}

sendRemote(r) ==
    /\ pc[r] = "new"
    /\ pc' = [pc EXCEPT ![r] = "selecting"]
    /\ UNCHANGED <<group, contexts, held, socketContext, expired, threads, lost>>

-----------------------------------------------------------------------------
(* selectHttp2Context, under the group's lock.                             *)

AtConnectionLimit == Cardinality(inUse) >= ConnectionLimit

(* selectInUseHttp2ContextUnsafe: the context the target link hashes to,   *)
(* which the model leaves open, or any other that has streams left.        *)
Selectable == {c \in inUse : hasRemainingStreamIds(c)}

openContext(r, c) ==
    /\ channel' = [channel EXCEPT ![c] = "openInProgress"]
    /\ used' = [used EXCEPT ![c] = 0]
    /\ streams' = [streams EXCEPT ![c] = {}]
    /\ inUse' = inUse \cup {c}
    /\ held' = [held EXCEPT ![r] = c]
    /\ pc' = [pc EXCEPT ![r] = "holding"]

createContext(r, c) ==
    /\ pc[r] = "selecting" /\ c \in Unreferenced
    /\ ~AtConnectionLimit \/ Selectable = {}
    /\ openContext(r, c)
    /\ UNCHANGED <<pendingRequests, socketContext, expired, threads, lost>>

replaceBad(r, c, d) ==
    /\ pc[r] = "selecting" /\ AtConnectionLimit /\ c \in Selectable /\ channel[c] = "closed"
    /\ d \in Unreferenced
    /\ openContext(r, d)
    /\ threads' = threads \cup {thread(r, c, TRUE, "failure")}
    /\ UNCHANGED <<pendingRequests, socketContext, expired, lost>>

selectOpen(r, c) ==
    /\ pc[r] = "selecting" /\ AtConnectionLimit /\ c \in Selectable /\ channel[c] = "open"
    /\ held' = [held EXCEPT ![r] = c]
    /\ pc' = [pc EXCEPT ![r] = "holding"]
    /\ UNCHANGED <<group, contexts, socketContext, expired, threads, lost>>

queuePendingRequest(r, c) ==
    /\ pc[r] = "selecting" /\ AtConnectionLimit /\ c \in Selectable
    /\ channel[c] = "openInProgress"
    /\ IF canOffer(pendingRequests)
       THEN /\ pendingRequests' = offer(pendingRequests, r)
            /\ pc' = [pc EXCEPT ![r] = "queued"]
       ELSE pc' = [pc EXCEPT ![r] = "failed"] /\ UNCHANGED pendingRequests
    /\ UNCHANGED <<inUse, contexts, held, socketContext, expired, threads, lost>>

-----------------------------------------------------------------------------
(* The requests R are completed by the pool and written to c; one that     *)
(* expired while it waited has nobody to complete, and what is written to  *)
(* a closed channel is lost.  When all of them had expired, nobody returns *)
(* c for them, and whoever waits then has lost a wake-up.                  *)
SendOn(c, R, state) ==
    LET written == IF state = "open" THEN R \ expired ELSE {}
    IN  /\ pc' = [r \in Requests |-> IF r \notin R THEN pc[r]
                                     ELSE IF r \in expired THEN "failed" ELSE "sent"]
        /\ socketContext' = [r \in Requests |-> IF r \in R \ expired THEN c ELSE socketContext[r]]
        /\ streams' = [streams EXCEPT ![c] = @ \cup written]
        /\ used' = [used EXCEPT ![c] = @ + Cardinality(written)]
        /\ lost' = IF R \subseteq expired THEN lost \cup (toCollection(pendingRequests) \ R)
                   ELSE lost

sendOnOpen(r) ==
    /\ held[r] # NoContext /\ channel[held[r]] # "openInProgress"
    /\ SendOn(held[r], {r}, channel[held[r]])
    /\ held' = [held EXCEPT ![r] = NoContext]
    /\ UNCHANGED <<group, channel, expired, threads>>

TransferPending == toCollection(pendingRequests)

(* waitForSettings, when the settings arrived: the context opens, and      *)
(* everything that waited goes out on it.                                  *)
settingsSuccess(r) ==
    LET c == held[r]
    IN  /\ c # NoContext /\ channel[c] = "openInProgress"
        /\ channel' = [channel EXCEPT ![c] = "open"]
        /\ pendingRequests' = IF TransferPending = {} THEN pendingRequests
                              ELSE transferAll(pendingRequests)
        /\ SendOn(c, {r} \cup TransferPending, "open")
        /\ held' = [held EXCEPT ![r] = NoContext]
        /\ UNCHANGED <<inUse, expired, threads>>

(* Mutant of openFailure: the context that could not be opened is not      *)
(* returned.                                                               *)
openFailureKeepsContext(r) ==
    LET c == held[r]
    IN  /\ c # NoContext /\ channel[c] = "openInProgress"
        /\ pc' = [pc EXCEPT ![r] = "failed"]
        /\ held' = [held EXCEPT ![r] = NoContext]
        /\ UNCHANGED <<group, contexts, socketContext, expired, threads, lost>>

(* The connect or the settings negotiation failed.                         *)
openFailure(r) ==
    LET c == held[r]
    IN  /\ c # NoContext /\ channel[c] = "openInProgress"
        /\ threads' = threads \cup {thread(r, c, TRUE, "failure")}
        /\ pc' = [pc EXCEPT ![r] = "failed"]
        /\ held' = [held EXCEPT ![r] = NoContext]
        /\ UNCHANGED <<group, contexts, socketContext, expired, lost>>

-----------------------------------------------------------------------------
(* Mutant of Finish: the operation forgets its context before it is        *)
(* returned.                                                               *)
ForgetContext(r, result, callers) ==
    /\ pc' = [pc EXCEPT ![r] = result]
    /\ socketContext' = [socketContext EXCEPT ![r] = NoContext]
    /\ threads' = threads \cup {thread(r, NoContext, FALSE, by) : by \in callers}
    /\ UNCHANGED <<group, contexts, held, expired, lost>>

(* Completing a request removes its stream and returns its context.        *)
Finish(r, result, callers) ==
    LET c == socketContext[r]
    IN  /\ pc' = [pc EXCEPT ![r] = result]
        /\ streams' = [streams EXCEPT ![c] = @ \ {r}]
        /\ socketContext' = [socketContext EXCEPT ![r] = NoContext]
        /\ threads' = threads \cup {thread(r, c, FALSE, by) : by \in callers}
        /\ UNCHANGED <<group, channel, used, held, expired, lost>>

(* A response on the request's stream.  After an error response both the   *)
(* client and the response handler return the context.                     *)
channelRead(r) ==
    /\ pc[r] = "sent" /\ r \in streams[socketContext[r]] /\ channel[socketContext[r]] = "open"
    /\ \/ Finish(r, "ok", {"response"})
       \/ Finish(r, "failed", {"response", "failure"})

(* failExpiredRequests: a request that was sent, or, by force, one that is *)
(* still on its way.                                                       *)
failExpiredRequests(r) == pc[r] = "sent" /\ Finish(r, "failed", {"failure"})

forceExpiration(r) ==
    /\ pc[r] \in {"selecting", "queued", "polled", "holding"} /\ r \notin expired
    /\ expired' = expired \cup {r}
    /\ UNCHANGED <<group, contexts, pc, held, socketContext, threads, lost>>

-----------------------------------------------------------------------------
(* returnOrCloseDirect looks at the context before it takes the lock ...   *)

IsClose(t) ==
    t.close \/ channel[t.ctx] = "closed" \/ ~hasRemainingStreamIds(t.ctx)

checkContext(t) ==
    /\ t \in threads /\ t.step = "check"
    /\ threads' = (threads \ {t}) \cup {[t EXCEPT !.step = "lock", !.close = IsClose(t)]}
    /\ UNCHANGED <<group, contexts, client, lost>>

(* Mutant of NextPending: what was taken out of the queue is dropped.      *)
DropPending == {}

NextPending == IF isEmpty(pendingRequests) THEN {} ELSE {polled(pendingRequests)}

(* ... polls the queue and takes the context out of the group under it ... *)
takePending(t) ==
    LET step == IF t.close THEN "close" ELSE "send"
    IN  /\ t \in threads /\ t.step = "lock"
        /\ pendingRequests' = poll(pendingRequests)
        /\ inUse' = IF t.close THEN inUse \ {t.ctx} ELSE inUse
        /\ pc' = [r \in Requests |-> IF r \in NextPending THEN "polled" ELSE pc[r]]
        /\ threads' = (threads \ {t}) \cup
                (IF t.close \/ NextPending # {}
                 THEN {[t EXCEPT !.step = step, !.next = NextPending]} ELSE {})
        /\ UNCHANGED <<contexts, held, socketContext, expired, lost>>

(* ... and sends the request it polled once it has released it, or closes  *)
(* the context, which fails every request on it.                           *)
sendPending(t) ==
    /\ t \in threads /\ t.step = "send"
    /\ SendOn(t.ctx, t.next, channel[t.ctx])
    /\ threads' = threads \ {t}
    /\ UNCHANGED <<group, channel, held, expired>>

closeAndReconnect(t) ==
    LET c == t.ctx
    IN  /\ t \in threads /\ t.step = "close"
        /\ channel' = [channel EXCEPT ![c] = "closed"]
        /\ streams' = [streams EXCEPT ![c] = {}]
        /\ pc' = [r \in Requests |-> IF r \in t.next THEN "selecting"
                                     ELSE IF r \in streams[c] THEN "failed" ELSE pc[r]]
        /\ socketContext' = [r \in Requests |-> IF r \in streams[c] THEN NoContext
                                                ELSE socketContext[r]]
        /\ threads' = (threads \ {t}) \cup
                        {thread(r, c, FALSE, "failure") : r \in streams[c]}
        /\ UNCHANGED <<group, used, held, expired, lost>>

-----------------------------------------------------------------------------
(* The remote host closes a connection; the requests on it are left alone. *)
channelInactive(c) ==
    /\ channel[c] = "open"
    /\ channel' = [channel EXCEPT ![c] = "closed"]
    /\ UNCHANGED <<group, used, streams, client, threads, lost>>

(* Mutant of hasActiveStreams: requests on a context are not seen.         *)
NeverActive(c) == FALSE

hasActiveStreams(c) == streams[c] # {}

(* Maintenance: a context that has no active streams and is idle or        *)
(* exhausted is closed ...                                                 *)
closeInvalidHttp2ChannelContext(c) ==
    /\ c \in inUse /\ channel[c] # "openInProgress" /\ ~hasActiveStreams(c)
    /\ inUse' = inUse \ {c}
    /\ channel' = [channel EXCEPT ![c] = "closed"]
    /\ UNCHANGED <<pendingRequests, used, streams, client, threads, lost>>

(* ... and requests that failed while they waited leave the queue; the log *)
(* message calls size().                                                   *)
checkPendingOperations ==
    /\ toCollection(pendingRequests) \cap expired # {}
    /\ pendingRequests' = size(removeAll(pendingRequests, expired))
    /\ pc' = [r \in Requests |-> IF r \in toCollection(pendingRequests) \cap expired
                                 THEN "failed" ELSE pc[r]]
    /\ UNCHANGED <<inUse, contexts, held, socketContext, expired, threads, lost>>

(* Statistics are read: size() sets elementCount.                          *)
getConnectionTagInfo ==
    /\ pendingRequests' = size(pendingRequests)
    /\ UNCHANGED <<inUse, contexts, client, threads, lost>>

Select(r) == \E c, d \in Contexts :
    createContext(r, c) \/ replaceBad(r, c, d) \/ selectOpen(r, c) \/ queuePendingRequest(r, c)

Connect(r) == sendOnOpen(r) \/ settingsSuccess(r) \/ openFailure(r)

Continue(t) == checkContext(t) \/ takePending(t) \/ sendPending(t) \/ closeAndReconnect(t)

Quiescent == (\A r \in Requests : pc[r] \in Completed) /\ threads = {} /\ UNCHANGED vars

Next ==
    \/ \E r \in Requests : sendRemote(r) \/ Select(r) \/ Connect(r) \/ channelRead(r)
                           \/ failExpiredRequests(r) \/ forceExpiration(r)
    \/ \E c \in Contexts : channelInactive(c) \/ closeInvalidHttp2ChannelContext(c)
    \/ checkPendingOperations \/ getConnectionTagInfo
    \/ \E t \in threads : Continue(t)
    \/ Quiescent

Fairness ==
    \A r \in Requests :
        /\ WF_vars(Select(r)) /\ WF_vars(Connect(r)) /\ WF_vars(failExpiredRequests(r))
        /\ WF_vars(\E t \in threads : t.req = r /\ Continue(t))

Spec == Init /\ [][Next]_vars /\ Fairness

-----------------------------------------------------------------------------
(* Every variable has its type.                                            *)
TypeOK ==
    /\ inUse \subseteq Contexts
    /\ pendingRequests \in Queue(Requests)
    /\ channel \in [Contexts -> {"openInProgress", "open", "closed"}]
    /\ used \in [Contexts -> Nat]
    /\ streams \in [Contexts -> SUBSET Requests]
    /\ pc \in [Requests -> Places]
    /\ held \in [Requests -> Contexts \cup {NoContext}]
    /\ socketContext \in [Requests -> Contexts \cup {NoContext}]
    /\ expired \subseteq Requests
    /\ threads \subseteq Thread
    /\ lost \subseteq Requests

(* A request waits only while something is under way that takes it out of  *)
(* the queue: a return that has yet to poll it, or has polled a request    *)
(* ahead of it, or a request that is selecting or opening a connection or  *)
(* is on one, and so returns it when it completes (waitForSettings,        *)
(* returnOrCloseDirect).  Only the requests that waited when a wake-up     *)
(* went to expired requests are left out.                                  *)
NoStrandedRequest ==
    toCollection(pendingRequests) \ (expired \cup lost) # {} =>
        \/ \E t \in threads : t.step \in {"check", "lock"} \/ t.next # {}
        \/ \E r \in Requests : pc[r] \in {"selecting", "holding", "sent"}

(* No stream is forgotten: a connection with requests on it is in the      *)
(* group, or the thread that took it out is about to close it and fail     *)
(* them (returnOrCloseDirect, closeInvalidHttp2ChannelContexts).           *)
ActiveContextsAttended ==
    \A c \in Contexts : streams[c] # {} =>
        c \in inUse \/ \E t \in threads : t.ctx = c /\ t.step = "close"

(* Every request that was sent is completed or failed, the ones that       *)
(* waited for a connection too, unless it lost its wake-up.                *)
EveryRequestCompleted ==
    \A r \in Requests : pc[r] = "selecting" ~> (pc[r] \in Completed \/ r \in lost)
=============================================================================
