----------------------- MODULE NettyChannelPoolProofs -----------------------
(***************************************************************************)
(* What the HTTP/1.1 connection pool guarantees for any number of          *)
(* requests, any limit of connections and any length of its queue: the     *)
(* limit, no lost wake-up, no leaked connection and, until a response is   *)
(* handled while its request is being expired, no response that completes  *)
(* the wrong request.                                                      *)
(*                                                                         *)
(* PoolInv is the inductive invariant of the first three.  It relates the  *)
(* place of a request to the contexts that refer to it: a context in use   *)
(* passes from the request that selected it to the operation that was sent *)
(* on it and from there to the thread that returns it.  UnracedInv adds,   *)
(* as long as there was no such race, that no two of these have the same   *)
(* context, except a request and its expiry, and what may still come on    *)
(* the channel.                                                            *)
(***************************************************************************)
EXTENDS NettyChannelPool, FiniteSetTheorems, SequenceTheorems, TLAPS

Sent == {"sent", "ok", "failed"}
Selecting == {r \in Requests : pc[r] = "selecting"}
store == pendingRequests.store

(* The queue holds each pending request once, and no other.                *)
QueueInv ==
    /\ pendingRequests.limit > 0
    /\ \A i \in 1 .. Len(store) : pc[store[i]] = "queued"
    /\ \A i, j \in 1 .. Len(store) : store[i] = store[j] => i = j

(* A request has a context from its selection until it is sent, and a      *)
(* socket context from there on.                                           *)
RequestInv ==
    \A r \in Requests :
        /\ pc[r] = "holding" <=> held[r] # NoContext
        /\ pc[r] \notin Sent => socketContext[r] = NoContext /\ ~expired[r]
        /\ pc[r] = "sent" => socketContext[r] # NoContext

(* The operation of a channel was sent on it.                              *)
ChannelInv ==
    \A c \in Contexts : operation[c] # NoRequest =>
        /\ pc[operation[c]] \in Sent
        /\ pc[operation[c]] = "sent" => socketContext[operation[c]] = c

(* A response or an expiry under way is that of a request that was sent.   *)
ThreadInv ==
    \A t \in threads :
        /\ t.step = "respond" => pc[t.req] \in Completed /\ t.ctx = NoContext
        /\ t.step = "expire" => expired[t.req] /\ socketContext[t.req] \in {t.ctx, NoContext}

FiniteInv == IsFiniteSet(inUse) /\ IsFiniteSet(available) /\ IsFiniteSet(Selecting)

PoolInv ==
    /\ TypeOK /\ QueueInv /\ RequestInv /\ ChannelInv /\ ThreadInv
    /\ FiniteInv /\ ConnectionLimitHeld /\ NoStrandedRequest /\ InUseIsReturned

-----------------------------------------------------------------------------
(* A channel that has no operation and that no response will come on.      *)
Quiet(c) == operation[c] = NoRequest /\ wire[c] = <<>>

(* A channel on which at most the response to r may come.                  *)
Awaits(c, r) == operation[c] = r /\ wire[c] \in {<<>>, <<r>>}

(* At most one request or thread has a context, or a request and the       *)
(* thread that expires it, and none has one that is available.             *)
SoleAt(c) ==
    /\ \A r, s \in Requests :
        /\ held[r] = c /\ held[s] = c => r = s
        /\ socketContext[r] = c /\ socketContext[s] = c => r = s
        /\ ~(held[r] = c /\ socketContext[s] = c)
    /\ c \in available => /\ \A r \in Requests : held[r] # c /\ socketContext[r] # c
                         /\ \A t \in threads : t.ctx # c
    /\ \A t \in threads : t.ctx = c =>
        /\ \A r \in Requests : /\ held[r] # c
                               /\ socketContext[r] = c => t.step = "expire" /\ t.req = r
        /\ \A u \in threads : u.ctx = c => u = t

(* What may still come on the channel of a context.                        *)
WireAt(c) ==
    /\ c \in available => Quiet(c)
    /\ \A r \in Requests : held[r] = c => Quiet(c)
    /\ \A r \in Requests : socketContext[r] = c =>
        Quiet(c) \/ (pc[r] = "sent" /\ Awaits(c, r))
    /\ \A t \in threads : t.ctx = c /\ ~t.close =>
        Quiet(c) \/ (t.step # "return" /\ Awaits(c, t.req))

UnracedInv ==
    /\ \A c \in Contexts : SoleAt(c) /\ WireAt(c)
    /\ OwnResponse

(* A response under way has completed its request, or finds no context; an *)
(* operation left on a channel that was completed has none.                *)
AnsweredInv ==
    /\ \A t \in threads : t.step = "respond" =>
        answer[t.req] # NoRequest \/ socketContext[t.req] = NoContext
    /\ \A c \in Contexts : operation[c] # NoRequest =>
        pc[operation[c]] = "sent" \/ socketContext[operation[c]] = NoContext

-----------------------------------------------------------------------------
(* Sequences and the queue.                                                *)
LEMMA UnansweredFacts ==
  ASSUME NEW s \in Seq(Requests), NEW r \in Requests
  PROVE  /\ Unanswered(s, r) \in Seq(Requests)
         /\ s \in {<<>>, <<r>>} => Unanswered(s, r) = <<>>
  <1>1. CASE \E i \in 1 .. Len(s) : s[i] = r
    <2>1. PICK k \in 1 .. Len(s) : /\ s[k] = r
                                   /\ Unanswered(s, r) = SubSeq(s, 1, k - 1) \o SubSeq(s, k + 1, Len(s))
      <3>1. PICK k : k = CHOOSE i \in 1 .. Len(s) : s[i] = r
        OBVIOUS
      <3>2. k \in 1 .. Len(s) /\ s[k] = r
        BY <1>1, <3>1, Zenon
      <3>3. Unanswered(s, r) = SubSeq(s, 1, k - 1) \o SubSeq(s, k + 1, Len(s))
        BY <1>1, <3>1 DEF Unanswered
      <3>4. QED
        BY <3>2, <3>3
    <2>2. Len(s) \in Nat /\ k \in Nat /\ k >= 1 /\ k =< Len(s)
      BY <2>1, LenProperties
    <2>3. SubSeq(s, 1, k - 1) \in Seq(Requests) /\ Len(SubSeq(s, 1, k - 1)) = k - 1
      BY <2>2, SubSeqProperties
    <2>4. /\ SubSeq(s, k + 1, Len(s)) \in Seq(Requests)
          /\ Len(SubSeq(s, k + 1, Len(s))) = Len(s) - k
      BY <2>2, SubSeqProperties
    <2>5. /\ Unanswered(s, r) \in Seq(Requests)
          /\ Len(Unanswered(s, r)) = (k - 1) + (Len(s) - k)
      <3>1. PICK a, b : a = SubSeq(s, 1, k - 1) /\ b = SubSeq(s, k + 1, Len(s))
        OBVIOUS
      <3>2. a \in Seq(Requests) /\ b \in Seq(Requests) /\ Unanswered(s, r) = a \o b
        BY <3>1, <2>1, <2>3, <2>4
      <3>3. a \o b \in Seq(Requests) /\ Len(a \o b) = Len(a) + Len(b)
        BY <3>2, ConcatProperties
      <3>4. QED
        BY <3>1, <3>2, <3>3, <2>3, <2>4
    <2>6. ASSUME s \in {<<>>, <<r>>}
          PROVE  Unanswered(s, r) = <<>>
      <3>1. Len(s) =< 1
        <4>1. CASE s = <<>>
          BY <4>1
        <4>2. CASE s = <<r>>
          BY <4>2
        <4>3. QED
          BY <2>6, <4>1, <4>2
      <3>2. Len(Unanswered(s, r)) = 0
        BY <3>1, <2>2, <2>5
      <3>3. QED
        BY <3>2, <2>5, EmptySeq
    <2>7. QED
      BY <2>5, <2>6
  <1>2. CASE ~ \E i \in 1 .. Len(s) : s[i] = r
    <2>1. Unanswered(s, r) = s
      BY <1>2 DEF Unanswered
    <2>2. s # <<r>>
      BY <1>2
    <2>3. QED
      BY <2>1, <2>2
  <1>3. QED
    BY <1>1, <1>2

LEMMA QueueFields ==
  ASSUME NEW q \in Queue(Requests)
  PROVE  /\ q.limit \in Int /\ q.elementCount \in Int /\ q.store \in Seq(Requests)
         /\ Len(q.store) \in Nat
  BY LenProperties DEF Queue

(* offer appends to a queue whose limit is positive.                       *)
LEMMA OfferFacts ==
  ASSUME NEW q \in Queue(Requests), NEW r \in Requests, q.limit > 0
  PROVE  /\ offer(q, r) \in Queue(Requests) /\ offer(q, r).limit = q.limit
         /\ Len(offer(q, r).store) = Len(q.store) + 1
         /\ \A i \in 1 .. Len(q.store) : offer(q, r).store[i] = q.store[i]
         /\ offer(q, r).store[Len(q.store) + 1] = r
  <1>1. PICK st, n : st = Append(q.store, r) /\ n = q.elementCount + 1
    OBVIOUS
  <1>2. ~(q.limit < 0) /\ n \in Int
    BY <1>1, QueueFields
  <1>3. offer(q, r) = [q EXCEPT !.store = st, !.elementCount = n]
    BY <1>1, <1>2 DEF offer
  <1>4. /\ st \in Seq(Requests) /\ Len(st) = Len(q.store) + 1
        /\ \A i \in 1 .. Len(q.store) : st[i] = q.store[i]
        /\ st[Len(q.store) + 1] = r
    BY <1>1, QueueFields, AppendProperties
  <1>5. /\ offer(q, r) \in Queue(Requests) /\ offer(q, r).limit = q.limit
        /\ offer(q, r).store = st
    BY <1>2, <1>3, <1>4 DEF Queue
  <1>6. QED
    BY <1>4, <1>5

(* poll takes the first element off a queue that has one.                  *)
LEMMA PollFacts ==
  ASSUME NEW q \in Queue(Requests)
  PROVE  /\ poll(q) \in Queue(Requests) /\ poll(q).limit = q.limit
         /\ isEmpty(q) => poll(q) = q
         /\ ~isEmpty(q) => /\ polled(q) \in Requests /\ polled(q) = q.store[1]
                           /\ Len(q.store) >= 1
                           /\ Len(poll(q).store) = Len(q.store) - 1
                           /\ \A i \in 1 .. Len(poll(q).store) : poll(q).store[i] = q.store[i + 1]
  <1>1. CASE isEmpty(q)
    BY <1>1 DEF poll
  <1>2. CASE ~isEmpty(q)
    <2>1. q.store # <<>> /\ q.store \in Seq(Requests)
      BY <1>2, QueueFields DEF isEmpty
    <2>2. PICK st, n : st = Tail(q.store) /\ n = q.elementCount - 1
      OBVIOUS
    <2>2a. poll(q) = [q EXCEPT !.store = st, !.elementCount = n] /\ n \in Int
      BY <1>2, <2>2, QueueFields DEF poll
    <2>3. /\ Head(q.store) \in Requests /\ Head(q.store) = q.store[1]
          /\ Tail(q.store) \in Seq(Requests) /\ Len(Tail(q.store)) = Len(q.store) - 1
          /\ \A i \in 1 .. Len(Tail(q.store)) : Tail(q.store)[i] = q.store[i + 1]
      BY <2>1
    <2>4. Len(q.store) >= 1
      BY <2>1
    <2>5. /\ poll(q) \in Queue(Requests) /\ poll(q).limit = q.limit
          /\ poll(q).store = Tail(q.store)
      BY <2>2, <2>2a, <2>3 DEF Queue
    <2>6. QED
      BY <1>2, <2>3, <2>4, <2>5 DEF polled
  <1>3. QED
    BY <1>1, <1>2

LEMMA ThreadFields ==
  ASSUME NEW t \in Thread
  PROVE  /\ t.step \in {"respond", "expire", "check", "return"} /\ t.req \in Requests
         /\ t.ctx \in Contexts \cup {NoContext} /\ t.close \in BOOLEAN
         /\ t.by \in {"response", "failure", "replacement"}
  BY DEF Thread

LEMMA Counting ==
  ASSUME NEW S, IsFiniteSet(S), NEW x
  PROVE  /\ IsFiniteSet(S \cup {x}) /\ IsFiniteSet(S \ {x}) /\ Cardinality(S) \in Nat
         /\ Cardinality(S \cup {x}) = IF x \in S THEN Cardinality(S) ELSE Cardinality(S) + 1
         /\ Cardinality(S \ {x}) = IF x \in S THEN Cardinality(S) - 1 ELSE Cardinality(S)
  BY FS_AddElement, FS_RemoveElement, FS_CardinalityType

-----------------------------------------------------------------------------
(* What the invariant says of the queue, and of the requests that select a *)
(* context, when a request moves.                                          *)
LEMMA PendingIsQueued ==
  ASSUME PoolInv, ~isEmpty(pendingRequests)
  PROVE  /\ polled(pendingRequests) \in Requests /\ pc[polled(pendingRequests)] = "queued"
         /\ polled(pendingRequests) # NoRequest
  <1>1. pendingRequests \in Queue(Requests)
    BY DEF PoolInv, TypeOK
  <1>2. /\ polled(pendingRequests) = store[1] /\ Len(store) >= 1
        /\ polled(pendingRequests) \in Requests /\ Len(store) \in Nat
    BY <1>1, PollFacts, QueueFields DEF store
  <1>3. QED
    BY <1>2, PoolAssumption DEF PoolInv, QueueInv

LEMMA QueueKept ==
  ASSUME PoolInv, pendingRequests' = pendingRequests,
         \A r \in Requests : pc[r] = "queued" => pc'[r] = "queued"
  PROVE  QueueInv'
  <1>1. store' = store /\ store \in Seq(Requests)
    BY QueueFields DEF store, PoolInv, TypeOK
  <1>2. \A i \in 1 .. Len(store) : store[i] \in Requests
    BY <1>1
  <1>3. QED
    BY <1>1, <1>2 DEF PoolInv, QueueInv

LEMMA QueuePolled ==
  ASSUME PoolInv, pendingRequests' = poll(pendingRequests), ~isEmpty(pendingRequests),
         \A r \in Requests \ {polled(pendingRequests)} : pc[r] = "queued" => pc'[r] = "queued"
  PROVE  pendingRequests' \in Queue(Requests) /\ QueueInv'
  <1>1. pendingRequests \in Queue(Requests)
    BY DEF PoolInv, TypeOK
  <1>2. PICK q : q = pendingRequests
    OBVIOUS
  <1>3. /\ store = q.store /\ store' = poll(q).store /\ q \in Queue(Requests)
        /\ pendingRequests' \in Queue(Requests) /\ pendingRequests'.limit = q.limit
        /\ Len(poll(q).store) = Len(q.store) - 1 /\ Len(q.store) >= 1 /\ Len(q.store) \in Nat
        /\ polled(q) = q.store[1] /\ q.store \in Seq(Requests)
        /\ \A i \in 1 .. Len(poll(q).store) : poll(q).store[i] = q.store[i + 1]
    BY <1>1, <1>2, PollFacts, QueueFields DEF store
  <1>4. PICK s, u : s = store /\ u = store'
    OBVIOUS
  <1>5. /\ s \in Seq(Requests) /\ Len(s) \in Nat /\ Len(u) = Len(s) - 1
        /\ \A i \in 1 .. Len(u) : u[i] = s[i + 1]
        /\ \A i \in 1 .. Len(s) : s[i] \in Requests /\ pc[s[i]] = "queued"
        /\ \A i, j \in 1 .. Len(s) : s[i] = s[j] => i = j
        /\ Len(s) >= 1 /\ polled(pendingRequests) = s[1]
    <2>1. /\ s \in Seq(Requests) /\ Len(s) \in Nat /\ Len(u) = Len(s) - 1
          /\ \A i \in 1 .. Len(u) : u[i] = s[i + 1]
          /\ Len(s) >= 1 /\ polled(pendingRequests) = s[1]
      BY <1>2, <1>3, <1>4
    <2>2. /\ \A i \in 1 .. Len(s) : pc[s[i]] = "queued"
          /\ \A i, j \in 1 .. Len(s) : s[i] = s[j] => i = j
      BY <1>4 DEF PoolInv, QueueInv
    <2>3. \A i \in 1 .. Len(s) : s[i] \in Requests
      BY <2>1
    <2>4. QED
      BY <2>1, <2>2, <2>3
  <1>6. \A i \in 1 .. Len(u) : u[i] \in Requests /\ u[i] # s[1] /\ pc[u[i]] = "queued"
    BY <1>5
  <1>7. \A i \in 1 .. Len(u) : pc'[u[i]] = "queued"
    BY <1>5, <1>6
  <1>8. \A i, j \in 1 .. Len(u) : u[i] = u[j] => i = j
    BY <1>5
  <1>9. pendingRequests'.limit > 0
    BY <1>2, <1>3 DEF PoolInv, QueueInv
  <1>10. QED
    BY <1>3, <1>4, <1>7, <1>8, <1>9 DEF QueueInv

LEMMA QueueOffered ==
  ASSUME PoolInv, NEW r \in Requests, pc[r] # "queued",
         pendingRequests' = offer(pendingRequests, r), pc' = [pc EXCEPT ![r] = "queued"]
  PROVE  pendingRequests' \in Queue(Requests) /\ QueueInv' /\ ~isEmpty(pendingRequests)'
  <1>1. pendingRequests \in Queue(Requests) /\ pendingRequests.limit > 0
    BY DEF PoolInv, TypeOK, QueueInv
  <1>2. PICK q : q = pendingRequests
    OBVIOUS
  <1>3. /\ pendingRequests' \in Queue(Requests) /\ pendingRequests'.limit = q.limit
        /\ store = q.store /\ store' = offer(q, r).store
        /\ Len(offer(q, r).store) = Len(q.store) + 1
        /\ \A i \in 1 .. Len(q.store) : offer(q, r).store[i] = q.store[i]
        /\ offer(q, r).store[Len(q.store) + 1] = r
        /\ q.store \in Seq(Requests) /\ Len(q.store) \in Nat
    BY <1>1, <1>2, OfferFacts, QueueFields DEF store
  <1>4. PICK s, u : s = store /\ u = store'
    OBVIOUS
  <1>5. /\ s \in Seq(Requests) /\ Len(s) \in Nat /\ Len(u) = Len(s) + 1 /\ u[Len(s) + 1] = r
        /\ \A i \in 1 .. Len(s) : u[i] = s[i]
        /\ \A i \in 1 .. Len(s) : s[i] \in Requests /\ pc[s[i]] = "queued"
        /\ \A i, j \in 1 .. Len(s) : s[i] = s[j] => i = j
    BY <1>3, <1>4 DEF PoolInv, QueueInv
  <1>6. \A i \in 1 .. Len(s) : u[i] # r /\ pc'[u[i]] = "queued"
    BY <1>5 DEF PoolInv, TypeOK
  <1>7. pc'[r] = "queued"
    BY DEF PoolInv, TypeOK
  <1>8. \A i \in 1 .. Len(u) : i \in 1 .. Len(s) \/ i = Len(s) + 1
    BY <1>5
  <1>9. \A i \in 1 .. Len(u) : pc'[u[i]] = "queued"
    BY <1>5, <1>6, <1>7, <1>8
  <1>10. \A i, j \in 1 .. Len(u) : u[i] = u[j] => i = j
    BY <1>5, <1>6, <1>8
  <1>11. ~isEmpty(pendingRequests)'
    BY <1>3, <1>4, <1>5 DEF isEmpty, store
  <1>12. QED
    BY <1>1, <1>2, <1>3, <1>4, <1>9, <1>10, <1>11 DEF QueueInv

(* Steps that leave the group alone and neither select nor queue.          *)
LEMMA GroupKept ==
  ASSUME PoolInv, inUse' = inUse, available' = available, pendingRequests' = pendingRequests,
         \A r \in Requests : /\ pc'[r] = "selecting" <=> pc[r] = "selecting"
                             /\ pc[r] = "queued" => pc'[r] = "queued"
  PROVE  QueueInv' /\ FiniteInv' /\ ConnectionLimitHeld' /\ NoStrandedRequest'
  <1>1. Selecting' = Selecting
    BY DEF Selecting
  <1>2. QueueInv'
    BY QueueKept
  <1>3. FiniteInv' /\ ConnectionLimitHeld'
    BY <1>1 DEF PoolInv, FiniteInv, ConnectionLimitHeld
  <1>4. NoStrandedRequest'
    BY <1>1 DEF PoolInv, NoStrandedRequest, Selecting
  <1>5. QED
    BY <1>2, <1>3, <1>4

LEMMA SelectingUpdate ==
  ASSUME PoolInv, NEW r \in Requests
  PROVE  /\ pc' = [pc EXCEPT ![r] = "selecting"] => Selecting' = Selecting \cup {r}
         /\ pc' = [pc EXCEPT ![r] = "holding"] => Selecting' = Selecting \ {r}
         /\ pc' = [pc EXCEPT ![r] = "queued"] => Selecting' = Selecting \ {r}
         /\ pc' = [pc EXCEPT ![r] = "failed"] => Selecting' = Selecting \ {r}
  <1>1. Selecting' = {x \in Requests : pc'[x] = "selecting"} /\ pc \in [Requests -> Places]
    BY DEF Selecting, PoolInv, TypeOK
  <1>2. ASSUME pc' = [pc EXCEPT ![r] = "selecting"]
        PROVE  Selecting' = Selecting \cup {r}
    BY <1>1, <1>2 DEF Selecting
  <1>3. ASSUME NEW v, pc' = [pc EXCEPT ![r] = v], v # "selecting"
        PROVE  Selecting' = Selecting \ {r}
    BY <1>1, <1>3 DEF Selecting
  <1>4. QED
    BY <1>2, <1>3

-----------------------------------------------------------------------------
(* Init.                                                                   *)
LEMMA PoolInit == Init => PoolInv
  <1> SUFFICES ASSUME Init
               PROVE  PoolInv
    OBVIOUS
  <1>1. /\ pendingRequests = [limit |-> QueueLimit, elementCount |-> 0, store |-> <<>>]
        /\ pendingRequests.store = <<>> /\ pendingRequests.limit = QueueLimit
    BY DEF Init, createFifo
  <1>2. pendingRequests \in Queue(Requests)
    <2>1. <<>> \in Seq(Requests) /\ QueueLimit \in Int /\ 0 \in Int
      BY PoolAssumption
    <2>2. QED
      BY <2>1, <1>1 DEF Queue
  <1>3. TypeOK
    <2>1. wire \in [Contexts -> Seq(Requests)]
      BY DEF Init
    <2>2. QED
      BY <1>2, <2>1 DEF Init, TypeOK, Places
  <1>4. QueueInv
    BY <1>1, PoolAssumption DEF QueueInv, store
  <1>5. RequestInv /\ ChannelInv /\ ThreadInv /\ InUseIsReturned
    BY DEF Init, RequestInv, ChannelInv, ThreadInv, InUseIsReturned, Sent
  <1>6. Selecting = {}
    BY DEF Init, Selecting
  <1>7. FiniteInv /\ ConnectionLimitHeld
    BY <1>6, FS_EmptySet, PoolAssumption DEF Init, FiniteInv, ConnectionLimitHeld
  <1>8. NoStrandedRequest
    BY <1>1 DEF NoStrandedRequest, isEmpty
  <1>9. QED
    BY <1>3, <1>4, <1>5, <1>7, <1>8 DEF PoolInv

(* sendRemote.                                                             *)
LEMMA SendRemoteStep ==
  ASSUME PoolInv, NEW r \in Requests, sendRemote(r)
  PROVE  PoolInv'
  <1>1. /\ pc[r] = "new" /\ pc' = [pc EXCEPT ![r] = "selecting"]
        /\ available' = available /\ inUse' = inUse /\ pendingRequests' = pendingRequests
        /\ channel' = channel /\ operation' = operation /\ wire' = wire /\ held' = held
        /\ socketContext' = socketContext /\ expired' = expired /\ answer' = answer
        /\ threads' = threads
    BY DEF sendRemote, group, channels
  <1>2. TypeOK'
    BY <1>1 DEF PoolInv, TypeOK, Places
  <1>3. RequestInv' /\ ChannelInv' /\ ThreadInv' /\ InUseIsReturned'
    BY <1>1 DEF PoolInv, TypeOK, RequestInv, ChannelInv, ThreadInv, InUseIsReturned, Sent,
       Completed, Places, Thread
  <1>4. QueueInv'
    BY <1>1, QueueKept DEF PoolInv, TypeOK
  <1>5. Selecting' = Selecting \cup {r}
    BY <1>1, SelectingUpdate
  <1>6. FiniteInv'
    BY <1>1, <1>5, Counting DEF PoolInv, FiniteInv
  <1>7. ConnectionLimitHeld'
    BY <1>1 DEF PoolInv, ConnectionLimitHeld
  <1>8. NoStrandedRequest'
    <2>1. /\ Cardinality(Selecting') >= Cardinality(Selecting)
          /\ Cardinality(Selecting) \in Nat /\ Cardinality(Selecting') \in Nat
          /\ Cardinality(inUse) \in Nat
      <3>1. IsFiniteSet(Selecting) /\ IsFiniteSet(inUse)
        BY DEF PoolInv, FiniteInv
      <3>2. /\ Cardinality(Selecting) \in Nat /\ Cardinality(inUse) \in Nat
            /\ Cardinality(Selecting \cup {r}) \in {Cardinality(Selecting), Cardinality(Selecting) + 1}
        BY <3>1, Counting
      <3>3. QED
        BY <3>2, <1>5
    <2>2. ~isEmpty(pendingRequests) =>
            available = {} /\ Cardinality(inUse) + Cardinality(Selecting) >= ConnectionLimit
      BY DEF PoolInv, NoStrandedRequest, Selecting
    <2>3. ~isEmpty(pendingRequests) => Cardinality(inUse) + Cardinality(Selecting') >= ConnectionLimit
      BY <2>1, <2>2, PoolAssumption
    <2>4. QED
      BY <1>1, <2>2, <2>3 DEF NoStrandedRequest, Selecting
  <1>9. QED
    BY <1>2, <1>3, <1>4, <1>6, <1>7, <1>8 DEF PoolInv

(* selectHttp11Context: an available context, or a new one.                *)
LEMMA ReuseAvailableStep ==
  ASSUME PoolInv, NEW r \in Requests, NEW c \in Contexts, reuseAvailable(r, c)
  PROVE  PoolInv'
  <1>1. /\ pc[r] = "selecting" /\ c \in available
        /\ available' = available \ {c} /\ inUse' = inUse \cup {c}
        /\ held' = [held EXCEPT ![r] = c] /\ pc' = [pc EXCEPT ![r] = "holding"]
        /\ pendingRequests' = pendingRequests
        /\ channel' = channel /\ operation' = operation /\ wire' = wire
        /\ socketContext' = socketContext /\ expired' = expired /\ answer' = answer
        /\ threads' = threads
    BY DEF reuseAvailable, channels
  <1>2. TypeOK'
    BY <1>1 DEF PoolInv, TypeOK, Places
  <1>3. c # NoContext
    BY PoolAssumption
  <1>4. RequestInv'
    BY <1>1, <1>3 DEF PoolInv, TypeOK, RequestInv, Sent
  <1>5. ChannelInv' /\ ThreadInv'
    BY <1>1 DEF PoolInv, TypeOK, ChannelInv, ThreadInv, Sent, Completed, Thread
  <1>6. InUseIsReturned'
    <2>1. \A x \in Requests : held[x] # NoContext => x # r
      BY <1>1 DEF PoolInv, RequestInv
    <2>2. \A x \in Requests : x # r => held'[x] = held[x] /\ pc'[x] = pc[x]
      BY <1>1 DEF PoolInv, TypeOK
    <2>3. \A d \in inUse : d # NoContext
      BY PoolAssumption DEF PoolInv, TypeOK
    <2>4. held'[r] = c
      BY <1>1 DEF PoolInv, TypeOK
    <2>5. QED
      BY <1>1, <2>1, <2>2, <2>3, <2>4 DEF PoolInv, InUseIsReturned
  <1>7. QueueInv'
    BY <1>1, QueueKept DEF PoolInv, TypeOK
  <1>8. Selecting' = Selecting \ {r}
    BY <1>1, SelectingUpdate
  <1>9. FiniteInv'
    BY <1>1, <1>8, Counting DEF PoolInv, FiniteInv
  <1>10. ConnectionLimitHeld'
    <2>1. c \notin inUse /\ inUse \cap available = {}
          /\ Cardinality(inUse) + Cardinality(available) =< ConnectionLimit
      BY <1>1 DEF PoolInv, ConnectionLimitHeld
    <2>2. /\ Cardinality(inUse') = Cardinality(inUse) + 1
          /\ Cardinality(available') = Cardinality(available) - 1
          /\ Cardinality(inUse) \in Nat /\ Cardinality(available) \in Nat
      BY <1>1, <2>1, Counting DEF PoolInv, FiniteInv
    <2>3. inUse' \cap available' = {}
      BY <1>1, <2>1
    <2>4. Cardinality(inUse') + Cardinality(available') =< ConnectionLimit
      BY <2>1, <2>2, PoolAssumption
    <2>5. QED
      BY <2>3, <2>4 DEF ConnectionLimitHeld
  <1>11. NoStrandedRequest'
    BY <1>1 DEF PoolInv, NoStrandedRequest
  <1>12. QED
    BY <1>2, <1>4, <1>5, <1>6, <1>7, <1>9, <1>10, <1>11 DEF PoolInv

(* A new context d is held by the request that selects.                    *)
LEMMA NewContextStep ==
  ASSUME PoolInv, NEW r \in Requests, NEW d \in Contexts, pc[r] = "selecting",
         d \in Unreferenced, NewContext(r, d), inUse' = inUse \cup {d},
         available' \subseteq available, pendingRequests' = pendingRequests,
         socketContext' = socketContext, expired' = expired, answer' = answer,
         threads \subseteq threads', threads' \subseteq Thread,
         \A t \in threads' \ threads : t.step = "check" /\ t.ctx # NoContext
  PROVE  TypeOK' /\ QueueInv' /\ RequestInv' /\ ChannelInv' /\ ThreadInv' /\ InUseIsReturned'
  <1>1. /\ channel' = [channel EXCEPT ![d] = "connecting"]
        /\ operation' = [operation EXCEPT ![d] = NoRequest]
        /\ wire' = [wire EXCEPT ![d] = <<>>]
        /\ held' = [held EXCEPT ![r] = d] /\ pc' = [pc EXCEPT ![r] = "holding"]
    BY DEF NewContext
  <1>2. d # NoContext /\ \A x \in Requests : socketContext[x] # d /\ held[x] # d
    BY PoolAssumption DEF Unreferenced
  <1>3. wire' \in [Contexts -> Seq(Requests)]
    <2>1. <<>> \in Seq(Requests)
      OBVIOUS
    <2>2. QED
      BY <1>1, <2>1 DEF PoolInv, TypeOK
  <1>4. TypeOK'
    BY <1>1, <1>3 DEF PoolInv, TypeOK, Places
  <1>5. RequestInv'
    BY <1>1, <1>2 DEF PoolInv, TypeOK, RequestInv, Sent
  <1>6. ChannelInv'
    BY <1>1, <1>2 DEF PoolInv, TypeOK, ChannelInv, Sent
  <1>7. ThreadInv'
    BY <1>1 DEF PoolInv, TypeOK, ThreadInv, Completed, Thread
  <1>8. InUseIsReturned'
    <2>1. \A x \in Requests : held[x] # NoContext => x # r
      BY DEF PoolInv, RequestInv
    <2>2. \A x \in Requests : x # r => held'[x] = held[x] /\ pc'[x] = pc[x]
      BY <1>1 DEF PoolInv, TypeOK
    <2>3. \A c \in inUse : c # NoContext
      BY PoolAssumption DEF PoolInv, TypeOK
    <2>4. held'[r] = d
      BY <1>1 DEF PoolInv, TypeOK
    <2>5. QED
      BY <1>1, <2>1, <2>2, <2>3, <2>4 DEF PoolInv, InUseIsReturned
  <1>9. QueueInv'
    BY <1>1, QueueKept DEF PoolInv, TypeOK
  <1>10. QED
    BY <1>4, <1>5, <1>6, <1>7, <1>8, <1>9

LEMMA ReplaceBadStep ==
  ASSUME PoolInv, NEW r \in Requests, NEW c \in Contexts, NEW d \in Contexts, replaceBad(r, c, d)
  PROVE  PoolInv'
  <1>1. PICK t0 : t0 = thread("check", r, c, TRUE, "replacement")
    OBVIOUS
  <1>2. /\ pc[r] = "selecting" /\ c \in available /\ d \in Unreferenced
        /\ available' = available \ {c} /\ inUse' = inUse \cup {d} /\ NewContext(r, d)
        /\ threads' = threads \cup {t0} /\ pendingRequests' = pendingRequests
        /\ socketContext' = socketContext /\ expired' = expired /\ answer' = answer
    BY <1>1 DEF replaceBad
  <1>3. t0 \in Thread /\ t0.step = "check" /\ t0.ctx = c /\ c # NoContext
    BY <1>1, PoolAssumption DEF thread, Thread
  <1>4. threads' \subseteq Thread
    BY <1>2, <1>3 DEF PoolInv, TypeOK
  <1>5. TypeOK' /\ QueueInv' /\ RequestInv' /\ ChannelInv' /\ ThreadInv' /\ InUseIsReturned'
    BY <1>2, <1>3, <1>4, NewContextStep
  <1>6. Selecting' = Selecting \ {r}
    BY <1>2, SelectingUpdate DEF NewContext
  <1>7. FiniteInv'
    BY <1>2, <1>6, Counting DEF PoolInv, FiniteInv
  <1>8. ConnectionLimitHeld'
    <2>1. /\ d \notin inUse /\ d \notin available /\ inUse \cap available = {}
          /\ Cardinality(inUse) + Cardinality(available) =< ConnectionLimit
      BY <1>2 DEF PoolInv, ConnectionLimitHeld, Unreferenced
    <2>2. /\ Cardinality(inUse') = Cardinality(inUse) + 1
          /\ Cardinality(available') = Cardinality(available) - 1
          /\ Cardinality(inUse) \in Nat /\ Cardinality(available) \in Nat
      BY <1>2, <2>1, Counting DEF PoolInv, FiniteInv
    <2>3. inUse' \cap available' = {}
      BY <1>2, <2>1
    <2>4. Cardinality(inUse') + Cardinality(available') =< ConnectionLimit
      BY <2>1, <2>2, PoolAssumption
    <2>5. QED
      BY <2>3, <2>4 DEF ConnectionLimitHeld
  <1>9. NoStrandedRequest'
    BY <1>2 DEF PoolInv, NoStrandedRequest
  <1>10. QED
    BY <1>5, <1>7, <1>8, <1>9 DEF PoolInv

LEMMA CreateContextStep ==
  ASSUME PoolInv, NEW r \in Requests, NEW c \in Contexts, createContext(r, c)
  PROVE  PoolInv'
  <1>1. /\ pc[r] = "selecting" /\ available = {} /\ ~AtConnectionLimit /\ c \in Unreferenced
        /\ inUse' = inUse \cup {c} /\ NewContext(r, c) /\ available' = available
        /\ pendingRequests' = pendingRequests /\ socketContext' = socketContext
        /\ expired' = expired /\ answer' = answer /\ threads' = threads
    BY DEF createContext
  <1>2. TypeOK' /\ QueueInv' /\ RequestInv' /\ ChannelInv' /\ ThreadInv' /\ InUseIsReturned'
    <2>1. threads' \subseteq Thread
      BY <1>1 DEF PoolInv, TypeOK
    <2>2. QED
      BY <1>1, <2>1, NewContextStep
  <1>3. Selecting' = Selecting \ {r} /\ r \in Selecting
    BY <1>1, SelectingUpdate DEF NewContext, Selecting
  <1>4. /\ IsFiniteSet(Selecting) /\ IsFiniteSet(inUse) /\ c \notin inUse
    BY <1>1 DEF PoolInv, FiniteInv, Unreferenced
  <1>5. /\ Cardinality(Selecting \ {r}) = Cardinality(Selecting) - 1
        /\ Cardinality(inUse \cup {c}) = Cardinality(inUse) + 1
        /\ Cardinality(Selecting) \in Nat /\ Cardinality(inUse) \in Nat
    BY <1>3, <1>4, Counting
  <1>6. FiniteInv'
    BY <1>1, <1>3, Counting DEF PoolInv, FiniteInv
  <1>7. ConnectionLimitHeld'
    <2>1. Cardinality(inUse') + Cardinality(available') =< ConnectionLimit
      <3>1. Cardinality(available') = 0
        BY <1>1, FS_EmptySet
      <3>2. QED
        BY <3>1, <1>1, <1>5, PoolAssumption DEF AtConnectionLimit
    <2>2. QED
      BY <1>1, <2>1 DEF ConnectionLimitHeld
  <1>8. NoStrandedRequest'
    <2>1. ~isEmpty(pendingRequests) =>
            Cardinality(inUse) + Cardinality(Selecting) >= ConnectionLimit
      BY DEF PoolInv, NoStrandedRequest, Selecting
    <2>2. ~isEmpty(pendingRequests) =>
            Cardinality(inUse') + Cardinality(Selecting') >= ConnectionLimit
      BY <2>1, <1>1, <1>3, <1>5, PoolAssumption
    <2>3. QED
      BY <2>2, <1>1 DEF NoStrandedRequest, Selecting
  <1>9. QED
    BY <1>2, <1>6, <1>7, <1>8 DEF PoolInv

(* selectHttp11Context at the limit.                                       *)
LEMMA QueuePendingStep ==
  ASSUME PoolInv, NEW r \in Requests, queuePendingRequest(r)
  PROVE  PoolInv'
  <1>1. /\ pc[r] = "selecting" /\ available = {} /\ AtConnectionLimit
        /\ available' = available /\ inUse' = inUse
        /\ channel' = channel /\ operation' = operation /\ wire' = wire /\ held' = held
        /\ socketContext' = socketContext /\ expired' = expired /\ answer' = answer
        /\ threads' = threads
    BY DEF queuePendingRequest, channels
  <1>2. \/ pendingRequests' = offer(pendingRequests, r) /\ pc' = [pc EXCEPT ![r] = "queued"]
        \/ pendingRequests' = pendingRequests /\ pc' = [pc EXCEPT ![r] = "failed"]
    BY DEF queuePendingRequest
  <1>3. pendingRequests' \in Queue(Requests) /\ QueueInv'
    <2>1. CASE pendingRequests' = offer(pendingRequests, r) /\ pc' = [pc EXCEPT ![r] = "queued"]
      BY <1>1, <2>1, QueueOffered
    <2>2. CASE pendingRequests' = pendingRequests /\ pc' = [pc EXCEPT ![r] = "failed"]
      <3>1. \A x \in Requests : pc[x] = "queued" => pc'[x] = "queued"
        BY <1>1, <2>2 DEF PoolInv, TypeOK
      <3>2. QED
        BY <2>2, <3>1, QueueKept DEF PoolInv, TypeOK
    <2>3. QED
      BY <1>2, <2>1, <2>2
  <1>4. PICK v \in {"queued", "failed"} : pc' = [pc EXCEPT ![r] = v]
    BY <1>2
  <1>5. TypeOK'
    BY <1>1, <1>3, <1>4 DEF PoolInv, TypeOK, Places
  <1>6. \A x \in Requests : pc'[x] = IF x = r THEN v ELSE pc[x]
    BY <1>4 DEF PoolInv, TypeOK
  <1>7. RequestInv'
    BY <1>1, <1>4, <1>6 DEF PoolInv, RequestInv, Sent
  <1>8. ChannelInv'
    BY <1>1, <1>6 DEF PoolInv, TypeOK, ChannelInv, Sent
  <1>9. ThreadInv'
    BY <1>1, <1>6 DEF PoolInv, TypeOK, ThreadInv, Completed, Thread
  <1>10. InUseIsReturned'
    BY <1>1, <1>6 DEF PoolInv, InUseIsReturned
  <1>11. Selecting' = Selecting \ {r}
    BY <1>2, SelectingUpdate
  <1>12. /\ IsFiniteSet(Selecting) /\ IsFiniteSet(Selecting \ {r}) /\ IsFiniteSet(inUse)
    BY Counting DEF PoolInv, FiniteInv
  <1>13. FiniteInv' /\ ConnectionLimitHeld'
    BY <1>1, <1>11, <1>12 DEF PoolInv, FiniteInv, ConnectionLimitHeld
  <1>14. NoStrandedRequest'
    <2>1. Cardinality(Selecting \ {r}) \in Nat /\ Cardinality(inUse) \in Nat
      BY <1>12, FS_CardinalityType
    <2>2. Cardinality(inUse') + Cardinality(Selecting') >= ConnectionLimit
      BY <2>1, <1>1, <1>11, PoolAssumption DEF AtConnectionLimit
    <2>3. QED
      BY <2>2, <1>1 DEF NoStrandedRequest, Selecting
  <1>15. QED
    BY <1>3, <1>5, <1>7, <1>8, <1>9, <1>10, <1>13, <1>14 DEF PoolInv

(* A request is written to the channel of the context it holds.            *)
LEMMA WrittenType ==
  ASSUME PoolInv, NEW r \in Requests, NEW c \in Contexts, NEW state
  PROVE  /\ Written(r, c, state) \in [Contexts -> Seq(Requests)]
         /\ Written(r, c, state)[c] = IF state = "open" THEN Append(wire[c], r) ELSE wire[c]
         /\ \A d \in Contexts \ {c} : Written(r, c, state)[d] = wire[d]
  <1>1. wire \in [Contexts -> Seq(Requests)]
    BY DEF PoolInv, TypeOK
  <1>2. Append(wire[c], r) \in Seq(Requests) /\ wire[c] \in Seq(Requests)
    BY <1>1
  <1>3. PICK s \in Seq(Requests) : s = IF state = "open" THEN Append(wire[c], r) ELSE wire[c]
    BY <1>2
  <1>4. Written(r, c, state) = [wire EXCEPT ![c] = s]
    BY <1>3 DEF Written
  <1>5. QED
    BY <1>1, <1>3, <1>4

LEMMA HeldContext ==
  ASSUME PoolInv, NEW r \in Requests, pc[r] = "holding"
  PROVE  held[r] \in Contexts /\ held[r] # NoContext /\ socketContext[r] = NoContext
  BY PoolAssumption DEF PoolInv, TypeOK, RequestInv, Sent

LEMMA SendStep ==
  ASSUME PoolInv, NEW r \in Requests, pc[r] = "holding", NEW c, c = held[r],
         channel' \in [Contexts -> {"connecting", "open", "closed"}],
         wire' \in [Contexts -> Seq(Requests)],
         operation' = [operation EXCEPT ![c] = r],
         socketContext' = [socketContext EXCEPT ![r] = c],
         pc' = [pc EXCEPT ![r] = "sent"], held' = [held EXCEPT ![r] = NoContext],
         UNCHANGED <<group, expired, answer, threads>>
  PROVE  PoolInv'
  <1>1. /\ available' = available /\ inUse' = inUse /\ pendingRequests' = pendingRequests
        /\ expired' = expired /\ answer' = answer /\ threads' = threads
    BY DEF group
  <1>2. c \in Contexts /\ c # NoContext /\ r # NoRequest
    BY HeldContext, PoolAssumption
  <1>3. TypeOK'
    BY <1>1, <1>2 DEF PoolInv, TypeOK, Places
  <1>4. /\ \A x \in Requests : pc'[x] = IF x = r THEN "sent" ELSE pc[x]
        /\ \A x \in Requests : held'[x] = IF x = r THEN NoContext ELSE held[x]
        /\ \A x \in Requests : socketContext'[x] = IF x = r THEN c ELSE socketContext[x]
        /\ \A d \in Contexts : operation'[d] = IF d = c THEN r ELSE operation[d]
    BY <1>2 DEF PoolInv, TypeOK
  <1>5. RequestInv'
    BY <1>1, <1>2, <1>4 DEF PoolInv, RequestInv, Sent
  <1>6. ChannelInv'
    BY <1>1, <1>2, <1>4 DEF PoolInv, TypeOK, ChannelInv, Sent
  <1>7. ThreadInv'
    <2>1. \A t \in threads : t.step \in {"respond", "expire"} => t.req # r
      BY DEF PoolInv, ThreadInv, RequestInv, Completed, Sent
    <2>2. QED
      BY <1>1, <1>4, <2>1 DEF PoolInv, TypeOK, Thread, ThreadInv
  <1>8. InUseIsReturned'
    <2>1. SUFFICES ASSUME NEW d \in inUse
                   PROVE  \/ \E x \in Requests : \/ held'[x] = d
                                                 \/ socketContext'[x] = d /\ pc'[x] = "sent"
                          \/ \E t \in threads : \/ t.ctx = d
                                                \/ t.step = "respond" /\ socketContext'[t.req] = d
      BY <1>1 DEF InUseIsReturned
    <2>2. CASE d = c
      BY <2>2, <1>4
    <2>3. CASE d # c
      <3>1. d \in Contexts /\ d # NoContext
        BY PoolAssumption DEF PoolInv, TypeOK
      <3>2. \A t \in threads : t.req \in Requests /\ (t.step = "respond" => t.req # r)
        BY DEF PoolInv, TypeOK, Thread, ThreadInv, Completed
      <3>3. \/ \E x \in Requests : held[x] = d \/ (socketContext[x] = d /\ pc[x] = "sent")
            \/ \E t \in threads : t.ctx = d \/ (t.step = "respond" /\ socketContext[t.req] = d)
        BY DEF PoolInv, InUseIsReturned
      <3>4. QED
        BY <2>3, <3>1, <3>2, <3>3, <1>4
    <2>4. QED
      BY <2>2, <2>3
  <1>9. QueueInv' /\ FiniteInv' /\ ConnectionLimitHeld' /\ NoStrandedRequest'
    BY <1>1, <1>4, GroupKept
  <1>10. QED
    BY <1>3, <1>5, <1>6, <1>7, <1>8, <1>9 DEF PoolInv

LEMMA SendOnReusedStep ==
  ASSUME PoolInv, NEW r \in Requests, sendOnReused(r)
  PROVE  PoolInv'
  <1>1. PICK c, state : c = held[r] /\ state = channel[c]
    OBVIOUS
  <1>2. /\ pc[r] = "holding" /\ operation' = [operation EXCEPT ![c] = r]
        /\ socketContext' = [socketContext EXCEPT ![r] = c] /\ wire' = Written(r, c, state)
        /\ pc' = [pc EXCEPT ![r] = "sent"] /\ held' = [held EXCEPT ![r] = NoContext]
        /\ channel' = channel /\ UNCHANGED <<group, expired, answer, threads>>
    BY <1>1 DEF sendOnReused
  <1>3. c \in Contexts
    BY <1>1, <1>2, HeldContext
  <1>4. wire' \in [Contexts -> Seq(Requests)]
    BY <1>2, <1>3, WrittenType
  <1>5. channel' \in [Contexts -> {"connecting", "open", "closed"}]
    BY <1>2 DEF PoolInv, TypeOK
  <1>6. QED
    BY <1>1, <1>2, <1>4, <1>5, SendStep

LEMMA ConnectSuccessStep ==
  ASSUME PoolInv, NEW r \in Requests, connectSuccess(r)
  PROVE  PoolInv'
  <1>1. PICK c : c = held[r]
    OBVIOUS
  <1>2. /\ pc[r] = "holding" /\ operation' = [operation EXCEPT ![c] = r]
        /\ socketContext' = [socketContext EXCEPT ![r] = c] /\ wire' = Written(r, c, "open")
        /\ pc' = [pc EXCEPT ![r] = "sent"] /\ held' = [held EXCEPT ![r] = NoContext]
        /\ channel' = [channel EXCEPT ![c] = "open"]
        /\ UNCHANGED <<group, expired, answer, threads>>
    BY <1>1 DEF connectSuccess
  <1>3. c \in Contexts
    BY <1>1, <1>2, HeldContext
  <1>4. wire' \in [Contexts -> Seq(Requests)]
    BY <1>2, <1>3, WrittenType
  <1>5. channel' \in [Contexts -> {"connecting", "open", "closed"}]
    BY <1>2 DEF PoolInv, TypeOK
  <1>6. QED
    BY <1>1, <1>2, <1>4, <1>5, SendStep

LEMMA ConnectFailureStep ==
  ASSUME PoolInv, NEW r \in Requests, connectFailure(r)
  PROVE  PoolInv'
  <1>1. PICK c, t0 : c = held[r] /\ t0 = thread("return", r, c, TRUE, "failure")
    OBVIOUS
  <1>2. /\ pc[r] = "holding" /\ threads' = threads \cup {t0}
        /\ pc' = [pc EXCEPT ![r] = "failed"] /\ held' = [held EXCEPT ![r] = NoContext]
        /\ available' = available /\ inUse' = inUse /\ pendingRequests' = pendingRequests
        /\ channel' = channel /\ operation' = operation /\ wire' = wire
        /\ socketContext' = socketContext /\ expired' = expired /\ answer' = answer
    BY <1>1 DEF connectFailure, group, channels
  <1>3. c \in Contexts /\ c # NoContext
    BY <1>1, <1>2, HeldContext
  <1>4. t0 \in Thread /\ t0.step = "return" /\ t0.ctx = c /\ t0.req = r
    BY <1>1, <1>3 DEF thread, Thread
  <1>5. threads' \subseteq Thread /\ \A t \in threads' : t.step = "respond" \/ t.ctx # NoContext
    BY <1>2, <1>3, <1>4 DEF PoolInv, TypeOK
  <1>6. TypeOK'
    BY <1>2, <1>5 DEF PoolInv, TypeOK, Places
  <1>7. /\ \A x \in Requests : pc'[x] = IF x = r THEN "failed" ELSE pc[x]
        /\ \A x \in Requests : held'[x] = IF x = r THEN NoContext ELSE held[x]
    BY <1>2 DEF PoolInv, TypeOK
  <1>8. RequestInv'
    BY <1>2, <1>7 DEF PoolInv, RequestInv, Sent
  <1>9. ChannelInv'
    BY <1>2, <1>7 DEF PoolInv, TypeOK, ChannelInv, Sent
  <1>10. ThreadInv'
    BY <1>2, <1>4, <1>7 DEF PoolInv, TypeOK, Thread, ThreadInv, Completed
  <1>11. InUseIsReturned'
    <2>1. SUFFICES ASSUME NEW d \in inUse
                   PROVE  \/ \E x \in Requests : \/ held'[x] = d
                                                 \/ socketContext[x] = d /\ pc'[x] = "sent"
                          \/ \E t \in threads' : \/ t.ctx = d
                                                 \/ t.step = "respond" /\ socketContext[t.req] = d
      BY <1>2 DEF InUseIsReturned
    <2>2. CASE d = c
      BY <2>2, <1>2, <1>4
    <2>3. CASE d # c
      <3>1. \/ \E x \in Requests : held[x] = d \/ (socketContext[x] = d /\ pc[x] = "sent")
            \/ \E t \in threads : t.ctx = d \/ (t.step = "respond" /\ socketContext[t.req] = d)
        BY DEF PoolInv, InUseIsReturned
      <3>2. QED
        BY <2>3, <3>1, <1>1, <1>2, <1>7
    <2>4. QED
      BY <2>2, <2>3
  <1>12. QueueInv' /\ FiniteInv' /\ ConnectionLimitHeld' /\ NoStrandedRequest'
    BY <1>2, <1>7, GroupKept
  <1>13. QED
    BY <1>6, <1>8, <1>9, <1>10, <1>11, <1>12 DEF PoolInv

(* NettyHttpServiceClient.fail of an operation that was sent.              *)
LEMMA FailStep ==
  ASSUME PoolInv, NEW r \in Requests, pc[r] = "sent", ~expired[r], FailAndReturn(r),
         operation' \in [Contexts -> Requests \cup {NoRequest}],
         \A c \in Contexts : operation'[c] \in {operation[c], NoRequest},
         wire' \in [Contexts -> Seq(Requests)],
         answer' \in [Requests -> Requests \cup {NoRequest}],
         UNCHANGED <<group, channel, held, expired>>
  PROVE  PoolInv'
  <1>1. PICK c, t0 : c = socketContext[r] /\ t0 = thread("check", r, c, FALSE, "failure")
    OBVIOUS
  <1>2. /\ pc' = [pc EXCEPT ![r] = "failed"]
        /\ socketContext' = [socketContext EXCEPT ![r] = NoContext]
        /\ threads' = threads \cup {t0}
        /\ available' = available /\ inUse' = inUse /\ pendingRequests' = pendingRequests
        /\ channel' = channel /\ held' = held /\ expired' = expired
    BY <1>1 DEF FailAndReturn, group
  <1>3. c \in Contexts /\ c # NoContext
    BY <1>1 DEF PoolInv, TypeOK, RequestInv
  <1>4. t0 \in Thread /\ t0.step = "check" /\ t0.ctx = c /\ t0.req = r
    BY <1>1, <1>3 DEF thread, Thread
  <1>5. threads' \subseteq Thread /\ \A t \in threads' : t.step = "respond" \/ t.ctx # NoContext
    BY <1>2, <1>3, <1>4 DEF PoolInv, TypeOK
  <1>6. TypeOK'
    BY <1>2, <1>5 DEF PoolInv, TypeOK, Places
  <1>7. /\ \A x \in Requests : pc'[x] = IF x = r THEN "failed" ELSE pc[x]
        /\ \A x \in Requests : socketContext'[x] = IF x = r THEN NoContext ELSE socketContext[x]
    BY <1>2 DEF PoolInv, TypeOK
  <1>8. RequestInv'
    BY <1>2, <1>7 DEF PoolInv, RequestInv, Sent
  <1>9. ChannelInv'
    BY <1>2, <1>7 DEF PoolInv, TypeOK, ChannelInv, Sent
  <1>10. ThreadInv'
    BY <1>2, <1>4, <1>7 DEF PoolInv, TypeOK, Thread, ThreadInv, Completed
  <1>11. InUseIsReturned'
    <2>1. SUFFICES ASSUME NEW d \in inUse
                   PROVE  \/ \E x \in Requests : \/ held[x] = d
                                                 \/ socketContext'[x] = d /\ pc'[x] = "sent"
                          \/ \E t \in threads' : \/ t.ctx = d
                                                 \/ t.step = "respond" /\ socketContext'[t.req] = d
      BY <1>2 DEF InUseIsReturned
    <2>2. CASE d = c
      BY <2>2, <1>2, <1>4
    <2>3. CASE d # c
      <3>1. \A t \in threads : t.req \in Requests /\ t \in threads'
        BY <1>2 DEF PoolInv, TypeOK, Thread
      <3>2. \/ \E x \in Requests : held[x] = d \/ (socketContext[x] = d /\ pc[x] = "sent")
            \/ \E t \in threads : t.ctx = d \/ (t.step = "respond" /\ socketContext[t.req] = d)
        BY DEF PoolInv, InUseIsReturned
      <3>3. QED
        BY <2>3, <3>1, <3>2, <1>1, <1>7
    <2>4. QED
      BY <2>2, <2>3
  <1>12. QueueInv' /\ FiniteInv' /\ ConnectionLimitHeld' /\ NoStrandedRequest'
    BY <1>2, <1>7, GroupKept
  <1>13. QED
    BY <1>6, <1>8, <1>9, <1>10, <1>11, <1>12 DEF PoolInv

(* A response, whose operation was sent on the channel.                    *)
LEMMA OperationSent ==
  ASSUME PoolInv, NEW c \in Contexts, operation[c] # NoRequest
  PROVE  /\ operation[c] \in Requests /\ pc[operation[c]] \in Sent
         /\ pc[operation[c]] = "sent" => socketContext[operation[c]] = c
  BY DEF PoolInv, TypeOK, ChannelInv

LEMMA ChannelReadStep ==
  ASSUME PoolInv, NEW c \in Contexts, channelRead(c)
  PROVE  PoolInv'
  <1>1. /\ wire[c] # <<>> /\ wire' = [wire EXCEPT ![c] = Tail(wire[c])]
        /\ operation' = [operation EXCEPT ![c] = NoRequest]
        /\ UNCHANGED <<group, channel>>
    BY DEF channelRead
  <1>2. /\ operation' \in [Contexts -> Requests \cup {NoRequest}]
        /\ \A d \in Contexts : operation'[d] \in {operation[d], NoRequest}
        /\ \A d \in Contexts : operation'[d] # NoRequest => operation'[d] = operation[d]
    BY <1>1 DEF PoolInv, TypeOK
  <1>3. wire' \in [Contexts -> Seq(Requests)] /\ Head(wire[c]) \in Requests
    <2>1. wire[c] \in Seq(Requests)
      BY DEF PoolInv, TypeOK
    <2>2. Tail(wire[c]) \in Seq(Requests) /\ Head(wire[c]) \in Requests
      BY <1>1, <2>1
    <2>3. QED
      BY <1>1, <2>2 DEF PoolInv, TypeOK
  <1>4. /\ available' = available /\ inUse' = inUse /\ pendingRequests' = pendingRequests
        /\ channel' = channel
    BY <1>1 DEF group
  <1>5. CASE operation[c] = NoRequest
    <2>1. /\ pc' = pc /\ held' = held /\ socketContext' = socketContext
          /\ expired' = expired /\ answer' = answer /\ threads' = threads
      BY <1>5 DEF channelRead, client
    <2>2. TypeOK'
      BY <1>2, <1>3, <1>4, <2>1 DEF PoolInv, TypeOK
    <2>3. ChannelInv'
      BY <1>2, <2>1 DEF PoolInv, ChannelInv
    <2>4. RequestInv' /\ ThreadInv' /\ InUseIsReturned'
      BY <1>4, <2>1 DEF PoolInv, RequestInv, ThreadInv, InUseIsReturned
    <2>5. QueueInv' /\ FiniteInv' /\ ConnectionLimitHeld' /\ NoStrandedRequest'
      BY <1>4, <2>1, GroupKept
    <2>6. QED
      BY <2>2, <2>3, <2>4, <2>5 DEF PoolInv
  <1>6. CASE operation[c] # NoRequest
    <2>1. PICK r : r = operation[c]
      OBVIOUS
    <2>2. r \in Requests /\ pc[r] \in Sent /\ (pc[r] = "sent" => socketContext[r] = c)
      BY <1>6, <2>1, OperationSent
    <2>3. /\ answer' = [answer EXCEPT ![r] = IF pc[r] = "sent" THEN Head(wire[c]) ELSE answer[r]]
          /\ held' = held /\ expired' = expired
      BY <1>6, <2>1 DEF channelRead
    <2>4. answer' \in [Requests -> Requests \cup {NoRequest}]
      BY <1>3, <2>2, <2>3 DEF PoolInv, TypeOK
    <2>5. CASE pc[r] = "sent" /\ ~expired[r] /\ FailAndReturn(r)
      BY <2>2, <2>3, <2>4, <2>5, <1>1, <1>2, <1>3, FailStep
    <2>6. CASE /\ \E result \in IF expired[r] THEN Completed ELSE {"ok"} :
                     pc' = [pc EXCEPT ![r] = IF pc[r] = "sent" THEN result ELSE pc[r]]
               /\ threads' = threads \cup
                     (IF socketContext[r] = NoContext THEN {}
                      ELSE {thread("respond", r, NoContext, FALSE, "response")})
               /\ socketContext' = socketContext
      <3>1. PICK v \in Completed : pc' = [pc EXCEPT ![r] = v] /\ (pc[r] # "sent" => v = pc[r])
        <4>1. PICK result \in Completed :
                pc' = [pc EXCEPT ![r] = IF pc[r] = "sent" THEN result ELSE pc[r]]
          BY <2>6 DEF Completed
        <4>2. QED
          BY <4>1, <2>2 DEF Completed, Sent
      <3>2. PICK t0 : t0 = thread("respond", r, NoContext, FALSE, "response")
        OBVIOUS
      <3>3. t0 \in Thread /\ t0.step = "respond" /\ t0.req = r /\ t0.ctx = NoContext
        BY <2>2, <3>2 DEF thread, Thread
      <3>4. /\ threads \subseteq threads' /\ \A t \in threads' : t \in threads \/ t = t0
            /\ socketContext[r] # NoContext => t0 \in threads'
        BY <2>6, <3>2
      <3>5. threads' \subseteq Thread /\ \A t \in threads' : t.step = "respond" \/ t.ctx # NoContext
        BY <3>3, <3>4 DEF PoolInv, TypeOK
      <3>6. TypeOK'
        BY <1>2, <1>3, <1>4, <2>2, <2>3, <2>4, <2>6, <3>1, <3>5 DEF PoolInv, TypeOK, Places, Completed
      <3>7. \A x \in Requests : pc'[x] = IF x = r THEN v ELSE pc[x]
        BY <3>1 DEF PoolInv, TypeOK
      <3>8. RequestInv'
        BY <2>2, <2>3, <2>6, <3>1, <3>7 DEF PoolInv, RequestInv, Sent, Completed
      <3>9. ChannelInv'
        BY <1>2, <2>2, <2>6, <3>1, <3>7 DEF PoolInv, TypeOK, ChannelInv, Sent, Completed
      <3>10. ThreadInv'
        <4>1. SUFFICES ASSUME NEW t \in threads'
                       PROVE  /\ t.step = "respond" => pc'[t.req] \in Completed /\ t.ctx = NoContext
                              /\ t.step = "expire" => /\ expired'[t.req]
                                                      /\ socketContext'[t.req] \in {t.ctx, NoContext}
          BY DEF ThreadInv
        <4>2. CASE t = t0
          BY <4>2, <3>1, <3>3, <3>7, <2>2
        <4>3. CASE t \in threads
          BY <4>3, <2>3, <2>6, <3>1, <3>7 DEF PoolInv, TypeOK, Thread, ThreadInv, Completed
        <4>4. QED
          BY <4>2, <4>3, <3>4
      <3>11. InUseIsReturned'
        <4>1. SUFFICES ASSUME NEW d \in inUse
                       PROVE  \/ \E x \in Requests : \/ held[x] = d
                                                     \/ socketContext[x] = d /\ pc'[x] = "sent"
                              \/ \E t \in threads' : \/ t.ctx = d
                                                     \/ t.step = "respond" /\ socketContext[t.req] = d
          BY <1>4, <2>3, <2>6 DEF InUseIsReturned
        <4>2. d # NoContext
          BY PoolAssumption DEF PoolInv, TypeOK
        <4>3. \/ \E x \in Requests : held[x] = d \/ (socketContext[x] = d /\ pc[x] = "sent")
              \/ \E t \in threads : t.ctx = d \/ (t.step = "respond" /\ socketContext[t.req] = d)
          BY DEF PoolInv, InUseIsReturned
        <4>4. CASE socketContext[r] = d
          BY <4>2, <4>4, <3>3, <3>4
        <4>5. CASE socketContext[r] # d
          BY <4>3, <4>5, <3>4, <3>7
        <4>6. QED
          BY <4>4, <4>5
      <3>12. \A x \in Requests : /\ pc'[x] = "selecting" <=> pc[x] = "selecting"
                                 /\ pc[x] = "queued" => pc'[x] = "queued"
        BY <2>2, <3>1, <3>7 DEF Sent, Completed
      <3>13. QueueInv' /\ FiniteInv' /\ ConnectionLimitHeld' /\ NoStrandedRequest'
        BY <1>4, <3>12, GroupKept
      <3>14. QED
        BY <3>6, <3>8, <3>9, <3>10, <3>11, <3>13 DEF PoolInv
    <2>7. QED
      BY <1>6, <2>1, <2>5, <2>6 DEF channelRead
  <1>7. QED
    BY <1>5, <1>6

(* exceptionCaught, an encoding error, and an expiry.                      *)
LEMMA SentContext ==
  ASSUME PoolInv, NEW r \in Requests, pc[r] = "sent"
  PROVE  socketContext[r] \in Contexts /\ socketContext[r] # NoContext
  BY DEF PoolInv, TypeOK, RequestInv

LEMMA RequestFailureStep ==
  ASSUME PoolInv, NEW r \in Requests, requestFailure(r)
  PROVE  PoolInv'
  <1>1. PICK c : c = socketContext[r]
    OBVIOUS
  <1>2. PICK left \in {NoRequest, r} : operation' = [operation EXCEPT ![c] = left]
    BY <1>1 DEF requestFailure
  <1>3. /\ pc[r] = "sent" /\ ~expired[r] /\ operation[c] = r /\ FailAndReturn(r)
        /\ wire' = [wire EXCEPT ![c] = Unanswered(wire[c], r)]
        /\ answer' = answer /\ UNCHANGED <<group, channel, held, expired>>
    BY <1>1 DEF requestFailure
  <1>4. c \in Contexts
    BY <1>1, <1>3, SentContext
  <1>5. wire' \in [Contexts -> Seq(Requests)]
    <2>1. wire[c] \in Seq(Requests)
      BY <1>4 DEF PoolInv, TypeOK
    <2>2. Unanswered(wire[c], r) \in Seq(Requests)
      BY <2>1, UnansweredFacts
    <2>3. QED
      BY <1>3, <2>2 DEF PoolInv, TypeOK
  <1>6. /\ operation' \in [Contexts -> Requests \cup {NoRequest}]
        /\ \A d \in Contexts : operation'[d] \in {operation[d], NoRequest}
    BY <1>2, <1>3 DEF PoolInv, TypeOK
  <1>7. answer' \in [Requests -> Requests \cup {NoRequest}]
    BY <1>3 DEF PoolInv, TypeOK
  <1>8. QED
    BY <1>3, <1>5, <1>6, <1>7, FailStep

LEMMA FailExpiredStep ==
  ASSUME PoolInv, NEW r \in Requests, failExpiredRequests(r)
  PROVE  PoolInv'
  <1>1. /\ pc[r] = "sent" /\ ~expired[r]
        /\ available' = available /\ inUse' = inUse /\ pendingRequests' = pendingRequests
        /\ channel' = channel /\ operation' = operation /\ wire' = wire
        /\ held' = held /\ answer' = answer /\ pc' = pc /\ socketContext' = socketContext
        /\ expired' = [expired EXCEPT ![r] = TRUE]
    BY DEF failExpiredRequests, group, channels
  <1>2. PICK c, t0 : c = socketContext[r] /\ t0 = thread("expire", r, c, FALSE, "failure")
    OBVIOUS
  <1>3. c \in Contexts /\ c # NoContext
    BY <1>1, <1>2, SentContext
  <1>4. t0 \in Thread /\ t0.step = "expire" /\ t0.ctx = c /\ t0.req = r
    BY <1>2, <1>3 DEF thread, Thread
  <1>5. threads' = threads \cup {t0}
    BY <1>2 DEF failExpiredRequests
  <1>6. threads' \subseteq Thread /\ \A t \in threads' : t.step = "respond" \/ t.ctx # NoContext
    BY <1>3, <1>4, <1>5 DEF PoolInv, TypeOK
  <1>7. expired' \in [Requests -> BOOLEAN] /\ \A x \in Requests \ {r} : expired'[x] = expired[x]
    BY <1>1 DEF PoolInv, TypeOK
  <1>8. TypeOK'
    BY <1>1, <1>6, <1>7 DEF PoolInv, TypeOK
  <1>9. RequestInv' /\ ChannelInv'
    BY <1>1, <1>7 DEF PoolInv, RequestInv, ChannelInv, Sent
  <1>10. expired'[r] /\ \A x \in Requests : expired[x] => expired'[x]
    BY <1>1 DEF PoolInv, TypeOK
  <1>11. ThreadInv'
    BY <1>1, <1>2, <1>4, <1>5, <1>10 DEF PoolInv, TypeOK, Thread, ThreadInv
  <1>12. InUseIsReturned'
    BY <1>1, <1>5 DEF PoolInv, InUseIsReturned
  <1>13. QueueInv' /\ FiniteInv' /\ ConnectionLimitHeld' /\ NoStrandedRequest'
    BY <1>1, GroupKept
  <1>14. QED
    BY <1>8, <1>9, <1>11, <1>12, <1>13 DEF PoolInv

(* completeRequest returns the context.                                    *)
LEMMA ReturnAfterResponseStep ==
  ASSUME PoolInv, NEW t \in threads, returnAfterResponse(t)
  PROVE  PoolInv'
  <1>1. PICK r, c : r = t.req /\ c = socketContext[r]
    OBVIOUS
  <1>2. t.step = "respond" /\ t \in Thread /\ r \in Requests /\ c \in Contexts \cup {NoContext}
    BY <1>1 DEF returnAfterResponse, PoolInv, TypeOK, Thread
  <1>3. PICK t1 : t1 = [t EXCEPT !.step = "check", !.ctx = c]
    OBVIOUS
  <1>4. t1 \in Thread /\ t1.step = "check" /\ t1.ctx = c /\ t1.req = r
    BY <1>1, <1>2, <1>3 DEF Thread
  <1>5. PICK k : k = IF expired[r] THEN c ELSE NoContext
    OBVIOUS
  <1>6. /\ threads' = (threads \ {t}) \cup (IF c = NoContext THEN {} ELSE {t1})
        /\ socketContext' = [socketContext EXCEPT ![r] = k]
        /\ available' = available /\ inUse' = inUse /\ pendingRequests' = pendingRequests
        /\ channel' = channel /\ operation' = operation /\ wire' = wire
        /\ pc' = pc /\ held' = held /\ expired' = expired /\ answer' = answer
    BY <1>1, <1>3, <1>5 DEF returnAfterResponse, group, channels
  <1>7. pc[r] \in Completed /\ k \in {c, NoContext}
    BY <1>1, <1>2, <1>5 DEF PoolInv, ThreadInv
  <1>8. threads' \subseteq Thread /\ \A u \in threads' : u.step = "respond" \/ u.ctx # NoContext
    BY <1>4, <1>6 DEF PoolInv, TypeOK
  <1>9. socketContext' \in [Requests -> Contexts \cup {NoContext}]
    BY <1>2, <1>6, <1>7 DEF PoolInv, TypeOK
  <1>10. TypeOK'
    BY <1>6, <1>8, <1>9 DEF PoolInv, TypeOK
  <1>11. \A x \in Requests : socketContext'[x] = IF x = r THEN k ELSE socketContext[x]
    BY <1>6 DEF PoolInv, TypeOK
  <1>12. RequestInv'
    BY <1>6, <1>7, <1>11 DEF PoolInv, RequestInv, Sent, Completed
  <1>13. ChannelInv'
    BY <1>6, <1>7, <1>11 DEF PoolInv, TypeOK, ChannelInv, Completed
  <1>14. ThreadInv'
    <2>1. SUFFICES ASSUME NEW u \in threads'
                   PROVE  /\ u.step = "respond" => pc[u.req] \in Completed /\ u.ctx = NoContext
                          /\ u.step = "expire" => /\ expired[u.req]
                                                  /\ socketContext'[u.req] \in {u.ctx, NoContext}
      BY <1>6 DEF ThreadInv
    <2>2. CASE u = t1
      BY <2>2, <1>4
    <2>3. CASE u \in threads
      <3>1. u.req \in Requests
        BY <2>3 DEF PoolInv, TypeOK, Thread
      <3>2. QED
        BY <2>3, <3>1, <1>1, <1>7, <1>11 DEF PoolInv, ThreadInv
    <2>4. QED
      BY <2>2, <2>3, <1>6
  <1>15. InUseIsReturned'
    <2>1. SUFFICES ASSUME NEW d \in inUse
                   PROVE  \/ \E x \in Requests : \/ held[x] = d
                                                 \/ socketContext'[x] = d /\ pc[x] = "sent"
                          \/ \E u \in threads' : \/ u.ctx = d
                                                 \/ u.step = "respond" /\ socketContext'[u.req] = d
      BY <1>6 DEF InUseIsReturned
    <2>2. d # NoContext
      BY PoolAssumption DEF PoolInv, TypeOK
    <2>3. CASE d = c
      BY <2>2, <2>3, <1>4, <1>6
    <2>4. CASE d # c
      <3>1. \/ \E x \in Requests : held[x] = d \/ (socketContext[x] = d /\ pc[x] = "sent")
            \/ \E u \in threads : u.ctx = d \/ (u.step = "respond" /\ socketContext[u.req] = d)
        BY DEF PoolInv, InUseIsReturned
      <3>2. \A u \in threads : u.req \in Requests /\ (u # t => u \in threads')
        BY <1>6 DEF PoolInv, TypeOK, Thread
      <3>3. CASE \E x \in Requests : held[x] = d \/ (socketContext[x] = d /\ pc[x] = "sent")
        BY <3>3, <2>4, <1>1, <1>11
      <3>4. ASSUME NEW u \in threads, u.ctx = d
            PROVE  \E w \in threads' : w.ctx = d
        <4>1. CASE u # t
          BY <4>1, <3>2, <3>4
        <4>2. CASE u = t
          BY <4>2, <3>4, <2>2, <1>2 DEF PoolInv, ThreadInv
        <4>3. QED
          BY <4>1, <4>2
      <3>5. ASSUME NEW u \in threads, u.step = "respond", socketContext[u.req] = d
            PROVE  \E w \in threads' : w.step = "respond" /\ socketContext'[w.req] = d
        BY <3>2, <3>5, <2>4, <1>1, <1>11
      <3>6. QED
        BY <3>1, <3>3, <3>4, <3>5
    <2>5. QED
      BY <2>3, <2>4
  <1>16. QueueInv' /\ FiniteInv' /\ ConnectionLimitHeld' /\ NoStrandedRequest'
    BY <1>6, GroupKept
  <1>17. QED
    BY <1>10, <1>12, <1>13, <1>14, <1>15, <1>16 DEF PoolInv

LEMMA ReturnAfterExpiryStep ==
  ASSUME PoolInv, NEW t \in threads, returnAfterExpiry(t)
  PROVE  PoolInv'
  <1>1. PICK r, c, t1 : r = t.req /\ c = t.ctx /\ t1 = [t EXCEPT !.step = "check"]
    OBVIOUS
  <1>2. /\ t.step = "expire" /\ t \in Thread /\ r \in Requests
        /\ c \in Contexts \cup {NoContext} /\ c # NoContext
    BY <1>1 DEF returnAfterExpiry, PoolInv, TypeOK, Thread
  <1>3. t1 \in Thread /\ t1.step = "check" /\ t1.ctx = c /\ t1.req = r
    BY <1>1, <1>2 DEF Thread
  <1>4. PICK v : v = IF pc[r] = "sent" THEN "failed" ELSE pc[r]
    OBVIOUS
  <1>5. /\ threads' = (threads \ {t}) \cup {t1} /\ pc' = [pc EXCEPT ![r] = v]
        /\ socketContext' = [socketContext EXCEPT ![r] = NoContext]
        /\ available' = available /\ inUse' = inUse /\ pendingRequests' = pendingRequests
        /\ channel' = channel /\ operation' = operation /\ wire' = wire
        /\ held' = held /\ expired' = expired /\ answer' = answer
    BY <1>1, <1>4 DEF returnAfterExpiry, group, channels
  <1>6. expired[r] /\ socketContext[r] \in {c, NoContext} /\ pc[r] \in Sent
    BY <1>1, <1>2 DEF PoolInv, ThreadInv, RequestInv
  <1>7. v \in Completed
    BY <1>4, <1>6 DEF Sent, Completed
  <1>8. threads' \subseteq Thread /\ \A u \in threads' : u.step = "respond" \/ u.ctx # NoContext
    BY <1>2, <1>3, <1>5 DEF PoolInv, TypeOK
  <1>9. TypeOK'
    BY <1>5, <1>7, <1>8 DEF PoolInv, TypeOK, Places, Completed
  <1>10. /\ \A x \in Requests : pc'[x] = IF x = r THEN v ELSE pc[x]
         /\ \A x \in Requests : socketContext'[x] = IF x = r THEN NoContext ELSE socketContext[x]
    BY <1>5 DEF PoolInv, TypeOK
  <1>11. RequestInv'
    BY <1>5, <1>6, <1>7, <1>10 DEF PoolInv, RequestInv, Sent, Completed
  <1>12. ChannelInv'
    BY <1>5, <1>7, <1>10 DEF PoolInv, TypeOK, ChannelInv, Completed, Sent
  <1>13. ThreadInv'
    <2>1. SUFFICES ASSUME NEW u \in threads'
                   PROVE  /\ u.step = "respond" => pc'[u.req] \in Completed /\ u.ctx = NoContext
                          /\ u.step = "expire" => /\ expired[u.req]
                                                  /\ socketContext'[u.req] \in {u.ctx, NoContext}
      BY <1>5 DEF ThreadInv
    <2>2. CASE u = t1
      BY <2>2, <1>3
    <2>3. CASE u \in threads
      <3>1. u.req \in Requests
        BY <2>3 DEF PoolInv, TypeOK, Thread
      <3>2. QED
        BY <2>3, <3>1, <1>7, <1>10 DEF PoolInv, ThreadInv
    <2>4. QED
      BY <2>2, <2>3, <1>5
  <1>14. InUseIsReturned'
    <2>1. SUFFICES ASSUME NEW d \in inUse
                   PROVE  \/ \E x \in Requests : \/ held[x] = d
                                                 \/ socketContext'[x] = d /\ pc'[x] = "sent"
                          \/ \E u \in threads' : \/ u.ctx = d
                                                 \/ u.step = "respond" /\ socketContext'[u.req] = d
      BY <1>5 DEF InUseIsReturned
    <2>2. d # NoContext
      BY PoolAssumption DEF PoolInv, TypeOK
    <2>3. CASE d = c
      BY <2>3, <1>3, <1>5
    <2>4. CASE d # c
      <3>1. \/ \E x \in Requests : held[x] = d \/ (socketContext[x] = d /\ pc[x] = "sent")
            \/ \E u \in threads : u.ctx = d \/ (u.step = "respond" /\ socketContext[u.req] = d)
        BY DEF PoolInv, InUseIsReturned
      <3>2. \A u \in threads : u.req \in Requests /\ (u # t => u \in threads')
        BY <1>5 DEF PoolInv, TypeOK, Thread
      <3>3. \A x \in Requests : socketContext[x] = d => x # r
        BY <2>2, <2>4, <1>6
      <3>4. QED
        BY <3>1, <3>2, <3>3, <2>4, <1>1, <1>2, <1>10
    <2>5. QED
      BY <2>3, <2>4
  <1>15. \A x \in Requests : /\ pc'[x] = "selecting" <=> pc[x] = "selecting"
                             /\ pc[x] = "queued" => pc'[x] = "queued"
    BY <1>6, <1>7, <1>10 DEF Sent, Completed
  <1>16. QueueInv' /\ FiniteInv' /\ ConnectionLimitHeld' /\ NoStrandedRequest'
    BY <1>5, <1>15, GroupKept
  <1>17. QED
    BY <1>9, <1>11, <1>12, <1>13, <1>14, <1>16 DEF PoolInv

(* The first half of returnOrCloseDirect.                                  *)
LEMMA CheckChannelStep ==
  ASSUME PoolInv, NEW t \in threads, checkChannel(t)
  PROVE  PoolInv'
  <1>1. PICK c : c = t.ctx
    OBVIOUS
  <1>2. /\ t.step = "check" /\ t \in Thread /\ c \in Contexts /\ c # NoContext
    BY <1>1 DEF checkChannel, PoolInv, TypeOK, Thread
  <1>3. PICK closing \in BOOLEAN :
          threads' = (threads \ {t}) \cup
            {[t EXCEPT !.step = "return",
                       !.close = \/ t.close \/ closing \/ channel[c] = "closed"
                                 \/ StillHasOperation(c)]}
    BY <1>1 DEF checkChannel
  <1>4. PICK close : close = (t.close \/ closing \/ channel[c] = "closed" \/ StillHasOperation(c))
    OBVIOUS
  <1>5. close \in BOOLEAN
    BY <1>4
  <1>6. PICK t1 : t1 = [t EXCEPT !.step = "return", !.close = close]
    OBVIOUS
  <1>7. threads' = (threads \ {t}) \cup {t1}
    BY <1>3, <1>4, <1>6
  <1>8. t1 \in Thread /\ t1.step = "return" /\ t1.ctx = c /\ t1.req = t.req
    BY <1>1, <1>2, <1>5, <1>6 DEF Thread
  <1>9. /\ operation' = [operation EXCEPT ![c] = NoRequest]
        /\ available' = available /\ inUse' = inUse /\ pendingRequests' = pendingRequests
        /\ channel' = channel /\ wire' = wire
        /\ pc' = pc /\ held' = held /\ socketContext' = socketContext
        /\ expired' = expired /\ answer' = answer
    BY <1>1 DEF checkChannel, group, client
  <1>10. threads' \subseteq Thread /\ \A u \in threads' : u.step = "respond" \/ u.ctx # NoContext
    BY <1>2, <1>7, <1>8 DEF PoolInv, TypeOK
  <1>11. TypeOK'
    BY <1>9, <1>10 DEF PoolInv, TypeOK
  <1>12. RequestInv'
    BY <1>9 DEF PoolInv, RequestInv
  <1>13. ChannelInv'
    BY <1>9 DEF PoolInv, TypeOK, ChannelInv
  <1>14. ThreadInv'
    BY <1>7, <1>8, <1>9 DEF PoolInv, ThreadInv
  <1>15. InUseIsReturned'
    <2>1. SUFFICES ASSUME NEW d \in inUse
                   PROVE  \/ \E x \in Requests : held[x] = d \/ (socketContext[x] = d /\ pc[x] = "sent")
                          \/ \E u \in threads' : \/ u.ctx = d
                                                 \/ u.step = "respond" /\ socketContext[u.req] = d
      BY <1>9 DEF InUseIsReturned
    <2>2. t1 \in threads' /\ \A u \in threads : u # t => u \in threads'
      BY <1>7
    <2>3. CASE d = c
      BY <2>2, <2>3, <1>8
    <2>4. CASE d # c
      <3>1. \/ \E x \in Requests : held[x] = d \/ (socketContext[x] = d /\ pc[x] = "sent")
            \/ \E u \in threads : u.ctx = d \/ (u.step = "respond" /\ socketContext[u.req] = d)
        BY DEF PoolInv, InUseIsReturned
      <3>2. QED
        BY <3>1, <2>2, <2>4, <1>1, <1>2
    <2>5. QED
      BY <2>3, <2>4
  <1>16. QueueInv' /\ FiniteInv' /\ ConnectionLimitHeld' /\ NoStrandedRequest'
    BY <1>9, GroupKept
  <1>17. QED
    BY <1>11, <1>12, <1>13, <1>14, <1>15, <1>16 DEF PoolInv

(* The remote host, and maintenance.                                       *)
LEMMA ChannelInactiveStep ==
  ASSUME PoolInv, NEW c \in Contexts, channelInactive(c)
  PROVE  PoolInv'
  <1>1. /\ channel' = [channel EXCEPT ![c] = "closed"]
        /\ operation' = [operation EXCEPT ![c] = NoRequest] /\ wire' = [wire EXCEPT ![c] = <<>>]
        /\ available' = available /\ inUse' = inUse /\ pendingRequests' = pendingRequests
        /\ pc' = pc /\ held' = held /\ socketContext' = socketContext
        /\ expired' = expired /\ answer' = answer /\ threads' = threads
    BY DEF channelInactive, group, client
  <1>2. wire' \in [Contexts -> Seq(Requests)]
    <2>1. <<>> \in Seq(Requests)
      OBVIOUS
    <2>2. QED
      BY <1>1, <2>1 DEF PoolInv, TypeOK
  <1>3. TypeOK'
    BY <1>1, <1>2 DEF PoolInv, TypeOK
  <1>4. ChannelInv'
    BY <1>1 DEF PoolInv, TypeOK, ChannelInv
  <1>5. RequestInv' /\ ThreadInv' /\ InUseIsReturned'
    BY <1>1 DEF PoolInv, RequestInv, ThreadInv, InUseIsReturned
  <1>6. QueueInv' /\ FiniteInv' /\ ConnectionLimitHeld' /\ NoStrandedRequest'
    BY <1>1, GroupKept
  <1>7. QED
    BY <1>3, <1>4, <1>5, <1>6 DEF PoolInv

LEMMA CloseIdleStep ==
  ASSUME PoolInv, NEW c \in Contexts, closeIdleChannelContext(c)
  PROVE  PoolInv'
  <1>1. /\ c \in available /\ available' = available \ {c}
        /\ channel' = [channel EXCEPT ![c] = "closed"]
        /\ operation' = operation /\ wire' = wire
        /\ inUse' = inUse /\ pendingRequests' = pendingRequests
        /\ pc' = pc /\ held' = held /\ socketContext' = socketContext
        /\ expired' = expired /\ answer' = answer /\ threads' = threads
    BY DEF closeIdleChannelContext, client
  <1>2. TypeOK'
    BY <1>1 DEF PoolInv, TypeOK
  <1>3. RequestInv' /\ ChannelInv' /\ ThreadInv' /\ InUseIsReturned'
    BY <1>1 DEF PoolInv, RequestInv, ChannelInv, ThreadInv, InUseIsReturned
  <1>4. QueueInv'
    BY <1>1, QueueKept
  <1>5. Selecting' = Selecting
    BY <1>1 DEF Selecting
  <1>6. FiniteInv'
    BY <1>1, <1>5, Counting DEF PoolInv, FiniteInv
  <1>7. ConnectionLimitHeld'
    <2>1. /\ Cardinality(available') = Cardinality(available) - 1
          /\ Cardinality(inUse) \in Nat /\ Cardinality(available) \in Nat
      BY <1>1, Counting DEF PoolInv, FiniteInv
    <2>2. /\ Cardinality(inUse) + Cardinality(available) =< ConnectionLimit
          /\ inUse \cap available = {}
      BY DEF PoolInv, ConnectionLimitHeld
    <2>3. inUse' \cap available' = {} /\ Cardinality(inUse') = Cardinality(inUse)
      BY <1>1, <2>2
    <2>4. Cardinality(inUse') + Cardinality(available') =< ConnectionLimit
      BY <2>1, <2>2, <2>3, PoolAssumption
    <2>5. QED
      BY <2>3, <2>4 DEF ConnectionLimitHeld
  <1>8. NoStrandedRequest'
    BY <1>1 DEF PoolInv, NoStrandedRequest
  <1>9. QED
    BY <1>2, <1>3, <1>4, <1>6, <1>7, <1>8 DEF PoolInv

(* The second half of returnOrCloseDirect, on a channel that stays open.   *)
LEMMA ReturnIdleStep ==
  ASSUME PoolInv, NEW t \in threads, returnAndSendPending(t), isEmpty(pendingRequests)
  PROVE  PoolInv'
  <1>1. PICK c : c = t.ctx
    OBVIOUS
  <1>2. /\ t.step = "return" /\ c \in Contexts /\ c # NoContext
    BY <1>1 DEF returnAndSendPending, PoolInv, TypeOK, Thread
  <1>3. /\ pendingRequests' = pendingRequests /\ threads' = threads \ {t}
        /\ inUse' = inUse \ {c}
        /\ available' = IF c \in inUse THEN available \cup {c} ELSE available
        /\ channel' = channel /\ operation' = operation /\ wire' = wire
        /\ pc' = pc /\ held' = held /\ socketContext' = socketContext
        /\ expired' = expired /\ answer' = answer
    <2>1. pendingRequests' = pendingRequests
      BY PollFacts DEF returnAndSendPending, PoolInv, TypeOK
    <2>2. QED
      BY <1>1, <2>1 DEF returnAndSendPending
  <1>4. TypeOK'
    BY <1>2, <1>3 DEF PoolInv, TypeOK
  <1>5. RequestInv' /\ ChannelInv' /\ ThreadInv'
    BY <1>3 DEF PoolInv, RequestInv, ChannelInv, ThreadInv
  <1>6. InUseIsReturned'
    BY <1>1, <1>2, <1>3 DEF PoolInv, InUseIsReturned
  <1>7. QueueInv'
    BY <1>3, QueueKept
  <1>8. Selecting' = Selecting
    BY <1>3 DEF Selecting
  <1>9. FiniteInv'
    BY <1>3, <1>8, Counting DEF PoolInv, FiniteInv
  <1>10. ConnectionLimitHeld'
    <2>1. /\ inUse \cap available = {}
          /\ Cardinality(inUse) + Cardinality(available) =< ConnectionLimit
          /\ IsFiniteSet(inUse) /\ IsFiniteSet(available)
      BY DEF PoolInv, ConnectionLimitHeld, FiniteInv
    <2>2. CASE c \in inUse
      <3>1. /\ Cardinality(inUse') = Cardinality(inUse) - 1
            /\ Cardinality(available') = Cardinality(available) + 1
            /\ Cardinality(inUse) \in Nat /\ Cardinality(available) \in Nat
        BY <1>3, <2>1, <2>2, Counting
      <3>2. inUse' \cap available' = {}
        BY <1>3, <2>1
      <3>3. Cardinality(inUse') + Cardinality(available') =< ConnectionLimit
        BY <3>1, <2>1, PoolAssumption
      <3>4. QED
        BY <3>2, <3>3 DEF ConnectionLimitHeld
    <2>3. CASE c \notin inUse
      <3>1. inUse' = inUse /\ available' = available
        BY <1>3, <2>3
      <3>2. QED
        BY <3>1, <2>1 DEF ConnectionLimitHeld
    <2>4. QED
      BY <2>2, <2>3
  <1>11. NoStrandedRequest'
    BY <1>3 DEF NoStrandedRequest
  <1>12. QED
    BY <1>4, <1>5, <1>6, <1>7, <1>9, <1>10, <1>11 DEF PoolInv

LEMMA SendPendingStep ==
  ASSUME PoolInv, NEW t \in threads, returnAndSendPending(t), ~isEmpty(pendingRequests)
  PROVE  PoolInv'
  <1>1. PICK c, p : c = t.ctx /\ p = polled(pendingRequests)
    OBVIOUS
  <1>2. /\ t.step = "return" /\ c \in Contexts /\ c # NoContext
    BY <1>1 DEF returnAndSendPending, PoolInv, TypeOK, Thread
  <1>3. p \in Requests /\ p # NoRequest /\ pc[p] = "queued"
    BY <1>1, PendingIsQueued
  <1>4. /\ pendingRequests' = poll(pendingRequests) /\ threads' = threads \ {t}
        /\ operation' = [operation EXCEPT ![c] = p]
        /\ socketContext' = [socketContext EXCEPT ![p] = c]
        /\ wire' = Written(p, c, channel[c]) /\ pc' = [pc EXCEPT ![p] = "sent"]
        /\ inUse' = inUse /\ available' = available /\ channel' = channel /\ held' = held
        /\ expired' = expired /\ answer' = answer
    BY <1>1, <1>3 DEF returnAndSendPending
  <1>5. /\ \A x \in Requests : pc'[x] = IF x = p THEN "sent" ELSE pc[x]
        /\ \A x \in Requests : socketContext'[x] = IF x = p THEN c ELSE socketContext[x]
        /\ \A d \in Contexts : operation'[d] = IF d = c THEN p ELSE operation[d]
    BY <1>2, <1>3, <1>4 DEF PoolInv, TypeOK
  <1>6. held[p] = NoContext /\ socketContext[p] = NoContext /\ ~expired[p]
    BY <1>3 DEF PoolInv, RequestInv, Sent
  <1>7. pendingRequests' \in Queue(Requests) /\ QueueInv'
    <2>1. \A x \in Requests \ {p} : pc[x] = "queued" => pc'[x] = "queued"
      BY <1>5
    <2>2. QED
      BY <1>1, <1>4, <2>1, QueuePolled
  <1>8. TypeOK'
    <2>1. wire' \in [Contexts -> Seq(Requests)]
      BY <1>2, <1>3, <1>4, WrittenType
    <2>2. QED
      BY <1>2, <1>3, <1>4, <1>7, <2>1 DEF PoolInv, TypeOK, Places
  <1>9. RequestInv'
    BY <1>2, <1>3, <1>4, <1>5, <1>6 DEF PoolInv, RequestInv, Sent
  <1>10. ChannelInv'
    BY <1>2, <1>3, <1>4, <1>5 DEF PoolInv, TypeOK, ChannelInv, Sent
  <1>11. ThreadInv'
    <2>1. \A u \in threads : u.req \in Requests
      BY DEF PoolInv, TypeOK, Thread
    <2>2. QED
      BY <2>1, <1>3, <1>4, <1>5, <1>6 DEF PoolInv, ThreadInv, Completed
  <1>12. InUseIsReturned'
    <2>1. SUFFICES ASSUME NEW d \in inUse
                   PROVE  \/ \E x \in Requests : \/ held[x] = d
                                                 \/ socketContext'[x] = d /\ pc'[x] = "sent"
                          \/ \E u \in threads' : \/ u.ctx = d
                                                 \/ u.step = "respond" /\ socketContext'[u.req] = d
      BY <1>4 DEF InUseIsReturned
    <2>2. d # NoContext
      BY PoolAssumption DEF PoolInv, TypeOK
    <2>3. CASE d = c
      BY <2>3, <1>3, <1>5
    <2>4. CASE d # c
      <3>1. \/ \E x \in Requests : held[x] = d \/ (socketContext[x] = d /\ pc[x] = "sent")
            \/ \E u \in threads : u.ctx = d \/ (u.step = "respond" /\ socketContext[u.req] = d)
        BY DEF PoolInv, InUseIsReturned
      <3>2. \A u \in threads : u.req \in Requests /\ (u # t => u \in threads')
        BY <1>4 DEF PoolInv, TypeOK, Thread
      <3>3. \A x \in Requests : socketContext[x] = d => x # p
        BY <2>2, <1>6
      <3>4. QED
        BY <3>1, <3>2, <3>3, <2>4, <1>1, <1>2, <1>5
    <2>5. QED
      BY <2>3, <2>4
  <1>13. Selecting' = Selecting
    BY <1>3, <1>5 DEF Selecting
  <1>14. FiniteInv' /\ ConnectionLimitHeld'
    BY <1>4, <1>13 DEF PoolInv, FiniteInv, ConnectionLimitHeld
  <1>15. NoStrandedRequest'
    BY <1>4, <1>13 DEF PoolInv, NoStrandedRequest, Selecting
  <1>16. QED
    BY <1>7, <1>8, <1>9, <1>10, <1>11, <1>12, <1>14, <1>15 DEF PoolInv

(* The second half of returnOrCloseDirect, on a channel that is closed: R  *)
(* is the pending request that reconnects, Q the operation that fails.     *)
LEMMA CloseAndReconnectStep ==
  ASSUME PoolInv, NEW t \in threads, closeAndReconnect(t)
  PROVE  PoolInv'
  <1>1. PICK c, R, Q : /\ c = t.ctx /\ R = Reconnecting
                       /\ Q = IF operation[c] # NoRequest /\ ~expired[operation[c]]
                                  /\ pc[operation[c]] = "sent"
                              THEN {operation[c]} ELSE {}
    OBVIOUS
  <1>2. /\ t.step = "return" /\ c \in Contexts /\ c # NoContext
    BY <1>1 DEF closeAndReconnect, PoolInv, TypeOK, Thread
  <1>3. /\ pendingRequests' = IF R = {} THEN pendingRequests ELSE poll(pendingRequests)
        /\ inUse' = inUse \ {c} /\ channel' = [channel EXCEPT ![c] = "closed"]
        /\ operation' = [operation EXCEPT ![c] = NoRequest] /\ wire' = [wire EXCEPT ![c] = <<>>]
        /\ pc' = [r \in Requests |-> IF r \in R THEN "selecting"
                                     ELSE IF r \in Q THEN "failed" ELSE pc[r]]
        /\ socketContext' = [r \in Requests |-> IF r \in Q THEN NoContext ELSE socketContext[r]]
        /\ threads' = (threads \ {t}) \cup {thread("check", r, c, FALSE, "failure") : r \in Q}
        /\ available' = available /\ held' = held /\ expired' = expired /\ answer' = answer
    BY <1>1 DEF closeAndReconnect
  <1>4. /\ R = {} <=> isEmpty(pendingRequests)
        /\ R # {} => R = {polled(pendingRequests)}
        /\ \A r \in R : r \in Requests /\ pc[r] = "queued"
    BY <1>1, PendingIsQueued DEF Reconnecting
  <1>5. \A r \in Q : r \in Requests /\ pc[r] = "sent" /\ socketContext[r] = c
    BY <1>1, <1>2 DEF PoolInv, TypeOK, ChannelInv
  <1>6. /\ \A x \in Requests : pc'[x] = IF x \in R THEN "selecting"
                                        ELSE IF x \in Q THEN "failed" ELSE pc[x]
        /\ \A x \in Requests : socketContext'[x] = IF x \in Q THEN NoContext ELSE socketContext[x]
        /\ \A d \in Contexts : operation'[d] = IF d = c THEN NoRequest ELSE operation[d]
    BY <1>2, <1>3 DEF PoolInv, TypeOK
  <1>7. \A u \in threads' \ threads : u \in Thread /\ u.step = "check" /\ u.ctx = c
    <2>1. SUFFICES ASSUME NEW u \in threads', u \notin threads
                   PROVE  u \in Thread /\ u.step = "check" /\ u.ctx = c
      OBVIOUS
    <2>2. PICK r \in Q : u = thread("check", r, c, FALSE, "failure")
      BY <2>1, <1>3
    <2>3. r \in Requests
      BY <1>5
    <2>4. QED
      BY <2>2, <2>3, <1>2 DEF thread, Thread
  <1>8. pendingRequests' \in Queue(Requests) /\ QueueInv'
    <2>1. CASE R = {}
      <3>1. \A x \in Requests : pc[x] = "queued" => pc'[x] = "queued"
        BY <1>5, <1>6, <2>1
      <3>2. QED
        BY <2>1, <3>1, <1>3, QueueKept DEF PoolInv, TypeOK
    <2>2. CASE R # {}
      <3>1. /\ ~isEmpty(pendingRequests) /\ pendingRequests' = poll(pendingRequests)
            /\ R = {polled(pendingRequests)}
        BY <2>2, <1>3, <1>4
      <3>2. \A x \in Requests \ {polled(pendingRequests)} : pc[x] = "queued" => pc'[x] = "queued"
        BY <3>1, <1>5, <1>6
      <3>3. QED
        BY <3>1, <3>2, QueuePolled
    <2>3. QED
      BY <2>1, <2>2
  <1>9. TypeOK'
    <2>1. wire' \in [Contexts -> Seq(Requests)]
      <3>1. <<>> \in Seq(Requests)
        OBVIOUS
      <3>2. QED
        BY <1>3, <3>1 DEF PoolInv, TypeOK
    <2>2. threads' \subseteq Thread /\ \A u \in threads' : u.step = "respond" \/ u.ctx # NoContext
      BY <1>2, <1>3, <1>7 DEF PoolInv, TypeOK
    <2>3. pc' \in [Requests -> Places] /\ socketContext' \in [Requests -> Contexts \cup {NoContext}]
      BY <1>3 DEF PoolInv, TypeOK, Places
    <2>4. operation' \in [Contexts -> Requests \cup {NoRequest}]
          /\ channel' \in [Contexts -> {"connecting", "open", "closed"}]
          /\ inUse' \subseteq Contexts
      BY <1>3 DEF PoolInv, TypeOK
    <2>5. QED
      BY <1>3, <1>8, <2>1, <2>2, <2>3, <2>4 DEF PoolInv, TypeOK
  <1>10. RequestInv'
    BY <1>3, <1>4, <1>5, <1>6 DEF PoolInv, RequestInv, Sent
  <1>11. ChannelInv'
    BY <1>2, <1>3, <1>4, <1>5, <1>6 DEF PoolInv, TypeOK, ChannelInv, Sent
  <1>12. ThreadInv'
    <2>1. \A u \in threads : u.req \in Requests
      BY DEF PoolInv, TypeOK, Thread
    <2>2. \A x \in Requests : pc[x] \in Completed => pc'[x] \in Completed
      BY <1>4, <1>5, <1>6 DEF Completed
    <2>3. \A u \in threads' : u \in threads \/ u.step = "check"
      BY <1>7
    <2>4. QED
      BY <2>1, <2>2, <2>3, <1>3, <1>6 DEF PoolInv, ThreadInv
  <1>13. InUseIsReturned'
    <2>1. SUFFICES ASSUME NEW d \in inUse, d # c
                   PROVE  \/ \E x \in Requests : \/ held[x] = d
                                                 \/ socketContext'[x] = d /\ pc'[x] = "sent"
                          \/ \E u \in threads' : \/ u.ctx = d
                                                 \/ u.step = "respond" /\ socketContext'[u.req] = d
      BY <1>3 DEF InUseIsReturned
    <2>2. \/ \E x \in Requests : held[x] = d \/ (socketContext[x] = d /\ pc[x] = "sent")
          \/ \E u \in threads : u.ctx = d \/ (u.step = "respond" /\ socketContext[u.req] = d)
      BY DEF PoolInv, InUseIsReturned
    <2>3. \A u \in threads : u.req \in Requests /\ (u # t => u \in threads')
      BY <1>3 DEF PoolInv, TypeOK, Thread
    <2>4. \A x \in Requests : socketContext[x] = d => /\ socketContext'[x] = d
                                                      /\ pc[x] = "sent" => pc'[x] = "sent"
      BY <2>1, <1>4, <1>5, <1>6
    <2>5. QED
      BY <2>1, <2>2, <2>3, <2>4, <1>1, <1>2
  <1>14. Selecting' = Selecting \cup R
    <2>1. \A x \in Requests : pc'[x] = "selecting" <=> (pc[x] = "selecting" \/ x \in R)
      BY <1>4, <1>5, <1>6
    <2>2. QED
      BY <2>1, <1>4 DEF Selecting
  <1>15. IsFiniteSet(inUse) /\ IsFiniteSet(available) /\ IsFiniteSet(Selecting)
    BY DEF PoolInv, FiniteInv
  <1>16. /\ IsFiniteSet(inUse') /\ Cardinality(inUse) \in Nat /\ Cardinality(inUse') \in Nat
         /\ Cardinality(inUse') =< Cardinality(inUse) /\ Cardinality(inUse') >= Cardinality(inUse) - 1
    <2>1. /\ IsFiniteSet(inUse') /\ Cardinality(inUse) \in Nat
          /\ Cardinality(inUse') \in {Cardinality(inUse), Cardinality(inUse) - 1}
      BY <1>3, <1>15, Counting
    <2>2. Cardinality(inUse') \in Nat
      BY <2>1, FS_CardinalityType
    <2>3. QED
      BY <2>1, <2>2
  <1>17. /\ IsFiniteSet(Selecting') /\ Cardinality(Selecting) \in Nat
         /\ R # {} => Cardinality(Selecting') = Cardinality(Selecting) + 1
    <2>1. CASE R = {}
      BY <2>1, <1>14, <1>15, FS_CardinalityType
    <2>2. CASE R # {}
      <3>1. PICK p : R = {p} /\ p \in Requests /\ pc[p] = "queued"
        BY <2>2, <1>4
      <3>2. p \notin Selecting /\ Selecting' = Selecting \cup {p}
        BY <3>1, <1>14 DEF Selecting
      <3>3. QED
        BY <3>2, <1>15, Counting
    <2>3. QED
      BY <2>1, <2>2
  <1>18. FiniteInv'
    BY <1>3, <1>15, <1>16, <1>17 DEF FiniteInv
  <1>19. ConnectionLimitHeld'
    <2>1. /\ inUse \cap available = {} /\ Cardinality(available) \in Nat
          /\ Cardinality(inUse) + Cardinality(available) =< ConnectionLimit
      BY <1>15, FS_CardinalityType DEF PoolInv, ConnectionLimitHeld
    <2>2. Cardinality(inUse') + Cardinality(available) =< ConnectionLimit
      BY <2>1, <1>16, PoolAssumption
    <2>3. QED
      BY <2>1, <2>2, <1>3 DEF ConnectionLimitHeld
  <1>20. NoStrandedRequest'
    <2>1. CASE R = {}
      <3>1. isEmpty(pendingRequests)'
        BY <2>1, <1>3, <1>4
      <3>2. QED
        BY <3>1 DEF NoStrandedRequest
    <2>2. CASE R # {}
      <3>1. available = {} /\ Cardinality(inUse) + Cardinality(Selecting) >= ConnectionLimit
        BY <2>2, <1>4 DEF PoolInv, NoStrandedRequest, Selecting
      <3>2. Cardinality(inUse') + Cardinality(Selecting') >= ConnectionLimit
        BY <2>2, <3>1, <1>16, <1>17, PoolAssumption
      <3>3. QED
        BY <3>1, <3>2, <1>3 DEF NoStrandedRequest, Selecting
    <2>3. QED
      BY <2>1, <2>2
  <1>21. QED
    BY <1>8, <1>9, <1>10, <1>11, <1>12, <1>13, <1>18, <1>19, <1>20 DEF PoolInv

-----------------------------------------------------------------------------
(* The invariant of every state.                                           *)
LEMMA PoolNext == PoolInv /\ [Next]_vars => PoolInv'
  <1> SUFFICES ASSUME PoolInv, [Next]_vars
               PROVE  PoolInv'
    OBVIOUS
  <1>1. ASSUME NEW r \in Requests, sendRemote(r)
        PROVE  PoolInv'
    BY <1>1, SendRemoteStep
  <1>2. ASSUME NEW r \in Requests, Select(r)
        PROVE  PoolInv'
    BY <1>2, ReuseAvailableStep, CreateContextStep, ReplaceBadStep, QueuePendingStep DEF Select
  <1>3. ASSUME NEW r \in Requests, Connect(r)
        PROVE  PoolInv'
    BY <1>3, SendOnReusedStep, ConnectSuccessStep, ConnectFailureStep DEF Connect
  <1>4. ASSUME NEW r \in Requests, requestFailure(r) \/ failExpiredRequests(r)
        PROVE  PoolInv'
    BY <1>4, RequestFailureStep, FailExpiredStep
  <1>5. ASSUME NEW c \in Contexts,
               channelRead(c) \/ channelInactive(c) \/ closeIdleChannelContext(c)
        PROVE  PoolInv'
    BY <1>5, ChannelReadStep, ChannelInactiveStep, CloseIdleStep
  <1>6. ASSUME NEW t \in threads, Continue(t)
        PROVE  PoolInv'
    BY <1>6, ReturnAfterResponseStep, ReturnAfterExpiryStep, CheckChannelStep, ReturnIdleStep,
       SendPendingStep, CloseAndReconnectStep DEF Continue
  <1>7. CASE UNCHANGED vars
    BY <1>7 DEF vars, group, channels, client, PoolInv, TypeOK, QueueInv, store, RequestInv,
       ChannelInv, ThreadInv, FiniteInv, Selecting, ConnectionLimitHeld, NoStrandedRequest,
       InUseIsReturned
  <1>8. CASE Quiescent
    BY <1>7, <1>8 DEF Quiescent
  <1>9. QED
    BY <1>1, <1>2, <1>3, <1>4, <1>5, <1>6, <1>7, <1>8 DEF Next

LEMMA PoolInvariant == Spec => []PoolInv
  BY PoolInit, PoolNext, PTL DEF Spec

(* Every variable keeps its type: a context that a thread returns is never *)
(* null, whatever answers, fails and expires at the same time.             *)
THEOREM TypeCorrect == Spec => []TypeOK
  <1>1. PoolInv => TypeOK
    BY DEF PoolInv
  <1>2. QED
    BY <1>1, PoolInvariant, PTL

(* selectHttp11Context and returnOrCloseDirect keep the contexts in use    *)
(* and the available ones apart and, together, within the limit.           *)
THEOREM LimitHeld == Spec => []ConnectionLimitHeld
  <1>1. PoolInv => ConnectionLimitHeld
    BY DEF PoolInv
  <1>2. QED
    BY <1>1, PoolInvariant, PTL

(* No wake-up is lost: while requests are pending, the contexts in use and *)
(* the requests that select one make up the limit, so that a return to     *)
(* come gives the first of them its turn.                                  *)
THEOREM NoneStranded == Spec => []NoStrandedRequest
  <1>1. PoolInv => NoStrandedRequest
    BY DEF PoolInv
  <1>2. QED
    BY <1>1, PoolInvariant, PTL

(* No connection leaks: what counts as in use is held by a request or will *)
(* be returned by a thread that is under way.                              *)
THEOREM NoLeak == Spec => []InUseIsReturned
  <1>1. PoolInv => InUseIsReturned
    BY DEF PoolInv
  <1>2. QED
    BY <1>1, PoolInvariant, PTL

-----------------------------------------------------------------------------
(* Without a race, a response completes the request it answers.            *)
LEMMA UnracedInit == Init => UnracedInv
  <1> SUFFICES ASSUME Init
               PROVE  UnracedInv
    OBVIOUS
  <1>1. \A c \in Contexts : c # NoContext
    BY PoolAssumption
  <1>2. \A c \in Contexts : SoleAt(c) /\ WireAt(c)
    BY <1>1 DEF Init, SoleAt, WireAt
  <1>3. QED
    BY <1>2 DEF Init, UnracedInv, OwnResponse

(* A context that a step gives to nobody and whose channel it leaves alone. *)
LEMMA OtherContext ==
  ASSUME NEW d, SoleAt(d), WireAt(d),
         operation'[d] = operation[d], wire'[d] = wire[d],
         d \in available' => d \in available,
         \A r \in Requests : held'[r] = d => held[r] = d,
         \A r \in Requests : socketContext'[r] = d =>
            socketContext[r] = d /\ (pc[r] = "sent" => pc'[r] = "sent"),
         \A t \in threads' : t.ctx = d => t \in threads
  PROVE  SoleAt(d)' /\ WireAt(d)'
  <1>1. /\ Quiet(d) => Quiet(d)'
        /\ \A r : Awaits(d, r) => Awaits(d, r)'
    BY DEF Quiet, Awaits
  <1>2. SoleAt(d)'
    BY DEF SoleAt
  <1>3. WireAt(d)'
    BY <1>1 DEF WireAt
  <1>4. QED
    BY <1>2, <1>3

LEMMA ContextsAndNull == \A c \in Contexts : c # NoContext
  BY PoolAssumption

(* Steps that neither move a context nor read or write a channel.          *)
LEMMA UnracedKept ==
  ASSUME PoolInv, UnracedInv, available' \subseteq available,
         operation' = operation, wire' = wire, held' = held, socketContext' = socketContext,
         answer' = answer, threads' \subseteq threads,
         \A r \in Requests : pc[r] = "sent" => pc'[r] = "sent"
  PROVE  UnracedInv'
  <1>1. ASSUME NEW d \in Contexts
        PROVE  SoleAt(d)' /\ WireAt(d)'
    <2>1. SoleAt(d) /\ WireAt(d)
      BY DEF UnracedInv
    <2>2. QED
      BY <2>1, OtherContext
  <1>2. QED
    BY <1>1 DEF UnracedInv, OwnResponse

(* Selection: an available context or a new one becomes that of a request. *)
LEMMA UnracedReuse ==
  ASSUME PoolInv, UnracedInv, NEW r \in Requests, NEW c \in Contexts, reuseAvailable(r, c)
  PROVE  UnracedInv'
  <1>1. /\ c \in available /\ available' = available \ {c}
        /\ held' = [held EXCEPT ![r] = c] /\ pc' = [pc EXCEPT ![r] = "holding"]
        /\ pc[r] = "selecting" /\ operation' = operation /\ wire' = wire
        /\ socketContext' = socketContext /\ expired' = expired /\ answer' = answer
        /\ threads' = threads
    BY DEF reuseAvailable, channels
  <1>2. /\ \A x \in Requests : held'[x] = IF x = r THEN c ELSE held[x]
        /\ \A x \in Requests : pc'[x] = IF x = r THEN "holding" ELSE pc[x]
    BY <1>1 DEF PoolInv, TypeOK
  <1>3. ASSUME NEW d \in Contexts
        PROVE  SoleAt(d)' /\ WireAt(d)'
    <2>1. SoleAt(d) /\ WireAt(d)
      BY DEF UnracedInv
    <2>2. CASE d # c
      BY <2>1, <2>2, <1>1, <1>2, OtherContext
    <2>3. CASE d = c
      <3>1. SoleAt(d)'
        BY <2>1, <2>3, <1>1, <1>2 DEF SoleAt
      <3>2. Quiet(d)'
        BY <2>1, <2>3, <1>1 DEF WireAt, Quiet
      <3>3. WireAt(d)'
        BY <3>2 DEF WireAt
      <3>4. QED
        BY <3>1, <3>3
    <2>4. QED
      BY <2>2, <2>3
  <1>4. QED
    BY <1>1, <1>3 DEF UnracedInv, OwnResponse

(* A new context d, and the one it replaces, if any.                       *)
LEMMA UnracedNew ==
  ASSUME PoolInv, UnracedInv, NEW r \in Requests, NEW d \in Contexts, pc[r] = "selecting",
         d \in Unreferenced, NewContext(r, d), available' \subseteq available,
         socketContext' = socketContext, expired' = expired, answer' = answer,
         \A u \in threads' \ threads :
            /\ u.step = "check" /\ u.close
            /\ u.ctx \in available /\ u.ctx \notin available'
            /\ \A v \in threads' \ threads : v = u
  PROVE  UnracedInv'
  <1>1. /\ operation' = [operation EXCEPT ![d] = NoRequest]
        /\ wire' = [wire EXCEPT ![d] = <<>>]
        /\ held' = [held EXCEPT ![r] = d] /\ pc' = [pc EXCEPT ![r] = "holding"]
    BY DEF NewContext
  <1>2. /\ d \notin available /\ \A x \in Requests : held[x] # d /\ socketContext[x] # d
        /\ \A u \in threads : u.ctx # d
    BY DEF Unreferenced
  <1>3. /\ \A x \in Requests : held'[x] = IF x = r THEN d ELSE held[x]
        /\ \A x \in Requests : pc'[x] = IF x = r THEN "holding" ELSE pc[x]
        /\ \A e \in Contexts : operation'[e] = IF e = d THEN NoRequest ELSE operation[e]
        /\ \A e \in Contexts : wire'[e] = IF e = d THEN <<>> ELSE wire[e]
    BY <1>1 DEF PoolInv, TypeOK
  <1>4. ASSUME NEW e \in Contexts
        PROVE  SoleAt(e)' /\ WireAt(e)'
    <2>1. SoleAt(e) /\ WireAt(e)
      BY DEF UnracedInv
    <2>2. CASE e = d
      <3>1. SoleAt(e)'
        BY <2>2, <1>2, <1>3 DEF SoleAt
      <3>2. Quiet(e)'
        BY <2>2, <1>3 DEF Quiet
      <3>3. WireAt(e)'
        BY <3>2 DEF WireAt
      <3>4. QED
        BY <3>1, <3>3
    <2>3. CASE e # d /\ ~ \E u \in threads' \ threads : u.ctx = e
      BY <2>1, <2>3, <1>3, OtherContext
    <2>4. CASE e # d /\ \E u \in threads' \ threads : u.ctx = e
      <3>1. PICK u \in threads' : u \notin threads /\ u.ctx = e
        BY <2>4
      <3>2. /\ e \in available /\ e \notin available' /\ u.close
            /\ \A v \in threads' : v \in threads \/ v = u
        BY <3>1
      <3>3. /\ \A x \in Requests : held[x] # e /\ socketContext[x] # e
            /\ \A v \in threads : v.ctx # e
        BY <2>1, <3>2 DEF SoleAt
      <3>4. /\ \A x \in Requests : held'[x] # e /\ socketContext'[x] # e
            /\ \A v \in threads' : v.ctx = e => v = u
        BY <2>4, <3>2, <3>3, <1>3
      <3>5. SoleAt(e)'
        BY <3>2, <3>4 DEF SoleAt
      <3>6. WireAt(e)'
        BY <3>2, <3>4 DEF WireAt
      <3>7. QED
        BY <3>5, <3>6
    <2>5. QED
      BY <2>2, <2>3, <2>4
  <1>5. QED
    BY <1>4 DEF UnracedInv, OwnResponse

LEMMA UnracedReplaceBad ==
  ASSUME PoolInv, UnracedInv, NEW r \in Requests, NEW c \in Contexts, NEW d \in Contexts,
         replaceBad(r, c, d)
  PROVE  UnracedInv'
  <1>1. PICK t0 : t0 = thread("check", r, c, TRUE, "replacement")
    OBVIOUS
  <1>2. /\ pc[r] = "selecting" /\ c \in available /\ d \in Unreferenced
        /\ available' = available \ {c} /\ NewContext(r, d) /\ threads' = threads \cup {t0}
        /\ socketContext' = socketContext /\ expired' = expired /\ answer' = answer
    BY <1>1 DEF replaceBad
  <1>3. t0.step = "check" /\ t0.ctx = c /\ t0.close
    BY <1>1 DEF thread
  <1>4. QED
    BY <1>2, <1>3, UnracedNew

LEMMA UnracedCreate ==
  ASSUME PoolInv, UnracedInv, NEW r \in Requests, NEW c \in Contexts, createContext(r, c)
  PROVE  UnracedInv'
  BY UnracedNew DEF createContext

(* Sending: c is that of nobody else and its channel is quiet.             *)
LEMMA UnracedSend ==
  ASSUME PoolInv, UnracedInv, NEW r \in Requests, NEW c \in Contexts, NEW state,
         SoleAt(c), Quiet(c), c \notin available,
         \A x \in Requests : socketContext[x] # c /\ (x # r => held[x] # c),
         \A u \in threads' : u \in threads /\ u.ctx # c,
         available' = available, operation' = [operation EXCEPT ![c] = r],
         socketContext' = [socketContext EXCEPT ![r] = c], wire' = Written(r, c, state),
         pc' = [pc EXCEPT ![r] = "sent"], held' = [held EXCEPT ![r] = NoContext],
         expired' = expired, answer' = answer
  PROVE  UnracedInv'
  <1>1. /\ \A x \in Requests : pc'[x] = IF x = r THEN "sent" ELSE pc[x]
        /\ \A x \in Requests : held'[x] = IF x = r THEN NoContext ELSE held[x]
        /\ \A x \in Requests : socketContext'[x] = IF x = r THEN c ELSE socketContext[x]
        /\ \A d \in Contexts : operation'[d] = IF d = c THEN r ELSE operation[d]
    BY DEF PoolInv, TypeOK
  <1>2. /\ wire'[c] = IF state = "open" THEN Append(wire[c], r) ELSE wire[c]
        /\ \A d \in Contexts \ {c} : wire'[d] = wire[d]
    BY WrittenType
  <1>3. Awaits(c, r)'
    <2>1. wire[c] = <<>>
      BY DEF Quiet
    <2>2. Append(<<>>, r) = <<r>>
      OBVIOUS
    <2>3. wire'[c] \in {<<>>, <<r>>}
      BY <1>2, <2>1, <2>2
    <2>4. QED
      BY <2>3, <1>1 DEF Awaits
  <1>4. ASSUME NEW d \in Contexts
        PROVE  SoleAt(d)' /\ WireAt(d)'
    <2>1. SoleAt(d) /\ WireAt(d) /\ d # NoContext
      BY ContextsAndNull DEF UnracedInv
    <2>2. CASE d # c
      <3>1. /\ \A x \in Requests : held'[x] = d => held[x] = d
            /\ \A x \in Requests : socketContext'[x] = d =>
                socketContext[x] = d /\ (pc[x] = "sent" => pc'[x] = "sent")
        BY <2>1, <2>2, <1>1
      <3>2. operation'[d] = operation[d] /\ wire'[d] = wire[d]
        BY <2>2, <1>1, <1>2
      <3>3. QED
        BY <2>1, <3>1, <3>2, OtherContext
    <2>3. CASE d = c
      <3>1. \A x \in Requests : held'[x] # d /\ (socketContext'[x] = d => x = r)
        BY <2>1, <2>3, <1>1
      <3>2. SoleAt(d)'
        BY <3>1, <2>3 DEF SoleAt
      <3>3. WireAt(d)'
        BY <3>1, <2>3, <1>1, <1>3 DEF WireAt
      <3>4. QED
        BY <3>2, <3>3
    <2>4. QED
      BY <2>2, <2>3
  <1>5. QED
    BY <1>4 DEF UnracedInv, OwnResponse

LEMMA UnracedConnect ==
  ASSUME PoolInv, UnracedInv, NEW r \in Requests, sendOnReused(r) \/ connectSuccess(r)
  PROVE  UnracedInv'
  <1>1. PICK c : c = held[r]
    OBVIOUS
  <1>2. PICK state : wire' = Written(r, c, state)
    BY <1>1 DEF sendOnReused, connectSuccess
  <1>3. /\ pc[r] = "holding" /\ operation' = [operation EXCEPT ![c] = r]
        /\ socketContext' = [socketContext EXCEPT ![r] = c]
        /\ pc' = [pc EXCEPT ![r] = "sent"] /\ held' = [held EXCEPT ![r] = NoContext]
        /\ available' = available /\ expired' = expired /\ answer' = answer /\ threads' = threads
    BY <1>1 DEF sendOnReused, connectSuccess, group
  <1>4. c \in Contexts /\ c # NoContext
    BY <1>1, <1>3, HeldContext
  <1>5. SoleAt(c) /\ WireAt(c)
    BY <1>4 DEF UnracedInv
  <1>6. Quiet(c)
    BY <1>1, <1>5 DEF WireAt
  <1>7. /\ c \notin available
        /\ \A x \in Requests : socketContext[x] # c /\ (x # r => held[x] # c)
        /\ \A u \in threads : u.ctx # c
    BY <1>1, <1>5 DEF SoleAt
  <1>8. QED
    BY <1>2, <1>3, <1>4, <1>5, <1>6, <1>7, UnracedSend

LEMMA UnracedConnectFailure ==
  ASSUME PoolInv, UnracedInv, NEW r \in Requests, connectFailure(r)
  PROVE  UnracedInv'
  <1>1. PICK c, t0 : c = held[r] /\ t0 = thread("return", r, c, TRUE, "failure")
    OBVIOUS
  <1>2. /\ pc[r] = "holding" /\ threads' = threads \cup {t0}
        /\ pc' = [pc EXCEPT ![r] = "failed"] /\ held' = [held EXCEPT ![r] = NoContext]
        /\ available' = available /\ operation' = operation /\ wire' = wire
        /\ socketContext' = socketContext /\ expired' = expired /\ answer' = answer
    BY <1>1 DEF connectFailure, group, channels
  <1>3. t0.step = "return" /\ t0.ctx = c /\ t0.close
    BY <1>1 DEF thread
  <1>4. /\ \A x \in Requests : pc'[x] = IF x = r THEN "failed" ELSE pc[x]
        /\ \A x \in Requests : held'[x] = IF x = r THEN NoContext ELSE held[x]
        /\ c \in Contexts /\ c # NoContext /\ socketContext[r] = NoContext
    BY <1>1, <1>2, HeldContext DEF PoolInv, TypeOK
  <1>5. ASSUME NEW d \in Contexts
        PROVE  SoleAt(d)' /\ WireAt(d)'
    <2>1. SoleAt(d) /\ WireAt(d) /\ d # NoContext
      BY ContextsAndNull DEF UnracedInv
    <2>2. CASE d # c
      <3>1. /\ \A x \in Requests : held'[x] = d => held[x] = d
            /\ \A x \in Requests : socketContext'[x] = d =>
                socketContext[x] = d /\ (pc[x] = "sent" => pc'[x] = "sent")
            /\ \A u \in threads' : u.ctx = d => u \in threads
        BY <2>1, <2>2, <1>2, <1>3, <1>4
      <3>2. QED
        BY <2>1, <3>1, <1>2, OtherContext
    <2>3. CASE d = c
      <3>1. /\ \A x \in Requests : held'[x] # d /\ socketContext'[x] # d
            /\ d \notin available' /\ \A u \in threads' : u.ctx = d => u = t0
        BY <2>1, <2>3, <1>1, <1>2, <1>4 DEF SoleAt
      <3>2. SoleAt(d)'
        BY <3>1 DEF SoleAt
      <3>3. WireAt(d)'
        BY <3>1, <1>3 DEF WireAt
      <3>4. QED
        BY <3>2, <3>3
    <2>4. QED
      BY <2>2, <2>3
  <1>6. QED
    BY <1>2, <1>3, <1>5 DEF UnracedInv, OwnResponse

(* Until a request expires no thread has its context.                      *)
LEMMA NoThreadAt ==
  ASSUME PoolInv, UnracedInv, NEW r \in Requests, ~expired[r],
         NEW c \in Contexts, c = socketContext[r]
  PROVE  \A u \in threads : u.ctx # c
  <1>1. SUFFICES ASSUME NEW u \in threads, u.ctx = c
                 PROVE  FALSE
    OBVIOUS
  <1>2. u.step = "expire" /\ u.req = r
    BY <1>1 DEF UnracedInv, SoleAt
  <1>3. QED
    BY <1>1, <1>2 DEF PoolInv, ThreadInv

(* NettyHttpServiceClient.fail: the context of r passes to a thread.       *)
LEMMA UnracedFail ==
  ASSUME PoolInv, UnracedInv, NEW r \in Requests, NEW c, c = socketContext[r], pc[r] = "sent",
         ~expired[r], FailAndReturn(r), Quiet(c)' \/ Awaits(c, r)',
         \A d \in Contexts \ {c} : operation'[d] = operation[d] /\ wire'[d] = wire[d],
         available' = available, held' = held, OwnResponse'
  PROVE  UnracedInv'
  <1>1. PICK t0 : t0 = thread("check", r, c, FALSE, "failure")
    OBVIOUS
  <1>2. /\ pc' = [pc EXCEPT ![r] = "failed"]
        /\ socketContext' = [socketContext EXCEPT ![r] = NoContext]
        /\ threads' = threads \cup {t0}
    BY <1>1 DEF FailAndReturn
  <1>3. t0.step = "check" /\ t0.ctx = c /\ t0.req = r
    BY <1>1 DEF thread
  <1>4. /\ \A x \in Requests : pc'[x] = IF x = r THEN "failed" ELSE pc[x]
        /\ \A x \in Requests : socketContext'[x] = IF x = r THEN NoContext ELSE socketContext[x]
    BY <1>2 DEF PoolInv, TypeOK
  <1>5. ASSUME NEW d \in Contexts
        PROVE  SoleAt(d)' /\ WireAt(d)'
    <2>1. SoleAt(d) /\ WireAt(d) /\ d # NoContext
      BY ContextsAndNull DEF UnracedInv
    <2>2. CASE d # c
      <3>1. /\ \A x \in Requests : socketContext'[x] = d =>
                socketContext[x] = d /\ (pc[x] = "sent" => pc'[x] = "sent")
            /\ \A u \in threads' : u.ctx = d => u \in threads
        BY <2>1, <2>2, <1>2, <1>3, <1>4
      <3>2. QED
        BY <2>1, <2>2, <3>1, OtherContext
    <2>3. CASE d = c
      <3>1. /\ \A x \in Requests : held'[x] # d /\ socketContext'[x] # d
            /\ d \notin available' /\ \A u \in threads' : u.ctx = d => u = t0
        BY <2>1, <2>3, <1>2, <1>4, NoThreadAt DEF SoleAt
      <3>2. SoleAt(d)'
        BY <3>1 DEF SoleAt
      <3>3. WireAt(d)'
        BY <2>3, <3>1, <1>3 DEF WireAt
      <3>4. QED
        BY <3>2, <3>3
    <2>4. QED
      BY <2>2, <2>3
  <1>6. QED
    BY <1>2, <1>3, <1>5 DEF UnracedInv

LEMMA UnracedRequestFailure ==
  ASSUME PoolInv, UnracedInv, NEW r \in Requests, requestFailure(r)
  PROVE  UnracedInv'
  <1>1. PICK c : c = socketContext[r]
    OBVIOUS
  <1>2. PICK left \in {NoRequest, r} : operation' = [operation EXCEPT ![c] = left]
    BY <1>1 DEF requestFailure
  <1>3. /\ pc[r] = "sent" /\ ~expired[r] /\ operation[c] = r /\ FailAndReturn(r)
        /\ wire' = [wire EXCEPT ![c] = Unanswered(wire[c], r)]
        /\ available' = available /\ held' = held /\ answer' = answer
    BY <1>1 DEF requestFailure, group
  <1>4. c \in Contexts /\ r # NoRequest
    BY <1>1, <1>3, PoolAssumption DEF PoolInv, TypeOK, RequestInv
  <1>5. /\ operation'[c] = left /\ wire'[c] = Unanswered(wire[c], r) /\ wire[c] \in Seq(Requests)
        /\ \A d \in Contexts \ {c} : operation'[d] = operation[d] /\ wire'[d] = wire[d]
    BY <1>2, <1>3, <1>4 DEF PoolInv, TypeOK
  <1>6. wire[c] \in {<<>>, <<r>>}
    BY <1>1, <1>3, <1>4 DEF UnracedInv, WireAt, Quiet, Awaits
  <1>7. wire'[c] = <<>>
    BY <1>5, <1>6, UnansweredFacts
  <1>8. Quiet(c)' \/ Awaits(c, r)'
    BY <1>5, <1>7 DEF Quiet, Awaits
  <1>9. OwnResponse'
    BY <1>3 DEF UnracedInv, OwnResponse
  <1>10. QED
    BY <1>1, <1>3, <1>5, <1>8, <1>9, UnracedFail

LEMMA UnracedExpiry ==
  ASSUME PoolInv, UnracedInv, NEW r \in Requests, failExpiredRequests(r)
  PROVE  UnracedInv'
  <1>1. PICK c, t0 : c = socketContext[r] /\ t0 = thread("expire", r, c, FALSE, "failure")
    OBVIOUS
  <1>2. /\ pc[r] = "sent" /\ ~expired[r] /\ operation' = operation /\ wire' = wire
        /\ available' = available /\ held' = held /\ answer' = answer /\ pc' = pc
        /\ socketContext' = socketContext /\ threads' = threads \cup {t0}
    BY <1>1 DEF failExpiredRequests, group, channels
  <1>3. c \in Contexts /\ t0.step = "expire" /\ t0.ctx = c /\ t0.req = r
    BY <1>1, <1>2 DEF thread, PoolInv, TypeOK, RequestInv
  <1>4. ASSUME NEW d \in Contexts
        PROVE  SoleAt(d)' /\ WireAt(d)'
    <2>1. SoleAt(d) /\ WireAt(d)
      BY DEF UnracedInv
    <2>2. CASE d # c
      <3>1. \A u \in threads' : u.ctx = d => u \in threads
        BY <2>2, <1>2, <1>3
      <3>2. QED
        BY <2>1, <3>1, <1>2, OtherContext
    <2>3. CASE d = c
      <3>1. /\ \A u \in threads' : u.ctx = d => u = t0
            /\ d \notin available /\ \A x \in Requests : held[x] # d
            /\ \A x \in Requests : socketContext[x] = d => x = r
        BY <2>1, <2>3, <1>1, <1>2, <1>3, NoThreadAt DEF SoleAt
      <3>2. SoleAt(d)'
        BY <3>1, <1>2, <1>3 DEF SoleAt
      <3>3. Quiet(d) \/ Awaits(d, r)
        BY <2>1, <2>3, <1>1 DEF WireAt
      <3>4. Quiet(d)' \/ Awaits(d, r)'
        BY <3>3, <1>2 DEF Quiet, Awaits
      <3>5. WireAt(d)'
        BY <3>1, <3>4, <1>2, <1>3 DEF WireAt
      <3>6. QED
        BY <3>2, <3>5
    <2>4. QED
      BY <2>2, <2>3
  <1>5. QED
    BY <1>2, <1>4 DEF UnracedInv, OwnResponse

LEMMA UnracedReturnAfterExpiry ==
  ASSUME PoolInv, UnracedInv, NEW t \in threads, returnAfterExpiry(t)
  PROVE  UnracedInv'
  <1>1. PICK r, c, t1 : r = t.req /\ c = t.ctx /\ t1 = [t EXCEPT !.step = "check"]
    OBVIOUS
  <1>2. /\ t.step = "expire" /\ t \in Thread /\ r \in Requests /\ c # NoContext
        /\ c \in Contexts
    BY <1>1 DEF returnAfterExpiry, PoolInv, TypeOK, Thread
  <1>3. /\ threads' = (threads \ {t}) \cup {t1}
        /\ pc' = [pc EXCEPT ![r] = IF @ = "sent" THEN "failed" ELSE @]
        /\ socketContext' = [socketContext EXCEPT ![r] = NoContext]
        /\ available' = available /\ operation' = operation /\ wire' = wire
        /\ held' = held /\ answer' = answer
    BY <1>1 DEF returnAfterExpiry, group, channels
  <1>4. /\ \A x \in Requests : socketContext'[x] = IF x = r THEN NoContext ELSE socketContext[x]
        /\ \A x \in Requests \ {r} : pc'[x] = pc[x]
    BY <1>3 DEF PoolInv, TypeOK
  <1>5. t1.step = "check" /\ t1.ctx = c /\ t1.req = r /\ t1.close = t.close
    BY <1>1, <1>2 DEF Thread
  <1>6. ASSUME NEW d \in Contexts
        PROVE  SoleAt(d)' /\ WireAt(d)'
    <2>1. SoleAt(d) /\ WireAt(d) /\ d # NoContext
      BY ContextsAndNull DEF UnracedInv
    <2>2. CASE d # c
      <3>1. /\ \A x \in Requests : socketContext'[x] = d =>
                    socketContext[x] = d /\ (pc[x] = "sent" => pc'[x] = "sent")
            /\ \A u \in threads' : u.ctx = d => u \in threads
        BY <2>1, <2>2, <1>3, <1>4, <1>5
      <3>2. QED
        BY <2>1, <2>2, <3>1, <1>3, OtherContext
    <2>3. CASE d = c
      <3>1. \A x \in Requests : held[x] # d /\ (socketContext[x] = d => x = r)
        BY <2>1, <2>3, <1>1 DEF SoleAt
      <3>2. /\ \A x \in Requests : held'[x] # d /\ socketContext'[x] # d
            /\ d \notin available' /\ \A u \in threads' : u.ctx = d => u = t1
        BY <2>1, <2>3, <3>1, <1>1, <1>3, <1>4 DEF SoleAt
      <3>3. SoleAt(d)'
        BY <3>2 DEF SoleAt
      <3>4. ~t.close => Quiet(d) \/ Awaits(d, r)
        BY <2>1, <2>3, <1>1 DEF WireAt
      <3>5. ~t.close => Quiet(d)' \/ Awaits(d, r)'
        BY <3>4, <1>3 DEF Quiet, Awaits
      <3>6. WireAt(d)'
        BY <3>2, <3>5, <1>5 DEF WireAt
      <3>7. QED
        BY <3>3, <3>6
    <2>4. QED
      BY <2>2, <2>3
  <1>7. QED
    BY <1>3, <1>6 DEF UnracedInv, OwnResponse

(* channelRead: the response that arrives first is the one the channel's   *)
(* operation waits for.                                                    *)
LEMMA ReadContext ==
  ASSUME PoolInv, UnracedInv, NEW c \in Contexts, channelRead(c),
         operation[c] # NoRequest => pc'[operation[c]] # "sent" \/ pc[operation[c]] # "sent",
         available' = available, held' = held,
         \A x \in Requests : socketContext'[x] \in {socketContext[x], NoContext},
         \A u \in threads' : u \notin threads => u.ctx = NoContext
  PROVE  SoleAt(c)' /\ WireAt(c)'
  <1>1. /\ wire[c] # <<>> /\ operation'[c] = NoRequest /\ wire'[c] = Tail(wire[c])
    BY DEF channelRead, PoolInv, TypeOK
  <1>2. SoleAt(c) /\ WireAt(c) /\ ~Quiet(c) /\ c # NoContext
    BY <1>1, ContextsAndNull DEF UnracedInv, Quiet
  <1>3. \A x : Awaits(c, x) => Quiet(c)'
    <2>1. SUFFICES ASSUME NEW x, Awaits(c, x)
                   PROVE  Quiet(c)'
      OBVIOUS
    <2>2. wire[c] = <<x>>
      BY <2>1, <1>1 DEF Awaits
    <2>3. wire'[c] = <<>>
      BY <2>2, <1>1
    <2>4. QED
      BY <2>3, <1>1 DEF Quiet
  <1>4. SoleAt(c)'
    BY <1>2 DEF SoleAt
  <1>5. /\ c \notin available' /\ \A x \in Requests : held'[x] # c
        /\ \A x \in Requests : socketContext'[x] = c => Quiet(c)'
        /\ \A u \in threads' : u.ctx = c /\ ~u.close => Quiet(c)'
    BY <1>2, <1>3 DEF WireAt
  <1>6. WireAt(c)'
    BY <1>5 DEF WireAt
  <1>7. QED
    BY <1>4, <1>6

LEMMA UnracedRead ==
  ASSUME PoolInv, UnracedInv, ~Raced', NEW c \in Contexts, channelRead(c)
  PROVE  UnracedInv'
  <1>1. /\ wire[c] # <<>> /\ wire' = [wire EXCEPT ![c] = Tail(wire[c])]
        /\ operation' = [operation EXCEPT ![c] = NoRequest]
        /\ available' = available /\ inUse' = inUse /\ pendingRequests' = pendingRequests
    BY DEF channelRead, group
  <1>2. /\ \A d \in Contexts \ {c} : operation'[d] = operation[d] /\ wire'[d] = wire[d]
        /\ operation'[c] = NoRequest /\ wire'[c] = Tail(wire[c]) /\ c # NoContext
    BY <1>1, ContextsAndNull DEF PoolInv, TypeOK
  <1>3. CASE operation[c] = NoRequest
    <2>1. /\ pc' = pc /\ held' = held /\ socketContext' = socketContext
          /\ expired' = expired /\ answer' = answer /\ threads' = threads
      BY <1>3 DEF channelRead, client
    <2>2. \A d \in Contexts : SoleAt(d) /\ WireAt(d)
      BY DEF UnracedInv
    <2>3. \A d \in Contexts \ {c} : SoleAt(d)' /\ WireAt(d)'
      BY <2>1, <2>2, <1>1, <1>2, OtherContext
    <2>4. SoleAt(c)' /\ WireAt(c)'
      BY <2>1, <1>1, <1>3, ReadContext
    <2>5. QED
      BY <2>1, <2>3, <2>4 DEF UnracedInv, OwnResponse
  <1>4. CASE operation[c] # NoRequest
    <2>1. PICK r : r = operation[c]
      OBVIOUS
    <2>2. r \in Requests /\ r # NoRequest /\ pc[r] \in Sent
          /\ (pc[r] = "sent" => socketContext[r] = c)
      BY <2>1, <1>4 DEF PoolInv, TypeOK, ChannelInv
    <2>3. pc[r] = "sent" => wire[c] = <<r>>
      BY <2>1, <2>2, <1>1, <1>4 DEF UnracedInv, WireAt, Quiet, Awaits
    <2>4. /\ answer' = [answer EXCEPT ![r] = IF pc[r] = "sent" THEN Head(wire[c]) ELSE @]
          /\ held' = held /\ expired' = expired
      BY <2>1, <1>4 DEF channelRead
    <2>5. OwnResponse'
      <3>1. \A x \in Requests : answer'[x] = IF x = r /\ pc[r] = "sent" THEN Head(wire[c]) ELSE answer[x]
        BY <2>2, <2>4 DEF PoolInv, TypeOK
      <3>2. pc[r] = "sent" => Head(wire[c]) = r
        BY <2>3
      <3>3. QED
        BY <3>1, <3>2 DEF UnracedInv, OwnResponse
    <2>10. pc[r] = "sent" => ~expired[r]
      <3>1. SUFFICES ASSUME pc[r] = "sent", expired[r]
                     PROVE  FALSE
        OBVIOUS
      <3>2. answer'[r] = Head(wire[c])
        BY <3>1, <2>2, <2>4 DEF PoolInv, TypeOK
      <3>3. Head(wire[c]) = r
        BY <3>1, <2>3
      <3>4. expired'[r]
        BY <3>1, <2>4
      <3>5. QED
        BY <3>2, <3>3, <3>4, <2>2 DEF Raced
    <2>6. \/ /\ pc' = [pc EXCEPT ![r] = IF @ = "sent" THEN "ok" ELSE @]
             /\ threads' = threads \cup
                    (IF socketContext[r] = NoContext THEN {}
                     ELSE {thread("respond", r, NoContext, FALSE, "response")})
             /\ socketContext' = socketContext
          \/ pc[r] = "sent" /\ ~expired[r] /\ FailAndReturn(r)
      <3>1. \/ /\ \E result \in IF expired[r] THEN Completed ELSE {"ok"} :
                    pc' = [pc EXCEPT ![r] = IF @ = "sent" THEN result ELSE @]
               /\ threads' = threads \cup
                    (IF socketContext[r] = NoContext THEN {}
                     ELSE {thread("respond", r, NoContext, FALSE, "response")})
               /\ socketContext' = socketContext
            \/ pc[r] = "sent" /\ ~expired[r] /\ FailAndReturn(r)
        BY <2>1, <1>4 DEF channelRead
      <3>2. CASE pc[r] = "sent"
        BY <3>1, <3>2, <2>10
      <3>3. CASE pc[r] # "sent"
        BY <3>1, <3>3
      <3>4. QED
        BY <3>2, <3>3
    <2>7. CASE /\ pc' = [pc EXCEPT ![r] = IF @ = "sent" THEN "ok" ELSE @]
               /\ threads' = threads \cup
                    (IF socketContext[r] = NoContext THEN {}
                     ELSE {thread("respond", r, NoContext, FALSE, "response")})
               /\ socketContext' = socketContext
      <3>1. \A x \in Requests : pc'[x] = IF x = r /\ pc[r] = "sent" THEN "ok" ELSE pc[x]
        BY <2>2, <2>7 DEF PoolInv, TypeOK
      <3>2. PICK t0 : t0 = thread("respond", r, NoContext, FALSE, "response")
        OBVIOUS
      <3>3. t0.ctx = NoContext /\ t0.step = "respond"
        BY <3>2 DEF thread
      <3>4. \A u \in threads' : u \in threads \/ u = t0
        BY <3>2, <2>7
      <3>5. SoleAt(c)' /\ WireAt(c)'
        <4>1. pc'[operation[c]] # "sent" \/ pc[operation[c]] # "sent"
          BY <2>1, <2>2, <3>1
        <4>2. QED
          BY <4>1, <3>3, <3>4, <2>4, <2>7, <1>1, ReadContext
      <3>6. ASSUME NEW d \in Contexts, d # c
            PROVE  SoleAt(d)' /\ WireAt(d)'
        <4>1. SoleAt(d) /\ WireAt(d) /\ d # NoContext
          BY ContextsAndNull DEF UnracedInv
        <4>2. /\ \A x \in Requests : socketContext'[x] = d =>
                    socketContext[x] = d /\ (pc[x] = "sent" => pc'[x] = "sent")
              /\ \A u \in threads' : u.ctx = d => u \in threads
          BY <4>1, <3>1, <3>3, <3>4, <3>6, <2>2, <2>7
        <4>3. QED
          BY <4>1, <4>2, <3>6, <2>4, <1>1, <1>2, OtherContext
      <3>7. QED
        BY <3>3, <3>4, <3>5, <3>6, <2>4, <2>5 DEF UnracedInv
    <2>8. CASE pc[r] = "sent" /\ ~expired[r] /\ FailAndReturn(r)
      <3>1. wire'[c] = <<>>
        <4>1. wire[c] = <<r>> /\ wire'[c] = Tail(wire[c])
          BY <2>3, <2>8, <1>2
        <4>2. QED
          BY <4>1
      <3>2. Quiet(c)'
        BY <3>1, <1>2 DEF Quiet
      <3>3. QED
        BY <3>2, <2>2, <2>4, <2>5, <2>8, <1>1, <1>2, UnracedFail
    <2>9. QED
      BY <2>6, <2>7, <2>8
  <1>5. QED
    BY <1>3, <1>4

(* completeRequest: the context of a completed request passes to its       *)
(* thread.                                                                 *)
LEMMA UnracedReturnAfterResponse ==
  ASSUME PoolInv, UnracedInv, NEW t \in threads, returnAfterResponse(t), ~expired[t.req]
  PROVE  UnracedInv'
  <1>1. PICK r, c, t1 : /\ r = t.req /\ c = socketContext[r]
                        /\ t1 = [t EXCEPT !.step = "check", !.ctx = c]
    OBVIOUS
  <1>2. /\ t.step = "respond" /\ t \in Thread /\ r \in Requests /\ ~expired[r]
        /\ pc[r] # "sent" /\ t.ctx = NoContext
    BY <1>1 DEF returnAfterResponse, PoolInv, TypeOK, Thread, ThreadInv, Completed
  <1>3. /\ threads' = (threads \ {t}) \cup (IF c = NoContext THEN {} ELSE {t1})
        /\ socketContext' = [socketContext EXCEPT ![r] = IF expired[r] THEN @ ELSE NoContext]
        /\ available' = available /\ operation' = operation /\ wire' = wire /\ pc' = pc
        /\ held' = held /\ expired' = expired /\ answer' = answer
    BY <1>1 DEF returnAfterResponse, group, channels
  <1>4. \A x \in Requests : socketContext'[x] = IF x = r THEN NoContext ELSE socketContext[x]
    BY <1>2, <1>3 DEF PoolInv, TypeOK
  <1>5. t1.step = "check" /\ t1.ctx = c
    BY <1>1, <1>2 DEF Thread
  <1>6. ASSUME NEW d \in Contexts
        PROVE  SoleAt(d)' /\ WireAt(d)'
    <2>1. SoleAt(d) /\ WireAt(d) /\ d # NoContext
      BY ContextsAndNull DEF UnracedInv
    <2>2. CASE d # c
      <3>1. /\ \A x \in Requests : socketContext'[x] = d =>
                    socketContext[x] = d /\ (pc[x] = "sent" => pc'[x] = "sent")
            /\ \A u \in threads' : u.ctx = d => u \in threads
        BY <2>1, <2>2, <1>3, <1>4, <1>5
      <3>2. QED
        BY <2>1, <2>2, <3>1, <1>3, OtherContext
    <2>3. CASE d = c
      <3>0. \A u \in threads : u.ctx # d
        BY <2>3, <1>1, <1>2, NoThreadAt
      <3>1. /\ \A x \in Requests : held'[x] # d /\ socketContext'[x] # d
            /\ d \notin available' /\ \A u \in threads' : u.ctx = d => u = t1
        BY <3>0, <2>1, <2>3, <1>1, <1>2, <1>3, <1>4 DEF SoleAt
      <3>2. SoleAt(d)'
        BY <3>1 DEF SoleAt
      <3>3. Quiet(d)'
        BY <2>1, <2>3, <1>1, <1>2, <1>3 DEF WireAt, Quiet
      <3>4. WireAt(d)'
        BY <3>3 DEF WireAt
      <3>5. QED
        BY <3>2, <3>4
    <2>4. QED
      BY <2>2, <2>3
  <1>7. QED
    BY <1>3, <1>5, <1>6 DEF UnracedInv, OwnResponse

(* returnOrCloseDirect: a channel that stays open is quiet.                *)
LEMMA UnracedCheck ==
  ASSUME PoolInv, UnracedInv, NEW t \in threads, checkChannel(t)
  PROVE  UnracedInv'
  <1>1. PICK c : c = t.ctx
    OBVIOUS
  <1>2. /\ t.step = "check" /\ t \in Thread /\ c \in Contexts /\ c # NoContext
        /\ t.req \in Requests
    BY <1>1 DEF checkChannel, PoolInv, TypeOK, Thread
  <1>3. PICK close, t1 : /\ t1 = [t EXCEPT !.step = "return", !.close = close]
                         /\ threads' = (threads \ {t}) \cup {t1}
                         /\ ~close => ~t.close /\ operation[c] = NoRequest
    <2>1. PICK closing \in BOOLEAN :
            threads' = (threads \ {t}) \cup
              {[t EXCEPT !.step = "return",
                         !.close = \/ t.close \/ closing \/ channel[c] = "closed"
                                   \/ StillHasOperation(c)]}
      BY <1>1 DEF checkChannel
    <2>2. PICK close : close = (t.close \/ closing \/ channel[c] = "closed" \/ StillHasOperation(c))
      OBVIOUS
    <2>3. ~close => ~t.close /\ operation[c] = NoRequest
      BY <2>2 DEF StillHasOperation
    <2>4. QED
      BY <2>1, <2>2, <2>3
  <1>4. t1.step = "return" /\ t1.ctx = c /\ t1.close = close
    BY <1>1, <1>2, <1>3 DEF Thread
  <1>5. /\ operation' = [operation EXCEPT ![c] = NoRequest] /\ wire' = wire
        /\ available' = available /\ pc' = pc /\ held' = held /\ socketContext' = socketContext
        /\ expired' = expired /\ answer' = answer
    BY <1>1 DEF checkChannel, group, client
  <1>6. \A d \in Contexts : operation'[d] = IF d = c THEN NoRequest ELSE operation[d]
    BY <1>2, <1>5 DEF PoolInv, TypeOK
  <1>7. ASSUME NEW d \in Contexts
        PROVE  SoleAt(d)' /\ WireAt(d)'
    <2>1. SoleAt(d) /\ WireAt(d)
      BY DEF UnracedInv
    <2>2. CASE d # c
      <3>1. \A u \in threads' : u.ctx = d => u \in threads
        BY <2>2, <1>3, <1>4
      <3>2. QED
        BY <2>1, <2>2, <3>1, <1>5, <1>6, OtherContext
    <2>3. CASE d = c
      <3>1. /\ \A x \in Requests : held'[x] # d /\ socketContext'[x] # d
            /\ d \notin available' /\ \A u \in threads' : u.ctx = d => u = t1
        BY <2>1, <2>3, <1>1, <1>2, <1>3, <1>5 DEF SoleAt
      <3>2. SoleAt(d)'
        BY <3>1 DEF SoleAt
      <3>3. ~close => Quiet(d)
        <4>1. t.req # NoRequest
          BY <1>2, PoolAssumption
        <4>2. QED
          BY <4>1, <2>1, <2>3, <1>1, <1>3 DEF WireAt, Awaits
      <3>4. ~close => Quiet(d)'
        BY <3>3, <2>3, <1>5, <1>6 DEF Quiet
      <3>5. WireAt(d)'
        BY <3>1, <3>4, <1>4 DEF WireAt
      <3>6. QED
        BY <3>2, <3>5
    <2>4. QED
      BY <2>2, <2>3
  <1>8. QED
    BY <1>3, <1>4, <1>5, <1>7 DEF UnracedInv, OwnResponse

LEMMA UnracedReturnIdle ==
  ASSUME PoolInv, UnracedInv, NEW t \in threads, returnAndSendPending(t), isEmpty(pendingRequests)
  PROVE  UnracedInv'
  <1>1. PICK c : c = t.ctx
    OBVIOUS
  <1>2. /\ t.step = "return" /\ ~t.close /\ c \in Contexts /\ c # NoContext
    BY <1>1 DEF returnAndSendPending, PoolInv, TypeOK, Thread
  <1>3. /\ threads' = threads \ {t} /\ available' \subseteq available \cup {c}
        /\ operation' = operation /\ wire' = wire
        /\ pc' = pc /\ held' = held /\ socketContext' = socketContext
        /\ expired' = expired /\ answer' = answer
    BY <1>1 DEF returnAndSendPending
  <1>4. ASSUME NEW d \in Contexts
        PROVE  SoleAt(d)' /\ WireAt(d)'
    <2>1. SoleAt(d) /\ WireAt(d)
      BY DEF UnracedInv
    <2>2. CASE d # c
      BY <2>1, <2>2, <1>3, OtherContext
    <2>3. CASE d = c
      <3>1. /\ \A x \in Requests : held'[x] # d /\ socketContext'[x] # d
            /\ \A u \in threads' : u.ctx # d
        BY <2>1, <2>3, <1>1, <1>2, <1>3 DEF SoleAt
      <3>2. SoleAt(d)'
        BY <3>1 DEF SoleAt
      <3>3. Quiet(d)'
        BY <2>1, <2>3, <1>1, <1>2, <1>3 DEF WireAt, Quiet
      <3>4. WireAt(d)'
        BY <3>3 DEF WireAt
      <3>5. QED
        BY <3>2, <3>4
    <2>4. QED
      BY <2>2, <2>3
  <1>5. QED
    BY <1>3, <1>4 DEF UnracedInv, OwnResponse

LEMMA UnracedSendPending ==
  ASSUME PoolInv, UnracedInv, NEW t \in threads, returnAndSendPending(t), ~isEmpty(pendingRequests)
  PROVE  UnracedInv'
  <1>1. PICK c, p : c = t.ctx /\ p = polled(pendingRequests)
    OBVIOUS
  <1>2. /\ t.step = "return" /\ ~t.close /\ c \in Contexts /\ c # NoContext
    BY <1>1 DEF returnAndSendPending, PoolInv, TypeOK, Thread
  <1>3. p \in Requests /\ p # NoRequest /\ pc[p] = "queued" /\ held[p] = NoContext
    BY <1>1, PendingIsQueued DEF PoolInv, RequestInv
  <1>4. /\ threads' = threads \ {t} /\ operation' = [operation EXCEPT ![c] = p]
        /\ socketContext' = [socketContext EXCEPT ![p] = c]
        /\ wire' = Written(p, c, channel[c]) /\ pc' = [pc EXCEPT ![p] = "sent"]
        /\ available' = available /\ held' = held /\ expired' = expired /\ answer' = answer
    BY <1>1, <1>3 DEF returnAndSendPending
  <1>5. held' = [held EXCEPT ![p] = NoContext]
    BY <1>3, <1>4 DEF PoolInv, TypeOK
  <1>6. SoleAt(c) /\ WireAt(c)
    BY <1>2 DEF UnracedInv
  <1>7. Quiet(c)
    BY <1>1, <1>2, <1>6 DEF WireAt
  <1>8. /\ c \notin available /\ \A x \in Requests : held[x] # c /\ socketContext[x] # c
        /\ \A u \in threads' : u \in threads /\ u.ctx # c
    BY <1>1, <1>2, <1>4, <1>6 DEF SoleAt
  <1>9. PICK state : state = channel[c]
    OBVIOUS
  <1>10. wire' = Written(p, c, state)
    BY <1>4, <1>9
  <1>11. QED
    BY <1>2, <1>3, <1>4, <1>5, <1>6, <1>7, <1>8, <1>10, UnracedSend

(* No operation was set on the channel that a thread closes.               *)
LEMMA UnracedClose ==
  ASSUME PoolInv, UnracedInv, NEW t \in threads, closeAndReconnect(t)
  PROVE  UnracedInv'
  <1>1. PICK c, R, Q : /\ c = t.ctx /\ R = Reconnecting
                       /\ Q = IF operation[c] # NoRequest /\ ~expired[operation[c]]
                                  /\ pc[operation[c]] = "sent"
                              THEN {operation[c]} ELSE {}
    OBVIOUS
  <1>2. /\ t.step = "return" /\ c \in Contexts /\ c # NoContext /\ SoleAt(c)
    BY <1>1 DEF closeAndReconnect, PoolInv, TypeOK, Thread, UnracedInv
  <1>3. Q = {}
    <2>1. SUFFICES ASSUME operation[c] # NoRequest, pc[operation[c]] = "sent"
                   PROVE  FALSE
      BY <1>1
    <2>2. socketContext[operation[c]] = c /\ operation[c] \in Requests
      BY <2>1, <1>2 DEF PoolInv, TypeOK, ChannelInv
    <2>3. QED
      BY <2>2, <1>1, <1>2 DEF SoleAt
  <1>4. /\ operation' = [operation EXCEPT ![c] = NoRequest] /\ wire' = [wire EXCEPT ![c] = <<>>]
        /\ pc' = [r \in Requests |-> IF r \in R THEN "selecting"
                                     ELSE IF r \in Q THEN "failed" ELSE pc[r]]
        /\ socketContext' = [r \in Requests |-> IF r \in Q THEN NoContext ELSE socketContext[r]]
        /\ threads' = (threads \ {t}) \cup {thread("check", r, c, FALSE, "failure") : r \in Q}
        /\ available' = available /\ held' = held /\ expired' = expired /\ answer' = answer
    BY <1>1 DEF closeAndReconnect
  <1>5. \A r \in R : r \in Requests /\ pc[r] = "queued"
    BY <1>1, PendingIsQueued DEF Reconnecting
  <1>6. /\ \A x \in Requests : pc[x] = "sent" => pc'[x] = "sent"
        /\ \A x \in Requests : socketContext'[x] = socketContext[x]
        /\ threads' = threads \ {t}
        /\ \A d \in Contexts : operation'[d] = IF d = c THEN NoRequest ELSE operation[d]
        /\ \A d \in Contexts : wire'[d] = IF d = c THEN <<>> ELSE wire[d]
    BY <1>2, <1>3, <1>4, <1>5 DEF PoolInv, TypeOK
  <1>7. ASSUME NEW d \in Contexts
        PROVE  SoleAt(d)' /\ WireAt(d)'
    <2>1. SoleAt(d) /\ WireAt(d)
      BY DEF UnracedInv
    <2>2. CASE d # c
      BY <2>1, <2>2, <1>4, <1>6, OtherContext
    <2>3. CASE d = c
      <3>1. /\ \A x \in Requests : held'[x] # d /\ socketContext'[x] # d
            /\ d \notin available' /\ \A u \in threads' : u.ctx # d
        BY <2>1, <2>3, <1>1, <1>2, <1>4, <1>6 DEF SoleAt
      <3>2. QED
        BY <3>1 DEF SoleAt, WireAt
    <2>4. QED
      BY <2>2, <2>3
  <1>8. QED
    BY <1>4, <1>6, <1>7 DEF UnracedInv, OwnResponse

(* The remote host closes a connection.                                    *)
LEMMA UnracedInactive ==
  ASSUME PoolInv, UnracedInv, NEW c \in Contexts, channelInactive(c)
  PROVE  UnracedInv'
  <1>1. /\ operation' = [operation EXCEPT ![c] = NoRequest] /\ wire' = [wire EXCEPT ![c] = <<>>]
        /\ available' = available /\ pc' = pc /\ held' = held /\ socketContext' = socketContext
        /\ expired' = expired /\ answer' = answer /\ threads' = threads
    BY DEF channelInactive, group, client
  <1>2. /\ \A d \in Contexts : operation'[d] = IF d = c THEN NoRequest ELSE operation[d]
        /\ \A d \in Contexts : wire'[d] = IF d = c THEN <<>> ELSE wire[d]
    BY <1>1 DEF PoolInv, TypeOK
  <1>3. ASSUME NEW d \in Contexts
        PROVE  SoleAt(d)' /\ WireAt(d)'
    <2>1. SoleAt(d) /\ WireAt(d)
      BY DEF UnracedInv
    <2>2. CASE d # c
      BY <2>1, <2>2, <1>1, <1>2, OtherContext
    <2>3. CASE d = c
      <3>1. SoleAt(d)'
        BY <2>1, <1>1 DEF SoleAt
      <3>2. Quiet(d)'
        BY <2>3, <1>2 DEF Quiet
      <3>3. WireAt(d)'
        BY <3>2 DEF WireAt
      <3>4. QED
        BY <3>1, <3>3
    <2>4. QED
      BY <2>2, <2>3
  <1>4. QED
    BY <1>1, <1>3 DEF UnracedInv, OwnResponse

(* What was expired stays expired, and an answer that was given stays.     *)
LEMMA HistoryGrows ==
  ASSUME PoolInv, [Next]_vars, NEW x \in Requests
  PROVE  /\ expired[x] => expired'[x]
         /\ answer[x] # NoRequest => answer'[x] # NoRequest
  <1>1. ASSUME NEW r \in Requests, failExpiredRequests(r)
        PROVE  answer' = answer /\ (expired[x] => expired'[x])
    BY <1>1 DEF failExpiredRequests, PoolInv, TypeOK
  <1>2. ASSUME NEW c \in Contexts, channelRead(c)
        PROVE  expired' = expired /\ (answer[x] # NoRequest => answer'[x] # NoRequest)
    <2>1. CASE operation[c] = NoRequest
      BY <1>2, <2>1 DEF channelRead, client
    <2>2. CASE operation[c] # NoRequest
      <3>1. PICK r, w : r = operation[c] /\ w = Head(wire[c])
        OBVIOUS
      <3>2. /\ answer' = [answer EXCEPT ![r] = IF pc[r] = "sent" THEN w ELSE @]
            /\ expired' = expired /\ wire[c] # <<>>
        BY <1>2, <2>2, <3>1 DEF channelRead
      <3>3. wire[c] \in Seq(Requests)
        BY <1>2 DEF PoolInv, TypeOK
      <3>4. w \in Requests /\ w # NoRequest
        BY <3>1, <3>2, <3>3, PoolAssumption
      <3>5. QED
        BY <3>2, <3>4 DEF PoolInv, TypeOK
    <2>3. QED
      BY <2>1, <2>2
  <1>3. ASSUME NEW r \in Requests, sendRemote(r) \/ Select(r) \/ Connect(r) \/ requestFailure(r)
        PROVE  expired' = expired /\ answer' = answer
    BY <1>3 DEF sendRemote, Select, reuseAvailable, createContext, replaceBad, queuePendingRequest,
                Connect, sendOnReused, connectSuccess, connectFailure, requestFailure
  <1>4. ASSUME NEW c \in Contexts, channelInactive(c) \/ closeIdleChannelContext(c)
        PROVE  expired' = expired /\ answer' = answer
    BY <1>4 DEF channelInactive, closeIdleChannelContext, client
  <1>5. ASSUME NEW t \in threads, Continue(t)
        PROVE  expired' = expired /\ answer' = answer
    BY <1>5 DEF Continue, returnAfterResponse, returnAfterExpiry, checkChannel,
                returnAndSendPending, closeAndReconnect, client
  <1>6. CASE UNCHANGED vars
    BY <1>6 DEF vars, client
  <1>7. QED
    BY <1>1, <1>2, <1>3, <1>4, <1>5, <1>6 DEF Next, Quiescent

LEMMA RacedStable ==
  ASSUME PoolInv, [Next]_vars, Raced
  PROVE  Raced'
  <1>1. PICK x \in Requests : expired[x] /\ answer[x] # NoRequest
    BY DEF Raced
  <1>2. expired'[x] /\ answer'[x] # NoRequest
    BY <1>1, HistoryGrows
  <1>3. QED
    BY <1>2 DEF Raced

LEMMA AnsweredInit == Init => AnsweredInv
  BY DEF Init, AnsweredInv

(* Steps that start no handling of a response.                             *)
LEMMA AnsweredKept ==
  ASSUME PoolInv, AnsweredInv,
         \A x \in Requests : answer[x] # NoRequest => answer'[x] # NoRequest,
         \A u \in threads' : u.step = "respond" => u \in threads,
         \A x \in Requests : pc[x] \in Sent => socketContext'[x] \in {socketContext[x], NoContext},
         \A x \in Requests : pc[x] = "sent" => pc'[x] = "sent" \/ socketContext'[x] = NoContext,
         \A d \in Contexts : \/ operation'[d] \in {operation[d], NoRequest}
                             \/ pc'[operation'[d]] = "sent"
  PROVE  AnsweredInv'
  <1>1. ASSUME NEW u \in threads', u.step = "respond"
        PROVE  answer'[u.req] # NoRequest \/ socketContext'[u.req] = NoContext
    <2>1. u \in threads /\ u.req \in Requests /\ pc[u.req] \in Sent
      BY <1>1 DEF PoolInv, TypeOK, Thread, ThreadInv, Completed, Sent
    <2>2. QED
      BY <2>1, <1>1 DEF AnsweredInv
  <1>2. ASSUME NEW d \in Contexts, operation'[d] # NoRequest
        PROVE  pc'[operation'[d]] = "sent" \/ socketContext'[operation'[d]] = NoContext
    <2>1. CASE operation'[d] = operation[d]
      <3>1. PICK x : x = operation[d]
        OBVIOUS
      <3>2. x \in Requests /\ pc[x] \in Sent /\ (pc[x] = "sent" \/ socketContext[x] = NoContext)
        BY <3>1, <2>1, <1>2 DEF PoolInv, TypeOK, ChannelInv, AnsweredInv
      <3>3. QED
        BY <3>1, <3>2, <2>1
    <2>2. QED
      BY <2>1, <1>2
  <1>3. QED
    BY <1>1, <1>2 DEF AnsweredInv

(* A response completes a request that is still on its channel.            *)
LEMMA AnsweredRead ==
  ASSUME PoolInv, AnsweredInv, NEW c \in Contexts, channelRead(c)
  PROVE  AnsweredInv'
  <1>1. /\ wire[c] # <<>> /\ operation' = [operation EXCEPT ![c] = NoRequest]
        /\ wire[c] \in Seq(Requests)
    BY DEF channelRead, PoolInv, TypeOK
  <1>2. \A d \in Contexts : operation'[d] = IF d = c THEN NoRequest ELSE operation[d]
    BY <1>1 DEF PoolInv, TypeOK
  <1>3. CASE operation[c] = NoRequest
    <2>1. pc' = pc /\ socketContext' = socketContext /\ answer' = answer /\ threads' = threads
      BY <1>3 DEF channelRead, client
    <2>2. QED
      BY <2>1, <1>2, AnsweredKept
  <1>4. CASE operation[c] # NoRequest
    <2>1. PICK r, w, t0 : /\ r = operation[c] /\ w = Head(wire[c])
                          /\ t0 = thread("respond", r, NoContext, FALSE, "response")
      OBVIOUS
    <2>2. /\ r \in Requests /\ w \in Requests /\ w # NoRequest
          /\ pc[r] = "sent" \/ socketContext[r] = NoContext
          /\ pc[r] = "sent" => socketContext[r] = c
      <3>1. w \in Requests
        BY <2>1, <1>1
      <3>2. QED
        BY <3>1, <2>1, <1>4, PoolAssumption DEF PoolInv, TypeOK, ChannelInv, AnsweredInv
    <2>3. answer' = [answer EXCEPT ![r] = IF pc[r] = "sent" THEN w ELSE @]
      BY <2>1, <1>4 DEF channelRead
    <2>4. \A x \in Requests : answer'[x] = IF x = r /\ pc[r] = "sent" THEN w ELSE answer[x]
      BY <2>2, <2>3 DEF PoolInv, TypeOK
    <2>5. /\ \A x \in Requests \ {r} : pc'[x] = pc[x] /\ socketContext'[x] = socketContext[x]
          /\ socketContext'[r] \in {socketContext[r], NoContext}
          /\ \A u \in threads' : u.step = "respond" =>
                u \in threads \/ (u = t0 /\ socketContext[r] # NoContext)
      <3>1. CASE /\ \E result \in IF expired[r] THEN Completed ELSE {"ok"} :
                      pc' = [pc EXCEPT ![r] = IF @ = "sent" THEN result ELSE @]
                 /\ threads' = threads \cup (IF socketContext[r] = NoContext THEN {} ELSE {t0})
                 /\ socketContext' = socketContext
        <4>1. PICK result : pc' = [pc EXCEPT ![r] = IF @ = "sent" THEN result ELSE @]
          BY <3>1
        <4>2. QED
          BY <4>1, <3>1 DEF PoolInv, TypeOK
      <3>2. CASE FailAndReturn(r)
        <4>1. PICK t1 : t1 = thread("check", r, socketContext[r], FALSE, "failure")
          OBVIOUS
        <4>2. /\ pc' = [pc EXCEPT ![r] = "failed"] /\ threads' = threads \cup {t1}
              /\ socketContext' = [socketContext EXCEPT ![r] = NoContext] /\ t1.step = "check"
          BY <4>1, <3>2 DEF FailAndReturn, thread
        <4>3. QED
          BY <4>2, <2>2 DEF PoolInv, TypeOK
      <3>3. QED
        BY <3>1, <3>2, <2>1, <1>4 DEF channelRead
    <2>6. ASSUME NEW u \in threads', u.step = "respond"
          PROVE  answer'[u.req] # NoRequest \/ socketContext'[u.req] = NoContext
      <3>1. CASE u \in threads
        <4>1. u.req \in Requests /\ (answer[u.req] # NoRequest \/ socketContext[u.req] = NoContext)
          BY <3>1, <2>6 DEF PoolInv, TypeOK, Thread, AnsweredInv
        <4>2. QED
          BY <4>1, <2>2, <2>4, <2>5
      <3>2. CASE u = t0 /\ socketContext[r] # NoContext
        <4>1. u.req = r
          BY <3>2, <2>1 DEF thread
        <4>2. QED
          BY <4>1, <3>2, <2>2, <2>4
      <3>3. QED
        BY <3>1, <3>2, <2>5, <2>6
    <2>7. ASSUME NEW d \in Contexts, operation'[d] # NoRequest
          PROVE  pc'[operation'[d]] = "sent" \/ socketContext'[operation'[d]] = NoContext
      <3>1. PICK x : x = operation[d]
        OBVIOUS
      <3>2. /\ d # c /\ operation'[d] = x /\ x \in Requests
            /\ pc[x] = "sent" => socketContext[x] = d
            /\ pc[x] = "sent" \/ socketContext[x] = NoContext
        BY <3>1, <2>7, <1>2 DEF PoolInv, TypeOK, ChannelInv, AnsweredInv
      <3>3. QED
        BY <3>2, <2>2, <2>5
    <2>8. QED
      BY <2>6, <2>7 DEF AnsweredInv
  <1>5. QED
    BY <1>3, <1>4

LEMMA AnsweredRequest ==
  ASSUME PoolInv, AnsweredInv, NEW r \in Requests,
         sendRemote(r) \/ Select(r) \/ Connect(r) \/ requestFailure(r) \/ failExpiredRequests(r)
  PROVE  AnsweredInv'
  <1>1. CASE sendRemote(r) \/ queuePendingRequest(r) \/ failExpiredRequests(r)
    <2>1. PICK t0 : t0 = thread("expire", r, socketContext[r], FALSE, "failure")
      OBVIOUS
    <2>2. t0.step # "respond"
      BY <2>1 DEF thread
    <2>3. /\ operation' = operation /\ socketContext' = socketContext /\ answer' = answer
          /\ threads' \subseteq threads \cup {t0}
          /\ \A x \in Requests : pc[x] = "sent" => pc'[x] = "sent"
      BY <1>1, <2>1 DEF sendRemote, queuePendingRequest, failExpiredRequests, channels,
                        PoolInv, TypeOK
    <2>4. QED
      BY <2>2, <2>3, AnsweredKept
  <1>2. CASE \/ \E c \in Contexts : reuseAvailable(r, c) \/ createContext(r, c)
             \/ \E c, d \in Contexts : replaceBad(r, c, d)
    <2>1. /\ socketContext' = socketContext /\ answer' = answer
          /\ pc[r] = "selecting" /\ pc' = [pc EXCEPT ![r] = "holding"]
      BY <1>2 DEF reuseAvailable, createContext, replaceBad, NewContext
    <2>2. \A u \in threads' : u.step = "respond" => u \in threads
      <3>1. CASE \E c \in Contexts : reuseAvailable(r, c) \/ createContext(r, c)
        BY <3>1 DEF reuseAvailable, createContext
      <3>2. CASE \E c, d \in Contexts : replaceBad(r, c, d)
        BY <3>2 DEF replaceBad, thread
      <3>3. QED
        BY <3>1, <3>2, <1>2
    <2>3. \A x \in Requests : pc[x] = "sent" => pc'[x] = "sent"
      BY <2>1 DEF PoolInv, TypeOK
    <2>4. \A d \in Contexts : operation'[d] \in {operation[d], NoRequest}
      <3>1. CASE \E c \in Contexts : reuseAvailable(r, c)
        BY <3>1 DEF reuseAvailable, channels
      <3>2. CASE \E c \in Contexts : operation' = [operation EXCEPT ![c] = NoRequest]
        BY <3>2 DEF PoolInv, TypeOK
      <3>3. QED
        BY <3>1, <3>2, <1>2 DEF createContext, replaceBad, NewContext
    <2>5. QED
      BY <2>1, <2>2, <2>3, <2>4, AnsweredKept
  <1>3. CASE sendOnReused(r) \/ connectSuccess(r)
    <2>1. PICK c : c = held[r]
      OBVIOUS
    <2>2. /\ pc[r] = "holding" /\ operation' = [operation EXCEPT ![c] = r]
          /\ socketContext' = [socketContext EXCEPT ![r] = c]
          /\ pc' = [pc EXCEPT ![r] = "sent"] /\ answer' = answer /\ threads' = threads
      BY <1>3, <2>1 DEF sendOnReused, connectSuccess
    <2>3. /\ \A x \in Requests : pc[x] \in Sent => socketContext'[x] = socketContext[x]
          /\ \A x \in Requests : pc[x] = "sent" => pc'[x] = "sent"
          /\ \A d \in Contexts : operation'[d] = operation[d] \/ pc'[operation'[d]] = "sent"
      BY <2>2 DEF PoolInv, TypeOK, Sent
    <2>4. QED
      BY <2>2, <2>3, AnsweredKept
  <1>4. CASE connectFailure(r)
    <2>1. PICK t0 : t0 = thread("return", r, held[r], TRUE, "failure")
      OBVIOUS
    <2>2. /\ pc[r] = "holding" /\ operation' = operation /\ socketContext' = socketContext
          /\ pc' = [pc EXCEPT ![r] = "failed"] /\ answer' = answer
          /\ threads' = threads \cup {t0} /\ t0.step # "respond"
      BY <1>4, <2>1 DEF connectFailure, channels, thread
    <2>3. \A x \in Requests : pc[x] = "sent" => pc'[x] = "sent"
      BY <2>2 DEF PoolInv, TypeOK
    <2>4. QED
      BY <2>2, <2>3, AnsweredKept
  <1>5. CASE requestFailure(r)
    <2>1. PICK c, t0 : /\ c = socketContext[r]
                       /\ t0 = thread("check", r, c, FALSE, "failure")
      OBVIOUS
    <2>2. /\ pc' = [pc EXCEPT ![r] = "failed"] /\ answer' = answer
          /\ socketContext' = [socketContext EXCEPT ![r] = NoContext]
          /\ threads' = threads \cup {t0} /\ t0.step # "respond" /\ operation[c] = r
      BY <1>5, <2>1 DEF requestFailure, FailAndReturn, thread
    <2>3. PICK left \in {NoRequest, r} : operation' = [operation EXCEPT ![c] = left]
      BY <1>5, <2>1 DEF requestFailure
    <2>4. /\ \A x \in Requests : socketContext'[x] \in {socketContext[x], NoContext}
          /\ \A x \in Requests : pc[x] = "sent" => pc'[x] = "sent" \/ socketContext'[x] = NoContext
          /\ \A d \in Contexts : operation'[d] \in {operation[d], NoRequest}
      BY <2>2, <2>3 DEF PoolInv, TypeOK
    <2>5. QED
      BY <2>2, <2>4, AnsweredKept
  <1>6. QED
    BY <1>1, <1>2, <1>3, <1>4, <1>5 DEF Select, Connect

LEMMA AnsweredThread ==
  ASSUME PoolInv, AnsweredInv, NEW t \in threads, Continue(t)
  PROVE  AnsweredInv'
  <1>0. t \in Thread /\ t.req \in Requests
    BY DEF PoolInv, TypeOK, Thread
  <1>1. CASE returnAfterResponse(t)
    <2>1. PICK r, t1 : r = t.req /\ t1 = [t EXCEPT !.step = "check", !.ctx = socketContext[r]]
      OBVIOUS
    <2>2. /\ threads' \subseteq threads \cup {t1} /\ t1.step # "respond"
          /\ socketContext' = [socketContext EXCEPT ![r] = IF expired[r] THEN @ ELSE NoContext]
          /\ operation' = operation /\ pc' = pc /\ answer' = answer
      BY <1>0, <1>1, <2>1 DEF returnAfterResponse, channels, Thread
    <2>3. \A x \in Requests : socketContext'[x] \in {socketContext[x], NoContext}
      BY <2>2 DEF PoolInv, TypeOK
    <2>4. QED
      BY <2>2, <2>3, AnsweredKept
  <1>2. CASE returnAfterExpiry(t)
    <2>1. PICK r, t1 : r = t.req /\ t1 = [t EXCEPT !.step = "check"]
      OBVIOUS
    <2>2. /\ threads' \subseteq threads \cup {t1} /\ t1.step # "respond"
          /\ socketContext' = [socketContext EXCEPT ![r] = NoContext]
          /\ pc' = [pc EXCEPT ![r] = IF @ = "sent" THEN "failed" ELSE @]
          /\ operation' = operation /\ answer' = answer
      BY <1>0, <1>2, <2>1 DEF returnAfterExpiry, channels, Thread
    <2>3. /\ \A x \in Requests : socketContext'[x] \in {socketContext[x], NoContext}
          /\ \A x \in Requests : pc[x] = "sent" => pc'[x] = "sent" \/ socketContext'[x] = NoContext
      BY <2>2, <2>1, <1>0 DEF PoolInv, TypeOK
    <2>4. QED
      BY <2>2, <2>3, AnsweredKept
  <1>3. CASE checkChannel(t)
    <2>1. \A u \in threads' : u.step = "respond" => u \in threads
      BY <1>0, <1>3 DEF checkChannel, Thread
    <2>2. /\ operation' = [operation EXCEPT ![t.ctx] = NoRequest] /\ pc' = pc
          /\ socketContext' = socketContext /\ answer' = answer
      BY <1>3 DEF checkChannel, client
    <2>3. \A d \in Contexts : operation'[d] \in {operation[d], NoRequest}
      BY <2>2 DEF PoolInv, TypeOK
    <2>4. QED
      BY <2>1, <2>2, <2>3, AnsweredKept
  <1>4. CASE returnAndSendPending(t) /\ isEmpty(pendingRequests)
    <2>1. /\ threads' = threads \ {t} /\ operation' = operation /\ pc' = pc
          /\ socketContext' = socketContext /\ answer' = answer
      BY <1>4 DEF returnAndSendPending
    <2>2. QED
      BY <2>1, AnsweredKept
  <1>5. CASE returnAndSendPending(t) /\ ~isEmpty(pendingRequests)
    <2>1. PICK c, p : c = t.ctx /\ p = polled(pendingRequests)
      OBVIOUS
    <2>2. p \in Requests /\ p # NoRequest /\ pc[p] = "queued"
      BY <1>5, <2>1, PendingIsQueued
    <2>3. /\ threads' = threads \ {t} /\ operation' = [operation EXCEPT ![c] = p]
          /\ socketContext' = [socketContext EXCEPT ![p] = c]
          /\ pc' = [pc EXCEPT ![p] = "sent"] /\ answer' = answer
      BY <1>5, <2>1, <2>2 DEF returnAndSendPending
    <2>4. /\ \A x \in Requests : pc[x] \in Sent => socketContext'[x] = socketContext[x]
          /\ \A x \in Requests : pc[x] = "sent" => pc'[x] = "sent"
          /\ \A d \in Contexts : operation'[d] = operation[d] \/ pc'[operation'[d]] = "sent"
      BY <2>2, <2>3 DEF PoolInv, TypeOK, Sent
    <2>5. QED
      BY <2>3, <2>4, AnsweredKept
  <1>6. CASE closeAndReconnect(t)
    <2>1. PICK c, R, Q : /\ c = t.ctx /\ R = Reconnecting
                         /\ Q = IF operation[c] # NoRequest /\ ~expired[operation[c]]
                                    /\ pc[operation[c]] = "sent"
                                THEN {operation[c]} ELSE {}
      OBVIOUS
    <2>2. /\ operation' = [operation EXCEPT ![c] = NoRequest] /\ answer' = answer
          /\ pc' = [r \in Requests |-> IF r \in R THEN "selecting"
                                       ELSE IF r \in Q THEN "failed" ELSE pc[r]]
          /\ socketContext' = [r \in Requests |-> IF r \in Q THEN NoContext ELSE socketContext[r]]
          /\ threads' = (threads \ {t}) \cup {thread("check", r, c, FALSE, "failure") : r \in Q}
      BY <1>6, <2>1 DEF closeAndReconnect
    <2>3. \A r \in R : pc[r] = "queued"
      BY <2>1, PendingIsQueued DEF Reconnecting
    <2>4. \A u \in threads' : u.step = "respond" => u \in threads
      BY <2>2 DEF thread
    <2>5. /\ \A x \in Requests : socketContext'[x] \in {socketContext[x], NoContext}
          /\ \A x \in Requests : pc[x] = "sent" => pc'[x] = "sent" \/ socketContext'[x] = NoContext
          /\ \A d \in Contexts : operation'[d] \in {operation[d], NoRequest}
      BY <2>2, <2>3 DEF PoolInv, TypeOK
    <2>6. QED
      BY <2>2, <2>4, <2>5, AnsweredKept
  <1>7. QED
    BY <1>1, <1>2, <1>3, <1>4, <1>5, <1>6 DEF Continue

LEMMA AnsweredNext ==
  ASSUME PoolInv, AnsweredInv, [Next]_vars
  PROVE  AnsweredInv'
  <1>1. ASSUME NEW c \in Contexts, channelInactive(c) \/ closeIdleChannelContext(c)
        PROVE  AnsweredInv'
    <2>1. /\ pc' = pc /\ socketContext' = socketContext /\ answer' = answer /\ threads' = threads
          /\ operation' = operation \/ operation' = [operation EXCEPT ![c] = NoRequest]
      BY <1>1 DEF channelInactive, closeIdleChannelContext, client
    <2>2. \A d \in Contexts : operation'[d] \in {operation[d], NoRequest}
      BY <2>1 DEF PoolInv, TypeOK
    <2>3. QED
      BY <2>1, <2>2, AnsweredKept
  <1>2. CASE UNCHANGED vars
    <2>1. /\ pc' = pc /\ socketContext' = socketContext /\ answer' = answer /\ threads' = threads
          /\ operation' = operation
      BY <1>2 DEF vars, channels, client
    <2>2. QED
      BY <2>1, AnsweredKept
  <1>3. QED
    BY <1>1, <1>2, AnsweredRead, AnsweredRequest, AnsweredThread DEF Next, Quiescent

LEMMA UnracedNext ==
  ASSUME PoolInv, AnsweredInv, UnracedInv, ~Raced, ~Raced', [Next]_vars
  PROVE  UnracedInv'
  <1>1. ASSUME NEW r \in Requests, sendRemote(r) \/ queuePendingRequest(r)
        PROVE  UnracedInv'
    <2>1. /\ available' = available /\ operation' = operation /\ wire' = wire /\ held' = held
          /\ socketContext' = socketContext /\ expired' = expired /\ answer' = answer
          /\ threads' = threads
      BY <1>1 DEF sendRemote, queuePendingRequest, group, channels
    <2>2. \A x \in Requests : pc[x] = "sent" => pc'[x] = "sent"
      BY <1>1 DEF sendRemote, queuePendingRequest, PoolInv, TypeOK
    <2>3. QED
      BY <2>1, <2>2, UnracedKept
  <1>2. ASSUME NEW r \in Requests, Select(r)
        PROVE  UnracedInv'
    BY <1>1, <1>2, UnracedReuse, UnracedCreate, UnracedReplaceBad DEF Select
  <1>3. ASSUME NEW r \in Requests, Connect(r)
        PROVE  UnracedInv'
    BY <1>3, UnracedConnect, UnracedConnectFailure DEF Connect
  <1>4. ASSUME NEW r \in Requests, requestFailure(r) \/ failExpiredRequests(r)
        PROVE  UnracedInv'
    BY <1>4, UnracedRequestFailure, UnracedExpiry
  <1>5. ASSUME NEW c \in Contexts, channelRead(c) \/ channelInactive(c)
        PROVE  UnracedInv'
    BY <1>5, UnracedRead, UnracedInactive
  <1>6. ASSUME NEW c \in Contexts, closeIdleChannelContext(c)
        PROVE  UnracedInv'
    <2>1. /\ available' = available \ {c} /\ operation' = operation /\ wire' = wire
          /\ held' = held /\ socketContext' = socketContext /\ expired' = expired
          /\ answer' = answer /\ threads' = threads /\ pc' = pc
      BY <1>6 DEF closeIdleChannelContext, client
    <2>2. QED
      BY <2>1, UnracedKept
  <1>7. ASSUME NEW t \in threads, Continue(t)
        PROVE  UnracedInv'
    <2>1. CASE returnAfterResponse(t) /\ expired[t.req]
      <3>1. /\ t.step = "respond" /\ t.req \in Requests
        BY <2>1 DEF returnAfterResponse, PoolInv, TypeOK, Thread
      <3>2. socketContext[t.req] = NoContext
        BY <2>1, <3>1 DEF AnsweredInv, Raced
      <3>3. /\ threads' = threads \ {t} /\ socketContext' = socketContext
            /\ available' = available /\ operation' = operation /\ wire' = wire /\ pc' = pc
            /\ held' = held /\ answer' = answer
        BY <2>1, <3>1, <3>2 DEF returnAfterResponse, group, channels, PoolInv, TypeOK
      <3>4. QED
        BY <3>3, UnracedKept
    <2>2. QED
      BY <1>7, <2>1, UnracedReturnAfterResponse, UnracedReturnAfterExpiry, UnracedCheck,
         UnracedReturnIdle, UnracedSendPending, UnracedClose DEF Continue
  <1>8. CASE UNCHANGED vars
    <2>1. /\ available' = available /\ operation' = operation /\ wire' = wire
          /\ held' = held /\ socketContext' = socketContext /\ expired' = expired
          /\ answer' = answer /\ threads' = threads /\ pc' = pc
      BY <1>8 DEF vars, group, channels, client
    <2>2. QED
      BY <2>1, UnracedKept
  <1>9. CASE Quiescent
    BY <1>8, <1>9 DEF Quiescent
  <1>10. QED
    BY <1>1, <1>2, <1>3, <1>4, <1>5, <1>6, <1>7, <1>8, <1>9 DEF Next

(* The check of the channel's operation in returnOrCloseDirect is enough   *)
(* for every end of a request but one: until a response is handled while   *)
(* its request is being expired, a connection that is used again never     *)
(* brings a response that an earlier operation was to receive.             *)
THEOREM ResponsesOwned == Spec => []OwnResponseUnlessRaced
  <1> DEFINE Inv == PoolInv /\ AnsweredInv /\ (Raced \/ UnracedInv)
  <1>1. Init => Inv
    BY PoolInit, AnsweredInit, UnracedInit
  <1>2. Inv /\ [Next]_vars => Inv'
    <2>1. ASSUME Inv, [Next]_vars
          PROVE  Inv'
      BY <2>1, PoolNext, AnsweredNext, RacedStable, UnracedNext
    <2>2. QED
      BY <2>1
  <1>3. Inv => OwnResponseUnlessRaced
    BY DEF UnracedInv, OwnResponseUnlessRaced
  <1>4. QED
    BY <1>1, <1>2, <1>3, PTL DEF Spec
=============================================================================
