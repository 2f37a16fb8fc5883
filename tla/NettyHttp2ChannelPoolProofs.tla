-------------------- MODULE NettyHttp2ChannelPoolProofs ---------------------
(***************************************************************************)
(* What the HTTP/2 connection pool guarantees for any number of requests,  *)
(* connections and streams and any length of its queue: no request is left *)
(* waiting that nobody will wake, no connection that carries requests is   *)
(* forgotten, and a connection that is being opened has the one request    *)
(* that opens it or a return that will close it.                           *)
(*                                                                         *)
(* Http2Inv is the inductive invariant of all of them.  It relates the     *)
(* place of a request to the queue, to the thread that polled it, to the   *)
(* context it holds and to the stream it waits on, and the state of a      *)
(* connection to its place in the group and to the thread that took it out *)
(* and has yet to close it.                                                *)
(***************************************************************************)
EXTENDS NettyHttp2ChannelPool, FiniteSetTheorems, SequenceTheorems, WellFoundedInduction, TLAPS

store == pendingRequests.store

(* The queue holds each pending request once, and no other.                *)
QueueInv ==
    /\ pendingRequests.limit > 0
    /\ \A i \in 1 .. Len(store) : pc[store[i]] = "queued"
    /\ \A i, j \in 1 .. Len(store) : store[i] = store[j] => i = j

(* A request has a context from its selection until it is sent, and a      *)
(* socket context from there until it is completed.                        *)
RequestInv ==
    \A r \in Requests :
        /\ (pc[r] = "holding") <=> (held[r] # NoContext)
        /\ (pc[r] = "sent") <=> (socketContext[r] # NoContext)

(* A request on a stream of a connection was sent on it.                   *)
StreamInv == \A c \in Contexts : \A r \in streams[c] : socketContext[r] = c

(* A return of a context polls before it closes or sends, has taken the    *)
(* context out of the group when it is to close it, and alone has the      *)
(* request it polled.                                                      *)
ThreadAt(t) ==
    /\ t.step \in {"check", "lock"} => t.next = {}
    /\ t.step = "send" => ~t.close
    /\ t.step = "close" => t.ctx \notin inUse
    /\ IsFiniteSet(t.next)
    /\ \A r \in t.next : pc[r] = "polled"

ThreadInv ==
    /\ \A t \in threads : ThreadAt(t)
    /\ \A t, u \in threads : t.next \cap u.next # {} => t = u

(* A connection that is being opened carries nothing; it has either the    *)
(* one request that opens it, and no return under way, or a return that    *)
(* will close it.                                                          *)
Opening(c) ==
    channel[c] = "openInProgress" =>
        /\ streams[c] = {} /\ \A r \in Requests : socketContext[r] # c
        /\ \A t \in threads : t.ctx = c => t.close
        /\ (\E r \in Requests : held[r] = c) \/ (\E t \in threads : t.ctx = c)
        /\ \A r \in Requests : held[r] = c =>
              /\ c \in inUse
              /\ \A q \in Requests : held[q] = c => q = r
              /\ \A t \in threads : t.ctx # c

OpeningIsAttended == \A c \in Contexts : Opening(c)

(* A connection that is not closed is in the group, or about to be closed. *)
Attended(c) == c \in inUse \/ \E t \in threads : t.ctx = c /\ t.step = "close"

LiveContextsAttended == \A c \in Contexts : channel[c] # "closed" => Attended(c)

Http2Inv ==
    /\ TypeOK /\ QueueInv /\ RequestInv /\ StreamInv /\ ThreadInv
    /\ OpeningIsAttended /\ LiveContextsAttended /\ ActiveContextsAttended
    /\ NoStrandedRequest

-----------------------------------------------------------------------------
(* Sequences and the queue.                                                *)

(* Induction over the natural numbers, as the least counterexample: a set  *)
(* of natural numbers that is not empty has a least element.               *)
LEMMA LeastNatural ==
  ASSUME NEW T \in SUBSET Nat, T # {}
  PROVE  \E m \in T : \A n \in T : m =< n
  <1>1. PICK m \in T : \A n \in T : ~(<<n, m>> \in OpToRel(<, Nat))
    BY NatLessThanWellFounded, WFMin, Zenon
  <1>2. \A n \in T : ~(n < m)
    BY <1>1 DEF OpToRel
  <1>3. \A n \in T : n \in Nat
    OBVIOUS
  <1>4. m \in Nat
    BY <1>1
  <1>5. \A n \in T : m =< n
    BY <1>2, <1>3, <1>4
  <1>6. QED
    BY <1>1, <1>5, Zenon

(* The function removeAll is defined by, for the first k operations of a   *)
(* sequence.                                                               *)
Kept(s, S, k, f) ==
    f = [n \in 0 .. k |-> IF n = 0 THEN <<>>
                          ELSE IF s[n] \in S THEN f[n - 1] ELSE Append(f[n - 1], s[n])]

LEMMA KeptExists ==
  ASSUME NEW s, NEW S, NEW k \in Nat
  PROVE  \E f : Kept(s, S, k, f)
  <1> DEFINE Bad == {n \in Nat : ~ \E f : Kept(s, S, n, f)}
  <1>1. SUFFICES ASSUME Bad # {} PROVE FALSE
    <2>1. Bad = {}
      BY <1>1
    <2>2. QED
      BY <2>1
  <1>2. PICK m \in Bad : \A n \in Bad : m =< n
    <2>1. Bad \in SUBSET Nat
      OBVIOUS
    <2>2. QED
      BY <1>1, <2>1, LeastNatural, Zenon
  <1>3. m \in Nat /\ ~ \E f : Kept(s, S, m, f)
    BY <1>2
  <1> HIDE DEF Bad
  <1>4. CASE m = 0
    <2>1. Kept(s, S, 0, [n \in 0 .. 0 |-> <<>>])
      BY DEF Kept
    <2>2. QED
      BY <2>1, <1>3, <1>4, Zenon
  <1>5. CASE m # 0
    <2>1. m - 1 \in Nat /\ ~(m =< m - 1)
      BY <1>3, <1>5
    <2>2. m - 1 \notin Bad
      BY <1>2, <2>1, Zenon
    <2>3. PICK g : Kept(s, S, m - 1, g)
      BY <2>1, <2>2 DEF Bad
    <2>4. PICK f : f = [n \in 0 .. m |->
                          IF n < m THEN g[n]
                          ELSE IF s[m] \in S THEN g[m - 1] ELSE Append(g[m - 1], s[m])]
      OBVIOUS
    <2>5. \A n \in 0 .. m - 1 : f[n] = g[n]
      BY <2>4, <1>3, <1>5
    <2>6. \A n \in 0 .. m - 1 :
             g[n] = IF n = 0 THEN <<>>
                    ELSE IF s[n] \in S THEN g[n - 1] ELSE Append(g[n - 1], s[n])
      BY <2>3 DEF Kept
    <2>7. \A n \in 0 .. m :
             f[n] = IF n = 0 THEN <<>>
                    ELSE IF s[n] \in S THEN f[n - 1] ELSE Append(f[n - 1], s[n])
      <3>1. TAKE n \in 0 .. m
      <3>2. CASE n = m
        <4>1. f[n] = IF s[m] \in S THEN g[m - 1] ELSE Append(g[m - 1], s[m])
          BY <3>2, <2>4, <1>3
        <4>2. f[m - 1] = g[m - 1]
          BY <2>5, <2>1
        <4>3. QED
          BY <4>1, <4>2, <3>2, <1>5
      <3>3. CASE n # m /\ n = 0
        BY <3>3, <2>5, <2>6, <1>3
      <3>4. CASE n # m /\ n # 0
        <4>1. n \in 0 .. m - 1 /\ n - 1 \in 0 .. m - 1
          BY <3>4, <1>3
        <4>2. f[n] = g[n] /\ f[n - 1] = g[n - 1]
          BY <4>1, <2>5
        <4>3. QED
          BY <4>1, <4>2, <2>6, <3>4
      <3>5. QED
        BY <3>2, <3>3, <3>4
    <2>8. Kept(s, S, m, f)
      BY <2>4, <2>7 DEF Kept
    <2>9. QED
      BY <2>8, <1>3, Zenon
  <1>6. QED
    BY <1>4, <1>5

(* What removeAll leaves of a sequence.                                    *)
Filtered(s, S, u) ==
    /\ u \in Seq(Requests)
    /\ \A i \in 1 .. Len(u) : u[i] \notin S
    /\ \A i \in 1 .. Len(u) : \E j \in 1 .. Len(s) : u[i] = s[j]
    /\ \A j \in 1 .. Len(s) : s[j] \notin S => \E i \in 1 .. Len(u) : u[i] = s[j]
    /\ (\A i, j \in 1 .. Len(s) : s[i] = s[j] => i = j)
         => \A i, j \in 1 .. Len(u) : u[i] = u[j] => i = j

LEMMA KeptFacts ==
  ASSUME NEW s \in Seq(Requests), NEW S, NEW k \in Nat, k = Len(s), NEW f, Kept(s, S, k, f)
  PROVE  Filtered(s, S, f[k])
  <1> DEFINE Good(n) ==
          /\ f[n] \in Seq(Requests)
          /\ \A i \in 1 .. Len(f[n]) : f[n][i] \notin S
          /\ \A i \in 1 .. Len(f[n]) : \E j \in 1 .. n : f[n][i] = s[j]
          /\ \A j \in 1 .. n : s[j] \notin S => \E i \in 1 .. Len(f[n]) : f[n][i] = s[j]
          /\ (\A i, j \in 1 .. k : s[i] = s[j] => i = j)
               => \A i, j \in 1 .. Len(f[n]) : f[n][i] = f[n][j] => i = j
         Bad == {n \in 0 .. k : ~Good(n)}
  <1>1. \A n \in 0 .. k : f[n] = IF n = 0 THEN <<>>
                                 ELSE IF s[n] \in S THEN f[n - 1] ELSE Append(f[n - 1], s[n])
    BY DEF Kept
  <1>2. ASSUME Bad # {} PROVE FALSE
    <2>1. PICK m \in Bad : \A n \in Bad : m =< n
      <3>1. Bad \in SUBSET Nat
        OBVIOUS
      <3>2. QED
        BY <1>2, <3>1, LeastNatural, Zenon
    <2>2. m \in 0 .. k /\ ~Good(m)
      BY <2>1
    <2> HIDE DEF Bad
    <2>3. CASE m = 0
      <3>1. f[0] = <<>>
        BY <1>1
      <3>2. Good(0)
        BY <3>1
      <3>3. QED
        BY <2>2, <2>3, <3>2
    <2>4. CASE m # 0
      <3>1. m - 1 \in 0 .. k /\ ~(m =< m - 1) /\ m \in 1 .. k /\ m \in Nat
        BY <2>2, <2>4
      <3>2. Good(m - 1)
        BY <2>1, <3>1 DEF Bad
      <3>3. PICK g, u, x : g = f[m - 1] /\ u = f[m] /\ x = s[m]
        OBVIOUS
      <3>4. /\ g \in Seq(Requests) /\ Len(g) \in Nat /\ x \in Requests
            /\ \A i \in 1 .. Len(g) : g[i] \notin S
            /\ \A i \in 1 .. Len(g) : \E j \in 1 .. m - 1 : g[i] = s[j]
            /\ \A j \in 1 .. m - 1 : s[j] \notin S => \E i \in 1 .. Len(g) : g[i] = s[j]
            /\ (\A i, j \in 1 .. k : s[i] = s[j] => i = j)
                 => \A i, j \in 1 .. Len(g) : g[i] = g[j] => i = j
        <4>1. /\ g \in Seq(Requests)
              /\ \A i \in 1 .. Len(g) : g[i] \notin S
              /\ \A i \in 1 .. Len(g) : \E j \in 1 .. m - 1 : g[i] = s[j]
          BY <3>2, <3>3, Zenon
        <4>2. \A j \in 1 .. m - 1 : s[j] \notin S => \E i \in 1 .. Len(g) : g[i] = s[j]
          BY <3>2, <3>3, Zenon
        <4>3. (\A i, j \in 1 .. k : s[i] = s[j] => i = j)
                => \A i, j \in 1 .. Len(g) : g[i] = g[j] => i = j
          BY <3>2, <3>3, Zenon
        <4>4. Len(g) \in Nat
          BY <4>1, LenProperties
        <4>5. x \in Requests
          BY <3>1, <3>3
        <4>6. QED
          BY <4>1, <4>2, <4>3, <4>4, <4>5, Zenon
      <3>5. u = IF x \in S THEN g ELSE Append(g, x)
        BY <1>1, <2>2, <2>4, <3>3
      <3>6. CASE x \in S
        <4>1. u = g /\ \A j \in 1 .. m : j \in 1 .. m - 1 \/ (j = m /\ s[j] \in S)
          BY <3>1, <3>3, <3>5, <3>6
        <4>1a. \A i \in 1 .. Len(u) : \E j \in 1 .. m : u[i] = s[j]
          <5>1. \A j \in 1 .. m - 1 : j \in 1 .. m
            BY <3>1
          <5>2. QED
            BY <5>1, <4>1, <3>4
        <4>1b. \A j \in 1 .. m : s[j] \notin S => \E i \in 1 .. Len(u) : u[i] = s[j]
          BY <4>1, <3>4
        <4>1c. /\ u \in Seq(Requests) /\ \A i \in 1 .. Len(u) : u[i] \notin S
               /\ (\A i, j \in 1 .. k : s[i] = s[j] => i = j)
                    => \A i, j \in 1 .. Len(u) : u[i] = u[j] => i = j
          BY <4>1, <3>4
        <4>1d. Good(m)
          BY <4>1a, <4>1b, <4>1c, <3>3, Zenon
        <4>2. QED
          BY <4>1d, <2>2
      <3>7. CASE x \notin S
        <4>1. /\ u \in Seq(Requests) /\ Len(u) = Len(g) + 1
              /\ \A i \in 1 .. Len(g) : u[i] = g[i]
              /\ u[Len(g) + 1] = x
          BY <3>4, <3>5, <3>7, AppendProperties
        <4>2. \A i \in 1 .. Len(u) : i \in 1 .. Len(g) \/ i = Len(g) + 1
          BY <4>1, <3>4
        <4>3. \A i \in 1 .. Len(u) : u[i] \notin S
          BY <4>1, <4>2, <3>4, <3>7
        <4>4. \A i \in 1 .. Len(u) : \E j \in 1 .. m : u[i] = s[j]
          <5>1. TAKE i \in 1 .. Len(u)
          <5>2. CASE i \in 1 .. Len(g)
            <6>1. PICK j \in 1 .. m - 1 : g[i] = s[j]
              BY <5>2, <3>4
            <6>2. j \in 1 .. m /\ u[i] = s[j]
              BY <6>1, <5>2, <4>1, <3>1
            <6>3. QED
              BY <6>2
          <5>3. CASE i = Len(g) + 1
            <6>1. m \in 1 .. m /\ u[i] = s[m]
              BY <5>3, <4>1, <3>1, <3>3
            <6>2. QED
              BY <6>1
          <5>4. QED
            BY <5>2, <5>3, <4>2
        <4>5. \A j \in 1 .. m : s[j] \notin S => \E i \in 1 .. Len(u) : u[i] = s[j]
          <5>1. Len(g) + 1 \in 1 .. Len(u) /\ \A i \in 1 .. Len(g) : i \in 1 .. Len(u)
            BY <4>1, <3>4
          <5>2. \A j \in 1 .. m : j \in 1 .. m - 1 \/ j = m
            BY <3>1
          <5>3. TAKE j \in 1 .. m
          <5>4. HAVE s[j] \notin S
          <5>5. CASE j \in 1 .. m - 1
            <6>1. PICK i \in 1 .. Len(g) : g[i] = s[j]
              BY <5>4, <5>5, <3>4
            <6>2. i \in 1 .. Len(u) /\ u[i] = s[j]
              BY <6>1, <5>1, <4>1
            <6>3. QED
              BY <6>2
          <5>6. CASE j = m
            BY <5>6, <5>1, <4>1, <3>3
          <5>7. QED
            BY <5>2, <5>5, <5>6
        <4>6. ASSUME \A i, j \in 1 .. k : s[i] = s[j] => i = j
              PROVE  \A i, j \in 1 .. Len(u) : u[i] = u[j] => i = j
          <5>1. \A i \in 1 .. Len(g) : g[i] # x
            BY <4>6, <3>1, <3>3, <3>4
          <5>2. \A i, j \in 1 .. Len(g) : g[i] = g[j] => i = j
            BY <4>6, <3>4
          <5>3. QED
            BY <5>1, <5>2, <4>1, <4>2, <3>4
        <4>7. Good(m)
          BY <4>1, <4>3, <4>4, <4>5, <4>6, <3>3, Zenon
        <4>8. QED
          BY <4>7, <2>2
      <3>8. QED
        BY <3>6, <3>7
    <2>5. QED
      BY <2>3, <2>4
  <1>3. Good(k)
    <2>1. k \in 0 .. k
      OBVIOUS
    <2>2. QED
      BY <1>2, <2>1
  <1>4. QED
    BY <1>3 DEF Filtered

LEMMA QueueFields ==
  ASSUME NEW q \in Queue(Requests)
  PROVE  /\ q.limit \in Int /\ q.elementCount \in Int /\ q.store \in Seq(Requests)
         /\ Len(q.store) \in Nat
  BY LenProperties DEF Queue

(* offer appends to a queue whose limit is positive.                       *)
LEMMA OfferFacts ==
  ASSUME NEW q \in Queue(Requests), NEW r \in Requests, q.limit > 0
  PROVE  /\ offer(q, r) \in Queue(Requests) /\ offer(q, r).limit = q.limit
         /\ Len(offer(q, r).store) = Len(q.store) + 1
         /\ \A i \in 1 .. Len(q.store) : offer(q, r).store[i] = q.store[i]
         /\ offer(q, r).store[Len(q.store) + 1] = r
  <1>1. PICK st, n : st = Append(q.store, r) /\ n = q.elementCount + 1
    OBVIOUS
  <1>2. ~(q.limit < 0) /\ n \in Int
    BY <1>1, QueueFields
  <1>3. offer(q, r) = [q EXCEPT !.store = st, !.elementCount = n]
    BY <1>1, <1>2 DEF offer
  <1>4. /\ st \in Seq(Requests) /\ Len(st) = Len(q.store) + 1
        /\ \A i \in 1 .. Len(q.store) : st[i] = q.store[i]
        /\ st[Len(q.store) + 1] = r
    BY <1>1, QueueFields, AppendProperties
  <1>5. /\ offer(q, r) \in Queue(Requests) /\ offer(q, r).limit = q.limit
        /\ offer(q, r).store = st
    BY <1>2, <1>3, <1>4 DEF Queue
  <1>6. QED
    BY <1>4, <1>5

(* poll takes the first element off a queue that has one.                  *)
LEMMA PollFacts ==
  ASSUME NEW q \in Queue(Requests)
  PROVE  /\ poll(q) \in Queue(Requests) /\ poll(q).limit = q.limit
         /\ isEmpty(q) => poll(q) = q
         /\ ~isEmpty(q) => /\ polled(q) \in Requests /\ polled(q) = q.store[1]
                           /\ Len(q.store) >= 1
                           /\ Len(poll(q).store) = Len(q.store) - 1
                           /\ \A i \in 1 .. Len(poll(q).store) : poll(q).store[i] = q.store[i + 1]
  <1>1. CASE isEmpty(q)
    BY <1>1 DEF poll
  <1>2. CASE ~isEmpty(q)
    <2>1. q.store # <<>> /\ q.store \in Seq(Requests)
      BY <1>2, QueueFields DEF isEmpty
    <2>2. PICK st, n : st = Tail(q.store) /\ n = q.elementCount - 1
      OBVIOUS
    <2>2a. poll(q) = [q EXCEPT !.store = st, !.elementCount = n] /\ n \in Int
      BY <1>2, <2>2, QueueFields DEF poll
    <2>3. /\ Head(q.store) \in Requests /\ Head(q.store) = q.store[1]
          /\ Tail(q.store) \in Seq(Requests) /\ Len(Tail(q.store)) = Len(q.store) - 1
          /\ \A i \in 1 .. Len(Tail(q.store)) : Tail(q.store)[i] = q.store[i + 1]
      BY <2>1
    <2>4. Len(q.store) >= 1
      BY <2>1
    <2>5. /\ poll(q) \in Queue(Requests) /\ poll(q).limit = q.limit
          /\ poll(q).store = Tail(q.store)
      BY <2>2, <2>2a, <2>3 DEF Queue
    <2>6. QED
      BY <1>2, <2>3, <2>4, <2>5 DEF polled
  <1>3. QED
    BY <1>1, <1>2

(* removeAll takes out the operations of S, keeps all others, and repeats  *)
(* none.                                                                   *)
LEMMA RemoveFacts ==
  ASSUME NEW q \in Queue(Requests), NEW S
  PROVE  /\ removeAll(q, S) \in Queue(Requests) /\ removeAll(q, S).limit = q.limit
         /\ toCollection(removeAll(q, S)) = toCollection(q) \ S
         /\ (\A i, j \in 1 .. Len(q.store) : q.store[i] = q.store[j] => i = j)
              => \A i, j \in 1 .. Len(removeAll(q, S).store) :
                    removeAll(q, S).store[i] = removeAll(q, S).store[j] => i = j
  <1>1. PICK s, k : s = q.store /\ k = Len(q.store)
    OBVIOUS
  <1>2. s \in Seq(Requests) /\ k \in Nat /\ k = Len(s)
    BY <1>1, QueueFields
  <1>3. PICK f : /\ f = CHOOSE kept : Kept(s, S, k, kept)
                 /\ removeAll(q, S) = [q EXCEPT !.store = f[k]]
    BY <1>1 DEF removeAll, Kept
  <1>4. Kept(s, S, k, f)
    BY <1>2, <1>3, KeptExists, Zenon
  <1>5. PICK u : u = f[k]
    OBVIOUS
  <1>6. /\ u \in Seq(Requests)
        /\ \A i \in 1 .. Len(u) : u[i] \notin S
        /\ \A i \in 1 .. Len(u) : \E j \in 1 .. Len(s) : u[i] = s[j]
        /\ \A j \in 1 .. Len(s) : s[j] \notin S => \E i \in 1 .. Len(u) : u[i] = s[j]
        /\ (\A i, j \in 1 .. Len(s) : s[i] = s[j] => i = j)
             => \A i, j \in 1 .. Len(u) : u[i] = u[j] => i = j
    <2>1. Filtered(s, S, u)
      BY <1>2, <1>4, <1>5, KeptFacts
    <2>2. QED
      BY <2>1 DEF Filtered
  <1>7. /\ removeAll(q, S) \in Queue(Requests) /\ removeAll(q, S).limit = q.limit
        /\ removeAll(q, S).store = u
    BY <1>3, <1>5, <1>6 DEF Queue
  <1>8. toCollection(removeAll(q, S)) = {u[i] : i \in 1 .. Len(u)}
    BY <1>7 DEF toCollection
  <1>9. toCollection(q) = {s[i] : i \in 1 .. Len(s)}
    BY <1>1 DEF toCollection
  <1>10. {u[i] : i \in 1 .. Len(u)} \subseteq {s[i] : i \in 1 .. Len(s)} \ S
    <2>1. SUFFICES ASSUME NEW x \in {u[i] : i \in 1 .. Len(u)}
                   PROVE  x \in {s[i] : i \in 1 .. Len(s)} \ S
      OBVIOUS
    <2>2. PICK i \in 1 .. Len(u) : x = u[i]
      BY <2>1
    <2>3. PICK j \in 1 .. Len(s) : u[i] = s[j]
      BY <1>6, <2>2
    <2>4. QED
      BY <1>6, <2>2, <2>3
  <1>11. {s[i] : i \in 1 .. Len(s)} \ S \subseteq {u[i] : i \in 1 .. Len(u)}
    <2>1. SUFFICES ASSUME NEW x \in {s[i] : i \in 1 .. Len(s)} \ S
                   PROVE  x \in {u[i] : i \in 1 .. Len(u)}
      OBVIOUS
    <2>2. PICK j \in 1 .. Len(s) : x = s[j]
      BY <2>1
    <2>3. PICK i \in 1 .. Len(u) : u[i] = s[j]
      BY <1>6, <2>1, <2>2
    <2>4. QED
      BY <2>2, <2>3
  <1>12. toCollection(removeAll(q, S)) = toCollection(q) \ S
    BY <1>8, <1>9, <1>10, <1>11
  <1>13. QED
    BY <1>1, <1>6, <1>7, <1>12

(* size() only sets elementCount.                                          *)
LEMMA SizeFacts ==
  ASSUME NEW q \in Queue(Requests)
  PROVE  /\ size(q) \in Queue(Requests) /\ size(q).limit = q.limit /\ size(q).store = q.store
         /\ toCollection(size(q)) = toCollection(q)
  BY QueueFields DEF size, Queue, toCollection

LEMMA ThreadFields ==
  ASSUME NEW t \in Thread
  PROVE  /\ t.req \in Requests /\ t.ctx \in Contexts /\ t.close \in BOOLEAN
         /\ t.by \in {"response", "failure"} /\ t.next \subseteq Requests
  BY DEF Thread

LEMMA ThreadMade ==
  ASSUME NEW r \in Requests, NEW c \in Contexts, NEW close \in BOOLEAN,
         NEW by \in {"response", "failure"}
  PROVE  /\ thread(r, c, close, by) \in Thread /\ thread(r, c, close, by).ctx = c
         /\ thread(r, c, close, by).close = close
         /\ thread(r, c, close, by).step = "check" /\ thread(r, c, close, by).next = {}
  BY DEF thread, Thread

-----------------------------------------------------------------------------
(* The queue when requests move.                                           *)

(* The requests in the queue are finitely many, and they are the queued    *)
(* ones the invariant speaks of.                                           *)
LEMMA PendingFacts ==
  ASSUME Http2Inv
  PROVE  /\ toCollection(pendingRequests) \subseteq Requests
         /\ IsFiniteSet(toCollection(pendingRequests))
         /\ \A r \in toCollection(pendingRequests) : pc[r] = "queued"
  <1>1. store \in Seq(Requests) /\ Len(store) \in Nat
    BY QueueFields DEF store, Http2Inv, TypeOK
  <1>2. PICK s : s = store
    OBVIOUS
  <1>3. toCollection(pendingRequests) = {s[i] : i \in 1 .. Len(s)}
    BY <1>2 DEF toCollection, store
  <1>4. s \in Seq(Requests) /\ Len(s) \in Nat
    BY <1>1, <1>2
  <1>5. IsFiniteSet({s[i] : i \in 1 .. Len(s)})
    <2>1. IsFiniteSet(1 .. Len(s))
      BY <1>4, FS_Interval
    <2>2. PICK T : T = {s[i] : i \in 1 .. Len(s)}
      OBVIOUS
    <2>3. s \in [1 .. Len(s) -> T]
      BY <1>4, <2>2, LenProperties
    <2>4. \A x \in T : \E i \in 1 .. Len(s) : s[i] = x
      BY <2>2
    <2>5. s \in Surjection(1 .. Len(s), T)
      BY <2>3, <2>4 DEF Surjection
    <2>6. QED
      BY <2>1, <2>2, <2>5, FS_Surjection DEF ExistsSurjection
  <1>6. {s[i] : i \in 1 .. Len(s)} \subseteq Requests
    BY <1>4
  <1>7. \A r \in {s[i] : i \in 1 .. Len(s)} : pc[r] = "queued"
    BY <1>2 DEF Http2Inv, QueueInv
  <1>8. QED
    BY <1>3, <1>5, <1>6, <1>7

LEMMA NextPendingFacts ==
  ASSUME Http2Inv
  PROVE  /\ NextPending \subseteq toCollection(pendingRequests)
         /\ NextPending \subseteq Requests /\ IsFiniteSet(NextPending)
         /\ \A r \in NextPending : pc[r] = "queued"
         /\ NextPending = {} => toCollection(pendingRequests) = {} /\ isEmpty(pendingRequests)
  <1>1. pendingRequests \in Queue(Requests)
    BY DEF Http2Inv, TypeOK
  <1>2. PICK q : q = pendingRequests
    OBVIOUS
  <1>3. CASE isEmpty(q)
    <2>1. toCollection(q) = {}
      BY <1>3 DEF isEmpty, toCollection
    <2>2. QED
      BY <1>2, <1>3, <2>1, FS_EmptySet DEF NextPending
  <1>4. CASE ~isEmpty(q)
    <2>1. NextPending = {polled(q)}
      BY <1>2, <1>4 DEF NextPending
    <2>2. polled(q) = q.store[1] /\ Len(q.store) >= 1 /\ Len(q.store) \in Nat
      BY <1>1, <1>2, <1>4, PollFacts, QueueFields
    <2>3. polled(q) \in toCollection(q)
      BY <2>2 DEF toCollection
    <2>4. QED
      BY <1>2, <2>1, <2>3, PendingFacts, FS_Singleton
  <1>5. QED
    BY <1>3, <1>4

LEMMA QueueKept ==
  ASSUME Http2Inv, pendingRequests' = pendingRequests \/ pendingRequests' = size(pendingRequests),
         \A r \in Requests : pc[r] = "queued" => pc'[r] = "queued"
  PROVE  /\ pendingRequests' \in Queue(Requests) /\ QueueInv'
         /\ toCollection(pendingRequests)' = toCollection(pendingRequests)
  <1>1. pendingRequests \in Queue(Requests)
    BY DEF Http2Inv, TypeOK
  <1>2. /\ pendingRequests' \in Queue(Requests) /\ store' = store
        /\ pendingRequests'.limit = pendingRequests.limit
        /\ toCollection(pendingRequests)' = toCollection(pendingRequests)
    BY <1>1, SizeFacts DEF store
  <1>3. store \in Seq(Requests)
    BY <1>1, QueueFields DEF store
  <1>4. \A i \in 1 .. Len(store) : store[i] \in Requests
    BY <1>3
  <1>5. QED
    BY <1>2, <1>4 DEF Http2Inv, QueueInv

LEMMA QueuePolled ==
  ASSUME Http2Inv, pendingRequests' = poll(pendingRequests),
         \A r \in Requests \ NextPending : pc[r] = "queued" => pc'[r] = "queued"
  PROVE  pendingRequests' \in Queue(Requests) /\ QueueInv'
  <1>1. pendingRequests \in Queue(Requests)
    BY DEF Http2Inv, TypeOK
  <1>2. CASE isEmpty(pendingRequests)
    <2>1. pendingRequests' = pendingRequests
      BY <1>1, <1>2, PollFacts
    <2>2. NextPending = {}
      BY <1>2 DEF NextPending
    <2>3. QED
      BY <2>1, <2>2, QueueKept
  <1>3. CASE ~isEmpty(pendingRequests)
    <2>1. PICK q : q = pendingRequests
      OBVIOUS
    <2>2. /\ store = q.store /\ store' = poll(q).store /\ q \in Queue(Requests)
          /\ pendingRequests' \in Queue(Requests) /\ pendingRequests'.limit = q.limit
          /\ Len(poll(q).store) = Len(q.store) - 1 /\ Len(q.store) >= 1 /\ Len(q.store) \in Nat
          /\ polled(q) = q.store[1] /\ q.store \in Seq(Requests)
          /\ \A i \in 1 .. Len(poll(q).store) : poll(q).store[i] = q.store[i + 1]
      BY <1>1, <1>3, <2>1, PollFacts, QueueFields DEF store
    <2>3. PICK s, u : s = store /\ u = store'
      OBVIOUS
    <2>4. /\ s \in Seq(Requests) /\ Len(s) \in Nat /\ Len(u) = Len(s) - 1
          /\ \A i \in 1 .. Len(u) : u[i] = s[i + 1]
          /\ Len(s) >= 1 /\ NextPending = {s[1]}
      BY <2>1, <2>2, <2>3, <1>3 DEF NextPending
    <2>5. /\ \A i \in 1 .. Len(s) : pc[s[i]] = "queued"
          /\ \A i, j \in 1 .. Len(s) : s[i] = s[j] => i = j
      BY <2>3 DEF Http2Inv, QueueInv
    <2>6. \A i \in 1 .. Len(s) : s[i] \in Requests
      BY <2>4
    <2>7. \A i \in 1 .. Len(u) : u[i] \in Requests /\ u[i] # s[1] /\ pc[u[i]] = "queued"
      BY <2>4, <2>5, <2>6
    <2>8. \A i \in 1 .. Len(u) : pc'[u[i]] = "queued"
      BY <2>4, <2>7
    <2>9. \A i, j \in 1 .. Len(u) : u[i] = u[j] => i = j
      BY <2>4, <2>5
    <2>10. pendingRequests'.limit > 0
      BY <2>1, <2>2 DEF Http2Inv, QueueInv
    <2>11. QED
      BY <2>2, <2>3, <2>8, <2>9, <2>10 DEF QueueInv
  <1>4. QED
    BY <1>2, <1>3

LEMMA QueueOffered ==
  ASSUME Http2Inv, NEW r \in Requests, pc[r] # "queued",
         pendingRequests' = offer(pendingRequests, r), pc' = [pc EXCEPT ![r] = "queued"]
  PROVE  pendingRequests' \in Queue(Requests) /\ QueueInv'
  <1>1. pendingRequests \in Queue(Requests) /\ pendingRequests.limit > 0
    BY DEF Http2Inv, TypeOK, QueueInv
  <1>2. PICK q : q = pendingRequests
    OBVIOUS
  <1>3. /\ pendingRequests' \in Queue(Requests) /\ pendingRequests'.limit = q.limit
        /\ store = q.store /\ store' = offer(q, r).store
        /\ Len(offer(q, r).store) = Len(q.store) + 1
        /\ \A i \in 1 .. Len(q.store) : offer(q, r).store[i] = q.store[i]
        /\ offer(q, r).store[Len(q.store) + 1] = r
        /\ q.store \in Seq(Requests) /\ Len(q.store) \in Nat
    BY <1>1, <1>2, OfferFacts, QueueFields DEF store
  <1>4. PICK s, u : s = store /\ u = store'
    OBVIOUS
  <1>5. /\ s \in Seq(Requests) /\ Len(s) \in Nat /\ Len(u) = Len(s) + 1 /\ u[Len(s) + 1] = r
        /\ \A i \in 1 .. Len(s) : u[i] = s[i]
        /\ \A i \in 1 .. Len(s) : s[i] \in Requests /\ pc[s[i]] = "queued"
        /\ \A i, j \in 1 .. Len(s) : s[i] = s[j] => i = j
    BY <1>3, <1>4 DEF Http2Inv, QueueInv
  <1>6. \A i \in 1 .. Len(s) : u[i] # r /\ pc'[u[i]] = "queued"
    BY <1>5 DEF Http2Inv, TypeOK
  <1>7. pc'[r] = "queued"
    BY DEF Http2Inv, TypeOK
  <1>8. \A i \in 1 .. Len(u) : i \in 1 .. Len(s) \/ i = Len(s) + 1
    BY <1>5
  <1>9. \A i \in 1 .. Len(u) : pc'[u[i]] = "queued"
    BY <1>5, <1>6, <1>7, <1>8
  <1>10. \A i, j \in 1 .. Len(u) : u[i] = u[j] => i = j
    BY <1>5, <1>6, <1>8
  <1>11. QED
    BY <1>1, <1>2, <1>3, <1>4, <1>9, <1>10 DEF QueueInv

(* transferAll leaves nothing.                                             *)
LEMMA QueueTransferred ==
  ASSUME Http2Inv,
         pendingRequests' = IF TransferPending = {} THEN pendingRequests
                            ELSE transferAll(pendingRequests)
  PROVE  /\ pendingRequests' \in Queue(Requests) /\ QueueInv'
         /\ toCollection(pendingRequests)' = {}
  <1>1. pendingRequests \in Queue(Requests) /\ pendingRequests.limit > 0
    BY DEF Http2Inv, TypeOK, QueueInv
  <1>2. store \in Seq(Requests) /\ Len(store) \in Nat
    BY <1>1, QueueFields DEF store
  <1>3. PICK s : s = store
    OBVIOUS
  <1>4. store' = <<>> /\ pendingRequests' \in Queue(Requests) /\ pendingRequests'.limit > 0
    <2>1. CASE TransferPending = {}
      <3>1. {s[i] : i \in 1 .. Len(s)} = {}
        BY <1>3, <2>1 DEF TransferPending, toCollection, store
      <3>2. s \in Seq(Requests) /\ Len(s) \in Nat
        BY <1>2, <1>3
      <3>3. Len(s) = 0
        <4>1. ASSUME Len(s) # 0 PROVE FALSE
          <5>1. 1 \in 1 .. Len(s)
            BY <4>1, <3>2
          <5>2. QED
            BY <5>1, <3>1
        <4>2. QED
          BY <4>1
      <3>4. s = <<>>
        BY <3>2, <3>3, EmptySeq
      <3>5. QED
        BY <1>1, <1>3, <2>1, <3>4 DEF store
    <2>2. CASE TransferPending # {}
      <3>1. PICK e, q : e = <<>> /\ q = pendingRequests
        OBVIOUS
      <3>2. pendingRequests' = [q EXCEPT !.store = e] /\ e \in Seq(Requests)
        BY <2>2, <3>1 DEF transferAll, clear
      <3>3. q \in Queue(Requests) /\ q.limit > 0
        BY <1>1, <3>1
      <3>4. store' = e /\ pendingRequests' \in Queue(Requests) /\ pendingRequests'.limit > 0
        BY <3>2, <3>3 DEF store, Queue
      <3>5. QED
        BY <3>1, <3>4
    <2>3. QED
      BY <2>1, <2>2
  <1>5. Len(store') = 0
    BY <1>4
  <1>6. QED
    BY <1>4, <1>5 DEF QueueInv, toCollection, store

(* The requests that expired leave the queue.                              *)
LEMMA QueueRemoved ==
  ASSUME Http2Inv, pendingRequests' = size(removeAll(pendingRequests, expired)),
         \A r \in Requests \ expired : pc[r] = "queued" => pc'[r] = "queued"
  PROVE  /\ pendingRequests' \in Queue(Requests) /\ QueueInv'
         /\ toCollection(pendingRequests)' = toCollection(pendingRequests) \ expired
  <1>1. PICK q, S : q = pendingRequests /\ S = expired
    OBVIOUS
  <1>2. q \in Queue(Requests) /\ q.limit > 0
    BY <1>1 DEF Http2Inv, TypeOK, QueueInv
  <1>3. PICK p : p = removeAll(q, S)
    OBVIOUS
  <1>4. p \in Queue(Requests) /\ p.limit > 0 /\ toCollection(p) = toCollection(q) \ S
    BY <1>2, <1>3, RemoveFacts
  <1>5. \A i, j \in 1 .. Len(p.store) : p.store[i] = p.store[j] => i = j
    <2>1. \A i, j \in 1 .. Len(q.store) : q.store[i] = q.store[j] => i = j
      BY <1>1 DEF Http2Inv, QueueInv, store
    <2>2. QED
      BY <2>1, <1>2, <1>3, RemoveFacts
  <1>6. /\ pendingRequests' \in Queue(Requests) /\ pendingRequests'.limit > 0
        /\ store' = p.store /\ toCollection(pendingRequests)' = toCollection(p)
    <2>1. pendingRequests' = size(p)
      BY <1>1, <1>3
    <2>2. QED
      BY <2>1, <1>4, SizeFacts DEF store
  <1>7. \A i \in 1 .. Len(p.store) : p.store[i] \in toCollection(p)
    BY DEF toCollection
  <1>8. \A r \in toCollection(p) : pc'[r] = "queued"
    BY <1>1, <1>4, PendingFacts
  <1>9. QED
    BY <1>1, <1>4, <1>5, <1>6, <1>7, <1>8 DEF QueueInv

-----------------------------------------------------------------------------
(* The parts of the invariant that are not about the queue.                *)
TypeRest ==
    /\ inUse \subseteq Contexts
    /\ channel \in [Contexts -> {"openInProgress", "open", "closed"}]
    /\ used \in [Contexts -> Nat]
    /\ streams \in [Contexts -> SUBSET Requests]
    /\ pc \in [Requests -> Places]
    /\ held \in [Requests -> Contexts \cup {NoContext}]
    /\ socketContext \in [Requests -> Contexts \cup {NoContext}]
    /\ expired \subseteq Requests
    /\ threads \subseteq Thread
    /\ lost \subseteq Requests

ContextInv ==
    /\ TypeRest /\ RequestInv /\ StreamInv /\ ThreadInv
    /\ OpeningIsAttended /\ LiveContextsAttended /\ ActiveContextsAttended

(* The requests that wait to be woken, and what is under way to wake them. *)
Waiting == toCollection(pendingRequests) \ (expired \cup lost)

Awaited ==
    \/ \E t \in threads : t.step \in {"check", "lock"} \/ t.next # {}
    \/ \E r \in Requests : pc[r] \in {"selecting", "holding", "sent"}

LEMMA Parts ==
  ASSUME Http2Inv
  PROVE  /\ TypeRest /\ RequestInv /\ StreamInv /\ ThreadInv
         /\ OpeningIsAttended /\ LiveContextsAttended /\ ActiveContextsAttended
  BY DEF Http2Inv, TypeOK, TypeRest

LEMMA Whole ==
  ASSUME ContextInv', pendingRequests' \in Queue(Requests), QueueInv',
         Waiting' # {} => Awaited'
  PROVE  Http2Inv'
  BY DEF Http2Inv, TypeOK, TypeRest, ContextInv, NoStrandedRequest, Awaited, Waiting

LEMMA WaitingAwaited ==
  ASSUME Http2Inv, Waiting # {}
  PROVE  Awaited
  BY DEF Http2Inv, NoStrandedRequest, Awaited, Waiting

(* A step that keeps the queue, and what empties it.                       *)
LEMMA AwaitedKept ==
  ASSUME Http2Inv, toCollection(pendingRequests)' = toCollection(pendingRequests),
         expired \subseteq expired', lost' = lost, Awaited => Awaited'
  PROVE  Waiting' # {} => Awaited'
  <1>1. HAVE Waiting' # {}
  <1>2. Waiting # {}
    BY <1>1 DEF Waiting
  <1>3. QED
    BY <1>2, WaitingAwaited

-----------------------------------------------------------------------------
(* What a step may do to the threads and the contexts it does not act on.  *)

LEMMA ThreadsKept ==
  ASSUME Http2Inv,
         \A t \in threads' : t \in threads \/ (t.step = "check" /\ t.next = {}),
         \A t \in threads' : t \in threads /\ t.step = "close" => t.ctx \notin inUse',
         \A t \in threads' : t \in threads => \A r \in t.next : pc[r] = "polled" => pc'[r] = "polled"
  PROVE  ThreadInv'
  <1>1. ThreadInv
    BY Parts
  <1>2. ASSUME NEW t \in threads'
        PROVE  ThreadAt(t)'
    <2>1. CASE t \in threads
      <3>1. ThreadAt(t)
        BY <1>1, <2>1 DEF ThreadInv
      <3>2. QED
        BY <3>1, <2>1, <1>2 DEF ThreadAt
    <2>2. CASE t.step = "check" /\ t.next = {}
      BY <2>2, FS_EmptySet DEF ThreadAt
    <2>3. QED
      BY <2>1, <2>2
  <1>3. \A t, u \in threads' : t.next \cap u.next # {} => t = u
    BY <1>1 DEF ThreadInv
  <1>4. QED
    BY <1>2, <1>3 DEF ThreadInv

LEMMA OpeningKept ==
  ASSUME NEW d \in Contexts, Opening(d),
         channel'[d] = "openInProgress" => channel[d] = "openInProgress",
         streams[d] = {} => streams'[d] = {}, d \in inUse => d \in inUse',
         \A r \in Requests : held'[r] = d <=> held[r] = d,
         \A r \in Requests : socketContext'[r] = d => socketContext[r] = d,
         \A t \in threads' : t.ctx = d => t \in threads,
         \A t \in threads : t.ctx = d => t \in threads'
  PROVE  Opening(d)'
  <1>1. SUFFICES ASSUME channel'[d] = "openInProgress"
                 PROVE  Opening(d)'
    BY DEF Opening
  <1>2. /\ streams[d] = {} /\ \A r \in Requests : socketContext[r] # d
        /\ \A t \in threads : t.ctx = d => t.close
        /\ (\E r \in Requests : held[r] = d) \/ (\E t \in threads : t.ctx = d)
        /\ \A r \in Requests : held[r] = d =>
              /\ d \in inUse
              /\ \A q \in Requests : held[q] = d => q = r
              /\ \A t \in threads : t.ctx # d
    BY <1>1 DEF Opening
  <1>3. streams'[d] = {} /\ \A r \in Requests : socketContext'[r] # d
    BY <1>2
  <1>4. \A t \in threads' : t.ctx = d => t.close
    BY <1>2
  <1>5. (\E r \in Requests : held'[r] = d) \/ (\E t \in threads' : t.ctx = d)
    BY <1>2
  <1>6. \A r \in Requests : held'[r] = d =>
              /\ d \in inUse'
              /\ \A q \in Requests : held'[q] = d => q = r
              /\ \A t \in threads' : t.ctx # d
    BY <1>2
  <1>7. QED
    BY <1>3, <1>4, <1>5, <1>6 DEF Opening

LEMMA AttendedKept ==
  ASSUME NEW d, Attended(d), d \in inUse => Attended(d)',
         \A t \in threads : t.ctx = d /\ t.step = "close" => t \in threads'
  PROVE  Attended(d)'
  BY DEF Attended

-----------------------------------------------------------------------------
(* SendOn: the requests R leave the queue, the context they held or the    *)
(* thread that polled them, and are written to c.                          *)
LEMMA SendFacts ==
  ASSUME Http2Inv, NEW c \in Contexts, NEW R \in SUBSET Requests, IsFiniteSet(R),
         NEW state \in {"open", "closed"}, SendOn(c, R, state),
         \A r \in R : /\ pc[r] \in {"queued", "polled", "holding"}
                      /\ held[r] \in {c, NoContext},
         held' \in [Requests -> Contexts \cup {NoContext}],
         \A r \in Requests : held'[r] = IF r \in R THEN NoContext ELSE held[r],
         channel' = [channel EXCEPT ![c] = state], state = "open" => Attended(c),
         inUse' = inUse, expired' = expired,
         threads' \subseteq threads, \A t \in threads \ threads' : t.ctx = c /\ t.step # "close",
         \A t \in threads' : t.next \cap R = {}
  PROVE  /\ ContextInv'
         /\ \A r \in Requests \ R : pc'[r] = pc[r]
         /\ toCollection(pendingRequests)' = toCollection(pendingRequests)
              => (Waiting' # {} => Awaited')
  <1> PICK W : W = IF state = "open" THEN R \ expired ELSE {}
    OBVIOUS
  <1>1. /\ pc' = [r \in Requests |-> IF r \notin R THEN pc[r]
                                     ELSE IF r \in expired THEN "failed" ELSE "sent"]
        /\ socketContext' = [r \in Requests |-> IF r \in R \ expired THEN c ELSE socketContext[r]]
        /\ streams' = [streams EXCEPT ![c] = @ \cup W]
        /\ used' = [used EXCEPT ![c] = @ + Cardinality(W)]
        /\ lost' = IF R \subseteq expired THEN lost \cup (toCollection(pendingRequests) \ R)
                   ELSE lost
    BY DEF SendOn
  <1>2. W \subseteq R \ expired /\ W \subseteq Requests /\ (W # {} => Attended(c))
    OBVIOUS
  <1>3. Cardinality(W) \in Nat
    <2>1. IsFiniteSet(W)
      BY <1>2, FS_Subset
    <2>2. QED
      BY <2>1, FS_CardinalityType
  <1>4. /\ TypeRest /\ RequestInv /\ StreamInv
        /\ OpeningIsAttended /\ LiveContextsAttended /\ ActiveContextsAttended
    BY Parts
  <1>5. TypeRest'
    <2>1. used' \in [Contexts -> Nat]
      BY <1>1, <1>3, <1>4 DEF TypeRest
    <2>2. streams' \in [Contexts -> SUBSET Requests]
      BY <1>1, <1>2, <1>4 DEF TypeRest
    <2>3. pc' \in [Requests -> Places]
      BY <1>1, <1>4 DEF TypeRest, Places
    <2>4. socketContext' \in [Requests -> Contexts \cup {NoContext}]
      BY <1>1, <1>4 DEF TypeRest
    <2>5. channel' \in [Contexts -> {"openInProgress", "open", "closed"}]
      BY <1>4 DEF TypeRest
    <2>6. lost' \subseteq Requests
      BY <1>1, <1>4, PendingFacts DEF TypeRest
    <2>7. QED
      BY <2>1, <2>2, <2>3, <2>4, <2>5, <2>6, <1>4 DEF TypeRest
  <1>6. /\ \A d \in Contexts \ {c} : channel'[d] = channel[d] /\ streams'[d] = streams[d]
        /\ channel'[c] = state /\ streams'[c] = streams[c] \cup W
    BY <1>1, <1>4 DEF TypeRest
  <1>7. \A r \in Requests :
           /\ r \notin R => pc'[r] = pc[r] /\ socketContext'[r] = socketContext[r]
           /\ r \in R /\ r \in expired => pc'[r] = "failed" /\ socketContext'[r] = socketContext[r]
           /\ r \in R /\ r \notin expired => pc'[r] = "sent" /\ socketContext'[r] = c
    BY <1>1
  <1>8. \A r \in R : socketContext[r] = NoContext
    BY <1>4 DEF RequestInv
  <1>9. c # NoContext
    BY Http2PoolAssumption
  <1>10. RequestInv'
    BY <1>4, <1>7, <1>8, <1>9 DEF RequestInv
  <1>11. StreamInv'
    <2>1. \A d \in Contexts : \A r \in streams[d] : r \in Requests /\ r \notin R
      BY <1>4, <1>8, Http2PoolAssumption DEF StreamInv, TypeRest
    <2>2. \A r \in W : socketContext'[r] = c
      BY <1>2, <1>7
    <2>3. \A d \in Contexts : \A r \in streams[d] : socketContext'[r] = d
      BY <1>4, <1>7, <2>1 DEF StreamInv
    <2>4. QED
      BY <1>6, <2>2, <2>3 DEF StreamInv
  <1>12. ThreadInv'
    <2>1. \A t \in threads' : t \in threads /\ t \in Thread
      BY <1>4 DEF TypeRest
    <2>2. \A t \in threads' : \A r \in t.next : r \in Requests /\ pc'[r] = pc[r]
      BY <2>1, <1>7, ThreadFields
    <2>3. \A t \in threads' : t.step = "close" => t.ctx \notin inUse'
      BY <2>1, Parts DEF ThreadInv, ThreadAt
    <2>4. QED
      BY <2>1, <2>2, <2>3, ThreadsKept
  <1>13. OpeningIsAttended'
    <2>1. SUFFICES ASSUME NEW d \in Contexts
                   PROVE  Opening(d)'
      BY DEF OpeningIsAttended
    <2>2. CASE d = c
      BY <1>6, <2>2 DEF Opening
    <2>3. CASE d # c
      <3>1. Opening(d) /\ channel'[d] = channel[d] /\ streams'[d] = streams[d]
        BY <1>4, <1>6, <2>3 DEF OpeningIsAttended
      <3>2. \A r \in Requests : held'[r] = d <=> held[r] = d
        BY <2>3, Http2PoolAssumption
      <3>3. \A r \in Requests : socketContext'[r] = d => socketContext[r] = d
        BY <1>7, <2>3
      <3>4. \A t \in threads : t.ctx = d => t \in threads'
        BY <2>3
      <3>5. QED
        BY <3>1, <3>2, <3>3, <3>4, OpeningKept
    <2>4. QED
      BY <2>2, <2>3
  <1>14. \A d \in Contexts : Attended(d) => Attended(d)'
    BY DEF Attended
  <1>15. LiveContextsAttended' /\ ActiveContextsAttended'
    <2>1. LiveContextsAttended'
      BY <1>4, <1>6, <1>14 DEF LiveContextsAttended
    <2>2. \A d \in Contexts : streams'[d] # {} => Attended(d)'
      <3>1. \A d \in Contexts : streams[d] # {} => Attended(d)
        BY <1>4 DEF ActiveContextsAttended, Attended
      <3>2. QED
        BY <3>1, <1>2, <1>6, <1>14
    <2>3. ActiveContextsAttended'
      BY <2>2 DEF ActiveContextsAttended, Attended
    <2>4. QED
      BY <2>1, <2>3
  <1>16. ASSUME toCollection(pendingRequests)' = toCollection(pendingRequests), Waiting' # {}
         PROVE  Awaited'
    <2>1. CASE R \subseteq expired
      <3>1. lost' = lost \cup (toCollection(pendingRequests) \ R)
        BY <2>1, <1>1
      <3>2. QED
        BY <3>1, <2>1, <1>16 DEF Waiting
    <2>2. CASE ~(R \subseteq expired)
      BY <2>2, <1>7 DEF Awaited
    <2>3. QED
      BY <2>1, <2>2
  <1>17. QED
    BY <1>5, <1>7, <1>10, <1>11, <1>12, <1>13, <1>15, <1>16 DEF ContextInv

(* The context a request holds.                                            *)
LEMMA HeldFacts ==
  ASSUME Http2Inv, NEW r \in Requests, held[r] # NoContext
  PROVE  held[r] \in Contexts /\ pc[r] = "holding"
  BY DEF Http2Inv, TypeOK, RequestInv

LEMMA PolledFacts ==
  ASSUME Http2Inv, NEW t \in threads
  PROVE  /\ t \in Thread /\ t.ctx \in Contexts /\ t.next \subseteq Requests
         /\ IsFiniteSet(t.next) /\ ThreadAt(t)
         /\ \A r \in t.next : pc[r] = "polled" /\ held[r] = NoContext
         /\ \A u \in threads \ {t} : u.next \cap t.next = {}
  <1>1. t \in Thread /\ ThreadAt(t) /\ \A u \in threads \ {t} : u.next \cap t.next = {}
    BY Parts DEF TypeRest, ThreadInv
  <1>2. t.ctx \in Contexts /\ t.next \subseteq Requests
    BY <1>1, ThreadFields
  <1>3. IsFiniteSet(t.next) /\ \A r \in t.next : pc[r] = "polled"
    BY <1>1 DEF ThreadAt
  <1>4. \A r \in t.next : held[r] = NoContext
    BY <1>2, <1>3, Parts DEF RequestInv
  <1>5. QED
    BY <1>1, <1>2, <1>3, <1>4

(* Threads do not have the request that is sent on the context it held.    *)
LEMMA NotPolled ==
  ASSUME Http2Inv, NEW R, \A r \in R : pc[r] # "polled"
  PROVE  \A t \in threads : t.next \cap R = {}
  BY PolledFacts

LEMMA SendOnOpenInv ==
  ASSUME Http2Inv, NEW r \in Requests, sendOnOpen(r)
  PROVE  Http2Inv'
  <1>1. PICK c, R, state : c = held[r] /\ R = {r} /\ state = channel[held[r]]
    OBVIOUS
  <1>2. c \in Contexts /\ pc[r] = "holding"
    BY <1>1, HeldFacts DEF sendOnOpen
  <1>3. state \in {"open", "closed"} /\ (state = "open" => Attended(c))
    BY <1>1, <1>2 DEF sendOnOpen, Http2Inv, TypeOK, LiveContextsAttended
  <1>4. SendOn(c, R, state)
    BY <1>1 DEF sendOnOpen, SendOn
  <1>5. channel' = [channel EXCEPT ![c] = state]
    BY <1>1, <1>2 DEF sendOnOpen, Http2Inv, TypeOK
  <1>6. /\ held' \in [Requests -> Contexts \cup {NoContext}]
        /\ \A q \in Requests : held'[q] = IF q \in R THEN NoContext ELSE held[q]
    BY <1>1 DEF sendOnOpen, Http2Inv, TypeOK
  <1>7. /\ inUse' = inUse /\ expired' = expired /\ threads' = threads
        /\ pendingRequests' = pendingRequests
    BY DEF sendOnOpen, group
  <1>8. IsFiniteSet(R) /\ R \in SUBSET Requests
    BY <1>1, FS_Singleton
  <1>9. /\ ContextInv'
        /\ \A q \in Requests \ R : pc'[q] = pc[q]
        /\ toCollection(pendingRequests)' = toCollection(pendingRequests)
              => (Waiting' # {} => Awaited')
    <2>1. \A q \in R : /\ pc[q] \in {"queued", "polled", "holding"} /\ held[q] \in {c, NoContext}
                       /\ pc[q] # "polled"
      BY <1>1, <1>2
    <2>2. /\ threads' \subseteq threads
          /\ \A t \in threads \ threads' : t.ctx = c /\ t.step # "close"
          /\ \A t \in threads' : t.next \cap R = {}
      BY <1>7, <2>1, NotPolled
    <2>3. CASE state = "open"
      <3>1. SendOn(c, R, "open") /\ channel' = [channel EXCEPT ![c] = "open"] /\ Attended(c)
        BY <1>3, <1>4, <1>5, <2>3
      <3>2. QED
        BY <2>1, <2>2, <3>1, <1>2, <1>6, <1>7, <1>8, SendFacts
    <2>4. CASE state = "closed"
      <3>1. SendOn(c, R, "closed") /\ channel' = [channel EXCEPT ![c] = "closed"]
        BY <1>4, <1>5, <2>4
      <3>2. QED
        BY <2>1, <2>2, <3>1, <1>2, <1>6, <1>7, <1>8, SendFacts
    <2>5. QED
      BY <1>3, <2>3, <2>4
  <1>10. /\ pendingRequests' \in Queue(Requests) /\ QueueInv'
         /\ toCollection(pendingRequests)' = toCollection(pendingRequests)
    BY <1>1, <1>2, <1>7, <1>9, QueueKept
  <1>11. QED
    BY <1>9, <1>10, Whole

LEMMA SettingsSuccessInv ==
  ASSUME Http2Inv, NEW r \in Requests, settingsSuccess(r)
  PROVE  Http2Inv'
  <1>1. PICK c, P : c = held[r] /\ P = TransferPending
    OBVIOUS
  <1>2. c \in Contexts /\ pc[r] = "holding" /\ channel[c] = "openInProgress"
    BY <1>1, HeldFacts DEF settingsSuccess
  <1>3. Attended(c)
    BY <1>2 DEF Http2Inv, LiveContextsAttended
  <1>4. PICK R : R = {r} \cup P
    OBVIOUS
  <1>5. SendOn(c, R, "open")
    BY <1>1, <1>4 DEF settingsSuccess, SendOn
  <1>6. P \subseteq Requests /\ IsFiniteSet(P) /\ \A q \in P : pc[q] = "queued"
    BY <1>1, PendingFacts DEF TransferPending
  <1>7. R \in SUBSET Requests /\ IsFiniteSet(R)
    BY <1>4, <1>6, FS_Singleton, FS_Union
  <1>8. \A q \in P : held[q] = NoContext
    BY <1>6 DEF Http2Inv, RequestInv
  <1>9. \A q \in R : /\ pc[q] \in {"queued", "polled", "holding"} /\ held[q] \in {c, NoContext}
                     /\ pc[q] # "polled"
    BY <1>1, <1>2, <1>4, <1>6, <1>8
  <1>10. /\ held' \in [Requests -> Contexts \cup {NoContext}]
         /\ \A q \in Requests : held'[q] = IF q \in R THEN NoContext ELSE held[q]
    BY <1>4, <1>8 DEF settingsSuccess, Http2Inv, TypeOK
  <1>11. /\ inUse' = inUse /\ expired' = expired /\ threads' = threads
         /\ channel' = [channel EXCEPT ![c] = "open"]
         /\ pendingRequests' = IF TransferPending = {} THEN pendingRequests
                               ELSE transferAll(pendingRequests)
    BY <1>1 DEF settingsSuccess
  <1>12. \A t \in threads' : t.next \cap R = {}
    BY <1>9, <1>11, NotPolled
  <1>13. ContextInv'
    BY <1>2, <1>3, <1>5, <1>7, <1>9, <1>10, <1>11, <1>12, SendFacts
  <1>14. /\ pendingRequests' \in Queue(Requests) /\ QueueInv'
         /\ toCollection(pendingRequests)' = {}
    BY <1>11, QueueTransferred
  <1>15. QED
    BY <1>13, <1>14, Whole DEF Waiting

(* The request a thread polled goes out on the context the thread returns, *)
(* although another thread may have closed it meanwhile.                   *)
LEMMA SendPendingInv ==
  ASSUME Http2Inv, NEW t \in threads, sendPending(t)
  PROVE  Http2Inv'
  <1>1. PICK c, R, state : c = t.ctx /\ R = t.next /\ state = channel[t.ctx]
    OBVIOUS
  <1>2. /\ c \in Contexts /\ R \in SUBSET Requests /\ IsFiniteSet(R) /\ t.step = "send"
        /\ \A q \in R : pc[q] = "polled" /\ held[q] = NoContext
        /\ \A u \in threads \ {t} : u.next \cap R = {}
    BY <1>1, PolledFacts DEF sendPending
  <1>3. state \in {"open", "closed"} /\ (state = "open" => Attended(c))
    <2>1. channel[c] # "openInProgress"
      <3>1. ~t.close
        BY <1>2, PolledFacts DEF ThreadAt
      <3>2. QED
        BY <3>1, <1>1, <1>2 DEF Http2Inv, OpeningIsAttended, Opening
    <2>2. QED
      BY <2>1, <1>1, <1>2 DEF Http2Inv, TypeOK, LiveContextsAttended
  <1>4. SendOn(c, R, state)
    BY <1>1 DEF sendPending, SendOn
  <1>5. channel' = [channel EXCEPT ![c] = state]
    BY <1>1, <1>2 DEF sendPending, Http2Inv, TypeOK
  <1>6. /\ inUse' = inUse /\ expired' = expired /\ threads' = threads \ {t}
        /\ pendingRequests' = pendingRequests /\ held' = held
    BY DEF sendPending, group
  <1>7. /\ held' \in [Requests -> Contexts \cup {NoContext}]
        /\ \A q \in Requests : held'[q] = IF q \in R THEN NoContext ELSE held[q]
    BY <1>2, <1>6 DEF Http2Inv, TypeOK
  <1>8. /\ ContextInv'
        /\ \A q \in Requests \ R : pc'[q] = pc[q]
        /\ toCollection(pendingRequests)' = toCollection(pendingRequests)
              => (Waiting' # {} => Awaited')
    <2>1. \A q \in R : pc[q] \in {"queued", "polled", "holding"} /\ held[q] \in {c, NoContext}
      BY <1>2
    <2>2. /\ threads' \subseteq threads
          /\ \A u \in threads \ threads' : u.ctx = c /\ u.step # "close"
          /\ \A u \in threads' : u.next \cap R = {}
      BY <1>1, <1>2, <1>6
    <2>3. CASE state = "open"
      <3>1. SendOn(c, R, "open") /\ channel' = [channel EXCEPT ![c] = "open"] /\ Attended(c)
        BY <1>3, <1>4, <1>5, <2>3
      <3>2. QED
        BY <2>1, <2>2, <3>1, <1>2, <1>6, <1>7, SendFacts
    <2>4. CASE state = "closed"
      <3>1. SendOn(c, R, "closed") /\ channel' = [channel EXCEPT ![c] = "closed"]
        BY <1>4, <1>5, <2>4
      <3>2. QED
        BY <2>1, <2>2, <3>1, <1>2, <1>6, <1>7, SendFacts
    <2>5. QED
      BY <1>3, <2>3, <2>4
  <1>9. /\ pendingRequests' \in Queue(Requests) /\ QueueInv'
        /\ toCollection(pendingRequests)' = toCollection(pendingRequests)
    BY <1>2, <1>6, <1>8, QueueKept
  <1>10. QED
    BY <1>8, <1>9, Whole

(* A thread goes on: t becomes t1, which has the same context.  The        *)
(* requests t1 polled were in the queue.                                   *)
LEMMA ThreadMoved ==
  ASSUME Http2Inv, NEW t \in threads, NEW t1 \in Thread, NEW N \in SUBSET Requests,
         IsFiniteSet(N), t1.ctx = t.ctx, t1.next = N, t.close => t1.close,
         t.step \in {"check", "lock"},
         t1.step \in {"check", "lock"} => N = {} /\ inUse' = inUse,
         t1.step = "send" => ~t1.close,
         t1.step = "close" => t.ctx \notin inUse' /\ t1.close,
         \A r \in N : pc[r] = "queued" /\ pc'[r] = "polled",
         \A r \in Requests \ N : pc'[r] = pc[r], pc' \in [Requests -> Places],
         inUse' = inUse \/ (inUse' = inUse \ {t.ctx} /\ t1.step = "close"),
         threads' = (threads \ {t}) \cup {t1}
             \/ (threads' = threads \ {t} /\ inUse' = inUse /\ ~t.close),
         UNCHANGED <<channel, used, streams, held, socketContext, expired, lost>>
  PROVE  ContextInv'
  <1>1. /\ TypeRest /\ RequestInv /\ StreamInv /\ ThreadInv
        /\ OpeningIsAttended /\ LiveContextsAttended /\ ActiveContextsAttended
    BY Parts
  <1>2. t \in Thread /\ t.ctx \in Contexts /\ t.next = {} /\ t.step # "close"
    BY PolledFacts DEF ThreadAt
  <1>3. TypeRest'
    BY <1>1 DEF TypeRest
  <1>4. RequestInv'
    BY <1>1 DEF RequestInv
  <1>5. StreamInv'
    BY <1>1 DEF StreamInv
  <1>6. \A u \in threads : u.next \cap N = {}
    BY NotPolled
  <1>7. ThreadInv'
    <2>1. ASSUME NEW u \in threads', u \in threads
          PROVE  ThreadAt(u)'
      <3>1. ThreadAt(u) /\ u.next \subseteq Requests
        BY <2>1, PolledFacts
      <3>2. \A r \in u.next : pc'[r] = pc[r]
        BY <3>1, <2>1, <1>6
      <3>3. u.step = "close" => u.ctx \notin inUse'
        BY <3>1 DEF ThreadAt
      <3>4. QED
        BY <3>1, <3>2, <3>3 DEF ThreadAt
    <2>2. ThreadAt(t1)'
      BY DEF ThreadAt
    <2>3. \A u \in threads' : u \in threads \/ u = t1
      OBVIOUS
    <2>4. \A u, v \in threads' : u.next \cap v.next # {} => u = v
      BY <1>1, <1>6, <2>3 DEF ThreadInv
    <2>5. QED
      BY <2>1, <2>2, <2>3, <2>4 DEF ThreadInv
  <1>8. OpeningIsAttended'
    <2>1. SUFFICES ASSUME NEW d \in Contexts
                   PROVE  Opening(d)'
      BY DEF OpeningIsAttended
    <2>2. Opening(d)
      BY <1>1 DEF OpeningIsAttended
    <2>3. CASE d # t.ctx
      <3>1. /\ \A u \in threads' : u.ctx = d => u \in threads
            /\ \A u \in threads : u.ctx = d => u \in threads'
            /\ d \in inUse => d \in inUse'
        BY <2>3
      <3>2. QED
        BY <2>2, <3>1, OpeningKept
    <2>4. CASE d = t.ctx /\ channel[d] = "openInProgress"
      <3>1. /\ streams[d] = {} /\ \A r \in Requests : socketContext[r] # d
            /\ t.close /\ \A u \in threads : u.ctx = d => u.close
            /\ \A r \in Requests : held[r] # d
        BY <2>2, <2>4 DEF Opening
      <3>2. t1 \in threads' /\ t1.ctx = d /\ t1.close
        BY <2>4, <3>1
      <3>3. \A u \in threads' : u.ctx = d => u.close
        BY <3>1, <3>2
      <3>4. QED
        BY <3>1, <3>2, <3>3 DEF Opening
    <2>5. CASE channel[d] # "openInProgress"
      BY <2>5 DEF Opening
    <2>6. QED
      BY <2>3, <2>4, <2>5
  <1>9. \A d \in Contexts : Attended(d) => Attended(d)'
    <2>1. SUFFICES ASSUME NEW d \in Contexts, Attended(d)
                   PROVE  Attended(d)'
      OBVIOUS
    <2>2. CASE d \in inUse /\ d \notin inUse'
      <3>1. d = t.ctx /\ t1.step = "close" /\ inUse' # inUse
        BY <2>2
      <3>2. t1 \in threads'
        BY <3>1
      <3>3. QED
        BY <3>1, <3>2 DEF Attended
    <2>3. CASE d \in inUse'
      BY <2>3 DEF Attended
    <2>4. CASE d \notin inUse
      <3>1. PICK u \in threads : u.ctx = d /\ u.step = "close"
        BY <2>1, <2>4 DEF Attended
      <3>2. u \in threads'
        BY <3>1, <1>2
      <3>3. QED
        BY <3>1, <3>2 DEF Attended
    <2>5. QED
      BY <2>2, <2>3, <2>4
  <1>10. LiveContextsAttended'
    BY <1>1, <1>9 DEF LiveContextsAttended
  <1>11. ActiveContextsAttended'
    BY <1>1, <1>9 DEF ActiveContextsAttended, Attended
  <1>12. QED
    BY <1>3, <1>4, <1>5, <1>7, <1>8, <1>10, <1>11 DEF ContextInv

LEMMA CheckContextInv ==
  ASSUME Http2Inv, NEW t \in threads, checkContext(t)
  PROVE  Http2Inv'
  <1>1. PICK close, t1 : /\ close = IsClose(t)
                         /\ t1 = [t EXCEPT !.step = "lock", !.close = close]
    OBVIOUS
  <1>2. t \in Thread /\ ThreadAt(t) /\ t.step = "check" /\ t.next = {} /\ t.close \in BOOLEAN
    BY PolledFacts, ThreadFields DEF checkContext, ThreadAt
  <1>3. close \in BOOLEAN /\ (t.close => close)
    BY <1>1, <1>2 DEF IsClose
  <1>4. /\ t1 \in Thread /\ t1.step = "lock" /\ t1.ctx = t.ctx /\ t1.next = {}
        /\ t.close => t1.close
    BY <1>1, <1>2, <1>3 DEF Thread
  <1>5. /\ threads' = (threads \ {t}) \cup {t1}
        /\ UNCHANGED <<inUse, pendingRequests, channel, used, streams, pc, held, socketContext,
                       expired, lost>>
    BY <1>1 DEF checkContext, group, contexts, client
  <1>6. pc' \in [Requests -> Places]
    BY <1>5 DEF Http2Inv, TypeOK
  <1>7. ContextInv'
    <2>1. {} \in SUBSET Requests /\ IsFiniteSet({})
      BY FS_EmptySet
    <2>2. QED
      BY <2>1, <1>2, <1>4, <1>5, <1>6, ThreadMoved
  <1>8. pendingRequests' \in Queue(Requests) /\ QueueInv'
    BY <1>5, QueueKept
  <1>9. Awaited'
    BY <1>4, <1>5 DEF Awaited
  <1>10. QED
    BY <1>7, <1>8, <1>9, Whole

LEMMA TakePendingInv ==
  ASSUME Http2Inv, NEW t \in threads, takePending(t)
  PROVE  Http2Inv'
  <1>1. PICK N, step, t1 : /\ N = NextPending /\ step = (IF t.close THEN "close" ELSE "send")
                           /\ t1 = [t EXCEPT !.step = step, !.next = N]
    OBVIOUS
  <1>2. /\ t \in Thread /\ ThreadAt(t) /\ t.step = "lock" /\ t.ctx \in Contexts
        /\ t.close \in BOOLEAN
    BY PolledFacts, ThreadFields DEF takePending
  <1>3. /\ N \in SUBSET Requests /\ IsFiniteSet(N) /\ \A q \in N : pc[q] = "queued"
        /\ N = {} => toCollection(pendingRequests) = {} /\ isEmpty(pendingRequests)
    BY <1>1, NextPendingFacts
  <1>4. /\ t1 \in Thread /\ t1.step = step /\ t1.ctx = t.ctx /\ t1.next = N
        /\ t1.close = t.close
    BY <1>1, <1>2, <1>3 DEF Thread
  <1>5. /\ pendingRequests' = poll(pendingRequests)
        /\ inUse' = IF t.close THEN inUse \ {t.ctx} ELSE inUse
        /\ pc' = [r \in Requests |-> IF r \in N THEN "polled" ELSE pc[r]]
        /\ threads' = (threads \ {t}) \cup (IF t.close \/ N # {} THEN {t1} ELSE {})
        /\ UNCHANGED <<channel, used, streams, held, socketContext, expired, lost>>
    BY <1>1 DEF takePending, contexts
  <1>6. /\ pc' \in [Requests -> Places] /\ \A r \in N : pc'[r] = "polled"
        /\ \A r \in Requests \ N : pc'[r] = pc[r]
    BY <1>3, <1>5, Parts DEF TypeRest, Places
  <1>7. ContextInv'
    <2>1. CASE t.close
      <3>1. /\ step = "close" /\ inUse' = inUse \ {t.ctx} /\ t.ctx \notin inUse'
            /\ threads' = (threads \ {t}) \cup {t1} /\ t1.step = "close" /\ t1.close
        BY <2>1, <1>1, <1>4, <1>5
      <3>2. QED
        BY <3>1, <1>2, <1>3, <1>4, <1>5, <1>6, ThreadMoved
    <2>2. CASE ~t.close
      <3>1. /\ step = "send" /\ inUse' = inUse /\ t1.step = "send" /\ ~t1.close
            /\ threads' = (threads \ {t}) \cup {t1} \/ threads' = threads \ {t}
        BY <2>2, <1>1, <1>4, <1>5
      <3>2. QED
        BY <2>2, <3>1, <1>2, <1>3, <1>4, <1>5, <1>6, ThreadMoved
    <2>3. QED
      BY <2>1, <2>2
  <1>8. pendingRequests' \in Queue(Requests) /\ QueueInv'
    BY <1>1, <1>5, <1>6, QueuePolled
  <1>9. CASE N = {}
    <2>1. pendingRequests' = pendingRequests
      BY <1>3, <1>5, <1>9, PollFacts DEF Http2Inv, TypeOK
    <2>2. toCollection(pendingRequests)' = {}
      BY <2>1, <1>3, <1>9
    <2>3. QED
      BY <2>2, <1>7, <1>8, Whole DEF Waiting
  <1>10. CASE N # {}
    <2>1. t1 \in threads' /\ t1.next # {}
      BY <1>4, <1>5, <1>10
    <2>2. Awaited'
      BY <2>1 DEF Awaited
    <2>3. QED
      BY <2>2, <1>7, <1>8, Whole
  <1>11. QED
    BY <1>9, <1>10

(* Finish: the request leaves its stream, and its context is returned.     *)
LEMMA FinishInv ==
  ASSUME Http2Inv, NEW r \in Requests, pc[r] = "sent", NEW result \in {"ok", "failed"},
         NEW callers \in SUBSET {"response", "failure"}, callers # {},
         Finish(r, result, callers)
  PROVE  Http2Inv'
  <1>1. PICK c : c = socketContext[r]
    OBVIOUS
  <1>2. c \in Contexts /\ c # NoContext
    BY <1>1 DEF Http2Inv, TypeOK, RequestInv
  <1>3. PICK New : New = {thread(r, c, FALSE, by) : by \in callers}
    OBVIOUS
  <1>4. /\ pc' = [pc EXCEPT ![r] = result]
        /\ streams' = [streams EXCEPT ![c] = @ \ {r}]
        /\ socketContext' = [socketContext EXCEPT ![r] = NoContext]
        /\ threads' = threads \cup New
        /\ inUse' = inUse /\ pendingRequests' = pendingRequests /\ channel' = channel
        /\ used' = used /\ held' = held /\ expired' = expired /\ lost' = lost
    BY <1>1, <1>3 DEF Finish, group
  <1>5. New \subseteq Thread /\ New # {} /\ \A t \in New : t.ctx = c /\ t.step = "check" /\ t.next = {}
    <2>1. \A by \in callers : /\ thread(r, c, FALSE, by) \in Thread
                               /\ thread(r, c, FALSE, by).ctx = c
                               /\ thread(r, c, FALSE, by).step = "check"
                               /\ thread(r, c, FALSE, by).next = {}
      BY <1>2 DEF thread, Thread
    <2>2. \A t \in New : \E by \in callers : t = thread(r, c, FALSE, by)
      BY <1>3, Zenon
    <2>3. New # {}
      BY <1>3, Zenon
    <2>4. \A t \in New : t \in Thread /\ t.ctx = c /\ t.step = "check" /\ t.next = {}
      BY <2>1, <2>2, Zenon
    <2>5. QED
      BY <2>3, <2>4
  <1>6. /\ TypeRest /\ RequestInv /\ StreamInv
        /\ OpeningIsAttended /\ LiveContextsAttended /\ ActiveContextsAttended
    BY Parts
  <1>7. TypeRest'
    <2>1. streams' \in [Contexts -> SUBSET Requests]
      BY <1>2, <1>4, <1>6 DEF TypeRest
    <2>2. pc' \in [Requests -> Places]
      BY <1>4, <1>6 DEF TypeRest, Places
    <2>3. socketContext' \in [Requests -> Contexts \cup {NoContext}]
      BY <1>4, <1>6 DEF TypeRest
    <2>4. QED
      BY <2>1, <2>2, <2>3, <1>4, <1>5, <1>6 DEF TypeRest
  <1>8. /\ \A d \in Contexts \ {c} : streams'[d] = streams[d]
        /\ streams'[c] = streams[c] \ {r}
        /\ \A q \in Requests \ {r} : pc'[q] = pc[q] /\ socketContext'[q] = socketContext[q]
        /\ pc'[r] = result /\ socketContext'[r] = NoContext
    BY <1>2, <1>4, <1>6 DEF TypeRest
  <1>9. RequestInv'
    BY <1>4, <1>6, <1>8 DEF RequestInv
  <1>10. StreamInv'
    <2>1. \A d \in Contexts : \A q \in streams[d] : q \in Requests /\ socketContext[q] = d
      BY <1>6 DEF StreamInv, TypeRest
    <2>2. \A d \in Contexts : \A q \in streams'[d] : q # r /\ q \in streams[d]
      BY <1>1, <1>8, <2>1
    <2>3. QED
      BY <1>8, <2>1, <2>2 DEF StreamInv
  <1>11. ThreadInv'
    <2>1. \A t \in threads' : t \in threads \/ (t.step = "check" /\ t.next = {})
      BY <1>4, <1>5
    <2>2. \A t \in threads : /\ t.step = "close" => t.ctx \notin inUse'
                             /\ \A q \in t.next : pc[q] = "polled" => pc'[q] = "polled"
      <3>1. \A t \in threads : t.next \subseteq Requests /\ ThreadAt(t)
        BY PolledFacts
      <3>2. \A q \in Requests : pc[q] = "polled" => pc'[q] = "polled"
        BY <1>8
      <3>3. QED
        BY <3>1, <3>2, <1>4 DEF ThreadAt
    <2>3. QED
      BY <2>1, <2>2, ThreadsKept
  <1>12. OpeningIsAttended'
    <2>1. SUFFICES ASSUME NEW d \in Contexts
                   PROVE  Opening(d)'
      BY DEF OpeningIsAttended
    <2>2. Opening(d)
      BY <1>6 DEF OpeningIsAttended
    <2>3. CASE channel[d] # "openInProgress"
      BY <2>3, <1>4 DEF Opening
    <2>4. CASE channel[d] = "openInProgress"
      <3>1. d # c
        BY <2>2, <2>4, <1>1 DEF Opening
      <3>2. /\ streams'[d] = streams[d]
            /\ \A q \in Requests : socketContext'[q] = d => socketContext[q] = d
            /\ \A t \in threads' : t.ctx = d => t \in threads
            /\ \A t \in threads : t.ctx = d => t \in threads'
        BY <3>1, <1>4, <1>5, <1>8, Http2PoolAssumption
      <3>3. QED
        BY <2>2, <3>2, <1>4, OpeningKept
    <2>5. QED
      BY <2>3, <2>4
  <1>13. LiveContextsAttended' /\ ActiveContextsAttended'
    <2>1. \A d \in Contexts : Attended(d) => Attended(d)'
      BY <1>4 DEF Attended
    <2>2. LiveContextsAttended'
      BY <2>1, <1>4, <1>6 DEF LiveContextsAttended
    <2>3. \A d \in Contexts : streams'[d] # {} => streams[d] # {}
      BY <1>8
    <2>4. ActiveContextsAttended'
      BY <2>1, <2>3, <1>6 DEF ActiveContextsAttended, Attended
    <2>5. QED
      BY <2>2, <2>4
  <1>14. Awaited'
    BY <1>4, <1>5 DEF Awaited
  <1>15. pendingRequests' \in Queue(Requests) /\ QueueInv'
    BY <1>4, <1>8, QueueKept
  <1>16. QED
    BY <1>7, <1>9, <1>10, <1>11, <1>12, <1>13, <1>14, <1>15, Whole DEF ContextInv

(* The context was taken out of the group before; closing it fails the     *)
(* requests on it, and the request that was polled selects another one.    *)
LEMMA CloseAndReconnectInv ==
  ASSUME Http2Inv, NEW t \in threads, closeAndReconnect(t)
  PROVE  Http2Inv'
  <1>1. PICK c, R, L : c = t.ctx /\ R = t.next /\ L = streams[t.ctx]
    OBVIOUS
  <1>2. /\ t \in Thread /\ c \in Contexts /\ R \subseteq Requests /\ t.step = "close"
        /\ \A q \in R : pc[q] = "polled" /\ held[q] = NoContext
        /\ \A u \in threads \ {t} : u.next \cap R = {}
    BY <1>1, PolledFacts DEF closeAndReconnect
  <1>3. PICK New : New = {thread(r, c, FALSE, "failure") : r \in L}
    OBVIOUS
  <1>4. /\ channel' = [channel EXCEPT ![c] = "closed"]
        /\ streams' = [streams EXCEPT ![c] = {}]
        /\ pc' = [r \in Requests |-> IF r \in R THEN "selecting"
                                     ELSE IF r \in L THEN "failed" ELSE pc[r]]
        /\ socketContext' = [r \in Requests |-> IF r \in L THEN NoContext ELSE socketContext[r]]
        /\ threads' = (threads \ {t}) \cup New
        /\ used' = used /\ held' = held /\ expired' = expired /\ lost' = lost
        /\ inUse' = inUse /\ pendingRequests' = pendingRequests
    BY <1>1, <1>3 DEF closeAndReconnect, group
  <1>5. /\ TypeRest /\ RequestInv /\ StreamInv
        /\ OpeningIsAttended /\ LiveContextsAttended /\ ActiveContextsAttended
    BY Parts
  <1>6. L \subseteq Requests /\ \A r \in L : socketContext[r] = c /\ pc[r] = "sent"
    <2>1. L \subseteq Requests /\ \A r \in L : socketContext[r] = c
      BY <1>1, <1>2, <1>5 DEF TypeRest, StreamInv
    <2>2. c # NoContext
      BY <1>2, Http2PoolAssumption
    <2>3. QED
      BY <2>1, <2>2, <1>5 DEF RequestInv
  <1>7. /\ New \subseteq Thread /\ \A u \in New : u.ctx = c /\ u.step = "check" /\ u.next = {}
        /\ L # {} => New # {}
    <2>1. \A r \in L : /\ thread(r, c, FALSE, "failure") \in Thread
                        /\ thread(r, c, FALSE, "failure").ctx = c
                        /\ thread(r, c, FALSE, "failure").step = "check"
                        /\ thread(r, c, FALSE, "failure").next = {}
      BY <1>2, <1>6 DEF thread, Thread
    <2>2. \A u \in New : \E r \in L : u = thread(r, c, FALSE, "failure")
      BY <1>3, Zenon
    <2>3. L # {} => New # {}
      BY <1>3, Zenon
    <2>4. \A u \in New : u \in Thread /\ u.ctx = c /\ u.step = "check" /\ u.next = {}
      BY <2>1, <2>2, Zenon
    <2>5. QED
      BY <2>3, <2>4
  <1>8. TypeRest'
    <2>1. streams' \in [Contexts -> SUBSET Requests]
      BY <1>2, <1>4, <1>5 DEF TypeRest
    <2>2. pc' \in [Requests -> Places]
      BY <1>4, <1>5 DEF TypeRest, Places
    <2>3. socketContext' \in [Requests -> Contexts \cup {NoContext}]
      BY <1>4, <1>5 DEF TypeRest
    <2>4. channel' \in [Contexts -> {"openInProgress", "open", "closed"}]
      BY <1>4, <1>5 DEF TypeRest
    <2>5. QED
      BY <2>1, <2>2, <2>3, <2>4, <1>4, <1>5, <1>7 DEF TypeRest
  <1>9. /\ \A d \in Contexts \ {c} : channel'[d] = channel[d] /\ streams'[d] = streams[d]
        /\ channel'[c] = "closed" /\ streams'[c] = {}
    BY <1>2, <1>4, <1>5 DEF TypeRest
  <1>10. \A r \in Requests :
            /\ r \in R => pc'[r] = "selecting"
            /\ r \in L => pc'[r] = "failed" /\ socketContext'[r] = NoContext
            /\ r \notin L => socketContext'[r] = socketContext[r]
            /\ r \notin R /\ r \notin L => pc'[r] = pc[r]
    BY <1>2, <1>4, <1>6
  <1>11. RequestInv'
    BY <1>2, <1>4, <1>5, <1>6, <1>10 DEF RequestInv
  <1>12. StreamInv'
    <2>1. \A d \in Contexts \ {c} : \A r \in streams[d] :
             r \in Requests /\ socketContext[r] = d /\ r \notin L
      BY <1>5, <1>6 DEF StreamInv, TypeRest
    <2>2. QED
      BY <1>9, <1>10, <2>1 DEF StreamInv
  <1>13. ThreadInv'
    <2>1. \A u \in threads' : (u \in threads /\ u # t) \/ (u.step = "check" /\ u.next = {})
      BY <1>4, <1>7
    <2>2. \A u \in threads : u.step = "close" => u.ctx \notin inUse'
      BY <1>4, PolledFacts DEF ThreadAt
    <2>3. \A u \in threads \ {t} : \A q \in u.next : pc[q] = "polled" => pc'[q] = "polled"
      <3>1. \A u \in threads \ {t} : u.next \subseteq Requests /\ u.next \cap R = {}
        BY <1>2, PolledFacts
      <3>2. \A q \in Requests \ R : pc[q] = "polled" => pc'[q] = "polled"
        BY <1>6, <1>10
      <3>3. QED
        BY <3>1, <3>2
    <2>4. \A u \in threads' : /\ u \in threads /\ u.step = "close" => u.ctx \notin inUse'
                              /\ u \in threads => \A q \in u.next : pc[q] = "polled" => pc'[q] = "polled"
      <3>1. TAKE u \in threads'
      <3>2. CASE u \in threads /\ u # t
        BY <3>2, <2>2, <2>3
      <3>3. CASE u.step = "check" /\ u.next = {}
        BY <3>3
      <3>4. QED
        BY <2>1, <3>2, <3>3
    <2>5. QED
      BY <2>1, <2>4, ThreadsKept
  <1>14. OpeningIsAttended'
    <2>1. SUFFICES ASSUME NEW d \in Contexts
                   PROVE  Opening(d)'
      BY DEF OpeningIsAttended
    <2>2. CASE d = c
      BY <2>2, <1>9 DEF Opening
    <2>3. CASE d # c
      <3>1. Opening(d)
        BY <1>5 DEF OpeningIsAttended
      <3>2. /\ channel'[d] = channel[d] /\ streams'[d] = streams[d]
            /\ \A q \in Requests : socketContext'[q] = d => socketContext[q] = d
            /\ \A u \in threads' : u.ctx = d => u \in threads
            /\ \A u \in threads : u.ctx = d => u \in threads'
        BY <2>3, <1>1, <1>4, <1>7, <1>9, <1>10, Http2PoolAssumption
      <3>3. QED
        BY <3>1, <3>2, <1>4, OpeningKept
    <2>4. QED
      BY <2>2, <2>3
  <1>15. LiveContextsAttended' /\ ActiveContextsAttended'
    <2>1. \A d \in Contexts \ {c} : Attended(d) => Attended(d)'
      BY <1>1, <1>4 DEF Attended
    <2>2. LiveContextsAttended'
      BY <2>1, <1>5, <1>9 DEF LiveContextsAttended
    <2>3. ActiveContextsAttended'
      BY <2>1, <1>5, <1>9 DEF ActiveContextsAttended, Attended
    <2>4. QED
      BY <2>2, <2>3
  <1>16. /\ pendingRequests' \in Queue(Requests) /\ QueueInv'
         /\ toCollection(pendingRequests)' = toCollection(pendingRequests)
    <2>1. \A r \in Requests : pc[r] = "queued" => pc'[r] = "queued"
      BY <1>2, <1>6, <1>10
    <2>2. QED
      BY <1>4, <2>1, QueueKept
  <1>17. Awaited => Awaited'
    <2>1. CASE R # {}
      BY <2>1, <1>2, <1>10 DEF Awaited
    <2>2. CASE L # {}
      BY <2>2, <1>4, <1>7 DEF Awaited
    <2>3. CASE R = {} /\ L = {}
      <3>1. \A r \in Requests : pc'[r] = pc[r]
        BY <2>3, <1>10
      <3>2. \A u \in threads : u.step \in {"check", "lock"} \/ u.next # {} => u \in threads'
        BY <2>3, <1>1, <1>2, <1>4
      <3>3. QED
        BY <3>1, <3>2 DEF Awaited
    <2>4. QED
      BY <2>1, <2>2, <2>3
  <1>18. Waiting' # {} => Awaited'
    BY <1>4, <1>16, <1>17, AwaitedKept
  <1>19. QED
    BY <1>8, <1>11, <1>12, <1>13, <1>14, <1>15, <1>16, <1>18, Whole DEF ContextInv

(* A connection is created for a request; the bad one it replaces, if any, *)
(* is to be closed.                                                        *)
LEMMA OpenContextInv ==
  ASSUME Http2Inv, NEW r \in Requests, NEW c \in Contexts, pc[r] = "selecting",
         c \in Unreferenced, openContext(r, c), NEW New \in SUBSET Thread,
         \A t \in New : /\ channel[t.ctx] = "closed" /\ t.ctx # c
                        /\ t.step = "check" /\ t.next = {},
         threads' = threads \cup New,
         UNCHANGED <<pendingRequests, socketContext, expired, lost>>
  PROVE  Http2Inv'
  <1>1. /\ channel' = [channel EXCEPT ![c] = "openInProgress"]
        /\ used' = [used EXCEPT ![c] = 0]
        /\ streams' = [streams EXCEPT ![c] = {}]
        /\ inUse' = inUse \cup {c}
        /\ held' = [held EXCEPT ![r] = c]
        /\ pc' = [pc EXCEPT ![r] = "holding"]
        /\ pendingRequests' = pendingRequests /\ socketContext' = socketContext
        /\ expired' = expired /\ lost' = lost
    BY DEF openContext
  <1>2. /\ \A q \in Requests : held[q] # c /\ socketContext[q] # c
        /\ \A t \in threads : t.ctx # c
    BY DEF Unreferenced
  <1>3. /\ TypeRest /\ RequestInv /\ StreamInv
        /\ OpeningIsAttended /\ LiveContextsAttended /\ ActiveContextsAttended
    BY Parts
  <1>4. TypeRest'
    <2>1. channel' \in [Contexts -> {"openInProgress", "open", "closed"}] /\ used' \in [Contexts -> Nat]
      BY <1>1, <1>3 DEF TypeRest
    <2>2. streams' \in [Contexts -> SUBSET Requests]
      BY <1>1, <1>3 DEF TypeRest
    <2>3. pc' \in [Requests -> Places] /\ held' \in [Requests -> Contexts \cup {NoContext}]
      BY <1>1, <1>3 DEF TypeRest, Places
    <2>4. QED
      BY <2>1, <2>2, <2>3, <1>1, <1>3 DEF TypeRest
  <1>5. /\ \A d \in Contexts \ {c} : channel'[d] = channel[d] /\ streams'[d] = streams[d]
        /\ channel'[c] = "openInProgress" /\ streams'[c] = {}
        /\ \A q \in Requests \ {r} : pc'[q] = pc[q] /\ held'[q] = held[q]
        /\ pc'[r] = "holding" /\ held'[r] = c
    BY <1>1, <1>3 DEF TypeRest
  <1>6. held[r] = NoContext /\ socketContext[r] = NoContext /\ c # NoContext
    BY <1>3, Http2PoolAssumption DEF RequestInv
  <1>7. RequestInv'
    BY <1>1, <1>3, <1>5, <1>6 DEF RequestInv
  <1>8. StreamInv'
    BY <1>1, <1>3, <1>5 DEF StreamInv
  <1>9. ThreadInv'
    <2>1. \A t \in threads' : t \in threads \/ (t.step = "check" /\ t.next = {})
      OBVIOUS
    <2>2. \A t \in threads : t.next \subseteq Requests /\ ThreadAt(t)
      BY PolledFacts
    <2>3. \A t \in threads : t.step = "close" => t.ctx \notin inUse'
      BY <2>2, <1>1, <1>2 DEF ThreadAt
    <2>4. \A t \in threads : \A q \in t.next : pc[q] = "polled" => pc'[q] = "polled"
      BY <2>2, <1>5
    <2>5. QED
      BY <2>1, <2>3, <2>4, ThreadsKept
  <1>10. OpeningIsAttended'
    <2>1. SUFFICES ASSUME NEW d \in Contexts
                   PROVE  Opening(d)'
      BY DEF OpeningIsAttended
    <2>2. CASE d = c
      <3>1. \A t \in threads' : t.ctx # c
        BY <1>2
      <3>2. \A q \in Requests : held'[q] = c => q = r
        BY <1>2, <1>5
      <3>3. QED
        BY <1>1, <1>2, <1>5, <2>2, <3>1, <3>2 DEF Opening
    <2>3. CASE d # c /\ channel[d] = "openInProgress"
      <3>1. /\ Opening(d) /\ channel'[d] = channel[d] /\ streams'[d] = streams[d]
            /\ \A t \in threads' : t.ctx = d => t \in threads
        BY <1>3, <1>5, <2>3 DEF OpeningIsAttended
      <3>2. \A q \in Requests : held'[q] = d <=> held[q] = d
        BY <1>5, <1>6, <2>3, Http2PoolAssumption
      <3>3. QED
        BY <1>1, <3>1, <3>2, OpeningKept
    <2>4. CASE d # c /\ channel[d] # "openInProgress"
      BY <1>5, <2>4 DEF Opening
    <2>5. QED
      BY <2>2, <2>3, <2>4
  <1>11. LiveContextsAttended' /\ ActiveContextsAttended'
    <2>1. \A d \in Contexts : Attended(d) => Attended(d)'
      BY <1>1 DEF Attended
    <2>2. Attended(c)'
      BY <1>1 DEF Attended
    <2>3. LiveContextsAttended'
      BY <2>1, <2>2, <1>3, <1>5 DEF LiveContextsAttended
    <2>4. ActiveContextsAttended'
      BY <2>1, <2>2, <1>3, <1>5 DEF ActiveContextsAttended, Attended
    <2>5. QED
      BY <2>3, <2>4
  <1>12. pendingRequests' \in Queue(Requests) /\ QueueInv'
    BY <1>1, <1>5, QueueKept
  <1>13. Awaited'
    BY <1>5 DEF Awaited
  <1>14. QED
    BY <1>4, <1>7, <1>8, <1>9, <1>10, <1>11, <1>12, <1>13, Whole DEF ContextInv

LEMMA CreateContextInv ==
  ASSUME Http2Inv, NEW r \in Requests, NEW c \in Contexts, createContext(r, c)
  PROVE  Http2Inv'
  <1>1. threads' = threads \cup {}
    BY DEF createContext
  <1>2. /\ pc[r] = "selecting" /\ c \in Unreferenced /\ openContext(r, c)
        /\ UNCHANGED <<pendingRequests, socketContext, expired, lost>>
    BY DEF createContext
  <1>3. /\ {} \in SUBSET Thread
        /\ \A t \in {} : /\ channel[t.ctx] = "closed" /\ t.ctx # c
                         /\ t.step = "check" /\ t.next = {}
    OBVIOUS
  <1>4. QED
    BY <1>1, <1>2, <1>3, OpenContextInv

LEMMA ReplaceBadInv ==
  ASSUME Http2Inv, NEW r \in Requests, NEW c \in Contexts, NEW d \in Contexts, replaceBad(r, c, d)
  PROVE  Http2Inv'
  <1>1. PICK t : t = thread(r, c, TRUE, "failure")
    OBVIOUS
  <1>2. t \in Thread /\ t.ctx = c /\ t.step = "check" /\ t.next = {}
    BY <1>1 DEF thread, Thread
  <1>3. /\ pc[r] = "selecting" /\ c \in inUse /\ channel[c] = "closed" /\ d \in Unreferenced
        /\ openContext(r, d) /\ threads' = threads \cup {t}
        /\ UNCHANGED <<pendingRequests, socketContext, expired, lost>>
    BY <1>1 DEF replaceBad, Selectable
  <1>4. c # d
    BY <1>3 DEF Unreferenced
  <1>5. /\ {t} \in SUBSET Thread
        /\ \A u \in {t} : /\ channel[u.ctx] = "closed" /\ u.ctx # d
                          /\ u.step = "check" /\ u.next = {}
    BY <1>2, <1>3, <1>4
  <1>6. QED
    BY <1>3, <1>5, OpenContextInv

(* Steps that touch neither the contexts nor the requests that have one.   *)
LEMMA ContextsKept ==
  ASSUME Http2Inv, UNCHANGED <<inUse, channel, used, streams, held, socketContext, threads, lost>>,
         expired' \subseteq Requests, pc' \in [Requests -> Places],
         \A r \in Requests : /\ pc'[r] = "holding" <=> pc[r] = "holding"
                             /\ pc'[r] = "sent" <=> pc[r] = "sent"
                             /\ pc[r] = "polled" => pc'[r] = "polled"
  PROVE  ContextInv'
  <1>1. /\ TypeRest /\ RequestInv /\ StreamInv /\ ThreadInv
        /\ OpeningIsAttended /\ LiveContextsAttended /\ ActiveContextsAttended
    BY Parts
  <1>2. TypeRest'
    BY <1>1 DEF TypeRest
  <1>3. RequestInv'
    BY <1>1 DEF RequestInv
  <1>4. StreamInv'
    BY <1>1 DEF StreamInv
  <1>5. LiveContextsAttended' /\ ActiveContextsAttended'
    BY <1>1 DEF LiveContextsAttended, ActiveContextsAttended, Attended
  <1>6. OpeningIsAttended'
    BY <1>1 DEF OpeningIsAttended, Opening
  <1>7. ThreadInv'
    <2>1. \A t \in threads : t.next \subseteq Requests /\ ThreadAt(t)
      BY PolledFacts
    <2>2. QED
      BY <2>1, ThreadsKept DEF ThreadAt
  <1>8. QED
    BY <1>2, <1>3, <1>4, <1>5, <1>6, <1>7 DEF ContextInv

LEMMA SendRemoteInv ==
  ASSUME Http2Inv, NEW r \in Requests, sendRemote(r)
  PROVE  Http2Inv'
  <1>1. /\ pc[r] = "new" /\ pc' = [pc EXCEPT ![r] = "selecting"]
        /\ UNCHANGED <<inUse, pendingRequests, channel, used, streams, held, socketContext,
                       expired, threads, lost>>
    BY DEF sendRemote, group, contexts
  <1>2. /\ pc' \in [Requests -> Places] /\ expired' \subseteq Requests
        /\ pc'[r] = "selecting" /\ \A q \in Requests \ {r} : pc'[q] = pc[q]
    BY <1>1 DEF Http2Inv, TypeOK, Places
  <1>3. ContextInv'
    BY <1>1, <1>2, ContextsKept
  <1>4. pendingRequests' \in Queue(Requests) /\ QueueInv'
    BY <1>1, <1>2, QueueKept
  <1>5. Awaited'
    BY <1>2 DEF Awaited
  <1>6. QED
    BY <1>3, <1>4, <1>5, Whole

(* The request queues behind a connection that is being opened, and that   *)
(* connection has somebody to open or to close it.                         *)
LEMMA QueuePendingRequestInv ==
  ASSUME Http2Inv, NEW r \in Requests, NEW c \in Contexts, queuePendingRequest(r, c)
  PROVE  Http2Inv'
  <1>1. /\ pc[r] = "selecting" /\ channel[c] = "openInProgress"
        /\ UNCHANGED <<inUse, channel, used, streams, held, socketContext, expired, threads, lost>>
    BY DEF queuePendingRequest, contexts
  <1>2. \/ /\ pendingRequests' = offer(pendingRequests, r)
           /\ pc' = [pc EXCEPT ![r] = "queued"]
        \/ pendingRequests' = pendingRequests /\ pc' = [pc EXCEPT ![r] = "failed"]
    BY DEF queuePendingRequest
  <1>3. /\ pc' \in [Requests -> Places] /\ expired' \subseteq Requests
        /\ pc'[r] \in {"queued", "failed"} /\ \A q \in Requests \ {r} : pc'[q] = pc[q]
    BY <1>1, <1>2 DEF Http2Inv, TypeOK, Places
  <1>4. ContextInv'
    BY <1>1, <1>3, ContextsKept
  <1>5. pendingRequests' \in Queue(Requests) /\ QueueInv'
    <2>1. CASE pendingRequests' = offer(pendingRequests, r) /\ pc' = [pc EXCEPT ![r] = "queued"]
      BY <1>1, <2>1, QueueOffered
    <2>2. CASE pendingRequests' = pendingRequests /\ pc' = [pc EXCEPT ![r] = "failed"]
      BY <1>1, <1>3, <2>2, QueueKept
    <2>3. QED
      BY <1>2, <2>1, <2>2
  <1>6. Awaited'
    <2>1. (\E q \in Requests : held[q] = c) \/ (\E t \in threads : t.ctx = c)
      BY <1>1 DEF Http2Inv, OpeningIsAttended, Opening
    <2>2. CASE \E q \in Requests : held[q] = c
      <3>1. PICK q \in Requests : held[q] = c
        BY <2>2
      <3>2. pc[q] = "holding"
        BY <3>1, Http2PoolAssumption DEF Http2Inv, RequestInv
      <3>3. pc'[q] = "holding"
        BY <1>1, <1>3, <3>2
      <3>4. QED
        BY <3>3 DEF Awaited
    <2>3. CASE \E t \in threads : t.ctx = c
      <3>1. PICK t \in threads : t.ctx = c
        BY <2>3
      <3>2. t.close /\ ThreadAt(t) /\ t \in Thread
        BY <3>1, <1>1, PolledFacts DEF Http2Inv, OpeningIsAttended, Opening
      <3>3. c \in inUse
        BY DEF queuePendingRequest, Selectable
      <3>4. t.step \in {"check", "lock"}
        BY <3>1, <3>2, <3>3 DEF ThreadAt, Thread
      <3>5. QED
        BY <3>1, <3>4, <1>1 DEF Awaited
    <2>4. QED
      BY <2>1, <2>2, <2>3
  <1>7. QED
    BY <1>4, <1>5, <1>6, Whole

LEMMA ForceExpirationInv ==
  ASSUME Http2Inv, NEW r \in Requests, forceExpiration(r)
  PROVE  Http2Inv'
  <1>1. /\ expired' = expired \cup {r}
        /\ UNCHANGED <<inUse, pendingRequests, channel, used, streams, pc, held, socketContext, threads, lost>>
    BY DEF forceExpiration, group, contexts
  <1>2. pc' \in [Requests -> Places] /\ expired' \subseteq Requests
    BY <1>1 DEF Http2Inv, TypeOK
  <1>3. ContextInv'
    BY <1>1, <1>2, ContextsKept
  <1>4. /\ pendingRequests' \in Queue(Requests) /\ QueueInv'
        /\ toCollection(pendingRequests)' = toCollection(pendingRequests)
    BY <1>1, QueueKept
  <1>5. Awaited => Awaited'
    BY <1>1 DEF Awaited
  <1>6. Waiting' # {} => Awaited'
    BY <1>1, <1>4, <1>5, AwaitedKept
  <1>7. QED
    BY <1>3, <1>4, <1>6, Whole

LEMMA CheckPendingOperationsInv ==
  ASSUME Http2Inv, checkPendingOperations
  PROVE  Http2Inv'
  <1>1. PICK E : E = toCollection(pendingRequests) \cap expired
    OBVIOUS
  <1>2. /\ pendingRequests' = size(removeAll(pendingRequests, expired))
        /\ pc' = [r \in Requests |-> IF r \in E THEN "failed" ELSE pc[r]]
        /\ UNCHANGED <<inUse, channel, used, streams, held, socketContext, expired, threads, lost>>
    BY <1>1 DEF checkPendingOperations, contexts
  <1>3. \A r \in E : r \in Requests /\ r \in expired /\ pc[r] = "queued" /\ pc'[r] = "failed"
    BY <1>1, <1>2, PendingFacts
  <1>4. /\ pc' \in [Requests -> Places] /\ expired' \subseteq Requests
        /\ \A r \in Requests \ E : pc'[r] = pc[r]
    BY <1>2 DEF Http2Inv, TypeOK, Places
  <1>5. ContextInv'
    <2>1. \A r \in Requests : /\ pc'[r] = "holding" <=> pc[r] = "holding"
                              /\ pc'[r] = "sent" <=> pc[r] = "sent"
                              /\ pc[r] = "polled" => pc'[r] = "polled"
      BY <1>3, <1>4
    <2>2. QED
      BY <1>2, <1>4, <2>1, ContextsKept
  <1>6. /\ pendingRequests' \in Queue(Requests) /\ QueueInv'
        /\ toCollection(pendingRequests)' = toCollection(pendingRequests) \ expired
    <2>1. \A r \in Requests \ expired : pc[r] = "queued" => pc'[r] = "queued"
      BY <1>3, <1>4
    <2>2. QED
      BY <1>2, <2>1, QueueRemoved
  <1>7. Awaited => Awaited'
    <2>1. \A r \in Requests : pc[r] \in {"selecting", "holding", "sent", "failed"} => pc'[r] = pc[r]
      BY <1>3, <1>4
    <2>2. expired \subseteq Requests
      BY DEF Http2Inv, TypeOK
    <2>3. QED
      BY <1>2, <2>1, <2>2 DEF Awaited
  <1>8. ASSUME Waiting' # {}
        PROVE  Awaited'
    <2>1. Waiting # {}
      BY <1>2, <1>6, <1>8 DEF Waiting
    <2>2. Awaited
      BY <2>1, WaitingAwaited
    <2>3. QED
      BY <1>7, <2>2
  <1>9. QED
    BY <1>5, <1>6, <1>8, Whole

LEMMA GetConnectionTagInfoInv ==
  ASSUME Http2Inv, getConnectionTagInfo
  PROVE  Http2Inv'
  <1>1. /\ pendingRequests' = size(pendingRequests)
        /\ UNCHANGED <<inUse, channel, used, streams, pc, held, socketContext, expired, threads, lost>>
    BY DEF getConnectionTagInfo, contexts, client
  <1>2. pc' \in [Requests -> Places] /\ expired' \subseteq Requests
    BY <1>1 DEF Http2Inv, TypeOK
  <1>3. ContextInv'
    BY <1>1, <1>2, ContextsKept
  <1>4. /\ pendingRequests' \in Queue(Requests) /\ QueueInv'
        /\ toCollection(pendingRequests)' = toCollection(pendingRequests)
    BY <1>1, QueueKept
  <1>5. Awaited => Awaited'
    BY <1>1 DEF Awaited
  <1>6. Waiting' # {} => Awaited'
    BY <1>1, <1>4, <1>5, AwaitedKept
  <1>7. QED
    BY <1>3, <1>4, <1>6, Whole

-----------------------------------------------------------------------------
LEMMA SelectOpenInv ==
  ASSUME Http2Inv, NEW r \in Requests, NEW c \in Contexts, selectOpen(r, c)
  PROVE  Http2Inv'
  <1>1. /\ pc[r] = "selecting" /\ channel[c] = "open"
        /\ held' = [held EXCEPT ![r] = c] /\ pc' = [pc EXCEPT ![r] = "holding"]
        /\ UNCHANGED <<inUse, pendingRequests, channel, used, streams, socketContext, expired, threads, lost>>
    BY DEF selectOpen, group, contexts
  <1>2. /\ TypeRest /\ RequestInv /\ StreamInv /\ ThreadInv
        /\ OpeningIsAttended /\ LiveContextsAttended /\ ActiveContextsAttended
    BY Parts
  <1>3. /\ pc' \in [Requests -> Places] /\ held' \in [Requests -> Contexts \cup {NoContext}]
        /\ \A q \in Requests \ {r} : pc'[q] = pc[q] /\ held'[q] = held[q]
        /\ pc'[r] = "holding" /\ held'[r] = c
    BY <1>1, <1>2 DEF TypeRest, Places
  <1>4. held[r] = NoContext /\ c # NoContext
    BY <1>1, <1>2, Http2PoolAssumption DEF RequestInv
  <1>5. TypeRest'
    BY <1>1, <1>2, <1>3 DEF TypeRest
  <1>6. RequestInv'
    BY <1>1, <1>2, <1>3, <1>4 DEF RequestInv
  <1>7. StreamInv' /\ LiveContextsAttended' /\ ActiveContextsAttended'
    BY <1>1, <1>2 DEF StreamInv, LiveContextsAttended, ActiveContextsAttended, Attended
  <1>8. \A d \in Contexts, q \in Requests :
           channel[d] = "openInProgress" => (held'[q] = d <=> held[q] = d)
    BY <1>1, <1>3, <1>4, Http2PoolAssumption
  <1>9. OpeningIsAttended'
    BY <1>1, <1>2, <1>8 DEF OpeningIsAttended, Opening
  <1>9a. ThreadInv'
    <2>1. \A t \in threads : t.next \subseteq Requests /\ ThreadAt(t)
      BY PolledFacts
    <2>2. \A q \in Requests : pc[q] = "polled" => pc'[q] = "polled"
      BY <1>1, <1>3
    <2>3. QED
      BY <2>1, <2>2, <1>1, ThreadsKept DEF ThreadAt
  <1>10. pendingRequests' \in Queue(Requests) /\ QueueInv'
    BY <1>1, <1>3, QueueKept
  <1>11. Awaited'
    BY <1>3 DEF Awaited
  <1>12. QED
    BY <1>5, <1>6, <1>7, <1>9, <1>9a, <1>10, <1>11, Whole DEF ContextInv

LEMMA OpenFailureInv ==
  ASSUME Http2Inv, NEW r \in Requests, openFailure(r)
  PROVE  Http2Inv'
  <1>1. PICK c, t : c = held[r] /\ t = thread(r, held[r], TRUE, "failure")
    OBVIOUS
  <1>2. c \in Contexts /\ pc[r] = "holding" /\ channel[c] = "openInProgress"
    BY <1>1, HeldFacts DEF openFailure
  <1>3. t \in Thread /\ t.ctx = c /\ t.close /\ t.step = "check" /\ t.next = {}
    BY <1>1, <1>2, ThreadMade
  <1>4. /\ threads' = threads \cup {t} /\ pc' = [pc EXCEPT ![r] = "failed"]
        /\ held' = [held EXCEPT ![r] = NoContext]
        /\ UNCHANGED <<inUse, pendingRequests, channel, used, streams, socketContext, expired, lost>>
    BY <1>1 DEF openFailure, group, contexts
  <1>5. /\ TypeRest /\ RequestInv /\ StreamInv /\ ThreadInv
        /\ OpeningIsAttended /\ LiveContextsAttended /\ ActiveContextsAttended
    BY Parts
  <1>6. /\ pc' \in [Requests -> Places] /\ held' \in [Requests -> Contexts \cup {NoContext}]
        /\ \A q \in Requests \ {r} : pc'[q] = pc[q] /\ held'[q] = held[q]
        /\ pc'[r] = "failed" /\ held'[r] = NoContext
    BY <1>4, <1>5 DEF TypeRest, Places
  <1>7. TypeRest'
    BY <1>3, <1>4, <1>5, <1>6 DEF TypeRest
  <1>8. RequestInv'
    BY <1>2, <1>4, <1>5, <1>6 DEF RequestInv
  <1>9. StreamInv' /\ LiveContextsAttended' /\ ActiveContextsAttended'
    <2>1. \A d \in Contexts : Attended(d) => Attended(d)'
      BY <1>4 DEF Attended
    <2>2. LiveContextsAttended'
      BY <2>1, <1>4, <1>5 DEF LiveContextsAttended
    <2>3. ActiveContextsAttended'
      BY <2>1, <1>4, <1>5 DEF ActiveContextsAttended, Attended
    <2>4. QED
      BY <2>2, <2>3, <1>4, <1>5 DEF StreamInv
  <1>9a. ThreadInv'
    <2>1. \A u \in threads : u.next \subseteq Requests /\ ThreadAt(u)
      BY PolledFacts
    <2>2. \A u \in threads : u.step = "close" => u.ctx \notin inUse'
      BY <2>1, <1>4 DEF ThreadAt
    <2>3. \A u \in threads : \A q \in u.next : pc[q] = "polled" => pc'[q] = "polled"
      BY <2>1, <1>2, <1>6
    <2>4. QED
      BY <2>2, <2>3, <1>3, <1>4, ThreadsKept
  <1>10. OpeningIsAttended'
    <2>1. SUFFICES ASSUME NEW d \in Contexts
                   PROVE  Opening(d)'
      BY DEF OpeningIsAttended
    <2>2. Opening(d)
      BY <1>5 DEF OpeningIsAttended
    <2>3. CASE d = c
      <3>1. /\ streams[d] = {} /\ \A q \in Requests : socketContext[q] # d
            /\ \A q \in Requests : held[q] = d => q = r
            /\ \A u \in threads : u.ctx # d
        BY <1>1, <1>2, <2>2, <2>3 DEF Opening
      <3>2. \A q \in Requests : held'[q] # d
        BY <1>6, <2>3, <3>1, Http2PoolAssumption
      <3>3. QED
        BY <1>3, <1>4, <2>3, <3>1, <3>2 DEF Opening
    <2>4. CASE d # c
      <3>1. \A q \in Requests : held'[q] = d <=> held[q] = d
        BY <1>1, <1>6, <2>4, Http2PoolAssumption
      <3>2. QED
        BY <1>3, <1>4, <2>2, <2>4, <3>1, OpeningKept
    <2>5. QED
      BY <2>3, <2>4
  <1>11. pendingRequests' \in Queue(Requests) /\ QueueInv'
    BY <1>2, <1>4, <1>6, QueueKept
  <1>12. Awaited'
    BY <1>3, <1>4 DEF Awaited
  <1>13. QED
    BY <1>7, <1>8, <1>9, <1>9a, <1>10, <1>11, <1>12, Whole DEF ContextInv

(* A connection that is not being opened closes, by the remote host or by  *)
(* maintenance, which takes only one without streams out of the group.     *)
LEMMA ChannelClosedInv ==
  ASSUME Http2Inv, NEW c \in Contexts, channel[c] # "openInProgress",
         channel' = [channel EXCEPT ![c] = "closed"],
         inUse' = inUse \/ (inUse' = inUse \ {c} /\ streams[c] = {}),
         UNCHANGED <<pendingRequests, used, streams, client, threads, lost>>
  PROVE  Http2Inv'
  <1>1. UNCHANGED <<pendingRequests, used, streams, pc, held, socketContext, expired, threads, lost>>
    BY DEF client
  <1>1a. inUse' \subseteq inUse
    OBVIOUS
  <1>2. /\ TypeRest /\ RequestInv /\ StreamInv /\ ThreadInv
        /\ OpeningIsAttended /\ LiveContextsAttended /\ ActiveContextsAttended
    BY Parts
  <1>3. /\ channel' \in [Contexts -> {"openInProgress", "open", "closed"}]
        /\ channel'[c] = "closed" /\ \A d \in Contexts \ {c} : channel'[d] = channel[d]
    BY <1>2 DEF TypeRest
  <1>4. TypeRest'
    BY <1>1, <1>2, <1>3 DEF TypeRest
  <1>5. RequestInv' /\ StreamInv'
    BY <1>1, <1>2 DEF RequestInv, StreamInv
  <1>6. \A d \in Contexts : channel'[d] = "openInProgress" =>
           channel[d] = "openInProgress" /\ (d \in inUse => d \in inUse')
    BY <1>3
  <1>7. OpeningIsAttended'
    <2>1. SUFFICES ASSUME NEW d \in Contexts
                   PROVE  Opening(d)'
      BY DEF OpeningIsAttended
    <2>2. CASE d = c
      BY <2>2, <1>3 DEF Opening
    <2>3. CASE d # c
      <3>1. Opening(d) /\ channel'[d] = channel[d] /\ (d \in inUse => d \in inUse')
        BY <2>3, <1>2, <1>3 DEF OpeningIsAttended
      <3>2. QED
        BY <3>1, <1>1, OpeningKept
    <2>4. QED
      BY <2>2, <2>3
  <1>8. LiveContextsAttended' /\ ActiveContextsAttended'
    <2>1. \A d \in Contexts \ {c} : Attended(d) => Attended(d)'
      BY <1>1 DEF Attended
    <2>2. streams[c] # {} => (Attended(c) => Attended(c)')
      BY <1>1 DEF Attended
    <2>3. LiveContextsAttended'
      BY <2>1, <1>2, <1>3 DEF LiveContextsAttended
    <2>4. \A d \in Contexts : streams[d] # {} => Attended(d)
      BY <1>2 DEF ActiveContextsAttended, Attended
    <2>5. \A d \in Contexts : streams[d] # {} => Attended(d)'
      BY <2>1, <2>2, <2>4
    <2>6. ActiveContextsAttended'
      BY <2>5, <1>1 DEF ActiveContextsAttended, Attended
    <2>7. QED
      BY <2>3, <2>6
  <1>8a. ThreadInv'
    <2>1. \A t \in threads : ThreadAt(t)
      BY PolledFacts
    <2>2. \A t \in threads : t.step = "close" => t.ctx \notin inUse'
      BY <2>1, <1>1a DEF ThreadAt
    <2>3. QED
      BY <2>2, <1>1, ThreadsKept
  <1>9. /\ pendingRequests' \in Queue(Requests) /\ QueueInv'
        /\ toCollection(pendingRequests)' = toCollection(pendingRequests)
    BY <1>1, QueueKept
  <1>10. Awaited => Awaited'
    BY <1>1 DEF Awaited
  <1>11. Waiting' # {} => Awaited'
    BY <1>1, <1>9, <1>10, AwaitedKept
  <1>12. QED
    BY <1>4, <1>5, <1>7, <1>8, <1>8a, <1>9, <1>11, Whole DEF ContextInv

-----------------------------------------------------------------------------
LEMMA InitInv ==
  ASSUME Init
  PROVE  Http2Inv
  <1>1. PICK e : e = <<>>
    OBVIOUS
  <1>2. pendingRequests = [limit |-> QueueLimit, elementCount |-> 0, store |-> e] /\ e \in Seq(Requests)
    BY <1>1 DEF Init, createFifo
  <1>3. QueueLimit \in Int /\ QueueLimit > 0
    BY Http2PoolAssumption
  <1>4. pendingRequests \in Queue(Requests) /\ pendingRequests.limit > 0 /\ store = e
    BY <1>2, <1>3 DEF Queue, store
  <1>5. Len(store) = 0
    BY <1>1, <1>4
  <1>6. QueueInv
    BY <1>4, <1>5 DEF QueueInv
  <1>7. toCollection(pendingRequests) = {}
    BY <1>5 DEF toCollection, store
  <1>8. TypeOK
    BY <1>4 DEF Init, TypeOK, Places
  <1>9. RequestInv /\ StreamInv
    BY Http2PoolAssumption DEF Init, RequestInv, StreamInv
  <1>10. OpeningIsAttended /\ LiveContextsAttended /\ ActiveContextsAttended /\ ThreadInv
    BY DEF Init, OpeningIsAttended, Opening, LiveContextsAttended, ActiveContextsAttended, ThreadInv
  <1>11. NoStrandedRequest
    BY <1>7 DEF NoStrandedRequest
  <1>12. QED
    BY <1>6, <1>8, <1>9, <1>10, <1>11 DEF Http2Inv

LEMMA ChannelReadInv ==
  ASSUME Http2Inv, NEW r \in Requests, channelRead(r)
  PROVE  Http2Inv'
  <1>1. CASE Finish(r, "ok", {"response"})
    BY <1>1, FinishInv DEF channelRead
  <1>2. CASE Finish(r, "failed", {"response", "failure"})
    BY <1>2, FinishInv DEF channelRead
  <1>3. QED
    BY <1>1, <1>2 DEF channelRead

LEMMA StepInv ==
  ASSUME Http2Inv, [Next]_vars
  PROVE  Http2Inv'
  <1>1. CASE \E r \in Requests : sendRemote(r) \/ Select(r) \/ Connect(r) \/ channelRead(r)
                                 \/ failExpiredRequests(r) \/ forceExpiration(r)
    <2>1. PICK r \in Requests : sendRemote(r) \/ Select(r) \/ Connect(r) \/ channelRead(r)
                                \/ failExpiredRequests(r) \/ forceExpiration(r)
      BY <1>1
    <2>2. CASE Select(r)
      <3>1. PICK c \in Contexts, d \in Contexts :
               createContext(r, c) \/ replaceBad(r, c, d) \/ selectOpen(r, c)
               \/ queuePendingRequest(r, c)
        BY <2>2 DEF Select
      <3>2. QED
        BY <3>1, CreateContextInv, ReplaceBadInv, SelectOpenInv, QueuePendingRequestInv
    <2>3. CASE Connect(r)
      BY <2>3, SendOnOpenInv, SettingsSuccessInv, OpenFailureInv DEF Connect
    <2>4. CASE failExpiredRequests(r)
      <3>1. pc[r] = "sent" /\ Finish(r, "failed", {"failure"})
        BY <2>4 DEF failExpiredRequests
      <3>2. QED
        BY <3>1, FinishInv
    <2>5. QED
      BY <2>1, <2>2, <2>3, <2>4, SendRemoteInv, ChannelReadInv, ForceExpirationInv
  <1>2. CASE \E c \in Contexts : channelInactive(c) \/ closeInvalidHttp2ChannelContext(c)
    <2>1. PICK c \in Contexts : channelInactive(c) \/ closeInvalidHttp2ChannelContext(c)
      BY <1>2
    <2>2. /\ channel[c] # "openInProgress" /\ channel' = [channel EXCEPT ![c] = "closed"]
          /\ inUse' = inUse \/ (inUse' = inUse \ {c} /\ streams[c] = {})
          /\ UNCHANGED <<pendingRequests, used, streams, client, threads, lost>>
      BY <2>1 DEF channelInactive, closeInvalidHttp2ChannelContext, hasActiveStreams, group
    <2>3. QED
      BY <2>2, ChannelClosedInv
  <1>3. CASE \E t \in threads : Continue(t)
    BY <1>3, CheckContextInv, TakePendingInv, SendPendingInv, CloseAndReconnectInv DEF Continue
  <1>4. CASE UNCHANGED vars
    <2>1. UNCHANGED <<inUse, pendingRequests, channel, used, streams, pc, held, socketContext,
                      expired, threads, lost>>
      BY <1>4 DEF vars, group, contexts, client
    <2>2. pc' \in [Requests -> Places] /\ expired' \subseteq Requests
      BY <2>1 DEF Http2Inv, TypeOK
    <2>3. ContextInv'
      BY <2>1, <2>2, ContextsKept
    <2>4. /\ pendingRequests' \in Queue(Requests) /\ QueueInv'
          /\ toCollection(pendingRequests)' = toCollection(pendingRequests)
      BY <2>1, QueueKept
    <2>5. Awaited => Awaited'
      BY <2>1 DEF Awaited
    <2>6. QED
      BY <2>1, <2>3, <2>4, <2>5, AwaitedKept, Whole
  <1>5. QED
    BY <1>1, <1>2, <1>3, <1>4, CheckPendingOperationsInv, GetConnectionTagInfoInv
       DEF Next, Quiescent

LEMMA Invariance == Spec => []Http2Inv
  <1>1. Init => Http2Inv
    BY InitInv
  <1>2. Http2Inv /\ [Next]_vars => Http2Inv'
    BY StepInv
  <1>3. QED
    BY <1>1, <1>2, PTL DEF Spec

(* Every variable has its type; in particular the streams a connection has *)
(* used are counted, although a connection that opens takes the whole      *)
(* queue at once (setOperationForStream).                                  *)
THEOREM TypeCorrect == Spec => []TypeOK
  <1>1. Http2Inv => TypeOK
    BY DEF Http2Inv
  <1>2. QED
    BY <1>1, Invariance, PTL

(* However connections fail, are replaced, run out of streams and close, a *)
(* request in the queue has a return under way or another request ahead of *)
(* it that returns a context (waitForSettings, returnOrCloseDirect).       *)
THEOREM NoneStranded == Spec => []NoStrandedRequest
  <1>1. Http2Inv => NoStrandedRequest
    BY DEF Http2Inv
  <1>2. QED
    BY <1>1, Invariance, PTL

(* No stream is forgotten: whoever takes a connection with requests on it  *)
(* out of the group has yet to close it and fail them, and until then a    *)
(* request that still comes to it is failed too (returnOrCloseDirect,      *)
(* closeInvalidHttp2ChannelContexts).                                      *)
THEOREM StreamsAttended == Spec => []ActiveContextsAttended
  <1>1. Http2Inv => ActiveContextsAttended
    BY DEF Http2Inv
  <1>2. QED
    BY <1>1, Invariance, PTL

(* A connection is opened by one request at a time, stays in the group     *)
(* until that request has opened it or failed, and is never abandoned      *)
(* half-open (selectHttp2Context, waitForSettings).                        *)
THEOREM OpeningsAttended == Spec => []OpeningIsAttended
  <1>1. Http2Inv => OpeningIsAttended
    BY DEF Http2Inv
  <1>2. QED
    BY <1>1, Invariance, PTL

-----------------------------------------------------------------------------
(* Action properties: what no step does to a request.                      *)

(* A request that was answered stays answered; one that was sent stays on  *)
(* its connection until it is; one that waits is only failed if it had     *)
(* failed before; and one that failed before is not sent any more.         *)
RequestAdvances(r) ==
    /\ pc[r] \in Completed => pc'[r] = pc[r]
    /\ pc[r] = "sent" => \/ pc'[r] = "sent" /\ socketContext'[r] = socketContext[r]
                         \/ pc'[r] \in Completed
    /\ pc[r] = "queued" => \/ pc'[r] \in {"queued", "polled", "sent"}
                           \/ pc'[r] = "failed" /\ r \in expired
    /\ pc[r] = "polled" => \/ pc'[r] \in {"polled", "selecting", "sent"}
                           \/ pc'[r] = "failed" /\ r \in expired
    /\ pc[r] # "sent" /\ r \in expired => pc'[r] # "sent"

RequestsAdvance == \A r \in Requests : RequestAdvances(r)

LEMMA SendAdvances ==
  ASSUME Http2Inv, NEW c, NEW R, NEW state, SendOn(c, R, state),
         \A r \in R : pc[r] \in {"queued", "polled", "holding"}
  PROVE  RequestsAdvance
  <1>1. SUFFICES ASSUME NEW r \in Requests
                 PROVE  RequestAdvances(r)
    BY DEF RequestsAdvance
  <1>2. CASE r \in R
    <2>1. pc'[r] = IF r \in expired THEN "failed" ELSE "sent"
      BY <1>2 DEF SendOn
    <2>2. QED
      BY <1>2, <2>1 DEF RequestAdvances, Completed
  <1>3. CASE r \notin R
    <2>1. pc'[r] = pc[r] /\ socketContext'[r] = socketContext[r]
      BY <1>3 DEF SendOn
    <2>2. QED
      BY <2>1 DEF RequestAdvances, Completed
  <1>4. QED
    BY <1>2, <1>3

(* The steps that move one request r, or none.                             *)
LEMMA OneAdvances ==
  ASSUME Http2Inv, NEW r \in Requests, NEW place, pc' = [pc EXCEPT ![r] = place],
         UNCHANGED socketContext,
         \/ pc[r] = "new" /\ place = "selecting"
         \/ pc[r] = "selecting" /\ place \in {"holding", "queued", "failed"}
         \/ pc[r] = "holding" /\ place = "failed"
  PROVE  RequestsAdvance
  <1>1. SUFFICES ASSUME NEW q \in Requests
                 PROVE  RequestAdvances(q)
    BY DEF RequestsAdvance
  <1>2. pc'[q] = IF q = r THEN place ELSE pc[q]
    BY DEF Http2Inv, TypeOK
  <1>3. CASE q = r
    BY <1>2, <1>3 DEF RequestAdvances, Completed
  <1>4. CASE q # r
    BY <1>2, <1>4 DEF RequestAdvances, Completed
  <1>5. QED
    BY <1>3, <1>4

LEMMA NoneAdvances ==
  ASSUME UNCHANGED <<pc, socketContext>>
  PROVE  RequestsAdvance
  BY DEF RequestsAdvance, RequestAdvances, Completed

LEMMA FinishAdvances ==
  ASSUME Http2Inv, NEW r \in Requests, pc[r] = "sent", NEW result \in Completed, NEW callers,
         Finish(r, result, callers)
  PROVE  RequestsAdvance
  <1>1. SUFFICES ASSUME NEW q \in Requests
                 PROVE  RequestAdvances(q)
    BY DEF RequestsAdvance
  <1>2. /\ pc'[q] = IF q = r THEN result ELSE pc[q]
        /\ q # r => socketContext'[q] = socketContext[q]
    BY DEF Finish, Http2Inv, TypeOK
  <1>3. CASE q = r
    BY <1>2, <1>3 DEF RequestAdvances, Completed
  <1>4. CASE q # r
    BY <1>2, <1>4 DEF RequestAdvances, Completed
  <1>5. QED
    BY <1>3, <1>4

(* Closing a connection fails the requests on its streams, all of which    *)
(* were sent on it; the request that was polled looks for another one.     *)
LEMMA CloseAdvances ==
  ASSUME Http2Inv, NEW t \in threads, closeAndReconnect(t)
  PROVE  RequestsAdvance
  <1>1. PICK c, S, N : c = t.ctx /\ S = streams[c] /\ N = t.next
    OBVIOUS
  <1>2. t \in Thread /\ c \in Contexts
    BY <1>1, ThreadFields DEF Http2Inv, TypeOK
  <1>3. \A q \in S : q \in Requests /\ pc[q] = "sent"
    <2>1. \A q \in S : q \in Requests /\ socketContext[q] = c
      BY <1>1, <1>2 DEF Http2Inv, StreamInv, TypeOK
    <2>2. QED
      BY <1>2, <2>1, Http2PoolAssumption DEF Http2Inv, RequestInv
  <1>4. \A q \in N : pc[q] = "polled"
    BY <1>1, PolledFacts
  <1>5. SUFFICES ASSUME NEW q \in Requests
                 PROVE  RequestAdvances(q)
    BY DEF RequestsAdvance
  <1>6. /\ pc'[q] = IF q \in N THEN "selecting" ELSE IF q \in S THEN "failed" ELSE pc[q]
        /\ q \notin S => socketContext'[q] = socketContext[q]
    BY <1>1 DEF closeAndReconnect
  <1>7. CASE q \in N
    BY <1>4, <1>6, <1>7 DEF RequestAdvances, Completed
  <1>8. CASE q \notin N /\ q \in S
    BY <1>3, <1>6, <1>8 DEF RequestAdvances, Completed
  <1>9. CASE q \notin N /\ q \notin S
    BY <1>6, <1>9 DEF RequestAdvances, Completed
  <1>10. QED
    BY <1>7, <1>8, <1>9

(* The request at the head of the queue is polled.                         *)
LEMMA TakeAdvances ==
  ASSUME Http2Inv, NEW t \in threads, takePending(t)
  PROVE  RequestsAdvance
  <1>1. PICK N : N = NextPending
    OBVIOUS
  <1>2. \A q \in N : pc[q] = "queued"
    BY <1>1, NextPendingFacts
  <1>3. SUFFICES ASSUME NEW q \in Requests
                 PROVE  RequestAdvances(q)
    BY DEF RequestsAdvance
  <1>4. /\ pc'[q] = IF q \in N THEN "polled" ELSE pc[q]
        /\ socketContext' = socketContext
    BY <1>1 DEF takePending
  <1>5. CASE q \in N
    BY <1>2, <1>4, <1>5 DEF RequestAdvances, Completed
  <1>6. CASE q \notin N
    BY <1>4, <1>6 DEF RequestAdvances, Completed
  <1>7. QED
    BY <1>5, <1>6

LEMMA CheckAdvances ==
  ASSUME Http2Inv, checkPendingOperations
  PROVE  RequestsAdvance
  <1>1. PICK P : P = toCollection(pendingRequests) \cap expired
    OBVIOUS
  <1>2. \A q \in P : pc[q] = "queued" /\ q \in expired
    BY <1>1, PendingFacts
  <1>3. SUFFICES ASSUME NEW q \in Requests
                 PROVE  RequestAdvances(q)
    BY DEF RequestsAdvance
  <1>4. /\ pc'[q] = IF q \in P THEN "failed" ELSE pc[q]
        /\ socketContext' = socketContext
    BY <1>1 DEF checkPendingOperations
  <1>5. CASE q \in P
    BY <1>2, <1>4, <1>5 DEF RequestAdvances, Completed
  <1>6. CASE q \notin P
    BY <1>4, <1>6 DEF RequestAdvances, Completed
  <1>7. QED
    BY <1>5, <1>6

LEMMA StepAdvances ==
  ASSUME Http2Inv, Next
  PROVE  RequestsAdvance
  <1>1. ASSUME NEW r \in Requests, sendRemote(r) \/ Select(r)
        PROVE  RequestsAdvance
    <2>1. CASE sendRemote(r)
      BY <2>1, OneAdvances DEF sendRemote
    <2>2. CASE Select(r)
      <3>1. PICK c \in Contexts, d \in Contexts :
               createContext(r, c) \/ replaceBad(r, c, d) \/ selectOpen(r, c)
               \/ queuePendingRequest(r, c)
        BY <2>2 DEF Select
      <3>2. /\ pc[r] = "selecting" /\ UNCHANGED socketContext
            /\ \/ pc' = [pc EXCEPT ![r] = "holding"]
               \/ pc' = [pc EXCEPT ![r] = "queued"]
               \/ pc' = [pc EXCEPT ![r] = "failed"]
        BY <3>1 DEF createContext, replaceBad, selectOpen, queuePendingRequest, openContext
      <3>3. QED
        BY <3>2, OneAdvances
    <2>3. QED
      BY <1>1, <2>1, <2>2
  <1>2. ASSUME NEW r \in Requests, Connect(r)
        PROVE  RequestsAdvance
    <2>1. CASE sendOnOpen(r)
      <3>1. PICK c, R, state : c = held[r] /\ R = {r} /\ state = channel[held[r]]
        OBVIOUS
      <3>2. SendOn(c, R, state)
        BY <2>1, <3>1 DEF sendOnOpen, SendOn
      <3>3. pc[r] = "holding"
        BY <2>1, HeldFacts DEF sendOnOpen
      <3>4. QED
        BY <3>1, <3>2, <3>3, SendAdvances
    <2>2. CASE settingsSuccess(r)
      <3>1. PICK c, R : c = held[r] /\ R = {r} \cup TransferPending
        OBVIOUS
      <3>2. SendOn(c, R, "open")
        BY <2>2, <3>1 DEF settingsSuccess, SendOn
      <3>3. pc[r] = "holding"
        BY <2>2, HeldFacts DEF settingsSuccess
      <3>4. \A q \in R : pc[q] \in {"queued", "polled", "holding"}
        BY <3>1, <3>3, PendingFacts DEF TransferPending
      <3>5. QED
        BY <3>2, <3>4, SendAdvances
    <2>3. CASE openFailure(r)
      <3>1. pc[r] = "holding" /\ UNCHANGED socketContext /\ pc' = [pc EXCEPT ![r] = "failed"]
        BY <2>3, HeldFacts DEF openFailure
      <3>2. QED
        BY <3>1, OneAdvances
    <2>4. QED
      BY <1>2, <2>1, <2>2, <2>3 DEF Connect
  <1>3. ASSUME NEW r \in Requests, channelRead(r) \/ failExpiredRequests(r)
        PROVE  RequestsAdvance
    <2>1. /\ pc[r] = "sent"
          /\ \/ Finish(r, "ok", {"response"}) \/ Finish(r, "failed", {"failure"})
             \/ Finish(r, "failed", {"response", "failure"})
      BY <1>3 DEF channelRead, failExpiredRequests
    <2>2. QED
      BY <2>1, FinishAdvances DEF Completed
  <1>4. ASSUME NEW t \in threads, Continue(t)
        PROVE  RequestsAdvance
    <2>1. CASE sendPending(t)
      <3>1. PICK c, R, state : c = t.ctx /\ R = t.next /\ state = channel[t.ctx]
        OBVIOUS
      <3>2. SendOn(c, R, state)
        BY <2>1, <3>1 DEF sendPending, SendOn
      <3>3. \A q \in R : pc[q] \in {"queued", "polled", "holding"}
        BY <1>4, <3>1, PolledFacts
      <3>4. QED
        BY <3>2, <3>3, SendAdvances
    <2>2. CASE checkContext(t)
      <3>1. UNCHANGED <<pc, socketContext>>
        BY <2>2 DEF checkContext, client
      <3>2. QED
        BY <3>1, NoneAdvances
    <2>3. QED
      BY <1>4, <2>1, <2>2, TakeAdvances, CloseAdvances DEF Continue
  <1>5. ASSUME \/ \E r \in Requests : forceExpiration(r)
               \/ \E c \in Contexts : channelInactive(c) \/ closeInvalidHttp2ChannelContext(c)
               \/ getConnectionTagInfo \/ Quiescent
        PROVE  RequestsAdvance
    <2>1. UNCHANGED <<pc, socketContext>>
      BY <1>5 DEF forceExpiration, channelInactive, closeInvalidHttp2ChannelContext,
                  getConnectionTagInfo, Quiescent, client, vars
    <2>2. QED
      BY <2>1, NoneAdvances
  <1>6. QED
    BY <1>1, <1>2, <1>3, <1>4, <1>5, CheckAdvances DEF Next

(* A request is completed once, is never moved from one connection to      *)
(* another, and is not written any more after it was failed by force,      *)
(* whatever the response handler, maintenance and the threads that return, *)
(* replace and close connections do in between (returnOrCloseDirect,       *)
(* failExpiredRequests, checkPendingOperations).                           *)
THEOREM RequestsCompletedOnce == Spec => [][RequestsAdvance]_vars
  <1>1. Http2Inv /\ [Next]_vars => [RequestsAdvance]_vars
    BY StepAdvances
  <1>2. QED
    BY <1>1, Invariance, PTL DEF Spec
=============================================================================
