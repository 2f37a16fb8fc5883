--------------------------- MODULE OperationQueue ---------------------------
(***************************************************************************)
(* com.vmware.xenon.common.OperationQueue: the bounded queue of operations *)
(* a StatefulService keeps for the requests it cannot run yet, and a       *)
(* NettyChannelPool for the requests that wait for a connection.  The      *)
(* queue is a value, and each method that changes it is an operator from   *)
(* the queue before the call to the queue after it.                        *)
(***************************************************************************)
EXTENDS Integers, Sequences

(* The sign of limit encodes the discipline: positive FIFO, negative LIFO. *)
Queue(S) == [limit : Int, elementCount : Int, store : Seq(S)]

createFifo(n) == [limit |-> n, elementCount |-> 0, store |-> <<>>]
createLifo(n) == [limit |-> -n, elementCount |-> 0, store |-> <<>>]

getLimit(q) == IF q.limit < 0 THEN -q.limit ELSE q.limit

setLimit(q, n) == [q EXCEPT !.limit = IF q.limit < 0 THEN -n ELSE n]

isEmpty(q) == q.store = <<>>

(* The test that offer makes: it looks at elementCount, not at the store.  *)
canOffer(q) == q.elementCount < getLimit(q)

(* offer, when canOffer holds; otherwise the queue is left alone and the   *)
(* caller is told.                                                         *)
offer(q, op) ==
    [q EXCEPT !.store = IF q.limit < 0 THEN <<op>> \o q.store ELSE Append(q.store, op),
              !.elementCount = q.elementCount + 1]

(* The operation poll returns, for a queue that is not empty, and the      *)
(* queue it leaves.  Both disciplines remove from the head.                *)
polled(q) == Head(q.store)
poll(q) ==
    IF isEmpty(q) THEN q
    ELSE [q EXCEPT !.store = Tail(q.store), !.elementCount = q.elementCount - 1]

toCollection(q) == {q.store[i] : i \in 1..Len(q.store)}

(* clear and transferAll empty the store and leave elementCount alone.     *)
clear(q) == [q EXCEPT !.store = <<>>]
transferAll(q) == clear(q)

(* Removal through iterator(), which is the store's: the operations of S   *)
(* leave the queue, and elementCount stays.                                *)
removeAll(q, S) ==
    LET kept[n \in 0 .. Len(q.store)] ==
            IF n = 0 THEN <<>>
            ELSE IF q.store[n] \in S THEN kept[n - 1] ELSE Append(kept[n - 1], q.store[n])
    IN  [q EXCEPT !.store = kept[Len(q.store)]]

(* size() has a side effect: it sets elementCount to the true size.        *)
size(q) == [q EXCEPT !.elementCount = Len(q.store)]
=============================================================================
