---------------------------- MODULE AtomicQueue ----------------------------
(***************************************************************************)
(* What lf_queue.c promises its callers: one first-in first-out queue on   *)
(* which each call takes effect in a single step.  A dequeue reports that  *)
(* the queue is empty only if it was empty at some moment of the call.     *)
(***************************************************************************)
EXTENDS Sequences

CONSTANTS Threads, Items, NoItem

VARIABLES
    queue,
    pending,    \* the threads inside a dequeue that has not taken effect
    seen_empty, \* those whose call has seen the queue empty
    got         \* what each thread's dequeues have returned

vars == <<queue, pending, seen_empty, got>>

Init ==
    /\ queue = <<>>
    /\ pending = {}
    /\ seen_empty = {}
    /\ got = [t \in Threads |-> <<>>]

Enqueue(item) ==
    /\ queue' = Append(queue, item)
    /\ UNCHANGED <<pending, seen_empty, got>>

CallDequeue(t) ==
    /\ t \notin pending
    /\ pending' = pending \cup {t}
    /\ seen_empty' = IF queue = <<>> THEN seen_empty \cup {t} ELSE seen_empty
    /\ UNCHANGED <<queue, got>>

Dequeue(t) ==
    /\ t \in pending
    /\ queue # <<>>
    /\ got' = [got EXCEPT ![t] = Append(@, Head(queue))]
    /\ queue' = Tail(queue)
    /\ pending' = pending \ {t}
    /\ seen_empty' = IF queue' = <<>> THEN pending' ELSE seen_empty \ {t}

DequeueEmpty(t) ==
    /\ t \in pending \cap seen_empty
    /\ got' = [got EXCEPT ![t] = Append(@, NoItem)]
    /\ pending' = pending \ {t}
    /\ seen_empty' = seen_empty \ {t}
    /\ UNCHANGED queue

(* The end of the queue: what is left goes to the caller in order.         *)
Delete(t) ==
    /\ pending = {}
    /\ got' = [got EXCEPT ![t] = @ \o queue]
    /\ queue' = <<>>
    /\ UNCHANGED <<pending, seen_empty>>

Next ==
    \/ \E item \in Items : Enqueue(item)
    \/ \E t \in Threads : CallDequeue(t) \/ Dequeue(t) \/ DequeueEmpty(t) \/ Delete(t)

Spec == Init /\ [][Next]_vars
=============================================================================
