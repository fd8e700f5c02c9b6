---------------------------- MODULE AtomicLifo ----------------------------
(***************************************************************************)
(* What lf_stack.c promises its callers: one stack of items on which each  *)
(* push and each pop takes effect in a single step.                        *)
(***************************************************************************)
EXTENDS Sequences

CONSTANTS Threads, Items, NoItem

VARIABLES
    items,   \* the last pushed first
    pending, \* the threads inside a pop that has not taken effect
    got      \* what each thread's pops have returned

vars == <<items, pending, got>>

Init ==
    /\ items = <<>>
    /\ pending = {}
    /\ got = [t \in Threads |-> <<>>]

Push(item) ==
    /\ items' = <<item>> \o items
    /\ UNCHANGED <<pending, got>>

CallPop(t) ==
    /\ pending' = pending \cup {t}
    /\ UNCHANGED <<items, got>>

Pop(t) ==
    /\ t \in pending
    /\ items # <<>>
    /\ got' = [got EXCEPT ![t] = Append(@, Head(items))]
    /\ items' = Tail(items)
    /\ pending' = pending \ {t}

PopEmpty(t) ==
    /\ t \in pending
    /\ items = <<>>
    /\ got' = [got EXCEPT ![t] = Append(@, NoItem)]
    /\ pending' = pending \ {t}
    /\ UNCHANGED items

(* The end of the stack: what is left goes to the caller.                  *)
Delete(t) ==
    /\ pending = {}
    /\ got' = [got EXCEPT ![t] = @ \o items]
    /\ items' = <<>>
    /\ UNCHANGED pending

Next ==
    \/ \E item \in Items : Push(item)
    \/ \E t \in Threads : CallPop(t) \/ Pop(t) \/ PopEmpty(t) \/ Delete(t)

Spec == Init /\ [][Next]_vars
=============================================================================
