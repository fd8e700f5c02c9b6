---------------------------- MODULE AtomicStack ----------------------------
(***************************************************************************)
(* What lf_freelist.c promises its callers: one stack of elements on which *)
(* each call takes effect in a single step.  A pop that has been called    *)
(* (ret is Pending) takes the last element, or NULL if there is none.      *)
(***************************************************************************)
EXTENDS Integers, Sequences

CONSTANTS Threads, MaxElements, InitElements

VARIABLES stack, held, ret, element_count

vars == <<stack, held, ret, element_count>>

Init ==
    /\ stack = [i \in 1..InitElements |-> i]
    /\ held = [t \in Threads |-> {}]
    /\ ret = [t \in Threads |-> 0]
    /\ element_count = InitElements

CallPop(t) ==
    /\ ret[t] # -1
    /\ ret' = [ret EXCEPT ![t] = -1]
    /\ UNCHANGED <<stack, held, element_count>>

Pop(t) ==
    /\ ret[t] = -1
    /\ stack # <<>>
    /\ LET e == stack[Len(stack)]
       IN  /\ ret' = [ret EXCEPT ![t] = e]
           /\ held' = [held EXCEPT ![t] = @ \cup {e}]
    /\ stack' = SubSeq(stack, 1, Len(stack) - 1)
    /\ UNCHANGED element_count

PopEmpty(t) ==
    /\ ret[t] = -1
    /\ stack = <<>>
    /\ ret' = [ret EXCEPT ![t] = 0]
    /\ UNCHANGED <<stack, held, element_count>>

Push(t) ==
    /\ ret[t] # -1
    /\ \E e \in held[t] :
           /\ held' = [held EXCEPT ![t] = @ \ {e}]
           /\ stack' = Append(stack, e)
    /\ UNCHANGED <<ret, element_count>>

(* freelist_guaranteed_pop: a new element, or NULL if init_func refuses.   *)
New(t) ==
    /\ ret[t] # -1
    /\ UNCHANGED stack
    /\ \/ /\ element_count' = element_count + 1
          /\ element_count' <= MaxElements
          /\ held' = [held EXCEPT ![t] = @ \cup {element_count'}]
          /\ ret' = [ret EXCEPT ![t] = element_count']
       \/ /\ ret' = [ret EXCEPT ![t] = 0]
          /\ UNCHANGED <<held, element_count>>

Next == \E t \in Threads : CallPop(t) \/ Pop(t) \/ PopEmpty(t) \/ Push(t) \/ New(t)

Spec == Init /\ [][Next]_vars
=============================================================================
