--------------------------- MODULE RingBufferQuery ---------------------------
(***************************************************************************)
(* A ring buffer and the validation query: RingBuffer until a caller asks, *)
(* with no call in progress, for RINGBUFFER_QUERY_VALIDATE, and from then  *)
(* on Validate over the lists that the calls have left.  As in             *)
(* cases/ut_ringbuffer.c, nothing else happens during the query.           *)
(*                                                                         *)
(* A behaviour may also begin with a query of any of the four structures,  *)
(* made with as many elements, whose lists are damaged in any way: no call *)
(* leads there.                                                            *)
(***************************************************************************)
EXTENDS RingBuffer, Validate

AllVars == <<vars, query_vars>>

Intact(n) == [len |-> n, back |-> Nil]

NotAsked ==
    /\ kind = "ringbuffer"
    /\ list = Intact(1) /\ free = Intact(0) /\ ring = Intact(0)
    /\ total = 1 /\ vi = NoBounds
    /\ job = 1 /\ stage = "not_asked"
    /\ slow = Nil /\ fast = Nil /\ at = Nil /\ count = 0
    /\ output = <<"unset", "unset", "unset">>

QueriedInit == Init /\ (NotAsked \/ (QueryInit /\ total = number_elements + 1))

(* The bounds are the number of elements the caller expects, as in the     *)
(* tests.  The queue is walked from its dummy on.                          *)
Ask ==
    /\ stage = "not_asked"
    /\ \A t \in Threads : pc[t] = "idle"
    /\ list' = Intact(1 + Cardinality(linked))
    /\ free' = Intact(nodes)
    /\ ring' = Intact(Len(fs))
    /\ total' = number_elements + 1
    /\ vi' = [min |-> Cardinality(linked), max |-> Cardinality(linked)]
    /\ stage' = "begin"
    /\ UNCHANGED <<vars, kind, job, slow, fast, at, count, output>>

(* A step of a call, and a step of the query.                              *)
CallStep == stage = "not_asked" /\ Next /\ UNCHANGED query_vars
ContinueStep(t) == stage = "not_asked" /\ Continue(t) /\ UNCHANGED query_vars
QueryStep == QueryNext /\ UNCHANGED vars

QueriedNext == CallStep \/ Ask \/ QueryStep

(* The fairness of RingBuffer and of Validate.                             *)
QueriedSpec ==
    /\ QueriedInit
    /\ [][QueriedNext]_AllVars
    /\ \A t \in Threads : WF_AllVars(ContinueStep(t))
    /\ WF_AllVars(QueryStep)
=============================================================================
