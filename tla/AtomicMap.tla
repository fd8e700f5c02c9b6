----------------------------- MODULE AtomicMap -----------------------------
(***************************************************************************)
(* What lf_hashmap.c promises its callers: a map on which each lf_hash_add *)
(* and lf_hash_search takes effect in one step.                            *)
(***************************************************************************)
CONSTANTS Threads, Keys, Vals, None

VARIABLES map,    \* key -> its value, or None
          last    \* what each thread's last call was and returned

vars == <<last, map>>

Init ==
    /\ map = [k \in Keys |-> None]
    /\ last = [t \in Threads |-> None]

Returned(t, c, r) == last' = [last EXCEPT ![t] = [call |-> c, result |-> r]]

(* An add that has seen another value may say that it replaced one even if *)
(* meanwhile the value is the same.                                        *)
Added(k, v) == CASE map[k] = None -> {"NODE_ADD"}
                 [] map[k] = v -> {"NODE_EXIST", "NODE_REPLACE"}
                 [] OTHER -> {"NODE_REPLACE"}

Add(t, k, v) ==
    /\ \E r \in Added(k, v) : Returned(t, [op |-> "add", key |-> k, val |-> v], r)
    /\ map' = [map EXCEPT ![k] = v]

(* There was no hash_data left to add. *)
NoData(t, k, v) ==
    /\ Returned(t, [op |-> "add", key |-> k, val |-> v], "NO_DATA")
    /\ UNCHANGED map

Search(t, k) ==
    /\ Returned(t, [op |-> "search", key |-> k],
                IF map[k] = None THEN "SEARCH_FAIL" ELSE "SEARCH_SUCC")
    /\ UNCHANGED map

Next == \E t \in Threads, k \in Keys : Search(t, k) \/ \E v \in Vals : Add(t, k, v) \/ NoData(t, k, v)
=============================================================================
