------------------------------ MODULE Hashmap ------------------------------
(***************************************************************************)
(* advance/lf_hashmap.c: buckets of items in key order between a head and  *)
(* an end, each item pointing to a key and value.  A call "add" is what    *)
(* the threads of cases/ut_hashmap.c do: take a hash_data from the data    *)
(* list, fill it in, and lf_hash_add it, which takes a hash_item from the  *)
(* item list.                                                              *)
(*                                                                         *)
(* A hash_data that was filled in never changes, and one that is freed is  *)
(* not allocated again while the map is in use, so that what a thread      *)
(* reads through a pointer to it is what it held.                          *)
(***************************************************************************)
EXTENDS NodeList

CONSTANTS nbpow, Keys, Vals

bucket_max == 2^nbpow
HeadOf(k) == <<"head", k % bucket_max>>

(* hash_new, with as many items as data.  Number 0 is the last of a list;  *)
(* init_hashlist and init_datalist leave its contents unset.               *)
Table == {"head", "end"} \X (0..(bucket_max - 1))
HashNodes(n) == {"item", "data"} \X (0..n) \cup Table

HashNode(x) ==
    LET below == IF x[2] = 0 THEN NULL ELSE <<x[1], x[2] - 1>>
    IN  CASE x[1] = "item" -> [next |-> below, data |-> NULL]
          [] x[1] = "data" -> [next |-> below, key |-> x[2] - 1, val |-> x[2] - 1]
          [] x[1] = "head" -> [next |-> <<"end", x[2]>>, data |-> NULL]
          [] x[1] = "end" -> [next |-> NULL, data |-> NULL]

HashInit(n) ==
    /\ first = [item |-> <<"item", n>>, data |-> <<"data", n>>]
    /\ count = [item |-> n + 1, data |-> n + 1]
    /\ node = [x \in HashNodes(n) |-> HashNode(x)]

KeyOf(x) == node[node[x].data].key

(* What the loops of lf_hash_add and lf_hash_search do next with x, the    *)
(* item they have come to.  The key of an item never changes.              *)
Place(x, k) ==
    CASE x[1] = "end" \/ (x[1] = "item" /\ KeyOf(x) > k) -> "before"
      [] x[1] = "item" /\ KeyOf(x) < k -> "after"
      [] OTHER -> "at"

AddAt(x, k) == CASE Place(x, k) = "before" -> "link"
                 [] Place(x, k) = "after" -> "step"
                 [] Place(x, k) = "at" -> "compare"

-----------------------------------------------------------------------------
(* lf_hash_internal_new_data_from_datalist, the first thing an add does.   *)
HashCall(t) ==
    /\ structure = "hashmap" /\ pc[t] = "idle" /\ todo[t] # <<>>
    /\ IF Call(t).op = "add"
       THEN Goto(t, "pop_cas", Popping("data", NoLocals))
       ELSE Goto(t, "search", NoLocals)
    /\ UNCHANGED <<structure, first, count, node, freed, todo, last, broken>>

(* The data list is empty: there is nothing to add. *)
NoData(t) ==
    /\ pc[t] = "pop_cas" /\ loc[t].list = "data" /\ loc[t].arg = NULL
    /\ Return(t, "NO_DATA")
    /\ UNCHANGED <<structure, first, count, node, freed, broken>>

(* The caller fills in the data, and lf_hash_add asks for an item, in a    *)
(* loop until there is one.  There are as many items as data and the data  *)
(* come first, so that the list is never found empty (HashConserved).      *)
GotData(t) ==
    /\ pc[t] = "popped" /\ loc[t].list = "data"
    /\ node' = [node EXCEPT ![loc[t].data].key = Call(t).key, ![loc[t].data].val = Call(t).val]
    /\ Goto(t, "pop_cas", Popping("item", loc[t]))
    /\ UNCHANGED <<structure, first, count, freed, todo, last, broken>>

(* The head's next is read. *)
AddStart(t) ==
    LET h == HeadOf(Call(t).key)
    IN  /\ pc[t] = "popped" /\ loc[t].list = "item"
        /\ node' = [node EXCEPT ![loc[t].item].data = loc[t].data]
        /\ Goto(t, AddAt(node[h].next, Call(t).key),
                [loc[t] EXCEPT !.prev = h, !.next = node[h].next])
        /\ UNCHANGED <<structure, first, count, freed, todo, last, broken>>

AddStep(t) ==
    LET x == loc[t].next
    IN  /\ pc[t] = "step"
        /\ Goto(t, AddAt(node[x].next, Call(t).key),
                [loc[t] EXCEPT !.prev = x, !.next = node[x].next])
        /\ UNCHANGED <<structure, first, count, node, freed, todo, last, broken>>

(* Mutant: the item is linked by a store. *)
AddLink_Store(t) ==
    /\ pc[t] = "link"
    /\ node' = [node EXCEPT ![loc[t].item].next = loc[t].next, ![loc[t].prev].next = loc[t].item]
    /\ Return(t, "NODE_ADD")
    /\ UNCHANGED <<structure, first, count, freed, broken>>

(* Mutant: after a failure the same compare-and-swap is tried again. *)
AddLink_KeepNext(t) ==
    LET p == loc[t].prev
        i == loc[t].item
    IN  /\ pc[t] = "link"
        /\ IF node[p].next = loc[t].next
           THEN /\ node' = [node EXCEPT ![i].next = loc[t].next, ![p].next = i]
                /\ Return(t, "NODE_ADD")
           ELSE /\ node' = [node EXCEPT ![i].next = loc[t].next]
                /\ Goto(t, "link", loc[t])
                /\ UNCHANGED <<todo, last>>
        /\ UNCHANGED <<structure, first, count, freed, broken>>

(* The item is linked between prev and next, unless prev has a new next:   *)
(* the search goes on from there.  The store to the item's own next before *)
(* the compare-and-swap is seen by nobody.                                 *)
AddLink(t) ==
    LET p == loc[t].prev
        i == loc[t].item
    IN  /\ pc[t] = "link"
        /\ IF node[p].next = loc[t].next
           THEN /\ node' = [node EXCEPT ![i].next = loc[t].next, ![p].next = i]
                /\ Return(t, "NODE_ADD")
           ELSE /\ node' = [node EXCEPT ![i].next = loc[t].next]
                /\ Goto(t, AddAt(node[p].next, Call(t).key), [loc[t] EXCEPT !.next = node[p].next])
                /\ UNCHANGED <<todo, last>>
        /\ UNCHANGED <<structure, first, count, freed, broken>>

(* The key is there: with the same value the new data and the item are     *)
(* freed; otherwise the data is exchanged,                                 *)
AddCompare(t) ==
    /\ pc[t] = "compare"
    /\ IF node[node[loc[t].next].data].val = Call(t).val
       THEN /\ Free({loc[t].data, loc[t].item})
            /\ Return(t, "NODE_EXIST")
       ELSE /\ Goto(t, "read_data", loc[t])
            /\ UNCHANGED <<freed, broken, todo, last>>
    /\ UNCHANGED <<structure, first, count, node>>

AddReadData(t) ==
    /\ pc[t] = "read_data"
    /\ Goto(t, "replace", [loc[t] EXCEPT !.local = node[loc[t].next].data])
    /\ UNCHANGED <<structure, first, count, node, freed, todo, last, broken>>

(* and the old one is freed, with the item, by whoever took it out.        *)
AddReplace(t) ==
    LET x == loc[t].next
    IN  /\ pc[t] = "replace"
        /\ IF node[x].data = loc[t].local
           THEN /\ node' = [node EXCEPT ![x].data = loc[t].data]
                /\ Free({loc[t].local, loc[t].item})
                /\ Return(t, "NODE_REPLACE")
           ELSE /\ Goto(t, "replace", [loc[t] EXCEPT !.local = node[x].data])
                /\ UNCHANGED <<node, freed, broken, todo, last>>
        /\ UNCHANGED <<structure, first, count>>

(* lf_hash_search: the head's next is read, then that of each smaller key. *)
SearchStep(t) ==
    LET k == Call(t).key
        p == IF loc[t].next = NULL THEN HeadOf(k) ELSE loc[t].next
        x == node[p].next
    IN  /\ pc[t] = "search"
        /\ CASE Place(x, k) = "before" -> Return(t, "SEARCH_FAIL")
             [] Place(x, k) = "at" -> Return(t, "SEARCH_SUCC")
             [] Place(x, k) = "after" -> /\ Goto(t, "search", [loc[t] EXCEPT !.next = x])
                                         /\ UNCHANGED <<todo, last>>
        /\ UNCHANGED <<structure, first, count, node, freed, broken>>

HashStep(t) ==
    \/ NoData(t) \/ GotData(t) \/ AddStart(t) \/ AddStep(t) \/ AddLink(t)
    \/ AddCompare(t) \/ AddReadData(t) \/ AddReplace(t) \/ SearchStep(t)

-----------------------------------------------------------------------------
(* The items of the buckets, and the map they make. *)
Linked == {x \in UNION {From(<<"head", b>>) : b \in 0..(bucket_max - 1)} : x[1] = "item"}

Map ==
    LET value[x \in DOMAIN node, k \in Keys] ==
            CASE Place(x, k) = "before" -> None
              [] Place(x, k) = "after" -> value[node[x].next, k]
              [] Place(x, k) = "at" -> node[node[x].data].val
    IN  [k \in Keys |-> value[node[HeadOf(k)].next, k]]

(* The items and the data are each in one place: on their list, held by    *)
(* one thread, in a bucket, or freed once; a bucket has each key once and  *)
(* in order; an add that has a data finds an item for it.                  *)
HashConserved ==
    \E items \in {From(first.item) \ {<<"item", 0>>}}, datas \in {From(first.data) \ {<<"data", 0>>}},
       linked \in {Linked} :
       LET used == linked \cup {node[x].data : x \in linked}
           held == UNION {Held(t) : t \in Threads}
       IN  /\ ~broken
           /\ items \cup datas \cup used \cup freed \cup held
                 = {"item", "data"} \X (1..Elements("hashmap"))
           /\ Cardinality(items) + Cardinality(datas) + 2 * Cardinality(linked) + Cardinality(freed)
                 + MapThenSumSet(LAMBDA t : Cardinality(Held(t)), Threads)
                 = 2 * Elements("hashmap")
           /\ \A x \in linked : node[x].next[1] = "item" => KeyOf(x) < KeyOf(node[x].next)
           /\ \A t \in Threads : pc[t] = "pop_cas" /\ loc[t].list = "item" => loc[t].arg # NULL
           /\ count = [item |-> Cardinality(items) + 1, data |-> Cardinality(datas) + 1]
=============================================================================
