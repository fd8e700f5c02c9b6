------------------------------ MODULE NodeList ------------------------------
(***************************************************************************)
(* What the hash map (advance/lf_hashmap.c) and the trie                   *)
(* (advance/lf_memtrie.c) share: lists of nodes allocated in advance, with *)
(* a pop and a push that compare and swap the first pointer alone, without *)
(* a counter beside it.                                                    *)
(*                                                                         *)
(* A node is a kind and a number.  The lists of the hash map end in a node *)
(* that is never popped; its next is never set and is NULL here, as is all *)
(* memory fresh from the allocator.                                        *)
(***************************************************************************)
EXTENDS Integers, Sequences, FiniteSets, FiniteSetsExt

CONSTANTS Threads,
          Survivors,     \* the threads that never stop inside a call
          Structures,    \* "hashmap" and "trie"
          Scripts(_),    \* structure -> the calls the threads may make
          Elements(_),   \* structure -> the nodes allocated per list
          None           \* no value, no call

ASSUME NodeListAssumption ==
    /\ Survivors \subseteq Threads
    /\ Structures \subseteq {"hashmap", "trie"}
    /\ \A s \in Structures : Elements(s) \in Nat

VARIABLES structure,   \* the structure in use, which never changes
          first,       \* list -> hl->he, dl->hd or nodelist->first
          count,       \* list -> item_num, data_count or nodelist_counter
          node,        \* node -> its fields
          freed,       \* the nodes given back to the allocator
          pc,          \* where each thread is
          loc,         \* the locals of each thread's call
          todo,        \* the calls each thread still has to make
          last,        \* what each thread's last call was and returned
          broken       \* a pop has stored a stale successor or followed NULL,
                       \* or a node was freed twice

vars == <<structure, first, count, node, freed, pc, loc, todo, last, broken>>

NULL == <<>>

(* The locals.  list, local and arg are those of a pop or a push, and the  *)
(* nodes held are item and data, or tnode.                                 *)
NoLocals == [list |-> "trie", local |-> NULL, arg |-> NULL, item |-> NULL, data |-> NULL,
             tnode |-> NULL, prev |-> NULL, next |-> NULL, parent |-> NULL, pos |-> 1]

Goto(t, l, new) ==
    /\ pc' = [pc EXCEPT ![t] = l]
    /\ loc' = [loc EXCEPT ![t] = new]

(* The call in progress, and its return with result r. *)
Call(t) == Head(todo[t])

Return(t, r) ==
    /\ Goto(t, "idle", NoLocals)
    /\ todo' = [todo EXCEPT ![t] = Tail(@)]
    /\ last' = [last EXCEPT ![t] = [call |-> Call(t), result |-> r]]

Free(S) ==
    /\ freed' = freed \cup S
    /\ broken' = (broken \/ freed \cap S # {})

(* A pop reads first and the successor of what it has read, an argument of *)
(* the compare-and-swap.  The hash map's lists are only popped from: a     *)
(* node's successor stays as it is while the node is the first, so that    *)
(* the two are read together here.  They are empty when the successor is   *)
(* NULL.                                                                   *)
Popping(l, locals) == [locals EXCEPT !.list = l, !.local = first[l], !.arg = node[first[l]].next]

(* tnode_pop looks at first again before it follows what it has read: it   *)
(* may follow NULL.                                                        *)
PopRead(t) ==
    /\ pc[t] = "pop"
    /\ Goto(t, "pop_check", [loc[t] EXCEPT !.local = first.trie])
    /\ UNCHANGED <<structure, first, count, node, freed, todo, last, broken>>

PopCheck(t) ==
    /\ pc[t] = "pop_check" /\ first.trie # NULL
    /\ Goto(t, "pop_arg", loc[t])
    /\ UNCHANGED <<structure, first, count, node, freed, todo, last, broken>>

PopArg(t) ==
    /\ pc[t] = "pop_arg"
    /\ IF loc[t].local = NULL
       THEN /\ Goto(t, "crashed", loc[t])
            /\ broken' = TRUE
       ELSE /\ Goto(t, "pop_cas", [loc[t] EXCEPT !.arg = node[loc[t].local].next])
            /\ UNCHANGED broken
    /\ UNCHANGED <<structure, first, count, node, freed, todo, last>>

(* Nobody reads the counter while the list is in use, so that it changes   *)
(* together with the list.                                                 *)
PopCas(t) ==
    LET l == loc[t].list
        n == loc[t].local
    IN  /\ pc[t] = "pop_cas"
        /\ l = "trie" \/ loc[t].arg # NULL
        /\ IF first[l] = n
           THEN /\ first' = [first EXCEPT ![l] = loc[t].arg]
                /\ count' = [count EXCEPT ![l] = @ - 1]
                /\ broken' = (broken \/ loc[t].arg # node[n].next)
                /\ Goto(t, "popped", CASE l = "item" -> [loc[t] EXCEPT !.item = n]
                                       [] l = "data" -> [loc[t] EXCEPT !.data = n]
                                       [] l = "trie" -> [loc[t] EXCEPT !.tnode = n])
           ELSE /\ IF l = "trie"
                   THEN Goto(t, "pop_check", [loc[t] EXCEPT !.local = first[l]])
                   ELSE Goto(t, "pop_cas", Popping(l, loc[t]))
                /\ UNCHANGED <<first, count, broken>>
        /\ UNCHANGED <<structure, node, freed, todo, last>>

(* tnode_push.  The pushes of the hash map all are in hash_new.            *)
PushRead(t) ==
    /\ pc[t] = "push"
    /\ Goto(t, "push_store", [loc[t] EXCEPT !.local = first["trie"]])
    /\ UNCHANGED <<structure, first, count, node, freed, todo, last, broken>>

PushStore(t) ==
    /\ pc[t] = "push_store"
    /\ node' = [node EXCEPT ![loc[t].tnode].next = loc[t].local]
    /\ Goto(t, "push_cas", loc[t])
    /\ UNCHANGED <<structure, first, count, freed, todo, last, broken>>

PushCas(t) ==
    /\ pc[t] = "push_cas"
    /\ IF first["trie"] = loc[t].local
       THEN /\ first' = [first EXCEPT !["trie"] = loc[t].tnode]
            /\ count' = [count EXCEPT !["trie"] = @ + 1]
            /\ Goto(t, "pushed", [loc[t] EXCEPT !.tnode = NULL])
       ELSE /\ Goto(t, "push_store", [loc[t] EXCEPT !.local = first["trie"]])
            /\ UNCHANGED <<first, count>>
    /\ UNCHANGED <<structure, node, freed, todo, last, broken>>

ListStep(t) ==
    \/ PopRead(t) \/ PopCheck(t) \/ PopArg(t) \/ PopCas(t)
    \/ PushRead(t) \/ PushStore(t) \/ PushCas(t)

-----------------------------------------------------------------------------
(* The nodes from n along next. *)
From(n) ==
    LET from[x \in DOMAIN node \cup {NULL}] == IF x = NULL THEN {} ELSE {x} \cup from[node[x].next]
    IN  from[n]

Held(t) == {loc[t].item, loc[t].data, loc[t].tnode} \ {NULL}
=============================================================================
