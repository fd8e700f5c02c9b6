------------------------------ MODULE Memtrie ------------------------------
(***************************************************************************)
(* advance/lf_memtrie.c: a trie whose nodes have a first sub-node and a    *)
(* brother, the brothers in key order.  An insertion finds the longest     *)
(* beginning of its word that is there; for each letter after that it      *)
(* takes a node from the node list, looks for the letter once more, and    *)
(* links the node or, when another thread was first, pushes it back.       *)
(***************************************************************************)
EXTENDS NodeList

Root == <<"root", 0>>

(* trie_new: the root, and n nodes pushed on the list.                     *)
TrieNodes(n) == {Root} \cup {"node"} \X (1..n)

TrieInit(n) ==
    /\ first = [trie |-> IF n = 0 THEN NULL ELSE <<"node", n>>]
    /\ count = [trie |-> n, entry |-> 0]
    /\ node = [x \in TrieNodes(n) |->
                  [next |-> IF x[2] > 1 THEN <<"node", x[2] - 1>> ELSE NULL,
                   sub |-> NULL, key |-> 0]]

Letter(t) == Call(t).word[loc[t].pos]
IsLast(t) == loc[t].pos = Len(Call(t).word)

-----------------------------------------------------------------------------
TrieCall(t) ==
    /\ structure = "trie" /\ pc[t] = "idle" /\ todo[t] # <<>>
    /\ Goto(t, "sub", [NoLocals EXCEPT !.parent = Root, !.prev = Root])
    /\ UNCHANGED <<structure, first, count, node, freed, todo, last, broken>>

(* A search ends with the word or at the first letter that is missing.     *)
SearchEnds(t, found) == Return(t, IF found THEN "SEARCH_SUCCESS" ELSE "SEARCH_ERROR")

(* The letter is there, in x.  lf_trie_insert_node has come too late, and  *)
(* pushes its node back.                                                   *)
Found(t, x) ==
    LET down == [loc[t] EXCEPT !.parent = x, !.prev = x, !.pos = @ + 1]
    IN  IF loc[t].tnode # NULL
        THEN /\ node' = [node EXCEPT ![loc[t].tnode].next = NULL]
             /\ Goto(t, "push", [loc[t] EXCEPT !.parent = x, !.prev = x])
             /\ UNCHANGED <<todo, last>>
        ELSE /\ IF IsLast(t)
                THEN \/ Call(t).op = "search" /\ SearchEnds(t, TRUE)
                     \/ Call(t).op = "insert" /\ Return(t, "INSERT_DUPLICATION")
                ELSE Goto(t, "sub", down) /\ UNCHANGED <<todo, last>>
             /\ UNCHANGED node

(* It is not: it belongs between p and x.                                  *)
Missed(t, p, x) ==
    LET at == [loc[t] EXCEPT !.prev = p, !.next = x]
    IN  /\ IF Call(t).op = "search"
           THEN SearchEnds(t, FALSE)
           ELSE /\ Goto(t, IF loc[t].tnode = NULL THEN "pop" ELSE "link_node", at)
                /\ UNCHANGED <<todo, last>>
        /\ UNCHANGED node

(* The loop of get_subnode_by_label has come to x, the successor of p.     *)
Arrive(t, p, x) ==
    /\ CASE x = NULL -> Missed(t, p, x)
         [] x # NULL /\ node[x].key > Letter(t) -> Missed(t, p, x)
         [] x # NULL /\ node[x].key = Letter(t) -> Found(t, x)
         [] x # NULL /\ node[x].key < Letter(t) ->
               /\ Goto(t, "brother", [loc[t] EXCEPT !.prev = x])
               /\ UNCHANGED <<node, todo, last>>
    /\ UNCHANGED <<structure, first, count, freed, broken>>

(* It starts from the first sub-node, unless an earlier search has come    *)
(* past that: then it starts from where that one stopped.                  *)
FirstSub(t) ==
    LET x == node[loc[t].parent].sub
        resumes == loc[t].prev # loc[t].parent /\ x # NULL /\ node[x].key < Letter(t)
    IN  /\ pc[t] = "sub"
        /\ IF resumes THEN Arrive(t, loc[t].prev, loc[t].next) ELSE Arrive(t, loc[t].parent, x)

NextBrother(t) ==
    /\ pc[t] = "brother"
    /\ Arrive(t, loc[t].prev, node[loc[t].prev].next)

-----------------------------------------------------------------------------
(* lf_trie_insert_node.  There is no node left. *)
NoNode(t) ==
    /\ pc[t] = "pop_check" /\ first.trie = NULL
    /\ Return(t, "INSERT_ERROR")
    /\ UNCHANGED <<structure, first, count, node, freed, broken>>

GotNode(t) ==
    /\ pc[t] = "popped" /\ loc[t].list = "trie"
    /\ node' = [node EXCEPT ![loc[t].tnode].next = NULL, ![loc[t].tnode].key = Letter(t)]
    /\ Goto(t, "sub", loc[t])
    /\ UNCHANGED <<structure, first, count, freed, todo, last, broken>>

(* The letter is done, in x: the next one, or the end of the insertion.    *)
LetterDone(t, x) ==
    IF IsLast(t)
    THEN Return(t, "INSERT_SUCCESS")
    ELSE /\ Goto(t, "pop", [loc[t] EXCEPT !.tnode = NULL, !.parent = x, !.prev = x, !.next = NULL,
                                       !.pos = @ + 1])
         /\ UNCHANGED <<todo, last>>

(* Mutant: the node of an insertion that came too late is forgotten. *)
PushedBack_Lost(t) ==
    /\ pc[t] = "push"
    /\ LetterDone(t, loc[t].parent)
    /\ UNCHANGED <<structure, first, count, node, freed, broken>>

PushedBack(t) ==
    /\ pc[t] = "pushed"
    /\ LetterDone(t, loc[t].parent)
    /\ UNCHANGED <<structure, first, count, node, freed, broken>>

(* Mutant: the node is linked by a store. *)
LinkNode_Store(t) ==
    LET p == loc[t].prev
        n == loc[t].tnode
    IN  /\ pc[t] = "link_node"
        /\ node' = IF p = loc[t].parent
                   THEN [node EXCEPT ![n].next = loc[t].next, ![p].sub = n]
                   ELSE [node EXCEPT ![n].next = loc[t].next, ![p].next = n]
        /\ count' = [count EXCEPT !["entry"] = @ + 1]
        /\ LetterDone(t, n)
        /\ UNCHANGED <<structure, first, freed, broken>>

(* The node is linked after prev, which is the parent when the letter is   *)
(* to be the first one; or the letter is looked for again.                 *)
LinkNode(t) ==
    LET p == loc[t].prev
        n == loc[t].tnode
        down == p = loc[t].parent
        now == IF down THEN node[p].sub ELSE node[p].next
        stored == [node EXCEPT ![n].next = loc[t].next]
    IN  /\ pc[t] = "link_node"
        /\ IF now = loc[t].next
           THEN /\ node' = IF down THEN [stored EXCEPT ![p].sub = n] ELSE [stored EXCEPT ![p].next = n]
                /\ count' = [count EXCEPT !["entry"] = @ + 1]
                /\ LetterDone(t, n)
           ELSE /\ node' = stored
                /\ Goto(t, "sub", [loc[t] EXCEPT !.next = now])
                /\ UNCHANGED <<count, todo, last>>
        /\ UNCHANGED <<structure, first, freed, broken>>

TrieStep(t) ==
    FirstSub(t) \/ NextBrother(t) \/ NoNode(t) \/ GotNode(t) \/ PushedBack(t) \/ LinkNode(t)

(* trie_state_free, after all calls: the nodes of the list are popped and  *)
(* freed.  Those of the trie are not (trie_entry_free has a "todo").       *)
TrieFree ==
    /\ structure = "trie" /\ first.trie # NULL
    /\ \A t \in Threads : pc[t] = "idle" /\ todo[t] = <<>>
    /\ freed' = freed \cup From(first.trie)
    /\ first' = [first EXCEPT !.trie = NULL]
    /\ count' = [count EXCEPT !.trie = @ - Cardinality(From(first.trie))]
    /\ UNCHANGED <<structure, node, pc, loc, todo, last, broken>>

-----------------------------------------------------------------------------
(* The words of the trie: for each node the letters on the way to it. *)
Words ==
    LET below[x \in DOMAIN node \cup {NULL}] ==
            IF x = NULL THEN {}
            ELSE {<<node[x].key>>} \cup {<<node[x].key>> \o w : w \in below[node[x].sub]}
                    \cup below[node[x].next]
    IN  below[node[Root].sub]

InTrie ==
    LET below[x \in DOMAIN node \cup {NULL}] ==
            IF x = NULL THEN {} ELSE {x} \cup below[node[x].sub] \cup below[node[x].next]
    IN  below[node[Root].sub]

(* A node is in one place: on the list, with one thread, in the trie or    *)
(* freed; brothers have different keys, in order; the counters are exact.  *)
TrieConserved ==
    \E pool \in {From(first.trie)}, linked \in {InTrie} :
       /\ pool \cup linked \cup freed \cup UNION {Held(t) : t \in Threads}
             = {"node"} \X (1..Elements("trie"))
       /\ Cardinality(pool) + Cardinality(linked) + Cardinality(freed)
             + MapThenSumSet(LAMBDA t : Cardinality(Held(t)), Threads) = Elements("trie")
       /\ \A x \in linked : node[x].next # NULL => node[x].key < node[node[x].next].key
       /\ count = [trie |-> Cardinality(pool), entry |-> Cardinality(linked)]
=============================================================================
