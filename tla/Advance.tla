------------------------------ MODULE Advance ------------------------------
(***************************************************************************)
(* Threads that use one of the structures of advance/, the hash map or the *)
(* trie.  When a pop has gone wrong (broken) memory is corrupt and nothing *)
(* is said of what follows.                                                *)
(***************************************************************************)
EXTENDS Hashmap, Memtrie

Init ==
    /\ structure \in Structures
    /\ \/ structure = "hashmap" /\ HashInit(Elements("hashmap"))
       \/ structure = "trie" /\ TrieInit(Elements("trie"))
    /\ freed = {}
    /\ pc = [t \in Threads |-> "idle"]
    /\ loc = [t \in Threads |-> NoLocals]
    /\ todo \in Scripts(structure)
    /\ last = [t \in Threads |-> None]
    /\ broken = FALSE

Start(t) == ~broken /\ (HashCall(t) \/ TrieCall(t))

Step(t) == ~broken /\ (ListStep(t) \/ HashStep(t) \/ TrieStep(t))

Next == (\E t \in Threads : Start(t) \/ Step(t)) \/ (~broken /\ TrieFree)

Spec == Init /\ [][Next]_vars

FairSpec == Spec /\ \A t \in Survivors : WF_vars(Start(t) \/ Step(t))

-----------------------------------------------------------------------------
(* Every item, data and trie node is in exactly one place: on its free     *)
(* list, with one thread, in the structure, or freed once.  The buckets    *)
(* and the brothers are sorted without duplicates, and the counters of the *)
(* lists are exact.  No call of the hash map corrupts a list; the trie's   *)
(* list, to which nodes return, may be corrupted by a pop.                 *)
NodesConserved ==
    IF structure = "hashmap" THEN HashConserved ELSE broken \/ TrieConserved

AMap == INSTANCE AtomicMap WITH map <- Map

(* lf_hash_add and lf_hash_search each take effect in one step, the one at *)
(* which they return, with the results that a map would give.              *)
IsAtomicMap ==
    /\ structure = "hashmap" => AMap!Init
    /\ [][structure = "hashmap" => UNCHANGED AMap!vars \/ AMap!Next]_vars

(* The words of the trie scripts, and their beginnings. *)
Beginnings ==
    UNION {UNION {UNION {{SubSeq(s[t][i].word, 1, n) : n \in 1..Len(s[t][i].word)}
                         : i \in DOMAIN s[t]} : t \in Threads} : s \in Scripts("trie")}

ATrie == INSTANCE AtomicTrie WITH words <- Words, Words <- Beginnings

(* Each letter that lf_trie_insert_node links adds one word, whose         *)
(* beginning is there; no word is ever lost; insertions and searches       *)
(* return what is true of the words at the step where they return.         *)
IsAtomicTrie ==
    /\ structure = "trie" => ATrie!Init
    /\ [][structure = "trie" => UNCHANGED ATrie!vars \/ ATrie!Next]_vars

(* A thread that keeps running ends all its calls to the hash map and the  *)
(* trie, whatever the others do: they may stop anywhere, with a node in    *)
(* hand or between the steps of a retry.                                   *)
EveryCallReturns == <>(broken \/ \A t \in Survivors : todo[t] = <<>>)
=============================================================================
