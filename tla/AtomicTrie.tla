----------------------------- MODULE AtomicTrie -----------------------------
(***************************************************************************)
(* What lf_memtrie.c promises its callers: a set of words that contains    *)
(* the beginnings of its words and only grows.  An insertion adds one      *)
(* beginning after the other, each in one step; a search takes effect in   *)
(* one step.                                                               *)
(***************************************************************************)
EXTENDS Integers, Sequences

CONSTANTS Threads, Words, None

VARIABLES words, \* the words found
          last   \* what each thread's last call was and returned

vars == <<last, words>>

Init ==
    /\ words = {}
    /\ last = [t \in Threads |-> None]

Returned(t, op, w, r) ==
    last' = [last EXCEPT ![t] = [call |-> [op |-> op, word |-> w], result |-> r]]

(* The beginning w of the word of an insertion, which returns when it has  *)
(* added the whole word.                                                   *)
Grow(t, w) ==
    /\ w \notin words
    /\ Len(w) > 1 => SubSeq(w, 1, Len(w) - 1) \in words
    /\ words' = words \cup {w}
    /\ last' = last \/ Returned(t, "insert", w, "INSERT_SUCCESS")

(* An insertion that returns otherwise: it has added nothing, or others    *)
(* have added the last letter, or there are no nodes left.                 *)
Inserted(t, w) ==
    /\ \/ w \in words /\ \E r \in {"INSERT_SUCCESS", "INSERT_DUPLICATION"} : Returned(t, "insert", w, r)
       \/ Returned(t, "insert", w, "INSERT_ERROR")
    /\ UNCHANGED words

Search(t, w) ==
    /\ Returned(t, "search", w, IF w \in words THEN "SEARCH_SUCCESS" ELSE "SEARCH_ERROR")
    /\ UNCHANGED words

Next == \E t \in Threads, w \in Words : Grow(t, w) \/ Inserted(t, w) \/ Search(t, w)
=============================================================================
