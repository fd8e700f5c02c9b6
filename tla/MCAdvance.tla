----------------------------- MODULE MCAdvance -----------------------------
EXTENDS Advance, TLC

CONSTANTS a, b, c

add(k, v) == [op |-> "add", key |-> k, val |-> v]
find(k) == [op |-> "search", key |-> k]
insert(w) == [op |-> "insert", word |-> w]
search(w) == [op |-> "search", word |-> w]

(* Three threads put the same key, with values that agree or not, and one  *)
(* more data than there is; or different keys of one bucket and of the     *)
(* other, with searches.                                                   *)
HashScripts ==
    {(a :> <<add(2, 1), add(2, 2)>>) @@ (b :> <<add(2, 2)>>) @@ (c :> <<add(2, 1)>>),
     (a :> <<add(2, 1), find(4)>>) @@ (b :> <<add(4, 1), find(1)>>) @@ (c :> <<add(4, 2)>>),
     (a :> <<find(2), find(4)>>) @@ (b :> <<add(4, 1), add(1, 1)>>) @@ (c :> <<add(2, 1)>>)}

(* Three threads insert the same letter and its brothers; words with a     *)
(* common beginning; more letters than there are nodes.                    *)
TrieScripts ==
    {(a :> <<insert(<<2>>), search(<<1>>)>>) @@ (b :> <<insert(<<1>>)>>) @@ (c :> <<insert(<<1>>)>>),
     (a :> <<insert(<<2>>)>>) @@ (b :> <<insert(<<1>>), insert(<<3>>)>>) @@ (c :> <<insert(<<3>>)>>),
     (a :> <<insert(<<2, 1>>)>>) @@ (b :> <<insert(<<2, 3>>)>>) @@ (c :> <<search(<<2, 3>>)>>)}

MCScripts(s) == IF s = "hashmap" THEN HashScripts ELSE TrieScripts
MCElements(s) == 3
=============================================================================
