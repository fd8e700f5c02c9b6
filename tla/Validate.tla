------------------------------ MODULE Validate ------------------------------
(***************************************************************************)
(* The ..._QUERY_VALIDATE queries of lf_freelist.c, lf_queue.c, lf_stack.c *)
(* and lf_ringbuffer.c.  Each walks one or more lists that may be damaged: *)
(* two cursors look for a loop and, if there is none and the caller gives  *)
(* bounds, the elements are counted.  A list is what a walk from its first *)
(* pointer meets: len elements, the last of which points to NULL or, in a  *)
(* loop, back to an element of the walk.                                   *)
(***************************************************************************)
EXTENDS Integers, Sequences

CONSTANTS
    MaxLen,  \* bound on the elements a walk meets
    WordBits \* the width of atom_t

(* An element takes more than two bytes of the address space, so there are *)
(* fewer than half as many elements as a word can count.                   *)
ASSUME ValidateAssumption ==
    /\ MaxLen \in Nat /\ WordBits \in Nat
    /\ 2 * MaxLen < 2^WordBits

(* The NULL pointer *)
Nil == 0

Word(n) == n % 2^WordBits

Lists == {l \in [len : 0..MaxLen, back : 0..MaxLen] : l.back <= l.len}

(* The pointer to the first element, and the next pointer of element i.    *)
First(l) == IF l.len = 0 THEN Nil ELSE 1
NextOf(l, i) == IF i < l.len THEN i + 1 ELSE l.back

NoBounds == [min |-> -1, max |-> -1]
Bounds == {NoBounds} \cup {b \in [min : 0..MaxLen, max : 0..MaxLen] : b.min <= b.max}

VARIABLES
    kind,    \* the structure that is queried
    list,    \* its list: of a stack, or of a queue from its dummy on
    free,    \* its free list
    ring,    \* the free list of a ring buffer
    total,   \* the element_count of free
    vi,      \* the caller's validation_info
    job,     \* the number of the walk in progress
    stage, slow, fast, at, count,
    output   \* the verdicts, in the order of the caller's array

input == <<kind, list, free, ring, total, vi>>
query_vars == <<input, job, stage, slow, fast, at, count, output>>

(* The bounds of a free list of which the structure takes vi elements.     *)
Rest(elements, bounds) ==
    IF bounds = NoBounds THEN NoBounds
    ELSE [min |-> Word(elements - bounds.max), max |-> Word(elements - bounds.min)]

(* A walk: of which list, with which bounds, how many of its elements do   *)
(* not count, and where the verdict goes.                                  *)
Walk(l, bounds, dummies, out) == [list |-> l, vi |-> bounds, dummies |-> dummies, out |-> out]

(* freelist_query *)
FreelistWalks == <<Walk(free, vi, 0, 1)>>

(* Mutant: the dummy is counted as an element.                             *)
QueueWalks_CountDummy == <<Walk(list, vi, 1, 1), Walk(free, Rest(total, vi), 0, 2)>>

(* queue_internal_validate *)
QueueWalks == <<Walk(list, vi, 1, 1), Walk(free, Rest(total - 1, vi), 0, 2)>>

(* stack_query and stack_internal_validate.  Both the walk of the free     *)
(* list with bounds and the one without are made when there are bounds,    *)
(* and neither when there are none.                                        *)
StackWalks ==
    <<Walk(free, NoBounds, 0, 1), Walk(list, vi, 0, 1)>> \o
    (IF vi = NoBounds THEN <<>>
     ELSE <<Walk(free, Rest(total, vi), 0, 2), Walk(free, NoBounds, 0, 2)>>)

(* ringbuffer_internal_validate: the queue has a node for every element    *)
(* and the dummy.                                                          *)
RingBufferWalks == QueueWalks \o <<Walk(ring, Rest(total - 1, vi), 0, 3)>>

Walks ==
    CASE kind = "freelist" -> FreelistWalks
      [] kind = "queue" -> QueueWalks
      [] kind = "stack" -> StackWalks
      [] kind = "ringbuffer" -> RingBufferWalks

QueryInit ==
    /\ kind \in {"freelist", "queue", "stack", "ringbuffer"}
    /\ list \in IF kind = "freelist" THEN {[len |-> 0, back |-> 0]}
                ELSE {l \in Lists : kind # "stack" => l.len > 0}
    /\ free \in Lists
    /\ ring \in IF kind = "ringbuffer" THEN Lists ELSE {[len |-> 0, back |-> 0]}
    /\ total \in 1..MaxLen + 1
    /\ vi \in Bounds
    /\ job = 1 /\ stage = "begin"
    /\ slow = Nil /\ fast = Nil /\ at = Nil /\ count = 0
    /\ output = <<"unset", "unset", "unset">>

-----------------------------------------------------------------------------
Begin ==
    LET first == First(Walks[job].list)
    IN  /\ stage = "begin"
        /\ slow' = first /\ fast' = first /\ at' = first
        /\ count' = 0
        /\ stage' = IF first = Nil THEN "count" ELSE "loop"
        /\ UNCHANGED <<input, job, output>>

(* The end of a walk.  A verdict of stack_query's first walk other than    *)
(* VALID is also its last.                                                 *)
Verdict(v) ==
    /\ output' = [output EXCEPT ![Walks[job].out] = v]
    /\ IF job = Len(Walks) \/ (kind = "stack" /\ job = 1 /\ v # "VALID")
       THEN stage' = "done" /\ UNCHANGED job
       ELSE stage' = "begin" /\ job' = job + 1

(* The body of the do loop and its condition for given new cursors.        *)
Cursors(s, f) ==
    /\ stage = "loop"
    /\ slow' = s /\ fast' = f
    /\ IF s # Nil /\ f # s
       THEN UNCHANGED <<stage, job, output>>
       ELSE IF s # Nil /\ f # Nil
       THEN Verdict("INVALID_LOOP")
       ELSE stage' = "count" /\ UNCHANGED <<job, output>>
    /\ UNCHANGED <<input, at, count>>

(* Mutant: the fast cursor moves once only when the slow one does.         *)
FindLoop_OneStep ==
    LET l == Walks[job].list
        f == IF fast = Nil THEN Nil ELSE NextOf(l, fast)
    IN  Cursors(NextOf(l, slow), f)

(* Mutant: a loop is not looked for.                                       *)
FindLoop_Skip == Cursors(Nil, Nil)

FindLoop ==
    LET l == Walks[job].list
        once == IF fast = Nil THEN Nil ELSE NextOf(l, fast)
        twice == IF once = Nil THEN Nil ELSE NextOf(l, once)
    IN  Cursors(NextOf(l, slow), twice)

Count ==
    /\ stage = "count" /\ at # Nil /\ Walks[job].vi # NoBounds
    /\ count' = Word(count + 1)
    /\ at' = NextOf(Walks[job].list, at)
    /\ UNCHANGED <<input, job, stage, slow, fast, output>>

(* The two tests against the bounds, the second of which prevails.         *)
Compare ==
    LET bounds == Walks[job].vi
        elements == Word(count - Walks[job].dummies)
    IN  /\ stage = "count" /\ (at = Nil \/ bounds = NoBounds)
        /\ Verdict(IF bounds = NoBounds THEN "VALID"
                   ELSE IF elements > bounds.max THEN "INVALID_ADDITIONAL_ELEMENTS"
                   ELSE IF elements < bounds.min THEN "INVALID_MISSING_ELEMENTS"
                   ELSE "VALID")
        /\ UNCHANGED <<input, slow, fast, at, count>>

QueryNext == Begin \/ FindLoop \/ Count \/ Compare

(* One thread runs the query; nothing else moves. *)
QuerySpec == QueryInit /\ [][QueryNext]_query_vars /\ WF_query_vars(QueryNext)

-----------------------------------------------------------------------------
(* A list reported VALID has no loop, and when the caller gave bounds its  *)
(* number of elements is within them; a list reported otherwise is at      *)
(* fault.  This is what the two-cursor search and the count of             *)
(* freelist_internal_validate (lines 184 to 210) and the same code of the  *)
(* queue and the stack amount to.                                          *)
VerdictIsExact ==
    stage = "done" =>
        LET l == IF kind = "freelist" THEN free ELSE list
            elements == IF kind \in {"queue", "ringbuffer"} THEN l.len - 1 ELSE l.len
        IN  output[1] = "VALID" <=>
                /\ l.back = Nil
                /\ kind = "stack" => free.back = Nil
                /\ vi # NoBounds => vi.min <= elements /\ elements <= vi.max

(* A query with min_element = max_element that reports VALID everywhere    *)
(* proves that nothing is lost: the elements of the structure and of its   *)
(* free lists are all there are, although the bounds of the free list are  *)
(* differences that wrap around when vi exceeds the total.  A stack's      *)
(* query shows no such thing: it validates its free list a second time,    *)
(* without bounds (lf_stack.c:148).                                        *)
ValidMeansConserved ==
    stage = "done" /\ kind \in {"queue", "ringbuffer"} /\ vi # NoBounds /\ vi.min = vi.max
        /\ (\A k \in 1..(IF kind = "queue" THEN 2 ELSE 3) : output[k] = "VALID")
    => /\ list.len + free.len = total
       /\ kind = "ringbuffer" => list.len - 1 + ring.len = total - 1

(* The inductive invariant *)

Verdicts == {"VALID", "INVALID_LOOP", "INVALID_ADDITIONAL_ELEMENTS", "INVALID_MISSING_ELEMENTS"}
Kinds == {"freelist", "queue", "stack", "ringbuffer"}

(* The fixed lists and bounds of a query. *)
InputOK ==
    /\ kind \in Kinds
    /\ list \in Lists /\ (kind \in {"queue", "ringbuffer"} => list.len > 0)
    /\ free \in Lists /\ ring \in Lists
    /\ total \in 1..MaxLen + 1
    /\ vi \in Bounds

QueryTypeOK ==
    /\ InputOK
    /\ job \in 1..Len(Walks)
    /\ stage \in {"begin", "loop", "count", "done"}
    /\ slow \in 0..MaxLen /\ fast \in 0..MaxLen /\ at \in 0..MaxLen /\ count \in 0..MaxLen
    /\ output \in [1..3 -> Verdicts \cup {"unset"}]

(* In a list with a loop no cursor ever gets to NULL.  In one without, the *)
(* fast cursor stays ahead, and none of the walk is left uncounted.        *)
CursorsOK ==
    LET l == Walks[job].list
    IN  /\ stage = "loop" =>
              /\ slow \in 1..l.len /\ fast \in 0..l.len /\ at = 1 /\ count = 0
              /\ l.back # Nil => fast # Nil
              /\ l.back = Nil => fast = Nil \/ slow < fast \/ (slow = 1 /\ fast = 1)
        /\ stage = "count" =>
              /\ l.back = Nil
              /\ at \in 0..l.len
              /\ count = IF at = Nil THEN l.len ELSE at - 1

(* The list of a walk has no loop and as many elements as its bounds say.  *)
Good(walk) ==
    /\ walk.list.back = Nil
    /\ walk.vi # NoBounds =>
          /\ walk.vi.min <= Word(walk.list.len - walk.dummies)
          /\ Word(walk.list.len - walk.dummies) <= walk.vi.max

Finished(j) == j < job \/ stage = "done"

(* The verdicts given so far. *)
OutputOK ==
    /\ kind # "stack" =>
          /\ \A j \in 1..Len(Walks) : Finished(j) => (output[j] = "VALID" <=> Good(Walks[j]))
          /\ stage = "done" => job = Len(Walks)
    /\ kind = "stack" =>
          /\ job = 1 /\ stage = "done" => output[1] # "VALID" /\ ~Good(Walks[1])
          /\ job > 1 => Good(Walks[1])
          /\ job > 2 \/ (job = 2 /\ stage = "done") => (output[1] = "VALID" <=> Good(Walks[2]))

QueryInv == QueryTypeOK /\ CursorsOK /\ OutputOK

(* A query ends on every list, also on a loop: it is never for ever under  *)
(* way in one of its stages.                                               *)
QueryEnds == []<>(stage \notin {"begin", "loop", "count"})
=============================================================================
