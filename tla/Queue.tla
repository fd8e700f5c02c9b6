------------------------------- MODULE Queue -------------------------------
(***************************************************************************)
(* basic/lf_queue.c: a queue of elements linked from dequeue (a dummy) to  *)
(* enqueue, shared by threads.  Every access to shared memory is a step of *)
(* its own, except that a call of the free list is one step: the list is   *)
(* an atomic stack (Freelist, FreelistProofs).  An element is the number   *)
(* of its allocation and stands for the freelist_element whose data it is. *)
(*                                                                         *)
(* The threads are callers: the n-th call of thread t is one of the        *)
(* operations script[t][n], and an item is the thread and number of the    *)
(* call that enqueues it.                                                  *)
(***************************************************************************)
EXTENDS LfBasic, Sequences, FiniteSets

CONSTANTS
    Threads,
    Survivors,       \* the threads that never stop inside a call
    Scripts,         \* the calls the threads may make
    number_elements, \* as given to queue_new
    MaxElements,     \* bound on the elements ever allocated
    Garbage          \* the values aba_count can have before queue_new sets it

Operations == {"enqueue", "guaranteed_enqueue", "dequeue"}

ASSUME QueueAssumption ==
    /\ Survivors \subseteq Threads
    /\ number_elements \in Nat
    /\ MaxElements \in Nat /\ number_elements < MaxElements
    /\ Garbage \subseteq Nat
    /\ Scripts \subseteq [Threads -> Seq(SUBSET Operations)]

Elements == 1..MaxElements

NoItem == <<>>

Items == UNION {UNION {{t} \X (1..Len(s[t])) : t \in Threads} : s \in Scripts}

(* The counters are declared as struct queue_element pointers, so that     *)
(* counter + 1 adds the size of an element.                                *)
CounterPlusOne(cnt) == cnt + 32

VARIABLES
    enqueue,       \* qs->enqueue
    dequeue,       \* qs->dequeue
    next,          \* qe->next of every element
    data,          \* qe->data of every element
    aba_count,     \* qs->aba_count
    fs,            \* qs->fs: the free elements, the last one on top
    element_count, \* the elements allocated
    freed,         \* the elements given back to the allocator
    pc,            \* where each thread is
    loc,           \* the locals of each thread's call
    script,        \* the calls each thread makes
    calls,         \* how many of them it has begun
    got,           \* what *data was after each thread's dequeues
    linked,        \* history: the items linked, in order
    taken,         \* history: how many of them were dequeued
    seen_empty     \* history: the dequeues that have seen all linked items taken

memory == <<enqueue, dequeue, next, data, aba_count, fs, element_count, freed>>
history == <<linked, taken, seen_empty>>
callers == <<script, calls>>
vars == <<memory, pc, loc, callers, got, history>>

NoLocals == [qe |-> NullPac, enqueue |-> NullPac, dequeue |-> NullPac, next |-> NullPac, data |-> NoItem]

(* queue_new: the dummy is the top of the free list.  The dummy is made    *)
(* before aba_count is set, so its next counter is what the memory held.   *)
Init ==
    /\ LET dummy == number_elements + 1
       IN  /\ enqueue = [ptr |-> dummy, cnt |-> 0]
           /\ dequeue = [ptr |-> dummy, cnt |-> 0]
           /\ \E g \in Garbage :
                 next = [e \in Elements |-> IF e = dummy THEN [ptr |-> NULL, cnt |-> g + 2] ELSE NullPac]
    /\ data = [e \in Elements |-> NoItem]
    /\ aba_count = 0
    /\ fs = [i \in 1..number_elements |-> i]
    /\ element_count = number_elements + 1
    /\ freed = {}
    /\ pc = [t \in Threads |-> "idle"]
    /\ loc = [t \in Threads |-> NoLocals]
    /\ script \in Scripts
    /\ calls = [t \in Threads |-> 0]
    /\ got = [t \in Threads |-> <<>>]
    /\ linked = <<>>
    /\ taken = 0
    /\ seen_empty = {}

DequeueLabels == {"deq_ptr", "deq_cnt", "deq_enq_ptr", "deq_enq_cnt", "deq_next_ptr",
                  "deq_check_ptr", "deq_check_cnt", "deq_help", "deq_data", "deq_dcas"}

Goto(t, from, to) ==
    /\ pc[t] = from
    /\ pc' = [pc EXCEPT ![t] = to]

(* A step that only changes thread t's locals. *)
Local(t, from, to, locals) ==
    /\ Goto(t, from, to)
    /\ loc' = [loc EXCEPT ![t] = locals]
    /\ UNCHANGED <<memory, callers, got, history>>

Return(t) ==
    /\ pc' = [pc EXCEPT ![t] = "idle"]
    /\ loc' = [loc EXCEPT ![t] = NoLocals]

Call(t, operation) ==
    /\ pc[t] = "idle"
    /\ calls[t] < Len(script[t])
    /\ operation \in script[t][calls[t] + 1]
    /\ calls' = [calls EXCEPT ![t] = @ + 1]
    /\ UNCHANGED script

-----------------------------------------------------------------------------
(* queue_enqueue and queue_guaranteed_enqueue *)

Begin(t, qe) ==
    /\ pc' = [pc EXCEPT ![t] = "init_count"]
    /\ loc' = [loc EXCEPT ![t].qe.ptr = qe, ![t].data = <<t, calls'[t]>>]
    /\ UNCHANGED <<enqueue, dequeue, next, data, aba_count, freed, got, history>>

Enqueue(t) ==
    /\ Call(t, "enqueue")
    /\ \/ /\ fs = <<>>
          /\ UNCHANGED <<memory, pc, loc, got, history>>
       \/ /\ fs # <<>>
          /\ fs' = SubSeq(fs, 1, Len(fs) - 1)
          /\ Begin(t, fs[Len(fs)])
          /\ UNCHANGED element_count

(* The first disjunct is an allocation that fails. *)
GuaranteedEnqueue(t) ==
    /\ Call(t, "guaranteed_enqueue")
    /\ \/ UNCHANGED <<memory, pc, loc, got, history>>
       \/ /\ element_count < MaxElements
          /\ element_count' = element_count + 1
          /\ Begin(t, element_count')
          /\ UNCHANGED fs

(* queue_internal_init_element *)
InitCount(t) ==
    /\ Goto(t, "init_count", "init_next_ptr")
    /\ aba_count' = abstraction_increment(aba_count)
    /\ loc' = [loc EXCEPT ![t].qe.cnt = aba_count']
    /\ UNCHANGED <<enqueue, dequeue, next, data, fs, element_count, freed, callers, got, history>>

(* Mutant: the next pointer of a recycled element is not cleared.          *)
InitNextPointer_Stale(t) ==
    /\ Goto(t, "init_next_ptr", "init_next_count")
    /\ UNCHANGED <<memory, loc, callers, got, history>>

InitNextPointer(t) ==
    /\ Goto(t, "init_next_ptr", "init_next_count")
    /\ next' = [next EXCEPT ![loc[t].qe.ptr].ptr = NULL]
    /\ UNCHANGED <<enqueue, dequeue, data, aba_count, fs, element_count, freed, loc, callers, got, history>>

InitNextCount(t) ==
    /\ Goto(t, "init_next_count", "init_next_cnt")
    /\ aba_count' = abstraction_increment(aba_count)
    /\ loc' = [loc EXCEPT ![t].next.cnt = aba_count']
    /\ UNCHANGED <<enqueue, dequeue, next, data, fs, element_count, freed, callers, got, history>>

InitNextCounter(t) ==
    /\ Goto(t, "init_next_cnt", "init_data")
    /\ next' = [next EXCEPT ![loc[t].qe.ptr].cnt = loc[t].next.cnt]
    /\ UNCHANGED <<enqueue, dequeue, data, aba_count, fs, element_count, freed, loc, callers, got, history>>

InitData(t) ==
    /\ Goto(t, "init_data", "enq_ptr")
    /\ data' = [data EXCEPT ![loc[t].qe.ptr] = loc[t].data]
    /\ UNCHANGED <<enqueue, dequeue, next, aba_count, fs, element_count, freed, loc, callers, got, history>>

(* queue_internal_queue *)
EnqReadPointer(t) ==
    Local(t, "enq_ptr", "enq_cnt", [loc[t] EXCEPT !.enqueue.ptr = enqueue.ptr])

EnqReadCounter(t) ==
    Local(t, "enq_cnt", "enq_next_ptr", [loc[t] EXCEPT !.enqueue.cnt = enqueue.cnt])

EnqReadNextPointer(t) ==
    Local(t, "enq_next_ptr", "enq_next_cnt",
          [loc[t] EXCEPT !.next.ptr = next[loc[t].enqueue.ptr].ptr])

EnqReadNextCounter(t) ==
    Local(t, "enq_next_cnt", "enq_check_ptr",
          [loc[t] EXCEPT !.next.cnt = next[loc[t].enqueue.ptr].cnt])

EnqCheckPointer(t) ==
    Local(t, "enq_check_ptr",
          IF enqueue.ptr = loc[t].enqueue.ptr THEN "enq_check_cnt" ELSE "enq_ptr", loc[t])

EnqCheckCounter(t) ==
    IF enqueue.cnt # loc[t].enqueue.cnt
    THEN Local(t, "enq_check_cnt", "enq_ptr", loc[t])
    ELSE IF loc[t].next.ptr = NULL
    THEN Local(t, "enq_check_cnt", "enq_link",
               [loc[t] EXCEPT !.qe.cnt = CounterPlusOne(loc[t].next.cnt)])
    ELSE Local(t, "enq_check_cnt", "enq_help",
               [loc[t] EXCEPT !.next.cnt = CounterPlusOne(loc[t].enqueue.cnt)])

EnqLink(t) ==
    LET tail == loc[t].enqueue.ptr
        dcas == abstraction_dcas(next[tail], loc[t].qe, loc[t].next)
    IN  /\ pc[t] = "enq_link"
        /\ next' = [next EXCEPT ![tail] = dcas.destination]
        /\ IF dcas.result = 1
           THEN /\ pc' = [pc EXCEPT ![t] = "enq_swing"]
                /\ loc' = [loc EXCEPT ![t].qe.cnt = CounterPlusOne(loc[t].enqueue.cnt)]
                /\ linked' = Append(linked, loc[t].data)
           ELSE /\ pc' = [pc EXCEPT ![t] = "enq_ptr"]
                /\ UNCHANGED <<loc, linked>>
        /\ UNCHANGED <<enqueue, dequeue, data, aba_count, fs, element_count, freed, callers, got, taken, seen_empty>>

(* Mutant: an enqueue waits for the thread that linked to move qs->enqueue. *)
EnqHelp_Wait(t) ==
    /\ Goto(t, "enq_help", "enq_ptr")
    /\ UNCHANGED <<memory, loc, callers, got, history>>

EnqHelp(t) ==
    /\ Goto(t, "enq_help", "enq_ptr")
    /\ enqueue' = abstraction_dcas(enqueue, loc[t].next, loc[t].enqueue).destination
    /\ UNCHANGED <<dequeue, next, data, aba_count, fs, element_count, freed, loc, callers, got, history>>

EnqSwing(t) ==
    /\ pc[t] = "enq_swing"
    /\ enqueue' = abstraction_dcas(enqueue, loc[t].qe, loc[t].enqueue).destination
    /\ Return(t)
    /\ UNCHANGED <<dequeue, next, data, aba_count, fs, element_count, freed, callers, got, history>>

-----------------------------------------------------------------------------
(* queue_dequeue.  The counter of next is loaded at line 100 and never used.*)

Dequeue(t) ==
    /\ Call(t, "dequeue")
    /\ pc' = [pc EXCEPT ![t] = "deq_ptr"]
    /\ seen_empty' = IF taken = Len(linked) THEN seen_empty \cup {t} ELSE seen_empty
    /\ UNCHANGED <<memory, loc, got, linked, taken>>

DeqReadPointer(t) ==
    Local(t, "deq_ptr", "deq_cnt", [loc[t] EXCEPT !.dequeue.ptr = dequeue.ptr])

DeqReadCounter(t) ==
    Local(t, "deq_cnt", "deq_enq_ptr", [loc[t] EXCEPT !.dequeue.cnt = dequeue.cnt])

DeqReadEnqueuePointer(t) ==
    Local(t, "deq_enq_ptr", "deq_enq_cnt", [loc[t] EXCEPT !.enqueue.ptr = enqueue.ptr])

DeqReadEnqueueCounter(t) ==
    Local(t, "deq_enq_cnt", "deq_next_ptr", [loc[t] EXCEPT !.enqueue.cnt = enqueue.cnt])

DeqReadNextPointer(t) ==
    Local(t, "deq_next_ptr", "deq_check_ptr",
          [loc[t] EXCEPT !.next.ptr = next[loc[t].dequeue.ptr].ptr])

DeqCheckPointer(t) ==
    Local(t, "deq_check_ptr",
          IF dequeue.ptr = loc[t].dequeue.ptr THEN "deq_check_cnt" ELSE "deq_ptr", loc[t])

DeqEmpty(t) ==
    /\ Return(t)
    /\ got' = [got EXCEPT ![t] = Append(@, NoItem)]
    /\ seen_empty' = seen_empty \ {t}
    /\ UNCHANGED <<memory, callers, linked, taken>>

(* Mutant: a dequeue does not look where qs->enqueue is.                   *)
DeqDecide_NoTail(t) ==
    /\ pc[t] = "deq_check_cnt"
    /\ IF loc[t].next.ptr # NULL
       THEN Local(t, "deq_check_cnt", "deq_data",
                  [loc[t] EXCEPT !.next.cnt = CounterPlusOne(loc[t].dequeue.cnt)])
       ELSE DeqEmpty(t)

(* Mutant: a dequeue takes enqueue = dequeue to mean empty.                *)
DeqDecide_NoHelp(t) ==
    /\ pc[t] = "deq_check_cnt"
    /\ IF loc[t].enqueue.ptr # loc[t].dequeue.ptr
       THEN Local(t, "deq_check_cnt", "deq_data",
                  [loc[t] EXCEPT !.next.cnt = CounterPlusOne(loc[t].dequeue.cnt)])
       ELSE DeqEmpty(t)

DeqDecide(t) ==
    /\ pc[t] = "deq_check_cnt"
    /\ IF loc[t].enqueue.ptr # loc[t].dequeue.ptr
       THEN Local(t, "deq_check_cnt", "deq_data",
                  [loc[t] EXCEPT !.next.cnt = CounterPlusOne(loc[t].dequeue.cnt)])
       ELSE IF loc[t].next.ptr # NULL
       THEN Local(t, "deq_check_cnt", "deq_help",
                  [loc[t] EXCEPT !.next.cnt = CounterPlusOne(loc[t].enqueue.cnt)])
       ELSE DeqEmpty(t)

DeqCheckCounter(t) ==
    IF dequeue.cnt # loc[t].dequeue.cnt
    THEN Local(t, "deq_check_cnt", "deq_ptr", loc[t])
    ELSE DeqDecide(t)

DeqHelp(t) ==
    /\ Goto(t, "deq_help", "deq_ptr")
    /\ enqueue' = abstraction_dcas(enqueue, loc[t].next, loc[t].enqueue).destination
    /\ UNCHANGED <<dequeue, next, data, aba_count, fs, element_count, freed, loc, callers, got, history>>

DeqReadData(t) ==
    Local(t, "deq_data", "deq_dcas", [loc[t] EXCEPT !.data = data[loc[t].next.ptr]])

(* Mutant: the result of the dcas is not looked at.                        *)
DeqDcas_IgnoreResult(t) ==
    /\ Goto(t, "deq_dcas", "deq_free")
    /\ dequeue' = abstraction_dcas(dequeue, loc[t].next, loc[t].dequeue).destination
    /\ got' = [got EXCEPT ![t] = Append(@, loc[t].data)]
    /\ UNCHANGED <<enqueue, next, data, aba_count, fs, element_count, freed, loc, callers, history>>

DeqDcas(t) ==
    LET dcas == abstraction_dcas(dequeue, loc[t].next, loc[t].dequeue)
    IN  /\ pc[t] = "deq_dcas"
        /\ dequeue' = dcas.destination
        /\ IF dcas.result = 1
           THEN /\ pc' = [pc EXCEPT ![t] = "deq_free"]
                /\ got' = [got EXCEPT ![t] = Append(@, loc[t].data)]
                /\ taken' = taken + 1
                /\ seen_empty' = IF taken' = Len(linked)
                                 THEN {u \in Threads \ {t} : pc[u] \in DequeueLabels}
                                 ELSE seen_empty \ {t}
           ELSE /\ pc' = [pc EXCEPT ![t] = "deq_ptr"]
                /\ UNCHANGED <<got, taken, seen_empty>>
        /\ UNCHANGED <<enqueue, next, data, aba_count, fs, element_count, freed, loc, callers, linked>>

(* Mutant: the element unlinked is not pushed back.                        *)
DeqFree_Forget(t) ==
    /\ pc[t] = "deq_free"
    /\ Return(t)
    /\ UNCHANGED <<memory, callers, got, history>>

DeqFree(t) ==
    /\ pc[t] = "deq_free"
    /\ fs' = Append(fs, loc[t].dequeue.ptr)
    /\ Return(t)
    /\ UNCHANGED <<enqueue, dequeue, next, data, aba_count, element_count, freed, callers, got, history>>

-----------------------------------------------------------------------------
(* The elements from e along the next pointers: walk[n][x] is the first n  *)
(* elements from x on.                                                     *)
From(e) ==
    LET walk[n \in 0..MaxElements] ==
            [x \in 0..MaxElements |->
                IF x = NULL \/ n = 0 THEN <<>> ELSE <<x>> \o walk[n - 1][next[x].ptr]]
    IN  walk[MaxElements][e]

ElementsIn(seq) == {seq[i] : i \in 1..Len(seq)}

Chain(e) == ElementsIn(From(e))

(* The items of the elements after e, in order.                            *)
ItemsAfter(e) ==
    LET elements == From(e) IN [i \in 1..Len(elements) - 1 |-> data[elements[i + 1]]]

(* queue_delete, by one thread when no call is in progress: what is left   *)
(* is dequeued and given to delete_func, the last dummy joins the free     *)
(* list, and freelist_delete frees all that is on the list.                *)
Delete(t) ==
    /\ \A u \in Threads : pc[u] = "idle"
    /\ pc' = [u \in Threads |-> "gone"]
    /\ got' = [got EXCEPT ![t] = @ \o ItemsAfter(dequeue.ptr)]
    /\ taken' = taken + Len(ItemsAfter(dequeue.ptr))
    /\ freed' = freed \cup {fs[i] : i \in 1..Len(fs)} \cup Chain(dequeue.ptr)
    /\ UNCHANGED <<enqueue, dequeue, next, data, aba_count, fs, element_count, loc, callers, linked, seen_empty>>

(* The steps of a call that has begun. *)
Continue(t) ==
    \/ InitCount(t) \/ InitNextPointer(t) \/ InitNextCount(t) \/ InitNextCounter(t) \/ InitData(t)
    \/ EnqReadPointer(t) \/ EnqReadCounter(t) \/ EnqReadNextPointer(t) \/ EnqReadNextCounter(t)
    \/ EnqCheckPointer(t) \/ EnqCheckCounter(t) \/ EnqLink(t) \/ EnqHelp(t) \/ EnqSwing(t)
    \/ DeqReadPointer(t) \/ DeqReadCounter(t) \/ DeqReadEnqueuePointer(t) \/ DeqReadEnqueueCounter(t)
    \/ DeqReadNextPointer(t) \/ DeqCheckPointer(t) \/ DeqCheckCounter(t) \/ DeqHelp(t)
    \/ DeqReadData(t) \/ DeqDcas(t) \/ DeqFree(t)

Next == \E t \in Threads : Enqueue(t) \/ GuaranteedEnqueue(t) \/ Dequeue(t) \/ Continue(t) \/ Delete(t)

Spec == Init /\ [][Next]_vars

(* The survivors keep being scheduled; any other thread may stop for ever  *)
(* at any step of a call.                                                  *)
FairSpec == Spec /\ \A t \in Survivors : WF_vars(Continue(t))

-----------------------------------------------------------------------------
(* Where an enqueue has an element whose next pointer is not yet cleared,  *)
(* where it has cleared it, and where it has read qs->enqueue since.       *)
TakenLabels == {"init_count", "init_next_ptr"}
LinkLabels == {"enq_cnt", "enq_next_ptr", "enq_next_cnt", "enq_check_ptr", "enq_check_cnt",
               "enq_link", "enq_help"}
ReadyLabels == {"init_next_count", "init_next_cnt", "init_data", "enq_ptr"} \cup LinkLabels

(* The element a thread has in its hands: popped from the free list and    *)
(* not linked yet, or unlinked and not yet pushed back.                    *)
Private(t) ==
    CASE pc[t] \in TakenLabels -> {loc[t].qe.ptr}
      [] pc[t] \in ReadyLabels -> Chain(loc[t].qe.ptr)
      [] pc[t] = "deq_free" -> {loc[t].dequeue.ptr}
      [] OTHER -> {}

(* The dummy never runs past the tail: qs->enqueue is an element reached   *)
(* from qs->dequeue, so queue_dequeue never unlinks the element that an    *)
(* enqueue is about to link to, and line 120 never follows a NULL pointer. *)
DequeueNeverPassesEnqueue ==
    /\ enqueue.ptr \in Chain(dequeue.ptr)
    /\ \A t \in Threads : pc[t] = "deq_data" => loc[t].next.ptr # NULL

(* Every element allocated is in one place: on the free list once, in the  *)
(* queue, or in (or linked behind) the element of one thread.              *)
ElementsConserved ==
    LET free == {fs[i] : i \in 1..Len(fs)}
        queue == Chain(dequeue.ptr)
        private == [t \in Threads |-> Private(t)]
    IN  /\ Cardinality(free) = Len(fs)
        /\ free \cap queue = {}
        /\ \A t \in Threads : private[t] \cap (free \cup queue) = {}
        /\ \A t, u \in Threads : t # u => private[t] \cap private[u] = {}
        /\ free \cup queue \cup UNION {private[t] : t \in Threads} = 1..element_count

Returned == UNION {{<<t, i>> : i \in {k \in 1..Len(got[t]) : got[t][k] # NoItem}} : t \in Threads}

(* An item is returned once at most and only if it was linked, although    *)
(* queue_dequeue reads it (line 120) before it knows that the element is   *)
(* still in the queue (line 122).                                          *)
ItemsReturnedOnce ==
    /\ \A r, s \in Returned : got[r[1]][r[2]] = got[s[1]][s[2]] => r = s
    /\ \A r \in Returned : \E i \in 1..Len(linked) : linked[i] = got[r[1]][r[2]]

(* queue_delete leaves nothing behind: every element allocated has been    *)
(* freed, and every item linked was returned by queue_dequeue or given to  *)
(* delete_func.                                                            *)
DeleteReclaimsAll ==
    (\E t \in Threads : pc[t] = "gone") =>
        /\ freed = 1..element_count
        /\ \A i \in 1..Len(linked) : \E r \in Returned : got[r[1]][r[2]] = linked[i]

(* What a thread dequeues of one thread's items is in the order in which   *)
(* that thread enqueued them.                                              *)
PerProducerOrder ==
    \A t \in Threads : pc[t] # "gone" => \A i, j \in 1..Len(got[t]) :
        i < j /\ got[t][i] # NoItem /\ got[t][j] # NoItem /\ got[t][i][1] = got[t][j][1]
            => got[t][i][2] < got[t][j][2]

-----------------------------------------------------------------------------
(* The inductive invariant *)

Pacs == Pac(0..MaxElements)

Labels == TakenLabels \cup ReadyLabels \cup DequeueLabels \cup {"idle", "enq_swing", "deq_free", "gone"}

TypeOK ==
    /\ enqueue \in Pacs /\ dequeue \in Pacs /\ next \in [Elements -> Pacs]
    /\ data \in [Elements -> Items \cup {NoItem}]
    /\ aba_count \in Nat
    /\ fs \in Seq(Elements) /\ element_count \in 0..MaxElements
    /\ pc \in [Threads -> Labels]
    /\ loc \in [Threads -> [qe : Pacs, enqueue : Pacs, dequeue : Pacs, next : Pacs, data : Items \cup {NoItem}]]
    /\ script \in Scripts /\ calls \in [Threads -> Nat]
    /\ got \in [Threads -> Seq(Items \cup {NoItem})]
    /\ linked \in Seq(Items) /\ taken \in Nat /\ seen_empty \subseteq Threads

(* s is the list of elements that the next pointers nx make from p to NULL. *)
IsList(nx, p, s) ==
    /\ s \in Seq(Elements) /\ s # <<>> /\ s[1] = p
    /\ \A i, j \in 1..Len(s) : s[i] = s[j] => i = j
    /\ \A i \in 1..Len(s) : nx[s[i]].ptr = IF i = Len(s) THEN NULL ELSE s[i + 1]

HandLabels == TakenLabels \cup ReadyLabels

(* s is what a thread at label l with locals r has in its hands.  It is a  *)
(* list as soon as the next pointer is cleared: an enqueue that read       *)
(* qs->enqueue before that element was recycled may link to it there.      *)
Holds(nx, l, r, s) ==
    /\ l \in TakenLabels => s = <<r.qe.ptr>>
    /\ l \in ReadyLabels => IsList(nx, r.qe.ptr, s)
    /\ l = "deq_free" => s = <<r.dequeue.ptr>>
    /\ l \notin HandLabels \cup {"deq_free"} => s = <<>>

(* K is the queue, and L[t] what thread t has in its hands. *)
Lists(K, L) ==
    /\ IsList(next, dequeue.ptr, K) /\ enqueue.ptr \in ElementsIn(K)
    /\ \A t \in Threads : Holds(next, pc[t], loc[t], L[t])

FreeOnce == \A i, j \in 1..Len(fs) : fs[i] = fs[j] => i = j

(* F, K and the P[t] are disjoint, and together they are 1..n. *)
Partition(F, K, P, n) ==
    /\ F \cap K = {} /\ \A t \in Threads : P[t] \cap (F \cup K) = {}
    /\ \A t, u \in Threads : t # u => P[t] \cap P[u] = {}
    /\ F \cup K \cup UNION {P[t] : t \in Threads} = 1..n

Hands(L) == [t \in Threads |-> ElementsIn(L[t])]

Places(K, L) == Partition(ElementsIn(fs), ElementsIn(K), Hands(L), element_count)

(* The next pointer of e is NULL only at the end of one of the lists. *)
Ends(nx, lab, e, K, L) ==
    \/ nx[e].ptr # NULL
    \/ e \in ElementsIn(K)
    \/ \E u \in Threads : lab[u] \in ReadyLabels /\ e \in ElementsIn(L[u])

(* So it is with the elements to which an enqueue may link. *)
Tails(K, L) ==
    \A t \in Threads : pc[t] \in LinkLabels =>
        loc[t].enqueue.ptr \in 1..element_count /\ Ends(next, pc, loc[t].enqueue.ptr, K, L)

(* The first thread may link its element behind the one of the second. *)
Edges(lab, lc, L) ==
    {e \in Threads \X Threads :
        lab[e[1]] \in LinkLabels /\ lab[e[2]] \in ReadyLabels /\ lc[e[1]].enqueue.ptr \in ElementsIn(L[e[2]])}

(* In any set of threads there is one that R leads to no other of them, so *)
(* the lists cannot be closed to a circle.                                 *)
Acyclic(R) == \A S \in SUBSET Threads : S # {} => \E a \in S : \A b \in S : <<a, b>> \notin R

Shape(K, L) == Lists(K, L) /\ Places(K, L) /\ Tails(K, L) /\ Acyclic(Edges(pc, loc, L))

(* What the locals r of a thread at label l agree with, given qs->enqueue  *)
(* and qs->dequeue: their counters only grow, so the words a call has read *)
(* are stale or nothing has changed since it read the counter.             *)
EnqueueAgrees(l, r, enq, nx) ==
    /\ l \in (LinkLabels \ {"enq_cnt"}) \cup {"enq_swing"} => r.enqueue.cnt <= enq.cnt
    /\ l \in {"enq_next_cnt", "enq_check_ptr", "enq_check_cnt", "enq_help"} =>
           (r.enqueue = enq /\ r.next.ptr # NULL => r.next.ptr = nx[enq.ptr].ptr)
    /\ l = "enq_link" => r.next.ptr = NULL
    /\ l = "enq_help" => r.next.ptr # NULL /\ r.next.cnt = CounterPlusOne(r.enqueue.cnt)
    /\ l = "enq_swing" => /\ r.qe.ptr # NULL /\ r.qe.cnt = CounterPlusOne(r.enqueue.cnt)
                          /\ r.enqueue = enq => r.qe.ptr = nx[enq.ptr].ptr

DequeueAgrees(l, r, enq, deq, nx, dt) ==
    /\ l \in DequeueLabels \ {"deq_ptr"} => r.dequeue.ptr # NULL
    /\ l \in DequeueLabels \ {"deq_ptr", "deq_cnt"} => r.dequeue.cnt <= deq.cnt
    /\ l \in DequeueLabels \ {"deq_ptr", "deq_cnt", "deq_enq_ptr"} =>
           (r.dequeue = deq /\ r.enqueue.ptr # deq.ptr => enq.ptr # deq.ptr)
    /\ l \in {"deq_next_ptr", "deq_check_ptr", "deq_check_cnt", "deq_help"} => r.enqueue.cnt <= enq.cnt
    /\ l \in {"deq_check_ptr", "deq_check_cnt", "deq_data", "deq_dcas"} =>
           (r.dequeue = deq /\ r.enqueue.ptr # deq.ptr => r.next.ptr = nx[deq.ptr].ptr)
    /\ l \in {"deq_check_ptr", "deq_check_cnt", "deq_help"} =>
           (r.enqueue = enq /\ r.dequeue.ptr = enq.ptr /\ r.next.ptr # NULL => r.next.ptr = nx[enq.ptr].ptr)
    /\ l = "deq_check_cnt" => (r.dequeue.cnt = deq.cnt => r.dequeue.ptr = deq.ptr)
    /\ l = "deq_help" => /\ r.next.ptr # NULL /\ r.next.cnt = CounterPlusOne(r.enqueue.cnt)
                         /\ r.dequeue.ptr = r.enqueue.ptr
    /\ l \in {"deq_data", "deq_dcas"} => /\ r.next.ptr # NULL /\ r.next.cnt = CounterPlusOne(r.dequeue.cnt)
                                         /\ r.dequeue.ptr # r.enqueue.ptr
    /\ l = "deq_dcas" => (r.dequeue = deq => r.data = dt[r.next.ptr])

LocalsAgree ==
    \A t \in Threads : /\ EnqueueAgrees(pc[t], loc[t], enqueue, next)
                       /\ DequeueAgrees(pc[t], loc[t], enqueue, dequeue, next, data)

(* An enqueue that has an element has a new item for it. *)
ItemsAreNew ==
    /\ \A i \in 1..Len(linked), t \in Threads : linked[i][1] = t =>
           linked[i][2] <= calls[t] /\ (pc[t] \in HandLabels => linked[i][2] < calls[t])
    /\ \A t \in Threads : pc[t] \in HandLabels => loc[t].data = <<t, calls[t]>>
    /\ \A t \in Threads : pc[t] \in LinkLabels \cup {"enq_ptr"} => data[loc[t].qe.ptr] = loc[t].data

(* The elements whose item is linked and not yet dequeued. *)
Carriers(K, L) ==
    {e \in Elements :
        \/ e \in ElementsIn(K) /\ e # dequeue.ptr
        \/ \E t \in Threads : pc[t] \in ReadyLabels /\ e \in ElementsIn(L[t]) /\ e # loc[t].qe.ptr}

(* What g has returned, and that it has returned nothing twice. *)
Given(g) == {x \in Items : \E t \in Threads : \E i \in 1..Len(g[t]) : g[t][i] = x}

GivenOnce(g) ==
    \A t, u \in Threads : \A i \in 1..Len(g[t]), j \in 1..Len(g[u]) :
        g[t][i] # NoItem /\ g[t][i] = g[u][j] => t = u /\ i = j

(* An item that was linked is in one of the elements C or was returned once. *)
Conserved(C, dt, g, lk) ==
    /\ \A e, f \in C : dt[e] = dt[f] => e = f
    /\ GivenOnce(g) /\ Given(g) \cap {dt[e] : e \in C} = {}
    /\ ElementsIn(lk) = Given(g) \cup {dt[e] : e \in C}

(* Before queue_delete, and after it. *)
Live(K, L) ==
    /\ freed = {} /\ \A t \in Threads : pc[t] # "gone"
    /\ ItemsAreNew /\ Conserved(Carriers(K, L), data, got, linked)

Deleted ==
    /\ freed = 1..element_count /\ \A t \in Threads : pc[t] = "gone"
    /\ GivenOnce(got) /\ Given(got) = ElementsIn(linked)

IInv ==
    LET K == From(dequeue.ptr)
        L == [t \in Threads |-> IF pc[t] \in TakenLabels THEN <<loc[t].qe.ptr>>
                                ELSE IF pc[t] \in ReadyLabels THEN From(loc[t].qe.ptr)
                                ELSE IF pc[t] = "deq_free" THEN <<loc[t].dequeue.ptr>> ELSE <<>>]
    IN  TypeOK /\ FreeOnce /\ LocalsAgree /\ Shape(K, L) /\ (Live(K, L) \/ Deleted)

-----------------------------------------------------------------------------
(* Whether the script ever takes an element from the free list. *)
Recycles == \E t \in Threads : \E n \in 1..Len(script[t]) : "enqueue" \in script[t][n]

Fifo == INSTANCE AtomicQueue WITH
    queue <- SubSeq(linked, taken + 1, Len(linked)),
    pending <- {t \in Threads : pc[t] \in DequeueLabels}

(* While no element is enqueued twice (queue_guaranteed_enqueue only), the *)
(* queue is an atomic first-in first-out queue to its callers.             *)
IsAtomicQueue ==
    /\ Fifo!Init
    /\ [][Recycles \/ Fifo!Next \/ UNCHANGED Fifo!vars]_vars

(* With finitely many calls to compete with, every call of a survivor      *)
(* returns, even if another thread has stopped between linking its element *)
(* (line 74) and moving qs->enqueue to it (line 83).                       *)
EveryCallReturns == \A t \in Survivors : []<>(pc[t] \in {"idle", "gone"})
=============================================================================
