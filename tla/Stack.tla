------------------------------- MODULE Stack -------------------------------
(***************************************************************************)
(* basic/lf_stack.c: a stack of items whose elements come from a free list *)
(* and go back to it.  Every access to shared memory is a step of its own; *)
(* a call of the free list is one step (see Queue).  The n-th call of      *)
(* thread t is one of the operations Script[t][n], and an item is the      *)
(* thread and number of the call that pushes it.                           *)
(***************************************************************************)
EXTENDS LfBasic, Sequences, FiniteSets

CONSTANTS
    Threads,
    Survivors,       \* the threads that never stop inside a call
    Script,          \* the calls each thread makes
    number_elements, \* as given to stack_new
    MaxElements      \* bound on the elements ever allocated

Operations == {"push", "guaranteed_push", "pop", "clear"}

ASSUME StackAssumption ==
    /\ Survivors \subseteq Threads
    /\ number_elements \in Nat
    /\ MaxElements \in Nat /\ number_elements <= MaxElements
    /\ Script \in [Threads -> Seq(SUBSET Operations)]

Elements == 1..MaxElements

NoItem == <<>>

Items == UNION {{<<t, n>> : n \in 1..Len(Script[t])} : t \in Threads}

VARIABLES
    top,           \* ss->top
    next,          \* se->next of every element
    data,          \* se->data of every element
    aba_counter,   \* ss->aba_counter
    fs,            \* ss->fs: the free elements, the last one on top
    element_count, \* the elements allocated
    freed,         \* the elements given back to the allocator
    pc,            \* where each thread is
    loc,           \* the locals of each thread's call
    calls,         \* the calls each thread has begun
    got            \* the data of each thread's pops, NoItem for a pop that returned 0

memory == <<top, next, data, aba_counter, fs, element_count, freed>>
vars == <<memory, pc, loc, calls, got>>

(* words: org_top of a push, the exchange words loaded by a pop's dcas.    *)
NoLocals == [se |-> NullPac, words |-> NullPac, data |-> NoItem, clear |-> FALSE]

(* stack_new *)
Init ==
    /\ top = NullPac
    /\ next = [e \in Elements |-> NullPac]
    /\ data = [e \in Elements |-> NoItem]
    /\ aba_counter = 0
    /\ fs = [i \in 1..number_elements |-> i]
    /\ element_count = number_elements
    /\ freed = {}
    /\ pc = [t \in Threads |-> "idle"]
    /\ loc = [t \in Threads |-> NoLocals]
    /\ calls = [t \in Threads |-> 0]
    /\ got = [t \in Threads |-> <<>>]

Goto(t, from, to) ==
    /\ pc[t] = from
    /\ pc' = [pc EXCEPT ![t] = to]

(* A step that only changes thread t's locals. *)
Local(t, from, to, locals) ==
    /\ Goto(t, from, to)
    /\ loc' = [loc EXCEPT ![t] = locals]
    /\ UNCHANGED <<memory, calls, got>>

(* A store to the next words of the element being pushed. *)
StoreNext(t, from, to, words) ==
    /\ Goto(t, from, to)
    /\ next' = [next EXCEPT ![loc[t].se.ptr] = words]
    /\ UNCHANGED <<top, data, aba_counter, fs, element_count, freed, loc, calls, got>>

Return(t) ==
    /\ pc' = [pc EXCEPT ![t] = "idle"]
    /\ loc' = [loc EXCEPT ![t] = NoLocals]

Call(t, operation) ==
    /\ pc[t] = "idle"
    /\ calls[t] < Len(Script[t])
    /\ operation \in Script[t][calls[t] + 1]
    /\ calls' = [calls EXCEPT ![t] = @ + 1]

-----------------------------------------------------------------------------
(* stack_push and stack_guaranteed_push *)

Begin(t, se) ==
    /\ pc' = [pc EXCEPT ![t] = "init_count"]
    /\ loc' = [loc EXCEPT ![t].se.ptr = se, ![t].data = <<t, calls'[t]>>]
    /\ UNCHANGED <<top, next, data, aba_counter, freed, got>>

Push(t) ==
    /\ Call(t, "push")
    /\ \/ /\ fs = <<>>
          /\ UNCHANGED <<memory, pc, loc, got>>
       \/ /\ fs # <<>>
          /\ fs' = SubSeq(fs, 1, Len(fs) - 1)
          /\ Begin(t, fs[Len(fs)])
          /\ UNCHANGED element_count

(* The first disjunct is an allocation that fails. *)
GuaranteedPush(t) ==
    /\ Call(t, "guaranteed_push")
    /\ \/ UNCHANGED <<memory, pc, loc, got>>
       \/ /\ element_count < MaxElements
          /\ element_count' = element_count + 1
          /\ Begin(t, element_count')
          /\ UNCHANGED fs

(* Mutant: the shared counter is read and not incremented.                 *)
InitCount_NoIncrement(t) ==
    Local(t, "init_count", "init_next_ptr", [loc[t] EXCEPT !.se.cnt = aba_counter])

(* stack_internal_init_element *)
InitCount(t) ==
    /\ Goto(t, "init_count", "init_next_ptr")
    /\ aba_counter' = abstraction_increment(aba_counter)
    /\ loc' = [loc EXCEPT ![t].se.cnt = aba_counter']
    /\ UNCHANGED <<top, next, data, fs, element_count, freed, calls, got>>

InitNextPointer(t) ==
    StoreNext(t, "init_next_ptr", "init_next_cnt", [next[loc[t].se.ptr] EXCEPT !.ptr = NULL])

InitNextCounter(t) ==
    StoreNext(t, "init_next_cnt", "init_data", [next[loc[t].se.ptr] EXCEPT !.cnt = 0])

InitData(t) ==
    /\ Goto(t, "init_data", "push_ptr")
    /\ data' = [data EXCEPT ![loc[t].se.ptr] = loc[t].data]
    /\ UNCHANGED <<top, next, aba_counter, fs, element_count, freed, loc, calls, got>>

(* stack_internal_push *)
PushReadPointer(t) ==
    Local(t, "push_ptr", "push_cnt", [loc[t] EXCEPT !.words.ptr = top.ptr])

PushReadCounter(t) ==
    Local(t, "push_cnt", "push_next_ptr", [loc[t] EXCEPT !.words.cnt = top.cnt])

PushWriteNextPointer(t) ==
    StoreNext(t, "push_next_ptr", "push_next_cnt",
              [next[loc[t].se.ptr] EXCEPT !.ptr = loc[t].words.ptr])

PushWriteNextCounter(t) ==
    StoreNext(t, "push_next_cnt", "push_dcas",
              [next[loc[t].se.ptr] EXCEPT !.cnt = loc[t].words.cnt])

PushDcas(t) ==
    LET dcas == abstraction_dcas(top, loc[t].se, loc[t].words)
    IN  /\ pc[t] = "push_dcas"
        /\ top' = dcas.destination
        /\ IF dcas.result = 1
           THEN Return(t)
           ELSE /\ pc' = [pc EXCEPT ![t] = "push_next_ptr"]
                /\ loc' = [loc EXCEPT ![t].words = dcas.compare]
        /\ UNCHANGED <<next, data, aba_counter, fs, element_count, freed, calls, got>>

-----------------------------------------------------------------------------
(* stack_pop and stack_clear, which pops until a pop returns 0 *)

Pop(t) ==
    /\ Call(t, "pop")
    /\ pc' = [pc EXCEPT ![t] = "pop_ptr"]
    /\ UNCHANGED <<memory, loc, got>>

Clear(t) ==
    /\ Call(t, "clear")
    /\ pc' = [pc EXCEPT ![t] = "pop_ptr"]
    /\ loc' = [loc EXCEPT ![t].clear = TRUE]
    /\ UNCHANGED <<memory, got>>

(* The test at the head of the loop: a NULL pointer ends the pop.          *)
PopLoop(t, se, to) ==
    IF se.ptr = NULL
    THEN /\ Return(t)
         /\ got' = [got EXCEPT ![t] = Append(@, NoItem)]
    ELSE /\ pc' = [pc EXCEPT ![t] = to]
         /\ loc' = [loc EXCEPT ![t].se = se]
         /\ UNCHANGED got

(* The counter loaded after a NULL pointer is never used.                  *)
PopReadPointer(t) ==
    /\ pc[t] = "pop_ptr"
    /\ PopLoop(t, [loc[t].se EXCEPT !.ptr = top.ptr], "pop_cnt")
    /\ UNCHANGED <<memory, calls>>

PopReadCounter(t) ==
    Local(t, "pop_cnt", "pop_next_ptr", [loc[t] EXCEPT !.se.cnt = top.cnt])

PopLoadNextPointer(t) ==
    Local(t, "pop_next_ptr", "pop_next_cnt",
          [loc[t] EXCEPT !.words.ptr = next[loc[t].se.ptr].ptr])

PopLoadNextCounter(t) ==
    Local(t, "pop_next_cnt", "pop_dcas",
          [loc[t] EXCEPT !.words.cnt = next[loc[t].se.ptr].cnt])

(* Mutant: a pop that loses the race reports an empty stack.               *)
PopDcas_GiveUp(t) ==
    LET dcas == abstraction_dcas(top, loc[t].words, loc[t].se)
    IN  /\ pc[t] = "pop_dcas"
        /\ top' = dcas.destination
        /\ IF dcas.result = 1
           THEN /\ pc' = [pc EXCEPT ![t] = "pop_data"]
                /\ UNCHANGED <<loc, got>>
           ELSE PopLoop(t, NullPac, "pop_next_ptr")
        /\ UNCHANGED <<next, data, aba_counter, fs, element_count, freed, calls>>

PopDcas(t) ==
    LET dcas == abstraction_dcas(top, loc[t].words, loc[t].se)
    IN  /\ pc[t] = "pop_dcas"
        /\ top' = dcas.destination
        /\ IF dcas.result = 1
           THEN /\ pc' = [pc EXCEPT ![t] = "pop_data"]
                /\ UNCHANGED <<loc, got>>
           ELSE PopLoop(t, dcas.compare, "pop_next_ptr")
        /\ UNCHANGED <<next, data, aba_counter, fs, element_count, freed, calls>>

PopReadData(t) ==
    Local(t, "pop_data", "pop_free", [loc[t] EXCEPT !.data = data[loc[t].se.ptr]])

PopFree(t) ==
    /\ pc[t] = "pop_free"
    /\ fs' = Append(fs, loc[t].se.ptr)
    /\ got' = [got EXCEPT ![t] = Append(@, loc[t].data)]
    /\ pc' = [pc EXCEPT ![t] = IF loc[t].clear THEN "pop_ptr" ELSE "idle"]
    /\ loc' = [loc EXCEPT ![t] = [NoLocals EXCEPT !.clear = loc[t].clear]]
    /\ UNCHANGED <<top, next, data, aba_counter, element_count, freed, calls>>

-----------------------------------------------------------------------------
(* The elements from ss->top along the next pointers: walk[n][x] is the    *)
(* first n elements from x on.                                             *)
Stacked ==
    LET walk[n \in 0..MaxElements] ==
            [x \in 0..MaxElements |->
                IF x = NULL \/ n = 0 THEN <<>> ELSE <<x>> \o walk[n - 1][next[x].ptr]]
    IN  walk[MaxElements][top.ptr]

StackedItems == LET elements == Stacked IN [i \in 1..Len(elements) |-> data[elements[i]]]

ElementsIn(seq) == {seq[i] : i \in 1..Len(seq)}

(* stack_delete, by one thread when no call is in progress: what is left   *)
(* is popped and given to delete_func, and freelist_delete frees all that  *)
(* is on the free list.                                                    *)
Delete(t) ==
    /\ \A u \in Threads : pc[u] = "idle"
    /\ pc' = [u \in Threads |-> "gone"]
    /\ got' = [got EXCEPT ![t] = @ \o StackedItems]
    /\ top' = NullPac
    /\ freed' = freed \cup ElementsIn(fs) \cup ElementsIn(Stacked)
    /\ UNCHANGED <<next, data, aba_counter, fs, element_count, loc, calls>>

(* The steps of a call that has begun. *)
Continue(t) ==
    \/ InitCount(t) \/ InitNextPointer(t) \/ InitNextCounter(t) \/ InitData(t)
    \/ PushReadPointer(t) \/ PushReadCounter(t)
    \/ PushWriteNextPointer(t) \/ PushWriteNextCounter(t) \/ PushDcas(t)
    \/ PopReadPointer(t) \/ PopReadCounter(t) \/ PopLoadNextPointer(t) \/ PopLoadNextCounter(t)
    \/ PopDcas(t) \/ PopReadData(t) \/ PopFree(t)

Next == \E t \in Threads :
    Push(t) \/ GuaranteedPush(t) \/ Pop(t) \/ Clear(t) \/ Continue(t) \/ Delete(t)

Spec == Init /\ [][Next]_vars

(* The survivors keep being scheduled; any other thread may stop for ever  *)
(* at any step of a call.                                                  *)
FairSpec == Spec /\ \A t \in Survivors : WF_vars(Continue(t))

-----------------------------------------------------------------------------
InitLabels == {"init_count", "init_next_ptr", "init_next_cnt", "init_data"}
PushLabels == {"push_ptr", "push_cnt", "push_next_ptr", "push_next_cnt", "push_dcas"}
PopLabels == {"pop_ptr", "pop_cnt", "pop_next_ptr", "pop_next_cnt", "pop_dcas"}
PoppedLabels == {"pop_data", "pop_free"}

(* The element a thread has in its hands: popped from the free list and    *)
(* not on the stack yet, or popped from the stack and not yet given back.  *)
Private(t) ==
    IF pc[t] \in InitLabels \cup PushLabels \cup PoppedLabels THEN {loc[t].se.ptr} ELSE {}

(* stack_delete has been called. *)
Gone == \E t \in Threads : pc[t] = "gone"

(* Every element allocated is in one place: on the free list once, on the  *)
(* stack once, or in the hands of one thread, although stack_pop reads the *)
(* next words (line 88) of an element that may have been popped, reused    *)
(* and pushed again since it read ss->top (lines 83 and 84); and           *)
(* stack_delete leaves no element behind.                                  *)
ElementsConserved ==
    LET free == ElementsIn(fs)
        stacked == ElementsIn(Stacked)
    IN  IF Gone
        THEN freed = 1..element_count
        ELSE /\ Cardinality(free) = Len(fs) /\ Cardinality(stacked) = Len(Stacked)
             /\ free \cap stacked = {}
             /\ \A t \in Threads : Private(t) \cap (free \cup stacked) = {}
             /\ \A t, u \in Threads : t # u => Private(t) \cap Private(u) = {}
             /\ free \cup stacked \cup UNION {Private(t) : t \in Threads} = 1..element_count

(* The stack is an atomic last-in first-out stack to its callers.  A pop   *)
(* takes effect at its dcas; the item it will return is what the data word *)
(* of its element holds until it reads it (line 89).                       *)
Lifo == INSTANCE AtomicLifo WITH
    items <- StackedItems,
    pending <- {t \in Threads : pc[t] \in PopLabels},
    got <- [t \in Threads |->
                CASE pc[t] = "pop_data" -> Append(got[t], data[loc[t].se.ptr])
                  [] pc[t] = "pop_free" -> Append(got[t], loc[t].data)
                  [] OTHER -> got[t]]

IsAtomicLifo == Lifo!Spec

(* The inductive invariant *)

Pacs == Pac(0..MaxElements)

TypeOK ==
    /\ top \in Pacs /\ next \in [Elements -> Pacs]
    /\ data \in [Elements -> Items \cup {NoItem}]
    /\ aba_counter \in Nat
    /\ fs \in Seq(Elements) /\ element_count \in 0..MaxElements /\ freed = {}
    /\ pc \in [Threads -> InitLabels \cup PushLabels \cup PopLabels \cup PoppedLabels \cup {"idle"}]
    /\ loc \in [Threads -> [se : Pacs, words : Pacs, data : Items \cup {NoItem}, clear : BOOLEAN]]
    /\ calls \in [Threads -> Nat]
    /\ got \in [Threads -> Seq(Items \cup {NoItem})]

(* The words that point to the i-th element of the stack. *)
PacTo(i) == IF i = 1 THEN top ELSE next[Stacked[i - 1]]

(* The elements from ss->top on are a list of elements without repetition  *)
(* that ends with NULL.                                                    *)
StackIsList ==
    /\ Stacked \in Seq(Elements)
    /\ \A i, j \in 1..Len(Stacked) : Stacked[i] = Stacked[j] => i = j
    /\ \A i \in 1..Len(Stacked) : PacTo(i).ptr = Stacked[i]
    /\ PacTo(Len(Stacked) + 1) = NullPac

FreeOnce == \A i, j \in 1..Len(fs) : fs[i] = fs[j] => i = j

(* Sets F and K of elements and the sets P[t] partition 1..n. *)
Partition(F, K, P, n) ==
    /\ F \cap K = {}
    /\ \A t \in Threads : P[t] \cap (F \cup K) = {}
    /\ \A t, u \in Threads : t # u => P[t] \cap P[u] = {}
    /\ F \cup K \cup UNION {P[t] : t \in Threads} = 1..n

InOnePlace ==
    Partition(ElementsIn(fs), ElementsIn(Stacked), [t \in Threads |-> Private(t)], element_count)

(* The thread has a counter for its push. *)
Marked(t) == pc[t] \in (InitLabels \ {"init_count"}) \cup PushLabels

(* The thread has read both words of ss->top for its pop. *)
HasTop(t) == pc[t] \in {"pop_next_ptr", "pop_next_cnt", "pop_dcas"}

(* A counter belongs to one push: an element on the stack and an element   *)
(* about to be pushed have different ones, and a pop has read the counter  *)
(* of a push that is done.                                                 *)
CountersMarkPushes ==
    /\ \A i \in 1..Len(Stacked) : PacTo(i).cnt \in 1..aba_counter
    /\ \A i, j \in 1..Len(Stacked) : PacTo(i).cnt = PacTo(j).cnt => i = j
    /\ \A t \in Threads : Marked(t) =>
           /\ loc[t].se.cnt \in 1..aba_counter
           /\ \A i \in 1..Len(Stacked) : PacTo(i).cnt # loc[t].se.cnt
           /\ \A u \in Threads : Marked(u) /\ loc[u].se.cnt = loc[t].se.cnt => u = t
           /\ \A u \in Threads : HasTop(u) => loc[u].se.cnt # loc[t].se.cnt
    /\ \A t \in Threads : HasTop(t) => loc[t].se.cnt <= aba_counter

(* What a call has read or written so far: the next words of a push are    *)
(* the words it compares ss->top with; if the words a pop compares with    *)
(* still point to an element, it has read that element's next words.       *)
LocalsAgree ==
    \A t \in Threads :
        /\ pc[t] \in InitLabels \cup PushLabels => loc[t].data \in Items
        /\ pc[t] \in PushLabels => data[loc[t].se.ptr] \in Items
        /\ pc[t] = "push_next_cnt" => next[loc[t].se.ptr].ptr = loc[t].words.ptr
        /\ pc[t] = "push_dcas" => next[loc[t].se.ptr] = loc[t].words
        /\ pc[t] \in PopLabels \ {"pop_ptr"} => loc[t].se.ptr # NULL
        /\ \A i \in 1..Len(Stacked) : PacTo(i) = loc[t].se =>
              /\ pc[t] = "pop_next_cnt" => next[Stacked[i]].ptr = loc[t].words.ptr
              /\ pc[t] = "pop_dcas" => next[Stacked[i]] = loc[t].words

StackedAreItems == \A i \in 1..Len(Stacked) : data[Stacked[i]] \in Items

Invariant ==
    /\ TypeOK /\ StackIsList /\ FreeOnce /\ InOnePlace
    /\ CountersMarkPushes /\ LocalsAgree /\ StackedAreItems

(* After stack_delete there are no calls and all elements have been freed. *)
IInv ==
    IF Gone
    THEN (\A t \in Threads : pc[t] = "gone") /\ freed = 1..element_count
    ELSE Invariant

(* With finitely many calls to compete with, every call of a survivor      *)
(* returns wherever the other threads have stopped.                        *)
EveryCallReturns == \A t \in Survivors : []<>(pc[t] \in {"idle", "gone"})
=============================================================================
