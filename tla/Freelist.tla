------------------------------ MODULE Freelist ------------------------------
(***************************************************************************)
(* basic/lf_freelist.c: a lock-free stack of elements shared by threads.   *)
(* Every access to shared memory is a step of its own: the two words of    *)
(* top and of an element's next are loaded and stored separately, only     *)
(* abstraction_dcas and abstraction_increment are atomic.  Code between    *)
(* two shared accesses is local and belongs to the step before it.         *)
(*                                                                         *)
(* An element is the number of its allocation; elements 1..element_count   *)
(* exist.  The callers of the list are the threads: a thread may push any  *)
(* element it holds, and holds what it popped or allocated.                *)
(***************************************************************************)
EXTENDS LfBasic, Sequences

CONSTANTS
    Threads,
    Survivors,    \* the threads that never stop inside a call
    MaxElements,  \* bound on the elements ever allocated
    InitElements, \* number_elements given to freelist_new
    MaxPush       \* bound on aba_counter, the pushes ever started

ASSUME FreelistAssumption ==
    /\ Survivors \subseteq Threads
    /\ MaxElements \in Nat
    /\ InitElements \in 0..MaxElements
    /\ MaxPush \in Nat

Elements == 1..MaxElements

VARIABLES
    top,           \* fs->top
    next,          \* fe->next of every element
    aba_counter,   \* fs->aba_counter
    element_count, \* fs->element_count
    pc,            \* where each thread is
    fe_local,      \* the local fe_local of pop and push
    fe_next,       \* push: original_fe_next; pop: the exchange words loaded by the dcas
    held,          \* the elements each thread owns
    ret,           \* what each thread's last pop returned, Pending while it runs
    list           \* history: the (element, counter) pairs pushed and not yet popped

vars == <<top, next, aba_counter, element_count, pc, fe_local, fe_next, held, ret, list>>

Pending == -1

PopLabels == {"pop_ptr", "pop_next_ptr", "pop_next_cnt", "pop_dcas"}
PushLabels == {"push_ptr", "push_cnt", "push_next_ptr", "push_next_cnt", "push_dcas"}
Labels == {"idle"} \cup PopLabels \cup PushLabels

(* freelist_new: number_elements times allocate and push, by one thread.   *)
(* The i-th push takes counter i and finds the (i-1)-th on top.            *)
Init ==
    /\ top = [ptr |-> InitElements, cnt |-> InitElements]
    /\ next = [e \in Elements |-> IF e <= InitElements THEN [ptr |-> e - 1, cnt |-> e - 1]
                                                       ELSE NullPac]
    /\ aba_counter = InitElements
    /\ element_count = InitElements
    /\ pc = [t \in Threads |-> "idle"]
    /\ fe_local = [t \in Threads |-> NullPac]
    /\ fe_next = [t \in Threads |-> NullPac]
    /\ held = [t \in Threads |-> {}]
    /\ ret = [t \in Threads |-> NULL]
    /\ list = [i \in 1..InitElements |-> [ptr |-> i, cnt |-> i]]

Goto(t, from, to) ==
    /\ pc[t] = from
    /\ pc' = [pc EXCEPT ![t] = to]

-----------------------------------------------------------------------------
(* freelist_pop *)

PopReadCounter(t) ==
    /\ Goto(t, "idle", "pop_ptr")
    /\ fe_local' = [fe_local EXCEPT ![t].cnt = top.cnt]
    /\ ret' = [ret EXCEPT ![t] = Pending]
    /\ UNCHANGED <<top, next, aba_counter, element_count, fe_next, held, list>>

(* The test at the head of the loop: a NULL pointer ends the pop.          *)
PopLoop(t, pointer) ==
    IF pointer = NULL
    THEN /\ pc' = [pc EXCEPT ![t] = "idle"]
         /\ ret' = [ret EXCEPT ![t] = NULL]
    ELSE /\ pc' = [pc EXCEPT ![t] = "pop_next_ptr"]
         /\ UNCHANGED ret

PopReadPointer(t) ==
    /\ pc[t] = "pop_ptr"
    /\ fe_local' = [fe_local EXCEPT ![t].ptr = top.ptr]
    /\ PopLoop(t, top.ptr)
    /\ UNCHANGED <<top, next, aba_counter, element_count, fe_next, held, list>>

PopLoadNextPointer(t) ==
    /\ Goto(t, "pop_next_ptr", "pop_next_cnt")
    /\ fe_next' = [fe_next EXCEPT ![t].ptr = next[fe_local[t].ptr].ptr]
    /\ UNCHANGED <<top, next, aba_counter, element_count, fe_local, held, ret, list>>

PopLoadNextCounter(t) ==
    /\ Goto(t, "pop_next_cnt", "pop_dcas")
    /\ fe_next' = [fe_next EXCEPT ![t].cnt = next[fe_local[t].ptr].cnt]
    /\ UNCHANGED <<top, next, aba_counter, element_count, fe_local, held, ret, list>>

(* Mutant: a pop whose dcas fails gives up and reports an empty list.      *)
PopDcas_GiveUp(t) ==
    LET dcas == abstraction_dcas(top, fe_next[t], fe_local[t])
    IN  /\ pc[t] = "pop_dcas"
        /\ top' = dcas.destination
        /\ fe_local' = [fe_local EXCEPT ![t] = dcas.compare]
        /\ IF dcas.result = 1
           THEN /\ pc' = [pc EXCEPT ![t] = "idle"]
                /\ held' = [held EXCEPT ![t] = @ \cup {fe_local[t].ptr}]
                /\ ret' = [ret EXCEPT ![t] = fe_local[t].ptr]
                /\ list' = SubSeq(list, 1, Len(list) - 1)
           ELSE /\ PopLoop(t, NULL)
                /\ UNCHANGED <<held, list>>
        /\ UNCHANGED <<next, aba_counter, element_count, fe_next>>

PopDcas(t) ==
    LET dcas == abstraction_dcas(top, fe_next[t], fe_local[t])
    IN  /\ pc[t] = "pop_dcas"
        /\ top' = dcas.destination
        /\ fe_local' = [fe_local EXCEPT ![t] = dcas.compare]
        /\ IF dcas.result = 1
           THEN /\ pc' = [pc EXCEPT ![t] = "idle"]
                /\ held' = [held EXCEPT ![t] = @ \cup {fe_local[t].ptr}]
                /\ ret' = [ret EXCEPT ![t] = fe_local[t].ptr]
                /\ list' = SubSeq(list, 1, Len(list) - 1)
           ELSE /\ PopLoop(t, dcas.compare.ptr)
                /\ UNCHANGED <<held, list>>
        /\ UNCHANGED <<next, aba_counter, element_count, fe_next>>

-----------------------------------------------------------------------------
(* freelist_push *)

(* Mutant: the counter is read and not incremented.                        *)
PushStart_NoIncrement(t, fe) ==
    /\ fe \in held[t]
    /\ Goto(t, "idle", "push_ptr")
    /\ fe_local' = [fe_local EXCEPT ![t] = [ptr |-> fe, cnt |-> aba_counter]]
    /\ UNCHANGED <<top, next, aba_counter, element_count, fe_next, held, ret, list>>

PushStart(t, fe) ==
    /\ fe \in held[t]
    /\ aba_counter < MaxPush
    /\ Goto(t, "idle", "push_ptr")
    /\ aba_counter' = abstraction_increment(aba_counter)
    /\ fe_local' = [fe_local EXCEPT ![t] = [ptr |-> fe, cnt |-> aba_counter']]
    /\ UNCHANGED <<top, next, element_count, fe_next, held, ret, list>>

PushReadPointer(t) ==
    /\ Goto(t, "push_ptr", "push_cnt")
    /\ fe_next' = [fe_next EXCEPT ![t].ptr = top.ptr]
    /\ UNCHANGED <<top, next, aba_counter, element_count, fe_local, held, ret, list>>

PushReadCounter(t) ==
    /\ Goto(t, "push_cnt", "push_next_ptr")
    /\ fe_next' = [fe_next EXCEPT ![t].cnt = top.cnt]
    /\ UNCHANGED <<top, next, aba_counter, element_count, fe_local, held, ret, list>>

PushWriteNextPointer(t) ==
    /\ Goto(t, "push_next_ptr", "push_next_cnt")
    /\ next' = [next EXCEPT ![fe_local[t].ptr].ptr = fe_next[t].ptr]
    /\ UNCHANGED <<top, aba_counter, element_count, fe_local, fe_next, held, ret, list>>

PushWriteNextCounter(t) ==
    /\ Goto(t, "push_next_cnt", "push_dcas")
    /\ next' = [next EXCEPT ![fe_local[t].ptr].cnt = fe_next[t].cnt]
    /\ UNCHANGED <<top, aba_counter, element_count, fe_local, fe_next, held, ret, list>>

(* Mutant: a failed push retries without storing the new next words.       *)
PushDcas_StaleNext(t) ==
    LET dcas == abstraction_dcas(top, fe_local[t], fe_next[t])
    IN  /\ pc[t] = "push_dcas"
        /\ top' = dcas.destination
        /\ fe_next' = [fe_next EXCEPT ![t] = dcas.compare]
        /\ IF dcas.result = 1
           THEN /\ pc' = [pc EXCEPT ![t] = "idle"]
                /\ held' = [held EXCEPT ![t] = @ \ {fe_local[t].ptr}]
                /\ list' = Append(list, fe_local[t])
           ELSE UNCHANGED <<pc, held, list>>
        /\ UNCHANGED <<next, aba_counter, element_count, fe_local, ret>>

PushDcas(t) ==
    LET dcas == abstraction_dcas(top, fe_local[t], fe_next[t])
    IN  /\ pc[t] = "push_dcas"
        /\ top' = dcas.destination
        /\ fe_next' = [fe_next EXCEPT ![t] = dcas.compare]
        /\ IF dcas.result = 1
           THEN /\ pc' = [pc EXCEPT ![t] = "idle"]
                /\ held' = [held EXCEPT ![t] = @ \ {fe_local[t].ptr}]
                /\ list' = Append(list, fe_local[t])
           ELSE /\ pc' = [pc EXCEPT ![t] = "push_next_ptr"]
                /\ UNCHANGED <<held, list>>
        /\ UNCHANGED <<next, aba_counter, element_count, fe_local, ret>>

-----------------------------------------------------------------------------
(* freelist_internal_new_element, as freelist_guaranteed_pop calls it: the *)
(* new element goes to the caller and never through the list.  The second  *)
(* disjunct is init_func refusing, which frees the element again.          *)
GuaranteedPop(t) ==
    /\ pc[t] = "idle"
    /\ \/ /\ element_count < MaxElements
          /\ element_count' = abstraction_increment(element_count)
          /\ held' = [held EXCEPT ![t] = @ \cup {element_count'}]
          /\ ret' = [ret EXCEPT ![t] = element_count']
       \/ /\ ret' = [ret EXCEPT ![t] = NULL]
          /\ UNCHANGED <<element_count, held>>
    /\ UNCHANGED <<top, next, aba_counter, pc, fe_local, fe_next, list>>

(* The steps of a call that has begun. *)
Continue(t) ==
    \/ PopReadPointer(t)
    \/ PopLoadNextPointer(t)
    \/ PopLoadNextCounter(t)
    \/ PopDcas(t)
    \/ PushReadPointer(t)
    \/ PushReadCounter(t)
    \/ PushWriteNextPointer(t)
    \/ PushWriteNextCounter(t)
    \/ PushDcas(t)

(* The first step of a call. *)
Call(t) ==
    \/ PopReadCounter(t)
    \/ \E fe \in Elements : PushStart(t, fe)
    \/ GuaranteedPop(t)

Next == \E t \in Threads : Call(t) \/ Continue(t)

Spec == Init /\ [][Next]_vars

(* The survivors keep being scheduled inside a call; any other thread may  *)
(* stop for ever at any step.  Nothing is assumed about when or whether a  *)
(* thread makes another call.                                              *)
FairSpec == Spec /\ \A t \in Survivors : WF_vars(Continue(t))

-----------------------------------------------------------------------------
(* Type invariant: every pair formed of separately loaded words has an     *)
(* allocatable element (or NULL) and a counter.                            *)
TypeOK ==
    /\ top \in Pac(0..MaxElements)
    /\ next \in [Elements -> Pac(0..MaxElements)]
    /\ aba_counter \in Nat
    /\ element_count \in 0..MaxElements
    /\ pc \in [Threads -> Labels]
    /\ fe_local \in [Threads -> Pac(0..MaxElements)]
    /\ fe_next \in [Threads -> Pac(0..MaxElements)]
    /\ held \in [Threads -> SUBSET Elements]
    /\ ret \in [Threads -> -1..MaxElements]
    /\ list \in Seq(Pac(Elements))

(* The memory is the list: fs->top names the last pair pushed, and the     *)
(* next words of every listed element name the pair below it, down to the  *)
(* NULL of the empty list, although every one of these words is loaded and *)
(* stored separately from its neighbour (lines 107-108, 137-141).          *)
MemoryIsList ==
    /\ top = IF Len(list) = 0 THEN NullPac ELSE list[Len(list)]
    /\ \A i \in 1..Len(list) :
           next[list[i].ptr] = IF i = 1 THEN NullPac ELSE list[i - 1]

Listed(e) == \E i \in 1..Len(list) : list[i].ptr = e
Owned(e) == \E t \in Threads : e \in held[t]

(* No element is lost and none is handed out twice: an allocated element   *)
(* is on the list once and held by no thread, or off it and held by        *)
(* exactly one thread; one not yet allocated is nowhere.                   *)
NoElementLostOrShared ==
    /\ \A i, j \in 1..Len(list) : list[i].ptr = list[j].ptr => i = j
    /\ \A t, u \in Threads : t # u => held[t] \cap held[u] = {}
    /\ \A e \in Elements : ~(Listed(e) /\ Owned(e))
    /\ \A e \in Elements : Listed(e) \/ Owned(e) <=> e <= element_count

(* No thread writes the next words of an element while it is on the list,  *)
(* which is what makes the unprotected load of fe->next in freelist_pop    *)
(* (line 115) agree with the top its dcas compares.                        *)
ListedNextIsStable ==
    [][\A i \in 1..Len(list) : next'[list[i].ptr] = next[list[i].ptr]]_vars

(* The words loaded by a pop are those of its element's next whenever its  *)
(* dcas can succeed, and the words stored by a push are those of the top   *)
(* its dcas compares: a success never publishes a torn pair.               *)
NoTornPublish ==
    \A t \in Threads :
        /\ pc[t] = "pop_dcas" /\ top = fe_local[t] => fe_next[t] = next[fe_local[t].ptr]
        /\ pc[t] = "push_dcas" /\ top = fe_next[t] => next[fe_local[t].ptr] = top

(* A counter word marks one push for ever: the counter of a push in        *)
(* progress is on no listed pair and in no other call's fe_local, so a     *)
(* stalled pop can never mistake a later push of the same element for the  *)
(* pair it read (lines 107-116 and 136).                                   *)
CountersMarkPushes ==
    /\ \A i \in 1..Len(list) : list[i].cnt <= aba_counter
    /\ \A t \in Threads : fe_local[t].cnt <= aba_counter
    /\ \A u \in Threads : pc[u] \in PushLabels =>
          /\ fe_local[u].ptr \in held[u]
          /\ fe_local[u].cnt > 0
          /\ \A i \in 1..Len(list) : list[i].cnt # fe_local[u].cnt
          /\ \A t \in Threads \ {u} : pc[t] # "idle" => fe_local[t].cnt # fe_local[u].cnt

LocalsOf(t) ==
    /\ pc[t] \in PopLabels <=> ret[t] = Pending
    /\ pc[t] \in PopLabels \ {"pop_ptr"} =>
          /\ fe_local[t].ptr # NULL
          /\ (\E i \in 1..Len(list) : list[i] = fe_local[t]) =>
                /\ pc[t] # "pop_next_ptr" => fe_next[t].ptr = next[fe_local[t].ptr].ptr
                /\ pc[t] = "pop_dcas" => fe_next[t].cnt = next[fe_local[t].ptr].cnt
    /\ pc[t] \in {"push_next_cnt", "push_dcas"} =>
          next[fe_local[t].ptr].ptr = fe_next[t].ptr
    /\ pc[t] = "push_dcas" => next[fe_local[t].ptr].cnt = fe_next[t].cnt

(* What a call has in its locals agrees with the memory for as long as it  *)
(* matters: the words a pop loaded through its unprotected pointer are the *)
(* element's next words as long as its pair is listed, and those a push    *)
(* stored in its element are its original_fe_next.                         *)
LocalsAgree == \A t \in Threads : LocalsOf(t)

(* The inductive invariant of freelist_pop and freelist_push. *)
IInv ==
    /\ TypeOK
    /\ MemoryIsList
    /\ NoElementLostOrShared
    /\ CountersMarkPushes
    /\ LocalsAgree

PointersOf(pairs) == [i \in 1..Len(pairs) |-> pairs[i].ptr]

(* The list as its callers see it is an atomic stack: a pop takes the last *)
(* element pushed, and returns NULL only if the stack was empty at some    *)
(* moment of the call.                                                     *)
Stack == INSTANCE AtomicStack WITH
    stack <- PointersOf(list)

IsAtomicStack == Stack!Spec

(* With finitely many pushes to compete with, every pop and push of a      *)
(* survivor returns, wherever the other threads have stopped: a dcas fails *)
(* only if another thread's succeeded in between.                          *)
EveryCallReturns ==
    \A t \in Survivors : []<>(pc[t] = "idle")
=============================================================================
