------------------------------- MODULE Slist -------------------------------
(***************************************************************************)
(* basic/lf_slist.c: a singly linked list that grows at its head or after  *)
(* any element, and whose elements are deleted logically, by a flag that   *)
(* shares a double word with the data.  Elements are unlinked and freed    *)
(* only by one thread, at the end.  Every access to a shared word is a     *)
(* step of its own; an element not linked yet is private to its thread.    *)
(* Each thread keeps the element it last created at the head or got by     *)
(* slist_get_head or slist_get_next, and makes its next call on it.        *)
(***************************************************************************)
EXTENDS LfBasic, Sequences, FiniteSets

CONSTANTS
    Threads,
    Survivors,  \* the threads that never stop inside a call
    Script,     \* Script[t][n]: the operations the n-th call of t may be
    MaxElements \* bound on the elements ever allocated

Operations == {"new_head", "new_next", "delete", "get_data", "set_data", "get_head", "get_next"}

ASSUME SlistAssumption ==
    /\ Survivors \subseteq Threads
    /\ MaxElements \in Nat
    /\ Script \in [Threads -> Seq(SUBSET Operations)]

Elements == 1..MaxElements
Pointers == 0..MaxElements

NoData == <<>>

(* The data given to the n-th call of t. *)
Data == UNION {{<<t, n>> : n \in 1..Len(Script[t])} : t \in Threads}

VARIABLES
    head,          \* ss->head
    next,          \* se->next of every element
    data_flag,     \* se->data_flag: the data and whether SLIST_FLAG_DELETED is set
    element_count, \* the elements allocated
    freed,         \* the elements given back to the allocator
    disposed,      \* the (element, data) of every call of delete_func, in order
    deletes,       \* the calls of slist_logically_delete_element that returned 1
    cur,           \* each thread's element
    read,          \* the last (result, data) of each thread's slist_get_data
    pc, loc, calls

memory == <<head, next, data_flag, element_count, freed, disposed, deletes>>
vars == <<memory, cur, read, pc, loc, calls>>

NoDataFlag == [data |-> NoData, deleted |-> FALSE]

(* se: the new element, or the one a traversal is at; se_next and          *)
(* data_flag: the values last read.                                        *)
NoLocals == [se |-> NULL, se_next |-> NULL, data_flag |-> NoDataFlag]

(* slist_new *)
Init ==
    /\ head = NULL
    /\ next = [e \in Elements |-> NULL]
    /\ data_flag = [e \in Elements |-> NoDataFlag]
    /\ element_count = 0
    /\ freed = {}
    /\ disposed = <<>>
    /\ deletes = 0
    /\ cur = [t \in Threads |-> NULL]
    /\ read = [t \in Threads |-> [result |-> 0, data |-> NoData]]
    /\ pc = [t \in Threads |-> "idle"]
    /\ loc = [t \in Threads |-> NoLocals]
    /\ calls = [t \in Threads |-> 0]

(* A step that only changes thread t's locals. *)
Local(t, from, to, locals) ==
    /\ pc[t] = from
    /\ pc' = [pc EXCEPT ![t] = to]
    /\ loc' = [loc EXCEPT ![t] = locals]
    /\ UNCHANGED <<memory, cur, read, calls>>

Return(t) ==
    /\ pc' = [pc EXCEPT ![t] = "idle"]
    /\ loc' = [loc EXCEPT ![t] = NoLocals]

Call(t, operation) ==
    /\ pc[t] = "idle"
    /\ calls[t] < Len(Script[t])
    /\ operation \in Script[t][calls[t] + 1]
    /\ calls' = [calls EXCEPT ![t] = @ + 1]

(* A call on the thread's element that starts with a read. *)
CallOnElement(t, operation, to) ==
    /\ cur[t] # NULL
    /\ Call(t, operation)
    /\ pc' = [pc EXCEPT ![t] = to]
    /\ UNCHANGED <<memory, cur, read, loc>>

-----------------------------------------------------------------------------
(* slist_new_head and slist_new_next *)

(* aligned_malloc and the initialisation; in the first disjunct it fails   *)
(* and the call returns NULL.                                              *)
NewElement(t, failed, to) ==
    \/ /\ cur' = [cur EXCEPT ![t] = failed]
       /\ UNCHANGED <<memory, read, pc, loc>>
    \/ /\ element_count < MaxElements
       /\ element_count' = element_count + 1
       /\ data_flag' = [data_flag EXCEPT ![element_count'] =
                            [data |-> <<t, calls'[t]>>, deleted |-> FALSE]]
       /\ loc' = [loc EXCEPT ![t].se = element_count']
       /\ pc' = [pc EXCEPT ![t] = to]
       /\ UNCHANGED <<head, next, freed, disposed, deletes, cur, read>>

NewHead(t) == Call(t, "new_head") /\ NewElement(t, NULL, "head_read")

NewNext(t) ==
    /\ cur[t] # NULL
    /\ Call(t, "new_next")
    /\ NewElement(t, cur[t], "after_read")

LinkHeadRead(t) ==
    Local(t, "head_read", "head_cas", [loc[t] EXCEPT !.se_next = head])

(* Mutant: the head is stored without a comparison.                        *)
LinkHeadCas_Store(t) ==
    /\ pc[t] = "head_cas"
    /\ next' = [next EXCEPT ![loc[t].se] = loc[t].se_next]
    /\ head' = loc[t].se
    /\ cur' = [cur EXCEPT ![t] = loc[t].se]
    /\ Return(t)
    /\ UNCHANGED <<data_flag, element_count, freed, disposed, deletes, read, calls>>

(* se->next = se_next and the cas; the loop compares its result with       *)
(* se->next, which it has read before the cas.                             *)
LinkHeadCas(t) ==
    /\ pc[t] = "head_cas"
    /\ next' = [next EXCEPT ![loc[t].se] = loc[t].se_next]
    /\ IF head = loc[t].se_next
       THEN /\ head' = loc[t].se
            /\ cur' = [cur EXCEPT ![t] = loc[t].se]
            /\ Return(t)
       ELSE /\ loc' = [loc EXCEPT ![t].se_next = head]
            /\ UNCHANGED <<head, cur, pc>>
    /\ UNCHANGED <<data_flag, element_count, freed, disposed, deletes, read, calls>>

LinkAfterRead(t) ==
    Local(t, "after_read", "after_cas", [loc[t] EXCEPT !.se_next = next[cur[t]]])

(* The condition of the loop reads se_next and assigns it without an       *)
(* order between the two.  When the assignment comes first, it compares    *)
(* the value with itself and the loop ends though the cas has failed.      *)
LinkAfterCas(t) ==
    /\ pc[t] = "after_cas"
    /\ IF next[cur[t]] = loc[t].se_next
       THEN /\ next' = [next EXCEPT ![loc[t].se] = loc[t].se_next, ![cur[t]] = loc[t].se]
            /\ Return(t)
       ELSE /\ next' = [next EXCEPT ![loc[t].se] = loc[t].se_next]
            /\ \/ /\ loc' = [loc EXCEPT ![t].se_next = next[cur[t]]]
                  /\ UNCHANGED pc
               \/ Return(t)
    /\ UNCHANGED <<head, data_flag, element_count, freed, disposed, deletes, cur, read, calls>>

-----------------------------------------------------------------------------
(* slist_logically_delete_element *)

LogicallyDelete(t) == CallOnElement(t, "delete", "del_data")

DelReadData(t) ==
    Local(t, "del_data", "del_flag", [loc[t] EXCEPT !.data_flag.data = data_flag[cur[t]].data])

(* The condition of the loop before the dcas: a deleted element ends the   *)
(* call.                                                                   *)
UnlessDeleted(t, words, to) ==
    IF words.deleted
    THEN Return(t)
    ELSE /\ pc' = [pc EXCEPT ![t] = to]
         /\ loc' = [loc EXCEPT ![t].data_flag = words]

DelReadFlag(t) ==
    /\ pc[t] = "del_flag"
    /\ UnlessDeleted(t, [loc[t].data_flag EXCEPT !.deleted = data_flag[cur[t]].deleted], "del_dcas")
    /\ UNCHANGED <<memory, cur, read, calls>>

(* Mutant: the flag is set whatever the data has become.                   *)
DelDcas_FlagOnly(t) ==
    /\ pc[t] = "del_dcas"
    /\ data_flag' = [data_flag EXCEPT ![cur[t]].deleted = TRUE]
    /\ deletes' = deletes + 1
    /\ pc' = [pc EXCEPT ![t] = "del_func"]
    /\ UNCHANGED <<head, next, element_count, freed, disposed, loc, cur, read, calls>>

DelDcas(t) ==
    LET dcas == abstraction_dcas(data_flag[cur[t]], [loc[t].data_flag EXCEPT !.deleted = TRUE],
                                 loc[t].data_flag)
    IN  /\ pc[t] = "del_dcas"
        /\ data_flag' = [data_flag EXCEPT ![cur[t]] = dcas.destination]
        /\ IF dcas.result = 1
           THEN /\ deletes' = deletes + 1
                /\ pc' = [pc EXCEPT ![t] = "del_func"]
                /\ UNCHANGED loc
           ELSE /\ UnlessDeleted(t, dcas.compare, "del_dcas")
                /\ UNCHANGED deletes
        /\ UNCHANGED <<head, next, element_count, freed, disposed, cur, read, calls>>

DelFunc(t) ==
    /\ pc[t] = "del_func"
    /\ disposed' = Append(disposed, <<cur[t], loc[t].data_flag.data>>)
    /\ Return(t)
    /\ UNCHANGED <<head, next, data_flag, element_count, freed, deletes, cur, read, calls>>

-----------------------------------------------------------------------------
(* slist_get_data and slist_set_data *)

GetReadWords(t, from, to, words) == Local(t, from, to, [loc[t] EXCEPT !.data_flag = words])

GetReturn(t, from, words) ==
    /\ pc[t] = from
    /\ read' = [read EXCEPT ![t] =
                   [result |-> IF words.deleted THEN 0 ELSE 1, data |-> words.data]]
    /\ Return(t)
    /\ UNCHANGED <<memory, cur, calls>>

(* Mutant: the flag is read before the data.                               *)
GetData_FlagFirst(t) ==
    \/ CallOnElement(t, "get_data", "get_data")
    \/ GetReadWords(t, "get_data", "get_flag",
                    [loc[t].data_flag EXCEPT !.deleted = data_flag[cur[t]].deleted])
    \/ cur[t] # NULL /\ GetReturn(t, "get_flag", [loc[t].data_flag EXCEPT !.data = data_flag[cur[t]].data])

GetData(t) ==
    \/ CallOnElement(t, "get_data", "get_data")
    \/ GetReadWords(t, "get_data", "get_flag",
                    [loc[t].data_flag EXCEPT !.data = data_flag[cur[t]].data])
    \/ GetReturn(t, "get_flag", [loc[t].data_flag EXCEPT !.deleted = data_flag[cur[t]].deleted])

SetData(t) == CallOnElement(t, "set_data", "set_data")

SetReadData(t) ==
    Local(t, "set_data", "set_flag", [loc[t] EXCEPT !.data_flag.data = data_flag[cur[t]].data])

SetReadFlag(t) ==
    /\ pc[t] = "set_flag"
    /\ UnlessDeleted(t, [loc[t].data_flag EXCEPT !.deleted = data_flag[cur[t]].deleted], "set_dcas")
    /\ UNCHANGED <<memory, cur, read, calls>>

SetDcas(t) ==
    LET dcas == abstraction_dcas(data_flag[cur[t]],
                                 [loc[t].data_flag EXCEPT !.data = <<t, calls[t]>>],
                                 loc[t].data_flag)
    IN  /\ pc[t] = "set_dcas"
        /\ data_flag' = [data_flag EXCEPT ![cur[t]] = dcas.destination]
        /\ IF dcas.result = 1 THEN Return(t) ELSE UnlessDeleted(t, dcas.compare, "set_dcas")
        /\ UNCHANGED <<head, next, element_count, freed, disposed, deletes, cur, read, calls>>

-----------------------------------------------------------------------------
(* slist_get_head, slist_get_next and slist_pick_head, which is one of     *)
(* them, through slist_internal_moveto_first                               *)

Found(t, e) ==
    /\ cur' = [cur EXCEPT ![t] = e]
    /\ Return(t)
    /\ UNCHANGED <<memory, read>>

(* The traversal is at e: NULL ends it. *)
MoveTo(t, e) ==
    IF e = NULL
    THEN Found(t, NULL)
    ELSE /\ pc' = [pc EXCEPT ![t] = "move_flag"]
         /\ loc' = [loc EXCEPT ![t].se = e]
         /\ UNCHANGED <<memory, cur, read>>

GetHead(t) == Call(t, "get_head") /\ MoveTo(t, head)

GetNext(t) == cur[t] # NULL /\ Call(t, "get_next") /\ MoveTo(t, next[cur[t]])

MoveReadFlag(t) ==
    /\ pc[t] = "move_flag"
    /\ IF data_flag[loc[t].se].deleted
       THEN /\ pc' = [pc EXCEPT ![t] = "move_next"]
            /\ UNCHANGED <<memory, cur, read, loc>>
       ELSE Found(t, loc[t].se)
    /\ UNCHANGED calls

MoveReadNext(t) ==
    /\ pc[t] = "move_next"
    /\ MoveTo(t, next[loc[t].se])
    /\ UNCHANGED calls

-----------------------------------------------------------------------------
(* slist_single_threaded_physically_delete_all_elements, alone or by       *)
(* slist_delete                                                            *)

(* se = ss->head.  No call is in progress, and none begins any more.       *)
PhysicallyDeleteAll(t) ==
    /\ \A u \in Threads : pc[u] = "idle"
    /\ pc' = [u \in Threads |-> IF u = t THEN "phys_loop" ELSE "gone"]
    /\ loc' = [loc EXCEPT ![t] = [NoLocals EXCEPT !.se = head]]
    /\ UNCHANGED <<memory, cur, read, calls>>

(* Mutant: the loop passes over the elements that are deleted already.     *)
PhysDeleteFunc_Live(t) ==
    /\ pc[t] = "phys_loop" /\ loc[t].se # NULL
    /\ IF data_flag[loc[t].se].deleted
       THEN /\ loc' = [loc EXCEPT ![t].se = next[loc[t].se]]
            /\ UNCHANGED <<disposed, pc>>
       ELSE /\ disposed' = Append(disposed, <<loc[t].se, data_flag[loc[t].se].data>>)
            /\ loc' = [loc EXCEPT ![t].se = next[loc[t].se], ![t].se_next = loc[t].se]
            /\ pc' = [pc EXCEPT ![t] = "phys_free"]
    /\ UNCHANGED <<head, next, data_flag, element_count, freed, deletes, cur, read, calls>>

(* delete_func gets the data of se, a second time if se is logically       *)
(* deleted; then se_temp = se, which se_next stands for, and               *)
(* se = se->next.                                                          *)
PhysDeleteFunc(t) ==
    /\ pc[t] = "phys_loop" /\ loc[t].se # NULL
    /\ disposed' = Append(disposed, <<loc[t].se, data_flag[loc[t].se].data>>)
    /\ loc' = [loc EXCEPT ![t].se = next[loc[t].se], ![t].se_next = loc[t].se]
    /\ pc' = [pc EXCEPT ![t] = "phys_free"]
    /\ UNCHANGED <<head, next, data_flag, element_count, freed, deletes, cur, read, calls>>

(* aligned_free(se_temp) *)
PhysFree(t) ==
    /\ pc[t] = "phys_free"
    /\ freed' = freed \cup {loc[t].se_next}
    /\ loc' = [loc EXCEPT ![t].se_next = NULL]
    /\ pc' = [pc EXCEPT ![t] = "phys_loop"]
    /\ UNCHANGED <<head, next, data_flag, element_count, disposed, deletes, cur, read, calls>>

(* The end of the loop, and slist_internal_init_slist. *)
PhysInit(t) ==
    /\ pc[t] = "phys_loop" /\ loc[t].se = NULL
    /\ head' = NULL
    /\ pc' = [pc EXCEPT ![t] = "gone"]
    /\ UNCHANGED <<next, data_flag, element_count, freed, disposed, deletes, cur, read, loc, calls>>

PhysicalDelete(t) == PhysicallyDeleteAll(t) \/ PhysDeleteFunc(t) \/ PhysFree(t) \/ PhysInit(t)

Begin(t) ==
    \/ NewHead(t) \/ NewNext(t) \/ LogicallyDelete(t) \/ SetData(t) \/ GetHead(t) \/ GetNext(t)

(* The steps of a call that has begun, and the start of slist_get_data. *)
Continue(t) ==
    \/ LinkHeadRead(t) \/ LinkHeadCas(t) \/ LinkAfterRead(t) \/ LinkAfterCas(t)
    \/ DelReadData(t) \/ DelReadFlag(t) \/ DelDcas(t) \/ DelFunc(t)
    \/ GetData(t) \/ SetReadData(t) \/ SetReadFlag(t) \/ SetDcas(t)
    \/ MoveReadFlag(t) \/ MoveReadNext(t)

Next == \E t \in Threads : Begin(t) \/ Continue(t) \/ PhysicalDelete(t)

Spec == Init /\ [][Next]_vars

(* The survivors keep being scheduled inside their calls. *)
FairSpec == Spec /\ \A t \in Survivors : WF_vars(pc[t] # "idle" /\ (Continue(t) \/ PhysicalDelete(t)))

-----------------------------------------------------------------------------
PhysLabels == {"phys_loop", "phys_free"}

(* The physical deletion has begun. *)
Gone == \E t \in Threads : pc[t] \in PhysLabels \cup {"gone"}

(* The elements of S cannot be left along the next pointers. *)
Closed(S) == \A x \in S : next[x] \in S \cup {NULL}

(* The elements that can be reached from e. *)
ElementsFrom(e) ==
    {x \in Elements : \A S \in SUBSET Elements : Closed(S) /\ e \in S \cup {NULL} => x \in S}

(* A traversal misses nothing: whatever other threads link meanwhile, all  *)
(* elements that were after a linked element, or in the list, stay there,  *)
(* so that slist_get_next from any element still comes to them.            *)
ReachNeverShrinks ==
    [][\/ Gone'
       \/ /\ ElementsFrom(head) \subseteq ElementsFrom(head)'
          /\ \A e \in ElementsFrom(head) : ElementsFrom(e) \subseteq ElementsFrom(e)']_vars

(* Of the threads that delete an element one gets 1, and delete_func then  *)
(* gets the data of the last slist_set_data that returned 1: never a value *)
(* read before that set, and never twice for one element.                  *)
DeleteGetsLastData ==
    ~Gone =>
        /\ \A i \in 1..Len(disposed) :
               data_flag[disposed[i][1]] = [data |-> disposed[i][2], deleted |-> TRUE]
        /\ \A i, j \in 1..Len(disposed) : disposed[i][1] = disposed[j][1] => i = j
        /\ deletes = Cardinality({e \in Elements : data_flag[e].deleted})

(* slist_get_data, which reads the two words separately, never returns 1   *)
(* with data that delete_func has already been given.                      *)
ReadNeverDisposed ==
    [][\A t \in Threads : read'[t] # read[t] /\ read'[t].result = 1 =>
          \A i \in 1..Len(disposed) : disposed[i][2] # read'[t].data]_vars

(* delete_func has got the data of e, and once only if e was not deleted   *)
(* logically.                                                              *)
GivenOnce(e) ==
    \E i \in 1..Len(disposed) :
        /\ disposed[i] = <<e, data_flag[e].data>>
        /\ data_flag[e].deleted \/ \A j \in 1..Len(disposed) : disposed[j][1] = e => j = i

(* The physical deletion never comes to an element it has freed, and when  *)
(* it is over it has freed all elements of the list, among them every one  *)
(* that a thread has created at the head or found, and given the data of   *)
(* each to delete_func: once, if the element was not logically deleted.    *)
PhysicalDeleteFreesEachOnce ==
    [][\A t \in Threads : pc[t] \in PhysLabels =>
          /\ loc[t].se \notin freed /\ loc[t].se_next \notin freed
          /\ pc'[t] = "gone" =>
                /\ freed = ElementsFrom(head)
                /\ \A u \in Threads : cur[u] # NULL => cur[u] \in freed
                /\ \A e \in freed : GivenOnce(e)]_vars

(* The elements created less the elements deleted are the elements found   *)
(* by slist_pick_head when the threads are done.                           *)
CreatedLessDeletedAreFound ==
    (\A t \in Threads : pc[t] = "idle") =>
        Cardinality({e \in ElementsFrom(head) : ~data_flag[e].deleted}) = element_count - deletes

(* The inductive invariant *)

LinkLabels == {"head_read", "head_cas", "after_read", "after_cas"}
SetLabels == {"set_data", "set_flag", "set_dcas"}
ElementLabels == SetLabels \cup {"after_read", "after_cas", "del_data", "del_flag", "del_dcas",
                                 "del_func", "get_data", "get_flag"}
MoveLabels == {"move_flag", "move_next"}
Labels == LinkLabels \cup ElementLabels \cup MoveLabels \cup {"idle", "gone"}

Words == [data : Data \cup {NoData}, deleted : BOOLEAN]

TypeOK ==
    /\ head \in Pointers /\ next \in [Elements -> Pointers]
    /\ data_flag \in [Elements -> Words]
    /\ element_count \in Pointers
    /\ disposed \in Seq(Elements \X (Data \cup {NoData})) /\ deletes \in Nat
    /\ cur \in [Threads -> Pointers]
    /\ read \in [Threads -> [result : {0, 1}, data : Data \cup {NoData}]]
    /\ pc \in [Threads -> Labels \ {"gone"}]
    /\ loc \in [Threads -> [se : Pointers, se_next : Pointers, data_flag : Words]]
    /\ calls \in [Threads -> Nat]
    /\ \A t \in Threads : calls[t] <= Len(Script[t]) /\ (pc[t] # "idle" => calls[t] # 0)

(* Every pointer is to an element that has been allocated, and the one     *)
(* that a call works on is not NULL.                                       *)
PointersOK ==
    /\ head <= element_count
    /\ \A e \in Elements : next[e] <= element_count
    /\ \A t \in Threads :
          /\ cur[t] <= element_count /\ loc[t].se <= element_count /\ loc[t].se_next <= element_count
          /\ pc[t] \in ElementLabels => cur[t] # NULL
          /\ pc[t] \in LinkLabels \cup MoveLabels => loc[t].se # NULL

(* Until it is linked, no pointer to a new element is known outside the    *)
(* call that creates it.                                                   *)
NewIsHidden ==
    \A t \in Threads : pc[t] \in LinkLabels =>
        /\ head # loc[t].se /\ \A e \in Elements : next[e] # loc[t].se
        /\ \A u \in Threads :
              /\ cur[u] # loc[t].se /\ loc[u].se_next # loc[t].se
              /\ u # t => loc[u].se # loc[t].se

(* The words of an element do not change after its deletion, which one     *)
(* call has made; that call has given its data to delete_func or will.     *)
DeletedOnce ==
    /\ \A i \in 1..Len(disposed) :
           /\ disposed[i][1] <= element_count
           /\ data_flag[disposed[i][1]] = [data |-> disposed[i][2], deleted |-> TRUE]
    /\ \A i, j \in 1..Len(disposed) : disposed[i][1] = disposed[j][1] => i = j
    /\ \A t \in Threads : pc[t] = "del_func" =>
           /\ data_flag[cur[t]] = [data |-> loc[t].data_flag.data, deleted |-> TRUE]
           /\ \A i \in 1..Len(disposed) : disposed[i][1] # cur[t]
           /\ \A u \in Threads : u # t /\ pc[u] = "del_func" => cur[u] # cur[t]
    /\ \A t \in Threads : pc[t] \in {"del_dcas", "set_dcas"} => ~loc[t].data_flag.deleted

DeletesCounted ==
    /\ deletes = Cardinality({e \in Elements : data_flag[e].deleted})
    /\ \A e \in Elements : e > element_count => ~data_flag[e].deleted

(* The data of a call that has begun and, if it is a slist_set_data, has   *)
(* stored it. *)
Stored(d) ==
    /\ d \in Data
    /\ d[2] <= calls[d[1]]
    /\ pc[d[1]] \in SetLabels => d[2] < calls[d[1]]

(* No two elements ever have the same data, so that what slist_get_data    *)
(* has read tells which element it is of.                                  *)
DataDistinct ==
    /\ \A e \in 1..element_count : Stored(data_flag[e].data)
    /\ \A e, f \in 1..element_count : data_flag[e].data = data_flag[f].data => e = f
    /\ \A t \in Threads : pc[t] = "get_flag" =>
           /\ Stored(loc[t].data_flag.data)
           /\ \A e \in 1..element_count : data_flag[e].data = loc[t].data_flag.data => e = cur[t]

Invariant == TypeOK /\ PointersOK /\ NewIsHidden /\ DeletedOnce /\ DeletesCounted /\ DataDistinct

(* From the physical deletion on there are no calls. *)
IInv == IF Gone THEN pc \in [Threads -> PhysLabels \cup {"gone"}] ELSE Invariant

Acyclic == \A e \in Elements : e \notin ElementsFrom(next[e])

(* What the threads hold is in the list. *)
HeldAreListed ==
    /\ \A t \in Threads : cur[t] \in ElementsFrom(head) \cup {NULL}
    /\ \A t \in Threads : pc[t] \in MoveLabels => loc[t].se \in ElementsFrom(head)

NotGiven(e) == data_flag[e].deleted \/ \A j \in 1..Len(disposed) : disposed[j][1] # e

(* The elements the loop has come to: the freed ones and se_temp. *)
Passed(t) == freed \cup ({loc[t].se_next} \ {NULL})

(* The loop has come to a part of the list and has the rest before it. *)
InLoop(t) ==
    /\ loc[t].se_next = NULL <=> pc[t] = "phys_loop"
    /\ loc[t].se_next \notin freed
    /\ Passed(t) \cup ElementsFrom(loc[t].se) = ElementsFrom(head)
    /\ Passed(t) \cap ElementsFrom(loc[t].se) = {}
    /\ \A e \in Passed(t) : GivenOnce(e)
    /\ \A e \in ElementsFrom(loc[t].se) : NotGiven(e)

(* One thread makes the physical deletion, in a list nobody changes. *)
DeletionOK ==
    /\ head \in Pointers /\ next \in [Elements -> Pointers] /\ data_flag \in [Elements -> Words]
    /\ disposed \in Seq(Elements \X (Data \cup {NoData}))
    /\ loc \in [Threads -> [se : Pointers, se_next : Pointers, data_flag : Words]]
    /\ \A t, u \in Threads : pc[t] \in PhysLabels /\ pc[u] \in PhysLabels => t = u
    /\ \A t \in Threads : pc[t] \in PhysLabels =>
          InLoop(t) /\ \A u \in Threads : cur[u] \in ElementsFrom(head) \cup {NULL}

(* The shape of the list, as it grows and as it is freed. *)
ListInv == Acyclic /\ IF Gone THEN DeletionOK ELSE freed = {} /\ HeldAreListed

(* Every call of a survivor returns, wherever the others have stopped.     *)
EveryCallReturns == \A t \in Survivors : []<>(pc[t] \in {"idle", "gone"})
=============================================================================
