----------------------------- MODULE RingBuffer -----------------------------
(***************************************************************************)
(* basic/lf_ringbuffer.c: a fixed number of elements that writers take     *)
(* from a free list, or from the readers' end of a queue when none is      *)
(* free, and pass to readers through the queue.  Calls of the free list    *)
(* are single steps (see Freelist).  Calls of the queue are split where    *)
(* its nodes, which come from a second free list, change hands; nothing is *)
(* assumed of its order, and it may report empty while another thread is   *)
(* inside an enqueue, which is what Queue shows of it.                     *)
(***************************************************************************)
EXTENDS Integers, Sequences, FiniteSets

CONSTANTS
    Threads,
    number_elements, \* as given to ringbuffer_new
    MaxCalls         \* bound on the elements each thread asks for

ASSUME RingBufferAssumption ==
    /\ IsFiniteSet(Threads)
    /\ number_elements \in Nat \ {0}
    /\ MaxCalls \in Nat

Elements == 1..number_elements

NULL == 0
NoItem == <<>>

(* An item is the thread that wrote it and the number of its call. *)
Items == Threads \X (1..MaxCalls)

VARIABLES
    fs,          \* rs->fs: the free elements, the last one on top
    linked,      \* the elements in rs->qs
    nodes,       \* the nodes on the free list of rs->qs
    data,        \* the user data of every element
    freed,       \* the elements given back to the allocator
    pc,          \* where each thread is
    fe,          \* the element each thread's call is about, or its caller holds
    overwrite_flag,
    calls,       \* the calls of ringbuffer_get_read and _get_write of each thread
    written,     \* history: the items passed to ringbuffer_put_write,
    read,        \* those ringbuffer_get_read has returned, in order,
    overwritten  \* and those ringbuffer_get_write has taken with the flag set

vars == <<fs, linked, nodes, data, freed, pc, fe, overwrite_flag, calls, written, read, overwritten>>
history == <<written, read, overwritten>>

New(free_nodes) ==
    /\ fs = [i \in 1..number_elements |-> i]
    /\ linked = {}
    /\ nodes = free_nodes
    /\ data = [e \in Elements |-> NoItem]
    /\ freed = {}
    /\ pc = [t \in Threads |-> "idle"]
    /\ fe = [t \in Threads |-> NULL]
    /\ overwrite_flag = [t \in Threads |-> 0]
    /\ calls = [t \in Threads |-> 0]
    /\ written = {}
    /\ read = <<>>
    /\ overwritten = <<>>

(* Mutant: queue_new allocates as many nodes as there are elements, and    *)
(* one of them is the dummy.                                               *)
Init_NoExtraNode == New(number_elements - 1)

(* ringbuffer_new: queue_new allocates one node more than there are        *)
(* elements and makes it the dummy of the queue.                           *)
Init == New(number_elements)

Goto(t, from, to) ==
    /\ pc[t] = from
    /\ pc' = [pc EXCEPT ![t] = to]

Call(t, to) ==
    /\ calls[t] < MaxCalls
    /\ calls' = [calls EXCEPT ![t] = @ + 1]
    /\ Goto(t, "idle", to)
    /\ UNCHANGED <<fs, linked, nodes, data, freed, fe, overwrite_flag, history>>

-----------------------------------------------------------------------------
(* ringbuffer_get_write *)

GetWrite(t) == Call(t, "write_pop")

GetWritePop(t) ==
    /\ overwrite_flag' = [overwrite_flag EXCEPT ![t] = 0]
    /\ IF fs = <<>>
       THEN /\ Goto(t, "write_pop", "write_dequeue")
            /\ UNCHANGED <<fs, fe>>
       ELSE /\ Goto(t, "write_pop", "writing")
            /\ fe' = [fe EXCEPT ![t] = fs[Len(fs)]]
            /\ fs' = SubSeq(fs, 1, Len(fs) - 1)
    /\ UNCHANGED <<linked, nodes, data, freed, calls, history>>

(* ringbuffer_get_read, by a reader or by ringbuffer_get_write *)

GetRead(t) == Call(t, "read_dequeue")

(* queue_dequeue unlinks an element of the queue: it may be any.           *)
Dequeue(t, from, to) ==
    /\ Goto(t, from, to)
    /\ \E e \in linked :
           /\ linked' = linked \ {e}
           /\ fe' = [fe EXCEPT ![t] = e]
    /\ UNCHANGED <<fs, nodes, data, freed, overwrite_flag, calls, history>>

(* queue_dequeue finds the queue empty.                                    *)
DequeueEmpty(t, from, to) ==
    /\ linked = {} \/ \E u \in Threads : pc[u] = "put_link"
    /\ Goto(t, from, to)
    /\ UNCHANGED <<fs, linked, nodes, data, freed, fe, overwrite_flag, calls, history>>

(* queue_dequeue gives its node back and returns.                          *)
ReadFree(t) ==
    /\ Goto(t, "read_free", "reading")
    /\ nodes' = nodes + 1
    /\ read' = Append(read, data[fe[t]])
    /\ UNCHANGED <<fs, linked, data, freed, fe, overwrite_flag, calls, written, overwritten>>

(* ringbuffer_get_write returns an element of the queue.                   *)
Overwrite(t, flag) ==
    /\ Goto(t, "write_free", "writing")
    /\ nodes' = nodes + 1
    /\ overwrite_flag' = [overwrite_flag EXCEPT ![t] = flag]
    /\ overwritten' = IF flag = 1 THEN Append(overwritten, data[fe[t]]) ELSE overwritten
    /\ UNCHANGED <<fs, linked, data, freed, fe, calls, written, read>>

(* Mutant: the caller is not told that it overwrites.                      *)
WriteFree_NoFlag(t) == Overwrite(t, 0)

WriteFree(t) == Overwrite(t, 1)

GetReadSteps(t) ==
    \/ Dequeue(t, "read_dequeue", "read_free")
    \/ DequeueEmpty(t, "read_dequeue", "idle")
    \/ ReadFree(t)

(* The loop: a writer that finds neither a free nor a queued element tries *)
(* the free list again.                                                    *)
GetWriteSteps(t) ==
    \/ GetWritePop(t)
    \/ Dequeue(t, "write_dequeue", "write_free")
    \/ DequeueEmpty(t, "write_dequeue", "write_pop")
    \/ WriteFree(t)

-----------------------------------------------------------------------------
(* Mutant: the element is not pushed back.                                 *)
PutRead_Forget(t) ==
    /\ Goto(t, "reading", "idle")
    /\ fe' = [fe EXCEPT ![t] = NULL]
    /\ UNCHANGED <<fs, linked, nodes, data, freed, overwrite_flag, calls, history>>

(* ringbuffer_put_read *)
PutRead(t) ==
    /\ Goto(t, "reading", "idle")
    /\ fs' = Append(fs, fe[t])
    /\ fe' = [fe EXCEPT ![t] = NULL]
    /\ UNCHANGED <<linked, nodes, data, freed, overwrite_flag, calls, history>>

(* The writer sets the data of its element and calls ringbuffer_put_write, *)
(* which ignores that queue_enqueue returns 0 when it has no node.         *)
PutWrite(t) ==
    /\ data' = [data EXCEPT ![fe[t]] = <<t, calls[t]>>]
    /\ written' = written \cup {<<t, calls[t]>>}
    /\ IF nodes = 0
       THEN /\ Goto(t, "writing", "idle")
            /\ fe' = [fe EXCEPT ![t] = NULL]
            /\ UNCHANGED nodes
       ELSE /\ Goto(t, "writing", "put_link")
            /\ nodes' = nodes - 1
            /\ UNCHANGED fe
    /\ UNCHANGED <<fs, linked, freed, overwrite_flag, calls, read, overwritten>>

PutLink(t) ==
    /\ Goto(t, "put_link", "idle")
    /\ linked' = linked \cup {fe[t]}
    /\ fe' = [fe EXCEPT ![t] = NULL]
    /\ UNCHANGED <<fs, nodes, data, freed, overwrite_flag, calls, history>>

ElementsFree == {fs[i] : i \in 1..Len(fs)}

(* ringbuffer_delete, when no call is in progress and no element is held:  *)
(* queue_delete dequeues what is left without a delete_func, and only the  *)
(* elements on the free list are freed.                                    *)
Delete(t) ==
    /\ \A u \in Threads : pc[u] = "idle"
    /\ pc' = [u \in Threads |-> "gone"]
    /\ freed' = ElementsFree
    /\ UNCHANGED <<fs, linked, nodes, data, fe, overwrite_flag, calls, history>>

(* The steps of a call that has begun, and the put that ends the use of an *)
(* element.                                                                *)
Continue(t) == GetWriteSteps(t) \/ GetReadSteps(t) \/ PutRead(t) \/ PutWrite(t) \/ PutLink(t)

Next == \E t \in Threads : GetWrite(t) \/ GetRead(t) \/ Continue(t) \/ Delete(t)

Spec == Init /\ [][Next]_vars

(* Every thread keeps being scheduled and puts back what it has got.       *)
FairSpec == Spec /\ \A t \in Threads : WF_vars(Continue(t))

-----------------------------------------------------------------------------
Held == {t \in Threads : fe[t] # NULL}

(* Every element is in one place: on the free list once, in the queue, or  *)
(* in the hands of one thread.                                             *)
ElementsConserved ==
    /\ Cardinality(ElementsFree) = Len(fs)
    /\ ElementsFree \cap linked = {}
    /\ \A t \in Held : fe[t] \notin ElementsFree \cup linked
    /\ \A t, u \in Held : fe[t] = fe[u] => t = u
    /\ ElementsFree \cup linked \cup {fe[t] : t \in Held} = Elements

(* The enqueue in ringbuffer_put_write (line 67) always finds a node,      *)
(* which is why its result may be ignored: a dequeue that still holds its  *)
(* node also holds an element back.                                        *)
PutWriteNeverFails == \A t \in Threads : pc[t] = "writing" => nodes > 0

InTransit == {t \in Threads : pc[t] \in {"put_link", "read_free", "write_free"}}

ItemsIn(seq) == {seq[i] : i \in 1..Len(seq)}

(* Every item written is on its way, in the queue, was returned to one     *)
(* reader once, or was overwritten by a writer that was told so, and no    *)
(* two of these.                                                           *)
EveryWriteAccounted ==
    LET inside == {data[e] : e \in linked \cup {fe[t] : t \in InTransit}}
    IN  /\ written = inside \cup ItemsIn(read) \cup ItemsIn(overwritten)
        /\ Cardinality(written) =
               Cardinality(linked) + Cardinality(InTransit) + Len(read) + Len(overwritten)

(* What ringbuffer_delete does not free are elements written and never     *)
(* read: no free or read element leaks.                                    *)
DeleteLeavesOnlyUnread ==
    (\E t \in Threads : pc[t] = "gone") =>
        \A e \in Elements \ freed : data[e] \in written \ (ItemsIn(read) \cup ItemsIn(overwritten))

(* The inductive invariant *)

WriteLabels == {"write_pop", "write_dequeue", "write_free", "writing"}
HoldLabels == {"write_free", "writing", "put_link", "read_free", "reading"}
Labels == WriteLabels \cup HoldLabels \cup {"idle", "read_dequeue", "gone"}

Values == (Threads \X Nat) \cup {NoItem}

TypeOK ==
    /\ fs \in Seq(Elements)
    /\ linked \in SUBSET Elements
    /\ nodes \in Nat
    /\ data \in [Elements -> Values]
    /\ freed \in SUBSET Elements
    /\ pc \in [Threads -> Labels]
    /\ fe \in [Threads -> Elements \cup {NULL}]
    /\ overwrite_flag \in [Threads -> {0, 1}]
    /\ calls \in [Threads -> Nat]
    /\ written \in SUBSET (Threads \X Nat)
    /\ read \in Seq(Values)
    /\ overwritten \in Seq(Values)

(* Where every element is, with the free list as a sequence.               *)
OnePlace ==
    /\ \A i, j \in 1..Len(fs) : fs[i] = fs[j] => i = j
    /\ ElementsFree \cap linked = {}
    /\ \A t \in Threads : fe[t] # NULL <=> pc[t] \in HoldLabels
    /\ \A t \in Held : fe[t] \notin ElementsFree \cup linked
    /\ \A t, u \in Held : fe[t] = fe[u] => t = u
    /\ ElementsFree \cup linked \cup {fe[t] : t \in Held} = Elements

(* The elements that a node of the queue stands for: those linked, and     *)
(* those whose node is taken and not yet linked or unlinked and not yet    *)
(* given back.                                                             *)
Queued == linked \cup {fe[t] : t \in InTransit}

NodesCounted == nodes + Cardinality(Queued) = number_elements

(* The item a writer is about to put is new.                               *)
ItemsFresh ==
    \A item \in written :
        /\ item[2] <= calls[item[1]]
        /\ item[2] = calls[item[1]] => pc[item[1]] \notin WriteLabels

(* No two elements of the queue have the same item, and none has an item   *)
(* that was read or overwritten.                                           *)
ItemsApart ==
    /\ \A d, e \in Queued : data[d] = data[e] => d = e
    /\ \A e \in Queued : data[e] \notin ItemsIn(read) \cup ItemsIn(overwritten)

GoneIsFinal ==
    (\E t \in Threads : pc[t] = "gone") =>
        /\ \A t \in Threads : pc[t] = "gone"
        /\ freed = ElementsFree

IInv ==
    /\ TypeOK
    /\ OnePlace
    /\ NodesCounted
    /\ ItemsFresh
    /\ ItemsApart
    /\ IsFiniteSet(written) /\ EveryWriteAccounted
    /\ GoneIsFinal

(* A ringbuffer_get_write that loops because every element is in other     *)
(* hands gets one when they are put back, and so every call returns: with  *)
(* finitely many calls to make all threads are outside one in the end.     *)
EveryCallReturns == []<>(\A t \in Threads : pc[t] \in {"idle", "gone"})
=============================================================================
