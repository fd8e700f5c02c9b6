----------------------------- MODULE QueueSteps -----------------------------
(***************************************************************************)
(* What the steps of Queue do, as a few kinds of steps (take an element,   *)
(* free one, clear one, link one, unlink one, or none of these), and how   *)
(* each kind changes the lists in memory: it keeps the shape of the lists. *)
(***************************************************************************)
EXTENDS Queue, TLAPS

(* A step is proved by Zenon; a step with arithmetic, sequences or records *)
(* cites SMT.                                                              *)
USE Zenon

-----------------------------------------------------------------------------
(* The steps *)

Pointers == 0..MaxElements

Locals == [qe : Pacs, enqueue : Pacs, dequeue : Pacs, next : Pacs, data : Items \cup {NoItem}]

(* A step of t to label l and locals r. *)
Moves(t, l, r) ==
    /\ l \in Labels \ {"gone"} /\ r \in Locals
    /\ pc' = [pc EXCEPT ![t] = l] /\ loc' = [loc EXCEPT ![t] = r]
    /\ freed' = freed /\ script' = script
    /\ enqueue' \in Pacs /\ dequeue' \in Pacs
    /\ next' \in [Elements -> Pacs] /\ data' \in [Elements -> Items \cup {NoItem}]
    /\ aba_count' \in Nat /\ fs' \in Seq(Elements) /\ element_count' \in 0..MaxElements
    /\ calls' \in [Threads -> Nat] /\ got' \in [Threads -> Seq(Items \cup {NoItem})]
    /\ linked' \in Seq(Items) /\ taken' \in Nat /\ seen_empty' \subseteq Threads
    /\ EnqueueAgrees(l, r, enqueue', next') /\ DequeueAgrees(l, r, enqueue', dequeue', next', data')

(* A thread at label k with locals q and then at label l with locals r has *)
(* the same in its hands.                                                  *)
SameHands(k, q, l, r) ==
    /\ k # "deq_free" /\ l # "deq_free"
    /\ (l \in TakenLabels <=> k \in TakenLabels) /\ (l \in ReadyLabels <=> k \in ReadyLabels)
    /\ l \in HandLabels => r.qe.ptr = q.qe.ptr /\ r.data = q.data
    /\ l \in LinkLabels => \/ k \in LinkLabels /\ r.enqueue.ptr = q.enqueue.ptr
                           \/ r.enqueue.ptr = enqueue.ptr
    /\ l \in LinkLabels \cup {"enq_ptr"} => k \in LinkLabels \cup {"enq_ptr", "init_data"}

(* A step that moves no element: qs->enqueue may swing to the next one,    *)
(* and data may be stored in an element not linked yet.                    *)
Still(t, l, r) ==
    /\ Moves(t, l, r) /\ SameHands(pc[t], loc[t], l, r)
    /\ dequeue' = dequeue /\ fs' = fs /\ element_count' = element_count
    /\ \A e \in Elements : next'[e].ptr = next[e].ptr
    /\ \/ enqueue' = enqueue
       \/ /\ next[enqueue.ptr].ptr # NULL
          /\ enqueue'.ptr = next[enqueue.ptr].ptr /\ enqueue'.cnt = CounterPlusOne(enqueue.cnt)
    /\ \/ data' = data /\ pc[t] # "init_data"
       \/ pc[t] = "init_data" /\ data' = [data EXCEPT ![loc[t].qe.ptr] = loc[t].data]
    /\ linked' = linked
    /\ got' = got \/ got' = [got EXCEPT ![t] = Append(got[t], NoItem)]
    /\ \/ calls' = calls
       \/ calls' = [calls EXCEPT ![t] = calls[t] + 1] /\ l \notin HandLabels

(* An enqueue takes an element from the free list or from the allocator. *)
Takes(t, r) ==
    /\ Moves(t, "init_count", r)
    /\ pc[t] = "idle" /\ r.data = <<t, calls[t] + 1>>
    /\ calls' = [calls EXCEPT ![t] = calls[t] + 1]
    /\ UNCHANGED <<enqueue, dequeue, next, data, got, linked>>
    /\ \/ /\ fs # <<>> /\ r.qe.ptr = fs[Len(fs)]
          /\ fs' = SubSeq(fs, 1, Len(fs) - 1) /\ element_count' = element_count
       \/ /\ r.qe.ptr = element_count + 1 /\ fs' = fs /\ element_count' = element_count + 1

(* It clears the next pointer of its element. *)
Clears(t) ==
    /\ Moves(t, "init_next_count", loc[t])
    /\ pc[t] = "init_next_ptr"
    /\ next'[loc[t].qe.ptr].ptr = NULL
    /\ \A e \in Elements : e # loc[t].qe.ptr => next'[e].ptr = next[e].ptr
    /\ UNCHANGED <<enqueue, dequeue, data, fs, element_count, calls, got, linked>>

(* The step from nx to ny links element e, the last of its list, to h. *)
LinksTo(nx, ny, e, h) ==
    nx[e].ptr = NULL /\ ny[e].ptr = h /\ \A f \in Elements : f # e => ny[f].ptr = nx[f].ptr

(* It links its element. *)
Links(t, r) ==
    /\ Moves(t, "enq_swing", r)
    /\ pc[t] = "enq_link" /\ LinksTo(next, next', loc[t].enqueue.ptr, loc[t].qe.ptr)
    /\ linked' = Append(linked, loc[t].data)
    /\ UNCHANGED <<enqueue, dequeue, data, fs, element_count, calls, got>>

(* A dequeue moves qs->dequeue to the next element. *)
Unlinks(t) ==
    /\ Moves(t, "deq_free", loc[t])
    /\ pc[t] = "deq_dcas" /\ loc[t].dequeue = dequeue
    /\ enqueue.ptr # dequeue.ptr /\ next[dequeue.ptr].ptr # NULL
    /\ dequeue'.ptr = next[dequeue.ptr].ptr /\ dequeue'.cnt = CounterPlusOne(dequeue.cnt)
    /\ got' = [got EXCEPT ![t] = Append(got[t], data[next[dequeue.ptr].ptr])]
    /\ UNCHANGED <<enqueue, next, data, fs, element_count, calls, linked>>

(* It pushes the old one onto the free list. *)
Frees(t, r) ==
    /\ Moves(t, "idle", r)
    /\ pc[t] = "deq_free"
    /\ fs' = Append(fs, loc[t].dequeue.ptr)
    /\ UNCHANGED <<enqueue, dequeue, next, data, element_count, calls, got, linked>>

Effect(t) ==
    \/ \E l \in Labels, r \in Locals : Still(t, l, r)
    \/ \E r \in Locals : Takes(t, r) \/ Links(t, r) \/ Frees(t, r)
    \/ Clears(t) \/ Unlinks(t)

(* The pointers that the steps follow are not NULL, and an enqueue that has *)
(* an element has an item for it.                                          *)
Grounded ==
    /\ enqueue.ptr \in Elements /\ dequeue.ptr \in Elements
    /\ enqueue.ptr # dequeue.ptr => next[dequeue.ptr].ptr # NULL
    /\ \A t \in Threads : /\ pc[t] \in HandLabels => loc[t].qe.ptr \in Elements /\ loc[t].data # NoItem
                          /\ pc[t] \in LinkLabels => loc[t].enqueue.ptr \in Elements
                          /\ pc[t] = "deq_free" => loc[t].dequeue.ptr \in Elements

(* The types that a proof needs most. *)
LEMMA TypeFacts ==
  ASSUME TypeOK
  PROVE  /\ enqueue \in Pacs /\ dequeue \in Pacs /\ next \in [Elements -> Pacs]
         /\ enqueue.cnt \in Nat /\ dequeue.cnt \in Nat /\ enqueue.ptr \in Pointers /\ dequeue.ptr \in Pointers
         /\ \A e \in Elements : next[e] \in Pacs /\ next[e].ptr \in Pointers /\ next[e].cnt \in Nat
         /\ \A t \in Threads : loc[t] \in Locals /\ pc[t] \in Labels
         /\ fs \in Seq(Elements) /\ element_count \in Nat /\ element_count <= MaxElements
         /\ 1..element_count \subseteq Elements
BY QueueAssumption, SMT DEF TypeOK, Pacs, Pac, Locals, Pointers, Elements

(* The fields of the locals. *)
LEMMA LocalsFields ==
  ASSUME NEW r \in Locals
  PROVE  /\ r.qe \in Pacs /\ r.enqueue \in Pacs /\ r.dequeue \in Pacs /\ r.next \in Pacs
         /\ r.data \in Items \cup {NoItem}
         /\ r.qe.cnt \in Nat /\ r.enqueue.cnt \in Nat /\ r.dequeue.cnt \in Nat /\ r.next.cnt \in Nat
         /\ r.qe.ptr \in Pointers /\ r.enqueue.ptr \in Pointers /\ r.dequeue.ptr \in Pointers
         /\ r.next.ptr \in Pointers
BY DEF Locals, Pacs, Pac, Pointers

(* Where nothing is claimed. *)
LEMMA NothingToAgree ==
  ASSUME NEW l, NEW r, NEW enq, NEW deq, NEW nx, NEW dt
  PROVE  /\ l \notin LinkLabels \cup {"enq_swing"} => EnqueueAgrees(l, r, enq, nx)
         /\ l \notin DequeueLabels => DequeueAgrees(l, r, enq, deq, nx, dt)
BY DEF EnqueueAgrees, DequeueAgrees, LinkLabels, DequeueLabels

(* A step that only changes its thread's locals. *)
LEMMA LocalIsStill ==
  ASSUME TypeOK, NEW t \in Threads, NEW k, NEW l \in Labels, NEW r \in Locals, Local(t, k, l, r), l # "gone", k # "init_data",
         SameHands(k, loc[t], l, r),
         EnqueueAgrees(l, r, enqueue, next), DequeueAgrees(l, r, enqueue, dequeue, next, data)
  PROVE  Effect(t)
<1>1. /\ pc[t] = k /\ pc' = [pc EXCEPT ![t] = l] /\ loc' = [loc EXCEPT ![t] = r]
      /\ UNCHANGED <<enqueue, dequeue, next, data, aba_count, fs, element_count, freed, script, calls, got>>
      /\ UNCHANGED <<linked, taken, seen_empty>>
  BY DEF Local, Goto, memory, callers, history
<1>2. Moves(t, l, r)
  BY <1>1 DEF Moves, TypeOK
<1>3. Still(t, l, r)
  BY <1>1, <1>2 DEF Still
<1>4. QED
  BY <1>3 DEF Effect

(* The steps of queue_internal_init_element. *)
LEMMA InitEffects ==
  ASSUME TypeOK, Grounded, NEW t \in Threads,
         InitCount(t) \/ InitNextPointer(t) \/ InitNextCount(t) \/ InitNextCounter(t) \/ InitData(t)
  PROVE  Effect(t)
<1>1. /\ loc[t] \in Locals /\ next \in [Elements -> Pacs] /\ aba_count \in Nat
      /\ data \in [Elements -> Items \cup {NoItem}] /\ loc[t].data \in Items \cup {NoItem}
  BY TypeFacts, LocalsFields DEF TypeOK
<1>2. \A l \in {"init_next_ptr", "init_next_count", "init_next_cnt", "init_data", "enq_ptr"} :
         /\ l \in Labels \ {"gone"} /\ l \in HandLabels
         /\ \A r : /\ EnqueueAgrees(l, r, enqueue', next')
                   /\ DequeueAgrees(l, r, enqueue', dequeue', next', data')
  <2>1. \A l \in {"init_next_ptr", "init_next_count", "init_next_cnt", "init_data", "enq_ptr"} :
            /\ l \in Labels \ {"gone"} /\ l \in HandLabels
            /\ l \notin LinkLabels \cup {"enq_swing"} /\ l \notin DequeueLabels
    BY DEF Labels, HandLabels, TakenLabels, ReadyLabels, LinkLabels, DequeueLabels
  <2>2. QED
    BY <2>1, NothingToAgree
<1>3. pc[t] \in HandLabels => loc[t].qe.ptr \in Elements
  BY DEF Grounded
<1>4. CASE InitCount(t)
  <2> DEFINE r == [loc[t] EXCEPT !.qe.cnt = aba_count']
  <2>1. r \in Locals /\ r.qe.ptr = loc[t].qe.ptr /\ r.data = loc[t].data /\ aba_count' \in Nat
    BY <1>1, <1>4, SMT DEF InitCount, abstraction_increment, Locals, Pacs, Pac
  <2>2. pc[t] = "init_count" /\ SameHands("init_count", loc[t], "init_next_ptr", r)
    BY <1>4, <2>1 DEF InitCount, Goto, SameHands, HandLabels, TakenLabels, ReadyLabels, LinkLabels
  <2>3. loc' = [loc EXCEPT ![t] = r]
    BY <1>4 DEF InitCount, TypeOK
  <2> HIDE DEF r
  <2>4. Moves(t, "init_next_ptr", r)
    BY <1>2, <1>4, <2>1, <2>3 DEF InitCount, Goto, Moves, TypeOK, callers, history
  <2>5. Still(t, "init_next_ptr", r)
    BY <1>4, <2>2, <2>4 DEF InitCount, Still, callers, history
  <2>6. QED
    BY <1>2, <2>1, <2>5 DEF Effect
<1>5. CASE InitNextPointer(t)
  <2>1. pc[t] = "init_next_ptr" /\ loc[t].qe.ptr \in Elements
    BY <1>3, <1>5 DEF InitNextPointer, Goto, HandLabels, TakenLabels
  <2>2. /\ next' \in [Elements -> Pacs] /\ next'[loc[t].qe.ptr].ptr = NULL
        /\ \A e \in Elements : e # loc[t].qe.ptr => next'[e].ptr = next[e].ptr
    <3>1. NULL \in 0..MaxElements
      BY QueueAssumption, SMT DEF NULL
    <3>2. next' = [next EXCEPT ![loc[t].qe.ptr].ptr = NULL]
      BY <1>5 DEF InitNextPointer
    <3>3. QED
      BY <1>1, <2>1, <3>1, <3>2 DEF Pacs, Pac
  <2>3. loc' = [loc EXCEPT ![t] = loc[t]]
    BY <1>5 DEF InitNextPointer, TypeOK
  <2>4. Moves(t, "init_next_count", loc[t])
    BY <1>1, <1>2, <1>5, <2>2, <2>3 DEF InitNextPointer, Goto, Moves, TypeOK, callers, history
  <2>5. Clears(t)
    BY <1>5, <2>1, <2>2, <2>4 DEF InitNextPointer, Clears, callers, history
  <2>6. QED
    BY <2>5 DEF Effect
<1>6. CASE InitNextCount(t)
  <2> DEFINE r == [loc[t] EXCEPT !.next.cnt = aba_count']
  <2>1. r \in Locals /\ r.qe.ptr = loc[t].qe.ptr /\ r.data = loc[t].data /\ aba_count' \in Nat
    BY <1>1, <1>6, SMT DEF InitNextCount, abstraction_increment, Locals, Pacs, Pac
  <2>2. pc[t] = "init_next_count" /\ SameHands("init_next_count", loc[t], "init_next_cnt", r)
    BY <1>6, <2>1 DEF InitNextCount, Goto, SameHands, HandLabels, TakenLabels, ReadyLabels, LinkLabels
  <2>3. loc' = [loc EXCEPT ![t] = r]
    BY <1>6 DEF InitNextCount, TypeOK
  <2> HIDE DEF r
  <2>4. Moves(t, "init_next_cnt", r)
    BY <1>2, <1>6, <2>1, <2>3 DEF InitNextCount, Goto, Moves, TypeOK, callers, history
  <2>5. Still(t, "init_next_cnt", r)
    BY <1>6, <2>2, <2>4 DEF InitNextCount, Still, callers, history
  <2>6. QED
    BY <1>2, <2>1, <2>5 DEF Effect
<1>7. CASE InitNextCounter(t)
  <2>1. pc[t] = "init_next_cnt" /\ loc[t].qe.ptr \in Elements /\ loc[t].next.cnt \in Nat
    BY <1>1, <1>3, <1>7, LocalsFields DEF InitNextCounter, Goto, HandLabels, ReadyLabels
  <2>2. next' \in [Elements -> Pacs] /\ \A e \in Elements : next'[e].ptr = next[e].ptr
    BY <1>1, <1>7, <2>1 DEF InitNextCounter, Pacs, Pac
  <2>3. loc' = [loc EXCEPT ![t] = loc[t]] /\ SameHands("init_next_cnt", loc[t], "init_data", loc[t])
    BY <1>7 DEF InitNextCounter, TypeOK, SameHands, HandLabels, TakenLabels, ReadyLabels, LinkLabels
  <2>4. Moves(t, "init_data", loc[t])
    BY <1>1, <1>2, <1>7, <2>2, <2>3 DEF InitNextCounter, Goto, Moves, TypeOK, callers, history
  <2>5. Still(t, "init_data", loc[t])
    BY <1>7, <2>1, <2>2, <2>3, <2>4 DEF InitNextCounter, Still, callers, history
  <2>6. QED
    BY <1>1, <1>2, <2>5 DEF Effect
<1>8. CASE InitData(t)
  <2>1. pc[t] = "init_data" /\ loc[t].qe.ptr \in Elements
    BY <1>3, <1>8 DEF InitData, Goto, HandLabels, ReadyLabels
  <2>2. data' \in [Elements -> Items \cup {NoItem}]
    BY <1>1, <1>8 DEF InitData
  <2>3. loc' = [loc EXCEPT ![t] = loc[t]] /\ SameHands("init_data", loc[t], "enq_ptr", loc[t])
    BY <1>8 DEF InitData, TypeOK, SameHands, HandLabels, TakenLabels, ReadyLabels, LinkLabels
  <2>4. Moves(t, "enq_ptr", loc[t])
    BY <1>1, <1>2, <1>8, <2>2, <2>3 DEF InitData, Goto, Moves, TypeOK, callers, history
  <2>5. Still(t, "enq_ptr", loc[t])
    BY <1>8, <2>1, <2>3, <2>4 DEF InitData, Still, callers, history
  <2>6. QED
    BY <1>1, <1>2, <2>5 DEF Effect
<1>9. QED
  BY <1>4, <1>5, <1>6, <1>7, <1>8

(* The first steps of the calls. *)
LEMMA CallEffects ==
  ASSUME TypeOK, NEW t \in Threads, Enqueue(t) \/ GuaranteedEnqueue(t) \/ Dequeue(t)
  PROVE  Effect(t)
<1>1. /\ pc[t] = "idle" /\ calls[t] < Len(script[t]) /\ script' = script
      /\ calls' = [calls EXCEPT ![t] = calls[t] + 1]
  BY DEF Enqueue, GuaranteedEnqueue, Dequeue, Call
<1>2. /\ loc[t] \in Locals /\ element_count \in Nat /\ fs \in Seq(Elements)
      /\ pc \in [Threads -> Labels] /\ loc \in [Threads -> Locals] /\ calls \in [Threads -> Nat] /\ script \in Scripts
  BY TypeFacts DEF TypeOK, Locals
<1>3. calls' \in [Threads -> Nat] /\ <<t, calls[t] + 1>> \in Items \cup {NoItem}
  <2>1. script[t] \in Seq(SUBSET Operations) /\ calls[t] \in Nat
    BY <1>2, QueueAssumption
  <2>2. calls[t] + 1 \in 1..Len(script[t]) /\ calls[t] + 1 \in Nat
    BY <1>1, <2>1, SMT
  <2>3. calls' \in [Threads -> Nat]
    BY <1>1, <1>2, <2>2
  <2>4. <<t, calls[t] + 1>> \in Items \cup {NoItem}
    BY <1>2, <2>2, SMT DEF Items
  <2>5. QED
    BY <2>3, <2>4
<1>4. \A l \in {"idle", "deq_ptr"} :
         /\ l \in Labels \ {"gone"} /\ l \notin HandLabels /\ \A r : SameHands("idle", loc[t], l, r)
         /\ \A r : EnqueueAgrees(l, r, enqueue', next') /\ DequeueAgrees(l, r, enqueue', dequeue', next', data')
  <2>1. \A l \in {"idle", "deq_ptr"} :
            /\ l \in Labels \ {"gone"} /\ l \notin HandLabels /\ \A r : SameHands("idle", loc[t], l, r)
            /\ l \notin LinkLabels \cup {"enq_swing"}
    BY DEF Labels, HandLabels, TakenLabels, ReadyLabels, LinkLabels, SameHands, DequeueLabels
  <2>2. \A l \in {"idle", "deq_ptr"} : \A r : DequeueAgrees(l, r, enqueue', dequeue', next', data')
    BY SMT DEF DequeueAgrees, DequeueLabels
  <2>3. QED
    BY <2>1, <2>2, NothingToAgree
<1>5. ASSUME UNCHANGED <<memory, pc, loc, got, history>> PROVE Effect(t)
  <2>1. pc' = [pc EXCEPT ![t] = "idle"] /\ loc' = [loc EXCEPT ![t] = loc[t]]
    BY <1>1, <1>2, <1>5
  <2>2. Moves(t, "idle", loc[t])
    BY <1>1, <1>2, <1>3, <1>4, <1>5, <2>1 DEF Moves, TypeOK, memory, history
  <2>3. Still(t, "idle", loc[t])
    BY <1>1, <1>4, <1>5, <2>2 DEF Still, memory, history
  <2>4. QED
    BY <1>2, <1>4, <2>3 DEF Effect
<1>6. ASSUME NEW qe \in Elements, Begin(t, qe), fs' \in Seq(Elements), element_count' \in 0..MaxElements,
             \/ /\ fs # <<>> /\ qe = fs[Len(fs)]
                /\ fs' = SubSeq(fs, 1, Len(fs) - 1) /\ element_count' = element_count
             \/ qe = element_count + 1 /\ fs' = fs /\ element_count' = element_count + 1
      PROVE  Effect(t)
  <2>d. PICK d \in Items \cup {NoItem} : d = <<t, calls[t] + 1>>
    BY <1>3
  <2>0. PICK r : r = [loc[t] EXCEPT !.qe.ptr = qe, !.data = d]
    OBVIOUS
  <2>1. r \in Locals /\ r.qe.ptr = qe /\ r.data = <<t, calls[t] + 1>>
    <3>1. r \in Locals /\ r.qe.ptr = qe /\ r.data = d
      <4>1. qe \in Pointers /\ loc[t] \in Locals
        BY <1>2, QueueAssumption, SMT DEF Pointers, Elements
      <4>2. QED
        BY <2>d, <2>0, <4>1 DEF Locals, Pacs, Pac, Pointers
    <3>2. QED
      BY <3>1, <2>d
  <2>2. pc' = [pc EXCEPT ![t] = "init_count"] /\ loc' = [loc EXCEPT ![t] = r]
    <3>1. calls'[t] = calls[t] + 1
      BY <1>1, <1>2
    <3>2. QED
      BY <1>2, <1>6, <2>d, <2>0, <3>1 DEF Begin
  <2>3. "init_count" \in Labels \ {"gone"} /\ "init_count" \notin LinkLabels \cup {"enq_swing"} \cup DequeueLabels
    BY DEF Labels, TakenLabels, LinkLabels, DequeueLabels
  <2>4. /\ EnqueueAgrees("init_count", r, enqueue', next')
        /\ DequeueAgrees("init_count", r, enqueue', dequeue', next', data')
    BY <2>3, NothingToAgree
  <2>5. Moves(t, "init_count", r)
    BY <1>1, <1>2, <1>3, <1>6, <2>1, <2>2, <2>3, <2>4 DEF Moves, Begin, TypeOK, history
  <2>6. Takes(t, r)
    BY <1>1, <1>6, <2>1, <2>5 DEF Takes, Begin, history
  <2>7. QED
    BY <2>1, <2>6 DEF Effect
<1>7. CASE Enqueue(t)
  <2>1. CASE fs # <<>> /\ fs' = SubSeq(fs, 1, Len(fs) - 1) /\ Begin(t, fs[Len(fs)]) /\ UNCHANGED element_count
    <3>1. fs[Len(fs)] \in Elements /\ fs' \in Seq(Elements)
      BY <1>2, <2>1, SMT
    <3>2. element_count' \in 0..MaxElements
      BY <2>1 DEF TypeOK
    <3>3. QED
      BY <1>6, <2>1, <3>1, <3>2
  <2>2. QED
    BY <1>5, <1>7, <2>1 DEF Enqueue
<1>8. CASE GuaranteedEnqueue(t)
  <2>1. CASE /\ element_count < MaxElements /\ element_count' = element_count + 1
             /\ Begin(t, element_count') /\ UNCHANGED fs
    <3>1. element_count' \in Elements /\ fs' \in Seq(Elements) /\ element_count' \in 0..MaxElements
      BY <1>2, <2>1, QueueAssumption, SMT DEF Elements
    <3>2. QED
      BY <1>6, <2>1, <3>1
  <2>2. QED
    BY <1>5, <1>8, <2>1 DEF GuaranteedEnqueue
<1>9. CASE Dequeue(t)
  <2>1. /\ pc' = [pc EXCEPT ![t] = "deq_ptr"] /\ loc' = [loc EXCEPT ![t] = loc[t]]
        /\ UNCHANGED <<memory, got, linked, taken>>
    BY <1>2, <1>9 DEF Dequeue
  <2>2. seen_empty' \subseteq Threads
    BY <1>9 DEF Dequeue, TypeOK
  <2>3. Moves(t, "deq_ptr", loc[t])
    BY <1>1, <1>2, <1>3, <1>4, <2>1, <2>2 DEF Moves, TypeOK, memory
  <2>4. Still(t, "deq_ptr", loc[t])
    BY <1>1, <1>4, <2>1, <2>3 DEF Still, memory
  <2>5. QED
    BY <1>2, <1>4, <2>4 DEF Effect
<1>10. QED
  BY <1>7, <1>8, <1>9

(* The steps of queue_internal_queue. *)
LEMMA EnqueueEffects ==
  ASSUME TypeOK, Grounded, LocalsAgree, NEW t \in Threads,
         \/ EnqReadPointer(t) \/ EnqReadCounter(t) \/ EnqReadNextPointer(t) \/ EnqReadNextCounter(t)
         \/ EnqCheckPointer(t) \/ EnqCheckCounter(t) \/ EnqLink(t) \/ EnqHelp(t) \/ EnqSwing(t)
  PROVE  Effect(t)
<1> DEFINE E == LinkLabels \cup {"enq_ptr"}
<1>1. /\ loc[t] \in Locals /\ next \in [Elements -> Pacs] /\ enqueue \in Pacs
      /\ enqueue.ptr \in Pointers /\ enqueue.cnt \in Nat
      /\ \A e \in Elements : next[e] \in Pacs /\ next[e].ptr \in Pointers /\ next[e].cnt \in Nat
      /\ loc[t].qe \in Pacs /\ loc[t].next \in Pacs
  BY TypeFacts, LocalsFields
<1>2. \A l \in E : /\ l \in Labels /\ l # "gone" /\ l # "init_data"
                   /\ \A r : DequeueAgrees(l, r, enqueue, dequeue, next, data)
  <2>1. \A l \in E : l \in Labels /\ l # "gone" /\ l # "init_data" /\ l \notin DequeueLabels
    BY DEF Labels, ReadyLabels, LinkLabels, DequeueLabels
  <2>2. QED
    BY <2>1, NothingToAgree
<1>3. ASSUME NEW k \in E, NEW l \in E, NEW r, r.qe.ptr = loc[t].qe.ptr, r.data = loc[t].data,
             l # "enq_ptr" => \/ k # "enq_ptr" /\ r.enqueue.ptr = loc[t].enqueue.ptr
                              \/ r.enqueue.ptr = enqueue.ptr
      PROVE  SameHands(k, loc[t], l, r)
  BY <1>3 DEF SameHands, HandLabels, TakenLabels, ReadyLabels, LinkLabels
<1>4. ASSUME NEW k \in E, NEW l \in E, NEW r \in Locals, r.qe.ptr = loc[t].qe.ptr, r.data = loc[t].data,
             l # "enq_ptr" => \/ k # "enq_ptr" /\ r.enqueue.ptr = loc[t].enqueue.ptr
                              \/ r.enqueue.ptr = enqueue.ptr,
             EnqueueAgrees(l, r, enqueue, next), Local(t, k, l, r)
      PROVE  Effect(t)
  BY <1>2, <1>3, <1>4, LocalIsStill
<1>5. \A l \in {"enq_ptr", "enq_cnt", "enq_next_ptr", "enq_next_cnt", "enq_check_ptr", "enq_check_cnt", "enq_link", "enq_help"} :
          l \in E
  BY DEF LinkLabels
<1>6. EnqueueAgrees("enq_ptr", loc[t], enqueue, next) /\ EnqueueAgrees(pc[t], loc[t], enqueue, next)
  BY DEF EnqueueAgrees, LinkLabels, LocalsAgree
<1>7. pc[t] \in LinkLabels => loc[t].enqueue.ptr \in Elements
  BY DEF Grounded
<1> HIDE DEF E
<1>8. CASE EnqReadPointer(t)
  <2>1. PICK r : r = [loc[t] EXCEPT !.enqueue.ptr = enqueue.ptr] /\ Local(t, "enq_ptr", "enq_cnt", r)
    BY <1>8 DEF EnqReadPointer
  <2>2. r \in Locals /\ r.enqueue.ptr = enqueue.ptr /\ r.qe = loc[t].qe /\ r.data = loc[t].data
    BY <1>1, <2>1 DEF Locals, Pacs, Pac, Pointers
  <2>3. EnqueueAgrees("enq_cnt", r, enqueue, next)
    BY DEF EnqueueAgrees, LinkLabels
  <2>4. QED
    BY <1>4, <1>5, <2>1, <2>2, <2>3
<1>9. CASE EnqReadCounter(t)
  <2>1. PICK r : r = [loc[t] EXCEPT !.enqueue.cnt = enqueue.cnt] /\ Local(t, "enq_cnt", "enq_next_ptr", r)
    BY <1>9 DEF EnqReadCounter
  <2>2. /\ r \in Locals /\ r.enqueue.ptr = loc[t].enqueue.ptr /\ r.enqueue.cnt = enqueue.cnt
        /\ r.qe = loc[t].qe /\ r.data = loc[t].data
    BY <1>1, <2>1 DEF Locals, Pacs, Pac
  <2>3. EnqueueAgrees("enq_next_ptr", r, enqueue, next)
    BY <1>1, <2>2, SMT DEF EnqueueAgrees, LinkLabels
  <2>4. QED
    BY <1>4, <1>5, <2>1, <2>2, <2>3
<1>10. CASE EnqReadNextPointer(t)
  <2>1. PICK r : /\ r = [loc[t] EXCEPT !.next.ptr = next[loc[t].enqueue.ptr].ptr]
                 /\ Local(t, "enq_next_ptr", "enq_next_cnt", r)
    BY <1>10 DEF EnqReadNextPointer
  <2>2. pc[t] = "enq_next_ptr" /\ loc[t].enqueue.ptr \in Elements
    BY <1>7, <2>1 DEF Local, Goto, LinkLabels
  <2>3. /\ r \in Locals /\ r.enqueue = loc[t].enqueue /\ r.next.ptr = next[loc[t].enqueue.ptr].ptr
        /\ r.qe = loc[t].qe /\ r.data = loc[t].data
    BY <1>1, <2>1, <2>2 DEF Locals, Pacs, Pac, Pointers
  <2>4. EnqueueAgrees("enq_next_cnt", r, enqueue, next)
    BY <1>6, <2>2, <2>3 DEF EnqueueAgrees, LinkLabels
  <2>5. QED
    BY <1>4, <1>5, <2>1, <2>3, <2>4
<1>11. CASE EnqReadNextCounter(t)
  <2>1. PICK r : /\ r = [loc[t] EXCEPT !.next.cnt = next[loc[t].enqueue.ptr].cnt]
                 /\ Local(t, "enq_next_cnt", "enq_check_ptr", r)
    BY <1>11 DEF EnqReadNextCounter
  <2>2. pc[t] = "enq_next_cnt" /\ loc[t].enqueue.ptr \in Elements
    BY <1>7, <2>1 DEF Local, Goto, LinkLabels
  <2>3. /\ r \in Locals /\ r.enqueue = loc[t].enqueue /\ r.next.ptr = loc[t].next.ptr
        /\ r.qe = loc[t].qe /\ r.data = loc[t].data
    BY <1>1, <2>1, <2>2 DEF Locals, Pacs, Pac, Pointers
  <2>4. EnqueueAgrees("enq_check_ptr", r, enqueue, next)
    BY <1>6, <2>2, <2>3 DEF EnqueueAgrees, LinkLabels
  <2>5. QED
    BY <1>4, <1>5, <2>1, <2>3, <2>4
<1>12. CASE EnqCheckPointer(t)
  <2>1. pc[t] = "enq_check_ptr"
    BY <1>12 DEF EnqCheckPointer, Local, Goto
  <2>2. EnqueueAgrees("enq_check_cnt", loc[t], enqueue, next)
    BY <1>6, <2>1 DEF EnqueueAgrees, LinkLabels
  <2>3. \E l \in {"enq_check_cnt", "enq_ptr"} : Local(t, "enq_check_ptr", l, loc[t])
    BY <1>12 DEF EnqCheckPointer
  <2>4. QED
    BY <1>1, <1>4, <1>5, <1>6, <2>2, <2>3
<1>13. CASE EnqCheckCounter(t)
  <2>1. pc[t] = "enq_check_cnt"
    BY <1>13 DEF EnqCheckCounter, Local, Goto
  <2>2. CASE Local(t, "enq_check_cnt", "enq_ptr", loc[t])
    BY <1>1, <1>4, <1>5, <1>6, <2>2
  <2>3. ASSUME NEW r, loc[t].next.ptr = NULL, r = [loc[t] EXCEPT !.qe.cnt = CounterPlusOne(loc[t].next.cnt)],
               Local(t, "enq_check_cnt", "enq_link", r)
        PROVE  Effect(t)
    <3>1. /\ r \in Locals /\ r.enqueue = loc[t].enqueue /\ r.next = loc[t].next
          /\ r.qe.ptr = loc[t].qe.ptr /\ r.data = loc[t].data
      BY <1>1, <2>3, SMT DEF Locals, Pacs, Pac, CounterPlusOne
    <3>2. EnqueueAgrees("enq_link", r, enqueue, next)
      BY <1>6, <2>1, <2>3, <3>1 DEF EnqueueAgrees, LinkLabels
    <3>3. QED
      BY <1>4, <1>5, <2>3, <3>1, <3>2
  <2>4. ASSUME NEW r, loc[t].next.ptr # NULL, r = [loc[t] EXCEPT !.next.cnt = CounterPlusOne(loc[t].enqueue.cnt)],
               Local(t, "enq_check_cnt", "enq_help", r)
        PROVE  Effect(t)
    <3>1. /\ r \in Locals /\ r.enqueue = loc[t].enqueue /\ r.next.ptr = loc[t].next.ptr
          /\ r.next.cnt = CounterPlusOne(loc[t].enqueue.cnt)
          /\ r.qe.ptr = loc[t].qe.ptr /\ r.data = loc[t].data
      BY <1>1, <2>4, SMT DEF Locals, Pacs, Pac, CounterPlusOne
    <3>2. EnqueueAgrees("enq_help", r, enqueue, next)
      BY <1>6, <2>1, <2>4, <3>1 DEF EnqueueAgrees, LinkLabels
    <3>3. QED
      BY <1>4, <1>5, <2>4, <3>1, <3>2
  <2>5. QED
    BY <1>13, <2>2, <2>3, <2>4 DEF EnqCheckCounter
<1>14. CASE EnqLink(t)
  <2> DEFINE tail == loc[t].enqueue.ptr
  <2>1. /\ pc[t] = "enq_link" /\ tail \in Elements /\ loc[t].qe.ptr \in Elements /\ loc[t].data # NoItem
        /\ loc[t].next.ptr = NULL /\ loc[t].enqueue.cnt <= enqueue.cnt
    BY <1>6, <1>7, <1>14 DEF EnqLink, EnqueueAgrees, LinkLabels, Grounded, HandLabels, ReadyLabels
  <2>2. UNCHANGED <<enqueue, dequeue, data, aba_count, fs, element_count, freed, script, calls, got, taken, seen_empty>>
    BY <1>14 DEF EnqLink, callers
  <2>3. CASE next[tail] = loc[t].next
    <3>1. PICK r : r = [loc[t] EXCEPT !.qe.cnt = CounterPlusOne(loc[t].enqueue.cnt)]
      OBVIOUS
    <3>2. /\ next' = [next EXCEPT ![tail] = loc[t].qe] /\ pc' = [pc EXCEPT ![t] = "enq_swing"]
          /\ loc' = [loc EXCEPT ![t] = r] /\ linked' = Append(linked, loc[t].data)
      BY <1>14, <2>3, <3>1 DEF EnqLink, abstraction_dcas, TypeOK
    <3>3. /\ r \in Locals /\ r.enqueue = loc[t].enqueue /\ r.qe.ptr = loc[t].qe.ptr
          /\ r.qe.cnt = CounterPlusOne(loc[t].enqueue.cnt)
      BY <1>1, <3>1, SMT DEF Locals, Pacs, Pac, CounterPlusOne
    <3>4. next' \in [Elements -> Pacs] /\ LinksTo(next, next', tail, loc[t].qe.ptr)
      BY <1>1, <2>1, <2>3, <3>2 DEF LinksTo
    <3>5. EnqueueAgrees("enq_swing", r, enqueue', next') /\ DequeueAgrees("enq_swing", r, enqueue', dequeue', next', data')
      <4>1. r.enqueue = enqueue => r.qe.ptr = next'[enqueue.ptr].ptr
        BY <3>3, <3>4 DEF LinksTo
      <4>2. EnqueueAgrees("enq_swing", r, enqueue', next')
        BY <2>1, <2>2, <3>3, <4>1, SMT DEF EnqueueAgrees, LinkLabels, NULL, Elements
      <4>3. "enq_swing" \notin DequeueLabels
        BY DEF DequeueLabels
      <4>4. QED
        BY <4>2, <4>3, NothingToAgree
    <3>6. linked' \in Seq(Items) /\ "enq_swing" \in Labels \ {"gone"}
      <4>1. loc[t].data \in Items
        BY <1>1, <2>1, LocalsFields
      <4>2. QED
        BY <3>2, <4>1, SMT DEF TypeOK, Labels
    <3>7. Moves(t, "enq_swing", r)
      BY <2>2, <3>2, <3>3, <3>4, <3>5, <3>6 DEF Moves, TypeOK
    <3>8. Links(t, r)
      BY <2>1, <2>2, <3>2, <3>4, <3>7 DEF Links
    <3>9. QED
      BY <3>3, <3>8 DEF Effect
  <2>4. CASE next[tail] # loc[t].next
    <3>1. /\ next' = next /\ pc' = [pc EXCEPT ![t] = "enq_ptr"] /\ loc' = [loc EXCEPT ![t] = loc[t]] /\ linked' = linked
      BY <1>1, <1>14, <2>1, <2>4, SMT DEF EnqLink, abstraction_dcas, TypeOK
    <3>2. Local(t, "enq_link", "enq_ptr", loc[t])
      BY <2>1, <2>2, <3>1 DEF Local, Goto, memory, callers, history
    <3>3. QED
      BY <1>1, <1>4, <1>5, <1>6, <3>2
  <2>5. QED
    BY <2>3, <2>4
<1>15. CASE EnqHelp(t)
  <2>1. pc[t] = "enq_help" /\ pc' = [pc EXCEPT ![t] = "enq_ptr"] /\ loc' = [loc EXCEPT ![t] = loc[t]]
    BY <1>15 DEF EnqHelp, Goto, TypeOK
  <2>2. enqueue' = IF enqueue = loc[t].enqueue THEN loc[t].next ELSE enqueue
    BY <1>15 DEF EnqHelp, abstraction_dcas
  <2>3. /\ enqueue' \in Pacs
        /\ \/ enqueue' = enqueue
           \/ /\ next[enqueue.ptr].ptr # NULL
              /\ enqueue'.ptr = next[enqueue.ptr].ptr /\ enqueue'.cnt = CounterPlusOne(enqueue.cnt)
    BY <1>1, <1>6, <2>1, <2>2 DEF EnqueueAgrees
  <2>4. SameHands("enq_help", loc[t], "enq_ptr", loc[t]) /\ "enq_ptr" \in Labels \ {"gone"} /\ "enq_ptr" \notin LinkLabels
    BY <1>2, <1>3, <1>5 DEF LinkLabels
  <2>5. EnqueueAgrees("enq_ptr", loc[t], enqueue', next') /\ DequeueAgrees("enq_ptr", loc[t], enqueue', dequeue', next', data')
    BY <2>4, NothingToAgree DEF DequeueLabels
  <2>6. Moves(t, "enq_ptr", loc[t])
    BY <1>1, <1>15, <2>1, <2>3, <2>4, <2>5 DEF EnqHelp, Moves, TypeOK, callers, history
  <2>7. Still(t, "enq_ptr", loc[t])
    BY <1>15, <2>1, <2>3, <2>4, <2>6 DEF EnqHelp, Still, callers, history
  <2>8. QED
    BY <1>1, <2>4, <2>7 DEF Effect
<1>16. CASE EnqSwing(t)
  <2>1. pc[t] = "enq_swing" /\ pc' = [pc EXCEPT ![t] = "idle"] /\ loc' = [loc EXCEPT ![t] = NoLocals]
    BY <1>16 DEF EnqSwing, Return
  <2>2. enqueue' = IF enqueue = loc[t].enqueue THEN loc[t].qe ELSE enqueue
    BY <1>16 DEF EnqSwing, abstraction_dcas
  <2>3. /\ enqueue' \in Pacs
        /\ \/ enqueue' = enqueue
           \/ /\ next[enqueue.ptr].ptr # NULL
              /\ enqueue'.ptr = next[enqueue.ptr].ptr /\ enqueue'.cnt = CounterPlusOne(enqueue.cnt)
    BY <1>1, <1>6, <2>1, <2>2 DEF EnqueueAgrees
  <2>4. /\ SameHands("enq_swing", loc[t], "idle", NoLocals) /\ "idle" \in Labels \ {"gone"}
        /\ "idle" \notin LinkLabels \cup {"enq_swing"} \cup DequeueLabels \cup HandLabels
    BY DEF SameHands, Labels, HandLabels, TakenLabels, ReadyLabels, LinkLabels, DequeueLabels
  <2>5. EnqueueAgrees("idle", NoLocals, enqueue', next') /\ DequeueAgrees("idle", NoLocals, enqueue', dequeue', next', data')
    BY <2>4, NothingToAgree
  <2>6. NoLocals \in Locals
    BY QueueAssumption, SMT DEF NoLocals, Locals, NullPac, NULL, Pacs, Pac
  <2>7. Moves(t, "idle", NoLocals)
    BY <1>16, <2>1, <2>3, <2>4, <2>5, <2>6 DEF EnqSwing, Moves, TypeOK, callers, history
  <2>8. Still(t, "idle", NoLocals)
    BY <1>16, <2>1, <2>3, <2>4, <2>7 DEF EnqSwing, Still, callers, history
  <2>9. QED
    BY <2>4, <2>6, <2>8 DEF Effect
<1>17. QED
  BY <1>8, <1>9, <1>10, <1>11, <1>12, <1>13, <1>14, <1>15, <1>16

(* The steps of queue_dequeue. *)
LEMMA DequeueEffects ==
  ASSUME TypeOK, Grounded, LocalsAgree, NEW t \in Threads,
         \/ DeqReadPointer(t) \/ DeqReadCounter(t) \/ DeqReadEnqueuePointer(t) \/ DeqReadEnqueueCounter(t)
         \/ DeqReadNextPointer(t) \/ DeqCheckPointer(t) \/ DeqCheckCounter(t) \/ DeqHelp(t)
         \/ DeqReadData(t) \/ DeqDcas(t) \/ DeqFree(t)
  PROVE  Effect(t)
<1>1. /\ loc[t] \in Locals /\ next \in [Elements -> Pacs] /\ enqueue \in Pacs /\ dequeue \in Pacs
      /\ enqueue.ptr \in Pointers /\ enqueue.cnt \in Nat /\ dequeue.ptr \in Pointers /\ dequeue.cnt \in Nat
      /\ \A e \in Elements : next[e] \in Pacs /\ next[e].ptr \in Pointers /\ next[e].cnt \in Nat
      /\ loc[t].next \in Pacs /\ loc[t].dequeue \in Pacs
  BY TypeFacts, LocalsFields
<1>2. \A l \in DequeueLabels \cup {"idle"} :
          /\ l \in Labels /\ l # "gone" /\ l # "init_data" /\ l \notin HandLabels
          /\ \A r, enq, nx : EnqueueAgrees(l, r, enq, nx)
  <2>1. \A l \in DequeueLabels \cup {"idle"} :
            /\ l \in Labels /\ l # "gone" /\ l # "init_data" /\ l \notin HandLabels
            /\ l \notin LinkLabels \cup {"enq_swing"}
    BY DEF Labels, HandLabels, TakenLabels, ReadyLabels, LinkLabels, DequeueLabels
  <2>2. QED
    BY <2>1, NothingToAgree
<1>3. \A k \in DequeueLabels, l \in DequeueLabels \cup {"idle"} : \A r : SameHands(k, loc[t], l, r)
  BY SMT DEF SameHands, HandLabels, TakenLabels, ReadyLabels, LinkLabels, DequeueLabels
<1>4. ASSUME NEW k \in DequeueLabels, NEW l \in DequeueLabels, NEW r \in Locals,
             DequeueAgrees(l, r, enqueue, dequeue, next, data), Local(t, k, l, r)
      PROVE  Effect(t)
  BY <1>2, <1>3, <1>4, LocalIsStill
<1>5. \A l \in {"deq_ptr", "deq_cnt", "deq_enq_ptr", "deq_enq_cnt", "deq_next_ptr",
                "deq_check_ptr", "deq_check_cnt", "deq_help", "deq_data", "deq_dcas"} : l \in DequeueLabels
  BY DEF DequeueLabels
<1>6. DequeueAgrees("deq_ptr", loc[t], enqueue, dequeue, next, data) /\ DequeueAgrees(pc[t], loc[t], enqueue, dequeue, next, data)
  BY DEF DequeueAgrees, DequeueLabels, LocalsAgree
<1>7. /\ dequeue.ptr # NULL /\ dequeue.ptr \in Elements
      /\ enqueue.ptr # dequeue.ptr => next[dequeue.ptr].ptr # NULL
  BY SMT DEF Grounded, Elements, NULL
<1>8. NoLocals \in Locals
  BY QueueAssumption, SMT DEF NoLocals, Locals, NullPac, NULL, Pacs, Pac
<1>9. CASE DeqReadPointer(t)
  <2>1. PICK r : r = [loc[t] EXCEPT !.dequeue.ptr = dequeue.ptr] /\ Local(t, "deq_ptr", "deq_cnt", r)
    BY <1>9 DEF DeqReadPointer
  <2>2. r \in Locals /\ r.dequeue.ptr = dequeue.ptr
    BY <1>1, <2>1 DEF Locals, Pacs, Pac, Pointers
  <2>3. DequeueAgrees("deq_cnt", r, enqueue, dequeue, next, data)
    BY <1>7, <2>2 DEF DequeueAgrees, DequeueLabels
  <2>4. QED
    BY <1>4, <1>5, <2>1, <2>2, <2>3
<1>10. CASE DeqReadCounter(t)
  <2>1. PICK r : r = [loc[t] EXCEPT !.dequeue.cnt = dequeue.cnt] /\ Local(t, "deq_cnt", "deq_enq_ptr", r)
    BY <1>10 DEF DeqReadCounter
  <2>2. r \in Locals /\ r.dequeue.ptr = loc[t].dequeue.ptr /\ r.dequeue.cnt = dequeue.cnt /\ pc[t] = "deq_cnt"
    BY <1>1, <2>1 DEF Locals, Pacs, Pac, Local, Goto
  <2>3. DequeueAgrees("deq_enq_ptr", r, enqueue, dequeue, next, data)
    BY <1>1, <1>6, <2>2, SMT DEF DequeueAgrees, DequeueLabels
  <2>4. QED
    BY <1>4, <1>5, <2>1, <2>2, <2>3
<1>11. CASE DeqReadEnqueuePointer(t)
  <2>1. PICK r : r = [loc[t] EXCEPT !.enqueue.ptr = enqueue.ptr] /\ Local(t, "deq_enq_ptr", "deq_enq_cnt", r)
    BY <1>11 DEF DeqReadEnqueuePointer
  <2>2. r \in Locals /\ r.dequeue = loc[t].dequeue /\ r.enqueue.ptr = enqueue.ptr /\ pc[t] = "deq_enq_ptr"
    BY <1>1, <2>1 DEF Locals, Pacs, Pac, Pointers, Local, Goto
  <2>3. DequeueAgrees("deq_enq_cnt", r, enqueue, dequeue, next, data)
    BY <1>6, <2>2 DEF DequeueAgrees, DequeueLabels
  <2>4. QED
    BY <1>4, <1>5, <2>1, <2>2, <2>3
<1>12. CASE DeqReadEnqueueCounter(t)
  <2>1. PICK r : r = [loc[t] EXCEPT !.enqueue.cnt = enqueue.cnt] /\ Local(t, "deq_enq_cnt", "deq_next_ptr", r)
    BY <1>12 DEF DeqReadEnqueueCounter
  <2>2. /\ r \in Locals /\ r.dequeue = loc[t].dequeue /\ pc[t] = "deq_enq_cnt"
        /\ r.enqueue.ptr = loc[t].enqueue.ptr /\ r.enqueue.cnt = enqueue.cnt
    BY <1>1, <2>1 DEF Locals, Pacs, Pac, Local, Goto
  <2>3. DequeueAgrees("deq_next_ptr", r, enqueue, dequeue, next, data)
    BY <1>1, <1>6, <2>2, SMT DEF DequeueAgrees, DequeueLabels
  <2>4. QED
    BY <1>4, <1>5, <2>1, <2>2, <2>3
<1>13. CASE DeqReadNextPointer(t)
  <2>1. PICK r : /\ r = [loc[t] EXCEPT !.next.ptr = next[loc[t].dequeue.ptr].ptr]
                 /\ Local(t, "deq_next_ptr", "deq_check_ptr", r)
    BY <1>13 DEF DeqReadNextPointer
  <2>2. pc[t] = "deq_next_ptr" /\ loc[t].dequeue.ptr \in Elements
    <3>1. pc[t] = "deq_next_ptr"
      BY <2>1 DEF Local, Goto
    <3>2. loc[t].dequeue.ptr # NULL /\ loc[t].dequeue.ptr \in Pointers
      BY <1>1, <1>6, <3>1, LocalsFields DEF DequeueAgrees, DequeueLabels
    <3>3. QED
      BY <3>1, <3>2, SMT DEF Elements, Pointers, NULL
  <2>3. /\ r \in Locals /\ r.dequeue = loc[t].dequeue /\ r.enqueue = loc[t].enqueue
        /\ r.next.ptr = next[loc[t].dequeue.ptr].ptr
    BY <1>1, <2>1, <2>2 DEF Locals, Pacs, Pac, Pointers
  <2>4. DequeueAgrees("deq_check_ptr", r, enqueue, dequeue, next, data)
    BY <1>6, <2>2, <2>3 DEF DequeueAgrees, DequeueLabels
  <2>5. QED
    BY <1>4, <1>5, <2>1, <2>3, <2>4
<1>14. CASE DeqCheckPointer(t)
  <2>1. pc[t] = "deq_check_ptr"
    BY <1>14 DEF DeqCheckPointer, Local, Goto
  <2>2. dequeue.ptr = loc[t].dequeue.ptr => DequeueAgrees("deq_check_cnt", loc[t], enqueue, dequeue, next, data)
    BY <1>6, <2>1 DEF DequeueAgrees, DequeueLabels
  <2>3. \/ dequeue.ptr = loc[t].dequeue.ptr /\ Local(t, "deq_check_ptr", "deq_check_cnt", loc[t])
        \/ Local(t, "deq_check_ptr", "deq_ptr", loc[t])
    BY <1>14 DEF DeqCheckPointer
  <2>4. QED
    BY <1>1, <1>4, <1>5, <1>6, <2>2, <2>3
<1>15. CASE DeqCheckCounter(t)
  <2>1. pc[t] = "deq_check_cnt"
    BY <1>15 DEF DeqCheckCounter, DeqDecide, Local, Goto
  <2>2. CASE Local(t, "deq_check_cnt", "deq_ptr", loc[t])
    BY <1>1, <1>4, <1>5, <1>6, <2>2
  <2>3. dequeue.cnt = loc[t].dequeue.cnt => loc[t].dequeue = dequeue
    BY <1>1, <1>6, <2>1, SMT DEF DequeueAgrees, Pacs, Pac
  <2>4. ASSUME NEW r, loc[t].dequeue = dequeue, loc[t].enqueue.ptr # loc[t].dequeue.ptr,
               r = [loc[t] EXCEPT !.next.cnt = CounterPlusOne(loc[t].dequeue.cnt)],
               Local(t, "deq_check_cnt", "deq_data", r)
        PROVE  Effect(t)
    <3>1. /\ r \in Locals /\ r.dequeue = loc[t].dequeue /\ r.enqueue = loc[t].enqueue
          /\ r.next.ptr = loc[t].next.ptr /\ r.next.cnt = CounterPlusOne(loc[t].dequeue.cnt)
      BY <1>1, <2>4, SMT DEF Locals, Pacs, Pac, CounterPlusOne
    <3>2. DequeueAgrees("deq_data", r, enqueue, dequeue, next, data)
      BY <1>6, <1>7, <2>1, <2>4, <3>1 DEF DequeueAgrees, DequeueLabels
    <3>3. QED
      BY <1>4, <1>5, <2>4, <3>1, <3>2
  <2>5. ASSUME NEW r, loc[t].next.ptr # NULL, loc[t].enqueue.ptr = loc[t].dequeue.ptr,
               r = [loc[t] EXCEPT !.next.cnt = CounterPlusOne(loc[t].enqueue.cnt)],
               Local(t, "deq_check_cnt", "deq_help", r)
        PROVE  Effect(t)
    <3>1. /\ r \in Locals /\ r.dequeue = loc[t].dequeue /\ r.enqueue = loc[t].enqueue
          /\ r.next.ptr = loc[t].next.ptr /\ r.next.cnt = CounterPlusOne(loc[t].enqueue.cnt)
      BY <1>1, <2>5, SMT DEF Locals, Pacs, Pac, CounterPlusOne
    <3>2. DequeueAgrees("deq_help", r, enqueue, dequeue, next, data)
      BY <1>6, <2>1, <2>5, <3>1 DEF DequeueAgrees, DequeueLabels
    <3>3. QED
      BY <1>4, <1>5, <2>5, <3>1, <3>2
  <2>6. ASSUME DeqEmpty(t) PROVE Effect(t)
    <3>1. /\ pc' = [pc EXCEPT ![t] = "idle"] /\ loc' = [loc EXCEPT ![t] = NoLocals]
          /\ got' = [got EXCEPT ![t] = Append(got[t], NoItem)] /\ seen_empty' \subseteq Threads
          /\ UNCHANGED <<enqueue, dequeue, next, data, aba_count, fs, element_count, freed, script, calls, linked, taken>>
      BY <2>6 DEF DeqEmpty, Return, memory, callers, TypeOK
    <3>2. got' \in [Threads -> Seq(Items \cup {NoItem})]
      BY <3>1, SMT DEF TypeOK
    <3>3. DequeueAgrees("idle", NoLocals, enqueue', dequeue', next', data')
      BY NothingToAgree DEF DequeueLabels
    <3>4. Moves(t, "idle", NoLocals)
      BY <1>2, <1>8, <3>1, <3>2, <3>3 DEF Moves, TypeOK
    <3>5. Still(t, "idle", NoLocals)
      BY <1>3, <1>5, <2>1, <3>1, <3>4 DEF Still
    <3>6. QED
      BY <1>2, <1>8, <3>5 DEF Effect
  <2>7. QED
    BY <1>15, <2>2, <2>3, <2>4, <2>5, <2>6 DEF DeqCheckCounter, DeqDecide
<1>16. CASE DeqHelp(t)
  <2>1. pc[t] = "deq_help" /\ pc' = [pc EXCEPT ![t] = "deq_ptr"] /\ loc' = [loc EXCEPT ![t] = loc[t]]
    BY <1>16 DEF DeqHelp, Goto, TypeOK
  <2>2. enqueue' = IF enqueue = loc[t].enqueue THEN loc[t].next ELSE enqueue
    BY <1>16 DEF DeqHelp, abstraction_dcas
  <2>3. /\ enqueue' \in Pacs
        /\ \/ enqueue' = enqueue
           \/ /\ next[enqueue.ptr].ptr # NULL
              /\ enqueue'.ptr = next[enqueue.ptr].ptr /\ enqueue'.cnt = CounterPlusOne(enqueue.cnt)
    BY <1>1, <1>6, <2>1, <2>2 DEF DequeueAgrees
  <2>4. DequeueAgrees("deq_ptr", loc[t], enqueue', dequeue', next', data')
    BY DEF DequeueAgrees, DequeueLabels
  <2>5. Moves(t, "deq_ptr", loc[t])
    BY <1>1, <1>2, <1>5, <1>16, <2>1, <2>3, <2>4 DEF DeqHelp, Moves, TypeOK, callers, history
  <2>6. Still(t, "deq_ptr", loc[t])
    BY <1>3, <1>5, <1>16, <2>1, <2>3, <2>5 DEF DeqHelp, Still, callers, history
  <2>7. QED
    BY <1>1, <1>2, <1>5, <2>6 DEF Effect
<1>17. CASE DeqReadData(t)
  <2>1. PICK r : r = [loc[t] EXCEPT !.data = data[loc[t].next.ptr]] /\ Local(t, "deq_data", "deq_dcas", r)
    BY <1>17 DEF DeqReadData
  <2>2. pc[t] = "deq_data" /\ loc[t].next.ptr # NULL
    BY <1>6, <2>1 DEF Local, Goto, DequeueAgrees
  <2>3. data[loc[t].next.ptr] \in Items \cup {NoItem}
    BY <1>1, <2>2, LocalsFields, SMT DEF TypeOK, Pointers, Elements, NULL
  <2>4. /\ r \in Locals /\ r.dequeue = loc[t].dequeue /\ r.enqueue = loc[t].enqueue
        /\ r.next = loc[t].next /\ r.data = data[loc[t].next.ptr]
    BY <1>1, <2>1, <2>3 DEF Locals
  <2>5. DequeueAgrees("deq_dcas", r, enqueue, dequeue, next, data)
    BY <1>6, <2>2, <2>4 DEF DequeueAgrees, DequeueLabels
  <2>6. QED
    BY <1>4, <1>5, <2>1, <2>4, <2>5
<1>18. CASE DeqDcas(t)
  <2>1. pc[t] = "deq_dcas" /\ UNCHANGED <<enqueue, next, data, aba_count, fs, element_count, freed, loc, script, calls, linked>>
    BY <1>18 DEF DeqDcas, callers
  <2>2. CASE dequeue = loc[t].dequeue
    <3>1. /\ enqueue.ptr # dequeue.ptr /\ loc[t].next.ptr = next[dequeue.ptr].ptr /\ loc[t].next.ptr # NULL
          /\ loc[t].next.cnt = CounterPlusOne(dequeue.cnt) /\ loc[t].data = data[loc[t].next.ptr]
      BY <1>6, <2>1, <2>2 DEF DequeueAgrees, DequeueLabels
    <3>2. /\ dequeue' = loc[t].next /\ pc' = [pc EXCEPT ![t] = "deq_free"] /\ loc' = [loc EXCEPT ![t] = loc[t]]
          /\ got' = [got EXCEPT ![t] = Append(got[t], loc[t].data)] /\ taken' = taken + 1
      BY <1>18, <2>2 DEF DeqDcas, abstraction_dcas, TypeOK
    <3>3. seen_empty' \subseteq Threads
      BY <1>18, <2>2 DEF DeqDcas, abstraction_dcas, TypeOK
    <3>4. got' \in [Threads -> Seq(Items \cup {NoItem})] /\ taken' \in Nat
      BY <1>1, <3>2, LocalsFields, SMT DEF TypeOK
    <3>5. /\ "deq_free" \in Labels \ {"gone"} /\ EnqueueAgrees("deq_free", loc[t], enqueue', next')
          /\ DequeueAgrees("deq_free", loc[t], enqueue', dequeue', next', data')
      BY DEF Labels, EnqueueAgrees, DequeueAgrees, LinkLabels, DequeueLabels
    <3>6. Moves(t, "deq_free", loc[t])
      BY <1>1, <2>1, <3>2, <3>3, <3>4, <3>5 DEF Moves, TypeOK
    <3>7. Unlinks(t)
      BY <2>1, <2>2, <3>1, <3>2, <3>6 DEF Unlinks
    <3>8. QED
      BY <3>7 DEF Effect
  <2>3. CASE dequeue # loc[t].dequeue
    <3>1. Local(t, "deq_dcas", "deq_ptr", loc[t])
      <4>1. /\ dequeue' = dequeue /\ pc' = [pc EXCEPT ![t] = "deq_ptr"] /\ loc' = [loc EXCEPT ![t] = loc[t]]
            /\ UNCHANGED <<got, taken, seen_empty>>
        BY <1>18, <2>3, SMT DEF DeqDcas, abstraction_dcas, TypeOK
      <4>2. QED
        BY <2>1, <4>1 DEF Local, Goto, memory, callers, history
    <3>2. QED
      BY <1>1, <1>4, <1>5, <1>6, <3>1
  <2>4. QED
    BY <2>2, <2>3
<1>19. CASE DeqFree(t)
  <2>1. pc[t] = "deq_free" /\ pc' = [pc EXCEPT ![t] = "idle"] /\ loc' = [loc EXCEPT ![t] = NoLocals]
    BY <1>19 DEF DeqFree, Return
  <2>2. fs' = Append(fs, loc[t].dequeue.ptr) /\ fs' \in Seq(Elements)
    BY <1>19, <2>1, SMT DEF DeqFree, TypeOK, Grounded
  <2>3. DequeueAgrees("idle", NoLocals, enqueue', dequeue', next', data')
    BY NothingToAgree DEF DequeueLabels
  <2>4. Moves(t, "idle", NoLocals)
    BY <1>2, <1>8, <1>19, <2>1, <2>2, <2>3 DEF DeqFree, Moves, TypeOK, callers, history
  <2>5. Frees(t, NoLocals)
    BY <1>19, <2>1, <2>2, <2>4 DEF DeqFree, Frees, callers, history
  <2>6. QED
    BY <1>8, <2>5 DEF Effect
<1>20. QED
  BY <1>9, <1>10, <1>11, <1>12, <1>13, <1>14, <1>15, <1>16, <1>17, <1>18, <1>19

-----------------------------------------------------------------------------
(* Lists and places *)

(* The elements of a list. *)
LEMMA ListFacts ==
  ASSUME NEW nx, NEW p, NEW s, IsList(nx, p, s)
  PROVE  /\ p \in ElementsIn(s) /\ ElementsIn(s) \subseteq Elements
         /\ \A e \in ElementsIn(s) : nx[e].ptr # NULL => nx[e].ptr \in ElementsIn(s) /\ nx[e].ptr # p
         /\ \A e \in ElementsIn(s) : e # p => nx[p].ptr # NULL
<1>1. /\ s \in Seq(Elements) /\ s # <<>> /\ s[1] = p
      /\ \A i, j \in 1..Len(s) : s[i] = s[j] => i = j
      /\ \A i \in 1..Len(s) : nx[s[i]].ptr = IF i = Len(s) THEN NULL ELSE s[i + 1]
  BY DEF IsList
<1>2. Len(s) \in Nat /\ Len(s) >= 1 /\ 1 \in 1..Len(s) /\ \A i \in 1..Len(s) : s[i] \in Elements
  BY <1>1, SMT
<1>3. p \in ElementsIn(s) /\ ElementsIn(s) \subseteq Elements
  BY <1>1, <1>2 DEF ElementsIn
<1>4. ASSUME NEW i \in 1..Len(s), nx[s[i]].ptr # NULL
      PROVE  nx[s[i]].ptr \in ElementsIn(s) /\ nx[s[i]].ptr # p
  <2>1. i # Len(s) /\ nx[s[i]].ptr = s[i + 1]
    BY <1>1, <1>4
  <2>2. i + 1 \in 1..Len(s) /\ i + 1 # 1
    BY <1>2, <2>1, SMT
  <2>3. s[i + 1] # s[1]
    BY <1>1, <1>2, <2>2
  <2>4. QED
    BY <1>1, <2>1, <2>2, <2>3 DEF ElementsIn
<1>5. ASSUME NEW i \in 1..Len(s), s[i] # p PROVE nx[p].ptr # NULL
  <2>1. Len(s) # 1 /\ 1 + 1 \in 1..Len(s)
    BY <1>1, <1>2, <1>5, SMT
  <2>2. nx[p].ptr = s[1 + 1] /\ s[1 + 1] \in Elements
    BY <1>1, <1>2, <2>1
  <2>3. QED
    BY <2>2, SMT DEF Elements, NULL
<1>6. QED
  BY <1>3, <1>4, <1>5 DEF ElementsIn

(* Stores elsewhere, or to the counters, leave a list alone. *)
LEMMA SameList ==
  ASSUME NEW nx, NEW ny, NEW p, NEW s, IsList(nx, p, s),
         \A e \in ElementsIn(s) : ny[e].ptr = nx[e].ptr
  PROVE  IsList(ny, p, s)
BY DEF IsList, ElementsIn

(* An element alone. *)
LEMMA SingleList ==
  ASSUME NEW nx, NEW e \in Elements, nx[e].ptr = NULL
  PROVE  IsList(nx, e, <<e>>) /\ ElementsIn(<<e>>) = {e}
BY SMT DEF IsList, ElementsIn

(* The list behind the first element. *)
LEMMA TailList ==
  ASSUME NEW nx, NEW p, NEW s, IsList(nx, p, s), nx[p].ptr # NULL
  PROVE  /\ IsList(nx, nx[p].ptr, Tail(s))
         /\ ElementsIn(Tail(s)) = ElementsIn(s) \ {p}
         /\ Len(Tail(s)) = Len(s) - 1 /\ \A i \in 1..(Len(s) - 1) : Tail(s)[i] = s[i + 1]
<1> DEFINE z == Tail(s)
<1>1. /\ s \in Seq(Elements) /\ s # <<>> /\ s[1] = p
      /\ \A i, j \in 1..Len(s) : s[i] = s[j] => i = j
      /\ \A i \in 1..Len(s) : nx[s[i]].ptr = IF i = Len(s) THEN NULL ELSE s[i + 1]
  BY DEF IsList
<1>2. Len(s) \in Nat /\ Len(s) >= 1 /\ 1 \in 1..Len(s)
  BY <1>1, SMT
<1>3. Len(s) # 1 /\ nx[p].ptr = s[2]
  BY <1>1, <1>2, SMT
<1>4. z \in Seq(Elements) /\ Len(z) = Len(s) - 1 /\ \A i \in 1..Len(z) : z[i] = s[i + 1]
  BY <1>1, SMT
<1> HIDE DEF z
<1>5. Len(z) \in Nat /\ \A i \in 1..Len(z) : i + 1 \in 1..Len(s)
  BY <1>2, <1>4, SMT
<1>6. z # <<>> /\ z[1] = nx[p].ptr
  BY <1>2, <1>3, <1>4, SMT
<1>7. \A i, j \in 1..Len(z) : z[i] = z[j] => i = j
  <2>1. SUFFICES ASSUME NEW i \in 1..Len(z), NEW j \in 1..Len(z), z[i] = z[j] PROVE i = j
    OBVIOUS
  <2>2. i + 1 = j + 1
    BY <1>1, <1>4, <1>5, <2>1, SMT
  <2>3. QED
    BY <2>2, SMT
<1>8. \A i \in 1..Len(z) : nx[z[i]].ptr = IF i = Len(z) THEN NULL ELSE z[i + 1]
  <2>1. SUFFICES ASSUME NEW i \in 1..Len(z)
                 PROVE  nx[z[i]].ptr = IF i = Len(z) THEN NULL ELSE z[i + 1]
    OBVIOUS
  <2>2. i + 1 \in 1..Len(s) /\ (i + 1 = Len(s) <=> i = Len(z))
    BY <1>2, <1>4, <1>5, SMT
  <2>3. z[i] = s[i + 1]
    BY <1>4
  <2>4. i # Len(z) => i + 1 \in 1..Len(z)
    BY <1>5, SMT
  <2>5. i # Len(z) => z[i + 1] = s[(i + 1) + 1]
    BY <1>4, <2>4
  <2>6. QED
    BY <1>1, <2>2, <2>3, <2>5
<1>9. ElementsIn(z) = ElementsIn(s) \ {p}
  <2>1. ASSUME NEW k \in 1..Len(s), s[k] # p PROVE \E i \in 1..Len(z) : s[k] = z[i]
    <3>1. k - 1 \in 1..Len(z) /\ (k - 1) + 1 = k
      BY <1>1, <1>2, <1>4, <2>1, SMT
    <3>2. QED
      BY <1>4, <3>1
  <2>2. ASSUME NEW i \in 1..Len(z) PROVE z[i] # p /\ \E k \in 1..Len(s) : z[i] = s[k]
    <3>1. i + 1 \in 1..Len(s) /\ i + 1 # 1
      BY <1>5, SMT
    <3>2. QED
      BY <1>1, <1>2, <1>4, <3>1
  <2>3. QED
    BY <2>1, <2>2, SMT DEF ElementsIn
<1>10. QED
  BY <1>4, <1>6, <1>7, <1>8, <1>9 DEF IsList, z

IsConcat(s, r, z) == z = s \o r

(* List r is linked to the end of list s. *)
LEMMA JoinedList ==
  ASSUME NEW nx, NEW ny, NEW p, NEW s, NEW h, NEW r, NEW e, NEW z, IsConcat(s, r, z),
         IsList(nx, p, s), IsList(nx, h, r), ElementsIn(s) \cap ElementsIn(r) = {},
         e \in ElementsIn(s), LinksTo(nx, ny, e, h)
  PROVE  IsList(ny, p, z) /\ ElementsIn(z) = ElementsIn(s) \cup ElementsIn(r)
<1> DEFINE m == Len(s)
           k == Len(r)
<1>1. /\ s \in Seq(Elements) /\ s # <<>> /\ s[1] = p
      /\ \A i, j \in 1..m : s[i] = s[j] => i = j
      /\ \A i \in 1..m : nx[s[i]].ptr = IF i = m THEN NULL ELSE s[i + 1]
  BY DEF IsList
<1>2. /\ r \in Seq(Elements) /\ r # <<>> /\ r[1] = h
      /\ \A i, j \in 1..k : r[i] = r[j] => i = j
      /\ \A i \in 1..k : nx[r[i]].ptr = IF i = k THEN NULL ELSE r[i + 1]
  BY DEF IsList
<1>a. nx[e].ptr = NULL /\ ny[e].ptr = h /\ \A f \in Elements : f # e => ny[f].ptr = nx[f].ptr
  BY DEF LinksTo
<1>3. /\ m \in Nat /\ m >= 1 /\ k \in Nat /\ k >= 1
      /\ \A i \in 1..m : s[i] \in Elements
      /\ \A i \in 1..k : r[i] \in Elements
  BY <1>1, <1>2, SMT
<1>4. z \in Seq(Elements) /\ Len(z) = m + k /\ \A i \in 1..(m + k) : z[i] = IF i <= m THEN s[i] ELSE r[i - m]
  BY <1>1, <1>2, SMT DEF IsConcat
<1>5. e = s[m]
  <2>1. PICK i \in 1..m : e = s[i]
    BY DEF ElementsIn
  <2>2. i # m => i + 1 \in 1..m
    BY <1>3, SMT
  <2>3. QED
    BY <1>1, <1>3, <1>a, <2>1, <2>2, SMT DEF Elements, NULL
<1>6. \A i \in 1..m, j \in 1..k : s[i] # r[j]
  BY DEF ElementsIn
<1> HIDE DEF m, k
<1>7. /\ \A i \in 1..m : i \in 1..(m + k) /\ z[i] = s[i]
      /\ \A j \in 1..k : m + j \in 1..(m + k) /\ z[m + j] = r[j]
  <2>1. \A i \in 1..m : i \in 1..(m + k) /\ z[i] = s[i]
    BY <1>3, <1>4, SMT
  <2>2. ASSUME NEW j \in 1..k PROVE m + j \in 1..(m + k) /\ z[m + j] = r[j]
    <3>1. m + j \in 1..(m + k) /\ ~(m + j <= m) /\ (m + j) - m = j
      BY <1>3, SMT
    <3>2. QED
      BY <1>4, <3>1
  <2>3. QED
    BY <2>1, <2>2
<1>8. \A i \in 1..(m + k) : i \in 1..m \/ \E j \in 1..k : i = m + j
  <2>1. SUFFICES ASSUME NEW i \in 1..(m + k), i \notin 1..m PROVE \E j \in 1..k : i = m + j
    OBVIOUS
  <2>2. i - m \in 1..k /\ i = m + (i - m)
    BY <1>3, <2>1, SMT
  <2>3. QED
    BY <2>2
<1>9. \A i, j \in 1..Len(z) : z[i] = z[j] => i = j
  <2>1. SUFFICES ASSUME NEW i \in 1..(m + k), NEW j \in 1..(m + k), z[i] = z[j] PROVE i = j
    BY <1>4
  <2>2. CASE i \in 1..m
    <3>1. j \in 1..m
      BY <1>6, <1>7, <1>8, <2>1, <2>2, SMT
    <3>2. QED
      BY <1>1, <1>7, <2>1, <2>2, <3>1 DEF m
  <2>3. CASE i \notin 1..m
    <3>1. PICK a \in 1..k : i = m + a
      BY <1>8, <2>3
    <3>2. j \notin 1..m
      BY <1>6, <1>7, <2>1, <3>1
    <3>3. PICK b \in 1..k : j = m + b
      BY <1>8, <3>2
    <3>4. r[a] = r[b]
      BY <1>7, <2>1, <3>1, <3>3
    <3>5. a = b
      BY <1>2, <3>4 DEF k
    <3>6. QED
      BY <3>1, <3>3, <3>5
  <2>4. QED
    BY <2>2, <2>3
<1>10. ASSUME NEW i \in 1..(m + k) PROVE ny[z[i]].ptr = IF i = m + k THEN NULL ELSE z[i + 1]
  <2>1. CASE i \in 1..m /\ i # m
    <3>1. i + 1 \in 1..m /\ i # m + k
      BY <1>3, <2>1, SMT
    <3>2. s[i] # e
      BY <1>1, <1>3, <1>5, <2>1, SMT DEF m
    <3>3. ny[s[i]].ptr = s[i + 1]
      BY <1>1, <1>3, <1>a, <2>1, <3>2 DEF m
    <3>4. QED
      BY <1>7, <2>1, <3>1, <3>3
  <2>2. CASE i = m
    <3>1. 1 \in 1..k /\ i # m + k /\ z[i] = e /\ i + 1 = m + 1
      BY <1>3, <1>5, <1>7, <2>2, SMT
    <3>2. z[i + 1] = h
      BY <1>2, <1>7, <3>1
    <3>3. QED
      BY <1>a, <3>1, <3>2
  <2>3. CASE i \notin 1..m
    <3>1. PICK j \in 1..k : i = m + j
      BY <1>8, <2>3
    <3>2. r[j] # e /\ r[j] \in Elements
      BY <1>3, <1>5, <1>6, SMT
    <3>3. ny[r[j]].ptr = IF j = k THEN NULL ELSE r[j + 1]
      BY <1>2, <1>a, <3>2 DEF k
    <3>4. (i = m + k <=> j = k) /\ (j # k => j + 1 \in 1..k /\ i + 1 = m + (j + 1))
      BY <1>3, <3>1, SMT
    <3>5. j # k => z[i + 1] = r[j + 1]
      BY <1>7, <3>4, SMT
    <3>6. QED
      BY <1>7, <3>1, <3>3, <3>4, <3>5
  <2>4. QED
    BY <2>1, <2>2, <2>3
<1>11. ElementsIn(z) = ElementsIn(s) \cup ElementsIn(r)
  <2>1. ElementsIn(z) = {z[i] : i \in 1..(m + k)} /\ ElementsIn(s) = {s[i] : i \in 1..m} /\ ElementsIn(r) = {r[i] : i \in 1..k}
    BY <1>4 DEF ElementsIn, m, k
  <2>2. QED
    BY <1>7, <1>8, <2>1, SMT
<1>12. z # <<>> /\ z[1] = p
  BY <1>1, <1>3, <1>4, <1>7, SMT
<1>13. QED
  BY <1>4, <1>9, <1>10, <1>11, <1>12 DEF IsList

(* All hands, when those of one or two threads change. *)
LEMMA HandsUnion ==
  ASSUME NEW P, NEW R, NEW t \in Threads
  PROVE  /\ UNION {P[u] : u \in Threads} = P[t] \cup UNION {P[u] : u \in Threads \ {t}}
         /\ (\A u \in Threads : u # t => R[u] = P[u]) =>
                UNION {R[u] : u \in Threads} = R[t] \cup UNION {P[u] : u \in Threads \ {t}}
         /\ \A w \in Threads : w # t /\ R[t] = {} /\ R[w] = P[w] \cup P[t] /\ (\A u \in Threads \ {t, w} : R[u] = P[u])
                => UNION {R[u] : u \in Threads} = UNION {P[u] : u \in Threads}
OBVIOUS

(* An element goes from the free list to the hands of a thread. *)
LEMMA FromFree ==
  ASSUME NEW F, NEW K, NEW P, NEW n, Partition(F, K, P, n), NEW R, NEW t \in Threads, NEW e \in F,
         P[t] = {}, R[t] = {e}, \A u \in Threads : u # t => R[u] = P[u]
  PROVE  Partition(F \ {e}, K, R, n)
<1>1. /\ F \cap K = {} /\ \A u \in Threads : P[u] \cap (F \cup K) = {}
      /\ \A u, v \in Threads : u # v => P[u] \cap P[v] = {}
      /\ F \cup K \cup UNION {P[u] : u \in Threads} = 1..n
  BY DEF Partition
<1>2. (F \ {e}) \cup K \cup UNION {R[u] : u \in Threads} = 1..n
  BY <1>1, HandsUnion, SMT
<1>3. QED
  BY <1>1, <1>2, SMT DEF Partition

(* An element goes from the queue to the hands of a thread. *)
LEMMA FromQueue ==
  ASSUME NEW F, NEW K, NEW P, NEW n, Partition(F, K, P, n), NEW R, NEW t \in Threads, NEW e \in K,
         P[t] = {}, R[t] = {e}, \A u \in Threads : u # t => R[u] = P[u]
  PROVE  Partition(F, K \ {e}, R, n)
<1>1. /\ F \cap K = {} /\ \A u \in Threads : P[u] \cap (F \cup K) = {}
      /\ \A u, v \in Threads : u # v => P[u] \cap P[v] = {}
      /\ F \cup K \cup UNION {P[u] : u \in Threads} = 1..n
  BY DEF Partition
<1>2. F \cup (K \ {e}) \cup UNION {R[u] : u \in Threads} = 1..n
  BY <1>1, HandsUnion, SMT
<1>3. QED
  BY <1>1, <1>2, SMT DEF Partition

(* A new element goes to the hands of a thread. *)
LEMMA FromNew ==
  ASSUME NEW F, NEW K, NEW P, NEW n \in Nat, Partition(F, K, P, n), NEW R, NEW t \in Threads,
         P[t] = {}, R[t] = {n + 1}, \A u \in Threads : u # t => R[u] = P[u]
  PROVE  Partition(F, K, R, n + 1)
<1>1. /\ F \cap K = {} /\ \A u \in Threads : P[u] \cap (F \cup K) = {}
      /\ \A u, v \in Threads : u # v => P[u] \cap P[v] = {}
      /\ F \cup K \cup UNION {P[u] : u \in Threads} = 1..n
  BY DEF Partition
<1>2. 1..(n + 1) = 1..n \cup {n + 1} /\ n + 1 \notin 1..n
  BY SMT
<1>3. F \cup K \cup UNION {R[u] : u \in Threads} = 1..(n + 1)
  BY <1>1, <1>2, HandsUnion, SMT
<1>4. n + 1 \notin F \cup K /\ \A u \in Threads : n + 1 \notin P[u]
  BY <1>1, <1>2, SMT
<1>5. QED
  BY <1>1, <1>3, <1>4, SMT DEF Partition

(* What a thread has goes to the free list or to the queue. *)
LEMMA ToFreeOrQueue ==
  ASSUME NEW F, NEW K, NEW P, NEW n, Partition(F, K, P, n), NEW R, NEW t \in Threads,
         R[t] = {}, \A u \in Threads : u # t => R[u] = P[u]
  PROVE  Partition(F \cup P[t], K, R, n) /\ Partition(F, K \cup P[t], R, n)
<1>1. /\ F \cap K = {} /\ \A u \in Threads : P[u] \cap (F \cup K) = {}
      /\ \A u, v \in Threads : u # v => P[u] \cap P[v] = {}
      /\ F \cup K \cup UNION {P[u] : u \in Threads} = 1..n
  BY DEF Partition
<1>2. F \cup K \cup P[t] \cup UNION {R[u] : u \in Threads} = 1..n
  BY <1>1, HandsUnion, SMT
<1>3. /\ \A u \in Threads : R[u] \cap (F \cup K \cup P[t]) = {}
      /\ \A u, v \in Threads : u # v => R[u] \cap R[v] = {}
      /\ (F \cup P[t]) \cap K = {} /\ F \cap (K \cup P[t]) = {}
  BY <1>1
<1>4. QED
  BY <1>2, <1>3 DEF Partition

(* What a thread has goes to another one. *)
LEMMA ToThread ==
  ASSUME NEW F, NEW K, NEW P, NEW n, Partition(F, K, P, n), NEW R, NEW t \in Threads, NEW w \in Threads,
         w # t, R[t] = {}, R[w] = P[w] \cup P[t], \A u \in Threads \ {t, w} : R[u] = P[u]
  PROVE  Partition(F, K, R, n)
<1>1. /\ F \cap K = {} /\ \A u \in Threads : P[u] \cap (F \cup K) = {}
      /\ \A u, v \in Threads : u # v => P[u] \cap P[v] = {}
      /\ F \cup K \cup UNION {P[u] : u \in Threads} = 1..n
  BY DEF Partition
<1>2. F \cup K \cup UNION {R[u] : u \in Threads} = 1..n
  BY <1>1, HandsUnion, SMT
<1>3. \A u \in Threads : R[u] = (IF u = t THEN {} ELSE IF u = w THEN P[w] \cup P[t] ELSE P[u])
  OBVIOUS
<1>4. \A u \in Threads : R[u] \cap (F \cup K) = {}
  BY <1>1, <1>3
<1>5. \A u, v \in Threads : u # v => R[u] \cap R[v] = {}
  BY <1>1, <1>3
<1>6. QED
  BY <1>1, <1>2, <1>4, <1>5 DEF Partition

NoRepeat(s) == \A i, j \in 1..Len(s) : s[i] = s[j] => i = j

(* Free list s gives its last element e and is z then. *)
Gives(s, e, z) ==
    s \in Seq(Elements) /\ NoRepeat(s) /\ s # <<>> /\ e = s[Len(s)] /\ z = SubSeq(s, 1, Len(s) - 1)

(* Free list s gets element e, which it does not have, and is z then. *)
Gets(s, e, z) ==
    s \in Seq(Elements) /\ NoRepeat(s) /\ e \in Elements /\ e \notin ElementsIn(s) /\ z = Append(s, e)

(* What is on the free list after freelist_pop. *)
LEMMA FreeGives ==
  ASSUME NEW s, NEW e, NEW z, Gives(s, e, z)
  PROVE  NoRepeat(z) /\ e \in ElementsIn(s) /\ ElementsIn(z) = ElementsIn(s) \ {e}
<1>0. /\ s \in Seq(Elements) /\ s # <<>> /\ e = s[Len(s)] /\ z = SubSeq(s, 1, Len(s) - 1)
      /\ Len(s) \in Nat /\ \A i \in 1..Len(s) : s[i] \in Elements
  BY SMT DEF Gives
<1>a. \A i, j \in 1..Len(s) : s[i] = s[j] => i = j
  BY DEF Gives, NoRepeat
<1>1. Len(s) # 0 /\ Len(s) \in 1..Len(s)
  BY <1>0, SMT
<1>2. Len(s) - 1 \in Nat /\ 1..(Len(s) - 1) \subseteq 1..Len(s)
  BY <1>0, <1>1, SMT
<1>3. Len(z) = Len(s) - 1 /\ \A i \in 1..(Len(s) - 1) : z[i] = s[i]
  <2>1. PICK n \in Nat : n = Len(s) - 1
    BY <1>2
  <2>2. \A i \in 1..n : s[i] \in Elements
    BY <1>0, <1>2, <2>1
  <2>3. /\ Len(SubSeq(s, 1, n)) = IF 1 <= n THEN n - 1 + 1 ELSE 0
        /\ \A i \in 1..(n - 1 + 1) : SubSeq(s, 1, n)[i] = s[1 + i - 1]
    BY <2>2, SMT
  <2>4. Len(z) = n /\ \A i \in 1..n : z[i] = s[1 + i - 1]
    BY <1>0, <2>1, <2>3, SMT
  <2>5. \A i \in 1..n : 1 + i - 1 = i
    BY <2>1, SMT
  <2>6. QED
    BY <2>1, <2>4, <2>5, SMT
<1>4. \A i \in 1..Len(s) : i \in 1..(Len(s) - 1) \/ i = Len(s)
  BY <1>0, SMT
<1>5. Len(s) \notin 1..(Len(s) - 1)
  BY <1>0, SMT
<1>6. \A i \in 1..(Len(s) - 1) : s[i] # s[Len(s)]
  BY <1>a, <1>1, <1>2, <1>5
<1>7. \A i, j \in 1..Len(z) : z[i] = z[j] => i = j
  BY <1>a, <1>2, <1>3
<1>8. ElementsIn(z) = {s[i] : i \in 1..(Len(s) - 1)}
  BY <1>3 DEF ElementsIn
<1>9. {s[i] : i \in 1..(Len(s) - 1)} = ElementsIn(s) \ {s[Len(s)]}
  BY <1>2, <1>4, <1>6 DEF ElementsIn
<1>10. QED
  BY <1>0, <1>1, <1>7, <1>8, <1>9 DEF ElementsIn, NoRepeat

(* What is on the free list after freelist_push. *)
LEMMA FreeGets ==
  ASSUME NEW s, NEW e, NEW z, Gets(s, e, z)
  PROVE  NoRepeat(z) /\ ElementsIn(z) = ElementsIn(s) \cup {e}
<1>0. /\ s \in Seq(Elements) /\ e \in Elements /\ e \notin ElementsIn(s) /\ z = Append(s, e)
      /\ Len(s) \in Nat /\ \A i \in 1..Len(s) : s[i] \in Elements
  BY SMT DEF Gets
<1>a. \A i, j \in 1..Len(s) : s[i] = s[j] => i = j
  BY DEF Gets, NoRepeat
<1>1. /\ Len(z) = Len(s) + 1 /\ z[Len(s) + 1] = e
      /\ \A i \in 1..Len(s) : z[i] = s[i]
  BY <1>0, SMT
<1>2. \A i \in 1..(Len(s) + 1) : i \in 1..Len(s) \/ i = Len(s) + 1
  BY <1>0, SMT
<1>3. \A i \in 1..Len(s) : s[i] # e
  BY <1>0 DEF ElementsIn
<1>4. \A i, j \in 1..Len(z) : z[i] = z[j] => i = j
  BY <1>a, <1>1, <1>2, <1>3
<1>5. Len(s) + 1 \in 1..Len(z) /\ 1..Len(s) \subseteq 1..Len(z)
  BY <1>0, <1>1, SMT
<1>6. ElementsIn(s) \cup {e} \subseteq ElementsIn(z)
  BY <1>1, <1>5 DEF ElementsIn
<1>7. ElementsIn(z) \subseteq ElementsIn(s) \cup {e}
  BY <1>1, <1>2 DEF ElementsIn
<1>8. QED
  BY <1>4, <1>6, <1>7 DEF NoRepeat

(* The labels are different strings. *)
LEMMA LabelFacts ==
  /\ TakenLabels \cap ReadyLabels = {} /\ "deq_free" \notin TakenLabels \cup ReadyLabels
  /\ LinkLabels \subseteq ReadyLabels
  /\ {"idle", "enq_swing", "gone"} \cap (TakenLabels \cup ReadyLabels \cup DequeueLabels \cup {"deq_free"}) = {}
  /\ DequeueLabels \cap (TakenLabels \cup ReadyLabels \cup {"deq_free"}) = {}
  /\ "init_next_count" \in ReadyLabels \ LinkLabels
BY DEF TakenLabels, ReadyLabels, LinkLabels, DequeueLabels

(* What a step of a thread does to the types and to the other threads. *)
LEMMA MovesFacts ==
  ASSUME TypeOK, NEW t \in Threads, NEW l, NEW r, Moves(t, l, r)
  PROVE  /\ TypeOK'
         /\ pc'[t] = l /\ loc'[t] = r
         /\ \A u \in Threads : u # t => pc'[u] = pc[u] /\ loc'[u] = loc[u]
<1>1. pc \in [Threads -> Labels] /\ loc \in [Threads -> Locals] /\ script \in Scripts
  BY DEF TypeOK, Locals
<1>2. /\ l \in Labels /\ r \in Locals
      /\ pc' = [pc EXCEPT ![t] = l] /\ loc' = [loc EXCEPT ![t] = r] /\ script' = script
  BY DEF Moves
<1>3. pc' \in [Threads -> Labels] /\ loc' \in [Threads -> Locals] /\ script' \in Scripts
  BY <1>1, <1>2
<1>4. TypeOK'
  BY <1>3 DEF TypeOK, Moves, Locals
<1>5. QED
  BY <1>1, <1>2, <1>4

-----------------------------------------------------------------------------
(* Who may link behind whom: no circles *)

(* With fewer edges. *)
LEMMA FewerEdges ==
  ASSUME NEW R, NEW Q, Acyclic(R), \A a, b \in Threads : <<a, b>> \in Q => <<a, b>> \in R
  PROVE  Acyclic(Q)
BY DEF Acyclic

(* New edges to a thread that has none to others. *)
LEMMA EdgesToSink ==
  ASSUME NEW R, NEW Q, Acyclic(R), NEW t \in Threads, \A b \in Threads : <<t, b>> \notin Q,
         \A a, b \in Threads : <<a, b>> \in Q => <<a, b>> \in R \/ b = t
  PROVE  Acyclic(Q)
BY SMT DEF Acyclic

(* Thread t, which has an edge to u, is taken out, and its edges go to u.  *)
Contracts(R, Q, t, u) ==
    /\ <<t, u>> \in R
    /\ \A a, b \in Threads : <<a, b>> \in Q => a # t /\ b # t /\ (<<a, b>> \in R \/ (b = u /\ <<a, t>> \in R))

(* No circle arises when a thread is taken out in this way. *)
LEMMA EdgesContracted ==
  ASSUME NEW R, NEW Q, Acyclic(R), NEW t \in Threads, NEW u \in Threads, Contracts(R, Q, t, u)
  PROVE  Acyclic(Q)
<1>0. /\ <<t, u>> \in R
      /\ \A a, b \in Threads : <<a, b>> \in Q => a # t /\ b # t /\ (<<a, b>> \in R \/ (b = u /\ <<a, t>> \in R))
  BY DEF Contracts
<1>1. SUFFICES ASSUME NEW S \in SUBSET Threads, S # {}
               PROVE  \E a \in S : \A b \in S : <<a, b>> \notin Q
  BY DEF Acyclic
<1>2. CASE t \in S
  BY <1>0, <1>2
<1>3. CASE t \notin S /\ u \notin S
  <2>1. PICK a \in S : \A b \in S : <<a, b>> \notin R
    BY <1>1 DEF Acyclic
  <2>2. \A b \in S : <<a, b>> \notin Q
    BY <1>0, <1>3, <2>1
  <2>3. QED
    BY <2>2
<1>4. CASE t \notin S /\ u \in S
  <2>1. S \cup {t} \in SUBSET Threads /\ S \cup {t} # {}
    OBVIOUS
  <2>2. PICK a \in S \cup {t} : \A b \in S \cup {t} : <<a, b>> \notin R
    BY <2>1 DEF Acyclic
  <2>3. a \in S
    BY <1>0, <1>4, <2>2
  <2>4. \A b \in S : <<a, b>> \notin Q
    BY <1>0, <2>2, <2>3
  <2>5. QED
    BY <2>3, <2>4
<1>5. QED
  BY <1>2, <1>3, <1>4

(* No thread has an edge to itself. *)
LEMMA NoLoop ==
  ASSUME NEW R, Acyclic(R), NEW t \in Threads
  PROVE  <<t, t>> \notin R
<1>1. {t} \in SUBSET Threads /\ {t} # {}
  OBVIOUS
<1>2. QED
  BY <1>1 DEF Acyclic

(* L with s for thread t. *)
Put(L, t, s) == [u \in Threads |-> IF u = t THEN s ELSE L[u]]

(* The elements of short sequences. *)
LEMMA ShortSequences ==
  /\ ElementsIn(<<>>) = {}
  /\ \A e : ElementsIn(<<e>>) = {e}
BY SMT DEF ElementsIn

(* What is in the hands, by the label. *)
LEMMA HoldsFacts ==
  ASSUME NEW nx, NEW l, NEW r, NEW s, Holds(nx, l, r, s)
  PROVE  /\ l \in TakenLabels => ElementsIn(s) = {r.qe.ptr}
         /\ l \in ReadyLabels => IsList(nx, r.qe.ptr, s)
         /\ l = "deq_free" => ElementsIn(s) = {r.dequeue.ptr}
         /\ l \notin HandLabels \cup {"deq_free"} => ElementsIn(s) = {}
BY ShortSequences DEF Holds

(* Stores elsewhere leave the hands alone. *)
LEMMA HoldsSame ==
  ASSUME NEW nx, NEW ny, NEW l, NEW r, NEW s, Holds(nx, l, r, s), \A e \in ElementsIn(s) : ny[e].ptr = nx[e].ptr
  PROVE  Holds(ny, l, r, s)
BY SameList DEF Holds

(* The elements of the lists have been allocated and are in one place. *)
LEMMA ShapeFacts ==
  ASSUME TypeOK, NEW K, NEW L, Shape(K, L)
  PROVE  /\ IsList(next, dequeue.ptr, K) /\ enqueue.ptr \in ElementsIn(K) /\ dequeue.ptr \in ElementsIn(K)
         /\ \A t \in Threads : Holds(next, pc[t], loc[t], L[t])
         /\ ElementsIn(K) \subseteq 1..element_count /\ 1..element_count \subseteq Elements
         /\ \A t \in Threads : ElementsIn(L[t]) \subseteq 1..element_count /\ ElementsIn(L[t]) \cap ElementsIn(K) = {}
         /\ \A t, u \in Threads : t # u => ElementsIn(L[t]) \cap ElementsIn(L[u]) = {}
<1>1. IsList(next, dequeue.ptr, K) /\ enqueue.ptr \in ElementsIn(K)
  BY DEF Shape, Lists
<1>2. dequeue.ptr \in ElementsIn(K)
  BY <1>1, ListFacts
<1>3. \A t \in Threads : Hands(L)[t] = ElementsIn(L[t])
  BY DEF Hands
<1>4. Partition(ElementsIn(fs), ElementsIn(K), Hands(L), element_count)
  BY DEF Shape, Places
<1>5. /\ \A t \in Threads : Hands(L)[t] \cap ElementsIn(K) = {}
      /\ \A t, u \in Threads : t # u => Hands(L)[t] \cap Hands(L)[u] = {}
      /\ ElementsIn(K) \subseteq 1..element_count
      /\ \A t \in Threads : Hands(L)[t] \subseteq 1..element_count
  BY <1>4 DEF Partition
<1>6. 1..element_count \subseteq Elements
  BY TypeFacts
<1>7. QED
  BY <1>1, <1>2, <1>3, <1>5, <1>6 DEF Shape, Lists

-----------------------------------------------------------------------------
(* The shape after each kind of step *)

(* The lists of the other threads, when only pointers elsewhere change. *)
LEMMA OthersHold ==
  ASSUME TypeOK, NEW K, NEW L, Shape(K, L), NEW t \in Threads, NEW l, NEW r, Moves(t, l, r),
         NEW u \in Threads, u # t, \A e \in ElementsIn(L[u]) : next'[e].ptr = next[e].ptr
  PROVE  Holds(next', pc'[u], loc'[u], L[u])
<1>1. pc'[u] = pc[u] /\ loc'[u] = loc[u]
  BY MovesFacts
<1>2. Holds(next, pc[u], loc[u], L[u])
  BY DEF Shape, Lists
<1>3. Holds(next', pc[u], loc[u], L[u])
  BY <1>2, HoldsSame
<1>4. QED
  BY <1>1, <1>3

(* The tails, when every end is one still. *)
LEMMA TailsStay ==
  ASSUME TypeOK, NEW K, NEW L, Shape(K, L), NEW t \in Threads, NEW l, NEW r, Moves(t, l, r), NEW K2, NEW L2,
         1..element_count \subseteq 1..element_count',
         \A e \in 1..element_count : Ends(next, pc, e, K, L) => Ends(next', pc', e, K2, L2),
         \/ l \notin LinkLabels
         \/ pc[t] \in LinkLabels /\ r.enqueue.ptr = loc[t].enqueue.ptr
         \/ r.enqueue.ptr = enqueue.ptr
  PROVE  Tails(K2, L2)'
<1>1. pc'[t] = l /\ loc'[t] = r /\ \A u \in Threads : u # t => pc'[u] = pc[u] /\ loc'[u] = loc[u]
  BY MovesFacts, SMT
<1>2. enqueue.ptr \in 1..element_count /\ Ends(next, pc, enqueue.ptr, K, L)
  BY ShapeFacts DEF Ends
<1>3. ASSUME NEW u \in Threads, pc[u] \in LinkLabels
      PROVE  loc[u].enqueue.ptr \in 1..element_count /\ Ends(next, pc, loc[u].enqueue.ptr, K, L)
  BY <1>3 DEF Shape, Tails
<1>4. SUFFICES ASSUME NEW u \in Threads, pc'[u] \in LinkLabels
               PROVE  loc'[u].enqueue.ptr \in 1..element_count' /\ Ends(next', pc', loc'[u].enqueue.ptr, K2, L2)
  BY DEF Tails
<1>5. loc'[u].enqueue.ptr \in 1..element_count /\ Ends(next, pc, loc'[u].enqueue.ptr, K, L)
  <2>1. CASE u = t
    BY <1>1, <1>2, <1>3, <1>4, <2>1
  <2>2. CASE u # t
    BY <1>1, <1>3, <1>4, <2>2
  <2>3. QED
    BY <2>1, <2>2
<1>6. QED
  BY <1>5

(* A step that moves no element. *)
LEMMA StillShape ==
  ASSUME TypeOK, NEW K, NEW L, Shape(K, L), NEW t \in Threads, NEW l, NEW r, Still(t, l, r)
  PROVE  Shape(K, L)'
<1>1. Moves(t, l, r) /\ dequeue' = dequeue /\ fs' = fs /\ element_count' = element_count
  BY DEF Still
<1>2. pc'[t] = l /\ loc'[t] = r /\ \A u \in Threads : u # t => pc'[u] = pc[u] /\ loc'[u] = loc[u]
  BY <1>1, MovesFacts
<1>3. \A e \in Elements : next'[e].ptr = next[e].ptr
  BY DEF Still
<1>4. /\ pc[t] # "deq_free" /\ l # "deq_free"
      /\ l \in TakenLabels <=> pc[t] \in TakenLabels
      /\ l \in ReadyLabels <=> pc[t] \in ReadyLabels
      /\ l \in HandLabels => r.qe.ptr = loc[t].qe.ptr
  BY DEF Still, SameHands
<1>5. /\ IsList(next, dequeue.ptr, K) /\ enqueue.ptr \in ElementsIn(K) /\ ElementsIn(K) \subseteq Elements
      /\ \A u \in Threads : Holds(next, pc[u], loc[u], L[u])
      /\ \A u \in Threads : ElementsIn(L[u]) \subseteq Elements /\ ElementsIn(L[u]) \cap ElementsIn(K) = {}
  BY ShapeFacts
<1>6. enqueue'.ptr \in ElementsIn(K)
  BY <1>5, ListFacts DEF Still
<1>7. IsList(next', dequeue.ptr, K)
  BY <1>3, <1>5, SameList
<1>8. Holds(next', l, r, L[t])
  <2>1. Holds(next, l, r, L[t])
    BY <1>4, <1>5 DEF Holds, HandLabels
  <2>2. QED
    BY <1>3, <1>5, <2>1, HoldsSame
<1>9. \A u \in Threads : u # t => Holds(next', pc'[u], loc'[u], L[u])
  BY <1>1, <1>3, <1>5, OthersHold
<1>10. Lists(K, L)'
  BY <1>1, <1>2, <1>6, <1>7, <1>8, <1>9 DEF Lists
<1>11. Places(K, L)'
  BY <1>1 DEF Shape, Places, Hands
<1>12. \A u \in Threads : pc'[u] \in ReadyLabels <=> pc[u] \in ReadyLabels
  BY <1>2, <1>4
<1>13. l \in LinkLabels => (pc[t] \in LinkLabels /\ r.enqueue.ptr = loc[t].enqueue.ptr) \/ r.enqueue.ptr = enqueue.ptr
  BY DEF Still, SameHands
<1>14. Tails(K, L)'
  <2>1. \A e \in 1..element_count : Ends(next, pc, e, K, L) => Ends(next', pc', e, K, L)
    BY <1>3, <1>12, TypeFacts DEF Ends
  <2>2. QED
    BY <1>1, <1>13, <2>1, TailsStay
<1>15. Acyclic(Edges(pc', loc', L))
  <2>1. ASSUME NEW a \in Threads, NEW b \in Threads, <<a, b>> \in Edges(pc', loc', L) PROVE <<a, b>> \in Edges(pc, loc, L)
    <3>1. pc'[a] \in LinkLabels /\ pc[b] \in ReadyLabels /\ loc'[a].enqueue.ptr \in ElementsIn(L[b])
      BY <1>12, <2>1 DEF Edges
    <3>2. pc[a] \in LinkLabels /\ loc'[a].enqueue.ptr = loc[a].enqueue.ptr
      BY <1>2, <1>5, <1>13, <3>1
    <3>3. QED
      BY <3>1, <3>2 DEF Edges
  <2>2. Acyclic(Edges(pc, loc, L))
    BY DEF Shape
  <2>3. QED
    BY <2>1, <2>2, FewerEdges
<1>16. QED
  BY <1>10, <1>11, <1>14, <1>15 DEF Shape, Acyclic

(* A thread that has no list before and after gets or gives an element. *)
LEMMA HandChanges ==
  ASSUME TypeOK, NEW K, NEW L, Shape(K, L), NEW t \in Threads, NEW l, NEW r, Moves(t, l, r), NEW K2, NEW s,
         pc[t] \notin ReadyLabels, l \notin ReadyLabels, next' = next, Holds(next, l, r, s),
         IsList(next, dequeue'.ptr, K2), enqueue'.ptr \in ElementsIn(K2),
         \A e \in ElementsIn(K) : e \in ElementsIn(K2) \/ next[e].ptr # NULL,
         Partition(ElementsIn(fs'), ElementsIn(K2), Hands(Put(L, t, s)), element_count'),
         1..element_count \subseteq 1..element_count'
  PROVE  Shape(K2, Put(L, t, s))'
<1> DEFINE L2 == Put(L, t, s)
<1>1. L2[t] = s /\ \A u \in Threads : u # t => L2[u] = L[u]
  BY DEF Put
<1>2. Hands(L2) = [u \in Threads |-> ElementsIn(L2[u])]
  BY DEF Hands
<1> HIDE DEF L2
<1>3. pc'[t] = l /\ loc'[t] = r /\ \A u \in Threads : u # t => pc'[u] = pc[u] /\ loc'[u] = loc[u]
  BY MovesFacts, SMT
<1>4. Lists(K2, L2)'
  <2>1. \A u \in Threads : u # t => Holds(next', pc'[u], loc'[u], L[u])
    BY OthersHold
  <2>2. QED
    BY <1>1, <1>3, <2>1 DEF Lists
<1>5. Places(K2, L2)'
  BY DEF Places, Hands, L2
<1>6. l \notin LinkLabels
  BY LabelFacts
<1>7. \A u \in Threads : pc'[u] \in ReadyLabels <=> pc[u] \in ReadyLabels
  BY <1>3
<1>8. Tails(K2, L2)'
  <2>1. \A e \in 1..element_count : Ends(next, pc, e, K, L) => Ends(next', pc', e, K2, L2)
    BY <1>1, <1>7 DEF Ends
  <2>2. QED
    BY <1>6, <2>1, TailsStay
<1>9. Acyclic(Edges(pc', loc', L2))
  <2>1. \A a, b \in Threads : <<a, b>> \in Edges(pc', loc', L2) => <<a, b>> \in Edges(pc, loc, L)
    BY <1>1, <1>3, <1>6, <1>7 DEF Edges
  <2>2. QED
    BY <2>1, FewerEdges DEF Shape
<1>10. QED
  BY <1>4, <1>5, <1>8, <1>9 DEF Shape, L2, Acyclic, Edges

(* freelist_pop or an allocation. *)
LEMMA TakesShape ==
  ASSUME TypeOK, FreeOnce, NEW K, NEW L, Shape(K, L), NEW t \in Threads, NEW r, Takes(t, r)
  PROVE  FreeOnce' /\ Shape(K, Put(L, t, <<r.qe.ptr>>))'
<1> DEFINE e == r.qe.ptr
           s == <<e>>
<1>1. /\ Moves(t, "init_count", r) /\ pc[t] = "idle"
      /\ enqueue' = enqueue /\ dequeue' = dequeue /\ next' = next
      /\ \/ /\ fs # <<>> /\ e = fs[Len(fs)]
            /\ fs' = SubSeq(fs, 1, Len(fs) - 1) /\ element_count' = element_count
         \/ /\ e = element_count + 1 /\ fs' = fs /\ element_count' = element_count + 1
  BY DEF Takes
<1>2. /\ Partition(ElementsIn(fs), ElementsIn(K), Hands(L), element_count) /\ Holds(next, pc[t], loc[t], L[t])
      /\ IsList(next, dequeue.ptr, K) /\ enqueue.ptr \in ElementsIn(K)
  BY DEF Shape, Places, Lists
<1>a. pc[t] \notin HandLabels \cup {"deq_free"} /\ "init_count" \in TakenLabels \ ReadyLabels
  BY <1>1 DEF HandLabels, TakenLabels, ReadyLabels, LinkLabels
<1>b. ElementsIn(L[t]) = {} /\ ElementsIn(s) = {e}
  BY <1>2, <1>a, HoldsFacts, ShortSequences
<1>3. Hands(L)[t] = {} /\ Hands(Put(L, t, s))[t] = {e} /\ \A u \in Threads : u # t => Hands(Put(L, t, s))[u] = Hands(L)[u]
  BY <1>b DEF Put, Hands
<1>4. Holds(next, "init_count", r, s)
  BY DEF Holds, TakenLabels, ReadyLabels, LinkLabels, HandLabels
<1>5. element_count \in Nat /\ NoRepeat(fs) /\ fs \in Seq(Elements)
  BY TypeFacts DEF FreeOnce, NoRepeat
<1> HIDE DEF e, s
<1>6. /\ NoRepeat(fs') /\ 1..element_count \subseteq 1..element_count'
      /\ Partition(ElementsIn(fs'), ElementsIn(K), Hands(Put(L, t, s)), element_count')
  <2>1. CASE fs # <<>> /\ e = fs[Len(fs)] /\ fs' = SubSeq(fs, 1, Len(fs) - 1) /\ element_count' = element_count
    <3>1. Gives(fs, e, fs')
      BY <1>5, <2>1 DEF Gives
    <3>2. NoRepeat(fs') /\ e \in ElementsIn(fs) /\ ElementsIn(fs') = ElementsIn(fs) \ {e}
      BY <3>1, FreeGives
    <3>3. Partition(ElementsIn(fs) \ {e}, ElementsIn(K), Hands(Put(L, t, s)), element_count)
      BY <1>2, <1>3, <3>2, FromFree
    <3>4. QED
      BY <2>1, <3>2, <3>3
  <2>2. CASE e = element_count + 1 /\ fs' = fs /\ element_count' = element_count + 1
    <3>1. 1..element_count \subseteq 1..element_count'
      BY <1>5, <2>2, SMT
    <3>2. QED
      BY <1>2, <1>3, <1>5, <2>2, <3>1, FromNew
  <2>3. QED
    BY <1>1, <2>1, <2>2
<1>7. pc[t] \notin ReadyLabels /\ "init_count" \notin ReadyLabels
  BY <1>a DEF HandLabels
<1>8. Shape(K, Put(L, t, s))'
  BY <1>1, <1>2, <1>4, <1>6, <1>7, HandChanges
<1>9. QED
  BY <1>6, <1>8 DEF FreeOnce, NoRepeat, s, e

(* The dcas on qs->dequeue. *)
LEMMA UnlinksShape ==
  ASSUME TypeOK, FreeOnce, NEW K, NEW L, Shape(K, L), NEW t \in Threads, Unlinks(t),
         NEW Z, Z = Tail(K), NEW s, s = <<dequeue.ptr>>
  PROVE  FreeOnce' /\ Shape(Z, Put(L, t, s))'
<1>1. /\ Moves(t, "deq_free", loc[t]) /\ pc[t] = "deq_dcas" /\ loc[t].dequeue = dequeue
      /\ enqueue.ptr # dequeue.ptr /\ next[dequeue.ptr].ptr # NULL /\ dequeue'.ptr = next[dequeue.ptr].ptr
      /\ enqueue' = enqueue /\ next' = next /\ fs' = fs /\ element_count' = element_count
  BY DEF Unlinks
<1>2. /\ Partition(ElementsIn(fs), ElementsIn(K), Hands(L), element_count) /\ Holds(next, pc[t], loc[t], L[t])
      /\ IsList(next, dequeue.ptr, K) /\ enqueue.ptr \in ElementsIn(K)
  BY DEF Shape, Places, Lists
<1>a. pc[t] \notin HandLabels \cup {"deq_free"} /\ "deq_free" \notin HandLabels
  BY <1>1 DEF HandLabels, TakenLabels, ReadyLabels, LinkLabels
<1>b. ElementsIn(L[t]) = {} /\ ElementsIn(s) = {dequeue.ptr}
  BY <1>2, <1>a, HoldsFacts, ShortSequences
<1>3. Hands(L)[t] = {} /\ Hands(Put(L, t, s))[t] = {dequeue.ptr}
      /\ \A u \in Threads : u # t => Hands(Put(L, t, s))[u] = Hands(L)[u]
  BY <1>b DEF Put, Hands
<1>4. Holds(next, "deq_free", loc[t], s)
  BY <1>1 DEF Holds, TakenLabels, ReadyLabels, LinkLabels, HandLabels
<1>5. IsList(next, dequeue'.ptr, Z) /\ ElementsIn(Z) = ElementsIn(K) \ {dequeue.ptr}
  BY <1>1, <1>2, TailList, SMT
<1>6. dequeue.ptr \in ElementsIn(K)
  BY <1>2, ListFacts
<1>7. Partition(ElementsIn(fs'), ElementsIn(Z), Hands(Put(L, t, s)), element_count')
  BY <1>1, <1>2, <1>3, <1>5, <1>6, FromQueue, SMT
<1>8. pc[t] \notin ReadyLabels /\ "deq_free" \notin ReadyLabels
  BY <1>a DEF HandLabels
<1>9. /\ enqueue'.ptr \in ElementsIn(Z) /\ 1..element_count \subseteq 1..element_count'
      /\ \A e \in ElementsIn(K) : e \in ElementsIn(Z) \/ next[e].ptr # NULL
  BY <1>1, <1>2, <1>5
<1>10. Shape(Z, Put(L, t, s))'
  BY <1>1, <1>4, <1>5, <1>7, <1>8, <1>9, HandChanges
<1>11. QED
  BY <1>1, <1>10 DEF FreeOnce

(* freelist_push. *)
LEMMA FreesShape ==
  ASSUME TypeOK, FreeOnce, NEW K, NEW L, Shape(K, L), NEW t \in Threads, NEW r, Frees(t, r)
  PROVE  FreeOnce' /\ Shape(K, Put(L, t, <<>>))'
<1> DEFINE e == loc[t].dequeue.ptr
<1>1. /\ Moves(t, "idle", r) /\ pc[t] = "deq_free" /\ fs' = Append(fs, e) /\ element_count' = element_count
      /\ enqueue' = enqueue /\ dequeue' = dequeue /\ next' = next
  BY DEF Frees
<1>2. /\ Partition(ElementsIn(fs), ElementsIn(K), Hands(L), element_count) /\ Holds(next, pc[t], loc[t], L[t])
      /\ IsList(next, dequeue.ptr, K) /\ enqueue.ptr \in ElementsIn(K)
  BY DEF Shape, Places, Lists
<1>b. ElementsIn(L[t]) = {e} /\ ElementsIn(<<>>) = {}
  BY <1>1, <1>2, HoldsFacts, ShortSequences, SMT
<1>3. Hands(L)[t] = {e} /\ Hands(Put(L, t, <<>>))[t] = {}
      /\ \A u \in Threads : u # t => Hands(Put(L, t, <<>>))[u] = Hands(L)[u]
  BY <1>b DEF Put, Hands
<1>4. Holds(next, "idle", r, <<>>)
  BY DEF Holds, TakenLabels, ReadyLabels, LinkLabels, HandLabels
<1> HIDE DEF e
<1>5. e \in Elements /\ e \notin ElementsIn(fs)
  <2>1. Hands(L)[t] \cap ElementsIn(fs) = {} /\ Hands(L)[t] \subseteq 1..element_count
    BY <1>2 DEF Partition
  <2>2. QED
    BY <1>3, <2>1, TypeFacts
<1>c. Gets(fs, e, fs')
  BY <1>1, <1>5, TypeFacts DEF Gets, FreeOnce, NoRepeat
<1>6. NoRepeat(fs') /\ ElementsIn(fs') = ElementsIn(fs) \cup {e}
  BY <1>c, FreeGets
<1>7. Partition(ElementsIn(fs'), ElementsIn(K), Hands(Put(L, t, <<>>)), element_count')
  <2>1. Partition(ElementsIn(fs) \cup Hands(L)[t], ElementsIn(K), Hands(Put(L, t, <<>>)), element_count)
    BY <1>2, <1>3, ToFreeOrQueue
  <2>2. QED
    BY <1>1, <1>3, <1>6, <2>1
<1>8. pc[t] \notin ReadyLabels /\ "idle" \notin ReadyLabels
  BY <1>1 DEF ReadyLabels, LinkLabels
<1>9. Shape(K, Put(L, t, <<>>))'
  BY <1>1, <1>2, <1>4, <1>7, <1>8, HandChanges
<1>10. QED
  BY <1>6, <1>9 DEF FreeOnce, NoRepeat

(* The next pointer is cleared. *)
LEMMA ClearsShape ==
  ASSUME TypeOK, NEW K, NEW L, Shape(K, L), NEW t \in Threads, Clears(t)
  PROVE  Shape(K, L)'
<1> DEFINE e == loc[t].qe.ptr
<1>1. /\ Moves(t, "init_next_count", loc[t]) /\ pc[t] = "init_next_ptr"
      /\ next'[e].ptr = NULL /\ \A f \in Elements : f # e => next'[f].ptr = next[f].ptr
      /\ enqueue' = enqueue /\ dequeue' = dequeue /\ fs' = fs /\ element_count' = element_count
  BY DEF Clears
<1>2. /\ pc[t] \in TakenLabels \ ReadyLabels
      /\ "init_next_count" \in ReadyLabels \ (LinkLabels \cup TakenLabels \cup {"deq_free"})
  BY <1>1 DEF TakenLabels, ReadyLabels, LinkLabels
<1>3. pc'[t] = "init_next_count" /\ loc'[t] = loc[t] /\ \A u \in Threads : u # t => pc'[u] = pc[u] /\ loc'[u] = loc[u]
  BY <1>1, MovesFacts
<1>4. /\ IsList(next, dequeue.ptr, K) /\ enqueue.ptr \in ElementsIn(K) /\ ElementsIn(K) \subseteq Elements
      /\ \A u \in Threads : ElementsIn(L[u]) \subseteq Elements /\ ElementsIn(L[u]) \cap ElementsIn(K) = {}
      /\ \A u \in Threads : u # t => ElementsIn(L[t]) \cap ElementsIn(L[u]) = {}
      /\ L[t] = <<e>>
  BY <1>2, ShapeFacts, SMT DEF Holds
<1>5. ElementsIn(L[t]) = {e}
  BY <1>4, ShortSequences
<1> HIDE DEF e
<1>7. IsList(next', e, L[t])
  BY <1>1, <1>4, <1>5, SingleList, SMT
<1>8. \A u \in Threads : u # t => Holds(next', pc'[u], loc'[u], L[u])
  BY <1>1, <1>4, <1>5, OthersHold
<1>9. Holds(next', pc'[t], loc'[t], L[t])
  BY <1>2, <1>3, <1>7 DEF Holds, HandLabels, e
<1>10. Lists(K, L)'
  BY <1>1, <1>4, <1>5, <1>8, <1>9, SameList DEF Lists
<1>11. Places(K, L)'
  BY <1>1 DEF Shape, Places, Hands
<1>12. Tails(K, L)'
  <2>1. \A f \in 1..element_count : Ends(next, pc, f, K, L) => Ends(next', pc', f, K, L)
    BY <1>1, <1>2, <1>3, <1>5, TypeFacts DEF Ends
  <2>2. QED
    BY <1>1, <1>2, <2>1, TailsStay
<1>13. Acyclic(Edges(pc', loc', L))
  <2>1. /\ \A b \in Threads : <<t, b>> \notin Edges(pc', loc', L)
        /\ \A a, b \in Threads : <<a, b>> \in Edges(pc', loc', L) => <<a, b>> \in Edges(pc, loc, L) \/ b = t
    BY <1>2, <1>3, SMT DEF Edges
  <2>2. Acyclic(Edges(pc, loc, L))
    BY DEF Shape
  <2>3. QED
    BY <2>1, <2>2, EdgesToSink
<1>14. QED
  BY <1>10, <1>11, <1>12, <1>13 DEF Shape, Acyclic

(* An element is linked to the end of the queue, or of a list that hangs   *)
(* on the element of thread w.                                             *)
Joins(t, K, L, K2, L2) ==
    LET tail == loc[t].enqueue.ptr
    IN  \/ tail \in ElementsIn(K) /\ K2 = K \o L[t] /\ L2 = Put(L, t, <<>>)
        \/ \E w \in Threads \ {t} : /\ pc[w] \in ReadyLabels /\ tail \in ElementsIn(L[w]) /\ K2 = K
                                    /\ L2 = Put(Put(L, t, <<>>), w, L[w] \o L[t])

(* The element that an enqueue links to is the end of one of the lists. *)
LEMMA LinksJoins ==
  ASSUME TypeOK, NEW K, NEW L, Shape(K, L), NEW t \in Threads, NEW r, Links(t, r)
  PROVE  \E K2, L2 : Joins(t, K, L, K2, L2)
<1> DEFINE tail == loc[t].enqueue.ptr
<1>1. pc[t] = "enq_link" /\ next[tail].ptr = NULL
  BY DEF Links, LinksTo
<1>2. pc[t] \in LinkLabels
  BY <1>1 DEF LinkLabels
<1>3. tail \in ElementsIn(K) \/ \E w \in Threads : pc[w] \in ReadyLabels /\ tail \in ElementsIn(L[w])
  BY <1>1, <1>2 DEF Shape, Tails, Ends
<1>4. ASSUME NEW w \in Threads, pc[w] \in ReadyLabels, tail \in ElementsIn(L[w]) PROVE w # t
  <2>1. <<t, t>> \notin Edges(pc, loc, L)
    BY NoLoop DEF Shape
  <2>2. QED
    BY <1>2, <1>4, <2>1 DEF Edges
<1>5. CASE tail \in ElementsIn(K)
  <2>1. Joins(t, K, L, K \o L[t], Put(L, t, <<>>))
    BY <1>5 DEF Joins
  <2>2. QED
    BY <2>1
<1>6. CASE \E w \in Threads : pc[w] \in ReadyLabels /\ tail \in ElementsIn(L[w])
  <2>1. PICK w \in Threads : pc[w] \in ReadyLabels /\ tail \in ElementsIn(L[w])
    BY <1>6
  <2>2. w \in Threads \ {t}
    BY <1>4, <2>1
  <2>3. Joins(t, K, L, K, Put(Put(L, t, <<>>), w, L[w] \o L[t]))
    BY <2>1, <2>2 DEF Joins
  <2>4. QED
    BY <2>3
<1>7. QED
  BY <1>3, <1>5, <1>6

(* The elements of t join the ones of another list. *)
Joined(t, K, L, K2, L2) ==
    /\ ElementsIn(K) \subseteq ElementsIn(K2) /\ \A u \in Threads : u # t => ElementsIn(L[u]) \subseteq ElementsIn(L2[u])
    /\ \/ ElementsIn(L[t]) \subseteq ElementsIn(K2)
       \/ \E w \in Threads : w # t /\ pc[w] \in ReadyLabels /\ ElementsIn(L[t]) \subseteq ElementsIn(L2[w])

(* The shape, once the lists are known to be lists. *)
LEMMA JoinedShape ==
  ASSUME TypeOK, NEW K, NEW L, Shape(K, L), NEW t \in Threads, NEW r, Links(t, r), NEW K2, NEW L2,
         Lists(K2, L2)', Partition(ElementsIn(fs), ElementsIn(K2), Hands(L2), element_count),
         Joined(t, K, L, K2, L2), Acyclic(Edges(pc', loc', L2))
  PROVE  Shape(K2, L2)'
<1> DEFINE tail == loc[t].enqueue.ptr
<1>1. /\ Moves(t, "enq_swing", r) /\ next'[tail].ptr = loc[t].qe.ptr
      /\ \A f \in Elements : f # tail => next'[f].ptr = next[f].ptr
      /\ fs' = fs /\ element_count' = element_count /\ pc[t] = "enq_link"
  BY DEF Links, LinksTo
<1>2. /\ pc'[t] = "enq_swing" /\ \A u \in Threads : u # t => pc'[u] = pc[u]
      /\ "enq_swing" \notin ReadyLabels \cup LinkLabels /\ pc[t] \in ReadyLabels
  BY <1>1, MovesFacts DEF ReadyLabels, LinkLabels
<1>3. loc[t].qe.ptr # NULL
  <2>1. IsList(next, loc[t].qe.ptr, L[t])
    BY <1>2, ShapeFacts DEF Holds
  <2>2. loc[t].qe.ptr \in ElementsIn(L[t]) /\ ElementsIn(L[t]) \subseteq Elements
    BY <2>1, ListFacts
  <2>3. loc[t].qe.ptr \in Elements
    BY <2>2
  <2>4. QED
    BY <2>3, SMT DEF Elements, NULL
<1>4. Tails(K2, L2)'
  <2>1. \A e \in 1..element_count : Ends(next, pc, e, K, L) => Ends(next', pc', e, K2, L2)
    <3>1. SUFFICES ASSUME NEW e \in 1..element_count, Ends(next, pc, e, K, L) PROVE Ends(next', pc', e, K2, L2)
      OBVIOUS
    <3>2. CASE next[e].ptr # NULL
      BY <1>1, <1>3, <3>2, TypeFacts DEF Ends
    <3>3. CASE e \in ElementsIn(K)
      BY <3>3 DEF Ends, Joined
    <3>4. CASE \E u \in Threads : pc[u] \in ReadyLabels /\ e \in ElementsIn(L[u])
      BY <1>2, <3>4 DEF Ends, Joined
    <3>5. QED
      BY <3>1, <3>2, <3>3, <3>4 DEF Ends
  <2>2. QED
    BY <1>1, <1>2, <2>1, TailsStay
<1>5. Places(K2, L2)'
  BY <1>1 DEF Places, Hands
<1>6. QED
  BY <1>4, <1>5 DEF Shape, Acyclic, Edges

(* The dcas on the next pointer. *)
LEMMA LinksShape ==
  ASSUME TypeOK, NEW K, NEW L, Shape(K, L), NEW t \in Threads, NEW r, Links(t, r),
         NEW K2, NEW L2, Joins(t, K, L, K2, L2)
  PROVE  Shape(K2, L2)'
<1> DEFINE tail == loc[t].enqueue.ptr
           qe == loc[t].qe.ptr
<1>1. /\ Moves(t, "enq_swing", r) /\ pc[t] = "enq_link" /\ next[tail].ptr = NULL /\ next'[tail].ptr = qe
      /\ \A f \in Elements : f # tail => next'[f].ptr = next[f].ptr
      /\ enqueue' = enqueue /\ dequeue' = dequeue
  BY DEF Links, LinksTo
<1>2. pc[t] \in ReadyLabels /\ pc[t] \in LinkLabels /\ "enq_swing" \notin HandLabels \cup LinkLabels \cup {"deq_free"}
  BY <1>1 DEF TakenLabels, ReadyLabels, LinkLabels, HandLabels
<1>3. pc'[t] = "enq_swing" /\ \A u \in Threads : u # t => pc'[u] = pc[u] /\ loc'[u] = loc[u]
  BY <1>1, MovesFacts
<1>4. /\ IsList(next, dequeue.ptr, K) /\ enqueue.ptr \in ElementsIn(K) /\ ElementsIn(K) \subseteq Elements
      /\ \A u \in Threads : ElementsIn(L[u]) \subseteq Elements /\ ElementsIn(L[u]) \cap ElementsIn(K) = {}
      /\ \A u, v \in Threads : u # v => ElementsIn(L[u]) \cap ElementsIn(L[v]) = {}
      /\ \A u \in Threads : Holds(next, pc[u], loc[u], L[u])
  BY ShapeFacts
<1>5. IsList(next, qe, L[t])
  BY <1>2, <1>4 DEF Holds
<1>6. /\ Partition(ElementsIn(fs), ElementsIn(K), Hands(L), element_count) /\ Acyclic(Edges(pc, loc, L))
      /\ ElementsIn(<<>>) = {} /\ \A l2 : Holds(next', "enq_swing", l2, <<>>)
  BY <1>2, ShortSequences DEF Shape, Places, Holds, HandLabels
<1>7. ASSUME NEW u \in Threads, u # t, tail \notin ElementsIn(L[u]) PROVE Holds(next', pc'[u], loc'[u], L[u])
  BY <1>1, <1>4, <1>7, OthersHold
<1>a. LinksTo(next, next', tail, qe)
  BY <1>1 DEF LinksTo
<1> HIDE DEF tail, qe
<1>8. CASE tail \in ElementsIn(K) /\ K2 = K \o L[t] /\ L2 = Put(L, t, <<>>)
  <2>1. IsList(next', dequeue.ptr, K2) /\ ElementsIn(K2) = ElementsIn(K) \cup ElementsIn(L[t])
    <3>1. ElementsIn(K) \cap ElementsIn(L[t]) = {}
      BY <1>4
    <3>2. IsConcat(K, L[t], K2)
      BY <1>8 DEF IsConcat
    <3>3. QED
      BY <1>4, <1>5, <1>8, <1>a, <3>1, <3>2, JoinedList, SMT
  <2>2. L2[t] = <<>> /\ \A u \in Threads : u # t => L2[u] = L[u]
    BY <1>8 DEF Put
  <2>3. \A u \in Threads : u # t => tail \notin ElementsIn(L[u])
    BY <1>4, <1>8
  <2>4. Lists(K2, L2)'
    <3>1. \A u \in Threads : Holds(next', pc'[u], loc'[u], L2[u])
      BY <1>3, <1>6, <1>7, <2>2, <2>3
    <3>2. enqueue.ptr \in ElementsIn(K2)
      BY <1>4, <2>1
    <3>3. QED
      BY <1>1, <2>1, <3>1, <3>2 DEF Lists
  <2>5. Partition(ElementsIn(fs), ElementsIn(K2), Hands(L2), element_count)
    <3>1. Hands(L2)[t] = {} /\ Hands(L)[t] = ElementsIn(L[t]) /\ \A u \in Threads : u # t => Hands(L2)[u] = Hands(L)[u]
      BY <1>6, <2>2 DEF Hands
    <3>2. Partition(ElementsIn(fs), ElementsIn(K) \cup Hands(L)[t], Hands(L2), element_count)
      BY <1>6, <3>1, ToFreeOrQueue
    <3>3. QED
      BY <2>1, <3>1, <3>2
  <2>6. \A a, b \in Threads : <<a, b>> \in Edges(pc', loc', L2) => <<a, b>> \in Edges(pc, loc, L)
    BY <1>2, <1>3, <2>2, SMT DEF Edges, HandLabels
  <2>7. Acyclic(Edges(pc', loc', L2))
    BY <1>6, <2>6, FewerEdges
  <2>8. Joined(t, K, L, K2, L2)
    BY <2>1, <2>2 DEF Joined
  <2>9. QED
    BY <2>4, <2>5, <2>7, <2>8, JoinedShape
<1>9. CASE \E w \in Threads \ {t} : /\ pc[w] \in ReadyLabels /\ tail \in ElementsIn(L[w]) /\ K2 = K
                                    /\ L2 = Put(Put(L, t, <<>>), w, L[w] \o L[t])
  <2>1. PICK w \in Threads \ {t} : /\ pc[w] \in ReadyLabels /\ tail \in ElementsIn(L[w]) /\ K2 = K
                                   /\ L2 = Put(Put(L, t, <<>>), w, L[w] \o L[t])
    BY <1>9
  <2>2. L2[t] = <<>> /\ L2[w] = L[w] \o L[t] /\ \A u \in Threads : u # t /\ u # w => L2[u] = L[u]
    BY <2>1 DEF Put
  <2>3. IsList(next', loc[w].qe.ptr, L2[w]) /\ ElementsIn(L2[w]) = ElementsIn(L[w]) \cup ElementsIn(L[t])
    <3>1. IsList(next, loc[w].qe.ptr, L[w]) /\ ElementsIn(L[w]) \cap ElementsIn(L[t]) = {}
      BY <1>4, <2>1 DEF Holds
    <3>2. IsConcat(L[w], L[t], L2[w])
      BY <2>2 DEF IsConcat
    <3>3. QED
      BY <1>5, <1>a, <2>1, <3>1, <3>2, JoinedList, SMT
  <2>4. tail \notin ElementsIn(K) /\ \A u \in Threads : u # w => tail \notin ElementsIn(L[u])
    BY <1>4, <2>1
  <2>5. Lists(K2, L2)'
    <3>1. IsList(next', dequeue.ptr, K)
      BY <1>1, <1>4, <2>4, SameList
    <3>2. Holds(next', pc'[w], loc'[w], L2[w])
      BY <1>3, <2>1, <2>3 DEF Holds, ReadyLabels, LinkLabels, TakenLabels, HandLabels
    <3>3. \A u \in Threads : Holds(next', pc'[u], loc'[u], L2[u])
      BY <1>3, <1>6, <1>7, <2>2, <2>4, <3>2
    <3>4. QED
      BY <1>1, <1>4, <2>1, <3>1, <3>3 DEF Lists
  <2>6. Partition(ElementsIn(fs), ElementsIn(K2), Hands(L2), element_count)
    <3>1. /\ Hands(L2)[t] = {} /\ Hands(L2)[w] = Hands(L)[w] \cup Hands(L)[t]
          /\ \A u \in Threads \ {t, w} : Hands(L2)[u] = Hands(L)[u]
      BY <1>6, <2>1, <2>2, <2>3 DEF Hands
    <3>2. w \in Threads /\ w # t
      BY <2>1
    <3>3. Partition(ElementsIn(fs), ElementsIn(K), Hands(L2), element_count)
      BY <1>6, <3>1, <3>2, ToThread
    <3>4. QED
      BY <2>1, <3>3
  <2>7. Acyclic(Edges(pc', loc', L2))
    <3>1. <<t, w>> \in Edges(pc, loc, L)
      BY <1>2, <2>1 DEF Edges, tail
    <3>2. ASSUME NEW a \in Threads, NEW b \in Threads, <<a, b>> \in Edges(pc', loc', L2)
          PROVE  a # t /\ b # t /\ (<<a, b>> \in Edges(pc, loc, L) \/ (b = w /\ <<a, t>> \in Edges(pc, loc, L)))
      <4>1. pc'[a] \in LinkLabels /\ pc'[b] \in ReadyLabels /\ loc'[a].enqueue.ptr \in ElementsIn(L2[b])
        BY <3>2 DEF Edges
      <4>2. a # t /\ b # t /\ pc[a] \in LinkLabels /\ pc[b] \in ReadyLabels /\ loc[a].enqueue.ptr \in ElementsIn(L2[b])
        BY <1>2, <1>3, <4>1 DEF HandLabels
      <4>3. loc[a].enqueue.ptr \in ElementsIn(L[b]) \/ (b = w /\ loc[a].enqueue.ptr \in ElementsIn(L[t]))
        BY <2>2, <2>3, <4>2
      <4>4. QED
        BY <1>2, <4>2, <4>3 DEF Edges
    <3>3. Acyclic(Edges(pc, loc, L)) /\ w \in Threads
      BY <1>6
    <3>4. Contracts(Edges(pc, loc, L), Edges(pc', loc', L2), t, w)
      BY <3>1, <3>2 DEF Contracts
    <3>5. QED
      BY <3>3, <3>4, EdgesContracted
  <2>8. Joined(t, K, L, K2, L2)
    BY <2>1, <2>2, <2>3 DEF Joined
  <2>9. QED
    BY <2>5, <2>6, <2>7, <2>8, JoinedShape
<1>10. QED
  BY <1>8, <1>9 DEF Joins, tail

-----------------------------------------------------------------------------
(* What the steps of the other threads leave of the locals of a thread *)

(* What a step may do to qs->enqueue, qs->dequeue and the words they lead  *)
(* to.                                                                     *)
Onward(enq, deq, nx, dt, enq2, deq2, nx2, dt2) ==
    /\ enq2 = enq \/ enq2.cnt > enq.cnt
    /\ deq2 = deq \/ deq2.cnt > deq.cnt
    /\ nx[enq.ptr].ptr # NULL => nx2[enq.ptr].ptr = nx[enq.ptr].ptr
    /\ nx[deq.ptr].ptr # NULL => nx2[deq.ptr].ptr = nx[deq.ptr].ptr /\ dt2[nx[deq.ptr].ptr] = dt[nx[deq.ptr].ptr]
    /\ enq.ptr # deq.ptr => nx[deq.ptr].ptr # NULL
    /\ enq.ptr # deq.ptr /\ deq2 = deq => enq2.ptr # deq.ptr

(* They still agree. *)
LEMMA StillAgrees ==
  ASSUME NEW l, NEW r \in Locals, NEW enq \in Pacs, NEW deq \in Pacs, NEW nx, NEW dt,
         NEW enq2 \in Pacs, NEW deq2 \in Pacs, NEW nx2, NEW dt2,
         Onward(enq, deq, nx, dt, enq2, deq2, nx2, dt2),
         EnqueueAgrees(l, r, enq, nx), DequeueAgrees(l, r, enq, deq, nx, dt)
  PROVE  EnqueueAgrees(l, r, enq2, nx2) /\ DequeueAgrees(l, r, enq2, deq2, nx2, dt2)
<1>1. /\ r.enqueue.cnt \in Nat /\ r.dequeue.cnt \in Nat
      /\ enq.cnt \in Nat /\ enq2.cnt \in Nat /\ deq.cnt \in Nat /\ deq2.cnt \in Nat
  BY LocalsFields DEF Pacs, Pac
<1>2. /\ enq2 = enq \/ enq2.cnt > enq.cnt
      /\ deq2 = deq \/ deq2.cnt > deq.cnt
      /\ nx[enq.ptr].ptr # NULL => nx2[enq.ptr].ptr = nx[enq.ptr].ptr
      /\ nx[deq.ptr].ptr # NULL => nx2[deq.ptr].ptr = nx[deq.ptr].ptr /\ dt2[nx[deq.ptr].ptr] = dt[nx[deq.ptr].ptr]
      /\ enq.ptr # deq.ptr => nx[deq.ptr].ptr # NULL
      /\ enq.ptr # deq.ptr /\ deq2 = deq => enq2.ptr # deq.ptr
  BY DEF Onward
<1>3. /\ r.enqueue.cnt <= enq.cnt => r.enqueue.cnt <= enq2.cnt
      /\ r.enqueue.cnt <= enq.cnt /\ r.enqueue = enq2 => enq2 = enq
      /\ r.dequeue.cnt <= deq.cnt => r.dequeue.cnt <= deq2.cnt
      /\ r.dequeue.cnt <= deq.cnt /\ r.dequeue = deq2 => deq2 = deq
      /\ r.dequeue.cnt <= deq.cnt /\ r.dequeue.cnt = deq2.cnt => deq2 = deq
  BY <1>1, <1>2, SMT
<1>4. EnqueueAgrees(l, r, enq2, nx2)
  BY <1>2, <1>3 DEF EnqueueAgrees, LinkLabels
<1>5. DequeueAgrees(l, r, enq2, deq2, nx2, dt2)
  <2>1. /\ l \in DequeueLabels \ {"deq_ptr"} => r.dequeue.ptr # NULL
        /\ l \in DequeueLabels \ {"deq_ptr", "deq_cnt"} => r.dequeue.cnt <= deq2.cnt
        /\ l \in {"deq_next_ptr", "deq_check_ptr", "deq_check_cnt", "deq_help"} => r.enqueue.cnt <= enq2.cnt
        /\ l = "deq_help" => /\ r.next.ptr # NULL /\ r.next.cnt = CounterPlusOne(r.enqueue.cnt)
                             /\ r.dequeue.ptr = r.enqueue.ptr
        /\ l \in {"deq_data", "deq_dcas"} => /\ r.next.ptr # NULL /\ r.next.cnt = CounterPlusOne(r.dequeue.cnt)
                                             /\ r.dequeue.ptr # r.enqueue.ptr
    BY <1>3 DEF DequeueAgrees
  <2>2. l \in DequeueLabels \ {"deq_ptr", "deq_cnt", "deq_enq_ptr"} =>
           (r.dequeue = deq2 /\ r.enqueue.ptr # deq2.ptr => deq2 = deq /\ enq.ptr # deq.ptr /\ enq2.ptr # deq2.ptr)
    BY <1>2, <1>3 DEF DequeueAgrees, DequeueLabels
  <2>3. l \in {"deq_check_ptr", "deq_check_cnt", "deq_data", "deq_dcas"} =>
           (r.dequeue = deq2 /\ r.enqueue.ptr # deq2.ptr => r.next.ptr = nx[deq.ptr].ptr /\ r.next.ptr = nx2[deq2.ptr].ptr)
    BY <1>2, <2>2 DEF DequeueAgrees, DequeueLabels
  <2>4. l \in {"deq_check_ptr", "deq_check_cnt", "deq_help"} =>
           (r.enqueue = enq2 /\ r.dequeue.ptr = enq2.ptr /\ r.next.ptr # NULL => r.next.ptr = nx2[enq2.ptr].ptr)
    BY <1>2, <1>3 DEF DequeueAgrees
  <2>5. l = "deq_check_cnt" => (r.dequeue.cnt = deq2.cnt => r.dequeue.ptr = deq2.ptr)
    BY <1>3 DEF DequeueAgrees, DequeueLabels
  <2>6. l = "deq_dcas" => (r.dequeue = deq2 => r.data = dt2[r.next.ptr])
    <3>1. SUFFICES ASSUME l = "deq_dcas", r.dequeue = deq2 PROVE r.data = dt2[r.next.ptr]
      OBVIOUS
    <3>2. deq2 = deq /\ r.next.ptr = nx[deq.ptr].ptr /\ r.next.ptr # NULL
      BY <2>1, <2>2, <2>3, <3>1 DEF DequeueLabels
    <3>3. r.data = dt[r.next.ptr]
      BY <3>1, <3>2 DEF DequeueAgrees
    <3>4. QED
      BY <1>2, <3>2, <3>3
  <2>7. QED
    BY <2>1, <2>2, <2>3, <2>4, <2>5, <2>6 DEF DequeueAgrees
<1>6. QED
  BY <1>4, <1>5

(* The locals of every thread agree after a step that only goes onward. *)
LEMMA MovesAgree ==
  ASSUME TypeOK, LocalsAgree, NEW t \in Threads, NEW l, NEW r, Moves(t, l, r),
         Onward(enqueue, dequeue, next, data, enqueue', dequeue', next', data')
  PROVE  LocalsAgree'
<1>1. SUFFICES ASSUME NEW u \in Threads
               PROVE  /\ EnqueueAgrees(pc'[u], loc'[u], enqueue', next')
                      /\ DequeueAgrees(pc'[u], loc'[u], enqueue', dequeue', next', data')
  BY DEF LocalsAgree, EnqueueAgrees, DequeueAgrees
<1>2. CASE u = t
  BY <1>2, MovesFacts DEF Moves
<1>3. CASE u # t
  <2>1. pc'[u] = pc[u] /\ loc'[u] = loc[u]
    BY <1>3, MovesFacts
  <2>2. loc[u] \in Locals /\ enqueue \in Pacs /\ dequeue \in Pacs
    BY TypeFacts
  <2>3. enqueue' \in Pacs /\ dequeue' \in Pacs
    BY DEF Moves
  <2>4. EnqueueAgrees(pc[u], loc[u], enqueue, next) /\ DequeueAgrees(pc[u], loc[u], enqueue, dequeue, next, data)
    BY DEF LocalsAgree
  <2>5. QED
    BY <2>1, <2>2, <2>3, <2>4, StillAgrees
<1>4. QED
  BY <1>2, <1>3

(* The pointers that lead from the lists into the lists. *)
LEMMA ShapePointers ==
  ASSUME TypeOK, NEW K, NEW L, Shape(K, L)
  PROVE  /\ enqueue.ptr \in ElementsIn(K) /\ dequeue.ptr \in ElementsIn(K) /\ ElementsIn(K) \subseteq Elements
         /\ enqueue.ptr # dequeue.ptr => next[dequeue.ptr].ptr # NULL
         /\ next[enqueue.ptr].ptr # dequeue.ptr
         /\ \A e \in ElementsIn(K) : next[e].ptr # NULL => next[e].ptr \in ElementsIn(K)
         /\ \A t \in Threads : pc[t] \in HandLabels => loc[t].qe.ptr \in ElementsIn(L[t])
         /\ \A t \in Threads : ElementsIn(L[t]) \subseteq Elements /\ ElementsIn(L[t]) \cap ElementsIn(K) = {}
<1>1. /\ IsList(next, dequeue.ptr, K) /\ enqueue.ptr \in ElementsIn(K) /\ dequeue.ptr \in ElementsIn(K)
      /\ ElementsIn(K) \subseteq 1..element_count /\ 1..element_count \subseteq Elements
      /\ \A t \in Threads : ElementsIn(L[t]) \subseteq 1..element_count /\ ElementsIn(L[t]) \cap ElementsIn(K) = {}
      /\ \A t \in Threads : Holds(next, pc[t], loc[t], L[t])
  BY ShapeFacts
<1>2. /\ \A e \in ElementsIn(K) : next[e].ptr # NULL => next[e].ptr \in ElementsIn(K) /\ next[e].ptr # dequeue.ptr
      /\ \A e \in ElementsIn(K) : e # dequeue.ptr => next[dequeue.ptr].ptr # NULL
  BY <1>1, ListFacts
<1>3. dequeue.ptr # NULL
  BY <1>1, SMT DEF Elements, NULL
<1>4. ASSUME NEW t \in Threads, pc[t] \in HandLabels PROVE loc[t].qe.ptr \in ElementsIn(L[t])
  <2>1. CASE pc[t] \in TakenLabels
    <3>1. Holds(next, pc[t], loc[t], L[t])
      BY <1>1
    <3>2. ElementsIn(L[t]) = {loc[t].qe.ptr}
      BY <2>1, <3>1, HoldsFacts
    <3>3. QED
      BY <3>2
  <2>2. CASE pc[t] \in ReadyLabels
    <3>1. IsList(next, loc[t].qe.ptr, L[t])
      BY <1>1, <2>2 DEF Holds
    <3>2. QED
      BY <3>1, ListFacts
  <2>3. QED
    BY <1>4, <2>1, <2>2 DEF HandLabels
<1>5. \A t \in Threads : ElementsIn(L[t]) \subseteq Elements
  BY <1>1
<1>6. ElementsIn(K) \subseteq Elements
  BY <1>1
<1>7. next[enqueue.ptr].ptr # dequeue.ptr
  BY <1>1, <1>2, <1>3
<1>8. QED
  BY <1>1, <1>2, <1>4, <1>5, <1>6, <1>7

(* What leaves qs->enqueue alone or moves it to the next element, and      *)
(* leaves the pointers and the data behind the dummy alone.                *)
LEMMA GoesOnward ==
  ASSUME TypeOK, NEW K, NEW L, Shape(K, L),
         enqueue' = enqueue \/ (enqueue'.cnt = CounterPlusOne(enqueue.cnt) /\ enqueue'.ptr = next[enqueue.ptr].ptr),
         dequeue' = dequeue \/ dequeue'.cnt = CounterPlusOne(dequeue.cnt),
         \A e \in ElementsIn(K) : next[e].ptr # NULL => next'[e].ptr = next[e].ptr,
         \A e \in ElementsIn(K) : data'[e] = data[e]
  PROVE  Onward(enqueue, dequeue, next, data, enqueue', dequeue', next', data')
<1>1. enqueue.cnt \in Nat /\ dequeue.cnt \in Nat
  BY TypeFacts
<1>2. enqueue' = enqueue \/ enqueue'.cnt > enqueue.cnt
  BY <1>1, SMT DEF CounterPlusOne
<1>3. dequeue' = dequeue \/ dequeue'.cnt > dequeue.cnt
  BY <1>1, SMT DEF CounterPlusOne
<1>4. /\ enqueue.ptr \in ElementsIn(K) /\ dequeue.ptr \in ElementsIn(K)
      /\ enqueue.ptr # dequeue.ptr => next[dequeue.ptr].ptr # NULL
      /\ next[enqueue.ptr].ptr # dequeue.ptr
      /\ \A e \in ElementsIn(K) : next[e].ptr # NULL => next[e].ptr \in ElementsIn(K)
  BY ShapePointers
<1>5. enqueue.ptr # dequeue.ptr => enqueue'.ptr # dequeue.ptr
  BY <1>4
<1>6. QED
  BY <1>2, <1>3, <1>4, <1>5 DEF Onward

(* Every kind of step. *)
LEMMA EffectAgrees ==
  ASSUME TypeOK, LocalsAgree, NEW K, NEW L, Shape(K, L), NEW t \in Threads, Effect(t)
  PROVE  TypeOK' /\ LocalsAgree'
<1>1. /\ enqueue.ptr \in ElementsIn(K) /\ ElementsIn(K) \subseteq Elements
      /\ pc[t] \in HandLabels => loc[t].qe.ptr \notin ElementsIn(K) /\ loc[t].qe.ptr \in Elements
  BY ShapePointers
<1>2. SUFFICES ASSUME NEW l, NEW r, Moves(t, l, r)
               PROVE  Onward(enqueue, dequeue, next, data, enqueue', dequeue', next', data')
  <2>1. PICK l, r : Moves(t, l, r)
    BY DEF Effect, Still, Takes, Links, Frees, Clears, Unlinks
  <2>2. QED
    BY <1>2, <2>1, MovesFacts, MovesAgree
<1>3. ASSUME NEW k \in Labels, NEW q \in Locals, Still(t, k, q)
      PROVE  Onward(enqueue, dequeue, next, data, enqueue', dequeue', next', data')
  <2>1. /\ dequeue' = dequeue /\ \A e \in Elements : next'[e].ptr = next[e].ptr
        /\ enqueue' = enqueue \/ (enqueue'.cnt = CounterPlusOne(enqueue.cnt) /\ enqueue'.ptr = next[enqueue.ptr].ptr)
        /\ data' = data \/ (pc[t] = "init_data" /\ data' = [data EXCEPT ![loc[t].qe.ptr] = loc[t].data])
    BY <1>3 DEF Still
  <2>2. pc[t] = "init_data" => pc[t] \in HandLabels
    BY DEF HandLabels, ReadyLabels
  <2>3. data \in [Elements -> Items \cup {NoItem}]
    BY DEF TypeOK
  <2>4. \A e \in ElementsIn(K) : data'[e] = data[e]
    BY <1>1, <2>1, <2>2, <2>3
  <2>5. \A e \in ElementsIn(K) : next'[e].ptr = next[e].ptr
    BY <1>1, <2>1
  <2>6. QED
    BY <2>1, <2>4, <2>5, GoesOnward
<1>4. ASSUME NEW q \in Locals, Takes(t, q) \/ Frees(t, q)
      PROVE  Onward(enqueue, dequeue, next, data, enqueue', dequeue', next', data')
  <2>1. enqueue' = enqueue /\ dequeue' = dequeue /\ next' = next /\ data' = data
    BY <1>4 DEF Takes, Frees
  <2>2. QED
    BY <2>1, GoesOnward
<1>5. ASSUME NEW q \in Locals, Links(t, q)
      PROVE  Onward(enqueue, dequeue, next, data, enqueue', dequeue', next', data')
  <2>1. /\ enqueue' = enqueue /\ dequeue' = dequeue /\ data' = data
        /\ \A e \in Elements : next[e].ptr # NULL => next'[e].ptr = next[e].ptr
    BY <1>5 DEF Links, LinksTo
  <2>2. QED
    BY <1>1, <2>1, GoesOnward
<1>6. ASSUME Clears(t)
      PROVE  Onward(enqueue, dequeue, next, data, enqueue', dequeue', next', data')
  <2>1. /\ enqueue' = enqueue /\ dequeue' = dequeue /\ data' = data /\ pc[t] = "init_next_ptr"
        /\ \A e \in Elements : e # loc[t].qe.ptr => next'[e].ptr = next[e].ptr
    BY <1>6 DEF Clears
  <2>2. pc[t] \in HandLabels
    BY <2>1 DEF HandLabels, TakenLabels
  <2>3. QED
    BY <1>1, <2>1, <2>2, GoesOnward
<1>7. ASSUME Unlinks(t)
      PROVE  Onward(enqueue, dequeue, next, data, enqueue', dequeue', next', data')
  <2>1. enqueue' = enqueue /\ dequeue'.cnt = CounterPlusOne(dequeue.cnt) /\ next' = next /\ data' = data
    BY <1>7 DEF Unlinks
  <2>2. QED
    BY <2>1, GoesOnward
<1>8. QED
  BY <1>3, <1>4, <1>5, <1>6, <1>7 DEF Effect

-----------------------------------------------------------------------------
(* The items *)

(* An item is the thread and the number of a call. *)
LEMMA ItemFields ==
  /\ NoItem \notin Items
  /\ \A x \in Items : x[1] \in Threads /\ x[2] \in Nat
<1>1. ASSUME NEW x \in Items PROVE x # NoItem /\ x[1] \in Threads /\ x[2] \in Nat
  <2>a. PICK s \in Scripts : x \in UNION {{u} \X (1..Len(s[u])) : u \in Threads}
    BY DEF Items
  <2>1. PICK u \in Threads : x \in {u} \X (1..Len(s[u]))
    BY <2>a
  <2>2. QED
    BY <2>1, SMT DEF NoItem
<1>2. QED
  BY <1>1

(* h is g with w behind what t has got. *)
Extends(g, h, t, w) ==
    /\ \A u \in Threads : u # t => h[u] = g[u]
    /\ Len(g[t]) \in Nat /\ Len(w) \in Nat /\ Len(h[t]) = Len(g[t]) + Len(w)
    /\ \A i \in 1..Len(g[t]) : h[t][i] = g[t][i]
    /\ \A j \in 1..Len(w) : h[t][Len(g[t]) + j] = w[j]

(* Items that were not returned before are returned once. *)
LEMMA GivenMore ==
  ASSUME NEW g, NEW h, NEW t \in Threads, NEW w, Extends(g, h, t, w), GivenOnce(g),
         \A i, j \in 1..Len(w) : w[i] # NoItem /\ w[i] = w[j] => i = j,
         \A i \in 1..Len(w) : w[i] = NoItem \/ (w[i] \in Items /\ w[i] \notin Given(g))
  PROVE  GivenOnce(h) /\ Given(h) = Given(g) \cup (ElementsIn(w) \ {NoItem})
<1> DEFINE Old(u, i) == i \in 1..Len(g[u]) /\ h[u][i] = g[u][i]
           New(u, i) == u = t /\ \E a \in 1..Len(w) : i = Len(g[t]) + a /\ h[u][i] = w[a]
<1>1. ASSUME NEW u \in Threads, NEW i \in 1..Len(h[u]) PROVE Old(u, i) \/ New(u, i)
  <2>1. CASE u # t
    BY <1>1, <2>1 DEF Extends
  <2>2. CASE u = t /\ i \in 1..Len(g[t])
    BY <2>2 DEF Extends
  <2>3. CASE u = t /\ i \notin 1..Len(g[t])
    <3>1. i - Len(g[t]) \in 1..Len(w) /\ i = Len(g[t]) + (i - Len(g[t]))
      BY <1>1, <2>3, SMT DEF Extends
    <3>2. PICK a \in 1..Len(w) : i = Len(g[t]) + a
      BY <3>1
    <3>3. QED
      BY <2>3, <3>2 DEF Extends
  <2>4. QED
    BY <2>1, <2>2, <2>3
<1>2. /\ \A u \in Threads : \A i \in 1..Len(g[u]) : i \in 1..Len(h[u]) /\ h[u][i] = g[u][i]
      /\ \A a \in 1..Len(w) : Len(g[t]) + a \in 1..Len(h[t]) /\ h[t][Len(g[t]) + a] = w[a]
  <2>1. \A i \in 1..Len(g[t]) : i \in 1..Len(h[t])
    BY SMT DEF Extends
  <2>2. \A a \in 1..Len(w) : Len(g[t]) + a \in 1..Len(h[t])
    BY SMT DEF Extends
  <2>3. QED
    BY <2>1, <2>2 DEF Extends
<1>3. ASSUME NEW u \in Threads, NEW i, Old(u, i), h[u][i] \in Items PROVE h[u][i] \in Given(g)
  BY <1>3 DEF Given
<1>4. ASSUME NEW u \in Threads, NEW v \in Threads, NEW i \in 1..Len(h[u]), NEW j \in 1..Len(h[v]),
             h[u][i] # NoItem, h[u][i] = h[v][j]
      PROVE  u = v /\ i = j
  <2>1. CASE Old(u, i) /\ Old(v, j)
    <3>1. i \in 1..Len(g[u]) /\ j \in 1..Len(g[v]) /\ g[u][i] # NoItem /\ g[u][i] = g[v][j]
      BY <1>4, <2>1
    <3>2. QED
      BY <3>1, SMT DEF GivenOnce
  <2>2. CASE New(u, i) /\ New(v, j)
    BY <1>4, <2>2
  <2>3. CASE Old(u, i) /\ New(v, j)
    <3>1. h[v][j] \in Items /\ h[v][j] \notin Given(g)
      BY <1>4, <2>3
    <3>2. QED
      BY <1>3, <1>4, <2>3, <3>1
  <2>4. CASE New(u, i) /\ Old(v, j)
    <3>1. h[u][i] \in Items /\ h[u][i] \notin Given(g)
      BY <1>4, <2>4
    <3>2. QED
      BY <1>3, <1>4, <2>4, <3>1
  <2>5. QED
    BY <1>1, <2>1, <2>2, <2>3, <2>4
<1>5. ASSUME NEW x \in Items PROVE x \in Given(h) <=> x \in Given(g) \/ x \in ElementsIn(w)
  <2>1. ASSUME x \in Given(h) PROVE x \in Given(g) \/ x \in ElementsIn(w)
    <3>a. PICK u \in Threads : \E i \in 1..Len(h[u]) : h[u][i] = x
      BY <2>1 DEF Given
    <3>1. PICK i \in 1..Len(h[u]) : h[u][i] = x
      BY <3>a
    <3>2. CASE Old(u, i)
      BY <1>3, <3>1, <3>2
    <3>3. CASE New(u, i)
      BY <3>1, <3>3 DEF ElementsIn
    <3>4. QED
      BY <1>1, <3>2, <3>3
  <2>2. ASSUME x \in Given(g) PROVE x \in Given(h)
    BY <1>2, <2>2, SMT DEF Given
  <2>3. ASSUME x \in ElementsIn(w) PROVE x \in Given(h)
    <3>1. PICK a \in 1..Len(w) : x = w[a]
      BY <2>3 DEF ElementsIn
    <3>2. \E i \in 1..Len(h[t]) : h[t][i] = x
      BY <1>2, <3>1
    <3>3. QED
      BY <3>2 DEF Given
  <2>4. QED
    BY <2>1, <2>2, <2>3
<1>6. Given(h) \subseteq Items /\ Given(g) \subseteq Items /\ ElementsIn(w) \ {NoItem} \subseteq Items
  BY DEF Given, ElementsIn
<1>7. Given(h) = Given(g) \cup (ElementsIn(w) \ {NoItem})
  BY <1>5, <1>6, ItemFields
<1>8. QED
  BY <1>4, <1>7, SMT DEF GivenOnce

(* An item is linked in a new element. *)
LEMMA ConservedLink ==
  ASSUME NEW C, NEW dt, NEW g, NEW lk, Conserved(C, dt, g, lk), NEW e, dt[e] \notin ElementsIn(lk),
         NEW lk2, ElementsIn(lk2) = ElementsIn(lk) \cup {dt[e]}
  PROVE  Conserved(C \cup {e}, dt, g, lk2)
<1>1. /\ \A f, h \in C : dt[f] = dt[h] => f = h
      /\ GivenOnce(g) /\ Given(g) \cap {dt[f] : f \in C} = {}
      /\ ElementsIn(lk) = Given(g) \cup {dt[f] : f \in C}
  BY DEF Conserved
<1>2. dt[e] \notin Given(g) /\ \A f \in C : dt[f] # dt[e]
  BY <1>1
<1>3. {dt[f] : f \in C \cup {e}} = {dt[f] : f \in C} \cup {dt[e]}
  OBVIOUS
<1>4. ElementsIn(lk2) = Given(g) \cup {dt[f] : f \in C \cup {e}}
  BY <1>1, <1>3
<1>5. Given(g) \cap {dt[f] : f \in C \cup {e}} = {}
  BY <1>1, <1>2, <1>3
<1>6. \A f, h \in C \cup {e} : dt[f] = dt[h] => f = h
  BY <1>1, <1>2
<1>7. QED
  BY <1>1, <1>4, <1>5, <1>6 DEF Conserved

(* The item of an element is returned. *)
LEMMA ConservedReturn ==
  ASSUME NEW C, NEW dt, NEW g, NEW lk, Conserved(C, dt, g, lk), NEW e \in C, NEW h, GivenOnce(h), Given(h) = Given(g) \cup {dt[e]}
  PROVE  Conserved(C \ {e}, dt, h, lk)
<1>1. /\ \A f, k \in C : dt[f] = dt[k] => f = k
      /\ Given(g) \cap {dt[f] : f \in C} = {}
      /\ ElementsIn(lk) = Given(g) \cup {dt[f] : f \in C}
  BY DEF Conserved
<1>2. {dt[f] : f \in C} = {dt[f] : f \in C \ {e}} \cup {dt[e]}
  OBVIOUS
<1>3. dt[e] \notin {dt[f] : f \in C \ {e}}
  BY <1>1
<1>4. ElementsIn(lk) = Given(h) \cup {dt[f] : f \in C \ {e}}
  BY <1>1, <1>2
<1>5. Given(h) \cap {dt[f] : f \in C \ {e}} = {}
  BY <1>1, <1>2, <1>3
<1>6. \A f, k \in C \ {e} : dt[f] = dt[k] => f = k
  BY <1>1
<1>7. QED
  BY <1>4, <1>5, <1>6 DEF Conserved

(* Nothing happens to the items. *)
LEMMA ConservedSame ==
  ASSUME NEW C, NEW dt, NEW g, NEW lk, Conserved(C, dt, g, lk), NEW dt2, NEW h, \A e \in C : dt2[e] = dt[e],
         GivenOnce(h), Given(h) = Given(g)
  PROVE  Conserved(C, dt2, h, lk)
<1>1. {dt2[e] : e \in C} = {dt[e] : e \in C}
  OBVIOUS
<1>2. QED
  BY <1>1 DEF Conserved

(* One thing is added to what thread t has got. *)
LEMMA GotOneMore ==
  ASSUME TypeOK, NEW t \in Threads, NEW x, got' = [got EXCEPT ![t] = Append(got[t], x)], GivenOnce(got),
         x = NoItem \/ (x \in Items /\ x \notin Given(got))
  PROVE  GivenOnce(got') /\ Given(got') = Given(got) \cup ({x} \ {NoItem})
<1>1. PICK w : w = <<x>>
  OBVIOUS
<1>2. Len(w) = 1 /\ w[1] = x /\ ElementsIn(w) = {x} /\ \A i \in 1..Len(w) : i = 1
  BY <1>1, SMT DEF ElementsIn
<1>3. Extends(got, got', t, w)
  <2>1. got \in [Threads -> Seq(Items \cup {NoItem})]
    BY DEF TypeOK
  <2>2. \A u \in Threads : u # t => got'[u] = got[u]
    BY <2>1
  <2>3. got[t] \in Seq(Items \cup {NoItem}) /\ got'[t] = Append(got[t], x) /\ x \in Items \cup {NoItem}
    BY <2>1
  <2>4. Len(got[t]) \in Nat /\ Len(got'[t]) = Len(got[t]) + 1 /\ \A i \in 1..Len(got[t]) : got'[t][i] = got[t][i]
    BY <2>3, SMT
  <2>5. \A j \in 1..Len(w) : got'[t][Len(got[t]) + j] = w[j]
    BY <1>2, <2>3, SMT
  <2>6. QED
    BY <1>2, <2>2, <2>4, <2>5, SMT DEF Extends
<1>4. /\ \A i, j \in 1..Len(w) : w[i] # NoItem /\ w[i] = w[j] => i = j
      /\ \A i \in 1..Len(w) : w[i] = NoItem \/ (w[i] \in Items /\ w[i] \notin Given(got))
  BY <1>2
<1>5. GivenOnce(got') /\ Given(got') = Given(got) \cup (ElementsIn(w) \ {NoItem})
  BY <1>3, <1>4, GivenMore
<1>6. QED
  BY <1>2, <1>5

(* The types of the calls and of the items linked. *)
LEMMA LinkedFacts ==
  ASSUME TypeOK
  PROVE  /\ \A u \in Threads : calls[u] \in Nat
         /\ linked \in Seq(Items) /\ Len(linked) \in Nat
         /\ \A i \in 1..Len(linked) : linked[i] \in Items /\ linked[i][1] \in Threads /\ linked[i][2] \in Nat
<1>1. calls \in [Threads -> Nat] /\ linked \in Seq(Items)
  BY DEF TypeOK
<1>2. \A i \in 1..Len(linked) : linked[i] \in Items
  BY <1>1, SMT
<1>3. QED
  BY <1>1, <1>2, ItemFields, SMT

(* The items of the enqueues stay new when nothing is linked. *)
LEMMA NewStays ==
  ASSUME TypeOK, ItemsAreNew, NEW t \in Threads, NEW l, NEW r, Moves(t, l, r), linked' = linked,
         \A u \in Threads : u # t => calls'[u] = calls[u],
         \/ calls'[t] = calls[t] /\ (l \in HandLabels => pc[t] \in HandLabels /\ r.data = loc[t].data)
         \/ calls'[t] = calls[t] + 1 /\ (l \in HandLabels => r.data = <<t, calls'[t]>>),
         \A u \in Threads : u # t /\ pc[u] \in LinkLabels \cup {"enq_ptr"} => data'[loc[u].qe.ptr] = data[loc[u].qe.ptr],
         l \in LinkLabels \cup {"enq_ptr"} => data'[r.qe.ptr] = r.data
  PROVE  ItemsAreNew'
<1>1. pc'[t] = l /\ loc'[t] = r /\ \A u \in Threads : u # t => pc'[u] = pc[u] /\ loc'[u] = loc[u]
  BY MovesFacts, SMT
<1>2. /\ \A i \in 1..Len(linked), u \in Threads : linked[i][1] = u =>
             linked[i][2] <= calls[u] /\ (pc[u] \in HandLabels => linked[i][2] < calls[u])
      /\ \A u \in Threads : pc[u] \in HandLabels => loc[u].data = <<u, calls[u]>>
      /\ \A u \in Threads : pc[u] \in LinkLabels \cup {"enq_ptr"} => data[loc[u].qe.ptr] = loc[u].data
  BY DEF ItemsAreNew
<1>3. ASSUME NEW i \in 1..Len(linked), NEW u \in Threads, linked[i][1] = u
      PROVE  linked[i][2] <= calls'[u] /\ (pc'[u] \in HandLabels => linked[i][2] < calls'[u])
  <2>1. linked[i][2] \in Nat /\ calls[u] \in Nat
    BY LinkedFacts
  <2>2. linked[i][2] <= calls[u] /\ (pc[u] \in HandLabels => linked[i][2] < calls[u])
    BY <1>2, <1>3
  <2>3. CASE u = t
    <3>1. CASE calls'[t] = calls[t] /\ (l \in HandLabels => pc[t] \in HandLabels)
      BY <1>1, <2>2, <2>3, <3>1
    <3>2. CASE calls'[t] = calls[t] + 1
      BY <2>1, <2>2, <2>3, <3>2, SMT
    <3>3. QED
      BY <3>1, <3>2
  <2>4. CASE u # t
    BY <1>1, <2>2, <2>4
  <2>5. QED
    BY <2>3, <2>4
<1>4. ASSUME NEW u \in Threads, pc'[u] \in HandLabels PROVE loc'[u].data = <<u, calls'[u]>>
  <2>1. CASE u = t
    BY <1>1, <1>2, <1>4, <2>1
  <2>2. CASE u # t
    BY <1>1, <1>2, <1>4, <2>2
  <2>3. QED
    BY <2>1, <2>2
<1>5. ASSUME NEW u \in Threads, pc'[u] \in LinkLabels \cup {"enq_ptr"} PROVE data'[loc'[u].qe.ptr] = loc'[u].data
  <2>1. CASE u = t
    BY <1>1, <1>5, <2>1
  <2>2. CASE u # t
    <3>1. pc[u] \in LinkLabels \cup {"enq_ptr"} /\ loc'[u] = loc[u]
      BY <1>1, <1>5, <2>2
    <3>2. data'[loc[u].qe.ptr] = data[loc[u].qe.ptr]
      BY <2>2, <3>1
    <3>3. QED
      BY <1>2, <3>1, <3>2
  <2>3. QED
    BY <2>1, <2>2
<1>6. QED
  BY <1>3, <1>4, <1>5 DEF ItemsAreNew

(* The dcas on the next pointer links a new item. *)
LEMMA LinksNew ==
  ASSUME TypeOK, ItemsAreNew, NEW t \in Threads, NEW r, Links(t, r)
  PROVE  /\ ItemsAreNew' /\ data[loc[t].qe.ptr] = loc[t].data
         /\ loc[t].data \notin ElementsIn(linked) /\ ElementsIn(linked') = ElementsIn(linked) \cup {loc[t].data}
<1>1. /\ Moves(t, "enq_swing", r) /\ pc[t] = "enq_link" /\ linked' = Append(linked, loc[t].data)
      /\ data' = data /\ calls' = calls
  BY DEF Links
<1>2. pc'[t] = "enq_swing" /\ loc'[t] = r /\ \A u \in Threads : u # t => pc'[u] = pc[u] /\ loc'[u] = loc[u]
  BY <1>1, MovesFacts
<1>3. /\ pc[t] \in HandLabels /\ pc[t] \in LinkLabels \cup {"enq_ptr"}
      /\ "enq_swing" \notin HandLabels /\ "enq_swing" \notin LinkLabels \cup {"enq_ptr"}
  BY <1>1 DEF HandLabels, TakenLabels, ReadyLabels, LinkLabels
<1>4. /\ \A i \in 1..Len(linked), u \in Threads : linked[i][1] = u =>
             linked[i][2] <= calls[u] /\ (pc[u] \in HandLabels => linked[i][2] < calls[u])
      /\ \A u \in Threads : pc[u] \in HandLabels => loc[u].data = <<u, calls[u]>>
      /\ \A u \in Threads : pc[u] \in LinkLabels \cup {"enq_ptr"} => data[loc[u].qe.ptr] = loc[u].data
  BY DEF ItemsAreNew
<1>5. loc[t].data = <<t, calls[t]>> /\ data[loc[t].qe.ptr] = loc[t].data /\ calls[t] \in Nat
  BY <1>3, <1>4, LinkedFacts
<1>6. /\ linked \in Seq(Items) /\ Len(linked) \in Nat
      /\ \A i \in 1..Len(linked) : linked[i] \in Items /\ linked[i][1] \in Threads /\ linked[i][2] \in Nat
  BY LinkedFacts
<1>7. PICK x : x = loc[t].data
  OBVIOUS
<1>8. x[1] = t /\ x[2] = calls[t]
  BY <1>5, <1>7, SMT
<1>9. ASSUME NEW i \in 1..Len(linked) PROVE linked[i] # x
  <2>1. linked[i][1] = t => linked[i][2] < calls[t] /\ linked[i][2] \in Nat
    BY <1>3, <1>4, <1>6
  <2>2. QED
    BY <1>5, <1>8, <2>1, SMT
<1>10. x \notin ElementsIn(linked)
  BY <1>9 DEF ElementsIn
<1>11. linked' \in Seq(Items)
  BY <1>1 DEF Moves
<1>12. x \in Items
  <2>1. loc[t] \in Locals
    BY TypeFacts
  <2>2. x \in Items \cup {NoItem}
    BY <1>7, <2>1, LocalsFields
  <2>3. x # NoItem
    BY <1>5, <1>7, SMT DEF NoItem
  <2>4. QED
    BY <2>2, <2>3
<1>13. /\ Len(linked') = Len(linked) + 1 /\ linked'[Len(linked) + 1] = x
       /\ \A i \in 1..Len(linked) : linked'[i] = linked[i]
  BY <1>1, <1>6, <1>7, <1>12, SMT
<1>14. /\ \A i \in 1..Len(linked') : i \in 1..Len(linked) \/ i = Len(linked) + 1
       /\ Len(linked) + 1 \in 1..Len(linked') /\ \A i \in 1..Len(linked) : i \in 1..Len(linked')
  BY <1>6, <1>13, SMT
<1>15. ElementsIn(linked') = ElementsIn(linked) \cup {x}
  BY <1>13, <1>14 DEF ElementsIn
<1>16. ASSUME NEW i \in 1..Len(linked'), NEW u \in Threads, linked'[i][1] = u
       PROVE  linked'[i][2] <= calls[u] /\ (pc'[u] \in HandLabels => linked'[i][2] < calls[u])
  <2>1. CASE i \in 1..Len(linked)
    BY <1>2, <1>3, <1>4, <1>13, <1>16, <2>1
  <2>2. CASE i = Len(linked) + 1
    <3>1. linked'[i] = x /\ u = t
      BY <1>8, <1>13, <1>16, <2>2
    <3>2. QED
      BY <1>2, <1>3, <1>5, <1>8, <3>1, SMT
  <2>3. QED
    BY <1>14, <2>1, <2>2
<1>17. ASSUME NEW u \in Threads
       PROVE  /\ pc'[u] \in HandLabels => loc'[u].data = <<u, calls[u]>>
              /\ pc'[u] \in LinkLabels \cup {"enq_ptr"} => data[loc'[u].qe.ptr] = loc'[u].data
  BY <1>2, <1>3, <1>4
<1>18. ItemsAreNew'
  BY <1>1, <1>16, <1>17 DEF ItemsAreNew
<1>19. QED
  BY <1>5, <1>7, <1>10, <1>15, <1>18

-----------------------------------------------------------------------------
(* The order of the items, when no element is recycled *)

(* A dequeue that has read qs->dequeue, and one that has read the next     *)
(* pointer since.                                                          *)
PastLabels == DequeueLabels \ {"deq_ptr"}
CheckLabels == {"deq_check_ptr", "deq_check_cnt"}

(* What thread t has read, and where its element is from. *)
Reads(t) ==
    /\ pc'[t] \in PastLabels => \/ pc[t] \in PastLabels /\ loc'[t].dequeue.ptr = loc[t].dequeue.ptr
                                \/ loc'[t].dequeue.ptr = dequeue.ptr
    /\ pc'[t] \in CheckLabels => \/ pc[t] \in CheckLabels /\ loc'[t].next.ptr = loc[t].next.ptr
                                 \/ pc[t] = "deq_next_ptr" /\ loc'[t].next.ptr = next[loc[t].dequeue.ptr].ptr
    /\ pc[t] = "idle" /\ pc'[t] \in HandLabels => loc'[t].qe.ptr = element_count + 1

(* A step that the callers do not see. *)
Silent(t) ==
    /\ UNCHANGED <<linked, taken, seen_empty, got>>
    /\ pc'[t] \in DequeueLabels <=> pc[t] \in DequeueLabels

Called(t) ==
    /\ pc[t] = "idle" /\ pc'[t] = "deq_ptr"
    /\ seen_empty' = IF taken = Len(linked) THEN seen_empty \cup {t} ELSE seen_empty
    /\ UNCHANGED <<linked, taken, got>>

FindsEmpty(t) ==
    /\ pc[t] = "deq_check_cnt" /\ pc'[t] = "idle" /\ loc[t].next.ptr = NULL
    /\ got' = [got EXCEPT ![t] = Append(got[t], NoItem)]
    /\ seen_empty' = seen_empty \ {t}
    /\ UNCHANGED <<linked, taken>>

Puts(t) ==
    /\ pc[t] = "enq_link" /\ pc'[t] = "enq_swing"
    /\ linked' = Append(linked, loc[t].data)
    /\ UNCHANGED <<taken, seen_empty, got>>

Removes(t) ==
    /\ pc[t] = "deq_dcas" /\ pc'[t] = "deq_free"
    /\ got' = [got EXCEPT ![t] = Append(got[t], loc[t].data)]
    /\ taken' = taken + 1 /\ linked' = linked
    /\ seen_empty' = IF taken' = Len(linked) THEN {u \in Threads \ {t} : pc[u] \in DequeueLabels}
                     ELSE seen_empty \ {t}

View(t) == Reads(t) /\ (Silent(t) \/ Called(t) \/ FindsEmpty(t) \/ Puts(t) \/ Removes(t))

(* A call that begins is seen so, unless it recycles an element. *)
LEMMA CallViews ==
  ASSUME TypeOK, NEW t \in Threads, GuaranteedEnqueue(t) \/ Dequeue(t)
  PROVE  View(t)
<1>1. /\ pc[t] = "idle" /\ pc \in [Threads -> Labels] /\ loc \in [Threads -> Locals] /\ loc[t] \in Locals
      /\ "idle" \notin DequeueLabels \cup HandLabels /\ "deq_ptr" \notin PastLabels \cup CheckLabels \cup HandLabels
      /\ "init_count" \notin DequeueLabels /\ PastLabels \subseteq DequeueLabels /\ CheckLabels \subseteq DequeueLabels
  BY TypeFacts DEF GuaranteedEnqueue, Dequeue, Call, TypeOK, Locals, DequeueLabels, HandLabels, TakenLabels, ReadyLabels,
                   LinkLabels, PastLabels, CheckLabels
<1>2. ASSUME UNCHANGED <<pc, got, history>> PROVE View(t)
  BY <1>1, <1>2 DEF View, Reads, Silent, history
<1>3. CASE Dequeue(t)
  <2>1. pc'[t] = "deq_ptr"
    BY <1>1, <1>3 DEF Dequeue
  <2>2. QED
    BY <1>1, <1>3, <2>1 DEF Dequeue, View, Reads, Called
<1>4. ASSUME element_count' = element_count + 1, Begin(t, element_count') PROVE View(t)
  <2>1. pc'[t] = "init_count"
    BY <1>1, <1>4 DEF Begin
  <2>2. loc'[t].qe.ptr = element_count + 1
    BY <1>1, <1>4 DEF Begin, Locals, Pacs, Pac
  <2>3. QED
    BY <1>1, <1>4, <2>1, <2>2 DEF Begin, View, Reads, Silent, history
<1>5. QED
  BY <1>2, <1>3, <1>4 DEF GuaranteedEnqueue

(* So are the steps of an enqueue. *)
LEMMA EnqueueViews ==
  ASSUME TypeOK, NEW t \in Threads,
         \/ InitCount(t) \/ InitNextPointer(t) \/ InitNextCount(t) \/ InitNextCounter(t) \/ InitData(t)
         \/ EnqReadPointer(t) \/ EnqReadCounter(t) \/ EnqReadNextPointer(t) \/ EnqReadNextCounter(t)
         \/ EnqCheckPointer(t) \/ EnqCheckCounter(t) \/ EnqLink(t) \/ EnqHelp(t) \/ EnqSwing(t)
  PROVE  View(t)
<1>1. pc \in [Threads -> Labels]
  BY DEF TypeOK
<1>2. ASSUME NEW k \in HandLabels \cup {"enq_swing"}, NEW l \in HandLabels \cup {"enq_swing", "idle"},
             pc[t] = k, pc' = [pc EXCEPT ![t] = l], UNCHANGED <<linked, taken, seen_empty, got>> \/ Puts(t)
      PROVE  View(t)
  <2>1. pc'[t] = l
    BY <1>1, <1>2
  <2>2. k \notin DequeueLabels /\ k # "idle" /\ l \notin DequeueLabels \cup PastLabels \cup CheckLabels
    BY <1>2 DEF DequeueLabels, HandLabels, TakenLabels, ReadyLabels, LinkLabels, PastLabels, CheckLabels
  <2>3. QED
    BY <1>2, <2>1, <2>2 DEF View, Reads, Silent
<1>3. \A l \in {"init_count", "init_next_ptr", "init_next_count", "init_next_cnt", "init_data", "enq_ptr", "enq_cnt",
                "enq_next_ptr", "enq_next_cnt", "enq_check_ptr", "enq_check_cnt", "enq_link", "enq_help"} :
         l \in HandLabels
  BY DEF HandLabels, TakenLabels, ReadyLabels, LinkLabels
<1>4. CASE InitCount(t) \/ InitNextPointer(t) \/ InitNextCount(t) \/ InitNextCounter(t) \/ InitData(t)
  BY <1>2, <1>3, <1>4 DEF InitCount, InitNextPointer, InitNextCount, InitNextCounter, InitData, Goto, history
<1>5. CASE EnqReadPointer(t) \/ EnqReadCounter(t) \/ EnqReadNextPointer(t) \/ EnqReadNextCounter(t)
  BY <1>2, <1>3, <1>5 DEF EnqReadPointer, EnqReadCounter, EnqReadNextPointer, EnqReadNextCounter, Local, Goto, history
<1>6. CASE EnqCheckPointer(t) \/ EnqCheckCounter(t)
  BY <1>2, <1>3, <1>6 DEF EnqCheckPointer, EnqCheckCounter, Local, Goto, history
<1>7. CASE EnqHelp(t) \/ EnqSwing(t)
  BY <1>2, <1>3, <1>7 DEF EnqHelp, EnqSwing, Return, Goto, history
<1>8. CASE EnqLink(t)
  <2>1. /\ pc[t] = "enq_link" /\ UNCHANGED <<got, taken, seen_empty>>
        /\ \/ pc' = [pc EXCEPT ![t] = "enq_swing"] /\ linked' = Append(linked, loc[t].data)
           \/ pc' = [pc EXCEPT ![t] = "enq_ptr"] /\ linked' = linked
    BY <1>8 DEF EnqLink
  <2>2. CASE pc' = [pc EXCEPT ![t] = "enq_swing"] /\ linked' = Append(linked, loc[t].data)
    <3>1. Puts(t)
      BY <1>1, <2>1, <2>2 DEF Puts
    <3>2. QED
      BY <1>2, <1>3, <2>1, <2>2, <3>1
  <2>3. CASE pc' = [pc EXCEPT ![t] = "enq_ptr"] /\ linked' = linked
    BY <1>2, <1>3, <2>1, <2>3
  <2>4. QED
    BY <2>1, <2>2, <2>3
<1>9. QED
  BY <1>4, <1>5, <1>6, <1>7, <1>8

(* And those of a dequeue. *)
LEMMA DequeueViews ==
  ASSUME TypeOK, NEW t \in Threads,
         \/ DeqReadPointer(t) \/ DeqReadCounter(t) \/ DeqReadEnqueuePointer(t) \/ DeqReadEnqueueCounter(t)
         \/ DeqReadNextPointer(t) \/ DeqCheckPointer(t) \/ DeqCheckCounter(t) \/ DeqHelp(t)
         \/ DeqReadData(t) \/ DeqDcas(t) \/ DeqFree(t)
  PROVE  View(t)
<1>1. pc \in [Threads -> Labels] /\ loc \in [Threads -> Locals] /\ loc[t] \in Locals
  BY TypeFacts DEF TypeOK, Locals
<1>2. ASSUME NEW k \in DequeueLabels, NEW l \in DequeueLabels, NEW r,
             pc[t] = k, pc' = [pc EXCEPT ![t] = l], loc' = [loc EXCEPT ![t] = r],
             UNCHANGED <<linked, taken, seen_empty, got>>,
             l \in PastLabels => (k \in PastLabels /\ r.dequeue.ptr = loc[t].dequeue.ptr) \/ r.dequeue.ptr = dequeue.ptr,
             l \in CheckLabels => \/ k \in CheckLabels /\ r.next.ptr = loc[t].next.ptr
                                  \/ k = "deq_next_ptr" /\ r.next.ptr = next[loc[t].dequeue.ptr].ptr
      PROVE  View(t)
  <2>1. pc'[t] = l /\ loc'[t] = r /\ k # "idle"
    BY <1>1, <1>2 DEF DequeueLabels
  <2>2. QED
    BY <1>2, <2>1 DEF View, Reads, Silent
<1>3. /\ \A l \in {"deq_cnt", "deq_enq_ptr", "deq_enq_cnt", "deq_next_ptr", "deq_check_ptr", "deq_check_cnt",
                   "deq_help", "deq_data", "deq_dcas"} : l \in PastLabels /\ l \in DequeueLabels
      /\ "deq_ptr" \in DequeueLabels /\ "deq_ptr" \notin PastLabels
      /\ "deq_check_ptr" \in CheckLabels /\ "deq_check_cnt" \in CheckLabels
      /\ \A l \in {"deq_ptr", "deq_cnt", "deq_enq_ptr", "deq_enq_cnt", "deq_next_ptr", "deq_help", "deq_data", "deq_dcas"} :
            l \notin CheckLabels
      /\ \A l \in {"idle", "deq_free"} : l \notin DequeueLabels \cup PastLabels \cup CheckLabels \cup HandLabels
  BY DEF PastLabels, CheckLabels, DequeueLabels, HandLabels, TakenLabels, ReadyLabels, LinkLabels
<1>4. CASE DeqReadPointer(t)
  <2>1. PICK r : r = [loc[t] EXCEPT !.dequeue.ptr = dequeue.ptr] /\ Local(t, "deq_ptr", "deq_cnt", r)
    BY <1>4 DEF DeqReadPointer
  <2>2. r.dequeue.ptr = dequeue.ptr
    BY <1>1, <2>1 DEF Locals, Pacs, Pac
  <2>3. QED
    BY <1>2, <1>3, <2>1, <2>2 DEF Local, Goto, history
<1>5. CASE DeqReadCounter(t)
  <2>1. PICK r : r = [loc[t] EXCEPT !.dequeue.cnt = dequeue.cnt] /\ Local(t, "deq_cnt", "deq_enq_ptr", r)
    BY <1>5 DEF DeqReadCounter
  <2>2. r.dequeue.ptr = loc[t].dequeue.ptr
    BY <1>1, <2>1 DEF Locals, Pacs, Pac
  <2>3. QED
    BY <1>2, <1>3, <2>1, <2>2 DEF Local, Goto, history
<1>6. CASE DeqReadEnqueuePointer(t)
  <2>1. PICK r : r = [loc[t] EXCEPT !.enqueue.ptr = enqueue.ptr] /\ Local(t, "deq_enq_ptr", "deq_enq_cnt", r)
    BY <1>6 DEF DeqReadEnqueuePointer
  <2>2. r.dequeue.ptr = loc[t].dequeue.ptr
    BY <1>1, <2>1 DEF Locals, Pacs, Pac
  <2>3. QED
    BY <1>2, <1>3, <2>1, <2>2 DEF Local, Goto, history
<1>7. CASE DeqReadEnqueueCounter(t)
  <2>1. PICK r : r = [loc[t] EXCEPT !.enqueue.cnt = enqueue.cnt] /\ Local(t, "deq_enq_cnt", "deq_next_ptr", r)
    BY <1>7 DEF DeqReadEnqueueCounter
  <2>2. r.dequeue.ptr = loc[t].dequeue.ptr
    BY <1>1, <2>1 DEF Locals, Pacs, Pac
  <2>3. QED
    BY <1>2, <1>3, <2>1, <2>2 DEF Local, Goto, history
<1>8. CASE DeqReadNextPointer(t)
  <2>1. PICK r : /\ r = [loc[t] EXCEPT !.next.ptr = next[loc[t].dequeue.ptr].ptr]
                 /\ Local(t, "deq_next_ptr", "deq_check_ptr", r)
    BY <1>8 DEF DeqReadNextPointer
  <2>2. r.dequeue.ptr = loc[t].dequeue.ptr /\ r.next.ptr = next[loc[t].dequeue.ptr].ptr
    BY <1>1, <2>1 DEF Locals, Pacs, Pac
  <2>3. QED
    BY <1>2, <1>3, <2>1, <2>2 DEF Local, Goto, history
<1>9. CASE DeqCheckPointer(t)
  BY <1>2, <1>3, <1>9 DEF DeqCheckPointer, Local, Goto, history
<1>10. CASE DeqCheckCounter(t)
  <2>1. CASE Local(t, "deq_check_cnt", "deq_ptr", loc[t])
    BY <1>2, <1>3, <2>1 DEF Local, Goto, history
  <2>2. ASSUME NEW l \in {"deq_data", "deq_help"}, NEW c,
               Local(t, "deq_check_cnt", l, [loc[t] EXCEPT !.next.cnt = c])
        PROVE  View(t)
    <3>1. PICK r : r = [loc[t] EXCEPT !.next.cnt = c]
      OBVIOUS
    <3>2. r.dequeue.ptr = loc[t].dequeue.ptr
      BY <1>1, <3>1 DEF Locals, Pacs, Pac
    <3>3. QED
      BY <1>2, <1>3, <2>2, <3>1, <3>2 DEF Local, Goto, history
  <2>3. ASSUME pc[t] = "deq_check_cnt", loc[t].next.ptr = NULL, DeqEmpty(t) PROVE View(t)
    <3>1. pc'[t] = "idle"
      BY <1>1, <2>3 DEF DeqEmpty, Return
    <3>2. FindsEmpty(t) /\ Reads(t)
      BY <1>3, <2>3, <3>1 DEF DeqEmpty, FindsEmpty, Reads
    <3>3. QED
      BY <3>2 DEF View
  <2>4. QED
    BY <1>10, <2>1, <2>2, <2>3 DEF DeqCheckCounter, DeqDecide
<1>11. CASE DeqHelp(t)
  <2>1. Goto(t, "deq_help", "deq_ptr") /\ loc' = [loc EXCEPT ![t] = loc[t]] /\ UNCHANGED <<linked, taken, seen_empty, got>>
    BY <1>1, <1>11 DEF DeqHelp, history
  <2>2. QED
    BY <1>2, <1>3, <2>1 DEF Goto
<1>12. CASE DeqReadData(t)
  <2>1. PICK r : r = [loc[t] EXCEPT !.data = data[loc[t].next.ptr]] /\ Local(t, "deq_data", "deq_dcas", r)
    BY <1>12 DEF DeqReadData
  <2>2. r.dequeue.ptr = loc[t].dequeue.ptr
    BY <1>1, <2>1 DEF Locals
  <2>3. QED
    BY <1>2, <1>3, <2>1, <2>2 DEF Local, Goto, history
<1>13. CASE DeqDcas(t)
  <2>1. CASE pc' = [pc EXCEPT ![t] = "deq_ptr"] /\ UNCHANGED <<got, taken, seen_empty>>
    <3>1. loc' = [loc EXCEPT ![t] = loc[t]] /\ pc[t] = "deq_dcas" /\ linked' = linked
      BY <1>1, <1>13 DEF DeqDcas
    <3>2. QED
      BY <1>2, <1>3, <2>1, <3>1
  <2>2. ASSUME pc' = [pc EXCEPT ![t] = "deq_free"], pc[t] = "deq_dcas", linked' = linked,
               got' = [got EXCEPT ![t] = Append(got[t], loc[t].data)], taken' = taken + 1,
               seen_empty' = IF taken' = Len(linked) THEN {u \in Threads \ {t} : pc[u] \in DequeueLabels}
                             ELSE seen_empty \ {t}
        PROVE  View(t)
    <3>1. pc'[t] = "deq_free"
      BY <1>1, <2>2
    <3>2. Removes(t) /\ Reads(t)
      BY <1>3, <2>2, <3>1 DEF Removes, Reads
    <3>3. QED
      BY <3>2 DEF View
  <2>3. QED
    BY <1>13, <2>1, <2>2 DEF DeqDcas
<1>14. CASE DeqFree(t)
  <2>1. pc[t] = "deq_free" /\ pc'[t] = "idle" /\ UNCHANGED <<linked, taken, seen_empty, got>>
    BY <1>1, <1>14 DEF DeqFree, Return, history
  <2>2. QED
    BY <1>3, <2>1 DEF View, Reads, Silent
<1>15. QED
  BY <1>4, <1>5, <1>6, <1>7, <1>8, <1>9, <1>10, <1>11, <1>12, <1>13, <1>14

(* The items linked and not yet dequeued are those behind the dummy, in    *)
(* the order of the list K, the queue.                                     *)
InOrder(K) ==
    /\ Len(linked) = taken + Len(K) - 1
    /\ \A i \in 2..Len(K) : linked[taken + i - 1] = data[K[i]]

(* No call has a pointer from the queue to an element in a thread's hands. *)
NotRecycled ==
    \A t, u \in Threads : pc[t] \in HandLabels =>
        /\ pc[u] \in LinkLabels => loc[u].enqueue.ptr # loc[t].qe.ptr
        /\ pc[u] \in PastLabels => loc[u].dequeue.ptr # loc[t].qe.ptr

(* Nothing is linked behind an element that is not in the queue yet. *)
Alone == \A t \in Threads : pc[t] \in ReadyLabels => next[loc[t].qe.ptr].ptr = NULL

(* An element that was the dummy has a next pointer, unless it still is. *)
Passed ==
    \A t \in Threads : pc[t] \in PastLabels =>
        /\ loc[t].dequeue.ptr \in 1..element_count
        /\ next[loc[t].dequeue.ptr].ptr = NULL => loc[t].dequeue.ptr = dequeue.ptr

(* A dequeue that is to report an empty queue has seen it empty. *)
Seen ==
    \A t \in Threads :
        /\ pc[t] \in DequeueLabels /\ taken = Len(linked) => t \in seen_empty
        /\ pc[t] \in CheckLabels /\ loc[t].next.ptr = NULL => t \in seen_empty

(* Where a thread has its pointers from. *)
LEMMA EffectPointers ==
  ASSUME TypeOK, NEW t \in Threads, Effect(t)
  PROVE  /\ pc'[t] \in HandLabels => pc[t] = "idle" \/ (pc[t] \in HandLabels /\ loc'[t].qe.ptr = loc[t].qe.ptr)
         /\ pc'[t] \in LinkLabels => \/ loc'[t].enqueue.ptr = enqueue.ptr
                                     \/ pc[t] \in LinkLabels /\ loc'[t].enqueue.ptr = loc[t].enqueue.ptr
         /\ \A u \in Threads : u # t => pc'[u] = pc[u] /\ loc'[u] = loc[u]
<1>1. /\ \A l \in {"enq_swing", "deq_free", "idle"} : l \notin HandLabels \cup LinkLabels
      /\ "init_count" \notin LinkLabels /\ "init_next_count" \notin LinkLabels /\ "init_next_ptr" \in HandLabels
  BY DEF HandLabels, TakenLabels, ReadyLabels, LinkLabels
<1>2. ASSUME NEW l, NEW r, Still(t, l, r) PROVE
         /\ pc'[t] \in HandLabels => pc[t] \in HandLabels /\ loc'[t].qe.ptr = loc[t].qe.ptr
         /\ pc'[t] \in LinkLabels => \/ loc'[t].enqueue.ptr = enqueue.ptr
                                     \/ pc[t] \in LinkLabels /\ loc'[t].enqueue.ptr = loc[t].enqueue.ptr
         /\ \A u \in Threads : u # t => pc'[u] = pc[u] /\ loc'[u] = loc[u]
  <2>0. Moves(t, l, r)
    BY <1>2 DEF Still
  <2>1. /\ pc'[t] = l /\ loc'[t] = r
        /\ \A u \in Threads : u # t => pc'[u] = pc[u] /\ loc'[u] = loc[u]
    BY <2>0, MovesFacts
  <2>2. /\ l \in HandLabels <=> pc[t] \in HandLabels
        /\ l \in HandLabels => r.qe.ptr = loc[t].qe.ptr
        /\ l \in LinkLabels => (pc[t] \in LinkLabels /\ r.enqueue.ptr = loc[t].enqueue.ptr) \/ r.enqueue.ptr = enqueue.ptr
    BY <1>2 DEF Still, SameHands, HandLabels
  <2>3. QED
    BY <2>1, <2>2
<1>3. ASSUME NEW r, Takes(t, r) \/ Links(t, r) \/ Frees(t, r)
      PROVE  /\ pc'[t] \in HandLabels => pc[t] = "idle"
             /\ pc'[t] \notin LinkLabels /\ \A u \in Threads : u # t => pc'[u] = pc[u] /\ loc'[u] = loc[u]
  <2>1. PICK l : Moves(t, l, r) /\ l \notin LinkLabels /\ (l \in HandLabels => pc[t] = "idle")
    BY <1>1, <1>3 DEF Takes, Links, Frees
  <2>2. QED
    BY <2>1, MovesFacts
<1>4. ASSUME Clears(t) \/ Unlinks(t)
      PROVE  /\ pc'[t] \in HandLabels => pc[t] \in HandLabels /\ loc'[t].qe.ptr = loc[t].qe.ptr
             /\ pc'[t] \notin LinkLabels /\ \A u \in Threads : u # t => pc'[u] = pc[u] /\ loc'[u] = loc[u]
  <2>1. PICK l : Moves(t, l, loc[t]) /\ l \notin LinkLabels /\ (l \in HandLabels => pc[t] \in HandLabels)
    BY <1>1, <1>4 DEF Clears, Unlinks
  <2>2. QED
    BY <2>1, MovesFacts
<1>5. QED
  BY <1>2, <1>3, <1>4 DEF Effect

(* The queue and the hands of the threads are apart. *)
LEMMA HandsApart ==
  ASSUME TypeOK, NEW K, NEW L, Shape(K, L)
  PROVE  /\ \A t \in Threads : pc[t] \in HandLabels => loc[t].qe.ptr \notin ElementsIn(K) /\ loc[t].qe.ptr \in 1..element_count
         /\ \A t \in Threads : pc[t] \in LinkLabels => loc[t].enqueue.ptr \in 1..element_count
         /\ enqueue.ptr \in ElementsIn(K) /\ dequeue.ptr \in ElementsIn(K) /\ ElementsIn(K) \subseteq 1..element_count
         /\ element_count \in Nat /\ 1..element_count \subseteq Elements
<1>1. \A t \in Threads : pc[t] \in LinkLabels => loc[t].enqueue.ptr \in 1..element_count
  BY DEF Shape, Tails
<1>2. /\ \A t \in Threads : ElementsIn(L[t]) \subseteq 1..element_count /\ ElementsIn(L[t]) \cap ElementsIn(K) = {}
      /\ ElementsIn(K) \subseteq 1..element_count /\ 1..element_count \subseteq Elements
  BY ShapeFacts
<1>3. /\ \A t \in Threads : pc[t] \in HandLabels => loc[t].qe.ptr \in ElementsIn(L[t])
      /\ enqueue.ptr \in ElementsIn(K) /\ dequeue.ptr \in ElementsIn(K)
  BY ShapePointers
<1>4. \A t \in Threads : pc[t] \in HandLabels => loc[t].qe.ptr \notin ElementsIn(K) /\ loc[t].qe.ptr \in 1..element_count
  BY <1>2, <1>3
<1>5. QED
  BY <1>1, <1>2, <1>3, <1>4, TypeFacts

(* A new element is known to no other call. *)
LEMMA NotRecycledStays ==
  ASSUME TypeOK, NEW K, NEW L, Shape(K, L), NotRecycled, Passed, NEW t \in Threads, Effect(t), Reads(t)
  PROVE  NotRecycled'
<1>1. \A n \in 1..element_count : n # element_count + 1
  BY HandsApart, SMT
<1>2. ASSUME NEW u \in Threads, pc'[u] \in HandLabels
      PROVE  \/ pc[u] \in HandLabels /\ loc'[u].qe.ptr = loc[u].qe.ptr
             \/ u = t /\ loc'[u].qe.ptr = element_count + 1
  BY <1>2, EffectPointers DEF Reads
<1>3. ASSUME NEW u \in Threads, pc'[u] \in LinkLabels
      PROVE  \/ pc[u] \in LinkLabels /\ loc'[u].enqueue.ptr = loc[u].enqueue.ptr
             \/ loc'[u].enqueue.ptr \in ElementsIn(K)
  BY <1>3, EffectPointers, HandsApart
<1>4. ASSUME NEW u \in Threads, pc'[u] \in PastLabels
      PROVE  \/ pc[u] \in PastLabels /\ loc'[u].dequeue.ptr = loc[u].dequeue.ptr
             \/ loc'[u].dequeue.ptr \in ElementsIn(K)
  BY <1>4, EffectPointers, HandsApart DEF Reads
<1>5. SUFFICES ASSUME NEW u \in Threads, NEW w \in Threads, pc'[u] \in HandLabels
               PROVE  /\ pc'[w] \in LinkLabels => loc'[w].enqueue.ptr # loc'[u].qe.ptr
                      /\ pc'[w] \in PastLabels => loc'[w].dequeue.ptr # loc'[u].qe.ptr
  BY DEF NotRecycled
<1>6. /\ \A e \in ElementsIn(K) : e # loc'[u].qe.ptr
      /\ \A e \in 1..element_count : loc'[u].qe.ptr # e \/ (pc[u] \in HandLabels /\ loc'[u].qe.ptr = loc[u].qe.ptr)
  BY <1>1, <1>2, <1>5, HandsApart
<1>7. ASSUME pc'[w] \in LinkLabels PROVE loc'[w].enqueue.ptr # loc'[u].qe.ptr
  BY <1>3, <1>6, <1>7, HandsApart DEF NotRecycled
<1>8. ASSUME pc'[w] \in PastLabels PROVE loc'[w].dequeue.ptr # loc'[u].qe.ptr
  BY <1>4, <1>6, <1>8 DEF NotRecycled, Passed
<1>9. QED
  BY <1>7, <1>8

(* Which next pointers change. *)
LEMMA EffectNext ==
  ASSUME TypeOK, NEW K, NEW L, Shape(K, L), NEW t \in Threads, Effect(t), NEW e \in Elements
  PROVE  \/ next'[e].ptr = next[e].ptr
         \/ pc[t] \in HandLabels /\ e = loc[t].qe.ptr /\ next'[e].ptr = NULL /\ pc'[t] \notin PastLabels
         \/ pc[t] \in LinkLabels /\ e = loc[t].enqueue.ptr /\ next'[e].ptr # NULL
<1>1. /\ "init_next_ptr" \in HandLabels /\ "enq_link" \in LinkLabels /\ "enq_link" \in HandLabels
      /\ "init_next_count" \notin PastLabels
  BY DEF HandLabels, TakenLabels, ReadyLabels, LinkLabels, PastLabels, DequeueLabels
<1>2. CASE Clears(t)
  <2>1. pc'[t] = "init_next_count"
    BY <1>2, MovesFacts DEF Clears
  <2>2. QED
    BY <1>1, <1>2, <2>1 DEF Clears
<1>3. ASSUME NEW r, Links(t, r)
      PROVE  \/ next'[e].ptr = next[e].ptr
             \/ pc[t] \in LinkLabels /\ e = loc[t].enqueue.ptr /\ next'[e].ptr # NULL
  <2>1. loc[t].qe.ptr \in 1..element_count
    BY <1>1, <1>3, HandsApart DEF Links
  <2>2. loc[t].qe.ptr # NULL
    BY <2>1, SMT DEF NULL
  <2>3. QED
    BY <1>1, <1>3, <2>2 DEF Links, LinksTo
<1>4. QED
  BY <1>2, <1>3 DEF Effect, Still, Takes, Frees, Unlinks

(* Where each kind of step leads. *)
LEMMA EffectLabels ==
  ASSUME TypeOK, NEW t \in Threads
  PROVE  /\ \A r : /\ Takes(t, r) => pc'[t] = "init_count"
                   /\ Links(t, r) => pc'[t] = "enq_swing"
                   /\ Frees(t, r) => pc'[t] = "idle"
         /\ Clears(t) => pc'[t] = "init_next_count"
         /\ Unlinks(t) => pc'[t] = "deq_free"
         /\ \A l, r : Still(t, l, r) => pc'[t] = l /\ l # "deq_free"
<1>1. ASSUME NEW l, NEW r, Moves(t, l, r) PROVE pc'[t] = l
  BY <1>1, MovesFacts
<1>2. ASSUME NEW r PROVE /\ Takes(t, r) => pc'[t] = "init_count"
                         /\ Links(t, r) => pc'[t] = "enq_swing"
                         /\ Frees(t, r) => pc'[t] = "idle"
  BY <1>1 DEF Takes, Links, Frees
<1>3. (Clears(t) => pc'[t] = "init_next_count") /\ (Unlinks(t) => pc'[t] = "deq_free")
  BY <1>1 DEF Clears, Unlinks
<1>4. ASSUME NEW l, NEW r, Still(t, l, r) PROVE pc'[t] = l /\ l # "deq_free"
  BY <1>1, <1>4 DEF Still, SameHands
<1>5. QED
  BY <1>2, <1>3, <1>4

(* An element in a thread's hands stays alone. *)
LEMMA AloneStays ==
  ASSUME TypeOK, NEW K, NEW L, Shape(K, L), NotRecycled, Alone, NEW t \in Threads, Effect(t)
  PROVE  Alone'
<1>1. SUFFICES ASSUME NEW u \in Threads, pc'[u] \in ReadyLabels PROVE next'[loc'[u].qe.ptr].ptr = NULL
  BY DEF Alone
<1>2. pc'[u] \in HandLabels /\ \A v \in Threads : pc[v] \in ReadyLabels => pc[v] \in HandLabels
  BY <1>1 DEF HandLabels
<1>3. ASSUME pc[u] \in ReadyLabels, loc'[u].qe.ptr = loc[u].qe.ptr PROVE next'[loc'[u].qe.ptr].ptr = NULL
  <2>1. next[loc[u].qe.ptr].ptr = NULL /\ pc[u] \in HandLabels
    BY <1>2, <1>3 DEF Alone
  <2>2. loc[u].qe.ptr \in Elements
    BY <2>1, HandsApart
  <2>3. ~(pc[t] \in LinkLabels /\ loc[u].qe.ptr = loc[t].enqueue.ptr)
    BY <2>1 DEF NotRecycled
  <2>4. QED
    BY <1>3, <2>1, <2>2, <2>3, EffectNext
<1>4. CASE u # t
  BY <1>1, <1>3, <1>4, EffectPointers
<1>5. CASE u = t
  <2>1. ASSUME NEW l, NEW r, Still(t, l, r) PROVE next'[loc'[u].qe.ptr].ptr = NULL
    <3>1. pc[t] \in ReadyLabels
      <4>1. Moves(t, l, r) /\ (l \in ReadyLabels <=> pc[t] \in ReadyLabels)
        BY <2>1 DEF Still, SameHands
      <4>2. QED
        BY <1>1, <1>5, <4>1, MovesFacts
    <3>2. pc[t] # "idle"
      BY <3>1 DEF ReadyLabels, LinkLabels
    <3>3. loc'[t].qe.ptr = loc[t].qe.ptr
      BY <1>2, <1>5, <3>2, EffectPointers
    <3>4. QED
      BY <1>3, <1>5, <3>1, <3>3
  <2>2. CASE Clears(t)
    <3>1. Moves(t, "init_next_count", loc[t]) /\ next'[loc[t].qe.ptr].ptr = NULL
      BY <2>2 DEF Clears
    <3>2. loc'[t] = loc[t]
      BY <3>1, MovesFacts
    <3>3. QED
      BY <1>5, <3>1, <3>2
  <2>3. /\ \A r : ~Takes(t, r) /\ ~Links(t, r) /\ ~Frees(t, r)
        /\ ~Unlinks(t)
    <3>1. \A l \in {"init_count", "enq_swing", "idle", "deq_free"} : l \notin ReadyLabels
      BY DEF ReadyLabels, LinkLabels
    <3>2. QED
      BY <1>1, <1>5, <3>1, EffectLabels
  <2>4. QED
    BY <2>1, <2>2, <2>3 DEF Effect
<1>6. QED
  BY <1>4, <1>5

(* qs->dequeue only leaves an element that has a next one. *)
LEMMA PassedStays ==
  ASSUME TypeOK, NEW K, NEW L, Shape(K, L), NotRecycled, Passed, NEW t \in Threads, Effect(t), Reads(t)
  PROVE  Passed'
<1>1. SUFFICES ASSUME NEW u \in Threads, pc'[u] \in PastLabels
               PROVE  /\ loc'[u].dequeue.ptr \in 1..element_count'
                      /\ next'[loc'[u].dequeue.ptr].ptr = NULL => loc'[u].dequeue.ptr = dequeue'.ptr
  BY DEF Passed
<1>2. PICK x : x = loc'[u].dequeue.ptr
  OBVIOUS
<1>3. \/ pc[u] \in PastLabels /\ x = loc[u].dequeue.ptr
      \/ u = t /\ x = dequeue.ptr
  BY <1>1, <1>2, EffectPointers DEF Reads
<1>4. /\ x \in 1..element_count /\ x \in Elements
      /\ next[x].ptr = NULL => x = dequeue.ptr
  BY <1>3, HandsApart DEF Passed
<1>5. element_count' = element_count \/ element_count' = element_count + 1
  BY DEF Effect, Still, Takes, Links, Frees, Clears, Unlinks
<1>6. x \in 1..element_count'
  BY <1>4, <1>5, HandsApart, SMT
<1>7. dequeue' = dequeue \/ next[dequeue.ptr].ptr # NULL
  BY DEF Effect, Still, Takes, Links, Frees, Clears, Unlinks
<1>8. ASSUME next'[x].ptr = NULL PROVE next'[x].ptr = next[x].ptr
  <2>1. CASE u = t
    BY <1>1, <1>4, <1>8, <2>1, EffectNext
  <2>2. CASE pc[u] \in PastLabels /\ x = loc[u].dequeue.ptr
    <3>1. ~(pc[t] \in HandLabels /\ x = loc[t].qe.ptr)
      BY <2>2 DEF NotRecycled
    <3>2. QED
      BY <1>4, <1>8, <3>1, EffectNext
  <2>3. QED
    BY <1>3, <2>1, <2>2
<1>9. next'[x].ptr = NULL => x = dequeue'.ptr
  BY <1>4, <1>7, <1>8
<1>10. QED
  BY <1>2, <1>6, <1>9

(* What the callers see of each kind of step. *)
LEMMA EffectViews ==
  ASSUME TypeOK, NEW t \in Threads, Effect(t), View(t)
  PROVE  \/ \E r \in Locals : Links(t, r) /\ taken' = taken
         \/ Unlinks(t) /\ taken' = taken + 1
         \/ /\ \/ \E l \in Labels, r \in Locals : Still(t, l, r)
               \/ \E r \in Locals : Takes(t, r) \/ Frees(t, r)
               \/ Clears(t)
            /\ taken' = taken
<1>1. taken' = taken \/ (pc'[t] = "deq_free" /\ taken' = taken + 1)
  BY DEF View, Silent, Called, FindsEmpty, Puts, Removes
<1>2. CASE Unlinks(t)
  <2>1. pc[t] = "deq_dcas" /\ pc'[t] = "deq_free"
    BY <1>2, EffectLabels DEF Unlinks
  <2>2. "deq_dcas" \in DequeueLabels /\ "deq_free" \notin DequeueLabels
    BY DEF DequeueLabels
  <2>3. taken' = taken + 1
    BY <2>1, <2>2 DEF View, Silent, Called, FindsEmpty, Puts, Removes
  <2>4. QED
    BY <1>2, <2>3
<1>3. ASSUME NEW l, NEW r, Still(t, l, r) PROVE taken' = taken
  BY <1>1, <1>3, EffectLabels
<1>4. ASSUME NEW r, Takes(t, r) \/ Frees(t, r) \/ Links(t, r) PROVE taken' = taken
  BY <1>1, <1>4, EffectLabels
<1>5. ASSUME Clears(t) PROVE taken' = taken
  BY <1>1, <1>5, EffectLabels
<1>6. QED
  BY <1>2, <1>3, <1>4, <1>5 DEF Effect

(* A list whose first element has no next one. *)
LEMMA LastAlone ==
  ASSUME NEW nx, NEW p, NEW s, IsList(nx, p, s), nx[p].ptr = NULL
  PROVE  s = <<p>> /\ Len(s) = 1 /\ ElementsIn(s) = {p}
<1>1. /\ s \in Seq(Elements) /\ s # <<>> /\ s[1] = p
      /\ \A i \in 1..Len(s) : nx[s[i]].ptr = IF i = Len(s) THEN NULL ELSE s[i + 1]
  BY DEF IsList
<1>2. Len(s) \in Nat /\ Len(s) >= 1 /\ \A i \in 1..Len(s) : s[i] \in Elements
  BY <1>1, SMT
<1>3. ASSUME Len(s) # 1 PROVE FALSE
  <2>0. \A n \in Nat : n >= 1 /\ n # 1 => 1 \in 1..n /\ 2 \in 1..n
    BY SMT
  <2>1. 1 \in 1..Len(s) /\ 2 \in 1..Len(s) /\ 1 + 1 = 2
    <3>1. 1 + 1 = 2
      BY SMT
    <3>2. QED
      BY <1>2, <1>3, <2>0, <3>1
  <2>2. nx[s[1]].ptr = s[2]
    BY <1>1, <1>3, <2>1
  <2>3. s[2] \in Elements
    BY <1>2, <2>1
  <2>4. QED
    BY <1>1, <2>2, <2>3, SMT DEF Elements, NULL
<1>4. s = <<p>>
  BY <1>1, <1>3, SMT
<1>5. QED
  BY <1>3, <1>4, ShortSequences

(* The order, when an element is linked behind the queue. *)
LEMMA OrderAppend ==
  ASSUME TypeOK, NEW K \in Seq(Elements), InOrder(K), NEW e \in Elements, NEW K2, K2 = K \o <<e>>,
         data' = data, taken' = taken, linked' = Append(linked, data[e])
  PROVE  InOrder(K2)'
<1>1. linked \in Seq(Items) /\ taken \in Nat
  BY DEF TypeOK
<1>2. /\ Len(K) \in Nat /\ Len(K2) = Len(K) + 1 /\ K2[Len(K) + 1] = e
      /\ \A i \in 1..Len(K) : K2[i] = K[i]
  BY SMT
<1>3. /\ Len(linked) \in Nat /\ Len(linked') = Len(linked) + 1 /\ linked'[Len(linked) + 1] = data[e]
      /\ \A i \in 1..Len(linked) : linked'[i] = linked[i]
  BY <1>1, SMT
<1>4. Len(linked) = taken + Len(K) - 1 /\ \A i \in 2..Len(K) : linked[taken + i - 1] = data[K[i]]
  BY DEF InOrder
<1>5. Len(linked') = taken' + Len(K2) - 1
  BY <1>1, <1>2, <1>3, <1>4, SMT
<1>6. ASSUME NEW i \in 2..Len(K2) PROVE linked'[taken' + i - 1] = data'[K2[i]]
  <2>1. CASE i = Len(K) + 1
    <3>1. taken + i - 1 = Len(linked) + 1
      BY <1>1, <1>2, <1>4, <2>1, SMT
    <3>2. QED
      BY <1>2, <1>3, <2>1, <3>1
  <2>2. CASE i # Len(K) + 1
    <3>1. i \in 2..Len(K) /\ i \in 1..Len(K) /\ taken + i - 1 \in 1..Len(linked)
      BY <1>1, <1>2, <1>4, <2>2, SMT
    <3>2. QED
      BY <1>2, <1>3, <1>4, <3>1
  <2>3. QED
    BY <2>1, <2>2
<1>7. QED
  BY <1>5, <1>6 DEF InOrder

(* The order, when the dummy is unlinked. *)
LEMMA OrderTail ==
  ASSUME TypeOK, NEW K, Len(K) \in Nat, InOrder(K), NEW Z, Len(Z) = Len(K) - 1, \A i \in 1..(Len(K) - 1) : Z[i] = K[i + 1],
         data' = data, taken' = taken + 1, linked' = linked
  PROVE  InOrder(Z)'
<1>1. taken \in Nat
  BY DEF TypeOK
<1>2. Len(linked) = taken + Len(K) - 1 /\ \A i \in 2..Len(K) : linked[taken + i - 1] = data[K[i]]
  BY DEF InOrder
<1>3. Len(linked') = taken' + Len(Z) - 1
  BY <1>1, <1>2, SMT
<1>4. ASSUME NEW i \in 2..Len(Z) PROVE linked'[taken' + i - 1] = data'[Z[i]]
  <2>1. i \in 1..(Len(K) - 1) /\ i + 1 \in 2..Len(K) /\ taken' + i - 1 = taken + (i + 1) - 1
    BY <1>1, SMT
  <2>2. QED
    BY <1>2, <2>1
<1>5. QED
  BY <1>3, <1>4 DEF InOrder

(* The queue keeps the order of the items. *)
LEMMA OrderStays ==
  ASSUME TypeOK, FreeOnce, NEW K, NEW L, Shape(K, L), ItemsAreNew, NotRecycled, Alone, InOrder(K),
         NEW t \in Threads, Effect(t), View(t)
  PROVE  \E K2, L2 : Shape(K2, L2)' /\ InOrder(K2)'
<1>1. IsList(next, dequeue.ptr, K) /\ \A u \in Threads : Holds(next, pc[u], loc[u], L[u])
  BY ShapeFacts
<1>2. K \in Seq(Elements) /\ Len(K) \in Nat /\ \A i \in 2..Len(K) : K[i] \in ElementsIn(K)
  <2>1. K \in Seq(Elements)
    BY <1>1 DEF IsList
  <2>2. Len(K) \in Nat /\ \A i \in 2..Len(K) : i \in 1..Len(K)
    BY <2>1, SMT
  <2>3. QED
    BY <2>1, <2>2 DEF ElementsIn
<1>3. ASSUME UNCHANGED <<taken, linked>>, \A e \in ElementsIn(K) : data'[e] = data[e] PROVE InOrder(K)'
  BY <1>2, <1>3 DEF InOrder
<1>4. ASSUME NEW l, NEW r, Still(t, l, r), taken' = taken PROVE \E K2, L2 : Shape(K2, L2)' /\ InOrder(K2)'
  <2>1. Shape(K, L)'
    BY <1>4, StillShape
  <2>2. "init_data" \in HandLabels
    BY DEF HandLabels, ReadyLabels
  <2>3. \A e \in ElementsIn(K) : data'[e] = data[e]
    <3>1. CASE data' = data
      BY <3>1
    <3>2. CASE pc[t] = "init_data" /\ data' = [data EXCEPT ![loc[t].qe.ptr] = loc[t].data]
      <4>1. loc[t].qe.ptr \notin ElementsIn(K) /\ ElementsIn(K) \subseteq Elements
        BY <2>2, <3>2, HandsApart
      <4>2. data \in [Elements -> Items \cup {NoItem}]
        BY DEF TypeOK
      <4>3. QED
        BY <3>2, <4>1, <4>2
    <3>3. QED
      BY <1>4, <3>1, <3>2 DEF Still
  <2>4. linked' = linked
    BY <1>4 DEF Still
  <2>5. QED
    BY <1>3, <1>4, <2>1, <2>3, <2>4
<1>5. ASSUME NEW r, Takes(t, r) \/ Frees(t, r), taken' = taken PROVE \E K2, L2 : Shape(K2, L2)' /\ InOrder(K2)'
  <2>1. \E L2 : Shape(K, L2)'
    BY <1>5, TakesShape, FreesShape
  <2>2. data' = data /\ linked' = linked
    BY <1>5 DEF Takes, Frees
  <2>3. QED
    BY <1>3, <1>5, <2>1, <2>2
<1>6. ASSUME Clears(t), taken' = taken PROVE \E K2, L2 : Shape(K2, L2)' /\ InOrder(K2)'
  <2>1. Shape(K, L)'
    BY <1>6, ClearsShape
  <2>2. data' = data /\ linked' = linked
    BY <1>6 DEF Clears
  <2>3. QED
    BY <1>3, <1>6, <2>1, <2>2
<1>7. ASSUME Unlinks(t), taken' = taken + 1 PROVE \E K2, L2 : Shape(K2, L2)' /\ InOrder(K2)'
  <2>1. PICK Z, s : Z = Tail(K) /\ s = <<dequeue.ptr>>
    OBVIOUS
  <2>2. Shape(Z, Put(L, t, s))'
    BY <1>7, <2>1, UnlinksShape
  <2>3. next[dequeue.ptr].ptr # NULL /\ data' = data /\ linked' = linked
    BY <1>7 DEF Unlinks
  <2>4. Len(Z) = Len(K) - 1 /\ \A i \in 1..(Len(K) - 1) : Z[i] = K[i + 1]
    BY <1>1, <2>1, <2>3, TailList, SMT
  <2>5. InOrder(Z)'
    BY <1>2, <1>7, <2>3, <2>4, OrderTail
  <2>6. QED
    BY <2>2, <2>5
<1>8. ASSUME NEW r, Links(t, r), taken' = taken PROVE \E K2, L2 : Shape(K2, L2)' /\ InOrder(K2)'
  <2>1. PICK K2, L2 : Joins(t, K, L, K2, L2)
    BY <1>8, LinksJoins
  <2>2. Shape(K2, L2)'
    BY <1>8, <2>1, LinksShape
  <2>3. pc[t] \in LinkLabels /\ pc[t] \in ReadyLabels /\ \A u \in Threads : pc[u] \in ReadyLabels => pc[u] \in HandLabels
    BY <1>8 DEF Links, LinkLabels, ReadyLabels, HandLabels
  <2>4. ASSUME NEW u \in Threads, pc[u] \in ReadyLabels PROVE L[u] = <<loc[u].qe.ptr>> /\ ElementsIn(L[u]) = {loc[u].qe.ptr}
    <3>1. IsList(next, loc[u].qe.ptr, L[u]) /\ next[loc[u].qe.ptr].ptr = NULL
      BY <1>1, <2>4 DEF Holds, Alone
    <3>2. QED
      BY <3>1, LastAlone
  <2>5. ASSUME NEW w \in Threads, pc[w] \in ReadyLabels, loc[t].enqueue.ptr \in ElementsIn(L[w]) PROVE FALSE
    <3>1. loc[t].enqueue.ptr = loc[w].qe.ptr
      BY <2>4, <2>5
    <3>2. QED
      BY <2>3, <2>5, <3>1 DEF NotRecycled
  <2>6. K2 = K \o L[t]
    BY <2>1, <2>5 DEF Joins
  <2>7. PICK e : e = loc[t].qe.ptr
    OBVIOUS
  <2>8. K2 = K \o <<e>> /\ e \in Elements
    <3>1. L[t] = <<e>>
      BY <2>3, <2>4, <2>7
    <3>2. e \in Elements
      BY <2>3, <2>7, HandsApart
    <3>3. QED
      BY <2>6, <3>1, <3>2
  <2>9. linked' = Append(linked, data[e]) /\ data' = data
    <3>1. data[e] = loc[t].data
      BY <1>8, <2>7, LinksNew
    <3>2. QED
      BY <1>8, <3>1 DEF Links
  <2>10. InOrder(K2)'
    BY <1>2, <1>8, <2>8, <2>9, OrderAppend
  <2>11. QED
    BY <2>2, <2>10
<1>9. QED
  BY <1>4, <1>5, <1>6, <1>7, <1>8, EffectViews

(* No more is taken than was linked, and as much if the queue is empty. *)
LEMMA OrderFacts ==
  ASSUME TypeOK, NEW K, NEW L, Shape(K, L), InOrder(K)
  PROVE  /\ taken \in Nat /\ Len(linked) \in Nat /\ taken <= Len(linked)
         /\ next[dequeue.ptr].ptr = NULL => taken = Len(linked)
         /\ next[dequeue.ptr].ptr # NULL => taken < Len(linked) /\ linked[taken + 1] = data[next[dequeue.ptr].ptr]
<1>1. IsList(next, dequeue.ptr, K)
  BY ShapeFacts
<1>2. linked \in Seq(Items) /\ taken \in Nat
  BY DEF TypeOK
<1>3. K \in Seq(Elements) /\ K # <<>> /\ K[1] = dequeue.ptr
  BY <1>1 DEF IsList
<1>4. Len(K) \in Nat /\ Len(K) >= 1 /\ Len(linked) \in Nat
  BY <1>2, <1>3, SMT
<1>5. Len(linked) = taken + Len(K) - 1 /\ \A i \in 2..Len(K) : linked[taken + i - 1] = data[K[i]]
  BY DEF InOrder
<1>6. ASSUME next[dequeue.ptr].ptr = NULL PROVE taken = Len(linked)
  <2>1. Len(K) = 1
    BY <1>1, <1>6, LastAlone
  <2>2. QED
    BY <1>2, <1>5, <2>1, SMT
<1>7. ASSUME next[dequeue.ptr].ptr # NULL
      PROVE  taken < Len(linked) /\ linked[taken + 1] = data[next[dequeue.ptr].ptr]
  <2>1. next[K[1]].ptr = IF 1 = Len(K) THEN NULL ELSE K[1 + 1]
    <3>1. 1 \in 1..Len(K)
      BY <1>4, SMT
    <3>2. QED
      BY <1>1, <3>1 DEF IsList
  <2>2. Len(K) # 1 /\ next[dequeue.ptr].ptr = K[1 + 1]
    BY <1>3, <1>7, <2>1
  <2>3. \A m, n \in Nat : m >= 1 /\ m # 1 => 2 \in 2..m /\ n < n + m - 1 /\ n + 2 - 1 = n + 1 /\ 1 + 1 = 2
    BY SMT
  <2>4. 2 \in 2..Len(K) /\ taken < taken + Len(K) - 1 /\ taken + 2 - 1 = taken + 1 /\ 1 + 1 = 2
    BY <1>2, <1>4, <2>2, <2>3
  <2>5. QED
    BY <1>5, <2>2, <2>4
<1>8. taken <= Len(linked)
  BY <1>2, <1>4, <1>5, SMT
<1>9. QED
  BY <1>2, <1>4, <1>6, <1>7, <1>8

(* A dequeue that reads a NULL next pointer sees the queue empty. *)
LEMMA SeenStays ==
  ASSUME TypeOK, NEW K, NEW L, Shape(K, L), InOrder(K), Passed, Seen, NEW t \in Threads, Effect(t), View(t)
  PROVE  Seen'
<1>1. \A u \in Threads : u # t => pc'[u] = pc[u] /\ loc'[u] = loc[u]
  BY EffectPointers
<1>2. /\ "deq_next_ptr" \in PastLabels /\ "deq_next_ptr" \in DequeueLabels /\ CheckLabels \subseteq DequeueLabels
      /\ \A l \in {"deq_ptr", "idle", "enq_swing", "deq_free"} : l \notin CheckLabels
      /\ \A l \in {"idle", "enq_swing", "deq_free"} : l \notin DequeueLabels
  BY DEF PastLabels, DequeueLabels, CheckLabels
<1>3. ASSUME pc[t] = "deq_next_ptr", next[loc[t].dequeue.ptr].ptr = NULL PROVE t \in seen_empty
  <2>1. loc[t].dequeue.ptr = dequeue.ptr
    BY <1>2, <1>3 DEF Passed
  <2>2. taken = Len(linked)
    BY <1>3, <2>1, OrderFacts
  <2>3. QED
    BY <1>2, <1>3, <2>2 DEF Seen
<1>4. SUFFICES ASSUME NEW u \in Threads
               PROVE  /\ pc'[u] \in DequeueLabels /\ taken' = Len(linked') => u \in seen_empty'
                      /\ pc'[u] \in CheckLabels /\ loc'[u].next.ptr = NULL => u \in seen_empty'
  BY DEF Seen
<1>5. ASSUME u # t, UNCHANGED <<linked, taken>>, u \in seen_empty => u \in seen_empty'
      PROVE  /\ pc'[u] \in DequeueLabels /\ taken' = Len(linked') => u \in seen_empty'
             /\ pc'[u] \in CheckLabels /\ loc'[u].next.ptr = NULL => u \in seen_empty'
  BY <1>1, <1>5 DEF Seen
<1>6. CASE Silent(t)
  <2>1. CASE u # t
    BY <1>5, <1>6, <2>1 DEF Silent
  <2>2. CASE u = t
    <3>1. pc'[t] \in DequeueLabels /\ taken' = Len(linked') => t \in seen_empty'
      BY <1>6 DEF Silent, Seen
    <3>2. pc'[t] \in CheckLabels /\ loc'[t].next.ptr = NULL => t \in seen_empty
      BY <1>3 DEF View, Reads, Seen
    <3>3. QED
      BY <1>6, <2>2, <3>1, <3>2 DEF Silent
  <2>3. QED
    BY <2>1, <2>2
<1>7. CASE Called(t)
  <2>1. CASE u # t
    BY <1>5, <1>7, <2>1 DEF Called
  <2>2. CASE u = t
    BY <1>2, <1>7, <2>2 DEF Called
  <2>3. QED
    BY <2>1, <2>2
<1>8. CASE FindsEmpty(t)
  <2>1. CASE u # t
    BY <1>5, <1>8, <2>1 DEF FindsEmpty
  <2>2. CASE u = t
    BY <1>2, <1>8, <2>2 DEF FindsEmpty
  <2>3. QED
    BY <2>1, <2>2
<1>9. CASE Puts(t)
  <2>1. taken' # Len(linked')
    <3>1. linked \in Seq(Items) /\ linked' = Append(linked, loc[t].data) /\ taken' = taken
      BY <1>9 DEF TypeOK, Puts
    <3>2. Len(linked') = Len(linked) + 1
      BY <3>1, SMT
    <3>3. taken \in Nat /\ Len(linked) \in Nat /\ taken <= Len(linked)
      BY OrderFacts
    <3>4. QED
      BY <3>1, <3>2, <3>3, SMT
  <2>2. pc'[u] \in CheckLabels /\ loc'[u].next.ptr = NULL => u \in seen_empty'
    BY <1>1, <1>2, <1>9 DEF Puts, Seen
  <2>3. QED
    BY <2>1, <2>2
<1>10. CASE Removes(t)
  <2>1. CASE u = t
    BY <1>2, <1>10, <2>1 DEF Removes
  <2>2. CASE u # t /\ taken' = Len(linked)
    BY <1>1, <1>2, <1>10, <2>2 DEF Removes
  <2>3. CASE u # t /\ taken' # Len(linked)
    <3>1. linked' = linked /\ seen_empty' = seen_empty \ {t}
      BY <1>10, <2>3 DEF Removes
    <3>2. QED
      BY <1>1, <2>3, <3>1 DEF Seen
  <2>4. QED
    BY <2>1, <2>2, <2>3
<1>11. QED
  BY <1>6, <1>7, <1>8, <1>9, <1>10 DEF View

(* What holds when no element is recycled. *)
FifoInv(K) == InOrder(K) /\ NotRecycled /\ Alone /\ Passed /\ Seen

(* The steps of the calls keep it. *)
LEMMA FifoStays ==
  ASSUME TypeOK, FreeOnce, NEW K, NEW L, Shape(K, L), ItemsAreNew, FifoInv(K), NEW t \in Threads, Effect(t), View(t)
  PROVE  \E K2, L2 : Shape(K2, L2)' /\ FifoInv(K2)'
<1>1. InOrder(K) /\ NotRecycled /\ Alone /\ Passed /\ Seen /\ Reads(t)
  BY DEF FifoInv, View
<1>2. NotRecycled' /\ Passed'
  BY <1>1, NotRecycledStays, PassedStays
<1>3. Alone' /\ Seen'
  BY <1>1, AloneStays, SeenStays
<1>4. PICK K2, L2 : Shape(K2, L2)' /\ InOrder(K2)'
  BY <1>1, OrderStays
<1>5. QED
  BY <1>2, <1>3, <1>4 DEF FifoInv

-----------------------------------------------------------------------------
(* The steps of the abstract queue *)

(* Sequences with the same values. *)
LEMMA SameSequence ==
  ASSUME NEW S, NEW r \in Seq(S), NEW z \in Seq(S), Len(r) = Len(z), \A i \in 1..Len(r) : r[i] = z[i]
  PROVE  r = z
<1>1. r = [i \in 1..Len(r) |-> r[i]] /\ z = [i \in 1..Len(z) |-> z[i]]
  BY SMT
<1>2. [i \in 1..Len(r) |-> r[i]] = [i \in 1..Len(z) |-> z[i]]
  BY SMT
<1>3. QED
  BY <1>1, <1>2

(* The rest of a sequence, after the first n values. *)
LEMMA RestFacts ==
  ASSUME NEW S, NEW s \in Seq(S), NEW n \in Nat, n <= Len(s)
  PROVE  /\ SubSeq(s, n + 1, Len(s)) = <<>> <=> n = Len(s)
         /\ n < Len(s) => /\ Head(SubSeq(s, n + 1, Len(s))) = s[n + 1]
                          /\ Tail(SubSeq(s, n + 1, Len(s))) = SubSeq(s, (n + 1) + 1, Len(s))
         /\ \A d \in S : SubSeq(Append(s, d), n + 1, Len(Append(s, d))) = Append(SubSeq(s, n + 1, Len(s)), d)
<1>1. Len(s) \in Nat
  BY SMT
<1>2. SubSeq(s, n + 1, Len(s)) = <<>> <=> n = Len(s)
  <2>1. ASSUME n = Len(s) PROVE SubSeq(s, n + 1, Len(s)) = <<>>
    BY <1>1, <2>1, SMT
  <2>2. ASSUME n # Len(s) PROVE SubSeq(s, n + 1, Len(s)) # <<>>
    <3>1. Len(SubSeq(s, n + 1, Len(s))) = Len(s) - n /\ Len(s) - n # 0
      BY <1>1, <2>2, SMT
    <3>2. Len(<<>>) = 0
      BY SMT
    <3>3. QED
      BY <3>1, <3>2
  <2>3. QED
    BY <2>1, <2>2
<1>3. ASSUME n < Len(s) PROVE Head(SubSeq(s, n + 1, Len(s))) = s[n + 1]
  BY <1>1, <1>3, SMT
<1>4. ASSUME n < Len(s) PROVE Tail(SubSeq(s, n + 1, Len(s))) = SubSeq(s, (n + 1) + 1, Len(s))
  BY <1>1, <1>4, SMT
<1>5. ASSUME NEW d \in S PROVE SubSeq(Append(s, d), n + 1, Len(Append(s, d))) = Append(SubSeq(s, n + 1, Len(s)), d)
  <2>1. PICK a : a = Append(s, d)
    OBVIOUS
  <2>2. a \in Seq(S) /\ Len(a) = Len(s) + 1 /\ a[Len(s) + 1] = d /\ \A i \in 1..Len(s) : a[i] = s[i]
    BY <2>1, SMT
  <2>3. PICK q : q = SubSeq(s, n + 1, Len(s))
    OBVIOUS
  <2>4. q \in Seq(S) /\ Len(q) = Len(s) - n /\ \A i \in 1..(Len(s) - n) : q[i] = s[n + i]
    BY <1>1, <2>3, SMT
  <2>5. PICK r : r = SubSeq(a, n + 1, Len(a))
    OBVIOUS
  <2>6. r \in Seq(S) /\ Len(r) = Len(s) + 1 - n /\ \A i \in 1..(Len(s) + 1 - n) : r[i] = a[n + i]
    BY <1>1, <2>2, <2>5, SMT
  <2>7. PICK z : z = Append(q, d)
    OBVIOUS
  <2>8. z \in Seq(S) /\ Len(z) = Len(s) - n + 1 /\ z[Len(s) - n + 1] = d /\ \A i \in 1..(Len(s) - n) : z[i] = q[i]
    BY <2>4, <2>7, SMT
  <2>9. \A i \in 1..Len(r) : r[i] = z[i]
    <3>1. SUFFICES ASSUME NEW i \in 1..(Len(s) + 1 - n) PROVE r[i] = z[i]
      BY <2>6
    <3>2. CASE i = Len(s) - n + 1
      <4>1. n + i = Len(s) + 1
        BY <1>1, <3>2, SMT
      <4>2. QED
        BY <2>2, <2>6, <2>8, <3>2, <4>1
    <3>3. CASE i # Len(s) - n + 1
      <4>1. i \in 1..(Len(s) - n) /\ n + i \in 1..Len(s)
        BY <1>1, <3>3, SMT
      <4>2. QED
        BY <2>2, <2>4, <2>6, <2>8, <4>1
    <3>4. QED
      BY <3>2, <3>3
  <2>10. r = z
    <3>1. Len(r) = Len(z)
      BY <1>1, <2>6, <2>8, SMT
    <3>2. QED
      BY <2>6, <2>8, <2>9, <3>1, SameSequence
  <2>11. QED
    BY <2>1, <2>3, <2>5, <2>7, <2>10
<1>6. QED
  BY <1>2, <1>3, <1>4, <1>5

(* The queue as its callers see it. *)
Queued == SubSeq(linked, taken + 1, Len(linked))
Pending == {u \in Threads : pc[u] \in DequeueLabels}

(* A step of a call is one of the abstract queue, or none. *)
LEMMA FifoSteps ==
  ASSUME TypeOK, NEW K, NEW L, Shape(K, L), FifoInv(K), NEW t \in Threads, Effect(t), View(t), TypeOK'
  PROVE  Fifo!Next \/ UNCHANGED Fifo!vars
<1>1. InOrder(K) /\ Seen
  BY DEF FifoInv
<1>2. /\ linked \in Seq(Items) /\ taken \in Nat /\ taken <= Len(linked)
      /\ got \in [Threads -> Seq(Items \cup {NoItem})]
  BY <1>1, OrderFacts DEF TypeOK
<1>3. \A u \in Threads : u # t => pc'[u] = pc[u]
  BY EffectPointers
<1>4. /\ "deq_ptr" \in DequeueLabels /\ "deq_check_cnt" \in DequeueLabels /\ "deq_dcas" \in DequeueLabels
      /\ \A l \in {"idle", "enq_link", "enq_swing", "deq_free"} : l \notin DequeueLabels
      /\ "deq_check_cnt" \in CheckLabels
  BY DEF DequeueLabels, CheckLabels
<1>5. /\ (pc'[t] \in DequeueLabels <=> pc[t] \in DequeueLabels) => Pending' = Pending
      /\ pc'[t] \in DequeueLabels => Pending' = Pending \cup {t}
      /\ pc'[t] \notin DequeueLabels => Pending' = Pending \ {t}
      /\ t \in Pending <=> pc[t] \in DequeueLabels
  BY <1>3 DEF Pending
<1>6. CASE Silent(t)
  <2>1. Queued' = Queued /\ Pending' = Pending /\ seen_empty' = seen_empty /\ got' = got
    BY <1>5, <1>6 DEF Silent, Queued
  <2>2. QED
    BY <2>1 DEF Fifo!vars, Queued, Pending
<1>7. CASE Called(t)
  <2>1. Queued' = Queued /\ got' = got /\ t \notin Pending /\ Pending' = Pending \cup {t}
    BY <1>4, <1>5, <1>7 DEF Called, Queued
  <2>2. Queued = <<>> <=> taken = Len(linked)
    BY <1>2, RestFacts DEF Queued
  <2>3. seen_empty' = IF Queued = <<>> THEN seen_empty \cup {t} ELSE seen_empty
    BY <1>7, <2>2 DEF Called
  <2>4. Fifo!CallDequeue(t)
    BY <2>1, <2>3 DEF Fifo!CallDequeue, Queued, Pending
  <2>5. QED
    BY <2>4 DEF Fifo!Next
<1>8. CASE FindsEmpty(t)
  <2>1. Queued' = Queued /\ t \in Pending /\ Pending' = Pending \ {t} /\ seen_empty' = seen_empty \ {t}
    BY <1>4, <1>5, <1>8 DEF FindsEmpty, Queued
  <2>2. t \in seen_empty
    BY <1>1, <1>4, <1>8 DEF FindsEmpty, Seen
  <2>3. got' = [got EXCEPT ![t] = Append(got[t], NoItem)]
    BY <1>8 DEF FindsEmpty
  <2>4. Fifo!DequeueEmpty(t)
    BY <2>1, <2>2, <2>3 DEF Fifo!DequeueEmpty, Queued, Pending
  <2>5. QED
    BY <2>4 DEF Fifo!Next
<1>9. CASE Puts(t)
  <2>1. PICK d : d = loc[t].data
    OBVIOUS
  <2>2. linked' = Append(linked, d) /\ UNCHANGED <<taken, seen_empty, got>> /\ Pending' = Pending
    BY <1>4, <1>5, <1>9, <2>1 DEF Puts
  <2>3. d \in Items
    <3>1. linked' \in Seq(Items)
      BY DEF TypeOK
    <3>2. Len(linked') = Len(linked) + 1 /\ linked'[Len(linked) + 1] = d /\ Len(linked) + 1 \in 1..Len(linked')
      BY <1>2, <2>2, SMT
    <3>3. QED
      BY <3>1, <3>2, SMT
  <2>4. Queued' = Append(Queued, d)
    BY <1>2, <2>2, <2>3, RestFacts DEF Queued
  <2>5. Fifo!Enqueue(d)
    BY <2>2, <2>4 DEF Fifo!Enqueue, Queued, Pending
  <2>6. QED
    BY <2>3, <2>5 DEF Fifo!Next
<1>10. CASE Removes(t)
  <2>1. Unlinks(t)
    <3>1. pc'[t] = "deq_free"
      BY <1>10 DEF Removes
    <3>2. QED
      BY <3>1, EffectLabels DEF Effect
  <2>2. next[dequeue.ptr].ptr # NULL /\ got' = [got EXCEPT ![t] = Append(got[t], data[next[dequeue.ptr].ptr])]
    BY <2>1 DEF Unlinks
  <2>3. taken < Len(linked) /\ linked[taken + 1] = data[next[dequeue.ptr].ptr] /\ taken # Len(linked)
    <3>1. taken < Len(linked) /\ linked[taken + 1] = data[next[dequeue.ptr].ptr]
      BY <1>1, <2>2, OrderFacts
    <3>2. taken # Len(linked)
      BY <1>2, <3>1, SMT
    <3>3. QED
      BY <3>1, <3>2
  <2>4. Queued # <<>> /\ Head(Queued) = linked[taken + 1] /\ Tail(Queued) = SubSeq(linked, (taken + 1) + 1, Len(linked))
    BY <1>2, <2>3, RestFacts DEF Queued
  <2>5. Queued' = Tail(Queued) /\ got' = [got EXCEPT ![t] = Append(got[t], Head(Queued))]
    BY <1>10, <2>2, <2>3, <2>4 DEF Removes, Queued
  <2>6. t \in Pending /\ Pending' = Pending \ {t}
    BY <1>4, <1>5, <1>10 DEF Removes
  <2>7. Queued' = <<>> <=> taken' = Len(linked)
    <3>1. taken' \in Nat /\ taken' <= Len(linked) /\ taken' = taken + 1 /\ linked' = linked
      BY <1>2, <1>10, <2>3, SMT DEF Removes
    <3>2. SubSeq(linked, taken' + 1, Len(linked)) = <<>> <=> taken' = Len(linked)
      BY <1>2, <3>1, RestFacts
    <3>3. QED
      BY <3>1, <3>2 DEF Queued
  <2>8. {u \in Threads \ {t} : pc[u] \in DequeueLabels} = Pending \ {t}
    BY DEF Pending
  <2>9. seen_empty' = IF Queued' = <<>> THEN Pending' ELSE seen_empty \ {t}
    BY <1>10, <2>6, <2>7, <2>8 DEF Removes
  <2>10. Fifo!Dequeue(t)
    BY <2>4, <2>5, <2>6, <2>9 DEF Fifo!Dequeue, Queued, Pending
  <2>11. QED
    BY <2>10 DEF Fifo!Next
<1>11. QED
  BY <1>6, <1>7, <1>8, <1>9, <1>10 DEF View

(* The steps of the calls, when no element is recycled. *)
LEMMA CallsView ==
  ASSUME TypeOK, NEW t \in Threads, ~Recycles, Enqueue(t) \/ GuaranteedEnqueue(t) \/ Dequeue(t) \/ Continue(t)
  PROVE  View(t)
<1>1. ~Enqueue(t)
  <2>1. SUFFICES ASSUME Call(t, "enqueue") PROVE FALSE
    BY DEF Enqueue
  <2>2. calls[t] \in Nat /\ script[t] \in Seq(SUBSET Operations)
    BY QueueAssumption DEF TypeOK
  <2>3. calls[t] < Len(script[t]) /\ "enqueue" \in script[t][calls[t] + 1]
    BY <2>1 DEF Call
  <2>4. calls[t] + 1 \in 1..Len(script[t])
    BY <2>2, <2>3, SMT
  <2>5. QED
    BY <2>3, <2>4 DEF Recycles
<1>2. QED
  BY <1>1, CallViews, EnqueueViews, DequeueViews DEF Continue
=============================================================================
