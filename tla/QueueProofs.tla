---------------------------- MODULE QueueProofs ----------------------------
(***************************************************************************)
(* Proofs about Queue, for every set of threads, every number of elements, *)
(* every set of scripts and whatever aba_count held before queue_new.      *)
(*                                                                         *)
(* A step of a thread is one of a few kinds, each of which keeps the shape *)
(* of the lists (QueueSteps); here each of them keeps what the locals of   *)
(* the threads agree with, and the items.  The lists are given in this     *)
(* argument; the last section shows that From finds them.                  *)
(***************************************************************************)
EXTENDS QueueSteps

(* A step is proved by Zenon; a step with arithmetic, sequences or records *)
(* cites SMT.                                                              *)
USE Zenon

-----------------------------------------------------------------------------
(* What carries the items *)

(* A thread at label l with locals r and list s has the same elements with *)
(* items behind its own as one at label k with locals q and list z.        *)
SameBehind(l, r, s, k, q, z) ==
    \A e : (l \in ReadyLabels /\ e \in ElementsIn(s) /\ e # r.qe.ptr)
               <=> (k \in ReadyLabels /\ e \in ElementsIn(z) /\ e # q.qe.ptr)

(* The elements with items, when no item is linked or returned. *)
LEMMA SameCarriers ==
  ASSUME TypeOK, NEW K, NEW L, NEW t \in Threads, NEW l, NEW r, Moves(t, l, r), dequeue' = dequeue, NEW L2,
         \A u \in Threads : u # t => L2[u] = L[u], SameBehind(l, r, L2[t], pc[t], loc[t], L[t])
  PROVE  Carriers(K, L2)' = Carriers(K, L)
<1> DEFINE In(e) == \E u \in Threads : pc[u] \in ReadyLabels /\ e \in ElementsIn(L[u]) /\ e # loc[u].qe.ptr
           In2(e) == \E u \in Threads : pc'[u] \in ReadyLabels /\ e \in ElementsIn(L2[u]) /\ e # loc'[u].qe.ptr
<1>1. pc'[t] = l /\ loc'[t] = r /\ \A u \in Threads : u # t => pc'[u] = pc[u] /\ loc'[u] = loc[u]
  BY MovesFacts, SMT
<1>2. ASSUME NEW e, NEW u \in Threads
      PROVE  (pc'[u] \in ReadyLabels /\ e \in ElementsIn(L2[u]) /\ e # loc'[u].qe.ptr)
                 <=> (pc[u] \in ReadyLabels /\ e \in ElementsIn(L[u]) /\ e # loc[u].qe.ptr)
  <2>1. CASE u = t
    BY <1>1, <2>1 DEF SameBehind
  <2>2. CASE u # t
    <3>1. pc'[u] = pc[u] /\ loc'[u] = loc[u] /\ L2[u] = L[u]
      BY <1>1, <2>2
    <3>2. QED
      BY <3>1
  <2>3. QED
    BY <2>1, <2>2
<1>3. ASSUME NEW e PROVE In2(e) <=> In(e)
  BY <1>2
<1>4. Carriers(K, L) = {e \in Elements : (e \in ElementsIn(K) /\ e # dequeue.ptr) \/ In(e)}
  BY DEF Carriers
<1>5. Carriers(K, L2)' = {e \in Elements : (e \in ElementsIn(K) /\ e # dequeue.ptr) \/ In2(e)}
  BY DEF Carriers
<1> HIDE DEF In, In2
<1>6. QED
  BY <1>3, <1>4, <1>5

(* The items are conserved, so the queue is still alive. *)
LEMMA StaysLive ==
  ASSUME TypeOK, NEW K, NEW L, Live(K, L), NEW t \in Threads, NEW l, NEW r, Moves(t, l, r), NEW K2, NEW L2,
         NEW C, C = Carriers(K2, L2)', ItemsAreNew', Conserved(C, data', got', linked')
  PROVE  Live(K2, L2)'
<1>1. pc'[t] = l /\ loc'[t] = r /\ \A u \in Threads : u # t => pc'[u] = pc[u] /\ loc'[u] = loc[u]
  BY MovesFacts
<1>2. l # "gone" /\ freed' = freed
  BY DEF Moves
<1>3. freed = {} /\ \A u \in Threads : pc[u] # "gone"
  BY DEF Live
<1>4. freed' = {} /\ \A u \in Threads : pc'[u] # "gone"
  BY <1>1, <1>2, <1>3
<1>5. Conserved(Carriers(K2, L2), data, got, linked)'
  BY DEF Conserved
<1>6. QED
  BY <1>4, <1>5 DEF Live

(* A step that moves no element. *)
LEMMA StillLive ==
  ASSUME TypeOK, NEW K, NEW L, Shape(K, L), Live(K, L), NEW t \in Threads, NEW l, NEW r, Still(t, l, r)
  PROVE  Live(K, L)'
<1>1. /\ Moves(t, l, r) /\ dequeue' = dequeue /\ linked' = linked
      /\ got' = got \/ got' = [got EXCEPT ![t] = Append(got[t], NoItem)]
      /\ \/ calls' = calls
         \/ calls' = [calls EXCEPT ![t] = calls[t] + 1] /\ l \notin HandLabels
      /\ \/ data' = data /\ pc[t] # "init_data"
         \/ pc[t] = "init_data" /\ data' = [data EXCEPT ![loc[t].qe.ptr] = loc[t].data]
  BY DEF Still
<1>2. /\ (l \in TakenLabels <=> pc[t] \in TakenLabels) /\ (l \in ReadyLabels <=> pc[t] \in ReadyLabels)
      /\ l \in HandLabels => r.qe.ptr = loc[t].qe.ptr /\ r.data = loc[t].data
      /\ l \in LinkLabels \cup {"enq_ptr"} => pc[t] \in LinkLabels \cup {"enq_ptr", "init_data"}
  BY DEF Still, SameHands
<1>3. /\ pc[t] = "init_data" => pc[t] \in ReadyLabels
      /\ ReadyLabels \subseteq HandLabels /\ LinkLabels \cup {"enq_ptr"} \subseteq ReadyLabels
      /\ "init_data" \notin LinkLabels \cup {"enq_ptr"}
  BY DEF HandLabels, ReadyLabels, LinkLabels
<1>4. l \in HandLabels <=> pc[t] \in HandLabels
  BY <1>2 DEF HandLabels
<1>5. /\ \A u \in Threads : pc[u] \in HandLabels => loc[u].qe.ptr \in ElementsIn(L[u])
      /\ \A u \in Threads : ElementsIn(L[u]) \subseteq Elements /\ ElementsIn(L[u]) \cap ElementsIn(K) = {}
      /\ ElementsIn(K) \subseteq Elements
  BY ShapePointers
<1>6. \A u \in Threads : u # t => ElementsIn(L[t]) \cap ElementsIn(L[u]) = {}
  BY ShapeFacts
<1>7. ItemsAreNew /\ Conserved(Carriers(K, L), data, got, linked) /\ GivenOnce(got)
  BY DEF Live, Conserved
<1>8. data \in [Elements -> Items \cup {NoItem}] /\ calls \in [Threads -> Nat]
  BY DEF TypeOK
<1>9. /\ \A e \in Elements : e # loc[t].qe.ptr => data'[e] = data[e]
      /\ pc[t] # "init_data" => data' = data
      /\ pc[t] = "init_data" => data'[loc[t].qe.ptr] = loc[t].data
  <2>1. CASE data' = data /\ pc[t] # "init_data"
    BY <2>1
  <2>2. CASE pc[t] = "init_data" /\ data' = [data EXCEPT ![loc[t].qe.ptr] = loc[t].data]
    <3>1. loc[t].qe.ptr \in Elements
      BY <1>3, <1>5, <2>2
    <3>2. QED
      BY <1>8, <2>2, <3>1
  <2>3. QED
    BY <1>1, <2>1, <2>2
<1>10. ItemsAreNew'
  <2>1. \A u \in Threads : u # t => calls'[u] = calls[u]
    BY <1>1, <1>8
  <2>2. \/ calls'[t] = calls[t] /\ (l \in HandLabels => pc[t] \in HandLabels /\ r.data = loc[t].data)
        \/ calls'[t] = calls[t] + 1 /\ (l \in HandLabels => r.data = <<t, calls'[t]>>)
    <3>1. CASE calls' = calls
      BY <1>2, <1>4, <3>1
    <3>2. CASE calls' = [calls EXCEPT ![t] = calls[t] + 1] /\ l \notin HandLabels
      BY <1>8, <3>2
    <3>3. QED
      BY <1>1, <3>1, <3>2
  <2>3. ASSUME NEW u \in Threads, u # t /\ pc[u] \in LinkLabels \cup {"enq_ptr"}
        PROVE  data'[loc[u].qe.ptr] = data[loc[u].qe.ptr]
    <3>1. loc[u].qe.ptr \in ElementsIn(L[u]) /\ loc[u].qe.ptr \in Elements
      BY <1>3, <1>5, <2>3
    <3>2. pc[t] = "init_data" => loc[t].qe.ptr \in ElementsIn(L[t])
      BY <1>3, <1>5
    <3>3. pc[t] = "init_data" => loc[t].qe.ptr # loc[u].qe.ptr
      BY <1>6, <2>3, <3>1, <3>2
    <3>4. QED
      BY <1>9, <3>1, <3>3
  <2>4. l \in LinkLabels \cup {"enq_ptr"} => data'[r.qe.ptr] = r.data
    <3>1. SUFFICES ASSUME l \in LinkLabels \cup {"enq_ptr"} PROVE data'[loc[t].qe.ptr] = loc[t].data
      BY <1>2, <1>3
    <3>2. CASE pc[t] = "init_data"
      BY <1>9, <3>2
    <3>3. CASE pc[t] # "init_data"
      BY <1>2, <1>7, <1>9, <3>1, <3>3 DEF ItemsAreNew
    <3>4. QED
      BY <3>2, <3>3
  <2>5. QED
    BY <1>1, <1>7, <2>1, <2>2, <2>3, <2>4, NewStays
<1>11. Carriers(K, L)' = Carriers(K, L)
  <2>1. SameBehind(l, r, L[t], pc[t], loc[t], L[t])
    BY <1>2, <1>3 DEF SameBehind
  <2>2. QED
    BY <1>1, <2>1, SameCarriers
<1>12. \A e \in Carriers(K, L) : data'[e] = data[e]
  <2>1. SUFFICES ASSUME NEW e \in Carriers(K, L), pc[t] = "init_data" PROVE e # loc[t].qe.ptr /\ e \in Elements
    BY <1>9
  <2>2. loc[t].qe.ptr \in ElementsIn(L[t])
    BY <1>3, <1>5, <2>1
  <2>3. QED
    BY <1>5, <1>6, <2>1, <2>2 DEF Carriers
<1>13. GivenOnce(got') /\ Given(got') = Given(got)
  <2>1. CASE got' = got
    BY <1>7, <2>1
  <2>2. CASE got' = [got EXCEPT ![t] = Append(got[t], NoItem)]
    <3>1. GivenOnce(got') /\ Given(got') = Given(got) \cup ({NoItem} \ {NoItem})
      BY <1>7, <2>2, GotOneMore
    <3>2. QED
      BY <3>1
  <2>3. QED
    BY <1>1, <2>1, <2>2
<1>14. Conserved(Carriers(K, L), data', got', linked')
  BY <1>1, <1>7, <1>12, <1>13, ConservedSame
<1>15. QED
  BY <1>1, <1>10, <1>11, <1>14, StaysLive

(* freelist_pop, an allocation, or freelist_push. *)
LEMMA TakesOrFreesLive ==
  ASSUME TypeOK, NEW K, NEW L, Live(K, L), NEW t \in Threads, NEW r, Takes(t, r) \/ Frees(t, r), NEW s
  PROVE  Live(K, Put(L, t, s))'
<1>1. PICK L2 : L2 = Put(L, t, s)
  OBVIOUS
<1>2. \A u \in Threads : u # t => L2[u] = L[u]
  BY <1>1 DEF Put
<1>3. ItemsAreNew /\ Conserved(Carriers(K, L), data, got, linked)
  BY DEF Live
<1>4. calls \in [Threads -> Nat]
  BY DEF TypeOK
<1>5. /\ dequeue' = dequeue /\ linked' = linked /\ got' = got /\ data' = data
      /\ \E l : /\ Moves(t, l, r) /\ l \notin ReadyLabels /\ pc[t] \notin ReadyLabels
                /\ ItemsAreNew'
  <2>1. CASE Takes(t, r)
    <3>1. /\ Moves(t, "init_count", r) /\ pc[t] = "idle" /\ r.data = <<t, calls[t] + 1>>
          /\ calls' = [calls EXCEPT ![t] = calls[t] + 1]
          /\ dequeue' = dequeue /\ linked' = linked /\ got' = got /\ data' = data
      BY <2>1 DEF Takes
    <3>2. /\ "init_count" \notin ReadyLabels /\ pc[t] \notin ReadyLabels
          /\ "init_count" \notin LinkLabels \cup {"enq_ptr"}
      BY <3>1 DEF ReadyLabels, LinkLabels
    <3>3. calls'[t] = calls[t] + 1 /\ \A u \in Threads : u # t => calls'[u] = calls[u]
      BY <1>4, <3>1
    <3>4. r.data = <<t, calls'[t]>>
      BY <3>1, <3>3
    <3>5. ItemsAreNew'
      BY <1>3, <3>1, <3>2, <3>3, <3>4, NewStays
    <3>6. QED
      BY <3>1, <3>2, <3>5
  <2>2. CASE Frees(t, r)
    <3>1. /\ Moves(t, "idle", r) /\ pc[t] = "deq_free" /\ calls' = calls
          /\ dequeue' = dequeue /\ linked' = linked /\ got' = got /\ data' = data
      BY <2>2 DEF Frees
    <3>2. /\ "idle" \notin ReadyLabels /\ pc[t] \notin ReadyLabels /\ "idle" \notin HandLabels
          /\ "idle" \notin LinkLabels \cup {"enq_ptr"}
      BY <3>1 DEF HandLabels, TakenLabels, ReadyLabels, LinkLabels
    <3>3. ItemsAreNew'
      BY <1>3, <3>1, <3>2, NewStays
    <3>4. QED
      BY <3>1, <3>2, <3>3
  <2>3. QED
    BY <2>1, <2>2
<1>6. PICK l : /\ Moves(t, l, r) /\ l \notin ReadyLabels /\ pc[t] \notin ReadyLabels
               /\ ItemsAreNew'
  BY <1>5
<1>7. Carriers(K, L2)' = Carriers(K, L)
  <2>1. SameBehind(l, r, L2[t], pc[t], loc[t], L[t])
    BY <1>6 DEF SameBehind
  <2>2. QED
    BY <1>2, <1>5, <1>6, <2>1, SameCarriers
<1>8. Conserved(Carriers(K, L), data', got', linked')
  BY <1>3, <1>5
<1>9. Live(K, L2)'
  BY <1>6, <1>7, <1>8, StaysLive
<1>10. QED
  BY <1>1, <1>9

(* The next pointer is cleared. *)
LEMMA ClearsLive ==
  ASSUME TypeOK, NEW K, NEW L, Shape(K, L), Live(K, L), NEW t \in Threads, Clears(t)
  PROVE  Live(K, L)'
<1>1. PICK r : r = loc[t]
  OBVIOUS
<1>2. /\ Moves(t, "init_next_count", r) /\ pc[t] = "init_next_ptr" /\ calls' = calls
      /\ dequeue' = dequeue /\ linked' = linked /\ got' = got /\ data' = data
  BY <1>1 DEF Clears
<1>3. /\ pc[t] \in TakenLabels /\ pc[t] \in HandLabels /\ pc[t] \notin ReadyLabels
      /\ "init_next_count" \notin LinkLabels \cup {"enq_ptr"}
  BY <1>2 DEF HandLabels, TakenLabels, ReadyLabels, LinkLabels
<1>4. ItemsAreNew /\ Conserved(Carriers(K, L), data, got, linked)
  BY DEF Live
<1>5. ItemsAreNew'
  BY <1>1, <1>2, <1>3, <1>4, NewStays
<1>6. ElementsIn(L[t]) = {r.qe.ptr}
  <2>1. Holds(next, pc[t], loc[t], L[t])
    BY ShapeFacts
  <2>2. L[t] = <<r.qe.ptr>>
    BY <1>1, <1>3, <2>1 DEF Holds
  <2>3. QED
    BY <2>2, ShortSequences
<1>7. \A e : e \in ElementsIn(L[t]) => e = r.qe.ptr
  BY <1>6
<1>8. Carriers(K, L)' = Carriers(K, L)
  <2>1. SameBehind("init_next_count", r, L[t], pc[t], loc[t], L[t])
    BY <1>3, <1>7 DEF SameBehind
  <2>2. QED
    BY <1>2, <2>1, SameCarriers
<1>9. Conserved(Carriers(K, L), data', got', linked')
  BY <1>2, <1>4
<1>10. QED
  BY <1>2, <1>5, <1>8, <1>9, StaysLive

(* The elements of a list linked to the end of another. *)
LEMMA ConcatElements ==
  ASSUME NEW s \in Seq(Elements), NEW r \in Seq(Elements), NEW z, IsConcat(s, r, z)
  PROVE  ElementsIn(z) = ElementsIn(s) \cup ElementsIn(r)
<1>1. /\ Len(s) \in Nat /\ Len(r) \in Nat /\ Len(z) = Len(s) + Len(r)
      /\ \A i \in 1..Len(s) : z[i] = s[i]
      /\ \A i \in 1..Len(r) : z[Len(s) + i] = r[i]
  BY SMT DEF IsConcat
<1>2. /\ \A i \in 1..Len(z) : i \in 1..Len(s) \/ (i - Len(s) \in 1..Len(r) /\ i = Len(s) + (i - Len(s)))
      /\ \A i \in 1..Len(s) : i \in 1..Len(z)
      /\ \A i \in 1..Len(r) : Len(s) + i \in 1..Len(z)
  BY <1>1, SMT
<1>3. ASSUME NEW e \in ElementsIn(z) PROVE e \in ElementsIn(s) \cup ElementsIn(r)
  <2>1. PICK i \in 1..Len(z) : e = z[i]
    BY <1>3 DEF ElementsIn
  <2>2. CASE i \in 1..Len(s)
    BY <1>1, <2>1, <2>2 DEF ElementsIn
  <2>3. CASE i - Len(s) \in 1..Len(r) /\ i = Len(s) + (i - Len(s))
    <3>1. PICK j \in 1..Len(r) : i = Len(s) + j
      BY <2>3
    <3>2. QED
      BY <1>1, <2>1, <3>1 DEF ElementsIn
  <2>4. QED
    BY <1>2, <2>2, <2>3
<1>4. ASSUME NEW e \in ElementsIn(s) PROVE e \in ElementsIn(z)
  BY <1>1, <1>2, <1>4 DEF ElementsIn
<1>5. ASSUME NEW e \in ElementsIn(r) PROVE e \in ElementsIn(z)
  <2>1. PICK i \in 1..Len(r) : e = r[i]
    BY <1>5 DEF ElementsIn
  <2>2. PICK j \in 1..Len(z) : z[j] = e
    BY <1>1, <1>2, <2>1
  <2>3. QED
    BY <2>2 DEF ElementsIn
<1>6. QED
  BY <1>3, <1>4, <1>5

(* The elements of t are at the end of the queue, or of the list of another. *)
JoinsQueue(t, K, L, K2, L2) ==
    /\ ElementsIn(K2) = ElementsIn(K) \cup ElementsIn(L[t])
    /\ \A u \in Threads : u # t => ElementsIn(L2[u]) = ElementsIn(L[u])

JoinsThread(t, K, L, K2, L2) ==
    /\ K2 = K
    /\ \E w \in Threads :
          /\ w # t /\ pc[w] \in ReadyLabels /\ ElementsIn(L2[w]) = ElementsIn(L[w]) \cup ElementsIn(L[t])
          /\ \A u \in Threads : u # t /\ u # w => ElementsIn(L2[u]) = ElementsIn(L[u])

(* Where the elements of t are after a step that joins them to a list. *)
LEMMA JoinedElements ==
  ASSUME TypeOK, NEW K, NEW L, Shape(K, L), NEW t \in Threads, pc[t] \in ReadyLabels,
         NEW K2, NEW L2, Joins(t, K, L, K2, L2)
  PROVE  JoinsQueue(t, K, L, K2, L2) \/ JoinsThread(t, K, L, K2, L2)
<1>1. \A u \in Threads : pc[u] \in ReadyLabels => L[u] \in Seq(Elements)
  BY ShapeFacts DEF Holds, IsList
<1>2. K \in Seq(Elements)
  BY ShapeFacts DEF IsList
<1>3. CASE K2 = K \o L[t] /\ L2 = Put(L, t, <<>>)
  <2>1. IsConcat(K, L[t], K2)
    BY <1>3 DEF IsConcat
  <2>2. ElementsIn(K2) = ElementsIn(K) \cup ElementsIn(L[t])
    BY <1>1, <1>2, <2>1, ConcatElements
  <2>3. \A u \in Threads : u # t => L2[u] = L[u]
    BY <1>3 DEF Put
  <2>4. QED
    BY <2>2, <2>3 DEF JoinsQueue
<1>4. CASE \E w \in Threads \ {t} : pc[w] \in ReadyLabels /\ K2 = K /\ L2 = Put(Put(L, t, <<>>), w, L[w] \o L[t])
  <2>1. PICK w \in Threads \ {t} : pc[w] \in ReadyLabels /\ K2 = K /\ L2 = Put(Put(L, t, <<>>), w, L[w] \o L[t])
    BY <1>4
  <2>2. L2[w] = L[w] \o L[t] /\ \A u \in Threads : u # t /\ u # w => L2[u] = L[u]
    BY <2>1 DEF Put
  <2>3. IsConcat(L[w], L[t], L2[w])
    BY <2>2 DEF IsConcat
  <2>4. ElementsIn(L2[w]) = ElementsIn(L[w]) \cup ElementsIn(L[t])
    BY <1>1, <2>1, <2>3, ConcatElements
  <2>5. QED
    BY <2>1, <2>2, <2>4 DEF JoinsThread
<1>5. QED
  BY <1>3, <1>4 DEF Joins

(* The dcas on the next pointer. *)
LEMMA LinksLive ==
  ASSUME TypeOK, NEW K, NEW L, Shape(K, L), Live(K, L), NEW t \in Threads, NEW r, Links(t, r),
         NEW K2, NEW L2, Joins(t, K, L, K2, L2)
  PROVE  Live(K2, L2)'
<1> DEFINE qe == loc[t].qe.ptr
<1>1. /\ Moves(t, "enq_swing", r) /\ pc[t] = "enq_link"
      /\ dequeue' = dequeue /\ got' = got /\ data' = data
  BY DEF Links
<1>2. pc[t] \in ReadyLabels /\ "enq_swing" \notin ReadyLabels
  BY <1>1 DEF ReadyLabels, LinkLabels
<1>3. pc'[t] = "enq_swing" /\ \A u \in Threads : u # t => pc'[u] = pc[u] /\ loc'[u] = loc[u]
  BY <1>1, MovesFacts
<1>4. ItemsAreNew /\ Conserved(Carriers(K, L), data, got, linked)
  BY DEF Live
<1>5. /\ ItemsAreNew' /\ data[qe] = loc[t].data
      /\ loc[t].data \notin ElementsIn(linked) /\ ElementsIn(linked') = ElementsIn(linked) \cup {loc[t].data}
  BY <1>4, LinksNew
<1>6. /\ qe \in ElementsIn(L[t]) /\ qe \in Elements /\ dequeue.ptr \in ElementsIn(K)
      /\ \A u \in Threads : ElementsIn(L[u]) \cap ElementsIn(K) = {}
      /\ \A u \in Threads : pc[u] \in ReadyLabels => loc[u].qe.ptr \in ElementsIn(L[u])
  BY <1>2, ShapePointers DEF HandLabels
<1>7. \A u \in Threads : u # t => ElementsIn(L[t]) \cap ElementsIn(L[u]) = {}
  BY ShapeFacts
<1>a. /\ \A u \in Threads : ElementsIn(L[u]) \subseteq Elements /\ ElementsIn(K) \subseteq Elements
      /\ \A e \in ElementsIn(L[t]) : e # dequeue.ptr /\ \A u \in Threads : u # t /\ pc[u] \in ReadyLabels => e # loc[u].qe.ptr
  BY <1>6, <1>7, ShapePointers, SMT
<1>8. Carriers(K2, L2)' = Carriers(K, L) \cup {qe}
  <2> DEFINE In(e) == \E u \in Threads : pc[u] \in ReadyLabels /\ e \in ElementsIn(L[u]) /\ e # loc[u].qe.ptr
             In2(e) == \E u \in Threads : pc'[u] \in ReadyLabels /\ e \in ElementsIn(L2[u]) /\ e # loc'[u].qe.ptr
  <2>1. Carriers(K, L) = {e \in Elements : (e \in ElementsIn(K) /\ e # dequeue.ptr) \/ In(e)}
    BY DEF Carriers
  <2>2. Carriers(K2, L2)' = {e \in Elements : (e \in ElementsIn(K2) /\ e # dequeue.ptr) \/ In2(e)}
    BY <1>1 DEF Carriers
  <2>3. ASSUME NEW e
        PROVE  (e \in ElementsIn(K2) /\ e # dequeue.ptr) \/ In2(e)
                   <=> (e \in ElementsIn(K) /\ e # dequeue.ptr) \/ In(e) \/ e = qe
    <3>1. CASE JoinsQueue(t, K, L, K2, L2)
      <4>1. In(e) <=> In2(e) \/ (e \in ElementsIn(L[t]) /\ e # qe)
        BY <1>2, <1>3, <3>1 DEF JoinsQueue
      <4>2. QED
        BY <1>6, <1>a, <3>1, <4>1 DEF JoinsQueue
    <3>2. CASE JoinsThread(t, K, L, K2, L2)
      <4>1. PICK w \in Threads : /\ w # t /\ pc[w] \in ReadyLabels /\ ElementsIn(L2[w]) = ElementsIn(L[w]) \cup ElementsIn(L[t])
                                 /\ \A u \in Threads : u # t /\ u # w => ElementsIn(L2[u]) = ElementsIn(L[u])
        BY <3>2 DEF JoinsThread
      <4>2. In2(e) <=> In(e) \/ e = qe
        <5>1. ASSUME In2(e) PROVE In(e) \/ e = qe
          <6>1. PICK u \in Threads : pc'[u] \in ReadyLabels /\ e \in ElementsIn(L2[u]) /\ e # loc'[u].qe.ptr
            BY <5>1
          <6>2. u # t /\ pc[u] \in ReadyLabels /\ e # loc[u].qe.ptr
            BY <1>2, <1>3, <6>1
          <6>3. e \in ElementsIn(L[u]) \/ e \in ElementsIn(L[t])
            BY <4>1, <6>1, <6>2
          <6>4. QED
            BY <1>2, <6>2, <6>3
        <5>2. ASSUME In(e) PROVE In2(e)
          <6>1. PICK u \in Threads : pc[u] \in ReadyLabels /\ e \in ElementsIn(L[u]) /\ e # loc[u].qe.ptr
            BY <5>2
          <6>2. CASE u = t
            BY <1>3, <1>a, <4>1, <6>1, <6>2, SMT
          <6>3. CASE u # t
            BY <1>3, <4>1, <6>1, <6>3
          <6>4. QED
            BY <6>2, <6>3
        <5>3. ASSUME e = qe PROVE In2(e)
          BY <1>3, <1>6, <1>a, <4>1, <5>3
        <5>4. QED
          BY <5>1, <5>2, <5>3
      <4>3. QED
        BY <3>2, <4>2 DEF JoinsThread
    <3>3. QED
      <4>1. pc[t] \in ReadyLabels
        BY <1>2
      <4>2. QED
        BY <3>1, <3>2, <4>1, JoinedElements
  <2> HIDE DEF In, In2
  <2>4. QED
    BY <1>6, <2>1, <2>2, <2>3
<1>9. Conserved(Carriers(K, L) \cup {qe}, data, got, linked')
  BY <1>4, <1>5, ConservedLink
<1>10. QED
  BY <1>1, <1>5, <1>8, <1>9, StaysLive

(* The dcas on qs->dequeue. *)
LEMMA UnlinksLive ==
  ASSUME TypeOK, NEW K, NEW L, Shape(K, L), Live(K, L), NEW t \in Threads, Unlinks(t),
         NEW Z, ElementsIn(Z) = ElementsIn(K) \ {dequeue.ptr}, NEW s
  PROVE  Live(Z, Put(L, t, s))'
<1> DEFINE n == next[dequeue.ptr].ptr
<1>1. /\ Moves(t, "deq_free", loc[t]) /\ pc[t] = "deq_dcas" /\ n # NULL /\ dequeue'.ptr = n
      /\ got' = [got EXCEPT ![t] = Append(got[t], data[n])]
      /\ calls' = calls /\ linked' = linked /\ data' = data
  BY DEF Unlinks
<1>2. /\ "deq_free" \notin ReadyLabels /\ pc[t] \notin ReadyLabels /\ "deq_free" \notin HandLabels
      /\ "deq_free" \notin LinkLabels \cup {"enq_ptr"}
  BY <1>1 DEF HandLabels, TakenLabels, ReadyLabels, LinkLabels
<1>3. pc'[t] = "deq_free" /\ \A u \in Threads : u # t => pc'[u] = pc[u] /\ loc'[u] = loc[u]
  BY <1>1, MovesFacts
<1>4. ItemsAreNew /\ Conserved(Carriers(K, L), data, got, linked)
  BY DEF Live
<1>5. ItemsAreNew'
  BY <1>1, <1>2, <1>4, NewStays
<1>6. /\ n \in ElementsIn(K) /\ n # dequeue.ptr /\ n \in Elements
      /\ \A u \in Threads : n \notin ElementsIn(L[u])
  <2>1. IsList(next, dequeue.ptr, K) /\ dequeue.ptr \in ElementsIn(K)
    BY ShapeFacts
  <2>2. n \in ElementsIn(K) /\ n # dequeue.ptr
    BY <1>1, <2>1, ListFacts
  <2>3. QED
    BY <2>2, ShapePointers
<1>7. PICK L2 : L2 = Put(L, t, s)
  OBVIOUS
<1>8. \A u \in Threads : u # t => L2[u] = L[u]
  BY <1>7 DEF Put
<1> HIDE DEF n
<1>9. Carriers(Z, L2)' = Carriers(K, L) \ {n}
  <2> DEFINE In(e) == \E u \in Threads : pc[u] \in ReadyLabels /\ e \in ElementsIn(L[u]) /\ e # loc[u].qe.ptr
             In2(e) == \E u \in Threads : pc'[u] \in ReadyLabels /\ e \in ElementsIn(L2[u]) /\ e # loc'[u].qe.ptr
  <2>1. Carriers(K, L) = {e \in Elements : (e \in ElementsIn(K) /\ e # dequeue.ptr) \/ In(e)}
    BY DEF Carriers
  <2>2. Carriers(Z, L2)' = {e \in Elements : (e \in ElementsIn(Z) /\ e # n) \/ In2(e)}
    BY <1>1 DEF Carriers
  <2>3. ASSUME NEW e PROVE In2(e) <=> In(e)
    <3>1. ASSUME NEW u \in Threads
          PROVE  (pc'[u] \in ReadyLabels /\ e \in ElementsIn(L2[u]) /\ e # loc'[u].qe.ptr)
                     <=> (pc[u] \in ReadyLabels /\ e \in ElementsIn(L[u]) /\ e # loc[u].qe.ptr)
      BY <1>2, <1>3, <1>8
    <3>2. QED
      BY <3>1
  <2>4. ~ In(n)
    BY <1>6
  <2> HIDE DEF In, In2
  <2>5. \A e : (e \in ElementsIn(Z) /\ e # n) \/ In2(e) <=> ((e \in ElementsIn(K) /\ e # dequeue.ptr) \/ In(e)) /\ e # n
    BY <2>3, <2>4
  <2>6. QED
    BY <2>1, <2>2, <2>5
<1>10. n \in Carriers(K, L)
  BY <1>6 DEF Carriers
<1>11. /\ GivenOnce(got) /\ data[n] \notin Given(got) /\ data[n] \in Items /\ data[n] # NoItem
  <2>1. /\ GivenOnce(got) /\ data[n] \notin Given(got) /\ data[n] \in ElementsIn(linked)
    BY <1>4, <1>10 DEF Conserved
  <2>2. data[n] \in Items
    BY <2>1, LinkedFacts DEF ElementsIn
  <2>3. QED
    BY <2>1, <2>2, ItemFields
<1>12. GivenOnce(got') /\ Given(got') = Given(got) \cup {data[n]}
  <2>1. GivenOnce(got') /\ Given(got') = Given(got) \cup ({data[n]} \ {NoItem})
    BY <1>1, <1>11, GotOneMore
  <2>2. QED
    BY <1>11, <2>1
<1>13. Conserved(Carriers(K, L) \ {n}, data, got', linked)
  BY <1>4, <1>10, <1>12, ConservedReturn
<1>14. Live(Z, L2)'
  BY <1>1, <1>5, <1>9, <1>13, StaysLive
<1>15. QED
  BY <1>7, <1>14

-----------------------------------------------------------------------------
(* The invariant, with the lists given *)

Good(K, L) == TypeOK /\ FreeOnce /\ LocalsAgree /\ Shape(K, L)

(* The pointers that the steps follow. *)
LEMMA GoodIsGrounded ==
  ASSUME NEW K, NEW L, Good(K, L), Live(K, L)
  PROVE  Grounded
<1>1. TypeOK /\ Shape(K, L) /\ ItemsAreNew
  BY DEF Good, Live
<1>2. /\ enqueue.ptr \in ElementsIn(K) /\ dequeue.ptr \in ElementsIn(K) /\ ElementsIn(K) \subseteq Elements
      /\ enqueue.ptr # dequeue.ptr => next[dequeue.ptr].ptr # NULL
      /\ \A t \in Threads : pc[t] \in HandLabels => loc[t].qe.ptr \in ElementsIn(L[t])
      /\ \A t \in Threads : ElementsIn(L[t]) \subseteq Elements
  BY <1>1, ShapePointers
<1>3. ASSUME NEW t \in Threads, pc[t] \in HandLabels PROVE loc[t].qe.ptr \in Elements /\ loc[t].data # NoItem
  <2>1. loc[t].data = <<t, calls[t]>>
    BY <1>1, <1>3 DEF ItemsAreNew
  <2>2. loc[t].data # NoItem
    BY <2>1, SMT DEF NoItem
  <2>3. QED
    BY <1>2, <1>3, <2>2
<1>4. ASSUME NEW t \in Threads, pc[t] \in LinkLabels PROVE loc[t].enqueue.ptr \in Elements
  <2>1. loc[t].enqueue.ptr \in 1..element_count
    BY <1>1, <1>4 DEF Shape, Tails
  <2>2. QED
    BY <1>1, <2>1, TypeFacts
<1>5. ASSUME NEW t \in Threads, pc[t] = "deq_free" PROVE loc[t].dequeue.ptr \in Elements
  <2>1. Holds(next, pc[t], loc[t], L[t])
    BY <1>1, ShapeFacts
  <2>2. ElementsIn(L[t]) = {loc[t].dequeue.ptr}
    BY <1>5, <2>1, ShortSequences DEF Holds
  <2>3. QED
    BY <1>2, <2>2
<1>6. QED
  BY <1>2, <1>3, <1>4, <1>5 DEF Grounded

(* Every kind of step keeps it. *)
LEMMA EffectKeeps ==
  ASSUME NEW K, NEW L, Good(K, L), Live(K, L), NEW t \in Threads, Effect(t)
  PROVE  \E K2, L2 : Good(K2, L2)' /\ Live(K2, L2)'
<1>1. TypeOK /\ FreeOnce /\ LocalsAgree /\ Shape(K, L)
  BY DEF Good
<1>2. TypeOK' /\ LocalsAgree'
  BY <1>1, EffectAgrees
<1>3. SUFFICES FreeOnce' /\ \E K2, L2 : Shape(K2, L2)' /\ Live(K2, L2)'
  BY <1>2 DEF Good
<1>4. ASSUME NEW l \in Labels, NEW r \in Locals, Still(t, l, r)
      PROVE  FreeOnce' /\ \E K2, L2 : Shape(K2, L2)' /\ Live(K2, L2)'
  <2>1. fs' = fs
    BY <1>4 DEF Still
  <2>2. FreeOnce'
    BY <1>1, <2>1 DEF FreeOnce
  <2>3. Shape(K, L)' /\ Live(K, L)'
    BY <1>1, <1>4, StillShape, StillLive
  <2>4. QED
    BY <2>2, <2>3
<1>5. ASSUME NEW r \in Locals, Takes(t, r)
      PROVE  FreeOnce' /\ \E K2, L2 : Shape(K2, L2)' /\ Live(K2, L2)'
  <2>1. FreeOnce' /\ Shape(K, Put(L, t, <<r.qe.ptr>>))'
    BY <1>1, <1>5, TakesShape
  <2>2. Live(K, Put(L, t, <<r.qe.ptr>>))'
    BY <1>1, <1>5, TakesOrFreesLive
  <2>3. QED
    BY <2>1, <2>2
<1>6. ASSUME NEW r \in Locals, Frees(t, r)
      PROVE  FreeOnce' /\ \E K2, L2 : Shape(K2, L2)' /\ Live(K2, L2)'
  <2>1. FreeOnce' /\ Shape(K, Put(L, t, <<>>))'
    BY <1>1, <1>6, FreesShape
  <2>2. Live(K, Put(L, t, <<>>))'
    BY <1>1, <1>6, TakesOrFreesLive
  <2>3. QED
    BY <2>1, <2>2
<1>7. ASSUME NEW r \in Locals, Links(t, r)
      PROVE  FreeOnce' /\ \E K2, L2 : Shape(K2, L2)' /\ Live(K2, L2)'
  <2>1. fs' = fs
    BY <1>7 DEF Links
  <2>2. FreeOnce'
    BY <1>1, <2>1 DEF FreeOnce
  <2>3. PICK K2, L2 : Joins(t, K, L, K2, L2)
    BY <1>1, <1>7, LinksJoins
  <2>4. Shape(K2, L2)' /\ Live(K2, L2)'
    BY <1>1, <1>7, <2>3, LinksShape, LinksLive
  <2>5. QED
    BY <2>2, <2>4
<1>8. ASSUME Clears(t)
      PROVE  FreeOnce' /\ \E K2, L2 : Shape(K2, L2)' /\ Live(K2, L2)'
  <2>1. fs' = fs
    BY <1>8 DEF Clears
  <2>2. FreeOnce'
    BY <1>1, <2>1 DEF FreeOnce
  <2>3. Shape(K, L)' /\ Live(K, L)'
    BY <1>1, <1>8, ClearsShape, ClearsLive
  <2>4. QED
    BY <2>2, <2>3
<1>9. ASSUME Unlinks(t)
      PROVE  FreeOnce' /\ \E K2, L2 : Shape(K2, L2)' /\ Live(K2, L2)'
  <2>1. PICK Z : Z = Tail(K)
    OBVIOUS
  <2>2. PICK s : s = <<dequeue.ptr>>
    OBVIOUS
  <2>3. FreeOnce' /\ Shape(Z, Put(L, t, s))'
    BY <1>1, <1>9, <2>1, <2>2, UnlinksShape
  <2>4. IsList(next, dequeue.ptr, K) /\ next[dequeue.ptr].ptr # NULL
    BY <1>1, <1>9, ShapeFacts DEF Unlinks
  <2>5. ElementsIn(Z) = ElementsIn(K) \ {dequeue.ptr}
    BY <2>1, <2>4, TailList, SMT
  <2>6. Live(Z, Put(L, t, s))'
    BY <1>1, <1>9, <2>5, UnlinksLive
  <2>7. QED
    BY <2>3, <2>6
<1>10. QED
  BY <1>4, <1>5, <1>6, <1>7, <1>8, <1>9 DEF Effect

(* Every step of a call is of one of the kinds. *)
LEMMA CallsHaveEffect ==
  ASSUME NEW K, NEW L, Good(K, L), Live(K, L), NEW t \in Threads,
         Enqueue(t) \/ GuaranteedEnqueue(t) \/ Dequeue(t) \/ Continue(t)
  PROVE  Effect(t)
<1>1. TypeOK /\ LocalsAgree /\ Grounded
  BY GoodIsGrounded DEF Good
<1>2. CASE Enqueue(t) \/ GuaranteedEnqueue(t) \/ Dequeue(t)
  BY <1>1, <1>2, CallEffects
<1>3. CASE Continue(t)
  <2>1. CASE InitCount(t) \/ InitNextPointer(t) \/ InitNextCount(t) \/ InitNextCounter(t) \/ InitData(t)
    BY <1>1, <2>1, InitEffects
  <2>2. CASE \/ EnqReadPointer(t) \/ EnqReadCounter(t) \/ EnqReadNextPointer(t) \/ EnqReadNextCounter(t)
             \/ EnqCheckPointer(t) \/ EnqCheckCounter(t) \/ EnqLink(t) \/ EnqHelp(t) \/ EnqSwing(t)
    BY <1>1, <2>2, EnqueueEffects
  <2>3. CASE \/ DeqReadPointer(t) \/ DeqReadCounter(t) \/ DeqReadEnqueuePointer(t) \/ DeqReadEnqueueCounter(t)
             \/ DeqReadNextPointer(t) \/ DeqCheckPointer(t) \/ DeqCheckCounter(t) \/ DeqHelp(t)
             \/ DeqReadData(t) \/ DeqDcas(t) \/ DeqFree(t)
    BY <1>1, <2>3, DequeueEffects
  <2>4. QED
    BY <1>3, <2>1, <2>2, <2>3 DEF Continue
<1>4. QED
  BY <1>2, <1>3

(* queue_new. *)
LEMMA InitIsGood ==
  ASSUME Init
  PROVE  \E K, L : Good(K, L) /\ Live(K, L)
<1> DEFINE n == number_elements + 1
           K == <<n>>
           L == [t \in Threads |-> <<>>]
<1>1. /\ number_elements \in Nat /\ MaxElements \in Nat /\ n \in Elements /\ n \in Nat /\ n <= MaxElements
      /\ Scripts \subseteq [Threads -> Seq(SUBSET Operations)] /\ Garbage \subseteq Nat
  BY QueueAssumption, SMT DEF Elements
<1>2. /\ enqueue = [ptr |-> n, cnt |-> 0] /\ dequeue = [ptr |-> n, cnt |-> 0]
      /\ data = [e \in Elements |-> NoItem] /\ aba_count = 0 /\ fs = [i \in 1..number_elements |-> i]
      /\ element_count = n /\ freed = {} /\ pc = [t \in Threads |-> "idle"] /\ loc = [t \in Threads |-> NoLocals]
      /\ script \in Scripts /\ calls = [t \in Threads |-> 0] /\ got = [t \in Threads |-> <<>>]
      /\ linked = <<>> /\ taken = 0 /\ seen_empty = {}
  BY DEF Init
<1>3. PICK g \in Garbage : next = [e \in Elements |-> IF e = n THEN [ptr |-> NULL, cnt |-> g + 2] ELSE NullPac]
  BY DEF Init
<1>4. next \in [Elements -> Pacs] /\ next[n].ptr = NULL
  BY <1>1, <1>3, SMT DEF Pacs, Pac, NullPac, NULL
<1>5. enqueue \in Pacs /\ dequeue \in Pacs /\ enqueue.ptr = n /\ dequeue.ptr = n
  BY <1>1, <1>2, SMT DEF Pacs, Pac
<1>6. NoLocals \in Locals
  BY <1>1, SMT DEF NoLocals, Locals, Pacs, Pac, NullPac, NULL
<1>7. /\ Len(fs) = number_elements /\ fs \in Seq(Elements) /\ \A i \in 1..Len(fs) : fs[i] = i
      /\ ElementsIn(fs) = 1..number_elements
  <2>1. fs \in Seq(Elements) /\ Len(fs) = number_elements
    BY <1>1, <1>2, SMT DEF Elements
  <2>2. \A i \in 1..Len(fs) : fs[i] = i
    BY <1>2, <2>1
  <2>3. QED
    BY <2>1, <2>2 DEF ElementsIn
<1> HIDE DEF n
<1>8. TypeOK
  <2>1. /\ aba_count \in Nat /\ element_count \in 0..MaxElements /\ taken \in Nat /\ calls \in [Threads -> Nat]
    BY <1>1, <1>2, SMT
  <2>2. data \in [Elements -> Items \cup {NoItem}] /\ loc \in [Threads -> Locals] /\ script \in Scripts /\ seen_empty \subseteq Threads
    BY <1>2, <1>6
  <2>3. got \in [Threads -> Seq(Items \cup {NoItem})] /\ linked \in Seq(Items)
    BY <1>2, SMT
  <2>4. pc \in [Threads -> Labels]
    BY <1>2 DEF Labels
  <2>5. QED
    BY <1>4, <1>5, <1>7, <2>1, <2>2, <2>3, <2>4 DEF TypeOK, Locals
<1>9. FreeOnce
  BY <1>7 DEF FreeOnce
<1>10. "idle" \notin HandLabels \cup {"deq_free"} \cup LinkLabels \cup ReadyLabels \cup DequeueLabels \cup {"enq_swing", "gone"}
  BY DEF HandLabels, TakenLabels, ReadyLabels, LinkLabels, DequeueLabels
<1>11. \A t \in Threads : pc[t] = "idle" /\ L[t] = <<>>
  BY <1>2
<1>12. LocalsAgree
  <2>1. "idle" \notin LinkLabels \cup {"enq_swing"} \cup DequeueLabels
    BY <1>10
  <2>2. QED
    BY <1>11, <2>1, NothingToAgree DEF LocalsAgree
<1>13. IsList(next, dequeue.ptr, K) /\ ElementsIn(K) = {n} /\ ElementsIn(<<>>) = {}
  BY <1>1, <1>4, <1>5, SingleList, ShortSequences
<1> HIDE DEF K, L
<1>14. Lists(K, L)
  BY <1>5, <1>10, <1>11, <1>13 DEF Lists, Holds, HandLabels
<1>15. Places(K, L)
  <2>1. \A t \in Threads : Hands(L)[t] = {}
    BY <1>11, <1>13 DEF Hands
  <2>2. UNION {Hands(L)[t] : t \in Threads} = {}
    BY <2>1
  <2>3. (1..number_elements) \cap {n} = {} /\ (1..number_elements) \cup {n} = 1..n
    BY <1>1, SMT DEF n
  <2>4. QED
    BY <1>2, <1>7, <1>13, <2>1, <2>2, <2>3 DEF Places, Partition
<1>16. Tails(K, L) /\ Edges(pc, loc, L) = {}
  BY <1>10, <1>11 DEF Tails, Edges
<1>17. Acyclic(Edges(pc, loc, L))
  BY <1>16 DEF Acyclic
<1>18. Shape(K, L)
  BY <1>14, <1>15, <1>16, <1>17 DEF Shape
<1>19. ItemsAreNew
  <2>1. 1..Len(linked) = {}
    BY <1>2, SMT
  <2>2. QED
    BY <1>10, <1>11, <2>1 DEF ItemsAreNew
<1>20. Carriers(K, L) = {} /\ GivenOnce(got) /\ Given(got) = {} /\ ElementsIn(linked) = {}
  <2>1. Carriers(K, L) = {}
    BY <1>5, <1>10, <1>11, <1>13 DEF Carriers
  <2>2. \A t \in Threads : 1..Len(got[t]) = {}
    BY <1>2, SMT
  <2>3. GivenOnce(got) /\ Given(got) = {}
    BY <2>2 DEF GivenOnce, Given
  <2>4. ElementsIn(linked) = {}
    BY <1>2, <1>13
  <2>5. QED
    BY <2>1, <2>3, <2>4
<1>21. Live(K, L)
  BY <1>2, <1>10, <1>11, <1>19, <1>20 DEF Live, Conserved
<1>22. QED
  BY <1>8, <1>9, <1>12, <1>18, <1>21 DEF Good

(* After queue_delete nothing happens any more. *)
LEMMA GoneIsGone ==
  ASSUME NEW t \in Threads, pc[t] = "gone"
  PROVE  ~(Enqueue(t) \/ GuaranteedEnqueue(t) \/ Dequeue(t) \/ Continue(t) \/ Delete(t))
<1>1. ~(Enqueue(t) \/ GuaranteedEnqueue(t) \/ Dequeue(t) \/ Delete(t))
  BY DEF Enqueue, GuaranteedEnqueue, Dequeue, Call, Delete
<1>2. ~(InitCount(t) \/ InitNextPointer(t) \/ InitNextCount(t) \/ InitNextCounter(t) \/ InitData(t))
  BY DEF InitCount, InitNextPointer, InitNextCount, InitNextCounter, InitData, Goto
<1>3. ~(\/ EnqReadPointer(t) \/ EnqReadCounter(t) \/ EnqReadNextPointer(t) \/ EnqReadNextCounter(t)
        \/ EnqCheckPointer(t) \/ EnqCheckCounter(t) \/ EnqLink(t) \/ EnqHelp(t) \/ EnqSwing(t))
  BY DEF EnqReadPointer, EnqReadCounter, EnqReadNextPointer, EnqReadNextCounter, EnqCheckPointer,
               EnqCheckCounter, EnqLink, EnqHelp, EnqSwing, Local, Goto
<1>4. ~(\/ DeqReadPointer(t) \/ DeqReadCounter(t) \/ DeqReadEnqueuePointer(t) \/ DeqReadEnqueueCounter(t)
        \/ DeqReadNextPointer(t) \/ DeqCheckPointer(t) \/ DeqCheckCounter(t) \/ DeqHelp(t)
        \/ DeqReadData(t) \/ DeqDcas(t) \/ DeqFree(t))
  BY DEF DeqReadPointer, DeqReadCounter, DeqReadEnqueuePointer, DeqReadEnqueueCounter, DeqReadNextPointer,
               DeqCheckPointer, DeqCheckCounter, DeqDecide, DeqHelp, DeqReadData, DeqDcas, DeqFree, Local, Goto
<1>5. QED
  BY <1>1, <1>2, <1>3, <1>4 DEF Continue

(* A step that changes nothing. *)
LEMMA StutterKeeps ==
  ASSUME NEW K, NEW L, Good(K, L), UNCHANGED vars
  PROVE  Good(K, L)' /\ (Live(K, L) => Live(K, L)') /\ (Deleted => Deleted')
<1>1. /\ enqueue' = enqueue /\ dequeue' = dequeue /\ next' = next /\ data' = data /\ aba_count' = aba_count /\ fs' = fs
      /\ element_count' = element_count /\ freed' = freed /\ pc' = pc /\ loc' = loc /\ script' = script /\ calls' = calls
      /\ got' = got /\ linked' = linked /\ taken' = taken /\ seen_empty' = seen_empty
  BY DEF vars, memory, callers, history
<1>2. TypeOK' /\ FreeOnce' /\ LocalsAgree'
  <2>1. TypeOK'
    BY <1>1 DEF Good, TypeOK
  <2>2. FreeOnce'
    BY <1>1 DEF Good, FreeOnce
  <2>3. LocalsAgree'
    BY <1>1 DEF Good, LocalsAgree
  <2>4. QED
    BY <2>1, <2>2, <2>3
<1>3. Shape(K, L)'
  <2>1. Lists(K, L)'
    BY <1>1 DEF Good, Shape, Lists
  <2>2. Places(K, L)'
    BY <1>1 DEF Good, Shape, Places, Hands
  <2>3. Tails(K, L)'
    BY <1>1 DEF Good, Shape, Tails
  <2>4. Acyclic(Edges(pc, loc, L))'
    BY <1>1 DEF Good, Shape, Acyclic, Edges
  <2>5. QED
    BY <2>1, <2>2, <2>3, <2>4 DEF Shape
<1>4. ASSUME Live(K, L) PROVE Live(K, L)'
  <2>1. ItemsAreNew'
    BY <1>1, <1>4 DEF Live, ItemsAreNew
  <2>2. Carriers(K, L)' = Carriers(K, L)
    BY <1>1 DEF Carriers
  <2>3. Conserved(Carriers(K, L), data, got, linked)'
    <3>1. Conserved(Carriers(K, L), data, got, linked)
      BY <1>4 DEF Live
    <3>2. Conserved(Carriers(K, L), data', got', linked')
      BY <1>1, <3>1
    <3>3. QED
      BY <2>2, <3>2 DEF Conserved
  <2>4. QED
    BY <1>1, <1>4, <2>1, <2>3 DEF Live
<1>5. ASSUME Deleted PROVE Deleted'
  BY <1>1, <1>5 DEF Deleted
<1>6. QED
  BY <1>2, <1>3, <1>4, <1>5 DEF Good

(* What was returned, as the properties have it. *)
LEMMA ReturnedIs ==
  ASSUME TypeOK, GivenOnce(got)
  PROVE  /\ \A r, s \in Returned : got[r[1]][r[2]] = got[s[1]][s[2]] => r = s
         /\ \A r \in Returned : got[r[1]][r[2]] \in Given(got)
         /\ \A x \in Given(got) : \E r \in Returned : got[r[1]][r[2]] = x
<1>1. ASSUME NEW r \in Returned
      PROVE  /\ r = <<r[1], r[2]>> /\ r[1] \in Threads /\ r[2] \in 1..Len(got[r[1]]) /\ got[r[1]][r[2]] # NoItem
  <2>1. PICK t \in Threads : r \in {<<t, i>> : i \in {k \in 1..Len(got[t]) : got[t][k] # NoItem}}
    BY <1>1 DEF Returned
  <2>2. PICK i \in {k \in 1..Len(got[t]) : got[t][k] # NoItem} : r = <<t, i>>
    BY <2>1
  <2>3. QED
    BY <2>2, SMT
<1>2. ASSUME NEW r \in Returned, NEW s \in Returned, got[r[1]][r[2]] = got[s[1]][s[2]] PROVE r = s
  <2>1. PICK t, u, i, j : t = r[1] /\ i = r[2] /\ u = s[1] /\ j = s[2]
    OBVIOUS
  <2>2. /\ t \in Threads /\ u \in Threads /\ i \in 1..Len(got[t]) /\ j \in 1..Len(got[u])
        /\ got[t][i] # NoItem /\ got[t][i] = got[u][j]
    BY <1>1, <1>2, <2>1
  <2>3. t = u /\ i = j
    BY <2>2, SMT DEF GivenOnce
  <2>4. r = <<t, i>> /\ s = <<u, j>>
    BY <1>1, <2>1
  <2>5. QED
    BY <2>3, <2>4
<1>3. ASSUME NEW r \in Returned PROVE got[r[1]][r[2]] \in Given(got)
  <2>1. PICK t, i : t = r[1] /\ i = r[2]
    OBVIOUS
  <2>2. t \in Threads /\ i \in 1..Len(got[t]) /\ got[t][i] # NoItem
    BY <1>1, <2>1
  <2>3. got[t] \in Seq(Items \cup {NoItem})
    BY <2>2 DEF TypeOK
  <2>4. got[t][i] \in Items
    BY <2>2, <2>3, SMT
  <2>5. QED
    BY <2>1, <2>2, <2>4 DEF Given
<1>4. ASSUME NEW x \in Given(got) PROVE \E r \in Returned : got[r[1]][r[2]] = x
  <2>1. PICK t \in Threads : \E i \in 1..Len(got[t]) : got[t][i] = x
    BY <1>4 DEF Given
  <2>2. PICK i \in 1..Len(got[t]) : got[t][i] = x
    BY <2>1
  <2>3. x # NoItem
    BY <1>4, ItemFields DEF Given
  <2>4. PICK r : r = <<t, i>>
    OBVIOUS
  <2>5. r \in Returned
    <3>1. i \in {k \in 1..Len(got[t]) : got[t][k] # NoItem}
      BY <2>2, <2>3
    <3>2. r \in {<<t, k>> : k \in {k \in 1..Len(got[t]) : got[t][k] # NoItem}}
      BY <2>4, <3>1
    <3>3. QED
      BY <3>2 DEF Returned
  <2>6. r[1] = t /\ r[2] = i
    BY <2>4, SMT
  <2>7. QED
    BY <2>2, <2>5, <2>6
<1>5. QED
  BY <1>2, <1>3, <1>4

-----------------------------------------------------------------------------
(* From finds the lists *)

INSTANCE WellFoundedInduction

(* A set of natural numbers that holds 0 and with every number the next    *)
(* one holds them all.                                                     *)
LEMMA SetInduction ==
  ASSUME NEW S, 0 \in S, \A n \in Nat : n \in S => n + 1 \in S
  PROVE  \A n \in Nat : n \in S
<1> DEFINE T == Nat \ S
<1>1. SUFFICES ASSUME T # {} PROVE FALSE
  OBVIOUS
<1>2. IsWellFoundedOn(OpToRel(<, Nat), Nat)
  BY NatLessThanWellFounded
<1>3. PICK x \in T : \A y \in T : <<y, x>> \notin OpToRel(<, Nat)
  BY <1>1, <1>2, WFMin
<1>4. x \in Nat /\ x # 0 /\ x - 1 \in Nat /\ x - 1 < x
  BY SMT
<1>5. x - 1 \notin T
  BY <1>3, <1>4 DEF OpToRel
<1>6. QED
  BY <1>4, <1>5, SMT

(* The end of a sequence, from value i on. *)
LEMMA EndProperties ==
  ASSUME NEW S, NEW s \in Seq(S)
  PROVE  /\ SubSeq(s, 1, Len(s)) = s
         /\ SubSeq(s, Len(s) + 1, Len(s)) = <<>>
         /\ \A i \in 1..Len(s) : SubSeq(s, i, Len(s)) = <<s[i]>> \o SubSeq(s, i + 1, Len(s))
  BY SMT

(* No function maps more than m numbers to different numbers up to m. *)
LEMMA Pigeonhole ==
  ASSUME NEW m \in Nat, NEW n \in Nat, NEW f \in [1..n -> 1..m],
         \A i, j \in 1..n : f[i] = f[j] => i = j
  PROVE  n <= m
<1> DEFINE S == {b \in Nat : \A k \in Nat : \A g \in [1..k -> 1..b] :
                   (\A i, j \in 1..k : g[i] = g[j] => i = j) => k <= b}
<1>1. 0 \in S
  <2>1. SUFFICES ASSUME NEW k \in Nat, NEW g \in [1..k -> 1..0] PROVE k <= 0
    OBVIOUS
  <2>2. k # 0 => 1 \in 1..k
    BY SMT
  <2>3. k # 0 => g[1] \in 1..0
    BY <2>2
  <2>4. QED
    BY <2>3, SMT
<1>2. ASSUME NEW b \in Nat, b \in S PROVE b + 1 \in S
  <2>a. b + 1 \in Nat /\ 0 <= b + 1
    BY SMT
  <2>1. SUFFICES ASSUME NEW k \in Nat, NEW g \in [1..k -> 1..(b + 1)], k # 0,
                        \A i, j \in 1..k : g[i] = g[j] => i = j
                 PROVE  k <= b + 1
    BY <2>a
  <2> DEFINE h == [i \in 1..(k - 1) |-> IF g[i] = b + 1 THEN g[k] ELSE g[i]]
  <2>2. k - 1 \in Nat /\ k \in 1..k /\ \A i \in 1..(k - 1) : i \in 1..k /\ i # k
    BY <2>1, SMT
  <2>3. \A i \in 1..(k - 1) : h[i] \in 1..b
    <3>1. SUFFICES ASSUME NEW i \in 1..(k - 1) PROVE h[i] \in 1..b
      OBVIOUS
    <3>2. g[i] \in 1..(b + 1) /\ g[k] \in 1..(b + 1) /\ g[i] # g[k]
      BY <2>1, <2>2
    <3>3. h[i] = IF g[i] = b + 1 THEN g[k] ELSE g[i]
      OBVIOUS
    <3>4. QED
      BY <3>2, <3>3, SMT
  <2>4. h \in [1..(k - 1) -> 1..b]
    BY <2>3
  <2>5. \A i, j \in 1..(k - 1) : h[i] = h[j] => i = j
    <3>1. SUFFICES ASSUME NEW i \in 1..(k - 1), NEW j \in 1..(k - 1), h[i] = h[j] PROVE i = j
      OBVIOUS
    <3>2. h[i] = (IF g[i] = b + 1 THEN g[k] ELSE g[i]) /\ h[j] = (IF g[j] = b + 1 THEN g[k] ELSE g[j])
      OBVIOUS
    <3>3. g[i] # g[k] /\ g[j] # g[k] /\ (g[i] = g[j] => i = j)
      BY <2>1, <2>2
    <3>4. QED
      BY <3>1, <3>2, <3>3
  <2>6. k - 1 <= b
    BY <1>2, <2>2, <2>4, <2>5
  <2>7. QED
    BY <2>1, <2>6, SMT
<1>3. m \in S
  <2> HIDE DEF S
  <2>1. QED
    BY <1>1, <1>2, SetInduction
<1>4. QED
  BY <1>3

(* A sequence of elements without repetition is no longer than their       *)
(* number.                                                                 *)
LEMMA DistinctLength ==
  ASSUME NEW s \in Seq(Elements), \A i, j \in 1..Len(s) : s[i] = s[j] => i = j
  PROVE  Len(s) <= MaxElements
<1>1. MaxElements \in Nat /\ Len(s) \in Nat /\ s \in [1..Len(s) -> 1..MaxElements]
  BY QueueAssumption, SMT DEF Elements
<1>2. QED
  BY <1>1, Pigeonhole

(* The first n elements from each pointer on, given the ones of n - 1. *)
Body(nx, walk, n) ==
    [x \in Pointers |-> IF x = NULL \/ n = 0 THEN <<>> ELSE <<x>> \o walk[n - 1][nx[x].ptr]]

Walk(nx) == CHOOSE walk : walk = [n \in Pointers |-> Body(nx, walk, n)]

(* The recursion has a solution. *)
LEMMA WalkExists ==
  ASSUME NEW nx
  PROVE  \A k \in Nat : \E g : g = [n \in 0..k |-> Body(nx, g, n)]
<1> DEFINE S == {k \in Nat : \E g : g = [n \in 0..k |-> Body(nx, g, n)]}
<1>1. 0 \in S
  <2> DEFINE g == [n \in 0..0 |-> [x \in Pointers |-> <<>>]]
  <2>1. g = [n \in 0..0 |-> Body(nx, g, n)]
    BY SMT DEF Body
  <2>2. QED
    BY <2>1, SMT
<1>2. ASSUME NEW k \in Nat, k \in S PROVE k + 1 \in S
  <2>1. PICK g : g = [n \in 0..k |-> Body(nx, g, n)]
    BY <1>2
  <2> DEFINE h == [n \in 0..(k+1) |-> IF n <= k THEN g[n] ELSE Body(nx, g, n)]
  <2>2. ASSUME NEW n \in 0..(k+1) PROVE h[n] = Body(nx, h, n)
    <3>1. n # 0 => h[n-1] = g[n-1]
      BY SMT
    <3> HIDE DEF h
    <3>2. Body(nx, h, n) = Body(nx, g, n)
      BY <3>1, SMT DEF Body
    <3>3. CASE n <= k
      BY <2>1, <3>2, <3>3, SMT DEF h
    <3>4. CASE ~(n <= k)
      BY <3>2, <3>4, SMT DEF h
    <3>5. QED
      BY <3>3, <3>4, SMT
  <2>3. h = [n \in 0..(k+1) |-> h[n]]
    OBVIOUS
  <2> HIDE DEF h
  <2>4. h = [n \in 0..(k+1) |-> Body(nx, h, n)]
    BY <2>2, <2>3, SMT
  <2>5. QED
    BY <2>4, SMT
<1> HIDE DEF S
<1>3. \A k \in Nat : k \in S
  BY <1>1, <1>2, SetInduction, SMT
<1>4. QED
  BY <1>3 DEF S

(* One step of the walk. *)
LEMMA WalkStep ==
  ASSUME NEW nx, NEW n \in Pointers, NEW x \in Pointers
  PROVE  Walk(nx)[n][x] = IF x = NULL \/ n = 0 THEN <<>> ELSE <<x>> \o Walk(nx)[n - 1][nx[x].ptr]
<1>1. \E g : g = [k \in 0..MaxElements |-> Body(nx, g, k)]
  BY QueueAssumption, WalkExists
<1>2. Walk(nx) = [k \in Pointers |-> Body(nx, Walk(nx), k)]
  BY <1>1 DEF Walk, Pointers
<1>3. Walk(nx)[n] = Body(nx, Walk(nx), n)
  BY <1>2, SMT
<1>4. QED
  BY <1>3, SMT DEF Body

(* The walk finds the list. *)
LEMMA WalkIsList ==
  ASSUME NEW nx, NEW p, NEW s, IsList(nx, p, s)
  PROVE  Walk(nx)[MaxElements][p] = s
<1> DEFINE m == Len(s)
           at(i) == IF i <= m THEN s[i] ELSE NULL
           rest(i) == SubSeq(s, i, m)
           S == {r \in Nat : r <= m => \A n \in r..MaxElements : Walk(nx)[n][at(m + 1 - r)] = rest(m + 1 - r)}
<1>1. /\ m \in Nat /\ m >= 1 /\ m <= MaxElements /\ MaxElements \in Nat /\ s \in Seq(Elements)
      /\ \A i \in 1..m : s[i] \in Elements
      /\ \A i \in 1..m : nx[s[i]].ptr = at(i + 1)
  <2>1. s \in Seq(Elements) /\ s # <<>> /\ m \in Nat /\ m <= MaxElements /\ MaxElements \in Nat
    BY QueueAssumption, DistinctLength, SMT DEF IsList
  <2>2. m >= 1 /\ \A i \in 1..m : s[i] \in Elements
    BY <2>1, SMT
  <2>3. \A i \in 1..m : nx[s[i]].ptr = at(i + 1)
    BY <2>1, SMT DEF IsList
  <2>4. QED
    BY <2>1, <2>2, <2>3, SMT
<1>2. 0 \in S
  <2>1. SUFFICES ASSUME NEW n \in 0..MaxElements PROVE Walk(nx)[n][at(m + 1)] = rest(m + 1)
    BY <1>1, SMT
  <2>2. at(m + 1) = NULL /\ NULL \in Pointers
    BY <1>1, SMT DEF NULL, Pointers
  <2>3. rest(m + 1) = <<>>
    BY <1>1, EndProperties
  <2>4. n \in Pointers
    BY DEF Pointers
  <2>5. Walk(nx)[n][NULL] = <<>>
    BY <2>2, <2>4, WalkStep
  <2>6. QED
    BY <2>2, <2>3, <2>5
<1>3. ASSUME NEW r \in Nat, r \in S PROVE r + 1 \in S
  <2>1. SUFFICES ASSUME r + 1 <= m, NEW n \in (r + 1)..MaxElements
                 PROVE  Walk(nx)[n][at(m + 1 - (r + 1))] = rest(m + 1 - (r + 1))
    BY SMT
  <2>a. m \in Nat
    BY <1>1, SMT
  <2>2. PICK i \in 1..m : i = m + 1 - (r + 1)
    <3> HIDE DEF m
    <3>1. m + 1 - (r + 1) \in 1..m
      BY <2>a, <2>1, SMT
    <3>2. QED
      BY <3>1
  <2>3. at(i) = s[i] /\ s[i] \in Elements /\ s[i] \in Pointers /\ s[i] # NULL
    BY <1>1, SMT DEF Elements, Pointers, NULL
  <2>4. n \in Pointers /\ n # 0 /\ n - 1 \in r..MaxElements
    BY <1>1, <2>1, SMT DEF Pointers
  <2>5. Walk(nx)[n][s[i]] = <<s[i]>> \o Walk(nx)[n - 1][nx[s[i]].ptr]
    BY <2>3, <2>4, WalkStep
  <2>6. Walk(nx)[n - 1][at(i + 1)] = rest(i + 1)
    <3>1. i + 1 = m + 1 - r /\ r <= m
      BY <1>1, <2>1, <2>2, SMT
    <3>2. QED
      BY <1>3, <2>4, <3>1
  <2>7. rest(i) = <<s[i]>> \o rest(i + 1)
    <3>1. /\ s \in Seq(Elements) /\ i \in 1..Len(s) /\ Len(s) \in 1..Len(s) /\ i <= Len(s)
      BY <1>1, SMT
    <3>2. QED
      BY <3>1, EndProperties
  <2>8. QED
    BY <1>1, <2>2, <2>3, <2>5, <2>6, <2>7
<1>4. m \in S
  <2> HIDE DEF S
  <2>1. QED
    BY <1>1, <1>2, <1>3, SetInduction
<1>5. Walk(nx)[MaxElements][at(1)] = rest(1)
  BY <1>1, <1>4, SMT
<1>6. p = at(1)
  BY <1>1 DEF IsList
<1>7. rest(1) = s
  BY <1>1, EndProperties
<1>8. QED
  BY <1>5, <1>6, <1>7, SMT

(* The walks of the model are the ones above. *)
LEMMA FromIsWalk ==
  /\ From(dequeue.ptr) = Walk(next)[MaxElements][dequeue.ptr]
  /\ \A t : From(loc[t].qe.ptr) = Walk(next)[MaxElements][loc[t].qe.ptr]
BY DEF From, Walk, Body, Pointers

(* From finds the queue and what the enqueues have in their hands. *)
LEMMA FromIsList ==
  ASSUME NEW K, NEW L, Lists(K, L)
  PROVE  /\ From(dequeue.ptr) = K /\ Chain(dequeue.ptr) = ElementsIn(K)
         /\ \A t \in Threads : pc[t] \in ReadyLabels => From(loc[t].qe.ptr) = L[t]
<1>1. IsList(next, dequeue.ptr, K) /\ \A t \in Threads : pc[t] \in ReadyLabels => IsList(next, loc[t].qe.ptr, L[t])
  BY DEF Lists, Holds
<1>2. From(dequeue.ptr) = K
  BY <1>1, FromIsWalk, WalkIsList
<1>3. ASSUME NEW t \in Threads, pc[t] \in ReadyLabels PROVE From(loc[t].qe.ptr) = L[t]
  <2>1. IsList(next, loc[t].qe.ptr, L[t])
    BY <1>1, <1>3
  <2>2. Walk(next)[MaxElements][loc[t].qe.ptr] = L[t]
    BY <2>1, WalkIsList
  <2>3. QED
    BY <2>2, FromIsWalk
<1>4. QED
  BY <1>2, <1>3 DEF Chain

-----------------------------------------------------------------------------
(* queue_delete *)

(* The items that queue_delete finds in the queue are the ones that are    *)
(* linked and not returned yet.                                            *)
LEMMA ItemsLeft ==
  ASSUME TypeOK, NEW K, NEW L, Shape(K, L), Live(K, L), \A u \in Threads : pc[u] = "idle",
         NEW w, w = ItemsAfter(dequeue.ptr)
  PROVE  /\ w \in Seq(Items) /\ Len(w) \in Nat
         /\ \A i, j \in 1..Len(w) : w[i] = w[j] => i = j
         /\ \A i \in 1..Len(w) : w[i] \notin Given(got)
         /\ Given(got) \cup ElementsIn(w) = ElementsIn(linked)
<1> DEFINE C == Carriers(K, L)
           m == Len(K) - 1
<1>1. /\ K \in Seq(Elements) /\ K # <<>> /\ K[1] = dequeue.ptr
      /\ \A i, j \in 1..Len(K) : K[i] = K[j] => i = j
  BY DEF Shape, Lists, IsList
<1>2. m \in Nat /\ Len(K) = m + 1 /\ \A i \in 1..m : i + 1 \in 1..Len(K) /\ i + 1 # 1 /\ K[i + 1] \in Elements
  BY <1>1, SMT
<1>3. w = [i \in 1..m |-> data[K[i + 1]]]
  BY FromIsList DEF ItemsAfter, Shape
<1>a. PICK a : a = [i \in 1..m |-> K[i + 1]]
  OBVIOUS
<1>b. \A i \in 1..m : a[i] = K[i + 1]
  BY <1>a
<1>4. Len(w) = m /\ \A i \in 1..m : w[i] = data[a[i]]
  BY <1>2, <1>3, <1>b, SMT
<1>5. 1 \in 1..Len(K) /\ \A i \in 1..Len(K) : i # 1 => i - 1 \in 1..m /\ (i - 1) + 1 = i
  BY <1>2, SMT
<1> HIDE DEF m
<1>6. "idle" \notin ReadyLabels
  BY DEF ReadyLabels, LinkLabels
<1>7. C = {e \in Elements : e \in ElementsIn(K) /\ e # dequeue.ptr}
  BY <1>6 DEF Carriers
<1>8. ASSUME NEW i \in 1..m PROVE a[i] \in C
  <2>1. K[i + 1] \in ElementsIn(K)
    BY <1>2 DEF ElementsIn
  <2>2. K[i + 1] # dequeue.ptr
    BY <1>1, <1>2, <1>5
  <2>3. QED
    BY <1>2, <1>7, <1>b, <2>1, <2>2
<1>9. ASSUME NEW e \in C PROVE \E i \in 1..m : e = a[i]
  <2>1. PICK i \in 1..Len(K) : e = K[i]
    BY <1>7, <1>9 DEF ElementsIn
  <2>2. i # 1
    BY <1>1, <1>7, <1>9, <2>1
  <2>3. PICK j \in 1..m : j + 1 = i
    BY <1>5, <2>2
  <2>4. QED
    BY <1>b, <2>1, <2>3
<1>10. /\ \A e, f \in C : data[e] = data[f] => e = f
       /\ Given(got) \cap {data[e] : e \in C} = {}
       /\ ElementsIn(linked) = Given(got) \cup {data[e] : e \in C}
  BY DEF Live, Conserved
<1> HIDE DEF C
<1>11. ElementsIn(w) = {data[e] : e \in C}
  <2>1. ElementsIn(w) = {w[i] : i \in 1..m}
    BY <1>4 DEF ElementsIn
  <2>2. {w[i] : i \in 1..m} = {data[a[i]] : i \in 1..m}
    <3>1. \A i \in 1..m : w[i] = data[a[i]]
      BY <1>4
    <3>2. QED
      BY <3>1, SMT
  <2>3. {data[a[i]] : i \in 1..m} = {data[e] : e \in C}
    <3>1. ASSUME NEW i \in 1..m PROVE data[a[i]] \in {data[e] : e \in C}
      BY <1>8
    <3>2. ASSUME NEW e \in C PROVE data[e] \in {data[a[i]] : i \in 1..m}
      <4>1. PICK i \in 1..m : e = a[i]
        BY <1>9
      <4>2. QED
        BY <4>1
    <3>3. QED
      BY <3>1, <3>2
  <2>4. QED
    BY <2>1, <2>2, <2>3
<1>12. ASSUME NEW i \in 1..m, NEW j \in 1..m, w[i] = w[j] PROVE i = j
  <2>a. a[i] = a[j]
    <3>1. data[a[i]] = data[a[j]] /\ a[i] \in C /\ a[j] \in C
      BY <1>4, <1>8, <1>12
    <3>2. QED
      BY <1>10, <3>1
  <2>1. K[i + 1] = K[j + 1]
    BY <1>b, <2>a
  <2>2. i + 1 = j + 1
    BY <1>1, <1>2, <2>1
  <2>3. QED
    BY <1>2, <2>2, SMT
<1>13. ASSUME NEW i \in 1..m PROVE w[i] \in Items /\ w[i] \notin Given(got)
  <2>1. w[i] \in ElementsIn(linked) /\ w[i] \notin Given(got)
    <3>1. w[i] = data[a[i]] /\ a[i] \in C
      BY <1>4, <1>8
    <3>2. w[i] \in {data[e] : e \in C}
      BY <3>1
    <3>3. QED
      BY <1>10, <3>2
  <2>2. QED
    BY <2>1, LinkedFacts DEF ElementsIn
<1>14. w \in Seq(Items)
  BY <1>2, <1>3, <1>13, SMT
<1>15. QED
  BY <1>2, <1>4, <1>10, <1>11, <1>12, <1>13, <1>14

(* queue_delete leaves the lists and frees all that is in them. *)
LEMMA DeleteKeeps ==
  ASSUME NEW K, NEW L, Good(K, L), Live(K, L), NEW t \in Threads, Delete(t)
  PROVE  Good(K, L)' /\ Deleted'
<1>1. TypeOK /\ FreeOnce /\ LocalsAgree /\ Shape(K, L)
  BY DEF Good
<1>2. PICK w : w = ItemsAfter(dequeue.ptr)
  OBVIOUS
<1>3. /\ \A u \in Threads : pc[u] = "idle"
      /\ pc' = [u \in Threads |-> "gone"] /\ got' = [got EXCEPT ![t] = got[t] \o w] /\ taken' = taken + Len(w)
      /\ freed' = freed \cup {fs[i] : i \in 1..Len(fs)} \cup Chain(dequeue.ptr)
      /\ enqueue' = enqueue /\ dequeue' = dequeue /\ next' = next /\ data' = data /\ aba_count' = aba_count /\ fs' = fs
      /\ element_count' = element_count /\ loc' = loc /\ script' = script /\ calls' = calls /\ linked' = linked
      /\ seen_empty' = seen_empty
  BY <1>2 DEF Delete, callers
<1>4. /\ w \in Seq(Items) /\ Len(w) \in Nat
      /\ \A i, j \in 1..Len(w) : w[i] = w[j] => i = j
      /\ \A i \in 1..Len(w) : w[i] \notin Given(got)
      /\ Given(got) \cup ElementsIn(w) = ElementsIn(linked)
  BY <1>1, <1>2, <1>3, ItemsLeft
<1>5. \A u \in Threads : pc'[u] = "gone"
  BY <1>3
<1>6. {"idle", "gone"} \cap (HandLabels \cup {"deq_free"} \cup LinkLabels \cup ReadyLabels \cup DequeueLabels \cup {"enq_swing"}) = {}
  BY DEF HandLabels, TakenLabels, ReadyLabels, LinkLabels, DequeueLabels
<1>7. got \in [Threads -> Seq(Items \cup {NoItem})]
  BY <1>1 DEF TypeOK
<1>8. TypeOK'
  <2>1. got' \in [Threads -> Seq(Items \cup {NoItem})]
    <3>1. got[t] \o w \in Seq(Items \cup {NoItem})
      BY <1>4, <1>7, SMT
    <3>2. QED
      BY <1>3, <1>7, <3>1
  <2>2. taken' \in Nat
    BY <1>1, <1>3, <1>4, SMT DEF TypeOK
  <2>3. pc' \in [Threads -> Labels]
    BY <1>3 DEF Labels
  <2>4. QED
    BY <1>1, <1>3, <2>1, <2>2, <2>3 DEF TypeOK
<1>9. FreeOnce'
  BY <1>1, <1>3 DEF FreeOnce
<1>10. LocalsAgree'
  <2>1. "gone" \notin LinkLabels \cup {"enq_swing"} /\ "gone" \notin DequeueLabels
    BY <1>6
  <2>2. QED
    BY <1>5, <2>1, NothingToAgree DEF LocalsAgree
<1>11. \A u \in Threads : L[u] = <<>>
  BY <1>1, <1>3, <1>6 DEF Shape, Lists, Holds
<1>12. Lists(K, L)'
  BY <1>1, <1>3, <1>5, <1>6, <1>11 DEF Shape, Lists, Holds, HandLabels
<1>13. Places(K, L)'
  BY <1>1, <1>3 DEF Shape, Places, Hands
<1>14. Tails(K, L)'
  BY <1>5, <1>6 DEF Tails
<1>15. Acyclic(Edges(pc, loc, L))'
  <2>1. Edges(pc', loc', L) = {}
    BY <1>5, <1>6 DEF Edges
  <2>2. Acyclic(Edges(pc', loc', L))
    BY <2>1 DEF Acyclic
  <2>3. QED
    BY <2>2 DEF Acyclic, Edges
<1>16. Good(K, L)'
  BY <1>8, <1>9, <1>10, <1>12, <1>13, <1>14, <1>15 DEF Good, Shape
<1>17. freed' = 1..element_count'
  <2>1. Partition(ElementsIn(fs), ElementsIn(K), Hands(L), element_count)
    BY <1>1 DEF Shape, Places
  <2>2. \A u \in Threads : Hands(L)[u] = {}
    BY <1>11, ShortSequences DEF Hands
  <2>3. ElementsIn(fs) \cup ElementsIn(K) = 1..element_count
    BY <2>1, <2>2 DEF Partition
  <2>4. freed = {} /\ Chain(dequeue.ptr) = ElementsIn(K)
    BY <1>1, FromIsList DEF Live, Shape
  <2>5. QED
    BY <1>3, <2>3, <2>4 DEF ElementsIn
<1>18. Extends(got, got', t, w)
  <2>1. \A u \in Threads : u # t => got'[u] = got[u]
    BY <1>3, <1>7
  <2>2. got[t] \in Seq(Items \cup {NoItem}) /\ got'[t] = got[t] \o w /\ w \in Seq(Items \cup {NoItem})
    BY <1>3, <1>4, <1>7, SMT
  <2>3. /\ Len(got[t]) \in Nat /\ Len(w) \in Nat /\ Len(got'[t]) = Len(got[t]) + Len(w)
        /\ \A i \in 1..Len(got[t]) : got'[t][i] = got[t][i]
        /\ \A j \in 1..Len(w) : got'[t][Len(got[t]) + j] = w[j]
    BY <2>2, SMT
  <2>4. QED
    BY <2>1, <2>3 DEF Extends
<1>19. GivenOnce(got)
  BY DEF Live, Conserved
<1>20. /\ \A i, j \in 1..Len(w) : w[i] # NoItem /\ w[i] = w[j] => i = j
       /\ \A i \in 1..Len(w) : w[i] = NoItem \/ (w[i] \in Items /\ w[i] \notin Given(got))
       /\ ElementsIn(w) \subseteq Items
  BY <1>4, SMT DEF ElementsIn
<1>21. GivenOnce(got') /\ Given(got') = Given(got) \cup (ElementsIn(w) \ {NoItem})
  BY <1>18, <1>19, <1>20, GivenMore
<1>22. Given(got') = ElementsIn(linked)
  <2>1. ElementsIn(w) \ {NoItem} = ElementsIn(w)
    BY <1>20, ItemFields
  <2>2. QED
    BY <1>4, <1>21, <2>1
<1>23. Deleted'
  BY <1>3, <1>5, <1>17, <1>21, <1>22 DEF Deleted
<1>24. QED
  BY <1>16, <1>23

-----------------------------------------------------------------------------
(* The invariant *)

Inv == \E K, L : Good(K, L) /\ (Live(K, L) \/ Deleted)

(* Every step keeps the invariant. *)
LEMMA NextKeeps == Inv /\ [Next]_vars => Inv'
<1>1. SUFFICES ASSUME Inv, [Next]_vars PROVE Inv'
  OBVIOUS
<1>2. PICK K, L : Good(K, L) /\ (Live(K, L) \/ Deleted)
  BY <1>1 DEF Inv
<1>3. CASE UNCHANGED vars
  BY <1>2, <1>3, StutterKeeps DEF Inv
<1>4. CASE Next
  <2>1. PICK t \in Threads : Enqueue(t) \/ GuaranteedEnqueue(t) \/ Dequeue(t) \/ Continue(t) \/ Delete(t)
    BY <1>4 DEF Next
  <2>2. Live(K, L)
    <3>1. pc[t] # "gone"
      BY <2>1, GoneIsGone
    <3>2. QED
      BY <1>2, <3>1 DEF Deleted
  <2>3. CASE Delete(t)
    BY <1>2, <2>2, <2>3, DeleteKeeps DEF Inv
  <2>4. CASE Enqueue(t) \/ GuaranteedEnqueue(t) \/ Dequeue(t) \/ Continue(t)
    BY <1>2, <2>2, <2>4, CallsHaveEffect, EffectKeeps DEF Inv
  <2>5. QED
    BY <2>1, <2>3, <2>4
<1>5. QED
  BY <1>1, <1>3, <1>4

(* It is the one of the model, which finds the lists. *)
LEMMA InvIsIInv == Inv => IInv
<1>1. SUFFICES ASSUME Inv PROVE IInv
  OBVIOUS
<1>2. PICK K, L : Good(K, L) /\ (Live(K, L) \/ Deleted)
  BY <1>1 DEF Inv
<1> DEFINE M == [t \in Threads |-> IF pc[t] \in TakenLabels THEN <<loc[t].qe.ptr>>
                                   ELSE IF pc[t] \in ReadyLabels THEN From(loc[t].qe.ptr)
                                   ELSE IF pc[t] = "deq_free" THEN <<loc[t].dequeue.ptr>> ELSE <<>>]
<1>3. TypeOK /\ FreeOnce /\ LocalsAgree /\ Shape(K, L) /\ Lists(K, L)
  BY <1>2 DEF Good, Shape
<1>4. From(dequeue.ptr) = K /\ \A t \in Threads : pc[t] \in ReadyLabels => From(loc[t].qe.ptr) = L[t]
  BY <1>3, FromIsList
<1>5. ASSUME NEW t \in Threads PROVE M[t] = L[t]
  <2>1. Holds(next, pc[t], loc[t], L[t])
    BY <1>3 DEF Lists
  <2>2. QED
    BY <1>4, <2>1, LabelFacts DEF Holds, HandLabels
<1> HIDE DEF M
<1>6. Shape(K, M)
  <2>1. Lists(K, M)
    BY <1>3, <1>5 DEF Lists
  <2>2. Hands(M) = Hands(L)
    BY <1>5 DEF Hands
  <2>3. Places(K, M)
    BY <1>3, <2>2 DEF Shape, Places
  <2>4. \A e : Ends(next, pc, e, K, M) <=> Ends(next, pc, e, K, L)
    BY <1>5 DEF Ends
  <2>5. Tails(K, M)
    BY <1>3, <2>4 DEF Shape, Tails
  <2>6. \A a, b \in Threads : <<a, b>> \in Edges(pc, loc, M) => <<a, b>> \in Edges(pc, loc, L)
    BY <1>5 DEF Edges
  <2>7. Acyclic(Edges(pc, loc, M))
    BY <1>3, <2>6, FewerEdges DEF Shape
  <2>8. QED
    BY <2>1, <2>3, <2>5, <2>7 DEF Shape
<1>7. Live(K, M) \/ Deleted
  <2>1. Carriers(K, M) = Carriers(K, L)
    BY <1>5 DEF Carriers
  <2>2. QED
    BY <1>2, <2>1 DEF Live
<1>8. QED
  BY <1>3, <1>4, <1>6, <1>7 DEF IInv, M

-----------------------------------------------------------------------------
(* The order, with the lists given *)

(* A pointer is the first of one list only. *)
LEMMA OneList ==
  ASSUME NEW nx, NEW p, NEW s, NEW r, IsList(nx, p, s), IsList(nx, p, r)
  PROVE  s = r
BY WalkIsList

(* queue_delete gives what is left in order. *)
LEMMA DeleteInOrder ==
  ASSUME TypeOK, NEW K, NEW L, Shape(K, L), InOrder(K), NEW t \in Threads, Delete(t)
  PROVE  Fifo!Delete(t)
<1>1. /\ taken \in Nat /\ Len(linked) \in Nat /\ taken <= Len(linked)
      /\ linked \in Seq(Items) /\ K \in Seq(Elements) /\ K # <<>> /\ From(dequeue.ptr) = K
  BY OrderFacts, FromIsList DEF TypeOK, Shape, Lists, IsList
<1>2. Len(linked) = taken + Len(K) - 1 /\ \A i \in 2..Len(K) : linked[taken + i - 1] = data[K[i]]
  BY DEF InOrder
<1>3. PICK m : m = Len(K) - 1
  OBVIOUS
<1>4. PICK w : w = ItemsAfter(dequeue.ptr)
  OBVIOUS
<1>5. w = [i \in 1..m |-> data[K[i + 1]]]
  BY <1>1, <1>3, <1>4 DEF ItemsAfter
<1>6. m \in Nat /\ Len(linked) = taken + m
  <2>1. Len(K) \in Nat /\ Len(K) >= 1
    <3>1. K \in Seq(Elements) /\ K # <<>>
      BY <1>1
    <3>2. QED
      BY <3>1, SMT
  <2>2. \A k, n \in Nat : k >= 1 => k - 1 \in Nat /\ n + k - 1 = n + (k - 1)
    BY SMT
  <2>3. QED
    BY <1>1, <1>2, <1>3, <2>1, <2>2
<1>7. Queued \in Seq(Items) /\ Len(Queued) = m /\ \A i \in 1..m : Queued[i] = linked[taken + i]
  <2>1. Len(linked) - (taken + 1) + 1 = m /\ taken + 1 \in 1..(Len(linked) + 1)
    BY <1>1, <1>6, SMT
  <2>2. linked \in Seq(Items) /\ taken \in Nat
    BY <1>1
  <2>3. QED
    BY <1>6, <2>1, <2>2, SMT DEF Queued
<1>8. \A i \in 1..m : linked[taken + i] = data[K[i + 1]]
  <2>1. SUFFICES ASSUME NEW i \in 1..m PROVE linked[taken + i] = data[K[i + 1]]
    OBVIOUS
  <2>2. i + 1 \in 2..Len(K) /\ taken + (i + 1) - 1 = taken + i
    BY <1>1, <1>3, <1>6, SMT
  <2>3. QED
    BY <1>2, <2>2
<1>9. w = Queued
  <2>1. Queued = [i \in 1..m |-> Queued[i]]
    BY <1>7, SMT
  <2>2. \A i \in 1..m : Queued[i] = data[K[i + 1]]
    BY <1>7, <1>8
  <2>3. QED
    BY <1>5, <2>1, <2>2
<1>10. /\ pc' = [u \in Threads |-> "gone"] /\ got' = [got EXCEPT ![t] = got[t] \o w] /\ taken' = taken + Len(w)
       /\ linked' = linked /\ seen_empty' = seen_empty /\ \A u \in Threads : pc[u] = "idle"
  BY <1>4 DEF Delete
<1>11. Queued' = <<>>
  <2>1. taken' = Len(linked)
    BY <1>6, <1>7, <1>9, <1>10
  <2>2. SubSeq(linked, taken' + 1, Len(linked)) = <<>>
    <3>1. Len(linked) <= Len(linked)
      BY <1>1, SMT
    <3>2. QED
      BY <1>1, <2>1, <3>1, RestFacts
  <2>3. QED
    BY <1>10, <2>2 DEF Queued
<1>12. "idle" \notin DequeueLabels /\ "gone" \notin DequeueLabels
  BY DEF DequeueLabels
<1>13. Pending = {} /\ Pending' = {}
  BY <1>10, <1>12 DEF Pending
<1>14. QED
  BY <1>9, <1>10, <1>11, <1>13 DEF Fifo!Delete, Queued, Pending

OrderInv == \E K, L : Good(K, L) /\ (Deleted \/ (Live(K, L) /\ (Recycles \/ FifoInv(K))))

(* A new queue is empty. *)
LEMMA InitInOrder ==
  ASSUME Init
  PROVE  OrderInv /\ Fifo!Init
<1>1. PICK K, L : Good(K, L) /\ Live(K, L)
  BY InitIsGood
<1>2. /\ linked = <<>> /\ taken = 0 /\ seen_empty = {} /\ got = [t \in Threads |-> <<>>]
      /\ \A t \in Threads : pc[t] = "idle"
  BY DEF Init
<1>3. "idle" \notin HandLabels \cup ReadyLabels \cup PastLabels \cup DequeueLabels \cup CheckLabels
  BY DEF HandLabels, TakenLabels, ReadyLabels, LinkLabels, DequeueLabels, PastLabels, CheckLabels
<1>4. next[dequeue.ptr].ptr = NULL
  <2>1. PICK n : n = number_elements + 1
    OBVIOUS
  <2>2. dequeue = [ptr |-> n, cnt |-> 0] /\ n \in Elements
    BY <2>1, QueueAssumption, SMT DEF Init, Elements
  <2>3. PICK g : next = [e \in Elements |-> IF e = n THEN [ptr |-> NULL, cnt |-> g + 2] ELSE NullPac]
    BY <2>1 DEF Init
  <2>4. QED
    BY <2>2, <2>3, SMT
<1>5. InOrder(K)
  <2>1. IsList(next, dequeue.ptr, K)
    BY <1>1, ShapeFacts DEF Good
  <2>2. Len(K) = 1
    BY <1>4, <2>1, LastAlone
  <2>3. Len(linked) = 0
    BY <1>2, SMT
  <2>4. QED
    BY <1>2, <2>2, <2>3, SMT DEF InOrder
<1>6. FifoInv(K)
  BY <1>2, <1>3, <1>5 DEF FifoInv, NotRecycled, Alone, Passed, Seen
<1>7. OrderInv
  BY <1>1, <1>6 DEF OrderInv
<1>8. SubSeq(linked, taken + 1, Len(linked)) = <<>>
  BY <1>2, SMT
<1>9. Fifo!Init
  BY <1>2, <1>3, <1>8 DEF Fifo!Init
<1>10. QED
  BY <1>7, <1>9

(* Every step keeps the order and is one of the abstract queue. *)
LEMMA NextInOrder ==
  ASSUME OrderInv, Next
  PROVE  OrderInv' /\ (Recycles \/ Fifo!Next \/ UNCHANGED Fifo!vars)
<1>1. PICK K, L : Good(K, L) /\ (Deleted \/ (Live(K, L) /\ (Recycles \/ FifoInv(K))))
  BY DEF OrderInv
<1>2. PICK t \in Threads : Enqueue(t) \/ GuaranteedEnqueue(t) \/ Dequeue(t) \/ Continue(t) \/ Delete(t)
  BY DEF Next
<1>3. Live(K, L) /\ (Recycles \/ FifoInv(K))
  <2>1. pc[t] # "gone"
    BY <1>2, GoneIsGone
  <2>2. QED
    BY <1>1, <2>1 DEF Deleted
<1>4. TypeOK /\ FreeOnce /\ Shape(K, L) /\ ItemsAreNew
  BY <1>1, <1>3 DEF Good, Live
<1>5. CASE Delete(t)
  <2>1. OrderInv'
    BY <1>1, <1>3, <1>5, DeleteKeeps DEF OrderInv
  <2>2. FifoInv(K) => Fifo!Delete(t)
    BY <1>4, <1>5, DeleteInOrder DEF FifoInv
  <2>3. QED
    BY <1>3, <2>1, <2>2 DEF Fifo!Next
<1>6. CASE Enqueue(t) \/ GuaranteedEnqueue(t) \/ Dequeue(t) \/ Continue(t)
  <2>1. Effect(t)
    BY <1>1, <1>3, <1>6, CallsHaveEffect
  <2>2. PICK K2, L2 : Good(K2, L2)' /\ Live(K2, L2)'
    BY <1>1, <1>3, <2>1, EffectKeeps
  <2>3. TypeOK' /\ IsList(next', dequeue'.ptr, K2)
    BY <2>2 DEF Good, Shape, Lists
  <2>4. CASE Recycles
    <3>1. script' = script
      BY <2>1 DEF Effect, Still, Takes, Links, Frees, Clears, Unlinks, Moves
    <3>2. Recycles'
      BY <2>4, <3>1 DEF Recycles
    <3>3. QED
      BY <2>2, <2>4, <3>2 DEF OrderInv
  <2>5. CASE ~Recycles
    <3>1. FifoInv(K) /\ View(t)
      BY <1>3, <1>4, <1>6, <2>5, CallsView
    <3>2. Fifo!Next \/ UNCHANGED Fifo!vars
      BY <1>4, <2>1, <2>3, <3>1, FifoSteps
    <3>3. PICK K3, L3 : Shape(K3, L3)' /\ FifoInv(K3)'
      BY <1>4, <2>1, <3>1, FifoStays
    <3>4. K3 = K2
      <4>1. IsList(next', dequeue'.ptr, K3)
        BY <3>3 DEF Shape, Lists
      <4>2. QED
        BY <2>3, <4>1, OneList
    <3>5. OrderInv'
      BY <2>2, <3>3, <3>4 DEF OrderInv
    <3>6. QED
      BY <3>2, <3>5
  <2>6. QED
    BY <2>4, <2>5
<1>7. QED
  BY <1>2, <1>5, <1>6

(* A step that changes nothing. *)
LEMMA StutterInOrder ==
  ASSUME OrderInv, UNCHANGED vars
  PROVE  OrderInv'
<1>1. PICK K, L : Good(K, L) /\ (Deleted \/ (Live(K, L) /\ (Recycles \/ FifoInv(K))))
  BY DEF OrderInv
<1>2. /\ dequeue' = dequeue /\ next' = next /\ data' = data /\ element_count' = element_count /\ pc' = pc /\ loc' = loc
      /\ script' = script /\ linked' = linked /\ taken' = taken /\ seen_empty' = seen_empty
  BY DEF vars, memory, callers, history
<1>3. (Recycles => Recycles') /\ (FifoInv(K) => FifoInv(K)')
  BY <1>2 DEF Recycles, FifoInv, InOrder, NotRecycled, Alone, Passed, Seen
<1>4. Good(K, L)' /\ (Live(K, L) => Live(K, L)') /\ (Deleted => Deleted')
  BY <1>1, StutterKeeps
<1>5. QED
  BY <1>1, <1>3, <1>4 DEF OrderInv

-----------------------------------------------------------------------------
(* The properties *)

(* What a thread has in its hands, as the properties have it. *)
LEMMA PrivateIs ==
  ASSUME NEW K, NEW L, Lists(K, L), NEW t \in Threads
  PROVE  Private(t) = ElementsIn(L[t])
<1>1. /\ pc[t] \in TakenLabels => Private(t) = {loc[t].qe.ptr}
      /\ pc[t] \in ReadyLabels => Private(t) = Chain(loc[t].qe.ptr)
      /\ pc[t] = "deq_free" => Private(t) = {loc[t].dequeue.ptr}
      /\ pc[t] \notin HandLabels \cup {"deq_free"} => Private(t) = {}
  <2>1. pc[t] \in TakenLabels => pc[t] \notin ReadyLabels /\ pc[t] # "deq_free"
    BY LabelFacts
  <2>2. pc[t] \in ReadyLabels => pc[t] # "deq_free"
    BY LabelFacts
  <2>3. QED
    BY <2>1, <2>2, SMT DEF Private, HandLabels
<1>2. Holds(next, pc[t], loc[t], L[t])
  BY DEF Lists
<1>3. pc[t] \in ReadyLabels => Chain(loc[t].qe.ptr) = ElementsIn(L[t])
  BY FromIsList DEF Chain
<1>4. QED
  BY <1>1, <1>2, <1>3, ShortSequences DEF Holds, HandLabels

INSTANCE FiniteSetTheorems

(* A sequence of elements without repetition. *)
LEMMA DistinctFacts ==
  ASSUME NEW s \in Seq(Elements), \A i, j \in 1..Len(s) : s[i] = s[j] => i = j
  PROVE  Cardinality(ElementsIn(s)) = Len(s) /\ Len(s) <= MaxElements
<1>1. IsFiniteSet(Elements) /\ Cardinality(Elements) = MaxElements /\ MaxElements \in Nat
  BY QueueAssumption, FS_Interval, SMT DEF Elements
<1>2. Len(s) \in Nat /\ \A i \in 1..Len(s) : s[i] \in Elements
  BY SMT
<1>3. ElementsIn(s) \subseteq Elements
  BY <1>2 DEF ElementsIn
<1>4. IsFiniteSet(ElementsIn(s)) /\ Cardinality(ElementsIn(s)) <= MaxElements
  BY <1>1, <1>3, FS_Subset
<1> DEFINE f == [i \in 1..Len(s) |-> s[i]]
<1>5. Cardinality(ElementsIn(s)) = Len(s)
  <2>1. ExistsBijection(1..Len(s), ElementsIn(s))
    <3>1. f \in [1..Len(s) -> ElementsIn(s)]
      BY DEF ElementsIn
    <3>2. f \in Injection(1..Len(s), ElementsIn(s))
      BY <3>1, SMT DEF Injection, IsInjective
    <3>3. f \in Surjection(1..Len(s), ElementsIn(s))
      BY <3>1 DEF Surjection, ElementsIn
    <3>4. QED
      BY <3>2, <3>3, SMT DEF ExistsBijection, Bijection
  <2>2. QED
    BY <1>2, <2>1, FS_CountingElements, SMT
<1>6. QED
  BY <1>4, <1>5, SMT

(* The properties follow. *)
LEMMA InvGives ==
  ASSUME Inv
  PROVE  DequeueNeverPassesEnqueue /\ ElementsConserved /\ ItemsReturnedOnce /\ DeleteReclaimsAll
<1>1. PICK K, L : Good(K, L) /\ (Live(K, L) \/ Deleted)
  BY DEF Inv
<1>2. TypeOK /\ FreeOnce /\ LocalsAgree /\ Shape(K, L) /\ Lists(K, L)
  BY <1>1 DEF Good, Shape
<1>3. Chain(dequeue.ptr) = ElementsIn(K)
  BY <1>2, FromIsList
<1>4. DequeueNeverPassesEnqueue
  <2>1. enqueue.ptr \in ElementsIn(K)
    BY <1>2 DEF Lists
  <2>2. \A t \in Threads : pc[t] = "deq_data" => loc[t].next.ptr # NULL
    BY <1>2, SMT DEF LocalsAgree, DequeueAgrees
  <2>3. QED
    BY <1>3, <2>1, <2>2 DEF DequeueNeverPassesEnqueue
<1>5. ElementsConserved
  <2> DEFINE F == {fs[i] : i \in 1..Len(fs)}
             P == [t \in Threads |-> Private(t)]
  <2>1. F = ElementsIn(fs) /\ fs \in Seq(Elements)
    BY <1>2 DEF ElementsIn, TypeOK
  <2>2. Cardinality(F) = Len(fs)
    BY <1>2, <2>1, DistinctFacts DEF FreeOnce
  <2>3. P = Hands(L)
    BY <1>2, PrivateIs DEF Hands
  <2>4. Partition(F, Chain(dequeue.ptr), P, element_count)
    BY <1>2, <1>3, <2>1, <2>3 DEF Shape, Places
  <2> HIDE DEF F, P
  <2>5. /\ Cardinality(F) = Len(fs)
        /\ F \cap Chain(dequeue.ptr) = {}
        /\ \A t \in Threads : P[t] \cap (F \cup Chain(dequeue.ptr)) = {}
        /\ \A t, u \in Threads : t # u => P[t] \cap P[u] = {}
        /\ F \cup Chain(dequeue.ptr) \cup UNION {P[t] : t \in Threads} = 1..element_count
    BY <2>2, <2>4 DEF Partition
  <2>6. QED
    BY <2>5 DEF ElementsConserved, F, P
<1>6. GivenOnce(got) /\ Given(got) \subseteq ElementsIn(linked)
  BY <1>1 DEF Live, Deleted, Conserved
<1>7. ItemsReturnedOnce
  <2>1. /\ \A r, s \in Returned : got[r[1]][r[2]] = got[s[1]][s[2]] => r = s
        /\ \A r \in Returned : got[r[1]][r[2]] \in ElementsIn(linked)
    BY <1>2, <1>6, ReturnedIs
  <2>2. \A r \in Returned : \E i \in 1..Len(linked) : linked[i] = got[r[1]][r[2]]
    BY <2>1 DEF ElementsIn
  <2>3. QED
    BY <2>1, <2>2 DEF ItemsReturnedOnce
<1>8. DeleteReclaimsAll
  <2>1. SUFFICES ASSUME \E t \in Threads : pc[t] = "gone"
                 PROVE  freed = 1..element_count /\ \A i \in 1..Len(linked) : \E r \in Returned : got[r[1]][r[2]] = linked[i]
    BY DEF DeleteReclaimsAll
  <2>2. Deleted
    BY <1>1, <2>1 DEF Live
  <2>3. freed = 1..element_count /\ Given(got) = ElementsIn(linked)
    BY <2>2 DEF Deleted
  <2>4. \A i \in 1..Len(linked) : linked[i] \in Given(got)
    BY <2>3 DEF ElementsIn
  <2>5. QED
    BY <1>2, <1>6, <2>3, <2>4, ReturnedIs
<1>9. QED
  BY <1>4, <1>5, <1>7, <1>8

(* The invariant, with the lists given. *)
LEMMA InvHolds == Spec => []Inv
<1>1. Init => Inv
  BY InitIsGood DEF Inv
<1>2. QED
  BY <1>1, NextKeeps, PTL DEF Spec

(* The inductive invariant holds: the elements are on the free list, in    *)
(* the queue or in the hands of one thread, no next pointers make a circle *)
(* although an enqueue may link to an element that was recycled meanwhile, *)
(* what the calls have read agrees with the queue or is stale, and the     *)
(* items linked are in the elements or were returned once.                 *)
THEOREM Invariance == Spec => []IInv
BY InvHolds, InvIsIInv, PTL

(* qs->enqueue is always an element of the queue, so no dequeue unlinks    *)
(* the last element, and none reads the data of a NULL pointer (line 120). *)
THEOREM NeverPasses == Spec => []DequeueNeverPassesEnqueue
<1>1. Inv => DequeueNeverPassesEnqueue
  BY InvGives
<1>2. QED
  BY <1>1, InvHolds, PTL

(* No element is lost, on the free list twice, or in two places.           *)
THEOREM Conservation == Spec => []ElementsConserved
<1>1. Inv => ElementsConserved
  BY InvGives
<1>2. QED
  BY <1>1, InvHolds, PTL

(* No item is returned twice or made up, although queue_dequeue reads it   *)
(* before it knows that the element is still in the queue.                 *)
THEOREM ReturnedOnce == Spec => []ItemsReturnedOnce
<1>1. Inv => ItemsReturnedOnce
  BY InvGives
<1>2. QED
  BY <1>1, InvHolds, PTL

(* queue_delete frees every element, and every item was returned.          *)
THEOREM DeleteReclaims == Spec => []DeleteReclaimsAll
<1>1. Inv => DeleteReclaimsAll
  BY InvGives
<1>2. QED
  BY <1>1, InvHolds, PTL

(* While no element is enqueued twice, the queue is first-in first-out:    *)
(* every call takes effect in one step, an enqueue where it links its      *)
(* element, a dequeue where it moves qs->dequeue, and one that reports an  *)
(* empty queue has seen it empty during the call.                          *)
THEOREM ImplementsAtomicQueue == Spec => IsAtomicQueue
<1>1. Init => OrderInv /\ Fifo!Init
  BY InitInOrder
<1>2. OrderInv /\ [Next]_vars => OrderInv'
  BY NextInOrder, StutterInOrder
<1>3. OrderInv /\ [Next]_vars => [Recycles \/ Fifo!Next \/ UNCHANGED Fifo!vars]_vars
  BY NextInOrder
<1>4. QED
  BY <1>1, <1>2, <1>3, PTL DEF Spec, IsAtomicQueue
=============================================================================
