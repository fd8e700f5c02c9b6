---------------------------- MODULE SlistProofs ----------------------------
(***************************************************************************)
(* Proofs about Slist, for every set of threads, every number of elements  *)
(* and every script of calls.  First what the steps do, by their effect on *)
(* memory, then that each kind of effect keeps the invariant.              *)
(***************************************************************************)
EXTENDS Slist, FiniteSetTheorems, SequenceTheorems, TLAPS

(* A step is proved by Zenon; a step with arithmetic, sequences or records *)
(* cites SMT.                                                              *)
USE Zenon

(* No call is about to link p. *)
Outside(p) == \A u \in Threads : pc[u] \in LinkLabels => loc[u].se # p

Pointer(p) == p \in Pointers /\ p <= element_count /\ Outside(p)

Called(t) ==
    /\ pc[t] = "idle" /\ calls[t] < Len(Script[t])
    /\ calls' = [calls EXCEPT ![t] = calls[t] + 1]

Locals == [se : Pointers, se_next : Pointers, data_flag : Words]

(* A step of t to label l that leaves the elements alone and gives its     *)
(* locals the values r and its element the value c, all of them pointers   *)
(* and data found in memory.                                               *)
Quiet(t, l, r, c) ==
    /\ UNCHANGED <<head, next, data_flag, element_count, disposed, deletes>>
    /\ pc' = [pc EXCEPT ![t] = l] /\ loc' = [loc EXCEPT ![t] = r] /\ cur' = [cur EXCEPT ![t] = c]
    /\ (pc[t] # "idle" /\ calls' = calls) \/ Called(t)
    /\ read' \in [Threads -> [result : {0, 1}, data : Data \cup {NoData}]]
    /\ l \in Labels \ {"gone", "del_func"} /\ r \in Locals
    /\ Pointer(c) /\ Pointer(r.se_next)
    /\ IF l \in LinkLabels THEN pc[t] \in LinkLabels /\ r.se = loc[t].se ELSE Pointer(r.se)
    /\ l \in ElementLabels => c # NULL
    /\ l \in LinkLabels \cup MoveLabels => r.se # NULL
    /\ l \in {"del_dcas", "set_dcas"} => ~r.data_flag.deleted
    /\ l = "get_flag" => r.data_flag.data = data_flag[cur[t]].data /\ c = cur[t]
    /\ l \in SetLabels => pc[t] \in SetLabels \/ Called(t)

(* A step of t to label l that allocates the next element. *)
Creates(t, l) ==
    /\ Called(t) /\ element_count < MaxElements
    /\ element_count' = element_count + 1
    /\ data_flag' = [data_flag EXCEPT ![element_count + 1] =
                        [data |-> <<t, calls[t] + 1>>, deleted |-> FALSE]]
    /\ pc' = [pc EXCEPT ![t] = l]
    /\ loc' = [loc EXCEPT ![t] = [loc[t] EXCEPT !.se = element_count + 1]]
    /\ l \in {"head_read", "after_read"} /\ (l = "after_read" => cur[t] # NULL)
    /\ UNCHANGED <<head, next, disposed, deletes, cur, read>>

(* A cas of t on the head or on the next pointer of an element. *)
Links(t) ==
    /\ pc[t] \in {"head_cas", "after_cas"}
    /\ UNCHANGED <<data_flag, element_count, disposed, deletes, read, calls>>
    /\ LET s == loc[t].se
       IN  \/ /\ pc' = [pc EXCEPT ![t] = "idle"]
              /\ loc' = [loc EXCEPT ![t] = NoLocals]
              /\ cur' = cur \/ cur' = [cur EXCEPT ![t] = s]
              /\ head' \in {head, s}
              /\ next' \in [Elements -> Pointers]
              /\ \A e \in Elements : next'[e] \in {next[e], loc[t].se_next, s}
           \/ /\ UNCHANGED <<pc, cur, head>>
              /\ \E p \in Pointers : Pointer(p) /\ loc' = [loc EXCEPT ![t] = [loc[t] EXCEPT !.se_next = p]]
              /\ next' = [next EXCEPT ![s] = loc[t].se_next]

(* What the invariant says about the pointers of every thread. *)
LEMMA PointerFacts ==
  ASSUME Invariant
  PROVE  /\ Pointer(NULL) /\ Pointer(head)
         /\ \A e \in Elements : Pointer(next[e])
         /\ \A u \in Threads : Pointer(cur[u]) /\ Pointer(loc[u].se_next)
         /\ \A u \in Threads : pc[u] \notin LinkLabels => Pointer(loc[u].se)
<1>1. TypeOK /\ PointersOK /\ NewIsHidden
  BY DEF Invariant
<1>2. MaxElements \in Nat
  BY SlistAssumption
<1>3. /\ head \in Pointers /\ \A e \in Elements : next[e] \in Pointers
      /\ \A u \in Threads : cur[u] \in Pointers /\ loc[u].se \in Pointers /\ loc[u].se_next \in Pointers
      /\ element_count \in Pointers
  BY <1>1 DEF TypeOK
<1>4. Pointer(NULL)
  BY <1>1, <1>2, <1>3, SMT DEF PointersOK, Pointer, Outside, Pointers, NULL
<1>5. Pointer(head) /\ \A e \in Elements : Pointer(next[e])
  BY <1>1, <1>3 DEF PointersOK, NewIsHidden, Pointer, Outside
<1>6. ASSUME NEW u \in Threads
      PROVE  Pointer(cur[u]) /\ Pointer(loc[u].se_next) /\ (pc[u] \notin LinkLabels => Pointer(loc[u].se))
  BY <1>1, <1>3 DEF PointersOK, NewIsHidden, Pointer, Outside
<1>7. QED
  BY <1>4, <1>5, <1>6

(* A dcas on the words of an element. *)
LEMMA DcasFacts ==
  ASSUME NEW d, NEW x, NEW c
  PROVE  /\ d = c => abstraction_dcas(d, x, c) = [result |-> 1, destination |-> x, compare |-> d]
         /\ d # c => abstraction_dcas(d, x, c) = [result |-> 0, destination |-> d, compare |-> d]
BY DEF abstraction_dcas

(* The dcas of t that deletes its element. *)
Deletes(t) ==
    /\ pc[t] = "del_dcas" /\ data_flag[cur[t]] = loc[t].data_flag
    /\ data_flag' = [data_flag EXCEPT ![cur[t]] = [loc[t].data_flag EXCEPT !.deleted = TRUE]]
    /\ deletes' = deletes + 1
    /\ pc' = [pc EXCEPT ![t] = "del_func"]
    /\ UNCHANGED <<head, next, element_count, disposed, loc, cur, read, calls>>

(* The dcas of t that sets the data of its element. *)
Sets(t) ==
    /\ pc[t] = "set_dcas" /\ data_flag[cur[t]] = loc[t].data_flag
    /\ data_flag' = [data_flag EXCEPT ![cur[t]] = [loc[t].data_flag EXCEPT !.data = <<t, calls[t]>>]]
    /\ Return(t)
    /\ UNCHANGED <<head, next, element_count, disposed, deletes, cur, read, calls>>

Effect(t) ==
    \/ \E l \in Labels, r \in Locals, c \in Pointers : Quiet(t, l, r, c)
    \/ \E l \in Labels : Creates(t, l)
    \/ Links(t) \/ Deletes(t) \/ Sets(t) \/ DelFunc(t)

(* The types of what a thread has, and of an empty set of locals. *)
LEMMA ThreadFacts ==
  ASSUME Invariant, NEW t \in Threads
  PROVE  /\ pc[t] \in Labels \ {"gone"} /\ loc[t] \in Locals /\ cur[t] \in Pointers
         /\ loc[t].se \in Pointers /\ loc[t].se_next \in Pointers /\ loc[t].data_flag \in Words
         /\ calls[t] \in Nat /\ calls[t] <= Len(Script[t]) /\ Len(Script[t]) \in Nat
         /\ NoLocals \in Locals /\ NoLocals.se = NULL /\ NoLocals.se_next = NULL
         /\ pc[t] \in ElementLabels => cur[t] \in Elements /\ data_flag[cur[t]] \in Words
         /\ pc[t] \in LinkLabels \cup MoveLabels => loc[t].se \in Elements
         /\ loc = [loc EXCEPT ![t] = loc[t]] /\ cur = [cur EXCEPT ![t] = cur[t]]
         /\ pc = [pc EXCEPT ![t] = pc[t]]
<1>1. TypeOK /\ PointersOK
  BY DEF Invariant
<1>2. /\ pc[t] \in Labels \ {"gone"} /\ loc[t] \in Locals /\ cur[t] \in Pointers
      /\ calls[t] \in Nat /\ calls[t] <= Len(Script[t])
      /\ loc[t].se \in Pointers /\ loc[t].se_next \in Pointers /\ loc[t].data_flag \in Words
  BY <1>1 DEF TypeOK, Locals
<1>3. Len(Script[t]) \in Nat
  BY SlistAssumption, SMT
<1>4. NULL \in Pointers /\ \A p \in Pointers : p # NULL => p \in Elements
  BY SlistAssumption, SMT DEF Pointers, Elements, NULL
<1>5. NoLocals \in Locals /\ NoLocals.se = NULL /\ NoLocals.se_next = NULL
  BY <1>4 DEF NoLocals, NoDataFlag, Locals, Words
<1>6. /\ pc[t] \in ElementLabels => cur[t] \in Elements /\ data_flag[cur[t]] \in Words
      /\ pc[t] \in LinkLabels \cup MoveLabels => loc[t].se \in Elements
  BY <1>1, <1>2, <1>4 DEF PointersOK, TypeOK
<1>7. /\ loc = [loc EXCEPT ![t] = loc[t]] /\ cur = [cur EXCEPT ![t] = cur[t]]
      /\ pc = [pc EXCEPT ![t] = pc[t]]
  BY <1>1 DEF TypeOK
<1>8. QED
  BY <1>2, <1>3, <1>5, <1>6, <1>7

(* A call that returns, having learnt of element c. *)
LEMMA ReturnQuiet ==
  ASSUME Invariant, NEW t \in Threads, NEW c \in Pointers, Pointer(c),
         UNCHANGED <<head, next, data_flag, element_count, disposed, deletes>>,
         Return(t), cur' = [cur EXCEPT ![t] = c],
         (pc[t] # "idle" /\ calls' = calls) \/ Called(t),
         read' \in [Threads -> [result : {0, 1}, data : Data \cup {NoData}]]
  PROVE  Effect(t)
<1>1. NoLocals \in Locals /\ NoLocals.se = NULL /\ NoLocals.se_next = NULL /\ Pointer(NULL)
  BY ThreadFacts, PointerFacts
<1>2. Quiet(t, "idle", NoLocals, c)
  BY <1>1 DEF Return, Quiet, Labels, LinkLabels, ElementLabels, MoveLabels, SetLabels
<1>3. QED
  BY <1>1, <1>2 DEF Effect, Labels

(* A step that only reads words of an element: from del_data, set_data or  *)
(* get_data to the label of the second read, or to the dcas.               *)
LEMMA ReadQuiet ==
  ASSUME Invariant, NEW t \in Threads, NEW l \in ElementLabels \ LinkLabels, NEW w \in Words,
         UNCHANGED <<head, next, data_flag, element_count, disposed, deletes, cur, read, calls>>,
         pc' = [pc EXCEPT ![t] = l], loc' = [loc EXCEPT ![t] = [loc[t] EXCEPT !.data_flag = w]],
         pc[t] \in ElementLabels \ LinkLabels, l # "del_func",
         l \in {"del_dcas", "set_dcas"} => ~w.deleted,
         l = "get_flag" => w.data = data_flag[cur[t]].data,
         l \in SetLabels => pc[t] \in SetLabels
  PROVE  Effect(t)
<1> DEFINE r == [loc[t] EXCEPT !.data_flag = w]
<1>1. /\ loc[t] \in Locals /\ cur[t] \in Elements /\ cur[t] \in Pointers
      /\ cur' = [cur EXCEPT ![t] = cur[t]] /\ pc[t] # "idle"
      /\ pc[t] \notin LinkLabels
  BY ThreadFacts DEF ElementLabels, SetLabels
<1>2. r \in Locals /\ r.se = loc[t].se /\ r.se_next = loc[t].se_next /\ r.data_flag = w
  BY <1>1 DEF Locals
<1> HIDE DEF r
<1>3. Pointer(cur[t]) /\ Pointer(r.se_next) /\ Pointer(r.se)
  BY <1>1, <1>2, PointerFacts
<1>4. l \in Labels \ {"gone", "del_func"} /\ l \notin LinkLabels \cup MoveLabels /\ cur[t] # NULL
  BY <1>1, SlistAssumption, SMT DEF Labels, LinkLabels, MoveLabels, ElementLabels, SetLabels, Elements, NULL
<1>5. read' \in [Threads -> [result : {0, 1}, data : Data \cup {NoData}]]
  BY DEF Invariant, TypeOK
<1>6. Quiet(t, l, r, cur[t])
  BY <1>1, <1>2, <1>3, <1>4, <1>5 DEF Quiet, r
<1>7. QED
  BY <1>1, <1>2, <1>4, <1>6 DEF Effect

(* A traversal that is at p. *)
LEMMA MoveQuiet ==
  ASSUME Invariant, NEW t \in Threads, NEW p \in Pointers, Pointer(p), MoveTo(t, p),
         (pc[t] # "idle" /\ calls' = calls) \/ Called(t)
  PROVE  Effect(t)
<1>1. /\ UNCHANGED <<head, next, data_flag, element_count, disposed, deletes, read>>
  BY DEF MoveTo, Found, memory
<1>2. read' \in [Threads -> [result : {0, 1}, data : Data \cup {NoData}]]
  BY <1>1 DEF Invariant, TypeOK
<1>3. CASE p = NULL
  <2>1. cur' = [cur EXCEPT ![t] = NULL] /\ Return(t) /\ Pointer(NULL) /\ NULL \in Pointers
    BY <1>3 DEF MoveTo, Found
  <2>2. QED
    BY <1>1, <1>2, <2>1, ReturnQuiet
<1>4. CASE p # NULL
  <2> DEFINE r == [loc[t] EXCEPT !.se = p]
  <2>1. /\ pc' = [pc EXCEPT ![t] = "move_flag"] /\ loc' = [loc EXCEPT ![t] = r] /\ cur' = cur
    BY <1>4, ThreadFacts DEF MoveTo
  <2>2. /\ loc[t] \in Locals /\ cur' = [cur EXCEPT ![t] = cur[t]] /\ cur[t] \in Pointers
    BY <2>1, ThreadFacts
  <2>3. r \in Locals /\ r.se = p /\ r.se_next = loc[t].se_next
    BY <2>2 DEF Locals
  <2> HIDE DEF r
  <2>4. Pointer(cur[t]) /\ Pointer(r.se_next)
    BY <2>3, PointerFacts
  <2>5. Quiet(t, "move_flag", r, cur[t])
    BY <1>1, <1>2, <1>4, <2>1, <2>2, <2>3, <2>4
       DEF Quiet, Labels, LinkLabels, ElementLabels, MoveLabels, SetLabels
  <2>6. QED
    BY <2>2, <2>3, <2>5 DEF Effect, Labels, MoveLabels
<1>5. QED
  BY <1>3, <1>4

(* The start of a call. *)
LEMMA BeginEffect ==
  ASSUME Invariant, NEW t \in Threads,
         Begin(t) \/ CallOnElement(t, "get_data", "get_data")
  PROVE  Effect(t)
<1>1. TypeOK
  BY DEF Invariant
<1>2. \A o : Call(t, o) => Called(t)
  BY DEF Call, Called
<1>3. ASSUME NEW f \in {NULL, cur[t]}, NEW l \in {"head_read", "after_read"}, NewElement(t, f, l),
             Called(t), l = "after_read" => cur[t] # NULL
      PROVE  Effect(t)
  <2>1. CASE cur' = [cur EXCEPT ![t] = f] /\ UNCHANGED <<memory, read, pc, loc>>
    <3>1. Pointer(f) /\ f \in Pointers
      BY PointerFacts, ThreadFacts DEF Pointer
    <3>2. /\ UNCHANGED <<head, next, data_flag, element_count, disposed, deletes, read>>
          /\ pc' = [pc EXCEPT ![t] = "idle"] /\ loc' = [loc EXCEPT ![t] = loc[t]] /\ pc[t] = "idle"
      BY <1>3, <2>1, ThreadFacts DEF memory, Called
    <3>3. loc[t] \in Locals /\ Pointer(loc[t].se_next) /\ Pointer(loc[t].se)
      BY <3>2, ThreadFacts, PointerFacts DEF LinkLabels
    <3>4. read' \in [Threads -> [result : {0, 1}, data : Data \cup {NoData}]]
      BY <1>1, <3>2 DEF TypeOK
    <3>5. Quiet(t, "idle", loc[t], f)
      BY <1>3, <2>1, <3>1, <3>2, <3>3, <3>4
         DEF Quiet, Labels, LinkLabels, ElementLabels, MoveLabels, SetLabels
    <3>6. QED
      BY <3>1, <3>3, <3>5 DEF Effect, Labels
  <2>2. CASE /\ element_count < MaxElements
             /\ element_count' = element_count + 1
             /\ data_flag' = [data_flag EXCEPT ![element_count'] =
                                [data |-> <<t, calls'[t]>>, deleted |-> FALSE]]
             /\ loc' = [loc EXCEPT ![t].se = element_count']
             /\ pc' = [pc EXCEPT ![t] = l]
             /\ UNCHANGED <<head, next, freed, disposed, deletes, cur, read>>
    <3>1. calls'[t] = calls[t] + 1
      BY <1>1, <1>3 DEF Called, TypeOK
    <3>2. loc' = [loc EXCEPT ![t] = [loc[t] EXCEPT !.se = element_count + 1]]
      BY <1>1, <2>2 DEF TypeOK
    <3>3. Creates(t, l)
      BY <1>3, <2>2, <3>1, <3>2 DEF Creates
    <3>4. QED
      BY <3>3 DEF Effect, Labels, LinkLabels
  <2>3. QED
    BY <1>3, <2>1, <2>2 DEF NewElement
<1>4. ASSUME NEW o, NEW l \in {"del_data", "get_data", "set_data"}, CallOnElement(t, o, l)
      PROVE  Effect(t)
  <2>1. /\ UNCHANGED <<head, next, data_flag, element_count, disposed, deletes, read, cur, loc>>
        /\ Called(t) /\ pc[t] = "idle" /\ cur[t] # NULL /\ pc' = [pc EXCEPT ![t] = l]
    BY <1>2, <1>4 DEF CallOnElement, memory, Called
  <2>2. /\ cur' = [cur EXCEPT ![t] = cur[t]] /\ loc' = [loc EXCEPT ![t] = loc[t]]
        /\ loc[t] \in Locals /\ cur[t] \in Pointers
    BY <2>1, ThreadFacts
  <2>3. Pointer(cur[t]) /\ Pointer(loc[t].se_next) /\ Pointer(loc[t].se)
    BY <2>1, PointerFacts DEF LinkLabels
  <2>4. read' \in [Threads -> [result : {0, 1}, data : Data \cup {NoData}]]
    BY <1>1, <2>1 DEF TypeOK
  <2>5. l \in Labels \ {"gone", "del_func"} /\ l \notin LinkLabels \cup MoveLabels
    BY DEF Labels, LinkLabels, ElementLabels, MoveLabels, SetLabels
  <2>6. l \notin {"del_dcas", "set_dcas", "get_flag"}
    OBVIOUS
  <2>7. Quiet(t, l, loc[t], cur[t])
    BY <2>1, <2>2, <2>3, <2>4, <2>5, <2>6 DEF Quiet
  <2>8. QED
    BY <2>2, <2>5, <2>7 DEF Effect
<1>5. CASE NewHead(t)
  BY <1>2, <1>3, <1>5 DEF NewHead
<1>6. CASE NewNext(t)
  BY <1>2, <1>3, <1>6 DEF NewNext
<1>7. CASE LogicallyDelete(t) \/ SetData(t) \/ CallOnElement(t, "get_data", "get_data")
  BY <1>4, <1>7 DEF LogicallyDelete, SetData
<1>8. CASE GetHead(t)
  <2>1. head \in Pointers /\ Pointer(head)
    BY PointerFacts DEF Pointer
  <2>2. QED
    BY <1>2, <1>8, <2>1, MoveQuiet DEF GetHead
<1>9. CASE GetNext(t)
  <2>1. cur[t] \in Elements
    BY <1>1, <1>9, SlistAssumption, SMT DEF GetNext, TypeOK, Pointers, Elements, NULL
  <2>2. next[cur[t]] \in Pointers /\ Pointer(next[cur[t]])
    BY <2>1, PointerFacts DEF Pointer
  <2>3. QED
    BY <1>2, <1>9, <2>2, MoveQuiet DEF GetNext
<1>10. QED
  BY <1>5, <1>6, <1>7, <1>8, <1>9 DEF Begin

(* The steps that link a new element. *)
LEMMA LinkEffect ==
  ASSUME Invariant, NEW t \in Threads,
         LinkHeadRead(t) \/ LinkHeadCas(t) \/ LinkAfterRead(t) \/ LinkAfterCas(t)
  PROVE  Effect(t)
<1>1. TypeOK
  BY DEF Invariant
<1>2. /\ loc[t] \in Locals /\ cur = [cur EXCEPT ![t] = cur[t]] /\ cur[t] \in Pointers
      /\ Pointer(cur[t]) /\ Pointer(head) /\ head \in Pointers /\ loc[t].se_next \in Pointers
      /\ pc[t] \in LinkLabels => loc[t].se \in Elements /\ loc[t].se # NULL /\ loc[t].se \in Pointers
      /\ pc[t] \in ElementLabels => cur[t] \in Elements /\ cur[t] # NULL
  BY ThreadFacts, PointerFacts, SlistAssumption, SMT DEF Pointer, Elements, NULL
<1>3. ASSUME NEW l \in {"head_cas", "after_cas"}, NEW k \in LinkLabels, NEW p \in Pointers, Pointer(p),
             Local(t, k, l, [loc[t] EXCEPT !.se_next = p]), l = "after_cas" => cur[t] # NULL
      PROVE  Effect(t)
  <2> DEFINE r == [loc[t] EXCEPT !.se_next = p]
  <2>1. /\ UNCHANGED <<head, next, data_flag, element_count, disposed, deletes, read, cur, calls>>
        /\ pc[t] = k /\ pc' = [pc EXCEPT ![t] = l] /\ loc' = [loc EXCEPT ![t] = r]
    BY <1>3 DEF Local, memory
  <2>2. r \in Locals /\ r.se = loc[t].se /\ r.se_next = p
    BY <1>2 DEF Locals
  <2> HIDE DEF r
  <2>3. read' \in [Threads -> [result : {0, 1}, data : Data \cup {NoData}]]
    BY <1>1, <2>1 DEF TypeOK
  <2>4. pc[t] # "idle" /\ l \in Labels \ {"gone", "del_func"} /\ l \in LinkLabels
    BY <2>1 DEF LinkLabels, Labels
  <2>5. l \notin {"del_dcas", "set_dcas", "get_flag"} /\ l \notin SetLabels
    BY DEF SetLabels
  <2>6. l \in ElementLabels => cur[t] # NULL
    BY <1>3 DEF ElementLabels, SetLabels
  <2>7. Quiet(t, l, r, cur[t])
    BY <1>2, <1>3, <2>1, <2>2, <2>3, <2>4, <2>5, <2>6 DEF Quiet
  <2>8. QED
    BY <1>2, <2>2, <2>4, <2>7 DEF Effect
<1>4. CASE LinkHeadRead(t)
  BY <1>2, <1>3, <1>4 DEF LinkHeadRead, LinkLabels
<1>5. CASE LinkAfterRead(t)
  <2>1. cur[t] \in Elements /\ cur[t] # NULL
    BY <1>2, <1>5 DEF LinkAfterRead, Local, ElementLabels
  <2>2. next[cur[t]] \in Pointers /\ Pointer(next[cur[t]])
    BY <2>1, PointerFacts DEF Pointer
  <2>3. QED
    BY <1>3, <1>5, <2>1, <2>2 DEF LinkAfterRead, LinkLabels
<1>6. CASE LinkHeadCas(t)
  <2> DEFINE s == loc[t].se
  <2>1. /\ pc[t] = "head_cas" /\ next' = [next EXCEPT ![s] = loc[t].se_next]
        /\ UNCHANGED <<data_flag, element_count, disposed, deletes, read, calls>>
        /\ s \in Elements
    BY <1>2, <1>6 DEF LinkHeadCas, LinkLabels
  <2>2. /\ next' \in [Elements -> Pointers]
        /\ \A e \in Elements : next'[e] \in {next[e], loc[t].se_next, s}
    BY <1>1, <1>2, <2>1 DEF TypeOK
  <2>3. CASE head = loc[t].se_next
    <3>1. head' = s /\ cur' = [cur EXCEPT ![t] = s] /\ Return(t)
      BY <1>6, <2>3 DEF LinkHeadCas
    <3>2. Links(t)
      BY <2>1, <2>2, <3>1 DEF Links, Return
    <3>3. QED
      BY <3>2 DEF Effect
  <2>4. CASE head # loc[t].se_next
    <3>1. loc' = [loc EXCEPT ![t] = [loc[t] EXCEPT !.se_next = head]] /\ UNCHANGED <<head, cur, pc>>
      BY <1>1, <1>6, <2>4 DEF LinkHeadCas, TypeOK
    <3>2. Links(t)
      BY <1>2, <2>1, <3>1 DEF Links
    <3>3. QED
      BY <3>2 DEF Effect
  <2>5. QED
    BY <2>3, <2>4
<1>7. CASE LinkAfterCas(t)
  <2> DEFINE s == loc[t].se
  <2>1. /\ pc[t] = "after_cas"
        /\ UNCHANGED <<head, data_flag, element_count, disposed, deletes, cur, read, calls>>
        /\ s \in Elements /\ s \in Pointers /\ cur[t] \in Elements
    BY <1>2, <1>7 DEF LinkAfterCas, LinkLabels, ElementLabels
  <2>2. next \in [Elements -> Pointers]
    BY <1>1 DEF TypeOK
  <2>3. CASE next[cur[t]] = loc[t].se_next
    <3>1. next' = [next EXCEPT ![s] = loc[t].se_next, ![cur[t]] = s] /\ Return(t)
      BY <1>7, <2>3 DEF LinkAfterCas
    <3>2. /\ next' \in [Elements -> Pointers]
          /\ \A e \in Elements : next'[e] \in {next[e], loc[t].se_next, s}
      BY <1>2, <2>1, <2>2, <3>1
    <3>3. Links(t)
      BY <2>1, <3>1, <3>2 DEF Links, Return
    <3>4. QED
      BY <3>3 DEF Effect
  <2>4. CASE next[cur[t]] # loc[t].se_next
    <3>1. /\ next' = [next EXCEPT ![s] = loc[t].se_next]
          /\ \/ loc' = [loc EXCEPT ![t].se_next = next[cur[t]]] /\ UNCHANGED pc
             \/ Return(t)
      BY <1>7, <2>4 DEF LinkAfterCas
    <3>2. CASE loc' = [loc EXCEPT ![t].se_next = next[cur[t]]] /\ UNCHANGED pc
      <4>1. loc' = [loc EXCEPT ![t] = [loc[t] EXCEPT !.se_next = next[cur[t]]]]
        BY <1>1, <3>2 DEF TypeOK
      <4>2. next[cur[t]] \in Pointers /\ Pointer(next[cur[t]])
        BY <2>1, <2>2, PointerFacts
      <4>3. Links(t)
        BY <2>1, <3>1, <3>2, <4>1, <4>2 DEF Links
      <4>4. QED
        BY <4>3 DEF Effect
    <3>3. CASE Return(t)
      <4>1. /\ next' \in [Elements -> Pointers]
            /\ \A e \in Elements : next'[e] \in {next[e], loc[t].se_next, s}
        BY <1>2, <2>1, <2>2, <3>1
      <4>2. Links(t)
        BY <2>1, <3>3, <4>1 DEF Links, Return
      <4>3. QED
        BY <4>2 DEF Effect
    <3>4. QED
      BY <3>1, <3>2, <3>3
  <2>5. QED
    BY <2>3, <2>4
<1>8. QED
  BY <1>4, <1>5, <1>6, <1>7

(* The steps that read and change the words of an element, and those of a  *)
(* traversal.                                                              *)
LEMMA WordEffect ==
  ASSUME Invariant, NEW t \in Threads,
         \/ DelReadData(t) \/ DelReadFlag(t) \/ DelDcas(t) \/ DelFunc(t)
         \/ GetReadWords(t, "get_data", "get_flag",
                         [loc[t].data_flag EXCEPT !.data = data_flag[cur[t]].data])
         \/ GetReturn(t, "get_flag", [loc[t].data_flag EXCEPT !.deleted = data_flag[cur[t]].deleted])
         \/ SetReadData(t) \/ SetReadFlag(t) \/ SetDcas(t)
         \/ MoveReadFlag(t) \/ MoveReadNext(t)
  PROVE  Effect(t)
<1>1. TypeOK
  BY DEF Invariant
<1> DEFINE words == loc[t].data_flag
           own == data_flag[cur[t]]
<1>2. /\ words \in Words /\ loc[t] \in Locals /\ cur[t] \in Pointers /\ Pointer(cur[t])
      /\ cur = [cur EXCEPT ![t] = cur[t]]
      /\ pc[t] \in ElementLabels => cur[t] \in Elements /\ own \in Words
      /\ pc[t] \in MoveLabels => loc[t].se \in Elements /\ loc[t].se \in Pointers
  BY ThreadFacts, PointerFacts
<1>3. \A w, v \in Words :
        /\ [w EXCEPT !.data = v.data] \in Words /\ [w EXCEPT !.data = v.data].data = v.data
        /\ [w EXCEPT !.deleted = v.deleted] \in Words
        /\ [w EXCEPT !.deleted = v.deleted].deleted = v.deleted
        /\ [w EXCEPT !.deleted = v.deleted].data = w.data
  BY DEF Words
<1>4. read \in [Threads -> [result : {0, 1}, data : Data \cup {NoData}]]
  BY <1>1 DEF TypeOK
<1>5. ASSUME NEW w \in Words, NEW l \in {"del_dcas", "set_dcas"}, UnlessDeleted(t, w, l),
             UNCHANGED <<head, next, data_flag, element_count, disposed, deletes, cur, read, calls>>,
             pc[t] \in {"del_flag", "del_dcas", "set_flag", "set_dcas"},
             l \in SetLabels => pc[t] \in SetLabels
      PROVE  Effect(t)
  <2>1. CASE w.deleted
    <3>1. Return(t) /\ pc[t] # "idle"
      BY <1>5, <2>1 DEF UnlessDeleted
    <3>2. QED
      BY <1>2, <1>4, <1>5, <3>1, ReturnQuiet
  <2>2. CASE ~w.deleted
    <3>1. pc' = [pc EXCEPT ![t] = l] /\ loc' = [loc EXCEPT ![t] = [loc[t] EXCEPT !.data_flag = w]]
      BY <1>1, <1>5, <2>2 DEF UnlessDeleted, TypeOK
    <3>2. /\ l \in ElementLabels \ LinkLabels /\ pc[t] \in ElementLabels \ LinkLabels
          /\ l # "del_func" /\ l # "get_flag"
      BY <1>5 DEF ElementLabels, SetLabels, LinkLabels
    <3>3. QED
      BY <1>5, <2>2, <3>1, <3>2, ReadQuiet
  <2>3. QED
    BY <2>1, <2>2
<1>6. ASSUME NEW k \in {"del_data", "set_data", "get_data"}, NEW l \in {"del_flag", "set_flag", "get_flag"},
             pc[t] = k, pc' = [pc EXCEPT ![t] = l],
             loc' = [loc EXCEPT ![t] = [loc[t] EXCEPT !.data_flag = [words EXCEPT !.data = own.data]]],
             UNCHANGED <<memory, cur, read, calls>>,
             l \in SetLabels => k \in SetLabels
      PROVE  Effect(t)
  <2>1. /\ l \in ElementLabels \ LinkLabels /\ pc[t] \in ElementLabels \ LinkLabels
        /\ l # "del_func" /\ l \notin {"del_dcas", "set_dcas"}
    BY <1>6 DEF ElementLabels, SetLabels, LinkLabels
  <2>2. own \in Words
    BY <1>2, <2>1
  <2> DEFINE w == [words EXCEPT !.data = own.data]
  <2>3. w \in Words /\ w.data = own.data
    BY <1>2, <1>3, <2>2, SMT
  <2>4. UNCHANGED <<head, next, data_flag, element_count, disposed, deletes, cur, read, calls>>
    BY <1>6 DEF memory
  <2> HIDE DEF w
  <2>5. loc' = [loc EXCEPT ![t] = [loc[t] EXCEPT !.data_flag = w]]
    BY <1>6 DEF w
  <2>6. QED
    BY <1>6, <2>1, <2>3, <2>4, <2>5, ReadQuiet
<1>7. [loc[t] EXCEPT !.data_flag.data = own.data]
        = [loc[t] EXCEPT !.data_flag = [words EXCEPT !.data = own.data]]
  BY <1>2 DEF Locals, Words
<1>8. CASE DelReadData(t)
  BY <1>6, <1>7, <1>8 DEF DelReadData, Local, SetLabels
<1>9. CASE SetReadData(t)
  BY <1>6, <1>7, <1>9 DEF SetReadData, Local, SetLabels
<1>10. CASE GetReadWords(t, "get_data", "get_flag", [words EXCEPT !.data = own.data])
  BY <1>6, <1>10 DEF GetReadWords, Local, SetLabels
<1>11. CASE DelReadFlag(t)
  <2>1. own \in Words
    BY <1>2, <1>11 DEF DelReadFlag, ElementLabels
  <2>2. QED
    BY <1>2, <1>3, <1>5, <1>11, <2>1 DEF DelReadFlag, memory, SetLabels
<1>12. CASE SetReadFlag(t)
  <2>1. own \in Words
    BY <1>2, <1>12 DEF SetReadFlag, ElementLabels, SetLabels
  <2>2. QED
    BY <1>2, <1>3, <1>5, <1>12, <2>1 DEF SetReadFlag, memory, SetLabels
<1>13. CASE DelDcas(t)
  <2> DEFINE x == [words EXCEPT !.deleted = TRUE]
             d == abstraction_dcas(own, x, words)
  <2>1. pc[t] = "del_dcas" /\ cur[t] \in Elements /\ own \in Words
    BY <1>2, <1>13 DEF DelDcas, ElementLabels, SetLabels
  <2>2. /\ data_flag' = [data_flag EXCEPT ![cur[t]] = d.destination]
        /\ d.result = 1 => deletes' = deletes + 1 /\ pc' = [pc EXCEPT ![t] = "del_func"] /\ UNCHANGED loc
        /\ d.result # 1 => UnlessDeleted(t, d.compare, "del_dcas") /\ UNCHANGED deletes
        /\ UNCHANGED <<head, next, element_count, disposed, cur, read, calls>>
    BY <1>13 DEF DelDcas
  <2>3. /\ own = words => d = [result |-> 1, destination |-> x, compare |-> own]
        /\ own # words => d = [result |-> 0, destination |-> own, compare |-> own]
    BY DcasFacts
  <2> HIDE DEF d
  <2>4. CASE own = words
    <3>1. d.result = 1 /\ d.destination = x
      BY <2>3, <2>4, SMT
    <3>2. Deletes(t)
      BY <2>1, <2>2, <2>4, <3>1 DEF Deletes
    <3>3. QED
      BY <3>2 DEF Effect
  <2>5. CASE own # words
    <3>1. d.result = 0 /\ d.destination = own /\ d.compare = own
      BY <2>3, <2>5, SMT
    <3>2. /\ data_flag' = [data_flag EXCEPT ![cur[t]] = own] /\ UnlessDeleted(t, own, "del_dcas")
          /\ UNCHANGED <<head, next, element_count, disposed, deletes, cur, read, calls>>
      BY <2>2, <3>1, SMT
    <3>3. data_flag' = data_flag
      BY <1>1, <2>1, <3>2 DEF TypeOK
    <3>4. QED
      BY <1>5, <2>1, <3>2, <3>3 DEF SetLabels
  <2>6. QED
    BY <2>4, <2>5
<1>14. CASE SetDcas(t)
  <2> DEFINE x == [words EXCEPT !.data = <<t, calls[t]>>]
             d == abstraction_dcas(own, x, words)
  <2>1. pc[t] = "set_dcas" /\ cur[t] \in Elements /\ own \in Words
    BY <1>2, <1>14 DEF SetDcas, ElementLabels, SetLabels
  <2>2. /\ data_flag' = [data_flag EXCEPT ![cur[t]] = d.destination]
        /\ d.result = 1 => Return(t)
        /\ d.result # 1 => UnlessDeleted(t, d.compare, "set_dcas")
        /\ UNCHANGED <<head, next, element_count, disposed, deletes, cur, read, calls>>
    BY <1>14 DEF SetDcas
  <2>3. /\ own = words => d = [result |-> 1, destination |-> x, compare |-> own]
        /\ own # words => d = [result |-> 0, destination |-> own, compare |-> own]
    BY DcasFacts
  <2> HIDE DEF d
  <2>4. CASE own = words
    <3>1. d.result = 1 /\ d.destination = x
      BY <2>3, <2>4, SMT
    <3>2. Sets(t)
      BY <2>1, <2>2, <2>4, <3>1 DEF Sets
    <3>3. QED
      BY <3>2 DEF Effect
  <2>5. CASE own # words
    <3>1. d.result = 0 /\ d.destination = own /\ d.compare = own
      BY <2>3, <2>5, SMT
    <3>2. /\ data_flag' = [data_flag EXCEPT ![cur[t]] = own] /\ UnlessDeleted(t, own, "set_dcas")
          /\ UNCHANGED <<head, next, element_count, disposed, deletes, cur, read, calls>>
      BY <2>2, <3>1, SMT
    <3>3. data_flag' = data_flag
      BY <1>1, <2>1, <3>2 DEF TypeOK
    <3>4. QED
      BY <1>5, <2>1, <3>2, <3>3 DEF SetLabels
  <2>6. QED
    BY <2>4, <2>5
<1>15. CASE DelFunc(t)
  BY <1>15 DEF Effect
<1>16. CASE GetReturn(t, "get_flag", [words EXCEPT !.deleted = own.deleted])
  <2> DEFINE w == [words EXCEPT !.deleted = own.deleted]
  <2>1. pc[t] = "get_flag" /\ own \in Words
    BY <1>2, <1>16 DEF GetReturn, ElementLabels
  <2>2. w \in Words
    BY <1>2, <1>3, <2>1
  <2> HIDE DEF w
  <2>3. /\ read' = [read EXCEPT ![t] = [result |-> IF w.deleted THEN 0 ELSE 1, data |-> w.data]]
        /\ Return(t) /\ UNCHANGED <<head, next, data_flag, element_count, disposed, deletes, cur, calls>>
    BY <1>16 DEF GetReturn, memory, w
  <2>4. [result |-> IF w.deleted THEN 0 ELSE 1, data |-> w.data] \in [result : {0, 1}, data : Data \cup {NoData}]
    BY <2>2 DEF Words
  <2>5. read' \in [Threads -> [result : {0, 1}, data : Data \cup {NoData}]]
    BY <1>4, <2>3, <2>4
  <2>6. QED
    BY <1>2, <2>1, <2>3, <2>5, ReturnQuiet
<1>17. CASE MoveReadFlag(t)
  <2>1. pc[t] = "move_flag" /\ loc[t].se \in Elements /\ loc[t].se \in Pointers /\ Pointer(loc[t].se)
    BY <1>2, <1>17, PointerFacts DEF MoveReadFlag, MoveLabels, LinkLabels
  <2>2. CASE data_flag[loc[t].se].deleted
    <3>1. /\ pc' = [pc EXCEPT ![t] = "move_next"] /\ loc' = [loc EXCEPT ![t] = loc[t]]
          /\ UNCHANGED <<head, next, data_flag, element_count, disposed, deletes, cur, read, calls>>
      BY <1>17, <2>2, ThreadFacts DEF MoveReadFlag, memory
    <3>2. Pointer(loc[t].se_next) /\ loc[t].se # NULL
      BY <2>1, PointerFacts, SlistAssumption, SMT DEF Elements, NULL
    <3>3. Quiet(t, "move_next", loc[t], cur[t])
      BY <1>2, <1>4, <2>1, <3>1, <3>2
         DEF Quiet, Labels, LinkLabels, ElementLabels, MoveLabels, SetLabels
    <3>4. QED
      BY <1>2, <3>3 DEF Effect, Labels, MoveLabels
  <2>3. CASE ~data_flag[loc[t].se].deleted
    <3>1. /\ cur' = [cur EXCEPT ![t] = loc[t].se] /\ Return(t)
          /\ UNCHANGED <<head, next, data_flag, element_count, disposed, deletes, read, calls>>
      BY <1>17, <2>3 DEF MoveReadFlag, Found, memory
    <3>2. QED
      BY <1>4, <2>1, <3>1, ReturnQuiet
  <2>4. QED
    BY <2>2, <2>3
<1>18. CASE MoveReadNext(t)
  <2>1. pc[t] = "move_next" /\ loc[t].se \in Elements
    BY <1>2, <1>18 DEF MoveReadNext, MoveLabels
  <2>2. next[loc[t].se] \in Pointers /\ Pointer(next[loc[t].se])
    BY <2>1, PointerFacts DEF Pointer
  <2>3. QED
    BY <1>18, <2>1, <2>2, MoveQuiet DEF MoveReadNext
<1>19. QED
  BY <1>8, <1>9, <1>10, <1>11, <1>12, <1>13, <1>14, <1>15, <1>16, <1>17, <1>18

(* Every step keeps the types. *)
LEMMA TypeStep ==
  ASSUME Invariant, NEW t \in Threads, Effect(t)
  PROVE  TypeOK'
<1>1. TypeOK /\ pc[t] \in Labels \ {"gone"}
  BY ThreadFacts DEF Invariant
<1>2. MaxElements \in Nat /\ NULL \in Pointers /\ NoLocals \in Locals
  BY SlistAssumption, ThreadFacts, SMT DEF Pointers, NULL
<1> DEFINE CallsOK == /\ calls \in [Threads -> Nat]
                      /\ \A u \in Threads : calls[u] <= Len(Script[u]) /\ (pc[u] # "idle" => calls[u] # 0)
<1>3. ASSUME NEW l, pc' = [pc EXCEPT ![t] = l], (pc[t] # "idle" /\ calls' = calls) \/ Called(t)
      PROVE  CallsOK'
  <2>1. CallsOK /\ pc \in [Threads -> Labels \ {"gone"}]
    BY <1>1 DEF TypeOK
  <2>2. CASE pc[t] # "idle" /\ calls' = calls
    BY <1>3, <2>1, <2>2
  <2>3. CASE Called(t)
    <3>1. Len(Script[t]) \in Nat
      BY SlistAssumption, SMT
    <3>2. calls[t] + 1 \in Nat /\ calls[t] + 1 <= Len(Script[t]) /\ calls[t] + 1 # 0
      BY <2>1, <2>3, <3>1, SMT DEF Called
    <3>3. QED
      BY <1>3, <2>1, <2>3, <3>2 DEF Called
  <2>4. QED
    BY <1>3, <2>2, <2>3
<1>4. ASSUME NEW l \in Labels, NEW r \in Locals, NEW c \in Pointers, Quiet(t, l, r, c)
      PROVE  TypeOK'
  <2>1. /\ UNCHANGED <<head, next, data_flag, element_count, disposed, deletes>>
        /\ pc' = [pc EXCEPT ![t] = l] /\ loc' = [loc EXCEPT ![t] = r] /\ cur' = [cur EXCEPT ![t] = c]
        /\ (pc[t] # "idle" /\ calls' = calls) \/ Called(t)
        /\ read' \in [Threads -> [result : {0, 1}, data : Data \cup {NoData}]]
        /\ l \in Labels \ {"gone"}
    BY <1>4 DEF Quiet
  <2>2. CallsOK'
    BY <1>3, <2>1
  <2>3. /\ pc' \in [Threads -> Labels \ {"gone"}] /\ loc' \in [Threads -> Locals]
        /\ cur' \in [Threads -> Pointers]
    BY <1>1, <2>1 DEF TypeOK, Locals
  <2>4. QED
    BY <1>1, <2>1, <2>2, <2>3 DEF TypeOK, Locals
<1>5. ASSUME NEW l \in Labels, Creates(t, l)
      PROVE  TypeOK'
  <2>1. element_count \in Pointers /\ element_count + 1 \in Elements /\ element_count + 1 \in Pointers
    BY <1>1, <1>2, <1>5, SMT DEF Creates, TypeOK, Pointers, Elements
  <2>2. CallsOK'
    BY <1>3, <1>5 DEF Creates
  <2>3. <<t, calls[t] + 1>> \in Data
    <3>1. calls[t] + 1 \in 1..Len(Script[t])
      BY <1>5, ThreadFacts, SMT DEF Creates, Called
    <3>2. QED
      BY <3>1, SMT DEF Data
  <2>4. [data |-> <<t, calls[t] + 1>>, deleted |-> FALSE] \in Words
    BY <2>3 DEF Words
  <2>5. data_flag' \in [Elements -> Words]
    BY <1>1, <1>5, <2>1, <2>4 DEF Creates, TypeOK
  <2>6. [loc[t] EXCEPT !.se = element_count + 1] \in Locals
    BY <2>1, ThreadFacts DEF Locals
  <2>7. loc' \in [Threads -> Locals] /\ pc' \in [Threads -> Labels \ {"gone"}]
    BY <1>1, <1>5, <2>6 DEF Creates, TypeOK, Locals
  <2>8. element_count' \in Pointers /\ UNCHANGED <<head, next, disposed, deletes, cur, read>>
    BY <1>5, <2>1 DEF Creates
  <2>9. QED
    BY <1>1, <2>2, <2>5, <2>7, <2>8 DEF TypeOK, Locals
<1>6. CASE Links(t)
  <2>1. UNCHANGED <<data_flag, element_count, disposed, deletes, read, calls>> /\ loc[t].se \in Pointers
    BY <1>6, ThreadFacts DEF Links
  <2>2. CASE /\ pc' = [pc EXCEPT ![t] = "idle"]
             /\ loc' = [loc EXCEPT ![t] = NoLocals]
             /\ cur' = cur \/ cur' = [cur EXCEPT ![t] = loc[t].se]
             /\ head' \in {head, loc[t].se}
             /\ next' \in [Elements -> Pointers]
    <3>1. pc' \in [Threads -> Labels \ {"gone"}] /\ loc' \in [Threads -> Locals]
      BY <1>1, <1>2, <2>2 DEF TypeOK, Labels, Locals
    <3>2. cur' \in [Threads -> Pointers] /\ head' \in Pointers
      BY <1>1, <2>1, <2>2 DEF TypeOK
    <3>3. CallsOK'
      BY <1>3, <1>6, <2>1, <2>2 DEF Links
    <3>4. QED
      BY <1>1, <2>1, <2>2, <3>1, <3>2, <3>3 DEF TypeOK, Locals
  <2>3. ASSUME NEW p \in Pointers, loc' = [loc EXCEPT ![t] = [loc[t] EXCEPT !.se_next = p]],
               UNCHANGED <<pc, cur, head>>, next' = [next EXCEPT ![loc[t].se] = loc[t].se_next]
        PROVE  TypeOK'
    <3>1. [loc[t] EXCEPT !.se_next = p] \in Locals
      BY ThreadFacts DEF Locals
    <3>2. loc' \in [Threads -> Locals]
      BY <1>1, <2>3, <3>1 DEF TypeOK, Locals
    <3>3. next' \in [Elements -> Pointers]
      BY <1>1, <2>3, ThreadFacts DEF TypeOK
    <3>4. QED
      BY <1>1, <2>1, <2>3, <3>2, <3>3 DEF TypeOK, Locals
  <2>4. QED
    BY <1>6, <2>2, <2>3 DEF Links
<1>7. CASE Deletes(t)
  <2>1. /\ UNCHANGED <<head, next, element_count, disposed, loc, cur, read, calls>>
        /\ pc' = [pc EXCEPT ![t] = "del_func"] /\ deletes' = deletes + 1
        /\ data_flag' = [data_flag EXCEPT ![cur[t]] = [loc[t].data_flag EXCEPT !.deleted = TRUE]]
    BY <1>7 DEF Deletes
  <2>2. [loc[t].data_flag EXCEPT !.deleted = TRUE] \in Words
    BY ThreadFacts DEF Words
  <2>3. data_flag' \in [Elements -> Words]
    BY <1>1, <2>1, <2>2 DEF TypeOK
  <2>4. deletes' \in Nat /\ pc' \in [Threads -> Labels \ {"gone"}]
    BY <1>1, <2>1, SMT DEF TypeOK, Labels, ElementLabels
  <2>5. CallsOK'
    BY <1>3, <1>7, <2>1 DEF Deletes
  <2>6. QED
    BY <1>1, <2>1, <2>3, <2>4, <2>5 DEF TypeOK
<1>8. CASE Sets(t)
  <2>1. /\ UNCHANGED <<head, next, element_count, disposed, deletes, cur, read, calls>> /\ pc[t] = "set_dcas"
        /\ pc' = [pc EXCEPT ![t] = "idle"] /\ loc' = [loc EXCEPT ![t] = NoLocals]
        /\ data_flag' = [data_flag EXCEPT ![cur[t]] = [loc[t].data_flag EXCEPT !.data = <<t, calls[t]>>]]
    BY <1>8 DEF Sets, Return
  <2>2. calls[t] = 0 \/ <<t, calls[t]>> \in Data
    BY ThreadFacts, SMT DEF Data
  <2>3. calls[t] # 0
    BY <1>1, <2>1 DEF TypeOK
  <2>4. [loc[t].data_flag EXCEPT !.data = <<t, calls[t]>>] \in Words
    BY <2>2, <2>3, ThreadFacts DEF Words
  <2>5. data_flag' \in [Elements -> Words]
    BY <1>1, <2>1, <2>4 DEF TypeOK
  <2>6. loc' \in [Threads -> Locals] /\ pc' \in [Threads -> Labels \ {"gone"}]
    BY <1>1, <1>2, <2>1 DEF TypeOK, Labels, Locals
  <2>7. CallsOK'
    BY <1>3, <2>1
  <2>8. QED
    BY <1>1, <2>1, <2>5, <2>6, <2>7 DEF TypeOK, Locals
<1>9. CASE DelFunc(t)
  <2>1. /\ UNCHANGED <<head, next, data_flag, element_count, deletes, cur, read, calls>> /\ pc[t] = "del_func"
        /\ pc' = [pc EXCEPT ![t] = "idle"] /\ loc' = [loc EXCEPT ![t] = NoLocals]
        /\ disposed' = Append(disposed, <<cur[t], loc[t].data_flag.data>>)
    BY <1>9 DEF DelFunc, Return
  <2>2. <<cur[t], loc[t].data_flag.data>> \in Elements \X (Data \cup {NoData})
    BY <2>1, ThreadFacts DEF ElementLabels, Words
  <2>3. disposed' \in Seq(Elements \X (Data \cup {NoData}))
    <3> DEFINE D == Elements \X (Data \cup {NoData})
               d == <<cur[t], loc[t].data_flag.data>>
    <3>1. disposed \in Seq(D) /\ d \in D
      BY <1>1, <2>2 DEF TypeOK
    <3> HIDE DEF D, d
    <3>2. Append(disposed, d) \in Seq(D)
      BY <3>1, SMT
    <3>3. QED
      BY <2>1, <3>2 DEF D, d
  <2>4. loc' \in [Threads -> Locals] /\ pc' \in [Threads -> Labels \ {"gone"}]
    BY <1>1, <1>2, <2>1 DEF TypeOK, Labels, Locals
  <2>5. CallsOK'
    BY <1>3, <2>1
  <2>6. QED
    BY <1>1, <2>1, <2>3, <2>4, <2>5 DEF TypeOK, Locals
<1>10. QED
  BY <1>4, <1>5, <1>6, <1>7, <1>8, <1>9 DEF Effect

(* Every step keeps the pointers to elements that have been allocated. *)
LEMMA PointersStep ==
  ASSUME Invariant, NEW t \in Threads, Effect(t)
  PROVE  PointersOK'
<1>1. TypeOK /\ PointersOK /\ TypeOK'
  BY TypeStep DEF Invariant
<1>2. /\ element_count \in Nat
      /\ \A e \in Elements : next[e] \in Nat
      /\ \A u \in Threads : cur[u] \in Nat /\ loc[u].se \in Nat /\ loc[u].se_next \in Nat
      /\ head \in Nat
  <2>1. \A p \in Pointers : p \in Nat
    BY SlistAssumption, SMT DEF Pointers
  <2>2. \A u \in Threads : cur[u] \in Pointers /\ loc[u].se \in Pointers /\ loc[u].se_next \in Pointers
    BY <1>1 DEF TypeOK
  <2>3. element_count \in Pointers /\ head \in Pointers /\ \A e \in Elements : next[e] \in Pointers
    BY <1>1 DEF TypeOK
  <2>4. QED
    BY <2>1, <2>2, <2>3
<1>3. /\ pc \in [Threads -> Labels \ {"gone"}] /\ loc \in [Threads -> Locals]
      /\ cur \in [Threads -> Pointers] /\ next \in [Elements -> Pointers]
  BY <1>1 DEF TypeOK, Locals
<1> DEFINE Good(u) == /\ cur[u] <= element_count /\ loc[u].se <= element_count /\ loc[u].se_next <= element_count
                      /\ pc[u] \in ElementLabels => cur[u] # NULL
                      /\ pc[u] \in LinkLabels \cup MoveLabels => loc[u].se # NULL
<1>4. \A u \in Threads : Good(u)
  BY <1>1 DEF PointersOK
<1>5. NoLocals \in Locals /\ NoLocals.se = 0 /\ NoLocals.se_next = 0
  BY ThreadFacts DEF NULL
<1>6. "idle" \notin ElementLabels \cup LinkLabels \cup MoveLabels
  BY DEF ElementLabels, LinkLabels, MoveLabels, SetLabels
<1>7. ASSUME NEW l \in Labels, NEW r \in Locals, NEW c \in Pointers, Quiet(t, l, r, c)
      PROVE  PointersOK'
  <2>1. /\ UNCHANGED <<head, next, element_count>>
        /\ pc' = [pc EXCEPT ![t] = l] /\ loc' = [loc EXCEPT ![t] = r] /\ cur' = [cur EXCEPT ![t] = c]
        /\ c <= element_count /\ r.se_next <= element_count
        /\ l \in LinkLabels => r.se = loc[t].se
        /\ l \notin LinkLabels => r.se <= element_count
        /\ l \in ElementLabels => c # NULL
        /\ l \in LinkLabels \cup MoveLabels => r.se # NULL
    BY <1>7 DEF Quiet, Pointer
  <2>2. r.se <= element_count
    BY <1>4, <2>1
  <2>3. cur'[t] = c /\ loc'[t] = r /\ pc'[t] = l
    BY <1>3, <2>1
  <2>4. Good(t)'
    BY <2>1, <2>2, <2>3
  <2>5. \A u \in Threads \ {t} : Good(u)'
    BY <1>3, <1>4, <2>1
  <2>6. QED
    BY <1>1, <2>1, <2>4, <2>5 DEF PointersOK
<1>8. ASSUME NEW l \in Labels, Creates(t, l)
      PROVE  PointersOK'
  <2>1. /\ UNCHANGED <<head, next, cur>> /\ element_count' = element_count + 1
        /\ pc' = [pc EXCEPT ![t] = l] /\ l \in {"head_read", "after_read"} /\ (l = "after_read" => cur[t] # NULL)
        /\ loc' = [loc EXCEPT ![t] = [loc[t] EXCEPT !.se = element_count + 1]]
    BY <1>8 DEF Creates
  <2>2. \A n \in Nat : n <= element_count => n <= element_count'
    BY <1>2, <2>1, SMT
  <2>3. head' <= element_count' /\ \A e \in Elements : next'[e] <= element_count'
    BY <1>1, <1>2, <2>1, <2>2 DEF PointersOK
  <2>4. \A u \in Threads \ {t} : Good(u)'
    BY <1>2, <1>3, <1>4, <2>1, <2>2
  <2>5. /\ pc'[t] = l /\ loc'[t].se = element_count + 1 /\ loc'[t].se_next = loc[t].se_next
        /\ element_count + 1 # NULL
    BY <1>2, <1>3, <2>1, SMT DEF Locals, NULL
  <2>6. l \in ElementLabels => l = "after_read"
    BY <2>1 DEF ElementLabels, SetLabels
  <2>7. Good(t)'
    BY <1>2, <1>4, <2>1, <2>2, <2>5, <2>6, SMT
  <2>8. QED
    BY <2>3, <2>4, <2>7 DEF PointersOK
<1>9. CASE Links(t)
  <2>1. element_count' = element_count /\ loc[t].se \in Elements /\ pc[t] \in LinkLabels
    BY <1>9, ThreadFacts DEF Links, LinkLabels
  <2>2. CASE /\ pc' = [pc EXCEPT ![t] = "idle"] /\ loc' = [loc EXCEPT ![t] = NoLocals]
             /\ cur' = cur \/ cur' = [cur EXCEPT ![t] = loc[t].se]
             /\ head' \in {head, loc[t].se}
             /\ \A e \in Elements : next'[e] \in {next[e], loc[t].se_next, loc[t].se}
    <3>1. head' <= element_count' /\ \A e \in Elements : next'[e] <= element_count'
      BY <1>1, <2>1, <2>2 DEF PointersOK
    <3>2. \A u \in Threads \ {t} : Good(u)'
      BY <1>3, <1>4, <2>1, <2>2
    <3>3. pc'[t] = "idle" /\ loc'[t] = NoLocals /\ cur'[t] \in {cur[t], loc[t].se}
      BY <1>3, <2>2
    <3>4. Good(t)'
      BY <1>2, <1>4, <1>5, <1>6, <2>1, <3>3, SMT
    <3>5. QED
      BY <3>1, <3>2, <3>4 DEF PointersOK
  <2>3. ASSUME NEW p \in Pointers, Pointer(p), loc' = [loc EXCEPT ![t] = [loc[t] EXCEPT !.se_next = p]],
               UNCHANGED <<pc, cur, head>>, next' = [next EXCEPT ![loc[t].se] = loc[t].se_next]
        PROVE  PointersOK'
    <3>1. head' <= element_count' /\ \A e \in Elements : next'[e] <= element_count'
      BY <1>1, <1>3, <2>1, <2>3 DEF PointersOK
    <3>2. \A u \in Threads \ {t} : Good(u)'
      BY <1>3, <1>4, <2>1, <2>3
    <3>3. loc'[t].se = loc[t].se /\ loc'[t].se_next = p /\ p <= element_count
      BY <1>3, <2>3 DEF Locals, Pointer
    <3>4. Good(t)'
      BY <1>4, <2>1, <2>3, <3>3
    <3>5. QED
      BY <3>1, <3>2, <3>4 DEF PointersOK
  <2>4. QED
    BY <1>9, <2>2, <2>3 DEF Links
<1>10. CASE Deletes(t)
  <2>1. UNCHANGED <<head, next, element_count, loc, cur>> /\ pc' = [pc EXCEPT ![t] = "del_func"] /\ pc[t] = "del_dcas"
    BY <1>10 DEF Deletes
  <2>2. \A u \in Threads : Good(u)'
    BY <1>3, <1>4, <2>1 DEF ElementLabels, LinkLabels, MoveLabels, SetLabels
  <2>3. QED
    BY <1>1, <2>1, <2>2 DEF PointersOK
<1>11. CASE Sets(t) \/ DelFunc(t)
  <2>1. /\ UNCHANGED <<head, next, element_count, cur>>
        /\ pc' = [pc EXCEPT ![t] = "idle"] /\ loc' = [loc EXCEPT ![t] = NoLocals]
    BY <1>11 DEF Sets, DelFunc, Return
  <2>2. \A u \in Threads \ {t} : Good(u)'
    BY <1>3, <1>4, <2>1
  <2>3. pc'[t] = "idle" /\ loc'[t] = NoLocals
    BY <1>3, <2>1
  <2>4. Good(t)'
    BY <1>2, <1>4, <1>5, <1>6, <2>1, <2>3, SMT
  <2>5. QED
    BY <1>1, <2>1, <2>2, <2>4 DEF PointersOK
<1>12. QED
  BY <1>7, <1>8, <1>9, <1>10, <1>11 DEF Effect

(* No step lets a pointer to a new element out before the element is       *)
(* linked.                                                                 *)
LEMMA HiddenStep ==
  ASSUME Invariant, NEW t \in Threads, Effect(t)
  PROVE  NewIsHidden'
<1>1. TypeOK /\ PointersOK /\ NewIsHidden
  BY DEF Invariant
<1>2. /\ pc \in [Threads -> Labels \ {"gone"}] /\ loc \in [Threads -> Locals]
      /\ cur \in [Threads -> Pointers] /\ next \in [Elements -> Pointers]
  BY <1>1 DEF TypeOK, Locals
<1>3. /\ NoLocals.se = NULL /\ NoLocals.se_next = NULL /\ "idle" \notin LinkLabels
      /\ Pointer(NULL) /\ Pointer(head)
      /\ \A e \in Elements : Pointer(next[e])
      /\ \A u \in Threads : Pointer(cur[u]) /\ Pointer(loc[u].se_next)
      /\ \A u \in Threads : pc[u] \notin LinkLabels => Pointer(loc[u].se)
  BY ThreadFacts, PointerFacts DEF LinkLabels
(* What a thread other than t hides stays hidden when t learns of nothing  *)
(* but pointers, and of what t hides itself.                               *)
<1>4. ASSUME NEW l, NEW r, NEW c,
             pc' = [pc EXCEPT ![t] = l], loc' = [loc EXCEPT ![t] = r], cur' = [cur EXCEPT ![t] = c],
             \A p \in {head', c, r.se_next, r.se} \cup {next'[e] : e \in Elements} :
                 Pointer(p) \/ (pc[t] \in LinkLabels /\ p = loc[t].se)
                           \/ (l \in LinkLabels /\ p = r.se /\ \A u \in Threads \ {t} : p # loc[u].se),
             l \in LinkLabels =>
                /\ r.se \notin {head', c, r.se_next} \cup {next'[e] : e \in Elements}
                /\ \A u \in Threads \ {t} : r.se \notin {cur[u], loc[u].se_next, loc[u].se}
      PROVE  NewIsHidden'
  <2>1. SUFFICES ASSUME NEW u \in Threads, pc'[u] \in LinkLabels
                 PROVE  /\ head' # loc'[u].se /\ \A e \in Elements : next'[e] # loc'[u].se
                        /\ \A v \in Threads :
                              /\ cur'[v] # loc'[u].se /\ loc'[v].se_next # loc'[u].se
                              /\ v # u => loc'[v].se # loc'[u].se
    BY DEF NewIsHidden
  <2>2. /\ pc'[t] = l /\ loc'[t] = r /\ cur'[t] = c
        /\ \A v \in Threads \ {t} : pc'[v] = pc[v] /\ loc'[v] = loc[v] /\ cur'[v] = cur[v]
    BY <1>2, <1>4
  <2>3. CASE u = t
    BY <1>4, <2>1, <2>2, <2>3, SMT
  <2>4. CASE u # t
    <3> DEFINE s == loc[u].se
    <3>1. pc[u] \in LinkLabels /\ loc'[u].se = s
      BY <2>1, <2>2, <2>4
    <3>2. \A p : Pointer(p) => p # s
      BY <3>1 DEF Pointer, Outside
    <3>3. pc[t] \in LinkLabels => loc[t].se # s
      BY <1>1, <2>4, <3>1 DEF NewIsHidden
    <3>4. \A p \in {head', c, r.se_next, r.se} \cup {next'[e] : e \in Elements} : p # s
      BY <1>4, <2>4, <3>2, <3>3
    <3>5. \A v \in Threads : cur[v] # s /\ loc[v].se_next # s /\ (v # u => loc[v].se # s)
      BY <1>1, <3>1 DEF NewIsHidden
    <3>6. QED
      BY <2>2, <2>4, <3>1, <3>4, <3>5
  <2>5. QED
    BY <2>3, <2>4
<1>5. ASSUME NEW l \in Labels, NEW r \in Locals, NEW c \in Pointers, Quiet(t, l, r, c)
      PROVE  NewIsHidden'
  <2>1. /\ head' = head /\ next' = next
        /\ pc' = [pc EXCEPT ![t] = l] /\ loc' = [loc EXCEPT ![t] = r] /\ cur' = [cur EXCEPT ![t] = c]
        /\ Pointer(c) /\ Pointer(r.se_next)
        /\ l \in LinkLabels => pc[t] \in LinkLabels /\ r.se = loc[t].se
        /\ l \notin LinkLabels => Pointer(r.se)
    BY <1>5 DEF Quiet
  <2>2. \A p : Pointer(p) /\ pc[t] \in LinkLabels => p # loc[t].se
    BY DEF Pointer, Outside
  <2>3. \A p \in {head', c, r.se_next, r.se} \cup {next'[e] : e \in Elements} :
           Pointer(p) \/ (pc[t] \in LinkLabels /\ p = loc[t].se)
    BY <1>3, <2>1
  <2>4. l \in LinkLabels =>
            /\ r.se \notin {head', c, r.se_next} \cup {next'[e] : e \in Elements}
            /\ \A u \in Threads \ {t} : r.se \notin {cur[u], loc[u].se_next, loc[u].se}
    BY <1>1, <1>3, <2>1, <2>2 DEF NewIsHidden
  <2>5. QED
    BY <1>4, <2>1, <2>3, <2>4
<1>6. ASSUME NEW l \in Labels, Creates(t, l)
      PROVE  NewIsHidden'
  <2> DEFINE r == [loc[t] EXCEPT !.se = element_count + 1]
  <2>1. /\ head' = head /\ next' = next /\ cur' = [cur EXCEPT ![t] = cur[t]]
        /\ pc' = [pc EXCEPT ![t] = l] /\ loc' = [loc EXCEPT ![t] = r]
    BY <1>6, ThreadFacts DEF Creates
  <2>2. r.se = element_count + 1 /\ r.se_next = loc[t].se_next
    BY <1>2 DEF Locals
  <2> HIDE DEF r
  <2>3. element_count \in Nat /\ \A p : Pointer(p) => p \in Nat /\ p <= element_count
    BY <1>1, SlistAssumption, SMT DEF TypeOK, Pointers, Pointer
  <2>4. /\ \A p : Pointer(p) => p # r.se
        /\ \A u \in Threads : loc[u].se # r.se
    <3>1. \A u \in Threads : loc[u].se \in Nat /\ loc[u].se <= element_count
      BY <1>1, SlistAssumption, SMT DEF TypeOK, PointersOK, Pointers
    <3>2. QED
      BY <2>2, <2>3, <3>1, SMT
  <2>5. \A p \in {head', cur[t], r.se_next, r.se} \cup {next'[e] : e \in Elements} :
           Pointer(p) \/ (p = r.se /\ \A u \in Threads \ {t} : p # loc[u].se)
    BY <1>3, <2>1, <2>2, <2>4
  <2>6. /\ r.se \notin {head', cur[t], r.se_next} \cup {next'[e] : e \in Elements}
        /\ \A u \in Threads \ {t} : r.se \notin {cur[u], loc[u].se_next, loc[u].se}
    BY <1>3, <2>1, <2>2, <2>4
  <2>7. l \in LinkLabels
    BY <1>6 DEF Creates, LinkLabels
  <2>8. QED
    BY <1>4, <2>1, <2>5, <2>6, <2>7
<1>7. CASE Links(t)
  <2>1. pc[t] \in LinkLabels
    BY <1>7 DEF Links, LinkLabels
  <2>2. CASE /\ pc' = [pc EXCEPT ![t] = "idle"] /\ loc' = [loc EXCEPT ![t] = NoLocals]
             /\ cur' = cur \/ cur' = [cur EXCEPT ![t] = loc[t].se]
             /\ head' \in {head, loc[t].se}
             /\ \A e \in Elements : next'[e] \in {next[e], loc[t].se_next, loc[t].se}
    <3>1. PICK c \in {cur[t], loc[t].se} : cur' = [cur EXCEPT ![t] = c]
      BY <2>2, ThreadFacts
    <3>2. \A p \in {head', c, NoLocals.se_next, NoLocals.se} \cup {next'[e] : e \in Elements} :
            Pointer(p) \/ (pc[t] \in LinkLabels /\ p = loc[t].se)
      BY <1>3, <2>1, <2>2, <3>1, SMT
    <3>3. QED
      BY <1>3, <1>4, <2>2, <3>1, <3>2
  <2>3. ASSUME NEW p \in Pointers, Pointer(p), loc' = [loc EXCEPT ![t] = [loc[t] EXCEPT !.se_next = p]],
               UNCHANGED <<pc, cur, head>>, next' = [next EXCEPT ![loc[t].se] = loc[t].se_next]
        PROVE  NewIsHidden'
    <3> DEFINE r == [loc[t] EXCEPT !.se_next = p]
    <3>1. r.se = loc[t].se /\ r.se_next = p
      BY <1>2 DEF Locals
    <3>2. loc' = [loc EXCEPT ![t] = r]
      BY <2>3
    <3> HIDE DEF r
    <3>3. \A e \in Elements : Pointer(next'[e])
      BY <1>2, <1>3, <2>3
    <3>4. \A q : Pointer(q) => q # loc[t].se
      BY <2>1 DEF Pointer, Outside
    <3>5. \A q \in {head', cur[t], r.se_next, r.se} \cup {next'[e] : e \in Elements} :
            Pointer(q) \/ (pc[t] \in LinkLabels /\ q = loc[t].se)
      BY <1>3, <2>1, <2>3, <3>1, <3>3
    <3>6. /\ r.se \notin {head', cur[t], r.se_next} \cup {next'[e] : e \in Elements}
          /\ \A u \in Threads \ {t} : r.se \notin {cur[u], loc[u].se_next, loc[u].se}
      BY <1>1, <1>3, <2>1, <2>3, <3>1, <3>3, <3>4 DEF NewIsHidden
    <3>7. pc' = [pc EXCEPT ![t] = pc[t]] /\ cur' = [cur EXCEPT ![t] = cur[t]]
      BY <2>3, ThreadFacts
    <3>8. QED
      BY <1>4, <3>2, <3>5, <3>6, <3>7
  <2>4. QED
    BY <1>7, <2>2, <2>3 DEF Links
<1>8. CASE Deletes(t)
  <2>1. UNCHANGED <<head, next, loc, cur>> /\ pc' = [pc EXCEPT ![t] = "del_func"]
    BY <1>8 DEF Deletes
  <2>2. \A u \in Threads : pc'[u] \in LinkLabels => pc[u] \in LinkLabels
    BY <1>2, <2>1 DEF LinkLabels
  <2>3. QED
    BY <1>1, <2>1, <2>2 DEF NewIsHidden
<1>9. CASE Sets(t) \/ DelFunc(t)
  <2>1. /\ UNCHANGED <<head, next>> /\ cur' = [cur EXCEPT ![t] = cur[t]]
        /\ pc' = [pc EXCEPT ![t] = "idle"] /\ loc' = [loc EXCEPT ![t] = NoLocals]
    BY <1>9, ThreadFacts DEF Sets, DelFunc, Return
  <2>2. \A p \in {head', cur[t], NoLocals.se_next, NoLocals.se} \cup {next'[e] : e \in Elements} : Pointer(p)
    BY <1>3, <2>1
  <2>3. QED
    BY <1>3, <1>4, <2>1, <2>2
<1>10. QED
  BY <1>5, <1>6, <1>7, <1>8, <1>9 DEF Effect


(* What the dcas of a deletion stores. *)
LEMMA DeletedWords ==
  ASSUME NEW v \in Words
  PROVE  [v EXCEPT !.deleted = TRUE] = [data |-> v.data, deleted |-> TRUE]
<1> DEFINE x == [v EXCEPT !.deleted = TRUE]
           y == [data |-> v.data, deleted |-> TRUE]
<1>1. x \in Words /\ x.data = v.data /\ x.deleted
  BY DEF Words
<1>2. y \in Words /\ y.data = v.data /\ y.deleted
  BY DEF Words
<1> HIDE DEF x, y
<1>3. x = y
  BY <1>1, <1>2, SMT DEF Words
<1>4. QED
  BY <1>3 DEF x, y

(* No step changes the words of a deleted element, deletes it again or     *)
(* gives its data to delete_func twice.                                    *)
LEMMA DeletedStep ==
  ASSUME Invariant, NEW t \in Threads, Effect(t)
  PROVE  DeletedOnce'
<1>1. TypeOK /\ PointersOK /\ DeletedOnce
  BY DEF Invariant
<1>2. /\ pc \in [Threads -> Labels \ {"gone"}] /\ loc \in [Threads -> Locals]
      /\ cur \in [Threads -> Pointers] /\ data_flag \in [Elements -> Words]
      /\ element_count \in Nat /\ Len(disposed) \in Nat
      /\ \A u \in Threads : cur[u] \in Nat /\ cur[u] <= element_count
      /\ \A i \in 1..Len(disposed) : disposed[i][1] \in Elements /\ disposed[i][1] \in Nat
  <2>1. \A p \in Pointers : p \in Nat
    BY SlistAssumption, SMT DEF Pointers
  <2>2. \A i \in 1..Len(disposed) : disposed[i] \in Elements \X (Data \cup {NoData})
    BY <1>1, SMT DEF TypeOK
  <2>3. \A i \in 1..Len(disposed) : disposed[i][1] \in Elements /\ disposed[i][1] \in Nat
    BY <2>2, SMT DEF Elements
  <2>4. /\ pc \in [Threads -> Labels \ {"gone"}] /\ loc \in [Threads -> Locals]
        /\ cur \in [Threads -> Pointers] /\ data_flag \in [Elements -> Words]
        /\ element_count \in Pointers /\ Len(disposed) \in Nat
        /\ \A u \in Threads : cur[u] <= element_count
    BY <1>1, SMT DEF TypeOK, PointersOK, Locals
  <2>5. QED
    BY <2>1, <2>3, <2>4
<1>3. \A u \in Threads : pc[u] \in ElementLabels => cur[u] \in Elements
  BY ThreadFacts
<1> DEFINE Given(i) == /\ disposed[i][1] <= element_count
                       /\ data_flag[disposed[i][1]] = [data |-> disposed[i][2], deleted |-> TRUE]
           Once == \A i, j \in 1..Len(disposed) : disposed[i][1] = disposed[j][1] => i = j
           Gives(u) == pc[u] = "del_func" =>
                         /\ data_flag[cur[u]] = [data |-> loc[u].data_flag.data, deleted |-> TRUE]
                         /\ \A i \in 1..Len(disposed) : disposed[i][1] # cur[u]
                         /\ \A v \in Threads : v # u /\ pc[v] = "del_func" => cur[v] # cur[u]
           Live(u) == pc[u] \in {"del_dcas", "set_dcas"} => ~loc[u].data_flag.deleted
<1>4. /\ \A i \in 1..Len(disposed) : Given(i)
      /\ Once
      /\ \A u \in Threads : Gives(u) /\ Live(u)
  BY <1>1 DEF DeletedOnce
<1>5. ASSUME \A i \in 1..Len(disposed') : Given(i)', Once', \A u \in Threads : Gives(u)' /\ Live(u)'
      PROVE  DeletedOnce'
  BY <1>5 DEF DeletedOnce
(* A step that neither touches deleted elements nor starts or ends a       *)
(* deletion.                                                               *)
<1>6. ASSUME NEW l, NEW r, NEW c,
             pc' = [pc EXCEPT ![t] = l], loc' = [loc EXCEPT ![t] = r], cur' = [cur EXCEPT ![t] = c],
             disposed' = disposed, element_count' \in Nat, element_count <= element_count',
             \A e \in Elements : e <= element_count /\ data_flag[e].deleted => data_flag'[e] = data_flag[e],
             l # "del_func", l \in {"del_dcas", "set_dcas"} => ~r.data_flag.deleted
      PROVE  DeletedOnce'
  <2>1. /\ pc'[t] = l /\ loc'[t] = r /\ cur'[t] = c
        /\ \A u \in Threads \ {t} : pc'[u] = pc[u] /\ loc'[u] = loc[u] /\ cur'[u] = cur[u]
    BY <1>2, <1>6
  <2>2. ASSUME NEW i \in 1..Len(disposed') PROVE Given(i)'
    <3>1. i \in 1..Len(disposed) /\ disposed'[i] = disposed[i] /\ Given(i)
      BY <1>4, <1>6
    <3>2. data_flag[disposed[i][1]].deleted
      BY <3>1, SMT
    <3>3. data_flag'[disposed[i][1]] = data_flag[disposed[i][1]]
      BY <1>2, <1>6, <3>1, <3>2
    <3>4. disposed[i][1] <= element_count'
      BY <1>2, <1>6, <3>1, SMT
    <3>5. QED
      BY <3>1, <3>3, <3>4
  <2>3. Once'
    BY <1>4, <1>6
  <2>4. ASSUME NEW u \in Threads PROVE Gives(u)' /\ Live(u)'
    <3>1. CASE u = t
      BY <1>6, <2>1, <3>1
    <3>2. CASE u # t
      <4>1. Live(u)'
        BY <1>4, <2>1, <3>2
      <4>2. SUFFICES ASSUME pc[u] = "del_func" PROVE Gives(u)'
        BY <2>1, <3>2, <4>1
      <4>3. cur[u] \in Elements /\ data_flag[cur[u]].deleted
        <5>1. cur[u] \in Elements
          BY <1>3, <4>2 DEF ElementLabels
        <5>2. data_flag[cur[u]] = [data |-> loc[u].data_flag.data, deleted |-> TRUE]
          BY <1>4, <4>2
        <5>3. QED
          BY <5>1, <5>2, SMT
      <4>4. data_flag'[cur[u]] = data_flag[cur[u]]
        BY <1>2, <1>6, <4>3
      <4>5. \A v \in Threads : pc'[v] = "del_func" => pc[v] = "del_func" /\ cur'[v] = cur[v]
        BY <1>6, <2>1
      <4>6. Gives(u) /\ loc'[u] = loc[u] /\ cur'[u] = cur[u] /\ disposed' = disposed
        BY <1>4, <1>6, <2>1, <3>2
      <4>7. data_flag'[cur'[u]] = [data |-> loc'[u].data_flag.data, deleted |-> TRUE]
        BY <4>2, <4>4, <4>6
      <4>8. \A v \in Threads : v # u /\ pc'[v] = "del_func" => cur'[v] # cur'[u]
        BY <4>2, <4>5, <4>6
      <4>9. \A i \in 1..Len(disposed') : disposed'[i][1] # cur'[u]
        BY <4>2, <4>6
      <4>10. QED
        BY <4>7, <4>8, <4>9
    <3>3. QED
      BY <3>1, <3>2
  <2>5. QED
    BY <1>5, <2>2, <2>3, <2>4
<1>7. ASSUME NEW l \in Labels, NEW r \in Locals, NEW c \in Pointers, Quiet(t, l, r, c)
      PROVE  DeletedOnce'
  <2>1. /\ UNCHANGED <<data_flag, element_count, disposed>> /\ l # "del_func"
        /\ pc' = [pc EXCEPT ![t] = l] /\ loc' = [loc EXCEPT ![t] = r] /\ cur' = [cur EXCEPT ![t] = c]
        /\ l \in {"del_dcas", "set_dcas"} => ~r.data_flag.deleted
    BY <1>7 DEF Quiet
  <2>2. element_count' \in Nat /\ element_count <= element_count'
    BY <1>2, <2>1, SMT
  <2>3. disposed' = disposed /\ \A e \in Elements : data_flag'[e] = data_flag[e]
    BY <2>1
  <2>4. QED
    BY <1>6, <2>1, <2>2, <2>3
<1>8. ASSUME NEW l \in Labels, Creates(t, l)
      PROVE  DeletedOnce'
  <2> DEFINE r == [loc[t] EXCEPT !.se = element_count + 1]
  <2>1. /\ disposed' = disposed /\ element_count' = element_count + 1
        /\ pc' = [pc EXCEPT ![t] = l] /\ loc' = [loc EXCEPT ![t] = r] /\ cur' = [cur EXCEPT ![t] = cur[t]]
        /\ l \in {"head_read", "after_read"}
    BY <1>8, ThreadFacts DEF Creates
  <2>2. element_count' \in Nat /\ element_count <= element_count' /\ l \notin {"del_func", "del_dcas", "set_dcas"}
    BY <1>2, <2>1, SMT
  <2>3. \A e \in Elements : e <= element_count => data_flag'[e] = data_flag[e]
    <3>1. \A e \in Elements : e \in Nat /\ (e <= element_count => e # element_count + 1)
      BY <1>2, SMT DEF Elements
    <3>2. QED
      BY <1>2, <1>8, <3>1 DEF Creates
  <2> HIDE DEF r
  <2>4. QED
    BY <1>6, <2>1, <2>2, <2>3
<1>9. CASE Links(t)
  <2>1. /\ UNCHANGED <<data_flag, element_count, disposed>> /\ pc[t] \in {"head_cas", "after_cas"}
        /\ element_count' \in Nat /\ element_count <= element_count'
    BY <1>2, <1>9, SMT DEF Links
  <2>2. PICK l \in {"idle", "head_cas", "after_cas"} : pc' = [pc EXCEPT ![t] = l]
    BY <1>9, <2>1, ThreadFacts DEF Links
  <2>3. /\ \E r : loc' = [loc EXCEPT ![t] = r]
        /\ \E c : cur' = [cur EXCEPT ![t] = c]
    <3>1. cur = [cur EXCEPT ![t] = cur[t]]
      BY ThreadFacts
    <3>2. QED
      BY <1>9, <3>1 DEF Links
  <2>4. l \notin {"del_func", "del_dcas", "set_dcas"}
    OBVIOUS
  <2>5. QED
    BY <1>6, <2>1, <2>2, <2>3, <2>4
<1>10. CASE Deletes(t)
  <2> DEFINE w == [loc[t].data_flag EXCEPT !.deleted = TRUE]
  <2>1. /\ UNCHANGED <<element_count, disposed, loc, cur>> /\ pc[t] = "del_dcas"
        /\ pc' = [pc EXCEPT ![t] = "del_func"] /\ data_flag[cur[t]] = loc[t].data_flag
        /\ data_flag' = [data_flag EXCEPT ![cur[t]] = w]
    BY <1>10 DEF Deletes
  <2>2. ~data_flag[cur[t]].deleted /\ cur[t] \in Elements
    BY <1>3, <1>4, <2>1 DEF ElementLabels
  <2>3. w = [data |-> loc[t].data_flag.data, deleted |-> TRUE]
    <3>1. loc[t].data_flag \in Words
      BY ThreadFacts
    <3>2. QED
      BY <3>1, DeletedWords
  <2>4. \A i \in 1..Len(disposed) : disposed[i][1] # cur[t]
    <3>1. SUFFICES ASSUME NEW i \in 1..Len(disposed) PROVE disposed[i][1] # cur[t]
      OBVIOUS
    <3>2. data_flag[disposed[i][1]] = [data |-> disposed[i][2], deleted |-> TRUE]
      BY <1>4
    <3>3. data_flag[disposed[i][1]].deleted
      BY <3>2, SMT
    <3>4. QED
      BY <2>2, <3>3
  <2>5. \A u \in Threads : pc[u] = "del_func" => cur[u] # cur[t]
    <3>1. SUFFICES ASSUME NEW u \in Threads, pc[u] = "del_func" PROVE cur[u] # cur[t]
      OBVIOUS
    <3>2. data_flag[cur[u]] = [data |-> loc[u].data_flag.data, deleted |-> TRUE]
      BY <1>4, <3>1
    <3>3. data_flag[cur[u]].deleted
      BY <3>2, SMT
    <3>4. QED
      BY <2>2, <3>3
  <2>6. \A i \in 1..Len(disposed') : Given(i)'
    BY <1>2, <1>4, <2>1, <2>4
  <2>7. Once'
    BY <1>4, <2>1
  <2>8. /\ pc'[t] = "del_func" /\ \A u \in Threads \ {t} : pc'[u] = pc[u]
        /\ data_flag'[cur[t]] = w /\ \A e \in Elements : e # cur[t] => data_flag'[e] = data_flag[e]
    BY <1>2, <2>1, <2>2
  <2>9. ASSUME NEW u \in Threads PROVE Gives(u)' /\ Live(u)'
    <3>1. CASE u = t
      <4>1. Live(t)'
        BY <2>8
      <4>2. Gives(t)'
        BY <2>1, <2>3, <2>4, <2>5, <2>8, SMT
      <4>3. QED
        BY <3>1, <4>1, <4>2
    <3>2. CASE u # t
      <4>1. Live(u)'
        BY <1>4, <2>1, <2>8, <3>2
      <4>2. SUFFICES ASSUME pc[u] = "del_func" PROVE Gives(u)'
        BY <2>8, <3>2, <4>1
      <4>3. cur[u] \in Elements /\ cur[u] # cur[t] /\ data_flag'[cur[u]] = data_flag[cur[u]]
        BY <1>3, <2>5, <2>8, <4>2 DEF ElementLabels
      <4>4. QED
        BY <1>4, <2>1, <2>8, <3>2, <4>2, <4>3, SMT
    <3>3. QED
      BY <3>1, <3>2
  <2>10. QED
    BY <1>5, <2>6, <2>7, <2>9
<1>11. CASE Sets(t)
  <2>1. /\ UNCHANGED <<element_count, disposed>> /\ cur' = [cur EXCEPT ![t] = cur[t]] /\ pc[t] = "set_dcas"
        /\ pc' = [pc EXCEPT ![t] = "idle"] /\ loc' = [loc EXCEPT ![t] = NoLocals]
        /\ data_flag[cur[t]] = loc[t].data_flag
        /\ data_flag' = [data_flag EXCEPT ![cur[t]] = [loc[t].data_flag EXCEPT !.data = <<t, calls[t]>>]]
    BY <1>11, ThreadFacts DEF Sets, Return
  <2>2. ~data_flag[cur[t]].deleted
    BY <1>4, <2>1
  <2>3. \A e \in Elements : e <= element_count /\ data_flag[e].deleted => data_flag'[e] = data_flag[e]
    BY <1>2, <2>1, <2>2
  <2>4. element_count' \in Nat /\ element_count <= element_count'
    BY <1>2, <2>1, SMT
  <2>5. QED
    BY <1>6, <2>1, <2>3, <2>4
<1>12. CASE DelFunc(t)
  <2>a. PICK n : n = Len(disposed)
    OBVIOUS
  <2> DEFINE d == <<cur[t], loc[t].data_flag.data>>
  <2>1. /\ UNCHANGED <<data_flag, element_count, cur>> /\ pc[t] = "del_func"
        /\ pc' = [pc EXCEPT ![t] = "idle"] /\ loc' = [loc EXCEPT ![t] = NoLocals]
        /\ disposed' = Append(disposed, d)
    BY <1>12 DEF DelFunc, Return
  <2>2. /\ Len(disposed') = n + 1 /\ disposed'[n + 1] = d
        /\ \A i \in 1..n : disposed'[i] = disposed[i]
    <3>1. disposed \in Seq(Elements \X (Data \cup {NoData}))
      BY <1>1 DEF TypeOK
    <3> HIDE DEF d
    <3>2. QED
      BY <2>a, <2>1, <3>1, SMT
  <2>3. /\ disposed'[n + 1][1] = cur[t] /\ disposed'[n + 1][2] = loc[t].data_flag.data
    BY <2>2, SMT
  <2>4. n \in Nat /\ \A i \in 1..Len(disposed') : i \in 1..n \/ i = n + 1
    BY <1>2, <2>a, <2>2, SMT
  <2>5. Gives(t) /\ data_flag[cur[t]] = [data |-> loc[t].data_flag.data, deleted |-> TRUE]
        /\ \A i \in 1..n : disposed[i][1] # cur[t]
    BY <1>4, <2>a, <2>1
  <2> HIDE DEF d
  <2>6. \A i \in 1..Len(disposed') : Given(i)'
    <3>1. \A i \in 1..n : Given(i)'
      BY <1>4, <2>1, <2>a, <2>2, SMT
    <3>2. Given(n + 1)'
      BY <1>2, <2>1, <2>3, <2>5
    <3>3. QED
      BY <2>4, <3>1, <3>2
  <2>7. Once'
    <3>1. \A i, j \in 1..n : disposed'[i][1] = disposed'[j][1] => i = j
      BY <1>4, <2>a, <2>2
    <3>2. \A i \in 1..n : disposed'[i][1] # disposed'[n + 1][1]
      BY <2>2, <2>3, <2>5
    <3>3. QED
      BY <2>4, <3>1, <3>2
  <2>8. /\ pc'[t] = "idle" /\ \A u \in Threads \ {t} : pc'[u] = pc[u] /\ loc'[u] = loc[u]
    BY <1>2, <2>1
  <2>9. ASSUME NEW u \in Threads PROVE Gives(u)' /\ Live(u)'
    <3>1. CASE u = t
      BY <2>8, <3>1
    <3>2. CASE u # t
      <4>1. Live(u)'
        BY <1>4, <2>8, <3>2
      <4>2. SUFFICES ASSUME pc[u] = "del_func" PROVE Gives(u)'
        BY <2>8, <3>2, <4>1
      <4>3. \A i \in 1..Len(disposed') : disposed'[i][1] # cur[u]
        <5>1. cur[u] # cur[t]
          BY <1>4, <2>1, <3>2, <4>2
        <5>a. \A i \in 1..Len(disposed) : disposed[i][1] # cur[u]
          BY <1>4, <4>2
        <5>2. \A i \in 1..n : disposed'[i][1] # cur[u]
          BY <2>a, <2>2, <5>a
        <5>3. QED
          BY <2>3, <2>4, <5>1, <5>2
      <4>4. \A v \in Threads : v # u /\ pc'[v] = "del_func" => cur[v] # cur[u]
        <5>1. \A v \in Threads : pc'[v] = "del_func" => pc[v] = "del_func"
          BY <2>8
        <5>2. \A v \in Threads : v # u /\ pc[v] = "del_func" => cur[v] # cur[u]
          BY <1>4, <4>2
        <5>3. QED
          BY <5>1, <5>2
      <4>5. QED
        BY <1>4, <2>1, <2>8, <3>2, <4>2, <4>3, <4>4
    <3>3. QED
      BY <3>1, <3>2
  <2>10. QED
    BY <1>5, <2>6, <2>7, <2>9
<1>13. QED
  BY <1>7, <1>8, <1>9, <1>10, <1>11, <1>12 DEF Effect

(* Every deletion is counted once. *)
LEMMA CountedStep ==
  ASSUME Invariant, NEW t \in Threads, Effect(t)
  PROVE  DeletesCounted'
<1>1. TypeOK /\ PointersOK /\ DeletesCounted /\ DeletedOnce
  BY DEF Invariant
<1> DEFINE D == {e \in Elements : data_flag[e].deleted}
<1>2. /\ data_flag \in [Elements -> Words] /\ element_count \in Nat
      /\ \A e \in Elements : e \in Nat
      /\ \A e \in Elements : e > element_count => ~data_flag[e].deleted
      /\ deletes = Cardinality(D)
  BY <1>1, SlistAssumption, SMT DEF TypeOK, DeletesCounted, Elements, Pointers
<1>3. IsFiniteSet(D) /\ Cardinality(D) \in Nat
  <2>1. IsFiniteSet(Elements)
    BY SlistAssumption, FS_Interval, SMT DEF Elements
  <2>2. D \subseteq Elements
    OBVIOUS
  <2>3. QED
    BY <2>1, <2>2, FS_Subset, FS_CardinalityType
<1>4. ASSUME data_flag' = data_flag, element_count' = element_count, deletes' = deletes
      PROVE  DeletesCounted'
  BY <1>1, <1>4 DEF DeletesCounted
<1>5. ASSUME NEW l \in Labels, Creates(t, l)
      PROVE  DeletesCounted'
  <2> DEFINE n == element_count + 1
             w == [data |-> <<t, calls[t] + 1>>, deleted |-> FALSE]
  <2>1. /\ element_count' = n /\ deletes' = deletes /\ data_flag' = [data_flag EXCEPT ![n] = w]
        /\ ~w.deleted
    BY <1>5 DEF Creates
  <2>2. n \in Nat /\ n > element_count
    BY <1>2, SMT
  <2> HIDE DEF w
  <2>3. \A e \in Elements : e # n => data_flag'[e] = data_flag[e]
    BY <1>2, <2>1
  <2>4. n \in Elements => ~data_flag'[n].deleted /\ ~data_flag[n].deleted
    BY <1>2, <2>1, <2>2
  <2>5. D' = D
    BY <2>3, <2>4
  <2>6. \A e \in Elements : e > element_count' => ~data_flag'[e].deleted
    BY <1>2, <2>1, <2>3, <2>4, SMT
  <2>7. QED
    BY <1>2, <2>1, <2>5, <2>6 DEF DeletesCounted
<1>6. CASE Deletes(t)
  <2> DEFINE w == [loc[t].data_flag EXCEPT !.deleted = TRUE]
  <2>1. /\ element_count' = element_count /\ deletes' = deletes + 1 /\ pc[t] = "del_dcas"
        /\ data_flag[cur[t]] = loc[t].data_flag /\ data_flag' = [data_flag EXCEPT ![cur[t]] = w]
    BY <1>6 DEF Deletes
  <2>2. /\ ~loc[t].data_flag.deleted
    BY <1>1, <2>1 DEF DeletedOnce
  <2>3. w.deleted /\ cur[t] \in Elements
    BY <2>1, ThreadFacts DEF Words, ElementLabels
  <2> HIDE DEF w
  <2>4. cur[t] <= element_count
    BY <1>1 DEF PointersOK
  <2>5. /\ data_flag'[cur[t]] = w
        /\ \A e \in Elements : e # cur[t] => data_flag'[e] = data_flag[e]
    BY <1>2, <2>1, <2>3
  <2>6. D' = D \cup {cur[t]} /\ cur[t] \notin D
    BY <2>1, <2>2, <2>3, <2>5
  <2> HIDE DEF D
  <2>7. Cardinality(D') = Cardinality(D) + 1
    BY <1>3, <2>6, FS_AddElement
  <2>8. \A e \in Elements : e > element_count' => ~data_flag'[e].deleted
    BY <1>2, <2>1, <2>3, <2>4, <2>5, SMT
  <2>9. QED
    BY <1>2, <2>1, <2>7, <2>8 DEF DeletesCounted, D
<1>7. CASE Sets(t)
  <2> DEFINE w == [loc[t].data_flag EXCEPT !.data = <<t, calls[t]>>]
  <2>1. /\ element_count' = element_count /\ deletes' = deletes /\ pc[t] = "set_dcas"
        /\ data_flag[cur[t]] = loc[t].data_flag /\ data_flag' = [data_flag EXCEPT ![cur[t]] = w]
    BY <1>7 DEF Sets
  <2>2. ~loc[t].data_flag.deleted
    BY <1>1, <2>1 DEF DeletedOnce
  <2>3. ~w.deleted /\ cur[t] \in Elements
    BY <2>1, <2>2, ThreadFacts DEF Words, ElementLabels, SetLabels
  <2> HIDE DEF w
  <2>4. /\ data_flag'[cur[t]] = w
        /\ \A e \in Elements : e # cur[t] => data_flag'[e] = data_flag[e]
    BY <1>2, <2>1, <2>3
  <2>5. D' = D
    BY <2>1, <2>2, <2>3, <2>4
  <2>6. \A e \in Elements : e > element_count' => ~data_flag'[e].deleted
    BY <1>2, <2>1, <2>3, <2>4
  <2>7. QED
    BY <1>2, <2>1, <2>5, <2>6 DEF DeletesCounted
<1>8. QED
  BY <1>4, <1>5, <1>6, <1>7 DEF Effect, Quiet, Links, DelFunc

(* No step gives an element the data that another has or a reader holds.   *)
LEMMA DistinctStep ==
  ASSUME Invariant, NEW t \in Threads, Effect(t)
  PROVE  DataDistinct'
<1>1. TypeOK /\ PointersOK /\ DataDistinct
  BY DEF Invariant
<1>2. /\ pc \in [Threads -> Labels \ {"gone"}] /\ loc \in [Threads -> Locals]
      /\ cur \in [Threads -> Pointers] /\ data_flag \in [Elements -> Words]
      /\ calls \in [Threads -> Nat]
  BY <1>1 DEF TypeOK, Locals
<1>3. /\ element_count \in Nat /\ 1..element_count \subseteq Elements
      /\ \A p \in Pointers : p # NULL /\ p <= element_count => p \in 1..element_count
  BY <1>1, SlistAssumption, SMT DEF TypeOK, Pointers, Elements, NULL
<1>4. \A d \in Data : d[1] \in Threads /\ d[2] \in Nat
  BY SlistAssumption, SMT DEF Data
<1> DEFINE data(e) == data_flag[e].data
           Reads(u) == pc[u] = "get_flag" =>
                         /\ Stored(loc[u].data_flag.data)
                         /\ \A e \in 1..element_count : data_flag[e].data = loc[u].data_flag.data => e = cur[u]
<1>5. /\ \A e \in 1..element_count : Stored(data(e))
      /\ \A e, f \in 1..element_count : data(e) = data(f) => e = f
      /\ \A u \in Threads : Reads(u)
  BY <1>1 DEF DataDistinct
<1>6. ASSUME \A e \in 1..element_count' : Stored(data_flag[e].data)',
             \A e, f \in 1..element_count' : data_flag'[e].data = data_flag'[f].data => e = f,
             \A u \in Threads : Reads(u)'
      PROVE  DataDistinct'
  BY <1>6 DEF DataDistinct
(* What is stored stays so. *)
<1>7. ASSUME NEW l, NEW d, Stored(d), pc' = [pc EXCEPT ![t] = l],
             (calls' = calls /\ (l \in SetLabels => pc[t] \in SetLabels)) \/ Called(t)
      PROVE  Stored(d)'
  <2>1. d \in Data /\ d[1] \in Threads /\ d[2] \in Nat /\ d[2] <= calls[d[1]] /\ calls[d[1]] \in Nat
    BY <1>2, <1>4, <1>7 DEF Stored
  <2>2. CASE d[1] # t
    <3>1. pc'[d[1]] = pc[d[1]] /\ calls'[d[1]] = calls[d[1]]
      BY <1>2, <1>7, <2>1, <2>2 DEF Called
    <3>2. QED
      BY <1>7, <3>1 DEF Stored
  <2>3. CASE d[1] = t
    <3>1. pc'[t] = l
      BY <1>2, <1>7
    <3>2. CASE calls' = calls /\ (l \in SetLabels => pc[t] \in SetLabels)
      BY <1>7, <2>3, <3>1, <3>2 DEF Stored
    <3>3. CASE Called(t)
      <4>1. calls'[t] = calls[t] + 1
        BY <1>2, <3>3 DEF Called
      <4>2. d[2] < calls'[t] /\ d[2] <= calls'[t]
        BY <2>1, <2>3, <4>1, SMT
      <4>3. QED
        BY <2>1, <2>3, <4>2 DEF Stored
    <3>4. QED
      BY <1>7, <3>2, <3>3
  <2>4. QED
    BY <2>2, <2>3
(* A step that leaves the data alone. *)
<1>8. ASSUME NEW l, NEW r, NEW c,
             pc' = [pc EXCEPT ![t] = l], loc' = [loc EXCEPT ![t] = r], cur' = [cur EXCEPT ![t] = c],
             element_count' = element_count,
             \A e \in Elements : data_flag'[e].data = data(e),
             (calls' = calls /\ (l \in SetLabels => pc[t] \in SetLabels)) \/ Called(t),
             l = "get_flag" => /\ cur[t] \in 1..element_count
                               /\ r.data_flag.data = data(cur[t]) /\ c = cur[t]
      PROVE  DataDistinct'
  <2>1. \A d : Stored(d) => Stored(d)'
    BY <1>7, <1>8
  <2>2. \A e \in 1..element_count' : data_flag'[e].data = data(e) /\ Stored(data_flag[e].data)'
    <3>1. SUFFICES ASSUME NEW e \in 1..element_count
                   PROVE  data_flag'[e].data = data(e) /\ Stored(data_flag[e].data)'
      BY <1>8
    <3>2. data_flag'[e].data = data(e) /\ Stored(data(e))
      BY <1>3, <1>5, <1>8
    <3>3. QED
      BY <3>2, <2>1 DEF Stored
  <2>3. \A e, f \in 1..element_count' : data_flag'[e].data = data_flag'[f].data => e = f
    BY <1>5, <1>8, <2>2
  <2>4. ASSUME NEW u \in Threads PROVE Reads(u)'
    <3>1. CASE u = t
      <4>1. pc'[t] = l /\ loc'[t] = r /\ cur'[t] = c
        BY <1>2, <1>8
      <4>2. SUFFICES ASSUME l = "get_flag" PROVE Reads(t)'
        BY <3>1, <4>1
      <4>3. r.data_flag.data = data(cur[t]) /\ c = cur[t] /\ Stored(data(cur[t]))
        BY <1>5, <1>8, <4>2
      <4>4. Stored(loc[t].data_flag.data)'
        BY <2>1, <4>1, <4>3 DEF Stored
      <4>5. \A e \in 1..element_count' : data_flag'[e].data = loc'[t].data_flag.data => e = cur'[t]
        BY <1>5, <1>8, <2>2, <4>1, <4>2, <4>3, SMT
      <4>6. QED
        BY <4>4, <4>5
    <3>2. CASE u # t
      <4>1. pc'[u] = pc[u] /\ loc'[u] = loc[u] /\ cur'[u] = cur[u]
        BY <1>2, <1>8, <3>2
      <4>2. SUFFICES ASSUME pc[u] = "get_flag" PROVE Reads(u)'
        BY <4>1
      <4>3. Stored(loc[u].data_flag.data)'
        BY <1>5, <2>1, <4>1, <4>2 DEF Stored
      <4>4. \A e \in 1..element_count' : data_flag'[e].data = loc'[u].data_flag.data => e = cur'[u]
        BY <1>5, <1>8, <2>2, <4>1, <4>2
      <4>5. QED
        BY <4>3, <4>4
    <3>3. QED
      BY <3>1, <3>2
  <2>5. QED
    BY <1>6, <2>2, <2>3, <2>4
(* A step that gives the element n the data d, which no call has stored. *)
<1>9. ASSUME NEW l, NEW n \in Elements, NEW d \in Data,
             pc' = [pc EXCEPT ![t] = l], l # "get_flag",
             \A u \in Threads : u # t => loc'[u] = loc[u] /\ cur'[u] = cur[u],
             (calls' = calls /\ l \notin SetLabels) \/ Called(t),
             element_count' \in Nat, 1..element_count' \subseteq 1..element_count \cup {n},
             \A e \in Elements : e # n => data_flag'[e] = data_flag[e],
             data_flag'[n].data = d, Stored(d)', ~Stored(d)
      PROVE  DataDistinct'
  <2>1. \A x : Stored(x) => Stored(x)'
    BY <1>7, <1>9
  <2>2. ASSUME NEW e \in 1..element_count', e # n
        PROVE  e \in 1..element_count /\ data_flag'[e].data = data(e) /\ Stored(data(e))
    BY <1>3, <1>5, <1>9, <2>2
  <2>3. \A e \in 1..element_count' : Stored(data_flag[e].data)'
    <3>1. SUFFICES ASSUME NEW e \in 1..element_count' PROVE Stored(data_flag[e].data)'
      OBVIOUS
    <3>2. CASE e = n
      BY <1>9, <3>2 DEF Stored
    <3>3. CASE e # n
      BY <2>1, <2>2, <3>3 DEF Stored
    <3>4. QED
      BY <3>2, <3>3
  <2>4. \A e, f \in 1..element_count' : data_flag'[e].data = data_flag'[f].data => e = f
    <3>1. SUFFICES ASSUME NEW e \in 1..element_count', NEW f \in 1..element_count',
                          data_flag'[e].data = data_flag'[f].data
                   PROVE  e = f
      OBVIOUS
    <3>2. CASE e = n
      BY <1>9, <2>2, <3>1, <3>2
    <3>3. CASE f = n
      BY <1>9, <2>2, <3>1, <3>3
    <3>4. CASE e # n /\ f # n
      BY <1>5, <2>2, <3>1, <3>4
    <3>5. QED
      BY <3>2, <3>3, <3>4
  <2>5. ASSUME NEW u \in Threads PROVE Reads(u)'
    <3>1. SUFFICES ASSUME pc'[u] = "get_flag" PROVE Reads(u)'
      OBVIOUS
    <3>2. u # t /\ pc'[u] = pc[u] /\ loc'[u] = loc[u] /\ cur'[u] = cur[u]
      BY <1>2, <1>9, <3>1
    <3>3. /\ Stored(loc[u].data_flag.data)
          /\ \A e \in 1..element_count : data(e) = loc[u].data_flag.data => e = cur[u]
      BY <1>5, <3>1, <3>2
    <3>4. Stored(loc[u].data_flag.data)'
      BY <2>1, <3>2, <3>3 DEF Stored
    <3>5. loc[u].data_flag.data # d
      BY <1>9, <3>3
    <3>6. \A e \in 1..element_count' : data_flag'[e].data = loc'[u].data_flag.data => e = cur'[u]
      BY <1>9, <2>2, <3>2, <3>3, <3>5
    <3>7. QED
      BY <3>4, <3>6
  <2>6. QED
    BY <1>6, <2>3, <2>4, <2>5
<1>10. ASSUME NEW l \in Labels, NEW r \in Locals, NEW c \in Pointers, Quiet(t, l, r, c)
       PROVE  DataDistinct'
  <2>1. l = "get_flag" => /\ cur[t] \in 1..element_count
                          /\ r.data_flag.data = data(cur[t]) /\ c = cur[t]
    BY <1>3, <1>10 DEF Quiet, Pointer, ElementLabels
  <2>2. (calls' = calls /\ (l \in SetLabels => pc[t] \in SetLabels)) \/ Called(t)
    BY <1>10 DEF Quiet
  <2>3. /\ pc' = [pc EXCEPT ![t] = l] /\ loc' = [loc EXCEPT ![t] = r] /\ cur' = [cur EXCEPT ![t] = c]
        /\ element_count' = element_count /\ data_flag' = data_flag
    BY <1>10 DEF Quiet
  <2>4. QED
    BY <1>8, <2>1, <2>2, <2>3
<1>11. ASSUME NEW l \in Labels, Creates(t, l)
       PROVE  DataDistinct'
  <2> DEFINE n == element_count + 1
             w == [data |-> <<t, calls[t] + 1>>, deleted |-> FALSE]
  <2>0. PICK d : d = <<t, calls[t] + 1>>
    OBVIOUS
  <2>1. /\ pc' = [pc EXCEPT ![t] = l] /\ l # "get_flag" /\ l \notin SetLabels
        /\ loc' = [loc EXCEPT ![t] = [loc[t] EXCEPT !.se = n]] /\ cur' = cur
        /\ Called(t) /\ element_count' = n /\ element_count < MaxElements
        /\ data_flag' = [data_flag EXCEPT ![n] = w] /\ w.data = d
    BY <1>11, <2>0 DEF Creates, SetLabels
  <2>2. /\ calls[t] \in Nat /\ calls[t] + 1 \in 1..Len(Script[t])
        /\ calls'[t] = calls[t] + 1 /\ pc'[t] = l
    BY <1>2, <2>1, ThreadFacts, SMT DEF Called
  <2>3. d \in Data /\ d[1] = t /\ d[2] = calls[t] + 1
    BY <2>0, <2>2, SMT DEF Data
  <2>4. Stored(d)' /\ ~Stored(d)
    BY <2>1, <2>2, <2>3, SMT DEF Stored
  <2>5. /\ n \in Elements /\ n \in Nat /\ 1..n \subseteq 1..element_count \cup {n}
    BY <1>3, <2>1, SlistAssumption, SMT DEF Elements
  <2> HIDE DEF w
  <2>6. /\ \A e \in Elements : e # n => data_flag'[e] = data_flag[e]
        /\ data_flag'[n] = w
    BY <1>2, <2>1, <2>5
  <2>7. \A u \in Threads : u # t => loc'[u] = loc[u] /\ cur'[u] = cur[u]
    BY <1>2, <2>1
  <2> HIDE DEF n
  <2>8. QED
    BY <1>9, <2>1, <2>3, <2>4, <2>5, <2>6, <2>7
<1>12. CASE Links(t)
  <2>1. /\ pc[t] \in {"head_cas", "after_cas"} /\ calls' = calls
        /\ element_count' = element_count /\ data_flag' = data_flag
    BY <1>12 DEF Links
  <2>2. pc[t] \notin SetLabels
    BY <2>1 DEF SetLabels
  <2>3. \E l, r, c : /\ l # "get_flag" /\ l \notin SetLabels
                     /\ pc' = [pc EXCEPT ![t] = l] /\ loc' = [loc EXCEPT ![t] = r]
                     /\ cur' = [cur EXCEPT ![t] = c]
    <3>1. /\ cur = [cur EXCEPT ![t] = cur[t]] /\ pc = [pc EXCEPT ![t] = pc[t]]
          /\ "idle" \notin SetLabels
      BY ThreadFacts DEF SetLabels
    <3>2. \/ pc' = [pc EXCEPT ![t] = "idle"] /\ loc' = [loc EXCEPT ![t] = NoLocals]
             /\ (cur' = cur \/ cur' = [cur EXCEPT ![t] = loc[t].se])
          \/ pc' = pc /\ cur' = cur /\ \E r : loc' = [loc EXCEPT ![t] = r]
      BY <1>12 DEF Links
    <3>3. QED
      BY <2>1, <2>2, <3>1, <3>2, SMT
  <2>4. QED
    BY <1>8, <2>1, <2>3
<1>13. CASE Deletes(t)
  <2>1. /\ pc[t] = "del_dcas" /\ calls' = calls /\ pc' = [pc EXCEPT ![t] = "del_func"]
        /\ element_count' = element_count /\ loc' = loc /\ cur' = cur
        /\ data_flag[cur[t]] = loc[t].data_flag
        /\ data_flag' = [data_flag EXCEPT ![cur[t]] = [loc[t].data_flag EXCEPT !.deleted = TRUE]]
    BY <1>13 DEF Deletes
  <2>2. /\ loc' = [loc EXCEPT ![t] = loc[t]] /\ cur' = [cur EXCEPT ![t] = cur[t]]
        /\ loc[t].data_flag \in Words
    BY <2>1, ThreadFacts
  <2>3. [loc[t].data_flag EXCEPT !.deleted = TRUE].data = loc[t].data_flag.data
    BY <2>2 DEF Words
  <2>4. \A e \in Elements : data_flag'[e].data = data(e)
    BY <1>2, <2>1, <2>3
  <2>5. "del_func" \notin SetLabels
    BY DEF SetLabels
  <2>6. QED
    BY <1>8, <2>1, <2>2, <2>4, <2>5
<1>14. CASE Sets(t)
  <2>0. PICK d : d = <<t, calls[t]>>
    OBVIOUS
  <2> DEFINE w == [loc[t].data_flag EXCEPT !.data = d]
  <2>1. /\ pc[t] = "set_dcas" /\ calls' = calls /\ pc' = [pc EXCEPT ![t] = "idle"]
        /\ element_count' = element_count /\ loc' = [loc EXCEPT ![t] = NoLocals] /\ cur' = cur
        /\ data_flag' = [data_flag EXCEPT ![cur[t]] = w]
    BY <1>14, <2>0 DEF Sets, Return
  <2>2. /\ calls[t] \in 1..Len(Script[t]) /\ pc'[t] = "idle" /\ pc[t] \in SetLabels /\ "idle" \notin SetLabels
    BY <1>1, <1>2, <2>1, ThreadFacts, SMT DEF TypeOK, SetLabels
  <2>3. d \in Data /\ d[1] = t /\ d[2] = calls[t]
    BY <2>0, <2>2, SMT DEF Data
  <2>4. Stored(d)' /\ ~Stored(d)
    BY <2>1, <2>2, <2>3, SMT DEF Stored
  <2>5. cur[t] \in Elements /\ w.data = d /\ cur[t] \in 1..element_count
    BY <1>1, <1>3, <2>2, ThreadFacts DEF ElementLabels, Words, PointersOK, Elements
  <2> HIDE DEF w
  <2>6. /\ \A e \in Elements : e # cur[t] => data_flag'[e] = data_flag[e]
        /\ data_flag'[cur[t]] = w
    BY <1>2, <2>1, <2>5
  <2>7. \A u \in Threads : u # t => loc'[u] = loc[u] /\ cur'[u] = cur[u]
    BY <1>2, <2>1
  <2>8. element_count' \in Nat /\ 1..element_count' \subseteq 1..element_count \cup {cur[t]}
    BY <1>3, <2>1
  <2>9. QED
    BY <1>9, <2>1, <2>2, <2>3, <2>4, <2>5, <2>6, <2>7, <2>8
<1>15. CASE DelFunc(t)
  <2>1. /\ calls' = calls /\ pc' = [pc EXCEPT ![t] = "idle"] /\ data_flag' = data_flag
        /\ element_count' = element_count /\ loc' = [loc EXCEPT ![t] = NoLocals] /\ cur' = cur
    BY <1>15 DEF DelFunc, Return
  <2>2. "idle" \notin SetLabels /\ cur' = [cur EXCEPT ![t] = cur[t]]
    BY <2>1, ThreadFacts DEF SetLabels
  <2>3. QED
    BY <1>8, <2>1, <2>2
<1>16. QED
  BY <1>10, <1>11, <1>12, <1>13, <1>14, <1>15 DEF Effect

(* A step of a call has one of the effects above. *)
LEMMA CallEffect ==
  ASSUME Invariant, NEW t \in Threads, Begin(t) \/ Continue(t)
  PROVE  Effect(t)
<1>1. CASE Begin(t)
  BY <1>1, BeginEffect
<1>2. CASE Continue(t)
  BY <1>2, BeginEffect, LinkEffect, WordEffect DEF Continue, GetData
<1>3. QED
  BY <1>1, <1>2

(* A step of a call keeps the invariant. *)
LEMMA CallStep ==
  ASSUME Invariant, NEW t \in Threads, Begin(t) \/ Continue(t)
  PROVE  Invariant'
BY CallEffect, TypeStep, PointersStep, HiddenStep, DeletedStep, CountedStep, DistinctStep DEF Invariant

(* The labels of the calls are not those of the physical deletion. *)
LEMMA LabelsDiffer == (Labels \ {"gone"}) \cap (PhysLabels \cup {"gone"}) = {}
BY DEF Labels, LinkLabels, ElementLabels, SetLabels, MoveLabels, PhysLabels

(* Once the physical deletion has begun no call begins or goes on. *)
LEMMA GoneIsLast ==
  ASSUME NEW t \in Threads, pc[t] \in PhysLabels \cup {"gone"}
  PROVE  ~Begin(t) /\ ~Continue(t) /\ ~PhysicallyDeleteAll(t)
<1>1. /\ pc[t] \notin {"idle"} \cup LinkLabels \cup MoveLabels \cup SetLabels
      /\ pc[t] \notin {"del_data", "del_flag", "del_dcas", "del_func", "get_data", "get_flag"}
  BY DEF PhysLabels, LinkLabels, MoveLabels, SetLabels
<1>2. ~Begin(t)
  BY <1>1 DEF Begin, NewHead, NewNext, LogicallyDelete, SetData, GetHead, GetNext, CallOnElement, Call
<1>3. ~LinkHeadRead(t) /\ ~LinkHeadCas(t) /\ ~LinkAfterRead(t) /\ ~LinkAfterCas(t)
  BY <1>1 DEF LinkHeadRead, LinkHeadCas, LinkAfterRead, LinkAfterCas, Local, LinkLabels
<1>4. ~DelReadData(t) /\ ~DelReadFlag(t) /\ ~DelDcas(t) /\ ~DelFunc(t)
  BY <1>1 DEF DelReadData, DelReadFlag, DelDcas, DelFunc, Local
<1>5. ~GetData(t) /\ ~SetReadData(t) /\ ~SetReadFlag(t) /\ ~SetDcas(t)
  BY <1>1 DEF GetData, GetReadWords, GetReturn, CallOnElement, Call, SetReadData, SetReadFlag, SetDcas, Local,
              SetLabels
<1>6. ~MoveReadFlag(t) /\ ~MoveReadNext(t)
  BY <1>1 DEF MoveReadFlag, MoveReadNext, MoveLabels
<1>7. ~PhysicallyDeleteAll(t)
  BY <1>1 DEF PhysicallyDeleteAll
<1>8. QED
  BY <1>2, <1>3, <1>4, <1>5, <1>6, <1>7 DEF Continue

(* Once the physical deletion has begun only its loop takes steps. *)
LEMMA LoopSteps ==
  ASSUME IInv, Gone, NEW t \in Threads, Begin(t) \/ Continue(t) \/ PhysicalDelete(t)
  PROVE  PhysDeleteFunc(t) \/ PhysFree(t) \/ PhysInit(t)
<1>1. pc[t] \in PhysLabels \cup {"gone"}
  BY DEF IInv
<1>2. QED
  BY <1>1, GoneIsLast DEF PhysicalDelete

(* The physical deletion does not end in calls. *)
LEMMA GoneStays ==
  ASSUME IInv, [Next]_vars, Gone
  PROVE  Gone' /\ pc' \in [Threads -> PhysLabels \cup {"gone"}]
<1>1. pc \in [Threads -> PhysLabels \cup {"gone"}]
  BY DEF IInv
<1>2. CASE UNCHANGED vars
  BY <1>1, <1>2 DEF vars, Gone
<1>3. ASSUME Next PROVE pc' \in [Threads -> PhysLabels \cup {"gone"}]
  <2>1. PICK t \in Threads : PhysDeleteFunc(t) \/ PhysFree(t) \/ PhysInit(t)
    BY <1>3, LoopSteps DEF Next
  <2>2. PICK l \in PhysLabels \cup {"gone"} : pc' = [pc EXCEPT ![t] = l]
    BY <2>1 DEF PhysDeleteFunc, PhysFree, PhysInit, PhysLabels
  <2>3. QED
    BY <1>1, <2>2
<1>4. \E t \in Threads : TRUE
  BY DEF Gone
<1>5. QED
  BY <1>2, <1>3, <1>4 DEF Gone

(* The invariant is kept by every step and by stuttering. *)
LEMMA InvStep ==
  ASSUME IInv, [Next]_vars
  PROVE  IInv'
<1>1. CASE Gone
  BY <1>1, GoneStays DEF IInv
<1>2. CASE ~Gone
  <2>1. Invariant
    BY <1>2 DEF IInv
  <2>2. ASSUME Invariant' PROVE IInv'
    <3>1. \A t \in Threads : pc'[t] \in Labels \ {"gone"}
      BY <2>2 DEF Invariant, TypeOK
    <3>2. QED
      BY <2>2, <3>1, LabelsDiffer DEF IInv, Gone
  <2>3. ASSUME NEW t \in Threads, Begin(t) \/ Continue(t) PROVE IInv'
    BY <2>1, <2>2, <2>3, CallStep
  <2>4. ASSUME NEW t \in Threads, PhysicalDelete(t) PROVE IInv'
    <3>1. PhysicallyDeleteAll(t)
      BY <1>2, <2>4 DEF PhysicalDelete, PhysDeleteFunc, PhysFree, PhysInit, Gone, PhysLabels
    <3>2. pc' \in [Threads -> PhysLabels \cup {"gone"}]
      BY <3>1 DEF PhysicallyDeleteAll, PhysLabels
    <3>3. QED
      BY <3>2 DEF IInv, Gone
  <2>5. CASE UNCHANGED vars
    <3>1. /\ head' = head /\ next' = next /\ data_flag' = data_flag /\ element_count' = element_count
          /\ disposed' = disposed /\ deletes' = deletes /\ cur' = cur /\ read' = read
          /\ pc' = pc /\ loc' = loc /\ calls' = calls
      BY <2>5 DEF vars, memory
    <3>2. TypeOK' /\ PointersOK'
      BY <2>1, <3>1 DEF Invariant, TypeOK, PointersOK
    <3>3. NewIsHidden' /\ DeletedOnce' /\ DeletesCounted'
      BY <2>1, <3>1 DEF Invariant, NewIsHidden, DeletedOnce, DeletesCounted
    <3>4. DataDistinct'
      BY <2>1, <3>1 DEF Invariant, DataDistinct, Stored
    <3>5. QED
      BY <2>2, <3>2, <3>3, <3>4 DEF Invariant
  <2>6. QED
    BY <2>3, <2>4, <2>5 DEF Next
<1>3. QED
  BY <1>1, <1>2

(* The list is created empty, with no call in progress. *)
LEMMA InitOK ==
  ASSUME Init
  PROVE  IInv
<1>1. MaxElements \in Nat /\ NULL \in Pointers /\ NULL = 0 /\ NoData \in Data \cup {NoData}
  BY SlistAssumption, SMT DEF Pointers, NULL
<1>2. "idle" \in Labels \ {"gone"} /\ "idle" \notin LinkLabels \cup ElementLabels \cup MoveLabels \cup SetLabels
  BY DEF Labels, LinkLabels, ElementLabels, SetLabels, MoveLabels
<1>3. NoDataFlag \in Words /\ ~NoDataFlag.deleted
  BY DEF NoDataFlag, Words
<1>4. NoLocals \in Locals /\ NoLocals.se = NULL /\ NoLocals.se_next = NULL
  BY <1>1, <1>3 DEF NoLocals, Locals
<1>5. /\ head = NULL /\ next = [e \in Elements |-> NULL] /\ data_flag = [e \in Elements |-> NoDataFlag]
      /\ element_count = 0 /\ disposed = <<>> /\ deletes = 0 /\ cur = [t \in Threads |-> NULL]
      /\ read = [t \in Threads |-> [result |-> 0, data |-> NoData]]
      /\ pc = [t \in Threads |-> "idle"] /\ loc = [t \in Threads |-> NoLocals]
      /\ calls = [t \in Threads |-> 0]
  BY DEF Init
<1>6. TypeOK
  <2>1. /\ head \in Pointers /\ next \in [Elements -> Pointers] /\ data_flag \in [Elements -> Words]
        /\ element_count \in Pointers /\ deletes \in Nat /\ cur \in [Threads -> Pointers]
    BY <1>1, <1>3, <1>5
  <2>2. read \in [Threads -> [result : {0, 1}, data : Data \cup {NoData}]]
    BY <1>1, <1>5
  <2>3. pc \in [Threads -> Labels \ {"gone"}] /\ loc \in [Threads -> Locals]
    BY <1>2, <1>4, <1>5
  <2>4. disposed \in Seq(Elements \X (Data \cup {NoData}))
    BY <1>5, SMT
  <2>5. /\ calls \in [Threads -> Nat]
        /\ \A t \in Threads : calls[t] <= Len(Script[t]) /\ (pc[t] # "idle" => calls[t] # 0)
    <3>1. \A t \in Threads : Len(Script[t]) \in Nat
      BY SlistAssumption, SMT
    <3>2. QED
      BY <1>5, <3>1, SMT
  <2>6. QED
    BY <2>1, <2>2, <2>3, <2>4, <2>5 DEF TypeOK, Locals
<1>7. PointersOK /\ NewIsHidden
  BY <1>1, <1>2, <1>4, <1>5, SMT DEF PointersOK, NewIsHidden
<1>8. DeletedOnce
  <2>1. 1..Len(disposed) = {} /\ \A t \in Threads : pc[t] = "idle"
    BY <1>5, SMT
  <2>2. QED
    BY <2>1 DEF DeletedOnce
<1>9. DeletesCounted
  <2>1. {e \in Elements : data_flag[e].deleted} = {}
    BY <1>3, <1>5
  <2>2. QED
    BY <1>3, <1>5, <2>1, FS_EmptySet DEF DeletesCounted
<1>10. DataDistinct
  <2>1. 1..element_count = {} /\ \A t \in Threads : pc[t] = "idle"
    BY <1>5, SMT
  <2>2. QED
    BY <2>1 DEF DataDistinct
<1>11. ~Gone
  BY <1>5 DEF Gone, PhysLabels
<1>12. QED
  BY <1>6, <1>7, <1>8, <1>9, <1>10, <1>11 DEF IInv, Invariant

(***************************************************************************)
(* The inductive invariant holds throughout: pointers are to elements that *)
(* have been allocated, a new element is unknown until its cas links it,   *)
(* and the words of an element are frozen by the one dcas that deletes it. *)
(***************************************************************************)
THEOREM Invariance == Spec => []IInv
<1>1. Init => IInv
  BY InitOK
<1>2. IInv /\ [Next]_vars => IInv'
  BY InvStep
<1>3. QED
  BY <1>1, <1>2, PTL DEF Spec

(***************************************************************************)
(* slist_logically_delete_element: one of the callers wins, delete_func    *)
(* gets the data the element has from then on, never twice for one         *)
(* element, and every deletion is counted, whatever slist_set_data calls   *)
(* run against it.                                                         *)
(***************************************************************************)
THEOREM DeletesGetLastData == Spec => []DeleteGetsLastData
<1>1. IInv => DeleteGetsLastData
  BY DEF IInv, Invariant, DeletedOnce, DeletesCounted, DeleteGetsLastData
<1>2. QED
  BY <1>1, Invariance, PTL

(* Only the last step of slist_get_data gives a result. *)
LEMMA ReadChanges ==
  ASSUME NEW t \in Threads, Begin(t) \/ Continue(t) \/ PhysicalDelete(t), read' # read
  PROVE  GetReturn(t, "get_flag", [loc[t].data_flag EXCEPT !.deleted = data_flag[cur[t]].deleted])
<1>1. ~Begin(t)
  BY DEF Begin, NewHead, NewNext, NewElement, LogicallyDelete, SetData, GetHead, GetNext, CallOnElement,
         MoveTo, Found
<1>2. ~PhysicalDelete(t)
  BY DEF PhysicalDelete, PhysicallyDeleteAll, PhysDeleteFunc, PhysFree, PhysInit
<1>3. ~LinkHeadRead(t) /\ ~LinkHeadCas(t) /\ ~LinkAfterRead(t) /\ ~LinkAfterCas(t)
  BY DEF LinkHeadRead, LinkHeadCas, LinkAfterRead, LinkAfterCas, Local
<1>4. ~DelReadData(t) /\ ~DelReadFlag(t) /\ ~DelDcas(t) /\ ~DelFunc(t)
  BY DEF DelReadData, DelReadFlag, DelDcas, DelFunc, Local
<1>5. ~SetReadData(t) /\ ~SetReadFlag(t) /\ ~SetDcas(t)
  BY DEF SetReadData, SetReadFlag, SetDcas, Local
<1>6. ~MoveReadFlag(t) /\ ~MoveReadNext(t)
  BY DEF MoveReadFlag, MoveReadNext, MoveTo, Found
<1>7. GetData(t)
  BY <1>1, <1>2, <1>3, <1>4, <1>5, <1>6 DEF Continue
<1>8. QED
  BY <1>7 DEF GetData, CallOnElement, GetReadWords, Local

(* A read of an element that is not deleted is not of disposed data. *)
LEMMA ReadStep ==
  ASSUME IInv, Next, NEW u \in Threads, read'[u] # read[u], read'[u].result = 1,
         NEW i \in 1..Len(disposed)
  PROVE  disposed[i][2] # read'[u].data
<1>1. PICK t \in Threads : Begin(t) \/ Continue(t) \/ PhysicalDelete(t)
  BY DEF Next
<1> DEFINE w == [loc[t].data_flag EXCEPT !.deleted = data_flag[cur[t]].deleted]
           g == [result |-> IF w.deleted THEN 0 ELSE 1, data |-> w.data]
<1>2. pc[t] = "get_flag" /\ read' = [read EXCEPT ![t] = g]
  BY <1>1, ReadChanges DEF GetReturn
<1>3. Invariant
  <2>1. pc[t] \notin PhysLabels \cup {"gone"}
    BY <1>2 DEF PhysLabels
  <2>2. QED
    BY <2>1 DEF IInv
<1>4. /\ loc[t].data_flag \in Words /\ cur[t] \in Elements /\ data_flag[cur[t]] \in Words
      /\ read \in [Threads -> [result : {0, 1}, data : Data \cup {NoData}]]
  BY <1>2, <1>3, ThreadFacts DEF ElementLabels, Invariant, TypeOK
<1>5. w.data = loc[t].data_flag.data /\ w.deleted = data_flag[cur[t]].deleted
  BY <1>4 DEF Words
<1> HIDE DEF w
<1>6. g.data = w.data /\ (g.result = 1 => ~w.deleted)
  BY SMT
<1> HIDE DEF g
<1>7. u = t /\ read'[u] = g
  BY <1>2, <1>4
<1>8. /\ data_flag[disposed[i][1]] = [data |-> disposed[i][2], deleted |-> TRUE]
      /\ disposed[i][1] <= element_count
  BY <1>3 DEF Invariant, DeletedOnce
<1>9. data_flag[disposed[i][1]].data = disposed[i][2] /\ data_flag[disposed[i][1]].deleted = TRUE
  BY <1>8, SMT
<1>10. disposed[i][1] \in 1..element_count
  <2>1. disposed[i] \in Elements \X (Data \cup {NoData}) /\ element_count \in Pointers
    BY <1>3, ElementOfSeq DEF Invariant, TypeOK
  <2>2. disposed[i][1] \in Elements /\ element_count \in Nat
    BY <2>1, SlistAssumption, SMT DEF Pointers
  <2>3. QED
    BY <1>8, <2>2, SlistAssumption, SMT DEF Elements
<1>11. SUFFICES ASSUME disposed[i][2] = read'[u].data PROVE FALSE
  OBVIOUS
<1>12. disposed[i][1] = cur[t]
  <2>1. \A e \in 1..element_count : data_flag[e].data = loc[t].data_flag.data => e = cur[t]
    BY <1>2, <1>3 DEF Invariant, DataDistinct
  <2>2. data_flag[disposed[i][1]].data = loc[t].data_flag.data
    BY <1>5, <1>6, <1>7, <1>9, <1>11
  <2>3. QED
    BY <1>10, <2>1, <2>2
<1>13. QED
  BY <1>5, <1>6, <1>7, <1>9, <1>12

(***************************************************************************)
(* slist_get_data reads the data first and the flag after it, so that when *)
(* it returns 1 the data has not been given to delete_func, although the   *)
(* two words are not read together.                                        *)
(***************************************************************************)
THEOREM ReadsNeverDisposed == Spec => ReadNeverDisposed
<1>1. IInv /\ [Next]_vars =>
        [\A t \in Threads : read'[t] # read[t] /\ read'[t].result = 1 =>
            \A i \in 1..Len(disposed) : disposed[i][2] # read'[t].data]_vars
  BY ReadStep
<1>2. QED
  BY <1>1, Invariance, PTL DEF Spec, ReadNeverDisposed

(* A step that puts s, which nothing points to, between an element, or the *)
(* head, and what that pointed to keeps what can be reached.               *)
LEMMA LinkKeepsReach ==
  ASSUME NEW s \in Elements, next \in [Elements -> Pointers], head \in Pointers, head # s,
         \A e \in Elements : next[e] # s,
         head' = head \/ (head' = s /\ next'[s] = head),
         \A e \in Elements : e # s => \/ next'[e] = next[e]
                                      \/ next'[e] = s /\ next'[s] = next[e]
  PROVE  /\ ElementsFrom(head) \subseteq ElementsFrom(head)'
         /\ \A e \in ElementsFrom(head) : ElementsFrom(e) \subseteq ElementsFrom(e)'
<1>1. s # NULL
  BY SlistAssumption, SMT DEF Elements, NULL
<1>2. ASSUME NEW S \in SUBSET Elements, Closed(S)'
      PROVE  Closed(S \ {s})
  <2>1. SUFFICES ASSUME NEW x \in S, x # s PROVE next[x] \in (S \ {s}) \cup {NULL}
    BY DEF Closed
  <2>2. next'[x] \in S \cup {NULL} /\ (s \in S => next'[s] \in S \cup {NULL}) /\ x \in Elements
    BY <1>2, <2>1 DEF Closed
  <2>3. next[x] # s
    BY <2>2
  <2>4. CASE next'[x] = next[x]
    BY <2>2, <2>3, <2>4
  <2>5. CASE next'[x] = s /\ next'[s] = next[x]
    BY <1>1, <2>2, <2>3, <2>5
  <2>6. QED
    BY <2>1, <2>2, <2>4, <2>5
<1>3. ASSUME NEW S \in SUBSET Elements, Closed(S)', head' \in S \cup {NULL}
      PROVE  head \in (S \ {s}) \cup {NULL}
  BY <1>1, <1>3 DEF Closed
<1>4. ElementsFrom(head) \subseteq ElementsFrom(head)'
  <2>1. SUFFICES ASSUME NEW x \in ElementsFrom(head), NEW S \in SUBSET Elements, Closed(S)',
                        head' \in S \cup {NULL}
                 PROVE  x \in S
    BY DEF ElementsFrom, Closed
  <2>2. S \ {s} \in SUBSET Elements /\ Closed(S \ {s}) /\ head \in (S \ {s}) \cup {NULL}
    BY <1>2, <1>3, <2>1
  <2>3. QED
    BY <2>1, <2>2 DEF ElementsFrom
<1>5. s \notin ElementsFrom(head)
  <2> DEFINE S == Elements \ {s}
  <2>1. Closed(S)
    <3>1. \A p \in Pointers : p \in Elements \cup {NULL}
      BY SlistAssumption, SMT DEF Pointers, Elements, NULL
    <3>2. QED
      BY <3>1 DEF Closed
  <2>2. head \in S \cup {NULL} /\ s \notin S
    BY SlistAssumption, SMT DEF Pointers, Elements, NULL
  <2>3. QED
    BY <2>1, <2>2 DEF ElementsFrom
<1>6. ASSUME NEW e \in ElementsFrom(head)
      PROVE  ElementsFrom(e) \subseteq ElementsFrom(e)'
  <2>1. e # s
    BY <1>5
  <2>2. SUFFICES ASSUME NEW x \in ElementsFrom(e), NEW S \in SUBSET Elements, Closed(S)',
                        e \in S \cup {NULL}
                 PROVE  x \in S
    BY DEF ElementsFrom, Closed
  <2>3. S \ {s} \in SUBSET Elements /\ Closed(S \ {s}) /\ e \in (S \ {s}) \cup {NULL}
    BY <1>2, <2>1, <2>2
  <2>4. QED
    BY <2>2, <2>3 DEF ElementsFrom
<1>7. QED
  BY <1>4, <1>6

(* Only the two cas change the list. *)
LEMMA ListChanges ==
  ASSUME NEW t \in Threads, Begin(t) \/ Continue(t)
  PROVE  LinkHeadCas(t) \/ LinkAfterCas(t) \/ UNCHANGED <<head, next>>
<1>1. CASE Begin(t)
  BY <1>1 DEF Begin, NewHead, NewNext, NewElement, LogicallyDelete, SetData, GetHead, GetNext, CallOnElement,
              MoveTo, Found, memory
<1>2. CASE LinkHeadRead(t) \/ LinkAfterRead(t)
  BY <1>2 DEF LinkHeadRead, LinkAfterRead, Local, memory
<1>3. CASE DelReadData(t) \/ DelReadFlag(t) \/ DelDcas(t) \/ DelFunc(t)
  BY <1>3 DEF DelReadData, DelReadFlag, DelDcas, DelFunc, Local, memory
<1>4. CASE GetData(t)
  BY <1>4 DEF GetData, GetReadWords, GetReturn, CallOnElement, Local, memory
<1>5. CASE SetReadData(t) \/ SetReadFlag(t) \/ SetDcas(t)
  BY <1>5 DEF SetReadData, SetReadFlag, SetDcas, Local, memory
<1>6. CASE MoveReadFlag(t) \/ MoveReadNext(t)
  BY <1>6 DEF MoveReadFlag, MoveReadNext, MoveTo, Found, memory
<1>7. QED
  BY <1>1, <1>2, <1>3, <1>4, <1>5, <1>6 DEF Continue

(* No step of a call loses an element. *)
LEMMA ReachStep ==
  ASSUME Invariant, NEW t \in Threads, Begin(t) \/ Continue(t)
  PROVE  /\ ElementsFrom(head) \subseteq ElementsFrom(head)'
         /\ \A e \in ElementsFrom(head) : ElementsFrom(e) \subseteq ElementsFrom(e)'
<1> DEFINE s == loc[t].se
           c == cur[t]
           n == loc[t].se_next
<1>1. next \in [Elements -> Pointers] /\ head \in Pointers
  BY DEF Invariant, TypeOK
<1>2. ASSUME pc[t] \in LinkLabels
      PROVE  s \in Elements /\ head # s /\ (\A e \in Elements : next[e] # s) /\ c # s /\ n # s
  BY <1>2, ThreadFacts DEF Invariant, NewIsHidden
<1>3. CASE UNCHANGED <<head, next>>
  BY <1>3 DEF ElementsFrom, Closed
<1>4. CASE LinkHeadCas(t)
  <2>1. /\ pc[t] \in LinkLabels /\ next' = [next EXCEPT ![s] = n]
        /\ head' = head \/ (head = n /\ head' = s)
    BY <1>4 DEF LinkHeadCas, LinkLabels
  <2>2. s \in Elements /\ head # s /\ \A e \in Elements : next[e] # s
    BY <1>2, <2>1
  <2> HIDE DEF s, n
  <2>3. next'[s] = n /\ \A e \in Elements : e # s => next'[e] = next[e]
    BY <1>1, <2>1, <2>2
  <2>4. QED
    BY <1>1, <2>1, <2>2, <2>3, LinkKeepsReach
<1>5. CASE LinkAfterCas(t)
  <2>1. /\ pc[t] = "after_cas"
        /\ \/ next[c] = n /\ next' = [next EXCEPT ![s] = n, ![c] = s]
           \/ next' = [next EXCEPT ![s] = n]
        /\ head' = head
    BY <1>5 DEF LinkAfterCas
  <2>2. s \in Elements /\ head # s /\ (\A e \in Elements : next[e] # s) /\ c # s
    BY <1>2, <2>1 DEF LinkLabels
  <2>3. c \in Elements
    BY <2>1, ThreadFacts DEF ElementLabels
  <2> HIDE DEF s, n, c
  <2>4. /\ next'[s] = n
        /\ \A e \in Elements : e # s => next'[e] = next[e] \/ (next'[e] = s /\ next[e] = n)
    BY <1>1, <2>1, <2>2, <2>3
  <2>5. QED
    BY <1>1, <2>1, <2>2, <2>4, LinkKeepsReach
<1>6. QED
  BY <1>3, <1>4, <1>5, ListChanges

(***************************************************************************)
(* A traversal along slist_get_head and slist_get_next misses nothing: as  *)
(* long as the list is there, whatever can be reached from its head, or    *)
(* from an element in it, can be reached after every step of every thread. *)
(***************************************************************************)
THEOREM ReachNeverLost == Spec => ReachNeverShrinks
<1> DEFINE A == \/ Gone'
                \/ /\ ElementsFrom(head) \subseteq ElementsFrom(head)'
                   /\ \A e \in ElementsFrom(head) : ElementsFrom(e) \subseteq ElementsFrom(e)'
<1>1. ASSUME IInv, [Next]_vars PROVE [A]_vars
  <2>1. SUFFICES ASSUME Next PROVE A
    BY <1>1
  <2>2. CASE Gone
    BY <1>1, <2>2, GoneStays
  <2>3. CASE ~Gone
    <3>1. Invariant
      BY <1>1, <2>3 DEF IInv
    <3>2. PICK t \in Threads : Begin(t) \/ Continue(t) \/ PhysicalDelete(t)
      BY <2>1 DEF Next
    <3>3. CASE PhysicalDelete(t)
      <4>1. PhysicallyDeleteAll(t)
        BY <2>3, <3>3 DEF PhysicalDelete, PhysDeleteFunc, PhysFree, PhysInit, Gone, PhysLabels
      <4>2. pc'[t] = "phys_loop"
        BY <4>1 DEF PhysicallyDeleteAll
      <4>3. QED
        BY <4>2 DEF Gone, PhysLabels
    <3>4. CASE Begin(t) \/ Continue(t)
      BY <3>1, <3>4, ReachStep
    <3>5. QED
      BY <3>2, <3>3, <3>4
  <2>4. QED
    BY <2>2, <2>3
<1>2. QED
  BY <1>1, Invariance, PTL DEF Spec, ReachNeverShrinks

-----------------------------------------------------------------------------
(* The physical deletion *)

(* What can be reached from p is p and what can be reached from the next. *)
LEMMA ReachFacts ==
  ASSUME next \in [Elements -> Pointers], NEW p \in Pointers
  PROVE  /\ ElementsFrom(p) \in SUBSET Elements /\ Closed(ElementsFrom(p))
         /\ p \in ElementsFrom(p) \cup {NULL}
         /\ p = NULL => ElementsFrom(p) = {}
         /\ p # NULL => p \in Elements /\ ElementsFrom(p) = {p} \cup ElementsFrom(next[p])
<1>1. NULL \notin Elements /\ \A q \in Pointers : q # NULL => q \in Elements
  BY SlistAssumption, SMT DEF Pointers, Elements, NULL
<1>2. ElementsFrom(p) \in SUBSET Elements /\ p \in ElementsFrom(p) \cup {NULL}
  BY <1>1 DEF ElementsFrom
<1>3. \A q \in Pointers : Closed(ElementsFrom(q))
  <2>1. SUFFICES ASSUME NEW q \in Pointers, NEW x \in ElementsFrom(q), next[x] # NULL
                 PROVE  next[x] \in ElementsFrom(q)
    BY DEF Closed
  <2>2. x \in Elements /\ next[x] \in Elements
    BY <1>1, <2>1 DEF ElementsFrom
  <2>3. ASSUME NEW S \in SUBSET Elements, Closed(S), q \in S \cup {NULL} PROVE next[x] \in S
    <3>1. x \in S
      BY <2>1, <2>3 DEF ElementsFrom
    <3>2. QED
      BY <2>1, <2>3, <3>1 DEF Closed
  <2>4. QED
    BY <2>2, <2>3 DEF ElementsFrom
<1>4. p = NULL => ElementsFrom(p) = {}
  <2>1. Closed({}) /\ {} \in SUBSET Elements
    BY DEF Closed
  <2>2. QED
    BY <2>1 DEF ElementsFrom
<1>5. ASSUME p # NULL
      PROVE  p \in Elements /\ ElementsFrom(p) = {p} \cup ElementsFrom(next[p])
  <2> DEFINE R == ElementsFrom(next[p])
  <2>1. p \in Elements /\ next[p] \in Pointers /\ p \in ElementsFrom(p)
    BY <1>1, <1>2, <1>5
  <2>2. R \in SUBSET Elements /\ Closed(R) /\ next[p] \in R \cup {NULL}
    BY <1>1, <1>3, <2>1 DEF ElementsFrom
  <2>3. next[p] \in ElementsFrom(p) \cup {NULL}
    BY <1>3, <2>1 DEF Closed
  <2>4. R \subseteq ElementsFrom(p)
    BY <1>2, <1>3, <2>3 DEF ElementsFrom
  <2> HIDE DEF R
  <2>5. Closed({p} \cup R) /\ {p} \cup R \in SUBSET Elements
    BY <2>1, <2>2 DEF Closed
  <2>6. ElementsFrom(p) \subseteq {p} \cup R
    BY <2>5 DEF ElementsFrom
  <2>7. QED
    BY <2>1, <2>4, <2>6 DEF R
<1>6. QED
  BY <1>2, <1>3, <1>4, <1>5

(* A cas that fails changes the next pointer of its own element s alone,   *)
(* which nothing points to.                                                *)
LEMMA HiddenAcyclic ==
  ASSUME NEW s \in Elements, next \in [Elements -> Pointers], Acyclic,
         \A e \in Elements : next[e] # s,
         NEW n \in Pointers, n # s, next' = [next EXCEPT ![s] = n]
  PROVE  Acyclic'
<1>1. NULL \notin Elements /\ \A q \in Pointers : q # NULL => q \in Elements
  BY SlistAssumption, SMT DEF Pointers, Elements, NULL
<1>2. next'[s] = n /\ \A e \in Elements : e # s => next'[e] = next[e]
  OBVIOUS
<1>3. SUFFICES ASSUME NEW e \in Elements
               PROVE  \E S \in SUBSET Elements : Closed(S)' /\ next'[e] \in S \cup {NULL} /\ e \notin S
  BY DEF Acyclic, ElementsFrom, Closed
<1>4. CASE e = s
  <2> DEFINE S == Elements \ {s}
  <2>1. Closed(S)'
    BY <1>1, <1>2 DEF Closed
  <2>2. QED
    BY <1>1, <1>2, <1>4, <2>1
<1>5. CASE e # s
  <2>1. PICK S \in SUBSET Elements : Closed(S) /\ next[e] \in S \cup {NULL} /\ e \notin S
    BY DEF Acyclic, ElementsFrom
  <2>2. Closed(S \ {s})'
    BY <1>2, <2>1 DEF Closed
  <2>3. QED
    BY <1>2, <1>5, <2>1, <2>2
<1>6. QED
  BY <1>4, <1>5

(* A cas that links s after element c. *)
LEMMA LinkAcyclic ==
  ASSUME NEW s \in Elements, NEW c \in Elements, c # s, next \in [Elements -> Pointers], Acyclic,
         \A e \in Elements : next[e] # s,
         next' = [next EXCEPT ![s] = next[c], ![c] = s]
  PROVE  Acyclic'
<1>1. s # NULL
  BY SlistAssumption, SMT DEF Elements, NULL
<1>2. next'[s] = next[c] /\ next'[c] = s /\ \A e \in Elements : e # s /\ e # c => next'[e] = next[e]
  OBVIOUS
<1>3. SUFFICES ASSUME NEW e \in Elements
               PROVE  \E S \in SUBSET Elements : Closed(S)' /\ next'[e] \in S \cup {NULL} /\ e \notin S
  BY DEF Acyclic, ElementsFrom, Closed
<1>4. ASSUME NEW S \in SUBSET Elements, Closed(S), c \notin S PROVE Closed(S \ {s})'
  BY <1>2, <1>4 DEF Closed
<1>5. ASSUME NEW S \in SUBSET Elements, Closed(S), next[c] \in S \cup {NULL} PROVE Closed(S \cup {s})'
  <2>1. SUFFICES ASSUME NEW x \in S \cup {s} PROVE next'[x] \in (S \cup {s}) \cup {NULL}
    BY DEF Closed
  <2>2. QED
    BY <1>2, <1>5 DEF Closed
<1>6. \A x \in Elements : \E S \in SUBSET Elements : Closed(S) /\ next[x] \in S \cup {NULL} /\ x \notin S
  BY DEF Acyclic, ElementsFrom
<1>7. CASE e = s
  <2>1. PICK S \in SUBSET Elements : Closed(S) /\ next[c] \in S \cup {NULL} /\ c \notin S
    BY <1>6
  <2>2. Closed(S \ {s})' /\ S \ {s} \in SUBSET Elements
    BY <1>4, <2>1
  <2>3. next'[e] \in (S \ {s}) \cup {NULL} /\ e \notin S \ {s}
    BY <1>2, <1>7, <2>1
  <2>4. QED
    BY <2>2, <2>3
<1>8. CASE e = c
  <2>1. PICK S \in SUBSET Elements : Closed(S) /\ next[c] \in S \cup {NULL} /\ c \notin S
    BY <1>6
  <2>2. Closed(S \cup {s})' /\ S \cup {s} \in SUBSET Elements
    BY <1>5, <2>1
  <2>3. next'[e] \in (S \cup {s}) \cup {NULL} /\ e \notin S \cup {s}
    BY <1>2, <1>8, <2>1
  <2>4. QED
    BY <2>2, <2>3
<1>9. CASE e # s /\ e # c
  <2>1. PICK S \in SUBSET Elements : Closed(S) /\ next[e] \in S \cup {NULL} /\ e \notin S
    BY <1>6
  <2>2. CASE c \in S
    <3>1. next[c] \in S \cup {NULL}
      BY <2>1, <2>2 DEF Closed
    <3>2. Closed(S \cup {s})' /\ S \cup {s} \in SUBSET Elements
      BY <1>5, <2>1, <3>1
    <3>3. next'[e] \in (S \cup {s}) \cup {NULL} /\ e \notin S \cup {s}
      BY <1>2, <1>9, <2>1
    <3>4. QED
      BY <3>2, <3>3
  <2>3. CASE c \notin S
    <3>1. Closed(S \ {s})' /\ S \ {s} \in SUBSET Elements
      BY <1>4, <2>1, <2>3
    <3>2. next'[e] \in (S \ {s}) \cup {NULL} /\ e \notin S \ {s}
      BY <1>2, <1>9, <2>1
    <3>3. QED
      BY <3>1, <3>2
  <2>4. QED
    BY <2>2, <2>3
<1>10. QED
  BY <1>7, <1>8, <1>9

(* No step of a call makes a cycle. *)
LEMMA AcyclicStep ==
  ASSUME Invariant, Acyclic, NEW t \in Threads, Begin(t) \/ Continue(t)
  PROVE  Acyclic'
<1> DEFINE s == loc[t].se
           c == cur[t]
           n == loc[t].se_next
<1>1. next \in [Elements -> Pointers] /\ n \in Pointers
  BY ThreadFacts DEF Invariant, TypeOK
<1>2. ASSUME pc[t] \in LinkLabels
      PROVE  s \in Elements /\ (\A e \in Elements : next[e] # s) /\ c # s /\ n # s
  BY <1>2, ThreadFacts DEF Invariant, NewIsHidden
<1>3. CASE UNCHANGED <<head, next>>
  BY <1>3 DEF Acyclic, ElementsFrom, Closed
<1>4. CASE LinkHeadCas(t)
  <2>1. pc[t] \in LinkLabels /\ next' = [next EXCEPT ![s] = n]
    BY <1>4 DEF LinkHeadCas, LinkLabels
  <2>2. QED
    BY <1>1, <1>2, <2>1, HiddenAcyclic
<1>5. CASE LinkAfterCas(t)
  <2>1. /\ pc[t] = "after_cas"
        /\ \/ next[c] = n /\ next' = [next EXCEPT ![s] = n, ![c] = s]
           \/ next' = [next EXCEPT ![s] = n]
    BY <1>5 DEF LinkAfterCas
  <2>2. s \in Elements /\ (\A e \in Elements : next[e] # s) /\ c # s /\ n # s /\ c \in Elements
    BY <1>2, <2>1, ThreadFacts DEF LinkLabels, ElementLabels
  <2>3. CASE next' = [next EXCEPT ![s] = n]
    BY <1>1, <2>2, <2>3, HiddenAcyclic
  <2>4. CASE next[c] = n /\ next' = [next EXCEPT ![s] = n, ![c] = s]
    <3>1. next' = [next EXCEPT ![s] = next[c], ![c] = s]
      BY <2>4
    <3> HIDE DEF s, c
    <3>2. QED
      BY <1>1, <2>2, <3>1, LinkAcyclic
  <2>5. QED
    BY <2>1, <2>3, <2>4
<1>6. QED
  BY <1>3, <1>4, <1>5, ListChanges

(* A step of t leaves what the other threads have alone. *)
LEMMA OthersStay ==
  ASSUME Invariant, NEW t \in Threads, Begin(t) \/ Continue(t), NEW u \in Threads, u # t
  PROVE  pc'[u] = pc[u] /\ loc'[u] = loc[u] /\ cur'[u] = cur[u]
<1>1. Effect(t)
  BY CallEffect
<1>2. pc \in [Threads -> Labels \ {"gone"}] /\ loc \in [Threads -> Locals] /\ cur \in [Threads -> Pointers]
  BY DEF Invariant, TypeOK, Locals
<1>3. ASSUME NEW l, NEW r, NEW c, Quiet(t, l, r, c)
      PROVE  pc'[u] = pc[u] /\ loc'[u] = loc[u] /\ cur'[u] = cur[u]
  BY <1>2, <1>3 DEF Quiet
<1>4. ASSUME NEW l, Creates(t, l)
      PROVE  pc'[u] = pc[u] /\ loc'[u] = loc[u] /\ cur'[u] = cur[u]
  BY <1>2, <1>4 DEF Creates
<1>5. CASE Links(t)
  BY <1>2, <1>5 DEF Links
<1>6. CASE Deletes(t) \/ Sets(t) \/ DelFunc(t)
  BY <1>2, <1>6 DEF Deletes, Sets, DelFunc, Return
<1>7. QED
  BY <1>1, <1>3, <1>4, <1>5, <1>6 DEF Effect

(* No call frees an element. *)
LEMMA FreedSame ==
  ASSUME NEW t \in Threads, Begin(t) \/ Continue(t)
  PROVE  freed' = freed
<1>1. CASE Begin(t)
  BY <1>1 DEF Begin, NewHead, NewNext, NewElement, LogicallyDelete, SetData, GetHead, GetNext, CallOnElement,
              MoveTo, Found, memory
<1>2. CASE LinkHeadRead(t) \/ LinkAfterRead(t) \/ LinkHeadCas(t) \/ LinkAfterCas(t)
  BY <1>2 DEF LinkHeadRead, LinkAfterRead, LinkHeadCas, LinkAfterCas, Local, memory
<1>3. CASE DelReadData(t) \/ DelReadFlag(t) \/ DelDcas(t) \/ DelFunc(t)
  BY <1>3 DEF DelReadData, DelReadFlag, DelDcas, DelFunc, Local, memory
<1>4. CASE GetData(t)
  BY <1>4 DEF GetData, GetReadWords, GetReturn, CallOnElement, Local, memory
<1>5. CASE SetReadData(t) \/ SetReadFlag(t) \/ SetDcas(t)
  BY <1>5 DEF SetReadData, SetReadFlag, SetDcas, Local, memory
<1>6. CASE MoveReadFlag(t) \/ MoveReadNext(t)
  BY <1>6 DEF MoveReadFlag, MoveReadNext, MoveTo, Found, memory
<1>7. QED
  BY <1>1, <1>2, <1>3, <1>4, <1>5, <1>6 DEF Continue

(* What t holds after a step was in the list before, or is the new head. *)
LEMMA HeldChanges ==
  ASSUME Invariant, HeldAreListed, NEW t \in Threads, Begin(t) \/ Continue(t)
  PROVE  /\ cur'[t] \in ElementsFrom(head) \cup {NULL, head'}
         /\ pc'[t] \in MoveLabels => loc'[t].se \in ElementsFrom(head)
<1> DEFINE L == ElementsFrom(head)
<1>1. /\ pc \in [Threads -> Labels \ {"gone"}] /\ loc \in [Threads -> Locals] /\ cur \in [Threads -> Pointers]
      /\ next \in [Elements -> Pointers] /\ head \in Pointers
  BY DEF Invariant, TypeOK, Locals
<1>2. /\ cur[t] \in L \cup {NULL} /\ (pc[t] \in MoveLabels => loc[t].se \in L)
      /\ \A x \in L : next[x] \in L \cup {NULL}
      /\ head \in L \cup {NULL}
  BY <1>1, ReachFacts DEF HeldAreListed, Closed
<1>3. "idle" \notin MoveLabels /\ (LinkLabels \cup ElementLabels) \cap MoveLabels = {}
  BY DEF MoveLabels, LinkLabels, ElementLabels, SetLabels
<1> HIDE DEF L
<1> DEFINE G == cur'[t] \in L \cup {NULL, head'} /\ (pc'[t] \in MoveLabels => loc'[t].se \in L)
<1>4. SUFFICES G
  BY DEF L
<1>5. ASSUME NEW p \in L \cup {NULL}, MoveTo(t, p) PROVE G
  <2>1. CASE p = NULL
    <3>1. cur' = [cur EXCEPT ![t] = NULL] /\ pc' = [pc EXCEPT ![t] = "idle"]
      BY <1>5, <2>1 DEF MoveTo, Found, Return
    <3>2. cur'[t] = NULL /\ pc'[t] = "idle"
      BY <1>1, <3>1
    <3>3. QED
      BY <1>3, <3>2
  <2>2. CASE p # NULL
    <3>1. cur' = cur /\ loc' = [loc EXCEPT ![t] = [loc[t] EXCEPT !.se = p]]
      BY <1>1, <1>5, <2>2 DEF MoveTo
    <3>2. loc'[t] = [loc[t] EXCEPT !.se = p] /\ loc[t] \in Locals
      BY <1>1, <3>1
    <3>3. loc'[t].se = p
      BY <3>2 DEF Locals
    <3>4. QED
      BY <1>2, <1>5, <2>2, <3>1, <3>3
  <2>3. QED
    BY <2>1, <2>2
<1>6. ASSUME NEW l \in {"idle"} \cup LinkLabels \cup ElementLabels, pc' = [pc EXCEPT ![t] = l], cur' = cur
      PROVE  G
  <2>1. pc'[t] = l
    BY <1>1, <1>6
  <2>2. QED
    BY <1>2, <1>3, <1>6, <2>1
<1>7. CASE NewHead(t) \/ NewNext(t)
  <2>1. PICK f \in {NULL, cur[t]}, l \in {"head_read", "after_read"} : NewElement(t, f, l) /\ pc[t] = "idle"
    BY <1>7 DEF NewHead, NewNext, Call
  <2>2. CASE cur' = [cur EXCEPT ![t] = f] /\ pc' = pc
    <3>1. cur'[t] = f
      BY <1>1, <2>2
    <3>2. QED
      BY <1>2, <1>3, <2>1, <2>2, <3>1
  <2>3. CASE cur' = cur /\ pc' = [pc EXCEPT ![t] = l]
    BY <1>6, <2>1, <2>3 DEF LinkLabels
  <2>4. QED
    BY <2>1, <2>2, <2>3 DEF NewElement
<1>8. CASE LogicallyDelete(t) \/ SetData(t)
  BY <1>6, <1>8 DEF LogicallyDelete, SetData, CallOnElement, ElementLabels, SetLabels
<1>9. CASE GetHead(t) \/ GetNext(t)
  BY <1>2, <1>5, <1>9 DEF GetHead, GetNext
<1>10. CASE LinkHeadRead(t) \/ LinkAfterRead(t) \/ LinkAfterCas(t)
  <2>1. cur' = cur
    BY <1>10 DEF LinkHeadRead, LinkAfterRead, LinkAfterCas, Local
  <2>2. "head_cas" \in LinkLabels /\ "after_cas" \in LinkLabels
    BY DEF LinkLabels
  <2>3. CASE LinkHeadRead(t) \/ LinkAfterRead(t)
    <3>1. pc' = [pc EXCEPT ![t] = "head_cas"] \/ pc' = [pc EXCEPT ![t] = "after_cas"]
      BY <2>3 DEF LinkHeadRead, LinkAfterRead, Local
    <3>2. QED
      BY <1>6, <2>1, <2>2, <3>1
  <2>4. CASE LinkAfterCas(t)
    <3>1. pc[t] = "after_cas" /\ (pc' = pc \/ pc' = [pc EXCEPT ![t] = "idle"])
      BY <2>4 DEF LinkAfterCas, Return
    <3>2. CASE pc' = pc
      <4>1. pc'[t] \notin MoveLabels
        BY <1>3, <2>2, <3>1, <3>2
      <4>2. QED
        BY <1>2, <2>1, <4>1
    <3>3. CASE pc' = [pc EXCEPT ![t] = "idle"]
      BY <1>6, <2>1, <3>3
    <3>4. QED
      BY <3>1, <3>2, <3>3
  <2>5. QED
    BY <1>10, <2>3, <2>4
<1>11. CASE LinkHeadCas(t)
  <2>1. CASE cur' = cur /\ pc' = pc
    BY <1>2, <1>3, <1>11, <2>1 DEF LinkHeadCas, LinkLabels
  <2>2. CASE /\ cur' = [cur EXCEPT ![t] = loc[t].se] /\ head' = loc[t].se
             /\ pc' = [pc EXCEPT ![t] = "idle"]
    <3>1. cur'[t] = head' /\ pc'[t] = "idle"
      BY <1>1, <2>2
    <3>2. QED
      BY <1>3, <3>1
  <2>3. QED
    BY <1>11, <2>1, <2>2 DEF LinkHeadCas, Return
<1>12. CASE DelReadData(t) \/ DelReadFlag(t) \/ DelDcas(t) \/ DelFunc(t)
  <2>1. cur' = cur
    BY <1>12 DEF DelReadData, DelReadFlag, DelDcas, DelFunc, Local
  <2>2. PICK l \in {"idle"} \cup ElementLabels : pc' = [pc EXCEPT ![t] = l]
    BY <1>12 DEF DelReadData, DelReadFlag, DelDcas, DelFunc, Local, Return, UnlessDeleted, ElementLabels
  <2>3. QED
    BY <1>6, <2>1, <2>2
<1>13. CASE GetData(t)
  <2>1. cur' = cur
    BY <1>13 DEF GetData, GetReadWords, GetReturn, CallOnElement, Local
  <2>2. PICK l \in {"idle"} \cup ElementLabels : pc' = [pc EXCEPT ![t] = l]
    BY <1>13 DEF GetData, GetReadWords, GetReturn, CallOnElement, Local, Return, ElementLabels
  <2>3. QED
    BY <1>6, <2>1, <2>2
<1>14. CASE SetReadData(t) \/ SetReadFlag(t) \/ SetDcas(t)
  <2>1. cur' = cur
    BY <1>14 DEF SetReadData, SetReadFlag, SetDcas, Local
  <2>2. PICK l \in {"idle"} \cup ElementLabels : pc' = [pc EXCEPT ![t] = l]
    BY <1>14 DEF SetReadData, SetReadFlag, SetDcas, Local, Return, UnlessDeleted, ElementLabels, SetLabels
  <2>3. QED
    BY <1>6, <2>1, <2>2
<1>15. CASE MoveReadFlag(t)
  <2>1. pc[t] \in MoveLabels
    BY <1>15 DEF MoveReadFlag, MoveLabels
  <2>2. CASE cur' = cur /\ loc' = loc
    BY <1>2, <2>1, <2>2
  <2>3. CASE Found(t, loc[t].se)
    <3>1. cur'[t] = loc[t].se /\ pc'[t] = "idle"
      BY <1>1, <2>3 DEF Found, Return
    <3>2. QED
      BY <1>2, <1>3, <2>1, <3>1
  <2>4. QED
    BY <1>15, <2>2, <2>3 DEF MoveReadFlag
<1>16. CASE MoveReadNext(t)
  BY <1>2, <1>5, <1>16 DEF MoveReadNext, MoveLabels
<1>17. QED
  BY <1>7, <1>8, <1>9, <1>10, <1>11, <1>12, <1>13, <1>14, <1>15, <1>16 DEF Begin, Continue

(* No step of a call makes a thread hold an element outside the list. *)
LEMMA HeldStep ==
  ASSUME Invariant, HeldAreListed, NEW t \in Threads, Begin(t) \/ Continue(t)
  PROVE  HeldAreListed'
<1> DEFINE L == ElementsFrom(head)
           M == ElementsFrom(head)'
<1>1. L \subseteq M
  BY ReachStep
<1>2. head' \in M \cup {NULL}
  <2>1. head' \in Pointers
    BY CallStep DEF Invariant, TypeOK
  <2>2. head' = NULL \/ head' \in Elements
    BY <2>1, SlistAssumption, SMT DEF Pointers, Elements, NULL
  <2>3. QED
    BY <2>2 DEF ElementsFrom
<1>3. ASSUME NEW u \in Threads
      PROVE  cur'[u] \in L \cup {NULL, head'} /\ (pc'[u] \in MoveLabels => loc'[u].se \in L)
  <2>1. CASE u = t
    BY <2>1, HeldChanges
  <2>2. CASE u # t
    BY <2>2, OthersStay DEF HeldAreListed
  <2>3. QED
    BY <2>1, <2>2
<1> HIDE DEF L
<1>4. QED
  BY <1>1, <1>2, <1>3 DEF HeldAreListed

(* The loop begins with the whole list before it. *)
LEMMA LoopBegins ==
  ASSUME Invariant, freed = {}, HeldAreListed, NEW t \in Threads, PhysicallyDeleteAll(t)
  PROVE  DeletionOK'
<1>1. /\ head' = head /\ next' = next /\ data_flag' = data_flag /\ disposed' = disposed /\ freed' = freed
      /\ cur' = cur /\ pc' = [u \in Threads |-> IF u = t THEN "phys_loop" ELSE "gone"]
      /\ loc' = [loc EXCEPT ![t] = [NoLocals EXCEPT !.se = head]]
  BY DEF PhysicallyDeleteAll, memory
<1>2. /\ head \in Pointers /\ next \in [Elements -> Pointers] /\ data_flag \in [Elements -> Words]
      /\ disposed \in Seq(Elements \X (Data \cup {NoData})) /\ loc \in [Threads -> Locals]
  BY DEF Invariant, TypeOK, Locals
<1> DEFINE r == [NoLocals EXCEPT !.se = head]
<1>3. NoLocals \in Locals /\ NoLocals.se_next = NULL
  BY ThreadFacts
<1>4. r \in Locals /\ r.se = head /\ r.se_next = NULL
  BY <1>2, <1>3 DEF Locals
<1> HIDE DEF r
<1>5. loc' \in [Threads -> Locals] /\ loc'[t] = r
  BY <1>1, <1>2, <1>4 DEF r
<1>6. \A u \in Threads : pc'[u] \in PhysLabels => u = t
  BY <1>1 DEF PhysLabels
<1>7. ElementsFrom(head)' = ElementsFrom(head) /\ ElementsFrom(loc[t].se)' = ElementsFrom(head)
  BY <1>1, <1>4, <1>5 DEF ElementsFrom, Closed
<1>8. Passed(t)' = {}
  BY <1>1, <1>4, <1>5 DEF Passed
<1>9. \A e \in ElementsFrom(head) : NotGiven(e)'
  <2>1. \A j \in 1..Len(disposed) :
             data_flag[disposed[j][1]] = [data |-> disposed[j][2], deleted |-> TRUE]
    BY DEF Invariant, DeletedOnce
  <2>2. ASSUME NEW j \in 1..Len(disposed) PROVE data_flag[disposed[j][1]].deleted
    <3>1. data_flag[disposed[j][1]] = [data |-> disposed[j][2], deleted |-> TRUE]
      BY <2>1
    <3>2. data_flag[disposed[j][1]].deleted = TRUE
      BY <3>1, SMT
    <3>3. QED
      BY <3>2
  <2>3. QED
    BY <1>1, <2>2 DEF NotGiven
<1>10. InLoop(t)'
  <2>1. pc'[t] = "phys_loop" /\ loc'[t].se_next = NULL /\ NULL \notin freed'
    BY <1>1, <1>4, <1>5
  <2>2. QED
    BY <1>1, <1>7, <1>8, <1>9, <2>1 DEF InLoop
<1>11. \A u \in Threads : cur'[u] \in ElementsFrom(head)' \cup {NULL}
  BY <1>1, <1>7 DEF HeldAreListed
<1>12. QED
  BY <1>1, <1>2, <1>5, <1>6, <1>10, <1>11 DEF DeletionOK, Locals

(* One more element gets to delete_func. *)
LEMMA LoopTakes ==
  ASSUME Acyclic, DeletionOK, NEW t \in Threads, PhysDeleteFunc(t), pc \in [Threads -> PhysLabels \cup {"gone"}]
  PROVE  DeletionOK'
<1> DEFINE s == loc[t].se
           d == <<s, data_flag[s].data>>
           r == [loc[t] EXCEPT !.se = next[s], !.se_next = s]
           n == Len(disposed)
<1>1. /\ head' = head /\ next' = next /\ data_flag' = data_flag /\ freed' = freed /\ cur' = cur
      /\ disposed' = Append(disposed, d) /\ pc' = [pc EXCEPT ![t] = "phys_free"]
      /\ pc[t] = "phys_loop" /\ s # NULL
  BY DEF PhysDeleteFunc
<1>2. /\ head \in Pointers /\ next \in [Elements -> Pointers] /\ data_flag \in [Elements -> Words]
      /\ disposed \in Seq(Elements \X (Data \cup {NoData})) /\ loc \in [Threads -> Locals]
  BY DEF DeletionOK, Locals
<1>3. loc' = [loc EXCEPT ![t] = r] /\ loc[t] \in Locals /\ s \in Pointers
  BY <1>2 DEF PhysDeleteFunc, Locals
<1>4. InLoop(t) /\ pc[t] \in PhysLabels /\ \A u \in Threads : pc[u] \in PhysLabels => u = t
  BY <1>1 DEF DeletionOK, PhysLabels
<1>5. loc[t].se_next = NULL /\ Passed(t) = freed
  BY <1>1, <1>4 DEF InLoop, Passed
<1>6. s \in Elements /\ next[s] \in Pointers /\ ElementsFrom(s) = {s} \cup ElementsFrom(next[s])
  BY <1>1, <1>2, <1>3, ReachFacts
<1>7. s \notin ElementsFrom(next[s])
  BY <1>6 DEF Acyclic
<1>8. s \notin freed
  BY <1>4, <1>5, <1>6 DEF InLoop
<1>9. r \in Locals /\ r.se = next[s] /\ r.se_next = s
  BY <1>3, <1>6 DEF Locals
<1>10. d \in Elements \X (Data \cup {NoData})
  BY <1>2, <1>6 DEF Words
<1>11. d[1] = s
  OBVIOUS
<1> HIDE DEF r, s, d
<1>12. loc' \in [Threads -> Locals] /\ loc'[t] = r
  BY <1>2, <1>3, <1>9
<1>13. /\ disposed' \in Seq(Elements \X (Data \cup {NoData})) /\ Len(disposed') = n + 1 /\ n \in Nat
       /\ disposed'[n + 1] = d /\ \A i \in 1..n : disposed'[i] = disposed[i]
  BY <1>1, <1>2, <1>10, SMT
<1>14. /\ \A i \in 1..(n + 1) : i \in 1..n \/ i = n + 1
       /\ \A i \in 1..n : i \in 1..(n + 1)
       /\ n + 1 \in 1..(n + 1)
  BY <1>13, SMT
<1> HIDE DEF n
<1>15. ElementsFrom(head)' = ElementsFrom(head) /\ ElementsFrom(loc[t].se)' = ElementsFrom(next[s])
  BY <1>1, <1>9, <1>12 DEF ElementsFrom, Closed
<1>16. Passed(t)' = freed \cup {s}
  BY <1>1, <1>9, <1>12 DEF Passed, s
<1>17. /\ loc'[t].se_next # NULL /\ loc'[t].se_next \notin freed' /\ pc'[t] = "phys_free"
  BY <1>1, <1>8, <1>9, <1>12
<1>18. /\ (freed \cup {s}) \cup ElementsFrom(next[s]) = ElementsFrom(head)
       /\ (freed \cup {s}) \cap ElementsFrom(next[s]) = {}
  BY <1>4, <1>5, <1>6, <1>7 DEF InLoop, s
<1>19. ASSUME NEW e \in freed \cup {s}
       PROVE  GivenOnce(e)'
  <2>1. CASE e = s
    <3>1. data_flag[e].deleted \/ \A j \in 1..n : disposed[j][1] # e
      BY <1>4, <1>6, <2>1 DEF InLoop, NotGiven, s, n
    <3>2. data_flag[e].deleted \/ \A j \in 1..(n + 1) : disposed'[j][1] = e => j = n + 1
      BY <1>13, <1>14, <3>1
    <3>3. disposed'[n + 1] = <<e, data_flag[e].data>>
      BY <1>13, <2>1 DEF d
    <3>4. QED
      BY <1>1, <1>13, <1>14, <3>2, <3>3 DEF GivenOnce
  <2>2. CASE e # s
    <3>1. PICK i \in 1..n : /\ disposed[i] = <<e, data_flag[e].data>>
                            /\ data_flag[e].deleted \/ \A j \in 1..n : disposed[j][1] = e => j = i
      BY <1>4, <1>5, <2>2 DEF InLoop, GivenOnce, n
    <3>2. data_flag[e].deleted \/ \A j \in 1..(n + 1) : disposed'[j][1] = e => j = i
      BY <1>11, <1>13, <1>14, <2>2, <3>1
    <3>3. i \in 1..(n + 1) /\ disposed'[i] = <<e, data_flag[e].data>>
      BY <1>13, <1>14, <3>1
    <3>4. QED
      BY <1>1, <1>13, <3>2, <3>3 DEF GivenOnce
  <2>3. QED
    BY <2>1, <2>2
<1>20. ASSUME NEW e \in ElementsFrom(next[s])
       PROVE  NotGiven(e)'
  <2>1. e # s /\ (data_flag[e].deleted \/ \A j \in 1..n : disposed[j][1] # e)
    BY <1>4, <1>6, <1>7 DEF InLoop, NotGiven, s, n
  <2>2. QED
    BY <1>1, <1>11, <1>13, <1>14, <2>1 DEF NotGiven
<1>21. InLoop(t)'
  <2>1. Passed(t)' \cup ElementsFrom(loc[t].se)' = ElementsFrom(head)'
    BY <1>15, <1>16, <1>18
  <2>2. Passed(t)' \cap ElementsFrom(loc[t].se)' = {}
    BY <1>15, <1>16, <1>18
  <2>3. \A e \in Passed(t)' : GivenOnce(e)'
    BY <1>16, <1>19
  <2>4. \A e \in ElementsFrom(loc[t].se)' : NotGiven(e)'
    BY <1>15, <1>20
  <2>5. QED
    BY <1>17, <2>1, <2>2, <2>3, <2>4 DEF InLoop
<1>22. \A u \in Threads : pc'[u] \in PhysLabels => u = t
  BY <1>1, <1>4
<1>23. \A u \in Threads : cur'[u] \in ElementsFrom(head)' \cup {NULL}
  BY <1>1, <1>4, <1>15 DEF DeletionOK
<1>24. QED
  BY <1>1, <1>2, <1>12, <1>13, <1>21, <1>22, <1>23 DEF DeletionOK, Locals

(* The element is freed. *)
LEMMA LoopFrees ==
  ASSUME DeletionOK, NEW t \in Threads, PhysFree(t), pc \in [Threads -> PhysLabels \cup {"gone"}]
  PROVE  DeletionOK'
<1> DEFINE s == loc[t].se_next
           r == [loc[t] EXCEPT !.se_next = NULL]
<1>1. /\ head' = head /\ next' = next /\ data_flag' = data_flag /\ cur' = cur /\ disposed' = disposed
      /\ freed' = freed \cup {s} /\ pc' = [pc EXCEPT ![t] = "phys_loop"] /\ pc[t] = "phys_free"
  BY DEF PhysFree
<1>2. /\ head \in Pointers /\ next \in [Elements -> Pointers] /\ data_flag \in [Elements -> Words]
      /\ disposed \in Seq(Elements \X (Data \cup {NoData})) /\ loc \in [Threads -> Locals]
  BY DEF DeletionOK, Locals
<1>3. loc' = [loc EXCEPT ![t] = r] /\ loc[t] \in Locals
  BY <1>2 DEF PhysFree, Locals
<1>4. InLoop(t) /\ \A u \in Threads : pc[u] \in PhysLabels => u = t
  BY <1>1 DEF DeletionOK, PhysLabels
<1>5. NULL \in Pointers /\ NULL \notin Elements
  BY SlistAssumption, SMT DEF Pointers, Elements, NULL
<1>6. r \in Locals /\ r.se = loc[t].se /\ r.se_next = NULL
  BY <1>3, <1>5 DEF Locals
<1> HIDE DEF r
<1>7. loc' \in [Threads -> Locals] /\ loc'[t] = r
  BY <1>2, <1>3, <1>6
<1>8. s # NULL /\ freed \subseteq Elements
  BY <1>1, <1>4 DEF InLoop, Passed, ElementsFrom
<1>9. Passed(t)' = Passed(t) /\ Passed(t) = freed \cup {s}
  BY <1>1, <1>6, <1>7, <1>8 DEF Passed
<1>10. ElementsFrom(head)' = ElementsFrom(head) /\ ElementsFrom(loc[t].se)' = ElementsFrom(loc[t].se)
  BY <1>1, <1>6, <1>7 DEF ElementsFrom, Closed
<1>11. loc'[t].se_next = NULL /\ NULL \notin freed' /\ pc'[t] = "phys_loop"
  BY <1>1, <1>5, <1>6, <1>7, <1>8
<1>12. InLoop(t)'
  <2>1. \A e : GivenOnce(e)' = GivenOnce(e) /\ NotGiven(e)' = NotGiven(e)
    BY <1>1 DEF GivenOnce, NotGiven
  <2> HIDE DEF s
  <2>2. QED
    BY <1>4, <1>9, <1>10, <1>11, <2>1 DEF InLoop
<1>13. \A u \in Threads : pc'[u] \in PhysLabels => u = t
  BY <1>1, <1>4
<1>14. \A u \in Threads : cur'[u] \in ElementsFrom(head)' \cup {NULL}
  BY <1>1, <1>10 DEF DeletionOK, PhysLabels
<1>15. QED
  BY <1>1, <1>2, <1>7, <1>12, <1>13, <1>14 DEF DeletionOK, Locals

(* The loop is over. *)
LEMMA LoopEnds ==
  ASSUME DeletionOK, NEW t \in Threads, PhysInit(t), pc \in [Threads -> PhysLabels \cup {"gone"}]
  PROVE  DeletionOK'
<1>1. /\ head' = NULL /\ next' = next /\ data_flag' = data_flag /\ disposed' = disposed /\ loc' = loc
      /\ pc' = [pc EXCEPT ![t] = "gone"] /\ pc[t] \in PhysLabels
  BY DEF PhysInit, PhysLabels
<1>2. NULL \in Pointers /\ "gone" \notin PhysLabels
  BY SlistAssumption, SMT DEF Pointers, NULL, PhysLabels
<1>3. \A u \in Threads : pc'[u] \notin PhysLabels
  BY <1>1, <1>2 DEF DeletionOK
<1>4. QED
  BY <1>1, <1>2, <1>3 DEF DeletionOK

(* The shape of the list is kept by every step. *)
LEMMA ListStep ==
  ASSUME IInv, ListInv, [Next]_vars
  PROVE  ListInv'
<1>1. CASE UNCHANGED vars
  <2>1. /\ head' = head /\ next' = next /\ data_flag' = data_flag /\ disposed' = disposed /\ freed' = freed
        /\ cur' = cur /\ pc' = pc /\ loc' = loc
    BY <1>1 DEF vars, memory
  <2>2. Acyclic' = Acyclic /\ Gone' = Gone
    BY <2>1 DEF Acyclic, ElementsFrom, Closed, Gone
  <2>3. HeldAreListed' = HeldAreListed
    BY <2>1 DEF HeldAreListed, ElementsFrom, Closed
  <2>4. DeletionOK' = DeletionOK
    <3>1. ElementsFrom(head)' = ElementsFrom(head)
      BY <2>1 DEF ElementsFrom, Closed
    <3>2. ASSUME NEW t \in Threads PROVE InLoop(t)' = InLoop(t)
      <4>1. Passed(t)' = Passed(t) /\ ElementsFrom(loc[t].se)' = ElementsFrom(loc[t].se)
        BY <2>1 DEF Passed, ElementsFrom, Closed
      <4>2. \A e : GivenOnce(e)' = GivenOnce(e) /\ NotGiven(e)' = NotGiven(e)
        BY <2>1 DEF GivenOnce, NotGiven
      <4>3. QED
        BY <2>1, <3>1, <4>1, <4>2 DEF InLoop
    <3>3. QED
      BY <2>1, <3>1, <3>2 DEF DeletionOK
  <2>5. QED
    BY <2>1, <2>2, <2>3, <2>4 DEF ListInv
<1>2. CASE Next /\ Gone
  <2>1. PICK t \in Threads : PhysDeleteFunc(t) \/ PhysFree(t) \/ PhysInit(t)
    BY <1>2, LoopSteps DEF Next
  <2>2. next' = next
    BY <2>1 DEF PhysDeleteFunc, PhysFree, PhysInit
  <2>3. Acyclic'
    BY <2>2 DEF ListInv, Acyclic, ElementsFrom, Closed
  <2>4. DeletionOK'
    BY <1>2, <2>1, LoopTakes, LoopFrees, LoopEnds DEF ListInv, IInv
  <2>5. QED
    BY <1>2, <2>3, <2>4, GoneStays DEF ListInv
<1>3. CASE Next /\ ~Gone
  <2>1. Invariant /\ Acyclic /\ freed = {} /\ HeldAreListed
    BY <1>3 DEF IInv, ListInv
  <2>2. PICK t \in Threads : Begin(t) \/ Continue(t) \/ PhysicalDelete(t)
    BY <1>3 DEF Next
  <2>3. CASE PhysicalDelete(t)
    <3>1. PhysicallyDeleteAll(t)
      BY <1>3, <2>3 DEF PhysicalDelete, PhysDeleteFunc, PhysFree, PhysInit, Gone, PhysLabels
    <3>2. pc'[t] = "phys_loop" /\ next' = next
      BY <3>1 DEF PhysicallyDeleteAll, memory
    <3>3. Gone' /\ Acyclic'
      BY <2>1, <3>2 DEF Gone, PhysLabels, Acyclic, ElementsFrom, Closed
    <3>4. QED
      BY <2>1, <3>1, <3>3, LoopBegins DEF ListInv
  <2>4. CASE Begin(t) \/ Continue(t)
    <3>1. \A u \in Threads : pc'[u] \in Labels \ {"gone"}
      BY <2>1, <2>4, CallStep DEF Invariant, TypeOK
    <3>2. ~Gone'
      BY <3>1, LabelsDiffer DEF Gone
    <3>3. freed' = {} /\ Acyclic' /\ HeldAreListed'
      BY <2>1, <2>4, FreedSame, AcyclicStep, HeldStep
    <3>4. QED
      BY <3>2, <3>3 DEF ListInv
  <2>5. QED
    BY <2>2, <2>3, <2>4
<1>4. QED
  BY <1>1, <1>2, <1>3

(* The list is empty at first. *)
LEMMA ListInit ==
  ASSUME Init
  PROVE  ListInv
<1>1. next = [e \in Elements |-> NULL] /\ freed = {} /\ \A t \in Threads : cur[t] = NULL /\ pc[t] = "idle"
  BY DEF Init
<1>2. Acyclic
  <2>1. \A e \in Elements : next[e] = NULL
    BY <1>1
  <2>2. Closed({}) /\ {} \in SUBSET Elements
    BY DEF Closed
  <2>3. QED
    BY <2>1, <2>2 DEF Acyclic, ElementsFrom
<1>3. ~Gone /\ HeldAreListed
  BY <1>1 DEF Gone, PhysLabels, HeldAreListed, MoveLabels
<1>4. QED
  BY <1>1, <1>2, <1>3 DEF ListInv

(* The step that ends the loop is the one of the thread in it. *)
LEMMA LoopStep ==
  ASSUME IInv, ListInv, Next, NEW t \in Threads, pc[t] \in PhysLabels
  PROVE  /\ loc[t].se \notin freed /\ loc[t].se_next \notin freed
         /\ pc'[t] = "gone" =>
               /\ freed = ElementsFrom(head)
               /\ \A u \in Threads : cur[u] # NULL => cur[u] \in freed
               /\ \A e \in freed : GivenOnce(e)
<1>1. Gone /\ DeletionOK
  BY DEF Gone, ListInv
<1>2. /\ InLoop(t) /\ \A u \in Threads : cur[u] \in ElementsFrom(head) \cup {NULL}
      /\ \A u \in Threads : pc[u] \in PhysLabels => u = t
      /\ next \in [Elements -> Pointers] /\ loc[t].se \in Pointers
  BY <1>1 DEF DeletionOK
<1>3. NULL \notin Elements /\ freed \subseteq Elements
  <2>1. NULL \notin Elements
    BY SlistAssumption, SMT DEF Elements, NULL
  <2>2. QED
    BY <1>2, <2>1 DEF InLoop, Passed, ElementsFrom
<1>4. loc[t].se \notin freed
  <2>1. loc[t].se \in ElementsFrom(loc[t].se) \cup {NULL}
    BY <1>2, ReachFacts
  <2>2. QED
    BY <1>2, <1>3, <2>1 DEF InLoop, Passed
<1>5. loc[t].se_next \notin freed
  BY <1>2 DEF InLoop
<1>6. ASSUME pc'[t] = "gone"
      PROVE  loc[t].se = NULL /\ pc[t] = "phys_loop"
  <2>1. pc \in [Threads -> PhysLabels \cup {"gone"}]
    BY <1>1 DEF IInv
  <2>2. PICK u \in Threads : PhysDeleteFunc(u) \/ PhysFree(u) \/ PhysInit(u)
    BY <1>1, LoopSteps DEF Next
  <2>3. u = t
    BY <1>2, <2>2 DEF PhysDeleteFunc, PhysFree, PhysInit, PhysLabels
  <2>4. ~PhysDeleteFunc(t) /\ ~PhysFree(t)
    BY <1>6, <2>1 DEF PhysDeleteFunc, PhysFree
  <2>5. QED
    BY <2>2, <2>3, <2>4 DEF PhysInit
<1>7. ASSUME pc'[t] = "gone"
      PROVE  Passed(t) = freed /\ freed = ElementsFrom(head)
  <2>1. loc[t].se_next = NULL /\ ElementsFrom(loc[t].se) = {}
    BY <1>2, <1>6, <1>7, ReachFacts DEF InLoop
  <2>2. QED
    BY <1>2, <2>1 DEF InLoop, Passed
<1>8. QED
  BY <1>2, <1>4, <1>5, <1>7 DEF InLoop

(***************************************************************************)
(* slist_single_threaded_physically_delete_all_elements: the loop, which   *)
(* frees an element after it has read its next pointer, never comes to one *)
(* it has freed, because whatever was linked before it the list has no     *)
(* cycle; at its end every element of the list is freed, those that        *)
(* threads created at the head or found among them, and delete_func has    *)
(* got the data of each, once if the element was not logically deleted.    *)
(***************************************************************************)
THEOREM PhysicalDeleteComplete == Spec => PhysicalDeleteFreesEachOnce
<1> DEFINE A == \A t \in Threads : pc[t] \in PhysLabels =>
                  /\ loc[t].se \notin freed /\ loc[t].se_next \notin freed
                  /\ pc'[t] = "gone" =>
                        /\ freed = ElementsFrom(head)
                        /\ \A u \in Threads : cur[u] # NULL => cur[u] \in freed
                        /\ \A e \in freed : GivenOnce(e)
<1>1. Init => ListInv
  BY ListInit
<1>2. IInv /\ ListInv /\ [Next]_vars => ListInv'
  BY ListStep
<1>3. IInv /\ ListInv /\ [Next]_vars => [A]_vars
  BY LoopStep
<1>4. QED
  BY <1>1, <1>2, <1>3, Invariance, PTL DEF Spec, PhysicalDeleteFreesEachOnce
=============================================================================
