--------------------------- MODULE FreelistProofs ---------------------------
(***************************************************************************)
(* Proofs about Freelist, for every set of threads, every number of        *)
(* elements and every bound on the pushes.                                 *)
(***************************************************************************)
EXTENDS Freelist, SequenceTheorems, TLAPS

(* A step is proved by Zenon; a step with arithmetic, sequences or records *)
(* cites SMT.                                                              *)
USE Zenon

(* What dropping the last item of a sequence leaves. *)
LEMMA FrontFacts ==
  ASSUME NEW S, NEW s \in Seq(S), Len(s) > 0
  PROVE  LET f == SubSeq(s, 1, Len(s) - 1)
         IN  /\ f \in Seq(S)
             /\ Len(f) = Len(s) - 1
             /\ \A i \in 1..Len(f) : f[i] = s[i]
<1> DEFINE n == Len(s) - 1
<1>1. n \in Int /\ 1 \in Int /\ \A i \in 1..n : s[i] \in S
  BY SMT
<1>3. /\ SubSeq(s, 1, n) \in Seq(S)
      /\ Len(SubSeq(s, 1, n)) = IF 1 <= n THEN n - 1 + 1 ELSE 0
      /\ \A i \in 1..(n - 1 + 1) : SubSeq(s, 1, n)[i] = s[1 + i - 1]
  <2> HIDE DEF n
  <2>1. QED
    BY <1>1, SubSeqProperties, SMT
<1> DEFINE f == SubSeq(s, 1, n)
<1>4. f \in Seq(S) /\ Len(f) = n /\ \A i \in 1..n : f[i] = s[i]
  <2> HIDE DEF n
  <2>1. n \in Nat
    BY SMT DEF n
  <2>2. QED
    BY <1>3, <2>1, SMT
<1>5. QED
  BY <1>4

(* What appending an item to a sequence adds. *)
LEMMA AppendFacts ==
  ASSUME NEW S, NEW s \in Seq(S), NEW x \in S
  PROVE  LET a == Append(s, x)
         IN  /\ a \in Seq(S)
             /\ Len(a) = Len(s) + 1
             /\ a[Len(s) + 1] = x
             /\ \A i \in 1..Len(s) : a[i] = s[i]
  BY SMT

(* The pairs that the memory holds are pairs of the list: the top is NULL  *)
(* with counter 0, or the listed pair at the end.                          *)
LEMMA TopFacts ==
  ASSUME TypeOK, MemoryIsList
  PROVE  /\ Len(list) \in Nat
         /\ \A i \in 1..Len(list) : list[i] \in Pac(Elements)
         /\ top.ptr = NULL <=> Len(list) = 0
         /\ top.ptr = NULL => top.cnt = 0
         /\ top.ptr # NULL => top = list[Len(list)]
<1>1. Len(list) \in Nat /\ \A i \in 1..Len(list) : list[i] \in Pac(Elements)
  BY SMT DEF TypeOK
<1>2. CASE Len(list) = 0
  BY <1>1, <1>2 DEF MemoryIsList, NullPac, NULL
<1>3. CASE Len(list) # 0
  <2>1. Len(list) \in 1..Len(list)
    BY <1>1, <1>3, SMT
  <2>2. top = list[Len(list)] /\ top \in Pac(Elements)
    BY <1>1, <1>3, <2>1 DEF MemoryIsList
  <2>3. top.ptr # NULL
    BY <2>2, FreelistAssumption, SMT DEF Pac, Elements, NULL
  <2>4. QED
    BY <1>1, <1>3, <2>2, <2>3
<1>4. QED
  BY <1>2, <1>3

(* The dcas either finds what it compares and stores its exchange words, or *)
(* leaves its destination alone; it always reports what it found.          *)
LEMMA DcasFacts ==
  ASSUME NEW d, NEW x, NEW c
  PROVE  LET r == abstraction_dcas(d, x, c)
         IN  /\ r.compare = d
             /\ r.result = 1 <=> d = c
             /\ r.destination = IF d = c THEN x ELSE d
  BY SMT DEF abstraction_dcas

-----------------------------------------------------------------------------
(* Every step keeps the types.                                             *)
LEMMA TypeStep == TypeOK /\ MemoryIsList /\ LocalsAgree /\ CountersMarkPushes /\ [Next]_vars => TypeOK'
<1> SUFFICES ASSUME TypeOK, MemoryIsList, LocalsAgree, CountersMarkPushes, [Next]_vars PROVE TypeOK'
  OBVIOUS
<1> DEFINE P == Pac(0..MaxElements)
<1>0. /\ \A p \in P, c \in Nat : [p EXCEPT !.cnt = c] \in P
      /\ \A p \in P, e \in 0..MaxElements : [p EXCEPT !.ptr = e] \in P
      /\ \A p \in P : p.ptr \in 0..MaxElements /\ p.cnt \in Nat
      /\ \A e \in Elements, c \in Nat : [ptr |-> e, cnt |-> c] \in P
  BY FreelistAssumption, SMT DEF Pac, Elements
<1> HIDE DEF P
<1>1. ASSUME NEW t \in Threads, PopReadCounter(t) PROVE TypeOK'
  <2>1. (fe_local \in [Threads -> P])'
    BY <1>0, <1>1 DEF PopReadCounter, TypeOK, P
  <2>2. (ret \in [Threads -> -1..MaxElements])'
    BY <1>1, FreelistAssumption, SMT DEF PopReadCounter, TypeOK, Pending
  <2>3. (pc \in [Threads -> Labels])'
    BY <1>1 DEF PopReadCounter, TypeOK, Goto, Labels, PopLabels
  <2>4. QED
    BY <1>1, <2>1, <2>2, <2>3 DEF PopReadCounter, TypeOK, P
<1>2. ASSUME NEW t \in Threads, NEW p \in 0..MaxElements, PopLoop(t, p)
      PROVE  (pc \in [Threads -> Labels])' /\ (ret \in [Threads -> -1..MaxElements])'
  <2>1. NULL \in -1..MaxElements /\ "idle" \in Labels /\ "pop_next_ptr" \in Labels
    BY FreelistAssumption, SMT DEF NULL, Labels, PopLabels
  <2>2. QED
    BY <1>2, <2>1 DEF PopLoop, TypeOK
<1>3. ASSUME NEW t \in Threads, PopReadPointer(t) PROVE TypeOK'
  <2>1. (fe_local \in [Threads -> P])'
    BY <1>0, <1>3 DEF PopReadPointer, TypeOK, P
  <2>2. QED
    BY <1>0, <1>2, <1>3, <2>1 DEF PopReadPointer, TypeOK, P
<1>4. ASSUME NEW t \in Threads, pc[t] \in PopLabels \ {"pop_ptr"} PROVE fe_local[t].ptr \in Elements
  BY <1>4, <1>0, SMT DEF LocalsAgree, LocalsOf, TypeOK, Elements, NULL, P
<1>5. ASSUME NEW t \in Threads, PopLoadNextPointer(t) PROVE TypeOK'
  <2>1. next[fe_local[t].ptr] \in P
    BY <1>4, <1>5 DEF PopLoadNextPointer, Goto, PopLabels, TypeOK, P
  <2>2. (fe_next \in [Threads -> P])'
    BY <1>0, <1>5, <2>1 DEF PopLoadNextPointer, TypeOK, P
  <2>3. (pc \in [Threads -> Labels])'
    BY <1>5 DEF PopLoadNextPointer, TypeOK, Goto, Labels, PopLabels
  <2>4. QED
    BY <1>5, <2>2, <2>3 DEF PopLoadNextPointer, TypeOK, P
<1>6. ASSUME NEW t \in Threads, PopLoadNextCounter(t) PROVE TypeOK'
  <2>1. next[fe_local[t].ptr] \in P
    BY <1>4, <1>6 DEF PopLoadNextCounter, Goto, PopLabels, TypeOK, P
  <2>2. (fe_next \in [Threads -> P])'
    BY <1>0, <1>6, <2>1 DEF PopLoadNextCounter, TypeOK, P
  <2>3. (pc \in [Threads -> Labels])'
    BY <1>6 DEF PopLoadNextCounter, TypeOK, Goto, Labels, PopLabels
  <2>4. QED
    BY <1>6, <2>2, <2>3 DEF PopLoadNextCounter, TypeOK, P
<1>7. ASSUME NEW t \in Threads, PopDcas(t) PROVE TypeOK'
  <2> DEFINE r == abstraction_dcas(top, fe_next[t], fe_local[t])
  <2>1. r.compare = top /\ r.destination \in P /\ (r.result = 1 <=> top = fe_local[t])
    BY DcasFacts, SMT DEF TypeOK, P
  <2> HIDE DEF r
  <2>2. (top \in P)' /\ (fe_local \in [Threads -> P])'
    BY <1>7, <2>1 DEF PopDcas, TypeOK, r, P
  <2>3. CASE r.result = 1
    <3>1. fe_local[t].ptr \in Elements
      BY <1>4, <1>7 DEF PopDcas, PopLabels
    <3>2. (pc \in [Threads -> Labels])'
      BY <1>7, <2>3 DEF PopDcas, TypeOK, Labels, r
    <3>3. (held \in [Threads -> SUBSET Elements])'
      <4>1. held' = [held EXCEPT ![t] = held[t] \cup {fe_local[t].ptr}]
        BY <1>7, <2>3 DEF PopDcas, r
      <4>2. QED
        BY <3>1, <4>1 DEF TypeOK
    <3>4. (ret \in [Threads -> -1..MaxElements])'
      <4>1. fe_local[t].ptr \in -1..MaxElements
        BY <3>1, FreelistAssumption, SMT DEF Elements
      <4>2. QED
        BY <1>7, <2>3, <4>1 DEF PopDcas, TypeOK, r
    <3>5. Len(list) > 0
      <4>1. top.ptr # NULL
        BY <2>1, <2>3, <3>1, FreelistAssumption, SMT DEF Elements, NULL
      <4>2. QED
        BY <4>1, TopFacts, SMT
    <3>6. (list \in Seq(Pac(Elements)))'
      <4>1. list' = SubSeq(list, 1, Len(list) - 1)
        BY <1>7, <2>3 DEF PopDcas, r
      <4>2. list \in Seq(Pac(Elements))
        BY DEF TypeOK
      <4>3. QED
        BY <3>5, <4>1, <4>2, FrontFacts
    <3>7. QED
      BY <1>7, <2>2, <3>2, <3>3, <3>4, <3>6 DEF PopDcas, TypeOK, P
  <2>4. CASE r.result # 1
    <3>1. PopLoop(t, top.ptr) /\ UNCHANGED <<held, list>>
      BY <1>7, <2>1, <2>4 DEF PopDcas, r
    <3>2. top.ptr \in 0..MaxElements
      BY <1>0 DEF TypeOK, P
    <3>3. QED
      BY <1>2, <1>7, <2>2, <3>1, <3>2 DEF PopDcas, TypeOK, P
  <2>5. QED
    BY <2>3, <2>4
<1>8. ASSUME NEW t \in Threads, NEW fe \in Elements, PushStart(t, fe) PROVE TypeOK'
  <2>1. aba_counter' \in Nat
    BY <1>8, SMT DEF PushStart, TypeOK, abstraction_increment
  <2>2. (fe_local \in [Threads -> P])'
    BY <1>0, <1>8, <2>1 DEF PushStart, TypeOK, P
  <2>3. (pc \in [Threads -> Labels])'
    BY <1>8 DEF PushStart, TypeOK, Goto, Labels, PushLabels
  <2>4. QED
    BY <1>8, <2>1, <2>2, <2>3 DEF PushStart, TypeOK, P
<1>9. ASSUME NEW t \in Threads, PushReadPointer(t) PROVE TypeOK'
  <2>1. (fe_next \in [Threads -> P])'
    BY <1>0, <1>9 DEF PushReadPointer, TypeOK, P
  <2>2. (pc \in [Threads -> Labels])'
    BY <1>9 DEF PushReadPointer, TypeOK, Goto, Labels, PushLabels
  <2>3. QED
    BY <1>9, <2>1, <2>2 DEF PushReadPointer, TypeOK, P
<1>10. ASSUME NEW t \in Threads, PushReadCounter(t) PROVE TypeOK'
  <2>1. (fe_next \in [Threads -> P])'
    BY <1>0, <1>10 DEF PushReadCounter, TypeOK, P
  <2>2. (pc \in [Threads -> Labels])'
    BY <1>10 DEF PushReadCounter, TypeOK, Goto, Labels, PushLabels
  <2>3. QED
    BY <1>10, <2>1, <2>2 DEF PushReadCounter, TypeOK, P
<1>11. ASSUME NEW t \in Threads, PushWriteNextPointer(t) PROVE TypeOK'
  <2>1. (next \in [Elements -> P])'
    BY <1>0, <1>11 DEF PushWriteNextPointer, TypeOK, P
  <2>2. (pc \in [Threads -> Labels])'
    BY <1>11 DEF PushWriteNextPointer, TypeOK, Goto, Labels, PushLabels
  <2>3. QED
    BY <1>11, <2>1, <2>2 DEF PushWriteNextPointer, TypeOK, P
<1>12. ASSUME NEW t \in Threads, PushWriteNextCounter(t) PROVE TypeOK'
  <2>1. (next \in [Elements -> P])'
    BY <1>0, <1>12 DEF PushWriteNextCounter, TypeOK, P
  <2>2. (pc \in [Threads -> Labels])'
    BY <1>12 DEF PushWriteNextCounter, TypeOK, Goto, Labels, PushLabels
  <2>3. QED
    BY <1>12, <2>1, <2>2 DEF PushWriteNextCounter, TypeOK, P
<1>13. ASSUME NEW t \in Threads, PushDcas(t) PROVE TypeOK'
  <2> DEFINE r == abstraction_dcas(top, fe_local[t], fe_next[t])
  <2>1. r.compare = top /\ r.destination \in P
    BY DcasFacts, SMT DEF TypeOK, P
  <2> HIDE DEF r
  <2>2. (top \in P)' /\ (fe_next \in [Threads -> P])'
    BY <1>13, <2>1 DEF PushDcas, TypeOK, r, P
  <2>3. (pc \in [Threads -> Labels])'
    BY <1>13 DEF PushDcas, TypeOK, Labels, PushLabels
  <2>4. (held \in [Threads -> SUBSET Elements])'
    BY <1>13 DEF PushDcas, TypeOK
  <2>5. fe_local[t] \in Pac(Elements)
    <3>1. fe_local[t].ptr \in Elements
      BY <1>13 DEF PushDcas, PushLabels, CountersMarkPushes, TypeOK
    <3>2. QED
      BY <3>1 DEF TypeOK, Pac
  <2>6. (list \in Seq(Pac(Elements)))'
    <3>1. list' = list \/ list' = Append(list, fe_local[t])
      BY <1>13 DEF PushDcas
    <3>2. list \in Seq(Pac(Elements))
      BY DEF TypeOK
    <3>3. QED
      BY <2>5, <3>1, <3>2, AppendFacts
  <2>7. QED
    BY <1>13, <2>2, <2>3, <2>4, <2>6 DEF PushDcas, TypeOK, P
<1>14. ASSUME NEW t \in Threads, GuaranteedPop(t) PROVE TypeOK'
  <2>0. NULL \in -1..MaxElements
    BY FreelistAssumption, SMT DEF NULL
  <2>1. CASE element_count' = element_count
    <3>1. ret' = [ret EXCEPT ![t] = NULL] /\ held' = held
      BY <1>14, <2>1, SMT DEF GuaranteedPop, TypeOK, abstraction_increment
    <3>2. (ret \in [Threads -> -1..MaxElements])'
      BY <2>0, <3>1 DEF TypeOK
    <3>3. QED
      BY <1>14, <2>1, <3>1, <3>2 DEF GuaranteedPop, TypeOK, P
  <2>2. CASE element_count' # element_count
    <3> DEFINE e == element_count'
    <3>1. /\ e \in Elements /\ e \in 0..MaxElements /\ e \in -1..MaxElements
          /\ held' = [held EXCEPT ![t] = held[t] \cup {e}]
          /\ ret' = [ret EXCEPT ![t] = e]
      BY <1>14, <2>2, FreelistAssumption, SMT DEF GuaranteedPop, TypeOK, Elements, abstraction_increment
    <3> HIDE DEF e
    <3>2. (held \in [Threads -> SUBSET Elements])' /\ (ret \in [Threads -> -1..MaxElements])'
      BY <3>1 DEF TypeOK
    <3>3. QED
      BY <1>14, <3>1, <3>2 DEF GuaranteedPop, TypeOK, P, e
  <2>3. QED
    BY <1>14, <2>1, <2>2 DEF GuaranteedPop, TypeOK, P
<1>15. CASE UNCHANGED vars
  BY <1>15 DEF vars, TypeOK
<1>16. QED
  BY <1>1, <1>3, <1>5, <1>6, <1>7, <1>8, <1>9, <1>10, <1>11, <1>12, <1>13, <1>14, <1>15
     DEF Next, Call, Continue

-----------------------------------------------------------------------------
(* A pair is determined by its two words. *)
LEMMA PacEqual ==
  ASSUME NEW S, NEW p \in Pac(S), NEW q \in Pac(S), p.ptr = q.ptr, p.cnt = q.cnt
  PROVE  p = q
  BY SMT DEF Pac

(* An element being pushed is not on the list. *)
LEMMA PushedIsUnlisted ==
  ASSUME IInv, NEW t \in Threads, pc[t] \in PushLabels
  PROVE  /\ fe_local[t].ptr \in Elements
         /\ fe_local[t] \in Pac(Elements)
         /\ \A i \in 1..Len(list) : list[i].ptr # fe_local[t].ptr
<1>1. fe_local[t].ptr \in held[t] /\ fe_local[t].ptr \in Elements
  BY DEF IInv, CountersMarkPushes, TypeOK
<1>2. ~Listed(fe_local[t].ptr)
  BY <1>1 DEF IInv, NoElementLostOrShared, Owned
<1>3. fe_local[t] \in Pac(Elements)
  BY <1>1 DEF IInv, TypeOK, Pac
<1>4. QED
  BY <1>1, <1>2, <1>3 DEF Listed

(* A pop whose dcas succeeds takes the last pair of the list, and what it  *)
(* makes the new top is what the pair below it says.                       *)
LEMMA PopDcasFacts ==
  ASSUME IInv, NEW t \in Threads, PopDcas(t)
  PROVE  \/ /\ top = fe_local[t] /\ Len(list) > 0 /\ list[Len(list)] = fe_local[t]
            /\ fe_local[t].ptr \in Elements
            /\ top' = next[fe_local[t].ptr] /\ fe_local' = fe_local
            /\ list' = SubSeq(list, 1, Len(list) - 1)
            /\ pc' = [pc EXCEPT ![t] = "idle"]
            /\ held' = [held EXCEPT ![t] = held[t] \cup {fe_local[t].ptr}]
            /\ ret' = [ret EXCEPT ![t] = fe_local[t].ptr]
         \/ /\ top # fe_local[t] /\ top' = top
            /\ fe_local' = [fe_local EXCEPT ![t] = top]
            /\ PopLoop(t, top.ptr) /\ UNCHANGED <<held, list>>
<1> DEFINE r == abstraction_dcas(top, fe_next[t], fe_local[t])
<1>1. /\ r.compare = top
      /\ r.result = 1 <=> top = fe_local[t]
      /\ r.destination = IF top = fe_local[t] THEN fe_next[t] ELSE top
  BY DcasFacts, SMT
<1>2. /\ pc[t] = "pop_dcas"
      /\ top' = r.destination
      /\ fe_local' = [fe_local EXCEPT ![t] = r.compare]
      /\ r.result = 1 => /\ pc' = [pc EXCEPT ![t] = "idle"]
                         /\ held' = [held EXCEPT ![t] = held[t] \cup {fe_local[t].ptr}]
                         /\ ret' = [ret EXCEPT ![t] = fe_local[t].ptr]
                         /\ list' = SubSeq(list, 1, Len(list) - 1)
      /\ r.result # 1 => PopLoop(t, r.compare.ptr) /\ UNCHANGED <<held, list>>
  BY DEF PopDcas
<1> HIDE DEF r
<1>3. CASE top = fe_local[t]
  <2>1. fe_local[t].ptr # NULL /\ fe_local[t].ptr \in Elements
    BY <1>2, SMT DEF IInv, LocalsAgree, LocalsOf, PopLabels, TypeOK, Pac, Elements, NULL
  <2>2. Len(list) > 0 /\ list[Len(list)] = fe_local[t]
    BY <1>3, <2>1, TopFacts, SMT DEF IInv
  <2>3. Len(list) \in 1..Len(list)
    BY <2>2, TopFacts, SMT DEF IInv
  <2>4. fe_next[t].ptr = next[fe_local[t].ptr].ptr /\ fe_next[t].cnt = next[fe_local[t].ptr].cnt
    BY <1>2, <2>2, <2>3 DEF IInv, LocalsAgree, LocalsOf, PopLabels
  <2>5. fe_next[t] = next[fe_local[t].ptr]
    <3>1. fe_next[t] \in Pac(0..MaxElements) /\ next[fe_local[t].ptr] \in Pac(0..MaxElements)
      BY <2>1 DEF IInv, TypeOK
    <3>2. QED
      BY <2>4, <3>1, PacEqual
  <2>6. fe_local' = fe_local
    BY <1>1, <1>2, <1>3 DEF IInv, TypeOK
  <2>7. QED
    BY <1>1, <1>2, <1>3, <2>1, <2>2, <2>5, <2>6
<1>4. CASE top # fe_local[t]
  BY <1>1, <1>2, <1>4
<1>5. QED
  BY <1>3, <1>4

(* A push whose dcas succeeds puts on the list an element whose next words *)
(* are the old top.                                                        *)
LEMMA PushDcasFacts ==
  ASSUME IInv, NEW t \in Threads, PushDcas(t)
  PROVE  \/ /\ next[fe_local[t].ptr] = top /\ top' = fe_local[t]
            /\ fe_next' = fe_next
            /\ list' = Append(list, fe_local[t])
            /\ pc' = [pc EXCEPT ![t] = "idle"]
            /\ held' = [held EXCEPT ![t] = held[t] \ {fe_local[t].ptr}]
         \/ /\ top' = top
            /\ fe_next' = [fe_next EXCEPT ![t] = top]
            /\ pc' = [pc EXCEPT ![t] = "push_next_ptr"] /\ UNCHANGED <<held, list>>
<1> DEFINE r == abstraction_dcas(top, fe_local[t], fe_next[t])
<1>1. /\ r.compare = top
      /\ r.result = 1 <=> top = fe_next[t]
      /\ r.destination = IF top = fe_next[t] THEN fe_local[t] ELSE top
  BY DcasFacts, SMT
<1>2. /\ pc[t] = "push_dcas"
      /\ top' = r.destination
      /\ fe_next' = [fe_next EXCEPT ![t] = r.compare]
      /\ r.result = 1 => /\ pc' = [pc EXCEPT ![t] = "idle"]
                         /\ held' = [held EXCEPT ![t] = held[t] \ {fe_local[t].ptr}]
                         /\ list' = Append(list, fe_local[t])
      /\ r.result # 1 => /\ pc' = [pc EXCEPT ![t] = "push_next_ptr"]
                         /\ UNCHANGED <<held, list>>
  BY DEF PushDcas
<1> HIDE DEF r
<1>3. CASE top = fe_next[t]
  <2>1. next[fe_local[t].ptr].ptr = fe_next[t].ptr /\ next[fe_local[t].ptr].cnt = fe_next[t].cnt
    BY <1>2 DEF IInv, LocalsAgree, LocalsOf
  <2>2. fe_next[t] \in Pac(0..MaxElements) /\ next[fe_local[t].ptr] \in Pac(0..MaxElements)
    BY <1>2, PushedIsUnlisted DEF IInv, TypeOK, PushLabels
  <2>3. next[fe_local[t].ptr] = top
    BY <1>3, <2>1, <2>2, PacEqual
  <2>4. fe_next' = fe_next
    BY <1>1, <1>2, <1>3 DEF IInv, TypeOK
  <2>5. QED
    BY <1>1, <1>2, <1>3, <2>3, <2>4
<1>4. CASE top # fe_next[t]
  BY <1>1, <1>2, <1>4
<1>5. QED
  BY <1>3, <1>4

(* Every step keeps the memory in the shape of the list.                   *)
LEMMA MemoryStep == IInv /\ [Next]_vars => MemoryIsList'
<1> SUFFICES ASSUME IInv, [Next]_vars PROVE MemoryIsList'
  OBVIOUS
<1>1. CASE UNCHANGED <<top, next, list>>
  BY <1>1 DEF IInv, MemoryIsList
<1>2. ASSUME NEW t \in Threads, PushWriteNextPointer(t) \/ PushWriteNextCounter(t) PROVE MemoryIsList'
  <2>1. \A i \in 1..Len(list) : list[i].ptr # fe_local[t].ptr
    BY <1>2, PushedIsUnlisted DEF PushWriteNextPointer, PushWriteNextCounter, Goto, PushLabels
  <2>2. \A i \in 1..Len(list) : list[i].ptr \in Elements
    BY TopFacts DEF IInv, Pac
  <2>3. \A i \in 1..Len(list) : next'[list[i].ptr] = next[list[i].ptr]
    BY <1>2, <2>1, <2>2 DEF PushWriteNextPointer, PushWriteNextCounter, IInv, TypeOK
  <2>4. UNCHANGED <<top, list>>
    BY <1>2 DEF PushWriteNextPointer, PushWriteNextCounter
  <2>5. QED
    BY <2>3, <2>4 DEF IInv, MemoryIsList
<1>3. ASSUME NEW t \in Threads, PopDcas(t) PROVE MemoryIsList'
  <2>1. CASE UNCHANGED <<top, list>>
    BY <1>3, <2>1 DEF PopDcas, IInv, MemoryIsList
  <2>2. CASE ~UNCHANGED <<top, list>>
    <3>1. /\ Len(list) > 0 /\ list[Len(list)] = fe_local[t]
          /\ top' = next[list[Len(list)].ptr]
          /\ list' = SubSeq(list, 1, Len(list) - 1)
      BY <1>3, <2>2, PopDcasFacts
    <3>2. Len(list') = Len(list) - 1 /\ \A i \in 1..Len(list') : list'[i] = list[i]
      BY <3>1, FrontFacts DEF IInv, TypeOK
    <3>3. Len(list) \in Nat
      BY TopFacts DEF IInv
    <3>4. top' = IF Len(list) = 1 THEN NullPac ELSE list[Len(list) - 1]
      <4>1. Len(list) \in 1..Len(list)
        BY <3>1, <3>3, SMT
      <4>2. next[list[Len(list)].ptr] = IF Len(list) = 1 THEN NullPac ELSE list[Len(list) - 1]
        BY <4>1 DEF IInv, MemoryIsList
      <4>3. QED
        BY <3>1, <4>2
    <3>5. next' = next
      BY <1>3 DEF PopDcas
    <3>6. QED
      BY <3>1, <3>2, <3>3, <3>4, <3>5, SMT DEF IInv, MemoryIsList
  <2>3. QED
    BY <2>1, <2>2
<1>4. ASSUME NEW t \in Threads, PushDcas(t) PROVE MemoryIsList'
  <2>1. CASE UNCHANGED <<top, list>>
    BY <1>4, <2>1 DEF PushDcas, IInv, MemoryIsList
  <2>2. CASE ~UNCHANGED <<top, list>>
    <3>1. next[fe_local[t].ptr] = top /\ top' = fe_local[t] /\ list' = Append(list, fe_local[t])
      BY <1>4, <2>2, PushDcasFacts
    <3>2. fe_local[t] \in Pac(Elements)
      BY <1>4, PushedIsUnlisted DEF PushDcas, PushLabels
    <3>3. /\ Len(list') = Len(list) + 1 /\ list'[Len(list) + 1] = fe_local[t]
          /\ \A i \in 1..Len(list) : list'[i] = list[i]
      BY <3>1, <3>2, AppendFacts, SMT DEF IInv, TypeOK
    <3>4. Len(list) \in Nat
      BY TopFacts DEF IInv
    <3>5. next' = next
      BY <1>4 DEF PushDcas
    <3>6. QED
      BY <3>1, <3>3, <3>4, <3>5, SMT DEF IInv, MemoryIsList
  <2>3. QED
    BY <2>1, <2>2
<1>5. QED
  BY <1>1, <1>2, <1>3, <1>4
     DEF Next, Call, Continue, vars, PopReadCounter, PopReadPointer, PopLoadNextPointer,
         PopLoadNextCounter, PushStart, PushReadPointer, PushReadCounter, GuaranteedPop

(* Every step keeps each element in one place.                             *)
LEMMA OwnershipStep == IInv /\ [Next]_vars => NoElementLostOrShared'
<1> SUFFICES ASSUME IInv, [Next]_vars PROVE NoElementLostOrShared'
  OBVIOUS
<1>1. CASE UNCHANGED <<held, list, element_count>>
  BY <1>1 DEF IInv, NoElementLostOrShared, Listed, Owned
<1>2. ASSUME NEW t \in Threads, PopDcas(t) PROVE NoElementLostOrShared'
  <2>0. element_count' = element_count
    BY <1>2 DEF PopDcas
  <2>1. CASE UNCHANGED <<held, list>>
    BY <1>1, <2>0, <2>1
  <2>2. CASE ~UNCHANGED <<held, list>>
    <3> DEFINE e == fe_local[t].ptr
    <3>1. /\ Len(list) > 0 /\ list[Len(list)].ptr = e /\ e \in Elements
          /\ list' = SubSeq(list, 1, Len(list) - 1)
          /\ held' = [held EXCEPT ![t] = held[t] \cup {e}]
      BY <1>2, <2>2, PopDcasFacts
    <3>2. Len(list') = Len(list) - 1 /\ \A i \in 1..Len(list') : list'[i] = list[i]
      BY <3>1, FrontFacts DEF IInv, TypeOK
    <3>3. Len(list) \in Nat
      BY TopFacts DEF IInv
    <3> HIDE DEF e
    <3>4. Listed(e) /\ ~Owned(e)
      BY <3>1, <3>3, SMT DEF IInv, NoElementLostOrShared, Listed
    <3>5. \A d \in Elements : Listed(d)' <=> Listed(d) /\ d # e
      BY <3>1, <3>2, <3>3, SMT DEF IInv, NoElementLostOrShared, Listed
    <3>6. \A d \in Elements : Owned(d)' <=> Owned(d) \/ d = e
      BY <3>1 DEF IInv, TypeOK, Owned
    <3>7. \A u \in Threads : e \notin held[u]
      BY <3>4 DEF Owned
    <3>8. \A u, w \in Threads : u # w => held'[u] \cap held'[w] = {}
      BY <3>1, <3>7, SMT DEF IInv, TypeOK, NoElementLostOrShared
    <3>9. \A i, j \in 1..Len(list') : list'[i].ptr = list'[j].ptr => i = j
      BY <3>2, <3>3, SMT DEF IInv, NoElementLostOrShared
    <3>10. QED
      BY <2>0, <3>4, <3>5, <3>6, <3>8, <3>9 DEF IInv, NoElementLostOrShared
  <2>3. QED
    BY <2>1, <2>2
<1>3. ASSUME NEW t \in Threads, PushDcas(t) PROVE NoElementLostOrShared'
  <2>0. element_count' = element_count
    BY <1>3 DEF PushDcas
  <2>1. CASE UNCHANGED <<held, list>>
    BY <1>1, <2>0, <2>1
  <2>2. CASE ~UNCHANGED <<held, list>>
    <3> DEFINE e == fe_local[t].ptr
    <3>1. /\ list' = Append(list, fe_local[t])
          /\ held' = [held EXCEPT ![t] = held[t] \ {e}]
      BY <1>3, <2>2, PushDcasFacts
    <3>2. /\ e \in Elements /\ e \in held[t] /\ fe_local[t] \in Pac(Elements)
          /\ \A i \in 1..Len(list) : list[i].ptr # e
      BY <1>3, PushedIsUnlisted DEF PushDcas, PushLabels, IInv, CountersMarkPushes
    <3>3. /\ Len(list') = Len(list) + 1 /\ list'[Len(list) + 1].ptr = e
          /\ \A i \in 1..Len(list) : list'[i] = list[i]
      BY <3>1, <3>2, AppendFacts, SMT DEF IInv, TypeOK
    <3>4. Len(list) \in Nat
      BY TopFacts DEF IInv
    <3> HIDE DEF e
    <3>5. \A d \in Elements : Listed(d)' <=> Listed(d) \/ d = e
      BY <3>3, <3>4, SMT DEF Listed
    <3>6. \A u \in Threads \ {t} : e \notin held[u]
      BY <3>2 DEF IInv, NoElementLostOrShared
    <3>7. \A d \in Elements : Owned(d)' <=> Owned(d) /\ d # e
      BY <3>1, <3>6 DEF IInv, TypeOK, Owned
    <3>8. Owned(e)
      BY <3>2 DEF Owned
    <3>9. \A u, w \in Threads : u # w => held'[u] \cap held'[w] = {}
      BY <3>1 DEF IInv, TypeOK, NoElementLostOrShared
    <3>10. \A i, j \in 1..Len(list') : list'[i].ptr = list'[j].ptr => i = j
      BY <3>2, <3>3, <3>4, SMT DEF IInv, NoElementLostOrShared
    <3>11. QED
      BY <2>0, <3>5, <3>7, <3>8, <3>9, <3>10 DEF IInv, NoElementLostOrShared
  <2>3. QED
    BY <2>1, <2>2
<1>4. ASSUME NEW t \in Threads, GuaranteedPop(t) PROVE NoElementLostOrShared'
  <2>1. CASE UNCHANGED <<held, element_count>>
    BY <1>1, <1>4, <2>1 DEF GuaranteedPop
  <2>2. CASE ~UNCHANGED <<held, element_count>>
    <3> DEFINE e == element_count + 1
    <3>1. /\ element_count' = e /\ e \in Elements
          /\ held' = [held EXCEPT ![t] = held[t] \cup {e}]
      BY <1>4, <2>2, FreelistAssumption, SMT DEF GuaranteedPop, abstraction_increment, IInv, TypeOK, Elements
    <3>2. list' = list
      BY <1>4 DEF GuaranteedPop
    <3>3. /\ element_count \in Nat /\ ~(e <= element_count)
          /\ \A d \in Elements : d <= e <=> d <= element_count \/ d = e
      BY SMT DEF IInv, TypeOK, Elements
    <3> HIDE DEF e
    <3>4. ~Listed(e) /\ ~Owned(e)
      BY <3>1, <3>3 DEF IInv, NoElementLostOrShared
    <3>5. \A d \in Elements : Listed(d)' <=> Listed(d)
      BY <3>2 DEF Listed
    <3>6. \A d \in Elements : Owned(d)' <=> Owned(d) \/ d = e
      BY <3>1 DEF IInv, TypeOK, Owned
    <3>7. \A u \in Threads : e \notin held[u]
      BY <3>4 DEF Owned
    <3>8. \A u, w \in Threads : u # w => held'[u] \cap held'[w] = {}
      BY <3>1, <3>7, SMT DEF IInv, TypeOK, NoElementLostOrShared
    <3>9. \A i, j \in 1..Len(list') : list'[i].ptr = list'[j].ptr => i = j
      BY <3>2 DEF IInv, NoElementLostOrShared
    <3>10. \A d \in Elements : ~(Listed(d)' /\ Owned(d)')
      BY <3>4, <3>5, <3>6 DEF IInv, NoElementLostOrShared
    <3>11. \A d \in Elements : Listed(d)' \/ Owned(d)' <=> d <= element_count'
      BY <3>1, <3>3, <3>5, <3>6 DEF IInv, NoElementLostOrShared
    <3>12. QED
      BY <3>8, <3>9, <3>10, <3>11 DEF NoElementLostOrShared
  <2>3. QED
    BY <2>1, <2>2
<1>5. QED
  BY <1>1, <1>2, <1>3, <1>4
     DEF Next, Call, Continue, vars, PopReadCounter, PopReadPointer, PopLoadNextPointer,
         PopLoadNextCounter, PushStart, PushReadPointer, PushReadCounter,
         PushWriteNextPointer, PushWriteNextCounter

(* The counter on top belongs to no push in progress.                      *)
LEMMA TopCounter ==
  ASSUME IInv
  PROVE  /\ top.cnt <= aba_counter
         /\ \A u \in Threads : pc[u] \in PushLabels => top.cnt # fe_local[u].cnt
<1>1. CASE top.ptr = NULL
  BY <1>1, TopFacts, SMT DEF IInv, CountersMarkPushes, TypeOK, Pac
<1>2. CASE top.ptr # NULL
  <2>1. Len(list) \in 1..Len(list) /\ top = list[Len(list)]
    BY <1>2, TopFacts, SMT DEF IInv
  <2>2. QED
    BY <2>1 DEF IInv, CountersMarkPushes
<1>3. QED
  BY <1>1, <1>2

(* A step that gives no thread a new counter but that of top, and lists no *)
(* new pair, keeps CountersMarkPushes.                                     *)
LEMMA CountersFrame ==
  ASSUME IInv, NEW t \in Threads, TypeOK',
         aba_counter' = aba_counter,
         \A i \in 1..Len(list') : i \in 1..Len(list) /\ list'[i] = list[i],
         \A u \in Threads \ {t} : pc'[u] = pc[u] /\ fe_local'[u] = fe_local[u],
         \A u \in Threads : held[u] \subseteq held'[u],
         pc'[t] # "idle" => pc[t] # "idle" \/ fe_local'[t].cnt = top.cnt,
         pc'[t] \in PushLabels => pc[t] \in PushLabels /\ fe_local'[t] = fe_local[t],
         fe_local'[t].cnt \in {fe_local[t].cnt, top.cnt}
  PROVE  CountersMarkPushes'
<1>1. \A i \in 1..Len(list') : list'[i].cnt <= aba_counter'
  BY DEF IInv, CountersMarkPushes
<1>2. \A w \in Threads : fe_local'[w].cnt <= aba_counter'
  BY TopCounter DEF IInv, CountersMarkPushes
<1>3. ASSUME NEW u \in Threads, pc'[u] \in PushLabels
      PROVE  /\ fe_local'[u].ptr \in held'[u]
             /\ fe_local'[u].cnt > 0
             /\ \A i \in 1..Len(list') : list'[i].cnt # fe_local'[u].cnt
             /\ \A w \in Threads \ {u} : pc'[w] # "idle" => fe_local'[w].cnt # fe_local'[u].cnt
  <2>1. pc[u] \in PushLabels /\ fe_local'[u] = fe_local[u]
    BY <1>3
  <2>2. /\ fe_local[u].ptr \in held[u]
        /\ fe_local[u].cnt > 0
        /\ \A i \in 1..Len(list) : list[i].cnt # fe_local[u].cnt
        /\ \A w \in Threads \ {u} : pc[w] # "idle" => fe_local[w].cnt # fe_local[u].cnt
    BY <2>1 DEF IInv, CountersMarkPushes
  <2>3. \A w \in Threads \ {u} : pc'[w] # "idle" => fe_local'[w].cnt # fe_local[u].cnt
    BY <2>1, <2>2, TopCounter, SMT
  <2>4. QED
    BY <2>1, <2>2, <2>3
<1>4. QED
  BY <1>1, <1>2, <1>3 DEF CountersMarkPushes

(* Every step keeps counters unique to their push.                         *)
LEMMA CountersStep == IInv /\ TypeOK' /\ [Next]_vars => CountersMarkPushes'
<1> SUFFICES ASSUME IInv, TypeOK', [Next]_vars PROVE CountersMarkPushes'
  OBVIOUS
<1>0. "idle" \notin PushLabels /\ PopLabels \cap PushLabels = {} /\ "idle" \notin PopLabels
  BY DEF PopLabels, PushLabels
<1>1. ASSUME NEW t \in Threads,
             \/ PopLoadNextPointer(t) \/ PopLoadNextCounter(t)
             \/ PushReadPointer(t) \/ PushReadCounter(t)
             \/ PushWriteNextPointer(t) \/ PushWriteNextCounter(t)
      PROVE  CountersMarkPushes'
  <2>1. UNCHANGED <<aba_counter, list, fe_local, held>>
    BY <1>1 DEF PopLoadNextPointer, PopLoadNextCounter, PushReadPointer, PushReadCounter,
                PushWriteNextPointer, PushWriteNextCounter
  <2>2. /\ \A u \in Threads \ {t} : pc'[u] = pc[u]
        /\ pc[t] # "idle" /\ (pc'[t] \in PushLabels => pc[t] \in PushLabels)
    BY <1>1 DEF PopLoadNextPointer, PopLoadNextCounter, PushReadPointer, PushReadCounter,
                PushWriteNextPointer, PushWriteNextCounter, Goto, IInv, TypeOK, PushLabels
  <2>3. QED
    BY <2>1, <2>2, CountersFrame
<1>2. ASSUME NEW t \in Threads, PopReadCounter(t) PROVE CountersMarkPushes'
  <2>1. UNCHANGED <<aba_counter, list, held>>
    BY <1>2 DEF PopReadCounter
  <2>2. /\ \A u \in Threads \ {t} : pc'[u] = pc[u] /\ fe_local'[u] = fe_local[u]
        /\ pc'[t] = "pop_ptr" /\ fe_local'[t].cnt = top.cnt
    BY <1>2 DEF PopReadCounter, Goto, IInv, TypeOK, Pac
  <2>3. pc'[t] \notin PushLabels
    BY <2>2 DEF PushLabels
  <2>4. QED
    BY <2>1, <2>2, <2>3, CountersFrame
<1>3. ASSUME NEW t \in Threads, NEW p, PopLoop(t, p)
      PROVE  /\ \A u \in Threads \ {t} : pc'[u] = pc[u]
             /\ pc'[t] \notin PushLabels
  BY <1>3 DEF PopLoop, IInv, TypeOK, PushLabels
<1>4. ASSUME NEW t \in Threads, PopReadPointer(t) PROVE CountersMarkPushes'
  <2>1. UNCHANGED <<aba_counter, list, held>> /\ pc[t] # "idle"
    BY <1>4 DEF PopReadPointer
  <2>2. /\ \A u \in Threads \ {t} : fe_local'[u] = fe_local[u]
        /\ fe_local'[t].cnt = fe_local[t].cnt
    BY <1>4 DEF PopReadPointer, IInv, TypeOK, Pac
  <2>3. PopLoop(t, top.ptr)
    BY <1>4 DEF PopReadPointer
  <2>4. QED
    BY <1>3, <2>1, <2>2, <2>3, CountersFrame
<1>5. ASSUME NEW t \in Threads, PopDcas(t) PROVE CountersMarkPushes'
  <2>1. aba_counter' = aba_counter /\ pc[t] # "idle"
    BY <1>5 DEF PopDcas
  <2>2. CASE fe_local' = fe_local /\ pc' = [pc EXCEPT ![t] = "idle"]
    <3>1. \/ /\ Len(list) > 0 /\ list' = SubSeq(list, 1, Len(list) - 1)
             /\ held' = [held EXCEPT ![t] = held[t] \cup {fe_local[t].ptr}]
          \/ UNCHANGED <<held, list>>
      BY <1>5, PopDcasFacts
    <3>2. \A u \in Threads : held[u] \subseteq held'[u]
      BY <3>1 DEF IInv, TypeOK
    <3>3. \A i \in 1..Len(list') : i \in 1..Len(list) /\ list'[i] = list[i]
      <4>1. CASE UNCHANGED list
        BY <4>1
      <4>2. CASE Len(list) > 0 /\ list' = SubSeq(list, 1, Len(list) - 1)
        <5>1. Len(list') = Len(list) - 1 /\ \A i \in 1..Len(list') : list'[i] = list[i]
          BY <4>2, FrontFacts DEF IInv, TypeOK
        <5>2. Len(list) \in Nat
          BY TopFacts DEF IInv
        <5>3. QED
          BY <5>1, <5>2, SMT
      <4>3. QED
        BY <3>1, <4>1, <4>2
    <3>4. /\ \A u \in Threads \ {t} : pc'[u] = pc[u]
          /\ pc'[t] = "idle"
      BY <2>2 DEF IInv, TypeOK
    <3>5. QED
      BY <1>0, <2>1, <2>2, <3>2, <3>3, <3>4, CountersFrame
  <2>3. CASE ~(fe_local' = fe_local /\ pc' = [pc EXCEPT ![t] = "idle"])
    <3>1. /\ fe_local' = [fe_local EXCEPT ![t] = top]
          /\ PopLoop(t, top.ptr) /\ UNCHANGED <<held, list>>
      BY <1>5, <2>3, PopDcasFacts
    <3>2. /\ \A u \in Threads \ {t} : fe_local'[u] = fe_local[u]
          /\ fe_local'[t].cnt = top.cnt
      BY <3>1 DEF IInv, TypeOK
    <3>3. QED
      BY <1>3, <2>1, <3>1, <3>2, CountersFrame
  <2>4. QED
    BY <2>2, <2>3
<1>6. ASSUME NEW t \in Threads, GuaranteedPop(t) PROVE CountersMarkPushes'
  <2>1. UNCHANGED <<aba_counter, list, pc, fe_local>> /\ pc[t] = "idle"
    BY <1>6 DEF GuaranteedPop
  <2>2. \A u \in Threads : held[u] \subseteq held'[u]
    BY <1>6 DEF GuaranteedPop, IInv, TypeOK
  <2>3. QED
    BY <1>0, <2>1, <2>2, CountersFrame
<1>7. ASSUME NEW t \in Threads, NEW fe \in Elements, PushStart(t, fe) PROVE CountersMarkPushes'
  <2>1. /\ aba_counter' = aba_counter + 1 /\ aba_counter \in Nat
        /\ UNCHANGED <<list, held>> /\ fe \in held[t]
    BY <1>7 DEF PushStart, abstraction_increment, IInv, TypeOK
  <2>2. /\ \A u \in Threads \ {t} : pc'[u] = pc[u] /\ fe_local'[u] = fe_local[u]
        /\ fe_local'[t].ptr = fe /\ fe_local'[t].cnt = aba_counter + 1
    BY <1>7, <2>1 DEF PushStart, Goto, IInv, TypeOK
  <2>3. /\ \A i \in 1..Len(list) : list[i].cnt \in Nat
        /\ \A w \in Threads : fe_local[w].cnt \in Nat
    BY TopFacts DEF IInv, TypeOK, Pac
  <2>4. /\ \A i \in 1..Len(list) : list[i].cnt <= aba_counter
        /\ \A w \in Threads : fe_local[w].cnt <= aba_counter
    BY DEF IInv, CountersMarkPushes
  <2>5. /\ \A i \in 1..Len(list') : list'[i].cnt <= aba_counter'
        /\ \A w \in Threads : fe_local'[w].cnt <= aba_counter'
    BY <2>1, <2>2, <2>3, <2>4, SMT
  <2>6. ASSUME NEW u \in Threads, pc'[u] \in PushLabels
        PROVE  /\ fe_local'[u].ptr \in held'[u]
               /\ fe_local'[u].cnt > 0
               /\ \A i \in 1..Len(list') : list'[i].cnt # fe_local'[u].cnt
               /\ \A w \in Threads \ {u} : pc'[w] # "idle" => fe_local'[w].cnt # fe_local'[u].cnt
    <3>1. CASE u = t
      BY <2>1, <2>2, <2>3, <2>4, <3>1, SMT
    <3>2. CASE u # t
      <4>1. /\ fe_local[u].ptr \in held[u]
            /\ fe_local[u].cnt > 0
            /\ \A i \in 1..Len(list) : list[i].cnt # fe_local[u].cnt
            /\ \A w \in Threads \ {u} : pc[w] # "idle" => fe_local[w].cnt # fe_local[u].cnt
        BY <2>2, <2>6, <3>2 DEF IInv, CountersMarkPushes
      <4>2. QED
        BY <2>1, <2>2, <2>3, <2>4, <3>2, <4>1, SMT
    <3>3. QED
      BY <3>1, <3>2
  <2>7. QED
    BY <2>5, <2>6 DEF CountersMarkPushes
<1>8. ASSUME NEW t \in Threads, PushDcas(t) PROVE CountersMarkPushes'
  <2>1. aba_counter' = aba_counter /\ fe_local' = fe_local /\ pc[t] = "push_dcas"
    BY <1>8 DEF PushDcas
  <2>2. CASE UNCHANGED <<held, list>> /\ pc' = [pc EXCEPT ![t] = "push_next_ptr"]
    <3>1. \A u \in Threads \ {t} : pc'[u] = pc[u]
      BY <2>2 DEF IInv, TypeOK
    <3>2. pc[t] \in PushLabels
      BY <2>1 DEF PushLabels
    <3>3. QED
      BY <1>0, <2>1, <2>2, <3>1, <3>2, CountersFrame
  <2>3. CASE ~(UNCHANGED <<held, list>> /\ pc' = [pc EXCEPT ![t] = "push_next_ptr"])
    <3>1. /\ list' = Append(list, fe_local[t])
          /\ pc' = [pc EXCEPT ![t] = "idle"]
          /\ held' = [held EXCEPT ![t] = held[t] \ {fe_local[t].ptr}]
      BY <1>8, <2>3, PushDcasFacts
    <3>2. fe_local[t] \in Pac(Elements) /\ pc[t] \in PushLabels
      BY <2>1, PushedIsUnlisted DEF PushLabels
    <3>3. /\ Len(list') = Len(list) + 1 /\ list'[Len(list) + 1] = fe_local[t]
          /\ \A i \in 1..Len(list) : list'[i] = list[i]
      BY <3>1, <3>2, AppendFacts, SMT DEF IInv, TypeOK
    <3>4. Len(list) \in Nat
      BY TopFacts DEF IInv
    <3>5. \A i \in 1..Len(list') : list'[i].cnt <= aba_counter'
      BY <2>1, <3>3, <3>4, SMT DEF IInv, CountersMarkPushes
    <3>6. ASSUME NEW u \in Threads, pc'[u] \in PushLabels
          PROVE  /\ fe_local'[u].ptr \in held'[u]
                 /\ fe_local'[u].cnt > 0
                 /\ \A i \in 1..Len(list') : list'[i].cnt # fe_local'[u].cnt
                 /\ \A w \in Threads \ {u} : pc'[w] # "idle" => fe_local'[w].cnt # fe_local'[u].cnt
      <4>1. u # t /\ pc[u] \in PushLabels /\ held'[u] = held[u]
        BY <1>0, <3>1, <3>6 DEF IInv, TypeOK
      <4>2. /\ fe_local[u].ptr \in held[u]
            /\ fe_local[u].cnt > 0
            /\ \A i \in 1..Len(list) : list[i].cnt # fe_local[u].cnt
            /\ \A w \in Threads \ {u} : pc[w] # "idle" => fe_local[w].cnt # fe_local[u].cnt
        BY <4>1 DEF IInv, CountersMarkPushes
      <4>3. fe_local[t].cnt # fe_local[u].cnt
        BY <1>0, <3>2, <4>1, <4>2
      <4>4. \A i \in 1..Len(list') : list'[i].cnt # fe_local[u].cnt
        BY <3>3, <3>4, <4>2, <4>3, SMT
      <4>5. \A w \in Threads : pc'[w] # "idle" => pc[w] # "idle"
        BY <2>1, <3>1 DEF IInv, TypeOK
      <4>6. QED
        BY <2>1, <4>1, <4>2, <4>4, <4>5
    <3>7. QED
      BY <2>1, <3>5, <3>6 DEF IInv, CountersMarkPushes
  <2>4. QED
    BY <2>2, <2>3
<1>9. CASE UNCHANGED vars
  BY <1>9 DEF vars, IInv, CountersMarkPushes
<1>10. QED
  BY <1>1, <1>2, <1>4, <1>5, <1>6, <1>7, <1>8, <1>9 DEF Next, Call, Continue

(* A step of another thread leaves a call's locals in agreement if it      *)
(* neither lists the call's pair nor writes the next words the call uses.  *)
LEMMA LocalsFrame ==
  ASSUME IInv, NEW w \in Threads,
         pc'[w] = pc[w], ret'[w] = ret[w], fe_local'[w] = fe_local[w], fe_next'[w] = fe_next[w],
         pc[w] \in PopLabels =>
            \A i \in 1..Len(list') : list'[i] = fe_local[w] =>
               \E j \in 1..Len(list) : list[j] = fe_local[w],
         pc[w] \in PopLabels /\ (\E j \in 1..Len(list) : list[j] = fe_local[w]) =>
            next'[fe_local[w].ptr] = next[fe_local[w].ptr],
         pc[w] \in PushLabels => next'[fe_local[w].ptr] = next[fe_local[w].ptr]
  PROVE  LocalsOf(w)'
<1>1. LocalsOf(w)
  BY DEF IInv, LocalsAgree
<1>2. CASE pc[w] \in PopLabels
  BY <1>1, <1>2 DEF LocalsOf, PopLabels
<1>3. CASE pc[w] \notin PopLabels
  BY <1>1, <1>3 DEF LocalsOf, PushLabels
<1>4. QED
  BY <1>2, <1>3

(* Every step keeps the locals of all calls in agreement with the memory.  *)
LEMMA LocalsStep == IInv /\ TypeOK' /\ [Next]_vars => LocalsAgree'
<1> SUFFICES ASSUME IInv, TypeOK', [Next]_vars PROVE LocalsAgree'
  OBVIOUS
<1>0. "idle" \notin PushLabels /\ PopLabels \cap PushLabels = {} /\ "idle" \notin PopLabels
  BY DEF PopLabels, PushLabels
<1>1. ASSUME NEW t \in Threads, NEW w \in Threads \ {t},
             \/ PopReadCounter(t) \/ PopReadPointer(t) \/ PopLoadNextPointer(t)
             \/ PopLoadNextCounter(t) \/ PopDcas(t) \/ (\E fe \in Elements : PushStart(t, fe))
             \/ PushReadPointer(t) \/ PushReadCounter(t) \/ PushWriteNextPointer(t)
             \/ PushWriteNextCounter(t) \/ PushDcas(t) \/ GuaranteedPop(t)
      PROVE  pc'[w] = pc[w] /\ ret'[w] = ret[w] /\ fe_local'[w] = fe_local[w] /\ fe_next'[w] = fe_next[w]
  BY <1>1, ZenonT(30) DEF PopReadCounter, PopReadPointer, PopLoadNextPointer, PopLoadNextCounter, PopDcas,
              PushStart, PushReadPointer, PushReadCounter, PushWriteNextPointer,
              PushWriteNextCounter, PushDcas, GuaranteedPop, PopLoop, Goto, IInv, TypeOK
<1>2. ASSUME NEW t \in Threads, UNCHANGED <<list, next>>, LocalsOf(t)',
             \A w \in Threads \ {t} : pc'[w] = pc[w] /\ ret'[w] = ret[w]
                                      /\ fe_local'[w] = fe_local[w] /\ fe_next'[w] = fe_next[w]
      PROVE  LocalsAgree'
  BY <1>2, LocalsFrame DEF LocalsAgree
<1>3. ASSUME NEW t \in Threads, NEW p, PopLoop(t, p), fe_local'[t].ptr = p, pc[t] \in PopLabels
      PROVE  LocalsOf(t)'
  <2>1. ret[t] = Pending
    BY <1>3 DEF IInv, LocalsAgree, LocalsOf
  <2>2. CASE p = NULL
    <3>1. pc'[t] = "idle" /\ ret'[t] = NULL
      BY <1>3, <2>2 DEF PopLoop, IInv, TypeOK
    <3>2. QED
      BY <3>1, SMT DEF LocalsOf, PopLabels, NULL, Pending
  <2>3. CASE p # NULL
    <3>1. pc'[t] = "pop_next_ptr" /\ ret'[t] = Pending
      BY <1>3, <2>1, <2>3 DEF PopLoop, IInv, TypeOK
    <3>2. QED
      BY <1>3, <2>3, <3>1 DEF LocalsOf, PopLabels
  <2>4. QED
    BY <2>2, <2>3
<1>4. ASSUME NEW t \in Threads, PopReadCounter(t) PROVE LocalsAgree'
  <2>1. pc'[t] = "pop_ptr" /\ ret'[t] = Pending /\ UNCHANGED <<list, next>>
    BY <1>4 DEF PopReadCounter, Goto, IInv, TypeOK
  <2>2. LocalsOf(t)'
    BY <2>1 DEF LocalsOf, PopLabels
  <2>3. QED
    BY <1>1, <1>2, <1>4, <2>1, <2>2
<1>5. ASSUME NEW t \in Threads, PopReadPointer(t) PROVE LocalsAgree'
  <2>1. PopLoop(t, top.ptr) /\ UNCHANGED <<list, next>> /\ pc[t] \in PopLabels
    BY <1>5 DEF PopReadPointer, PopLabels
  <2>2. fe_local'[t].ptr = top.ptr
    BY <1>5 DEF PopReadPointer, IInv, TypeOK, Pac
  <2>3. QED
    BY <1>1, <1>2, <1>3, <1>5, <2>1, <2>2
<1>6. ASSUME NEW t \in Threads, PopLoadNextPointer(t) PROVE LocalsAgree'
  <2>1. /\ pc[t] = "pop_next_ptr" /\ pc'[t] = "pop_next_cnt"
        /\ UNCHANGED <<list, next, fe_local, ret>>
    BY <1>6 DEF PopLoadNextPointer, Goto, IInv, TypeOK
  <2>2. fe_next'[t].ptr = next[fe_local[t].ptr].ptr
    BY <1>6 DEF PopLoadNextPointer, IInv, TypeOK, Pac
  <2>3. ret[t] = Pending /\ fe_local[t].ptr # NULL
    BY <2>1 DEF IInv, LocalsAgree, LocalsOf, PopLabels
  <2>4. LocalsOf(t)'
    BY <2>1, <2>2, <2>3 DEF LocalsOf, PopLabels
  <2>5. QED
    BY <1>1, <1>2, <1>6, <2>1, <2>4
<1>7. ASSUME NEW t \in Threads, PopLoadNextCounter(t) PROVE LocalsAgree'
  <2>1. /\ pc[t] = "pop_next_cnt" /\ pc'[t] = "pop_dcas"
        /\ UNCHANGED <<list, next, fe_local, ret>>
    BY <1>7 DEF PopLoadNextCounter, Goto, IInv, TypeOK
  <2>2. fe_next'[t].cnt = next[fe_local[t].ptr].cnt /\ fe_next'[t].ptr = fe_next[t].ptr
    BY <1>7 DEF PopLoadNextCounter, IInv, TypeOK, Pac
  <2>3. /\ ret[t] = Pending /\ fe_local[t].ptr # NULL
        /\ (\E i \in 1..Len(list) : list[i] = fe_local[t]) => fe_next[t].ptr = next[fe_local[t].ptr].ptr
    BY <2>1 DEF IInv, LocalsAgree, LocalsOf, PopLabels
  <2>4. LocalsOf(t)'
    BY <2>1, <2>2, <2>3 DEF LocalsOf, PopLabels
  <2>5. QED
    BY <1>1, <1>2, <1>7, <2>1, <2>4
<1>8. ASSUME NEW t \in Threads, PopDcas(t) PROVE LocalsAgree'
  <2>1. next' = next /\ pc[t] \in PopLabels
    BY <1>8 DEF PopDcas, PopLabels
  <2>2. \A i \in 1..Len(list') : \E j \in 1..Len(list) : list'[i] = list[j]
    <3>1. CASE UNCHANGED list
      BY <3>1
    <3>2. CASE Len(list) > 0 /\ list' = SubSeq(list, 1, Len(list) - 1)
      <4>1. Len(list') = Len(list) - 1 /\ \A i \in 1..Len(list') : list'[i] = list[i]
        BY <3>2, FrontFacts DEF IInv, TypeOK
      <4>2. Len(list) \in Nat
        BY TopFacts DEF IInv
      <4>3. QED
        BY <4>1, <4>2, SMT
    <3>3. QED
      BY <1>8, <3>1, <3>2, PopDcasFacts
  <2>3. \A w \in Threads \ {t} : LocalsOf(w)'
    BY <1>1, <1>8, <2>1, <2>2, LocalsFrame, SMT
  <2>4. LocalsOf(t)'
    <3>1. CASE PopLoop(t, top.ptr) /\ fe_local' = [fe_local EXCEPT ![t] = top]
      <4>1. fe_local'[t].ptr = top.ptr
        BY <3>1 DEF IInv, TypeOK
      <4>2. QED
        BY <1>3, <2>1, <3>1, <4>1
    <3>2. CASE /\ fe_local[t].ptr \in Elements
               /\ pc' = [pc EXCEPT ![t] = "idle"]
               /\ ret' = [ret EXCEPT ![t] = fe_local[t].ptr]
      <4>1. pc'[t] = "idle" /\ ret'[t] \in Elements
        BY <3>2 DEF IInv, TypeOK
      <4>2. ret'[t] # Pending
        BY <4>1, FreelistAssumption, SMT DEF Elements, Pending
      <4>3. QED
        BY <4>1, <4>2 DEF LocalsOf, PopLabels
    <3>3. QED
      BY <1>8, <3>1, <3>2, PopDcasFacts
  <2>5. QED
    BY <2>3, <2>4 DEF LocalsAgree
<1>9. ASSUME NEW t \in Threads, NEW fe \in Elements, PushStart(t, fe) PROVE LocalsAgree'
  <2>1. pc[t] = "idle" /\ pc'[t] = "push_ptr" /\ UNCHANGED <<list, next, ret>>
    BY <1>9 DEF PushStart, Goto, IInv, TypeOK
  <2>2. LocalsOf(t)'
    BY <2>1 DEF LocalsOf, PopLabels, IInv, LocalsAgree
  <2>3. QED
    BY <1>1, <1>2, <1>9, <2>1, <2>2
<1>10. ASSUME NEW t \in Threads, PushReadPointer(t) \/ PushReadCounter(t) PROVE LocalsAgree'
  <2>1. /\ pc[t] \in {"push_ptr", "push_cnt"} /\ pc'[t] \in {"push_cnt", "push_next_ptr"}
        /\ UNCHANGED <<list, next, ret>>
    BY <1>10 DEF PushReadPointer, PushReadCounter, Goto, IInv, TypeOK
  <2>2. LocalsOf(t)'
    BY <2>1 DEF LocalsOf, PopLabels, IInv, LocalsAgree
  <2>3. QED
    BY <1>1, <1>2, <1>10, <2>1, <2>2
<1>11. ASSUME NEW t \in Threads, PushWriteNextPointer(t) \/ PushWriteNextCounter(t) PROVE LocalsAgree'
  <2>1. pc[t] \in PushLabels /\ UNCHANGED <<list, fe_local, fe_next, ret>>
    BY <1>11 DEF PushWriteNextPointer, PushWriteNextCounter, Goto, PushLabels
  <2>2. \A e \in Elements : e # fe_local[t].ptr => next'[e] = next[e]
    BY <1>11, <2>1, PushedIsUnlisted DEF PushWriteNextPointer, PushWriteNextCounter, IInv, TypeOK
  <2>3. ASSUME NEW w \in Threads \ {t} PROVE LocalsOf(w)'
    <3>1. (\E j \in 1..Len(list) : list[j] = fe_local[w]) => next'[fe_local[w].ptr] = next[fe_local[w].ptr]
      BY <2>1, <2>2, PushedIsUnlisted, TopFacts, SMT DEF IInv, Pac
    <3>2. pc[w] \in PushLabels => next'[fe_local[w].ptr] = next[fe_local[w].ptr]
      <4>1. SUFFICES ASSUME pc[w] \in PushLabels PROVE fe_local[w].ptr # fe_local[t].ptr
        BY <2>2, PushedIsUnlisted
      <4>2. fe_local[w].ptr \in held[w] /\ fe_local[t].ptr \in held[t]
        BY <2>1, <4>1 DEF IInv, CountersMarkPushes
      <4>3. QED
        BY <4>2 DEF IInv, NoElementLostOrShared
    <3>3. QED
      BY <1>1, <1>11, <2>1, <3>1, <3>2, LocalsFrame
  <2>4. LocalsOf(t)'
    <3>1. fe_local[t].ptr \in Elements /\ ret[t] # Pending
      BY <1>0, <2>1, PushedIsUnlisted DEF IInv, LocalsAgree, LocalsOf
    <3>2. CASE PushWriteNextPointer(t)
      <4>1. pc'[t] = "push_next_cnt" /\ next'[fe_local[t].ptr].ptr = fe_next[t].ptr
        BY <3>1, <3>2 DEF PushWriteNextPointer, Goto, IInv, TypeOK, Pac
      <4>2. QED
        BY <2>1, <3>1, <4>1 DEF LocalsOf, PopLabels
    <3>3. CASE PushWriteNextCounter(t)
      <4>1. /\ pc[t] = "push_next_cnt" /\ pc'[t] = "push_dcas"
            /\ next'[fe_local[t].ptr].cnt = fe_next[t].cnt
            /\ next'[fe_local[t].ptr].ptr = next[fe_local[t].ptr].ptr
        BY <3>1, <3>3 DEF PushWriteNextCounter, Goto, IInv, TypeOK, Pac
      <4>2. next[fe_local[t].ptr].ptr = fe_next[t].ptr
        BY <4>1 DEF IInv, LocalsAgree, LocalsOf
      <4>3. QED
        BY <2>1, <3>1, <4>1, <4>2 DEF LocalsOf, PopLabels
    <3>4. QED
      BY <1>11, <3>2, <3>3
  <2>5. QED
    BY <2>3, <2>4 DEF LocalsAgree
<1>12. ASSUME NEW t \in Threads, PushDcas(t) PROVE LocalsAgree'
  <2>1. next' = next /\ pc[t] \in PushLabels /\ ret' = ret
    BY <1>12 DEF PushDcas, PushLabels
  <2>2. \A i \in 1..Len(list') : list'[i] = fe_local[t] \/ \E j \in 1..Len(list) : list'[i] = list[j]
    <3>1. CASE UNCHANGED list
      BY <3>1
    <3>2. CASE list' = Append(list, fe_local[t])
      <4>1. /\ Len(list') = Len(list) + 1 /\ list'[Len(list) + 1] = fe_local[t]
            /\ \A i \in 1..Len(list) : list'[i] = list[i]
        BY <2>1, <3>2, PushedIsUnlisted, AppendFacts, SMT DEF IInv, TypeOK
      <4>2. Len(list) \in Nat
        BY TopFacts DEF IInv
      <4>3. QED
        BY <4>1, <4>2, SMT
    <3>3. QED
      BY <1>12, <3>1, <3>2, PushDcasFacts
  <2>3. ASSUME NEW w \in Threads \ {t} PROVE LocalsOf(w)'
    <3>1. pc[w] \in PopLabels => fe_local[w] # fe_local[t]
      BY <1>0, <2>1 DEF IInv, CountersMarkPushes
    <3>2. QED
      BY <1>1, <1>12, <2>1, <2>2, <3>1, LocalsFrame, SMT
  <2>4. LocalsOf(t)'
    <3>1. pc'[t] \in {"idle", "push_next_ptr"}
      BY <1>12 DEF PushDcas, IInv, TypeOK
    <3>2. ret[t] # Pending
      BY <1>0, <2>1 DEF IInv, LocalsAgree, LocalsOf
    <3>3. QED
      BY <2>1, <3>1, <3>2 DEF LocalsOf, PopLabels
  <2>5. QED
    BY <2>3, <2>4 DEF LocalsAgree
<1>13. ASSUME NEW t \in Threads, GuaranteedPop(t) PROVE LocalsAgree'
  <2>1. pc'[t] = "idle" /\ UNCHANGED <<list, next>>
    BY <1>13 DEF GuaranteedPop
  <2>2. ret'[t] \in {NULL, element_count + 1}
    BY <1>13 DEF GuaranteedPop, IInv, TypeOK, abstraction_increment
  <2>3. ret'[t] # Pending
    BY <2>2, SMT DEF IInv, TypeOK, NULL, Pending
  <2>4. LocalsOf(t)'
    BY <2>1, <2>3 DEF LocalsOf, PopLabels
  <2>5. QED
    BY <1>1, <1>2, <1>13, <2>1, <2>4
<1>14. CASE UNCHANGED vars
  BY <1>14 DEF vars, IInv, LocalsAgree, LocalsOf
<1>15. QED
  BY <1>4, <1>5, <1>6, <1>7, <1>8, <1>9, <1>10, <1>11, <1>12, <1>13, <1>14 DEF Next, Call, Continue

-----------------------------------------------------------------------------
(* The initial list of InitElements pushes has the shape IInv describes.   *)
LEMMA InitIInv == Init => IInv
<1> SUFFICES ASSUME Init PROVE IInv
  OBVIOUS
<1>1. /\ InitElements \in Nat /\ InitElements <= MaxElements /\ MaxElements \in Nat
  BY FreelistAssumption, SMT
<1>2. list \in Seq(Pac(Elements)) /\ Len(list) = InitElements
      /\ \A i \in 1..InitElements : list[i] = [ptr |-> i, cnt |-> i]
  BY <1>1, SMT DEF Init, Pac, Elements
<1>3. TypeOK
  <2>1. top \in Pac(0..MaxElements) /\ NullPac \in Pac(0..MaxElements)
    BY <1>1, SMT DEF Init, Pac, NullPac, NULL
  <2>2. next \in [Elements -> Pac(0..MaxElements)]
    BY <1>1, <2>1, SMT DEF Init, Pac, Elements
  <2>3. pc \in [Threads -> Labels] /\ ret \in [Threads -> -1..MaxElements]
    BY <1>1, SMT DEF Init, Labels, NULL
  <2>4. QED
    BY <1>1, <1>2, <2>1, <2>2, <2>3, SMT DEF Init, TypeOK
<1>4. MemoryIsList
  BY <1>1, <1>2, SMT DEF Init, MemoryIsList, NullPac, NULL, Elements
<1>5. NoElementLostOrShared
  <2>1. \A e \in Elements : Listed(e) <=> e <= element_count
    <3>1. element_count = InitElements
      BY DEF Init
    <3>2. ASSUME NEW e \in Elements, e <= InitElements PROVE Listed(e)
      <4>1. e \in 1..Len(list) /\ list[e].ptr = e
        BY <1>1, <1>2, <3>2, SMT DEF Elements
      <4>2. QED
        BY <4>1 DEF Listed
    <3>3. ASSUME NEW e \in Elements, Listed(e) PROVE e <= InitElements
      BY <1>1, <1>2, <3>3, SMT DEF Listed
    <3>4. QED
      BY <3>1, <3>2, <3>3
  <2>2. \A e \in Elements : ~Owned(e)
    BY DEF Init, Owned
  <2>3. QED
    BY <1>1, <1>2, <2>1, <2>2 DEF Init, NoElementLostOrShared
<1>6. CountersMarkPushes
  BY <1>1, <1>2, SMT DEF Init, CountersMarkPushes, PushLabels, NullPac
<1>7. LocalsAgree
  BY SMT DEF Init, LocalsAgree, LocalsOf, PopLabels, NULL, Pending
<1>8. QED
  BY <1>3, <1>4, <1>5, <1>6, <1>7 DEF IInv

(* Every step keeps the inductive invariant.                               *)
LEMMA StepIInv == IInv /\ [Next]_vars => IInv'
<1> SUFFICES ASSUME IInv, [Next]_vars PROVE IInv'
  OBVIOUS
<1>1. TypeOK'
  BY TypeStep DEF IInv
<1>2. QED
  BY <1>1, MemoryStep, OwnershipStep, CountersStep, LocalsStep DEF IInv

(* The inductive invariant holds in every reachable state.                 *)
THEOREM Invariance == Spec => []IInv
  BY InitIInv, StepIInv, PTL DEF Spec

(* Pops and pushes that load and store one word at a time only ever form   *)
(* pairs of an element (or NULL) and a counter.                            *)
THEOREM TypeCorrect == Spec => []TypeOK
<1>1. IInv => TypeOK
  BY DEF IInv
<1>2. QED
  BY <1>1, Invariance, PTL

(* The list that top and the next words spell is the list of the pushes    *)
(* not yet popped, whatever the interleaving of the single-word accesses   *)
(* of freelist_pop and freelist_push.                                      *)
THEOREM MemoryIsAlwaysList == Spec => []MemoryIsList
<1>1. IInv => MemoryIsList
  BY DEF IInv
<1>2. QED
  BY <1>1, Invariance, PTL

(* No element of the free list is ever lost or handed to two threads.      *)
THEOREM NeverLostOrShared == Spec => []NoElementLostOrShared
<1>1. IInv => NoElementLostOrShared
  BY DEF IInv
<1>2. QED
  BY <1>1, Invariance, PTL

(* A counter word marks one push for ever, so no stalled dcas of           *)
(* freelist_pop mistakes a later push of the same element for its own.     *)
THEOREM CountersAlwaysMarkPushes == Spec => []CountersMarkPushes
<1>1. IInv => CountersMarkPushes
  BY DEF IInv
<1>2. QED
  BY <1>1, Invariance, PTL

(* No successful dcas of freelist_pop or freelist_push publishes a pair    *)
(* torn by the separate loads and stores of its two words.                 *)
THEOREM NeverTornPublish == Spec => []NoTornPublish
<1>1. ASSUME IInv PROVE NoTornPublish
  <2> SUFFICES ASSUME NEW t \in Threads
               PROVE  /\ pc[t] = "pop_dcas" /\ top = fe_local[t] => fe_next[t] = next[fe_local[t].ptr]
                      /\ pc[t] = "push_dcas" /\ top = fe_next[t] => next[fe_local[t].ptr] = top
    BY DEF NoTornPublish
  <2>1. ASSUME pc[t] = "pop_dcas", top = fe_local[t] PROVE fe_next[t] = next[fe_local[t].ptr]
    <3>1. fe_local[t].ptr # NULL /\ fe_local[t].ptr \in Elements
      <4>1. fe_local[t].ptr # NULL
        BY <1>1, <2>1 DEF IInv, LocalsAgree, LocalsOf, PopLabels
      <4>2. fe_local[t] \in Pac(0..MaxElements)
        BY <1>1 DEF IInv, TypeOK
      <4>3. fe_local[t].ptr \in 0..MaxElements
        BY <4>2, SMT DEF Pac
      <4>4. QED
        BY <4>1, <4>3, FreelistAssumption, SMT DEF Elements, NULL
    <3>2. Len(list) \in 1..Len(list) /\ list[Len(list)] = fe_local[t]
      BY <1>1, <2>1, <3>1, TopFacts, SMT DEF IInv
    <3>3. fe_next[t].ptr = next[fe_local[t].ptr].ptr /\ fe_next[t].cnt = next[fe_local[t].ptr].cnt
      BY <1>1, <2>1, <3>2 DEF IInv, LocalsAgree, LocalsOf, PopLabels
    <3>4. fe_next[t] \in Pac(0..MaxElements) /\ next[fe_local[t].ptr] \in Pac(0..MaxElements)
      BY <1>1, <3>1 DEF IInv, TypeOK
    <3>5. QED
      BY <3>3, <3>4, PacEqual
  <2>2. ASSUME pc[t] = "push_dcas", top = fe_next[t] PROVE next[fe_local[t].ptr] = top
    <3>1. next[fe_local[t].ptr].ptr = fe_next[t].ptr /\ next[fe_local[t].ptr].cnt = fe_next[t].cnt
      BY <1>1, <2>2 DEF IInv, LocalsAgree, LocalsOf
    <3>2. fe_next[t] \in Pac(0..MaxElements) /\ next[fe_local[t].ptr] \in Pac(0..MaxElements)
      BY <1>1, <2>2, PushedIsUnlisted DEF IInv, TypeOK, PushLabels
    <3>3. QED
      BY <2>2, <3>1, <3>2, PacEqual
  <2>3. QED
    BY <2>1, <2>2
<1>2. QED
  BY <1>1, Invariance, PTL

(* No step writes the next words of an element while it is on the list, so *)
(* the load of fe->next in freelist_pop needs no protection.               *)
THEOREM ListedNextNeverWritten == Spec => ListedNextIsStable
<1>1. ASSUME IInv, [Next]_vars
      PROVE  [\A i \in 1..Len(list) : next'[list[i].ptr] = next[list[i].ptr]]_vars
  <2> SUFFICES ASSUME NEW i \in 1..Len(list) PROVE next'[list[i].ptr] = next[list[i].ptr]
    OBVIOUS
  <2>1. ASSUME NEW t \in Threads, PushWriteNextPointer(t) \/ PushWriteNextCounter(t)
        PROVE  next'[list[i].ptr] = next[list[i].ptr]
    <3>1. pc[t] \in PushLabels
      BY <2>1 DEF PushWriteNextPointer, PushWriteNextCounter, Goto, PushLabels
    <3>2. list[i].ptr # fe_local[t].ptr /\ list[i].ptr \in Elements
      BY <1>1, <3>1, PushedIsUnlisted, TopFacts DEF IInv, Pac
    <3>3. QED
      BY <1>1, <2>1, <3>2 DEF PushWriteNextPointer, PushWriteNextCounter, IInv, TypeOK
  <2>2. CASE UNCHANGED next
    BY <2>2
  <2>3. QED
    BY <1>1, <2>1, <2>2
       DEF vars, Next, Call, Continue, PopReadCounter, PopReadPointer, PopLoadNextPointer,
           PopLoadNextCounter, PopDcas, PushStart, PushReadPointer, PushReadCounter,
           PushDcas, GuaranteedPop
<1>2. QED
  BY <1>1, Invariance, PTL DEF Spec, ListedNextIsStable

-----------------------------------------------------------------------------
(* The stack of pointers of a list of pairs has its length and pointers.   *)
LEMMA PointersOfFacts ==
  ASSUME NEW S, NEW s \in Seq(Pac(S))
  PROVE  /\ PointersOf(s) \in Seq(S)
         /\ Len(PointersOf(s)) = Len(s)
         /\ \A i \in 1..Len(s) : PointersOf(s)[i] = s[i].ptr
<1>1. Len(s) \in Nat /\ \A i \in 1..Len(s) : s[i] \in Pac(S)
  BY SMT
<1>2. \A i \in 1..Len(s) : s[i].ptr \in S
  BY <1>1 DEF Pac
<1>3. QED
  BY <1>1, <1>2, SMT DEF PointersOf

(* Dropping the last pair, or appending one, does the same to the stack of *)
(* pointers.                                                               *)
LEMMA PointersOfFront ==
  ASSUME NEW S, NEW s \in Seq(Pac(S)), Len(s) > 0
  PROVE  LET p == PointersOf(s)
         IN  /\ PointersOf(SubSeq(s, 1, Len(s) - 1)) = SubSeq(p, 1, Len(p) - 1)
             /\ Len(p) = Len(s) /\ p[Len(p)] = s[Len(s)].ptr
<1> DEFINE p == PointersOf(s)
<1>1. p \in Seq(S) /\ Len(p) = Len(s) /\ \A i \in 1..Len(s) : p[i] = s[i].ptr
  BY PointersOfFacts
<1>2. Len(s) \in Nat /\ Len(s) \in 1..Len(s)
  BY SMT
<1> HIDE DEF p
<1> DEFINE f == SubSeq(s, 1, Len(s) - 1)
           g == SubSeq(p, 1, Len(p) - 1)
<1>3. f \in Seq(Pac(S)) /\ Len(f) = Len(s) - 1 /\ \A i \in 1..Len(f) : f[i] = s[i]
  BY FrontFacts
<1>4. g \in Seq(S) /\ Len(g) = Len(p) - 1 /\ \A i \in 1..Len(g) : g[i] = p[i]
  BY <1>1, FrontFacts
<1> HIDE DEF f, g
<1>5. PointersOf(f) \in Seq(S) /\ Len(PointersOf(f)) = Len(f) /\ \A i \in 1..Len(f) : PointersOf(f)[i] = f[i].ptr
  BY <1>3, PointersOfFacts
<1>6. \A i \in 1..Len(f) : PointersOf(f)[i] = g[i]
  <2> SUFFICES ASSUME NEW i \in 1..Len(f) PROVE PointersOf(f)[i] = g[i]
    OBVIOUS
  <2>1. i \in 1..Len(s) /\ i \in 1..Len(g)
    BY <1>1, <1>2, <1>3, <1>4, SMT
  <2>2. QED
    BY <1>1, <1>3, <1>4, <1>5, <2>1
<1>7. PointersOf(f) = g
  BY <1>1, <1>3, <1>4, <1>5, <1>6, SMT
<1>8. QED
  BY <1>1, <1>2, <1>7 DEF p, f, g

(* The pointers of a stack with one more element pushed. *)
LEMMA PointersOfAppend ==
  ASSUME NEW S, NEW s \in Seq(Pac(S)), NEW x \in Pac(S)
  PROVE  PointersOf(Append(s, x)) = Append(PointersOf(s), x.ptr)
  BY SMT DEF PointersOf, Pac

(* Every step of the code is a step of the atomic stack or none at all.    *)
LEMMA StackStep == IInv /\ [Next]_vars => [Stack!Next]_(Stack!vars)
<1> SUFFICES ASSUME IInv, [Next]_vars PROVE [Stack!Next]_(Stack!vars)
  OBVIOUS
<1> USE DEF Pending, NULL
<1>0. \A t \in Threads : (pc[t] \in PopLabels <=> ret[t] = -1)
  BY DEF IInv, LocalsAgree, LocalsOf
<1>1. ASSUME NEW t \in Threads, PopReadCounter(t) PROVE Stack!CallPop(t)
  BY <1>0, <1>1 DEF PopReadCounter, Goto, Stack!CallPop, PopLabels
<1>2. ASSUME NEW t \in Threads, PopLoop(t, top.ptr), pc[t] \in PopLabels,
             UNCHANGED <<list, held, element_count>>
      PROVE  Stack!PopEmpty(t) \/ UNCHANGED Stack!vars
  <2>1. CASE top.ptr = NULL
    <3>1. Len(list) = 0
      BY <2>1, TopFacts DEF IInv
    <3>2. PointersOf(list) = <<>>
      BY <3>1, SMT DEF PointersOf
    <3>3. QED
      BY <1>0, <1>2, <2>1, <3>2 DEF PopLoop, Stack!PopEmpty
  <2>2. CASE top.ptr # NULL
    BY <1>2, <2>2 DEF PopLoop, Stack!vars
  <2>3. QED
    BY <2>1, <2>2
<1>3. ASSUME NEW t \in Threads, PopReadPointer(t) PROVE Stack!PopEmpty(t) \/ UNCHANGED Stack!vars
  BY <1>2, <1>3 DEF PopReadPointer, PopLabels
<1>4. ASSUME NEW t \in Threads, PopDcas(t)
      PROVE  Stack!Pop(t) \/ Stack!PopEmpty(t) \/ UNCHANGED Stack!vars
  <2>1. pc[t] \in PopLabels /\ element_count' = element_count
    BY <1>4 DEF PopDcas, PopLabels
  <2>2. CASE PopLoop(t, top.ptr) /\ UNCHANGED <<held, list>>
    BY <1>2, <2>1, <2>2
  <2>3. CASE /\ Len(list) > 0 /\ list[Len(list)] = fe_local[t]
             /\ list' = SubSeq(list, 1, Len(list) - 1)
             /\ held' = [held EXCEPT ![t] = held[t] \cup {fe_local[t].ptr}]
             /\ ret' = [ret EXCEPT ![t] = fe_local[t].ptr]
    <3> DEFINE p == PointersOf(list)
    <3>1. p' = SubSeq(p, 1, Len(p) - 1) /\ Len(p) = Len(list) /\ p[Len(p)] = fe_local[t].ptr
      BY <2>3, PointersOfFront DEF IInv, TypeOK
    <3>2. p # <<>>
      BY <2>3, <3>1, SMT
    <3>3. ret[t] = -1
      BY <1>0, <2>1
    <3> HIDE DEF p
    <3>4. QED
      BY <2>1, <2>3, <3>1, <3>2, <3>3 DEF Stack!Pop, p
  <2>4. QED
    BY <1>4, <2>2, <2>3, PopDcasFacts
<1>5. ASSUME NEW t \in Threads, PushDcas(t) PROVE Stack!Push(t) \/ UNCHANGED Stack!vars
  <2>1. pc[t] \in PushLabels /\ UNCHANGED <<element_count, ret>>
    BY <1>5 DEF PushDcas, PushLabels
  <2>2. CASE UNCHANGED <<held, list>>
    BY <2>1, <2>2 DEF Stack!vars
  <2>3. CASE /\ list' = Append(list, fe_local[t])
             /\ held' = [held EXCEPT ![t] = held[t] \ {fe_local[t].ptr}]
    <3>1. PointersOf(list)' = Append(PointersOf(list), fe_local[t].ptr)
      BY <2>1, <2>3, PointersOfAppend, PushedIsUnlisted DEF IInv, TypeOK
    <3>2. fe_local[t].ptr \in held[t] /\ ret[t] # -1
      BY <1>0, <2>1 DEF IInv, CountersMarkPushes, PushLabels, PopLabels
    <3>3. QED
      BY <2>1, <2>3, <3>1, <3>2 DEF Stack!Push
  <2>4. QED
    BY <1>5, <2>2, <2>3, PushDcasFacts
<1>6. ASSUME NEW t \in Threads, GuaranteedPop(t) PROVE Stack!New(t)
  <2>1. ret[t] # -1
    BY <1>0, <1>6 DEF GuaranteedPop, PopLabels
  <2>2. QED
    BY <1>6, <2>1, FreelistAssumption, SMT
       DEF GuaranteedPop, Stack!New, abstraction_increment, IInv, TypeOK
<1>7. CASE UNCHANGED <<list, held, ret, element_count>>
  BY <1>7 DEF Stack!vars
<1>8. QED
  BY <1>1, <1>3, <1>4, <1>5, <1>6, <1>7
     DEF vars, Next, Call, Continue, Stack!Next, PopLoadNextPointer, PopLoadNextCounter,
         PushStart, PushReadPointer, PushReadCounter, PushWriteNextPointer, PushWriteNextCounter

(* lf_freelist.c implements the atomic stack: whatever the interleaving, a *)
(* pop takes the last element pushed, or NULL at a moment when the stack   *)
(* is empty, and a push takes effect at its successful dcas.               *)
THEOREM ImplementsAtomicStack == Spec => IsAtomicStack
<1>1. Init => Stack!Init
  BY FreelistAssumption, SMT DEF Init, Stack!Init, PointersOf, NULL
<1>2. QED
  BY <1>1, StackStep, Invariance, PTL DEF Spec, IsAtomicStack, Stack!Spec
=============================================================================
