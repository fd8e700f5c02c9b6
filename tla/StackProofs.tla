---------------------------- MODULE StackProofs ----------------------------
(***************************************************************************)
(* Proofs about Stack, for every set of threads, every script of calls and *)
(* every number of elements.                                               *)
(***************************************************************************)
EXTENDS Stack, TLAPS

(* A step is proved by Zenon; a step with arithmetic, sequences or records *)
(* cites SMT.                                                              *)
USE Zenon

-----------------------------------------------------------------------------
(* Sequences *)

(* Only the empty sequence has length 0. *)
LEMMA EmptySeq ==
  ASSUME NEW S, NEW s \in Seq(S)
  PROVE  s = <<>> <=> Len(s) = 0
  BY SMT

(* Two sequences with the same values are equal. *)
LEMMA SeqEqual ==
  ASSUME NEW S, NEW s \in Seq(S), NEW z \in Seq(S),
         Len(s) = Len(z), \A i \in 1..Len(s) : s[i] = z[i]
  PROVE  s = z
  BY SMT

(* The values of a concatenation. *)
LEMMA ConcatProperties ==
  ASSUME NEW S, NEW s \in Seq(S), NEW z \in Seq(S)
  PROVE  /\ s \o z \in Seq(S) /\ Len(s \o z) = Len(s) + Len(z)
         /\ \A i \in 1..(Len(s) + Len(z)) : (s \o z)[i] = IF i <= Len(s) THEN s[i] ELSE z[i - Len(s)]
  BY SMT

(* The values of a tail. *)
LEMMA TailProperties ==
  ASSUME NEW S, NEW s \in Seq(S), s # <<>>
  PROVE  /\ Tail(s) \in Seq(S) /\ Len(Tail(s)) = Len(s) - 1
         /\ \A i \in 1..Len(Tail(s)) : Tail(s)[i] = s[i + 1]
  BY SMT

(* A sequence without its last value. *)
LEMMA FrontProperties ==
  ASSUME NEW S, NEW s \in Seq(S), NEW n, n = Len(s) - 1
  PROVE  /\ SubSeq(s, 1, n) \in Seq(S)
         /\ s # <<>> => Len(SubSeq(s, 1, n)) = n /\ \A i \in 1..n : SubSeq(s, 1, n)[i] = s[i]
  BY SMT

(* The end of a sequence, from value i on. *)
LEMMA EndProperties ==
  ASSUME NEW S, NEW s \in Seq(S)
  PROVE  /\ SubSeq(s, 1, Len(s)) = s
         /\ SubSeq(s, Len(s) + 1, Len(s)) = <<>>
         /\ \A i \in 1..Len(s) : SubSeq(s, i, Len(s)) = <<s[i]>> \o SubSeq(s, i + 1, Len(s))
  BY SMT

-----------------------------------------------------------------------------
(* Walks along the next pointers *)

Pointers == 0..MaxElements

(* The first n elements from each pointer on, given the ones of n - 1. *)
Body(nx, walk, n) ==
    [x \in Pointers |-> IF x = NULL \/ n = 0 THEN <<>> ELSE <<x>> \o walk[n - 1][nx[x].ptr]]

Walk(nx) == CHOOSE walk : walk = [n \in Pointers |-> Body(nx, walk, n)]

(* The stack is the walk from ss->top on. *)
LEMMA StackedIsWalk == Stacked = Walk(next)[MaxElements][top.ptr]
BY DEF Stacked, Walk, Body, Pointers

(* s is the list that the next pointers make from p on. *)
IsList(nx, p, s) ==
    /\ s \in Seq(Elements) /\ Len(s) <= MaxElements
    /\ \A i \in 1..Len(s) : nx[s[i]].ptr = IF i < Len(s) THEN s[i + 1] ELSE NULL
    /\ p = IF s = <<>> THEN NULL ELSE s[1]

-----------------------------------------------------------------------------
(* The list from words tp on *)

To(tp, nx, s, i) == IF i = 1 THEN tp ELSE nx[s[i - 1]]

Listed(tp, nx, s) ==
    /\ s \in Seq(Elements)
    /\ \A i, j \in 1..Len(s) : s[i] = s[j] => i = j
    /\ \A i \in 1..Len(s) : To(tp, nx, s, i).ptr = s[i]
    /\ To(tp, nx, s, Len(s) + 1) = NullPac

(* A walk from the first element of a list finds the list.  That it does   *)
(* is shown where the theorems are; until then it is a hypothesis.         *)
WalksFindLists ==
    \A tp, nx, s : Listed(tp, nx, s) => Walk(nx)[MaxElements][tp.ptr] = s

(* Stores to the next words of other elements leave it alone. *)
LEMMA SameList ==
  ASSUME NEW tp, NEW nx, NEW ny, NEW s, Listed(tp, nx, s),
         \A i \in 1..Len(s) : ny[s[i]] = nx[s[i]]
  PROVE  /\ Listed(tp, ny, s)
         /\ \A i \in 1..(Len(s) + 1) : To(tp, ny, s, i) = To(tp, nx, s, i)
<1>1. s \in Seq(Elements) /\ Len(s) \in Nat
  BY SMT DEF Listed
<1>2. ASSUME NEW i \in 1..(Len(s) + 1)
      PROVE  To(tp, ny, s, i) = To(tp, nx, s, i)
  <2>1. i # 1 => i - 1 \in 1..Len(s)
    BY <1>1, SMT
  <2>2. QED
    BY <2>1 DEF To
<1>3. QED
  BY <1>1, <1>2, SMT DEF Listed

(* Element e, which words w point to, goes on top of list s to make z. *)
GoesOn(tp, nx, s, w, e, z) ==
    /\ Listed(tp, nx, s)
    /\ e \in Elements /\ w.ptr = e /\ nx[e] = tp /\ e \notin ElementsIn(s)
    /\ z = <<e>> \o s

(* An element is put on it. *)
LEMMA PushedList ==
  ASSUME NEW tp, NEW nx, NEW s, NEW w, NEW e, NEW z, GoesOn(tp, nx, s, w, e, z)
  PROVE  /\ Listed(w, nx, z)
         /\ To(w, nx, z, 1) = w
         /\ \A i \in 1..(Len(s) + 1) : To(w, nx, z, i + 1) = To(tp, nx, s, i)
         /\ Len(z) = Len(s) + 1
         /\ z[1] = e /\ \A i \in 1..Len(s) : z[i + 1] = s[i]
         /\ ElementsIn(z) = ElementsIn(s) \cup {e}
<1>0. Listed(tp, nx, s) /\ e \in Elements /\ w.ptr = e /\ nx[e] = tp /\ e \notin ElementsIn(s)
  BY DEF GoesOn
<1>1. s \in Seq(Elements) /\ Len(s) \in Nat
  BY <1>0, SMT DEF Listed
<1>2. /\ z \in Seq(Elements) /\ Len(z) = Len(s) + 1
      /\ z[1] = e /\ \A i \in 1..Len(s) : z[i + 1] = s[i]
  <2>1. <<e>> \in Seq(Elements) /\ Len(<<e>>) = 1 /\ <<e>>[1] = e
    BY <1>0, SMT
  <2>2. /\ z \in Seq(Elements) /\ Len(z) = 1 + Len(s)
        /\ \A i \in 1..(1 + Len(s)) : z[i] = IF i <= 1 THEN <<e>>[i] ELSE s[i - 1]
    BY <1>1, <2>1, ConcatProperties, SMT DEF GoesOn
  <2>3. z[1] = e
    BY <1>1, <2>1, <2>2, SMT
  <2>4. ASSUME NEW i \in 1..Len(s) PROVE z[i + 1] = s[i]
    <3>1. i + 1 \in 1..(1 + Len(s)) /\ ~(i + 1 <= 1) /\ (i + 1) - 1 = i
      BY <1>1, SMT
    <3>2. QED
      BY <2>2, <3>1
  <2>5. QED
    BY <1>1, <2>2, <2>3, <2>4, SMT
<1>3. \A k \in 1..(Len(s) + 1) : k = 1 \/ \E i \in 1..Len(s) : k = i + 1
  <2>1. SUFFICES ASSUME NEW k \in 1..(Len(s) + 1), k # 1 PROVE \E i \in 1..Len(s) : k = i + 1
    OBVIOUS
  <2>2. k - 1 \in 1..Len(s) /\ k = (k - 1) + 1
    BY <1>0, <1>1, <2>1, SMT
  <2>3. QED
    BY <2>2
<1>4. \A i \in 1..Len(s) : s[i] # e
  BY <1>0 DEF ElementsIn
<1>5. \A i, j \in 1..Len(z) : z[i] = z[j] => i = j
  <2>1. SUFFICES ASSUME NEW i \in 1..Len(z), NEW j \in 1..Len(z), z[i] = z[j] PROVE i = j
    OBVIOUS
  <2>2. CASE i = 1 \/ j = 1
    <3>1. \A k \in 1..Len(z) : k # 1 => z[k] # e
      <4>1. SUFFICES ASSUME NEW k \in 1..Len(z), k # 1 PROVE z[k] # e
        OBVIOUS
      <4>2. PICK a \in 1..Len(s) : k = a + 1
        BY <1>2, <1>3, <4>1
      <4>3. QED
        BY <1>2, <1>4, <4>2
    <3>2. z[1] = e
      BY <1>2
    <3>3. QED
      BY <2>1, <2>2, <3>1, <3>2
  <2>3. CASE i # 1 /\ j # 1
    <3>1. PICK a \in 1..Len(s), b \in 1..Len(s) : i = a + 1 /\ j = b + 1
      BY <1>0, <1>2, <1>3, <2>3, SMT
    <3>2. a = b
      BY <1>0, <1>2, <2>1, <3>1, SMT DEF Listed
    <3>3. QED
      BY <3>1, <3>2
  <2>4. QED
    BY <2>2, <2>3
<1>6. To(w, nx, z, 1) = w
  BY DEF To
<1>7. ASSUME NEW i \in 1..(Len(s) + 1)
      PROVE  To(w, nx, z, i + 1) = To(tp, nx, s, i)
  <2>1. To(w, nx, z, i + 1) = nx[z[i]]
    BY <1>0, <1>1, SMT DEF To
  <2>2. CASE i = 1
    BY <1>0, <1>2, <2>1, <2>2 DEF To
  <2>3. CASE i # 1
    <3>1. i - 1 \in 1..Len(s) /\ (i - 1) + 1 = i
      BY <1>0, <1>1, <2>3, SMT
    <3>2. z[i] = s[i - 1]
      BY <1>0, <1>2, <3>1
    <3>3. QED
      BY <2>1, <2>3, <3>2 DEF To
  <2>4. QED
    BY <2>2, <2>3
<1>8. \A k \in 1..Len(z) : To(w, nx, z, k).ptr = z[k]
  <2>1. SUFFICES ASSUME NEW k \in 1..Len(z) PROVE To(w, nx, z, k).ptr = z[k]
    OBVIOUS
  <2>2. CASE k = 1
    BY <1>0, <1>2, <1>6, <2>2
  <2>3. CASE k # 1
    <3>1. PICK i \in 1..Len(s) : k = i + 1
      BY <1>0, <1>2, <1>3, <2>3
    <3>2. To(tp, nx, s, i).ptr = s[i] /\ i \in 1..(Len(s) + 1)
      BY <1>0, <1>1, SMT DEF Listed
    <3>3. QED
      BY <1>0, <1>2, <1>7, <3>1, <3>2
  <2>4. QED
    BY <2>2, <2>3
<1>9. To(w, nx, z, Len(z) + 1) = NullPac
  <2>1. Len(s) + 1 \in 1..(Len(s) + 1)
    BY <1>0, <1>1, SMT
  <2>2. QED
    BY <1>0, <1>2, <1>7, <2>1 DEF Listed
<1>10. ElementsIn(z) = ElementsIn(s) \cup {e}
  <2>1. ASSUME NEW k \in 1..Len(z) PROVE z[k] \in ElementsIn(s) \cup {e}
    <3>1. k \in 1..(Len(s) + 1)
      BY <1>2
    <3>2. CASE k = 1
      BY <1>2, <3>2
    <3>3. CASE k # 1
      <4>1. PICK i \in 1..Len(s) : k = i + 1
        BY <1>3, <3>1, <3>3
      <4>2. z[k] = s[i]
        BY <1>2, <4>1
      <4>3. QED
        BY <4>2 DEF ElementsIn
    <3>4. QED
      BY <3>2, <3>3
  <2>2. \A i \in 1..Len(s) : i + 1 \in 1..Len(z) /\ z[i + 1] = s[i]
    BY <1>0, <1>1, <1>2, SMT
  <2>3. 1 \in 1..Len(z)
    BY <1>0, <1>1, <1>2, SMT
  <2>4. ASSUME NEW i \in 1..Len(s) PROVE s[i] \in ElementsIn(z)
    <3>1. PICK k \in 1..Len(z) : z[k] = s[i]
      BY <2>2, SMT
    <3>2. QED
      BY <3>1 DEF ElementsIn
  <2>5. ElementsIn(z) \subseteq ElementsIn(s) \cup {e} /\ ElementsIn(s) \subseteq ElementsIn(z)
    BY <2>1, <2>4 DEF ElementsIn
  <2>6. e \in ElementsIn(z)
    BY <1>2, <2>3 DEF ElementsIn
  <2>7. QED
    BY <2>5, <2>6
<1>11. QED
  BY <1>0, <1>1, <1>2, <1>5, <1>6, <1>7, <1>8, <1>9, <1>10 DEF Listed

(* Its first element is taken. *)
LEMMA PoppedList ==
  ASSUME NEW tp, NEW nx, NEW s, Listed(tp, nx, s), s # <<>>
  PROVE  /\ Listed(nx[s[1]], nx, Tail(s))
         /\ \A i \in 1..Len(s) : To(nx[s[1]], nx, Tail(s), i) = To(tp, nx, s, i + 1)
         /\ Len(Tail(s)) = Len(s) - 1
         /\ \A i \in 1..(Len(s) - 1) : Tail(s)[i] = s[i + 1]
         /\ s[1] \in ElementsIn(s) /\ ElementsIn(Tail(s)) = ElementsIn(s) \ {s[1]}
<1> DEFINE z == Tail(s)
           w == nx[s[1]]
<1>1. s \in Seq(Elements) /\ Len(s) \in Nat /\ Len(s) >= 1
  BY EmptySeq, SMT DEF Listed
<1>2. z \in Seq(Elements) /\ Len(z) = Len(s) - 1 /\ \A i \in 1..Len(z) : z[i] = s[i + 1]
  BY <1>1, TailProperties
<1> HIDE DEF z
<1>3. Len(z) \in Nat /\ \A i \in 1..Len(z) : i + 1 \in 1..Len(s) /\ i \in 1..Len(s)
  BY <1>1, <1>2, SMT
<1>4. \A i, j \in 1..Len(z) : z[i] = z[j] => i = j
  <2>1. SUFFICES ASSUME NEW i \in 1..Len(z), NEW j \in 1..Len(z), z[i] = z[j] PROVE i = j
    OBVIOUS
  <2>2. i + 1 = j + 1
    BY <1>2, <1>3, <2>1, SMT DEF Listed
  <2>3. QED
    BY <2>2, SMT
<1>5. ASSUME NEW i \in 1..Len(s)
      PROVE  To(w, nx, z, i) = To(tp, nx, s, i + 1)
  <2>1. To(tp, nx, s, i + 1) = nx[s[i]]
    BY <1>1, SMT DEF To
  <2>2. CASE i = 1
    BY <2>1, <2>2 DEF To
  <2>3. CASE i # 1
    <3>1. i - 1 \in 1..Len(z) /\ (i - 1) + 1 = i
      BY <1>1, <1>2, <2>3, SMT
    <3>2. z[i - 1] = s[i]
      BY <1>2, <3>1
    <3>3. QED
      BY <2>1, <2>3, <3>2 DEF To
  <2>4. QED
    BY <2>2, <2>3
<1>6. \A i \in 1..Len(z) : To(w, nx, z, i).ptr = z[i]
  BY <1>2, <1>3, <1>5 DEF Listed
<1>7. To(w, nx, z, Len(z) + 1) = NullPac
  <2>1. Len(z) + 1 = Len(s) /\ Len(s) \in 1..Len(s)
    BY <1>1, <1>2, SMT
  <2>2. QED
    BY <1>5, <2>1 DEF Listed
<1>8. ElementsIn(z) = ElementsIn(s) \ {s[1]} /\ s[1] \in ElementsIn(s)
  <2>1. 1 \in 1..Len(s)
    BY <1>1, SMT
  <2>2. ASSUME NEW k \in 1..Len(s) PROVE k = 1 \/ \E i \in 1..Len(z) : s[k] = z[i]
    <3>1. SUFFICES ASSUME k # 1 PROVE \E i \in 1..Len(z) : s[k] = z[i]
      OBVIOUS
    <3>2. k - 1 \in 1..Len(z) /\ (k - 1) + 1 = k
      BY <1>1, <1>2, <3>1, SMT
    <3>3. QED
      BY <1>2, <3>2
  <2>3. ASSUME NEW i \in 1..Len(z) PROVE z[i] # s[1] /\ \E k \in 1..Len(s) : z[i] = s[k]
    <3>1. i + 1 \in 1..Len(s) /\ i + 1 # 1
      BY <1>3, SMT
    <3>2. QED
      BY <1>2, <2>1, <3>1 DEF Listed
  <2>4. QED
    BY <2>1, <2>2, <2>3, SMT DEF ElementsIn
<1>9. \A i \in 1..(Len(s) - 1) : z[i] = s[i + 1]
  BY <1>2
<1>10. QED
  BY <1>2, <1>4, <1>5, <1>6, <1>7, <1>8, <1>9 DEF Listed, z

-----------------------------------------------------------------------------
(* The places of the elements *)

(* An element is moved between the free list, the stack and the hands of a *)
(* thread, or is new.                                                      *)
LEMMA PartitionMoves ==
  ASSUME NEW F, NEW K, NEW P \in [Threads -> SUBSET Elements], NEW n \in Nat, Partition(F, K, P, n),
         NEW t \in Threads
  PROVE  /\ \A e : e \in F /\ P[t] = {} => Partition(F \ {e}, K, [P EXCEPT ![t] = {e}], n)
         /\ \A e : e \in K /\ P[t] = {} => Partition(F, K \ {e}, [P EXCEPT ![t] = {e}], n)
         /\ \A e : P[t] = {e} => Partition(F \cup {e}, K, [P EXCEPT ![t] = {}], n)
         /\ \A e : P[t] = {e} => Partition(F, K \cup {e}, [P EXCEPT ![t] = {}], n)
         /\ P[t] = {} => Partition(F, K, [P EXCEPT ![t] = {n + 1}], n + 1)
<1>1. 1..(n + 1) = 1..n \cup {n + 1} /\ n + 1 \notin 1..n
  BY SMT
<1>2. \A u \in Threads : P[u] \subseteq 1..n
  BY DEF Partition
<1>3. ASSUME NEW Q
      PROVE  /\ [P EXCEPT ![t] = Q][t] = Q
             /\ \A u \in Threads : u # t => [P EXCEPT ![t] = Q][u] = P[u]
  OBVIOUS
<1>4. ASSUME NEW Q
      PROVE  UNION {[P EXCEPT ![t] = Q][u] : u \in Threads} = Q \cup UNION {P[u] : u \in Threads \ {t}}
  BY <1>3, SMT
<1>5. UNION {P[u] : u \in Threads} = P[t] \cup UNION {P[u] : u \in Threads \ {t}}
  OBVIOUS
<1>6. ASSUME NEW e, e \in F, P[t] = {} PROVE Partition(F \ {e}, K, [P EXCEPT ![t] = {e}], n)
  <2>1. /\ F \cap K = {} /\ \A u \in Threads : P[u] \cap (F \cup K) = {}
        /\ \A u, v \in Threads : u # v => P[u] \cap P[v] = {}
        /\ F \cup K \cup UNION {P[u] : u \in Threads} = 1..n
    BY DEF Partition
  <2> DEFINE R == [P EXCEPT ![t] = {e}]
  <2>2. R[t] = {e} /\ \A u \in Threads : u # t => R[u] = P[u]
    BY <1>3
  <2>3. UNION {R[u] : u \in Threads} = {e} \cup UNION {P[u] : u \in Threads}
    BY <1>4, <1>5, <1>6
  <2> HIDE DEF R
  <2>4. (F \ {e}) \cup K \cup UNION {R[u] : u \in Threads} = 1..n
    BY <1>6, <2>1, <2>3
  <2>5. \A u \in Threads : R[u] \cap ((F \ {e}) \cup K) = {}
    BY <1>6, <2>1, <2>2, SMT
  <2>6. \A u, v \in Threads : u # v => R[u] \cap R[v] = {}
    BY <1>6, <2>1, <2>2, SMT
  <2>7. QED
    BY <2>1, <2>4, <2>5, <2>6 DEF Partition, R
<1>7. ASSUME NEW e, e \in K, P[t] = {} PROVE Partition(F, K \ {e}, [P EXCEPT ![t] = {e}], n)
  <2>1. /\ F \cap K = {} /\ \A u \in Threads : P[u] \cap (F \cup K) = {}
        /\ \A u, v \in Threads : u # v => P[u] \cap P[v] = {}
        /\ F \cup K \cup UNION {P[u] : u \in Threads} = 1..n
    BY DEF Partition
  <2> DEFINE R == [P EXCEPT ![t] = {e}]
  <2>2. R[t] = {e} /\ \A u \in Threads : u # t => R[u] = P[u]
    BY <1>3
  <2>3. UNION {R[u] : u \in Threads} = {e} \cup UNION {P[u] : u \in Threads}
    BY <1>4, <1>5, <1>7
  <2> HIDE DEF R
  <2>4. F \cup (K \ {e}) \cup UNION {R[u] : u \in Threads} = 1..n
    BY <1>7, <2>1, <2>3
  <2>5. \A u \in Threads : R[u] \cap (F \cup (K \ {e})) = {}
    BY <1>7, <2>1, <2>2
  <2>6. \A u, v \in Threads : u # v => R[u] \cap R[v] = {}
    BY <1>7, <2>1, <2>2, SMT
  <2>7. QED
    BY <2>1, <2>4, <2>5, <2>6 DEF Partition, R
<1>8. ASSUME NEW e, P[t] = {e}
      PROVE  /\ Partition(F \cup {e}, K, [P EXCEPT ![t] = {}], n)
             /\ Partition(F, K \cup {e}, [P EXCEPT ![t] = {}], n)
  <2>1. /\ F \cap K = {} /\ \A u \in Threads : P[u] \cap (F \cup K) = {}
        /\ \A u, v \in Threads : u # v => P[u] \cap P[v] = {}
        /\ F \cup K \cup UNION {P[u] : u \in Threads} = 1..n
    BY DEF Partition
  <2> DEFINE R == [P EXCEPT ![t] = {}]
  <2>2. R[t] = {} /\ \A u \in Threads : u # t => R[u] = P[u]
    BY <1>3
  <2>3. {e} \cup UNION {R[u] : u \in Threads} = UNION {P[u] : u \in Threads}
    BY <1>4, <1>5, <1>8, SMT
  <2> HIDE DEF R
  <2>4. F \cup K \cup {e} \cup UNION {R[u] : u \in Threads} = 1..n
    BY <2>1, <2>3
  <2>5. e \notin F /\ e \notin K /\ \A u \in Threads : e \notin R[u]
    BY <1>8, <2>1, <2>2
  <2>6. /\ \A u \in Threads : R[u] \cap (F \cup K \cup {e}) = {}
        /\ \A u, v \in Threads : u # v => R[u] \cap R[v] = {}
    BY <2>1, <2>2, <2>5
  <2>7. QED
    BY <2>1, <2>4, <2>5, <2>6, SMT DEF Partition, R
<1>9. ASSUME P[t] = {} PROVE Partition(F, K, [P EXCEPT ![t] = {n + 1}], n + 1)
  <2>1. /\ F \cap K = {} /\ \A u \in Threads : P[u] \cap (F \cup K) = {}
        /\ \A u, v \in Threads : u # v => P[u] \cap P[v] = {}
        /\ F \cup K \cup UNION {P[u] : u \in Threads} = 1..n
    BY DEF Partition
  <2> DEFINE R == [P EXCEPT ![t] = {n + 1}]
  <2>2. R[t] = {n + 1} /\ \A u \in Threads : u # t => R[u] = P[u]
    BY <1>3
  <2>3. UNION {R[u] : u \in Threads} = {n + 1} \cup UNION {P[u] : u \in Threads}
    BY <1>4, <1>5, <1>9
  <2> HIDE DEF R
  <2>4. F \cup K \cup UNION {R[u] : u \in Threads} = 1..(n + 1)
    BY <1>1, <2>1, <2>3
  <2>5. n + 1 \notin F \cup K /\ \A u \in Threads : n + 1 \notin P[u]
    BY <1>1, <1>2, <2>1
  <2>6. /\ \A u \in Threads : R[u] \cap (F \cup K) = {}
        /\ \A u, v \in Threads : u # v => R[u] \cap R[v] = {}
    BY <2>1, <2>2, <2>5, SMT
  <2>7. QED
    BY <2>1, <2>4, <2>6 DEF Partition, R
<1>10. QED
  BY <1>6, <1>7, <1>8, <1>9

-----------------------------------------------------------------------------
(* The steps *)

Locals == [se : Pacs, words : Pacs, data : Items \cup {NoItem}, clear : BOOLEAN]
HandLabels == InitLabels \cup PushLabels \cup PoppedLabels
Labels == HandLabels \cup PopLabels \cup {"idle"}
MarkedLabels == (InitLabels \ {"init_count"}) \cup PushLabels
TopLabels == {"pop_next_ptr", "pop_next_cnt", "pop_dcas"}

(* Where the elements go in a step of t to label l and locals r. *)
Places(t, l, r) ==
    \/ /\ fs' = fs /\ element_count' = element_count
       /\ l \in HandLabels <=> pc[t] \in HandLabels
       /\ l \in HandLabels => r.se.ptr = loc[t].se.ptr
    \/ /\ fs # <<>> /\ fs' = SubSeq(fs, 1, Len(fs) - 1) /\ element_count' = element_count
       /\ pc[t] \notin HandLabels /\ l \in HandLabels /\ r.se.ptr = fs[Len(fs)]
    \/ /\ fs' = fs /\ element_count < MaxElements /\ element_count' = element_count + 1
       /\ pc[t] \notin HandLabels /\ l \in HandLabels /\ r.se.ptr = element_count + 1
    \/ /\ fs' = Append(fs, loc[t].se.ptr) /\ element_count' = element_count
       /\ pc[t] \in HandLabels /\ l \notin HandLabels

(* What the locals r of a thread at label l agree with. *)
Agree(l, r, nx, dt) ==
    /\ l \in InitLabels \cup PushLabels => r.data \in Items
    /\ l \in PushLabels => dt[r.se.ptr] \in Items
    /\ l = "push_next_cnt" => nx[r.se.ptr].ptr = r.words.ptr
    /\ l = "push_dcas" => nx[r.se.ptr] = r.words
    /\ l \in PopLabels \ {"pop_ptr"} => r.se.ptr # NULL

AgreeTop(l, r, s, tp, nx) ==
    \A i \in 1..Len(s) : To(tp, nx, s, i) = r.se =>
        /\ l = "pop_next_cnt" => nx[s[i]].ptr = r.words.ptr
        /\ l = "pop_dcas" => nx[s[i]] = r.words

(* A step of t to label l and locals r that leaves ss->top alone and at    *)
(* most changes the element in the thread's hands.                         *)
Step(t, l, r) ==
    /\ pc' = [pc EXCEPT ![t] = l] /\ loc' = [loc EXCEPT ![t] = r]
    /\ top' = top /\ freed' = freed
    /\ next' \in [Elements -> Pacs] /\ data' \in [Elements -> Items \cup {NoItem}]
    /\ \A e \in Elements : e \notin Private(t) => next'[e] = next[e] /\ data'[e] = data[e]
    /\ aba_counter' = aba_counter \/ (aba_counter' = aba_counter + 1 /\ pc[t] = "init_count")
    /\ l \in MarkedLabels => \/ Marked(t) /\ r.se.cnt = loc[t].se.cnt
                             \/ aba_counter' = aba_counter + 1 /\ r.se.cnt = aba_counter'
    /\ l \in TopLabels => \/ HasTop(t) /\ r.se.cnt = loc[t].se.cnt
                          \/ r.se.cnt = top.cnt
    /\ calls' \in [Threads -> Nat] /\ got' \in [Threads -> Seq(Items \cup {NoItem})]
    /\ Places(t, l, r)
    /\ Agree(l, r, next', data') /\ AgreeTop(l, r, Stacked, top, next)

(* The dcas that puts the element of t on the stack. *)
Pushes(t) ==
    /\ pc[t] = "push_dcas" /\ top = loc[t].words
    /\ top' = loc[t].se
    /\ Return(t)
    /\ UNCHANGED <<next, data, aba_counter, fs, element_count, freed, calls, got>>

(* The dcas that takes an element off the stack. *)
Pops(t) ==
    /\ pc[t] = "pop_dcas" /\ top = loc[t].se
    /\ top' = loc[t].words
    /\ pc' = [pc EXCEPT ![t] = "pop_data"]
    /\ UNCHANGED <<next, data, aba_counter, fs, element_count, freed, calls, got, loc>>

Effect(t) == (\E l \in Labels, r \in Locals : Step(t, l, r)) \/ Pushes(t) \/ Pops(t)

(* The stack in terms of its words. *)
LEMMA StackFacts ==
  ASSUME Invariant
  PROVE  /\ Listed(top, next, Stacked) /\ Len(Stacked) \in Nat
         /\ \A i : PacTo(i) = To(top, next, Stacked, i)
         /\ \A i \in 1..Len(Stacked) : Stacked[i] \in Elements
BY SMT DEF Invariant, StackIsList, Listed, PacTo, To

(* What ss->top leads to after a step. *)
LEMMA StackNext ==
  ASSUME WalksFindLists, NEW s, Listed(top', next', s)
  PROVE  /\ Stacked' = s /\ StackIsList'
         /\ \A i : PacTo(i)' = To(top', next', s, i)
<1>1. Stacked' = Walk(next')[MaxElements][top'.ptr]
  BY DEF Stacked, Walk, Body, Pointers
<1>2. Stacked' = s
  BY <1>1 DEF WalksFindLists
<1>3. \A i : PacTo(i)' = To(top', next', s, i)
  BY <1>2 DEF PacTo, To
<1>4. StackIsList'
  BY <1>2, <1>3 DEF StackIsList, Listed
<1>5. QED
  BY <1>2, <1>3, <1>4

(* Two words. *)
LEMMA PacFacts ==
  ASSUME NEW a \in Pacs
  PROVE  /\ a.ptr \in Pointers /\ a.cnt \in Nat
         /\ \A b \in Pacs : a.ptr = b.ptr /\ a.cnt = b.cnt => a = b
         /\ \A p \in Pointers : /\ [a EXCEPT !.ptr = p] \in Pacs
                                /\ [a EXCEPT !.ptr = p].ptr = p /\ [a EXCEPT !.ptr = p].cnt = a.cnt
         /\ \A c \in Nat : /\ [a EXCEPT !.cnt = c] \in Pacs
                           /\ [a EXCEPT !.cnt = c].ptr = a.ptr /\ [a EXCEPT !.cnt = c].cnt = c
BY SMT DEF Pacs, Pac, Pointers

(* What a thread has. *)
LEMMA ThreadFacts ==
  ASSUME Invariant, NEW t \in Threads
  PROVE  /\ pc[t] \in Labels /\ loc[t] \in Locals
         /\ loc[t].se \in Pacs /\ loc[t].words \in Pacs /\ loc[t].data \in Items \cup {NoItem}
         /\ loc = [loc EXCEPT ![t] = loc[t]] /\ pc = [pc EXCEPT ![t] = pc[t]]
         /\ pc[t] \in HandLabels => loc[t].se.ptr \in Elements /\ Private(t) = {loc[t].se.ptr}
         /\ pc[t] \notin HandLabels => Private(t) = {}
         /\ pc[t] \in PopLabels \ {"pop_ptr"} => loc[t].se.ptr \in Elements
         /\ Agree(pc[t], loc[t], next, data) /\ AgreeTop(pc[t], loc[t], Stacked, top, next)
<1>1. pc[t] \in Labels /\ loc[t] \in Locals
  BY DEF Invariant, TypeOK, Labels, Locals, HandLabels
<1>2. loc[t].se \in Pacs /\ loc[t].words \in Pacs /\ loc[t].data \in Items \cup {NoItem}
  BY <1>1 DEF Locals
<1>3. loc = [loc EXCEPT ![t] = loc[t]] /\ pc = [pc EXCEPT ![t] = pc[t]]
  <2>1. pc \in [Threads -> Labels] /\ loc \in [Threads -> Locals]
    BY DEF Invariant, TypeOK, Labels, Locals, HandLabels
  <2>2. QED
    BY <2>1
<1>4. Agree(pc[t], loc[t], next, data)
  BY DEF Invariant, LocalsAgree, Agree
<1>5. AgreeTop(pc[t], loc[t], Stacked, top, next)
  BY StackFacts DEF Invariant, LocalsAgree, AgreeTop
<1>6. /\ pc[t] \in HandLabels => Private(t) = {loc[t].se.ptr}
      /\ pc[t] \notin HandLabels => Private(t) = {}
  BY DEF Private, HandLabels
<1>7. pc[t] \in HandLabels => loc[t].se.ptr \in Elements
  <2>1. Private(t) \subseteq 1..element_count /\ element_count \in 0..MaxElements
    BY DEF Invariant, TypeOK, InOnePlace, Partition
  <2>2. 1..element_count \subseteq Elements
    BY <2>1, StackAssumption, SMT DEF Elements
  <2>3. QED
    BY <1>6, <2>1, <2>2
<1>8. pc[t] \in PopLabels \ {"pop_ptr"} => loc[t].se.ptr \in Elements
  <2>1. \A p \in Pointers : p # NULL => p \in Elements
    BY StackAssumption, SMT DEF Pointers, NULL, Elements
  <2>2. QED
    BY <1>2, <1>4, <2>1, PacFacts DEF Agree
<1>9. QED
  BY <1>1, <1>2, <1>3, <1>4, <1>5, <1>6, <1>7, <1>8

(* Changes of the locals. *)
LEMMA LocalFacts ==
  ASSUME NEW r \in Locals
  PROVE  /\ \A w \in Pacs : /\ [r EXCEPT !.se = w] \in Locals /\ [r EXCEPT !.words = w] \in Locals
                            /\ [r EXCEPT !.se = w].se = w /\ [r EXCEPT !.se = w].words = r.words
                            /\ [r EXCEPT !.se = w].data = r.data
                            /\ [r EXCEPT !.words = w].words = w /\ [r EXCEPT !.words = w].se = r.se
                            /\ [r EXCEPT !.words = w].data = r.data
         /\ \A d \in Items \cup {NoItem} :
                /\ [r EXCEPT !.data = d] \in Locals /\ [r EXCEPT !.data = d].data = d
                /\ [r EXCEPT !.data = d].se = r.se /\ [r EXCEPT !.data = d].words = r.words
         /\ [r EXCEPT !.clear = TRUE] \in Locals /\ [NoLocals EXCEPT !.clear = r.clear] \in Locals
         /\ NoLocals \in Locals
<1>1. NullPac \in Pacs
  BY StackAssumption, SMT DEF NullPac, NULL, Pacs, Pac
<1>2. \A w \in Pacs : /\ [r EXCEPT !.se = w] \in Locals /\ [r EXCEPT !.words = w] \in Locals
                      /\ [r EXCEPT !.se = w].se = w /\ [r EXCEPT !.se = w].words = r.words
                      /\ [r EXCEPT !.se = w].data = r.data
                      /\ [r EXCEPT !.words = w].words = w /\ [r EXCEPT !.words = w].se = r.se
                      /\ [r EXCEPT !.words = w].data = r.data
  BY DEF Locals
<1>3. \A d \in Items \cup {NoItem} :
          /\ [r EXCEPT !.data = d] \in Locals /\ [r EXCEPT !.data = d].data = d
          /\ [r EXCEPT !.data = d].se = r.se /\ [r EXCEPT !.data = d].words = r.words
  BY DEF Locals
<1>4. NoLocals \in Locals
  BY <1>1 DEF NoLocals, Locals
<1>5. r.clear \in BOOLEAN
  BY DEF Locals
<1>6. [r EXCEPT !.clear = TRUE] \in Locals
  BY DEF Locals
<1>7. [NoLocals EXCEPT !.clear = r.clear] \in Locals
  BY <1>4, <1>5 DEF Locals
<1>8. QED
  BY <1>2, <1>3, <1>4, <1>6, <1>7

(* A step that only changes the thread's locals. *)
LEMMA QuietStep ==
  ASSUME Invariant, NEW t \in Threads, NEW l \in Labels, NEW r \in Locals,
         pc' = [pc EXCEPT ![t] = l], loc' = [loc EXCEPT ![t] = r], UNCHANGED memory,
         calls' \in [Threads -> Nat], got' \in [Threads -> Seq(Items \cup {NoItem})],
         l \in HandLabels <=> pc[t] \in HandLabels,
         l \in HandLabels => r.se.ptr = loc[t].se.ptr,
         l \in MarkedLabels => Marked(t) /\ r.se.cnt = loc[t].se.cnt,
         l \in TopLabels => (HasTop(t) /\ r.se.cnt = loc[t].se.cnt) \/ r.se.cnt = top.cnt,
         Agree(l, r, next, data), AgreeTop(l, r, Stacked, top, next)
  PROVE  Effect(t)
<1>1. next \in [Elements -> Pacs] /\ data \in [Elements -> Items \cup {NoItem}]
  BY DEF Invariant, TypeOK
<1>2. /\ top' = top /\ next' = next /\ data' = data /\ aba_counter' = aba_counter /\ fs' = fs
      /\ element_count' = element_count /\ freed' = freed
  BY DEF memory
<1>3. Places(t, l, r)
  BY <1>2 DEF Places
<1>4. Step(t, l, r)
  BY <1>1, <1>2, <1>3 DEF Step
<1>5. QED
  BY <1>4 DEF Effect

(* A call. *)
LEMMA CallFacts ==
  ASSUME Invariant, NEW t \in Threads, NEW o, Call(t, o)
  PROVE  /\ pc[t] = "idle" /\ calls' \in [Threads -> Nat]
         /\ <<t, calls'[t]>> \in Items
<1>1. calls \in [Threads -> Nat] /\ Script[t] \in Seq(SUBSET Operations)
  BY StackAssumption DEF Invariant, TypeOK
<1>2. pc[t] = "idle" /\ calls' = [calls EXCEPT ![t] = calls[t] + 1] /\ calls[t] < Len(Script[t])
  BY DEF Call
<1>3. calls'[t] = calls[t] + 1 /\ calls[t] \in Nat /\ Len(Script[t]) \in Nat
  BY <1>1, <1>2, SMT
<1>4. calls'[t] \in 1..Len(Script[t])
  BY <1>2, <1>3, SMT
<1>5. QED
  BY <1>1, <1>2, <1>4, SMT DEF Items

(* The start of a call. *)
LEMMA BeginEffect ==
  ASSUME Invariant, NEW t \in Threads, Push(t) \/ GuaranteedPush(t) \/ Pop(t) \/ Clear(t)
  PROVE  Effect(t)
<1>1. /\ got \in [Threads -> Seq(Items \cup {NoItem})]
      /\ next \in [Elements -> Pacs] /\ data \in [Elements -> Items \cup {NoItem}]
      /\ fs \in Seq(Elements) /\ element_count \in 0..MaxElements
  BY DEF Invariant, TypeOK
<1>2. /\ loc[t] \in Locals /\ loc[t].se \in Pacs
      /\ loc = [loc EXCEPT ![t] = loc[t]] /\ pc = [pc EXCEPT ![t] = pc[t]]
  BY ThreadFacts
<1>3. PICK o : Call(t, o)
  BY DEF Push, GuaranteedPush, Pop, Clear
<1>4. pc[t] = "idle" /\ calls' \in [Threads -> Nat] /\ <<t, calls'[t]>> \in Items
  BY <1>3, CallFacts
<1>5. /\ "idle" \in Labels /\ "idle" \notin HandLabels \cup MarkedLabels \cup TopLabels
      /\ "pop_ptr" \in Labels /\ "pop_ptr" \notin HandLabels \cup MarkedLabels \cup TopLabels
      /\ "init_count" \in Labels \cap HandLabels /\ "init_count" \notin MarkedLabels \cup TopLabels
  BY DEF Labels, HandLabels, InitLabels, PushLabels, PopLabels, PoppedLabels, MarkedLabels, TopLabels
<1>6. \A r : Agree("idle", r, next, data) /\ Agree("pop_ptr", r, next, data)
  BY DEF Agree, InitLabels, PushLabels, PopLabels
<1>7. \A r, l : l \in {"idle", "pop_ptr", "init_count"} => AgreeTop(l, r, Stacked, top, next)
  BY DEF AgreeTop
<1>8. CASE UNCHANGED <<memory, pc, loc, got>>
  <2>1. pc' = [pc EXCEPT ![t] = "idle"] /\ loc' = [loc EXCEPT ![t] = loc[t]] /\ got' = got /\ UNCHANGED memory
    BY <1>2, <1>4, <1>8
  <2>2. QED
    BY <1>1, <1>2, <1>4, <1>5, <1>6, <1>7, <2>1, QuietStep
<1>9. CASE Pop(t)
  <2>1. /\ pc' = [pc EXCEPT ![t] = "pop_ptr"] /\ loc' = [loc EXCEPT ![t] = loc[t]] /\ got' = got
        /\ UNCHANGED memory
    BY <1>2, <1>9 DEF Pop
  <2>2. QED
    BY <1>1, <1>2, <1>4, <1>5, <1>6, <1>7, <2>1, QuietStep
<1>10. CASE Clear(t)
  <2>1. /\ pc' = [pc EXCEPT ![t] = "pop_ptr"] /\ loc' = [loc EXCEPT ![t] = [loc[t] EXCEPT !.clear = TRUE]]
        /\ got' = got /\ UNCHANGED memory
    BY <1>10 DEF Clear
  <2>2. [loc[t] EXCEPT !.clear = TRUE] \in Locals
    BY <1>2, LocalFacts
  <2>3. QED
    BY <1>1, <1>4, <1>5, <1>6, <1>7, <2>1, <2>2, QuietStep
(* A call that has got an element. *)
<1>11. ASSUME NEW e \in Elements, Begin(t, e),
              \/ /\ fs # <<>> /\ fs' = SubSeq(fs, 1, Len(fs) - 1) /\ e = fs[Len(fs)]
                 /\ element_count' = element_count
              \/ /\ element_count < MaxElements /\ element_count' = element_count + 1
                 /\ e = element_count + 1 /\ fs' = fs
       PROVE  Effect(t)
  <2> DEFINE w == [loc[t].se EXCEPT !.ptr = e]
             q == [loc[t] EXCEPT !.se = w]
             r == [q EXCEPT !.data = <<t, calls'[t]>>]
  <2>1. /\ pc' = [pc EXCEPT ![t] = "init_count"] /\ loc' = [loc EXCEPT ![t] = r]
        /\ top' = top /\ next' = next /\ data' = data /\ aba_counter' = aba_counter /\ freed' = freed
        /\ got' = got
    BY <1>2, <1>11 DEF Begin, Locals
  <2>2. w \in Pacs /\ w.ptr = e
    <3>1. e \in Pointers
      BY StackAssumption, SMT DEF Elements, Pointers
    <3>2. QED
      BY <1>2, <3>1, PacFacts, SMT
  <2> HIDE DEF w
  <2>3. q \in Locals /\ q.se = w
    BY <1>2, <2>2 DEF Locals
  <2> HIDE DEF q
  <2>4. r \in Locals /\ r.se = w /\ r.data = <<t, calls'[t]>>
    BY <1>4, <2>3 DEF Locals
  <2> HIDE DEF r
  <2>5. Agree("init_count", r, next, data)
    BY <1>4, <2>4 DEF Agree, PushLabels, PopLabels
  <2>6. Places(t, "init_count", r)
    BY <1>4, <1>5, <1>11, <2>2, <2>4 DEF Places
  <2>7. Step(t, "init_count", r)
    BY <1>1, <1>4, <1>5, <1>7, <2>1, <2>5, <2>6 DEF Step
  <2>8. QED
    BY <1>5, <2>4, <2>7 DEF Effect
<1>12. CASE Push(t)
  <2>1. CASE fs = <<>>
    BY <1>8, <1>12, <2>1 DEF Push
  <2>2. CASE fs # <<>>
    <3>1. fs[Len(fs)] \in Elements
      BY <1>1, <2>2, EmptySeq, SMT
    <3>2. fs' = SubSeq(fs, 1, Len(fs) - 1) /\ Begin(t, fs[Len(fs)]) /\ element_count' = element_count
      BY <1>12, <2>2 DEF Push
    <3>3. QED
      BY <1>11, <2>2, <3>1, <3>2
  <2>3. QED
    BY <2>1, <2>2
<1>13. CASE GuaranteedPush(t)
  <2>1. CASE UNCHANGED <<memory, pc, loc, got>>
    BY <1>8, <2>1
  <2>2. CASE ~UNCHANGED <<memory, pc, loc, got>>
    <3>1. /\ element_count < MaxElements /\ element_count' = element_count + 1
          /\ Begin(t, element_count + 1) /\ fs' = fs
      BY <1>13, <2>2 DEF GuaranteedPush
    <3>2. element_count + 1 \in Elements
      BY <1>1, <3>1, StackAssumption, SMT DEF Elements
    <3>3. QED
      BY <1>11, <3>1, <3>2
  <2>3. QED
    BY <2>1, <2>2
<1>14. QED
  BY <1>9, <1>10, <1>12, <1>13

(* A store to the next words of the element of a push. *)
LEMMA StoreEffect ==
  ASSUME Invariant, NEW t \in Threads, NEW from \in MarkedLabels, NEW to \in MarkedLabels, NEW w \in Pacs,
         StoreNext(t, from, to, w), Agree(to, loc[t], [next EXCEPT ![loc[t].se.ptr] = w], data)
  PROVE  Effect(t)
<1> DEFINE e == loc[t].se.ptr
<1>1. /\ got \in [Threads -> Seq(Items \cup {NoItem})] /\ calls \in [Threads -> Nat]
      /\ next \in [Elements -> Pacs] /\ data \in [Elements -> Items \cup {NoItem}]
  BY DEF Invariant, TypeOK
<1>2. MarkedLabels \subseteq HandLabels /\ HandLabels \subseteq Labels /\ MarkedLabels \cap TopLabels = {}
  BY DEF MarkedLabels, TopLabels, HandLabels, Labels, InitLabels, PushLabels
<1>3. /\ pc[t] = from /\ pc' = [pc EXCEPT ![t] = to] /\ next' = [next EXCEPT ![e] = w]
      /\ top' = top /\ data' = data /\ aba_counter' = aba_counter /\ fs' = fs
      /\ element_count' = element_count /\ freed' = freed /\ loc' = loc /\ calls' = calls /\ got' = got
  BY DEF StoreNext, Goto
<1>4. /\ loc[t] \in Locals /\ loc' = [loc EXCEPT ![t] = loc[t]] /\ e \in Elements /\ Private(t) = {e}
  BY <1>2, <1>3, ThreadFacts
<1>5. Marked(t)
  BY <1>3 DEF Marked, MarkedLabels
<1>6. next' \in [Elements -> Pacs] /\ \A x \in Elements : x \notin Private(t) => next'[x] = next[x]
  BY <1>1, <1>3, <1>4
<1>7. Places(t, to, loc[t])
  BY <1>2, <1>3 DEF Places
<1>8. AgreeTop(to, loc[t], Stacked, top, next)
  BY DEF AgreeTop, MarkedLabels, InitLabels, PushLabels
<1>9. Agree(to, loc[t], next', data')
  BY <1>3
<1> HIDE DEF e
<1>10. Step(t, to, loc[t])
  BY <1>1, <1>2, <1>3, <1>4, <1>5, <1>6, <1>7, <1>8, <1>9 DEF Step
<1>11. QED
  BY <1>2, <1>4, <1>10 DEF Effect

(* stack_internal_init_element *)
LEMMA InitEffect ==
  ASSUME Invariant, NEW t \in Threads, InitCount(t) \/ InitNextPointer(t) \/ InitNextCounter(t) \/ InitData(t)
  PROVE  Effect(t)
<1>1. /\ got \in [Threads -> Seq(Items \cup {NoItem})] /\ calls \in [Threads -> Nat]
      /\ next \in [Elements -> Pacs] /\ data \in [Elements -> Items \cup {NoItem}] /\ aba_counter \in Nat
  BY DEF Invariant, TypeOK
<1>2. /\ InitLabels \subseteq HandLabels /\ "push_ptr" \in HandLabels /\ HandLabels \subseteq Labels
      /\ {"init_next_ptr", "init_next_cnt", "init_data", "push_ptr"} \subseteq MarkedLabels
      /\ InitLabels \cap TopLabels = {} /\ "push_ptr" \notin TopLabels
      /\ {"init_count", "init_next_ptr", "init_next_cnt", "init_data"} \subseteq InitLabels
  BY DEF MarkedLabels, TopLabels, HandLabels, Labels, InitLabels, PushLabels
<1>3. /\ loc[t] \in Locals /\ loc = [loc EXCEPT ![t] = loc[t]] /\ loc[t].se \in Pacs
      /\ pc[t] \in HandLabels => loc[t].se.ptr \in Elements /\ Private(t) = {loc[t].se.ptr}
      /\ Agree(pc[t], loc[t], next, data)
  BY ThreadFacts
<1>4. \A l, r, nx, dt : l \in InitLabels /\ r.data \in Items => Agree(l, r, nx, dt)
  BY DEF Agree, InitLabels, PushLabels, PopLabels
<1>5. \A l, r : l \in InitLabels \cup {"push_ptr"} => AgreeTop(l, r, Stacked, top, next)
  BY DEF AgreeTop, InitLabels
<1>6. pc[t] \in InitLabels => loc[t].data \in Items
  BY <1>3 DEF Agree
<1>7. CASE InitCount(t)
  <2> DEFINE n == aba_counter + 1
             w == [loc[t].se EXCEPT !.cnt = n]
             r == [loc[t] EXCEPT !.se = w]
  <2>1. /\ pc[t] = "init_count" /\ pc' = [pc EXCEPT ![t] = "init_next_ptr"]
        /\ aba_counter' = n /\ loc' = [loc EXCEPT ![t] = r]
        /\ top' = top /\ next' = next /\ data' = data /\ fs' = fs /\ element_count' = element_count
        /\ freed' = freed /\ calls' = calls /\ got' = got
    BY <1>7 DEF InitCount, Goto, abstraction_increment
  <2>2. n \in Nat
    BY <1>1, SMT
  <2>3. w \in Pacs /\ w.ptr = loc[t].se.ptr /\ w.cnt = n
    BY <1>3, <2>2, PacFacts
  <2> HIDE DEF w
  <2>4. r \in Locals /\ r.se = w /\ r.data = loc[t].data
    BY <1>3, <2>3 DEF Locals
  <2> HIDE DEF r
  <2>5. Places(t, "init_next_ptr", r)
    BY <1>2, <2>1, <2>3, <2>4 DEF Places
  <2>6. Agree("init_next_ptr", r, next', data')
    BY <1>2, <1>4, <1>6, <2>1, <2>4
  <2>7. Step(t, "init_next_ptr", r)
    BY <1>1, <1>2, <1>5, <2>1, <2>3, <2>4, <2>5, <2>6 DEF Step
  <2>8. QED
    BY <1>2, <2>4, <2>7 DEF Effect
<1>8. CASE InitNextPointer(t)
  <2> DEFINE w == [next[loc[t].se.ptr] EXCEPT !.ptr = NULL]
  <2>1. StoreNext(t, "init_next_ptr", "init_next_cnt", w) /\ pc[t] = "init_next_ptr"
    BY <1>8 DEF InitNextPointer, StoreNext, Goto
  <2>2. w \in Pacs
    <3>1. next[loc[t].se.ptr] \in Pacs /\ NULL \in Pointers
      BY <1>1, <1>2, <1>3, <2>1, StackAssumption, SMT DEF NULL, Pointers
    <3>2. QED
      BY <3>1, PacFacts
  <2> HIDE DEF w
  <2>3. QED
    BY <1>2, <1>4, <1>6, <2>1, <2>2, StoreEffect
<1>9. CASE InitNextCounter(t)
  <2> DEFINE w == [next[loc[t].se.ptr] EXCEPT !.cnt = 0]
  <2>1. StoreNext(t, "init_next_cnt", "init_data", w) /\ pc[t] = "init_next_cnt"
    BY <1>9 DEF InitNextCounter, StoreNext, Goto
  <2>2. w \in Pacs
    <3>1. next[loc[t].se.ptr] \in Pacs /\ 0 \in Nat
      BY <1>1, <1>2, <1>3, <2>1
    <3>2. QED
      BY <3>1, PacFacts
  <2> HIDE DEF w
  <2>3. QED
    BY <1>2, <1>4, <1>6, <2>1, <2>2, StoreEffect
<1>10. CASE InitData(t)
  <2> DEFINE e == loc[t].se.ptr
  <2>1. /\ pc[t] = "init_data" /\ pc' = [pc EXCEPT ![t] = "push_ptr"]
        /\ data' = [data EXCEPT ![e] = loc[t].data]
        /\ top' = top /\ next' = next /\ aba_counter' = aba_counter /\ fs' = fs
        /\ element_count' = element_count /\ freed' = freed /\ loc' = loc /\ calls' = calls /\ got' = got
    BY <1>10 DEF InitData, Goto
  <2>2. e \in Elements /\ Private(t) = {e} /\ loc[t].data \in Items /\ Marked(t)
    BY <1>2, <1>3, <1>6, <2>1 DEF Marked, InitLabels
  <2> HIDE DEF e
  <2>3. /\ data' \in [Elements -> Items \cup {NoItem}] /\ data'[e] \in Items
        /\ \A x \in Elements : x \notin Private(t) => data'[x] = data[x]
    BY <1>1, <2>1, <2>2
  <2>4. Agree("push_ptr", loc[t], next', data')
    BY <2>2, <2>3 DEF Agree, InitLabels, PopLabels, e
  <2>5. Places(t, "push_ptr", loc[t])
    BY <1>2, <2>1 DEF Places
  <2>6. loc' = [loc EXCEPT ![t] = loc[t]]
    BY <1>3, <2>1
  <2>7. Step(t, "push_ptr", loc[t])
    BY <1>1, <1>2, <1>5, <2>1, <2>2, <2>3, <2>4, <2>5, <2>6 DEF Step
  <2>8. QED
    BY <1>2, <1>3, <2>7 DEF Effect
<1>11. QED
  BY <1>7, <1>8, <1>9, <1>10

(* A dcas on ss->top. *)
LEMMA DcasFacts ==
  ASSUME NEW d, NEW x, NEW c
  PROVE  /\ d = c => abstraction_dcas(d, x, c) = [result |-> 1, destination |-> x, compare |-> d]
         /\ d # c => abstraction_dcas(d, x, c) = [result |-> 0, destination |-> d, compare |-> d]
BY DEF abstraction_dcas

(* The dcas of a pop takes the element, or finds other words and retries. *)
LEMMA PopDcasTries ==
  ASSUME NEW t \in Threads, PopDcas(t)
  PROVE  \/ Pops(t)
         \/ /\ top # loc[t].se /\ pc[t] = "pop_dcas" /\ PopLoop(t, top, "pop_next_ptr")
            /\ UNCHANGED memory /\ calls' = calls
<1>1. CASE top = loc[t].se
  BY <1>1 DEF PopDcas, abstraction_dcas, Pops
<1>2. CASE top # loc[t].se
  BY <1>2, SMT DEF PopDcas, abstraction_dcas, memory
<1>3. QED
  BY <1>1, <1>2

(* stack_internal_push *)
LEMMA PushEffect ==
  ASSUME Invariant, NEW t \in Threads,
         \/ PushReadPointer(t) \/ PushReadCounter(t)
         \/ PushWriteNextPointer(t) \/ PushWriteNextCounter(t) \/ PushDcas(t)
  PROVE  Effect(t)
<1>1. /\ got \in [Threads -> Seq(Items \cup {NoItem})] /\ calls \in [Threads -> Nat]
      /\ next \in [Elements -> Pacs] /\ data \in [Elements -> Items \cup {NoItem}] /\ top \in Pacs
  BY DEF Invariant, TypeOK
<1>2. /\ PushLabels \subseteq HandLabels /\ HandLabels \subseteq Labels /\ PushLabels \subseteq MarkedLabels
      /\ PushLabels \cap TopLabels = {}
      /\ {"push_ptr", "push_cnt", "push_next_ptr", "push_next_cnt", "push_dcas"} \subseteq PushLabels
  BY DEF MarkedLabels, TopLabels, HandLabels, Labels, InitLabels, PushLabels
<1>3. /\ loc[t] \in Locals /\ loc = [loc EXCEPT ![t] = loc[t]] /\ loc[t].se \in Pacs /\ loc[t].words \in Pacs
      /\ pc[t] \in HandLabels => loc[t].se.ptr \in Elements
      /\ Agree(pc[t], loc[t], next, data)
  BY ThreadFacts
<1>4. pc[t] \in PushLabels => /\ loc[t].data \in Items /\ data[loc[t].se.ptr] \in Items /\ Marked(t)
                              /\ loc[t].se.ptr \in Elements
  BY <1>2, <1>3 DEF Agree, Marked
<1>5. \A l, r, nx, dt :
          l \in {"push_ptr", "push_cnt", "push_next_ptr"} /\ r.data \in Items /\ dt[r.se.ptr] \in Items
              => Agree(l, r, nx, dt)
  BY SMT DEF Agree, InitLabels, PushLabels, PopLabels
<1>6. \A l, r : l \in PushLabels => AgreeTop(l, r, Stacked, top, next)
  BY DEF AgreeTop, PushLabels
(* A read of ss->top. *)
<1>7. ASSUME NEW l \in {"push_cnt", "push_next_ptr"}, NEW w \in Pacs, pc[t] \in PushLabels,
             pc' = [pc EXCEPT ![t] = l], loc' = [loc EXCEPT ![t] = [loc[t] EXCEPT !.words = w]],
             UNCHANGED memory, calls' = calls, got' = got
      PROVE  Effect(t)
  <2> DEFINE r == [loc[t] EXCEPT !.words = w]
  <2>1. r \in Locals /\ r.se = loc[t].se /\ r.data = loc[t].data
    BY <1>3, <1>7, LocalFacts
  <2>2. loc' = [loc EXCEPT ![t] = r]
    BY <1>7
  <2> HIDE DEF r
  <2>3. Agree(l, r, next, data)
    BY <1>4, <1>5, <1>7, <2>1
  <2>4. l \in PushLabels
    BY <1>2, <1>7
  <2>5. QED
    BY <1>1, <1>2, <1>4, <1>6, <1>7, <2>1, <2>2, <2>3, <2>4, QuietStep
<1>8. CASE PushReadPointer(t)
  <2> DEFINE w == [loc[t].words EXCEPT !.ptr = top.ptr]
  <2>1. /\ pc[t] = "push_ptr" /\ pc' = [pc EXCEPT ![t] = "push_cnt"]
        /\ loc' = [loc EXCEPT ![t] = [loc[t] EXCEPT !.words = w]]
        /\ UNCHANGED memory /\ calls' = calls /\ got' = got
    BY <1>8 DEF PushReadPointer, Local, Goto
  <2>2. w \in Pacs
    BY <1>1, <1>3, PacFacts
  <2> HIDE DEF w
  <2>3. QED
    BY <1>2, <1>7, <2>1, <2>2
<1>9. CASE PushReadCounter(t)
  <2> DEFINE w == [loc[t].words EXCEPT !.cnt = top.cnt]
  <2>1. /\ pc[t] = "push_cnt" /\ pc' = [pc EXCEPT ![t] = "push_next_ptr"]
        /\ loc' = [loc EXCEPT ![t] = [loc[t] EXCEPT !.words = w]]
        /\ UNCHANGED memory /\ calls' = calls /\ got' = got
    BY <1>9 DEF PushReadCounter, Local, Goto
  <2>2. w \in Pacs
    BY <1>1, <1>3, PacFacts
  <2> HIDE DEF w
  <2>3. QED
    BY <1>2, <1>7, <2>1, <2>2
<1>10. CASE PushWriteNextPointer(t)
  <2> DEFINE e == loc[t].se.ptr
             w == [next[e] EXCEPT !.ptr = loc[t].words.ptr]
  <2>1. StoreNext(t, "push_next_ptr", "push_next_cnt", w) /\ pc[t] = "push_next_ptr"
    BY <1>10 DEF PushWriteNextPointer, StoreNext, Goto
  <2>2. w \in Pacs /\ w.ptr = loc[t].words.ptr
    <3>1. next[e] \in Pacs /\ loc[t].words.ptr \in Pointers
      BY <1>1, <1>2, <1>3, <1>4, <2>1, PacFacts
    <3>2. QED
      BY <3>1, PacFacts, SMT
  <2> HIDE DEF w
  <2>3. [next EXCEPT ![e] = w][e] = w
    BY <1>1, <1>2, <1>4, <2>1
  <2>4. Agree("push_next_cnt", loc[t], [next EXCEPT ![e] = w], data)
    BY <1>2, <1>4, <2>1, <2>2, <2>3 DEF Agree, PopLabels
  <2>5. QED
    BY <1>2, <2>1, <2>2, <2>4, StoreEffect
<1>11. CASE PushWriteNextCounter(t)
  <2> DEFINE e == loc[t].se.ptr
             w == [next[e] EXCEPT !.cnt = loc[t].words.cnt]
  <2>1. StoreNext(t, "push_next_cnt", "push_dcas", w) /\ pc[t] = "push_next_cnt"
    BY <1>11 DEF PushWriteNextCounter, StoreNext, Goto
  <2>2. next[e].ptr = loc[t].words.ptr
    BY <1>3, <2>1 DEF Agree
  <2>3. w \in Pacs /\ w = loc[t].words
    <3>1. next[e] \in Pacs /\ loc[t].words.cnt \in Nat
      BY <1>1, <1>2, <1>3, <1>4, <2>1, PacFacts
    <3>2. w \in Pacs /\ w.ptr = next[e].ptr /\ w.cnt = loc[t].words.cnt
      BY <3>1, PacFacts, SMT
    <3> HIDE DEF w
    <3>3. QED
      BY <1>3, <2>2, <3>2, PacFacts, SMT
  <2> HIDE DEF w
  <2>4. [next EXCEPT ![e] = w][e] = w
    BY <1>1, <1>2, <1>4, <2>1
  <2>5. Agree("push_dcas", loc[t], [next EXCEPT ![e] = w], data)
    BY <1>2, <1>4, <2>1, <2>3, <2>4 DEF Agree, PopLabels
  <2>6. QED
    BY <1>2, <2>1, <2>3, <2>5, StoreEffect
<1>12. CASE PushDcas(t)
  <2> DEFINE d == abstraction_dcas(top, loc[t].se, loc[t].words)
  <2>1. /\ pc[t] = "push_dcas" /\ top' = d.destination
        /\ d.result = 1 => Return(t)
        /\ d.result # 1 => /\ pc' = [pc EXCEPT ![t] = "push_next_ptr"]
                           /\ loc' = [loc EXCEPT ![t] = [loc[t] EXCEPT !.words = d.compare]]
        /\ UNCHANGED <<next, data, aba_counter, fs, element_count, freed, calls, got>>
    BY <1>12 DEF PushDcas
  <2>2. /\ top = loc[t].words => d.result = 1 /\ d.destination = loc[t].se
        /\ top # loc[t].words => d.result = 0 /\ d.destination = top /\ d.compare = top
    BY DcasFacts, SMT
  <2> HIDE DEF d
  <2>3. CASE top = loc[t].words
    BY <2>1, <2>2, <2>3 DEF Effect, Pushes
  <2>4. CASE top # loc[t].words
    <3>1. /\ pc' = [pc EXCEPT ![t] = "push_next_ptr"]
          /\ loc' = [loc EXCEPT ![t] = [loc[t] EXCEPT !.words = top]]
          /\ UNCHANGED memory /\ calls' = calls /\ got' = got
      BY <2>1, <2>2, <2>4, SMT DEF memory
    <3>2. QED
      BY <1>1, <1>2, <1>7, <2>1, <3>1
  <2>5. QED
    BY <2>3, <2>4
<1>13. QED
  BY <1>8, <1>9, <1>10, <1>11, <1>12

(* stack_pop *)
LEMMA PopEffect ==
  ASSUME Invariant, NEW t \in Threads,
         \/ PopReadPointer(t) \/ PopReadCounter(t) \/ PopLoadNextPointer(t) \/ PopLoadNextCounter(t)
         \/ PopDcas(t) \/ PopReadData(t) \/ PopFree(t)
  PROVE  Effect(t)
<1>1. /\ got \in [Threads -> Seq(Items \cup {NoItem})] /\ calls \in [Threads -> Nat]
      /\ next \in [Elements -> Pacs] /\ data \in [Elements -> Items \cup {NoItem}] /\ top \in Pacs
  BY DEF Invariant, TypeOK
<1>2. /\ PopLabels \subseteq Labels /\ PopLabels \cap HandLabels = {} /\ PopLabels \cap MarkedLabels = {}
      /\ TopLabels \subseteq PopLabels /\ "pop_cnt" \notin TopLabels
      /\ {"pop_ptr", "pop_cnt", "pop_next_ptr", "pop_next_cnt", "pop_dcas"} \subseteq PopLabels
      /\ {"pop_next_ptr", "pop_next_cnt", "pop_dcas"} \subseteq TopLabels
      /\ "idle" \in Labels /\ "idle" \notin HandLabels \cup MarkedLabels \cup TopLabels
      /\ {"pop_data", "pop_free"} \subseteq HandLabels /\ HandLabels \subseteq Labels
      /\ {"pop_data", "pop_free"} \cap (MarkedLabels \cup TopLabels) = {}
  BY DEF MarkedLabels, TopLabels, HandLabels, Labels, InitLabels, PushLabels, PopLabels, PoppedLabels
<1>3. /\ loc[t] \in Locals /\ loc = [loc EXCEPT ![t] = loc[t]] /\ loc[t].se \in Pacs /\ loc[t].words \in Pacs
      /\ pc[t] \in HandLabels => loc[t].se.ptr \in Elements
      /\ Agree(pc[t], loc[t], next, data) /\ AgreeTop(pc[t], loc[t], Stacked, top, next)
      /\ NoLocals \in Locals
      /\ pc[t] \in PopLabels \ {"pop_ptr"} => loc[t].se.ptr \in Elements /\ loc[t].se.ptr # NULL
  BY ThreadFacts, LocalFacts DEF Agree
<1>4. /\ \A r, nx, dt : Agree("idle", r, nx, dt) /\ Agree("pop_ptr", r, nx, dt) /\ Agree("pop_free", r, nx, dt)
      /\ \A l, r, nx, dt : l \in PopLabels /\ r.se.ptr # NULL => Agree(l, r, nx, dt)
  BY DEF Agree, InitLabels, PushLabels, PopLabels
<1>5. \A l, r, s, tp, nx : l \notin {"pop_next_cnt", "pop_dcas"} => AgreeTop(l, r, s, tp, nx)
  BY DEF AgreeTop
(* The test at the head of the loop. *)
<1>6. ASSUME NEW w \in Pacs, NEW l \in {"pop_cnt", "pop_next_ptr"}, pc[t] \in PopLabels,
             PopLoop(t, w, l), l \in TopLabels => w.cnt = top.cnt, UNCHANGED memory, calls' = calls
      PROVE  Effect(t)
  <2>1. CASE w.ptr = NULL
    <3>1. /\ pc' = [pc EXCEPT ![t] = "idle"] /\ loc' = [loc EXCEPT ![t] = NoLocals]
          /\ got' = [got EXCEPT ![t] = Append(got[t], NoItem)]
      BY <1>6, <2>1 DEF PopLoop, Return
    <3>2. got' \in [Threads -> Seq(Items \cup {NoItem})]
      BY <1>1, <3>1, SMT
    <3>3. QED
      BY <1>1, <1>2, <1>3, <1>4, <1>5, <1>6, <3>1, <3>2, QuietStep
  <2>2. CASE w.ptr # NULL
    <3> DEFINE r == [loc[t] EXCEPT !.se = w]
    <3>1. /\ pc' = [pc EXCEPT ![t] = l] /\ loc' = [loc EXCEPT ![t] = r] /\ got' = got
      BY <1>6, <2>2 DEF PopLoop
    <3>2. r \in Locals /\ r.se = w
      BY <1>3 DEF Locals
    <3> HIDE DEF r
    <3>3. l \in PopLabels /\ l \notin {"pop_next_cnt", "pop_dcas"}
      BY <1>2, <1>6
    <3>4. Agree(l, r, next, data) /\ AgreeTop(l, r, Stacked, top, next)
      BY <1>4, <1>5, <2>2, <3>2, <3>3
    <3>5. QED
      BY <1>1, <1>2, <1>6, <3>1, <3>2, <3>3, <3>4, QuietStep
  <2>3. QED
    BY <2>1, <2>2
<1>7. CASE PopReadPointer(t)
  <2> DEFINE w == [loc[t].se EXCEPT !.ptr = top.ptr]
  <2>1. pc[t] = "pop_ptr" /\ PopLoop(t, w, "pop_cnt") /\ UNCHANGED memory /\ calls' = calls
    BY <1>7 DEF PopReadPointer
  <2>2. w \in Pacs
    BY <1>1, <1>3, PacFacts
  <2> HIDE DEF w
  <2>3. QED
    BY <1>2, <1>6, <2>1, <2>2
<1>8. CASE PopReadCounter(t)
  <2> DEFINE w == [loc[t].se EXCEPT !.cnt = top.cnt]
             r == [loc[t] EXCEPT !.se = w]
  <2>1. /\ pc[t] = "pop_cnt" /\ pc' = [pc EXCEPT ![t] = "pop_next_ptr"] /\ loc' = [loc EXCEPT ![t] = r]
        /\ UNCHANGED memory /\ calls' = calls /\ got' = got
    BY <1>8 DEF PopReadCounter, Local, Goto
  <2>2. w \in Pacs /\ w.ptr = loc[t].se.ptr /\ w.cnt = top.cnt
    BY <1>1, <1>3, PacFacts, SMT
  <2> HIDE DEF w
  <2>3. r \in Locals /\ r.se = w
    BY <1>3, <2>2, LocalFacts
  <2> HIDE DEF r
  <2>4. Agree("pop_next_ptr", r, next, data) /\ AgreeTop("pop_next_ptr", r, Stacked, top, next)
    BY <1>2, <1>3, <1>4, <1>5, <2>1, <2>2, <2>3
  <2>5. QED
    BY <1>1, <1>2, <2>1, <2>2, <2>3, <2>4, QuietStep
(* The loads of the next words. *)
<1>9. CASE PopLoadNextPointer(t)
  <2> DEFINE e == loc[t].se.ptr
             w == [loc[t].words EXCEPT !.ptr = next[e].ptr]
             r == [loc[t] EXCEPT !.words = w]
  <2>1. /\ pc[t] = "pop_next_ptr" /\ pc' = [pc EXCEPT ![t] = "pop_next_cnt"] /\ loc' = [loc EXCEPT ![t] = r]
        /\ UNCHANGED memory /\ calls' = calls /\ got' = got
    BY <1>9 DEF PopLoadNextPointer, Local, Goto
  <2>2. e \in Elements /\ e # NULL /\ HasTop(t)
    BY <1>2, <1>3, <2>1 DEF HasTop
  <2>3. w \in Pacs /\ w.ptr = next[e].ptr
    <3>1. next[e].ptr \in Pointers
      BY <1>1, <2>2, PacFacts
    <3>2. QED
      BY <1>3, <3>1, PacFacts, SMT
  <2> HIDE DEF w
  <2>4. r \in Locals /\ r.se = loc[t].se /\ r.words = w
    BY <1>3, <2>3 DEF Locals
  <2> HIDE DEF r
  <2>5. Agree("pop_next_cnt", r, next, data)
    BY <1>2, <1>4, <2>2, <2>4
  <2>6. AgreeTop("pop_next_cnt", r, Stacked, top, next)
    <3>1. \A i \in 1..Len(Stacked) : To(top, next, Stacked, i).ptr = Stacked[i]
      <4>1. Listed(top, next, Stacked)
        BY StackFacts
      <4>2. QED
        BY <4>1 DEF Listed
    <3>2. QED
      BY <2>3, <2>4, <3>1 DEF AgreeTop
  <2>7. QED
    BY <1>1, <1>2, <2>1, <2>2, <2>4, <2>5, <2>6, QuietStep
<1>10. CASE PopLoadNextCounter(t)
  <2> DEFINE e == loc[t].se.ptr
             w == [loc[t].words EXCEPT !.cnt = next[e].cnt]
             r == [loc[t] EXCEPT !.words = w]
  <2>1. /\ pc[t] = "pop_next_cnt" /\ pc' = [pc EXCEPT ![t] = "pop_dcas"] /\ loc' = [loc EXCEPT ![t] = r]
        /\ UNCHANGED memory /\ calls' = calls /\ got' = got
    BY <1>10 DEF PopLoadNextCounter, Local, Goto
  <2>2. e \in Elements /\ e # NULL /\ HasTop(t) /\ next[e] \in Pacs
    BY <1>1, <1>2, <1>3, <2>1 DEF HasTop
  <2>3. w \in Pacs /\ w.ptr = loc[t].words.ptr /\ w.cnt = next[e].cnt
    <3>1. next[e].cnt \in Nat
      BY <2>2, PacFacts
    <3>2. QED
      BY <1>3, <3>1, PacFacts, SMT
  <2> HIDE DEF w
  <2>4. r \in Locals /\ r.se = loc[t].se /\ r.words = w
    BY <1>3, <2>3 DEF Locals
  <2> HIDE DEF r
  <2>5. Agree("pop_dcas", r, next, data)
    BY <1>2, <1>4, <2>2, <2>4
  <2>6. AgreeTop("pop_dcas", r, Stacked, top, next)
    <3>1. \A i \in 1..Len(Stacked) : To(top, next, Stacked, i).ptr = Stacked[i]
      BY StackFacts DEF Listed
    <3>2. SUFFICES ASSUME NEW i \in 1..Len(Stacked), To(top, next, Stacked, i) = r.se
                   PROVE  next[Stacked[i]] = r.words
      BY DEF AgreeTop
    <3>3. Stacked[i] = e
      BY <2>4, <3>1, <3>2
    <3>4. next[Stacked[i]].ptr = loc[t].words.ptr
      BY <1>3, <2>1, <2>4, <3>2 DEF AgreeTop
    <3>5. next[e] = w
      BY <2>2, <2>3, <3>3, <3>4, PacFacts, SMT
    <3>6. QED
      BY <2>4, <3>3, <3>5
  <2>7. QED
    BY <1>1, <1>2, <2>1, <2>2, <2>4, <2>5, <2>6, QuietStep
<1>11. CASE PopDcas(t)
  <2>1. CASE Pops(t)
    BY <2>1 DEF Effect
  <2>2. CASE /\ pc[t] = "pop_dcas" /\ PopLoop(t, top, "pop_next_ptr")
             /\ UNCHANGED memory /\ calls' = calls
    BY <1>1, <1>2, <1>6, <2>2
  <2>3. QED
    BY <1>11, <2>1, <2>2, PopDcasTries
<1>12. CASE PopReadData(t)
  <2> DEFINE r == [loc[t] EXCEPT !.data = data[loc[t].se.ptr]]
  <2>1. /\ pc[t] = "pop_data" /\ pc' = [pc EXCEPT ![t] = "pop_free"] /\ loc' = [loc EXCEPT ![t] = r]
        /\ UNCHANGED memory /\ calls' = calls /\ got' = got
    BY <1>12 DEF PopReadData, Local, Goto
  <2>2. data[loc[t].se.ptr] \in Items \cup {NoItem}
    BY <1>1, <1>2, <1>3, <2>1
  <2>3. r \in Locals /\ r.se = loc[t].se
    BY <1>3, <2>2, LocalFacts
  <2> HIDE DEF r
  <2>4. QED
    BY <1>1, <1>2, <1>4, <1>5, <2>1, <2>3, QuietStep
<1>13. CASE PopFree(t)
  <2> DEFINE r == [NoLocals EXCEPT !.clear = loc[t].clear]
  <2>1. PICK l \in {"pop_ptr", "idle"} : pc' = [pc EXCEPT ![t] = l]
    BY <1>13 DEF PopFree
  <2>2. /\ pc[t] = "pop_free" /\ fs' = Append(fs, loc[t].se.ptr)
        /\ got' = [got EXCEPT ![t] = Append(got[t], loc[t].data)]
        /\ loc' = [loc EXCEPT ![t] = r]
        /\ UNCHANGED <<top, next, data, aba_counter, element_count, freed, calls>>
    BY <1>13 DEF PopFree
  <2>3. r \in Locals
    BY <1>3, LocalFacts
  <2> HIDE DEF r
  <2>4. got' \in [Threads -> Seq(Items \cup {NoItem})]
    <3>1. loc[t].data \in Items \cup {NoItem}
      BY ThreadFacts
    <3>2. QED
      BY <1>1, <2>2, <3>1, SMT
  <2>5. l \in Labels /\ l \notin HandLabels \cup MarkedLabels \cup TopLabels \cup {"pop_next_cnt", "pop_dcas"}
    BY <1>2, <2>1 DEF TopLabels
  <2>6. Places(t, l, r)
    BY <1>2, <2>2, <2>5 DEF Places
  <2>7. Agree(l, r, next', data') /\ AgreeTop(l, r, Stacked, top, next)
    BY <1>4, <1>5, <2>1, <2>5
  <2>8. Step(t, l, r)
    BY <1>1, <2>1, <2>2, <2>4, <2>5, <2>6, <2>7 DEF Step
  <2>9. QED
    BY <2>3, <2>5, <2>8 DEF Effect
<1>14. QED
  BY <1>7, <1>8, <1>9, <1>10, <1>11, <1>12, <1>13

-----------------------------------------------------------------------------
(* The invariant is inductive *)

(* A step of t leaves the other threads where they are. *)
LEMMA OtherThreads ==
  ASSUME Invariant, NEW t \in Threads, NEW l \in Labels, NEW r \in Locals,
         pc' = [pc EXCEPT ![t] = l], loc' = [loc EXCEPT ![t] = r]
  PROVE  /\ pc' \in [Threads -> Labels] /\ loc' \in [Threads -> Locals]
         /\ pc'[t] = l /\ loc'[t] = r
         /\ \A u \in Threads \ {t} : pc'[u] = pc[u] /\ loc'[u] = loc[u] /\ Private(u)' = Private(u)
         /\ Private(t)' = IF l \in HandLabels THEN {r.se.ptr} ELSE {}
<1>1. pc \in [Threads -> Labels] /\ loc \in [Threads -> Locals]
  BY DEF Invariant, TypeOK, Labels, Locals, HandLabels
<1>2. /\ pc' \in [Threads -> Labels] /\ loc' \in [Threads -> Locals]
      /\ pc'[t] = l /\ loc'[t] = r
      /\ \A u \in Threads \ {t} : pc'[u] = pc[u] /\ loc'[u] = loc[u]
  BY <1>1
<1>3. \A u \in Threads \ {t} : Private(u)' = Private(u)
  BY <1>2 DEF Private
<1>4. Private(t)' = IF l \in HandLabels THEN {r.se.ptr} ELSE {}
  BY <1>2 DEF Private, HandLabels
<1>5. QED
  BY <1>2, <1>3, <1>4

(* What a step that is neither a push nor a pop does to the threads. *)
LEMMA StepMoves ==
  ASSUME Invariant, NEW t \in Threads, NEW l \in Labels, NEW r \in Locals, Step(t, l, r)
  PROVE  /\ pc' \in [Threads -> Labels] /\ loc' \in [Threads -> Locals]
         /\ pc'[t] = l /\ loc'[t] = r
         /\ \A u \in Threads \ {t} : pc'[u] = pc[u] /\ loc'[u] = loc[u] /\ Private(u)' = Private(u)
         /\ Private(t)' = IF l \in HandLabels THEN {r.se.ptr} ELSE {}
<1>1. pc' = [pc EXCEPT ![t] = l] /\ loc' = [loc EXCEPT ![t] = r]
  BY DEF Step
<1>2. QED
  BY <1>1, OtherThreads

(* A push leaves its thread with nothing. *)
LEMMA PushesMoves ==
  ASSUME Invariant, NEW t \in Threads, Pushes(t)
  PROVE  /\ pc' \in [Threads -> Labels] /\ loc' \in [Threads -> Locals]
         /\ pc'[t] = "idle" /\ Private(t)' = {}
         /\ \A u \in Threads \ {t} : pc'[u] = pc[u] /\ loc'[u] = loc[u] /\ Private(u)' = Private(u)
<1>1. pc' = [pc EXCEPT ![t] = "idle"] /\ loc' = [loc EXCEPT ![t] = NoLocals]
  BY DEF Pushes, Return
<1>2. NoLocals \in Locals
  BY ThreadFacts, LocalFacts
<1>3. "idle" \in Labels /\ "idle" \notin HandLabels
  BY DEF Labels, HandLabels, InitLabels, PushLabels, PoppedLabels
<1>4. QED
  BY <1>1, <1>2, <1>3, OtherThreads

(* A pop leaves its thread with the element it takes. *)
LEMMA PopsMoves ==
  ASSUME Invariant, NEW t \in Threads, Pops(t)
  PROVE  /\ pc' \in [Threads -> Labels] /\ loc' = loc
         /\ pc'[t] = "pop_data" /\ Private(t)' = {loc[t].se.ptr}
         /\ \A u \in Threads \ {t} : pc'[u] = pc[u] /\ Private(u)' = Private(u)
<1>1. pc' = [pc EXCEPT ![t] = "pop_data"] /\ loc' = loc
  BY DEF Pops
<1>2. loc[t] \in Locals /\ loc' = [loc EXCEPT ![t] = loc[t]]
  BY <1>1, ThreadFacts
<1>3. "pop_data" \in Labels /\ "pop_data" \in HandLabels
  BY DEF Labels, HandLabels, PoppedLabels
<1>4. QED
  BY <1>1, <1>2, <1>3, OtherThreads

(* No thread has an element of the stack in its hands. *)
LEMMA PrivateFacts ==
  ASSUME Invariant, NEW t \in Threads
  PROVE  /\ \A i \in 1..Len(Stacked) : Stacked[i] \notin Private(t)
         /\ \A u \in Threads : u # t => Private(t) \cap Private(u) = {}
<1>1. Private(t) \cap ElementsIn(Stacked) = {}
  BY DEF Invariant, InOnePlace, Partition
<1>2. \A u \in Threads : u # t => Private(t) \cap Private(u) = {}
  BY DEF Invariant, InOnePlace, Partition
<1>3. QED
  BY <1>1, <1>2 DEF ElementsIn

(* The stack after a step that leaves ss->top alone. *)
LEMMA StepList ==
  ASSUME WalksFindLists, Invariant, NEW t \in Threads, NEW l, NEW r, Step(t, l, r)
  PROVE  /\ Stacked' = Stacked /\ StackIsList'
         /\ \A i : PacTo(i)' = To(top', next', Stacked, i)
         /\ \A i \in 1..Len(Stacked) : /\ To(top', next', Stacked, i) = To(top, next, Stacked, i)
                                       /\ next'[Stacked[i]] = next[Stacked[i]]
                                       /\ data'[Stacked[i]] = data[Stacked[i]]
<1>1. Listed(top, next, Stacked) /\ Len(Stacked) \in Nat /\ \A i \in 1..Len(Stacked) : Stacked[i] \in Elements
  BY StackFacts
<1>2. \A i \in 1..Len(Stacked) : next'[Stacked[i]] = next[Stacked[i]] /\ data'[Stacked[i]] = data[Stacked[i]]
  BY <1>1, PrivateFacts DEF Step
<1>3. top' = top
  BY DEF Step
<1>4. /\ Listed(top', next', Stacked)
      /\ \A i \in 1..(Len(Stacked) + 1) : To(top', next', Stacked, i) = To(top, next, Stacked, i)
  BY <1>1, <1>2, <1>3, SameList, SMT
<1>5. Stacked' = Stacked /\ StackIsList' /\ \A i : PacTo(i)' = To(top', next', Stacked, i)
  BY <1>4, StackNext
<1>6. 1..Len(Stacked) \subseteq 1..(Len(Stacked) + 1)
  BY <1>1, SMT
<1>7. QED
  BY <1>2, <1>4, <1>5, <1>6

(* The stack after the dcas of a push. *)
LEMMA PushesList ==
  ASSUME WalksFindLists, Invariant, NEW t \in Threads, Pushes(t)
  PROVE  /\ Stacked' = <<loc[t].se.ptr>> \o Stacked /\ StackIsList'
         /\ \A i : PacTo(i)' = To(top', next', Stacked', i)
         /\ To(top', next', Stacked', 1) = loc[t].se
         /\ \A i \in 1..Len(Stacked) : To(top', next', Stacked', i + 1) = To(top, next, Stacked, i)
         /\ Len(Stacked') = Len(Stacked) + 1
         /\ Stacked'[1] = loc[t].se.ptr /\ \A i \in 1..Len(Stacked) : Stacked'[i + 1] = Stacked[i]
         /\ ElementsIn(Stacked') = ElementsIn(Stacked) \cup {loc[t].se.ptr}
<1> DEFINE e == loc[t].se.ptr
           z == <<e>> \o Stacked
<1>1. Listed(top, next, Stacked) /\ Len(Stacked) \in Nat
  BY StackFacts
<1>2. pc[t] = "push_dcas" /\ top = loc[t].words /\ top' = loc[t].se /\ next' = next
  BY DEF Pushes
<1>3. e \in Elements /\ Private(t) = {e} /\ next[e] = loc[t].words
  BY <1>2, ThreadFacts DEF HandLabels, PushLabels, Agree
<1>4. e \notin ElementsIn(Stacked)
  BY <1>3, PrivateFacts DEF ElementsIn
<1>5. /\ Listed(loc[t].se, next, z)
      /\ To(loc[t].se, next, z, 1) = loc[t].se
      /\ \A i \in 1..(Len(Stacked) + 1) : To(loc[t].se, next, z, i + 1) = To(top, next, Stacked, i)
      /\ Len(z) = Len(Stacked) + 1
      /\ z[1] = e /\ \A i \in 1..Len(Stacked) : z[i + 1] = Stacked[i]
      /\ ElementsIn(z) = ElementsIn(Stacked) \cup {e}
  <2>1. next[e] = top
    BY <1>2, <1>3
  <2> HIDE DEF e, z
  <2>2. z = <<e>> \o Stacked /\ loc[t].se.ptr = e
    BY DEF e, z
  <2>3. GoesOn(top, next, Stacked, loc[t].se, e, z)
    BY <1>1, <1>3, <1>4, <2>1, <2>2 DEF GoesOn
  <2>4. QED
    BY <2>3, PushedList, SMT
<1> HIDE DEF z
<1>6. Stacked' = z /\ StackIsList' /\ \A i : PacTo(i)' = To(top', next', z, i)
  BY <1>2, <1>5, StackNext
<1>7. 1..Len(Stacked) \subseteq 1..(Len(Stacked) + 1)
  BY <1>1, SMT
<1>8. QED
  BY <1>2, <1>5, <1>6, <1>7 DEF z

(* The stack after the dcas of a pop. *)
LEMMA PopsList ==
  ASSUME WalksFindLists, Invariant, NEW t \in Threads, Pops(t)
  PROVE  /\ Stacked # <<>> /\ Stacked[1] = loc[t].se.ptr /\ 1 \in 1..Len(Stacked)
         /\ Stacked' = Tail(Stacked) /\ StackIsList'
         /\ \A i : PacTo(i)' = To(top', next', Stacked', i)
         /\ Len(Stacked') = Len(Stacked) - 1
         /\ \A i \in 1..Len(Stacked') : /\ To(top', next', Stacked', i) = To(top, next, Stacked, i + 1)
                                        /\ Stacked'[i] = Stacked[i + 1] /\ i + 1 \in 1..Len(Stacked)
         /\ loc[t].se.ptr \in ElementsIn(Stacked)
         /\ ElementsIn(Stacked') = ElementsIn(Stacked) \ {loc[t].se.ptr}
<1>1. Listed(top, next, Stacked) /\ Len(Stacked) \in Nat
  BY StackFacts
<1>2. pc[t] = "pop_dcas" /\ top = loc[t].se /\ top' = loc[t].words /\ next' = next
  BY DEF Pops
<1>3. /\ loc[t].se.ptr # NULL
      /\ \A i \in 1..Len(Stacked) : To(top, next, Stacked, i) = loc[t].se => next[Stacked[i]] = loc[t].words
  BY <1>2, ThreadFacts DEF PopLabels, Agree, AgreeTop
<1>4. To(top, next, Stacked, 1) = top
  BY DEF To
<1>5. Len(Stacked) # 0
  BY <1>1, <1>2, <1>3, <1>4, SMT DEF Listed, NullPac
<1>6. 1 \in 1..Len(Stacked) /\ Stacked # <<>>
  BY <1>1, <1>5, SMT
<1>7. Stacked[1] = loc[t].se.ptr /\ next'[Stacked[1]] = top'
  BY <1>1, <1>2, <1>3, <1>4, <1>6 DEF Listed
<1> DEFINE z == Tail(Stacked)
<1>8. /\ Listed(top', next', z)
      /\ \A i \in 1..Len(Stacked) : To(top', next', z, i) = To(top, next, Stacked, i + 1)
      /\ Len(z) = Len(Stacked) - 1
      /\ \A i \in 1..(Len(Stacked) - 1) : z[i] = Stacked[i + 1]
      /\ Stacked[1] \in ElementsIn(Stacked) /\ ElementsIn(z) = ElementsIn(Stacked) \ {Stacked[1]}
  BY <1>1, <1>2, <1>6, <1>7, PoppedList, SMT
<1> HIDE DEF z
<1>9. Stacked' = z /\ StackIsList' /\ \A i : PacTo(i)' = To(top', next', z, i)
  BY <1>8, StackNext
<1>10. \A i \in 1..(Len(Stacked) - 1) : i \in 1..Len(Stacked) /\ i + 1 \in 1..Len(Stacked)
  BY <1>1, SMT
<1>11. QED
  BY <1>6, <1>7, <1>8, <1>9, <1>10 DEF z

(* The types. *)
LEMMA TypeStep ==
  ASSUME Invariant, NEW t \in Threads, Effect(t)
  PROVE  TypeOK'
<1> USE DEF Labels, HandLabels, Locals
<1>1. TypeOK
  BY DEF Invariant
<1>2. ASSUME NEW l \in Labels, NEW r \in Locals, Step(t, l, r)
      PROVE  TypeOK'
  <2>1. pc' \in [Threads -> Labels] /\ loc' \in [Threads -> Locals]
    BY <1>2, StepMoves
  <2>2. aba_counter' \in Nat
    BY <1>1, <1>2, SMT DEF TypeOK, Step
  <2>3. fs' \in Seq(Elements) /\ element_count' \in 0..MaxElements
    <3>1. fs \in Seq(Elements) /\ element_count \in 0..MaxElements /\ MaxElements \in Nat
      BY <1>1, StackAssumption DEF TypeOK
    <3>2. SubSeq(fs, 1, Len(fs) - 1) \in Seq(Elements)
      BY <3>1, FrontProperties, SMT
    <3>3. pc[t] \in HandLabels => loc[t].se.ptr \in Elements
      BY ThreadFacts
    <3>4. element_count < MaxElements => element_count + 1 \in 0..MaxElements
      BY <3>1, SMT
    <3>5. Places(t, l, r)
      BY <1>2 DEF Step
    <3>6. pc[t] \in HandLabels => Append(fs, loc[t].se.ptr) \in Seq(Elements)
      BY <3>1, <3>3, SMT
    <3> HIDE DEF HandLabels
    <3>7. QED
      BY <3>1, <3>2, <3>4, <3>5, <3>6 DEF Places
  <2>4. QED
    BY <1>1, <1>2, <2>1, <2>2, <2>3 DEF TypeOK, Step
<1>3. ASSUME Pushes(t)
      PROVE  TypeOK'
  <2>1. pc' \in [Threads -> Labels] /\ loc' \in [Threads -> Locals]
    BY <1>3, PushesMoves
  <2>2. top' \in Pacs
    BY <1>3, ThreadFacts DEF Pushes
  <2>3. QED
    BY <1>1, <1>3, <2>1, <2>2 DEF TypeOK, Pushes
<1>4. ASSUME Pops(t)
      PROVE  TypeOK'
  <2>1. pc' = [pc EXCEPT ![t] = "pop_data"] /\ loc' = loc
    BY <1>4 DEF Pops
  <2>2. pc' \in [Threads -> Labels]
    BY <1>1, <2>1 DEF TypeOK, PoppedLabels
  <2>3. top' \in Pacs
    BY <1>4, ThreadFacts DEF Pops
  <2>4. QED
    BY <1>1, <1>4, <2>1, <2>2, <2>3 DEF TypeOK, Pops
<1>5. QED
  BY <1>2, <1>3, <1>4 DEF Effect

NoRepeat(s) == \A i, j \in 1..Len(s) : s[i] = s[j] => i = j

(* Free list s gives its last element e and is z then. *)
Gives(s, e, z) ==
    s \in Seq(Elements) /\ NoRepeat(s) /\ s # <<>> /\ e = s[Len(s)] /\ z = SubSeq(s, 1, Len(s) - 1)

(* Free list s gets element e, which it does not have, and is z then. *)
Gets(s, e, z) ==
    s \in Seq(Elements) /\ NoRepeat(s) /\ e \in Elements /\ e \notin ElementsIn(s) /\ z = Append(s, e)

(* What is on the free list after freelist_pop. *)
LEMMA FreeGives ==
  ASSUME NEW s, NEW e, NEW z, Gives(s, e, z)
  PROVE  NoRepeat(z) /\ e \in ElementsIn(s) /\ ElementsIn(z) = ElementsIn(s) \ {e}
<1>0. /\ s \in Seq(Elements) /\ s # <<>> /\ e = s[Len(s)] /\ z = SubSeq(s, 1, Len(s) - 1)
      /\ Len(s) \in Nat /\ \A i \in 1..Len(s) : s[i] \in Elements
  BY SMT DEF Gives
<1>a. \A i, j \in 1..Len(s) : s[i] = s[j] => i = j
  BY DEF Gives, NoRepeat
<1>1. Len(s) # 0 /\ Len(s) \in 1..Len(s)
  BY <1>0, EmptySeq, SMT
<1>2. Len(s) - 1 \in Nat /\ 1..(Len(s) - 1) \subseteq 1..Len(s)
  BY <1>0, <1>1, SMT
<1>3. Len(z) = Len(s) - 1 /\ \A i \in 1..(Len(s) - 1) : z[i] = s[i]
  BY <1>0, FrontProperties
<1>4. \A i \in 1..Len(s) : i \in 1..(Len(s) - 1) \/ i = Len(s)
  BY <1>0, SMT
<1>5. Len(s) \notin 1..(Len(s) - 1)
  BY <1>0, SMT
<1>6. \A i \in 1..(Len(s) - 1) : s[i] # s[Len(s)]
  BY <1>a, <1>1, <1>2, <1>5
<1>7. \A i, j \in 1..Len(z) : z[i] = z[j] => i = j
  BY <1>a, <1>2, <1>3
<1>8. ElementsIn(z) = {s[i] : i \in 1..(Len(s) - 1)}
  BY <1>3 DEF ElementsIn
<1>9. {s[i] : i \in 1..(Len(s) - 1)} = ElementsIn(s) \ {s[Len(s)]}
  BY <1>2, <1>4, <1>6 DEF ElementsIn
<1>10. QED
  BY <1>0, <1>1, <1>7, <1>8, <1>9 DEF ElementsIn, NoRepeat

(* What is on the free list after freelist_push. *)
LEMMA FreeGets ==
  ASSUME NEW s, NEW e, NEW z, Gets(s, e, z)
  PROVE  NoRepeat(z) /\ ElementsIn(z) = ElementsIn(s) \cup {e}
<1>0. /\ s \in Seq(Elements) /\ e \in Elements /\ e \notin ElementsIn(s) /\ z = Append(s, e)
      /\ Len(s) \in Nat /\ \A i \in 1..Len(s) : s[i] \in Elements
  BY SMT DEF Gets
<1>a. \A i, j \in 1..Len(s) : s[i] = s[j] => i = j
  BY DEF Gets, NoRepeat
<1>1. /\ Len(z) = Len(s) + 1 /\ z[Len(s) + 1] = e
      /\ \A i \in 1..Len(s) : z[i] = s[i]
  BY <1>0, SMT
<1>2. \A i \in 1..(Len(s) + 1) : i \in 1..Len(s) \/ i = Len(s) + 1
  BY <1>0, SMT
<1>3. \A i \in 1..Len(s) : s[i] # e
  BY <1>0 DEF ElementsIn
<1>4. \A i, j \in 1..Len(z) : z[i] = z[j] => i = j
  BY <1>a, <1>1, <1>2, <1>3
<1>5. Len(s) + 1 \in 1..Len(z) /\ 1..Len(s) \subseteq 1..Len(z)
  BY <1>0, <1>1, SMT
<1>6. ElementsIn(s) \cup {e} \subseteq ElementsIn(z)
  BY <1>1, <1>5 DEF ElementsIn
<1>7. ElementsIn(z) \subseteq ElementsIn(s) \cup {e}
  BY <1>1, <1>2 DEF ElementsIn
<1>8. QED
  BY <1>4, <1>6, <1>7 DEF NoRepeat

(* Every element stays in one place. *)
LEMMA PlaceStep ==
  ASSUME WalksFindLists, Invariant, NEW t \in Threads, Effect(t)
  PROVE  FreeOnce' /\ InOnePlace'
<1> DEFINE P == [u \in Threads |-> Private(u)]
           F == ElementsIn(fs)
           K == ElementsIn(Stacked)
<1>1. /\ fs \in Seq(Elements) /\ element_count \in Nat
      /\ \A i, j \in 1..Len(fs) : fs[i] = fs[j] => i = j
      /\ Partition(F, K, P, element_count)
  BY SMT DEF Invariant, TypeOK, FreeOnce, InOnePlace
<1>2. P \in [Threads -> SUBSET Elements]
  BY ThreadFacts, SMT
<1>3. /\ P[t] = Private(t) /\ F \cap P[t] = {}
      /\ pc[t] \in HandLabels => loc[t].se.ptr \in Elements /\ Private(t) = {loc[t].se.ptr}
      /\ pc[t] \notin HandLabels => Private(t) = {}
  BY <1>1, ThreadFacts DEF Partition
<1>4. ASSUME NEW Q, \A u \in Threads \ {t} : Private(u)' = Private(u), Private(t)' = Q
      PROVE  [u \in Threads |-> Private(u)]' = [P EXCEPT ![t] = Q]
  BY <1>4
<1> HIDE DEF P, F, K
<1>5. ASSUME NEW l \in Labels, NEW r \in Locals, Step(t, l, r)
      PROVE  FreeOnce' /\ InOnePlace'
  <2> DEFINE Q == [P EXCEPT ![t] = IF l \in HandLabels THEN {r.se.ptr} ELSE {}]
  <2>1. [u \in Threads |-> Private(u)]' = Q
    <3>1. /\ \A u \in Threads \ {t} : Private(u)' = Private(u)
          /\ Private(t)' = IF l \in HandLabels THEN {r.se.ptr} ELSE {}
      BY <1>5, StepMoves
    <3>2. QED
      BY <1>4, <3>1
  <2>2. ElementsIn(Stacked)' = K
    BY <1>5, StepList DEF ElementsIn, K
  <2>3. Places(t, l, r)
    BY <1>5 DEF Step
  <2>4. ASSUME fs' = fs, element_count' = element_count, l \in HandLabels <=> pc[t] \in HandLabels,
               l \in HandLabels => r.se.ptr = loc[t].se.ptr
        PROVE  FreeOnce' /\ InOnePlace'
    <3>1. Q = P
      BY <1>2, <1>3, <2>4
    <3>2. ElementsIn(fs)' = F
      BY <2>4 DEF F, ElementsIn
    <3> HIDE DEF Q
    <3>3. QED
      BY <1>1, <2>1, <2>2, <2>4, <3>1, <3>2 DEF FreeOnce, InOnePlace
  <2>5. ASSUME fs # <<>>, fs' = SubSeq(fs, 1, Len(fs) - 1), element_count' = element_count,
               pc[t] \notin HandLabels, l \in HandLabels, r.se.ptr = fs[Len(fs)]
        PROVE  FreeOnce' /\ InOnePlace'
    <3>1. /\ FreeOnce' /\ ElementsIn(fs)' = F \ {r.se.ptr} /\ r.se.ptr \in F
      <4>1. Gives(fs, r.se.ptr, fs')
        BY <1>1, <2>5 DEF Gives, NoRepeat
      <4>2. NoRepeat(fs') /\ r.se.ptr \in ElementsIn(fs) /\ ElementsIn(fs') = ElementsIn(fs) \ {r.se.ptr}
        BY <4>1, FreeGives
      <4>3. QED
        BY <4>2 DEF FreeOnce, NoRepeat, F
    <3>2. Partition(F \ {r.se.ptr}, K, Q, element_count)
      BY <1>1, <1>2, <1>3, <2>5, <3>1, PartitionMoves
    <3> HIDE DEF Q
    <3>3. QED
      BY <2>1, <2>2, <2>5, <3>1, <3>2 DEF InOnePlace
  <2>6. ASSUME fs' = fs, element_count' = element_count + 1,
               pc[t] \notin HandLabels, l \in HandLabels, r.se.ptr = element_count + 1
        PROVE  FreeOnce' /\ InOnePlace'
    <3>1. Partition(F, K, Q, element_count + 1)
      BY <1>1, <1>2, <1>3, <2>6, PartitionMoves
    <3>2. ElementsIn(fs)' = F
      BY <2>6 DEF F, ElementsIn
    <3> HIDE DEF Q
    <3>3. QED
      BY <1>1, <2>1, <2>2, <2>6, <3>1, <3>2 DEF FreeOnce, InOnePlace
  <2>7. ASSUME fs' = Append(fs, loc[t].se.ptr), element_count' = element_count,
               pc[t] \in HandLabels, l \notin HandLabels
        PROVE  FreeOnce' /\ InOnePlace'
    <3>1. loc[t].se.ptr \in Elements /\ loc[t].se.ptr \notin F /\ P[t] = {loc[t].se.ptr}
      BY <1>3, <2>7
    <3>2. FreeOnce' /\ ElementsIn(fs)' = F \cup {loc[t].se.ptr}
      <4>1. Gets(fs, loc[t].se.ptr, fs')
        BY <1>1, <2>7, <3>1 DEF Gets, NoRepeat, F
      <4>2. NoRepeat(fs') /\ ElementsIn(fs') = ElementsIn(fs) \cup {loc[t].se.ptr}
        BY <4>1, FreeGets
      <4>3. QED
        BY <4>2 DEF FreeOnce, NoRepeat, F
    <3>3. Partition(F \cup {loc[t].se.ptr}, K, Q, element_count)
      BY <1>1, <1>2, <2>7, <3>1, PartitionMoves
    <3> HIDE DEF Q
    <3>4. QED
      BY <2>1, <2>2, <2>7, <3>2, <3>3 DEF InOnePlace
  <2>8. QED
    BY <2>3, <2>4, <2>5, <2>6, <2>7 DEF Places
<1>6. ASSUME Pushes(t)
      PROVE  FreeOnce' /\ InOnePlace'
  <2>1. /\ pc[t] = "push_dcas" /\ fs' = fs /\ element_count' = element_count
    BY <1>6 DEF Pushes
  <2>2. P[t] = {loc[t].se.ptr}
    <3>1. pc[t] \in HandLabels
      BY <2>1 DEF HandLabels, PushLabels
    <3>2. QED
      BY <1>3, <3>1
  <2>3. [u \in Threads |-> Private(u)]' = [P EXCEPT ![t] = {}]
    BY <1>4, <1>6, PushesMoves
  <2>4. ElementsIn(Stacked)' = K \cup {loc[t].se.ptr}
    BY <1>6, PushesList DEF ElementsIn, K
  <2>5. Partition(F, K \cup {loc[t].se.ptr}, [P EXCEPT ![t] = {}], element_count)
    BY <1>1, <1>2, <2>2, PartitionMoves
  <2>6. ElementsIn(fs)' = F
    BY <2>1 DEF F, ElementsIn
  <2>7. QED
    BY <1>1, <2>1, <2>3, <2>4, <2>5, <2>6 DEF FreeOnce, InOnePlace
<1>7. ASSUME Pops(t)
      PROVE  FreeOnce' /\ InOnePlace'
  <2>1. /\ pc[t] = "pop_dcas" /\ fs' = fs /\ element_count' = element_count
    BY <1>7 DEF Pops
  <2>2. P[t] = {}
    <3>1. pc[t] \notin HandLabels
      BY <2>1 DEF HandLabels, InitLabels, PushLabels, PoppedLabels
    <3>2. QED
      BY <1>3, <3>1
  <2>3. [u \in Threads |-> Private(u)]' = [P EXCEPT ![t] = {loc[t].se.ptr}]
    BY <1>4, <1>7, PopsMoves
  <2>4. loc[t].se.ptr \in K /\ ElementsIn(Stacked)' = K \ {loc[t].se.ptr}
    BY <1>7, PopsList DEF ElementsIn, K
  <2>5. Partition(F, K \ {loc[t].se.ptr}, [P EXCEPT ![t] = {loc[t].se.ptr}], element_count)
    BY <1>1, <1>2, <2>2, <2>4, PartitionMoves
  <2>6. ElementsIn(fs)' = F
    BY <2>1 DEF F, ElementsIn
  <2>7. QED
    BY <1>1, <2>1, <2>3, <2>4, <2>5, <2>6 DEF FreeOnce, InOnePlace
<1>8. QED
  BY <1>5, <1>6, <1>7 DEF Effect

(* The counters before the step, in terms of the stack's words. *)
LEMMA CounterFacts ==
  ASSUME Invariant
  PROVE  /\ aba_counter \in Nat /\ top.cnt \in Nat /\ top.cnt <= aba_counter
         /\ \A i \in 1..Len(Stacked) : To(top, next, Stacked, i).cnt \in 1..aba_counter
         /\ \A i, j \in 1..Len(Stacked) :
                To(top, next, Stacked, i).cnt = To(top, next, Stacked, j).cnt => i = j
         /\ \A t \in Threads : loc[t].se.cnt \in Nat
         /\ \A t \in Threads : Marked(t) =>
                /\ loc[t].se.cnt \in 1..aba_counter /\ loc[t].se.cnt # top.cnt
                /\ \A i \in 1..Len(Stacked) : To(top, next, Stacked, i).cnt # loc[t].se.cnt
                /\ \A u \in Threads : Marked(u) /\ loc[u].se.cnt = loc[t].se.cnt => u = t
                /\ \A u \in Threads : HasTop(u) => loc[u].se.cnt # loc[t].se.cnt
         /\ \A t \in Threads : HasTop(t) => loc[t].se.cnt <= aba_counter
<1>1. /\ CountersMarkPushes /\ aba_counter \in Nat /\ top \in Pacs
      /\ \A i : PacTo(i) = To(top, next, Stacked, i)
  BY StackFacts DEF Invariant, TypeOK
<1>2. \A t \in Threads : loc[t].se.cnt \in Nat
  BY ThreadFacts, PacFacts
<1>3. top.cnt \in Nat
  BY <1>1, PacFacts
<1>4. To(top, next, Stacked, 1) = top
  BY DEF To
<1>5. Len(Stacked) \in Nat /\ (Len(Stacked) = 0 => top = NullPac)
  BY <1>4, StackFacts, SMT DEF Listed
<1>6. CASE Len(Stacked) = 0
  <2>1. top.cnt = 0
    BY <1>5, <1>6, SMT DEF NullPac
  <2>2. QED
    BY <1>1, <1>2, <1>3, <2>1, SMT DEF CountersMarkPushes
<1>7. CASE Len(Stacked) # 0
  <2>1. 1 \in 1..Len(Stacked)
    BY <1>5, <1>7, SMT
  <2>2. top.cnt \in 1..aba_counter /\ \A t \in Threads : Marked(t) => loc[t].se.cnt # top.cnt
    BY <1>1, <1>4, <2>1, SMT DEF CountersMarkPushes
  <2>3. QED
    BY <1>1, <1>2, <1>3, <2>2, SMT DEF CountersMarkPushes
<1>8. QED
  BY <1>6, <1>7

(* A counter still belongs to one push. *)
LEMMA CountersStep ==
  ASSUME WalksFindLists, Invariant, NEW t \in Threads, Effect(t)
  PROVE  CountersMarkPushes'
<1>1. /\ aba_counter \in Nat /\ top.cnt \in Nat /\ top.cnt <= aba_counter
      /\ \A i \in 1..Len(Stacked) : To(top, next, Stacked, i).cnt \in 1..aba_counter
      /\ \A i, j \in 1..Len(Stacked) :
             To(top, next, Stacked, i).cnt = To(top, next, Stacked, j).cnt => i = j
      /\ \A u \in Threads : loc[u].se.cnt \in Nat
      /\ \A u \in Threads : Marked(u) =>
             /\ loc[u].se.cnt \in 1..aba_counter /\ loc[u].se.cnt # top.cnt
             /\ \A i \in 1..Len(Stacked) : To(top, next, Stacked, i).cnt # loc[u].se.cnt
             /\ \A v \in Threads : Marked(v) /\ loc[v].se.cnt = loc[u].se.cnt => v = u
             /\ \A v \in Threads : HasTop(v) => loc[v].se.cnt # loc[u].se.cnt
      /\ \A u \in Threads : HasTop(u) => loc[u].se.cnt <= aba_counter
  BY CounterFacts
<1>2. \A u \in Threads : /\ Marked(u) <=> pc[u] \in MarkedLabels
                         /\ HasTop(u) <=> pc[u] \in TopLabels
                         /\ Marked(u)' <=> pc'[u] \in MarkedLabels
                         /\ HasTop(u)' <=> pc'[u] \in TopLabels
  BY DEF Marked, HasTop, MarkedLabels, TopLabels
<1>3. /\ MarkedLabels \cap TopLabels = {} /\ "idle" \notin MarkedLabels \cup TopLabels
      /\ "pop_data" \notin MarkedLabels \cup TopLabels /\ "push_dcas" \in MarkedLabels
      /\ {"idle", "pop_data"} \subseteq Labels
  BY DEF MarkedLabels, TopLabels, InitLabels, PushLabels, Labels, HandLabels, PoppedLabels
<1>4. ASSUME NEW l \in Labels, NEW r \in Locals, Step(t, l, r)
      PROVE  CountersMarkPushes'
  <2>1. /\ Stacked' = Stacked /\ \A i \in 1..Len(Stacked) : PacTo(i)' = To(top, next, Stacked, i)
    BY <1>4, StepList
  <2>2. /\ pc'[t] = l /\ loc'[t] = r
        /\ \A u \in Threads \ {t} : pc'[u] = pc[u] /\ loc'[u] = loc[u]
    BY <1>4, StepMoves
  <2>3. /\ aba_counter' = aba_counter \/ aba_counter' = aba_counter + 1
        /\ l \in MarkedLabels => \/ Marked(t) /\ r.se.cnt = loc[t].se.cnt
                                 \/ aba_counter' = aba_counter + 1 /\ r.se.cnt = aba_counter'
        /\ l \in TopLabels => \/ HasTop(t) /\ r.se.cnt = loc[t].se.cnt
                              \/ r.se.cnt = top.cnt
    BY <1>4 DEF Step
  <2>4. /\ aba_counter' \in Nat /\ aba_counter <= aba_counter'
        /\ \A c \in 1..aba_counter : c \in 1..aba_counter' /\ c # aba_counter + 1
    BY <1>1, <2>3, SMT
  <2>5. /\ \A i \in 1..Len(Stacked') : PacTo(i)'.cnt \in 1..aba_counter'
        /\ \A i, j \in 1..Len(Stacked') : PacTo(i)'.cnt = PacTo(j)'.cnt => i = j
    <3>1. \A i \in 1..Len(Stacked') : PacTo(i)'.cnt \in 1..aba_counter'
      BY <1>1, <2>1, <2>4
    <3>2. \A i, j \in 1..Len(Stacked') : PacTo(i)'.cnt = PacTo(j)'.cnt => i = j
      BY <1>1, <2>1
    <3>3. QED
      BY <3>1, <3>2
  <2>6. \A u \in Threads : HasTop(u)' => loc'[u].se.cnt <= aba_counter'
    <3>1. SUFFICES ASSUME NEW u \in Threads, HasTop(u)' PROVE loc'[u].se.cnt <= aba_counter'
      OBVIOUS
    <3>2. CASE u # t
      BY <1>1, <1>2, <2>2, <2>4, <3>1, <3>2, SMT
    <3>3. CASE u = t
      BY <1>1, <1>2, <2>2, <2>3, <2>4, <3>1, <3>3, SMT
    <3>4. QED
      BY <3>2, <3>3
  <2>7. ASSUME NEW u \in Threads, Marked(u)'
        PROVE  /\ loc'[u].se.cnt \in 1..aba_counter'
               /\ \A i \in 1..Len(Stacked') : PacTo(i)'.cnt # loc'[u].se.cnt
               /\ \A v \in Threads : Marked(v)' /\ loc'[v].se.cnt = loc'[u].se.cnt => v = u
               /\ \A v \in Threads : HasTop(v)' => loc'[v].se.cnt # loc'[u].se.cnt
    <3>1. ASSUME Marked(u), loc'[u].se.cnt = loc[u].se.cnt
          PROVE  /\ loc'[u].se.cnt \in 1..aba_counter'
                 /\ \A i \in 1..Len(Stacked') : PacTo(i)'.cnt # loc'[u].se.cnt
                 /\ \A v \in Threads : Marked(v)' /\ loc'[v].se.cnt = loc'[u].se.cnt => v = u
                 /\ \A v \in Threads : HasTop(v)' => loc'[v].se.cnt # loc'[u].se.cnt
      <4>1. loc'[u].se.cnt \in 1..aba_counter /\ loc'[u].se.cnt \in 1..aba_counter'
        BY <1>1, <2>4, <3>1
      <4>2. \A i \in 1..Len(Stacked') : PacTo(i)'.cnt # loc'[u].se.cnt
        BY <1>1, <2>1, <3>1
      <4>3. ASSUME NEW v \in Threads, Marked(v)', loc'[v].se.cnt = loc'[u].se.cnt
            PROVE  v = u
        <5>1. CASE v # t
          <6>1. Marked(v) /\ loc'[v] = loc[v]
            BY <1>2, <2>2, <4>3, <5>1
          <6>2. QED
            BY <1>1, <3>1, <4>3, <6>1
        <5>2. CASE v = t
          <6>1. l \in MarkedLabels /\ loc'[v] = r
            BY <1>2, <2>2, <4>3, <5>2
          <6>2. loc'[v].se.cnt # aba_counter + 1
            BY <2>4, <4>1, <4>3
          <6>3. r.se.cnt # aba_counter + 1
            BY <6>1, <6>2
          <6>4. Marked(v) /\ loc[v].se.cnt = loc[u].se.cnt
            BY <2>3, <3>1, <4>3, <5>2, <6>1, <6>3
          <6>5. QED
            BY <1>1, <3>1, <6>4
        <5>3. QED
          BY <5>1, <5>2
      <4>4. ASSUME NEW v \in Threads, HasTop(v)'
            PROVE  loc'[v].se.cnt # loc'[u].se.cnt
        <5>1. CASE v # t
          BY <1>1, <1>2, <2>2, <3>1, <4>4, <5>1
        <5>2. CASE v = t
          <6>1. l \in TopLabels /\ loc'[v] = r
            BY <1>2, <2>2, <4>4, <5>2
          <6>2. CASE HasTop(v) /\ r.se.cnt = loc[v].se.cnt
            BY <1>1, <3>1, <6>1, <6>2
          <6>3. CASE r.se.cnt = top.cnt
            BY <1>1, <3>1, <6>1, <6>3
          <6>4. QED
            BY <2>3, <5>2, <6>1, <6>2, <6>3
        <5>3. QED
          BY <5>1, <5>2
      <4>5. QED
        BY <4>1, <4>2, <4>3, <4>4
    <3>2. ASSUME u = t, aba_counter' = aba_counter + 1, loc'[u].se.cnt = aba_counter'
          PROVE  /\ loc'[u].se.cnt \in 1..aba_counter'
                 /\ \A i \in 1..Len(Stacked') : PacTo(i)'.cnt # loc'[u].se.cnt
                 /\ \A v \in Threads : Marked(v)' /\ loc'[v].se.cnt = loc'[u].se.cnt => v = u
                 /\ \A v \in Threads : HasTop(v)' => loc'[v].se.cnt # loc'[u].se.cnt
      <4>1. loc'[u].se.cnt \in 1..aba_counter' /\ loc'[u].se.cnt = aba_counter + 1
        BY <1>1, <3>2, SMT
      <4>2. \A i \in 1..Len(Stacked') : PacTo(i)'.cnt # loc'[u].se.cnt
        BY <1>1, <2>1, <2>4, <4>1
      <4>3. ASSUME NEW v \in Threads, v # u, Marked(v)'
            PROVE  loc'[v].se.cnt # loc'[u].se.cnt
        <5>1. Marked(v) /\ loc'[v] = loc[v]
          BY <1>2, <2>2, <3>2, <4>3
        <5>2. QED
          BY <1>1, <2>4, <4>1, <5>1
      <4>4. ASSUME NEW v \in Threads, HasTop(v)'
            PROVE  loc'[v].se.cnt # loc'[u].se.cnt
        <5>1. v # u
          BY <1>2, <1>3, <2>7, <4>4
        <5>2. HasTop(v) /\ loc'[v] = loc[v]
          BY <1>2, <2>2, <3>2, <4>4, <5>1
        <5>3. QED
          BY <1>1, <4>1, <5>2, SMT
      <4>5. QED
        BY <4>1, <4>2, <4>3, <4>4
    <3>3. CASE u # t
      BY <1>2, <2>2, <2>7, <3>1, <3>3
    <3>4. CASE u = t
      BY <1>2, <2>2, <2>3, <2>7, <3>1, <3>2, <3>4, SMT
    <3>5. QED
      BY <3>3, <3>4
  <2>8. QED
    BY <2>5, <2>6, <2>7 DEF CountersMarkPushes
<1>5. ASSUME Pushes(t)
      PROVE  CountersMarkPushes'
  <2>1. /\ Len(Stacked') = Len(Stacked) + 1
        /\ PacTo(1)' = loc[t].se
        /\ \A i \in 1..Len(Stacked) : PacTo(i + 1)' = To(top, next, Stacked, i)
    BY <1>5, PushesList
  <2>2. pc[t] = "push_dcas" /\ aba_counter' = aba_counter
    BY <1>5 DEF Pushes
  <2>3. pc'[t] = "idle" /\ \A u \in Threads \ {t} : pc'[u] = pc[u] /\ loc'[u] = loc[u]
    BY <1>5, PushesMoves
  <2>4. Marked(t) /\ \A u \in Threads : /\ Marked(u)' => u # t /\ Marked(u) /\ loc'[u] = loc[u]
                                        /\ HasTop(u)' => u # t /\ HasTop(u) /\ loc'[u] = loc[u]
    BY <1>2, <1>3, <2>2, <2>3
  <2>5. \A i \in 1..Len(Stacked') : i = 1 \/ \E j \in 1..Len(Stacked) : i = j + 1
    <3>1. SUFFICES ASSUME NEW i \in 1..Len(Stacked'), i # 1 PROVE \E j \in 1..Len(Stacked) : i = j + 1
      OBVIOUS
    <3>2. i - 1 \in 1..Len(Stacked) /\ i = (i - 1) + 1
      BY <2>1, <3>1, StackFacts, SMT
    <3>3. QED
      BY <3>2
  <2>6. \A i \in 1..Len(Stacked') : PacTo(i)'.cnt \in 1..aba_counter'
    BY <1>1, <2>1, <2>2, <2>4, <2>5, SMT
  <2>7. \A i, j \in 1..Len(Stacked') : PacTo(i)'.cnt = PacTo(j)'.cnt => i = j
    <3>1. SUFFICES ASSUME NEW i \in 1..Len(Stacked'), NEW j \in 1..Len(Stacked'), PacTo(i)'.cnt = PacTo(j)'.cnt
                   PROVE  i = j
      OBVIOUS
    <3>2. CASE i = 1 \/ j = 1
      BY <1>1, <2>1, <2>4, <2>5, <3>1, <3>2, SMT
    <3>3. CASE i # 1 /\ j # 1
      <4>1. PICK a \in 1..Len(Stacked), b \in 1..Len(Stacked) : i = a + 1 /\ j = b + 1
        BY <2>5, <3>3
      <4>2. a = b
        BY <1>1, <2>1, <3>1, <4>1
      <4>3. QED
        BY <4>1, <4>2
    <3>4. QED
      BY <3>2, <3>3
  <2>8. ASSUME NEW u \in Threads, Marked(u)'
        PROVE  /\ loc'[u].se.cnt \in 1..aba_counter'
               /\ \A i \in 1..Len(Stacked') : PacTo(i)'.cnt # loc'[u].se.cnt
               /\ \A v \in Threads : Marked(v)' /\ loc'[v].se.cnt = loc'[u].se.cnt => v = u
               /\ \A v \in Threads : HasTop(v)' => loc'[v].se.cnt # loc'[u].se.cnt
    <3>1. u # t /\ Marked(u) /\ loc'[u] = loc[u]
      BY <2>4, <2>8
    <3>2. \A i \in 1..Len(Stacked') : PacTo(i)'.cnt # loc'[u].se.cnt
      <4>1. SUFFICES ASSUME NEW i \in 1..Len(Stacked') PROVE PacTo(i)'.cnt # loc[u].se.cnt
        BY <3>1
      <4>2. CASE i = 1
        BY <1>1, <2>1, <2>4, <3>1, <4>2
      <4>3. CASE i # 1
        <5>1. PICK j \in 1..Len(Stacked) : i = j + 1
          BY <2>5, <4>3
        <5>2. QED
          BY <1>1, <2>1, <3>1, <5>1
      <4>4. QED
        BY <4>2, <4>3
    <3>3. QED
      BY <1>1, <2>2, <2>4, <3>1, <3>2
  <2>9. \A u \in Threads : HasTop(u)' => loc'[u].se.cnt <= aba_counter'
    BY <1>1, <2>2, <2>4
  <2>10. QED
    BY <2>6, <2>7, <2>8, <2>9 DEF CountersMarkPushes
<1>6. ASSUME Pops(t)
      PROVE  CountersMarkPushes'
  <2>1. \A i \in 1..Len(Stacked') : PacTo(i)' = To(top, next, Stacked, i + 1) /\ i + 1 \in 1..Len(Stacked)
    BY <1>6, PopsList
  <2>2. aba_counter' = aba_counter /\ loc' = loc
    BY <1>6 DEF Pops
  <2>3. pc'[t] = "pop_data" /\ \A u \in Threads \ {t} : pc'[u] = pc[u]
    BY <1>6, PopsMoves
  <2>4. \A u \in Threads : (Marked(u)' => Marked(u)) /\ (HasTop(u)' => HasTop(u))
    BY <1>2, <1>3, <2>3
  <2>5. \A i, j \in 1..Len(Stacked') : PacTo(i)'.cnt = PacTo(j)'.cnt => i = j
    <3>1. SUFFICES ASSUME NEW i \in 1..Len(Stacked'), NEW j \in 1..Len(Stacked'), PacTo(i)'.cnt = PacTo(j)'.cnt
                   PROVE  i = j
      OBVIOUS
    <3>2. i + 1 = j + 1
      BY <1>1, <2>1, <3>1
    <3>3. QED
      BY <3>2, SMT
  <2>6. \A i \in 1..Len(Stacked') : PacTo(i)'.cnt \in 1..aba_counter'
    BY <1>1, <2>1, <2>2
  <2>7. \A u \in Threads : Marked(u)' =>
            /\ loc'[u].se.cnt \in 1..aba_counter'
            /\ \A i \in 1..Len(Stacked') : PacTo(i)'.cnt # loc'[u].se.cnt
            /\ \A v \in Threads : Marked(v)' /\ loc'[v].se.cnt = loc'[u].se.cnt => v = u
            /\ \A v \in Threads : HasTop(v)' => loc'[v].se.cnt # loc'[u].se.cnt
    BY <1>1, <2>1, <2>2, <2>4
  <2>8. \A u \in Threads : HasTop(u)' => loc'[u].se.cnt <= aba_counter'
    BY <1>1, <2>2, <2>4, SMT
  <2>9. QED
    BY <2>5, <2>6, <2>7, <2>8 DEF CountersMarkPushes
<1>7. QED
  BY <1>4, <1>5, <1>6 DEF Effect

(* The locals of every call agree with the memory. *)
LEMMA LocalsStep ==
  ASSUME WalksFindLists, Invariant, NEW t \in Threads, Effect(t)
  PROVE  LocalsAgree'
<1>1. /\ \A u \in Threads : Agree(pc[u], loc[u], next, data) /\ AgreeTop(pc[u], loc[u], Stacked, top, next)
      /\ Len(Stacked) \in Nat
  BY ThreadFacts, StackFacts
<1>2. ASSUME \A i : PacTo(i)' = To(top', next', Stacked', i),
             \A u \in Threads : /\ Agree(pc'[u], loc'[u], next', data')
                                /\ AgreeTop(pc'[u], loc'[u], Stacked', top', next')
      PROVE  LocalsAgree'
  BY <1>2 DEF LocalsAgree, Agree, AgreeTop
<1>3. ASSUME NEW l \in Labels, NEW r \in Locals, Step(t, l, r)
      PROVE  LocalsAgree'
  <2>1. /\ Stacked' = Stacked /\ \A i : PacTo(i)' = To(top', next', Stacked, i)
        /\ \A i \in 1..Len(Stacked) : /\ To(top', next', Stacked, i) = To(top, next, Stacked, i)
                                      /\ next'[Stacked[i]] = next[Stacked[i]]
    BY <1>3, StepList
  <2>2. /\ pc'[t] = l /\ loc'[t] = r
        /\ \A u \in Threads \ {t} : pc'[u] = pc[u] /\ loc'[u] = loc[u]
    BY <1>3, StepMoves
  <2>3. \A a, b : AgreeTop(a, b, Stacked, top, next) => AgreeTop(a, b, Stacked', top', next')
    BY <2>1 DEF AgreeTop
  <2>4. ASSUME NEW u \in Threads, u # t
        PROVE  Agree(pc[u], loc[u], next', data')
    <3>1. CASE pc[u] \in PushLabels
      <4>1. loc[u].se.ptr \in Elements /\ loc[u].se.ptr \notin Private(t)
        BY <2>4, <3>1, ThreadFacts, PrivateFacts DEF HandLabels
      <4>2. next'[loc[u].se.ptr] = next[loc[u].se.ptr] /\ data'[loc[u].se.ptr] = data[loc[u].se.ptr]
        BY <1>3, <4>1 DEF Step
      <4>3. QED
        BY <1>1, <4>2 DEF Agree
    <3>2. CASE pc[u] \notin PushLabels
      BY <1>1, <3>2 DEF Agree, PushLabels
    <3>3. QED
      BY <3>1, <3>2
  <2>5. Agree(l, r, next', data') /\ AgreeTop(l, r, Stacked, top, next)
    BY <1>3 DEF Step
  <2>6. \A u \in Threads : /\ Agree(pc'[u], loc'[u], next', data')
                           /\ AgreeTop(pc'[u], loc'[u], Stacked', top', next')
    BY <1>1, <2>2, <2>3, <2>4, <2>5
  <2>7. QED
    BY <1>2, <2>1, <2>6
<1>4. \A a, b, nx, dt, s, tp : a \in {"idle", "pop_data"} => Agree(a, b, nx, dt) /\ AgreeTop(a, b, s, tp, nx)
  BY SMT DEF Agree, AgreeTop, InitLabels, PushLabels, PopLabels
<1>5. {"idle", "pop_data"} \subseteq Labels
  BY DEF Labels, HandLabels, PoppedLabels
<1>6. ASSUME Pushes(t)
      PROVE  LocalsAgree'
  <2>1. /\ \A i : PacTo(i)' = To(top', next', Stacked', i)
        /\ Len(Stacked') = Len(Stacked) + 1
        /\ To(top', next', Stacked', 1) = loc[t].se
        /\ \A i \in 1..Len(Stacked) : /\ To(top', next', Stacked', i + 1) = To(top, next, Stacked, i)
                                      /\ Stacked'[i + 1] = Stacked[i]
    BY <1>6, PushesList
  <2>2. pc[t] = "push_dcas" /\ next' = next /\ data' = data
    BY <1>6 DEF Pushes
  <2>3. pc'[t] = "idle" /\ \A u \in Threads \ {t} : pc'[u] = pc[u] /\ loc'[u] = loc[u]
    BY <1>6, PushesMoves
  <2>4. ASSUME NEW u \in Threads, u # t
        PROVE  AgreeTop(pc[u], loc[u], Stacked', top', next')
    <3>1. SUFFICES ASSUME NEW i \in 1..Len(Stacked'), To(top', next', Stacked', i) = loc[u].se,
                          pc[u] \in {"pop_next_cnt", "pop_dcas"}
                   PROVE  /\ pc[u] = "pop_next_cnt" => next'[Stacked'[i]].ptr = loc[u].words.ptr
                          /\ pc[u] = "pop_dcas" => next'[Stacked'[i]] = loc[u].words
      BY DEF AgreeTop
    <3>2. i # 1
      <4>1. HasTop(u) /\ Marked(t)
        BY <2>2, <3>1 DEF HasTop, Marked, PushLabels
      <4>2. loc[u].se.cnt # loc[t].se.cnt
        BY <4>1, CounterFacts
      <4>3. To(top', next', Stacked', i) # loc[t].se
        BY <3>1, <4>2
      <4>4. QED
        BY <2>1, <4>3
    <3>3. i - 1 \in 1..Len(Stacked) /\ i = (i - 1) + 1
      BY <1>1, <2>1, <3>2, SMT
    <3>4. PICK j \in 1..Len(Stacked) : i = j + 1
      BY <3>3
    <3>5. To(top, next, Stacked, j) = loc[u].se /\ Stacked'[i] = Stacked[j]
      BY <2>1, <3>1, <3>4
    <3>6. QED
      BY <1>1, <2>2, <3>5 DEF AgreeTop
  <2>5. \A u \in Threads : /\ Agree(pc'[u], loc'[u], next', data')
                           /\ AgreeTop(pc'[u], loc'[u], Stacked', top', next')
    <3>1. SUFFICES ASSUME NEW u \in Threads
                   PROVE  /\ Agree(pc'[u], loc'[u], next', data')
                          /\ AgreeTop(pc'[u], loc'[u], Stacked', top', next')
      OBVIOUS
    <3>2. CASE u = t
      BY <1>4, <2>3, <3>2, SMT
    <3>3. CASE u # t
      <4>1. pc'[u] = pc[u] /\ loc'[u] = loc[u]
        BY <2>3, <3>3
      <4>2. QED
        BY <1>1, <2>2, <2>4, <3>3, <4>1
    <3>4. QED
      BY <3>2, <3>3
  <2>6. QED
    BY <1>2, <2>1, <2>5
<1>7. ASSUME Pops(t)
      PROVE  LocalsAgree'
  <2>1. /\ \A i : PacTo(i)' = To(top', next', Stacked', i)
        /\ \A i \in 1..Len(Stacked') : /\ To(top', next', Stacked', i) = To(top, next, Stacked, i + 1)
                                       /\ Stacked'[i] = Stacked[i + 1] /\ i + 1 \in 1..Len(Stacked)
    BY <1>7, PopsList
  <2>2. next' = next /\ data' = data /\ loc' = loc
    BY <1>7 DEF Pops
  <2>3. pc'[t] = "pop_data" /\ \A u \in Threads \ {t} : pc'[u] = pc[u]
    BY <1>7, PopsMoves
  <2>4. ASSUME NEW u \in Threads
        PROVE  AgreeTop(pc[u], loc[u], Stacked', top', next')
    <3>1. SUFFICES ASSUME NEW i \in 1..Len(Stacked'), To(top', next', Stacked', i) = loc[u].se
                   PROVE  /\ pc[u] = "pop_next_cnt" => next'[Stacked'[i]].ptr = loc[u].words.ptr
                          /\ pc[u] = "pop_dcas" => next'[Stacked'[i]] = loc[u].words
      BY DEF AgreeTop
    <3>2. PICK j \in 1..Len(Stacked) : To(top, next, Stacked, j) = loc[u].se /\ Stacked'[i] = Stacked[j]
      BY <2>1, <3>1
    <3>3. QED
      BY <1>1, <2>2, <3>2 DEF AgreeTop
  <2>5. \A u \in Threads : /\ Agree(pc'[u], loc'[u], next', data')
                           /\ AgreeTop(pc'[u], loc'[u], Stacked', top', next')
    BY <1>1, <1>4, <2>2, <2>3, <2>4, SMT
  <2>6. QED
    BY <1>2, <2>1, <2>5
<1>8. QED
  BY <1>3, <1>6, <1>7 DEF Effect

(* The data words of the elements on the stack are items. *)
LEMMA ItemsStep ==
  ASSUME WalksFindLists, Invariant, NEW t \in Threads, Effect(t)
  PROVE  StackedAreItems' /\ StackIsList'
<1>1. \A i \in 1..Len(Stacked) : data[Stacked[i]] \in Items
  BY DEF Invariant, StackedAreItems
<1>2. ASSUME NEW l \in Labels, NEW r \in Locals, Step(t, l, r)
      PROVE  StackedAreItems' /\ StackIsList'
  BY <1>1, <1>2, StepList DEF StackedAreItems
<1>3. ASSUME Pushes(t)
      PROVE  StackedAreItems' /\ StackIsList'
  <2>1. /\ StackIsList' /\ Len(Stacked') = Len(Stacked) + 1 /\ Stacked'[1] = loc[t].se.ptr
        /\ \A i \in 1..Len(Stacked) : Stacked'[i + 1] = Stacked[i]
    BY <1>3, PushesList
  <2>2. data' = data /\ data[loc[t].se.ptr] \in Items
    BY <1>3, ThreadFacts DEF Pushes, Agree, PushLabels
  <2>3. ASSUME NEW i \in 1..Len(Stacked'), i # 1
        PROVE  data'[Stacked'[i]] \in Items
    <3>1. i - 1 \in 1..Len(Stacked) /\ i = (i - 1) + 1
      BY <2>1, <2>3, StackFacts, SMT
    <3>2. QED
      BY <1>1, <2>1, <2>2, <3>1
  <2>4. QED
    BY <2>1, <2>2, <2>3 DEF StackedAreItems
<1>4. ASSUME Pops(t)
      PROVE  StackedAreItems' /\ StackIsList'
  <2>1. StackIsList' /\ \A i \in 1..Len(Stacked') : Stacked'[i] = Stacked[i + 1] /\ i + 1 \in 1..Len(Stacked)
    BY <1>4, PopsList
  <2>2. data' = data
    BY <1>4 DEF Pops
  <2>3. QED
    BY <1>1, <2>1, <2>2 DEF StackedAreItems
<1>5. QED
  BY <1>2, <1>3, <1>4 DEF Effect

(* Every step of a call has one of the effects. *)
LEMMA AllEffects ==
  ASSUME Invariant, NEW t \in Threads,
         Push(t) \/ GuaranteedPush(t) \/ Pop(t) \/ Clear(t) \/ Continue(t)
  PROVE  Effect(t)
BY BeginEffect, InitEffect, PushEffect, PopEffect DEF Continue

(* Initially all elements are free. *)
LEMMA InitOK ==
  ASSUME WalksFindLists, Init
  PROVE  IInv
<1>1. /\ top = NullPac /\ next = [e \in Elements |-> NullPac] /\ data = [e \in Elements |-> NoItem]
      /\ aba_counter = 0 /\ fs = [i \in 1..number_elements |-> i] /\ element_count = number_elements
      /\ freed = {} /\ pc = [t \in Threads |-> "idle"] /\ loc = [t \in Threads |-> NoLocals]
      /\ calls = [t \in Threads |-> 0] /\ got = [t \in Threads |-> <<>>]
  BY DEF Init
<1>2. number_elements \in Nat /\ MaxElements \in Nat /\ number_elements <= MaxElements
  BY StackAssumption
<1>3. NullPac \in Pacs
  BY <1>2, SMT DEF NullPac, NULL, Pacs, Pac
<1>4. fs \in Seq(Elements) /\ Len(fs) = number_elements /\ \A i \in 1..Len(fs) : fs[i] = i
  <2>1. fs \in [1..number_elements -> Elements]
    BY <1>1, <1>2, SMT DEF Elements
  <2>2. fs \in Seq(Elements) /\ Len(fs) = number_elements
    BY <1>2, <2>1, SMT
  <2>3. QED
    BY <1>1, <2>2
<1>5. TypeOK
  <2>1. NoLocals \in [se : Pacs, words : Pacs, data : Items \cup {NoItem}, clear : BOOLEAN]
    BY <1>3 DEF NoLocals
  <2>2. got \in [Threads -> Seq(Items \cup {NoItem})]
    BY <1>1, SMT
  <2>3. element_count \in 0..MaxElements
    BY <1>1, <1>2, SMT
  <2>4. QED
    BY <1>1, <1>3, <1>4, <2>1, <2>2, <2>3 DEF TypeOK
<1>6. Stacked = <<>>
  <2>1. Stacked = Walk(next)[MaxElements][top.ptr]
    BY StackedIsWalk
  <2>2. Listed(top, next, <<>>)
    BY <1>1, SMT DEF Listed, To
  <2>3. QED
    BY <2>1, <2>2 DEF WalksFindLists
<1>7. StackIsList /\ StackedAreItems
  BY <1>1, <1>6, SMT DEF StackIsList, StackedAreItems, PacTo
<1>8. FreeOnce
  BY <1>4 DEF FreeOnce
<1>9. \A t \in Threads : /\ pc[t] = "idle" /\ Private(t) = {} /\ ~Marked(t) /\ ~HasTop(t)
  BY <1>1 DEF Private, Marked, HasTop, InitLabels, PushLabels, PoppedLabels
<1>10. InOnePlace
  <2>1. ElementsIn(fs) = {i : i \in 1..Len(fs)}
    BY <1>4 DEF ElementsIn
  <2>2. ElementsIn(fs) = 1..element_count
    BY <1>1, <1>4, <2>1
  <2>3. ElementsIn(Stacked) = {}
    BY <1>6, SMT DEF ElementsIn
  <2>4. QED
    BY <1>9, <2>2, <2>3 DEF InOnePlace, Partition
<1>11. CountersMarkPushes /\ LocalsAgree
  <2>1. Len(Stacked) = 0 /\ 1..Len(Stacked) = {}
    BY <1>6, SMT
  <2>2. CountersMarkPushes
    BY <1>9, <2>1 DEF CountersMarkPushes
  <2>3. \A t \in Threads : /\ pc[t] \notin InitLabels \cup PushLabels \cup PopLabels
                           /\ pc[t] # "push_next_cnt" /\ pc[t] # "push_dcas"
    BY <1>9 DEF InitLabels, PushLabels, PopLabels
  <2>4. LocalsAgree
    BY <2>1, <2>3 DEF LocalsAgree
  <2>5. QED
    BY <2>2, <2>4
<1>12. ~Gone
  BY <1>9 DEF Gone
<1>13. QED
  BY <1>5, <1>7, <1>8, <1>10, <1>11, <1>12 DEF IInv, Invariant

(* After stack_delete nothing happens. *)
LEMMA GoneIsLast ==
  ASSUME NEW t \in Threads, pc[t] = "gone"
  PROVE  ~(Push(t) \/ GuaranteedPush(t) \/ Pop(t) \/ Clear(t) \/ Continue(t) \/ Delete(t))
<1>1. ~(Push(t) \/ GuaranteedPush(t) \/ Pop(t) \/ Clear(t) \/ Delete(t))
  BY DEF Push, GuaranteedPush, Pop, Clear, Delete, Call
<1>2. ~(InitCount(t) \/ InitNextPointer(t) \/ InitNextCounter(t) \/ InitData(t))
  BY DEF InitCount, InitNextPointer, InitNextCounter, InitData, StoreNext, Goto
<1>3. ~(PushReadPointer(t) \/ PushReadCounter(t) \/ PushWriteNextPointer(t) \/ PushWriteNextCounter(t) \/ PushDcas(t))
  BY DEF PushReadPointer, PushReadCounter, PushWriteNextPointer, PushWriteNextCounter, PushDcas, StoreNext, Local, Goto
<1>4. ~(PopReadPointer(t) \/ PopReadCounter(t) \/ PopLoadNextPointer(t) \/ PopLoadNextCounter(t))
  BY DEF PopReadPointer, PopReadCounter, PopLoadNextPointer, PopLoadNextCounter, Local, Goto
<1>5. ~(PopDcas(t) \/ PopReadData(t) \/ PopFree(t))
  BY DEF PopDcas, PopReadData, PopFree, Local, Goto
<1>6. QED
  BY <1>1, <1>2, <1>3, <1>4, <1>5 DEF Continue

(* stack_delete frees every element. *)
LEMMA DeleteFreesAll ==
  ASSUME Invariant, NEW t \in Threads, Delete(t)
  PROVE  /\ \A u \in Threads : pc[u] = "idle" /\ pc'[u] = "gone"
         /\ freed' = 1..element_count' /\ Gone'
<1>1. /\ \A u \in Threads : pc[u] = "idle"
      /\ pc' = [u \in Threads |-> "gone"] /\ element_count' = element_count
      /\ freed' = freed \cup ElementsIn(fs) \cup ElementsIn(Stacked)
  BY DEF Delete
<1>2. \A u \in Threads : Private(u) = {}
  BY <1>1 DEF Private, InitLabels, PushLabels, PoppedLabels
<1>3. /\ freed = {}
      /\ ElementsIn(fs) \cup ElementsIn(Stacked) \cup UNION {[u \in Threads |-> Private(u)][v] : v \in Threads}
             = 1..element_count
  BY DEF Invariant, TypeOK, InOnePlace, Partition
<1>4. UNION {[u \in Threads |-> Private(u)][v] : v \in Threads} = {}
  BY <1>2
<1>5. freed' = 1..element_count'
  BY <1>1, <1>3, <1>4
<1>6. QED
  BY <1>1, <1>5 DEF Gone

(* A step that changes nothing. *)
LEMMA Stutter ==
  ASSUME WalksFindLists, UNCHANGED vars, IInv
  PROVE  IInv'
<1>1. /\ top' = top /\ next' = next /\ data' = data /\ aba_counter' = aba_counter /\ fs' = fs
      /\ element_count' = element_count /\ freed' = freed /\ pc' = pc /\ loc' = loc
      /\ calls' = calls /\ got' = got
  BY DEF vars, memory
<1>2. Gone' <=> Gone
  BY <1>1 DEF Gone
<1>3. ASSUME Invariant PROVE Invariant'
  <2>1. Listed(top', next', Stacked)
    BY <1>1, <1>3, StackFacts
  <2>2. Stacked' = Stacked /\ StackIsList'
    BY <2>1, StackNext
  <2>3. TypeOK' /\ FreeOnce'
    BY <1>1, <1>3 DEF Invariant, TypeOK, FreeOnce
  <2>4. InOnePlace'
    BY <1>1, <1>3, <2>2 DEF Invariant, InOnePlace, Private
  <2>5. CountersMarkPushes'
    BY <1>1, <1>3, <2>2 DEF Invariant, CountersMarkPushes, Marked, HasTop, PacTo
  <2>6. LocalsAgree'
    BY <1>1, <1>3, <2>2 DEF Invariant, LocalsAgree, PacTo
  <2>7. StackedAreItems'
    BY <1>1, <1>3, <2>2 DEF Invariant, StackedAreItems
  <2>8. QED
    BY <2>2, <2>3, <2>4, <2>5, <2>6, <2>7 DEF Invariant
<1>4. QED
  BY <1>1, <1>2, <1>3 DEF IInv

(* Before stack_delete the invariant holds. *)
LEMMA NotGone == Invariant => ~Gone
BY DEF Invariant, TypeOK, Gone, InitLabels, PushLabels, PopLabels, PoppedLabels

(* The invariant is inductive. *)
LEMMA InvStep ==
  ASSUME WalksFindLists, IInv, [Next]_vars
  PROVE  IInv'
<1>1. CASE UNCHANGED vars
  BY <1>1, Stutter
<1>2. CASE Next
  <2>1. PICK t \in Threads : Push(t) \/ GuaranteedPush(t) \/ Pop(t) \/ Clear(t) \/ Continue(t) \/ Delete(t)
    BY <1>2 DEF Next
  <2>2. Invariant
    BY <2>1, GoneIsLast DEF IInv
  <2>3. CASE Delete(t)
    BY <2>2, <2>3, DeleteFreesAll DEF IInv
  <2>4. CASE Push(t) \/ GuaranteedPush(t) \/ Pop(t) \/ Clear(t) \/ Continue(t)
    <3>1. Effect(t)
      BY <2>2, <2>4, AllEffects
    <3>2. TypeOK' /\ FreeOnce' /\ InOnePlace' /\ CountersMarkPushes'
      BY <2>2, <3>1, TypeStep, PlaceStep, CountersStep
    <3>3. LocalsAgree' /\ StackedAreItems' /\ StackIsList'
      BY <2>2, <3>1, LocalsStep, ItemsStep
    <3>4. ~Gone'
      BY <3>2 DEF TypeOK, Gone, InitLabels, PushLabels, PopLabels, PoppedLabels
    <3>5. QED
      BY <3>2, <3>3, <3>4 DEF IInv, Invariant
  <2>5. QED
    BY <2>1, <2>3, <2>4
<1>3. QED
  BY <1>1, <1>2

-----------------------------------------------------------------------------
(* The stack implements an atomic last-in first-out stack *)

ItemsOf(s, dt) == [i \in 1..Len(s) |-> dt[s[i]]]

(* A sequence with one more value in front. *)
LEMMA OneMore ==
  ASSUME NEW S, NEW x \in S, NEW s \in Seq(S), NEW z, z = <<x>> \o s
  PROVE  /\ z \in Seq(S) /\ Len(z) = Len(s) + 1 /\ z[1] = x
         /\ \A i \in 1..Len(z) : i # 1 => z[i] = s[i - 1]
<1>1. <<x>> \in Seq(S) /\ Len(<<x>>) = 1 /\ <<x>>[1] = x /\ Len(s) \in Nat
  BY SMT
<1>2. /\ z \in Seq(S) /\ Len(z) = 1 + Len(s)
      /\ \A i \in 1..(1 + Len(s)) : z[i] = IF i <= 1 THEN <<x>>[i] ELSE s[i - 1]
  BY <1>1, ConcatProperties
<1>3. z[1] = x
  BY <1>1, <1>2, SMT
<1>4. \A i \in 1..Len(z) : i # 1 => z[i] = s[i - 1]
  BY <1>1, <1>2, SMT
<1>5. QED
  BY <1>1, <1>2, <1>3, <1>4, SMT

(* The items with one more element in front. *)
LEMMA ItemsPushed ==
  ASSUME NEW s \in Seq(Elements), NEW e \in Elements, NEW dt
  PROVE  ItemsOf(<<e>> \o s, dt) = <<dt[e]>> \o ItemsOf(s, dt)
<1> DEFINE R == {dt[x] : x \in Elements}
           a == ItemsOf(<<e>> \o s, dt)
           c == ItemsOf(s, dt)
           d == <<dt[e]>> \o c
<1>1. Len(s) \in Nat /\ \A i \in 1..Len(s) : s[i] \in Elements
  BY SMT
<1>2. PICK z : z = <<e>> \o s
  OBVIOUS
<1>3. /\ z \in Seq(Elements) /\ Len(z) = Len(s) + 1 /\ z[1] = e
      /\ \A i \in 1..Len(z) : i # 1 => z[i] = s[i - 1]
  BY <1>2, OneMore, SMT
<1>4. c \in Seq(R) /\ Len(c) = Len(s) /\ \A i \in 1..Len(s) : c[i] = dt[s[i]]
  BY <1>1, SMT DEF ItemsOf
<1>5. a \in Seq(R) /\ Len(a) = Len(z) /\ \A i \in 1..Len(z) : a[i] = dt[z[i]]
  <2>1. \A i \in 1..Len(z) : z[i] \in Elements
    BY <1>3, SMT
  <2>2. a = [i \in 1..Len(z) |-> dt[z[i]]] /\ Len(z) \in Nat
    BY <1>2, <1>3, SMT DEF ItemsOf
  <2> HIDE DEF a
  <2>3. a \in [1..Len(z) -> R]
    BY <2>1, <2>2
  <2>4. QED
    BY <2>2, <2>3, SMT
<1>6. /\ d \in Seq(R) /\ Len(d) = Len(c) + 1 /\ d[1] = dt[e]
      /\ \A i \in 1..Len(d) : i # 1 => d[i] = c[i - 1]
  <2>1. PICK x \in R : x = dt[e]
    OBVIOUS
  <2> HIDE DEF R, c
  <2>2. d = <<x>> \o c
    BY <2>1
  <2> HIDE DEF d
  <2>3. QED
    BY <1>4, <2>1, <2>2, OneMore, SMT
<1> HIDE DEF a, c, d, R
<1>7. ASSUME NEW i \in 1..Len(a) PROVE a[i] = d[i]
  <2>1. i \in 1..Len(z) /\ i \in 1..Len(d)
    BY <1>1, <1>3, <1>4, <1>5, <1>6
  <2>2. CASE i = 1
    BY <1>3, <1>5, <1>6, <2>1, <2>2
  <2>3. CASE i # 1
    <3>1. i - 1 \in 1..Len(s)
      BY <1>1, <1>3, <2>1, <2>3, SMT
    <3>2. a[i] = dt[s[i - 1]]
      BY <1>3, <1>5, <2>1, <2>3
    <3>3. d[i] = c[i - 1]
      BY <1>6, <2>1, <2>3
    <3>4. QED
      BY <1>4, <3>1, <3>2, <3>3
  <2>4. QED
    BY <2>2, <2>3
<1>8. Len(a) = Len(d)
  BY <1>3, <1>4, <1>5, <1>6
<1>9. a = d
  BY <1>5, <1>6, <1>7, <1>8, SeqEqual
<1>10. QED
  BY <1>9 DEF a, c, d

(* The items without the first element. *)
LEMMA ItemsPopped ==
  ASSUME NEW s \in Seq(Elements), s # <<>>, NEW dt
  PROVE  /\ ItemsOf(s, dt) # <<>> /\ Head(ItemsOf(s, dt)) = dt[s[1]]
         /\ ItemsOf(Tail(s), dt) = Tail(ItemsOf(s, dt))
<1> DEFINE R == {dt[x] : x \in Elements}
           z == Tail(s)
           a == ItemsOf(z, dt)
           c == ItemsOf(s, dt)
           d == Tail(c)
<1>1. Len(s) \in Nat /\ Len(s) # 0 /\ \A i \in 1..Len(s) : s[i] \in Elements
  BY EmptySeq, SMT
<1>2. z \in Seq(Elements) /\ Len(z) = Len(s) - 1 /\ \A i \in 1..Len(z) : z[i] = s[i + 1]
  BY TailProperties
<1> HIDE DEF z
<1>3. c \in Seq(R) /\ Len(c) = Len(s) /\ \A i \in 1..Len(s) : c[i] = dt[s[i]]
  BY <1>1, SMT DEF ItemsOf
<1>4. a \in Seq(R) /\ Len(a) = Len(z) /\ \A i \in 1..Len(z) : a[i] = dt[z[i]]
  <2>1. \A i \in 1..Len(z) : z[i] \in Elements
    BY <1>2, SMT
  <2>2. a = [i \in 1..Len(z) |-> dt[z[i]]] /\ Len(z) \in Nat
    BY <1>2, SMT DEF ItemsOf
  <2> HIDE DEF a
  <2>3. a \in [1..Len(z) -> R]
    BY <2>1, <2>2
  <2>4. QED
    BY <2>2, <2>3, SMT
<1> HIDE DEF a, c, R
<1>5. c # <<>> /\ Head(c) = dt[s[1]]
  <2>1. c # <<>> /\ 1 \in 1..Len(s)
    BY <1>1, <1>3, EmptySeq, SMT
  <2>2. Head(c) = c[1]
    BY <1>3, <2>1, SMT
  <2>3. QED
    BY <1>3, <2>1, <2>2
<1>6. d \in Seq(R) /\ Len(d) = Len(c) - 1 /\ \A i \in 1..Len(d) : d[i] = c[i + 1]
  BY <1>3, <1>5, TailProperties
<1> HIDE DEF d
<1>7. ASSUME NEW i \in 1..Len(a) PROVE a[i] = d[i]
  <2>1. i \in 1..Len(z) /\ i + 1 \in 1..Len(s) /\ i \in 1..Len(d)
    BY <1>1, <1>2, <1>3, <1>4, <1>6, SMT
  <2>2. QED
    <3>1. a[i] = dt[z[i]] /\ z[i] = s[i + 1]
      BY <1>2, <1>4, <2>1
    <3>2. d[i] = c[i + 1] /\ c[i + 1] = dt[s[i + 1]]
      BY <1>3, <1>6, <2>1
    <3>3. QED
      BY <3>1, <3>2
<1>8. Len(a) = Len(d)
  BY <1>2, <1>3, <1>4, <1>6
<1>9. a = d
  BY <1>4, <1>6, <1>7, <1>8, SeqEqual
<1>10. QED
  BY <1>5, <1>9 DEF a, c, d, z

(* What the atomic stack has returned to a thread at label l. *)
Shown(l, r, g, dt) ==
    CASE l = "pop_data" -> Append(g, dt[r.se.ptr])
      [] l = "pop_free" -> Append(g, r.data)
      [] OTHER -> g

Pending == {t \in Threads : pc[t] \in PopLabels}
ShownGot == [t \in Threads |-> Shown(pc[t], loc[t], got[t], data)]

(* The steps that do not change the stack, to the caller: t sees what it   *)
(* saw, perhaps with one more pop to do, or its pop finds the stack empty. *)
Answers(t) ==
    /\ \A u \in Threads \ {t} : got'[u] = got[u]
    /\ \/ /\ Shown(pc'[t], loc'[t], got'[t], data') = Shown(pc[t], loc[t], got[t], data)
          /\ pc[t] \in PopLabels => pc'[t] \in PopLabels
       \/ /\ pc[t] \in PopLabels /\ pc'[t] = "idle" /\ top.ptr = NULL
          /\ got'[t] = Append(got[t], NoItem)

(* Outside the end of a pop that is what the thread has got. *)
LEMMA ShownQuiet ==
  ASSUME NEW t \in Threads, pc'[t] # "pop_data", pc'[t] # "pop_free"
  PROVE  Shown(pc'[t], loc'[t], got'[t], data') = got'[t]
BY DEF Shown

(* So a step outside the end of a pop that gets nothing shows nothing new. *)
LEMMA QuietAnswers ==
  ASSUME NEW t \in Threads, got' = got, {pc[t], pc'[t]} \cap {"pop_data", "pop_free"} = {},
         pc[t] \in PopLabels => pc'[t] \in PopLabels
  PROVE  Answers(t)
<1>1. Shown(pc[t], loc[t], got[t], data) = got[t]
  BY DEF Shown
<1>2. Shown(pc'[t], loc'[t], got'[t], data') = got'[t]
  BY ShownQuiet
<1>3. QED
  BY <1>1, <1>2 DEF Answers

(* The calls and the steps of a push. *)
LEMMA PushAnswers ==
  ASSUME Invariant, NEW t \in Threads,
         \/ Push(t) \/ GuaranteedPush(t) \/ Pop(t) \/ Clear(t)
         \/ InitCount(t) \/ InitNextPointer(t) \/ InitNextCounter(t) \/ InitData(t)
         \/ PushReadPointer(t) \/ PushReadCounter(t)
         \/ PushWriteNextPointer(t) \/ PushWriteNextCounter(t) \/ PushDcas(t)
  PROVE  Answers(t)
<1> DEFINE Quiet == InitLabels \cup PushLabels \cup {"idle", "pop_ptr"}
<1>1. pc \in [Threads -> Labels]
  BY DEF Invariant, TypeOK, Labels, HandLabels
<1>2. "pop_data" \notin Quiet /\ "pop_free" \notin Quiet
  BY DEF InitLabels, PushLabels
<1>3. ASSUME got' = got, pc[t] \in Quiet \ {"pop_ptr"}, pc'[t] \in Quiet
      PROVE  Answers(t)
  <2>1. pc[t] \notin PopLabels
    BY <1>3 DEF InitLabels, PushLabels, PopLabels
  <2>2. {pc[t], pc'[t]} \cap {"pop_data", "pop_free"} = {}
    BY <1>2, <1>3
  <2>3. QED
    BY <1>3, <2>1, <2>2, QuietAnswers
<1>4. CASE Push(t) \/ GuaranteedPush(t) \/ Pop(t) \/ Clear(t)
  <2>1. got' = got /\ pc[t] = "idle"
    BY <1>4 DEF Push, GuaranteedPush, Pop, Clear, Call, Begin
  <2>2. \E l \in {"idle", "init_count", "pop_ptr"} : pc' = [pc EXCEPT ![t] = l]
    <3>1. pc = [pc EXCEPT ![t] = "idle"]
      BY <1>1, <2>1
    <3>2. QED
      BY <1>4, <3>1 DEF Push, GuaranteedPush, Pop, Clear, Begin
  <2>3. QED
    BY <1>1, <1>3, <2>1, <2>2 DEF InitLabels
<1>5. CASE InitCount(t) \/ InitNextPointer(t) \/ InitNextCounter(t) \/ InitData(t)
  <2>1. got' = got /\ pc[t] \in InitLabels
    BY <1>5 DEF InitCount, InitNextPointer, InitNextCounter, InitData, StoreNext, Goto, InitLabels
  <2>2. \E l \in InitLabels \cup PushLabels : pc' = [pc EXCEPT ![t] = l]
    BY <1>5 DEF InitCount, InitNextPointer, InitNextCounter, InitData, StoreNext, Goto, InitLabels, PushLabels
  <2>3. pc[t] # "pop_ptr"
    BY <2>1 DEF InitLabels
  <2>4. QED
    BY <1>1, <1>3, <2>1, <2>2, <2>3
<1>6. CASE \/ PushReadPointer(t) \/ PushReadCounter(t)
           \/ PushWriteNextPointer(t) \/ PushWriteNextCounter(t) \/ PushDcas(t)
  <2>1. got' = got /\ pc[t] \in PushLabels
    <3>1. got' = got
      BY <1>6 DEF PushReadPointer, PushReadCounter, PushWriteNextPointer, PushWriteNextCounter,
                         PushDcas, Local, StoreNext
    <3>2. pc[t] \in PushLabels
      BY <1>6 DEF PushReadPointer, PushReadCounter, PushWriteNextPointer, PushWriteNextCounter,
                         PushDcas, Local, StoreNext, Goto, PushLabels
    <3>3. QED
      BY <3>1, <3>2
  <2>2. \E l \in PushLabels \cup {"idle"} : pc' = [pc EXCEPT ![t] = l]
    BY <1>6 DEF PushReadPointer, PushReadCounter, PushWriteNextPointer, PushWriteNextCounter, PushDcas,
                Local, StoreNext, Goto, PushLabels, Return
  <2>3. pc[t] # "pop_ptr"
    BY <2>1 DEF PushLabels
  <2>4. QED
    BY <1>1, <1>3, <2>1, <2>2, <2>3
<1>7. QED
  BY <1>4, <1>5, <1>6

(* The steps of a pop, but for the dcas that takes an element. *)
LEMMA PopAnswers ==
  ASSUME Invariant, NEW t \in Threads, ~Pops(t),
         \/ PopReadPointer(t) \/ PopReadCounter(t) \/ PopLoadNextPointer(t) \/ PopLoadNextCounter(t)
         \/ PopDcas(t) \/ PopReadData(t) \/ PopFree(t)
  PROVE  Answers(t)
<1>1. /\ pc \in [Threads -> Labels] /\ loc \in [Threads -> Locals]
      /\ got \in [Threads -> Seq(Items \cup {NoItem})]
  BY DEF Invariant, TypeOK, Labels, HandLabels, Locals
<1>2. {"pop_data", "pop_free"} \cap (PopLabels \cup {"idle"}) = {}
  BY DEF PopLabels
<1>3. ASSUME got' = got, pc[t] \in PopLabels, pc'[t] \in PopLabels
      PROVE  Answers(t)
  <2>1. {pc[t], pc'[t]} \cap {"pop_data", "pop_free"} = {}
    BY <1>2, <1>3
  <2>2. QED
    BY <1>3, <2>1, QuietAnswers
<1>4. ASSUME NEW w, NEW l \in PopLabels, PopLoop(t, w, l), w.ptr = top.ptr, pc[t] \in PopLabels
      PROVE  Answers(t)
  <2>1. CASE w.ptr = NULL
    <3>1. pc' = [pc EXCEPT ![t] = "idle"] /\ got' = [got EXCEPT ![t] = Append(got[t], NoItem)]
      BY <1>4, <2>1 DEF PopLoop, Return
    <3>2. pc'[t] = "idle" /\ got'[t] = Append(got[t], NoItem) /\ \A u \in Threads \ {t} : got'[u] = got[u]
      BY <1>1, <3>1
    <3>3. QED
      BY <1>4, <2>1, <3>2 DEF Answers
  <2>2. CASE w.ptr # NULL
    <3>1. pc' = [pc EXCEPT ![t] = l] /\ got' = got
      BY <1>4, <2>2 DEF PopLoop
    <3>2. pc'[t] = l
      BY <1>1, <3>1
    <3>3. QED
      BY <1>3, <1>4, <3>1, <3>2
  <2>3. QED
    BY <2>1, <2>2
<1>5. CASE PopReadPointer(t)
  <2> DEFINE w == [loc[t].se EXCEPT !.ptr = top.ptr]
  <2>1. pc[t] = "pop_ptr" /\ PopLoop(t, w, "pop_cnt")
    BY <1>5 DEF PopReadPointer
  <2>2. w.ptr = top.ptr
    BY ThreadFacts, PacFacts, SMT DEF Invariant, TypeOK
  <2> HIDE DEF w
  <2>3. QED
    BY <1>4, <2>1, <2>2 DEF PopLabels
<1>6. CASE PopReadCounter(t) \/ PopLoadNextPointer(t) \/ PopLoadNextCounter(t)
  <2>1. got' = got /\ pc[t] \in PopLabels
    BY <1>6 DEF PopReadCounter, PopLoadNextPointer, PopLoadNextCounter, Local, Goto, PopLabels
  <2>2. \E l \in PopLabels : pc' = [pc EXCEPT ![t] = l]
    BY <1>6 DEF PopReadCounter, PopLoadNextPointer, PopLoadNextCounter, Local, Goto, PopLabels
  <2>3. QED
    BY <1>1, <1>3, <2>1, <2>2
<1>7. CASE PopDcas(t)
  <2>1. pc[t] = "pop_dcas" /\ PopLoop(t, top, "pop_next_ptr")
    BY <1>7, PopDcasTries
  <2>2. QED
    BY <1>4, <2>1 DEF PopLabels
<1>8. CASE PopReadData(t)
  <2> DEFINE r == [loc[t] EXCEPT !.data = data[loc[t].se.ptr]]
  <2>1. /\ pc[t] = "pop_data" /\ pc' = [pc EXCEPT ![t] = "pop_free"] /\ loc' = [loc EXCEPT ![t] = r]
        /\ got' = got
    BY <1>8 DEF PopReadData, Local, Goto
  <2>2. r.data = data[loc[t].se.ptr]
    BY <1>1 DEF Locals
  <2> HIDE DEF r
  <2>3. pc'[t] = "pop_free" /\ loc'[t] = r
    BY <1>1, <2>1
  <2>4. pc[t] \notin PopLabels
    BY <2>1 DEF PopLabels
  <2>5. QED
    BY <2>1, <2>2, <2>3, <2>4, SMT DEF Answers, Shown
<1>9. CASE PopFree(t)
  <2>1. PICK l \in {"pop_ptr", "idle"} : pc' = [pc EXCEPT ![t] = l]
    BY <1>9 DEF PopFree
  <2>2. pc[t] = "pop_free" /\ got' = [got EXCEPT ![t] = Append(got[t], loc[t].data)]
    BY <1>9 DEF PopFree
  <2>3. pc'[t] = l /\ got'[t] = Append(got[t], loc[t].data) /\ \A u \in Threads \ {t} : got'[u] = got[u]
    BY <1>1, <2>1, <2>2
  <2>4. pc[t] \notin PopLabels /\ l \in PopLabels \cup {"idle"}
    BY <2>1, <2>2 DEF PopLabels
  <2>5. Shown(pc[t], loc[t], got[t], data) = Append(got[t], loc[t].data)
    BY <2>2 DEF Shown
  <2>6. Shown(pc'[t], loc'[t], got'[t], data') = Shown(pc[t], loc[t], got[t], data)
    <3>1. pc'[t] # "pop_data" /\ pc'[t] # "pop_free"
      BY <1>2, <2>3, <2>4
    <3>2. Shown(pc'[t], loc'[t], got'[t], data') = got'[t]
      BY <3>1, ShownQuiet
    <3>3. got'[t] = Append(got[t], loc[t].data)
      BY <2>3
    <3>4. QED
      BY <2>5, <3>2, <3>3
  <2>7. QED
    BY <2>3, <2>4, <2>6 DEF Answers
<1>10. QED
  BY <1>5, <1>6, <1>7, <1>8, <1>9

(* A step of t shows the other threads nothing new. *)
LEMMA OthersSee ==
  ASSUME Invariant, NEW t \in Threads, NEW u \in Threads, u # t, got'[u] = got[u],
         pc'[u] = pc[u], loc'[u] = loc[u],
         \A e \in Elements : e \notin Private(t) => data'[e] = data[e]
  PROVE  Shown(pc'[u], loc'[u], got'[u], data') = Shown(pc[u], loc[u], got[u], data)
<1>1. pc[u] = "pop_data" => data'[loc[u].se.ptr] = data[loc[u].se.ptr]
  <2>1. SUFFICES ASSUME pc[u] = "pop_data" PROVE data'[loc[u].se.ptr] = data[loc[u].se.ptr]
    OBVIOUS
  <2>2. loc[u].se.ptr \in Elements /\ Private(u) = {loc[u].se.ptr}
    BY <2>1, ThreadFacts DEF HandLabels, PoppedLabels
  <2>3. loc[u].se.ptr \notin Private(t)
    BY <2>2, PrivateFacts
  <2>4. QED
    BY <2>2, <2>3
<1>2. QED
  BY <1>1 DEF Shown

(* The items on the stack. *)
LEMMA StackedItemsOf ==
  ASSUME Invariant
  PROVE  StackedItems = ItemsOf(Stacked, data) /\ Stacked \in Seq(Elements)
BY DEF StackedItems, ItemsOf, Invariant, StackIsList

(* The dcas of a push is the push of the atomic stack. *)
LEMMA PushesIsPush ==
  ASSUME WalksFindLists, Invariant, NEW t \in Threads, Pushes(t)
  PROVE  \E item \in Items : Lifo!Push(item)
<1>1. pc[t] = "push_dcas" /\ data' = data /\ got' = got
  BY DEF Pushes
<1>2. /\ pc'[t] = "idle" /\ \A u \in Threads \ {t} : pc'[u] = pc[u] /\ loc'[u] = loc[u]
  BY PushesMoves
<1> DEFINE e == loc[t].se.ptr
<1>3. e \in Elements /\ data[e] \in Items
  BY <1>1, ThreadFacts DEF Agree, PushLabels, HandLabels
<1>4. StackedItems' = <<data[e]>> \o StackedItems
  <2>1. Stacked' = <<e>> \o Stacked
    BY PushesList
  <2>2. StackedItems' = ItemsOf(Stacked', data)
    BY <1>1 DEF StackedItems, ItemsOf
  <2> HIDE DEF e
  <2>3. QED
    <3>1. Stacked \in Seq(Elements) /\ StackedItems = ItemsOf(Stacked, data)
      BY StackedItemsOf
    <3>2. ItemsOf(<<e>> \o Stacked, data) = <<data[e]>> \o ItemsOf(Stacked, data)
      BY <1>3, <3>1, ItemsPushed
    <3>3. QED
      BY <2>1, <2>2, <3>1, <3>2
<1>5. Pending' = Pending
  BY <1>1, <1>2 DEF Pending, PopLabels
<1>6. ShownGot' = ShownGot
  <2>1. \A u \in Threads : Shown(pc'[u], loc'[u], got'[u], data') = Shown(pc[u], loc[u], got[u], data)
    BY <1>1, <1>2 DEF Shown
  <2>2. QED
    BY <2>1 DEF ShownGot
<1> HIDE DEF e
<1>7. Lifo!Push(data[e])
  BY <1>4, <1>5, <1>6 DEF Lifo!Push, Pending, ShownGot, Shown
<1>8. QED
  BY <1>3, <1>7

(* The dcas of a pop is the pop of the atomic stack. *)
LEMMA PopsIsPop ==
  ASSUME WalksFindLists, Invariant, NEW t \in Threads, Pops(t)
  PROVE  Lifo!Pop(t)
<1>1. pc[t] = "pop_dcas" /\ data' = data /\ got' = got /\ loc' = loc
  BY DEF Pops
<1>2. /\ pc'[t] = "pop_data" /\ \A u \in Threads \ {t} : pc'[u] = pc[u] /\ loc'[u] = loc[u]
  BY <1>1, PopsMoves
<1>3. Stacked # <<>> /\ Stacked[1] = loc[t].se.ptr /\ Stacked' = Tail(Stacked)
  BY PopsList
<1>4. /\ StackedItems # <<>> /\ Head(StackedItems) = data[loc[t].se.ptr]
      /\ StackedItems' = Tail(StackedItems)
  <2>1. StackedItems' = ItemsOf(Stacked', data)
    BY <1>1 DEF StackedItems, ItemsOf
  <2>2. QED
    BY <1>3, <2>1, StackedItemsOf, ItemsPopped
<1>5. t \in Pending /\ Pending' = Pending \ {t}
  BY <1>1, <1>2 DEF Pending, PopLabels
<1>6. ShownGot' = [ShownGot EXCEPT ![t] = Append(ShownGot[t], Head(StackedItems))]
  <2>1. ASSUME NEW u \in Threads, u # t
        PROVE  Shown(pc'[u], loc'[u], got'[u], data') = Shown(pc[u], loc[u], got[u], data)
    BY <1>1, <1>2, <2>1
  <2>2. Shown(pc'[t], loc'[t], got'[t], data') = Append(got[t], data[loc[t].se.ptr])
    BY <1>1, <1>2 DEF Shown
  <2>3. Shown(pc[t], loc[t], got[t], data) = got[t]
    BY <1>1 DEF Shown
  <2>4. ShownGot[t] = got[t]
    BY <2>3 DEF ShownGot
  <2>5. Shown(pc'[t], loc'[t], got'[t], data') = Append(ShownGot[t], Head(StackedItems))
    BY <1>4, <2>2, <2>4
  <2>6. QED
    BY <2>1, <2>5 DEF ShownGot
<1>7. QED
  BY <1>4, <1>5, <1>6 DEF Lifo!Pop, Pending, ShownGot, Shown

(* Every other step of a call is the call of a pop, a pop that finds the   *)
(* atomic stack empty, or nothing.                                         *)
LEMMA StepIsAnswer ==
  ASSUME WalksFindLists, Invariant, NEW t \in Threads, NEW l \in Labels, NEW r \in Locals, Step(t, l, r), Answers(t)
  PROVE  Lifo!CallPop(t) \/ Lifo!PopEmpty(t) \/ UNCHANGED Lifo!vars
<1>1. /\ Stacked' = Stacked /\ \A i \in 1..Len(Stacked) : data'[Stacked[i]] = data[Stacked[i]]
  BY StepList
<1>2. StackedItems' = StackedItems
  BY <1>1 DEF StackedItems
<1>3. pc'[t] = l /\ \A u \in Threads \ {t} : pc'[u] = pc[u] /\ loc'[u] = loc[u]
  BY StepMoves
<1>4. \A u \in Threads \ {t} :
          Shown(pc'[u], loc'[u], got'[u], data') = Shown(pc[u], loc[u], got[u], data)
  <2> TAKE u \in Threads \ {t}
  <2>1. got'[u] = got[u] /\ \A e \in Elements : e \notin Private(t) => data'[e] = data[e]
    BY DEF Answers, Step
  <2>2. u \in Threads /\ u # t /\ pc'[u] = pc[u] /\ loc'[u] = loc[u]
    BY <1>3
  <2>3. QED
    BY <2>1, <2>2, OthersSee
<1>5. ASSUME Shown(pc'[t], loc'[t], got'[t], data') = Shown(pc[t], loc[t], got[t], data),
             pc[t] \in PopLabels => pc'[t] \in PopLabels
      PROVE  Lifo!CallPop(t) \/ UNCHANGED Lifo!vars
  <2>1. ShownGot' = ShownGot
    <3>1. \A u \in Threads : Shown(pc'[u], loc'[u], got'[u], data') = Shown(pc[u], loc[u], got[u], data)
      BY <1>4, <1>5
    <3>2. QED
      BY <3>1 DEF ShownGot
  <2>2. Pending' = Pending \/ Pending' = Pending \cup {t}
    BY <1>3, <1>5 DEF Pending
  <2>3. CASE Pending' = Pending
    BY <1>2, <2>1, <2>3 DEF Lifo!vars, Pending, ShownGot, Shown
  <2>4. CASE Pending' = Pending \cup {t}
    BY <1>2, <2>1, <2>4 DEF Lifo!CallPop, Pending, ShownGot, Shown
  <2>5. QED
    BY <2>2, <2>3, <2>4
<1>6. ASSUME pc[t] \in PopLabels, pc'[t] = "idle", top.ptr = NULL, got'[t] = Append(got[t], NoItem)
      PROVE  Lifo!PopEmpty(t)
  <2>1. Stacked = <<>>
    <3>1. SUFFICES ASSUME Len(Stacked) # 0 PROVE FALSE
      BY StackedItemsOf, EmptySeq
    <3>2. 1 \in 1..Len(Stacked)
      BY <3>1, StackFacts, SMT
    <3>3. top.ptr = Stacked[1] /\ Stacked[1] \in Elements
      BY <3>2, StackFacts DEF Listed, To
    <3>4. NULL \notin Elements
      BY SMT DEF Elements, NULL
    <3>5. QED
      BY <1>6, <3>3, <3>4
  <2>2. StackedItems = <<>>
    BY <2>1, SMT DEF StackedItems
  <2>3. t \in Pending /\ Pending' = Pending \ {t}
    BY <1>3, <1>6 DEF Pending, PopLabels
  <2>4. ShownGot' = [ShownGot EXCEPT ![t] = Append(ShownGot[t], NoItem)]
    <3>1. Shown(pc'[t], loc'[t], got'[t], data') = Append(got[t], NoItem)
      BY <1>6 DEF Shown
    <3>2. Shown(pc[t], loc[t], got[t], data) = got[t]
      BY <1>6 DEF Shown, PopLabels
    <3>3. QED
      BY <1>4, <3>1, <3>2 DEF ShownGot
  <2>5. QED
    BY <1>2, <2>2, <2>3, <2>4 DEF Lifo!PopEmpty, Pending, ShownGot, Shown
<1>7. QED
  BY <1>5, <1>6 DEF Answers

(* stack_delete *)
LEMMA DeleteIsDelete ==
  ASSUME WalksFindLists, Invariant, NEW t \in Threads, Delete(t)
  PROVE  Lifo!Delete(t)
<1>1. /\ \A u \in Threads : pc[u] = "idle" /\ pc'[u] = "gone"
  BY DeleteFreesAll
<1>2. got' = [got EXCEPT ![t] = got[t] \o StackedItems] /\ top' = NullPac
  BY DEF Delete
<1>3. StackedItems' = <<>>
  <2>1. Listed(top', next', <<>>)
    BY <1>2, SMT DEF Listed, To
  <2>2. Stacked' = <<>>
    BY <2>1, StackNext
  <2>3. QED
    BY <2>2, SMT DEF StackedItems
<1>4. Pending = {} /\ Pending' = {}
  BY <1>1 DEF Pending, PopLabels
<1>5. /\ ShownGot = got
      /\ ShownGot' = got'
  <2>1. /\ \A u \in Threads : Shown(pc[u], loc[u], got[u], data) = got[u]
        /\ \A u \in Threads : Shown(pc'[u], loc'[u], got'[u], data') = got'[u]
    BY <1>1 DEF Shown
  <2>2. got \in [Threads -> Seq(Items \cup {NoItem})]
    BY DEF Invariant, TypeOK
  <2>3. got = [u \in Threads |-> got[u]] /\ got' = [u \in Threads |-> got'[u]]
    BY <1>2, <2>2
  <2>4. QED
    BY <2>1, <2>3 DEF ShownGot
<1>6. ShownGot' = [ShownGot EXCEPT ![t] = ShownGot[t] \o StackedItems]
  BY <1>2, <1>5
<1>7. QED
  BY <1>3, <1>4, <1>6 DEF Lifo!Delete, Pending, ShownGot, Shown

(* Every step is a step of the atomic stack or changes nothing of it. *)
LEMMA LifoStep ==
  ASSUME WalksFindLists, IInv, [Next]_vars
  PROVE  [Lifo!Next]_(Lifo!vars)
<1>1. CASE UNCHANGED vars
  <2>1. /\ top' = top /\ next' = next /\ data' = data /\ pc' = pc /\ loc' = loc /\ got' = got
    BY <1>1 DEF vars, memory
  <2>2. Stacked' = Stacked
    BY <2>1, SMT DEF Stacked
  <2>3. QED
    BY <2>1, <2>2 DEF Lifo!vars, StackedItems
<1>2. CASE Next
  <2>1. PICK t \in Threads : Push(t) \/ GuaranteedPush(t) \/ Pop(t) \/ Clear(t) \/ Continue(t) \/ Delete(t)
    BY <1>2 DEF Next
  <2>2. Invariant
    BY <2>1, GoneIsLast DEF IInv
  <2>3. CASE Delete(t)
    BY <2>2, <2>3, DeleteIsDelete DEF Lifo!Next
  <2>4. CASE Push(t) \/ GuaranteedPush(t) \/ Pop(t) \/ Clear(t) \/ Continue(t)
    <3>1. CASE Pushes(t)
      BY <2>2, <3>1, PushesIsPush DEF Lifo!Next
    <3>2. CASE Pops(t)
      BY <2>2, <3>2, PopsIsPop DEF Lifo!Next
    <3>3. CASE ~Pushes(t) /\ ~Pops(t)
      <4>1. Answers(t)
        BY <2>2, <2>4, <3>3, PushAnswers, PopAnswers DEF Continue
      <4>2. PICK l \in Labels, r \in Locals : Step(t, l, r)
        BY <2>2, <2>4, <3>3, AllEffects DEF Effect
      <4>3. Lifo!CallPop(t) \/ Lifo!PopEmpty(t) \/ UNCHANGED Lifo!vars
        BY <2>2, <4>1, <4>2, StepIsAnswer
      <4>4. QED
        BY <4>3 DEF Lifo!Next
    <3>4. QED
      BY <3>1, <3>2, <3>3
  <2>5. QED
    BY <2>1, <2>3, <2>4
<1>3. QED
  BY <1>1, <1>2

-----------------------------------------------------------------------------
(* Walks find lists *)

INSTANCE WellFoundedInduction

(* A set of natural numbers that holds 0 and with every number the next    *)
(* one holds them all.                                                     *)
LEMMA SetInduction ==
  ASSUME NEW S, 0 \in S, \A n \in Nat : n \in S => n + 1 \in S
  PROVE  \A n \in Nat : n \in S
<1> DEFINE T == Nat \ S
<1>1. SUFFICES ASSUME T # {} PROVE FALSE
  OBVIOUS
<1>2. IsWellFoundedOn(OpToRel(<, Nat), Nat)
  BY NatLessThanWellFounded
<1>3. PICK x \in T : \A y \in T : <<y, x>> \notin OpToRel(<, Nat)
  BY <1>1, <1>2, WFMin
<1>4. x \in Nat /\ x # 0 /\ x - 1 \in Nat /\ x - 1 < x
  BY SMT
<1>5. x - 1 \notin T
  BY <1>3, <1>4 DEF OpToRel
<1>6. QED
  BY <1>4, <1>5, SMT

(* The recursion has a solution. *)
LEMMA WalkExists ==
  ASSUME NEW nx
  PROVE  \A k \in Nat : \E g : g = [n \in 0..k |-> Body(nx, g, n)]
<1> DEFINE S == {k \in Nat : \E g : g = [n \in 0..k |-> Body(nx, g, n)]}
<1>1. 0 \in S
  <2> DEFINE g == [n \in 0..0 |-> [x \in Pointers |-> <<>>]]
  <2>1. g = [n \in 0..0 |-> Body(nx, g, n)]
    BY SMT DEF Body
  <2>2. QED
    BY <2>1
<1>2. ASSUME NEW k \in Nat, k \in S PROVE k + 1 \in S
  <2>1. PICK g : g = [n \in 0..k |-> Body(nx, g, n)]
    BY <1>2
  <2> DEFINE h == [n \in 0..(k+1) |-> IF n <= k THEN g[n] ELSE Body(nx, g, n)]
  <2>2. ASSUME NEW n \in 0..(k+1) PROVE h[n] = Body(nx, h, n)
    <3>1. n # 0 => h[n-1] = g[n-1]
      BY SMT
    <3> HIDE DEF h
    <3>2. Body(nx, h, n) = Body(nx, g, n)
      BY <3>1 DEF Body
    <3>3. CASE n <= k
      BY <2>1, <3>2, <3>3, SMT DEF h
    <3>4. CASE ~(n <= k)
      BY <3>2, <3>4 DEF h
    <3>5. QED
      BY <3>3, <3>4
  <2>3. h = [n \in 0..(k+1) |-> h[n]]
    OBVIOUS
  <2> HIDE DEF h
  <2>4. h = [n \in 0..(k+1) |-> Body(nx, h, n)]
    BY <2>2, <2>3
  <2>5. QED
    BY <2>4, SMT
<1> HIDE DEF S
<1>3. \A k \in Nat : k \in S
  BY <1>1, <1>2, SetInduction
<1>4. QED
  BY <1>3 DEF S

(* One step of the walk. *)
LEMMA WalkStep ==
  ASSUME NEW nx, NEW n \in Pointers, NEW x \in Pointers
  PROVE  Walk(nx)[n][x] = IF x = NULL \/ n = 0 THEN <<>> ELSE <<x>> \o Walk(nx)[n - 1][nx[x].ptr]
<1>1. \E g : g = [k \in 0..MaxElements |-> Body(nx, g, k)]
  BY StackAssumption, WalkExists
<1>2. Walk(nx) = [k \in Pointers |-> Body(nx, Walk(nx), k)]
  BY <1>1 DEF Walk, Pointers
<1>3. Walk(nx)[n] = Body(nx, Walk(nx), n)
  BY <1>2
<1>4. QED
  BY <1>3 DEF Body

(* No function maps more than m numbers to different numbers up to m. *)
LEMMA Pigeonhole ==
  ASSUME NEW m \in Nat, NEW n \in Nat, NEW f \in [1..n -> 1..m],
         \A i, j \in 1..n : f[i] = f[j] => i = j
  PROVE  n <= m
<1> DEFINE S == {b \in Nat : \A k \in Nat : \A g \in [1..k -> 1..b] :
                   (\A i, j \in 1..k : g[i] = g[j] => i = j) => k <= b}
<1>1. 0 \in S
  <2>1. SUFFICES ASSUME NEW k \in Nat, NEW g \in [1..k -> 1..0] PROVE k <= 0
    OBVIOUS
  <2>2. k # 0 => 1 \in 1..k
    BY SMT
  <2>3. k # 0 => g[1] \in 1..0
    BY <2>2
  <2>4. QED
    BY <2>3, SMT
<1>2. ASSUME NEW b \in Nat, b \in S PROVE b + 1 \in S
  <2>a. b + 1 \in Nat /\ 0 <= b + 1
    BY SMT
  <2>1. SUFFICES ASSUME NEW k \in Nat, NEW g \in [1..k -> 1..(b + 1)], k # 0,
                        \A i, j \in 1..k : g[i] = g[j] => i = j
                 PROVE  k <= b + 1
    BY <2>a
  <2> DEFINE h == [i \in 1..(k - 1) |-> IF g[i] = b + 1 THEN g[k] ELSE g[i]]
  <2>2. k - 1 \in Nat /\ k \in 1..k /\ \A i \in 1..(k - 1) : i \in 1..k /\ i # k
    BY <2>1, SMT
  <2>3. \A i \in 1..(k - 1) : h[i] \in 1..b
    <3>1. SUFFICES ASSUME NEW i \in 1..(k - 1) PROVE h[i] \in 1..b
      OBVIOUS
    <3>2. g[i] \in 1..(b + 1) /\ g[k] \in 1..(b + 1) /\ g[i] # g[k]
      BY <2>1, <2>2
    <3>3. h[i] = IF g[i] = b + 1 THEN g[k] ELSE g[i]
      OBVIOUS
    <3>4. QED
      BY <3>2, <3>3, SMT
  <2>4. h \in [1..(k - 1) -> 1..b]
    BY <2>3
  <2>5. \A i, j \in 1..(k - 1) : h[i] = h[j] => i = j
    <3>1. SUFFICES ASSUME NEW i \in 1..(k - 1), NEW j \in 1..(k - 1), h[i] = h[j] PROVE i = j
      OBVIOUS
    <3>2. h[i] = (IF g[i] = b + 1 THEN g[k] ELSE g[i]) /\ h[j] = (IF g[j] = b + 1 THEN g[k] ELSE g[j])
      OBVIOUS
    <3>3. g[i] # g[k] /\ g[j] # g[k] /\ (g[i] = g[j] => i = j)
      BY <2>1, <2>2
    <3>4. QED
      BY <3>1, <3>2, <3>3
  <2>6. k - 1 <= b
    BY <1>2, <2>2, <2>4, <2>5
  <2>7. QED
    BY <2>1, <2>6, SMT
<1>3. m \in S
  <2> HIDE DEF S
  <2>1. QED
    BY <1>1, <1>2, SetInduction
<1>4. QED
  BY <1>3

(* A sequence of elements without repetition is no longer than their       *)
(* number.                                                                 *)
LEMMA DistinctLength ==
  ASSUME NEW s \in Seq(Elements), \A i, j \in 1..Len(s) : s[i] = s[j] => i = j
  PROVE  Len(s) <= MaxElements
<1>1. MaxElements \in Nat /\ Len(s) \in Nat /\ s \in [1..Len(s) -> 1..MaxElements]
  BY StackAssumption, SMT DEF Elements
<1>2. QED
  BY <1>1, Pigeonhole

(* The walk finds it. *)
LEMMA WalkIsList ==
  ASSUME NEW nx, NEW p, NEW s, IsList(nx, p, s)
  PROVE  Walk(nx)[MaxElements][p] = s
<1> DEFINE m == Len(s)
           at(i) == IF i <= m THEN s[i] ELSE NULL
           rest(i) == SubSeq(s, i, m)
           S == {r \in Nat : r <= m => \A n \in r..MaxElements : Walk(nx)[n][at(m + 1 - r)] = rest(m + 1 - r)}
<1>1. /\ m \in Nat /\ m <= MaxElements /\ MaxElements \in Nat /\ s \in Seq(Elements)
      /\ \A i \in 1..m : s[i] \in Elements
      /\ \A i \in 1..m : nx[s[i]].ptr = at(i + 1)
  <2>1. m \in Nat /\ m <= MaxElements /\ MaxElements \in Nat /\ s \in Seq(Elements)
    BY StackAssumption, SMT DEF IsList
  <2>2. \A i \in 1..m : s[i] \in Elements
    BY <2>1, SMT
  <2>3. \A i \in 1..m : nx[s[i]].ptr = at(i + 1)
    BY <2>1, SMT DEF IsList
  <2>4. QED
    BY <2>1, <2>2, <2>3
<1>2. 0 \in S
  <2>1. SUFFICES ASSUME NEW n \in 0..MaxElements PROVE Walk(nx)[n][at(m + 1)] = rest(m + 1)
    BY <1>1, SMT
  <2>2. at(m + 1) = NULL /\ NULL \in Pointers
    BY <1>1, SMT DEF NULL, Pointers
  <2>3. rest(m + 1) = <<>>
    BY <1>1, EndProperties
  <2>4. n \in Pointers
    BY DEF Pointers
  <2>5. Walk(nx)[n][NULL] = <<>>
    BY <2>2, <2>4, WalkStep
  <2>6. QED
    BY <2>2, <2>3, <2>5
<1>3. ASSUME NEW r \in Nat, r \in S PROVE r + 1 \in S
  <2>1. SUFFICES ASSUME r + 1 <= m, NEW n \in (r + 1)..MaxElements
                 PROVE  Walk(nx)[n][at(m + 1 - (r + 1))] = rest(m + 1 - (r + 1))
    BY SMT
  <2>a. m \in Nat
    BY <1>1
  <2>2. PICK i \in 1..m : i = m + 1 - (r + 1)
    <3> HIDE DEF m
    <3>1. m + 1 - (r + 1) \in 1..m
      BY <2>a, <2>1, SMT
    <3>2. QED
      BY <3>1
  <2>3. at(i) = s[i] /\ s[i] \in Elements /\ s[i] \in Pointers /\ s[i] # NULL
    BY <1>1, SMT DEF Elements, Pointers, NULL
  <2>4. n \in Pointers /\ n # 0 /\ n - 1 \in r..MaxElements
    BY <1>1, <2>1, SMT DEF Pointers
  <2>5. Walk(nx)[n][s[i]] = <<s[i]>> \o Walk(nx)[n - 1][nx[s[i]].ptr]
    BY <2>3, <2>4, WalkStep
  <2>6. Walk(nx)[n - 1][at(i + 1)] = rest(i + 1)
    <3>1. i + 1 = m + 1 - r /\ r <= m
      BY <1>1, <2>1, <2>2, SMT
    <3>2. QED
      BY <1>3, <2>4, <3>1
  <2>7. rest(i) = <<s[i]>> \o rest(i + 1)
    <3>1. /\ s \in Seq(Elements) /\ i \in 1..Len(s) /\ Len(s) \in 1..Len(s) /\ i <= Len(s)
      BY <1>1, SMT
    <3>2. QED
      BY <3>1, EndProperties
  <2>8. QED
    BY <1>1, <2>2, <2>3, <2>5, <2>6, <2>7
<1>4. m \in S
  <2> HIDE DEF S
  <2>1. QED
    BY <1>1, <1>2, <1>3, SetInduction
<1>5. Walk(nx)[MaxElements][at(1)] = rest(1)
  BY <1>1, <1>4, SMT
<1>6. p = at(1)
  BY <1>1, SMT DEF IsList
<1>7. rest(1) = s
  BY <1>1, EndProperties
<1>8. QED
  BY <1>5, <1>6, <1>7

(* The walk finds the list. *)
LEMMA WalkIsListed ==
  ASSUME NEW tp, NEW nx, NEW s, Listed(tp, nx, s)
  PROVE  Walk(nx)[MaxElements][tp.ptr] = s
<1>1. s \in Seq(Elements) /\ Len(s) \in Nat /\ Len(s) <= MaxElements
  BY DistinctLength, SMT DEF Listed
<1>2. ASSUME NEW i \in 1..Len(s)
      PROVE  nx[s[i]].ptr = IF i < Len(s) THEN s[i + 1] ELSE NULL
  <2>1. To(tp, nx, s, i + 1) = nx[s[i]]
    BY <1>1, SMT DEF To
  <2>2. CASE i < Len(s)
    BY <1>1, <2>1, <2>2, SMT DEF Listed
  <2>3. CASE i = Len(s)
    BY <1>1, <2>1, <2>3, SMT DEF Listed, NullPac
  <2>4. QED
    BY <1>1, <2>2, <2>3, SMT
<1>3. tp.ptr = IF s = <<>> THEN NULL ELSE s[1]
  <2>1. To(tp, nx, s, 1) = tp
    BY DEF To
  <2>2. CASE s = <<>>
    BY <2>1, <2>2, SMT DEF Listed, NullPac
  <2>3. CASE s # <<>>
    BY <1>1, <2>1, <2>3, EmptySeq, SMT DEF Listed
  <2>4. QED
    BY <2>2, <2>3
<1>4. QED
  BY <1>1, <1>2, <1>3, WalkIsList, SMT DEF IsList

(* So the hypothesis of the lemmas above holds. *)
LEMMA ListsAreFound == WalksFindLists
BY WalkIsListed DEF WalksFindLists

-----------------------------------------------------------------------------
(* The theorems *)

(***************************************************************************)
(* The inductive invariant of the stack holds: ss->top leads to a list of  *)
(* elements without repetition, every element is in one place, no counter  *)
(* is used by two pushes, and the words a call holds agree with the memory *)
(* wherever its dcas would succeed.                                        *)
(***************************************************************************)
THEOREM Invariance == Spec => []IInv
<1>1. Init => IInv
  BY InitOK, ListsAreFound
<1>2. IInv /\ [Next]_vars => IInv'
  BY InvStep, ListsAreFound
<1>3. QED
  BY <1>1, <1>2, PTL DEF Spec

(***************************************************************************)
(* The stack of lf_stack.c is an atomic last-in first-out stack to any     *)
(* number of threads: a push takes effect at the dcas of line 74 that      *)
(* succeeds, a pop at the one of line 88, or where it finds ss->top NULL.  *)
(***************************************************************************)
THEOREM StackIsAtomicLifo == Spec => IsAtomicLifo
<1>1. Init => Lifo!Init
  <2>1. SUFFICES ASSUME Init PROVE Lifo!Init
    OBVIOUS
  <2>2. \A t \in Threads : pc[t] = "idle" /\ got[t] = <<>>
    BY <2>1 DEF Init
  <2>3. StackedItems = <<>>
    <3>1. Listed(top, next, <<>>)
      BY <2>1, SMT DEF Init, Listed, To
    <3>2. Stacked = <<>>
      BY <3>1, StackedIsWalk, ListsAreFound DEF WalksFindLists
    <3>3. QED
      BY <3>2, SMT DEF StackedItems
  <2>4. Pending = {}
    BY <2>2 DEF Pending, PopLabels
  <2>5. ShownGot = [t \in Threads |-> <<>>]
    BY <2>2 DEF ShownGot, Shown
  <2>6. QED
    BY <2>3, <2>4, <2>5 DEF Lifo!Init, Pending, ShownGot, Shown
<1>2. IInv /\ [Next]_vars => [Lifo!Next]_(Lifo!vars)
  BY LifoStep, ListsAreFound
<1>3. QED
  BY <1>1, <1>2, Invariance, PTL DEF Spec, IsAtomicLifo, Lifo!Spec

-----------------------------------------------------------------------------
(* How many elements there are *)

INSTANCE FiniteSetTheorems

(* A sequence of elements without repetition. *)
LEMMA DistinctFacts ==
  ASSUME NEW s \in Seq(Elements), \A i, j \in 1..Len(s) : s[i] = s[j] => i = j
  PROVE  /\ IsFiniteSet(ElementsIn(s)) /\ Cardinality(ElementsIn(s)) = Len(s)
         /\ Len(s) <= MaxElements
<1>1. IsFiniteSet(Elements) /\ Cardinality(Elements) = MaxElements /\ MaxElements \in Nat
  BY StackAssumption, FS_Interval, SMT DEF Elements
<1>2. Len(s) \in Nat /\ \A i \in 1..Len(s) : s[i] \in Elements
  BY SMT
<1>3. ElementsIn(s) \subseteq Elements
  BY <1>2 DEF ElementsIn
<1>4. IsFiniteSet(ElementsIn(s)) /\ Cardinality(ElementsIn(s)) <= MaxElements
  BY <1>1, <1>3, FS_Subset
<1> DEFINE f == [i \in 1..Len(s) |-> s[i]]
<1>5. Cardinality(ElementsIn(s)) = Len(s)
  <2>1. ExistsBijection(1..Len(s), ElementsIn(s))
    <3>1. f \in [1..Len(s) -> ElementsIn(s)]
      BY DEF ElementsIn
    <3>2. f \in Injection(1..Len(s), ElementsIn(s))
      BY <3>1 DEF Injection, IsInjective
    <3>3. f \in Surjection(1..Len(s), ElementsIn(s))
      BY <3>1 DEF Surjection, ElementsIn
    <3>4. QED
      BY <3>2, <3>3 DEF ExistsBijection, Bijection
  <2>2. QED
    BY <1>2, <2>1, FS_CountingElements
<1>6. QED
  BY <1>4, <1>5

(***************************************************************************)
(* stack_push, stack_guaranteed_push, stack_pop and stack_clear by any     *)
(* number of threads keep every element on the free list, on the stack or  *)
(* in the hands of one thread, and once there; stack_delete frees all.     *)
(***************************************************************************)
THEOREM AlwaysConserved == Spec => []ElementsConserved
<1>1. ASSUME IInv PROVE ElementsConserved
  <2>1. CASE Gone
    BY <1>1, <2>1 DEF IInv, ElementsConserved
  <2>2. CASE ~Gone
    <3>1. Invariant
      BY <1>1, <2>2 DEF IInv
    <3>2. Cardinality(ElementsIn(fs)) = Len(fs)
      BY <3>1, DistinctFacts DEF Invariant, TypeOK, FreeOnce
    <3>3. Cardinality(ElementsIn(Stacked)) = Len(Stacked)
      BY <3>1, DistinctFacts DEF Invariant, StackIsList
    <3>4. Partition(ElementsIn(fs), ElementsIn(Stacked), [t \in Threads |-> Private(t)], element_count)
      BY <3>1 DEF Invariant, InOnePlace
    <3>5. {[u \in Threads |-> Private(u)][t] : t \in Threads} = {Private(t) : t \in Threads}
      OBVIOUS
    <3>6. /\ ElementsIn(fs) \cap ElementsIn(Stacked) = {}
          /\ \A t \in Threads : Private(t) \cap (ElementsIn(fs) \cup ElementsIn(Stacked)) = {}
          /\ \A t, u \in Threads : t # u => Private(t) \cap Private(u) = {}
          /\ ElementsIn(fs) \cup ElementsIn(Stacked) \cup UNION {Private(t) : t \in Threads} = 1..element_count
      BY <3>4, <3>5 DEF Partition
    <3>7. QED
      BY <2>2, <3>2, <3>3, <3>6 DEF ElementsConserved
  <2>3. QED
    BY <2>1, <2>2
<1>2. QED
  BY <1>1, Invariance, PTL
=============================================================================
