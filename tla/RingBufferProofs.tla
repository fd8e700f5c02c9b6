-------------------------- MODULE RingBufferProofs --------------------------
(***************************************************************************)
(* Proofs about RingBuffer, for every finite set of threads, every number  *)
(* of elements and every bound on the calls.                               *)
(***************************************************************************)
EXTENDS RingBuffer, FiniteSetTheorems, SequenceTheorems, TLAPS

(* A step is proved by Zenon; a step with arithmetic, sequences or records *)
(* cites SMT.                                                              *)
USE Zenon

(* What dropping the last item of a sequence leaves. *)
LEMMA FrontFacts ==
  ASSUME NEW S, NEW s \in Seq(S), s # <<>>
  PROVE  LET f == SubSeq(s, 1, Len(s) - 1)
         IN  /\ f \in Seq(S)
             /\ Len(f) = Len(s) - 1
             /\ \A i \in 1..Len(f) : f[i] = s[i]
             /\ Len(s) \in 1..Len(s)
             /\ s[Len(s)] \in S
<1> DEFINE n == Len(s) - 1
<1>1. Len(s) > 0
  BY EmptySeq, SMT
<1>2. n \in Nat /\ 1 \in Int /\ n + 1 = Len(s) /\ \A i \in 1..n : s[i] \in S
  BY <1>1, SMT
<1>3. /\ SubSeq(s, 1, n) \in Seq(S)
      /\ Len(SubSeq(s, 1, n)) = IF 1 <= n THEN n - 1 + 1 ELSE 0
      /\ \A i \in 1..(n - 1 + 1) : SubSeq(s, 1, n)[i] = s[1 + i - 1]
  <2> HIDE DEF n
  <2>1. n \in Int
    BY <1>2, SMT
  <2>2. QED
    BY <1>2, <2>1, SubSeqProperties, SMT
<1> DEFINE f == SubSeq(s, 1, n)
<1>4. f \in Seq(S) /\ Len(f) = n /\ \A i \in 1..n : f[i] = s[i]
  <2> HIDE DEF n
  <2>1. QED
    BY <1>2, <1>3, SMT
<1>5. QED
  BY <1>1, <1>4, SMT

(* The items of a sequence after an item is appended. *)
LEMMA AppendItems ==
  ASSUME NEW S, NEW s \in Seq(S), NEW x \in S
  PROVE  /\ Append(s, x) \in Seq(S)
         /\ Len(Append(s, x)) = Len(s) + 1
         /\ ItemsIn(Append(s, x)) = ItemsIn(s) \cup {x}
<1>1. /\ Append(s, x) \in Seq(S) /\ Len(Append(s, x)) = Len(s) + 1
      /\ Append(s, x)[Len(s) + 1] = x
      /\ \A i \in 1..Len(s) : Append(s, x)[i] = s[i]
  BY SMT
<1> DEFINE a == Append(s, x)
<1> HIDE DEF a
<1>2. Len(s) \in Nat /\ 1..(Len(s) + 1) = (1..Len(s)) \cup {Len(s) + 1}
  BY SMT
<1>3. ItemsIn(a) = ItemsIn(s) \cup {x}
  BY <1>1, <1>2 DEF ItemsIn, a
<1>4. QED
  BY <1>1, <1>3 DEF a

Injective(s) == \A i, j \in 1..Len(s) : s[i] = s[j] => i = j

(* A list without duplicates loses its last element by a pop, and gets no  *)
(* duplicate by a push of an element that is not on it.                    *)
LEMMA PopItems ==
  ASSUME NEW S, NEW s \in Seq(S), s # <<>>, Injective(s)
  PROVE  LET f == SubSeq(s, 1, Len(s) - 1)
         IN  /\ Injective(f)
             /\ s[Len(s)] \in ItemsIn(s)
             /\ ItemsIn(f) = ItemsIn(s) \ {s[Len(s)]}
<1> DEFINE f == SubSeq(s, 1, Len(s) - 1)
<1>1. f \in Seq(S) /\ Len(f) = Len(s) - 1 /\ (\A i \in 1..Len(f) : f[i] = s[i]) /\ Len(s) \in 1..Len(s)
  BY FrontFacts
<1> HIDE DEF f
<1>2. Len(s) \in Nat /\ 1..Len(f) = (1..Len(s)) \ {Len(s)}
  BY <1>1, SMT
<1>3. Injective(f)
  BY <1>1, <1>2 DEF Injective
<1>4. ItemsIn(f) = ItemsIn(s) \ {s[Len(s)]}
  BY <1>1, <1>2, SMT DEF Injective, ItemsIn
<1>5. QED
  BY <1>1, <1>3, <1>4 DEF ItemsIn, f

(* What a queue holds after a push of an element it does not hold. *)
LEMMA PushItems ==
  ASSUME NEW S, NEW s \in Seq(S), NEW x \in S, Injective(s), x \notin ItemsIn(s)
  PROVE  Injective(Append(s, x)) /\ ItemsIn(Append(s, x)) = ItemsIn(s) \cup {x}
<1> DEFINE a == Append(s, x)
<1>1. /\ Len(a) = Len(s) + 1
      /\ a[Len(s) + 1] = x
      /\ \A i \in 1..Len(s) : a[i] = s[i]
  BY SMT
<1> HIDE DEF a
<1>2. Len(s) \in Nat /\ 1..Len(a) = (1..Len(s)) \cup {Len(s) + 1} /\ Len(s) + 1 \notin 1..Len(s)
  BY <1>1, SMT
<1>3. Injective(a)
  BY <1>1, <1>2 DEF Injective, ItemsIn
<1>4. QED
  BY <1>3, AppendItems, SMT DEF a

-----------------------------------------------------------------------------
(* Every step keeps the types.                                             *)
LEMMA TypeStep == TypeOK /\ OnePlace /\ [Next]_vars => TypeOK'
<1> SUFFICES ASSUME TypeOK, OnePlace, [Next]_vars PROVE TypeOK'
  OBVIOUS
<1>0. ASSUME NEW t \in Threads, pc[t] \in HoldLabels PROVE fe[t] \in Elements
  BY <1>0 DEF OnePlace, TypeOK
<1>1. ASSUME NEW t \in Threads, GetWrite(t) \/ GetRead(t) PROVE TypeOK'
  <2>1. \E to \in Labels : Call(t, to)
    BY <1>1 DEF GetWrite, GetRead, Labels, WriteLabels
  <2>2. QED
    BY <2>1, SMT DEF Call, Goto, TypeOK, history
<1>2. ASSUME NEW t \in Threads, GetWritePop(t) PROVE TypeOK'
  <2>1. CASE fs = <<>>
    BY <1>2, <2>1 DEF GetWritePop, Goto, TypeOK, Labels, WriteLabels, history
  <2>2. CASE fs # <<>>
    <3>1. fs \in Seq(Elements) /\ fs' = SubSeq(fs, 1, Len(fs) - 1)
      BY <1>2, <2>2 DEF GetWritePop, TypeOK
    <3>1a. fs' \in Seq(Elements) /\ fs[Len(fs)] \in Elements
      BY <2>2, <3>1, FrontFacts
    <3>2. QED
      BY <1>2, <2>2, <3>1a DEF GetWritePop, Goto, TypeOK, Labels, WriteLabels, history
  <2>3. QED
    BY <2>1, <2>2
<1>3. ASSUME NEW t \in Threads, NEW from, NEW to \in Labels, Dequeue(t, from, to) PROVE TypeOK'
  BY <1>3 DEF Dequeue, Goto, TypeOK, history
<1>4. ASSUME NEW t \in Threads, NEW from, NEW to \in Labels, DequeueEmpty(t, from, to) PROVE TypeOK'
  BY <1>4 DEF DequeueEmpty, Goto, TypeOK, history
<1>5. ASSUME NEW t \in Threads, ReadFree(t) PROVE TypeOK'
  <2>1. data[fe[t]] \in Values
    BY <1>0, <1>5 DEF ReadFree, Goto, HoldLabels, TypeOK
  <2>2. read' \in Seq(Values)
    BY <1>5, <2>1, AppendItems DEF ReadFree, TypeOK
  <2>3. QED
    BY <1>5, <2>2, SMT DEF ReadFree, Goto, TypeOK, Labels, HoldLabels
<1>6. ASSUME NEW t \in Threads, WriteFree(t) PROVE TypeOK'
  <2>1. data[fe[t]] \in Values
    BY <1>0, <1>6 DEF WriteFree, Overwrite, Goto, HoldLabels, TypeOK
  <2>2. overwritten' \in Seq(Values)
    BY <1>6, <2>1, AppendItems DEF WriteFree, Overwrite, TypeOK
  <2>3. QED
    BY <1>6, <2>2, SMT DEF WriteFree, Overwrite, Goto, TypeOK, Labels, WriteLabels
<1>7. ASSUME NEW t \in Threads, PutRead(t) PROVE TypeOK'
  <2>1. fs' \in Seq(Elements)
    BY <1>0, <1>7, AppendItems DEF PutRead, Goto, HoldLabels, TypeOK
  <2>2. QED
    BY <1>7, <2>1 DEF PutRead, Goto, TypeOK, Labels, history
<1>8. ASSUME NEW t \in Threads, PutWrite(t) PROVE TypeOK'
  <2>1. <<t, calls[t]>> \in Threads \X Nat /\ <<t, calls[t]>> \in Values
    BY DEF TypeOK, Values
  <2>2. data' \in [Elements -> Values] /\ written' \in SUBSET (Threads \X Nat)
    BY <1>8, <2>1 DEF PutWrite, TypeOK
  <2>3. nodes' \in Nat
    BY <1>8, SMT DEF PutWrite, TypeOK
  <2>4. pc' \in [Threads -> Labels] /\ fe' \in [Threads -> Elements \cup {NULL}]
    BY <1>8 DEF PutWrite, Goto, TypeOK, Labels, HoldLabels
  <2>5. QED
    BY <1>8, <2>2, <2>3, <2>4 DEF PutWrite, TypeOK
<1>9. ASSUME NEW t \in Threads, PutLink(t) PROVE TypeOK'
  <2>1. fe[t] \in Elements
    BY <1>0, <1>9 DEF PutLink, Goto, HoldLabels
  <2>2. QED
    BY <1>9, <2>1 DEF PutLink, Goto, TypeOK, Labels, history
<1>10. ASSUME NEW t \in Threads, Delete(t) PROVE TypeOK'
  BY <1>10, SMT DEF Delete, TypeOK, ElementsFree, Labels, history
<1>11. CASE UNCHANGED vars
  BY <1>11 DEF vars, TypeOK
<1>12. {"write_free", "read_free", "idle", "write_pop"} \subseteq Labels
  BY DEF Labels, WriteLabels, HoldLabels
<1>13. QED
  BY <1>1, <1>2, <1>3, <1>4, <1>5, <1>6, <1>7, <1>8, <1>9, <1>10, <1>11, <1>12
     DEF Next, Continue, GetWriteSteps, GetReadSteps

-----------------------------------------------------------------------------
(* Every step leaves every element in one place, as long as no put fails.  *)
LEMMA PlaceStep == TypeOK /\ OnePlace /\ PutWriteNeverFails /\ [Next]_vars => OnePlace'
<1> SUFFICES ASSUME TypeOK, OnePlace, PutWriteNeverFails, [Next]_vars PROVE OnePlace'
  OBVIOUS
<1> DEFINE H == {fe[t] : t \in Held}
<1>a. /\ fs \in Seq(Elements) /\ linked \subseteq Elements
      /\ pc \in [Threads -> Labels] /\ fe \in [Threads -> Elements \cup {NULL}]
      /\ NULL \notin Elements
  BY RingBufferAssumption, SMT DEF TypeOK, NULL, Elements
<1>b. /\ Injective(fs) /\ ElementsFree = ItemsIn(fs)
      /\ ElementsFree \cap linked = {}
      /\ \A t \in Threads : fe[t] # NULL <=> pc[t] \in HoldLabels
      /\ \A t \in Held : fe[t] \notin ElementsFree \cup linked
      /\ \A t, u \in Held : fe[t] = fe[u] => t = u
      /\ ElementsFree \cup linked \cup H = Elements
  BY DEF OnePlace, Injective, ItemsIn, ElementsFree
<1>c. Held = {t \in Threads : pc[t] \in HoldLabels}
  BY <1>b DEF Held
(* What is to be shown, for the new free list F. *)
<1>d. ASSUME Injective(fs)', ItemsIn(fs)' \cap linked' = {},
             \A t \in Threads : fe'[t] # NULL <=> pc'[t] \in HoldLabels,
             \A t \in Held' : fe'[t] \notin ItemsIn(fs)' \cup linked',
             \A t, u \in Held' : fe'[t] = fe'[u] => t = u,
             ItemsIn(fs)' \cup linked' \cup {fe'[t] : t \in Held'} = Elements
      PROVE  OnePlace'
  BY <1>d DEF OnePlace, Injective, ItemsIn, ElementsFree
<1>1. ASSUME UNCHANGED <<fs, linked, fe>>, \A t \in Threads : pc'[t] \in HoldLabels <=> pc[t] \in HoldLabels
      PROVE  OnePlace'
  BY <1>1, <1>b, SMT DEF OnePlace, Held, ElementsFree
<1>2. ASSUME NEW t \in Threads, GetWrite(t) \/ GetRead(t) PROVE OnePlace'
  <2>1. UNCHANGED <<fs, linked, fe>> /\ pc[t] = "idle" /\ \E to \in {"write_pop", "read_dequeue"} : pc' = [pc EXCEPT ![t] = to]
    BY <1>2 DEF GetWrite, GetRead, Call, Goto
  <2>2. QED
    BY <1>1, <1>a, <2>1 DEF HoldLabels
<1>3. ASSUME NEW t \in Threads, GetWritePop(t), fs = <<>> PROVE OnePlace'
  <2>1. UNCHANGED <<fs, linked, fe>> /\ pc[t] = "write_pop" /\ pc' = [pc EXCEPT ![t] = "write_dequeue"]
    BY <1>3 DEF GetWritePop, Goto
  <2>2. QED
    BY <1>1, <1>a, <2>1 DEF HoldLabels
<1>4. ASSUME NEW t \in Threads, GetWritePop(t), fs # <<>> PROVE OnePlace'
  <2> DEFINE e == fs[Len(fs)]
  <2>1. /\ pc[t] = "write_pop" /\ pc' = [pc EXCEPT ![t] = "writing"]
        /\ fe' = [fe EXCEPT ![t] = e] /\ linked' = linked
        /\ fs' = SubSeq(fs, 1, Len(fs) - 1)
    BY <1>4 DEF GetWritePop, Goto
  <2>2. Injective(fs') /\ e \in ItemsIn(fs) /\ ItemsIn(fs') = ItemsIn(fs) \ {e}
    BY <1>4, <1>a, <1>b, <2>1, PopItems
  <2>3. e \in Elements
    BY <1>b, <2>2
  <2> HIDE DEF e
  <2>4. t \notin Held /\ Held' = Held \cup {t}
    BY <1>a, <1>b, <1>c, <2>1, <2>3, SMT DEF Held, HoldLabels
  <2>5. fe'[t] = e /\ \A u \in Held : fe'[u] = fe[u]
    BY <1>a, <2>1, <2>4 DEF Held
  <2>6. \A u \in Threads : fe'[u] # NULL <=> pc'[u] \in HoldLabels
    BY <1>a, <1>b, <2>1, <2>3 DEF HoldLabels
  <2>7. {fe'[u] : u \in Held'} = H \cup {e}
    BY <2>4, <2>5
  <2>8. QED
    BY <1>b, <1>d, <2>1, <2>2, <2>3, <2>4, <2>5, <2>6, <2>7, SMT
<1>5. ASSUME NEW t \in Threads, NEW from, NEW to,
             <<from, to>> \in {<<"read_dequeue", "read_free">>, <<"write_dequeue", "write_free">>},
             Dequeue(t, from, to)
      PROVE  OnePlace'
  <2>1. PICK e \in linked : linked' = linked \ {e} /\ fe' = [fe EXCEPT ![t] = e]
    BY <1>5 DEF Dequeue
  <2>2. fs' = fs /\ pc[t] \notin HoldLabels /\ to \in HoldLabels /\ pc' = [pc EXCEPT ![t] = to]
    BY <1>5 DEF Dequeue, Goto, HoldLabels
  <2>3. e \in Elements
    BY <1>a, <2>1
  <2>4. t \notin Held /\ Held' = Held \cup {t}
    BY <1>a, <1>b, <1>c, <2>1, <2>2, <2>3, SMT DEF Held
  <2>5. fe'[t] = e /\ \A u \in Held : fe'[u] = fe[u]
    BY <1>a, <2>1, <2>4 DEF Held
  <2>6. \A u \in Threads : fe'[u] # NULL <=> pc'[u] \in HoldLabels
    BY <1>a, <1>b, <2>1, <2>2, <2>3
  <2>7. {fe'[u] : u \in Held'} = H \cup {e}
    BY <2>4, <2>5
  <2>8. ItemsIn(fs)' = ItemsIn(fs) /\ Injective(fs)'
    BY <1>b, <2>2
  <2>9. QED
    BY <1>b, <1>d, <2>1, <2>3, <2>4, <2>5, <2>6, <2>7, <2>8, SMT
<1>6. ASSUME NEW t \in Threads, NEW from, NEW to,
             <<from, to>> \in {<<"read_dequeue", "idle">>, <<"write_dequeue", "write_pop">>},
             DequeueEmpty(t, from, to)
      PROVE  OnePlace'
  <2>1. UNCHANGED <<fs, linked, fe>> /\ pc[t] \notin HoldLabels /\ to \notin HoldLabels /\ pc' = [pc EXCEPT ![t] = to]
    BY <1>6 DEF DequeueEmpty, Goto, HoldLabels
  <2>2. QED
    BY <1>1, <1>a, <2>1
<1>7. ASSUME NEW t \in Threads, ReadFree(t) \/ WriteFree(t) PROVE OnePlace'
  <2>1. /\ UNCHANGED <<fs, linked, fe>> /\ pc[t] \in HoldLabels
        /\ \E to \in HoldLabels : pc' = [pc EXCEPT ![t] = to]
    BY <1>7 DEF ReadFree, WriteFree, Overwrite, Goto, HoldLabels
  <2>2. QED
    BY <1>1, <1>a, <2>1
<1>8. ASSUME NEW t \in Threads, NEW to, to \notin HoldLabels, t \in Held,
             fe' = [fe EXCEPT ![t] = NULL], pc' = [pc EXCEPT ![t] = to]
      PROVE  /\ Held' = Held \ {t}
             /\ \A u \in Held' : fe'[u] = fe[u] /\ fe[u] # fe[t]
             /\ \A u \in Threads : fe'[u] # NULL <=> pc'[u] \in HoldLabels
             /\ {fe'[u] : u \in Held'} = H \ {fe[t]}
             /\ fe[t] \in H
  <2>1. Held' = Held \ {t}
    BY <1>8, <1>a DEF Held
  <2>2. \A u \in Held' : fe'[u] = fe[u] /\ fe[u] # fe[t]
    BY <1>8, <1>a, <1>b, <2>1 DEF Held
  <2>3. \A u \in Threads : fe'[u] # NULL <=> pc'[u] \in HoldLabels
    BY <1>8, <1>a, <1>b DEF Held
  <2>4. {fe'[u] : u \in Held'} = H \ {fe[t]}
    BY <1>8, <2>1, <2>2
  <2>5. QED
    BY <1>8, <2>1, <2>2, <2>3, <2>4
<1>9. ASSUME NEW t \in Threads, PutRead(t) PROVE OnePlace'
  <2>1. /\ pc[t] = "reading" /\ pc' = [pc EXCEPT ![t] = "idle"] /\ linked' = linked
        /\ fe' = [fe EXCEPT ![t] = NULL] /\ fs' = Append(fs, fe[t])
    BY <1>9 DEF PutRead, Goto
  <2>2. t \in Held /\ "idle" \notin HoldLabels
    BY <1>c, <2>1 DEF HoldLabels
  <2>3. fe[t] \in Elements /\ fe[t] \notin ItemsIn(fs)
    BY <1>a, <1>b, <2>2 DEF Held
  <2>4. Injective(fs)' /\ ItemsIn(fs)' = ItemsIn(fs) \cup {fe[t]}
    BY <1>a, <1>b, <2>1, <2>3, PushItems, SMT
  <2>5. /\ Held' = Held \ {t}
        /\ \A u \in Held' : fe'[u] = fe[u] /\ fe[u] # fe[t]
        /\ \A u \in Threads : fe'[u] # NULL <=> pc'[u] \in HoldLabels
        /\ {fe'[u] : u \in Held'} = H \ {fe[t]}
        /\ fe[t] \in H
    BY <1>8, <2>1, <2>2
  <2>6. QED
    BY <1>b, <1>d, <2>1, <2>2, <2>3, <2>4, <2>5, SMT
<1>10. ASSUME NEW t \in Threads, PutWrite(t) PROVE OnePlace'
  <2>1. /\ UNCHANGED <<fs, linked, fe>> /\ pc[t] \in HoldLabels
        /\ \E to \in HoldLabels : pc' = [pc EXCEPT ![t] = to]
    BY <1>10, SMT DEF PutWrite, Goto, HoldLabels, PutWriteNeverFails
  <2>2. QED
    BY <1>1, <1>a, <2>1
<1>11. ASSUME NEW t \in Threads, PutLink(t) PROVE OnePlace'
  <2>1. /\ pc[t] = "put_link" /\ pc' = [pc EXCEPT ![t] = "idle"] /\ linked' = linked \cup {fe[t]}
        /\ fe' = [fe EXCEPT ![t] = NULL] /\ fs' = fs
    BY <1>11 DEF PutLink, Goto
  <2>2. t \in Held /\ "idle" \notin HoldLabels
    BY <1>c, <2>1 DEF HoldLabels
  <2>3. fe[t] \in Elements /\ fe[t] \notin ItemsIn(fs)
    BY <1>a, <1>b, <2>2 DEF Held
  <2>4. Injective(fs)' /\ ItemsIn(fs)' = ItemsIn(fs)
    BY <1>b, <2>1
  <2>5. /\ Held' = Held \ {t}
        /\ \A u \in Held' : fe'[u] = fe[u] /\ fe[u] # fe[t]
        /\ \A u \in Threads : fe'[u] # NULL <=> pc'[u] \in HoldLabels
        /\ {fe'[u] : u \in Held'} = H \ {fe[t]}
        /\ fe[t] \in H
    BY <1>8, <2>1, <2>2
  <2>6. QED
    BY <1>b, <1>d, <2>1, <2>2, <2>3, <2>4, <2>5, SMT
<1>12. ASSUME NEW t \in Threads, Delete(t) PROVE OnePlace'
  <2>1. UNCHANGED <<fs, linked, fe>> /\ \A u \in Threads : pc[u] = "idle" /\ pc'[u] = "gone"
    BY <1>12 DEF Delete
  <2>2. QED
    BY <1>1, <2>1 DEF HoldLabels
<1>13. CASE UNCHANGED vars
  BY <1>1, <1>13 DEF vars
<1>14. QED
  BY <1>2, <1>3, <1>4, <1>5, <1>6, <1>7, <1>9, <1>10, <1>11, <1>12, <1>13, SMT
     DEF Next, Continue, GetWriteSteps, GetReadSteps

-----------------------------------------------------------------------------
(* What a step does to the queue and to the history of its items: nothing, *)
(* or one element enters it with a new item, or one leaves it and its item *)
(* is read or overwritten.                                                 *)

Weight == Cardinality(linked) + Cardinality(InTransit)

Quiet ==
  /\ Queued' = Queued /\ Weight' = Weight
  /\ UNCHANGED <<nodes, data, history>>

Enters(t) ==
  /\ pc[t] = "writing" /\ pc' = [pc EXCEPT ![t] = "put_link"]
  /\ fe[t] \in Elements /\ fe[t] \notin Queued
  /\ Queued' = Queued \cup {fe[t]} /\ Weight' = Weight + 1
  /\ nodes > 0 /\ nodes' = nodes - 1
  /\ data' = [data EXCEPT ![fe[t]] = <<t, calls[t]>>]
  /\ written' = written \cup {<<t, calls[t]>>}
  /\ UNCHANGED <<calls, read, overwritten>>

Leaves(t) ==
  /\ fe[t] \in Queued
  /\ Queued' = Queued \ {fe[t]} /\ Weight' = Weight - 1
  /\ nodes' = nodes + 1
  /\ \/ read' = Append(read, data[fe[t]]) /\ UNCHANGED overwritten
     \/ overwritten' = Append(overwritten, data[fe[t]]) /\ UNCHANGED read
  /\ UNCHANGED <<data, written>>

(* The sets that are counted are finite. *)
LEMMA Finite ==
  ASSUME TypeOK
  PROVE  /\ IsFiniteSet(Elements) /\ Cardinality(Elements) = number_elements
         /\ IsFiniteSet(linked) /\ Cardinality(linked) \in Nat
         /\ IsFiniteSet(InTransit) /\ Cardinality(InTransit) \in Nat
         /\ Weight \in Nat
<1>1. IsFiniteSet(Elements) /\ Cardinality(Elements) = number_elements
  BY RingBufferAssumption, FS_Interval, SMT DEF Elements
<1>2. linked \in SUBSET Elements /\ InTransit \in SUBSET Threads
  BY DEF TypeOK, InTransit
<1>3. IsFiniteSet(linked) /\ IsFiniteSet(InTransit)
  BY <1>1, <1>2, RingBufferAssumption, FS_Subset
<1>4. QED
  BY <1>1, <1>3, FS_CardinalityType, SMT DEF Weight

(* Every step moves one element into or out of the queue, or none. *)
LEMMA Effects ==
  ASSUME TypeOK, OnePlace, PutWriteNeverFails, [Next]_vars
  PROVE  Quiet \/ \E t \in Threads : Enters(t) \/ Leaves(t)
<1>a. /\ linked \subseteq Elements /\ NULL \notin Elements
      /\ pc \in [Threads -> Labels] /\ fe \in [Threads -> Elements \cup {NULL}]
      /\ \A t \in Threads : pc[t] \in HoldLabels => fe[t] \in Elements
  BY RingBufferAssumption, SMT DEF TypeOK, NULL, Elements, OnePlace
<1>b. \A t \in Threads : pc[t] \in HoldLabels =>
         /\ fe[t] \notin linked
         /\ \A u \in InTransit : fe[u] = fe[t] => t = u
  BY <1>a DEF OnePlace, Held, InTransit, HoldLabels
<1>1. ASSUME UNCHANGED <<linked, nodes, data, history>>, InTransit' = InTransit,
             \A u \in InTransit : fe'[u] = fe[u]
      PROVE  Quiet
  <2>1. Queued' = Queued
    BY <1>1 DEF Queued
  <2>2. QED
    BY <1>1, <2>1 DEF Quiet, Weight
<1>2. ASSUME NEW t \in Threads, NEW to, UNCHANGED <<linked, nodes, data, history>>,
             pc[t] \notin {"put_link", "read_free", "write_free"},
             to \notin {"put_link", "read_free", "write_free"},
             pc' = [pc EXCEPT ![t] = to],
             \/ fe' = fe
             \/ \E e : fe' = [fe EXCEPT ![t] = e]
      PROVE  Quiet
  <2>1. InTransit' = InTransit /\ t \notin InTransit
    BY <1>2, <1>a DEF InTransit
  <2>2. \A u \in InTransit : fe'[u] = fe[u]
    BY <1>2, <1>a, <2>1 DEF InTransit
  <2>3. QED
    BY <1>1, <1>2, <2>1, <2>2
<1>3. ASSUME NEW t \in Threads, GetWrite(t) \/ GetRead(t) \/ GetWritePop(t) \/ PutRead(t) PROVE Quiet
  <2>1. CASE GetWrite(t) \/ GetRead(t)
    BY <1>2, <2>1 DEF GetWrite, GetRead, Call, Goto
  <2>2. CASE GetWritePop(t)
    BY <1>2, <2>2 DEF GetWritePop, Goto
  <2>3. CASE PutRead(t)
    BY <1>2, <2>3 DEF PutRead, Goto
  <2>4. QED
    BY <1>3, <2>1, <2>2, <2>3
<1>4. ASSUME NEW t \in Threads, NEW from, NEW to,
             <<from, to>> \in {<<"read_dequeue", "idle">>, <<"write_dequeue", "write_pop">>},
             DequeueEmpty(t, from, to)
      PROVE  Quiet
  BY <1>2, <1>4 DEF DequeueEmpty, Goto
<1>5. ASSUME NEW t \in Threads, NEW from, NEW to,
             <<from, to>> \in {<<"read_dequeue", "read_free">>, <<"write_dequeue", "write_free">>},
             Dequeue(t, from, to)
      PROVE  Quiet
  <2>1. PICK e \in linked : linked' = linked \ {e} /\ fe' = [fe EXCEPT ![t] = e]
    BY <1>5 DEF Dequeue
  <2>2. /\ pc[t] \notin {"put_link", "read_free", "write_free"}
        /\ to \in {"put_link", "read_free", "write_free"}
        /\ pc' = [pc EXCEPT ![t] = to]
        /\ UNCHANGED <<nodes, data, history>>
    BY <1>5 DEF Dequeue, Goto
  <2>3. t \notin InTransit /\ InTransit' = InTransit \cup {t}
    BY <1>a, <2>2 DEF InTransit
  <2>4. fe'[t] = e /\ \A u \in InTransit : fe'[u] = fe[u]
    BY <1>a, <2>1, <2>3 DEF InTransit
  <2>5. Queued' = Queued
    BY <2>1, <2>3, <2>4 DEF Queued
  <2>6. Weight' = Weight
    <3>1. Cardinality(InTransit') = Cardinality(InTransit) + 1
      BY <2>3, Finite, FS_AddElement
    <3>2. Cardinality(linked') = Cardinality(linked) - 1
      BY <2>1, Finite, FS_RemoveElement
    <3>3. QED
      BY <3>1, <3>2, Finite, SMT DEF Weight
  <2>7. QED
    BY <2>2, <2>5, <2>6 DEF Quiet
<1>6. ASSUME NEW t \in Threads, ReadFree(t) \/ WriteFree(t) PROVE Leaves(t)
  <2>1. /\ pc[t] \in {"put_link", "read_free", "write_free"}
        /\ \E to \in {"reading", "writing"} : pc' = [pc EXCEPT ![t] = to]
        /\ UNCHANGED <<linked, fe, data, written>> /\ nodes' = nodes + 1
        /\ \/ read' = Append(read, data[fe[t]]) /\ UNCHANGED overwritten
           \/ overwritten' = Append(overwritten, data[fe[t]]) /\ UNCHANGED read
    BY <1>6 DEF ReadFree, WriteFree, Overwrite, Goto
  <2>2. t \in InTransit /\ InTransit' = InTransit \ {t}
    BY <1>a, <2>1 DEF InTransit
  <2>3. fe[t] \notin linked /\ \A u \in InTransit' : fe[u] # fe[t]
    BY <1>b, <2>1, <2>2 DEF HoldLabels
  <2>4. fe[t] \in Queued /\ Queued' = Queued \ {fe[t]}
    BY <2>1, <2>2, <2>3, SMT DEF Queued
  <2>5. Weight' = Weight - 1
    <3>1. Cardinality(InTransit') = Cardinality(InTransit) - 1
      BY <2>2, Finite, FS_RemoveElement
    <3>2. QED
      BY <2>1, <3>1, Finite, SMT DEF Weight
  <2>6. QED
    BY <2>1, <2>4, <2>5 DEF Leaves
<1>7. ASSUME NEW t \in Threads, PutWrite(t) PROVE Enters(t)
  <2>1. /\ pc[t] = "writing" /\ nodes > 0 /\ nodes' = nodes - 1
        /\ pc' = [pc EXCEPT ![t] = "put_link"]
        /\ data' = [data EXCEPT ![fe[t]] = <<t, calls[t]>>]
        /\ written' = written \cup {<<t, calls[t]>>}
        /\ UNCHANGED <<linked, fe, calls, read, overwritten>>
    BY <1>7, SMT DEF PutWrite, Goto, PutWriteNeverFails
  <2>2. t \notin InTransit /\ InTransit' = InTransit \cup {t}
    BY <1>a, <2>1 DEF InTransit
  <2>3. fe[t] \in Elements /\ fe[t] \notin Queued
    BY <1>a, <1>b, <2>1, <2>2 DEF HoldLabels, Queued
  <2>4. Queued' = Queued \cup {fe[t]}
    BY <2>1, <2>2 DEF Queued
  <2>5. Weight' = Weight + 1
    <3>1. Cardinality(InTransit') = Cardinality(InTransit) + 1
      BY <2>2, Finite, FS_AddElement
    <3>2. QED
      BY <2>1, <3>1, Finite, SMT DEF Weight
  <2>6. QED
    BY <2>1, <2>3, <2>4, <2>5 DEF Enters
<1>8. ASSUME NEW t \in Threads, PutLink(t) PROVE Quiet
  <2>1. /\ pc[t] = "put_link" /\ pc' = [pc EXCEPT ![t] = "idle"]
        /\ linked' = linked \cup {fe[t]} /\ fe' = [fe EXCEPT ![t] = NULL]
        /\ UNCHANGED <<nodes, data, history>>
    BY <1>8 DEF PutLink, Goto
  <2>2. t \in InTransit /\ InTransit' = InTransit \ {t}
    BY <1>a, <2>1 DEF InTransit
  <2>3. \A u \in InTransit' : fe'[u] = fe[u]
    BY <1>a, <2>1, <2>2 DEF InTransit
  <2>4. Queued' = Queued
    BY <2>1, <2>2, <2>3 DEF Queued
  <2>5. fe[t] \notin linked
    BY <1>b, <2>1 DEF HoldLabels
  <2>6. Weight' = Weight
    <3>1. Cardinality(InTransit') = Cardinality(InTransit) - 1
      BY <2>2, Finite, FS_RemoveElement
    <3>2. Cardinality(linked') = Cardinality(linked) + 1
      BY <2>1, <2>5, Finite, FS_AddElement
    <3>3. QED
      BY <3>1, <3>2, Finite, SMT DEF Weight
  <2>7. QED
    BY <2>1, <2>4, <2>6 DEF Quiet
<1>9. ASSUME NEW t \in Threads, Delete(t) PROVE Quiet
  <2>1. InTransit = {} /\ InTransit' = {}
    BY <1>9 DEF Delete, InTransit
  <2>2. QED
    BY <1>1, <1>9, <2>1 DEF Delete
<1>10. CASE UNCHANGED vars
  <2>1. InTransit' = InTransit
    BY <1>10 DEF vars, InTransit
  <2>2. QED
    BY <1>1, <1>10, <2>1 DEF vars, history
<1>11. QED
  BY <1>3, <1>4, <1>5, <1>6, <1>7, <1>8, <1>9, <1>10, SMT
     DEF Next, Continue, GetWriteSteps, GetReadSteps

-----------------------------------------------------------------------------
(* The element a writer holds is not in the queue, so the queue has fewer  *)
(* elements than nodes.                                                    *)
LEMMA NodeLeft ==
  ASSUME TypeOK, OnePlace, NodesCounted
  PROVE  PutWriteNeverFails
<1> SUFFICES ASSUME NEW t \in Threads, pc[t] = "writing" PROVE nodes > 0
  BY DEF PutWriteNeverFails
<1>1. fe[t] \in Elements /\ t \in Held
  BY DEF OnePlace, HoldLabels, TypeOK, Held
<1>2. \A u \in InTransit : u \in Held /\ u # t /\ fe[u] \in Elements
  BY DEF InTransit, OnePlace, HoldLabels, Held, TypeOK
<1>3. Queued \in SUBSET (Elements \ {fe[t]})
  BY <1>1, <1>2 DEF Queued, OnePlace, TypeOK
<1>4. /\ IsFiniteSet(Elements \ {fe[t]})
      /\ Cardinality(Elements \ {fe[t]}) = number_elements - 1
  BY <1>1, Finite, FS_RemoveElement, ZenonT(30)
<1>5. IsFiniteSet(Queued) /\ Cardinality(Queued) <= number_elements - 1
  BY <1>3, <1>4, FS_Subset, SMT
<1>6. Cardinality(Queued) \in Nat
  BY <1>5, FS_CardinalityType
<1>7. QED
  BY <1>5, <1>6, RingBufferAssumption, SMT DEF NodesCounted, TypeOK

(* The elements on their way through the queue are finitely many. *)
LEMMA QueuedFinite ==
  ASSUME TypeOK, OnePlace
  PROVE  Queued \subseteq Elements /\ IsFiniteSet(Queued) /\ Cardinality(Queued) \in Nat
<1>1. Queued \in SUBSET Elements
  BY SMT DEF Queued, InTransit, OnePlace, HoldLabels, TypeOK
<1>2. QED
  BY <1>1, Finite, FS_Subset, FS_CardinalityType

(* The nodes and the elements of the queue make up number_elements.        *)
LEMMA NodesStep == TypeOK /\ OnePlace /\ NodesCounted /\ [Next]_vars => NodesCounted'
<1> SUFFICES ASSUME TypeOK, OnePlace, NodesCounted, [Next]_vars PROVE NodesCounted'
  OBVIOUS
<1>1. Quiet \/ \E t \in Threads : Enters(t) \/ Leaves(t)
  BY NodeLeft, Effects
<1>2. CASE Quiet
  BY <1>2 DEF Quiet, NodesCounted
<1>3. ASSUME NEW t \in Threads, Enters(t) PROVE NodesCounted'
  <2>1. Cardinality(Queued') = Cardinality(Queued) + 1
    BY <1>3, QueuedFinite, FS_AddElement DEF Enters
  <2>2. nodes' = nodes - 1 /\ nodes \in Nat /\ number_elements \in Nat
    BY <1>3, RingBufferAssumption DEF Enters, TypeOK
  <2>3. QED
    BY <2>1, <2>2, QueuedFinite, SMT DEF NodesCounted
<1>4. ASSUME NEW t \in Threads, Leaves(t) PROVE NodesCounted'
  <2>1. Cardinality(Queued') = Cardinality(Queued) - 1
    BY <1>4, QueuedFinite, FS_RemoveElement DEF Leaves
  <2>2. nodes' = nodes + 1 /\ nodes \in Nat
    BY <1>4 DEF Leaves, TypeOK
  <2>3. QED
    BY <2>1, <2>2, QueuedFinite, SMT DEF NodesCounted
<1>5. QED
  BY <1>1, <1>2, <1>3, <1>4

(* A writer's call number is new until it puts its item.                   *)
LEMMA FreshStep == TypeOK /\ OnePlace /\ PutWriteNeverFails /\ ItemsFresh /\ [Next]_vars => ItemsFresh'
<1> SUFFICES ASSUME TypeOK, OnePlace, PutWriteNeverFails, ItemsFresh, [Next]_vars PROVE ItemsFresh'
  OBVIOUS
<1>a. /\ pc \in [Threads -> Labels] /\ calls \in [Threads -> Nat]
      /\ \A item \in written : item[1] \in Threads /\ item[2] \in Nat
  BY DEF TypeOK
<1>1. ASSUME written' = written, calls' = calls,
             \A t \in Threads : pc'[t] \in WriteLabels => pc[t] \in WriteLabels
      PROVE  ItemsFresh'
  BY <1>1, <1>a DEF ItemsFresh
<1>2. ASSUME NEW t \in Threads, GetWrite(t) \/ GetRead(t) PROVE ItemsFresh'
  <2>1. /\ written' = written /\ calls' = [calls EXCEPT ![t] = calls[t] + 1]
        /\ \A u \in Threads \ {t} : pc'[u] = pc[u]
    BY <1>2, <1>a DEF GetWrite, GetRead, Call, Goto, history
  <2>2. SUFFICES ASSUME NEW item \in written
                 PROVE  /\ item[2] <= calls'[item[1]]
                        /\ item[2] = calls'[item[1]] => pc'[item[1]] \notin WriteLabels
    BY <2>1 DEF ItemsFresh
  <2>3. item[1] \in Threads /\ item[2] \in Nat /\ item[2] <= calls[item[1]]
    BY <1>a DEF ItemsFresh
  <2>4. CASE item[1] = t
    <3>1. calls'[item[1]] = calls[item[1]] + 1 /\ calls[item[1]] \in Nat
      BY <1>a, <2>1, <2>4
    <3>2. QED
      BY <2>3, <3>1, SMT
  <2>5. CASE item[1] # t
    <3>1. calls'[item[1]] = calls[item[1]] /\ pc'[item[1]] = pc[item[1]]
      BY <1>a, <2>1, <2>3, <2>5
    <3>2. QED
      BY <3>1 DEF ItemsFresh
  <2>6. QED
    BY <2>4, <2>5
<1>3. ASSUME NEW t \in Threads, PutWrite(t) PROVE ItemsFresh'
  <2>1. /\ pc' = [pc EXCEPT ![t] = "put_link"] /\ calls' = calls
        /\ written' = written \cup {<<t, calls[t]>>}
    BY <1>3, SMT DEF PutWrite, Goto, PutWriteNeverFails
  <2>2. pc'[t] \notin WriteLabels
    BY <1>a, <2>1 DEF WriteLabels
  <2>3. ASSUME NEW item \in written
        PROVE  /\ item[2] <= calls'[item[1]]
               /\ item[2] = calls'[item[1]] => pc'[item[1]] \notin WriteLabels
    BY <1>a, <2>1, <2>2 DEF ItemsFresh
  <2>4. calls[t] \in Nat
    BY <1>a
  <2>5. QED
    BY <2>1, <2>2, <2>3, <2>4, SMT DEF ItemsFresh
<1>4. ASSUME NEW t \in Threads, GetWritePop(t) \/ ReadFree(t) \/ WriteFree(t) \/ PutRead(t) \/ PutLink(t)
      PROVE  ItemsFresh'
  <2>1. UNCHANGED <<written, calls>>
    BY <1>4 DEF GetWritePop, ReadFree, WriteFree, Overwrite, PutRead, PutLink, history
  <2>2. \E to \in Labels : pc' = [pc EXCEPT ![t] = to] /\ (to \in WriteLabels => pc[t] \in WriteLabels)
    BY <1>4 DEF GetWritePop, ReadFree, WriteFree, Overwrite, PutRead, PutLink, Goto, WriteLabels, Labels, HoldLabels
  <2>3. QED
    BY <1>1, <1>a, <2>1, <2>2
<1>5. ASSUME NEW t \in Threads, NEW from, NEW to,
             <<from, to>> \in {<<"read_dequeue", "read_free">>, <<"write_dequeue", "write_free">>,
                              <<"read_dequeue", "idle">>, <<"write_dequeue", "write_pop">>},
             Dequeue(t, from, to) \/ DequeueEmpty(t, from, to)
      PROVE  ItemsFresh'
  <2>1. UNCHANGED <<written, calls>> /\ pc' = [pc EXCEPT ![t] = to] /\ (to \in WriteLabels => pc[t] \in WriteLabels)
    BY <1>5 DEF Dequeue, DequeueEmpty, Goto, WriteLabels, history
  <2>2. QED
    BY <1>1, <1>a, <2>1
<1>6. ASSUME NEW t \in Threads, Delete(t) PROVE ItemsFresh'
  BY <1>1, <1>6 DEF Delete, WriteLabels, history
<1>7. CASE UNCHANGED vars
  BY <1>1, <1>7 DEF vars, history
<1>8. QED
  BY <1>2, <1>3, <1>4, <1>5, <1>6, <1>7, SMT DEF Next, Continue, GetWriteSteps, GetReadSteps

(* The items stay apart and accounted for.                                 *)
LEMMA ItemsStep ==
  ASSUME IInv, [Next]_vars
  PROVE  ItemsApart' /\ IsFiniteSet(written') /\ EveryWriteAccounted'
<1> DEFINE In == {data[e] : e \in Queued}
           Out == ItemsIn(read) \cup ItemsIn(overwritten)
<1>a. /\ TypeOK /\ OnePlace /\ PutWriteNeverFails
      /\ read \in Seq(Values) /\ overwritten \in Seq(Values) /\ data \in [Elements -> Values]
      /\ Queued \subseteq Elements /\ calls \in [Threads -> Nat]
      /\ Len(read) \in Nat /\ Len(overwritten) \in Nat /\ Weight \in Nat
  <2>1. TypeOK /\ OnePlace /\ PutWriteNeverFails
    BY NodeLeft DEF IInv
  <2>2. Queued \subseteq Elements /\ Weight \in Nat
    BY <2>1, QueuedFinite, Finite
  <2>3. QED
    BY <2>1, <2>2, SMT DEF TypeOK
<1>b. /\ \A d, e \in Queued : data[d] = data[e] => d = e
      /\ \A e \in Queued : data[e] \notin Out
      /\ IsFiniteSet(written)
      /\ written = In \cup Out
      /\ Cardinality(written) = Weight + Len(read) + Len(overwritten)
  BY <1>a DEF IInv, ItemsApart, EveryWriteAccounted, Queued, Weight
<1>c. Cardinality(written) \in Nat
  BY <1>b, FS_CardinalityType
(* What is to be shown. *)
<1>d. ASSUME \A d, e \in Queued' : data'[d] = data'[e] => d = e,
             \A e \in Queued' : data'[e] \notin Out',
             IsFiniteSet(written'),
             written' = {data'[e] : e \in Queued'} \cup Out',
             Cardinality(written') = Weight' + Len(read') + Len(overwritten')
      PROVE  ItemsApart' /\ IsFiniteSet(written') /\ EveryWriteAccounted'
  <2>1. ItemsApart'
    BY <1>d DEF ItemsApart
  <2>2. Weight' = Cardinality(linked') + Cardinality(InTransit')
    BY DEF Weight
  <2>3. EveryWriteAccounted'
    BY <1>d, <2>2 DEF EveryWriteAccounted, Queued
  <2>4. QED
    BY <1>d, <2>1, <2>3
<1>1. CASE Quiet
  BY <1>1, <1>b, <1>d DEF Quiet, history
<1>2. ASSUME NEW t \in Threads, Enters(t) PROVE ItemsApart' /\ IsFiniteSet(written') /\ EveryWriteAccounted'
  <2> DEFINE item == <<t, calls[t]>>
  <2>1. item \notin written
    <3>1. pc[t] \in WriteLabels /\ item[1] = t /\ item[2] = calls[t]
      BY <1>2 DEF Enters, WriteLabels
    <3>2. QED
      BY <3>1 DEF IInv, ItemsFresh
  <2>2. /\ fe[t] \in Elements /\ fe[t] \notin Queued /\ Queued' = Queued \cup {fe[t]}
        /\ Weight' = Weight + 1 /\ data' = [data EXCEPT ![fe[t]] = item]
        /\ written' = written \cup {item} /\ read' = read /\ overwritten' = overwritten
    BY <1>2 DEF Enters
  <2> HIDE DEF item
  <2>3. data'[fe[t]] = item /\ \A e \in Queued : data'[e] = data[e]
    BY <1>a, <2>2
  <2>4. \A d, e \in Queued' : data'[d] = data'[e] => d = e
    BY <1>b, <2>1, <2>2, <2>3, SMT
  <2>5. \A e \in Queued' : data'[e] \notin Out'
    BY <1>b, <2>1, <2>2, <2>3
  <2>6. IsFiniteSet(written') /\ Cardinality(written') = Cardinality(written) + 1
    BY <1>b, <2>1, <2>2, FS_AddElement
  <2>7. Cardinality(written') = Weight' + Len(read') + Len(overwritten')
    BY <1>a, <1>b, <2>2, <2>6, SMT
  <2>8. written' = {data'[e] : e \in Queued'} \cup Out'
    BY <1>b, <2>2, <2>3, SMT
  <2>9. QED
    BY <1>d, <2>4, <2>5, <2>6, <2>7, <2>8
<1>3. ASSUME NEW t \in Threads, Leaves(t) PROVE ItemsApart' /\ IsFiniteSet(written') /\ EveryWriteAccounted'
  <2> DEFINE item == data[fe[t]]
  <2>1. /\ fe[t] \in Queued /\ Queued' = Queued \ {fe[t]} /\ Weight' = Weight - 1
        /\ data' = data /\ written' = written
    BY <1>3 DEF Leaves
  <2>2. item \in Values
    BY <1>a, <2>1
  <2>3. Out' = Out \cup {item} /\ Len(read') + Len(overwritten') = Len(read) + Len(overwritten) + 1
    <3>1. CASE read' = Append(read, item) /\ UNCHANGED overwritten
      <4>1. Len(read') = Len(read) + 1 /\ ItemsIn(read') = ItemsIn(read) \cup {item}
        BY <1>a, <2>2, <3>1, AppendItems, SMT
      <4>2. QED
        BY <1>a, <3>1, <4>1, SMT
    <3>2. CASE overwritten' = Append(overwritten, item) /\ UNCHANGED read
      <4>1. Len(overwritten') = Len(overwritten) + 1 /\ ItemsIn(overwritten') = ItemsIn(overwritten) \cup {item}
        BY <1>a, <2>2, <3>2, AppendItems, SMT
      <4>2. QED
        BY <1>a, <3>2, <4>1, SMT
    <3>3. QED
      BY <1>3, <3>1, <3>2 DEF Leaves
  <2>4. \A d, e \in Queued' : data'[d] = data'[e] => d = e
    BY <1>b, <2>1
  <2>5. \A e \in Queued' : data'[e] \notin Out'
    BY <1>b, <2>1, <2>3
  <2>6. written' = {data'[e] : e \in Queued'} \cup Out'
    BY <1>b, <2>1, <2>3
  <2>7. Cardinality(written') = Weight' + Len(read') + Len(overwritten')
    <3>1. Len(read') \in Nat /\ Len(overwritten') \in Nat
      BY TypeStep, <1>a, SMT DEF TypeOK
    <3>2. QED
      BY <1>a, <1>b, <1>c, <2>1, <2>3, <3>1, SMT
  <2>8. QED
    BY <1>b, <1>d, <2>1, <2>4, <2>5, <2>6, <2>7
<1>4. QED
  BY <1>1, <1>2, <1>3, <1>a, Effects

(* After ringbuffer_delete nothing moves.                                  *)
LEMMA GoneStep == TypeOK /\ GoneIsFinal /\ [Next]_vars => GoneIsFinal'
<1> SUFFICES ASSUME TypeOK, GoneIsFinal, [Next]_vars PROVE GoneIsFinal'
  OBVIOUS
<1>1. ASSUME NEW t \in Threads, GetWrite(t) \/ GetRead(t) \/ Continue(t) PROVE GoneIsFinal'
  <2>1. pc[t] # "gone" /\ \E to \in Labels \ {"gone"} : pc' = [pc EXCEPT ![t] = to]
    BY <1>1 DEF GetWrite, GetRead, Call, Continue, GetWriteSteps, GetReadSteps, GetWritePop, Dequeue,
                DequeueEmpty, ReadFree, WriteFree, Overwrite, PutRead, PutWrite, PutLink, Goto,
                Labels, WriteLabels, HoldLabels
  <2>2. \A u \in Threads : pc'[u] # "gone"
    BY <2>1 DEF GoneIsFinal, TypeOK
  <2>3. QED
    BY <2>2 DEF GoneIsFinal
<1>2. ASSUME NEW t \in Threads, Delete(t) PROVE GoneIsFinal'
  BY <1>2 DEF Delete, GoneIsFinal, ElementsFree
<1>3. CASE UNCHANGED vars
  BY <1>3 DEF vars, GoneIsFinal, ElementsFree
<1>4. QED
  BY <1>1, <1>2, <1>3 DEF Next

(* The invariant holds initially: all elements are free. *)
LEMMA InitOK == Init => IInv
<1> SUFFICES ASSUME Init PROVE IInv
  OBVIOUS
<1>a. number_elements \in Nat /\ NULL \notin Elements
  BY RingBufferAssumption, SMT DEF NULL, Elements
<1>1. /\ fs \in Seq(Elements) /\ Len(fs) = number_elements /\ ElementsFree = Elements
      /\ \A i, j \in 1..Len(fs) : fs[i] = fs[j] => i = j
  BY <1>a, SMT DEF Init, New, Elements, ElementsFree
<1>2. TypeOK
  BY <1>1, <1>a, SMT DEF Init, New, TypeOK, Values, Labels
<1>3. Held = {} /\ InTransit = {} /\ linked = {}
  BY DEF Init, New, Held, InTransit
<1>4. OnePlace
  BY <1>1, <1>3 DEF OnePlace, Init, New, HoldLabels
<1>5. Queued = {}
  BY <1>3 DEF Queued
<1>6. NodesCounted
  BY <1>a, <1>5, FS_EmptySet, SMT DEF NodesCounted, Init, New
<1>7. written = {} /\ read = <<>> /\ overwritten = <<>> /\ Len(read) = 0 /\ Len(overwritten) = 0
  BY DEF Init, New
<1>8. ItemsFresh /\ ItemsApart
  BY <1>5, <1>7 DEF ItemsFresh, ItemsApart
<1>9. IsFiniteSet(written) /\ EveryWriteAccounted
  <2>1. ItemsIn(read) = {} /\ ItemsIn(overwritten) = {}
    BY <1>7, SMT DEF ItemsIn
  <2>2. {data[e] : e \in linked \cup {fe[t] : t \in InTransit}} = {}
    BY <1>3
  <2>3. QED
    BY <1>3, <1>7, <2>1, <2>2, FS_EmptySet, SMT DEF EveryWriteAccounted
<1>10. GoneIsFinal
  BY DEF GoneIsFinal, Init, New
<1>11. QED
  BY <1>2, <1>4, <1>6, <1>8, <1>9, <1>10 DEF IInv

(* IInv holds in every state: it is the inductive invariant of the ring    *)
(* buffer's four calls and of ringbuffer_delete.                           *)
THEOREM Invariance == Spec => []IInv
<1>1. IInv /\ [Next]_vars => IInv'
  <2> SUFFICES ASSUME IInv, [Next]_vars PROVE IInv'
    OBVIOUS
  <2>1. TypeOK /\ OnePlace /\ NodesCounted /\ ItemsFresh /\ GoneIsFinal /\ PutWriteNeverFails
    BY NodeLeft DEF IInv
  <2>2. TypeOK' /\ OnePlace' /\ NodesCounted' /\ ItemsFresh' /\ GoneIsFinal'
    BY <2>1, TypeStep, PlaceStep, NodesStep, FreshStep, GoneStep
  <2>3. QED
    BY <2>2, ItemsStep DEF IInv
<1>2. QED
  BY <1>1, InitOK, PTL DEF Spec

(* The queue_enqueue of ringbuffer_put_write, whose result line 67         *)
(* ignores, finds a node, however many threads and elements there are.     *)
THEOREM PutNeverFails == Spec => []PutWriteNeverFails
<1>1. IInv => PutWriteNeverFails
  BY NodeLeft DEF IInv
<1>2. QED
  BY <1>1, Invariance, PTL

(* No element is lost and none is in two places, whatever the order in     *)
(* which readers and writers take, overwrite and return elements.          *)
THEOREM AlwaysConserved == Spec => []ElementsConserved
<1>1. IInv => ElementsConserved
  <2> SUFFICES ASSUME IInv PROVE ElementsConserved
    OBVIOUS
  <2>1. fs \in Seq(Elements) /\ Len(fs) \in Nat
    BY SMT DEF IInv, TypeOK
  <2>2. fs \in Bijection(1..Len(fs), ElementsFree)
    <3>1. fs \in [1..Len(fs) -> ElementsFree]
      BY <2>1, SMT DEF ElementsFree
    <3>2. QED
      BY <3>1 DEF IInv, OnePlace, ElementsFree, Bijection, Injection, Surjection, IsInjective
  <2>3. Cardinality(ElementsFree) = Len(fs)
    BY <2>1, <2>2, FS_CountingElements DEF ExistsBijection
  <2>4. QED
    BY <2>3 DEF IInv, OnePlace, ElementsConserved
<1>2. QED
  BY <1>1, Invariance, PTL

(* Every item put is in the queue or on its way, was read once, or was     *)
(* overwritten with the flag set, and no two of these.                     *)
THEOREM AlwaysAccounted == Spec => []EveryWriteAccounted
<1>1. IInv => EveryWriteAccounted
  BY DEF IInv
<1>2. QED
  BY <1>1, Invariance, PTL

(* ringbuffer_delete leaves only elements behind that were written and     *)
(* never read.                                                             *)
THEOREM OnlyUnreadLeft == Spec => []DeleteLeavesOnlyUnread
<1>1. IInv => DeleteLeavesOnlyUnread
  <2> SUFFICES ASSUME IInv, \E t \in Threads : pc[t] = "gone", NEW e \in Elements \ freed
               PROVE  data[e] \in written \ (ItemsIn(read) \cup ItemsIn(overwritten))
    BY DEF DeleteLeavesOnlyUnread
  <2>1. freed = ElementsFree /\ Held = {}
    BY DEF IInv, GoneIsFinal, OnePlace, Held, HoldLabels
  <2>2. e \in linked
    BY <2>1 DEF IInv, OnePlace
  <2>3. QED
    BY <2>2 DEF IInv, ItemsApart, EveryWriteAccounted, Queued
<1>2. QED
  BY <1>1, Invariance, PTL
=============================================================================
