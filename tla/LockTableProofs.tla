-------------------------- MODULE LockTableProofs --------------------------
(***************************************************************************)
(* Proofs about LockTable, for any transactions, timestamps and build.     *)
(***************************************************************************)
EXTENDS LockTable, SequenceTheorems, TLAPS

Types == {LOCK_SH, LOCK_EX}
Entries == [txn : Txns, type : Types]
Locks == [lock_type : Types \cup {LOCK_NONE}, owners : SUBSET Txns, waiters : Seq(Entries)]

(* The entries of a lock: whoever waits waits for what it asked for, and   *)
(* nobody has two.                                                         *)
EntriesOK(x) ==
    /\ x \in Locks
    /\ \A j \in 1..Len(x.waiters) :
          /\ x.waiters[j].type = asked[x.waiters[j].txn]
          /\ x.waiters[j].txn \notin x.owners
    /\ \A i, j \in 1..Len(x.waiters) : x.waiters[i].txn = x.waiters[j].txn => i = j

(* The inductive invariant. *)
Inv ==
    /\ asked \in [Txns -> Types \cup {LOCK_NONE}]
    /\ alg \in LockAlgs
    /\ EntriesOK(m)
    /\ Sound

-----------------------------------------------------------------------------
(* A function on 1..n is a sequence of length n. *)
LEMMA FunctionIsSeq ==
    ASSUME NEW S, NEW n \in Nat, NEW f, f = [j \in 1..n |-> f[j]],
           \A j \in 1..n : f[j] \in S
    PROVE  f \in Seq(S) /\ Len(f) = n
<1>1. f \in [1..n -> S]
  OBVIOUS
<1>2. f \in Seq(S)
  BY <1>1, SeqDef
<1> QED
  BY <1>1, <1>2, LenProperties

(* The waiters of a lock are a sequence of entries. *)
LEMMA WaitersType ==
    ASSUME NEW x \in Locks
    PROVE  /\ Len(x.waiters) \in Nat
           /\ x.waiters \in Seq(Entries)
           /\ \A i \in 1..Len(x.waiters) :
                /\ x.waiters[i] \in Entries
                /\ x.waiters[i].txn \in Txns /\ x.waiters[i].type \in Types
<1>1. x.waiters \in Seq(Entries)
  BY DEF Locks
<1>2. Len(x.waiters) \in Nat
  BY <1>1
<1>3. \A i \in 1..Len(x.waiters) : x.waiters[i] \in Entries
  BY <1>1, ElementOfSeq
<1> QED
  BY <1>1, <1>2, <1>3 DEF Entries

(* A waiter is linked in at p, and the others keep their order. *)
LEMMA AsWaiterFields ==
    ASSUME NEW x \in Locks, NEW t \in Txns, NEW type \in Types,
           NEW p \in 1..(Len(x.waiters) + 1), NEW n, n = AsWaiter(x, t, type, p)
    PROVE  /\ n \in Locks
           /\ n.lock_type = x.lock_type /\ n.owners = x.owners
           /\ Len(n.waiters) = Len(x.waiters) + 1
           /\ \A j \in 1..(Len(x.waiters) + 1) :
                n.waiters[j] = IF j < p THEN x.waiters[j]
                               ELSE IF j = p THEN [txn |-> t, type |-> type]
                               ELSE x.waiters[j - 1]
<1> DEFINE w == [j \in 1..(Len(x.waiters) + 1) |->
                    IF j < p THEN x.waiters[j]
                    ELSE IF j = p THEN [txn |-> t, type |-> type] ELSE x.waiters[j - 1]]
<1>1. n = [lock_type |-> x.lock_type, owners |-> x.owners, waiters |-> w]
  BY DEF AsWaiter, Locks
<1>2. \A j \in 1..(Len(x.waiters) + 1) : w[j] \in Entries
  <2> SUFFICES ASSUME NEW j \in 1..(Len(x.waiters) + 1)
               PROVE  w[j] \in Entries
    OBVIOUS
  <2>1. CASE j < p
    <3>1. j \in 1..Len(x.waiters)
      BY <2>1, WaitersType
    <3> QED
      BY <2>1, <3>1, WaitersType
  <2>2. CASE j = p
    BY <2>2 DEF Entries
  <2>3. CASE j > p
    <3>1. j - 1 \in 1..Len(x.waiters) /\ ~(j < p) /\ j # p
      BY <2>3, WaitersType
    <3> QED
      BY <3>1, WaitersType
  <2> QED
    BY <2>1, <2>2, <2>3, WaitersType
<1>3. w = [j \in 1..(Len(x.waiters) + 1) |-> w[j]]
  OBVIOUS
<1>4. Len(x.waiters) + 1 \in Nat
  BY WaitersType
<1> HIDE DEF w
<1>5. w \in Seq(Entries) /\ Len(w) = Len(x.waiters) + 1
  BY <1>2, <1>3, <1>4, FunctionIsSeq
<1>6. n \in Locks
  BY <1>1, <1>5 DEF Locks
<1> QED
  BY <1>1, <1>5, <1>6 DEF w

(* The waiter at p is taken out. *)
LEMMA WithoutWaiterFields ==
    ASSUME NEW x \in Locks, NEW p \in 1..Len(x.waiters), NEW n, n = WithoutWaiter(x, p)
    PROVE  /\ n \in Locks
           /\ n.lock_type = x.lock_type /\ n.owners = x.owners
           /\ Len(n.waiters) = Len(x.waiters) - 1
           /\ \A j \in 1..(Len(x.waiters) - 1) :
                n.waiters[j] = IF j < p THEN x.waiters[j] ELSE x.waiters[j + 1]
<1> DEFINE w == [j \in 1..(Len(x.waiters) - 1) |->
                    IF j < p THEN x.waiters[j] ELSE x.waiters[j + 1]]
<1>1. n = [lock_type |-> x.lock_type, owners |-> x.owners, waiters |-> w]
  BY DEF WithoutWaiter, Locks
<1>2. \A j \in 1..(Len(x.waiters) - 1) : w[j] \in Entries
  <2> SUFFICES ASSUME NEW j \in 1..(Len(x.waiters) - 1)
               PROVE  w[j] \in Entries
    OBVIOUS
  <2>1. j \in 1..Len(x.waiters) /\ j + 1 \in 1..Len(x.waiters)
    BY WaitersType
  <2> QED
    BY <2>1, WaitersType
<1>3. w = [j \in 1..(Len(x.waiters) - 1) |-> w[j]]
  OBVIOUS
<1>4. Len(x.waiters) - 1 \in Nat
  BY WaitersType
<1> HIDE DEF w
<1>5. w \in Seq(Entries) /\ Len(w) = Len(x.waiters) - 1
  BY <1>2, <1>3, <1>4, FunctionIsSeq
<1>6. n \in Locks
  BY <1>1, <1>5 DEF Locks
<1> QED
  BY <1>1, <1>5, <1>6 DEF w

(* The first k waiters are granted the lock. *)
IsAfterGrant(n, x, k) ==
    /\ n \in Locks
    /\ n.lock_type = (IF k = 0 THEN x.lock_type ELSE x.waiters[k].type)
    /\ n.owners = x.owners \cup Granted(x, k)
    /\ Len(n.waiters) = Len(x.waiters) - k
    /\ \A j \in 1..(Len(x.waiters) - k) : n.waiters[j] = x.waiters[j + k]

(* AfterGrant gives that lock. *)
LEMMA AfterGrantFields ==
    ASSUME NEW x \in Locks, NEW k \in 0..Len(x.waiters), NEW n, n = AfterGrant(x, k)
    PROVE  IsAfterGrant(n, x, k)
<1> DEFINE w == [j \in 1..(Len(x.waiters) - k) |-> x.waiters[j + k]]
<1>1. n = [lock_type |-> IF k = 0 THEN x.lock_type ELSE x.waiters[k].type,
           owners |-> x.owners \cup Granted(x, k), waiters |-> w]
  BY DEF AfterGrant
<1>2. \A j \in 1..(Len(x.waiters) - k) : w[j] \in Entries
  <2> SUFFICES ASSUME NEW j \in 1..(Len(x.waiters) - k)
               PROVE  w[j] \in Entries
    OBVIOUS
  <2>1. j + k \in 1..Len(x.waiters)
    BY WaitersType
  <2> QED
    BY <2>1, WaitersType
<1>3. w = [j \in 1..(Len(x.waiters) - k) |-> w[j]]
  OBVIOUS
<1>4. Len(x.waiters) - k \in Nat
  BY WaitersType
<1> HIDE DEF w
<1>5. w \in Seq(Entries) /\ Len(w) = Len(x.waiters) - k
  <2> DEFINE N == Len(x.waiters) - k
  <2>1. N \in Nat /\ w = [j \in 1..N |-> w[j]] /\ \A j \in 1..N : w[j] \in Entries
    BY <1>2, <1>3, <1>4
  <2> HIDE DEF N
  <2>2. w \in Seq(Entries) /\ Len(w) = N
    BY <2>1, FunctionIsSeq
  <2> QED
    BY <2>2 DEF N
<1>6. Granted(x, k) \subseteq Txns
  <2>1. \A j \in 1..k : j \in 1..Len(x.waiters)
    BY WaitersType
  <2> QED
    BY <2>1, WaitersType DEF Granted
<1>7. (IF k = 0 THEN x.lock_type ELSE x.waiters[k].type) \in Types \cup {LOCK_NONE}
  <2>1. CASE k = 0
    BY <2>1 DEF Locks
  <2>2. CASE k # 0
    <3>1. k \in 1..Len(x.waiters)
      BY <2>2, WaitersType
    <3> QED
      BY <2>2, <3>1, WaitersType
  <2> QED
    BY <2>1, <2>2
<1>8. n \in Locks
  BY <1>1, <1>5, <1>6, <1>7 DEF Locks
<1> QED
  BY <1>1, <1>5, <1>8 DEF w, IsAfterGrant

-----------------------------------------------------------------------------
(* A new lock has no entries. *)
LEMMA InitInv == Init => Inv
BY DEF Init, Inv, EntriesOK, Locks, Sound, OwnersCompatible, HeadBlocked, LockInit, Types,
       LOCK_NONE, LOCK_SH, LOCK_EX

(* A transaction without an entry begins anew: no entry is about it.       *)
LEMMA BeginInv ==
    ASSUME Inv, NEW t \in Txns, NEW type \in Types \cup {LOCK_NONE}, Begin(t, type)
    PROVE  Inv'
<1>1. m' = m /\ alg' = alg /\ asked' = [asked EXCEPT ![t] = type]
  BY DEF Begin
<1>2. asked' \in [Txns -> Types \cup {LOCK_NONE}]
  BY <1>1 DEF Inv
<1>3. \A u \in Txns : u # t => asked'[u] = asked[u]
  BY <1>1 DEF Inv
<1>4. t \notin m.owners /\ \A j \in 1..Len(m.waiters) : m.waiters[j].txn # t
  BY DEF Begin, Has, WaitingTxns
<1>5. \A j \in 1..Len(m.waiters) : m.waiters[j].txn \in Txns
  BY WaitersType DEF Inv, EntriesOK
<1>6. EntriesOK(m)'
  BY <1>1, <1>3, <1>4, <1>5 DEF Inv, EntriesOK, Locks
<1>7. m.owners \subseteq Txns
  BY DEF Inv, EntriesOK, Locks
<1>8. Sound'
  BY <1>1, <1>3, <1>4, <1>7 DEF Inv, Sound, OwnersCompatible, HeadBlocked
<1> QED
  BY <1>1, <1>2, <1>6, <1>8 DEF Inv

(* A request that does not conflict: the lock was free, or shared and is   *)
(* asked to be shared.                                                     *)
LEMMA GetLockInv ==
    ASSUME Inv, NEW t \in Txns, GetLock(t)
    PROVE  Inv'
<1> DEFINE n == AsOwner(m, t, asked[t])
<1>1. m' = n /\ asked' = asked /\ alg' = alg /\ asked[t] \in Types
  BY DEF GetLock, Inv
<1>2. /\ n.lock_type = asked[t] /\ n.owners = m.owners \cup {t} /\ n.waiters = m.waiters
      /\ n \in Locks
  BY <1>1 DEF AsOwner, Inv, EntriesOK, Locks
<1> HIDE DEF n
<1>3. t \notin m.owners /\ \A j \in 1..Len(m.waiters) : m.waiters[j].txn # t
  BY DEF GetLock, Has, WaitingTxns
<1>4. EntriesOK(m)'
  BY <1>1, <1>2, <1>3 DEF Inv, EntriesOK
<1>5. ~conflict_lock(m.lock_type, asked[t])
  BY DEF GetLock, Conflicts
<1>6. m.lock_type = LOCK_NONE \/ (m.lock_type = LOCK_SH /\ asked[t] = LOCK_SH)
  BY <1>1, <1>5 DEF conflict_lock, Inv, EntriesOK, Locks, Types, LOCK_NONE, LOCK_SH, LOCK_EX
<1>7. OwnersCompatible(m, asked)'
  BY <1>1, <1>2, <1>6 DEF Inv, Sound, OwnersCompatible, Types, LOCK_NONE, LOCK_SH, LOCK_EX
<1>8. HeadBlocked(m)'
  <2>1. ASSUME m.waiters # <<>> PROVE conflict_lock(asked[t], m.waiters[1].type)
    <3>1. conflict_lock(m.lock_type, m.waiters[1].type)
      BY <2>1 DEF Inv, Sound, HeadBlocked
    <3> QED
      BY <1>6, <3>1 DEF conflict_lock
  <2> QED
    BY <1>1, <1>2, <2>1 DEF HeadBlocked
<1> QED
  BY <1>1, <1>4, <1>7, <1>8 DEF Inv, Sound

(* A waiter that becomes the first conflicts with the lock: one that only  *)
(* queues behind others is never placed before the first.                  *)
LEMMA WaitInv ==
    ASSUME Inv, NEW t \in Txns, Wait(t)
    PROVE  Inv'
<1>1. m \in Locks /\ asked' = asked /\ alg' = alg /\ asked[t] \in Types
  BY DEF Wait, Inv, EntriesOK
<1>2. PICK p \in 1..(Len(m.waiters) + 1) :
          IsPlace(alg, ts, m, t, p) /\ m' = AsWaiter(m, t, asked[t], p)
  BY DEF Wait
<1>3. /\ m' \in Locks
      /\ m'.lock_type = m.lock_type /\ m'.owners = m.owners
      /\ Len(m'.waiters) = Len(m.waiters) + 1
      /\ \A j \in 1..(Len(m.waiters) + 1) :
           m'.waiters[j] = IF j < p THEN m.waiters[j]
                           ELSE IF j = p THEN [txn |-> t, type |-> asked[t]]
                           ELSE m.waiters[j - 1]
  BY <1>1, <1>2, AsWaiterFields
<1>4. t \notin m.owners /\ \A j \in 1..Len(m.waiters) : m.waiters[j].txn # t
  BY DEF Wait, Has, WaitingTxns
<1> DEFINE old(j) == IF j < p THEN j ELSE j - 1
<1>5. Len(m.waiters) \in Nat
  BY <1>1, WaitersType
<1>6. \A j \in 1..(Len(m.waiters) + 1) : j # p =>
          /\ old(j) \in 1..Len(m.waiters)
          /\ m'.waiters[j] = m.waiters[old(j)]
  BY <1>3, <1>5
<1>7. m'.waiters[p] = [txn |-> t, type |-> asked[t]]
  BY <1>3
<1>8. \A i, j \in 1..(Len(m.waiters) + 1) : i # p /\ j # p /\ old(i) = old(j) => i = j
  BY <1>5
<1> HIDE DEF old
<1>9. EntriesOK(m)'
  <2>1. ASSUME NEW j \in 1..(Len(m.waiters) + 1)
        PROVE  /\ m'.waiters[j].type = asked[m'.waiters[j].txn]
               /\ m'.waiters[j].txn \notin m.owners
    BY <1>4, <1>6, <1>7 DEF Inv, EntriesOK
  <2>2. ASSUME NEW i \in 1..(Len(m.waiters) + 1), NEW j \in 1..(Len(m.waiters) + 1),
               m'.waiters[i].txn = m'.waiters[j].txn
        PROVE  i = j
    <3>1. CASE i = p /\ j # p
      BY <1>4, <1>6, <1>7, <2>2, <3>1
    <3>2. CASE i # p /\ j = p
      BY <1>4, <1>6, <1>7, <2>2, <3>2
    <3>3. CASE i # p /\ j # p
      <4>1. /\ old(i) \in 1..Len(m.waiters) /\ old(j) \in 1..Len(m.waiters)
            /\ m.waiters[old(i)].txn = m.waiters[old(j)].txn
        BY <1>6, <2>2, <3>3
      <4>2. old(i) = old(j)
        BY <4>1 DEF Inv, EntriesOK
      <4> QED
        BY <1>8, <3>3, <4>2
    <3> QED
      BY <3>1, <3>2, <3>3
  <2> QED
    BY <1>1, <1>3, <2>1, <2>2 DEF EntriesOK
<1>10. HeadBlocked(m)'
  <2>1. CASE p = 1
    <3>1. conflict_lock(m.lock_type, asked[t])
      BY <1>1, <1>2, <1>5, <2>1 DEF Wait, Conflicts, CanWait, IsPlace, Inv, EntriesOK
    <3> QED
      BY <1>3, <1>7, <2>1, <3>1 DEF HeadBlocked
  <2>2. CASE p # 1
    <3>1. m.waiters # <<>> /\ m'.waiters[1] = m.waiters[1]
      BY <1>1, <1>3, <1>5, <2>2
    <3> QED
      BY <1>3, <3>1 DEF Inv, Sound, HeadBlocked
  <2> QED
    BY <2>1, <2>2
<1> QED
  BY <1>1, <1>3, <1>9, <1>10 DEF Inv, Sound, OwnersCompatible

(* What lock_release finds once the entry of t is out. *)
LEMMA WithoutOK ==
    ASSUME Inv, NEW t \in Txns, Has(t), NEW x, x = Without(m, t)
    PROVE  EntriesOK(x) /\ OwnersCompatible(x, asked)
<1>1. m \in Locks
  BY DEF Inv, EntriesOK
<1>2. CASE t \in m.owners
  <2>1. /\ x.lock_type = (IF m.owners = {t} THEN LOCK_NONE ELSE m.lock_type)
        /\ x.owners = m.owners \ {t} /\ x.waiters = m.waiters
        /\ x \in Locks
    BY <1>1, <1>2 DEF Without, WithoutOwner, Locks
  <2>2. EntriesOK(x)
    BY <2>1 DEF Inv, EntriesOK
  <2>3. OwnersCompatible(x, asked)
    <3>1. CASE m.owners = {t}
      BY <2>1, <3>1 DEF OwnersCompatible, LOCK_NONE, LOCK_EX
    <3>2. CASE m.owners # {t}
      BY <1>2, <2>1, <3>2 DEF OwnersCompatible, Inv, Sound
    <3> QED
      BY <3>1, <3>2
  <2> QED
    BY <2>2, <2>3
<1>3. CASE t \notin m.owners
  <2> DEFINE p == CHOOSE p \in 1..Len(m.waiters) : m.waiters[p].txn = t
  <2>1. p \in 1..Len(m.waiters) /\ m.waiters[p].txn = t
    BY <1>3 DEF Has, WaitingTxns
  <2>2. x = WithoutWaiter(m, p)
    BY <1>3 DEF Without
  <2> HIDE DEF p
  <2>3. /\ x \in Locks
        /\ x.lock_type = m.lock_type /\ x.owners = m.owners
        /\ Len(x.waiters) = Len(m.waiters) - 1
        /\ \A j \in 1..(Len(m.waiters) - 1) :
             x.waiters[j] = IF j < p THEN m.waiters[j] ELSE m.waiters[j + 1]
    BY <1>1, <2>1, <2>2, WithoutWaiterFields
  <2> DEFINE old(j) == IF j < p THEN j ELSE j + 1
  <2>4. Len(m.waiters) \in Nat
    BY <1>1, WaitersType
  <2>5. \A j \in 1..Len(x.waiters) :
            old(j) \in 1..Len(m.waiters) /\ x.waiters[j] = m.waiters[old(j)]
    <3>1. SUFFICES ASSUME NEW j \in 1..Len(x.waiters)
                   PROVE  old(j) \in 1..Len(m.waiters) /\ x.waiters[j] = m.waiters[old(j)]
      OBVIOUS
    <3>2. j \in 1..(Len(m.waiters) - 1)
      BY <2>3
    <3>3. x.waiters[j] = IF j < p THEN m.waiters[j] ELSE m.waiters[j + 1]
      BY <2>3, <3>2
    <3>4. old(j) \in 1..Len(m.waiters)
      BY <2>4, <3>2
    <3>5. x.waiters[j] = m.waiters[old(j)]
      BY <3>3
    <3> QED
      BY <3>4, <3>5
  <2>6. \A i, j \in 1..Len(x.waiters) : old(i) = old(j) => i = j
    BY <2>1, <2>3, <2>4
  <2> HIDE DEF old
  <2>7. EntriesOK(x)
    <3>1. ASSUME NEW j \in 1..Len(x.waiters)
          PROVE  /\ x.waiters[j].type = asked[x.waiters[j].txn]
                 /\ x.waiters[j].txn \notin x.owners
      <4>1. old(j) \in 1..Len(m.waiters) /\ x.waiters[j] = m.waiters[old(j)]
        BY <2>5
      <4>2. \A k \in 1..Len(m.waiters) :
                /\ m.waiters[k].type = asked[m.waiters[k].txn]
                /\ m.waiters[k].txn \notin m.owners
        BY Zenon DEF Inv, EntriesOK
      <4>3. x.owners = m.owners
        BY <2>3
      <4> QED
        BY <4>1, <4>2, <4>3, Zenon
    <3>2. ASSUME NEW i \in 1..Len(x.waiters), NEW j \in 1..Len(x.waiters),
                 x.waiters[i].txn = x.waiters[j].txn
          PROVE  i = j
      <4>1. /\ old(i) \in 1..Len(m.waiters) /\ old(j) \in 1..Len(m.waiters)
            /\ m.waiters[old(i)].txn = m.waiters[old(j)].txn
        BY <2>5, <3>2
      <4>2. old(i) = old(j)
        BY <4>1 DEF Inv, EntriesOK
      <4> QED
        BY <2>6, <4>2
    <3> QED
      BY <2>3, <3>1, <3>2 DEF EntriesOK
  <2> QED
    BY <2>3, <2>7 DEF Inv, Sound, OwnersCompatible
<1> QED
  BY <1>2, <1>3

(* Waiters let in together all asked to share, or one is let in alone.     *)
LEMMA GrantOK ==
    ASSUME NEW x, EntriesOK(x), OwnersCompatible(x, asked),
           NEW k \in 0..Len(x.waiters), IsGrant(x, k), NEW n, n = AfterGrant(x, k)
    PROVE  EntriesOK(n) /\ OwnersCompatible(n, asked) /\ HeadBlocked(n)
<1>1. x \in Locks /\ Len(x.waiters) \in Nat
  BY WaitersType DEF EntriesOK
<1>2. /\ n \in Locks
      /\ n.lock_type = (IF k = 0 THEN x.lock_type ELSE x.waiters[k].type)
      /\ n.owners = x.owners \cup Granted(x, k)
      /\ Len(n.waiters) = Len(x.waiters) - k
      /\ \A j \in 1..(Len(x.waiters) - k) : n.waiters[j] = x.waiters[j + k]
  <2>1. IsAfterGrant(n, x, k)
    BY <1>1, AfterGrantFields
  <2> QED
    BY <2>1 DEF IsAfterGrant
<1>3. \A j \in 1..k : j \in 1..Len(x.waiters)
  BY <1>1
<1>4. \A j \in 1..Len(n.waiters) :
          j + k \in 1..Len(x.waiters) /\ j + k \notin 1..k /\ n.waiters[j] = x.waiters[j + k]
  <2> DEFINE l == Len(x.waiters)
  <2>1. l \in Nat /\ k \in 0..l
    BY <1>1
  <2>2. Len(n.waiters) = l - k
    BY <1>2
  <2>3. \A j \in 1..(l - k) : n.waiters[j] = x.waiters[j + k]
    BY <1>2
  <2> HIDE DEF l
  <2>4. \A j \in 1..(l - k) : j + k \in 1..l /\ j + k \notin 1..k
    BY <2>1
  <2> QED
    BY <2>2, <2>3, <2>4 DEF l
<1>5. EntriesOK(n)
  <2>1. ASSUME NEW j \in 1..Len(n.waiters)
        PROVE  /\ n.waiters[j].type = asked[n.waiters[j].txn]
               /\ n.waiters[j].txn \notin n.owners
    <3>1. n.waiters[j].type = asked[n.waiters[j].txn] /\ n.waiters[j].txn \notin x.owners
      BY <1>4 DEF EntriesOK
    <3>2. ASSUME NEW i \in 1..k PROVE x.waiters[i].txn # n.waiters[j].txn
      <4>1. /\ i \in 1..Len(x.waiters) /\ j + k \in 1..Len(x.waiters) /\ i # j + k
            /\ n.waiters[j] = x.waiters[j + k]
        BY <1>3, <1>4
      <4> DEFINE h == j + k
      <4> HIDE DEF h
      <4>2. /\ i \in 1..Len(x.waiters) /\ h \in 1..Len(x.waiters) /\ i # h
            /\ n.waiters[j] = x.waiters[h]
        BY <4>1 DEF h
      <4> QED
        BY <4>2 DEF EntriesOK
    <3> QED
      BY <1>2, <3>1, <3>2 DEF Granted
  <2>2. ASSUME NEW i \in 1..Len(n.waiters), NEW j \in 1..Len(n.waiters),
               n.waiters[i].txn = n.waiters[j].txn
        PROVE  i = j
    <3> DEFINE g == i + k
               h == j + k
    <3>1. /\ g \in 1..Len(x.waiters) /\ n.waiters[i] = x.waiters[g]
          /\ h \in 1..Len(x.waiters) /\ n.waiters[j] = x.waiters[h]
      BY <1>4
    <3> HIDE DEF g, h
    <3>2. g = h
      BY <2>2, <3>1 DEF EntriesOK
    <3> QED
      BY <3>2 DEF g, h
  <2> QED
    BY <1>2, <2>1, <2>2 DEF EntriesOK
<1>6. HeadBlocked(n)
  <2> SUFFICES ASSUME n.waiters # <<>>
               PROVE  conflict_lock(n.lock_type, n.waiters[1].type)
    BY DEF HeadBlocked
  <2>1. k < Len(x.waiters) /\ 1 \in 1..(Len(x.waiters) - k)
    BY <1>1, <1>2, WaitersType
  <2>2. conflict_lock(TypeMetBy(x, k + 1), x.waiters[k + 1].type)
    BY <2>1 DEF IsGrant
  <2>3. n.waiters[1] = x.waiters[k + 1]
    BY <1>2, <2>1
  <2>4. TypeMetBy(x, k + 1) = n.lock_type
    BY <1>2 DEF TypeMetBy
  <2> QED
    BY <2>2, <2>3, <2>4
<1>7. \A j \in 1..k : /\ x.waiters[j].type \in Types
                      /\ x.waiters[j].type = asked[x.waiters[j].txn]
  BY <1>1, <1>3, WaitersType DEF EntriesOK
<1>8. OwnersCompatible(n, asked)
  <2>1. CASE k = 0
    <3>1. Granted(x, k) = {}
      BY <2>1 DEF Granted
    <3> QED
      BY <1>2, <2>1, <3>1 DEF OwnersCompatible
  <2>2. CASE k # 0
    <3>1. 1 \in 1..k /\ k \in 1..k
      BY <1>1, <2>2
    <3>2. ~conflict_lock(x.lock_type, x.waiters[1].type)
      BY <3>1 DEF IsGrant, TypeMetBy
    <3>3. \/ x.lock_type = LOCK_NONE
          \/ x.lock_type = LOCK_SH /\ x.waiters[1].type = LOCK_SH
      BY <1>1, <1>7, <3>1, <3>2
      DEF conflict_lock, Locks, Types, LOCK_NONE, LOCK_SH, LOCK_EX
    <3>4. Granted(x, k) # {}
      BY <3>1 DEF Granted
    <3>5. CASE k = 1
      <4>1. Granted(x, k) = {x.waiters[1].txn}
        BY <3>5 DEF Granted
      <4>2. n.lock_type = x.waiters[1].type /\ n.owners = x.owners \cup {x.waiters[1].txn}
        BY <1>2, <3>5, <4>1
      <4>3. asked[x.waiters[1].txn] = x.waiters[1].type /\ x.waiters[1].type \in Types
        BY <1>7, <3>1
      <4> QED
        BY <3>3, <4>2, <4>3 DEF OwnersCompatible, Types, LOCK_NONE, LOCK_SH, LOCK_EX
    <3>6. CASE k > 1
      <4>1. \A j \in 2..k : x.waiters[j - 1].type = LOCK_SH /\ x.waiters[j].type = LOCK_SH
        <5> SUFFICES ASSUME NEW j \in 2..k
                     PROVE  x.waiters[j - 1].type = LOCK_SH /\ x.waiters[j].type = LOCK_SH
          OBVIOUS
        <5>1. j \in 1..k /\ j - 1 \in 1..k /\ j # 1
          OBVIOUS
        <5>2. ~conflict_lock(x.waiters[j - 1].type, x.waiters[j].type)
          BY <5>1 DEF IsGrant, TypeMetBy
        <5> QED
          BY <1>7, <5>1, <5>2 DEF conflict_lock, Types, LOCK_NONE, LOCK_SH, LOCK_EX
      <4>2. x.waiters[1].type = LOCK_SH
        <5>1. 2 \in 2..k /\ 2 - 1 = 1
          BY <3>6
        <5> QED
          BY <4>1, <5>1
      <4>3. \A j \in 1..k : x.waiters[j].type = LOCK_SH
        <5> SUFFICES ASSUME NEW j \in 1..k PROVE x.waiters[j].type = LOCK_SH
          OBVIOUS
        <5>1. j = 1 \/ j \in 2..k
          OBVIOUS
        <5> QED
          BY <4>1, <4>2, <5>1
      <4>4. n.lock_type = LOCK_SH
        BY <1>2, <2>2, <3>1, <4>3
      <4>5. \A u \in Granted(x, k) : asked[u] = LOCK_SH
        BY <1>7, <4>3 DEF Granted
      <4>6. \A u \in x.owners : asked[u] = LOCK_SH
        BY <3>3 DEF OwnersCompatible
      <4> QED
        BY <1>2, <3>4, <4>4, <4>5, <4>6 DEF OwnersCompatible, LOCK_NONE, LOCK_SH, LOCK_EX
    <3> QED
      BY <2>2, <3>5, <3>6
  <2> QED
    BY <2>1, <2>2
<1> QED
  BY <1>5, <1>6, <1>8

(* lock_release keeps the invariant: the entry leaves, waiters are let in. *)
LEMMA ReleaseInv ==
    ASSUME Inv, NEW t \in Txns, Release(t)
    PROVE  Inv'
<1>1. PICK k \in 0..Len(Without(m, t).waiters) :
          IsGrant(Without(m, t), k) /\ m' = AfterGrant(Without(m, t), k)
  BY DEF Release
<1>2. EntriesOK(Without(m, t)) /\ OwnersCompatible(Without(m, t), asked)
  BY WithoutOK DEF Release
<1>3. EntriesOK(m') /\ OwnersCompatible(m', asked) /\ HeadBlocked(m')
  BY <1>1, <1>2, GrantOK
<1>4. asked' = asked /\ alg' = alg
  BY DEF Release
<1> QED
  BY <1>3, <1>4 DEF Inv, EntriesOK, Sound, OwnersCompatible, HeadBlocked

(* Every step keeps the invariant. *)
LEMMA NextInv == Inv /\ [Next]_vars => Inv'
<1> SUFFICES ASSUME Inv, [Next]_vars PROVE Inv'
  OBVIOUS
<1>1. CASE UNCHANGED vars
  BY <1>1 DEF Inv, vars, EntriesOK, Sound, OwnersCompatible, HeadBlocked
<1>2. ASSUME NEW t \in Txns, NEW type \in {LOCK_NONE, LOCK_SH, LOCK_EX}, Begin(t, type)
      PROVE  Inv'
  BY <1>2, BeginInv DEF Types
<1>3. ASSUME NEW t \in Txns, GetLock(t) PROVE Inv'
  BY <1>3, GetLockInv
<1>4. ASSUME NEW t \in Txns, Wait(t) PROVE Inv'
  BY <1>4, WaitInv
<1>5. ASSUME NEW t \in Txns, Release(t) PROVE Inv'
  BY <1>5, ReleaseInv
<1> QED
  BY <1>1, <1>2, <1>3, <1>4, <1>5 DEF Next

-----------------------------------------------------------------------------
(* However many transactions ask for the lock of a row and give it back,   *)
(* its owners are compatible and the first waiter conflicts with them:     *)
(* lock_get and lock_release never leave a waiter asleep that could run.   *)
THEOREM LockSound == Spec => []Sound
<1>1. Inv => Sound
  BY DEF Inv
<1> QED
  BY <1>1, InitInv, NextInv, PTL DEF Spec

(* A transaction never has two entries, so the search of lock_release      *)
(* takes out the one lock_get made.                                        *)
THEOREM LockOneEntry == Spec => []OneEntry
<1>1. Inv => OneEntry
  BY DEF Inv, EntriesOK, OneEntry, WaitingTxns
<1> QED
  BY <1>1, InitInv, NextInv, PTL DEF Spec
=============================================================================
