------------------------------ MODULE RowLock ------------------------------
(***************************************************************************)
(* bench/cc/row_lock.cpp: the lock of one row, for the builds with CC_ALG  *)
(* NO_WAIT, WAIT_DIE or DL_DETECT.  lock_get and lock_release run under    *)
(* the row's latch, so each is one step.  A LockEntry is the transaction   *)
(* manager of a thread and the type it asked for; a thread has at most one *)
(* entry per row.  The state of a row's lock is a record m, so that the    *)
(* transaction layer can hold one per row.                                 *)
(***************************************************************************)
EXTENDS Integers, Sequences, FiniteSets

LOCK_NONE == "LOCK_NONE"
LOCK_SH == "LOCK_SH"
LOCK_EX == "LOCK_EX"
LockAlgs == {"NO_WAIT", "WAIT_DIE", "DL_DETECT"}

LockInit == [lock_type |-> LOCK_NONE, owners |-> {}, waiters |-> <<>>]

conflict_lock(l1, l2) ==
    l1 # LOCK_NONE /\ l2 # LOCK_NONE /\ (l1 = LOCK_EX \/ l2 = LOCK_EX)

WaitingTxns(m) == {m.waiters[j].txn : j \in 1..Len(m.waiters)}

(* Must the request wait or abort?  With WAIT_DIE a request that is        *)
(* compatible still queues behind a first waiter with a larger timestamp;  *)
(* with DL_DETECT nobody overtakes a waiter.                               *)
Conflicts(alg, ts, m, t, type) ==
    \/ conflict_lock(m.lock_type, type)
    \/ /\ alg = "WAIT_DIE" /\ m.waiters # <<>>
       /\ ts[t] < ts[m.waiters[1].txn]
    \/ alg = "DL_DETECT" /\ m.waiters # <<>>

(* A conflicting request waits, or aborts: NO_WAIT always aborts, WAIT_DIE *)
(* aborts when some owner has a smaller timestamp.                         *)
CanWait(alg, ts, m, t) ==
    \/ alg = "DL_DETECT"
    \/ alg = "WAIT_DIE" /\ \A o \in m.owners : ~(ts[o] < ts[t])

(* Where a waiter is linked in: last with DL_DETECT; with WAIT_DIE before  *)
(* the first waiter whose timestamp is not larger.                         *)
IsPlace(alg, ts, m, t, p) ==
    IF alg = "DL_DETECT"
    THEN p = Len(m.waiters) + 1
    ELSE /\ \A j \in 1..(p - 1) : ts[t] < ts[m.waiters[j].txn]
         /\ p <= Len(m.waiters) => ~(ts[t] < ts[m.waiters[p].txn])

AsOwner(m, t, type) ==
    [lock_type |-> type, owners |-> m.owners \cup {t}, waiters |-> m.waiters]

AsWaiter(m, t, type, p) ==
    [m EXCEPT !.waiters =
        [j \in 1..(Len(@) + 1) |->
            IF j < p THEN @[j]
            ELSE IF j = p THEN [txn |-> t, type |-> type] ELSE @[j - 1]]]

(* lock_release takes the entry out of the owners, or else out of the      *)
(* waiters: the transaction may have been granted the lock just before it  *)
(* gave up waiting.                                                        *)
WithoutOwner(m, t) ==
    [lock_type |-> IF m.owners = {t} THEN LOCK_NONE ELSE m.lock_type,
     owners |-> m.owners \ {t}, waiters |-> m.waiters]

WithoutWaiter(m, p) ==
    [m EXCEPT !.waiters = [j \in 1..(Len(@) - 1) |->
                              IF j < p THEN @[j] ELSE @[j + 1]]]

(* The lock type the j-th waiter meets when the j - 1 before it are in.    *)
TypeMetBy(m, j) == IF j = 1 THEN m.lock_type ELSE m.waiters[j - 1].type

(* Mutant: nobody is let in when an entry leaves.                          *)
IsGrant_Never(m, k) == k = 0

(* "If any waiter can join the owners, just do it!": the first k waiters   *)
(* join, and the loop stops at one that conflicts.                         *)
IsGrant(m, k) ==
    /\ \A j \in 1..k : ~conflict_lock(TypeMetBy(m, j), m.waiters[j].type)
    /\ k < Len(m.waiters) =>
          conflict_lock(TypeMetBy(m, k + 1), m.waiters[k + 1].type)

Granted(m, k) == {m.waiters[j].txn : j \in 1..k}

AfterGrant(m, k) ==
    [lock_type |-> IF k = 0 THEN m.lock_type ELSE m.waiters[k].type,
     owners |-> m.owners \cup Granted(m, k),
     waiters |-> [j \in 1..(Len(m.waiters) - k) |-> m.waiters[j + k]]]

(* The lock once t's entry is out, before the grant loop.                  *)
Without(m, t) ==
    IF t \in m.owners
    THEN WithoutOwner(m, t)
    ELSE WithoutWaiter(m, CHOOSE p \in 1..Len(m.waiters) :
                              m.waiters[p].txn = t)

(* The lock has the type every owner asked for, and when that is exclusive *)
(* the owner is alone; asked: what each transaction asked for.             *)
OwnersCompatible(m, asked) ==
    /\ m.lock_type = LOCK_NONE <=> m.owners = {}
    /\ \A t \in m.owners : asked[t] = m.lock_type
    /\ m.lock_type = LOCK_EX => \A s, t \in m.owners : s = t

(* No lost wake-up: whoever is first in the queue has a reason to wait.    *)
HeadBlocked(m) ==
    m.waiters # <<>> => conflict_lock(m.lock_type, m.waiters[1].type)
=============================================================================
