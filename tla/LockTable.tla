----------------------------- MODULE LockTable -----------------------------
(***************************************************************************)
(* What the lock of one row promises to any number of transactions that    *)
(* ask for it and give it back in any order.  asked[t] is the type of the  *)
(* lock that transaction t asks for, LOCK_NONE if it does not use the row. *)
(* alg and ts, the build and the timestamps, never change.                 *)
(***************************************************************************)
EXTENDS RowLock

CONSTANT Txns

VARIABLES m, asked, alg, ts

vars == <<m, asked, alg, ts>>

Has(t) == t \in m.owners \/ t \in WaitingTxns(m)

Init ==
    /\ m = LockInit
    /\ asked \in [Txns -> {LOCK_NONE, LOCK_SH, LOCK_EX}]
    /\ alg \in LockAlgs

(* A transaction that has no entry begins anew. *)
Begin(t, type) ==
    /\ ~Has(t)
    /\ asked' = [asked EXCEPT ![t] = type]
    /\ UNCHANGED <<m, alg, ts>>

(* lock_get: the request gets the lock, or waits for it.                   *)
GetLock(t) ==
    /\ ~Has(t) /\ asked[t] # LOCK_NONE
    /\ ~Conflicts(alg, ts, m, t, asked[t])
    /\ m' = AsOwner(m, t, asked[t])
    /\ UNCHANGED <<asked, alg, ts>>

Wait(t) ==
    /\ ~Has(t) /\ asked[t] # LOCK_NONE
    /\ Conflicts(alg, ts, m, t, asked[t]) /\ CanWait(alg, ts, m, t)
    /\ \E p \in 1..(Len(m.waiters) + 1) :
          /\ IsPlace(alg, ts, m, t, p)
          /\ m' = AsWaiter(m, t, asked[t], p)
    /\ UNCHANGED <<asked, alg, ts>>

(* lock_release.  *)
Release(t) ==
    /\ Has(t)
    /\ \E k \in 0..Len(Without(m, t).waiters) :
          /\ IsGrant(Without(m, t), k)
          /\ m' = AfterGrant(Without(m, t), k)
    /\ UNCHANGED <<asked, alg, ts>>

Next ==
    \E t \in Txns :
        \/ \E type \in {LOCK_NONE, LOCK_SH, LOCK_EX} : Begin(t, type)
        \/ GetLock(t) \/ Wait(t) \/ Release(t)

Spec == Init /\ [][Next]_vars

(* The lock is shared only by transactions that asked to read, and whoever *)
(* is first in the queue conflicts with the owners: lock_get and           *)
(* lock_release lose no wake-up.                                           *)
Sound == OwnersCompatible(m, asked) /\ HeadBlocked(m)

(* A transaction has one entry: it never waits for a lock it owns, or      *)
(* twice, so that lock_release takes out the entry lock_get made.          *)
OneEntry ==
    /\ m.owners \cap WaitingTxns(m) = {}
    /\ \A i, j \in 1..Len(m.waiters) : m.waiters[i].txn = m.waiters[j].txn => i = j
=============================================================================
