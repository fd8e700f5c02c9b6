-------------------------------- MODULE Plock --------------------------------
(***************************************************************************)
(* CC_ALG HSTORE: the partition locks of bench/cc/plock.cpp and their use  *)
(* in thread_t::run.  A partition holds one row; row[r] is its PartMan,    *)
(* tx.n the ready_part of a transaction.                                   *)
(***************************************************************************)
EXTENDS Txn

PartInit == [owner |-> {}, waiters |-> <<>>]

Part(t, l) == CC_ALG = "HSTORE" /\ pc[t] = l

(* part_to_access: the partitions of the query.                            *)
parts(t) == [i \in DOMAIN tx[t].query |-> tx[t].query[i].row]

(* Mutant: a transaction waits for whoever owns the partition.             *)
PartWaits_Always(t, m) == TRUE

PartWaits(t, m) == \A o \in m.owner : tx[o].ts < tx[t].ts

(* waiters stay in timestamp order.                                        *)
Place(t, m) == 1 + Cardinality({i \in DOMAIN m.waiters : tx[m.waiters[i]].ts < tx[t].ts})

(* PartMan::lock for the i-th partition: own it, wait, or give up and      *)
(* unlock those before it.                                                 *)
part_lock(t) ==
    LET i == tx[t].i
        m == row[parts(t)[i]]
        new == [tx[t] EXCEPT !.i = i + 1]
        next == IF i = Len(parts(t)) THEN "spin" ELSE "plock"
    IN  /\ Part(t, "plock")
        /\ \/ /\ m.owner = {}
              /\ row' = [row EXCEPT ![parts(t)[i]].owner = {t}]
              /\ Goto(t, next, new)
           \/ /\ m.owner # {} /\ PartWaits(t, m)
              /\ row' = [row EXCEPT ![parts(t)[i]].waiters = InsertAt(@, Place(t, m), t)]
              /\ Goto(t, next, [new EXCEPT !.n = @ + 1])
           \/ /\ m.owner # {} /\ ~PartWaits(t, m)
              /\ row' = row
              /\ Goto(t, "unlock", [tx[t] EXCEPT !.rc = "Abort", !.v = i - 1, !.i = 1])
        /\ UNCHANGED <<CC_ALG, work, abuf, acc, data, mgr, dep, hist, fail>>

(* Every partition is owned. *)
part_ready(t) ==
    /\ Part(t, "spin") /\ tx[t].n = 0
    /\ Goto(t, "get", tx[t])
    /\ UNCHANGED <<CC_ALG, work, abuf, acc, row, data, mgr, dep, hist, fail>>

(* The body works on the rows themselves.                                  *)
PartAccess(t) ==
    LET r == Req(t).row IN
    /\ Part(t, "get")
    /\ GotRow(t, [row |-> r, type |-> Req(t).type, ver |-> data[r][0]])
    /\ data' = IF Req(t).type = "WR" THEN [data EXCEPT ![r][0] = tx[t].id] ELSE data
    /\ pc' = [pc EXCEPT ![t] = AfterAccess(t)]
    /\ UNCHANGED <<CC_ALG, work, abuf, tx, row, mgr, dep, hist, fail>>

PartFinish(t) ==
    /\ Part(t, "finish")
    /\ Committed(t)
    /\ Goto(t, "unlock", [tx[t] EXCEPT !.v = Len(parts(t)), !.i = 1])
    /\ UNCHANGED <<CC_ALG, work, abuf, acc, row, data, mgr, dep, fail>>

(* PartMan::unlock hands the partition to the first waiter, or withdraws a *)
(* waiter.  It is done for the first v partitions of the query.            *)
part_unlock(t) ==
    LET r == parts(t)[tx[t].i]
        m == row[r]
        done == [tx EXCEPT ![t].i = @ + 1]
    IN  /\ Part(t, "unlock") /\ tx[t].i <= tx[t].v
        /\ \/ /\ m.owner = {t} /\ m.waiters = <<>>
              /\ row' = [row EXCEPT ![r].owner = {}]
              /\ tx' = done /\ fail' = fail
           \/ /\ m.owner = {t} /\ m.waiters # <<>>
              /\ row' = [row EXCEPT ![r] = [owner |-> {Head(m.waiters)},
                                            waiters |-> Tail(m.waiters)]]
              /\ tx' = [done EXCEPT ![Head(m.waiters)].n = @ - 1]
              /\ fail' = (fail \/ \E i \in 1..(Len(m.waiters) - 1) :
                                     tx[m.waiters[i]].ts >= tx[m.waiters[i + 1]].ts)
           \/ /\ m.owner # {t}
              /\ row' = [row EXCEPT ![r].waiters = SelectSeq(@, LAMBDA u : u # t)]
              /\ tx' = [done EXCEPT ![t].n = @ - 1]
              /\ fail' = (fail \/ t \notin {m.waiters[i] : i \in DOMAIN m.waiters})
        /\ UNCHANGED <<CC_ALG, pc, work, abuf, acc, data, mgr, dep, hist>>

PartEnd(t) ==
    /\ Part(t, "unlock") /\ tx[t].i > tx[t].v
    /\ fail' = (fail \/ tx[t].n # 0)
    /\ Ended(t, tx[t].rc)
    /\ UNCHANGED <<CC_ALG, work, tx, row, data, mgr, dep, hist>>

PartStep(t) ==
    /\ CC_ALG = "HSTORE"
    /\ \/ part_lock(t) \/ part_ready(t) \/ PartAccess(t) \/ PartFinish(t)
       \/ part_unlock(t) \/ PartEnd(t)
==============================================================================
