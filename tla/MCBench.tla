------------------------------ MODULE MCBench ------------------------------
(***************************************************************************)
(* Instances of Bench: up to three threads, three rows and four            *)
(* transactions.                                                           *)
(***************************************************************************)
EXTENDS Bench

R(r) == [row |-> r, type |-> "RD"]
W(r) == [row |-> r, type |-> "WR"]

MCThreads == 0..2
MCThreads2 == 0..1
MCRows == 1..3
MCFirstWts == [r \in MCRows |-> 0]

(* Two threads cross, then look at the outcome.                            *)
Skew == [q |-> << << <<R(1), W(2)>>, <<R(1), R(2)>> >>, << <<R(2), W(1)>> >>, <<>> >>, max |-> 2]

(* Two threads write the same rows in opposite orders, and again.          *)
Update == [q |-> << << <<W(1), W(2)>> >>, << <<W(2), W(1)>>, <<R(1), W(2)>> >>, <<>> >>, max |-> 2]

(* A ring of three.                                                        *)
Ring == [q |-> << << <<R(1), W(2)>> >>, << <<R(2), W(3)>> >>, << <<R(3), W(1)>> >> >>, max |-> 1]

ByThread(w) == [w EXCEPT !.q = [t \in Threads |-> w.q[t + 1]]]

(* One thread writes a row often enough to recycle two versions while an   *)
(* older transaction of another is running.                                *)
Recycle ==
    [q |-> << << <<R(2), R(3)>> >>, [i \in 1..6 |-> <<W(1)>>], <<>> >>, max |-> 6]

MCWorkloads(alg) ==
    {ByThread(Skew), ByThread(Update)}
       \cup (IF alg = "DL_DETECT" THEN {ByThread(Ring)} ELSE {})
       \cup (IF alg = "MVCC" THEN {ByThread(Recycle)} ELSE {})

(* WAIT_DIE: two threads write two rows in opposite orders.                *)
MCCrossWorkloads(alg) ==
    {ByThread([q |-> << << <<W(1), W(2)>> >>, << <<W(2), W(1)>> >> >>, max |-> 2])}

(* TicToc, three threads: the first renews the lease of row 1 while the    *)
(* second does and commits, then overwrites row 1; the third reads across. *)
MCLeaseFirstWts == <<2, 2, 4>>
MCLeaseWorkloads(alg) ==
    {ByThread([q |-> << << <<R(1), W(2)>> >>, << <<R(1), W(3)>>, <<W(1)>> >>,
                        << <<R(3), R(1)>> >> >>, max |-> 2])}

(* MVCC, with the history length of the code: the second thread fills the  *)
(* history of row 1 and writes once more while the first reads.            *)
MCHistoryWorkloads(alg) ==
    {ByThread([q |-> << << <<R(1), R(2)>> >>,
                        << <<W(1)>>, <<W(1)>>, <<W(1)>>, <<W(1)>>, <<W(1), W(2)>> >> >>,
               max |-> 5])}
=============================================================================
