-------------------------------- MODULE Occ --------------------------------
(***************************************************************************)
(* CC_ALG OCC with per-row validation (PER_ROW_VALID): bench/cc/row_occ.cpp*)
(* and OptCC::per_row_validate of occ.cpp.  row[r] is the latch and wts of *)
(* a Row_occ; tx.ts is start_ts and tx.c end_ts.                           *)
(***************************************************************************)
EXTENDS Txn

OccInit == [latch |-> FALSE, wts |-> 0]

OccAt(t, l) == CC_ALG = "OCC" /\ pc[t] = l

(* Row_occ::access, under the latch: a copy, unless the row is too new.    *)
OccAccess(t) ==
    LET r == Req(t).row IN
    /\ OccAt(t, "get") /\ ~row[r].latch
    /\ IF tx[t].ts < row[r].wts
       THEN Ended(t, "Abort")
       ELSE /\ GotRow(t, [row |-> r, type |-> Req(t).type, ver |-> data[r][0]])
            /\ pc' = [pc EXCEPT ![t] = AfterAccess(t)] /\ abuf' = abuf
    /\ UNCHANGED <<CC_ALG, work, tx, row, data, mgr, dep, hist, fail>>

(* All accesses in primary key order. *)
KeyOrder(t) ==
    SetToSortSeq(DOMAIN acc[t], LAMBDA i, j : acc[t][i].row < acc[t][j].row)

Latched(t, i) == acc[t][KeyOrder(t)[i]].row

(* Mutant: only the rows read are validated.                               *)
OccValidate_Reads(t) ==
    LET i == tx[t].i
        r == Latched(t, i)
    IN  /\ OccAt(t, "finish") /\ ~row[r].latch
        /\ row' = [row EXCEPT ![r].latch = TRUE]
        /\ IF acc[t][KeyOrder(t)[i]].type = "RD" /\ tx[t].ts < row[r].wts
           THEN Goto(t, "release", [tx[t] EXCEPT !.i = 1, !.n = i, !.rc = "Abort"])
           ELSE Goto(t, IF i = Len(acc[t]) THEN "write" ELSE "finish",
                     [tx[t] EXCEPT !.i = i + 1, !.n = i])
        /\ UNCHANGED <<CC_ALG, work, abuf, acc, data, mgr, dep, hist, fail>>

(* The rows are latched and validated one by one. *)
OccValidate(t) ==
    LET i == tx[t].i
        r == Latched(t, i)
    IN  /\ OccAt(t, "finish") /\ ~row[r].latch
        /\ row' = [row EXCEPT ![r].latch = TRUE]
        /\ IF tx[t].ts < row[r].wts
           THEN Goto(t, "release", [tx[t] EXCEPT !.i = 1, !.n = i, !.rc = "Abort"])
           ELSE Goto(t, IF i = Len(acc[t]) THEN "write" ELSE "finish",
                     [tx[t] EXCEPT !.i = i + 1, !.n = i])
        /\ UNCHANGED <<CC_ALG, work, abuf, acc, data, mgr, dep, hist, fail>>

OccEndTs(t) == mgr.timestamp

(* end_ts is taken, and cleanup writes the rows, all of them latched.      *)
OccCommit(t) ==
    LET wr == {acc[t][j].row : j \in Writes(t)} IN
    /\ OccAt(t, "write")
    /\ Committed(t)
    /\ data' = [r \in Rows |-> IF r \in wr THEN [data[r] EXCEPT ![0] = tx[t].id] ELSE data[r]]
    /\ row' = [r \in Rows |-> IF r \in wr THEN [row[r] EXCEPT !.wts = OccEndTs(t)] ELSE row[r]]
    /\ fail' = (fail \/ \E r \in wr : OccEndTs(t) <= row[r].wts)
    /\ mgr' = [mgr EXCEPT !.timestamp = @ + 1]
    /\ Goto(t, "release", [tx[t] EXCEPT !.i = 1])
    /\ UNCHANGED <<CC_ALG, work, abuf, acc, dep>>

OccRelease(t) ==
    /\ OccAt(t, "release") /\ tx[t].i <= tx[t].n
    /\ row' = [row EXCEPT ![Latched(t, tx[t].i)].latch = FALSE]
    /\ IF tx[t].i = tx[t].n
       THEN Ended(t, tx[t].rc) /\ tx' = tx
       ELSE Goto(t, "release", [tx[t] EXCEPT !.i = @ + 1]) /\ UNCHANGED <<abuf, acc>>
    /\ UNCHANGED <<CC_ALG, work, data, mgr, dep, hist, fail>>

OccStep(t) ==
    /\ CC_ALG = "OCC"
    /\ OccAccess(t) \/ OccValidate(t) \/ OccCommit(t) \/ OccRelease(t)
=============================================================================
