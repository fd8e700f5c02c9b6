------------------------------- MODULE TicToc -------------------------------
(***************************************************************************)
(* CC_ALG TICTOC, the default: bench/cc/row_tictoc.cpp and ticktoc.cpp     *)
(* with the values of config.h (ATOMIC_WORD, PRE_ABORT, "no-wait",         *)
(* SERIALIZABLE, WR_VALIDATION_SEPARATE).  row[r] is _ts_word: LOCK_BIT,   *)
(* the write timestamp and the distance of the read timestamp from it, a   *)
(* field of RTS_LEN bits.                                                  *)
(***************************************************************************)
EXTENDS Txn

CONSTANTS RTS_LEN,    \* 15 in the code
          FirstWts    \* row -> wts that earlier transactions have left

TicTocInit(r) == [lock |-> FALSE, wts |-> FirstWts[r], delta |-> 0]

Rts(w) == w.wts + w.delta

Tic(t, l) == CC_ALG = "TICTOC" /\ pc[t] = l

(* Row_tictoc::access: as in Silo, but a lease extended meanwhile does not *)
(* matter.                                                                 *)
TicReadWord(t) ==
    /\ Tic(t, "get") /\ ~row[Req(t).row].lock
    /\ Goto(t, "copy", [tx[t] EXCEPT !.w = row[Req(t).row]])
    /\ UNCHANGED <<CC_ALG, work, abuf, acc, row, data, mgr, dep, hist, fail>>

TicCopy(t) ==
    /\ Tic(t, "copy")
    /\ Goto(t, "reread", [tx[t] EXCEPT !.c = data[Req(t).row][0]])
    /\ UNCHANGED <<CC_ALG, work, abuf, acc, row, data, mgr, dep, hist, fail>>

TicReread(t) ==
    LET w == row[Req(t).row] IN
    /\ Tic(t, "reread")
    /\ IF ~w.lock /\ w.wts = tx[t].w.wts
       THEN /\ GotRow(t, [row |-> Req(t).row, type |-> Req(t).type, ver |-> tx[t].c,
                          wts |-> w.wts, rts |-> Rts(tx[t].w)])
            /\ Goto(t, AfterAccess(t), [tx[t] EXCEPT !.w = NoWord])
       ELSE acc' = acc /\ Goto(t, "get", tx[t])
    /\ UNCHANGED <<CC_ALG, work, abuf, row, data, mgr, dep, hist, fail>>

TicRow(t, j) == acc[t][j].row
SameWts(t, j) == row[TicRow(t, j)].wts = acc[t][j].wts

(* commit_wts as computed from the accesses, and as raised once the write  *)
(* set is locked.                                                          *)
FirstCommit(t) ==
    Max({IF acc[t][j].type = "RD" THEN acc[t][j].wts ELSE acc[t][j].rts + 1 :
            j \in DOMAIN acc[t]})

CommitWts(t) ==
    Max({FirstCommit(t)} \cup {Rts(row[TicRow(t, j)]) + 1 : j \in Writes(t)})

PreAborts(t, j) ==
    /\ ~SameWts(t, j)
    /\ acc[t][j].type = "RD" => FirstCommit(t) > Rts(row[TicRow(t, j)])

TicPreAbort(t) ==
    LET all == WriteSet(t) \o ReadSet(t) IN
    /\ Tic(t, "finish")
    /\ IF PreAborts(t, all[tx[t].i])
       THEN Goto(t, "release", [tx[t] EXCEPT !.rc = "Abort", !.i = 1])
       ELSE IF tx[t].i = Len(all)
            THEN Goto(t, IF Writes(t) = {} THEN "validate" ELSE "lock",
                      [tx[t] EXCEPT !.i = 1])
            ELSE Goto(t, "finish", [tx[t] EXCEPT !.i = @ + 1])
    /\ UNCHANGED <<CC_ALG, work, abuf, acc, row, data, mgr, dep, hist, fail>>

(* try_lock: the compare-and-swap also fails when a lease was extended.    *)
TicTryLock(t) ==
    LET r == TicRow(t, WriteSet(t)[tx[t].i]) IN
    /\ Tic(t, "lock")
    /\ IF row[r].lock
       THEN Goto(t, "release", [tx[t] EXCEPT !.i = 1])
       ELSE Goto(t, "cas", [tx[t] EXCEPT !.w = row[r]])
    /\ UNCHANGED <<CC_ALG, work, abuf, acc, row, data, mgr, dep, hist, fail>>

TicCas(t) ==
    LET i == tx[t].i
        r == TicRow(t, WriteSet(t)[i])
        new == [tx[t] EXCEPT !.w = NoWord, !.n = i]
    IN  /\ Tic(t, "cas")
        /\ IF row[r] # tx[t].w
           THEN row' = row /\ Goto(t, "release", [tx[t] EXCEPT !.w = NoWord, !.i = 1])
           ELSE /\ row' = [row EXCEPT ![r].lock = TRUE]
                /\ IF ~SameWts(t, WriteSet(t)[i])
                   THEN Goto(t, "release", [new EXCEPT !.i = 1, !.rc = "Abort"])
                   ELSE IF i = Len(WriteSet(t))
                        THEN Goto(t, "validate", [new EXCEPT !.i = 1])
                        ELSE Goto(t, "lock", [new EXCEPT !.i = i + 1])
        /\ UNCHANGED <<CC_ALG, work, abuf, acc, data, mgr, dep, hist, fail>>

TicRelease(t) ==
    /\ Tic(t, "release") /\ tx[t].i <= tx[t].n
    /\ row' = [row EXCEPT ![TicRow(t, WriteSet(t)[tx[t].i])].lock = FALSE]
    /\ Goto(t, "release", [tx[t] EXCEPT !.i = @ + 1])
    /\ UNCHANGED <<CC_ALG, work, abuf, acc, data, mgr, dep, hist, fail>>

TicReleased(t) ==
    /\ Tic(t, "release") /\ tx[t].i > tx[t].n
    /\ tx' = [tx EXCEPT ![t].i = 1, ![t].n = 0]
    /\ IF tx[t].rc = "Abort"
       THEN Ended(t, "Abort")
       ELSE pc' = [pc EXCEPT ![t] = "finish"] /\ UNCHANGED <<abuf, acc>>
    /\ UNCHANGED <<CC_ALG, work, row, data, mgr, dep, hist, fail>>

(* The read set is validated: access i either has a lease long enough, or  *)
(* asks try_renew for one.                                                 *)
Renewed(t) == Goto(t, "validate", [tx[t] EXCEPT !.i = @ + 1, !.w = NoWord])
NotRenewed(t) == Goto(t, "release", [tx[t] EXCEPT !.i = 1, !.w = NoWord, !.rc = "Abort"])

(* Mutant: a lease is taken although the row is locked or rewritten.       *)
TicValidate_NoCheck(t) ==
    /\ Tic(t, "validate") /\ tx[t].i <= Len(ReadSet(t))
    /\ Renewed(t)
    /\ UNCHANGED <<CC_ALG, work, abuf, acc, row, data, mgr, dep, hist, fail>>

(* try_renew up to the compare-and-swap: it looks at one reading of the    *)
(* word.                                                                   *)
TicValidate(t) ==
    LET a == acc[t][ReadSet(t)[tx[t].i]]
        w == row[a.row]
        rts == CommitWts(t)
    IN  /\ Tic(t, "validate") /\ tx[t].i <= Len(ReadSet(t))
        /\ IF a.rts >= rts \/ (w.wts = a.wts /\ w.delta >= rts - a.wts)
           THEN Renewed(t)
           ELSE IF w.lock \/ w.wts # a.wts
                THEN NotRenewed(t)
                ELSE Goto(t, "renew", [tx[t] EXCEPT !.w = w])
        /\ UNCHANGED <<CC_ALG, work, abuf, acc, row, data, mgr, dep, hist, fail>>

(* The new word.  A distance that does not fit its field moves wts up.     *)
Rebases(wts, rts) == rts - wts >= 2^RTS_LEN

NewWord(wts, rts) ==
    LET delta == (rts - wts) % 2^RTS_LEN
    IN  [lock |-> FALSE, wts |-> rts - delta, delta |-> delta]

(* The compare-and-swap of try_renew.  When it fails on a word that is     *)
(* neither locked nor rewritten, the absolute rts is compared with the     *)
(* distance in the word, and the same new word is tried again.             *)
TicRenew(t) ==
    LET a == acc[t][ReadSet(t)[tx[t].i]]
        w == row[a.row]
        rts == CommitWts(t)
    IN  /\ Tic(t, "renew")
        /\ IF w = tx[t].w
           THEN row' = [row EXCEPT ![a.row] = NewWord(a.wts, rts)] /\ Renewed(t)
           ELSE /\ row' = row
                /\ IF Rebases(a.wts, rts) \/ w.lock \/ w.wts # a.wts
                   THEN NotRenewed(t)
                   ELSE IF rts < w.delta
                        THEN Renewed(t)
                        ELSE Goto(t, "renew", [tx[t] EXCEPT !.w = w])
        /\ UNCHANGED <<CC_ALG, work, abuf, acc, data, mgr, dep, hist, fail>>

TicCommit(t) ==
    /\ Tic(t, "validate") /\ tx[t].i > Len(ReadSet(t))
    /\ Committed(t)
    /\ Goto(t, "write", [tx[t] EXCEPT !.c = CommitWts(t), !.i = 1])
    /\ UNCHANGED <<CC_ALG, work, abuf, acc, row, data, mgr, dep, fail>>

(* write_data stores the new word, still locked, and copies; then the lock *)
(* is released.                                                            *)
TicWrite(t) ==
    LET r == TicRow(t, WriteSet(t)[tx[t].i]) IN
    /\ Tic(t, "write") /\ tx[t].i <= Len(WriteSet(t))
    /\ row' = [row EXCEPT ![r].wts = tx[t].c, ![r].delta = 0]
    /\ data' = [data EXCEPT ![r][0] = Torn]
    /\ Goto(t, "written", tx[t])
    /\ UNCHANGED <<CC_ALG, work, abuf, acc, mgr, dep, hist, fail>>

TicWritten(t) ==
    LET r == TicRow(t, WriteSet(t)[tx[t].i]) IN
    /\ Tic(t, "written")
    /\ data' = [data EXCEPT ![r][0] = tx[t].id]
    /\ row' = [row EXCEPT ![r].lock = FALSE]
    /\ Goto(t, "write", [tx[t] EXCEPT !.i = @ + 1])
    /\ UNCHANGED <<CC_ALG, work, abuf, acc, mgr, dep, hist, fail>>

TicEnd(t) ==
    /\ Tic(t, "write") /\ tx[t].i > Len(WriteSet(t))
    /\ Ended(t, "RCOK")
    /\ UNCHANGED <<CC_ALG, work, tx, row, data, mgr, dep, hist, fail>>

TicStep(t) ==
    /\ CC_ALG = "TICTOC"
    /\ \/ TicReadWord(t) \/ TicCopy(t) \/ TicReread(t) \/ TicPreAbort(t)
       \/ TicTryLock(t) \/ TicCas(t) \/ TicRelease(t) \/ TicReleased(t)
       \/ TicValidate(t) \/ TicRenew(t) \/ TicCommit(t)
       \/ TicWrite(t) \/ TicWritten(t) \/ TicEnd(t)
=============================================================================
