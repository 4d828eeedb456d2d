----------------------- MODULE TwoPhaseCommitLockFree -----------------------
(***************************************************************************)
(* TwoPhaseCommit of results/v1/two_phase_commit_best.rs: a transaction is *)
(* a node of a lock-free list, its coordinator's and its participants'     *)
(* states are one atomic each and change by compare-and-swap, and the yes  *)
(* votes are a counter of their own, raised after the participant's state. *)
(*                                                                         *)
(* The loads before an exchange see values that only go forward, so where  *)
(* the exchange succeeds they agree with it: a call is the step of its     *)
(* exchange.  compare_exchange_weak may fail for no reason, and no call    *)
(* tries again: any call may be refused at any time.                       *)
(*                                                                         *)
(* prepared holds the votes that have been added to prepared_count.        *)
(***************************************************************************)
EXTENDS TwoPhaseCommit

\* begin: the identifier is taken and the node is linked before it is returned.
BeginLF == Begin

\* tm_prepare.
TmPrepareLF(txn) == TmPrepare(txn)

\* rm_prepare: the exchange.
RmPrepareLF(txn, r) ==
    /\ rm[txn][r] = "Working"
    /\ rm' = [rm EXCEPT ![txn][r] = "Prepared"]
    /\ UNCHANGED <<nextTxn, tm, prepared>>

\* rm_prepare: prepared_count is raised after it.
CountLF(txn, r) ==
    /\ rm[txn][r] # "Working"
    /\ prepared' = [prepared EXCEPT ![txn] = @ \cup {r}]
    /\ UNCHANGED <<nextTxn, tm, rm>>

RmChooseToAbortLF(txn, r) == RmChooseToAbort(txn, r)

\* Mutant of TmCommitLF: the votes are counted in the participants' states.
TmCommitUncounted(txn) ==
    /\ tm[txn] = "Preparing"
    /\ \A r \in RmIds : rm[txn][r] # "Working"
    /\ tm' = [tm EXCEPT ![txn] = "Committed"]
    /\ UNCHANGED <<nextTxn, rm, prepared>>

TmCommitLF(txn) == TmCommit(txn)

TmAbortLF(txn) == TmAbort(txn)

\* Mutant of RmRcvCommitLF: a participant that has not voted takes the outcome.
RmRcvCommitAny(txn, r) ==
    /\ rm[txn][r] = "Prepared"
    /\ rm' = [rm EXCEPT ![txn][r] = "Committed"]
    /\ UNCHANGED <<nextTxn, tm, prepared>>

RmRcvCommitLF(txn, r) ==
    /\ tm[txn] = "Committed"
    /\ rm[txn][r] = "Prepared"
    /\ rm' = [rm EXCEPT ![txn][r] = "Committed"]
    /\ UNCHANGED <<nextTxn, tm, prepared>>

\* rm_rcv_abort: from the state it saw, which the exchange confirms.
RmRcvAbortLF(txn, r) ==
    /\ tm[txn] = "Aborted"
    /\ rm[txn][r] \in {"Working", "Prepared"}
    /\ rm' = [rm EXCEPT ![txn][r] = "Aborted"]
    /\ UNCHANGED <<nextTxn, tm, prepared>>

\* Any caller may make any call at any time; the increment of a vote comes at any
\* time after it.
CallLF ==
    /\ \/ BeginLF
       \/ \E txn \in Begun :
             \/ TmPrepareLF(txn) \/ TmCommitLF(txn) \/ TmAbortLF(txn)
             \/ \E r \in RmIds :
                   \/ RmPrepareLF(txn, r) \/ RmChooseToAbortLF(txn, r)
                   \/ rm[txn][r] = "Prepared" /\ CountLF(txn, r)
                   \/ RmRcvCommitLF(txn, r) \/ RmRcvAbortLF(txn, r)
    /\ UNCHANGED run

-----------------------------------------------------------------------------
(* run_commit and run_abort.                                                  *)

PrepareLF(c) ==
    /\ run[c].phase = "prepare"
    /\ \/ TmPrepareLF(run[c].txn) /\ Goes(c, "vote", 1)
       \/ Refused(c)

VoteLF(c) ==
    /\ run[c].phase = "vote"
    /\ \/ IF Turn(c) = run[c].no
          THEN RmChooseToAbortLF(run[c].txn, Turn(c)) /\ AfterVote(c)
          ELSE RmPrepareLF(run[c].txn, Turn(c)) /\ Goes(c, "count", run[c].i)
       \/ Refused(c)

CountVote(c) ==
    /\ run[c].phase = "count"
    /\ CountLF(run[c].txn, Turn(c))
    /\ AfterVote(c)

DecideLF(c) ==
    /\ run[c].phase = "decide"
    /\ \/ /\ IF run[c].mode = "commit" THEN TmCommitLF(run[c].txn)
             ELSE TmAbortLF(run[c].txn)
          /\ Goes(c, "deliver", 1)
       \/ Refused(c)

\* A refused commit ends the run.  The answer of an abort's exchange is not looked
\* at: the participant may keep its state.
DeliverLF(c) ==
    /\ run[c].phase = "deliver"
    /\ \/ run[c].mode = "commit" /\ RmRcvCommitLF(run[c].txn, Turn(c)) /\ AfterDelivery(c)
       \/ run[c].mode = "commit" /\ Refused(c)
       \/ run[c].mode = "abort" /\ RmRcvAbortLF(run[c].txn, Turn(c)) /\ AfterDelivery(c)
       \/ run[c].mode = "abort" /\ UNCHANGED protocolVars /\ AfterDelivery(c)

NextLF ==
    \/ CallLF
    \/ \E c \in Clients :
          \/ \E txn \in Begun :
                \/ Start(c, txn, Nobody, "commit")
                \/ \E no \in RmIds : Start(c, txn, no, "abort")
          \/ PrepareLF(c) \/ VoteLF(c) \/ CountVote(c) \/ DecideLF(c) \/ DeliverLF(c)

SpecLF == Init /\ [][NextLF]_vars

-----------------------------------------------------------------------------
\* run_commit answers Commit only when every participant has committed.  (Nothing
\* of the kind holds of run_abort: see DeliverLF.)
CommitAnswersTrue ==
    \A c \in Clients :
        run[c].phase = "done" /\ run[c].mode = "commit" =>
            \A r \in RmIds : rm[run[c].txn][r] = "Committed"
=============================================================================
