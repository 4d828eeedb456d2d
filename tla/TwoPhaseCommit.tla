--------------------------- MODULE TwoPhaseCommit ---------------------------
(***************************************************************************)
(* TwoPhaseCommit of tools/vf-evolve/tasks/two_phase_commit/initial.rs:    *)
(* every call takes one Mutex over all transactions, so a call is a step.  *)
(* run_commit and run_abort are sequences of such calls without a lock     *)
(* between them: other clients call in between, and a refused call makes   *)
(* them return at once and leave the protocol where it is.                 *)
(***************************************************************************)
EXTENDS TwoPhaseCommitState

VARIABLE
    run        \* what each client is running: the transaction, the mode, who is
               \* to vote no, the phase and the index of the next participant

protocolVars == <<nextTxn, tm, rm, prepared>>
vars == <<protocolVars, run>>

Begun == {t \in TxnIds : t < nextTxn}
Idle == [phase |-> "idle", txn |-> 1, mode |-> "commit", no |-> Nobody, i |-> 1]

Init ==
    /\ nextTxn = 1
    /\ tm = [t \in TxnIds |-> "Init"]
    /\ rm = [t \in TxnIds |-> [r \in RmIds |-> "Working"]]
    /\ prepared = [t \in TxnIds |-> {}]
    /\ run = [c \in Clients |-> Idle]

-----------------------------------------------------------------------------
(* The calls that change state; a call whose guard fails returns an error and *)
(* changes nothing.                                                            *)

Begin ==
    /\ nextTxn <= MaxTxns
    /\ nextTxn' = nextTxn + 1
    /\ UNCHANGED <<tm, rm, prepared>>

TmPrepare(txn) ==
    /\ tm[txn] = "Init"
    /\ tm' = [tm EXCEPT ![txn] = "Preparing"]
    /\ UNCHANGED <<nextTxn, rm, prepared>>

RmPrepare(txn, r) ==
    /\ rm[txn][r] = "Working"
    /\ rm' = [rm EXCEPT ![txn][r] = "Prepared"]
    /\ prepared' = [prepared EXCEPT ![txn] = @ \cup {r}]
    /\ UNCHANGED <<nextTxn, tm>>

\* Mutant of RmChooseToAbort: a participant that voted yes may change its mind.
RmChangesMind(txn, r) ==
    /\ rm[txn][r] \in {"Working", "Prepared"}
    /\ rm' = [rm EXCEPT ![txn][r] = "Aborted"]
    /\ UNCHANGED <<nextTxn, tm, prepared>>

RmChooseToAbort(txn, r) ==
    /\ rm[txn][r] = "Working"
    /\ rm' = [rm EXCEPT ![txn][r] = "Aborted"]
    /\ UNCHANGED <<nextTxn, tm, prepared>>

\* Mutant of TmCommit: one missing vote is overlooked.
TmCommitEarly(txn) ==
    /\ tm[txn] = "Preparing"
    /\ \E r \in RmIds : RmIds \ prepared[txn] \subseteq {r}
    /\ tm' = [tm EXCEPT ![txn] = "Committed"]
    /\ UNCHANGED <<nextTxn, rm, prepared>>

TmCommit(txn) ==
    /\ tm[txn] = "Preparing"
    /\ prepared[txn] = RmIds
    /\ tm' = [tm EXCEPT ![txn] = "Committed"]
    /\ UNCHANGED <<nextTxn, rm, prepared>>

TmAbort(txn) ==
    /\ tm[txn] \notin {"Committed", "Aborted"}
    /\ tm' = [tm EXCEPT ![txn] = "Aborted"]
    /\ UNCHANGED <<nextTxn, rm, prepared>>

RmRcvCommit(txn, r) ==
    /\ tm[txn] = "Committed"
    /\ rm' = [rm EXCEPT ![txn][r] = "Committed"]
    /\ UNCHANGED <<nextTxn, tm, prepared>>

RmRcvAbort(txn, r) ==
    /\ tm[txn] = "Aborted"
    /\ rm' = [rm EXCEPT ![txn][r] = "Aborted"]
    /\ UNCHANGED <<nextTxn, tm, prepared>>

\* Any caller may make any call at any time.
Call ==
    /\ \/ Begin
       \/ \E txn \in Begun :
             \/ TmPrepare(txn) \/ TmCommit(txn) \/ TmAbort(txn)
             \/ \E r \in RmIds :
                   \/ RmPrepare(txn, r) \/ RmChooseToAbort(txn, r)
                   \/ RmRcvCommit(txn, r) \/ RmRcvAbort(txn, r)
    /\ UNCHANGED run

-----------------------------------------------------------------------------
(* run_commit (no = Nobody) and run_abort.                                    *)

Start(c, txn, no, mode) ==
    /\ run[c].phase = "idle"
    /\ run' = [run EXCEPT ![c] = [phase |-> "prepare", txn |-> txn, mode |-> mode,
                                  no |-> no, i |-> 1]]
    /\ UNCHANGED protocolVars

\* One call of the sequence is made and accepted.
Goes(c, phase, i) == run' = [run EXCEPT ![c].phase = phase, ![c].i = i]

\* It is refused: `?` returns the error.
Refused(c) ==
    /\ run' = [run EXCEPT ![c].phase = "failed"]
    /\ UNCHANGED protocolVars

\* The participant whose turn it is.
Turn(c) == RMs[run[c].i]

Prepare(c) ==
    /\ run[c].phase = "prepare"
    /\ \/ TmPrepare(run[c].txn) /\ Goes(c, "vote", 1)
       \/ tm[run[c].txn] # "Init" /\ Refused(c)

\* Where the voting loop goes from participant i.
AfterVote(c) ==
    IF run[c].i < Len(RMs) THEN Goes(c, "vote", run[c].i + 1) ELSE Goes(c, "decide", 1)

Vote(c) ==
    /\ run[c].phase = "vote"
    /\ \/ /\ IF Turn(c) = run[c].no THEN RmChooseToAbort(run[c].txn, Turn(c))
             ELSE RmPrepare(run[c].txn, Turn(c))
          /\ AfterVote(c)
       \/ rm[run[c].txn][Turn(c)] # "Working" /\ Refused(c)

Decide(c) ==
    /\ run[c].phase = "decide"
    /\ \/ /\ IF run[c].mode = "commit" THEN TmCommit(run[c].txn) ELSE TmAbort(run[c].txn)
          /\ Goes(c, "deliver", 1)
       \/ /\ IF run[c].mode = "commit"
             THEN tm[run[c].txn] # "Preparing" \/ prepared[run[c].txn] # RmIds
             ELSE tm[run[c].txn] \in {"Committed", "Aborted"}
          /\ Refused(c)

\* Mutant of AfterDelivery: the loop stops one participant short.
AfterDeliveryShort(c) ==
    IF run[c].i + 1 < Len(RMs) THEN Goes(c, "deliver", run[c].i + 1) ELSE Goes(c, "done", 1)

AfterDelivery(c) ==
    IF run[c].i < Len(RMs) THEN Goes(c, "deliver", run[c].i + 1) ELSE Goes(c, "done", 1)

\* run_abort looks at the participant first and skips it when it has aborted; an
\* abort by someone else between the look and the delivery makes no difference.
Deliver(c) ==
    /\ run[c].phase = "deliver"
    /\ CASE run[c].mode = "commit" -> RmRcvCommit(run[c].txn, Turn(c))
         [] run[c].mode = "abort" ->
               IF rm[run[c].txn][Turn(c)] = "Aborted" THEN UNCHANGED protocolVars
               ELSE RmRcvAbort(run[c].txn, Turn(c))
    /\ AfterDelivery(c)

RunStep(c) == Prepare(c) \/ Vote(c) \/ Decide(c) \/ Deliver(c)

Next ==
    \/ Call
    \/ \E c \in Clients :
          \/ \E txn \in Begun :
                \/ Start(c, txn, Nobody, "commit")
                \/ \E no \in RmIds : Start(c, txn, no, "abort")
          \/ RunStep(c)

Spec == Init /\ [][Next]_vars

\* A client that has called run_commit or run_abort keeps running.
FairSpec == Spec /\ \A c \in Clients : WF_vars(RunStep(c))

-----------------------------------------------------------------------------
Phase == {"idle", "prepare", "vote", "decide", "deliver", "done", "failed"}

TypeOK ==
    /\ nextTxn \in 1 .. MaxTxns + 1
    /\ tm \in [TxnIds -> {"Init", "Preparing", "Committed", "Aborted"}]
    /\ rm \in [TxnIds -> [RmIds -> {"Working", "Prepared", "Committed", "Aborted"}]]
    /\ prepared \in [TxnIds -> SUBSET RmIds]
    /\ run \in [Clients -> [phase : Phase, txn : TxnIds, mode : {"commit", "abort"},
                            no : RmIds \cup {Nobody}, i : 1 .. Len(RMs)]]

\* The votes the coordinator counted are the participants that have voted yes,
\* before and after the outcome reached them (rm_prepare and every later call).
VotesCounted ==
    \A t \in TxnIds : \A r \in RmIds :
        /\ r \in prepared[t] => rm[t][r] # "Working"
        /\ rm[t][r] \in {"Prepared", "Committed"} => r \in prepared[t]
        /\ rm[t][r] = "Aborted" /\ r \in prepared[t] => tm[t] = "Aborted"

\* A committed coordinator has everybody's vote, a committed participant has a
\* committed coordinator (tm_commit, rm_rcv_commit).
CommitNeedsVotes ==
    \A t \in TxnIds :
        /\ tm[t] = "Committed" => prepared[t] = RmIds
        /\ \A r \in RmIds : rm[t][r] = "Committed" => tm[t] = "Committed"

IInv == TypeOK /\ VotesCounted /\ CommitNeedsVotes

\* A decision and an outcome are final, although rm_rcv_commit and rm_rcv_abort
\* overwrite the participant's state without looking at it.
Decided == {"Committed", "Aborted"}
OutcomesFinal ==
    [][\A t \in TxnIds :
          /\ tm[t] \in Decided => tm'[t] = tm[t]
          /\ \A r \in RmIds : rm[t][r] \in Decided => rm'[t][r] = rm[t][r]]_vars

\* run_commit answers Commit and run_abort answers Abort only when every
\* participant has that outcome, other clients notwithstanding.
AnswersTrue ==
    \A c \in Clients :
        run[c].phase = "done" =>
            \A r \in RmIds :
                rm[run[c].txn][r] = IF run[c].mode = "commit" THEN "Committed" ELSE "Aborted"

-----------------------------------------------------------------------------
\* TMDecision, specs/distributed/two_phase_commit.tla:102: a coordinator that
\* aborted lacks a vote or has a participant that aborted.
AbortHasReason ==
    \A t \in TxnIds :
        tm[t] = "Aborted" =>
            prepared[t] # RmIds \/ \E r \in RmIds : rm[t][r] = "Aborted"

\* "Abort progress", PROBLEM.md:22: when a participant aborts before preparing and
\* a client is driving the transaction, the coordinator aborts eventually.
AbortProgress ==
    \A t \in TxnIds : \A c \in Clients :
        (run[c].phase = "vote" /\ run[c].txn = t /\ \E r \in RmIds : rm[t][r] = "Aborted")
            ~> tm[t] = "Aborted"
=============================================================================
