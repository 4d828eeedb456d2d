------------------------ MODULE TwoPhaseCommitState ------------------------
(* What TwoPhaseCommit and its evolved version have in common: parameters, *)
(* the state of the protocol, and the promise about it.                    *)
EXTENDS Integers, Sequences

CONSTANTS
    RMs,       \* the sequence of resource managers given to new
    Clients,   \* the threads that run run_commit or run_abort
    MaxTxns    \* bound: transactions begun

Nobody == "nobody"   \* the participant that votes no in run_commit

ASSUME RMsAssumption == RMs \in Seq(STRING \ {Nobody}) /\ RMs # <<>>
ASSUME MaxTxnsAssumption == MaxTxns \in Nat \ {0}

VARIABLES
    nextTxn,   \* next_txn_id
    tm,        \* TxnInner.tm_state
    rm,        \* TxnInner.rm_states
    prepared   \* TxnInner.prepared_set

RmIds == {RMs[i] : i \in DOMAIN RMs}
TxnIds == 1 .. MaxTxns

-----------------------------------------------------------------------------
\* No participant commits while another aborts ("no mixed states"), whatever
\* calls clients interleave with the runs.
Atomicity ==
    \A t \in TxnIds : \A r, s \in RmIds :
        ~(rm[t][r] = "Committed" /\ rm[t][s] = "Aborted")

AC == INSTANCE AtomicCommit WITH Txns <- TxnIds, RMs <- RmIds, outcome <- rm

\* The participants of each transaction go through an atomic commitment.
ImplementsAtomicCommit == AC!Spec
=============================================================================
