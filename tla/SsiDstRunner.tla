---------------------------- MODULE SsiDstRunner ----------------------------
(***************************************************************************)
(* SsiDstRunner of crates/vf-dst/src/ssi_harness.rs driving SsiStore, with *)
(* its version lists, and the verdicts it draws from its log with the      *)
(* checkers of crates/vf-core/src/invariants/ssi.rs.  The runner takes     *)
(* &mut self: its operations follow one another, those of different        *)
(* transactions in any order.  A fault point may fire at every visit.  A   *)
(* fault that returns before the store is called changes nothing here, one *)
(* after the store call only withholds the answer; the log entry           *)
(* FaultInjected is skipped by to_ssi_history and the statistics           *)
(* operations_count and faults_injected decide nothing: they are left out. *)
(*                                                                         *)
(* The log is kept folded, as to_ssi_history folds it: reads, writes and   *)
(* the last logged writer of each key.                                     *)
(***************************************************************************)
EXTENDS SsiVersionList

CONSTANT MaxWrites   \* bound: logged writes

VARIABLES
    runnerTs,   \* SsiDstRunner.timestamp
    active,     \* SsiDstRunner.active_txns
    startTs,    \* SsiDstRunner.txn_start_ts
    commitTs,   \* SsiDstRunner.txn_commit_ts, 0 where there is none
    counts,     \* txns_started, txns_committed and txns_aborted
    known,      \* the transactions whose begin was answered: clients use these
    lastWriter, \* key_versions of to_ssi_history: the last logged writer
    logReads,   \* SsiHistory.reads: who read which key from whom
    logWrites,  \* SsiHistory.writes: how often each transaction wrote each key
    outcome     \* what the log says of each transaction: its last entry

runnerVars == <<runnerTs, active, startTs, commitTs, counts, known,
                lastWriter, logReads, logWrites, outcome>>
allVars == <<listVars, runnerVars>>

RunnerInit ==
    /\ ListInit
    /\ runnerTs = 1
    /\ active = {}
    /\ startTs = [t \in TxnId |-> 0]
    /\ commitTs = [t \in TxnId |-> 0]
    /\ counts = [started |-> 0, committed |-> 0, aborted |-> 0]
    /\ known = {}
    /\ lastWriter = [k \in Keys |-> NoTxn]
    /\ logReads = {}
    /\ logWrites = [t \in TxnId |-> [k \in Keys |-> 0]]
    /\ outcome = [t \in TxnId |-> "None"]

LoggedWrites ==
    {w \in TxnId \X Keys \X (1 .. MaxWrites) : w[3] <= logWrites[w[1]][w[2]]}

\* Any fault at BeforeBegin or BeforeRead, out of memory at BeforeWrite and a
\* network timeout at BeforeCommit return early; other faults before a call go
\* on.  A fault at AfterBegin keeps the new transaction from the client.
RunnerBegin(answered) ==
    /\ ListBegin
    /\ runnerTs' = runnerTs + 1
    /\ startTs' = [startTs EXCEPT ![nextTxn] = runnerTs]
    /\ active' = active \cup {nextTxn}
    /\ counts' = [counts EXCEPT !.started = @ + 1]
    /\ outcome' = [outcome EXCEPT ![nextTxn] = "Begin"]
    /\ known' = IF answered THEN known \cup {nextTxn} ELSE known
    /\ UNCHANGED <<commitTs, lastWriter, logReads, logWrites>>

RunnerRead(txn, key) ==
    /\ txn \in known \cap active
    /\ IF status[txn] = "Active" THEN ListRead(txn, key) ELSE UNCHANGED listVars
    /\ logReads' = logReads \cup {[txn |-> txn, key |-> key, version |-> lastWriter[key]]}
    /\ UNCHANGED <<runnerTs, active, startTs, commitTs, counts, known,
                   lastWriter, logWrites, outcome>>

\* The write is logged whether or not the store took it.
RunnerWrite(txn, key, value) ==
    /\ txn \in known \cap active
    /\ Cardinality(LoggedWrites) < MaxWrites
    /\ IF status[txn] = "Active" /\ writeLock[key] \in {NoTxn, txn}
       THEN ListWrite(txn, key, value) ELSE UNCHANGED listVars
    /\ logWrites' = [logWrites EXCEPT ![txn][key] = @ + 1]
    /\ lastWriter' = [lastWriter EXCEPT ![key] = txn]
    /\ UNCHANGED <<runnerTs, active, startTs, commitTs, counts, known,
                   logReads, outcome>>

\* The store accepted the commit.
RunnerCommitted(txn) ==
    /\ runnerTs' = runnerTs + 1
    /\ commitTs' = [commitTs EXCEPT ![txn] = runnerTs]
    /\ counts' = [counts EXCEPT !.committed = @ + 1]
    /\ outcome' = [outcome EXCEPT ![txn] = "Commit"]

\* The store refused it, and has aborted the transaction.
RunnerRefused(txn) ==
    /\ UNCHANGED <<runnerTs, commitTs>>
    /\ counts' = [counts EXCEPT !.aborted = @ + 1]
    /\ outcome' = [outcome EXCEPT ![txn] = "Abort"]

RunnerCommit(txn) ==
    /\ txn \in known \cap active
    /\ \/ ListCommit(txn) /\ RunnerCommitted(txn)
       \/ /\ IF status[txn] = "Active" THEN ListCommitFails(txn) ELSE UNCHANGED listVars
          /\ RunnerRefused(txn)
    /\ active' = active \ {txn}
    /\ UNCHANGED <<startTs, known, lastWriter, logReads, logWrites>>

\* Mutant of RunnerAbort: the store is not told.
RunnerForget(txn) ==
    /\ txn \in known \cap active
    /\ active' = active \ {txn}
    /\ counts' = [counts EXCEPT !.aborted = @ + 1]
    /\ outcome' = [outcome EXCEPT ![txn] = "Abort"]
    /\ UNCHANGED <<listVars, runnerTs, startTs, commitTs, known, lastWriter, logReads, logWrites>>

RunnerAbort(txn) ==
    /\ txn \in known \cap active
    /\ IF status[txn] = "Active" THEN ListAbort(txn) ELSE UNCHANGED listVars
    /\ active' = active \ {txn}
    /\ counts' = [counts EXCEPT !.aborted = @ + 1]
    /\ outcome' = [outcome EXCEPT ![txn] = "Abort"]
    /\ UNCHANGED <<runnerTs, startTs, commitTs, known, lastWriter, logReads, logWrites>>

RunnerNext ==
    \/ \E answered \in BOOLEAN : RunnerBegin(answered)
    \/ \E txn \in TxnId :
          \/ \E key \in Keys : RunnerRead(txn, key) \/ \E value \in Values : RunnerWrite(txn, key, value)
          \/ RunnerCommit(txn)
          \/ RunnerAbort(txn)

RunnerSpec == RunnerInit /\ [][RunnerNext]_allVars

-----------------------------------------------------------------------------
(* The verdicts on the history, as the checkers of vf-core compute them.     *)

\* SsiHistory::committed_txns.
LogCommitted == {t \in TxnId : outcome[t] = "Commit"}

\* Mutant of WereConcurrent: only a transaction that began inside the other's
\* lifetime overlaps it, whichever way round the checker asks.
WereNested(t, u) == startTs[t] < startTs[u] /\ commitTs[u] < commitTs[t]

\* SsiHistory::were_concurrent, of two committed transactions.
WereConcurrent(t, u) == startTs[t] < commitTs[u] /\ startTs[u] < commitTs[t]

\* The pairs of committed write records on a key that first_committer_wins
\* compares: every two entries of the list, of one transaction too.
WriterPairs(key) ==
    {p \in LogCommitted \X LogCommitted :
        /\ logWrites[p[1]][key] > 0 /\ logWrites[p[2]][key] > 0
        /\ p[1] = p[2] => logWrites[p[1]][key] > 1}

\* first_committer_wins.
VerdictFirstCommitterWins ==
    \A k \in Keys : \A p \in WriterPairs(k) : ~WereConcurrent(p[1], p[2])

\* no_committed_dangerous_structures; to_ssi_history asks the store for the
\* flags when the history is built.
VerdictNoDangerous ==
    \A t \in LogCommitted : ~(inConflict[t] /\ outConflict[t])

\* no_lost_writes.
VerdictNoLostWrites ==
    \A w \in LogCommitted, r \in logReads :
        (/\ logWrites[w][r.key] > 0
         /\ r.txn \in LogCommitted
         /\ startTs[r.txn] > commitTs[w]
         /\ r.version # NoTxn) =>
            commitTs[r.version] >= commitTs[w]

-----------------------------------------------------------------------------
\* Whatever faults fired and whoever was told, the runner's own record follows
\* the store: its set of active transactions, its clock (overlap is judged on its
\* timestamps) and its counters (begin, commit, abort and their early returns).
RunnerTracksStore ==
    /\ active = {t \in TxnId : status[t] = "Active"}
    /\ runnerTs = timestamp
    /\ \A t \in TxnId : startTs[t] = snapshot[t]
    /\ \A k \in Keys : \A v \in data[k] : v.ts # Pending => commitTs[v.writer] = v.ts
    /\ counts.started = Cardinality(active) + counts.committed + counts.aborted
    /\ counts.committed = Cardinality(committed)

\* The checker misses nothing: when the store lets two overlapping transactions
\* commit a key, first_committer_wins reports it.
ViolationsReported == VerdictFirstCommitterWins => FirstCommitterWins

-----------------------------------------------------------------------------
(* What the checkers claim and the log cannot support. *)

\* first_committer_wins reports only what happened: "No two concurrent
\* transactions can both commit writes to the same key", invariants/ssi.rs:149.
AlarmsReal == FirstCommitterWins => VerdictFirstCommitterWins

\* "Every committed write is visible to transactions that start after it
\* commits", invariants/ssi.rs:236.  The store keeps that (SnapshotStable), the
\* verdict drawn from the log denies it.
LostWritesReal == VerdictNoLostWrites
=============================================================================
