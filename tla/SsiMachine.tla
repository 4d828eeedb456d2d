----------------------------- MODULE SsiMachine -----------------------------
(***************************************************************************)
(* SsiState of crates/vf-stateright/src/ssi.rs: the executable SSI state   *)
(* machine oracles are extracted from.  Unlike SsiStore it orders events   *)
(* by their index in one history, picks versions by the index of the write *)
(* (not of the commit), and aborts a reader or writer at once when its     *)
(* operation would turn a committed transaction into a pivot.              *)
(*                                                                         *)
(* The history is kept as what the code looks up in it: its length, the    *)
(* indices of writes and of commits, and the versions read.                *)
(***************************************************************************)
EXTENDS Naturals, Sequences

CONSTANTS
    Txns,        \* the transactions given to SsiState::new
    Keys,        \* the keys given to SsiState::new
    NoTxn,       \* Option::None, of lock holders and of versions
    MaxHistory   \* bound: the length of the history

ASSUME NoTxnAssumption == NoTxn \notin Txns
ASSUME MaxHistoryAssumption == MaxHistory \in Nat

VARIABLES
    now,          \* SsiState::now, the length of the history
    writes,       \* the Write operations of the history, with their indices
    reads,        \* the Read operations of the history (the versions seen)
    commitAt,     \* the index of the Commit of each transaction, 0 if none
    status,       \* txn_status
    snapshot,     \* txn_snapshot
    writeLock,    \* write_locks
    siread,       \* siread_locks
    inConflict,   \* in_conflict
    outConflict   \* out_conflict

logVars == <<now, writes, reads, commitAt>>
flagVars == <<inConflict, outConflict>>
vars == <<logVars, status, snapshot, writeLock, siread, flagVars>>

Status == {"NotStarted", "Active", "Committed", "Aborted"}

Init ==
    /\ now = 0
    /\ writes = {}
    /\ reads = {}
    /\ commitAt = [t \in Txns |-> 0]
    /\ status = [t \in Txns |-> "NotStarted"]
    /\ snapshot = [t \in Txns |-> 0]
    /\ writeLock = [k \in Keys |-> NoTxn]
    /\ siread = [k \in Keys |-> {}]
    /\ inConflict = [t \in Txns |-> FALSE]
    /\ outConflict = [t \in Txns |-> FALSE]

-----------------------------------------------------------------------------
Live(txn) == status[txn] \in {"Active", "Committed"}

Dangerous(txn) == inConflict[txn] /\ outConflict[txn]

\* The last write of a key at or before ts whose transaction is committed by now;
\* a singleton, or empty.
LatestWrites(key, ts) ==
    LET seen == {w \in writes : w.key = key /\ w.at <= ts /\ status[w.txn] = "Committed"}
    IN  {w \in seen : \A v \in seen : v.at <= w.at}

\* latest_version.
LatestVersion(key, ts) ==
    IF LatestWrites(key, ts) = {} THEN NoTxn
    ELSE (CHOOSE w \in LatestWrites(key, ts) : TRUE).txn

\* Mutant of NewerWriters: committed writers are left out.
NewerActiveWriters(key, ts, txn) ==
    {w.txn : w \in {v \in writes : v.key = key /\ v.at > ts /\ v.txn # txn
                                   /\ status[v.txn] = "Active"}}

\* newer_writers.
NewerWriters(key, ts, txn) ==
    {w.txn : w \in {v \in writes : v.key = key /\ v.at > ts /\ v.txn # txn /\ Live(v.txn)}}

\* Mutant of ConcurrentReaders: a committed reader no longer counts.
ActiveReaders(txn, key) == {r \in siread[key] \ {txn} : status[r] = "Active"}

\* concurrent_siread_holders: readers still active or committed after txn began.
ConcurrentReaders(txn, key) ==
    {r \in siread[key] \ {txn} :
        \/ status[r] = "Active"
        \/ status[r] = "Committed" /\ commitAt[r] > snapshot[txn]}

Begin(txn) ==
    /\ status[txn] = "NotStarted"
    /\ status' = [status EXCEPT ![txn] = "Active"]
    /\ snapshot' = [snapshot EXCEPT ![txn] = now]
    /\ now' = now + 1
    /\ UNCHANGED <<writes, reads, commitAt, writeLock, siread, flagVars>>

\* Mutant of ClearTraces: the flags of the aborted transaction stay.
ClearReads(txn) ==
    /\ siread' = [k \in Keys |-> siread[k] \ {txn}]
    /\ UNCHANGED flagVars

\* What every abort does: the flags and the SIREAD locks go.
ClearTraces(txn) ==
    /\ siread' = [k \in Keys |-> siread[k] \ {txn}]
    /\ inConflict' = [inConflict EXCEPT ![txn] = FALSE]
    /\ outConflict' = [outConflict EXCEPT ![txn] = FALSE]

Aborted(txn) ==
    /\ status' = [status EXCEPT ![txn] = "Aborted"]
    /\ now' = now + 1
    /\ ClearTraces(txn)
    /\ UNCHANGED <<writes, reads, commitAt, snapshot>>

\* A committed writer already has its out-conflict: this read would make it a
\* pivot.
ReadViolates(txn, key) ==
    \E w \in NewerWriters(key, snapshot[txn], txn) : status[w] = "Committed" /\ outConflict[w]

\* The reader is aborted; its write locks are left as they are.
ReadConflict(txn, key) ==
    /\ status[txn] = "Active"
    /\ ReadViolates(txn, key)
    /\ Aborted(txn)
    /\ UNCHANGED writeLock

Read(txn, key) ==
    LET newer == NewerWriters(key, snapshot[txn], txn)
        version == IF writeLock[key] = txn THEN txn
                   ELSE LatestVersion(key, snapshot[txn])
    IN  /\ status[txn] = "Active"
        /\ ~ReadViolates(txn, key)
        /\ reads' = reads \cup {[txn |-> txn, key |-> key, version |-> version]}
        /\ siread' = [siread EXCEPT ![key] = @ \cup {txn}]
        /\ inConflict' = [t \in Txns |-> inConflict[t] \/ t \in newer]
        /\ outConflict' = [outConflict EXCEPT ![txn] = @ \/ newer # {}]
        /\ now' = now + 1
        /\ UNCHANGED <<writes, commitAt, status, snapshot, writeLock>>

\* A committed reader already has its in-conflict: this write would make it a
\* pivot.
WriteViolates(txn, key) ==
    \E r \in ConcurrentReaders(txn, key) : status[r] = "Committed" /\ inConflict[r]

\* The writer is aborted; of its write locks only the one of this key goes.
WriteConflict(txn, key) ==
    /\ status[txn] = "Active"
    /\ writeLock[key] \in {NoTxn, txn}
    /\ WriteViolates(txn, key)
    /\ Aborted(txn)
    /\ writeLock' = [writeLock EXCEPT ![key] = NoTxn]

\* Mutant of Write: the lock is not looked at.
WriteUnlocked(txn, key) ==
    LET readers == ConcurrentReaders(txn, key)
    IN  /\ status[txn] = "Active"
        /\ ~WriteViolates(txn, key)
        /\ writes' = writes \cup {[txn |-> txn, key |-> key, at |-> now]}
        /\ writeLock' = [writeLock EXCEPT ![key] = txn]
        /\ outConflict' = [t \in Txns |-> outConflict[t] \/ t \in readers]
        /\ inConflict' = [inConflict EXCEPT ![txn] = @ \/ readers # {}]
        /\ now' = now + 1
        /\ UNCHANGED <<reads, commitAt, status, snapshot, siread>>

Write(txn, key) ==
    LET readers == ConcurrentReaders(txn, key)
    IN  /\ status[txn] = "Active"
        /\ writeLock[key] \in {NoTxn, txn}
        /\ ~WriteViolates(txn, key)
        /\ writes' = writes \cup {[txn |-> txn, key |-> key, at |-> now]}
        /\ writeLock' = [writeLock EXCEPT ![key] = txn]
        /\ outConflict' = [t \in Txns |-> outConflict[t] \/ t \in readers]
        /\ inConflict' = [inConflict EXCEPT ![txn] = @ \/ readers # {}]
        /\ now' = now + 1
        /\ UNCHANGED <<reads, commitAt, status, snapshot, siread>>

ReleaseLocks(txn) ==
    writeLock' = [k \in Keys |-> IF writeLock[k] = txn THEN NoTxn ELSE writeLock[k]]

Commit(txn) ==
    /\ status[txn] = "Active"
    /\ ~Dangerous(txn)
    /\ status' = [status EXCEPT ![txn] = "Committed"]
    /\ commitAt' = [commitAt EXCEPT ![txn] = now]
    /\ ReleaseLocks(txn)
    /\ now' = now + 1
    /\ UNCHANGED <<writes, reads, snapshot, siread, flagVars>>

\* Commit of a dangerous transaction, or Abort of any.
Abort(txn) ==
    /\ status[txn] = "Active"
    /\ Aborted(txn)
    /\ ReleaseLocks(txn)

Next ==
    /\ now < MaxHistory
    /\ \E txn \in Txns :
          \/ Begin(txn) \/ Commit(txn) \/ Abort(txn)
          \/ \E key \in Keys :
                \/ Read(txn, key) \/ ReadConflict(txn, key)
                \/ Write(txn, key) \/ WriteConflict(txn, key)

Spec == Init /\ [][Next]_vars

-----------------------------------------------------------------------------
TypeOK ==
    /\ now \in Nat
    /\ writes \subseteq [txn : Txns, key : Keys, at : Nat]
    /\ reads \subseteq [txn : Txns, key : Keys, version : Txns \cup {NoTxn}]
    /\ commitAt \in [Txns -> Nat]
    /\ status \in [Txns -> Status]
    /\ snapshot \in [Txns -> Nat]
    /\ writeLock \in [Keys -> Txns \cup {NoTxn}]
    /\ siread \in [Keys -> SUBSET Txns]
    /\ inConflict \in [Txns -> BOOLEAN]
    /\ outConflict \in [Txns -> BOOLEAN]

\* Whoever has written a key and is still active holds its lock, so at most one
\* active transaction has written it, however often locks were leaked and
\* released (Write, Commit and the four ways to abort).
WritersHoldLocks ==
    \A w \in writes : status[w.txn] = "Active" => writeLock[w.key] = w.txn

\* No committed transaction ever carries both conflict flags, although reads
\* and writes after its commit still set them (would_violate in Read and Write).
NoCommittedDangerous ==
    \A t \in Txns : status[t] = "Committed" => ~Dangerous(t)

\* An aborted transaction has no flag, no SIREAD lock and gets none later: no
\* other transaction is aborted on its account.
AbortedLeaveNoTrace ==
    \A t \in Txns : status[t] = "Aborted" =>
        /\ ~inConflict[t] /\ ~outConflict[t]
        /\ \A k \in Keys : t \notin siread[k]

\* r read a key that w wrote after r's snapshot, and r did not commit before w
\* began: the rw-dependency the machine looks for.
RwEdge(r, w) ==
    /\ r # w /\ Live(r) /\ Live(w)
    /\ status[r] = "Active" \/ commitAt[r] > snapshot[w]
    /\ \E x \in writes : x.txn = w /\ x.at > snapshot[r] /\ r \in siread[x.key]

\* Each such dependency has marked both ends, whichever came first, the read or
\* the write (Read and Write).
RwConflictsFlagged ==
    \A r, w \in Txns : RwEdge(r, w) => outConflict[r] /\ inConflict[w]

\* Hence no committed transaction sits between two of them: what Cahill's
\* algorithm is for.
NoCommittedPivot ==
    \A r, p, w \in Txns :
        status[p] = "Committed" => ~(RwEdge(r, p) /\ RwEdge(p, w))

-----------------------------------------------------------------------------
(* The pre-built oracles: what a transaction a and a transaction b do with    *)
(* the keys j and k, and the category that says what is to become of them.    *)

Act(op, txn) == <<[op |-> op, txn |-> txn]>>
On(op, txn, key) == <<[op |-> op, txn |-> txn, key |-> key]>>

\* A transaction on its own.
Alone(txn, op, key) == Act("Begin", txn) \o On(op, txn, key) \o Act("Commit", txn)
Both(a, b) == Act("Begin", a) \o Act("Begin", b)

WriteWriteConflict(a, b, j) ==
    [category |-> "ConcurrentCommit", actions |-> Alone(a, "Write", j) \o Alone(b, "Write", j)]

\* Also concurrent_write_blocked, whose actions are the same.
DisjointKeys(category, a, b, j, k) ==
    [category |-> category,
     actions |-> Both(a, b) \o On("Write", a, j) \o On("Write", b, k)
                     \o Act("Commit", a) \o Act("Commit", b)]

DangerousStructure(a, b, j, k) ==
    [category |-> "DangerousStructure",
     actions |-> Both(a, b) \o On("Read", a, j) \o On("Read", b, k)
                     \o On("Write", a, k) \o On("Write", b, j) \o Act("Commit", a)]

ReadOnly(a, b, j) ==
    [category |-> "ConcurrentCommit", actions |-> Alone(a, "Write", j) \o Alone(b, "Read", j)]

SingleConflictFlag(a, b, j) ==
    [category |-> "CommitWithConflict",
     actions |-> Both(a, b) \o On("Read", a, j) \o On("Write", b, j)
                     \o Act("Commit", b) \o Act("Commit", a)]

AllOracles(a, b, j, k) ==
    {WriteWriteConflict(a, b, j), DisjointKeys("WriteWriteConflict", a, b, j, k),
     DangerousStructure(a, b, j, k), DisjointKeys("ConcurrentCommit", a, b, j, k),
     ReadOnly(a, b, j), SingleConflictFlag(a, b, j)}

\* apply: what an action does, and when it does nothing.
Apply(act) ==
    \/ act.op = "Begin" /\ Begin(act.txn)
    \/ act.op = "Read" /\ (Read(act.txn, act.key) \/ ReadConflict(act.txn, act.key))
    \/ act.op = "Write" /\ (Write(act.txn, act.key) \/ WriteConflict(act.txn, act.key))
    \/ act.op = "Commit" /\ (Commit(act.txn) \/ (Dangerous(act.txn) /\ Abort(act.txn)))

Applies(act) ==
    CASE act.op = "Begin" -> status[act.txn] = "NotStarted"
      [] act.op = "Write" -> status[act.txn] = "Active" /\ writeLock[act.key] \in {NoTxn, act.txn}
      [] OTHER -> status[act.txn] = "Active"

\* Every action of an oracle applies, and at its end its transactions are what its
\* category and its comments say ("Commit attempts should fail", "both commit",
\* "T1 can commit (only out_conflict, no in_conflict)", ssi.rs:575-634).
OracleTrue(oracle, done) ==
    LET a == Head(oracle.actions).txn
        b == CHOOSE t \in Txns \ {a} : \E i \in 1 .. Len(oracle.actions) : oracle.actions[i].txn = t
    IN  IF done < Len(oracle.actions) THEN Applies(oracle.actions[done + 1])
        ELSE IF oracle.category = "DangerousStructure" THEN status[a] = "Aborted"
        ELSE /\ \A t \in {a, b} : status[t] = "Committed"
             /\ oracle.category = "CommitWithConflict" => outConflict[a] /\ ~inConflict[a]
             /\ oracle.category # "CommitWithConflict" => ~outConflict[a] /\ ~inConflict[a]

-----------------------------------------------------------------------------
(* What the repository says of the machine and the code does not do. *)

\* SnapshotConsistency, ssi.rs:20: two reads of a key that did not return the
\* reader's own write return the same version.
SnapshotConsistency ==
    \A a, b \in reads :
        (a.txn = b.txn /\ a.key = b.key /\ a.version # a.txn /\ b.version # b.txn)
            => a.version = b.version

\* Two committed transactions overlap: each began before the other committed.
Overlap(t, u) ==
    t # u /\ snapshot[t] < commitAt[u] /\ snapshot[u] < commitAt[t]

\* FirstCommitterWins, ssi.rs:19.
FirstCommitterWins ==
    \A v, w \in writes :
        (/\ status[v.txn] = "Committed" /\ status[w.txn] = "Committed"
         /\ v.key = w.key) => ~Overlap(v.txn, w.txn)

\* first_committer_wins: every two write records of committed transactions on a
\* key; both writes must come after the other's snapshot.
VerdictFirstCommitterWins ==
    \A v, w \in writes :
        (/\ v # w /\ v.key = w.key
         /\ status[v.txn] = "Committed" /\ status[w.txn] = "Committed")
            => ~(snapshot[v.txn] < w.at /\ snapshot[w.txn] < v.at)

\* "Check if they were concurrent (overlapping lifetimes)", ssi.rs:464: what the
\* checker lets pass has no overlapping writers.
CheckerSeesOverlap == VerdictFirstCommitterWins => FirstCommitterWins
=============================================================================
