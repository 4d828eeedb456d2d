------------------------------ MODULE SsiStore ------------------------------
(***************************************************************************)
(* The serializable-snapshot-isolation store of                            *)
(* crates/vf-examples/src/ssi.rs.  Every public operation takes the one    *)
(* Mutex around SsiInner for its whole body, so each is one atomic action; *)
(* concurrency is the order in which the calls of different transactions   *)
(* reach the store.  A call on a transaction that is not active, and a     *)
(* write that finds the key locked by another transaction, return without  *)
(* changing anything: they are stuttering steps here.                      *)
(*                                                                         *)
(* Abstractions.  A version is identified by its writer: the store keeps   *)
(* at most one version per writer and key (a second write replaces the     *)
(* pending one), so the user's value adds nothing.  The Vec of versions of *)
(* a key, newest first, is the set of its versions: the commit timestamps  *)
(* order it.  Module SsiVersionList models the Vec itself and shows that   *)
(* it represents this set.                                                 *)
(***************************************************************************)
EXTENDS Naturals

CONSTANTS
    Keys,          \* the keys the transactions touch
    MaxTxns,       \* bound: how many transactions begin
    MaxTimestamp,  \* u64::MAX, the commit timestamp of a pending version
    NoTxn          \* None: no lock holder, no visible version

TxnId == 1 .. MaxTxns

Timestamp == 0 .. MaxTimestamp

Pending == MaxTimestamp

Status == {"Unborn", "Active", "Committed", "Aborted"}

Version == [writer : TxnId, ts : Timestamp]

ASSUME BoundsAssumption ==
    /\ MaxTxns \in Nat
    /\ MaxTimestamp \in Nat \ {0, 1}
    /\ NoTxn \notin TxnId

\* The version write() stores until the transaction commits.
PendingBy(txn) == [writer |-> txn, ts |-> Pending]

VARIABLES
    timestamp,     \* SsiInner.timestamp
    nextTxn,       \* SsiInner.next_txn
    status,        \* TxnState.status, "Unborn" before begin
    snapshot,      \* TxnState.snapshot_ts
    writeSet,      \* TxnState.write_set
    inConflict,    \* TxnState.in_conflict
    outConflict,   \* TxnState.out_conflict
    writeLock,     \* SsiInner.write_locks
    siread,        \* SsiInner.siread_locks
    data,          \* SsiInner.data, the versions of each key
    committed,     \* SsiInner.committed
    obs            \* TxnState.read_set, with the writer whose version each
                   \* read returned (a history variable: no guard reads it)

txnVars == <<status, snapshot, writeSet, inConflict, outConflict>>
vars == <<timestamp, nextTxn, txnVars, writeLock, siread, data, committed, obs>>

Observation == [txn : TxnId, key : Keys, from : TxnId \cup {NoTxn}]

TypeOK ==
    /\ timestamp \in 1 .. MaxTimestamp - 1
    /\ nextTxn \in 1 .. MaxTxns + 1
    /\ status \in [TxnId -> Status]
    /\ snapshot \in [TxnId -> Timestamp]
    /\ writeSet \in [TxnId -> SUBSET Keys]
    /\ inConflict \in [TxnId -> BOOLEAN]
    /\ outConflict \in [TxnId -> BOOLEAN]
    /\ writeLock \in [Keys -> TxnId \cup {NoTxn}]
    /\ siread \in [Keys -> SUBSET TxnId]
    /\ data \in [Keys -> SUBSET Version]
    /\ committed \subseteq TxnId
    /\ obs \subseteq Observation

-----------------------------------------------------------------------------
(* The store's queries. *)

\* The versions committed at or before a snapshot.
VersionsAt(key, ts) == {v \in data[key] : v.ts <= ts /\ v.ts # Pending}

\* The newest of them: one version, or none.
NewestAt(key, ts) ==
    LET shown == VersionsAt(key, ts)
    IN  {v \in shown : \A w \in shown : w.ts <= v.ts}

\* SsiInner::visible_version: the newest version, named by its writer.
VisibleVersion(key, ts) ==
    LET newest == NewestAt(key, ts)
    IN  IF newest = {} THEN NoTxn ELSE (CHOOSE v \in newest : TRUE).writer

\* Mutant of ConcurrentReaders: SIREAD locks lapse at commit.
ActiveReaders(txn, key) == {r \in siread[key] \ {txn} : status[r] = "Active"}

\* SsiInner::concurrent_readers: every live SIREAD holder, of any age.
ConcurrentReaders(txn, key) ==
    {r \in siread[key] \ {txn} : status[r] \in {"Active", "Committed"}}

\* Mutant of NewerWriters: pending versions are overlooked.
NewerCommittedWriters(txn, key) ==
    {w \in TxnId \ {txn} :
        /\ status[w] = "Committed"
        /\ \E v \in data[key] : v.writer = w /\ v.ts > snapshot[txn]}

\* SsiInner::newer_writers: writers of versions the snapshot does not hold.
NewerWriters(txn, key) ==
    {w \in TxnId \ {txn} :
        /\ status[w] \in {"Active", "Committed"}
        /\ \E v \in data[key] : v.writer = w /\ v.ts > snapshot[txn]}

-----------------------------------------------------------------------------
Init ==
    /\ timestamp = 1
    /\ nextTxn = 1
    /\ status = [t \in TxnId |-> "Unborn"]
    /\ snapshot = [t \in TxnId |-> 0]
    /\ writeSet = [t \in TxnId |-> {}]
    /\ inConflict = [t \in TxnId |-> FALSE]
    /\ outConflict = [t \in TxnId |-> FALSE]
    /\ writeLock = [k \in Keys |-> NoTxn]
    /\ siread = [k \in Keys |-> {}]
    /\ data = [k \in Keys |-> {}]
    /\ committed = {}
    /\ obs = {}

\* SsiInner::tick, up to the bound.
Tick ==
    /\ timestamp < MaxTimestamp - 1
    /\ timestamp' = timestamp + 1

\* Mutant of Begin: the snapshot is taken after the tick.
BeginAfterTick ==
    /\ nextTxn \in TxnId
    /\ Tick
    /\ nextTxn' = nextTxn + 1
    /\ status' = [status EXCEPT ![nextTxn] = "Active"]
    /\ snapshot' = [snapshot EXCEPT ![nextTxn] = timestamp']
    /\ UNCHANGED <<writeSet, inConflict, outConflict, writeLock, siread, data,
                   committed, obs>>

\* begin().
Begin ==
    /\ nextTxn \in TxnId
    /\ Tick
    /\ nextTxn' = nextTxn + 1
    /\ status' = [status EXCEPT ![nextTxn] = "Active"]
    /\ snapshot' = [snapshot EXCEPT ![nextTxn] = timestamp]
    /\ UNCHANGED <<writeSet, inConflict, outConflict, writeLock, siread, data,
                   committed, obs>>

\* The reader and every newer writer are flagged, whatever the writer's
\* status; then the SIREAD lock is taken and the visible version returned.
Read(txn, key) ==
    LET newer == NewerWriters(txn, key)
    IN  /\ status[txn] = "Active"
        /\ inConflict' = [t \in TxnId |-> inConflict[t] \/ t \in newer]
        /\ outConflict' = [outConflict EXCEPT ![txn] = @ \/ newer # {}]
        /\ siread' = [siread EXCEPT ![key] = @ \cup {txn}]
        /\ obs' = obs \cup {[txn |-> txn, key |-> key,
                             from |-> VisibleVersion(key, snapshot[txn])]}
        /\ UNCHANGED <<timestamp, nextTxn, status, snapshot, writeSet,
                       writeLock, data, committed>>

\* Readers that are still active are flagged; a committed reader is frozen
\* but still flags the writer.
Write(txn, key) ==
    LET readers == ConcurrentReaders(txn, key)
    IN  /\ status[txn] = "Active"
        /\ writeLock[key] \in {NoTxn, txn}
        /\ outConflict' = [t \in TxnId |->
                              outConflict[t] \/ (t \in readers /\ status[t] = "Active")]
        /\ inConflict' = [inConflict EXCEPT ![txn] = @ \/ readers # {}]
        /\ writeLock' = [writeLock EXCEPT ![key] = txn]
        /\ writeSet' = [writeSet EXCEPT ![txn] = @ \cup {key}]
        /\ data' = [data EXCEPT ![key] =
                       {v \in @ : ~(v.writer = txn /\ v.ts = Pending)}
                           \cup {PendingBy(txn)}]
        /\ UNCHANGED <<timestamp, nextTxn, status, snapshot, siread, committed, obs>>

\* Mutant of ReleaseLocks: the locks are forgotten.
KeepLocks(txn) == UNCHANGED writeLock

\* The locks the transaction holds on the keys it wrote.
ReleaseLocks(txn) ==
    writeLock' = [k \in Keys |->
                     IF k \in writeSet[txn] /\ writeLock[k] = txn THEN NoTxn
                     ELSE writeLock[k]]

\* All versions the transaction wrote go.
DropVersions(txn) ==
    data' = [k \in Keys |-> IF k \in writeSet[txn]
                            THEN {v \in data[k] : v.writer # txn}
                            ELSE data[k]]

\* Mutant of StampVersions: the loop ends with the first key it finds.
StampFirst(txn, ts) ==
    data' = [k \in Keys |->
                IF k \in writeSet[txn] /\ k = CHOOSE first \in writeSet[txn] : TRUE
                THEN {IF v.writer = txn /\ v.ts = Pending
                      THEN [writer |-> txn, ts |-> ts] ELSE v : v \in data[k]}
                ELSE data[k]]

\* The pending versions of the transaction get the commit timestamp.
StampVersions(txn, ts) ==
    data' = [k \in Keys |->
                IF k \in writeSet[txn]
                THEN {IF v.writer = txn /\ v.ts = Pending
                      THEN [writer |-> txn, ts |-> ts] ELSE v : v \in data[k]}
                ELSE data[k]]

Dangerous(txn) == inConflict[txn] /\ outConflict[txn]

\* commit() of a transaction that is not dangerous.
Commit(txn) ==
    /\ status[txn] = "Active"
    /\ ~Dangerous(txn)
    /\ Tick
    /\ StampVersions(txn, timestamp)
    /\ ReleaseLocks(txn)
    /\ status' = [status EXCEPT ![txn] = "Committed"]
    /\ committed' = committed \cup {txn}
    /\ UNCHANGED <<nextTxn, snapshot, writeSet, inConflict, outConflict, siread, obs>>

\* commit() of a dangerous transaction aborts it.  Its SIREAD locks stay.
CommitFails(txn) ==
    /\ status[txn] = "Active"
    /\ Dangerous(txn)
    /\ status' = [status EXCEPT ![txn] = "Aborted"]
    /\ ReleaseLocks(txn)
    /\ DropVersions(txn)
    /\ UNCHANGED <<timestamp, nextTxn, snapshot, writeSet, inConflict, outConflict,
                   siread, committed, obs>>

\* abort() also drops the SIREAD locks.
Abort(txn) ==
    /\ status[txn] = "Active"
    /\ status' = [status EXCEPT ![txn] = "Aborted"]
    /\ ReleaseLocks(txn)
    /\ DropVersions(txn)
    /\ siread' = [k \in Keys |-> siread[k] \ {txn}]
    /\ UNCHANGED <<timestamp, nextTxn, snapshot, writeSet, inConflict, outConflict,
                   committed, obs>>

Next ==
    \/ Begin
    \/ \E txn \in TxnId :
          \/ \E key \in Keys : Read(txn, key) \/ Write(txn, key)
          \/ Commit(txn) \/ CommitFails(txn) \/ Abort(txn)

Spec == Init /\ [][Next]_vars

-----------------------------------------------------------------------------
(* What makes the store correct. *)

Live(txn) == status[txn] \in {"Active", "Committed"}

\* The reader overlooks a version the writer installed: the writer's version
\* of a key the reader read is not in the reader's snapshot.
RwEdge(reader, writer) ==
    /\ reader # writer
    /\ \E o \in obs : /\ o.txn = reader
                      /\ \E v \in data[o.key] : /\ v.writer = writer
                                                /\ v.ts > snapshot[reader]

\* A pending version belongs to the active holder of the key's write lock; an
\* active transaction has no committed version.
PendingLocked ==
    \A k \in Keys : \A v \in data[k] :
        /\ v.ts = Pending <=> status[v.writer] = "Active"
        /\ v.ts = Pending => writeLock[k] = v.writer

\* A lock is held only by an active transaction with a pending version there.
LocksUsed ==
    \A k \in Keys : writeLock[k] # NoTxn =>
        /\ status[writeLock[k]] = "Active"
        /\ k \in writeSet[writeLock[k]]
        /\ PendingBy(writeLock[k]) \in data[k]

\* The write lock of a key and its pending version come and go together, in
\* write, commit and both ways of aborting.
LockGuardsPending == PendingLocked /\ LocksUsed

\* Every read a transaction ever did would return the same version now: what
\* commits, aborts and overwrites after a snapshot never reaches into it (read,
\* visible_version against the tick in begin and commit).
SnapshotStable ==
    \A o \in obs : o.from = VisibleVersion(o.key, snapshot[o.txn])

\* Every rw-dependency between live transactions has left its marks, in
\* whichever order the read and the write came: the writer has in_conflict, and
\* the reader, while it can still be refused, has out_conflict (read, write).
RwConflictsFlagged ==
    \A r, w \in TxnId :
        Live(r) /\ Live(w) /\ RwEdge(r, w) =>
            inConflict[w] /\ (status[r] = "Active" => outConflict[r])

\* A transaction never commits while it is the pivot of two rw-dependencies
\* that exist at that moment (the dangerous-structure check of commit).
NoPivotCommits ==
    [][\A t \in TxnId :
         status[t] = "Active" /\ status'[t] = "Committed" =>
             ~ \E r, w \in TxnId : /\ Live(r) /\ RwEdge(r, t)
                                   /\ Live(w) /\ RwEdge(t, w)]_vars

\* A committed version is never changed or removed (retain in write and abort,
\* the stamping loop of commit).
CommittedVersionsStay ==
    [][\A k \in Keys : \A v \in data[k] : v.ts # Pending => v \in data'[k]]_vars

-----------------------------------------------------------------------------
(* The inductive invariant of the proofs.  The properties above are not      *)
(* inductive alone: they need what is known of the clock, of the versions an *)
(* active transaction has so far, and of the SIREAD locks behind the reads.  *)

\* Snapshots and commit timestamps are in the past; ids are given in order.
ClockAhead ==
    /\ \A t \in TxnId : status[t] = "Unborn" <=> t \in nextTxn .. MaxTxns
    /\ \A t \in TxnId : snapshot[t] < timestamp
    /\ \A k \in Keys : \A v \in data[k] : v.ts = Pending \/ v.ts < timestamp

\* Versions have live writers; an active one has exactly its pending writes.
WritesPending ==
    /\ \A u \in TxnId : status[u] = "Unborn" => writeSet[u] = {}
    /\ \A k \in Keys : \A v \in data[k] : Live(v.writer) /\ k \in writeSet[v.writer]
    /\ \A t \in TxnId, k \in Keys :
          status[t] = "Active" /\ k \in writeSet[t] =>
              PendingBy(t) \in data[k]

\* Every read of a live transaction is covered by a SIREAD lock.
ReadsLocked ==
    \A o \in obs : /\ status[o.txn] # "Unborn"
                   /\ Live(o.txn) => o.txn \in siread[o.key]

\* The invariants above with the facts that make them inductive: the clock, the
\* pending writes and the SIREAD locks of begin, write, commit and read.
IInv ==
    /\ TypeOK
    /\ ClockAhead
    /\ WritesPending
    /\ ReadsLocked
    /\ LockGuardsPending
    /\ SnapshotStable
    /\ RwConflictsFlagged

-----------------------------------------------------------------------------
(* The store implements snapshot isolation: the database is the newest       *)
(* version of every key, a transaction's view is what its snapshot_ts shows. *)

\* The versions a timestamp shows, as one database (get_current_value when it
\* is the current timestamp).
DatabaseAt(ts) == [k \in Keys |-> VisibleVersion(k, ts)]

Views == [t \in TxnId |-> IF status[t] = "Unborn" THEN [k \in Keys |-> NoTxn]
                          ELSE DatabaseAt(snapshot[t])]

SI == INSTANCE SnapshotIsolation WITH
          Txns <- TxnId, db <- DatabaseAt(timestamp), phase <- status,
          view <- Views, buffer <- writeSet, reads <- obs

\* Timestamps, version lists and per-key locks together behave as atomic
\* copies of the database with write exclusion (all operations of the store).
ImplementsSnapshots == SI!Spec

-----------------------------------------------------------------------------
(* What the repository says of the store and the code does not do. *)

\* FirstCommitterWins, ssi.rs:21: of two transactions whose lives overlap at
\* most one commits a version of a key.
FirstCommitterWins ==
    \A k \in Keys : \A v, w \in data[k] :
        ~(v.ts < w.ts /\ w.ts # Pending /\ v.ts > snapshot[w.writer])

\* Serializable, ssi.rs:23 and SsiHistory: no committed transaction carries both
\* conflict flags.
NoCommittedDangerous == \A t \in committed : ~Dangerous(t)

\* A committed transaction precedes another in every equivalent serial order:
\* the second read its version, overwrote it, or installed what it overlooked.
Precedes(t, u) ==
    \/ \E o \in obs : o.txn = u /\ o.from = t
    \/ \E k \in Keys : \E v, w \in data[k] :
          v.writer = t /\ w.writer = u /\ v.ts < w.ts
    \/ RwEdge(t, u)

\* Serializable, specs/ssi/serializable_snapshot_isolation.tla:16: the conflict
\* graph is acyclic, so every set of committed transactions has a first one.
Serializable ==
    \A S \in SUBSET committed \ {{}} :
        \E t \in S : \A u \in S \ {t} : ~Precedes(u, t)
=============================================================================
