------------------------- MODULE SsiDstRunnerProofs -------------------------
(***************************************************************************)
(* Theorems about SsiStore, its version lists, the DST runner and the      *)
(* replay of traces, for any keys, values, bounds and faults: the store    *)
(* keeps its invariants and implements SnapshotIsolation, the runner       *)
(* drives it, its lists hold the versions of the store newest first, its   *)
(* record follows it, and a replay reports what happened.                  *)
(***************************************************************************)
EXTENDS SsiOracleReplay, FiniteSetTheorems, SequenceTheorems, TLAPS

USE BoundsAssumption

\* What visible_version returns is a transaction or nothing.
LEMMA VisibleVersionType ==
    ASSUME data \in [Keys -> SUBSET Version], NEW key \in Keys, NEW ts
    PROVE  VisibleVersion(key, ts) \in TxnId \cup {NoTxn}
<1>1. CASE NewestAt(key, ts) = {}
  BY <1>1 DEF VisibleVersion
<1>2. CASE NewestAt(key, ts) # {}
  <2>1. PICK v \in NewestAt(key, ts) : v = CHOOSE w \in NewestAt(key, ts) : TRUE
    BY <1>2
  <2>2. v.writer \in TxnId
    BY DEF NewestAt, VersionsAt, Version
  <2>3. QED
    BY <1>2, <2>1, <2>2 DEF VisibleVersion
<1>3. QED
  BY <1>1, <1>2

\* The stamping loop of commit keeps the versions well typed.
LEMMA StampType ==
    ASSUME TypeOK, NEW txn \in TxnId, timestamp \in Timestamp, StampVersions(txn, timestamp)
    PROVE  data' \in [Keys -> SUBSET Version]
BY DEF TypeOK, StampVersions, Version

\* The retain loop of abort keeps the versions well typed.
LEMMA DropType ==
    ASSUME TypeOK, NEW txn \in TxnId, DropVersions(txn)
    PROVE  data' \in [Keys -> SUBSET Version]
BY DEF TypeOK, DropVersions

\* Releasing locks keeps the lock table well typed.
LEMMA ReleaseType ==
    ASSUME TypeOK, NEW txn \in TxnId, ReleaseLocks(txn)
    PROVE  writeLock' \in [Keys -> TxnId \cup {NoTxn}]
BY DEF TypeOK, ReleaseLocks

\* The clock stays below u64::MAX.
LEMMA TickType ==
    ASSUME TypeOK, Tick
    PROVE  /\ timestamp' \in 1 .. MaxTimestamp - 1
           /\ timestamp \in Timestamp
           /\ timestamp < Pending
BY DEF TypeOK, Tick, Timestamp, Pending

\* Every variable keeps its type: each operation of the store builds only
\* well-formed transactions, locks and versions.
THEOREM TypeCorrect == Spec => []TypeOK
<1>1. Init => TypeOK
  BY DEF Init, TypeOK, Timestamp, Status
<1>2. TypeOK /\ [Next]_vars => TypeOK'
  <2> SUFFICES ASSUME TypeOK, [Next]_vars PROVE TypeOK'
    OBVIOUS
  <2>1. CASE Begin
    BY <2>1, TickType DEF Begin, TypeOK, TxnId, Status
  <2>2. ASSUME NEW txn \in TxnId, NEW key \in Keys, Read(txn, key) PROVE TypeOK'
    <3>1. obs' \subseteq Observation
      BY <2>2, VisibleVersionType DEF Read, TypeOK, Observation
    <3>2. /\ inConflict' \in [TxnId -> BOOLEAN]
          /\ outConflict' \in [TxnId -> BOOLEAN]
      BY <2>2 DEF Read, TypeOK
    <3>3. siread' \in [Keys -> SUBSET TxnId]
      BY <2>2 DEF Read, TypeOK
    <3>4. QED
      BY <2>2, <3>1, <3>2, <3>3 DEF Read, TypeOK
  <2>3. ASSUME NEW txn \in TxnId, NEW key \in Keys, Write(txn, key) PROVE TypeOK'
    <3>1. data' \in [Keys -> SUBSET Version]
      BY <2>3 DEF Write, TypeOK, Version, PendingBy, Pending, Timestamp
    <3>2. /\ inConflict' \in [TxnId -> BOOLEAN]
          /\ outConflict' \in [TxnId -> BOOLEAN]
      BY <2>3 DEF Write, TypeOK
    <3>3. /\ writeLock' \in [Keys -> TxnId \cup {NoTxn}]
          /\ writeSet' \in [TxnId -> SUBSET Keys]
      BY <2>3 DEF Write, TypeOK
    <3>4. QED
      BY <2>3, <3>1, <3>2, <3>3 DEF Write, TypeOK
  <2>4. ASSUME NEW txn \in TxnId, Commit(txn) PROVE TypeOK'
    <3>1. data' \in [Keys -> SUBSET Version]
      BY <2>4, TickType, StampType DEF Commit
    <3>2. writeLock' \in [Keys -> TxnId \cup {NoTxn}]
      BY <2>4, ReleaseType DEF Commit
    <3>3. QED
      BY <2>4, <3>1, <3>2, TickType DEF Commit, TypeOK, Status
  <2>5. ASSUME NEW txn \in TxnId, CommitFails(txn) PROVE TypeOK'
    BY <2>5, ReleaseType, DropType DEF CommitFails, TypeOK, Status
  <2>6. ASSUME NEW txn \in TxnId, Abort(txn) PROVE TypeOK'
    BY <2>6, ReleaseType, DropType DEF Abort, TypeOK, Status
  <2>7. CASE UNCHANGED vars
    BY <2>7 DEF vars, txnVars, TypeOK
  <2>8. QED
    BY <2>1, <2>2, <2>3, <2>4, <2>5, <2>6, <2>7 DEF Next
<1>3. QED
  BY <1>1, <1>2, PTL DEF Spec

-----------------------------------------------------------------------------
\* The empty store.
LEMMA InitInv == Init => IInv
<1> SUFFICES ASSUME Init PROVE IInv
  OBVIOUS
<1>1. TypeOK
  BY DEF Init, TypeOK, Timestamp, Status
<1>2. ClockAhead /\ WritesPending /\ ReadsLocked
  BY DEF Init, ClockAhead, WritesPending, ReadsLocked, TxnId
<1>3. LockGuardsPending /\ SnapshotStable /\ RwConflictsFlagged
  BY DEF Init, LockGuardsPending, PendingLocked, LocksUsed, SnapshotStable, RwConflictsFlagged, RwEdge
<1>4. QED
  BY <1>1, <1>2, <1>3 DEF IInv

\* After write() a key holds the writer's pending version and the others' as
\* before.
LEMMA WriteData ==
    ASSUME IInv, NEW txn \in TxnId, NEW key \in Keys, Write(txn, key), NEW k \in Keys
    PROVE  data'[k] = IF k = key THEN data[k] \cup {PendingBy(txn)}
                      ELSE data[k]
<1>1. \A v \in data[key] : v.writer = txn /\ v.ts = Pending
          => v = PendingBy(txn)
  BY DEF IInv, TypeOK, Version, PendingBy
<1>2. QED
  BY <1>1 DEF IInv, TypeOK, Write

\* After commit() the pending versions of the transaction carry the timestamp.
LEMMA CommitData ==
    ASSUME IInv, NEW txn \in TxnId, Commit(txn), NEW k \in Keys
    PROVE  data'[k] = {v \in data[k] : v.writer # txn}
                        \cup (IF k \in writeSet[txn]
                              THEN {[writer |-> txn, ts |-> timestamp]} ELSE {})
<1>1. \A v \in data[k] : v.writer = txn => v.ts = Pending /\ k \in writeSet[txn]
  BY DEF IInv, LockGuardsPending, PendingLocked, WritesPending, Commit
<1>2. CASE k \in writeSet[txn]
  <2>1. PendingBy(txn) \in data[k]
    BY <1>2 DEF IInv, WritesPending, Commit
  <2>2. data'[k] = {IF v.writer = txn /\ v.ts = Pending
                    THEN [writer |-> txn, ts |-> timestamp] ELSE v : v \in data[k]}
    BY <1>2 DEF Commit, StampVersions
  <2>3. PendingBy(txn).writer = txn /\ PendingBy(txn).ts = Pending
    BY DEF PendingBy
  <2>4. QED
    BY <1>1, <1>2, <2>1, <2>2, <2>3
<1>3. CASE k \notin writeSet[txn]
  BY <1>1, <1>3 DEF Commit, StampVersions
<1>4. QED
  BY <1>2, <1>3

\* After an abort the transaction has no version left.
LEMMA DropData ==
    ASSUME IInv, NEW txn \in TxnId, DropVersions(txn), NEW k \in Keys
    PROVE  data'[k] = {v \in data[k] : v.writer # txn}
BY DEF IInv, WritesPending, DropVersions

\* visible_version depends on the versions inside the snapshot only.
LEMMA VisibleSame ==
    ASSUME NEW key, NEW ts, VersionsAt(key, ts)' = VersionsAt(key, ts)
    PROVE  VisibleVersion(key, ts)' = VisibleVersion(key, ts)
BY DEF VisibleVersion, NewestAt

\* One lemma per operation: it keeps what is inductive beyond the types.
LEMMA BeginKeeps == ASSUME IInv, Begin PROVE TypeOK' => IInv'
<1> USE DEF IInv
<1>1. timestamp < timestamp' /\ timestamp \in Nat /\ timestamp' \in Nat
  BY DEF Begin, Tick, TypeOK
<1>2. /\ status[nextTxn] = "Unborn"
      /\ \A t \in TxnId : status'[t] = IF t = nextTxn THEN "Active" ELSE status[t]
      /\ \A t \in TxnId : snapshot'[t] = IF t = nextTxn THEN timestamp ELSE snapshot[t]
  BY DEF Begin, TypeOK, ClockAhead, TxnId
<1>3. \A k \in Keys : \A v \in data[k] : v.writer # nextTxn
  BY <1>2 DEF WritesPending, Live
<1>4. \A o \in obs : o.txn # nextTxn
  BY <1>2 DEF ReadsLocked
<1>5. ClockAhead'
  <2>1. \A t \in TxnId : status'[t] = "Unborn" <=> t \in nextTxn' .. MaxTxns
    BY <1>2 DEF Begin, TypeOK, ClockAhead, TxnId
  <2>2. \A t \in TxnId : snapshot'[t] < timestamp'
    <3>1. \A t \in TxnId : snapshot[t] \in Nat /\ snapshot[t] < timestamp
      BY DEF TypeOK, ClockAhead, Timestamp
    <3>2. QED
      BY <1>1, <1>2, <3>1
  <2>3. \A k \in Keys : \A v \in data'[k] : v.ts = Pending \/ v.ts < timestamp'
    <3>1. \A k \in Keys : \A v \in data[k] : v.ts \in Nat
      BY DEF TypeOK, Version, Timestamp
    <3>2. QED
      BY <1>1, <3>1 DEF Begin, ClockAhead
  <2>4. QED
    BY <2>1, <2>2, <2>3 DEF ClockAhead
<1>6. WritesPending'
  <2>1. \A t \in TxnId : status'[t] = "Unborn" => writeSet'[t] = {}
    BY <1>2 DEF Begin, WritesPending
  <2>2. \A k \in Keys : \A v \in data'[k] : Live(v.writer)' /\ k \in writeSet'[v.writer]
    BY <1>2, <1>3 DEF Begin, WritesPending, Live, TypeOK, Version
  <2>3. \A t \in TxnId, k \in Keys :
            status'[t] = "Active" /\ k \in writeSet'[t] => PendingBy(t) \in data'[k]
    BY <1>2 DEF Begin, WritesPending
  <2>4. QED
    BY <2>1, <2>2, <2>3 DEF WritesPending, PendingBy
<1>7. ReadsLocked'
  BY <1>2, <1>4 DEF Begin, ReadsLocked, Live, TypeOK, Observation
<1>8. LockGuardsPending'
  BY <1>2, <1>3 DEF Begin, LockGuardsPending, PendingLocked, LocksUsed, TypeOK, Version
<1>9. SnapshotStable'
  BY <1>2, <1>4 DEF Begin, SnapshotStable, VisibleVersion, NewestAt, VersionsAt, TypeOK, Observation
<1>10. RwConflictsFlagged'
  BY <1>2, <1>3, <1>4 DEF Begin, RwConflictsFlagged, RwEdge, Live, TypeOK, Version, Observation
<1>11. QED
  BY <1>5, <1>6, <1>7, <1>8, <1>9, <1>10

\* read: its SIREAD lock and the conflict flags it sets.
LEMMA ReadKeeps ==
    ASSUME IInv, NEW txn \in TxnId, NEW key \in Keys, Read(txn, key)
    PROVE  TypeOK' => IInv'
<1> USE DEF IInv
<1>1. ClockAhead' /\ WritesPending' /\ LockGuardsPending'
  BY DEF Read, ClockAhead, WritesPending, LockGuardsPending, PendingLocked, LocksUsed, Live
<1>2. ReadsLocked'
  BY DEF Read, ReadsLocked, Live, TypeOK, Observation
<1>3. SnapshotStable'
  <2>1. \A k, ts : VisibleVersion(k, ts)' = VisibleVersion(k, ts)
    BY DEF Read, VisibleVersion, NewestAt, VersionsAt
  <2>2. \A o \in obs' : o.from = VisibleVersion(o.key, snapshot[o.txn])
    BY DEF Read, SnapshotStable
  <2>3. snapshot' = snapshot
    BY DEF Read
  <2>4. QED
    BY <2>1, <2>2, <2>3 DEF SnapshotStable
<1>4. RwConflictsFlagged'
  <2> SUFFICES ASSUME NEW r \in TxnId, NEW w \in TxnId,
                      Live(r)', Live(w)', RwEdge(r, w)'
               PROVE  inConflict'[w] /\ (status'[r] = "Active" => outConflict'[r])
    BY DEF RwConflictsFlagged
  <2>1. Live(r) /\ Live(w)
    BY DEF Read, Live
  <2>2. CASE RwEdge(r, w)
    BY <2>1, <2>2 DEF Read, RwConflictsFlagged, TypeOK
  <2>3. CASE r = txn /\ \E v \in data[key] : v.writer = w /\ v.ts > snapshot[r]
    <3>1. w \in NewerWriters(txn, key)
      BY <2>1, <2>3 DEF NewerWriters, Live, RwEdge
    <3>2. QED
      BY <2>3, <3>1 DEF Read, TypeOK
  <2>4. QED
    BY <2>2, <2>3 DEF Read, RwEdge
<1>5. QED
  BY <1>1, <1>2, <1>3, <1>4

\* write: its lock, its pending version and the flags of readers.
LEMMA WriteKeeps ==
    ASSUME IInv, NEW txn \in TxnId, NEW key \in Keys, Write(txn, key)
    PROVE  TypeOK' => IInv'
<1> USE DEF IInv
<1>1. \A k \in Keys : data'[k] = IF k = key THEN data[k] \cup {PendingBy(txn)} ELSE data[k]
  BY WriteData
<1>2. status[txn] = "Active" /\ status' = status /\ snapshot' = snapshot
      /\ obs' = obs /\ siread' = siread /\ timestamp' = timestamp
  BY DEF Write
<1>3. \A t \in TxnId : writeSet'[t] = IF t = txn THEN writeSet[t] \cup {key} ELSE writeSet[t]
  BY DEF Write, TypeOK
<1>4. \A k \in Keys : writeLock'[k] = IF k = key THEN txn ELSE writeLock[k]
  BY DEF Write, TypeOK
<1>5. PendingBy(txn).writer = txn /\ PendingBy(txn).ts = Pending
  BY DEF PendingBy
<1>6. ClockAhead'
  BY <1>1, <1>2, <1>5 DEF Write, ClockAhead
<1>7. WritesPending'
  <2>1. \A t \in TxnId : status'[t] = "Unborn" => writeSet'[t] = {}
    BY <1>2, <1>3 DEF WritesPending
  <2>2. \A k \in Keys : \A v \in data'[k] : Live(v.writer)' /\ k \in writeSet'[v.writer]
    <3>1. \A k \in Keys : \A v \in data[k] : v.writer \in TxnId
      BY DEF TypeOK, Version
    <3> SUFFICES ASSUME NEW k \in Keys, NEW v \in data'[k]
                 PROVE  Live(v.writer)' /\ k \in writeSet'[v.writer]
      OBVIOUS
    <3>2. CASE v \in data[k]
      <4>1. Live(v.writer) /\ k \in writeSet[v.writer]
        BY <3>2 DEF WritesPending
      <4>2. QED
        BY <1>2, <1>3, <3>1, <3>2, <4>1 DEF Live
    <3>3. CASE k = key /\ v = PendingBy(txn)
      BY <1>2, <1>3, <1>5, <3>3 DEF Live
    <3>4. QED
      BY <1>1, <3>2, <3>3
  <2>3. \A t \in TxnId, k \in Keys :
            status'[t] = "Active" /\ k \in writeSet'[t] => PendingBy(t) \in data'[k]
    <3> SUFFICES ASSUME NEW t \in TxnId, NEW k \in Keys,
                        status'[t] = "Active", k \in writeSet'[t]
                 PROVE  PendingBy(t) \in data'[k]
      OBVIOUS
    <3>1. CASE k \in writeSet[t]
      <4>1. PendingBy(t) \in data[k]
        BY <1>2, <3>1 DEF WritesPending
      <4>2. QED
        BY <1>1, <4>1
    <3>2. CASE k \notin writeSet[t]
      BY <1>1, <1>3, <3>2
    <3>3. QED
      BY <3>1, <3>2
  <2>4. QED
    BY <2>1, <2>2, <2>3 DEF WritesPending, PendingBy
<1>8. ReadsLocked'
  BY <1>2 DEF ReadsLocked, Live
<1>9. LockGuardsPending'
  <2>1. PendingLocked'
    <3> SUFFICES ASSUME NEW k \in Keys, NEW v \in data'[k]
                 PROVE  /\ v.ts = Pending <=> status[v.writer] = "Active"
                        /\ v.ts = Pending => writeLock'[k] = v.writer
      BY <1>2 DEF PendingLocked
    <3>1. CASE k = key /\ v = PendingBy(txn)
      BY <1>2, <1>4, <1>5, <3>1
    <3>2. CASE v \in data[k]
      <4>1. v.ts = Pending /\ k = key => v.writer = txn
        <5>1. v.writer \in TxnId
          BY <3>2 DEF TypeOK, Version
        <5>2. QED
          BY <3>2, <5>1 DEF LockGuardsPending, PendingLocked, Write
      <4>2. QED
        BY <1>4, <3>2, <4>1 DEF LockGuardsPending, PendingLocked
    <3>3. QED
      BY <1>1, <3>1, <3>2
  <2>2. LocksUsed'
    <3> SUFFICES ASSUME NEW k \in Keys, writeLock'[k] # NoTxn
                 PROVE  /\ status[writeLock'[k]] = "Active"
                        /\ k \in writeSet'[writeLock'[k]]
                        /\ PendingBy(writeLock'[k]) \in data'[k]
      BY <1>2 DEF LocksUsed, PendingBy
    <3>1. CASE k = key
      BY <1>1, <1>2, <1>3, <1>4, <3>1
    <3>2. CASE k # key
      <4>1. writeLock'[k] = writeLock[k] /\ writeLock[k] \in TxnId
        BY <1>4, <3>2 DEF TypeOK
      <4>2. QED
        BY <1>1, <1>3, <3>2, <4>1 DEF LockGuardsPending, LocksUsed
    <3>3. QED
      BY <3>1, <3>2
  <2>3. QED
    BY <2>1, <2>2 DEF LockGuardsPending
<1>10. SnapshotStable'
  <2> SUFFICES ASSUME NEW o \in obs
               PROVE  o.from = VisibleVersion(o.key, snapshot[o.txn])'
    BY <1>2 DEF SnapshotStable
  <2>1. VersionsAt(o.key, snapshot[o.txn])' = VersionsAt(o.key, snapshot[o.txn])
    BY <1>1, <1>2, <1>5 DEF VersionsAt, TypeOK, Observation
  <2>2. QED
    BY <2>1 DEF SnapshotStable, VisibleVersion, NewestAt
<1>11. RwConflictsFlagged'
  <2> SUFFICES ASSUME NEW r \in TxnId, NEW w \in TxnId,
                      Live(r)', Live(w)', RwEdge(r, w)'
               PROVE  inConflict'[w] /\ (status'[r] = "Active" => outConflict'[r])
    BY DEF RwConflictsFlagged
  <2>1. Live(r) /\ Live(w)
    BY <1>2 DEF Live
  <2>2. CASE RwEdge(r, w)
    BY <1>2, <2>1, <2>2 DEF Write, RwConflictsFlagged, TypeOK
  <2>3. CASE ~RwEdge(r, w)
    <3>1. PICK o \in obs : /\ o.txn = r
                           /\ \E v \in data'[o.key] : v.writer = w /\ v.ts > snapshot[r]
      BY <1>2 DEF RwEdge
    <3>2. r # w /\ w = txn /\ o.key = key
      BY <1>1, <1>2, <1>5, <2>3, <3>1 DEF RwEdge, TypeOK, Observation
    <3>3. r \in ConcurrentReaders(txn, key)
      BY <2>1, <3>1, <3>2 DEF ReadsLocked, ConcurrentReaders, Live
    <3>4. QED
      BY <1>2, <3>2, <3>3 DEF Write, TypeOK
  <2>4. QED
    BY <2>2, <2>3
<1>12. QED
  BY <1>6, <1>7, <1>8, <1>9, <1>10, <1>11

\* What commit and both aborts do to the lock table.
LEMMA ReleaseData ==
    ASSUME IInv, NEW txn \in TxnId, ReleaseLocks(txn), NEW k \in Keys
    PROVE  writeLock'[k] = IF writeLock[k] = txn THEN NoTxn ELSE writeLock[k]
<1>1. writeLock[k] = txn => k \in writeSet[txn]
  BY DEF IInv, LockGuardsPending, LocksUsed
<1>2. QED
  BY <1>1 DEF ReleaseLocks

\* commit: the pending versions get the new timestamp.
LEMMA CommitKeeps ==
    ASSUME IInv, NEW txn \in TxnId, Commit(txn)
    PROVE  TypeOK' => IInv'
<1> DEFINE new == [writer |-> txn, ts |-> timestamp]
<1> USE DEF IInv
<1>1. \A k \in Keys : data'[k] = {v \in data[k] : v.writer # txn}
                          \cup (IF k \in writeSet[txn] THEN {new} ELSE {})
  BY CommitData
<1>2. \A k \in Keys : writeLock'[k] = IF writeLock[k] = txn THEN NoTxn ELSE writeLock[k]
  BY ReleaseData DEF Commit
<1>3. /\ status[txn] = "Active"
      /\ \A t \in TxnId : status'[t] = IF t = txn THEN "Committed" ELSE status[t]
      /\ UNCHANGED <<nextTxn, snapshot, writeSet, inConflict, outConflict, siread, obs>>
  BY DEF Commit, TypeOK
<1>4. new.writer = txn /\ new.ts = timestamp
  OBVIOUS
<1>5. /\ timestamp \in Nat /\ timestamp < Pending /\ timestamp' = timestamp + 1
  BY TickType DEF Commit, Tick, Timestamp
<1> HIDE DEF new
<1>6. \A k \in Keys : \A v \in data[k] : v.writer \in TxnId /\ v.ts \in Nat
  BY DEF TypeOK, Version, Timestamp
<1>7. ClockAhead'
  <2>1. \A t \in TxnId : status'[t] = "Unborn" <=> t \in nextTxn' .. MaxTxns
    BY <1>3 DEF ClockAhead
  <2>2. \A t \in TxnId : snapshot'[t] < timestamp'
    <3>1. \A t \in TxnId : snapshot[t] \in Nat /\ snapshot[t] < timestamp
      BY DEF TypeOK, ClockAhead, Timestamp
    <3>2. QED
      BY <1>3, <1>5, <3>1
  <2>3. \A k \in Keys : \A v \in data'[k] : v.ts = Pending \/ v.ts < timestamp'
    BY <1>1, <1>4, <1>5, <1>6 DEF ClockAhead
  <2>4. QED
    BY <2>1, <2>2, <2>3 DEF ClockAhead
<1>8. WritesPending'
  <2>1. \A t \in TxnId : status'[t] = "Unborn" => writeSet'[t] = {}
    BY <1>3 DEF WritesPending
  <2>2. \A k \in Keys : \A v \in data'[k] : Live(v.writer)' /\ k \in writeSet'[v.writer]
    BY <1>1, <1>3, <1>4, <1>6 DEF WritesPending, Live
  <2>3. \A t \in TxnId, k \in Keys :
            status'[t] = "Active" /\ k \in writeSet'[t] => PendingBy(t) \in data'[k]
    BY <1>1, <1>3 DEF WritesPending, PendingBy
  <2>4. QED
    BY <2>1, <2>2, <2>3 DEF WritesPending, PendingBy
<1>9. ReadsLocked'
  BY <1>3 DEF ReadsLocked, Live, TypeOK, Observation
<1>10. LockGuardsPending'
  <2>1. PendingLocked'
    <3> SUFFICES ASSUME NEW k \in Keys, NEW v \in data'[k]
                 PROVE  /\ v.ts = Pending <=> status'[v.writer] = "Active"
                        /\ v.ts = Pending => writeLock'[k] = v.writer
      BY DEF PendingLocked
    <3>1. CASE v = new
      BY <1>3, <1>4, <1>5, <3>1
    <3>2. CASE v \in data[k] /\ v.writer # txn
      BY <1>2, <1>3, <1>6, <3>2 DEF LockGuardsPending, PendingLocked
    <3>3. QED
      BY <1>1, <3>1, <3>2
  <2>2. LocksUsed'
    <3> SUFFICES ASSUME NEW k \in Keys, writeLock'[k] # NoTxn
                 PROVE  /\ status'[writeLock'[k]] = "Active"
                        /\ k \in writeSet'[writeLock'[k]]
                        /\ PendingBy(writeLock'[k]) \in data'[k]
      BY DEF LocksUsed, PendingBy
    <3>1. /\ writeLock'[k] = writeLock[k] /\ writeLock[k] # txn
          /\ writeLock[k] \in TxnId /\ writeLock[k] # NoTxn
      BY <1>2 DEF TypeOK
    <3>2. PendingBy(writeLock[k]).writer = writeLock[k]
      BY DEF PendingBy
    <3>3. QED
      BY <1>1, <1>3, <3>1, <3>2 DEF LockGuardsPending, LocksUsed
  <2>3. QED
    BY <2>1, <2>2 DEF LockGuardsPending
<1>11. SnapshotStable'
  <2> SUFFICES ASSUME NEW o \in obs
               PROVE  o.from = VisibleVersion(o.key, snapshot[o.txn])'
    BY <1>3 DEF SnapshotStable
  <2>1. o.key \in Keys /\ o.txn \in TxnId
    BY DEF TypeOK, Observation
  <2>2. snapshot[o.txn] \in Nat /\ snapshot[o.txn] < timestamp
    BY <2>1 DEF TypeOK, ClockAhead, Timestamp
  <2>3. \A v \in data[o.key] : v.writer = txn => v.ts = Pending
    BY <1>3, <2>1 DEF LockGuardsPending, PendingLocked
  <2>4. ~(new.ts <= snapshot[o.txn])
    BY <1>4, <1>5, <2>2
  <2>5. VersionsAt(o.key, snapshot[o.txn])' = VersionsAt(o.key, snapshot[o.txn])
    BY <1>1, <1>3, <2>1, <2>3, <2>4 DEF VersionsAt
  <2>6. QED
    BY <2>5 DEF SnapshotStable, VisibleVersion, NewestAt
<1>12. RwConflictsFlagged'
  <2> SUFFICES ASSUME NEW r \in TxnId, NEW w \in TxnId,
                      Live(r)', Live(w)', RwEdge(r, w)'
               PROVE  inConflict'[w] /\ (status'[r] = "Active" => outConflict'[r])
    BY DEF RwConflictsFlagged
  <2>1. Live(r) /\ Live(w)
    BY <1>3 DEF Live
  <2>2. RwEdge(r, w)
    <3>1. PICK o \in obs : /\ o.txn = r
                           /\ \E v \in data'[o.key] : v.writer = w /\ v.ts > snapshot[r]
      BY <1>3 DEF RwEdge
    <3>2. PICK v \in data'[o.key] : v.writer = w /\ v.ts > snapshot[r]
      BY <3>1
    <3>3. o.key \in Keys
      BY DEF TypeOK, Observation
    <3>4. CASE v \in data[o.key]
      BY <3>1, <3>2, <3>4 DEF RwEdge
    <3>5. CASE v = new /\ o.key \in writeSet[txn]
      <4>1. PendingBy(txn) \in data[o.key]
        BY <1>3, <3>3, <3>5 DEF WritesPending
      <4>2. PendingBy(txn).writer = w /\ PendingBy(txn).ts > snapshot[r]
        <5>1. snapshot[r] < timestamp /\ snapshot[r] \in Nat
          BY DEF ClockAhead, TypeOK, Timestamp
        <5>2. QED
          BY <1>4, <1>5, <3>2, <3>5, <5>1 DEF PendingBy, Pending
      <4>3. QED
        BY <3>1, <4>1, <4>2 DEF RwEdge
    <3>6. QED
      BY <1>1, <3>2, <3>3, <3>4, <3>5
  <2>3. QED
    BY <1>3, <2>1, <2>2 DEF RwConflictsFlagged
<1>13. QED
  BY <1>7, <1>8, <1>9, <1>10, <1>11, <1>12

\* Both ways of aborting: explicit, and a commit that finds the transaction
\* dangerous.
LEMMA AbortKeeps ==
    ASSUME IInv, NEW txn \in TxnId, CommitFails(txn) \/ Abort(txn)
    PROVE  TypeOK' => IInv'
<1> USE DEF IInv
<1>1. \A k \in Keys : data'[k] = {v \in data[k] : v.writer # txn}
  BY DropData DEF CommitFails, Abort
<1>2. \A k \in Keys : writeLock'[k] = IF writeLock[k] = txn THEN NoTxn ELSE writeLock[k]
  BY ReleaseData DEF CommitFails, Abort
<1>3. /\ status[txn] = "Active"
      /\ \A t \in TxnId : status'[t] = IF t = txn THEN "Aborted" ELSE status[t]
      /\ UNCHANGED <<timestamp, nextTxn, snapshot, writeSet, inConflict, outConflict, obs>>
  BY DEF CommitFails, Abort, TypeOK
<1>4. \A k \in Keys : siread[k] \ {txn} \subseteq siread'[k]
  BY DEF CommitFails, Abort
<1>5. \A k \in Keys : \A v \in data[k] : v.writer \in TxnId
  BY DEF TypeOK, Version
<1>6. ClockAhead'
  BY <1>1, <1>3 DEF ClockAhead
<1>7. WritesPending'
  <2>1. \A t \in TxnId : status'[t] = "Unborn" => writeSet'[t] = {}
    BY <1>3 DEF WritesPending
  <2>2. \A k \in Keys : \A v \in data'[k] : Live(v.writer)' /\ k \in writeSet'[v.writer]
    BY <1>1, <1>3, <1>5 DEF WritesPending, Live
  <2>3. \A t \in TxnId, k \in Keys :
            status'[t] = "Active" /\ k \in writeSet'[t] => PendingBy(t) \in data'[k]
    BY <1>1, <1>3 DEF WritesPending, PendingBy
  <2>4. QED
    BY <2>1, <2>2, <2>3 DEF WritesPending, PendingBy
<1>8. ReadsLocked'
  <2>1. \A o \in obs : o.txn \in TxnId /\ o.key \in Keys
    BY DEF TypeOK, Observation
  <2>2. QED
    BY <1>3, <1>4, <2>1 DEF ReadsLocked, Live
<1>9. LockGuardsPending'
  <2>1. PendingLocked'
    BY <1>1, <1>2, <1>3, <1>5 DEF LockGuardsPending, PendingLocked
  <2>2. LocksUsed'
    <3> SUFFICES ASSUME NEW k \in Keys, writeLock'[k] # NoTxn
                 PROVE  /\ status'[writeLock'[k]] = "Active"
                        /\ k \in writeSet'[writeLock'[k]]
                        /\ PendingBy(writeLock'[k]) \in data'[k]
      BY DEF LocksUsed, PendingBy
    <3>1. /\ writeLock'[k] = writeLock[k] /\ writeLock[k] # txn
          /\ writeLock[k] \in TxnId /\ writeLock[k] # NoTxn
      BY <1>2 DEF TypeOK
    <3>2. PendingBy(writeLock[k]).writer = writeLock[k]
      BY DEF PendingBy
    <3>3. QED
      BY <1>1, <1>3, <3>1, <3>2 DEF LockGuardsPending, LocksUsed
  <2>3. QED
    BY <2>1, <2>2 DEF LockGuardsPending
<1>10. SnapshotStable'
  <2> SUFFICES ASSUME NEW o \in obs
               PROVE  o.from = VisibleVersion(o.key, snapshot[o.txn])'
    BY <1>3 DEF SnapshotStable
  <2>1. o.key \in Keys
    BY DEF TypeOK, Observation
  <2>2. \A v \in data[o.key] : v.writer = txn => v.ts = Pending
    BY <1>3, <2>1 DEF LockGuardsPending, PendingLocked
  <2>3. VersionsAt(o.key, snapshot[o.txn])' = VersionsAt(o.key, snapshot[o.txn])
    BY <1>1, <1>3, <2>1, <2>2 DEF VersionsAt
  <2>4. QED
    BY <2>3 DEF SnapshotStable, VisibleVersion, NewestAt
<1>11. RwConflictsFlagged'
  <2> SUFFICES ASSUME NEW r \in TxnId, NEW w \in TxnId,
                      Live(r)', Live(w)', RwEdge(r, w)'
               PROVE  inConflict'[w] /\ (status'[r] = "Active" => outConflict'[r])
    BY DEF RwConflictsFlagged
  <2>1. Live(r) /\ Live(w) /\ status'[r] = status[r]
    BY <1>3 DEF Live
  <2>2. RwEdge(r, w)
    <3>1. \A o \in obs : o.key \in Keys
      BY DEF TypeOK, Observation
    <3>2. QED
      BY <1>1, <1>3, <3>1 DEF RwEdge
  <2>3. QED
    BY <1>3, <2>1, <2>2 DEF RwConflictsFlagged
<1>12. QED
  BY <1>6, <1>7, <1>8, <1>9, <1>10, <1>11

\* The invariant holds in every state the store reaches.
THEOREM Invariant == Spec => []IInv
<1>1. IInv /\ TypeOK' /\ [Next]_vars => IInv'
  <2> SUFFICES ASSUME IInv, TypeOK', [Next]_vars PROVE IInv'
    OBVIOUS
  <2>1. CASE Begin
    BY <2>1, BeginKeeps
  <2>2. ASSUME NEW txn \in TxnId, NEW key \in Keys, Read(txn, key) PROVE IInv'
    BY <2>2, ReadKeeps
  <2>3. ASSUME NEW txn \in TxnId, NEW key \in Keys, Write(txn, key) PROVE IInv'
    BY <2>3, WriteKeeps
  <2>4. ASSUME NEW txn \in TxnId, Commit(txn) PROVE IInv'
    BY <2>4, CommitKeeps
  <2>5. ASSUME NEW txn \in TxnId, CommitFails(txn) \/ Abort(txn) PROVE IInv'
    BY <2>5, AbortKeeps
  <2>6. CASE UNCHANGED vars
    <3> USE <2>6 DEF vars, txnVars, IInv
    <3>1. ClockAhead' /\ ReadsLocked' /\ WritesPending'
      BY DEF ClockAhead, ReadsLocked, WritesPending, Live
    <3>2. LockGuardsPending'
      BY DEF LockGuardsPending, PendingLocked, LocksUsed
    <3>3. SnapshotStable'
      BY DEF SnapshotStable, VisibleVersion, NewestAt, VersionsAt
    <3>4. RwConflictsFlagged'
      BY DEF RwConflictsFlagged, RwEdge, Live
    <3>5. QED
      BY <3>1, <3>2, <3>3, <3>4
  <2>7. QED
    BY <2>1, <2>2, <2>3, <2>4, <2>5, <2>6 DEF Next
<1>2. QED
  BY <1>1, InitInv, TypeCorrect, PTL DEF Spec

\* A key's write lock and its pending version come and go together.
THEOREM LocksGuard == Spec => []LockGuardsPending
<1>1. IInv => LockGuardsPending
  BY DEF IInv
<1>2. QED
  BY <1>1, Invariant, PTL

\* Snapshot isolation of reads: every read ever done would return the same now.
THEOREM SnapshotsAreStable == Spec => []SnapshotStable
<1>1. IInv => SnapshotStable
  BY DEF IInv
<1>2. QED
  BY <1>1, Invariant, PTL

\* No rw-dependency between live transactions goes unmarked.
THEOREM ConflictsAreFlagged == Spec => []RwConflictsFlagged
<1>1. IInv => RwConflictsFlagged
  BY DEF IInv
<1>2. QED
  BY <1>1, Invariant, PTL

\* Cahill's rule as the store keeps it: a transaction that commits is not, at
\* that step, the pivot of two rw-dependencies.
THEOREM PivotsNeverCommit == Spec => NoPivotCommits
<1>1. IInv /\ [Next]_vars =>
        [\A t \in TxnId :
           status[t] = "Active" /\ status'[t] = "Committed" =>
             ~ \E r, w \in TxnId : /\ Live(r) /\ RwEdge(r, t)
                                   /\ Live(w) /\ RwEdge(t, w)]_vars
  <2> SUFFICES ASSUME IInv, [Next]_vars, NEW t \in TxnId,
                      status[t] = "Active", status'[t] = "Committed",
                      NEW r \in TxnId, NEW w \in TxnId,
                      Live(r), RwEdge(r, t), Live(w), RwEdge(t, w)
               PROVE  FALSE
    OBVIOUS
  <2>1. inConflict[t] /\ outConflict[t]
    BY DEF IInv, RwConflictsFlagged, Live
  <2>2. Commit(t)
    <3>1. status' # status
      OBVIOUS
    <3>2. CASE Begin
      BY <3>2 DEF Begin, IInv, TypeOK
    <3>3. ASSUME NEW txn \in TxnId, Commit(txn) PROVE Commit(t)
      BY <3>3 DEF Commit, IInv, TypeOK
    <3>4. ASSUME NEW txn \in TxnId, CommitFails(txn) \/ Abort(txn) PROVE FALSE
      BY <3>4 DEF CommitFails, Abort, IInv, TypeOK
    <3>5. ASSUME NEW txn \in TxnId, NEW key \in Keys, Read(txn, key) \/ Write(txn, key)
          PROVE  FALSE
      BY <3>1, <3>5 DEF Read, Write
    <3>6. QED
      BY <3>1, <3>2, <3>3, <3>4, <3>5 DEF Next, vars, txnVars
  <2>3. QED
    BY <2>1, <2>2 DEF Commit, Dangerous
<1>2. QED
  BY <1>1, Invariant, PTL DEF Spec, NoPivotCommits

\* What a transaction committed stays as it is.
THEOREM CommittedVersionsAreKept == Spec => CommittedVersionsStay
<1>1. IInv /\ [Next]_vars =>
        [\A k \in Keys : \A v \in data[k] : v.ts # Pending => v \in data'[k]]_vars
  <2> SUFFICES ASSUME IInv, [Next]_vars, NEW k \in Keys, NEW v \in data[k], v.ts # Pending
               PROVE  v \in data'[k]
    OBVIOUS
  <2>1. status[v.writer] # "Active"
    BY DEF IInv, LockGuardsPending, PendingLocked
  <2>2. ASSUME NEW txn \in TxnId, NEW key \in Keys, Write(txn, key) PROVE v \in data'[k]
    BY <2>2, WriteData
  <2>3. ASSUME NEW txn \in TxnId, Commit(txn) PROVE v \in data'[k]
    <3>1. v.writer # txn
      BY <2>1, <2>3 DEF Commit
    <3>2. QED
      BY <2>3, <3>1, CommitData
  <2>4. ASSUME NEW txn \in TxnId, CommitFails(txn) \/ Abort(txn) PROVE v \in data'[k]
    <3>1. v.writer # txn
      BY <2>1, <2>4 DEF CommitFails, Abort
    <3>2. QED
      BY <2>4, <3>1, DropData DEF CommitFails, Abort
  <2>5. QED
    BY <2>2, <2>3, <2>4 DEF Next, Begin, Read, vars, txnVars
<1>2. QED
  BY <1>1, Invariant, PTL DEF Spec, CommittedVersionsStay

-----------------------------------------------------------------------------
(* SsiStore implements SnapshotIsolation, for every set of keys and every    *)
(* bound: the initial states map to initial states, and every step of the    *)
(* store maps to a step of the abstract store or to a stutter.               *)

\* Views of the transactions that had begun survive a step that leaves the
\* versions inside their snapshots alone.
LEMMA ViewsSame ==
    ASSUME IInv, snapshot' = snapshot,
           \A t \in TxnId : status'[t] = "Unborn" <=> status[t] = "Unborn",
           \A t \in TxnId : \A k \in Keys :
               status[t] # "Unborn" =>
                   VersionsAt(k, snapshot[t])' = VersionsAt(k, snapshot[t])
    PROVE  Views' = Views
<1>1. ASSUME NEW t \in TxnId, status[t] # "Unborn"
      PROVE  DatabaseAt(snapshot[t])' = DatabaseAt(snapshot[t])
  <2>1. ASSUME NEW k \in Keys
        PROVE  VisibleVersion(k, snapshot[t])' = VisibleVersion(k, snapshot[t])
    <3>1. VersionsAt(k, snapshot[t])' = VersionsAt(k, snapshot[t])
      BY <1>1
    <3>2. QED
      BY <3>1 DEF VisibleVersion, NewestAt
  <2>2. QED
    BY <2>1 DEF DatabaseAt
<1>2. QED
  BY <1>1 DEF Views

\* The empty store is an empty database.
LEMMA InitMaps == Init => SI!Init
<1> SUFFICES ASSUME Init PROVE SI!Init
  OBVIOUS
<1>1. DatabaseAt(timestamp) = SI!Empty
  BY DEF Init, DatabaseAt, VisibleVersion, NewestAt, VersionsAt, SI!Empty
<1>2. Views = [t \in TxnId |-> SI!Empty]
  BY DEF Init, Views, SI!Empty
<1>3. QED
  BY <1>1, <1>2 DEF Init, SI!Init

\* begin: the view at the snapshot is the database now.
LEMMA BeginMaps == ASSUME IInv, Begin PROVE SI!Begin(nextTxn)
<1> USE DEF IInv
<1>1. \A k \in Keys : \A v \in data[k] : v.ts \in Nat /\ (v.ts = Pending \/ v.ts < timestamp)
  BY DEF TypeOK, ClockAhead, Version, Timestamp
<1>2. timestamp \in Nat /\ timestamp' = timestamp + 1 /\ data' = data
  BY DEF Begin, Tick, TypeOK
<1>3. status[nextTxn] = "Unborn" /\ nextTxn \in TxnId
  BY DEF Begin, TypeOK, ClockAhead, TxnId
<1>4. DatabaseAt(timestamp)' = DatabaseAt(timestamp)
  <2>1. \A k \in Keys : VersionsAt(k, timestamp)' = VersionsAt(k, timestamp)
    BY <1>1, <1>2 DEF VersionsAt
  <2>2. ASSUME NEW k \in Keys
        PROVE  VisibleVersion(k, timestamp)' = VisibleVersion(k, timestamp)
    <3>1. VersionsAt(k, timestamp)' = VersionsAt(k, timestamp)
      BY <2>1
    <3>2. QED
      BY <3>1 DEF VisibleVersion, NewestAt
  <2>3. QED
    BY <2>2 DEF DatabaseAt
<1>5. Views' = [Views EXCEPT ![nextTxn] = DatabaseAt(timestamp)]
  <2>1. \A ts : DatabaseAt(ts)' = DatabaseAt(ts)
    BY <1>2 DEF DatabaseAt, VisibleVersion, NewestAt, VersionsAt
  <2>2. \A t \in TxnId : snapshot'[t] = IF t = nextTxn THEN timestamp ELSE snapshot[t]
    BY DEF Begin, TypeOK
  <2>3. \A t \in TxnId : status'[t] = IF t = nextTxn THEN "Active" ELSE status[t]
    BY DEF Begin, TypeOK
  <2>4. Views' = [t \in TxnId |-> IF status'[t] = "Unborn" THEN [k \in Keys |-> NoTxn]
                                  ELSE DatabaseAt(snapshot'[t])]
    BY <2>1 DEF Views
  <2>5. QED
    BY <1>3, <2>2, <2>3, <2>4 DEF Views
<1>6. QED
  BY <1>3, <1>4, <1>5 DEF Begin, SI!Begin

\* read changes neither database nor views.
LEMMA ReadMaps ==
    ASSUME IInv, NEW txn \in TxnId, NEW key \in Keys, Read(txn, key)
    PROVE  SI!Read(txn, key)
<1>1. data' = data /\ snapshot' = snapshot /\ timestamp' = timestamp /\ status' = status
  BY DEF Read
<1>2. \A ts : DatabaseAt(ts)' = DatabaseAt(ts)
  BY <1>1 DEF DatabaseAt, VisibleVersion, NewestAt, VersionsAt
<1>3. DatabaseAt(timestamp)' = DatabaseAt(timestamp)
  BY <1>1 DEF DatabaseAt, VisibleVersion, NewestAt, VersionsAt
<1>4. Views' = Views
  BY <1>1, <1>2 DEF Views
<1>5. Views[txn][key] = VisibleVersion(key, snapshot[txn])
  BY DEF Views, DatabaseAt, Read
<1>6. QED
  BY <1>3, <1>4, <1>5 DEF Read, SI!Read

\* write adds to the writes of one transaction.
LEMMA WriteMaps ==
    ASSUME IInv, NEW txn \in TxnId, NEW key \in Keys, Write(txn, key)
    PROVE  SI!Write(txn, key)
<1> USE DEF IInv
<1>1. \A k \in Keys : data'[k] = IF k = key THEN data[k] \cup {PendingBy(txn)} ELSE data[k]
  BY WriteData
<1>2. snapshot' = snapshot /\ timestamp' = timestamp /\ status' = status /\ obs' = obs
  BY DEF Write
<1>3. PendingBy(txn).ts = Pending
  BY DEF PendingBy
<1>4. ASSUME NEW k \in Keys, NEW ts PROVE VersionsAt(k, ts)' = VersionsAt(k, ts)
  BY <1>1, <1>3 DEF VersionsAt
<1>5. DatabaseAt(timestamp)' = DatabaseAt(timestamp)
  <2>1. ASSUME NEW k \in Keys
        PROVE  VisibleVersion(k, timestamp)' = VisibleVersion(k, timestamp)
    <3>1. VersionsAt(k, timestamp)' = VersionsAt(k, timestamp)
      BY <1>1, <1>2, <1>3 DEF VersionsAt
    <3>2. QED
      BY <3>1 DEF VisibleVersion, NewestAt
  <2>2. QED
    BY <2>1 DEF DatabaseAt
<1>6. Views' = Views
  <2>1. ASSUME NEW t \in TxnId, NEW k \in Keys
        PROVE  VersionsAt(k, snapshot[t])' = VersionsAt(k, snapshot[t])
    BY <1>1, <1>2, <1>3 DEF VersionsAt
  <2>2. QED
    BY <1>2, <2>1, ViewsSame
<1>7. ASSUME NEW u \in TxnId \ {txn}, status[u] = "Active", key \in writeSet[u] PROVE FALSE
  <2>1. PendingBy(u) \in data[key] /\ PendingBy(u).writer = u /\ PendingBy(u).ts = Pending
    BY <1>7 DEF WritesPending, PendingBy
  <2>2. writeLock[key] = u
    BY <2>1 DEF LockGuardsPending, PendingLocked
  <2>3. QED
    BY <1>7, <2>2, BoundsAssumption DEF Write
<1>8. QED
  BY <1>2, <1>5, <1>6, <1>7 DEF Write, SI!Write

\* abort, and a refused commit, drop the writes and nothing else.
LEMMA AbortMaps ==
    ASSUME IInv, NEW txn \in TxnId, CommitFails(txn) \/ Abort(txn)
    PROVE  SI!Abort(txn)
<1> USE DEF IInv
<1>1. \A k \in Keys : data'[k] = {v \in data[k] : v.writer # txn}
  BY DropData DEF CommitFails, Abort
<1>2. /\ status[txn] = "Active" /\ status' = [status EXCEPT ![txn] = "Aborted"]
      /\ UNCHANGED <<timestamp, snapshot, writeSet, obs>>
  BY DEF CommitFails, Abort
<1>3. \A k \in Keys : \A v \in data[k] : v.writer = txn => v.ts = Pending
  BY <1>2 DEF LockGuardsPending, PendingLocked
<1>4. DatabaseAt(timestamp)' = DatabaseAt(timestamp)
  <2>1. ASSUME NEW k \in Keys
        PROVE  VisibleVersion(k, timestamp)' = VisibleVersion(k, timestamp)
    <3>1. VersionsAt(k, timestamp)' = VersionsAt(k, timestamp)
      BY <1>1, <1>2, <1>3 DEF VersionsAt
    <3>2. QED
      BY <3>1 DEF VisibleVersion, NewestAt
  <2>2. QED
    BY <2>1 DEF DatabaseAt
<1>5. Views' = Views
  <2>1. ASSUME NEW t \in TxnId, NEW k \in Keys
        PROVE  VersionsAt(k, snapshot[t])' = VersionsAt(k, snapshot[t])
    BY <1>1, <1>2, <1>3 DEF VersionsAt
  <2>2. \A t \in TxnId : status'[t] = "Unborn" <=> status[t] = "Unborn"
    BY <1>2 DEF TypeOK
  <2>3. QED
    BY <1>2, <2>1, <2>2, ViewsSame
<1>6. QED
  BY <1>2, <1>4, <1>5 DEF SI!Abort

\* commit installs the writes; the views of others stay.
LEMMA CommitMaps == ASSUME IInv, NEW txn \in TxnId, Commit(txn) PROVE SI!Commit(txn)
<1> DEFINE new == [writer |-> txn, ts |-> timestamp]
<1> USE DEF IInv
<1>1. \A k \in Keys : data'[k] = {v \in data[k] : v.writer # txn}
                          \cup (IF k \in writeSet[txn] THEN {new} ELSE {})
  BY CommitData
<1>2. /\ status[txn] = "Active" /\ status' = [status EXCEPT ![txn] = "Committed"]
      /\ UNCHANGED <<snapshot, writeSet, obs>>
  BY DEF Commit
<1>3. new.writer = txn /\ new.ts = timestamp
  OBVIOUS
<1>4. timestamp \in Nat /\ timestamp < Pending /\ timestamp' = timestamp + 1
  BY TickType DEF Commit, Tick, Timestamp
<1> HIDE DEF new
<1>5. ASSUME NEW k \in Keys, NEW v \in data[k]
      PROVE  /\ v.writer = txn => v.ts = Pending
             /\ v.ts \in Nat /\ (v.ts = Pending \/ v.ts < timestamp)
  BY <1>2 DEF LockGuardsPending, PendingLocked, ClockAhead, TypeOK, Version, Timestamp
<1>6. DatabaseAt(timestamp)' = [k \in Keys |-> IF k \in writeSet[txn] THEN txn
                                              ELSE DatabaseAt(timestamp)[k]]
  <2>1. ASSUME NEW k \in Keys, k \notin writeSet[txn]
        PROVE  VisibleVersion(k, timestamp)' = VisibleVersion(k, timestamp)
    <3>1. VersionsAt(k, timestamp)' = VersionsAt(k, timestamp)
      BY <1>1, <1>4, <1>5, <2>1 DEF VersionsAt
    <3>2. QED
      BY <3>1 DEF VisibleVersion, NewestAt
  <2>2. ASSUME NEW k \in Keys, k \in writeSet[txn]
        PROVE  VisibleVersion(k, timestamp)' = txn
    <3>1. VersionsAt(k, timestamp)' = VersionsAt(k, timestamp) \cup {new}
      BY <1>1, <1>3, <1>4, <1>5, <2>2 DEF VersionsAt
    <3>2. \A v \in VersionsAt(k, timestamp) : v.ts \in Nat /\ v.ts < timestamp
      BY <1>5 DEF VersionsAt
    <3>3. NewestAt(k, timestamp)' = {new}
      BY <1>3, <1>4, <3>1, <3>2 DEF NewestAt
    <3>4. QED
      BY <1>3, <3>3 DEF VisibleVersion
  <2>3. QED
    BY <2>1, <2>2 DEF DatabaseAt
<1>7. Views' = Views
  <2>1. ASSUME NEW t \in TxnId, NEW k \in Keys
        PROVE  VersionsAt(k, snapshot[t])' = VersionsAt(k, snapshot[t])
    <3>1. snapshot[t] \in Nat /\ snapshot[t] < timestamp
      BY DEF TypeOK, ClockAhead, Timestamp
    <3>2. ~(new.ts <= snapshot[t])
      BY <1>3, <1>4, <3>1
    <3>3. QED
      BY <1>1, <1>2, <1>5, <3>2 DEF VersionsAt
  <2>2. \A t \in TxnId : status'[t] = "Unborn" <=> status[t] = "Unborn"
    BY <1>2 DEF TypeOK
  <2>3. QED
    BY <1>2, <2>1, <2>2, ViewsSame
<1>8. QED
  BY <1>2, <1>6, <1>7 DEF SI!Commit

\* The store implements snapshot isolation: what clients see of it is what
\* atomic copies of the database with write exclusion would show them.
THEOREM Implements == Spec => ImplementsSnapshots
<1>1. IInv /\ [Next]_vars => [SI!Next]_(SI!vars)
  <2> SUFFICES ASSUME IInv, [Next]_vars PROVE [SI!Next]_(SI!vars)
    OBVIOUS
  <2>1. CASE Begin
    <3>1. nextTxn \in TxnId
      BY <2>1 DEF Begin
    <3>2. QED
      BY <2>1, <3>1, BeginMaps DEF SI!Next
  <2>2. ASSUME NEW txn \in TxnId, NEW key \in Keys, Read(txn, key)
        PROVE  SI!Next
    BY <2>2, ReadMaps DEF SI!Next
  <2>3. ASSUME NEW txn \in TxnId, NEW key \in Keys, Write(txn, key)
        PROVE  SI!Next
    BY <2>3, WriteMaps DEF SI!Next
  <2>4. ASSUME NEW txn \in TxnId, Commit(txn) PROVE SI!Next
    BY <2>4, CommitMaps DEF SI!Next
  <2>5. ASSUME NEW txn \in TxnId, CommitFails(txn) \/ Abort(txn) PROVE SI!Next
    BY <2>5, AbortMaps DEF SI!Next
  <2>6. CASE UNCHANGED vars
    <3>1. DatabaseAt(timestamp)' = DatabaseAt(timestamp)
      BY <2>6 DEF vars, DatabaseAt, VisibleVersion, NewestAt, VersionsAt
    <3>2. Views' = Views
      <4>1. \A ts : DatabaseAt(ts)' = DatabaseAt(ts)
        BY <2>6 DEF vars, DatabaseAt, VisibleVersion, NewestAt, VersionsAt
      <4>2. QED
        BY <2>6, <4>1 DEF vars, txnVars, Views
    <3>3. QED
      BY <2>6, <3>1, <3>2 DEF vars, txnVars, SI!vars
  <2>7. QED
    BY <2>1, <2>2, <2>3, <2>4, <2>5, <2>6 DEF Next
<1>2. QED
  BY <1>1, InitMaps, Invariant, PTL DEF Spec, ImplementsSnapshots, SI!Spec

-----------------------------------------------------------------------------
(* What retain and sort_by make of a list.                                   *)

\* Induction over the numbers for a set of them: the length of a Vec.
LEMMA SetInduction ==
    ASSUME NEW S, 0 \in S, \A n \in Nat : n \in S => n + 1 \in S
    PROVE  Nat \subseteq S
<1> DEFINE R == OpToRel(<, Nat)
<1>1. IsWellFoundedOn(R, Nat)
  BY NatLessThanWellFounded
<1>2. \A m, n \in Nat : m < n => <<m, n>> \in R
  BY DEF OpToRel
<1> HIDE DEF R
<1>3. SUFFICES ASSUME Nat \ S # {} PROVE FALSE
  OBVIOUS
<1>4. PICK n \in Nat \ S : \A m \in Nat \ S : <<m, n>> \notin R
  BY <1>1, <1>3, WFMin
<1>5. n # 0 /\ n - 1 \in Nat
  BY <1>4
<1>6. n - 1 \notin S
  BY <1>4, <1>5
<1>7. n - 1 < n /\ n \in Nat
  BY <1>4, <1>5
<1>8. QED
  BY <1>2, <1>4, <1>5, <1>6, <1>7, Zenon

\* The front-to-back search of visible_version stops at a first entry.
LEMMA LeastElement ==
    ASSUME NEW S, S \subseteq Nat, S # {}
    PROVE  Min(S) \in S /\ \A n \in S : Min(S) <= n
<1> DEFINE R == OpToRel(<, Nat)
<1>1. IsWellFoundedOn(R, Nat)
  BY NatLessThanWellFounded
<1>2. \A m, n \in Nat : m < n => <<m, n>> \in R
  BY DEF OpToRel
<1> HIDE DEF R
<1>3. PICK n \in S : \A m \in S : <<m, n>> \notin R
  BY <1>1, WFMin
<1>4. \A m \in S : ~(m < n) /\ m \in Nat /\ n \in Nat
  BY <1>2, <1>3, Zenon
<1>5. n \in S /\ \A m \in S : n <= m
  BY <1>4
<1>6. QED
  BY <1>5 DEF Min

\* A list of positions in the order of the Vec, as retain visits them.
Increasing(f, n) == \A i, j \in 1 .. n : i < j => f[i] < f[j]

\* Any positions of a Vec can be listed in order: what Retain picks exists.
LEMMA OrderExists ==
    ASSUME NEW n \in Nat, NEW kept, kept \subseteq 1 .. n
    PROVE  /\ IsFiniteSet(kept) /\ Cardinality(kept) \in Nat
           /\ \E f \in [1 .. Cardinality(kept) -> kept] : Increasing(f, Cardinality(kept))
<1> DEFINE Ordered(s) == \E f \in [1 .. Cardinality(s) -> s] : Increasing(f, Cardinality(s))
           S == {m \in Nat : \A s \in SUBSET (1 .. m) : Ordered(s)}
<1>1. \A m \in Nat : \A s \in SUBSET (1 .. m) : IsFiniteSet(s) /\ Cardinality(s) \in Nat
  <2> TAKE m \in Nat
  <2>1. IsFiniteSet(1 .. m)
    BY FS_Interval
  <2> TAKE s \in SUBSET (1 .. m)
  <2>2. IsFiniteSet(s)
    BY <2>1, FS_Subset
  <2>3. QED
    BY <2>2, FS_CardinalityType
<1>2. 0 \in S
  <2>1. ASSUME NEW s \in SUBSET (1 .. 0) PROVE Ordered(s)
    <3>1. s = {}
      OBVIOUS
    <3>2. Cardinality(s) = 0
      BY <3>1, FS_EmptySet
    <3>3. [i \in 1 .. 0 |-> 0] \in [1 .. 0 -> {}]
      OBVIOUS
    <3>4. QED
      BY <3>1, <3>2, <3>3 DEF Increasing
  <2>2. QED
    BY <2>1
<1>3. ASSUME NEW m \in Nat, m \in S PROVE m + 1 \in S
  <2>1. ASSUME NEW s \in SUBSET (1 .. m + 1) PROVE Ordered(s)
    <3>1. CASE m + 1 \notin s
      <4>1. s \in SUBSET (1 .. m)
        BY <3>1
      <4>2. QED
        BY <1>3, <4>1
    <3>2. CASE m + 1 \in s
      <4> DEFINE r == s \ {m + 1}
                 c == Cardinality(r)
      <4>1. r \in SUBSET (1 .. m)
        OBVIOUS
      <4>2. IsFiniteSet(r) /\ c \in Nat
        BY <1>1, <4>1
      <4>3. s = r \cup {m + 1} /\ m + 1 \notin r
        BY <3>2
      <4>4. Cardinality(s) = c + 1
        BY <4>2, <4>3, FS_AddElement
      <4>5. PICK f \in [1 .. c -> r] : Increasing(f, c)
        BY <1>3, <4>1
      <4> DEFINE g == [i \in 1 .. c + 1 |-> IF i = c + 1 THEN m + 1 ELSE f[i]]
      <4> HIDE DEF c, r
      <4>6. \A i \in 1 .. c + 1 : i # c + 1 => i \in 1 .. c /\ f[i] \in r /\ f[i] \in 1 .. m
        <5> TAKE i \in 1 .. c + 1
        <5> HAVE i # c + 1
        <5>1. i \in 1 .. c
          BY <4>2
        <5>2. f[i] \in r
          BY <4>5, <5>1
        <5>3. QED
          BY <4>1, <5>1, <5>2
      <4>7. g \in [1 .. c + 1 -> s]
        BY <4>2, <4>3, <4>6
      <4>8. Increasing(g, c + 1)
        <5> SUFFICES ASSUME NEW i \in 1 .. c + 1, NEW j \in 1 .. c + 1, i < j PROVE g[i] < g[j]
          BY DEF Increasing
        <5>1. i # c + 1
          BY <4>2
        <5>2. CASE j = c + 1
          BY <4>2, <4>6, <5>1, <5>2
        <5>3. CASE j # c + 1
          <6>1. f[i] < f[j]
            BY <4>5, <4>6, <5>1, <5>3 DEF Increasing
          <6>2. QED
            BY <5>1, <5>3, <6>1
        <5>4. QED
          BY <5>2, <5>3
      <4>9. QED
        BY <4>4, <4>7, <4>8
    <3>3. QED
      BY <3>1, <3>2
  <2> HIDE DEF Ordered
  <2>2. QED
    BY <2>1
<1>4. Nat \subseteq S
  <2> HIDE DEF S
  <2>1. QED
    BY <1>2, <1>3, SetInduction
<1>5. Ordered(kept)
  BY <1>4
<1>6. QED
  BY <1>1, <1>5

\* A sort that puts no entry in two places puts every entry somewhere.
LEMMA Permutes ==
    ASSUME NEW D, IsFiniteSet(D), NEW f \in [D -> D],
           \A i, j \in D : f[i] = f[j] => i = j
    PROVE  \A p \in D : \E i \in D : f[i] = p
<1>1. f \in Injection(D, D)
  BY DEF Injection, IsInjective
<1>2. f \in Surjection(D, D)
  BY <1>1, FS_Injection
<1>3. QED
  BY <1>2 DEF Surjection

\* Vec::retain keeps the entries it is told to, each once, in their order.
LEMMA RetainKeeps ==
    ASSUME NEW T, NEW versions \in Seq(T), NEW kept, kept \subseteq DOMAIN versions
    PROVE  LET r == Retain(versions, kept)
           IN  /\ r \in Seq(T)
               /\ \E f \in [DOMAIN r -> kept] :
                     /\ \A i, j \in DOMAIN r : i < j => f[i] < f[j]
                     /\ \A p \in kept : \E i \in DOMAIN r : f[i] = p
                     /\ \A i \in DOMAIN r : r[i] = versions[f[i]]
<1> DEFINE n == Cardinality(kept)
           r == Retain(versions, kept)
<1>1. Len(versions) \in Nat /\ kept \subseteq 1 .. Len(versions)
  OBVIOUS
<1>2. /\ IsFiniteSet(kept) /\ n \in Nat
      /\ \E f \in [1 .. n -> kept] : Increasing(f, n)
  BY <1>1, OrderExists
<1>3. PICK f \in [1 .. n -> kept] : Increasing(f, n) /\ r = [i \in 1 .. n |-> versions[f[i]]]
  BY <1>2 DEF Retain, Increasing
<1>4. n = Cardinality(kept)
  OBVIOUS
<1> HIDE DEF n, r
<1>5. /\ r \in Seq(T) /\ DOMAIN r = 1 .. n
      /\ \A i \in 1 .. n : r[i] = versions[f[i]]
  BY <1>1, <1>2, <1>3
<1>6. ASSUME NEW i \in 1 .. n, NEW j \in 1 .. n, f[i] = f[j] PROVE i = j
  <2>1. f[i] \in 1 .. Len(versions)
    BY <1>1, <1>3
  <2>2. ~(f[i] < f[j]) /\ ~(f[j] < f[i])
    BY <1>1, <1>6, <2>1
  <2>3. ~(i < j) /\ ~(j < i)
    BY <1>3, <2>2 DEF Increasing
  <2>4. QED
    BY <1>2, <2>3
<1>7. \A p \in kept : \E i \in 1 .. n : f[i] = p
  <2>1. \A i, j \in 1 .. n : f[i] = f[j] => i = j
    BY <1>6
  <2>2. QED
    <3>1. f \in Injection(1 .. n, kept)
      BY <1>3, <2>1 DEF Injection, IsInjective
    <3>2. Cardinality(1 .. n) = n /\ IsFiniteSet(1 .. n)
      BY <1>2, FS_Interval
    <3>3. f \in Surjection(1 .. n, kept)
      BY <1>2, <1>4, <3>1, <3>2, FS_Injection
    <3>4. QED
      BY <3>3 DEF Surjection
<1>8. QED
  BY <1>3, <1>5, <1>7 DEF Increasing, r

\* sort_by of commit permutes the entries; a list in order allows one.
LEMMA SortKeeps ==
    ASSUME NEW T, NEW versions \in Seq(T),
           \A i \in DOMAIN versions : versions[i].ts \in Nat,
           \A i, j \in DOMAIN versions : i < j => Newer(versions, i, j)
    PROVE  LET r == NewestFirst(versions)
           IN  /\ r \in Seq(T) /\ DOMAIN r = DOMAIN versions
               /\ \E f \in [DOMAIN r -> DOMAIN versions] :
                     /\ \A i, j \in DOMAIN r : i < j => Newer(versions, f[i], f[j])
                     /\ \A i, j \in DOMAIN r : f[i] = f[j] => i = j
                     /\ \A p \in DOMAIN versions : \E i \in DOMAIN r : f[i] = p
                     /\ \A i \in DOMAIN r : r[i] = versions[f[i]]
<1> DEFINE D == DOMAIN versions
           Arranges(f) == \A i, j \in D : i < j => Newer(versions, f[i], f[j])
           r == NewestFirst(versions)
<1>1. [i \in D |-> i] \in [D -> D] /\ Arranges([i \in D |-> i])
  OBVIOUS
<1>2. PICK f \in [D -> D] : Arranges(f) /\ r = [i \in D |-> versions[f[i]]]
  BY <1>1 DEF NewestFirst
<1>3. /\ D = 1 .. Len(versions) /\ Len(versions) \in Nat
      /\ IsFiniteSet(D) /\ Cardinality(D) = Len(versions)
  <2>1. D = 1 .. Len(versions) /\ Len(versions) \in Nat
    OBVIOUS
  <2>2. IsFiniteSet(1 .. Len(versions)) /\ Cardinality(1 .. Len(versions)) = Len(versions)
    <3>1. 1 \in Int /\ Len(versions) \in Int /\ ~(1 > Len(versions) /\ Len(versions) # 0)
      BY <2>1
    <3>2. Cardinality(1 .. Len(versions)) =
            (IF 1 > Len(versions) THEN 0 ELSE Len(versions) - 1 + 1)
      BY <3>1, FS_Interval, Zenon
    <3>3. IsFiniteSet(1 .. Len(versions))
      BY <3>1, FS_Interval, Zenon
    <3>4. QED
      BY <2>1, <3>2, <3>3
  <2>3. QED
    BY <2>1, <2>2
<1> HIDE DEF r
<1>4. r \in Seq(T) /\ DOMAIN r = D /\ \A i \in D : r[i] = versions[f[i]]
  <2> HIDE DEF D
  <2>1. QED
    BY <1>2, <1>3
<1>5. ASSUME NEW i \in D, NEW j \in D, f[i] = f[j] PROVE i = j
  <2>1. f[i] \in D /\ versions[f[i]].ts \in Nat /\ f[i] \in Nat
    BY <1>2, <1>3
  <2>2. ~Newer(versions, f[i], f[j]) /\ ~Newer(versions, f[j], f[i])
    BY <1>5, <2>1 DEF Newer
  <2>3. ~(i < j) /\ ~(j < i)
    BY <1>2, <2>2
  <2>4. QED
    BY <1>3, <2>3
<1>6. \A p \in D : \E i \in D : f[i] = p
  <2> HIDE DEF D
  <2>1. \A i, j \in D : f[i] = f[j] => i = j
    BY <1>5
  <2>2. f \in [D -> D] /\ IsFiniteSet(D)
    BY <1>2, <1>3
  <2>3. QED
    BY <2>1, <2>2, Permutes, Zenon
<1>7. f \in [DOMAIN r -> D]
  BY <1>2, <1>4
<1>8. QED
  <2>1. \E g \in [DOMAIN r -> D] :
           /\ \A i, j \in DOMAIN r : i < j => Newer(versions, g[i], g[j])
           /\ \A i, j \in DOMAIN r : g[i] = g[j] => i = j
           /\ \A p \in D : \E i \in DOMAIN r : g[i] = p
           /\ \A i \in DOMAIN r : r[i] = versions[g[i]]
    <3> HIDE DEF D
    <3>1. QED
      BY <1>2, <1>4, <1>5, <1>6, <1>7
  <2>2. QED
    BY <1>4, <2>1 DEF r

-----------------------------------------------------------------------------
(* The version lists.                                                        *)

\* Newest first, a pending entry before all others, no timestamp twice.
Descending(l) == \A i, j \in DOMAIN l : i < j => l[i].ts > l[j].ts

\* A list holds the entries of another at these positions and nothing else.
Holds(r, l, kept) ==
    /\ \A i \in DOMAIN r : \E p \in kept : r[i] = l[p]
    /\ \A p \in kept : \E i \in DOMAIN r : r[i] = l[p]

\* retain leaves a list in order.
LEMMA RetainOrdered ==
    ASSUME NEW l \in Seq(Entry), Descending(l), NEW kept, kept \subseteq DOMAIN l
    PROVE  LET r == Retain(l, kept)
           IN  r \in Seq(Entry) /\ Descending(r) /\ Holds(r, l, kept)
<1> DEFINE r == Retain(l, kept)
<1>1. /\ r \in Seq(Entry)
      /\ \E f \in [DOMAIN r -> kept] :
            /\ \A i, j \in DOMAIN r : i < j => f[i] < f[j]
            /\ \A p \in kept : \E i \in DOMAIN r : f[i] = p
            /\ \A i \in DOMAIN r : r[i] = l[f[i]]
  BY RetainKeeps, SMTT(60)
<1> HIDE DEF r
<1>2. PICK f \in [DOMAIN r -> kept] :
             /\ \A i, j \in DOMAIN r : i < j => f[i] < f[j]
             /\ \A p \in kept : \E i \in DOMAIN r : f[i] = p
             /\ \A i \in DOMAIN r : r[i] = l[f[i]]
  BY <1>1
<1>3. Descending(r)
  BY <1>2 DEF Descending
<1>4. Holds(r, l, kept)
  BY <1>2 DEF Holds
<1>5. QED
  BY <1>1, <1>3, <1>4 DEF r

\* sort_by puts the newest first and loses no entry.
LEMMA SortOrdered ==
    ASSUME NEW l \in Seq(Entry), Descending(l)
    PROVE  LET r == NewestFirst(l)
           IN  r \in Seq(Entry) /\ Descending(r) /\ Holds(r, l, DOMAIN l)
<1> DEFINE r == NewestFirst(l)
<1>1. \A i \in DOMAIN l : l[i] \in Entry
  OBVIOUS
<1>2. \A i \in DOMAIN l : l[i].ts \in Nat
  BY <1>1 DEF Entry, Timestamp
<1>3. \A i, j \in DOMAIN l : i < j => Newer(l, i, j)
  BY DEF Newer, Descending
<1>4. r \in Seq(Entry) /\ DOMAIN r = DOMAIN l
  BY <1>2, <1>3, SortKeeps
<1>5. PICK f \in [DOMAIN r -> DOMAIN l] :
             /\ \A i, j \in DOMAIN r : i < j => Newer(l, f[i], f[j])
             /\ \A i, j \in DOMAIN r : f[i] = f[j] => i = j
             /\ \A p \in DOMAIN l : \E i \in DOMAIN r : f[i] = p
             /\ \A i \in DOMAIN r : r[i] = l[f[i]]
  BY <1>2, <1>3, SortKeeps
<1> HIDE DEF r
<1>6. Descending(r)
  <2> SUFFICES ASSUME NEW i \in DOMAIN r, NEW j \in DOMAIN r, i < j PROVE r[i].ts > r[j].ts
    BY DEF Descending
  <2>1. Newer(l, f[i], f[j]) /\ f[i] \in DOMAIN l /\ f[j] \in DOMAIN l
    BY <1>5
  <2>2. i # j /\ f[i] # f[j]
    BY <1>4, <1>5
  <2>3. l[f[i]].ts # l[f[j]].ts
    BY <1>2, <2>1, <2>2 DEF Descending
  <2>4. QED
    BY <1>5, <2>1, <2>3 DEF Newer
<1>7. Holds(r, l, DOMAIN l)
  BY <1>5 DEF Holds
<1>8. QED
  BY <1>4, <1>6, <1>7 DEF r

\* The list of a key represents its versions: each is there, and nothing else.
Represents(l, versions) ==
    /\ \A i \in DOMAIN l : [writer |-> l[i].writer, ts |-> l[i].ts] \in versions
    /\ \A v \in versions : \E i \in DOMAIN l : l[i].writer = v.writer /\ l[i].ts = v.ts

\* The Vec of a key: well typed, newest first, each version with the value its
\* writer wrote last.
Listed(k, l, versions, last) ==
    /\ l \in Seq(Entry)
    /\ Represents(l, versions)
    /\ Descending(l)
    /\ \A i \in DOMAIN l : /\ k \in DOMAIN last[l[i].writer]
                           /\ l[i].value = last[l[i].writer][k]

\* The inductive invariant of the lists: they represent the store's versions in
\* the order the scan relies on, with the values last written.
ListInv ==
    /\ list = [k \in Keys |-> list[k]]
    /\ lastWrite = [t \in TxnId |-> lastWrite[t]]
    /\ \A k \in Keys : Listed(k, list[k], data[k], lastWrite)

\* What the store's invariant says of the entries of a list.
LEMMA EntryFacts ==
    ASSUME IInv, ListInv, NEW k \in Keys, NEW i \in DOMAIN list[k]
    PROVE  /\ list[k][i].writer \in TxnId /\ list[k][i].ts \in Nat
           /\ list[k][i].ts = Pending <=> status[list[k][i].writer] = "Active"
           /\ list[k][i].ts = Pending => writeLock[k] = list[k][i].writer
           /\ list[k][i].ts = Pending \/ list[k][i].ts < timestamp
           /\ list[k][i].ts <= Pending
           /\ k \in writeSet[list[k][i].writer]
           /\ snapshot[list[k][i].writer] \in Nat
           /\ timestamp \in Nat /\ timestamp < Pending /\ Pending \in Nat
<1> DEFINE v == [writer |-> list[k][i].writer, ts |-> list[k][i].ts]
<1>1. v \in data[k]
  BY DEF ListInv, Listed, Represents
<1>2. v.writer = list[k][i].writer /\ v.ts = list[k][i].ts
  OBVIOUS
<1> HIDE DEF v
<1>3. v.writer \in TxnId /\ v.ts \in Timestamp /\ timestamp \in 1 .. MaxTimestamp - 1
      /\ snapshot[v.writer] \in Timestamp
  BY <1>1 DEF IInv, TypeOK, Version
<1>4. /\ v.ts = Pending <=> status[v.writer] = "Active"
      /\ v.ts = Pending => writeLock[k] = v.writer
      /\ v.ts = Pending \/ v.ts < timestamp
      /\ k \in writeSet[v.writer]
  BY <1>1 DEF IInv, LockGuardsPending, PendingLocked, ClockAhead, WritesPending
<1>5. QED
  <2>1. /\ v.writer \in TxnId /\ v.ts \in Nat /\ v.ts <= Pending
        /\ timestamp \in Nat /\ timestamp < Pending /\ Pending \in Nat
        /\ snapshot[v.writer] \in Nat
    BY <1>3, BoundsAssumption DEF Timestamp, Pending
  <2>2. QED
    BY <1>2, <1>4, <2>1

\* write: the pending entry in front of those retained.
LEMMA WriteListed ==
    ASSUME IInv, ListInv, NEW txn \in TxnId, NEW key \in Keys, NEW value \in Values,
           ListWrite(txn, key, value)
    PROVE  ListInv'
<1> DEFINE l == list[key]
           e == [value |-> value, writer |-> txn, ts |-> Pending]
           kept == {i \in DOMAIN l : ~(l[i].writer = txn /\ l[i].ts = Pending)}
           r == Retain(l, kept)
           longer == <<e>> \o r
<1>1. /\ Write(txn, key) /\ status[txn] = "Active" /\ writeLock[key] \in {NoTxn, txn}
      /\ list' = [list EXCEPT ![key] = longer]
      /\ lastWrite' = [lastWrite EXCEPT ![txn] = Recorded(lastWrite[txn], key, value)]
  BY DEF ListWrite, RetainOthers, Write
<1>2. \A k \in Keys : data'[k] = IF k = key THEN data[k] \cup {PendingBy(txn)} ELSE data[k]
  BY <1>1, WriteData
<1>3. l \in Seq(Entry) /\ Descending(l)
  BY DEF ListInv, Listed
<1>4. r \in Seq(Entry) /\ Descending(r) /\ Holds(r, l, kept)
  BY <1>3, RetainOrdered
<1>5. \A p \in DOMAIN l : /\ l[p].writer \in TxnId
                          /\ p \in kept <=> l[p].writer # txn
                          /\ p \in kept => l[p].ts < Pending /\ l[p].ts \in Nat
                          /\ p \notin kept => l[p].ts = Pending
  <2> TAKE p \in DOMAIN l
  <2>1. /\ l[p].writer \in TxnId /\ l[p].ts \in Nat
        /\ l[p].ts = Pending <=> status[l[p].writer] = "Active"
        /\ l[p].ts = Pending => writeLock[key] = l[p].writer
        /\ l[p].ts <= Pending
        /\ Pending \in Nat
    BY EntryFacts
  <2>2. QED
    BY <1>1, <2>1, BoundsAssumption
<1>6. e \in Entry /\ e.ts = Pending /\ e.writer = txn /\ e.value = value
  BY BoundsAssumption DEF Entry, Timestamp, Pending
<1> HIDE DEF l, e, kept, r
<1>7. /\ longer \in Seq(Entry) /\ longer[1] = e
      /\ \A i \in DOMAIN longer : i # 1 => i - 1 \in DOMAIN r /\ longer[i] = r[i - 1]
      /\ \A i \in DOMAIN r : i + 1 \in DOMAIN longer /\ longer[i + 1] = r[i]
      /\ 1 \in DOMAIN longer
  <2>1. <<e>> \in Seq(Entry) /\ Len(<<e>>) = 1 /\ <<e>>[1] = e
    BY <1>6
  <2>2. /\ longer \in Seq(Entry) /\ Len(longer) = 1 + Len(r)
        /\ \A i \in 1 .. 1 + Len(r) : longer[i] = IF i <= 1 THEN <<e>>[i] ELSE r[i - 1]
    BY <1>4, <2>1, ConcatProperties
  <2>3. Len(r) \in Nat /\ DOMAIN r = 1 .. Len(r) /\ DOMAIN longer = 1 .. 1 + Len(r)
    BY <1>4, <2>2
  <2> HIDE DEF longer
  <2>4. QED
    BY <2>1, <2>2, <2>3
<1> HIDE DEF longer
<1>8. \A i \in DOMAIN r : \E p \in kept : r[i] = l[p] /\ p \in DOMAIN l
  BY <1>4 DEF Holds, kept
<1>9. Descending(longer)
  <2> SUFFICES ASSUME NEW i \in DOMAIN longer, NEW j \in DOMAIN longer, i < j
               PROVE  longer[i].ts > longer[j].ts
    BY DEF Descending
  <2>1. i \in Nat /\ j \in Nat /\ j # 1 /\ j - 1 \in DOMAIN r /\ longer[j] = r[j - 1]
    BY <1>7
  <2>2. CASE i = 1
    BY <1>5, <1>6, <1>7, <1>8, <2>1, <2>2
  <2>3. CASE i # 1
    <3>1. i - 1 \in DOMAIN r /\ longer[i] = r[i - 1] /\ i - 1 < j - 1
      BY <1>7, <2>1, <2>3
    <3>2. \A a, b \in DOMAIN r : a < b => r[a].ts > r[b].ts
      BY <1>4 DEF Descending
    <3>3. r[i - 1].ts > r[j - 1].ts
      BY <2>1, <3>1, <3>2
    <3>4. QED
      BY <2>1, <3>1, <3>3
  <2>4. QED
    BY <2>2, <2>3
<1>10. Represents(longer, data[key] \cup {PendingBy(txn)})
  <2>1. PendingBy(txn) = [writer |-> txn, ts |-> Pending]
    BY DEF PendingBy
  <2>2. Represents(l, data[key])
    BY DEF ListInv, Listed, l
  <2>3. ASSUME NEW i \in DOMAIN longer
        PROVE  [writer |-> longer[i].writer, ts |-> longer[i].ts] \in data[key] \cup {PendingBy(txn)}
    <3>1. CASE i = 1
      BY <1>6, <1>7, <2>1, <3>1
    <3>2. CASE i # 1
      BY <1>7, <1>8, <2>2, <3>2 DEF Represents
    <3>3. QED
      BY <3>1, <3>2
  <2>4. ASSUME NEW v \in data[key] \cup {PendingBy(txn)}
        PROVE  \E i \in DOMAIN longer : longer[i].writer = v.writer /\ longer[i].ts = v.ts
    <3>1. CASE v = PendingBy(txn)
      BY <1>6, <1>7, <2>1, <3>1
    <3>2. CASE v \in data[key]
      <4>1. PICK p \in DOMAIN l : l[p].writer = v.writer /\ l[p].ts = v.ts
        BY <2>2, <3>2 DEF Represents
      <4>2. CASE p \in kept
        <5>1. PICK i \in DOMAIN r : r[i] = l[p]
          BY <1>4, <4>2 DEF Holds
        <5>2. QED
          BY <1>7, <4>1, <5>1
      <4>3. CASE p \notin kept
        BY <1>5, <1>6, <1>7, <4>1, <4>3
      <4>4. QED
        BY <4>2, <4>3
    <3>3. QED
      BY <3>1, <3>2
  <2>5. QED
    BY <2>3, <2>4 DEF Represents
<1>11. /\ lastWrite' = [t \in TxnId |-> lastWrite'[t]]
       /\ list' = [k \in Keys |-> list'[k]]
       /\ lastWrite'[txn] = Recorded(lastWrite[txn], key, value)
       /\ \A t \in TxnId : t # txn => lastWrite'[t] = lastWrite[t]
       /\ \A k \in Keys : list'[k] = IF k = key THEN longer ELSE list[k]
  BY <1>1 DEF ListInv
<1>12. /\ key \in DOMAIN lastWrite'[txn] /\ lastWrite'[txn][key] = value
       /\ \A k \in DOMAIN lastWrite[txn] : /\ k \in DOMAIN lastWrite'[txn]
                                           /\ k # key => lastWrite'[txn][k] = lastWrite[txn][k]
  BY <1>11 DEF Recorded
<1>13. ASSUME NEW k \in Keys PROVE Listed(k, list'[k], data'[k], lastWrite')
  <2>1. /\ Listed(k, list[k], data[k], lastWrite)
        /\ \A p \in DOMAIN l : /\ key \in DOMAIN lastWrite[l[p].writer]
                               /\ l[p].value = lastWrite[l[p].writer][key]
    BY DEF ListInv, Listed, l
  <2>2. CASE k = key
    <3>1. list'[k] = longer /\ data'[k] = data[key] \cup {PendingBy(txn)}
      BY <1>2, <1>11, <2>2
    <3>2. ASSUME NEW i \in DOMAIN longer
          PROVE  /\ k \in DOMAIN lastWrite'[longer[i].writer]
                 /\ longer[i].value = lastWrite'[longer[i].writer][k]
      <4>1. CASE i = 1
        BY <1>6, <1>7, <1>12, <2>2, <4>1
      <4>2. CASE i # 1
        <5>1. PICK p \in kept : longer[i] = l[p] /\ p \in DOMAIN l
          BY <1>7, <1>8, <4>2
        <5>2. l[p].writer \in TxnId /\ l[p].writer # txn
          BY <1>5, <5>1
        <5>3. QED
          BY <1>11, <2>1, <2>2, <5>1, <5>2
      <4>3. QED
        BY <4>1, <4>2
    <3>3. QED
      BY <1>7, <1>9, <1>10, <3>1, <3>2 DEF Listed
  <2>3. CASE k # key
    <3>1. list'[k] = list[k] /\ data'[k] = data[k]
      BY <1>2, <1>11, <2>3
    <3>2. \A i \in DOMAIN list[k] : list[k][i].writer \in TxnId
      BY EntryFacts
    <3>3. ASSUME NEW i \in DOMAIN list[k]
          PROVE  /\ k \in DOMAIN lastWrite'[list[k][i].writer]
                 /\ list[k][i].value = lastWrite'[list[k][i].writer][k]
      BY <1>11, <1>12, <2>1, <2>3, <3>2 DEF Listed
    <3>4. QED
      BY <2>1, <3>1, <3>3 DEF Listed
  <2>4. QED
    BY <2>2, <2>3
<1>14. QED
  BY <1>11, <1>13 DEF ListInv

\* The stamping loop of commit: the pending entry of the transaction is the first,
\* and with its timestamp it still is the newest.
LEMMA StampOrdered ==
    ASSUME IInv, ListInv, NEW txn \in TxnId, Commit(txn), NEW k \in Keys, k \in writeSet[txn]
    PROVE  LET l == list[k]
               s == Stamp(l, txn, timestamp)
           IN  /\ s \in Seq(Entry) /\ Descending(s) /\ DOMAIN s = DOMAIN l
               /\ \A i \in DOMAIN l :
                     /\ s[i].writer = l[i].writer /\ s[i].value = l[i].value
                     /\ s[i].ts = IF l[i].writer = txn THEN timestamp ELSE l[i].ts
<1> DEFINE l == list[k]
           s == Stamp(l, txn, timestamp)
<1>1. /\ l \in Seq(Entry) /\ Descending(l)
      /\ \A i \in DOMAIN l : l[i] \in Entry /\ l[i] = [value |-> l[i].value, writer |-> l[i].writer,
                                                        ts |-> l[i].ts]
    <2>1. l \in Seq(Entry) /\ Descending(l)
      BY DEF ListInv, Listed
    <2>2. \A i \in DOMAIN l : l[i] \in Entry
      BY <2>1
    <2>3. QED
      BY <2>1, <2>2 DEF Entry
<1>2. writeLock[k] = txn /\ status[txn] = "Active" /\ txn # NoTxn
  <2>1. PendingBy(txn) \in data[k] /\ status[txn] = "Active"
    BY DEF IInv, WritesPending, Commit
  <2>2. PendingBy(txn).writer = txn /\ PendingBy(txn).ts = Pending
    BY DEF PendingBy
  <2>3. QED
    BY <2>1, <2>2, BoundsAssumption DEF IInv, LockGuardsPending, PendingLocked
<1>3. \A i \in DOMAIN l : /\ l[i].writer = txn <=> l[i].ts = Pending
                          /\ l[i].ts = Pending \/ l[i].ts < timestamp
                          /\ l[i].ts \in Nat /\ l[i].ts <= Pending
                          /\ timestamp \in Nat /\ Pending \in Nat
  <2> TAKE i \in DOMAIN l
  <2>1. /\ l[i].ts = Pending <=> status[l[i].writer] = "Active"
        /\ l[i].ts = Pending => writeLock[k] = l[i].writer
        /\ l[i].ts = Pending \/ l[i].ts < timestamp
        /\ l[i].ts \in Nat /\ l[i].ts <= Pending
        /\ timestamp \in Nat /\ Pending \in Nat
    BY EntryFacts
  <2>2. QED
    BY <1>2, <2>1
<1>4. DOMAIN s = DOMAIN l
  BY DEF Stamp
<1>5. timestamp \in Timestamp
  BY BoundsAssumption DEF IInv, TypeOK, Timestamp
<1>6. \A i \in DOMAIN l : /\ s[i] \in Entry
                          /\ s[i].writer = l[i].writer /\ s[i].value = l[i].value
                          /\ s[i].ts = IF l[i].writer = txn THEN timestamp ELSE l[i].ts
  <2> HIDE DEF l
  <2>1. \A i \in DOMAIN l : s[i] = IF l[i].writer = txn THEN [l[i] EXCEPT !.ts = timestamp] ELSE l[i]
    BY <1>3 DEF Stamp
  <2>2. QED
    BY <1>1, <1>5, <2>1 DEF Entry
<1>7. s \in Seq(Entry)
  <2>1. PICK n \in Nat : DOMAIN l = 1 .. n
    BY <1>1
  <2> HIDE DEF s, l
  <2>2. DOMAIN s = 1 .. n /\ \A i \in 1 .. n : s[i] \in Entry
    BY <1>4, <1>6, <2>1
  <2>3. s = [i \in 1 .. n |-> s[i]]
    BY <1>4, <2>1 DEF s, Stamp
  <2>4. QED
    BY <2>2, <2>3
<1>8. Descending(s)
  <2> HIDE DEF s, l
  <2> SUFFICES ASSUME NEW i \in DOMAIN s, NEW j \in DOMAIN s, i < j
               PROVE  s[i].ts > s[j].ts
    BY DEF Descending
  <2>1. i \in DOMAIN l /\ j \in DOMAIN l /\ l[i].ts > l[j].ts
    BY <1>1, <1>4 DEF Descending
  <2>2. QED
    BY <1>3, <1>6, <2>1
<1>9. QED
  BY <1>4, <1>6, <1>7, <1>8

\* commit: stamped and sorted, every list represents the versions as committed.
LEMMA CommitListed ==
    ASSUME IInv, ListInv, NEW txn \in TxnId, ListCommit(txn)
    PROVE  ListInv'
<1>1. Commit(txn) /\ lastWrite' = lastWrite /\ status[txn] = "Active"
  BY DEF ListCommit, Commit
<1>2. ASSUME NEW k \in Keys PROVE Listed(k, list'[k], data'[k], lastWrite')
  <2> DEFINE l == list[k]
             s == Stamp(l, txn, timestamp)
             r == NewestFirst(s)
  <2>1. Listed(k, l, data[k], lastWrite)
    BY DEF ListInv
  <2>2. data'[k] = {v \in data[k] : v.writer # txn}
                     \cup (IF k \in writeSet[txn]
                           THEN {[writer |-> txn, ts |-> timestamp]} ELSE {})
    BY <1>1, CommitData
  <2>3. CASE k \in writeSet[txn]
    <3>1. list'[k] = r
      BY <2>3 DEF ListCommit
    <3>2. /\ s \in Seq(Entry) /\ Descending(s) /\ DOMAIN s = DOMAIN l
          /\ \A i \in DOMAIN l :
                /\ s[i].writer = l[i].writer /\ s[i].value = l[i].value
                /\ s[i].ts = IF l[i].writer = txn THEN timestamp ELSE l[i].ts
      BY <1>1, <2>3, StampOrdered
    <3> HIDE DEF s, l
    <3>3. r \in Seq(Entry) /\ Descending(r) /\ Holds(r, s, DOMAIN s)
      BY <3>2, SortOrdered
    <3> HIDE DEF r
    <3>4. /\ \A i \in DOMAIN r : \E p \in DOMAIN l : r[i] = s[p]
          /\ \A p \in DOMAIN l : \E i \in DOMAIN r : r[i] = s[p]
      BY <3>2, <3>3 DEF Holds
    <3>5. PendingBy(txn) \in data[k]
      BY <1>1, <2>3 DEF IInv, WritesPending
    <3>6. Represents(r, data'[k])
      <4>1. ASSUME NEW i \in DOMAIN r PROVE [writer |-> r[i].writer, ts |-> r[i].ts] \in data'[k]
        <5>1. PICK p \in DOMAIN l : r[i] = s[p]
          BY <3>4
        <5>2. [writer |-> l[p].writer, ts |-> l[p].ts] \in data[k]
          BY <2>1 DEF Listed, Represents
        <5>3. QED
          BY <2>2, <2>3, <3>2, <5>1, <5>2
      <4>2. ASSUME NEW v \in data'[k]
            PROVE  \E i \in DOMAIN r : r[i].writer = v.writer /\ r[i].ts = v.ts
        <5>1. PICK w \in data[k] : /\ w.writer = v.writer
                                   /\ v.ts = IF v.writer = txn THEN timestamp ELSE w.ts
          <6>1. CASE v \in data[k] /\ v.writer # txn
            BY <6>1
          <6>2. CASE v = [writer |-> txn, ts |-> timestamp]
            <7>1. PendingBy(txn).writer = txn
              BY DEF PendingBy
            <7>2. QED
              BY <3>5, <6>2, <7>1
          <6>3. QED
            BY <2>2, <2>3, <6>1, <6>2
        <5>2. PICK p \in DOMAIN l : l[p].writer = w.writer /\ l[p].ts = w.ts
          BY <2>1 DEF Listed, Represents
        <5>3. PICK i \in DOMAIN r : r[i] = s[p]
          BY <3>4
        <5>4. QED
          BY <3>2, <5>1, <5>2, <5>3
      <4>3. QED
        BY <4>1, <4>2 DEF Represents
    <3>7. \A i \in DOMAIN r : /\ k \in DOMAIN lastWrite[r[i].writer]
                              /\ r[i].value = lastWrite[r[i].writer][k]
      BY <2>1, <3>2, <3>4 DEF Listed
    <3>8. QED
      BY <1>1, <3>1, <3>3, <3>6, <3>7 DEF Listed
  <2>4. CASE k \notin writeSet[txn]
    <3>1. list'[k] = l
      BY <2>4 DEF ListCommit
    <3>2. \A v \in data[k] : v.writer # txn
      BY <2>4 DEF IInv, WritesPending
    <3>3. data'[k] = data[k]
      BY <2>2, <2>4, <3>2
    <3>4. QED
      BY <1>1, <2>1, <3>1, <3>3
  <2>5. QED
    BY <2>3, <2>4
<1>3. list' = [k \in Keys |-> list'[k]]
  BY DEF ListCommit
<1>4. QED
  BY <1>1, <1>2, <1>3 DEF ListInv

\* abort and a refused commit: retain drops the transaction's entries.
LEMMA DropListed ==
    ASSUME IInv, ListInv, NEW txn \in TxnId, ListDrop(txn), DropVersions(txn)
    PROVE  ListInv'
<1>1. lastWrite' = lastWrite
  BY DEF ListDrop
<1>2. ASSUME NEW k \in Keys PROVE Listed(k, list'[k], data'[k], lastWrite')
  <2> DEFINE l == list[k]
             kept == {i \in DOMAIN l : l[i].writer # txn}
             r == Retain(l, kept)
  <2>1. Listed(k, l, data[k], lastWrite)
    BY DEF ListInv
  <2>2. data'[k] = {v \in data[k] : v.writer # txn}
    BY DropData
  <2>3. CASE k \in writeSet[txn]
    <3>1. list'[k] = r
      BY <2>3 DEF ListDrop, DropWriter
    <3>2. l \in Seq(Entry) /\ Descending(l) /\ kept \subseteq DOMAIN l
      BY <2>1 DEF Listed
    <3>3. \A p \in DOMAIN l : p \in kept <=> l[p].writer # txn
      OBVIOUS
    <3> HIDE DEF kept, l
    <3>4. r \in Seq(Entry) /\ Descending(r) /\ Holds(r, l, kept)
      BY <3>2, RetainOrdered
    <3> HIDE DEF r
    <3>5. Represents(r, data'[k])
      <4>1. ASSUME NEW i \in DOMAIN r PROVE [writer |-> r[i].writer, ts |-> r[i].ts] \in data'[k]
        <5>1. PICK p \in kept : r[i] = l[p]
          BY <3>4 DEF Holds
        <5>2. /\ [writer |-> l[p].writer, ts |-> l[p].ts] \in data[k]
              /\ l[p].writer # txn
          BY <2>1, <3>2, <3>3 DEF Listed, Represents
        <5>3. QED
          BY <2>2, <5>1, <5>2
      <4>2. ASSUME NEW v \in data'[k]
            PROVE  \E i \in DOMAIN r : r[i].writer = v.writer /\ r[i].ts = v.ts
        <5>1. v \in data[k] /\ v.writer # txn
          BY <2>2
        <5>2. PICK p \in DOMAIN l : l[p].writer = v.writer /\ l[p].ts = v.ts
          BY <2>1, <5>1 DEF Listed, Represents
        <5>3. QED
          BY <3>3, <3>4, <5>1, <5>2 DEF Holds
      <4>3. QED
        BY <4>1, <4>2 DEF Represents
    <3>6. \A i \in DOMAIN r : /\ k \in DOMAIN lastWrite[r[i].writer]
                              /\ r[i].value = lastWrite[r[i].writer][k]
      BY <2>1, <3>2, <3>4 DEF Listed, Holds
    <3>7. QED
      BY <1>1, <3>1, <3>4, <3>5, <3>6 DEF Listed
  <2>4. CASE k \notin writeSet[txn]
    <3>1. list'[k] = l
      BY <2>4 DEF ListDrop
    <3>2. data'[k] = data[k]
      BY <2>2, <2>4 DEF IInv, WritesPending
    <3>3. QED
      BY <1>1, <2>1, <3>1, <3>2
  <2>5. QED
    BY <2>3, <2>4
<1>3. list' = [k \in Keys |-> list'[k]]
  BY DEF ListDrop
<1>4. QED
  BY <1>1, <1>2, <1>3 DEF ListInv

\* What the invariant says of a reader who searches the list from the front:
\* visible_version.
LEMMA ScanFinds == IInv /\ ListInv => ScanFindsNewest
<1> SUFFICES ASSUME IInv, ListInv, NEW k \in Keys, NEW ts \in 0 .. timestamp
             PROVE  Scan(list[k], ts) = VisibleVersion(k, ts)
  BY DEF ScanFindsNewest
<1> DEFINE l == list[k]
           seen == {i \in DOMAIN l : l[i].ts <= ts /\ l[i].ts # Pending}
<1>1. /\ l \in Seq(Entry) /\ Represents(l, data[k]) /\ Descending(l)
      /\ ts \in Nat
  BY DEF ListInv, Listed, IInv, TypeOK
<1>2. \A i \in DOMAIN l : l[i].ts \in Nat
  BY EntryFacts
<1>3. \A v \in data[k] : v = [writer |-> v.writer, ts |-> v.ts]
  BY DEF IInv, TypeOK, Version
<1>4. Scan(l, ts) = IF seen = {} THEN NoTxn ELSE l[Min(seen)].writer
  BY DEF Scan
<1>5. seen \subseteq DOMAIN l /\ DOMAIN l \subseteq Nat
  BY <1>1
<1>6. \A i \in DOMAIN l : i \in seen <=> l[i].ts <= ts /\ l[i].ts # Pending
  OBVIOUS
<1> HIDE DEF l, seen
<1>7. CASE seen = {}
  <2>1. VersionsAt(k, ts) = {}
    BY <1>1, <1>6, <1>7 DEF VersionsAt, Represents
  <2>2. QED
    BY <1>4, <1>7, <2>1 DEF VisibleVersion, NewestAt, l
<1>8. CASE seen # {}
  <2> DEFINE m == Min(seen)
             v == [writer |-> l[m].writer, ts |-> l[m].ts]
  <2>1. m \in seen /\ \A i \in seen : m <= i
    BY <1>5, <1>8, LeastElement
  <2>2. v \in VersionsAt(k, ts)
    BY <1>1, <1>5, <1>6, <2>1 DEF Represents, VersionsAt
  <2>3. v.writer = l[m].writer /\ v.ts = l[m].ts
    OBVIOUS
  <2> HIDE DEF v, m
  <2>4. ASSUME NEW w \in VersionsAt(k, ts)
        PROVE  w = v \/ (w.ts < v.ts /\ w.ts \in Nat /\ v.ts \in Nat)
    <3>1. PICK i \in DOMAIN l : l[i].writer = w.writer /\ l[i].ts = w.ts
      BY <1>1 DEF VersionsAt, Represents
    <3>2. i \in seen /\ m \in DOMAIN l /\ i \in Nat /\ m \in Nat /\ m <= i
      BY <1>5, <1>6, <2>1, <3>1 DEF VersionsAt
    <3>3. CASE i = m
      <4>1. w = [writer |-> w.writer, ts |-> w.ts] /\ v = [writer |-> v.writer, ts |-> v.ts]
        BY <1>3, <2>2 DEF VersionsAt
      <4>2. QED
        BY <2>3, <3>1, <3>3, <4>1
    <3>4. CASE i # m
      BY <1>1, <1>2, <2>3, <3>1, <3>2, <3>4 DEF Descending
    <3>5. QED
      BY <3>3, <3>4
  <2>5. v.ts \in Nat
    BY <1>2, <1>5, <2>1, <2>3
  <2>6. NewestAt(k, ts) = {v}
    BY <2>2, <2>4, <2>5 DEF NewestAt
  <2>7. VisibleVersion(k, ts) = v.writer
    BY <2>6 DEF VisibleVersion
  <2>8. QED
    BY <1>4, <1>8, <2>3, <2>7 DEF l, m
<1>9. QED
  BY <1>7, <1>8

\* Each version once: a list without repetition is as long as its set.
LEMMA HoldsVersions == IInv /\ ListInv => ListHoldsVersions
<1> SUFFICES ASSUME IInv, ListInv, NEW k \in Keys
             PROVE  /\ list[k] \in Seq(Entry)
                    /\ {[writer |-> v.writer, ts |-> v.ts] : v \in ToSet(list[k])} = data[k]
                    /\ Len(list[k]) = Cardinality(data[k])
  BY DEF ListHoldsVersions
<1> DEFINE l == list[k]
           D == DOMAIN l
           f == [i \in D |-> [writer |-> l[i].writer, ts |-> l[i].ts]]
<1>1. l \in Seq(Entry) /\ Represents(l, data[k]) /\ Descending(l)
  BY DEF ListInv, Listed
<1>2. \A v \in data[k] : v = [writer |-> v.writer, ts |-> v.ts]
  BY DEF IInv, TypeOK, Version
<1>3. \A i \in D : l[i].ts \in Nat
  BY EntryFacts
<1>4. {[writer |-> v.writer, ts |-> v.ts] : v \in ToSet(l)} = data[k]
  <2>1. ToSet(l) = {l[i] : i \in D}
    BY DEF ToSet
  <2> HIDE DEF l
  <2>2. QED
    BY <1>1, <1>2, <2>1 DEF Represents
<1>5. PICK n \in Nat : n = Len(l) /\ D = 1 .. n
  BY <1>1
<1>6. D \subseteq Nat /\ ExistsBijection(1 .. n, data[k])
  <2> HIDE DEF l, D
  <2>1. D \subseteq Nat
    BY <1>5
  <2>2. f \in [D -> data[k]]
    BY <1>1 DEF Represents, D
  <2>3. \A v \in data[k] : \E i \in D : f[i] = v
    BY <1>1, <1>2 DEF Represents, D
  <2>4. ASSUME NEW i \in D, NEW j \in D, f[i] = f[j] PROVE i = j
    <3>1. l[i].ts = l[j].ts
      BY <2>4
    <3>2. ~(i < j) /\ ~(j < i)
      BY <1>1, <1>3, <3>1 DEF Descending, D
    <3>3. QED
      BY <2>1, <3>2
  <2> HIDE DEF f
  <2>5. f \in Bijection(D, data[k])
    BY <2>2, <2>3, <2>4 DEF Bijection, Injection, Surjection, IsInjective
  <2>6. QED
    BY <1>5, <2>1, <2>5 DEF ExistsBijection
<1>7. Cardinality(data[k]) = n
  BY <1>6, FS_CountingElements
<1>8. QED
  BY <1>1, <1>4, <1>5, <1>7

\* The values are those last written.
LEMMA LastWins == IInv /\ ListInv => LastWriteWins
<1> SUFFICES ASSUME IInv, ListInv, NEW k \in Keys, NEW v \in ToSet(list[k])
             PROVE  v.value = lastWrite[v.writer][k]
  BY DEF LastWriteWins
<1>1. PICK i \in DOMAIN list[k] : v = list[k][i]
  BY DEF ToSet
<1>2. QED
  BY <1>1 DEF ListInv, Listed

-----------------------------------------------------------------------------
(* The runner.                                                               *)

\* Every operation of the runner makes one step of the store, or none.
LEMMA StepOfStore == [RunnerNext]_allVars => [Next]_vars
<1> SUFFICES ASSUME [RunnerNext]_allVars PROVE [Next]_vars
  OBVIOUS
<1>1. CASE UNCHANGED listVars \/ UNCHANGED allVars
  BY <1>1 DEF listVars, allVars
<1>2. ASSUME NEW answered \in BOOLEAN, RunnerBegin(answered) PROVE Next
  BY <1>2 DEF RunnerBegin, ListBegin, Next
<1>3. ASSUME NEW txn \in TxnId, NEW key \in Keys, RunnerRead(txn, key) PROVE [Next]_vars
  BY <1>1, <1>3 DEF RunnerRead, ListRead, Next
<1>4. ASSUME NEW txn \in TxnId, NEW key \in Keys, NEW value \in Values, RunnerWrite(txn, key, value)
      PROVE  [Next]_vars
  BY <1>1, <1>4 DEF RunnerWrite, ListWrite, Next
<1>5. ASSUME NEW txn \in TxnId, RunnerCommit(txn) PROVE [Next]_vars
  BY <1>1, <1>5 DEF RunnerCommit, ListCommit, ListCommitFails, Next
<1>6. ASSUME NEW txn \in TxnId, RunnerAbort(txn) PROVE [Next]_vars
  BY <1>1, <1>6 DEF RunnerAbort, ListAbort, Next
<1>7. QED
  BY <1>1, <1>2, <1>3, <1>4, <1>5, <1>6 DEF RunnerNext

\* The runner drives SsiStore: every behaviour of begin, read, write, commit and
\* abort of SsiDstRunner, whatever faults fire, is a behaviour of the store, so
\* all that is proved of the store holds under it.
THEOREM RunnerDrivesStore == RunnerSpec => Spec
<1>1. RunnerInit => Init
  BY DEF RunnerInit, ListInit
<1>2. QED
  BY <1>1, StepOfStore, PTL DEF RunnerSpec, Spec

\* The store's invariant, for the store under the runner.
LEMMA StoreInvariant == RunnerSpec => []IInv
BY RunnerDrivesStore, Invariant, PTL

\* The lists stay right in every operation of the runner.
LEMMA StepListed == IInv /\ ListInv /\ [RunnerNext]_allVars => ListInv'
<1> SUFFICES ASSUME IInv, ListInv, [RunnerNext]_allVars PROVE ListInv'
  OBVIOUS
<1>1. CASE UNCHANGED <<data, list, lastWrite>>
  BY <1>1 DEF ListInv, Listed, Represents, Descending
<1>2. CASE UNCHANGED listVars \/ UNCHANGED allVars
  BY <1>1, <1>2 DEF listVars, vars, allVars
<1>3. ASSUME NEW answered \in BOOLEAN, RunnerBegin(answered) PROVE ListInv'
  BY <1>1, <1>3 DEF RunnerBegin, ListBegin, Begin
<1>4. ASSUME NEW txn \in TxnId, NEW key \in Keys, RunnerRead(txn, key) PROVE ListInv'
  BY <1>1, <1>2, <1>4 DEF RunnerRead, ListRead, Read
<1>5. ASSUME NEW txn \in TxnId, NEW key \in Keys, NEW value \in Values, RunnerWrite(txn, key, value)
      PROVE  ListInv'
  BY <1>2, <1>5, WriteListed DEF RunnerWrite
<1>6. ASSUME NEW txn \in TxnId, RunnerCommit(txn) PROVE ListInv'
  <2>1. ListCommitFails(txn) => ListInv'
    BY DropListed DEF ListCommitFails, CommitFails
  <2>2. QED
    BY <1>2, <1>6, <2>1, CommitListed DEF RunnerCommit
<1>7. ASSUME NEW txn \in TxnId, RunnerAbort(txn) PROVE ListInv'
  <2>1. ListAbort(txn) => ListInv'
    BY DropListed DEF ListAbort, Abort
  <2>2. QED
    BY <1>2, <1>7, <2>1 DEF RunnerAbort
<1>8. QED
  BY <1>2, <1>3, <1>4, <1>5, <1>6, <1>7 DEF RunnerNext

\* The lists represent the store's versions, in order and with the values last
\* written, after any sequence of write, commit and abort.
THEOREM ListInvariant == RunnerSpec => []ListInv
<1>1. RunnerInit => ListInv
  <2> SUFFICES ASSUME RunnerInit PROVE ListInv
    OBVIOUS
  <2>1. /\ list = [k \in Keys |-> <<>>] /\ data = [k \in Keys |-> {}]
        /\ lastWrite = [t \in TxnId |-> <<>>]
    BY DEF RunnerInit, ListInit, Init
  <2>2. \A k \in Keys : Listed(k, <<>>, {}, lastWrite)
    BY DEF Listed, Represents, Descending
  <2>3. QED
    BY <2>1, <2>2 DEF ListInv
<1>2. QED
  BY <1>1, StoreInvariant, StepListed, PTL DEF RunnerSpec

\* The Vec of a key holds each of its versions once and nothing else: retain, the
\* stamping and the sort of write, commit and abort lose and duplicate nothing.
THEOREM ListsHoldVersions == RunnerSpec => []ListHoldsVersions
BY StoreInvariant, ListInvariant, HoldsVersions, PTL

\* visible_version searches from the front and finds the newest version of the
\* snapshot, for every snapshot there has been.
THEOREM ScansFindNewest == RunnerSpec => []ScanFindsNewest
BY StoreInvariant, ListInvariant, ScanFinds, PTL

\* What a transaction leaves on a key is the value it wrote there last.
THEOREM LastWritesWin == RunnerSpec => []LastWriteWins
BY StoreInvariant, ListInvariant, LastWins, PTL

\* The runner's record of who is active and when each began and ended.
Recording ==
    /\ active = {t \in TxnId : status[t] = "Active"}
    /\ committed = {t \in TxnId : status[t] = "Committed"}
    /\ runnerTs = timestamp
    /\ startTs = snapshot
    /\ commitTs \in [TxnId -> Nat]
    /\ outcome \in [TxnId -> {"None", "Begin", "Commit", "Abort"}]
    /\ \A t \in TxnId : outcome[t] = "Commit" <=> status[t] = "Committed"
    /\ \A t \in TxnId : commitTs[t] # 0 => status[t] = "Committed"

\* Every version was logged, and is dated after its writer began.
Logged ==
    /\ logWrites \in [TxnId -> [Keys -> Nat]]
    /\ \A k \in Keys : \A v \in data[k] :
          /\ v.ts # Pending => commitTs[v.writer] = v.ts
          /\ snapshot[v.writer] < v.ts
          /\ logWrites[v.writer][k] > 0

\* The runner's counters.
Counted ==
    /\ counts \in [started : Nat, committed : Nat, aborted : Nat]
    /\ counts.started = Cardinality(active) + counts.committed + counts.aborted
    /\ counts.committed = Cardinality(committed)

\* The inductive invariant of the runner's record.
RunnerInv == Recording /\ Logged /\ Counted

\* Sets of transactions are finite: the counters count them.
LEMMA TxnsFinite ==
    ASSUME NEW S, S \subseteq TxnId
    PROVE  IsFiniteSet(S) /\ Cardinality(S) \in Nat
<1>1. IsFiniteSet(TxnId)
  BY BoundsAssumption, FS_Interval DEF TxnId
<1>2. QED
  BY <1>1, FS_Subset, FS_CardinalityType

\* SsiDstRunner::new on a new store.
LEMMA InitRecord == RunnerInit => RunnerInv
<1> SUFFICES ASSUME RunnerInit PROVE RunnerInv
  OBVIOUS
<1>1. Init
  BY DEF RunnerInit, ListInit
<1>2. Recording
  BY <1>1 DEF RunnerInit, Init, Recording
<1>3. Logged
  BY <1>1 DEF RunnerInit, Init, Logged
<1>4. Counted
  BY <1>1, FS_EmptySet DEF RunnerInit, Init, Counted
<1>5. QED
  BY <1>2, <1>3, <1>4 DEF RunnerInv

\* begin: the store's new transaction and its snapshot, on both sides.
LEMMA BeginRecorded ==
    ASSUME IInv, RunnerInv, NEW answered \in BOOLEAN, RunnerBegin(answered)
    PROVE  RunnerInv'
<1>1. Begin /\ nextTxn \in TxnId /\ status[nextTxn] = "Unborn"
  BY DEF RunnerBegin, ListBegin, Begin, IInv, TypeOK, ClockAhead, TxnId
<1>2. /\ status' = [status EXCEPT ![nextTxn] = "Active"]
      /\ snapshot' = [snapshot EXCEPT ![nextTxn] = timestamp]
      /\ timestamp' = timestamp + 1 /\ data' = data /\ committed' = committed
  BY <1>1 DEF Begin, Tick
<1>3. status \in [TxnId -> Status] /\ snapshot \in [TxnId -> Timestamp]
  BY DEF IInv, TypeOK
<1>4. Recording'
  BY <1>1, <1>2, <1>3 DEF RunnerBegin, RunnerInv, Recording
<1>5. Logged'
  <2>1. \A k \in Keys : \A v \in data[k] : v.writer # nextTxn /\ v.writer \in TxnId
    BY <1>1 DEF IInv, WritesPending, Live, TypeOK, Version
  <2>2. QED
    BY <1>2, <1>3, <2>1 DEF RunnerBegin, RunnerInv, Logged
<1>6. Counted'
  <2>1. active \subseteq TxnId /\ nextTxn \notin active
    BY <1>1 DEF RunnerInv, Recording
  <2>2. IsFiniteSet(active) /\ Cardinality(active) \in Nat
    BY <2>1, TxnsFinite
  <2>3. Cardinality(active') = Cardinality(active) + 1
    BY <2>1, <2>2, FS_AddElement DEF RunnerBegin
  <2>4. counts' = [counts EXCEPT !.started = @ + 1]
    BY DEF RunnerBegin
  <2>5. QED
    BY <1>2, <2>2, <2>3, <2>4 DEF RunnerInv, Counted
<1>7. QED
  BY <1>4, <1>5, <1>6 DEF RunnerInv

\* write: logged whether or not the store took it.
LEMMA WriteRecorded ==
    ASSUME IInv, RunnerInv, NEW txn \in TxnId, NEW key \in Keys, NEW value \in Values,
           RunnerWrite(txn, key, value)
    PROVE  RunnerInv'
<1>1. \/ Write(txn, key)
      \/ UNCHANGED <<status, committed, timestamp, snapshot, data>>
  BY DEF RunnerWrite, ListWrite, listVars, vars, txnVars
<1>2. UNCHANGED <<status, committed, timestamp, snapshot>>
  BY <1>1 DEF Write
<1>3. Recording' /\ Counted'
  BY <1>2 DEF RunnerWrite, RunnerInv, Recording, Counted
<1>4. /\ logWrites' = [logWrites EXCEPT ![txn] = [logWrites[txn] EXCEPT ![key] = @ + 1]]
      /\ commitTs' = commitTs
      /\ logWrites \in [TxnId -> [Keys -> Nat]]
  BY DEF RunnerWrite, RunnerInv, Logged
<1>5. /\ logWrites' \in [TxnId -> [Keys -> Nat]]
      /\ \A t \in TxnId, k \in Keys : logWrites'[t][k] >= logWrites[t][k]
      /\ logWrites'[txn][key] > 0
  BY <1>4
<1>6. ASSUME NEW k \in Keys, NEW v \in data'[k]
      PROVE  /\ v.ts # Pending => commitTs'[v.writer] = v.ts
             /\ snapshot'[v.writer] < v.ts
             /\ logWrites'[v.writer][k] > 0
  <2>1. CASE v \in data[k]
    <3>1. /\ v.ts # Pending => commitTs[v.writer] = v.ts
          /\ snapshot[v.writer] < v.ts
          /\ logWrites[v.writer][k] > 0
      BY <2>1 DEF RunnerInv, Logged
    <3>2. v.writer \in TxnId
      BY <2>1 DEF IInv, TypeOK, Version
    <3>3. logWrites[v.writer][k] \in Nat /\ logWrites'[v.writer][k] \in Nat
          /\ logWrites'[v.writer][k] >= logWrites[v.writer][k]
      BY <1>4, <1>5, <3>2
    <3>4. QED
      BY <1>2, <1>4, <3>1, <3>3
  <2>2. CASE v = PendingBy(txn) /\ k = key
    <3>1. v.writer = txn /\ v.ts = Pending
      BY <2>2 DEF PendingBy
    <3>2. snapshot[txn] \in Nat /\ snapshot[txn] < timestamp /\ timestamp \in Nat
          /\ timestamp < Pending /\ Pending \in Nat
      BY BoundsAssumption DEF IInv, TypeOK, ClockAhead, Timestamp, Pending
    <3>3. QED
      BY <1>2, <1>5, <2>2, <3>1, <3>2
  <2>3. QED
    BY <1>1, <2>1, <2>2, WriteData
<1>7. Logged'
  BY <1>5, <1>6 DEF Logged
<1>8. QED
  BY <1>3, <1>7 DEF RunnerInv

\* commit that the store accepts: the timestamp it stamps is the one recorded.
LEMMA CommitRecorded ==
    ASSUME IInv, RunnerInv, NEW txn \in TxnId, txn \in active, ListCommit(txn), RunnerCommitted(txn),
           active' = active \ {txn}, UNCHANGED <<startTs, logWrites>>
    PROVE  RunnerInv'
<1>1. /\ Commit(txn) /\ status[txn] = "Active"
      /\ status' = [status EXCEPT ![txn] = "Committed"]
      /\ committed' = committed \cup {txn} /\ snapshot' = snapshot
      /\ timestamp' = timestamp + 1 /\ writeSet' = writeSet
  BY DEF ListCommit, Commit, Tick
<1>2. status \in [TxnId -> Status] /\ snapshot \in [TxnId -> Timestamp] /\ timestamp \in Nat
  BY DEF IInv, TypeOK
<1>3. /\ runnerTs' = runnerTs + 1 /\ commitTs' = [commitTs EXCEPT ![txn] = runnerTs]
      /\ counts' = [counts EXCEPT !.committed = @ + 1]
      /\ outcome' = [outcome EXCEPT ![txn] = "Commit"]
  BY DEF RunnerCommitted
<1>4. Recording'
  BY <1>1, <1>2, <1>3 DEF RunnerInv, Recording
<1>5. ASSUME NEW k \in Keys, NEW v \in data'[k]
      PROVE  /\ v.ts # Pending => commitTs'[v.writer] = v.ts
             /\ snapshot'[v.writer] < v.ts
             /\ logWrites'[v.writer][k] > 0
  <2>1. CASE v \in data[k] /\ v.writer # txn
    <3>1. v.writer \in TxnId
      BY <2>1 DEF IInv, TypeOK, Version
    <3>2. commitTs'[v.writer] = commitTs[v.writer]
      BY <1>3, <2>1, <3>1 DEF RunnerInv, Recording
    <3>3. QED
      BY <1>1, <2>1, <3>2 DEF RunnerInv, Logged
  <2>2. CASE v = [writer |-> txn, ts |-> timestamp] /\ k \in writeSet[txn]
    <3>1. v.writer = txn /\ v.ts = timestamp
      BY <2>2
    <3>2. commitTs'[txn] = timestamp
      BY <1>3 DEF RunnerInv, Recording
    <3>3. snapshot[txn] < timestamp
      BY DEF IInv, ClockAhead
    <3>4. PendingBy(txn) \in data[k] /\ PendingBy(txn).writer = txn
      BY <1>1, <2>2 DEF IInv, WritesPending, PendingBy
    <3>5. logWrites[txn][k] > 0
      BY <3>4 DEF RunnerInv, Logged
    <3>6. QED
      BY <1>1, <3>1, <3>2, <3>3, <3>5
  <2>3. QED
    BY <1>1, <2>1, <2>2, CommitData
<1>6. Logged'
  BY <1>5 DEF RunnerInv, Logged
<1>7. Counted'
  <2>1. active \subseteq TxnId /\ committed \subseteq TxnId /\ txn \in active /\ txn \notin committed
    BY <1>1 DEF RunnerInv, Recording
  <2>2. /\ IsFiniteSet(active) /\ Cardinality(active) \in Nat
        /\ IsFiniteSet(committed) /\ Cardinality(committed) \in Nat
    BY <2>1, TxnsFinite
  <2>3. Cardinality(active') = Cardinality(active) - 1
    BY <2>1, <2>2, FS_RemoveElement
  <2>4. Cardinality(committed') = Cardinality(committed) + 1
    BY <1>1, <2>1, <2>2, FS_AddElement
  <2>5. QED
    BY <1>3, <2>2, <2>3, <2>4 DEF RunnerInv, Counted
<1>8. QED
  BY <1>4, <1>6, <1>7 DEF RunnerInv

\* abort, and a commit the store refuses.
LEMMA AbortRecorded ==
    ASSUME IInv, RunnerInv, NEW txn \in TxnId, txn \in active,
           ListAbort(txn) \/ ListCommitFails(txn),
           active' = active \ {txn}, counts' = [counts EXCEPT !.aborted = @ + 1],
           outcome' = [outcome EXCEPT ![txn] = "Abort"],
           UNCHANGED <<runnerTs, startTs, commitTs, logWrites>>
    PROVE  RunnerInv'
<1>1. /\ status[txn] = "Active" /\ DropVersions(txn)
      /\ status' = [status EXCEPT ![txn] = "Aborted"]
      /\ UNCHANGED <<committed, snapshot, timestamp>>
  BY DEF ListAbort, ListCommitFails, Abort, CommitFails
<1>2. status \in [TxnId -> Status]
  BY DEF IInv, TypeOK
<1>3. Recording'
  BY <1>1, <1>2 DEF RunnerInv, Recording
<1>4. Logged'
  <2>1. \A k \in Keys : data'[k] \subseteq data[k]
    BY <1>1, DropData
  <2>2. QED
    BY <1>1, <2>1 DEF RunnerInv, Logged
<1>5. Counted'
  <2>1. active \subseteq TxnId
    BY DEF RunnerInv, Recording
  <2>2. IsFiniteSet(active) /\ Cardinality(active) \in Nat
    BY <2>1, TxnsFinite
  <2>3. Cardinality(active') = Cardinality(active) - 1
    BY <2>2, FS_RemoveElement
  <2>4. QED
    BY <1>1, <2>2, <2>3 DEF RunnerInv, Counted
<1>6. QED
  BY <1>3, <1>4, <1>5 DEF RunnerInv

\* The runner's record stays right in every operation of the runner.
LEMMA StepRecorded == IInv /\ RunnerInv /\ [RunnerNext]_allVars => RunnerInv'
<1> SUFFICES ASSUME IInv, RunnerInv, [RunnerNext]_allVars PROVE RunnerInv'
  OBVIOUS
<1>1. CASE UNCHANGED <<status, committed, timestamp, snapshot, data, runnerTs, active,
                       startTs, commitTs, counts, logWrites, outcome>>
  BY <1>1 DEF RunnerInv, Recording, Logged, Counted
<1>2. CASE UNCHANGED allVars
  BY <1>1, <1>2 DEF allVars, runnerVars, listVars, vars, txnVars
<1>3. \A txn \in active : txn \in TxnId /\ status[txn] = "Active"
  BY DEF RunnerInv, Recording
<1>4. ASSUME NEW txn \in TxnId, NEW key \in Keys, RunnerRead(txn, key) PROVE RunnerInv'
  BY <1>1, <1>4 DEF RunnerRead, ListRead, Read, listVars, vars, txnVars
<1>5. ASSUME NEW txn \in TxnId, RunnerCommit(txn) PROVE RunnerInv'
  <2>1. /\ txn \in active /\ active' = active \ {txn} /\ UNCHANGED <<startTs, logWrites>>
        /\ \/ ListCommit(txn) /\ RunnerCommitted(txn)
           \/ ListCommitFails(txn) /\ RunnerRefused(txn)
    BY <1>3, <1>5 DEF RunnerCommit
  <2>2. CASE ListCommit(txn) /\ RunnerCommitted(txn)
    BY <2>1, <2>2, CommitRecorded
  <2>3. CASE ListCommitFails(txn) /\ RunnerRefused(txn)
    BY <2>1, <2>3, AbortRecorded DEF RunnerRefused
  <2>4. QED
    BY <2>1, <2>2, <2>3
<1>6. ASSUME NEW txn \in TxnId, RunnerAbort(txn) PROVE RunnerInv'
  <2>1. txn \in active /\ ListAbort(txn)
    BY <1>3, <1>6 DEF RunnerAbort
  <2>2. QED
    BY <1>6, <2>1, AbortRecorded DEF RunnerAbort
<1>7. QED
  BY <1>2, <1>4, <1>5, <1>6, BeginRecorded, WriteRecorded DEF RunnerNext

\* After any sequence of begin, read, write, commit and abort, and whatever
\* faults withheld their answers, the runner's sets, timestamps, log and counters
\* are those of the store's transactions and versions.
THEOREM RunnerInvariant == RunnerSpec => []RunnerInv
BY InitRecord, StoreInvariant, StepRecorded, PTL DEF RunnerSpec

\* The runner's own record follows the store: who is active, the clock, the
\* timestamps overlap is judged on, and the counters of started, committed and
\* aborted transactions.
THEOREM RecordTracksStore == RunnerSpec => []RunnerTracksStore
<1>1. RunnerInv => RunnerTracksStore
  BY DEF RunnerInv, Recording, Logged, Counted, RunnerTracksStore
<1>2. QED
  BY <1>1, RunnerInvariant, PTL

\* first_committer_wins of the history checker misses nothing: where the store
\* let two overlapping transactions commit a key, the verdict on the log fails.
THEOREM ReportsComplete == RunnerSpec => []ViolationsReported
<1>1. IInv /\ RunnerInv => ViolationsReported
  <2> SUFFICES ASSUME IInv, RunnerInv, VerdictFirstCommitterWins,
                      NEW k \in Keys, NEW v \in data[k], NEW w \in data[k],
                      v.ts < w.ts, w.ts # Pending, v.ts > snapshot[w.writer]
               PROVE  FALSE
    BY DEF ViolationsReported, FirstCommitterWins
  <2>1. /\ v.writer \in TxnId /\ w.writer \in TxnId /\ v.ts \in Nat /\ w.ts \in Nat
        /\ w.ts < Pending /\ Pending \in Nat
    BY BoundsAssumption DEF IInv, TypeOK, ClockAhead, Version, Timestamp, Pending
  <2>2. v.ts # Pending
    BY <2>1
  <2>3. \A u \in data[k] : u.ts # Pending => u.writer \in LogCommitted
    <3>1. \A u \in data[k] : u.writer \in TxnId
      BY DEF IInv, TypeOK, Version
    <3>2. \A u \in data[k] : u.ts # Pending => commitTs[u.writer] # 0
      <4>1. \A u \in data[k] : u.ts \in Nat /\ snapshot[u.writer] \in Nat
        BY <3>1 DEF IInv, TypeOK, Version, Timestamp
      <4>2. QED
        BY <4>1 DEF RunnerInv, Logged
    <3>3. QED
      BY <3>1, <3>2 DEF RunnerInv, Recording, LogCommitted
  <2>4. /\ commitTs[v.writer] = v.ts /\ commitTs[w.writer] = w.ts
        /\ startTs[v.writer] < v.ts /\ startTs[w.writer] < v.ts
        /\ logWrites[v.writer][k] > 0 /\ logWrites[w.writer][k] > 0
    BY <2>1, <2>2 DEF RunnerInv, Recording, Logged
  <2>5. v.writer # w.writer
    BY <2>1, <2>4
  <2>6. <<v.writer, w.writer>> \in WriterPairs(k)
    BY <2>2, <2>3, <2>4, <2>5 DEF WriterPairs
  <2>7. snapshot[v.writer] \in Nat /\ snapshot[w.writer] \in Nat
    BY <2>1 DEF IInv, TypeOK, Timestamp
  <2>8. WereConcurrent(v.writer, w.writer)
    BY <2>1, <2>4, <2>7 DEF WereConcurrent, RunnerInv, Recording
  <2>9. QED
    BY <2>6, <2>8 DEF VerdictFirstCommitterWins
<1>2. QED
  BY <1>1, StoreInvariant, RunnerInvariant, PTL

-----------------------------------------------------------------------------
(* The replay of a pre-built trace.                                          *)

Traces == AllOracles \cup {GivesUp}

\* What a trace asks for: transaction 1 begins first and 2 at the action second;
\* 1 writes key1 at the action at1 and nothing else, 2 writes key2 at at2, and
\* only 1 is ever given up.
Plan(second, at1, key1, at2, key2) ==
    \A i \in DOMAIN trace.actions : LET a == trace.actions[i] IN
        /\ a.txn \in 1 .. 2 /\ (a.call \in {"read", "write"} => a.key \in 1 .. 2)
        /\ a.call = "begin" <=> i \in {1, second}
        /\ i = 1 => a.txn = 1
        /\ i = second => a.txn = 2
        /\ a.call = "write" => \/ i = at1 /\ a.txn = 1 /\ a.key = key1
                               \/ i = at2 /\ a.txn = 2 /\ a.key = key2
        /\ a.call = "abort" => i > 1 /\ a.txn = 1

\* What the replay has reported is so in the store, with faults and without.
Told ==
    /\ trace \in Traces
    /\ position \in 1 .. Len(trace.actions) + 1
    /\ executed \in Nat /\ faults \in Nat
    /\ keyOf \in [1 .. 2 -> Keys] /\ keyOf[1] # keyOf[2]
    /\ txnMap \in [1 .. 2 -> TxnId \cup {NoTxn}]
    /\ \A t \in 1 .. 2 : txnMap[t] # NoTxn => status[txnMap[t]] # "Unborn"
    /\ \A i \in DOMAIN trace.actions :
          i >= position /\ trace.actions[i].call = "begin" => txnMap[trace.actions[i].txn] = NoTxn
    /\ reported \in [committed : SUBSET (1 .. 2), aborted : SUBSET (1 .. 2)]
    /\ \A t \in reported.committed : txnMap[t] \in committed
    /\ \A t \in reported.aborted :
          txnMap[t] # NoTxn /\ status[txnMap[t]] \in {"Committed", "Aborted"}

\* A replay without faults has followed the plan of its trace.
Followed(second, at1, key1, at2, key2) ==
    /\ executed = position - 1
    /\ txnMap[1] = IF position = 1 THEN NoTxn ELSE 1
    /\ txnMap[2] \in {NoTxn, 2}
    /\ nextTxn = IF position = 1 THEN 1 ELSE IF position <= second THEN 2 ELSE 3
    /\ \A t \in TxnId, k \in Keys :
          /\ logWrites[t][k] <= 1
          /\ logWrites[t][k] > 0 => \/ t = 1 /\ position > at1 /\ k = keyOf[key1]
                                    \/ t = 2 /\ position > at2 /\ k = keyOf[key2]
    /\ lastWriter \in [Keys -> TxnId \cup {NoTxn}]
    /\ \A k \in Keys : lastWriter[k] # NoTxn => logWrites[lastWriter[k]][k] > 0
    /\ \A r \in logReads : r.version # NoTxn =>
          r.key \in Keys /\ r.version \in TxnId /\ logWrites[r.version][r.key] > 0
    /\ \A t \in TxnId : commitTs[t] < runnerTs
    /\ \A i \in DOMAIN trace.actions : i < position /\ trace.actions[i].call = "commit" =>
          trace.actions[i].txn \in reported.committed \cup reported.aborted

Unmarked == \A t \in TxnId : ~inConflict[t] /\ ~outConflict[t]
NoLocks == \A k \in Keys : siread[k] = {}
OneBeforeTwo == position > 4 => commitTs[1] < startTs[2]

DangerousStructurePlayed ==
    /\ Followed(2, 7, 2, 5, 1)
    /\ \A t \in TxnId : t = 2 => ~outConflict[t]
    /\ \A t \in TxnId : t = 1 /\ status[t] = "Committed" => position > 8 /\ ~Dangerous(t)

DisjointKeysPlayed ==
    /\ Followed(2, 3, 1, 4, 2)
    /\ Unmarked /\ NoLocks /\ reported.aborted = {}

SequentialWritesPlayed ==
    /\ Followed(4, 2, 1, 5, 1)
    /\ Unmarked /\ NoLocks /\ OneBeforeTwo /\ logReads = {} /\ reported.aborted = {}

SingleConflictFlagPlayed ==
    /\ Followed(2, 8, 2, 4, 1)
    /\ \A t \in TxnId : (t = 1 => ~inConflict[t]) /\ (t = 2 => ~outConflict[t])
    /\ reported.aborted = {}

ReadOnlyPlayed ==
    /\ Followed(4, 2, 1, 8, 2)
    /\ Unmarked /\ OneBeforeTwo /\ (position <= 5 => NoLocks) /\ reported.aborted = {}

GivesUpPlayed ==
    /\ Followed(4, 2, 1, 5, 1)
    /\ Unmarked /\ NoLocks /\ OneBeforeTwo /\ logReads = {}
    /\ position > 3 => 1 \in reported.aborted

\* What is known of a replay of each trace in which no fault has fired.
Played ==
    /\ trace = DangerousStructure => DangerousStructurePlayed
    /\ trace = DisjointKeys => DisjointKeysPlayed
    /\ trace = SequentialWrites => SequentialWritesPlayed
    /\ trace = SingleConflictFlag => SingleConflictFlagPlayed
    /\ trace = ReadOnly => ReadOnlyPlayed
    /\ trace = GivesUp => GivesUpPlayed

\* The inductive invariant of a replay, with what is known of the runner.
ReplayInv ==
    /\ Told /\ user \in {"client", "caller", "replay"}
    /\ user # "replay" => position = 1 /\ reported = [committed |-> {}, aborted |-> {}]
    /\ user = "replay" /\ faults = 0 => Played

mcVars == <<user, allVars, replayVars>>

\* The traces one by one.
LEMMA OneOfSix ==
    ASSUME trace \in Traces
    PROVE  \/ trace = DangerousStructure \/ trace = DisjointKeys \/ trace = SequentialWrites
           \/ trace = SingleConflictFlag \/ trace = ReadOnly \/ trace = GivesUp
BY DEF Traces, AllOracles

\* The plans of the pre-built traces (all_oracles).
LEMMA Plans ==
    /\ trace = DangerousStructure => Plan(2, 7, 2, 5, 1)
    /\ trace = DisjointKeys => Plan(2, 3, 1, 4, 2)
    /\ trace = SequentialWrites => Plan(4, 2, 1, 5, 1)
    /\ trace = SingleConflictFlag => Plan(2, 8, 2, 4, 1)
    /\ trace = ReadOnly => Plan(4, 2, 1, 8, 2)
    /\ trace = GivesUp => Plan(4, 2, 1, 5, 1)
<1>1. trace = DangerousStructure => Plan(2, 7, 2, 5, 1)
  BY DEF DangerousStructure, Oracle, Do, Plan
<1>2. trace = DisjointKeys => Plan(2, 3, 1, 4, 2)
  BY DEF DisjointKeys, Oracle, Do, Plan
<1>3. trace = SequentialWrites => Plan(4, 2, 1, 5, 1)
  BY DEF SequentialWrites, Oracle, Do, Plan
<1>4. trace = SingleConflictFlag => Plan(2, 8, 2, 4, 1)
  BY DEF SingleConflictFlag, Oracle, Do, Plan
<1>5. trace = ReadOnly => Plan(4, 2, 1, 8, 2)
  BY DEF ReadOnly, Oracle, Do, Plan
<1>6. trace = GivesUp => Plan(4, 2, 1, 5, 1)
  BY DEF GivesUp, Oracle, Do, Plan
<1>7. QED
  BY <1>1, <1>2, <1>3, <1>4, <1>5, <1>6

\* How many actions they have.
LEMMA Lengths ==
    /\ trace = DangerousStructure => Len(trace.actions) = 8 /\ DOMAIN trace.actions = 1 .. 8
    /\ trace = DisjointKeys => Len(trace.actions) = 6 /\ DOMAIN trace.actions = 1 .. 6
    /\ trace = SequentialWrites => Len(trace.actions) = 6 /\ DOMAIN trace.actions = 1 .. 6
    /\ trace = SingleConflictFlag => Len(trace.actions) = 6 /\ DOMAIN trace.actions = 1 .. 6
    /\ trace = ReadOnly => Len(trace.actions) = 6 /\ DOMAIN trace.actions = 1 .. 6
    /\ trace = GivesUp => Len(trace.actions) = 7 /\ DOMAIN trace.actions = 1 .. 7
<1>1. trace = DangerousStructure => Len(trace.actions) = 8 /\ DOMAIN trace.actions = 1 .. 8
  BY DEF DangerousStructure, Oracle
<1>2. trace = DisjointKeys => Len(trace.actions) = 6 /\ DOMAIN trace.actions = 1 .. 6
  BY DEF DisjointKeys, Oracle
<1>3. trace = SequentialWrites => Len(trace.actions) = 6 /\ DOMAIN trace.actions = 1 .. 6
  BY DEF SequentialWrites, Oracle
<1>4. trace = SingleConflictFlag => Len(trace.actions) = 6 /\ DOMAIN trace.actions = 1 .. 6
  BY DEF SingleConflictFlag, Oracle
<1>5. trace = ReadOnly => Len(trace.actions) = 6 /\ DOMAIN trace.actions = 1 .. 6
  BY DEF ReadOnly, Oracle
<1>6. trace = GivesUp => Len(trace.actions) = 7 /\ DOMAIN trace.actions = 1 .. 7
  BY DEF GivesUp, Oracle
<1>7. QED
  BY <1>1, <1>2, <1>3, <1>4, <1>5, <1>6

\* Each transaction of a trace begins once, the keys are those of the trace, and
\* no trace is empty.
LEMMA Shape ==
    ASSUME trace \in Traces
    PROVE  /\ Len(trace.actions) \in Nat \ {0}
           /\ DOMAIN trace.actions = 1 .. Len(trace.actions)
           /\ \A i \in DOMAIN trace.actions :
                 /\ trace.actions[i].txn \in 1 .. 2
                 /\ trace.actions[i].call \in {"read", "write"} => trace.actions[i].key \in 1 .. 2
           /\ \A i, j \in DOMAIN trace.actions :
                 /\ trace.actions[i].call = "begin" /\ trace.actions[j].call = "begin"
                 /\ trace.actions[i].txn = trace.actions[j].txn
                 => i = j
<1>1. /\ Len(trace.actions) \in Nat \ {0}
      /\ DOMAIN trace.actions = 1 .. Len(trace.actions)
  <2>1. \E n \in {6, 7, 8} : Len(trace.actions) = n /\ DOMAIN trace.actions = 1 .. n
    BY Lengths, OneOfSix
  <2>2. PICK n \in {6, 7, 8} : Len(trace.actions) = n /\ DOMAIN trace.actions = 1 .. n
    BY <2>1
  <2>3. n \in Nat \ {0}
    BY <2>2
  <2>4. QED
    BY <2>2, <2>3, Zenon
<1>2. \E second, at1, key1, at2, key2 \in Nat : second # 1 /\ Plan(second, at1, key1, at2, key2)
  <2>1. \A n \in {1, 2, 3, 4, 5, 7, 8} : n \in Nat
    OBVIOUS
  <2>2. QED
    BY <2>1, OneOfSix, Plans
<1>3. QED
  BY <1>1, <1>2 DEF Plan

\* Who may call the runner, and with which keys.
Guided ==
    /\ trace \in Traces
    /\ keyOf \in [1 .. 2 -> Keys]
    /\ position \in Nat \ {0}
    /\ known \subseteq TxnId

\* Every step of a replay is a step of the runner, or none.
LEMMA StepOfRunner == Guided /\ [MCNext]_mcVars => Guided' /\ [RunnerNext]_allVars
<1> SUFFICES ASSUME Guided, [MCNext]_mcVars PROVE Guided' /\ [RunnerNext]_allVars
  OBVIOUS
<1>1. [RunnerNext]_allVars
  <2>1. CASE UNCHANGED allVars
    BY <2>1
  <2>2. CASE UNCHANGED mcVars
    BY <2>1, <2>2 DEF mcVars
  <2>3. CASE RunnerNext
    BY <2>3
  <2>4. CASE ReplayBegin
    BY <2>1, <2>4 DEF ReplayBegin, RunnerNext
  <2>5. ASSUME NEW call, Refused(call) PROVE UNCHANGED allVars
    BY <2>5 DEF Refused
  <2>6. CASE Access
    <3>1. position \in DOMAIN trace.actions
      BY <2>6, Shape DEF Access, Current, Guided
    <3>2. CASE Current("read") /\ RunnerRead(Txn, keyOf[Action.key])
      <4>1. Txn \in TxnId /\ keyOf[Action.key] \in Keys
        BY <3>1, <3>2, Shape DEF Guided, RunnerRead, Current, Action
      <4>2. QED
        BY <3>2, <4>1 DEF RunnerNext
    <3>3. CASE Current("write") /\ \E value \in Values : RunnerWrite(Txn, keyOf[Action.key], value)
      <4>1. Txn \in TxnId /\ keyOf[Action.key] \in Keys
        BY <3>1, <3>3, Shape DEF Guided, RunnerWrite, Current, Action
      <4>2. QED
        BY <3>3, <4>1 DEF RunnerNext
    <3>4. QED
      BY <2>6, <3>2, <3>3 DEF Access
  <2>7. CASE ReplayCommit
    <3>1. RunnerCommit(Txn) /\ Txn \in TxnId
      BY <2>7 DEF ReplayCommit, RunnerCommit, Guided
    <3>2. QED
      BY <3>1 DEF RunnerNext
  <2>8. CASE ReplayAbort
    <3>1. CASE RunnerAbort(Txn)
      BY <3>1 DEF RunnerAbort, Guided, RunnerNext
    <3>2. QED
      BY <2>1, <2>8, <3>1 DEF ReplayAbort
  <2>9. PlainNext => RunnerNext
    BY DEF PlainNext, PlainWrite, RunnerNext
  <2>10. QED
    BY <2>1, <2>2, <2>3, <2>4, <2>5, <2>6, <2>7, <2>8, <2>9 DEF MCNext, ReplayNext
<1>2. known' \subseteq TxnId
  <2>1. ASSUME NEW answered \in BOOLEAN, RunnerBegin(answered) PROVE known' \subseteq TxnId
    BY <2>1 DEF RunnerBegin, ListBegin, Begin, Guided
  <2>2. known' = known \/ \E answered \in BOOLEAN : RunnerBegin(answered)
    BY <1>1 DEF RunnerNext, RunnerRead, RunnerWrite, RunnerCommit, RunnerAbort, allVars, runnerVars
  <2>3. QED
    BY <2>1, <2>2 DEF Guided
<1>3. trace' = trace /\ keyOf' = keyOf /\ position' \in {position, position + 1}
  <2>1. CASE user \in {"client", "caller"} \/ UNCHANGED mcVars
    BY <2>1 DEF MCNext, replayVars, mcVars
  <2>2. CASE ReplayNext
    BY <2>2 DEF ReplayNext, ReplayBegin, Refused, Access, ReplayCommit, ReplayAbort, Current
  <2>3. QED
    BY <2>1, <2>2 DEF MCNext
<1>4. QED
  BY <1>1, <1>2, <1>3 DEF Guided, Traces

\* A replay is a use of the runner: every begin, read, write, commit and abort it
\* makes of a pre-built trace, faults included, is one of the runner's operations,
\* so all that is proved of the runner holds of a replay.
THEOREM ReplayDrivesRunner == MCSpec => RunnerSpec /\ []Guided
<1>1. MCInit => RunnerInit /\ Guided
  BY DEF MCInit, ReplayInit, RunnerInit, Guided, Traces
<1>2. QED
  BY <1>1, StepOfRunner, PTL DEF MCSpec, RunnerSpec, mcVars

\* What has begun stays begun, and what has ended stays as it ended.
LEMMA EndedStays ==
    ASSUME IInv, [RunnerNext]_allVars
    PROVE  /\ committed \subseteq committed'
           /\ \A t \in TxnId :
                 /\ status[t] # "Unborn" => status'[t] # "Unborn"
                 /\ status[t] \in {"Committed", "Aborted"} => status'[t] = status[t]
<1>1. [Next]_vars /\ status \in [TxnId -> Status]
  BY StepOfStore DEF IInv, TypeOK
<1>2. CASE Begin
  <2>1. status[nextTxn] = "Unborn" /\ nextTxn \in TxnId
    BY <1>2 DEF Begin, IInv, TypeOK, ClockAhead, TxnId
  <2>2. QED
    BY <1>1, <1>2, <2>1 DEF Begin
<1>3. ASSUME NEW txn \in TxnId, NEW key \in Keys, Read(txn, key) \/ Write(txn, key)
      PROVE  UNCHANGED <<status, committed>>
  BY <1>3 DEF Read, Write
<1>4. ASSUME NEW txn \in TxnId, Commit(txn) \/ CommitFails(txn) \/ Abort(txn)
      PROVE  /\ status[txn] = "Active"
             /\ \E how \in {"Committed", "Aborted"} : status' = [status EXCEPT ![txn] = how]
             /\ committed \subseteq committed'
  BY <1>4 DEF Commit, CommitFails, Abort
<1>5. QED
  BY <1>1, <1>2, <1>3, <1>4 DEF Next, vars, txnVars

\* What the runner logs of a commit is how it ended.
LEMMA CommitEnds ==
    ASSUME IInv, RunnerInv, RunnerInv', NEW txn \in TxnId, RunnerCommit(txn)
    PROVE  /\ status[txn] = "Active"
           /\ \/ ListCommit(txn) /\ RunnerCommitted(txn)
              \/ ListCommitFails(txn) /\ RunnerRefused(txn)
           /\ IF txn \in {t \in TxnId : outcome'[t] = "Commit"}
              THEN txn \in committed' ELSE status'[txn] = "Aborted"
<1>1. status[txn] = "Active" /\ status \in [TxnId -> Status]
  BY DEF RunnerCommit, RunnerInv, Recording, IInv, TypeOK
<1>2. \/ ListCommit(txn) /\ RunnerCommitted(txn)
      \/ ListCommitFails(txn) /\ RunnerRefused(txn)
  BY <1>1 DEF RunnerCommit
<1>3. status'[txn] \in {"Committed", "Aborted"}
  BY <1>1, <1>2 DEF ListCommit, ListCommitFails, Commit, CommitFails
<1>4. QED
  BY <1>1, <1>2, <1>3 DEF RunnerInv, Recording

\* An abort of an active transaction ends it.
LEMMA AbortEnds ==
    ASSUME IInv, RunnerInv, NEW txn \in TxnId, RunnerAbort(txn)
    PROVE  status'[txn] = "Aborted"
<1>1. status[txn] = "Active" /\ status \in [TxnId -> Status]
  BY DEF RunnerAbort, RunnerInv, Recording, IInv, TypeOK
<1>2. QED
  BY <1>1 DEF RunnerAbort, ListAbort, Abort

\* The counters, the maps and the lists of a replay are well typed, and what it has
\* reported stays so.
LEMMA StepTold ==
    ASSUME IInv, RunnerInv, IInv', RunnerInv', Told, ReplayNext, [RunnerNext]_allVars
    PROVE  Told'
<1> USE DEF Told
<1>1. /\ position \in DOMAIN trace.actions /\ Action = trace.actions[position]
      /\ position' = position + 1 /\ UNCHANGED <<trace, keyOf>>
  <2>1. \E call : Current(call)
    BY DEF ReplayNext, ReplayBegin, Refused, Access, ReplayCommit, ReplayAbort
  <2>2. QED
    BY <2>1, Shape DEF Current, Action
<1>2. Action.txn \in 1 .. 2
  BY <1>1, Shape
<1>3. /\ executed' \in Nat /\ faults' \in Nat
  <2>1. Answers \/ Errs \/ UNCHANGED <<executed, faults>>
    BY DEF ReplayNext, ReplayBegin, Refused, Access, ReplayCommit, ReplayAbort
  <2>2. QED
    BY <2>1 DEF Answers, Errs
<1>4. /\ trace' \in Traces /\ position' \in 1 .. Len(trace'.actions) + 1
      /\ keyOf' \in [1 .. 2 -> Keys] /\ keyOf'[1] # keyOf'[2]
  BY <1>1, Shape DEF Traces
<1>5. ASSUME UNCHANGED txnMap
      PROVE  /\ txnMap' \in [1 .. 2 -> TxnId \cup {NoTxn}]
             /\ \A t \in 1 .. 2 : txnMap'[t] # NoTxn => status'[txnMap'[t]] # "Unborn"
             /\ \A i \in DOMAIN trace'.actions :
                   i >= position' /\ trace'.actions[i].call = "begin"
                   => txnMap'[trace'.actions[i].txn] = NoTxn
             /\ \A t \in reported.committed : txnMap'[t] \in committed'
             /\ \A t \in reported.aborted :
                   txnMap'[t] # NoTxn /\ status'[txnMap'[t]] \in {"Committed", "Aborted"}
  <2>1. \A t \in 1 .. 2 : txnMap[t] # NoTxn => txnMap[t] \in TxnId
    OBVIOUS
  <2>2. \A i \in DOMAIN trace.actions : i >= position' => i >= position
    BY <1>1, Shape
  <2>3. \A t \in reported.committed \cup reported.aborted : t \in 1 .. 2
    OBVIOUS
  <2>4. \A t \in 1 .. 2 : txnMap'[t] # NoTxn => status'[txnMap'[t]] # "Unborn"
    BY <1>5, <2>1, EndedStays
  <2>5. \A t \in reported.aborted :
           txnMap'[t] # NoTxn /\ status'[txnMap'[t]] \in {"Committed", "Aborted"}
    BY <1>5, <2>1, <2>3, EndedStays
  <2>6. QED
    BY <1>1, <1>5, <2>2, <2>4, <2>5, EndedStays
<1>6. CASE ReplayBegin
  <2>1. CASE UNCHANGED txnMap
    <3>1. UNCHANGED reported
      BY <1>6 DEF ReplayBegin
    <3>2. QED
      BY <1>3, <1>4, <1>5, <2>1, <3>1
  <2>2. CASE RunnerBegin(TRUE) /\ txnMap' = [txnMap EXCEPT ![Action.txn] = nextTxn]
    <3>1. nextTxn \in TxnId /\ status'[nextTxn] = "Active"
      BY <2>2 DEF RunnerBegin, ListBegin, Begin, IInv, TypeOK
    <3>2. txnMap[Action.txn] = NoTxn /\ UNCHANGED reported
      BY <1>1, <1>6 DEF ReplayBegin, Current
    <3>3. \A t \in 1 .. 2 : t # Action.txn => txnMap'[t] = txnMap[t]
      BY <2>2
    <3>4. txnMap'[Action.txn] = nextTxn
      BY <1>2, <2>2
    <3>5. txnMap' \in [1 .. 2 -> TxnId \cup {NoTxn}]
      BY <1>2, <2>2, <3>1
    <3>6. \A t \in 1 .. 2 : txnMap'[t] # NoTxn => status'[txnMap'[t]] # "Unborn"
      BY <3>1, <3>3, <3>4, EndedStays
    <3>7. \A i \in DOMAIN trace.actions :
             i >= position' /\ trace.actions[i].call = "begin"
             => trace.actions[i].txn # Action.txn
      <4>1. trace.actions[position].call = "begin" /\ Action = trace.actions[position]
        BY <1>1, <1>6 DEF ReplayBegin, Current
      <4>2. \A i \in DOMAIN trace.actions : i >= position' => i # position
        BY <1>1, Shape
      <4>3. QED
        BY <1>1, <4>1, <4>2, Shape
    <3>8. \A i \in DOMAIN trace.actions :
             i >= position' /\ trace.actions[i].call = "begin"
             => txnMap'[trace.actions[i].txn] = NoTxn
      BY <1>1, <3>3, <3>7, Shape
    <3>9. \A t \in reported.committed \cup reported.aborted : t \in 1 .. 2 /\ t # Action.txn
      <4>1. NoTxn \notin committed
        BY DEF IInv, TypeOK
      <4>2. QED
        BY <3>2, <4>1
    <3>10. QED
      BY <1>1, <1>3, <1>4, <3>2, <3>3, <3>5, <3>6, <3>8, <3>9, EndedStays
  <2>3. QED
    BY <1>6, <2>1, <2>2 DEF ReplayBegin
<1>7. CASE UNCHANGED <<txnMap, reported>>
  BY <1>3, <1>4, <1>5, <1>7
<1>8. ASSUME UNCHANGED txnMap, NEW how \in {"committed", "aborted"}, Reports(how),
             txnMap[Action.txn] # NoTxn,
             how = "committed" => txnMap[Action.txn] \in committed',
             how = "aborted" => status'[txnMap[Action.txn]] \in {"Committed", "Aborted"}
      PROVE  Told'
  <2>1. reported' = [reported EXCEPT ![how] = @ \cup {Action.txn}]
    BY <1>8 DEF Reports
  <2>2. /\ reported' \in [committed : SUBSET (1 .. 2), aborted : SUBSET (1 .. 2)]
        /\ \A t \in reported'.committed :
              t \in reported.committed \/ (how = "committed" /\ t = Action.txn)
        /\ \A t \in reported'.aborted :
              t \in reported.aborted \/ (how = "aborted" /\ t = Action.txn)
    BY <1>2, <2>1
  <2>3. QED
    BY <1>3, <1>4, <1>5, <1>8, <2>2
<1>9. CASE ReplayCommit
  <2>1. Txn \in TxnId /\ Txn = txnMap[Action.txn] /\ Txn # NoTxn
    <3>1. Txn \in active /\ Txn = txnMap[Action.txn]
      BY <1>9 DEF ReplayCommit, RunnerCommit, Txn
    <3>2. QED
      BY <3>1 DEF RunnerInv, Recording
  <2>2. IF Txn \in {t \in TxnId : outcome'[t] = "Commit"}
        THEN Txn \in committed' ELSE status'[Txn] = "Aborted"
    BY <1>9, <2>1, CommitEnds DEF ReplayCommit
  <2>3. UNCHANGED txnMap
    BY <1>9 DEF ReplayCommit
  <2>4. \/ UNCHANGED reported
        \/ Reports("committed") /\ Txn \in committed'
        \/ Reports("aborted") /\ status'[Txn] = "Aborted"
    BY <1>9, <2>2 DEF ReplayCommit
  <2>5. QED
    BY <1>7, <1>8, <2>1, <2>3, <2>4
<1>10. CASE ReplayAbort
  <2>1. UNCHANGED txnMap
    BY <1>10 DEF ReplayAbort
  <2>2. CASE UNCHANGED reported
    BY <1>7, <2>1, <2>2
  <2>3. CASE Txn # NoTxn /\ Reports("aborted")
             /\ IF Txn \in active THEN RunnerAbort(Txn) ELSE UNCHANGED allVars
    <3>1. Txn \in TxnId /\ Txn = txnMap[Action.txn] /\ status[Txn] \in Status /\ status[Txn] # "Unborn"
      BY <1>2, <2>3 DEF Txn, IInv, TypeOK
    <3>2. Txn \in active => status'[Txn] = "Aborted"
      BY <2>3, <3>1, AbortEnds
    <3>3. Txn \notin active => status'[Txn] \in {"Committed", "Aborted"}
      BY <3>1, EndedStays DEF RunnerInv, Recording, Status
    <3>4. QED
      BY <1>8, <2>1, <2>3, <3>1, <3>2, <3>3
  <2>4. QED
    BY <1>10, <2>2, <2>3 DEF ReplayAbort
<1>11. QED
  BY <1>6, <1>7, <1>9, <1>10 DEF ReplayNext, Refused, Access

\* An action of a replay without faults: what it asks of the runner is done and
\* answered.
LEMMA WithoutFault ==
    ASSUME Told, ReplayNext, faults = 0, faults' = 0
    PROVE  /\ position \in DOMAIN trace.actions /\ Action = trace.actions[position]
           /\ position' = position + 1 /\ UNCHANGED <<trace, keyOf>>
           /\ \/ /\ Action.call = "begin" /\ RunnerBegin(TRUE) /\ UNCHANGED reported
                 /\ txnMap' = [txnMap EXCEPT ![Action.txn] = nextTxn] /\ Answers
              \/ /\ Action.call = "read" /\ RunnerRead(Txn, keyOf[Action.key])
                 /\ UNCHANGED <<txnMap, reported>> /\ Answers
              \/ /\ Action.call = "write"
                 /\ \E value \in Values : RunnerWrite(Txn, keyOf[Action.key], value)
                 /\ UNCHANGED <<txnMap, reported>> /\ Answers
              \/ /\ Action.call = "commit" /\ RunnerCommit(Txn) /\ UNCHANGED txnMap
                 /\ Reports(IF Txn \in {t \in TxnId : outcome'[t] = "Commit"}
                            THEN "committed" ELSE "aborted")
                 /\ Answers
              \/ /\ Action.call = "abort" /\ Txn # NoTxn /\ Reports("aborted") /\ UNCHANGED txnMap
                 /\ IF Txn \in active THEN RunnerAbort(Txn) ELSE UNCHANGED allVars
                 /\ Answers
              \/ Action.call = "abort" /\ Txn = NoTxn
<1>1. ~Errs
  BY DEF Errs
<1>2. ASSUME NEW call, Current(call)
      PROVE  /\ position \in DOMAIN trace.actions /\ Action = trace.actions[position]
             /\ position' = position + 1 /\ UNCHANGED <<trace, keyOf>>
             /\ Action.call = call
  BY <1>2, Shape DEF Current, Action, Told
<1>3. CASE ReplayBegin
  BY <1>1, <1>2, <1>3 DEF ReplayBegin
<1>4. CASE Access
  BY <1>1, <1>2, <1>4 DEF Access
<1>5. CASE ReplayCommit
  BY <1>1, <1>2, <1>5 DEF ReplayCommit
<1>6. CASE ReplayAbort
  BY <1>1, <1>2, <1>6 DEF ReplayAbort
<1>7. QED
  BY <1>1, <1>3, <1>4, <1>5, <1>6 DEF ReplayNext, Refused

\* The plan of a trace is followed step by step: the store's transactions are those
\* of the trace, each logs one write and in its turn, and reads are attributed to
\* what was logged.
LEMMA StepFollowed ==
    ASSUME IInv, RunnerInv, IInv', RunnerInv', Told, Told', ReplayNext, faults = 0, faults' = 0,
           NEW second \in Nat \ {0, 1}, NEW at1 \in Nat, NEW at2 \in Nat,
           NEW key1 \in 1 .. 2, NEW key2 \in 1 .. 2,
           Plan(second, at1, key1, at2, key2), Followed(second, at1, key1, at2, key2)
    PROVE  Followed(second, at1, key1, at2, key2)'
<1> DEFINE Turn(t, k, p) == \/ t = 1 /\ p > at1 /\ k = keyOf[key1]
                            \/ t = 2 /\ p > at2 /\ k = keyOf[key2]
<1>1. /\ position \in DOMAIN trace.actions /\ Action = trace.actions[position]
      /\ position' = position + 1 /\ UNCHANGED <<trace, keyOf>>
  BY WithoutFault
<1>2. /\ position \in Nat \ {0} /\ executed \in Nat /\ DOMAIN trace.actions \subseteq Nat
      /\ runnerTs \in Nat /\ nextTxn \in Nat
      /\ Action.txn \in 1 .. 2
      /\ Action.call \in {"read", "write"} => keyOf[Action.key] \in Keys
      /\ txnMap \in [1 .. 2 -> TxnId \cup {NoTxn}]
  <2>1. runnerTs \in Nat /\ nextTxn \in Nat
    BY DEF RunnerInv, Recording, IInv, TypeOK
  <2>2. /\ position \in Nat \ {0} /\ executed \in Nat
        /\ keyOf \in [1 .. 2 -> Keys] /\ txnMap \in [1 .. 2 -> TxnId \cup {NoTxn}]
    BY Shape DEF Told
  <2>3. /\ DOMAIN trace.actions \subseteq Nat /\ Action.txn \in 1 .. 2
        /\ Action.call \in {"read", "write"} => Action.key \in 1 .. 2
    <3>1. trace \in Traces
      BY DEF Told
    <3>2. DOMAIN trace.actions = 1 .. Len(trace.actions) /\ Len(trace.actions) \in Nat
      BY <3>1, Shape, Zenon
    <3>3. /\ trace.actions[position].txn \in 1 .. 2
          /\ trace.actions[position].call \in {"read", "write"} =>
                trace.actions[position].key \in 1 .. 2
      BY <1>1 DEF Plan
    <3>4. QED
      BY <1>1, <3>2, <3>3
  <2>4. QED
    BY <2>1, <2>2, <2>3
<1>3. /\ Action.call = "begin" <=> position \in {1, second}
      /\ position = 1 => Action.txn = 1
      /\ position = second => Action.txn = 2
      /\ Action.call = "write" => \/ position = at1 /\ Action.txn = 1 /\ Action.key = key1
                                  \/ position = at2 /\ Action.txn = 2 /\ Action.key = key2
      /\ Action.call = "abort" => position > 1 /\ Action.txn = 1
  BY <1>1 DEF Plan
<1>4. /\ executed = position - 1
      /\ txnMap[1] = IF position = 1 THEN NoTxn ELSE 1
      /\ txnMap[2] \in {NoTxn, 2}
      /\ nextTxn = IF position = 1 THEN 1 ELSE IF position <= second THEN 2 ELSE 3
      /\ \A t \in TxnId, k \in Keys :
            logWrites[t][k] <= 1 /\ (logWrites[t][k] > 0 => Turn(t, k, position))
      /\ lastWriter \in [Keys -> TxnId \cup {NoTxn}]
      /\ \A k \in Keys : lastWriter[k] # NoTxn => logWrites[lastWriter[k]][k] > 0
      /\ \A r \in logReads : r.version # NoTxn =>
            r.key \in Keys /\ r.version \in TxnId /\ logWrites[r.version][r.key] > 0
      /\ \A t \in TxnId : commitTs[t] < runnerTs
      /\ \A i \in DOMAIN trace.actions : i < position /\ trace.actions[i].call = "commit" =>
            trace.actions[i].txn \in reported.committed \cup reported.aborted
  BY DEF Followed
<1>5. ASSUME executed' = position' - 1,
             txnMap'[1] = 1, txnMap'[2] \in {NoTxn, 2},
             nextTxn' = IF position' <= second THEN 2 ELSE 3,
             \A t \in TxnId, k \in Keys :
                logWrites'[t][k] <= 1 /\ (logWrites'[t][k] > 0 => Turn(t, k, position')),
             lastWriter' \in [Keys -> TxnId \cup {NoTxn}],
             \A k \in Keys : lastWriter'[k] # NoTxn => logWrites'[lastWriter'[k]][k] > 0,
             \A r \in logReads' : r.version # NoTxn =>
                r.key \in Keys /\ r.version \in TxnId /\ logWrites'[r.version][r.key] > 0,
             \A t \in TxnId : commitTs'[t] < runnerTs',
             \A i \in DOMAIN trace.actions : i < position' /\ trace.actions[i].call = "commit" =>
                trace.actions[i].txn \in reported'.committed \cup reported'.aborted
      PROVE  Followed(second, at1, key1, at2, key2)'
  <2>1. position' # 1
    BY <1>1, <1>2
  <2>2. QED
    BY <1>1, <1>5, <2>1 DEF Followed
<1>6. ASSUME UNCHANGED reported, Action.call # "commit"
      PROVE  \A i \in DOMAIN trace.actions : i < position' /\ trace.actions[i].call = "commit" =>
                trace.actions[i].txn \in reported'.committed \cup reported'.aborted
  BY <1>1, <1>2, <1>4, <1>6
<1>7. Answers => executed' = position' - 1
  BY <1>1, <1>2, <1>4 DEF Answers
<1>8. ASSUME UNCHANGED logWrites
      PROVE  \A t \in TxnId, k \in Keys :
                logWrites'[t][k] <= 1 /\ (logWrites'[t][k] > 0 => Turn(t, k, position'))
  BY <1>1, <1>2, <1>4, <1>8
<1>9. CASE Action.call = "begin" /\ RunnerBegin(TRUE) /\ UNCHANGED reported
           /\ txnMap' = [txnMap EXCEPT ![Action.txn] = nextTxn] /\ Answers
  <2>1. /\ nextTxn' = nextTxn + 1 /\ runnerTs' = runnerTs + 1
        /\ UNCHANGED <<commitTs, lastWriter, logReads, logWrites>>
    BY <1>9 DEF RunnerBegin, ListBegin, Begin
  <2>2. txnMap'[1] = 1 /\ txnMap'[2] \in {NoTxn, 2}
    BY <1>2, <1>3, <1>4, <1>9
  <2>3. nextTxn' = IF position' <= second THEN 2 ELSE 3
    BY <1>1, <1>2, <1>3, <1>4, <1>9, <2>1
  <2>4. \A t \in TxnId : commitTs'[t] < runnerTs'
    BY <1>2, <1>4, <2>1 DEF RunnerInv, Recording
  <2>5. QED
    BY <1>4, <1>5, <1>6, <1>7, <1>8, <1>9, <2>1, <2>2, <2>3, <2>4
<1>10. CASE Action.call # "begin"
  <2> USE <1>10
  <2>1. /\ position \notin {1, second} /\ txnMap[1] = 1
        /\ nextTxn = IF position' <= second THEN 2 ELSE 3
    BY <1>1, <1>2, <1>3, <1>4
  <2>2. 1 \in TxnId /\ 1 # NoTxn
    <3>1. nextTxn >= 2 /\ nextTxn <= MaxTxns + 1
      BY <2>1 DEF IInv, TypeOK
    <3>2. QED
      BY <1>2, <3>1 DEF TxnId
  <2>3. Txn \in TxnId => Txn = Action.txn
    BY <1>2, <1>4 DEF Txn
  <2>4. CASE Action.call = "read" /\ RunnerRead(Txn, keyOf[Action.key])
             /\ UNCHANGED <<txnMap, reported>> /\ Answers
    <3>1. /\ UNCHANGED <<nextTxn, runnerTs, commitTs, lastWriter, logWrites>>
          /\ logReads' = logReads \cup {[txn |-> Txn, key |-> keyOf[Action.key],
                                         version |-> lastWriter[keyOf[Action.key]]]}
      BY <2>4 DEF RunnerRead, ListRead, Read, listVars, vars
    <3>2. \A r \in logReads' : r.version # NoTxn =>
             r.key \in Keys /\ r.version \in TxnId /\ logWrites'[r.version][r.key] > 0
      BY <1>2, <1>4, <2>4, <3>1
    <3>3. QED
      BY <1>4, <1>5, <1>6, <1>7, <1>8, <2>1, <2>4, <3>1, <3>2
  <2>5. CASE Action.call = "write" /\ (\E value \in Values : RunnerWrite(Txn, keyOf[Action.key], value))
             /\ UNCHANGED <<txnMap, reported>> /\ Answers
    <3> DEFINE key == keyOf[Action.key]
    <3>1. PICK value \in Values : RunnerWrite(Txn, key, value)
      BY <2>5
    <3>2. Txn \in TxnId /\ key \in Keys /\ Txn = Action.txn
      BY <1>2, <2>3, <2>5, <3>1 DEF RunnerWrite, RunnerInv, Recording
    <3>3. /\ UNCHANGED <<nextTxn, runnerTs, commitTs, logReads>>
          /\ logWrites' = [logWrites EXCEPT ![Txn] = [logWrites[Txn] EXCEPT ![key] = @ + 1]]
          /\ lastWriter' = [lastWriter EXCEPT ![key] = Txn]
          /\ logWrites \in [TxnId -> [Keys -> Nat]]
      BY <3>1 DEF RunnerWrite, ListWrite, Write, listVars, vars, RunnerInv, Logged
    <3>4. Turn(Txn, key, position') /\ ~Turn(Txn, key, position)
      BY <1>1, <1>2, <1>3, <2>5, <3>2
    <3>5. /\ logWrites[Txn][key] = 0 /\ logWrites'[Txn][key] = 1
          /\ \A t \in TxnId, k \in Keys : t # Txn \/ k # key => logWrites'[t][k] = logWrites[t][k]
      BY <1>4, <3>2, <3>3, <3>4
    <3>6. \A t \in TxnId, k \in Keys :
             logWrites'[t][k] <= 1 /\ (logWrites'[t][k] > 0 => Turn(t, k, position'))
      BY <1>1, <1>2, <1>4, <3>4, <3>5
    <3>7. \A t \in TxnId, k \in Keys : logWrites[t][k] > 0 => logWrites'[t][k] > 0
      BY <3>2, <3>5
    <3>8. \A k \in Keys : lastWriter'[k] # NoTxn => logWrites'[lastWriter'[k]][k] > 0
      BY <1>4, <3>2, <3>3, <3>5, <3>7
    <3>9. \A r \in logReads' : r.version # NoTxn =>
             r.key \in Keys /\ r.version \in TxnId /\ logWrites'[r.version][r.key] > 0
      BY <1>4, <3>3, <3>7
    <3>10. lastWriter' \in [Keys -> TxnId \cup {NoTxn}]
      BY <1>4, <3>2, <3>3
    <3>11. QED
      BY <1>4, <1>5, <1>6, <1>7, <2>1, <2>5, <3>3, <3>6, <3>8, <3>9, <3>10
  <2>6. ASSUME UNCHANGED <<nextTxn, lastWriter, logReads, logWrites, txnMap>>, Answers,
               \A t \in TxnId : commitTs'[t] < runnerTs',
               Action.call = "commit" => Action.txn \in reported'.committed \cup reported'.aborted,
               reported.committed \subseteq reported'.committed,
               reported.aborted \subseteq reported'.aborted
        PROVE  Followed(second, at1, key1, at2, key2)'
    <3>1. \A i \in DOMAIN trace.actions : i < position' /\ trace.actions[i].call = "commit" =>
             trace.actions[i].txn \in reported'.committed \cup reported'.aborted
      <4>1. \A i \in DOMAIN trace.actions : i < position' => i < position \/ i = position
        BY <1>1, <1>2
      <4>2. QED
        BY <1>1, <1>4, <2>6, <4>1
    <3>2. QED
      BY <1>4, <1>5, <1>7, <1>8, <2>1, <2>6, <3>1
  <2>7. ASSUME NEW how \in {"committed", "aborted"}, Reports(how)
        PROVE  /\ Action.txn \in reported'.committed \cup reported'.aborted
               /\ reported.committed \subseteq reported'.committed
               /\ reported.aborted \subseteq reported'.aborted
    BY <2>7 DEF Reports, Told
  <2>8. CASE Action.call = "commit" /\ RunnerCommit(Txn) /\ UNCHANGED txnMap /\ Answers
             /\ Reports(IF Txn \in {t \in TxnId : outcome'[t] = "Commit"}
                        THEN "committed" ELSE "aborted")
    <3>1. Txn \in TxnId
      BY <2>8 DEF RunnerCommit, RunnerInv, Recording
    <3>2. UNCHANGED <<nextTxn, lastWriter, logReads, logWrites>>
      BY <2>8, <3>1, CommitEnds DEF RunnerCommit, ListCommit, ListCommitFails, Commit, CommitFails
    <3>3. \A t \in TxnId : commitTs'[t] < runnerTs'
      <4>1. \/ UNCHANGED <<commitTs, runnerTs>>
            \/ commitTs' = [commitTs EXCEPT ![Txn] = runnerTs] /\ runnerTs' = runnerTs + 1
        BY <2>8, <3>1, CommitEnds DEF RunnerCommitted, RunnerRefused
      <4>2. QED
        BY <1>2, <1>4, <3>1, <4>1 DEF RunnerInv, Recording
    <3>4. QED
      BY <2>6, <2>7, <2>8, <3>2, <3>3
  <2>9. CASE Action.call = "abort" /\ Txn # NoTxn /\ Reports("aborted") /\ UNCHANGED txnMap
             /\ (IF Txn \in active THEN RunnerAbort(Txn) ELSE UNCHANGED allVars)
             /\ Answers
    <3>1. UNCHANGED <<nextTxn, lastWriter, logReads, logWrites, commitTs, runnerTs>>
      BY <2>9 DEF RunnerAbort, ListAbort, Abort, allVars, runnerVars, listVars, vars
    <3>2. QED
      BY <1>4, <2>6, <2>7, <2>9, <3>1
  <2>10. ~(Action.call = "abort" /\ Txn = NoTxn)
    BY <1>3, <2>1, <2>2 DEF Txn
  <2>11. QED
    BY <2>4, <2>5, <2>8, <2>9, <2>10, WithoutFault
<1>11. QED
  BY <1>9, <1>10, WithoutFault

\* What the traces ask for besides their plans.
LEMMA Calls ==
    ASSUME NEW i \in DOMAIN trace.actions, NEW a, a = trace.actions[i]
    PROVE  /\ trace = DangerousStructure =>
                 /\ a.call = "read" => i \in {3, 4}
                 /\ a.call = "commit" => (i = 6 /\ a.txn = 2) \/ (i = 8 /\ a.txn = 1)
                 /\ a.call # "abort" /\ (i = 6 => a.call = "commit" /\ a.txn = 2)
           /\ trace = DisjointKeys => a.call \notin {"read", "abort"}
           /\ trace = SequentialWrites =>
                 /\ a.call \notin {"read", "abort"}
                 /\ a.call = "commit" => (i = 3 /\ a.txn = 1) \/ (i = 6 /\ a.txn = 2)
           /\ trace = SingleConflictFlag =>
                 /\ a.call = "read" => i = 3 /\ a.txn = 1
                 /\ a.call # "abort" /\ i # 8
           /\ trace = ReadOnly =>
                 /\ a.call = "read" => i = 5 /\ a.txn = 2
                 /\ a.call # "abort" /\ i # 8
                 /\ a.call = "commit" => (i = 3 /\ a.txn = 1) \/ (i = 6 /\ a.txn = 2)
                 /\ i = 3 => a.call = "commit" /\ a.txn = 1
           /\ trace = GivesUp =>
                 /\ a.call # "read" /\ (i = 3 => a.call = "abort")
                 /\ a.call = "commit" => i = 6 /\ a.txn = 2
<1>1. trace = DangerousStructure =>
       /\ a.call = "read" => i \in {3, 4}
       /\ a.call = "commit" => (i = 6 /\ a.txn = 2) \/ (i = 8 /\ a.txn = 1)
       /\ a.call # "abort" /\ (i = 6 => a.call = "commit" /\ a.txn = 2)
  BY DEF DangerousStructure, Oracle, Do
<1>2. trace = DisjointKeys => a.call \notin {"read", "abort"}
  BY DEF DisjointKeys, Oracle, Do
<1>3. trace = SequentialWrites =>
       /\ a.call \notin {"read", "abort"}
       /\ a.call = "commit" => (i = 3 /\ a.txn = 1) \/ (i = 6 /\ a.txn = 2)
  BY DEF SequentialWrites, Oracle, Do
<1>4. trace = SingleConflictFlag =>
       /\ a.call = "read" => i = 3 /\ a.txn = 1
       /\ a.call # "abort" /\ i # 8
  BY DEF SingleConflictFlag, Oracle, Do
<1>5. trace = ReadOnly =>
       /\ a.call = "read" => i = 5 /\ a.txn = 2
       /\ a.call # "abort" /\ i # 8
       /\ a.call = "commit" => (i = 3 /\ a.txn = 1) \/ (i = 6 /\ a.txn = 2)
       /\ i = 3 => a.call = "commit" /\ a.txn = 1
  BY DEF ReadOnly, Oracle, Do
<1>6. trace = GivesUp =>
       /\ a.call # "read" /\ (i = 3 => a.call = "abort")
       /\ a.call = "commit" => i = 6 /\ a.txn = 2
  BY DEF GivesUp, Oracle, Do
<1>7. QED
  BY <1>1, <1>2, <1>3, <1>4, <1>5, <1>6

\* A step of a replay before which and after which no fault has fired.
FaultFreeStep ==
    /\ IInv /\ RunnerInv /\ Told /\ ReplayNext
    /\ IInv' /\ RunnerInv' /\ Told'
    /\ faults = 0 /\ faults' = 0

\* What the action of a replay without faults does to the marks and to the dates of
\* begin and commit.
Marks ==
    LET t == Action.txn
        k == keyOf[Action.key]
    IN  \/ /\ Action.call = "begin" /\ nextTxn \in TxnId
           /\ nextTxn = IF position = 1 THEN 1 ELSE 2
           /\ startTs' = [startTs EXCEPT ![nextTxn] = runnerTs]
           /\ status' = [status EXCEPT ![nextTxn] = "Active"]
           /\ UNCHANGED <<inConflict, outConflict, siread, logReads, commitTs, reported>>
        \/ /\ Action.call = "read" /\ t \in TxnId /\ k \in Keys
           /\ UNCHANGED <<startTs, commitTs, status, reported>>
           /\ Read(t, k) \/ UNCHANGED <<inConflict, outConflict, siread>>
        \/ /\ Action.call = "write" /\ t \in TxnId /\ k \in Keys
           /\ UNCHANGED <<startTs, commitTs, status, siread, logReads, reported>>
           /\ Write(t, k) \/ UNCHANGED <<inConflict, outConflict>>
        \/ /\ Action.call = "commit" /\ t \in TxnId
           /\ UNCHANGED <<inConflict, outConflict, siread, startTs, logReads>>
           /\ \A u \in TxnId \ {t} : status'[u] = status[u] /\ commitTs'[u] = commitTs[u]
           /\ \/ /\ ~Dangerous(t) /\ status'[t] = "Committed"
                 /\ Reports("committed")
              \/ Dangerous(t) /\ status'[t] = "Aborted"
        \/ /\ Action.call = "abort" /\ UNCHANGED <<inConflict, outConflict, startTs, commitTs, logReads>>
           /\ \A key \in Keys : siread'[key] \subseteq siread[key]
           /\ Reports("aborted")

LEMMA StepMarks ==
    ASSUME FaultFreeStep,
           NEW second \in Nat \ {0, 1}, NEW at1 \in Nat, NEW at2 \in Nat,
           NEW key1 \in 1 .. 2, NEW key2 \in 1 .. 2,
           Plan(second, at1, key1, at2, key2), Followed(second, at1, key1, at2, key2)
    PROVE  Marks
<1> USE DEF FaultFreeStep, Marks
<1> DEFINE t == Action.txn
           k == keyOf[Action.key]
<1>1. /\ position \in DOMAIN trace.actions /\ Action = trace.actions[position]
      /\ Action.txn \in 1 .. 2
      /\ Action.call \in {"read", "write"} => k \in Keys
  <2>1. /\ position \in DOMAIN trace.actions /\ Action = trace.actions[position]
    BY WithoutFault
  <2>2. /\ Action.txn \in 1 .. 2
        /\ Action.call \in {"read", "write"} => Action.key \in 1 .. 2
    BY <2>1, Shape DEF Told
  <2>3. QED
    BY <2>1, <2>2 DEF Told
<1>2. /\ Action.call = "begin" <=> position \in {1, second}
      /\ Action.call = "abort" => position > 1 /\ Action.txn = 1
  BY <1>1 DEF Plan
<1>3. /\ txnMap[1] = IF position = 1 THEN NoTxn ELSE 1
      /\ txnMap[2] \in {NoTxn, 2}
      /\ nextTxn = IF position = 1 THEN 1 ELSE IF position <= second THEN 2 ELSE 3
  BY DEF Followed
<1>4. Txn \in TxnId => Txn = t
  BY <1>1, <1>3 DEF Txn
<1>5. \A u \in active : u \in TxnId /\ status[u] = "Active"
  BY DEF RunnerInv, Recording
<1>6. CASE Action.call = "begin" /\ RunnerBegin(TRUE) /\ UNCHANGED reported
  BY <1>2, <1>3, <1>6 DEF RunnerBegin, ListBegin, Begin
<1>7. CASE Action.call = "read" /\ RunnerRead(Txn, k) /\ UNCHANGED reported
  <2>1. Txn \in TxnId /\ Txn = t
    BY <1>4, <1>5, <1>7 DEF RunnerRead
  <2>2. Read(t, k) \/ UNCHANGED <<inConflict, outConflict, siread, status>>
    BY <1>7, <2>1 DEF RunnerRead, ListRead, listVars, vars, txnVars
  <2>3. UNCHANGED status
    BY <2>2 DEF Read
  <2>4. UNCHANGED <<startTs, commitTs>>
    BY <1>7 DEF RunnerRead
  <2>5. QED
    BY <1>1, <1>7, <2>1, <2>2, <2>3, <2>4
<1>8. CASE Action.call = "write" /\ (\E value \in Values : RunnerWrite(Txn, k, value))
           /\ UNCHANGED reported
  <2>1. PICK value \in Values : RunnerWrite(Txn, k, value)
    BY <1>8
  <2>2. Txn \in TxnId /\ Txn = t
    BY <1>4, <1>5, <2>1 DEF RunnerWrite
  <2>3. Write(t, k) \/ UNCHANGED <<inConflict, outConflict, siread, status>>
    BY <2>1, <2>2 DEF RunnerWrite, ListWrite, listVars, vars, txnVars
  <2>4. UNCHANGED <<siread, status>>
    BY <2>3 DEF Write
  <2>5. UNCHANGED <<startTs, commitTs, logReads>>
    BY <2>1 DEF RunnerWrite
  <2>6. QED
    BY <1>1, <1>8, <2>2, <2>3, <2>4, <2>5
<1>9. CASE Action.call = "commit" /\ RunnerCommit(Txn)
           /\ Reports(IF Txn \in {u \in TxnId : outcome'[u] = "Commit"}
                      THEN "committed" ELSE "aborted")
  <2>1. Txn \in TxnId /\ Txn = t
    BY <1>4, <1>5, <1>9 DEF RunnerCommit
  <2>2. \/ ListCommit(t) /\ RunnerCommitted(t)
        \/ ListCommitFails(t) /\ RunnerRefused(t)
    BY <1>9, <2>1, CommitEnds
  <2>3. UNCHANGED <<startTs, logReads>>
    BY <1>9 DEF RunnerCommit
  <2>4. /\ status \in [TxnId -> Status] /\ commitTs \in [TxnId -> Nat]
        /\ outcome \in [TxnId -> {"None", "Begin", "Commit", "Abort"}]
    BY DEF RunnerInv, Recording, IInv, TypeOK
  <2>5. CASE ListCommit(t) /\ RunnerCommitted(t)
    <3>1. /\ ~Dangerous(t) /\ status' = [status EXCEPT ![t] = "Committed"]
          /\ UNCHANGED <<inConflict, outConflict, siread>>
      BY <2>5 DEF ListCommit, Commit
    <3>2. commitTs' = [commitTs EXCEPT ![t] = runnerTs] /\ outcome'[t] = "Commit"
      BY <2>1, <2>4, <2>5 DEF RunnerCommitted
    <3>3. Reports("committed")
      BY <1>9, <2>1, <3>2
    <3>4. QED
      BY <1>9, <2>1, <2>3, <2>4, <3>1, <3>2, <3>3
  <2>6. CASE ListCommitFails(t) /\ RunnerRefused(t)
    <3>1. /\ Dangerous(t) /\ status' = [status EXCEPT ![t] = "Aborted"]
          /\ UNCHANGED <<inConflict, outConflict, siread, commitTs>>
      BY <2>6 DEF ListCommitFails, CommitFails, RunnerRefused
    <3>2. QED
      BY <1>9, <2>1, <2>3, <2>4, <3>1
  <2>7. QED
    BY <2>2, <2>5, <2>6
<1>10. CASE Action.call = "abort" /\ Reports("aborted")
            /\ (IF Txn \in active THEN RunnerAbort(Txn) ELSE UNCHANGED allVars)
  <2>1. CASE UNCHANGED allVars
    BY <1>10, <2>1 DEF allVars, runnerVars, listVars, vars, txnVars
  <2>2. CASE Txn \in active /\ RunnerAbort(Txn)
    <3>1. ListAbort(Txn) /\ siread \in [Keys -> SUBSET TxnId]
      BY <1>5, <2>2 DEF RunnerAbort, IInv, TypeOK
    <3>2. /\ UNCHANGED <<inConflict, outConflict>>
          /\ \A key \in Keys : siread'[key] \subseteq siread[key]
      BY <3>1 DEF ListAbort, Abort
    <3>3. UNCHANGED <<startTs, commitTs, logReads>>
      BY <2>2 DEF RunnerAbort
    <3>4. QED
      BY <1>10, <3>2, <3>3
  <2>3. QED
    BY <1>10, <2>1, <2>2
<1>11. ~(Action.call = "abort" /\ Txn = NoTxn)
  <2>1. SUFFICES ASSUME position > 1 PROVE 1 # NoTxn
    BY <1>2, <1>3 DEF Txn
  <2>2. nextTxn >= 2 /\ nextTxn \in 1 .. MaxTxns + 1
    BY <1>3, <2>1 DEF IInv, TypeOK
  <2>3. QED
    BY <2>2 DEF TxnId
<1>12. QED
  BY <1>6, <1>7, <1>8, <1>9, <1>10, <1>11, WithoutFault

\* The action being played is one of the trace.
LEMMA Playing ==
    ASSUME FaultFreeStep
    PROVE  /\ position \in DOMAIN trace.actions /\ Action = trace.actions[position]
           /\ position \in Nat \ {0} /\ position' = position + 1 /\ trace' = trace
           /\ Action.txn \in 1 .. 2
<1>1. /\ position \in DOMAIN trace.actions /\ Action = trace.actions[position]
      /\ position' = position + 1 /\ trace' = trace
  BY WithoutFault DEF FaultFreeStep
<1>2. position \in Nat \ {0} /\ Action.txn \in 1 .. 2
  BY <1>1, Shape DEF FaultFreeStep, Told
<1>3. QED
  BY <1>1, <1>2

\* A read of a key on which the plan has written nothing yet finds nothing newer.
LEMMA NothingWritten ==
    ASSUME IInv, RunnerInv, NEW second, NEW at1 \in Nat, NEW at2 \in Nat, NEW key1, NEW key2,
           Followed(second, at1, key1, at2, key2), position \in Nat,
           position <= at1, position <= at2, NEW txn \in TxnId, NEW key \in Keys
    PROVE  NewerWriters(txn, key) = {}
<1>1. data[key] = {}
  <2>1. SUFFICES ASSUME NEW v \in data[key] PROVE FALSE
    OBVIOUS
  <2>2. v.writer \in TxnId
    BY DEF IInv, TypeOK, Version
  <2>3. logWrites[v.writer][key] > 0
    BY DEF RunnerInv, Logged
  <2>4. QED
    BY <2>2, <2>3 DEF Followed
<1>2. QED
  BY <1>1 DEF NewerWriters

\* Where nothing newer is found, a read marks nobody.
LEMMA ReadUnmarked ==
    ASSUME IInv, NEW txn \in TxnId, NEW key \in Keys, Read(txn, key), NewerWriters(txn, key) = {}
    PROVE  UNCHANGED <<inConflict, outConflict>>
BY DEF Read, IInv, TypeOK

\* Where nobody holds a SIREAD lock, a write marks nobody.
LEMMA WriteUnmarked ==
    ASSUME IInv, NEW txn \in TxnId, NEW key \in Keys, Write(txn, key), NoLocks
    PROVE  UNCHANGED <<inConflict, outConflict>>
<1>1. ConcurrentReaders(txn, key) = {}
  BY DEF NoLocks, ConcurrentReaders
<1>2. QED
  BY <1>1 DEF Write, IInv, TypeOK

\* Where nobody holds a SIREAD lock and nothing is read, nobody is ever marked.
LEMMA StepUnmarked ==
    ASSUME FaultFreeStep, Unmarked, NoLocks, Action.call # "read",
           NEW second \in Nat \ {0, 1}, NEW at1 \in Nat, NEW at2 \in Nat,
           NEW key1 \in 1 .. 2, NEW key2 \in 1 .. 2,
           Plan(second, at1, key1, at2, key2), Followed(second, at1, key1, at2, key2)
    PROVE  Unmarked' /\ NoLocks' /\ logReads' = logReads
<1>1. Marks
  BY StepMarks
<1>2. ASSUME NEW t \in TxnId, NEW k \in Keys, Write(t, k)
      PROVE  UNCHANGED <<inConflict, outConflict>>
  BY <1>2, WriteUnmarked DEF FaultFreeStep
<1>3. /\ UNCHANGED <<inConflict, outConflict, logReads>>
      /\ siread' = siread \/ \A k \in Keys : siread'[k] \subseteq siread[k]
  BY <1>1, <1>2 DEF Marks
<1>4. QED
  BY <1>3 DEF Unmarked, NoLocks

\* The first transaction of a sequential trace commits before the second begins.
LEMMA StepInTurn ==
    ASSUME FaultFreeStep, OneBeforeTwo,
           Action.call = "commit" => (position = 3 /\ Action.txn = 1) \/ (position = 6 /\ Action.txn = 2),
           NEW at1 \in Nat, NEW at2 \in Nat, NEW key1 \in 1 .. 2, NEW key2 \in 1 .. 2,
           Plan(4, at1, key1, at2, key2), Followed(4, at1, key1, at2, key2)
    PROVE  OneBeforeTwo'
<1> SUFFICES ASSUME position' > 4 PROVE commitTs'[1] < startTs'[2]
  BY DEF OneBeforeTwo
<1>1. position \in Nat /\ position >= 4 /\ position' = position + 1
  BY Playing
<1>2. nextTxn = (IF position = 4 THEN 2 ELSE 3) /\ nextTxn \in 1 .. MaxTxns + 1 /\ 1 \in TxnId
  <2>1. nextTxn = (IF position = 4 THEN 2 ELSE 3)
    BY <1>1 DEF Followed
  <2>2. nextTxn \in 1 .. MaxTxns + 1
    BY DEF FaultFreeStep, IInv, TypeOK
  <2>3. QED
    BY <2>1, <2>2 DEF TxnId
<1>3. /\ position = 4 <=> Action.call = "begin"
      /\ startTs \in [TxnId -> Timestamp]
      /\ commitTs[1] < runnerTs
  <2>1. Action.call = "begin" <=> position \in {1, 4}
    BY Playing DEF Plan
  <2>2. startTs \in [TxnId -> Timestamp]
    BY DEF FaultFreeStep, RunnerInv, Recording, IInv, TypeOK
  <2>3. QED
    BY <1>1, <1>2, <2>1, <2>2 DEF Followed
<1>4. CASE position = 4
  <2>1. /\ nextTxn = 2 /\ 2 \in TxnId /\ commitTs' = commitTs
        /\ startTs' = [startTs EXCEPT ![2] = runnerTs]
    <3>1. Marks
      BY StepMarks
    <3>2. QED
      BY <1>2, <1>3, <1>4, <3>1 DEF Marks
  <2>2. QED
    BY <1>2, <1>3, <2>1
<1>5. CASE position > 4
  <2>1. Action.call # "begin" /\ (Action.call = "commit" => 1 \in TxnId \ {Action.txn})
    BY <1>2, <1>3, <1>5
  <2>2. startTs' = startTs /\ commitTs'[1] = commitTs[1]
    <3>1. Marks
      BY StepMarks
    <3>2. QED
      BY <2>1, <3>1 DEF Marks
  <2>3. QED
    BY <1>5, <2>2 DEF OneBeforeTwo
<1>6. QED
  BY <1>1, <1>4, <1>5

\* Nothing is reported as aborted while no transaction is dangerous when it
\* commits and none is given up.
LEMMA StepNoneAborted ==
    ASSUME FaultFreeStep, reported.aborted = {}, Action.call # "abort",
           Action.txn \in TxnId => ~Dangerous(Action.txn),
           NEW second \in Nat \ {0, 1}, NEW at1 \in Nat, NEW at2 \in Nat,
           NEW key1 \in 1 .. 2, NEW key2 \in 1 .. 2,
           Plan(second, at1, key1, at2, key2), Followed(second, at1, key1, at2, key2)
    PROVE  reported'.aborted = {}
<1>1. reported' = reported \/ Reports("committed")
  <2>1. Marks
    BY StepMarks
  <2>2. QED
    BY <2>1 DEF Marks
<1>2. reported \in [committed : SUBSET (1 .. 2), aborted : SUBSET (1 .. 2)]
  BY DEF FaultFreeStep, Told
<1>3. QED
  BY <1>1, <1>2 DEF Reports

\* The trace of disjoint keys, played without faults.
LEMMA StepDisjointKeys ==
    ASSUME FaultFreeStep, trace = DisjointKeys, DisjointKeysPlayed
    PROVE  DisjointKeysPlayed'
<1>1. Plan(2, 3, 1, 4, 2) /\ Followed(2, 3, 1, 4, 2) /\ Action.call \notin {"read", "abort"}
  BY Plans, Playing, Calls DEF DisjointKeysPlayed
<1>2. Followed(2, 3, 1, 4, 2)'
  BY <1>1, StepFollowed DEF FaultFreeStep
<1>3. Unmarked' /\ NoLocks'
  BY <1>1, StepUnmarked DEF DisjointKeysPlayed
<1>4. reported'.aborted = {}
  BY <1>1, StepNoneAborted DEF DisjointKeysPlayed, Unmarked, Dangerous
<1>5. QED
  BY <1>2, <1>3, <1>4 DEF DisjointKeysPlayed

\* The trace of sequential writes.
LEMMA StepSequentialWrites ==
    ASSUME FaultFreeStep, trace = SequentialWrites, SequentialWritesPlayed
    PROVE  SequentialWritesPlayed'
<1>1. /\ Plan(4, 2, 1, 5, 1) /\ Followed(4, 2, 1, 5, 1) /\ Action.call \notin {"read", "abort"}
      /\ Action.call = "commit" => (position = 3 /\ Action.txn = 1) \/ (position = 6 /\ Action.txn = 2)
  BY Plans, Playing, Calls DEF SequentialWritesPlayed
<1>2. Followed(4, 2, 1, 5, 1)'
  BY <1>1, StepFollowed DEF FaultFreeStep
<1>3. Unmarked' /\ NoLocks' /\ logReads' = {}
  BY <1>1, StepUnmarked DEF SequentialWritesPlayed
<1>4. reported'.aborted = {}
  BY <1>1, StepNoneAborted DEF SequentialWritesPlayed, Unmarked, Dangerous
<1>5. OneBeforeTwo'
  BY <1>1, StepInTurn DEF SequentialWritesPlayed
<1>6. QED
  BY <1>2, <1>3, <1>4, <1>5 DEF SequentialWritesPlayed

\* The trace in which the first transaction gives up.
LEMMA StepGivesUp ==
    ASSUME FaultFreeStep, trace = GivesUp, GivesUpPlayed
    PROVE  GivesUpPlayed'
<1>1. /\ Plan(4, 2, 1, 5, 1) /\ Followed(4, 2, 1, 5, 1) /\ Action.call # "read"
      /\ Action.call = "commit" => position = 6 /\ Action.txn = 2
      /\ position = 3 => Action.call = "abort"
  BY Plans, Playing, Calls DEF GivesUpPlayed
<1>2. Followed(4, 2, 1, 5, 1)'
  BY <1>1, StepFollowed DEF FaultFreeStep
<1>3. Unmarked' /\ NoLocks' /\ logReads' = {}
  BY <1>1, StepUnmarked DEF GivesUpPlayed
<1>4. OneBeforeTwo'
  BY <1>1, StepInTurn DEF GivesUpPlayed
<1>5. position' > 3 => 1 \in reported'.aborted
  <2>1. reported \in [committed : SUBSET (1 .. 2), aborted : SUBSET (1 .. 2)]
    BY DEF FaultFreeStep, Told
  <2>2. reported' = reported \/ \E how \in {"committed", "aborted"} : Reports(how)
    BY DEF FaultFreeStep, ReplayNext, ReplayBegin, Refused, Access, ReplayCommit, ReplayAbort
  <2>3. reported.aborted \subseteq reported'.aborted
    BY <2>1, <2>2 DEF Reports
  <2>4. CASE position = 3
    <3>1. Action.call = "abort" /\ Action.txn = 1
      BY <1>1, <2>4, Playing DEF Plan
    <3>2. Reports("aborted")
      <4>1. Plan(4, 2, 1, 5, 1) /\ Followed(4, 2, 1, 5, 1)
        BY <1>1
      <4>2. Marks
        BY <4>1, StepMarks
      <4>3. QED
        BY <3>1, <4>2 DEF Marks
    <3>3. QED
      BY <2>1, <3>1, <3>2 DEF Reports
  <2>5. QED
    BY <2>3, <2>4, Playing DEF GivesUpPlayed
<1>6. QED
  BY <1>2, <1>3, <1>4, <1>5 DEF GivesUpPlayed

\* A transaction whose commit has been played has ended.
LEMMA CommitPlayed ==
    ASSUME IInv, RunnerInv, Told, NEW second, NEW at1, NEW at2, NEW key1, NEW key2,
           Followed(second, at1, key1, at2, key2),
           NEW i \in DOMAIN trace.actions, i < position, trace.actions[i].call = "commit",
           NEW t \in 1 .. 2, trace.actions[i].txn = t
    PROVE  t \in TxnId /\ status[t] \in {"Committed", "Aborted"}
<1>1. t \in reported.committed \cup reported.aborted
  BY DEF Followed
<1>2. committed = {u \in TxnId : status[u] = "Committed"}
  BY DEF RunnerInv, Recording
<1>3. txnMap[t] \in TxnId /\ status[txnMap[t]] \in {"Committed", "Aborted"}
  BY <1>1, <1>2 DEF Told
<1>4. txnMap[t] = t
  <2>1. txnMap[t] # NoTxn
    BY <1>3
  <2>2. QED
    BY <2>1 DEF Followed
<1>5. QED
  BY <1>3, <1>4

\* The trace of a reader that begins after the writer committed: nothing it reads
\* is newer than its snapshot.
LEMMA StepReadOnly ==
    ASSUME FaultFreeStep, trace = ReadOnly, ReadOnlyPlayed
    PROVE  ReadOnlyPlayed'
<1>1. /\ Plan(4, 2, 1, 8, 2) /\ Followed(4, 2, 1, 8, 2) /\ Action.call # "abort"
      /\ Action.call = "commit" => (position = 3 /\ Action.txn = 1) \/ (position = 6 /\ Action.txn = 2)
      /\ Action.call = "read" => position = 5 /\ Action.txn = 2
      /\ position # 8
  BY Plans, Playing, Calls DEF ReadOnlyPlayed
<1>2. Followed(4, 2, 1, 8, 2)'
  BY <1>1, StepFollowed DEF FaultFreeStep
<1>3. reported'.aborted = {}
  BY <1>1, StepNoneAborted DEF ReadOnlyPlayed, Unmarked, Dangerous
<1>4. OneBeforeTwo'
  BY <1>1, StepInTurn DEF ReadOnlyPlayed
<1>5. Unmarked' /\ (position' <= 5 => NoLocks')
  <2>1. CASE Action.call # "read" /\ position <= 5
    BY <1>1, <2>1, StepUnmarked DEF ReadOnlyPlayed
  <2>2. CASE Action.call # "read" /\ position > 5
    <3>1. Action.call # "write"
      BY <1>1, <2>2, Playing DEF Plan
    <3>2. UNCHANGED <<inConflict, outConflict>>
      <4>1. Marks
        BY <1>1, StepMarks
      <4>2. QED
        BY <1>1, <2>2, <3>1, <4>1 DEF Marks
    <3>3. QED
      BY <2>2, <3>2, Playing DEF ReadOnlyPlayed, Unmarked
  <2>3. CASE Action.call = "read"
    <3>1. /\ position = 5 /\ Action.txn = 2 /\ nextTxn = 3
          /\ DOMAIN trace.actions = 1 .. 6
      BY <1>1, <2>3, Lengths DEF Followed
    <3>2. 1 \in TxnId /\ status[1] \in {"Committed", "Aborted"}
      <4>1. trace.actions[3].call = "commit" /\ trace.actions[3].txn = 1
        BY <3>1, Calls
      <4>2. QED
        BY <1>1, <3>1, <4>1, CommitPlayed DEF FaultFreeStep
    <3>3. 2 \in TxnId /\ commitTs[1] < snapshot[2]
      <4>1. nextTxn \in 1 .. MaxTxns + 1
        BY DEF FaultFreeStep, IInv, TypeOK
      <4>2. QED
        BY <3>1, <4>1 DEF ReadOnlyPlayed, OneBeforeTwo, FaultFreeStep, RunnerInv, Recording, TxnId
    <3>4. ASSUME NEW key \in Keys PROVE NewerWriters(2, key) = {}
      <4>1. SUFFICES ASSUME NEW w \in TxnId \ {2}, status[w] \in {"Active", "Committed"},
                            NEW v \in data[key], v.writer = w, v.ts > snapshot[2]
                     PROVE  FALSE
        BY DEF NewerWriters
      <4>2. w = 1
        <5>1. w \notin nextTxn .. MaxTxns
          BY <4>1 DEF FaultFreeStep, IInv, ClockAhead
        <5>2. QED
          BY <3>1, <5>1 DEF TxnId
      <4>3. v.ts # Pending
        BY <3>2, <4>1, <4>2 DEF FaultFreeStep, IInv, LockGuardsPending, PendingLocked
      <4>4. v.ts = commitTs[1]
        BY <4>1, <4>2, <4>3 DEF FaultFreeStep, RunnerInv, Logged
      <4>5. snapshot[2] \in Nat /\ v.ts \in Nat
        BY <3>3 DEF FaultFreeStep, IInv, TypeOK, Timestamp, Version
      <4>6. QED
        BY <3>3, <4>1, <4>4, <4>5
    <3>5. UNCHANGED <<inConflict, outConflict>>
      <4>1. Marks
        BY <1>1, StepMarks
      <4>2. ASSUME NEW key \in Keys, Read(2, key) PROVE UNCHANGED <<inConflict, outConflict>>
        BY <3>3, <3>4, <4>2, ReadUnmarked DEF FaultFreeStep
      <4>3. QED
        BY <2>3, <3>1, <4>1, <4>2 DEF Marks
    <3>6. QED
      BY <3>1, <3>5, Playing DEF ReadOnlyPlayed, Unmarked
  <2>4. QED
    BY <2>1, <2>2, <2>3, Playing
<1>6. QED
  BY <1>2, <1>3, <1>4, <1>5 DEF ReadOnlyPlayed

\* The trace with one conflict flag each: a read of a key that the other then writes
\* marks the reader one way and the writer the other.
LEMMA StepSingleConflictFlag ==
    ASSUME FaultFreeStep, trace = SingleConflictFlag, SingleConflictFlagPlayed
    PROVE  SingleConflictFlagPlayed'
<1>1. /\ Plan(2, 8, 2, 4, 1) /\ Followed(2, 8, 2, 4, 1) /\ Action.call # "abort"
      /\ Action.call = "read" => position = 3 /\ Action.txn = 1
      /\ Action.call = "write" => Action.txn = 2
  <2>1. Plan(2, 8, 2, 4, 1) /\ Followed(2, 8, 2, 4, 1)
    BY Plans DEF SingleConflictFlagPlayed
  <2>2. Action.call # "abort" /\ position # 8
        /\ (Action.call = "read" => position = 3 /\ Action.txn = 1)
    BY Playing, Calls
  <2>3. Action.call = "write" => Action.txn = 2
    BY <2>1, <2>2, Playing DEF Plan
  <2>4. QED
    BY <2>1, <2>2, <2>3
<1>2. Followed(2, 8, 2, 4, 1)'
  BY <1>1, StepFollowed DEF FaultFreeStep
<1>3. reported'.aborted = {}
  BY <1>1, StepNoneAborted, Playing DEF SingleConflictFlagPlayed, Dangerous
<1>4. ASSUME NEW t \in TxnId
      PROVE  (t = 1 => ~inConflict'[t]) /\ (t = 2 => ~outConflict'[t])
  <2>1. CASE UNCHANGED <<inConflict, outConflict>>
    BY <2>1 DEF SingleConflictFlagPlayed
  <2>2. ASSUME Action.call = "read", Action.txn \in TxnId, NEW key \in Keys, Read(Action.txn, key)
        PROVE  UNCHANGED <<inConflict, outConflict>>
    <3>1. NewerWriters(Action.txn, key) = {}
      BY <1>1, <2>2, NothingWritten DEF FaultFreeStep
    <3>2. QED
      BY <2>2, <3>1, ReadUnmarked DEF FaultFreeStep
  <2>3. ASSUME 2 \in TxnId, NEW key \in Keys, Write(2, key)
        PROVE  (t = 1 => ~inConflict'[t]) /\ (t = 2 => ~outConflict'[t])
    <3>1. inConflict \in [TxnId -> BOOLEAN] /\ 2 \notin ConcurrentReaders(2, key)
      BY DEF FaultFreeStep, IInv, TypeOK, ConcurrentReaders
    <3>2. \A u \in TxnId \ {2} : inConflict'[u] = inConflict[u]
      BY <2>3, <3>1 DEF Write
    <3>3. outConflict'[2] = outConflict[2]
      BY <2>3, <3>1 DEF Write, FaultFreeStep, IInv, TypeOK
    <3>4. QED
      BY <3>2, <3>3 DEF SingleConflictFlagPlayed
  <2>4. QED
    <3>1. Marks
      BY <1>1, StepMarks
    <3>2. QED
      BY <1>1, <2>1, <2>2, <2>3, <3>1 DEF Marks
<1>5. QED
  BY <1>2, <1>3, <1>4 DEF SingleConflictFlagPlayed

\* The dangerous structure: the second transaction commits before it has a reader's
\* mark, and the first does not commit with both marks.
LEMMA StepDangerousStructure ==
    ASSUME FaultFreeStep, trace = DangerousStructure, DangerousStructurePlayed
    PROVE  DangerousStructurePlayed'
<1>1. /\ Plan(2, 7, 2, 5, 1) /\ Followed(2, 7, 2, 5, 1) /\ Action.call # "abort"
      /\ Action.call = "read" => position \in {3, 4}
      /\ Action.call = "begin" => position \in {1, 2}
      /\ Action.call = "write" => \/ position = 7 /\ Action.txn = 1
                                  \/ position = 5 /\ Action.txn = 2
      /\ Action.call = "commit" => (position = 6 /\ Action.txn = 2) \/ (position = 8 /\ Action.txn = 1)
  <2>1. Plan(2, 7, 2, 5, 1) /\ Followed(2, 7, 2, 5, 1)
    BY Plans DEF DangerousStructurePlayed
  <2>2. /\ Action.call # "abort" /\ (Action.call = "read" => position \in {3, 4})
        /\ Action.call = "commit" => (position = 6 /\ Action.txn = 2) \/ (position = 8 /\ Action.txn = 1)
    BY Playing, Calls
  <2>3. /\ Action.call = "begin" => position \in {1, 2}
        /\ Action.call = "write" => \/ position = 7 /\ Action.txn = 1
                                    \/ position = 5 /\ Action.txn = 2
    BY <2>1, Playing DEF Plan
  <2>4. QED
    BY <2>1, <2>2, <2>3
<1>2. Followed(2, 7, 2, 5, 1)'
  BY <1>1, StepFollowed DEF FaultFreeStep
<1>3. status \in [TxnId -> Status]
  BY DEF FaultFreeStep, IInv, TypeOK
<1>4. ASSUME NEW t \in TxnId, t = 2 PROVE ~outConflict'[t]
  <2>1. CASE UNCHANGED outConflict
    BY <1>4, <2>1 DEF DangerousStructurePlayed
  <2>2. ASSUME Action.call = "read", Action.txn \in TxnId, NEW key \in Keys, Read(Action.txn, key)
        PROVE  UNCHANGED outConflict
    <3>1. NewerWriters(Action.txn, key) = {}
      BY <1>1, <2>2, NothingWritten DEF FaultFreeStep
    <3>2. QED
      BY <2>2, <3>1, ReadUnmarked DEF FaultFreeStep
  <2>3. ASSUME Action.call = "write", NEW key \in Keys, Write(Action.txn, key)
        PROVE  ~outConflict'[t]
    <3>1. CASE Action.txn = 2
      BY <1>4, <2>3, <3>1 DEF Write, ConcurrentReaders, DangerousStructurePlayed
    <3>2. CASE position = 7
      <4>1. /\ 6 \in DOMAIN trace.actions /\ trace.actions[6].call = "commit"
            /\ trace.actions[6].txn = 2
        BY Lengths, Calls
      <4>2. status[2] # "Active"
        BY <1>1, <3>2, <4>1, CommitPlayed DEF FaultFreeStep
      <4>3. QED
        BY <1>4, <2>3, <4>2 DEF Write, DangerousStructurePlayed
    <3>3. QED
      BY <1>1, <2>3, <3>1, <3>2
  <2>4. QED
    <3>1. Marks
      BY <1>1, StepMarks
    <3>2. QED
      BY <1>1, <2>1, <2>2, <2>3, <3>1 DEF Marks
<1>5. ASSUME NEW t \in TxnId, t = 1, status'[t] = "Committed"
      PROVE  position' > 8 /\ ~Dangerous(t)'
  <2>1. position \in 1 .. 8 /\ position' = position + 1
    BY Playing, Lengths
  <2>2. status[t] # "Committed"
    BY <1>5, <2>1 DEF DangerousStructurePlayed
  <2>3. /\ Action.call = "commit" /\ Action.txn = 1 /\ ~Dangerous(1)
        /\ UNCHANGED <<inConflict, outConflict>>
    <3>1. Marks
      BY <1>1, StepMarks
    <3>2. QED
      BY <1>1, <1>3, <1>5, <2>2, <3>1 DEF Marks
  <2>4. QED
    BY <1>1, <1>5, <2>1, <2>3 DEF Dangerous
<1>6. QED
  BY <1>2, <1>4, <1>5 DEF DangerousStructurePlayed

\* A step without a fault follows the trace that is played.
LEMMA StepPlayed == FaultFreeStep /\ Played => Played'
<1> SUFFICES ASSUME FaultFreeStep, Played PROVE Played'
  OBVIOUS
<1>1. trace' = trace
  BY Playing
<1>2. QED
  BY <1>1, StepDangerousStructure, StepDisjointKeys, StepSequentialWrites,
     StepSingleConflictFlag, StepReadOnly, StepGivesUp DEF Played

\* Every replay begins as its trace asks.
LEMMA InitReplay == MCInit => ReplayInv
<1> SUFFICES ASSUME MCInit PROVE ReplayInv
  OBVIOUS
<1>1. /\ trace \in Traces /\ position = 1 /\ executed = 0 /\ faults = 0
      /\ keyOf \in [1 .. 2 -> Keys] /\ keyOf[1] # keyOf[2]
      /\ txnMap = [t \in 1 .. 2 |-> NoTxn]
      /\ reported = [committed |-> {}, aborted |-> {}]
      /\ user \in {"client", "caller", "replay"}
  BY DEF MCInit, ReplayInit, Traces
<1>2. Told
  <2>1. position \in 1 .. Len(trace.actions) + 1
    BY <1>1, Shape
  <2>2. \A i \in DOMAIN trace.actions : txnMap[trace.actions[i].txn] = NoTxn
    BY <1>1, Shape
  <2>3. QED
    BY <1>1, <2>1, <2>2 DEF Told
<1>3. /\ inConflict = [t \in TxnId |-> FALSE] /\ outConflict = [t \in TxnId |-> FALSE]
      /\ status = [t \in TxnId |-> "Unborn"] /\ nextTxn = 1 /\ runnerTs = 1
      /\ siread = [k \in Keys |-> {}] /\ logReads = {} /\ commitTs = [t \in TxnId |-> 0]
      /\ lastWriter = [k \in Keys |-> NoTxn]
      /\ logWrites = [t \in TxnId |-> [k \in Keys |-> 0]]
  BY DEF MCInit, ReplayInit, RunnerInit, ListInit, Init
<1>4. \A i \in DOMAIN trace.actions : ~(i < position)
  BY <1>1, Shape
<1>5. ASSUME NEW second, NEW at1, NEW at2, NEW key1, NEW key2
      PROVE  Followed(second, at1, key1, at2, key2)
  BY <1>1, <1>3, <1>4 DEF Followed
<1>6. Unmarked /\ NoLocks /\ OneBeforeTwo /\ reported.aborted = {}
  BY <1>1, <1>3 DEF Unmarked, NoLocks, OneBeforeTwo
<1>7. Played
  BY <1>1, <1>3, <1>5, <1>6 DEF Played, DangerousStructurePlayed, DisjointKeysPlayed,
     SequentialWritesPlayed, SingleConflictFlagPlayed, ReadOnlyPlayed, GivesUpPlayed, Unmarked
<1>8. QED
  BY <1>1, <1>2, <1>7 DEF ReplayInv

\* The invariant of a replay is kept by its steps, and by any client's.
LEMMA StepReplay ==
    IInv /\ RunnerInv /\ IInv' /\ RunnerInv' /\ Guided /\ ReplayInv /\ [MCNext]_mcVars => ReplayInv'
<1> SUFFICES ASSUME IInv, RunnerInv, IInv', RunnerInv', Guided, ReplayInv, [MCNext]_mcVars
             PROVE  ReplayInv'
  OBVIOUS
<1>1. [RunnerNext]_allVars
  BY StepOfRunner
<1>2. CASE UNCHANGED mcVars
  <2>1. UNCHANGED <<user, trace, keyOf, position, txnMap, reported, executed, faults, status,
                    committed, nextTxn, logWrites, lastWriter, logReads, commitTs, startTs,
                    runnerTs, inConflict, outConflict, siread>>
    BY <1>2 DEF mcVars, allVars, listVars, vars, txnVars, runnerVars, replayVars
  <2>2. Told' = Told
    BY <2>1 DEF Told, Traces
  <2>3. ASSUME NEW second, NEW at1, NEW at2, NEW key1, NEW key2,
               Followed(second, at1, key1, at2, key2)
        PROVE  Followed(second, at1, key1, at2, key2)'
    BY <2>1, <2>3 DEF Followed
  <2>4. (Unmarked => Unmarked') /\ (NoLocks => NoLocks') /\ (OneBeforeTwo => OneBeforeTwo')
    BY <2>1 DEF Unmarked, NoLocks, OneBeforeTwo
  <2>5. Played => Played'
    BY <2>1, <2>3, <2>4 DEF Played, DangerousStructurePlayed, DisjointKeysPlayed,
       SequentialWritesPlayed, SingleConflictFlagPlayed, ReadOnlyPlayed, GivesUpPlayed, Dangerous
  <2>6. QED
    BY <2>1, <2>2, <2>5 DEF ReplayInv
<1>3. CASE user \in {"client", "caller"} /\ UNCHANGED <<user, replayVars>>
  <2>1. UNCHANGED <<user, trace, keyOf, position, txnMap, reported, executed, faults>>
    BY <1>3 DEF replayVars
  <2>2. \A t \in 1 .. 2 : txnMap[t] # NoTxn => txnMap[t] \in TxnId
    BY DEF ReplayInv, Told
  <2>3. \A t \in 1 .. 2 : txnMap[t] # NoTxn => status'[txnMap[t]] # "Unborn"
    BY <1>1, <2>2, EndedStays DEF ReplayInv, Told
  <2>4. reported.committed = {} /\ reported.aborted = {}
    BY <1>3 DEF ReplayInv
  <2>5. Told'
    BY <2>1, <2>3, <2>4 DEF ReplayInv, Told, Traces
  <2>6. QED
    BY <1>3, <2>1, <2>5 DEF ReplayInv
<1>4. CASE user = "replay" /\ ReplayNext /\ UNCHANGED user
  <2>1. Told'
    BY <1>1, <1>4, StepTold DEF ReplayInv
  <2>2. faults' = 0 => faults = 0
    <3>1. faults \in Nat /\ faults' \in {faults, faults + 1}
      BY <1>4 DEF ReplayInv, Told, ReplayNext, ReplayBegin, Refused, Access, ReplayCommit,
                  ReplayAbort, Answers, Errs
    <3>2. QED
      BY <3>1
  <2>3. faults' = 0 => Played'
    BY <1>4, <2>1, <2>2, StepPlayed DEF ReplayInv, FaultFreeStep
  <2>4. QED
    BY <1>4, <2>1, <2>3 DEF ReplayInv
<1>5. QED
  BY <1>2, <1>3, <1>4 DEF MCNext

\* The verdicts on a replay without faults: first_committer_wins.
LEMMA NoOverlapPlayed ==
    ASSUME IInv, RunnerInv, Told, NEW second, NEW at1, NEW at2,
           NEW key1 \in 1 .. 2, NEW key2 \in 1 .. 2,
           Followed(second, at1, key1, at2, key2),
           key1 # key2 \/ commitTs[1] < startTs[2]
    PROVE  VerdictFirstCommitterWins
<1> SUFFICES ASSUME NEW k \in Keys, NEW t \in LogCommitted, NEW u \in LogCommitted,
                    logWrites[t][k] > 0, logWrites[u][k] > 0,
                    t = u => logWrites[t][k] > 1
             PROVE  ~WereConcurrent(t, u)
  BY DEF VerdictFirstCommitterWins, WriterPairs
<1>1. /\ t \in TxnId /\ u \in TxnId /\ commitTs \in [TxnId -> Nat]
      /\ startTs \in [TxnId -> Timestamp] /\ logWrites \in [TxnId -> [Keys -> Nat]]
  BY DEF LogCommitted, RunnerInv, Recording, Logged, IInv, TypeOK
<1>2. t # u
  BY <1>1 DEF Followed
<1>3. \/ t = 1 /\ u = 2 /\ k = keyOf[key1] /\ k = keyOf[key2]
      \/ t = 2 /\ u = 1 /\ k = keyOf[key1] /\ k = keyOf[key2]
  BY <1>1, <1>2 DEF Followed
<1>4. key1 = key2
  BY <1>3 DEF Told
<1>5. QED
  BY <1>1, <1>3, <1>4 DEF WereConcurrent, Timestamp

\* no_lost_writes.
LEMMA NoLossPlayed ==
    ASSUME IInv, RunnerInv, Told, NEW second, NEW at1, NEW at2,
           NEW key1 \in 1 .. 2, NEW key2 \in 1 .. 2,
           Followed(second, at1, key1, at2, key2),
           key1 # key2 \/ logReads = {}
    PROVE  VerdictNoLostWrites
<1> SUFFICES ASSUME NEW w \in LogCommitted, NEW r \in logReads,
                    logWrites[w][r.key] > 0, r.version # NoTxn
             PROVE  commitTs[r.version] >= commitTs[w]
  BY DEF VerdictNoLostWrites
<1>1. /\ r.key \in Keys /\ r.version \in TxnId /\ w \in TxnId
      /\ logWrites[r.version][r.key] > 0 /\ commitTs \in [TxnId -> Nat]
  BY DEF Followed, LogCommitted, RunnerInv, Recording
<1>2. w = r.version
  BY <1>1 DEF Followed, Told
<1>3. QED
  BY <1>1, <1>2

\* no_committed_dangerous_structures: only the two transactions of the trace commit.
LEMMA NoDangerPlayed ==
    ASSUME IInv, RunnerInv, NEW second, NEW at1, NEW at2, NEW key1, NEW key2,
           Followed(second, at1, key1, at2, key2),
           \A t \in TxnId : t \in {1, 2} /\ status[t] = "Committed" => ~Dangerous(t)
    PROVE  VerdictNoDangerous
<1> SUFFICES ASSUME NEW t \in LogCommitted PROVE ~Dangerous(t)
  BY DEF VerdictNoDangerous, Dangerous
<1>1. t \in TxnId /\ status[t] = "Committed"
  BY DEF LogCommitted, RunnerInv, Recording
<1>2. nextTxn \in {1, 2, 3} /\ t \notin nextTxn .. MaxTxns
  BY <1>1 DEF Followed, IInv, ClockAhead
<1>3. t \in {1, 2}
  BY <1>1, <1>2 DEF TxnId
<1>4. QED
  BY <1>1, <1>3

\* What each trace expects.
LEMMA Expectations ==
    /\ trace \in {DisjointKeys, SequentialWrites, SingleConflictFlag, ReadOnly} =>
          trace.expected = "AllCommit"
    /\ trace = DangerousStructure => trace.expected = "InvariantsHold"
    /\ trace = GivesUp => trace.expected = "SomeAbort" /\ trace.who = {1}
<1>1. trace \in {DisjointKeys, SequentialWrites} => trace.expected = "AllCommit"
  BY DEF DisjointKeys, SequentialWrites, Oracle
<1>2. trace \in {SingleConflictFlag, ReadOnly} => trace.expected = "AllCommit"
  BY DEF SingleConflictFlag, ReadOnly, Oracle
<1>3. trace = DangerousStructure => trace.expected = "InvariantsHold"
  BY DEF DangerousStructure, Oracle
<1>4. trace = GivesUp => trace.expected = "SomeAbort" /\ trace.who = {1}
  BY DEF GivesUp, Oracle
<1>5. QED
  BY <1>1, <1>2, <1>3, <1>4

\* Played to its end without faults, each trace meets its expectation, and every
\* verdict on its history is good.
LEMMA PlayedOut ==
    ASSUME IInv, RunnerInv, Told, Played, Replayed, faults = 0
    PROVE  /\ executed = Len(trace.actions) /\ ExpectedOutcomeMet /\ InvariantsHold
           /\ \A i \in DOMAIN trace.actions : trace.actions[i].call = "commit" =>
                 trace.actions[i].txn \in reported.committed \cup reported.aborted
<1>1. /\ position = Len(trace.actions) + 1 /\ Len(trace.actions) \in Nat
      /\ DOMAIN trace.actions = 1 .. Len(trace.actions) /\ executed \in Nat
  BY Shape DEF Told, Replayed
<1>2. ASSUME NEW second, NEW at1, NEW at2, NEW key1, NEW key2,
             Followed(second, at1, key1, at2, key2)
      PROVE  /\ executed = Len(trace.actions)
             /\ \A i \in DOMAIN trace.actions : trace.actions[i].call = "commit" =>
                   trace.actions[i].txn \in reported.committed \cup reported.aborted
  BY <1>1, <1>2 DEF Followed
<1>3. CASE trace = DangerousStructure
  <2>1. Followed(2, 7, 2, 5, 1)
    BY <1>3 DEF Played, DangerousStructurePlayed
  <2>2. \A t \in TxnId : t \in {1, 2} /\ status[t] = "Committed" => ~Dangerous(t)
    BY <1>3 DEF Played, DangerousStructurePlayed, Dangerous
  <2>3. InvariantsHold
    BY <2>1, <2>2, NoOverlapPlayed, NoDangerPlayed, NoLossPlayed DEF InvariantsHold
  <2>4. ExpectedOutcomeMet
    BY <1>3, <2>3, Expectations DEF ExpectedOutcomeMet
  <2>5. QED
    BY <1>2, <2>1, <2>3, <2>4
<1>4. CASE trace = DisjointKeys
  <2>1. Followed(2, 3, 1, 4, 2) /\ Unmarked /\ reported.aborted = {}
    BY <1>4 DEF Played, DisjointKeysPlayed
  <2>2. \A t \in TxnId : ~Dangerous(t)
    BY <2>1 DEF Unmarked, Dangerous
  <2>3. InvariantsHold
    BY <2>1, <2>2, NoOverlapPlayed, NoDangerPlayed, NoLossPlayed DEF InvariantsHold
  <2>4. ExpectedOutcomeMet
    BY <1>4, <2>1, Expectations DEF ExpectedOutcomeMet
  <2>5. QED
    BY <1>2, <2>1, <2>3, <2>4
<1>5. CASE trace = SingleConflictFlag
  <2>1. Followed(2, 8, 2, 4, 1) /\ reported.aborted = {}
    BY <1>5 DEF Played, SingleConflictFlagPlayed
  <2>2. \A t \in TxnId : t \in {1, 2} => ~Dangerous(t)
    BY <1>5 DEF Played, SingleConflictFlagPlayed, Dangerous
  <2>3. InvariantsHold
    BY <2>1, <2>2, NoOverlapPlayed, NoDangerPlayed, NoLossPlayed DEF InvariantsHold
  <2>4. ExpectedOutcomeMet
    BY <1>5, <2>1, Expectations DEF ExpectedOutcomeMet
  <2>5. QED
    BY <1>2, <2>1, <2>3, <2>4
<1>6. CASE trace = ReadOnly
  <2>1. Followed(4, 2, 1, 8, 2) /\ Unmarked /\ reported.aborted = {}
    BY <1>6 DEF Played, ReadOnlyPlayed
  <2>2. \A t \in TxnId : ~Dangerous(t)
    BY <2>1 DEF Unmarked, Dangerous
  <2>3. InvariantsHold
    BY <2>1, <2>2, NoOverlapPlayed, NoDangerPlayed, NoLossPlayed DEF InvariantsHold
  <2>4. ExpectedOutcomeMet
    BY <1>6, <2>1, Expectations DEF ExpectedOutcomeMet
  <2>5. QED
    BY <1>2, <2>1, <2>3, <2>4
<1>7. CASE trace \in {SequentialWrites, GivesUp}
  <2>1. Followed(4, 2, 1, 5, 1) /\ Unmarked /\ OneBeforeTwo /\ logReads = {}
    BY <1>7 DEF Played, SequentialWritesPlayed, GivesUpPlayed
  <2>2. position > 4
    <3>1. Len(trace.actions) = 6 \/ Len(trace.actions) = 7
      BY <1>7, Lengths
    <3>2. position = 7 \/ position = 8
      <4>1. \A n \in {6, 7} : Len(trace.actions) = n => position = n + 1
        BY <1>1, Zenon
      <4>2. QED
        BY <3>1, <4>1
    <3>3. QED
      BY <3>2
  <2>3. commitTs[1] < startTs[2] /\ \A t \in TxnId : ~Dangerous(t)
    BY <2>1, <2>2 DEF OneBeforeTwo, Unmarked, Dangerous
  <2>4. InvariantsHold
    BY <2>1, <2>3, NoOverlapPlayed, NoDangerPlayed, NoLossPlayed DEF InvariantsHold
  <2>5. trace = SequentialWrites => reported.aborted = {}
    BY DEF Played, SequentialWritesPlayed
  <2>6. trace = GivesUp => 1 \in reported.aborted
    <3>1. position > 3
      BY <1>1, <2>2
    <3>2. QED
      BY <3>1 DEF Played, GivesUpPlayed
  <2>7. ExpectedOutcomeMet
    BY <1>7, <2>5, <2>6, Expectations DEF ExpectedOutcomeMet
  <2>8. QED
    BY <1>2, <2>1, <2>4, <2>7
<1>8. QED
  BY <1>3, <1>4, <1>5, <1>6, <1>7, OneOfSix DEF Told

\* A replay says what happened, whatever faults fire: what it lists as committed or
\* aborted the store committed or aborted, a trace that expects every commit passes
\* only when each of its transactions committed, and with no fault every pre-built
\* trace is played to its end, meets its expectation and breaks no invariant.
THEOREM ReplaysAreHonest == MCSpec => []ReplayHonest
<1>1. MCSpec => []IInv /\ []RunnerInv /\ []Guided
  BY ReplayDrivesRunner, StoreInvariant, RunnerInvariant, PTL
<1>2. MCSpec => []ReplayInv
  BY <1>1, InitReplay, StepReplay, PTL DEF MCSpec, mcVars
<1>3. IInv /\ RunnerInv /\ ReplayInv => ReplayHonest
  <2> SUFFICES ASSUME IInv, RunnerInv, ReplayInv PROVE ReplayHonest
    OBVIOUS
  <2>1. Told
    BY DEF ReplayInv
  <2>2. ASSUME Replayed, faults = 0
        PROVE  /\ executed = Len(trace.actions) /\ ExpectedOutcomeMet /\ InvariantsHold
               /\ \A i \in DOMAIN trace.actions : trace.actions[i].call = "commit" =>
                     trace.actions[i].txn \in reported.committed \cup reported.aborted
    <3>1. Len(trace.actions) \in Nat \ {0}
      BY <2>1, Shape DEF Told
    <3>2. user = "replay"
      BY <2>2, <3>1 DEF ReplayInv, Replayed
    <3>3. Played
      BY <2>2, <3>2 DEF ReplayInv
    <3>4. QED
      BY <2>1, <2>2, <3>3, PlayedOut
  <2>3. \A t \in reported.committed : txnMap[t] \in committed
    BY <2>1 DEF Told
  <2>4. \A t \in reported.aborted : txnMap[t] # NoTxn /\ status[txnMap[t]] # "Active"
    BY <2>1 DEF Told
  <2>5. ASSUME Replayed, trace.expected = "AllCommit", ExpectedOutcomeMet,
               NEW i \in DOMAIN trace.actions, trace.actions[i].call = "commit"
        PROVE  txnMap[trace.actions[i].txn] \in committed
    <3>1. reported.aborted = {} /\ faults = 0
      BY <2>5 DEF ExpectedOutcomeMet
    <3>2. trace.actions[i].txn \in reported.committed
      BY <2>2, <2>5, <3>1
    <3>3. QED
      BY <2>3, <3>2
  <2>6. QED
    BY <2>2, <2>3, <2>4, <2>5 DEF ReplayHonest
<1>4. QED
  BY <1>1, <1>2, <1>3, PTL
=============================================================================
