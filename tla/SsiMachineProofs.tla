-------------------------- MODULE SsiMachineProofs --------------------------
(***************************************************************************)
(* Theorems of SsiMachine for any transactions, keys and length of the     *)
(* history.  The flags and the locks are judged by IInv: what the history  *)
(* holds belongs to transactions that have begun, writers hold their       *)
(* locks, aborted transactions leave no trace and rw-dependencies between  *)
(* the others are flagged on both sides.                                   *)
(***************************************************************************)
EXTENDS SsiMachine, TLAPS

USE NoTxnAssumption

\* The history is in the past and belongs to transactions that have begun.
Logged ==
    /\ \A w \in writes : w.at < now /\ status[w.txn] # "NotStarted"
    /\ \A k \in Keys : \A t \in siread[k] : status[t] # "NotStarted"

\* latest_version answers a transaction or none.
LEMMA LatestVersionType ==
    ASSUME TypeOK, NEW key \in Keys, NEW ts
    PROVE  LatestVersion(key, ts) \in Txns \cup {NoTxn}
<1>1. LatestWrites(key, ts) \subseteq writes
  BY DEF LatestWrites
<1>2. CASE LatestWrites(key, ts) # {}
  <2>1. (CHOOSE w \in LatestWrites(key, ts) : TRUE) \in LatestWrites(key, ts)
    BY <1>2
  <2>2. QED
    BY <1>1, <1>2, <2>1 DEF LatestVersion, TypeOK
<1>3. QED
  BY <1>2 DEF LatestVersion

\* Every operation keeps every variable well typed.
LEMMA TypeKept ==
    ASSUME TypeOK, Logged, [Next]_vars
    PROVE  TypeOK'
<1> USE DEF TypeOK, Status
<1>1. CASE UNCHANGED vars
  BY <1>1 DEF vars, logVars, flagVars
<1>2. ASSUME NEW txn \in Txns, Begin(txn)
      PROVE  TypeOK'
  BY <1>2 DEF Begin, logVars, flagVars
<1>3. ASSUME NEW txn \in Txns, Commit(txn)
      PROVE  TypeOK'
  BY <1>3 DEF Commit, ReleaseLocks, logVars, flagVars
<1>4. ASSUME NEW txn \in Txns, Abort(txn)
      PROVE  TypeOK'
  BY <1>4 DEF Abort, Aborted, ClearTraces, ReleaseLocks, logVars, flagVars
<1>5. ASSUME NEW txn \in Txns, NEW key \in Keys, Read(txn, key)
      PROVE  TypeOK'
  BY <1>5, LatestVersionType DEF Read, logVars, flagVars, NewerWriters
<1>6. ASSUME NEW txn \in Txns, NEW key \in Keys, ReadConflict(txn, key)
      PROVE  TypeOK'
  BY <1>6 DEF ReadConflict, Aborted, ClearTraces, logVars, flagVars
<1>7. ASSUME NEW txn \in Txns, NEW key \in Keys, Write(txn, key)
      PROVE  TypeOK'
  BY <1>7 DEF Write, logVars, flagVars
<1>8. ASSUME NEW txn \in Txns, NEW key \in Keys, WriteConflict(txn, key)
      PROVE  TypeOK'
  BY <1>8 DEF WriteConflict, Aborted, ClearTraces, logVars, flagVars
<1>9. QED
  BY <1>1, <1>2, <1>3, <1>4, <1>5, <1>6, <1>7, <1>8 DEF Next

\* The log stays in the past.
LEMMA LoggedKept ==
    ASSUME TypeOK, Logged, [Next]_vars
    PROVE  Logged'
<1> USE DEF TypeOK, Logged
<1>1. CASE UNCHANGED vars
  BY <1>1 DEF vars, logVars, flagVars
<1>2. ASSUME NEW txn \in Txns, Begin(txn)
      PROVE  Logged'
  BY <1>2 DEF Begin, logVars, flagVars
<1>3. ASSUME NEW txn \in Txns, Commit(txn)
      PROVE  Logged'
  BY <1>3 DEF Commit, ReleaseLocks, logVars, flagVars
<1>4. ASSUME NEW txn \in Txns, Abort(txn)
      PROVE  Logged'
  BY <1>4 DEF Abort, Aborted, ClearTraces, ReleaseLocks, logVars, flagVars
<1>5. ASSUME NEW txn \in Txns, NEW key \in Keys, Read(txn, key)
      PROVE  Logged'
  BY <1>5 DEF Read, logVars, flagVars
<1>6. ASSUME NEW txn \in Txns, NEW key \in Keys, ReadConflict(txn, key)
      PROVE  Logged'
  BY <1>6 DEF ReadConflict, Aborted, ClearTraces, logVars, flagVars
<1>7. ASSUME NEW txn \in Txns, NEW key \in Keys, Write(txn, key)
      PROVE  Logged'
  BY <1>7 DEF Write, logVars, flagVars
<1>8. ASSUME NEW txn \in Txns, NEW key \in Keys, WriteConflict(txn, key)
      PROVE  Logged'
  BY <1>8 DEF WriteConflict, Aborted, ClearTraces, logVars, flagVars
<1>9. QED
  BY <1>1, <1>2, <1>3, <1>4, <1>5, <1>6, <1>7, <1>8 DEF Next

\* Locks follow the writers, whoever leaves or takes one.
LEMMA LocksKept ==
    ASSUME TypeOK, Logged, WritersHoldLocks, [Next]_vars
    PROVE  WritersHoldLocks'
<1> USE DEF TypeOK, Logged, WritersHoldLocks
<1>1. CASE UNCHANGED vars
  BY <1>1 DEF vars, logVars, flagVars
<1>2. ASSUME NEW txn \in Txns, Begin(txn)
      PROVE  WritersHoldLocks'
  BY <1>2 DEF Begin, logVars, flagVars
<1>3. ASSUME NEW txn \in Txns, Commit(txn)
      PROVE  WritersHoldLocks'
  BY <1>3 DEF Commit, ReleaseLocks, logVars, flagVars
<1>4. ASSUME NEW txn \in Txns, Abort(txn)
      PROVE  WritersHoldLocks'
  BY <1>4 DEF Abort, Aborted, ClearTraces, ReleaseLocks, logVars, flagVars
<1>5. ASSUME NEW txn \in Txns, NEW key \in Keys, Read(txn, key)
      PROVE  WritersHoldLocks'
  BY <1>5 DEF Read, logVars, flagVars
<1>6. ASSUME NEW txn \in Txns, NEW key \in Keys, ReadConflict(txn, key)
      PROVE  WritersHoldLocks'
  BY <1>6 DEF ReadConflict, Aborted, ClearTraces, logVars, flagVars
<1>7. ASSUME NEW txn \in Txns, NEW key \in Keys, Write(txn, key)
      PROVE  WritersHoldLocks'
  BY <1>7 DEF Write, logVars, flagVars
<1>8. ASSUME NEW txn \in Txns, NEW key \in Keys, WriteConflict(txn, key)
      PROVE  WritersHoldLocks'
  BY <1>8 DEF WriteConflict, Aborted, ClearTraces, logVars, flagVars
<1>9. QED
  BY <1>1, <1>2, <1>3, <1>4, <1>5, <1>6, <1>7, <1>8 DEF Next

\* Flags set after a commit never complete a pair.
LEMMA FlagsKept ==
    ASSUME TypeOK, NoCommittedDangerous, [Next]_vars
    PROVE  NoCommittedDangerous'
<1> USE DEF TypeOK, NoCommittedDangerous, Dangerous
<1>1. CASE UNCHANGED vars
  BY <1>1 DEF vars, logVars, flagVars
<1>2. ASSUME NEW txn \in Txns, Begin(txn)
      PROVE  NoCommittedDangerous'
  BY <1>2 DEF Begin, logVars, flagVars
<1>3. ASSUME NEW txn \in Txns, Commit(txn)
      PROVE  NoCommittedDangerous'
  BY <1>3 DEF Commit, ReleaseLocks, logVars, flagVars
<1>4. ASSUME NEW txn \in Txns, Abort(txn)
      PROVE  NoCommittedDangerous'
  BY <1>4 DEF Abort, Aborted, ClearTraces, ReleaseLocks, logVars, flagVars
<1>5. ASSUME NEW txn \in Txns, NEW key \in Keys, Read(txn, key)
      PROVE  NoCommittedDangerous'
  BY <1>5 DEF Read, logVars, flagVars, ReadViolates, NewerWriters, Live
<1>6. ASSUME NEW txn \in Txns, NEW key \in Keys, ReadConflict(txn, key)
      PROVE  NoCommittedDangerous'
  BY <1>6 DEF ReadConflict, Aborted, ClearTraces, logVars, flagVars
<1>7. ASSUME NEW txn \in Txns, NEW key \in Keys, Write(txn, key)
      PROVE  NoCommittedDangerous'
  BY <1>7 DEF Write, logVars, flagVars, WriteViolates, ConcurrentReaders
<1>8. ASSUME NEW txn \in Txns, NEW key \in Keys, WriteConflict(txn, key)
      PROVE  NoCommittedDangerous'
  BY <1>8 DEF WriteConflict, Aborted, ClearTraces, logVars, flagVars
<1>9. QED
  BY <1>1, <1>2, <1>3, <1>4, <1>5, <1>6, <1>7, <1>8 DEF Next

\* Nothing flags an aborted transaction again.
LEMMA TracesKept ==
    ASSUME TypeOK, AbortedLeaveNoTrace, [Next]_vars
    PROVE  AbortedLeaveNoTrace'
<1> USE DEF TypeOK, AbortedLeaveNoTrace
<1>1. CASE UNCHANGED vars
  BY <1>1 DEF vars, logVars, flagVars
<1>2. ASSUME NEW txn \in Txns, Begin(txn)
      PROVE  AbortedLeaveNoTrace'
  BY <1>2 DEF Begin, logVars, flagVars
<1>3. ASSUME NEW txn \in Txns, Commit(txn)
      PROVE  AbortedLeaveNoTrace'
  BY <1>3 DEF Commit, ReleaseLocks, logVars, flagVars
<1>4. ASSUME NEW txn \in Txns, Abort(txn)
      PROVE  AbortedLeaveNoTrace'
  BY <1>4 DEF Abort, Aborted, ClearTraces, ReleaseLocks, logVars, flagVars
<1>5. ASSUME NEW txn \in Txns, NEW key \in Keys, Read(txn, key)
      PROVE  AbortedLeaveNoTrace'
  BY <1>5 DEF Read, logVars, flagVars, NewerWriters, Live
<1>6. ASSUME NEW txn \in Txns, NEW key \in Keys, ReadConflict(txn, key)
      PROVE  AbortedLeaveNoTrace'
  BY <1>6 DEF ReadConflict, Aborted, ClearTraces, logVars, flagVars
<1>7. ASSUME NEW txn \in Txns, NEW key \in Keys, Write(txn, key)
      PROVE  AbortedLeaveNoTrace'
  BY <1>7 DEF Write, logVars, flagVars, ConcurrentReaders
<1>8. ASSUME NEW txn \in Txns, NEW key \in Keys, WriteConflict(txn, key)
      PROVE  AbortedLeaveNoTrace'
  BY <1>8 DEF WriteConflict, Aborted, ClearTraces, logVars, flagVars
<1>9. QED
  BY <1>1, <1>2, <1>3, <1>4, <1>5, <1>6, <1>7, <1>8 DEF Next

\* The later end of an rw-dependency flags both.
LEMMA EdgesKept ==
    ASSUME TypeOK, Logged, RwConflictsFlagged, [Next]_vars
    PROVE  RwConflictsFlagged'
<1> USE DEF TypeOK, Logged, RwConflictsFlagged, RwEdge, Live
<1>1. CASE UNCHANGED vars
  BY <1>1 DEF vars, logVars, flagVars
<1>2. ASSUME NEW txn \in Txns, Begin(txn)
      PROVE  RwConflictsFlagged'
  BY <1>2 DEF Begin, logVars, flagVars
<1>3. ASSUME NEW txn \in Txns, Commit(txn)
      PROVE  RwConflictsFlagged'
  BY <1>3 DEF Commit, ReleaseLocks, logVars, flagVars
<1>4. ASSUME NEW txn \in Txns, Abort(txn)
      PROVE  RwConflictsFlagged'
  BY <1>4 DEF Abort, Aborted, ClearTraces, ReleaseLocks, logVars, flagVars
<1>5. ASSUME NEW txn \in Txns, NEW key \in Keys, Read(txn, key)
      PROVE  RwConflictsFlagged'
  <2> SUFFICES ASSUME NEW r \in Txns, NEW w \in Txns, RwEdge(r, w)'
               PROVE  outConflict'[r] /\ inConflict'[w]
    OBVIOUS
  <2>1. PICK x \in writes : x.txn = w /\ x.at > snapshot[r] /\ r \in siread'[x.key]
    BY <1>5 DEF Read
  <2>2. CASE r \in siread[x.key]
    <3>1. RwEdge(r, w)
      BY <1>5, <2>1, <2>2 DEF Read
    <3>2. outConflict[r] /\ inConflict[w]
      BY <3>1
    <3>3. QED
      BY <1>5, <3>2 DEF Read
  <2>3. CASE r \notin siread[x.key]
    <3>1. r = txn /\ x.key = key
      BY <1>5, <2>1, <2>3 DEF Read
    <3>2. w \in NewerWriters(key, snapshot[txn], txn)
      BY <1>5, <2>1, <3>1 DEF Read, NewerWriters
    <3>3. QED
      BY <1>5, <3>1, <3>2 DEF Read
  <2>4. QED
    BY <2>2, <2>3
<1>6. ASSUME NEW txn \in Txns, NEW key \in Keys, ReadConflict(txn, key)
      PROVE  RwConflictsFlagged'
  BY <1>6 DEF ReadConflict, Aborted, ClearTraces, logVars, flagVars
<1>7. ASSUME NEW txn \in Txns, NEW key \in Keys, Write(txn, key)
      PROVE  RwConflictsFlagged'
  <2> SUFFICES ASSUME NEW r \in Txns, NEW w \in Txns, RwEdge(r, w)'
               PROVE  outConflict'[r] /\ inConflict'[w]
    OBVIOUS
  <2>1. PICK x \in writes' : x.txn = w /\ x.at > snapshot[r] /\ r \in siread[x.key]
    BY <1>7 DEF Write
  <2>2. CASE x \in writes
    <3>1. RwEdge(r, w)
      BY <1>7, <2>1, <2>2 DEF Write
    <3>2. outConflict[r] /\ inConflict[w]
      BY <3>1
    <3>3. QED
      BY <1>7, <3>2 DEF Write
  <2>3. CASE x \notin writes
    <3>1. w = txn /\ x.key = key
      BY <1>7, <2>1, <2>3 DEF Write
    <3>2. r \in ConcurrentReaders(txn, key)
      BY <1>7, <2>1, <3>1 DEF Write, ConcurrentReaders
    <3>3. QED
      BY <1>7, <3>1, <3>2 DEF Write
  <2>4. QED
    BY <2>2, <2>3
<1>8. ASSUME NEW txn \in Txns, NEW key \in Keys, WriteConflict(txn, key)
      PROVE  RwConflictsFlagged'
  BY <1>8 DEF WriteConflict, Aborted, ClearTraces, logVars, flagVars
<1>9. QED
  BY <1>1, <1>2, <1>3, <1>4, <1>5, <1>6, <1>7, <1>8 DEF Next

-----------------------------------------------------------------------------
\* TypeOK: every operation keeps every variable well typed.
THEOREM TypeCorrect == Spec => []TypeOK
<1>1. Init => TypeOK /\ Logged
  BY DEF Init, TypeOK, Status, Logged
<1>2. TypeOK /\ Logged /\ [Next]_vars => (TypeOK /\ Logged)'
  BY TypeKept, LoggedKept
<1>3. QED
  BY <1>1, <1>2, PTL DEF Spec

\* IInv: the log is in the past, writers hold their locks, committed transactions
\* lack one flag, aborted ones have none, and rw-dependencies are flagged.
IInv ==
    /\ TypeOK
    /\ Logged
    /\ WritersHoldLocks
    /\ NoCommittedDangerous
    /\ AbortedLeaveNoTrace
    /\ RwConflictsFlagged

\* apply keeps history, locks and flags in step, whatever order the events come in.
THEOREM Invariant == Spec => []IInv
<1>1. Init => IInv
  BY DEF Init, IInv, TypeOK, Status, Logged, WritersHoldLocks, NoCommittedDangerous,
      AbortedLeaveNoTrace, RwConflictsFlagged, RwEdge, Live, Dangerous
<1>2. IInv /\ [Next]_vars => IInv'
  BY TypeKept, LoggedKept, LocksKept, FlagsKept, TracesKept, EdgesKept DEF IInv
<1>3. QED
  BY <1>1, <1>2, PTL DEF Spec

\* WritersHoldLocks: an active writer holds the lock of every key it has written.
THEOREM LocksFollowWriters == Spec => []WritersHoldLocks
BY Invariant, PTL DEF IInv

\* NoCommittedDangerous: reads and writes after a commit never complete its pair of
\* flags.
THEOREM CommittedStaySafe == Spec => []NoCommittedDangerous
BY Invariant, PTL DEF IInv

\* AbortedLeaveNoTrace: no flag and no SIREAD lock of an aborted transaction.
THEOREM AbortsLeaveNoTrace == Spec => []AbortedLeaveNoTrace
BY Invariant, PTL DEF IInv

\* RwConflictsFlagged: every rw-dependency has marked both its ends.
THEOREM ConflictsAreFlagged == Spec => []RwConflictsFlagged
BY Invariant, PTL DEF IInv

\* NoCommittedPivot: no committed transaction has an rw-dependency on either side.
THEOREM PivotsNeverCommit == Spec => []NoCommittedPivot
<1>1. IInv => NoCommittedPivot
  BY DEF IInv, NoCommittedPivot, NoCommittedDangerous, RwConflictsFlagged, Dangerous
<1>2. QED
  BY <1>1, Invariant, PTL
=============================================================================
