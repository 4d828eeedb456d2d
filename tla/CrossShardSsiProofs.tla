------------------------ MODULE CrossShardSsiProofs -------------------------
(***************************************************************************)
(* Theorems of CrossShardSsi, for any number of shards, keys and           *)
(* transactions: the inductive invariant, and that every step is one of    *)
(* SerialStore or changes nothing there.                                   *)
(***************************************************************************)
EXTENDS CrossShardSsi, TLAPS

USE ShardsAssumption, NoTxnAssumption

\* The empty store.
LEMMA InitInv == Init => IInv
<1> SUFFICES ASSUME Init PROVE IInv
  OBVIOUS
<1> USE DEF Init, Shards, Locs
<1>1. TypeOK
  BY DEF TypeOK
<1>2. VersionsSeen
  BY DEF VersionsSeen, Running
<1>3. ReadsCurrent /\ GuardsHeld
  BY DEF ReadsCurrent, GuardsHeld, Running
<1>4. QED
  BY <1>1, <1>2, <1>3 DEF IInv

\* begin looks at one more shard.
LEMMA BeginKeeps ==
    ASSUME IInv, NEW t \in Txns, BeginShard(t)
    PROVE  IInv'
<1> USE DEF IInv, TypeOK
<1> DEFINE s == Len(seen[t]) + 1
<1>1. seen[t] \in Seq(Nat) /\ phase[t] = "begin" /\ s \in Shards /\ observed[t] = {}
  BY DEF BeginShard, VersionsSeen, Shards
<1>2. /\ DOMAIN seen'[t] = 1 .. s
      /\ \A i \in 1 .. s : seen'[t][i] = IF i = s THEN version[s] ELSE seen[t][i]
      /\ seen'[t] \in Seq(Nat) /\ Len(seen'[t]) = s
      /\ \A u \in Txns \ {t} : seen'[u] = seen[u] /\ phase'[u] = phase[u]
      /\ phase'[t] = IF s = NumShards THEN "open" ELSE "begin"
  BY <1>1 DEF BeginShard
<1>3. UNCHANGED <<shardVars, observed, writes>>
  BY DEF BeginShard
<1>4. TypeOK'
  BY <1>1, <1>3 DEF BeginShard, shardVars
<1>5. VersionsSeen'
  <2> SUFFICES ASSUME NEW u \in Txns
               PROVE  /\ \A i \in DOMAIN seen'[u] : i \in Shards /\ seen'[u][i] <= version'[i]
                      /\ Running(u)' => DOMAIN seen'[u] = Shards
                      /\ phase'[u] = "begin" => Len(seen'[u]) < NumShards /\ observed'[u] = {}
    BY DEF VersionsSeen
  <2>1. CASE u = t
    <3>1. \A i \in 1 .. s : i \in Shards /\ version[i] \in Nat
      BY <1>1 DEF Shards
    <3>2. \A i \in DOMAIN seen'[t] : i \in Shards /\ seen'[t][i] <= version'[i]
      <4> SUFFICES ASSUME NEW i \in 1 .. s PROVE i \in Shards /\ seen'[t][i] <= version[i]
        BY <1>2, <1>3 DEF shardVars
      <4>1. DOMAIN seen[t] = 1 .. s - 1 /\ s \in Nat
        BY <1>1
      <4>2. CASE i = s
        BY <1>2, <3>1, <4>2
      <4>3. CASE i # s
        <5>1. i \in 1 .. s - 1
          <6> HIDE DEF s
          <6>1. QED
            BY <4>1, <4>3
        <5>2. i \in DOMAIN seen[t]
          BY <4>1, <5>1
        <5>3. seen[t][i] <= version[i]
          BY <5>2 DEF VersionsSeen
        <5>4. QED
          BY <1>2, <3>1, <4>3, <5>3
      <4>4. QED
        BY <4>2, <4>3
    <3>3. QED
      BY <1>1, <1>2, <1>3, <2>1, <3>2 DEF Running, Shards
  <2>2. CASE u # t
    BY <1>2, <1>3, <2>2 DEF VersionsSeen, Running, shardVars
  <2>3. QED
    BY <2>1, <2>2
<1>6. ReadsCurrent'
  <2> SUFFICES ASSUME NEW u \in Txns, Running(u)', NEW o \in observed'[u],
                      version'[o.at[1]] = seen'[u][o.at[1]]
               PROVE  data'[o.at] = o.from
    BY DEF ReadsCurrent
  <2>1. u # t
    BY <1>1, <1>3
  <2>2. QED
    BY <1>2, <1>3, <2>1 DEF ReadsCurrent, Running, shardVars
<1>7. GuardsHeld'
  <2>1. \A r \in Shards : lockedBy[r] # t
    BY <1>1 DEF GuardsHeld
  <2>2. \A u : Involved(u)' = Involved(u)
    BY <1>3 DEF Involved, Written
  <2>3. QED
    BY <1>2, <1>3, <2>1, <2>2 DEF GuardsHeld, shardVars
<1>8. QED
  BY <1>4, <1>5, <1>6, <1>7

\* read: what it returns is what the shard holds now.
LEMMA ReadKeeps ==
    ASSUME IInv, NEW t \in Txns, NEW l \in Locs, Read(t, l)
    PROVE  IInv'
<1> USE DEF IInv, TypeOK, Read, Locs, shardVars
<1>1. TypeOK'
  OBVIOUS
<1>2. VersionsSeen'
  BY DEF VersionsSeen, Running
<1>3. ReadsCurrent'
  BY DEF ReadsCurrent, Running
<1>4. GuardsHeld'
  BY DEF GuardsHeld, Involved, Written
<1>5. QED
  BY <1>1, <1>2, <1>3, <1>4

\* write only buffers.
LEMMA WriteKeeps ==
    ASSUME IInv, NEW t \in Txns, NEW l \in Locs, Write(t, l)
    PROVE  IInv'
<1> USE DEF IInv, TypeOK, Write, shardVars
<1>1. TypeOK'
  OBVIOUS
<1>2. VersionsSeen' /\ ReadsCurrent'
  BY DEF VersionsSeen, ReadsCurrent, Running
<1>3. GuardsHeld'
  BY DEF GuardsHeld, Involved, Written
<1>4. QED
  BY <1>1, <1>2, <1>3

\* Steps that only move a thread on, and lock or unlock for it.
LEMMA MoveKeeps ==
    ASSUME IInv, NEW t \in Txns, UNCHANGED <<data, version, seen, observed, writes>>,
           NEW to \in {"open", "commit", "committed", "aborted"},
           phase[t] \in {"open", "commit"}, phase' = [phase EXCEPT ![t] = to],
           lockedBy' \in [Shards -> Txns \cup {NoTxn}],
           \A s \in Shards : lockedBy'[s] # NoTxn =>
               \/ lockedBy'[s] = lockedBy[s] /\ (lockedBy[s] = t => to = "commit")
               \/ lockedBy'[s] = t /\ to = "commit" /\ s \in Involved(t)
    PROVE  IInv'
<1> USE DEF IInv, TypeOK
<1>1. TypeOK'
  OBVIOUS
<1>2. VersionsSeen' /\ ReadsCurrent'
  BY DEF VersionsSeen, ReadsCurrent, Running
<1>3. GuardsHeld'
  BY DEF GuardsHeld, Involved, Written
<1>4. QED
  BY <1>1, <1>2, <1>3

\* commit with all its guards held.
LEMMA CommitKeeps ==
    ASSUME IInv, NEW t \in Txns, Commit(t)
    PROVE  IInv'
<1> USE DEF IInv, TypeOK
<1>1. UNCHANGED <<seen, observed, writes>> /\ phase' = [phase EXCEPT ![t] = "committed"]
  BY DEF Commit
<1>2. TypeOK'
  BY <1>1 DEF Commit, Install, Release
<1>3. \A s \in Shards : version'[s] = IF s \in Written(t) THEN version[s] + 1 ELSE version[s]
  BY DEF Commit, Install
<1>4. \A l \in Locs : l[1] \in Shards /\ (l[1] \notin Written(t) => data'[l] = data[l])
  BY DEF Commit, Install, Written, Locs
<1>5. VersionsSeen'
  <2>1. \A i \in Shards : version[i] \in Nat /\ version[i] <= version'[i]
    <3>1. \A i \in Shards : version[i] \in Nat
      OBVIOUS
    <3> HIDE DEF IInv, TypeOK
    <3>2. QED
      BY <1>3, <3>1
  <2>2. \A u \in Txns : \A i \in DOMAIN seen[u] : i \in Shards /\ seen[u][i] <= version'[i]
    <3> SUFFICES ASSUME NEW u \in Txns, NEW i \in DOMAIN seen[u]
                 PROVE  i \in Shards /\ seen[u][i] <= version'[i]
      OBVIOUS
    <3>1. i \in Shards /\ seen[u][i] <= version[i] /\ seen[u][i] \in Nat
      BY DEF VersionsSeen
    <3>2. version'[i] \in Nat
      BY <1>2, <3>1
    <3>3. QED
      BY <2>1, <3>1, <3>2
  <2>3. QED
    BY <1>1, <2>2 DEF VersionsSeen, Running
<1>6. ReadsCurrent'
  <2> SUFFICES ASSUME NEW u \in Txns, Running(u)', NEW o \in observed'[u],
                      version'[o.at[1]] = seen'[u][o.at[1]]
               PROVE  data'[o.at] = o.from
    BY DEF ReadsCurrent
  <2>1. Running(u) /\ o \in observed[u] /\ o.at \in Locs /\ o.at[1] \in Shards
    BY <1>1, <1>4 DEF Running
  <2>2. seen[u][o.at[1]] \in Nat /\ seen[u][o.at[1]] <= version[o.at[1]]
    BY <2>1 DEF VersionsSeen
  <2>3. o.at[1] \notin Written(t)
    BY <1>1, <1>3, <2>1, <2>2
  <2>4. QED
    BY <1>1, <1>3, <1>4, <2>1, <2>3 DEF ReadsCurrent
<1>7. GuardsHeld'
  BY <1>1 DEF GuardsHeld, Involved, Written, Commit, Release
<1>8. QED
  BY <1>2, <1>5, <1>6, <1>7

\* Every step of every thread.
LEMMA StepInv == IInv /\ [Next]_vars => IInv'
<1> SUFFICES ASSUME IInv, [Next]_vars PROVE IInv'
  OBVIOUS
<1>1. ASSUME NEW t \in Txns, Abort(t) PROVE IInv'
  <2>1. /\ phase[t] = "open" /\ phase' = [phase EXCEPT ![t] = "aborted"]
        /\ UNCHANGED <<data, version, seen, observed, writes>> /\ lockedBy' = lockedBy
    BY <1>1 DEF Abort, shardVars
  <2>2. \A s \in Shards : lockedBy[s] # t
    BY <2>1 DEF IInv, GuardsHeld
  <2>3. lockedBy' \in [Shards -> Txns \cup {NoTxn}]
    BY <2>1 DEF IInv, TypeOK
  <2>4. QED
    BY <2>1, <2>2, <2>3, MoveKeeps
<1>2. ASSUME NEW t \in Txns, CommitCall(t) PROVE IInv'
  <2>1. /\ phase[t] = "open" /\ phase' = [phase EXCEPT ![t] = "commit"]
        /\ UNCHANGED <<data, version, seen, observed, writes>> /\ lockedBy' = lockedBy
    BY <1>2 DEF CommitCall, shardVars
  <2>2. lockedBy' \in [Shards -> Txns \cup {NoTxn}]
    BY <2>1 DEF IInv, TypeOK
  <2>3. QED
    BY <2>1, <2>2, MoveKeeps
<1>3. ASSUME NEW t \in Txns, Lock(t) PROVE IInv'
  <2>1. PICK s \in Wanted(t) : Free(s) /\ lockedBy' = [lockedBy EXCEPT ![s] = t]
    BY <1>3 DEF Lock
  <2>2. /\ phase[t] = "commit" /\ phase' = [phase EXCEPT ![t] = "commit"]
        /\ UNCHANGED <<data, version, seen, observed, writes>>
    BY <1>3 DEF Lock, txnVars, IInv, TypeOK
  <2>3. s \in Involved(t)
    BY <2>1 DEF Wanted
  <2>4. lockedBy' \in [Shards -> Txns \cup {NoTxn}]
    BY <2>1 DEF IInv, TypeOK
  <2>5. \A r \in Shards : lockedBy'[r] # NoTxn =>
           \/ lockedBy'[r] = lockedBy[r] /\ (lockedBy[r] = t => "commit" = "commit")
           \/ lockedBy'[r] = t /\ "commit" = "commit" /\ r \in Involved(t)
    BY <2>1, <2>3 DEF IInv, TypeOK
  <2>6. QED
    BY <2>2, <2>4, <2>5, MoveKeeps
<1>4. ASSUME NEW t \in Txns, Conflict(t) PROVE IInv'
  <2>1. /\ phase[t] = "commit" /\ phase' = [phase EXCEPT ![t] = "aborted"]
        /\ UNCHANGED <<data, version, seen, observed, writes>>
        /\ lockedBy' = [s \in Shards |-> IF lockedBy[s] = t THEN NoTxn ELSE lockedBy[s]]
    BY <1>4 DEF Conflict, Release
  <2>2. lockedBy' \in [Shards -> Txns \cup {NoTxn}]
    BY <2>1 DEF IInv, TypeOK
  <2>3. \A s \in Shards : lockedBy'[s] # NoTxn => lockedBy'[s] = lockedBy[s] /\ lockedBy[s] # t
    BY <2>1
  <2>4. QED
    BY <2>1, <2>2, <2>3, MoveKeeps
<1>5. ASSUME NEW t \in Txns, NEW l \in Locs, Read(t, l) \/ Write(t, l) PROVE IInv'
  BY <1>5, ReadKeeps, WriteKeeps
<1>6. CASE UNCHANGED vars
  BY <1>6 DEF vars, shardVars, txnVars, IInv, TypeOK, VersionsSeen, ReadsCurrent, GuardsHeld,
              Running, Involved, Written
<1>7. QED
  BY <1>1, <1>2, <1>3, <1>4, <1>5, <1>6, BeginKeeps, CommitKeeps DEF Next, CommitStep

\* The versions begin_txn saw, what was read since and the guards of commits under
\* way always agree.
THEOREM Invariant == Spec => []IInv
BY InitInv, StepInv, PTL DEF Spec

-----------------------------------------------------------------------------
\* A transaction whose versions are still the shards' has read what they hold.
LEMMA ValidReads ==
    ASSUME IInv, NEW t \in Txns, phase[t] = "commit", Valid(t)
    PROVE  \A o \in observed[t] : data[o.at] = o.from
BY DEF IInv, ReadsCurrent, Running, Valid, Involved

\* Every step of the code is a step of the serial store, or invisible to it.
LEMMA StepRefines == IInv /\ [Next]_vars => [Serial!Next]_(Serial!vars)
<1> SUFFICES ASSUME IInv, [Next]_vars PROVE [Serial!Next]_(Serial!vars)
  OBVIOUS
<1> DEFINE status(t) == IF phase[t] \in {"committed", "aborted"} THEN phase[t] ELSE "running"
           S == [t \in Txns |-> status(t)]
<1> USE DEF Serial!Next, Serial!vars
<1>1. ASSUME NEW t \in Txns, BeginShard(t) \/ CommitCall(t) \/ Lock(t)
      PROVE  UNCHANGED Serial!vars
  <2>1. UNCHANGED <<data, observed, writes>>
    BY <1>1 DEF BeginShard, CommitCall, Lock, shardVars, txnVars
  <2>2. S' = S
    <3>1. \A u \in Txns : status(u)' = status(u)
      BY <1>1 DEF BeginShard, CommitCall, Lock, txnVars, IInv, TypeOK
    <3>2. QED
      BY <3>1
  <2>3. QED
    BY <2>1, <2>2
<1>2. ASSUME NEW t \in Txns, NEW l \in Locs, Read(t, l)
      PROVE  Serial!Next
  <2>1. S' = S
    BY <1>2 DEF Read
  <2>2. S[t] = "running"
    BY <1>2 DEF Read
  <2>3. data[l] \in Txns \cup {NoTxn}
    BY DEF IInv, TypeOK
  <2>4. Serial!Read(t, l, data[l])
    BY <1>2, <2>1, <2>2 DEF Read, Serial!Read, shardVars
  <2>5. QED
    BY <2>3, <2>4
<1>3. ASSUME NEW t \in Txns, NEW l \in Locs, Write(t, l)
      PROVE  Serial!Next
  <2>1. S' = S
    BY <1>3 DEF Write
  <2>2. S[t] = "running"
    BY <1>3 DEF Write
  <2>3. Serial!Write(t, l)
    BY <1>3, <2>1, <2>2 DEF Write, Serial!Write, shardVars
  <2>4. QED
    BY <2>3
<1>4. ASSUME NEW t \in Txns, Abort(t) \/ Conflict(t)
      PROVE  Serial!Next
  <2>1. UNCHANGED <<data, observed, writes>>
    BY <1>4 DEF Abort, Conflict, shardVars
  <2>2. S[t] = "running"
    BY <1>4 DEF Abort, Conflict
  <2>3. S' = [S EXCEPT ![t] = "aborted"]
    BY <1>4 DEF Abort, Conflict, IInv, TypeOK
  <2>4. Serial!Abort(t)
    BY <2>1, <2>2, <2>3 DEF Serial!Abort
  <2>5. QED
    BY <2>4
<1>5. ASSUME NEW t \in Txns, Commit(t)
      PROVE  Serial!Next
  <2>1. UNCHANGED <<observed, writes>>
    BY <1>5 DEF Commit
  <2>2. S[t] = "running"
    BY <1>5 DEF Commit
  <2>3. S' = [S EXCEPT ![t] = "committed"]
    BY <1>5 DEF Commit, IInv, TypeOK
  <2>4. \A o \in observed[t] : data[o.at] = o.from
    BY <1>5, ValidReads DEF Commit
  <2>5. data' = [l \in Locs |-> IF l \in writes[t] THEN t ELSE data[l]]
    BY <1>5 DEF Commit, Install
  <2>6. Serial!Commit(t)
    BY <2>1, <2>2, <2>3, <2>4, <2>5 DEF Serial!Commit
  <2>7. QED
    BY <2>6
<1>6. CASE UNCHANGED vars
  BY <1>6 DEF vars, shardVars, txnVars
<1>7. QED
  BY <1>1, <1>2, <1>3, <1>4, <1>5, <1>6 DEF Next, CommitStep

\* Whatever the interleaving of locks, what commits is one serial execution
\* (begin_txn, read, commit).
THEOREM Serializability == Spec => ImplementsSerial
<1>1. Init => Serial!Init
  BY DEF Init, Serial!Init
<1>2. QED
  BY <1>1, StepRefines, Invariant, PTL DEF Spec, ImplementsSerial, Serial!Spec
=============================================================================
