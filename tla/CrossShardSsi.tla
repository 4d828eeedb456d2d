---------------------------- MODULE CrossShardSsi ----------------------------
(***************************************************************************)
(* CrossShardSsi of tools/vf-evolve/tasks/cross_shard_ssi/initial.rs:      *)
(* transactions over shards that each have a Mutex and a version.  begin   *)
(* looks at the shards one by one, commit locks those it used in order,    *)
(* compares their versions with what begin saw and writes.                 *)
(*                                                                         *)
(* A transaction is driven by one thread.  Its entry in txns, whose Mutex  *)
(* is never held across a call, is then its own, so taking that lock is no *)
(* step.  A value is named by the transaction that wrote it.  read and     *)
(* write of a transaction that has ended change nothing, commit of one is  *)
(* refused with TxnNotFound: neither is a step.                            *)
(***************************************************************************)
EXTENDS Integers, Sequences, FiniteSets

CONSTANTS
    NumShards, Keys, Txns, NoTxn,
    MaxOps   \* bound: reads and writes of a transaction

ASSUME ShardsAssumption == NumShards \in Nat \ {0}
ASSUME NoTxnAssumption == NoTxn \notin Txns

Shards == 1 .. NumShards
Locs == Shards \X Keys

VARIABLES
    data,      \* Shard.data: who wrote the value at each location
    version,   \* Shard.version
    lockedBy,  \* the transaction whose commit holds the guard of the shard
    phase,     \* where the thread of each transaction is
    seen,      \* TxnState.snapshot_versions, as far as begin has filled it
    observed,  \* TxnState.reads, with what each read returned (history)
    writes     \* TxnState.writes, the last value for a location stands

shardVars == <<data, version, lockedBy>>
txnVars == <<phase, seen, observed, writes>>
vars == <<shardVars, txnVars>>

Init ==
    /\ data = [l \in Locs |-> NoTxn]
    /\ version = [s \in Shards |-> 0]
    /\ lockedBy = [s \in Shards |-> NoTxn]
    /\ phase = [t \in Txns |-> "begin"]
    /\ seen = [t \in Txns |-> <<>>]
    /\ observed = [t \in Txns |-> {}]
    /\ writes = [t \in Txns |-> {}]

Free(s) == lockedBy[s] = NoTxn

\* begin_txn: the next shard is locked, looked at and unlocked.
BeginShard(t) ==
    LET s == Len(seen[t]) + 1
    IN  /\ phase[t] = "begin"
        /\ Free(s)
        /\ seen' = [seen EXCEPT ![t] = Append(@, version[s])]
        /\ phase' = [phase EXCEPT ![t] = IF s = NumShards THEN "open" ELSE "begin"]
        /\ UNCHANGED <<shardVars, observed, writes>>

Ops(t) == Cardinality(observed[t]) + Cardinality(writes[t])

\* read: what the shard holds now, not what it held at begin, and never the
\* transaction's own write.
Read(t, l) ==
    /\ phase[t] = "open" /\ Ops(t) < MaxOps
    /\ Free(l[1])
    /\ observed' = [observed EXCEPT ![t] = @ \cup {[at |-> l, from |-> data[l]]}]
    /\ UNCHANGED <<shardVars, phase, seen, writes>>

Write(t, l) ==
    /\ phase[t] = "open" /\ Ops(t) < MaxOps
    /\ writes' = [writes EXCEPT ![t] = @ \cup {l}]
    /\ UNCHANGED <<shardVars, phase, seen, observed>>

Abort(t) ==
    /\ phase[t] = "open"
    /\ phase' = [phase EXCEPT ![t] = "aborted"]
    /\ UNCHANGED <<shardVars, seen, observed, writes>>

-----------------------------------------------------------------------------
\* commit, up to the first lock.
CommitCall(t) ==
    /\ phase[t] = "open"
    /\ phase' = [phase EXCEPT ![t] = "commit"]
    /\ UNCHANGED <<shardVars, seen, observed, writes>>

Written(t) == {l[1] : l \in writes[t]}
Involved(t) == Written(t) \cup {o.at[1] : o \in observed[t]}

\* Mutant of Wanted: the involved shards are not sorted.
WantedUnsorted(t) == {s \in Involved(t) : lockedBy[s] # t}

\* The shard whose lock the loop of commit takes next, if any.
Wanted(t) ==
    LET missing == {s \in Involved(t) : lockedBy[s] # t}
    IN  {s \in missing : \A r \in missing : s <= r}

Lock(t) ==
    /\ phase[t] = "commit"
    /\ \E s \in Wanted(t) : Free(s) /\ lockedBy' = [lockedBy EXCEPT ![s] = t]
    /\ UNCHANGED <<data, version, txnVars>>

\* Mutant of Valid: shards that were only read are not checked.
ValidWrites(t) == \A s \in Written(t) : version[s] = seen[t][s]

Valid(t) == \A s \in Involved(t) : version[s] = seen[t][s]

Release(t) == lockedBy' = [s \in Shards |-> IF lockedBy[s] = t THEN NoTxn ELSE lockedBy[s]]

\* Mutant of Install: the version of the first written shard only is raised.
InstallOneVersion(t) ==
    /\ data' = [l \in Locs |-> IF l \in writes[t] THEN t ELSE data[l]]
    /\ version' = [s \in Shards |->
                      IF s \in Written(t) /\ \A r \in Written(t) : s <= r
                      THEN version[s] + 1 ELSE version[s]]

\* The loop that applies the writes, with all locks held.
Install(t) ==
    /\ data' = [l \in Locs |-> IF l \in writes[t] THEN t ELSE data[l]]
    /\ version' = [s \in Shards |->
                      IF s \in Written(t) THEN version[s] + 1 ELSE version[s]]

\* commit, once it has all the locks.
Commit(t) ==
    /\ phase[t] = "commit" /\ Wanted(t) = {}
    /\ Valid(t)
    /\ Install(t)
    /\ Release(t)
    /\ phase' = [phase EXCEPT ![t] = "committed"]
    /\ UNCHANGED <<seen, observed, writes>>

\* Err(WriteConflict): the transaction is gone, its guards are dropped.
Conflict(t) ==
    /\ phase[t] = "commit" /\ Wanted(t) = {}
    /\ ~Valid(t)
    /\ Release(t)
    /\ phase' = [phase EXCEPT ![t] = "aborted"]
    /\ UNCHANGED <<data, version, seen, observed, writes>>

CommitStep(t) == Lock(t) \/ Commit(t) \/ Conflict(t)

Next ==
    \E t \in Txns :
        \/ BeginShard(t) \/ CommitCall(t) \/ CommitStep(t) \/ Abort(t)
        \/ \E l \in Locs : Read(t, l) \/ Write(t, l)

Spec == Init /\ [][Next]_vars

\* A thread inside commit goes on, and gets a lock that is free for long enough:
\* transactions are finitely many, so nobody can take it from it forever.
FairSpec == Spec /\ \A t \in Txns : WF_vars(CommitStep(t))

-----------------------------------------------------------------------------
TypeOK ==
    /\ data \in [Locs -> Txns \cup {NoTxn}]
    /\ version \in [Shards -> Nat]
    /\ lockedBy \in [Shards -> Txns \cup {NoTxn}]
    /\ phase \in [Txns -> {"begin", "open", "commit", "committed", "aborted"}]
    /\ seen \in [Txns -> Seq(Nat)]
    /\ observed \in [Txns -> SUBSET [at : Locs, from : Txns \cup {NoTxn}]]
    /\ writes \in [Txns -> SUBSET Locs]

Running(t) == phase[t] \in {"open", "commit"}

\* begin_txn sees no version that is not there yet.
VersionsSeen ==
    \A t \in Txns :
        /\ \A s \in DOMAIN seen[t] : s \in Shards /\ seen[t][s] <= version[s]
        /\ Running(t) => DOMAIN seen[t] = Shards
        /\ phase[t] = "begin" => Len(seen[t]) < NumShards /\ observed[t] = {}

\* A shard whose version is the one begin saw holds what the transaction read
\* there, although the versions were seen one by one and the reads came later.
ReadsCurrent ==
    \A t \in Txns : Running(t) =>
        \A o \in observed[t] :
            version[o.at[1]] = seen[t][o.at[1]] => data[o.at] = o.from

\* Only a commit under way holds guards, and only of shards it involves.
GuardsHeld ==
    \A s \in Shards : lockedBy[s] # NoTxn =>
        phase[lockedBy[s]] = "commit" /\ s \in Involved(lockedBy[s])

\* The versions begin saw, what the transaction read and who holds which guard
\* agree (begin_txn, read, commit): the inductive invariant.
IInv == TypeOK /\ VersionsSeen /\ ReadsCurrent /\ GuardsHeld

Serial == INSTANCE SerialStore WITH
              db <- data, reads <- observed,
              status <- [t \in Txns |-> IF phase[t] \in {"committed", "aborted"}
                                        THEN phase[t] ELSE "running"]

\* Committed transactions are serializable in the order of their commits, with all
\* their writes at once ("Serializability", "Atomicity" and both conflict
\* detections of PROBLEM.md:11-16, as far as committed transactions see).
ImplementsSerial == Serial!Spec

\* "No deadlock" (PROBLEM.md:23): a commit that was called returns, although it
\* keeps guards while it waits for others (the sorted locking loop).
CommitFinishes ==
    \A t \in Txns : phase[t] = "commit" ~> phase[t] \in {"committed", "aborted"}

-----------------------------------------------------------------------------
\* "A read within a transaction never observes a write from a transaction that had
\* not committed before the reading transaction began", PROBLEM.md:12: the reads of
\* an open transaction agree with the versions it saw at begin.
ReadsFromSnapshot ==
    \A t \in Txns : phase[t] = "open" =>
        \A o, p \in observed[t] : o.at = p.at => o.from = p.from
=============================================================================
