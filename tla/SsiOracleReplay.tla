--------------------------- MODULE SsiOracleReplay ---------------------------
(***************************************************************************)
(* replay_ssi_oracle of crates/vf-dst/src/ssi_oracle.rs: a trace of        *)
(* actions is played through the DST runner, one call after another, and   *)
(* the outcome is compared with the one the trace expects.  The            *)
(* transactions and keys of a trace are small numbers: txnMap gives the    *)
(* store's transaction, keyOf the store's key.                             *)
(***************************************************************************)
EXTENDS SsiDstRunner

VARIABLES
    trace,     \* the SsiOracleTrace being replayed
    keyOf,     \* the store's key of each key of the trace
    position,  \* the action that comes next
    txnMap,    \* the transaction of the store, NoTxn before its begin is answered
    reported,  \* committed and aborted, the transactions of the trace by outcome
    executed,  \* actions_executed
    faults     \* the length of fault_errors

replayVars == <<trace, keyOf, position, txnMap, reported, executed, faults>>

Oracle(actions, expected, who) == [actions |-> actions, expected |-> expected, who |-> who]
Do(call, txn, key) == [call |-> call, txn |-> txn, key |-> key]

\* The pre-built traces (all_oracles) of two transactions and two keys.
DangerousStructure ==
    Oracle(<<Do("begin", 1, 0), Do("begin", 2, 0), Do("read", 1, 1), Do("read", 2, 2),
             Do("write", 2, 1), Do("commit", 2, 0), Do("write", 1, 2), Do("commit", 1, 0)>>,
           "InvariantsHold", {})
DisjointKeys ==
    Oracle(<<Do("begin", 1, 0), Do("begin", 2, 0), Do("write", 1, 1), Do("write", 2, 2),
             Do("commit", 1, 0), Do("commit", 2, 0)>>, "AllCommit", {})
SequentialWrites ==
    Oracle(<<Do("begin", 1, 0), Do("write", 1, 1), Do("commit", 1, 0), Do("begin", 2, 0),
             Do("write", 2, 1), Do("commit", 2, 0)>>, "AllCommit", {})
SingleConflictFlag ==
    Oracle(<<Do("begin", 1, 0), Do("begin", 2, 0), Do("read", 1, 1), Do("write", 2, 1),
             Do("commit", 2, 0), Do("commit", 1, 0)>>, "AllCommit", {})
ReadOnly ==
    Oracle(<<Do("begin", 1, 0), Do("write", 1, 1), Do("commit", 1, 0), Do("begin", 2, 0),
             Do("read", 2, 1), Do("commit", 2, 0)>>, "AllCommit", {})
AllOracles == {DangerousStructure, DisjointKeys, SequentialWrites, SingleConflictFlag, ReadOnly}

ReplayInit(traces) ==
    /\ RunnerInit
    /\ trace \in traces
    /\ keyOf \in {f \in [1 .. 2 -> Keys] : f[1] # f[2]}
    /\ position = 1
    /\ txnMap = [t \in 1 .. 2 |-> NoTxn]
    /\ reported = [committed |-> {}, aborted |-> {}]
    /\ executed = 0
    /\ faults = 0

Current(call) ==
    /\ position <= Len(trace.actions)
    /\ trace.actions[position].call = call
    /\ position' = position + 1
    /\ UNCHANGED <<trace, keyOf>>

Action == trace.actions[position]
Txn == txnMap[Action.txn]

Answers == executed' = executed + 1 /\ UNCHANGED faults
Errs == faults' = faults + 1 /\ UNCHANGED executed
Reports(how) == reported' = [reported EXCEPT ![how] = @ \cup {Action.txn}]

ReplayBegin ==
    /\ Current("begin")
    /\ UNCHANGED reported
    /\ \/ RunnerBegin(TRUE) /\ Answers /\ txnMap' = [txnMap EXCEPT ![Action.txn] = nextTxn]
       \/ RunnerBegin(FALSE) /\ Errs /\ UNCHANGED txnMap
       \/ Errs /\ UNCHANGED <<txnMap, allVars>>

\* A call on a transaction the trace could not begin or that has ended, or a
\* fault before the store is called.
Refused(call) ==
    /\ Current(call)
    /\ Errs
    /\ UNCHANGED <<txnMap, reported, allVars>>

\* The runner's read or write, and a fault after it or none.
Access ==
    /\ \/ Current("read") /\ RunnerRead(Txn, keyOf[Action.key])
       \/ Current("write") /\ \E value \in Values : RunnerWrite(Txn, keyOf[Action.key], value)
    /\ Answers \/ Errs
    /\ UNCHANGED <<txnMap, reported>>

\* Mutant of ReplayCommit: an answer is taken for a commit, whatever it says.
ReplayCommitAny ==
    /\ Current("commit")
    /\ RunnerCommit(Txn)
    /\ \/ Answers /\ Reports("committed")
       \/ Errs /\ UNCHANGED reported
    /\ UNCHANGED txnMap

\* The answer of a commit is what the runner logged, unless a fault withholds it.
ReplayCommit ==
    /\ Current("commit")
    /\ RunnerCommit(Txn)
    /\ \/ Answers /\ Reports(IF Txn \in {t \in TxnId : outcome'[t] = "Commit"}
                             THEN "committed" ELSE "aborted")
       \/ Errs /\ UNCHANGED reported
    /\ UNCHANGED txnMap

\* An abort is counted whether or not the transaction was still active, and one
\* of a transaction that never began is passed over.
ReplayAbort ==
    /\ Current("abort")
    /\ \/ Txn # NoTxn /\ Answers /\ Reports("aborted")
          /\ IF Txn \in active THEN RunnerAbort(Txn) ELSE UNCHANGED allVars
       \/ Txn = NoTxn /\ UNCHANGED <<executed, faults, reported, allVars>>
    /\ UNCHANGED txnMap

ReplayNext ==
    \/ ReplayBegin
    \/ \E call \in {"read", "write", "commit"} : Refused(call)
    \/ Access
    \/ ReplayCommit
    \/ ReplayAbort

Replayed == position > Len(trace.actions)

\* SsiDstRunner::invariants_hold at the end of the replay.
InvariantsHold ==
    VerdictFirstCommitterWins /\ VerdictNoDangerous /\ VerdictNoLostWrites

\* DangerousStructureAbort(t) asks what SomeAbort([t]) does.
ExpectedOutcomeMet ==
    CASE trace.expected = "AllCommit" -> reported.aborted = {} /\ faults = 0
      [] trace.expected = "SomeAbort" -> trace.who \subseteq reported.aborted
      [] trace.expected = "InvariantsHold" -> InvariantsHold

-----------------------------------------------------------------------------
\* A replay says what happened (replay_ssi_oracle).  What it lists as committed or
\* aborted the store committed or aborted; a trace that expects every commit
\* passes only when each of its transactions committed in the store; and with no
\* fault every pre-built trace is played to its end, meets its expectation and
\* breaks no invariant.
ReplayHonest ==
    /\ \A t \in reported.committed : txnMap[t] \in committed
    /\ \A t \in reported.aborted : txnMap[t] # NoTxn /\ status[txnMap[t]] # "Active"
    /\ (Replayed /\ trace.expected = "AllCommit" /\ ExpectedOutcomeMet) =>
            \A i \in DOMAIN trace.actions : trace.actions[i].call = "commit" =>
                txnMap[trace.actions[i].txn] \in committed
    /\ (Replayed /\ faults = 0) =>
            executed = Len(trace.actions) /\ ExpectedOutcomeMet /\ InvariantsHold

-----------------------------------------------------------------------------
(* Small instances for TLC of the DST runner with three users: any client of *)
(* SsiDstRunner; one that sees no fault and only makes calls the store acts  *)
(* on, which brings the store itself into all its states; and the replay of  *)
(* a trace.  Keys and values are each interchangeable.                       *)
CONSTANTS
    MaxReaders,       \* bounds: SIREAD locks a run of clients holds at a time,
    MaxClientWrites,  \* its logged writes,
    MaxAccesses       \* and both together

VARIABLE user

\* Every write of the plain caller has the same value, and is its only one of the key.
PlainWrite(txn, key) ==
    /\ status[txn] = "Active" /\ writeLock[key] = NoTxn
    /\ \E value \in Values :
          /\ \A t \in TxnId : \A k \in DOMAIN lastWrite[t] : lastWrite[t][k] = value
          /\ RunnerWrite(txn, key, value)

PlainNext ==
    \/ RunnerBegin(TRUE)
    \/ \E txn \in TxnId :
          \/ \E key \in Keys : RunnerRead(txn, key) \/ PlainWrite(txn, key)
          \/ RunnerCommit(txn) \/ RunnerAbort(txn)

\* One more trace, with an abort in it and after the end.
GivesUp ==
    Oracle(<<Do("begin", 1, 0), Do("write", 1, 1), Do("abort", 1, 0), Do("begin", 2, 0),
             Do("write", 2, 1), Do("commit", 2, 0), Do("abort", 1, 0)>>, "SomeAbort", {1})

Readers == Cardinality(UNION {{k} \X siread[k] : k \in Keys})
ClientWrites == Cardinality(LoggedWrites)

MCInit ==
    /\ user \in {"client", "caller", "replay"}
    /\ ReplayInit(AllOracles \cup {GivesUp})
    /\ user # "replay" => trace = ReadOnly

MCNext ==
    \/ /\ user = "client" /\ RunnerNext /\ UNCHANGED <<user, replayVars>>
       /\ Readers' <= MaxReaders /\ ClientWrites' <= MaxClientWrites
       /\ (Readers + ClientWrites)' <= MaxAccesses
    \/ user = "caller" /\ PlainNext /\ UNCHANGED <<user, replayVars>>
    \/ user = "replay" /\ ReplayNext /\ UNCHANGED user

MCSpec == MCInit /\ [][MCNext]_<<user, allVars, replayVars>>

Symmetry == Permutations(Keys) \cup Permutations(Values)

\* Of the caller only the store is looked at, with all that was read: what else
\* there is follows its calls.  Elsewhere no guard looks at what was read (obs,
\* logReads), and of the properties the store's, which the caller is for, and the
\* one of a replay.
Unread ==
    IF user = "caller" THEN <<vars, user>>
    ELSE <<timestamp, nextTxn, txnVars, writeLock, siread, data, committed, list, lastWrite,
           runnerTs, active, startTs, commitTs, counts, known, lastWriter, logWrites, outcome,
           user, replayVars, IF user = "replay" THEN logReads ELSE {}>>
=============================================================================
