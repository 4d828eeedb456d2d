------------------------- MODULE SnapshotIsolation --------------------------
(***************************************************************************)
(* What a snapshot-isolation store promises, without timestamps, versions  *)
(* or locks: a transaction reads from a copy of the database taken when it *)
(* begins, collects its writes, and installs them in one step or not at    *)
(* all.  Two active transactions never hold a write of the same key.       *)
(* SsiStore implements this module (SsiStore!ImplementsSnapshots).         *)
(***************************************************************************)
CONSTANTS Keys, Txns, NoTxn

VARIABLES
    db,      \* the writer of the committed value of each key
    phase,   \* of each transaction
    view,    \* the database as each transaction saw it when it began
    buffer,  \* the keys each transaction wrote
    reads    \* what was read: the transaction, the key and the writer seen

vars == <<db, phase, view, buffer, reads>>

Empty == [k \in Keys |-> NoTxn]

Init ==
    /\ db = Empty
    /\ phase = [t \in Txns |-> "Unborn"]
    /\ view = [t \in Txns |-> Empty]
    /\ buffer = [t \in Txns |-> {}]
    /\ reads = {}

Begin(t) ==
    /\ phase[t] = "Unborn"
    /\ phase' = [phase EXCEPT ![t] = "Active"]
    /\ view' = [view EXCEPT ![t] = db]
    /\ UNCHANGED <<db, buffer, reads>>

Read(t, k) ==
    /\ phase[t] = "Active"
    /\ reads' = reads \cup {[txn |-> t, key |-> k, from |-> view[t][k]]}
    /\ UNCHANGED <<db, phase, view, buffer>>

Write(t, k) ==
    /\ phase[t] = "Active"
    /\ \A u \in Txns \ {t} : phase[u] = "Active" => k \notin buffer[u]
    /\ buffer' = [buffer EXCEPT ![t] = @ \cup {k}]
    /\ UNCHANGED <<db, phase, view, reads>>

Commit(t) ==
    /\ phase[t] = "Active"
    /\ phase' = [phase EXCEPT ![t] = "Committed"]
    /\ db' = [k \in Keys |-> IF k \in buffer[t] THEN t ELSE db[k]]
    /\ UNCHANGED <<view, buffer, reads>>

Abort(t) ==
    /\ phase[t] = "Active"
    /\ phase' = [phase EXCEPT ![t] = "Aborted"]
    /\ UNCHANGED <<db, view, buffer, reads>>

Next ==
    \E t \in Txns :
        \/ Begin(t) \/ Commit(t) \/ Abort(t)
        \/ \E k \in Keys : Read(t, k) \/ Write(t, k)

Spec == Init /\ [][Next]_vars
=============================================================================
