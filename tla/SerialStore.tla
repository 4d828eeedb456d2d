---------------------------- MODULE SerialStore ----------------------------
(***************************************************************************)
(* What a serializable store promises: transactions take effect one at a   *)
(* time, each on the database its reads saw.  A read returns what the      *)
(* database holds, named by the transaction that wrote it; a transaction   *)
(* that aborts may have read anything.                                     *)
(***************************************************************************)
CONSTANTS Txns, Locs, NoTxn

VARIABLES
    db,      \* the last writer of each location
    status,
    reads,   \* what each transaction has read: [at, from]
    writes   \* the locations each transaction will write

vars == <<db, status, reads, writes>>

Init ==
    /\ db = [l \in Locs |-> NoTxn]
    /\ status = [t \in Txns |-> "running"]
    /\ reads = [t \in Txns |-> {}]
    /\ writes = [t \in Txns |-> {}]

\* Before it commits, a read may return anything.
Read(t, l, from) ==
    /\ status[t] = "running"
    /\ reads' = [reads EXCEPT ![t] = @ \cup {[at |-> l, from |-> from]}]
    /\ UNCHANGED <<db, status, writes>>

Write(t, l) ==
    /\ status[t] = "running"
    /\ writes' = [writes EXCEPT ![t] = @ \cup {l}]
    /\ UNCHANGED <<db, status, reads>>

\* All its reads are the database's, and all its writes happen at once.
Commit(t) ==
    /\ status[t] = "running"
    /\ \A o \in reads[t] : db[o.at] = o.from
    /\ db' = [l \in Locs |-> IF l \in writes[t] THEN t ELSE db[l]]
    /\ status' = [status EXCEPT ![t] = "committed"]
    /\ UNCHANGED <<reads, writes>>

Abort(t) ==
    /\ status[t] = "running"
    /\ status' = [status EXCEPT ![t] = "aborted"]
    /\ UNCHANGED <<db, reads, writes>>

Next ==
    \E t \in Txns :
        \/ Commit(t) \/ Abort(t)
        \/ \E l \in Locs : Write(t, l) \/ \E from \in Txns \cup {NoTxn} : Read(t, l, from)

Spec == Init /\ [][Next]_vars
=============================================================================
