--------------------------- MODULE SsiVersionList ---------------------------
(***************************************************************************)
(* The version lists of SsiStore as the code keeps them: per key a Vec of  *)
(* versions with their values, newest first, edited by retain, insert(0)   *)
(* and sort_by and searched from the front.  Each step is the step of      *)
(* SsiStore together with what it does to the Vec, so the invariants       *)
(* relate the two: the Vec represents the set of versions of SsiStore.     *)
(* SsiDstRunner puts these steps together: it is the client that makes the *)
(* calls.                                                                  *)
(***************************************************************************)
EXTENDS SsiStore, SequencesExt

CONSTANT Values   \* the values a client writes

VARIABLES
    list,      \* SsiInner.data: the Vec of each key
    lastWrite  \* the last value each transaction wrote to each key (history)

listVars == <<vars, list, lastWrite>>

Entry == [value : Values, writer : TxnId, ts : Timestamp]

ListInit ==
    /\ Init
    /\ list = [k \in Keys |-> <<>>]
    /\ lastWrite = [t \in TxnId |-> <<>>]

\* Vec::retain: the entries at the positions kept, in the order they had.
Retain(versions, kept) ==
    LET n == Cardinality(kept)
        position == CHOOSE f \in [1 .. n -> kept] :
                        \A i, j \in 1 .. n : i < j => f[i] < f[j]
    IN  [i \in 1 .. n |-> versions[position[i]]]

\* Mutant of RetainOthers: a second write leaves the first one in the list.
RetainAll(versions, txn) == versions

\* write(): retain(|v| !(v.writer_txn == txn && v.commit_timestamp == MAX)).
RetainOthers(versions, txn) ==
    Retain(versions, {i \in DOMAIN versions :
                         ~(versions[i].writer = txn /\ versions[i].ts = Pending)})

\* commit(): the pending entries of the transaction get the timestamp.
Stamp(versions, txn, ts) ==
    [i \in DOMAIN versions |->
        IF versions[i].writer = txn /\ versions[i].ts = Pending
        THEN [versions[i] EXCEPT !.ts = ts] ELSE versions[i]]

\* The comparison of commit(); sort_by is stable, so the position decides a tie.
Newer(versions, i, j) ==
    \/ versions[i].ts > versions[j].ts
    \/ versions[i].ts = versions[j].ts /\ i < j

\* Mutant of NewestFirst: the comparison is the wrong way round.
OldestFirst(versions) ==
    LET position == CHOOSE f \in [DOMAIN versions -> DOMAIN versions] :
                        \A i, j \in DOMAIN versions : i < j => Newer(versions, f[j], f[i])
    IN  [i \in DOMAIN versions |-> versions[position[i]]]

\* commit(): sort_by(|a, b| b.commit_timestamp.cmp(&a.commit_timestamp)).
NewestFirst(versions) ==
    LET position == CHOOSE f \in [DOMAIN versions -> DOMAIN versions] :
                        \A i, j \in DOMAIN versions : i < j => Newer(versions, f[i], f[j])
    IN  [i \in DOMAIN versions |-> versions[position[i]]]

\* abort and failed commit: retain(|v| v.writer_txn != txn).
DropWriter(versions, txn) ==
    Retain(versions, {i \in DOMAIN versions : versions[i].writer # txn})

\* visible_version: the first entry from the front the snapshot includes.
Scan(versions, ts) ==
    LET seen == {i \in DOMAIN versions :
                    versions[i].ts <= ts /\ versions[i].ts # Pending}
    IN  IF seen = {} THEN NoTxn ELSE versions[Min(seen)].writer

\* What a transaction wrote last, after one more write.
Recorded(values, key, value) ==
    [k \in DOMAIN values \cup {key} |-> IF k = key THEN value ELSE values[k]]

\* Mutant of ListWrite: the value of the first write is kept.
ListWriteFirst(txn, key, value) ==
    /\ Write(txn, key)
    /\ lastWrite' = [lastWrite EXCEPT ![txn] = Recorded(@, key, value)]
    /\ list' = IF PendingBy(txn) \in data[key] THEN list
               ELSE [list EXCEPT ![key] =
                        <<[value |-> value, writer |-> txn, ts |-> Pending]>> \o @]

ListWrite(txn, key, value) ==
    /\ Write(txn, key)
    /\ lastWrite' = [lastWrite EXCEPT ![txn] = Recorded(@, key, value)]
    /\ list' = [list EXCEPT ![key] =
                   <<[value |-> value, writer |-> txn, ts |-> Pending]>>
                       \o RetainOthers(@, txn)]

ListCommit(txn) ==
    /\ Commit(txn)
    /\ list' = [k \in Keys |-> IF k \in writeSet[txn]
                               THEN NewestFirst(Stamp(list[k], txn, timestamp))
                               ELSE list[k]]
    /\ UNCHANGED lastWrite

ListDrop(txn) ==
    /\ list' = [k \in Keys |-> IF k \in writeSet[txn] THEN DropWriter(list[k], txn)
                               ELSE list[k]]
    /\ UNCHANGED lastWrite

ListAbort(txn) == Abort(txn) /\ ListDrop(txn)

ListCommitFails(txn) == CommitFails(txn) /\ ListDrop(txn)

ListBegin == Begin /\ UNCHANGED <<list, lastWrite>>

ListRead(txn, key) == Read(txn, key) /\ UNCHANGED <<list, lastWrite>>

-----------------------------------------------------------------------------
\* The Vec of a key holds each version of the key once and nothing else, so
\* retain, stamp and sort lose and duplicate nothing (write, commit, abort).
ListHoldsVersions ==
    \A k \in Keys :
        /\ list[k] \in Seq(Entry)
        /\ {[writer |-> v.writer, ts |-> v.ts] : v \in ToSet(list[k])} = data[k]
        /\ Len(list[k]) = Cardinality(data[k])

\* Searching the Vec from the front finds the newest version of the snapshot,
\* for every snapshot past or present (visible_version).
ScanFindsNewest ==
    \A k \in Keys : \A ts \in 0 .. timestamp :
        Scan(list[k], ts) = VisibleVersion(k, ts)

\* What a transaction leaves on a key is the last value it wrote there
\* (the retain before the insert in write).
LastWriteWins ==
    \A k \in Keys : \A v \in ToSet(list[k]) : v.value = lastWrite[v.writer][k]
=============================================================================
