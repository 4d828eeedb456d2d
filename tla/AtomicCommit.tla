---------------------------- MODULE AtomicCommit ----------------------------
(***************************************************************************)
(* What atomic commitment promises, without a coordinator: the             *)
(* participants of a transaction leave Working one by one and end in one   *)
(* common outcome.  Committing takes everybody's consent.                  *)
(***************************************************************************)
CONSTANTS Txns, RMs

VARIABLE outcome   \* of each participant in each transaction

Init == outcome = [t \in Txns |-> [r \in RMs |-> "Working"]]

Becomes(t, r, state) == outcome' = [outcome EXCEPT ![t][r] = state]

Consent(t, r) ==
    /\ outcome[t][r] = "Working"
    /\ Becomes(t, r, "Prepared")

CommitOne(t, r) ==
    /\ \A s \in RMs : outcome[t][s] \in {"Prepared", "Committed"}
    /\ Becomes(t, r, "Committed")

AbortOne(t, r) ==
    /\ \A s \in RMs : outcome[t][s] # "Committed"
    /\ Becomes(t, r, "Aborted")

Next == \E t \in Txns, r \in RMs : Consent(t, r) \/ CommitOne(t, r) \/ AbortOne(t, r)

Spec == Init /\ [][Next]_outcome
=============================================================================
