--------------------------- MODULE MCRaftConsensus ---------------------------
(* Small instances of RaftConsensus and of its evolved version for TLC.  A   *)
(* behaviour is one of the two; nothing in RaftNode orders the identifiers   *)
(* of nodes.                                                                 *)
EXTENDS RaftConsensusV2, TLC

CONSTANT Programs   \* the versions to check

ASSUME ProgramsAssumption == Programs \subseteq {"seed", "v2"}

VARIABLE program

MCInit == program \in Programs /\ Init

MCNext ==
    /\ UNCHANGED program
    /\ \/ program = "seed" /\ Next
       \/ program = "v2" /\ NextV2

MCSpec == MCInit /\ [][MCNext]_<<program, vars>>

\* A leader keeps its log, and in the evolved version also what it knows of its
\* followers' logs, whatever answers arrive late or twice.
LeaderForgetsNothing ==
    [][/\ LeaderKeepsLog
       /\ program = "v2" => MatchNeverFalls]_vars

NodeSymmetry == Permutations(Nodes)

\* An answer that changes nothing at its receiver, now or later: terms only grow,
\* and a node that has left its candidacy or its lead does not get it back in the
\* same term.
Spent(m) ==
    LET n == m.to
    IN  \/ m.kind \in {"vote", "appended"} /\ m.term < currentTerm[n]
        \/ /\ m.kind = "vote" /\ m.term = currentTerm[n]
           /\ state[n] # "Candidate" \/ ~m.granted \/ m.from \in votesReceived[n]
        \/ m.kind = "appended" /\ m.term = currentTerm[n] /\ state[n] # "Leader"

\* States that differ only in spent answers, or in what become_leader overwrites
\* before it is read, have the same future.
NodeView ==
    <<program, state, currentTerm, votedFor, log, commitIndex, applied, counters,
      {m \in msgs : ~Spent(m)},
      [n \in Nodes |-> IF state[n] = "Candidate" THEN votesReceived[n] ELSE {}],
      [n \in Nodes |-> IF state[n] = "Leader" THEN <<nextIndex[n], matchIndex[n]>>
                       ELSE <<>>]>>
=============================================================================
