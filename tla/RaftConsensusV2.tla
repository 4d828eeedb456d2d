--------------------------- MODULE RaftConsensusV2 ---------------------------
(***************************************************************************)
(* RaftNode of results/v2/raft_consensus_best.rs: RaftConsensus with the   *)
(* node's state behind an AtomicPtr.  cas_update clones the state, changes *)
(* the clone and swaps the pointer; the old state is freed at once, so two *)
(* threads in one node would use freed memory.  Here each node is driven   *)
(* by one thread, as a call loop of tick, step, ready and advance does:    *)
(* then a call is a step, and the cached copies that the reads return are  *)
(* the fields themselves.                                                  *)
(*                                                                         *)
(* The handlers are the seed's but for three: an election may be won at    *)
(* its start, an answer that reports less than an earlier one is not taken *)
(* over, and a rejection is answered at once with earlier entries.         *)
(***************************************************************************)
EXTENDS RaftConsensus

\* tick of a leader; send_heartbeats.
BeatV2(n) == Heartbeat(n)

\* tick of another node; start_election.  With peers one vote is no quorum.
CampaignV2(n) == ~IsQuorum({n}) /\ Timeout(n)

ProposeV2(n) == Propose(n)

VoteV2(n, m) == HandleRequestVote(n, m)

\* handle_vote_response and handle_append_entries_response, of a higher term.
StepDownV2(n, m) == m.kind \in {"vote", "appended"} /\ StepDown(n, m)

\* handle_vote_response; become_leader.
CountV2(n, m) == HandleVoteResponse(n, m)

\* handle_append_entries.
AppendV2(n, m) == AppendStale(n, m) \/ AppendRejected(n, m) \/ AppendAccepted(n, m)

\* Mutant of Reported: the seed's, the last answer counts.
ReportedLast(n, m) == m.match

\* The match index a leader keeps: the highest reported.
Reported(n, m) == IF m.match > matchIndex[n][m.from] THEN m.match ELSE matchIndex[n][m.from]

\* handle_append_entries_response, success; try_advance_commit.
AppendedOkV2(n, m) ==
    LET match == [matchIndex[n] EXCEPT ![m.from] = Reported(n, m)]
        ready == Committable(n, match)
        commit == IF ready = {} THEN commitIndex[n]
                  ELSE CHOOSE i \in ready : \A j \in ready : j <= i
    IN  /\ m.kind = "appended" /\ m.success
        /\ state[n] = "Leader" /\ m.term = currentTerm[n]
        /\ nextIndex' = [nextIndex EXCEPT ![n][m.from] =
                            IF match = matchIndex[n] THEN @ ELSE m.match + 1]
        /\ matchIndex' = [matchIndex EXCEPT ![n] = match]
        /\ commitIndex' = [commitIndex EXCEPT ![n] = commit]
        /\ applied' = [applied EXCEPT ![n] = Apply(n, log[n], commit)]
        /\ UNCHANGED <<electionVars, log, msgs, counters>>

\* handle_append_entries_response, a rejection: one entry more, at once.
RetryV2(n, m) ==
    LET p == m.from
        next == IF nextIndex[n][p] > 1 THEN nextIndex[n][p] - 1 ELSE 1
    IN  /\ m.kind = "appended" /\ ~m.success
        /\ state[n] = "Leader" /\ m.term = currentTerm[n]
        /\ nextIndex' = [nextIndex EXCEPT ![n][p] = next]
        /\ msgs' = msgs \cup {a \in AppendEntries(n, log[n], nextIndex'[n]) : a.to = p}
        /\ UNCHANGED <<electionVars, logVars, matchIndex, counters>>

\* step.
StepV2(n, m) ==
    \/ VoteV2(n, m) \/ StepDownV2(n, m) \/ CountV2(n, m)
    \/ AppendV2(n, m) \/ AppendedOkV2(n, m) \/ RetryV2(n, m)

NextV2 ==
    \E n \in Nodes :
        \/ CampaignV2(n) \/ BeatV2(n) \/ ProposeV2(n)
        \/ \E m \in {x \in msgs : x.to = n} : StepV2(n, m)

SpecV2 == Init /\ [][NextV2]_vars

-----------------------------------------------------------------------------
\* What a leader knows its followers to have, it does not forget while it leads:
\* answers that arrive late or twice lower neither the match index nor the next.
MatchNeverFalls ==
    \A n \in Nodes :
        state[n] = "Leader" /\ state'[n] = "Leader" /\ currentTerm'[n] = currentTerm[n]
            => \A p \in Nodes : matchIndex'[n][p] >= matchIndex[n][p]
=============================================================================
