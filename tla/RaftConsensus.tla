---------------------------- MODULE RaftConsensus ----------------------------
(***************************************************************************)
(* RaftNode of tools/vf-evolve/tasks/raft_consensus/initial.rs: leader     *)
(* election and log replication.  Every call takes the node's Mutex, so a  *)
(* call is a step.  What a node pushes to pending_messages is in msgs from *)
(* then on; the caller of ready and step may deliver a message never,      *)
(* late, twice and in any order.                                           *)
(*                                                                         *)
(* tick only counts: a leader may send heartbeats, and any other node      *)
(* start an election, after any number of ticks.                           *)
(***************************************************************************)
EXTENDS Integers, Sequences, FiniteSets

CONSTANTS
    Nodes,
    None,      \* Option::None, of voted_for
    MaxTerm,   \* bound: elections started, and so terms
    MaxData,   \* bound: proposals; the k-th one proposes the data k
    MaxOfTerm, \* bound: proposals in a term
    MaxBeats   \* bound: rounds of heartbeats sent by tick

\* new asserts that there are peers.
ASSUME NodesAssumption ==
    /\ IsFiniteSet(Nodes) /\ None \notin Nodes
    /\ \A n \in Nodes : Nodes # {n}
ASSUME BoundsAssumption == MaxTerm \in Nat \ {0} /\ MaxData \in Nat /\ MaxBeats \in Nat
                    /\ MaxOfTerm \in Nat

VARIABLES
    state, currentTerm, votedFor,
    log,            \* its entries; an entry's index is its position
    commitIndex,
    votesReceived,
    nextIndex,      \* 1 where the HashMap has no entry
    matchIndex,     \* 0 where the HashMap has no entry
    applied,        \* what apply_committed has pushed to pending_committed
    msgs,           \* all messages sent
    elections, proposals, beats   \* how many there were (bounds the model)

electionVars == <<state, currentTerm, votedFor, votesReceived>>
logVars == <<log, commitIndex, applied>>
leaderVars == <<nextIndex, matchIndex>>
counters == <<elections, proposals, beats>>
vars == <<electionVars, logVars, leaderVars, msgs, counters>>

Entry == [term : 1 .. MaxTerm, data : 1 .. MaxData]

Init ==
    /\ state = [n \in Nodes |-> "Follower"]
    /\ currentTerm = [n \in Nodes |-> 0]
    /\ votedFor = [n \in Nodes |-> None]
    /\ log = [n \in Nodes |-> <<>>]
    /\ commitIndex = [n \in Nodes |-> 0]
    /\ votesReceived = [n \in Nodes |-> {}]
    /\ nextIndex = [n \in Nodes |-> [p \in Nodes |-> 1]]
    /\ matchIndex = [n \in Nodes |-> [p \in Nodes |-> 0]]
    /\ applied = [n \in Nodes |-> <<>>]
    /\ msgs = {}
    /\ elections = 0 /\ proposals = 0 /\ beats = 0

-----------------------------------------------------------------------------
\* Mutant of IsQuorum: half of the nodes, rounded down, will do.
IsHalf(S) == Cardinality(S) >= Cardinality(Nodes) \div 2

\* quorum_size.
IsQuorum(S) == Cardinality(S) >= Cardinality(Nodes) \div 2 + 1

Peers(n) == Nodes \ {n}

TermAt(l, i) == IF i \in DOMAIN l THEN l[i].term ELSE 0

\* last_log_info.
LastTerm(l) == TermAt(l, Len(l))

\* send_heartbeats, with the leader state the node is left in; also
\* send_append_entries.
AppendEntries(n, entries, next) ==
    {[kind |-> "append", from |-> n, to |-> p, term |-> currentTerm[n],
      prevIndex |-> next[p] - 1, prevTerm |-> TermAt(entries, next[p] - 1),
      entries |-> SubSeq(entries, next[p], Len(entries)),
      commit |-> commitIndex[n]] : p \in Peers(n)}

\* tick of a leader.
Heartbeat(n) ==
    /\ state[n] = "Leader"
    /\ beats < MaxBeats
    /\ beats' = beats + 1
    /\ msgs' = msgs \cup AppendEntries(n, log[n], nextIndex[n])
    /\ UNCHANGED <<electionVars, logVars, leaderVars, elections, proposals>>

\* tick of another node; start_election.
Timeout(n) ==
    /\ state[n] # "Leader"
    /\ elections < MaxTerm
    /\ elections' = elections + 1
    /\ currentTerm' = [currentTerm EXCEPT ![n] = @ + 1]
    /\ state' = [state EXCEPT ![n] = "Candidate"]
    /\ votedFor' = [votedFor EXCEPT ![n] = n]
    /\ votesReceived' = [votesReceived EXCEPT ![n] = {n}]
    /\ msgs' = msgs \cup
          {[kind |-> "request", from |-> n, to |-> p, term |-> currentTerm[n] + 1,
            lastIndex |-> Len(log[n]), lastTerm |-> LastTerm(log[n])] : p \in Peers(n)}
    /\ UNCHANGED <<logVars, leaderVars, proposals, beats>>

Propose(n) ==
    LET longer == Append(log[n], [term |-> currentTerm[n], data |-> proposals + 1])
    IN  /\ state[n] = "Leader"
        /\ proposals < MaxData
        /\ Cardinality({i \in DOMAIN log[n] : log[n][i].term = currentTerm[n]}) < MaxOfTerm
        /\ proposals' = proposals + 1
        /\ log' = [log EXCEPT ![n] = longer]
        /\ matchIndex' = [matchIndex EXCEPT ![n][n] = Len(longer)]
        /\ msgs' = msgs \cup AppendEntries(n, longer, nextIndex[n])
        /\ UNCHANGED <<electionVars, commitIndex, applied, nextIndex, elections, beats>>

-----------------------------------------------------------------------------
\* The candidate's log is at least as up to date.
LogOk(n, m) ==
    \/ m.lastTerm > LastTerm(log[n])
    \/ m.lastTerm = LastTerm(log[n]) /\ m.lastIndex >= Len(log[n])

MayVote(n, m) ==
    /\ \/ m.term > currentTerm[n]
       \/ m.term = currentTerm[n] /\ votedFor[n] \in {None, m.from}
    /\ LogOk(n, m)

Higher(n, m) == m.term > currentTerm[n]

HandleRequestVote(n, m) ==
    /\ m.kind = "request"
    /\ currentTerm' = [currentTerm EXCEPT ![n] = IF Higher(n, m) THEN m.term ELSE @]
    /\ state' = [state EXCEPT ![n] = IF Higher(n, m) THEN "Follower" ELSE @]
    /\ votesReceived' = [votesReceived EXCEPT ![n] = IF Higher(n, m) THEN {} ELSE @]
    /\ votedFor' = [votedFor EXCEPT ![n] = IF MayVote(n, m) THEN m.from
                                           ELSE IF Higher(n, m) THEN None ELSE @]
    /\ msgs' = msgs \cup {[kind |-> "vote", from |-> n, to |-> m.from,
                           term |-> currentTerm'[n], granted |-> MayVote(n, m)]}
    /\ UNCHANGED <<logVars, leaderVars, counters>>

\* A response of a higher term.
StepDown(n, m) ==
    /\ Higher(n, m)
    /\ currentTerm' = [currentTerm EXCEPT ![n] = m.term]
    /\ state' = [state EXCEPT ![n] = "Follower"]
    /\ votedFor' = [votedFor EXCEPT ![n] = None]
    /\ votesReceived' = [votesReceived EXCEPT ![n] = {}]
    /\ UNCHANGED <<logVars, leaderVars, msgs, counters>>

\* handle_vote_response of a candidate in that term; a vote that completes a
\* quorum makes it the leader.
HandleVoteResponse(n, m) ==
    LET votes == votesReceived[n] \cup (IF m.granted THEN {m.from} ELSE {})
        next == [p \in Nodes |-> IF p = n THEN nextIndex[n][n] ELSE Len(log[n]) + 1]
    IN  /\ m.kind = "vote"
        /\ state[n] = "Candidate" /\ m.term = currentTerm[n]
        /\ votesReceived' = [votesReceived EXCEPT ![n] = votes]
        /\ IF IsQuorum(votes)
           THEN /\ state' = [state EXCEPT ![n] = "Leader"]
                /\ nextIndex' = [nextIndex EXCEPT ![n] = next]
                /\ matchIndex' = [matchIndex EXCEPT ![n] =
                                     [p \in Nodes |-> IF p = n THEN Len(log[n]) ELSE 0]]
                /\ msgs' = msgs \cup AppendEntries(n, log[n], next)
           ELSE UNCHANGED <<state, leaderVars, msgs>>
        /\ UNCHANGED <<currentTerm, votedFor, logVars, counters>>

-----------------------------------------------------------------------------
Answer(n, m, term, success, match) ==
    [kind |-> "appended", from |-> n, to |-> m.from, term |-> term,
     success |-> success, match |-> match]

AppendStale(n, m) ==
    /\ m.kind = "append" /\ m.term < currentTerm[n]
    /\ msgs' = msgs \cup {Answer(n, m, currentTerm[n], FALSE, 0)}
    /\ UNCHANGED <<electionVars, logVars, leaderVars, counters>>

\* Mutant of Follow: a leader of an older term keeps its state.
FollowSilently(n, m) ==
    /\ m.kind = "append" /\ m.term >= currentTerm[n]
    /\ currentTerm' = [currentTerm EXCEPT ![n] = m.term]
    /\ votedFor' = [votedFor EXCEPT ![n] = IF Higher(n, m) THEN None ELSE @]
    /\ UNCHANGED <<state, votesReceived>>

\* What every other AppendEntries does first: follow its sender.
Follow(n, m) ==
    /\ m.kind = "append" /\ m.term >= currentTerm[n]
    /\ currentTerm' = [currentTerm EXCEPT ![n] = m.term]
    /\ state' = [state EXCEPT ![n] = "Follower"]
    /\ votedFor' = [votedFor EXCEPT ![n] = IF Higher(n, m) THEN None ELSE @]
    /\ votesReceived' = [votesReceived EXCEPT ![n] = IF Higher(n, m) THEN {} ELSE @]

\* The log has the entry before the new ones.
Consistent(n, m) ==
    m.prevIndex > 0 =>
        m.prevIndex <= Len(log[n]) /\ log[n][m.prevIndex].term = m.prevTerm

AppendRejected(n, m) ==
    /\ Follow(n, m)
    /\ ~Consistent(n, m)
    /\ msgs' = msgs \cup {Answer(n, m, m.term, FALSE, 0)}
    /\ UNCHANGED <<logVars, leaderVars, counters>>

\* The log after the loop over entries: the first entry of another term cuts it,
\* entries it has already leave it as it is, longer or not.
Merge(l, prev, entries) ==
    IF \A i \in DOMAIN entries : prev + i \in DOMAIN l /\ l[prev + i].term = entries[i].term
    THEN l
    ELSE SubSeq(l, 1, prev) \o entries

\* Mutant of CommitUpTo: the leader's commit index is taken when it is lower, too.
CommitAsTold(n, m, merged) ==
    LET last == IF m.entries # <<>> THEN m.prevIndex + Len(m.entries) ELSE Len(merged)
    IN  IF m.commit < last THEN m.commit ELSE last

\* The commit index after an accepted message.
CommitUpTo(n, m, merged) ==
    LET last == IF m.entries # <<>> THEN m.prevIndex + Len(m.entries) ELSE Len(merged)
    IN  IF m.commit <= commitIndex[n] THEN commitIndex[n]
        ELSE IF m.commit < last THEN m.commit ELSE last

\* apply_committed.
Apply(n, l, commit) == applied[n] \o SubSeq(l, Len(applied[n]) + 1, commit)

AppendAccepted(n, m) ==
    LET merged == Merge(log[n], m.prevIndex, m.entries)
        commit == CommitUpTo(n, m, merged)
    IN  /\ Follow(n, m)
        /\ Consistent(n, m)
        /\ log' = [log EXCEPT ![n] = merged]
        /\ commitIndex' = [commitIndex EXCEPT ![n] = commit]
        /\ applied' = [applied EXCEPT ![n] = Apply(n, merged, commit)]
        /\ msgs' = msgs \cup {Answer(n, m, m.term, TRUE, Len(merged))}
        /\ UNCHANGED <<leaderVars, counters>>

\* try_advance_commit: the last entry of the current term that a quorum reports.
Committable(n, match) ==
    {i \in commitIndex[n] + 1 .. Len(log[n]) :
        /\ IsQuorum({p \in Nodes : match[p] >= i})
        /\ log[n][i].term = currentTerm[n]}

AppendedOk(n, m) ==
    LET match == [matchIndex[n] EXCEPT ![m.from] = m.match]
        ready == Committable(n, match)
        commit == IF ready = {} THEN commitIndex[n]
                  ELSE CHOOSE i \in ready : \A j \in ready : j <= i
    IN  /\ m.kind = "appended" /\ m.success
        /\ state[n] = "Leader" /\ m.term = currentTerm[n]
        /\ nextIndex' = [nextIndex EXCEPT ![n][m.from] = m.match + 1]
        /\ matchIndex' = [matchIndex EXCEPT ![n] = match]
        /\ commitIndex' = [commitIndex EXCEPT ![n] = commit]
        /\ applied' = [applied EXCEPT ![n] = Apply(n, log[n], commit)]
        /\ UNCHANGED <<electionVars, log, msgs, counters>>

AppendedNo(n, m) ==
    /\ m.kind = "appended" /\ ~m.success
    /\ state[n] = "Leader" /\ m.term = currentTerm[n]
    /\ nextIndex' = [nextIndex EXCEPT ![n][m.from] = IF @ > 1 THEN @ - 1 ELSE 1]
    /\ UNCHANGED <<electionVars, logVars, matchIndex, msgs, counters>>

\* step.
Receive(n, m) ==
    \/ HandleRequestVote(n, m)
    \/ m.kind \in {"vote", "appended"} /\ StepDown(n, m)
    \/ HandleVoteResponse(n, m)
    \/ AppendStale(n, m) \/ AppendRejected(n, m) \/ AppendAccepted(n, m)
    \/ AppendedOk(n, m) \/ AppendedNo(n, m)

Next ==
    \E n \in Nodes :
        \/ Timeout(n) \/ Heartbeat(n) \/ Propose(n)
        \/ \E m \in {x \in msgs : x.to = n} : Receive(n, m)

Spec == Init /\ [][Next]_vars

-----------------------------------------------------------------------------
Index == 0 .. MaxData

Message ==
    [kind : {"request"}, from : Nodes, to : Nodes, term : 1 .. MaxTerm,
     lastIndex : Index, lastTerm : 0 .. MaxTerm]
    \cup [kind : {"vote"}, from : Nodes, to : Nodes, term : 1 .. MaxTerm,
          granted : BOOLEAN]
    \cup [kind : {"append"}, from : Nodes, to : Nodes, term : 1 .. MaxTerm,
          prevIndex : Index, prevTerm : 0 .. MaxTerm, entries : Seq(Entry),
          commit : Index]
    \cup [kind : {"appended"}, from : Nodes, to : Nodes, term : 1 .. MaxTerm,
          success : BOOLEAN, match : Index]

TypeOK ==
    /\ state \in [Nodes -> {"Follower", "Candidate", "Leader"}]
    /\ currentTerm \in [Nodes -> 0 .. MaxTerm]
    /\ votedFor \in [Nodes -> Nodes \cup {None}]
    /\ log \in [Nodes -> Seq(Entry)]
    /\ commitIndex \in [Nodes -> Index]
    /\ votesReceived \in [Nodes -> SUBSET Nodes]
    /\ nextIndex \in [Nodes -> [Nodes -> 1 .. MaxData + 1]]
    /\ matchIndex \in [Nodes -> [Nodes -> Index]]
    /\ applied \in [Nodes -> Seq(Entry)]
    /\ msgs \subseteq Message
    /\ elections \in 0 .. MaxTerm /\ proposals \in 0 .. MaxData /\ beats \in 0 .. MaxBeats

\* "At most one leader per term" (PROBLEM.md:38), over the whole history: every
\* leader has sent AppendEntries of its term.
ElectionSafety ==
    \A a, b \in {m \in msgs : m.kind = "append"} : a.term = b.term => a.from = b.from

\* "If two logs contain an entry with the same index and term, then all preceding
\* entries are identical", and so are the two entries.
LogMatching ==
    \A n, p \in Nodes : \A i \in DOMAIN log[n] \cap DOMAIN log[p] :
        log[n][i].term = log[p][i].term => SubSeq(log[n], 1, i) = SubSeq(log[p], 1, i)

IsPrefixOf(s, l) == Len(s) <= Len(l) /\ SubSeq(l, 1, Len(s)) = s

\* "A leader never overwrites or deletes entries in its log."
LeaderKeepsLog ==
    \A n \in Nodes :
        state[n] = "Leader" /\ state'[n] = "Leader" => IsPrefixOf(log[n], log'[n])

\* Every AppendEntries reaches as far as the commit index it tells of.
CommitsCovered ==
    \A m \in msgs : m.kind = "append" => m.commit <= m.prevIndex + Len(m.entries)

\* "The commit index monotonically increases", and a node has applied exactly the
\* entries up to it, each once, as long as no leader tells of a commit index beyond
\* its log.  One whose committed entries were cut off (see LeaderCompleteness) does:
\* then a commit index can fall, but what was applied still stays.
CommitProgress ==
    [][\A n \in Nodes :
          /\ IsPrefixOf(applied[n], applied'[n])
          /\ Len(applied'[n]) >= commitIndex'[n]
          /\ CommitsCovered => /\ commitIndex'[n] >= commitIndex[n]
                               /\ Len(applied'[n]) = commitIndex'[n]]_vars

\* A node votes once in a term, and terms only grow.
VoteOnce ==
    [][\A n \in Nodes :
          /\ currentTerm'[n] >= currentTerm[n]
          /\ currentTerm'[n] = currentTerm[n] /\ votedFor[n] # None
                => votedFor'[n] = votedFor[n]]_vars

-----------------------------------------------------------------------------
\* "If an entry is committed in a given term, that entry will be present in the
\* logs of all leaders of higher-numbered terms" (PROBLEM.md:41).
LeaderCompleteness ==
    \A n, p \in Nodes :
        (state[p] = "Leader" /\ currentTerm[p] > currentTerm[n])
            => IsPrefixOf(applied[n], log[p])
=============================================================================
