---------------------------- MODULE RaftElection ----------------------------
(***************************************************************************)
(* RaftElection of tools/vf-evolve/tasks/raft_election/initial.rs: the     *)
(* servers of a cluster in one process, each behind a Mutex of its own.    *)
(* run_election calls the servers' handlers one after the other, so the    *)
(* elections and heartbeats of other threads run between any two of them.  *)
(* Release build: with debug assertions timeout panics on a leader.        *)
(***************************************************************************)
EXTENDS Integers, FiniteSets

CONSTANTS
    Servers,
    NoServer,  \* Option::None, of voted_for
    Clients,   \* the threads
    MaxTerm    \* bound: elections are started up to this term

VARIABLES
    term, votedFor, state, votes,
    run,       \* what each thread is in the middle of
    elected,   \* history: every server that became leader, with the term
    told       \* history: the elections run_election said were won

serverVars == <<term, votedFor, state, votes>>

Idle == [at |-> "idle"]

Init ==
    /\ term = [s \in Servers |-> 0]
    /\ votedFor = [s \in Servers |-> NoServer]
    /\ state = [s \in Servers |-> "Follower"]
    /\ votes = [s \in Servers |-> {}]
    /\ run = [c \in Clients |-> Idle]
    /\ elected = {} /\ told = {}

\* quorum_size.
IsQuorum(S) == Cardinality(S) >= Cardinality(Servers) \div 2 + 1

Goes(c, r) == run' = [run EXCEPT ![c] = r]

\* run_election returns.
Answer(c, won) ==
    /\ Goes(c, Idle)
    /\ told' = IF won THEN told \cup {[term |-> run[c].term, leader |-> run[c].cand]}
               ELSE told

-----------------------------------------------------------------------------
\* run_election's first call, timeout.
Timeout(c, s) ==
    /\ run[c] = Idle
    /\ term[s] < MaxTerm
    /\ term' = [term EXCEPT ![s] = @ + 1]
    /\ state' = [state EXCEPT ![s] = "Candidate"]
    /\ votedFor' = [votedFor EXCEPT ![s] = s]
    /\ votes' = [votes EXCEPT ![s] = {s}]
    /\ Goes(c, [at |-> "ask", cand |-> s, term |-> term[s] + 1, left |-> Servers \ {s}])
    /\ UNCHANGED <<elected, told>>

\* Mutant of MayVote: the earlier vote of the term is not looked at.
MayVoteAgain(s, t, candidate) == t >= term[s]

\* The vote of a server for a candidate of term t.
MayVote(s, t, candidate) ==
    \/ t > term[s]
    \/ t = term[s] /\ votedFor[s] \in {NoServer, candidate}

\* handle_vote_request.
Ask(c, p) ==
    LET r == run[c]
        higher == r.term > term[p]
        granted == MayVote(p, r.term, r.cand)
    IN  /\ r.at = "ask" /\ p \in r.left
        /\ term' = [term EXCEPT ![p] = IF higher THEN r.term ELSE @]
        /\ state' = [state EXCEPT ![p] = IF higher THEN "Follower" ELSE @]
        /\ votes' = [votes EXCEPT ![p] = IF higher THEN {} ELSE @]
        /\ votedFor' = [votedFor EXCEPT ![p] = IF granted THEN r.cand ELSE @]
        /\ Goes(c, [at |-> "count", cand |-> r.cand, term |-> r.term, left |-> r.left \ {p},
                    voter |-> p, voterTerm |-> term'[p], granted |-> granted])
        /\ UNCHANGED <<elected, told>>

\* The next server of run_election's loop, or its last look at the state.
NextServer(c) ==
    /\ Goes(c, [at |-> IF run[c].left = {} THEN "look" ELSE "ask",
                cand |-> run[c].cand, term |-> run[c].term, left |-> run[c].left])
    /\ UNCHANGED told

\* handle_vote_response, of a higher term.
StepDown(c) ==
    LET s == run[c].cand
    IN  /\ run[c].at = "count" /\ run[c].voterTerm > term[s]
        /\ term' = [term EXCEPT ![s] = run[c].voterTerm]
        /\ state' = [state EXCEPT ![s] = "Follower"]
        /\ votedFor' = [votedFor EXCEPT ![s] = NoServer]
        /\ votes' = [votes EXCEPT ![s] = {}]
        /\ NextServer(c)
        /\ UNCHANGED elected

Counts(c) ==
    state[run[c].cand] = "Candidate" /\ run[c].voterTerm = term[run[c].cand]

\* handle_vote_response, to a server that no longer runs in that term.
Ignore(c) ==
    /\ run[c].at = "count" /\ run[c].voterTerm <= term[run[c].cand] /\ ~Counts(c)
    /\ NextServer(c)
    /\ UNCHANGED <<serverVars, elected>>

\* handle_vote_response, of a candidate of the term.
Count(c) ==
    LET s == run[c].cand
        all == votes[s] \cup (IF run[c].granted THEN {run[c].voter} ELSE {})
    IN  /\ run[c].at = "count" /\ Counts(c)
        /\ votes' = [votes EXCEPT ![s] = all]
        /\ IF IsQuorum(all)
           THEN /\ state' = [state EXCEPT ![s] = "Leader"]
                /\ elected' = elected \cup {[term |-> term[s], leader |-> s]}
                /\ Answer(c, TRUE)
           ELSE NextServer(c) /\ UNCHANGED <<state, elected>>
        /\ UNCHANGED <<term, votedFor>>

\* get_state, at the end of run_election.
Look(c) ==
    /\ run[c].at = "look"
    /\ Answer(c, state[run[c].cand] = "Leader")
    /\ UNCHANGED <<serverVars, elected>>

-----------------------------------------------------------------------------
\* create_heartbeat, by a thread that brings it to the other servers.
CreateHeartbeat(c, s) ==
    /\ run[c] = Idle /\ state[s] = "Leader"
    /\ Goes(c, [at |-> "beat", cand |-> s, term |-> term[s], left |-> Servers \ {s}])
    /\ UNCHANGED <<serverVars, elected, told>>

\* handle_heartbeat: current_term is overwritten before it is compared, so the
\* vote of an older term stays.
HandleHeartbeat(c, p) ==
    LET r == run[c]
    IN  /\ r.at = "beat" /\ p \in r.left
        /\ r.term >= term[p]
        /\ term' = [term EXCEPT ![p] = r.term]
        /\ state' = [state EXCEPT ![p] = "Follower"]
        /\ votes' = [votes EXCEPT ![p] = {}]
        /\ Goes(c, [r EXCEPT !.left = @ \ {p}])
        /\ UNCHANGED <<votedFor, elected, told>>

\* The other servers get no heartbeat, or one of an older term, which does nothing.
DropHeartbeat(c) ==
    /\ run[c].at = "beat"
    /\ Goes(c, Idle)
    /\ UNCHANGED <<serverVars, elected, told>>

Next ==
    \E c \in Clients :
        \/ \E s \in Servers :
              Timeout(c, s) \/ Ask(c, s) \/ CreateHeartbeat(c, s) \/ HandleHeartbeat(c, s)
        \/ StepDown(c) \/ Ignore(c) \/ Count(c) \/ Look(c) \/ DropHeartbeat(c)

-----------------------------------------------------------------------------
\* "At most one leader per term" (PROBLEM.md), over the whole history.
OneLeaderPerTerm == \A a, b \in elected : a.term = b.term => a = b

\* run_election says it has won only if the candidate was elected in that
\* election or a later one.
AnswersTrue ==
    \A t \in told : \E e \in elected : e.leader = t.leader /\ e.term >= t.term
=============================================================================
