------------------------ MODULE RaftElectionLockFree ------------------------
(***************************************************************************)
(* RaftElection of results/v2/raft_election_best.rs: the term, the vote    *)
(* and the state of a server are one AtomicU64, packed, changed by         *)
(* compare-and-swap; the votes received are a second one, a bitmask, and   *)
(* are written in a step of their own.  The two are never changed together.*)
(*                                                                         *)
(* What a loop computes depends on nothing but the packed word, so the     *)
(* load and the exchange that succeeds are one step, and a round that      *)
(* fails is none.  At least two servers; terms stay below 2^40 and         *)
(* identifiers below 2^22 - 1, where pack loses nothing.                   *)
(***************************************************************************)
EXTENDS RaftElection

\* timeout: the exchange.
BecomeCandidate(c, s) ==
    /\ run[c] = Idle
    /\ term[s] < MaxTerm
    /\ term' = [term EXCEPT ![s] = @ + 1]
    /\ state' = [state EXCEPT ![s] = "Candidate"]
    /\ votedFor' = [votedFor EXCEPT ![s] = s]
    /\ Goes(c, [at |-> "own", cand |-> s, term |-> term[s] + 1, left |-> Servers \ {s}])
    /\ UNCHANGED <<votes, elected, told>>

\* timeout: votes_received is set to the server's own bit, whatever came in since.
VoteForSelf(c) ==
    /\ run[c].at = "own"
    /\ votes' = [votes EXCEPT ![run[c].cand] = {run[c].cand}]
    /\ Goes(c, [run[c] EXCEPT !.at = "won"])
    /\ UNCHANGED <<term, votedFor, state, elected, told>>

\* get_state, before the first request.
WonAlready(c) ==
    /\ run[c].at = "won"
    /\ IF state[run[c].cand] = "Leader" THEN Answer(c, TRUE) ELSE NextServer(c)
    /\ UNCHANGED <<serverVars, elected>>

\* Mutant of Vote: the term alone is in the word, the vote is not compared.
VoteUnseen(s, t, candidate) == t >= term[s]

\* The vote of a server for a candidate of term t.
Vote(s, t, candidate) ==
    \/ t > term[s]
    \/ t = term[s] /\ votedFor[s] \in {NoServer, candidate}

\* handle_vote_request: the exchange, or no change to make.
RequestVote(c, p) ==
    LET r == run[c]
        higher == r.term > term[p]
        granted == Vote(p, r.term, r.cand)
    IN  /\ r.at = "ask" /\ p \in r.left
        /\ term' = [term EXCEPT ![p] = IF higher THEN r.term ELSE @]
        /\ state' = [state EXCEPT ![p] = IF higher THEN "Follower" ELSE @]
        /\ votedFor' = [votedFor EXCEPT ![p] = IF granted THEN r.cand ELSE @]
        /\ Goes(c, [at |-> IF higher /\ state[p] # "Follower" THEN "clear" ELSE "count",
                    cand |-> r.cand, term |-> r.term, left |-> r.left \ {p},
                    voter |-> p, voterTerm |-> term'[p], granted |-> granted])
        /\ UNCHANGED <<votes, elected, told>>

\* handle_vote_request: the votes of a server that stepped down.
ClearVotes(c) ==
    /\ run[c].at = "clear"
    /\ votes' = [votes EXCEPT ![run[c].voter] = {}]
    /\ Goes(c, [run[c] EXCEPT !.at = "count"])
    /\ UNCHANGED <<term, votedFor, state, elected, told>>

\* handle_vote_response, of a higher term: the exchange.
Depose(c) ==
    LET s == run[c].cand
    IN  /\ run[c].at = "count" /\ run[c].voterTerm > term[s]
        /\ term' = [term EXCEPT ![s] = run[c].voterTerm]
        /\ state' = [state EXCEPT ![s] = "Follower"]
        /\ votedFor' = [votedFor EXCEPT ![s] = NoServer]
        /\ Goes(c, [run[c] EXCEPT !.at = "forget"])
        /\ UNCHANGED <<votes, elected, told>>

\* The store after it.
ForgetVotes(c) ==
    /\ run[c].at = "forget"
    /\ votes' = [votes EXCEPT ![run[c].cand] = {}]
    /\ NextServer(c)
    /\ UNCHANGED <<term, votedFor, state, elected>>

\* handle_vote_response, of a server that no longer runs: won, if it leads the term.
NotRunning(c) ==
    LET s == run[c].cand
    IN  /\ run[c].at = "count" /\ run[c].voterTerm <= term[s] /\ ~Counts(c)
        /\ IF state[s] = "Leader" /\ run[c].voterTerm = term[s]
           THEN Answer(c, TRUE)
           ELSE NextServer(c)
        /\ UNCHANGED <<serverVars, elected>>

\* handle_vote_response, of a candidate of the term: the load.
StillRunning(c) ==
    /\ run[c].at = "count" /\ Counts(c)
    /\ IF run[c].granted
       THEN Goes(c, [run[c] EXCEPT !.at = "add"]) /\ UNCHANGED told
       ELSE NextServer(c)
    /\ UNCHANGED <<serverVars, elected>>

\* fetch_or: the bitmask may be the one of another term by now.
AddVote(c) ==
    LET s == run[c].cand
        all == votes[s] \cup {run[c].voter}
    IN  /\ run[c].at = "add"
        /\ votes' = [votes EXCEPT ![s] = all]
        /\ IF IsQuorum(all)
           THEN Goes(c, [run[c] EXCEPT !.at = "promote"]) /\ UNCHANGED told
           ELSE NextServer(c)
        /\ UNCHANGED <<term, votedFor, state, elected>>

\* Mutant of Promote: the word is not loaded again after the vote is added.
PromoteBlindly(c) ==
    LET s == run[c].cand
    IN  /\ run[c].at = "promote"
        /\ state' = [state EXCEPT ![s] = "Leader"]
        /\ elected' = elected \cup {[term |-> term[s], leader |-> s]}
        /\ Goes(c, [run[c] EXCEPT !.at = "check"])
        /\ UNCHANGED <<term, votedFor, votes, told>>

\* The second load, and the exchange to leader of a word that is a candidate's of
\* the term.  Such a word has but one vote: a failed exchange means it is gone.
Promote(c) ==
    LET s == run[c].cand
        runs == state[s] = "Candidate" /\ term[s] = run[c].voterTerm
    IN  /\ run[c].at = "promote"
        /\ state' = [state EXCEPT ![s] = IF runs THEN "Leader" ELSE @]
        /\ elected' = IF runs THEN elected \cup {[term |-> term[s], leader |-> s]}
                      ELSE elected
        /\ Goes(c, [run[c] EXCEPT !.at = "check"])
        /\ UNCHANGED <<term, votedFor, votes, told>>

\* The third load.
CheckLeader(c) ==
    LET s == run[c].cand
    IN  /\ run[c].at = "check"
        /\ IF state[s] = "Leader" /\ term[s] = run[c].voterTerm
           THEN Answer(c, TRUE)
           ELSE NextServer(c)
        /\ UNCHANGED <<serverVars, elected>>

LastLook(c) ==
    /\ run[c].at = "look"
    /\ Answer(c, state[run[c].cand] = "Leader")
    /\ UNCHANGED <<serverVars, elected>>

-----------------------------------------------------------------------------
MakeHeartbeat(c, s) ==
    /\ run[c] = Idle /\ state[s] = "Leader"
    /\ Goes(c, [at |-> "beat", cand |-> s, term |-> term[s], left |-> Servers \ {s}])
    /\ UNCHANGED <<serverVars, elected, told>>

\* handle_heartbeat: the exchange, or a word that is already as it should be.
TakeHeartbeat(c, p) ==
    LET r == run[c]
    IN  /\ r.at = "beat" /\ p \in r.left
        /\ r.term >= term[p]
        /\ term' = [term EXCEPT ![p] = r.term]
        /\ votedFor' = [votedFor EXCEPT ![p] = IF r.term > term[p] THEN NoServer ELSE @]
        /\ state' = [state EXCEPT ![p] = "Follower"]
        /\ Goes(c, [at |-> "wipe", cand |-> r.cand, term |-> r.term, left |-> r.left \ {p},
                    voter |-> p])
        /\ UNCHANGED <<votes, elected, told>>

\* The store after it.
WipeVotes(c) ==
    /\ run[c].at = "wipe"
    /\ votes' = [votes EXCEPT ![run[c].voter] = {}]
    /\ Goes(c, [at |-> "beat", cand |-> run[c].cand, term |-> run[c].term,
                left |-> run[c].left])
    /\ UNCHANGED <<term, votedFor, state, elected, told>>

\* The other servers get no heartbeat, or one of an older term.
NoHeartbeat(c) ==
    /\ run[c].at = "beat"
    /\ Goes(c, Idle)
    /\ UNCHANGED <<serverVars, elected, told>>

NextLockFree ==
    \E c \in Clients :
        \/ \E s \in Servers :
              \/ BecomeCandidate(c, s) \/ RequestVote(c, s)
              \/ MakeHeartbeat(c, s) \/ TakeHeartbeat(c, s)
        \/ VoteForSelf(c) \/ WonAlready(c) \/ ClearVotes(c)
        \/ Depose(c) \/ ForgetVotes(c) \/ NotRunning(c) \/ StillRunning(c)
        \/ AddVote(c) \/ Promote(c) \/ CheckLeader(c) \/ LastLook(c)
        \/ WipeVotes(c) \/ NoHeartbeat(c)
=============================================================================
