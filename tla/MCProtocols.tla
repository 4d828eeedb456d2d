---------------------------- MODULE MCProtocols -----------------------------
(* Small instances, for TLC, of three protocols: the SSI state machine, free *)
(* or following one of its oracles, the election of a leader and two-phase   *)
(* commit, the last two in the version of their task's seed and in an        *)
(* evolved one.  A behaviour is one program.  Nothing in them orders         *)
(* transactions, keys, servers or threads.                                   *)
EXTENDS SsiMachine, TwoPhaseCommitState, FiniteSets, TLC

CONSTANTS
    Programs,       \* the programs to check
    Servers, NoServer,
    Candidates,     \* bound: the servers that run for election in the evolved version
    MaxTerm         \* bound: the terms of the elections

ASSUME ServersAssumption == IsFiniteSet(Servers) /\ NoServer \notin Servers

VARIABLES
    program,
    oracle, done,   \* a pre-built oracle of SsiMachine and how far it is followed
    eTerm, eVotedFor, eState, eVotes, eRun, elected, told,   \* RaftElection
    tRun                                                     \* TwoPhaseCommit

electionVars == <<eTerm, eVotedFor, eState, eVotes, eRun, elected, told>>
commitVars == <<nextTxn, tm, rm, prepared, tRun>>

Election == INSTANCE RaftElectionLockFree WITH
    term <- eTerm, votedFor <- eVotedFor, state <- eState, votes <- eVotes, run <- eRun

Transaction == INSTANCE TwoPhaseCommitLockFree WITH run <- tRun

TwoRMs == <<"r1", "r2">>

\* The .cfg gives Servers the values of Txns, and Clients those of Keys: the
\* programs share nothing, and one group of permutations does for all.
Symmetry == Permutations(Txns) \cup Permutations(Keys)

ElectionSymmetry ==
    Permutations(Candidates) \cup Permutations(Servers \ Candidates) \cup Permutations(Clients)

Oracles ==
    UNION {AllOracles(q[1], q[2], q[3], q[4]) : q \in
              {q \in Txns \X Txns \X Keys \X Keys : q[1] # q[2] /\ q[3] # q[4]}}

MCInit ==
    /\ program \in Programs
    /\ IF program = "ssi oracle" THEN oracle \in Oracles ELSE oracle = <<>>
    /\ done = 0
    /\ Init /\ Election!Init /\ Transaction!Init

Follow ==
    /\ program = "ssi oracle" /\ done < Len(oracle.actions)
    /\ Apply(oracle.actions[done + 1])
    /\ done' = done + 1

MCNext ==
    /\ UNCHANGED <<program, oracle>>
    /\ \/ /\ Follow
          /\ UNCHANGED <<electionVars, commitVars>>
       \/ /\ program = "ssi machine"
          /\ Next
          /\ UNCHANGED <<done, electionVars, commitVars>>
       \/ /\ \/ program = "election" /\ Election!Next
             \/ /\ program = "election v2" /\ Election!NextLockFree
                /\ \A c \in Clients : eRun'[c].at = "own" => eRun'[c].cand \in Candidates
          /\ UNCHANGED <<done, vars, commitVars>>
       \/ /\ \/ program = "commit" /\ Transaction!Next
             \/ program = "commit v1" /\ Transaction!NextLF /\ nextTxn' <= MaxTxns
          /\ UNCHANGED <<done, vars, electionVars>>

MCSpec == MCInit /\ [][MCNext]_<<program, oracle, done, vars, electionVars, commitVars>>

\* A client that has called run_commit or run_abort keeps running.
FairSpec == MCSpec /\ \A c \in Clients : WF_commitVars(Transaction!RunStep(c))

-----------------------------------------------------------------------------
\* At most one server leads in a term ("election safety").  The seed keeps it with
\* any number of servers, the evolved version with three but not with four.
OneLeaderPerTerm == Election!OneLeaderPerTerm

\* At most one server leads in a term, and run_election answers "won" only for a
\* server that was elected (the evolved version with three servers).
ElectionsSound == OneLeaderPerTerm /\ Election!AnswersTrue

\* What run_commit and run_abort answer is what became of the transaction; in the
\* evolved version only what run_commit answers.  And the pre-built oracles end as
\* they say.
AnswersTrue ==
    /\ program = "ssi oracle" => OracleTrue(oracle, done)
    /\ program = "commit" => Transaction!AnswersTrue
    /\ program = "commit v1" => Transaction!CommitAnswersTrue

\* "Abort progress", PROBLEM.md:22 of the task: when a participant aborts before
\* preparing and a client is driving the transaction, the coordinator aborts
\* eventually.
AbortProgress == Transaction!AbortProgress

\* Atomicity and ImplementsAtomicCommit are those of TwoPhaseCommitState, for both
\* versions.
=============================================================================
