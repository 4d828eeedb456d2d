--------------------------- MODULE ProtocolProofs ---------------------------
(***************************************************************************)
(* Theorems of the programs of MCProtocols.                                *)
(*                                                                         *)
(* The elections: RaftElection, the seed, for any servers, threads and     *)
(* terms, and RaftElectionLockFree, the evolved version, for up to three   *)
(* servers: one server leads in a term, and run_election answers truly.    *)
(* The argument does not depend on how a handler is written: Effect says   *)
(* what a step may do to votes, leaders and answers, each step of either   *)
(* version has such an effect, and the effect keeps the invariant.         *)
(*                                                                         *)
(* The oracles of SsiMachine, for any transactions and keys: each can be   *)
(* applied to its end and ends as it says.  OracleInv says what is known   *)
(* of the machine at each of their actions.                                *)
(*                                                                         *)
(* Two-phase commit, by the theorems of TwoPhaseCommitProofs.              *)
(***************************************************************************)
EXTENDS MCProtocols, FiniteSetTheorems, TLAPS

USE ServersAssumption

-----------------------------------------------------------------------------
(* The elections.                                                             *)

AskAts == {"ask", "look", "beat", "own", "won"}
BallotAts == {"count", "clear", "forget", "add", "promote", "check"}

\* What a thread may be in the middle of: a call, the answer of a voter, a
\* heartbeat that has yet to wipe the votes of its receiver.
Asks == [at : AskAts, cand : Servers, term : Nat, left : SUBSET Servers]
Ballots == [at : BallotAts, cand : Servers, term : Nat, left : SUBSET Servers,
            voter : Servers, voterTerm : Nat, granted : BOOLEAN]
Wipes == [at : {"wipe"}, cand : Servers, term : Nat, left : SUBSET Servers, voter : Servers]
Runs == {Election!Idle} \cup Asks \cup Ballots \cup Wipes

ElectionTypeOK ==
    /\ eTerm \in [Servers -> Nat]
    /\ eVotedFor \in [Servers -> Servers \cup {NoServer}]
    /\ eState \in [Servers -> {"Follower", "Candidate", "Leader"}]
    /\ eVotes \in [Servers -> SUBSET Servers]
    /\ eRun \in [Clients -> Runs]
    /\ elected \subseteq [term : Nat, leader : Servers]
    /\ told \subseteq [term : Nat, leader : Servers]

\* A candidate asks the others, is in the term of its election or a later one, and
\* a vote that is being added was granted.
RunOK(c) ==
    eRun[c].at # "idle" =>
        /\ eRun[c].cand \notin eRun[c].left
        /\ eRun[c].at \notin {"beat", "wipe"} => eTerm[eRun[c].cand] >= eRun[c].term
        /\ eRun[c].at \in BallotAts => eRun[c].voter # eRun[c].cand
        /\ eRun[c].at \in {"add", "promote"} => eRun[c].granted

\* The server v has no vote of term t left for another than x.
Bound(v, x, t) == eTerm[v] > t \/ (eTerm[v] = t /\ eVotedFor[v] = x)

\* A thread holds the vote of v for x in term t.
Ballot(c, v, x, t) ==
    /\ eRun[c].at \in BallotAts
    /\ eRun[c].granted /\ eRun[c].voter = v /\ eRun[c].cand = x /\ eRun[c].voterTerm = t

\* v has voted for x in term t, as far as any state shows it: a thread holds the
\* vote, x runs or leads and is v itself, or the seed's x has counted the vote.
\* The evolved version's bitmask shows nothing.
Voted(v, x, t) ==
    \/ \E c \in Clients : Ballot(c, v, x, t)
    \/ v = x /\ eTerm[x] = t /\ eState[x] \in {"Candidate", "Leader"}
    \/ program = "election" /\ eTerm[x] = t /\ v \in eVotes[x]

\* A vote binds its voter for the term.
VotesBind ==
    \A v, x \in Servers, t \in Nat : Voted(v, x, t) => Bound(v, x, t)

OneVote ==
    \A v, x, y \in Servers, t \in Nat : Voted(v, x, t) /\ Voted(v, y, t) => x = y

\* A quorum of servers is bound to x in term t, and none of them shows another vote.
Backed(x, t) ==
    \E Q \in SUBSET Servers :
        /\ Election!IsQuorum(Q)
        /\ \A v \in Q : /\ Bound(v, x, t)
                        /\ \A y \in Servers : Voted(v, y, t) => y = x

LeadersBacked == \A e \in elected : Backed(e.leader, e.term)

LeadersElected ==
    \A s \in Servers : eState[s] = "Leader" => [term |-> eTerm[s], leader |-> s] \in elected

\* Of the programs, the invariant concerns the elections.
ElectionInv ==
    /\ program \in Programs
    /\ ElectionTypeOK
    /\ \A c \in Clients : RunOK(c)
    /\ VotesBind
    /\ OneVote
    /\ LeadersBacked
    /\ LeadersElected
    /\ ElectionsSound

-----------------------------------------------------------------------------
\* A quorum has voted for s in its present term.
Wins(s) ==
    \E Q \in SUBSET Servers :
        Election!IsQuorum(Q) /\ \A v \in Q : Voted(v, s, eTerm[s])

\* An answer "won" names a server that was elected in the term or a later one.
Answered ==
    \/ told' = told
    \/ \E e \in elected', t \in Nat :
          e.term >= t /\ told' = told \cup {[term |-> t, leader |-> e.leader]}

\* What a step of thread c may do: a new vote is a first one, a new leader has the
\* votes of a quorum, and the answer is true.
Effect(c) ==
    /\ ElectionTypeOK'
    /\ RunOK(c)'
    /\ \A d \in Clients \ {c} : eRun'[d] = eRun[d]
    /\ \A v \in Servers : eTerm'[v] >= eTerm[v]
    /\ \A v, x \in Servers, t \in Nat : Bound(v, x, t) => Bound(v, x, t)'
    /\ \A v, x \in Servers, t \in Nat :
          Voted(v, x, t)' => \/ Voted(v, x, t)
                             \/ /\ eTerm'[v] = t /\ eVotedFor'[v] = x
                                /\ \A y \in Servers \ {x} : ~Bound(v, y, t)
    /\ \/ elected' = elected
       \/ \E s \in Servers :
             elected' = elected \cup {[term |-> eTerm[s], leader |-> s]} /\ Wins(s)
    /\ LeadersElected'
    /\ Answered

-----------------------------------------------------------------------------
\* The instance counts as this module does.
LEMMA SameCount == \A S : Election!Cardinality(S) = Cardinality(S)
BY DEF Election!Cardinality, Cardinality

\* Two quorums of the servers have a server in common (quorum_size).
LEMMA QuorumsMeet ==
    ASSUME NEW P \in SUBSET Servers, NEW Q \in SUBSET Servers,
           Election!IsQuorum(P), Election!IsQuorum(Q)
    PROVE  P \cap Q # {}
<1> SUFFICES ASSUME P \cap Q = {} PROVE FALSE
  OBVIOUS
<1>1. IsFiniteSet(P) /\ IsFiniteSet(Q) /\ IsFiniteSet(P \cup Q)
  BY FS_Subset, FS_Union
<1>2. Cardinality(P \cup Q) = Cardinality(P) + Cardinality(Q) - Cardinality(P \cap Q)
  BY <1>1, FS_Union
<1>3. Cardinality(P \cap Q) = 0
  BY FS_EmptySet
<1>4. Cardinality(P \cup Q) <= Cardinality(Servers)
  BY FS_Subset
<1>5. /\ Cardinality(P) \in Nat /\ Cardinality(Q) \in Nat
      /\ Cardinality(Servers) \in Nat /\ Cardinality(P \cup Q) \in Nat
  BY <1>1, FS_CardinalityType
<1>6. /\ Cardinality(P) >= Cardinality(Servers) \div 2 + 1
      /\ Cardinality(Q) >= Cardinality(Servers) \div 2 + 1
  BY SameCount DEF Election!IsQuorum
<1>7. QED
  BY <1>2, <1>3, <1>4, <1>5, <1>6, Z3

\* What a step with such an effect leaves: the leaders elected before are still the
\* only ones of their terms.
LEMMA EffectKeeps ==
    ASSUME ElectionInv, NEW c \in Clients, Effect(c), UNCHANGED program
    PROVE  ElectionInv'
<1>1. program' \in Programs /\ ElectionTypeOK /\ ElectionTypeOK' /\ LeadersElected'
  BY DEF ElectionInv, Effect
<1>2. ASSUME NEW d \in Clients PROVE RunOK(d)'
  <2>1. CASE d = c
    BY <2>1 DEF Effect
  <2>2. CASE d # c
    <3>1. eRun'[d] = eRun[d] /\ RunOK(d)
      BY <2>2 DEF Effect, ElectionInv
    <3>2. eRun[d].at # "idle" => eRun[d].cand \in Servers /\ eRun[d].term \in Nat
      BY <1>1 DEF ElectionTypeOK, Runs, Asks, Ballots, Wipes, Election!Idle
    <3>3. ASSUME NEW v \in Servers PROVE eTerm'[v] \in Nat /\ eTerm[v] \in Nat /\ eTerm'[v] >= eTerm[v]
      BY <1>1 DEF ElectionTypeOK, Effect
    <3>4. QED
      BY <3>1, <3>2, <3>3 DEF RunOK
  <2>3. QED
    BY <2>1, <2>2
<1>3. VotesBind'
  BY DEF VotesBind, ElectionInv, Effect, Bound
<1>4. OneVote'
  <2> SUFFICES ASSUME NEW v \in Servers, NEW x \in Servers, NEW y \in Servers, NEW t \in Nat,
                      Voted(v, x, t)', Voted(v, y, t)', x # y
               PROVE  FALSE
    BY DEF OneVote
  <2>1. Voted(v, x, t) \/ (eTerm'[v] = t /\ eVotedFor'[v] = x /\ ~Bound(v, y, t))
    BY DEF Effect
  <2>2. Voted(v, y, t) \/ (eTerm'[v] = t /\ eVotedFor'[v] = y /\ ~Bound(v, x, t))
    BY DEF Effect
  <2>3. Voted(v, x, t) => Bound(v, x, t)
    BY DEF ElectionInv, VotesBind
  <2>4. Voted(v, y, t) => Bound(v, y, t)
    BY DEF ElectionInv, VotesBind
  <2>5. ~(Voted(v, x, t) /\ Voted(v, y, t))
    BY DEF ElectionInv, OneVote
  <2>6. QED
    BY <2>1, <2>2, <2>3, <2>4, <2>5
<1>5. ASSUME NEW x \in Servers, NEW t \in Nat, Backed(x, t) PROVE Backed(x, t)'
  <2>1. PICK Q \in SUBSET Servers :
             /\ Election!IsQuorum(Q)
             /\ \A v \in Q : /\ Bound(v, x, t)
                             /\ \A y \in Servers : Voted(v, y, t) => y = x
    BY <1>5 DEF Backed
  <2>2. ASSUME NEW v \in Q, NEW y \in Servers, Voted(v, y, t)' PROVE y = x
    BY <2>1, <2>2 DEF Effect
  <2>3. \A v \in Q : Bound(v, x, t)'
    BY <2>1 DEF Effect
  <2>4. Election!IsQuorum(Q)'
    BY <2>1 DEF Election!IsQuorum
  <2>5. QED
    BY <2>2, <2>3, <2>4 DEF Backed
<1>6. ASSUME NEW s \in Servers, Wins(s)
      PROVE  /\ Backed(s, eTerm[s])
             /\ \A e \in elected : e.term = eTerm[s] => e.leader = s
  <2>1. PICK Q \in SUBSET Servers :
             Election!IsQuorum(Q) /\ \A v \in Q : Voted(v, s, eTerm[s])
    BY <1>6 DEF Wins
  <2>2. eTerm[s] \in Nat
    BY <1>1 DEF ElectionTypeOK
  <2>3. Backed(s, eTerm[s])
    <3>1. \A v \in Q : /\ Bound(v, s, eTerm[s])
                       /\ \A y \in Servers : Voted(v, y, eTerm[s]) => y = s
      BY <2>1, <2>2 DEF ElectionInv, VotesBind, OneVote
    <3>2. QED
      BY <2>1, <3>1 DEF Backed
  <2>4. ASSUME NEW e \in elected, e.term = eTerm[s] PROVE e.leader = s
    <3>1. Backed(e.leader, e.term)
      BY DEF ElectionInv, LeadersBacked
    <3>2. PICK P \in SUBSET Servers :
               /\ Election!IsQuorum(P)
               /\ \A v \in P : \A y \in Servers : Voted(v, y, e.term) => y = e.leader
      BY <3>1 DEF Backed
    <3>3. PICK v \in P : v \in Q
      BY <2>1, <3>2, QuorumsMeet
    <3>4. QED
      BY <2>1, <2>4, <3>2, <3>3
  <2>5. QED
    BY <2>3, <2>4
<1>7. elected \subseteq elected'
  BY DEF Effect
<1>8. LeadersBacked'
  <2> SUFFICES ASSUME NEW e \in elected' PROVE Backed(e.leader, e.term)'
    BY DEF LeadersBacked
  <2>1. e.leader \in Servers /\ e.term \in Nat
    BY <1>1 DEF ElectionTypeOK
  <2>2. CASE e \in elected
    BY <1>5, <2>1, <2>2 DEF ElectionInv, LeadersBacked
  <2>3. ASSUME NEW s \in Servers, e = [term |-> eTerm[s], leader |-> s], Wins(s)
        PROVE  Backed(e.leader, e.term)'
    BY <1>5, <1>6, <2>1, <2>3
  <2>4. QED
    BY <2>2, <2>3 DEF Effect
<1>9. Election!OneLeaderPerTerm'
  <2> SUFFICES ASSUME NEW a \in elected', NEW b \in elected', a.term = b.term PROVE a = b
    BY DEF Election!OneLeaderPerTerm
  <2>1. /\ a = [term |-> a.term, leader |-> a.leader]
        /\ b = [term |-> b.term, leader |-> b.leader]
    BY <1>1 DEF ElectionTypeOK
  <2>2. ASSUME a.leader # b.leader PROVE FALSE
    <3>1. CASE a \in elected /\ b \in elected
      BY <2>2, <3>1 DEF ElectionInv, ElectionsSound, OneLeaderPerTerm, Election!OneLeaderPerTerm
    <3>2. ~(a \in elected /\ b \in elected) =>
              \E s \in Servers :
                 /\ elected' = elected \cup {[term |-> eTerm[s], leader |-> s]}
                 /\ Wins(s)
      BY DEF Effect
    <3>3. ASSUME NEW s \in Servers, Wins(s),
                 elected' = elected \cup {[term |-> eTerm[s], leader |-> s]}
          PROVE  FALSE
      <4>1. a = [term |-> eTerm[s], leader |-> s] => a.term = eTerm[s] /\ a.leader = s
        OBVIOUS
      <4>2. b = [term |-> eTerm[s], leader |-> s] => b.term = eTerm[s] /\ b.leader = s
        OBVIOUS
      <4>3. CASE a \in elected /\ b \in elected
        BY <3>1, <4>3
      <4>4. CASE a \notin elected /\ b \in elected
        BY <1>6, <2>2, <3>3, <4>1, <4>4
      <4>5. CASE a \in elected /\ b \notin elected
        BY <1>6, <2>2, <3>3, <4>2, <4>5
      <4>6. CASE a \notin elected /\ b \notin elected
        BY <2>2, <3>3, <4>1, <4>2, <4>6
      <4>7. QED
        BY <4>3, <4>4, <4>5, <4>6
    <3>4. QED
      BY <3>1, <3>2, <3>3
  <2>3. QED
    BY <2>1, <2>2
<1>10. Election!AnswersTrue'
  <2>1. \A x \in told : \E e \in elected' : e.leader = x.leader /\ e.term >= x.term
    BY <1>7 DEF ElectionInv, ElectionsSound, Election!AnswersTrue
  <2>2. ASSUME NEW e \in elected', NEW t \in Nat, e.term >= t,
               told' = told \cup {[term |-> t, leader |-> e.leader]}
        PROVE  \A x \in told' : \E f \in elected' : f.leader = x.leader /\ f.term >= x.term
    BY <2>1, <2>2
  <2>3. told' = told => \A x \in told' : \E f \in elected' : f.leader = x.leader /\ f.term >= x.term
    BY <2>1
  <2>4. \A x \in told' : \E f \in elected' : f.leader = x.leader /\ f.term >= x.term
    BY <2>2, <2>3 DEF Effect, Answered
  <2>5. QED
    BY <2>4 DEF Election!AnswersTrue
<1>11. QED
  BY <1>1, <1>2, <1>3, <1>4, <1>8, <1>9, <1>10
     DEF ElectionInv, ElectionsSound, OneLeaderPerTerm
-----------------------------------------------------------------------------
\* What a thread's record holds, by where the thread is.
LEMMA RunKinds ==
    ASSUME ElectionTypeOK, NEW c \in Clients
    PROVE  /\ eRun[c].at \in BallotAts => eRun[c] \in Ballots
           /\ eRun[c].at \in AskAts => eRun[c] \in Asks
           /\ eRun[c].at = "wipe" => eRun[c] \in Wipes
           /\ eRun[c].at # "idle" => /\ eRun[c].cand \in Servers /\ eRun[c].term \in Nat
                                    /\ eRun[c].left \subseteq Servers
<1>1. eRun[c] \in Runs
  BY DEF ElectionTypeOK
<1>2. CASE eRun[c] = Election!Idle
  BY <1>2 DEF Election!Idle, AskAts, BallotAts
<1>3. CASE eRun[c] \in Asks
  BY <1>3 DEF Asks, AskAts, BallotAts
<1>4. CASE eRun[c] \in Ballots
  BY <1>4 DEF Ballots, AskAts, BallotAts
<1>5. CASE eRun[c] \in Wipes
  BY <1>5 DEF Wipes, AskAts, BallotAts
<1>6. QED
  BY <1>1, <1>2, <1>3, <1>4, <1>5 DEF Runs

\* The step of one thread leaves the others where they are.
LEMMA Moves ==
    ASSUME ElectionTypeOK, NEW c \in Clients, NEW r \in Runs, eRun' = [eRun EXCEPT ![c] = r]
    PROVE  /\ eRun' \in [Clients -> Runs] /\ eRun'[c] = r
           /\ \A d \in Clients \ {c} : eRun'[d] = eRun[d]
BY DEF ElectionTypeOK

\* A step that changes no server but for the votes counted, to which the seed adds
\* only votes that were given: the thread carries a vote on, or drops it.
LEMMA QuietEffect ==
    ASSUME ElectionInv, NEW c \in Clients, NEW r \in Runs, eRun' = [eRun EXCEPT ![c] = r],
           UNCHANGED <<program, eTerm, eVotedFor, eState, elected>>,
           program = "election" =>
               \A x \in Servers : \A v \in eVotes'[x] : Voted(v, x, eTerm[x]),
           eVotes' \in [Servers -> SUBSET Servers],
           told' \subseteq [term : Nat, leader : Servers],
           RunOK(c)',
           \A v, x, t : Ballot(c, v, x, t)' => Ballot(c, v, x, t),
           Answered
    PROVE  Effect(c)
<1>1. ElectionTypeOK /\ LeadersElected
  BY DEF ElectionInv
<1>2. /\ eRun' \in [Clients -> Runs] /\ eRun'[c] = r
      /\ \A d \in Clients \ {c} : eRun'[d] = eRun[d]
  BY <1>1, Moves
<1>3. ElectionTypeOK'
  BY <1>1, <1>2 DEF ElectionTypeOK
<1>4. LeadersElected'
  BY <1>1 DEF LeadersElected
<1>5. \A v, x \in Servers, t \in Nat : Bound(v, x, t) => Bound(v, x, t)'
  BY DEF Bound
<1>6. ASSUME NEW v \in Servers, NEW x \in Servers, NEW t \in Nat, Voted(v, x, t)'
      PROVE  Voted(v, x, t)
  <2>1. ASSUME NEW d \in Clients, Ballot(d, v, x, t)' PROVE Voted(v, x, t)
    <3>1. Ballot(d, v, x, t)
      BY <1>2, <2>1 DEF Ballot
    <3>2. QED
      BY <3>1 DEF Voted
  <2>2. ASSUME program = "election", eTerm[x] = t, v \in eVotes'[x] PROVE Voted(v, x, t)
    BY <2>2
  <2>3. QED
    BY <1>6, <2>1, <2>2 DEF Voted
<1>7. \A v \in Servers : eTerm'[v] >= eTerm[v]
  BY <1>1 DEF ElectionTypeOK
<1>8. QED
  BY <1>2, <1>3, <1>4, <1>5, <1>6, <1>7 DEF Effect

\* A step that changes the word of one server p, to a follower's of term n or within
\* its term: p may give the one vote of its term.
LEMMA ServerEffect ==
    ASSUME ElectionInv, NEW c \in Clients, NEW p \in Servers,
           NEW n \in Nat, NEW w \in Servers \cup {NoServer},
           NEW st \in {"Follower", "Candidate", "Leader"},
           NEW r \in Runs, eRun' = [eRun EXCEPT ![c] = r],
           eTerm' = [eTerm EXCEPT ![p] = n], eVotedFor' = [eVotedFor EXCEPT ![p] = w],
           eState' = [eState EXCEPT ![p] = st],
           program = "election" =>
               /\ \A x \in Servers \ {p} : eVotes'[x] = eVotes[x]
               /\ eVotes'[p] = {} \/ (eVotes'[p] = eVotes[p] /\ n = eTerm[p]),
           eVotes' \in [Servers -> SUBSET Servers],
           UNCHANGED <<program, elected, told>>,
           n >= eTerm[p],
           n = eTerm[p] => w = eVotedFor[p] \/ eVotedFor[p] = NoServer,
           st = "Follower" \/ (n = eTerm[p] /\ st = eState[p]),
           RunOK(c)',
           \A v, x, t : Ballot(c, v, x, t)' =>
               \/ Ballot(c, v, x, t)
               \/ /\ v = p /\ x = w /\ t = n
                  /\ n > eTerm[p] \/ eVotedFor[p] \in {NoServer, w}
    PROVE  Effect(c)
<1>1. ElectionTypeOK /\ LeadersElected /\ ElectionTypeOK'
  BY Moves DEF ElectionInv, ElectionTypeOK
<1>2. /\ eRun' \in [Clients -> Runs] /\ eRun'[c] = r
      /\ \A d \in Clients \ {c} : eRun'[d] = eRun[d]
  BY <1>1, Moves
<1>3. \A v \in Servers :
         /\ eTerm'[v] >= eTerm[v]
         /\ v # p => /\ eTerm'[v] = eTerm[v] /\ eVotedFor'[v] = eVotedFor[v]
                     /\ eState'[v] = eState[v]
                     /\ program = "election" => eVotes'[v] = eVotes[v]
  BY <1>1 DEF ElectionTypeOK
<1>4. /\ eTerm'[p] = n /\ eVotedFor'[p] = w /\ eState'[p] = st
      /\ eTerm[p] \in Nat
  BY <1>1 DEF ElectionTypeOK
<1>5. LeadersElected'
  BY <1>1, <1>3, <1>4 DEF LeadersElected
<1>6. ASSUME NEW v \in Servers, NEW x \in Servers, NEW t \in Nat, Bound(v, x, t)
      PROVE  Bound(v, x, t)'
  <2>1. eTerm[v] \in Nat
    BY <1>1 DEF ElectionTypeOK
  <2>2. QED
    BY <1>3, <1>4, <1>6, <2>1 DEF Bound
<1>7. ASSUME NEW v \in Servers, NEW x \in Servers, NEW t \in Nat, Voted(v, x, t)'
      PROVE  \/ Voted(v, x, t)
             \/ /\ eTerm'[v] = t /\ eVotedFor'[v] = x
                /\ \A y \in Servers \ {x} : ~Bound(v, y, t)
  <2>1. ASSUME NEW d \in Clients, Ballot(d, v, x, t)', d # c PROVE Voted(v, x, t)
    <3>1. Ballot(d, v, x, t)
      BY <1>2, <2>1 DEF Ballot
    <3>2. QED
      BY <3>1 DEF Voted
  <2>2. ASSUME Ballot(c, v, x, t), Ballot(c, v, x, t)' PROVE Voted(v, x, t)
    BY <2>2 DEF Voted
  <2>3. ASSUME v = p, x = w, t = n, n > eTerm[p] \/ eVotedFor[p] \in {NoServer, w}
        PROVE  /\ eTerm'[v] = t /\ eVotedFor'[v] = x
               /\ \A y \in Servers \ {x} : ~Bound(v, y, t)
    BY <1>4, <2>3 DEF Bound
  <2>4. ASSUME v = x, eTerm'[x] = t, eState'[x] \in {"Candidate", "Leader"} PROVE Voted(v, x, t)
    BY <1>3, <1>4, <2>4 DEF Voted
  <2>5. ASSUME program = "election", eTerm'[x] = t, v \in eVotes'[x] PROVE Voted(v, x, t)
    BY <1>3, <1>4, <2>5 DEF Voted
  <2>6. QED
    BY <1>7, <2>1, <2>2, <2>3, <2>4, <2>5 DEF Voted
<1>8. QED
  BY <1>1, <1>2, <1>3, <1>5, <1>6, <1>7 DEF Effect, Answered

\* A server runs for election in a term of its own making.
LEMMA CandidateEffect ==
    ASSUME ElectionInv, NEW c \in Clients, NEW s \in Servers,
           NEW r \in Asks, eRun' = [eRun EXCEPT ![c] = r],
           eTerm' = [eTerm EXCEPT ![s] = @ + 1], eVotedFor' = [eVotedFor EXCEPT ![s] = s],
           eState' = [eState EXCEPT ![s] = "Candidate"],
           program = "election" => eVotes' = [eVotes EXCEPT ![s] = {s}],
           eVotes' \in [Servers -> SUBSET Servers],
           UNCHANGED <<program, elected, told>>,
           RunOK(c)'
    PROVE  Effect(c)
<1>1. ElectionTypeOK /\ LeadersElected /\ r \in Runs
  BY DEF ElectionInv, Runs
<1>2. /\ eRun' \in [Clients -> Runs] /\ eRun'[c] = r
      /\ \A d \in Clients \ {c} : eRun'[d] = eRun[d]
  BY <1>1, Moves
<1>3. eTerm[s] \in Nat /\ ElectionTypeOK'
  BY <1>1, <1>2 DEF ElectionTypeOK
<1>4. \A v \in Servers :
         /\ eTerm'[v] >= eTerm[v]
         /\ v # s => /\ eTerm'[v] = eTerm[v] /\ eVotedFor'[v] = eVotedFor[v]
                     /\ eState'[v] = eState[v]
                     /\ program = "election" => eVotes'[v] = eVotes[v]
  BY <1>1 DEF ElectionTypeOK
<1>5. /\ eTerm'[s] = eTerm[s] + 1 /\ eVotedFor'[s] = s /\ eState'[s] = "Candidate"
      /\ program = "election" => eVotes'[s] = {s}
  BY <1>1 DEF ElectionTypeOK
<1>6. LeadersElected'
  BY <1>1, <1>4, <1>5 DEF LeadersElected
<1>7. ASSUME NEW v \in Servers, NEW x \in Servers, NEW t \in Nat, Bound(v, x, t)
      PROVE  Bound(v, x, t)'
  <2>1. eTerm[v] \in Nat
    BY <1>1 DEF ElectionTypeOK
  <2>2. QED
    BY <1>3, <1>4, <1>5, <1>7, <2>1 DEF Bound
<1>8. ASSUME NEW v \in Servers, NEW x \in Servers, NEW t \in Nat, Voted(v, x, t)'
      PROVE  \/ Voted(v, x, t)
             \/ /\ eTerm'[v] = t /\ eVotedFor'[v] = x
                /\ \A y \in Servers \ {x} : ~Bound(v, y, t)
  <2>1. ASSUME NEW d \in Clients, Ballot(d, v, x, t)' PROVE Voted(v, x, t)
    <3>1. d # c
      BY <1>2, <2>1 DEF Ballot, Asks, AskAts, BallotAts
    <3>2. Ballot(d, v, x, t)
      BY <1>2, <2>1, <3>1 DEF Ballot
    <3>3. QED
      BY <3>2 DEF Voted
  <2>2. CASE x # s
    BY <1>4, <1>8, <2>1, <2>2 DEF Voted
  <2>3. ASSUME x = s, v = s, eTerm'[s] = t
        PROVE  /\ eTerm'[v] = t /\ eVotedFor'[v] = x
               /\ \A y \in Servers \ {x} : ~Bound(v, y, t)
    BY <1>3, <1>5, <2>3 DEF Bound
  <2>4. QED
    BY <1>5, <1>8, <2>1, <2>2, <2>3 DEF Voted
<1>9. QED
  BY <1>2, <1>3, <1>4, <1>6, <1>7, <1>8 DEF Effect, Answered

\* A candidate with the votes of a quorum becomes leader; the seed keeps the votes.
LEMMA LeaderEffect ==
    ASSUME ElectionInv, NEW c \in Clients, NEW s \in Servers,
           NEW r \in Runs, eRun' = [eRun EXCEPT ![c] = r],
           eState[s] = "Candidate", Wins(s),
           eState' = [eState EXCEPT ![s] = "Leader"],
           elected' = elected \cup {[term |-> eTerm[s], leader |-> s]},
           UNCHANGED <<program, eTerm, eVotedFor>>,
           eVotes' \in [Servers -> SUBSET Servers],
           program = "election" =>
               \A x \in Servers : \A v \in eVotes'[x] : Voted(v, x, eTerm[x]),
           told' \subseteq [term : Nat, leader : Servers],
           RunOK(c)',
           \A v, x, t : Ballot(c, v, x, t)' => Ballot(c, v, x, t),
           Answered
    PROVE  Effect(c)
<1>1. ElectionTypeOK /\ LeadersElected
  BY DEF ElectionInv
<1>2. /\ eRun' \in [Clients -> Runs] /\ eRun'[c] = r
      /\ \A d \in Clients \ {c} : eRun'[d] = eRun[d]
  BY <1>1, Moves
<1>3. ElectionTypeOK'
  BY <1>1, <1>2 DEF ElectionTypeOK
<1>4. \A x \in Servers :
         eTerm[x] \in Nat /\ eState'[x] = IF x = s THEN "Leader" ELSE eState[x]
  BY <1>1 DEF ElectionTypeOK
<1>5. LeadersElected'
  BY <1>1, <1>4 DEF LeadersElected
<1>6. \A v, x \in Servers, t \in Nat : Bound(v, x, t) => Bound(v, x, t)'
  BY DEF Bound
<1>7. ASSUME NEW v \in Servers, NEW x \in Servers, NEW t \in Nat, Voted(v, x, t)'
      PROVE  Voted(v, x, t)
  <2>1. ASSUME NEW d \in Clients, Ballot(d, v, x, t)' PROVE Voted(v, x, t)
    <3>1. Ballot(d, v, x, t)
      BY <1>2, <2>1 DEF Ballot
    <3>2. QED
      BY <3>1 DEF Voted
  <2>2. ASSUME v = x, eTerm[x] = t, eState'[x] \in {"Candidate", "Leader"} PROVE Voted(v, x, t)
    BY <1>4, <2>2 DEF Voted
  <2>3. ASSUME program = "election", eTerm[x] = t, v \in eVotes'[x] PROVE Voted(v, x, t)
    BY <2>3
  <2>4. QED
    BY <1>7, <2>1, <2>2, <2>3 DEF Voted
<1>8. QED
  BY <1>2, <1>3, <1>4, <1>5, <1>6, <1>7 DEF Effect

-----------------------------------------------------------------------------
\* The thread goes on asking, or to a heartbeat.
LEMMA AsksGo ==
    ASSUME NEW c \in Clients, NEW r \in Asks, eRun'[c] = r, r.cand \notin r.left,
           r.at # "beat" => eTerm'[r.cand] >= r.term
    PROVE  RunOK(c)' /\ \A v, x, t : ~Ballot(c, v, x, t)'
<1>1. r.at \in AskAts
  BY DEF Asks
<1>2. QED
  BY <1>1 DEF RunOK, Ballot, AskAts, BallotAts

\* The thread is done, or has a receiver's votes to wipe.
LEMMA RestGoes ==
    ASSUME NEW c \in Clients, NEW r, eRun'[c] = r,
           r = Election!Idle \/ (r \in Wipes /\ r.cand \notin r.left)
    PROVE  RunOK(c)' /\ \A v, x, t : ~Ballot(c, v, x, t)'
<1>1. r.at \in {"idle", "wipe"} /\ (r.at = "wipe" => r.cand \notin r.left)
  BY DEF Wipes, Election!Idle
<1>2. QED
  BY <1>1 DEF RunOK, Ballot, BallotAts

\* The thread goes on with the answer of a voter.
LEMMA BallotGoes ==
    ASSUME NEW c \in Clients, NEW r \in Ballots, eRun'[c] = r, r.cand \notin r.left,
           eTerm'[r.cand] >= r.term, r.voter # r.cand,
           r.at \in {"add", "promote"} => r.granted
    PROVE  /\ RunOK(c)'
           /\ \A v, x, t : Ballot(c, v, x, t)' =>
                 r.granted /\ r.voter = v /\ r.cand = x /\ r.voterTerm = t
<1>1. r.at \in BallotAts
  BY DEF Ballots
<1>2. QED
  BY <1>1 DEF RunOK, Ballot, BallotAts

\* NextServer, of a thread that asks for votes.
LEMMA NextServerGoes ==
    ASSUME ElectionInv, NEW c \in Clients, eRun[c].at \in BallotAts \cup {"won"},
           Election!NextServer(c), eTerm' \in [Servers -> Nat],
           \A v \in Servers : eTerm'[v] >= eTerm[v]
    PROVE  \E r \in Runs : /\ eRun' = [eRun EXCEPT ![c] = r]
                           /\ RunOK(c)' /\ \A v, x, t : ~Ballot(c, v, x, t)'
<1> DEFINE r == [at |-> IF eRun[c].left = {} THEN "look" ELSE "ask", cand |-> eRun[c].cand,
                 term |-> eRun[c].term, left |-> eRun[c].left]
<1>1. ElectionTypeOK /\ RunOK(c)
  BY DEF ElectionInv
<1>2. eRun[c].at # "idle" /\ eRun[c].at \notin {"beat", "wipe"}
  BY DEF BallotAts
<1>3. r \in Asks /\ r.cand \notin r.left
  BY <1>1, <1>2, RunKinds DEF Asks, AskAts, RunOK
<1>4. eRun' = [eRun EXCEPT ![c] = r]
  BY DEF Election!NextServer, Election!Goes
<1>5. eTerm'[r.cand] >= r.term
  <2>1. r.cand = eRun[c].cand /\ r.term = eRun[c].term
    OBVIOUS
  <2>2. eRun[c].cand \in Servers /\ eRun[c].term \in Nat /\ eTerm[eRun[c].cand] >= eRun[c].term
    BY <1>1, <1>2, RunKinds DEF RunOK
  <2>3. QED
    BY <1>1, <2>1, <2>2 DEF ElectionTypeOK
<1> HIDE DEF r
<1>6. r \in Runs
  BY <1>3 DEF Runs
<1>7. eRun'[c] = r
  BY <1>1, <1>4, <1>6, Moves
<1>8. QED
  BY <1>3, <1>4, <1>5, <1>6, <1>7, AsksGo

\* Answer, which says "won" only of a leader.
LEMMA AnswerGoes ==
    ASSUME ElectionInv, NEW c \in Clients, eRun[c].at \in BallotAts \cup {"won", "look"},
           NEW won \in BOOLEAN, Election!Answer(c, won),
           elected' \subseteq [term : Nat, leader : Servers],
           won => [term |-> eTerm[eRun[c].cand], leader |-> eRun[c].cand] \in elected'
    PROVE  /\ Election!Idle \in Runs /\ eRun' = [eRun EXCEPT ![c] = Election!Idle]
           /\ RunOK(c)' /\ \A v, x, t : ~Ballot(c, v, x, t)'
           /\ told' \subseteq [term : Nat, leader : Servers]
           /\ Answered
<1> DEFINE s == eRun[c].cand
           e == [term |-> eTerm[s], leader |-> s]
<1>1. ElectionTypeOK /\ RunOK(c)
  BY DEF ElectionInv
<1>2. eRun[c].at # "idle" /\ eRun[c].at \notin {"beat", "wipe"}
  BY DEF BallotAts
<1>3. s \in Servers /\ eRun[c].term \in Nat /\ eTerm[s] >= eRun[c].term
  BY <1>1, <1>2, RunKinds DEF RunOK
<1>4. Election!Idle \in Runs /\ eRun' = [eRun EXCEPT ![c] = Election!Idle]
  BY DEF Runs, Election!Answer, Election!Goes
<1>5. eRun'[c] = Election!Idle
  BY <1>1, <1>4, Moves
<1>6. told' = told \/ (won /\ told' = told \cup {[term |-> eRun[c].term, leader |-> s]})
  BY DEF Election!Answer
<1>7. told' \subseteq [term : Nat, leader : Servers]
  BY <1>1, <1>3, <1>6 DEF ElectionTypeOK
<1>8. e.term = eTerm[s] /\ e.leader = s
  OBVIOUS
<1> HIDE DEF e
<1>9. won => e \in elected'
  BY DEF e
<1>10. Answered
  BY <1>3, <1>6, <1>8, <1>9 DEF Answered
<1>11. RunOK(c)' /\ \A v, x, t : ~Ballot(c, v, x, t)'
  BY <1>5, RestGoes
<1>12. QED
  BY <1>4, <1>7, <1>10, <1>11

-----------------------------------------------------------------------------
\* The steps of the seed, each with the code's one handler.
LEMMA TimeoutEffect ==
    ASSUME ElectionInv, NEW c \in Clients, NEW s \in Servers, UNCHANGED program,
           Election!Timeout(c, s)
    PROVE  Effect(c)
<1> DEFINE r == [at |-> "ask", cand |-> s, term |-> eTerm[s] + 1, left |-> Servers \ {s}]
<1>1. ElectionTypeOK
  BY DEF ElectionInv
<1>2. r \in Asks /\ eTerm'[s] = eTerm[s] + 1 /\ eTerm[s] \in Nat
  BY <1>1 DEF ElectionTypeOK, Asks, AskAts, Election!Timeout
<1>3. eRun' = [eRun EXCEPT ![c] = r]
  BY DEF Election!Timeout, Election!Goes
<1>4. r.cand \notin r.left /\ eTerm'[r.cand] >= r.term
  BY <1>2
<1> HIDE DEF r
<1>5. eRun'[c] = r
  BY <1>1, <1>2, <1>3, Moves DEF Runs
<1>6. RunOK(c)'
  BY <1>2, <1>4, <1>5, AsksGo
<1>7. eVotes' \in [Servers -> SUBSET Servers]
  BY <1>1 DEF ElectionTypeOK, Election!Timeout
<1>8. QED
  BY <1>2, <1>3, <1>6, <1>7, CandidateEffect DEF Election!Timeout

\* A server answers a request: handle_vote_request.
GivesVote(c, p, at, higher, granted) ==
    /\ eRun[c].at = "ask" /\ p \in eRun[c].left
    /\ higher <=> eRun[c].term > eTerm[p]
    /\ granted <=> Election!MayVote(p, eRun[c].term, eRun[c].cand)
    /\ eTerm' = [eTerm EXCEPT ![p] = IF higher THEN eRun[c].term ELSE @]
    /\ eState' = [eState EXCEPT ![p] = IF higher THEN "Follower" ELSE @]
    /\ eVotedFor' = [eVotedFor EXCEPT ![p] = IF granted THEN eRun[c].cand ELSE @]
    /\ program = "election" => eVotes' = [eVotes EXCEPT ![p] = IF higher THEN {} ELSE @]
    /\ eVotes' \in [Servers -> SUBSET Servers]
    /\ eRun' = [eRun EXCEPT ![c] =
                   [at |-> at, cand |-> eRun[c].cand, term |-> eRun[c].term,
                    left |-> eRun[c].left \ {p}, voter |-> p, voterTerm |-> eTerm'[p],
                    granted |-> granted]]
    /\ UNCHANGED <<elected, told>>

\* A step that gives or refuses a vote (handle_vote_request): a voter that gives it
\* was bound to no other candidate of the term.
LEMMA VoteEffect ==
    ASSUME ElectionInv, NEW c \in Clients, NEW p \in Servers, UNCHANGED program,
           NEW at \in {"count", "clear"}, NEW higher \in BOOLEAN, NEW granted \in BOOLEAN,
           GivesVote(c, p, at, higher, granted)
    PROVE  Effect(c)
<1> DEFINE old == eRun[c]
           n == IF higher THEN old.term ELSE eTerm[p]
           w == IF granted THEN old.cand ELSE eVotedFor[p]
           st == IF higher THEN "Follower" ELSE eState[p]
           r == [at |-> at, cand |-> old.cand, term |-> old.term, left |-> old.left \ {p},
                 voter |-> p, voterTerm |-> n, granted |-> granted]
<1>1. ElectionTypeOK /\ RunOK(c)
  BY DEF ElectionInv
<1>2. /\ old.at = "ask" /\ p \in old.left
      /\ higher <=> old.term > eTerm[p]
      /\ granted <=> Election!MayVote(p, old.term, old.cand)
  BY DEF GivesVote
<1>3. /\ old.cand \in Servers /\ old.term \in Nat /\ old.left \subseteq Servers
      /\ old.cand \notin old.left /\ eTerm[old.cand] >= old.term
      /\ eTerm[p] \in Nat /\ eTerm[old.cand] \in Nat
  BY <1>1, <1>2, RunKinds DEF RunOK, ElectionTypeOK
<1>4. /\ n \in Nat /\ n >= eTerm[p] /\ w \in Servers \cup {NoServer}
      /\ st \in {"Follower", "Candidate", "Leader"}
      /\ granted \in BOOLEAN
  BY <1>1, <1>2, <1>3 DEF ElectionTypeOK, Election!MayVote
<1>5. n = eTerm[p] => w = eVotedFor[p] \/ eVotedFor[p] = NoServer
  BY <1>2, <1>3 DEF Election!MayVote
<1>6. /\ eTerm' = [eTerm EXCEPT ![p] = n] /\ eVotedFor' = [eVotedFor EXCEPT ![p] = w]
      /\ eState' = [eState EXCEPT ![p] = st]
      /\ eVotes' \in [Servers -> SUBSET Servers]
      /\ UNCHANGED <<elected, told>>
  BY DEF GivesVote
<1>7. eTerm'[p] = n /\ \A x \in Servers : eTerm'[x] >= eTerm[x]
  BY <1>1, <1>4, <1>6 DEF ElectionTypeOK
<1>8. eRun' = [eRun EXCEPT ![c] = r]
  BY <1>7 DEF GivesVote
<1>9. granted => w = old.cand /\ n = old.term /\ (n > eTerm[p] \/ eVotedFor[p] \in {NoServer, w})
  BY <1>2, <1>3 DEF Election!MayVote
<1>10. /\ st = "Follower" \/ (n = eTerm[p] /\ st = eState[p])
       /\ program = "election" =>
              /\ \A x \in Servers \ {p} : eVotes'[x] = eVotes[x]
              /\ eVotes'[p] = {} \/ (eVotes'[p] = eVotes[p] /\ n = eTerm[p])
  BY <1>1, <1>2 DEF GivesVote, ElectionTypeOK
<1>11. r \in Ballots
  BY <1>3, <1>4 DEF Ballots, BallotAts
<1>12. /\ r.at \in {"count", "clear"} /\ r.cand = old.cand /\ r.term = old.term /\ r.left = old.left \ {p}
       /\ r.voter = p /\ r.voterTerm = n /\ r.granted = granted
  OBVIOUS
<1> HIDE DEF r, n, w, st
<1>13. r.cand \notin r.left /\ eTerm'[r.cand] >= r.term /\ r.voter # r.cand
  <2>1. eTerm'[old.cand] >= old.term
    <3>1. eTerm'[old.cand] \in Nat
      BY <1>1, <1>3, <1>4, <1>6 DEF ElectionTypeOK
    <3>2. QED
      BY <1>3, <1>7, <3>1
  <2>2. QED
    BY <1>2, <1>3, <1>12, <2>1
<1>14. r \in Runs /\ eRun'[c] = r
  BY <1>1, <1>8, <1>11, Moves DEF Runs
<1>15. /\ RunOK(c)'
       /\ \A v, x, t : Ballot(c, v, x, t)' =>
             r.granted /\ r.voter = v /\ r.cand = x /\ r.voterTerm = t
  BY <1>11, <1>12, <1>13, <1>14, BallotGoes
<1>16. \A v, x, t : Ballot(c, v, x, t)' =>
          /\ v = p /\ x = w /\ t = n
          /\ n > eTerm[p] \/ eVotedFor[p] \in {NoServer, w}
  BY <1>9, <1>12, <1>15
<1>17. QED
  BY <1>4, <1>5, <1>6, <1>8, <1>10, <1>14, <1>15, <1>16, ServerEffect

\* The seed's vote request: asks the next server, which votes at most once in a term.
LEMMA AskEffect ==
    ASSUME ElectionInv, NEW c \in Clients, NEW p \in Servers, UNCHANGED program,
           Election!Ask(c, p)
    PROVE  Effect(c)
<1> DEFINE higher == eRun[c].term > eTerm[p]
           granted == Election!MayVote(p, eRun[c].term, eRun[c].cand)
<1>1. eVotes' \in [Servers -> SUBSET Servers]
  BY DEF ElectionInv, ElectionTypeOK, Election!Ask
<1>2. GivesVote(c, p, "count", higher, granted)
  BY <1>1 DEF Election!Ask, Election!Goes, GivesVote
<1>3. higher \in BOOLEAN /\ granted \in BOOLEAN
  BY DEF Election!MayVote
<1> HIDE DEF higher, granted
<1>4. QED
  BY <1>2, <1>3, VoteEffect

\* What handle_vote_response starts from: the answer of a voter of the candidate.
LEMMA CountFacts ==
    ASSUME ElectionInv, NEW c \in Clients, eRun[c].at \in BallotAts
    PROVE  /\ ElectionTypeOK /\ RunOK(c) /\ eRun[c] \in Ballots
           /\ eRun[c].cand \in Servers /\ eRun[c].voter \in Servers
           /\ eRun[c].voter # eRun[c].cand /\ eRun[c].cand \notin eRun[c].left
           /\ eRun[c].term \in Nat /\ eRun[c].voterTerm \in Nat /\ eRun[c].granted \in BOOLEAN
           /\ eTerm[eRun[c].cand] >= eRun[c].term /\ eTerm[eRun[c].cand] \in Nat
<1>1. ElectionTypeOK /\ RunOK(c) /\ eRun[c] \in Ballots
  BY RunKinds DEF ElectionInv
<1>2. /\ eRun[c].cand \in Servers /\ eRun[c].voter \in Servers /\ eRun[c].term \in Nat
      /\ eRun[c].voterTerm \in Nat /\ eRun[c].granted \in BOOLEAN
  BY <1>1 DEF Ballots
<1>3. eRun[c].at \notin {"idle", "beat", "wipe"}
  BY DEF BallotAts
<1>4. QED
  BY <1>1, <1>2, <1>3 DEF RunOK, ElectionTypeOK

\* A refusal from a later term deposes the candidate and drops its votes.
LEMMA StepDownEffect ==
    ASSUME ElectionInv, NEW c \in Clients, UNCHANGED program, Election!StepDown(c)
    PROVE  Effect(c)
<1> DEFINE s == eRun[c].cand
           n == eRun[c].voterTerm
<1>1. eRun[c].at \in BallotAts /\ n > eTerm[s]
  BY DEF Election!StepDown, BallotAts
<1>2. ElectionTypeOK /\ s \in Servers /\ n \in Nat /\ eTerm[s] \in Nat
  BY <1>1, CountFacts
<1>3. /\ eTerm' = [eTerm EXCEPT ![s] = n] /\ eVotedFor' = [eVotedFor EXCEPT ![s] = NoServer]
      /\ eState' = [eState EXCEPT ![s] = "Follower"] /\ eVotes' = [eVotes EXCEPT ![s] = {}]
      /\ Election!NextServer(c) /\ UNCHANGED <<elected, told>>
  BY DEF Election!StepDown, Election!NextServer
<1> HIDE DEF s, n
<1>4. /\ eTerm' \in [Servers -> Nat] /\ \A v \in Servers : eTerm'[v] >= eTerm[v]
      /\ eVotes' \in [Servers -> SUBSET Servers]
  BY <1>1, <1>2, <1>3 DEF ElectionTypeOK
<1>5. PICK r \in Runs : /\ eRun' = [eRun EXCEPT ![c] = r]
                       /\ RunOK(c)' /\ \A v, x, t : ~Ballot(c, v, x, t)'
  BY <1>1, <1>3, <1>4, NextServerGoes
<1>6. n >= eTerm[s] /\ n # eTerm[s]
  BY <1>1, <1>2
<1>7. QED
  BY <1>2, <1>3, <1>4, <1>5, <1>6, ServerEffect

\* An answer that changes nothing but the thread.
LEMMA OnEffect ==
    ASSUME ElectionInv, NEW c \in Clients, UNCHANGED program,
           eRun[c].at \in BallotAts \cup {"won"}, Election!NextServer(c),
           UNCHANGED <<eTerm, eVotedFor, eState, elected>>,
           program = "election" => UNCHANGED eVotes,
           eVotes' \in [Servers -> SUBSET Servers]
    PROVE  Effect(c)
<1>1. ElectionTypeOK /\ UNCHANGED told
  BY DEF ElectionInv, Election!NextServer
<1>2. eTerm' \in [Servers -> Nat] /\ \A v \in Servers : eTerm'[v] >= eTerm[v]
  BY <1>1 DEF ElectionTypeOK
<1>3. PICK r \in Runs : /\ eRun' = [eRun EXCEPT ![c] = r]
                       /\ RunOK(c)' /\ \A v, x, t : ~Ballot(c, v, x, t)'
  BY <1>2, NextServerGoes
<1>4. told' \subseteq [term : Nat, leader : Servers] /\ Answered
  BY <1>1 DEF ElectionTypeOK, Answered
<1>5. program = "election" =>
          \A x \in Servers : \A v \in eVotes'[x] : Voted(v, x, eTerm[x])
  BY DEF Voted
<1>6. QED
  BY <1>3, <1>4, <1>5, QuietEffect

\* run_election returns, and no server has changed.
LEMMA ReturnEffect ==
    ASSUME ElectionInv, NEW c \in Clients, UNCHANGED program,
           eRun[c].at \in BallotAts \cup {"won", "look"},
           NEW won \in BOOLEAN, Election!Answer(c, won),
           won => eState[eRun[c].cand] = "Leader",
           UNCHANGED <<eTerm, eVotedFor, eState, eVotes, elected>>
    PROVE  Effect(c)
<1>1. ElectionTypeOK /\ LeadersElected
  BY DEF ElectionInv
<1>2. eRun[c].cand \in Servers
  BY <1>1, RunKinds DEF BallotAts
<1>3. won => [term |-> eTerm[eRun[c].cand], leader |-> eRun[c].cand] \in elected'
  BY <1>1, <1>2 DEF LeadersElected
<1>4. elected' \subseteq [term : Nat, leader : Servers] /\ eVotes' \in [Servers -> SUBSET Servers]
  BY <1>1 DEF ElectionTypeOK
<1>5. /\ Election!Idle \in Runs /\ eRun' = [eRun EXCEPT ![c] = Election!Idle]
      /\ RunOK(c)' /\ \A v, x, t : ~Ballot(c, v, x, t)'
      /\ told' \subseteq [term : Nat, leader : Servers]
      /\ Answered
  BY <1>3, <1>4, AnswerGoes
<1>6. \A x \in Servers : \A v \in eVotes'[x] : program = "election" => Voted(v, x, eTerm[x])
  BY DEF Voted
<1>7. QED
  BY <1>4, <1>5, <1>6, QuietEffect

\* The seed counts a vote and leads with a quorum, whose votes it has all been given.
LEMMA CountEffect ==
    ASSUME ElectionInv, NEW c \in Clients, program = "election", UNCHANGED program,
           Election!Count(c)
    PROVE  Effect(c)
<1> DEFINE s == eRun[c].cand
           all == eVotes[s] \cup (IF eRun[c].granted THEN {eRun[c].voter} ELSE {})
           e == [term |-> eTerm[s], leader |-> s]
<1>1. /\ eRun[c].at \in BallotAts /\ eState[s] = "Candidate" /\ eRun[c].voterTerm = eTerm[s]
      /\ eVotes' = [eVotes EXCEPT ![s] = all]
      /\ UNCHANGED <<eTerm, eVotedFor>>
  BY DEF Election!Count, Election!Counts, BallotAts
<1>2. ElectionTypeOK /\ s \in Servers /\ eRun[c].voter \in Servers /\ eTerm[s] \in Nat
  BY <1>1, CountFacts
<1>3. all \in SUBSET Servers
  BY <1>2 DEF ElectionTypeOK
<1>4. ASSUME NEW v \in all PROVE Voted(v, s, eTerm[s])
  <2>1. CASE v \in eVotes[s]
    BY <2>1 DEF Voted
  <2>2. CASE v = eRun[c].voter /\ eRun[c].granted
    BY <1>1, <2>2 DEF Voted, Ballot
  <2>3. QED
    BY <1>4, <2>1, <2>2
<1>5. /\ eVotes' \in [Servers -> SUBSET Servers]
      /\ \A x \in Servers : eVotes'[x] = IF x = s THEN all ELSE eVotes[x]
  <2> HIDE DEF all, s
  <2>1. QED
    BY <1>1, <1>2, <1>3 DEF ElectionTypeOK
<1>6. ASSUME NEW x \in Servers, NEW v \in eVotes'[x] PROVE Voted(v, x, eTerm[x])
  <2>1. CASE x = s
    BY <1>4, <1>5, <1>6, <2>1
  <2>2. CASE x # s
    BY <1>5, <1>6, <2>2 DEF Voted
  <2>3. QED
    BY <2>1, <2>2
<1>7. CASE Election!IsQuorum(all)
  <2>1. /\ eState' = [eState EXCEPT ![s] = "Leader"] /\ elected' = elected \cup {e}
        /\ Election!Answer(c, TRUE)
    BY <1>7 DEF Election!Count
  <2>2. e \in [term : Nat, leader : Servers]
    BY <1>2
  <2>3. elected' \subseteq [term : Nat, leader : Servers] /\ e \in elected'
    BY <1>2, <2>1, <2>2 DEF ElectionTypeOK
  <2>4. /\ Election!Idle \in Runs /\ eRun' = [eRun EXCEPT ![c] = Election!Idle]
        /\ RunOK(c)' /\ \A v, x, t : ~Ballot(c, v, x, t)'
        /\ told' \subseteq [term : Nat, leader : Servers]
        /\ Answered
    BY <1>1, <2>1, <2>3, AnswerGoes
  <2>5. Wins(s)
    BY <1>3, <1>4, <1>7 DEF Wins
  <2> HIDE DEF all, s
  <2>6. QED
    BY <1>1, <1>2, <1>5, <1>6, <2>1, <2>4, <2>5, LeaderEffect
<1>8. CASE ~Election!IsQuorum(all)
  <2>1. Election!NextServer(c) /\ UNCHANGED <<eState, elected, told>>
    BY <1>8 DEF Election!Count, Election!NextServer
  <2>2. eTerm' \in [Servers -> Nat] /\ \A v \in Servers : eTerm'[v] >= eTerm[v]
    BY <1>1, <1>2 DEF ElectionTypeOK
  <2>3. PICK r \in Runs : /\ eRun' = [eRun EXCEPT ![c] = r]
                         /\ RunOK(c)' /\ \A v, x, t : ~Ballot(c, v, x, t)'
    BY <1>1, <2>1, <2>2, NextServerGoes
  <2>4. told' \subseteq [term : Nat, leader : Servers] /\ Answered
    BY <1>2, <2>1 DEF ElectionTypeOK, Answered
  <2> HIDE DEF all, s
  <2>5. QED
    BY <1>1, <1>5, <1>6, <2>1, <2>3, <2>4, QuietEffect
<1>9. QED
  BY <1>7, <1>8

\* A leader makes its heartbeat (create_heartbeat), which changes no server.
LEMMA HeartbeatEffect ==
    ASSUME ElectionInv, NEW c \in Clients, NEW s \in Servers, UNCHANGED program,
           Election!CreateHeartbeat(c, s) \/ Election!MakeHeartbeat(c, s)
    PROVE  Effect(c)
<1> DEFINE r == [at |-> "beat", cand |-> s, term |-> eTerm[s], left |-> Servers \ {s}]
<1>1. ElectionTypeOK
  BY DEF ElectionInv
<1>2. r \in Asks /\ r.cand \notin r.left /\ r.at = "beat"
  BY <1>1 DEF ElectionTypeOK, Asks, AskAts
<1>3. /\ eRun' = [eRun EXCEPT ![c] = r]
      /\ UNCHANGED <<eTerm, eVotedFor, eState, eVotes, elected, told>>
  BY DEF Election!CreateHeartbeat, Election!MakeHeartbeat, Election!Goes, Election!serverVars
<1> HIDE DEF r
<1>4. r \in Runs /\ eRun'[c] = r
  BY <1>1, <1>2, <1>3, Moves DEF Runs
<1>5. RunOK(c)' /\ \A v, x, t : ~Ballot(c, v, x, t)'
  BY <1>2, <1>4, AsksGo
<1>6. \A x \in Servers : \A v \in eVotes'[x] : program = "election" => Voted(v, x, eTerm[x])
  BY <1>3 DEF Voted
<1>7. /\ told' \subseteq [term : Nat, leader : Servers]
      /\ eVotes' \in [Servers -> SUBSET Servers] /\ Answered
  BY <1>1, <1>3 DEF ElectionTypeOK, Answered
<1>8. QED
  BY <1>3, <1>4, <1>5, <1>6, <1>7, QuietEffect

\* A thread brings its heartbeat no further.
LEMMA EndHeartbeatEffect ==
    ASSUME ElectionInv, NEW c \in Clients, UNCHANGED program,
           Election!DropHeartbeat(c) \/ Election!NoHeartbeat(c)
    PROVE  Effect(c)
<1>1. ElectionTypeOK /\ Election!Idle \in Runs
  BY DEF ElectionInv, Runs
<1>2. /\ eRun' = [eRun EXCEPT ![c] = Election!Idle]
      /\ UNCHANGED <<eTerm, eVotedFor, eState, eVotes, elected, told>>
  BY DEF Election!DropHeartbeat, Election!NoHeartbeat, Election!Goes, Election!serverVars
<1>3. eRun'[c] = Election!Idle
  BY <1>1, <1>2, Moves
<1>4. RunOK(c)' /\ \A v, x, t : ~Ballot(c, v, x, t)'
  BY <1>3, RestGoes
<1>5. \A x \in Servers : \A v \in eVotes'[x] : program = "election" => Voted(v, x, eTerm[x])
  BY <1>2 DEF Voted
<1>6. /\ told' \subseteq [term : Nat, leader : Servers]
      /\ eVotes' \in [Servers -> SUBSET Servers] /\ Answered
  BY <1>1, <1>2 DEF ElectionTypeOK, Answered
<1>7. QED
  BY <1>1, <1>2, <1>4, <1>5, <1>6, QuietEffect

\* The seed's heartbeat takes the receiver to its term without clearing voted_for: no
\* bound of a present term is lost, and a follower shows no vote of its own.
LEMMA HandleHeartbeatEffect ==
    ASSUME ElectionInv, NEW c \in Clients, NEW p \in Servers, UNCHANGED program,
           Election!HandleHeartbeat(c, p)
    PROVE  Effect(c)
<1> DEFINE old == eRun[c]
           r == [old EXCEPT !.left = @ \ {p}]
<1>1. ElectionTypeOK /\ RunOK(c) /\ old.at = "beat" /\ old.term >= eTerm[p]
  BY DEF ElectionInv, Election!HandleHeartbeat
<1>2. old \in Asks /\ old.cand \notin old.left /\ old.term \in Nat
  BY <1>1, RunKinds DEF AskAts, RunOK
<1>3. r = [at |-> "beat", cand |-> old.cand, term |-> old.term, left |-> old.left \ {p}]
  BY <1>1, <1>2 DEF Asks
<1>4. r \in Asks /\ r.cand \notin r.left /\ r.at = "beat"
  BY <1>2, <1>3 DEF Asks, AskAts
<1>5. /\ eRun' = [eRun EXCEPT ![c] = r]
      /\ eTerm' = [eTerm EXCEPT ![p] = old.term] /\ eState' = [eState EXCEPT ![p] = "Follower"]
      /\ eVotes' = [eVotes EXCEPT ![p] = {}] /\ UNCHANGED <<eVotedFor, elected, told>>
  BY DEF Election!HandleHeartbeat, Election!Goes
<1> HIDE DEF r
<1>6. r \in Runs /\ eRun'[c] = r
  BY <1>1, <1>4, <1>5, Moves DEF Runs
<1>7. RunOK(c)' /\ \A v, x, t : ~Ballot(c, v, x, t)'
  BY <1>4, <1>6, AsksGo
<1>8. /\ eVotes' \in [Servers -> SUBSET Servers]
      /\ eVotedFor[p] \in Servers \cup {NoServer}
      /\ eVotedFor' = [eVotedFor EXCEPT ![p] = eVotedFor[p]]
  BY <1>1, <1>5 DEF ElectionTypeOK
<1>9. QED
  BY <1>1, <1>2, <1>5, <1>6, <1>7, <1>8, ServerEffect

\* Every step of the seed.
LEMMA SeedStep ==
    ASSUME ElectionInv, program = "election", UNCHANGED program, Election!Next
    PROVE  \E c \in Clients : Effect(c)
<1>1. PICK c \in Clients :
        \/ \E s \in Servers : \/ Election!Timeout(c, s) \/ Election!Ask(c, s)
                             \/ Election!CreateHeartbeat(c, s) \/ Election!HandleHeartbeat(c, s)
        \/ Election!StepDown(c) \/ Election!Ignore(c) \/ Election!Count(c)
        \/ Election!Look(c) \/ Election!DropHeartbeat(c)
  BY DEF Election!Next
<1>2. ASSUME NEW s \in Servers,
             \/ Election!Timeout(c, s) \/ Election!Ask(c, s)
             \/ Election!CreateHeartbeat(c, s) \/ Election!HandleHeartbeat(c, s)
      PROVE  Effect(c)
  BY <1>2, TimeoutEffect, AskEffect, HeartbeatEffect, HandleHeartbeatEffect
<1>3. ASSUME Election!Ignore(c) PROVE Effect(c)
  <2>1. eRun[c].at \in BallotAts /\ Election!NextServer(c)
    BY <1>3 DEF Election!Ignore, BallotAts
  <2>2. UNCHANGED <<eTerm, eVotedFor, eState, eVotes, elected>>
    BY <1>3 DEF Election!Ignore, Election!serverVars
  <2>3. eVotes' \in [Servers -> SUBSET Servers]
    BY <2>2 DEF ElectionInv, ElectionTypeOK
  <2>4. QED
    BY <2>1, <2>2, <2>3, OnEffect
<1>4. ASSUME Election!Look(c) PROVE Effect(c)
  <2> DEFINE won == eState[eRun[c].cand] = "Leader"
  <2>1. /\ won \in BOOLEAN /\ eRun[c].at = "look" /\ Election!Answer(c, won)
        /\ UNCHANGED <<eTerm, eVotedFor, eState, eVotes, elected>>
    BY <1>4 DEF Election!Look, Election!serverVars
  <2>2. won => eState[eRun[c].cand] = "Leader"
    OBVIOUS
  <2> HIDE DEF won
  <2>3. QED
    BY <2>1, <2>2, ReturnEffect
<1>5. QED
  BY <1>1, <1>2, <1>3, <1>4, StepDownEffect, CountEffect, EndHeartbeatEffect

-----------------------------------------------------------------------------
\* The steps of the evolved version.
LEMMA BecomeCandidateEffect ==
    ASSUME ElectionInv, NEW c \in Clients, NEW s \in Servers, UNCHANGED program,
           program # "election", Election!BecomeCandidate(c, s)
    PROVE  Effect(c)
<1> DEFINE r == [at |-> "own", cand |-> s, term |-> eTerm[s] + 1, left |-> Servers \ {s}]
<1>1. ElectionTypeOK
  BY DEF ElectionInv
<1>2. r \in Asks /\ eTerm'[s] = eTerm[s] + 1 /\ eTerm[s] \in Nat
  BY <1>1 DEF ElectionTypeOK, Asks, AskAts, Election!BecomeCandidate
<1>3. eRun' = [eRun EXCEPT ![c] = r]
  BY DEF Election!BecomeCandidate, Election!Goes
<1>4. r.cand \notin r.left /\ eTerm'[r.cand] >= r.term
  BY <1>2
<1> HIDE DEF r
<1>5. eRun'[c] = r
  BY <1>1, <1>2, <1>3, Moves DEF Runs
<1>6. RunOK(c)'
  BY <1>2, <1>4, <1>5, AsksGo
<1>7. eVotes' \in [Servers -> SUBSET Servers]
  BY <1>1 DEF ElectionTypeOK, Election!BecomeCandidate
<1>8. QED
  BY <1>2, <1>3, <1>6, <1>7, CandidateEffect DEF Election!BecomeCandidate

\* The evolved candidate's own vote is set in the bitmask, which shows nothing.
LEMMA VoteForSelfEffect ==
    ASSUME ElectionInv, NEW c \in Clients, UNCHANGED program, program # "election",
           Election!VoteForSelf(c)
    PROVE  Effect(c)
<1> DEFINE old == eRun[c]
           r == [old EXCEPT !.at = "won"]
<1>1. ElectionTypeOK /\ RunOK(c) /\ old.at = "own"
  BY DEF ElectionInv, Election!VoteForSelf
<1>2. /\ old \in Asks /\ old.cand \notin old.left /\ old.cand \in Servers /\ old.term \in Nat
      /\ eTerm[old.cand] >= old.term
  BY <1>1, RunKinds DEF AskAts, RunOK
<1>3. r = [at |-> "won", cand |-> old.cand, term |-> old.term, left |-> old.left]
  BY <1>2 DEF Asks
<1>4. r \in Asks /\ r.cand \notin r.left /\ r.cand = old.cand /\ r.term = old.term
  BY <1>2, <1>3 DEF Asks, AskAts
<1>5. /\ eRun' = [eRun EXCEPT ![c] = r] /\ eVotes' = [eVotes EXCEPT ![old.cand] = {old.cand}]
      /\ UNCHANGED <<eTerm, eVotedFor, eState, elected, told>>
  BY DEF Election!VoteForSelf, Election!Goes
<1> HIDE DEF r
<1>6. r \in Runs /\ eRun'[c] = r
  BY <1>1, <1>4, <1>5, Moves DEF Runs
<1>7. RunOK(c)' /\ \A v, x, t : ~Ballot(c, v, x, t)'
  BY <1>2, <1>4, <1>5, <1>6, AsksGo
<1>8. /\ eVotes' \in [Servers -> SUBSET Servers]
      /\ told' \subseteq [term : Nat, leader : Servers] /\ Answered
  BY <1>1, <1>2, <1>5 DEF ElectionTypeOK, Answered
<1>9. QED
  BY <1>5, <1>6, <1>7, <1>8, QuietEffect

\* The evolved vote request, the asker's next server included.
LEMMA RequestVoteEffect ==
    ASSUME ElectionInv, NEW c \in Clients, NEW p \in Servers, UNCHANGED program,
           program # "election", Election!RequestVote(c, p)
    PROVE  Effect(c)
<1> DEFINE higher == eRun[c].term > eTerm[p]
           granted == Election!MayVote(p, eRun[c].term, eRun[c].cand)
           at == IF higher /\ eState[p] # "Follower" THEN "clear" ELSE "count"
<1>1. granted <=> Election!Vote(p, eRun[c].term, eRun[c].cand)
  BY DEF Election!MayVote, Election!Vote
<1>2. higher \in BOOLEAN /\ granted \in BOOLEAN /\ Election!Vote(p, eRun[c].term, eRun[c].cand) \in BOOLEAN
  BY DEF Election!MayVote, Election!Vote
<1>3. granted = Election!Vote(p, eRun[c].term, eRun[c].cand)
  BY <1>1, <1>2
<1>4. eVotes' \in [Servers -> SUBSET Servers]
  BY DEF ElectionInv, ElectionTypeOK, Election!RequestVote
<1>5. GivesVote(c, p, at, higher, granted)
  BY <1>3, <1>4 DEF Election!RequestVote, Election!Goes, GivesVote
<1>6. at \in {"count", "clear"}
  OBVIOUS
<1> HIDE DEF higher, granted, at
<1>7. QED
  BY <1>2, <1>5, <1>6, VoteEffect

\* A thread with the answer of a voter goes on with it, and nobody's vote is new.
LEMMA CarryOn ==
    ASSUME ElectionInv, NEW c \in Clients, eRun[c].at \in BallotAts, NEW at \in BallotAts,
           Election!Goes(c, [eRun[c] EXCEPT !.at = at]),
           at \in {"add", "promote"} => eRun[c].granted,
           eTerm' \in [Servers -> Nat], \A v \in Servers : eTerm'[v] >= eTerm[v]
    PROVE  \E r \in Runs : /\ eRun' = [eRun EXCEPT ![c] = r]
                           /\ RunOK(c)'
                           /\ \A v, x, t : Ballot(c, v, x, t)' => Ballot(c, v, x, t)
<1> DEFINE old == eRun[c]
           r == [old EXCEPT !.at = at]
<1>1. /\ ElectionTypeOK /\ old \in Ballots /\ old.cand \in Servers /\ old.voter \in Servers
      /\ old.voter # old.cand /\ old.cand \notin old.left /\ old.term \in Nat
      /\ eTerm[old.cand] >= old.term /\ eTerm[old.cand] \in Nat
  BY CountFacts
<1>2. r = [at |-> at, cand |-> old.cand, term |-> old.term, left |-> old.left,
           voter |-> old.voter, voterTerm |-> old.voterTerm, granted |-> old.granted]
  BY <1>1 DEF Ballots
<1>3. /\ r \in Ballots /\ r.at = at /\ r.cand = old.cand /\ r.term = old.term /\ r.left = old.left
      /\ r.voter = old.voter /\ r.voterTerm = old.voterTerm /\ r.granted = old.granted
  BY <1>1, <1>2 DEF Ballots
<1>4. eRun' = [eRun EXCEPT ![c] = r]
  BY DEF Election!Goes
<1> HIDE DEF r
<1>5. r \in Runs /\ eRun'[c] = r
  BY <1>1, <1>3, <1>4, Moves DEF Runs
<1>6. eTerm'[r.cand] >= r.term
  <2>1. eTerm'[old.cand] \in Nat /\ eTerm'[old.cand] >= eTerm[old.cand]
    BY <1>1
  <2>2. QED
    BY <1>1, <1>3, <2>1
<1>7. /\ RunOK(c)'
      /\ \A v, x, t : Ballot(c, v, x, t)' =>
            r.granted /\ r.voter = v /\ r.cand = x /\ r.voterTerm = t
  BY <1>1, <1>3, <1>5, <1>6, BallotGoes
<1>8. \A v, x, t : Ballot(c, v, x, t)' => Ballot(c, v, x, t)
  BY <1>3, <1>7 DEF Ballot
<1>9. QED
  BY <1>4, <1>5, <1>7, <1>8

\* The same, when no word changes.
LEMMA CarryEffect ==
    ASSUME ElectionInv, NEW c \in Clients, UNCHANGED program, program # "election",
           eRun[c].at \in BallotAts, NEW at \in BallotAts,
           Election!Goes(c, [eRun[c] EXCEPT !.at = at]),
           at \in {"add", "promote"} => eRun[c].granted,
           eVotes' \in [Servers -> SUBSET Servers],
           UNCHANGED <<eTerm, eVotedFor, eState, elected, told>>
    PROVE  Effect(c)
<1>1. ElectionTypeOK
  BY DEF ElectionInv
<1>2. eTerm' \in [Servers -> Nat] /\ \A v \in Servers : eTerm'[v] >= eTerm[v]
  BY <1>1 DEF ElectionTypeOK
<1>3. PICK r \in Runs : /\ eRun' = [eRun EXCEPT ![c] = r]
                       /\ RunOK(c)'
                       /\ \A v, x, t : Ballot(c, v, x, t)' => Ballot(c, v, x, t)
  BY <1>2, CarryOn
<1>4. told' \subseteq [term : Nat, leader : Servers] /\ Answered
  BY <1>1 DEF ElectionTypeOK, Answered
<1>5. QED
  BY <1>3, <1>4, QuietEffect

\* The evolved candidate learns of a later term, in one word with its vote and state.
LEMMA DeposeEffect ==
    ASSUME ElectionInv, NEW c \in Clients, UNCHANGED program, program # "election",
           Election!Depose(c)
    PROVE  Effect(c)
<1> DEFINE s == eRun[c].cand
           n == eRun[c].voterTerm
<1>1. eRun[c].at \in BallotAts /\ n > eTerm[s] /\ "forget" \in BallotAts
  BY DEF Election!Depose, BallotAts
<1>2. ElectionTypeOK /\ s \in Servers /\ n \in Nat /\ eTerm[s] \in Nat
  BY <1>1, CountFacts
<1>3. /\ eTerm' = [eTerm EXCEPT ![s] = n] /\ eVotedFor' = [eVotedFor EXCEPT ![s] = NoServer]
      /\ eState' = [eState EXCEPT ![s] = "Follower"]
      /\ Election!Goes(c, [eRun[c] EXCEPT !.at = "forget"])
      /\ UNCHANGED <<eVotes, elected, told>>
  BY DEF Election!Depose
<1> HIDE DEF s, n
<1>4. /\ eTerm' \in [Servers -> Nat] /\ \A v \in Servers : eTerm'[v] >= eTerm[v]
      /\ eVotes' \in [Servers -> SUBSET Servers]
  BY <1>1, <1>2, <1>3 DEF ElectionTypeOK
<1>5. PICK r \in Runs : /\ eRun' = [eRun EXCEPT ![c] = r]
                       /\ RunOK(c)'
                       /\ \A v, x, t : Ballot(c, v, x, t)' => Ballot(c, v, x, t)
  BY <1>1, <1>3, <1>4, CarryOn
<1>6. n >= eTerm[s] /\ n # eTerm[s]
  BY <1>1, <1>2
<1>7. QED
  BY <1>2, <1>3, <1>4, <1>5, <1>6, ServerEffect

\* With three servers at most, a candidate and one other are a quorum.
LEMMA TwoAreQuorum ==
    ASSUME Cardinality(Servers) <= 3, NEW s \in Servers, NEW v \in Servers, s # v
    PROVE  Election!IsQuorum({s, v})
<1>1. Cardinality(Servers) \in Nat
  BY FS_CardinalityType
<1>2. IsFiniteSet({v}) /\ Cardinality({v}) = 1
  BY FS_Singleton
<1>3. Cardinality({v} \cup {s}) = Cardinality({v}) + 1
  BY <1>2, FS_AddElement
<1>4. {v} \cup {s} = {s, v}
  OBVIOUS
<1>5. Cardinality({s, v}) = 2
  BY <1>2, <1>3, <1>4
<1>6. Cardinality(Servers) \div 2 + 1 <= 2
  BY <1>1, Z3
<1>7. QED
  BY <1>5, <1>6, SameCount DEF Election!IsQuorum

\* Whatever the bitmask holds, the thread that makes a leader has a vote in its hand.
LEMMA PromoteEffect ==
    ASSUME ElectionInv, NEW c \in Clients, UNCHANGED program, program # "election",
           Cardinality(Servers) <= 3, Election!Promote(c)
    PROVE  Effect(c)
<1> DEFINE s == eRun[c].cand
           v == eRun[c].voter
           runs == eState[s] = "Candidate" /\ eTerm[s] = eRun[c].voterTerm
<1>1. /\ eRun[c].at = "promote" /\ eRun[c].at \in BallotAts /\ "check" \in BallotAts
      /\ eState' = [eState EXCEPT ![s] = IF runs THEN "Leader" ELSE @]
      /\ elected' = IF runs THEN elected \cup {[term |-> eTerm[s], leader |-> s]} ELSE elected
      /\ Election!Goes(c, [eRun[c] EXCEPT !.at = "check"])
      /\ UNCHANGED <<eTerm, eVotedFor, eVotes, told>>
  BY DEF Election!Promote, BallotAts
<1>2. /\ ElectionTypeOK /\ s \in Servers /\ v \in Servers /\ s # v
      /\ eRun[c].granted
  BY <1>1, CountFacts DEF RunOK
<1>3. eTerm' \in [Servers -> Nat] /\ \A x \in Servers : eTerm'[x] >= eTerm[x]
  BY <1>1, <1>2 DEF ElectionTypeOK
<1>4. /\ told' \subseteq [term : Nat, leader : Servers] /\ Answered
      /\ eVotes' \in [Servers -> SUBSET Servers]
  BY <1>1, <1>2 DEF ElectionTypeOK, Answered
<1>5. PICK r \in Runs : /\ eRun' = [eRun EXCEPT ![c] = r]
                       /\ RunOK(c)'
                       /\ \A w, x, t : Ballot(c, w, x, t)' => Ballot(c, w, x, t)
  BY <1>1, <1>3, CarryOn
<1>6. CASE runs
  <2>1. Voted(s, s, eTerm[s])
    BY <1>6 DEF Voted
  <2>2. Voted(v, s, eTerm[s])
    BY <1>1, <1>2, <1>6 DEF Voted, Ballot
  <2>3. Wins(s)
    <3>1. {s, v} \in SUBSET Servers /\ Election!IsQuorum({s, v})
      BY <1>2, TwoAreQuorum
    <3>2. \A w \in {s, v} : Voted(w, s, eTerm[s])
      BY <2>1, <2>2
    <3>3. QED
      BY <3>1, <3>2 DEF Wins
  <2>4. /\ eState[s] = "Candidate" /\ eState' = [eState EXCEPT ![s] = "Leader"]
        /\ elected' = elected \cup {[term |-> eTerm[s], leader |-> s]}
    BY <1>1, <1>6
  <2> HIDE DEF s, v
  <2>5. QED
    BY <1>1, <1>2, <1>4, <1>5, <2>3, <2>4, LeaderEffect
<1>7. CASE ~runs
  <2>1. UNCHANGED <<eState, elected>>
    BY <1>1, <1>2, <1>7 DEF ElectionTypeOK
  <2> HIDE DEF s, v
  <2>2. QED
    BY <1>1, <1>4, <1>5, <2>1, QuietEffect
<1>8. QED
  BY <1>6, <1>7

\* The evolved heartbeat takes the word of its receiver to its term.
LEMMA TakeHeartbeatEffect ==
    ASSUME ElectionInv, NEW c \in Clients, NEW p \in Servers, UNCHANGED program,
           program # "election", Election!TakeHeartbeat(c, p)
    PROVE  Effect(c)
<1> DEFINE old == eRun[c]
           w == IF old.term > eTerm[p] THEN NoServer ELSE eVotedFor[p]
           r == [at |-> "wipe", cand |-> old.cand, term |-> old.term, left |-> old.left \ {p},
                 voter |-> p]
<1>1. ElectionTypeOK /\ RunOK(c) /\ old.at = "beat" /\ old.term >= eTerm[p]
  BY DEF ElectionInv, Election!TakeHeartbeat
<1>2. /\ old.cand \in Servers /\ old.cand \notin old.left /\ old.term \in Nat
      /\ old.left \subseteq Servers /\ eTerm[p] \in Nat
  BY <1>1, RunKinds DEF RunOK, ElectionTypeOK
<1>3. r \in Wipes /\ r.cand \notin r.left
  BY <1>2 DEF Wipes
<1>4. /\ eRun' = [eRun EXCEPT ![c] = r]
      /\ eTerm' = [eTerm EXCEPT ![p] = old.term] /\ eState' = [eState EXCEPT ![p] = "Follower"]
      /\ eVotedFor' = [eVotedFor EXCEPT ![p] = w] /\ UNCHANGED <<eVotes, elected, told>>
  BY DEF Election!TakeHeartbeat, Election!Goes
<1>5. w \in Servers \cup {NoServer} /\ (old.term = eTerm[p] => w = eVotedFor[p])
  BY <1>1, <1>2 DEF ElectionTypeOK
<1> HIDE DEF r, w
<1>6. r \in Runs /\ eRun'[c] = r
  BY <1>1, <1>3, <1>4, Moves DEF Runs
<1>7. RunOK(c)' /\ \A v, x, t : ~Ballot(c, v, x, t)'
  BY <1>3, <1>6, RestGoes
<1>8. eVotes' \in [Servers -> SUBSET Servers]
  BY <1>1, <1>4 DEF ElectionTypeOK
<1>9. QED
  BY <1>1, <1>2, <1>4, <1>5, <1>6, <1>7, <1>8, ServerEffect

\* The receiver's bitmask is cleared after its word was changed.
LEMMA WipeVotesEffect ==
    ASSUME ElectionInv, NEW c \in Clients, UNCHANGED program, program # "election",
           Election!WipeVotes(c)
    PROVE  Effect(c)
<1> DEFINE old == eRun[c]
           r == [at |-> "beat", cand |-> old.cand, term |-> old.term, left |-> old.left]
<1>1. ElectionTypeOK /\ RunOK(c) /\ old.at = "wipe"
  BY DEF ElectionInv, Election!WipeVotes
<1>2. /\ old.cand \in Servers /\ old.cand \notin old.left /\ old.term \in Nat
      /\ old.left \subseteq Servers /\ old.voter \in Servers
  BY <1>1, RunKinds DEF RunOK, Wipes
<1>3. r \in Asks /\ r.cand \notin r.left /\ r.at = "beat"
  BY <1>2 DEF Asks, AskAts
<1>4. /\ eRun' = [eRun EXCEPT ![c] = r] /\ eVotes' = [eVotes EXCEPT ![old.voter] = {}]
      /\ UNCHANGED <<eTerm, eVotedFor, eState, elected, told>>
  BY DEF Election!WipeVotes, Election!Goes
<1> HIDE DEF r
<1>5. r \in Runs /\ eRun'[c] = r
  BY <1>1, <1>3, <1>4, Moves DEF Runs
<1>6. RunOK(c)' /\ \A v, x, t : ~Ballot(c, v, x, t)'
  BY <1>3, <1>5, AsksGo
<1>7. /\ eVotes' \in [Servers -> SUBSET Servers]
      /\ told' \subseteq [term : Nat, leader : Servers] /\ Answered
  BY <1>1, <1>2, <1>4 DEF ElectionTypeOK, Answered
<1>8. QED
  BY <1>4, <1>5, <1>6, <1>7, QuietEffect

\* The steps that write no word and make no leader.
LEMMA BetweenEffect ==
    ASSUME ElectionInv, NEW c \in Clients, UNCHANGED program, program # "election",
           \/ Election!ClearVotes(c) \/ Election!ForgetVotes(c)
           \/ Election!StillRunning(c) \/ Election!AddVote(c)
    PROVE  Effect(c)
<1> DEFINE old == eRun[c]
<1>1. /\ ElectionTypeOK /\ old.at \in BallotAts
      /\ UNCHANGED <<eTerm, eVotedFor, eState, elected>>
  BY DEF ElectionInv, Election!ClearVotes, Election!ForgetVotes, Election!StillRunning,
         Election!AddVote, Election!serverVars, BallotAts
<1>2. old.cand \in Servers /\ old.voter \in Servers
  BY <1>1, CountFacts
<1>3. {"count", "add", "promote"} \subseteq BallotAts
  BY DEF BallotAts
<1>4. CASE Election!ClearVotes(c)
  <2>1. /\ eVotes' = [eVotes EXCEPT ![old.voter] = {}] /\ UNCHANGED told
        /\ Election!Goes(c, [old EXCEPT !.at = "count"])
    BY <1>4 DEF Election!ClearVotes
  <2>2. eVotes' \in [Servers -> SUBSET Servers]
    BY <1>1, <1>2, <2>1 DEF ElectionTypeOK
  <2>3. QED
    BY <1>1, <1>3, <2>1, <2>2, CarryEffect
<1>5. CASE Election!ForgetVotes(c)
  <2>1. eVotes' = [eVotes EXCEPT ![old.cand] = {}] /\ Election!NextServer(c)
    BY <1>5 DEF Election!ForgetVotes
  <2>2. eVotes' \in [Servers -> SUBSET Servers]
    BY <1>1, <1>2, <2>1 DEF ElectionTypeOK
  <2>3. QED
    BY <1>1, <2>1, <2>2, OnEffect
<1>6. CASE Election!StillRunning(c)
  <2>1. eVotes' \in [Servers -> SUBSET Servers]
    BY <1>1, <1>6 DEF ElectionTypeOK, Election!StillRunning, Election!serverVars
  <2>2. CASE old.granted
    BY <1>1, <1>3, <1>6, <2>1, <2>2, CarryEffect DEF Election!StillRunning
  <2>3. CASE ~old.granted
    BY <1>1, <1>6, <2>1, <2>3, OnEffect DEF Election!StillRunning
  <2>4. QED
    BY <2>2, <2>3
<1>7. CASE Election!AddVote(c)
  <2> DEFINE all == eVotes[old.cand] \cup {old.voter}
  <2>1. /\ old.at = "add" /\ eVotes' = [eVotes EXCEPT ![old.cand] = all]
        /\ \/ UNCHANGED told /\ Election!Goes(c, [old EXCEPT !.at = "promote"])
           \/ Election!NextServer(c)
    BY <1>7 DEF Election!AddVote
  <2>2. old.granted
    BY <2>1 DEF ElectionInv, RunOK
  <2>3. eVotes' \in [Servers -> SUBSET Servers]
    BY <1>1, <1>2, <2>1 DEF ElectionTypeOK
  <2>4. ASSUME UNCHANGED told, Election!Goes(c, [old EXCEPT !.at = "promote"]) PROVE Effect(c)
    BY <1>1, <1>3, <2>2, <2>3, <2>4, CarryEffect
  <2>5. ASSUME Election!NextServer(c) PROVE Effect(c)
    BY <1>1, <2>3, <2>5, OnEffect
  <2>6. QED
    BY <2>1, <2>4, <2>5
<1>8. QED
  BY <1>4, <1>5, <1>6, <1>7

\* The loads: the thread returns, or goes to the next server.
LEMMA LoadEffect ==
    ASSUME ElectionInv, NEW c \in Clients, UNCHANGED program, program # "election",
           \/ Election!WonAlready(c) \/ Election!NotRunning(c)
           \/ Election!CheckLeader(c) \/ Election!LastLook(c)
    PROVE  Effect(c)
<1> DEFINE leads == eState[eRun[c].cand] = "Leader"
<1>1. /\ UNCHANGED <<eTerm, eVotedFor, eState, eVotes, elected>>
      /\ eVotes' \in [Servers -> SUBSET Servers]
  BY DEF ElectionInv, ElectionTypeOK, Election!WonAlready, Election!NotRunning,
         Election!CheckLeader, Election!LastLook, Election!serverVars
<1>2. CASE Election!LastLook(c)
  <2>1. leads \in BOOLEAN /\ Election!Answer(c, leads) /\ eRun[c].at = "look"
    BY <1>2 DEF Election!LastLook
  <2>2. leads => eState[eRun[c].cand] = "Leader"
    OBVIOUS
  <2> HIDE DEF leads
  <2>3. QED
    BY <1>1, <2>1, <2>2, ReturnEffect
<1>3. CASE ~Election!LastLook(c)
  <2>1. /\ eRun[c].at \in BallotAts \cup {"won"}
        /\ (leads /\ Election!Answer(c, TRUE)) \/ Election!NextServer(c)
    BY <1>3 DEF Election!WonAlready, Election!NotRunning, Election!CheckLeader, BallotAts
  <2>2. ASSUME leads, Election!Answer(c, TRUE) PROVE Effect(c)
    BY <1>1, <2>1, <2>2, ReturnEffect
  <2>3. ASSUME Election!NextServer(c) PROVE Effect(c)
    BY <1>1, <2>1, <2>3, OnEffect
  <2>4. QED
    BY <2>1, <2>2, <2>3
<1>4. QED
  BY <1>2, <1>3

\* Every step of the evolved version, with three servers at most.
LEMMA EvolvedStep ==
    ASSUME ElectionInv, program # "election", UNCHANGED program, Cardinality(Servers) <= 3,
           Election!NextLockFree
    PROVE  \E c \in Clients : Effect(c)
<1>1. PICK c \in Clients :
        \/ \E s \in Servers :
              \/ Election!BecomeCandidate(c, s) \/ Election!RequestVote(c, s)
              \/ Election!MakeHeartbeat(c, s) \/ Election!TakeHeartbeat(c, s)
        \/ Election!VoteForSelf(c) \/ Election!WonAlready(c) \/ Election!ClearVotes(c)
        \/ Election!Depose(c) \/ Election!ForgetVotes(c) \/ Election!NotRunning(c)
        \/ Election!StillRunning(c) \/ Election!AddVote(c) \/ Election!Promote(c)
        \/ Election!CheckLeader(c) \/ Election!LastLook(c)
        \/ Election!WipeVotes(c) \/ Election!NoHeartbeat(c)
  BY DEF Election!NextLockFree
<1>2. ASSUME NEW s \in Servers,
             \/ Election!BecomeCandidate(c, s) \/ Election!RequestVote(c, s)
             \/ Election!MakeHeartbeat(c, s) \/ Election!TakeHeartbeat(c, s)
      PROVE  Effect(c)
  BY <1>2, BecomeCandidateEffect, RequestVoteEffect, HeartbeatEffect, TakeHeartbeatEffect
<1>3. QED
  BY <1>1, <1>2, VoteForSelfEffect, BetweenEffect, LoadEffect, DeposeEffect, PromoteEffect,
     WipeVotesEffect, EndHeartbeatEffect

-----------------------------------------------------------------------------
\* Nobody has voted, leads or was answered at the start.
LEMMA InitElections == MCInit => ElectionInv
<1> SUFFICES ASSUME MCInit PROVE ElectionInv
  OBVIOUS
<1>1. /\ eTerm = [s \in Servers |-> 0] /\ eVotedFor = [s \in Servers |-> NoServer]
      /\ eState = [s \in Servers |-> "Follower"] /\ eVotes = [s \in Servers |-> {}]
      /\ eRun = [c \in Clients |-> Election!Idle] /\ elected = {} /\ told = {}
      /\ program \in Programs
  BY DEF MCInit, Election!Init
<1>2. Election!Idle.at = "idle"
  BY DEF Election!Idle
<1>3. ElectionTypeOK
  BY <1>1 DEF ElectionTypeOK, Runs
<1>4. \A c \in Clients : RunOK(c)
  BY <1>1, <1>2 DEF RunOK
<1>5. \A v, x \in Servers, t \in Nat : ~Voted(v, x, t)
  BY <1>1, <1>2 DEF Voted, Ballot, BallotAts
<1>6. QED
  BY <1>1, <1>3, <1>4, <1>5
     DEF ElectionInv, VotesBind, OneVote, LeadersBacked, LeadersElected, ElectionsSound,
         OneLeaderPerTerm, Election!OneLeaderPerTerm, Election!AnswersTrue

\* Each step of the project's programs keeps the invariant of elections.
LEMMA StepElections ==
    ASSUME "election v2" \in Programs => Cardinality(Servers) <= 3,
           ElectionInv, [MCNext]_<<program, oracle, done, vars, electionVars, commitVars>>
    PROVE  ElectionInv'
<1>1. CASE UNCHANGED <<program, electionVars>>
  <2>1. /\ program' = program /\ eTerm' = eTerm /\ eVotedFor' = eVotedFor /\ eState' = eState
        /\ eVotes' = eVotes /\ eRun' = eRun /\ elected' = elected /\ told' = told
    BY <1>1 DEF electionVars
  <2>2. ElectionTypeOK' /\ \A c \in Clients : RunOK(c)'
    BY <2>1 DEF ElectionInv, ElectionTypeOK, RunOK
  <2>3. \A v, x, t : (Voted(v, x, t)' <=> Voted(v, x, t)) /\ (Bound(v, x, t)' <=> Bound(v, x, t))
    <3> SUFFICES ASSUME NEW v, NEW x, NEW t
                 PROVE  (Voted(v, x, t)' <=> Voted(v, x, t)) /\ (Bound(v, x, t)' <=> Bound(v, x, t))
      OBVIOUS
    <3>1. Bound(v, x, t)' <=> Bound(v, x, t)
      BY <2>1 DEF Bound
    <3>2. \A c \in Clients : Ballot(c, v, x, t)' <=> Ballot(c, v, x, t)
      BY <2>1 DEF Ballot
    <3>3. QED
      BY <2>1, <3>1, <3>2 DEF Voted
  <2>4. VotesBind' /\ OneVote'
    BY <2>3 DEF ElectionInv, VotesBind, OneVote
  <2>5. \A x, t : Backed(x, t) => Backed(x, t)'
    BY <2>3 DEF Backed, Election!IsQuorum
  <2>6. LeadersBacked' /\ LeadersElected' /\ ElectionsSound'
    BY <2>1, <2>5 DEF ElectionInv, LeadersBacked, LeadersElected, ElectionsSound,
       OneLeaderPerTerm, Election!OneLeaderPerTerm, Election!AnswersTrue
  <2>7. QED
    BY <2>1, <2>2, <2>4, <2>6 DEF ElectionInv
<1>2. ASSUME program = "election", Election!Next, UNCHANGED program PROVE ElectionInv'
  BY <1>2, SeedStep, EffectKeeps
<1>3. ASSUME program = "election v2", Election!NextLockFree, UNCHANGED program PROVE ElectionInv'
  <2>1. Cardinality(Servers) <= 3 /\ program # "election"
    BY <1>3 DEF ElectionInv
  <2>2. QED
    BY <1>3, <2>1, EvolvedStep, EffectKeeps
<1>4. QED
  BY <1>1, <1>2, <1>3 DEF MCNext

\* The invariant of the elections: for any servers in the seed, for up to three in
\* the evolved version, and any threads and terms in both, votes bind their voters,
\* and every leader had the votes of a quorum none of which shows another vote.
THEOREM ElectionInvariant ==
    ASSUME "election v2" \in Programs => Cardinality(Servers) <= 3
    PROVE  MCSpec => []ElectionInv
<1>1. MCInit => ElectionInv
  BY InitElections
<1>2. ElectionInv /\ [MCNext]_<<program, oracle, done, vars, electionVars, commitVars>>
        => ElectionInv'
  BY StepElections
<1>3. QED
  BY <1>1, <1>2, PTL DEF MCSpec

\* One server leads in a term, and run_election answers "won" only for a server that
\* was elected.  With four servers the evolved version breaks it.
THEOREM ElectionsAreSound ==
    ASSUME "election v2" \in Programs => Cardinality(Servers) <= 3
    PROVE  MCSpec => []ElectionsSound
<1>1. ElectionInv => ElectionsSound
  BY DEF ElectionInv
<1>2. MCSpec => []ElectionInv
  BY ElectionInvariant
<1>3. QED
  BY <1>1, <1>2, PTL

-----------------------------------------------------------------------------
(* The pre-built oracles.                                                     *)

\* The actions of an oracle.
Begins(t) == [op |-> "Begin", txn |-> t]
Reads(t, k) == [op |-> "Read", txn |-> t, key |-> k]
Writes(t, k) == [op |-> "Write", txn |-> t, key |-> k]
Commits(t) == [op |-> "Commit", txn |-> t]

\* t has begun at the action begin and ended, as it says, at the action end.
Stage(t, begin, end, last) ==
    status[t] = IF done < begin THEN "NotStarted" ELSE IF done < end THEN "Active" ELSE last

Unmarked == \A t \in Txns : ~inConflict[t] /\ ~outConflict[t]
NoLocks == \A key \in Keys : siread[key] = {}
LockedBy(key, t) == writeLock[key] \in {NoTxn, t}

\* What is known of the machine along each oracle of a and b: when each began and
\* ended, who may hold the locks and SIREAD locks of the keys, and which flags the
\* two carry.
WriteWriteFollowed(a, b, j) ==
    /\ done <= 6 /\ Stage(a, 1, 3, "Committed") /\ Stage(b, 4, 6, "Committed")
    /\ Unmarked /\ NoLocks
    /\ LockedBy(j, IF done < 3 THEN a ELSE b)

DisjointKeysFollowed(a, b, j, k) ==
    /\ done <= 6 /\ Stage(a, 1, 5, "Committed") /\ Stage(b, 2, 6, "Committed")
    /\ Unmarked /\ NoLocks
    /\ LockedBy(j, a) /\ LockedBy(k, b)

ReadOnlyFollowed(a, b, j) ==
    /\ done <= 6 /\ Stage(a, 1, 3, "Committed") /\ Stage(b, 4, 6, "Committed")
    /\ Unmarked /\ (done <= 4 => NoLocks)
    /\ LockedBy(j, a)
    /\ now = done /\ (\A w \in writes : w.at < 3) /\ (done >= 4 => snapshot[b] = 3)

SingleConflictFlagFollowed(a, b, j) ==
    /\ done <= 6 /\ Stage(a, 1, 6, "Committed") /\ Stage(b, 2, 5, "Committed")
    /\ ~inConflict[a] /\ ~outConflict[b] /\ outConflict[a] = (done >= 4)
    /\ siread[j] = IF done < 3 THEN {} ELSE {a}
    /\ LockedBy(j, b)
    /\ done < 4 => writes = {}

DangerousStructureFollowed(a, b, j, k) ==
    /\ done <= 7 /\ Stage(a, 1, 7, "Aborted") /\ Stage(b, 2, 8, "Committed")
    /\ done < 7 => /\ inConflict[a] = (done >= 5) /\ outConflict[a] = (done = 6)
                   /\ siread[j] = IF done < 3 THEN {} ELSE {a}
                   /\ siread[k] = IF done < 4 THEN {} ELSE {b}
                   /\ LockedBy(k, a) /\ LockedBy(j, b)
    /\ done < 5 => writes = {}

\* The oracle that is followed, and how far.
Followed(a, b, j, k) ==
    \/ oracle = WriteWriteConflict(a, b, j) /\ WriteWriteFollowed(a, b, j)
    \/ \E category \in {"WriteWriteConflict", "ConcurrentCommit"} :
          oracle = DisjointKeys(category, a, b, j, k) /\ DisjointKeysFollowed(a, b, j, k)
    \/ oracle = ReadOnly(a, b, j) /\ ReadOnlyFollowed(a, b, j)
    \/ oracle = SingleConflictFlag(a, b, j) /\ SingleConflictFlagFollowed(a, b, j)
    \/ oracle = DangerousStructure(a, b, j, k) /\ DangerousStructureFollowed(a, b, j, k)

\* The machine is well typed, as far as an oracle depends on it.
MachineOK ==
    /\ now \in Nat /\ writes \subseteq [txn : Txns, key : Keys, at : Nat]
    /\ status \in [Txns -> Status] /\ snapshot \in [Txns -> Nat]
    /\ writeLock \in [Keys -> Txns \cup {NoTxn}] /\ siread \in [Keys -> SUBSET Txns]
    /\ inConflict \in [Txns -> BOOLEAN] /\ outConflict \in [Txns -> BOOLEAN]

\* The inductive invariant of the oracles.
OracleInv ==
    program = "ssi oracle" =>
        /\ MachineOK /\ done \in Nat
        /\ \E a, b \in Txns, j, k \in Keys : a # b /\ j # k /\ Followed(a, b, j, k)

-----------------------------------------------------------------------------
\* The actions of the oracles.
LEMMA WriteWriteActions ==
    ASSUME NEW a, NEW b, NEW j
    PROVE  LET s == WriteWriteConflict(a, b, j).actions
           IN  /\ Len(s) = 6
               /\ s[1] = Begins(a) /\ s[2] = Writes(a, j) /\ s[3] = Commits(a)
               /\ s[4] = Begins(b) /\ s[5] = Writes(b, j) /\ s[6] = Commits(b)
BY DEF WriteWriteConflict, Alone, Act, On, Begins, Writes, Commits

LEMMA DisjointKeysActions ==
    ASSUME NEW a, NEW b, NEW j, NEW k, NEW category
    PROVE  LET s == DisjointKeys(category, a, b, j, k).actions
           IN  /\ Len(s) = 6
               /\ s[1] = Begins(a) /\ s[2] = Begins(b) /\ s[3] = Writes(a, j)
               /\ s[4] = Writes(b, k) /\ s[5] = Commits(a) /\ s[6] = Commits(b)
BY DEF DisjointKeys, Both, Act, On, Begins, Writes, Commits

LEMMA ReadOnlyActions ==
    ASSUME NEW a, NEW b, NEW j
    PROVE  LET s == ReadOnly(a, b, j).actions
           IN  /\ Len(s) = 6
               /\ s[1] = Begins(a) /\ s[2] = Writes(a, j) /\ s[3] = Commits(a)
               /\ s[4] = Begins(b) /\ s[5] = Reads(b, j) /\ s[6] = Commits(b)
BY DEF ReadOnly, Alone, Act, On, Begins, Reads, Writes, Commits

LEMMA SingleConflictFlagActions ==
    ASSUME NEW a, NEW b, NEW j
    PROVE  LET s == SingleConflictFlag(a, b, j).actions
           IN  /\ Len(s) = 6
               /\ s[1] = Begins(a) /\ s[2] = Begins(b) /\ s[3] = Reads(a, j)
               /\ s[4] = Writes(b, j) /\ s[5] = Commits(b) /\ s[6] = Commits(a)
BY DEF SingleConflictFlag, Both, Act, On, Begins, Reads, Writes, Commits

LEMMA DangerousStructureActions ==
    ASSUME NEW a, NEW b, NEW j, NEW k
    PROVE  LET s == DangerousStructure(a, b, j, k).actions
           IN  /\ Len(s) = 7
               /\ s[1] = Begins(a) /\ s[2] = Begins(b) /\ s[3] = Reads(a, j)
               /\ s[4] = Reads(b, k) /\ s[5] = Writes(a, k) /\ s[6] = Writes(b, j)
               /\ s[7] = Commits(a)
BY DEF DangerousStructure, Both, Act, On, Begins, Reads, Writes, Commits

\* What apply does with each kind of action, and that the machine stays well typed.
LEMMA BeginApplied ==
    ASSUME MachineOK, NEW t \in Txns, Apply(Begins(t))
    PROVE  /\ MachineOK' /\ now' = now + 1
           /\ status' = [status EXCEPT ![t] = "Active"] /\ snapshot' = [snapshot EXCEPT ![t] = now]
           /\ UNCHANGED <<writes, writeLock, siread, inConflict, outConflict>>
<1>1. Begin(t)
  BY DEF Apply, Begins
<1>2. QED
  BY <1>1 DEF Begin, flagVars, MachineOK, Status

\* Any other commits.
LEMMA CommitApplied ==
    ASSUME MachineOK, NEW t \in Txns, Apply(Commits(t)), ~Dangerous(t)
    PROVE  /\ MachineOK' /\ now' = now + 1
           /\ status' = [status EXCEPT ![t] = "Committed"]
           /\ \A key \in Keys : writeLock'[key] = IF writeLock[key] = t THEN NoTxn ELSE writeLock[key]
           /\ UNCHANGED <<writes, snapshot, siread, inConflict, outConflict>>
<1>1. Commit(t)
  BY DEF Apply, Commits
<1>2. QED
  BY <1>1 DEF Commit, ReleaseLocks, flagVars, MachineOK, Status

\* The commit of a dangerous transaction aborts it.
LEMMA CommitRefused ==
    ASSUME MachineOK, NEW t \in Txns, Apply(Commits(t)), Dangerous(t)
    PROVE  MachineOK' /\ status' = [status EXCEPT ![t] = "Aborted"] /\ writes' = writes
<1>1. Abort(t)
  BY DEF Apply, Commits, Commit
<1>2. QED
  BY <1>1 DEF Abort, Aborted, ClearTraces, ReleaseLocks, MachineOK, Status

\* A read that finds nothing newer than its snapshot marks nobody.
LEMMA ReadApplied ==
    ASSUME MachineOK, NEW t \in Txns, NEW key \in Keys, Apply(Reads(t, key)),
           \A w \in writes : w.at <= snapshot[t]
    PROVE  /\ MachineOK' /\ now' = now + 1
           /\ siread' = [siread EXCEPT ![key] = @ \cup {t}]
           /\ UNCHANGED <<status, snapshot, writes, writeLock, inConflict, outConflict>>
<1>1. NewerWriters(key, snapshot[t], t) = {}
  BY DEF NewerWriters, MachineOK
<1>2. Read(t, key) \/ ReadConflict(t, key)
  BY DEF Apply, Reads
<1>3. Read(t, key)
  BY <1>1, <1>2 DEF ReadConflict, ReadViolates
<1>4. QED
  BY <1>1, <1>3 DEF Read, MachineOK

\* A write is accepted where readers, if any, are active.
LEMMA WriteAccepted ==
    ASSUME MachineOK, NEW t \in Txns, NEW key \in Keys, Apply(Writes(t, key)),
           NEW readers, ConcurrentReaders(t, key) = readers, readers \subseteq Txns,
           \A r \in readers : status[r] = "Active"
    PROVE  /\ MachineOK' /\ now' = now + 1
           /\ writes' = writes \cup {[txn |-> t, key |-> key, at |-> now]}
           /\ writeLock' = [writeLock EXCEPT ![key] = t]
           /\ outConflict' = [u \in Txns |-> outConflict[u] \/ u \in readers]
           /\ inConflict' = [inConflict EXCEPT ![t] = @ \/ readers # {}]
           /\ UNCHANGED <<status, snapshot, siread>>
<1>1. Write(t, key) \/ WriteConflict(t, key)
  BY DEF Apply, Writes
<1>2. Write(t, key)
  BY <1>1 DEF WriteConflict, WriteViolates
<1>3. QED
  BY <1>2 DEF Write, MachineOK

\* A write where nobody holds a SIREAD lock marks nobody.
LEMMA WriteApplied ==
    ASSUME MachineOK, NEW t \in Txns, NEW key \in Keys, Apply(Writes(t, key)), siread[key] = {}
    PROVE  /\ MachineOK' /\ now' = now + 1
           /\ writes' = writes \cup {[txn |-> t, key |-> key, at |-> now]}
           /\ writeLock' = [writeLock EXCEPT ![key] = t]
           /\ UNCHANGED <<status, snapshot, siread, inConflict, outConflict>>
<1>1. ConcurrentReaders(t, key) = {}
  BY DEF ConcurrentReaders
<1>2. /\ MachineOK' /\ now' = now + 1
      /\ writes' = writes \cup {[txn |-> t, key |-> key, at |-> now]}
      /\ writeLock' = [writeLock EXCEPT ![key] = t]
      /\ outConflict' = [u \in Txns |-> outConflict[u] \/ u \in {}]
      /\ inConflict' = [inConflict EXCEPT ![t] = @ \/ {} # {}]
      /\ UNCHANGED <<status, snapshot, siread>>
  BY <1>1, WriteAccepted
<1>3. UNCHANGED <<inConflict, outConflict>>
  BY <1>2 DEF MachineOK
<1>4. QED
  BY <1>2, <1>3

\* An active reader and the writer are marked.
LEMMA WriteMarks ==
    ASSUME MachineOK, NEW t \in Txns, NEW key \in Keys, Apply(Writes(t, key)),
           NEW r \in Txns \ {t}, siread[key] = {r}, status[r] = "Active"
    PROVE  /\ MachineOK' /\ now' = now + 1
           /\ writes' = writes \cup {[txn |-> t, key |-> key, at |-> now]}
           /\ writeLock' = [writeLock EXCEPT ![key] = t]
           /\ inConflict' = [inConflict EXCEPT ![t] = TRUE]
           /\ outConflict' = [outConflict EXCEPT ![r] = TRUE]
           /\ UNCHANGED <<status, snapshot, siread>>
<1>1. ConcurrentReaders(t, key) = {r}
  BY DEF ConcurrentReaders
<1>2. /\ MachineOK' /\ now' = now + 1
      /\ writes' = writes \cup {[txn |-> t, key |-> key, at |-> now]}
      /\ writeLock' = [writeLock EXCEPT ![key] = t]
      /\ outConflict' = [u \in Txns |-> outConflict[u] \/ u \in {r}]
      /\ inConflict' = [inConflict EXCEPT ![t] = @ \/ {r} # {}]
      /\ UNCHANGED <<status, snapshot, siread>>
  BY <1>1, WriteAccepted
<1>3. outConflict' = [outConflict EXCEPT ![r] = TRUE] /\ inConflict' = [inConflict EXCEPT ![t] = TRUE]
  BY <1>2 DEF MachineOK
<1>4. QED
  BY <1>2, <1>3

\* The oracles one by one: each action does what the next stage says.
LEMMA StepWriteWrite ==
    ASSUME MachineOK, done \in Nat, Follow, NEW a \in Txns, NEW b \in Txns, a # b,
           NEW j \in Keys,
           oracle = WriteWriteConflict(a, b, j), WriteWriteFollowed(a, b, j)
    PROVE  MachineOK' /\ WriteWriteFollowed(a, b, j)'
<1> USE DEF WriteWriteFollowed, Stage, Unmarked, NoLocks, LockedBy
<1>1. /\ Len(oracle.actions) = 6
      /\ oracle.actions[1] = Begins(a) /\ oracle.actions[2] = Writes(a, j)
      /\ oracle.actions[3] = Commits(a)
      /\ oracle.actions[4] = Begins(b) /\ oracle.actions[5] = Writes(b, j)
      /\ oracle.actions[6] = Commits(b)
  BY WriteWriteActions
<1>2. done \in 0 .. 5 /\ done' = done + 1 /\ Apply(oracle.actions[done + 1])
  <2>1. done < Len(oracle.actions) /\ done' = done + 1 /\ Apply(oracle.actions[done + 1])
    BY DEF Follow
  <2>2. QED
    BY <1>1, <2>1
<1>3. ~Dangerous(a) /\ ~Dangerous(b)
  BY DEF Dangerous
<1>4. CASE done = 0
  <2>1. Apply(Begins(a))
    BY <1>1, <1>2, <1>4
  <2>2. QED
    BY <1>2, <1>4, <2>1, BeginApplied DEF MachineOK
<1>5. CASE done = 1
  <2>1. Apply(Writes(a, j))
    BY <1>1, <1>2, <1>5
  <2>2. QED
    BY <1>2, <1>5, <2>1, WriteApplied DEF MachineOK
<1>6. CASE done = 2
  <2>1. Apply(Commits(a))
    BY <1>1, <1>2, <1>6
  <2>2. QED
    BY <1>2, <1>3, <1>6, <2>1, CommitApplied DEF MachineOK
<1>7. CASE done = 3
  <2>1. Apply(Begins(b))
    BY <1>1, <1>2, <1>7
  <2>2. QED
    BY <1>2, <1>7, <2>1, BeginApplied DEF MachineOK
<1>8. CASE done = 4
  <2>1. Apply(Writes(b, j))
    BY <1>1, <1>2, <1>8
  <2>2. QED
    BY <1>2, <1>8, <2>1, WriteApplied DEF MachineOK
<1>9. CASE done = 5
  <2>1. Apply(Commits(b))
    BY <1>1, <1>2, <1>9
  <2>2. QED
    BY <1>2, <1>3, <1>9, <2>1, CommitApplied DEF MachineOK
<1>10. QED
  BY <1>2, <1>4, <1>5, <1>6, <1>7, <1>8, <1>9

LEMMA StepDisjointKeys ==
    ASSUME MachineOK, done \in Nat, Follow, NEW a \in Txns, NEW b \in Txns, a # b,
           NEW j \in Keys, NEW k \in Keys, j # k, NEW category,
           oracle = DisjointKeys(category, a, b, j, k), DisjointKeysFollowed(a, b, j, k)
    PROVE  MachineOK' /\ DisjointKeysFollowed(a, b, j, k)'
<1> USE DEF DisjointKeysFollowed, Stage, Unmarked, NoLocks, LockedBy
<1>1. /\ Len(oracle.actions) = 6
      /\ oracle.actions[1] = Begins(a) /\ oracle.actions[2] = Begins(b)
      /\ oracle.actions[3] = Writes(a, j)
      /\ oracle.actions[4] = Writes(b, k) /\ oracle.actions[5] = Commits(a)
      /\ oracle.actions[6] = Commits(b)
  BY DisjointKeysActions
<1>2. done \in 0 .. 5 /\ done' = done + 1 /\ Apply(oracle.actions[done + 1])
  <2>1. done < Len(oracle.actions) /\ done' = done + 1 /\ Apply(oracle.actions[done + 1])
    BY DEF Follow
  <2>2. QED
    BY <1>1, <2>1
<1>3. ~Dangerous(a) /\ ~Dangerous(b)
  BY DEF Dangerous
<1>4. CASE done = 0
  <2>1. Apply(Begins(a))
    BY <1>1, <1>2, <1>4
  <2>2. QED
    BY <1>2, <1>4, <2>1, BeginApplied DEF MachineOK
<1>5. CASE done = 1
  <2>1. Apply(Begins(b))
    BY <1>1, <1>2, <1>5
  <2>2. QED
    BY <1>2, <1>5, <2>1, BeginApplied DEF MachineOK
<1>6. CASE done = 2
  <2>1. Apply(Writes(a, j))
    BY <1>1, <1>2, <1>6
  <2>2. QED
    BY <1>2, <1>6, <2>1, WriteApplied DEF MachineOK
<1>7. CASE done = 3
  <2>1. Apply(Writes(b, k))
    BY <1>1, <1>2, <1>7
  <2>2. QED
    BY <1>2, <1>7, <2>1, WriteApplied DEF MachineOK
<1>8. CASE done = 4
  <2>1. Apply(Commits(a))
    BY <1>1, <1>2, <1>8
  <2>2. QED
    BY <1>2, <1>3, <1>8, <2>1, CommitApplied DEF MachineOK
<1>9. CASE done = 5
  <2>1. Apply(Commits(b))
    BY <1>1, <1>2, <1>9
  <2>2. QED
    BY <1>2, <1>3, <1>9, <2>1, CommitApplied DEF MachineOK
<1>10. QED
  BY <1>2, <1>4, <1>5, <1>6, <1>7, <1>8, <1>9

LEMMA StepReadOnly ==
    ASSUME MachineOK, done \in Nat, Follow, NEW a \in Txns, NEW b \in Txns, a # b,
           NEW j \in Keys,
           oracle = ReadOnly(a, b, j), ReadOnlyFollowed(a, b, j)
    PROVE  MachineOK' /\ ReadOnlyFollowed(a, b, j)'
<1> USE DEF ReadOnlyFollowed, Stage, Unmarked, NoLocks, LockedBy
<1>1. /\ Len(oracle.actions) = 6
      /\ oracle.actions[1] = Begins(a) /\ oracle.actions[2] = Writes(a, j)
      /\ oracle.actions[3] = Commits(a)
      /\ oracle.actions[4] = Begins(b) /\ oracle.actions[5] = Reads(b, j)
      /\ oracle.actions[6] = Commits(b)
  BY ReadOnlyActions
<1>2. done \in 0 .. 5 /\ done' = done + 1 /\ Apply(oracle.actions[done + 1])
  <2>1. done < Len(oracle.actions) /\ done' = done + 1 /\ Apply(oracle.actions[done + 1])
    BY DEF Follow
  <2>2. QED
    BY <1>1, <2>1
<1>3. ~Dangerous(a) /\ ~Dangerous(b)
  BY DEF Dangerous
<1>4. CASE done = 0
  <2>1. Apply(Begins(a))
    BY <1>1, <1>2, <1>4
  <2>2. QED
    BY <1>2, <1>4, <2>1, BeginApplied DEF MachineOK
<1>5. CASE done = 1
  <2>1. Apply(Writes(a, j))
    BY <1>1, <1>2, <1>5
  <2>2. QED
    BY <1>2, <1>5, <2>1, WriteApplied DEF MachineOK
<1>6. CASE done = 2
  <2>1. Apply(Commits(a))
    BY <1>1, <1>2, <1>6
  <2>2. QED
    BY <1>2, <1>3, <1>6, <2>1, CommitApplied DEF MachineOK
<1>7. CASE done = 3
  <2>1. Apply(Begins(b))
    BY <1>1, <1>2, <1>7
  <2>2. QED
    BY <1>2, <1>7, <2>1, BeginApplied DEF MachineOK
<1>8. CASE done = 4
  <2>1. Apply(Reads(b, j))
    BY <1>1, <1>2, <1>8
  <2>2. QED
    BY <1>2, <1>8, <2>1, ReadApplied DEF MachineOK
<1>9. CASE done = 5
  <2>1. Apply(Commits(b))
    BY <1>1, <1>2, <1>9
  <2>2. QED
    BY <1>2, <1>3, <1>9, <2>1, CommitApplied DEF MachineOK
<1>10. QED
  BY <1>2, <1>4, <1>5, <1>6, <1>7, <1>8, <1>9

LEMMA StepSingleConflictFlag ==
    ASSUME MachineOK, done \in Nat, Follow, NEW a \in Txns, NEW b \in Txns, a # b,
           NEW j \in Keys,
           oracle = SingleConflictFlag(a, b, j), SingleConflictFlagFollowed(a, b, j)
    PROVE  MachineOK' /\ SingleConflictFlagFollowed(a, b, j)'
<1> USE DEF SingleConflictFlagFollowed, Stage, Unmarked, NoLocks, LockedBy
<1>1. /\ Len(oracle.actions) = 6
      /\ oracle.actions[1] = Begins(a) /\ oracle.actions[2] = Begins(b)
      /\ oracle.actions[3] = Reads(a, j)
      /\ oracle.actions[4] = Writes(b, j) /\ oracle.actions[5] = Commits(b)
      /\ oracle.actions[6] = Commits(a)
  BY SingleConflictFlagActions
<1>2. done \in 0 .. 5 /\ done' = done + 1 /\ Apply(oracle.actions[done + 1])
  <2>1. done < Len(oracle.actions) /\ done' = done + 1 /\ Apply(oracle.actions[done + 1])
    BY DEF Follow
  <2>2. QED
    BY <1>1, <2>1
<1>3. ~Dangerous(a) /\ ~Dangerous(b)
  BY DEF Dangerous
<1>4. CASE done = 0
  <2>1. Apply(Begins(a))
    BY <1>1, <1>2, <1>4
  <2>2. QED
    BY <1>2, <1>4, <2>1, BeginApplied DEF MachineOK
<1>5. CASE done = 1
  <2>1. Apply(Begins(b))
    BY <1>1, <1>2, <1>5
  <2>2. QED
    BY <1>2, <1>5, <2>1, BeginApplied DEF MachineOK
<1>6. CASE done = 2
  <2>1. Apply(Reads(a, j))
    BY <1>1, <1>2, <1>6
  <2>2. QED
    BY <1>2, <1>6, <2>1, ReadApplied DEF MachineOK
<1>7. CASE done = 3
  <2>1. Apply(Writes(b, j))
    BY <1>1, <1>2, <1>7
  <2>2. QED
    BY <1>2, <1>7, <2>1, WriteMarks DEF MachineOK
<1>8. CASE done = 4
  <2>1. Apply(Commits(b))
    BY <1>1, <1>2, <1>8
  <2>2. QED
    BY <1>2, <1>3, <1>8, <2>1, CommitApplied DEF MachineOK
<1>9. CASE done = 5
  <2>1. Apply(Commits(a))
    BY <1>1, <1>2, <1>9
  <2>2. QED
    BY <1>2, <1>3, <1>9, <2>1, CommitApplied DEF MachineOK
<1>10. QED
  BY <1>2, <1>4, <1>5, <1>6, <1>7, <1>8, <1>9

LEMMA StepDangerousStructure ==
    ASSUME MachineOK, done \in Nat, Follow, NEW a \in Txns, NEW b \in Txns, a # b,
           NEW j \in Keys, NEW k \in Keys, j # k,
           oracle = DangerousStructure(a, b, j, k), DangerousStructureFollowed(a, b, j, k)
    PROVE  MachineOK' /\ DangerousStructureFollowed(a, b, j, k)'
<1> USE DEF DangerousStructureFollowed, Stage, Unmarked, NoLocks, LockedBy
<1>1. /\ Len(oracle.actions) = 7
      /\ oracle.actions[1] = Begins(a) /\ oracle.actions[2] = Begins(b)
      /\ oracle.actions[3] = Reads(a, j)
      /\ oracle.actions[4] = Reads(b, k) /\ oracle.actions[5] = Writes(a, k)
      /\ oracle.actions[6] = Writes(b, j)
      /\ oracle.actions[7] = Commits(a)
  BY DangerousStructureActions
<1>2. done \in 0 .. 6 /\ done' = done + 1 /\ Apply(oracle.actions[done + 1])
  <2>1. done < Len(oracle.actions) /\ done' = done + 1 /\ Apply(oracle.actions[done + 1])
    BY DEF Follow
  <2>2. QED
    BY <1>1, <2>1
<1>3. CASE done = 0
  <2>1. Apply(Begins(a))
    BY <1>1, <1>2, <1>3
  <2>2. QED
    BY <1>2, <1>3, <2>1, BeginApplied DEF MachineOK
<1>4. CASE done = 1
  <2>1. Apply(Begins(b))
    BY <1>1, <1>2, <1>4
  <2>2. QED
    BY <1>2, <1>4, <2>1, BeginApplied DEF MachineOK
<1>5. CASE done = 2
  <2>1. Apply(Reads(a, j))
    BY <1>1, <1>2, <1>5
  <2>2. QED
    BY <1>2, <1>5, <2>1, ReadApplied DEF MachineOK
<1>6. CASE done = 3
  <2>1. Apply(Reads(b, k))
    BY <1>1, <1>2, <1>6
  <2>2. QED
    BY <1>2, <1>6, <2>1, ReadApplied DEF MachineOK
<1>7. CASE done = 4
  <2>1. Apply(Writes(a, k))
    BY <1>1, <1>2, <1>7
  <2>2. QED
    BY <1>2, <1>7, <2>1, WriteMarks DEF MachineOK
<1>8. CASE done = 5
  <2>1. Apply(Writes(b, j))
    BY <1>1, <1>2, <1>8
  <2>2. QED
    BY <1>2, <1>8, <2>1, WriteMarks DEF MachineOK
<1>9. CASE done = 6
  <2>1. Apply(Commits(a))
    BY <1>1, <1>2, <1>9
  <2>2. QED
    BY <1>2, <1>9, <2>1, CommitRefused DEF MachineOK, Dangerous
<1>10. QED
  BY <1>2, <1>3, <1>4, <1>5, <1>6, <1>7, <1>8, <1>9

\* The two transactions of an oracle.
LEMMA Parties ==
    ASSUME NEW a \in Txns, NEW b \in Txns, a # b, NEW actions, NEW n \in Nat \ {0},
           Len(actions) = n, actions[1].txn = a,
           \A i \in 1 .. n : actions[i].txn \in {a, b},
           \E i \in 1 .. n : actions[i].txn = b
    PROVE  /\ Head(actions).txn = a
           /\ (CHOOSE t \in Txns \ {Head(actions).txn} :
                  \E i \in 1 .. Len(actions) : actions[i].txn = t) = b
<1>1. Head(actions).txn = a
  OBVIOUS
<1>2. \A t \in Txns \ {Head(actions).txn} :
         (\E i \in 1 .. Len(actions) : actions[i].txn = t) <=> t = b
  BY <1>1
<1>3. QED
  BY <1>1, <1>2

\* Each action of an oracle applies, and its transactions end as it says.
LEMMA EndsWriteWrite ==
    ASSUME MachineOK, done \in Nat, NEW a \in Txns, NEW b \in Txns, a # b,
           NEW j \in Keys,
           oracle = WriteWriteConflict(a, b, j), WriteWriteFollowed(a, b, j)
    PROVE  OracleTrue(oracle, done)
<1> USE DEF WriteWriteFollowed, Stage, Unmarked, NoLocks, LockedBy
<1>1. /\ Len(oracle.actions) = 6
      /\ oracle.actions[1] = Begins(a) /\ oracle.actions[2] = Writes(a, j)
      /\ oracle.actions[3] = Commits(a)
      /\ oracle.actions[4] = Begins(b) /\ oracle.actions[5] = Writes(b, j)
      /\ oracle.actions[6] = Commits(b)
  BY WriteWriteActions
<1>2. /\ Head(oracle.actions).txn = a
      /\ (CHOOSE t \in Txns \ {Head(oracle.actions).txn} :
             \E i \in 1 .. Len(oracle.actions) : oracle.actions[i].txn = t) = b
  BY <1>1, Parties DEF Begins, Reads, Writes, Commits
<1>3. ASSUME done < 6 PROVE Applies(oracle.actions[done + 1])
  BY <1>1, <1>3 DEF Applies, Begins, Reads, Writes, Commits
<1>4. oracle.category = "ConcurrentCommit"
  BY DEF WriteWriteConflict
<1>5. ASSUME ~(done < 6)
      PROVE  (\A t \in {a, b} : status[t] = "Committed") /\ ~outConflict[a] /\ ~inConflict[a]
  BY <1>5
<1>6. CASE done < 6
  BY <1>1, <1>3, <1>6 DEF OracleTrue
<1>7. CASE ~(done < 6)
  BY <1>1, <1>2, <1>4, <1>5, <1>7 DEF OracleTrue
<1>8. QED
  BY <1>6, <1>7

LEMMA EndsDisjointKeys ==
    ASSUME MachineOK, done \in Nat, NEW a \in Txns, NEW b \in Txns, a # b,
           NEW j \in Keys, NEW k \in Keys, j # k, NEW category \in {"WriteWriteConflict", "ConcurrentCommit"},
           oracle = DisjointKeys(category, a, b, j, k), DisjointKeysFollowed(a, b, j, k)
    PROVE  OracleTrue(oracle, done)
<1> USE DEF DisjointKeysFollowed, Stage, Unmarked, NoLocks, LockedBy
<1>1. /\ Len(oracle.actions) = 6
      /\ oracle.actions[1] = Begins(a) /\ oracle.actions[2] = Begins(b)
      /\ oracle.actions[3] = Writes(a, j)
      /\ oracle.actions[4] = Writes(b, k) /\ oracle.actions[5] = Commits(a)
      /\ oracle.actions[6] = Commits(b)
  BY DisjointKeysActions
<1>2. /\ Head(oracle.actions).txn = a
      /\ (CHOOSE t \in Txns \ {Head(oracle.actions).txn} :
             \E i \in 1 .. Len(oracle.actions) : oracle.actions[i].txn = t) = b
  BY <1>1, Parties DEF Begins, Reads, Writes, Commits
<1>3. ASSUME done < 6 PROVE Applies(oracle.actions[done + 1])
  BY <1>1, <1>3 DEF Applies, Begins, Reads, Writes, Commits
<1>4. oracle.category \notin {"DangerousStructure", "CommitWithConflict"}
  BY DEF DisjointKeys
<1>5. ASSUME ~(done < 6)
      PROVE  (\A t \in {a, b} : status[t] = "Committed") /\ ~outConflict[a] /\ ~inConflict[a]
  BY <1>5
<1>6. CASE done < 6
  BY <1>1, <1>3, <1>6 DEF OracleTrue
<1>7. CASE ~(done < 6)
  BY <1>1, <1>2, <1>4, <1>5, <1>7 DEF OracleTrue
<1>8. QED
  BY <1>6, <1>7

LEMMA EndsReadOnly ==
    ASSUME MachineOK, done \in Nat, NEW a \in Txns, NEW b \in Txns, a # b,
           NEW j \in Keys,
           oracle = ReadOnly(a, b, j), ReadOnlyFollowed(a, b, j)
    PROVE  OracleTrue(oracle, done)
<1> USE DEF ReadOnlyFollowed, Stage, Unmarked, NoLocks, LockedBy
<1>1. /\ Len(oracle.actions) = 6
      /\ oracle.actions[1] = Begins(a) /\ oracle.actions[2] = Writes(a, j)
      /\ oracle.actions[3] = Commits(a)
      /\ oracle.actions[4] = Begins(b) /\ oracle.actions[5] = Reads(b, j)
      /\ oracle.actions[6] = Commits(b)
  BY ReadOnlyActions
<1>2. /\ Head(oracle.actions).txn = a
      /\ (CHOOSE t \in Txns \ {Head(oracle.actions).txn} :
             \E i \in 1 .. Len(oracle.actions) : oracle.actions[i].txn = t) = b
  BY <1>1, Parties DEF Begins, Reads, Writes, Commits
<1>3. ASSUME done < 6 PROVE Applies(oracle.actions[done + 1])
  BY <1>1, <1>3 DEF Applies, Begins, Reads, Writes, Commits
<1>4. oracle.category = "ConcurrentCommit"
  BY DEF ReadOnly
<1>5. ASSUME ~(done < 6)
      PROVE  (\A t \in {a, b} : status[t] = "Committed") /\ ~outConflict[a] /\ ~inConflict[a]
  BY <1>5
<1>6. CASE done < 6
  BY <1>1, <1>3, <1>6 DEF OracleTrue
<1>7. CASE ~(done < 6)
  BY <1>1, <1>2, <1>4, <1>5, <1>7 DEF OracleTrue
<1>8. QED
  BY <1>6, <1>7

LEMMA EndsSingleConflictFlag ==
    ASSUME MachineOK, done \in Nat, NEW a \in Txns, NEW b \in Txns, a # b,
           NEW j \in Keys,
           oracle = SingleConflictFlag(a, b, j), SingleConflictFlagFollowed(a, b, j)
    PROVE  OracleTrue(oracle, done)
<1> USE DEF SingleConflictFlagFollowed, Stage, Unmarked, NoLocks, LockedBy
<1>1. /\ Len(oracle.actions) = 6
      /\ oracle.actions[1] = Begins(a) /\ oracle.actions[2] = Begins(b)
      /\ oracle.actions[3] = Reads(a, j)
      /\ oracle.actions[4] = Writes(b, j) /\ oracle.actions[5] = Commits(b)
      /\ oracle.actions[6] = Commits(a)
  BY SingleConflictFlagActions
<1>2. /\ Head(oracle.actions).txn = a
      /\ (CHOOSE t \in Txns \ {Head(oracle.actions).txn} :
             \E i \in 1 .. Len(oracle.actions) : oracle.actions[i].txn = t) = b
  BY <1>1, Parties DEF Begins, Reads, Writes, Commits
<1>3. ASSUME done < 6 PROVE Applies(oracle.actions[done + 1])
  BY <1>1, <1>3 DEF Applies, Begins, Reads, Writes, Commits
<1>4. oracle.category = "CommitWithConflict"
  BY DEF SingleConflictFlag
<1>5. ASSUME ~(done < 6)
      PROVE  (\A t \in {a, b} : status[t] = "Committed") /\ outConflict[a] /\ ~inConflict[a]
  BY <1>5 DEF MachineOK
<1>6. CASE done < 6
  BY <1>1, <1>3, <1>6 DEF OracleTrue
<1>7. CASE ~(done < 6)
  BY <1>1, <1>2, <1>4, <1>5, <1>7 DEF OracleTrue
<1>8. QED
  BY <1>6, <1>7

LEMMA EndsDangerousStructure ==
    ASSUME MachineOK, done \in Nat, NEW a \in Txns, NEW b \in Txns, a # b,
           NEW j \in Keys, NEW k \in Keys, j # k,
           oracle = DangerousStructure(a, b, j, k), DangerousStructureFollowed(a, b, j, k)
    PROVE  OracleTrue(oracle, done)
<1> USE DEF DangerousStructureFollowed, Stage, Unmarked, NoLocks, LockedBy
<1>1. /\ Len(oracle.actions) = 7
      /\ oracle.actions[1] = Begins(a) /\ oracle.actions[2] = Begins(b)
      /\ oracle.actions[3] = Reads(a, j)
      /\ oracle.actions[4] = Reads(b, k) /\ oracle.actions[5] = Writes(a, k)
      /\ oracle.actions[6] = Writes(b, j)
      /\ oracle.actions[7] = Commits(a)
  BY DangerousStructureActions
<1>2. /\ Head(oracle.actions).txn = a
      /\ (CHOOSE t \in Txns \ {Head(oracle.actions).txn} :
             \E i \in 1 .. Len(oracle.actions) : oracle.actions[i].txn = t) = b
  BY <1>1, Parties DEF Begins, Reads, Writes, Commits
<1>3. ASSUME done < 7 PROVE Applies(oracle.actions[done + 1])
  BY <1>1, <1>3 DEF Applies, Begins, Reads, Writes, Commits
<1>4. oracle.category = "DangerousStructure"
  BY DEF DangerousStructure
<1>5. QED
  BY <1>1, <1>2, <1>3, <1>4 DEF OracleTrue

\* An oracle is followed from the initial state.
LEMMA InitFollowed ==
    ASSUME MachineOK, done = 0, NEW a \in Txns, NEW b \in Txns, NEW j \in Keys, NEW k \in Keys,
           status[a] = "NotStarted", status[b] = "NotStarted", Unmarked, NoLocks,
           writeLock[j] = NoTxn, writeLock[k] = NoTxn, now = 0, writes = {},
           oracle \in AllOracles(a, b, j, k)
    PROVE  Followed(a, b, j, k)
<1>1. WriteWriteFollowed(a, b, j) /\ DisjointKeysFollowed(a, b, j, k) /\ ReadOnlyFollowed(a, b, j)
  BY DEF WriteWriteFollowed, DisjointKeysFollowed, ReadOnlyFollowed, Stage, LockedBy
<1>2. SingleConflictFlagFollowed(a, b, j) /\ DangerousStructureFollowed(a, b, j, k)
  BY DEF SingleConflictFlagFollowed, DangerousStructureFollowed, Stage, Unmarked, NoLocks,
     LockedBy, MachineOK
<1>3. QED
  BY <1>1, <1>2 DEF AllOracles, Followed

\* Each action is followed.
LEMMA StepFollowed ==
    ASSUME MachineOK, done \in Nat, Follow, oracle' = oracle,
           NEW a \in Txns, NEW b \in Txns, a # b, NEW j \in Keys, NEW k \in Keys, j # k,
           Followed(a, b, j, k)
    PROVE  MachineOK' /\ done' \in Nat /\ Followed(a, b, j, k)'
<1>1. done' \in Nat
  <2>1. done' = done + 1
    BY DEF Follow
  <2>2. QED
    BY <2>1
<1>2. MachineOK' /\ Followed(a, b, j, k)'
  BY StepWriteWrite, StepDisjointKeys, StepReadOnly, StepSingleConflictFlag,
     StepDangerousStructure DEF Followed
<1>3. QED
  BY <1>1, <1>2

\* A behaviour begins where its oracle does.
LEMMA InitOracles == MCInit => OracleInv
<1> SUFFICES ASSUME MCInit, program = "ssi oracle" PROVE OracleInv
  BY DEF OracleInv
<1>1. MachineOK /\ done = 0
  BY DEF MCInit, Init, MachineOK, Status
<1>2. PICK a \in Txns, b \in Txns, j \in Keys, k \in Keys :
         a # b /\ j # k /\ oracle \in AllOracles(a, b, j, k)
  <2>1. oracle \in Oracles
    BY DEF MCInit
  <2>2. PICK q \in Txns \X Txns \X Keys \X Keys :
           q[1] # q[2] /\ q[3] # q[4] /\ oracle \in AllOracles(q[1], q[2], q[3], q[4])
    BY <2>1 DEF Oracles
  <2>3. q[1] \in Txns /\ q[2] \in Txns /\ q[3] \in Keys /\ q[4] \in Keys
    OBVIOUS
  <2>4. QED
    BY <2>2, <2>3
<1>3. /\ status[a] = "NotStarted" /\ status[b] = "NotStarted" /\ Unmarked /\ NoLocks
      /\ writeLock[j] = NoTxn /\ writeLock[k] = NoTxn
      /\ now = 0 /\ writes = {}
  BY <1>2 DEF MCInit, Init, Unmarked, NoLocks
<1>4. Followed(a, b, j, k)
  BY <1>1, <1>2, <1>3, InitFollowed
<1>5. QED
  BY <1>1, <1>2, <1>4 DEF OracleInv

\* Only Follow moves the machine along an oracle.
LEMMA StepOracles ==
    OracleInv /\ [MCNext]_<<program, oracle, done, vars, electionVars, commitVars>> => OracleInv'
<1> SUFFICES ASSUME OracleInv, [MCNext]_<<program, oracle, done, vars, electionVars, commitVars>>,
                    program = "ssi oracle"
             PROVE  OracleInv'
  BY DEF OracleInv, MCNext
<1>1. MachineOK /\ done \in Nat /\ program' = program /\ oracle' = oracle
  BY DEF OracleInv, MCNext
<1>2. PICK a \in Txns, b \in Txns, j \in Keys, k \in Keys :
         a # b /\ j # k /\ Followed(a, b, j, k)
  BY DEF OracleInv
<1>3. CASE UNCHANGED <<done, vars>>
  <2>1. UNCHANGED <<done, now, writes, status, snapshot, writeLock, siread, inConflict, outConflict>>
    BY <1>3 DEF vars, logVars, flagVars
  <2>2. MachineOK'
    BY <1>1, <2>1 DEF MachineOK
  <2>3. /\ WriteWriteFollowed(a, b, j)' <=> WriteWriteFollowed(a, b, j)
        /\ DisjointKeysFollowed(a, b, j, k)' <=> DisjointKeysFollowed(a, b, j, k)
        /\ ReadOnlyFollowed(a, b, j)' <=> ReadOnlyFollowed(a, b, j)
    BY <2>1 DEF WriteWriteFollowed, DisjointKeysFollowed, ReadOnlyFollowed, Stage, Unmarked,
       NoLocks, LockedBy
  <2>4. /\ SingleConflictFlagFollowed(a, b, j)' <=> SingleConflictFlagFollowed(a, b, j)
        /\ DangerousStructureFollowed(a, b, j, k)' <=> DangerousStructureFollowed(a, b, j, k)
    BY <2>1 DEF SingleConflictFlagFollowed, DangerousStructureFollowed, Stage, LockedBy
  <2>5. Followed(a, b, j, k)'
    BY <1>1, <1>2, <2>3, <2>4 DEF Followed
  <2>6. QED
    BY <1>1, <1>2, <2>1, <2>2, <2>5 DEF OracleInv
<1>4. CASE Follow
  <2>1. MachineOK' /\ done' \in Nat /\ Followed(a, b, j, k)'
    BY <1>1, <1>2, <1>4, StepFollowed
  <2>2. QED
    BY <1>2, <2>1 DEF OracleInv
<1>5. QED
  BY <1>3, <1>4 DEF MCNext

\* Along every oracle the machine is as OracleInv says, for any transactions and
\* keys.
THEOREM OraclesFollowed == MCSpec => []OracleInv
<1>1. MCInit => OracleInv
  BY InitOracles
<1>2. OracleInv /\ [MCNext]_<<program, oracle, done, vars, electionVars, commitVars>> => OracleInv'
  BY StepOracles
<1>3. QED
  BY <1>1, <1>2, PTL DEF MCSpec

\* Where an oracle is followed, it is true.
LEMMA OraclesEnd == OracleInv /\ program = "ssi oracle" => OracleTrue(oracle, done)
<1> SUFFICES ASSUME OracleInv, program = "ssi oracle" PROVE OracleTrue(oracle, done)
  OBVIOUS
<1>1. PICK a \in Txns, b \in Txns, j \in Keys, k \in Keys :
         a # b /\ j # k /\ Followed(a, b, j, k)
  BY DEF OracleInv
<1>2. MachineOK /\ done \in Nat
  BY DEF OracleInv
<1>3. QED
  BY <1>1, <1>2, EndsWriteWrite, EndsDisjointKeys, EndsReadOnly, EndsSingleConflictFlag,
     EndsDangerousStructure DEF Followed

-----------------------------------------------------------------------------
(* Two-phase commit, whose theorems are those of TwoPhaseCommitProofs.        *)

TP == INSTANCE TwoPhaseCommitProofs WITH run <- tRun

\* The two instances are of the same definitions.
LEMMA SameSeed == (Transaction!Init <=> TP!Init) /\ (Transaction!Next <=> TP!Next)
<1>1. Transaction!Init <=> TP!Init
  BY DEF Transaction!Init, TP!Init, Transaction!Idle, TP!Idle, Transaction!Nobody, TP!Nobody,
       Transaction!RmIds, TP!RmIds, Transaction!TxnIds, TP!TxnIds
<1>2. Transaction!Next <=> TP!Next
  BY DEF Transaction!Next, TP!Next, Transaction!Call, TP!Call, Transaction!Begin, TP!Begin,
       Transaction!Begun, TP!Begun, Transaction!TmPrepare, TP!TmPrepare, Transaction!TmCommit,
       TP!TmCommit, Transaction!TmAbort, TP!TmAbort, Transaction!RmPrepare, TP!RmPrepare,
       Transaction!RmChooseToAbort, TP!RmChooseToAbort, Transaction!RmRcvCommit,
       TP!RmRcvCommit, Transaction!RmRcvAbort, TP!RmRcvAbort, Transaction!Start, TP!Start,
       Transaction!RunStep, TP!RunStep, Transaction!Prepare, TP!Prepare, Transaction!Vote,
       TP!Vote, Transaction!Decide, TP!Decide, Transaction!Deliver, TP!Deliver,
       Transaction!AfterVote, TP!AfterVote, Transaction!AfterDelivery, TP!AfterDelivery,
       Transaction!Goes, TP!Goes, Transaction!Refused, TP!Refused, Transaction!Turn, TP!Turn,
       Transaction!protocolVars, TP!protocolVars, Transaction!Nobody, TP!Nobody,
       Transaction!RmIds, TP!RmIds, Transaction!TxnIds, TP!TxnIds
<1>3. QED
  BY <1>1, <1>2

\* Nor do they differ in the evolved version.
LEMMA SameEvolved == Transaction!NextLF <=> TP!NextLF
BY DEF Transaction!NextLF, TP!NextLF, Transaction!CallLF, TP!CallLF, Transaction!BeginLF,
       TP!BeginLF, Transaction!Begin, TP!Begin, Transaction!Begun, TP!Begun,
       Transaction!TmPrepareLF, TP!TmPrepareLF, Transaction!TmPrepare, TP!TmPrepare,
       Transaction!TmCommitLF, TP!TmCommitLF, Transaction!TmCommit, TP!TmCommit,
       Transaction!TmAbortLF, TP!TmAbortLF, Transaction!TmAbort, TP!TmAbort,
       Transaction!RmPrepareLF, TP!RmPrepareLF, Transaction!RmChooseToAbortLF,
       TP!RmChooseToAbortLF, Transaction!RmChooseToAbort, TP!RmChooseToAbort,
       Transaction!CountLF, TP!CountLF, Transaction!RmRcvCommitLF, TP!RmRcvCommitLF,
       Transaction!RmRcvAbortLF, TP!RmRcvAbortLF, Transaction!Start, TP!Start,
       Transaction!PrepareLF, TP!PrepareLF, Transaction!VoteLF, TP!VoteLF,
       Transaction!CountVote, TP!CountVote, Transaction!DecideLF, TP!DecideLF,
       Transaction!DeliverLF, TP!DeliverLF, Transaction!AfterVote, TP!AfterVote,
       Transaction!AfterDelivery, TP!AfterDelivery, Transaction!Goes, TP!Goes,
       Transaction!Refused, TP!Refused, Transaction!Turn, TP!Turn, Transaction!protocolVars,
       TP!protocolVars, Transaction!Nobody, TP!Nobody, Transaction!RmIds, TP!RmIds,
       Transaction!TxnIds, TP!TxnIds

\* And they mean the same by a true answer.
LEMMA SameAnswers ==
    /\ Transaction!AnswersTrue <=> TP!AnswersTrue
    /\ Transaction!CommitAnswersTrue <=> TP!CommitAnswersTrue
BY DEF Transaction!AnswersTrue, TP!AnswersTrue, Transaction!CommitAnswersTrue,
       TP!CommitAnswersTrue, Transaction!RmIds, TP!RmIds

\* A behaviour whose program is a two-phase commit is one of that program.
LEMMA SeedAlone == MCSpec /\ program = "commit" => TP!Spec /\ [](program = "commit")
<1>1. MCInit => TP!Init
  BY SameSeed DEF MCInit
<1>2. program = "commit" /\ [MCNext]_<<program, oracle, done, vars, electionVars, commitVars>>
        => (program = "commit")' /\ [TP!Next]_(TP!vars)
  BY SameSeed DEF MCNext, commitVars, TP!vars, TP!protocolVars
<1>3. QED
  BY <1>1, <1>2, PTL DEF MCSpec, TP!Spec

LEMMA EvolvedAlone == MCSpec /\ program = "commit v1" => TP!SpecLF /\ [](program = "commit v1")
<1>1. MCInit => TP!Init
  BY SameSeed DEF MCInit
<1>2. program = "commit v1" /\ [MCNext]_<<program, oracle, done, vars, electionVars, commitVars>>
        => (program = "commit v1")' /\ [TP!NextLF]_(TP!vars)
  BY SameEvolved DEF MCNext, commitVars, TP!vars, TP!protocolVars
<1>3. QED
  BY <1>1, <1>2, PTL DEF MCSpec, TP!SpecLF

\* A program is chosen once.
LEMMA OtherPrograms ==
    /\ MCSpec /\ ~(program = "commit") => [](~(program = "commit"))
    /\ MCSpec /\ ~(program = "commit v1") => [](~(program = "commit v1"))
<1>1. [MCNext]_<<program, oracle, done, vars, electionVars, commitVars>> => program' = program
  BY DEF MCNext
<1>2. ~(program = "commit") /\ [MCNext]_<<program, oracle, done, vars, electionVars, commitVars>>
        => (~(program = "commit"))'
  BY <1>1
<1>3. ~(program = "commit v1") /\ [MCNext]_<<program, oracle, done, vars, electionVars, commitVars>>
        => (~(program = "commit v1"))'
  BY <1>1
<1>4. QED
  BY <1>2, <1>3, PTL DEF MCSpec

\* What run_commit and run_abort answer is what became of the transaction (in the
\* evolved version what run_commit answers), and each pre-built oracle can be applied
\* to its end and ends as it says: for any participants, clients, transactions and
\* keys.
THEOREM AnswersAreTrue == MCSpec => []AnswersTrue
<1>1. TP!Spec => []TP!AnswersTrue
  BY TP!AnswersAreTrue, RMsAssumption, MaxTxnsAssumption DEF Nobody, TP!Nobody
<1>2. TP!SpecLF => []TP!CommitAnswersTrue
  BY TP!CommitAnswersAreTrue, RMsAssumption, MaxTxnsAssumption DEF Nobody, TP!Nobody
<1>3. /\ OracleInv
      /\ ~(program = "commit") \/ TP!AnswersTrue
      /\ ~(program = "commit v1") \/ TP!CommitAnswersTrue
      => AnswersTrue
  BY OraclesEnd, SameAnswers DEF AnswersTrue
<1>4. MCSpec => []OracleInv
  BY OraclesFollowed
<1>5. QED
  BY <1>1, <1>2, <1>3, <1>4, SeedAlone, EvolvedAlone, OtherPrograms, PTL
=============================================================================
