------------------------ MODULE RaftConsensusProofs -------------------------
(***************************************************************************)
(* Theorems of RaftConsensus for any nodes, terms and proposals, whatever  *)
(* the network does.  There is one leader in a term: votes are read off    *)
(* the messages, which only grow: a granted vote, and for a node's vote    *)
(* for itself the request it sent.  And logs match: the entries of a term  *)
(* come from its one leader, and the logs and the AppendEntries messages   *)
(* are stretches of what it wrote.  What is committed is applied once.     *)
(* RaftConsensusV2, the evolved node, follows after the seed.              *)
(***************************************************************************)
EXTENDS MCRaftConsensus, FiniteSetTheorems, SequenceTheorems, WellFoundedInduction, TLAPS

USE NodesAssumption

\* The part of the type invariant that elections need.
ElectionTypeOK ==
    /\ state \in [Nodes -> {"Follower", "Candidate", "Leader"}]
    /\ currentTerm \in [Nodes -> Nat]
    /\ votedFor \in [Nodes -> Nodes \cup {None}]
    /\ votesReceived \in [Nodes -> SUBSET Nodes]
    /\ \A m \in msgs : m.from \in Nodes /\ m.to \in Nodes /\ m.from # m.to /\ m.term \in Nat

Granted(m, v, c, t) == m.kind = "vote" /\ m.granted /\ m.from = v /\ m.to = c /\ m.term = t

Candidacy(m, c, t) == m.kind = "request" /\ m.from = c /\ m.term = t

\* v has voted for c in term t.
Voted(v, c, t) ==
    \/ \E m \in msgs : Granted(m, v, c, t)
    \/ v = c /\ \E m \in msgs : Candidacy(m, c, t)

\* A vote binds its voter as long as the term lasts.
VotesKept ==
    \A v, c \in Nodes, t \in Nat :
        Voted(v, c, t) =>
            currentTerm[v] > t \/ (currentTerm[v] = t /\ votedFor[v] = c)

OneVote ==
    \A v, c, d \in Nodes, t \in Nat : Voted(v, c, t) /\ Voted(v, d, t) => c = d

\* Candidates and leaders count votes they were given.
VotesReal ==
    \A c \in Nodes : state[c] \in {"Candidate", "Leader"} =>
        \A v \in votesReceived[c] : Voted(v, c, currentTerm[c])

LeadersElected == \A c \in Nodes : state[c] = "Leader" => IsQuorum(votesReceived[c])

ElectedIn(c, t) == \E Q \in SUBSET Nodes : IsQuorum(Q) /\ \A v \in Q : Voted(v, c, t)

\* Whoever sends AppendEntries was elected in their term.
AppendsElected ==
    \A m \in msgs : m.kind = "append" => ElectedIn(m.from, m.term)

ElectionInv ==
    /\ ElectionTypeOK
    /\ VotesKept
    /\ OneVote
    /\ VotesReal
    /\ LeadersElected
    /\ AppendsElected

-----------------------------------------------------------------------------
\* Two quorums have a node in common.
LEMMA QuorumsMeet ==
    ASSUME NEW P \in SUBSET Nodes, NEW Q \in SUBSET Nodes, IsQuorum(P), IsQuorum(Q)
    PROVE  P \cap Q # {}
<1>1. IsFiniteSet(P) /\ IsFiniteSet(Q) /\ IsFiniteSet(P \cup Q)
  BY FS_Subset, FS_Union
<1>2. Cardinality(P \cup Q) <= Cardinality(Nodes)
  BY FS_Subset, P \cup Q \subseteq Nodes
<1>3. Cardinality(P \cup Q) = Cardinality(P) + Cardinality(Q) - Cardinality(P \cap Q)
  BY <1>1, FS_Union
<1>4. /\ Cardinality(P) \in Nat /\ Cardinality(Q) \in Nat /\ Cardinality(Nodes) \in Nat
      /\ Cardinality(P \cap Q) \in Nat
  BY <1>1, FS_CardinalityType, FS_Intersection
<1>5. Cardinality(P \cap Q) # 0
  BY <1>2, <1>3, <1>4 DEF IsQuorum
<1>6. QED
  BY <1>5, FS_EmptySet

\* Steps that send no vote and no request change no vote.
LEMMA SameVotes ==
    ASSUME NEW S, msgs' = msgs \cup S,
           \A m \in S : m.kind # "request" /\ ~(m.kind = "vote" /\ m.granted)
    PROVE  \A v, c, t : Voted(v, c, t)' <=> Voted(v, c, t)
BY DEF Voted, Granted, Candidacy

\* ElectionSafety follows: two leaders of a term would share a voter.
LEMMA InvImpliesSafety == ElectionInv => ElectionSafety
<1> SUFFICES ASSUME ElectionInv,
                    NEW a \in msgs, NEW b \in msgs, a.kind = "append", b.kind = "append",
                    a.term = b.term
             PROVE  a.from = b.from
  BY DEF ElectionSafety
<1>1. a.from \in Nodes /\ b.from \in Nodes /\ a.term \in Nat
  BY DEF ElectionInv, ElectionTypeOK
<1>2. PICK P \in SUBSET Nodes : IsQuorum(P) /\ \A v \in P : Voted(v, a.from, a.term)
  BY DEF ElectionInv, AppendsElected, ElectedIn
<1>3. PICK Q \in SUBSET Nodes : IsQuorum(Q) /\ \A v \in Q : Voted(v, b.from, a.term)
  BY DEF ElectionInv, AppendsElected, ElectedIn
<1>4. PICK v \in P \cap Q : TRUE
  BY <1>2, <1>3, QuorumsMeet
<1>5. QED
  BY <1>1, <1>2, <1>3, <1>4 DEF ElectionInv, OneVote

-----------------------------------------------------------------------------
\* Whom an AppendEntries is from and to, and its term.
LEMMA AppendsFields ==
    ASSUME NEW n \in Nodes, NEW l, NEW next, NEW m \in AppendEntries(n, l, next)
    PROVE  /\ m.kind = "append" /\ m.from = n /\ m.term = currentTerm[n]
           /\ m.to \in Nodes /\ m.to # n
BY DEF AppendEntries, Peers

\* A step that leaves the election alone and sends only answers and, as a leader,
\* AppendEntries of its term.
LEMMA PassiveKeeps ==
    ASSUME ElectionInv, UNCHANGED electionVars, NEW S, msgs' = msgs \cup S,
           \A m \in S :
              /\ m.from \in Nodes /\ m.to \in Nodes /\ m.from # m.to
              /\ m.term = currentTerm[m.from]
              /\ m.kind = "appended" \/ (m.kind = "append" /\ state[m.from] = "Leader")
    PROVE  ElectionInv'
<1>1. \A v, c, t : Voted(v, c, t)' <=> Voted(v, c, t)
  BY SameVotes
<1>2. ElectionTypeOK'
  BY DEF ElectionInv, ElectionTypeOK, electionVars
<1>3. VotesKept' /\ OneVote' /\ VotesReal' /\ LeadersElected'
  BY <1>1 DEF ElectionInv, VotesKept, OneVote, VotesReal, LeadersElected, electionVars
<1>4. AppendsElected'
  <2> SUFFICES ASSUME NEW m \in msgs', m.kind = "append"
               PROVE  \E Q \in SUBSET Nodes : IsQuorum(Q) /\ \A v \in Q : Voted(v, m.from, m.term)
    BY <1>1 DEF AppendsElected, ElectedIn
  <2>1. CASE m \in msgs
    BY <2>1 DEF ElectionInv, AppendsElected, ElectedIn
  <2>2. CASE m \in S
    <3>1. state[m.from] = "Leader" /\ m.from \in Nodes /\ m.term = currentTerm[m.from]
      BY <2>2
    <3>2. votesReceived[m.from] \in SUBSET Nodes
      BY <3>1 DEF ElectionInv, ElectionTypeOK
    <3>3. QED
      BY <3>1, <3>2 DEF ElectionInv, VotesReal, LeadersElected
  <2>3. QED
    BY <2>1, <2>2
<1>5. QED
  BY <1>2, <1>3, <1>4 DEF ElectionInv

\* A step that takes n to a higher term without a vote, or just makes it a
\* follower, and sends nothing that others count.
LEMMA FollowerKeeps ==
    ASSUME ElectionInv, NEW n \in Nodes, NEW term \in Nat, NEW S, msgs' = msgs \cup S,
           \A m \in S : /\ m.kind = "appended" /\ m.from = n
                         /\ m.to \in Nodes /\ m.to # n /\ m.term \in Nat,
           currentTerm' = [currentTerm EXCEPT ![n] = term],
           state' = [state EXCEPT ![n] = "Follower"],
           \/ term > currentTerm[n] /\ votedFor' = [votedFor EXCEPT ![n] = None]
           \/ term = currentTerm[n] /\ votedFor' = [votedFor EXCEPT ![n] = @],
           NEW votes \in SUBSET Nodes,
           votesReceived' = [votesReceived EXCEPT ![n] = votes]
    PROVE  ElectionInv'
<1> USE DEF ElectionInv, ElectionTypeOK
<1>1. \A v, c, t : Voted(v, c, t)' <=> Voted(v, c, t)
  BY SameVotes
<1>2. ElectionTypeOK'
  OBVIOUS
<1>3. VotesKept'
  BY <1>1 DEF VotesKept
<1>4. OneVote'
  BY <1>1 DEF OneVote
<1>5. VotesReal'
  BY <1>1 DEF VotesReal
<1>6. LeadersElected'
  BY DEF LeadersElected
<1>7. AppendsElected'
  BY <1>1 DEF AppendsElected, ElectedIn
<1>8. QED
  BY <1>2, <1>3, <1>4, <1>5, <1>6, <1>7

\* A vote cast in a term in which the voter had none: what holds of the votes
\* still holds with it.
LEMMA CastKeeps ==
    ASSUME ElectionInv, NEW n \in Nodes, NEW d \in Nodes, NEW term \in Nat,
           currentTerm' = [currentTerm EXCEPT ![n] = term],
           votedFor' = [votedFor EXCEPT ![n] = d],
           \/ term > currentTerm[n]
           \/ term = currentTerm[n] /\ votedFor[n] \in {None, d},
           \A v, c, t : Voted(v, c, t)' <=> Voted(v, c, t) \/ (v = n /\ c = d /\ t = term)
    PROVE  VotesKept' /\ OneVote'
<1> USE DEF ElectionInv, ElectionTypeOK
<1>1. VotesKept'
  <2> SUFFICES ASSUME NEW v \in Nodes, NEW c \in Nodes, NEW t \in Nat, Voted(v, c, t)'
               PROVE  currentTerm'[v] > t \/ (currentTerm'[v] = t /\ votedFor'[v] = c)
    BY DEF VotesKept
  <2>1. CASE v = n /\ c = d /\ t = term
    BY <2>1
  <2>2. CASE Voted(v, c, t)
    <3>1. currentTerm[v] > t \/ (currentTerm[v] = t /\ votedFor[v] = c)
      BY <2>2 DEF VotesKept
    <3>2. QED
      BY <3>1
  <2>3. QED
    BY <2>1, <2>2
<1>2. \A c \in Nodes : Voted(n, c, term) => c = d
  BY DEF VotesKept
<1>3. OneVote'
  BY <1>2 DEF OneVote
<1>4. QED
  BY <1>1, <1>3

\* start_election: a new term, and the vote for oneself.
LEMMA TimeoutKeeps ==
    ASSUME ElectionInv, NEW n \in Nodes, Timeout(n)
    PROVE  ElectionInv'
<1> USE DEF ElectionInv, ElectionTypeOK
<1> DEFINE S == {[kind |-> "request", from |-> n, to |-> p, term |-> currentTerm[n] + 1,
                  lastIndex |-> Len(log[n]), lastTerm |-> LastTerm(log[n])] : p \in Peers(n)}
<1>1. msgs' = msgs \cup S
  BY DEF Timeout
<1>2. \A m \in S : m.kind = "request" /\ m.from = n /\ m.to \in Nodes /\ m.to # n
                   /\ m.term = currentTerm[n] + 1
  BY DEF Peers
<1>3. S # {}
  <2>1. PICK p \in Nodes : p # n
    OBVIOUS
  <2> DEFINE r == [kind |-> "request", from |-> n, to |-> p, term |-> currentTerm[n] + 1,
                   lastIndex |-> Len(log[n]), lastTerm |-> LastTerm(log[n])]
  <2>2. r \in S
    BY <2>1 DEF Peers
  <2> HIDE DEF r, S
  <2>3. QED
    BY <2>2
<1>4. \A v, c, t : Voted(v, c, t)' <=>
         Voted(v, c, t) \/ (v = n /\ c = n /\ t = currentTerm[n] + 1)
  <2> HIDE DEF S
  <2>1. QED
    BY <1>1, <1>2, <1>3 DEF Voted, Granted, Candidacy
<1>5. /\ currentTerm' = [currentTerm EXCEPT ![n] = currentTerm[n] + 1]
      /\ votedFor' = [votedFor EXCEPT ![n] = n]
      /\ state' = [state EXCEPT ![n] = "Candidate"]
      /\ votesReceived' = [votesReceived EXCEPT ![n] = {n}]
  BY DEF Timeout
<1>6. currentTerm[n] + 1 \in Nat
  OBVIOUS
<1> HIDE DEF S
<1>7. ElectionTypeOK'
  BY <1>1, <1>2, <1>5, <1>6
<1>8. VotesKept' /\ OneVote'
  <2> HIDE DEF ElectionInv
  <2>1. currentTerm[n] + 1 > currentTerm[n]
    BY DEF ElectionInv
  <2>2. QED
    BY <1>4, <1>5, <1>6, <2>1, CastKeeps
<1>9. VotesReal'
  BY <1>4, <1>5 DEF VotesReal
<1>10. LeadersElected'
  BY <1>5 DEF LeadersElected
<1>11. AppendsElected'
  BY <1>1, <1>2, <1>4 DEF AppendsElected, ElectedIn
<1>12. QED
  BY <1>7, <1>8, <1>9, <1>10, <1>11

\* handle_request_vote: at most one vote in a term.
LEMMA RequestVoteKeeps ==
    ASSUME ElectionInv, NEW n \in Nodes, NEW m \in msgs, m.to = n, HandleRequestVote(n, m)
    PROVE  ElectionInv'
<1> USE DEF ElectionInv, ElectionTypeOK
<1> DEFINE term == IF Higher(n, m) THEN m.term ELSE currentTerm[n]
           r == [kind |-> "vote", from |-> n, to |-> m.from, term |-> term,
                 granted |-> MayVote(n, m)]
<1>1. /\ m.from \in Nodes /\ m.from # n /\ m.term \in Nat /\ currentTerm[n] \in Nat
      /\ term \in Nat /\ term >= currentTerm[n]
  BY DEF Higher
<1>2. /\ currentTerm' = [currentTerm EXCEPT ![n] = term]
      /\ msgs' = msgs \cup {r}
  BY DEF HandleRequestVote
<1>3. /\ state' = [state EXCEPT ![n] = IF Higher(n, m) THEN "Follower" ELSE @]
      /\ votesReceived' = [votesReceived EXCEPT ![n] = IF Higher(n, m) THEN {} ELSE @]
      /\ votedFor' = [votedFor EXCEPT ![n] = IF MayVote(n, m) THEN m.from
                                             ELSE IF Higher(n, m) THEN None ELSE @]
  BY DEF HandleRequestVote
<1>4. /\ r.kind = "vote" /\ r.from = n /\ r.to = m.from /\ r.term = term
      /\ r.granted = MayVote(n, m)
  OBVIOUS
<1>5. Higher(n, m) <=> term > currentTerm[n]
  BY <1>1 DEF Higher
<1>6. MayVote(n, m) => /\ m.term = term
                       /\ term > currentTerm[n] \/ votedFor[n] \in {None, m.from}
  BY <1>1 DEF MayVote, Higher
<1> HIDE DEF r, term
<1>7. ElectionTypeOK'
  BY <1>1, <1>2, <1>3, <1>4
<1>8. \A v, c, t : Voted(v, c, t)' <=>
         Voted(v, c, t) \/ (MayVote(n, m) /\ v = n /\ c = m.from /\ t = term)
  BY <1>2, <1>4 DEF Voted, Granted, Candidacy
<1>9. VotesKept' /\ OneVote'
  <2>1. CASE MayVote(n, m)
    <3>1. votedFor' = [votedFor EXCEPT ![n] = m.from]
      BY <1>3, <2>1
    <3>2. \A v, c, t : Voted(v, c, t)' <=> Voted(v, c, t) \/ (v = n /\ c = m.from /\ t = term)
      BY <1>8, <2>1
    <3>3. term > currentTerm[n] \/ (term = currentTerm[n] /\ votedFor[n] \in {None, m.from})
      BY <1>1, <1>6, <2>1
    <3>4. QED
      BY <1>1, <1>2, <3>1, <3>2, <3>3, CastKeeps
  <2>2. CASE ~MayVote(n, m)
    <3>1. \A v, c, t : Voted(v, c, t)' <=> Voted(v, c, t)
      BY <1>8, <2>2
    <3>2. VotesKept'
      BY <1>1, <1>2, <1>3, <1>5, <2>2, <3>1 DEF VotesKept
    <3>3. OneVote'
      BY <3>1 DEF OneVote
    <3>4. QED
      BY <3>2, <3>3
  <2>3. QED
    BY <2>1, <2>2
<1>10. VotesReal'
  BY <1>1, <1>2, <1>3, <1>5, <1>8 DEF VotesReal
<1>11. LeadersElected'
  BY <1>3 DEF LeadersElected
<1>12. AppendsElected'
  BY <1>2, <1>4, <1>8 DEF AppendsElected, ElectedIn
<1>13. QED
  BY <1>7, <1>9, <1>10, <1>11, <1>12

\* handle_vote_response: a vote counted, and perhaps the lead.
LEMMA VoteResponseKeeps ==
    ASSUME ElectionInv, NEW n \in Nodes, NEW m \in msgs, m.to = n, HandleVoteResponse(n, m)
    PROVE  ElectionInv'
<1> USE DEF ElectionInv, ElectionTypeOK
<1> DEFINE votes == votesReceived[n] \cup (IF m.granted THEN {m.from} ELSE {})
<1>1. m.from \in Nodes /\ votes \in SUBSET Nodes /\ n \in Nodes
  OBVIOUS
<1>2. \A v \in votes : Voted(v, n, currentTerm[n])
  <2>1. \A v \in votesReceived[n] : Voted(v, n, currentTerm[n])
    BY DEF HandleVoteResponse, VotesReal
  <2>2. m.granted => Voted(m.from, n, currentTerm[n])
    BY DEF HandleVoteResponse, Voted, Granted
  <2>3. QED
    BY <2>1, <2>2
<1>3. /\ UNCHANGED <<currentTerm, votedFor>>
      /\ votesReceived' = [votesReceived EXCEPT ![n] = votes]
      /\ state[n] = "Candidate"
  BY DEF HandleVoteResponse
<1>4. PICK S : /\ msgs' = msgs \cup S
               /\ \A x \in S : /\ x.kind = "append" /\ x.from = n /\ x.to \in Nodes
                               /\ x.to # n /\ x.term = currentTerm[n]
               /\ \/ S = {} /\ state' = state
                  \/ IsQuorum(votes) /\ state' = [state EXCEPT ![n] = "Leader"]
  <2> DEFINE next == [p \in Nodes |-> IF p = n THEN nextIndex[n][n] ELSE Len(log[n]) + 1]
             A == AppendEntries(n, log[n], next)
  <2>1. CASE IsQuorum(votes)
    <3>1. /\ msgs' = msgs \cup A
          /\ state' = [state EXCEPT ![n] = "Leader"]
      BY <2>1 DEF HandleVoteResponse
    <3>2. \A x \in A : /\ x.kind = "append" /\ x.from = n /\ x.to \in Nodes
                       /\ x.to # n /\ x.term = currentTerm[n]
      <4> HIDE DEF next
      <4>1. QED
        BY AppendsFields
    <3> HIDE DEF A, votes
    <3>3. QED
      BY <2>1, <3>1, <3>2
  <2>2. CASE ~IsQuorum(votes)
    BY <2>2 DEF HandleVoteResponse
  <2>3. QED
    BY <2>1, <2>2
<1>5. \A v, c, t : Voted(v, c, t)' <=> Voted(v, c, t)
  BY <1>4, SameVotes
<1> HIDE DEF votes
<1>6. ElectionTypeOK'
  BY <1>1, <1>3, <1>4
<1>7. VotesKept' /\ OneVote'
  BY <1>3, <1>5 DEF VotesKept, OneVote
<1>8. VotesReal'
  BY <1>2, <1>3, <1>4, <1>5 DEF VotesReal
<1>9. LeadersElected'
  BY <1>3, <1>4 DEF LeadersElected
<1>10. AppendsElected'
  BY <1>1, <1>2, <1>4, <1>5 DEF AppendsElected, ElectedIn
<1>11. QED
  BY <1>6, <1>7, <1>8, <1>9, <1>10

\* handle_vote_response and handle_append_entries_response of a higher term.
LEMMA StepDownKeeps ==
    ASSUME ElectionInv, NEW n \in Nodes, NEW m \in msgs, StepDown(n, m)
    PROVE  ElectionInv'
<1>1. m.term \in Nat /\ m.term > currentTerm[n]
  BY DEF ElectionInv, ElectionTypeOK, StepDown, Higher
<1> PICK S : S = {}
  OBVIOUS
<1>2. msgs' = msgs \cup S
  BY DEF StepDown
<1>3. /\ currentTerm' = [currentTerm EXCEPT ![n] = m.term]
      /\ state' = [state EXCEPT ![n] = "Follower"]
      /\ votedFor' = [votedFor EXCEPT ![n] = None]
      /\ votesReceived' = [votesReceived EXCEPT ![n] = {}]
  BY DEF StepDown
<1>4. \A x \in S : /\ x.kind = "appended" /\ x.from = n
                   /\ x.to \in Nodes /\ x.to # n /\ x.term \in Nat
  OBVIOUS
<1>5. QED
  BY <1>1, <1>2, <1>3, <1>4, FollowerKeeps

\* handle_append_entries past the check for a stale term, whatever it answers.
LEMMA FollowKeeps ==
    ASSUME ElectionInv, NEW n \in Nodes, NEW m \in msgs, m.to = n, Follow(n, m),
           NEW success, NEW match, msgs' = msgs \cup {Answer(n, m, m.term, success, match)}
    PROVE  ElectionInv'
<1> DEFINE S == {Answer(n, m, m.term, success, match)}
           votes == IF Higher(n, m) THEN {} ELSE votesReceived[n]
<1>1. /\ m.term \in Nat /\ currentTerm[n] \in Nat /\ m.from \in Nodes /\ m.from # n
      /\ votes \in SUBSET Nodes
  BY DEF ElectionInv, ElectionTypeOK
<1>2. \A x \in S : /\ x.kind = "appended" /\ x.from = n
                    /\ x.to \in Nodes /\ x.to # n /\ x.term \in Nat
  BY <1>1 DEF Answer
<1>3. /\ currentTerm' = [currentTerm EXCEPT ![n] = m.term]
      /\ state' = [state EXCEPT ![n] = "Follower"]
      /\ votesReceived' = [votesReceived EXCEPT ![n] = votes]
  BY DEF Follow
<1>4. \/ m.term > currentTerm[n] /\ votedFor' = [votedFor EXCEPT ![n] = None]
      \/ m.term = currentTerm[n] /\ votedFor' = [votedFor EXCEPT ![n] = @]
  <2>1. CASE m.term > currentTerm[n]
    BY <2>1 DEF Follow, Higher
  <2>2. CASE m.term = currentTerm[n]
    <3>1. ~Higher(n, m)
      BY <1>1, <2>2 DEF Higher
    <3>2. QED
      BY <2>2, <3>1 DEF Follow
  <2>3. QED
    BY <1>1, <2>1, <2>2 DEF Follow
<1> HIDE DEF S, votes
<1>5. msgs' = msgs \cup S
  BY DEF S
<1>6. QED
  BY <1>1, <1>2, <1>3, <1>4, <1>5, FollowerKeeps

\* Sending AppendEntries as the leader, or nothing.
LEMMA LeaderKeeps ==
    ASSUME ElectionInv, UNCHANGED electionVars, NEW n \in Nodes, state[n] = "Leader",
           NEW l, NEW next,
           \/ msgs' = msgs
           \/ msgs' = msgs \cup AppendEntries(n, l, next)
    PROVE  ElectionInv'
<1> DEFINE A == AppendEntries(n, l, next)
<1>1. \A x \in A : /\ x.from = n /\ x.to \in Nodes /\ x.to # n
                   /\ x.term = currentTerm[n] /\ x.kind = "append"
  BY AppendsFields
<1> HIDE DEF A
<1>2. PICK S \in {{}, A} : msgs' = msgs \cup S
  BY DEF A
<1>3. \A x \in S : /\ x.from \in Nodes /\ x.to \in Nodes /\ x.from # x.to
                   /\ x.term = currentTerm[x.from]
                   /\ x.kind = "appended" \/ (x.kind = "append" /\ state[x.from] = "Leader")
  BY <1>1, <1>2
<1>4. QED
  BY <1>2, <1>3, PassiveKeeps

\* handle_append_entries of an older term: an answer in the current one.
LEMMA StaleKeeps ==
    ASSUME ElectionInv, NEW n \in Nodes, NEW m \in msgs, m.to = n, AppendStale(n, m)
    PROVE  ElectionInv'
<1> DEFINE S == {Answer(n, m, currentTerm[n], FALSE, 0)}
<1>1. m.from \in Nodes /\ m.from # n
  BY DEF ElectionInv, ElectionTypeOK
<1>2. \A x \in S : /\ x.from \in Nodes /\ x.to \in Nodes /\ x.from # x.to
                   /\ x.term = currentTerm[x.from]
                   /\ x.kind = "appended" \/ (x.kind = "append" /\ state[x.from] = "Leader")
  BY <1>1 DEF Answer
<1>3. msgs' = msgs \cup S /\ UNCHANGED electionVars
  BY DEF AppendStale
<1> HIDE DEF S
<1>4. QED
  BY <1>2, <1>3, PassiveKeeps

-----------------------------------------------------------------------------
\* At the start nobody has voted.
LEMMA InitElection == Init => ElectionInv
BY DEF Init, ElectionInv, ElectionTypeOK, VotesKept, OneVote, VotesReal, LeadersElected,
       AppendsElected, Voted

\* Every handler keeps the invariant of elections.
LEMMA StepElection == ElectionInv /\ [Next]_vars => ElectionInv'
<1> SUFFICES ASSUME ElectionInv, [Next]_vars PROVE ElectionInv'
  OBVIOUS
<1>1. ASSUME NEW n \in Nodes, Timeout(n) PROVE ElectionInv'
  BY <1>1, TimeoutKeeps
<1>2. ASSUME NEW n \in Nodes, Heartbeat(n) PROVE ElectionInv'
  <2>1. /\ state[n] = "Leader" /\ UNCHANGED electionVars
        /\ msgs' = msgs \cup AppendEntries(n, log[n], nextIndex[n])
    BY <1>2 DEF Heartbeat
  <2>2. QED
    BY <2>1, LeaderKeeps
<1>3. ASSUME NEW n \in Nodes, Propose(n) PROVE ElectionInv'
  <2>1. PICK longer : msgs' = msgs \cup AppendEntries(n, longer, nextIndex[n])
    BY <1>3 DEF Propose
  <2>2. state[n] = "Leader" /\ UNCHANGED electionVars
    BY <1>3 DEF Propose
  <2>3. QED
    BY <2>1, <2>2, LeaderKeeps
<1>4. ASSUME NEW n \in Nodes, NEW m \in msgs, m.to = n, Receive(n, m) PROVE ElectionInv'
  <2>1. CASE HandleRequestVote(n, m)
    BY <1>4, <2>1, RequestVoteKeeps
  <2>2. CASE StepDown(n, m)
    BY <2>2, StepDownKeeps
  <2>3. CASE HandleVoteResponse(n, m)
    BY <1>4, <2>3, VoteResponseKeeps
  <2>4. CASE AppendStale(n, m)
    BY <1>4, <2>4, StaleKeeps
  <2>5. CASE AppendRejected(n, m)
    <3>1. Follow(n, m) /\ msgs' = msgs \cup {Answer(n, m, m.term, FALSE, 0)}
      BY <2>5 DEF AppendRejected
    <3>2. QED
      BY <1>4, <3>1, FollowKeeps
  <2>6. CASE AppendAccepted(n, m)
    <3>1. PICK match : msgs' = msgs \cup {Answer(n, m, m.term, TRUE, match)}
      BY <2>6 DEF AppendAccepted
    <3>2. Follow(n, m)
      BY <2>6 DEF AppendAccepted
    <3>3. QED
      BY <1>4, <3>1, <3>2, FollowKeeps
  <2>7. CASE AppendedOk(n, m)
    <3>1. state[n] = "Leader" /\ UNCHANGED electionVars /\ msgs' = msgs
      BY <2>7 DEF AppendedOk
    <3>2. QED
      BY <3>1, LeaderKeeps
  <2>8. CASE AppendedNo(n, m)
    <3>1. state[n] = "Leader" /\ UNCHANGED electionVars /\ msgs' = msgs
      BY <2>8 DEF AppendedNo
    <3>2. QED
      BY <3>1, LeaderKeeps
  <2>9. QED
    BY <1>4, <2>1, <2>2, <2>3, <2>4, <2>5, <2>6, <2>7, <2>8 DEF Receive
<1>5. CASE UNCHANGED vars
  <2>1. UNCHANGED electionVars
    BY <1>5 DEF vars
  <2>2. PICK S : S = {}
    OBVIOUS
  <2>3. msgs' = msgs \cup S
    BY <1>5, <2>2 DEF vars
  <2>4. \A x \in S : /\ x.from \in Nodes /\ x.to \in Nodes /\ x.from # x.to
                     /\ x.term = currentTerm[x.from]
                     /\ x.kind = "appended" \/ (x.kind = "append" /\ state[x.from] = "Leader")
    BY <2>2
  <2>5. QED
    BY <2>1, <2>3, <2>4, PassiveKeeps
<1>6. QED
  BY <1>1, <1>2, <1>3, <1>4, <1>5 DEF Next

\* What elections keep in every reachable state of start_election and the four
\* message handlers.
THEOREM Invariant == Spec => []ElectionInv
BY InitElection, StepElection, PTL DEF Spec

\* At most one node ever leads in a term: all AppendEntries of a term come from one
\* node (handle_request_vote, handle_vote_response).
THEOREM OneLeaderPerTerm == Spec => []ElectionSafety
BY Invariant, InvImpliesSafety, PTL

\* A node's term only grows, and its vote stays while the term lasts.
VoteStays(n) ==
    /\ currentTerm'[n] >= currentTerm[n]
    /\ currentTerm'[n] = currentTerm[n] /\ votedFor[n] # None => votedFor'[n] = votedFor[n]

\* No handler takes a vote back in the term it was given in, nor lowers a term.
LEMMA StepVotes == ElectionInv /\ Next => \A n \in Nodes : VoteStays(n)
<1> SUFFICES ASSUME ElectionInv, Next, NEW k \in Nodes
             PROVE  VoteStays(k)
  OBVIOUS
<1> USE DEF ElectionInv, ElectionTypeOK, VoteStays
<1>1. PICK n \in Nodes :
          \/ Timeout(n)
          \/ UNCHANGED electionVars
          \/ \E m \in msgs : HandleRequestVote(n, m) \/ StepDown(n, m)
                           \/ HandleVoteResponse(n, m) \/ Follow(n, m)
  <2>1. \A n : Heartbeat(n) \/ Propose(n) => UNCHANGED electionVars
    BY DEF Heartbeat, Propose
  <2>2. \A n, m : AppendRejected(n, m) \/ AppendAccepted(n, m) => Follow(n, m)
    BY DEF AppendRejected, AppendAccepted
  <2>3. \A n, m : AppendStale(n, m) \/ AppendedOk(n, m) \/ AppendedNo(n, m)
                     => UNCHANGED electionVars
    BY DEF AppendStale, AppendedOk, AppendedNo
  <2>4. QED
    BY <2>1, <2>2, <2>3 DEF Next, Receive
<1>2. CASE Timeout(n)
  BY <1>2 DEF Timeout
<1>3. CASE UNCHANGED electionVars
  BY <1>3 DEF electionVars
<1>4. ASSUME NEW m \in msgs, HandleRequestVote(n, m)
      PROVE  VoteStays(k)
  BY <1>4 DEF HandleRequestVote, Higher, MayVote
<1>5. ASSUME NEW m \in msgs, StepDown(n, m) \/ HandleVoteResponse(n, m) \/ Follow(n, m)
      PROVE  VoteStays(k)
  BY <1>5 DEF StepDown, HandleVoteResponse, Follow, Higher
<1>6. QED
  BY <1>1, <1>2, <1>3, <1>4, <1>5

\* The handlers never take a vote back in the term it was given in, nor lower a term.
THEOREM VotesAreKept == Spec => VoteOnce
<1>1. ElectionInv /\ [Next]_vars => [\A n \in Nodes : VoteStays(n)]_vars
  BY StepVotes
<1>2. (\A n \in Nodes : VoteStays(n)) =>
        \A n \in Nodes :
            /\ currentTerm'[n] >= currentTerm[n]
            /\ currentTerm'[n] = currentTerm[n] /\ votedFor[n] # None => votedFor'[n] = votedFor[n]
  BY DEF VoteStays
<1>3. QED
  BY <1>1, <1>2, Invariant, PTL DEF Spec, VoteOnce

(***************************************************************************)
(* The logs.  A piece is a stretch of a log: a node's own log, or what an  *)
(* AppendEntries carries of one, its prevIndex and prevTerm first.         *)
(***************************************************************************)

\* The entries a leader writes: become_leader precedes them, so no term is 0.
LogEntry == [term : Nat \ {0}, data : Nat]

\* A whole log, as a piece that follows nothing.
LogPiece(l) == [prevIndex |-> 0, prevTerm |-> 0, entries |-> l]

\* The indexes a piece tells of, with the one before its entries.
Span(f) == f.prevIndex .. f.prevIndex + Len(f.entries)
EntryIn(f, i) == f.entries[i - f.prevIndex]
TermIn(f, i) == IF i = f.prevIndex THEN f.prevTerm ELSE EntryIn(f, i).term

\* Where two pieces have the same term, they are the same up to there.
Agree(f, g) ==
    \A i, j \in Span(f) \cap Span(g) :
        TermIn(f, i) = TermIn(g, i) /\ j <= i =>
            /\ TermIn(f, j) = TermIn(g, j)
            /\ j > f.prevIndex /\ j > g.prevIndex => EntryIn(f, j) = EntryIn(g, j)

IsPiece(f) ==
    /\ f.prevIndex \in Nat /\ f.prevTerm \in Nat
    /\ f.entries \in Seq(LogEntry)
    /\ f.prevIndex = 0 => f.prevTerm = 0

\* g is a part of f.
Within(g, f) ==
    \A j \in Span(g) :
        /\ j \in Span(f) /\ TermIn(g, j) = TermIn(f, j)
        /\ j > g.prevIndex => j > f.prevIndex /\ EntryIn(g, j) = EntryIn(f, j)

\* Two nodes' logs agree whichever is looked at first.
LEMMA AgreeSym == ASSUME NEW f, NEW g, Agree(f, g) PROVE Agree(g, f)
BY DEF Agree

\* What an AppendEntries took from a log agrees with whatever that log agrees with.
LEMMA WithinAgrees ==
    ASSUME NEW f, NEW g, NEW h, Within(g, f), Agree(f, h)
    PROVE  Agree(g, h)
BY DEF Within, Agree

\* A heartbeat that carries no entry, and no term before it, contradicts no log.
LEMMA EmptyAgrees ==
    ASSUME NEW g, NEW h, g.prevIndex \in Nat, g.entries = <<>>
    PROVE  Agree(g, h)
BY DEF Agree, Span

\* A node's log as a piece: its indexes and terms are those last_log_index and
\* get_entry give.
LEMMA LogSpan ==
    ASSUME NEW l \in Seq(LogEntry)
    PROVE  /\ IsPiece(LogPiece(l))
           /\ Span(LogPiece(l)) = 0 .. Len(l)
           /\ TermIn(LogPiece(l), 0) = 0
           /\ \A i \in 1 .. Len(l) : /\ EntryIn(LogPiece(l), i) = l[i]
                                     /\ TermIn(LogPiece(l), i) = l[i].term
                                     /\ l[i].term \in Nat \ {0}
<1>1. Len(l) \in Nat /\ \A i \in 1 .. Len(l) : l[i] \in LogEntry
  OBVIOUS
<1>2. \A e \in LogEntry : e.term \in Nat \ {0}
  BY DEF LogEntry
<1> HIDE DEF LogEntry
<1>3. QED
  BY <1>1, <1>2 DEF IsPiece, LogPiece, Span, TermIn, EntryIn

\* What an AppendEntries carries of a log is a part of it, or nothing.
LEMMA SentWithin ==
    ASSUME NEW l \in Seq(LogEntry), NEW k \in Nat \ {0}, NEW m,
           m.prevIndex = k - 1, m.prevTerm = TermAt(l, k - 1),
           m.entries = SubSeq(l, k, Len(l))
    PROVE  /\ IsPiece(m)
           /\ \/ Within(m, LogPiece(l))
              \/ m.entries = <<>> /\ m.prevTerm = 0
<1> DEFINE p == LogPiece(l)
<1>1. /\ Span(p) = 0 .. Len(l) /\ TermIn(p, 0) = 0 /\ p.prevIndex = 0
      /\ \A i \in 1 .. Len(l) : /\ EntryIn(p, i) = l[i] /\ TermIn(p, i) = l[i].term
                                /\ l[i].term \in Nat \ {0}
  BY LogSpan DEF LogPiece
<1>2. /\ m.entries \in Seq(LogEntry)
      /\ Len(m.entries) = IF k <= Len(l) THEN Len(l) - k + 1 ELSE 0
      /\ \A i \in 1 .. Len(l) - k + 1 : m.entries[i] = l[k + i - 1]
  BY SubSeqProperties, \A i \in k .. Len(l) : l[i] \in LogEntry
<1>3. TermAt(l, k - 1) = IF k - 1 \in 1 .. Len(l) THEN l[k - 1].term ELSE 0
  BY DEF TermAt
<1> HIDE DEF p, LogEntry
<1>4. IsPiece(m)
  BY <1>1, <1>2, <1>3 DEF IsPiece
<1>5. ASSUME k <= Len(l) + 1 PROVE Within(m, p)
  <2>1. SUFFICES ASSUME NEW j \in Span(m)
                 PROVE  /\ j \in Span(p) /\ TermIn(m, j) = TermIn(p, j)
                        /\ j > m.prevIndex => j > p.prevIndex /\ EntryIn(m, j) = EntryIn(p, j)
    BY DEF Within
  <2>2. Len(l) \in Nat /\ j \in k - 1 .. Len(l)
    BY <1>2, <1>5 DEF Span
  <2>3. j \in Span(p)
    BY <1>1, <2>2
  <2>4. CASE j = k - 1
    BY <1>1, <1>3, <2>2, <2>3, <2>4 DEF TermIn
  <2>5. CASE j # k - 1
    <3>1. j \in 1 .. Len(l) /\ j - (k - 1) \in 1 .. Len(l) - k + 1
      BY <2>2, <2>5
    <3>2. EntryIn(m, j) = l[j]
      BY <1>2, <2>2, <3>1 DEF EntryIn
    <3>3. QED
      BY <1>1, <2>3, <2>5, <3>1, <3>2 DEF TermIn
  <2>6. QED
    BY <2>4, <2>5
<1>6. ASSUME k > Len(l) + 1 PROVE m.entries = <<>> /\ m.prevTerm = 0
  <2>1. Len(l) \in Nat
    OBVIOUS
  <2>2. Len(m.entries) = 0 /\ ~(k - 1 \in 1 .. Len(l))
    BY <1>2, <1>6, <2>1
  <2>3. m.entries = <<>>
    BY <1>2, <2>2, EmptySeq
  <2>4. QED
    BY <1>3, <2>2, <2>3
<1>7. QED
  <2>1. Len(l) \in Nat
    OBVIOUS
  <2>2. QED
    BY <1>4, <1>5, <1>6, <2>1 DEF p

\* An entry at the end of a log, of a term no other piece has there.
LEMMA AppendAgrees ==
    ASSUME NEW l \in Seq(LogEntry), NEW e \in LogEntry, NEW h, IsPiece(h),
           Agree(LogPiece(l), h),
           \A i \in Span(h) : TermIn(h, i) = e.term => i <= Len(l)
    PROVE  Agree(LogPiece(Append(l, e)), h)
<1> DEFINE p == LogPiece(l)
           q == LogPiece(Append(l, e))
<1>1. /\ Append(l, e) \in Seq(LogEntry) /\ Len(Append(l, e)) = Len(l) + 1
      /\ \A i \in 1 .. Len(l) : Append(l, e)[i] = l[i]
      /\ Append(l, e)[Len(l) + 1] = e
      /\ Len(l) \in Nat
  OBVIOUS
<1>2. /\ Span(p) = 0 .. Len(l) /\ Span(q) = 0 .. Len(l) + 1
      /\ p.prevIndex = 0 /\ q.prevIndex = 0
      /\ TermIn(q, Len(l) + 1) = e.term
      /\ \A i \in Span(p) : TermIn(q, i) = TermIn(p, i)
      /\ \A i \in 1 .. Len(l) : EntryIn(q, i) = EntryIn(p, i)
  <2>1. p.prevIndex = 0 /\ q.prevIndex = 0
    BY DEF LogPiece
  <2> HIDE DEF p, q
  <2>2. /\ Span(p) = 0 .. Len(l) /\ TermIn(p, 0) = 0
        /\ \A i \in 1 .. Len(l) : EntryIn(p, i) = l[i] /\ TermIn(p, i) = l[i].term
    BY LogSpan DEF p
  <2>3. /\ Span(q) = 0 .. Len(l) + 1 /\ TermIn(q, 0) = 0
        /\ \A i \in 1 .. Len(l) + 1 : /\ EntryIn(q, i) = Append(l, e)[i]
                                      /\ TermIn(q, i) = Append(l, e)[i].term
    BY <1>1, LogSpan DEF q
  <2> HIDE DEF LogEntry
  <2>4. QED
    BY <1>1, <2>1, <2>2, <2>3
<1>3. Span(h) \subseteq Int /\ Agree(p, h)
  BY DEF Span, IsPiece
<1> HIDE DEF p, q, LogEntry
<1>4. SUFFICES ASSUME NEW i \in Span(q) \cap Span(h), NEW j \in Span(q) \cap Span(h),
                      TermIn(q, i) = TermIn(h, i), j <= i
               PROVE  /\ TermIn(q, j) = TermIn(h, j)
                      /\ j > q.prevIndex /\ j > h.prevIndex => EntryIn(q, j) = EntryIn(h, j)
  BY DEF Agree, q
<1>5. i # Len(l) + 1
  BY <1>1, <1>2, <1>4
<1>6. i \in Span(p) /\ j \in Span(p)
  BY <1>1, <1>2, <1>4, <1>5
<1>7. TermIn(p, i) = TermIn(h, i)
  BY <1>2, <1>4, <1>6
<1>8. /\ TermIn(p, j) = TermIn(h, j)
      /\ j > p.prevIndex /\ j > h.prevIndex => EntryIn(p, j) = EntryIn(h, j)
  BY <1>3, <1>4, <1>6, <1>7 DEF Agree
<1>9. QED
  BY <1>1, <1>2, <1>4, <1>6, <1>8

\* The log after an accepted message agrees with what both agreed with.
LEMMA MergeAgrees ==
    ASSUME NEW l \in Seq(LogEntry), NEW m, IsPiece(m), NEW h, IsPiece(h),
           Agree(LogPiece(l), h), Agree(m, h),
           m.prevIndex <= Len(l), TermIn(LogPiece(l), m.prevIndex) = m.prevTerm
    PROVE  LET merged == Merge(l, m.prevIndex, m.entries)
           IN  /\ merged \in Seq(LogEntry)
               /\ Agree(LogPiece(merged), h)
               /\ \A i \in Span(LogPiece(merged)) :
                     \/ i \in Span(LogPiece(l))
                        /\ TermIn(LogPiece(merged), i) = TermIn(LogPiece(l), i)
                     \/ i \in Span(m) /\ TermIn(LogPiece(merged), i) = TermIn(m, i)
<1> DEFINE prev == m.prevIndex
           merged == Merge(l, prev, m.entries)
           cut == SubSeq(l, 1, prev)
           p == LogPiece(l)
           q == LogPiece(merged)
<1>1. CASE merged = l
  BY <1>1
<1>2. CASE merged = cut \o m.entries
  <2>1. prev \in Nat /\ Len(l) \in Nat /\ prev <= Len(l) /\ m.entries \in Seq(LogEntry)
        /\ Len(m.entries) \in Nat
    BY DEF IsPiece
  <2>2. /\ cut \in Seq(LogEntry) /\ Len(cut) = prev
        /\ \A i \in 1 .. prev : cut[i] = l[i]
    <3>1. \A i \in 1 .. prev : l[i] \in LogEntry
      BY <2>1
    <3> HIDE DEF prev, LogEntry
    <3>2. /\ cut \in Seq(LogEntry) /\ Len(cut) = IF 1 <= prev THEN prev - 1 + 1 ELSE 0
          /\ \A i \in 1 .. prev - 1 + 1 : cut[i] = l[1 + i - 1]
      BY <2>1, <3>1, SubSeqProperties
    <3>3. QED
      BY <2>1, <3>2
  <2>3. /\ merged \in Seq(LogEntry) /\ Len(merged) = prev + Len(m.entries)
        /\ \A i \in 1 .. prev : merged[i] = l[i]
        /\ \A i \in prev + 1 .. prev + Len(m.entries) : merged[i] = m.entries[i - prev]
    <3> HIDE DEF prev, LogEntry, cut
    <3>1. /\ cut \o m.entries \in Seq(LogEntry)
          /\ Len(cut \o m.entries) = prev + Len(m.entries)
          /\ \A i \in 1 .. prev + Len(m.entries) :
                (cut \o m.entries)[i] = IF i <= prev THEN cut[i] ELSE m.entries[i - prev]
      <4>1. cut \in Seq(LogEntry) /\ m.entries \in Seq(LogEntry) /\ Len(cut) = prev
        BY <2>1, <2>2
      <4>2. /\ cut \o m.entries \in Seq(LogEntry)
            /\ Len(cut \o m.entries) = Len(cut) + Len(m.entries)
            /\ \A i \in 1 .. Len(cut) + Len(m.entries) : (cut \o m.entries)[i] =
                  IF i <= Len(cut) THEN cut[i] ELSE m.entries[i - Len(cut)]
        BY <4>1, ConcatProperties, Zenon
      <4>3. QED
        BY <4>1, <4>2, Zenon
    <3> HIDE DEF merged
    <3>2. QED
      BY <1>2, <2>1, <2>2, <3>1
  <2> HIDE DEF merged, cut
  <2>4. p.prevIndex = 0 /\ q.prevIndex = 0
    BY DEF LogPiece
  <2>5. /\ Span(p) = 0 .. Len(l) /\ TermIn(p, 0) = 0
        /\ \A i \in 1 .. Len(l) : EntryIn(p, i) = l[i] /\ TermIn(p, i) = l[i].term
    BY LogSpan
  <2>6. /\ Span(q) = 0 .. prev + Len(m.entries) /\ TermIn(q, 0) = 0
        /\ \A i \in 1 .. prev + Len(m.entries) :
              EntryIn(q, i) = merged[i] /\ TermIn(q, i) = merged[i].term
    BY <2>3, LogSpan
  <2>7. Span(m) = prev .. prev + Len(m.entries) /\ TermIn(m, prev) = m.prevTerm
    BY DEF Span, TermIn
  <2>8. \A i \in prev + 1 .. prev + Len(m.entries) :
           EntryIn(m, i) = m.entries[i - prev] /\ TermIn(m, i) = m.entries[i - prev].term
    BY <2>1 DEF TermIn, EntryIn
  <2>9. /\ Span(h) \subseteq Int
        /\ \A i \in Span(h) : i >= h.prevIndex
        /\ h.prevIndex \in Nat
        /\ \A i, j \in Span(h) : \A k \in Int : j <= k /\ k <= i => k \in Span(h)
    BY DEF Span, IsPiece
  <2> HIDE DEF p, q, prev, LogEntry
  <2>10. \A i \in 0 .. prev :
            /\ i \in Span(p) /\ i \in Span(q) /\ TermIn(q, i) = TermIn(p, i)
            /\ i > 0 => EntryIn(q, i) = EntryIn(p, i)
    <3> TAKE i \in 0 .. prev
    <3>1. CASE i = 0
      BY <2>1, <2>5, <2>6, <3>1
    <3>2. CASE i # 0
      <4>1. i \in 1 .. prev /\ i \in 1 .. Len(l) /\ i \in 1 .. prev + Len(m.entries)
        BY <2>1, <3>2
      <4>2. QED
        BY <2>1, <2>3, <2>5, <2>6, <4>1
    <3>3. QED
      BY <3>1, <3>2
  <2>11. \A i \in prev + 1 .. prev + Len(m.entries) :
            i \in Span(m) /\ TermIn(q, i) = TermIn(m, i) /\ EntryIn(q, i) = EntryIn(m, i)
    <3> TAKE i \in prev + 1 .. prev + Len(m.entries)
    <3>1. i \in 1 .. prev + Len(m.entries) /\ i \in prev .. prev + Len(m.entries)
      BY <2>1
    <3>2. QED
      BY <2>3, <2>6, <2>7, <2>8, <3>1
  <2>12. TermIn(p, prev) = m.prevTerm /\ Agree(p, h) /\ m.prevIndex = prev
    BY DEF p, prev
  <2>13. ASSUME NEW i \in Span(q) \cap Span(h), NEW j \in Span(q) \cap Span(h),
                TermIn(q, i) = TermIn(h, i), j <= i
         PROVE  /\ TermIn(q, j) = TermIn(h, j)
                /\ j > q.prevIndex /\ j > h.prevIndex => EntryIn(q, j) = EntryIn(h, j)
    <3>1. /\ i \in 0 .. prev + Len(m.entries) /\ j \in 0 .. prev + Len(m.entries)
          /\ i \in Span(h) /\ j \in Span(h)
      BY <2>6
    <3>2. CASE i <= prev
      <4>1. i \in Span(p) /\ j \in Span(p) /\ TermIn(p, i) = TermIn(h, i)
        BY <2>1, <2>10, <2>13, <3>1, <3>2
      <4>2. /\ TermIn(p, j) = TermIn(h, j)
            /\ j > 0 /\ j > h.prevIndex => EntryIn(p, j) = EntryIn(h, j)
        BY <2>4, <2>12, <2>13, <3>1, <4>1 DEF Agree
      <4>3. QED
        BY <2>1, <2>4, <2>10, <2>13, <3>1, <3>2, <4>2
    <3>3. CASE i > prev
      <4>1. i \in Span(m) /\ TermIn(m, i) = TermIn(h, i)
        BY <2>1, <2>11, <2>13, <3>1, <3>3
      <4>2. CASE j > prev
        <5>1. j \in Span(m) /\ TermIn(q, j) = TermIn(m, j) /\ EntryIn(q, j) = EntryIn(m, j)
          BY <2>1, <2>11, <3>1, <4>2
        <5>2. /\ TermIn(m, j) = TermIn(h, j)
              /\ j > h.prevIndex => EntryIn(m, j) = EntryIn(h, j)
          BY <2>12, <2>13, <3>1, <4>1, <4>2, <5>1 DEF Agree
        <5>3. QED
          BY <5>1, <5>2
      <4>3. CASE j <= prev
        <5>1. prev \in Span(h) /\ prev \in Span(m) /\ prev \in Span(p)
          BY <2>1, <2>5, <2>7, <2>9, <3>1, <3>3, <4>3
        <5>2. TermIn(m, prev) = TermIn(h, prev)
          BY <2>1, <2>13, <3>1, <3>3, <4>1, <5>1 DEF Agree
        <5>3. TermIn(p, prev) = TermIn(h, prev)
          BY <2>7, <2>12, <5>2
        <5>4. j \in Span(p)
          BY <2>1, <2>10, <3>1, <4>3
        <5>5. /\ TermIn(p, j) = TermIn(h, j)
              /\ j > 0 /\ j > h.prevIndex => EntryIn(p, j) = EntryIn(h, j)
          BY <2>4, <2>12, <3>1, <4>3, <5>1, <5>3, <5>4 DEF Agree
        <5>6. QED
          BY <2>1, <2>4, <2>10, <3>1, <4>3, <5>5
      <4>4. QED
        BY <2>1, <3>1, <4>2, <4>3
    <3>4. QED
      BY <2>1, <3>1, <3>2, <3>3
  <2>14. Agree(q, h)
    BY <2>13 DEF Agree
  <2>15. \A i \in Span(q) : \/ i \in Span(p) /\ TermIn(q, i) = TermIn(p, i)
                            \/ i \in Span(m) /\ TermIn(q, i) = TermIn(m, i)
    BY <2>1, <2>6, <2>10, <2>11
  <2>16. QED
    BY <2>3, <2>14, <2>15 DEF p, q, prev, merged
<1>3. QED
  BY <1>1, <1>2 DEF Merge

\* What the handlers keep in a log, in next_index and in the messages about logs.
LogTypeOK ==
    /\ log \in [Nodes -> Seq(LogEntry)]
    /\ nextIndex \in [Nodes -> [Nodes -> Nat \ {0}]]
    /\ proposals \in Nat
    /\ \A m \in msgs : /\ m.kind = "append" => IsPiece(m)
                       /\ m.kind = "appended" => m.match \in Nat
    /\ \A n \in Nodes : state[n] # "Follower" => currentTerm[n] > 0

\* Every stretch of a log there is: on a node, or on its way to one.
Pieces == {LogPiece(log[n]) : n \in Nodes} \cup {m \in msgs : m.kind = "append"}

\* Log matching, of the messages too: without them a late AppendEntries could break it.
PiecesAgree == \A f, g \in Pieces : Agree(f, g)

\* c was elected in that term and its candidacy is over.
Led(c, t) ==
    /\ ElectedIn(c, t)
    /\ currentTerm[c] >= t
    /\ currentTerm[c] = t => state[c] # "Candidate"

\* Entries of a term are made by its leader.
TermsLed ==
    \A f \in Pieces : \A i \in Span(f) :
        TermIn(f, i) > 0 => \E c \in Nodes : Led(c, TermIn(f, i))

\* No entry of a leader's term is beyond the end of the leader's log.
LeaderAhead ==
    \A n \in Nodes : state[n] = "Leader" =>
        \A f \in Pieces : \A i \in Span(f) : TermIn(f, i) = currentTerm[n] => i <= Len(log[n])

\* The inductive invariant of the logs.
LogInv ==
    /\ LogTypeOK
    /\ PiecesAgree
    /\ TermsLed
    /\ LeaderAhead

\* Pieces that agree still do when the messages sent are parts of them.
LEMMA DerivedAgree ==
    ASSUME NEW P, NEW S, \A f, g \in P : Agree(f, g),
           \A g \in S : \/ g \in P
                        \/ \E f \in P : Within(g, f)
                        \/ g.prevIndex \in Nat /\ g.entries = <<>>
    PROVE  \A f, g \in S : Agree(f, g)
<1>1. \A g \in S, h \in P : Agree(g, h)
  BY WithinAgrees, EmptyAgrees
<1>2. \A g \in S, h \in P : Agree(h, g)
  BY <1>1, AgreeSym
<1>3. QED
  BY <1>2, WithinAgrees, EmptyAgrees

\* send_append_entries sends parts of the leader's log.
LEMMA AppendsPieces ==
    ASSUME NEW n \in Nodes, NEW l \in Seq(LogEntry), NEW next \in [Nodes -> Nat \ {0}],
           NEW m \in AppendEntries(n, l, next)
    PROVE  /\ m.kind = "append" /\ IsPiece(m)
           /\ \/ Within(m, LogPiece(l))
              \/ m.entries = <<>> /\ m.prevTerm = 0
<1>1. PICK p \in Peers(n) :
         /\ m.kind = "append" /\ m.prevIndex = next[p] - 1
         /\ m.prevTerm = TermAt(l, next[p] - 1) /\ m.entries = SubSeq(l, next[p], Len(l))
  BY DEF AppendEntries
<1>2. next[p] \in Nat \ {0}
  BY DEF Peers
<1>3. QED
  BY <1>1, <1>2, SentWithin

\* What a step does to the elections.
TermsGrow ==
    /\ msgs \subseteq msgs'
    /\ \A n \in Nodes :
          /\ currentTerm'[n] >= currentTerm[n]
          /\ state'[n] = "Candidate" /\ currentTerm'[n] = currentTerm[n] => state[n] = "Candidate"
          /\ state'[n] = "Leader" => currentTerm'[n] = currentTerm[n] /\ state[n] # "Follower"

\* Messages stay, terms only grow, and a node becomes leader of the term it stood in.
LEMMA StepTermsGrow == ElectionInv /\ [Next]_vars => TermsGrow
<1> SUFFICES ASSUME ElectionInv, [Next]_vars PROVE TermsGrow
  OBVIOUS
<1> USE DEF ElectionInv, ElectionTypeOK
<1>1. msgs \subseteq msgs'
  <2>1. \A n : Timeout(n) \/ Heartbeat(n) \/ Propose(n) => msgs \subseteq msgs'
    BY DEF Timeout, Heartbeat, Propose
  <2>2. \A n, m : HandleRequestVote(n, m) \/ StepDown(n, m) \/ AppendStale(n, m)
                    => msgs \subseteq msgs'
    BY DEF HandleRequestVote, StepDown, AppendStale
  <2>3. \A n, m : HandleVoteResponse(n, m) => msgs \subseteq msgs'
    BY DEF HandleVoteResponse
  <2>4. \A n, m : AppendRejected(n, m) \/ AppendAccepted(n, m) => msgs \subseteq msgs'
    BY DEF AppendRejected, AppendAccepted
  <2>5. \A n, m : AppendedOk(n, m) \/ AppendedNo(n, m) => msgs \subseteq msgs'
    BY DEF AppendedOk, AppendedNo
  <2>6. UNCHANGED vars => msgs \subseteq msgs'
    BY DEF vars
  <2>7. QED
    BY <2>1, <2>2, <2>3, <2>4, <2>5, <2>6 DEF Next, Receive
<1>2. ASSUME NEW k \in Nodes
      PROVE  /\ currentTerm'[k] >= currentTerm[k]
             /\ state'[k] = "Candidate" /\ currentTerm'[k] = currentTerm[k] => state[k] = "Candidate"
             /\ state'[k] = "Leader" => currentTerm'[k] = currentTerm[k] /\ state[k] # "Follower"
  <2>1. \/ UNCHANGED <<currentTerm, state>>
        \/ \E n \in Nodes :
              \/ Timeout(n)
              \/ \E m \in msgs : HandleRequestVote(n, m) \/ StepDown(n, m)
                               \/ HandleVoteResponse(n, m) \/ Follow(n, m)
    <3>1. \A n : Heartbeat(n) \/ Propose(n) => UNCHANGED <<currentTerm, state>>
      BY DEF Heartbeat, Propose, electionVars
    <3>2. \A n, m : AppendRejected(n, m) \/ AppendAccepted(n, m) => Follow(n, m)
      BY DEF AppendRejected, AppendAccepted
    <3>3. \A n, m : AppendStale(n, m) \/ AppendedOk(n, m) \/ AppendedNo(n, m)
                       => UNCHANGED <<currentTerm, state>>
      BY DEF AppendStale, AppendedOk, AppendedNo, electionVars
    <3>4. CASE UNCHANGED vars
      BY <3>4 DEF vars, electionVars
    <3>5. QED
      BY <3>1, <3>2, <3>3, <3>4 DEF Next, Receive
  <2>2. CASE UNCHANGED <<currentTerm, state>>
    BY <2>2
  <2>3. ASSUME NEW n \in Nodes, Timeout(n)
        PROVE  /\ currentTerm'[k] >= currentTerm[k]
               /\ currentTerm'[k] = currentTerm[k] => state'[k] = state[k]
               /\ state'[k] = "Leader" => currentTerm'[k] = currentTerm[k]
    BY <2>3 DEF Timeout
  <2>4. ASSUME NEW n \in Nodes, NEW m \in msgs,
               HandleRequestVote(n, m) \/ StepDown(n, m) \/ Follow(n, m)
        PROVE  /\ currentTerm'[k] >= currentTerm[k]
               /\ state'[k] # "Follower" => currentTerm'[k] = currentTerm[k] /\ state'[k] = state[k]
    BY <2>4 DEF HandleRequestVote, StepDown, Follow, Higher
  <2>5. ASSUME NEW n \in Nodes, NEW m \in msgs, HandleVoteResponse(n, m)
        PROVE  /\ currentTerm'[k] = currentTerm[k]
               /\ state'[k] = state[k] \/ (state[k] = "Candidate" /\ state'[k] = "Leader")
    BY <2>5 DEF HandleVoteResponse
  <2>6. QED
    BY <2>1, <2>2, <2>3, <2>4, <2>5
<1>3. QED
  BY <1>1, <1>2 DEF TermsGrow

\* Two nodes elected in the same term by handle_vote_response are one.
LEMMA SameLeader ==
    ASSUME ElectionInv', NEW a \in Nodes, NEW b \in Nodes, NEW t \in Nat,
           ElectedIn(a, t)', ElectedIn(b, t)'
    PROVE  a = b
<1>1. PICK P \in SUBSET Nodes : IsQuorum(P) /\ \A v \in P : Voted(v, a, t)'
  BY DEF ElectedIn
<1>2. PICK Q \in SUBSET Nodes : IsQuorum(Q) /\ \A v \in Q : Voted(v, b, t)'
  BY DEF ElectedIn
<1>3. PICK v \in P \cap Q : TRUE
  BY <1>1, <1>2, QuorumsMeet
<1>4. QED
  BY <1>1, <1>2, <1>3 DEF ElectionInv, OneVote

\* A leader after a step was elected, in the term it has.
LEMMA LeaderElected ==
    ASSUME ElectionInv', NEW n \in Nodes, state'[n] = "Leader"
    PROVE  ElectedIn(n, currentTerm[n])' /\ currentTerm'[n] \in Nat
BY DEF ElectionInv, ElectionTypeOK, VotesReal, LeadersElected, ElectedIn

\* Who led a term has led it ever after: no handler takes a term back.
LEMMA LedStays ==
    ASSUME ElectionInv, ElectionInv', TermsGrow, NEW c \in Nodes, NEW t \in Nat, Led(c, t)
    PROVE  Led(c, t)'
<1>1. \A v \in Nodes : Voted(v, c, t) => Voted(v, c, t)'
  BY DEF TermsGrow, Voted
<1>2. ElectedIn(c, t)'
  BY <1>1 DEF Led, ElectedIn
<1>3. currentTerm[c] \in Nat /\ currentTerm'[c] \in Nat
  BY DEF ElectionInv, ElectionTypeOK
<1>4. QED
  BY <1>2, <1>3 DEF Led, TermsGrow

\* A new leader finds no entry of its term; one that stays finds none beyond its log.
LEMMA OldPieces ==
    ASSUME ElectionInv, ElectionInv', TermsGrow, LogInv, NEW n \in Nodes, state'[n] = "Leader",
           NEW f \in Pieces, NEW i \in Span(f), TermIn(f, i) = currentTerm'[n]
    PROVE  i <= Len(log[n])
<1>1. currentTerm'[n] = currentTerm[n] /\ state[n] # "Follower" /\ currentTerm[n] \in Nat
  BY DEF TermsGrow, ElectionInv, ElectionTypeOK
<1>2. currentTerm[n] > 0
  BY <1>1 DEF LogInv, LogTypeOK
<1>3. CASE state[n] = "Leader"
  BY <1>1, <1>3 DEF LogInv, LeaderAhead
<1>4. CASE state[n] = "Candidate"
  <2>1. PICK t \in Nat : t = currentTerm[n]
    BY <1>1
  <2>2. PICK c \in Nodes : Led(c, t)
    BY <1>1, <1>2, <2>1 DEF LogInv, TermsLed
  <2>3. ElectedIn(c, t)'
    BY <2>2, LedStays DEF Led
  <2>4. t = currentTerm'[n]
    BY <1>1, <2>1
  <2>5. ElectedIn(n, t)'
    BY <2>4, LeaderElected DEF ElectedIn
  <2>6. c = n
    BY <2>3, <2>5, SameLeader
  <2>7. QED
    BY <1>4, <2>1, <2>2, <2>6 DEF Led
<1>5. QED
  BY <1>1, <1>3, <1>4 DEF ElectionInv, ElectionTypeOK

\* The terms an AppendEntries or a log tells of are numbers.
LEMMA PieceTerms ==
    ASSUME NEW f, IsPiece(f), NEW i \in Span(f)
    PROVE  TermIn(f, i) \in Nat /\ i \in Nat
<1>1. f.prevIndex \in Nat /\ f.prevTerm \in Nat /\ Len(f.entries) \in Nat
      /\ i \in f.prevIndex .. f.prevIndex + Len(f.entries)
  BY DEF IsPiece, Span
<1>2. CASE i = f.prevIndex
  BY <1>1, <1>2 DEF TermIn
<1>3. CASE i # f.prevIndex
  <2>1. i - f.prevIndex \in 1 .. Len(f.entries)
    BY <1>1, <1>3
  <2>2. f.entries[i - f.prevIndex] \in LogEntry
    BY <2>1 DEF IsPiece
  <2>3. QED
    BY <1>1, <1>3, <2>2 DEF TermIn, EntryIn, LogEntry
<1>4. QED
  BY <1>2, <1>3

\* Candidates and leaders are past term 0.
LEMMA PositiveTerms ==
    ASSUME ElectionInv, ElectionInv', TermsGrow, LogInv
    PROVE  \A n \in Nodes : state'[n] # "Follower" => currentTerm'[n] > 0
BY DEF ElectionInv, ElectionTypeOK, TermsGrow, LogInv, LogTypeOK

\* Each log and each AppendEntries is a stretch of well-formed entries.
LEMMA PiecesTyped == LogTypeOK => \A f \in Pieces : IsPiece(f)
<1> SUFFICES ASSUME LogTypeOK, NEW f \in Pieces PROVE IsPiece(f)
  OBVIOUS
<1>1. CASE f \in {m \in msgs : m.kind = "append"}
  BY <1>1 DEF LogTypeOK
<1>2. ASSUME NEW n \in Nodes, f = LogPiece(log[n]) PROVE IsPiece(f)
  BY <1>2, LogSpan DEF LogTypeOK
<1>3. QED
  BY <1>1, <1>2 DEF Pieces

\* What a step must show: its pieces agree, and their entries are old ones, or a
\* leader's own.
LEMMA PiecesKeep ==
    ASSUME ElectionInv, ElectionInv', TermsGrow, LogInv, LogTypeOK', PiecesAgree',
           \A k \in Nodes : state'[k] = "Leader" => Len(log[k]) <= Len(log'[k]),
           \A g \in Pieces' : \A i \in Span(g) : TermIn(g, i) > 0 =>
              \/ \E f \in Pieces : i \in Span(f) /\ TermIn(f, i) = TermIn(g, i)
              \/ \E n \in Nodes : /\ state'[n] = "Leader"
                                  /\ TermIn(g, i) = currentTerm'[n]
                                  /\ i <= Len(log'[n])
    PROVE  LogInv'
<1>1. \A f \in Pieces : IsPiece(f)
  BY PiecesTyped DEF LogInv
<1>2. \A k \in Nodes : Len(log[k]) \in Nat /\ Len(log'[k]) \in Nat
  BY DEF LogInv, LogTypeOK
<1>3. TermsLed'
  <2> SUFFICES ASSUME NEW g \in Pieces', NEW i \in Span(g), TermIn(g, i) > 0
               PROVE  \E c \in Nodes : Led(c, TermIn(g, i))'
    BY DEF TermsLed
  <2>1. ASSUME NEW f \in Pieces, i \in Span(f), TermIn(f, i) = TermIn(g, i)
        PROVE  \E c \in Nodes : Led(c, TermIn(g, i))'
    <3>1. PICK t \in Nat : t = TermIn(f, i)
      BY <1>1, <2>1, PieceTerms
    <3>2. PICK c \in Nodes : Led(c, t)
      BY <2>1, <3>1 DEF LogInv, TermsLed
    <3>3. Led(c, t)'
      BY <3>2, LedStays
    <3>4. QED
      BY <2>1, <3>1, <3>3
  <2>2. ASSUME NEW n \in Nodes, state'[n] = "Leader", TermIn(g, i) = currentTerm'[n]
        PROVE  \E c \in Nodes : Led(c, TermIn(g, i))'
    <3>1. PICK t \in Nat : t = currentTerm'[n]
      BY <2>2, LeaderElected
    <3>2. ElectedIn(n, t)'
      BY <2>2, <3>1, LeaderElected DEF ElectedIn
    <3>3. Led(n, t)'
      BY <2>2, <3>1, <3>2 DEF Led
    <3>4. QED
      BY <2>2, <3>1, <3>3
  <2>3. QED
    BY <2>1, <2>2
<1>4. LeaderAhead'
  <2> SUFFICES ASSUME NEW k \in Nodes, state'[k] = "Leader",
                      NEW g \in Pieces', NEW i \in Span(g), TermIn(g, i) = currentTerm'[k]
               PROVE  i <= Len(log'[k])
    BY DEF LeaderAhead
  <2>1. TermIn(g, i) > 0
    BY PositiveTerms
  <2>2. ASSUME NEW f \in Pieces, i \in Span(f), TermIn(f, i) = TermIn(g, i)
        PROVE  i <= Len(log'[k])
    <3>1. i <= Len(log[k])
      BY <2>2, OldPieces
    <3>2. i \in Nat
      BY <1>1, <2>2, PieceTerms
    <3>3. QED
      BY <1>2, <3>1, <3>2
  <2>3. ASSUME NEW n \in Nodes, state'[n] = "Leader", TermIn(g, i) = currentTerm'[n],
               i <= Len(log'[n])
        PROVE  i <= Len(log'[k])
    <3>1. PICK t \in Nat : t = currentTerm'[n]
      BY <2>3, LeaderElected
    <3>2. ElectedIn(n, t)' /\ ElectedIn(k, t)'
      BY <2>3, <3>1, LeaderElected DEF ElectedIn
    <3>3. QED
      BY <2>3, <3>2, SameLeader
  <2>4. QED
    BY <2>1, <2>2, <2>3
<1>5. QED
  BY <1>3, <1>4 DEF LogInv

\* A step that changes no log and sends no AppendEntries.
LEMMA QuietKeeps ==
    ASSUME ElectionInv, ElectionInv', TermsGrow, LogInv,
           UNCHANGED <<log, proposals>>, nextIndex' \in [Nodes -> [Nodes -> Nat \ {0}]],
           \A m \in msgs' \ msgs : /\ m.kind # "append"
                                   /\ m.kind = "appended" => m.match \in Nat
    PROVE  LogInv'
<1>1. Pieces' = Pieces
  BY DEF Pieces, TermsGrow
<1>2. LogTypeOK'
  BY PositiveTerms DEF LogInv, LogTypeOK
<1>3. PiecesAgree'
  BY <1>1 DEF LogInv, PiecesAgree
<1>4. \A k \in Nodes : Len(log[k]) <= Len(log'[k])
  BY DEF LogInv, LogTypeOK
<1>5. \A g \in Pieces' : \A i \in Span(g) :
         \E f \in Pieces : i \in Span(f) /\ TermIn(f, i) = TermIn(g, i)
  BY <1>1
<1>6. QED
  BY <1>2, <1>3, <1>4, <1>5, PiecesKeep

\* A leader sends parts of a log that extends its own by entries of its term.
LEMMA SendKeeps ==
    ASSUME ElectionInv, ElectionInv', TermsGrow, LogInv, NEW n \in Nodes, state'[n] = "Leader",
           NEW l \in Seq(LogEntry), NEW next \in [Nodes -> Nat \ {0}],
           log' = [log EXCEPT ![n] = l], proposals' \in Nat,
           \A m \in msgs' : m \in msgs \/ m \in AppendEntries(n, l, next),
           nextIndex' \in [Nodes -> [Nodes -> Nat \ {0}]],
           Len(log[n]) <= Len(l),
           \A h \in Pieces : Agree(LogPiece(l), h),
           \A i \in Span(LogPiece(l)) :
              \/ /\ i \in Span(LogPiece(log[n]))
                 /\ TermIn(LogPiece(l), i) = TermIn(LogPiece(log[n]), i)
              \/ TermIn(LogPiece(l), i) = currentTerm'[n]
    PROVE  LogInv'
<1> DEFINE A == AppendEntries(n, l, next)
           q == LogPiece(l)
           P == Pieces \cup {q}
<1>1. \A m \in A : /\ m.kind = "append" /\ IsPiece(m)
                   /\ \/ Within(m, q)
                      \/ m.entries = <<>> /\ m.prevTerm = 0
  BY AppendsPieces
<1>2. log \in [Nodes -> Seq(LogEntry)] /\ log'[n] = l /\ \A k \in Nodes \ {n} : log'[k] = log[k]
  BY DEF LogInv, LogTypeOK
<1>3. LogTypeOK'
  <2>1. \A m \in msgs' : /\ m.kind = "append" => IsPiece(m)
                         /\ m.kind = "appended" => m.match \in Nat
    BY <1>1 DEF LogInv, LogTypeOK
  <2>2. log' \in [Nodes -> Seq(LogEntry)]
    BY <1>2
  <2>3. QED
    BY <2>1, <2>2, PositiveTerms DEF LogTypeOK
<1>4. \A g \in Pieces' : g \in P \/ g \in A
  BY <1>2 DEF Pieces
<1> HIDE DEF A
<1>5. LogPiece(log[n]) \in Pieces
  BY DEF Pieces
<1>6. PiecesAgree'
  <2>1. \A f, g \in P : Agree(f, g)
    <3>1. \A f, g \in Pieces : Agree(f, g)
      BY DEF LogInv, PiecesAgree
    <3>2. Agree(q, q)
      BY DEF Agree
    <3> HIDE DEF q
    <3>3. QED
      BY <3>1, <3>2, AgreeSym DEF q
  <2>2. \A g \in Pieces' : \/ g \in P
                           \/ \E f \in P : Within(g, f)
                           \/ g.prevIndex \in Nat /\ g.entries = <<>>
    BY <1>1, <1>4 DEF IsPiece
  <2> HIDE DEF P, q
  <2> DEFINE N == Pieces'
  <2>3. \A f, g \in N : Agree(f, g)
    <3> HIDE DEF N
    <3>1. \A g \in N : \/ g \in P
                       \/ \E f \in P : Within(g, f)
                       \/ g.prevIndex \in Nat /\ g.entries = <<>>
      BY <2>2 DEF N
    <3>2. QED
      BY <2>1, <3>1, DerivedAgree
  <2>4. QED
    BY <2>3 DEF PiecesAgree
<1>7. \A k \in Nodes : Len(log[k]) <= Len(log'[k])
  <2>1. \A k \in Nodes : Len(log[k]) \in Nat
    BY <1>2
  <2>2. QED
    BY <1>2, <2>1
<1>8. \A i \in Span(q) : i <= Len(log'[n])
  BY <1>2, LogSpan
<1>9. ASSUME NEW g \in Pieces', NEW i \in Span(g), TermIn(g, i) > 0
      PROVE  \/ \E f \in Pieces : i \in Span(f) /\ TermIn(f, i) = TermIn(g, i)
             \/ \E k \in Nodes : /\ state'[k] = "Leader"
                                 /\ TermIn(g, i) = currentTerm'[k]
                                 /\ i <= Len(log'[k])
  <2>1. CASE g \in Pieces
    BY <2>1
  <2>2. ASSUME i \in Span(q), TermIn(g, i) = TermIn(q, i)
        PROVE  \/ \E f \in Pieces : i \in Span(f) /\ TermIn(f, i) = TermIn(g, i)
               \/ TermIn(g, i) = currentTerm'[n] /\ i <= Len(log'[n])
    BY <1>5, <1>8, <2>2
  <2>3. CASE g \in A /\ Within(g, q)
    BY <2>2, <2>3 DEF Within
  <2>4. CASE g \in A /\ g.entries = <<>> /\ g.prevTerm = 0
    <3>1. g.prevIndex \in Nat /\ Len(g.entries) = 0
      BY <1>1, <2>4 DEF IsPiece
    <3>2. i = g.prevIndex
      BY <3>1 DEF Span
    <3>3. QED
      BY <1>9, <2>4, <3>2 DEF TermIn
  <2>5. CASE g = q
    BY <2>2, <2>5
  <2>6. QED
    BY <1>1, <1>4, <2>1, <2>2, <2>3, <2>4, <2>5
<1>10. QED
  BY <1>3, <1>6, <1>7, <1>9, PiecesKeep

\* send_heartbeats: the leader sends what it has and changes no log.
LEMMA HeartbeatKeepsLog ==
    ASSUME ElectionInv, ElectionInv', TermsGrow, LogInv, NEW n \in Nodes, Heartbeat(n)
    PROVE  LogInv'
<1>1. /\ log[n] \in Seq(LogEntry) /\ nextIndex[n] \in [Nodes -> Nat \ {0}]
      /\ log' = [log EXCEPT ![n] = log[n]] /\ Len(log[n]) <= Len(log[n])
  BY DEF Heartbeat, logVars, LogInv, LogTypeOK
<1>2. /\ state'[n] = "Leader" /\ msgs' = msgs \cup AppendEntries(n, log[n], nextIndex[n])
      /\ proposals' \in Nat /\ nextIndex' \in [Nodes -> [Nodes -> Nat \ {0}]]
  BY DEF Heartbeat, electionVars, leaderVars, LogInv, LogTypeOK
<1>3. \A h \in Pieces : Agree(LogPiece(log[n]), h)
  BY DEF LogInv, PiecesAgree, Pieces
<1>4. QED
  BY <1>1, <1>2, <1>3, SendKeeps

\* propose: one entry of the leader's term at the end of its log, sent at once.
LEMMA ProposeKeepsLog ==
    ASSUME ElectionInv, ElectionInv', TermsGrow, LogInv, NEW n \in Nodes, Propose(n)
    PROVE  LogInv'
<1> DEFINE e == [term |-> currentTerm[n], data |-> proposals + 1]
           longer == Append(log[n], e)
<1>1. /\ state[n] = "Leader" /\ state' = state /\ currentTerm' = currentTerm
      /\ log' = [log EXCEPT ![n] = longer]
      /\ msgs' = msgs \cup AppendEntries(n, longer, nextIndex[n])
      /\ proposals' = proposals + 1 /\ nextIndex' = nextIndex
  BY DEF Propose, electionVars
<1>2. /\ log[n] \in Seq(LogEntry) /\ nextIndex[n] \in [Nodes -> Nat \ {0}]
      /\ proposals' \in Nat /\ nextIndex' \in [Nodes -> [Nodes -> Nat \ {0}]]
  BY <1>1 DEF LogInv, LogTypeOK
<1>3. e \in LogEntry
  <2>1. currentTerm[n] \in Nat /\ currentTerm[n] > 0 /\ proposals + 1 \in Nat
    BY <1>1 DEF LogInv, LogTypeOK, ElectionInv, ElectionTypeOK
  <2>2. QED
    BY <2>1 DEF LogEntry
<1>4. e.term = currentTerm'[n] /\ state'[n] = "Leader"
  BY <1>1
<1> HIDE DEF e
<1>5. longer \in Seq(LogEntry) /\ Len(log[n]) <= Len(longer)
  BY <1>2, <1>3
<1>6. \A h \in Pieces : Agree(LogPiece(longer), h)
  <2> TAKE h \in Pieces
  <2>1. IsPiece(h)
    BY PiecesTyped DEF LogInv
  <2>2. Agree(LogPiece(log[n]), h)
    BY DEF LogInv, PiecesAgree, Pieces
  <2>3. \A i \in Span(h) : TermIn(h, i) = e.term => i <= Len(log[n])
    BY <1>4, OldPieces
  <2>4. QED
    BY <1>2, <1>3, <2>1, <2>2, <2>3, AppendAgrees
<1>7. \A i \in Span(LogPiece(longer)) :
         \/ /\ i \in Span(LogPiece(log[n]))
            /\ TermIn(LogPiece(longer), i) = TermIn(LogPiece(log[n]), i)
         \/ TermIn(LogPiece(longer), i) = currentTerm'[n]
  <2> TAKE i \in Span(LogPiece(longer))
  <2>1. /\ Len(longer) = Len(log[n]) + 1 /\ Len(log[n]) \in Nat /\ longer[Len(log[n]) + 1] = e
        /\ \A j \in 1 .. Len(log[n]) : longer[j] = log[n][j]
    BY <1>2, <1>3
  <2>2. Span(LogPiece(longer)) = 0 .. Len(longer) /\ Span(LogPiece(log[n])) = 0 .. Len(log[n])
        /\ TermIn(LogPiece(longer), 0) = 0 /\ TermIn(LogPiece(log[n]), 0) = 0
    BY <1>2, <1>5, LogSpan
  <2>3. \A j \in 1 .. Len(longer) : TermIn(LogPiece(longer), j) = longer[j].term
    BY <1>5, LogSpan
  <2>4. \A j \in 1 .. Len(log[n]) : TermIn(LogPiece(log[n]), j) = log[n][j].term
    BY <1>2, LogSpan
  <2> HIDE DEF longer
  <2>5. CASE i = 0
    BY <2>1, <2>2, <2>5
  <2>6. CASE i \in 1 .. Len(log[n])
    BY <2>1, <2>2, <2>3, <2>4, <2>6
  <2>7. CASE i = Len(log[n]) + 1
    BY <1>4, <2>1, <2>3, <2>7
  <2>8. QED
    BY <2>1, <2>2, <2>5, <2>6, <2>7
<1> HIDE DEF longer
<1>8. QED
  BY <1>1, <1>2, <1>4, <1>5, <1>6, <1>7, SendKeeps

\* handle_vote_response: become_leader sets next_index past its log and sends.
LEMMA VoteResponseKeepsLog ==
    ASSUME ElectionInv, ElectionInv', TermsGrow, LogInv, NEW n \in Nodes, NEW m \in msgs,
           HandleVoteResponse(n, m)
    PROVE  LogInv'
<1> DEFINE votes == votesReceived[n] \cup (IF m.granted THEN {m.from} ELSE {})
           next == [p \in Nodes |-> IF p = n THEN nextIndex[n][n] ELSE Len(log[n]) + 1]
<1>1. /\ log \in [Nodes -> Seq(LogEntry)] /\ log[n] \in Seq(LogEntry)
      /\ nextIndex \in [Nodes -> [Nodes -> Nat \ {0}]] /\ proposals \in Nat
  BY DEF LogInv, LogTypeOK
<1>2. log' = log /\ proposals' = proposals
  BY DEF HandleVoteResponse, logVars, counters
<1>3. CASE IsQuorum(votes)
  <2>1. /\ state' = [state EXCEPT ![n] = "Leader"]
        /\ nextIndex' = [nextIndex EXCEPT ![n] = next]
        /\ msgs' = msgs \cup AppendEntries(n, log[n], next)
    BY <1>3 DEF HandleVoteResponse
  <2>2. next \in [Nodes -> Nat \ {0}]
    <3>1. Len(log[n]) + 1 \in Nat \ {0}
      BY <1>1
    <3>2. QED
      BY <1>1, <3>1
  <2> HIDE DEF next
  <2>3. nextIndex' \in [Nodes -> [Nodes -> Nat \ {0}]]
    BY <1>1, <2>1, <2>2
  <2>4. state'[n] = "Leader"
    BY <2>1 DEF ElectionInv, ElectionTypeOK
  <2>5. log' = [log EXCEPT ![n] = log[n]] /\ Len(log[n]) <= Len(log[n]) /\ proposals' \in Nat
    BY <1>1, <1>2
  <2>6. \A h \in Pieces : Agree(LogPiece(log[n]), h)
    BY DEF LogInv, PiecesAgree, Pieces
  <2>7. QED
    BY <1>1, <2>1, <2>2, <2>3, <2>4, <2>5, <2>6, SendKeeps
<1>4. CASE ~IsQuorum(votes)
  <2>1. msgs' = msgs /\ nextIndex' = nextIndex
    BY <1>4 DEF HandleVoteResponse, leaderVars
  <2>2. QED
    BY <1>1, <1>2, <2>1, QuietKeeps
<1>5. QED
  BY <1>3, <1>4

\* handle_append_entries of a consistent message: what it cuts off and puts in place.
LEMMA AcceptedKeepsLog ==
    ASSUME ElectionInv, ElectionInv', TermsGrow, LogInv, NEW n \in Nodes, NEW m \in msgs,
           AppendAccepted(n, m)
    PROVE  LogInv'
<1> DEFINE merged == Merge(log[n], m.prevIndex, m.entries)
           p == LogPiece(log[n])
           q == LogPiece(merged)
<1>1. /\ m.kind = "append" /\ Consistent(n, m)
      /\ log' = [log EXCEPT ![n] = merged]
      /\ msgs' = msgs \cup {Answer(n, m, m.term, TRUE, Len(merged))}
      /\ nextIndex' = nextIndex /\ proposals' = proposals
      /\ state' = [state EXCEPT ![n] = "Follower"]
  BY DEF AppendAccepted, Follow, leaderVars, counters
<1>2. /\ log \in [Nodes -> Seq(LogEntry)] /\ log[n] \in Seq(LogEntry) /\ IsPiece(m)
      /\ m \in Pieces /\ p \in Pieces
  BY <1>1 DEF LogInv, LogTypeOK, Pieces
<1>3. \A h \in Pieces : IsPiece(h) /\ Agree(p, h) /\ Agree(m, h)
  BY <1>2, PiecesTyped DEF LogInv, PiecesAgree
<1>4. m.prevIndex <= Len(log[n]) /\ TermIn(p, m.prevIndex) = m.prevTerm
  <2>1. m.prevIndex \in Nat /\ Len(log[n]) \in Nat /\ (m.prevIndex = 0 => m.prevTerm = 0)
    BY <1>2 DEF IsPiece
  <2>2. TermIn(p, 0) = 0 /\ \A i \in 1 .. Len(log[n]) : TermIn(p, i) = log[n][i].term
    BY <1>2, LogSpan
  <2> HIDE DEF p
  <2>3. QED
    BY <1>1, <2>1, <2>2 DEF Consistent
<1>5. /\ merged \in Seq(LogEntry)
      /\ \A h \in Pieces : Agree(q, h)
      /\ \A i \in Span(q) : \/ i \in Span(p) /\ TermIn(q, i) = TermIn(p, i)
                            \/ i \in Span(m) /\ TermIn(q, i) = TermIn(m, i)
  <2>1. ASSUME NEW h \in Pieces
        PROVE  /\ merged \in Seq(LogEntry)
               /\ Agree(q, h)
               /\ \A i \in Span(q) : \/ i \in Span(p) /\ TermIn(q, i) = TermIn(p, i)
                                     \/ i \in Span(m) /\ TermIn(q, i) = TermIn(m, i)
    BY <1>2, <1>3, <1>4, MergeAgrees
  <2> HIDE DEF merged, p, q
  <2>2. QED
    BY <1>2, <2>1
<1>6. \A k \in Nodes : state'[k] = "Leader" => k # n
  BY <1>1 DEF ElectionInv, ElectionTypeOK
<1> HIDE DEF merged, p, q
<1>7. \A k \in Nodes : log'[k] = IF k = n THEN merged ELSE log[k]
  BY <1>1, <1>2
<1>8. /\ Answer(n, m, m.term, TRUE, Len(merged)).kind = "appended"
      /\ Answer(n, m, m.term, TRUE, Len(merged)).match \in Nat
  BY <1>5 DEF Answer
<1>9. LogTypeOK'
  <2>1. log' \in [Nodes -> Seq(LogEntry)]
    BY <1>1, <1>2, <1>5
  <2>2. \A x \in msgs' : /\ x.kind = "append" => IsPiece(x)
                         /\ x.kind = "appended" => x.match \in Nat
    BY <1>1, <1>8 DEF LogInv, LogTypeOK
  <2>3. QED
    BY <1>1, <2>1, <2>2, PositiveTerms DEF LogInv, LogTypeOK
<1>10. \A g \in Pieces' : g \in Pieces \/ g = q
  BY <1>1, <1>7, <1>8 DEF Pieces, q
<1>11. PiecesAgree'
  <2>1. Agree(q, q)
    BY DEF Agree
  <2>2. \A f, g \in Pieces : Agree(f, g)
    BY DEF LogInv, PiecesAgree
  <2>3. \A f, g \in Pieces \cup {q} : Agree(f, g)
    BY <1>5, <2>1, <2>2, AgreeSym
  <2>4. QED
    BY <1>10, <2>3 DEF PiecesAgree
<1>12. \A k \in Nodes : state'[k] = "Leader" => Len(log[k]) <= Len(log'[k])
  <2>1. \A k \in Nodes : Len(log[k]) \in Nat
    BY <1>2
  <2>2. QED
    BY <1>6, <1>7, <2>1
<1>13. \A g \in Pieces' : \A i \in Span(g) :
          \E f \in Pieces : i \in Span(f) /\ TermIn(f, i) = TermIn(g, i)
  BY <1>2, <1>5, <1>10
<1>14. QED
  BY <1>9, <1>11, <1>12, <1>13, PiecesKeep

\* Every log is empty and no message is on its way.
LEMMA InitLog == Init => LogInv
<1> SUFFICES ASSUME Init PROVE LogInv
  OBVIOUS
<1>1. \A f \in Pieces : f = LogPiece(<<>>)
  BY DEF Init, Pieces
<1>2. Span(LogPiece(<<>>)) = {0} /\ TermIn(LogPiece(<<>>), 0) = 0
  <2>1. <<>> \in Seq(LogEntry) /\ Len(<<>>) = 0
    BY EmptySeq
  <2>2. Span(LogPiece(<<>>)) = 0 .. Len(<<>>) /\ TermIn(LogPiece(<<>>), 0) = 0
    BY <2>1, LogSpan
  <2>3. QED
    BY <2>1, <2>2
<1>3. LogTypeOK
  BY DEF Init, LogTypeOK
<1>4. PiecesAgree
  BY <1>1 DEF PiecesAgree, Agree
<1>5. TermsLed
  BY <1>1, <1>2 DEF TermsLed
<1>6. LeaderAhead
  BY DEF Init, LeaderAhead
<1>7. QED
  BY <1>3, <1>4, <1>5, <1>6 DEF LogInv

\* Every handler of RaftConsensus keeps the invariant of the logs.
LEMMA StepLog == ElectionInv /\ ElectionInv' /\ LogInv /\ [Next]_vars => LogInv'
<1> SUFFICES ASSUME ElectionInv, ElectionInv', LogInv, [Next]_vars PROVE LogInv'
  OBVIOUS
<1>1. TermsGrow
  BY StepTermsGrow
<1>2. /\ nextIndex \in [Nodes -> [Nodes -> Nat \ {0}]]
      /\ \A m \in msgs : m.kind = "appended" => m.match \in Nat
  BY DEF LogInv, LogTypeOK
<1>3. ASSUME NEW n \in Nodes, Timeout(n) \/ Heartbeat(n) \/ Propose(n) PROVE LogInv'
  <2>1. CASE Timeout(n)
    <3>1. UNCHANGED <<log, proposals>> /\ nextIndex' = nextIndex
      BY <2>1 DEF Timeout, logVars, leaderVars
    <3>2. \A m \in msgs' \ msgs : m.kind = "request"
      BY <2>1 DEF Timeout
    <3>3. QED
      BY <1>1, <1>2, <3>1, <3>2, QuietKeeps
  <2>2. QED
    BY <1>1, <1>3, <2>1, HeartbeatKeepsLog, ProposeKeepsLog
<1>4. ASSUME NEW n \in Nodes, NEW m \in msgs, Receive(n, m) PROVE LogInv'
  <2>1. CASE HandleRequestVote(n, m)
    <3>1. UNCHANGED <<log, proposals>> /\ nextIndex' = nextIndex
      BY <2>1 DEF HandleRequestVote, logVars, leaderVars, counters
    <3>2. \A x \in msgs' \ msgs : x.kind = "vote"
      BY <2>1 DEF HandleRequestVote
    <3>3. QED
      BY <1>1, <1>2, <3>1, <3>2, QuietKeeps
  <2>2. CASE StepDown(n, m)
    <3>1. UNCHANGED <<log, proposals>> /\ nextIndex' = nextIndex /\ msgs' = msgs
      BY <2>2 DEF StepDown, logVars, leaderVars, counters
    <3>2. QED
      BY <1>1, <1>2, <3>1, QuietKeeps
  <2>3. CASE HandleVoteResponse(n, m)
    BY <1>1, <2>3, VoteResponseKeepsLog
  <2>4. CASE AppendStale(n, m) \/ AppendRejected(n, m)
    <3>1. UNCHANGED <<log, proposals>> /\ nextIndex' = nextIndex
      BY <2>4 DEF AppendStale, AppendRejected, logVars, leaderVars, counters
    <3>2. \A x \in msgs' \ msgs : x.kind = "appended" /\ x.match = 0
      BY <2>4 DEF AppendStale, AppendRejected, Answer
    <3>3. QED
      BY <1>1, <1>2, <3>1, <3>2, QuietKeeps
  <2>5. CASE AppendAccepted(n, m)
    BY <1>1, <2>5, AcceptedKeepsLog
  <2>6. CASE AppendedOk(n, m)
    <3>1. UNCHANGED <<log, proposals>> /\ msgs' = msgs
          /\ nextIndex' = [nextIndex EXCEPT ![n][m.from] = m.match + 1] /\ m.match + 1 \in Nat \ {0}
      BY <1>2, <2>6 DEF AppendedOk, counters
    <3>2. nextIndex' \in [Nodes -> [Nodes -> Nat \ {0}]]
      <4>1. [nextIndex[n] EXCEPT ![m.from] = m.match + 1] \in [Nodes -> Nat \ {0}]
        BY <1>2, <3>1
      <4>2. nextIndex' = [nextIndex EXCEPT ![n] = [nextIndex[n] EXCEPT ![m.from] = m.match + 1]]
        BY <3>1
      <4>3. QED
        BY <1>2, <4>1, <4>2
    <3>3. QED
      BY <1>1, <3>1, <3>2, QuietKeeps
  <2>7. CASE AppendedNo(n, m)
    <3>1. UNCHANGED <<log, proposals>> /\ msgs' = msgs
          /\ nextIndex' = [nextIndex EXCEPT ![n][m.from] = IF @ > 1 THEN @ - 1 ELSE 1]
      BY <2>7 DEF AppendedNo, logVars, counters
    <3>2. nextIndex' \in [Nodes -> [Nodes -> Nat \ {0}]]
      <4> DEFINE x == IF nextIndex[n][m.from] > 1 THEN nextIndex[n][m.from] - 1 ELSE 1
      <4>1. nextIndex[n] \in [Nodes -> Nat \ {0}] /\ m.from \in Nodes
        BY <1>2 DEF ElectionInv, ElectionTypeOK
      <4>2. x \in Nat \ {0}
        BY <4>1
      <4>3. nextIndex' = [nextIndex EXCEPT ![n] = [nextIndex[n] EXCEPT ![m.from] = x]]
        BY <3>1
      <4> HIDE DEF x
      <4>4. QED
        BY <1>2, <4>1, <4>2, <4>3
    <3>3. QED
      BY <1>1, <3>1, <3>2, QuietKeeps
  <2>8. QED
    BY <1>4, <2>1, <2>2, <2>3, <2>4, <2>5, <2>6, <2>7 DEF Receive
<1>5. CASE UNCHANGED vars
  <2>1. UNCHANGED <<log, proposals>> /\ nextIndex' = nextIndex /\ msgs' = msgs
    BY <1>5 DEF vars, logVars, leaderVars, counters
  <2>2. QED
    BY <1>1, <1>2, <2>1, QuietKeeps
<1>6. QED
  BY <1>3, <1>4, <1>5 DEF Next

\* The logs, and every AppendEntries ever sent, are stretches that agree: an entry of a
\* term was made by that term's leader (become_leader, propose), and what
\* handle_append_entries puts in place agrees with what was there before.
THEOREM LogInvariant == Spec => []LogInv
<1>1. ElectionInv /\ ElectionInv' /\ LogInv /\ [Next]_vars => LogInv'
  BY StepLog
<1>2. QED
  BY <1>1, InitLog, Invariant, PTL DEF Spec

\* Two logs are pieces; where entries of both have one term, they agree up to there.
LEMMA InvImpliesMatching == LogInv => LogMatching
<1> SUFFICES ASSUME LogInv, NEW n \in Nodes, NEW p \in Nodes,
                    NEW i \in DOMAIN log[n] \cap DOMAIN log[p], log[n][i].term = log[p][i].term
             PROVE  SubSeq(log[n], 1, i) = SubSeq(log[p], 1, i)
  BY DEF LogMatching
<1> DEFINE l == log[n]
           k == log[p]
<1>1. l \in Seq(LogEntry) /\ k \in Seq(LogEntry) /\ i \in 1 .. Len(l) /\ i \in 1 .. Len(k)
  BY DEF LogInv, LogTypeOK
<1>2. Agree(LogPiece(l), LogPiece(k))
  BY DEF LogInv, PiecesAgree, Pieces
<1>3. l[i].term = k[i].term
  OBVIOUS
<1> HIDE DEF l, k
<1>4. LogPiece(l).prevIndex = 0 /\ LogPiece(k).prevIndex = 0
  BY DEF LogPiece
<1>5. \A j \in 1 .. i : l[j] = k[j]
  <2> TAKE j \in 1 .. i
  <2>1. /\ i \in Span(LogPiece(l)) /\ i \in Span(LogPiece(k))
        /\ j \in Span(LogPiece(l)) /\ j \in Span(LogPiece(k))
        /\ TermIn(LogPiece(l), i) = TermIn(LogPiece(k), i)
        /\ EntryIn(LogPiece(l), j) = l[j] /\ EntryIn(LogPiece(k), j) = k[j]
    BY <1>1, <1>3, LogSpan
  <2>2. QED
    BY <1>1, <1>2, <1>4, <2>1 DEF Agree
<1>6. /\ SubSeq(l, 1, i) \in Seq(LogEntry) /\ Len(SubSeq(l, 1, i)) = i
      /\ \A j \in 1 .. i : SubSeq(l, 1, i)[j] = l[j]
      /\ SubSeq(k, 1, i) \in Seq(LogEntry) /\ Len(SubSeq(k, 1, i)) = i
      /\ \A j \in 1 .. i : SubSeq(k, 1, i)[j] = k[j]
  BY <1>1
<1>7. SubSeq(l, 1, i) = SubSeq(k, 1, i)
  BY <1>1, <1>5, <1>6, SeqEqual
<1>8. QED
  BY <1>7 DEF l, k

\* Log matching: two nodes whose logs have an entry of the same index and term have the
\* same entries up to it, whatever handle_append_entries cut off or was sent twice, late
\* or out of order.
THEOREM LogsMatch == Spec => []LogMatching
BY LogInvariant, InvImpliesMatching, PTL

\* Only propose changes the log of a node that leads, and only at its end.
LEMMA StepLeaderKeeps == LogInv /\ ElectionInv /\ [Next]_vars => [LeaderKeepsLog]_vars
<1> SUFFICES ASSUME LogInv, ElectionInv, Next, NEW k \in Nodes, state'[k] = "Leader"
             PROVE  IsPrefixOf(log[k], log'[k])
  BY DEF LeaderKeepsLog
<1>1. log \in [Nodes -> Seq(LogEntry)]
  BY DEF LogInv, LogTypeOK
<1>2. CASE log'[k] = log[k]
  <2>1. Len(log[k]) \in Nat /\ SubSeq(log[k], 1, Len(log[k])) = log[k]
    BY <1>1, SubSeqFull
  <2>2. QED
    BY <1>2, <2>1 DEF IsPrefixOf
<1>3. ASSUME NEW e, log'[k] = Append(log[k], e)
      PROVE  IsPrefixOf(log[k], log'[k])
  <2> DEFINE S == LogEntry \cup {e}
  <2>1. log[k] \in Seq(S) /\ e \in S
    BY <1>1, SeqMonotonic
  <2>2. /\ log'[k] \in Seq(S) /\ Len(log'[k]) = Len(log[k]) + 1 /\ Len(log[k]) \in Nat
        /\ \A i \in 1 .. Len(log[k]) : log'[k][i] = log[k][i]
    BY <1>3, <2>1
  <2> HIDE DEF S
  <2>3. /\ SubSeq(log'[k], 1, Len(log[k])) \in Seq(S)
        /\ Len(SubSeq(log'[k], 1, Len(log[k]))) = Len(log[k])
        /\ \A i \in 1 .. Len(log[k]) : SubSeq(log'[k], 1, Len(log[k]))[i] = log[k][i]
    BY <2>1, <2>2
  <2>4. SubSeq(log'[k], 1, Len(log[k])) = log[k]
    BY <2>1, <2>3, SeqEqual
  <2>5. QED
    BY <2>2, <2>4 DEF IsPrefixOf
<1>4. ASSUME NEW n \in Nodes, NEW e, log' = [log EXCEPT ![n] = Append(log[n], e)]
      PROVE  IsPrefixOf(log[k], log'[k])
  BY <1>1, <1>2, <1>3, <1>4
<1>5. ASSUME NEW n \in Nodes, NEW m, AppendAccepted(n, m)
      PROVE  log'[k] = log[k]
  <2>1. state' = [state EXCEPT ![n] = "Follower"]
    BY <1>5 DEF AppendAccepted, Follow
  <2>2. k # n
    BY <2>1 DEF ElectionInv, ElectionTypeOK
  <2>3. PICK l : log' = [log EXCEPT ![n] = l]
    BY <1>5 DEF AppendAccepted
  <2>4. QED
    BY <1>1, <2>2, <2>3
<1>6. \A n : Timeout(n) \/ Heartbeat(n) => log' = log
  BY DEF Timeout, Heartbeat, logVars
<1>7. \A n : Propose(n) => \E e : log' = [log EXCEPT ![n] = Append(log[n], e)]
  BY DEF Propose
<1>8. \A n, m : Receive(n, m) => log' = log \/ AppendAccepted(n, m)
  <2>1. \A n, m : HandleRequestVote(n, m) \/ StepDown(n, m) \/ HandleVoteResponse(n, m)
                     => log' = log
    BY DEF HandleRequestVote, StepDown, HandleVoteResponse, logVars
  <2>2. \A n, m : AppendStale(n, m) \/ AppendRejected(n, m) \/ AppendedOk(n, m)
                     \/ AppendedNo(n, m) => log' = log
    BY DEF AppendStale, AppendRejected, AppendedOk, AppendedNo, logVars
  <2>3. QED
    BY <2>1, <2>2 DEF Receive
<1>9. QED
  BY <1>2, <1>4, <1>5, <1>6, <1>7, <1>8 DEF Next

\* A leader never removes or overwrites an entry of its own log.
THEOREM LeadersKeepLogs == Spec => [][LeaderKeepsLog]_vars
BY StepLeaderKeeps, LogInvariant, Invariant, PTL DEF Spec

(***************************************************************************)
(* The evolved node.  Its handlers are the seed's but for the answers to   *)
(* AppendEntries; election safety and log matching hold of it too.         *)
(***************************************************************************)

\* A step of the evolved node is one of the seed or an answer it takes its own way.
LEMMA EvolvedStep ==
    ASSUME [NextV2]_vars
    PROVE  \/ [Next]_vars
           \/ \E n \in Nodes : \E m \in {x \in msgs : x.to = n} : AppendedOkV2(n, m) \/ RetryV2(n, m)
<1>1. CASE UNCHANGED vars
  BY <1>1
<1>2. ASSUME NEW n \in Nodes, CampaignV2(n) \/ BeatV2(n) \/ ProposeV2(n) PROVE Next
  BY <1>2 DEF CampaignV2, BeatV2, ProposeV2, Next
<1>3. ASSUME NEW n \in Nodes, NEW m \in {x \in msgs : x.to = n},
             VoteV2(n, m) \/ StepDownV2(n, m) \/ CountV2(n, m) \/ AppendV2(n, m)
      PROVE  Next
  <2>1. Receive(n, m)
    BY <1>3 DEF VoteV2, StepDownV2, CountV2, AppendV2, Receive
  <2>2. QED
    BY <1>3, <2>1 DEF Next
<1>4. QED
  BY <1>1, <1>2, <1>3 DEF NextV2, StepV2

\* What such an answer makes a leader do: raise a match index, or send entries of its
\* log to one follower.
LEMMA AnswerTaken ==
    ASSUME ElectionInv, NEW n \in Nodes, NEW m \in msgs, AppendedOkV2(n, m) \/ RetryV2(n, m)
    PROVE  /\ state[n] = "Leader" /\ UNCHANGED electionVars /\ UNCHANGED <<log, proposals>>
           /\ \E S \in SUBSET AppendEntries(n, log[n], nextIndex'[n]) : msgs' = msgs \cup S
<1>1. CASE AppendedOkV2(n, m)
  <2>1. state[n] = "Leader" /\ UNCHANGED electionVars /\ UNCHANGED <<log, proposals, msgs>>
    BY <1>1 DEF AppendedOkV2, counters
  <2>2. msgs' = msgs \cup {}
    BY <2>1
  <2>3. QED
    BY <2>1, <2>2
<1>2. CASE RetryV2(n, m)
  <2>1. state[n] = "Leader" /\ UNCHANGED electionVars /\ UNCHANGED <<log, proposals>>
    BY <1>2 DEF RetryV2, logVars, counters
  <2>2. msgs' = msgs \cup {a \in AppendEntries(n, log[n], nextIndex'[n]) : a.to = m.from}
    BY <1>2 DEF RetryV2
  <2> DEFINE S == {a \in AppendEntries(n, log[n], nextIndex'[n]) : a.to = m.from}
  <2>3. S \subseteq AppendEntries(n, log[n], nextIndex'[n]) /\ msgs' = msgs \cup S
    BY <2>2
  <2> HIDE DEF S
  <2>4. QED
    BY <2>1, <2>3
<1>3. QED
  BY <1>1, <1>2

\* It gives no vote and sends AppendEntries as the leader that it is.
LEMMA AnswerKeepsElection ==
    ASSUME ElectionInv, NEW n \in Nodes, NEW m \in msgs, AppendedOkV2(n, m) \/ RetryV2(n, m)
    PROVE  ElectionInv' /\ TermsGrow
<1>1. state[n] = "Leader" /\ UNCHANGED electionVars
  BY AnswerTaken
<1>2. PICK S \in SUBSET AppendEntries(n, log[n], nextIndex'[n]) : msgs' = msgs \cup S
  BY AnswerTaken
<1>3. \A x \in AppendEntries(n, log[n], nextIndex'[n]) :
         /\ x.from = n /\ x.to \in Nodes /\ x.to # n
         /\ x.term = currentTerm[n] /\ x.kind = "append"
  BY AppendsFields
<1>4. \A x \in S : /\ x.from \in Nodes /\ x.to \in Nodes /\ x.from # x.to
                   /\ x.term = currentTerm[x.from]
                   /\ x.kind = "appended" \/ (x.kind = "append" /\ state[x.from] = "Leader")
  BY <1>1, <1>2, <1>3
<1>5. ElectionInv'
  BY <1>1, <1>2, <1>4, PassiveKeeps
<1>6. TermsGrow
  BY <1>1, <1>2 DEF TermsGrow, electionVars, ElectionInv, ElectionTypeOK
<1>7. QED
  BY <1>5, <1>6

\* It sends pieces of a log that agree with all there are.
LEMMA AnswerKeepsLogs ==
    ASSUME ElectionInv, LogInv, NEW n \in Nodes, NEW m \in msgs, AppendedOkV2(n, m) \/ RetryV2(n, m)
    PROVE  LogInv'
<1>1. ElectionInv' /\ TermsGrow
  BY AnswerKeepsElection
<1>2. state[n] = "Leader" /\ UNCHANGED electionVars /\ UNCHANGED <<log, proposals>>
  BY AnswerTaken
<1>3. PICK S \in SUBSET AppendEntries(n, log[n], nextIndex'[n]) : msgs' = msgs \cup S
  BY AnswerTaken
<1>4. /\ nextIndex \in [Nodes -> [Nodes -> Nat \ {0}]] /\ nextIndex[n] \in [Nodes -> Nat \ {0}]
      /\ m.from \in Nodes /\ log \in [Nodes -> Seq(LogEntry)] /\ proposals \in Nat
      /\ m.kind = "appended" => m.match \in Nat
  BY DEF LogInv, LogTypeOK, ElectionInv, ElectionTypeOK
<1>5. nextIndex' \in [Nodes -> [Nodes -> Nat \ {0}]]
  <2>1. PICK x \in Nat \ {0} : nextIndex' = [nextIndex EXCEPT ![n][m.from] = x]
    <3> DEFINE match == [matchIndex[n] EXCEPT ![m.from] = Reported(n, m)]
               x == IF match = matchIndex[n] THEN nextIndex[n][m.from] ELSE m.match + 1
               y == IF nextIndex[n][m.from] > 1 THEN nextIndex[n][m.from] - 1 ELSE 1
    <3>1. CASE AppendedOkV2(n, m)
      <4>1. nextIndex' = [nextIndex EXCEPT ![n][m.from] = x]
        BY <3>1 DEF AppendedOkV2
      <4>2. x \in Nat \ {0}
        BY <1>4, <3>1 DEF AppendedOkV2
      <4> HIDE DEF x
      <4>3. QED
        BY <4>1, <4>2
    <3>2. CASE RetryV2(n, m)
      <4>1. nextIndex' = [nextIndex EXCEPT ![n][m.from] = y]
        BY <3>2 DEF RetryV2
      <4>2. y \in Nat \ {0}
        BY <1>4
      <4> HIDE DEF y
      <4>3. QED
        BY <4>1, <4>2
    <3>3. QED
      BY <3>1, <3>2
  <2>2. [nextIndex[n] EXCEPT ![m.from] = x] \in [Nodes -> Nat \ {0}]
    BY <1>4, <2>1
  <2>3. nextIndex' = [nextIndex EXCEPT ![n] = [nextIndex[n] EXCEPT ![m.from] = x]]
    BY <2>1
  <2>4. QED
    BY <1>4, <2>2, <2>3
<1>6. /\ log[n] \in Seq(LogEntry) /\ nextIndex'[n] \in [Nodes -> Nat \ {0}]
      /\ log' = [log EXCEPT ![n] = log[n]] /\ Len(log[n]) <= Len(log[n])
      /\ state'[n] = "Leader" /\ proposals' \in Nat
  BY <1>2, <1>4, <1>5 DEF electionVars
<1>7. \A h \in Pieces : Agree(LogPiece(log[n]), h)
  BY DEF LogInv, PiecesAgree, Pieces
<1>8. \A x \in msgs' : x \in msgs \/ x \in AppendEntries(n, log[n], nextIndex'[n])
  BY <1>3
<1>9. PICK next \in [Nodes -> Nat \ {0}] : next = nextIndex'[n]
  BY <1>6
<1>10. \A x \in msgs' : x \in msgs \/ x \in AppendEntries(n, log[n], next)
  BY <1>8, <1>9
<1>11. QED
  BY <1>1, <1>5, <1>6, <1>7, <1>10, SendKeeps

\* So every handler of the evolved node keeps both invariants.
LEMMA EvolvedKeeps ==
    ElectionInv /\ LogInv /\ [NextV2]_vars => ElectionInv' /\ LogInv' /\ TermsGrow
<1> SUFFICES ASSUME ElectionInv, LogInv, [NextV2]_vars PROVE ElectionInv' /\ LogInv' /\ TermsGrow
  OBVIOUS
<1>1. CASE [Next]_vars
  BY <1>1, StepElection, StepLog, StepTermsGrow
<1>2. ASSUME NEW n \in Nodes, NEW m \in msgs, AppendedOkV2(n, m) \/ RetryV2(n, m)
      PROVE  ElectionInv' /\ LogInv' /\ TermsGrow
  BY <1>2, AnswerKeepsElection, AnswerKeepsLogs
<1>3. QED
  BY <1>1, <1>2, EvolvedStep

\* Elections and logs of the evolved node, in every reachable state.
THEOREM InvariantV2 == SpecV2 => [](ElectionInv /\ LogInv)
<1>1. Init => ElectionInv /\ LogInv
  BY InitElection, InitLog
<1>2. QED
  BY <1>1, EvolvedKeeps, PTL DEF SpecV2

\* At most one evolved node leads in a term.
THEOREM OneLeaderPerTermV2 == SpecV2 => []ElectionSafety
BY InvariantV2, InvImpliesSafety, PTL

\* Log matching of the evolved node, although a rejection is answered at once with
\* entries from further back.
THEOREM LogsMatchV2 == SpecV2 => []LogMatching
BY InvariantV2, InvImpliesMatching, PTL

\* The evolved node does not take a vote back in its term, nor lower a term.
THEOREM VotesAreKeptV2 == SpecV2 => VoteOnce
<1>1. ElectionInv /\ [NextV2]_vars => [\A n \in Nodes : VoteStays(n)]_vars
  <2> SUFFICES ASSUME ElectionInv, [NextV2]_vars, vars' # vars, NEW k \in Nodes
               PROVE  VoteStays(k)
    OBVIOUS
  <2>1. CASE Next
    BY <2>1, StepVotes
  <2>2. CASE UNCHANGED electionVars
    BY <2>2 DEF VoteStays, electionVars, ElectionInv, ElectionTypeOK
  <2>3. QED
    BY <2>1, <2>2, EvolvedStep, AnswerTaken
<1>2. (\A n \in Nodes : VoteStays(n)) =>
        \A n \in Nodes :
            /\ currentTerm'[n] >= currentTerm[n]
            /\ currentTerm'[n] = currentTerm[n] /\ votedFor[n] # None => votedFor'[n] = votedFor[n]
  BY DEF VoteStays
<1>3. SpecV2 => []ElectionInv
  BY InvariantV2, PTL
<1>4. QED
  BY <1>1, <1>2, <1>3, PTL DEF SpecV2, VoteOnce

\* A leader of the evolved version never removes or overwrites an entry of its own log.
THEOREM LeadersKeepLogsV2 == SpecV2 => [][LeaderKeepsLog]_vars
<1>1. LogInv /\ ElectionInv /\ [NextV2]_vars => [LeaderKeepsLog]_vars
  <2> SUFFICES ASSUME LogInv, ElectionInv, [NextV2]_vars PROVE [LeaderKeepsLog]_vars
    OBVIOUS
  <2>1. CASE [Next]_vars
    BY <2>1, StepLeaderKeeps
  <2>2. ASSUME log' = log PROVE LeaderKeepsLog
    <3> SUFFICES ASSUME NEW k \in Nodes PROVE IsPrefixOf(log[k], log'[k])
      BY DEF LeaderKeepsLog
    <3>1. log[k] \in Seq(LogEntry)
      BY DEF LogInv, LogTypeOK
    <3>2. Len(log[k]) \in Nat /\ SubSeq(log[k], 1, Len(log[k])) = log[k]
      BY <3>1, SubSeqFull
    <3>3. QED
      BY <2>2, <3>2 DEF IsPrefixOf
  <2>3. QED
    BY <2>1, <2>2, EvolvedStep, AnswerTaken
<1>2. QED
  BY <1>1, InvariantV2, PTL DEF SpecV2
(***************************************************************************)
(* The commit index, in both versions.                                     *)
(***************************************************************************)

\* What apply_committed relies on: everything up to the commit index is applied, and
\* nothing more as long as no leader told of a commit index beyond its log.
CommitInv ==
    /\ commitIndex \in [Nodes -> Nat]
    /\ applied \in [Nodes -> Seq(LogEntry)]
    /\ \A m \in msgs : m.kind = "append" => m.commit \in Nat
    /\ \A n \in Nodes : /\ Len(applied[n]) >= commitIndex[n]
                        /\ CommitsCovered => Len(applied[n]) = commitIndex[n]

\* What a step may do to a node's commit index and to what it has applied.
CommitMoves(n) ==
    /\ IsPrefixOf(applied[n], applied'[n])
    /\ Len(applied'[n]) >= commitIndex'[n]
    /\ CommitsCovered => /\ commitIndex'[n] >= commitIndex[n]
                         /\ Len(applied'[n]) = commitIndex'[n]

\* apply_committed appends the entries it lacks, and stops at the commit index.
LEMMA ApplyAppends ==
    ASSUME NEW a \in Seq(LogEntry), NEW l \in Seq(LogEntry), NEW c \in Nat,
           c <= Len(a) \/ c <= Len(l)
    PROVE  LET b == a \o SubSeq(l, Len(a) + 1, c)
           IN  /\ b \in Seq(LogEntry) /\ IsPrefixOf(a, b)
               /\ Len(b) = IF c > Len(a) THEN c ELSE Len(a)
<1> DEFINE s == SubSeq(l, Len(a) + 1, c)
           b == a \o s
<1>1. Len(a) \in Nat /\ Len(l) \in Nat
  OBVIOUS
<1>2. s \in Seq(LogEntry) /\ Len(s) = IF c > Len(a) THEN c - Len(a) ELSE 0
  <2>1. CASE c <= Len(a)
    <3>1. s = <<>>
      BY <1>1, <2>1
    <3>2. QED
      BY <1>1, <2>1, <3>1
  <2>2. CASE c > Len(a) /\ c <= Len(l)
    BY <1>1, <2>2
  <2>3. QED
    BY <1>1, <2>1, <2>2
<1> HIDE DEF s
<1>3. /\ b \in Seq(LogEntry) /\ Len(b) = Len(a) + Len(s)
      /\ \A i \in 1 .. Len(a) : b[i] = a[i]
  BY <1>1, <1>2
<1>4. Len(b) = IF c > Len(a) THEN c ELSE Len(a)
  BY <1>1, <1>2, <1>3
<1> HIDE DEF b
<1>5. Len(a) <= Len(b) /\ Len(b) \in Nat
  BY <1>1, <1>4
<1>6. /\ SubSeq(b, 1, Len(a)) \in Seq(LogEntry) /\ Len(SubSeq(b, 1, Len(a))) = Len(a)
      /\ \A i \in 1 .. Len(a) : SubSeq(b, 1, Len(a))[i] = b[i]
  BY <1>1, <1>3, <1>5
<1>7. SubSeq(b, 1, Len(a)) = a
  BY <1>3, <1>6, SeqEqual
<1>8. IsPrefixOf(a, b)
  BY <1>5, <1>7 DEF IsPrefixOf
<1>9. QED
  BY <1>3, <1>4, <1>8 DEF b, s

\* A call that leaves the commit index alone.
LEMMA CommitStays ==
    ASSUME CommitInv, UNCHANGED <<commitIndex, applied>>, msgs \subseteq msgs',
           \A m \in msgs' \ msgs : m.kind = "append" => m.commit \in Nat
    PROVE  CommitInv' /\ \A n \in Nodes : CommitMoves(n)
<1>1. CommitsCovered' => CommitsCovered
  BY DEF CommitsCovered
<1>2. CommitInv'
  BY <1>1 DEF CommitInv
<1>3. ASSUME NEW n \in Nodes PROVE CommitMoves(n)
  <2>1. applied[n] \in Seq(LogEntry) /\ commitIndex[n] \in Nat
    BY DEF CommitInv
  <2>2. IsPrefixOf(applied[n], applied'[n])
    <3>1. Len(applied[n]) \in Nat /\ SubSeq(applied[n], 1, Len(applied[n])) = applied[n]
      BY <2>1, SubSeqFull
    <3>2. QED
      BY <3>1 DEF IsPrefixOf
  <2>3. QED
    BY <2>1, <2>2 DEF CommitInv, CommitMoves
<1>4. QED
  BY <1>2, <1>3

\* A call that moves n's commit index within its log, and applies.
LEMMA CommitApplied ==
    ASSUME CommitInv, NEW n \in Nodes, NEW l \in Seq(LogEntry), NEW c \in Nat,
           c = commitIndex[n] \/ c <= Len(l),
           CommitsCovered => c >= commitIndex[n],
           commitIndex' = [commitIndex EXCEPT ![n] = c],
           applied' = [applied EXCEPT ![n] = Apply(n, l, c)],
           msgs \subseteq msgs',
           \A m \in msgs' \ msgs : m.kind = "append" => m.commit \in Nat
    PROVE  CommitInv' /\ \A k \in Nodes : CommitMoves(k)
<1> DEFINE a == applied[n]
           b == a \o SubSeq(l, Len(a) + 1, c)
<1>1. /\ a \in Seq(LogEntry) /\ Len(a) \in Nat /\ commitIndex[n] \in Nat
      /\ commitIndex[n] <= Len(a) /\ (CommitsCovered => Len(a) = commitIndex[n])
  BY DEF CommitInv
<1>2. c <= Len(a) \/ c <= Len(l)
  BY <1>1
<1>3. b \in Seq(LogEntry) /\ IsPrefixOf(a, b) /\ Len(b) = IF c > Len(a) THEN c ELSE Len(a)
  BY <1>1, <1>2, ApplyAppends
<1>4. applied' = [applied EXCEPT ![n] = b]
  BY DEF Apply
<1> HIDE DEF a, b
<1>5. Len(b) >= c /\ (CommitsCovered => Len(b) = c)
  BY <1>1, <1>3
<1>6. CommitsCovered' => CommitsCovered
  BY DEF CommitsCovered
<1>7. applied \in [Nodes -> Seq(LogEntry)] /\ commitIndex \in [Nodes -> Nat]
  BY DEF CommitInv
<1>8. applied' \in [Nodes -> Seq(LogEntry)] /\ commitIndex' \in [Nodes -> Nat]
  BY <1>3, <1>4, <1>7
<1>9. ASSUME NEW k \in Nodes PROVE CommitMoves(k)
  <2>1. CASE k = n
    <3>1. applied'[k] = b /\ commitIndex'[k] = c /\ applied[k] = a
      BY <1>4, <1>7, <2>1 DEF a
    <3>2. QED
      BY <1>3, <1>5, <2>1, <3>1 DEF CommitMoves
  <2>2. CASE k # n
    <3>1. applied'[k] = applied[k] /\ commitIndex'[k] = commitIndex[k]
      BY <1>4, <1>7, <2>2
    <3>2. applied[k] \in Seq(LogEntry) /\ commitIndex[k] \in Nat
      BY <1>7
    <3>3. Len(applied[k]) \in Nat /\ SubSeq(applied[k], 1, Len(applied[k])) = applied[k]
      BY <3>2, SubSeqFull
    <3>4. IsPrefixOf(applied[k], applied'[k])
      BY <3>1, <3>3 DEF IsPrefixOf
    <3>5. QED
      BY <3>1, <3>2, <3>4 DEF CommitInv, CommitMoves
  <2>3. QED
    BY <2>1, <2>2
<1>10. \A k \in Nodes : /\ Len(applied'[k]) >= commitIndex'[k]
                        /\ CommitsCovered' => Len(applied'[k]) = commitIndex'[k]
  BY <1>6, <1>9 DEF CommitMoves
<1>11. \A m \in msgs' : m.kind = "append" => m.commit \in Nat
  BY DEF CommitInv
<1>12. CommitInv'
  BY <1>8, <1>10, <1>11 DEF CommitInv
<1>13. QED
  BY <1>9, <1>12

-----------------------------------------------------------------------------
\* The loop of try_advance_commit finds a highest index if there is one.
LEMMA HighestIndex ==
    ASSUME NEW k \in Nat, NEW S, S \subseteq 0 .. k, S # {}
    PROVE  \E i \in S : \A j \in S : j <= i
<1> DEFINE R == OpToRel(<, Nat)
           T == {k - i : i \in S}
<1>1. IsWellFoundedOn(R, Nat)
  BY NatLessThanWellFounded
<1>2. \A x, y \in Nat : x < y => <<x, y>> \in R
  BY DEF OpToRel
<1> HIDE DEF R
<1>3. T \subseteq Nat /\ T # {}
  <2>1. \A i \in S : k - i \in Nat
    OBVIOUS
  <2>2. PICK i \in S : TRUE
    OBVIOUS
  <2>3. k - i \in T
    BY <2>2
  <2>4. QED
    BY <2>1, <2>3
<1>4. PICK t \in T : \A x \in T : <<x, t>> \notin R
  <2> HIDE DEF T
  <2>1. QED
    BY <1>1, <1>3, WFMin
<1>5. \A x \in T : ~(x < t) /\ x \in Nat /\ t \in Nat
  <2> HIDE DEF T
  <2>1. QED
    BY <1>2, <1>3, <1>4, Zenon
<1>6. PICK i \in S : t = k - i
  BY <1>4
<1>7. \A j \in S : k - j \in T
  OBVIOUS
<1>8. \A j \in S : ~(k - j < k - i)
  <2> HIDE DEF T
  <2>1. QED
    BY <1>5, <1>6, <1>7
<1>9. QED
  BY <1>8

\* try_advance_commit takes the commit index forward, within the leader's log.
LEMMA LeaderCommits ==
    ASSUME NEW n \in Nodes, NEW match, log[n] \in Seq(LogEntry), commitIndex[n] \in Nat
    PROVE  LET ready == Committable(n, match)
               c == IF ready = {} THEN commitIndex[n]
                    ELSE CHOOSE i \in ready : \A j \in ready : j <= i
           IN  c \in Nat /\ c >= commitIndex[n] /\ (c = commitIndex[n] \/ c <= Len(log[n]))
<1> DEFINE ready == Committable(n, match)
           c == IF ready = {} THEN commitIndex[n]
                ELSE CHOOSE i \in ready : \A j \in ready : j <= i
<1>1. Len(log[n]) \in Nat
  OBVIOUS
<1>2. ready \subseteq commitIndex[n] + 1 .. Len(log[n])
  BY DEF Committable
<1> HIDE DEF ready
<1>3. ASSUME ready = {}
      PROVE  c \in Nat /\ c >= commitIndex[n] /\ (c = commitIndex[n] \/ c <= Len(log[n]))
  BY <1>3
<1>4. ASSUME ready # {}
      PROVE  c \in Nat /\ c >= commitIndex[n] /\ (c = commitIndex[n] \/ c <= Len(log[n]))
  <2>1. ready \subseteq 0 .. Len(log[n])
    BY <1>1, <1>2
  <2>2. \E i \in ready : \A j \in ready : j <= i
    BY <1>1, <1>4, <2>1, HighestIndex
  <2>3. c \in ready
    BY <1>4, <2>2
  <2> HIDE DEF c
  <2>4. QED
    BY <1>1, <1>2, <2>3
<1>5. QED
  BY <1>3, <1>4 DEF ready

\* A follower's new commit index lies within its log; it is lower than before only if
\* the message tells of a commit index beyond what it reaches.
LEMMA FollowerCommits ==
    ASSUME ElectionInv, LogInv, CommitInv, NEW n \in Nodes, NEW m \in msgs, m.kind = "append",
           Consistent(n, m)
    PROVE  LET merged == Merge(log[n], m.prevIndex, m.entries)
               c == CommitUpTo(n, m, merged)
           IN  /\ merged \in Seq(LogEntry) /\ c \in Nat
               /\ c = commitIndex[n] \/ c <= Len(merged)
               /\ CommitsCovered => c >= commitIndex[n]
<1> DEFINE l == log[n]
           prev == m.prevIndex
           es == m.entries
           merged == Merge(l, prev, es)
           c == CommitUpTo(n, m, merged)
<1>1. /\ l \in Seq(LogEntry) /\ Len(l) \in Nat /\ prev \in Nat
      /\ es \in Seq(LogEntry) /\ Len(es) \in Nat
  BY DEF LogInv, LogTypeOK, IsPiece
<1>2. commitIndex[n] \in Nat /\ m.commit \in Nat
  BY DEF CommitInv
<1>3. prev <= Len(l)
  BY <1>1 DEF Consistent
<1>4. CommitsCovered => m.commit <= prev + Len(es)
  BY DEF CommitsCovered
<1>5. /\ merged \in Seq(LogEntry) /\ Len(merged) \in Nat
      /\ prev + Len(es) <= Len(merged)
  <2> HIDE DEF l, prev, es
  <2>1. CASE \A i \in DOMAIN es : prev + i \in DOMAIN l /\ l[prev + i].term = es[i].term
    <3>1. merged = l
      BY <2>1 DEF Merge
    <3>2. Len(es) = 0 \/ prev + Len(es) \in DOMAIN l
      <4>1. Len(es) # 0 => Len(es) \in DOMAIN es
        BY <1>1
      <4>2. QED
        BY <2>1, <4>1
    <3>3. QED
      BY <1>1, <1>3, <3>1, <3>2
  <2>2. CASE ~\A i \in DOMAIN es : prev + i \in DOMAIN l /\ l[prev + i].term = es[i].term
    <3>1. merged = SubSeq(l, 1, prev) \o es
      BY <2>2 DEF Merge
    <3>2. SubSeq(l, 1, prev) \in Seq(LogEntry) /\ Len(SubSeq(l, 1, prev)) = prev
      BY <1>1, <1>3
    <3>3. QED
      BY <1>1, <3>1, <3>2
  <2>3. QED
    BY <2>1, <2>2
<1>6. es = <<>> <=> Len(es) = 0
  BY <1>1
<1> DEFINE last == IF es # <<>> THEN prev + Len(es) ELSE Len(merged)
<1>7. last \in Nat /\ last <= Len(merged) /\ prev + Len(es) <= last
  <2> HIDE DEF l, prev, es, merged
  <2>1. QED
    BY <1>1, <1>5
<1>8. c = IF m.commit <= commitIndex[n] THEN commitIndex[n]
          ELSE IF m.commit < last THEN m.commit ELSE last
  BY DEF CommitUpTo
<1> HIDE DEF l, prev, es, merged, last, c
<1>9. c \in Nat /\ (c = commitIndex[n] \/ c <= Len(merged)) /\ (CommitsCovered => c >= commitIndex[n])
  BY <1>1, <1>2, <1>4, <1>5, <1>7, <1>8
<1>10. QED
  BY <1>5, <1>9 DEF l, prev, es, merged, c

\* The AppendEntries a node sends tell of its own commit index.
LEMMA AppendsTell ==
    ASSUME CommitInv, NEW n \in Nodes, NEW l, NEW next, NEW m \in AppendEntries(n, l, next)
    PROVE  m.commit \in Nat
BY DEF CommitInv, AppendEntries

\* Every call of either version keeps the invariant, and moves commit indices as
\* CommitProgress says.
LEMMA CommitKeeps ==
    ElectionInv /\ LogInv /\ CommitInv /\ ([Next]_vars \/ [NextV2]_vars)
        => CommitInv' /\ \A n \in Nodes : CommitMoves(n)
<1> SUFFICES ASSUME ElectionInv, LogInv, CommitInv, [Next]_vars \/ [NextV2]_vars
             PROVE  CommitInv' /\ \A n \in Nodes : CommitMoves(n)
  OBVIOUS
<1>1. CASE UNCHANGED vars
  BY <1>1, CommitStays DEF vars, logVars
<1>2. ASSUME NEW n \in Nodes, Timeout(n) \/ Heartbeat(n) \/ Propose(n)
      PROVE  CommitInv' /\ \A k \in Nodes : CommitMoves(k)
  <2>1. CASE Timeout(n)
    <3>1. UNCHANGED <<commitIndex, applied>> /\ msgs \subseteq msgs'
      BY <2>1 DEF Timeout, logVars
    <3>2. \A m \in msgs' \ msgs : m.kind = "request"
      BY <2>1 DEF Timeout
    <3>3. QED
      BY <3>1, <3>2, CommitStays
  <2>2. CASE Heartbeat(n)
    <3>1. UNCHANGED <<commitIndex, applied>> /\ msgs' = msgs \cup AppendEntries(n, log[n], nextIndex[n])
      BY <2>2 DEF Heartbeat, logVars
    <3>2. QED
      BY <3>1, AppendsTell, CommitStays
  <2>3. CASE Propose(n)
    <3>1. PICK l : /\ UNCHANGED <<commitIndex, applied>>
                   /\ msgs' = msgs \cup AppendEntries(n, l, nextIndex[n])
      BY <2>3 DEF Propose
    <3>2. QED
      BY <3>1, AppendsTell, CommitStays
  <2>4. QED
    BY <1>2, <2>1, <2>2, <2>3
<1>3. ASSUME NEW n \in Nodes, NEW m \in msgs,
             HandleRequestVote(n, m) \/ StepDown(n, m) \/ HandleVoteResponse(n, m)
      PROVE  CommitInv' /\ \A k \in Nodes : CommitMoves(k)
  <2>1. CASE HandleRequestVote(n, m)
    <3>1. UNCHANGED <<commitIndex, applied>> /\ msgs \subseteq msgs'
          /\ \A x \in msgs' \ msgs : x.kind = "vote"
      BY <2>1 DEF HandleRequestVote, logVars
    <3>2. QED
      BY <3>1, CommitStays
  <2>2. CASE StepDown(n, m)
    BY <2>2, CommitStays DEF StepDown, logVars
  <2>3. CASE HandleVoteResponse(n, m)
    <3>1. PICK next : /\ UNCHANGED <<commitIndex, applied>>
                      /\ msgs' = msgs \/ msgs' = msgs \cup AppendEntries(n, log[n], next)
      BY <2>3 DEF HandleVoteResponse, logVars
    <3>2. QED
      BY <3>1, AppendsTell, CommitStays
  <2>4. QED
    BY <1>3, <2>1, <2>2, <2>3
<1>4. ASSUME NEW n \in Nodes, NEW m \in msgs,
             AppendStale(n, m) \/ AppendRejected(n, m) \/ AppendedNo(n, m)
      PROVE  CommitInv' /\ \A k \in Nodes : CommitMoves(k)
  <2>1. UNCHANGED <<commitIndex, applied>> /\ msgs \subseteq msgs'
    BY <1>4 DEF AppendStale, AppendRejected, AppendedNo, logVars
  <2>2. \A x \in msgs' \ msgs : x.kind = "appended"
    BY <1>4 DEF AppendStale, AppendRejected, AppendedNo, Answer
  <2>3. QED
    BY <2>1, <2>2, CommitStays
<1>5. ASSUME NEW n \in Nodes, NEW m \in msgs, AppendAccepted(n, m)
      PROVE  CommitInv' /\ \A k \in Nodes : CommitMoves(k)
  <2> DEFINE l == Merge(log[n], m.prevIndex, m.entries)
             c == CommitUpTo(n, m, l)
  <2>1. /\ m.kind = "append" /\ Consistent(n, m)
        /\ commitIndex' = [commitIndex EXCEPT ![n] = c]
        /\ applied' = [applied EXCEPT ![n] = Apply(n, l, c)]
        /\ msgs \subseteq msgs' /\ \A x \in msgs' \ msgs : x.kind = "appended"
    BY <1>5 DEF AppendAccepted, Follow, Answer
  <2>2. /\ l \in Seq(LogEntry) /\ c \in Nat /\ (c = commitIndex[n] \/ c <= Len(l))
        /\ CommitsCovered => c >= commitIndex[n]
    BY <2>1, FollowerCommits
  <2> HIDE DEF l, c
  <2>3. QED
    BY <2>1, <2>2, CommitApplied
<1>6. ASSUME NEW n \in Nodes, NEW m \in msgs, AppendedOk(n, m) \/ AppendedOkV2(n, m)
      PROVE  CommitInv' /\ \A k \in Nodes : CommitMoves(k)
  <2> DEFINE C(match) == IF Committable(n, match) = {} THEN commitIndex[n]
                         ELSE CHOOSE i \in Committable(n, match) :
                                 \A j \in Committable(n, match) : j <= i
  <2>1. \E match : /\ commitIndex' = [commitIndex EXCEPT ![n] = C(match)]
                   /\ applied' = [applied EXCEPT ![n] = Apply(n, log[n], C(match))]
                   /\ msgs' = msgs
    BY <1>6 DEF AppendedOk, AppendedOkV2
  <2>2. PICK match : /\ commitIndex' = [commitIndex EXCEPT ![n] = C(match)]
                     /\ applied' = [applied EXCEPT ![n] = Apply(n, log[n], C(match))]
                     /\ msgs' = msgs
    BY <2>1
  <2> DEFINE c == C(match)
  <2>3. log[n] \in Seq(LogEntry) /\ commitIndex[n] \in Nat
    BY DEF LogInv, LogTypeOK, CommitInv
  <2>4. c \in Nat /\ c >= commitIndex[n] /\ (c = commitIndex[n] \/ c <= Len(log[n]))
    BY <2>3, LeaderCommits
  <2>5. /\ commitIndex' = [commitIndex EXCEPT ![n] = c]
        /\ applied' = [applied EXCEPT ![n] = Apply(n, log[n], c)]
        /\ msgs \subseteq msgs' /\ msgs' \ msgs = {}
    BY <2>2
  <2> HIDE DEF c, C
  <2>6. QED
    BY <2>3, <2>4, <2>5, CommitApplied
<1>7. ASSUME NEW n \in Nodes, NEW m \in msgs, RetryV2(n, m)
      PROVE  CommitInv' /\ \A k \in Nodes : CommitMoves(k)
  <2>1. /\ UNCHANGED <<commitIndex, applied>>
        /\ \E S \in SUBSET AppendEntries(n, log[n], nextIndex'[n]) : msgs' = msgs \cup S
    BY <1>7, AnswerTaken DEF RetryV2, logVars
  <2>2. QED
    BY <2>1, AppendsTell, CommitStays
<1>8. CASE Next
  BY <1>2, <1>3, <1>4, <1>5, <1>6, <1>8 DEF Next, Receive
<1>9. CASE \E n \in Nodes : \E m \in {x \in msgs : x.to = n} : AppendedOkV2(n, m) \/ RetryV2(n, m)
  BY <1>6, <1>7, <1>9
<1>10. QED
  BY <1>1, <1>8, <1>9, EvolvedStep

\* At the start nothing is committed.
LEMMA InitCommit == Init => CommitInv
<1> SUFFICES ASSUME Init PROVE CommitInv
  OBVIOUS
<1>1. /\ commitIndex = [n \in Nodes |-> 0] /\ applied = [n \in Nodes |-> <<>>] /\ msgs = {}
  BY DEF Init
<1>2. <<>> \in Seq(LogEntry) /\ Len(<<>>) = 0
  OBVIOUS
<1>3. QED
  BY <1>1, <1>2 DEF CommitInv

\* In handle_append_entries and try_advance_commit alike the commit index only grows
\* and what is applied is the committed prefix, unless a leader commits beyond its log;
\* and even then nothing applied is taken back or applied twice.
THEOREM CommitsProgress == Spec => CommitProgress
<1>1. ElectionInv /\ LogInv /\ CommitInv /\ [Next]_vars => CommitInv'
  BY CommitKeeps
<1>2. Spec => []CommitInv
  BY <1>1, InitCommit, Invariant, LogInvariant, PTL DEF Spec
<1>3. ElectionInv /\ LogInv /\ CommitInv /\ [Next]_vars => [\A n \in Nodes : CommitMoves(n)]_vars
  BY CommitKeeps
<1>4. (\A n \in Nodes : CommitMoves(n)) =>
        \A n \in Nodes :
            /\ IsPrefixOf(applied[n], applied'[n])
            /\ Len(applied'[n]) >= commitIndex'[n]
            /\ CommitsCovered => /\ commitIndex'[n] >= commitIndex[n]
                                 /\ Len(applied'[n]) = commitIndex'[n]
  BY DEF CommitMoves
<1>5. QED
  BY <1>2, <1>3, <1>4, Invariant, LogInvariant, PTL DEF Spec, CommitProgress

\* The same of the evolved node.
THEOREM CommitsProgressV2 == SpecV2 => CommitProgress
<1>1. ElectionInv /\ LogInv /\ CommitInv /\ [NextV2]_vars => CommitInv'
  BY CommitKeeps
<1>2. SpecV2 => []CommitInv
  BY <1>1, InitCommit, InvariantV2, PTL DEF SpecV2
<1>3. ElectionInv /\ LogInv /\ CommitInv /\ [NextV2]_vars => [\A n \in Nodes : CommitMoves(n)]_vars
  BY CommitKeeps
<1>4. (\A n \in Nodes : CommitMoves(n)) =>
        \A n \in Nodes :
            /\ IsPrefixOf(applied[n], applied'[n])
            /\ Len(applied'[n]) >= commitIndex'[n]
            /\ CommitsCovered => /\ commitIndex'[n] >= commitIndex[n]
                                 /\ Len(applied'[n]) = commitIndex'[n]
  BY DEF CommitMoves
<1>5. QED
  BY <1>2, <1>3, <1>4, InvariantV2, PTL DEF SpecV2, CommitProgress
(***************************************************************************)
(* What a leader of the evolved version knows of its followers' logs.      *)
(***************************************************************************)

\* A leader never counts entries it does not have as its own.
MatchInv ==
    /\ matchIndex \in [Nodes -> [Nodes -> Nat]]
    /\ \A n \in Nodes : state[n] = "Leader" => matchIndex[n][n] <= Len(log[n])

\* A call that leaves the match indexes alone.
LEMMA MatchStays ==
    ASSUME MatchInv, matchIndex' = matchIndex,
           \A k \in Nodes : state'[k] = "Leader" =>
              state[k] = "Leader" /\ Len(log[k]) <= Len(log'[k]) /\ log'[k] \in Seq(LogEntry),
           log \in [Nodes -> Seq(LogEntry)]
    PROVE  MatchInv' /\ MatchNeverFalls
<1>1. \A n, p \in Nodes : matchIndex[n][p] \in Nat
  BY DEF MatchInv
<1>2. \A k \in Nodes : Len(log[k]) \in Nat
  OBVIOUS
<1>3. \A k \in Nodes : state'[k] = "Leader" => Len(log'[k]) \in Nat
  OBVIOUS
<1>4. MatchInv'
  BY <1>1, <1>2, <1>3 DEF MatchInv
<1>5. MatchNeverFalls
  BY <1>1 DEF MatchNeverFalls
<1>6. QED
  BY <1>4, <1>5

\* propose: the leader has its own new entry.
LEMMA MatchProposed ==
    ASSUME ElectionInv, LogInv, MatchInv, NEW n \in Nodes, Propose(n)
    PROVE  MatchInv' /\ MatchNeverFalls
<1>1. PICK e : /\ state' = state /\ log' = [log EXCEPT ![n] = Append(log[n], e)]
               /\ matchIndex' = [matchIndex EXCEPT ![n][n] = Len(Append(log[n], e))]
               /\ state[n] = "Leader"
  BY DEF Propose, electionVars
<1>2. log \in [Nodes -> Seq(LogEntry)] /\ matchIndex \in [Nodes -> [Nodes -> Nat]]
  BY DEF LogInv, LogTypeOK, MatchInv
<1>3. Len(Append(log[n], e)) = Len(log[n]) + 1 /\ Len(log[n]) \in Nat
  BY <1>2
<1> DEFINE c == Len(Append(log[n], e))
           row == [matchIndex[n] EXCEPT ![n] = c]
<1>4. /\ c \in Nat /\ c > Len(log[n]) /\ Len(log'[n]) = c
      /\ row \in [Nodes -> Nat] /\ row[n] = c
      /\ \A p \in Nodes \ {n} : row[p] = matchIndex[n][p]
  BY <1>1, <1>2, <1>3
<1>5. matchIndex' = [matchIndex EXCEPT ![n] = row]
  BY <1>1
<1>6. \A k \in Nodes \ {n} : log'[k] = log[k]
  BY <1>1, <1>2
<1>7. matchIndex[n][n] <= Len(log[n])
  BY <1>1 DEF MatchInv
<1> HIDE DEF c, row
<1>8. MatchInv'
  <2>1. matchIndex' \in [Nodes -> [Nodes -> Nat]]
    BY <1>2, <1>4, <1>5
  <2>2. ASSUME NEW k \in Nodes, state'[k] = "Leader" PROVE matchIndex'[k][k] <= Len(log'[k])
    <3>1. CASE k = n
      BY <1>2, <1>4, <1>5, <3>1
    <3>2. CASE k # n
      BY <1>1, <1>2, <1>5, <1>6, <2>2, <3>2 DEF MatchInv
    <3>3. QED
      BY <3>1, <3>2
  <2>3. QED
    BY <2>1, <2>2 DEF MatchInv
<1>9. ASSUME NEW k \in Nodes, NEW p \in Nodes PROVE matchIndex'[k][p] >= matchIndex[k][p]
  <2>1. matchIndex[k][p] \in Nat
    BY <1>2
  <2>2. CASE k # n
    BY <1>2, <1>5, <2>1, <2>2
  <2>3. CASE k = n /\ p # n
    BY <1>2, <1>4, <1>5, <2>1, <2>3
  <2>4. CASE k = n /\ p = n
    BY <1>2, <1>3, <1>4, <1>5, <1>7, <2>1, <2>4
  <2>5. QED
    BY <2>2, <2>3, <2>4
<1>10. QED
  BY <1>8, <1>9 DEF MatchNeverFalls

\* handle_vote_response: a new leader starts from what it has itself.
LEMMA MatchElected ==
    ASSUME ElectionInv, LogInv, MatchInv, NEW n \in Nodes, NEW m \in msgs, HandleVoteResponse(n, m)
    PROVE  MatchInv' /\ MatchNeverFalls
<1>1. log' = log /\ log \in [Nodes -> Seq(LogEntry)] /\ matchIndex \in [Nodes -> [Nodes -> Nat]]
  BY DEF HandleVoteResponse, logVars, LogInv, LogTypeOK, MatchInv
<1> DEFINE row == [p \in Nodes |-> IF p = n THEN Len(log[n]) ELSE 0]
<1>2. CASE state' = state /\ matchIndex' = matchIndex
  <2>1. \A k \in Nodes : Len(log[k]) <= Len(log[k])
    BY <1>1
  <2>2. QED
    BY <1>1, <1>2, <2>1, MatchStays
<1>3. CASE /\ state' = [state EXCEPT ![n] = "Leader"]
           /\ matchIndex' = [matchIndex EXCEPT ![n] = row]
  <2>1. row \in [Nodes -> Nat] /\ row[n] = Len(log[n]) /\ Len(log[n]) \in Nat
    BY <1>1
  <2>2. state[n] = "Candidate" /\ \A k \in Nodes \ {n} : state'[k] = state[k]
    BY <1>3 DEF HandleVoteResponse, ElectionInv, ElectionTypeOK
  <2> HIDE DEF row
  <2>3. /\ matchIndex' \in [Nodes -> [Nodes -> Nat]] /\ matchIndex'[n] = row
        /\ \A k \in Nodes \ {n} : matchIndex'[k] = matchIndex[k]
    BY <1>1, <1>3, <2>1
  <2>4. MatchInv'
    <3>1. ASSUME NEW k \in Nodes, state'[k] = "Leader" PROVE matchIndex'[k][k] <= Len(log'[k])
      <4>1. CASE k = n
        BY <1>1, <2>1, <2>3, <4>1
      <4>2. CASE k # n
        <5>1. state[k] = "Leader" /\ matchIndex'[k][k] = matchIndex[k][k] /\ log'[k] = log[k]
          BY <1>1, <2>2, <2>3, <3>1, <4>2
        <5>2. QED
          BY <5>1 DEF MatchInv
      <4>3. QED
        BY <4>1, <4>2
    <3>2. QED
      BY <2>3, <3>1 DEF MatchInv
  <2>5. MatchNeverFalls
    <3>1. \A k, p \in Nodes : matchIndex[k][p] \in Nat
      BY <1>1
    <3>2. QED
      BY <2>2, <2>3, <3>1 DEF MatchNeverFalls
  <2>6. QED
    BY <2>4, <2>5
<1>4. QED
  BY <1>2, <1>3 DEF HandleVoteResponse, leaderVars

\* handle_append_entries_response: an answer raises what it reports, or nothing.
LEMMA MatchAnswered ==
    ASSUME ElectionInv, LogInv, MatchInv, NEW n \in Nodes, NEW m \in msgs, m.to = n,
           AppendedOkV2(n, m)
    PROVE  MatchInv' /\ MatchNeverFalls
<1> DEFINE row == [matchIndex[n] EXCEPT ![m.from] = Reported(n, m)]
<1>1. /\ matchIndex' = [matchIndex EXCEPT ![n] = row] /\ m.kind = "appended"
      /\ state' = state /\ log' = log
  BY DEF AppendedOkV2, electionVars
<1>2. matchIndex \in [Nodes -> [Nodes -> Nat]] /\ matchIndex[n] \in [Nodes -> Nat]
  BY DEF MatchInv
<1>3. m.from \in Nodes /\ m.from # n
  BY DEF ElectionInv, ElectionTypeOK
<1>4. Reported(n, m) \in Nat /\ Reported(n, m) >= matchIndex[n][m.from]
  BY <1>1, <1>2, <1>3 DEF Reported, LogInv, LogTypeOK
<1>5. row \in [Nodes -> Nat] /\ row[n] = matchIndex[n][n]
      /\ \A p \in Nodes : row[p] >= matchIndex[n][p]
  BY <1>2, <1>3, <1>4
<1> HIDE DEF row
<1>6. /\ matchIndex' \in [Nodes -> [Nodes -> Nat]] /\ matchIndex'[n] = row
      /\ \A k \in Nodes \ {n} : matchIndex'[k] = matchIndex[k]
  BY <1>1, <1>2, <1>5
<1>7. \A k \in Nodes : matchIndex'[k][k] = matchIndex[k][k]
  BY <1>5, <1>6
<1>8. MatchInv'
  BY <1>1, <1>6, <1>7 DEF MatchInv
<1>9. \A k, p \in Nodes : matchIndex[k][p] \in Nat
  BY <1>2
<1>10. MatchNeverFalls
  BY <1>5, <1>6, <1>9 DEF MatchNeverFalls
<1>11. QED
  BY <1>8, <1>10

\* Every call of the evolved node.
LEMMA MatchKeeps ==
    ElectionInv /\ LogInv /\ LogInv' /\ MatchInv /\ [NextV2]_vars => MatchInv' /\ MatchNeverFalls
<1> SUFFICES ASSUME ElectionInv, LogInv, LogInv', MatchInv, [NextV2]_vars
             PROVE  MatchInv' /\ MatchNeverFalls
  OBVIOUS
<1>1. log \in [Nodes -> Seq(LogEntry)] /\ log' \in [Nodes -> Seq(LogEntry)]
  BY DEF LogInv, LogTypeOK
<1>2. \A k \in Nodes : Len(log[k]) <= Len(log[k])
  BY <1>1
<1>3. state \in [Nodes -> {"Follower", "Candidate", "Leader"}]
  BY DEF ElectionInv, ElectionTypeOK
\* Whoever leads after such a call led before, and its log is the same.
<1>4. ASSUME matchIndex' = matchIndex,
             NEW n \in Nodes, log' = log \/ (\E l : log' = [log EXCEPT ![n] = l] /\ state'[n] = "Follower"),
             \/ state' = state
             \/ \E s \in {"Follower", "Candidate"} : state' = [state EXCEPT ![n] = s]
             \/ state' = [state EXCEPT ![n] = @]
      PROVE  MatchInv' /\ MatchNeverFalls
  <2>1. ASSUME NEW k \in Nodes, state'[k] = "Leader"
        PROVE  state[k] = "Leader" /\ log'[k] = log[k]
    BY <1>1, <1>3, <1>4, <2>1
  <2>2. QED
    BY <1>1, <1>2, <1>4, <2>1, MatchStays
<1>5. CASE UNCHANGED vars
  <2>1. UNCHANGED <<state, log, matchIndex>>
    BY <1>5 DEF vars, logVars, leaderVars, electionVars
  <2>2. QED
    BY <1>1, <1>2, <2>1, MatchStays
<1>6. ASSUME NEW n \in Nodes, Timeout(n) \/ Heartbeat(n) PROVE MatchInv' /\ MatchNeverFalls
  BY <1>4, <1>6 DEF Timeout, Heartbeat, logVars, leaderVars, electionVars
<1>7. ASSUME NEW n \in Nodes, NEW m \in msgs,
             HandleRequestVote(n, m) \/ StepDown(n, m) \/ AppendStale(n, m) \/ AppendRejected(n, m)
      PROVE  MatchInv' /\ MatchNeverFalls
  <2>1. CASE HandleRequestVote(n, m)
    <3>1. state' = [state EXCEPT ![n] = "Follower"] \/ state' = [state EXCEPT ![n] = @]
      BY <2>1 DEF HandleRequestVote
    <3>2. matchIndex' = matchIndex /\ log' = log
      BY <2>1 DEF HandleRequestVote, logVars, leaderVars
    <3>3. QED
      BY <1>4, <3>1, <3>2
  <2>2. CASE StepDown(n, m)
    BY <1>4, <2>2 DEF StepDown, logVars, leaderVars
  <2>3. CASE AppendStale(n, m)
    BY <1>4, <2>3 DEF AppendStale, logVars, leaderVars, electionVars
  <2>4. CASE AppendRejected(n, m)
    BY <1>4, <2>4 DEF AppendRejected, Follow, logVars, leaderVars
  <2>5. QED
    BY <1>7, <2>1, <2>2, <2>3, <2>4
<1>8. ASSUME NEW n \in Nodes, NEW m \in msgs, AppendAccepted(n, m)
      PROVE  MatchInv' /\ MatchNeverFalls
  <2>1. /\ state' = [state EXCEPT ![n] = "Follower"] /\ matchIndex' = matchIndex
        /\ \E l : log' = [log EXCEPT ![n] = l]
    BY <1>8 DEF AppendAccepted, Follow, leaderVars
  <2>2. state'[n] = "Follower"
    BY <1>3, <2>1
  <2>3. QED
    BY <1>4, <2>1, <2>2
<1>9. ASSUME NEW n \in Nodes, NEW m \in msgs, RetryV2(n, m)
      PROVE  MatchInv' /\ MatchNeverFalls
  BY <1>4, <1>9 DEF RetryV2, electionVars, logVars
<1>10. QED
  BY <1>5, <1>6, <1>7, <1>8, <1>9, MatchProposed, MatchElected, MatchAnswered
     DEF NextV2, StepV2, CampaignV2, BeatV2, ProposeV2, VoteV2, StepDownV2, CountV2, AppendV2

\* Answers that arrive late, twice or out of order never make a leader of the evolved
\* version forget what a follower had acknowledged in its term.
THEOREM MatchesKept == SpecV2 => [][MatchNeverFalls]_vars
<1>1. Init => MatchInv
  <2> SUFFICES ASSUME Init PROVE MatchInv
    OBVIOUS
  <2>1. /\ matchIndex = [n \in Nodes |-> [p \in Nodes |-> 0]]
        /\ state = [n \in Nodes |-> "Follower"]
    BY DEF Init
  <2>2. QED
    BY <2>1 DEF MatchInv
<1>2. ElectionInv /\ LogInv /\ LogInv' /\ MatchInv /\ [NextV2]_vars => MatchInv' /\ [MatchNeverFalls]_vars
  BY MatchKeeps
<1>3. QED
  BY <1>1, <1>2, InvariantV2, PTL DEF SpecV2

-----------------------------------------------------------------------------
(* The two programs side by side, as the runs check them.                    *)

\* A behaviour is that of one of the programs from beginning to end.
LEMMA OneProgram == MCSpec => (program = "seed" /\ Spec) \/ (program = "v2" /\ SpecV2)
<1>1. MCInit => Init /\ (program = "seed" \/ program = "v2")
  BY ProgramsAssumption DEF MCInit
<1>2. program = "seed" /\ [MCNext]_<<program, vars>> => (program = "seed")' /\ [Next]_vars
  BY DEF MCNext
<1>3. program = "v2" /\ [MCNext]_<<program, vars>> => (program = "v2")' /\ [NextV2]_vars
  BY DEF MCNext
<1>4. QED
  BY <1>1, <1>2, <1>3, PTL DEF MCSpec, Spec, SpecV2

\* In both versions a leader keeps its log; and in the evolved one what a follower had
\* acknowledged to it in its term, whatever answers arrive late or twice
\* (handle_append_entries_response).
THEOREM LeadersForgetNothing == MCSpec => LeaderForgetsNothing
<1> DEFINE Keeps == LeaderKeepsLog /\ (program = "v2" => MatchNeverFalls)
<1>1. program = "seed" /\ [LeaderKeepsLog]_vars => [Keeps]_vars
  OBVIOUS
<1>2. [LeaderKeepsLog]_vars /\ [MatchNeverFalls]_vars => [Keeps]_vars
  OBVIOUS
<1>3. program = "seed" /\ [MCNext]_<<program, vars>> => (program = "seed")'
  BY DEF MCNext
<1>4. QED
  BY <1>1, <1>2, <1>3, OneProgram, LeadersKeepLogs, LeadersKeepLogsV2, MatchesKept, PTL
     DEF MCSpec, LeaderForgetsNothing
=============================================================================
