----------------------- MODULE TwoPhaseCommitProofs -------------------------
(***************************************************************************)
(* Theorems of TwoPhaseCommit for any participants, clients and number of  *)
(* transactions.  Everything follows from IInv: the coordinator's record   *)
(* of the votes agrees with the participants, and a commit has all votes.  *)
(***************************************************************************)
EXTENDS TwoPhaseCommitLockFree, TLAPS

USE RMsAssumption, MaxTxnsAssumption DEF TxnIds, Begun

-----------------------------------------------------------------------------
(* The seed.                                                                  *)

\* The calls of the protocol, whoever makes them.
Protocol ==
    \/ Begin
    \/ \E txn \in Begun :
          \/ TmPrepare(txn) \/ TmCommit(txn) \/ TmAbort(txn)
          \/ \E r \in RmIds :
                \/ RmPrepare(txn, r) \/ RmChooseToAbort(txn, r)
                \/ RmRcvCommit(txn, r) \/ RmRcvAbort(txn, r)

\* A run names a transaction that has begun and a position of the list.
RunsOK == \A c \in Clients : run[c].phase # "idle" => run[c].txn \in Begun

\* A run is always at one of the participants.
LEMMA RmIdsTurn ==
    ASSUME TypeOK, NEW c \in Clients
    PROVE  Turn(c) \in RmIds
<1>1. run[c] \in [phase : Phase, txn : TxnIds, mode : {"commit", "abort"},
                  no : RmIds \cup {Nobody}, i : 1 .. Len(RMs)]
  BY DEF TypeOK
<1>2. run[c].i \in DOMAIN RMs
  BY <1>1, RMsAssumption
<1>3. QED
  BY <1>2 DEF Turn, RmIds

\* Every step of the system is a call or leaves the protocol's state alone.
LEMMA StepIsCall ==
    ASSUME TypeOK, RunsOK, [Next]_vars
    PROVE  Protocol \/ UNCHANGED protocolVars
<1>1. CASE Call
  BY <1>1 DEF Call, Protocol
<1>2. ASSUME NEW c \in Clients, NEW txn \in Begun,
             \/ Start(c, txn, Nobody, "commit")
             \/ \E no \in RmIds : Start(c, txn, no, "abort")
      PROVE  UNCHANGED protocolVars
  BY <1>2 DEF Start
<1>3. ASSUME NEW c \in Clients, RunStep(c)
      PROVE  Protocol \/ UNCHANGED protocolVars
  <2>1. run[c].phase # "idle"
    BY <1>3 DEF RunStep, Prepare, Vote, Decide, Deliver
  <2>2. Turn(c) \in RmIds /\ run[c].txn \in Begun
    BY <2>1, RmIdsTurn DEF RunsOK
  <2>3. CASE Prepare(c)
    BY <2>2, <2>3 DEF Prepare, Refused, Protocol
  <2>4. CASE Vote(c)
    BY <2>2, <2>4 DEF Vote, Refused, Protocol
  <2>5. CASE Decide(c)
    BY <2>2, <2>5 DEF Decide, Refused, Protocol
  <2>6. CASE Deliver(c)
    <3>1. run[c].mode \in {"commit", "abort"}
      BY <2>1 DEF TypeOK
    <3>2. QED
      BY <2>2, <2>6, <3>1 DEF Deliver, Protocol
  <2>7. QED
    BY <1>3, <2>3, <2>4, <2>5, <2>6 DEF RunStep
<1>4. CASE UNCHANGED vars
  BY <1>4 DEF vars
<1>5. QED
  BY <1>1, <1>2, <1>3, <1>4 DEF Next

\* The calls keep the protocol's variables well typed.
ProtocolTypeOK ==
    /\ nextTxn \in 1 .. MaxTxns + 1
    /\ tm \in [TxnIds -> {"Init", "Preparing", "Committed", "Aborted"}]
    /\ rm \in [TxnIds -> [RmIds -> {"Working", "Prepared", "Committed", "Aborted"}]]
    /\ prepared \in [TxnIds -> SUBSET RmIds]

\* Every call keeps the types of the protocol.
LEMMA ProtocolTyped ==
    ASSUME ProtocolTypeOK, Protocol
    PROVE  ProtocolTypeOK'
<1>1. CASE Begin
  BY <1>1 DEF ProtocolTypeOK, Begin
<1>2. ASSUME NEW txn \in Begun, TmPrepare(txn) \/ TmCommit(txn) \/ TmAbort(txn)
      PROVE  ProtocolTypeOK'
  BY <1>2 DEF ProtocolTypeOK, TmPrepare, TmCommit, TmAbort
<1>3. ASSUME NEW txn \in Begun, NEW r \in RmIds, RmPrepare(txn, r)
      PROVE  ProtocolTypeOK'
  BY <1>3 DEF ProtocolTypeOK, RmPrepare
<1>4. ASSUME NEW txn \in Begun, NEW r \in RmIds, RmChooseToAbort(txn, r)
      PROVE  ProtocolTypeOK'
  BY <1>4 DEF ProtocolTypeOK, RmChooseToAbort
<1>5. ASSUME NEW txn \in Begun, NEW r \in RmIds, RmRcvCommit(txn, r)
      PROVE  ProtocolTypeOK'
  BY <1>5 DEF ProtocolTypeOK, RmRcvCommit
<1>6. ASSUME NEW txn \in Begun, NEW r \in RmIds, RmRcvAbort(txn, r)
      PROVE  ProtocolTypeOK'
  BY <1>6 DEF ProtocolTypeOK, RmRcvAbort
<1>7. QED
  BY <1>1, <1>2, <1>3, <1>4, <1>5, <1>6 DEF Protocol

\* The runs keep their own record well typed.
RunTypeOK ==
    run \in [Clients -> [phase : Phase, txn : TxnIds, mode : {"commit", "abort"},
                         no : RmIds \cup {Nobody}, i : 1 .. Len(RMs)]]

\* The types of the protocol and those of the runs.
LEMMA TypeSplit == TypeOK <=> ProtocolTypeOK /\ RunTypeOK
BY DEF TypeOK, ProtocolTypeOK, RunTypeOK

\* A run goes on from where it was.
LEMMA GoesTyped ==
    ASSUME RunTypeOK, NEW c \in Clients, NEW phase \in Phase,
           NEW i \in 1 .. Len(RMs), Goes(c, phase, i)
    PROVE  RunTypeOK'
BY DEF RunTypeOK, Goes

\* Every step of a run keeps its type.
LEMMA RunTyped ==
    ASSUME TypeOK, RunsOK, [Next]_vars
    PROVE  RunTypeOK'
<1> USE TypeSplit
<1>1. CASE UNCHANGED run
  BY <1>1 DEF RunTypeOK
<1>2. ASSUME NEW c \in Clients, NEW txn \in Begun, NEW no \in RmIds \cup {Nobody},
             NEW mode \in {"commit", "abort"}, Start(c, txn, no, mode)
      PROVE  RunTypeOK'
  <2>1. 1 \in 1 .. Len(RMs)
    BY RMsAssumption
  <2>2. QED
    BY <1>2, <2>1 DEF RunTypeOK, Start, Phase
<1>3. ASSUME NEW c \in Clients, RunStep(c)
      PROVE  RunTypeOK'
  <2>1. Len(RMs) \in Nat /\ Len(RMs) >= 1 /\ run[c].i \in 1 .. Len(RMs)
    BY RMsAssumption DEF RunTypeOK
  <2>2. CASE Refused(c)
    BY <2>2 DEF Refused, RunTypeOK, Phase
  <2>3. CASE Goes(c, "vote", 1) \/ Goes(c, "deliver", 1)
    BY <2>1, <2>3, GoesTyped DEF Phase
  <2>4. CASE AfterVote(c)
    <3>1. CASE run[c].i < Len(RMs)
      BY <2>1, <2>4, <3>1, GoesTyped DEF AfterVote, Phase
    <3>2. CASE ~(run[c].i < Len(RMs))
      BY <2>1, <2>4, <3>2, GoesTyped DEF AfterVote, Phase
    <3>3. QED
      BY <3>1, <3>2
  <2>5. CASE AfterDelivery(c)
    <3>1. CASE run[c].i < Len(RMs)
      BY <2>1, <2>5, <3>1, GoesTyped DEF AfterDelivery, Phase
    <3>2. CASE ~(run[c].i < Len(RMs))
      BY <2>1, <2>5, <3>2, GoesTyped DEF AfterDelivery, Phase
    <3>3. QED
      BY <3>1, <3>2
  <2>6. QED
    BY <1>3, <2>2, <2>3, <2>4, <2>5 DEF RunStep, Prepare, Vote, Decide, Deliver
<1>4. QED
  BY <1>1, <1>2, <1>3 DEF Next, Call, vars

\* A step never takes a transaction back.
LEMMA RunsStayOK ==
    ASSUME TypeOK, RunsOK, [Next]_vars
    PROVE  RunsOK'
<1>1. Begun \subseteq Begun'
  <2>1. nextTxn' = nextTxn \/ nextTxn' = nextTxn + 1
    BY StepIsCall DEF Protocol, Begin, TmPrepare, TmCommit, TmAbort, RmPrepare,
        RmChooseToAbort, RmRcvCommit, RmRcvAbort, protocolVars
  <2>2. nextTxn \in Nat
    BY DEF TypeOK
  <2>3. QED
    BY <2>1, <2>2
<1>2. ASSUME NEW c \in Clients, run'[c].phase # "idle"
      PROVE  run'[c].txn \in Begun
  <2>1. CASE UNCHANGED run
    BY <1>2, <2>1 DEF RunsOK
  <2>2. ASSUME NEW d \in Clients, NEW txn \in Begun, NEW no, NEW mode, Start(d, txn, no, mode)
        PROVE  run'[c].txn \in Begun
    BY <1>2, <2>2 DEF Start, RunsOK, TypeOK
  <2>3. ASSUME NEW d \in Clients, RunStep(d)
        PROVE  run'[c].txn \in Begun
    <3>1. run[d].phase # "idle"
      BY <2>3 DEF RunStep, Prepare, Vote, Decide, Deliver
    <3>2. run'[c].txn = run[c].txn /\ (c # d => run'[c] = run[c])
      <4>1. PICK phase, i :
               run' = [run EXCEPT ![d].phase = phase, ![d].i = i] \/ Refused(d)
        BY <2>3 DEF RunStep, Prepare, Vote, Decide, Deliver, AfterVote,
            AfterDelivery, Goes
      <4>2. CASE run' = [run EXCEPT ![d].phase = phase, ![d].i = i]
        BY <4>2 DEF TypeOK
      <4>3. CASE Refused(d)
        BY <4>3 DEF Refused, TypeOK
      <4>4. QED
        BY <4>1, <4>2, <4>3
    <3>3. QED
      BY <1>2, <3>1, <3>2 DEF RunsOK
  <2>4. QED
    BY <2>1, <2>2, <2>3 DEF Next, Call, vars
<1>3. QED
  BY <1>1, <1>2 DEF RunsOK

\* TypeOK: every call and every step of a run keeps every variable well typed.
THEOREM TypeCorrect == Spec => [](TypeOK /\ RunsOK)
<1>1. Init => TypeOK /\ RunsOK
  <2> SUFFICES ASSUME Init PROVE TypeOK /\ RunsOK
    OBVIOUS
  <2>1. 1 \in TxnIds /\ 1 \in 1 .. Len(RMs) /\ 1 \in 1 .. MaxTxns + 1
    BY RMsAssumption, MaxTxnsAssumption
  <2>2. QED
    BY <2>1 DEF Init, TypeOK, RunsOK, Idle, Phase
<1>2. TypeOK /\ RunsOK /\ [Next]_vars => (TypeOK /\ RunsOK)'
  <2> SUFFICES ASSUME TypeOK, RunsOK, [Next]_vars PROVE (TypeOK /\ RunsOK)'
    OBVIOUS
  <2>1. ProtocolTypeOK'
    <3>1. CASE Protocol
      BY <3>1, ProtocolTyped, TypeSplit
    <3>2. CASE UNCHANGED protocolVars
      BY <3>2, TypeSplit DEF ProtocolTypeOK, protocolVars
    <3>3. QED
      BY <3>1, <3>2, StepIsCall
  <2>2. TypeOK'
    BY <2>1, RunTyped DEF TypeOK, ProtocolTypeOK, RunTypeOK
  <2>3. QED
    BY <2>2, RunsStayOK
<1>3. QED
  BY <1>1, <1>2, PTL DEF Spec

-----------------------------------------------------------------------------
\* The votes and the decision agree before a call, so they agree after it.
LEMMA ProtocolKeepsVotes ==
    ASSUME ProtocolTypeOK, VotesCounted, CommitNeedsVotes, Protocol
    PROVE  (VotesCounted /\ CommitNeedsVotes)'
<1> USE DEF ProtocolTypeOK, VotesCounted, CommitNeedsVotes
<1>1. CASE Begin
  BY <1>1 DEF Begin
<1>2. ASSUME NEW txn \in Begun, TmPrepare(txn)
      PROVE  (VotesCounted /\ CommitNeedsVotes)'
  BY <1>2 DEF TmPrepare
<1>3. ASSUME NEW txn \in Begun, TmCommit(txn)
      PROVE  (VotesCounted /\ CommitNeedsVotes)'
  BY <1>3 DEF TmCommit
<1>4. ASSUME NEW txn \in Begun, TmAbort(txn)
      PROVE  (VotesCounted /\ CommitNeedsVotes)'
  BY <1>4 DEF TmAbort
<1>5. ASSUME NEW txn \in Begun, NEW r \in RmIds, RmPrepare(txn, r)
      PROVE  (VotesCounted /\ CommitNeedsVotes)'
  BY <1>5 DEF RmPrepare
<1>6. ASSUME NEW txn \in Begun, NEW r \in RmIds, RmChooseToAbort(txn, r)
      PROVE  (VotesCounted /\ CommitNeedsVotes)'
  BY <1>6 DEF RmChooseToAbort
<1>7. ASSUME NEW txn \in Begun, NEW r \in RmIds, RmRcvCommit(txn, r)
      PROVE  (VotesCounted /\ CommitNeedsVotes)'
  BY <1>7 DEF RmRcvCommit
<1>8. ASSUME NEW txn \in Begun, NEW r \in RmIds, RmRcvAbort(txn, r)
      PROVE  (VotesCounted /\ CommitNeedsVotes)'
  BY <1>8 DEF RmRcvAbort
<1>9. QED
  BY <1>1, <1>2, <1>3, <1>4, <1>5, <1>6, <1>7, <1>8 DEF Protocol

\* The inductive invariant: the coordinator's record of the votes agrees with the
\* participants, and whoever committed has every vote behind it.
THEOREM Invariant == Spec => []IInv
<1>1. Init => VotesCounted /\ CommitNeedsVotes
  BY DEF Init, VotesCounted, CommitNeedsVotes
<1>2. TypeOK /\ RunsOK /\ VotesCounted /\ CommitNeedsVotes /\ [Next]_vars
          => (VotesCounted /\ CommitNeedsVotes)'
  <2> SUFFICES ASSUME TypeOK, RunsOK, VotesCounted, CommitNeedsVotes, [Next]_vars
               PROVE  (VotesCounted /\ CommitNeedsVotes)'
    OBVIOUS
  <2>1. CASE Protocol
    BY <2>1, ProtocolKeepsVotes, TypeSplit
  <2>2. CASE UNCHANGED protocolVars
    BY <2>2 DEF protocolVars, VotesCounted, CommitNeedsVotes
  <2>3. QED
    BY <2>1, <2>2, StepIsCall
<1>3. QED
  BY <1>1, <1>2, TypeCorrect, PTL DEF Spec, IInv

\* Atomicity: no participant commits while another one aborts.
THEOREM AtomicOutcome == Spec => []Atomicity
<1>1. IInv => Atomicity
  BY DEF IInv, TypeOK, VotesCounted, CommitNeedsVotes, Atomicity
<1>2. QED
  BY <1>1, Invariant, PTL

\* What is decided at the coordinator, or reached a participant, stays.
Final == \A t \in TxnIds :
            /\ tm[t] \in Decided => tm'[t] = tm[t]
            /\ \A r \in RmIds : rm[t][r] \in Decided => rm'[t][r] = rm[t][r]

\* No call changes a decision or a delivered outcome.
LEMMA StepIsFinal ==
    ASSUME IInv, RunsOK, [Next]_vars
    PROVE  Final
<1>1. ASSUME IInv, Protocol
      PROVE  Final
  <2> USE DEF Final, IInv, TypeOK, VotesCounted, CommitNeedsVotes, Decided
  <2>1. CASE Begin
    BY <1>1, <2>1 DEF Begin
  <2>2. ASSUME NEW txn \in Begun, TmPrepare(txn) \/ TmCommit(txn) \/ TmAbort(txn)
        PROVE  Final
    <3>1. CASE TmPrepare(txn)
      BY <1>1, <3>1 DEF TmPrepare
    <3>2. CASE TmCommit(txn)
      BY <1>1, <3>2 DEF TmCommit
    <3>3. CASE TmAbort(txn)
      BY <1>1, <3>3 DEF TmAbort
    <3>4. QED
      BY <2>2, <3>1, <3>2, <3>3
  <2>3. ASSUME NEW txn \in Begun, NEW r \in RmIds, RmPrepare(txn, r)
        PROVE  Final
    BY <1>1, <2>3 DEF RmPrepare
  <2>4. ASSUME NEW txn \in Begun, NEW r \in RmIds, RmChooseToAbort(txn, r)
        PROVE  Final
    BY <1>1, <2>4 DEF RmChooseToAbort
  <2>5. ASSUME NEW txn \in Begun, NEW r \in RmIds, RmRcvCommit(txn, r)
        PROVE  Final
    BY <1>1, <2>5 DEF RmRcvCommit
  <2>6. ASSUME NEW txn \in Begun, NEW r \in RmIds, RmRcvAbort(txn, r)
        PROVE  Final
    BY <1>1, <2>6 DEF RmRcvAbort
  <2>7. QED
    BY <1>1, <2>1, <2>2, <2>3, <2>4, <2>5, <2>6 DEF Protocol
<1>2. CASE UNCHANGED protocolVars
  BY <1>2 DEF Final, protocolVars
<1>3. QED
  BY <1>1, <1>2, StepIsCall DEF IInv

\* OutcomesFinal: the coordinator's decision and a participant's outcome never
\* change again.
THEOREM OutcomesAreFinal == Spec => OutcomesFinal
<1>1. IInv /\ RunsOK /\ [Next]_vars => [Final]_vars
  BY StepIsFinal
<1>2. QED
  BY <1>1, Invariant, TypeCorrect, PTL DEF Spec, OutcomesFinal, Final

-----------------------------------------------------------------------------
\* What a run is there to deliver.
Verdict(c) == IF run[c].mode = "commit" THEN "Committed" ELSE "Aborted"

\* A delivering run has its verdict at the coordinator and at every participant
\* before its position, a finished one at all of them.
Delivered ==
    \A c \in Clients :
        /\ run[c].phase = "deliver" =>
              /\ tm[run[c].txn] = Verdict(c)
              /\ \A j \in 1 .. run[c].i - 1 : rm[run[c].txn][RMs[j]] = Verdict(c)
        /\ run[c].phase = "done" =>
              \A j \in 1 .. Len(RMs) : rm[run[c].txn][RMs[j]] = Verdict(c)

\* The step of a run extends what it has delivered by one participant.
LEMMA OwnStepDelivers ==
    ASSUME IInv, RunsOK, Delivered, NEW c \in Clients, RunStep(c), Final
    PROVE  /\ run'[c].phase = "deliver" =>
                 /\ tm'[run'[c].txn] = Verdict(c)'
                 /\ \A j \in 1 .. run'[c].i - 1 : rm'[run'[c].txn][RMs[j]] = Verdict(c)'
           /\ run'[c].phase = "done" =>
                 \A j \in 1 .. Len(RMs) : rm'[run'[c].txn][RMs[j]] = Verdict(c)'
<1> DEFINE txn == run[c].txn
<1>1. run[c] \in [phase : Phase, txn : TxnIds, mode : {"commit", "abort"},
                  no : RmIds \cup {Nobody}, i : 1 .. Len(RMs)]
  BY DEF IInv, TypeOK
<1>2. /\ tm \in [TxnIds -> {"Init", "Preparing", "Committed", "Aborted"}]
      /\ rm \in [TxnIds -> [RmIds -> {"Working", "Prepared", "Committed", "Aborted"}]]
      /\ run \in [Clients -> [phase : Phase, txn : TxnIds, mode : {"commit", "abort"},
                              no : RmIds \cup {Nobody}, i : 1 .. Len(RMs)]]
  BY DEF IInv, TypeOK
<1>3. Len(RMs) \in Nat /\ \A j \in 1 .. Len(RMs) : RMs[j] \in RmIds
  BY RMsAssumption DEF RmIds
<1>4. ASSUME NEW phase \in Phase, NEW i, Goes(c, phase, i)
      PROVE  /\ run'[c].txn = txn /\ run'[c].i = i /\ run'[c].phase = phase
             /\ Verdict(c)' = Verdict(c)
  BY <1>1, <1>2, <1>4 DEF Goes, Verdict
<1>5. CASE Refused(c)
  BY <1>2, <1>5 DEF Refused
<1>6. CASE Prepare(c) \/ Vote(c)
  <2>1. CASE Goes(c, "vote", 1)
    BY <1>4, <2>1 DEF Phase
  <2>2. CASE AfterVote(c)
    BY <1>4, <2>2 DEF AfterVote, Phase
  <2>3. QED
    BY <1>5, <1>6, <2>1, <2>2 DEF Prepare, Vote
<1>7. CASE Decide(c)
  <2>1. CASE Goes(c, "deliver", 1)
    <3>1. tm'[txn] = Verdict(c)
      BY <1>1, <1>2, <1>7, <2>1 DEF Decide, Goes, Refused, TmCommit, TmAbort, Verdict
    <3>2. QED
      BY <1>4, <2>1, <3>1 DEF Phase
  <2>2. QED
    BY <1>5, <1>7, <2>1 DEF Decide
<1>8. CASE Deliver(c)
  <2>1. /\ tm[txn] = Verdict(c)
        /\ \A j \in 1 .. run[c].i - 1 : rm[txn][RMs[j]] = Verdict(c)
    BY <1>8 DEF Deliver, Delivered
  <2>2. tm'[txn] = Verdict(c)
    BY <1>1, <2>1 DEF Final, Decided, Verdict
  <2>3. Turn(c) \in RmIds
    BY <1>1, <1>3 DEF Turn
  <2>4. rm'[txn][Turn(c)] = Verdict(c)
    <3>1. CASE run[c].mode = "commit"
      BY <1>1, <1>2, <1>8, <2>3, <3>1 DEF Deliver, RmRcvCommit, Verdict
    <3>2. CASE run[c].mode = "abort"
      BY <1>1, <1>2, <1>8, <2>3, <3>2 DEF Deliver, RmRcvAbort, Verdict, protocolVars
    <3>3. QED
      BY <1>1, <3>1, <3>2
  <2>5. \A j \in 1 .. run[c].i : rm'[txn][RMs[j]] = Verdict(c)
    <3>1. ASSUME NEW j \in 1 .. run[c].i - 1
          PROVE  rm'[txn][RMs[j]] = Verdict(c)
      BY <1>1, <1>3, <2>1, <3>1 DEF Final, Decided, Verdict
    <3>2. QED
      BY <1>1, <1>3, <2>4, <3>1 DEF Turn
  <2>6. CASE run[c].i < Len(RMs)
    BY <1>1, <1>4, <1>8, <2>2, <2>5, <2>6 DEF Deliver, AfterDelivery, Phase
  <2>7. CASE ~(run[c].i < Len(RMs))
    BY <1>1, <1>3, <1>4, <1>8, <2>5, <2>7 DEF Deliver, AfterDelivery, Phase
  <2>8. QED
    BY <2>6, <2>7
<1>9. QED
  BY <1>6, <1>7, <1>8 DEF RunStep

\* AnswersTrue: a run that answers Commit or Abort has brought every participant
\* to that outcome, and no other client's calls have undone it.
THEOREM AnswersAreTrue == Spec => []AnswersTrue
<1>1. Init => Delivered
  BY DEF Init, Idle, Delivered
<1>2. IInv /\ RunsOK /\ Delivered /\ [Next]_vars => Delivered'
  <2> SUFFICES ASSUME IInv, RunsOK, Delivered, [Next]_vars
               PROVE  Delivered'
    OBVIOUS
  <2>1. Final
    BY StepIsFinal
  <2>2. ASSUME NEW c \in Clients, run'[c] = run[c]
        PROVE  /\ run'[c].phase = "deliver" =>
                     /\ tm'[run'[c].txn] = Verdict(c)'
                     /\ \A j \in 1 .. run'[c].i - 1 :
                           rm'[run'[c].txn][RMs[j]] = Verdict(c)'
               /\ run'[c].phase = "done" =>
                     \A j \in 1 .. Len(RMs) : rm'[run'[c].txn][RMs[j]] = Verdict(c)'
    <3>1. run[c].txn \in TxnIds /\ run[c].i \in 1 .. Len(RMs)
      BY DEF IInv, TypeOK
    <3>2. Len(RMs) \in Nat /\ \A j \in 1 .. Len(RMs) : RMs[j] \in RmIds
      BY RMsAssumption DEF RmIds
    <3>3. Verdict(c)' = Verdict(c) /\ Verdict(c) \in Decided
      BY <2>2 DEF Verdict, Decided
    <3>4. \A j \in 1 .. run[c].i - 1 : j \in 1 .. Len(RMs)
      BY <3>1, <3>2
    <3>5. QED
      BY <2>1, <2>2, <3>1, <3>2, <3>3, <3>4 DEF Delivered, Final
  <2>3. ASSUME NEW c \in Clients, NEW txn \in Begun, NEW no, NEW mode,
               Start(c, txn, no, mode)
        PROVE  Delivered'
    <3>1. run'[c].phase = "prepare" /\ \A d \in Clients : d # c => run'[d] = run[d]
      BY <2>3 DEF Start, IInv, TypeOK
    <3>2. QED
      BY <2>2, <3>1 DEF Delivered
  <2>4. ASSUME NEW c \in Clients, RunStep(c)
        PROVE  Delivered'
    <3>1. \A d \in Clients : d # c => run'[d] = run[d]
      <4>1. PICK phase, i :
               run' = [run EXCEPT ![c].phase = phase, ![c].i = i] \/ Refused(c)
        BY <2>4 DEF RunStep, Prepare, Vote, Decide, Deliver, AfterVote,
            AfterDelivery, Goes
      <4>2. QED
        BY <4>1 DEF Refused, IInv, TypeOK
    <3>2. QED
      BY <2>1, <2>2, <2>4, <3>1, OwnStepDelivers DEF Delivered
  <2>5. CASE UNCHANGED run
    BY <2>2, <2>5 DEF Delivered
  <2>6. QED
    BY <2>3, <2>4, <2>5 DEF Next, Call, vars
<1>3. IInv /\ Delivered => AnswersTrue
  <2> SUFFICES ASSUME IInv, Delivered, NEW c \in Clients, run[c].phase = "done",
                      NEW r \in RmIds
               PROVE  rm[run[c].txn][r] =
                          IF run[c].mode = "commit" THEN "Committed" ELSE "Aborted"
    BY DEF AnswersTrue
  <2>1. PICK j \in 1 .. Len(RMs) : r = RMs[j]
    BY RMsAssumption DEF RmIds
  <2>2. QED
    BY <2>1 DEF Delivered, Verdict
<1>4. QED
  BY <1>1, <1>2, <1>3, Invariant, TypeCorrect, PTL DEF Spec

\* ImplementsAtomicCommit: the participants of every transaction go through an
\* atomic commitment, each call one step of it or none.
THEOREM Implements == Spec => ImplementsAtomicCommit
<1>1. Init => AC!Init
  BY DEF Init, AC!Init
<1>2. ASSUME IInv, Protocol
      PROVE  [AC!Next]_rm
  <2> USE DEF IInv, TypeOK, VotesCounted, CommitNeedsVotes, AC!Becomes
  <2>1. CASE UNCHANGED rm
    BY <2>1
  <2>2. ASSUME NEW txn \in Begun, NEW r \in RmIds, RmPrepare(txn, r)
        PROVE  AC!Consent(txn, r)
    BY <1>2, <2>2 DEF RmPrepare, AC!Consent
  <2>3. ASSUME NEW txn \in Begun, NEW r \in RmIds, RmChooseToAbort(txn, r)
        PROVE  AC!AbortOne(txn, r)
    BY <1>2, <2>3 DEF RmChooseToAbort, AC!AbortOne
  <2>4. ASSUME NEW txn \in Begun, NEW r \in RmIds, RmRcvAbort(txn, r)
        PROVE  AC!AbortOne(txn, r)
    BY <1>2, <2>4 DEF RmRcvAbort, AC!AbortOne
  <2>5. ASSUME NEW txn \in Begun, NEW r \in RmIds, RmRcvCommit(txn, r)
        PROVE  AC!CommitOne(txn, r)
    BY <1>2, <2>5 DEF RmRcvCommit, AC!CommitOne
  <2>6. QED
    BY <1>2, <2>1, <2>2, <2>3, <2>4, <2>5
    DEF Protocol, Begin, TmPrepare, TmCommit, TmAbort, AC!Next
<1>3. IInv /\ RunsOK /\ [Next]_vars => [AC!Next]_rm
  BY <1>2, StepIsCall DEF IInv, protocolVars
<1>4. QED
  BY <1>1, <1>3, Invariant, TypeCorrect, PTL DEF Spec, ImplementsAtomicCommit, AC!Spec

-----------------------------------------------------------------------------
(* The evolved version: an exchange per step, and a vote that is counted      *)
(* after it was given.                                                        *)

\* The record of a client's run, which can also stand between a vote and its count.
RunRecords == [phase : Phase \cup {"count"}, txn : TxnIds, mode : {"commit", "abort"},
               no : RmIds \cup {Nobody}, i : 1 .. Len(RMs)]

\* A vote under way has left its participant prepared, or the outcome has come
\* before it was counted.
VotesUnderWay ==
    \A c \in Clients : run[c].phase = "count" =>
        /\ rm[run[c].txn][Turn(c)] # "Working"
        /\ rm[run[c].txn][Turn(c)] = "Aborted" => tm[run[c].txn] = "Aborted"

\* The votes counted were given, and only a coordinator that has aborted overrules
\* them.
CountedGiven ==
    \A t \in TxnIds : \A r \in RmIds : r \in prepared[t] =>
        /\ rm[t][r] # "Working"
        /\ rm[t][r] = "Aborted" => tm[t] = "Aborted"

\* A run that commits has had the coordinator commit, and the participants before
\* its position.
CommitDelivered ==
    \A c \in Clients : run[c].mode = "commit" =>
        /\ run[c].phase = "deliver" =>
              \A j \in 1 .. run[c].i - 1 : rm[run[c].txn][RMs[j]] = "Committed"
        /\ run[c].phase = "done" =>
              \A j \in 1 .. Len(RMs) : rm[run[c].txn][RMs[j]] = "Committed"

TypeLF == ProtocolTypeOK /\ run \in [Clients -> RunRecords] /\ RunsOK

InvLF == TypeLF /\ VotesUnderWay /\ CountedGiven /\ CommitNeedsVotes /\ CommitDelivered

\* What an exchange or a count does to the protocol, whoever makes it.
ProtocolLF ==
    \/ BeginLF
    \/ \E txn \in Begun :
          \/ TmPrepareLF(txn) \/ TmCommitLF(txn) \/ TmAbortLF(txn)
          \/ \E r \in RmIds :
                \/ RmPrepareLF(txn, r) \/ RmChooseToAbortLF(txn, r)
                \/ /\ rm[txn][r] = "Aborted" => tm[txn] = "Aborted"
                   /\ CountLF(txn, r)
                \/ RmRcvCommitLF(txn, r) \/ RmRcvAbortLF(txn, r)

\* The steps of a client's run.
RunStepLF(c) == PrepareLF(c) \/ VoteLF(c) \/ CountVote(c) \/ DecideLF(c) \/ DeliverLF(c)

\* The participant whose turn it is is one.
LEMMA TurnLF ==
    ASSUME TypeLF, NEW c \in Clients
    PROVE  /\ run[c] \in RunRecords /\ Turn(c) \in RmIds
           /\ Len(RMs) \in Nat /\ \A j \in 1 .. Len(RMs) : RMs[j] \in RmIds
<1>1. run[c] \in RunRecords
  BY DEF TypeLF
<1>2. run[c].i \in 1 .. Len(RMs)
  BY <1>1 DEF RunRecords
<1>3. QED
  BY <1>1, <1>2, RMsAssumption DEF Turn, RmIds

\* Where a step of a run can leave it.
LEMMA RunGoes ==
    ASSUME TypeLF, NEW c \in Clients, RunStepLF(c)
    PROVE  /\ run[c].phase # "idle"
           /\ \E phase \in (Phase \cup {"count"}) \ {"idle"}, i \in 1 .. Len(RMs) :
                 run' = [run EXCEPT ![c].phase = phase, ![c].i = i]
<1> DEFINE Ends == \E phase \in (Phase \cup {"count"}) \ {"idle"}, i \in 1 .. Len(RMs) :
                      run' = [run EXCEPT ![c].phase = phase, ![c].i = i]
<1>1. /\ run[c].i \in 1 .. Len(RMs) /\ Len(RMs) \in Nat /\ Len(RMs) >= 1
      /\ run \in [Clients -> RunRecords] /\ run[c] \in RunRecords
  BY TurnLF, RMsAssumption DEF RunRecords, TypeLF
<1>2. run[c].phase # "idle"
  BY DEF RunStepLF, PrepareLF, VoteLF, CountVote, DecideLF, DeliverLF
<1>3. ASSUME Refused(c) PROVE Ends
  <2>1. run' = [run EXCEPT ![c].phase = "failed", ![c].i = run[c].i]
    BY <1>1, <1>3 DEF Refused, RunRecords
  <2>2. QED
    BY <1>1, <2>1 DEF Phase
<1>4. ASSUME NEW phase \in {"vote", "count", "decide", "deliver", "done"}, NEW i \in 1 .. Len(RMs),
             Goes(c, phase, i)
      PROVE  Ends
  BY <1>4 DEF Goes, Phase
<1> HIDE DEF Ends
<1>5. ASSUME AfterVote(c) \/ AfterDelivery(c) PROVE Ends
  <2>1. 1 \in 1 .. Len(RMs)
    BY <1>1
  <2>2. CASE run[c].i < Len(RMs)
    <3>1. run[c].i + 1 \in 1 .. Len(RMs)
      BY <1>1, <2>2
    <3>2. Goes(c, "vote", run[c].i + 1) \/ Goes(c, "deliver", run[c].i + 1)
      BY <1>5, <2>2 DEF AfterVote, AfterDelivery
    <3>3. QED
      BY <1>4, <3>1, <3>2
  <2>3. CASE ~(run[c].i < Len(RMs))
    <3>1. Goes(c, "decide", 1) \/ Goes(c, "done", 1)
      BY <1>5, <2>3 DEF AfterVote, AfterDelivery
    <3>2. QED
      BY <1>4, <2>1, <3>1
  <2>4. QED
    BY <2>2, <2>3
<1>6. ASSUME Goes(c, "vote", 1) \/ Goes(c, "count", run[c].i) \/ Goes(c, "deliver", 1) PROVE Ends
  <2>1. 1 \in 1 .. Len(RMs)
    BY <1>1
  <2>2. QED
    BY <1>1, <1>4, <1>6, <2>1
<1>7. Ends
  BY <1>3, <1>5, <1>6 DEF RunStepLF, PrepareLF, VoteLF, CountVote, DecideLF, DeliverLF
<1>8. QED
  BY <1>2, <1>7 DEF Ends

\* Every step of the system is an exchange, a count, or leaves the protocol alone.
LEMMA StepIsExchange ==
    ASSUME InvLF, [NextLF]_vars
    PROVE  ProtocolLF \/ UNCHANGED protocolVars
<1>1. CASE CallLF
  BY <1>1 DEF CallLF, ProtocolLF
<1>2. ASSUME NEW c \in Clients, NEW txn, NEW no, NEW mode, Start(c, txn, no, mode)
      PROVE  UNCHANGED protocolVars
  BY <1>2 DEF Start
<1>3. ASSUME NEW c \in Clients, RunStepLF(c)
      PROVE  ProtocolLF \/ UNCHANGED protocolVars
  <2>1. Turn(c) \in RmIds /\ run[c].txn \in Begun /\ run[c].mode \in {"commit", "abort"}
    BY <1>3, TurnLF, RunGoes DEF InvLF, TypeLF, RunsOK, RunRecords
  <2>2. CASE PrepareLF(c)
    BY <2>1, <2>2 DEF PrepareLF, Refused, ProtocolLF
  <2>3. CASE VoteLF(c)
    BY <2>1, <2>3 DEF VoteLF, Refused, ProtocolLF
  <2>4. CASE CountVote(c)
    BY <2>1, <2>4 DEF CountVote, ProtocolLF, InvLF, VotesUnderWay
  <2>5. CASE DecideLF(c)
    BY <2>1, <2>5 DEF DecideLF, Refused, ProtocolLF
  <2>6. CASE DeliverLF(c)
    BY <2>1, <2>6 DEF DeliverLF, Refused, ProtocolLF
  <2>7. QED
    BY <1>3, <2>2, <2>3, <2>4, <2>5, <2>6 DEF RunStepLF
<1>4. CASE UNCHANGED vars
  BY <1>4 DEF vars
<1>5. QED
  BY <1>1, <1>2, <1>3, <1>4 DEF NextLF, RunStepLF

\* Exchanges and counts keep the types, the votes and the decision in agreement,
\* and take back no decision, no outcome and no vote.
LEMMA ExchangeKeeps ==
    ASSUME ProtocolTypeOK, CountedGiven, CommitNeedsVotes, ProtocolLF
    PROVE  /\ ProtocolTypeOK' /\ CountedGiven' /\ CommitNeedsVotes'
           /\ Begun \subseteq Begun'
           /\ Final
           /\ \A t \in TxnIds : \A r \in RmIds :
                 /\ rm[t][r] # "Working" => rm'[t][r] # "Working"
                 /\ rm[t][r] # "Aborted" /\ rm'[t][r] = "Aborted" => rm[t][r] = "Working" \/ tm'[t] = "Aborted"
<1> DEFINE Goal ==
       /\ ProtocolTypeOK' /\ CountedGiven' /\ CommitNeedsVotes'
       /\ Begun \subseteq Begun'
       /\ Final
       /\ \A t \in TxnIds : \A r \in RmIds :
             /\ rm[t][r] # "Working" => rm'[t][r] # "Working"
             /\ rm[t][r] # "Aborted" /\ rm'[t][r] = "Aborted" => rm[t][r] = "Working" \/ tm'[t] = "Aborted"
<1> USE DEF ProtocolTypeOK, CountedGiven, CommitNeedsVotes, Final, Decided
<1>1. CASE BeginLF
  BY <1>1 DEF BeginLF, Begin
<1>2. ASSUME NEW txn \in Begun, TmPrepareLF(txn) PROVE Goal
  BY <1>2 DEF TmPrepareLF, TmPrepare
<1>3. ASSUME NEW txn \in Begun, TmCommitLF(txn) PROVE Goal
  BY <1>3 DEF TmCommitLF, TmCommit
<1>4. ASSUME NEW txn \in Begun, TmAbortLF(txn) PROVE Goal
  BY <1>4 DEF TmAbortLF, TmAbort
<1>5. ASSUME NEW txn \in Begun, NEW r \in RmIds, RmPrepareLF(txn, r) PROVE Goal
  BY <1>5 DEF RmPrepareLF
<1>6. ASSUME NEW txn \in Begun, NEW r \in RmIds, RmChooseToAbortLF(txn, r) PROVE Goal
  BY <1>6 DEF RmChooseToAbortLF, RmChooseToAbort
<1>7. ASSUME NEW txn \in Begun, NEW r \in RmIds, CountLF(txn, r),
             rm[txn][r] = "Aborted" => tm[txn] = "Aborted" PROVE Goal
  BY <1>7 DEF CountLF
<1>8. ASSUME NEW txn \in Begun, NEW r \in RmIds, RmRcvCommitLF(txn, r) PROVE Goal
  BY <1>8 DEF RmRcvCommitLF
<1>9. ASSUME NEW txn \in Begun, NEW r \in RmIds, RmRcvAbortLF(txn, r) PROVE Goal
  BY <1>9 DEF RmRcvAbortLF
<1>10. QED
  BY <1>1, <1>2, <1>3, <1>4, <1>5, <1>6, <1>7, <1>8, <1>9 DEF ProtocolLF

\* The record of a run stays one, of a transaction that has begun.
LEMMA RunsKept ==
    ASSUME InvLF, [NextLF]_vars
    PROVE  TypeLF'
<1>1. TypeLF /\ ProtocolTypeOK'  /\ Begun \subseteq Begun'
  BY StepIsExchange, ExchangeKeeps DEF InvLF, TypeLF, protocolVars, ProtocolTypeOK
<1>2. ASSUME UNCHANGED run PROVE TypeLF'
  BY <1>1, <1>2 DEF TypeLF, RunsOK
<1>3. ASSUME NEW c \in Clients, NEW txn \in Begun, NEW no \in RmIds \cup {Nobody},
             NEW mode \in {"commit", "abort"}, Start(c, txn, no, mode)
      PROVE  TypeLF'
  <2>1. 1 \in 1 .. Len(RMs)
    BY RMsAssumption
  <2>2. [phase |-> "prepare", txn |-> txn, mode |-> mode, no |-> no, i |-> 1] \in RunRecords
    BY <2>1 DEF RunRecords, Phase
  <2>3. QED
    BY <1>1, <1>3, <2>2 DEF Start, TypeLF, RunsOK
<1>4. ASSUME NEW c \in Clients, RunStepLF(c) PROVE TypeLF'
  <2>1. PICK phase \in (Phase \cup {"count"}) \ {"idle"}, i \in 1 .. Len(RMs) :
                 run' = [run EXCEPT ![c].phase = phase, ![c].i = i]
    BY <1>1, <1>4, RunGoes
  <2>2. run \in [Clients -> RunRecords] /\ run[c] \in RunRecords /\ run[c].phase # "idle"
    BY <1>1, <1>4, RunGoes DEF TypeLF
  <2>3. [run[c] EXCEPT !.phase = phase, !.i = i] \in RunRecords
    BY <2>1, <2>2 DEF RunRecords
  <2>4. run' = [run EXCEPT ![c] = [run[c] EXCEPT !.phase = phase, !.i = i]]
    BY <2>1, <2>2 DEF RunRecords
  <2>5. run' \in [Clients -> RunRecords]
    BY <2>2, <2>3, <2>4
  <2>6. run'[c].txn = run[c].txn /\ \A d \in Clients \ {c} : run'[d] = run[d]
    BY <2>2, <2>4 DEF RunRecords
  <2>7. QED
    BY <1>1, <2>2, <2>5, <2>6 DEF TypeLF, RunsOK
<1>5. QED
  BY <1>2, <1>3, <1>4 DEF NextLF, CallLF, RunStepLF, vars

\* What holds of a run that is not moved goes on holding: what it voted stays voted,
\* what it delivered stays delivered.
LEMMA RunUndisturbed ==
    ASSUME InvLF, [NextLF]_vars, NEW c \in Clients, run'[c] = run[c]
    PROVE  /\ run'[c].phase = "count" =>
                 /\ rm'[run'[c].txn][Turn(c)'] # "Working"
                 /\ rm'[run'[c].txn][Turn(c)'] = "Aborted" => tm'[run'[c].txn] = "Aborted"
           /\ run'[c].mode = "commit" =>
                 /\ run'[c].phase = "deliver" =>
                       \A j \in 1 .. run'[c].i - 1 : rm'[run'[c].txn][RMs[j]] = "Committed"
                 /\ run'[c].phase = "done" =>
                       \A j \in 1 .. Len(RMs) : rm'[run'[c].txn][RMs[j]] = "Committed"
<1> DEFINE t == run[c].txn
<1>1. /\ t \in TxnIds /\ run[c].i \in 1 .. Len(RMs) /\ Turn(c) \in RmIds
      /\ Len(RMs) \in Nat /\ \A j \in 1 .. Len(RMs) : RMs[j] \in RmIds
  BY TurnLF DEF InvLF, RunRecords
<1>2. /\ Final
      /\ \A r \in RmIds :
            /\ rm[t][r] # "Working" => rm'[t][r] # "Working"
            /\ rm[t][r] # "Aborted" /\ rm'[t][r] = "Aborted" => rm[t][r] = "Working" \/ tm'[t] = "Aborted"
  <2>1. CASE UNCHANGED protocolVars
    BY <2>1 DEF protocolVars, Final
  <2>2. CASE ProtocolLF
    BY <1>1, <2>2, ExchangeKeeps DEF InvLF, TypeLF
  <2>3. QED
    BY <2>1, <2>2, StepIsExchange
<1>3. Turn(c)' = Turn(c)
  BY DEF Turn
<1>4. ASSUME run[c].phase = "count"
      PROVE  /\ rm'[t][Turn(c)] # "Working"
             /\ rm'[t][Turn(c)] = "Aborted" => tm'[t] = "Aborted"
  BY <1>1, <1>2, <1>4 DEF InvLF, VotesUnderWay, Final, Decided
<1>5. ASSUME NEW j \in 1 .. Len(RMs), rm[t][RMs[j]] = "Committed"
      PROVE  rm'[t][RMs[j]] = "Committed"
  BY <1>1, <1>2, <1>5 DEF Final, Decided
<1>6. ASSUME run[c].mode = "commit"
      PROVE  /\ run[c].phase = "deliver" =>
                   \A j \in 1 .. run[c].i - 1 : rm'[t][RMs[j]] = "Committed"
             /\ run[c].phase = "done" =>
                   \A j \in 1 .. Len(RMs) : rm'[t][RMs[j]] = "Committed"
  <2>1. \A j \in 1 .. run[c].i - 1 : j \in 1 .. Len(RMs)
    BY <1>1
  <2>2. QED
    BY <1>5, <1>6, <2>1 DEF InvLF, CommitDelivered
<1>7. QED
  BY <1>3, <1>4, <1>6

\* The step of a run counts what it has just voted and extends what it delivered by
\* one participant.
LEMMA RunMoves ==
    ASSUME InvLF, NEW c \in Clients, RunStepLF(c), [NextLF]_vars
    PROVE  /\ run'[c].phase = "count" =>
                 /\ rm'[run'[c].txn][Turn(c)'] # "Working"
                 /\ rm'[run'[c].txn][Turn(c)'] = "Aborted" => tm'[run'[c].txn] = "Aborted"
           /\ run'[c].mode = "commit" =>
                 /\ run'[c].phase = "deliver" =>
                       \A j \in 1 .. run'[c].i - 1 : rm'[run'[c].txn][RMs[j]] = "Committed"
                 /\ run'[c].phase = "done" =>
                       \A j \in 1 .. Len(RMs) : rm'[run'[c].txn][RMs[j]] = "Committed"
<1> DEFINE t == run[c].txn
           Counting == run'[c].phase = "count" =>
                          /\ rm'[run'[c].txn][Turn(c)'] # "Working"
                          /\ rm'[run'[c].txn][Turn(c)'] = "Aborted" => tm'[run'[c].txn] = "Aborted"
           Delivering == run'[c].mode = "commit" =>
                            /\ run'[c].phase = "deliver" =>
                                  \A j \in 1 .. run'[c].i - 1 : rm'[run'[c].txn][RMs[j]] = "Committed"
                            /\ run'[c].phase = "done" =>
                                  \A j \in 1 .. Len(RMs) : rm'[run'[c].txn][RMs[j]] = "Committed"
<1>1. /\ t \in TxnIds /\ run[c].i \in 1 .. Len(RMs) /\ Turn(c) \in RmIds
      /\ run[c].mode \in {"commit", "abort"}
      /\ Len(RMs) \in Nat /\ \A j \in 1 .. Len(RMs) : RMs[j] \in RmIds
  BY TurnLF DEF InvLF, RunRecords
<1>2. /\ run \in [Clients -> RunRecords] /\ run[c] \in RunRecords
      /\ rm \in [TxnIds -> [RmIds -> {"Working", "Prepared", "Committed", "Aborted"}]]
  BY DEF InvLF, TypeLF, ProtocolTypeOK
<1>3. ASSUME Refused(c) PROVE Counting /\ Delivering
  BY <1>2, <1>3 DEF Refused
<1>4. ASSUME NEW phase, NEW i, Goes(c, phase, i)
      PROVE  /\ run'[c].txn = t /\ run'[c].mode = run[c].mode /\ run'[c].phase = phase /\ run'[c].i = i
             /\ Turn(c)' = RMs[i]
  BY <1>2, <1>4 DEF Goes, RunRecords, Turn
<1>5. ASSUME AfterVote(c) \/ Goes(c, "vote", 1) PROVE Counting /\ Delivering
  BY <1>1, <1>4, <1>5 DEF AfterVote
<1>6. ASSUME Goes(c, "deliver", 1) PROVE Counting /\ Delivering
  BY <1>4, <1>6
<1>7. ASSUME RmPrepareLF(t, Turn(c)), Goes(c, "count", run[c].i) PROVE Counting /\ Delivering
  <2>1. rm'[t][Turn(c)] = "Prepared"
    BY <1>1, <1>2, <1>7 DEF RmPrepareLF
  <2>2. QED
    BY <1>4, <1>7, <2>1 DEF Turn
<1>8. ASSUME DeliverLF(c), AfterDelivery(c), run[c].mode = "abort" PROVE Counting /\ Delivering
  BY <1>4, <1>8 DEF AfterDelivery
<1>9. ASSUME DeliverLF(c), AfterDelivery(c), run[c].mode = "commit", RmRcvCommitLF(t, Turn(c))
      PROVE  Counting /\ Delivering
  <2>1. rm' = [rm EXCEPT ![t][Turn(c)] = "Committed"]
    BY <1>9 DEF RmRcvCommitLF
  <2>2. \A j \in 1 .. run[c].i - 1 : rm[t][RMs[j]] = "Committed" /\ RMs[j] \in RmIds
    BY <1>1, <1>9 DEF DeliverLF, InvLF, CommitDelivered
  <2>3. \A j \in 1 .. run[c].i : rm'[t][RMs[j]] = "Committed"
    <3>1. rm'[t][Turn(c)] = "Committed"
      BY <1>1, <1>2, <2>1
    <3>2. \A j \in 1 .. run[c].i - 1 : rm'[t][RMs[j]] = "Committed"
      BY <1>1, <1>2, <2>1, <2>2
    <3>3. \A j \in 1 .. run[c].i : j = run[c].i \/ j \in 1 .. run[c].i - 1
      BY <1>1
    <3>4. QED
      BY <3>1, <3>2, <3>3 DEF Turn
  <2>4. CASE run[c].i < Len(RMs)
    <3>1. Goes(c, "deliver", run[c].i + 1)
      BY <1>9, <2>4 DEF AfterDelivery
    <3>2. /\ run'[c].txn = t /\ run'[c].phase = "deliver" /\ run'[c].i = run[c].i + 1
          /\ run[c].i + 1 - 1 = run[c].i
      BY <1>1, <1>4, <3>1
    <3>3. 1 .. run'[c].i - 1 = 1 .. run[c].i
      BY <1>1, <3>2
    <3>4. \A j \in 1 .. run'[c].i - 1 : rm'[run'[c].txn][RMs[j]] = "Committed"
      BY <2>3, <3>2, <3>3, Zenon
    <3>5. QED
      BY <3>2, <3>4
  <2>5. CASE ~(run[c].i < Len(RMs))
    <3>1. Goes(c, "done", 1) /\ run[c].i = Len(RMs)
      BY <1>1, <1>9, <2>5 DEF AfterDelivery
    <3>2. QED
      BY <1>4, <2>3, <3>1
  <2>6. QED
    BY <2>4, <2>5
<1> HIDE DEF Counting, Delivering
<1>10. Counting /\ Delivering
  BY <1>3, <1>5, <1>6, <1>7, <1>8, <1>9 DEF RunStepLF, PrepareLF, VoteLF, CountVote, DecideLF, DeliverLF
<1>11. QED
  BY <1>10 DEF Counting, Delivering

\* Every exchange keeps the invariant: the coordinator commits on votes given, an
\* uncounted vote is only overruled by an abort, a commit delivers what it tells.
LEMMA StepLF == InvLF /\ [NextLF]_vars => InvLF'
<1> SUFFICES ASSUME InvLF, [NextLF]_vars PROVE InvLF'
  OBVIOUS
<1>1. TypeLF'
  BY RunsKept
<1>2. CountedGiven' /\ CommitNeedsVotes'
  <2>1. CASE UNCHANGED protocolVars
    BY <2>1 DEF protocolVars, InvLF, CountedGiven, CommitNeedsVotes
  <2>2. CASE ProtocolLF
    BY <2>2, ExchangeKeeps DEF InvLF, TypeLF
  <2>3. QED
    BY <2>1, <2>2, StepIsExchange
<1> DEFINE Counting(c) == run'[c].phase = "count" =>
                            /\ rm'[run'[c].txn][Turn(c)'] # "Working"
                            /\ rm'[run'[c].txn][Turn(c)'] = "Aborted" => tm'[run'[c].txn] = "Aborted"
           Delivering(c) == run'[c].mode = "commit" =>
                               /\ run'[c].phase = "deliver" =>
                                     \A j \in 1 .. run'[c].i - 1 : rm'[run'[c].txn][RMs[j]] = "Committed"
                               /\ run'[c].phase = "done" =>
                                     \A j \in 1 .. Len(RMs) : rm'[run'[c].txn][RMs[j]] = "Committed"
<1>3. ASSUME NEW c \in Clients PROVE Counting(c) /\ Delivering(c)
  <2>1. CASE run'[c] = run[c]
    BY <2>1, RunUndisturbed
  <2>2. CASE RunStepLF(c)
    BY <2>2, RunMoves
  <2>3. ASSUME NEW txn, NEW no, NEW mode, Start(c, txn, no, mode) PROVE Counting(c) /\ Delivering(c)
    BY <2>3 DEF Start, InvLF, TypeLF
  <2>4. ASSUME NEW d \in Clients \ {c}, RunStepLF(d) PROVE run'[c] = run[c]
    BY <2>4, RunGoes DEF InvLF, TypeLF
  <2>5. ASSUME NEW d \in Clients \ {c}, NEW txn, NEW no, NEW mode, Start(d, txn, no, mode)
        PROVE  run'[c] = run[c]
    BY <2>5 DEF Start, InvLF, TypeLF
  <2>6. CASE UNCHANGED run
    BY <2>1, <2>6
  <2> HIDE DEF Counting, Delivering
  <2>7. QED
    BY <2>1, <2>2, <2>3, <2>4, <2>5, <2>6 DEF NextLF, CallLF, RunStepLF, vars
<1>4. VotesUnderWay' /\ CommitDelivered'
  BY <1>3 DEF VotesUnderWay, CommitDelivered
<1>5. QED
  BY <1>1, <1>2, <1>4 DEF InvLF

\* The inductive invariant of the evolved version: types, votes given before they
\* are counted, commits that have every vote.
THEOREM InvariantLF == SpecLF => []InvLF
<1>1. Init => InvLF
  <2> SUFFICES ASSUME Init PROVE InvLF
    OBVIOUS
  <2>1. 1 \in TxnIds /\ 1 \in 1 .. Len(RMs) /\ 1 \in 1 .. MaxTxns + 1
    BY RMsAssumption, MaxTxnsAssumption
  <2>2. TypeLF
    BY <2>1 DEF Init, TypeLF, ProtocolTypeOK, RunRecords, RunsOK, Idle, Phase
  <2>3. CountedGiven /\ CommitNeedsVotes
    BY DEF Init, CountedGiven, CommitNeedsVotes
  <2>4. VotesUnderWay /\ CommitDelivered
    BY DEF Init, Idle, VotesUnderWay, CommitDelivered
  <2>5. QED
    BY <2>2, <2>3, <2>4 DEF InvLF
<1>2. QED
  BY <1>1, StepLF, PTL DEF SpecLF

\* Atomicity of the evolved version, with a vote and its count two steps and any
\* exchange refused for no reason.
THEOREM AtomicOutcomeLF == SpecLF => []Atomicity
<1>1. InvLF => Atomicity
  BY DEF InvLF, TypeLF, ProtocolTypeOK, CountedGiven, CommitNeedsVotes, Atomicity
<1>2. QED
  BY <1>1, InvariantLF, PTL

\* Decisions and outcomes of the evolved version never change again.
THEOREM OutcomesAreFinalLF == SpecLF => OutcomesFinal
<1>1. InvLF /\ [NextLF]_vars => [Final]_vars
  <2> SUFFICES ASSUME InvLF, [NextLF]_vars PROVE [Final]_vars
    OBVIOUS
  <2>1. CASE UNCHANGED protocolVars
    BY <2>1 DEF protocolVars, Final
  <2>2. CASE ProtocolLF
    BY <2>2, ExchangeKeeps DEF InvLF, TypeLF
  <2>3. QED
    BY <2>1, <2>2, StepIsExchange
<1>2. QED
  BY <1>1, InvariantLF, PTL DEF SpecLF, OutcomesFinal, Final

\* run_commit of the evolved version answers Commit only when every participant has
\* committed, other clients notwithstanding.
THEOREM CommitAnswersAreTrue == SpecLF => []CommitAnswersTrue
<1>1. InvLF => CommitAnswersTrue
  <2> SUFFICES ASSUME InvLF, NEW c \in Clients, run[c].phase = "done", run[c].mode = "commit",
                      NEW r \in RmIds
               PROVE  rm[run[c].txn][r] = "Committed"
    BY DEF CommitAnswersTrue
  <2>1. PICK j \in 1 .. Len(RMs) : r = RMs[j]
    BY RMsAssumption DEF RmIds
  <2>2. QED
    BY <2>1 DEF InvLF, CommitDelivered
<1>2. QED
  BY <1>1, InvariantLF, PTL

\* ImplementsAtomicCommit: the participants' states of the evolved version go
\* through an atomic commitment, each exchange one step of it or none.
THEOREM ImplementsLF == SpecLF => ImplementsAtomicCommit
<1>1. Init => AC!Init
  BY DEF Init, AC!Init
<1>2. ASSUME InvLF, ProtocolLF
      PROVE  [AC!Next]_rm
  <2> USE DEF InvLF, TypeLF, ProtocolTypeOK, CountedGiven, CommitNeedsVotes, AC!Becomes
  <2>1. CASE UNCHANGED rm
    BY <2>1
  <2>2. ASSUME NEW txn \in Begun, NEW r \in RmIds, RmPrepareLF(txn, r)
        PROVE  AC!Consent(txn, r)
    BY <1>2, <2>2 DEF RmPrepareLF, AC!Consent
  <2>3. ASSUME NEW txn \in Begun, NEW r \in RmIds, RmChooseToAbortLF(txn, r)
        PROVE  AC!AbortOne(txn, r)
    BY <1>2, <2>3 DEF RmChooseToAbortLF, RmChooseToAbort, AC!AbortOne
  <2>4. ASSUME NEW txn \in Begun, NEW r \in RmIds, RmRcvAbortLF(txn, r)
        PROVE  AC!AbortOne(txn, r)
    BY <1>2, <2>4 DEF RmRcvAbortLF, AC!AbortOne
  <2>5. ASSUME NEW txn \in Begun, NEW r \in RmIds, RmRcvCommitLF(txn, r)
        PROVE  AC!CommitOne(txn, r)
    BY <1>2, <2>5 DEF RmRcvCommitLF, AC!CommitOne
  <2>6. QED
    BY <1>2, <2>1, <2>2, <2>3, <2>4, <2>5
    DEF ProtocolLF, BeginLF, Begin, TmPrepareLF, TmPrepare, TmCommitLF, TmCommit, TmAbortLF, TmAbort,
        CountLF, AC!Next
<1>3. InvLF /\ [NextLF]_vars => [AC!Next]_rm
  BY <1>2, StepIsExchange DEF InvLF, protocolVars
<1>4. QED
  BY <1>1, <1>3, InvariantLF, PTL DEF SpecLF, ImplementsAtomicCommit, AC!Spec
=============================================================================
