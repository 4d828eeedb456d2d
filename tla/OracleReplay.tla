----------------------------- MODULE OracleReplay -----------------------------
(***************************************************************************)
(* run_oracle_dst of crates/vf-dst/src/instrumented.rs with the            *)
(* OracleScheduler of oracle_scheduler.rs: operations on an instrumented   *)
(* stack are started for the thread the oracle names, run to their end,    *)
(* and move the oracle on at the yield points that match it.  The stack is *)
(* the instrumented Treiber stack of                                       *)
(* crates/vf-generator/src/templates/dst_instrumented.rs, which ignores    *)
(* what a yield point answers: nothing interleaves, so no exchange fails,  *)
(* an operation is one step here, and only its yield points matter.        *)
(***************************************************************************)
EXTENDS Naturals, Sequences, SequencesExt

CONSTANT Programs   \* the operations run_oracle_dst may be called with

VARIABLES
    oracle,    \* OracleTrace.steps
    position,  \* OracleScheduler.oracle_position, from 1; 0 after a panic
    program,   \* operations: every thread gets all of them
    next,      \* the next operation of each thread
    contents   \* the number of elements in the stack

vars == <<oracle, position, program, next, contents>>

Step(thread, action) == [thread |-> thread, action |-> action]
PushBy(t) == <<Step(t, "PushAlloc"), Step(t, "PushReadHead"), Step(t, "PushCas")>>
RetryBy(t) == <<Step(t, "PushCas"), Step(t, "PushReadHead")>>

ConcurrentPushContention ==
    <<Step(0, "PushAlloc"), Step(0, "PushReadHead")>> \o PushBy(1) \o RetryBy(0)
        \o <<Step(0, "PushCas")>>
ConcurrentPopContention ==
    <<Step(0, "PopReadHead"), Step(1, "PopReadHead"), Step(1, "PopCas"), Step(0, "PopCas"),
      Step(0, "PopReadHead"), Step(0, "PopCas")>>
PushPopRace ==
    <<Step(0, "PushAlloc"), Step(0, "PushReadHead"), Step(1, "PopReadHead"),
      Step(0, "PushCas"), Step(1, "PopCas")>>
MultipleCasFailures ==
    <<Step(0, "PushAlloc"), Step(0, "PushReadHead")>> \o PushBy(1) \o RetryBy(0)
        \o PushBy(2) \o RetryBy(0) \o PushBy(1) \o RetryBy(0) \o <<Step(0, "PushCas")>>
AbaPattern ==
    <<Step(0, "PopReadHead"), Step(1, "PopReadHead"), Step(1, "PopCas")>> \o PushBy(2)
        \o <<Step(0, "PopCas")>>
AllCasScenarios ==
    {ConcurrentPushContention, ConcurrentPopContention, PushPopRace, MultipleCasFailures,
     AbaPattern}

\* Each trace is replayed with as many threads as it names (0, 1 and 2 at most).
Init ==
    /\ oracle \in AllCasScenarios
    /\ position = 1
    /\ program \in Programs
    /\ next = [t \in 0 .. 2 |-> 1]
    /\ contents = 0

OracleComplete == position > Len(oracle)
Replaying == position > 0 /\ ~OracleComplete
CurrentThread == oracle[position].thread

\* The yield points of an operation; a pop of an empty stack has one.
YieldPoints(op) ==
    CASE op = "push" -> <<"PushAlloc", "PushReadHead", "PushCas">>
      [] op = "pop" /\ contents = 0 -> <<"PopReadHead">>
      [] op = "pop" /\ contents > 0 -> <<"PopReadHead", "PopCas">>

\* Where a yield point of thread t takes the oracle: on, when it waits for this
\* point; to a panic, when it waits for another point of this thread; nowhere, when
\* it waits for another thread or is complete.
YieldPoint(pos, t, point) ==
    IF pos = 0 \/ pos > Len(oracle) \/ oracle[pos].thread # t THEN pos
    ELSE IF oracle[pos].action = point THEN pos + 1 ELSE 0

RunOperation ==
    /\ Replaying
    /\ LET t == CurrentThread
           op == program[next[t]]
       IN  /\ next[t] <= Len(program)
           /\ next' = [next EXCEPT ![t] = @ + 1]
           /\ position' = FoldLeft(LAMBDA pos, point : YieldPoint(pos, t, point),
                                   position, YieldPoints(op))
           /\ contents' = CASE op = "push" -> contents + 1
                            [] op = "pop" -> IF contents = 0 THEN 0 ELSE contents - 1
    /\ UNCHANGED <<oracle, program>>

\* The oracle's thread has no operation left: the step is skipped.
SkipStep ==
    /\ Replaying
    /\ next[CurrentThread] > Len(program)
    /\ position' = position + 1
    /\ UNCHANGED <<oracle, program, next, contents>>

Next == RunOperation \/ SkipStep

Spec == Init /\ [][Next]_vars /\ WF_vars(Next)

-----------------------------------------------------------------------------
\* A replay comes to the end of its oracle or panics on a mismatch, however the
\* oracle and the operations disagree (run_oracle_dst).
ReplayEnds == <>~Replaying
=============================================================================
