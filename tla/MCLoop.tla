-------------------------------- MODULE MCLoop --------------------------------
(* The programs around the cascade - the evolution driver, the code          *)
(* generator and the cascade runner - and the simulation the cascade's tests *)
(* run in: harness, stack runner, oracle replay, scheduler, clock and        *)
(* environment.  A behaviour runs one of them.  The definitions whose names  *)
(* begin with Small are the values TLC takes for the constants.              *)
EXTENDS Naturals, Sequences, FiniteSets, TLC

CONSTANTS
    NoCode, NoText,
    DriverCodes, DriverConfigs, DefaultModels, DriverTools, \* Evolve
    GeneratorCodes, GeneratorConfigs, GeneratorTools,       \* Generator
    RunnerCodes, MaxLevels, StartLevels, RunnerTools,       \* CascadeRunner
    HarnessConfigs,                                         \* DstHarness
    Values, MaxOperations,                                  \* StackDstRunner
    Operations,                                             \* OracleReplay
    Threads, ThreadsMax,                                    \* Scheduler
    Deltas, TimeMax, Modulus,                               \* SimClock
    Tests                                                   \* DstEnv

VARIABLES program,
    \* Evolve
    eConfig, ePhase, generation, island, islands, models, bestEver, bestFile,
    totalEvals, history,
    \* Generator
    gConfig, gPhase, attempt, code, result, progress, attempts, answer, exit, output,
    \* CascadeRunner
    report,
    \* DstHarness
    hConfig, hPhase, hCurrent, steps, operations, violation, brokenAt,
    \* StackDstRunner
    stack, quality, distinct, pushed, popped, asked, lost,
    \* OracleReplay
    oracle, position, operationList, nextOperation, contents,
    \* Scheduler
    sCurrent, name,
    \* SimClock
    now, adding,
    \* DstEnv
    built, test, env, drawn, log

LOCAL INSTANCE Cascade

MarkNames == {"announce", "exchange", "lock"}

\* A code that passes the levels below the one it breaks, and one that passes all.
Breaks(level, how, marks) ==
    [outcome |-> [l \in LevelNames |-> IF l = level THEN how ELSE "ok"],
     marks |-> marks, proofFile |-> TRUE, verified |-> TRUE]

SmallDriverCodes ==
    {Breaks("rustc", "timeout", {"lock"}), Breaks("miri", "timeout", {"announce", "lock"}),
     Breaks("none", "timeout", {"lock"})}

SmallGeneratorCodes ==
    {Breaks(l, "bad", m) : l \in {"rustc", "none"}, m \in {{}, {"exchange", "lock"}}}
        \cup {Breaks("none", "ok", {"announce"}), Breaks("miri", "unstartable", {"announce"})}

SmallRunnerCodes ==
    {Breaks(l, how, {}) : l \in LevelNames, how \in Outcomes}

UpTo(level) == [maxLevel |-> level, failFast |-> TRUE]

Run(generations, islandCount, population, interval) ==
    [generations |-> generations, islands |-> islandCount, population |-> population,
     interval |-> interval, cascade |-> UpTo("miri"), wideText |-> interval = 5]

SmallDriverConfigs == {Run(2, 2, 2, 1), Run(2, 2, 1, 2), Run(3, 1, 2, 5), Run(1, 3, 1, 1),
                  Run(1, 2, 1, 0), Run(2, 1, 0, 1), Run(1, 0, 1, 1)}

Effort(correctness, perf, minimum, target, level) ==
    [maxCorrectness |-> correctness, maxPerf |-> perf, minimum |-> minimum,
     target |-> target, cascade |-> UpTo(level)]

SmallGeneratorConfigs == {Effort(2, 2, "Blocking", "LockFree", "miri"),
                     Effort(1, 3, "LockFree", "WaitFree", "kani"),
                     Effort(0, 1, "Blocking", "LockFree", "rustc")}

E == INSTANCE Evolve WITH
        Codes <- DriverCodes, Configs <- DriverConfigs, Installed <- DriverTools,
        config <- eConfig, phase <- ePhase
G == INSTANCE Generator WITH
        Codes <- GeneratorCodes, Configs <- GeneratorConfigs, Installed <- GeneratorTools,
        config <- gConfig, phase <- gPhase
C == INSTANCE CascadeRunner WITH
        Codes <- RunnerCodes, Installed <- RunnerTools

\* The driver always stops at the first failure.
ASSUME DriverAssumption ==
    /\ \A x \in DriverCodes : x.marks \subseteq MarkNames
    /\ DriverConfigs \subseteq [generations : Nat, islands : Nat, population : Nat,
                               interval : Nat, wideText : BOOLEAN,
                               cascade : [maxLevel : E!LevelNames, failFast : {TRUE}]]
    /\ DefaultModels \in Nat \ {0}

ASSUME GeneratorAssumption == \A x \in GeneratorCodes : x.marks \subseteq MarkNames

Harness(threads, count, interval, concurrent) ==
    [threads |-> threads, operations |-> count, interval |-> interval,
     concurrent |-> concurrent]

SmallHarnessConfigs ==
    {Harness(3, 2, 2, TRUE), Harness(2, 3, 3, TRUE), Harness(2, 2, 0, TRUE),
     Harness(1, 2, 1, TRUE), Harness(1, 3, 2, FALSE)}

SmallOperations ==
    {<<"push">>, <<"push", "push">>, <<"push", "pop">>, <<"pop", "push", "pop">>,
     <<"push", "push", "pop", "push">>}

SmallTests ==
    {<<"gen", "delay", "gen", "step", "fork", "gen forked">>,
     <<"gen", "gen", "fork", "reset", "gen", "gen">>,
     <<"delay", "step", "gen", "enable", "delay", "crash">>,
     <<"step", "disable", "delay", "gen", "enable", "delay">>,
     <<"decide", "gen", "delay", "decide", "step">>}

H == INSTANCE DstHarness WITH
        Configs <- HarnessConfigs, NoMessage <- NoText,
        config <- hConfig, phase <- hPhase, current <- hCurrent
D == INSTANCE StackDstRunner
O == INSTANCE OracleReplay WITH
        Programs <- Operations, program <- operationList, next <- nextOperation
S == INSTANCE Scheduler WITH current <- sCurrent
K == INSTANCE SimClock
V == INSTANCE DstEnv

\* A thread is scheduled, and a message is not nothing.
ASSUME HarnessAssumption ==
    /\ HarnessConfigs \subseteq [threads : Nat \ {0}, operations : Nat, interval : Nat,
                                concurrent : BOOLEAN]
    /\ NoText \notin {"operation failed", "invariant broken"}

\* The room above TIME_NS_MAX: it holds the longest advance once for
\* every thread.
ASSUME ClockAssumption ==
    /\ IsFiniteSet(Threads) /\ TimeMax \in Nat /\ Modulus \in Nat
    /\ \E longest \in 0 .. Modulus :
          Deltas \subseteq 1 .. longest /\ TimeMax + longest * Cardinality(Threads) < Modulus

driver == <<eConfig, ePhase, generation, island, islands, models, bestEver, bestFile,
            totalEvals, history>>
generator == <<gConfig, gPhase, attempt, code, result, progress, attempts, answer,
               exit, output>>

harness == <<hConfig, hPhase, hCurrent, steps, operations, violation, brokenAt>>
stackRunner == <<stack, quality, distinct, pushed, popped, asked, lost>>
replay == <<oracle, position, operationList, nextOperation, contents>>
scheduler == <<sCurrent, name>>
clock == <<now, adding>>
environment == <<built, test, env, drawn, log>>
programs == <<driver, generator, report>>
simulation == <<harness, stackRunner, replay, scheduler, clock, environment>>

Init == /\ program \in {"evolve", "generate", "cascade_runner", "harness", "stack_runner",
                        "replay", "scheduler", "clock", "environment"}
        /\ E!Init /\ G!Init /\ C!Init /\ H!Init /\ D!Init /\ O!Init /\ S!Init /\ K!Init
        \* What does not run has one initial state.
        /\ program # "evolve" => eConfig = CHOOSE x \in DriverConfigs : TRUE
        /\ program # "generate" => gConfig = CHOOSE x \in GeneratorConfigs : TRUE
        /\ program # "harness" => hConfig = CHOOSE x \in HarnessConfigs : TRUE
        /\ program # "stack_runner" => quality = "right" /\ distinct
        /\ program # "replay" => /\ oracle = O!AbaPattern
                                /\ operationList = CHOOSE x \in Operations : TRUE
        /\ program # "scheduler" => name = <<CHOOSE t \in Threads : TRUE>>
        /\ V!Init
        /\ program # "environment" => V!Idle

Next ==
    \/ program = "evolve" /\ E!Next /\ UNCHANGED <<program, generator, report, simulation>>
    \/ program = "generate" /\ G!Next /\ UNCHANGED <<program, driver, report, simulation>>
    \/ program = "cascade_runner" /\ C!Next
          /\ UNCHANGED <<program, driver, generator, simulation>>
    \/ program = "harness" /\ H!Next
          /\ UNCHANGED <<program, programs, stackRunner, replay, scheduler, clock, environment>>
    \/ program = "stack_runner" /\ D!Next
          /\ UNCHANGED <<program, programs, harness, replay, scheduler, clock, environment>>
    \/ program = "replay" /\ O!Next
          /\ UNCHANGED <<program, programs, harness, stackRunner, scheduler, clock, environment>>
    \/ program = "scheduler" /\ S!Next
          /\ UNCHANGED <<program, programs, harness, stackRunner, replay, clock, environment>>
    \/ program = "clock" /\ K!Next
          /\ UNCHANGED <<program, programs, harness, stackRunner, replay, scheduler, environment>>
    \/ program = "environment" /\ V!Next
          /\ UNCHANGED <<program, programs, harness, stackRunner, replay, scheduler, clock>>

vars == <<program, programs, simulation>>

\* The program that was started goes on until it ends, and the harness draws afresh
\* which thread it switches to.
Spec == Init /\ [][Next]_vars /\ WF_vars(Next)
        /\ \A t \in 0 .. ThreadsMax - 1 :
              SF_vars(program = "harness" /\ t \in H!Thread /\ H!ForceSwitch(t)
                         /\ UNCHANGED <<program, programs, stackRunner, replay,
                                        scheduler, clock, environment>>)

\* The best candidate, and the account of its model, survive trimming and migration;
\* its files tell of it but for writes that failed.
BestKept == E!BestKept

\* A candidate that fails a level never beats one that passes them all.
CorrectWins == E!CorrectWins

\* A generator that succeeds returns its best code with that code's own verdict.
SuccessIsBest == G!SuccessIsBest

\* What the programs say of a code is true: what the cascade runner reports as
\* reached ran, or was trusted or optional; a concurrent harness run without a
\* violation left the structure whole, and one with a broken invariant broke it; and
\* the stack runner, where its values are distinct, accuses the stacks that lost one
\* and no other.
VerdictsTrue == C!ReachedWasRun /\ H!HarnessVerdictTrue /\ D!StackVerdictTrue

\* Two environments of one seed answer alike.
TestsReproducible == V!Reproducible

\* Nothing goes back: no island, model or run gets worse, the simulated time moves
\* on, and the scheduled thread stays the same thread.
NothingGoesBack == E!BestsOnlyGrow /\ K!TimeMovesOn /\ S!RunningStays

\* The driver comes to its summary, the generator to its exit, and a harness run
\* and a replay to their end.
ProgramEnds ==
    <>(/\ program = "evolve" => E!Summarised
       /\ program = "generate" => G!Exited
       /\ program = "harness" => H!Finished
       /\ program = "replay" => ~O!Replaying)
=============================================================================
