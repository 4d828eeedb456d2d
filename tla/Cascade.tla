------------------------------- MODULE Cascade -------------------------------
(* The verification cascade (vf-evaluators) and the progress analysis        *)
(* (vf-perf): what they make of a piece of code.  No state of their own: the *)
(* programs that run them, Evolve and Generator, take the verdict as input.  *)
(*                                                                           *)
(* A run of an external tool is one of Outcomes; which tools are installed   *)
(* is a set.  Reports keep what the drivers read: the evaluator, whether it  *)
(* passed and whether the tool ran at all.                                   *)
EXTENDS Naturals, Sequences, FiniteSetsExt

Levels == <<"rustc", "miri", "loom", "dst", "stateright", "kani", "verus">>

LevelNames == {Levels[i] : i \in DOMAIN Levels}

Rank(level) == CHOOSE i \in DOMAIN Levels : Levels[i] = level

LevelsUpTo(max) == SubSeq(Levels, 1, Rank(max))

\* The process ended with success, with a failure, could not be started, or was
\* given up after the timeout.
Outcomes == {"ok", "bad", "unstartable", "timeout"}

\* A verdict of one evaluator.  A tool that is skipped counts as passed.
Pass(level) == [evaluator |-> level, passed |-> TRUE, ran |-> TRUE]
Fail(level) == [evaluator |-> level, passed |-> FALSE, ran |-> TRUE]
Skip(level) == [evaluator |-> level, passed |-> TRUE, ran |-> FALSE]

PassIf(level, condition) == IF condition THEN Pass(level) ELSE Fail(level)

RunRustc(outcome) == PassIf("rustc", outcome = "ok")

\* Without miri the level fails; the tests are then not run.
RunMiri(outcome, installed) ==
    PassIf("miri", "miri" \in installed /\ outcome = "ok")

\* A crate without loom tests passes: only the process's answer counts.
RunLoom(outcome) == PassIf("loom", outcome = "ok")

RunDst(outcome) == PassIf("dst", outcome = "ok")

RunStateright(outcome) == PassIf("stateright", outcome = "ok")

\* Without kani the level is skipped.
RunKani(outcome, installed) ==
    IF "kani" \in installed THEN PassIf("kani", outcome = "ok") ELSE Skip("kani")

\* A successful verus process whose output does not name verified results fails.
RunVerus(outcome, installed, verified) ==
    PassIf("verus", "verus" \in installed /\ outcome = "ok" /\ verified)

\* The crates the drivers build hold src/lib.rs only, never src/verify.rs.
Evaluate(level, code, installed) ==
    CASE level = "rustc"      -> RunRustc(code.outcome[level])
      [] level = "miri"       -> RunMiri(code.outcome[level], installed)
      [] level = "loom"       -> RunLoom(code.outcome[level])
      [] level = "dst"        -> RunDst(code.outcome[level])
      [] level = "stateright" -> RunStateright(code.outcome[level])
      [] level = "kani"       -> RunKani(code.outcome[level], installed)
      [] level = "verus"      ->
            IF code.proofFile
            THEN RunVerus(code.outcome[level], installed, code.verified)
            ELSE Skip("verus")

Failed(reports) == {i \in DOMAIN reports : ~reports[i].passed}

\* Mutant of Cut: every level is run whatever failed before.
CutNever(reports, failFast) == reports

\* Levels are run in order; with fail_fast the first failure is the last report.
Cut(reports, failFast) ==
    IF failFast /\ Failed(reports) # {}
    THEN SubSeq(reports, 1, Min(Failed(reports)))
    ELSE reports

FromResults(reports) ==
    [results       |-> reports,
     all_passed    |-> Failed(reports) = {},
     first_failure |-> IF Failed(reports) = {} THEN 0 ELSE Min(Failed(reports))]

\* Below the start level every level is marked as passed without being run.
RunFromLevel(code, config, start, installed) ==
    LET levels == LevelsUpTo(config.maxLevel)
    IN  FromResults(Cut([i \in DOMAIN levels |->
                            IF i < Rank(start) THEN Skip(levels[i])
                            ELSE Evaluate(levels[i], code, installed)],
                        config.failFast))

RunCascade(code, config, installed) ==
    RunFromLevel(code, config, "rustc", installed)

\* The temporary crate could not be written: nothing is evaluated.
SetupFailed == FromResults(<<Fail("setup")>>)

\* What run_on_code may answer for a crate without a proof file.
RunOnCode(code, config, installed) ==
    {SetupFailed, RunCascade([code EXCEPT !.proofFile = FALSE], config, installed)}

-----------------------------------------------------------------------------
(* Progress guarantees, from marks found in the text.                        *)

Guarantees == <<"Blocking", "ObstructionFree", "LockFree", "WaitFree">>

Ordinal(guarantee) == (CHOOSE i \in DOMAIN Guarantees : Guarantees[i] = guarantee) - 1

AtLeast(guarantee, other) == Ordinal(guarantee) >= Ordinal(other)

\* The first mark that is found decides: a lock in code that also exchanges, or
\* only names an announcement, is not seen.
AnalyzeProgress(marks) ==
    CASE "announce" \in marks                            -> "WaitFree"
      [] "exchange" \in marks /\ "announce" \notin marks -> "LockFree"
      [] marks = {"lock"}                                -> "Blocking"
      [] marks = {}                                      -> "ObstructionFree"

-----------------------------------------------------------------------------
(* The index of the last report that passed, counted from 0; -1 is 0 here:   *)
(* LevelReached is the code's level_reached + 1.                             *)

Passed(reports) == DOMAIN reports \ Failed(reports)

LevelReached(reports) == IF Passed(reports) = {} THEN 0 ELSE Max(Passed(reports))

\* Mutant of Score: the progress guarantee weighs as much as half a level.
ScoreByProgress(result, guarantee) ==
    100 * LevelReached(result.results) + 10 * Cardinality(Passed(result.results))
        + 50 * Ordinal(guarantee)

Score(result, guarantee) ==
    100 * LevelReached(result.results) + 10 * Cardinality(Passed(result.results))
        + 25 * Ordinal(guarantee)
=============================================================================
