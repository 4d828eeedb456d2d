---------------------------- MODULE CascadeRunner ----------------------------
(* The program that runs the cascade on a file and prints what it found      *)
(* (bin/cascade_runner.rs), with an adaptive start: levels below the start   *)
(* level are trusted to a checkpoint and marked as passed.                   *)
EXTENDS Cascade

CONSTANTS
    Codes,        \* what the file may hold
    Installed,    \* the tools the cascade finds
    MaxLevels,    \* max_level on the command line: names, not all of them levels
    StartLevels   \* start_level on the command line

VARIABLE report   \* what was printed, or how the program ended

vars == <<report>>

NotRun == [kind |-> "none"]

Init == report = NotRun

\* A level that does not exist ends the program with status 1.
UnknownLevel ==
    /\ report = NotRun
    /\ \E max \in MaxLevels, start \in StartLevels : ~({max, start} \subseteq LevelNames)
    /\ report' = [kind |-> "error"]

\* A file that cannot be read is reported as a failed cascade with no results.
Unreadable ==
    /\ report = NotRun
    /\ report' = [kind |-> "report", start |-> "rustc", max |-> "rustc",
                  level |-> 0, result |-> [FromResults(<<>>) EXCEPT !.all_passed = FALSE]]

\* run_on_code, or run_on_code_from_level when the start level is above rustc.
Verdicts(code, max, start) ==
    LET config == [maxLevel |-> max, failFast |-> TRUE]
        crate  == [code EXCEPT !.proofFile = FALSE]
    IN  {SetupFailed, RunFromLevel(crate, config, start, Installed)}

Evaluated ==
    /\ report = NotRun
    /\ \E code \in Codes, max \in MaxLevels \cap LevelNames,
          start \in StartLevels \cap LevelNames :
        \E result \in Verdicts(code, max, start) :
            report' = [kind |-> "report", start |-> start, max |-> max,
                       level |-> LevelReached(result.results), result |-> result]

Next == UnknownLevel \/ Unreadable \/ Evaluated

Spec == Init /\ [][Next]_vars

-----------------------------------------------------------------------------
OptionalTools == {"kani", "verus"}

\* A level counts as reached only if it and every level from the start level up
\* to it ran and passed, or belongs to a tool that may be missing; and a report
\* that all passed reaches the maximum level.
ReachedWasRun ==
    report.kind = "report" =>
        /\ \A i \in 1..report.level :
              i >= Rank(report.start) /\ Levels[i] \notin OptionalTools =>
                  report.result.results[i].ran /\ report.result.results[i].passed
        /\ report.result.all_passed => report.level = Rank(report.max)
=============================================================================
