------------------------------ MODULE DstHarness ------------------------------
(***************************************************************************)
(* DstHarness of crates/vf-dst/src/harness.rs: a loop that asks a closure  *)
(* for the next operation of the scheduled thread, executes it, checks the *)
(* invariants now and then, and lets the scheduler (Scheduler) switch.     *)
(*                                                                         *)
(* The closures are the test's: generating may give no operation,          *)
(* executing may fail or leave the structure under test broken, and a      *)
(* check fails exactly when the structure is broken.  fault_config and     *)
(* yield_probability of the configuration are never used by the code.      *)
(* Delays move only the clock (SimClock) and are left out.                 *)
(***************************************************************************)
EXTENDS Naturals, FiniteSets

CONSTANTS
    Configs,   \* [threads, operations, interval, concurrent]
    NoMessage

VARIABLES
    config,      \* HarnessConfig and the method that is called
    phase,       \* "loop", "check", "yield", "final" or "done"
    current,     \* Scheduler.current_thread
    steps,       \* thread_steps of run_concurrent, or step of run_single_threaded
    operations,  \* operations_count
    violation,   \* the first message of stop_with_violation
    brokenAt     \* the operation that broke the structure, 0 while it is whole (history)

vars == <<config, phase, current, steps, operations, violation, brokenAt>>

Thread == 0 .. config.threads - 1
Broken == brokenAt > 0
Stopped == violation # NoMessage

Init ==
    /\ config \in Configs
    /\ phase = "loop"
    /\ current = 0
    /\ steps = [t \in Thread |-> 0]
    /\ operations = 0
    /\ violation = NoMessage
    /\ brokenAt = 0

Done(t) == steps[t] >= config.operations

\* stop_with_violation keeps the first message.
StopWith(message) == violation' = IF Stopped THEN violation ELSE message

\* should_check_invariants: every so many operations, at none of them too.
ShouldCheck(count) == config.interval > 0 /\ count % config.interval = 0

\* decide draws a switch and force_switch makes one: both take any other thread.
SwitchTo(t) == t \in Thread \ {current} /\ current' = t

\* The scheduled thread has made its steps, and others have not.
ForceSwitch(t) ==
    /\ phase = "loop" /\ config.concurrent
    /\ Done(current) /\ \E u \in Thread : ~Done(u)
    /\ SwitchTo(t)
    /\ UNCHANGED <<config, phase, steps, operations, violation, brokenAt>>

\* Generating gives no operation: the step counts, the operation does not.
Skip ==
    /\ phase = "loop" /\ ~Done(current)
    /\ steps' = [steps EXCEPT ![current] = @ + 1]
    /\ phase' = IF config.concurrent THEN "check" ELSE "loop"
    /\ UNCHANGED <<config, current, operations, violation, brokenAt>>

\* The operation fails: the run stops at once, its final check left out.
ExecuteFails ==
    /\ phase = "loop" /\ ~Done(current)
    /\ StopWith("operation failed")
    /\ phase' = "done"
    /\ UNCHANGED <<config, current, steps, operations, brokenAt>>

Execute ==
    /\ phase = "loop" /\ ~Done(current)
    /\ operations' = operations + 1
    /\ brokenAt' \in IF Broken THEN {brokenAt} ELSE {0, operations + 1}
    /\ steps' = [steps EXCEPT ![current] = @ + 1]
    /\ phase' = IF config.concurrent THEN "check" ELSE "loop"
    /\ UNCHANGED <<config, current, violation>>

\* check_invariants of the test; the first failure stops the run.
CheckInvariants(next) ==
    IF Broken THEN StopWith("invariant broken") /\ phase' = "done"
    ELSE phase' = next /\ UNCHANGED violation

\* Mutant of MaybeCheck: checks follow the scheduled thread's steps.
MaybeCheckOwn ==
    /\ phase = "check"
    /\ IF ShouldCheck(steps[current]) THEN CheckInvariants("yield")
       ELSE phase' = "yield" /\ UNCHANGED violation
    /\ UNCHANGED <<config, current, steps, operations, brokenAt>>

MaybeCheck ==
    /\ phase = "check"
    /\ IF ShouldCheck(operations) THEN CheckInvariants("yield")
       ELSE phase' = "yield" /\ UNCHANGED violation
    /\ UNCHANGED <<config, current, steps, operations, brokenAt>>

YieldPoint ==
    /\ phase = "yield"
    /\ phase' = "loop"
    /\ UNCHANGED current \/ \E t \in Thread : SwitchTo(t)
    /\ UNCHANGED <<config, steps, operations, violation, brokenAt>>

\* The end of the loop: run_concurrent checks once more, run_single_threaded
\* checks nothing.
AllDone ==
    /\ phase = "loop" /\ \A t \in Thread : Done(t)
    /\ IF config.concurrent THEN CheckInvariants("done")
       ELSE phase' = "done" /\ UNCHANGED violation
    /\ UNCHANGED <<config, current, steps, operations, brokenAt>>

Next ==
    \/ \E t \in Thread : ForceSwitch(t)
    \/ Skip \/ ExecuteFails \/ Execute \/ MaybeCheck \/ YieldPoint \/ AllDone

\* Each switch draws afresh: a thread that can be drawn again and again is drawn.
Fairness ==
    /\ WF_vars(Next)
    /\ \A t \in 0 .. 2 : SF_vars(t \in Thread /\ ForceSwitch(t))

Spec == Init /\ [][Next]_vars /\ Fairness

-----------------------------------------------------------------------------
\* A concurrent run that reports no violation made every step of every thread and
\* left the structure whole; one that reports a broken invariant broke it; and with
\* an interval set, a break is noticed before a full interval of operations of all
\* threads together has passed (run_concurrent, should_check_invariants).
HarnessVerdictTrue ==
    /\ (phase = "done" /\ config.concurrent /\ ~Stopped) =>
            ~Broken /\ \A t \in Thread : Done(t)
    /\ violation = "invariant broken" => Broken
    /\ (phase = "loop" /\ config.concurrent /\ config.interval > 0 /\ Broken) =>
            operations \div config.interval = (brokenAt - 1) \div config.interval

\* A run comes to its end (run_concurrent, run_single_threaded).
Finished == phase = "done"
HarnessEnds == <>Finished
=============================================================================
