-------------------------------- MODULE DstEnv --------------------------------
(***************************************************************************)
(* The environment of a simulated test (crates/vf-dst/src/env.rs) and what *)
(* it is made of: the seeded generator (random.rs) and the fault injector  *)
(* (fault.rs), with the clock and the draws of the scheduler.  A generator *)
(* answers by its seed and the calls made on it since: the answers are     *)
(* chosen when they are first drawn and kept in drawn.  Two environments   *)
(* are built from one seed, by constructors that may differ, and each runs *)
(* a test, given as the sequence of its calls on the environment.          *)
(***************************************************************************)
EXTENDS Naturals, Sequences, TLC

CONSTANT Tests    \* bound: the sequences of calls

VARIABLES
    built,    \* how each environment was built: [by, config]
    test,     \* the calls each one makes
    env,      \* the two environments
    drawn,    \* [generator, with the call just made on it -> answer]
    log       \* history: the calls and answers of each environment

vars == <<built, test, env, drawn, log>>
Environments == 1 .. 2

-----------------------------------------------------------------------------
(* random.rs                                                                *)

New(seed) == [seed |-> seed, calls |-> <<>>]
Called(g, call) == [g EXCEPT !.calls = Append(@, call)]
Reset(g) == New(g.seed)

\* A seed is where it was drawn: the calls made on each generator on the way.
Fork(g) == New(Append(g.seed, Append(g.calls, <<"gen">>)))

-----------------------------------------------------------------------------
(* fault.rs: a probability is kept as whether it is above zero.             *)

NoFaults == [failure |-> FALSE, delay |-> FALSE, delayMax |-> 0,
         crash |-> FALSE, enabled |-> FALSE]
Default == [failure |-> TRUE, delay |-> TRUE, delayMax |-> 2,
            crash |-> TRUE, enabled |-> TRUE]
DelaysOnly == [failure |-> FALSE, delay |-> TRUE, delayMax |-> 1,
               crash |-> FALSE, enabled |-> TRUE]

Possible(above) == IF above THEN BOOLEAN ELSE {FALSE}
DelayOutcomes(config) == IF config.delay THEN 0 .. config.delayMax ELSE {0}

-----------------------------------------------------------------------------
(* env.rs: the seeds of the parts are drawn in one order, the scheduler's   *)
(* last.                                                                    *)

Build(how) ==
    LET master == New(<<>>)
        second == Called(master, <<"gen">>)
        third == Called(second, <<"gen">>)
    IN [rng |-> Fork(master), fault |-> Fork(second),
        sched |-> Fork(third), forked |-> master,
        config |-> how.config, now |-> 0,
        faults |-> 0, delays |-> 0, crashes |-> 0, decisions |-> 0]

Ways == {[by |-> "new", config |-> Default], [by |-> "with_scheduler", config |-> Default]}
            \cup {[by |-> "with_fault_config", config |-> c] : c \in {NoFaults, Default, DelaysOnly}}

Init ==
    /\ built \in [Environments -> Ways]
    /\ test \in [Environments -> Tests]
    /\ \A e \in Environments :      \* only with_scheduler gives one
          (\E i \in DOMAIN test[e] : test[e][i] = "decide") => built[e].by = "with_scheduler"
    /\ env = [e \in Environments |-> Build(built[e])]
    /\ drawn = <<>>
    /\ log = [e \in Environments |-> <<>>]

\* An environment that runs nothing has one initial state.
Idle == /\ \A e \in Environments : built[e].by = "new"
        /\ test[1] = test[2] /\ test[1][1] = "step"

\* The first environment's test runs before the second's: they share nothing.
Calls(e, call) ==
    /\ Len(log[e]) < Len(test[e]) /\ test[e][Len(log[e]) + 1] = call
    /\ e = 2 => Len(log[1]) = Len(test[1])
    /\ UNCHANGED <<built, test>>

Answers(e, after, answer) ==
    /\ env' = [env EXCEPT ![e] = after]
    /\ log' = [log EXCEPT ![e] = Append(@, [call |-> test[e][Len(@) + 1], answer |-> answer])]

\* A generator answers a call again as it did when it stood where it stands now.
\* after maps each answer there can be to the environment it leaves.
Draw(e, part, call, after) ==
    LET g == Called(env[e][part], call)
    IN \E x \in IF g \in DOMAIN drawn THEN {drawn[g]} ELSE DOMAIN after :
          /\ drawn' = (g :> x) @@ drawn
          /\ Answers(e, [after[x] EXCEPT ![part] = g], x)

Gen(e) == Calls(e, "gen") /\ Draw(e, "rng", <<"gen">>, [x \in 1 .. 2 |-> env[e]])

ForkRng(e) ==
    /\ Calls(e, "fork")
    /\ Answers(e, [env[e] EXCEPT !.rng = Called(@, <<"gen">>), !.forked = Fork(env[e].rng)], "rng")
    /\ UNCHANGED drawn

GenForked(e) ==
    Calls(e, "gen forked") /\ Draw(e, "forked", <<"gen">>, [x \in 1 .. 2 |-> env[e]])

ResetRng(e) ==
    /\ Calls(e, "reset")
    /\ Answers(e, [env[e] EXCEPT !.rng = Reset(@)], "done")
    /\ UNCHANGED drawn

Decide(e) ==
    /\ Calls(e, "decide")
    /\ Draw(e, "sched", <<"decide">>,
            [x \in {"continue", "switch"} |-> [env[e] EXCEPT !.decisions = @ + 1]])

\* A disabled injector answers no and draws nothing.
Skips(e, off, before, no) == off /\ Answers(e, before, no) /\ UNCHANGED drawn

Counted(yes) == IF yes THEN 1 ELSE 0

Step(e) ==
    /\ Calls(e, "step")
    /\ LET config == env[e].config
           later == [env[e] EXCEPT !.now = @ + 1]
       IN \/ Skips(e, ~config.enabled, later, FALSE)
          \/ /\ config.enabled
             /\ Draw(e, "fault", <<"fail", config.failure>>,
                     [x \in Possible(config.failure) |->
                         [later EXCEPT !.faults = @ + Counted(x)]])

ShouldCrash(e) ==
    /\ Calls(e, "crash")
    /\ LET config == env[e].config
       IN \/ Skips(e, ~config.enabled, env[e], FALSE)
          \/ /\ config.enabled
             /\ Draw(e, "fault", <<"crash", config.crash>>,
                     [x \in Possible(config.crash) |->
                         [env[e] EXCEPT !.crashes = @ + Counted(x)]])

Delays(config) == config.enabled /\ config.delayMax > 0
DelayedBy(e, x) == [env[e] EXCEPT !.now = @ + x, !.delays = @ + Counted(x > 0)]
DelayDraw(config) == <<"delay", config.delay, config.delayMax>>

\* Mutant of MaybeDelay: the delay is drawn from the generator of the test.
DelayFromRng(e) ==
    /\ Calls(e, "delay")
    /\ LET config == env[e].config
       IN \/ Skips(e, ~Delays(config), env[e], 0)
          \/ /\ Delays(config)
             /\ Draw(e, "rng", DelayDraw(config),
                     [x \in DelayOutcomes(config) |-> DelayedBy(e, x)])

MaybeDelay(e) ==
    /\ Calls(e, "delay")
    /\ LET config == env[e].config
       IN \/ Skips(e, ~Delays(config), env[e], 0)
          \/ /\ Delays(config)
             /\ Draw(e, "fault", DelayDraw(config),
                     [x \in DelayOutcomes(config) |-> DelayedBy(e, x)])

SetEnabled(e) ==
    /\ \E on \in BOOLEAN :
          /\ Calls(e, IF on THEN "enable" ELSE "disable")
          /\ Answers(e, [env[e] EXCEPT !.config.enabled = on], "done")
    /\ UNCHANGED drawn

Next == \E e \in Environments :
    \/ Gen(e) \/ ForkRng(e) \/ GenForked(e) \/ ResetRng(e) \/ Decide(e)
    \/ Step(e) \/ ShouldCrash(e) \/ MaybeDelay(e) \/ SetEnabled(e)

-----------------------------------------------------------------------------
RngCalls == {"gen", "fork", "gen forked", "reset"}
FaultCalls == {"step", "crash", "delay", "enable", "disable"}

Of(e, calls) == SelectSeq(log[e], LAMBDA entry : entry.call \in calls)
CallsOf(entries) == [i \in DOMAIN entries |-> entries[i].call]

\* Those that begin with the same calls begin with the same answers.
AnsweredAlike(one, other) ==
    \A n \in 1 .. Len(one) :
       (n <= Len(other) /\ CallsOf(SubSeq(one, 1, n)) = CallsOf(SubSeq(other, 1, n)))
          => one[n].answer = other[n].answer

SameAnswers(calls) == AnsweredAlike(Of(1, calls), Of(2, calls))

\* "Same seed should produce same random values" (env.rs:224): what a test draws
\* does not depend on the faults injected or on how the environment was built, a
\* generator that is reset gives its stream again, the faults depend on their
\* configuration alone, and the same test leaves the same environment.
Reproducible ==
    /\ SameAnswers(RngCalls) /\ SameAnswers({"decide"})
    /\ \A e \in Environments : LET drawing == Of(e, RngCalls) IN
          \A i \in DOMAIN drawing : drawing[i].call = "reset" =>
             AnsweredAlike(drawing, SubSeq(drawing, i + 1, Len(drawing)))
    /\ built[1].config = built[2].config =>
          /\ SameAnswers(FaultCalls)
          /\ test[1] = test[2] /\ Len(log[1]) = Len(log[2]) => env[1] = env[2]
=============================================================================
