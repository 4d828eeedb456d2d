--------------------------- MODULE StackPrograms ----------------------------
(***************************************************************************)
(* The other stacks of the repository under the programs that it runs on   *)
(* them: LoomStack (crates/vf-examples/src/loom_stack.rs), which leaks     *)
(* what it pops; the stacks of buggy_stacks.rs, each wrong on purpose; and *)
(* those of the treiber_stack task: its two seeds and the evolved one      *)
(* (results/v1/treiber_stack_best.rs), which defers the freeing with       *)
(* crossbeam-epoch.  The buggy stacks and the lock-free seed free a popped *)
(* node at once: they are popped by one thread only.                       *)
(* Programs: the loom tests, the scenarios of vf-dst/src/loom_oracle.rs,   *)
(* the tests of buggy_stacks.rs and of the task, scaled down.  The main    *)
(* thread pushes first, starts the threads, joins them and pops until the  *)
(* stack is empty.                                                         *)
(*                                                                         *)
(* While a thread can hold a node it is not reused, and its next never     *)
(* changes once it is published, so a pop's loads of head and of next are  *)
(* one step.                                                               *)
(***************************************************************************)
EXTENDS Integers, SequencesExt, FiniteSets

CONSTANTS
    StackSizeMax,  \* STACK_SIZE_MAX
    SizeModulus    \* 2^64, where the counter wraps

VARIABLES
    scenario,
    head,      \* 0 is the null pointer
    nodes,     \* the n-th node allocated is node n
    size,      \* LoomStack.size; LostElementStack.counter
    tracked,   \* BuggyTracker; the sets and the history of TrackedStack
    script,    \* what each thread has yet to do: the values to push, 0 for a pop
    pc, node, seen,
    given,     \* history: the values that pops answered
    nones,     \* history: the pops that answered None
    refused,   \* history: the pushes that answered false, each with its value and,
               \* when it looked at size, the values held and the operations
               \* whose exchange was done and not yet counted
    pressed,   \* history: a push passed the limit with another one under way
    lost,      \* history: the values of pushes that gave up
    drained    \* what the main thread popped at the end; 0 before

shared == <<head, nodes, size, tracked>>
histories == <<given, nones, refused, lost>>
vars == <<scenario, shared, pressed, script, pc, node, seen, histories, drained>>

Run(stack, first, scripts, nonesMin, nonesMax) ==
    [stack |-> stack, first |-> first, scripts |-> scripts,
     nones |-> nonesMin .. nonesMax]

\* The loom tests, with the Nones their asserts allow.
LoomTests ==
    {Run("LoomStack", <<>>, <<<<1>>, <<2>>>>, 0, 0),
     Run("LoomStack", <<1>>, <<<<2>>, <<0>>>>, 0, 0),
     Run("LoomStack", <<1>>, <<<<0>>, <<0>>>>, 1, 1),
     Run("LoomStack", <<>>, <<<<1, 2>>, <<3, 4>>>>, 0, 0)}

\* test_concurrent_std, and two threads that meet at the limit.
ThreadTests ==
    {Run("LoomStack", <<>>, <<<<1, 2>>, <<3>>, <<0, 0>>>>, 0, 2),
     Run("LoomStack", <<1, 2, 3>>, <<<<4, 5>>, <<6, 7>>>>, 0, 0)}

\* LoomScenario::all_scenarios.
AllScenarios ==
    {Run("LoomStack", <<>>, <<<<0>>, <<0>>>>, 2, 2),
     Run("LoomStack", <<>>, <<<<1>>, <<0>>>>, 0, 1),
     Run("LoomStack", <<>>, <<<<1>>, <<2>>, <<3>>>>, 0, 0)}

\* The tests of buggy_stacks.rs.
BuggyTests ==
    {Run("MissingRetryStack", <<>>, <<<<1, 2>>, <<3, 4>>>>, 0, 0),
     Run("MissingRetryStack", <<>>, <<<<1, 2, 3>>>>, 0, 0),
     Run("LostElementStack", <<>>, <<<<1, 2, 3, 4>>>>, 0, 0),
     Run("WrongOrderingStack", <<>>, <<<<1, 2, 0, 0, 0>>>>, 1, 1)}

\* The tests of TrackedStack, on one thread.
TrackedTests == {Run("TrackedStack", <<>>, <<<<1, 2, 0, 3, 0, 0, 0>>>>, 1, 1)}

\* The concurrent tests of the task, and prop_interleaved_ops.
TaskTests ==
    {Run(stack, <<>>, <<<<1, 2>>, <<3, 4>>>>, 0, 0) :
        stack \in {"initial", "initial_atomic", "evolved"}}
    \cup {Run(stack, <<>>, <<<<1, 0, 2>>, <<0, 3, 0>>>>, 0, 3) : stack \in {"initial", "evolved"}}
    \cup {Run("initial_atomic", <<>>, <<<<1, 0, 0, 2, 3, 0>>>>, 1, 1)}

Scenarios == LoomTests \cup ThreadTests \cup AllScenarios \cup BuggyTests \cup TrackedTests
                       \cup TaskTests

\* The values from node n on, top first.
From(n) ==
    LET from[i \in 0 .. Len(nodes)] ==
            IF i = 0 THEN <<>> ELSE <<nodes[i].value>> \o from[nodes[i].next]
    IN  from[n]

Init ==
    /\ scenario \in Scenarios
    /\ LET first == scenario.first
       IN  /\ nodes = [i \in 1 .. Len(first) |-> [value |-> first[i], next |-> i - 1]]
           /\ head = Len(first) /\ size = Len(first)
    /\ tracked = [pushed |-> {}, popped |-> {}, history |-> <<>>]
    /\ script = scenario.scripts
    /\ pc = [t \in DOMAIN script |-> "idle"]
    /\ node = [t \in DOMAIN script |-> 0]
    /\ seen = [t \in DOMAIN script |-> 0]
    /\ given = <<>> /\ nones = 0 /\ refused = {} /\ lost = {}
    /\ pressed = FALSE
    /\ drained = <<0>>

Goto(t, from, to) == pc[t] = from /\ pc' = [pc EXCEPT ![t] = to]

Doing(t, push) ==
    script[t] # <<>> /\ (push <=> Head(script[t]) # 0)

\* The operation of a thread is over.
Done(t, from) ==
    /\ Goto(t, from, "idle")
    /\ script' = [script EXCEPT ![t] = Tail(@)]

-----------------------------------------------------------------------------
(* StackPropertyChecker of crates/vf-core/src/invariants/stack.rs: what it    *)
(* says of a stack that tells the values pushed and popped, its contents (top *)
(* first) and its history.  An operation of a history is a record of its      *)
(* kind, "push", "pop" or "pop empty", and its value.                         *)

NoLostElements(pushed, popped, contents) == pushed \subseteq popped \cup ToSet(contents)

NoDuplicates(contents) == IsInjective(contents)

\* A model stack, and whether the history agreed with it so far.
Fresh == [stack |-> <<>>, agrees |-> TRUE]

\* check_lifo_order: the history replayed on a model stack.
LifoStep(m, o) ==
    CASE o.kind = "push" -> [m EXCEPT !.stack = <<o.value>> \o @]
      [] o.kind = "pop" ->
            IF m.stack # <<>> /\ Head(m.stack) = o.value THEN [m EXCEPT !.stack = Tail(@)]
            ELSE [m EXCEPT !.agrees = FALSE]
      [] o.kind = "pop empty" -> [m EXCEPT !.agrees = @ /\ m.stack = <<>>]

LifoOrder(history) == FoldLeft(LifoStep, Fresh, history).agrees

\* check_linearizability: the same, but neither a pop from an empty model stack nor a
\* pop of nothing is an objection.
LinearStep(m, o) ==
    CASE o.kind = "push" -> [m EXCEPT !.stack = <<o.value>> \o @]
      [] o.kind = "pop" /\ m.stack # <<>> ->
            [stack |-> Tail(m.stack), agrees |-> m.agrees /\ Head(m.stack) = o.value]
      [] OTHER -> m

Linearizability(history) == FoldLeft(LinearStep, Fresh, history).agrees

\* check_all; check_aba_safety always passes.
AllHold(pushed, popped, contents, history) ==
    /\ NoLostElements(pushed, popped, contents)
    /\ NoDuplicates(contents)
    /\ LifoOrder(history)
    /\ Linearizability(history)

-----------------------------------------------------------------------------
Is(stack) == scenario.stack = stack

\* The threads at one of these places of an operation.
In(places) == {t \in DOMAIN script : pc[t] \in places}

\* compare_exchange_weak may fail for no reason.
Weak == Is("initial_atomic")

\* Mutant of Full: the size is not looked at.
NeverFull == FALSE

\* push: the limit.
Full == Is("LoomStack") /\ size >= StackSizeMax

PushRefused(t) ==
    /\ Doing(t, TRUE) /\ Full
    /\ Done(t, "idle")
    /\ refused' = refused \cup
          {[value |-> Head(script[t]), held |-> Len(From(head)),
            pushing |-> Cardinality(In({"pushed"})), popping |-> Cardinality(In({"popped"}))]}
    /\ UNCHANGED <<pressed, shared, node, seen, given, nones, lost>>

\* push: the node is allocated.
PushAlloc(t) ==
    /\ Doing(t, TRUE) /\ ~Full
    /\ Goto(t, "idle", "pushLoad")
    /\ nodes' = Append(nodes, [value |-> Head(script[t]), next |-> 0])
    /\ node' = [node EXCEPT ![t] = Len(nodes) + 1]
    /\ pressed' = (pressed \/ In({"pushLoad", "pushCas", "pushed"}) # {})
    /\ UNCHANGED <<head, size, tracked, script, seen, histories>>

PushLoad(t) ==
    /\ Goto(t, "pushLoad", "pushCas")
    /\ seen' = [seen EXCEPT ![t] = head]
    /\ nodes' = [nodes EXCEPT ![node[t]].next = head]
    /\ UNCHANGED <<pressed, head, size, tracked, script, node, histories>>

PushCas(t) ==
    /\ head = seen[t]
    /\ Goto(t, "pushCas", "pushed")
    /\ head' = node[t]
    /\ UNCHANGED <<pressed, nodes, size, tracked, script, node, seen, histories>>

PushRetry(t) ==
    /\ head # seen[t] \/ Weak
    /\ Goto(t, "pushCas", "pushLoad")
    /\ UNCHANGED <<pressed, shared, script, node, seen, histories>>

\* MissingRetryStack::push: "Only one CAS attempt, no retry on failure!".
PushGivesUp(t) ==
    /\ head # seen[t]
    /\ Goto(t, "pushCas", "pushed")
    /\ lost' = lost \cup {Head(script[t])}
    /\ UNCHANGED <<pressed, shared, script, node, seen, given, nones, refused>>

Tracked == \/ Is("MissingRetryStack") \/ Is("WrongOrderingStack") \/ Is("LostElementStack")
           \/ Is("TrackedStack")

\* Only TrackedStack keeps a history.
Recorded(o) == IF Is("TrackedStack") THEN Append(tracked.history, o) ELSE tracked.history

\* What push does after its exchange: LoomStack counts, the others track the value,
\* LostElementStack all but every third.
PushDone(t) ==
    /\ Done(t, "pushed")
    /\ size' = IF Is("LoomStack") \/ Is("LostElementStack") THEN (size + 1) % SizeModulus
               ELSE size
    /\ tracked' =
          IF ~Tracked \/ (Is("LostElementStack") /\ size % 3 = 2) THEN tracked
          ELSE [tracked EXCEPT !.pushed = @ \cup {Head(script[t])},
                               !.history = Recorded([kind |-> "push", value |-> Head(script[t])])]
    /\ UNCHANGED <<pressed, head, nodes, node, seen, histories>>

-----------------------------------------------------------------------------
PopLoad(t) ==
    /\ Doing(t, FALSE) /\ head # 0
    /\ Goto(t, "idle", "popCas")
    /\ seen' = [seen EXCEPT ![t] = head]
    /\ UNCHANGED <<pressed, shared, script, node, histories>>

PopNone(t) ==
    /\ Doing(t, FALSE) /\ head = 0
    /\ Done(t, "idle")
    /\ nones' = nones + 1
    /\ tracked' = [tracked EXCEPT !.history = Recorded([kind |-> "pop empty", value |-> 0])]
    /\ UNCHANGED <<pressed, head, nodes, size, node, seen, given, refused, lost>>

\* Mutant of PopCas: head is written whatever it is now.
PopStore(t) ==
    /\ Goto(t, "popCas", "popped")
    /\ head' = nodes[seen[t]].next
    /\ UNCHANGED <<pressed, nodes, size, tracked, script, node, seen, histories>>

PopCas(t) ==
    /\ head = seen[t]
    /\ Goto(t, "popCas", "popped")
    /\ head' = nodes[seen[t]].next
    /\ UNCHANGED <<pressed, nodes, size, tracked, script, node, seen, histories>>

PopRetry(t) ==
    /\ head # seen[t] \/ Weak
    /\ Goto(t, "popCas", "idle")
    /\ UNCHANGED <<pressed, shared, script, node, seen, histories>>

PopDone(t) ==
    LET v == nodes[seen[t]].value
    IN  /\ Done(t, "popped")
        /\ size' = IF Is("LoomStack") THEN (size - 1) % SizeModulus ELSE size
        /\ tracked' = IF ~Tracked THEN tracked
                      ELSE [tracked EXCEPT !.popped = @ \cup {v},
                                           !.history = Recorded([kind |-> "pop", value |-> v])]
        /\ given' = Append(given, v)
        /\ UNCHANGED <<pressed, head, nodes, node, seen, nones, refused, lost>>

-----------------------------------------------------------------------------
\* The first seed, a Vec behind a Mutex: an operation is a step.
SeedPush(t) ==
    /\ Doing(t, TRUE) /\ Done(t, "idle")
    /\ nodes' = Append(nodes, [value |-> Head(script[t]), next |-> head])
    /\ head' = Len(nodes) + 1
    /\ UNCHANGED <<pressed, size, tracked, node, seen, histories>>

SeedPop(t) ==
    /\ Doing(t, FALSE) /\ head # 0 /\ Done(t, "idle")
    /\ head' = nodes[head].next
    /\ given' = Append(given, nodes[head].value)
    /\ UNCHANGED <<pressed, nodes, size, tracked, node, seen, nones, refused, lost>>

\* Every thread has been joined.
Joined == \A t \in DOMAIN script : script[t] = <<>> /\ pc[t] = "idle"

\* The main thread pops until it gets None.
Drain ==
    /\ Joined /\ drained = <<0>>
    /\ drained' = From(head)
    /\ head' = 0
    /\ size' = IF Is("LoomStack") THEN (size - Len(From(head))) % SizeModulus ELSE size
    /\ UNCHANGED <<pressed, nodes, tracked, script, pc, node, seen, histories>>

-----------------------------------------------------------------------------
Operation(t) ==
    \/ PushAlloc(t) \/ PushLoad(t) \/ PushCas(t) \/ PushDone(t)
    \/ PopLoad(t) \/ PopNone(t) \/ PopCas(t) \/ PopRetry(t) \/ PopDone(t)

LoomStackStep(t) == Is("LoomStack") /\ (Operation(t) \/ PushRefused(t) \/ PushRetry(t))
MissingRetryStackStep(t) == Is("MissingRetryStack") /\ (Operation(t) \/ PushGivesUp(t))
WrongOrderingStackStep(t) == Is("WrongOrderingStack") /\ (Operation(t) \/ PushRetry(t))
LostElementStackStep(t) == Is("LostElementStack") /\ (Operation(t) \/ PushRetry(t))
SeedStep(t) == Is("initial") /\ (SeedPush(t) \/ SeedPop(t) \/ PopNone(t))
AtomicSeedStep(t) == Is("initial_atomic") /\ (Operation(t) \/ PushRetry(t))
TrackedStackStep(t) == Is("TrackedStack") /\ (Operation(t) \/ PushRetry(t))
EvolvedStackStep(t) == Is("evolved") /\ (Operation(t) \/ PushRetry(t))

Next ==
    /\ UNCHANGED scenario
    /\ \/ \E t \in DOMAIN script :
             /\ \/ LoomStackStep(t) \/ MissingRetryStackStep(t)
                \/ WrongOrderingStackStep(t) \/ LostElementStackStep(t)
                \/ SeedStep(t) \/ AtomicSeedStep(t) \/ EvolvedStackStep(t) \/ TrackedStackStep(t)
             /\ UNCHANGED drained
       \/ Drain

-----------------------------------------------------------------------------
(* verify_implementation of crates/vf-stateright/src/verifier.rs, which makes *)
(* the same calls on any VerifiableStack: those of its tests, and three that  *)
(* are wrong in other ways.                                                   *)

Qualities == {"MockStack", "BuggyStack", "queue", "loses", "doubles"}

New == [contents |-> <<>>, pushed |-> {}, popped |-> {}, answers |-> <<>>]

\* What a push makes of a stack that tells what was pushed and popped.
PushTo(quality, s, v) ==
    [s EXCEPT !.pushed = @ \cup {v},
              !.contents = CASE quality = "loses" /\ v % 5 = 0 -> @
                             [] quality = "doubles" /\ v % 5 = 0 -> <<v, v>> \o @
                             [] OTHER -> <<v>> \o @]

PopFrom(quality, s) ==
    IF s.contents = <<>> THEN [s EXCEPT !.answers = Append(@, 0)]
    ELSE LET v == IF quality = "queue" THEN Last(s.contents) ELSE Head(s.contents)
         IN  [s EXCEPT !.contents = IF quality = "queue" THEN Front(@) ELSE Tail(@),
                       !.popped = IF quality = "BuggyStack" THEN @ ELSE @ \cup {v},
                       !.answers = Append(@, v)]

\* check_invariants.
CheckInvariants(s) == NoLostElements(s.pushed, s.popped, s.contents) /\ NoDuplicates(s.contents)

Pushes(quality, s, values) == FoldLeft(LAMBDA acc, v : PushTo(quality, acc, v), s, values)
Pops(quality, s, n) == FoldLeft(LAMBDA acc, i : PopFrom(quality, acc), s, [i \in 1 .. n |-> i])

\* Test 2: the values 100 to 149, a pop after every third but the first, and a check
\* whenever the number of calls is a multiple of the interval.
Interleaved(quality, interval) ==
    LET after[i \in 0 .. 50] ==
            IF i = 0 THEN [s |-> New, ops |-> 15, ok |-> TRUE]
            ELSE LET acc == after[i - 1]
                     pushed == PushTo(quality, acc.s, 99 + i)
                     pops == (i - 1) % 3 = 0 /\ i > 1
                     s == IF pops THEN PopFrom(quality, pushed) ELSE pushed
                     ops == acc.ops + IF pops THEN 2 ELSE 1
                 IN  [s |-> s, ops |-> ops,
                      ok |-> acc.ok /\ (ops % interval = 0 => CheckInvariants(s))]
    IN  after[50]

LifoValues == <<1000, 2000, 3000, 4000, 5000>>

\* Mutant of VerifyImplementation: the last test, LIFO order, is forgotten.
VerifyNoOrder(quality, interval) ==
    LET first == Pushes(quality, New, [i \in 1 .. 10 |-> i])
        mixed == Interleaved(quality, interval)
    IN  /\ CheckInvariants(first) /\ CheckInvariants(Pops(quality, first, 5))
        /\ mixed.ok
        /\ CheckInvariants(Pops(quality, mixed.s, Len(mixed.s.contents)))

VerifyImplementation(quality, interval) ==
    LET first == Pushes(quality, New, [i \in 1 .. 10 |-> i])
        mixed == Interleaved(quality, interval)
        last == Pops(quality, Pushes(quality, New, LifoValues), 5)
    IN  /\ CheckInvariants(first) /\ CheckInvariants(Pops(quality, first, 5))
        /\ mixed.ok
        /\ CheckInvariants(Pops(quality, mixed.s, Len(mixed.s.contents)))
        /\ last.answers = Reverse(LifoValues)

-----------------------------------------------------------------------------
Called == ToSet(scenario.first) \cup UNION {ToSet(scenario.scripts[t]) \ {0} : t \in DOMAIN script}

Refused == {r.value : r \in refused}

\* At the end every value has come out once, and none but those whose push was
\* refused or gave up is missing ("Both values should be in the stack", "Exactly one
\* should get the value", "Lost elements!"); as many pops went without as the test
\* allows.  Only MissingRetryStack gives up, and no loom test or scenario has a push
\* refused; test_concurrent_std, which counts on every push (loom_stack.rs:282), may.
ValuesComeOutOnce ==
    /\ refused # {} => scenario \in ThreadTests
    /\ lost # {} => Is("MissingRetryStack")
    /\ drained # <<0>> =>
          /\ IsInjective(given \o drained)
          /\ ToSet(given \o drained) = Called \ (Refused \cup lost)
          /\ nones \in scenario.nones

Pushers == Cardinality({t \in DOMAIN script : \E i \in 1 .. Len(scenario.scripts[t]) :
                                                  scenario.scripts[t][i] # 0})

\* The limit is looked at before the exchange and counted after it.  So "Maximum stack
\* size" (loom_stack.rs:49) is kept by pushes that follow one another; of those under
\* way together, all but one may exceed it, and no more.  And "`false` if stack is
\* full" (:63) is said of a stack that is full with the values whose pops are not
\* counted yet, or of any stack when more pushes than that are not counted: the
\* counter is then below zero and wraps (push and pop of LoomStack).
LimitNearlyHeld ==
    Is("LoomStack") =>
        /\ Len(From(head)) <= StackSizeMax + (IF pressed THEN Pushers - 1 ELSE 0)
        /\ \A r \in refused : \/ r.held + r.popping >= StackSizeMax
                               \/ r.held + r.popping < r.pushing

\* Once the threads are joined the checker objects exactly when a push gave up: it
\* catches MissingRetryStack in every schedule that shows the bug, and no right stack.
\* It looks for tracked values that are gone and not for values that nobody tracked,
\* so it never objects to LostElementStack, although that holds such a value, against
\* "DST invariant check" and "Should fail NoLostElements" (buggy_stacks.rs:12, :280,
\* :476).
LossReported ==
    Joined /\ drained = <<0>> /\ Tracked =>
        /\ AllHold(tracked.pushed, tracked.popped, From(head), tracked.history) <=> lost = {}
        /\ ToSet(From(head)) \ tracked.pushed # {} <=> Is("LostElementStack")

NotStarted == script = scenario.scripts /\ \A t \in DOMAIN script : pc[t] = "idle"

\* verify_implementation passes the right stack and none of the wrong ones, in its
\* default, quick and thorough configurations.
VerifierTellsApart ==
    \A interval \in {5, 10} : {q \in Qualities : VerifyImplementation(q, interval)} = {"MockStack"}
=============================================================================
