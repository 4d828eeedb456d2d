----------------------------- MODULE StackModel -----------------------------
(***************************************************************************)
(* StackModel of crates/vf-stateright/src/treiber_stack.rs: the Treiber    *)
(* stack as Stateright explores it, an operation three or two steps of a   *)
(* thread, and the traces that OracleExtractor (oracle.rs) gives out as    *)
(* "execution traces discovered during model checking".  A behaviour       *)
(* explores the model or follows one of those traces in it.                *)
(***************************************************************************)
EXTENDS Naturals, Sequences, SequencesExt, FiniteSets

CONSTANTS
    ThreadsCount,  \* StackModel.threads_count: the threads are 0, 1, ...
    Pushes,        \* StackModel.values, in the order given
    MaxPerCategory \* OracleExtractor.oracles_per_category_max

VARIABLES
    head,      \* StackState.head; 0 is None
    nodes,     \* StackState.nodes: the n-th node allocated is node n
    pushed, popped,
    threads,   \* ThreadState of each thread
    trace,     \* the trace followed
    at,        \* its next step, from 1; 0 when none is followed
    failures   \* history: the exchanges of the trace that failed

modelVars == <<head, nodes, pushed, popped, threads>>
vars == <<modelVars, trace, at, failures>>

ThreadIds == 0 .. ThreadsCount - 1
Idle == [at |-> "Idle"]

\* StackState::contents.
Contents ==
    LET from[n \in 0 .. Len(nodes)] ==
            IF n = 0 THEN <<>> ELSE <<nodes[n].value>> \o from[nodes[n].next]
    IN  from[head]

InFlight ==
    {threads[t].value : t \in {u \in ThreadIds :
                                  threads[u].at \in {"PushAllocated", "PushReadHead"}}}

\* The actions of a thread, with the value of a push.
Offered(t, action, v) ==
    \/ /\ action = "PushAlloc" /\ threads[t] = Idle
       /\ v \notin pushed \cup InFlight
    \/ action = "PopReadHead" /\ threads[t] = Idle /\ head # 0
    \/ action = "PushReadHead" /\ threads[t].at = "PushAllocated"
    \/ action = "PushCas" /\ threads[t].at = "PushReadHead"
    \/ action = "PopCas" /\ threads[t].at = "PopReadHead"

-----------------------------------------------------------------------------
(* next_state, one action each.                                               *)

Becomes(t, s) == threads' = [threads EXCEPT ![t] = s]

PushAlloc(t, v) ==
    /\ nodes' = Append(nodes, [value |-> v, next |-> 0])
    /\ Becomes(t, [at |-> "PushAllocated", node |-> Len(nodes) + 1, value |-> v])
    /\ UNCHANGED <<head, pushed, popped>>

PushReadHead(t) ==
    LET s == threads[t]
    IN  /\ nodes' = [nodes EXCEPT ![s.node].next = head]
        /\ Becomes(t, [at |-> "PushReadHead", node |-> s.node, value |-> s.value, seen |-> head])
        /\ UNCHANGED <<head, pushed, popped>>

PushCas(t) ==
    LET s == threads[t]
    IN  /\ IF head = s.seen
           THEN head' = s.node /\ pushed' = pushed \cup {s.value} /\ Becomes(t, Idle)
           ELSE /\ Becomes(t, [at |-> "PushAllocated", node |-> s.node, value |-> s.value])
                /\ UNCHANGED <<head, pushed>>
        /\ UNCHANGED <<nodes, popped>>

PopReadHead(t) ==
    /\ Becomes(t, [at |-> "PopReadHead", seen |-> head, value |-> nodes[head].value,
                   next |-> nodes[head].next])
    /\ UNCHANGED <<head, nodes, pushed, popped>>

\* Mutant of PopCas: the exchange does not compare.
PopBlind(t) ==
    /\ head' = threads[t].next
    /\ popped' = popped \cup {threads[t].value}
    /\ Becomes(t, Idle)
    /\ UNCHANGED <<nodes, pushed>>

PopCas(t) ==
    LET s == threads[t]
    IN  /\ IF head = s.seen
           THEN head' = s.next /\ popped' = popped \cup {s.value}
           ELSE UNCHANGED <<head, popped>>
        /\ Becomes(t, Idle)
        /\ UNCHANGED <<nodes, pushed>>

NextState(t, action, v) ==
    \/ action = "PushAlloc" /\ PushAlloc(t, v)
    \/ action = "PushReadHead" /\ PushReadHead(t)
    \/ action = "PushCas" /\ PushCas(t)
    \/ action = "PopReadHead" /\ PopReadHead(t)
    \/ action = "PopCas" /\ PopCas(t)

-----------------------------------------------------------------------------
(* OracleExtractor.                                                           *)

Step(t, action, v) == [thread |-> t, action |-> action, value |-> v]
Read(t) == <<Step(t, "PushReadHead", 0)>>
Cas(t) == <<Step(t, "PushCas", 0)>>
Start(t, v) == <<Step(t, "PushAlloc", v)>> \o Read(t)
PopRead(t) == <<Step(t, "PopReadHead", 0)>>
PopTry(t) == <<Step(t, "PopCas", 0)>>

SimplePush(t, v) == Start(t, v) \o Cas(t)
SimplePushPop(t, v) == SimplePush(t, v) \o PopRead(t) \o PopTry(t)
ConcurrentPush(t, u, v, w) ==
    Start(t, v) \o SimplePush(u, w) \o Cas(t) \o Read(t) \o Cas(t)
InterleavedAllocation(t, u, v, w) ==
    <<Step(t, "PushAlloc", v), Step(u, "PushAlloc", w)>> \o Read(t) \o Read(u)
        \o Cas(t) \o Cas(u) \o Read(u) \o Cas(u)
ConcurrentPop(t, u) ==
    PopRead(t) \o PopRead(u) \o PopTry(u) \o PopTry(t) \o PopRead(t) \o PopTry(t)
MixedOperations(t, u, v) ==
    <<Step(t, "PushAlloc", v)>> \o PopRead(u) \o Read(t) \o Cas(t)
        \o PopTry(u) \o PopRead(u) \o PopTry(u)
MultipleCasFailures(v, w, x) ==
    Start(0, v) \o SimplePush(1, w) \o Cas(0) \o Read(0) \o SimplePush(2, x)
        \o Cas(0) \o Read(0) \o Cas(0)

\* An oracle of a category, when the configuration has enough threads and values.
Candidate(category, threadsMin, valuesMin, actions) ==
    IF ThreadsCount >= threadsMin /\ Len(Pushes) >= valuesMin
    THEN <<[category |-> category, actions |-> actions]>> ELSE <<>>

Value(i) == IF i <= Len(Pushes) THEN Pushes[i] ELSE 1

\* generate_scenarios and add_edge_case_oracles, in their order.
Candidates ==
    Candidate("CasSuccess", 0, 0, SimplePush(0, Value(1)))
    \o Candidate("CasSuccess", 0, 0, SimplePushPop(0, Value(1)))
    \o Candidate("ConcurrentPush", 2, 2, ConcurrentPush(0, 1, Value(1), Value(2)))
    \o Candidate("ConcurrentPush", 2, 2, InterleavedAllocation(0, 1, Value(1), Value(2)))
    \o Candidate("ConcurrentPop", 2, 0, ConcurrentPop(0, 1))
    \o Candidate("MixedOperations", 2, 1, MixedOperations(0, 1, Value(1)))
    \o Candidate("EdgeCase", 0, 0, <<>>)
    \o Candidate("EdgeCase", 3, 3, MultipleCasFailures(Value(1), Value(2), Value(3)))

\* add_oracle.
AddOracle(oracles, o) ==
    IF Cardinality({i \in 1 .. Len(oracles) : oracles[i].category = o.category})
           < MaxPerCategory
    THEN Append(oracles, o) ELSE oracles

Extracted == FoldLeft(AddOracle, <<>>, Candidates)

\* Oracle::cas_failure_count: an exchange after which its thread goes on with a load
\* of head.
CasFailureCount(tr) ==
    Cardinality({i \in 1 .. Len(tr) :
        /\ tr[i].action \in {"PushCas", "PopCas"}
        /\ \E j \in i + 1 .. Len(tr) :
              /\ tr[j].thread = tr[i].thread
              /\ tr[j].action \in {"PushReadHead", "PopReadHead"}
              /\ \A k \in i + 1 .. j - 1 : tr[k].thread # tr[i].thread})

-----------------------------------------------------------------------------
Init ==
    /\ head = 0 /\ nodes = <<>>
    /\ pushed = {} /\ popped = {}
    /\ threads = [t \in ThreadIds |-> Idle]
    /\ failures = 0
    /\ \/ trace = <<>> /\ at = 0
       \/ trace \in {Extracted[i].actions : i \in 1 .. Len(Extracted)} /\ at = 1

Explore ==
    /\ at = 0
    /\ \E t \in ThreadIds, action \in {"PushAlloc", "PushReadHead", "PushCas", "PopReadHead", "PopCas"},
          v \in ToSet(Pushes) : Offered(t, action, v) /\ NextState(t, action, v)
    /\ UNCHANGED <<trace, at, failures>>

Following == at \in 1 .. Len(trace)
Possible == Offered(trace[at].thread, trace[at].action, trace[at].value)

Follow ==
    /\ Following /\ Possible
    /\ NextState(trace[at].thread, trace[at].action, trace[at].value)
    /\ at' = at + 1
    /\ failures' = failures + IF trace[at].action \in {"PushCas", "PopCas"} /\ head' = head
                              THEN 1 ELSE 0
    /\ UNCHANGED trace

Next == Explore \/ Follow

-----------------------------------------------------------------------------
\* The model's own properties, no_lost_elements and no_duplicates, over and above
\* which its steps are those of a stack: one value on top, one value off the top.
StepsAreLifo ==
    [][\/ Contents' = Contents /\ UNCHANGED <<pushed, popped>>
       \/ \E v \in ToSet(Pushes) \ pushed :
              Contents' = <<v>> \o Contents /\ pushed' = pushed \cup {v} /\ popped' = popped
       \/ /\ Contents # <<>> /\ Contents' = Tail(Contents)
          /\ popped' = popped \cup {Head(Contents)} /\ pushed' = pushed]_modelVars

\* The traces that pop before anything is pushed: concurrent_pop_cas_failure and
\* push_pop_race.
EmptyPops == {ConcurrentPop(0, 1), MixedOperations(0, 1, Value(1))}

\* "Oracles are interesting execution traces discovered during model checking"
\* (oracle.rs:3): all but those two are paths of the model, and the two stop at a pop
\* of the empty stack, which the model does not offer.  "Number of CAS failures in
\* this oracle" (oracle.rs:101): cas_failure_count is the number of exchanges that
\* fail on the path, but that for simple_push_pop it counts one that succeeds, since
\* the thread goes on with a load.
TracesJudged ==
    /\ Following /\ ~Possible => /\ trace \in EmptyPops
                                 /\ trace[at].action = "PopReadHead" /\ head = 0
    /\ at = Len(trace) + 1 =>
          /\ trace \notin EmptyPops
          /\ CasFailureCount(trace) = failures + IF trace = SimplePushPop(0, Value(1)) THEN 1 ELSE 0
=============================================================================
