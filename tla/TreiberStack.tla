---------------------------- MODULE TreiberStack ----------------------------
(***************************************************************************)
(* TreiberStack of crates/vf-examples/src/treiber_stack.rs: a lock-free    *)
(* stack of nodes under one atomic head, every atomic access a step of its *)
(* own.  crossbeam-epoch is external: a node given to defer_destroy is     *)
(* freed, and its address used again, at any time after every thread that  *)
(* was pinned then has let go of its guard.                                *)
(*                                                                         *)
(* The Release/Acquire pairs on head order every access to a node after    *)
(* its initialisation, so steps interleave; the counters are relaxed but   *)
(* changed by single read-modify-writes.  step, the sum of the two         *)
(* operation counters, is left out.                                        *)
(***************************************************************************)
EXTENDS Integers, Sequences, FiniteSets

CONSTANTS
    Threads,
    Nodes,         \* the addresses the allocator hands out
    Null,          \* the null pointer, and the answer None
    MaxPushes,     \* bound: push calls; the k-th call pushes the value k
    MaxPops,       \* bound: pop calls
    MaxLists,      \* bound: get_contents calls
    StackSizeMax,  \* STACK_SIZE_MAX
    SizeModulus,   \* 2^64, where the counters wrap
    DebugBuild     \* whether debug_assert! is compiled in

ASSUME NullAssumption == Null \notin Nodes \cup Nat
ASSUME BoundsAssumption ==
    /\ MaxPushes \in Nat /\ MaxPops \in Nat /\ MaxLists \in Nat
    /\ StackSizeMax \in Nat \ {0} /\ SizeModulus \in Nat \ {0}
    /\ StackSizeMax < SizeModulus
    /\ DebugBuild \in BOOLEAN

VARIABLES
    head,       \* TreiberStack.head
    next,       \* Node.next
    value,      \* Node.value
    memory,     \* of each address: free, owned by a push, linked, cut off by a
                \* pop, retired
    holders,    \* the threads whose guards keep a retired node from being freed
    size, pushCount, popCount,
    pc,         \* where each thread is
    node,       \* the node a push inserts
    seen,       \* the head a thread loaded; the position of get_contents
    after,      \* the next pointer a pop loaded
    got,        \* the value a pop loaded
    listed,     \* the values get_contents collected so far
    calls,      \* pushes, pops and lists called (bounds the model)
    chain,      \* history: the nodes on the stack, top first
    atLoad      \* history: the contents when get_contents loaded head

heap == <<head, next, value, memory, holders>>
counters == <<size, pushCount, popCount>>
locals == <<node, seen, after, got, listed>>
vars == <<heap, counters, pc, locals, calls, chain, atLoad>>

\* The values on the stack, top first.
Content == [i \in 1 .. Len(chain) |-> value[chain[i]]]

Pinned == {t \in Threads : pc[t] \notin {"idle", "panicked"}}

Init ==
    /\ head = Null
    /\ next = [n \in Nodes |-> Null]
    /\ value = [n \in Nodes |-> 0]
    /\ memory = [n \in Nodes |-> "free"]
    /\ holders = [n \in Nodes |-> {}]
    /\ size = 0 /\ pushCount = 0 /\ popCount = 0
    /\ pc = [t \in Threads |-> "idle"]
    /\ node = [t \in Threads |-> Null]
    /\ seen = [t \in Threads |-> Null]
    /\ after = [t \in Threads |-> Null]
    /\ got = [t \in Threads |-> Null]
    /\ listed = [t \in Threads |-> <<>>]
    /\ calls = [push |-> 0, pop |-> 0, list |-> 0]
    /\ chain = <<>>
    /\ atLoad = [t \in Threads |-> <<>>]

Goto(t, from, to) == pc[t] = from /\ pc' = [pc EXCEPT ![t] = to]

\* The guard is dropped when the operation returns.
Return(t, from) ==
    /\ Goto(t, from, "idle")
    /\ holders' = [n \in Nodes |-> holders[n] \ {t}]

-----------------------------------------------------------------------------
\* push: the assertion on size; pin and allocate the node.
PushCall(t) ==
    /\ calls.push < MaxPushes
    /\ calls' = [calls EXCEPT !.push = @ + 1]
    /\ \/ /\ DebugBuild /\ size >= StackSizeMax
          /\ Goto(t, "idle", "panicked")
          /\ UNCHANGED <<heap, node>>
       \/ /\ ~DebugBuild \/ size < StackSizeMax
          /\ Goto(t, "idle", "pushLoad")
          /\ \E n \in Nodes :
                /\ memory[n] = "free"
                /\ memory' = [memory EXCEPT ![n] = "owned"]
                /\ value' = [value EXCEPT ![n] = calls.push + 1]
                /\ next' = [next EXCEPT ![n] = Null]
                /\ node' = [node EXCEPT ![t] = n]
          /\ UNCHANGED <<head, holders>>
    /\ UNCHANGED <<counters, seen, after, got, listed, chain, atLoad>>

\* The load of head, and the store to the node nobody else can see.
PushLoad(t) ==
    /\ Goto(t, "pushLoad", "pushCas")
    /\ seen' = [seen EXCEPT ![t] = head]
    /\ next' = [next EXCEPT ![node[t]] = head]
    /\ UNCHANGED <<head, value, memory, holders, counters, node, after, got,
                   listed, calls, chain, atLoad>>

\* Mutant of PushCas: a store where the exchange is.
PushStore(t) ==
    /\ Goto(t, "pushCas", "pushSize")
    /\ head' = node[t]
    /\ memory' = [memory EXCEPT ![node[t]] = "linked"]
    /\ chain' = <<node[t]>> \o chain
    /\ UNCHANGED <<next, value, holders, counters, locals, calls, atLoad>>

PushCas(t) ==
    /\ head = seen[t]
    /\ Goto(t, "pushCas", "pushSize")
    /\ head' = node[t]
    /\ memory' = [memory EXCEPT ![node[t]] = "linked"]
    /\ chain' = <<node[t]>> \o chain
    /\ UNCHANGED <<next, value, holders, counters, locals, calls, atLoad>>

\* Mutant of PushRetry: the exchange is tried again with the old head.
PushSpin(t) ==
    /\ head # seen[t]
    /\ Goto(t, "pushCas", "pushCas")
    /\ UNCHANGED <<heap, counters, locals, calls, chain, atLoad>>

\* Mutant of PushRetry: one attempt only, counted as a push (MissingRetryStack of
\* crates/vf-examples/src/buggy_stacks.rs).
PushGiveUp(t) ==
    /\ head # seen[t]
    /\ Goto(t, "pushCas", "pushSize")
    /\ UNCHANGED <<heap, counters, locals, calls, chain, atLoad>>

\* The exchange failed: load head again.
PushRetry(t) ==
    /\ head # seen[t]
    /\ Goto(t, "pushCas", "pushLoad")
    /\ UNCHANGED <<heap, counters, locals, calls, chain, atLoad>>

PushSize(t) ==
    /\ Goto(t, "pushSize", "pushCount")
    /\ size' = (size + 1) % SizeModulus
    /\ UNCHANGED <<heap, pushCount, popCount, locals, calls, chain, atLoad>>

PushCount(t) ==
    /\ Return(t, "pushCount")
    /\ pushCount' = pushCount + 1
    /\ UNCHANGED <<head, next, value, memory, size, popCount, locals, calls,
                   chain, atLoad>>

-----------------------------------------------------------------------------
PopCall(t) ==
    /\ calls.pop < MaxPops
    /\ calls' = [calls EXCEPT !.pop = @ + 1]
    /\ Goto(t, "idle", "popLoad")
    /\ UNCHANGED <<heap, counters, locals, chain, atLoad>>

PopLoad(t) ==
    /\ Goto(t, "popLoad", IF head = Null THEN "popCount" ELSE "popRead")
    /\ seen' = [seen EXCEPT ![t] = head]
    /\ got' = [got EXCEPT ![t] = Null]
    /\ UNCHANGED <<heap, counters, node, after, listed, calls, chain, atLoad>>

\* deref: value and next of a published node never change while it is one.
PopRead(t) ==
    /\ Goto(t, "popRead", "popCas")
    /\ got' = [got EXCEPT ![t] = value[seen[t]]]
    /\ after' = [after EXCEPT ![t] = next[seen[t]]]
    /\ UNCHANGED <<heap, counters, node, seen, listed, calls, chain, atLoad>>

PopCas(t) ==
    /\ head = seen[t]
    /\ Goto(t, "popCas", "popRetire")
    /\ head' = after[t]
    /\ memory' = [memory EXCEPT ![seen[t]] = "cut"]
    /\ chain' = Tail(chain)
    /\ UNCHANGED <<next, value, holders, counters, locals, calls, atLoad>>

PopRetry(t) ==
    /\ head # seen[t]
    /\ Goto(t, "popCas", "popLoad")
    /\ UNCHANGED <<heap, counters, locals, calls, chain, atLoad>>

\* Mutant of PopRetire: the node is freed at once (as in the task's seed
\* initial_atomic.rs).
PopFree(t) ==
    /\ Goto(t, "popRetire", "popCount")
    /\ memory' = [memory EXCEPT ![seen[t]] = "free"]
    /\ size' = (size - 1) % SizeModulus
    /\ UNCHANGED <<head, next, value, holders, pushCount, popCount, locals, calls,
                   chain, atLoad>>

\* defer_destroy, then the counter.
PopRetire(t) ==
    /\ Goto(t, "popRetire", "popCount")
    /\ memory' = [memory EXCEPT ![seen[t]] = "retired"]
    /\ holders' = [holders EXCEPT ![seen[t]] = Pinned]
    /\ size' = (size - 1) % SizeModulus
    /\ UNCHANGED <<head, next, value, pushCount, popCount, locals, calls,
                   chain, atLoad>>

PopCount(t) ==
    /\ Return(t, "popCount")
    /\ popCount' = popCount + 1
    /\ UNCHANGED <<head, next, value, memory, size, pushCount, locals, calls,
                   chain, atLoad>>

-----------------------------------------------------------------------------
\* get_contents: pin, load head, then one node after the other.
ListCall(t) ==
    /\ calls.list < MaxLists
    /\ calls' = [calls EXCEPT !.list = @ + 1]
    /\ Goto(t, "idle", "listLoad")
    /\ UNCHANGED <<heap, counters, locals, chain, atLoad>>

ListLoad(t) ==
    /\ Goto(t, "listLoad", "listWalk")
    /\ seen' = [seen EXCEPT ![t] = head]
    /\ listed' = [listed EXCEPT ![t] = <<>>]
    /\ atLoad' = [atLoad EXCEPT ![t] = Content]
    /\ UNCHANGED <<heap, counters, node, after, got, calls, chain>>

ListWalk(t) ==
    /\ seen[t] # Null
    /\ Goto(t, "listWalk", "listWalk")
    /\ listed' = [listed EXCEPT ![t] = Append(@, value[seen[t]])]
    /\ seen' = [seen EXCEPT ![t] = next[seen[t]]]
    /\ UNCHANGED <<heap, counters, node, after, got, calls, chain, atLoad>>

ListReturn(t) ==
    /\ seen[t] = Null
    /\ Return(t, "listWalk")
    /\ UNCHANGED <<head, next, value, memory, counters, locals, calls, chain,
                   atLoad>>

-----------------------------------------------------------------------------
\* crossbeam-epoch runs the deferred destruction.
Reclaim(n) ==
    /\ memory[n] = "retired" /\ holders[n] = {}
    /\ memory' = [memory EXCEPT ![n] = "free"]
    /\ UNCHANGED <<head, next, value, holders, counters, pc, locals, calls,
                   chain, atLoad>>

Call(t) == PushCall(t) \/ PopCall(t) \/ ListCall(t)

\* What a thread does inside an operation.
Work(t) ==
    \/ PushLoad(t) \/ PushCas(t) \/ PushRetry(t) \/ PushSize(t) \/ PushCount(t)
    \/ PopLoad(t) \/ PopRead(t) \/ PopCas(t) \/ PopRetry(t) \/ PopRetire(t) \/ PopCount(t)
    \/ ListLoad(t) \/ ListWalk(t) \/ ListReturn(t)

Next ==
    \/ \E t \in Threads : Call(t) \/ Work(t)
    \/ \E n \in Nodes : Reclaim(n)

Spec == Init /\ [][Next]_vars

-----------------------------------------------------------------------------
PushPc == {"pushLoad", "pushCas", "pushSize", "pushCount"}
PopPc == {"popLoad", "popRead", "popCas", "popRetire", "popCount"}

TypeOK ==
    /\ head \in Nodes \cup {Null}
    /\ next \in [Nodes -> Nodes \cup {Null}]
    /\ value \in [Nodes -> Nat]
    /\ memory \in [Nodes -> {"free", "owned", "linked", "cut", "retired"}]
    /\ holders \in [Nodes -> SUBSET Threads]
    /\ size \in 0 .. SizeModulus - 1 /\ pushCount \in Nat /\ popCount \in Nat
    /\ pc \in [Threads -> PushPc \cup PopPc \cup
                          {"idle", "panicked", "listLoad", "listWalk"}]
    /\ node \in [Threads -> Nodes \cup {Null}]
    /\ seen \in [Threads -> Nodes \cup {Null}]
    /\ after \in [Threads -> Nodes \cup {Null}]
    /\ got \in [Threads -> Nat \cup {Null}]
    /\ listed \in [Threads -> Seq(Nat)]
    /\ calls \in [push : 0 .. MaxPushes, pop : 0 .. MaxPops, list : 0 .. MaxLists]
    /\ chain \in Seq(Nodes)
    /\ atLoad \in [Threads -> Seq(Nat)]

\* head and next lead through the nodes pushed and not popped, in order and each
\* once, and every linked node is among them: no stale exchange loses, doubles or
\* drops a node (both CAS loops).
ChainLinked ==
    /\ \A i \in 1 .. Len(chain) :
          /\ memory[chain[i]] = "linked"
          /\ next[chain[i]] = IF i = Len(chain) THEN Null ELSE chain[i + 1]
          /\ \A j \in 1 .. Len(chain) : chain[i] = chain[j] => i = j
    /\ head = IF chain = <<>> THEN Null ELSE chain[1]
    /\ \A n \in Nodes : memory[n] = "linked" => \E i \in 1 .. Len(chain) : chain[i] = n

\* No thread dereferences a node that has been freed (pop, get_contents), which
\* is what the guards are for.
NoUseAfterFree ==
    \A t \in Threads :
        (pc[t] \in {"popRead", "popCas", "popRetire", "listWalk"} /\ seen[t] # Null)
            => memory[seen[t]] \in {"linked", "cut", "retired"}

\* What get_contents returns is the stack as it was when head was loaded, with
\* any number of pushes and pops under way.
ListIsSnapshot ==
    \A t \in Threads :
        pc[t] = "listWalk" /\ seen[t] = Null => listed[t] = atLoad[t]

At(label) == Cardinality({t \in Threads : pc[t] = label})

\* size differs from the stack by the operations between their exchange and
\* their counter, and by nothing once these are done ("All pushed elements must
\* be accounted for", treiber_stack.rs:570).
CountersExact ==
    size = (Len(chain) - At("pushSize") + At("popRetire")) % SizeModulus

\* What TreiberStack holds and tells is exact: no node is lost or doubled, a list is
\* the stack of one instant, the size is right but for the updates under way.
ContentExact == TypeOK /\ ChainLinked /\ ListIsSnapshot /\ CountersExact

OpOf(t) ==
    CASE pc[t] \in {"pushLoad", "pushCas"} -> [kind |-> "push", value |-> value[node[t]]]
      [] pc[t] \in {"pushSize", "pushCount"} -> [kind |-> "pushed"]
      [] pc[t] \in {"popLoad", "popRead", "popCas"} -> [kind |-> "pop"]
      [] pc[t] \in {"popRetire", "popCount"} -> [kind |-> "popped", value |-> got[t]]
      [] pc[t] = "listLoad" -> [kind |-> "list"]
      [] pc[t] = "listWalk" -> [kind |-> "listed", values |-> atLoad[t]]
      [] OTHER -> [kind |-> "idle"]

Lifo == INSTANCE LifoStack WITH
            Values <- 1 .. MaxPushes, NoValue <- Null,
            stack <- Content, op <- [t \in Threads |-> OpOf(t)]

\* Every operation takes effect at one instant between its call and its return
\* (Linearizability and LIFO_Order of the file's table): the successful exchange
\* of push and pop, the load of head of an empty pop and of get_contents.
Linearizable == Lifo!Spec

\* A thread inside an operation gets out of it, wherever the others stop
\* ("at least one thread will make progress", treiber_stack.rs:24): only finitely
\* many operations of others can make its exchange fail.
Finishes(t) == pc[t] # "idle" ~> pc[t] \in {"idle", "panicked"}

=============================================================================
