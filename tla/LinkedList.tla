----------------------------- MODULE LinkedList ------------------------------
(***************************************************************************)
(* ConcurrentLinkedList of tools/vf-evolve/tasks/linked_list: the seed     *)
(* (initial.rs), a BTreeSet behind a Mutex, and the evolved version        *)
(* (results/v1/linked_list_best.rs), a sorted list whose links are changed *)
(* by exchanges.  The threads run the task's tests, all of them on both    *)
(* versions.  A removed node of the evolved list is not marked: a step     *)
(* that changes a link behind it, or puts back what it led to, is recorded *)
(* in misled, and what the tests assert is lost from then on.              *)
(* A node is the value it holds: no test puts a removed value back.        *)
(***************************************************************************)
EXTENDS Naturals, FiniteSetsExt, Sequences

CONSTANT
    Largest        \* bound: the values are 1 .. Largest

VARIABLES
    version,       \* "seed" or "v1"
    test,          \* the test that runs
    next,          \* the links of the evolved list; next[Front] is head
    tree,          \* the BTreeSet of the seed
    todo,          \* the calls each thread still makes
    pc, prev, curr, succ, count,   \* a thread's place in its call, and its locals
    before,        \* history: the elements when the call began
    inserted, removed,             \* history: the values a call was said to insert, remove,
                                   \* with the number of times
    lookups,       \* history: the other answers
    retired,       \* the nodes given to defer_destroy
    misled         \* history: a link of a removed node was changed, or one to it made

listVars == <<next, tree, retired>>
localVars == <<pc, prev, curr, succ, count, before>>
historyVars == <<inserted, removed, lookups>>
vars == <<version, test, misled, listVars, todo, localVars, historyVars>>

Front == 0
NoNode == Largest + 1
Values == 1 .. Largest
Users == 1 .. 3

Members ==
    LET reached[n \in 1 .. NoNode] == IF n = NoNode THEN {} ELSE {n} \cup reached[next[n]]
    IN  IF version = "seed" THEN tree ELSE reached[next[Front]]

Ins(v) == [op |-> "insert", v |-> v]
Rem(v) == [op |-> "remove", v |-> v]
Has(v) == [op |-> "contains", v |-> v]
Size == [op |-> "len", v |-> NoNode]

\* The elements a test begins with, and the calls of its threads: threads that
\* insert, one that removes while another inserts, and the removers and inserters of
\* test_concurrent_insert_and_remove.
Test(name) ==
    CASE name = "inserts" ->
            [filled |-> {1},
             calls |-> <<<<Ins(2), Ins(4)>>, <<Ins(3), Ins(4)>>, <<Size>>>>]
      [] name = "removes" ->
            [filled |-> {1, 3, 4},
             calls |-> <<<<Rem(4), Rem(3), Rem(4)>>, <<Ins(2), Has(3)>>, <<Size>>>>]
      [] name = "both" ->
            [filled |-> {1, 2},
             calls |-> <<<<Rem(1), Rem(2)>>, <<Rem(1), Rem(2)>>, <<Ins(3), Ins(4)>>>>]

Following(n, linked) ==
    LET larger == {m \in linked : m > n}
    IN  IF larger = {} THEN NoNode ELSE Min(larger)

Start(filled, calls) ==
    /\ next = [n \in 0 .. Largest |-> Following(n, filled)]
    /\ tree = filled
    /\ inserted = [v \in Values |-> IF v \in filled THEN 1 ELSE 0]
    /\ todo = calls

Init ==
    /\ version \in {"seed", "v1"}
    /\ test \in {"inserts", "removes", "both"}
    /\ Start(Test(test).filled, Test(test).calls)
    /\ pc = [u \in Users |-> "idle"]
    /\ prev = [u \in Users |-> Front] /\ curr = [u \in Users |-> Front]
    /\ succ = [u \in Users |-> Front] /\ count = [u \in Users |-> 0]
    /\ before = [u \in Users |-> {}]
    /\ removed = [v \in Values |-> 0]
    /\ lookups = {} /\ retired = {} /\ misled = FALSE

-----------------------------------------------------------------------------
(* The seed: a call is a critical section.                                    *)

\* What a call that changes nothing is about; it answers how many of them there are.
Asked(call) == IF call.op = "len" THEN Values ELSE {call.v}

Log(call, answer, first, last) ==
    lookups' = lookups \cup {[call |-> call, answer |-> answer, before |-> first, after |-> last]}

SeedCall(u) ==
    /\ version = "seed" /\ todo[u] # <<>>
    /\ todo' = [todo EXCEPT ![u] = Tail(@)]
    /\ LET c == todo[u][1]
       IN  CASE c.op = "insert" /\ c.v \notin tree ->
                    /\ tree' = tree \cup {c.v}
                    /\ inserted' = [inserted EXCEPT ![c.v] = @ + 1]
                    /\ UNCHANGED <<removed, lookups>>
             [] c.op = "remove" /\ c.v \in tree ->
                    /\ tree' = tree \ {c.v}
                    /\ removed' = [removed EXCEPT ![c.v] = @ + 1]
                    /\ UNCHANGED <<inserted, lookups>>
             [] OTHER ->
                    /\ Log(c, Cardinality(tree \cap Asked(c)), tree, tree)
                    /\ UNCHANGED <<tree, inserted, removed>>
    /\ UNCHANGED <<next, retired, misled, localVars>>

-----------------------------------------------------------------------------
(* The evolved version: each load of a link and each exchange is a step.      *)

At(u, place) == version = "v1" /\ pc[u] = place
Goto(u, place) == pc' = [pc EXCEPT ![u] = place]
Op(u) == todo[u][1].op
Value(u) == todo[u][1].v

Call(u) ==
    /\ At(u, "idle") /\ todo[u] # <<>>
    /\ Goto(u, "head")
    /\ before' = [before EXCEPT ![u] = Members]
    /\ UNCHANGED <<misled, listVars, todo, prev, curr, succ, count, historyVars>>

\* find and len begin at the head.
LoadHead(u) ==
    /\ At(u, "head")
    /\ Goto(u, "walk")
    /\ prev' = [prev EXCEPT ![u] = Front]
    /\ curr' = [curr EXCEPT ![u] = next[Front]]
    /\ UNCHANGED <<misled, listVars, todo, succ, count, before, historyVars>>

Walk(u) ==
    /\ At(u, "walk") /\ curr[u] < Value(u)
    /\ prev' = [prev EXCEPT ![u] = curr[u]]
    /\ curr' = [curr EXCEPT ![u] = next[curr[u]]]
    /\ count' = [count EXCEPT ![u] = IF Op(u) = "len" THEN @ + 1 ELSE @]
    /\ UNCHANGED <<misled, listVars, todo, pc, succ, before, historyVars>>

Arrived(u) == At(u, "walk") /\ curr[u] >= Value(u)

Done(u) ==
    /\ todo' = [todo EXCEPT ![u] = Tail(@)]
    /\ pc' = [pc EXCEPT ![u] = "idle"]
    /\ prev' = [prev EXCEPT ![u] = Front] /\ curr' = [curr EXCEPT ![u] = Front]
    /\ succ' = [succ EXCEPT ![u] = Front] /\ count' = [count EXCEPT ![u] = 0]
    /\ before' = [before EXCEPT ![u] = {}]

\* contains and len answer; insert finds its value there, remove does not.
Answer(u) ==
    /\ Arrived(u)
    /\ CASE Op(u) = "insert" -> curr[u] = Value(u)
         [] Op(u) = "remove" -> curr[u] # Value(u)
         [] OTHER -> TRUE
    /\ LET answer == CASE Op(u) = "len" -> count[u]
                       [] curr[u] = Value(u) -> 1
                       [] OTHER -> 0
       IN  Log(todo[u][1], answer, before[u], Members)
    /\ Done(u)
    /\ UNCHANGED <<misled, listVars, inserted, removed>>

InsertCas(u) ==
    /\ Arrived(u) /\ Op(u) = "insert" /\ curr[u] # Value(u)
    /\ next[prev[u]] = curr[u]
    /\ next' = [next EXCEPT ![prev[u]] = Value(u), ![Value(u)] = curr[u]]
    /\ Done(u)
    /\ inserted' = [inserted EXCEPT ![Value(u)] = @ + 1]
    /\ misled' = (misled \/ prev[u] \in retired)
    /\ UNCHANGED <<tree, retired, removed, lookups>>

RemoveLoad(u) ==
    /\ Arrived(u) /\ Op(u) = "remove" /\ curr[u] = Value(u)
    /\ Goto(u, "unlink")
    /\ succ' = [succ EXCEPT ![u] = next[curr[u]]]
    /\ UNCHANGED <<misled, listVars, todo, prev, curr, count, before, historyVars>>

RemoveCas(u) ==
    /\ At(u, "unlink") /\ next[prev[u]] = curr[u]
    /\ next' = [next EXCEPT ![prev[u]] = succ[u]]
    /\ retired' = retired \cup {curr[u]}
    /\ removed' = [removed EXCEPT ![curr[u]] = @ + 1]
    /\ Done(u)
    /\ misled' = (misled \/ prev[u] \in retired \/ succ[u] # next[curr[u]])
    /\ UNCHANGED <<tree, inserted, lookups>>

\* The exchange fails: search again.
Retry(u) ==
    /\ \/ Arrived(u) /\ Op(u) = "insert" /\ curr[u] # Value(u)
       \/ At(u, "unlink")
    /\ next[prev[u]] # curr[u]
    /\ Goto(u, "head")
    /\ UNCHANGED <<misled, listVars, todo, prev, curr, succ, count, before, historyVars>>

Next ==
    /\ UNCHANGED <<version, test>>
    /\ \E u \in Users :
          \/ SeedCall(u)
          \/ Call(u) \/ LoadHead(u) \/ Walk(u) \/ Answer(u)
          \/ InsertCas(u) \/ RemoveLoad(u) \/ RemoveCas(u) \/ Retry(u)

Spec == Init /\ [][Next]_vars

-----------------------------------------------------------------------------
\* An answer that changed nothing was right at some instant of the call: no test
\* inserts and removes one value.
LookupRight(l) ==
    l.answer \in Cardinality(l.before \cap l.after \cap Asked(l.call))
                   .. Cardinality((l.before \cup l.after) \cap Asked(l.call))

\* The list is the set its answers tell of ("All inserts of unique values must
\* succeed", "Missing value", trait_spec.rs:112, :120), no node still linked is given to
\* the collector, and a value is removed once, whoever removes it ("Each value removed
\* exactly once", :173).  The seed keeps this, and so does the evolved list where one
\* thread removes; where several remove and another inserts, behind the last value they
\* remove, the evolved list keeps it until that thread is misled (insert and remove of
\* linked_list_best.rs), and from then on only that values are removed once.
ListIsSet ==
    /\ \A v \in Values : removed[v] <= 1
    /\ misled => version = "v1" /\ test = "both"
    /\ ~misled =>
          /\ \A v \in Values : inserted[v] = removed[v] + (IF v \in Members THEN 1 ELSE 0)
          /\ \A l \in lookups : LookupRight(l)
          /\ version = "v1" => retired \cap Members = {}

\* "Inserted values should all still be present", "Only inserted values remain"
\* (trait_spec.rs:176, :179): once the threads have ended, what was inserted and not
\* removed is in the list.  The evolved list does not keep this.
OnlyInsertedRemain ==
    (\A u \in Users : todo[u] = <<>>) => Members = {v \in Values : removed[v] < inserted[v]}
=============================================================================
