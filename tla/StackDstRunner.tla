---------------------------- MODULE StackDstRunner ----------------------------
(***************************************************************************)
(* DstRunner of crates/vf-dst/src/fault_injection.rs: pushes and pops on a *)
(* stack, one after another, with a fault possible before and after each   *)
(* call, and the verdict run_dst_scenario draws from the values it         *)
(* remembers.  should_fail and the drawn fault type are free choices.  The *)
(* stack is the implementation under test: a right one, one that may drop  *)
(* a pushed value, and one that may leave a popped value in place.         *)
(***************************************************************************)
EXTENDS Naturals, Sequences, SequencesExt

CONSTANTS
    Values,
    MaxOperations  \* bound: the operations of a scenario

VARIABLES
    stack,     \* the contents, the top first
    quality,   \* "right", "lossy" or "sticky": the stack under test
    distinct,  \* whether the scenario pushes each value once
    pushed,    \* DstRunner.pushed
    popped,    \* DstRunner.popped
    asked,     \* how many operations were asked for
    lost       \* the pushed values the stack dropped (history)

vars == <<stack, quality, distinct, pushed, popped, asked, lost>>

Init ==
    /\ stack = <<>>
    /\ quality \in {"right", "lossy", "sticky"}
    /\ distinct \in BOOLEAN
    /\ pushed = {} /\ popped = {} /\ lost = {}
    /\ asked = 0

\* What the second fault point may do: a crash keeps the answer from the caller,
\* every other fault, or none, lets the operation return.
Faults == {"ThreadCrash", "none"}

Ask == asked < MaxOperations /\ asked' = asked + 1

\* A crash before the operation, or a failed allocation before a push, is the end
\* of it: the stack is not called.
Abandon ==
    /\ Ask
    /\ UNCHANGED <<stack, quality, distinct, pushed, popped, lost>>

\* The call of push and what a lossy stack makes of it.
Accept(value) ==
    /\ Ask
    /\ distinct => value \notin pushed \cup lost
    /\ \/ stack' = <<value>> \o stack /\ UNCHANGED lost
       \/ quality = "lossy" /\ UNCHANGED stack /\ lost' = lost \cup {value}
    /\ UNCHANGED <<quality, distinct, popped>>

\* Mutant of Push: a crash after the call forgets the value.
PushForget(value, after) ==
    /\ Accept(value)
    /\ pushed' = IF after = "ThreadCrash" THEN pushed ELSE pushed \cup {value}

\* The value is remembered on every path after the call.
Push(value, after) ==
    /\ Accept(value)
    /\ pushed' = pushed \cup {value}

\* A failed allocation does not stop a pop.  What came out is remembered before
\* the second fault point.
Pop(after) ==
    /\ Ask
    /\ IF stack = <<>> THEN UNCHANGED <<stack, popped>>
       ELSE /\ \/ stack' = Tail(stack)
               \/ quality = "sticky" /\ UNCHANGED stack
            /\ popped' = popped \cup {Head(stack)}
    /\ UNCHANGED <<quality, distinct, pushed, lost>>

Next ==
    \/ Abandon
    \/ \E after \in Faults : Pop(after) \/ \E value \in Values : Push(value, after)

Spec == Init /\ [][Next]_vars

-----------------------------------------------------------------------------
NoLostElements == pushed \subseteq ToSet(stack) \cup popped
NoDuplicates == IsInjective(stack)
Passed == NoLostElements /\ NoDuplicates

\* Whatever faults fire and wherever the scenario ends, a scenario of distinct
\* values fails exactly when the stack lost one of them (push, pop, run_dst_scenario):
\* no fault makes the runner accuse a right stack or miss a lost value.
StackVerdictTrue == distinct => (Passed <=> lost = {})
=============================================================================
