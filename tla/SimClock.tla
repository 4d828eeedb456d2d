------------------------------ MODULE SimClock ------------------------------
(***************************************************************************)
(* The simulated clock of crates/vf-dst/src/clock.rs, an AtomicU64 that    *)
(* threads may share.  advance_ns loads it, asserts that the sum stays     *)
(* within TIME_NS_MAX and then adds with a second atomic operation: other  *)
(* threads may have added in between.  The add wraps at Modulus.           *)
(***************************************************************************)
EXTENDS Naturals

CONSTANTS
    Threads,
    Deltas,    \* the advances asked for
    TimeMax,   \* TIME_NS_MAX
    Modulus    \* 2^64

VARIABLES
    now,       \* SimClock.now_ns
    adding     \* the delta a thread has checked and not added yet, 0 for none

vars == <<now, adding>>

Init == now = 0 /\ adding = [t \in Threads |-> 0]

\* Mutant of Check: the assertion is gone, as in a release build.
CheckNothing(t, delta) ==
    /\ adding[t] = 0
    /\ adding' = [adding EXCEPT ![t] = delta]
    /\ UNCHANGED now

\* The load and the assertion; the thread panics when it does not hold.
Check(t, delta) ==
    /\ adding[t] = 0
    /\ now + delta <= TimeMax
    /\ adding' = [adding EXCEPT ![t] = delta]
    /\ UNCHANGED now

Add(t) ==
    /\ adding[t] > 0
    /\ now' = (now + adding[t]) % Modulus
    /\ adding' = [adding EXCEPT ![t] = 0]

\* reset stores zero, whatever others are about to add.
Reset == now' = 0 /\ UNCHANGED adding

Next ==
    \/ \E t \in Threads : Add(t) \/ \E delta \in Deltas : Check(t, delta)
    \/ Reset

Spec == Init /\ [][Next]_vars

-----------------------------------------------------------------------------
\* Simulated time goes back only by a reset: as many threads as the room above
\* TIME_NS_MAX has space for can pass the assertion together and pass TIME_NS_MAX,
\* but the counter does not wrap (advance_ns).
TimeMovesOn == [][now' >= now \/ Reset]_vars
=============================================================================
