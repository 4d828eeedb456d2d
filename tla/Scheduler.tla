------------------------------ MODULE Scheduler ------------------------------
(***************************************************************************)
(* The scheduler of crates/vf-dst/src/scheduler.rs: an index into a number *)
(* of threads.  Its random draws are free choices; with one thread it      *)
(* never switches.  The scheduler knows no threads, only their number:     *)
(* name (a history variable) remembers which thread an index stands for.   *)
(***************************************************************************)
EXTENDS Naturals, Sequences, SequencesExt

CONSTANTS
    Threads,     \* the threads there can be
    ThreadsMax   \* THREADS_COUNT_MAX

VARIABLES
    current,   \* Scheduler.current_thread, from 0
    name       \* name[i + 1] is the thread the index i stands for

vars == <<current, name>>

threadsCount == Len(name)
Index == 0 .. threadsCount - 1

Init ==
    /\ current = 0
    /\ \E t \in Threads : name = <<t>>

\* pick_other_thread draws until the candidate is another one.
Others == Index \ {current}

\* decide, when the draw says to yield, and force_switch.
Switch == threadsCount > 1 /\ current' \in Others /\ UNCHANGED name

SetCurrentThread(index) == index \in Index /\ current' = index /\ UNCHANGED name

\* The new thread takes the index after the last.
AddThread(t) ==
    /\ threadsCount < ThreadsMax
    /\ t \notin ToSet(name)
    /\ name' = Append(name, t)
    /\ UNCHANGED current

\* Mutant of AfterRemoval: the current index is moved only when it was removed.
AfterRemovalStay(index) ==
    IF current = index THEN (IF index > 0 THEN index - 1 ELSE 0) ELSE current

\* Where the current index points when another thread's index is gone.
AfterRemoval(index) ==
    CASE current = index -> IF index > 0 THEN index - 1 ELSE 0
      [] current > index -> current - 1
      [] OTHER -> current

RemoveThread(index) ==
    /\ index \in Index
    /\ threadsCount > 1
    /\ name' = RemoveAt(name, index + 1)
    /\ current' = AfterRemoval(index)

Next ==
    \/ Switch
    \/ \E i \in Index : SetCurrentThread(i) \/ RemoveThread(i)
    \/ \E t \in Threads : AddThread(t)

Spec == Init /\ [][Next]_vars

-----------------------------------------------------------------------------
Running == name[current + 1]

\* Removing a thread renumbers those above it, but the scheduler goes on with the
\* thread that was running unless that one was removed, and always with one that
\* is there (remove_thread, add_thread).
RunningStays ==
    [][/\ current' \in 0 .. Len(name') - 1
       /\ Len(name') # Len(name) => Running' = Running \/ Running \notin ToSet(name')]_vars
=============================================================================
