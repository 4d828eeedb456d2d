------------------------------- MODULE EpochGc --------------------------------
(***************************************************************************)
(* EpochGc of tools/vf-evolve/tasks/epoch_gc: the seed (initial.rs), whose *)
(* calls take a Mutex, and the evolved version                             *)
(* (results/v1/epoch_gc_best.rs), whose deferred functions are a list      *)
(* under an atomic pointer.  Their clients are threads around one shared   *)
(* pointer: a reader pins and loads it, a writer replaces what it points   *)
(* to and hands in the old object, and anyone may collect.                 *)
(*                                                                         *)
(* An exchange of the list's head that finds a node of the same address as *)
(* the one loaded links to the present head all the same: comparing the    *)
(* lists loses nothing.                                                    *)
(***************************************************************************)
EXTENDS Naturals, Sequences, SequencesExt, FiniteSets

CONSTANTS
    Threads,
    MaxObjects  \* bound: the objects 1, 2, ... are made in turn

VARIABLES
    version,    \* "seed" or "v1"
    pinned,     \* GcState.pinned
    deferred,   \* GcState.deferred: the objects whose destruction is deferred
    pc,
    guards,     \* the threads that have a Guard
    holds,      \* the object a thread has loaded under its guard; 0 is none
    current,    \* the object the shared pointer leads to
    old,        \* the object a thread hands in
    seenList,   \* v1: the list a thread loaded
    batch,      \* the functions collect has taken to run
    ran,        \* history: how often each object's function has run
    raced       \* history: functions were taken with a guard pinned since the look

gcVars == <<pinned, deferred>>
clientVars == <<guards, holds, current>>
locals == <<old, seenList, batch>>
vars == <<version, raced, gcVars, pc, clientVars, locals, ran>>

Objects == 1 .. MaxObjects

Init ==
    /\ version \in {"seed", "v1"}
    /\ pinned = 0 /\ deferred = <<>>
    /\ pc = [t \in Threads |-> "idle"]
    /\ guards = {} /\ holds = [t \in Threads |-> 0]
    /\ current = 1
    /\ old = [t \in Threads |-> 0]
    /\ seenList = [t \in Threads |-> <<>>]
    /\ batch = [t \in Threads |-> <<>>]
    /\ ran = [o \in Objects |-> 0]
    /\ raced = FALSE

Goto(t, from, to) == pc[t] = from /\ pc' = [pc EXCEPT ![t] = to]

-----------------------------------------------------------------------------
Pin(t) ==
    /\ t \notin guards /\ Goto(t, "idle", "idle")
    /\ pinned' = pinned + 1 /\ guards' = guards \cup {t}
    /\ UNCHANGED <<raced, deferred, holds, current, locals, ran>>

\* The reader loads the shared pointer under its guard.
Read(t) ==
    /\ t \in guards /\ holds[t] = 0 /\ Goto(t, "idle", "idle")
    /\ holds' = [holds EXCEPT ![t] = current]
    /\ UNCHANGED <<raced, gcVars, guards, current, locals, ran>>

\* The guard is dropped, and with it what it was held for.
Unpin(t) ==
    /\ t \in guards /\ Goto(t, "idle", "idle")
    /\ pinned' = IF pinned > 0 THEN pinned - 1 ELSE 0
    /\ guards' = guards \ {t} /\ holds' = [holds EXCEPT ![t] = 0]
    /\ UNCHANGED <<raced, deferred, current, locals, ran>>

\* The writer, with a guard or without, puts a new object in place of the old one.
Replace(t) ==
    /\ current < MaxObjects /\ Goto(t, "idle", "handIn")
    /\ current' = current + 1 /\ old' = [old EXCEPT ![t] = current]
    /\ UNCHANGED <<raced, gcVars, guards, holds, seenList, batch, ran>>

\* retire, or defer of the guard.
HandIn(t) ==
    /\ version = "seed" /\ Goto(t, "handIn", "idle")
    /\ deferred' = Append(deferred, old[t])
    /\ UNCHANGED <<raced, pinned, clientVars, locals, ran>>

\* v1: the head of the list is loaded, and exchanged if it is still the same.
HandInLoad(t) ==
    /\ version = "v1" /\ Goto(t, "handIn", "handInCas")
    /\ seenList' = [seenList EXCEPT ![t] = deferred]
    /\ UNCHANGED <<raced, gcVars, clientVars, old, batch, ran>>

HandInCas(t) ==
    /\ deferred = seenList[t] /\ Goto(t, "handInCas", "idle")
    /\ deferred' = <<old[t]>> \o deferred
    /\ UNCHANGED <<raced, pinned, clientVars, locals, ran>>

HandInRetry(t) ==
    /\ deferred # seenList[t] /\ Goto(t, "handInCas", "handIn")
    /\ UNCHANGED <<raced, gcVars, clientVars, locals, ran>>

-----------------------------------------------------------------------------
\* Mutant of Collect: the lock is given up between the look at pinned and the taking
\* of the functions, as in v1.
CollectLooks(t) ==
    /\ version = "seed" /\ pinned = 0 /\ Goto(t, "idle", "swap")
    /\ UNCHANGED <<raced, gcVars, clientVars, locals, ran>>

\* collect: what is deferred is taken under the lock and run after it.
Collect(t) ==
    /\ version = "seed" /\ pinned = 0 /\ Goto(t, "idle", "running")
    /\ batch' = [batch EXCEPT ![t] = deferred]
    /\ deferred' = <<>>
    /\ UNCHANGED <<raced, pinned, clientVars, old, seenList, ran>>

CollectLoad(t) ==
    /\ version = "v1" /\ pinned = 0 /\ Goto(t, "idle", "swap")
    /\ UNCHANGED <<raced, gcVars, clientVars, locals, ran>>

CollectSwap(t) ==
    /\ Goto(t, "swap", "running")
    /\ batch' = [batch EXCEPT ![t] = deferred]
    /\ deferred' = <<>>
    /\ raced' = (raced \/ (pinned # 0 /\ deferred # <<>>))
    /\ UNCHANGED <<pinned, clientVars, old, seenList, ran>>

RunOne(t) ==
    /\ batch[t] # <<>> /\ Goto(t, "running", "running")
    /\ ran' = [ran EXCEPT ![Head(batch[t])] = @ + 1]
    /\ batch' = [batch EXCEPT ![t] = Tail(@)]
    /\ UNCHANGED <<raced, gcVars, clientVars, old, seenList>>

CollectReturn(t) ==
    /\ batch[t] = <<>> /\ Goto(t, "running", "idle")
    /\ UNCHANGED <<raced, gcVars, clientVars, locals, ran>>

Next ==
    /\ UNCHANGED version
    /\ \E t \in Threads :
          \/ Pin(t) \/ Read(t) \/ Unpin(t) \/ Replace(t)
          \/ HandIn(t) \/ HandInLoad(t) \/ HandInCas(t) \/ HandInRetry(t)
          \/ Collect(t) \/ CollectLoad(t) \/ CollectSwap(t) \/ RunOne(t) \/ CollectReturn(t)

-----------------------------------------------------------------------------
\* "Must not free while any guard is pinned" (trait_spec.rs:99), for the guards it
\* matters to: what a pinned thread has loaded is not freed.  The seed runs the
\* functions after it has let go of the lock, but a guard pinned since cannot have
\* loaded what was handed in before.  In v1 it can, between the load of pinned and the
\* swap of the list (collect of epoch_gc_best.rs): v1 keeps this only until a collector
\* takes functions with a guard pinned since its look.
NoFreeWhileHeld ==
    /\ raced => version = "v1"
    /\ ~raced => \A t \in guards : holds[t] # 0 => ran[holds[t]] = 0

Times(s, o) == Cardinality({i \in DOMAIN s : s[i] = o})

\* Every deferred function handed in is in one place, the list or one collector's
\* batch, until it has run, once (both versions).
RunsOnce ==
    \A o \in 1 .. current - 1 :
        /\ ran[o] + Times(deferred, o)
              + Cardinality({<<t, i>> \in Threads \X Objects :
                                i \in DOMAIN batch[t] /\ batch[t][i] = o})
              + Cardinality({t \in Threads : pc[t] \in {"handIn", "handInCas"} /\ old[t] = o})
           = 1
=============================================================================
