----------------------------- MODULE RingBuffer ------------------------------
(***************************************************************************)
(* RingBuffer of tools/vf-evolve/tasks/ring_buffer: the seed (initial.rs), *)
(* a VecDeque behind a Mutex, and the evolved version                      *)
(* (results/v1/ring_buffer_best.rs), whose calls claim a slot first and    *)
(* fill or empty it afterwards.  The clients are those of the task's       *)
(* concurrent tests: producers that try again while the buffer is full and *)
(* one consumer that tries again while it is empty.  A push of the evolved *)
(* version that claims its slot while another is being filled, or after    *)
(* others have filled the buffer since it looked, is recorded in crowded.  *)
(***************************************************************************)
EXTENDS Naturals, Sequences, SequencesExt, FiniteSets

CONSTANTS
    Capacity,
    Producers, Consumer,
    Items          \* bound: the values of a producer are its pairs with 1 .. Items

VARIABLES
    version,       \* "seed" or "v1"
    slots,         \* buffer, by position from 0
    head, tail,    \* the positions next read and next written
    size,
    pc, seen,      \* of each thread; the position it loaded, then claimed
    sent,          \* how many values each producer has sent
    produced,      \* history: the values sent, in the order of their slots
    consumed,      \* history: the values received
    crowded        \* history: a slot was claimed that may not have been free

bufferVars == <<slots, head, tail, size>>
vars == <<version, bufferVars, crowded, pc, seen, sent, produced, consumed>>

Uninit == <<>>
Users == Producers \cup {Consumer}
Positions == 0 .. Capacity - 1
First == CHOOSE p \in Producers : TRUE

Init ==
    /\ version \in {"seed", "v1"}
    /\ slots = [i \in Positions |-> Uninit]
    /\ head = 0 /\ tail = 0 /\ size = 0
    /\ pc = [t \in Users |-> "idle"] /\ seen = [t \in Users |-> 0]
    \* One producer sends all its values, the others fewer.
    /\ \E few \in 0 .. Items - 1 :
          sent = [p \in Producers |-> IF p = First THEN 0 ELSE Items - few]
    /\ crowded = FALSE
    /\ produced = <<>> /\ consumed = <<>>

Goto(t, from, to) == pc[t] = from /\ pc' = [pc EXCEPT ![t] = to]
Following(i) == (i + 1) % Capacity
Sending(p) == version = "v1" /\ sent[p] < Items
Value(p) == <<p, sent[p] + 1>>

-----------------------------------------------------------------------------
(* The seed: a call is a critical section.                                    *)

SeedPush(p) ==
    /\ version = "seed" /\ sent[p] < Items /\ size < Capacity
    /\ slots' = [slots EXCEPT ![tail] = Value(p)]
    /\ tail' = Following(tail) /\ size' = size + 1
    /\ sent' = [sent EXCEPT ![p] = @ + 1]
    /\ produced' = Append(produced, Value(p))
    /\ UNCHANGED <<crowded, head, pc, seen, consumed>>

SeedPop ==
    /\ version = "seed" /\ size > 0
    /\ head' = Following(head) /\ size' = size - 1
    /\ consumed' = Append(consumed, slots[head])
    /\ UNCHANGED <<crowded, slots, tail, pc, seen, sent, produced>>

-----------------------------------------------------------------------------
(* The evolved push and pop.  A weak exchange may fail for no reason; the     *)
(* loop around the exchange of size amounts to one addition.                  *)

PushCheck(p) ==
    /\ Sending(p) /\ size < Capacity /\ Goto(p, "idle", "load")
    /\ UNCHANGED <<crowded, bufferVars, seen, sent, produced, consumed>>

PushLoad(p) ==
    /\ Sending(p) /\ Goto(p, "load", "claim")
    /\ seen' = [seen EXCEPT ![p] = tail]
    /\ UNCHANGED <<crowded, bufferVars, sent, produced, consumed>>

PushClaim(p) ==
    /\ Sending(p) /\ tail = seen[p] /\ Goto(p, "claim", "write")
    /\ tail' = Following(tail)
    /\ produced' = Append(produced, Value(p))
    /\ crowded' = (crowded \/ size >= Capacity
                           \/ \E q \in Producers \ {p} : pc[q] \in {"write", "count"})
    /\ UNCHANGED <<slots, head, size, seen, sent, consumed>>

Retry(t) ==
    /\ Goto(t, "claim", "idle")
    /\ UNCHANGED <<crowded, bufferVars, seen, sent, produced, consumed>>

PushWrite(p) ==
    /\ Sending(p) /\ Goto(p, "write", "count")
    /\ slots' = [slots EXCEPT ![seen[p]] = Value(p)]
    /\ UNCHANGED <<crowded, head, tail, size, seen, sent, produced, consumed>>

PushCount(p) ==
    /\ Sending(p) /\ Goto(p, "count", "idle")
    /\ size' = size + 1 /\ sent' = [sent EXCEPT ![p] = @ + 1]
    /\ UNCHANGED <<crowded, slots, head, tail, seen, produced, consumed>>

PopCheck ==
    /\ version = "v1" /\ size > 0 /\ Goto(Consumer, "idle", "load")
    /\ UNCHANGED <<crowded, bufferVars, seen, sent, produced, consumed>>

PopLoad ==
    /\ Goto(Consumer, "load", "claim")
    /\ seen' = [seen EXCEPT ![Consumer] = head]
    /\ UNCHANGED <<crowded, bufferVars, sent, produced, consumed>>

PopClaim ==
    /\ head = seen[Consumer] /\ Goto(Consumer, "claim", "read")
    /\ head' = Following(head)
    /\ UNCHANGED <<crowded, slots, tail, size, seen, sent, produced, consumed>>

PopRead ==
    /\ Goto(Consumer, "read", "count")
    /\ consumed' = Append(consumed, slots[seen[Consumer]])
    /\ UNCHANGED <<crowded, bufferVars, seen, sent, produced>>

PopCount ==
    /\ Goto(Consumer, "count", "idle")
    /\ size' = size - 1
    /\ UNCHANGED <<crowded, slots, head, tail, seen, sent, produced, consumed>>

Next ==
    /\ UNCHANGED version
    /\ \/ \E p \in Producers :
             \/ SeedPush(p)
             \/ PushCheck(p) \/ PushLoad(p) \/ PushClaim(p) \/ PushWrite(p) \/ PushCount(p)
       \/ \E t \in Users : Retry(t)
       \/ SeedPop
       \/ PopCheck \/ PopLoad \/ PopClaim \/ PopRead \/ PopCount

-----------------------------------------------------------------------------
(* RingBufferPropertyChecker of crates/vf-core/src/invariants/ring_buffer.rs. *)

Contents == [i \in 1 .. size |-> slots[(head + i - 1) % Capacity]]

NoLostMessages == ToSet(produced) \subseteq ToSet(consumed) \cup ToSet(Contents)

FifoOrder ==
    \A i \in 1 .. Len(consumed) : i <= Len(produced) => consumed[i] = produced[i]

CheckAll == NoLostMessages /\ FifoOrder /\ Len(Contents) <= Capacity

\* What is received is what was sent, in that order, and no slot is claimed again
\* before it is read ("FIFO: values must arrive in order", trait_spec.rs:126); between
\* calls the checker says so too.  The seed keeps this with any producers, and the
\* evolved buffer with one; with several it does so until a slot is claimed that may not
\* have been free (push of ring_buffer_best.rs).  "All items must be consumed" (:172) is
\* asserted of their number alone, and that is right in every case: size counts the
\* values that were sent and not received, but for the calls under way.
BufferKeepsOrder ==
    /\ crowded => version = "v1" /\ Cardinality({value[1] : value \in ToSet(produced)}) > 1
    /\ ~crowded => /\ IsPrefix(consumed, produced)
                   /\ Len(produced) <= Len(consumed) + Capacity
                   /\ (\A t \in Users : pc[t] = "idle") => CheckAll
    /\ Len(produced) + (IF pc[Consumer] = "count" THEN 1 ELSE 0)
          = size + Len(consumed) + Cardinality({p \in Producers : pc[p] \in {"write", "count"}})
=============================================================================
