------------------------- MODULE TreiberStackProofs -------------------------
(***************************************************************************)
(* Theorems about TreiberStack, for any threads, addresses and bounds: the *)
(* guards keep what a thread reads, the nodes stay chained, get_contents   *)
(* answers the stack of one instant, and every operation takes effect      *)
(* atomically: the stack implements LifoStack.                             *)
(***************************************************************************)
EXTENDS TreiberStack, FiniteSetTheorems, SequenceTheorems, TLAPS

-----------------------------------------------------------------------------
(* The inductive invariant.                                                  *)

\* A node that thread t may go on reading: on the stack, cut off by a pop that has
\* not retired it, or retired while t was pinned.
Held(t, n) ==
    \/ memory[n] \in {"linked", "cut"}
    \/ memory[n] = "retired" /\ t \in holders[n]

\* The pushes that have allocated their node and not linked it yet.
Pushing(t) == pc[t] \in {"pushLoad", "pushCas"}

\* A push has its node to itself until its exchange, a pop its own after it.
OwnNodes ==
    /\ \A t \in Threads : Pushing(t) =>
          /\ node[t] \in Nodes /\ memory[node[t]] = "owned"
          /\ value[node[t]] \in 1 .. MaxPushes
          /\ pc[t] = "pushCas" => next[node[t]] = seen[t]
          /\ \A u \in Threads : Pushing(u) /\ node[u] = node[t] => u = t
    /\ \A t \in Threads : pc[t] = "popRetire" =>
          /\ seen[t] \in Nodes /\ memory[seen[t]] = "cut"
          /\ \A u \in Threads : pc[u] = "popRetire" /\ seen[u] = seen[t] => u = t

\* What a pop loaded is held for it, and what it read there is still there.
Guarded ==
    \A t \in Threads : pc[t] \in {"popRead", "popCas"} =>
        /\ seen[t] \in Nodes /\ Held(t, seen[t])
        /\ pc[t] = "popCas" => got[t] = value[seen[t]] /\ after[t] = next[seen[t]]

\* The values of a list of nodes.
Values(p) == [i \in 1 .. Len(p) |-> value[p[i]]]

\* The nodes get_contents has yet to visit: held for it, chained, and with what it
\* has listed the contents when it loaded head.
Trail(t, p) ==
    /\ \A i \in 1 .. Len(p) :
          /\ Held(t, p[i])
          /\ next[p[i]] = IF i = Len(p) THEN Null ELSE p[i + 1]
    /\ seen[t] = IF p = <<>> THEN Null ELSE p[1]
    /\ atLoad[t] = listed[t] \o Values(p)

\* So its list, once it has come to the end, is what was on the stack.
Walks == \A t \in Threads : pc[t] = "listWalk" => \E p \in Seq(Nodes) : Trail(t, p)

\* What every step keeps.
Inv == TypeOK /\ ChainLinked /\ OwnNodes /\ Guarded /\ Walks

-----------------------------------------------------------------------------
(* Types.                                                                    *)

\* What the counters make of a wrap.
LEMMA ModRange ==
    ASSUME NEW x \in Int PROVE x % SizeModulus \in 0 .. SizeModulus - 1
BY BoundsAssumption

\* One more call, below the bound.
LEMMA CallCounted ==
    ASSUME TypeOK,
           \/ calls.push < MaxPushes /\ calls' = [calls EXCEPT !.push = @ + 1]
           \/ calls.pop < MaxPops /\ calls' = [calls EXCEPT !.pop = @ + 1]
           \/ calls.list < MaxLists /\ calls' = [calls EXCEPT !.list = @ + 1]
    PROVE  calls' \in [push : 0 .. MaxPushes, pop : 0 .. MaxPops, list : 0 .. MaxLists]
<1> DEFINE A == 0 .. MaxPushes
           B == 0 .. MaxPops
           C == 0 .. MaxLists
<1>1. calls \in [push : A, pop : B, list : C]
  BY DEF TypeOK
<1>2. calls.push \in A /\ calls.pop \in B /\ calls.list \in C
  BY <1>1
<1>3. /\ calls.push < MaxPushes => calls.push + 1 \in A
      /\ calls.pop < MaxPops => calls.pop + 1 \in B
      /\ calls.list < MaxLists => calls.list + 1 \in C
  BY <1>2, BoundsAssumption
<1> HIDE DEF A, B, C
<1>4. calls' \in [push : A, pop : B, list : C]
  BY <1>1, <1>3
<1>5. QED
  BY <1>4 DEF A, B, C

\* Every step of push, pop and get_contents, and every reclamation, keeps the types.
LEMMA TypeStep == Inv /\ [Next]_vars => TypeOK'
<1> SUFFICES ASSUME Inv, [Next]_vars PROVE TypeOK'
  OBVIOUS
<1> TypeOK
  BY DEF Inv
<1> USE DEF TypeOK, PushPc, PopPc, Goto, heap, counters, locals
<1>1. CASE UNCHANGED vars
  BY <1>1 DEF vars
<1>2. ASSUME NEW t \in Threads, PushCall(t) PROVE TypeOK'
  <2>1. calls' \in [push : 0 .. MaxPushes, pop : 0 .. MaxPops, list : 0 .. MaxLists]
    BY <1>2, CallCounted DEF PushCall
  <2>2. calls.push \in Nat
    BY BoundsAssumption
  <2>3. CASE Goto(t, "idle", "panicked") /\ UNCHANGED <<heap, node>>
    BY <1>2, <2>1, <2>3 DEF PushCall
  <2>4. ASSUME NEW n \in Nodes, Goto(t, "idle", "pushLoad"),
               memory' = [memory EXCEPT ![n] = "owned"],
               value' = [value EXCEPT ![n] = calls.push + 1],
               next' = [next EXCEPT ![n] = Null], node' = [node EXCEPT ![t] = n],
               UNCHANGED <<head, holders>>
        PROVE  TypeOK'
    <3>1. value' \in [Nodes -> Nat]
      BY <2>2, <2>4
    <3>2. /\ memory' \in [Nodes -> {"free", "owned", "linked", "cut", "retired"}]
          /\ next' \in [Nodes -> Nodes \cup {Null}]
          /\ node' \in [Threads -> Nodes \cup {Null}]
      BY <2>4
    <3>3. QED
      BY <1>2, <2>1, <2>4, <3>1, <3>2 DEF PushCall
  <2>5. QED
    BY <1>2, <2>3, <2>4 DEF PushCall
<1>3. ASSUME NEW t \in Threads, PopCall(t) \/ ListCall(t) PROVE TypeOK'
  <2>1. calls' \in [push : 0 .. MaxPushes, pop : 0 .. MaxPops, list : 0 .. MaxLists]
    BY <1>3, CallCounted DEF PopCall, ListCall
  <2>2. CASE PopCall(t)
    BY <2>1, <2>2 DEF PopCall
  <2>3. CASE ListCall(t)
    BY <2>1, <2>3 DEF ListCall
  <2>4. QED
    BY <1>3, <2>2, <2>3
<1>4. ASSUME NEW t \in Threads, PushLoad(t) PROVE TypeOK'
  BY <1>4 DEF PushLoad
<1>5. ASSUME NEW t \in Threads, PushCas(t) PROVE TypeOK'
  <2>1. node[t] \in Nodes
    BY <1>5 DEF PushCas, Inv, OwnNodes, Pushing
  <2>2. <<node[t]>> \o chain \in Seq(Nodes)
    BY <2>1
  <2>3. QED
    BY <1>5, <2>1, <2>2 DEF PushCas
<1>6. ASSUME NEW t \in Threads, PushRetry(t) \/ PopRetry(t) PROVE TypeOK'
  BY <1>6 DEF PushRetry, PopRetry
<1>7. ASSUME NEW t \in Threads, PushSize(t) PROVE TypeOK'
  <2>1. size' \in 0 .. SizeModulus - 1
    <3>1. size \in Int /\ size' = (size + 1) % SizeModulus
      BY <1>7, BoundsAssumption DEF PushSize
    <3>2. QED
      BY <3>1, ModRange
  <2>2. QED
    BY <1>7, <2>1 DEF PushSize
<1>8. ASSUME NEW t \in Threads, PushCount(t) PROVE TypeOK'
  BY <1>8 DEF PushCount, Return
<1>9. ASSUME NEW t \in Threads, PopLoad(t) PROVE TypeOK'
  BY <1>9 DEF PopLoad
<1>10. ASSUME NEW t \in Threads, PopRead(t) PROVE TypeOK'
  <2>1. seen[t] \in Nodes
    BY <1>10 DEF PopRead, Inv, Guarded
  <2>2. QED
    BY <1>10, <2>1 DEF PopRead
<1>11. ASSUME NEW t \in Threads, PopCas(t) PROVE TypeOK'
  <2>1. seen[t] \in Nodes
    BY <1>11 DEF PopCas, Inv, Guarded
  <2>2. chain # <<>>
    BY <1>11, <2>1, NullAssumption DEF PopCas, Inv, ChainLinked
  <2>3. Tail(chain) \in Seq(Nodes)
    BY <2>2
  <2>4. QED
    BY <1>11, <2>1, <2>3 DEF PopCas
<1>12. ASSUME NEW t \in Threads, PopRetire(t) PROVE TypeOK'
  <2>1. size' \in 0 .. SizeModulus - 1
    <3>1. size \in Int /\ size' = (size - 1) % SizeModulus
      BY <1>12, BoundsAssumption DEF PopRetire
    <3>2. QED
      BY <3>1, ModRange
  <2>2. Pinned \subseteq Threads
    BY DEF Pinned
  <2>3. QED
    BY <1>12, <2>1, <2>2 DEF PopRetire
<1>13. ASSUME NEW t \in Threads, PopCount(t) PROVE TypeOK'
  BY <1>13 DEF PopCount, Return
<1>14. ASSUME NEW t \in Threads, ListLoad(t) PROVE TypeOK'
  BY <1>14 DEF ListLoad, Content
<1>15. ASSUME NEW t \in Threads, ListWalk(t) PROVE TypeOK'
  BY <1>15 DEF ListWalk
<1>16. ASSUME NEW t \in Threads, ListReturn(t) PROVE TypeOK'
  BY <1>16 DEF ListReturn, Return
<1>17. ASSUME NEW n \in Nodes, Reclaim(n) PROVE TypeOK'
  BY <1>17 DEF Reclaim
<1>18. QED
  BY <1>1, <1>2, <1>3, <1>4, <1>5, <1>6, <1>7, <1>8, <1>9, <1>10, <1>11, <1>12, <1>13,
     <1>14, <1>15, <1>16, <1>17 DEF Next, Call, Work

-----------------------------------------------------------------------------
(* The guards.                                                               *)

\* What a thread holds stays held and is not written, as long as it is pinned.
Keeps(u) ==
    \A n \in Nodes : Held(u, n) =>
        Held(u, n)' /\ value'[n] = value[n] /\ next'[n] = next[n]

\* No step of push, pop and get_contents, and no reclamation, frees or changes a
\* node that a pinned thread holds.
LEMMA HeldKept ==
    ASSUME Inv, [Next]_vars, NEW u \in Pinned, pc'[u] \notin {"idle", "panicked"}
    PROVE  Keeps(u)
<1> USE DEF Keeps, Held, heap, counters, locals
<1> u \in Threads
  BY DEF Pinned
<1>1. CASE UNCHANGED vars \/ UNCHANGED heap
  BY <1>1 DEF vars
<1>2. TypeOK
  BY DEF Inv
<1>3. ASSUME NEW t \in Threads, PushCall(t) PROVE Keeps(u)
  <2>1. CASE UNCHANGED heap
    BY <1>1, <2>1
  <2>2. ASSUME NEW n \in Nodes, memory[n] = "free",
               memory' = [memory EXCEPT ![n] = "owned"],
               value' = [value EXCEPT ![n] = calls.push + 1],
               next' = [next EXCEPT ![n] = Null], UNCHANGED holders
        PROVE  Keeps(u)
    BY <1>2, <2>2 DEF TypeOK
  <2>3. QED
    BY <1>3, <2>1, <2>2 DEF PushCall
<1>4. ASSUME NEW t \in Threads, PushLoad(t) PROVE Keeps(u)
  <2>1. node[t] \in Nodes /\ memory[node[t]] = "owned"
    BY <1>4 DEF PushLoad, Goto, Inv, OwnNodes, Pushing
  <2>2. QED
    BY <1>2, <1>4, <2>1 DEF PushLoad, TypeOK
<1>5. ASSUME NEW t \in Threads, PushCas(t) PROVE Keeps(u)
  <2>1. node[t] \in Nodes /\ memory[node[t]] = "owned"
    BY <1>5 DEF PushCas, Goto, Inv, OwnNodes, Pushing
  <2>2. QED
    BY <1>2, <1>5, <2>1 DEF PushCas, TypeOK
<1>6. ASSUME NEW t \in Threads, PopCas(t) PROVE Keeps(u)
  BY <1>2, <1>6 DEF PopCas, TypeOK
<1>7. ASSUME NEW t \in Threads, PopRetire(t) PROVE Keeps(u)
  <2>1. seen[t] \in Nodes /\ memory[seen[t]] = "cut"
    BY <1>7 DEF PopRetire, Goto, Inv, OwnNodes
  <2>2. QED
    BY <1>2, <1>7, <2>1 DEF PopRetire, TypeOK
<1>8. ASSUME NEW t \in Threads, NEW label, Return(t, label), UNCHANGED <<value, next, memory>>
      PROVE  Keeps(u)
  <2>1. t # u
    BY <1>2, <1>8 DEF Return, Goto, TypeOK
  <2>2. \A n \in Nodes : holders'[n] = holders[n] \ {t}
    BY <1>8 DEF Return
  <2>3. QED
    BY <1>8, <2>1, <2>2
<1>9. ASSUME NEW n \in Nodes, Reclaim(n) PROVE Keeps(u)
  BY <1>2, <1>9 DEF Reclaim, TypeOK
<1>10. QED
  BY <1>1, <1>3, <1>4, <1>5, <1>6, <1>7, <1>8, <1>9 DEF Next, Call, Work, PopCall, ListCall, PushRetry,
     PushSize, PushCount, PopLoad, PopRead, PopRetry, PopCount, ListLoad, ListWalk, ListReturn

\* A pop that reads a node reads one that is not freed; so does its exchange, which
\* finds the node on top of the stack.
LEMMA PopOfTop ==
    ASSUME Inv, NEW t \in Threads, PopCas(t)
    PROVE  /\ seen[t] \in Nodes /\ chain # <<>> /\ seen[t] = chain[1]
           /\ memory[seen[t]] = "linked"
           /\ got[t] = value[chain[1]]
           /\ after[t] = IF Len(chain) = 1 THEN Null ELSE chain[2]
<1>1. /\ seen[t] \in Nodes /\ got[t] = value[seen[t]] /\ after[t] = next[seen[t]]
      /\ head = seen[t]
  BY DEF PopCas, Goto, Inv, Guarded
<1>2. chain # <<>> /\ head = chain[1]
  BY <1>1, NullAssumption DEF Inv, ChainLinked
<1>3. chain \in Seq(Nodes) /\ Len(chain) \in Nat /\ Len(chain) > 0
  BY <1>2 DEF Inv, TypeOK
<1>4. /\ memory[chain[1]] = "linked"
      /\ next[chain[1]] = IF Len(chain) = 1 THEN Null ELSE chain[2]
  <2>1. 1 \in 1 .. Len(chain)
    BY <1>3
  <2>2. \A i \in 1 .. Len(chain) :
          /\ memory[chain[i]] = "linked"
          /\ next[chain[i]] = IF i = Len(chain) THEN Null ELSE chain[i + 1]
    BY DEF Inv, ChainLinked
  <2>3. /\ memory[chain[1]] = "linked"
        /\ next[chain[1]] = IF 1 = Len(chain) THEN Null ELSE chain[1 + 1]
    BY <2>1, <2>2, Zenon
  <2>4. 1 + 1 = 2
    OBVIOUS
  <2>5. QED
    BY <1>3, <2>3, <2>4
<1>5. QED
  BY <1>1, <1>2, <1>3, <1>4

\* head and next lead through the nodes pushed and not popped after every step: an
\* exchange that succeeds installs a node whose next is the head it replaces, or the
\* next that the head has now, whatever addresses were used again meanwhile.
LEMMA ChainStep == Inv /\ [Next]_vars => ChainLinked'
<1> SUFFICES ASSUME Inv, [Next]_vars PROVE ChainLinked'
  OBVIOUS
<1> USE DEF heap
<1>1. TypeOK /\ ChainLinked /\ chain \in Seq(Nodes) /\ Len(chain) \in Nat
  BY DEF Inv, TypeOK
<1>2. CASE UNCHANGED <<head, next, memory, chain>>
  BY <1>1, <1>2 DEF ChainLinked
<1>3. ASSUME NEW n \in Nodes, memory[n] # "linked", memory'[n] # "linked",
             \A m \in Nodes \ {n} : memory'[m] = memory[m] /\ next'[m] = next[m],
             UNCHANGED <<head, chain>>
      PROVE  ChainLinked'
  <2>1. \A i \in 1 .. Len(chain) : chain[i] \in Nodes \ {n}
    BY <1>1, <1>3 DEF ChainLinked
  <2>2. QED
    BY <1>1, <1>3, <2>1 DEF ChainLinked
<1>4. ASSUME NEW t \in Threads, PushCall(t) PROVE ChainLinked'
  <2>1. CASE UNCHANGED heap
    BY <1>2, <1>4, <2>1 DEF PushCall
  <2>2. ASSUME NEW n \in Nodes, memory[n] = "free",
               memory' = [memory EXCEPT ![n] = "owned"],
               next' = [next EXCEPT ![n] = Null], UNCHANGED <<head, chain>>
        PROVE  ChainLinked'
    BY <1>1, <1>3, <2>2 DEF TypeOK
  <2>3. QED
    BY <1>4, <2>1, <2>2 DEF PushCall
<1>5. ASSUME NEW t \in Threads, PushLoad(t) PROVE ChainLinked'
  <2>1. node[t] \in Nodes /\ memory[node[t]] = "owned"
    BY <1>5 DEF PushLoad, Goto, Inv, OwnNodes, Pushing
  <2>2. QED
    BY <1>1, <1>3, <1>5, <2>1 DEF PushLoad, TypeOK
<1>6. ASSUME NEW t \in Threads, PushCas(t) PROVE ChainLinked'
  <2> DEFINE n == node[t]
  <2>1. n \in Nodes /\ memory[n] = "owned" /\ next[n] = head
    BY <1>6 DEF PushCas, Goto, Inv, OwnNodes, Pushing
  <2>2. /\ chain' = <<n>> \o chain /\ head' = n /\ next' = next
        /\ memory' = [memory EXCEPT ![n] = "linked"]
    BY <1>6 DEF PushCas
  <2>3. /\ Len(chain') = Len(chain) + 1 /\ chain'[1] = n
        /\ \A i \in 2 .. Len(chain) + 1 : chain'[i] = chain[i - 1] /\ i - 1 \in 1 .. Len(chain)
    BY <1>1, <2>1, <2>2
  <2>4. /\ memory'[n] = "linked"
        /\ \A m \in Nodes \ {n} : memory'[m] = memory[m]
    BY <1>1, <2>1, <2>2 DEF TypeOK
  <2>5. \A i \in 1 .. Len(chain) : chain[i] \in Nodes \ {n}
    BY <1>1, <2>1 DEF ChainLinked
  <2> HIDE DEF n
  <2>6. ASSUME NEW i \in 1 .. Len(chain')
        PROVE  /\ memory'[chain'[i]] = "linked"
               /\ next'[chain'[i]] = IF i = Len(chain') THEN Null ELSE chain'[i + 1]
               /\ \A j \in 1 .. Len(chain') : chain'[i] = chain'[j] => i = j
    <3>1. CASE i = 1
      <4>1. \A j \in 2 .. Len(chain) + 1 : chain'[j] # n
        BY <2>3, <2>5
      <4>2. next'[n] = IF Len(chain') = 1 THEN Null ELSE chain'[2]
        BY <1>1, <2>1, <2>2, <2>3 DEF ChainLinked
      <4>3. QED
        BY <1>1, <2>3, <2>4, <3>1, <4>1, <4>2
    <3>2. CASE i # 1
      <4>1. i - 1 \in 1 .. Len(chain) /\ chain'[i] = chain[i - 1] /\ i \in Nat
        BY <1>1, <2>3, <3>2
      <4>2. memory'[chain'[i]] = "linked" /\ chain'[i] # n
        BY <1>1, <2>4, <2>5, <4>1 DEF ChainLinked
      <4>3. next'[chain'[i]] = IF i = Len(chain') THEN Null ELSE chain'[i + 1]
        BY <1>1, <2>2, <2>3, <4>1 DEF ChainLinked
      <4>4. \A j \in 1 .. Len(chain') : chain'[i] = chain'[j] => i = j
        <5>1. chain'[1] # chain'[i]
          BY <2>3, <4>2
        <5>2. \A j \in 2 .. Len(chain') : chain'[j] = chain[j - 1] /\ j - 1 \in 1 .. Len(chain)
          BY <2>3
        <5>3. \A j \in 2 .. Len(chain') : chain'[i] = chain'[j] => i - 1 = j - 1
          BY <1>1, <4>1, <5>2 DEF ChainLinked
        <5>4. QED
          BY <1>1, <2>3, <4>1, <5>1, <5>3
      <4>5. QED
        BY <4>2, <4>3, <4>4
    <3>3. QED
      BY <3>1, <3>2
  <2>7. \A m \in Nodes : memory'[m] = "linked" => \E i \in 1 .. Len(chain') : chain'[i] = m
    <3>1. ASSUME NEW m \in Nodes, memory'[m] = "linked", m # n
          PROVE  \E i \in 1 .. Len(chain') : chain'[i] = m
      <4>1. PICK i \in 1 .. Len(chain) : chain[i] = m
        BY <1>1, <2>4, <3>1 DEF ChainLinked
      <4>2. i + 1 \in 1 .. Len(chain') /\ chain'[i + 1] = m
        BY <1>1, <2>3, <4>1
      <4>3. QED
        BY <4>2
    <3>2. QED
      BY <1>1, <2>3, <3>1
  <2>8. chain' # <<>> /\ head' = chain'[1]
    BY <1>1, <2>2, <2>3
  <2>9. QED
    BY <2>6, <2>7, <2>8 DEF ChainLinked
<1>7. ASSUME NEW t \in Threads, PopCas(t) PROVE ChainLinked'
  <2> DEFINE n == seen[t]
  <2>1. /\ n \in Nodes /\ chain # <<>> /\ n = chain[1]
        /\ after[t] = IF Len(chain) = 1 THEN Null ELSE chain[2]
    BY <1>7, PopOfTop
  <2>2. /\ chain' = Tail(chain) /\ head' = after[t] /\ next' = next
        /\ memory' = [memory EXCEPT ![n] = "cut"]
    BY <1>7 DEF PopCas
  <2>3. /\ Len(chain') = Len(chain) - 1 /\ Len(chain) > 0
        /\ \A i \in 1 .. Len(chain) - 1 : chain'[i] = chain[i + 1] /\ i + 1 \in 1 .. Len(chain)
    BY <1>1, <2>1, <2>2
  <2>4. /\ memory'[n] = "cut"
        /\ \A m \in Nodes \ {n} : memory'[m] = memory[m]
    BY <1>1, <2>1, <2>2 DEF TypeOK
  <2>5. \A i \in 2 .. Len(chain) : chain[i] \in Nodes \ {n}
    BY <1>1, <2>1 DEF ChainLinked
  <2> HIDE DEF n
  <2>6. ASSUME NEW i \in 1 .. Len(chain')
        PROVE  /\ memory'[chain'[i]] = "linked"
               /\ next'[chain'[i]] = IF i = Len(chain') THEN Null ELSE chain'[i + 1]
               /\ \A j \in 1 .. Len(chain') : chain'[i] = chain'[j] => i = j
    <3>1. chain'[i] = chain[i + 1] /\ i + 1 \in 2 .. Len(chain) /\ i \in Nat
      BY <1>1, <2>3
    <3>2. memory'[chain'[i]] = "linked"
      BY <1>1, <2>4, <2>5, <3>1 DEF ChainLinked
    <3>3. next'[chain'[i]] = IF i = Len(chain') THEN Null ELSE chain'[i + 1]
      BY <1>1, <2>2, <2>3, <3>1 DEF ChainLinked
    <3>4. \A j \in 1 .. Len(chain') : chain'[i] = chain'[j] => i = j
      BY <1>1, <2>3, <3>1 DEF ChainLinked
    <3>5. QED
      BY <3>2, <3>3, <3>4
  <2>7. ASSUME NEW m \in Nodes, memory'[m] = "linked"
        PROVE  \E i \in 1 .. Len(chain') : chain'[i] = m
    <3>1. m # n /\ memory[m] = "linked"
      BY <2>4, <2>7
    <3>2. PICK i \in 1 .. Len(chain) : chain[i] = m
      BY <1>1, <3>1 DEF ChainLinked
    <3>3. i # 1
      BY <2>1, <3>1, <3>2
    <3>4. i - 1 \in 1 .. Len(chain') /\ chain'[i - 1] = m
      BY <1>1, <2>3, <3>2, <3>3
    <3>5. QED
      BY <3>4
  <2>8. head' = IF chain' = <<>> THEN Null ELSE chain'[1]
    <3>1. chain' \in Seq(Nodes)
      BY <1>1, <2>1, <2>2
    <3>2. chain' = <<>> <=> Len(chain') = 0
      BY <3>1
    <3>3. QED
      BY <1>1, <2>1, <2>2, <2>3, <3>2
  <2>9. QED
    BY <2>6, <2>7, <2>8 DEF ChainLinked
<1>8. ASSUME NEW t \in Threads, PopRetire(t) PROVE ChainLinked'
  <2>1. seen[t] \in Nodes /\ memory[seen[t]] = "cut"
    BY <1>8 DEF PopRetire, Goto, Inv, OwnNodes
  <2>2. QED
    BY <1>1, <1>3, <1>8, <2>1 DEF PopRetire, TypeOK
<1>9. ASSUME NEW n \in Nodes, Reclaim(n) PROVE ChainLinked'
  BY <1>1, <1>3, <1>9 DEF Reclaim, TypeOK
<1>10. QED
  BY <1>2, <1>4, <1>5, <1>6, <1>7, <1>8, <1>9 DEF Next, Call, Work, vars, PopCall, ListCall, PushRetry,
     PushSize, PushCount, PopLoad, PopRead, PopRetry, PopCount, ListLoad, ListWalk, ListReturn

\* Each push works on a node of its own and each pop retires a node of its own: the
\* allocator hands out free addresses, and one exchange only takes a node off.
LEMMA OwnStep == Inv /\ [Next]_vars => OwnNodes'
<1> SUFFICES ASSUME Inv, [Next]_vars PROVE OwnNodes'
  OBVIOUS
<1> USE DEF heap, Goto
<1>1. /\ OwnNodes /\ pc \in [Threads -> PushPc \cup PopPc \cup {"idle", "panicked", "listLoad", "listWalk"}]
      /\ node \in [Threads -> Nodes \cup {Null}] /\ seen \in [Threads -> Nodes \cup {Null}]
      /\ memory \in [Nodes -> {"free", "owned", "linked", "cut", "retired"}]
      /\ value \in [Nodes -> Nat] /\ next \in [Nodes -> Nodes \cup {Null}]
  BY DEF Inv, TypeOK
<1>2. CASE UNCHANGED <<pc, node, seen, value, next, memory>>
  BY <1>1, <1>2 DEF OwnNodes, Pushing
<1>3. ASSUME NEW t \in Threads, NEW label, label \notin {"pushLoad", "pushCas", "popRetire"},
             pc' = [pc EXCEPT ![t] = label], \A u \in Threads \ {t} : seen'[u] = seen[u],
             UNCHANGED <<node, value, next, memory>>
      PROVE  OwnNodes'
  BY <1>1, <1>3 DEF OwnNodes, Pushing
<1>4. ASSUME NEW t \in Threads, PushCall(t) PROVE OwnNodes'
  <2>1. CASE Goto(t, "idle", "panicked") /\ UNCHANGED <<heap, node>>
    BY <1>3, <1>4, <2>1 DEF PushCall
  <2>2. ASSUME NEW n \in Nodes, memory[n] = "free", Goto(t, "idle", "pushLoad"),
               memory' = [memory EXCEPT ![n] = "owned"],
               value' = [value EXCEPT ![n] = calls.push + 1],
               next' = [next EXCEPT ![n] = Null], node' = [node EXCEPT ![t] = n]
        PROVE  OwnNodes'
    <3>1. calls.push + 1 \in 1 .. MaxPushes
      <4>1. calls.push \in 0 .. MaxPushes
        BY DEF Inv, TypeOK
      <4>2. calls.push < MaxPushes
        BY <1>4 DEF PushCall
      <4>3. QED
        BY <4>1, <4>2, BoundsAssumption
    <3>2. seen' = seen
      BY <1>4 DEF PushCall
    <3>3. \A u \in Threads \ {t} : /\ pc'[u] = pc[u] /\ node'[u] = node[u]
                                   /\ Pushing(u) => node[u] # n
                                   /\ pc[u] = "popRetire" => seen[u] # n
      BY <1>1, <2>2 DEF OwnNodes
    <3>4. pc'[t] = "pushLoad" /\ node'[t] = n /\ value'[n] \in 1 .. MaxPushes /\ memory'[n] = "owned"
      BY <1>1, <2>2, <3>1
    <3>5. \A m \in Nodes \ {n} : value'[m] = value[m] /\ next'[m] = next[m] /\ memory'[m] = memory[m]
      BY <1>1, <2>2
    <3>6. QED
      BY <1>1, <3>2, <3>3, <3>4, <3>5 DEF OwnNodes, Pushing
  <2>3. QED
    BY <1>4, <2>1, <2>2 DEF PushCall
<1>5. ASSUME NEW t \in Threads, PushLoad(t) PROVE OwnNodes'
  <2>1. node[t] \in Nodes /\ memory[node[t]] = "owned"
    BY <1>1, <1>5 DEF PushLoad, OwnNodes, Pushing
  <2>2. /\ pc[t] = "pushLoad" /\ pc' = [pc EXCEPT ![t] = "pushCas"]
        /\ seen' = [seen EXCEPT ![t] = head] /\ next' = [next EXCEPT ![node[t]] = head]
        /\ UNCHANGED <<node, value, memory>>
    BY <1>5 DEF PushLoad
  <2>3. \A u \in Threads \ {t} : /\ pc'[u] = pc[u] /\ seen'[u] = seen[u]
                                 /\ Pushing(u) => next'[node[u]] = next[node[u]]
    BY <1>1, <2>1, <2>2 DEF OwnNodes, Pushing
  <2>4. pc'[t] = "pushCas" /\ seen'[t] = head /\ next'[node[t]] = head /\ Pushing(t)
    BY <1>1, <2>1, <2>2 DEF Pushing
  <2>5. QED
    BY <1>1, <2>2, <2>3, <2>4 DEF OwnNodes, Pushing
<1>6. ASSUME NEW t \in Threads, PushCas(t) PROVE OwnNodes'
  <2>1. node[t] \in Nodes /\ memory[node[t]] = "owned" /\ pc[t] = "pushCas"
    BY <1>1, <1>6 DEF PushCas, OwnNodes, Pushing
  <2>2. /\ pc' = [pc EXCEPT ![t] = "pushSize"]
        /\ memory' = [memory EXCEPT ![node[t]] = "linked"]
        /\ UNCHANGED <<node, seen, value, next>>
    BY <1>6 DEF PushCas, locals
  <2>3. \A u \in Threads \ {t} : /\ pc'[u] = pc[u]
                                 /\ Pushing(u) => memory'[node[u]] = memory[node[u]]
                                 /\ pc[u] = "popRetire" => memory'[seen[u]] = memory[seen[u]]
    BY <1>1, <2>1, <2>2 DEF OwnNodes, Pushing
  <2>4. pc'[t] = "pushSize"
    BY <1>1, <2>2
  <2>5. QED
    BY <1>1, <2>2, <2>3, <2>4 DEF OwnNodes, Pushing
<1>7. ASSUME NEW t \in Threads, PushRetry(t) PROVE OwnNodes'
  BY <1>1, <1>7 DEF PushRetry, locals, OwnNodes, Pushing
<1>8. ASSUME NEW t \in Threads, PopCas(t) PROVE OwnNodes'
  <2>1. seen[t] \in Nodes /\ memory[seen[t]] = "linked"
    BY <1>8, PopOfTop
  <2>2. /\ pc' = [pc EXCEPT ![t] = "popRetire"]
        /\ memory' = [memory EXCEPT ![seen[t]] = "cut"]
        /\ UNCHANGED <<node, seen, value, next>>
    BY <1>8 DEF PopCas, locals
  <2>3. \A u \in Threads \ {t} : /\ pc'[u] = pc[u]
                                 /\ Pushing(u) => memory'[node[u]] = memory[node[u]]
                                 /\ pc[u] = "popRetire" => /\ memory'[seen[u]] = memory[seen[u]]
                                                           /\ seen[u] # seen[t]
    BY <1>1, <2>1, <2>2 DEF OwnNodes, Pushing
  <2>4. pc'[t] = "popRetire" /\ memory'[seen[t]] = "cut"
    BY <1>1, <2>1, <2>2
  <2>5. QED
    BY <1>1, <2>1, <2>2, <2>3, <2>4 DEF OwnNodes, Pushing
<1>9. ASSUME NEW t \in Threads, PopRetire(t) PROVE OwnNodes'
  <2>1. seen[t] \in Nodes /\ memory[seen[t]] = "cut" /\ pc[t] = "popRetire"
    BY <1>1, <1>9 DEF PopRetire, OwnNodes
  <2>2. /\ pc' = [pc EXCEPT ![t] = "popCount"]
        /\ memory' = [memory EXCEPT ![seen[t]] = "retired"]
        /\ UNCHANGED <<node, seen, value, next>>
    BY <1>9 DEF PopRetire, locals
  <2>3. \A u \in Threads \ {t} : /\ pc'[u] = pc[u]
                                 /\ Pushing(u) => memory'[node[u]] = memory[node[u]]
                                 /\ pc[u] = "popRetire" => memory'[seen[u]] = memory[seen[u]]
    BY <1>1, <2>1, <2>2 DEF OwnNodes, Pushing
  <2>4. pc'[t] = "popCount"
    BY <1>1, <2>2
  <2>5. QED
    BY <1>1, <2>2, <2>3, <2>4 DEF OwnNodes, Pushing
<1>10. ASSUME NEW n \in Nodes, Reclaim(n) PROVE OwnNodes'
  BY <1>1, <1>10 DEF Reclaim, locals, OwnNodes, Pushing
<1>11. ASSUME NEW t \in Threads, \/ PopCall(t) \/ ListCall(t) \/ PushSize(t) \/ PushCount(t)
                                 \/ PopRead(t) \/ PopRetry(t) \/ PopCount(t) \/ ListReturn(t)
       PROVE  OwnNodes'
  BY <1>3, <1>11 DEF PopCall, ListCall, PushSize, PushCount, PopRead, PopRetry, PopCount, ListReturn,
     Return, locals
<1>12. ASSUME NEW t \in Threads, PopLoad(t) \/ ListLoad(t) \/ ListWalk(t) PROVE OwnNodes'
  <2>1. \A u \in Threads \ {t} : seen'[u] = seen[u]
    BY <1>1, <1>12 DEF PopLoad, ListLoad, ListWalk
  <2>2. QED
    BY <1>3, <1>12, <2>1 DEF PopLoad, ListLoad, ListWalk
<1>13. QED
  BY <1>2, <1>4, <1>5, <1>6, <1>7, <1>8, <1>9, <1>10, <1>11, <1>12 DEF Next, Call, Work, vars, locals

\* What a pop has loaded stays what it was until its exchange: its guard keeps the
\* node, and nobody writes a node that has been published.
LEMMA GuardStep == Inv /\ [Next]_vars => Guarded'
<1> SUFFICES ASSUME Inv, [Next]_vars, NEW u \in Threads, pc'[u] \in {"popRead", "popCas"}
             PROVE  /\ seen'[u] \in Nodes /\ Held(u, seen[u])'
                    /\ pc'[u] = "popCas" => got'[u] = value'[seen'[u]] /\ after'[u] = next'[seen'[u]]
  BY DEF Guarded, Held
<1> USE DEF heap, Goto, locals
<1>1. TypeOK /\ Guarded /\ ChainLinked
  BY DEF Inv
<1>2. ASSUME pc'[u] = pc[u], seen'[u] = seen[u], got'[u] = got[u], after'[u] = after[u]
      PROVE  /\ seen'[u] \in Nodes /\ Held(u, seen[u])'
             /\ pc'[u] = "popCas" => got'[u] = value'[seen'[u]] /\ after'[u] = next'[seen'[u]]
  <2>1. /\ seen[u] \in Nodes /\ Held(u, seen[u])
        /\ pc[u] = "popCas" => got[u] = value[seen[u]] /\ after[u] = next[seen[u]]
    BY <1>1, <1>2 DEF Guarded
  <2>2. Keeps(u)
    BY <1>2, HeldKept DEF Pinned
  <2>3. PICK n \in Nodes : n = seen[u]
    BY <2>1
  <2>4. Held(u, n) /\ n = seen'[u]
    BY <1>2, <2>1, <2>3
  <2>5. /\ \/ memory'[n] \in {"linked", "cut"}
           \/ memory'[n] = "retired" /\ u \in holders'[n]
        /\ value'[n] = value[n] /\ next'[n] = next[n]
    BY <2>2, <2>3, <2>4 DEF Keeps, Held
  <2>6. Held(u, seen[u])'
    BY <2>4, <2>5 DEF Held
  <2>7. QED
    BY <1>2, <2>1, <2>3, <2>4, <2>5, <2>6
<1>3. CASE PopLoad(u)
  <2>1. head # Null /\ seen'[u] = head /\ pc'[u] = "popRead" /\ UNCHANGED heap
    BY <1>1, <1>3 DEF PopLoad, TypeOK
  <2>2. head \in Nodes /\ memory[head] = "linked"
    <3>1. chain # <<>> /\ head = chain[1]
      BY <1>1, <2>1 DEF ChainLinked
    <3>2. 1 \in 1 .. Len(chain)
      BY <1>1, <3>1 DEF TypeOK
    <3>3. QED
      BY <1>1, <3>1, <3>2 DEF ChainLinked, TypeOK
  <2>3. QED
    BY <2>1, <2>2 DEF Held
<1>4. CASE PopRead(u)
  <2>1. seen[u] \in Nodes /\ Held(u, seen[u]) /\ pc'[u] = "popCas"
    BY <1>1, <1>4 DEF PopRead, Guarded, TypeOK
  <2>2. /\ seen' = seen /\ UNCHANGED heap /\ got'[u] = value[seen[u]] /\ after'[u] = next[seen[u]]
    BY <1>1, <1>4 DEF PopRead, TypeOK
  <2>3. QED
    BY <2>1, <2>2 DEF Held
<1>5. ASSUME NEW t \in Threads, Call(t) PROVE pc'[u] = pc[u] /\ seen'[u] = seen[u] /\ got'[u] = got[u] /\ after'[u] = after[u]
  BY <1>1, <1>5 DEF Call, PushCall, PopCall, ListCall, TypeOK
<1>6. ASSUME NEW t \in Threads, Work(t), ~PopLoad(u), ~PopRead(u)
      PROVE  pc'[u] = pc[u] /\ seen'[u] = seen[u] /\ got'[u] = got[u] /\ after'[u] = after[u]
  <2>1. CASE t # u
    BY <1>1, <1>6, <2>1 DEF Work, PushLoad, PushCas, PushRetry, PushSize, PushCount, PopLoad, PopRead,
       PopCas, PopRetry, PopRetire, PopCount, ListLoad, ListWalk, ListReturn, Return, TypeOK
  <2>2. CASE t = u
    BY <1>1, <1>6, <2>2 DEF Work, PushLoad, PushCas, PushRetry, PushSize, PushCount,
       PopCas, PopRetry, PopRetire, PopCount, ListLoad, ListWalk, ListReturn, Return, TypeOK
  <2>3. QED
    BY <2>1, <2>2
<1>7. ASSUME NEW n \in Nodes, Reclaim(n) PROVE UNCHANGED <<pc, seen, got, after>>
  BY <1>7 DEF Reclaim
<1>8. QED
  BY <1>2, <1>3, <1>4, <1>5, <1>6, <1>7 DEF Next, vars

-----------------------------------------------------------------------------
(* get_contents.                                                             *)

\* The values of a list of nodes, and of what is left behind its first node.
LEMMA ValuesFacts ==
    ASSUME TypeOK, NEW p \in Seq(Nodes)
    PROVE  /\ Values(p) \in Seq(Nat) /\ Len(Values(p)) = Len(p)
           /\ \A i \in 1 .. Len(p) : Values(p)[i] = value[p[i]]
           /\ p # <<>> => Values(Tail(p)) = Tail(Values(p))
<1>1. value \in [Nodes -> Nat] /\ Len(p) \in Nat
  BY DEF TypeOK
<1>2. /\ Values(p) \in Seq(Nat) /\ Len(Values(p)) = Len(p)
      /\ \A i \in 1 .. Len(p) : Values(p)[i] = value[p[i]]
  BY <1>1 DEF Values
<1>3. ASSUME p # <<>> PROVE Values(Tail(p)) = Tail(Values(p))
  <2>1. Tail(p) \in Seq(Nodes) /\ Len(Tail(p)) = Len(p) - 1 /\ Len(p) > 0
    BY <1>3
  <2>2. \A i \in 1 .. Len(p) - 1 : Tail(p)[i] = p[i + 1] /\ i + 1 \in 1 .. Len(p)
    BY <1>1, <1>3, <2>1
  <2>3. Values(p) # <<>> /\ Len(Tail(Values(p))) = Len(p) - 1 /\ Tail(Values(p)) \in Seq(Nat)
    BY <1>2, <2>1
  <2>4. \A i \in 1 .. Len(p) - 1 : Tail(Values(p))[i] = value[p[i + 1]]
    BY <1>1, <1>2, <2>1, <2>2, <2>3
  <2>5. Values(Tail(p)) \in Seq(Nat) /\ Len(Values(Tail(p))) = Len(p) - 1
    BY <1>1, <2>1 DEF Values
  <2>6. \A i \in 1 .. Len(p) - 1 : Values(Tail(p))[i] = value[p[i + 1]]
    BY <1>1, <2>1, <2>2 DEF Values
  <2>7. QED
    BY <2>3, <2>4, <2>5, <2>6, SeqEqual
<1>4. QED
  BY <1>2, <1>3

\* Moving the first value of the rest to the end of what is listed.
LEMMA MoveOver ==
    ASSUME NEW s \in Seq(Nat), NEW q \in Seq(Nat), q # <<>>
    PROVE  Append(s, q[1]) \o Tail(q) = s \o q
<1>1. q[1] \in Nat /\ Tail(q) \in Seq(Nat) /\ Len(q) \in Nat /\ Len(q) > 0 /\ Len(Tail(q)) = Len(q) - 1
  OBVIOUS
<1>2. /\ Append(s, q[1]) \o Tail(q) \in Seq(Nat) /\ s \o q \in Seq(Nat)
      /\ Len(Append(s, q[1]) \o Tail(q)) = Len(s) + Len(q) /\ Len(s \o q) = Len(s) + Len(q)
  BY <1>1
<1>3. ASSUME NEW i \in 1 .. Len(s) + Len(q) PROVE (Append(s, q[1]) \o Tail(q))[i] = (s \o q)[i]
  BY <1>1
<1>4. QED
  BY <1>2, <1>3, SeqEqual

\* While get_contents walks, the nodes before it stay held and chained, whatever is
\* pushed and popped: its list and what is left make up the stack it started from.
LEMMA WalkStep == Inv /\ [Next]_vars => Walks'
<1> SUFFICES ASSUME Inv, [Next]_vars, NEW u \in Threads, pc'[u] = "listWalk"
             PROVE  \E p \in Seq(Nodes) : Trail(u, p)'
  BY DEF Walks, Trail, Held, Values
<1> USE DEF heap, Goto, locals
<1>1. TypeOK /\ Walks /\ ChainLinked
  BY DEF Inv
<1>2. ASSUME pc[u] = "listWalk", seen'[u] = seen[u], listed'[u] = listed[u], atLoad'[u] = atLoad[u]
      PROVE  \E p \in Seq(Nodes) : Trail(u, p)'
  <2>1. PICK p \in Seq(Nodes) : Trail(u, p)
    BY <1>1, <1>2 DEF Walks
  <2>2. Keeps(u)
    BY <1>2, HeldKept DEF Pinned
  <2>3. \A i \in 1 .. Len(p) : /\ Held(u, p[i])' /\ value'[p[i]] = value[p[i]]
                               /\ next'[p[i]] = IF i = Len(p) THEN Null ELSE p[i + 1]
    BY <2>1, <2>2 DEF Keeps, Trail
  <2>4. Values(p)' = Values(p)
    BY <2>3 DEF Values
  <2>5. Trail(u, p)'
    BY <1>2, <2>1, <2>3, <2>4 DEF Trail
  <2>6. QED
    BY <2>5
<1>3. CASE ListLoad(u)
  <2>1. /\ seen'[u] = head /\ listed'[u] = <<>> /\ atLoad'[u] = Content
        /\ UNCHANGED heap /\ chain' = chain
    BY <1>1, <1>3 DEF ListLoad, TypeOK
  <2>2. chain \in Seq(Nodes)
    BY <1>1 DEF TypeOK
  <2>3. Values(chain)' = Values(chain) /\ Content = Values(chain)
    BY <2>1 DEF Values, Content
  <2>4. <<>> \o Values(chain) = Values(chain)
    BY <1>1, <2>2, ValuesFacts
  <2>5. \A i \in 1 .. Len(chain) : /\ memory'[chain[i]] = "linked"
                                   /\ next'[chain[i]] = IF i = Len(chain) THEN Null ELSE chain[i + 1]
    BY <1>1, <2>1 DEF ChainLinked
  <2>6. seen'[u] = IF chain = <<>> THEN Null ELSE chain[1]
    BY <1>1, <2>1 DEF ChainLinked
  <2>7. Trail(u, chain)'
    BY <2>1, <2>3, <2>4, <2>5, <2>6 DEF Trail, Held
  <2>8. PICK p \in Seq(Nodes) : p = chain
    BY <2>2
  <2>9. Trail(u, p)'
    BY <2>1, <2>7, <2>8 DEF Trail, Held, Values
  <2>10. QED
    BY <2>9
<1>4. CASE ListWalk(u)
  <2>1. /\ seen[u] # Null /\ pc[u] = "listWalk" /\ UNCHANGED heap /\ atLoad' = atLoad
        /\ seen'[u] = next[seen[u]] /\ listed'[u] = Append(listed[u], value[seen[u]])
    BY <1>1, <1>4 DEF ListWalk, TypeOK
  <2>2. PICK p \in Seq(Nodes) : Trail(u, p)
    BY <1>1, <2>1 DEF Walks
  <2>3. p # <<>> /\ seen[u] = p[1] /\ Len(p) \in Nat /\ Len(p) > 0
    BY <2>1, <2>2 DEF Trail
  <2>4. PICK q \in Seq(Nodes) : q = Tail(p)
    <3>1. Tail(p) \in Seq(Nodes)
      BY <2>2, <2>3
    <3>2. QED
      BY <3>1, Zenon
  <2>5. Len(q) = Len(p) - 1 /\ \A i \in 1 .. Len(q) : q[i] = p[i + 1] /\ i + 1 \in 1 .. Len(p)
    BY <2>2, <2>3, <2>4
  <2>6. \A i \in 1 .. Len(q) : /\ Held(u, q[i])
                               /\ next[q[i]] = IF i = Len(q) THEN Null ELSE q[i + 1]
    <3> SUFFICES ASSUME NEW i \in 1 .. Len(q)
                 PROVE  /\ Held(u, q[i])
                        /\ next[q[i]] = IF i = Len(q) THEN Null ELSE q[i + 1]
      OBVIOUS
    <3>1. i + 1 \in 1 .. Len(p) /\ q[i] = p[i + 1] /\ i \in Nat /\ Len(q) \in Nat
      BY <2>4, <2>5
    <3>2. \A j \in 1 .. Len(p) : /\ Held(u, p[j])
                                 /\ next[p[j]] = IF j = Len(p) THEN Null ELSE p[j + 1]
      BY <2>2 DEF Trail
    <3>3. /\ Held(u, p[i + 1])
          /\ next[p[i + 1]] = IF i + 1 = Len(p) THEN Null ELSE p[(i + 1) + 1]
      BY <3>1, <3>2, Zenon
    <3>4. i # Len(q) => q[i + 1] = p[(i + 1) + 1]
      BY <2>5, <3>1
    <3>5. i + 1 = Len(p) <=> i = Len(q)
      BY <2>3, <2>5, <3>1
    <3>6. QED
      BY <3>1, <3>3, <3>4, <3>5
  <2>7. seen'[u] = IF q = <<>> THEN Null ELSE q[1]
    <3>1. next[p[1]] = IF Len(p) = 1 THEN Null ELSE p[2]
      <4>1. \A i \in 1 .. Len(p) : next[p[i]] = IF i = Len(p) THEN Null ELSE p[i + 1]
        BY <2>2 DEF Trail
      <4>2. 1 \in 1 .. Len(p)
        BY <2>3
      <4>3. next[p[1]] = IF 1 = Len(p) THEN Null ELSE p[1 + 1]
        BY <4>1, <4>2, Zenon
      <4>4. 1 + 1 = 2
        OBVIOUS
      <4>5. QED
        BY <2>3, <4>3, <4>4
    <3>2. q = <<>> <=> Len(q) = 0
      <4>1. \A s \in Seq(Nodes) : s = <<>> <=> Len(s) = 0
        OBVIOUS
      <4>2. QED
        BY <2>4, <4>1, Zenon
    <3>3. QED
      BY <2>1, <2>3, <2>5, <3>1, <3>2
  <2>8. atLoad[u] = listed'[u] \o Values(q)
    <3>1. /\ Values(p) \in Seq(Nat) /\ Values(p) # <<>> /\ Values(p)[1] = value[p[1]]
          /\ Values(q) = Tail(Values(p))
      BY <1>1, <2>3, <2>4, ValuesFacts
    <3>2. listed[u] \in Seq(Nat)
      BY <1>1 DEF TypeOK
    <3>3. Append(listed[u], Values(p)[1]) \o Tail(Values(p)) = listed[u] \o Values(p)
      BY <3>1, <3>2, MoveOver
    <3>4. QED
      BY <2>1, <2>2, <2>3, <3>1, <3>3 DEF Trail
  <2>9. Values(q)' = Values(q)
    BY <2>1 DEF Values
  <2>10. Trail(u, q)'
    BY <2>1, <2>6, <2>7, <2>8, <2>9 DEF Trail, Held
  <2>11. QED
    BY <2>10
<1>5. ASSUME NEW t \in Threads, Call(t)
      PROVE  pc[u] = "listWalk" /\ seen'[u] = seen[u] /\ listed'[u] = listed[u] /\ atLoad'[u] = atLoad[u]
  BY <1>1, <1>5 DEF Call, PushCall, PopCall, ListCall, TypeOK
<1>6. ASSUME NEW t \in Threads, Work(t), ~ListLoad(u), ~ListWalk(u)
      PROVE  pc[u] = "listWalk" /\ seen'[u] = seen[u] /\ listed'[u] = listed[u] /\ atLoad'[u] = atLoad[u]
  <2>1. CASE t # u
    BY <1>1, <1>6, <2>1 DEF Work, PushLoad, PushCas, PushRetry, PushSize, PushCount, PopLoad, PopRead,
       PopCas, PopRetry, PopRetire, PopCount, ListLoad, ListWalk, ListReturn, Return, TypeOK
  <2>2. CASE t = u
    BY <1>1, <1>6, <2>2 DEF Work, PushLoad, PushCas, PushRetry, PushSize, PushCount, PopLoad, PopRead,
       PopCas, PopRetry, PopRetire, PopCount, ListReturn, Return, TypeOK
  <2>3. QED
    BY <2>1, <2>2
<1>7. ASSUME NEW n \in Nodes, Reclaim(n) PROVE UNCHANGED <<pc, seen, listed, atLoad>>
  BY <1>7 DEF Reclaim
<1>8. QED
  BY <1>2, <1>3, <1>4, <1>5, <1>6, <1>7 DEF Next, vars

-----------------------------------------------------------------------------
\* The inductive invariant: the stack is chained, nodes under way are owned, and
\* what a thread reads is held for it.
THEOREM Invariant == Spec => []Inv
<1>1. Init => Inv
  <2> SUFFICES ASSUME Init PROVE Inv
    OBVIOUS
  <2>1. TypeOK
    BY BoundsAssumption DEF Init, TypeOK, PushPc, PopPc
  <2>2. ChainLinked /\ OwnNodes /\ Guarded /\ Walks
    BY DEF Init, ChainLinked, OwnNodes, Pushing, Guarded, Walks
  <2>3. QED
    BY <2>1, <2>2 DEF Inv
<1>2. Inv /\ [Next]_vars => Inv'
  BY TypeStep, ChainStep, OwnStep, GuardStep, WalkStep DEF Inv
<1>3. QED
  BY <1>1, <1>2, PTL DEF Spec

\* No thread dereferences a freed node: pop and get_contents read what they loaded
\* only while their guard keeps it.
THEOREM NothingFreedInUse == Spec => []NoUseAfterFree
<1>1. Inv => NoUseAfterFree
  <2> SUFFICES ASSUME Inv, NEW t \in Threads,
                      pc[t] \in {"popRead", "popCas", "popRetire", "listWalk"}, seen[t] # Null
               PROVE  memory[seen[t]] \in {"linked", "cut", "retired"}
    BY DEF NoUseAfterFree
  <2>1. CASE pc[t] \in {"popRead", "popCas"}
    BY <2>1 DEF Inv, Guarded, Held
  <2>2. CASE pc[t] = "popRetire"
    BY <2>2 DEF Inv, OwnNodes
  <2>3. CASE pc[t] = "listWalk"
    <3>1. PICK p \in Seq(Nodes) : Trail(t, p)
      BY <2>3 DEF Inv, Walks
    <3>2. p # <<>> /\ seen[t] = p[1] /\ 1 \in 1 .. Len(p)
      BY <3>1 DEF Trail
    <3>3. QED
      BY <3>1, <3>2 DEF Trail, Held
  <2>4. QED
    BY <2>1, <2>2, <2>3
<1>2. QED
  BY <1>1, Invariant, PTL

\* get_contents answers the stack as it was when it loaded head.
THEOREM ListsAreSnapshots == Spec => []ListIsSnapshot
<1>1. Inv => ListIsSnapshot
  <2> SUFFICES ASSUME Inv, NEW t \in Threads, pc[t] = "listWalk", seen[t] = Null
               PROVE  listed[t] = atLoad[t]
    BY DEF ListIsSnapshot
  <2>1. PICK p \in Seq(Nodes) : Trail(t, p)
    BY DEF Inv, Walks
  <2>2. p = <<>>
    <3>1. p # <<>> => p[1] \in Nodes
      OBVIOUS
    <3>2. QED
      BY <2>1, <3>1, NullAssumption DEF Trail
  <2>3. Values(p) = <<>>
    BY <2>2 DEF Values
  <2>4. listed[t] \in Seq(Nat)
    BY DEF Inv, TypeOK
  <2>5. QED
    BY <2>1, <2>3, <2>4 DEF Trail
<1>2. QED
  BY <1>1, Invariant, PTL

-----------------------------------------------------------------------------
(* The size counter.                                                         *)

\* Quotient and remainder of a wrapping counter.
LEMMA DivMod ==
    ASSUME NEW x \in Int, NEW m \in Int, m > 0
    PROVE  (x % m) + m * (x \div m) = x /\ x \div m \in Int /\ x % m \in 0 .. m - 1
BY Z3

\* The remainder of a division is unique.
LEMMA SameRest ==
    ASSUME NEW m \in Int, m > 0, NEW q \in Int, NEW k \in Int,
           NEW r \in 0 .. m - 1, NEW s \in 0 .. m - 1, m * q + r = m * k + s
    PROVE  r = s
BY SMTT(30)

\* A counter that wraps at every addition shows the sum, wrapped once.
LEMMA WrapOnce ==
    ASSUME NEW x \in Int, NEW d \in Int, NEW m \in Int, m > 0
    PROVE  ((x % m) + d) % m = (x + d) % m
<1> DEFINE r == x % m
           q == x \div m
           s == (r + d) % m
           k == (r + d) \div m
           u == (x + d) % m
           j == (x + d) \div m
<1>1. r + m * q = x /\ q \in Int /\ r \in Int
  BY DivMod
<1>2. s + m * k = r + d /\ k \in Int /\ s \in 0 .. m - 1
  BY <1>1, DivMod
<1>3. u + m * j = x + d /\ j \in Int /\ u \in 0 .. m - 1
  BY DivMod
<1> HIDE DEF r, q, s, k, u, j
<1>4. m * (k + q) = m * k + m * q /\ k + q \in Int
  BY <1>1, <1>2
<1>5. m * (k + q) + s = m * j + u
  BY <1>1, <1>2, <1>3, <1>4
<1>6. s = u
  BY <1>2, <1>3, <1>4, <1>5, SameRest
<1>7. QED
  BY <1>6 DEF s, u, r

\* The threads at a step of the code.
Those(label) == {t \in Threads : pc[t] = label}

\* At any time finitely many threads are between an exchange and its counter, and
\* the counter is behind by just these.
CountInv ==
    /\ IsFiniteSet(Those("pushSize")) /\ IsFiniteSet(Those("popRetire"))
    /\ CountersExact

\* A thread that goes on from one step to another.
LEMMA Moves ==
    ASSUME TypeOK, NEW t \in Threads, NEW from, NEW to, Goto(t, from, to),
           NEW label, IsFiniteSet(Those(label))
    PROVE  /\ IsFiniteSet(Those(label)') /\ At(label) \in Nat
           /\ from # label /\ to # label => At(label)' = At(label)
           /\ from # label /\ to = label => At(label)' = At(label) + 1
           /\ from = label /\ to # label => At(label)' = At(label) - 1
<1>1. /\ At(label) = Cardinality(Those(label)) /\ At(label)' = Cardinality(Those(label)')
      /\ At(label) \in Nat
  BY FS_CardinalityType DEF At, Those
<1>2. pc[t] = from /\ pc'[t] = to /\ \A u \in Threads \ {t} : pc'[u] = pc[u]
  BY DEF Goto, TypeOK
<1>3. CASE to = label
  <2>1. Those(label)' = Those(label) \cup {t}
    BY <1>2, <1>3 DEF Those
  <2>2. t \in Those(label) <=> from = label
    BY <1>2 DEF Those
  <2>3. QED
    BY <1>1, <1>3, <2>1, <2>2, FS_AddElement
<1>4. CASE to # label /\ from = label
  <2>1. Those(label)' = Those(label) \ {t} /\ t \in Those(label)
    BY <1>2, <1>4 DEF Those
  <2>2. QED
    BY <1>1, <1>4, <2>1, FS_RemoveElement
<1>5. CASE to # label /\ from # label
  <2>1. Those(label)' = Those(label)
    BY <1>2, <1>5 DEF Those
  <2>2. QED
    BY <1>1, <1>5, <2>1
<1>6. QED
  BY <1>3, <1>4, <1>5

\* size keeps counting right in every step of push and pop, and wraps right too.
LEMMA CountStep == Inv /\ CountInv /\ [Next]_vars => CountInv'
<1> SUFFICES ASSUME Inv, CountInv, [Next]_vars PROVE CountInv'
  OBVIOUS
<1> USE DEF locals
<1> DEFINE PS == At("pushSize")
           PR == At("popRetire")
           E == Len(chain) - PS + PR
           Finite == IsFiniteSet(Those("pushSize")') /\ IsFiniteSet(Those("popRetire")')
<1>1. /\ TypeOK /\ chain \in Seq(Nodes) /\ Len(chain) \in Nat
      /\ IsFiniteSet(Those("pushSize")) /\ IsFiniteSet(Those("popRetire"))
      /\ size = E % SizeModulus
  BY DEF Inv, TypeOK, CountInv, CountersExact
<1>2. PS \in Nat /\ PR \in Nat /\ SizeModulus \in Int /\ SizeModulus > 0
  BY <1>1, FS_CardinalityType, BoundsAssumption DEF At, Those
<1>3. E \in Int
  BY <1>1, <1>2
<1>4. ASSUME Finite, size' = E' % SizeModulus PROVE CountInv'
  BY <1>4 DEF CountInv, CountersExact
<1>5. ASSUME Finite, PS' = PS, PR' = PR, UNCHANGED <<chain, size>> PROVE CountInv'
  BY <1>1, <1>5 DEF CountInv, CountersExact
<1> HIDE DEF PS, PR
<1>6. ASSUME UNCHANGED <<pc, chain, size>> PROVE CountInv'
  BY <1>6 DEF CountInv, CountersExact, At, Those
<1>7. ASSUME NEW t \in Threads, NEW from, NEW to, Goto(t, from, to), UNCHANGED <<chain, size>>,
             from \notin {"pushSize", "popRetire"}, to \notin {"pushSize", "popRetire"}
      PROVE  CountInv'
  BY <1>1, <1>5, <1>7, Moves DEF PS, PR
<1>8. ASSUME NEW t \in Threads, PushCas(t) PROVE CountInv'
  <2>1. Finite /\ PS' = PS + 1 /\ PR' = PR
    BY <1>1, <1>8, Moves DEF PushCas, PS, PR
  <2>2. node[t] \in Nodes
    BY <1>8 DEF PushCas, Goto, Inv, OwnNodes, Pushing
  <2>3. Len(chain') = Len(chain) + 1 /\ size' = size
    BY <1>1, <1>8, <2>2 DEF PushCas, counters
  <2>4. E' = E
    BY <1>1, <1>2, <2>1, <2>3
  <2>5. QED
    BY <1>1, <1>4, <2>1, <2>3, <2>4
<1>9. ASSUME NEW t \in Threads, PushSize(t) PROVE CountInv'
  <2>1. Finite /\ PS' = PS - 1 /\ PR' = PR
    BY <1>1, <1>9, Moves DEF PushSize, PS, PR
  <2>2. chain' = chain /\ size' = (size + 1) % SizeModulus
    BY <1>9 DEF PushSize
  <2>3. E' = E + 1
    BY <1>1, <1>2, <2>1, <2>2
  <2>4. ((E % SizeModulus) + 1) % SizeModulus = (E + 1) % SizeModulus
    BY <1>2, <1>3, WrapOnce
  <2>5. QED
    BY <1>1, <1>4, <2>1, <2>2, <2>3, <2>4
<1>10. ASSUME NEW t \in Threads, PopCas(t) PROVE CountInv'
  <2>1. Finite /\ PS' = PS /\ PR' = PR + 1
    BY <1>1, <1>10, Moves DEF PopCas, PS, PR
  <2>2. chain # <<>>
    BY <1>10, PopOfTop
  <2>3. Len(chain') = Len(chain) - 1 /\ size' = size
    BY <1>1, <1>10, <2>2 DEF PopCas, counters
  <2>4. E' = E
    BY <1>1, <1>2, <2>1, <2>3
  <2>5. QED
    BY <1>1, <1>4, <2>1, <2>3, <2>4
<1>11. ASSUME NEW t \in Threads, PopRetire(t) PROVE CountInv'
  <2>1. Finite /\ PS' = PS /\ PR' = PR - 1
    BY <1>1, <1>11, Moves DEF PopRetire, PS, PR
  <2>2. chain' = chain /\ size' = (size - 1) % SizeModulus
    BY <1>11 DEF PopRetire
  <2>3. E' = E + (-1) /\ size - 1 = size + (-1)
    BY <1>1, <1>2, <2>1, <2>2 DEF TypeOK
  <2>4. ((E % SizeModulus) + (-1)) % SizeModulus = (E + (-1)) % SizeModulus
    BY <1>2, <1>3, WrapOnce
  <2>5. QED
    BY <1>1, <1>4, <2>1, <2>2, <2>3, <2>4
<1>12. ASSUME NEW t \in Threads, Call(t) PROVE CountInv'
  BY <1>7, <1>12 DEF Call, PushCall, PopCall, ListCall, counters
<1>13. ASSUME NEW t \in Threads, PushLoad(t) \/ PushRetry(t) \/ PushCount(t) PROVE CountInv'
  BY <1>7, <1>13 DEF PushLoad, PushRetry, PushCount, Return, counters
<1>14. ASSUME NEW t \in Threads, PopLoad(t) PROVE CountInv'
  BY <1>7, <1>14 DEF PopLoad, counters
<1>15. ASSUME NEW t \in Threads, PopRead(t) \/ PopRetry(t) \/ PopCount(t) PROVE CountInv'
  BY <1>7, <1>15 DEF PopRead, PopRetry, PopCount, Return, counters
<1>16. ASSUME NEW t \in Threads, ListLoad(t) \/ ListWalk(t) \/ ListReturn(t) PROVE CountInv'
  BY <1>7, <1>16 DEF ListLoad, ListWalk, ListReturn, Return, counters
<1>17. ASSUME NEW n \in Nodes, Reclaim(n) PROVE CountInv'
  BY <1>6, <1>17 DEF Reclaim, counters
<1>18. QED
  BY <1>6, <1>8, <1>9, <1>10, <1>11, <1>12, <1>13, <1>14, <1>15, <1>16, <1>17
     DEF Next, Work, vars, counters

\* size is the number of nodes on the stack but for the operations between their
\* exchange and their counter, in either direction and through the wrap at 2^64.
THEOREM SizeCounts == Spec => []CountersExact
<1>1. Init => CountInv
  <2> SUFFICES ASSUME Init PROVE CountInv
    OBVIOUS
  <2>1. Those("pushSize") = {} /\ Those("popRetire") = {}
    BY DEF Init, Those
  <2>2. IsFiniteSet({}) /\ Cardinality({}) = 0
    BY FS_EmptySet
  <2>3. At("pushSize") = 0 /\ At("popRetire") = 0
    BY <2>1, <2>2 DEF At, Those
  <2>4. size = 0 /\ Len(chain) = 0
    BY DEF Init
  <2>5. 0 % SizeModulus = 0
    BY BoundsAssumption
  <2>6. Len(chain) - At("pushSize") + At("popRetire") = 0
    BY <2>3, <2>4
  <2>7. CountersExact
    BY <2>4, <2>5, <2>6 DEF CountersExact
  <2>8. QED
    BY <2>1, <2>2, <2>7 DEF CountInv
<1>2. CountInv => CountersExact
  BY DEF CountInv
<1>3. QED
  BY <1>1, <1>2, CountStep, Invariant, PTL DEF Spec

\* What TreiberStack holds and tells is exact: types, chain, lists and size.
THEOREM ContentIsExact == Spec => []ContentExact
<1>1. Inv /\ ListIsSnapshot /\ CountersExact => ContentExact
  BY DEF Inv, ContentExact
<1>2. QED
  BY <1>1, Invariant, ListsAreSnapshots, SizeCounts, PTL

-----------------------------------------------------------------------------
(* The abstract stack.                                                       *)

\* The operation of each thread, as LifoStack sees it.
Ops == [t \in Threads |-> OpOf(t)]

\* A step of one thread leaves the locals of the others alone.
LEMMA OthersStay ==
    ASSUME TypeOK, NEW t \in Threads, Call(t) \/ Work(t), NEW u \in Threads \ {t}
    PROVE  pc'[u] = pc[u] /\ node'[u] = node[u] /\ got'[u] = got[u] /\ atLoad'[u] = atLoad[u]
<1> USE DEF heap, locals, Goto, Return, TypeOK
<1>1. CASE Call(t)
  <2>1. CASE PushCall(t)
    BY <2>1 DEF PushCall
  <2>2. CASE PopCall(t) \/ ListCall(t)
    BY <2>2 DEF PopCall, ListCall
  <2>3. QED
    BY <1>1, <2>1, <2>2 DEF Call
<1>2. CASE PushLoad(t) \/ PushCas(t) \/ PushRetry(t) \/ PushSize(t) \/ PushCount(t)
  BY <1>2 DEF PushLoad, PushCas, PushRetry, PushSize, PushCount
<1>3. CASE PopLoad(t) \/ PopRead(t) \/ PopCas(t) \/ PopRetry(t) \/ PopRetire(t) \/ PopCount(t)
  BY <1>3 DEF PopLoad, PopRead, PopCas, PopRetry, PopRetire, PopCount
<1>4. CASE ListLoad(t) \/ ListWalk(t) \/ ListReturn(t)
  BY <1>4 DEF ListLoad, ListWalk, ListReturn
<1>5. QED
  BY <1>1, <1>2, <1>3, <1>4 DEF Work

\* Only a new node gets a value: what is pushed, and what is on the stack, stays.
LEMMA ValueKept ==
    ASSUME TypeOK, [Next]_vars, NEW n \in Nodes, memory[n] # "free"
    PROVE  value'[n] = value[n]
BY DEF TypeOK, Next, Call, Work, vars, heap, PushCall, PopCall, ListCall, PushLoad, PushCas, PushRetry,
   PushSize, PushCount, PopLoad, PopRead, PopCas, PopRetry, PopRetire, PopCount, ListLoad, ListWalk,
   ListReturn, Reclaim

\* An operation looks the same while its thread has not moved.
LEMMA OpKept ==
    ASSUME Inv, [Next]_vars, NEW u \in Threads,
           pc'[u] = pc[u], node'[u] = node[u], got'[u] = got[u], atLoad'[u] = atLoad[u]
    PROVE  OpOf(u)' = OpOf(u)
<1>1. Pushing(u) => value'[node[u]] = value[node[u]]
  BY ValueKept DEF Inv, OwnNodes
<1>2. QED
  BY <1>1 DEF OpOf, Pushing

\* So a step of one thread changes at most its own operation.
LEMMA OpChanges ==
    ASSUME Inv, [Next]_vars, NEW t \in Threads, Call(t) \/ Work(t)
    PROVE  Ops' = [Ops EXCEPT ![t] = OpOf(t)']
<1>1. \A u \in Threads \ {t} : OpOf(u)' = OpOf(u)
  BY OthersStay, OpKept DEF Inv
<1>2. QED
  BY <1>1 DEF Ops

\* The contents change by the exchanges alone.
LEMMA ContentKept ==
    ASSUME Inv, [Next]_vars, chain' = chain
    PROVE  Content' = Content
<1>1. \A i \in 1 .. Len(chain) : chain[i] \in Nodes /\ memory[chain[i]] = "linked"
  BY DEF Inv, TypeOK, ChainLinked
<1>2. \A i \in 1 .. Len(chain) : value'[chain[i]] = value[chain[i]]
  BY <1>1, ValueKept DEF Inv
<1>3. QED
  BY <1>2 DEF Content

\* The exchange of a push puts one value on top of the contents.
LEMMA ContentPushed ==
    ASSUME TypeOK, NEW n \in Nodes, chain' = <<n>> \o chain, value' = value
    PROVE  Content' = <<value[n]>> \o Content
<1>1. chain \in Seq(Nodes) /\ Len(chain) \in Nat /\ value \in [Nodes -> Nat]
  BY DEF TypeOK
<1>2. Content \in Seq(Nat) /\ Len(Content) = Len(chain) /\ \A i \in 1 .. Len(chain) : Content[i] = value[chain[i]]
  BY <1>1 DEF Content
<1>3. /\ chain' \in Seq(Nodes) /\ Len(chain') = Len(chain) + 1
      /\ \A i \in 1 .. Len(chain) + 1 : chain'[i] = IF i = 1 THEN n ELSE chain[i - 1]
  BY <1>1
<1>4. /\ Content' \in Seq(Nat) /\ Len(Content') = Len(chain) + 1
      /\ \A i \in 1 .. Len(chain) + 1 : Content'[i] = value[IF i = 1 THEN n ELSE chain[i - 1]]
  BY <1>1, <1>3 DEF Content
<1>5. /\ <<value[n]>> \o Content \in Seq(Nat) /\ Len(<<value[n]>> \o Content) = Len(chain) + 1
      /\ \A i \in 1 .. Len(chain) + 1 :
            (<<value[n]>> \o Content)[i] = IF i = 1 THEN value[n] ELSE Content[i - 1]
  BY <1>1, <1>2
<1>6. ASSUME NEW i \in 1 .. Len(Content') PROVE Content'[i] = (<<value[n]>> \o Content)[i]
  <2>1. i \in 1 .. Len(chain) + 1 /\ (i # 1 => i - 1 \in 1 .. Len(chain))
    BY <1>1, <1>4
  <2>2. QED
    BY <1>2, <1>4, <1>5, <2>1
<1>7. Len(Content') = Len(<<value[n]>> \o Content)
  BY <1>4, <1>5
<1>8. QED
  BY <1>4, <1>5, <1>6, <1>7, SeqEqual

\* The exchange of a pop takes the value on top off the contents, and no other.
LEMMA ContentPopped ==
    ASSUME TypeOK, chain # <<>>, chain' = Tail(chain), value' = value
    PROVE  /\ Content # <<>> /\ Head(Content) = value[chain[1]]
           /\ Content' = Tail(Content)
<1>1. chain \in Seq(Nodes) /\ Content = Values(chain) /\ Content' = Values(Tail(chain))
  BY DEF TypeOK, Content, Values
<1>2. /\ Values(chain) \in Seq(Nat) /\ Len(Values(chain)) = Len(chain)
      /\ \A i \in 1 .. Len(chain) : Values(chain)[i] = value[chain[i]]
      /\ Values(Tail(chain)) = Tail(Values(chain))
  BY <1>1, ValuesFacts
<1>3. Len(chain) \in Nat /\ Len(chain) > 0
  BY <1>1
<1>4. QED
  BY <1>1, <1>2, <1>3

\* Every step is a step of the abstract stack or none: the exchange that succeeds is
\* the instant of a push and of a pop, the load of head that of an empty pop and of
\* get_contents.
LEMMA LinearStep == Inv /\ [Next]_vars => [Lifo!Next]_(Lifo!vars)
<1> SUFFICES ASSUME Inv, [Next]_vars PROVE [Lifo!Next]_(Lifo!vars)
  OBVIOUS
<1> USE DEF Goto, Return, locals
<1>1. /\ TypeOK /\ \A t \in Threads : Ops[t] = OpOf(t)
      /\ pc \in [Threads -> PushPc \cup PopPc \cup {"idle", "panicked", "listLoad", "listWalk"}]
  BY DEF Inv, TypeOK, Ops
<1>2. ASSUME Content' = Content, Ops' = Ops PROVE [Lifo!Next]_(Lifo!vars)
  BY <1>2 DEF Lifo!vars, Ops
<1>3. ASSUME NEW t \in Threads, Call(t) \/ Work(t), chain' = chain, OpOf(t)' = OpOf(t)
      PROVE  [Lifo!Next]_(Lifo!vars)
  <2>1. Ops' = Ops
    BY <1>3, OpChanges DEF Ops
  <2>2. QED
    BY <1>2, <1>3, <2>1, ContentKept
<1>4. ASSUME NEW t \in Threads, \/ Lifo!Call(t) \/ Lifo!Push(t) \/ Lifo!Pop(t)
                                \/ Lifo!List(t) \/ Lifo!Return(t)
      PROVE  [Lifo!Next]_(Lifo!vars)
  BY <1>4 DEF Lifo!Next
<1>5. ASSUME NEW t \in Threads, PushCall(t) PROVE [Lifo!Next]_(Lifo!vars)
  <2>1. chain' = chain /\ Ops' = [Ops EXCEPT ![t] = OpOf(t)'] /\ Content' = Content
    BY <1>5, OpChanges, ContentKept DEF PushCall, Call
  <2>2. CASE pc'[t] = "panicked"
    <3>1. OpOf(t) = Lifo!Quiet /\ OpOf(t)' = Lifo!Quiet
      BY <1>1, <1>5, <2>2 DEF PushCall, OpOf, Lifo!Quiet
    <3>2. QED
      BY <1>3, <1>5, <2>1, <3>1 DEF Call
  <2>3. CASE pc'[t] = "pushLoad"
    <3>1. OpOf(t) = Lifo!Quiet
      BY <1>1, <1>5 DEF PushCall, OpOf, Lifo!Quiet
    <3>2. OwnNodes'
      BY OwnStep
    <3>3. value'[node'[t]] \in 1 .. MaxPushes
      BY <2>3, <3>2 DEF OwnNodes, Pushing
    <3>4. OpOf(t)' = [kind |-> "push", value |-> value'[node'[t]]]
      BY <2>3 DEF OpOf
    <3>5. Lifo!Call(t)
      BY <1>1, <2>1, <3>1, <3>3, <3>4 DEF Lifo!Call, Ops
    <3>6. QED
      BY <1>4, <3>5
  <2>4. QED
    BY <1>1, <1>5, <2>2, <2>3 DEF PushCall
<1>6. ASSUME NEW t \in Threads, PopCall(t) \/ ListCall(t) PROVE [Lifo!Next]_(Lifo!vars)
  <2>1. chain' = chain /\ Ops' = [Ops EXCEPT ![t] = OpOf(t)'] /\ Content' = Content
    BY <1>6, OpChanges, ContentKept DEF PopCall, ListCall, Call
  <2>2. OpOf(t) = Lifo!Quiet
    BY <1>6 DEF PopCall, ListCall, OpOf, Lifo!Quiet
  <2>3. OpOf(t)' = [kind |-> "pop"] \/ OpOf(t)' = [kind |-> "list"]
    BY <1>1, <1>6 DEF PopCall, ListCall, OpOf
  <2>4. Lifo!Call(t)
    BY <1>1, <2>1, <2>2, <2>3 DEF Lifo!Call, Ops
  <2>5. QED
    BY <1>4, <2>4
<1>7. ASSUME NEW t \in Threads, PushLoad(t) \/ PushRetry(t) PROVE [Lifo!Next]_(Lifo!vars)
  <2>1. chain' = chain /\ node'[t] = node[t] /\ value' = value
        /\ pc[t] \in {"pushLoad", "pushCas"} /\ pc'[t] \in {"pushLoad", "pushCas"}
    BY <1>1, <1>7 DEF PushLoad, PushRetry, heap
  <2>2. OpOf(t)' = OpOf(t)
    BY <2>1 DEF OpOf
  <2>3. QED
    BY <1>3, <1>7, <2>1, <2>2 DEF Work
<1>8. ASSUME NEW t \in Threads, PushCas(t) PROVE [Lifo!Next]_(Lifo!vars)
  <2>1. node[t] \in Nodes /\ chain' = <<node[t]>> \o chain /\ value' = value
    BY <1>8 DEF PushCas, Inv, OwnNodes, Pushing
  <2>2. Content' = <<value[node[t]]>> \o Content
    BY <1>1, <2>1, ContentPushed
  <2>3. OpOf(t) = [kind |-> "push", value |-> value[node[t]]] /\ OpOf(t)' = [kind |-> "pushed"]
    BY <1>1, <1>8 DEF PushCas, OpOf
  <2>4. Ops' = [Ops EXCEPT ![t] = OpOf(t)']
    BY <1>8, OpChanges DEF Work
  <2>5. Lifo!Push(t)
    BY <1>1, <2>2, <2>3, <2>4 DEF Lifo!Push, Ops
  <2>6. QED
    BY <1>4, <2>5
<1>9. ASSUME NEW t \in Threads, PushSize(t) PROVE [Lifo!Next]_(Lifo!vars)
  <2>1. chain' = chain /\ OpOf(t)' = OpOf(t)
    BY <1>1, <1>9 DEF PushSize, OpOf
  <2>2. QED
    BY <1>3, <1>9, <2>1 DEF Work
<1>10. ASSUME NEW t \in Threads, PushCount(t) \/ PopCount(t) \/ ListReturn(t) PROVE [Lifo!Next]_(Lifo!vars)
  <2>1. chain' = chain /\ Ops' = [Ops EXCEPT ![t] = OpOf(t)'] /\ Content' = Content
    BY <1>10, OpChanges, ContentKept DEF PushCount, PopCount, ListReturn, Work
  <2>2. OpOf(t).kind \in {"pushed", "popped", "listed"} /\ OpOf(t)' = Lifo!Quiet
    BY <1>1, <1>10 DEF PushCount, PopCount, ListReturn, OpOf, Lifo!Quiet
  <2>3. Lifo!Return(t)
    BY <1>1, <2>1, <2>2 DEF Lifo!Return, Ops
  <2>4. QED
    BY <1>4, <2>3
<1>11. ASSUME NEW t \in Threads, PopLoad(t) PROVE [Lifo!Next]_(Lifo!vars)
  <2>1. chain' = chain /\ Ops' = [Ops EXCEPT ![t] = OpOf(t)'] /\ Content' = Content
    BY <1>11, OpChanges, ContentKept DEF PopLoad, Work
  <2>2. OpOf(t) = [kind |-> "pop"]
    BY <1>11 DEF PopLoad, OpOf
  <2>3. CASE head = Null
    <3>1. chain = <<>>
      BY <1>1, <2>3, NullAssumption DEF Inv, ChainLinked, TypeOK
    <3>2. Content = <<>>
      BY <3>1 DEF Content
    <3>3. OpOf(t)' = [kind |-> "popped", value |-> Null]
      BY <1>1, <1>11, <2>3 DEF PopLoad, OpOf, TypeOK
    <3>4. Lifo!Pop(t)
      BY <1>1, <2>1, <2>2, <3>2, <3>3 DEF Lifo!Pop, Ops
    <3>5. QED
      BY <1>4, <3>4
  <2>4. CASE head # Null
    <3>1. OpOf(t)' = [kind |-> "pop"]
      BY <1>1, <1>11, <2>4 DEF PopLoad, OpOf
    <3>2. QED
      BY <1>3, <1>11, <2>1, <2>2, <3>1 DEF Work
  <2>5. QED
    BY <2>3, <2>4
<1>12. ASSUME NEW t \in Threads, PopRead(t) \/ PopRetry(t) PROVE [Lifo!Next]_(Lifo!vars)
  <2>1. chain' = chain /\ OpOf(t)' = OpOf(t)
    BY <1>1, <1>12 DEF PopRead, PopRetry, OpOf
  <2>2. QED
    BY <1>3, <1>12, <2>1 DEF Work
<1>13. ASSUME NEW t \in Threads, PopCas(t) PROVE [Lifo!Next]_(Lifo!vars)
  <2>1. chain # <<>> /\ chain' = Tail(chain) /\ value' = value /\ got[t] = value[chain[1]] /\ got' = got
    BY <1>13, PopOfTop DEF PopCas
  <2>2. Content # <<>> /\ Head(Content) = value[chain[1]] /\ Content' = Tail(Content)
    BY <1>1, <2>1, ContentPopped
  <2>3. OpOf(t) = [kind |-> "pop"] /\ OpOf(t)' = [kind |-> "popped", value |-> got[t]]
    BY <1>1, <1>13, <2>1 DEF PopCas, OpOf
  <2>4. Ops' = [Ops EXCEPT ![t] = OpOf(t)']
    BY <1>13, OpChanges DEF Work
  <2>5. Ops' = [Ops EXCEPT ![t] = [kind |-> "popped", value |-> Head(Content)]]
    BY <2>1, <2>2, <2>3, <2>4
  <2>6. Ops[t].kind = "pop"
    BY <1>1, <2>3
  <2>7. Lifo!Pop(t)
    BY <2>2, <2>5, <2>6 DEF Lifo!Pop, Ops
  <2>8. QED
    BY <1>4, <2>7
<1>14. ASSUME NEW t \in Threads, PopRetire(t) PROVE [Lifo!Next]_(Lifo!vars)
  <2>1. chain' = chain /\ OpOf(t)' = OpOf(t)
    BY <1>1, <1>14 DEF PopRetire, OpOf
  <2>2. QED
    BY <1>3, <1>14, <2>1 DEF Work
<1>15. ASSUME NEW t \in Threads, ListLoad(t) PROVE [Lifo!Next]_(Lifo!vars)
  <2>1. chain' = chain /\ Ops' = [Ops EXCEPT ![t] = OpOf(t)'] /\ Content' = Content
    BY <1>15, OpChanges, ContentKept DEF ListLoad, Work
  <2>2. OpOf(t) = [kind |-> "list"] /\ OpOf(t)' = [kind |-> "listed", values |-> Content]
    BY <1>1, <1>15 DEF ListLoad, OpOf, TypeOK
  <2>3. Lifo!List(t)
    BY <1>1, <2>1, <2>2 DEF Lifo!List, Ops
  <2>4. QED
    BY <1>4, <2>3
<1>16. ASSUME NEW t \in Threads, ListWalk(t) PROVE [Lifo!Next]_(Lifo!vars)
  <2>1. chain' = chain /\ OpOf(t)' = OpOf(t)
    BY <1>1, <1>16 DEF ListWalk, OpOf
  <2>2. QED
    BY <1>3, <1>16, <2>1 DEF Work
<1>17. CASE UNCHANGED <<pc, chain, node, got, atLoad>>
  <2>1. \A u \in Threads : OpOf(u)' = OpOf(u)
    BY <1>17, OpKept
  <2>2. QED
    BY <1>2, <1>17, <2>1, ContentKept DEF Ops
<1>18. QED
  BY <1>5, <1>6, <1>7, <1>8, <1>9, <1>10, <1>11, <1>12, <1>13, <1>14, <1>15, <1>16, <1>17
     DEF Next, Call, Work, Reclaim, vars

\* TreiberStack is linearizable: for any threads and any interleaving of their atomic
\* accesses, with addresses reused as soon as the guards allow, it behaves as a stack
\* on which each push, pop and get_contents is one instant between call and return.
THEOREM StackLinearizable == Spec => Linearizable
<1>1. Init => Lifo!Init
  <2> SUFFICES ASSUME Init PROVE Lifo!Init
    OBVIOUS
  <2>1. Content = <<>>
    BY DEF Init, Content
  <2>2. \A t \in Threads : OpOf(t) = Lifo!Quiet
    BY DEF Init, OpOf, Lifo!Quiet
  <2>3. QED
    BY <2>1, <2>2 DEF Lifo!Init
<1>2. QED
  BY <1>1, LinearStep, Invariant, PTL DEF Spec, Linearizable, Lifo!Spec
=============================================================================
