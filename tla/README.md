# Formal verification of verified-concurrent

TLA+ models of the concurrent and distributed code of the repository, the TLC
configurations that check them on small instances, and proofs that hold for
every instance, checked by TLAPS. `PROJECT.json` lists every run, every
property, the lines each definition translates (`map`), the hazards and the
theorems. To check a run: `tlc -config MCLoop.cfg MCLoop.tla`; to check the
proofs of a module: `tlapm SsiMachineProofs.tla`.

Source paths below are relative to the repository root; `ssi.rs` alone is
`crates/vf-examples/src/ssi.rs`, and `tasks/` is `tools/vf-evolve/tasks/`.

## 1. The system

verified-concurrent generates and evolves concurrent Rust code and judges it by
a cascade of verifiers. It holds the code under verification (stacks, a
serializable-snapshot-isolation store, two-phase commit, Raft), the machinery
that exercises it (a deterministic simulator, Stateright models, oracles), and
the loop that asks a language model for code and scores it. The repository's
claim is that its implementations keep the invariants its own specifications
name; that claim is what this project checks.

### Inventory

| Component | State | Operations | Hard part | What makes it correct | Here |
|---|---|---|---|---|---|
| `SsiStore` (`ssi.rs`) | clock, next id, per-transaction snapshot, write set, conflict flags, key locks, SIREAD locks, version lists | begin, read, write, commit, abort under one Mutex | calls of overlapping transactions in any order; flags set by either side, before or after commit | stable snapshots, locks and pending versions together, rw-dependencies flagged, no pivot commits | `SsiStore`, `SsiVersionList`, proved |
| SSI DST runner (`crates/vf-dst/src/ssi_harness.rs`), history checker (`crates/vf-core/src/invariants/ssi.rs`), replay (`crates/vf-dst/src/ssi_oracle.rs`) | its own clock, active set, timestamps, statistics, log; the position in a trace | begin … abort with a fault point before and after each store call; verdicts on the log; replay of a trace | a fault between the store's step and the answer; a second clock | bookkeeping follows the store; no violation escapes the checker; a replay reports what happened | `SsiDstRunner`, `SsiOracleReplay`, both proved |
| SSI state machine and its oracles (`crates/vf-stateright/src/ssi.rs`) | one history, locks, SIREAD locks, flags | apply(begin, read, write, commit, abort), invariant checkers, pre-built traces | aborts from four places; judging a flag before it is set | as for the store, over the history; traces end as they say | `SsiMachine`, proved |
| `TreiberStack`, `TrackedStack` (`crates/vf-examples/src/treiber_stack.rs`) | atomic head, nodes, three counters, epoch guards | push, pop, get_contents | every atomic access interleaves; reclamation and reuse of addresses | linearizable, no use after free, counters, lock-free | `TreiberStack`, proved, and `StackPrograms` |
| `LoomStack`, broken stacks (`crates/vf-examples/src`), stack seeds and evolved stack | as the Treiber stack | push, pop, and the repository's tests of them | limit checked before the exchange; wrong on purpose | every value out once; which wrong stacks the checkers notice | `StackPrograms` |
| `StackModel`, extracted traces, verifier (`crates/vf-stateright/src`) | the Stateright model of the stack; traces | five actions; verify_implementation | the model must be the algorithm, the traces its paths | a LIFO stack; which traces are paths; the verifier tells stacks apart | `StackModel`, `StackPrograms` |
| Epoch GC (`tasks/epoch_gc`), seed and evolved | pin count, deferred functions | pin, unpin, retire, collect | deferred functions run after the lock is dropped | nothing is freed under who holds it, all run once | `EpochGc` |
| Ring buffer (`tasks/ring_buffer`), seed and evolved | slots, head, tail, size | push, pop | a slot is claimed before it is written | order kept, no slot overwritten or read empty | `RingBuffer` |
| Linked list (`tasks/linked_list`), seed and evolved | sorted links | insert, remove, contains, len | links change between search and exchange; a removed node is not marked | the set its answers tell of | `LinkedList` |
| Page cache (`tasks/pagecache`), seed and evolved | map of pages, map of dirty ones | read, write, flush | a write is two exchanges | no write or mark lost, each map freed once | `PageCache` |
| Two-phase commit (`tasks/two_phase_commit`), seed and evolved | per transaction: coordinator, participants, votes | eight calls, and run_commit / run_abort made of them | clients interleave between the calls of a run; a refused call ends a run | atomic outcome, final decisions, true answers | `TwoPhaseCommit`, `TwoPhaseCommitLockFree`, both proved |
| Raft election (`tasks/raft_election`), seed and evolved | servers with a Mutex, or two atomics, each | timeout, vote handlers, heartbeat, run_election | run_election is a sequence of separate calls; two atomics are not one | one leader per term, true answers | `RaftElection`, `RaftElectionLockFree`, both proved (the evolved version for three servers) |
| Raft node (`tasks/raft_consensus`), seed and evolved | term, vote, log, commit index, leader's indices | tick, propose, step, ready/advance | lost, repeated, reordered messages; deposed leaders | election safety, log matching, leader append-only, true application | `RaftConsensus`, `RaftConsensusV2`, both proved |
| Cross-shard SSI (`tasks/cross_shard_ssi/initial.rs`) | shards with a Mutex and a version each, transactions | begin, read, write, commit, abort | begin collects versions shard by shard; commit holds several locks | committed transactions serialize, no deadlock | `CrossShardSsi`, proved |
| Simulation (`crates/vf-dst/src`): scheduler, clock, random, fault, env, harness | current thread and their number; now; generators; fault configuration; loop of a run | decide, add, remove; advance; draws; run_concurrent, run_single_threaded | indices shift on removal; overflow check not atomic; streams of one seed | the running thread stays; time moves on; same seed, same run; true verdicts; runs end | `Scheduler`, `SimClock`, `DstHarness`, their safety proved, and `DstEnv` |
| Stack simulation: fault runner, oracle scheduler, instrumented stack (`crates/vf-dst/src`) | pushed and popped sets; position in a trace | push, pop with faults; run_oracle_dst | fault between effect and bookkeeping; trace and operations disagree | no right stack accused, no loss missed; replays end | `StackDstRunner`, proved, and `OracleReplay` |
| Cascade, levels, runner (`crates/vf-evaluators/src`), progress guarantees (`crates/vf-perf`) | a list of results | run levels in order, skip, start late, report | skipped levels count as passed | what is reported as reached ran, was trusted or is optional | `Cascade`, `CascadeRunner`, proved |
| Evolution driver (`bin/evolve.rs`) | islands, best candidate and its two files, statistics of models | mutate, score, trim, migrate, summarise | order of migration and trimming; failing requests; writes whose failure is dropped | the best is never lost; correct beats incorrect; the run ends | `Evolve`, its safety proved |
| Generator (`crates/vf-generator/src`) | current and best code with its verdict | two phases of attempts | code and verdict must belong together | what is returned as success passed | `Generator`, proved |
| Single-lock seeds (`tasks/{radix_tree,btree_plus,io_buffer}`) | one Mutex around a collection | one critical section each | none | — | not modelled |
| Heuristic seeds (`tasks/{load_balancing,tcp_congestion,cloud_scheduling,txn_scheduling,llm_sql_cache}`) | floating-point scores of one thread | — | none that a model reaches | — | not modelled |
| Other evolved code (`results/`), Kani harnesses, `vf-quality`, text parts of `vf-core` and `vf-generator`, `specs/`, `docs/` | — | — | — | — | not modelled, see 7 |

**How they interact.** The generator and the evolution driver call the cascade,
whose levels run external tools on a candidate (the compiler, Miri, Loom, the
DST harnesses, Stateright, Kani, Verus). The simulated tests run in the harness
or the stack runner, which draw from the environment's generators. The SSI
runner calls `SsiStore` as a single client that plays all transactions, and
hands its log to the checkers of `vf-core`. The Stateright models are separate
programs of the same algorithms; oracles are traces of them replayed by the
simulation. `TreiberStack` and the evolved stack call crossbeam-epoch, which is
external and modelled by what it guarantees. The task implementations share
nothing with each other; most exist twice, as the seed with a Mutex and as a
recorded result of evolution with atomics.

## 2. Modules

```
SnapshotIsolation ◁── SsiStore ◁── SsiVersionList ◁── SsiDstRunner ┬ SsiOracleReplay
                                                                   └ SsiDstRunnerProofs
SsiMachine ── SsiMachineProofs
AtomicCommit ◁── TwoPhaseCommitState ── TwoPhaseCommit ── TwoPhaseCommitLockFree
                                                           └ TwoPhaseCommitProofs
RaftElection ── RaftElectionLockFree ── MCProtocols ── ProtocolProofs
RaftConsensus ── RaftConsensusV2 ── MCRaftConsensus ── RaftConsensusProofs
SerialStore ◁── CrossShardSsi ── CrossShardSsiProofs
LifoStack ◁── TreiberStack ── TreiberStackProofs     StackModel
StackPrograms   EpochGc   RingBuffer   LinkedList   PageCache
Cascade ── Evolve, Generator, CascadeRunner ┐
DstHarness  StackDstRunner  OracleReplay    ├ MCLoop ── LoopProofs
Scheduler   SimClock        DstEnv          ┘
```

`SnapshotIsolation`, `AtomicCommit`, `SerialStore` and `LifoStack` are abstract
specifications; the module after the arrow is shown to implement them. Four
modules compose what shares a question for TLC. Each lets a behaviour choose a
program, then runs that program alone (nothing in the code connects them):
`MCProtocols` (SSI machine, free or along its traces; the elections and two-phase
commit in both versions, each also alone for a finding), `MCTreiberStack` (all shared structures),
`MCRaftConsensus` (both versions of the node) and `MCLoop` (the programs around
the cascade and the simulation; all it runs on is a constant, whose value for TLC
is the definition `Small…` of the same name).

A definition of the form "Mutant of X" is the version of X a plausible mistake
in the code would give. The specifications never use it: it stands beside X to
show that the property it breaks depends on that code.

### SsiStore, SsiVersionList: `crates/vf-examples/src/ssi.rs`

Every public operation locks the one Mutex for its whole body, so each is one
action (`Begin`, `Read`, `Write`, `Commit`, `CommitFails`, `Abort`), and the
variables are the fields of `SsiInner` and `TxnState` under their own names.
A call on a transaction that is not active returns without a change and is a
stuttering step. A version is its writer and its commit timestamp, because the
store never holds two versions of one writer and key; `MaxTimestamp` is
`u64::MAX`, the timestamp of a pending version, which the clock never reaches.
`obs` records what reads returned and is never read by a guard.

`SsiVersionList` adds the Vec of each key with its values, edited by `retain`,
`insert(0, …)`, the stamping loop and `sort_by`, and searched from the front.
`Retain` and `NewestFirst` are stated by what they leave (the kept entries, in
the order they had; the same entries, newest first, equals as they stood), which
is what a proof about them needs.
Its operations are those of `SsiStore` joined with what they do to the Vec. The
properties `ListHoldsVersions`, `ScanFindsNewest` and `LastWriteWins` say that
the set of versions is a faithful abstraction of it.

`SnapshotIsolation` is what such a store promises without timestamps: a private
copy of the database at begin, writes collected and installed at once.
`ImplementsSnapshots` maps the copy to what `visible_version` finds at the
transaction's snapshot.

### SsiDstRunner, SsiOracleReplay: the DST runner, its checker and its replay

The runner takes `&mut self`, so its operations follow one another while the
transactions they serve overlap. A fault may fire at every point: one that
returns before the store call leaves everything as it was, one after `begin`
keeps the new transaction from the client (`known`), the others only withhold an
answer. The log is kept as `to_ssi_history` folds it. The verdicts
(`VerdictFirstCommitterWins`, `VerdictNoDangerous`, `VerdictNoLostWrites`) are
the checkers' own loops; `ViolationsReported` compares the first with the truth
in the store. `SsiOracleReplay` adds the replay, and with it the three users of the
runner that the run `dst_runner` lets a behaviour choose from. `"client"` makes any
calls, under any fault. `"caller"` sees no fault and makes only calls the store
acts on; that it writes one value, and a key once, is all that holds it back, so it
brings the store itself into every state that transactions, reads and writes can
tell apart, and the store's five properties are checked on it. `"replay"` plays each
pre-built trace, with faults before, inside and after a call, and compares what
it reports at the end (committed, aborted, reads, expected outcome) with what the
store did (`ReplayHonest`).

### SsiMachine: `crates/vf-stateright/src/ssi.rs`

Every branch of `SsiState::apply` is an action. The history is kept as what the
code looks up in it: its length, the indices of writes and of commits, and the
versions read. Unlike the store, the machine picks versions by the index of the
write and the status of its writer *now*, and aborts at once an operation that
would turn a committed transaction into a pivot. The pre-built oracles are
sequences of its actions; `OracleTrue` says that each can be applied to its end
and that the transactions then stand as the oracle's description says.

### TreiberStack, LifoStack: `crates/vf-examples/src/treiber_stack.rs`

Each atomic access is a step: loads, exchanges (the strong form, which fails only
when `head` has moved), counter updates, and every dereference. The
Acquire/Release pairs on `head` order all accesses to a node after its
initialisation and the counters are single read-modify-writes, so a sequentially
consistent interleaving is what the build can produce. crossbeam-epoch is
external: `Reclaim` frees a retired node, and makes its address available again,
at any time after every thread that was pinned at its retirement has unpinned.
Left out: `step` (the sum of two counters that are modelled) and `Drop`
(exclusive access).

`LifoStack` is the stack its callers should see, with one instant of effect per
operation. `Linearizable` maps `head` and `next` to the sequence of nodes and
the program counters to the operations' stages.

### StackPrograms: the other stacks, under the repository's own tests

One push and pop, with the points where the stacks differ as conditions: the
size limit and leaked nodes of `LoomStack`, the push of `MissingRetryStack` that
gives up, the count of `LostElementStack`, the Mutex of the seed, the weak
exchange of the lock-free seed, the deferred freeing of the evolved stack. A
behaviour is one test: the main thread pushes, starts threads with scripts of
pushes and pops, joins them and pops until the stack is empty. `ValuesComeOutOnce`
is what those tests assert, over all interleavings, with the number of pops that
may go without. `Tracked` stacks keep the history that `StackPropertyChecker`
judges (`AllHold`), and `verify_implementation` is evaluated on the right and the
wrong stacks of its tests (`VerifierTellsApart`). `LossReported` says which of the
wrong stacks the checker objects to: the one that loses tracked values, and never
the one that loses track (section 5).

What the tests do not assert, the model keeps apart. Pushes that pass the check of
the limit while another one is under way set `pressed`, and `LimitNearlyHeld` gives
the excess that is then possible and no other; a push that is refused is recorded
with what was in the stack and what was not counted yet, and may be refused only by
a full stack, one full with values whose pops are not counted, or a counter below
zero.

### StackModel: `crates/vf-stateright/src/treiber_stack.rs`, `oracle.rs`

The five actions of the model, a step of a thread each, and the traces of
`OracleExtractor`, which the model follows action by action. `StepsAreLifo`
compares its steps with a LIFO stack. `TracesJudged` says that all traces are paths
of the model but the two it names, that those two are not, and that
`cas_failure_count` is the number of failing exchanges but for the one trace where
it counts one more (section 5).

### EpochGc, RingBuffer, LinkedList, PageCache: their `tasks/`, `results/v1`

Each holds the seed, a critical section per call, and the evolved version, an
atomic access per step. EpochGc's clients read one shared pointer under a pin,
replace what it points to, hand the old object in, and collect. RingBuffer's are
several producers and a consumer that try again, as in the task's concurrent
tests, with one producer that has anything to send or with several. The checkers of
`crates/vf-core/src/invariants/ring_buffer.rs` are part of its property.

The evolved LinkedList searches link by link and changes one link by an exchange;
nodes are the values they hold, because no test inserts what was removed. Both
versions run all of the task's concurrent tests, `test_concurrent_insert_and_remove`
among them.

The evolved versions of these three have races that the tasks' tests could meet
(section 5). The models take every such step, and a history variable records that
one was taken: `raced` (functions were taken with a guard pinned since the look at
the pins), `crowded` (a slot was claimed while another producer was filling one, or
after others had filled the buffer), `misled` (a link of a removed node was changed,
or put back). The property says where the flag can rise at all (the evolved version,
several producers, several removers), what holds until it does, and what holds
even then: deferred functions run once, the size counts what is sent and not
received, a value is removed once. What the list loses then is a run of its own,
`linked_list_tests`. The evolved PageCache keeps the
pages and the dirty marks as two maps behind two pointers. A pointer is modelled
with the number of its allocation, since a pinned thread cannot see an address
used again; `retired` is what was handed to `defer_destroy`.

### TwoPhaseCommit, TwoPhaseCommitLockFree, AtomicCommit

Every call of the seed locks one Mutex over all transactions and is one action.
`run_commit` and `run_abort` are clients that make those calls one at a time
(`Prepare`, `Vote`, `Decide`, `Deliver`), with any other call of any client in
between, and leave at the first refusal, as `?` does. In the evolved version the
states are one atomic each and the count of votes is another, raised in a step
of its own; an exchange may fail for no reason. `AtomicCommit` is the promise:
participants leave Working one by one, commit only with everybody's consent, and
end alike. What both versions share (parameters, state, the promise) is
`TwoPhaseCommitState`.

### RaftElection, RaftElectionLockFree: `tasks/raft_election`, `results/v2`

Each server has a Mutex of its own and `run_election` calls their handlers one
after the other, so the elections and heartbeats of other threads run in
between. In the evolved version term, vote and state are one packed word and the
votes received another: the word's exchange and the store of the votes are two
steps. `elected` and `told` are histories: who became leader in which term, and
what `run_election` answered.

### RaftConsensus, RaftConsensusV2: `tasks/raft_consensus`, `results/v2`

Every call locks the node's Mutex and is one action; each handler is modelled
with all it calls (stepping down, merging entries, advancing the commit index,
applying). Messages are a set that only grows, so a message can be lost
(never received), delayed, repeated and reordered. Tick counters are abstracted
to "at any time"; `ready`/`advance`, which hand pending output to the caller, are
left out: what is pushed counts as sent or applied. The evolved node keeps its
state behind one pointer that it swaps; it is modelled with one driving thread,
for which a call is one step, and differs in three handlers.

### CrossShardSsi, SerialStore: `tasks/cross_shard_ssi/initial.rs`

Each shard lock is a step: `BeginShard` looks at one shard at a time, `Lock`
takes the next guard of a commit in sorted order, `Commit` or `Conflict` runs
with all of them held. A transaction is driven by one thread, so the `txns`
Mutex, never held across calls, is not a step of its own. Reads return what the
shard holds at that moment and never the transaction's own writes, as in the
code. `SerialStore` is the promise: transactions take effect one at a time.

### Cascade, CascadeRunner, Evolve, Generator

`Cascade` has no state: it is what the levels, the fail-fast cut, the skipping,
the adaptive start and the score make of a piece of code, where code is the
outcome of each tool on it and the progress marks in its text. `CascadeRunner`
prints it. `Evolve` and `Generator` each define what a request to the language
model brings back and how they take code out of it, since the two parsers
differ. `Evolve` keeps islands of scored candidates:
`EvaluateSeed`, `Mutate` (request, evaluation, bandit account, push, sort and
cut; the two files of the best candidate), `SkipIsland` (a request that fails), `EndGeneration` (migration), `Panic`,
`Summary`; the weighted draw of a parent and UCB1 are free choices among those
the code can make. A write to `best.rs` or `best_info.json` may fail, before the
file is opened or after it was emptied, and nobody hears of it (`Written`,
`FilesWritten`): `BestKept` says what the two then hold. `Generator` keeps the two phases of `generate` and the exit of
`bin/generate.rs`.

### DstHarness, StackDstRunner, OracleReplay, Scheduler, SimClock, DstEnv

`DstHarness` is the loop of `run_concurrent` and `run_single_threaded` around the
test's closures, which may give no operation, fail, or leave the structure under
test broken. `StackDstRunner` is the runner of faulty scenarios with a right
stack and two wrong ones. `OracleReplay` is `run_oracle_dst`: operations run to
their end and move the trace on at the yield points that match. `Scheduler` is
an index into a number of threads; `name` remembers which thread it stands for.
`SimClock` is an `AtomicU64` shared by threads, its check and its addition two
steps. `DstEnv` is the environment: a generator is its seed and the calls made on
it since, a seed is the place where it was drawn, and `drawn` keeps each answer
once it was given, so that two environments of one seed can be compared.

## 3. Runs

| Run | Instance | Shows |
|---|---|---|
| `ssi_store_serial` | the store alone, 3 transactions, 2 keys | the committed transactions are *not* always serializable (finding 1) |
| `dst_runner` | 3 transactions, 2 keys, 2 values, one of three users: the caller (no other bound); any client with any fault (3 logged writes, 2 SIREAD locks at a time, 4 of both together); the replay of each trace with any fault | locks guard pending versions, snapshots stay stable, rw-dependencies are flagged, no pivot commits, and the store implements snapshot isolation; the version lists represent the versions; the runner's bookkeeping, clock and verdicts follow the store; a replay reports what happened |
| `protocols` | one of six programs: the SSI machine free (3 transactions, 2 keys, 8 events) or along each of its traces; both elections (3 servers, 2 threads, 2 terms); both two-phase commits (2 participants, 2 clients, 2 transactions) | locks, flags and aborts agree and no pivot commits; one leader per term; atomic and final outcomes; answers and traces are true |
| `ssi_machine_snapshot` | the SSI machine alone | reads are *not* always of one snapshot (finding 2) |
| `treiber` | one of the shared structures: TreiberStack with 2 threads, 2 addresses, 3 pushes, 3 pops and traversals; StackModel with 3 threads; the repository's stack tests; EpochGc with 3 threads and 3 objects; RingBuffer with 2 producers and a consumer, 2 slots, 3 items of the one and 0 to 2 of the other; LinkedList with 3 threads and 4 values, every test; PageCache with 2 writers, a flusher, 2 pages, 2 flushes, 4 maps | TreiberStack frees nothing that is held, is linearizable, and a scheduled thread finishes; every value, item and deferred function comes out once and sets and pages lose nothing, up to the recorded races; what the stack checkers and the extracted traces can tell |
| `linked_list_tests` | LinkedList alone, both versions, every test | a value that was inserted and not removed can be *missing* from the evolved list (finding 6) |
| `tpc_progress` | 2 participants, 1 client | an early abort does *not* always reach the coordinator (finding 3) |
| `raft_consensus` | both versions, 3 nodes, 2 terms, 1 proposal per term, 1 heartbeat round | one leader per term, logs match, a leader forgets nothing, what is committed is applied once and stays |
| `raft_completeness` | the seed, 3 nodes, 3 terms | a committed entry can be *missing* from a later leader (finding 4) |
| `election_four` | evolved election, 4 servers of which 2 run, 3 threads, 2 terms | two servers *can* lead in one term (finding 5) |
| `cross_shard` | 3 transactions, 2 shards, 2 operations each | serializable although begin is not atomic; every commit returns |
| `loop` | the evolution driver (up to 3 islands and generations), the generator (up to 5 attempts), the cascade runner, the harness, the stack runner, the oracle replay, the scheduler, the clock and two environments, one per behaviour | nothing good is lost, nothing incorrect wins, what is reported as reached was run, verdicts of simulated tests are true, same seed same run, every program ends |

`CHECK_DEADLOCK FALSE` everywhere: the bounds end every behaviour, and clients
may stop at any time. Where threads wait for each other (`CrossShardSsi`),
`CommitFinishes` says that they do not wait for ever; where a program must end
(`loop`), `ProgramEnds` says so.

### Why these bounds are enough

* SSI (the store under the caller, the machine): a dangerous structure has three transactions and two
  keys; the clock and history bounds let three transactions run to the end.
* DST runner under a client: three writes give a key two committed versions and a pending one,
  or one transaction two writes of a key, which is where `retain`, stamping and
  sorting can disagree. Two keys let conflicts refuse commits, and two SIREAD
  locks at a time give one transaction both flags: the two reads and two writes of a
  dangerous structure are the four accesses `MaxAccesses` allows. The replay plays
  every trace whole, with a fault at each point.
* TreiberStack: two addresses for three pushes force the allocator to hand out an
  address again, the A-B-A situation; a third operation of the other thread fits
  between any load and its exchange. The counters wrap at `SizeModulus = 8` in
  place of 2^64, above every size reached.
* Stack tests: the scripts are those of the repository's tests with their loops
  cut to one or two rounds, which keeps every pair of operations that can
  overlap. EpochGc: one thread reads, one replaces, one collects. RingBuffer:
  three items through two slots wrap both indices, and two producers suffice for
  every way to be crowded. LinkedList: two threads insert neighbours and one same
  value while a third counts; one removes while another inserts; two remove what
  stands before the third's insertions. These instances reach
  `raced`, `crowded` and `misled`, each with the harm it stands for. PageCache: one writer
  overwrites the page of another, and a flush fits between any two steps of a
  write; four maps leave room for one write done twice.
* Elections: three servers and two threads put the handlers of another election
  between any two of a first; four servers are needed, and used, for finding 5:
  with three the theorem of section 4 excludes it.
* Two-phase commit: participants are treated alike, so one of each outcome
  suffices; two clients interleave on one transaction and on two.
* Raft: two terms give a deposed leader and its successor; three are needed, and
  used, for the finding.
* Cross-shard: with two shards begin can be overtaken between them and two
  commits can want each other's shard.
* Loop: three islands are the fewest on which a migration ring differs from a
  swap, three generations put a migration before and after a trimming, and five
  attempts exceed the retries of either phase. Two threads can both pass the
  check of the clock before either adds; a third does it between them.

**Symmetry and views.** Keys, values, threads, clients, servers and nodes are
only compared for equality in the code, so permuting them is a symmetry where a
run uses it. Transaction ids of the store are numbered by begin and are not
permuted; `ssi_store_serial` uses no symmetry at all, and neither does a run that
checks liveness. In `MCProtocols` one group of permutations acts on the transactions of
one program and the servers of another, which the .cfg makes the same values, and
likewise on keys and clients: only one of the programs moves in a behaviour.
`MCRaftConsensus!NodeView` drops answers that can no longer change their receiver
(terms only grow; a lost candidacy or lead is not regained in its term) and
fields that `become_leader` overwrites before they are read.
`SsiOracleReplay!Unread` drops, for a client, the variables that only record what
was read, and for the caller all but the store's, which with one value and no faults
are determined by it as far as the properties go. No guard looks at what is dropped;
of the properties, `SnapshotStable` and `ImplementsSnapshots` look at the reads of a
store, which the caller keeps, and the others at nothing dropped, except through
votes and answers the view keeps.

### Fairness

* `MCTreiberStack`: weak fairness of the steps of *one* thread inside its
  operation on TreiberStack. Nothing is assumed of the others, which may stop
  anywhere: that is lock-freedom under finitely many competing operations.
* `TwoPhaseCommit`: weak fairness of a client inside `run_commit`/`run_abort`;
  the code is a loop without waiting. The finding holds under it.
* `CrossShardSsi`: weak fairness of the steps of a commit under way. A thread
  waiting for a Mutex that is free goes on; transactions are finitely many and
  each holds a guard finitely often, so no stronger assumption on lock queues is
  used.
* `MCLoop`: weak fairness of the whole program, each of which is one loop on one
  thread without waiting. The harness ends only if the threads it picks by
  random draws include those that have work left; each switch draws anew, so a
  thread that is offered for ever is taken at some time (strong fairness of a
  switch to each thread). A run whose draws never name a thread has probability
  zero, and the code has no other bound on it.
* The other specifications state no fairness and claim no liveness.

## 4. Proofs

All theorems hold for every value of the constants that satisfies the named
assumptions in the modules, which TLC evaluates too.

* **SsiDstRunnerProofs, the store.** `Invariant` proves `IInv`: the checked invariants plus
  `ClockAhead` (all stamps and snapshots lie in the past; without it a commit
  could reach into a snapshot), `WritesPending` (an active writer has a pending
  version for exactly what it wrote; without it a commit could stamp too much)
  and `ReadsLocked` (each read of a live transaction still has its SIREAD lock;
  without it a write could overlook its reader). One lemma per operation.
  `NoPivotCommits` and `CommittedVersionsStay` follow for each step. In
  `Implements` every step maps to one of `SnapshotIsolation` under the mapping of
  `ImplementsSnapshots`; the delicate ones are `Begin` (the view is the database
  now) and `Commit` (other transactions' views do not move).
* **SsiDstRunnerProofs, the runner.** The runner's steps are steps of the store
  (`RunnerDrivesStore`), so all of the above holds of its behaviours too.
  `ListInv` says of each Vec that it has one entry per version, newest first,
  with the value its writer wrote last. It is kept because `retain` removes at
  most the writer's own pending entry, the new one goes to the front where no
  stamp exceeds it, and stamping is followed by a sort; the store's invariant
  says which entry is whose. The first part of the module proves what filtering
  and sorting do to a list of any length. `RunnerInv` (`Recording`: sets, clock
  and timestamps equal the store's; `Logged`: every version is in the log and
  dated after its writer began; `Counted`) gives `RunnerTracksStore` and
  `ViolationsReported`, whichever calls were cut short by a fault.
* **SsiDstRunnerProofs, the replay.** A replay is a use of the runner
  (`ReplayDrivesRunner`), so the two invariants above hold of it. `ReplayInv` adds
  what a replay knows. With faults that is `Told`: a transaction of the trace stands
  for one that began in the store, one reported as committed has committed, and one
  reported as aborted is over. Without faults it is `Played`, which follows each of
  the six traces through its plan (`Plan`: which action begins 2, and which key each
  transaction writes where): the trace's transactions are 1 and 2, nobody wrote
  before its turn or twice, each commit got its answer (`Followed`), and, trace
  by trace, which conflict flags are still clear, which keys nobody reads and
  whether the first committed before the second began. Expected outcomes and clean
  verdicts follow: `ReplayHonest` holds for any keys, values and faults. The traces
  are cases of one lemma on what a step does to the flags (`StepMarks`).
* **SsiMachineProofs.** `IInv` adds `Logged` (indices lie in the history, readers
  and writers have begun) and `NoCommittedDangerous` (kept by judging
  `would_violate` before the flags are set). No committed pivot follows.
* **TreiberStackProofs.** A push has its node for itself until the exchange, a
  pop from its exchange to the retirement (`OwnNodes`). Whatever a pinned thread
  loaded is `Held`: linked, cut off and not retired, or retired while this thread
  was pinned, so it is neither freed nor written (`Guarded`). For an exchange of
  `head` that means: if `head` is what it was, its `next` is too, the A-B-A
  argument. For `get_contents` the nodes still to come form a `Trail` whose
  values complete the list to the contents at its load of `head`, although the
  stack changes meanwhile. With `ChainLinked` this is inductive, and gives
  `NoUseAfterFree`, `ListIsSnapshot` and the refinement of `LifoStack`
  (`StackLinearizable`), for any number of threads and addresses.
  `SizeCounts` is separate: `size` differs from the length of the stack by the
  threads between an exchange and its counter, modulo the width of the word.
* **TwoPhaseCommitProofs.** `VotesCounted` ties the coordinator's record to the
  participants, `CommitNeedsVotes` ties a commit to the votes; both are needed
  because the delivering calls overwrite a participant's state unseen. Atomicity,
  finality, true answers and the refinement of `AtomicCommit` follow, for any
  number of participants and clients. The evolved version needs more: a vote is
  counted a step after it was given (`VotesUnderWay`), by which time the
  participant may have been told the outcome, so a counted vote means only that
  its giver is not Working, and Aborted only if the coordinator is
  (`CountedGiven`); `CommitDelivered` ties a run to what it delivered. Atomicity,
  finality, the answers Commit and the refinement hold of it too. Its answer
  Abort can be wrong (section 5), so the answers are claimed for Commit alone.
* **RaftConsensusProofs.** Elections, `ElectionInv`: votes bind their voters
  (`VotesKept`, `OneVote`), candidates count only votes they were given
  (`VotesReal`), and whoever leads or has sent AppendEntries had a quorum
  (`LeadersElected`, `AppendsElected`). Two quorums meet, hence one leader in a
  term. Logs, `LogInv`: a node's log and what an AppendEntries carries are
  *pieces*, and any two pieces that have the same term at an index are the same up
  to there (`PiecesAgree`, of which log matching is a case); every term in a piece
  had a leader (`TermsLed`), and while that leader leads, nobody has an entry of
  its term beyond its log (`LeaderAhead`), so the next one it writes is new. The
  step that matters is `handle_append_entries`, whose result is put together of
  two pieces that agree (`MergeAgrees`). Commits, `CommitInv`: see below. The
  evolved node's handlers are the seed's or one of two answers of its own
  (`EvolvedStep`), so one more lemma for each extends all of it to
  `RaftConsensusV2`; `MatchesKept` is about that version alone, because the seed
  lets a late answer set a match index back. `LeadersForgetNothing` puts the two
  together: a behaviour of `MCRaftConsensus` is one program's throughout
  (`OneProgram`).
* **ProtocolProofs, the elections.** Both, as the programs of `MCProtocols`. A vote is
  counted in one place and given in another, several steps before, so the proof
  reads votes off whatever shows them (`Voted`): a thread that carries one, a
  server that runs or leads, the seed's set of votes. `ElectionInv` says that a
  vote binds its voter for the term (`VotesBind`), that nobody shows two
  (`OneVote`), and that a quorum that shows no other vote is bound to every leader
  there has been (`LeadersBacked`). `Effect` lists what a step may do to votes,
  leaders and answers; that it keeps the invariant is proved once
  (`EffectKeeps`), and each step of either version is shown to have such an
  effect. The seed's votes are all real, so the theorem has no bound. The evolved
  version's bitmask can hold votes of an older term and is no evidence; what is,
  is the candidate's own vote and the one the thread has just carried in, two
  servers, and two are a quorum of at most three. That is the theorem's
  hypothesis, and the run `election_four` shows that it cannot be dropped.
* **ProtocolProofs, the oracles and the answers.** `OracleInv` follows each pre-built
  oracle of the SSI machine, for any transactions and keys: when each transaction
  began and ended (`Stage`), who may hold the locks and SIREAD locks of its keys, and
  which flags the two carry. One lemma for each oracle goes through its actions;
  that no write is newer than a reader's snapshot, or no SIREAD lock in a writer's
  way, is why none of them is refused, and that both readers are still active when
  the other writes is why the dangerous structure ends in an abort. The programs of
  two-phase commit are behaviours of `TwoPhaseCommitProofs`' specifications
  (`SeedAlone`, `EvolvedAlone`), whose answers are proved there. Together that is
  `AnswersTrue`.
* **CrossShardSsiProofs.** `ReadsCurrent` is the heart: a shard whose version is
  the one begin saw still holds what was read there, although versions were
  collected one by one and reads came later. With the guards of a commit it
  makes the commit one step of `SerialStore`.
* **LoopProofs.** The programs of `MCLoop`, for any codes, command lines, tools,
  intervals, threads and scenarios. What the cascade says has a shape: the first k
  levels passed, and the run ends after the next (`CutShapes`, `RunnerShapes`). From
  it follow what the cascade runner may report, and that a candidate that passed
  every level scores at least 110 a level and one that did not scores less, since
  the best progress guarantee is worth 75 (`DriverScores`): this is why no
  incorrect candidate wins, and it would fail with a guarantee worth 110. The
  driver's invariant, `DriverKeeps`, has every island sorted (`Ranked`) with no
  candidate above the best of all, which comes first on some island (`Kept`), and
  each file tells of the best if its last write succeeded and else of something worse
  (`FilesKept`), because a new best is better than whatever a file holds. A cut
  keeps the first of a sorted list, so the order of sort and cut carries it, and a
  migrant goes on top of what is no better; an exchange keeps it, and a round of
  them by induction over the islands (`MigrationKeeps`). `Spent` is a sum over the
  models that one evaluation raises by one (`SpendingGrows`). With `Filled` no
  island shrinks or loses its best (`Grown`). `GeneratorInv` ties the best code to
  its verdict through the two phases. `HarnessInv` says how far a check may be
  behind the count: after a step the break may be the last operation's, so
  quotients are compared one operation back. The stack runner's is an account of
  values (`StackInv`), the scheduler's that every index has a thread of its own.
  `ClockInv` bounds the clock by `TIME_NS_MAX` and one advance for each thread
  that has *not* a checked one under way, which is why the room above the limit must
  hold the longest advance once for every thread (`ClockAssumption`; the code
  leaves 10^12 ns).

**What a proof attempt showed.** That the commit index only grows is not true of
the Raft node in general. Where finding 4 has cut off a leader's committed
entries, it is left with a commit index beyond its log, and
`min(leader_commit, last_new_idx)` (`raft_consensus/initial.rs:495`) takes it for
granted that `last_new_idx` is not below the receiver's own commit index. With
five nodes there is a behaviour of four terms and nine proposals: a leader commits
four entries on the word of two followers with stale logs, a third follower holds
three of them, committed; a leader elected with the first entry alone overwrites
the second and the rest at the old leader; that one, elected again, sends its two
entries with commit index four, and the third follower's commit index falls from
three to two. So `CommitProgress` claims growth, and that what is applied is
exactly what is committed, as long as every AppendEntries reaches as far as the
commit index it tells of (`CommitsCovered`, which holds in all states of the run);
that nothing applied is taken back or applied again it claims always. In this form
it is proved for both versions.

**Only model-checked:** liveness (`FairThreadFinishes`, `CommitFinishes`,
`ProgramEnds`), `StackModel`, `StackPrograms`, `EpochGc`, `RingBuffer`,
`LinkedList`, `PageCache` (`ResultsExact`, `ChecksTellTruth`), and that two
environments of one seed answer alike (`TestsReproducible`).

**Out of the prover's reach:** liveness under fairness and ENABLED; the library's
induction over data. The lemmas about lists do without it: they take a least
counterexample of a set of numbers (`SetInduction`, `HighestIndex`). Recursive
functions are reached the same way: that one exists is proved before it is
expanded (`RoundExists`, `SumExists`). What a fold
over a list of candidates computes stays with TLC, and so does anything in a
module with RECURSIVE operators. `SelectSeq` and `SortSeq` cannot be expanded by
the provers, which is why `SsiVersionList` states its filtering and sorting by
their results.

## 5. Findings

Each of the numbered ones is a run whose property is quoted from the repository and
refuted by the code.

1. **Lost update in SsiStore** (`ssi.rs:353`). Transaction 1 reads a key; a
   concurrent transaction 2 writes it without having read it and commits; then 1
   writes it, whose lock is free again, and commits. Transaction 2 has `in_conflict`
   alone and 1 `out_conflict` alone, and commit refuses only who has both, so 1
   overwrites a version it never saw: by the read 1 comes before 2, by the writes
   after. When both have read the key first, the second to write meets the other's
   SIREAD lock (`ssi.rs:284-304`), gets both flags and is refused.
2. **SsiMachine reads move** (`crates/vf-stateright/src/ssi.rs:134`).
   `latest_version` asks whether the writer is committed *now*, so a repeated
   read changes when a writer from before the snapshot commits.
3. **Two-phase commit stalls** (`tasks/two_phase_commit/initial.rs:222`).
   `run_commit` leaves with an error when a participant has aborted, and nobody
   tells the coordinator.
4. **Raft loses a committed entry** (`tasks/raft_consensus/initial.rs:499`). A
   follower acknowledges the length of its own log, stale entries beyond the
   leader's included; the leader counts them as its own entry's copies.
5. **Two leaders in the evolved election** (`results/v2/raft_election_best.rs:317`).
   With four servers a vote granted in an old term is added to the bitmask of
   votes of a new one, because the mask and the packed term are two atomics.
6. **The evolved linked list loses an insertion** (`results/v1/linked_list_best.rs:45`).
   `insert` exchanges the link of the node it found; that node may have been removed
   meanwhile, and is not marked. The exchange succeeds, `insert` answers true, and
   the value hangs on a node that is no longer in the list
   (`tasks/linked_list/trait_spec.rs:176`, `:179`).

Three more are stated by the properties of a passing run, which say exactly how far
the quoted promise goes; the steps that break it are in the model. `PROJECT.json`
lists them under the run `treiber`: the evolved ring buffer with several producers
(`ring_buffer_best.rs:46`: two claim past the limit, or the consumer reads a slot
before it is written), the evolved epoch GC (`epoch_gc_best.rs:73`: what a guard pinned
between the look and the swap has loaded is freed), and LoomStack
(`loom_stack.rs:66`: the limit; `:129`: a push refused by a counter below zero). So
are the checks that tell less than is said of them: LostElementStack is never
objected to, two extracted traces are not paths, one failure is counted too many.

**Further disagreements in modelled code.** Those named by a definition are
stated in the modules and refuted by TLC when added to the run of that module.

* SsiStore: `FirstCommitterWins` and `NoCommittedDangerous` (flags are set after
  the commit). SsiDstRunner: `AlarmsReal` and `LostWritesReal` (the log records
  writes the store refused, so the checkers report what did not happen).
  SsiMachine: `FirstCommitterWins` and `CheckerSeesOverlap` (the checker
  compares write indices, not lifetimes). The oracle `concurrent_write_blocked`
  is filed under WriteWriteConflict though both transactions commit and its
  actions are those of `disjoint_keys`.
* TwoPhaseCommit: `AbortHasReason` (`tm_abort` asks for no reason). Evolved
  version: `run_abort` can answer Abort while a participant stays Prepared, since
  `rm_rcv_abort` ignores the result of its exchange; a `compare_exchange_weak`
  that fails for no reason is reported as `RmNotFound`.
* CrossShardSsi: `ReadsFromSnapshot` (a transaction that cannot commit any more
  has seen a later write). `PROBLEM.md:17` of the task asks for no false
  conflicts; the version is the shard's, so two transactions on different keys of
  a shard do conflict.
* TreiberStack: a pop can decrement `size` before the push of its node has
  incremented it (`treiber_stack.rs:204`); `size` wraps and the next push's
  assertion fails in a debug build, against the comment at line 111.
* `check_linearizability` in `vf-core` is weaker than `check_lifo_order`,
  and `check_aba_safety` always passes. TrackedStack records after the operation
  and is right for one thread only. The table of `buggy_stacks.rs:8-13` names a
  RaceConditionStack that the file does not have.
* The oracles of `vf-stateright/src/oracle.rs` are written by hand. In the replay
  each operation runs to its end, so that no exchange fails; skipped steps count as
  executed.
* Stack runner: `check_no_duplicates` raises a false alarm when a value is pushed
  twice. Harness: `fault_config` and `yield_probability` are never read, and
  `run_single_threaded` checks no invariant. SimClock stays below its limit only
  because the delays of the threads that passed the check together fit above
  `TIME_NS_MAX`.
* Evolution driver: a WaitFree candidate that failed DST scores above 400 and its
  prompt says that all levels pass (`evolve.rs:463`); `best.rs` is not written
  when nothing beats the seed, and when a write to it fails the run goes on and ends
  as if it held the best (`evolve.rs:765`, stated by `BestKept`); an island size or a
  migration interval of zero panics. Cascade: a start level above `max_level` reports success with nothing
  run. Generator: a failing request in the second phase discards correct code
  (`generator.rs:327`).
* Evolved linked list: two threads that remove neighbours at a time can leave one
  of them linked after it was handed to the collector (`misled` again). Evolved page
  cache: `NothingLeaks` fails, a write whose second exchange fails never frees the
  map its first one replaced; and the page it then installs again can cover a newer
  write that readers have already seen.
* Raft election. Seed: `handle_heartbeat` raises the term and keeps `voted_for`,
  which costs a vote but elects nobody twice. Evolved (v2): a late store of the
  votes can erase newer ones, so an election all voted for is not won.

**Seen while reading, not modelled.** Evolved Raft node: `cas_update` frees the
old state at once and `sync_caches` publishes before the exchange, so it is
modelled with one driving thread; a first version in `results/v1` is cut off.
Raft seed: `advance` clears everything pending, also what `step` pushed after
`ready` (`raft_consensus/initial.rs:270`). The cross-shard version in `results/v1`
is not safe under the concurrency its `trait_spec.rs` asks for (versions checked
without locks). The stack seed
`initial_atomic.rs` frees popped nodes at once, as its own comment says. The
first election in `results/v1` votes in two steps.

## 6. Plan

Done, in this order: SsiStore and its refinement, the version lists and the DST
runner, SsiMachine, TreiberStack, TwoPhaseCommit, RaftConsensus, CrossShardSsi,
the proofs of section 4; then the programs around the cascade, the elections,
the other stacks, Stateright's models, traces and replays, EpochGc, RingBuffer,
LinkedList, PageCache, the simulation, and the evolved versions of what is
modelled; then the proofs of the version lists and the DST runner, of
TreiberStack, of Raft's logs and commits, of the evolved two-phase commit and
Raft node, of both elections, and of the programs around the cascade and the
simulation.

Next, most important first:

1. **A repaired acknowledgement** of the Raft node (the follower reports what the
   message covered), for which leader completeness and the unconditional form of
   `CommitProgress` hold.
2. **The shared structures of `tasks/`**: `PageCache` and `EpochGc` have the same
   guards as `TreiberStack`, and their invariants are close to inductive.
3. **`ready`/`advance`** of the Raft node as a pair of calls with `step` between
   them.
4. **An abstract leader election** that RaftElection and RaftConsensus both
   implement.
5. **The evolved cross-shard store** (`results/v1`) against `SerialStore`.

## 7. Not modelled, and why

* The memory model below sequential consistency: `WrongOrderingStack` differs
  from a correct stack by orderings alone, and TLC explores interleavings.
* External tools, HTTP, files and prompts: a level of the cascade is the verdict
  of its tool, a request is the code it brings back or an error.
* Text analysis (`vf-perf` beyond the progress guarantee, `vf-quality`, the
  parser of `tla_spec.rs`, the counterexample and property types of `vf-core`):
  pattern matching and formatting without state.
* Floating-point heuristics (five task seeds, `adrs.rs`): one thread, no state
  that a small model could reach.
* Single-lock seeds (radix tree, B+ tree, I/O buffer):
  every operation is one critical section on an ordinary collection.
* Kani harnesses: bounded proofs of their own, run by an external tool.
  `verify_concurrent` stands behind a feature no manifest declares,
  `maybe_corrupt` has no caller, and the depth-first search of
  `SsiOracleExtractor` is what TLC does with `SsiMachine`.
* Calls the models leave out, each for the reason given in section 2: Raft's
  `ready`/`advance`, TreiberStack's `step` and `Drop`; and the order of the
  runner's log (`ssi_harness.rs:413`: writes are logged before they commit), of
  which only the verdicts drawn from it are modelled.
* Random choice is a free choice where it occurs; probabilities are not modelled.

`PROJECT.json` gives the reason for each component.
