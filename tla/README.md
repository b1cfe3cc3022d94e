# Verification of the Cryptix node

TLA+ models of the concurrent core of the Cryptix full node (a Rust fork of rusty-kaspa), model-checked
with TLC and, where marked, proved with TLAPS. Every definition that models code is tied to source lines
in `PROJECT.json` ("map"); paths below are relative to `src/`.

## 1. The system

A node keeps a DAG of blocks. Blocks arrive from peers (`protocol/flows`) or from miners over RPC and enter
the consensus through `validate_and_insert_block` (`consensus/src/consensus/mod.rs`). The consensus runs
four threads and two thread pools:

    request -> header processor -> body processor -> virtual processor -> pruning processor
                (pool, deps mgr)    (pool, deps mgr)   (one thread)        (one thread)

| Part | State | Operations | Hard behaviours |
|---|---|---|---|
| dependency manager (`pipeline/deps_manager.rs`) | pending map: hash -> queued tasks, dependents | register, try_begin, end, wait_for_idle | parents and children on several threads, repeated requests, lost wakeups, idle signal |
| header / body processors | statuses, relations, headers, bodies, tips | process_header, commit_header, process_body, commit_body, exit | results ahead of commits, children ahead of parents, crash between the stages |
| virtual processor | virtual state, UTXO set, selected chain, verdicts, tips | resolve_virtual, mark_block_disqualified, commits | chain search that fails half way, tips written by two threads, lock order, crash between commits, finality |
| pruning processor, pruning point rule | pruning point, candidate, past points, UTXO set and its position, history root | advance, advance_pruning_utxoset, prune, recover | a rule that must not depend on when the node pruned, deletion beside validation, interruption at any batch |
| session / pruning lock (`utils/src/sync`) | permit counter, listener list | read, write, blocking_yield, cancelled reads | lost wakeup, readers that overtake writers |
| GHOSTDAG, reachability, windows, validation rules | per-block data | pure computations | intervals and reindexing; coloring |
| consensus manager, factory, staging | current and staging consensus, database entries | commit, cancel, stop | switch under running sessions, crash between entries |
| UTXO index, atomic index, notifications | index tables, subscriptions | update, resync, bootstrap | three separate writes, lagging behind the consensus |
| mempool, mining manager | pool, orphans, template cache | insert, replace, handle new block, template | stale templates, removal beside insertion |
| flows: relay, orphans, IBD, request scopes | orphan pool, shared request set, IBD flag | relay, unorphan, IBD | scopes that outlive each other, sink read before path |
| connection and address managers, hub | requests, peers, addresses, bans | connection loop, ban | requests changed while a connection is awaited |
| AntiFraud, strong-node claims, HFA | snapshots, claim windows, rounds | ingest, apply, persist | quorums, replaced files |
| wallet, CLI, RPC, tools | client state | - | clients of the node |

All components, modelled or not, are in `PROJECT.json` with a reason; so are the hazards, each at the line where
it bites, with the properties that cover it or a note saying why none does yet.

## 2. Modules

| Module | Models | Correspondence |
|---|---|---|
| `OrderedStage` | what a pipeline stage promises: one task per block at a time, tasks sent earlier for the block or a parent are over first, exit last | abstract specification |
| `DepsManager` | `BlockTaskDependencyManager` and the worker loops | `tasks`, `dependents` are the pending map; `taken` the tasks whose option was taken; `spawned` closures in the pool; each critical section of the mutex is one action |
| `DepsManagerProofs` | theorems about `DepsManager` | section 5 |
| `BlockPipeline` | header, body and virtual stages with both result futures | two `OrderedStage` instances; every acquisition of the statuses lock is a step |
| `BlockDag` | selected parent, chain, blue work order, mergeset of a constant DAG | operators over `Parents` |
| `VirtualProcessor` | virtual processor thread, header and body commits, locks held across other acquisitions | actions `V...` are the points of `resolve_virtual` at which another thread can interfere |
| `PruningProcessor` | pruning point rule, pruning thread, restarts | `pc` follows `worker`; each batch is one action |
| `SessionLock` | `RfRwLock` and `Semaphore` | each atomic operation or listener operation is a step |
| `SessionLockProofs` | theorems about `SessionLock` | section 5 |
| `MC...` | small instances | constants only |

How they compose: `DepsManager` is proved to implement `OrderedStage`; `BlockPipeline` runs on two `OrderedStage`s
instead of two managers. `VirtualProcessor` takes from `BlockPipeline` that bodies are committed parents
first. `PruningProcessor` takes from `SessionLock` that deletions exclude header and body processing, and
from `VirtualProcessor` that the sink respects finality and gives way to no lighter block while it is under a tip.

Operators whose comment begins with "Variant" are altered forms of the definition that follows them. They
are used by nothing; "mutants" in `PROJECT.json` names, for every property, one that TLC shows to break it.

### Abstractions

* Validation rules are verdicts: free in `BlockPipeline`, the constant `BadUtxo` in `VirtualProcessor` (UTXO
  validity depends on the past of a block only).
* `register` with the spawn after it, and `end` with the requeueing after it, are single steps: the thread does
  nothing else to the shared state in between, and a closure not yet spawned is not distinguished from one
  that waits for a pool thread. `parking_lot` condition variables have no spurious wakeups.
* In `VirtualProcessor` all blocks are blue and have equal work, so blue work is the number of ancestors, ties
  broken by hash (`Rank`). The mergeset size limit and the merge depth lie beyond the DAGs considered. UTXO
  and atomic state are the set of diffs they contain. The parents of a block are an antichain
  (`check_parents_incest`; `ParentsAssumption`). A body is announced to the virtual processor in a step after its commit. Repair functions and atomic error paths, which need damaged stores, are left out.
* In `PruningProcessor` blocks form a tree of selected parents; merged blocks show as jumps of the blue score.
  `Window` stands for what `keep_relations` retains. A fork from below the candidate that has grown beyond
  the pruning depth is excluded (`Considered`): for it the chain iterator's precondition fails
  (`processes/pruning.rs:101`).
* `PruningProcessor` does not repeat the sink search: `Resolve` takes any block with the finality point on its chain whose blue score is not
  below the sink's. `resolve_virtual` has no such test; it follows from the order of the search as long as the
  sink is under a tip, so the behaviours after `lost_sink` are not combined with pruning. A message with the
  sink unchanged stands for a change of the other virtual parents; when those are unchanged too the code
  returns early and sends nothing (`virtual_processor/processor.rs:387-391`).
* In `SessionLock` the order of the listener list is open: any listener may be notified. This allows
  more than the event-listener library does.
* A database batch is atomic and durable. A panic ends the process (`core/src/panic.rs`).

## 3. Runs

Passing runs:

| Run | Instance | Shows |
|---|---|---|
| `station` | 3 blocks, one with two parents of which one is the other's parent; 5 requests, 2 of them repeated; fair | parents are handed over first, no task is lost or doubled, the panics of `try_begin` and `end` are unreachable, the manager implements `OrderedStage`, every task ends, exit is passed on |
| `pipeline` | a chain of two blocks, the first requested twice, once as a trusted block; one crash | bodies rest on bodies, no spurious MissingParents, results follow the commits they report, exit is last, statuses only advance |
| `pipeline_live` | the same chain with a trusted and a header-only request, fair | every request is answered, exit reaches the end |
| `virtual` | 7 blocks: two branches, their merge and a single block; at most 2 virtual parents; 2 pool threads; fair | tips are an antichain; every body is weighed, also one that is committed during a resolve and announced after it |
| `virtual_disqualified` | 8 blocks: two branches and a merge; a block with two children and a sibling fails its UTXO check; finality depth 1, one crash | UTXO set, chain index and sink agree after a crash too, verdicts follow the chain and stand, no disqualified virtual parent, finality; the search finds the heaviest valid block below the tips it read; no uncovered body is missing from the tips |
| `session_lock` | 2 readers, 2 writers, 2 calls each, fair | exclusion, no lost wakeup, readers first, every call returns |
| `pruning_points` | chain of 10, fork of 4 at three places, four patterns of blue score jumps | header pruning points do not depend on the node's own; no point passed over |
| `pruning_crash` | chain of 6 with a fork at two places, blue score jumps, two movements, two restarts, fair | UTXO set matches its position, recovery finds its diffs, nothing needed is deleted, interrupted movements are completed |

Runs in which TLC finds what a comment, an assertion or a test of the repository says violated
("findings" in `PROJECT.json` quotes each line):

| Run | Property | What happens |
|---|---|---|
| `lock_order` | `BodyCommitCompletes` | `mark_block_disqualified` takes statuses then tips, `commit_body` tips then statuses |
| `lost_sink` | `SinkUnderTips` | a disqualified block and its child resolved together leave the sink under no tip |
| `pruned_body` | `QueuedBodyHasStatus` | a block is deleted between its header and its body processing |
| `archival_history` | `HistoryIsHeld` | an unfinished deletion is never finished once the node is an archive |

What does not hold once a block can be disqualified, and is therefore not checked in `virtual_disqualified`:

* `BodyCommitCompletes`, as `lock_order` shows. It is checked only there: with every block valid the virtual
  processor never waits for the tips with the statuses locked.
* `TipsAreAntichain`: a parent restored for a disqualified tip stays a tip beside a later descendant, although
  the comment at `virtual_processor/processor.rs:1265` relies on it. `UncoveredBodiesAreTips` is what remains
  true of the tips.
* `EveryBodyWeighed`, and with it that an idle node's sink is the heaviest valid body: a disqualified body may
  be heavier than every sink, and a valid one may be under no tip (`lost_sink`). `SearchFindsHeaviest` separates the two
  causes. It compares the result of every search with the heaviest block of an independent definition, so
  a sink is missed only where the tips do not lead to it.

In `virtual_disqualified` the model also reaches `VMarkPanic`: the search for a replacement tip meets a
child that `commit_header` has linked and not yet given a status.

### Bounds

`MaxRestarts` (crashes), `MaxCalls` (lock calls), `MaxInPipeline` (blocks between header and body; 1),
`PoolThreads` (bodies between commit and announcement; 2 in `virtual`, otherwise 1) and the
finite sets of requests and blocks are the only bounds. The instances contain the shapes the code tells
apart: a block with two parents of which one is the parent of the other, a repeated request before, during
and after processing, two branches with a merge, a disqualified block with children and with a sibling, a
chain reaching two pruning point movements with finality depth 2 and pruning depth 5, jumps over a whole
finality interval, and an exit between a movement and its UTXO set. `pruning_points` deletes nothing (an archival node), so that every tree is explored in full.
A larger pipeline instance, a block that merges two others with one of them trusted and a crash (4.6 million states), also
holds and is not kept for its running time; nor is a `station` with a diamond of four blocks (14.7 million).
States range from seventeen thousand to about 800 thousand.

`CHECK_DEADLOCK FALSE` stands in the configurations with disqualified blocks, where a panic or a deadlock is among the explored
behaviours and the system really stops.

### Fairness

Weak fairness only, of threads and pool closures that have something to do: a thread that can run runs, and
processing one block ends. Nothing makes requests, blocks, yields or crashes happen, with two exceptions
in `PruningProcessor`: the virtual processor keeps sending messages (blocks keep arriving on a live network and change its parents, and
the worker waits for a first message by design), and a node told to exit is started again.
In `SessionLock` calls are bounded, since readers that never stop starve a writer by design.

## 4. Properties and hazards

Each property's comment says what it claims and of which code. `PROJECT.json` relates them to hazards. One type
invariant per module; the others relate stores to each other, to the history or to the future.

## 5. Proofs

Checked by TLAPS for every value of the constants.

`DepsManagerProofs`, for any set of tasks, any blocks and any parent relation:

* `ManagerCorrect`: `TypeOK`, `ExpectationsHold` and `NoTaskLost` are invariants. The conjunction is inductive
  (`ManagerInv`); one lemma per action. The difficult action is `End`: the last task of a group frees all
  dependents, and `PlaceKept` says the other hashes keep their place.
* `HandoverCorrect`: `HandoverOrder` and `IdleMeansDone` (after `wait_for_idle` nothing is left). Order is not inductive. `OrderInv` adds that a
  task is sent once, that the tasks received are exactly those in a group and those handed over and none is
  both, and that groups keep the order of the channel (`GroupsInOrder`).
* `OwnershipCorrect`: one running task per block.
* `StageImplemented`: every step is a step of `OrderedStage` or a stutter; this is the refinement that
  `BlockPipeline` rests on.

`SessionLockProofs`, for any finite set of readers, any set of writers and more permits than readers (the code has `usize::MAX`):

* `LockExcludes`: from `LockInv`, which accounts for permits: a writer that holds the lock has emptied the
  counter and is alone; otherwise exactly one permit is missing for every reader inside.
* `NoWakeupLost`: from `WakeInv`. When an attempt fails, somebody holds a missing permit
  (`FailureMeetsHolder`), and that holder has not yet released or not yet notified.
* `ReadersAlwaysEnter`: the action property `ReadersFirst`.

Assumptions are the named `ASSUME`s of the modules; TLC evaluates them in the runs.

Only model-checked: liveness and everything about ENABLED (out of the prover's reach), all of
`BlockPipeline`, `VirtualProcessor` and `PruningProcessor`.

## 6. Plan

Done: the core above. Next, in this order:

1. `OrphanPool` (`flowcontext/orphans.rs`): bound, roots, unorphaning; composed with the pipeline.
2. `ConsensusManager`: staging commit and cancel, reset handlers, factory entries, crash points.
3. `UtxoIndex`: updates from notifications, resync, reset; against the abstract "index equals the UTXO
   set of the stored tips".
4. `Ghostdag`: k-cluster coloring as a pure algorithm against its reference definition; virtual parents.
5. `Reachability`: intervals and reindexing implementing the ancestor relation.
6. `UtxoDiff`: composition, reversal and `with_diff_in_place` against set semantics.
7. `FlowContext`: request scopes, IBD guard, mempool scan; then IBD with the staging consensus.
8. `ConnectionManager`, `AddressManager`, hub; `AntiFraud` against docs/antifraud_hf_v1_state_machine.md;
   strong-node claims and HFA.
9. `Mempool` and mining manager; notification subscriptions; atomic state and index.
10. Theorems: `UtxoSetAtPosition` and `RecoveryPossible` of `PruningProcessor`;
    `UtxoInStep`, `VerdictsFollowTheChain` and `FinalityRespected` of `VirtualProcessor`;
    `BodiesRestOnBodies` and `ExitIsLast` of `BlockPipeline`.

Not planned: cryptography, arithmetic of difficulty and fees, script execution, transport, user interfaces.
