# TLA+ models of the SRGC training and measurement queues

The repository compares selectors of reinforcement-learning prompts. Most of it is
analysis code and earlier studies; the parts with a state machine of their own are
`srgc_rebuttal/`, `srgc_research/` and the scripts around them: queues on shared
storage whose workers build reward caches, train a shared prefix and its
continuation arms, run diagnostics and measurements on several nodes, survive
crashes of every process involved, and publish results that are never written again.
These modules model that part, check it with TLC and prove the central statements
with TLAPS. Paths below are relative to the repository.

## 1. Inventory

| part | source | state | operations |
|---|---|---|---|
| task queue | `srgc_rebuttal/cluster_queue.py`, `scripts/srgc_seed_order.py` | `.queue/leases/*.lock`, `.queue/tasks/*.json` (receipt), `.queue/attempts/*.json`, `.queue/inputs/*.json` (seal), `cache_ready` per process | verify, claim, finish, status, bind |
| worker loop | `srgc_rebuttal/cluster.py` | position in the loop, the child, `stop.json` | run_worker, run_child, stop, resume |
| several queues on one worker | `scripts/srgc_multi_queue.py` | position in the pass, the verdict on each queue | run_worker_multi |
| leases, atomic files | `srgc_rebuttal/runtime.py` | flocks, renamed files | lease, atomic_json, prefix_ready, arm_complete, finalize_seed |
| cache builder | `srgc_rebuttal/build_cache.py` | one receipt per candidate, the bundle, `cost-summary.json` | prepare, generate, export |
| switch rule | `srgc_rebuttal/srgc.py` `TemporalRule` | last step, window, switched | observe |
| engine | `srgc_rebuttal/srgc.py` `Engine` | step, model, selection block, rule, history | update, state_dict, load_state_dict (resume and fork) |
| experiment runner | `srgc_rebuttal/run_experiment.py`, `scripts/srgc_step_checkpoints.py` | checkpoints, `prefix.pt` and its receipt, progress, endpoint, `run.json` | startup, prefix, arm loop, endpoint, finalize |
| cost ledger | `srgc_rebuttal/cost_ledger.py`, `timing.py` | a receipt per metered phase | record, totals |
| resumable scoring and rollout records | `scripts/srgc_resumable_rollouts.py`, `srgc_research/dispatch/selection_resume.py`, `rollout_records.py`, `reward_curves.py` | `rollout-cache/<task>/score-*`: rollouts, gathered gradients, fingerprint of the weights; `rollouts/step-N.json.gz` | score_gradients, drop_stale, capture, publish |
| study queue | `srgc_research/cli.py`, `worker.py`, `storage.py` | `.dispatch.lock`, `.execution.lock`, `queue.json`, state, anchors and their receipts, endpoints | run_queue, execute, publish_anchor |
| measurement queue | `srgc_research/dispatch/information_queue.py`, `information_cli.py`, `information_rank.py` | a receipt and a claim per task, the measurement's lock, saved phases | sweep, collect, the ranks' phases |
| device leases, orphan guard, admission | `srgc_rebuttal/cluster.py`, `scripts/srgc_process_guard.py`, `admission.py` | a lock per GPU UUID, the process table | device_leases, probe, reap |
| checkpoint backup | `scripts/srgc_checkpoint_backup.py` | generations of copies, their receipts, `latest.json` | copy_snapshot, prune |
| dispatch of the model studies | `srgc_research/dispatch/ready_dispatch.py`, `resume_drain.py`, `model_chain.py` | choice among queues | launch, drain, resume |
| reports, torch backend, verifiers, plans | `srgc_rebuttal/` | none, or data | pure functions and GPU work |

How they interact. A worker claims a task under its lease, writes the receipt, and
starts `torchrun`, which inherits the lease's descriptor. The ranks run in sessions
of their own and do not hold the lease; they exclude one another by an execution
lock, and for caches by a lock per candidate. The queue learns what happened only
from files: the bundle with its cost summary, `prefix-ready.json`, the endpoints.
The engine is driven by the runner, which saves it at chosen steps and starts it
again from whatever a killed run left; within an update, scoring leaves a cache of
its own, and the responses of an update are published before its checkpoint. The
study queue lets diagnostics branch from the anchors a carrier publishes while it
still trains. The measurement queue adds locks on the GPUs themselves, because the
allocations of two launchers may overlap. The backup reads checkpoints that training
replaces under it.

Hard behaviours: orphaned ranks and launchers, a worker killed between two writes,
leases that outlive their owner, answers computed before a lock is held, looks at a
lease that take it, two attempts of one task alive together, updates redone after a
kill, a decision rule whose memory must survive checkpoints, and results that must be
complete, in the order of the DAG, and final. `PROJECT.json` lists them under
`hazards`, with the line where each bites.

What makes each part correct:
- task queue: one execution at a time; a task runs only after its parent, which is
  settled by then; retries bounded and charged once; abandoned work recovered;
  workers end;
- several queues: a queue taken for complete is complete; a stop of one queue does
  not starve another; workers end;
- cache: a receipt is final; the bundle consists of the receipts; a worker believes
  only the sealed bundle;
- rule: it switches exactly when the README's rule triggers on the checks made;
- engine and runner: a trajectory only grows; the arms of a seed share one prefix;
  decision, history and selection block are those of the model that is saved;
  costs called complete are complete; the seed is completed, and not early;
- scoring and records: an update trains on rollouts of its own weights; records and
  checkpoint tell of the same updates; repeated kills do not stop training (which holds
  on a condition only, see section 4);
- study queue: anchors lie on one path; results come from the final anchor and cache;
  an exit code is true; every node ends;
- measurement queue: no GPU is shared, and not everyone is refused; attempts count
  failures; an exit code is true; launchers end;
- backup: what a restore needs is there at every moment; the index is true of what
  was saved; the newest checkpoint is backed up.

## 2. Plan

1. *done* `TaskQueue` (with `StudyDag`), its proofs: the core.
2. *done* `CacheHandoff` (with `WriteOnce`), its proofs: what `TaskQueue` treats as one
   publish step of the cache task and one look by `verify()`.
3. *done* `SwitchRule`, `TemporalRule`; `ArmRun` (with `Trajectory`); proofs of both in one
   module: what `TaskQueue` treats as the work of prefix and arms.
4. *done* `Fleet`: what `TaskQueue` treats as one look at all tasks, and several plans;
   `ResearchQueue`, a second queue that implements `StudyDag`; `InformationQueue`, with the
   device leases; `CheckpointBackup`; each with proofs.
5. *done* `SelectionResume`, its proofs: what `ArmRun` treats as one update, in the model
   studies.
6. *left*: `ready_dispatch`, `resume_drain` and `model_chain` above the queues modelled
   here; the protocol upgrade of an unstarted queue; errors of `verify()` inside
   `finish()`; evaluation and curve boundaries of the model studies.

## 3. Modules

`TaskQueue.tla` - queue, worker loop, launcher and rank 0 of every attempt.
`lease[t]` is the set of processes that hold the locked description open (worker and
launcher); it is free when empty. `receipt`, `history`, `stop` are files of `.queue`;
`artifact` and `marker` are the result and the receipt that completes it; `wpc`,
`seen`, `wtask`, `outcome` are a worker's control and local state; `torch`, `rank`,
`exec` are the processes of an attempt and the execution lock. Actions follow the
code: `Verify`, `Claim`, `Record` (claim()), `StartChild`, `ChildExit`, `InterruptChild`,
`StallChild` (run_child), `FinishAttempt`, `FinishReceipt` (the two writes of
finish()), `NothingToClaim`, and for rank 0 `Startup`, `LockExec`, `Recheck`, `Work`,
`Publish`, `Leave`. Every pair of writes that a crash can separate is two actions.
`SeedFirst` selects the shell worker, whose queue lets arms start while the prefix's
launcher exits and whose loop survives a stall.
Order of claims is left open (any claimable task), the retry delay is the choice of
the moment of a claim, and heartbeats, logs and verify errors are left out.

`StudyDag.tla` - an abstract queue: a set of published tasks that grows one task at
a time, each after its parent. `TaskQueue` and `ResearchQueue` implement it.

`Fleet.tla` - the same workers on several plans, look by look. A worker enters a queue
(`EnterQueue`), notes once, in `Verify`, whether the cache is complete, and walks over the
rows: `Look` and `Unlook` are `locked()` taking and giving back a lease it asks about,
`Take`, `Admit` and `PassOver` are claim(); `ReadReceipt`, `Probe`, `Unprobe`,
`ProbeParent` and `UnprobeParent` are status(). `verdict` is what the pass thinks of each
queue; `EndPass` draws the conclusion (exit, raise, poll again). `ChildDone`, `ChildFails`,
`Interrupt`, `Finish` and `Release` are what becomes of a claimed task, `NodeLost` and
`Command` the node and the operator. What a child does is one step here: `TaskQueue` has
the details.

`CacheHandoff.tla` - ranks of successive cache attempts, export, cost summary, and
`verify()` read by read (`ReadBundle`, `CheckSeal`, `CheckSummary`, `Seal`). A receipt or
bundle is known by the attempts that wrote it. A lock lives as long as its process.
`WriteOnce.tla` is its abstraction: a value is written once, and released to readers
after it was written.

`SwitchRule.tla` - `TemporalRule.observe` as operators, and the README's rule
(`Triggers`) as a condition on the set of all checks so far. `TemporalRule.tla` drives it
with every sequence of checks (`automaton`, `observed`), scheduled steps missed included. The sign of `math.fsum` is that
of the exact sum, so D is an integer.

`ArmRun.tla` - prefix and arms of one seed: engine in memory, checkpoint, `prefix.pt`,
receipts, progress, endpoint, manifest, and the phase receipts of the cost ledger.
A model is known by its trajectory, the runs that made its updates: two states with
the same step need not be the same model, because an update redone on a GPU need not
come out as before; D is chosen anew as well. One process per task is assumed, which
is `OneExecution` of `TaskQueue`. `PrefixEvery = ArmEvery = 1` is the shell worker (a save
after every update), larger values the legacy cadence. `PublishReports` stands for all
callers of `finalize_seed` outside a running arm: the workers' reports and
the startup of an arm that is complete already. `Trajectory.tla` is the abstraction: saved
trajectories only grow, arms extend the released prefix, results are complete.

`SelectionResume.tla` - one training task of the Gemma entries, inside an update. `cache`
is the directory of each scoring block: the rollouts of each prompt, `partial` and
`result` (the two files of gathered gradients) and `policy` (the fingerprint); `record`
the published responses of each update; `checkpoint` the resume point. `at` is where
each rank is, `mem[r]` the gradients it holds. Rank 0 looks (`Reuse`, `Begin`) and
broadcasts which prompts are done, not their gradients (`Follow`): of a whole block every
rank reads them itself, those of a partial block rank 0 alone has. Every rank draws or
replays its prompt (`Roll`), all meet (`Gather`), rank 0 saves (`SavePartial`,
`SaveResult`); when the block returns to the engine, a rank that lacks a gradient fails
(`Vectors`), and torchrun ends the others wherever they have got to (`RankFailed`,
`Ends`). Rank 0 drops stale blocks (`Drop`), and the ranks train, publish and save
(`Train`, `Publish`, `SaveCheckpoint`). A model is the sequence of its updates' outcomes,
and its fingerprint is the model. A record that differs ends the attempt
(`PublishRefused`). `Kill` ends an attempt anywhere, and may leave a deletion half done
(`Leftovers`); `Restore` puts an older checkpoint back.

`ResearchQueue.tla` - `run_queue` on several nodes over the cache, the carrier and a
diagnostic per anchor. `dispatch[c]` is who holds a condition's dispatch lock open
(node and torchrun), `exec` which launch's rank 0 holds the execution lock; `saved`,
`anchor`, `released`, `cacheFile`, `endpoint` are files. `Look`, `Begin`, `PassOver`,
`Launch`, `Receive` and `EndPass` are the pass of a node (with `NodeBusy`, `LaunchRaises`,
`Interrupt` and `Stall` where it goes wrong); `Claim`, `Load`, `WriteAnchor`,
`ReleaseAnchor`, `Advance`, `Save`, `Export`, `WriteEndpoint` and `Leave` are execute() and
publish_anchor in rank 0, an anchor and its receipt being two writes; `Reap` is the guard.
The updates of a stage up to the next save are one step (`Advance`): nobody sees the ones
between. A pass takes the execution lock for a moment to ask whether it is free
(`cli.py:121-122`); the answer is part of `startable`, and that the lock is held meanwhile
is left out: with the dispatch lock in its hands only an orphaned rank 0 can meet it, which
fails as it does when it meets another rank 0.

`InformationQueue.tla` - `sweep()` of several launchers, `collect` as their child,
torchrun and the ranks. `Look`, `Certify`, `Replenish`, `Try`, `Reap`, `ProbeGpu`,
`Start`, `Receive` and `EndSweep` are the launcher's, `Lock`, `TakeGpu`, `Launch`, `Measure`,
`Publish` and `Return` those of collect and its ranks. `Try` is the sweep's decision; the
receipt and endpoint it read may be stale by `Start`. The ranks leave the execution lock
in `Measure` and write the endpoint afterwards (`Publish`). A collect that ends by SIGTERM
or SIGINT (`CollectStopped`) gives its attempt back and ends the launcher too; one that is
killed outright spends the attempt. A launcher's claim is inherited by collect, the
measurement's lock and the device leases by torchrun. `Alloc` lists the GPUs of an
allocation in any order; leases are taken one by one in the order of the UUIDs
(`TakeGpu`), also by a launcher that only looks (`leased[w]`). The orphan guard reaps
what it finds before the probe and again under the leases.

`CheckpointBackup.tla` - `copy_snapshot` step by step under the backup lease, beside
training that publishes (a new inode) and writes in place. A generation is a directory
with a copy and a receipt, `index` is `latest.json`. `Publish` (`save_checkpoint`,
which replaces the file) and `WriteInPlace` (a writer that would not) are training; `Open`, `Compare`, `Read`, `ReadRest`, `Keep`, `WriteIndex`, `List` and
`Prune` are the copy: the file can change between the halves of a read, and pruning
removes the files of a directory one by one.

`MC*.tla` define the sets and symmetry TLC uses. Operators marked "Mutant" are
plausible bugs, used only to see that a property fails when the code is wrong.
`*Proofs.tla` hold the theorems.


## 4. Runs

| run | instance | shows |
|---|---|---|
| `queue_safety` | 2 workers, 1 seed, 1 arm, 2 attempts, 4 launches, 2 faults | the inductive invariant, exclusion of executions, settled parents, retries charged, final results, `StudyDag` |
| `queue_shell` | 2 workers, 1 arm, shell worker, 3 launches, 1 fault, fairness | abandoned work is recovered; workers end |
| `handoff` | 3 candidates, 2 ranks, 2 attempts, 2 crashes, 2 verifiers, fairness | the inductive invariant, receipts final, `WriteOnce`; a finished cache reaches every worker; an undisturbed attempt finishes |
| `rule_reference` | 5 checks, D in -2..3 or missing | automaton = documented rule |
| `arm_switch` | prefix of 2, switch arm and SR arm to 8, checks at 2, 4, 6, saves every 2 and every 1, 1 kill, fairness | decision, block and costs survive resumes; the manifest is honest; `Trajectory`; the seed completes |
| `fleet` | 2 workers, 2 plans of 2 tasks, 1 fault, operator, fairness | a queue taken for complete is complete; a queue is served whatever happens to the other; workers end |
| `research` | 2 nodes, anchors at 0 and 1 updates, 1 attempt, 3 launches, 1 fault, fairness | one execution, anchors on one path, results of final inputs, true exit codes, `StudyDag`; nodes end |
| `information` | 2 launchers, 2 GPUs in opposite orders, 2 measurements, 2 attempts, 1 fault, fairness | GPUs exclusive, no ring of refusals, attempts counted, true exit codes; launchers end |
| `backup` | 2 watchers, 3 checkpoints, 4 publications, 2 generations kept, 1 fault, fairness | what a restore needs is there; the index is true; the newest checkpoint is backed up |
| `selection_resume` | 2 ranks, blocks of 3 and 1 prompts, 2 updates with 2 outcomes each, 1 restore, fairness | each rank trains on gradients of its own weights' rollouts, records of the model; training moves on, on a condition |
| `selection_slice` | the same 2 ranks and blocks, 1 update, 1 kill | disagreement, see below |
| `fleet_blocked` | 2 workers, 1 plan of 2 tasks, no fault | disagreement, see below |

Bounds. `MaxLaunches` exceeds what the faults of the queue can cause, so it never cuts a
claim short of the limit the code applies. One fault suffices for an orphan (the
teardown of a launcher's group may leave its ranks) and two for an orphan beside a new
attempt that fails in turn. Three candidates on two ranks give one rank two; two
attempts and two crashes leave the orphans of one beside the ranks of the next. Plans of
25 and 250 updates are scaled to blocks of two updates: what matters is a step inside a
block, a step at its border and three consecutive checks, the longest pattern the rule
knows. Two plans of two tasks are enough for a stop of one queue while the other one's
child runs, and for a parent and its child seen at different moments. Anchors at 0 and 1
give one that is published before the first update and one beside training. Two GPUs
listed in opposite orders are the smallest ring; a third measurement would only repeat
the second. Two generations kept and four publications of three checkpoints make pruning
happen, also of one that is published again. Three prompts on two ranks give a full and
a partial part, one prompt leaves a rank without any; two outcomes let a redone update
differ. `MaxKills` bounds only kills of attempts that saved no new rollout: the others
are unlimited, and progress has to come from what they saved. An attempt refused by a
record conflict is the last of a behaviour. Some cases lie outside these instances and
rest on the theorems: `queue_safety` has `SeedFirst = FALSE`; in `information`
an orphaned rank group without its torchrun would need a second fault; `research` gives each
condition one attempt; in `fleet` (`Supplied = {1, 2}`) the caches are there already, so
that the arms are the open tasks.

Fairness. Workers, ranks and launchers that can take a step eventually do: a rank that
hangs is ended by the NCCL timeout or the stall timeout, both of which end in an action
that is enabled all along. Strong fairness is assumed of taking a task (`Admit`,
`Begin`, `Try`) where a retry delay opens and closes the door: the delay ends, and the
task stays. `verify()` is called again at each claim and finish. `QueueServed` and
`WorkersEnd` of `Fleet` and `LaunchersEnd` of `InformationQueue` have the premise that
looks at a lease do not collide forever: two processes in lockstep could refuse each
other with their looks without end, and it is only the sleeps between the passes that
keep them out of step. In `ResearchQueue` the steps of all ranks share one fairness
condition, in `CheckpointBackup` some watcher scans again. `ArmRun` assumes that the
queue starts an unfinished task again, which `queue_shell` shows while retries last.
Faults, operator commands and restarts of workers are never owed.

### Disagreements found

Two runs expect a violation; each names a sentence of the repository.
- `selection_slice`: `selection_resume.py:167-169` says that an attempt which runs out of
  memory part way resumes after the last finished slice. On several ranks (the studies
  use four) it fails: rank 0 alone loads the saved gradients, the broadcast says only
  which prompts are done, and the other ranks skip these and return the block without them,
  which the engine refuses (`srgc.py:279-280`). Only rank 0 holds all gradients, and if
  it gets to write the whole block before torchrun ends it, the attempt after that reads it
  and goes on. `TrainingMovesOn` therefore has a condition: not for ever are such
  attempts ended before rank 0 has saved the block (`overtaken`). Nothing in the code
  sees to it. No update is trained on an incomplete or foreign block (`SelectionIsOwn`).
- `fleet_blocked`: a worker whose `verify()` came before another one published the cache
  mixes rows from before and after, and gives up with "failed task blocks remaining work"
  although nothing failed.

Others the models have in them, without a run of their own:
- `verify()` hashes the bundle (`cluster_queue.py:112`) before it looks for the seal
  (116-117). A seal that another worker sets in between is compared with the bundle from
  before, and "frozen inputs changed after cache completion" is raised although nothing
  changed (`vpc[w] = "raised"` in `CacheHandoff`, which `ReadyReached` has to except). In claim()
  and status() the exception ends the worker, in finish() it makes a successful attempt a
  failed one.
- `finish()` gives an interrupted attempt back, CLUSTER.md:405-407 counts it; and the
  refund is lost if the worker is killed between the two writes. `RetryBudget` states
  what the code keeps to.
- a `verify()` that is out of date relaunches a finished cache (`cluster_queue.py:201`;
  CLUSTER.md:156: "Existing verified caches and completed tasks are skipped"); no work is
  done, an attempt is spent. Same root as `fleet_blocked`.
- a kill between the last checkpoint and the progress file leaves a finished arm whose
  progress ends a block early.
- pruning that is cut short may leave a generation of the backup without its copy; when
  training publishes the very same bytes again, every later scan refuses them. `BackedUp`
  excludes this case by its premise.
- removal of a stale block that is cut short can leave rollouts without their
  fingerprint, which the next attempt takes for its own. This does no harm only because a
  redone update that differs is refused by the published record; for the same reason
  the fingerprint's mismatch (`selection_resume.py:148`) is never met while every update has
  its record.

## 5. Proofs

Every theorem holds for any values of the constants that satisfy the named assumption
of its module: `ConstantsAssumption` (`TaskQueue`, `CacheHandoff`), `IntervalAssumption`,
`PlanAssumption` and `NoneAssumption` (`ArmRun`), `FleetAssumption`, `ResearchAssumption`,
`InformationAssumption`, `BackupAssumption`, `SizesAssumption` (`SelectionResume`) and the
`NoneAssumption`s, which say that "no value" is not one of the values. TLC evaluates these
in each run. One theorem, `RestoreIsPossible`, has a premise besides.

`TaskQueueProofs.tla`. The safety properties are not inductive: that one execution runs
at a time follows from `exec` only together with who may hold it, and that a parent is
settled only from what a worker has seen and which leases are held. `IInv` joins types,
`LeaseOwned`, `LauncherCurrent`, `AttemptNumbers`, `ExecHeld`, `ParentSettled` and
`ResultPhases`; it holds initially, each action preserves each part (one lemma per group
of actions), and it implies `OneExecution`, `LauncherHoldsLease`, `ParentSettledFirst`,
`PrefixQuiet`; `PublishedOnce` and the refinement of `StudyDag` follow from `IInv` and
one step. `BudgetIsKept` adds what the retry limit rests on: attempts later than the
receipt's have no record, a worker that has claimed finds its receipt still running, and
an interruption is on record before the receipt is given its attempt back, so the
attempts never exceed the retry counter plus the interruptions on record, also when a
worker dies between the two writes.

`CacheHandoffProofs.tla`. That no receipt is replaced rests on the candidates' locks
(`WriterExclusive`: one rank holds a candidate, and one without a receipt), which an
attempt launched later does not know of; that an export is complete rests on what each
rank still has to do (`SharedOut`) and on the exclusion of rank 0s; that a ready worker
has the sealed bundle rests on the order of three writes and three reads (`Written`,
`Verified`). `HInv` joins these with `TypeOK`, `ExecExclusive` and `NotLaunched`. Two steps
are worth a look: after the export every receipt is there, so by `WriterExclusive` no
rank can be about to write one, and the bundle stays that of the receipts; and verify()
can only take `cache_ready` back where it was not set. The refinement of `WriteOnce`
follows.

`ArmRunProofs.tla`. The invariant joins `TypeOK`, `Control` (where a process is and what
it has in memory), `Counts` (a run is started again only after a kill), `Charges` (a
phase begun is charged, running, or has left its receipt unfinished), `ManifestHonest`,
`BlocksSound` and `Training`. A saved trajectory may only grow, which is clear while one
process trains, but a resumed one starts from a file: `Training` says that what is in
memory extends the checkpoint, or the released prefix, by updates of this run only, and
that the last update is saved before anything is published. `BlocksSound` says of every
state, in memory and saved, that its block begins where the block of its step begins,
and that all its On-policy updates used theirs; so `BlockIsCurrent` holds also for a
block taken up again in the middle.

The decision of the switch takes two steps. `RuleInv` of `TemporalRule` says that the
window is a function of the last two checks (`Remembers`) and that no check before the
last has triggered; with it the automaton and the documented rule agree for every
interval, step and value of D (`Documented`). `Decisions` says the same of the rule in
every state of the arm, in memory, in the checkpoint and in the endpoint: its window is
what the checks in that state's own history leave, one check was made at every scheduled
step until the switch, and the step of the switch is that of the one check which
triggers. It survives an update because the checks of a longer history are the old ones
and at most one later one (`ChecksOfNext`), so no earlier check changes its verdict; and
a resume because rule and history are saved together. `SwitchesByRule` is the part of it
a reader of a result sees.

`FleetProofs.tla`. A worker says "complete" of a queue after looking at its rows one at a
time. `FInv` says that a receipt says "complete" of published tasks only, that the rows a
worker has passed are published as long as it has read nothing but "complete", and that
the verdicts it keeps for other queues are true; published tasks are never taken back.

`ResearchQueueProofs.tla`. `RInv` joins `Work`, `NodeType`, `Prepared` and `PassTruthful`.
`Work` ties a rank's position to the lock it holds (`LockHeld`, `AtWork`) and says that what
is released lies on the path of the saved carrier, which what a carrier has in memory
extends (`ReleasedOnPath`, `CarrierOnPath`), and that a diagnostic branches from its
released anchor and the exported cache; `PassTruthful` says of each condition a node has
passed what its marks claim. Exclusion, anchors, results, exit codes and the
refinement of `StudyDag` follow.

`InformationQueueProofs.tla`. The invariant joins `TypeOK`, `Process` (who lives while
whom it started lives), `Leases`, `Counting` and `Ending`. Leases are disjoint, and are
taken in order, also by those that only look; so among all devices somebody waits for,
the one that is next is not in the hands of another one that waits (`NoRingOfRefusals`).
`GpuExclusive` needs more than the leases: ranks outlive the torchrun that holds them,
and it is the reaping under the leases that empties the devices. `Counting` ties the
attempts of a receipt to the failures seen and its "complete" to the endpoint, `Ending`
the marks of a sweep to both.

`CheckpointBackupProofs.tla`. `CopyTruthful` follows a copy from the file opened to the
index: what is about to be kept are bytes that file had, whatever training wrote into
it between the halves of the read. `Recoverable` needs more: receipts are dated in the
order of the saves (`Dated`), only the holder of the backup lease is inside a pass
(`Exclusive`), has named the newest checkpoint before it lists what to remove, and has
none of the last ones on that list (`Placed`); so these stay whole (`Kept`). `Dated` is where clocks come in, so the theorem
has the premise `ClocksAgree`: the watchers' clocks differ by less than the time
between two saves, the unit of `Skew`. Without it the statement is false, and TLC finds
the newest generation pruned.

`SelectionResumeProofs.tla`. That an update never trains on foreign rollouts looks like a
matter of fingerprints, but a directory that lost its fingerprint keeps its rollouts. What
carries the proof is that a step has one saved model: save() refuses a second record of
an update before its checkpoint, so two saved models of the same length would both be the
model of that record (`OneEach`). `Cached` therefore says of all that lies in a directory,
half deleted or not, that it is of a saved model of that step; `Saved` that the records
of every saved model are its own, with all groups. In memory, `Heard` and `Holds` say what
a rank may rely on where it is: what gradients it holds were drawn by the model's weights, and when
the engine has taken a block from it they are those of all its prompts (a rank that lacks one
has failed, so no invariant of the blocks before that is needed); it has heard the rollouts
of the parts it has been through, and no rank in a block before rank 0 has broadcast its state,
which is why a broadcast may replace what is in memory. After the update `Trained`
remembers that the model is a saved one and one update, with all groups captured. The
invariant gives `GradientsAreOwn` and `RecordsAreOfModel`, and also that all checkpoints
ever saved lie on one path (`SavedOnOnePath`) and that records are final
(`RecordsAreFinal`). It was checked by TLC on instances with two and three ranks before it
was proved.

Only model-checked: the liveness properties, eleven in all. Every safety property
of a passing run is a theorem. Statements under fairness, `ENABLED`, and induction
over what a recursive definition computes are out of this prover's reach; no module here
declares a `RECURSIVE` operator.

## 6. Not modelled

Of the queues:
- `ready_dispatch.py`, `resume_drain.py`, `model_chain.py`: they choose among queues like
  those modelled here and call their sweeps;
- manual `run` and `cache` commands, the `all` task, manual `collect`;
- the protocol upgrade of an unstarted queue (`bind.lock`), two dispatcher revisions
  at once, damaged evidence (`INVALID`), an error of `verify()` inside `finish()`;
- the admission benchmark, launch and probe over SSH, cluster status;
- in the model studies: the mixin that deletes a block when it returns, the cache of an
  evaluation, the retry after an out-of-memory error, archive and evaluation at curve
  boundaries; the features and trajectory conditions of a study;
- different clocks of the nodes, except that `Skew` lets the watchers of the backup
  differ (0 in the run, equal for all in the theorem; see the hazards).

Corners of the source the models contain and no property forbids: a worker may give up
while an orphan rank finishes the task; a lost node, or a launch that raises, leaves a
"running" receipt no attempt is charged for; the exit code "busy" (75) ends a node's
queue and charges nothing.

Everything else. The larger part of the repository has no state machine to check:
reports and figures are pure functions of published files, the torch backend and the
verifiers are numerical, and `src/` and most of `scripts/` are one-shot GPU programs of
earlier selection experiments (one process, a checkpoint per step, nobody to race with)
and text that prints their status. They take the larger share of the lines, and none of
the concurrency. `PROJECT.json` lists them under `components`.
