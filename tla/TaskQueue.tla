------------------------------ MODULE TaskQueue ------------------------------
(***************************************************************************)
(* The shared-storage task queue of srgc_rebuttal: workers on several      *)
(* nodes take the tasks cache -> prefix -> arms of every seed under POSIX  *)
(* leases, launch one torchrun per attempt, and keep a receipt per task    *)
(* and a record per attempt.  The queue (cluster_queue.py), the worker     *)
(* loop (cluster.py) and rank 0 of a launched task (run_experiment.py,     *)
(* build_cache.py) are modelled with the crashes between their steps.      *)
(*                                                                         *)
(* A lease is a flock on an open file description.  The torchrun launcher  *)
(* inherits the worker's descriptor, so the lease outlives a killed worker *)
(* until the launcher is gone too; the ranks do not inherit it, and may    *)
(* outlive both.  lease[t] is the set of processes that hold the locked    *)
(* description open (the worker, and the launcher by its attempt number);  *)
(* the lease is free when the set is empty.                                *)
(***************************************************************************)
EXTENDS Naturals, FiniteSets

CONSTANTS
    Workers,      \* worker processes, one per allocated node
    Seeds,        \* the seeds of the frozen plan
    Arms,         \* the continuation arms of the plan
    MaxAttempts,  \* --max-attempts
    RetryFailed,  \* --retry-failed
    SeedFirst,    \* the shell worker: SeedFirstQueue and run_worker_multi
    MaxLaunches,  \* bound on the attempt ids of one task
    MaxFaults,    \* bound on crashes, signals, operator stops and restarts
    None          \* no task

ASSUME ConstantsAssumption ==
    /\ MaxAttempts \in Nat
    /\ MaxLaunches \in Nat
    /\ MaxFaults \in Nat
    /\ RetryFailed \in BOOLEAN
    /\ SeedFirst \in BOOLEAN
    /\ "cache" \notin Arms
    /\ "prefix" \notin Arms
    /\ Workers \cap (1..MaxLaunches) = {}
    /\ None \notin Seeds \X ({"cache", "prefix"} \cup Arms)

-----------------------------------------------------------------------------
(* Tasks and their order: the DAG of one seed never meets another seed's.   *)

Tasks == Seeds \X ({"cache", "prefix"} \cup Arms)

Cache(s)  == <<s, "cache">>
Prefix(s) == <<s, "prefix">>

dependency(t) ==
    IF t[2] = "cache" THEN None
    ELSE IF t[2] = "prefix" THEN Cache(t[1]) ELSE Prefix(t[1])

Launches == 1..MaxLaunches

-----------------------------------------------------------------------------
VARIABLES
    lease,     \* task -> processes holding the locked lease description open
    receipt,   \* task -> .queue/tasks/<task>.json
    history,   \* task -> attempt -> status in .queue/attempts/<id>.json
    wpc,       \* worker -> where it is in run_worker
    seen,      \* worker -> seeds whose cache its last verify() found complete
    wtask,     \* worker -> the task it has claimed, or None
    outcome,   \* worker -> how its child ended, as run_worker saw it
    torch,     \* task -> attempt -> its torchrun launcher
    rank,      \* task -> attempt -> its rank 0
    exec,      \* task -> attempt whose rank 0 holds .execution.lock, or 0
    artifact,  \* task -> attempt that wrote prefix.pt / the bundle / endpoint
    marker,    \* task -> artifact named by the completion receipt, or 0
    stop,      \* stop.json: "none", "drain", or "now" (immediate)
    faults     \* faults injected so far

fileVars  == <<artifact, marker>>
queueVars == <<lease, receipt, history>>
runVars   == <<torch, rank, exec>>
vars == <<lease, receipt, history, wpc, seen, wtask, outcome, torch, rank,
          exec, artifact, marker, stop, faults>>

Held     == {"claiming", "claimed", "running", "finishing", "recording"}
Terminal == {"stopped", "failed", "complete", "dead"}
InLock   == {"recheck", "work", "publish", "leave"}
Alive    == {"startup", "lock"} \cup InLock
Outcomes == {"ok", "error", "interrupt", "raise"}

Statuses == {"none", "running", "complete", "interrupted", "failed"}
NoReceipt == [status |-> "none", attempt |-> 0, retry |-> 0]

TypeOK ==
    /\ lease \in [Tasks -> SUBSET (Workers \cup Launches)]
    /\ receipt \in [Tasks -> [status : Statuses, attempt : 0..MaxLaunches,
                              retry : 0..MaxLaunches]]
    /\ history \in [Tasks -> [Launches ->
            {"none", "abandoned", "complete", "interrupted", "failed"}]]
    /\ wpc \in [Workers -> {"poll", "scan"} \cup Held \cup Terminal]
    /\ seen \in [Workers -> SUBSET Seeds]
    /\ wtask \in [Workers -> Tasks \cup {None}]
    /\ outcome \in [Workers -> {"none"} \cup Outcomes]
    /\ torch \in [Tasks -> [Launches -> {"none", "up", "ok", "err"}]]
    /\ rank \in [Tasks -> [Launches -> {"none", "ok", "err"} \cup Alive]]
    /\ exec \in [Tasks -> 0..MaxLaunches]
    /\ artifact \in [Tasks -> 0..MaxLaunches]
    /\ marker \in [Tasks -> 0..MaxLaunches]
    /\ stop \in {"none", "drain", "now"}
    /\ faults \in 0..MaxFaults

Init ==
    /\ lease = [t \in Tasks |-> {}]
    /\ receipt = [t \in Tasks |-> NoReceipt]
    /\ history = [t \in Tasks |-> [n \in Launches |-> "none"]]
    /\ wpc = [w \in Workers |-> "poll"]
    /\ seen = [w \in Workers |-> {}]
    /\ wtask = [w \in Workers |-> None]
    /\ outcome = [w \in Workers |-> "none"]
    /\ torch = [t \in Tasks |-> [n \in Launches |-> "none"]]
    /\ rank = [t \in Tasks |-> [n \in Launches |-> "none"]]
    /\ exec = [t \in Tasks |-> 0]
    /\ artifact = [t \in Tasks |-> 0]
    /\ marker = [t \in Tasks |-> 0]
    /\ stop = "none"
    /\ faults = 0

-----------------------------------------------------------------------------
(* What the queue reads on shared storage.                                  *)

complete(t) == marker[t] # 0

locked(t) == lease[t] # {}

\* The answer a worker's own queue object gives: verify() looked at the caches
\* once, at the start of the claim; prefixes and endpoints are looked up again.
completeSeen(w, t) == t[1] \in seen[w] /\ complete(t)

\* Mutant: the dependency is not looked at.
readyAlways(done, t) == TRUE

\* SeedFirstQueue releases the arms while the prefix's launcher still exits.
\* done is the set of tasks taken as complete.
ready(done, t) ==
    LET parent == dependency(t)
    IN  parent # None => /\ parent \in done
                         /\ ~locked(parent) \/ (SeedFirst /\ parent[2] = "prefix")

doneSeen(w) == {t \in Tasks : completeSeen(w, t)}
doneNow == {t \in Tasks : complete(t)}

\* Mutant: one attempt more than --max-attempts.
claimableOnceMore(w, t) ==
    /\ ~completeSeen(w, t) /\ ready(doneSeen(w), t) /\ ~locked(t)
    /\ receipt[t].retry <= MaxAttempts
    /\ receipt[t].status = "failed" => RetryFailed

\* Mutant: a receipt that says "running" is believed.
claimableOwned(w, t) ==
    /\ ~completeSeen(w, t) /\ ready(doneSeen(w), t) /\ ~locked(t)
    /\ receipt[t].retry < MaxAttempts
    /\ receipt[t].status \in {"none", "interrupted", "failed"}

\* The tests of claim() on one task: those before the lease, the lease itself,
\* and those on the receipt under it.  --retry-delay is left to the choice of
\* the moment at which the claim happens.
claimable(w, t) ==
    /\ ~completeSeen(w, t)
    /\ ready(doneSeen(w), t)
    /\ ~locked(t)
    /\ receipt[t].retry < MaxAttempts
    /\ receipt[t].status = "failed" => RetryFailed

status(t) ==
    IF locked(t) THEN "running"
    ELSE IF complete(t) THEN "complete"
    ELSE IF ~ready(doneNow, t) THEN "waiting"
    ELSE IF receipt[t].retry >= MaxAttempts THEN "attempts_exhausted"
    ELSE IF receipt[t].status = "running" THEN "recoverable"
    ELSE IF receipt[t].status = "none" THEN "ready"
    ELSE receipt[t].status

blocked ==
    /\ ~ (RetryFailed /\ \E t \in Tasks : status(t) = "failed")
    /\ \A t \in Tasks :
         status(t) \notin {"running", "ready", "recoverable", "interrupted"}

-----------------------------------------------------------------------------
(* The worker: run_worker, TaskQueue.claim and TaskQueue.finish.            *)

\* claim() begins with verify(), which notes the caches that are complete.
Verify(w) ==
    /\ wpc[w] = "poll" /\ stop = "none"
    /\ wpc' = [wpc EXCEPT ![w] = "scan"]
    /\ seen' = [seen EXCEPT ![w] = {s \in Seeds : complete(Cache(s))}]
    /\ UNCHANGED <<queueVars, wtask, outcome, runVars, fileVars, stop, faults>>

\* The lease is taken and an attempt whose receipt still says "running" (its
\* worker died, or the lease would be held) is recorded as abandoned.
Claim(w, t) ==
    /\ wpc[w] = "scan"
    /\ claimable(w, t)
    /\ receipt[t].attempt < MaxLaunches
    /\ lease' = [lease EXCEPT ![t] = @ \cup {w}]
    /\ history' = IF receipt[t].status = "running"
                  THEN [history EXCEPT ![t][receipt[t].attempt] = "abandoned"]
                  ELSE history
    /\ wpc' = [wpc EXCEPT ![w] = "claiming"]
    /\ wtask' = [wtask EXCEPT ![w] = t]
    /\ seen' = [seen EXCEPT ![w] = {}]
    /\ UNCHANGED <<receipt, outcome, runVars, fileVars, stop, faults>>

Record(w) ==
    LET t == wtask[w] IN
    /\ wpc[w] = "claiming"
    /\ receipt' = [receipt EXCEPT ![t] = [status  |-> "running",
                                          attempt |-> @.attempt + 1,
                                          retry   |-> @.retry + 1]]
    /\ wpc' = [wpc EXCEPT ![w] = "claimed"]
    /\ UNCHANGED <<lease, history, seen, wtask, outcome, runVars, fileVars, stop, faults>>

\* Mutant: the lease descriptor is not among pass_fds.
StartChildAlone(w) ==
    LET t == wtask[w]
        n == receipt[t].attempt
    IN
    /\ wpc[w] = "claimed"
    /\ torch' = [torch EXCEPT ![t][n] = "up"]
    /\ rank' = [rank EXCEPT ![t][n] = IF t[2] = "cache" THEN "lock" ELSE "startup"]
    /\ wpc' = [wpc EXCEPT ![w] = "running"]
    /\ UNCHANGED <<queueVars, seen, wtask, outcome, exec, fileVars, stop, faults>>

\* run_child starts torchrun with the lease descriptor among its pass_fds.
StartChild(w) ==
    LET t == wtask[w]
        n == receipt[t].attempt
    IN
    /\ wpc[w] = "claimed"
    /\ lease' = [lease EXCEPT ![t] = @ \cup {n}]
    /\ torch' = [torch EXCEPT ![t][n] = "up"]
    /\ rank' = [rank EXCEPT ![t][n] = IF t[2] = "cache" THEN "lock" ELSE "startup"]
    /\ wpc' = [wpc EXCEPT ![w] = "running"]
    /\ UNCHANGED <<receipt, history, seen, wtask, outcome, exec, fileVars, stop, faults>>

\* gpu_identity raises before the child exists: finish(task, 130), then raise.
DeviceBusy(w) ==
    /\ wpc[w] = "claimed"
    /\ faults < MaxFaults /\ faults' = faults + 1
    /\ outcome' = [outcome EXCEPT ![w] = "raise"]
    /\ wpc' = [wpc EXCEPT ![w] = "finishing"]
    /\ UNCHANGED <<queueVars, seen, wtask, runVars, fileVars, stop>>

ChildExit(w) ==
    LET t == wtask[w]
        n == receipt[t].attempt
    IN
    /\ wpc[w] = "running"
    /\ torch[t][n] \in {"ok", "err"}
    /\ outcome' = [outcome EXCEPT ![w] = IF torch[t][n] = "ok" THEN "ok" ELSE "error"]
    /\ wpc' = [wpc EXCEPT ![w] = "finishing"]
    /\ UNCHANGED <<queueVars, seen, wtask, runVars, fileVars, stop, faults>>

\* run_child's finally: SIGTERM, 30 s, SIGKILL to the launcher's session.  The
\* ranks have sessions of their own: rank 0 dies with the launcher, or stays.
KillGroup(t, n) ==
    /\ torch' = [torch EXCEPT ![t][n] = IF @ = "up" THEN "err" ELSE @]
    /\ lease' = [lease EXCEPT ![t] = @ \ {n}]
    /\ \/ UNCHANGED <<rank, exec>>
       \/ /\ rank[t][n] \in Alive
          /\ rank' = [rank EXCEPT ![t][n] = "err"]
          /\ exec' = [exec EXCEPT ![t] = IF @ = n THEN 0 ELSE @]

\* `cluster stop --now`, or SIGTERM / SIGINT: KeyboardInterrupt in run_child.
InterruptChild(w) ==
    /\ wpc[w] = "running"
    /\ \/ stop = "now" /\ UNCHANGED faults
       \/ faults < MaxFaults /\ faults' = faults + 1
    /\ KillGroup(wtask[w], receipt[wtask[w]].attempt)
    /\ outcome' = [outcome EXCEPT ![w] = "interrupt"]
    /\ wpc' = [wpc EXCEPT ![w] = "finishing"]
    /\ UNCHANGED <<receipt, history, seen, wtask, fileVars, stop>>

\* No progress for stall_seconds: TimeoutError.  run_worker gives finish(task, 130)
\* and raises; the shell worker gives finish(task, 124) and goes on.
StallChild(w) ==
    /\ wpc[w] = "running"
    /\ torch[wtask[w]][receipt[wtask[w]].attempt] = "up"
    /\ faults < MaxFaults /\ faults' = faults + 1
    /\ KillGroup(wtask[w], receipt[wtask[w]].attempt)
    /\ outcome' = [outcome EXCEPT ![w] = IF SeedFirst THEN "error" ELSE "raise"]
    /\ wpc' = [wpc EXCEPT ![w] = "finishing"]
    /\ UNCHANGED <<receipt, history, seen, wtask, fileVars, stop>>

finishStatus(w, t) ==
    IF outcome[w] = "ok" /\ complete(t) THEN "complete"
    ELSE IF outcome[w] = "interrupt" THEN "interrupted" ELSE "failed"

\* finish() writes the attempt's record first, the task's receipt second.
FinishAttempt(w) ==
    LET t == wtask[w] IN
    /\ wpc[w] = "finishing"
    /\ history' = [history EXCEPT ![t][receipt[t].attempt] = finishStatus(w, t)]
    /\ wpc' = [wpc EXCEPT ![w] = "recording"]
    /\ UNCHANGED <<lease, receipt, seen, wtask, outcome, runVars, fileVars, stop, faults>>

\* An interruption is refunded: it does not spend a retry.  The claim's context
\* then unlocks the description, whoever else still has it open.
FinishReceipt(w) ==
    LET t == wtask[w]
        refunded == history[t][receipt[t].attempt] = "interrupted"
    IN
    /\ wpc[w] = "recording"
    /\ receipt' = [receipt EXCEPT ![t] =
            [status  |-> history[t][@.attempt],
             attempt |-> @.attempt,
             retry   |-> IF refunded /\ @.retry > 0 THEN @.retry - 1 ELSE @.retry]]
    /\ lease' = [lease EXCEPT ![t] = {}]
    /\ wpc' = [wpc EXCEPT ![w] = CASE outcome[w] = "interrupt" -> "stopped"
                                   [] outcome[w] = "raise"     -> "failed"
                                   [] OTHER                    -> "poll"]
    /\ wtask' = [wtask EXCEPT ![w] = None]
    /\ outcome' = [outcome EXCEPT ![w] = "none"]
    /\ UNCHANGED <<history, seen, runVars, fileVars, stop, faults>>

\* claim() yielded None: the worker ends when everything is complete, raises
\* when a failure blocks the rest, and otherwise polls again.
NothingToClaim(w) ==
    /\ wpc[w] = "scan"
    /\ ~ \E t \in Tasks : claimable(w, t)
    /\ wpc' = [wpc EXCEPT ![w] =
            IF \A t \in Tasks : status(t) = "complete" THEN "complete"
            ELSE IF blocked THEN "failed" ELSE "poll"]
    /\ seen' = [seen EXCEPT ![w] = {}]
    /\ UNCHANGED <<queueVars, wtask, outcome, runVars, fileVars, stop, faults>>

StopSeen(w) ==
    /\ wpc[w] = "poll" /\ stop # "none"
    /\ wpc' = [wpc EXCEPT ![w] = "stopped"]
    /\ UNCHANGED <<queueVars, seen, wtask, outcome, runVars, fileVars, stop, faults>>

-----------------------------------------------------------------------------
(* Rank 0 of an attempt, and its torchrun launcher.                         *)

\* run_experiment.startup: decided before the execution lock is held.
Startup(t, n) ==
    /\ rank[t][n] = "startup"
    /\ rank' = [rank EXCEPT ![t][n] =
            IF complete(t) THEN "ok"
            ELSE IF t[2] = "prefix" /\ artifact[Cache(t[1])] = 0 THEN "err"
            ELSE IF t[2] \in Arms /\ ~complete(Prefix(t[1])) THEN "err"
            ELSE "lock"]
    /\ UNCHANGED <<queueVars, wpc, seen, wtask, outcome, torch, exec, fileVars, stop, faults>>

\* Mutant: no execution lock.
LockExecBlind(t, n) ==
    /\ rank[t][n] = "lock"
    /\ exec' = [exec EXCEPT ![t] = n]
    /\ rank' = [rank EXCEPT ![t][n] = "recheck"]
    /\ UNCHANGED <<queueVars, wpc, seen, wtask, outcome, torch, fileVars, stop, faults>>

\* The execution lock is tried once, without waiting.
LockExec(t, n) ==
    /\ rank[t][n] = "lock"
    /\ exec[t] = 0
    /\ exec' = [exec EXCEPT ![t] = n]
    /\ rank' = [rank EXCEPT ![t][n] = "recheck"]
    /\ UNCHANGED <<queueVars, wpc, seen, wtask, outcome, torch, fileVars, stop, faults>>

LockBusy(t, n) ==
    /\ rank[t][n] = "lock"
    /\ exec[t] # 0
    /\ rank' = [rank EXCEPT ![t][n] = "err"]
    /\ UNCHANGED <<queueVars, wpc, seen, wtask, outcome, torch, exec, fileVars, stop, faults>>

\* Mutant: what startup saw before the lock is believed under it.
RecheckSkipped(t, n) ==
    /\ rank[t][n] = "recheck"
    /\ rank' = [rank EXCEPT ![t][n] =
            IF t[2] = "cache" /\ artifact[t] # 0 THEN "publish" ELSE "work"]
    /\ UNCHANGED <<queueVars, wpc, seen, wtask, outcome, torch, exec, fileVars, stop, faults>>

\* Under the lock the result is looked up again.  An exported bundle whose cost
\* summary is missing gets its summary; a prefix.pt without its receipt is redone.
Recheck(t, n) ==
    /\ rank[t][n] = "recheck"
    /\ rank' = [rank EXCEPT ![t][n] =
            IF t[2] = "cache" THEN IF artifact[t] # 0 THEN "publish" ELSE "work"
            ELSE IF complete(t) THEN "leave" ELSE "work"]
    /\ UNCHANGED <<queueVars, wpc, seen, wtask, outcome, torch, exec, fileVars, stop, faults>>

\* The task's own computation, up to export_cache or save(prefix.pt).
Work(t, n) ==
    /\ rank[t][n] = "work"
    /\ artifact' = IF t[2] \in Arms THEN artifact ELSE [artifact EXCEPT ![t] = n]
    /\ rank' = [rank EXCEPT ![t][n] = "publish"]
    /\ UNCHANGED <<queueVars, wpc, seen, wtask, outcome, torch, exec, marker, stop, faults>>

\* cost-summary.json and prefix-ready.json name the digest of the file they
\* complete; an endpoint is result and receipt in one atomic write.
Publish(t, n) ==
    /\ rank[t][n] = "publish"
    /\ artifact' = IF t[2] \in Arms THEN [artifact EXCEPT ![t] = n] ELSE artifact
    /\ marker' = [marker EXCEPT ![t] = artifact'[t]]
    /\ rank' = [rank EXCEPT ![t][n] = "leave"]
    /\ UNCHANGED <<queueVars, wpc, seen, wtask, outcome, torch, exec, stop, faults>>

Leave(t, n) ==
    /\ rank[t][n] = "leave"
    /\ exec' = [exec EXCEPT ![t] = 0]
    /\ rank' = [rank EXCEPT ![t][n] = "ok"]
    /\ UNCHANGED <<queueVars, wpc, seen, wtask, outcome, torch, fileVars, stop, faults>>

\* torchrun returns once its ranks have ended; its descriptor closes with it.
Reap(t, n) ==
    /\ torch[t][n] = "up"
    /\ rank[t][n] \in {"ok", "err"}
    /\ torch' = [torch EXCEPT ![t][n] = rank[t][n]]
    /\ lease' = [lease EXCEPT ![t] = @ \ {n}]
    /\ UNCHANGED <<receipt, history, wpc, seen, wtask, outcome, rank, exec, fileVars, stop, faults>>

-----------------------------------------------------------------------------
(* The environment: crashes and the operator, MaxFaults of them at most.    *)

Fault == faults < MaxFaults /\ faults' = faults + 1

RankCrash(t, n) ==
    /\ Fault
    /\ rank[t][n] \in Alive
    /\ rank' = [rank EXCEPT ![t][n] = "err"]
    /\ exec' = [exec EXCEPT ![t] = IF @ = n THEN 0 ELSE @]
    /\ UNCHANGED <<queueVars, wpc, seen, wtask, outcome, torch, fileVars, stop>>

\* The launcher alone is killed: its rank stays, and holds no lease.
TorchrunCrash(t, n) ==
    /\ Fault
    /\ torch[t][n] = "up"
    /\ torch' = [torch EXCEPT ![t][n] = "err"]
    /\ lease' = [lease EXCEPT ![t] = @ \ {n}]
    /\ UNCHANGED <<receipt, history, wpc, seen, wtask, outcome, rank, exec, fileVars, stop>>

\* SIGKILL of the worker alone: a launcher it started keeps the lease.
WorkerCrash(w) ==
    /\ Fault
    /\ wpc[w] \notin Terminal
    /\ lease' = [t \in Tasks |-> lease[t] \ {w}]
    /\ wpc' = [wpc EXCEPT ![w] = "dead"]
    /\ wtask' = [wtask EXCEPT ![w] = None]
    /\ outcome' = [outcome EXCEPT ![w] = "none"]
    /\ seen' = [seen EXCEPT ![w] = {}]
    /\ UNCHANGED <<receipt, history, runVars, fileVars, stop>>

\* stop.json is written, or removed again by `cluster resume`.
Stop ==
    /\ Fault
    /\ stop' \in {"drain", "now"}
    /\ UNCHANGED <<queueVars, wpc, seen, wtask, outcome, runVars, fileVars>>

Resume ==
    /\ stop # "none" /\ stop' = "none"
    /\ UNCHANGED <<queueVars, wpc, seen, wtask, outcome, runVars, fileVars, faults>>

\* A new worker process on the node of one that ended.
Restart(w) ==
    /\ Fault
    /\ stop = "none"
    /\ wpc[w] \in {"stopped", "failed", "dead"}
    /\ wpc' = [wpc EXCEPT ![w] = "poll"]
    /\ UNCHANGED <<queueVars, seen, wtask, outcome, runVars, fileVars, stop>>

-----------------------------------------------------------------------------
WorkerStep(w) ==
    \/ Verify(w)
    \/ \E t \in Tasks : Claim(w, t)
    \/ Record(w) \/ StartChild(w) \/ ChildExit(w) \/ (stop = "now" /\ InterruptChild(w))
    \/ FinishAttempt(w) \/ FinishReceipt(w) \/ NothingToClaim(w) \/ StopSeen(w)

RankStep(t, n) ==
    \/ Startup(t, n) \/ LockExec(t, n) \/ LockBusy(t, n) \/ Recheck(t, n)
    \/ Work(t, n) \/ Publish(t, n) \/ Leave(t, n)

WorkerFault(w) ==
    \/ DeviceBusy(w) \/ InterruptChild(w) \/ StallChild(w)
    \/ WorkerCrash(w) \/ Restart(w)

Next ==
    \/ \E w \in Workers : WorkerStep(w) \/ WorkerFault(w)
    \/ \E t \in Tasks, n \in Launches :
          RankStep(t, n) \/ Reap(t, n) \/ RankCrash(t, n) \/ TorchrunCrash(t, n)
    \/ Stop \/ Resume

Spec == Init /\ [][Next]_vars

\* A live worker keeps polling, a live rank keeps computing (NCCL and stall
\* timeouts end a hung one), and a launcher reaps its ranks.  Faults, the
\* operator's Resume and Restart are owed to nobody.
Fairness ==
    /\ \A w \in Workers : WF_vars(WorkerStep(w))
    /\ \A t \in Tasks, n \in Launches : WF_vars(RankStep(t, n) \/ Reap(t, n))

FairSpec == Spec /\ Fairness

-----------------------------------------------------------------------------
(* Properties.                                                              *)

\* A published result is never written again: no attempt, orphan or manual
\* overlap replaces prefix.pt, a cache bundle or an endpoint once its receipt
\* exists, so every arm of a seed starts from the same prefix bytes.
PublishedOnce ==
    [][\A t \in Tasks : marker[t] # 0 =>
            marker'[t] = marker[t] /\ artifact'[t] = artifact[t]]_vars

\* At most one rank 0 of a task is past its execution lock, however many
\* orphans of earlier attempts are alive.
OneExecution ==
    \A t \in Tasks : \A m, n \in Launches :
        rank[t][m] \in InLock /\ rank[t][n] \in InLock => m = n

\* A launcher that is alive holds its task's lease: killing the worker alone
\* does not free the task (CLUSTER.md, "the child launcher inherits ...").
LauncherHoldsLease ==
    \A t \in Tasks, n \in Launches : torch[t][n] = "up" => n \in lease[t]

\* Nobody works on a result while a task that consumes it runs: a second cache
\* attempt launched from a stale verify(), or an orphan of the parent, may be
\* alive beside the child, but it generates and trains nothing.
ParentSettledFirst ==
    \A t \in Tasks : \A m, n \in Launches :
        dependency(t) # None /\ rank[t][n] \in Alive => rank[dependency(t)][m] # "work"

\* Unless SeedFirstQueue waives it, no launcher of an arm runs beside a launcher
\* of its prefix: the prefix's costs are closed before an arm begins.
PrefixQuiet ==
    \A t \in Tasks : \A m, n \in Launches :
        ~SeedFirst /\ t[2] \in Arms /\ torch[t][n] = "up" => torch[Prefix(t[1])][m] # "up"

\* An attempt is only charged to a task that has retries left, and a refund is
\* given once: launches never exceed the limit plus the interruptions on record.
RetryBudget ==
    \A t \in Tasks :
        receipt[t].attempt <=
            MaxAttempts + Cardinality({n \in Launches : history[t][n] = "interrupted"})

\* The queue implements the study's DAG: each step publishes one task whose
\* parent is published, or publishes nothing.
Dag == INSTANCE StudyDag WITH
    Dependency <- [t \in Tasks |-> dependency(t)],
    published  <- {t \in Tasks : complete(t)}
ImplementsDag == Dag!Spec

\* A task that is abandoned (its receipt says running, nobody holds its lease)
\* is taken up again by any worker that stays, unless its retries are spent.
Abandoned(t) ==
    receipt[t].status = "running" /\ ~locked(t) /\ ~complete(t)
    /\ receipt[t].retry < MaxAttempts
AbandonedRecovered ==
    \A t \in Tasks :
        Abandoned(t) ~> (~Abandoned(t) \/ \A w \in Workers : wpc[w] \in Terminal)

\* Every worker ends: no dead process's lease, orphan or receipt leaves a worker
\* polling for ever.
WorkersEnd == \A w \in Workers : <>[](wpc[w] \in Terminal)

-----------------------------------------------------------------------------
(* The inductive invariant behind the safety properties.                    *)

\* A worker between claim and release owns its task's lease, alone.
LeaseOwned ==
    /\ \A w \in Workers : wpc[w] \in Held => wtask[w] \in Tasks /\ w \in lease[wtask[w]]
    /\ \A t \in Tasks : \A w \in Workers :
          w \in lease[t] => wpc[w] \in Held /\ wtask[w] = t
    /\ \A t \in Tasks : \A v, w \in Workers : v \in lease[t] /\ w \in lease[t] => v = w

\* The launcher that is alive is the latest attempt's; it shares the lease, and
\* its worker, if still there, is waiting for it.
LauncherCurrent ==
    \A t \in Tasks : \A n \in Launches :
        /\ torch[t][n] = "up" <=> n \in lease[t]
        /\ torch[t][n] = "up" =>
             /\ n = receipt[t].attempt
             /\ \A w \in Workers : w \in lease[t] => wpc[w] = "running"

\* Attempt numbers stay inside the bound a claim has checked, and a worker that
\* writes a receipt has recorded how its attempt ended.
AttemptNumbers ==
    /\ \A t \in Tasks : receipt[t].retry <= receipt[t].attempt
    /\ \A w \in Workers : wpc[w] = "claiming" => receipt[wtask[w]].attempt < MaxLaunches
    /\ \A w \in Workers : wpc[w] \in Held \ {"claiming"} => receipt[wtask[w]].attempt > 0
    /\ \A w \in Workers : wpc[w] = "recording" =>
          history[wtask[w]][receipt[wtask[w]].attempt] \in {"complete", "interrupted", "failed"}

ExecHeld ==
    \A t \in Tasks : \A n \in Launches : rank[t][n] \in InLock => exec[t] = n

\* Only a task whose parent is published is ever worked on, and, unless the
\* prefix's teardown is waived, nobody holds or retakes the lease of the prefix
\* of a running arm: a worker's view of the caches is never ahead of them.
parentDone(t) ==
    LET parent == dependency(t) IN parent # None => complete(parent)
parentFree(t) ==
    ~SeedFirst /\ t[2] \in Arms => lease[Prefix(t[1])] = {}
ParentSettled ==
    /\ \A w \in Workers : \A s \in seen[w] : complete(Cache(s))
    /\ \A w \in Workers : wpc[w] \in Held => parentDone(wtask[w]) /\ parentFree(wtask[w])
    /\ \A t \in Tasks : \A n \in Launches : rank[t][n] \in Alive => parentDone(t)
    /\ \A t \in Tasks : \A n \in Launches :
          torch[t][n] = "up" => parentDone(t) /\ parentFree(t)

\* Under the execution lock, work is only done on an unpublished task, and a
\* cache's summary is only written over an exported bundle.
ResultPhases ==
    /\ \A t \in Tasks : marker[t] # 0 => marker[t] = artifact[t]
    /\ \A t \in Tasks : \A n \in Launches :
          /\ rank[t][n] = "work" => marker[t] = 0 /\ (t[2] = "cache" => artifact[t] = 0)
          /\ rank[t][n] = "publish" => /\ t[2] # "cache" => marker[t] = 0
                                       /\ t[2] \notin Arms => artifact[t] # 0

IInv ==
    /\ TypeOK
    /\ LeaseOwned
    /\ LauncherCurrent
    /\ AttemptNumbers
    /\ ExecHeld
    /\ ParentSettled
    /\ ResultPhases
=============================================================================
