--------------------------- MODULE InformationQueue ---------------------------
(***************************************************************************)
(* The queue of the selection measurements, srgc_research/dispatch: every  *)
(* launcher sweeps over the tasks (information_queue.py), claims one under *)
(* its receipt's lock and runs information_cli.collect as a child, which   *)
(* locks the measurement and its GPUs and starts torchrun with its ranks.  *)
(*                                                                         *)
(* Locks are files that processes hold open: the claim is inherited by the *)
(* child, the measurement's lock and the device leases by torchrun, which  *)
(* has a session of its own and may outlive both.  An allocation is known  *)
(* by its launcher; allocations of one host may overlap.                   *)
(***************************************************************************)
EXTENDS Naturals, FiniteSets, Sequences, SequencesExt

CONSTANTS
    Launchers,    \* information_queue processes, one per allocation
    NumGpus,      \* GPUs of the host, numbered in the order of their UUIDs
    Alloc,        \* launcher -> its GPUs, as the allocation lists them
    NumTasks,     \* measurements
    Phases,       \* phases of a measurement, each saved on its own
    MaxAttempts,  \* max_attempts of sweep
    MaxFaults,    \* bound on failures, kills, lost hosts and signals
    Nobody        \* no launcher

ASSUME InformationAssumption ==
    /\ NumGpus \in Nat
    /\ Alloc \in [Launchers -> Seq(1..NumGpus) \ {<<>>}]
    /\ NumTasks \in Nat \ {0} /\ Phases \in Nat
    /\ MaxAttempts \in Nat \ {0} /\ MaxFaults \in Nat
    /\ Launchers \cap (1..NumTasks) = {}
    /\ Nobody \notin Launchers

Tasks == 1..NumTasks

VARIABLES
    pc,       \* launcher -> where it is in sweep() and main()
    at,       \* launcher -> the task of this sweep it is at
    marks,    \* launcher -> task -> what this sweep has counted it as
    receipt,  \* task -> .queue/<task>.json
    collect,  \* task -> its collect process
    home,     \* task -> the allocation that process was started on
    torch,    \* tasks whose torchrun runs
    rank,     \* task -> its ranks
    leased,   \* launcher's probe or task -> the device leases it holds
    phase,    \* task -> number of phases saved
    endpoint, \* tasks with an endpoint.json
    failures, \* task -> failed attempts since its receipt was replenished
    faults

launcherVars == <<pc, at, marks>>
runVars == <<collect, home, torch, rank>>
fileVars == <<phase, endpoint>>
vars == <<launcherVars, receipt, runVars, leased, fileVars, failures, faults>>

Ended == {"complete", "failed", "interrupted", "dead"}
Unswept == [t \in Tasks |-> "none"]
NoReceipt == [status |-> "none", attempt |-> 0, old |-> FALSE]

\* What an earlier queue may have left: an earlier dispatcher that had given up,
\* or this one, with an attempt left.
Failed(n, old) == [status |-> "failed", attempt |-> n, old |-> old]
Earlier == {NoReceipt, Failed(MaxAttempts, TRUE), Failed(MaxAttempts - 1, FALSE)}

Init ==
    /\ pc = [w \in Launchers |-> "sweep"]
    /\ at = [w \in Launchers |-> 1]
    /\ marks = [w \in Launchers |-> Unswept]
    /\ receipt \in [Tasks -> Earlier]
    /\ collect = [t \in Tasks |-> "none"]
    /\ home = [t \in Tasks |-> Nobody]
    /\ torch = {}
    /\ rank = [t \in Tasks |-> "none"]
    /\ leased = [a \in Launchers \cup Tasks |-> {}]
    /\ phase = [t \in Tasks |-> 0]
    /\ endpoint = {}
    /\ failures = [t \in Tasks |-> receipt[t].attempt]
    /\ faults = 0

-----------------------------------------------------------------------------
(* Locks.                                                                   *)

\* A collect process that has not ended holds the claim it inherited.
collecting(t) == collect[t] \in {"lock", "gpu", "refused", "ready", "run"}

claimed(t) ==
    \/ collecting(t)
    \/ \E w \in Launchers : at[w] = t /\ pc[w] \in {"judge", "reap", "avail", "refused", "start", "wait"}

\* .dispatch.lock and .execution.lock of a measurement nobody has claimed.
surviving(t) == t \in torch \/ rank[t] = "in"

allocation(a) == Alloc[IF a \in Launchers THEN a ELSE home[a]]
missing(a) == Range(allocation(a)) \ leased[a]

\* Mutant: in the order the allocation lists its devices.
nextListed(a) == allocation(a)[Min({i \in DOMAIN allocation(a) : allocation(a)[i] \in missing(a)})]

\* device_leases: the devices are locked one by one in the order of their UUIDs.
next(a) == Min(missing(a))
holders(g) == {a \in DOMAIN leased : g \in leased[a]}

Lease(a) == leased' = [leased EXCEPT ![a] = @ \cup {next(a)}]
Release(a) == leased' = [leased EXCEPT ![a] = {}]

\* reap_orphans: torchrun and ranks of the host without a live collect above them.
orphans == {t \in torch \cup {u \in Tasks : rank[u] # "none"} : ~collecting(t)}

-----------------------------------------------------------------------------
(* sweep().                                                                 *)

Fault == faults < MaxFaults /\ faults' = faults + 1

\* The task is counted, its claim is released, and the sweep goes on.
Count(w, mark) ==
    /\ marks' = [marks EXCEPT ![w][at[w]] = mark]
    /\ at' = [at EXCEPT ![w] = @ + 1]
    /\ pc' = [pc EXCEPT ![w] = "sweep"]

\* sweep() returns, and main() begins another one or ends.
Again(w, to) ==
    /\ pc' = [pc EXCEPT ![w] = to]
    /\ at' = [at EXCEPT ![w] = 1]
    /\ marks' = [marks EXCEPT ![w] = Unswept]

Look(w) ==
    /\ pc[w] = "sweep" /\ at[w] \in Tasks
    /\ IF claimed(at[w]) \/ surviving(at[w]) THEN Count(w, "busy")
       ELSE pc' = [pc EXCEPT ![w] = "judge"] /\ UNCHANGED <<at, marks>>
    /\ UNCHANGED <<receipt, runVars, leased, fileVars, failures, faults>>

Certify(w) ==
    LET t == at[w] IN
    /\ pc[w] = "judge"
    /\ t \in endpoint
    /\ receipt' = [receipt EXCEPT ![t].status = "complete"]
    /\ Count(w, "complete")
    /\ UNCHANGED <<runVars, leased, fileVars, failures, faults>>

\* A failure recorded by an earlier dispatcher gets its attempts back, once.
Replenish(w) ==
    LET t == at[w] IN
    /\ pc[w] = "judge" /\ t \notin endpoint
    /\ receipt[t].status = "failed" /\ receipt[t].old
    /\ receipt' = [receipt EXCEPT ![t] = Failed(0, FALSE)]
    /\ failures' = [failures EXCEPT ![t] = 0]
    /\ UNCHANGED <<launcherVars, runVars, leased, fileVars, faults>>

\* Mutant: an attempt that ended with its node stays spent.
attemptsCharged(t) == receipt[t].attempt

\* Node loss does not spend an attempt.
attempts(t) == receipt[t].attempt - (IF receipt[t].status = "running" THEN 1 ELSE 0)

\* No attempts left, or failed less than the retry delay ago: "finished" is 0
\* in a receipt that was replenished.
PassOver(w) ==
    LET t == at[w] IN
    /\ pc[w] = "judge" /\ t \notin endpoint
    /\ ~(receipt[t].status = "failed" /\ receipt[t].old)
    /\ \/ attempts(t) >= MaxAttempts /\ Count(w, "failed")
       \/ /\ attempts(t) < MaxAttempts
          /\ receipt[t].status = "failed" /\ receipt[t].attempt > 0
          /\ Count(w, "waiting")
    /\ UNCHANGED <<receipt, runVars, leased, fileVars, failures, faults>>

Try(w) ==
    LET t == at[w] IN
    /\ pc[w] = "judge" /\ t \notin endpoint
    /\ ~(receipt[t].status = "failed" /\ receipt[t].old)
    /\ attempts(t) < MaxAttempts
    /\ pc' = [pc EXCEPT ![w] = "reap"]
    /\ UNCHANGED <<at, marks, receipt, runVars, leased, fileVars, failures, faults>>

\* node_available() reaps the orphans of the host, then tries the device leases.
Reap(w) ==
    /\ pc[w] = "reap"
    /\ torch' = torch \ orphans
    /\ rank' = [t \in Tasks |-> IF t \in orphans THEN "none" ELSE rank[t]]
    /\ leased' = [a \in DOMAIN leased |-> IF a \in orphans THEN {} ELSE leased[a]]
    /\ pc' = [pc EXCEPT ![w] = "avail"]
    /\ UNCHANGED <<at, marks, receipt, collect, home, fileVars, failures, faults>>

\* One lease more; the last one is released with all others at once.
ProbeGpu(w) ==
    /\ pc[w] = "avail"
    /\ IF missing(w) = {}
       THEN Release(w) /\ pc' = [pc EXCEPT ![w] = "start"]
       ELSE IF holders(next(w)) = {} THEN Lease(w) /\ UNCHANGED pc
       ELSE pc' = [pc EXCEPT ![w] = "refused"] /\ UNCHANGED leased
    /\ UNCHANGED <<at, marks, receipt, runVars, fileVars, failures, faults>>

\* The node is busy: the sweep returns 75, and main() waits.
Unavailable(w) ==
    /\ pc[w] = "refused"
    /\ Release(w)
    /\ Again(w, "sweep")
    /\ UNCHANGED <<receipt, runVars, fileVars, failures, faults>>

Start(w) ==
    LET t == at[w] IN
    /\ pc[w] = "start"
    /\ receipt' = [receipt EXCEPT ![t] =
                     [status |-> "running", attempt |-> attempts(t) + 1, old |-> FALSE]]
    /\ collect' = [collect EXCEPT ![t] = "lock"]
    /\ home' = [home EXCEPT ![t] = w]
    /\ pc' = [pc EXCEPT ![w] = "wait"]
    /\ UNCHANGED <<at, marks, torch, rank, leased, fileVars, failures, faults>>

\* The child's exit code: 75 and the codes of SIGINT and SIGTERM spend no attempt.
outcome(t) ==
    CASE collect[t] = "busy" -> "busy" [] collect[t] = "stopped" -> "interrupted"
      [] collect[t] = "ok" -> "complete" [] OTHER -> "failed"
refund(t) == IF collect[t] \in {"busy", "stopped"} THEN 1 ELSE 0

\* The child has ended; main() ends with one that was stopped by a signal.
Receive(w) ==
    LET t == at[w] IN
    /\ pc[w] = "wait" /\ ~collecting(t)
    /\ receipt' = [receipt EXCEPT ![t].status = outcome(t), ![t].attempt = @ - refund(t)]
    /\ failures' = [failures EXCEPT ![t] = IF collect[t] = "error" THEN @ + 1 ELSE @]
    /\ collect' = [collect EXCEPT ![t] = "none"]
    /\ home' = [home EXCEPT ![t] = IF t \in torch \/ rank[t] # "none" THEN @ ELSE Nobody]
    /\ Again(w, IF collect[t] = "stopped" THEN "interrupted" ELSE "sweep")
    /\ UNCHANGED <<torch, rank, leased, fileVars, faults>>

\* Mutant: a task that others are busy with does not keep a launcher.
EndSweepHasty(w) ==
    LET is(m) == {t \in Tasks : marks[w][t] = m} IN
    /\ pc[w] = "sweep" /\ at[w] > NumTasks
    /\ Again(w, IF is("complete") = Tasks THEN "complete"
                ELSE IF is("failed") # {} /\ is("waiting") = {} THEN "failed" ELSE "sweep")
    /\ UNCHANGED <<receipt, runVars, leased, fileVars, failures, faults>>

\* Mutant: a launcher goes on until everything is complete.
EndSweepEndless(w) ==
    LET is(m) == {t \in Tasks : marks[w][t] = m} IN
    /\ pc[w] = "sweep" /\ at[w] > NumTasks
    /\ Again(w, IF is("complete") = Tasks THEN "complete" ELSE "sweep")
    /\ UNCHANGED <<receipt, runVars, leased, fileVars, failures, faults>>

\* main(): every task complete; every task complete or failed; or another sweep.
EndSweep(w) ==
    LET is(m) == {t \in Tasks : marks[w][t] = m} IN
    /\ pc[w] = "sweep" /\ at[w] > NumTasks
    /\ Again(w, IF is("complete") = Tasks THEN "complete"
                ELSE IF is("complete") \cup is("failed") = Tasks THEN "failed" ELSE "sweep")
    /\ UNCHANGED <<receipt, runVars, leased, fileVars, failures, faults>>

-----------------------------------------------------------------------------
(* collect() and its ranks.                                                 *)

become(t, c) == collect' = [collect EXCEPT ![t] = c]

\* The measurement's locks; one that is complete needs no GPU.
Lock(t) ==
    /\ collect[t] = "lock"
    /\ become(t, IF surviving(t) THEN "busy" ELSE IF t \in endpoint THEN "ok" ELSE "gpu")
    /\ UNCHANGED <<launcherVars, receipt, home, torch, rank, leased, fileVars, failures, faults>>

\* Mutant: only this queue's own lock directory is looked at.
TakeGpuAlone(t) ==
    /\ collect[t] = "gpu"
    /\ IF missing(t) = {} THEN become(t, "ready") /\ UNCHANGED leased
       ELSE Lease(t) /\ UNCHANGED collect
    /\ UNCHANGED <<launcherVars, receipt, home, torch, rank, fileVars, failures, faults>>

TakeGpu(t) ==
    /\ collect[t] = "gpu"
    /\ IF missing(t) = {} THEN become(t, "ready") /\ UNCHANGED leased
       ELSE IF holders(next(t)) = {} THEN Lease(t) /\ UNCHANGED collect
       ELSE become(t, "refused") /\ UNCHANGED leased
    /\ UNCHANGED <<launcherVars, receipt, home, torch, rank, fileVars, failures, faults>>

Refused(t) ==
    /\ collect[t] = "refused"
    /\ Release(t)
    /\ become(t, "busy")
    /\ UNCHANGED <<launcherVars, receipt, home, torch, rank, fileVars, failures, faults>>

\* The guarded run_child reaps once more, now under the device leases.
Launch(t) ==
    /\ collect[t] = "ready"
    /\ torch' = (torch \ orphans) \cup {t}
    /\ rank' = [u \in Tasks |-> IF u = t THEN "startup"
                                ELSE IF u \in orphans THEN "none" ELSE rank[u]]
    /\ leased' = [a \in DOMAIN leased |-> IF a \in orphans THEN {} ELSE leased[a]]
    /\ become(t, "run")
    /\ UNCHANGED <<launcherVars, receipt, home, fileVars, failures, faults>>

\* Ranks under the execution lock go on with the first phase not yet saved, and
\* leave it before they write the endpoint.
Measure(t) ==
    /\ \/ /\ rank[t] = "startup"
          /\ rank' = [rank EXCEPT ![t] = "in"] /\ UNCHANGED fileVars
       \/ /\ rank[t] = "in" /\ phase[t] < Phases
          /\ phase' = [phase EXCEPT ![t] = @ + 1] /\ UNCHANGED <<rank, endpoint>>
       \/ /\ rank[t] = "in" /\ phase[t] = Phases
          /\ rank' = [rank EXCEPT ![t] = "out"] /\ UNCHANGED fileVars
    /\ UNCHANGED <<launcherVars, receipt, collect, home, torch, leased, failures, faults>>

Publish(t) ==
    /\ rank[t] = "out"
    /\ endpoint' = endpoint \cup {t}
    /\ rank' = [rank EXCEPT ![t] = "none"]
    /\ UNCHANGED <<launcherVars, receipt, collect, home, torch, leased, phase, failures, faults>>

\* torchrun returns after its ranks, and collect after torchrun.
Return(t) ==
    /\ t \in torch /\ rank[t] = "none"
    /\ torch' = torch \ {t}
    /\ Release(t)
    /\ IF collect[t] = "run" THEN become(t, IF t \in endpoint THEN "ok" ELSE "error")
       ELSE UNCHANGED collect
    /\ UNCHANGED <<launcherVars, receipt, home, rank, fileVars, failures, faults>>

-----------------------------------------------------------------------------
(* Failures.                                                                *)

\* A rank fails or stalls: torchrun and collect end with it.
RunFails(t) ==
    /\ Fault
    /\ rank[t] # "none" /\ t \in torch
    /\ rank' = [rank EXCEPT ![t] = "none"]
    /\ UNCHANGED <<launcherVars, receipt, collect, home, torch, leased, fileVars, failures>>

\* Without a launcher that waits for it, nobody hears how a collect ended.
ends(t, c) == become(t, IF \E w \in Launchers : pc[w] = "wait" /\ at[w] = t THEN c ELSE "none")

\* SIGTERM or SIGINT to collect alone: run_child ends torchrun and its ranks.
CollectStopped(t) ==
    /\ Fault
    /\ collecting(t)
    /\ ends(t, "stopped")
    /\ torch' = torch \ {t}
    /\ rank' = [rank EXCEPT ![t] = "none"]
    /\ Release(t)
    /\ UNCHANGED <<launcherVars, receipt, home, fileVars, failures>>

\* collect alone is killed: torchrun goes on with locks and leases.
CollectKilled(t) ==
    /\ Fault
    /\ collecting(t)
    /\ ends(t, "error")
    /\ leased' = [leased EXCEPT ![t] = IF t \in torch THEN @ ELSE {}]
    /\ UNCHANGED <<launcherVars, receipt, home, torch, rank, fileVars, failures>>

\* torchrun alone is killed: collect ends its ranks; without it they stay.
TorchKilled(t) ==
    /\ Fault
    /\ t \in torch
    /\ torch' = torch \ {t}
    /\ Release(t)
    /\ IF collecting(t) THEN rank' = [rank EXCEPT ![t] = "none"] /\ become(t, "error")
       ELSE UNCHANGED <<rank, collect>>
    /\ UNCHANGED <<launcherVars, receipt, home, fileVars, failures>>

\* SIGTERM or SIGINT while a task runs: its collect is ended, within the grace
\* period with its torchrun, or killed without.  The attempt is not spent.
Interrupt(w) ==
    LET t == at[w] IN
    /\ Fault
    /\ pc[w] = "wait" /\ collecting(t)
    /\ receipt' = [receipt EXCEPT ![t].status = "interrupted", ![t].attempt = @ - 1]
    /\ become(t, "none")
    /\ \/ /\ torch' = torch \ {t} /\ rank' = [rank EXCEPT ![t] = "none"] /\ Release(t)
       \/ t \in torch /\ UNCHANGED <<torch, rank, leased>>
    /\ Again(w, "interrupted")
    /\ UNCHANGED <<home, fileVars, failures>>

\* The launcher alone dies; a child keeps its claim.
LauncherDies(w) ==
    /\ Fault
    /\ pc[w] \notin Ended
    /\ Again(w, "dead")
    /\ Release(w)
    /\ collect' = [t \in Tasks |-> IF pc[w] = "wait" /\ at[w] = t /\ ~collecting(t)
                                   THEN "none" ELSE collect[t]]
    /\ UNCHANGED <<receipt, home, torch, rank, fileVars, failures>>

\* The host is lost with every process on it.
HostLost ==
    /\ Fault
    /\ pc' = [w \in Launchers |-> "dead"]
    /\ at' = [w \in Launchers |-> 1]
    /\ marks' = [w \in Launchers |-> Unswept]
    /\ collect' = [t \in Tasks |-> "none"]
    /\ home' = [t \in Tasks |-> Nobody]
    /\ torch' = {}
    /\ rank' = [t \in Tasks |-> "none"]
    /\ leased' = [a \in DOMAIN leased |-> {}]
    /\ UNCHANGED <<receipt, fileVars, failures>>

Restart(w) ==
    /\ pc[w] \in {"interrupted", "dead"}
    /\ Again(w, "sweep")
    /\ UNCHANGED <<receipt, runVars, leased, fileVars, failures, faults>>

-----------------------------------------------------------------------------
LauncherStep(w) ==
    \/ Look(w) \/ Certify(w) \/ Replenish(w) \/ PassOver(w) \/ Reap(w) \/ ProbeGpu(w)
    \/ Unavailable(w) \/ Start(w) \/ Receive(w) \/ EndSweep(w)
TaskStep(t) ==
    Lock(t) \/ TakeGpu(t) \/ Refused(t) \/ Launch(t) \/ Measure(t) \/ Publish(t) \/ Return(t)
Failure ==
    \/ \E w \in Launchers : Interrupt(w) \/ LauncherDies(w)
    \/ \E t \in Tasks : RunFails(t) \/ CollectStopped(t) \/ CollectKilled(t) \/ TorchKilled(t)
    \/ HostLost

Next ==
    \/ \E w \in Launchers : LauncherStep(w) \/ Try(w) \/ Restart(w)
    \/ \E t \in Tasks : TaskStep(t)
    \/ Failure

Spec == Init /\ [][Next]_vars

\* Live processes go on, and the retry delay ends.
Fairness ==
    /\ \A w \in Launchers : WF_vars(LauncherStep(w)) /\ SF_vars(Try(w))
    /\ \A t \in Tasks : WF_vars(TaskStep(t))
FairSpec == Spec /\ Fairness

-----------------------------------------------------------------------------
(* Properties.                                                              *)

\* Ranks of two measurements never share a GPU: not when allocations overlap,
\* nor when torchrun or ranks outlive the processes that held their locks.
gpusOf(t) == Range(Alloc[home[t]])
GpuExclusive ==
    \A s, t \in Tasks : s # t /\ rank[s] # "none" /\ rank[t] # "none" =>
        gpusOf(s) \cap gpusOf(t) = {}

\* Of those that compete for overlapping devices, one is not refused: no
\* group refuses each other in a ring and goes away with nothing.
refused(a) == IF a \in Launchers THEN pc[a] = "refused" ELSE collect[a] = "refused"
SomeoneProceeds ==
    \A group \in SUBSET {a \in DOMAIN leased : refused(a)} : group # {} =>
        \E a \in group : \A b \in group : next(a) \notin leased[b]

\* Whatever was busy, interrupted, killed or lost: the attempts a receipt counts
\* are the failures a launcher has seen, since the dispatcher last changed.
AttemptsAreFailures ==
    \A t \in Tasks : receipt[t].status # "complete" =>
        receipt[t].attempt = failures[t] + (IF receipt[t].status = "running" THEN 1 ELSE 0)

\* A launcher ends with 0 when everything is measured in all its phases, and with
\* 1 when whatever is not has used up its attempts, also those it got back.
EndsTruthfully ==
    \A w \in Launchers, t \in Tasks :
        /\ pc[w] = "complete" => t \in endpoint /\ phase[t] = Phases
        /\ pc[w] = "failed" =>
              t \in endpoint \/ (failures[t] >= MaxAttempts /\ ~receipt[t].old)

\* Every launcher ends: no claim, lease, orphan or receipt keeps it sweeping for
\* ever, unless looks at claims and probes of devices go on refusing each other.
looking(v, w) == /\ v # w /\ at[v] = at[w] /\ at[v] \in Tasks
                 /\ pc[v] = "sweep" /\ pc[w] \in {"judge", "reap", "avail", "refused"}
probed(t) == refused(t) /\ \E w \in Launchers : next(t) \in leased[w]
collision == (\E v, w \in Launchers : looking(v, w)) \/ (\E t \in Tasks : probed(t))
LaunchersEnd ==
    <>[]~collision => \A w \in Launchers : []<>(pc[w] \in Ended)
=============================================================================
