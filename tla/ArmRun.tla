-------------------------------- MODULE ArmRun --------------------------------
(***************************************************************************)
(* The training of one seed: the shared prefix and the arms that continue  *)
(* it, each a process of run_experiment.py that drives an Engine (srgc.py),*)
(* saves checkpoints, is killed and started again, and publishes a result. *)
(*                                                                         *)
(* A task has one process at a time (OneExecution of TaskQueue).  A model  *)
(* is known by its trajectory: the runs that made its updates, in order.   *)
(* GPU kernels are not reproducible, so an update or a contrast D redone   *)
(* after a crash need not come out as before: D is chosen anew.            *)
(***************************************************************************)
EXTENDS SwitchRule

CONSTANTS
    Arms,               \* continuation arms: on_policy, switch, sr, random
    P,                  \* shared_prefix_updates
    Total,              \* total_updates
    SelectionInterval,  \* selection_interval
    FirstCheck,         \* first_check; Interval is check_interval
    PrefixEvery,        \* updates between two saves of the prefix
    ArmEvery,           \* updates between two saves of an arm
    Block,              \* updates between two progress files of an arm
    Contrasts,          \* values of D
    MaxCrashes          \* bound on killed processes

ASSUME PlanAssumption ==
    /\ Arms \subseteq {"on_policy", "switch", "sr", "random"}
    /\ {P, Total, SelectionInterval, FirstCheck, PrefixEvery, ArmEvery, Block} \subseteq Nat \ {0}
    /\ P < Total
    /\ FirstCheck % Interval = 0 /\ Interval % SelectionInterval = 0
    /\ Block % ArmEvery = 0 /\ P % PrefixEvery = 0
    /\ Contrasts \subseteq Int /\ MaxCrashes \in Nat

Rules   == [last : Nat \cup {None}, window : Seq(Int), switched : BOOLEAN]
Records == [step : Nat, d : Int \cup {None}, on : BOOLEAN, block : Nat \cup {None}, run : Nat]
States  == [step : Nat, theta : Seq(Nat), rule : Rules, switched_at : Nat \cup {None},
            active : Nat \cup {None}, history : Seq(Records)]
Results == [state : States, prefix : States, measured : BOOLEAN]

\* No state, result or trajectory is None.
ASSUME NoneAssumption == None \notin States \cup Results \cup Seq(Nat)

Tasks == Arms \cup {"prefix"}

VARIABLES
    pc,           \* task -> where its process is, or "off"
    run,          \* task -> runs started so far
    engine,       \* task -> the Engine in memory, or None
    checkpoint,   \* task -> the state in <task>-latest.pt, or None
    prefixPt,     \* the state in prefix.pt, or None
    prefixReady,  \* the state whose digest is in prefix-ready.json, or None
    progress,     \* arm -> step in <arm>-progress.json, or 0
    endpoint,     \* arm -> <arm>-endpoint.json, or None
    manifest,     \* status in run.json, or "none"
    begun,        \* task -> training phases started
    charged,      \* task -> training phases with a finished receipt
    unfinished,   \* task -> a phase receipt of a killed run was left unfinished
    crashes

diskVars == <<checkpoint, prefixPt, prefixReady, progress, endpoint, manifest>>
costVars == <<begun, charged, unfinished>>
vars == <<pc, run, engine, diskVars, costVars, crashes>>

Metered == {"setup", "updating", "saving", "saved", "evaluating"}
Points  == Metered \cup {"off", "loop", "progress", "ready", "endpoint", "finalize", "refused"}

-----------------------------------------------------------------------------
(* The engine.                                                              *)

onArm(t) == t \in {"on_policy", "switch", "prefix"}

newEngine ==
    [step |-> 0, theta |-> <<>>, rule |-> NewRule, switched_at |-> None,
     active |-> None, history |-> <<>>]

\* A fork shares the model and the sampling state, and starts its own history.
fork(s) == [s EXCEPT !.rule = NewRule, !.switched_at = None, !.history = <<>>]

\* Mutant: the temporal window is not part of a checkpoint.
snapshotNoRule(s) == [s EXCEPT !.rule = NewRule]

\* state_dict()
snapshot(s) == s

\* load_state_dict() of a state for task t: the checks it raises on.
accepts(t, s, forked) ==
    LET continuing_on == onArm(t) /\ (forked \/ s.switched_at = None)
    IN  /\ IF t = "prefix" THEN s.step <= P ELSE s.step \in P..Total
        /\ s.active # None => s.active % SelectionInterval = 0 /\ s.active < s.step
        /\ continuing_on /\ s.step % SelectionInterval # 0 =>
               s.active # None /\ s.step - s.active < SelectionInterval

uses_on(t, s)   == onArm(t) /\ s.switched_at = None

\* Mutant: a selection that is there is not refreshed.
refreshesOnce(t, s) == uses_on(t, s) /\ s.step % SelectionInterval = 0 /\ s.active = None

refreshes(t, s) == uses_on(t, s) /\ s.step % SelectionInterval = 0

check_due(t, s) ==
    /\ refreshes(t, s) /\ t = "switch"
    /\ s.step >= FirstCheck /\ s.step % Interval = 0

\* update() and TemporalRule.observe() raise.
raises(t, s) ==
    \/ uses_on(t, s) /\ ~refreshes(t, s) /\ s.active = None
    \/ check_due(t, s) /\ ~observable(s.rule, s.step)

\* The engine after update(), with contrast d if a check is due.
updated(t, s, d) ==
    LET rule  == IF check_due(t, s) THEN observe(s.rule, s.step, d) ELSE s.rule
        at    == IF check_due(t, s) /\ rule.switched THEN s.step ELSE s.switched_at
        block == IF refreshes(t, s) THEN s.step ELSE s.active
        on    == uses_on(t, s) /\ at = None
    IN  [step |-> s.step + 1, theta |-> Append(s.theta, run[t]), rule |-> rule,
         switched_at |-> at, active |-> block,
         history |-> Append(s.history,
             [step |-> s.step, d |-> d, on |-> on,
              block |-> IF on THEN block ELSE None, run |-> run[t]])]

-----------------------------------------------------------------------------
Init ==
    /\ pc = [t \in Tasks |-> "off"]
    /\ run = [t \in Tasks |-> 0]
    /\ engine = [t \in Tasks |-> None]
    /\ checkpoint = [t \in Tasks |-> None]
    /\ prefixPt = None /\ prefixReady = None
    /\ progress = [a \in Arms |-> 0]
    /\ endpoint = [a \in Arms |-> None]
    /\ manifest = "none"
    /\ begun = [t \in Tasks |-> 0]
    /\ charged = [t \in Tasks |-> 0]
    /\ unfinished = [t \in Tasks |-> FALSE]
    /\ crashes = 0

goto(t, place) == pc' = [pc EXCEPT ![t] = place]

complete(t) == IF t = "prefix" THEN prefixReady # None ELSE endpoint[t] # None

allArms == \A a \in Arms : endpoint[a] # None

\* Mutant: any endpoint completes the run.
finalizedByOne == IF \E a \in Arms : endpoint[a] # None THEN "complete" ELSE manifest

\* finalize_seed()
finalized == IF allArms THEN "complete" ELSE manifest

\* main(): the task is not complete, its execution lock is free, and run.json
\* is written by the first task.
Start(t) ==
    /\ pc[t] = "off" /\ (t = "prefix" \/ prefixReady # None) /\ ~complete(t)
    /\ run' = [run EXCEPT ![t] = @ + 1]
    /\ manifest' = IF manifest = "none" THEN "running" ELSE manifest
    /\ goto(t, "setup")
    /\ UNCHANGED <<engine, checkpoint, prefixPt, prefixReady, progress, endpoint, costVars, crashes>>

\* Mutant: a run never looks for its own checkpoint.
RestoreNothing(t) ==
    LET s == IF t = "prefix" THEN newEngine ELSE fork(prefixPt)
    IN  /\ pc[t] = "setup"
        /\ engine' = [engine EXCEPT ![t] = s]
        /\ goto(t, IF accepts(t, s, TRUE) THEN "loop" ELSE "refused")
        /\ UNCHANGED <<run, diskVars, costVars, crashes>>

\* The own checkpoint is resumed, else the prefix forked.  A prefix.pt that
\* differs from its receipt is refused.
Restore(t) ==
    LET saved == checkpoint[t]
        s     == IF saved # None THEN saved
                 ELSE IF t = "prefix" THEN newEngine ELSE fork(prefixPt)
        valid == /\ t # "prefix" => prefixPt = prefixReady /\ prefixPt.step = P
                 /\ (saved = None /\ t = "prefix") \/ accepts(t, s, saved = None)
    IN  /\ pc[t] = "setup"
        /\ engine' = [engine EXCEPT ![t] = s]
        /\ goto(t, IF valid THEN "loop" ELSE "refused")
        /\ UNCHANGED <<run, diskVars, costVars, crashes>>

target(t) == IF t = "prefix" THEN P ELSE Total

Begin(t) ==
    /\ pc[t] = "loop" /\ engine[t].step < target(t)
    /\ begun' = [begun EXCEPT ![t] = @ + 1]
    /\ goto(t, "updating")
    /\ UNCHANGED <<run, engine, diskVars, charged, unfinished, crashes>>

saves(t, step) ==
    IF t = "prefix" THEN step % PrefixEvery = 0
    ELSE step % ArmEvery = 0 \/ step = Total

Update(t) ==
    LET s == engine[t]
    IN  /\ pc[t] = "updating"
        /\ IF raises(t, s)
           THEN goto(t, "refused") /\ UNCHANGED <<engine, charged>>
           ELSE /\ \E d \in IF check_due(t, s) THEN Contrasts ELSE {None} :
                       engine' = [engine EXCEPT ![t] = updated(t, s, d)]
                /\ charged' = [charged EXCEPT ![t] = @ + 1]
                /\ goto(t, IF saves(t, s.step + 1) THEN "saving" ELSE "loop")
        /\ UNCHANGED <<run, diskVars, begun, unfinished, crashes>>

\* Inside the checkpoint_save phase the file is replaced atomically.
Save(t) ==
    /\ pc[t] = "saving"
    /\ checkpoint' = [checkpoint EXCEPT ![t] = snapshot(engine[t])]
    /\ goto(t, "saved")
    /\ UNCHANGED <<run, engine, prefixPt, prefixReady, progress, endpoint, manifest, costVars, crashes>>

EndSave(t) ==
    /\ pc[t] = "saved"
    /\ goto(t, IF t # "prefix" /\ (engine[t].step % Block = 0 \/ engine[t].step = Total)
               THEN "progress" ELSE "loop")
    /\ UNCHANGED <<run, engine, diskVars, costVars, crashes>>

WriteProgress(t) ==
    /\ pc[t] = "progress"
    /\ progress' = [progress EXCEPT ![t] = engine[t].step]
    /\ goto(t, "loop")
    /\ UNCHANGED <<run, engine, checkpoint, prefixPt, prefixReady, endpoint, manifest, costVars, crashes>>

WritePrefix(t) ==
    /\ t = "prefix" /\ pc[t] = "loop" /\ engine[t].step = P
    /\ prefixPt' = snapshot(engine[t])
    /\ goto(t, "ready")
    /\ UNCHANGED <<run, engine, checkpoint, prefixReady, progress, endpoint, manifest, costVars, crashes>>

WriteReady(t) ==
    /\ pc[t] = "ready"
    /\ prefixReady' = prefixPt
    /\ goto(t, "off") /\ engine' = [engine EXCEPT ![t] = None]
    /\ UNCHANGED <<run, checkpoint, prefixPt, progress, endpoint, manifest, costVars, crashes>>

Evaluate(t) ==
    /\ t \in Arms /\ pc[t] = "loop" /\ engine[t].step = Total
    /\ goto(t, "evaluating")
    /\ UNCHANGED <<run, engine, diskVars, costVars, crashes>>

EndEvaluate(t) ==
    /\ pc[t] = "evaluating"
    /\ goto(t, "endpoint")
    /\ UNCHANGED <<run, engine, diskVars, costVars, crashes>>

\* Mutant: the totals of this run alone.
measuredByRun(t) == pc[t] \notin Metered

\* PhaseLedger.totals(): complete when no receipt was left unfinished.
measured(t) == ~unfinished[t]

WriteEndpoint(t) ==
    /\ pc[t] = "endpoint"
    /\ endpoint' = [endpoint EXCEPT ![t] =
           [state |-> engine[t], prefix |-> prefixReady, measured |-> measured(t)]]
    /\ goto(t, "finalize")
    /\ UNCHANGED <<run, engine, checkpoint, prefixPt, prefixReady, progress, manifest, costVars, crashes>>

Finalize(t) ==
    /\ pc[t] = "finalize"
    /\ manifest' = finalized
    /\ goto(t, "off") /\ engine' = [engine EXCEPT ![t] = None]
    /\ UNCHANGED <<run, checkpoint, prefixPt, prefixReady, progress, endpoint, costVars, crashes>>

\* Mutant: the workers' reports leave run.json alone.
PublishReportsOnly == allArms /\ manifest # "complete" /\ UNCHANGED vars

\* A worker that finds every task complete finalizes the seed.
PublishReports ==
    /\ allArms /\ manifest # "complete"
    /\ manifest' = finalized
    /\ UNCHANGED <<pc, run, engine, checkpoint, prefixPt, prefixReady, progress, endpoint, costVars, crashes>>

\* The process is killed.
Crash(t) ==
    /\ crashes < MaxCrashes /\ crashes' = crashes + 1
    /\ pc[t] \notin {"off", "refused"}
    /\ unfinished' = [unfinished EXCEPT ![t] = @ \/ pc[t] \in Metered]
    /\ goto(t, "off") /\ engine' = [engine EXCEPT ![t] = None]
    /\ UNCHANGED <<run, diskVars, begun, charged>>

TaskStep(t) ==
    \/ Start(t) \/ Restore(t) \/ Begin(t) \/ Update(t)
    \/ Save(t) \/ EndSave(t) \/ WriteProgress(t) \/ WritePrefix(t) \/ WriteReady(t)
    \/ Evaluate(t) \/ EndEvaluate(t) \/ WriteEndpoint(t) \/ Finalize(t)

Next == PublishReports \/ \E t \in Tasks : TaskStep(t) \/ Crash(t)

Spec == Init /\ [][Next]_vars

\* A process goes on, and the queue starts an unfinished task again.
FairSpec == Spec /\ WF_vars(PublishReports) /\ \A t \in Tasks : WF_vars(TaskStep(t))
-----------------------------------------------------------------------------
(* Properties.                                                              *)

\* The states of task t in memory and on disk.
states(t) ==
    ({engine[t], checkpoint[t]} \cup IF complete(t) /\ t # "prefix" THEN {endpoint[t].state} ELSE {})
        \ {None}

checksOf(s) == {s.history[i] : i \in {i \in 1..Len(s.history) : s.history[i].d # None}}
scheduled(n) == n >= FirstCheck /\ n % Interval = 0

\* The switch decision is the documented rule's on the arm's own checks, one at
\* every scheduled step until the switch, also when some were made by runs that
\* were killed; training uses SR from the deciding update on.
SwitchByRule ==
    \A t \in Arms \cap {"switch"} : \A s \in states(t) :
        LET checks == checksOf(s)
            ended  == IF s.switched_at = None THEN s.step - 1 ELSE s.switched_at
        IN  /\ {c.step : c \in {c \in checks : Triggers(checks, c)}} = {s.switched_at} \ {None}
            /\ {c.step : c \in checks} = {n \in P..ended : scheduled(n)}
            /\ \A i \in 1..Len(s.history) :
                  /\ s.history[i].step = P + i - 1
                  /\ s.history[i].on <=> (s.switched_at = None \/ s.history[i].step < s.switched_at)

\* An On-policy update trains on the block of its own selection interval.
BlockIsCurrent ==
    \A a \in Arms : \A s \in states(a) : \A i \in 1..Len(s.history) :
        LET r == s.history[i]
        IN  r.on => r.block = r.step - (r.step % SelectionInterval)

\* A result that reports complete costs was charged for every training phase any
\* of its runs began.
MeasuredIsAll ==
    \A a \in Arms : endpoint[a] # None /\ endpoint[a].measured => charged[a] = begun[a]

\* run.json says complete only when every arm has its result.
ManifestHonest == manifest = "complete" => allArms

\* The saved trajectories grow, the arms share one prefix, results are complete.
trajectory(s) == IF s = None THEN None ELSE s.theta
T == INSTANCE Trajectory WITH
    Runs     <- 1..(MaxCrashes + 1),
    saved    <- [t \in Tasks |-> trajectory(checkpoint[t])],
    released <- trajectory(prefixReady),
    result   <- [a \in Arms |-> IF endpoint[a] = None THEN None ELSE endpoint[a].state.theta]
ImplementsTrajectory == T!Spec

\* Killed runs are made up for: the seed completes.
SeedCompletes == <>(manifest = "complete")
=============================================================================
