-------------------------------- MODULE Fleet --------------------------------
(***************************************************************************)
(* Several plans served by one pool of workers: the pass of                *)
(* run_worker_multi (scripts/srgc_multi_queue.py) over its queues, with    *)
(* claim() and status() of cluster_queue.py read by read.                  *)
(*                                                                         *)
(* TaskQueue looks at all tasks of a queue in one moment.  Here a worker   *)
(* walks over them: verify() notes once whether the cache is complete,     *)
(* each receipt, lease and result is looked at later, and locked() asks    *)
(* about a lease by taking it.  While one worker asks, the lease is busy   *)
(* for the others.                                                         *)
(***************************************************************************)
EXTENDS Naturals, FiniteSets

CONSTANTS
    Workers,      \* worker processes, one per allocated node
    NumQueues,    \* plans, in the order of preference
    NumTasks,     \* tasks of a plan: 1 the cache, 2 the prefix, then an arm
    Supplied,     \* queues whose plan comes with its rewards: nothing to cache
    MaxAttempts,  \* --max-attempts
    RetryFailed,  \* --retry-failed
    MaxFaults,    \* bound on failing children, lost nodes, stops and resumes
    Nobody        \* no holder of a lease

ASSUME FleetAssumption ==
    /\ NumQueues \in Nat \ {0}
    /\ NumTasks \in Nat \ {0}
    /\ Supplied \subseteq 1..NumQueues
    /\ MaxAttempts \in Nat \ {0}
    /\ RetryFailed \in BOOLEAN
    /\ MaxFaults \in Nat
    /\ Nobody \notin Workers

Queues == 1..NumQueues
Tasks  == Queues \X (1..NumTasks)

VARIABLES
    lease,    \* task -> the worker that holds its lock file, or Nobody
    done,     \* published tasks
    receipt,  \* task -> .queue/tasks/<task>.json
    stop,     \* queue -> stop.json: "none", "drain", or "now" (immediate)
    pc,       \* worker -> where it is in run_worker_multi
    wq,       \* worker -> the queue of this pass it is at
    row,      \* worker -> the task of that queue it is at
    seen,     \* worker -> cache_ready of that queue, set by verify()
    record,   \* worker -> the receipt status() has read for this row
    rows,     \* worker -> the states of the rows so far
    verdict,  \* worker -> queue -> what this pass found
    faults    \* of these, so far

filesVars == <<done, receipt, stop>>
passVars  == <<wq, row, seen, record, rows, verdict>>
vars == <<lease, done, receipt, stop, pc, passVars, faults>>

Ended == {"complete", "stopped", "failed", "interrupted", "lost"}
NoReceipt == [status |-> "ready", retry |-> 0]
Unknown == [q \in Queues |-> "none"]

TypeOK ==
    /\ lease \in [Tasks -> Workers \cup {Nobody}]
    /\ done \subseteq Tasks
    /\ receipt \in [Tasks -> [status : {"ready", "running", "complete", "interrupted", "failed"},
                              retry : Nat]]
    /\ stop \in [Queues -> {"none", "drain", "now"}]
    /\ pc \in [Workers -> {"queue", "verify", "look", "unlook", "take", "held", "run",
                           "exited", "leave", "quit", "status", "read", "probe",
                           "unprobe", "parent", "unparent"} \cup Ended]
    /\ wq \in [Workers -> 1..NumQueues + 1]
    /\ row \in [Workers -> 1..NumTasks]
    /\ seen \in [Workers -> BOOLEAN]
    /\ verdict \in [Workers -> [Queues -> {"none", "stopped", "complete", "blocked", "idle"}]]

\* Some of the queues may be stopped already, not all: the worker would not begin.
Init ==
    /\ lease = [t \in Tasks |-> Nobody]
    /\ done = Supplied \X {1}
    /\ receipt = [t \in Tasks |-> NoReceipt]
    /\ stop \in {s \in [Queues -> {"none", "drain"}] : \E q \in Queues : s[q] = "none"}
    /\ pc = [w \in Workers |-> "queue"]
    /\ wq = [w \in Workers |-> 1]
    /\ row = [w \in Workers |-> 1]
    /\ seen = [w \in Workers |-> FALSE]
    /\ record = [w \in Workers |-> NoReceipt]
    /\ rows = [w \in Workers |-> {}]
    /\ verdict = [w \in Workers |-> Unknown]
    /\ faults = 0

-----------------------------------------------------------------------------
(* What a worker reads.                                                     *)

task(w)   == <<wq[w], row[w]>>
parent(t) == <<t[1], t[2] - 1>>

\* complete(): nothing is complete before verify() has seen the cache.
complete(w, t) == seen[w] /\ t \in done

free(t) == lease[t] = Nobody

\* The next task of claim()'s loop, or its end: the queue has nothing to claim.
NextTask(w) ==
    IF row[w] < NumTasks
    THEN row' = [row EXCEPT ![w] = @ + 1] /\ pc' = [pc EXCEPT ![w] = "look"]
    ELSE row' = [row EXCEPT ![w] = 1] /\ pc' = [pc EXCEPT ![w] = "status"]

\* The state status() gives a row that is neither locked, complete nor waiting.
restStatus(w) ==
    IF record[w].retry >= MaxAttempts THEN "attempts_exhausted"
    ELSE IF record[w].status = "running" THEN "recoverable"
    ELSE record[w].status

\* Mutant: a task without retries counts as finished.
verdictOfLenient(states) ==
    IF states \subseteq {"complete", "attempts_exhausted", "waiting"} THEN "complete"
    ELSE "idle"

\* A failed row of status() still has retries (else it would be exhausted).
verdictOf(states) ==
    IF states = {"complete"} THEN "complete"
    ELSE IF ~ (RetryFailed /\ "failed" \in states)
            /\ states \cap {"running", "ready", "recoverable", "interrupted"} = {}
    THEN "blocked" ELSE "idle"

\* A row is noted; after the last one the pass knows what the queue is.
Note(w, state) ==
    LET states == rows[w] \cup {state} IN
    /\ record' = [record EXCEPT ![w] = NoReceipt]
    /\ IF row[w] < NumTasks
       THEN /\ rows' = [rows EXCEPT ![w] = states]
            /\ row' = [row EXCEPT ![w] = @ + 1]
            /\ pc' = [pc EXCEPT ![w] = "read"]
            /\ UNCHANGED <<wq, seen, verdict>>
       ELSE /\ rows' = [rows EXCEPT ![w] = {}]
            /\ seen' = [seen EXCEPT ![w] = FALSE]
            /\ row' = [row EXCEPT ![w] = 1]
            /\ verdict' = [verdict EXCEPT ![w][wq[w]] = verdictOf(states)]
            /\ wq' = [wq EXCEPT ![w] = @ + 1]
            /\ pc' = [pc EXCEPT ![w] = "queue"]

-----------------------------------------------------------------------------
(* claim().                                                                 *)

\* Mutant: one stopped queue stops the pass.
EnterQueueGlobal(w) ==
    /\ pc[w] = "queue" /\ wq[w] \in Queues
    /\ IF \E q \in Queues : stop[q] # "none"
       THEN /\ verdict' = [verdict EXCEPT ![w][wq[w]] = "stopped"]
            /\ wq' = [wq EXCEPT ![w] = @ + 1]
            /\ UNCHANGED pc
       ELSE pc' = [pc EXCEPT ![w] = "verify"] /\ UNCHANGED <<verdict, wq>>
    /\ UNCHANGED <<lease, filesVars, row, seen, record, rows, faults>>

\* A stopped queue counts as finished in this pass.
EnterQueue(w) ==
    /\ pc[w] = "queue" /\ wq[w] \in Queues
    /\ IF stop[wq[w]] # "none"
       THEN /\ verdict' = [verdict EXCEPT ![w][wq[w]] = "stopped"]
            /\ wq' = [wq EXCEPT ![w] = @ + 1]
            /\ UNCHANGED pc
       ELSE pc' = [pc EXCEPT ![w] = "verify"] /\ UNCHANGED <<verdict, wq>>
    /\ UNCHANGED <<lease, filesVars, row, seen, record, rows, faults>>

\* verify(), at the start of claim() and again of status().
Verify(w) ==
    /\ pc[w] \in {"verify", "status"}
    /\ seen' = [seen EXCEPT ![w] = <<wq[w], 1>> \in done]
    /\ pc' = [pc EXCEPT ![w] = IF @ = "verify" THEN "look" ELSE "read"]
    /\ UNCHANGED <<lease, filesVars, wq, row, record, rows, verdict, faults>>

\* complete(task), ready(task): the parent's lease is taken to see it is free.
Look(w) ==
    LET t == task(w) IN
    /\ pc[w] = "look"
    /\ IF complete(w, t) \/ (t[2] > 1 /\ ~(complete(w, parent(t)) /\ free(parent(t))))
       THEN NextTask(w) /\ UNCHANGED lease
       ELSE /\ UNCHANGED row
            /\ IF t[2] = 1
               THEN pc' = [pc EXCEPT ![w] = "take"] /\ UNCHANGED lease
               ELSE /\ lease' = [lease EXCEPT ![parent(t)] = w]
                    /\ pc' = [pc EXCEPT ![w] = "unlook"]
    /\ UNCHANGED <<filesVars, wq, seen, record, rows, verdict, faults>>

\* Mutant: the lease taken to look at it is kept.
UnlookKept(w) ==
    /\ pc[w] = "unlook"
    /\ pc' = [pc EXCEPT ![w] = "take"]
    /\ UNCHANGED <<lease, filesVars, passVars, faults>>

Unlook(w) ==
    /\ pc[w] = "unlook"
    /\ lease' = [lease EXCEPT ![parent(task(w))] = Nobody]
    /\ pc' = [pc EXCEPT ![w] = "take"]
    /\ UNCHANGED <<filesVars, passVars, faults>>

Take(w) ==
    LET t == task(w) IN
    /\ pc[w] = "take"
    /\ IF free(t)
       THEN /\ lease' = [lease EXCEPT ![t] = w]
            /\ pc' = [pc EXCEPT ![w] = "held"]
            /\ UNCHANGED row
       ELSE NextTask(w) /\ UNCHANGED lease
    /\ UNCHANGED <<filesVars, wq, seen, record, rows, verdict, faults>>

eligible(w, t) ==
    /\ receipt[t].retry < MaxAttempts
    /\ receipt[t].status = "failed" => RetryFailed
    /\ ~complete(w, t)

\* Under the lease the receipt decides; an abandoned attempt stays charged.
Admit(w) ==
    LET t == task(w) IN
    /\ pc[w] = "held"
    /\ eligible(w, t)
    /\ receipt' = [receipt EXCEPT ![t] = [status |-> "running", retry |-> @.retry + 1]]
    /\ pc' = [pc EXCEPT ![w] = "run"]
    /\ seen' = [seen EXCEPT ![w] = FALSE]
    /\ verdict' = [verdict EXCEPT ![w] = Unknown]
    /\ UNCHANGED <<lease, done, stop, wq, row, record, rows, faults>>

\* Not eligible, or failed less than --retry-delay ago.
PassOver(w) ==
    LET t == task(w) IN
    /\ pc[w] = "held"
    /\ ~eligible(w, t) \/ receipt[t].status = "failed"
    /\ lease' = [lease EXCEPT ![t] = Nobody]
    /\ NextTask(w)
    /\ UNCHANGED <<filesVars, wq, seen, record, rows, verdict, faults>>

-----------------------------------------------------------------------------
(* The claimed task: run_child and finish().                                *)

\* The child publishes the task's result and exits 0.
ChildDone(w) ==
    /\ pc[w] = "run"
    /\ done' = done \cup {task(w)}
    /\ pc' = [pc EXCEPT ![w] = "exited"]
    /\ UNCHANGED <<lease, receipt, stop, passVars, faults>>

Finish(w) ==
    /\ pc[w] = "exited"
    /\ receipt' = [receipt EXCEPT ![task(w)].status = "complete"]
    /\ pc' = [pc EXCEPT ![w] = "leave"]
    /\ UNCHANGED <<lease, done, stop, passVars, faults>>

\* A failing child, or one that stalls (code 124): the worker goes on.
ChildFails(w) ==
    /\ pc[w] = "run"
    /\ faults < MaxFaults /\ faults' = faults + 1
    /\ receipt' = [receipt EXCEPT ![task(w)].status = "failed"]
    /\ pc' = [pc EXCEPT ![w] = "leave"]
    /\ UNCHANGED <<lease, done, stop, passVars>>

\* An immediate stop of the task's own queue: the attempt is refunded, and the
\* interrupt is raised again through the loop over all queues.
Interrupt(w) ==
    LET t == task(w) IN
    /\ pc[w] = "run" /\ stop[t[1]] = "now"
    /\ receipt' = [receipt EXCEPT ![t] = [status |-> "interrupted", retry |-> @.retry - 1]]
    /\ pc' = [pc EXCEPT ![w] = "quit"]
    /\ UNCHANGED <<lease, done, stop, passVars, faults>>

\* The claim's context ends: the lease is free, and the next pass begins with
\* the preferred queue.
Release(w) ==
    /\ pc[w] \in {"leave", "quit"}
    /\ lease' = [lease EXCEPT ![task(w)] = Nobody]
    /\ pc' = [pc EXCEPT ![w] = IF @ = "leave" THEN "queue" ELSE "interrupted"]
    /\ wq' = [wq EXCEPT ![w] = 1]
    /\ row' = [row EXCEPT ![w] = 1]
    /\ UNCHANGED <<filesVars, seen, record, rows, verdict, faults>>

-----------------------------------------------------------------------------
(* status(), when claim() yielded None, and the end of a pass.              *)

\* A row begins with the receipt, before its lease is looked at.
ReadReceipt(w) ==
    /\ pc[w] = "read"
    /\ record' = [record EXCEPT ![w] = receipt[task(w)]]
    /\ pc' = [pc EXCEPT ![w] = "probe"]
    /\ UNCHANGED <<lease, filesVars, wq, row, seen, rows, verdict, faults>>

Probe(w) ==
    LET t == task(w) IN
    /\ pc[w] = "probe"
    /\ IF free(t)
       THEN /\ lease' = [lease EXCEPT ![t] = w]
            /\ pc' = [pc EXCEPT ![w] = "unprobe"]
            /\ UNCHANGED <<wq, row, seen, record, rows, verdict>>
       ELSE Note(w, "running") /\ UNCHANGED lease
    /\ UNCHANGED <<filesVars, faults>>

Unprobe(w) ==
    LET t == task(w) IN
    /\ pc[w] = "unprobe"
    /\ lease' = [lease EXCEPT ![t] = Nobody]
    /\ IF complete(w, t) THEN Note(w, "complete")
       ELSE IF t[2] = 1 THEN Note(w, restStatus(w))
       ELSE IF ~complete(w, parent(t)) THEN Note(w, "waiting")
       ELSE pc' = [pc EXCEPT ![w] = "parent"] /\ UNCHANGED <<wq, row, seen, record, rows, verdict>>
    /\ UNCHANGED <<filesVars, faults>>

ProbeParent(w) ==
    LET t == task(w) IN
    /\ pc[w] = "parent"
    /\ IF free(parent(t))
       THEN /\ lease' = [lease EXCEPT ![parent(t)] = w]
            /\ pc' = [pc EXCEPT ![w] = "unparent"]
            /\ UNCHANGED <<wq, row, seen, record, rows, verdict>>
       ELSE Note(w, "waiting") /\ UNCHANGED lease
    /\ UNCHANGED <<filesVars, faults>>

UnprobeParent(w) ==
    /\ pc[w] = "unparent"
    /\ lease' = [lease EXCEPT ![parent(task(w))] = Nobody]
    /\ Note(w, restStatus(w))
    /\ UNCHANGED <<filesVars, faults>>

\* Every queue finished, or every queue finished or blocked, or another pass.
EndPass(w) ==
    LET is(v) == {q \in Queues : verdict[w][q] = v}
        finished == is("stopped") \cup is("complete")
    IN
    /\ pc[w] = "queue" /\ wq[w] = NumQueues + 1
    /\ pc' = [pc EXCEPT ![w] =
            IF finished = Queues
            THEN IF \E q \in Queues : stop[q] # "none" THEN "stopped" ELSE "complete"
            ELSE IF finished \cup is("blocked") = Queues THEN "failed" ELSE "queue"]
    /\ wq' = [wq EXCEPT ![w] = 1]
    /\ verdict' = [verdict EXCEPT ![w] = Unknown]
    /\ UNCHANGED <<lease, filesVars, row, seen, record, rows, faults>>

-----------------------------------------------------------------------------
(* Lost nodes and the operator.                                             *)

\* A node is lost: its locks with it, also one that only asked.
NodeLost(w) ==
    /\ pc[w] \notin Ended
    /\ faults < MaxFaults /\ faults' = faults + 1
    /\ lease' = [t \in Tasks |-> IF lease[t] = w THEN Nobody ELSE lease[t]]
    /\ pc' = [pc EXCEPT ![w] = "lost"]
    /\ wq' = [wq EXCEPT ![w] = 1]
    /\ row' = [row EXCEPT ![w] = 1]
    /\ seen' = [seen EXCEPT ![w] = FALSE]
    /\ record' = [record EXCEPT ![w] = NoReceipt]
    /\ rows' = [rows EXCEPT ![w] = {}]
    /\ verdict' = [verdict EXCEPT ![w] = Unknown]
    /\ UNCHANGED <<filesVars>>

Command(q) ==
    /\ faults < MaxFaults /\ faults' = faults + 1
    /\ \E s \in {"none", "drain", "now"} \ {stop[q]} : stop' = [stop EXCEPT ![q] = s]
    /\ UNCHANGED <<lease, done, receipt, pc, passVars>>

-----------------------------------------------------------------------------
ClaimStep(w) == EnterQueue(w) \/ Look(w) \/ Unlook(w) \/ Take(w) \/ PassOver(w)
ChildStep(w) == ChildDone(w) \/ Finish(w) \/ Interrupt(w) \/ Release(w)
StatusStep(w) ==
    \/ Verify(w) \/ ReadReceipt(w) \/ Probe(w) \/ Unprobe(w)
    \/ ProbeParent(w) \/ UnprobeParent(w) \/ EndPass(w)

WorkerStep(w) == ClaimStep(w) \/ Admit(w) \/ ChildStep(w) \/ StatusStep(w)

Next ==
    \/ \E w \in Workers : WorkerStep(w) \/ ChildFails(w) \/ NodeLost(w)
    \/ \E q \in Queues : Command(q)

Spec == Init /\ [][Next]_vars

\* Live workers keep going, and a retry delay ends: a task that is passed over
\* for it again and again is admitted in the end.
Fairness == \A w \in Workers : WF_vars(WorkerStep(w)) /\ SF_vars(Admit(w))
FairSpec == Spec /\ Fairness

-----------------------------------------------------------------------------
(* Properties.                                                              *)

published(q) == {q} \X (1..NumTasks) \subseteq done
exhausted(t) == t \notin done /\ receipt[t].retry >= MaxAttempts

\* A pass that takes a queue for complete, from rows read one after the other
\* while others work on it, is right: worker receipts say "complete" truthfully.
CompleteIsTrue ==
    \A w \in Workers, q \in Queues : verdict[w][q] = "complete" => published(q)

\* scripts/srgc_multi_queue.py, run_worker_multi: a worker that raises does it
\* because a "failed task blocks remaining work".
BlockedMeansFailed ==
    (\E w \in Workers : pc[w] = "failed") => \E t \in Tasks \ done : receipt[t].status = "failed"

\* A worker finds a lease busy only because another one is asking about it.
asks(w) == IF pc[w] \in {"look", "parent"} THEN parent(task(w)) ELSE task(w)
collision ==
    \E v, w \in Workers :
        /\ pc[v] \in {"unlook", "unprobe", "unparent"}
        /\ pc[w] \in {"look", "take", "probe", "parent"}
        /\ asks(w) \in Tasks /\ lease[asks(w)] = v

\* A stop belongs to its dataset: whatever is stopped or resumed elsewhere, and
\* whatever is retried, a queue that is never stopped is served to its end, or to
\* a task without attempts, as long as a worker stays in service.
QueueServed ==
    \A q \in Queues :
        /\ []( /\ stop[q] = "none"
               /\ \E w \in Workers : pc[w] \notin {"failed", "interrupted", "lost"})
        /\ <>[]~collision
        => <>(published(q) \/ \E t \in Tasks : exhausted(t))

\* Every worker ends: no receipt, lease or verdict keeps one polling for ever.
WorkersEnd == <>[]~collision => \A w \in Workers : <>(pc[w] \in Ended)
=============================================================================
