---------------------------- MODULE ResearchQueue ----------------------------
(***************************************************************************)
(* The queue of the literature studies, srgc_research: for one seed, a     *)
(* reward cache, a carrier that trains on and publishes an anchor at each  *)
(* of STAGES, and diagnostics that branch from the anchors while the       *)
(* carrier still runs.  run_queue of cli.py walks over the conditions on   *)
(* every node; worker.py executes one on four ranks, storage.py publishes. *)
(*                                                                         *)
(* A model is known by its trajectory, the launches that made its updates: *)
(* an update that is redone after a kill need not come out as before.      *)
(* The launcher of a child inherits the dispatch lock; rank 0 has a        *)
(* session of its own, may outlive both, and holds the execution lock.     *)
(***************************************************************************)
EXTENDS Naturals, FiniteSets, Sequences, SequencesExt

CONSTANTS
    Nodes,        \* processes that run the queue, one per node
    Stages,       \* the updates after which the carrier publishes an anchor
    MaxAttempts,  \* max_attempts of run_queue
    MaxLaunches,  \* bound on the launches of one condition
    MaxFaults,    \* bound on crashes, stalls, signals and occupied nodes
    None          \* no file, or no trajectory

Updates == Stages[Len(Stages)]
StageSet == Range(Stages)

ASSUME ResearchAssumption ==
    /\ Stages \in Seq(Nat) /\ Len(Stages) > 0
    /\ \A i, j \in 1..Len(Stages) : i < j => Stages[i] < Stages[j]
    /\ MaxAttempts \in Nat \ {0}
    /\ MaxLaunches \in Nat \ {0}
    /\ MaxFaults \in Nat
    /\ Nodes \cap (1..MaxLaunches) = {}
    /\ None \notin Seq(Nat)

Cache == <<"cache", 0>>
Carrier == <<"anchors", 0>>
Diagnostic(s) == <<"diagnostic", s>>

\* tasks(scope): the prerequisites first.
Order == <<Cache, Carrier>> \o [i \in 1..Len(Stages) |-> Diagnostic(Stages[i])]
Conditions == Range(Order)
Launches == 1..MaxLaunches

VARIABLES
    dispatch,  \* condition -> processes that hold .dispatch.lock open
    status,    \* condition -> status in queue.json
    attempts,  \* condition -> attempts in queue.json
    pc,        \* node -> where it is in run_queue
    at,        \* node -> position of this pass in Order
    pass,      \* node -> what the pass has found: unfinished, waiting, failed
    launch,    \* node -> the launch it waits for
    torch,     \* condition -> launch -> its torchrun
    rank,      \* condition -> launch -> its rank 0
    mem,       \* condition -> the state of the rank that executes it
    exec,      \* condition -> launch whose rank 0 holds .execution.lock, or 0
    saved,     \* condition -> state-latest.pt; <<>> is the fresh model
    anchor,    \* stage -> step-N.pt
    released,  \* stage -> what the hash in step-N.json names
    cacheFile, \* sr-cache.json
    endpoint,  \* condition -> endpoint.json
    faults

nodeVars == <<pc, at, pass, launch>>
lockVars == <<dispatch, exec>>
fileVars == <<saved, anchor, released, cacheFile, endpoint>>
procVars == <<torch, rank, mem>>
vars == <<dispatch, status, attempts, nodeVars, procVars, exec, fileVars, faults>>

Ended  == {"done", "gave-up", "busy", "raised", "dead"}
InLock == {"load", "anchor", "receipt", "next", "save", "export", "endpoint", "leave"}
Fresh  == {}

Init ==
    /\ dispatch = [c \in Conditions |-> {}]
    /\ status = [c \in Conditions |-> "none"]
    /\ attempts = [c \in Conditions |-> 0]
    /\ pc = [w \in Nodes |-> "look"]
    /\ at = [w \in Nodes |-> 1]
    /\ pass = [w \in Nodes |-> Fresh]
    /\ launch = [w \in Nodes |-> 0]
    /\ torch = [c \in Conditions |-> [n \in Launches |-> "none"]]
    /\ rank = [c \in Conditions |-> [n \in Launches |-> "none"]]
    /\ mem = [c \in Conditions |-> <<>>]
    /\ exec = [c \in Conditions |-> 0]
    /\ saved = [c \in Conditions |-> <<>>]
    /\ anchor = [s \in StageSet |-> None]
    /\ released = [s \in StageSet |-> None]
    /\ cacheFile = None
    /\ endpoint = [c \in Conditions |-> None]
    /\ faults = 0

-----------------------------------------------------------------------------
(* run_queue.                                                               *)

complete(c) == endpoint[c] # None

dependencies(c) ==
    /\ c # Cache => complete(Cache)
    /\ c[1] = "diagnostic" => released[c[2]] # None

task(w) == Order[at[w]]

\* The loop goes on to the next condition, with what it has noted on this one.
Note(w, marks) ==
    /\ pass' = [pass EXCEPT ![w] = @ \cup marks]
    /\ at' = [at EXCEPT ![w] = @ + 1]
    /\ pc' = [pc EXCEPT ![w] = "look"]
    /\ launch' = [launch EXCEPT ![w] = 0]

\* The process ends, and forgets its pass.
end(w, how) ==
    /\ pc' = [pc EXCEPT ![w] = how]
    /\ at' = [at EXCEPT ![w] = 1]
    /\ pass' = [pass EXCEPT ![w] = Fresh]
    /\ launch' = [launch EXCEPT ![w] = 0]

Fault == faults < MaxFaults /\ faults' = faults + 1

Look(w) ==
    /\ pc[w] = "look" /\ at[w] <= Len(Order)
    /\ LET c == task(w) IN
       IF complete(c) THEN Note(w, {}) /\ UNCHANGED dispatch
       ELSE IF ~dependencies(c) THEN Note(w, {"unfinished"}) /\ UNCHANGED dispatch
       ELSE IF dispatch[c] # {} THEN Note(w, {"unfinished", "waiting"}) /\ UNCHANGED dispatch
       ELSE /\ dispatch' = [dispatch EXCEPT ![c] = {w}]
            /\ pass' = [pass EXCEPT ![w] = @ \cup {"unfinished"}]
            /\ pc' = [pc EXCEPT ![w] = "locked"]
            /\ UNCHANGED <<at, launch>>
    /\ UNCHANGED <<status, attempts, procVars, exec, fileVars, faults>>

\* Under the dispatch lock: no orphan executes it, it is not complete after all,
\* and attempts are left.
startable(c) == exec[c] = 0 /\ ~complete(c) /\ attempts[c] < MaxAttempts

\* The receipt says running, and keeps the attempts of before.
Begin(w) ==
    LET c == task(w) IN
    /\ pc[w] = "locked"
    /\ startable(c)
    /\ status' = [status EXCEPT ![c] = "running"]
    /\ pc' = [pc EXCEPT ![w] = "launch"]
    /\ UNCHANGED <<dispatch, attempts, at, pass, launch, procVars, exec, fileVars, faults>>

\* Mutant: a condition without attempts is waited for.
PassOverHopeful(w) ==
    LET c == task(w) IN
    /\ pc[w] = "locked"
    /\ ~startable(c) \/ status[c] = "failed"
    /\ dispatch' = [dispatch EXCEPT ![c] = @ \ {w}]
    /\ Note(w, IF exec[c] # 0 THEN {"waiting"}
               ELSE IF complete(c) THEN {}
               ELSE {"waiting"})
    /\ UNCHANGED <<status, attempts, procVars, exec, fileVars, faults>>

\* Otherwise, or within the retry delay, the lock is released.
PassOver(w) ==
    LET c == task(w) IN
    /\ pc[w] = "locked"
    /\ ~startable(c) \/ status[c] = "failed"
    /\ dispatch' = [dispatch EXCEPT ![c] = @ \ {w}]
    /\ Note(w, IF exec[c] # 0 THEN {"waiting"}
               ELSE IF complete(c) THEN {}
               ELSE IF attempts[c] >= MaxAttempts THEN {"failed"} ELSE {"waiting"})
    /\ UNCHANGED <<status, attempts, procVars, exec, fileVars, faults>>

started(c) == Cardinality({n \in Launches : torch[c][n] # "none"})

\* The child inherits the dispatch lock.
Launch(w) ==
    LET c == task(w)
        n == started(c) + 1
    IN
    /\ pc[w] = "launch" /\ n \in Launches
    /\ dispatch' = [dispatch EXCEPT ![c] = @ \cup {n}]
    /\ torch' = [torch EXCEPT ![c][n] = "up"]
    /\ rank' = [rank EXCEPT ![c][n] = "startup"]
    /\ launch' = [launch EXCEPT ![w] = n]
    /\ pc' = [pc EXCEPT ![w] = "running"]
    /\ UNCHANGED <<status, attempts, at, pass, mem, exec, fileVars, faults>>

\* The node's GPUs are taken: 75, no attempt is charged, and this node stops.
NodeBusy(w) ==
    LET c == task(w) IN
    /\ Fault
    /\ pc[w] = "launch"
    /\ status' = [status EXCEPT ![c] = "busy"]
    /\ dispatch' = [dispatch EXCEPT ![c] = @ \ {w}]
    /\ end(w, "busy")
    /\ UNCHANGED <<attempts, procVars, exec, fileVars>>

\* Anything else that launch() raises ends the process; the receipt stays "running".
LaunchRaises(w) ==
    /\ Fault
    /\ pc[w] = "launch"
    /\ dispatch' = [dispatch EXCEPT ![task(w)] = @ \ {w}]
    /\ end(w, "raised")
    /\ UNCHANGED <<status, attempts, procVars, exec, fileVars>>

\* The child has ended (a stalled one is killed first): only a failure is charged.
Receive(w) ==
    LET c == task(w)
        ok == torch[c][launch[w]] = "ok"
    IN
    /\ pc[w] = "running"
    /\ torch[c][launch[w]] # "up"
    /\ ok => complete(c)
    /\ status' = [status EXCEPT ![c] = IF ok THEN "complete" ELSE "failed"]
    /\ attempts' = [attempts EXCEPT ![c] = IF ok THEN @ ELSE @ + 1]
    /\ dispatch' = [dispatch EXCEPT ![c] = {}]
    /\ Note(w, {"waiting"})
    /\ UNCHANGED <<procVars, exec, fileVars, faults>>

\* run_child tears the launcher's session down; a rank has its own, and dies or stays.
KillGroup(c, n) ==
    /\ torch' = [torch EXCEPT ![c][n] = "err"]
    /\ \/ UNCHANGED <<rank, exec>>
       \/ /\ rank[c][n] \in {"startup"} \cup InLock
          /\ rank' = [rank EXCEPT ![c][n] = "err"]
          /\ exec' = [exec EXCEPT ![c] = IF @ = n THEN 0 ELSE @]

\* SIGTERM or SIGINT: the receipt says interrupted, and the process ends.
Interrupt(w) ==
    LET c == task(w) IN
    /\ Fault
    /\ pc[w] = "running" /\ torch[c][launch[w]] = "up"
    /\ KillGroup(c, launch[w])
    /\ status' = [status EXCEPT ![c] = "interrupted"]
    /\ dispatch' = [dispatch EXCEPT ![c] = {}]
    /\ end(w, "raised")
    /\ UNCHANGED <<attempts, mem, fileVars>>

\* No progress for too long: the group is killed, and Receive charges the attempt.
Stall(w) ==
    LET c == task(w) IN
    /\ Fault
    /\ pc[w] = "running" /\ torch[c][launch[w]] = "up"
    /\ KillGroup(c, launch[w])
    /\ dispatch' = [dispatch EXCEPT ![c] = @ \ {launch[w]}]
    /\ UNCHANGED <<status, attempts, nodeVars, mem, fileVars>>

\* Mutant: a failure ends the queue while others still work.
EndPassHasty(w) ==
    /\ pc[w] = "look" /\ at[w] > Len(Order)
    /\ pc' = [pc EXCEPT ![w] = IF "unfinished" \notin pass[w] THEN "done"
                               ELSE IF "failed" \in pass[w] THEN "gave-up" ELSE "look"]
    /\ at' = [at EXCEPT ![w] = 1]
    /\ pass' = [pass EXCEPT ![w] = Fresh]
    /\ UNCHANGED <<dispatch, status, attempts, launch, procVars, exec, fileVars, faults>>

\* Everything complete; or only failures are left; or another pass.
EndPass(w) ==
    /\ pc[w] = "look" /\ at[w] > Len(Order)
    /\ pc' = [pc EXCEPT ![w] = IF "unfinished" \notin pass[w] THEN "done"
                               ELSE IF "failed" \in pass[w] /\ "waiting" \notin pass[w]
                               THEN "gave-up" ELSE "look"]
    /\ at' = [at EXCEPT ![w] = 1]
    /\ pass' = [pass EXCEPT ![w] = Fresh]
    /\ UNCHANGED <<dispatch, status, attempts, launch, procVars, exec, fileVars, faults>>

-----------------------------------------------------------------------------
(* Rank 0: run() and execute().                                             *)

RankOnly == <<dispatch, status, attempts, nodeVars, torch, faults>>

go(c, n, to) == rank' = [rank EXCEPT ![c][n] = to]

\* Mutant: the execution lock is not taken.
ClaimBlind(c, n) ==
    /\ rank[c][n] = "startup"
    /\ exec' = [exec EXCEPT ![c] = n]
    /\ go(c, n, IF complete(c) THEN "leave" ELSE "load")
    /\ UNCHANGED <<RankOnly, mem, fileVars>>

\* claim(): the execution lock is tried once; under it, the result is looked up.
Claim(c, n) ==
    /\ rank[c][n] = "startup"
    /\ IF exec[c] = 0
       THEN /\ exec' = [exec EXCEPT ![c] = n]
            /\ go(c, n, IF complete(c) THEN "leave" ELSE "load")
       ELSE go(c, n, "err") /\ UNCHANGED exec
    /\ UNCHANGED <<RankOnly, mem, fileVars>>

\* Mutant: the last update ends the loop before its anchor is published.
carrierTurnShort(m) ==
    IF Len(m) = Updates THEN "endpoint"
    ELSE IF Len(m) \in StageSet /\ released[Len(m)] = None THEN "anchor" ELSE "next"

\* The carrier's loop: publish_anchor comes before the next update, and only
\* verifies an anchor that is released.
carrierTurn(m) ==
    IF Len(m) \in StageSet /\ released[Len(m)] = None THEN "anchor"
    ELSE IF Len(m) = Updates THEN "endpoint" ELSE "next"

\* The last checkpoint, or the start: the fresh model, or for a diagnostic the
\* anchor, whose hash is verified.
Load(c, n) ==
    LET start == IF c[1] = "diagnostic" THEN anchor[c[2]] ELSE <<>> IN
    /\ rank[c][n] = "load"
    /\ c[1] = "diagnostic" => anchor[c[2]] = released[c[2]]
    /\ mem' = [mem EXCEPT ![c] = IF saved[c] = <<>> THEN start ELSE saved[c]]
    /\ go(c, n, IF c = Carrier THEN carrierTurn(saved[c])
                ELSE IF saved[c] = <<>> THEN "next"
                ELSE IF c = Cache THEN "export" ELSE "endpoint")
    /\ UNCHANGED <<RankOnly, exec, fileVars>>

WriteAnchor(c, n) ==
    /\ rank[c][n] = "anchor"
    /\ anchor' = [anchor EXCEPT ![Len(mem[c])] = mem[c]]
    /\ go(c, n, "receipt")
    /\ UNCHANGED <<RankOnly, mem, exec, saved, released, cacheFile, endpoint>>

\* step-N.json with the hash of the file as it is on disk.
ReleaseAnchor(c, n) ==
    LET s == Len(mem[c]) IN
    /\ rank[c][n] = "receipt"
    /\ released' = [released EXCEPT ![s] = anchor[s]]
    /\ go(c, n, IF s = Updates THEN "endpoint" ELSE "next")
    /\ UNCHANGED <<RankOnly, mem, exec, saved, anchor, cacheFile, endpoint>>

\* Mutant: the anchor of a new update is published before the update is saved.
AdvanceUnsaved(c, n) ==
    /\ rank[c][n] = "next"
    /\ mem' = [mem EXCEPT ![c] = Append(@, n)]
    /\ go(c, n, IF c = Carrier THEN carrierTurn(mem'[c]) ELSE "save")
    /\ UNCHANGED <<RankOnly, exec, fileVars>>

\* engine.update(), the cache's generation, or the study's advance(): new work.
Advance(c, n) ==
    /\ rank[c][n] = "next"
    /\ mem' = [mem EXCEPT ![c] = Append(@, n)]
    /\ go(c, n, "save")
    /\ UNCHANGED <<RankOnly, exec, fileVars>>

Save(c, n) ==
    /\ rank[c][n] = "save"
    /\ saved' = [saved EXCEPT ![c] = mem[c]]
    /\ go(c, n, IF c = Carrier THEN carrierTurn(mem[c])
                ELSE IF c = Cache THEN "export" ELSE "endpoint")
    /\ UNCHANGED <<RankOnly, mem, exec, anchor, released, cacheFile, endpoint>>

Export(c, n) ==
    /\ rank[c][n] = "export"
    /\ cacheFile' = mem[c]
    /\ go(c, n, "endpoint")
    /\ UNCHANGED <<RankOnly, mem, exec, saved, anchor, released, endpoint>>

WriteEndpoint(c, n) ==
    /\ rank[c][n] = "endpoint"
    /\ endpoint' = [endpoint EXCEPT ![c] = mem[c]]
    /\ go(c, n, "leave")
    /\ UNCHANGED <<RankOnly, mem, exec, saved, anchor, released, cacheFile>>

Leave(c, n) ==
    /\ rank[c][n] = "leave"
    /\ exec' = [exec EXCEPT ![c] = 0]
    /\ go(c, n, "ok")
    /\ UNCHANGED <<RankOnly, mem, fileVars>>

\* torchrun returns once its ranks have ended.
Reap(c, n) ==
    /\ torch[c][n] = "up" /\ rank[c][n] \in {"ok", "err"}
    /\ torch' = [torch EXCEPT ![c][n] = rank[c][n]]
    /\ dispatch' = [dispatch EXCEPT ![c] = @ \ {n}]
    /\ UNCHANGED <<status, attempts, nodeVars, rank, mem, exec, fileVars, faults>>

-----------------------------------------------------------------------------
(* Crashes.                                                                 *)

RankCrash(c, n) ==
    /\ Fault
    /\ rank[c][n] \in {"startup"} \cup InLock
    /\ go(c, n, "err")
    /\ exec' = [exec EXCEPT ![c] = IF @ = n THEN 0 ELSE @]
    /\ UNCHANGED <<dispatch, status, attempts, nodeVars, torch, mem, fileVars>>

\* The launcher alone is killed: its rank stays, and does not hold the dispatch lock.
LauncherCrash(c, n) ==
    /\ Fault
    /\ torch[c][n] = "up"
    /\ torch' = [torch EXCEPT ![c][n] = "err"]
    /\ dispatch' = [dispatch EXCEPT ![c] = @ \ {n}]
    /\ UNCHANGED <<status, attempts, nodeVars, rank, mem, exec, fileVars>>

\* The queue process alone is killed: its launcher keeps the dispatch lock.
NodeCrash(w) ==
    /\ Fault
    /\ pc[w] \notin Ended
    /\ dispatch' = [c \in Conditions |-> dispatch[c] \ {w}]
    /\ end(w, "dead")
    /\ UNCHANGED <<status, attempts, procVars, exec, fileVars>>

\* The operator starts it again.
Restart(w) ==
    /\ pc[w] \in {"busy", "raised", "dead"}
    /\ end(w, "look")
    /\ UNCHANGED <<dispatch, status, attempts, procVars, exec, fileVars, faults>>

-----------------------------------------------------------------------------
NodeStep(w) == Look(w) \/ PassOver(w) \/ Launch(w) \/ Receive(w) \/ EndPass(w)
NodeFault(w) == NodeBusy(w) \/ LaunchRaises(w) \/ Interrupt(w) \/ Stall(w) \/ NodeCrash(w)

RankStep(c, n) ==
    \/ Claim(c, n) \/ Load(c, n) \/ WriteAnchor(c, n)
    \/ ReleaseAnchor(c, n) \/ Advance(c, n) \/ Save(c, n) \/ Export(c, n)
    \/ WriteEndpoint(c, n) \/ Leave(c, n)

Next ==
    \/ \E w \in Nodes : NodeStep(w) \/ Begin(w) \/ NodeFault(w) \/ Restart(w)
    \/ \E c \in Conditions, n \in Launches :
          RankStep(c, n) \/ Reap(c, n) \/ RankCrash(c, n) \/ LauncherCrash(c, n)

Spec == Init /\ [][Next]_vars

\* Live nodes go on, and the retry delay ends.  Of all ranks and launchers one goes
\* on: a launch has so few steps that every one gets its turn.
Fairness ==
    /\ \A w \in Nodes : WF_vars(NodeStep(w)) /\ SF_vars(Begin(w))
    /\ WF_vars(\E c \in Conditions, n \in Launches : RankStep(c, n) \/ Reap(c, n))
FairSpec == Spec /\ Fairness

-----------------------------------------------------------------------------
(* Properties.                                                              *)

\* One rank 0 executes a condition, however many orphans and relaunches there are.
OneExecution ==
    \A c \in Conditions : \A m, n \in Launches :
        rank[c][m] \in InLock /\ rank[c][n] \in InLock => m = n

\* A released anchor is the file its hash names, and lies on the path the carrier
\* has saved: a carrier that is killed and redoes updates never leaves
\* diagnostics on a branch it did not take itself.
AnchorsOnPath ==
    \A s \in StageSet : released[s] # None =>
        anchor[s] = released[s] /\ IsPrefix(released[s], saved[Carrier])

\* The result of the cache is the cache that is there, and that of a diagnostic was
\* made from the final anchor.
ResultsConsistent ==
    /\ endpoint[Cache] # None => endpoint[Cache] = cacheFile
    /\ \A s \in StageSet : endpoint[Diagnostic(s)] # None =>
           IsStrictPrefix(released[s], endpoint[Diagnostic(s)])

\* A node that ends with 0 leaves the whole study complete, and one that gives
\* up leaves only what has no attempts left, or hangs on something that has none.
spent(c) == attempts[c] >= MaxAttempts
EndsTruthfully ==
    \A w \in Nodes :
        /\ pc[w] = "done" => \A c \in Conditions : complete(c)
        /\ pc[w] = "gave-up" =>
             \A c \in Conditions : complete(c) \/ spent(c) \/ spent(Cache)
                                   \/ (c[1] = "diagnostic" /\ spent(Carrier))

\* The queue publishes in the order of the study's DAG, anchors one by one, while
\* diagnostics and carrier run side by side; nothing is taken back.
position(s) == CHOOSE i \in 1..Len(Stages) : Stages[i] = s
Item(s) == <<"anchor", s>>
items == Conditions \cup {Item(s) : s \in StageSet}
needs(x) ==
    IF x = Cache THEN None
    ELSE IF x = Carrier THEN Item(Updates)
    ELSE IF x[1] = "diagnostic" THEN Item(x[2])
    ELSE IF position(x[2]) = 1 THEN Cache ELSE Item(Stages[position(x[2]) - 1])
Dag == INSTANCE StudyDag WITH
    Tasks      <- items,
    Dependency <- [x \in items |-> needs(x)],
    published  <- {c \in Conditions : complete(c)}
                    \cup {Item(s) : s \in {r \in StageSet : released[r] # None}}
ImplementsDag == Dag!Spec

\* Every node ends, also one that is started again: no orphan, lock or receipt
\* keeps it polling for ever.
QueueEnds == \A w \in Nodes : []<>(pc[w] \in Ended)
=============================================================================
