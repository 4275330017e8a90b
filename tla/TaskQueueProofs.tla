--------------------------- MODULE TaskQueueProofs ---------------------------
(***************************************************************************)
(* TaskQueue for every set of workers, seeds and arms and every bound: the *)
(* invariant IInv is inductive, and from it follow mutual exclusion of the *)
(* executions, the hold of a live launcher on its lease, the immutability  *)
(* of published results, the refinement of StudyDag and the retry budget.  *)
(***************************************************************************)
EXTENDS TaskQueue, FiniteSetTheorems, TLAPS

-----------------------------------------------------------------------------
(* Facts about the DAG and about the worker that is between two steps.      *)

\* A dependency, where there is one, is a task of the plan.
LEMMA DependencyIsTask ==
    ASSUME NEW t \in Tasks
    PROVE  dependency(t) = None \/ dependency(t) \in Tasks
  BY DEF dependency, Tasks, Cache, Prefix

\* No attempt has number 0, which stands for "no attempt".
LEMMA LaunchPositive == \A n \in Launches : n # 0
  BY ConstantsAssumption DEF Launches

\* A worker that has written its receipt works on an attempt in the bound.
LEMMA HeldLaunch ==
    ASSUME NEW w \in Workers, IInv, wpc[w] \in Held \ {"claiming"}
    PROVE  wtask[w] \in Tasks /\ receipt[wtask[w]].attempt \in Launches
<1>1. wtask[w] \in Tasks
  BY DEF IInv, LeaseOwned
<1>2. receipt[wtask[w]].attempt \in 0..MaxLaunches
  BY <1>1 DEF IInv, TypeOK
<1>3. receipt[wtask[w]].attempt > 0
  BY DEF IInv, AttemptNumbers
<1> QED BY <1>1, <1>2, <1>3, ConstantsAssumption DEF Launches

\* A launcher that joins or leaves the descriptor changes no worker's share.
LEMMA WorkersShare ==
    ASSUME IInv, NEW t \in Tasks, NEW n \in Launches,
           lease' = [lease EXCEPT ![t] = @ \cup {n}] \/ lease' = [lease EXCEPT ![t] = @ \ {n}]
    PROVE  \A u \in Tasks : \A v \in Workers : v \in lease'[u] <=> v \in lease[u]
<1>1. \A v \in Workers : v # n
  BY ConstantsAssumption DEF Launches
<1>2. CASE lease' = [lease EXCEPT ![t] = @ \cup {n}]
  BY <1>1, <1>2 DEF IInv, TypeOK
<1>3. CASE lease' = [lease EXCEPT ![t] = @ \ {n}]
  BY <1>1, <1>3 DEF IInv, TypeOK
<1> QED BY <1>2, <1>3

\* LeaseOwned only looks at the workers' shares, places and tasks.
LEMMA LeaseOwnedFrame ==
    ASSUME IInv, UNCHANGED wtask,
           \A u \in Tasks : \A v \in Workers : v \in lease'[u] <=> v \in lease[u],
           \A v \in Workers : wpc'[v] \in Held <=> wpc[v] \in Held
    PROVE  LeaseOwned'
  BY DEF IInv, LeaseOwned

\* ParentSettled survives a step that forgets no result, frees but takes no
\* lease, and starts no worker, rank or launcher on an unsettled task.
LEMMA ParentSettledFrame ==
    ASSUME IInv,
           \A v \in Workers : \A s \in seen'[v] : s \in Seeds /\ complete(Cache(s)),
           \A u \in Tasks : marker[u] # 0 => marker'[u] # 0,
           \A u \in Tasks : lease[u] = {} => lease'[u] = {},
           \A v \in Workers : wpc'[v] \in Held => wpc[v] \in Held /\ wtask'[v] = wtask[v],
           \A u \in Tasks : \A m \in Launches :
              rank'[u][m] \in Alive => rank[u][m] \in Alive \/ parentDone(u),
           \A u \in Tasks : \A m \in Launches :
              torch'[u][m] = "up" => torch[u][m] = "up" \/ (parentDone(u) /\ parentFree(u))
    PROVE  ParentSettled'
<1>1. \A s \in Seeds : Cache(s) \in Tasks /\ Prefix(s) \in Tasks
  BY DEF Tasks, Cache, Prefix
<1>2. \A u \in Tasks : complete(u) => complete(u)'
  BY DEF complete
<1>3. \A u \in Tasks : parentDone(u) => parentDone(u)'
  BY <1>2, DependencyIsTask DEF parentDone
<1>4. \A u \in Tasks : u[1] \in Seeds
  BY DEF Tasks
<1>5. \A u \in Tasks : parentFree(u) => parentFree(u)'
  BY <1>1, <1>4 DEF parentFree
<1>6. \A v \in Workers : wpc[v] \in Held => wtask[v] \in Tasks
  BY DEF IInv, LeaseOwned
<1>7. \A v \in Workers : \A s \in seen'[v] : complete(Cache(s))'
  BY <1>1, <1>2
<1>8. \A v \in Workers : wpc'[v] \in Held => \A u \in {wtask'[v]} :
          u \in Tasks /\ parentDone(u)' /\ parentFree(u)'
  BY <1>3, <1>5, <1>6 DEF IInv, ParentSettled
<1>9. \A u \in Tasks : \A m \in Launches : rank'[u][m] \in Alive => parentDone(u)'
  BY <1>3 DEF IInv, ParentSettled
<1>10. \A u \in Tasks : \A m \in Launches :
          torch'[u][m] = "up" => parentDone(u)' /\ parentFree(u)'
  BY <1>3, <1>5 DEF IInv, ParentSettled
<1> QED BY <1>7, <1>8, <1>9, <1>10 DEF ParentSettled, parentDone, parentFree, complete

\* Killing a launcher's session frees its share of the lease, and either ends
\* its rank 0 and frees the execution lock or leaves both alone.
LEMMA KillGroupEffect ==
    ASSUME IInv, NEW t \in Tasks, NEW n \in Launches, KillGroup(t, n)
    PROVE  /\ lease' = [lease EXCEPT ![t] = @ \ {n}]
           /\ torch' = [torch EXCEPT ![t][n] = IF @ = "up" THEN "err" ELSE @]
           /\ rank' \in [Tasks -> [Launches -> {"none", "ok", "err"} \cup Alive]]
           /\ exec' \in [Tasks -> 0..MaxLaunches]
           /\ \A u \in Tasks, m \in Launches :
                rank'[u][m] # rank[u][m] => u = t /\ m = n /\ rank'[u][m] = "err"
           /\ \A u \in Tasks :
                exec'[u] # exec[u] => u = t /\ exec[t] = n /\ rank'[t][n] = "err"
<1>1. /\ lease' = [lease EXCEPT ![t] = @ \ {n}]
      /\ torch' = [torch EXCEPT ![t][n] = IF @ = "up" THEN "err" ELSE @]
  BY DEF KillGroup
<1>2. CASE UNCHANGED <<rank, exec>>
  BY <1>1, <1>2 DEF IInv, TypeOK
<1>3. CASE /\ rank' = [rank EXCEPT ![t][n] = "err"]
           /\ exec' = [exec EXCEPT ![t] = IF @ = n THEN 0 ELSE @]
  BY <1>1, <1>3, ConstantsAssumption DEF IInv, TypeOK
<1> QED BY <1>1, <1>2, <1>3 DEF KillGroup

-----------------------------------------------------------------------------
(* Every action keeps IInv: one lemma per action, one step per conjunct.    *)

\* The initial state satisfies the invariant: nothing is held or published.
LEMMA InitIInv == Init => IInv
<1> SUFFICES ASSUME Init PROVE IInv
  OBVIOUS
<1>1. TypeOK
  BY ConstantsAssumption DEF Init, TypeOK, NoReceipt, Statuses, Held, Terminal, Alive
<1>2. LeaseOwned /\ LauncherCurrent /\ AttemptNumbers
  BY ConstantsAssumption DEF Init, LeaseOwned, LauncherCurrent, AttemptNumbers, NoReceipt, Held
<1>3. ExecHeld /\ ParentSettled /\ ResultPhases
  BY DEF Init, ExecHeld, ParentSettled, ResultPhases, Held, Alive, InLock
<1> QED BY <1>1, <1>2, <1>3 DEF IInv

\* Claiming takes a free lease, so no launcher of the task is alive.
LEMMA ClaimKeeps ==
    ASSUME IInv, NEW w \in Workers, NEW t \in Tasks, Claim(w, t)
    PROVE  IInv'
<1>1. TypeOK'
  <2>1. lease' \in [Tasks -> SUBSET (Workers \cup Launches)]
    BY DEF IInv, TypeOK, Claim
  <2>2. history' \in [Tasks -> [Launches ->
            {"none", "abandoned", "complete", "interrupted", "failed"}]]
    <3>1. CASE receipt[t].status = "running"
      BY <3>1 DEF IInv, TypeOK, Claim
    <3>2. CASE receipt[t].status # "running"
      BY <3>2 DEF IInv, TypeOK, Claim
    <3> QED BY <3>1, <3>2
  <2> QED BY <2>1, <2>2 DEF IInv, TypeOK, Claim, Held, runVars, fileVars
<1>0. /\ lease[t] = {} /\ lease' = [lease EXCEPT ![t] = @ \cup {w}]
      /\ wpc[w] = "scan" /\ wpc' = [wpc EXCEPT ![w] = "claiming"]
      /\ wtask' = [wtask EXCEPT ![w] = t]
      /\ UNCHANGED <<torch, receipt>>
  BY DEF Claim, claimable, locked, runVars
<1>2. LeaseOwned'
  <2>1. \A v \in Workers : v # w => wpc'[v] = wpc[v] /\ wtask'[v] = wtask[v]
    BY <1>0 DEF IInv, TypeOK
  <2>2. wpc'[w] = "claiming" /\ wtask'[w] = t /\ lease'[t] = {w}
    BY <1>0 DEF IInv, TypeOK
  <2>3. \A u \in Tasks : u # t => lease'[u] = lease[u]
    BY <1>0 DEF IInv, TypeOK
  <2>4. \A u \in Tasks : w \notin lease[u]
    BY <1>0 DEF IInv, LeaseOwned, Held
  <2> QED BY <1>0, <2>1, <2>2, <2>3, <2>4 DEF IInv, LeaseOwned, Held
<1>3. LauncherCurrent'
  <2>1. \A n \in Launches : n # w
    BY ConstantsAssumption DEF Launches
  <2>2. \A u \in Tasks : \A n \in Launches : n \in lease'[u] <=> n \in lease[u]
    BY <1>0, <2>1 DEF IInv, TypeOK
  <2>3. \A n \in Launches : torch[t][n] # "up"
    BY <1>0 DEF IInv, LauncherCurrent
  <2>4. \A u \in Tasks : u # t => lease'[u] = lease[u] /\ w \notin lease[u]
    <3>1. \A u \in Tasks : w \notin lease[u]
      BY <1>0 DEF IInv, LeaseOwned, Held
    <3>2. \A u \in Tasks : u # t => lease'[u] = lease[u]
      BY <1>0 DEF IInv, TypeOK
    <3> QED BY <3>1, <3>2
  <2>5. \A v \in Workers : v # w => wpc'[v] = wpc[v]
    BY <1>0 DEF IInv, TypeOK
  <2> QED BY <1>0, <2>2, <2>3, <2>4, <2>5 DEF IInv, LauncherCurrent
<1>4. AttemptNumbers'
    BY ConstantsAssumption DEF Claim, claimable, ready, locked, doneSeen, completeSeen, IInv, TypeOK,
     AttemptNumbers, LeaseOwned, Held, Launches, runVars, fileVars
<1>5. ExecHeld'
    BY ConstantsAssumption DEF Claim, claimable, ready, locked, doneSeen, completeSeen, IInv, TypeOK,
     ExecHeld, InLock, runVars, fileVars
<1>6. ParentSettled'
  <2>1. parentDone(t) /\ parentFree(t) /\ lease[t] = {} /\ wpc[w] = "scan"
    <3>1. t[1] \in Seeds /\ (t[2] \in Arms => dependency(t) = Prefix(t[1]))
      BY ConstantsAssumption DEF Tasks, dependency
    <3>2. Prefix(t[1])[2] = "prefix" /\ (t[2] \in Arms => Prefix(t[1]) # None)
      BY <3>1, ConstantsAssumption DEF Prefix
    <3> QED BY <3>1, <3>2 DEF Claim, claimable, ready, locked, doneSeen, completeSeen,
                              parentDone, parentFree
  <2>2. \A s \in Seeds : t = Prefix(s) => s \in seen[w] /\ ~complete(t)
    <3>1. \A s \in Seeds : dependency(Prefix(s)) = Cache(s) /\ Cache(s) # None
      BY ConstantsAssumption DEF Prefix, Cache, dependency
    <3> QED BY <3>1 DEF Claim, claimable, ready, doneSeen, completeSeen, Prefix, Cache
  <2>3. \A u \in Tasks : parentDone(u) /\ parentFree(u) => (parentFree(u))'
    <3>1. \A u \in Tasks : u[2] \in Arms => dependency(u) = Prefix(u[1])
                               /\ u[1] \in Seeds /\ Prefix(u[1]) # None
      BY ConstantsAssumption DEF Tasks, dependency, Prefix
    <3>2. \A u \in Tasks : u # t => lease'[u] = lease[u]
      BY DEF Claim, IInv, TypeOK
    <3>3. \A u \in Tasks : u[2] \in Arms => Prefix(u[1]) \in Tasks
      BY DEF Tasks, Prefix
    <3> QED BY <2>2, <3>1, <3>2, <3>3 DEF parentFree, parentDone
  <2>4. \A u \in Tasks : (parentDone(u))' <=> parentDone(u)
    BY DEF Claim, parentDone, complete, fileVars
  <2>5. /\ \A v \in Workers : v # w => wpc'[v] = wpc[v] /\ wtask'[v] = wtask[v]
        /\ wtask'[w] = t
    BY DEF Claim, IInv, TypeOK
  <2>6. \A v \in Workers : wpc'[v] \in Held => \A u \in {wtask'[v]} :
            u \in Tasks /\ (parentDone(u))' /\ (parentFree(u))'
    BY <2>1, <2>3, <2>4, <2>5 DEF IInv, LeaseOwned, ParentSettled
  <2>7. \A v \in Workers : \A s \in seen'[v] : complete(Cache(s)) /\ UNCHANGED marker
    BY DEF Claim, IInv, TypeOK, ParentSettled, fileVars
  <2>8. \A u \in Tasks : \A m \in Launches :
          /\ rank'[u][m] \in Alive => (parentDone(u))'
          /\ torch'[u][m] = "up" => (parentDone(u))' /\ (parentFree(u))'
    BY <2>3, <2>4 DEF Claim, IInv, ParentSettled, runVars
  <2> QED BY <2>6, <2>7, <2>8 DEF ParentSettled, parentDone, parentFree, complete
<1>7. ResultPhases'
    BY ConstantsAssumption DEF Claim, claimable, ready, locked, doneSeen, completeSeen, IInv, TypeOK,
     ResultPhases, ExecHeld, InLock, runVars, fileVars
<1> QED BY <1>1, <1>2, <1>3, <1>4, <1>5, <1>6, <1>7 DEF IInv

\* Only the owner of the lease writes the receipt; the bound was checked.
LEMMA RecordKeeps ==
    ASSUME IInv, NEW w \in Workers, Record(w)
    PROVE  IInv'
<1>1. TypeOK'
  <2>1. wtask[w] \in Tasks /\ receipt[wtask[w]].attempt < MaxLaunches
    BY DEF Record, IInv, LeaseOwned, AttemptNumbers, Held
  <2>2. /\ receipt[wtask[w]].attempt + 1 \in 0..MaxLaunches
        /\ receipt[wtask[w]].retry + 1 \in 0..MaxLaunches
    BY <2>1, ConstantsAssumption DEF IInv, TypeOK, AttemptNumbers
  <2>3. receipt' = [receipt EXCEPT ![wtask[w]] =
            [status |-> "running", attempt |-> receipt[wtask[w]].attempt + 1,
             retry |-> receipt[wtask[w]].retry + 1]]
    BY <2>1 DEF Record, IInv, TypeOK
  <2>4. receipt' \in [Tasks -> [status : Statuses, attempt : 0..MaxLaunches,
                               retry : 0..MaxLaunches]]
    BY <2>1, <2>2, <2>3 DEF IInv, TypeOK, Statuses
  <2>5. wpc' \in [Workers -> {"poll", "scan"} \cup Held \cup Terminal]
    BY DEF Record, IInv, TypeOK, Held
  <2> QED BY <2>4, <2>5 DEF Record, IInv, TypeOK, runVars, fileVars
<1>2. LeaseOwned'
  <2>1. UNCHANGED <<lease, wtask>>
    BY DEF Record
  <2>2. \A v \in Workers : wpc'[v] \in Held <=> wpc[v] \in Held
    BY DEF Record, IInv, TypeOK, Held
  <2> QED BY <2>1, <2>2, LeaseOwnedFrame
<1>3. LauncherCurrent'
    BY ConstantsAssumption DEF Record, IInv, TypeOK, LauncherCurrent,
     LeaseOwned, Held, Launches, runVars, fileVars
<1>4. AttemptNumbers'
    BY ConstantsAssumption DEF Record, IInv, TypeOK, AttemptNumbers,
     LeaseOwned, Held, Launches, runVars, fileVars
<1>5. ExecHeld'
    BY ConstantsAssumption DEF Record, IInv, TypeOK, ExecHeld, InLock,
     runVars, fileVars
<1>6. ParentSettled'
  <2>1. \A v \in Workers : \A s \in seen'[v] : s \in Seeds /\ complete(Cache(s))
    BY DEF Record, IInv, TypeOK, ParentSettled
  <2>2. \A u \in Tasks : marker[u] # 0 => marker'[u] # 0
    BY DEF Record, IInv, TypeOK, ResultPhases, fileVars
  <2>3. \A u \in Tasks : lease[u] = {} => lease'[u] = {}
    BY DEF Record, IInv, TypeOK, queueVars
  <2>4. \A v \in Workers : wpc'[v] \in Held => wpc[v] \in Held /\ wtask'[v] = wtask[v]
    BY DEF Record, IInv, TypeOK, Held
  <2>5. \A u \in Tasks : \A m \in Launches :
          rank'[u][m] \in Alive => rank[u][m] \in Alive \/ parentDone(u)
    BY DEF Record, IInv, TypeOK, Alive, InLock, runVars
  <2>6. \A u \in Tasks : \A m \in Launches :
          torch'[u][m] = "up" => torch[u][m] = "up" \/ (parentDone(u) /\ parentFree(u))
    BY DEF Record, IInv, TypeOK, runVars
  <2> QED BY <2>1, <2>2, <2>3, <2>4, <2>5, <2>6, ParentSettledFrame
<1>7. ResultPhases'
    BY ConstantsAssumption DEF Record, IInv, TypeOK, ResultPhases, ExecHeld,
     InLock, runVars, fileVars
<1> QED BY <1>1, <1>2, <1>3, <1>4, <1>5, <1>6, <1>7 DEF IInv

\* The launcher joins the owner's lease as the latest attempt.
LEMMA StartChildKeeps ==
    ASSUME IInv, NEW w \in Workers, StartChild(w)
    PROVE  IInv'
<1>1. TypeOK'
  <2> DEFINE t == wtask[w]
             n == receipt[t].attempt
  <2>1. t \in Tasks /\ n \in Launches
    BY HeldLaunch DEF StartChild, Held
  <2>2. /\ lease' = [lease EXCEPT ![t] = @ \cup {n}]
        /\ torch' = [torch EXCEPT ![t][n] = "up"]
        /\ \E pc \in {"lock", "startup"} : rank' = [rank EXCEPT ![t][n] = pc]
        /\ wpc' = [wpc EXCEPT ![w] = "running"]
        /\ UNCHANGED <<receipt, history, seen, wtask, outcome, exec, fileVars, stop, faults>>
    BY DEF StartChild
  <2> HIDE DEF t, n
  <2>3. lease' \in [Tasks -> SUBSET (Workers \cup Launches)]
    BY <2>1, <2>2 DEF IInv, TypeOK
  <2>4. torch' \in [Tasks -> [Launches -> {"none", "up", "ok", "err"}]]
    BY <2>1, <2>2 DEF IInv, TypeOK
  <2>5. rank' \in [Tasks -> [Launches -> {"none", "ok", "err"} \cup Alive]]
    BY <2>1, <2>2 DEF IInv, TypeOK, Alive
  <2> QED BY <2>2, <2>3, <2>4, <2>5 DEF IInv, TypeOK, Held, fileVars
<1>2. LeaseOwned'
  <2>1. \A u \in Tasks : \A v \in Workers : v \in lease'[u] <=> v \in lease[u]
    BY HeldLaunch, WorkersShare DEF StartChild, Held
  <2>2. \A v \in Workers : wpc'[v] \in Held <=> wpc[v] \in Held
    BY DEF StartChild, IInv, TypeOK, Held
  <2> QED BY <2>1, <2>2, LeaseOwnedFrame DEF StartChild
<1>3. LauncherCurrent'
    BY ConstantsAssumption DEF StartChild, IInv, TypeOK, LauncherCurrent,
     LeaseOwned, Held, Launches, fileVars
<1>4. AttemptNumbers'
    BY ConstantsAssumption DEF StartChild, IInv, TypeOK, AttemptNumbers,
     LeaseOwned, Held, Launches, fileVars
<1>5. ExecHeld'
    BY ConstantsAssumption DEF StartChild, IInv, TypeOK, ExecHeld, InLock,
     fileVars
<1>6. ParentSettled'
  <2> DEFINE t == wtask[w]
             n == receipt[t].attempt
  <2>1. t \in Tasks /\ n \in Launches /\ parentDone(t) /\ parentFree(t)
    BY HeldLaunch DEF StartChild, Held, IInv, ParentSettled
  <2>2. /\ lease' = [lease EXCEPT ![t] = @ \cup {n}]
        /\ torch' = [torch EXCEPT ![t][n] = "up"]
        /\ \E pc \in {"lock", "startup"} : rank' = [rank EXCEPT ![t][n] = pc]
    BY DEF StartChild
  <2>3. w \in lease[t]
    BY DEF StartChild, IInv, LeaseOwned, Held
  <2>4. /\ \A v \in Workers : \A s \in seen'[v] : s \in Seeds /\ complete(Cache(s))
        /\ \A u \in Tasks : marker[u] # 0 => marker'[u] # 0
    BY DEF StartChild, IInv, TypeOK, ParentSettled, fileVars
  <2>5. \A v \in Workers : wpc'[v] \in Held => wpc[v] \in Held /\ wtask'[v] = wtask[v]
    BY DEF StartChild, IInv, TypeOK, Held
  <2> HIDE DEF t, n
  <2>6. \A u \in Tasks : lease[u] = {} => lease'[u] = {}
    BY <2>1, <2>2, <2>3 DEF IInv, TypeOK
  <2>7. \A u \in Tasks : \A m \in Launches :
          rank'[u][m] \in Alive => rank[u][m] \in Alive \/ parentDone(u)
    BY <2>1, <2>2 DEF IInv, TypeOK
  <2>8. \A u \in Tasks : \A m \in Launches :
          torch'[u][m] = "up" => torch[u][m] = "up" \/ (parentDone(u) /\ parentFree(u))
    BY <2>1, <2>2 DEF IInv, TypeOK
  <2> QED BY <2>4, <2>5, <2>6, <2>7, <2>8, ParentSettledFrame
<1>7. ResultPhases'
    BY ConstantsAssumption DEF StartChild, IInv, TypeOK, ResultPhases,
     ExecHeld, InLock, fileVars
<1> QED BY <1>1, <1>2, <1>3, <1>4, <1>5, <1>6, <1>7 DEF IInv

\* A refused admission leaves the queue's files alone.
LEMMA DeviceBusyKeeps ==
    ASSUME IInv, NEW w \in Workers, DeviceBusy(w)
    PROVE  IInv'
<1>1. TypeOK'
    BY ConstantsAssumption DEF DeviceBusy, IInv, TypeOK, Held, Terminal,
     Alive, InLock, Outcomes, Statuses, Launches, LeaseOwned, AttemptNumbers,
     queueVars, runVars, fileVars
<1>2. LeaseOwned'
    BY ConstantsAssumption DEF DeviceBusy, IInv, TypeOK, LeaseOwned, Held,
     Launches, queueVars, runVars, fileVars
<1>3. LauncherCurrent'
    BY ConstantsAssumption DEF DeviceBusy, IInv, TypeOK, LauncherCurrent,
     LeaseOwned, Held, Launches, queueVars, runVars, fileVars
<1>4. AttemptNumbers'
    BY ConstantsAssumption DEF DeviceBusy, IInv, TypeOK, AttemptNumbers,
     LeaseOwned, Held, Launches, queueVars, runVars, fileVars
<1>5. ExecHeld'
    BY ConstantsAssumption DEF DeviceBusy, IInv, TypeOK, ExecHeld, InLock,
     queueVars, runVars, fileVars
<1>6. ParentSettled'
  <2>1. \A v \in Workers : \A s \in seen'[v] : s \in Seeds /\ complete(Cache(s))
    BY DEF DeviceBusy, IInv, TypeOK, ParentSettled
  <2>2. \A u \in Tasks : marker[u] # 0 => marker'[u] # 0
    BY DEF DeviceBusy, IInv, TypeOK, ResultPhases, fileVars
  <2>3. \A u \in Tasks : lease[u] = {} => lease'[u] = {}
    BY DEF DeviceBusy, IInv, TypeOK, queueVars
  <2>4. \A v \in Workers : wpc'[v] \in Held => wpc[v] \in Held /\ wtask'[v] = wtask[v]
    BY DEF DeviceBusy, IInv, TypeOK, Held
  <2>5. \A u \in Tasks : \A m \in Launches :
          rank'[u][m] \in Alive => rank[u][m] \in Alive \/ parentDone(u)
    BY DEF DeviceBusy, IInv, TypeOK, Alive, InLock, runVars
  <2>6. \A u \in Tasks : \A m \in Launches :
          torch'[u][m] = "up" => torch[u][m] = "up" \/ (parentDone(u) /\ parentFree(u))
    BY DEF DeviceBusy, IInv, TypeOK, runVars
  <2> QED BY <2>1, <2>2, <2>3, <2>4, <2>5, <2>6, ParentSettledFrame
<1>7. ResultPhases'
    BY ConstantsAssumption DEF DeviceBusy, IInv, TypeOK, ResultPhases,
     ExecHeld, InLock, queueVars, runVars, fileVars
<1> QED BY <1>1, <1>2, <1>3, <1>4, <1>5, <1>6, <1>7 DEF IInv

\* The worker reads its child's exit code.
LEMMA ChildExitKeeps ==
    ASSUME IInv, NEW w \in Workers, ChildExit(w)
    PROVE  IInv'
<1>1. TypeOK'
    BY ConstantsAssumption DEF ChildExit, IInv, TypeOK, Held, Terminal, Alive,
     InLock, Outcomes, Statuses, Launches, LeaseOwned, AttemptNumbers,
     queueVars, runVars, fileVars
<1>2. LeaseOwned'
    BY ConstantsAssumption DEF ChildExit, IInv, TypeOK, LeaseOwned, Held,
     Launches, queueVars, runVars, fileVars
<1>3. LauncherCurrent'
    BY ConstantsAssumption DEF ChildExit, IInv, TypeOK, LauncherCurrent,
     LeaseOwned, Held, Launches, queueVars, runVars, fileVars
<1>4. AttemptNumbers'
    BY ConstantsAssumption DEF ChildExit, IInv, TypeOK, AttemptNumbers,
     LeaseOwned, Held, Launches, queueVars, runVars, fileVars
<1>5. ExecHeld'
    BY ConstantsAssumption DEF ChildExit, IInv, TypeOK, ExecHeld, InLock,
     queueVars, runVars, fileVars
<1>6. ParentSettled'
  <2>1. \A v \in Workers : \A s \in seen'[v] : s \in Seeds /\ complete(Cache(s))
    BY DEF ChildExit, IInv, TypeOK, ParentSettled
  <2>2. \A u \in Tasks : marker[u] # 0 => marker'[u] # 0
    BY DEF ChildExit, IInv, TypeOK, ResultPhases, fileVars
  <2>3. \A u \in Tasks : lease[u] = {} => lease'[u] = {}
    BY DEF ChildExit, IInv, TypeOK, queueVars
  <2>4. \A v \in Workers : wpc'[v] \in Held => wpc[v] \in Held /\ wtask'[v] = wtask[v]
    BY DEF ChildExit, IInv, TypeOK, Held
  <2>5. \A u \in Tasks : \A m \in Launches :
          rank'[u][m] \in Alive => rank[u][m] \in Alive \/ parentDone(u)
    BY DEF ChildExit, IInv, TypeOK, Alive, InLock, runVars
  <2>6. \A u \in Tasks : \A m \in Launches :
          torch'[u][m] = "up" => torch[u][m] = "up" \/ (parentDone(u) /\ parentFree(u))
    BY DEF ChildExit, IInv, TypeOK, runVars
  <2> QED BY <2>1, <2>2, <2>3, <2>4, <2>5, <2>6, ParentSettledFrame
<1>7. ResultPhases'
    BY ConstantsAssumption DEF ChildExit, IInv, TypeOK, ResultPhases,
     ExecHeld, InLock, queueVars, runVars, fileVars
<1> QED BY <1>1, <1>2, <1>3, <1>4, <1>5, <1>6, <1>7 DEF IInv

\* An interruption ends the launcher before the worker goes on.
LEMMA InterruptChildKeeps ==
    ASSUME IInv, NEW w \in Workers, InterruptChild(w)
    PROVE  IInv'
<1> DEFINE t == wtask[w]
           n == receipt[t].attempt
<1>1. t \in Tasks /\ n \in Launches
  BY HeldLaunch DEF InterruptChild, Held
<1>2. /\ lease' = [lease EXCEPT ![t] = @ \ {n}]
      /\ torch' = [torch EXCEPT ![t][n] = IF @ = "up" THEN "err" ELSE @]
      /\ rank' \in [Tasks -> [Launches -> {"none", "ok", "err"} \cup Alive]]
      /\ exec' \in [Tasks -> 0..MaxLaunches]
      /\ \A u \in Tasks, m \in Launches :
           rank'[u][m] # rank[u][m] => u = t /\ m = n /\ rank'[u][m] = "err"
      /\ \A u \in Tasks :
           exec'[u] # exec[u] => u = t /\ exec[t] = n /\ rank'[t][n] = "err"
  <2>1. KillGroup(t, n)
    BY DEF InterruptChild
  <2> HIDE DEF t, n
  <2> QED BY <1>1, <2>1, KillGroupEffect
<1>3. wpc[w] = "running" /\ wpc' = [wpc EXCEPT ![w] = "finishing"]
  BY DEF InterruptChild
<1> HIDE DEF t, n
<1>4. TypeOK'
  BY <1>1, <1>2, <1>3, ConstantsAssumption
     DEF InterruptChild, IInv, TypeOK, Held, Outcomes, fileVars
<1>5. LeaseOwned'
  <2>1. \A u \in Tasks : \A v \in Workers : v \in lease'[u] <=> v \in lease[u]
    BY <1>1, <1>2, WorkersShare
  <2>2. \A v \in Workers : wpc'[v] \in Held <=> wpc[v] \in Held
    BY <1>3, IInv DEF InterruptChild, IInv, TypeOK, Held
  <2> QED BY <2>1, <2>2, LeaseOwnedFrame DEF InterruptChild
<1>6. LauncherCurrent'
  <2>1. \A u \in Tasks : \A m \in Launches : torch'[u][m] = "up" =>
            torch[u][m] = "up" /\ ~ (u = t /\ m = n)
    BY <1>1, <1>2 DEF IInv, TypeOK
  <2>2. \A u \in Tasks : \A m \in Launches : m \in lease'[u] <=>
            m \in lease[u] /\ ~ (u = t /\ m = n)
    BY <1>1, <1>2 DEF IInv, TypeOK
  <2>3. \A m \in Launches : torch[t][m] = "up" => m = n
    BY <1>1 DEF IInv, LauncherCurrent, t, n
  <2>4. \A u \in Tasks : \A m \in Launches : torch[u][m] = "up" /\ ~ (u = t /\ m = n) =>
            torch'[u][m] = "up" /\ u # t
    BY <1>1, <1>2, <2>3 DEF IInv, TypeOK
  <2>5. \A u \in Tasks : \A v \in Workers : v \in lease'[u] <=> v \in lease[u]
    BY <1>1, <1>2, WorkersShare
  <2>6. \A u \in Tasks : w \in lease[u] => u = t
    BY DEF IInv, LeaseOwned, t
  <2>7. \A v \in Workers : v # w => wpc'[v] = wpc[v]
    BY <1>3 DEF IInv, TypeOK
  <2>8. UNCHANGED receipt
    BY DEF InterruptChild
  <2> QED BY <2>1, <2>2, <2>4, <2>5, <2>6, <2>7, <2>8 DEF IInv, LauncherCurrent
<1>7. AttemptNumbers'
  BY <1>3 DEF InterruptChild, IInv, TypeOK, AttemptNumbers, Held
<1>8. ExecHeld'
  BY <1>1, <1>2 DEF IInv, TypeOK, ExecHeld, InLock
<1>9. ParentSettled'
  <2>1. \A v \in Workers : \A s \in seen'[v] : s \in Seeds /\ complete(Cache(s))
    BY <1>1, <1>2, <1>3 DEF InterruptChild, IInv, TypeOK, ParentSettled
  <2>2. \A u \in Tasks : marker[u] # 0 => marker'[u] # 0
    BY <1>1, <1>2, <1>3 DEF InterruptChild, IInv, TypeOK, ResultPhases, fileVars
  <2>3. \A u \in Tasks : lease[u] = {} => lease'[u] = {}
    BY <1>1, <1>2, <1>3 DEF InterruptChild, IInv, TypeOK, queueVars
  <2>4. \A v \in Workers : wpc'[v] \in Held => wpc[v] \in Held /\ wtask'[v] = wtask[v]
    BY <1>1, <1>2, <1>3 DEF InterruptChild, IInv, TypeOK, Held
  <2>5. \A u \in Tasks : \A m \in Launches :
          rank'[u][m] \in Alive => rank[u][m] \in Alive \/ parentDone(u)
    BY <1>1, <1>2, <1>3 DEF InterruptChild, IInv, TypeOK, Alive, InLock, runVars
  <2>6. \A u \in Tasks : \A m \in Launches :
          torch'[u][m] = "up" => torch[u][m] = "up" \/ (parentDone(u) /\ parentFree(u))
    BY <1>1, <1>2, <1>3 DEF InterruptChild, IInv, TypeOK, runVars
  <2> QED BY <2>1, <2>2, <2>3, <2>4, <2>5, <2>6, ParentSettledFrame
<1>10. ResultPhases'
  <2>1. \A u \in Tasks : \A m \in Launches :
          rank'[u][m] \in {"work", "publish"} => rank'[u][m] = rank[u][m]
    BY <1>1, <1>2
  <2>2. UNCHANGED <<artifact, marker>>
    BY DEF InterruptChild, fileVars
  <2> QED BY <2>1, <2>2 DEF IInv, ResultPhases
<1> QED BY <1>4, <1>5, <1>6, <1>7, <1>8, <1>9, <1>10 DEF IInv

\* A stall ends the launcher before the worker goes on.
LEMMA StallChildKeeps ==
    ASSUME IInv, NEW w \in Workers, StallChild(w)
    PROVE  IInv'
<1> DEFINE t == wtask[w]
           n == receipt[t].attempt
<1>1. t \in Tasks /\ n \in Launches
  BY HeldLaunch DEF StallChild, Held
<1>2. /\ lease' = [lease EXCEPT ![t] = @ \ {n}]
      /\ torch' = [torch EXCEPT ![t][n] = IF @ = "up" THEN "err" ELSE @]
      /\ rank' \in [Tasks -> [Launches -> {"none", "ok", "err"} \cup Alive]]
      /\ exec' \in [Tasks -> 0..MaxLaunches]
      /\ \A u \in Tasks, m \in Launches :
           rank'[u][m] # rank[u][m] => u = t /\ m = n /\ rank'[u][m] = "err"
      /\ \A u \in Tasks :
           exec'[u] # exec[u] => u = t /\ exec[t] = n /\ rank'[t][n] = "err"
  <2>1. KillGroup(t, n)
    BY DEF StallChild
  <2> HIDE DEF t, n
  <2> QED BY <1>1, <2>1, KillGroupEffect
<1>3. wpc[w] = "running" /\ wpc' = [wpc EXCEPT ![w] = "finishing"]
  BY DEF StallChild
<1> HIDE DEF t, n
<1>4. TypeOK'
  BY <1>1, <1>2, <1>3, ConstantsAssumption
     DEF StallChild, IInv, TypeOK, Held, Outcomes, fileVars
<1>5. LeaseOwned'
  <2>1. \A u \in Tasks : \A v \in Workers : v \in lease'[u] <=> v \in lease[u]
    BY <1>1, <1>2, WorkersShare
  <2>2. \A v \in Workers : wpc'[v] \in Held <=> wpc[v] \in Held
    BY <1>3, IInv DEF StallChild, IInv, TypeOK, Held
  <2> QED BY <2>1, <2>2, LeaseOwnedFrame DEF StallChild
<1>6. LauncherCurrent'
  <2>1. \A u \in Tasks : \A m \in Launches : torch'[u][m] = "up" =>
            torch[u][m] = "up" /\ ~ (u = t /\ m = n)
    BY <1>1, <1>2 DEF IInv, TypeOK
  <2>2. \A u \in Tasks : \A m \in Launches : m \in lease'[u] <=>
            m \in lease[u] /\ ~ (u = t /\ m = n)
    BY <1>1, <1>2 DEF IInv, TypeOK
  <2>3. \A m \in Launches : torch[t][m] = "up" => m = n
    BY <1>1 DEF IInv, LauncherCurrent, t, n
  <2>4. \A u \in Tasks : \A m \in Launches : torch[u][m] = "up" /\ ~ (u = t /\ m = n) =>
            torch'[u][m] = "up" /\ u # t
    BY <1>1, <1>2, <2>3 DEF IInv, TypeOK
  <2>5. \A u \in Tasks : \A v \in Workers : v \in lease'[u] <=> v \in lease[u]
    BY <1>1, <1>2, WorkersShare
  <2>6. \A u \in Tasks : w \in lease[u] => u = t
    BY DEF IInv, LeaseOwned, t
  <2>7. \A v \in Workers : v # w => wpc'[v] = wpc[v]
    BY <1>3 DEF IInv, TypeOK
  <2>8. UNCHANGED receipt
    BY DEF StallChild
  <2> QED BY <2>1, <2>2, <2>4, <2>5, <2>6, <2>7, <2>8 DEF IInv, LauncherCurrent
<1>7. AttemptNumbers'
  BY <1>3 DEF StallChild, IInv, TypeOK, AttemptNumbers, Held
<1>8. ExecHeld'
  BY <1>1, <1>2 DEF IInv, TypeOK, ExecHeld, InLock
<1>9. ParentSettled'
  <2>1. \A v \in Workers : \A s \in seen'[v] : s \in Seeds /\ complete(Cache(s))
    BY <1>1, <1>2, <1>3 DEF StallChild, IInv, TypeOK, ParentSettled
  <2>2. \A u \in Tasks : marker[u] # 0 => marker'[u] # 0
    BY <1>1, <1>2, <1>3 DEF StallChild, IInv, TypeOK, ResultPhases, fileVars
  <2>3. \A u \in Tasks : lease[u] = {} => lease'[u] = {}
    BY <1>1, <1>2, <1>3 DEF StallChild, IInv, TypeOK, queueVars
  <2>4. \A v \in Workers : wpc'[v] \in Held => wpc[v] \in Held /\ wtask'[v] = wtask[v]
    BY <1>1, <1>2, <1>3 DEF StallChild, IInv, TypeOK, Held
  <2>5. \A u \in Tasks : \A m \in Launches :
          rank'[u][m] \in Alive => rank[u][m] \in Alive \/ parentDone(u)
    BY <1>1, <1>2, <1>3 DEF StallChild, IInv, TypeOK, Alive, InLock, runVars
  <2>6. \A u \in Tasks : \A m \in Launches :
          torch'[u][m] = "up" => torch[u][m] = "up" \/ (parentDone(u) /\ parentFree(u))
    BY <1>1, <1>2, <1>3 DEF StallChild, IInv, TypeOK, runVars
  <2> QED BY <2>1, <2>2, <2>3, <2>4, <2>5, <2>6, ParentSettledFrame
<1>10. ResultPhases'
  <2>1. \A u \in Tasks : \A m \in Launches :
          rank'[u][m] \in {"work", "publish"} => rank'[u][m] = rank[u][m]
    BY <1>1, <1>2
  <2>2. UNCHANGED <<artifact, marker>>
    BY DEF StallChild, fileVars
  <2> QED BY <2>1, <2>2 DEF IInv, ResultPhases
<1> QED BY <1>4, <1>5, <1>6, <1>7, <1>8, <1>9, <1>10 DEF IInv

\* The attempt's record is one of the three ends.
LEMMA FinishAttemptKeeps ==
    ASSUME IInv, NEW w \in Workers, FinishAttempt(w)
    PROVE  IInv'
<1>1. TypeOK'
  <2>1. finishStatus(w, wtask[w]) \in {"complete", "interrupted", "failed"}
    BY DEF finishStatus
  <2>2. wtask[w] \in Tasks
    BY DEF FinishAttempt, IInv, LeaseOwned, Held
  <2> QED BY <2>1, <2>2 DEF IInv, TypeOK, FinishAttempt, Held, runVars, fileVars
<1>2. LeaseOwned'
    BY ConstantsAssumption DEF FinishAttempt, IInv, TypeOK, LeaseOwned, Held,
     Launches, runVars, fileVars
<1>3. LauncherCurrent'
    BY ConstantsAssumption DEF FinishAttempt, IInv, TypeOK, LauncherCurrent,
     LeaseOwned, Held, Launches, runVars, fileVars
<1>4. AttemptNumbers'
  <2>1. wtask[w] \in Tasks /\ receipt[wtask[w]].attempt \in Launches
    BY HeldLaunch DEF FinishAttempt, Held
  <2>2. /\ \A u \in Tasks \ {wtask[w]} : history'[u] = history[u]
        /\ history'[wtask[w]][receipt[wtask[w]].attempt] = finishStatus(w, wtask[w])
    BY <2>1 DEF FinishAttempt, IInv, TypeOK
  <2>3. finishStatus(w, wtask[w]) \in {"complete", "interrupted", "failed"}
    BY DEF finishStatus
  <2>4. \A v \in Workers : v # w => wpc'[v] = wpc[v]
    BY DEF FinishAttempt, IInv, TypeOK
  <2>5. wpc[w] = "finishing" /\ wpc'[w] = "recording" /\ UNCHANGED <<receipt, wtask>>
    BY DEF FinishAttempt, IInv, TypeOK
  <2>6. \A v \in Workers : v # w /\ wpc[v] = "recording" =>
            wtask[v] \in Tasks /\ wtask[v] # wtask[w]
    BY <2>1, <2>5 DEF IInv, LeaseOwned, Held
  <2> QED BY <2>1, <2>2, <2>3, <2>4, <2>5, <2>6 DEF IInv, AttemptNumbers, Held
<1>5. ExecHeld'
    BY ConstantsAssumption DEF FinishAttempt, IInv, TypeOK, ExecHeld, InLock,
     runVars, fileVars
<1>6. ParentSettled'
  <2>1. \A v \in Workers : \A s \in seen'[v] : s \in Seeds /\ complete(Cache(s))
    BY DEF FinishAttempt, IInv, TypeOK, ParentSettled
  <2>2. \A u \in Tasks : marker[u] # 0 => marker'[u] # 0
    BY DEF FinishAttempt, IInv, TypeOK, ResultPhases, fileVars
  <2>3. \A u \in Tasks : lease[u] = {} => lease'[u] = {}
    BY DEF FinishAttempt, IInv, TypeOK, queueVars
  <2>4. \A v \in Workers : wpc'[v] \in Held => wpc[v] \in Held /\ wtask'[v] = wtask[v]
    BY DEF FinishAttempt, IInv, TypeOK, Held
  <2>5. \A u \in Tasks : \A m \in Launches :
          rank'[u][m] \in Alive => rank[u][m] \in Alive \/ parentDone(u)
    BY DEF FinishAttempt, IInv, TypeOK, Alive, InLock, runVars
  <2>6. \A u \in Tasks : \A m \in Launches :
          torch'[u][m] = "up" => torch[u][m] = "up" \/ (parentDone(u) /\ parentFree(u))
    BY DEF FinishAttempt, IInv, TypeOK, runVars
  <2> QED BY <2>1, <2>2, <2>3, <2>4, <2>5, <2>6, ParentSettledFrame
<1>7. ResultPhases'
    BY ConstantsAssumption DEF FinishAttempt, IInv, TypeOK, ResultPhases,
     ExecHeld, InLock, runVars, fileVars
<1> QED BY <1>1, <1>2, <1>3, <1>4, <1>5, <1>6, <1>7 DEF IInv

\* The lease is unlocked when no launcher is alive.
LEMMA FinishReceiptKeeps ==
    ASSUME IInv, NEW w \in Workers, FinishReceipt(w)
    PROVE  IInv'
<1> DEFINE t == wtask[w]
<1>0. t \in Tasks /\ w \in lease[t] /\ wpc[w] = "recording"
  BY DEF FinishReceipt, IInv, LeaseOwned, Held
<1>a. /\ wtask' = [wtask EXCEPT ![w] = None] /\ lease' = [lease EXCEPT ![t] = {}]
      /\ UNCHANGED <<torch, history, seen, runVars, fileVars, stop, faults>>
  BY DEF FinishReceipt, runVars
<1>b. /\ \A u \in Tasks : u # t => lease'[u] = lease[u] /\ receipt'[u] = receipt[u]
      /\ \A v \in Workers : v # w => wpc'[v] = wpc[v]
      /\ lease'[t] = {}
  <2>1. \A u \in Tasks : u # t => receipt'[u] = receipt[u]
    BY DEF FinishReceipt, IInv, TypeOK
  <2>2. \A v \in Workers : v # w => wpc'[v] = wpc[v]
    BY DEF FinishReceipt, IInv, TypeOK
  <2>3. lease'[t] = {} /\ \A u \in Tasks : u # t => lease'[u] = lease[u]
    BY <1>0, <1>a DEF IInv, TypeOK
  <2> QED BY <2>1, <2>2, <2>3
<1>1. TypeOK'
  <2>1. /\ history[t][receipt[t].attempt] \in Statuses
        /\ receipt[t].attempt \in 0..MaxLaunches /\ receipt[t].retry \in 0..MaxLaunches
    BY <1>0, ConstantsAssumption DEF IInv, TypeOK, AttemptNumbers, Statuses, Launches
  <2>2. receipt' \in [Tasks -> [status : Statuses, attempt : 0..MaxLaunches,
                                retry : 0..MaxLaunches]]
    BY <1>0, <2>1, ConstantsAssumption DEF FinishReceipt, IInv, TypeOK
  <2>3. wpc' \in [Workers -> {"poll", "scan"} \cup Held \cup Terminal]
    BY DEF FinishReceipt, IInv, TypeOK, Terminal
  <2>4. outcome' \in [Workers -> {"none"} \cup Outcomes]
    BY DEF FinishReceipt, IInv, TypeOK
  <2>5. lease' \in [Tasks -> SUBSET (Workers \cup Launches)]
    BY <1>a DEF IInv, TypeOK
  <2> QED BY <1>a, <2>2, <2>3, <2>4, <2>5 DEF IInv, TypeOK, runVars, fileVars
<1>2. LeaseOwned'
    BY ConstantsAssumption DEF FinishReceipt, IInv, TypeOK, LeaseOwned, Held,
     Launches, runVars, fileVars
<1>3. LauncherCurrent'
  <2>1. \A n \in Launches : torch[t][n] # "up"
    BY <1>0 DEF IInv, LauncherCurrent
  <2>2. \A u \in Tasks : u # t => w \notin lease[u]
    BY <1>0 DEF IInv, LeaseOwned
  <2>3. torch' = torch
    BY <1>a
  <2> HIDE DEF t
  <2> SUFFICES ASSUME NEW u \in Tasks, NEW n \in Launches
               PROVE  /\ torch[u][n] = "up" <=> n \in lease'[u]
                      /\ torch[u][n] = "up" =>
                           /\ n = receipt'[u].attempt
                           /\ \A v \in Workers : v \in lease'[u] => wpc'[v] = "running"
    BY <2>3 DEF LauncherCurrent
  <2>4. CASE u = t
    BY <1>b, <2>1, <2>4
  <2>5. CASE u # t
    BY <1>b, <2>2, <2>5 DEF IInv, LauncherCurrent
  <2> QED BY <2>4, <2>5
<1>4. AttemptNumbers'
  <2>1. \A u \in Tasks : receipt'[u].retry <= receipt'[u].attempt
    <3>1. receipt[t].attempt \in Nat /\ receipt[t].retry \in Nat
      BY <1>0, ConstantsAssumption DEF IInv, TypeOK
    <3>2. receipt'[t].attempt = receipt[t].attempt /\ receipt'[t].retry <= receipt[t].retry
      BY <1>0, <3>1 DEF FinishReceipt, IInv, TypeOK
    <3>3. receipt[t].retry <= receipt[t].attempt
      BY <1>0 DEF IInv, AttemptNumbers
    <3>4. receipt'[t].retry \in Nat
      BY <1>0, <3>1 DEF FinishReceipt, IInv, TypeOK
    <3>5. receipt'[t].retry <= receipt'[t].attempt
      BY <3>1, <3>2, <3>3, <3>4
    <3> HIDE DEF t
    <3> QED BY <1>b, <3>5 DEF IInv, AttemptNumbers
  <2>2. wpc'[w] \notin Held
    BY DEF FinishReceipt, IInv, TypeOK, Held
  <2>3. \A v \in Workers : v # w /\ wpc[v] \in Held => wtask[v] \in Tasks /\ wtask[v] # t
    BY <1>0 DEF IInv, LeaseOwned
  <2>4. \A v \in Workers : v # w => wtask'[v] = wtask[v]
    BY <1>a DEF IInv, TypeOK
  <2>5. history' = history
    BY <1>a
  <2> HIDE DEF t
  <2> QED BY <1>b, <2>1, <2>2, <2>3, <2>4, <2>5 DEF IInv, AttemptNumbers, Held
<1>5. ExecHeld'
    BY ConstantsAssumption DEF FinishReceipt, IInv, TypeOK, ExecHeld, InLock,
     runVars, fileVars
<1>6. ParentSettled'
  <2>1. \A v \in Workers : \A s \in seen'[v] : s \in Seeds /\ complete(Cache(s))
    BY DEF FinishReceipt, IInv, TypeOK, ParentSettled
  <2>2. \A u \in Tasks : marker[u] # 0 => marker'[u] # 0
    BY DEF FinishReceipt, IInv, TypeOK, ResultPhases, fileVars
  <2>3. \A u \in Tasks : lease[u] = {} => lease'[u] = {}
    BY DEF FinishReceipt, IInv, TypeOK, queueVars
  <2>4. \A v \in Workers : wpc'[v] \in Held => wpc[v] \in Held /\ wtask'[v] = wtask[v]
    BY DEF FinishReceipt, IInv, TypeOK, Held
  <2>5. \A u \in Tasks : \A m \in Launches :
          rank'[u][m] \in Alive => rank[u][m] \in Alive \/ parentDone(u)
    BY DEF FinishReceipt, IInv, TypeOK, Alive, InLock, runVars
  <2>6. \A u \in Tasks : \A m \in Launches :
          torch'[u][m] = "up" => torch[u][m] = "up" \/ (parentDone(u) /\ parentFree(u))
    BY DEF FinishReceipt, IInv, TypeOK, runVars
  <2> QED BY <2>1, <2>2, <2>3, <2>4, <2>5, <2>6, ParentSettledFrame
<1>7. ResultPhases'
    BY ConstantsAssumption DEF FinishReceipt, IInv, TypeOK, ResultPhases,
     ExecHeld, InLock, runVars, fileVars
<1> QED BY <1>1, <1>2, <1>3, <1>4, <1>5, <1>6, <1>7 DEF IInv

\* A worker that finds nothing to claim holds nothing.
LEMMA NothingToClaimKeeps ==
    ASSUME IInv, NEW w \in Workers, NothingToClaim(w)
    PROVE  IInv'
<1>1. PICK pc \in {"complete", "failed", "poll"} : wpc' = [wpc EXCEPT ![w] = pc]
  BY Zenon DEF NothingToClaim
<1>2. /\ wpc[w] \in {"poll", "scan"}
      /\ UNCHANGED <<queueVars, wtask, outcome, runVars, fileVars, stop, faults>>
  BY DEF NothingToClaim
<1>3. /\ seen' \in [Workers -> SUBSET Seeds]
      /\ \A v \in Workers : \A s \in seen'[v] : complete(Cache(s))
  <2>1. seen' = [seen EXCEPT ![w] = {}]
    BY DEF NothingToClaim
  <2> QED BY <2>1 DEF IInv, TypeOK, ParentSettled
<1>4. \A v \in Workers : wpc'[v] \in Held <=> wpc[v] \in Held
  BY <1>1, <1>2 DEF IInv, TypeOK, Held
<1>5. TypeOK'
  BY <1>1, <1>2, <1>3 DEF IInv, TypeOK, Terminal, fileVars, queueVars, runVars
<1>6. LeaseOwned'
  BY <1>2, <1>4, LeaseOwnedFrame DEF queueVars
<1>7. LauncherCurrent'
  <2>1. \A v \in Workers : wpc[v] = "running" => wpc'[v] = "running"
    BY <1>1, <1>2 DEF IInv, TypeOK
  <2> QED BY <1>2, <2>1 DEF IInv, LauncherCurrent, queueVars, runVars
<1>8. AttemptNumbers'
  <2>1. \A v \in Workers : wpc'[v] \in Held => wpc'[v] = wpc[v]
    BY <1>1, <1>2 DEF IInv, TypeOK, Held
  <2> QED BY <1>2, <2>1 DEF IInv, AttemptNumbers, Held, queueVars
<1>9. ExecHeld' /\ ResultPhases'
  BY <1>2 DEF IInv, ExecHeld, ResultPhases, runVars, fileVars
<1>10. ParentSettled'
  <2>1. \A v \in Workers : \A s \in seen'[v] : s \in Seeds /\ complete(Cache(s))
    BY <1>1, <1>2, <1>3, <1>4 DEF NothingToClaim, IInv, TypeOK, ParentSettled
  <2>2. \A u \in Tasks : marker[u] # 0 => marker'[u] # 0
    BY <1>1, <1>2, <1>3, <1>4 DEF NothingToClaim, IInv, TypeOK, ResultPhases, fileVars
  <2>3. \A u \in Tasks : lease[u] = {} => lease'[u] = {}
    BY <1>1, <1>2, <1>3, <1>4 DEF NothingToClaim, IInv, TypeOK, queueVars
  <2>4. \A v \in Workers : wpc'[v] \in Held => wpc[v] \in Held /\ wtask'[v] = wtask[v]
    BY <1>1, <1>2, <1>3, <1>4 DEF NothingToClaim, IInv, TypeOK, Held
  <2>5. \A u \in Tasks : \A m \in Launches :
          rank'[u][m] \in Alive => rank[u][m] \in Alive \/ parentDone(u)
    BY <1>1, <1>2, <1>3, <1>4 DEF NothingToClaim, IInv, TypeOK, Alive, InLock, runVars
  <2>6. \A u \in Tasks : \A m \in Launches :
          torch'[u][m] = "up" => torch[u][m] = "up" \/ (parentDone(u) /\ parentFree(u))
    BY <1>1, <1>2, <1>3, <1>4 DEF NothingToClaim, IInv, TypeOK, runVars
  <2> QED BY <2>1, <2>2, <2>3, <2>4, <2>5, <2>6, ParentSettledFrame
<1> QED BY <1>5, <1>6, <1>7, <1>8, <1>9, <1>10 DEF IInv

\* verify() notes caches that are complete, and they stay so.
LEMMA VerifyKeeps ==
    ASSUME IInv, NEW w \in Workers, Verify(w)
    PROVE  IInv'
<1>1. PICK pc \in {"scan"} : wpc' = [wpc EXCEPT ![w] = pc]
  BY Zenon DEF Verify
<1>2. /\ wpc[w] \in {"poll", "scan"}
      /\ UNCHANGED <<queueVars, wtask, outcome, runVars, fileVars, stop, faults>>
  BY DEF Verify
<1>3. /\ seen' \in [Workers -> SUBSET Seeds]
      /\ \A v \in Workers : \A s \in seen'[v] : complete(Cache(s))
  <2>1. seen' = [seen EXCEPT ![w] = {s \in Seeds : complete(Cache(s))}]
    BY DEF Verify
  <2> QED BY <2>1 DEF IInv, TypeOK, ParentSettled
<1>4. \A v \in Workers : wpc'[v] \in Held <=> wpc[v] \in Held
  BY <1>1, <1>2 DEF IInv, TypeOK, Held
<1>5. TypeOK'
  BY <1>1, <1>2, <1>3 DEF IInv, TypeOK, Terminal, fileVars, queueVars, runVars
<1>6. LeaseOwned'
  BY <1>2, <1>4, LeaseOwnedFrame DEF queueVars
<1>7. LauncherCurrent'
  <2>1. \A v \in Workers : wpc[v] = "running" => wpc'[v] = "running"
    BY <1>1, <1>2 DEF IInv, TypeOK
  <2> QED BY <1>2, <2>1 DEF IInv, LauncherCurrent, queueVars, runVars
<1>8. AttemptNumbers'
  <2>1. \A v \in Workers : wpc'[v] \in Held => wpc'[v] = wpc[v]
    BY <1>1, <1>2 DEF IInv, TypeOK, Held
  <2> QED BY <1>2, <2>1 DEF IInv, AttemptNumbers, Held, queueVars
<1>9. ExecHeld' /\ ResultPhases'
  BY <1>2 DEF IInv, ExecHeld, ResultPhases, runVars, fileVars
<1>10. ParentSettled'
  <2>1. \A v \in Workers : \A s \in seen'[v] : s \in Seeds /\ complete(Cache(s))
    BY <1>1, <1>2, <1>3, <1>4 DEF Verify, IInv, TypeOK, ParentSettled
  <2>2. \A u \in Tasks : marker[u] # 0 => marker'[u] # 0
    BY <1>1, <1>2, <1>3, <1>4 DEF Verify, IInv, TypeOK, ResultPhases, fileVars
  <2>3. \A u \in Tasks : lease[u] = {} => lease'[u] = {}
    BY <1>1, <1>2, <1>3, <1>4 DEF Verify, IInv, TypeOK, queueVars
  <2>4. \A v \in Workers : wpc'[v] \in Held => wpc[v] \in Held /\ wtask'[v] = wtask[v]
    BY <1>1, <1>2, <1>3, <1>4 DEF Verify, IInv, TypeOK, Held
  <2>5. \A u \in Tasks : \A m \in Launches :
          rank'[u][m] \in Alive => rank[u][m] \in Alive \/ parentDone(u)
    BY <1>1, <1>2, <1>3, <1>4 DEF Verify, IInv, TypeOK, Alive, InLock, runVars
  <2>6. \A u \in Tasks : \A m \in Launches :
          torch'[u][m] = "up" => torch[u][m] = "up" \/ (parentDone(u) /\ parentFree(u))
    BY <1>1, <1>2, <1>3, <1>4 DEF Verify, IInv, TypeOK, runVars
  <2> QED BY <2>1, <2>2, <2>3, <2>4, <2>5, <2>6, ParentSettledFrame
<1> QED BY <1>5, <1>6, <1>7, <1>8, <1>9, <1>10 DEF IInv

\* A worker that stops holds nothing.
LEMMA StopSeenKeeps ==
    ASSUME IInv, NEW w \in Workers, StopSeen(w)
    PROVE  IInv'
<1>1. TypeOK'
    BY ConstantsAssumption DEF StopSeen, IInv, TypeOK, Held, Terminal, Alive,
     InLock, Outcomes, Statuses, Launches, LeaseOwned, AttemptNumbers,
     queueVars, runVars, fileVars
<1>2. LeaseOwned'
    BY ConstantsAssumption DEF StopSeen, IInv, TypeOK, LeaseOwned, Held,
     Launches, queueVars, runVars, fileVars
<1>3. LauncherCurrent'
    BY ConstantsAssumption DEF StopSeen, IInv, TypeOK, LauncherCurrent,
     LeaseOwned, Held, Launches, queueVars, runVars, fileVars
<1>4. AttemptNumbers'
    BY ConstantsAssumption DEF StopSeen, IInv, TypeOK, AttemptNumbers,
     LeaseOwned, Held, Launches, queueVars, runVars, fileVars
<1>5. ExecHeld'
    BY ConstantsAssumption DEF StopSeen, IInv, TypeOK, ExecHeld, InLock,
     queueVars, runVars, fileVars
<1>6. ParentSettled'
  <2>1. \A v \in Workers : \A s \in seen'[v] : s \in Seeds /\ complete(Cache(s))
    BY DEF StopSeen, IInv, TypeOK, ParentSettled
  <2>2. \A u \in Tasks : marker[u] # 0 => marker'[u] # 0
    BY DEF StopSeen, IInv, TypeOK, ResultPhases, fileVars
  <2>3. \A u \in Tasks : lease[u] = {} => lease'[u] = {}
    BY DEF StopSeen, IInv, TypeOK, queueVars
  <2>4. \A v \in Workers : wpc'[v] \in Held => wpc[v] \in Held /\ wtask'[v] = wtask[v]
    BY DEF StopSeen, IInv, TypeOK, Held
  <2>5. \A u \in Tasks : \A m \in Launches :
          rank'[u][m] \in Alive => rank[u][m] \in Alive \/ parentDone(u)
    BY DEF StopSeen, IInv, TypeOK, Alive, InLock, runVars
  <2>6. \A u \in Tasks : \A m \in Launches :
          torch'[u][m] = "up" => torch[u][m] = "up" \/ (parentDone(u) /\ parentFree(u))
    BY DEF StopSeen, IInv, TypeOK, runVars
  <2> QED BY <2>1, <2>2, <2>3, <2>4, <2>5, <2>6, ParentSettledFrame
<1>7. ResultPhases'
    BY ConstantsAssumption DEF StopSeen, IInv, TypeOK, ResultPhases, ExecHeld,
     InLock, queueVars, runVars, fileVars
<1> QED BY <1>1, <1>2, <1>3, <1>4, <1>5, <1>6, <1>7 DEF IInv

\* A killed worker leaves its share; a launcher keeps its own.
LEMMA WorkerCrashKeeps ==
    ASSUME IInv, NEW w \in Workers, WorkerCrash(w)
    PROVE  IInv'
<1>1. TypeOK'
    BY ConstantsAssumption DEF WorkerCrash, Fault, IInv, TypeOK, Held,
     Terminal, Alive, InLock, Outcomes, Statuses, Launches, LeaseOwned,
     AttemptNumbers, runVars, fileVars
<1>2. LeaseOwned'
    BY ConstantsAssumption DEF WorkerCrash, Fault, IInv, TypeOK, LeaseOwned,
     Held, Launches, runVars, fileVars, Terminal
<1>3. LauncherCurrent'
    BY ConstantsAssumption DEF WorkerCrash, Fault, IInv, TypeOK,
     LauncherCurrent, LeaseOwned, Held, Launches, runVars, fileVars, Terminal
<1>4. AttemptNumbers'
    BY ConstantsAssumption DEF WorkerCrash, Fault, IInv, TypeOK,
     AttemptNumbers, LeaseOwned, Held, Launches, runVars, fileVars, Terminal
<1>5. ExecHeld'
    BY ConstantsAssumption DEF WorkerCrash, Fault, IInv, TypeOK, ExecHeld,
     InLock, runVars, fileVars, Terminal
<1>6. ParentSettled'
  <2>1. \A v \in Workers : \A s \in seen'[v] : s \in Seeds /\ complete(Cache(s))
    BY DEF WorkerCrash, IInv, TypeOK, ParentSettled
  <2>2. \A u \in Tasks : marker[u] # 0 => marker'[u] # 0
    BY DEF WorkerCrash, IInv, TypeOK, ResultPhases, fileVars
  <2>3. \A u \in Tasks : lease[u] = {} => lease'[u] = {}
    BY DEF WorkerCrash, IInv, TypeOK, queueVars
  <2>4. \A v \in Workers : wpc'[v] \in Held => wpc[v] \in Held /\ wtask'[v] = wtask[v]
    BY DEF WorkerCrash, IInv, TypeOK, Held
  <2>5. \A u \in Tasks : \A m \in Launches :
          rank'[u][m] \in Alive => rank[u][m] \in Alive \/ parentDone(u)
    BY DEF WorkerCrash, IInv, TypeOK, Alive, InLock, runVars
  <2>6. \A u \in Tasks : \A m \in Launches :
          torch'[u][m] = "up" => torch[u][m] = "up" \/ (parentDone(u) /\ parentFree(u))
    BY DEF WorkerCrash, IInv, TypeOK, runVars
  <2> QED BY <2>1, <2>2, <2>3, <2>4, <2>5, <2>6, ParentSettledFrame
<1>7. ResultPhases'
    BY ConstantsAssumption DEF WorkerCrash, Fault, IInv, TypeOK, ResultPhases,
     ExecHeld, InLock, runVars, fileVars, Terminal
<1> QED BY <1>1, <1>2, <1>3, <1>4, <1>5, <1>6, <1>7 DEF IInv

\* A new worker holds nothing.
LEMMA RestartKeeps ==
    ASSUME IInv, NEW w \in Workers, Restart(w)
    PROVE  IInv'
<1>1. TypeOK'
    BY ConstantsAssumption DEF Restart, Fault, IInv, TypeOK, Held, Terminal,
     Alive, InLock, Outcomes, Statuses, Launches, LeaseOwned, AttemptNumbers,
     queueVars, runVars, fileVars
<1>2. LeaseOwned'
    BY ConstantsAssumption DEF Restart, Fault, IInv, TypeOK, LeaseOwned, Held,
     Launches, queueVars, runVars, fileVars
<1>3. LauncherCurrent'
    BY ConstantsAssumption DEF Restart, Fault, IInv, TypeOK, LauncherCurrent,
     LeaseOwned, Held, Launches, queueVars, runVars, fileVars
<1>4. AttemptNumbers'
    BY ConstantsAssumption DEF Restart, Fault, IInv, TypeOK, AttemptNumbers,
     LeaseOwned, Held, Launches, queueVars, runVars, fileVars
<1>5. ExecHeld'
    BY ConstantsAssumption DEF Restart, Fault, IInv, TypeOK, ExecHeld, InLock,
     queueVars, runVars, fileVars
<1>6. ParentSettled'
  <2>1. \A v \in Workers : \A s \in seen'[v] : s \in Seeds /\ complete(Cache(s))
    BY DEF Restart, IInv, TypeOK, ParentSettled
  <2>2. \A u \in Tasks : marker[u] # 0 => marker'[u] # 0
    BY DEF Restart, IInv, TypeOK, ResultPhases, fileVars
  <2>3. \A u \in Tasks : lease[u] = {} => lease'[u] = {}
    BY DEF Restart, IInv, TypeOK, queueVars
  <2>4. \A v \in Workers : wpc'[v] \in Held => wpc[v] \in Held /\ wtask'[v] = wtask[v]
    BY DEF Restart, IInv, TypeOK, Held
  <2>5. \A u \in Tasks : \A m \in Launches :
          rank'[u][m] \in Alive => rank[u][m] \in Alive \/ parentDone(u)
    BY DEF Restart, IInv, TypeOK, Alive, InLock, runVars
  <2>6. \A u \in Tasks : \A m \in Launches :
          torch'[u][m] = "up" => torch[u][m] = "up" \/ (parentDone(u) /\ parentFree(u))
    BY DEF Restart, IInv, TypeOK, runVars
  <2> QED BY <2>1, <2>2, <2>3, <2>4, <2>5, <2>6, ParentSettledFrame
<1>7. ResultPhases'
    BY ConstantsAssumption DEF Restart, Fault, IInv, TypeOK, ResultPhases,
     ExecHeld, InLock, queueVars, runVars, fileVars
<1> QED BY <1>1, <1>2, <1>3, <1>4, <1>5, <1>6, <1>7 DEF IInv

\* Startup passes no attempt whose parent is unpublished.
LEMMA StartupKeeps ==
    ASSUME IInv, NEW t \in Tasks, NEW n \in Launches, Startup(t, n)
    PROVE  IInv'
<1>1. TypeOK'
    BY ConstantsAssumption DEF Startup, IInv, TypeOK, Held, Terminal, Alive,
     InLock, Outcomes, Statuses, Launches, LeaseOwned, AttemptNumbers,
     queueVars, fileVars
<1>2. LeaseOwned'
    BY ConstantsAssumption DEF Startup, IInv, TypeOK, LeaseOwned, Held,
     Launches, queueVars, fileVars
<1>3. LauncherCurrent'
    BY ConstantsAssumption DEF Startup, IInv, TypeOK, LauncherCurrent,
     LeaseOwned, Held, Launches, queueVars, fileVars
<1>4. AttemptNumbers'
    BY ConstantsAssumption DEF Startup, IInv, TypeOK, AttemptNumbers,
     LeaseOwned, Held, Launches, queueVars, fileVars
<1>5. ExecHeld'
    BY ConstantsAssumption DEF Startup, IInv, TypeOK, ExecHeld, InLock,
     queueVars, fileVars
<1>6. ParentSettled'
  <2>1. \A v \in Workers : \A s \in seen'[v] : s \in Seeds /\ complete(Cache(s))
    BY DEF Startup, IInv, TypeOK, ParentSettled
  <2>2. \A u \in Tasks : marker[u] # 0 => marker'[u] # 0
    BY DEF Startup, IInv, TypeOK, ResultPhases, fileVars
  <2>3. \A u \in Tasks : lease[u] = {} => lease'[u] = {}
    BY DEF Startup, IInv, TypeOK, queueVars
  <2>4. \A v \in Workers : wpc'[v] \in Held => wpc[v] \in Held /\ wtask'[v] = wtask[v]
    BY DEF Startup, IInv, TypeOK, Held
  <2>5. \A u \in Tasks : \A m \in Launches :
          rank'[u][m] \in Alive => rank[u][m] \in Alive \/ parentDone(u)
    BY DEF Startup, IInv, TypeOK, Alive, InLock, runVars
  <2>6. \A u \in Tasks : \A m \in Launches :
          torch'[u][m] = "up" => torch[u][m] = "up" \/ (parentDone(u) /\ parentFree(u))
    BY DEF Startup, IInv, TypeOK, runVars
  <2> QED BY <2>1, <2>2, <2>3, <2>4, <2>5, <2>6, ParentSettledFrame
<1>7. ResultPhases'
    BY ConstantsAssumption DEF Startup, IInv, TypeOK, ResultPhases, ExecHeld,
     InLock, queueVars, fileVars
<1> QED BY <1>1, <1>2, <1>3, <1>4, <1>5, <1>6, <1>7 DEF IInv

\* The execution lock was free, so no other rank was inside it.
LEMMA LockExecKeeps ==
    ASSUME IInv, NEW t \in Tasks, NEW n \in Launches, LockExec(t, n)
    PROVE  IInv'
<1>1. TypeOK'
    BY ConstantsAssumption DEF LockExec, IInv, TypeOK, Held, Terminal, Alive,
     InLock, Outcomes, Statuses, Launches, LeaseOwned, AttemptNumbers,
     queueVars, fileVars
<1>2. LeaseOwned'
    BY ConstantsAssumption DEF LockExec, IInv, TypeOK, LeaseOwned, Held,
     Launches, queueVars, fileVars
<1>3. LauncherCurrent'
    BY ConstantsAssumption DEF LockExec, IInv, TypeOK, LauncherCurrent,
     LeaseOwned, Held, Launches, queueVars, fileVars
<1>4. AttemptNumbers'
    BY ConstantsAssumption DEF LockExec, IInv, TypeOK, AttemptNumbers,
     LeaseOwned, Held, Launches, queueVars, fileVars
<1>5. ExecHeld'
  <2>1. \A m \in Launches : rank[t][m] \notin InLock
    BY LaunchPositive DEF LockExec, IInv, ExecHeld
  <2> QED BY <2>1 DEF IInv, TypeOK, LockExec, ExecHeld, InLock
<1>6. ParentSettled'
  <2>1. \A v \in Workers : \A s \in seen'[v] : s \in Seeds /\ complete(Cache(s))
    BY DEF LockExec, IInv, TypeOK, ParentSettled
  <2>2. \A u \in Tasks : marker[u] # 0 => marker'[u] # 0
    BY DEF LockExec, IInv, TypeOK, ResultPhases, fileVars
  <2>3. \A u \in Tasks : lease[u] = {} => lease'[u] = {}
    BY DEF LockExec, IInv, TypeOK, queueVars
  <2>4. \A v \in Workers : wpc'[v] \in Held => wpc[v] \in Held /\ wtask'[v] = wtask[v]
    BY DEF LockExec, IInv, TypeOK, Held
  <2>5. \A u \in Tasks : \A m \in Launches :
          rank'[u][m] \in Alive => rank[u][m] \in Alive \/ parentDone(u)
    BY DEF LockExec, IInv, TypeOK, Alive, InLock, runVars
  <2>6. \A u \in Tasks : \A m \in Launches :
          torch'[u][m] = "up" => torch[u][m] = "up" \/ (parentDone(u) /\ parentFree(u))
    BY DEF LockExec, IInv, TypeOK, runVars
  <2> QED BY <2>1, <2>2, <2>3, <2>4, <2>5, <2>6, ParentSettledFrame
<1>7. ResultPhases'
    BY ConstantsAssumption DEF LockExec, IInv, TypeOK, ResultPhases, ExecHeld,
     InLock, queueVars, fileVars
<1> QED BY <1>1, <1>2, <1>3, <1>4, <1>5, <1>6, <1>7 DEF IInv

\* A busy execution lock ends the attempt.
LEMMA LockBusyKeeps ==
    ASSUME IInv, NEW t \in Tasks, NEW n \in Launches, LockBusy(t, n)
    PROVE  IInv'
<1>1. TypeOK'
    BY ConstantsAssumption DEF LockBusy, IInv, TypeOK, Held, Terminal, Alive,
     InLock, Outcomes, Statuses, Launches, LeaseOwned, AttemptNumbers,
     queueVars, fileVars
<1>2. LeaseOwned'
    BY ConstantsAssumption DEF LockBusy, IInv, TypeOK, LeaseOwned, Held,
     Launches, queueVars, fileVars
<1>3. LauncherCurrent'
    BY ConstantsAssumption DEF LockBusy, IInv, TypeOK, LauncherCurrent,
     LeaseOwned, Held, Launches, queueVars, fileVars
<1>4. AttemptNumbers'
    BY ConstantsAssumption DEF LockBusy, IInv, TypeOK, AttemptNumbers,
     LeaseOwned, Held, Launches, queueVars, fileVars
<1>5. ExecHeld'
    BY ConstantsAssumption DEF LockBusy, IInv, TypeOK, ExecHeld, InLock,
     queueVars, fileVars
<1>6. ParentSettled'
  <2>1. \A v \in Workers : \A s \in seen'[v] : s \in Seeds /\ complete(Cache(s))
    BY DEF LockBusy, IInv, TypeOK, ParentSettled
  <2>2. \A u \in Tasks : marker[u] # 0 => marker'[u] # 0
    BY DEF LockBusy, IInv, TypeOK, ResultPhases, fileVars
  <2>3. \A u \in Tasks : lease[u] = {} => lease'[u] = {}
    BY DEF LockBusy, IInv, TypeOK, queueVars
  <2>4. \A v \in Workers : wpc'[v] \in Held => wpc[v] \in Held /\ wtask'[v] = wtask[v]
    BY DEF LockBusy, IInv, TypeOK, Held
  <2>5. \A u \in Tasks : \A m \in Launches :
          rank'[u][m] \in Alive => rank[u][m] \in Alive \/ parentDone(u)
    BY DEF LockBusy, IInv, TypeOK, Alive, InLock, runVars
  <2>6. \A u \in Tasks : \A m \in Launches :
          torch'[u][m] = "up" => torch[u][m] = "up" \/ (parentDone(u) /\ parentFree(u))
    BY DEF LockBusy, IInv, TypeOK, runVars
  <2> QED BY <2>1, <2>2, <2>3, <2>4, <2>5, <2>6, ParentSettledFrame
<1>7. ResultPhases'
    BY ConstantsAssumption DEF LockBusy, IInv, TypeOK, ResultPhases, ExecHeld,
     InLock, queueVars, fileVars
<1> QED BY <1>1, <1>2, <1>3, <1>4, <1>5, <1>6, <1>7 DEF IInv

\* Under the lock, work begins on unpublished tasks only.
LEMMA RecheckKeeps ==
    ASSUME IInv, NEW t \in Tasks, NEW n \in Launches, Recheck(t, n)
    PROVE  IInv'
<1>1. TypeOK'
    BY ConstantsAssumption DEF Recheck, IInv, TypeOK, Held, Terminal, Alive,
     InLock, Outcomes, Statuses, Launches, LeaseOwned, AttemptNumbers,
     queueVars, fileVars
<1>2. LeaseOwned'
    BY ConstantsAssumption DEF Recheck, IInv, TypeOK, LeaseOwned, Held,
     Launches, queueVars, fileVars
<1>3. LauncherCurrent'
    BY ConstantsAssumption DEF Recheck, IInv, TypeOK, LauncherCurrent,
     LeaseOwned, Held, Launches, queueVars, fileVars
<1>4. AttemptNumbers'
    BY ConstantsAssumption DEF Recheck, IInv, TypeOK, AttemptNumbers,
     LeaseOwned, Held, Launches, queueVars, fileVars
<1>5. ExecHeld'
    BY ConstantsAssumption DEF Recheck, IInv, TypeOK, ExecHeld, InLock,
     queueVars, fileVars
<1>6. ParentSettled'
  <2>1. \A v \in Workers : \A s \in seen'[v] : s \in Seeds /\ complete(Cache(s))
    BY DEF Recheck, IInv, TypeOK, ParentSettled
  <2>2. \A u \in Tasks : marker[u] # 0 => marker'[u] # 0
    BY DEF Recheck, IInv, TypeOK, ResultPhases, fileVars
  <2>3. \A u \in Tasks : lease[u] = {} => lease'[u] = {}
    BY DEF Recheck, IInv, TypeOK, queueVars
  <2>4. \A v \in Workers : wpc'[v] \in Held => wpc[v] \in Held /\ wtask'[v] = wtask[v]
    BY DEF Recheck, IInv, TypeOK, Held
  <2>5. \A u \in Tasks : \A m \in Launches :
          rank'[u][m] \in Alive => rank[u][m] \in Alive \/ parentDone(u)
    BY DEF Recheck, IInv, TypeOK, Alive, InLock, runVars
  <2>6. \A u \in Tasks : \A m \in Launches :
          torch'[u][m] = "up" => torch[u][m] = "up" \/ (parentDone(u) /\ parentFree(u))
    BY DEF Recheck, IInv, TypeOK, runVars
  <2> QED BY <2>1, <2>2, <2>3, <2>4, <2>5, <2>6, ParentSettledFrame
<1>7. ResultPhases'
  <2>1. UNCHANGED <<artifact, marker>>
    BY DEF Recheck, fileVars
  <2>2. \A u \in Tasks : \A m \in Launches :
          rank'[u][m] = rank[u][m] \/ (u = t /\ m = n)
    BY DEF Recheck, IInv, TypeOK
  <2>3. /\ rank'[t][n] = "work" => marker[t] = 0 /\ (t[2] = "cache" => artifact[t] = 0)
        /\ rank'[t][n] = "publish" => t[2] = "cache" /\ artifact[t] # 0
    <3>1. rank'[t][n] = IF t[2] = "cache"
                        THEN IF artifact[t] # 0 THEN "publish" ELSE "work"
                        ELSE IF complete(t) THEN "leave" ELSE "work"
      BY DEF Recheck, IInv, TypeOK
    <3>2. marker[t] # 0 => artifact[t] # 0
      BY DEF IInv, ResultPhases
    <3> QED BY <3>1, <3>2 DEF complete
  <2> QED BY <2>1, <2>2, <2>3 DEF IInv, ResultPhases
<1> QED BY <1>1, <1>2, <1>3, <1>4, <1>5, <1>6, <1>7 DEF IInv

\* The holder of the execution lock writes the task's file.
LEMMA WorkKeeps ==
    ASSUME IInv, NEW t \in Tasks, NEW n \in Launches, Work(t, n)
    PROVE  IInv'
<1>1. TypeOK'
    BY ConstantsAssumption DEF Work, IInv, TypeOK, Held, Terminal, Alive,
     InLock, Outcomes, Statuses, Launches, LeaseOwned, AttemptNumbers,
     queueVars
<1>2. LeaseOwned'
    BY ConstantsAssumption DEF Work, IInv, TypeOK, LeaseOwned, Held, Launches,
     queueVars
<1>3. LauncherCurrent'
    BY ConstantsAssumption DEF Work, IInv, TypeOK, LauncherCurrent,
     LeaseOwned, Held, Launches, queueVars
<1>4. AttemptNumbers'
    BY ConstantsAssumption DEF Work, IInv, TypeOK, AttemptNumbers, LeaseOwned,
     Held, Launches, queueVars
<1>5. ExecHeld'
    BY ConstantsAssumption DEF Work, IInv, TypeOK, ExecHeld, InLock, queueVars
<1>6. ParentSettled'
  <2>1. \A v \in Workers : \A s \in seen'[v] : s \in Seeds /\ complete(Cache(s))
    BY DEF Work, IInv, TypeOK, ParentSettled
  <2>2. \A u \in Tasks : marker[u] # 0 => marker'[u] # 0
    BY DEF Work, IInv, TypeOK, ResultPhases, fileVars
  <2>3. \A u \in Tasks : lease[u] = {} => lease'[u] = {}
    BY DEF Work, IInv, TypeOK, queueVars
  <2>4. \A v \in Workers : wpc'[v] \in Held => wpc[v] \in Held /\ wtask'[v] = wtask[v]
    BY DEF Work, IInv, TypeOK, Held
  <2>5. \A u \in Tasks : \A m \in Launches :
          rank'[u][m] \in Alive => rank[u][m] \in Alive \/ parentDone(u)
    BY DEF Work, IInv, TypeOK, Alive, InLock, runVars
  <2>6. \A u \in Tasks : \A m \in Launches :
          torch'[u][m] = "up" => torch[u][m] = "up" \/ (parentDone(u) /\ parentFree(u))
    BY DEF Work, IInv, TypeOK, runVars
  <2> QED BY <2>1, <2>2, <2>3, <2>4, <2>5, <2>6, ParentSettledFrame
<1>7. ResultPhases'
  <2>1. exec[t] = n /\ marker[t] = 0 /\ (t[2] = "cache" => artifact[t] = 0)
    BY DEF Work, IInv, ExecHeld, ResultPhases, InLock
  <2>2. n # 0
    BY ConstantsAssumption DEF Launches
  <2>3. \A m \in Launches : rank[t][m] \in InLock => m = n
    BY <2>1 DEF IInv, ExecHeld
  <2>4. \A u \in Tasks : marker'[u] = marker[u] /\ (u # t => artifact'[u] = artifact[u])
    BY DEF Work, IInv, TypeOK
  <2>5. t[2] \notin Arms => artifact'[t] = n
    BY DEF Work, IInv, TypeOK
  <2>6. \A u \in Tasks, m \in Launches : rank'[u][m] = IF u = t /\ m = n THEN "publish" ELSE rank[u][m]
    BY DEF Work, IInv, TypeOK
  <2>7. \A u \in Tasks : marker'[u] # 0 => marker'[u] = artifact'[u]
    BY <2>1, <2>4 DEF IInv, ResultPhases
  <2>8. ASSUME NEW u \in Tasks, NEW m \in Launches, rank'[u][m] = "work"
        PROVE  marker'[u] = 0 /\ (u[2] = "cache" => artifact'[u] = 0)
    <3>1. rank[u][m] = "work" /\ u # t
      BY <2>3, <2>6, <2>8 DEF InLock
    <3> QED BY <3>1, <2>4 DEF IInv, ResultPhases
  <2>9. ASSUME NEW u \in Tasks, NEW m \in Launches, rank'[u][m] = "publish"
        PROVE  (u[2] # "cache" => marker'[u] = 0) /\ (u[2] \notin Arms => artifact'[u] # 0)
    <3>1. CASE u = t
      BY <3>1, <2>1, <2>2, <2>4, <2>5
    <3>2. CASE u # t
      BY <3>2, <2>4, <2>6, <2>9 DEF IInv, ResultPhases
    <3> QED BY <3>1, <3>2
  <2> QED BY <2>7, <2>8, <2>9 DEF ResultPhases
<1> QED BY <1>1, <1>2, <1>3, <1>4, <1>5, <1>6, <1>7 DEF IInv

\* The receipt names the file that was written.
LEMMA PublishKeeps ==
    ASSUME IInv, NEW t \in Tasks, NEW n \in Launches, Publish(t, n)
    PROVE  IInv'
<1>1. TypeOK'
    BY ConstantsAssumption DEF Publish, IInv, TypeOK, Held, Terminal, Alive,
     InLock, Outcomes, Statuses, Launches, LeaseOwned, AttemptNumbers,
     queueVars
<1>2. LeaseOwned'
    BY ConstantsAssumption DEF Publish, IInv, TypeOK, LeaseOwned, Held,
     Launches, queueVars
<1>3. LauncherCurrent'
    BY ConstantsAssumption DEF Publish, IInv, TypeOK, LauncherCurrent,
     LeaseOwned, Held, Launches, queueVars
<1>4. AttemptNumbers'
    BY ConstantsAssumption DEF Publish, IInv, TypeOK, AttemptNumbers,
     LeaseOwned, Held, Launches, queueVars
<1>5. ExecHeld'
    BY ConstantsAssumption DEF Publish, IInv, TypeOK, ExecHeld, InLock,
     queueVars
<1>6. ParentSettled'
  <2>1. \A v \in Workers : \A s \in seen'[v] : s \in Seeds /\ complete(Cache(s))
    BY DEF Publish, IInv, TypeOK, ParentSettled
  <2>2. \A u \in Tasks : marker[u] # 0 => marker'[u] # 0
    <3>1. artifact'[t] # 0
      BY LaunchPositive DEF Publish, IInv, TypeOK, ResultPhases
    <3> QED BY <3>1 DEF Publish, IInv, TypeOK
  <2>3. \A u \in Tasks : lease[u] = {} => lease'[u] = {}
    BY DEF Publish, IInv, TypeOK, queueVars
  <2>4. \A v \in Workers : wpc'[v] \in Held => wpc[v] \in Held /\ wtask'[v] = wtask[v]
    BY DEF Publish, IInv, TypeOK, Held
  <2>5. \A u \in Tasks : \A m \in Launches :
          rank'[u][m] \in Alive => rank[u][m] \in Alive \/ parentDone(u)
    BY DEF Publish, IInv, TypeOK, Alive, InLock, runVars
  <2>6. \A u \in Tasks : \A m \in Launches :
          torch'[u][m] = "up" => torch[u][m] = "up" \/ (parentDone(u) /\ parentFree(u))
    BY DEF Publish, IInv, TypeOK, runVars
  <2> QED BY <2>1, <2>2, <2>3, <2>4, <2>5, <2>6, ParentSettledFrame
<1>7. ResultPhases'
    BY ConstantsAssumption DEF Publish, IInv, TypeOK, ResultPhases, ExecHeld,
     InLock, queueVars
<1> QED BY <1>1, <1>2, <1>3, <1>4, <1>5, <1>6, <1>7 DEF IInv

\* Only the holder releases the execution lock.
LEMMA LeaveKeeps ==
    ASSUME IInv, NEW t \in Tasks, NEW n \in Launches, Leave(t, n)
    PROVE  IInv'
<1>1. TypeOK'
    BY ConstantsAssumption DEF Leave, IInv, TypeOK, Held, Terminal, Alive,
     InLock, Outcomes, Statuses, Launches, LeaseOwned, AttemptNumbers,
     queueVars, fileVars
<1>2. LeaseOwned'
    BY ConstantsAssumption DEF Leave, IInv, TypeOK, LeaseOwned, Held,
     Launches, queueVars, fileVars
<1>3. LauncherCurrent'
    BY ConstantsAssumption DEF Leave, IInv, TypeOK, LauncherCurrent,
     LeaseOwned, Held, Launches, queueVars, fileVars
<1>4. AttemptNumbers'
    BY ConstantsAssumption DEF Leave, IInv, TypeOK, AttemptNumbers,
     LeaseOwned, Held, Launches, queueVars, fileVars
<1>5. ExecHeld'
    BY ConstantsAssumption DEF Leave, IInv, TypeOK, ExecHeld, InLock,
     queueVars, fileVars
<1>6. ParentSettled'
  <2>1. \A v \in Workers : \A s \in seen'[v] : s \in Seeds /\ complete(Cache(s))
    BY DEF Leave, IInv, TypeOK, ParentSettled
  <2>2. \A u \in Tasks : marker[u] # 0 => marker'[u] # 0
    BY DEF Leave, IInv, TypeOK, ResultPhases, fileVars
  <2>3. \A u \in Tasks : lease[u] = {} => lease'[u] = {}
    BY DEF Leave, IInv, TypeOK, queueVars
  <2>4. \A v \in Workers : wpc'[v] \in Held => wpc[v] \in Held /\ wtask'[v] = wtask[v]
    BY DEF Leave, IInv, TypeOK, Held
  <2>5. \A u \in Tasks : \A m \in Launches :
          rank'[u][m] \in Alive => rank[u][m] \in Alive \/ parentDone(u)
    BY DEF Leave, IInv, TypeOK, Alive, InLock, runVars
  <2>6. \A u \in Tasks : \A m \in Launches :
          torch'[u][m] = "up" => torch[u][m] = "up" \/ (parentDone(u) /\ parentFree(u))
    BY DEF Leave, IInv, TypeOK, runVars
  <2> QED BY <2>1, <2>2, <2>3, <2>4, <2>5, <2>6, ParentSettledFrame
<1>7. ResultPhases'
    BY ConstantsAssumption DEF Leave, IInv, TypeOK, ResultPhases, ExecHeld,
     InLock, queueVars, fileVars
<1> QED BY <1>1, <1>2, <1>3, <1>4, <1>5, <1>6, <1>7 DEF IInv

\* A launcher that ends leaves the lease.
LEMMA ReapKeeps ==
    ASSUME IInv, NEW t \in Tasks, NEW n \in Launches, Reap(t, n)
    PROVE  IInv'
<1>1. TypeOK'
    BY ConstantsAssumption DEF Reap, IInv, TypeOK, Held, Terminal, Alive,
     InLock, Outcomes, Statuses, Launches, LeaseOwned, AttemptNumbers,
     fileVars
<1>2. LeaseOwned'
  <2>1. \A u \in Tasks : \A v \in Workers : v \in lease'[u] <=> v \in lease[u]
    BY WorkersShare DEF Reap
  <2> QED BY <2>1, LeaseOwnedFrame DEF Reap
<1>3. LauncherCurrent'
    BY ConstantsAssumption DEF Reap, IInv, TypeOK, LauncherCurrent,
     LeaseOwned, Held, Launches, fileVars
<1>4. AttemptNumbers'
    BY ConstantsAssumption DEF Reap, IInv, TypeOK, AttemptNumbers, LeaseOwned,
     Held, Launches, fileVars
<1>5. ExecHeld'
    BY ConstantsAssumption DEF Reap, IInv, TypeOK, ExecHeld, InLock, fileVars
<1>6. ParentSettled'
  <2>1. \A v \in Workers : \A s \in seen'[v] : s \in Seeds /\ complete(Cache(s))
    BY DEF Reap, IInv, TypeOK, ParentSettled
  <2>2. \A u \in Tasks : marker[u] # 0 => marker'[u] # 0
    BY DEF Reap, IInv, TypeOK, ResultPhases, fileVars
  <2>3. \A u \in Tasks : lease[u] = {} => lease'[u] = {}
    BY DEF Reap, IInv, TypeOK, queueVars
  <2>4. \A v \in Workers : wpc'[v] \in Held => wpc[v] \in Held /\ wtask'[v] = wtask[v]
    BY DEF Reap, IInv, TypeOK, Held
  <2>5. \A u \in Tasks : \A m \in Launches :
          rank'[u][m] \in Alive => rank[u][m] \in Alive \/ parentDone(u)
    BY DEF Reap, IInv, TypeOK, Alive, InLock, runVars
  <2>6. \A u \in Tasks : \A m \in Launches :
          torch'[u][m] = "up" => torch[u][m] = "up" \/ (parentDone(u) /\ parentFree(u))
    BY DEF Reap, IInv, TypeOK, runVars
  <2> QED BY <2>1, <2>2, <2>3, <2>4, <2>5, <2>6, ParentSettledFrame
<1>7. ResultPhases'
    BY ConstantsAssumption DEF Reap, IInv, TypeOK, ResultPhases, ExecHeld,
     InLock, fileVars
<1> QED BY <1>1, <1>2, <1>3, <1>4, <1>5, <1>6, <1>7 DEF IInv

\* A rank that dies frees its execution lock.
LEMMA RankCrashKeeps ==
    ASSUME IInv, NEW t \in Tasks, NEW n \in Launches, RankCrash(t, n)
    PROVE  IInv'
<1>1. TypeOK'
    BY ConstantsAssumption DEF RankCrash, Fault, IInv, TypeOK, Held, Terminal,
     Alive, InLock, Outcomes, Statuses, Launches, LeaseOwned, AttemptNumbers,
     queueVars, fileVars
<1>2. LeaseOwned'
    BY ConstantsAssumption DEF RankCrash, Fault, IInv, TypeOK, LeaseOwned,
     Held, Launches, queueVars, fileVars
<1>3. LauncherCurrent'
    BY ConstantsAssumption DEF RankCrash, Fault, IInv, TypeOK,
     LauncherCurrent, LeaseOwned, Held, Launches, queueVars, fileVars
<1>4. AttemptNumbers'
    BY ConstantsAssumption DEF RankCrash, Fault, IInv, TypeOK, AttemptNumbers,
     LeaseOwned, Held, Launches, queueVars, fileVars
<1>5. ExecHeld'
    BY ConstantsAssumption DEF RankCrash, Fault, IInv, TypeOK, ExecHeld,
     InLock, queueVars, fileVars
<1>6. ParentSettled'
  <2>1. \A v \in Workers : \A s \in seen'[v] : s \in Seeds /\ complete(Cache(s))
    BY DEF RankCrash, IInv, TypeOK, ParentSettled
  <2>2. \A u \in Tasks : marker[u] # 0 => marker'[u] # 0
    BY DEF RankCrash, IInv, TypeOK, ResultPhases, fileVars
  <2>3. \A u \in Tasks : lease[u] = {} => lease'[u] = {}
    BY DEF RankCrash, IInv, TypeOK, queueVars
  <2>4. \A v \in Workers : wpc'[v] \in Held => wpc[v] \in Held /\ wtask'[v] = wtask[v]
    BY DEF RankCrash, IInv, TypeOK, Held
  <2>5. \A u \in Tasks : \A m \in Launches :
          rank'[u][m] \in Alive => rank[u][m] \in Alive \/ parentDone(u)
    BY DEF RankCrash, IInv, TypeOK, Alive, InLock, runVars
  <2>6. \A u \in Tasks : \A m \in Launches :
          torch'[u][m] = "up" => torch[u][m] = "up" \/ (parentDone(u) /\ parentFree(u))
    BY DEF RankCrash, IInv, TypeOK, runVars
  <2> QED BY <2>1, <2>2, <2>3, <2>4, <2>5, <2>6, ParentSettledFrame
<1>7. ResultPhases'
    BY ConstantsAssumption DEF RankCrash, Fault, IInv, TypeOK, ResultPhases,
     ExecHeld, InLock, queueVars, fileVars
<1> QED BY <1>1, <1>2, <1>3, <1>4, <1>5, <1>6, <1>7 DEF IInv

\* A launcher that is killed leaves the lease.
LEMMA TorchrunCrashKeeps ==
    ASSUME IInv, NEW t \in Tasks, NEW n \in Launches, TorchrunCrash(t, n)
    PROVE  IInv'
<1>1. TypeOK'
    BY ConstantsAssumption DEF TorchrunCrash, Fault, IInv, TypeOK, Held,
     Terminal, Alive, InLock, Outcomes, Statuses, Launches, LeaseOwned,
     AttemptNumbers, fileVars
<1>2. LeaseOwned'
  <2>1. \A u \in Tasks : \A v \in Workers : v \in lease'[u] <=> v \in lease[u]
    BY WorkersShare DEF TorchrunCrash
  <2> QED BY <2>1, LeaseOwnedFrame DEF TorchrunCrash
<1>3. LauncherCurrent'
    BY ConstantsAssumption DEF TorchrunCrash, Fault, IInv, TypeOK,
     LauncherCurrent, LeaseOwned, Held, Launches, fileVars
<1>4. AttemptNumbers'
    BY ConstantsAssumption DEF TorchrunCrash, Fault, IInv, TypeOK,
     AttemptNumbers, LeaseOwned, Held, Launches, fileVars
<1>5. ExecHeld'
    BY ConstantsAssumption DEF TorchrunCrash, Fault, IInv, TypeOK, ExecHeld,
     InLock, fileVars
<1>6. ParentSettled'
  <2>1. \A v \in Workers : \A s \in seen'[v] : s \in Seeds /\ complete(Cache(s))
    BY DEF TorchrunCrash, IInv, TypeOK, ParentSettled
  <2>2. \A u \in Tasks : marker[u] # 0 => marker'[u] # 0
    BY DEF TorchrunCrash, IInv, TypeOK, ResultPhases, fileVars
  <2>3. \A u \in Tasks : lease[u] = {} => lease'[u] = {}
    BY DEF TorchrunCrash, IInv, TypeOK, queueVars
  <2>4. \A v \in Workers : wpc'[v] \in Held => wpc[v] \in Held /\ wtask'[v] = wtask[v]
    BY DEF TorchrunCrash, IInv, TypeOK, Held
  <2>5. \A u \in Tasks : \A m \in Launches :
          rank'[u][m] \in Alive => rank[u][m] \in Alive \/ parentDone(u)
    BY DEF TorchrunCrash, IInv, TypeOK, Alive, InLock, runVars
  <2>6. \A u \in Tasks : \A m \in Launches :
          torch'[u][m] = "up" => torch[u][m] = "up" \/ (parentDone(u) /\ parentFree(u))
    BY DEF TorchrunCrash, IInv, TypeOK, runVars
  <2> QED BY <2>1, <2>2, <2>3, <2>4, <2>5, <2>6, ParentSettledFrame
<1>7. ResultPhases'
    BY ConstantsAssumption DEF TorchrunCrash, Fault, IInv, TypeOK,
     ResultPhases, ExecHeld, InLock, fileVars
<1> QED BY <1>1, <1>2, <1>3, <1>4, <1>5, <1>6, <1>7 DEF IInv

\* stop.json is no part of the invariant but its type.
LEMMA StopKeeps ==
    ASSUME IInv, Stop
    PROVE  IInv'
<1>1. TypeOK'
    BY ConstantsAssumption DEF Stop, Fault, IInv, TypeOK, Held, Terminal,
     Alive, InLock, Outcomes, Statuses, Launches, LeaseOwned, AttemptNumbers,
     queueVars, runVars, fileVars
<1>2. LeaseOwned'
    BY ConstantsAssumption DEF Stop, Fault, IInv, TypeOK, LeaseOwned, Held,
     Launches, queueVars, runVars, fileVars
<1>3. LauncherCurrent'
    BY ConstantsAssumption DEF Stop, Fault, IInv, TypeOK, LauncherCurrent,
     LeaseOwned, Held, Launches, queueVars, runVars, fileVars
<1>4. AttemptNumbers'
    BY ConstantsAssumption DEF Stop, Fault, IInv, TypeOK, AttemptNumbers,
     LeaseOwned, Held, Launches, queueVars, runVars, fileVars
<1>5. ExecHeld'
    BY ConstantsAssumption DEF Stop, Fault, IInv, TypeOK, ExecHeld, InLock,
     queueVars, runVars, fileVars
<1>6. ParentSettled'
  <2>1. \A v \in Workers : \A s \in seen'[v] : s \in Seeds /\ complete(Cache(s))
    BY DEF Stop, IInv, TypeOK, ParentSettled
  <2>2. \A u \in Tasks : marker[u] # 0 => marker'[u] # 0
    BY DEF Stop, IInv, TypeOK, ResultPhases, fileVars
  <2>3. \A u \in Tasks : lease[u] = {} => lease'[u] = {}
    BY DEF Stop, IInv, TypeOK, queueVars
  <2>4. \A v \in Workers : wpc'[v] \in Held => wpc[v] \in Held /\ wtask'[v] = wtask[v]
    BY DEF Stop, IInv, TypeOK, Held
  <2>5. \A u \in Tasks : \A m \in Launches :
          rank'[u][m] \in Alive => rank[u][m] \in Alive \/ parentDone(u)
    BY DEF Stop, IInv, TypeOK, Alive, InLock, runVars
  <2>6. \A u \in Tasks : \A m \in Launches :
          torch'[u][m] = "up" => torch[u][m] = "up" \/ (parentDone(u) /\ parentFree(u))
    BY DEF Stop, IInv, TypeOK, runVars
  <2> QED BY <2>1, <2>2, <2>3, <2>4, <2>5, <2>6, ParentSettledFrame
<1>7. ResultPhases'
    BY ConstantsAssumption DEF Stop, Fault, IInv, TypeOK, ResultPhases,
     ExecHeld, InLock, queueVars, runVars, fileVars
<1> QED BY <1>1, <1>2, <1>3, <1>4, <1>5, <1>6, <1>7 DEF IInv

\* stop.json is no part of the invariant but its type.
LEMMA ResumeKeeps ==
    ASSUME IInv, Resume
    PROVE  IInv'
<1>1. TypeOK'
    BY ConstantsAssumption DEF Resume, IInv, TypeOK, Held, Terminal, Alive,
     InLock, Outcomes, Statuses, Launches, LeaseOwned, AttemptNumbers,
     queueVars, runVars, fileVars
<1>2. LeaseOwned'
    BY ConstantsAssumption DEF Resume, IInv, TypeOK, LeaseOwned, Held,
     Launches, queueVars, runVars, fileVars
<1>3. LauncherCurrent'
    BY ConstantsAssumption DEF Resume, IInv, TypeOK, LauncherCurrent,
     LeaseOwned, Held, Launches, queueVars, runVars, fileVars
<1>4. AttemptNumbers'
    BY ConstantsAssumption DEF Resume, IInv, TypeOK, AttemptNumbers,
     LeaseOwned, Held, Launches, queueVars, runVars, fileVars
<1>5. ExecHeld'
    BY ConstantsAssumption DEF Resume, IInv, TypeOK, ExecHeld, InLock,
     queueVars, runVars, fileVars
<1>6. ParentSettled'
  <2>1. \A v \in Workers : \A s \in seen'[v] : s \in Seeds /\ complete(Cache(s))
    BY DEF Resume, IInv, TypeOK, ParentSettled
  <2>2. \A u \in Tasks : marker[u] # 0 => marker'[u] # 0
    BY DEF Resume, IInv, TypeOK, ResultPhases, fileVars
  <2>3. \A u \in Tasks : lease[u] = {} => lease'[u] = {}
    BY DEF Resume, IInv, TypeOK, queueVars
  <2>4. \A v \in Workers : wpc'[v] \in Held => wpc[v] \in Held /\ wtask'[v] = wtask[v]
    BY DEF Resume, IInv, TypeOK, Held
  <2>5. \A u \in Tasks : \A m \in Launches :
          rank'[u][m] \in Alive => rank[u][m] \in Alive \/ parentDone(u)
    BY DEF Resume, IInv, TypeOK, Alive, InLock, runVars
  <2>6. \A u \in Tasks : \A m \in Launches :
          torch'[u][m] = "up" => torch[u][m] = "up" \/ (parentDone(u) /\ parentFree(u))
    BY DEF Resume, IInv, TypeOK, runVars
  <2> QED BY <2>1, <2>2, <2>3, <2>4, <2>5, <2>6, ParentSettledFrame
<1>7. ResultPhases'
    BY ConstantsAssumption DEF Resume, IInv, TypeOK, ResultPhases, ExecHeld,
     InLock, queueVars, runVars, fileVars
<1> QED BY <1>1, <1>2, <1>3, <1>4, <1>5, <1>6, <1>7 DEF IInv

-----------------------------------------------------------------------------
(* The theorems.                                                            *)

\* Every step keeps the invariant.
LEMMA NextIInv == IInv /\ [Next]_vars => IInv'
<1> SUFFICES ASSUME IInv, [Next]_vars PROVE IInv'
  OBVIOUS
<1>1. CASE \E w \in Workers : WorkerStep(w) \/ WorkerFault(w)
  <2>1. PICK w \in Workers : WorkerStep(w) \/ WorkerFault(w)
    BY <1>1
  <2>2. CASE \E t \in Tasks : Claim(w, t)
    BY <2>2, ClaimKeeps
  <2>3. CASE Record(w) \/ StartChild(w) \/ ChildExit(w) \/ DeviceBusy(w)
    BY <2>3, RecordKeeps, StartChildKeeps, ChildExitKeeps, DeviceBusyKeeps
  <2>4. CASE InterruptChild(w) \/ StallChild(w) \/ FinishAttempt(w) \/ FinishReceipt(w)
    BY <2>4, InterruptChildKeeps, StallChildKeeps, FinishAttemptKeeps, FinishReceiptKeeps
  <2>5. CASE Verify(w) \/ NothingToClaim(w) \/ StopSeen(w) \/ WorkerCrash(w) \/ Restart(w)
    BY <2>5, VerifyKeeps, NothingToClaimKeeps, StopSeenKeeps, WorkerCrashKeeps, RestartKeeps
  <2> QED BY <2>1, <2>2, <2>3, <2>4, <2>5 DEF WorkerStep, WorkerFault
<1>2. CASE \E t \in Tasks, n \in Launches :
              RankStep(t, n) \/ Reap(t, n) \/ RankCrash(t, n) \/ TorchrunCrash(t, n)
  <2>1. PICK t \in Tasks, n \in Launches :
              RankStep(t, n) \/ Reap(t, n) \/ RankCrash(t, n) \/ TorchrunCrash(t, n)
    BY <1>2
  <2>2. CASE Startup(t, n) \/ LockExec(t, n) \/ LockBusy(t, n) \/ Recheck(t, n)
    BY <2>2, StartupKeeps, LockExecKeeps, LockBusyKeeps, RecheckKeeps
  <2>3. CASE Work(t, n) \/ Publish(t, n) \/ Leave(t, n)
    BY <2>3, WorkKeeps, PublishKeeps, LeaveKeeps
  <2>4. CASE Reap(t, n) \/ RankCrash(t, n) \/ TorchrunCrash(t, n)
    BY <2>4, ReapKeeps, RankCrashKeeps, TorchrunCrashKeeps
  <2> QED BY <2>1, <2>2, <2>3, <2>4 DEF RankStep
<1>3. CASE Stop \/ Resume
  BY <1>3, StopKeeps, ResumeKeeps
<1>4. CASE UNCHANGED vars
  <2>1. UNCHANGED <<lease, receipt, history, wpc, seen, wtask, outcome, torch, rank,
                    exec, artifact, marker, stop, faults>>
    BY <1>4 DEF vars
  <2>2. TypeOK' /\ LeaseOwned' /\ LauncherCurrent' /\ AttemptNumbers'
    BY <2>1 DEF IInv, TypeOK, LeaseOwned, LauncherCurrent, AttemptNumbers
  <2>3. ExecHeld' /\ ResultPhases'
    BY <2>1 DEF IInv, ExecHeld, ResultPhases
  <2>4. ParentSettled'
    BY <2>1 DEF IInv, ParentSettled, parentDone, parentFree, complete
  <2> QED BY <2>2, <2>3, <2>4 DEF IInv
<1> QED BY <1>1, <1>2, <1>3, <1>4 DEF Next

\* Every reachable state of the queue satisfies the inductive invariant: types,
\* owners of leases, the current launcher, attempt numbers, the holder of the
\* execution lock, settled parents and the phases of a result.
THEOREM Invariance == Spec => []IInv
<1> QED BY InitIInv, NextIInv, PTL DEF Spec

\* Every variable of the queue keeps its type, for any number of workers, seeds,
\* arms, attempts and faults.
THEOREM TypeCorrect == Spec => []TypeOK
<1>1. IInv => TypeOK
  BY DEF IInv
<1> QED BY <1>1, Invariance, PTL

\* Two rank-0 processes of one task are never past its execution lock together.
THEOREM ExecutionExclusive == Spec => []OneExecution
<1>1. IInv => OneExecution
  BY DEF IInv, ExecHeld, OneExecution
<1> QED BY <1>1, Invariance, PTL

\* A live launcher has its task's lease, whatever happened to its worker.
THEOREM LeaseSurvivesWorker == Spec => []LauncherHoldsLease
<1>1. IInv => LauncherHoldsLease
  BY DEF IInv, LauncherCurrent, LauncherHoldsLease
<1> QED BY <1>1, Invariance, PTL

\* No attempt works on the result of a task whose child is being executed, even
\* one launched from a stale view of the caches.
THEOREM ParentIsSettled == Spec => []ParentSettledFirst
<1>1. IInv => ParentSettledFirst
  <2> SUFFICES ASSUME IInv, NEW t \in Tasks, NEW m \in Launches, NEW n \in Launches,
                      dependency(t) # None, rank[t][n] \in Alive
               PROVE  rank[dependency(t)][m] # "work"
    BY DEF ParentSettledFirst
  <2>1. dependency(t) \in Tasks /\ marker[dependency(t)] # 0
    BY DependencyIsTask DEF IInv, ParentSettled, parentDone, complete
  <2> QED BY <2>1 DEF IInv, ResultPhases
<1> QED BY <1>1, Invariance, PTL

\* A launcher of an arm never runs beside a launcher of its prefix, unless the
\* seed-first queue is used.
THEOREM PrefixIsQuiet == Spec => []PrefixQuiet
<1>1. IInv => PrefixQuiet
  <2> SUFFICES ASSUME IInv, NEW t \in Tasks, NEW m \in Launches, NEW n \in Launches,
                      ~SeedFirst, t[2] \in Arms, torch[t][n] = "up",
                      torch[Prefix(t[1])][m] = "up"
               PROVE  FALSE
    BY DEF PrefixQuiet
  <2>1. lease[Prefix(t[1])] = {}
    BY DEF IInv, ParentSettled, parentFree
  <2>2. Prefix(t[1]) \in Tasks
    BY DEF Tasks, Prefix
  <2>3. m \in lease[Prefix(t[1])]
    BY <2>2 DEF IInv, LauncherCurrent
  <2> QED BY <2>1, <2>3
<1> QED BY <1>1, Invariance, PTL

\* The only actions that write results are Work and Publish.
LEMMA FilesChange ==
    ASSUME [Next]_vars
    PROVE  \/ UNCHANGED fileVars
           \/ \E t \in Tasks, n \in Launches : Work(t, n) \/ Publish(t, n)
<1>1. CASE \E w \in Workers : WorkerStep(w) \/ WorkerFault(w)
  <2>1. PICK w \in Workers : WorkerStep(w) \/ WorkerFault(w)
    BY <1>1
  <2>2. CASE \E t \in Tasks : Claim(w, t)
    BY <2>2 DEF Claim
  <2>3. CASE Record(w) \/ StartChild(w) \/ ChildExit(w) \/ DeviceBusy(w)
    BY <2>3 DEF Record, StartChild, ChildExit, DeviceBusy
  <2>4. CASE InterruptChild(w) \/ StallChild(w) \/ FinishAttempt(w) \/ FinishReceipt(w)
    BY <2>4 DEF InterruptChild, StallChild, FinishAttempt, FinishReceipt
  <2>5. CASE Verify(w) \/ NothingToClaim(w) \/ StopSeen(w) \/ WorkerCrash(w) \/ Restart(w)
    BY <2>5 DEF Verify, NothingToClaim, StopSeen, WorkerCrash, Restart
  <2> QED BY <2>1, <2>2, <2>3, <2>4, <2>5 DEF WorkerStep, WorkerFault
<1>2. CASE \E t \in Tasks, n \in Launches :
              RankStep(t, n) \/ Reap(t, n) \/ RankCrash(t, n) \/ TorchrunCrash(t, n)
  <2>1. PICK t \in Tasks, n \in Launches :
              RankStep(t, n) \/ Reap(t, n) \/ RankCrash(t, n) \/ TorchrunCrash(t, n)
    BY <1>2
  <2>2. CASE Startup(t, n) \/ LockExec(t, n) \/ LockBusy(t, n) \/ Recheck(t, n) \/ Leave(t, n)
    BY <2>2 DEF Startup, LockExec, LockBusy, Recheck, Leave
  <2>3. CASE Work(t, n) \/ Publish(t, n)
    BY <2>3
  <2>4. CASE Reap(t, n) \/ RankCrash(t, n) \/ TorchrunCrash(t, n)
    BY <2>4 DEF Reap, RankCrash, TorchrunCrash
  <2> QED BY <2>1, <2>2, <2>3, <2>4 DEF RankStep
<1>3. CASE Stop \/ Resume
  BY <1>3 DEF Stop, Resume
<1>4. CASE UNCHANGED vars
  BY <1>4 DEF vars, fileVars
<1> QED BY <1>1, <1>2, <1>3, <1>4 DEF Next

\* One step of the queue never touches a published result.
LEMMA StepKeepsPublished ==
    ASSUME IInv, [Next]_vars, NEW u \in Tasks, marker[u] # 0
    PROVE  marker'[u] = marker[u] /\ artifact'[u] = artifact[u]
<1>1. CASE \E t \in Tasks, n \in Launches : Work(t, n)
  <2>1. PICK t \in Tasks, n \in Launches : Work(t, n)
    BY <1>1
  <2>2. marker[t] = 0
    BY <2>1 DEF Work, IInv, ResultPhases
  <2> QED BY <2>1, <2>2 DEF Work, IInv, TypeOK
<1>2. CASE \E t \in Tasks, n \in Launches : Publish(t, n)
  <2>1. PICK t \in Tasks, n \in Launches : Publish(t, n)
    BY <1>2
  <2>2. CASE u = t
    <3>1. t[2] = "cache" /\ marker[t] = artifact[t]
      BY <2>1, <2>2 DEF Publish, IInv, ResultPhases
    <3> QED BY <2>1, <2>2, <3>1, ConstantsAssumption DEF Publish, IInv, TypeOK
  <2>3. CASE u # t
    BY <2>1, <2>3 DEF Publish, IInv, TypeOK
  <2> QED BY <2>2, <2>3
<1>3. CASE UNCHANGED fileVars
  BY <1>3 DEF fileVars
<1> QED BY <1>1, <1>2, <1>3, FilesChange

\* A published result is final: no later attempt, orphan or restart rewrites it.
THEOREM PublishedIsFinal == Spec => PublishedOnce
<1>1. IInv /\ [Next]_vars => [\A t \in Tasks : marker[t] # 0 =>
            marker'[t] = marker[t] /\ artifact'[t] = artifact[t]]_vars
  BY StepKeepsPublished
<1> QED BY <1>1, Invariance, PTL DEF Spec, PublishedOnce

\* The queue implements the study's DAG: its first states publish nothing, and
\* every step publishes one task after its parent, or nothing.
THEOREM Refinement == Spec => ImplementsDag
<1>1. Init => Dag!Init
  BY DEF Init, Dag!Init, complete
<1>2. IInv /\ [Next]_vars => [Dag!Next]_({t \in Tasks : complete(t)})
  <2> SUFFICES ASSUME IInv, [Next]_vars
               PROVE  [Dag!Next]_({t \in Tasks : complete(t)})
    OBVIOUS
  <2>1. CASE \E t \in Tasks, n \in Launches : Publish(t, n) /\ marker[t] = 0
    <3>1. PICK t \in Tasks, n \in Launches : Publish(t, n) /\ marker[t] = 0
      BY <2>1
    <3>2. parentDone(t)
      BY <3>1 DEF Publish, IInv, ParentSettled, Alive, InLock
    <3>3. marker' = [marker EXCEPT ![t] = artifact'[t]] /\ artifact'[t] # 0
      BY <3>1, LaunchPositive DEF Publish, IInv, TypeOK, ResultPhases
    <3>4. {u \in Tasks : complete(u)}' = {u \in Tasks : complete(u)} \cup {t}
      BY <3>1, <3>3 DEF complete, IInv, TypeOK
    <3>5. t \notin {u \in Tasks : complete(u)}
      BY <3>1 DEF complete
    <3>6. dependency(t) # None => dependency(t) \in {u \in Tasks : complete(u)}
      BY <3>2, DependencyIsTask DEF parentDone
    <3> QED BY <3>4, <3>5, <3>6 DEF Dag!Next, Dag!Publish
  <2>2. CASE ~ \E t \in Tasks, n \in Launches : Publish(t, n) /\ marker[t] = 0
    <3>1. \A u \in Tasks : marker[u] = 0 => marker'[u] = 0
      <4>1. CASE UNCHANGED marker
        BY <4>1
      <4>2. CASE \E t \in Tasks, n \in Launches : Publish(t, n)
        <5>1. PICK t \in Tasks, n \in Launches : Publish(t, n)
          BY <4>2
        <5>2. marker[t] # 0
          BY <2>2, <5>1
        <5> QED BY <5>1, <5>2 DEF Publish, IInv, TypeOK
      <4>3. UNCHANGED marker \/ \E t \in Tasks, n \in Launches : Publish(t, n)
        BY FilesChange DEF fileVars, Work
      <4> QED BY <4>1, <4>2, <4>3
    <3>2. \A u \in Tasks : marker[u] # 0 => marker'[u] = marker[u]
      BY StepKeepsPublished
    <3>3. {u \in Tasks : complete(u)}' = {u \in Tasks : complete(u)}
      BY <3>1, <3>2 DEF complete
    <3> QED BY <3>3
  <2> QED BY <2>1, <2>2
<1> QED BY <1>1, <1>2, Invariance, PTL DEF Spec, ImplementsDag, Dag!Spec
-----------------------------------------------------------------------------
(* The retry budget.  An attempt that is charged to the task raises attempt *)
(* and retry together; only a refund lowers retry, and it is given under a  *)
(* receipt that still says "running", for the attempt it names.  The record *)
(* of an interruption is written before the refund, so the attempt of a     *)
(* running receipt is not counted: its record may still become "abandoned". *)

\* The attempts of a task whose interruption is on record and has been refunded.
Refunded(t) ==
    {n \in Launches : history[t][n] = "interrupted"
                      /\ ~ (receipt[t].status = "running" /\ n = receipt[t].attempt)}

\* Later attempts have no record, and a worker that holds a task past its claim
\* finds its receipt still running.
Charging ==
    /\ \A t \in Tasks : \A n \in Launches : n > receipt[t].attempt => history[t][n] = "none"
    /\ \A w \in Workers :
          wpc[w] \in Held \ {"claiming"} => receipt[wtask[w]].status = "running"
    /\ \A w \in Workers : wpc[w] = "claiming" => receipt[wtask[w]].retry < MaxAttempts

BudgetOf(t) ==
    /\ receipt[t].retry <= MaxAttempts
    /\ receipt[t].attempt <= receipt[t].retry + Cardinality(Refunded(t))

Budget == Charging /\ \A t \in Tasks : BudgetOf(t)

\* A set of attempts is finite, and no larger than one that contains it.
LEMMA AttemptsFinite ==
    ASSUME NEW S \in SUBSET Launches, NEW T \in SUBSET S
    PROVE  /\ IsFiniteSet(S) /\ Cardinality(S) \in Nat
           /\ Cardinality(T) \in Nat /\ Cardinality(T) <= Cardinality(S)
<1>1. IsFiniteSet(Launches)
  BY FS_Interval, ConstantsAssumption DEF Launches
<1>2. IsFiniteSet(S)
  BY <1>1, FS_Subset
<1>3. IsFiniteSet(T) /\ Cardinality(T) <= Cardinality(S)
  BY <1>2, FS_Subset
<1> QED BY <1>2, <1>3, FS_CardinalityType

\* A receipt's numbers are natural numbers.
LEMMA ReceiptNumbers ==
    ASSUME IInv, NEW t \in Tasks
    PROVE  receipt[t].attempt \in Nat /\ receipt[t].retry \in Nat
  BY ConstantsAssumption DEF IInv, TypeOK

\* The budget of a task whose receipt and records stay is kept.
LEMMA BudgetOfFrame ==
    ASSUME NEW t \in Tasks, BudgetOf(t), receipt'[t] = receipt[t], history'[t] = history[t]
    PROVE  BudgetOf(t)'
<1>1. Refunded(t)' = Refunded(t)
  BY DEF Refunded
<1> QED BY <1>1 DEF BudgetOf

\* A step that writes neither receipts nor records and lets no worker advance
\* past a claim keeps the budget.
LEMMA BudgetFrame ==
    ASSUME Budget, UNCHANGED <<receipt, history>>,
           \A v \in Workers : wpc'[v] \in Held =>
              /\ wtask'[v] = wtask[v] /\ wpc[v] \in Held
              /\ wpc'[v] = "claiming" <=> wpc[v] = "claiming"
    PROVE  Budget'
<1>1. \A t \in Tasks : BudgetOf(t)'
  BY BudgetOfFrame DEF Budget
<1>2. Charging'
  BY DEF Budget, Charging, Held
<1> QED BY <1>1, <1>2 DEF Budget

\* Initially no attempt is counted.
LEMMA InitBudget == Init => Budget
<1> SUFFICES ASSUME Init PROVE Budget
  OBVIOUS
<1>1. Charging
  BY DEF Init, Charging, Held
<1>2. ASSUME NEW t \in Tasks PROVE BudgetOf(t)
  <2>1. receipt[t].attempt = 0 /\ receipt[t].retry = 0
    BY DEF Init, NoReceipt
  <2>2. Cardinality(Refunded(t)) \in Nat
    BY AttemptsFinite DEF Refunded
  <2> QED BY <2>1, <2>2, ConstantsAssumption DEF BudgetOf
<1> QED BY <1>1, <1>2 DEF Budget

\* A claim writes only the record of the attempt that the receipt calls running,
\* which is not counted.
LEMMA ClaimBudget ==
    ASSUME IInv, Budget, NEW w \in Workers, NEW t \in Tasks, Claim(w, t)
    PROVE  Budget'
<1> DEFINE a == receipt[t].attempt
<1>1. /\ receipt' = receipt
      /\ \A u \in Tasks : u # t => history'[u] = history[u]
      /\ \A n \in Launches : n # a => history'[t][n] = history[t][n]
      /\ receipt[t].status # "running" => history' = history
  <2>1. receipt' = receipt
    BY DEF Claim
  <2>2. CASE history' = history
    BY <2>1, <2>2
  <2>3. CASE receipt[t].status = "running"
             /\ history' = [history EXCEPT ![t][a] = "abandoned"]
    BY <2>1, <2>3 DEF IInv, TypeOK
  <2> QED BY <2>2, <2>3 DEF Claim
<1>2. /\ wpc'[w] = "claiming" /\ wtask'[w] = t /\ receipt[t].retry < MaxAttempts
      /\ \A v \in Workers : v # w => wpc'[v] = wpc[v] /\ wtask'[v] = wtask[v]
  BY DEF Claim, claimable, IInv, TypeOK
<1>3. \A u \in Tasks : BudgetOf(u)'
  <2>1. \A u \in Tasks : u # t => BudgetOf(u)'
    BY <1>1, BudgetOfFrame DEF Budget
  <2>2. Refunded(t)' = Refunded(t)
    BY <1>1 DEF Refunded
  <2>3. BudgetOf(t)'
    BY <1>1, <2>2 DEF Budget, BudgetOf
  <2> QED BY <2>1, <2>3
<1>4. Charging'
  <2>1. \A u \in Tasks : \A n \in Launches : n > receipt'[u].attempt => history'[u][n] = "none"
    <3> SUFFICES ASSUME NEW u \in Tasks, NEW n \in Launches, n > receipt[u].attempt
                 PROVE  history'[u][n] = "none"
      BY <1>1
    <3>1. history[u][n] = "none"
      BY DEF Budget, Charging
    <3>2. n # receipt[u].attempt
      BY ReceiptNumbers DEF Launches
    <3> QED BY <1>1, <3>1, <3>2
  <2>2. \A v \in Workers :
          wpc'[v] \in Held \ {"claiming"} => receipt'[wtask'[v]].status = "running"
    BY <1>1, <1>2 DEF Budget, Charging
  <2>3. \A v \in Workers : wpc'[v] = "claiming" => receipt'[wtask'[v]].retry < MaxAttempts
    BY <1>1, <1>2 DEF Budget, Charging
  <2> QED BY <2>1, <2>2, <2>3 DEF Charging
<1> QED BY <1>3, <1>4 DEF Budget

\* A new attempt is charged; it has no record yet, and the one before it counts
\* if it was refunded.
LEMMA RecordBudget ==
    ASSUME IInv, Budget, NEW w \in Workers, Record(w)
    PROVE  Budget'
<1>t. wtask[w] \in Tasks /\ wpc[w] = "claiming" /\ w \in lease[wtask[w]]
  BY DEF Record, IInv, LeaseOwned, Held
<1>0. PICK t \in Tasks : t = wtask[w] /\ wpc[w] = "claiming" /\ w \in lease[t]
  BY <1>t
<1>1. /\ receipt'[t].status = "running"
      /\ receipt'[t].attempt = receipt[t].attempt + 1
      /\ receipt'[t].retry = receipt[t].retry + 1
      /\ \A u \in Tasks : u # t => receipt'[u] = receipt[u]
      /\ UNCHANGED <<history, wtask>>
  <2>1. \A u \in Tasks : u # t => receipt'[u] = receipt[u]
    BY <1>0 DEF Record, IInv, TypeOK
  <2>2. receipt'[t] = [status  |-> "running", attempt |-> receipt[t].attempt + 1,
                       retry   |-> receipt[t].retry + 1]
    BY <1>0 DEF Record, IInv, TypeOK
  <2> QED BY <2>1, <2>2 DEF Record
<1>2. wpc'[w] = "claimed" /\ \A v \in Workers : v # w => wpc'[v] = wpc[v]
  BY DEF Record, IInv, TypeOK
<1>3. \A v \in Workers : v # w /\ wpc[v] \in Held => wtask[v] \in Tasks /\ wtask[v] # t
  BY <1>0 DEF IInv, LeaseOwned
<1>4. receipt[t].attempt \in Nat /\ receipt[t].retry \in Nat /\ receipt[t].retry < MaxAttempts
  BY <1>0, ReceiptNumbers DEF Budget, Charging
<1>5. BudgetOf(t)'
  <2>1. Refunded(t) \in SUBSET Refunded(t)'
    <3> SUFFICES ASSUME NEW n \in Refunded(t) PROVE n \in Refunded(t)'
      OBVIOUS
    <3>1. n \in Launches /\ history[t][n] = "interrupted"
      BY DEF Refunded
    <3>2. ~ (n > receipt[t].attempt)
      BY <1>0, <3>1 DEF Budget, Charging
    <3>3. n # receipt[t].attempt + 1
      BY <1>4, <3>1, <3>2 DEF Launches
    <3> QED BY <1>1, <3>1, <3>3 DEF Refunded
  <2>2. Refunded(t)' \in SUBSET Launches
    BY DEF Refunded
  <2>3. Cardinality(Refunded(t)) \in Nat /\ Cardinality(Refunded(t)') \in Nat
        /\ Cardinality(Refunded(t)) <= Cardinality(Refunded(t)')
    BY <2>1, <2>2, AttemptsFinite
  <2>4. receipt[t].attempt <= receipt[t].retry + Cardinality(Refunded(t))
    BY <1>0 DEF Budget, BudgetOf
  <2>5. receipt[t].attempt + 1 <= receipt[t].retry + 1 + Cardinality(Refunded(t)')
    BY <1>4, <2>3, <2>4
  <2>6. receipt[t].retry + 1 <= MaxAttempts
    BY <1>4, ConstantsAssumption
  <2> QED BY <1>1, <2>5, <2>6 DEF BudgetOf
<1>6. \A u \in Tasks : BudgetOf(u)'
  BY <1>1, <1>5, BudgetOfFrame DEF Budget
<1>7. Charging'
  <2>1. \A u \in Tasks : \A n \in Launches : n > receipt'[u].attempt => history'[u][n] = "none"
    <3> SUFFICES ASSUME NEW u \in Tasks, NEW n \in Launches, n > receipt'[u].attempt
                 PROVE  history[u][n] = "none"
      BY <1>1
    <3>1. CASE u = t
      BY <1>1, <1>4, <3>1 DEF Budget, Charging, Launches
    <3>2. CASE u # t
      BY <1>1, <3>2 DEF Budget, Charging
    <3> QED BY <3>1, <3>2
  <2>2. \A v \in Workers : v # w /\ wpc'[v] \in Held =>
          wpc[v] \in Held /\ wpc'[v] = wpc[v] /\ receipt'[wtask'[v]] = receipt[wtask[v]]
    BY <1>1, <1>2, <1>3
  <2>3. wpc'[w] # "claiming" /\ receipt'[wtask'[w]].status = "running"
    BY <1>0, <1>1, <1>2
  <2>4. \A v \in Workers :
          wpc'[v] \in Held \ {"claiming"} => receipt'[wtask'[v]].status = "running"
    BY <2>2, <2>3 DEF Budget, Charging
  <2>5. \A v \in Workers : wpc'[v] = "claiming" => receipt'[wtask'[v]].retry < MaxAttempts
    BY <2>2, <2>3 DEF Budget, Charging, Held
  <2> QED BY <2>1, <2>4, <2>5 DEF Charging
<1> QED BY <1>6, <1>7 DEF Budget

\* The record of an attempt is written under its running receipt: no count changes.
LEMMA FinishAttemptBudget ==
    ASSUME IInv, Budget, NEW w \in Workers, FinishAttempt(w)
    PROVE  Budget'
<1>t. wtask[w] \in Tasks /\ receipt[wtask[w]].attempt \in Launches /\ wpc[w] = "finishing"
  BY HeldLaunch DEF FinishAttempt, Held
<1>0. PICK t \in Tasks, a \in Launches :
          t = wtask[w] /\ a = receipt[t].attempt /\ wpc[w] = "finishing"
  BY <1>t
<1>1. /\ UNCHANGED <<receipt, wtask>>
      /\ \A u \in Tasks : u # t => history'[u] = history[u]
      /\ \A n \in Launches : n # a => history'[t][n] = history[t][n]
  BY <1>0 DEF FinishAttempt, IInv, TypeOK
<1>2. wpc'[w] = "recording" /\ \A v \in Workers : v # w => wpc'[v] = wpc[v]
  BY DEF FinishAttempt, IInv, TypeOK
<1>3. receipt[t].status = "running"
  BY <1>0 DEF Budget, Charging, Held
<1>4. Refunded(t)' = Refunded(t)
  BY <1>0, <1>1, <1>3 DEF Refunded
<1>5. BudgetOf(t)'
  BY <1>0, <1>1, <1>4 DEF Budget, BudgetOf
<1>6. \A u \in Tasks : BudgetOf(u)'
  BY <1>1, <1>5, BudgetOfFrame DEF Budget
<1>7. Charging'
  <2>1. \A u \in Tasks : \A n \in Launches : n > receipt'[u].attempt => history'[u][n] = "none"
    <3> SUFFICES ASSUME NEW u \in Tasks, NEW n \in Launches, n > receipt[u].attempt
                 PROVE  history'[u][n] = "none"
      BY <1>1
    <3>1. history[u][n] = "none"
      BY DEF Budget, Charging
    <3>2. n # receipt[u].attempt
      BY ReceiptNumbers DEF Launches
    <3> QED BY <1>0, <1>1, <3>1, <3>2
  <2>2. \A v \in Workers :
          wpc'[v] \in Held \ {"claiming"} => receipt'[wtask'[v]].status = "running"
    BY <1>0, <1>1, <1>2, <1>3 DEF Budget, Charging, Held
  <2>3. \A v \in Workers : wpc'[v] = "claiming" => receipt'[wtask'[v]].retry < MaxAttempts
    BY <1>1, <1>2 DEF Budget, Charging
  <2> QED BY <2>1, <2>2, <2>3 DEF Charging
<1> QED BY <1>6, <1>7 DEF Budget

\* The receipt takes over the record: where it lowers retry, the attempt of the
\* receipt joins the refunded ones.
LEMMA FinishReceiptBudget ==
    ASSUME IInv, Budget, NEW w \in Workers, FinishReceipt(w)
    PROVE  Budget'
<1>t. /\ wtask[w] \in Tasks /\ receipt[wtask[w]].attempt \in Launches
      /\ wpc[w] = "recording" /\ w \in lease[wtask[w]]
  BY HeldLaunch DEF FinishReceipt, IInv, LeaseOwned, Held
<1>0. PICK t \in Tasks, a \in Launches :
          /\ t = wtask[w] /\ a = receipt[t].attempt
          /\ wpc[w] = "recording" /\ w \in lease[t]
  BY <1>t
<1>1. /\ receipt'[t].status = history[t][a]
      /\ receipt'[t].attempt = a
      /\ receipt'[t].retry = IF history[t][a] = "interrupted" /\ receipt[t].retry > 0
                             THEN receipt[t].retry - 1 ELSE receipt[t].retry
      /\ \A u \in Tasks : u # t => receipt'[u] = receipt[u]
      /\ history' = history
  <2>1. \A u \in Tasks : u # t => receipt'[u] = receipt[u]
    BY <1>0 DEF FinishReceipt, IInv, TypeOK
  <2>2. receipt'[t] =
          [status  |-> history[t][a], attempt |-> a,
           retry   |-> IF history[t][a] = "interrupted" /\ receipt[t].retry > 0
                       THEN receipt[t].retry - 1 ELSE receipt[t].retry]
    BY <1>0 DEF FinishReceipt, IInv, TypeOK
  <2> QED BY <2>1, <2>2 DEF FinishReceipt
<1>2. /\ wpc'[w] \notin Held
      /\ \A v \in Workers : v # w => wpc'[v] = wpc[v] /\ wtask'[v] = wtask[v]
  BY DEF FinishReceipt, IInv, TypeOK, Held
<1>3. \A v \in Workers : v # w /\ wpc[v] \in Held => wtask[v] \in Tasks /\ wtask[v] # t
  BY <1>0 DEF IInv, LeaseOwned
<1>4. receipt[t].status = "running" /\ history[t][a] \in {"complete", "interrupted", "failed"}
  BY <1>0 DEF Budget, Charging, Held, IInv, AttemptNumbers
<1>5. a \in Nat /\ receipt[t].retry \in Nat
  BY <1>0, ReceiptNumbers
<1>6. receipt[t].retry <= MaxAttempts /\ a <= receipt[t].retry + Cardinality(Refunded(t))
  BY <1>0 DEF Budget, BudgetOf
<1>7. Refunded(t) \in SUBSET Launches /\ a \notin Refunded(t)
  BY <1>0, <1>4 DEF Refunded
<1>8. IsFiniteSet(Refunded(t)) /\ Cardinality(Refunded(t)) \in Nat
  BY <1>7, AttemptsFinite
<1>9. BudgetOf(t)'
  <2>1. CASE history[t][a] = "interrupted"
    <3>1. Refunded(t)' = Refunded(t) \cup {a}
      BY <1>0, <1>1, <1>4, <2>1 DEF Refunded
    <3>2. Cardinality(Refunded(t) \cup {a}) = Cardinality(Refunded(t)) + 1
      BY <1>7, <1>8, FS_AddElement
    <3>3. receipt'[t].retry <= MaxAttempts
          /\ a <= receipt'[t].retry + (Cardinality(Refunded(t)) + 1)
      BY <1>1, <1>5, <1>6, <1>8, ConstantsAssumption
    <3> QED BY <1>0, <1>1, <3>1, <3>2, <3>3 DEF BudgetOf
  <2>2. CASE history[t][a] # "interrupted"
    <3>1. Refunded(t)' = Refunded(t)
      BY <1>0, <1>1, <1>4, <2>2 DEF Refunded
    <3> QED BY <1>0, <1>1, <1>6, <2>2, <3>1 DEF BudgetOf
  <2> QED BY <2>1, <2>2
<1>10. \A u \in Tasks : BudgetOf(u)'
  BY <1>1, <1>9, BudgetOfFrame DEF Budget
<1>11. Charging'
  <2>1. \A u \in Tasks : receipt'[u].attempt = receipt[u].attempt
    BY <1>0, <1>1
  <2>2. \A v \in Workers : wpc'[v] \in Held =>
          wpc[v] \in Held /\ wpc'[v] = wpc[v] /\ receipt'[wtask'[v]] = receipt[wtask[v]]
    BY <1>1, <1>2, <1>3
  <2>3. \A u \in Tasks : \A n \in Launches : n > receipt'[u].attempt => history'[u][n] = "none"
    BY <1>1, <2>1 DEF Budget, Charging
  <2>4. \A v \in Workers :
          wpc'[v] \in Held \ {"claiming"} => receipt'[wtask'[v]].status = "running"
    BY <2>2 DEF Budget, Charging
  <2>5. \A v \in Workers : wpc'[v] = "claiming" => receipt'[wtask'[v]].retry < MaxAttempts
    BY <2>2 DEF Budget, Charging, Held
  <2> QED BY <2>3, <2>4, <2>5 DEF Charging
<1> QED BY <1>10, <1>11 DEF Budget

\* All other steps leave receipts and records alone, and no worker passes a claim.
LEMMA NextBudget == IInv /\ Budget /\ [Next]_vars => Budget'
<1> SUFFICES ASSUME IInv, Budget, [Next]_vars PROVE Budget'
  OBVIOUS
<1> DEFINE Quiet ==
      /\ UNCHANGED <<receipt, history>>
      /\ \A v \in Workers : wpc'[v] \in Held =>
            /\ wtask'[v] = wtask[v] /\ wpc[v] \in Held
            /\ wpc'[v] = "claiming" <=> wpc[v] = "claiming"
<1>0. Quiet => Budget'
  BY BudgetFrame
<1>1. CASE \E w \in Workers : WorkerStep(w) \/ WorkerFault(w)
  <2>1. PICK w \in Workers : WorkerStep(w) \/ WorkerFault(w)
    BY <1>1
  <2>2. CASE (\E t \in Tasks : Claim(w, t)) \/ Record(w) \/ FinishAttempt(w) \/ FinishReceipt(w)
    BY <2>2, ClaimBudget, RecordBudget, FinishAttemptBudget, FinishReceiptBudget
  <2>3. CASE StartChild(w) \/ ChildExit(w) \/ DeviceBusy(w)
    <3>1. Quiet
      BY <2>3 DEF StartChild, ChildExit, DeviceBusy, IInv, TypeOK, Held, queueVars
    <3> QED BY <1>0, <3>1
  <2>4. CASE InterruptChild(w) \/ StallChild(w)
    <3>1. Quiet
      BY <2>4 DEF InterruptChild, StallChild, IInv, TypeOK, Held
    <3> QED BY <1>0, <3>1
  <2>5. CASE Verify(w) \/ NothingToClaim(w) \/ StopSeen(w)
    <3>1. wpc'[w] \notin Held
      BY <2>5 DEF Verify, NothingToClaim, StopSeen, IInv, TypeOK, Held
    <3>2. /\ UNCHANGED <<receipt, history, wtask>>
          /\ \A v \in Workers : v # w => wpc'[v] = wpc[v]
      BY <2>5 DEF Verify, NothingToClaim, StopSeen, queueVars, IInv, TypeOK
    <3>3. Quiet
      BY <3>1, <3>2
    <3> QED BY <1>0, <3>3
  <2>6. CASE WorkerCrash(w) \/ Restart(w)
    <3>1. wpc'[w] \notin Held
      BY <2>6 DEF WorkerCrash, Restart, IInv, TypeOK, Held
    <3>2. /\ UNCHANGED <<receipt, history>>
          /\ \A v \in Workers : v # w => wpc'[v] = wpc[v] /\ wtask'[v] = wtask[v]
      BY <2>6 DEF WorkerCrash, Restart, queueVars, IInv, TypeOK
    <3>3. Quiet
      BY <3>1, <3>2
    <3> QED BY <1>0, <3>3
  <2> QED BY <2>1, <2>2, <2>3, <2>4, <2>5, <2>6 DEF WorkerStep, WorkerFault
<1>2. CASE \E t \in Tasks, n \in Launches :
              RankStep(t, n) \/ Reap(t, n) \/ RankCrash(t, n) \/ TorchrunCrash(t, n)
  <2>1. PICK t \in Tasks, n \in Launches :
              RankStep(t, n) \/ Reap(t, n) \/ RankCrash(t, n) \/ TorchrunCrash(t, n)
    BY <1>2
  <2>2. CASE RankStep(t, n)
    <3>1. UNCHANGED <<receipt, history, wpc, wtask>>
      BY <2>2 DEF RankStep, Startup, LockExec, LockBusy, Recheck, Work, Publish, Leave, queueVars
    <3> QED BY <1>0, <3>1
  <2>3. CASE Reap(t, n) \/ RankCrash(t, n) \/ TorchrunCrash(t, n)
    <3>1. UNCHANGED <<receipt, history, wpc, wtask>>
      BY <2>3 DEF Reap, RankCrash, TorchrunCrash, queueVars
    <3> QED BY <1>0, <3>1
  <2> QED BY <2>1, <2>2, <2>3
<1>3. CASE Stop \/ Resume \/ UNCHANGED vars
  <2>1. UNCHANGED <<receipt, history, wpc, wtask>>
    BY <1>3 DEF Stop, Resume, vars, queueVars
  <2> QED BY <1>0, <2>1
<1> QED BY <1>1, <1>2, <1>3 DEF Next

\* Launches of a task never exceed --max-attempts plus the interruptions on
\* record, whatever crashes between the two writes of finish().
THEOREM BudgetIsKept == Spec => []RetryBudget
<1>1. IInv /\ Budget => RetryBudget
  <2> SUFFICES ASSUME IInv, Budget, NEW t \in Tasks
               PROVE  receipt[t].attempt <= MaxAttempts
                        + Cardinality({n \in Launches : history[t][n] = "interrupted"})
    BY DEF RetryBudget
  <2> DEFINE S == {n \in Launches : history[t][n] = "interrupted"}
  <2>1. S \in SUBSET Launches /\ Refunded(t) \in SUBSET S
    BY DEF Refunded
  <2>2. Cardinality(S) \in Nat /\ Cardinality(Refunded(t)) \in Nat
        /\ Cardinality(Refunded(t)) <= Cardinality(S)
    BY <2>1, AttemptsFinite
  <2>3. /\ receipt[t].retry <= MaxAttempts
        /\ receipt[t].attempt <= receipt[t].retry + Cardinality(Refunded(t))
    BY DEF Budget, BudgetOf
  <2> HIDE DEF S
  <2>4. receipt[t].attempt <= MaxAttempts + Cardinality(S)
    BY <2>2, <2>3, ReceiptNumbers, ConstantsAssumption
  <2> QED BY <2>4 DEF S
<1> QED BY <1>1, InitBudget, NextBudget, Invariance, PTL DEF Spec
=============================================================================
