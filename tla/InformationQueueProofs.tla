----------------------- MODULE InformationQueueProofs -----------------------
(***************************************************************************)
(* The safety properties of the measurement queue for any launchers,       *)
(* overlapping allocations, measurements and faults.                       *)
(***************************************************************************)
EXTENDS InformationQueue, Integers, WellFoundedInduction, TLAPS

-----------------------------------------------------------------------------
(* The inductive invariant.                                                 *)

Places == {"sweep", "judge", "reap", "avail", "refused", "start", "wait"} \cup Ended
Probing == {"avail", "refused"}
Chosen == {"reap", "avail", "refused", "start"}
Holding == {"judge", "reap", "avail", "refused", "start", "wait"}
CollectStates ==
    {"none", "lock", "gpu", "refused", "ready", "run", "busy", "stopped", "ok", "error"}
Statuses == {"none", "running", "busy", "complete", "failed", "interrupted"}
Receipts == [status : Statuses, attempt : Int, old : BOOLEAN]
Gpus == 1..NumGpus

LauncherType ==
    /\ pc \in [Launchers -> Places]
    /\ at \in [Launchers -> 1..(NumTasks + 1)]
    /\ marks \in [Launchers -> [Tasks -> {"none", "busy", "complete", "failed", "waiting"}]]
ReceiptType ==
    /\ receipt \in [Tasks -> Receipts]
    /\ failures \in [Tasks -> Nat]
RunType ==
    /\ collect \in [Tasks -> CollectStates]
    /\ home \in [Tasks -> Launchers \cup {Nobody}]
    /\ torch \in SUBSET Tasks
    /\ rank \in [Tasks -> {"none", "startup", "in", "out"}]
FileType ==
    /\ phase \in [Tasks -> 0..Phases]
    /\ endpoint \in SUBSET Tasks
LeaseType == leased \in [Launchers \cup Tasks -> SUBSET Gpus]

TypeOK == LauncherType /\ ReceiptType /\ RunType /\ FileType /\ LeaseType

\* A launcher between its claim and the release is alone at its task, and no
\* collect process of an earlier launcher lives while it decides.
ClaimsExclude ==
    /\ \A w \in Launchers : pc[w] \in Holding => at[w] \in Tasks
    /\ \A v, w \in Launchers :
          v # w /\ pc[v] \in Holding /\ pc[w] \in Holding => at[v] # at[w]
    /\ \A w \in Launchers : pc[w] \in Holding /\ pc[w] # "wait" => ~collecting(at[w])
    /\ \A w \in Launchers : pc[w] = "wait" => collect[at[w]] # "none"

\* Once its launcher has reaped, nothing of a task runs until it starts again.
Cleared ==
    \A w \in Launchers : pc[w] \in {"avail", "refused", "start"} =>
        at[w] \notin torch /\ rank[at[w]] = "none"

\* What of an attempt may run, given where its collect process is.
Attempts ==
    \A t \in Tasks :
        /\ collect[t] = "run" => t \in torch
        /\ collecting(t) /\ collect[t] # "run" => t \notin torch /\ rank[t] = "none"
        /\ collecting(t) \/ t \in torch \/ rank[t] # "none" => home[t] \in Launchers

Process == ClaimsExclude /\ Cleared /\ Attempts

\* A device lease has one holder; who holds some is probing, collecting or
\* running, and what runs or is about to has all those of its allocation.
LeasesDisjoint ==
    \A a, b \in Launchers \cup Tasks : a # b => leased[a] \cap leased[b] = {}
LeaseHolders ==
    /\ \A w \in Launchers : leased[w] # {} => pc[w] \in Probing
    /\ \A t \in Tasks : leased[t] # {} =>
          t \in torch \/ collect[t] \in {"gpu", "refused", "ready", "run"}
    /\ \A t \in Tasks : t \in torch \/ collect[t] = "ready" => gpusOf(t) \subseteq leased[t]

\* Who is taking device leases has those below the ones it still needs.
taking(a) == IF a \in Launchers THEN pc[a] \in Probing ELSE collect[a] \in {"gpu", "refused"}
TakenInOrder ==
    \A a \in Launchers \cup Tasks : taking(a) =>
        /\ leased[a] \subseteq Range(allocation(a))
        /\ \A g \in leased[a], h \in missing(a) : g < h
        /\ refused(a) => missing(a) # {}

Leases == LeasesDisjoint /\ LeaseHolders /\ TakenInOrder /\ GpuExclusive

\* A receipt is complete with its endpoint only, and running under a launcher
\* that waits; a failure of an earlier dispatcher has not been started again.
ReceiptTruthful ==
    /\ \A t \in Tasks :
          /\ receipt[t].status = "complete" => t \in endpoint
          /\ receipt[t].old => receipt[t].status \in {"failed", "complete"}
          /\ collect[t] = "ok" => t \in endpoint
          /\ t \in endpoint \/ rank[t] = "out" => phase[t] = Phases
    /\ \A w \in Launchers : pc[w] = "wait" => receipt[at[w]].status = "running"
    /\ \A w \in Launchers : pc[w] \in Chosen => receipt[at[w]].status # "complete"
Counting == ReceiptTruthful /\ AttemptsAreFailures

Exhausted(t) == t \in endpoint \/ (failures[t] >= MaxAttempts /\ ~receipt[t].old)
MarksTruthful ==
    \A w \in Launchers, t \in Tasks :
        /\ marks[w][t] = "complete" => t \in endpoint
        /\ marks[w][t] = "failed" => Exhausted(t)
Ending == MarksTruthful /\ EndsTruthfully

IInv == TypeOK /\ Process /\ Leases /\ Counting /\ Ending

-----------------------------------------------------------------------------
(* The order of the devices.                                                *)

\* A nonempty set of naturals has a least element,
LEMMA LeastExists ==
    ASSUME NEW S \in SUBSET Nat, S # {}
    PROVE  \E m \in S : \A k \in S : m <= k
<1> DEFINE Below == {ss \in Nat \X Nat : ss[1] < ss[2]}
<1>1. IsWellFoundedOn(Below, Nat)
      BY NatLessThanWellFounded DEF OpToRel
<1>2. \A m, k \in S : ~(<<k, m>> \in Below) => m <= k
      OBVIOUS
<1> HIDE DEF Below
<1>3. \E m \in S : \A k \in S : ~(<<k, m>> \in Below)
      BY <1>1, WFMin
<1> QED
    BY <1>2, <1>3

\* and a bounded one a greatest.
LEMMA GreatestExists ==
    ASSUME NEW N \in Nat, NEW S \in SUBSET (1..N), S # {}
    PROVE  \E m \in S : \A k \in S : k <= m
<1> DEFINE Back == {N - k : k \in S}
<1>1. /\ Back \in SUBSET Nat
      /\ \A k \in S : N - k \in Back
      OBVIOUS
<1>2. PICK b \in Back : \A c \in Back : b <= c
      BY <1>1, LeastExists
<1>3. PICK m \in S : b = N - m
      BY <1>2
<1>4. \A k \in S : N - m <= N - k
      BY <1>1, <1>2, <1>3
<1> QED
    BY <1>3, <1>4

\* Whoever has an allocation misses GPUs only.
LEMMA AllocationType ==
    ASSUME InformationAssumption, TypeOK, NEW a \in Launchers \cup Tasks,
           a \in Tasks => home[a] \in Launchers
    PROVE  /\ Range(allocation(a)) \in SUBSET Gpus
           /\ missing(a) \in SUBSET Gpus
<1>1. allocation(a) \in Seq(Gpus)
      BY DEF InformationAssumption, allocation, Gpus, Tasks
<1> QED
    BY <1>1 DEF Range, missing

\* The device locked next is the least that is missing.
LEMMA NextIsLeast ==
    ASSUME InformationAssumption, TypeOK, NEW a \in Launchers \cup Tasks,
           a \in Tasks => home[a] \in Launchers, missing(a) # {}
    PROVE  /\ next(a) \in missing(a) /\ next(a) \in Gpus
           /\ \A h \in missing(a) : next(a) <= h
<1>1. missing(a) \in SUBSET Gpus
      BY AllocationType
<1>2. missing(a) \in SUBSET Nat
      BY <1>1 DEF Gpus, InformationAssumption
<1>3. \E m \in missing(a) : \A k \in missing(a) : m <= k
      BY <1>2, LeastExists
<1> QED
    BY <1>1, <1>3 DEF next, Min

-----------------------------------------------------------------------------
(* Types.                                                                   *)

\* A task that is counted keeps the launcher's types.
LEMMA CountTyping ==
    ASSUME InformationAssumption, LauncherType, NEW w \in Launchers, at[w] \in Tasks,
           NEW mark \in {"busy", "complete", "failed", "waiting"}, Count(w, mark)
    PROVE  LauncherType'
<1>1. marks' \in [Launchers -> [Tasks -> {"none", "busy", "complete", "failed", "waiting"}]]
      BY DEF LauncherType, Count
<1>2. at' \in [Launchers -> 1..(NumTasks + 1)]
      BY DEF LauncherType, Count, Tasks, InformationAssumption
<1>3. pc' \in [Launchers -> Places]
      BY DEF LauncherType, Count, Places
<1> QED
    BY <1>1, <1>2, <1>3 DEF LauncherType

\* A lease taken is a GPU's.
LEMMA LeaseTaken ==
    ASSUME InformationAssumption, TypeOK, NEW a \in Launchers \cup Tasks,
           a \in Tasks => home[a] \in Launchers, missing(a) # {}, Lease(a)
    PROVE  LeaseType'
<1>1. next(a) \in Gpus
      BY NextIsLeast
<1> HIDE DEF next
<1> QED
    BY <1>1 DEF TypeOK, LeaseType, Lease

\* A receipt that gets another status, and attempts back.
LEMMA ReceiptEdited ==
    ASSUME receipt \in [Tasks -> Receipts], NEW t \in Tasks, NEW s \in Statuses, NEW k \in Int,
           receipt' = [receipt EXCEPT ![t].status = s, ![t].attempt = @ - k]
    PROVE  /\ receipt' \in [Tasks -> Receipts]
           /\ receipt'[t].status = s
           /\ receipt'[t].attempt = receipt[t].attempt - k
           /\ receipt'[t].old = receipt[t].old
           /\ \A u \in Tasks \ {t} : receipt'[u] = receipt[u]
<1>1. PICK q \in Receipts : q = receipt[t]
      OBVIOUS
<1>2. PICK n \in Int : n = q.attempt - k
      BY DEF Receipts
<1>3. PICK r : r = [q EXCEPT !.status = s, !.attempt = n]
      OBVIOUS
<1>4. r \in Receipts /\ r.status = s /\ r.attempt = n /\ r.old = q.old
      BY <1>3 DEF Receipts
<1>5. receipt' = [receipt EXCEPT ![t] = r]
      BY <1>1, <1>2, <1>3
<1> QED
    BY <1>1, <1>2, <1>4, <1>5

\* What a launcher writes when its child has ended.
LEMMA ReceivedFacts ==
    ASSUME TypeOK, Process, NEW w \in Launchers, Receive(w)
    PROVE  LET t == at[w]
           IN  /\ t \in Tasks
               /\ receipt' \in [Tasks -> Receipts]
               /\ receipt'[t].status = outcome(t)
               /\ receipt'[t].attempt = receipt[t].attempt - refund(t)
               /\ receipt'[t].old = receipt[t].old
               /\ \A u \in Tasks \ {t} : receipt'[u] = receipt[u]
               /\ failures' \in [Tasks -> Nat]
               /\ failures'[t] = IF collect[t] = "error" THEN failures[t] + 1 ELSE failures[t]
               /\ \A u \in Tasks \ {t} : failures'[u] = failures[u]
<1> DEFINE t == at[w]
<1>1. t \in Tasks
      BY DEF Receive, Process, ClaimsExclude, Holding
<1>2. receipt \in [Tasks -> Receipts] /\ failures \in [Tasks -> Nat]
      BY DEF TypeOK, ReceiptType
<1>3. receipt' = [receipt EXCEPT ![t].status = outcome(t), ![t].attempt = @ - refund(t)]
      BY DEF Receive
<1>4. failures' = [failures EXCEPT ![t] = IF collect[t] = "error" THEN @ + 1 ELSE @]
      BY DEF Receive
<1>5. outcome(t) \in Statuses /\ refund(t) \in Int
      BY DEF outcome, refund, Statuses
<1> HIDE DEF t
<1>6. /\ receipt' \in [Tasks -> Receipts]
      /\ receipt'[t].status = outcome(t)
      /\ receipt'[t].attempt = receipt[t].attempt - refund(t)
      /\ receipt'[t].old = receipt[t].old
      /\ \A u \in Tasks \ {t} : receipt'[u] = receipt[u]
      BY <1>1, <1>2, <1>3, <1>5, ReceiptEdited
<1>7. /\ failures' \in [Tasks -> Nat]
      /\ failures'[t] = IF collect[t] = "error" THEN failures[t] + 1 ELSE failures[t]
      /\ \A u \in Tasks \ {t} : failures'[u] = failures[u]
      BY <1>1, <1>2, <1>4
<1> QED
    BY <1>1, <1>6, <1>7 DEF t

\* Each group of variables keeps its type.
LEMMA LauncherTyping ==
    ASSUME InformationAssumption, LauncherType, Process, [Next]_vars
    PROVE  LauncherType'
<1> USE DEF LauncherType, Count, Again, Places, Unswept, Ended, InformationAssumption, Tasks
<1>1. CASE UNCHANGED launcherVars
      BY <1>1 DEF launcherVars
<1>2. ASSUME NEW w \in Launchers, Look(w) PROVE LauncherType'
      <2>1. CASE claimed(at[w]) \/ surviving(at[w])
            BY <1>2, <2>1, CountTyping DEF Look
      <2>2. CASE ~(claimed(at[w]) \/ surviving(at[w]))
            BY <1>2, <2>2 DEF Look
      <2> QED
          BY <2>1, <2>2
<1>3. ASSUME NEW w \in Launchers, Certify(w) PROVE LauncherType'
      BY <1>3, CountTyping DEF Certify, Process, ClaimsExclude, Holding
<1>4. ASSUME NEW w \in Launchers, PassOver(w) PROVE LauncherType'
      BY <1>4, CountTyping DEF PassOver, Process, ClaimsExclude, Holding
<1>5. ASSUME NEW w \in Launchers, ProbeGpu(w) PROVE LauncherType'
      BY <1>5 DEF ProbeGpu
<1>6. ASSUME NEW w \in Launchers, Unavailable(w) PROVE LauncherType'
      BY <1>6 DEF Unavailable
<1>7. ASSUME NEW w \in Launchers, Start(w) PROVE LauncherType'
      BY <1>7 DEF Start
<1>8. ASSUME NEW w \in Launchers, Receive(w) PROVE LauncherType'
      BY <1>8 DEF Receive
<1>9. ASSUME NEW w \in Launchers, EndSweep(w) PROVE LauncherType'
      BY <1>9 DEF EndSweep
<1>10. ASSUME NEW w \in Launchers, Try(w) PROVE LauncherType'
      BY <1>10 DEF Try
<1>11. ASSUME NEW w \in Launchers, Reap(w) PROVE LauncherType'
      BY <1>11 DEF Reap
<1>12. ASSUME NEW w \in Launchers, Restart(w) PROVE LauncherType'
      BY <1>12 DEF Restart
<1>13. ASSUME NEW w \in Launchers, Interrupt(w) PROVE LauncherType'
      BY <1>13 DEF Interrupt
<1>14. ASSUME NEW w \in Launchers, LauncherDies(w) PROVE LauncherType'
      BY <1>14 DEF LauncherDies
<1>15. ASSUME HostLost PROVE LauncherType'
      BY <1>15 DEF HostLost
<1>16. [Next]_vars /\ ~UNCHANGED launcherVars =>
        \/ \E w \in Launchers : Look(w)
        \/ \E w \in Launchers : Certify(w)
        \/ \E w \in Launchers : PassOver(w)
        \/ \E w \in Launchers : ProbeGpu(w)
        \/ \E w \in Launchers : Unavailable(w)
        \/ \E w \in Launchers : Start(w)
        \/ \E w \in Launchers : Receive(w)
        \/ \E w \in Launchers : EndSweep(w)
        \/ \E w \in Launchers : Try(w)
        \/ \E w \in Launchers : Reap(w)
        \/ \E w \in Launchers : Restart(w)
        \/ \E w \in Launchers : Interrupt(w)
        \/ \E w \in Launchers : LauncherDies(w)
        \/ HostLost
      BY DEF vars, launcherVars, runVars, fileVars, Next, LauncherStep, TaskStep, Failure,
         Replenish, Lock, TakeGpu, Refused, Launch, Measure, Return, RunFails,
         CollectKilled, TorchKilled, Publish, CollectStopped
<1> QED
    BY <1>1, <1>2, <1>3, <1>4, <1>5, <1>6, <1>7, <1>8, <1>9, <1>10, <1>11, <1>12, <1>13,
       <1>14, <1>15, <1>16

\* As above, for the next group of variables.
LEMMA ReceiptTyping ==
    ASSUME InformationAssumption, TypeOK, Process, [Next]_vars
    PROVE  ReceiptType'
<1> USE DEF TypeOK, ReceiptType, Receipts, Statuses, InformationAssumption
<1>1. CASE UNCHANGED <<receipt, failures>>
      BY <1>1
<1>2. ASSUME NEW w \in Launchers, Certify(w) PROVE ReceiptType'
      BY <1>2 DEF Certify, TypeOK, Process, ClaimsExclude, Holding, Failed, attempts
<1>3. ASSUME NEW w \in Launchers, Replenish(w) PROVE ReceiptType'
      BY <1>3 DEF Replenish, TypeOK, Process, ClaimsExclude, Holding, Failed, attempts
<1>4. ASSUME NEW w \in Launchers, Start(w) PROVE ReceiptType'
      BY <1>4 DEF Start, TypeOK, Process, ClaimsExclude, Holding, Failed, attempts
<1>5. ASSUME NEW w \in Launchers, Receive(w) PROVE ReceiptType'
      BY <1>5, ReceivedFacts
<1>6. ASSUME NEW w \in Launchers, Interrupt(w) PROVE ReceiptType'
      <2>1. PICK t \in Tasks : t = at[w]
            BY <1>6 DEF Interrupt, Process, ClaimsExclude, Holding
      <2>2. PICK k \in Int : k = 1
            OBVIOUS
      <2>3. receipt' = [receipt EXCEPT ![t].status = "interrupted", ![t].attempt = @ - k]
            BY <1>6, <2>1, <2>2 DEF Interrupt
      <2>4. receipt' \in [Tasks -> Receipts]
            BY <2>3, ReceiptEdited
      <2> QED
          BY <1>6, <2>4 DEF Interrupt
<1>7. [Next]_vars /\ ~UNCHANGED <<receipt, failures>> =>
        \/ \E w \in Launchers : Certify(w)
        \/ \E w \in Launchers : Replenish(w)
        \/ \E w \in Launchers : Start(w)
        \/ \E w \in Launchers : Receive(w)
        \/ \E w \in Launchers : Interrupt(w)
      BY DEF vars, launcherVars, runVars, fileVars, Next, LauncherStep, TaskStep, Failure,
         Look, PassOver, ProbeGpu, Unavailable, EndSweep, Try, Restart, LauncherDies, Lock,
         TakeGpu, Refused, Launch, Measure, Return, RunFails, CollectKilled, TorchKilled,
         HostLost, Reap, Publish, CollectStopped
<1> QED
    BY <1>1, <1>2, <1>3, <1>4, <1>5, <1>6, <1>7

\* As above, for the next group of variables.
LEMMA RunTyping ==
    ASSUME InformationAssumption, TypeOK, Process, [Next]_vars
    PROVE  RunType'
<1> USE DEF TypeOK, fileVars, RunType, CollectStates, Reap, become
<1>1. CASE UNCHANGED runVars
      BY <1>1 DEF runVars
<1>2. ASSUME NEW w \in Launchers, Reap(w) PROVE RunType'
      BY <1>2 DEF Reap
<1>3. ASSUME NEW w \in Launchers, Start(w) PROVE RunType'
      BY <1>3 DEF Start, TypeOK, Process, ClaimsExclude, Holding
<1>4. ASSUME NEW w \in Launchers, Receive(w) PROVE RunType'
      BY <1>4 DEF Receive, TypeOK, Process, ClaimsExclude, Holding
<1>5. ASSUME NEW w \in Launchers, Interrupt(w) PROVE RunType'
      BY <1>5 DEF Interrupt, TypeOK, Process, ClaimsExclude, Holding
<1>6. ASSUME NEW w \in Launchers, LauncherDies(w) PROVE RunType'
      BY <1>6 DEF LauncherDies
<1>7. ASSUME NEW t \in Tasks, Lock(t) PROVE RunType'
      BY <1>7 DEF Lock
<1>8. ASSUME NEW t \in Tasks, TakeGpu(t) PROVE RunType'
      BY <1>8 DEF TakeGpu
<1>9. ASSUME NEW t \in Tasks, Refused(t) PROVE RunType'
      BY <1>9 DEF Refused
<1>10. ASSUME NEW t \in Tasks, Launch(t) PROVE RunType'
      BY <1>10 DEF Launch
<1>11. ASSUME NEW t \in Tasks, Measure(t) PROVE RunType'
      BY <1>11 DEF Measure
<1>12. ASSUME NEW t \in Tasks, Publish(t) PROVE RunType'
      BY <1>12 DEF Publish
<1>13. ASSUME NEW t \in Tasks, Return(t) PROVE RunType'
      BY <1>13 DEF Return
<1>14. ASSUME NEW t \in Tasks, RunFails(t) PROVE RunType'
      BY <1>14 DEF RunFails
<1>15. ASSUME NEW t \in Tasks, CollectKilled(t) PROVE RunType'
      BY <1>15 DEF CollectKilled, ends
<1>16. ASSUME NEW t \in Tasks, CollectStopped(t) PROVE RunType'
      BY <1>16 DEF CollectStopped, ends
<1>17. ASSUME NEW t \in Tasks, TorchKilled(t) PROVE RunType'
      BY <1>17 DEF TorchKilled
<1>18. ASSUME HostLost PROVE RunType'
      BY <1>18 DEF HostLost
<1>19. [Next]_vars /\ ~UNCHANGED runVars =>
        \/ \E w \in Launchers : Reap(w)
        \/ \E w \in Launchers : Start(w)
        \/ \E w \in Launchers : Receive(w)
        \/ \E w \in Launchers : Interrupt(w)
        \/ \E w \in Launchers : LauncherDies(w)
        \/ \E t \in Tasks : Lock(t)
        \/ \E t \in Tasks : TakeGpu(t)
        \/ \E t \in Tasks : Refused(t)
        \/ \E t \in Tasks : Launch(t)
        \/ \E t \in Tasks : Measure(t)
        \/ \E t \in Tasks : Publish(t)
        \/ \E t \in Tasks : Return(t)
        \/ \E t \in Tasks : RunFails(t)
        \/ \E t \in Tasks : CollectKilled(t)
        \/ \E t \in Tasks : CollectStopped(t)
        \/ \E t \in Tasks : TorchKilled(t)
        \/ HostLost
      BY DEF vars, launcherVars, runVars, fileVars, Next, LauncherStep, TaskStep, Failure,
         Look, Certify, Replenish, PassOver, ProbeGpu, Unavailable, EndSweep, Restart, Try
<1> QED
    BY <1>1, <1>2, <1>3, <1>4, <1>5, <1>6, <1>7, <1>8, <1>9, <1>10, <1>11, <1>12, <1>13,
       <1>14, <1>15, <1>16, <1>17, <1>18, <1>19

\* As above, for the next group of variables.
LEMMA FileTyping ==
    ASSUME InformationAssumption, TypeOK, Process, [Next]_vars
    PROVE  FileType'
<1> USE DEF TypeOK, fileVars, FileType, InformationAssumption
<1>1. CASE UNCHANGED fileVars
      BY <1>1 DEF fileVars
<1>2. ASSUME NEW t \in Tasks, Measure(t) PROVE FileType'
      BY <1>2 DEF Measure, TypeOK
<1>3. ASSUME NEW t \in Tasks, Publish(t) PROVE FileType'
      BY <1>3 DEF Publish, TypeOK
<1>4. [Next]_vars /\ ~UNCHANGED fileVars =>
        \/ \E t \in Tasks : Measure(t)
        \/ \E t \in Tasks : Publish(t)
      BY ZenonT(40) DEF vars, launcherVars, runVars, fileVars, Next, LauncherStep, TaskStep, Failure,
         Look, Certify, Replenish, PassOver, ProbeGpu, Unavailable, Start, Receive,
         EndSweep, Try, Restart, Interrupt, LauncherDies, Lock, TakeGpu, Refused, Launch,
         Return, RunFails, CollectKilled, TorchKilled, HostLost, Reap, CollectStopped
<1> QED
    BY <1>1, <1>2, <1>3, <1>4

\* As above, for the next group of variables.
LEMMA LeaseTyping ==
    ASSUME InformationAssumption, TypeOK, Process, [Next]_vars
    PROVE  LeaseType'
<1> USE DEF TypeOK, LeaseType, Lease, Release
<1>1. CASE UNCHANGED leased
      BY <1>1
<1>2. ASSUME NEW w \in Launchers, ProbeGpu(w) PROVE LeaseType'
      <2>1. CASE missing(w) = {}
            BY <1>2, <2>1 DEF ProbeGpu
      <2>2. CASE missing(w) # {} /\ Lease(w)
            BY <2>2, LeaseTaken DEF InformationAssumption, Tasks
      <2>3. CASE UNCHANGED leased
            BY <2>3
      <2> QED
          BY <1>2, <2>1, <2>2, <2>3 DEF ProbeGpu
<1>3. ASSUME NEW w \in Launchers, Unavailable(w) PROVE LeaseType'
      BY <1>3 DEF Unavailable
<1>4. ASSUME NEW w \in Launchers, Reap(w) PROVE LeaseType'
      BY <1>4 DEF Reap
<1>5. ASSUME NEW w \in Launchers, Interrupt(w) PROVE LeaseType'
      BY <1>5 DEF Interrupt
<1>6. ASSUME NEW w \in Launchers, LauncherDies(w) PROVE LeaseType'
      BY <1>6 DEF LauncherDies
<1>7. ASSUME NEW t \in Tasks, TakeGpu(t) PROVE LeaseType'
      <2>1. CASE missing(t) # {} /\ Lease(t)
            <3>1. home[t] \in Launchers
                  BY <1>7 DEF TakeGpu, Process, Attempts, collecting
            <3> QED
                BY <2>1, <3>1, LeaseTaken
      <2>2. CASE UNCHANGED leased
            BY <2>2
      <2> QED
          BY <1>7, <2>1, <2>2 DEF TakeGpu
<1>8. ASSUME NEW t \in Tasks, Refused(t) PROVE LeaseType'
      BY <1>8 DEF Refused
<1>9. ASSUME NEW t \in Tasks, Launch(t) PROVE LeaseType'
      BY <1>9 DEF Launch
<1>10. ASSUME NEW t \in Tasks, Return(t) PROVE LeaseType'
      BY <1>10 DEF Return
<1>11. ASSUME NEW t \in Tasks, CollectKilled(t) PROVE LeaseType'
      BY <1>11 DEF CollectKilled, ends
<1>12. ASSUME NEW t \in Tasks, CollectStopped(t) PROVE LeaseType'
      BY <1>12 DEF CollectStopped, ends
<1>13. ASSUME NEW t \in Tasks, TorchKilled(t) PROVE LeaseType'
      BY <1>13 DEF TorchKilled
<1>14. ASSUME HostLost PROVE LeaseType'
      BY <1>14 DEF HostLost
<1>15. [Next]_vars /\ ~UNCHANGED leased =>
        \/ \E w \in Launchers : ProbeGpu(w)
        \/ \E w \in Launchers : Unavailable(w)
        \/ \E w \in Launchers : Reap(w)
        \/ \E w \in Launchers : Interrupt(w)
        \/ \E w \in Launchers : LauncherDies(w)
        \/ \E t \in Tasks : TakeGpu(t)
        \/ \E t \in Tasks : Refused(t)
        \/ \E t \in Tasks : Launch(t)
        \/ \E t \in Tasks : Return(t)
        \/ \E t \in Tasks : CollectKilled(t)
        \/ \E t \in Tasks : CollectStopped(t)
        \/ \E t \in Tasks : TorchKilled(t)
        \/ HostLost
      BY DEF vars, launcherVars, runVars, fileVars, Next, LauncherStep, TaskStep, Failure,
         Look, Certify, Replenish, PassOver, Start, Receive, EndSweep, Restart, Lock,
         Measure, RunFails, Try, Publish
<1> QED
    BY <1>1, <1>2, <1>3, <1>4, <1>5, <1>6, <1>7, <1>8, <1>9, <1>10, <1>11, <1>12, <1>13,
       <1>14, <1>15

\* Together: types are kept.
LEMMA Typed ==
    ASSUME InformationAssumption, TypeOK, Process, [Next]_vars
    PROVE  TypeOK'
BY LauncherTyping, ReceiptTyping, RunTyping, FileTyping, LeaseTyping DEF TypeOK

-----------------------------------------------------------------------------
(* Processes.                                                               *)

\* A launcher that moves on at its own task, or gives it up, disturbs no other.
LEMMA ClaimMoves ==
    ASSUME TypeOK, Process, NEW w \in Launchers, NEW p \in Places,
           p \in Holding => pc[w] \in Holding /\ p # "wait",
           pc[w] # "wait" \/ p \notin Holding,
           pc' = [pc EXCEPT ![w] = p],
           at' = at \/ (p \notin Holding /\ \A v \in Launchers \ {w} : at'[v] = at[v]),
           UNCHANGED collect
    PROVE  ClaimsExclude'
BY DEF TypeOK, LauncherType, Process, ClaimsExclude, Holding, collecting, Places, Ended

\* A sweep that goes on to the next task holds none.
LEMMA CountMoves ==
    ASSUME TypeOK, Process, NEW w \in Launchers, NEW mark, Count(w, mark), UNCHANGED collect
    PROVE  ClaimsExclude'
<1>1. pc' = [pc EXCEPT ![w] = "sweep"] /\ \A v \in Launchers \ {w} : at'[v] = at[v]
      BY DEF Count, TypeOK, LauncherType
<1> QED
    BY <1>1, ClaimMoves DEF Places, Holding

\* Claims stay exclusive.
LEMMA ClaimsKept ==
    ASSUME InformationAssumption, TypeOK, Process, [Next]_vars
    PROVE  ClaimsExclude'
<1> USE DEF TypeOK, LauncherType, RunType, Process, ClaimsExclude, Holding, collecting,
        become, Places, Ended, CollectStates, Count, Again, Tasks, InformationAssumption,
        launcherVars, runVars
<1>1. CASE UNCHANGED <<pc, at, collect>>
      BY <1>1
<1>2. ASSUME NEW w \in Launchers, Look(w) PROVE ClaimsExclude'
      <2>1. CASE claimed(at[w]) \/ surviving(at[w])
            BY <1>2, <2>1, CountMoves DEF Look
      <2>2. CASE ~(claimed(at[w]) \/ surviving(at[w]))
            <3>1. ~collecting(at[w]) /\ \A v \in Launchers : pc[v] \in Holding => at[v] # at[w]
                  BY <2>2 DEF claimed
            <3>2. pc' = [pc EXCEPT ![w] = "judge"] /\ UNCHANGED <<at, collect>> /\ at[w] \in Tasks
                  BY <1>2, <2>2 DEF Look
            <3>3. \A v \in Launchers : v # w => pc'[v] = pc[v]
                  BY <3>2
            <3>4. pc'[w] = "judge"
                  BY <3>2
            <3> QED
                BY <3>1, <3>2, <3>3, <3>4
      <2> QED
          BY <2>1, <2>2
<1>3. ASSUME NEW w \in Launchers, Certify(w) PROVE ClaimsExclude'
      BY <1>3 DEF Certify
<1>4. ASSUME NEW w \in Launchers, PassOver(w) PROVE ClaimsExclude'
      BY <1>4, CountMoves DEF PassOver
<1>5. ASSUME NEW w \in Launchers, ProbeGpu(w) PROVE ClaimsExclude'
      <2>1. CASE pc' = [pc EXCEPT ![w] = "start"]
            BY <1>5, <2>1, ClaimMoves DEF ProbeGpu
      <2>2. CASE pc' = [pc EXCEPT ![w] = "refused"]
            BY <1>5, <2>2, ClaimMoves DEF ProbeGpu
      <2>3. CASE UNCHANGED pc
            BY <1>5, <2>3 DEF ProbeGpu
      <2> QED
          BY <1>5, <2>1, <2>2, <2>3 DEF ProbeGpu
<1>6. ASSUME NEW w \in Launchers, Unavailable(w) PROVE ClaimsExclude'
      BY <1>6 DEF Unavailable
<1>7. ASSUME NEW w \in Launchers, Start(w) PROVE ClaimsExclude'
      BY <1>7, SMTT(30) DEF Start, Attempts
<1>8. ASSUME NEW w \in Launchers, Receive(w) PROVE ClaimsExclude'
      BY <1>8 DEF Receive
<1>9. ASSUME NEW w \in Launchers, EndSweep(w) PROVE ClaimsExclude'
      BY <1>9 DEF EndSweep
<1>10. ASSUME NEW w \in Launchers, Try(w) PROVE ClaimsExclude'
      BY <1>10 DEF Try, Reap
<1>11. ASSUME NEW w \in Launchers, Reap(w) PROVE ClaimsExclude'
      BY <1>11 DEF Reap
<1>12. ASSUME NEW w \in Launchers, Restart(w) PROVE ClaimsExclude'
      BY <1>12 DEF Restart
<1>13. ASSUME NEW w \in Launchers, Interrupt(w) PROVE ClaimsExclude'
      BY <1>13 DEF Interrupt
<1>14. ASSUME NEW w \in Launchers, LauncherDies(w) PROVE ClaimsExclude'
      BY <1>14 DEF LauncherDies
<1>15. ASSUME NEW t \in Tasks, Lock(t) PROVE ClaimsExclude'
      BY <1>15 DEF Lock
<1>16. ASSUME NEW t \in Tasks, TakeGpu(t) PROVE ClaimsExclude'
      BY <1>16, SMTT(20) DEF TakeGpu
<1>17. ASSUME NEW t \in Tasks, Refused(t) PROVE ClaimsExclude'
      BY <1>17 DEF Refused
<1>18. ASSUME NEW t \in Tasks, Launch(t) PROVE ClaimsExclude'
      BY <1>18 DEF Launch
<1>19. ASSUME NEW t \in Tasks, Return(t) PROVE ClaimsExclude'
      BY <1>19 DEF Return
<1>20. ASSUME NEW t \in Tasks, CollectKilled(t) PROVE ClaimsExclude'
      BY <1>20 DEF CollectKilled, ends
<1>21. ASSUME NEW t \in Tasks, CollectStopped(t) PROVE ClaimsExclude'
      BY <1>21 DEF CollectStopped, ends
<1>22. ASSUME NEW t \in Tasks, TorchKilled(t) PROVE ClaimsExclude'
      BY <1>22 DEF TorchKilled
<1>23. ASSUME HostLost PROVE ClaimsExclude'
      BY <1>23 DEF HostLost
<1>24. [Next]_vars /\ ~UNCHANGED <<pc, at, collect>> =>
        \/ \E w \in Launchers : Look(w)
        \/ \E w \in Launchers : Certify(w)
        \/ \E w \in Launchers : PassOver(w)
        \/ \E w \in Launchers : ProbeGpu(w)
        \/ \E w \in Launchers : Unavailable(w)
        \/ \E w \in Launchers : Start(w)
        \/ \E w \in Launchers : Receive(w)
        \/ \E w \in Launchers : EndSweep(w)
        \/ \E w \in Launchers : Try(w)
        \/ \E w \in Launchers : Reap(w)
        \/ \E w \in Launchers : Restart(w)
        \/ \E w \in Launchers : Interrupt(w)
        \/ \E w \in Launchers : LauncherDies(w)
        \/ \E t \in Tasks : Lock(t)
        \/ \E t \in Tasks : TakeGpu(t)
        \/ \E t \in Tasks : Refused(t)
        \/ \E t \in Tasks : Launch(t)
        \/ \E t \in Tasks : Return(t)
        \/ \E t \in Tasks : CollectKilled(t)
        \/ \E t \in Tasks : CollectStopped(t)
        \/ \E t \in Tasks : TorchKilled(t)
        \/ HostLost
      BY DEF vars, launcherVars, runVars, fileVars, Next, LauncherStep, TaskStep, Failure,
         Replenish, Measure, RunFails, Publish
<1> QED
    BY <1>1, <1>2, <1>3, <1>4, <1>5, <1>6, <1>7, <1>8, <1>9, <1>10, <1>11, <1>12, <1>13,
       <1>14, <1>15, <1>16, <1>17, <1>18, <1>19, <1>20, <1>21, <1>22, <1>23, <1>24

\* What was reaped stays away until its launcher starts it.
LEMMA ClearedKept ==
    ASSUME InformationAssumption, TypeOK, Process, [Next]_vars
    PROVE  Cleared'
<1> USE DEF TypeOK, LauncherType, RunType, Process, ClaimsExclude, Cleared, Holding,
        collecting, become, Places, Ended, Count, Again, Tasks, InformationAssumption,
        launcherVars, runVars, fileVars
<1>1. CASE UNCHANGED <<pc, at, torch, rank, endpoint>>
      BY <1>1
<1>2. ASSUME NEW w \in Launchers, Look(w) PROVE Cleared'
      BY <1>2 DEF Look
<1>3. ASSUME NEW w \in Launchers, Certify(w) PROVE Cleared'
      BY <1>3 DEF Certify
<1>4. ASSUME NEW w \in Launchers, PassOver(w) PROVE Cleared'
      BY <1>4, ZenonT(60) DEF PassOver
<1>5. ASSUME NEW w \in Launchers, ProbeGpu(w) PROVE Cleared'
      BY <1>5 DEF ProbeGpu
<1>6. ASSUME NEW w \in Launchers, Unavailable(w) PROVE Cleared'
      BY <1>6 DEF Unavailable
<1>7. ASSUME NEW w \in Launchers, Start(w) PROVE Cleared'
      BY <1>7 DEF Start
<1>8. ASSUME NEW w \in Launchers, Receive(w) PROVE Cleared'
      BY <1>8 DEF Receive
<1>9. ASSUME NEW w \in Launchers, EndSweep(w) PROVE Cleared'
      BY <1>9 DEF EndSweep
<1>10. ASSUME NEW w \in Launchers, Try(w) PROVE Cleared'
      BY <1>10 DEF Try, Reap, orphans
<1>11. ASSUME NEW w \in Launchers, Reap(w) PROVE Cleared'
      BY <1>11 DEF Reap, orphans
<1>12. ASSUME NEW w \in Launchers, Restart(w) PROVE Cleared'
      BY <1>12 DEF Restart
<1>13. ASSUME NEW w \in Launchers, Interrupt(w) PROVE Cleared'
      BY <1>13 DEF Interrupt
<1>14. ASSUME NEW w \in Launchers, LauncherDies(w) PROVE Cleared'
      BY <1>14 DEF LauncherDies
<1>15. ASSUME NEW t \in Tasks, Launch(t) PROVE Cleared'
      BY <1>15 DEF Launch
<1>16. ASSUME NEW t \in Tasks, Measure(t) PROVE Cleared'
      BY <1>16 DEF Measure
<1>17. ASSUME NEW t \in Tasks, Publish(t) PROVE Cleared'
      BY <1>17 DEF Publish
<1>18. ASSUME NEW t \in Tasks, Return(t) PROVE Cleared'
      BY <1>18 DEF Return
<1>19. ASSUME NEW t \in Tasks, RunFails(t) PROVE Cleared'
      BY <1>19 DEF RunFails
<1>20. ASSUME NEW t \in Tasks, TorchKilled(t) PROVE Cleared'
      BY <1>20 DEF TorchKilled
<1>21. ASSUME NEW t \in Tasks, CollectStopped(t) PROVE Cleared'
      BY <1>21 DEF CollectStopped, ends
<1>22. ASSUME HostLost PROVE Cleared'
      BY <1>22 DEF HostLost
<1>23. [Next]_vars /\ ~UNCHANGED <<pc, at, torch, rank, endpoint>> =>
        \/ \E w \in Launchers : Look(w)
        \/ \E w \in Launchers : Certify(w)
        \/ \E w \in Launchers : PassOver(w)
        \/ \E w \in Launchers : ProbeGpu(w)
        \/ \E w \in Launchers : Unavailable(w)
        \/ \E w \in Launchers : Start(w)
        \/ \E w \in Launchers : Receive(w)
        \/ \E w \in Launchers : EndSweep(w)
        \/ \E w \in Launchers : Try(w)
        \/ \E w \in Launchers : Reap(w)
        \/ \E w \in Launchers : Restart(w)
        \/ \E w \in Launchers : Interrupt(w)
        \/ \E w \in Launchers : LauncherDies(w)
        \/ \E t \in Tasks : Launch(t)
        \/ \E t \in Tasks : Measure(t)
        \/ \E t \in Tasks : Publish(t)
        \/ \E t \in Tasks : Return(t)
        \/ \E t \in Tasks : RunFails(t)
        \/ \E t \in Tasks : TorchKilled(t)
        \/ \E t \in Tasks : CollectStopped(t)
        \/ HostLost
      BY DEF vars, launcherVars, runVars, fileVars, Next, LauncherStep, TaskStep, Failure,
         Replenish, Lock, TakeGpu, Refused, CollectKilled
<1> QED
    BY <1>1, <1>2, <1>3, <1>4, <1>5, <1>6, <1>7, <1>8, <1>9, <1>10, <1>11, <1>12, <1>13,
       <1>14, <1>15, <1>16, <1>17, <1>18, <1>19, <1>20, <1>21, <1>22, <1>23

\* collect, torchrun and ranks of a task stay in step.
LEMMA AttemptsKept ==
    ASSUME InformationAssumption, TypeOK, Process, [Next]_vars
    PROVE  Attempts'
<1> USE DEF TypeOK, LauncherType, RunType, Process, ClaimsExclude, Cleared, Attempts, Holding,
        collecting, become, launcherVars, runVars, fileVars
<1>1. CASE UNCHANGED runVars
      BY <1>1
<1>2. ASSUME NEW w \in Launchers, Reap(w) PROVE Attempts'
      BY <1>2 DEF Reap, orphans
<1>3. ASSUME NEW w \in Launchers, Start(w) PROVE Attempts'
      BY <1>3 DEF Start
<1>4. ASSUME NEW w \in Launchers, Receive(w) PROVE Attempts'
      BY <1>4 DEF Receive
<1>5. ASSUME NEW w \in Launchers, Interrupt(w) PROVE Attempts'
      BY <1>5 DEF Interrupt
<1>6. ASSUME NEW w \in Launchers, LauncherDies(w) PROVE Attempts'
      BY <1>6 DEF LauncherDies
<1>7. ASSUME NEW t \in Tasks, Lock(t) PROVE Attempts'
      BY <1>7 DEF Lock
<1>8. ASSUME NEW t \in Tasks, TakeGpu(t) PROVE Attempts'
      BY <1>8 DEF TakeGpu
<1>9. ASSUME NEW t \in Tasks, Refused(t) PROVE Attempts'
      BY <1>9 DEF Refused
<1>10. ASSUME NEW t \in Tasks, Launch(t) PROVE Attempts'
      BY <1>10 DEF Launch, orphans
<1>11. ASSUME NEW t \in Tasks, Measure(t) PROVE Attempts'
      BY <1>11 DEF Measure
<1>12. ASSUME NEW t \in Tasks, Publish(t) PROVE Attempts'
      BY <1>12 DEF Publish
<1>13. ASSUME NEW t \in Tasks, Return(t) PROVE Attempts'
      BY <1>13 DEF Return
<1>14. ASSUME NEW t \in Tasks, RunFails(t) PROVE Attempts'
      BY <1>14 DEF RunFails
<1>15. ASSUME NEW t \in Tasks, CollectKilled(t) PROVE Attempts'
      BY <1>15 DEF CollectKilled, ends
<1>16. ASSUME NEW t \in Tasks, CollectStopped(t) PROVE Attempts'
      BY <1>16 DEF CollectStopped, ends
<1>17. ASSUME NEW t \in Tasks, TorchKilled(t) PROVE Attempts'
      BY <1>17 DEF TorchKilled
<1>18. ASSUME HostLost PROVE Attempts'
      BY <1>18 DEF HostLost
<1>19. [Next]_vars /\ ~UNCHANGED runVars =>
        \/ \E w \in Launchers : Reap(w)
        \/ \E w \in Launchers : Start(w)
        \/ \E w \in Launchers : Receive(w)
        \/ \E w \in Launchers : Interrupt(w)
        \/ \E w \in Launchers : LauncherDies(w)
        \/ \E t \in Tasks : Lock(t)
        \/ \E t \in Tasks : TakeGpu(t)
        \/ \E t \in Tasks : Refused(t)
        \/ \E t \in Tasks : Launch(t)
        \/ \E t \in Tasks : Measure(t)
        \/ \E t \in Tasks : Publish(t)
        \/ \E t \in Tasks : Return(t)
        \/ \E t \in Tasks : RunFails(t)
        \/ \E t \in Tasks : CollectKilled(t)
        \/ \E t \in Tasks : CollectStopped(t)
        \/ \E t \in Tasks : TorchKilled(t)
        \/ HostLost
      BY DEF vars, launcherVars, runVars, fileVars, Next, LauncherStep, TaskStep, Failure,
         Look, Certify, Replenish, PassOver, ProbeGpu, Unavailable, EndSweep, Restart, Try
<1> QED
    BY <1>1, <1>2, <1>3, <1>4, <1>5, <1>6, <1>7, <1>8, <1>9, <1>10, <1>11, <1>12, <1>13,
       <1>14, <1>15, <1>16, <1>17, <1>18, <1>19

\* Together: claims and processes.
LEMMA ProcessesKept ==
    ASSUME InformationAssumption, TypeOK, Process, [Next]_vars
    PROVE  Process'
BY ClaimsKept, ClearedKept, AttemptsKept DEF Process

-----------------------------------------------------------------------------
(* Device leases.                                                           *)

Owners == Launchers \cup Tasks

\* Leases are given up all at once, or one is taken that nobody has.
GivesUp == \A a \in Owners : leased'[a] \in {leased[a], {}}
Takes(a) ==
    /\ taking(a) /\ ~refused(a) /\ missing(a) # {}
    /\ holders(next(a)) = {} /\ Lease(a)
    /\ UNCHANGED <<pc, collect, home, torch, rank>>

\* Every step gives leases up, keeps them, or takes a free one.
LEMMA LeaseEffect ==
    ASSUME InformationAssumption, TypeOK, Process, [Next]_vars
    PROVE  GivesUp \/ \E a \in Owners : Takes(a)
<1> USE DEF GivesUp, Release, Owners, TypeOK, LeaseType
<1>1. CASE UNCHANGED leased
      BY <1>1
<1>2. ASSUME NEW w \in Launchers, ProbeGpu(w) PROVE GivesUp \/ \E a \in Owners : Takes(a)
      <2>1. CASE missing(w) # {} /\ holders(next(w)) = {}
            <3>1. Lease(w) /\ UNCHANGED <<pc, collect, home, torch, rank>>
                  BY <1>2, <2>1 DEF ProbeGpu, runVars
            <3>2. w \in Launchers /\ pc[w] = "avail"
                  BY <1>2 DEF ProbeGpu
            <3>3. taking(w) /\ ~refused(w)
                  BY <3>2 DEF taking, refused, Probing
            <3> QED
                BY <2>1, <3>1, <3>3 DEF Takes
      <2>2. CASE ~(missing(w) # {} /\ holders(next(w)) = {})
            BY <1>2, <2>2 DEF ProbeGpu
      <2> QED
          BY <2>1, <2>2
<1>3. ASSUME NEW w \in Launchers, Unavailable(w) PROVE GivesUp \/ \E a \in Owners : Takes(a)
      BY <1>3 DEF Unavailable
<1>4. ASSUME NEW w \in Launchers, Reap(w) PROVE GivesUp \/ \E a \in Owners : Takes(a)
      BY <1>4 DEF Reap
<1>5. ASSUME NEW w \in Launchers, Interrupt(w) PROVE GivesUp \/ \E a \in Owners : Takes(a)
      BY <1>5 DEF Interrupt
<1>6. ASSUME NEW w \in Launchers, LauncherDies(w) PROVE GivesUp \/ \E a \in Owners : Takes(a)
      BY <1>6 DEF LauncherDies
<1>7. ASSUME NEW t \in Tasks, TakeGpu(t) PROVE GivesUp \/ \E a \in Owners : Takes(a)
      <2>1. CASE missing(t) # {} /\ holders(next(t)) = {}
            <3>1. Lease(t) /\ UNCHANGED <<pc, collect, home, torch, rank>>
                  BY <1>7, <2>1 DEF TakeGpu, launcherVars, become
            <3>2. t \notin Launchers /\ collect[t] = "gpu"
                  BY <1>7 DEF TakeGpu, InformationAssumption, Tasks
            <3>3. taking(t) /\ ~refused(t)
                  BY <3>2 DEF taking, refused
            <3> QED
                BY <2>1, <3>1, <3>3 DEF Takes
      <2>2. CASE ~(missing(t) # {} /\ holders(next(t)) = {})
            BY <1>7, <2>2 DEF TakeGpu
      <2> QED
          BY <2>1, <2>2
<1>8. ASSUME NEW t \in Tasks, Refused(t) PROVE GivesUp \/ \E a \in Owners : Takes(a)
      BY <1>8 DEF Refused
<1>9. ASSUME NEW t \in Tasks, Launch(t) PROVE GivesUp \/ \E a \in Owners : Takes(a)
      BY <1>9 DEF Launch
<1>10. ASSUME NEW t \in Tasks, Return(t) PROVE GivesUp \/ \E a \in Owners : Takes(a)
      BY <1>10 DEF Return
<1>11. ASSUME NEW t \in Tasks, CollectKilled(t) PROVE GivesUp \/ \E a \in Owners : Takes(a)
      BY <1>11 DEF CollectKilled, ends
<1>12. ASSUME NEW t \in Tasks, CollectStopped(t) PROVE GivesUp \/ \E a \in Owners : Takes(a)
      BY <1>12 DEF CollectStopped, ends
<1>13. ASSUME NEW t \in Tasks, TorchKilled(t) PROVE GivesUp \/ \E a \in Owners : Takes(a)
      BY <1>13 DEF TorchKilled
<1>14. ASSUME HostLost PROVE GivesUp \/ \E a \in Owners : Takes(a)
      BY <1>14 DEF HostLost
<1>15. [Next]_vars /\ ~UNCHANGED leased =>
        \/ \E w \in Launchers : ProbeGpu(w)
        \/ \E w \in Launchers : Unavailable(w)
        \/ \E w \in Launchers : Reap(w)
        \/ \E w \in Launchers : Interrupt(w)
        \/ \E w \in Launchers : LauncherDies(w)
        \/ \E t \in Tasks : TakeGpu(t)
        \/ \E t \in Tasks : Refused(t)
        \/ \E t \in Tasks : Launch(t)
        \/ \E t \in Tasks : Return(t)
        \/ \E t \in Tasks : CollectKilled(t)
        \/ \E t \in Tasks : CollectStopped(t)
        \/ \E t \in Tasks : TorchKilled(t)
        \/ HostLost
      BY DEF vars, launcherVars, runVars, fileVars, Next, LauncherStep, TaskStep, Failure,
         Look, Certify, Replenish, PassOver, Start, Receive, EndSweep, Restart, Lock,
         Measure, RunFails, Try, Publish
<1> QED
    BY <1>1, <1>2, <1>3, <1>4, <1>5, <1>6, <1>7, <1>8, <1>9, <1>10, <1>11, <1>12, <1>13,
       <1>14, <1>15

\* The lease that is taken is one of those that were missing, and the least.
LEMMA TakenFacts ==
    ASSUME InformationAssumption, TypeOK, Process, NEW a \in Owners, Takes(a)
    PROVE  /\ next(a) \in missing(a)
           /\ \A h \in missing(a) : next(a) <= h
           /\ \A b \in Owners : next(a) \notin leased[b]
           /\ leased'[a] = leased[a] \cup {next(a)}
           /\ \A b \in Owners \ {a} : leased'[b] = leased[b]
<1>1. a \in Tasks => home[a] \in Launchers
      <2> SUFFICES ASSUME a \in Tasks PROVE home[a] \in Launchers
          OBVIOUS
      <2>1. a \notin Launchers
            BY DEF InformationAssumption, Tasks
      <2> QED
          BY <2>1 DEF Takes, taking, Process, Attempts, collecting
<1>2. /\ next(a) \in missing(a)
      /\ \A h \in missing(a) : next(a) <= h
      BY <1>1, NextIsLeast DEF Takes, Owners
<1> HIDE DEF next
<1>3. \A b \in Owners : next(a) \notin leased[b]
      BY DEF Takes, holders, TypeOK, LeaseType, Owners
<1>4. /\ leased'[a] = leased[a] \cup {next(a)}
      /\ \A b \in Owners \ {a} : leased'[b] = leased[b]
      BY DEF Takes, Lease, TypeOK, LeaseType, Owners
<1> QED
    BY <1>2, <1>3, <1>4

\* A device lease keeps one holder.
LEMMA DisjointKept ==
    ASSUME InformationAssumption, TypeOK, Process, LeasesDisjoint, [Next]_vars
    PROVE  LeasesDisjoint'
<1>1. CASE GivesUp
      BY <1>1 DEF LeasesDisjoint, GivesUp, Owners
<1>2. ASSUME NEW a \in Owners, Takes(a) PROVE LeasesDisjoint'
      <2>1. PICK g : /\ \A b \in Owners : g \notin leased[b]
                     /\ leased'[a] = leased[a] \cup {g}
                     /\ \A b \in Owners \ {a} : leased'[b] = leased[b]
            BY <1>2, TakenFacts
      <2> SUFFICES ASSUME NEW b \in Owners, NEW c \in Owners, b # c
                   PROVE  leased'[b] \cap leased'[c] = {}
          BY DEF LeasesDisjoint, Owners
      <2>2. leased[b] \cap leased[c] = {}
            BY DEF LeasesDisjoint, Owners
      <2>3. CASE b = a
            BY <2>1, <2>2, <2>3
      <2>4. CASE c = a
            BY <2>1, <2>2, <2>4
      <2> QED
          BY <2>1, <2>2, <2>3, <2>4
<1> QED
    BY <1>1, <1>2, LeaseEffect


\* Leases given up are those of whoever stops probing or running.
LEMMA HoldersGivenUp ==
    ASSUME InformationAssumption, TypeOK, Process, LeaseHolders, GivesUp, [Next]_vars
    PROVE  LeaseHolders'
<1> USE DEF TypeOK, LauncherType, RunType, LeaseType, Process, Attempts, LeaseHolders,
        Probing, GivesUp, Owners, gpusOf, collecting, become, Release, Ended, Count, Again,
        launcherVars, runVars
<1>0. \A a \in Tasks : a \notin Launchers
      BY DEF InformationAssumption, Tasks
<1>1. CASE UNCHANGED <<pc, home, collect, torch, leased>>
      BY <1>1
<1>2. ASSUME NEW w \in Launchers, Look(w) PROVE LeaseHolders'
      <2>1. \A v \in Launchers : v # w => pc'[v] = pc[v]
            BY <1>2 DEF Look
      <2>2. leased[w] = {}
            BY <1>2 DEF Look
      <2>3. UNCHANGED <<collect, home, torch, leased>>
            BY <1>2 DEF Look
      <2> QED
          BY <2>1, <2>2, <2>3
<1>3. ASSUME NEW w \in Launchers, Certify(w) PROVE LeaseHolders'
      BY <1>3, <1>0 DEF Certify
<1>4. ASSUME NEW w \in Launchers, PassOver(w) PROVE LeaseHolders'
      BY <1>4, <1>0, ZenonT(60) DEF PassOver
<1>5. ASSUME NEW w \in Launchers, ProbeGpu(w) PROVE LeaseHolders'
      <2>1. CASE missing(w) = {}
            <3>1. UNCHANGED <<collect, home, torch>>
                  BY <1>5 DEF ProbeGpu
            <3>2. leased'[w] = {} /\ w \notin Tasks
                  BY <1>5, <1>0, <2>1 DEF ProbeGpu
            <3>3. /\ \A b \in Owners : b # w => leased'[b] = leased[b]
                  /\ \A v \in Launchers : v # w => pc'[v] = pc[v]
                  BY <1>5, <2>1 DEF ProbeGpu
            <3> QED
                BY <3>1, <3>2, <3>3
      <2>2. CASE missing(w) # {} /\ holders(next(w)) = {}
            <3>1. Lease(w) /\ UNCHANGED <<pc, collect, home, torch>>
                  BY <1>5, <2>2 DEF ProbeGpu
            <3>2. pc[w] \in Probing /\ w \notin Tasks
                  BY <1>5 DEF ProbeGpu, InformationAssumption, Tasks
            <3>3. \A b \in Owners : b # w => leased'[b] = leased[b]
                  BY <3>1 DEF Lease
            <3> QED
                BY <3>1, <3>2, <3>3
      <2>3. CASE missing(w) # {} /\ holders(next(w)) # {}
            BY <1>5, <2>3 DEF ProbeGpu
      <2> QED
          BY <2>1, <2>2, <2>3
<1>6. ASSUME NEW w \in Launchers, Unavailable(w) PROVE LeaseHolders'
      BY <1>6, <1>0 DEF Unavailable
<1>7. ASSUME NEW w \in Launchers, Start(w) PROVE LeaseHolders'
      BY <1>7, <1>0 DEF Start, Cleared, ClaimsExclude, Holding
<1>8. ASSUME NEW w \in Launchers, Receive(w) PROVE LeaseHolders'
      BY <1>8, <1>0, SMTT(60) DEF Receive
<1>9. ASSUME NEW w \in Launchers, EndSweep(w) PROVE LeaseHolders'
      BY <1>9, <1>0 DEF EndSweep
<1>10. ASSUME NEW w \in Launchers, Try(w) PROVE LeaseHolders'
      BY <1>10, <1>0 DEF Try, Reap, orphans
<1>11. ASSUME NEW w \in Launchers, Reap(w) PROVE LeaseHolders'
      BY <1>11, <1>0 DEF Reap, orphans
<1>12. ASSUME NEW w \in Launchers, Restart(w) PROVE LeaseHolders'
      BY <1>12, <1>0 DEF Restart
<1>13. ASSUME NEW w \in Launchers, Interrupt(w) PROVE LeaseHolders'
      BY <1>13, <1>0, ZenonT(60) DEF Interrupt
<1>14. ASSUME NEW w \in Launchers, LauncherDies(w) PROVE LeaseHolders'
      BY <1>14, <1>0 DEF LauncherDies
<1>15. ASSUME NEW t \in Tasks, Lock(t) PROVE LeaseHolders'
      BY <1>15, <1>0 DEF Lock
<1>16. ASSUME NEW t \in Tasks, TakeGpu(t) PROVE LeaseHolders'
      <2>1. CASE missing(t) = {}
            <3>1. gpusOf(t) \subseteq leased[t]
                  BY <2>1 DEF missing, allocation, InformationAssumption, Tasks
            <3> QED
                BY <1>16, <2>1, <3>1 DEF TakeGpu
      <2>2. CASE missing(t) # {} /\ holders(next(t)) = {}
            <3>1. Lease(t) /\ UNCHANGED <<pc, collect, home, torch>>
                  BY <1>16, <2>2 DEF TakeGpu
            <3>2. collect[t] = "gpu" /\ t \notin torch /\ t \notin Launchers
                  BY <1>16 DEF TakeGpu, InformationAssumption, Tasks
            <3>3. \A b \in Owners : b # t => leased'[b] = leased[b]
                  BY <3>1 DEF Lease
            <3> QED
                BY <3>1, <3>2, <3>3
      <2>3. CASE missing(t) # {} /\ holders(next(t)) # {}
            BY <1>16, <2>3 DEF TakeGpu
      <2> QED
          BY <2>1, <2>2, <2>3
<1>17. ASSUME NEW t \in Tasks, Refused(t) PROVE LeaseHolders'
      BY <1>17, <1>0 DEF Refused
<1>18. ASSUME NEW t \in Tasks, Launch(t) PROVE LeaseHolders'
      BY <1>18, <1>0 DEF Launch, orphans
<1>19. ASSUME NEW t \in Tasks, Return(t) PROVE LeaseHolders'
      BY <1>19, <1>0 DEF Return
<1>20. ASSUME NEW t \in Tasks, CollectKilled(t) PROVE LeaseHolders'
      BY <1>20, <1>0 DEF CollectKilled, ends
<1>21. ASSUME NEW t \in Tasks, CollectStopped(t) PROVE LeaseHolders'
      BY <1>21, <1>0 DEF CollectStopped, ends
<1>22. ASSUME NEW t \in Tasks, TorchKilled(t) PROVE LeaseHolders'
      BY <1>22, <1>0 DEF TorchKilled
<1>23. ASSUME HostLost PROVE LeaseHolders'
      BY <1>23, <1>0 DEF HostLost
<1>24. [Next]_vars /\ ~UNCHANGED <<pc, home, collect, torch, leased>> =>
        \/ \E w \in Launchers : Look(w)
        \/ \E w \in Launchers : Certify(w)
        \/ \E w \in Launchers : PassOver(w)
        \/ \E w \in Launchers : ProbeGpu(w)
        \/ \E w \in Launchers : Unavailable(w)
        \/ \E w \in Launchers : Start(w)
        \/ \E w \in Launchers : Receive(w)
        \/ \E w \in Launchers : EndSweep(w)
        \/ \E w \in Launchers : Try(w)
        \/ \E w \in Launchers : Reap(w)
        \/ \E w \in Launchers : Restart(w)
        \/ \E w \in Launchers : Interrupt(w)
        \/ \E w \in Launchers : LauncherDies(w)
        \/ \E t \in Tasks : Lock(t)
        \/ \E t \in Tasks : TakeGpu(t)
        \/ \E t \in Tasks : Refused(t)
        \/ \E t \in Tasks : Launch(t)
        \/ \E t \in Tasks : Return(t)
        \/ \E t \in Tasks : CollectKilled(t)
        \/ \E t \in Tasks : CollectStopped(t)
        \/ \E t \in Tasks : TorchKilled(t)
        \/ HostLost
      BY DEF vars, launcherVars, runVars, fileVars, Next, LauncherStep, TaskStep, Failure,
         Replenish, Measure, RunFails, Publish
<1> QED
    BY <1>1, <1>2, <1>3, <1>4, <1>5, <1>6, <1>7, <1>8, <1>9, <1>10, <1>11, <1>12, <1>13,
       <1>14, <1>15, <1>16, <1>17, <1>18, <1>19, <1>20, <1>21, <1>22, <1>23, <1>24

\* Leases stay with those who probe, collect or run.
LEMMA HoldersKept ==
    ASSUME InformationAssumption, TypeOK, Process, LeaseHolders, [Next]_vars
    PROVE  LeaseHolders'
<1>1. ASSUME NEW a \in Owners, Takes(a) PROVE LeaseHolders'
      <2>1. \A b \in Owners : b # a => leased'[b] = leased[b]
            BY <1>1, TakenFacts
      <2>2. leased[a] \subseteq leased'[a]
            BY <1>1, TakenFacts
      <2>3. a \in Launchers => pc[a] \in Probing
            BY <1>1 DEF Takes, taking
      <2>4. a \in Tasks => collect[a] \in {"gpu", "refused"}
            BY <1>1 DEF Takes, taking, InformationAssumption, Tasks
      <2>5. UNCHANGED <<pc, collect, home, torch>>
            BY <1>1 DEF Takes
      <2> QED
          BY <2>1, <2>2, <2>3, <2>4, <2>5 DEF LeaseHolders, Owners, gpusOf
<1>2. CASE GivesUp
      BY <1>2, HoldersGivenUp
<1> QED
    BY <1>1, <1>2, LeaseEffect


\* Who takes leases now either begins without any or goes on with what it had.
Begins(a) == leased'[a] = {} /\ ~refused(a)'
GoesOn(a) ==
    /\ taking(a) /\ leased'[a] = leased[a]
    /\ a \in Tasks => home'[a] = home[a]
    /\ refused(a)' => refused(a) \/ missing(a) # {}

TakersKept == \A a \in Owners : taking(a)' => Begins(a) \/ GoesOn(a)

\* Steps that take no lease do not change the order in which they are taken.
LEMMA TakersGoOn ==
    ASSUME InformationAssumption, TypeOK, Process, LeaseHolders, GivesUp, [Next]_vars
    PROVE  TakersKept
<1> USE DEF TypeOK, LauncherType, RunType, LeaseType, Process, Attempts, LeaseHolders,
        Probing, GivesUp, Owners, TakersKept, Begins, GoesOn, taking, refused, collecting, become,
        Release, Ended, Count, Again, launcherVars, runVars
<1>0. \A a \in Tasks : a \notin Launchers
      BY DEF InformationAssumption, Tasks
<1>1. CASE UNCHANGED <<pc, home, collect, leased>>
      BY <1>1
<1>2. ASSUME NEW w \in Launchers, Look(w) PROVE TakersKept
      BY <1>2, <1>0 DEF Look
<1>3. ASSUME NEW w \in Launchers, Certify(w) PROVE TakersKept
      BY <1>3, <1>0 DEF Certify
<1>4. ASSUME NEW w \in Launchers, PassOver(w) PROVE TakersKept
      BY <1>4, <1>0 DEF PassOver
<1>5. ASSUME NEW w \in Launchers, ProbeGpu(w) PROVE TakersKept
      <2>1. /\ UNCHANGED <<collect, home>> /\ w \notin Tasks /\ pc[w] = "avail"
            /\ \A v \in Launchers : v # w => pc'[v] = pc[v]
            BY <1>5, <1>0 DEF ProbeGpu
      <2>2. \A b \in Owners : b # w => leased'[b] = leased[b]
            BY <1>5 DEF ProbeGpu, Lease
      <2>3. \/ pc'[w] = "start"
            \/ pc'[w] = "avail"
            \/ pc'[w] = "refused" /\ leased'[w] = leased[w] /\ missing(w) # {}
            BY <1>5 DEF ProbeGpu
      <2>4. leased'[w] \in {leased[w], {}}
            OBVIOUS
      <2> QED
          BY <1>0, <2>1, <2>2, <2>3, <2>4
<1>6. ASSUME NEW w \in Launchers, Unavailable(w) PROVE TakersKept
      BY <1>6, <1>0 DEF Unavailable
<1>7. ASSUME NEW w \in Launchers, Start(w) PROVE TakersKept
      BY <1>7, <1>0 DEF Start, Cleared, ClaimsExclude, Holding
<1>8. ASSUME NEW w \in Launchers, Receive(w) PROVE TakersKept
      BY <1>8, <1>0 DEF Receive, ClaimsExclude, Holding
<1>9. ASSUME NEW w \in Launchers, EndSweep(w) PROVE TakersKept
      BY <1>9, <1>0 DEF EndSweep
<1>10. ASSUME NEW w \in Launchers, Try(w) PROVE TakersKept
      BY <1>10, <1>0 DEF Try, Reap, orphans
<1>11. ASSUME NEW w \in Launchers, Reap(w) PROVE TakersKept
      BY <1>11, <1>0 DEF Reap, orphans
<1>12. ASSUME NEW w \in Launchers, Restart(w) PROVE TakersKept
      BY <1>12, <1>0 DEF Restart
<1>13. ASSUME NEW w \in Launchers, Interrupt(w) PROVE TakersKept
      <2>1. /\ UNCHANGED home /\ pc'[w] = "interrupted" /\ collect'[at[w]] = "none"
            /\ \A v \in Launchers : v # w => pc'[v] = pc[v]
            /\ \A u \in Tasks : u # at[w] => collect'[u] = collect[u]
            BY <1>13 DEF Interrupt, ClaimsExclude, Holding
      <2>2. \A b \in Owners : b # at[w] => leased'[b] = leased[b]
            BY <1>13 DEF Interrupt
      <2>3. at[w] \in Tasks
            BY <1>13 DEF Interrupt, ClaimsExclude, Holding
      <2>4. ASSUME NEW b \in Launchers, taking(b)' PROVE GoesOn(b)
            <3>1. b # w /\ b \notin Tasks /\ b # at[w]
                  BY <1>0, <2>1, <2>3, <2>4
            <3>2. pc'[b] = pc[b] /\ leased'[b] = leased[b]
                  BY <2>1, <2>2, <3>1
            <3> QED
                BY <2>4, <3>1, <3>2
      <2>5. ASSUME NEW b \in Tasks, taking(b)' PROVE GoesOn(b)
            BY <1>0, <2>1, <2>2, <2>3, <2>5
      <2> QED
          BY <2>4, <2>5
<1>14. ASSUME NEW w \in Launchers, LauncherDies(w) PROVE TakersKept
      BY <1>14, <1>0 DEF LauncherDies
<1>15. ASSUME NEW t \in Tasks, Lock(t) PROVE TakersKept
      BY <1>15, <1>0 DEF Lock
<1>16. ASSUME NEW t \in Tasks, TakeGpu(t) PROVE TakersKept
      <2>1. /\ UNCHANGED <<pc, home>> /\ t \notin Launchers /\ collect[t] = "gpu"
            /\ \A u \in Tasks : u # t => collect'[u] = collect[u]
            BY <1>16, <1>0 DEF TakeGpu
      <2>2. \A b \in Owners : b # t => leased'[b] = leased[b]
            BY <1>16 DEF TakeGpu, Lease
      <2>3. \/ collect'[t] = "ready"
            \/ collect'[t] = "gpu"
            \/ collect'[t] = "refused" /\ leased'[t] = leased[t] /\ missing(t) # {}
            BY <1>16 DEF TakeGpu
      <2>4. leased'[t] \in {leased[t], {}}
            OBVIOUS
      <2> QED
          BY <1>0, <2>1, <2>2, <2>3, <2>4
<1>17. ASSUME NEW t \in Tasks, Refused(t) PROVE TakersKept
      BY <1>17, <1>0 DEF Refused
<1>18. ASSUME NEW t \in Tasks, Launch(t) PROVE TakersKept
      BY <1>18, <1>0 DEF Launch, orphans
<1>19. ASSUME NEW t \in Tasks, Return(t) PROVE TakersKept
      BY <1>19, <1>0 DEF Return
<1>20. ASSUME NEW t \in Tasks, CollectKilled(t) PROVE TakersKept
      BY <1>20, <1>0 DEF CollectKilled, ends
<1>21. ASSUME NEW t \in Tasks, CollectStopped(t) PROVE TakersKept
      BY <1>21, <1>0 DEF CollectStopped, ends
<1>22. ASSUME NEW t \in Tasks, TorchKilled(t) PROVE TakersKept
      BY <1>22, <1>0 DEF TorchKilled
<1>23. ASSUME HostLost PROVE TakersKept
      BY <1>23, <1>0 DEF HostLost
<1>24. [Next]_vars /\ ~UNCHANGED <<pc, home, collect, leased>> =>
        \/ \E w \in Launchers : Look(w)
        \/ \E w \in Launchers : Certify(w)
        \/ \E w \in Launchers : PassOver(w)
        \/ \E w \in Launchers : ProbeGpu(w)
        \/ \E w \in Launchers : Unavailable(w)
        \/ \E w \in Launchers : Start(w)
        \/ \E w \in Launchers : Receive(w)
        \/ \E w \in Launchers : EndSweep(w)
        \/ \E w \in Launchers : Try(w)
        \/ \E w \in Launchers : Reap(w)
        \/ \E w \in Launchers : Restart(w)
        \/ \E w \in Launchers : Interrupt(w)
        \/ \E w \in Launchers : LauncherDies(w)
        \/ \E t \in Tasks : Lock(t)
        \/ \E t \in Tasks : TakeGpu(t)
        \/ \E t \in Tasks : Refused(t)
        \/ \E t \in Tasks : Launch(t)
        \/ \E t \in Tasks : Return(t)
        \/ \E t \in Tasks : CollectKilled(t)
        \/ \E t \in Tasks : CollectStopped(t)
        \/ \E t \in Tasks : TorchKilled(t)
        \/ HostLost
      BY DEF vars, launcherVars, runVars, fileVars, Next, LauncherStep, TaskStep, Failure,
         Replenish, Measure, RunFails, Publish
<1> QED
    BY <1>1, <1>2, <1>3, <1>4, <1>5, <1>6, <1>7, <1>8, <1>9, <1>10, <1>11, <1>12, <1>13,
       <1>14, <1>15, <1>16, <1>17, <1>18, <1>19, <1>20, <1>21, <1>22, <1>23, <1>24

\* Leases are taken from the least GPU on.
LEMMA OrderKept ==
    ASSUME InformationAssumption, TypeOK, Process, LeaseHolders, TakenInOrder, [Next]_vars
    PROVE  TakenInOrder'
<1>1. ASSUME NEW a \in Owners, Takes(a) PROVE TakenInOrder'
      <2> SUFFICES ASSUME NEW b \in Owners, taking(b)'
                   PROVE  /\ leased'[b] \subseteq Range(allocation(b))'
                          /\ \A g \in leased'[b], h \in missing(b)' : g < h
                          /\ refused(b)' => missing(b)' # {}
          BY DEF TakenInOrder, Owners
      <2>1. /\ taking(b) /\ (refused(b)' <=> refused(b))
            /\ Range(allocation(b))' = Range(allocation(b))
            BY <1>1 DEF Takes, taking, refused, allocation, Range
      <2>2. /\ leased[b] \subseteq Range(allocation(b))
            /\ \A g \in leased[b], h \in missing(b) : g < h
            /\ refused(b) => missing(b) # {}
            BY <2>1 DEF TakenInOrder, Owners
      <2>3. CASE b # a
            <3>1. leased'[b] = leased[b]
                  BY <1>1, <2>3, TakenFacts
            <3>2. missing(b)' = missing(b)
                  BY <2>1, <3>1 DEF missing
            <3> QED
                BY <2>1, <2>2, <3>1, <3>2
      <2>4. CASE b = a
            <3>1. PICK g : /\ g \in missing(b)
                           /\ \A h \in missing(b) : g <= h
                           /\ leased'[b] = leased[b] \cup {g}
                  BY <1>1, <2>4, TakenFacts
            <3>2. missing(b)' = missing(b) \ {g}
                  BY <2>1, <3>1 DEF missing
            <3>3. missing(b) \in SUBSET Int
                  <4>1. b \in Tasks => home[b] \in Launchers
                        BY <2>1 DEF taking, InformationAssumption, Tasks, Process, Attempts,
                           collecting
                  <4>2. missing(b) \in SUBSET Gpus
                        BY <4>1, AllocationType DEF Owners
                  <4> QED
                      BY <4>2 DEF Gpus
            <3>4. ~refused(b)
                  BY <1>1, <2>4 DEF Takes
            <3>5. g \in Range(allocation(b))
                  BY <3>1 DEF missing
            <3> QED
                BY <2>1, <2>2, <3>1, <3>2, <3>3, <3>4, <3>5
      <2> QED
          BY <2>3, <2>4
<1>2. CASE GivesUp
      <2> SUFFICES ASSUME NEW b \in Owners, taking(b)'
                   PROVE  /\ leased'[b] \subseteq Range(allocation(b))'
                          /\ \A g \in leased'[b], h \in missing(b)' : g < h
                          /\ refused(b)' => missing(b)' # {}
          BY DEF TakenInOrder, Owners
      <2>1. CASE Begins(b)
            BY <2>1 DEF Begins
      <2>2. CASE GoesOn(b)
            <3>1. Range(allocation(b))' = Range(allocation(b))
                  BY <2>2 DEF GoesOn, allocation, Range, Owners
            <3>2. missing(b)' = missing(b)
                  BY <2>2, <3>1 DEF GoesOn, missing
            <3>3. /\ leased[b] \subseteq Range(allocation(b))
                  /\ \A g \in leased[b], h \in missing(b) : g < h
                  /\ refused(b) => missing(b) # {}
                  BY <2>2 DEF GoesOn, TakenInOrder, Owners
            <3> QED
                BY <2>2, <3>1, <3>2, <3>3 DEF GoesOn
      <2> QED
          BY <1>2, <2>1, <2>2, TakersGoOn DEF TakersKept
<1> QED
    BY <1>1, <1>2, LeaseEffect

\* Ranks are launched after all others on their GPUs are gone.
LEMMA ExclusiveKept ==
    ASSUME InformationAssumption, TypeOK, Process, LeasesDisjoint, LeaseHolders, GpuExclusive,
           [Next]_vars
    PROVE  GpuExclusive'
<1> USE DEF TypeOK, RunType, GpuExclusive, gpusOf
<1>1. CASE UNCHANGED <<home, rank>>
      BY <1>1
<1>2. ASSUME NEW w \in Launchers, Reap(w) PROVE GpuExclusive'
      BY <1>2 DEF Reap
<1>3. ASSUME NEW w \in Launchers, Start(w) PROVE GpuExclusive'
      BY <1>3 DEF Start, Process, Cleared, ClaimsExclude, Holding
<1>4. ASSUME NEW w \in Launchers, Receive(w) PROVE GpuExclusive'
      BY <1>4 DEF Receive
<1>5. ASSUME NEW w \in Launchers, Interrupt(w) PROVE GpuExclusive'
      BY <1>5 DEF Interrupt
<1>6. ASSUME NEW t \in Tasks, Launch(t) PROVE GpuExclusive'
      <2>1. /\ collect[t] = "ready" /\ gpusOf(t) \subseteq leased[t] /\ UNCHANGED home
            BY <1>6 DEF Launch, LeaseHolders
      <2>2. \A u \in Tasks : u # t /\ rank'[u] # "none" => collecting(u) /\ rank[u] # "none"
            BY <1>6 DEF Launch, orphans
      <2>3. \A u \in Tasks : collecting(u) /\ rank[u] # "none" => gpusOf(u) \subseteq leased[u]
            BY DEF Process, Attempts, LeaseHolders
      <2>4. \A u \in Tasks : u # t => leased[u] \cap leased[t] = {}
            BY DEF LeasesDisjoint
      <2>5. \A u \in Tasks : u # t /\ rank'[u] # "none" => gpusOf(u) \cap gpusOf(t) = {}
            BY <2>1, <2>2, <2>3, <2>4
      <2>6. \A u, v \in Tasks : u # t /\ v # t /\ u # v /\ rank'[u] # "none" /\ rank'[v] # "none"
                => gpusOf(u) \cap gpusOf(v) = {}
            BY <2>2
      <2>7. \A u \in Tasks : gpusOf(u)' = gpusOf(u)
            BY <2>1 DEF Range
      <2> HIDE DEF gpusOf
      <2> QED
          BY <2>5, <2>6, <2>7
<1>7. ASSUME NEW t \in Tasks, Measure(t) PROVE GpuExclusive'
      <2>1. \A u \in Tasks : rank'[u] # "none" => rank[u] # "none"
            BY <1>7 DEF Measure
      <2>2. UNCHANGED home
            BY <1>7 DEF Measure
      <2> QED
          BY <2>1, <2>2
<1>8. ASSUME NEW t \in Tasks, Return(t) PROVE GpuExclusive'
      BY <1>8 DEF Return
<1>9. ASSUME NEW t \in Tasks, Publish(t) PROVE GpuExclusive'
      BY <1>9 DEF Publish
<1>10. ASSUME NEW t \in Tasks, RunFails(t) PROVE GpuExclusive'
      BY <1>10 DEF RunFails
<1>11. ASSUME NEW t \in Tasks, TorchKilled(t) PROVE GpuExclusive'
      BY <1>11 DEF TorchKilled
<1>12. ASSUME NEW t \in Tasks, CollectStopped(t) PROVE GpuExclusive'
      BY <1>12 DEF CollectStopped, ends
<1>13. ASSUME HostLost PROVE GpuExclusive'
      BY <1>13 DEF HostLost
<1>14. [Next]_vars /\ ~UNCHANGED <<home, rank>> =>
        \/ \E w \in Launchers : Reap(w)
        \/ \E w \in Launchers : Start(w)
        \/ \E w \in Launchers : Receive(w)
        \/ \E w \in Launchers : Interrupt(w)
        \/ \E t \in Tasks : Launch(t)
        \/ \E t \in Tasks : Measure(t)
        \/ \E t \in Tasks : Return(t)
        \/ \E t \in Tasks : Publish(t)
        \/ \E t \in Tasks : RunFails(t)
        \/ \E t \in Tasks : TorchKilled(t)
        \/ \E t \in Tasks : CollectStopped(t)
        \/ HostLost
      BY DEF vars, launcherVars, runVars, fileVars, Next, LauncherStep, TaskStep, Failure,
         Look, Certify, Replenish, PassOver, ProbeGpu, Unavailable, EndSweep, Restart,
         LauncherDies, Lock, TakeGpu, Refused, CollectKilled, Try
<1> QED
    BY <1>1, <1>2, <1>3, <1>4, <1>5, <1>6, <1>7, <1>8, <1>9, <1>10, <1>11, <1>12, <1>13,
       <1>14

\* Together: device leases.
LEMMA LeasesKept ==
    ASSUME InformationAssumption, TypeOK, Process, Leases, [Next]_vars
    PROVE  Leases'
BY DisjointKept, HoldersKept, OrderKept, ExclusiveKept DEF Leases

-----------------------------------------------------------------------------
(* Attempts, endpoints and ends.                                            *)


InterruptedFacts(t) ==
    /\ t \in Tasks /\ receipt[t].status = "running"
    /\ receipt'[t].status = "interrupted" /\ receipt'[t].attempt = receipt[t].attempt - 1
    /\ receipt'[t].old = receipt[t].old
    /\ \A u \in Tasks \ {t} : receipt'[u] = receipt[u]
    /\ UNCHANGED failures

\* What an interrupt does to the receipt.
LEMMA Interrupted ==
    ASSUME TypeOK, Process, ReceiptTruthful, NEW w \in Launchers, Interrupt(w)
    PROVE  InterruptedFacts(at[w])
<1> DEFINE t == at[w]
<1>1. t \in Tasks /\ receipt[t].status = "running" /\ UNCHANGED failures
      BY DEF Interrupt, Process, ClaimsExclude, Holding, ReceiptTruthful
<1>2. receipt' = [receipt EXCEPT ![t].status = "interrupted", ![t].attempt = @ - 1]
      BY DEF Interrupt
<1>3. receipt \in [Tasks -> Receipts] /\ "interrupted" \in Statuses
      BY DEF TypeOK, ReceiptType, Statuses
<1> HIDE DEF t
<1>4. PICK k \in Int : k = 1
      OBVIOUS
<1>5. receipt' = [receipt EXCEPT ![t].status = "interrupted", ![t].attempt = @ - k]
      BY <1>2, <1>4
<1>6. /\ receipt'[t].status = "interrupted"
      /\ receipt'[t].attempt = receipt[t].attempt - 1
      /\ receipt'[t].old = receipt[t].old
      /\ \A u \in Tasks \ {t} : receipt'[u] = receipt[u]
      BY <1>1, <1>3, <1>4, <1>5, ReceiptEdited
<1> QED
    BY <1>1, <1>6 DEF InterruptedFacts, t

\* Receipts stay true.
LEMMA ReceiptsKept ==
    ASSUME InformationAssumption, TypeOK, Process, ReceiptTruthful, [Next]_vars
    PROVE  ReceiptTruthful'
<1> USE DEF TypeOK, LauncherType, ReceiptType, Receipts, RunType, FileType, Process,
        ClaimsExclude, Cleared, Holding, Chosen, ReceiptTruthful, collecting, become, Ended, Count,
        Again, launcherVars, runVars, fileVars
<1>1. CASE UNCHANGED <<pc, at, receipt, collect, rank, phase, endpoint>>
      BY <1>1
<1>2. ASSUME NEW w \in Launchers, Look(w) PROVE ReceiptTruthful'
      <2>1. \A v \in Launchers : pc'[v] \in {"wait"} \cup Chosen => pc'[v] = pc[v] /\ at'[v] = at[v]
            BY <1>2, SMTT(30) DEF Look
      <2>2. UNCHANGED <<receipt, collect, rank, phase, endpoint>>
            BY <1>2 DEF Look
      <2> QED
          BY <2>1, <2>2, ZenonT(40)
<1>3. ASSUME NEW w \in Launchers, Certify(w) PROVE ReceiptTruthful'
      <2>1. PICK t \in Tasks : t = at[w]
            BY <1>3 DEF Certify
      <2>2. /\ t \in endpoint /\ receipt' = [receipt EXCEPT ![t].status = "complete"]
            /\ UNCHANGED <<collect, rank, phase, endpoint>>
            BY <1>3, <2>1 DEF Certify
      <2>3. \A v \in Launchers :
               /\ pc'[v] = "wait" => at'[v] \in Tasks \ {t} /\ receipt[at'[v]].status = "running"
               /\ pc'[v] \in Chosen =>
                     at'[v] \in Tasks \ {t} /\ receipt[at'[v]].status # "complete"
            BY <1>3, <2>1, SMTT(20) DEF Certify
      <2>4. /\ receipt'[t].status = "complete" /\ receipt'[t].old = receipt[t].old
            /\ \A u \in Tasks \ {t} : receipt'[u] = receipt[u]
            BY <2>2
      <2>5. \A u \in Tasks :
               /\ receipt'[u].status = "complete" => u \in endpoint
               /\ receipt'[u].old => receipt'[u].status \in {"failed", "complete"}
            BY <2>2, <2>4
      <2>6. \A v \in Launchers :
               /\ pc'[v] = "wait" => receipt'[at'[v]].status = "running"
               /\ pc'[v] \in Chosen => receipt'[at'[v]].status # "complete"
            <3>1. \A u \in Tasks \ {t} : receipt'[u].status = receipt[u].status
                  BY <2>4
            <3> QED
                BY <2>3, <3>1
      <2> QED
          BY <2>2, <2>5, <2>6
<1>4. ASSUME NEW w \in Launchers, Replenish(w) PROVE ReceiptTruthful'
      BY <1>4 DEF Replenish, Failed
<1>5. ASSUME NEW w \in Launchers, PassOver(w) PROVE ReceiptTruthful'
      <2>1. \A v \in Launchers : pc'[v] \in {"wait"} \cup Chosen => pc'[v] = pc[v] /\ at'[v] = at[v]
            BY <1>5, SMTT(30) DEF PassOver
      <2>2. UNCHANGED <<receipt, collect, rank, phase, endpoint>>
            BY <1>5 DEF PassOver
      <2> QED
          BY <2>1, <2>2, ZenonT(40)
<1>6. ASSUME NEW w \in Launchers, ProbeGpu(w) PROVE ReceiptTruthful'
      <2>1. \A v \in Launchers : pc'[v] = "wait" => pc[v] = "wait"
            BY <1>6, SMTT(30) DEF ProbeGpu
      <2>2. \A v \in Launchers : pc'[v] \in Chosen => pc[v] \in Chosen
            BY <1>6, SMTT(30) DEF ProbeGpu
      <2>3. UNCHANGED <<at, receipt, collect, rank, phase, endpoint>>
            BY <1>6 DEF ProbeGpu, launcherVars
      <2> QED
          BY <2>1, <2>2, <2>3, ZenonT(40)
<1>7. ASSUME NEW w \in Launchers, Unavailable(w) PROVE ReceiptTruthful'
      BY <1>7 DEF Unavailable
<1>8. ASSUME NEW w \in Launchers, Start(w) PROVE ReceiptTruthful'
      BY <1>8, SMTT(20) DEF Start, attempts
<1>9. ASSUME NEW w \in Launchers, Receive(w) PROVE ReceiptTruthful'
      <2>1. PICK t \in Tasks : t = at[w]
            BY <1>9 DEF Receive
      <2>2. /\ receipt'[t].status = outcome(t) /\ receipt'[t].old = receipt[t].old
            /\ \A u \in Tasks \ {t} : receipt'[u] = receipt[u]
            BY <1>9, <2>1, ReceivedFacts
      <2>3. /\ collect' = [collect EXCEPT ![t] = "none"]
            /\ pc[w] = "wait" /\ pc'[w] \in {"sweep", "interrupted"}
            /\ \A v \in Launchers : v # w => pc'[v] = pc[v]
            /\ at' = [at EXCEPT ![w] = 1]
            /\ UNCHANGED <<rank, phase, endpoint>>
            BY <1>9, <2>1 DEF Receive
      <2>4. \A v \in Launchers :
               /\ pc'[v] = "wait" => at'[v] \in Tasks \ {t} /\ receipt[at'[v]].status = "running"
               /\ pc'[v] \in Chosen =>
                     at'[v] \in Tasks \ {t} /\ receipt[at'[v]].status # "complete"
            <3>1. pc'[w] # "wait" /\ pc'[w] \notin Chosen
                  BY <2>3
            <3>2. ASSUME NEW v \in Launchers, v # w, pc[v] \in {"wait"} \cup Chosen
                  PROVE  at[v] \in Tasks \ {t}
                  BY <3>2, <2>1, <2>3
            <3>3. \A v \in Launchers : v # w => pc'[v] = pc[v] /\ at'[v] = at[v]
                  BY <2>3
            <3> QED
                BY <3>1, <3>2, <3>3, ZenonT(40)
      <2>5. \A u \in Tasks : collect'[u] = "ok" => collect[u] = "ok"
            BY <2>3
      <2>6. /\ outcome(t) \in {"busy", "interrupted", "complete", "failed"}
            /\ outcome(t) = "complete" => t \in endpoint
            BY DEF outcome
      <2>7. receipt[t].status = "running"
            BY <2>1, <2>3
      <2>8. ~receipt[t].old
            BY <2>7
      <2>9. \A u \in Tasks :
               /\ receipt'[u].status = "complete" => u \in endpoint
               /\ receipt'[u].old => receipt'[u].status \in {"failed", "complete"}
            <3>1. \A u \in Tasks \ {t} :
                     receipt'[u].status = receipt[u].status /\ receipt'[u].old = receipt[u].old
                  BY <2>2
            <3>2. \A u \in Tasks \ {t} :
                     /\ receipt'[u].status = "complete" => u \in endpoint
                     /\ receipt'[u].old => receipt'[u].status \in {"failed", "complete"}
                  BY <3>1
            <3> QED
                BY <2>2, <2>6, <2>8, <3>2
      <2>10. \A v \in Launchers :
               /\ pc'[v] = "wait" => receipt'[at'[v]].status = "running"
               /\ pc'[v] \in Chosen => receipt'[at'[v]].status # "complete"
            <3>1. \A u \in Tasks \ {t} : receipt'[u].status = receipt[u].status
                  BY <2>2
            <3> QED
                BY <2>4, <3>1
      <2> QED
          BY <2>3, <2>5, <2>9, <2>10
<1>10. ASSUME NEW w \in Launchers, EndSweep(w) PROVE ReceiptTruthful'
      BY <1>10 DEF EndSweep
<1>11. ASSUME NEW w \in Launchers, Try(w) PROVE ReceiptTruthful'
      <2>1. /\ pc' = [pc EXCEPT ![w] = "reap"] /\ at[w] \in Tasks \ endpoint
            /\ UNCHANGED <<at, receipt, collect, rank, phase, endpoint>>
            BY <1>11 DEF Try
      <2>2. receipt[at[w]].status # "complete"
            BY <2>1
      <2> QED
          BY <2>1, <2>2
<1>12. ASSUME NEW w \in Launchers, Restart(w) PROVE ReceiptTruthful'
      BY <1>12 DEF Restart
<1>13. ASSUME NEW w \in Launchers, Reap(w) PROVE ReceiptTruthful'
      BY <1>13 DEF Reap
<1>14. ASSUME NEW w \in Launchers, Interrupt(w) PROVE ReceiptTruthful'
      <2>1. InterruptedFacts(at[w])
            BY <1>14, Interrupted
      <2>2. /\ \A v \in Launchers : pc'[v] \in {"wait"} \cup Chosen =>
                  v # w /\ pc'[v] = pc[v] /\ at'[v] = at[v]
            /\ \A u \in Tasks : rank'[u] = "out" => rank[u] = "out"
            /\ \A u \in Tasks : collect'[u] = "ok" => collect[u] = "ok"
            /\ UNCHANGED <<phase, endpoint>>
            BY <1>14 DEF Interrupt
      <2>3. pc[w] = "wait"
            BY <1>14 DEF Interrupt
      <2>4. \A u \in Tasks : receipt'[u].status # receipt[u].status => u = at[w]
            BY <2>1 DEF InterruptedFacts
      <2>5. \A u \in Tasks :
                /\ receipt'[u].old => receipt[u].old /\ u # at[w]
                /\ receipt'[u].status = "complete" => receipt[u].status = "complete"
            BY <2>1 DEF InterruptedFacts
      <2>6. \A v \in Launchers : pc'[v] = "wait" => at[v] # at[w]
            BY <2>2, <2>3
      <2>7. \A v \in Launchers : pc'[v] = "wait" => receipt'[at'[v]].status = "running"
            BY <2>2, <2>4, <2>6
      <2>8. \A v \in Launchers : pc'[v] \in Chosen => receipt'[at'[v]].status # "complete"
            <3>1. \A v \in Launchers : pc'[v] \in Chosen =>
                      at'[v] \in Tasks /\ receipt[at'[v]].status # "complete"
                  <4>1. \A v \in Launchers : pc'[v] \in Chosen => pc[v] \in Chosen /\ at'[v] = at[v]
                        BY <2>2
                  <4>2. \A v \in Launchers : pc[v] \in Chosen =>
                            at[v] \in Tasks /\ receipt[at[v]].status # "complete"
                        OBVIOUS
                  <4> QED
                      BY <4>1, <4>2
            <3> QED
                BY <2>5, <3>1
      <2> QED
          BY <2>2, <2>4, <2>5, <2>7, <2>8
<1>15. ASSUME NEW w \in Launchers, LauncherDies(w) PROVE ReceiptTruthful'
      BY <1>15 DEF LauncherDies
<1>16. ASSUME NEW t \in Tasks, Lock(t) PROVE ReceiptTruthful'
      BY <1>16 DEF Lock
<1>17. ASSUME NEW t \in Tasks, TakeGpu(t) PROVE ReceiptTruthful'
      BY <1>17 DEF TakeGpu
<1>18. ASSUME NEW t \in Tasks, Refused(t) PROVE ReceiptTruthful'
      BY <1>18 DEF Refused
<1>19. ASSUME NEW t \in Tasks, Launch(t) PROVE ReceiptTruthful'
      BY <1>19 DEF Launch
<1>20. ASSUME NEW t \in Tasks, Measure(t) PROVE ReceiptTruthful'
      BY <1>20 DEF Measure
<1>21. ASSUME NEW t \in Tasks, Publish(t) PROVE ReceiptTruthful'
      BY <1>21 DEF Publish
<1>22. ASSUME NEW t \in Tasks, Return(t) PROVE ReceiptTruthful'
      BY <1>22 DEF Return
<1>23. ASSUME NEW t \in Tasks, RunFails(t) PROVE ReceiptTruthful'
      BY <1>23 DEF RunFails
<1>24. ASSUME NEW t \in Tasks, CollectKilled(t) PROVE ReceiptTruthful'
      BY <1>24 DEF CollectKilled, ends
<1>25. ASSUME NEW t \in Tasks, CollectStopped(t) PROVE ReceiptTruthful'
      BY <1>25 DEF CollectStopped, ends
<1>26. ASSUME NEW t \in Tasks, TorchKilled(t) PROVE ReceiptTruthful'
      BY <1>26 DEF TorchKilled
<1>27. ASSUME HostLost PROVE ReceiptTruthful'
      BY <1>27 DEF HostLost
<1>28. [Next]_vars /\ ~UNCHANGED <<pc, at, receipt, collect, rank, phase, endpoint>> =>
        \/ \E w \in Launchers : Look(w)
        \/ \E w \in Launchers : Certify(w)
        \/ \E w \in Launchers : Replenish(w)
        \/ \E w \in Launchers : PassOver(w)
        \/ \E w \in Launchers : ProbeGpu(w)
        \/ \E w \in Launchers : Unavailable(w)
        \/ \E w \in Launchers : Start(w)
        \/ \E w \in Launchers : Receive(w)
        \/ \E w \in Launchers : EndSweep(w)
        \/ \E w \in Launchers : Try(w)
        \/ \E w \in Launchers : Restart(w)
        \/ \E w \in Launchers : Reap(w)
        \/ \E w \in Launchers : Interrupt(w)
        \/ \E w \in Launchers : LauncherDies(w)
        \/ \E t \in Tasks : Lock(t)
        \/ \E t \in Tasks : TakeGpu(t)
        \/ \E t \in Tasks : Refused(t)
        \/ \E t \in Tasks : Launch(t)
        \/ \E t \in Tasks : Measure(t)
        \/ \E t \in Tasks : Publish(t)
        \/ \E t \in Tasks : Return(t)
        \/ \E t \in Tasks : RunFails(t)
        \/ \E t \in Tasks : CollectKilled(t)
        \/ \E t \in Tasks : CollectStopped(t)
        \/ \E t \in Tasks : TorchKilled(t)
        \/ HostLost
      BY DEF vars, launcherVars, runVars, fileVars, Next, LauncherStep, TaskStep, Failure
<1> QED
    BY <1>1, <1>2, <1>3, <1>4, <1>5, <1>6, <1>7, <1>8, <1>9, <1>10, <1>11, <1>12, <1>13,
       <1>14, <1>15, <1>16, <1>17, <1>18, <1>19, <1>20, <1>21, <1>22, <1>23, <1>24, <1>25,
       <1>26, <1>27, <1>28

\* Every way an attempt ends charges it, or gives it back.
LEMMA AttemptsCounted ==
    ASSUME InformationAssumption, TypeOK, Process, Counting, [Next]_vars
    PROVE  AttemptsAreFailures'
<1> USE DEF TypeOK, LauncherType, ReceiptType, Receipts, Process, ClaimsExclude, Cleared,
        Holding, Chosen, Counting, ReceiptTruthful, AttemptsAreFailures
<1>1. CASE UNCHANGED <<receipt, failures>>
      BY <1>1
<1>2. ASSUME NEW w \in Launchers, Certify(w) PROVE AttemptsAreFailures'
      BY <1>2 DEF Certify
<1>3. ASSUME NEW w \in Launchers, Replenish(w) PROVE AttemptsAreFailures'
      BY <1>3 DEF Replenish, Failed
<1>4. ASSUME NEW w \in Launchers, Start(w) PROVE AttemptsAreFailures'
      BY <1>4 DEF Start, attempts
<1>5. ASSUME NEW w \in Launchers, Receive(w) PROVE AttemptsAreFailures'
      <2> DEFINE t == at[w]
      <2>1. /\ t \in Tasks
            /\ receipt'[t].status = outcome(t)
            /\ receipt'[t].attempt = receipt[t].attempt - refund(t)
            /\ failures'[t] = IF collect[t] = "error" THEN failures[t] + 1 ELSE failures[t]
            /\ \A u \in Tasks \ {t} : receipt'[u] = receipt[u] /\ failures'[u] = failures[u]
            BY <1>5, ReceivedFacts
      <2>2. pc[w] = "wait" /\ ~collecting(t)
            BY <1>5 DEF Receive
      <2>3. receipt[t].status = "running" /\ collect[t] \in {"busy", "stopped", "ok", "error"}
            BY <2>1, <2>2 DEF RunType, CollectStates, collecting
      <2>4. receipt[t].attempt = failures[t] + 1 /\ failures[t] \in Nat
            BY <2>1, <2>3
      <2> HIDE DEF t
      <2>5. outcome(t) # "complete" =>
                receipt'[t].attempt = failures'[t] /\ outcome(t) # "running"
            <3>1. CASE collect[t] \in {"busy", "stopped"}
                  BY <2>1, <2>4, <3>1 DEF outcome, refund
            <3>2. CASE collect[t] = "error"
                  BY <2>1, <2>4, <3>2 DEF outcome, refund
            <3>3. CASE collect[t] = "ok"
                  BY <3>3 DEF outcome
            <3> QED
                BY <2>3, <3>1, <3>2, <3>3
      <2> SUFFICES ASSUME NEW u \in Tasks, receipt'[u].status # "complete"
                   PROVE  receipt'[u].attempt = failures'[u] + (IF receipt'[u].status = "running" THEN 1 ELSE 0)
          BY DEF AttemptsAreFailures
      <2>6. CASE u = t
            BY <2>1, <2>4, <2>5, <2>6
      <2>7. CASE u # t
            BY <2>1, <2>7
      <2> QED
          BY <2>6, <2>7
<1>6. ASSUME NEW w \in Launchers, Interrupt(w) PROVE AttemptsAreFailures'
      <2>1. InterruptedFacts(at[w])
            BY <1>6, Interrupted
      <2>2. receipt[at[w]].attempt = failures[at[w]] + 1 /\ failures[at[w]] \in Nat
            BY <2>1 DEF InterruptedFacts
      <2> SUFFICES ASSUME NEW u \in Tasks, receipt'[u].status # "complete"
                   PROVE  receipt'[u].attempt = failures'[u] + (IF receipt'[u].status = "running" THEN 1 ELSE 0)
          BY DEF AttemptsAreFailures
      <2>3. CASE u = at[w]
            BY <2>1, <2>2, <2>3 DEF InterruptedFacts
      <2>4. CASE u # at[w]
            BY <2>1, <2>4 DEF InterruptedFacts
      <2> QED
          BY <2>3, <2>4
<1>7. [Next]_vars /\ ~UNCHANGED <<receipt, failures>> =>
        \/ \E w \in Launchers : Certify(w)
        \/ \E w \in Launchers : Replenish(w)
        \/ \E w \in Launchers : Start(w)
        \/ \E w \in Launchers : Receive(w)
        \/ \E w \in Launchers : Interrupt(w)
      BY DEF vars, launcherVars, runVars, fileVars, Next, LauncherStep, TaskStep, Failure,
         Look, PassOver, ProbeGpu, Unavailable, EndSweep, Try, Restart, LauncherDies, Lock,
         TakeGpu, Refused, Launch, Measure, Return, RunFails, CollectKilled, TorchKilled,
         HostLost, Reap, Publish, CollectStopped
<1> QED
    BY <1>1, <1>2, <1>3, <1>4, <1>5, <1>6, <1>7


\* Together: receipts and attempts.
LEMMA CountingKept ==
    ASSUME InformationAssumption, TypeOK, Process, Counting, [Next]_vars
    PROVE  Counting'
BY ReceiptsKept, AttemptsCounted DEF Counting

\* What is done stays done, and a task out of attempts gets none again.
DoneStays ==
    \A t \in Tasks : (t \in endpoint => t \in endpoint') /\ (Exhausted(t) => Exhausted(t)')

\* No step takes back what is done or used up.
LEMMA DoneKept ==
    ASSUME InformationAssumption, TypeOK, Process, Counting, [Next]_vars
    PROVE  DoneStays
<1> USE DEF TypeOK, ReceiptType, Receipts, FileType, Process, ClaimsExclude, Holding,
        DoneStays, Exhausted, fileVars, InformationAssumption
<1>1. CASE UNCHANGED <<receipt, failures, endpoint>>
      BY <1>1
<1>2. ASSUME NEW w \in Launchers, Certify(w) PROVE DoneStays
      BY <1>2 DEF Certify
<1>3. ASSUME NEW w \in Launchers, Replenish(w) PROVE DoneStays
      BY <1>3 DEF Replenish, Failed
<1>4. ASSUME NEW w \in Launchers, Start(w) PROVE DoneStays
      BY <1>4 DEF Start, attempts
<1>5. ASSUME NEW w \in Launchers, Receive(w) PROVE DoneStays
      <2>1. /\ at[w] \in Tasks /\ receipt'[at[w]].old = receipt[at[w]].old
            /\ failures'[at[w]] \in {failures[at[w]], failures[at[w]] + 1}
            /\ \A u \in Tasks \ {at[w]} : receipt'[u] = receipt[u] /\ failures'[u] = failures[u]
            BY <1>5, ReceivedFacts
      <2>2. UNCHANGED endpoint
            BY <1>5 DEF Receive
      <2>3. failures \in [Tasks -> Nat] /\ MaxAttempts \in Nat
            BY DEF ReceiptType
      <2>4. \A t \in Tasks : receipt'[t].old = receipt[t].old /\ failures'[t] \in {failures[t], failures[t] + 1}
            BY <2>1
      <2>5. \A t \in Tasks : Exhausted(t) => Exhausted(t)'
            <3> SUFFICES ASSUME NEW t \in Tasks, failures[t] >= MaxAttempts
                         PROVE  failures'[t] >= MaxAttempts
                BY <2>2, <2>4
            <3>1. failures[t] \in Nat /\ failures'[t] \in {failures[t], failures[t] + 1}
                  BY <2>3, <2>4
            <3> QED
                BY <2>3, <3>1
      <2> QED
          BY <2>2, <2>5
<1>6. ASSUME NEW w \in Launchers, Interrupt(w) PROVE DoneStays
      <2>1. InterruptedFacts(at[w])
            BY <1>6, Interrupted DEF Counting
      <2>2. UNCHANGED endpoint
            BY <1>6 DEF Interrupt
      <2>3. \A t \in Tasks : receipt'[t].old = receipt[t].old /\ failures'[t] = failures[t]
            BY <2>1 DEF InterruptedFacts
      <2> QED
          BY <2>2, <2>3
<1>7. ASSUME NEW t \in Tasks, Publish(t) PROVE DoneStays
      BY <1>7 DEF Publish
<1>8. [Next]_vars /\ ~UNCHANGED <<receipt, failures, endpoint>> =>
        \/ \E w \in Launchers : Certify(w)
        \/ \E w \in Launchers : Replenish(w)
        \/ \E w \in Launchers : Start(w)
        \/ \E w \in Launchers : Receive(w)
        \/ \E w \in Launchers : Interrupt(w)
        \/ \E t \in Tasks : Publish(t)
      BY DEF vars, launcherVars, runVars, fileVars, Next, LauncherStep, TaskStep, Failure,
         Look, PassOver, ProbeGpu, Unavailable, EndSweep, Try, Restart, LauncherDies, Lock,
         TakeGpu, Refused, Launch, Return, RunFails, CollectKilled, TorchKilled, HostLost,
         Measure, Reap, CollectStopped
<1> QED
    BY <1>1, <1>2, <1>3, <1>4, <1>5, <1>6, <1>7, <1>8

\* A sweep counts a task as what it is.
CountsRight ==
    \A w \in Launchers, t \in Tasks :
        /\ marks'[w][t] = "complete" => marks[w][t] = "complete" \/ t \in endpoint
        /\ marks'[w][t] = "failed" => marks[w][t] = "failed" \/ Exhausted(t)

\* Counting a task as what it is,
LEMMA CountFacts ==
    ASSUME TypeOK, Process, NEW w \in Launchers, NEW mark, Count(w, mark),
           mark = "complete" => at[w] \in endpoint,
           mark = "failed" => Exhausted(at[w])
    PROVE  CountsRight
<1>1. \A v \in Launchers : v # w => marks'[v] = marks[v]
      BY DEF Count, TypeOK, LauncherType
<1>2. \A t \in Tasks : t # at[w] => marks'[w][t] = marks[w][t]
      BY DEF Count, TypeOK, LauncherType
<1>3. at[w] \in Tasks => marks'[w][at[w]] = mark
      BY DEF Count, TypeOK, LauncherType
<1> QED
    BY <1>1, <1>2, <1>3 DEF CountsRight

\* and beginning another sweep, keep the marks right.
LEMMA AgainFacts ==
    ASSUME TypeOK, NEW w \in Launchers, NEW p, Again(w, p)
    PROVE  CountsRight
BY DEF Again, Unswept, TypeOK, LauncherType, CountsRight

\* A task passed over as failed has used up its attempts.
LEMMA OutOfAttempts ==
    ASSUME InformationAssumption, TypeOK, Process, Counting, NEW t \in Tasks,
           t \notin endpoint, ~(receipt[t].status = "failed" /\ receipt[t].old),
           attempts(t) >= MaxAttempts
    PROVE  Exhausted(t)
<1>1. receipt[t].status # "complete" /\ ~receipt[t].old
      BY DEF Counting, ReceiptTruthful
<1>2. receipt[t].attempt = failures[t] + (IF receipt[t].status = "running" THEN 1 ELSE 0)
      BY <1>1 DEF Counting, AttemptsAreFailures
<1>3. failures[t] \in Nat
      BY DEF TypeOK, ReceiptType
<1>4. attempts(t) = failures[t]
      BY <1>2, <1>3 DEF attempts
<1> QED
    BY <1>1, <1>4 DEF Exhausted

\* Every step counts rightly.
LEMMA MarksRight ==
    ASSUME InformationAssumption, TypeOK, Process, Counting, [Next]_vars
    PROVE  CountsRight
<1>1. CASE UNCHANGED marks
      BY <1>1 DEF CountsRight
<1>2. ASSUME NEW w \in Launchers, Look(w) PROVE CountsRight
      <2>1. CASE claimed(at[w]) \/ surviving(at[w])
            BY <1>2, <2>1, CountFacts DEF Look
      <2>2. CASE ~(claimed(at[w]) \/ surviving(at[w]))
            BY <1>2, <2>2 DEF Look, CountsRight
      <2> QED
          BY <2>1, <2>2
<1>3. ASSUME NEW w \in Launchers, Certify(w) PROVE CountsRight
      BY <1>3, CountFacts DEF Certify
<1>4. ASSUME NEW w \in Launchers, PassOver(w) PROVE CountsRight
      <2>1. at[w] \in Tasks
            BY <1>4 DEF PassOver, Process, ClaimsExclude, Holding
      <2>2. CASE attempts(at[w]) >= MaxAttempts /\ Count(w, "failed")
            <3>1. Exhausted(at[w])
                  BY <1>4, <2>1, <2>2, OutOfAttempts DEF PassOver
            <3> QED
                BY <2>2, <3>1, CountFacts
      <2>3. CASE Count(w, "waiting")
            BY <2>3, CountFacts
      <2> QED
          BY <1>4, <2>2, <2>3 DEF PassOver
<1>5. ASSUME NEW w \in Launchers, Unavailable(w) PROVE CountsRight
      BY <1>5, AgainFacts DEF Unavailable
<1>6. ASSUME NEW w \in Launchers, Receive(w) PROVE CountsRight
      BY <1>6, AgainFacts DEF Receive
<1>7. ASSUME NEW w \in Launchers, EndSweep(w) PROVE CountsRight
      BY <1>7, AgainFacts DEF EndSweep
<1>8. ASSUME NEW w \in Launchers, Restart(w) PROVE CountsRight
      BY <1>8, AgainFacts DEF Restart
<1>9. ASSUME NEW w \in Launchers, Interrupt(w) PROVE CountsRight
      BY <1>9, AgainFacts DEF Interrupt
<1>10. ASSUME NEW w \in Launchers, LauncherDies(w) PROVE CountsRight
      BY <1>10, AgainFacts DEF LauncherDies
<1>11. ASSUME HostLost PROVE CountsRight
      BY <1>11 DEF HostLost, Unswept, CountsRight
<1>12. [Next]_vars /\ ~UNCHANGED marks =>
        \/ \E w \in Launchers : Look(w)
        \/ \E w \in Launchers : Certify(w)
        \/ \E w \in Launchers : PassOver(w)
        \/ \E w \in Launchers : Unavailable(w)
        \/ \E w \in Launchers : Receive(w)
        \/ \E w \in Launchers : EndSweep(w)
        \/ \E w \in Launchers : Restart(w)
        \/ \E w \in Launchers : Interrupt(w)
        \/ \E w \in Launchers : LauncherDies(w)
        \/ HostLost
      BY DEF vars, launcherVars, runVars, fileVars, Next, LauncherStep, TaskStep, Failure,
         Replenish, ProbeGpu, Start, Try, Lock, TakeGpu, Refused, Launch, Measure, Return,
         RunFails, CollectKilled, TorchKilled, Reap, Publish, CollectStopped
<1> QED
    BY <1>1, <1>2, <1>3, <1>4, <1>5, <1>6, <1>7, <1>8, <1>9, <1>10, <1>11, <1>12

\* Whose sweep ends the queue has counted every task.
EndsCounted ==
    \A w \in Launchers :
        /\ pc'[w] = "complete" => pc[w] = "complete" \/ \A t \in Tasks : marks[w][t] = "complete"
        /\ pc'[w] = "failed" =>
              pc[w] = "failed" \/ \A t \in Tasks : marks[w][t] \in {"complete", "failed"}

\* A launcher ends only when its sweep has counted every task.
LEMMA EndsRight ==
    ASSUME InformationAssumption, TypeOK, Process, [Next]_vars
    PROVE  EndsCounted
<1> USE DEF TypeOK, LauncherType, Again, Count, EndsCounted
<1>1. CASE UNCHANGED pc
      BY <1>1
<1>2. ASSUME NEW w \in Launchers, Look(w) PROVE EndsCounted
      BY <1>2 DEF Look
<1>3. ASSUME NEW w \in Launchers, Certify(w) PROVE EndsCounted
      BY <1>3 DEF Certify
<1>4. ASSUME NEW w \in Launchers, PassOver(w) PROVE EndsCounted
      BY <1>4 DEF PassOver
<1>5. ASSUME NEW w \in Launchers, ProbeGpu(w) PROVE EndsCounted
      BY <1>5 DEF ProbeGpu
<1>6. ASSUME NEW w \in Launchers, Unavailable(w) PROVE EndsCounted
      BY <1>6 DEF Unavailable
<1>7. ASSUME NEW w \in Launchers, Start(w) PROVE EndsCounted
      BY <1>7 DEF Start
<1>8. ASSUME NEW w \in Launchers, Receive(w) PROVE EndsCounted
      BY <1>8 DEF Receive
<1>9. ASSUME NEW w \in Launchers, EndSweep(w) PROVE EndsCounted
      BY <1>9 DEF EndSweep
<1>10. ASSUME NEW w \in Launchers, Try(w) PROVE EndsCounted
      BY <1>10 DEF Try
<1>11. ASSUME NEW w \in Launchers, Reap(w) PROVE EndsCounted
      BY <1>11 DEF Reap
<1>12. ASSUME NEW w \in Launchers, Restart(w) PROVE EndsCounted
      BY <1>12 DEF Restart
<1>13. ASSUME NEW w \in Launchers, Interrupt(w) PROVE EndsCounted
      BY <1>13 DEF Interrupt
<1>14. ASSUME NEW w \in Launchers, LauncherDies(w) PROVE EndsCounted
      BY <1>14 DEF LauncherDies
<1>15. ASSUME HostLost PROVE EndsCounted
      BY <1>15 DEF HostLost
<1>16. [Next]_vars /\ ~UNCHANGED pc =>
        \/ \E w \in Launchers : Look(w)
        \/ \E w \in Launchers : Certify(w)
        \/ \E w \in Launchers : PassOver(w)
        \/ \E w \in Launchers : ProbeGpu(w)
        \/ \E w \in Launchers : Unavailable(w)
        \/ \E w \in Launchers : Start(w)
        \/ \E w \in Launchers : Receive(w)
        \/ \E w \in Launchers : EndSweep(w)
        \/ \E w \in Launchers : Try(w)
        \/ \E w \in Launchers : Reap(w)
        \/ \E w \in Launchers : Restart(w)
        \/ \E w \in Launchers : Interrupt(w)
        \/ \E w \in Launchers : LauncherDies(w)
        \/ HostLost
      BY DEF vars, launcherVars, runVars, fileVars, Next, LauncherStep, TaskStep, Failure,
         Replenish, Lock, TakeGpu, Refused, Launch, Measure, Return, RunFails,
         CollectKilled, TorchKilled, Publish, CollectStopped
<1> QED
    BY <1>1, <1>2, <1>3, <1>4, <1>5, <1>6, <1>7, <1>8, <1>9, <1>10, <1>11, <1>12, <1>13,
       <1>14, <1>15, <1>16

\* Together: marks and exit codes.
LEMMA EndingKept ==
    ASSUME InformationAssumption, TypeOK, Process, Counting, Ending, [Next]_vars
    PROVE  Ending'
<1>1. DoneStays
      BY DoneKept
<1>2. CountsRight
      BY MarksRight
<1>3. EndsCounted
      BY EndsRight
<1>4. MarksTruthful'
      BY <1>1, <1>2 DEF Ending, MarksTruthful, CountsRight, DoneStays
<1>5. \A t \in Tasks : t \in endpoint' => phase'[t] = Phases
      BY CountingKept DEF Counting, ReceiptTruthful
<1>6. EndsTruthfully'
      <2> SUFFICES ASSUME NEW w \in Launchers, NEW t \in Tasks
                   PROVE  /\ pc'[w] = "complete" => t \in endpoint' /\ phase'[t] = Phases
                          /\ pc'[w] = "failed" => Exhausted(t)'
          BY DEF EndsTruthfully, Exhausted
      <2>1. ASSUME pc'[w] = "complete" PROVE t \in endpoint
            BY <1>3, <2>1 DEF EndsCounted, Ending, MarksTruthful, EndsTruthfully
      <2>2. ASSUME pc'[w] = "failed" PROVE Exhausted(t)
            BY <1>3, <2>2 DEF EndsCounted, Ending, MarksTruthful, EndsTruthfully, Exhausted
      <2> QED
          BY <1>1, <1>5, <2>1, <2>2 DEF DoneStays
<1> QED
    BY <1>4, <1>6 DEF Ending

-----------------------------------------------------------------------------
(* The theorems.                                                            *)

\* The invariant holds at the start, whatever an earlier queue left.
LEMMA InitHolds ==
    ASSUME InformationAssumption, Init
    PROVE  IInv
<1> USE DEF Init, InformationAssumption
<1>1. /\ pc = [w \in Launchers |-> "sweep"] /\ at = [w \in Launchers |-> 1]
      /\ marks = [w \in Launchers |-> Unswept]
      BY DEF Init
<1>2. receipt \in [Tasks -> Receipts] /\ failures \in [Tasks -> Nat]
      <2>1. Earlier \subseteq Receipts /\ \A r \in Earlier : r.attempt \in Nat
            BY DEF Earlier, NoReceipt, Failed, Receipts, Statuses
      <2> QED
          BY <2>1
<1>3. TypeOK
      <2>1. LauncherType
            BY <1>1 DEF LauncherType, Unswept, Places
      <2>2. RunType
            BY DEF RunType, CollectStates
      <2>3. FileType /\ LeaseType
            BY DEF FileType, LeaseType
      <2> QED
          BY <1>2, <2>1, <2>2, <2>3 DEF TypeOK, ReceiptType
<1>4. Process
      BY DEF Process, ClaimsExclude, Cleared, Attempts, Holding, collecting
<1>5. Leases
      BY DEF Leases, LeasesDisjoint, LeaseHolders, TakenInOrder, GpuExclusive, taking,
         Probing, refused
<1>6. \A t \in Tasks : receipt[t].status \in {"none", "failed"} /\ failures[t] = receipt[t].attempt
      <2>1. \A r \in Earlier : r.status \in {"none", "failed"} /\ (r.old => r.status = "failed")
            BY DEF Earlier, NoReceipt, Failed
      <2> QED
          BY <2>1
<1>7. \A t \in Tasks : receipt[t].old => receipt[t].status = "failed"
      BY DEF Earlier, NoReceipt, Failed
<1>8. \A t \in Tasks : receipt[t].attempt \in Nat
      BY <1>2, <1>6
<1>9. Counting
      <2>1. ReceiptTruthful
            <3>1. \A t \in Tasks : receipt[t].status # "complete" /\ collect[t] # "ok" /\ t \notin endpoint
                  BY <1>6
            <3>2. \A w \in Launchers : pc[w] # "wait" /\ pc[w] \notin Chosen
                  BY <1>1 DEF Chosen
            <3>3. \A t \in Tasks : rank[t] # "out"
                  OBVIOUS
            <3> QED
                BY <1>7, <3>1, <3>2, <3>3 DEF ReceiptTruthful
      <2>2. AttemptsAreFailures
            <3> HIDE DEF Init
            <3>1. ASSUME NEW t \in Tasks
                  PROVE  receipt[t].status # "running" /\ receipt[t].attempt = failures[t] + 0
                  <4>1. receipt[t].status # "running" /\ receipt[t].attempt = failures[t] /\ failures[t] \in Nat
                        BY <1>6, <1>8
                  <4> QED
                      BY <4>1
            <3> QED
                BY <3>1 DEF AttemptsAreFailures
      <2> QED
          BY <2>1, <2>2 DEF Counting
<1>10. Ending
      BY DEF Ending, MarksTruthful, EndsTruthfully, Unswept
<1> QED
    BY <1>3, <1>4, <1>5, <1>9, <1>10 DEF IInv

\* The inductive invariant: claims and processes, device leases, attempts and ends.
THEOREM Invariance == Spec => []IInv
<1>1. Init => IInv
      BY InitHolds, InformationAssumption
<1>2. IInv /\ [Next]_vars => IInv'
      BY Typed, ProcessesKept, LeasesKept, CountingKept, EndingKept, InformationAssumption DEF IInv
<1> QED
    BY <1>1, <1>2, PTL DEF Spec

\* Ranks of two measurements never share a GPU (device leases of torchrun, and
\* the orphans reaped under them).
THEOREM GpusAreExclusive == Spec => []GpuExclusive
<1>1. IInv => GpuExclusive
      BY DEF IInv, Leases
<1> QED
    BY <1>1, Invariance, PTL

\* The attempts in a receipt are the failures seen (sweep's refunds).
THEOREM AttemptsAreRight == Spec => []AttemptsAreFailures
<1>1. IInv => AttemptsAreFailures
      BY DEF IInv, Counting
<1> QED
    BY <1>1, Invariance, PTL

\* A launcher's exit code tells what became of all measurements (main).
THEOREM EndsAreTrue == Spec => []EndsTruthfully
<1>1. IInv => EndsTruthfully
      BY DEF IInv, Ending
<1> QED
    BY <1>1, Invariance, PTL

\* Among those that are refused, nobody has the greatest of the devices they need.
LEMMA GreatestProceeds ==
    ASSUME InformationAssumption, IInv
    PROVE  SomeoneProceeds
<1> SUFFICES ASSUME NEW group \in SUBSET {a \in DOMAIN leased : refused(a)}, group # {}
             PROVE  \E a \in group : \A b \in group : next(a) \notin leased[b]
    BY DEF SomeoneProceeds
<1>1. \A a \in group : a \in Launchers \cup Tasks /\ refused(a)
      BY DEF IInv, TypeOK, LeaseType
<1>2. ASSUME NEW a \in group
      PROVE  /\ next(a) \in missing(a) /\ next(a) \in Gpus
             /\ \A g \in leased[a] : g < next(a)
      <2>1. a \in Launchers \cup Tasks /\ refused(a)
            BY <1>1
      <2>2. taking(a)
            BY <2>1 DEF taking, refused, Probing
      <2>3. a \in Tasks => home[a] \in Launchers
            BY <2>1 DEF refused, InformationAssumption, Tasks, IInv, Process, Attempts,
               collecting
      <2>4. missing(a) # {} /\ \A g \in leased[a], h \in missing(a) : g < h
            BY <2>1, <2>2 DEF IInv, Leases, TakenInOrder
      <2>5. next(a) \in missing(a) /\ next(a) \in Gpus
            BY <2>1, <2>3, <2>4, NextIsLeast DEF IInv
      <2> QED
          BY <2>4, <2>5
<1> DEFINE wanted == {next(a) : a \in group}
<1>3. wanted \in SUBSET (1..NumGpus) /\ wanted # {} /\ NumGpus \in Nat
      BY <1>2 DEF Gpus, InformationAssumption
<1>4. PICK g \in wanted : \A h \in wanted : h <= g
      BY <1>3, GreatestExists
<1>5. PICK a \in group : g = next(a)
      BY <1>4
<1>6. ASSUME NEW b \in group PROVE next(a) \notin leased[b]
      <2>1. next(b) <= next(a) /\ next(a) \in Nat /\ next(b) \in Nat
            BY <1>2, <1>4, <1>5 DEF Gpus
      <2>2. \A k \in leased[b] : k < next(b)
            BY <1>2
      <2> QED
          BY <2>1, <2>2
<1> QED
    BY <1>6

\* Those that compete for devices never all refuse each other (device_leases
\* takes them in one order, shared by overlapping allocations).
THEOREM NoRingOfRefusals == Spec => []SomeoneProceeds
<1>1. IInv => SomeoneProceeds
      BY GreatestProceeds, InformationAssumption
<1> QED
    BY <1>1, Invariance, PTL
=============================================================================
