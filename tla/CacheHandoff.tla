----------------------------- MODULE CacheHandoff -----------------------------
(***************************************************************************)
(* One seed's reward cache: the ranks of successive torchrun attempts      *)
(* write one response receipt per candidate, rank 0 exports the bundle and *)
(* its cost summary, and the workers' verify() seals the bundle as the     *)
(* frozen input of the training tasks (build_cache.py, and TaskQueue.verify *)
(* in cluster_queue.py, read step by step).                                *)
(*                                                                         *)
(* A receipt or a bundle is identified by the attempts that wrote it: two  *)
(* generations of one candidate on GPUs need not agree.                    *)
(***************************************************************************)
EXTENDS Naturals, FiniteSets

CONSTANTS
    Workers,      \* worker processes that verify the queue's inputs
    Candidates,   \* number of candidates of the seed
    World,        \* ranks of one attempt
    MaxAttempts,  \* attempts the queue launches
    MaxCrashes,   \* bound on killed ranks and launchers
    None          \* a bundle, summary or seal that is not there

ASSUME ConstantsAssumption ==
    /\ Candidates \in Nat /\ World \in Nat \ {0}
    /\ MaxAttempts \in Nat /\ MaxCrashes \in Nat
    /\ None \notin [1..Candidates -> 0..MaxAttempts]

Items    == 1..Candidates
Attempts == 1..MaxAttempts
Ranks    == 0..(World - 1)
Bundles  == [Items -> Attempts]

VARIABLES
    last,      \* attempts launched so far
    launcher,  \* the attempt whose torchrun is alive, or 0
    phase,     \* attempt -> what its rank 0 decides for all ranks
    alive,     \* attempt -> rank -> the process exists
    todo,      \* attempt -> rank -> candidates it has still to look at
    writing,   \* attempt -> rank -> the candidate whose lock it holds, or 0
    receipts,  \* candidate -> attempt that wrote its receipt, or 0
    bundle,    \* cached_rewards of the exported bundle, or None
    summary,   \* the bundle named by cost-summary.json, or None
    seal,      \* the bundle named by .queue/inputs/seed-<seed>.json, or None
    vpc,       \* worker -> where it is in verify()
    snap,      \* worker -> the bundle this verify() has read
    ready,     \* worker -> cache_ready
    crashes

diskVars   == <<receipts, bundle, summary>>
runVars    == <<last, launcher, phase, alive, todo, writing>>
verifyVars == <<seal, vpc, snap, ready>>
vars == <<last, launcher, phase, alive, todo, writing, receipts, bundle, summary,
          seal, vpc, snap, ready, crashes>>

Locked == {"prepare", "todo", "gen", "export", "summary"}
Phases == {"none", "lock", "ok"} \cup Locked

TypeOK ==
    /\ last \in 0..MaxAttempts /\ launcher \in 0..last
    /\ phase \in [Attempts -> Phases]
    /\ alive \in [Attempts -> [Ranks -> BOOLEAN]]
    /\ todo \in [Attempts -> [Ranks -> SUBSET Items]]
    /\ writing \in [Attempts -> [Ranks -> 0..Candidates]]
    /\ receipts \in [Items -> 0..MaxAttempts]
    /\ {bundle, summary, seal} \subseteq Bundles \cup {None}
    /\ vpc \in [Workers -> {"idle", "seal", "summary", "sealing", "raised"}]
    /\ snap \in [Workers -> Bundles \cup {None}]
    /\ ready \in [Workers -> BOOLEAN]
    /\ crashes \in 0..MaxCrashes

Init ==
    /\ last = 0 /\ launcher = 0
    /\ phase = [n \in Attempts |-> "none"]
    /\ alive = [n \in Attempts |-> [r \in Ranks |-> FALSE]]
    /\ todo = [n \in Attempts |-> [r \in Ranks |-> {}]]
    /\ writing = [n \in Attempts |-> [r \in Ranks |-> 0]]
    /\ receipts = [c \in Items |-> 0]
    /\ bundle = None /\ summary = None /\ seal = None
    /\ vpc = [w \in Workers |-> "idle"]
    /\ snap = [w \in Workers |-> None]
    /\ ready = [w \in Workers |-> FALSE]
    /\ crashes = 0

-----------------------------------------------------------------------------
(* The attempts.  Locks live as long as the process that holds them.        *)

execLocked == \E n \in Attempts : alive[n][0] /\ phase[n] \in Locked

itemLocked(c) == \E n \in Attempts, r \in Ranks : alive[n][r] /\ writing[n][r] = c

peerLost(n) == \E r \in Ranks : ~alive[n][r]

\* The queue launches the task again while no launcher holds its lease.
Launch ==
    /\ launcher = 0 /\ last < MaxAttempts /\ summary = None
    /\ last' = last + 1 /\ launcher' = last + 1
    /\ phase' = [phase EXCEPT ![last + 1] = "lock"]
    /\ alive' = [alive EXCEPT ![last + 1] = [r \in Ranks |-> TRUE]]
    /\ UNCHANGED <<todo, writing, diskVars, verifyVars, crashes>>

\* prepare() tries the execution lock; when it is held, rank 0 raises and
\* primary() raises on every rank.
Lock(n) ==
    /\ alive[n][0] /\ phase[n] = "lock"
    /\ IF execLocked
       THEN alive' = [alive EXCEPT ![n] = [r \in Ranks |-> FALSE]] /\ UNCHANGED phase
       ELSE phase' = [phase EXCEPT ![n] = "prepare"] /\ UNCHANGED alive
    /\ UNCHANGED <<last, launcher, todo, writing, diskVars, verifyVars, crashes>>

\* Mutant: a complete bundle leaves nothing to do.
PrepareQuiet(n) ==
    /\ alive[n][0] /\ phase[n] = "prepare"
    /\ phase' = [phase EXCEPT ![n] = IF bundle # None THEN "ok" ELSE "todo"]
    /\ alive' = IF bundle = None THEN alive
                ELSE [alive EXCEPT ![n] = [r \in Ranks |-> FALSE]]
    /\ UNCHANGED <<last, launcher, todo, writing, diskVars, verifyVars, crashes>>

\* prepare(): a complete bundle gets its cost summary and nothing is generated.
Prepare(n) ==
    /\ alive[n][0] /\ phase[n] = "prepare"
    /\ IF bundle # None
       THEN /\ summary' = bundle
            /\ phase' = [phase EXCEPT ![n] = "ok"]
            /\ alive' = [alive EXCEPT ![n] = [r \in Ranks |-> FALSE]]
       ELSE /\ phase' = [phase EXCEPT ![n] = "todo"]
            /\ UNCHANGED <<summary, alive>>
    /\ UNCHANGED <<last, launcher, todo, writing, receipts, bundle, verifyVars, crashes>>

\* Rank 0 lists the candidates without a receipt, in order; rank r takes every
\* World-th of them.
Share(n) ==
    LET missing  == {c \in Items : receipts[c] = 0}
        index(c) == Cardinality({d \in missing : d < c})
    IN
    /\ phase[n] = "todo" /\ ~peerLost(n)
    /\ todo' = [todo EXCEPT ![n] = [r \in Ranks |-> {c \in missing : index(c) % World = r}]]
    /\ phase' = [phase EXCEPT ![n] = "gen"]
    /\ UNCHANGED <<last, launcher, alive, writing, diskVars, verifyVars, crashes>>

\* Mutant: the receipt is not looked up again under the candidate's lock.
TakeBlind(n, r) ==
    /\ alive[n][r] /\ phase[n] = "gen" /\ writing[n][r] = 0
    /\ \E c \in todo[n][r] :
        /\ \A d \in todo[n][r] : c <= d
        /\ IF itemLocked(c)
           THEN alive' = [alive EXCEPT ![n][r] = FALSE] /\ UNCHANGED <<todo, writing>>
           ELSE /\ todo' = [todo EXCEPT ![n][r] = @ \ {c}]
                /\ writing' = [writing EXCEPT ![n][r] = c]
                /\ UNCHANGED alive
    /\ UNCHANGED <<last, launcher, phase, diskVars, verifyVars, crashes>>

\* The rank goes through its candidates in order and tries each one's lock once:
\* where it is held, the rank raises.  Under the lock, a receipt another process
\* has written meanwhile is kept.
Take(n, r) ==
    /\ alive[n][r] /\ phase[n] = "gen" /\ writing[n][r] = 0
    /\ \E c \in todo[n][r] :
        /\ \A d \in todo[n][r] : c <= d
        /\ IF itemLocked(c)
           THEN alive' = [alive EXCEPT ![n][r] = FALSE] /\ UNCHANGED <<todo, writing>>
           ELSE /\ todo' = [todo EXCEPT ![n][r] = @ \ {c}]
                /\ writing' = IF receipts[c] # 0 THEN writing
                              ELSE [writing EXCEPT ![n][r] = c]
                /\ UNCHANGED alive
    /\ UNCHANGED <<last, launcher, phase, diskVars, verifyVars, crashes>>

\* The generation is over: the receipt is written atomically, the lock released.
Write(n, r) ==
    /\ alive[n][r] /\ writing[n][r] # 0
    /\ receipts' = [receipts EXCEPT ![writing[n][r]] = n]
    /\ writing' = [writing EXCEPT ![n][r] = 0]
    /\ UNCHANGED <<last, launcher, phase, alive, todo, bundle, summary, verifyVars, crashes>>

generated(n, r) == todo[n][r] = {} /\ writing[n][r] = 0

\* Mutant: rank 0 exports when its own share is done.
BarrierAlone(n) ==
    /\ phase[n] = "gen" /\ ~peerLost(n)
    /\ generated(n, 0)
    /\ phase' = [phase EXCEPT ![n] = "export"]
    /\ UNCHANGED <<last, launcher, alive, todo, writing, diskVars, verifyVars, crashes>>

\* The end of the phase gathers every rank's meter.
Barrier(n) ==
    /\ phase[n] = "gen" /\ ~peerLost(n)
    /\ \A r \in Ranks : generated(n, r)
    /\ phase' = [phase EXCEPT ![n] = "export"]
    /\ UNCHANGED <<last, launcher, alive, todo, writing, diskVars, verifyVars, crashes>>

\* export_cache(): the bundle takes the rewards of every receipt, or raises.
Export(n) ==
    /\ alive[n][0] /\ phase[n] = "export"
    /\ IF \E c \in Items : receipts[c] = 0
       THEN alive' = [alive EXCEPT ![n][0] = FALSE] /\ UNCHANGED <<bundle, phase>>
       ELSE /\ bundle' = receipts
            /\ phase' = [phase EXCEPT ![n] = "summary"]
            /\ UNCHANGED alive
    /\ UNCHANGED <<last, launcher, todo, writing, receipts, summary, verifyVars, crashes>>

Summarise(n) ==
    /\ alive[n][0] /\ phase[n] = "summary"
    /\ summary' = bundle
    /\ phase' = [phase EXCEPT ![n] = "ok"]
    /\ alive' = [alive EXCEPT ![n] = [r \in Ranks |-> FALSE]]
    /\ UNCHANGED <<last, launcher, todo, writing, receipts, bundle, verifyVars, crashes>>

\* A rank whose peer is gone is killed by torchrun or by a failing collective.
PeerLost(n, r) ==
    /\ alive[n][r] /\ peerLost(n)
    /\ alive' = [alive EXCEPT ![n][r] = FALSE]
    /\ UNCHANGED <<last, launcher, phase, todo, writing, diskVars, verifyVars, crashes>>

Reap ==
    /\ launcher # 0 /\ \A r \in Ranks : ~alive[launcher][r]
    /\ launcher' = 0
    /\ UNCHANGED <<last, phase, alive, todo, writing, diskVars, verifyVars, crashes>>

\* A rank is killed, or the launcher is and leaves its ranks behind.
Crash ==
    /\ crashes < MaxCrashes /\ crashes' = crashes + 1
    /\ \/ /\ \E n \in Attempts, r \in Ranks :
                alive[n][r] /\ alive' = [alive EXCEPT ![n][r] = FALSE]
          /\ UNCHANGED launcher
       \/ launcher # 0 /\ launcher' = 0 /\ UNCHANGED alive
    /\ UNCHANGED <<last, phase, todo, writing, diskVars, verifyVars>>

-----------------------------------------------------------------------------
(* TaskQueue.verify on this seed, one read of shared storage at a time.     *)

\* Mutant: the answer of the previous verify() is dropped first.
ReadBundleReset(w) ==
    /\ vpc[w] = "idle"
    /\ snap' = [snap EXCEPT ![w] = bundle]
    /\ ready' = [ready EXCEPT ![w] = FALSE]
    /\ vpc' = [vpc EXCEPT ![w] = "seal"]
    /\ UNCHANGED <<runVars, diskVars, seal, crashes>>

\* input_info(path)
ReadBundle(w) ==
    /\ vpc[w] = "idle"
    /\ snap' = [snap EXCEPT ![w] = bundle]
    /\ vpc' = [vpc EXCEPT ![w] = "seal"]
    /\ UNCHANGED <<runVars, diskVars, seal, ready, crashes>>

\* A seal that differs from the bundle read raises "frozen inputs changed after
\* cache completion"; a bundle that is still pending is not ready.
CheckSeal(w) ==
    /\ vpc[w] = "seal"
    /\ \/ seal \notin {None, snap[w]} /\ vpc' = [vpc EXCEPT ![w] = "raised"] /\ UNCHANGED ready
       \/ /\ seal \in {None, snap[w]} /\ snap[w] = None
          /\ vpc' = [vpc EXCEPT ![w] = "idle"]
          /\ ready' = [ready EXCEPT ![w] = FALSE]
       \/ /\ seal \in {None, snap[w]} /\ snap[w] # None
          /\ vpc' = [vpc EXCEPT ![w] = "summary"]
          /\ UNCHANGED ready
    /\ UNCHANGED <<runVars, diskVars, seal, snap, crashes>>

\* The cost summary has to name the bundle that was read.
CheckSummary(w) ==
    /\ vpc[w] = "summary"
    /\ IF summary = snap[w]
       THEN vpc' = [vpc EXCEPT ![w] = "sealing"] /\ UNCHANGED ready
       ELSE vpc' = [vpc EXCEPT ![w] = "idle"] /\ ready' = [ready EXCEPT ![w] = FALSE]
    /\ UNCHANGED <<runVars, diskVars, seal, snap, crashes>>

\* Mutant: a worker that finds the seal written by another one leaves it at that.
SealFirst(w) ==
    /\ vpc[w] = "sealing"
    /\ vpc' = [vpc EXCEPT ![w] = "idle"]
    /\ IF seal # None THEN UNCHANGED <<seal, ready>>
       ELSE seal' = snap[w] /\ ready' = [ready EXCEPT ![w] = TRUE]
    /\ UNCHANGED <<runVars, diskVars, snap, crashes>>

\* Under the seed's inputs lock the bundle is sealed, once.
Seal(w) ==
    /\ vpc[w] = "sealing"
    /\ IF seal \notin {None, snap[w]}
       THEN vpc' = [vpc EXCEPT ![w] = "raised"] /\ UNCHANGED <<seal, ready>>
       ELSE /\ seal' = snap[w]
            /\ ready' = [ready EXCEPT ![w] = TRUE]
            /\ vpc' = [vpc EXCEPT ![w] = "idle"]
    /\ UNCHANGED <<runVars, diskVars, snap, crashes>>

VerifyStep(w) == ReadBundle(w) \/ CheckSeal(w) \/ CheckSummary(w) \/ Seal(w)

PrimaryStep(n) ==
    Lock(n) \/ Prepare(n) \/ Share(n) \/ Barrier(n) \/ Export(n) \/ Summarise(n)

RankStep(n, r) == Take(n, r) \/ Write(n, r) \/ PeerLost(n, r)

Next ==
    \/ Launch \/ Reap \/ Crash
    \/ \E n \in Attempts : PrimaryStep(n)
    \/ \E n \in Attempts, r \in Ranks : RankStep(n, r)
    \/ \E w \in Workers : VerifyStep(w)

Spec == Init /\ [][Next]_vars

\* A process that can go on does; every worker verifies again and again, at each
\* claim and each finish.  No attempt is owed, and no crash.
FairSpec ==
    /\ Spec
    /\ \A w \in Workers : WF_vars(VerifyStep(w))
    /\ \A n \in Attempts : WF_vars(PrimaryStep(n))
    /\ \A n \in Attempts, r \in Ranks : WF_vars(RankStep(n, r))

-----------------------------------------------------------------------------
(* Properties.                                                              *)

\* One rank 0 holds the execution lock, however many orphans are alive: attempts
\* never prepare, share out or export beside each other.
ExecExclusive ==
    \A m, n \in Attempts :
        alive[m][0] /\ alive[n][0] /\ phase[m] \in Locked /\ phase[n] \in Locked => m = n

\* A candidate's responses are generated for good: no orphan rank and no later
\* attempt replaces a receipt that is there.
ReceiptsFinal == [][\A c \in Items : receipts[c] # 0 => receipts'[c] = receipts[c]]_vars

\* The rewards that train are those of the raw responses kept beside them.
BundleOfReceipts == bundle # None => bundle = receipts

\* Rank 0 never starts an export it would have to refuse.
ExportComplete ==
    \A n \in Attempts : alive[n][0] /\ phase[n] = "export" => \A c \in Items : receipts[c] # 0

\* A worker starts training tasks only on the sealed bundle, with a cost summary
\* that names it.
ReadyIsSealed ==
    \A w \in Workers : ready[w] => seal # None /\ seal = bundle /\ summary = bundle

\* The bundle is written once, released after it was written, and a worker that
\* has it keeps it.
Handoff == INSTANCE WriteOnce WITH
    Readers  <- Workers,
    Values   <- Bundles,
    value    <- bundle,
    released <- {w \in Workers : ready[w]}
ImplementsHandoff == Handoff!Spec

\* A finished cache reaches every worker, unless its verify() has raised.
ReadyReached ==
    \A w \in Workers : summary # None ~> (ready[w] \/ vpc[w] = "raised")

\* Whatever crashes left on disk, an attempt that then runs alone and undisturbed
\* finishes the cache.
Undisturbed ==
    /\ crashes = MaxCrashes
    /\ launcher # 0 /\ ~peerLost(launcher)
    /\ \A n \in Attempts \ {launcher}, r \in Ranks : ~alive[n][r]
CacheFinishes == Undisturbed ~> summary # None

-----------------------------------------------------------------------------
(* The inductive invariant behind the safety properties.                    *)

\* An attempt that was not launched yet has no process and holds no candidate.
NotLaunched ==
    \A n \in Attempts, r \in Ranks : n > last => ~alive[n][r] /\ writing[n][r] = 0

\* One rank holds a candidate's lock, of a candidate without a receipt.
WriterExclusive ==
    \A m, n \in Attempts : \A q, r \in Ranks :
        alive[n][r] /\ writing[n][r] # 0 =>
            /\ receipts[writing[n][r]] = 0
            /\ alive[m][q] /\ writing[m][q] = writing[n][r] => m = n /\ q = r

\* A candidate an attempt has shared out has its receipt or is still with one of
\* the attempt's ranks; after the barrier every candidate has its receipt.
SharedOut ==
    \A n \in Attempts : \A c \in Items :
        /\ phase[n] = "gen" =>
              receipts[c] # 0 \/ \E r \in Ranks : c \in todo[n][r] \/ writing[n][r] = c
        /\ phase[n] = "export" => receipts[c] # 0

\* Cost summary and seal name the bundle, the seal only after the summary.
Written ==
    /\ bundle # None => bundle = receipts
    /\ summary # None => summary = bundle
    /\ seal # None => seal = bundle /\ summary = bundle
    /\ \A n \in Attempts : phase[n] = "summary" => bundle # None

\* What a worker in verify() has read still holds when it acts on it, but for a
\* bundle that was pending.
Verified ==
    \A w \in Workers :
        /\ snap[w] \in {None, bundle}
        /\ vpc[w] \in {"summary", "sealing"} => snap[w] # None
        /\ vpc[w] = "sealing" => summary = bundle
        /\ ready[w] => seal # None

HInv ==
    /\ TypeOK
    /\ ExecExclusive
    /\ NotLaunched
    /\ WriterExclusive
    /\ SharedOut
    /\ Written
    /\ Verified
=============================================================================
