--------------------------- MODULE SelectionResume ---------------------------
(***************************************************************************)
(* One training task of the model studies under repeated interruptions:    *)
(* the ranks score two blocks of prompts, train, publish the responses of  *)
(* the update and save the checkpoint.  What survives a kill is the        *)
(* checkpoint, the cache of every scoring block (rollouts per prompt, the  *)
(* gradients gathered so far, the whole block's gradients, all bound to a  *)
(* fingerprint of the weights) and the published records.                  *)
(*                                                                         *)
(* A model is the sequence of the outcomes of its updates: an update done  *)
(* again need not come out as before.  The fingerprint of the weights is   *)
(* the model itself.  Rank 0 alone writes shared state besides rollouts;   *)
(* the ranks meet in broadcasts and gathers, and torchrun ends them all    *)
(* when one dies.  A broadcast says which prompts are done; it carries no  *)
(* gradients, so a rank holds those it has gathered or read itself, and    *)
(* one that lacks a prompt's gradient when its block returns fails.        *)
(***************************************************************************)
EXTENDS Naturals, Sequences

CONSTANTS
    World,           \* ranks of the task
    Selection,       \* candidate and SR prompts scored before an update
    Validation,      \* validation prompts scored before an update
    Interval,        \* selection_interval of the plan
    Total,           \* updates of the task
    Outcomes,        \* what one update may turn the weights into
    MaxKills,        \* bound on kills of attempts that have saved no new rollout
    MaxRestores,     \* bound on checkpoints put back from the backup
    None             \* no file, no value

ASSUME SizesAssumption ==
    /\ World \in Nat \ {0} /\ Selection \in Nat \ {0} /\ Validation \in Nat \ {0}
    /\ Interval \in Nat \ {0} /\ Total \in Nat /\ MaxKills \in Nat /\ MaxRestores \in Nat

Ranks  == 0 .. World - 1

Blocks     == {"selection", "validation"}
Prompts(b) == 0 .. (IF b = "selection" THEN Selection ELSE Validation) - 1
\* A block is scored one prompt per rank at a time: ids[start:start + world].
Part(b, c) == {p \in Prompts(b) : p \div World = c}
LastPart(b, c) == Part(b, c + 1) = {}

scoring(m) == Len(m) % Interval = 0
Directories == {s \in 0..Total : s % Interval = 0} \X Blocks

Whole == UNION {{b} \X Prompts(b) : b \in Blocks}

\* No published record and no broadcast is None.
ASSUME NoneAssumption ==
    /\ None \notin [model : Seq(Outcomes), groups : SUBSET Whole]
    /\ \A b \in Blocks : None \notin [hit : BOOLEAN, done : SUBSET Prompts(b)]

-----------------------------------------------------------------------------
VARIABLES
    checkpoint,  \* the model in <task>-latest.pt
    saved,       \* every model that was saved: what the backup may hold
    cache,       \* directory -> its files: [policy, rollouts, partial, result]
    record,      \* update -> its published record [model, groups], or None
    conflict,    \* has a publication met a different record?
    up,          \* is an attempt running?
    model,       \* its weights
    at,          \* rank -> where it is
    box,         \* block -> what rank 0 has broadcast about it, or None
    mem,         \* rank -> block -> prompt -> weights that drew the rollouts behind
                 \*   the gradient the rank holds
    own,         \* rank -> weights that drew the rollouts it has just scored
    traced,      \* prompts whose rollouts passed through the trace capture
    fresh,       \* has the attempt saved a new rollout?
    kills,       \* kills of attempts that had saved nothing
    restores     \* checkpoints put back so far

files   == <<checkpoint, saved, cache, record>>
memory  == <<up, model, at, box, mem, own, traced, fresh>>
bounds  == <<kills, restores>>
vars    == <<conflict, files, memory, bounds>>

EmptyDir(b) == [policy |-> None, rollouts |-> [p \in Prompts(b) |-> None],
                partial |-> None, result |-> None]
NoGradients == [r \in Ranks |-> [b \in Blocks |-> << >>]]

place(p, b, c) == [pc |-> p, block |-> b, part |-> c]
Start(m) == [r \in Ranks |-> place(IF scoring(m) THEN "score" ELSE "train", "selection", 0)]

Init ==
    /\ checkpoint = << >> /\ saved = {<< >>}
    /\ cache = [d \in Directories |-> EmptyDir(d[2])]
    /\ record = [s \in 1..Total |-> None]
    /\ conflict = FALSE
    /\ up = FALSE /\ model = << >> /\ at = Start(<< >>)
    /\ box = [b \in Blocks |-> None] /\ mem = NoGradients
    /\ own = [r \in Ranks |-> None] /\ traced = {} /\ fresh = FALSE
    /\ kills = 0 /\ restores = 0

-----------------------------------------------------------------------------
(* score_gradients: rank 0 decides, the others follow its broadcast.        *)

dir(r) == <<Len(model), at[r].block>>

Is(r, p) == up /\ at[r].pc = p

\* Files that were made by these weights, as policy.sha256 and the file itself say.
usable(d, file) == file # None /\ cache[d].policy = model /\ file.policy = model

foreign(d) == cache[d].policy \notin {None, model}

\* The whole block, scored by these weights.
whole(d) == usable(d, cache[d].result) /\ DOMAIN cache[d].result.of = Prompts(d[2])

\* Where a rank goes when it is done with part c of block b; "back" is the block's
\* return to the engine.
After(r, b, c) ==
    IF ~LastPart(b, c) THEN place("roll", b, c + 1)
    ELSE place(IF r = 0 /\ ~box[b].hit THEN "result" ELSE "back", b, c)

\* Rank 0 finds the whole block.
Reuse ==
    LET b == at[0].block IN
    /\ Is(0, "score") /\ whole(dir(0))
    /\ box' = [box EXCEPT ![b] = [hit |-> TRUE, done |-> Prompts(b)]]
    /\ mem' = [mem EXCEPT ![0][b] = cache[dir(0)].result.of]
    /\ at' = [at EXCEPT ![0] = place("roll", b, 0)]
    /\ UNCHANGED <<conflict, files, up, model, own, traced, fresh, bounds>>

\* Rollouts drawn by other weights are deleted first; a directory without a
\* fingerprint keeps its rollouts.  The fingerprint is written, and rank 0 takes
\* over the gradients gathered by an earlier attempt at these weights.
Begin ==
    LET b == at[0].block
        d == dir(0)
        kept == IF foreign(d) THEN EmptyDir(b) ELSE cache[d]
        taken == IF kept.partial # None /\ kept.partial.policy = model
                 THEN kept.partial.of ELSE << >> IN
    /\ Is(0, "score") /\ ~whole(d)
    /\ cache' = [cache EXCEPT ![d] = [kept EXCEPT !.policy = model]]
    /\ box' = [box EXCEPT ![b] = [hit |-> FALSE, done |-> DOMAIN taken]]
    /\ mem' = [mem EXCEPT ![0][b] = taken]
    /\ at' = [at EXCEPT ![0] = place("roll", b, 0)]
    /\ UNCHANGED <<conflict, checkpoint, saved, record, up, model, own, traced, fresh, bounds>>

\* Another rank reads the whole block itself, or fails; of a block that is done in
\* part it learns which prompts are, and starts without a gradient.
Follow(r) ==
    LET b == at[r].block
        hit == box[b].hit IN
    /\ r # 0 /\ Is(r, "score") /\ box[b] # None
    /\ mem' = [mem EXCEPT ![r][b] =
                  IF hit /\ whole(dir(r)) THEN cache[dir(r)].result.of ELSE << >>]
    /\ at' = [at EXCEPT ![r] = place(IF hit /\ ~whole(dir(r)) THEN "raised" ELSE "roll", b, 0)]
    /\ UNCHANGED <<conflict, files, up, model, box, own, traced, fresh, bounds>>

\* Mutant: only rollouts drawn by this attempt are captured.
heardNew(b, p) == IF cache[<<Len(model), b>>].rollouts[p] = None
                  THEN {<<b, p>>} ELSE {}

\* The trace capture receives what _rollout returns, drawn now or reused.
heard(b, p) == {<<b, p>>}

\* The rollouts of the rank's prompt: those in the cache, or new ones, which are
\* saved.  A part that is done is only replayed, for the trace; otherwise its
\* gradients wait for the other ranks.
Roll(r) ==
    LET b == at[r].block
        c == at[r].part
        p == c * World + r
        d == dir(r)
        found == cache[d].rollouts[p]
        drawn == IF found = None THEN model ELSE found
    IN
    /\ Is(r, "roll")
    /\ IF p \in Prompts(b)
       THEN /\ cache' = [cache EXCEPT ![d].rollouts[p] = drawn]
            /\ own' = [own EXCEPT ![r] = drawn]
            /\ traced' = traced \cup heard(b, p)
            /\ fresh' = (fresh \/ found = None)
       ELSE UNCHANGED <<cache, own, traced, fresh>>
    /\ at' = [at EXCEPT ![r] =
          IF Part(b, c) \subseteq box[b].done THEN After(r, b, c) ELSE place("gather", b, c)]
    /\ UNCHANGED <<conflict, checkpoint, saved, record, up, model, box, mem, bounds>>

\* All ranks meet; each adds the gradients of the whole part to its own.
Gather ==
    \E b \in Blocks : \E c \in 0 .. Selection + Validation :
        /\ up /\ \A r \in Ranks : at[r] = place("gather", b, c)
        /\ mem' = [r \in Ranks |-> [mem[r] EXCEPT ![b] =
              [p \in DOMAIN @ \cup Part(b, c) |->
                  IF p \in Part(b, c) THEN own[p % World] ELSE @[p]]]]
        /\ own' = [r \in Ranks |-> None]
        /\ at' = [r \in Ranks |-> IF r = 0 THEN place("partial", b, c) ELSE After(r, b, c)]
        /\ UNCHANGED <<conflict, files, up, model, box, traced, fresh, bounds>>

SavePartial ==
    LET b == at[0].block IN
    /\ Is(0, "partial")
    /\ cache' = [cache EXCEPT ![dir(0)].partial = [policy |-> model, of |-> mem[0][b]]]
    /\ at' = [at EXCEPT ![0] = After(0, b, @.part)]
    /\ UNCHANGED <<conflict, checkpoint, saved, record, up, model, box, mem, own,
                   traced, fresh, bounds>>

\* Mutant: the block's files are deleted when it returns, as without the patch.
SaveResultGone ==
    /\ Is(0, "result")
    /\ cache' = [cache EXCEPT ![dir(0)] = EmptyDir(at[0].block)]
    /\ at' = [at EXCEPT ![0] = place("back", @.block, @.part)]
    /\ UNCHANGED <<conflict, checkpoint, saved, record, up, model, box, mem, own,
                   traced, fresh, bounds>>

SaveResult ==
    LET b == at[0].block IN
    /\ Is(0, "result")
    /\ cache' = [cache EXCEPT ![dir(0)].result = [policy |-> model, of |-> mem[0][b]]]
    /\ at' = [at EXCEPT ![0] = place("back", @.block, @.part)]
    /\ UNCHANGED <<conflict, checkpoint, saved, record, up, model, box, mem, own,
                   traced, fresh, bounds>>

\* The engine takes the block: "backend must return exactly one gradient per
\* requested prompt", or the rank fails.
Vectors(r) ==
    LET b == at[r].block IN
    /\ Is(r, "back")
    /\ at' = [at EXCEPT ![r] =
          IF DOMAIN mem[r][b] # Prompts(b) THEN place("raised", b, @.part)
          ELSE IF b = "selection" THEN place("score", "validation", 0)
          ELSE place("train", "selection", 0)]
    /\ UNCHANGED <<conflict, files, up, model, box, mem, own, traced, fresh, bounds>>

-----------------------------------------------------------------------------
(* Training, the record of the update, and the checkpoint.                  *)

\* drop_stale: before it trains, rank 0 deletes the blocks of other weights.
Drop ==
    /\ Is(0, "train")
    /\ \E d \in Directories : foreign(d) /\ cache' = [cache EXCEPT ![d] = EmptyDir(d[2])]
    /\ UNCHANGED <<conflict, checkpoint, saved, record, memory, bounds>>

training == up /\ \A r \in Ranks : at[r].pc = "train"

\* The update ends in reductions and a gather: all ranks take it together.
Train ==
    /\ training /\ ~ \E d \in Directories : foreign(d)
    /\ \E o \in Outcomes : model' = Append(model, o)
    /\ at' = [r \in Ranks |-> place("publish", "selection", 0)]
    /\ UNCHANGED <<conflict, files, up, box, mem, own, traced, fresh, bounds>>

NoProcess ==
    /\ model' = << >> /\ at' = Start(<< >>) /\ fresh' = FALSE
Forget ==
    /\ box' = [b \in Blocks |-> None] /\ mem' = NoGradients
    /\ own' = [r \in Ranks |-> None] /\ traced' = {}

document == [model |-> model, groups |-> traced]

\* Mutant: an earlier record of the update is overwritten.
PublishAnyway ==
    /\ up /\ \A r \in Ranks : at[r].pc = "publish"
    /\ record' = [record EXCEPT ![Len(model)] = document]
    /\ at' = [r \in Ranks |-> place("save", "selection", 0)]
    /\ UNCHANGED <<conflict, checkpoint, saved, cache, up, model, box, mem, own,
                   traced, fresh, bounds>>

\* save(): the ranks gather what they captured, and rank 0 publishes it before
\* the checkpoint.  A record that is there already must be the same.
Publish ==
    LET there == record[Len(model)] IN
    /\ up /\ \A r \in Ranks : at[r].pc = "publish"
    /\ there \in {None, document}
    /\ record' = [record EXCEPT ![Len(model)] = document]
    /\ at' = [r \in Ranks |-> place("save", "selection", 0)]
    /\ UNCHANGED <<conflict, checkpoint, saved, cache, up, model, box, mem, own,
                   traced, fresh, bounds>>

\* "saved rollout record differs from this update": the attempt fails.
PublishRefused ==
    /\ up /\ \A r \in Ranks : at[r].pc = "publish"
    /\ record[Len(model)] \notin {None, document}
    /\ conflict' = TRUE
    /\ up' = FALSE /\ Forget /\ NoProcess
    /\ UNCHANGED <<files, bounds>>

\* The next update begins; after the last one the runner evaluates and ends.
SaveCheckpoint ==
    /\ up /\ \A r \in Ranks : at[r].pc = "save"
    /\ checkpoint' = model /\ saved' = saved \cup {model}
    /\ Forget
    /\ IF Len(model) < Total THEN at' = Start(model) /\ UNCHANGED <<up, model, fresh>>
                             ELSE up' = FALSE /\ NoProcess
    /\ UNCHANGED <<conflict, cache, record, bounds>>

\* An attempt that was refused is the last: the bound on refusals.
Launch ==
    /\ ~up /\ ~conflict /\ Len(checkpoint) < Total
    /\ up' = TRUE /\ model' = checkpoint /\ at' = Start(checkpoint)
    /\ UNCHANGED <<conflict, files, box, mem, own, traced, fresh, bounds>>

-----------------------------------------------------------------------------
(* The environment.                                                         *)

\* What a deletion that was cut short may leave.  rmtree takes the files in any
\* order; with the fingerprint still there the directory is as stale as before and
\* is deleted again, so the cases that count are those where it went early.
Leftovers(d) ==
    {[policy |-> None, rollouts |-> r, partial |-> f[1], result |-> f[2]] :
        r \in {EmptyDir(d[2]).rollouts, cache[d].rollouts},
        f \in {<<None, None>>, <<cache[d].partial, cache[d].result>>}}

deleting(d) == foreign(d) /\ (Is(0, "train") \/ (Is(0, "score") /\ d = dir(0)))

\* All ranks are ended, rank 0 perhaps within a deletion.
Ends ==
    /\ \/ UNCHANGED cache
       \/ \E d \in Directories :
             deleting(d) /\ \E left \in Leftovers(d) : cache' = [cache EXCEPT ![d] = left]
    /\ up' = FALSE /\ Forget /\ NoProcess
    /\ UNCHANGED <<conflict, checkpoint, saved, record, restores>>

\* A rank has failed: torchrun ends the others, wherever they have got to.
RankFailed ==
    /\ up /\ \E r \in Ranks : at[r].pc = "raised"
    /\ Ends /\ UNCHANGED kills

\* A node is taken away, a rank runs out of memory or stalls.  An attempt that has
\* saved a new rollout may be killed any number of times.
Kill ==
    /\ up /\ Ends
    /\ \/ fresh /\ UNCHANGED kills
       \/ kills < MaxKills /\ kills' = kills + 1

\* The operator puts an older checkpoint back from the backup.
Restore ==
    /\ ~up /\ restores < MaxRestores /\ restores' = restores + 1
    /\ checkpoint' \in saved \ {checkpoint}
    /\ UNCHANGED <<conflict, saved, cache, record, memory, kills>>

-----------------------------------------------------------------------------
Step ==
    \/ Launch \/ Reuse \/ Begin \/ Gather \/ SavePartial \/ SaveResult
    \/ \E r \in Ranks : Follow(r) \/ Roll(r) \/ Vectors(r)
    \/ RankFailed
    \/ Drop \/ Train \/ Publish \/ PublishRefused \/ SaveCheckpoint

Next == Step \/ Kill \/ Restore

Spec == Init /\ [][Next]_vars

\* An attempt that can go on does, and an attempt is launched again.
FairSpec == Spec /\ WF_vars(Step)

-----------------------------------------------------------------------------
(* Properties.                                                              *)

\* "Rollouts drawn by other weights are never reused": when an update trains
\* after a refresh, every rank holds a gradient of every prompt of both blocks,
\* and the rollouts behind each one were drawn by the weights about to be
\* trained, whether the rank gathered it, took it over from an earlier attempt
\* or read it with a whole block, and whatever attempts, half-deleted directories
\* and restored checkpoints the files come from.
SelectionIsOwn ==
    training /\ scoring(model) =>
        \A r \in Ranks, b \in Blocks : mem[r][b] = [p \in Prompts(b) |-> model]

\* The published records are those of the saved model: one for each of its
\* updates, made by that very update, with every scoring group in it, also
\* when the update resumed blocks of earlier attempts.
RecordsOfModel ==
    \A s \in 1..Len(checkpoint) :
        /\ record[s] # None
        /\ record[s].model = SubSeq(checkpoint, 1, s)
        /\ scoring(SubSeq(checkpoint, 1, s - 1)) =>
              record[s].groups = Whole

\* Rank 0 is still in the block that another rank's failure is about.
overtaken ==
    \E r \in Ranks :
        /\ at[r].pc = "raised" /\ at[0].block = at[r].block
        /\ at[0].pc \in {"roll", "gather", "partial", "result"}

\* Training gets to its end although attempts are killed again and again, as
\* long as each one saves a new rollout or needs none; only an update that came
\* out differently from its published record stops it.  An attempt that takes
\* over the gradients of a part fails on the ranks that lack them, so there is a
\* condition: not for ever is such an attempt ended before rank 0, which lacks
\* none, has saved the whole block for the next one.
TrainingMovesOn ==
    \/ <>[](Len(checkpoint) = Total \/ conflict)
    \/ []<><<RankFailed /\ overtaken>>_vars

\* "keep every finished slice, so an attempt that runs out of memory part way
\* resumes after it": what rank 0 broadcasts as done, every rank has when the
\* block returns.  It does not hold (see README, section 4).
ResumesAfterSlice ==
    \A r \in Ranks : Is(r, "back") =>
        box[at[r].block].done \subseteq DOMAIN mem[r][at[r].block]
=============================================================================
