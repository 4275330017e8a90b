------------------------ MODULE SelectionResumeProofs ------------------------
(***************************************************************************)
(* Proofs about SelectionResume, for any number of ranks, any sizes of the *)
(* blocks, any interval and any outcomes: a rank trains on gradients of    *)
(* the update's own weights alone, and on all of them, and the published   *)
(* records are those of the saved model, whatever is killed, half deleted  *)
(* or put back from the backup, and on whichever rank an attempt fails.    *)
(***************************************************************************)
EXTENDS SelectionResume, SequenceTheorems, TLAPS

(* The files: everything in a directory is of the one saved model of its step. *)
Mine(s) == {m \in saved : Len(m) = s}
Gradients(b, M) == UNION {[D -> M] : D \in SUBSET Prompts(b)}
Files(s, b) == {None} \cup [policy : Mine(s), of : Gradients(b, Mine(s))]
Folder(s, b) == [policy   : {None} \cup Mine(s),
                 rollouts : [Prompts(b) -> {None} \cup Mine(s)],
                 partial  : Files(s, b),
                 result   : Files(s, b)]
Cached ==
    /\ DOMAIN cache = Directories
    /\ \A d \in Directories : cache[d] \in Folder(d[1], d[2])

(* The records of every saved model; so no two of them have the same length. *)
Documents == [model : Seq(Outcomes), groups : SUBSET Whole]
Documented(m) ==
    \A s \in 1..Len(m) :
        /\ record[s] # None
        /\ record[s].model = SubSeq(m, 1, s)
        /\ (s - 1) % Interval = 0 => record[s].groups = Whole
Saved ==
    /\ saved \subseteq Seq(Outcomes) /\ checkpoint \in saved /\ << >> \in saved
    /\ \A m \in saved : Len(m) <= Total
    /\ record \in [1..Total -> {None} \cup Documents]
    /\ \A m \in saved : Documented(m)

(* Where a rank is: it is done with a block, or in it and has rolled out its      *)
(* prompts of some parts; one that has failed is nowhere.                         *)
Working == {"score", "roll", "gather", "partial", "result", "back", "raised", "train"}
Places == [pc : Working \cup {"publish", "save"}, block : Blocks, part : Nat]

Finished(x, b) == x.pc = "train" \/ (b = "selection" /\ x.block = "validation")
Inside(x, b) == x.block = b /\ x.pc \notin {"score", "train", "raised"}
Past(x, b) == Finished(x, b) \/ Inside(x, b)
Waits(x, b) == ~Past(x, b) /\ x.pc # "raised"
Rolled(x, b, c) ==
    \/ Finished(x, b)
    \/ Inside(x, b) /\ IF x.pc = "roll" THEN c < x.part ELSE c <= x.part

Clean == box = [b \in Blocks |-> None] /\ mem = NoGradients /\ traced = {}
Memory ==
    /\ at \in [Ranks -> Places]
    /\ model \in Seq(Outcomes)
    /\ traced \subseteq Whole
    /\ DOMAIN own = Ranks /\ DOMAIN box = Blocks
    /\ DOMAIN mem = Ranks /\ \A r \in Ranks : DOMAIN mem[r] = Blocks
    /\ up \in BOOLEAN
    /\ ~up => Clean

(* Before the update what the ranks hold is of the model, and all of a block they *)
(* are done with; no rank is in a block before rank 0 has broadcast its state.    *)
Ready ==
    /\ model \in saved /\ (up => Len(model) < Total)
    /\ \A r \in Ranks : at[r].pc \in Working /\ (at[r].pc # "train" => scoring(model))
Heard(b) ==
    /\ \A r \in Ranks : mem[r][b] \in Gradients(b, {model})
    /\ scoring(model) /\ box[b] = None => \A r \in Ranks : ~Past(at[r], b)
    /\ Waits(at[0], b) => box[b] = None
Holds(r, b, c) ==
    /\ scoring(model) /\ Finished(at[r], b) => DOMAIN mem[r][b] = Prompts(b)
    /\ scoring(model) /\ Rolled(at[r], b, c) /\ c * World + r \in Prompts(b)
          => <<b, c * World + r>> \in traced
    /\ at[r] = place("gather", b, c) /\ c * World + r \in Prompts(b) => own[r] = model
    /\ at[r] \in {place("result", b, c), place("back", b, c)} => LastPart(b, c)
Scored ==
    /\ Ready
    /\ \A b \in Blocks : Heard(b)
    /\ \A r \in Ranks, b \in Blocks, c \in Nat : Holds(r, b, c)

(* After it: the model is a saved one with an update more. *)
All(p) == \A r \in Ranks : at[r].pc = p
Trained ==
    /\ up /\ Len(model) <= Total
    /\ \E m \in saved, o \in Outcomes :
          model = Append(m, o) /\ (scoring(m) => traced = Whole)
    /\ All("publish") \/ (All("save") /\ record[Len(model)] = document)

IInv == Cached /\ Saved /\ Memory /\ (Scored \/ Trained)

-----------------------------------------------------------------------------
(* Parts of a block.                                                        *)

\* Whole multiples: the quotient and the remainder of what a rank counts.
LEMMA Shares ==
    ASSUME NEW W \in Nat \ {0}, NEW c \in Nat, NEW r \in 0..W-1
    PROVE  /\ c * W + r \in Nat
           /\ (c * W + r) \div W = c
           /\ (c * W + r) % W = r
<1> DEFINE n == c * W + r
           q == n \div W
           k == n % W
<1>1. n \in Nat
      OBVIOUS
<1>2. n = W * q + k /\ q \in Int /\ k \in 0..W-1
      BY <1>1
<1>3. W * (c - q) = k - r
      BY <1>2
<1> HIDE DEF n, q, k
<1>4. c = q
      <2>1. CASE c - q >= 1
            <3>1. W * (c - q) >= W
                  BY <1>2, <2>1
            <3> QED
                BY <1>2, <1>3, <3>1
      <2>2. CASE q - c >= 1
            <3>1. W * (q - c) >= W
                  BY <1>2, <2>2
            <3>2. W * (q - c) = r - k
                  BY <1>2, <1>3
            <3> QED
                BY <1>2, <3>1, <3>2
      <2> QED
          BY <1>2, <2>1, <2>2
<1>5. W * (c - q) = 0
      BY <1>2, <1>4
<1>6. k = r
      BY <1>2, <1>3, <1>5
<1> QED
    BY <1>1, <1>4, <1>6 DEF n, q, k

\* Every number is the share of one rank in one part.
LEMMA Shared ==
    ASSUME NEW W \in Nat \ {0}, NEW p \in Nat
    PROVE  /\ p \div W \in Nat /\ p % W \in 0..W-1
           /\ p = (p \div W) * W + (p % W)
<1>1. p = W * (p \div W) + (p % W) /\ p \div W \in Int /\ p % W \in 0..W-1
      OBVIOUS
<1>2. p \div W >= 0
      <2>1. CASE p \div W <= -1
            <3> DEFINE q == p \div W
            <3>1. q \in Int /\ q <= -1 /\ p = W * q + (p % W)
                  BY <1>1, <2>1
            <3> HIDE DEF q
            <3>2. W * (-q) >= W
                  BY <3>1
            <3>3. W * q = -(W * (-q))
                  BY <3>1
            <3> QED
                BY <1>1, <3>1, <3>2, <3>3
      <2> QED
          BY <1>1, <2>1
<1> QED
    BY <1>1, <1>2

\* The prompts of a block are the numbers below its size.
LEMMA PromptsBelow ==
    ASSUME SizesAssumption, NEW b \in Blocks
    PROVE  Prompts(b) \subseteq Nat /\ \A p \in Prompts(b), q \in Nat : q <= p => q \in Prompts(b)
BY DEF SizesAssumption, Prompts, Blocks

\* The part of a block its c-th turn scores, rank by rank.
LEMMA PartShares ==
    ASSUME SizesAssumption, NEW b \in Blocks, NEW c \in Nat
    PROVE  /\ \A p \in Part(b, c) : p % World \in Ranks /\ p = c * World + (p % World)
           /\ \A r \in Ranks : c * World + r \in Prompts(b) => c * World + r \in Part(b, c)
<1>1. World \in Nat \ {0} /\ Ranks = 0..World-1
      BY DEF SizesAssumption, Ranks
<1>2. ASSUME NEW p \in Part(b, c) PROVE p % World \in Ranks /\ p = c * World + (p % World)
      <2>1. p \in Nat /\ p \div World = c
            BY <1>2, PromptsBelow DEF Part
      <2> QED
          BY <1>1, <2>1, Shared
<1>3. ASSUME NEW r \in Ranks, c * World + r \in Prompts(b) PROVE c * World + r \in Part(b, c)
      <2>1. (c * World + r) \div World = c
            BY <1>1, <1>3, Shares
      <2> QED
          BY <1>3, <2>1 DEF Part
<1> QED
    BY <1>2, <1>3

\* After the last part there is none.
LEMMA NoMoreParts ==
    ASSUME SizesAssumption, NEW b \in Blocks, NEW c \in Nat, LastPart(b, c), NEW k \in Nat, k > c
    PROVE  /\ Part(b, k) = {}
           /\ \A r \in Ranks : k * World + r \notin Prompts(b)
<1>1. World \in Nat \ {0} /\ 0 \in Ranks /\ Ranks = 0..World-1
      BY DEF SizesAssumption, Ranks
<1>2. ASSUME NEW p \in Part(b, k) PROVE FALSE
      <2>1. p \in Prompts(b) /\ p \in Nat /\ p % World \in Nat /\ p = k * World + (p % World)
            BY <1>1, <1>2, PromptsBelow, PartShares DEF Part
      <2>2. (c + 1) * World <= k * World /\ k * World \in Nat /\ (c + 1) * World \in Nat
            <3>1. PICK e \in Nat : k = (c + 1) + e
                  <4>1. k - (c + 1) \in Nat /\ k = (c + 1) + (k - (c + 1))
                        OBVIOUS
                  <4> QED
                      BY <4>1
            <3>2. e * World \in Nat
                  BY <1>1
            <3>3. k * World = (c + 1) * World + e * World
                  BY <1>1, <3>1
            <3> QED
                BY <1>1, <3>2, <3>3
      <2>3. (c + 1) * World + 0 <= p
            BY <2>1, <2>2
      <2>4. (c + 1) * World + 0 \in Nat
            BY <2>2
      <2>5. (c + 1) * World + 0 \in Prompts(b)
            BY <2>1, <2>3, <2>4, PromptsBelow
      <2>6. (c + 1) * World + 0 \in Part(b, c + 1)
            <3>1. ((c + 1) * World + 0) \div World = c + 1
                  BY <1>1, Shares
            <3> QED
                BY <2>5, <3>1 DEF Part
      <2> QED
          BY <2>6 DEF LastPart
<1>3. Part(b, k) = {}
      BY <1>2
<1> QED
    BY <1>3, PartShares

-----------------------------------------------------------------------------
(* Places.                                                                  *)

LEMMA FieldsOf ==
    ASSUME NEW p, NEW b, NEW c
    PROVE  place(p, b, c).pc = p /\ place(p, b, c).block = b /\ place(p, b, c).part = c
BY DEF place

\* A place is its three fields.
LEMMA PlaceFields ==
    ASSUME NEW x \in Places
    PROVE  /\ x = place(x.pc, x.block, x.part)
           /\ x.pc \in Working \cup {"publish", "save"} /\ x.block \in Blocks /\ x.part \in Nat
BY DEF Places, place

\* Where ranks start.
LEMMA StartPlaces ==
    ASSUME NEW m, NEW r \in Ranks
    PROVE  /\ Start(m) \in [Ranks -> Places]
           /\ Start(m)[r] = place(IF scoring(m) THEN "score" ELSE "train", "selection", 0)
           /\ Start(m)[r].pc = IF scoring(m) THEN "score" ELSE "train"
           /\ scoring(m) => \A b \in Blocks : ~Past(Start(m)[r], b)
BY DEF Start, Places, Working, place, Blocks, Past, Finished, Inside

\* A rank that enters a block from its broadcast, or fails there.
LEMMA Enters ==
    ASSUME NEW b \in Blocks, NEW c \in Nat, NEW e \in Blocks, NEW k \in Nat,
           NEW p \in {"roll", "raised"},
           NEW x, x = place("score", b, c), NEW y, y = place(p, b, 0)
    PROVE  /\ y \in Places /\ y.pc = p
           /\ Past(y, e) => Past(x, e) \/ e = b
           /\ Waits(y, e) => Waits(x, e) /\ e # b
           /\ Waits(x, b) /\ ~Past(x, b) /\ ~Finished(x, b)
           /\ Finished(y, e) => Finished(x, e)
           /\ Rolled(y, e, k) => Rolled(x, e, k)
           /\ y # place("gather", e, k)
           /\ y \notin {place("result", e, k), place("back", e, k)}
BY DEF Places, Working, place, Blocks, Past, Finished, Inside, Rolled, Waits

\* Where a rank is within a part.
LEMMA Within ==
    ASSUME NEW b \in Blocks, NEW c \in Nat, NEW e \in Blocks, NEW k \in Nat,
           NEW p \in {"roll", "gather", "partial", "result", "back"},
           NEW x, x = place(p, b, c)
    PROVE  /\ x \in Places /\ x.pc = p
           /\ Past(x, b) /\ ~Finished(x, b)
           /\ Past(x, e) <=> Past(place("roll", b, c), e)
           /\ Waits(x, e) <=> ~Past(x, e)
           /\ Finished(x, e) <=> Finished(place("roll", b, c), e)
           /\ Rolled(x, e, k) <=> Rolled(place("roll", b, c), e, k) \/ (p # "roll" /\ e = b /\ k = c)
           /\ x = place("gather", e, k) => p = "gather" /\ e = b /\ k = c
           /\ x \in {place("result", e, k), place("back", e, k)}
                 => p \in {"result", "back"} /\ e = b /\ k = c
BY DEF Places, Working, place, Blocks, Past, Finished, Inside, Rolled, Waits

\* A rank leaves a part for the next one, or after the last for what follows.
Leaves(y, b, c) ==
    \/ ~LastPart(b, c) /\ y = place("roll", b, c + 1)
    \/ LastPart(b, c) /\ y \in {place("result", b, c), place("back", b, c)}

LEMMA LeavesPart ==
    ASSUME NEW b \in Blocks, NEW c \in Nat, NEW e \in Blocks, NEW k \in Nat,
           NEW y, Leaves(y, b, c)
    PROVE  /\ y \in Places /\ y.pc \in Working
           /\ Past(y, e) <=> Past(place("roll", b, c), e)
           /\ Waits(y, e) <=> ~Past(y, e)
           /\ Finished(y, e) <=> Finished(place("roll", b, c), e)
           /\ Rolled(y, e, k) => Rolled(place("roll", b, c), e, k) \/ (e = b /\ k = c)
           /\ y # place("gather", e, k)
           /\ y \in {place("result", e, k), place("back", e, k)} => LastPart(e, k)
<1>1. CASE ~LastPart(b, c) /\ y = place("roll", b, c + 1)
      BY <1>1 DEF Places, Working, place, Blocks, Past, Finished, Inside, Rolled, Waits
<1>2. CASE LastPart(b, c) /\ y \in {place("result", b, c), place("back", b, c)}
      BY <1>2 DEF Places, Working, place, Blocks, Past, Finished, Inside, Rolled, Waits
<1> QED
    BY <1>1, <1>2 DEF Leaves

\* After() leaves the part.
LEMMA AfterLeaves ==
    ASSUME NEW r \in Ranks, NEW b \in Blocks, NEW c \in Nat
    PROVE  Leaves(After(r, b, c), b, c)
BY DEF After, Leaves

\* Where the engine takes a rank whose block returns.
Taken(b) == IF b = "selection" THEN place("score", "validation", 0)
            ELSE place("train", "selection", 0)

\* A rank whose block returns goes on, or fails.
LEMMA Returns ==
    ASSUME SizesAssumption, NEW b \in Blocks, NEW c \in Nat, LastPart(b, c),
           NEW e \in Blocks, NEW k \in Nat, NEW r \in Ranks,
           NEW x, x = place("back", b, c),
           NEW y \in {Taken(b), place("raised", b, c)}
    PROVE  /\ y \in Places /\ y.pc \in Working
           /\ Past(y, e) => Past(x, e)
           /\ Waits(y, e) => Waits(x, e)
           /\ Finished(y, e) => Finished(x, e) \/ (y = Taken(b) /\ e = b)
           /\ Rolled(y, e, k) => Rolled(x, e, k) \/ (e = b /\ k * World + r \notin Prompts(b))
           /\ y # place("gather", e, k)
           /\ y \notin {place("result", e, k), place("back", e, k)}
<1>1. k > c => k * World + r \notin Prompts(b)
      BY NoMoreParts
<1>2. CASE y = Taken(b)
      BY <1>1, <1>2
      DEF Taken, Places, Working, place, Blocks, Past, Finished, Inside, Rolled, Waits
<1>3. CASE y = place("raised", b, c)
      BY <1>3
      DEF Taken, Places, Working, place, Blocks, Past, Finished, Inside, Rolled, Waits
<1> QED
    BY <1>2, <1>3

-----------------------------------------------------------------------------
(* The files.                                                               *)

\* Gradients of some prompts of a block, of weights of M.
LEMMA GradientsOf ==
    ASSUME NEW b, NEW M, NEW g
    PROVE  g \in Gradients(b, M) <=> DOMAIN g \subseteq Prompts(b) /\ g \in [DOMAIN g -> M]
BY DEF Gradients

\* None yet.
LEMMA NoneYet ==
    ASSUME NEW b, NEW M
    PROVE  << >> \in Gradients(b, M)
<1>1. DOMAIN << >> = {} /\ << >> \in [{} -> M]
      OBVIOUS
<1> QED
    BY <1>1, GradientsOf

\* Gradients of fewer weights.
LEMMA GradientsGrow ==
    ASSUME NEW b, NEW M, NEW N, M \subseteq N
    PROVE  Gradients(b, M) \subseteq Gradients(b, N)
BY DEF Gradients

\* The records keep apart the saved models of one step: there is one.
LEMMA OneEach ==
    ASSUME Saved, NEW m \in saved
    PROVE  Mine(Len(m)) = {m}
<1>1. ASSUME NEW n \in saved, Len(n) = Len(m) PROVE n = m
      <2>1. m \in Seq(Outcomes) /\ n \in Seq(Outcomes)
            BY DEF Saved
      <2>2. CASE Len(m) = 0
            BY <1>1, <2>1, <2>2
      <2>3. CASE Len(m) # 0
            <3>1. Len(m) \in 1..Len(m) /\ Len(m) \in 1..Len(n)
                  BY <1>1, <2>1, <2>3
            <3>2. SubSeq(m, 1, Len(m)) = m /\ SubSeq(n, 1, Len(n)) = n
                  BY <2>1
            <3>3. record[Len(m)].model = SubSeq(m, 1, Len(m))
                  /\ record[Len(m)].model = SubSeq(n, 1, Len(m))
                  BY <3>1 DEF Saved, Documented
            <3> QED
                BY <1>1, <3>2, <3>3
      <2> QED
          BY <2>2, <2>3
<1> QED
    BY <1>1 DEF Mine

\* The directory an attempt is at work on, with files of its own weights alone.
LEMMA OwnFolder ==
    ASSUME Cached, Saved, model \in saved, Len(model) < Total, scoring(model), NEW b \in Blocks
    PROVE  /\ <<Len(model), b>> \in Directories
           /\ Mine(Len(model)) = {model}
           /\ cache[<<Len(model), b>>] \in Folder(Len(model), b)
<1>1. Len(model) \in Nat /\ Total \in Nat
      BY SizesAssumption DEF Saved, SizesAssumption
<1>2. <<Len(model), b>> \in Directories
      BY <1>1 DEF Directories, scoring
<1>3. cache[<<Len(model), b>>] \in Folder(Len(model), b)
      BY <1>2 DEF Cached
<1> QED
    BY <1>2, <1>3, OneEach

\* An empty directory is as good as any.
LEMMA EmptyFolder ==
    ASSUME NEW s, NEW b
    PROVE  EmptyDir(b) \in Folder(s, b)
BY DEF EmptyDir, Folder, Files

\* As long as nothing is saved the files are as good as they were.
LEMMA SameFolders ==
    ASSUME saved' = saved, NEW s, NEW b
    PROVE  Folder(s, b)' = Folder(s, b)
BY DEF Folder, Files, Mine

LEMMA CachedStays ==
    ASSUME Cached, saved' = saved, cache' = cache
    PROVE  Cached'
BY SameFolders DEF Cached

\* One directory is replaced.
LEMMA CachedChanges ==
    ASSUME Cached, saved' = saved, NEW d \in Directories, NEW f \in Folder(d[1], d[2]),
           cache' = [cache EXCEPT ![d] = f]
    PROVE  Cached'
<1>1. DOMAIN cache' = Directories
      BY DEF Cached
<1>2. ASSUME NEW e \in Directories PROVE cache'[e] \in Folder(e[1], e[2])
      BY <1>1 DEF Cached
<1> QED
    BY <1>1, <1>2, SameFolders DEF Cached

\* Nothing is published or saved, though an older checkpoint may come back.
LEMMA SavedStays ==
    ASSUME Saved, saved' = saved, record' = record, checkpoint' \in saved
    PROVE  Saved'
BY DEF Saved, Documented

-----------------------------------------------------------------------------
(* An attempt that begins an update, or none at all.                        *)

Begins ==
    /\ saved \subseteq Seq(Outcomes) /\ model \in saved
    /\ up \in BOOLEAN /\ (up => Len(model) < Total)
    /\ at = Start(model) /\ DOMAIN own = Ranks /\ Clean

\* It holds nothing, and is where that is enough.
LEMMA Started == Begins => Memory /\ Scored
<1> SUFFICES ASSUME Begins PROVE Memory /\ Scored
    OBVIOUS
<1>1. at \in [Ranks -> Places]
      BY StartPlaces DEF Begins, Start
<1>2. ASSUME NEW r \in Ranks
      PROVE  /\ at[r].pc = IF scoring(model) THEN "score" ELSE "train"
             /\ at[r] = place(at[r].pc, "selection", 0)
             /\ scoring(model) => \A b \in Blocks : ~Past(at[r], b)
      BY StartPlaces DEF Begins
<1>3. Memory
      BY <1>1 DEF Begins, Memory, Clean, NoGradients
<1>4. Ready
      BY <1>2 DEF Begins, Ready, Working
<1>5. ASSUME NEW b \in Blocks PROVE Heard(b)
      <2>1. box[b] = None /\ \A r \in Ranks : mem[r][b] = << >>
            BY DEF Begins, Clean, NoGradients
      <2> QED
          BY <1>2, <2>1, NoneYet DEF Heard
<1>6. ASSUME NEW r \in Ranks, NEW b \in Blocks, NEW c \in Nat PROVE Holds(r, b, c)
      <2>1. /\ at[r] # place("gather", b, c)
            /\ at[r] \notin {place("result", b, c), place("back", b, c)}
            BY <1>2, FieldsOf
      <2>2. scoring(model) => ~Finished(at[r], b) /\ ~Rolled(at[r], b, c)
            BY <1>2 DEF Past, Rolled
      <2> QED
          BY <2>1, <2>2 DEF Holds
<1> QED
    BY <1>3, <1>4, <1>5, <1>6 DEF Scored

LEMMA StartedNext == Begins' => Memory' /\ Scored'
BY Started, PTL

-----------------------------------------------------------------------------
(* The steps of an attempt that scores.                                     *)

\* While a rank is at work the update has not been trained.
LEMMA AtWork ==
    ASSUME IInv, NEW r \in Ranks, at[r].pc \in Working
    PROVE  Scored
BY DEF IInv, Trained, All, Working

\* A rank that stays where it was needs no more than it had.
LEMMA Unmoved ==
    ASSUME NEW q, NEW e, NEW k, Holds(q, e, k),
           at'[q] = at[q], own'[q] = own[q], model' = model,
           mem'[q][e] = mem[q][e] \/ ~Finished(at[q], e), traced \subseteq traced'
    PROVE  Holds(q, e, k)'
BY DEF Holds

\* Nothing is broadcast and no rank enters a block.
LEMMA StillHeard ==
    ASSUME NEW e, Heard(e), box'[e] = box[e], model' = model,
           \A q \in Ranks : mem'[q][e] \in Gradients(e, {model}),
           \A q \in Ranks : Past(at'[q], e) => Past(at[q], e),
           Waits(at'[0], e) => Waits(at[0], e)
    PROVE  Heard(e)'
BY DEF Heard

\* A rank moves on in its block.
LEMMA StillReady ==
    ASSUME Ready, NEW r \in Ranks, NEW y, y.pc \in Working, scoring(model),
           at \in [Ranks -> Places], at' = [at EXCEPT ![r] = y],
           saved' = saved, model' = model, up' = up
    PROVE  Ready'
BY DEF Ready

\* One rank moves within its block, or out of it, and what it has behind it is there.
Moves(r, y) ==
    /\ y \in Places /\ y.pc \in Working
    /\ \A e \in Blocks : (Past(y, e) => Past(at[r], e)) /\ (Waits(y, e) => Waits(at[r], e))
    /\ at' = [at EXCEPT ![r] = y]
    /\ \A q \in Ranks \ {r} : own'[q] = own[q]
    /\ traced \subseteq traced'
    /\ model' = model /\ saved' = saved /\ up' = up /\ mem' = mem /\ box' = box

Enough(r, y) ==
    \A e \in Blocks, k \in Nat :
        /\ Finished(y, e) => DOMAIN mem[r][e] = Prompts(e)
        /\ Rolled(y, e, k) /\ k * World + r \in Prompts(e)
              => <<e, k * World + r>> \in traced'
        /\ y = place("gather", e, k) /\ k * World + r \in Prompts(e) => own'[r] = model
        /\ y \in {place("result", e, k), place("back", e, k)} => LastPart(e, k)

LEMMA ScoredMoves ==
    ASSUME SizesAssumption, Memory, Scored, scoring(model), NEW r \in Ranks,
           NEW y, Moves(r, y), Enough(r, y)
    PROVE  Scored'
<1>1. 0 \in Ranks /\ at \in [Ranks -> Places]
      BY DEF SizesAssumption, Ranks, Memory
<1>2. at'[r] = y /\ \A q \in Ranks \ {r} : at'[q] = at[q]
      BY <1>1 DEF Moves
<1>3. Ready'
      BY <1>1, StillReady DEF Scored, Moves
<1>4. ASSUME NEW e \in Blocks PROVE Heard(e)'
      <2>1. Heard(e)
            BY DEF Scored
      <2>2. \A q \in Ranks : Past(at'[q], e) => Past(at[q], e)
            BY <1>2 DEF Moves
      <2>3. Waits(at'[0], e) => Waits(at[0], e)
            BY <1>1, <1>2 DEF Moves
      <2>4. \A q \in Ranks : mem'[q][e] \in Gradients(e, {model})
            BY <2>1 DEF Moves, Heard
      <2> QED
          BY <2>1, <2>2, <2>3, <2>4, StillHeard DEF Moves
<1>5. ASSUME NEW q \in Ranks, NEW e \in Blocks, NEW k \in Nat PROVE Holds(q, e, k)'
      <2>1. CASE q # r
            BY <1>2, <2>1, Unmoved DEF Scored, Moves
      <2>2. CASE q = r
            BY <1>2, <2>2 DEF Enough, Moves, Holds
      <2> QED
          BY <2>1, <2>2
<1> QED
    BY <1>3, <1>4, <1>5 DEF Scored

LEMMA MemoryMoves ==
    ASSUME Memory, up, NEW r \in Ranks, NEW y, Moves(r, y), traced' \subseteq Whole,
           DOMAIN own' = Ranks
    PROVE  Memory'
BY DEF Memory, Moves

\* What a rank that scores works with.
LEMMA AtScoring ==
    ASSUME IInv, up, NEW r \in Ranks, NEW p \in Working \ {"train"}, at[r].pc = p
    PROVE  /\ Scored /\ scoring(model) /\ model \in saved /\ Len(model) < Total
           /\ at[r].block \in Blocks /\ at[r].part \in Nat
           /\ at[r] = place(p, at[r].block, at[r].part)
           /\ dir(r) = <<Len(model), at[r].block>> /\ dir(r) \in Directories
           /\ Mine(Len(model)) = {model}
           /\ cache[dir(r)] \in Folder(Len(model), at[r].block)
<1>1. Scored
      BY AtWork
<1>2. scoring(model) /\ model \in saved /\ Len(model) < Total
      BY <1>1 DEF Scored, Ready
<1>3. at[r] \in Places
      BY DEF IInv, Memory
<1>4. at[r].block \in Blocks /\ at[r].part \in Nat /\ at[r] = place(p, at[r].block, at[r].part)
      BY <1>3, PlaceFields
<1>5. dir(r) = <<Len(model), at[r].block>>
      BY DEF dir
<1> QED
    BY <1>1, <1>2, <1>4, <1>5, OwnFolder DEF IInv

\* A rank enters a block with gradients of the model, or fails there: rank 0 with
\* its broadcast, when no rank is in the block yet, another one after it.
Entering(r, p, b, g) ==
    /\ at[r].pc = "score" /\ at[r].block = b /\ p \in {"roll", "raised"}
    /\ g \in Gradients(b, {model})
    /\ mem' = [mem EXCEPT ![r][b] = g]
    /\ at' = [at EXCEPT ![r] = place(p, b, 0)]
    /\ own' = own /\ traced' = traced /\ model' = model /\ saved' = saved /\ up' = up

Told(r, b, x) ==
    \/ /\ r = 0 /\ x \in [hit : BOOLEAN, done : SUBSET Prompts(b)]
       /\ box' = [box EXCEPT ![b] = x]
    \/ r # 0 /\ box[b] # None /\ box' = box

LEMMA ScoredEnters ==
    ASSUME IInv, up, NEW r \in Ranks, NEW p, NEW b, NEW g, NEW x,
           Entering(r, p, b, g), Told(r, b, x)
    PROVE  Memory' /\ Scored'
<1>1. 0 \in Ranks
      BY SizesAssumption DEF SizesAssumption, Ranks
<1>2. "score" \in Working \ {"train"} /\ p \in Working /\ p \in {"roll", "raised"}
      BY DEF Working, Entering
<1>3. /\ Scored /\ scoring(model) /\ b \in Blocks
      /\ at[r] = place("score", b, at[r].part) /\ at[r].part \in Nat
      BY <1>2, AtScoring DEF Entering
<1>4. PICK y : y = place(p, b, 0)
      OBVIOUS
<1>5. ASSUME NEW e \in Blocks, NEW k \in Nat
      PROVE  /\ y \in Places /\ y.pc = p
             /\ Past(y, e) => Past(at[r], e) \/ e = b
             /\ Waits(y, e) => Waits(at[r], e) /\ e # b
             /\ Waits(at[r], b) /\ ~Past(at[r], b) /\ ~Finished(at[r], b)
             /\ Finished(y, e) => Finished(at[r], e)
             /\ Rolled(y, e, k) => Rolled(at[r], e, k)
             /\ y # place("gather", e, k)
             /\ y \notin {place("result", e, k), place("back", e, k)}
      BY <1>2, <1>3, <1>4, Enters
<1>6. /\ at'[r] = y /\ \A q \in Ranks \ {r} : at'[q] = at[q]
      /\ at' = [at EXCEPT ![r] = y] /\ at \in [Ranks -> Places]
      /\ DOMAIN mem = Ranks /\ (\A q \in Ranks : DOMAIN mem[q] = Blocks)
      /\ DOMAIN box = Blocks
      BY <1>4 DEF IInv, Memory, Entering
<1>7. /\ mem'[r][b] = g
      /\ \A q \in Ranks, e \in Blocks : q # r \/ e # b => mem'[q][e] = mem[q][e]
      /\ DOMAIN mem' = Ranks /\ \A q \in Ranks : DOMAIN mem'[q] = Blocks
      BY <1>3, <1>6 DEF Entering
<1>8. y \in Places /\ y.pc \in Working /\ Waits(at[r], b) /\ ~Past(at[r], b) /\ ~Finished(at[r], b)
      BY <1>2, <1>3, <1>5
<1>9. /\ DOMAIN box' = Blocks /\ box'[b] # None
      /\ \A e \in Blocks : e # b => box'[e] = box[e]
      BY <1>3, <1>6, NoneAssumption DEF Told
<1>10. Memory'
       BY <1>6, <1>7, <1>8, <1>9 DEF Memory, IInv, Entering
<1>11. Ready'
       BY <1>3, <1>6, <1>8, StillReady DEF Scored, Entering
<1>12. ASSUME NEW e \in Blocks PROVE Heard(e)'
       <2>1. Heard(e)
             BY <1>3 DEF Scored
       <2>2. \A q \in Ranks : mem'[q][e] \in Gradients(e, {model})
             BY <1>7, <2>1, SMTT(30) DEF Heard, Entering
       <2>3. CASE e = b
             <3>1. ~Waits(at'[0], b)
                   <4>1. CASE r = 0
                         BY <1>1, <1>3, <1>5, <1>6, <4>1
                   <4>2. CASE r # 0
                         <5>1. at'[0] = at[0] /\ box[b] # None
                               BY <1>1, <1>6, <4>2 DEF Told
                         <5> QED
                             BY <2>1, <2>3, <5>1 DEF Heard
                   <4> QED
                       BY <4>1, <4>2
             <3> QED
                 BY <1>9, <2>2, <2>3, <3>1 DEF Heard, Entering
       <2>4. CASE e # b
             <3>1. \A q \in Ranks : Past(at'[q], e) => Past(at[q], e)
                   BY <1>5, <1>6, <2>4
             <3>2. Waits(at'[0], e) => Waits(at[0], e)
                   BY <1>1, <1>5, <1>6
             <3> QED
                 BY <1>9, <2>1, <2>2, <2>4, <3>1, <3>2, StillHeard DEF Entering
       <2> QED
           BY <2>3, <2>4
<1>13. ASSUME NEW q \in Ranks, NEW e \in Blocks, NEW k \in Nat PROVE Holds(q, e, k)'
       <2>1. Holds(q, e, k)
             BY <1>3 DEF Scored
       <2>2. CASE q # r
             BY <1>6, <1>7, <2>1, <2>2, Unmoved DEF Entering
       <2>3. CASE q = r
             <3>1. /\ Finished(at'[r], e) => Finished(at[r], e) /\ mem'[r][e] = mem[r][e]
                   /\ Rolled(at'[r], e, k) => Rolled(at[r], e, k)
                   /\ at'[r] # place("gather", e, k)
                   /\ at'[r] \notin {place("result", e, k), place("back", e, k)}
                   BY <1>5, <1>6, <1>7, <1>8
             <3> QED
                 BY <2>1, <2>3, <3>1 DEF Holds, Entering
       <2> QED
           BY <2>2, <2>3
<1> QED
    BY <1>10, <1>11, <1>12, <1>13 DEF Scored

\* A whole block that is there is of the model.
LEMMA WholeIsOwn ==
    ASSUME IInv, up, NEW r \in Ranks, at[r].pc = "score", whole(dir(r))
    PROVE  cache[dir(r)].result.of \in Gradients(at[r].block, {model})
<1>1. "score" \in Working \ {"train"}
      BY DEF Working
<1>2. PICK b \in Blocks : b = at[r].block
      BY <1>1, AtScoring
<1>3. Mine(Len(model)) = {model} /\ cache[dir(r)] \in Folder(Len(model), b)
      BY <1>1, <1>2, AtScoring
<1>4. cache[dir(r)].result # None
      BY DEF whole, usable
<1> QED
    BY <1>2, <1>3, <1>4 DEF Folder, Files

LEMMA ReuseKeeps ==
    ASSUME IInv, Reuse
    PROVE  IInv'
<1>1. 0 \in Ranks /\ up /\ at[0].pc = "score" /\ whole(dir(0))
      BY SizesAssumption DEF SizesAssumption, Ranks, Reuse, Is
<1>2. PICK b : b = at[0].block
      OBVIOUS
<1>3. PICK g : g = cache[dir(0)].result.of
      OBVIOUS
<1>4. g \in Gradients(b, {model})
      BY <1>1, <1>2, <1>3, WholeIsOwn
<1>5. PICK x \in [hit : BOOLEAN, done : SUBSET Prompts(b)] : x = [hit |-> TRUE, done |-> Prompts(b)]
      OBVIOUS
<1>6. Entering(0, "roll", b, g) /\ Told(0, b, x)
      BY <1>1, <1>2, <1>3, <1>4, <1>5 DEF Reuse, Entering, Told, files
<1>7. Cached' /\ Saved'
      BY CachedStays, SavedStays DEF IInv, Saved, Reuse, files
<1> QED
    BY <1>1, <1>6, <1>7, ScoredEnters DEF IInv

LEMMA BeginKeeps ==
    ASSUME IInv, Begin
    PROVE  IInv'
<1>1. 0 \in Ranks /\ up /\ at[0].pc = "score" /\ "score" \in Working \ {"train"}
      BY SizesAssumption DEF SizesAssumption, Ranks, Begin, Is, Working
<1>2. PICK b \in Blocks : b = at[0].block
      BY <1>1, AtScoring
<1>3. /\ Mine(Len(model)) = {model} /\ cache[dir(0)] \in Folder(Len(model), b)
      /\ dir(0) \in Directories /\ dir(0) = <<Len(model), b>>
      BY <1>1, <1>2, AtScoring
<1>4. PICK kept : kept = IF foreign(dir(0)) THEN EmptyDir(b) ELSE cache[dir(0)]
      OBVIOUS
<1>5. kept \in Folder(Len(model), b)
      BY <1>3, <1>4, EmptyFolder
<1>6. PICK g : g = IF kept.partial # None /\ kept.partial.policy = model
                   THEN kept.partial.of ELSE << >>
      OBVIOUS
<1>7. g \in Gradients(b, {model})
      <2>1. kept.partial # None => kept.partial.of \in Gradients(b, {model})
            BY <1>3, <1>5 DEF Folder, Files
      <2> QED
          BY <1>6, <2>1, NoneYet
<1>8. DOMAIN g \subseteq Prompts(b)
      BY <1>7, GradientsOf
<1>9. PICK x \in [hit : BOOLEAN, done : SUBSET Prompts(b)] : x = [hit |-> FALSE, done |-> DOMAIN g]
      BY <1>8
<1>10. Entering(0, "roll", b, g) /\ Told(0, b, x)
      BY <1>1, <1>2, <1>4, <1>6, <1>7, <1>9 DEF Begin, Entering, Told
<1>11. Cached'
      <2>1. PICK f : f = [kept EXCEPT !.policy = model]
            OBVIOUS
      <2>2. f \in Folder(Len(model), b)
            BY <1>3, <1>5, <2>1 DEF Folder
      <2>3. cache' = [cache EXCEPT ![dir(0)] = f] /\ saved' = saved
            BY <1>2, <1>4, <2>1 DEF Begin
      <2> QED
          BY <1>3, <2>2, <2>3, CachedChanges DEF IInv
<1>12. Saved'
      BY SavedStays DEF IInv, Saved, Begin
<1> QED
    BY <1>1, <1>10, <1>11, <1>12, ScoredEnters DEF IInv

\* A rank follows the broadcast into the block, and reads it if it is whole.
LEMMA FollowKeeps ==
    ASSUME IInv, NEW r \in Ranks, Follow(r)
    PROVE  IInv'
<1>1. r # 0 /\ up /\ at[r].pc = "score"
      BY DEF Follow, Is
<1>2. PICK b : b = at[r].block
      OBVIOUS
<1>3. PICK g : g = IF box[b].hit /\ whole(dir(r)) THEN cache[dir(r)].result.of ELSE << >>
      OBVIOUS
<1>4. g \in Gradients(b, {model})
      BY <1>1, <1>2, <1>3, WholeIsOwn, NoneYet
<1>5. PICK p \in {"roll", "raised"} : p = IF box[b].hit /\ ~whole(dir(r)) THEN "raised" ELSE "roll"
      OBVIOUS
<1>6. Entering(r, p, b, g)
      BY <1>1, <1>2, <1>3, <1>4, <1>5 DEF Follow, Entering, files
<1>7. PICK x : Told(r, b, x)
      BY <1>1, <1>2 DEF Follow, Told
<1>8. Cached' /\ Saved'
      BY CachedStays, SavedStays DEF IInv, Saved, Follow, files
<1> QED
    BY <1>1, <1>6, <1>7, <1>8, ScoredEnters DEF IInv

\* A rank rolls out its prompt, or reads its rollouts.
LEMMA RollKeeps ==
    ASSUME IInv, NEW r \in Ranks, Roll(r)
    PROVE  IInv'
<1>1. /\ up /\ at[r].pc = "roll"
      /\ "roll" \in Working \ {"train"} /\ "gather" \in Working
      BY DEF Roll, Is, Working
<1>2. PICK b \in Blocks : b = at[r].block
      BY <1>1, AtScoring
<1>3. PICK c \in Nat : c = at[r].part
      BY <1>1, AtScoring
<1>4. /\ Scored /\ scoring(model) /\ at[r] = place("roll", b, c)
      /\ Mine(Len(model)) = {model} /\ cache[dir(r)] \in Folder(Len(model), b)
      /\ dir(r) \in Directories /\ dir(r) = <<Len(model), b>>
      BY <1>1, <1>2, <1>3, AtScoring
<1>5. PICK p : p = c * World + r
      OBVIOUS
<1>6. PICK found : found = cache[dir(r)].rollouts[p]
      OBVIOUS
<1>7. PICK drawn : drawn = IF found = None THEN model ELSE found
      OBVIOUS
<1>8. p \in Prompts(b) => drawn = model
      BY <1>4, <1>6, <1>7 DEF Folder
<1>9. PICK y : y = IF Part(b, c) \subseteq box[b].done THEN After(r, b, c) ELSE place("gather", b, c)
      OBVIOUS
<1>10. /\ at' = [at EXCEPT ![r] = y]
       /\ model' = model /\ mem' = mem /\ box' = box /\ up' = up
       /\ saved' = saved /\ record' = record /\ checkpoint' = checkpoint
       BY <1>2, <1>3, <1>9 DEF Roll
<1>11. IF p \in Prompts(b)
       THEN /\ cache' = [cache EXCEPT ![dir(r)].rollouts[p] = drawn]
            /\ own' = [own EXCEPT ![r] = drawn]
            /\ traced' = traced \cup {<<b, p>>}
       ELSE UNCHANGED <<cache, own, traced>>
       BY <1>2, <1>3, <1>5, <1>6, <1>7 DEF Roll, heard
<1>12. DOMAIN own = Ranks /\ at[r] \in Places /\ traced \subseteq Whole
       BY DEF IInv, Memory
<1>15. \A e \in Blocks, k \in Nat : Holds(r, e, k)
       BY <1>4 DEF Scored
<1>16. /\ p \in Prompts(b) => <<b, p>> \in traced' /\ own'[r] = model
       /\ traced \subseteq traced' /\ traced' \subseteq Whole /\ DOMAIN own' = Ranks
       /\ \A q \in Ranks \ {r} : own'[q] = own[q]
       BY <1>8, <1>11, <1>12 DEF Whole
<1>17. /\ y \in Places /\ y.pc \in Working
       /\ (\A e \in Blocks : (Past(y, e) => Past(at[r], e)) /\ (Waits(y, e) => Waits(at[r], e)))
       /\ Enough(r, y)
       <2>1. CASE Part(b, c) \subseteq box[b].done
             <3>1. Leaves(y, b, c)
                   BY <1>9, <2>1, AfterLeaves
             <3>2. ASSUME NEW e \in Blocks, NEW k \in Nat
                   PROVE  /\ y \in Places /\ y.pc \in Working
                          /\ Past(y, e) <=> Past(at[r], e)
                          /\ Waits(y, e) => Waits(at[r], e)
                          /\ Finished(y, e) <=> Finished(at[r], e)
                          /\ Rolled(y, e, k) => Rolled(at[r], e, k) \/ (e = b /\ k = c)
                          /\ y # place("gather", e, k)
                          /\ y \in {place("result", e, k), place("back", e, k)} => LastPart(e, k)
                   <4>1. Waits(at[r], e) <=> ~Past(at[r], e)
                         BY <1>4, Within
                   <4> QED
                       BY <1>4, <3>1, <4>1, LeavesPart
             <3>3. ASSUME NEW e \in Blocks, NEW k \in Nat
                   PROVE  /\ Finished(y, e) => DOMAIN mem[r][e] = Prompts(e)
                          /\ Rolled(y, e, k) /\ k * World + r \in Prompts(e)
                                => <<e, k * World + r>> \in traced'
                   BY <1>4, <1>5, <1>15, <1>16, <3>2 DEF Holds
             <3> QED
                 BY <3>2, <3>3 DEF Enough
       <2>2. CASE ~(Part(b, c) \subseteq box[b].done)
             <3>1. y = place("gather", b, c)
                   BY <1>9, <2>2
             <3>2. ASSUME NEW e \in Blocks, NEW k \in Nat
                   PROVE  /\ y \in Places /\ y.pc = "gather"
                          /\ Past(y, e) <=> Past(at[r], e)
                          /\ Waits(y, e) => Waits(at[r], e)
                          /\ Finished(y, e) <=> Finished(at[r], e)
                          /\ Rolled(y, e, k) => Rolled(at[r], e, k) \/ (e = b /\ k = c)
                          /\ y = place("gather", e, k) => e = b /\ k = c
                          /\ y \notin {place("result", e, k), place("back", e, k)}
                   <4>1. Waits(at[r], e) <=> ~Past(at[r], e)
                         BY <1>4, Within
                   <4>2. /\ y \in Places /\ y.pc = "gather"
                         /\ Past(y, e) <=> Past(at[r], e)
                         /\ Waits(y, e) <=> ~Past(y, e)
                         /\ Finished(y, e) <=> Finished(at[r], e)
                         /\ Rolled(y, e, k) <=> Rolled(at[r], e, k) \/ (e = b /\ k = c)
                         BY <1>4, <3>1, Within
                   <4>3. /\ y = place("gather", e, k) => e = b /\ k = c
                         /\ y \notin {place("result", e, k), place("back", e, k)}
                         BY <3>1, FieldsOf
                   <4> QED
                       BY <4>1, <4>2, <4>3
             <3>3. ASSUME NEW e \in Blocks, NEW k \in Nat
                   PROVE  /\ Finished(y, e) => DOMAIN mem[r][e] = Prompts(e)
                          /\ Rolled(y, e, k) /\ k * World + r \in Prompts(e)
                                => <<e, k * World + r>> \in traced'
                          /\ y = place("gather", e, k) /\ k * World + r \in Prompts(e)
                                => own'[r] = model
                   BY <1>4, <1>5, <1>15, <1>16, <3>2 DEF Holds
             <3> QED
                 BY <1>1, <3>2, <3>3 DEF Enough
       <2> QED
           BY <2>1, <2>2
<1>18. Moves(r, y)
       BY <1>10, <1>16, <1>17 DEF Moves
<1>19. Scored' /\ Memory'
       BY <1>1, <1>4, <1>16, <1>17, <1>18, ScoredMoves, MemoryMoves, SizesAssumption DEF IInv
<1>20. Cached'
       <2>1. CASE p \in Prompts(b)
             <3>1. PICK f : f = [cache[dir(r)] EXCEPT !.rollouts[p] = drawn]
                   OBVIOUS
             <3>2. f \in Folder(Len(model), b)
                   BY <1>4, <1>8, <2>1, <3>1 DEF Folder
             <3>3. cache' = [cache EXCEPT ![dir(r)] = f]
                   BY <1>11, <2>1, <3>1
             <3> QED
                 BY <1>4, <1>10, <3>2, <3>3, CachedChanges DEF IInv
       <2>2. CASE p \notin Prompts(b)
             BY <1>10, <1>11, <2>2, CachedStays DEF IInv
       <2> QED
           BY <2>1, <2>2
<1>21. Saved'
       BY <1>10, SavedStays DEF IInv, Saved
<1> QED
    BY <1>19, <1>20, <1>21 DEF IInv

\* Rank 0 leaves a part that has been gathered, with one file written.
LEMMA Leaving ==
    ASSUME IInv, up, NEW p \in {"partial", "result"}, at[0].pc = p,
           NEW b \in Blocks, NEW c \in Nat, at[0] = place(p, b, c),
           NEW y, Leaves(y, b, c), at' = [at EXCEPT ![0] = y],
           UNCHANGED <<saved, up, model, box, mem, own, traced>>
    PROVE  Memory' /\ Scored'
<1>1. /\ 0 \in Ranks /\ p \in Working \ {"train"} /\ p # "roll"
      /\ p \in {"roll", "gather", "partial", "result", "back"}
      BY SizesAssumption DEF SizesAssumption, Ranks, Working
<1>2. Scored /\ scoring(model)
      BY <1>1, AtScoring
<1>3. ASSUME NEW e \in Blocks, NEW k \in Nat
      PROVE  /\ y \in Places /\ y.pc \in Working
             /\ Past(y, e) <=> Past(place("roll", b, c), e)
             /\ Waits(y, e) <=> ~Past(y, e)
             /\ Finished(y, e) <=> Finished(place("roll", b, c), e)
             /\ Rolled(y, e, k) => Rolled(place("roll", b, c), e, k) \/ (e = b /\ k = c)
             /\ y # place("gather", e, k)
             /\ y \in {place("result", e, k), place("back", e, k)} => LastPart(e, k)
      BY LeavesPart
<1>4. ASSUME NEW e \in Blocks, NEW k \in Nat
      PROVE  /\ Past(at[0], e) <=> Past(place("roll", b, c), e)
             /\ Waits(at[0], e) <=> ~Past(at[0], e)
             /\ Finished(at[0], e) <=> Finished(place("roll", b, c), e)
             /\ Rolled(at[0], e, k) <=> Rolled(place("roll", b, c), e, k) \/ (e = b /\ k = c)
      BY <1>1, Within
<1>5. ASSUME NEW e \in Blocks, NEW k \in Nat
      PROVE  /\ Finished(y, e) => DOMAIN mem[0][e] = Prompts(e)
             /\ Rolled(y, e, k) /\ k * World + 0 \in Prompts(e)
                   => <<e, k * World + 0>> \in traced'
      <2>1. Holds(0, e, k)
            BY <1>1, <1>2 DEF Scored
      <2> QED
          BY <1>2, <1>3, <1>4, <2>1 DEF Holds
<1>6. Moves(0, y)
      BY <1>3, <1>4 DEF Moves
<1>7. Enough(0, y)
      BY <1>3, <1>5 DEF Enough
<1> QED
    BY <1>1, <1>2, <1>3, <1>6, <1>7, ScoredMoves, MemoryMoves, SizesAssumption DEF IInv, Memory

\* The engine takes a block that a rank has all of; the rank fails otherwise.
LEMMA VectorsKeeps ==
    ASSUME IInv, NEW r \in Ranks, Vectors(r)
    PROVE  IInv'
<1>1. up /\ at[r].pc = "back" /\ "back" \in Working \ {"train"}
      BY DEF Vectors, Is, Working
<1>2. PICK b \in Blocks : b = at[r].block
      BY <1>1, AtScoring
<1>3. PICK c \in Nat : c = at[r].part
      BY <1>1, AtScoring
<1>4. Scored /\ scoring(model) /\ at[r] = place("back", b, c)
      BY <1>1, <1>2, <1>3, AtScoring
<1>5. PICK y : y = IF DOMAIN mem[r][b] # Prompts(b) THEN place("raised", b, c) ELSE Taken(b)
      OBVIOUS
<1>6. /\ at' = [at EXCEPT ![r] = y]
      /\ UNCHANGED <<checkpoint, saved, cache, record, up, model, box, mem, own, traced>>
      BY <1>2, <1>3, <1>5 DEF Vectors, Taken, files
<1>7. \A e \in Blocks, k \in Nat : Holds(r, e, k)
      BY <1>4 DEF Scored
<1>8. LastPart(b, c)
      BY <1>4, <1>7 DEF Holds
<1>9. ASSUME NEW e \in Blocks, NEW k \in Nat
      PROVE  /\ y \in Places /\ y.pc \in Working
             /\ Past(y, e) => Past(at[r], e)
             /\ Waits(y, e) => Waits(at[r], e)
             /\ Finished(y, e) => Finished(at[r], e) \/ (y = Taken(b) /\ e = b)
             /\ Rolled(y, e, k) => Rolled(at[r], e, k) \/ (e = b /\ k * World + r \notin Prompts(b))
             /\ y # place("gather", e, k)
             /\ y \notin {place("result", e, k), place("back", e, k)}
      BY <1>4, <1>5, <1>8, Returns, SizesAssumption
<1>10. y = Taken(b) => DOMAIN mem[r][b] = Prompts(b)
       <2>1. Taken(b).pc # "raised"
             BY DEF Taken, place
       <2> QED
           BY <1>5, <2>1, FieldsOf
<1>11. ASSUME NEW e \in Blocks, NEW k \in Nat
       PROVE  /\ Finished(y, e) => DOMAIN mem[r][e] = Prompts(e)
              /\ Rolled(y, e, k) /\ k * World + r \in Prompts(e)
                    => <<e, k * World + r>> \in traced'
       BY <1>4, <1>6, <1>7, <1>9, <1>10 DEF Holds
<1>12. Moves(r, y)
       BY <1>6, <1>9 DEF Moves
<1>13. Enough(r, y)
       BY <1>9, <1>11 DEF Enough
<1>14. Memory' /\ Scored'
       BY <1>1, <1>4, <1>6, <1>12, <1>13, ScoredMoves, MemoryMoves, SizesAssumption DEF IInv, Memory
<1>15. Cached' /\ Saved'
       BY <1>6, CachedStays, SavedStays DEF IInv, Saved
<1> QED
    BY <1>14, <1>15 DEF IInv

LEMMA SavePartialKeeps ==
    ASSUME IInv, SavePartial
    PROVE  IInv'
<1>1. 0 \in Ranks /\ up /\ at[0].pc = "partial" /\ "partial" \in Working \ {"train"}
      BY SizesAssumption DEF SizesAssumption, Ranks, SavePartial, Is, Working
<1>2. PICK b \in Blocks : b = at[0].block
      BY <1>1, AtScoring
<1>3. PICK c \in Nat : c = at[0].part
      BY <1>1, AtScoring
<1>4. /\ Scored /\ at[0] = place("partial", b, c)
      /\ Mine(Len(model)) = {model} /\ cache[dir(0)] \in Folder(Len(model), b)
      /\ dir(0) \in Directories /\ dir(0) = <<Len(model), b>>
      BY <1>1, <1>2, <1>3, AtScoring
<1>5. PICK y : y = After(0, b, c)
      OBVIOUS
<1>6. at' = [at EXCEPT ![0] = y]
      BY <1>2, <1>3, <1>5 DEF SavePartial
<1>7. Memory' /\ Scored'
      BY <1>1, <1>4, <1>5, <1>6, AfterLeaves, Leaving DEF SavePartial
<1>8. Cached'
      <2>1. PICK f : f = [cache[dir(0)] EXCEPT !.partial = [policy |-> model, of |-> mem[0][b]]]
            OBVIOUS
      <2>2. mem[0][b] \in Gradients(b, {model})
            BY <1>1, <1>4 DEF Scored, Heard
      <2>3. f \in Folder(Len(model), b)
            BY <1>4, <2>1, <2>2 DEF Folder, Files
      <2> QED
          BY <1>2, <1>4, <2>1, <2>3, CachedChanges DEF IInv, SavePartial
<1> QED
    BY <1>7, <1>8, SavedStays DEF IInv, Saved, SavePartial

LEMMA SaveResultKeeps ==
    ASSUME IInv, SaveResult
    PROVE  IInv'
<1>1. 0 \in Ranks /\ up /\ at[0].pc = "result" /\ "result" \in Working \ {"train"}
      BY SizesAssumption DEF SizesAssumption, Ranks, SaveResult, Is, Working
<1>2. PICK b \in Blocks : b = at[0].block
      BY <1>1, AtScoring
<1>3. PICK c \in Nat : c = at[0].part
      BY <1>1, AtScoring
<1>4. /\ Scored /\ at[0] = place("result", b, c)
      /\ Mine(Len(model)) = {model} /\ cache[dir(0)] \in Folder(Len(model), b)
      /\ dir(0) \in Directories /\ dir(0) = <<Len(model), b>>
      BY <1>1, <1>2, <1>3, AtScoring
<1>5. PICK y : y = place("back", b, c)
      OBVIOUS
<1>6. at' = [at EXCEPT ![0] = y]
      BY <1>2, <1>3, <1>5 DEF SaveResult
<1>7. Leaves(y, b, c)
      BY <1>1, <1>4, <1>5 DEF Scored, Holds, Leaves
<1>8. Memory' /\ Scored'
      BY <1>1, <1>4, <1>6, <1>7, Leaving DEF SaveResult
<1>9. Cached'
      <2>1. PICK f : f = [cache[dir(0)] EXCEPT !.result = [policy |-> model, of |-> mem[0][b]]]
            OBVIOUS
      <2>2. mem[0][b] \in Gradients(b, {model})
            BY <1>1, <1>4 DEF Scored, Heard
      <2>3. f \in Folder(Len(model), b)
            BY <1>4, <2>1, <2>2 DEF Folder, Files
      <2> QED
          BY <1>2, <1>4, <2>1, <2>3, CachedChanges DEF IInv, SaveResult
<1> QED
    BY <1>8, <1>9, SavedStays DEF IInv, Saved, SaveResult

\* The ranks meet, and each has the gradients of the part.
LEMMA GatherKeeps ==
    ASSUME IInv, Gather
    PROVE  IInv'
<1>1. PICK b \in Blocks, c \in 0 .. Selection + Validation :
          /\ up /\ \A r \in Ranks : at[r] = place("gather", b, c)
          /\ mem' = [r \in Ranks |-> [mem[r] EXCEPT ![b] =
                [p \in DOMAIN @ \cup Part(b, c) |->
                    IF p \in Part(b, c) THEN own[p % World] ELSE @[p]]]]
          /\ own' = [r \in Ranks |-> None]
          /\ at' = [r \in Ranks |-> IF r = 0 THEN place("partial", b, c) ELSE After(r, b, c)]
          /\ UNCHANGED <<conflict, files, up, model, box, traced, fresh, bounds>>
      BY DEF Gather
<1>2. 0 \in Ranks /\ c \in Nat /\ "gather" \in Working \ {"train"}
      BY SizesAssumption DEF SizesAssumption, Ranks, Working
<1>3. at[0].pc = "gather"
      BY <1>1, <1>2, FieldsOf
<1>4. Scored /\ scoring(model)
      BY <1>1, <1>2, <1>3, AtScoring
<1>5. \A q \in Ranks : mem[q][b] \in Gradients(b, {model}) /\ DOMAIN mem[q] = Blocks
      BY <1>4 DEF Scored, Heard, IInv, Memory
<1>8. ASSUME NEW p \in Part(b, c) PROVE own[p % World] = model
      <2>1. p % World \in Ranks /\ p = c * World + (p % World) /\ p \in Prompts(b)
            BY <1>2, <1>8, PartShares, SizesAssumption DEF Part
      <2>2. Holds(p % World, b, c)
            BY <1>2, <1>4, <2>1 DEF Scored
      <2> QED
          BY <1>1, <2>1, <2>2 DEF Holds
<1>9. ASSUME NEW q \in Ranks
      PROVE  /\ mem'[q][b] \in Gradients(b, {model}) /\ DOMAIN mem'[q] = Blocks
             /\ \A e \in Blocks : e # b => mem'[q][e] = mem[q][e]
      <2>1. PICK h : h = mem[q][b]
            OBVIOUS
      <2>2. PICK g : g = [p \in DOMAIN h \cup Part(b, c) |->
                             IF p \in Part(b, c) THEN own[p % World] ELSE h[p]]
            OBVIOUS
      <2>3. mem'[q] = [mem[q] EXCEPT ![b] = g]
            BY <1>1, <2>1, <2>2
      <2>4. DOMAIN g = DOMAIN h \cup Part(b, c)
            BY <2>2
      <2>5. DOMAIN h \subseteq Prompts(b) /\ h \in [DOMAIN h -> {model}]
            BY <1>5, <2>1, GradientsOf
      <2>6. DOMAIN g \subseteq Prompts(b)
            BY <2>4, <2>5 DEF Part
      <2>7. \A p \in DOMAIN g : g[p] = model
            BY <1>8, <2>2, <2>4, <2>5
      <2>8. g \in [DOMAIN g -> {model}]
            BY <2>2, <2>4, <2>7
      <2>9. g \in Gradients(b, {model})
            BY <2>6, <2>8, GradientsOf
      <2> QED
          BY <1>5, <2>3, <2>9
<1>10. ASSUME NEW q \in Ranks, NEW e \in Blocks
       PROVE  mem'[q][e] \in Gradients(e, {model}) /\ (e # b => mem'[q][e] = mem[q][e])
       <2>1. mem[q][e] \in Gradients(e, {model})
             BY <1>4 DEF Scored, Heard
       <2> QED
           BY <1>9, <2>1
<1>11. ASSUME NEW q \in Ranks, NEW e \in Blocks, NEW k \in Nat
       PROVE  /\ at'[q] \in Places /\ at'[q].pc \in Working
              /\ Past(at'[q], e) => Past(at[q], e)
              /\ Waits(at'[q], e) => Waits(at[q], e)
              /\ Finished(at'[q], e) => Finished(at[q], e) /\ e # b
              /\ Rolled(at'[q], e, k) => Rolled(at[q], e, k)
              /\ at'[q] # place("gather", e, k)
              /\ at'[q] \in {place("result", e, k), place("back", e, k)} => LastPart(e, k)
       <2>1. /\ at[q] = place("gather", b, c)
             /\ at'[q] = IF q = 0 THEN place("partial", b, c) ELSE After(q, b, c)
             BY <1>1
       <2>2. /\ Past(at[q], e) <=> Past(place("roll", b, c), e)
             /\ Waits(at[q], e) <=> ~Past(at[q], e)
             /\ ~Finished(at[q], b)
             /\ Finished(at[q], e) <=> Finished(place("roll", b, c), e)
             /\ Rolled(at[q], e, k) <=> Rolled(place("roll", b, c), e, k) \/ (e = b /\ k = c)
             BY <1>2, <2>1, Within
       <2>3. CASE q = 0
             <3>1. PICK y : y = place("partial", b, c)
                   OBVIOUS
             <3>2. /\ y \in Places /\ y.pc = "partial"
                   /\ Past(y, e) <=> Past(place("roll", b, c), e)
                   /\ Waits(y, e) <=> ~Past(y, e)
                   /\ Finished(y, e) <=> Finished(place("roll", b, c), e)
                   /\ Rolled(y, e, k) <=> Rolled(place("roll", b, c), e, k) \/ (e = b /\ k = c)
                   BY <1>2, <3>1, Within
             <3>3. /\ y # place("gather", e, k)
                   /\ y \notin {place("result", e, k), place("back", e, k)}
                   BY <3>1, FieldsOf
             <3> QED
                 BY <2>1, <2>2, <2>3, <3>1, <3>2, <3>3 DEF Working
       <2>4. CASE q # 0
             <3>1. Leaves(at'[q], b, c)
                   BY <1>2, <2>1, <2>4, AfterLeaves
             <3>2. /\ at'[q] \in Places /\ at'[q].pc \in Working
                   /\ Past(at'[q], e) <=> Past(place("roll", b, c), e)
                   /\ Waits(at'[q], e) <=> ~Past(at'[q], e)
                   /\ Finished(at'[q], e) <=> Finished(place("roll", b, c), e)
                   /\ Rolled(at'[q], e, k) => Rolled(place("roll", b, c), e, k) \/ (e = b /\ k = c)
                   /\ at'[q] # place("gather", e, k)
                   /\ at'[q] \in {place("result", e, k), place("back", e, k)} => LastPart(e, k)
                   BY <1>2, <3>1, LeavesPart
             <3> QED
                 BY <2>2, <3>2
       <2> QED
           BY <2>3, <2>4
<1>12. /\ model' = model /\ box' = box /\ up' = up /\ saved' = saved /\ cache' = cache
       /\ record' = record /\ checkpoint' = checkpoint /\ traced' = traced
       BY <1>1 DEF files
<1>13. Memory'
       <2>1. at' \in [Ranks -> Places]
             BY <1>1, <1>2, <1>11
       <2>2. DOMAIN mem' = Ranks /\ \A q \in Ranks : DOMAIN mem'[q] = Blocks
             BY <1>1, <1>9
       <2> QED
           BY <1>1, <1>12, <2>1, <2>2 DEF IInv, Memory
<1>14. Ready'
       BY <1>2, <1>4, <1>11, <1>12 DEF Scored, Ready
<1>15. ASSUME NEW e \in Blocks PROVE Heard(e)'
       <2>1. Heard(e)
             BY <1>4 DEF Scored
       <2>2. \A q \in Ranks : Past(at'[q], e) => Past(at[q], e)
             BY <1>2, <1>11
       <2>3. Waits(at'[0], e) => Waits(at[0], e)
             BY <1>2, <1>11
       <2>4. \A q \in Ranks : mem'[q][e] \in Gradients(e, {model})
             BY <1>10
       <2> QED
           BY <1>12, <2>1, <2>2, <2>3, <2>4, StillHeard
<1>16. ASSUME NEW q \in Ranks, NEW e \in Blocks, NEW k \in Nat PROVE Holds(q, e, k)'
       <2>1. Holds(q, e, k)
             BY <1>4 DEF Scored
       <2> QED
           BY <1>4, <1>10, <1>11, <1>12, <2>1 DEF Holds
<1>17. Cached' /\ Saved'
       BY <1>12, CachedStays, SavedStays DEF IInv, Saved
<1> QED
    BY <1>13, <1>14, <1>15, <1>16, <1>17 DEF IInv, Scored

-----------------------------------------------------------------------------
(* Training, publishing and saving.                                         *)

\* Stale directories are emptied.
LEMMA DropKeeps ==
    ASSUME IInv, Drop
    PROVE  IInv'
<1>1. PICK d \in Directories : cache' = [cache EXCEPT ![d] = EmptyDir(d[2])]
      BY DEF Drop
<1>2. Cached'
      BY <1>1, EmptyFolder, CachedChanges DEF IInv, Drop
<1>3. Saved'
      BY SavedStays DEF IInv, Saved, Drop
<1>4. UNCHANGED <<up, model, at, box, mem, own, traced, saved, record>>
      BY DEF Drop, memory
<1>5. Memory'
      BY <1>4 DEF IInv, Memory, Clean
<1>6. Scored => Scored'
      BY <1>4 DEF Scored, Ready, Heard, Holds
<1>7. Trained => Trained'
      BY <1>4 DEF Trained, All, document
<1> QED
    BY <1>2, <1>3, <1>5, <1>6, <1>7 DEF IInv

\* When the ranks train, all they scored is behind them.
LEMMA ScoredAll ==
    ASSUME IInv, training
    PROVE  /\ Scored
           /\ scoring(model) => traced = Whole
           /\ scoring(model) => \A r \in Ranks, b \in Blocks : mem[r][b] = [p \in Prompts(b) |-> model]
<1>1. 0 \in Ranks /\ "train" \in Working /\ up /\ \A r \in Ranks : at[r].pc = "train"
      BY SizesAssumption DEF SizesAssumption, Ranks, Working, training
<1>2. Scored
      BY <1>1, AtWork
<1>3. \A r \in Ranks, b \in Blocks, c \in Nat : Rolled(at[r], b, c) /\ Finished(at[r], b)
      BY <1>1 DEF Rolled, Finished
<1>4. ASSUME NEW b \in Blocks, NEW p \in Prompts(b), scoring(model)
      PROVE  <<b, p>> \in traced
      <2>1. World \in Nat \ {0} /\ Ranks = 0..World-1 /\ p \in Nat
            BY SizesAssumption, PromptsBelow DEF SizesAssumption, Ranks
      <2>2. PICK c \in Nat, r \in Ranks : p = c * World + r
            BY <2>1, Shared
      <2> QED
          BY <1>2, <1>3, <1>4, <2>2 DEF Scored, Holds
<1>5. ASSUME NEW r \in Ranks, NEW b \in Blocks, scoring(model)
      PROVE  mem[r][b] = [p \in Prompts(b) |-> model]
      <2>1. mem[r][b] \in [DOMAIN mem[r][b] -> {model}]
            BY <1>2, GradientsOf DEF Scored, Heard
      <2>2. DOMAIN mem[r][b] = Prompts(b)
            <3>1. Holds(r, b, 0)
                  BY <1>2 DEF Scored
            <3> QED
                BY <1>3, <1>5, <3>1 DEF Holds
      <2> QED
          BY <2>1, <2>2
<1>6. scoring(model) => traced = Whole
      BY <1>4 DEF IInv, Memory, Whole
<1> QED
    BY <1>2, <1>5, <1>6

LEMMA TrainKeeps ==
    ASSUME IInv, Train
    PROVE  IInv'
<1>1. PICK o \in Outcomes : model' = Append(model, o)
      BY DEF Train
<1>2. Scored /\ training /\ up /\ (scoring(model) => traced = Whole)
      BY ScoredAll DEF Train, training
<1>3. UNCHANGED <<checkpoint, saved, cache, record, up, box, mem, own, traced>>
      BY DEF Train, files
<1>4. model \in saved /\ Len(model) < Total /\ model \in Seq(Outcomes) /\ Total \in Nat
      BY <1>2, SizesAssumption DEF Scored, Ready, IInv, Memory, SizesAssumption
<1>5. model' \in Seq(Outcomes) /\ Len(model') = Len(model) + 1
      BY <1>1, <1>4
<1>6. at' = [r \in Ranks |-> place("publish", "selection", 0)]
      BY DEF Train
<1>7. All("publish")' /\ at' \in [Ranks -> Places]
      BY <1>6 DEF All, place, Places, Blocks
<1>8. Memory'
      BY <1>2, <1>3, <1>5, <1>7 DEF IInv, Memory
<1>9. Trained'
      <2>1. Len(model') <= Total
            BY <1>4, <1>5
      <2> QED
          BY <1>1, <1>2, <1>3, <1>4, <1>7, <2>1 DEF Trained
<1> QED
    BY <1>3, <1>8, <1>9, CachedStays, SavedStays DEF IInv, Saved

\* What the ranks publish and save is a model with one update more, and its groups.
LEMMA AfterTraining ==
    ASSUME IInv, NEW p \in {"publish", "save"}, \A r \in Ranks : at[r].pc = p
    PROVE  /\ Trained
           /\ document \in Documents
           /\ Len(model) \in 1..Total
<1>1. 0 \in Ranks /\ p \notin Working
      BY SizesAssumption DEF SizesAssumption, Ranks, Working
<1>2. Trained
      BY <1>1 DEF IInv, Scored, Ready
<1>3. document \in Documents
      BY DEF document, Documents, IInv, Memory
<1>4. PICK m \in saved, o \in Outcomes : model = Append(m, o)
      BY <1>2 DEF Trained
<1>5. Len(model) = Len(m) + 1 /\ Len(m) \in Nat /\ Total \in Nat /\ Len(model) <= Total
      BY <1>2, <1>4, SizesAssumption DEF Trained, IInv, Saved, SizesAssumption
<1> QED
    BY <1>2, <1>3, <1>5

LEMMA PublishKeeps ==
    ASSUME IInv, Publish
    PROVE  IInv'
<1>1. /\ up /\ \A r \in Ranks : at[r].pc = "publish"
      /\ record[Len(model)] \in {None, document}
      /\ record' = [record EXCEPT ![Len(model)] = document]
      /\ at' = [r \in Ranks |-> place("save", "selection", 0)]
      /\ UNCHANGED <<checkpoint, saved, cache, up, model, box, mem, own, traced>>
      BY DEF Publish
<1>2. Trained /\ document \in Documents /\ Len(model) \in 1..Total
      BY <1>1, AfterTraining
<1>3. All("save")' /\ at' \in [Ranks -> Places]
      BY <1>1 DEF All, place, Places, Blocks
<1>4. Memory'
      BY <1>1, <1>3 DEF IInv, Memory
<1>5. /\ record' \in [1..Total -> {None} \cup Documents]
      /\ record'[Len(model)] = document
      /\ \A s \in 1..Total : record[s] # None => record'[s] = record[s]
      BY <1>1, <1>2 DEF IInv, Saved
<1>6. Trained'
      BY <1>1, <1>2, <1>3, <1>5 DEF Trained, document
<1>7. ASSUME NEW m \in saved PROVE Documented(m)'
      <2>1. Documented(m) /\ Len(m) \in Nat /\ Len(m) <= Total
            BY DEF IInv, Saved
      <2>2. \A s \in 1..Len(m) : s \in 1..Total
            BY <2>1, SizesAssumption DEF SizesAssumption
      <2>3. \A s \in 1..Len(m) : record'[s] = record[s]
            BY <1>5, <2>1, <2>2 DEF Documented
      <2> QED
          BY <2>1, <2>3 DEF Documented
<1>8. Saved'
      BY <1>1, <1>5, <1>7 DEF IInv, Saved
<1> QED
    BY <1>1, <1>4, <1>6, <1>8, CachedStays DEF IInv

\* What the checkpoint's update appends is recorded; the earlier records are the same.
LEMMA RecordedNow ==
    ASSUME IInv, NEW m \in saved, NEW o \in Outcomes, model = Append(m, o),
           scoring(m) => traced = Whole, record[Len(model)] = document
    PROVE  Documented(model)
<1>1. m \in Seq(Outcomes) /\ model \in Seq(Outcomes) /\ Len(model) = Len(m) + 1 /\ Len(m) \in Nat
      BY DEF IInv, Saved
<1>2. ASSUME NEW s \in 1..Len(m)
      PROVE  SubSeq(model, 1, s) = SubSeq(m, 1, s)
      BY <1>1
<1>3. SubSeq(model, 1, Len(model)) = model
      BY <1>1
<1>4. document # None /\ document.model = model /\ document.groups = traced
      <2>1. document \in [model : Seq(Outcomes), groups : SUBSET Whole]
            BY <1>1 DEF document, IInv, Memory
      <2> QED
          BY <2>1, NoneAssumption DEF document
<1>5. (Len(model) - 1) % Interval = 0 => scoring(m)
      BY <1>1 DEF scoring
<1>6. Documented(m)
      BY DEF IInv, Saved
<1>7. ASSUME NEW s \in 1..Len(model)
      PROVE  /\ record[s] # None
             /\ record[s].model = SubSeq(model, 1, s)
             /\ (s - 1) % Interval = 0 => record[s].groups = Whole
      <2>1. CASE s = Len(model)
            BY <1>3, <1>4, <1>5, <2>1
      <2>2. CASE s # Len(model)
            <3>1. s \in 1..Len(m)
                  BY <1>1, <2>2
            <3> QED
                BY <1>2, <1>6, <3>1 DEF Documented
      <2> QED
          BY <2>1, <2>2
<1> QED
    BY <1>7 DEF Documented

LEMMA SaveCheckpointKeeps ==
    ASSUME IInv, SaveCheckpoint
    PROVE  IInv'
<1>1. /\ up /\ \A r \in Ranks : at[r].pc = "save"
      /\ checkpoint' = model /\ saved' = saved \cup {model}
      /\ Forget
      /\ IF Len(model) < Total THEN at' = Start(model) /\ UNCHANGED <<up, model>>
                               ELSE up' = FALSE /\ NoProcess
      /\ UNCHANGED <<cache, record>>
      BY DEF SaveCheckpoint
<1>2. Trained /\ Len(model) \in 1..Total /\ model \in Seq(Outcomes) /\ 0 \in Ranks
      BY <1>1, AfterTraining, SizesAssumption DEF IInv, Memory, SizesAssumption, Ranks
<1>3. record[Len(model)] = document
      BY <1>1, <1>2 DEF Trained, All
<1>4. PICK m \in saved, o \in Outcomes : model = Append(m, o) /\ (scoring(m) => traced = Whole)
      BY <1>2 DEF Trained
<1>5. Documented(model)
      BY <1>3, <1>4, RecordedNow
<1>6. \A n \in saved' : Documented(n)'
      BY <1>1, <1>5 DEF IInv, Saved, Documented
<1>7. Saved'
      BY <1>1, <1>2, <1>6 DEF IInv, Saved
<1>8. Begins'
      <2>1. model' \in saved'
            BY <1>1 DEF IInv, Saved, NoProcess
      <2>2. at' = Start(model')
            BY <1>1 DEF NoProcess
      <2>3. up' \in BOOLEAN /\ (up' => Len(model') < Total)
            BY <1>1
      <2>4. DOMAIN own' = Ranks /\ Clean'
            BY <1>1 DEF Forget, Clean
      <2> QED
          BY <1>7, <2>1, <2>2, <2>3, <2>4 DEF Begins, Saved
<1>9. Cached'
      <2>1. ASSUME NEW s, NEW b PROVE Folder(s, b) \subseteq Folder(s, b)'
            <3>1. Mine(s) \subseteq Mine(s)'
                  BY <1>1 DEF Mine
            <3>2. Gradients(b, Mine(s)) \subseteq Gradients(b, Mine(s)')
                  BY <3>1, GradientsGrow
            <3>3. Files(s, b) \subseteq Files(s, b)'
                  BY <3>1, <3>2 DEF Files
            <3> QED
                BY <3>1, <3>3 DEF Folder
      <2> QED
          BY <1>1, <2>1 DEF IInv, Cached
<1> QED
    BY <1>7, <1>8, <1>9, StartedNext DEF IInv

-----------------------------------------------------------------------------
(* Attempts begin and end.                                                  *)

LEMMA LaunchKeeps ==
    ASSUME IInv, Launch
    PROVE  IInv'
<1>1. Cached' /\ Saved'
      BY CachedStays, SavedStays DEF IInv, Saved, Launch, files
<1>2. Clean /\ Clean'
      BY DEF IInv, Memory, Launch, Clean
<1>3. Begins'
      BY <1>1, <1>2 DEF Begins, IInv, Saved, Memory, Launch, files
<1> QED
    BY <1>1, <1>3, StartedNext DEF IInv

\* An attempt ends: nothing is left of it.
LEMMA EndKeeps ==
    ASSUME IInv, Forget, NoProcess, up' = FALSE, UNCHANGED <<checkpoint, saved, record>>, Cached'
    PROVE  IInv'
<1>1. Saved'
      BY SavedStays DEF IInv, Saved
<1>2. Begins'
      BY <1>1 DEF Begins, Saved, Forget, NoProcess, Clean
<1> QED
    BY <1>1, <1>2, StartedNext DEF IInv

LEMMA PublishRefusedKeeps ==
    ASSUME IInv, PublishRefused
    PROVE  IInv'
BY EndKeeps, CachedStays DEF IInv, PublishRefused, files

\* The attempt ends, perhaps within a deletion.
LEMMA EndsKeeps ==
    ASSUME IInv, Ends
    PROVE  IInv'
<1>1. Forget /\ NoProcess /\ up' = FALSE /\ UNCHANGED <<checkpoint, saved, record>>
      BY DEF Ends
<1>2. CASE UNCHANGED cache
      BY <1>1, <1>2, EndKeeps, CachedStays DEF IInv
<1>3. ASSUME NEW d \in Directories, NEW left \in Leftovers(d), cache' = [cache EXCEPT ![d] = left]
      PROVE  Cached'
      <2>1. cache[d] \in Folder(d[1], d[2]) /\ EmptyDir(d[2]) \in Folder(d[1], d[2])
            BY EmptyFolder DEF IInv, Cached
      <2>2. left \in Folder(d[1], d[2])
            BY <2>1 DEF Leftovers, Folder, EmptyDir, Files
      <2> QED
          BY <1>1, <1>3, <2>2, CachedChanges DEF IInv
<1> QED
    BY <1>1, <1>2, <1>3, EndKeeps DEF Ends

LEMMA RestoreKeeps ==
    ASSUME IInv, Restore
    PROVE  IInv'
<1>1. Cached' /\ Saved'
      BY CachedStays, SavedStays DEF IInv, Restore
<1>2. UNCHANGED <<up, model, at, box, mem, own, traced, saved, record>>
      BY DEF Restore, memory
<1>3. Memory'
      BY <1>2 DEF IInv, Memory, Clean
<1>4. Scored => Scored'
      BY <1>2 DEF Scored, Ready, Heard, Holds
<1>5. Trained => Trained'
      BY <1>2 DEF Trained, All, document
<1> QED
    BY <1>1, <1>3, <1>4, <1>5 DEF IInv

LEMMA IdleKeeps ==
    ASSUME IInv, UNCHANGED vars
    PROVE  IInv'
<1>1. UNCHANGED <<up, model, at, box, mem, own, traced, checkpoint, saved, record, cache>>
      BY DEF vars, memory, files
<1>2. Cached' /\ Saved'
      BY <1>1, CachedStays, SavedStays DEF IInv, Saved
<1>3. Memory'
      BY <1>1 DEF IInv, Memory, Clean
<1>4. Scored => Scored'
      BY <1>1 DEF Scored, Ready, Heard, Holds
<1>5. Trained => Trained'
      BY <1>1 DEF Trained, All, document
<1> QED
    BY <1>2, <1>3, <1>4, <1>5 DEF IInv

-----------------------------------------------------------------------------
(* The invariant, and what it gives.                                        *)

LEMMA InitHolds ==
    ASSUME Init
    PROVE  IInv
<1>1. Cached
      <2>1. DOMAIN cache = Directories /\ \A d \in Directories : cache[d] = EmptyDir(d[2])
            BY DEF Init
      <2> QED
          BY <2>1, EmptyFolder DEF Cached
<1>2. Saved
      <2>1. << >> \in Seq(Outcomes) /\ Len(<< >>) = 0 /\ 0 <= Total
            BY SizesAssumption DEF SizesAssumption
      <2> QED
          BY <2>1 DEF Init, Saved, Documented
<1>3. Begins
      BY <1>2 DEF Begins, Saved, Init, Clean
<1> QED
    BY <1>1, <1>2, <1>3, Started DEF IInv

\* What is in the files, in the ranks' memory and in the records is always of the
\* one saved model of its step, and as much of it as the ranks have behind them.
THEOREM Invariance == Spec => []IInv
<1>1. Init => IInv
      BY InitHolds
<1>2. IInv /\ [Next]_vars => IInv'
      <2> SUFFICES ASSUME IInv, [Next]_vars PROVE IInv'
          OBVIOUS
      <2>1. CASE Step
            BY <2>1, LaunchKeeps, ReuseKeeps, BeginKeeps, GatherKeeps, SavePartialKeeps,
               SaveResultKeeps, FollowKeeps, RollKeeps, DropKeeps, TrainKeeps, PublishKeeps,
               PublishRefusedKeeps, SaveCheckpointKeeps, VectorsKeeps, EndsKeeps DEF Step, RankFailed
      <2> QED
          BY <2>1, EndsKeeps, RestoreKeeps, IdleKeeps DEF Next, Kill
<1> QED
    BY <1>1, <1>2, PTL DEF Spec

\* No rank ever trains an update on gradients of other weights' rollouts, and none
\* on fewer prompts than the blocks have, whether it gathered them, took them over
\* or read them, in whatever way attempts are interrupted and fail.
THEOREM GradientsAreOwn == Spec => []SelectionIsOwn
<1>1. IInv => SelectionIsOwn
      BY ScoredAll DEF SelectionIsOwn
<1> QED
    BY <1>1, Invariance, PTL

\* The records save() publishes are, update by update, those of the checkpoint,
\* also when an older checkpoint was put back from the backup.
THEOREM RecordsAreOfModel == Spec => []RecordsOfModel
<1>1. IInv => RecordsOfModel
      <2> SUFFICES ASSUME IInv, NEW s \in 1..Len(checkpoint)
                   PROVE  /\ record[s] # None
                          /\ record[s].model = SubSeq(checkpoint, 1, s)
                          /\ scoring(SubSeq(checkpoint, 1, s - 1)) => record[s].groups = Whole
          BY DEF RecordsOfModel
      <2>1. checkpoint \in Seq(Outcomes) /\ Documented(checkpoint)
            BY DEF IInv, Saved
      <2>2. Len(SubSeq(checkpoint, 1, s - 1)) = s - 1
            BY <2>1
      <2> QED
          BY <2>1, <2>2 DEF Documented, scoring
<1> QED
    BY <1>1, Invariance, PTL

\* Every checkpoint that was ever saved lies on one path, though updates are done
\* again after kills and after an older checkpoint came back, and may come out
\* differently: save() refuses a second record of an update before its checkpoint.
OnePath ==
    \A m, n \in saved : Len(m) <= Len(n) => m = SubSeq(n, 1, Len(m))

THEOREM SavedOnOnePath == Spec => []OnePath
<1>1. IInv => OnePath
      <2> SUFFICES ASSUME IInv, NEW m \in saved, NEW n \in saved, Len(m) <= Len(n)
                   PROVE  m = SubSeq(n, 1, Len(m))
          BY DEF OnePath
      <2>1. m \in Seq(Outcomes) /\ n \in Seq(Outcomes) /\ Documented(m) /\ Documented(n)
            BY DEF IInv, Saved
      <2>2. CASE Len(m) = 0
            BY <2>1, <2>2
      <2>3. CASE Len(m) # 0
            <3>1. Len(m) \in 1..Len(m) /\ Len(m) \in 1..Len(n)
                  BY <2>1, <2>3
            <3>2. record[Len(m)].model = SubSeq(m, 1, Len(m))
                  /\ record[Len(m)].model = SubSeq(n, 1, Len(m))
                  BY <2>1, <3>1 DEF Documented
            <3> QED
                BY <2>1, <3>2
      <2> QED
          BY <2>2, <2>3
<1> QED
    BY <1>1, Invariance, PTL

\* publish() never replaces a record: the record of an update is the first one, and
\* the models that were saved stay known.
RecordsStay ==
    /\ saved \subseteq saved'
    /\ \A s \in 1..Total : record[s] # None => record'[s] = record[s]

THEOREM RecordsAreFinal == Spec => [][RecordsStay]_vars
<1>1. IInv /\ [Next]_vars => [RecordsStay]_vars
      <2> SUFFICES ASSUME IInv, Next PROVE RecordsStay
          OBVIOUS
      <2>1. CASE Publish
            <3>1. Len(model) \in 1..Total
                  BY <2>1, AfterTraining DEF Publish
            <3> QED
                BY <2>1, <3>1 DEF Publish, RecordsStay, IInv, Saved
      <2>2. CASE ~Publish
            BY <2>2 DEF Next, Step, Launch, Reuse, Begin, Gather, SavePartial, SaveResult, Follow,
               Roll, Drop, Train, PublishRefused, SaveCheckpoint, Vectors, RankFailed, Kill, Ends, Restore, files,
               RecordsStay
      <2> QED
          BY <2>1, <2>2
<1> QED
    BY <1>1, Invariance, PTL DEF Spec
=============================================================================
