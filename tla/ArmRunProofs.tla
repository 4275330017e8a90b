----------------------------- MODULE ArmRunProofs -----------------------------
(***************************************************************************)
(* Proofs about ArmRun, for any set of arms, any plan that divides as the  *)
(* repository's plans do, any contrasts and any number of killed runs:     *)
(* costs called complete are complete, run.json is honest, On-policy       *)
(* updates train on the block of their own selection interval, and the     *)
(* training implements Trajectory.  The temporal rule decides what the     *)
(* README documents, by itself and in an arm that is killed and resumed.   *)
(***************************************************************************)
EXTENDS ArmRun, TemporalRule, SequenceTheorems, TLAPS

(* Types. *)
MaybeState == States \cup {None}
ProcessType ==
    /\ pc \in [Tasks -> Points]
    /\ run \in [Tasks -> Nat]
    /\ engine \in [Tasks -> MaybeState]
    /\ crashes \in 0..MaxCrashes
SavedType ==
    /\ checkpoint \in [Tasks -> MaybeState]
    /\ prefixPt \in MaybeState
    /\ prefixReady \in MaybeState
ResultType ==
    /\ progress \in [Arms -> Nat]
    /\ endpoint \in [Arms -> Results \cup {None}]
    /\ manifest \in {"none", "running", "complete"}
CostType ==
    /\ begun \in [Tasks -> Nat]
    /\ charged \in [Tasks -> Nat]
    /\ unfinished \in [Tasks -> BOOLEAN]
TypeOK == ProcessType /\ SavedType /\ ResultType /\ CostType

(* Where a process can be, given what is published. *)
Loaded == Points \ {"off", "setup", "refused"}
Placed(t) ==
    /\ pc[t] \in Loaded => engine[t] # None
    /\ pc[t] = "off" => engine[t] = None
    /\ t = "prefix" => pc[t] \notin {"progress", "evaluating", "endpoint", "finalize"}
    /\ t = "prefix" /\ pc[t] = "ready" => prefixPt # None
    /\ t # "prefix" => pc[t] # "ready"
    /\ t # "prefix" /\ pc[t] # "off" => prefixReady # None
    /\ pc[t] \notin {"off", "finalize"} => ~complete(t)
    /\ pc[t] = "finalize" => complete(t)
Released == prefixReady # None => prefixPt = prefixReady
Control == Released /\ \A t \in Tasks : Placed(t)

(* A run is started again only after a kill. *)
Counted(t) ==
    /\ pc[t] # "off" => run[t] > 0
    /\ run[t] <= crashes + (IF pc[t] = "off" /\ ~complete(t) THEN 0 ELSE 1)
Counts == \A t \in Tasks : Counted(t)

(* A phase that is not charged is running, or left its receipt unfinished. *)
Charged(t) ==
    pc[t] # "refused" /\ ~unfinished[t] =>
        begun[t] = charged[t] + (IF pc[t] = "updating" THEN 1 ELSE 0)
Measured(a) == endpoint[a] # None /\ endpoint[a].measured => ~unfinished[a]
Charges == (\A t \in Tasks : Charged(t)) /\ \A a \in Arms : Measured(a)

(* The block a state trains on, and those its updates trained on. *)
BlockOf(n) == n - (n % SelectionInterval)
Blocks(s) == \A i \in 1..Len(s.history) :
                s.history[i].on => s.history[i].block = BlockOf(s.history[i].step)
Current(t, s) ==
    uses_on(t, s) /\ s.step % SelectionInterval # 0 => s.active = BlockOf(s.step)
Sound(t, s) == Blocks(s) /\ Current(t, s) /\ (t = "prefix" => s.switched_at = None)
BlocksSound ==
    /\ \A t \in Tasks : engine[t] # None => Sound(t, engine[t])
    /\ \A t \in Tasks : checkpoint[t] # None => Sound(t, checkpoint[t])
    /\ prefixPt # None => Sound("prefix", prefixPt)
    /\ \A a \in Arms : endpoint[a] # None => Blocks(endpoint[a].state)

(* The decision of the arm that switches. *)
Decided(s) ==
    LET checks == checksOf(s)
        ended  == IF s.switched_at = None THEN s.step - 1 ELSE s.switched_at
    IN  /\ s.step >= P /\ Len(s.history) = s.step - P
        /\ \A i \in 1..Len(s.history) :
              /\ s.history[i].step = P + i - 1
              /\ s.history[i].on <=> (s.switched_at = None \/ s.history[i].step < s.switched_at)
        /\ s.rule.switched <=> s.switched_at # None
        /\ s.switched_at # None => s.switched_at \in P..(s.step - 1) /\ scheduled(s.switched_at)
        /\ {c.step : c \in checks} = {n \in P..ended : scheduled(n)}
        /\ s.switched_at = None => Remembers(s.rule, checks)
        /\ \A c \in checks : Triggers(checks, c) <=> c.step = s.switched_at
Decisions ==
    \A t \in Arms \cap {"switch"} :
        /\ engine[t] # None => Decided(engine[t])
        /\ checkpoint[t] # None => Decided(checkpoint[t])
        /\ endpoint[t] # None => Decided(endpoint[t].state)

(* What a run has trained, beyond what it took up. *)
Sized(t, s) == /\ Len(s.theta) = s.step
               /\ s.step <= target(t)
               /\ t # "prefix" => s.step >= P
base(t) == IF checkpoint[t] # None THEN checkpoint[t].theta
           ELSE IF t = "prefix" THEN <<>> ELSE prefixReady.theta
Extends(t, s) ==
    /\ Len(base(t)) <= Len(s.theta)
    /\ \A i \in 1..Len(base(t)) : s.theta[i] = base(t)[i]
    /\ \A i \in (Len(base(t)) + 1)..Len(s.theta) : s.theta[i] = run[t]
Sizes ==
    /\ \A t \in Tasks : engine[t] # None => Sized(t, engine[t])
    /\ \A t \in Tasks : checkpoint[t] # None => Sized(t, checkpoint[t])
    /\ prefixPt # None => prefixPt.step = P /\ Len(prefixPt.theta) = P
Grown == \A t \in Tasks : pc[t] \in Loaded => Extends(t, engine[t])

(* The last update is saved before anything is published. *)
Settled == Loaded \ {"updating", "saving", "finalize"}
Kept(t) ==
    /\ pc[t] \in Settled /\ engine[t].step = target(t) => checkpoint[t] = engine[t]
    /\ pc[t] = "updating" => engine[t].step < target(t)
    /\ pc[t] \in {"ready", "evaluating", "endpoint"} => engine[t].step = target(t)
    /\ pc[t] = "ready" => prefixPt = checkpoint[t]
LastKept == \A t \in Tasks : Kept(t)
Training == Sizes /\ Grown /\ LastKept

IInv == TypeOK /\ Control /\ Counts /\ Charges /\ ManifestHonest /\ BlocksSound /\ Decisions /\ Training

-----------------------------------------------------------------------------
(* Arithmetic of intervals, and the operators of the engine.                *)

\* Division with remainder is unique.
LEMMA RemainderUnique ==
    ASSUME NEW M \in Nat \ {0}, NEW q \in Int, NEW r \in 0..M-1, NEW p \in Int, NEW k \in 0..M-1,
           M * q + r = M * p + k
    PROVE  r = k
<1>1. M * (q - p) = k - r
      OBVIOUS
<1>2. CASE q - p >= 1
      <2>1. M * (q - p) >= M
            BY <1>2
      <2> QED
          BY <1>1, <2>1
<1>3. CASE p - q >= 1
      <2>1. M * (p - q) >= M
            BY <1>3
      <2>2. M * (p - q) = r - k
            BY <1>1
      <2> QED
          BY <2>1, <2>2
<1>4. CASE q = p
      OBVIOUS
<1> QED
    BY <1>2, <1>3, <1>4

\* The remainder of the next number.
LEMMA NextRemainder ==
    ASSUME NEW M \in Nat \ {0}, NEW n \in Nat
    PROVE  (n + 1) % M = IF n % M = M - 1 THEN 0 ELSE (n % M) + 1
<1>1. n = M * (n \div M) + (n % M) /\ n % M \in 0..M-1 /\ n \div M \in Int
      OBVIOUS
<1>2. /\ n + 1 = M * ((n + 1) \div M) + ((n + 1) % M)
      /\ (n + 1) % M \in 0..M-1 /\ (n + 1) \div M \in Int
      OBVIOUS
<1>3. CASE n % M = M - 1
      <2>1. n + 1 = M * ((n \div M) + 1) + 0
            BY <1>1, <1>3
      <2>2. /\ M * ((n + 1) \div M) + ((n + 1) % M) = M * ((n \div M) + 1) + 0
            /\ (n \div M) + 1 \in Int /\ 0 \in 0..M-1
            BY <1>1, <1>2, <2>1
      <2>3. (n + 1) % M = 0
            BY <1>2, <2>2, RemainderUnique
      <2> QED
          BY <1>3, <2>3
<1>4. CASE n % M # M - 1
      <2>1. n + 1 = M * (n \div M) + ((n % M) + 1) /\ (n % M) + 1 \in 0..M-1
            BY <1>1, <1>4
      <2> QED
          BY <1>1, <1>2, <1>4, <2>1, RemainderUnique
<1> QED
    BY <1>3, <1>4

\* Inside an interval the block stays the one it began with.
LEMMA NextBlock ==
    ASSUME PlanAssumption, NEW n \in Nat, (n + 1) % SelectionInterval # 0
    PROVE  BlockOf(n + 1) = BlockOf(n)
<1>1. SelectionInterval \in Nat \ {0}
      BY DEF PlanAssumption
<1>2. (n + 1) % SelectionInterval = (n % SelectionInterval) + 1
      BY <1>1, NextRemainder
<1>3. n % SelectionInterval \in Nat
      BY <1>1
<1> QED
    BY <1>2, <1>3 DEF BlockOf

\* A new engine is a state.
LEMMA NewEngine ==
    newEngine \in States
BY DEF newEngine, NewRule, States, Rules

\* A fork keeps the model and the block.
LEMMA Forked ==
    ASSUME NEW s \in States
    PROVE  /\ fork(s) \in States
           /\ fork(s).step = s.step /\ fork(s).theta = s.theta /\ fork(s).active = s.active
           /\ fork(s).switched_at = None /\ fork(s).history = <<>> /\ fork(s).rule = NewRule
<1> DEFINE rule == NewRule
           h    == <<>>
           f    == fork(s)
<1>1. rule \in Rules /\ h \in Seq(Records)
      BY DEF NewRule, Rules
<1>2. f = [s EXCEPT !.rule = rule, !.switched_at = None, !.history = h]
      BY DEF fork
<1>3. /\ f \in States
      /\ f.step = s.step /\ f.theta = s.theta /\ f.active = s.active
      /\ f.switched_at = None /\ f.history = h /\ f.rule = rule
      <2> HIDE DEF rule, h, f
      <2> QED
          BY <1>1, <1>2 DEF States
<1> QED
    BY <1>3

\* observe() keeps the rule a rule.
LEMMA Observed ==
    ASSUME IntervalAssumption, NEW rule \in Rules, NEW step \in Nat, NEW d \in Int
    PROVE  observe(rule, step, d) \in Rules
<1> DEFINE w == window(rule, step)
<1>1. w \in Seq(Int)
      BY DEF window, Rules
<1>2. extend(w, d) \in Seq(Int)
      <2> HIDE DEF w
      <2>1. CASE Len(w) = 1
            <3>1. PICK x \in Int : x = w[1]
                  BY <1>1, <2>1
            <3> QED
                BY <2>1, <3>1 DEF extend
      <2>2. CASE Len(w) # 1
            BY <2>2 DEF extend
      <2> QED
          BY <2>1, <2>2
<1>3. confirms(w, d) \in BOOLEAN
      BY DEF confirms
<1>4. observe(rule, step, d) =
         [last |-> step, window |-> IF confirms(w, d) THEN w ELSE extend(w, d),
          switched |-> confirms(w, d)]
      BY DEF observe
<1> HIDE DEF w
<1> QED
    BY <1>1, <1>2, <1>3, <1>4 DEF Rules

\* What an update makes of an engine.
NextOf(t, s, u) ==
    /\ u.step = s.step + 1
    /\ u.theta = Append(s.theta, run[t])
    /\ u.active = IF refreshes(t, s) THEN s.step ELSE s.active
    /\ t = "prefix" => u.switched_at = s.switched_at
    /\ u.switched_at = None => s.switched_at = None
    /\ \E r \in Records : /\ u.history = Append(s.history, r)
                          /\ r.step = s.step
                          /\ r.on => uses_on(t, s) /\ r.block = u.active

\* An update makes a state, the next one.
LEMMA Updated ==
    ASSUME PlanAssumption, IntervalAssumption, NEW t \in Tasks, NEW s \in States,
           run[t] \in Nat, NEW d \in Int \cup {None}, check_due(t, s) => d \in Int,
           NEW u, u = updated(t, s, d)
    PROVE  u \in States /\ NextOf(t, s, u)
<1> DEFINE rule  == IF check_due(t, s) THEN observe(s.rule, s.step, d) ELSE s.rule
           sw    == IF check_due(t, s) /\ rule.switched THEN s.step ELSE s.switched_at
           block == IF refreshes(t, s) THEN s.step ELSE s.active
           on    == uses_on(t, s) /\ sw = None
           r     == [step |-> s.step, d |-> d, on |-> on,
                     block |-> IF on THEN block ELSE None, run |-> run[t]]
<1>1. /\ s.step \in Nat /\ s.theta \in Seq(Nat) /\ s.rule \in Rules
      /\ s.switched_at \in Nat \cup {None} /\ s.active \in Nat \cup {None}
      /\ s.history \in Seq(Records)
      BY DEF States
<1>2. rule \in Rules
      BY <1>1, Observed
<1>3. sw \in Nat \cup {None} /\ block \in Nat \cup {None} /\ on \in BOOLEAN
      BY <1>1 DEF uses_on, onArm
<1>4. sw = None => s.switched_at = None
      BY <1>1 DEF IntervalAssumption
<1>5. t = "prefix" => sw = s.switched_at
      BY DEF check_due
<1>6. u = [step |-> s.step + 1, theta |-> Append(s.theta, run[t]), rule |-> rule,
           switched_at |-> sw, active |-> block, history |-> Append(s.history, r)]
      BY DEF updated
<1>7. block = IF refreshes(t, s) THEN s.step ELSE s.active
      OBVIOUS
<1>8. on => uses_on(t, s)
      OBVIOUS
<1> HIDE DEF rule, sw, block, on
<1>9. r \in Records /\ r.step = s.step /\ r.on = on /\ (on => r.block = block)
      BY <1>1, <1>3 DEF Records
<1> HIDE DEF r
<1>10. Append(s.theta, run[t]) \in Seq(Nat) /\ Append(s.history, r) \in Seq(Records)
      BY <1>1, <1>9
<1>11. s.step + 1 \in Nat
      BY <1>1, SMTT(30)
<1> DEFINE theta   == Append(s.theta, run[t])
           history == Append(s.history, r)
<1>12. /\ u.step = s.step + 1 /\ u.theta = theta /\ u.switched_at = sw
       /\ u.active = block /\ u.history = history
      BY <1>6, SMTT(30)
<1>13. u \in States
      <2> HIDE DEF theta, history
      <2> QED
          BY <1>2, <1>3, <1>6, <1>10, <1>11 DEF States, theta, history
<1> QED
    BY <1>4, <1>5, <1>7, <1>8, <1>9, <1>12, <1>13 DEF NextOf

-----------------------------------------------------------------------------
(* The temporal rule.                                                       *)

\* Two multiples less than an interval apart are the same.
LEMMA Multiples ==
    ASSUME NEW M \in Nat \ {0}, NEW x \in Nat, NEW y \in Nat, x % M = 0, y % M = 0,
           x <= y, y < x + M
    PROVE  x = y
<1>1. x = M * (x \div M) + (x % M) /\ x \div M \in Int
      OBVIOUS
<1>2. y = M * (y \div M) + (y % M) /\ y \div M \in Int
      OBVIOUS
<1>3. y - x \in 0..M-1 /\ 0 \in 0..M-1
      OBVIOUS
<1>4. M * (x \div M) + (y - x) = M * (y \div M) + 0
      BY <1>1, <1>2
<1>5. y - x = 0
      BY <1>1, <1>2, <1>3, <1>4, RemainderUnique
<1> QED
    BY <1>5

\* What the rule compares.
Numbers(checks) == \A c \in checks : c.step \in Nat /\ c.d \in Int

\* A check c the rule may observe after those it remembers.
Comes(r, checks, c) ==
    /\ Numbers(checks \cup {c}) /\ Apart(checks)
    /\ observable(r, c.step) /\ r.window \in Seq(Int) /\ Remembers(r, checks)

\* The rule confirms check c exactly when it triggers, and else remembers it; what
\* the earlier checks triggered stays as it was.
Observes(after, checks, c, all) ==
    /\ Apart(all)
    /\ after.last = c.step /\ after.window \in Seq(Int) /\ after.switched \in BOOLEAN
    /\ after.switched <=> Triggers(all, c)
    /\ ~after.switched => Remembers(after, all)
    /\ \A b \in checks : b.step < c.step /\ (Triggers(all, b) <=> Triggers(checks, b))

LEMMA NextCheck ==
    ASSUME IntervalAssumption, NEW checks, NEW c, NEW r, Comes(r, checks, c)
    PROVE  Observes(observe(r, c.step, c.d), checks, c, checks \cup {c})
<1> DEFINE w == window(r, c.step)
<1>0. PICK d, all, after :
         d = c.d /\ all = checks \cup {c} /\ after = observe(r, c.step, c.d)
      OBVIOUS
<1> SUFFICES Observes(after, checks, c, all)
    BY <1>0
<1> USE DEF Comes
<1>1. Interval \in Nat \ {0} /\ None \notin Int
      BY DEF IntervalAssumption
<1>2. /\ c.step \in Nat /\ d \in Int /\ c.d = d
      /\ \A b \in checks : b.step \in Nat /\ b.d \in Int
      BY <1>0 DEF Numbers
<1>3. c.step % Interval = 0 /\ (r.last # None => c.step > r.last)
      BY DEF observable
<1>4. \A b \in checks : b.step < c.step /\ b # c
      <2>1. ASSUME NEW b \in checks PROVE b.step < c.step
            <3>1. PICK l \in checks : r.last = l.step /\ \A a \in checks : a.step <= l.step
                  BY <2>1 DEF Remembers
            <3>2. l.step \in Nat /\ l.step < c.step
                  BY <1>1, <1>2, <1>3, <3>1
            <3>3. b.step \in Nat /\ b.step <= l.step
                  BY <1>2, <3>1
            <3> QED
                BY <1>2, <3>2, <3>3
      <2> QED
          BY <1>2, <2>1
<1>5. Apart(all)
      BY <1>0, <1>2, <1>3, <1>4 DEF Apart
<1>6. ASSUME NEW b \in checks PROVE Triggers(all, b) <=> Triggers(checks, b)
      <2>1. Earlier(all, b, 1) = Earlier(checks, b, 1)
            BY <1>0, <1>1, <1>2, <1>4 DEF Earlier
      <2>2. Earlier(all, b, 2) = Earlier(checks, b, 2)
            BY <1>0, <1>1, <1>2, <1>4 DEF Earlier
      <2> QED
          BY <2>1, <2>2 DEF Triggers, TwoNegative, NegativeMean
<1>7. /\ after.last = c.step
      /\ after.window = IF confirms(w, d) THEN w ELSE extend(w, d)
      /\ after.switched = confirms(w, d)
      /\ confirms(w, d) \in BOOLEAN
      <2>1. after = [last |-> c.step, window |-> IF confirms(w, d) THEN w ELSE extend(w, d),
                     switched |-> confirms(w, d)]
            BY <1>0 DEF observe
      <2> HIDE DEF w
      <2>2. confirms(w, d) \in BOOLEAN
            BY DEF confirms
      <2> QED
          BY <2>1, <2>2
<1>8. Earlier(all, c, 1) = Earlier(checks, c, 1) /\ Earlier(all, c, 2) = Earlier(checks, c, 2)
      BY <1>0, <1>1, <1>2 DEF Earlier
<1>9. c \in all /\ \A b \in all : b.step <= c.step
      BY <1>0, <1>2, <1>4
<1> HIDE DEF w
\* Nothing a check interval ago: no window, no trigger.
<1>10. ASSUME w = <<>>, \A b \in Earlier(checks, c, 1) : \A a \in Earlier(checks, c, 2) : b.d >= 0 /\ a.d >= 0,
              \A b \in Earlier(checks, c, 1) : b.d >= 0
       PROVE  /\ ~confirms(w, d) /\ ~Triggers(all, c)
              /\ Remembers(after, all) /\ after.window \in Seq(Int)
       <2>1. ~confirms(w, d) /\ extend(w, d) = IF d < 0 THEN <<d>> ELSE <<>>
             BY <1>10 DEF confirms, extend
       <2>2. ~Triggers(all, c)
             BY <1>2, <1>8, <1>10 DEF Triggers, TwoNegative, NegativeMean, Earlier
       <2>3. ~\E b \in Earlier(all, c, 1) : b.d < 0
             BY <1>2, <1>8, <1>10 DEF Earlier
       <2>4. after.window = IF d < 0 THEN <<d>> ELSE <<>>
             BY <1>7, <2>1
       <2>5. Remembers(after, all)
             BY <1>2, <1>7, <1>9, <2>3, <2>4 DEF Remembers
       <2>6. <<d>> \in Seq(Int) /\ <<>> \in Seq(Int)
             BY <1>2
       <2> QED
           BY <2>1, <2>2, <2>4, <2>5, <2>6
<1>11. CASE checks = {}
       <2>1. w = <<>>
             BY <1>11 DEF w, window, Remembers
       <2> QED
           BY <1>4, <1>5, <1>6, <1>7, <1>10, <1>11, <2>1 DEF Earlier, Observes
<1>12. CASE checks # {}
       <2>1. PICK l \in checks :
               /\ r.last = l.step
               /\ \A b \in checks : b.step <= l.step
               /\ r.window \in
                    IF l.d < 0 THEN {<<l.d>>}
                    ELSE IF \E b \in Earlier(checks, l, 1) : b.d < 0
                    THEN {<<b.d, l.d>> : b \in Earlier(checks, l, 1)}
                    ELSE {<<>>}
             BY <1>12 DEF Remembers
       <2>2. l.step \in Nat /\ l.d \in Int /\ l.step % Interval = 0 /\ l.step < c.step
             BY <1>2, <1>4 DEF Apart
       <2>3. CASE c.step # l.step + Interval
             <3>1. w = <<>>
                   BY <1>1, <2>1, <2>2, <2>3 DEF w, window
             <3>2. ASSUME NEW b \in Earlier(checks, c, 1) PROVE FALSE
                   <4>1. b \in checks /\ b.step = c.step - Interval /\ b.step <= l.step
                         BY <1>1, <1>2, <2>1, <3>2 DEF Earlier
                   <4>2. b.step \in Nat /\ b.step % Interval = 0
                         BY <1>2, <4>1 DEF Apart
                   <4>3. l.step < b.step + Interval
                         BY <1>1, <1>2, <2>2, <4>1
                   <4>4. b.step = l.step
                         BY <1>1, <2>2, <4>1, <4>2, <4>3, Multiples
                   <4> QED
                       BY <1>1, <1>2, <2>2, <2>3, <4>1, <4>4
             <3> QED
                 BY <1>4, <1>5, <1>6, <1>7, <1>10, <3>1, <3>2 DEF Observes
       <2>4. CASE c.step = l.step + Interval
             <3>1. w = r.window
                   BY <2>1, <2>4 DEF w, window
             <3>2. Earlier(checks, c, 1) = {l}
                   <4>1. \A b \in checks : b.step = c.step - 1 * Interval => b.step = l.step
                         BY <1>1, <1>2, <2>2, <2>4
                   <4>2. \A b \in checks : b.step = l.step => b = l
                         BY DEF Apart
                   <4>3. l.step = c.step - 1 * Interval
                         BY <1>1, <1>2, <2>2, <2>4
                   <4> QED
                       BY <4>1, <4>2, <4>3 DEF Earlier
             <3>3. Earlier(checks, c, 2) = Earlier(checks, l, 1)
                   BY <1>1, <1>2, <2>2, <2>4 DEF Earlier
             <3>4. \A a \in Earlier(checks, l, 1) : a \in checks /\ a.d \in Int
                   BY <1>2 DEF Earlier
             <3>5. CASE l.d < 0
                   <4>1. w = <<l.d>> /\ Len(w) = 1 /\ w[1] = l.d
                         BY <2>1, <2>2, <3>1, <3>5
                   <4>2. confirms(w, d) <=> d < 0
                         BY <4>1 DEF confirms
                   <4>3. TwoNegative(all, c) <=> d < 0
                         BY <1>2, <1>8, <3>2, <3>5 DEF TwoNegative
                   <4>4. ~NegativeMean(all, c)
                         BY <1>2, <1>8, <2>2, <3>2, <3>5 DEF NegativeMean
                   <4>5. d >= 0 => extend(w, d) = <<l.d, d>>
                         BY <1>2, <4>1 DEF extend
                   <4>6. d >= 0 => after.window = <<l.d, d>>
                         BY <1>2, <1>7, <4>2, <4>5
                   <4>7. d >= 0 => Remembers(after, all)
                         <5>1. l \in Earlier(all, c, 1) /\ c.d = d
                               BY <1>2, <1>8, <3>2
                         <5>2. <<l.d, d>> \in {<<b.d, c.d>> : b \in Earlier(all, c, 1)}
                               BY <5>1
                         <5>3. \E b \in Earlier(all, c, 1) : b.d < 0
                               BY <3>5, <5>1
                         <5>4. d >= 0 => ~(c.d < 0)
                               BY <1>2
                         <5> QED
                             BY <1>7, <1>9, <4>6, <5>2, <5>3, <5>4 DEF Remembers
                   <4>8. after.window \in Seq(Int)
                         <5>1. <<l.d>> \in Seq(Int) /\ <<l.d, d>> \in Seq(Int)
                               BY <1>2, <2>2
                         <5>2. after.window = <<l.d>> \/ after.window = <<l.d, d>>
                               BY <1>2, <1>7, <4>1, <4>2, <4>6
                         <5> QED
                             BY <5>1, <5>2
                   <4>9. after.switched <=> Triggers(all, c)
                         BY <1>7, <4>2, <4>3, <4>4 DEF Triggers
                   <4>10. ~after.switched => Remembers(after, all)
                         BY <1>2, <1>7, <4>2, <4>7
                   <4> QED
                       BY <1>4, <1>5, <1>6, <1>7, <4>8, <4>9, <4>10 DEF Observes
             <3>6. CASE l.d >= 0 /\ \E b \in Earlier(checks, l, 1) : b.d < 0
                   <4>1. PICK a \in Earlier(checks, l, 1) : a.d < 0
                         BY <3>6
                   <4>2. Earlier(checks, l, 1) = {a}
                         BY <4>1 DEF Earlier, Apart
                   <4>3. a.d \in Int
                         BY <3>4
                   <4>4. w = <<a.d, l.d>>
                         BY <2>1, <2>2, <3>1, <3>6, <4>2
                   <4>5. Len(w) = 2 /\ w[1] = a.d /\ w[2] = l.d
                         BY <4>4
                   <4>6. confirms(w, d) <=> d < 0 /\ a.d + l.d + d < 0
                         BY <4>5 DEF confirms
                   <4>7. ~TwoNegative(all, c)
                         BY <1>8, <2>2, <3>2, <3>6 DEF TwoNegative
                   <4>8. NegativeMean(all, c) <=> d < 0 /\ a.d + l.d + d < 0
                         BY <1>2, <1>8, <3>2, <3>3, <3>6, <4>1, <4>2 DEF NegativeMean
                   <4>9. extend(w, d) = IF d < 0 THEN <<d>> ELSE <<>>
                         BY <4>5 DEF extend
                   <4>10. ~\E b \in Earlier(all, c, 1) : b.d < 0
                         BY <1>8, <2>2, <3>2, <3>6
                   <4>11. ~confirms(w, d) => after.window = IF d < 0 THEN <<d>> ELSE <<>>
                         BY <1>7, <4>9
                   <4>12. ~confirms(w, d) => Remembers(after, all)
                         BY <1>2, <1>7, <1>9, <4>10, <4>11 DEF Remembers
                   <4>13. after.window \in Seq(Int)
                         <5>1. <<a.d, l.d>> \in Seq(Int) /\ <<d>> \in Seq(Int) /\ <<>> \in Seq(Int)
                               BY <1>2, <2>2, <4>3
                         <5> QED
                             BY <1>7, <4>4, <4>11, <5>1
                   <4> QED
                       BY <1>4, <1>5, <1>6, <1>7, <4>6, <4>7, <4>8, <4>12, <4>13 DEF Triggers, Observes
             <3>7. CASE l.d >= 0 /\ ~\E b \in Earlier(checks, l, 1) : b.d < 0
                   <4>1. w = <<>>
                         BY <2>1, <2>2, <3>1, <3>7
                   <4>2. \A b \in Earlier(checks, c, 1) : b.d >= 0
                         BY <3>2, <3>7
                   <4>3. \A a \in Earlier(checks, c, 2) : a.d >= 0
                         BY <3>3, <3>4, <3>7
                   <4>4. ~confirms(w, d) /\ ~Triggers(all, c)
                         BY <1>10, <4>1, <4>2, <4>3
                   <4>5. Remembers(after, all) /\ after.window \in Seq(Int)
                         BY <1>10, <4>1, <4>2, <4>3
                   <4> QED
                       BY <1>4, <1>5, <1>6, <1>7, <4>4, <4>5 DEF Observes
             <3>8. l.d < 0 \/ l.d >= 0
                   BY <2>2
             <3> QED
                 BY <3>5, <3>6, <3>7, <3>8
       <2> QED
           BY <2>3, <2>4
<1> QED
    BY <1>11, <1>12

\* Before its first check the rule remembers nothing.
LEMMA NothingChecked ==
    Remembers(NewRule, {}) /\ Apart({}) /\ NewRule.window \in Seq(Int) /\ ~NewRule.switched
BY DEF Remembers, Apart, NewRule

\* The rule's memory is what the last check leaves, and no check but the last has
\* triggered (TemporalRule.observe).
THEOREM RuleInvariance == RuleSpec => []RuleInv
<1>1. RuleInit => RuleInv
      BY NothingChecked DEF RuleInit, RuleInv, RuleTypeOK, NewRule
<1>2. ASSUME RuleInv, NEW step \in Steps, NEW d \in Values, Check(step, d) PROVE RuleInv'
      <2>1. PICK c : c = [step |-> step, d |-> d]
            OBVIOUS
      <2>2. c \in Checks /\ c.step = step /\ c.d = d /\ step \in Nat
            BY <2>1, ChecksAssumption DEF Checks
      <2>3. /\ observable(automaton, c.step) /\ ~automaton.switched
            /\ automaton' = observe(automaton, c.step, c.d)
            /\ observed' = observed \cup {c}
            BY <1>2, <2>1, <2>2 DEF Check, observable
      <2>4. observed' \subseteq Checks
            BY <1>2, <2>2, <2>3 DEF RuleInv, RuleTypeOK
      <2>5. Observes(automaton', observed, c, observed')
            <3>1. Comes(automaton, observed, c)
                  BY <1>2, <2>2, <2>3 DEF RuleInv, RuleTypeOK, Comes, Numbers, Checks
            <3> QED
                BY <2>3, <3>1, IntervalAssumption, NextCheck
      <2>6. \A b \in observed : ~Triggers(observed', b)
            BY <1>2, <2>3, <2>5 DEF RuleInv, Observes
      <2>7. automaton' = [last |-> c.step, window |-> automaton'.window, switched |-> automaton'.switched]
            BY <2>3 DEF observe
      <2>8. RuleTypeOK'
            BY <2>2, <2>4, <2>5, <2>7 DEF RuleTypeOK, Observes
      <2>9. ~automaton'.switched =>
               Remembers(automaton, observed)' /\ \A b \in observed' : ~Triggers(observed', b)
            <3>1. Remembers(automaton, observed)' <=> Remembers(automaton', observed')
                  BY DEF Remembers, Earlier
            <3> QED
                BY <2>3, <2>5, <2>6, <3>1 DEF Observes
      <2>10. automaton'.switched =>
                \E b \in observed' : /\ Triggers(observed', b)
                                     /\ \A a \in observed' : /\ a.step <= b.step
                                                             /\ Triggers(observed', a) => a = b
            <3>1. \A a \in observed' : a.step <= c.step
                  BY <1>2, <2>2, <2>3, <2>5 DEF RuleInv, RuleTypeOK, Checks, Observes
            <3> QED
                BY <2>3, <2>5, <2>6, <3>1 DEF Observes
      <2>11. Apart(observed)'
            BY <2>5 DEF Apart, Observes
      <2> QED
          BY <2>8, <2>9, <2>10, <2>11 DEF RuleInv, Triggers, TwoNegative, NegativeMean, Earlier
<1>3. RuleInv /\ UNCHANGED ruleVars => RuleInv'
      BY DEF RuleInv, RuleTypeOK, Apart, Remembers, Triggers, TwoNegative, NegativeMean, Earlier,
             ruleVars
<1>4. RuleInv /\ [RuleNext]_ruleVars => RuleInv'
      BY <1>2, <1>3 DEF RuleNext
<1> QED
    BY <1>1, <1>4, PTL DEF RuleSpec

\* The automaton switches at the first check that triggers by the documented rule,
\* and at no other (srgc.py, TemporalRule; README.md).
THEOREM Documented == RuleSpec => []SwitchesAsDocumented
<1>1. RuleInv => SwitchesAsDocumented
      BY DEF RuleInv, SwitchesAsDocumented
<1> QED
    BY <1>1, RuleInvariance, PTL

-----------------------------------------------------------------------------
(* The decision of the arm that switches.                                   *)

\* A multiple of the check interval is one of the selection interval.
LEMMA MultipleOf ==
    ASSUME NEW A \in Nat \ {0}, NEW B \in Nat \ {0}, A % B = 0, NEW n \in Nat, n % A = 0
    PROVE  n % B = 0
<1> DEFINE q == A \div B
           k == n \div A
<1>1. A = B * q + (A % B) /\ q \in Int
      OBVIOUS
<1>2. n = A * k + (n % A) /\ k \in Int
      OBVIOUS
<1>3. n = B * (n \div B) + (n % B) /\ n % B \in 0..B-1 /\ n \div B \in Int
      OBVIOUS
<1> HIDE DEF q, k
<1>4. A = B * q /\ n = A * k
      BY <1>1, <1>2
<1>5. q * k \in Int /\ n = B * (q * k) + 0
      BY <1>1, <1>2, <1>4
<1>6. 0 \in 0..B-1
      OBVIOUS
<1> QED
    BY <1>3, <1>5, <1>6, RemainderUnique

\* One more update is one more check, or none.
LEMMA ChecksOfNext ==
    ASSUME NEW s \in States, NEW u \in States, NEW r \in Records,
           u.history = Append(s.history, r)
    PROVE  checksOf(u) = IF r.d = None THEN checksOf(s) ELSE checksOf(s) \cup {r}
<1>1. s.history \in Seq(Records) /\ Len(s.history) \in Nat
      BY DEF States
<1> DEFINE h == s.history
           g == u.history
<1>2. /\ Len(g) = Len(h) + 1 /\ g[Len(h) + 1] = r
      /\ \A i \in 1..Len(h) : g[i] = h[i]
      BY <1>1
<1> HIDE DEF h, g
<1>3. Len(h) \in Nat
      BY <1>1 DEF h
<1>4. checksOf(s) = {h[i] : i \in {i \in 1..Len(h) : h[i].d # None}}
      BY DEF checksOf, h
<1>5. checksOf(u) = {g[i] : i \in {i \in 1..Len(g) : g[i].d # None}}
      BY DEF checksOf, g
<1>6. 1..Len(g) = 1..Len(h) \cup {Len(h) + 1}
      BY <1>2, <1>3
<1>7. \A i \in 1..Len(h) : i # Len(h) + 1
      BY <1>3
<1>8. ASSUME NEW c PROVE c \in checksOf(u) <=> c \in checksOf(s) \/ (c = r /\ r.d # None)
      <2>1. c \in checksOf(u) <=> \E i \in 1..Len(h) \cup {Len(h) + 1} : g[i].d # None /\ c = g[i]
            BY <1>5, <1>6
      <2>2. c \in checksOf(s) <=> \E i \in 1..Len(h) : g[i].d # None /\ c = g[i]
            BY <1>2, <1>4
      <2> QED
          BY <1>2, <2>1, <2>2
<1> QED
    BY <1>8

\* The checks of a state whose decision is sound.
LEMMA ChecksSound ==
    ASSUME PlanAssumption, NEW s \in States, Decided(s)
    PROVE  /\ Numbers(checksOf(s)) /\ Apart(checksOf(s))
           /\ \A c \in checksOf(s) : c.step < s.step
<1> DEFINE h == s.history
           n == Len(h)
<1>1. h \in Seq(Records) /\ n \in Nat /\ s.step \in Nat /\ P \in Nat
      BY DEF States, PlanAssumption
<1>2. n = s.step - P /\ \A i \in 1..n : h[i].step = P + i - 1
      BY DEF Decided
<1>3. \A i \in 1..n : h[i].step \in Nat /\ h[i].d \in Int \cup {None}
      <2> SUFFICES ASSUME NEW i \in 1..n PROVE h[i].step \in Nat /\ h[i].d \in Int \cup {None}
          OBVIOUS
      <2>1. h[i] \in Records
            BY <1>1
      <2> QED
          BY <2>1 DEF Records
<1>4. \A c \in checksOf(s) : \E i \in 1..n : c = h[i] /\ c.d # None
      BY DEF checksOf
<1>5. \A c \in checksOf(s) : c.step % Interval = 0
      BY DEF Decided, scheduled
<1> HIDE DEF h, n
<1>6. Numbers(checksOf(s))
      BY <1>3, <1>4 DEF Numbers
<1>7. Apart(checksOf(s))
      <2> SUFFICES ASSUME NEW c \in checksOf(s), NEW b \in checksOf(s), b.step = c.step
                   PROVE  b = c
          BY <1>5 DEF Apart
      <2>1. PICK i \in 1..n : c = h[i]
            BY <1>4
      <2>2. PICK j \in 1..n : b = h[j]
            BY <1>4
      <2>3. i = j
            BY <1>1, <1>2, <2>1, <2>2, SMTT(30)
      <2> QED
          BY <2>1, <2>2, <2>3
<1>8. \A c \in checksOf(s) : c.step < s.step
      <2> SUFFICES ASSUME NEW c \in checksOf(s) PROVE c.step < s.step
          OBVIOUS
      <2>1. PICK i \in 1..n : c = h[i]
            BY <1>4
      <2> QED
          BY <1>1, <1>2, <2>1
<1> QED
    BY <1>6, <1>7, <1>8

\* A due check is at a scheduled step, and none is skipped before the switch.
LEMMA CheckDue ==
    ASSUME PlanAssumption, IntervalAssumption, NEW s \in States
    PROVE  check_due("switch", s) <=> s.switched_at = None /\ scheduled(s.step)
<1>1. s.step \in Nat
      BY DEF States
<1>2. /\ Interval \in Nat \ {0} /\ SelectionInterval \in Nat \ {0}
      /\ Interval % SelectionInterval = 0
      BY DEF PlanAssumption, IntervalAssumption
<1>3. s.step % Interval = 0 => s.step % SelectionInterval = 0
      BY <1>1, <1>2, MultipleOf
<1> QED
    BY <1>3 DEF check_due, refreshes, uses_on, onArm, scheduled

\* An update keeps to the documented rule: it switches when its own check triggers.
LEMMA UpdateDecides ==
    ASSUME PlanAssumption, IntervalAssumption, NEW s \in States, Decided(s),
           ~raises("switch", s), run["switch"] \in Nat,
           NEW d \in IF check_due("switch", s) THEN Int ELSE {None},
           NEW u \in States, u = updated("switch", s, d)
    PROVE  Decided(u)
<1> DEFINE due    == check_due("switch", s)
           rule   == IF due THEN observe(s.rule, s.step, d) ELSE s.rule
           sw     == IF due /\ rule.switched THEN s.step ELSE s.switched_at
           block  == IF refreshes("switch", s) THEN s.step ELSE s.active
           on     == uses_on("switch", s) /\ sw = None
           r      == [step |-> s.step, d |-> d, on |-> on,
                      block |-> IF on THEN block ELSE None, run |-> run["switch"]]
           checks == checksOf(s)
<1>1. /\ s.step \in Nat /\ s.rule \in Rules /\ s.history \in Seq(Records)
      /\ s.switched_at \in Nat \cup {None} /\ s.active \in Nat \cup {None} /\ P \in Nat
      BY DEF States, PlanAssumption
<1>2. u = [step |-> s.step + 1, theta |-> Append(s.theta, run["switch"]), rule |-> rule,
           switched_at |-> sw, active |-> block, history |-> Append(s.history, r)]
      BY DEF updated
<1>3. due <=> s.switched_at = None /\ scheduled(s.step)
      BY CheckDue
<1>4. None \notin Int /\ Interval \in Nat \ {0}
      BY DEF IntervalAssumption
<1>5. on <=> s.switched_at = None /\ sw = None
      BY DEF uses_on, onArm
<1> HIDE DEF due
<1>6. sw \in Nat \cup {None} /\ block \in Nat \cup {None} /\ on \in BOOLEAN
      BY <1>1
<1> HIDE DEF rule, sw, block, on
<1>7. r \in Records /\ r.step = s.step /\ r.d = d /\ r.on = on
      <2>1. d \in Int \cup {None}
            OBVIOUS
      <2> QED
          BY <1>1, <1>6, <2>1 DEF Records
<1> HIDE DEF r
<1>8. /\ u.step = s.step + 1 /\ u.rule = rule /\ u.switched_at = sw
      /\ u.history = Append(s.history, r)
      BY <1>2
<1>9. checksOf(u) = IF d = None THEN checks ELSE checks \cup {r}
      BY <1>7, <1>8, ChecksOfNext
<1>10. Numbers(checks) /\ Apart(checks) /\ \A c \in checks : c.step < s.step
       BY ChecksSound
<1> DEFINE h == s.history
           g == u.history
           n == Len(h)
<1>11. n = s.step - P /\ s.step >= P /\ n \in Nat
       BY <1>1, SMTT(30) DEF Decided
<1>12. /\ Len(g) = n + 1 /\ g[n + 1] = r /\ \A i \in 1..n : g[i] = h[i]
       BY <1>1, <1>8, SMTT(30)
<1>13. \A i \in 1..n : /\ h[i].step = P + i - 1 /\ h[i].step < s.step
                       /\ h[i].on <=> (s.switched_at = None \/ h[i].step < s.switched_at)
       <2> SUFFICES ASSUME NEW i \in 1..n
                    PROVE  /\ h[i].step = P + i - 1 /\ h[i].step < s.step
                           /\ h[i].on <=> (s.switched_at = None \/ h[i].step < s.switched_at)
           OBVIOUS
       <2>1. /\ h[i].step = P + i - 1
             /\ h[i].on <=> (s.switched_at = None \/ h[i].step < s.switched_at)
             BY DEF Decided
       <2>2. P + i - 1 < s.step
             BY <1>1, <1>11, SMTT(30)
       <2> QED
           BY <2>1, <2>2
<1>14. /\ s.rule.switched <=> s.switched_at # None
       /\ s.switched_at # None => s.switched_at \in P..(s.step - 1) /\ scheduled(s.switched_at)
       /\ s.switched_at = None => Remembers(s.rule, checks)
       /\ \A c \in checks : Triggers(checks, c) <=> c.step = s.switched_at
       BY DEF Decided
<1>15. /\ s.switched_at = None => {c.step : c \in checks} = {m \in P..(s.step - 1) : scheduled(m)}
       /\ s.switched_at # None => {c.step : c \in checks} = {m \in P..s.switched_at : scheduled(m)}
       BY DEF Decided
<1> HIDE DEF h, g, n, checks
\* The updates before this one were as this one leaves them.
<1>16. ASSUME sw = s.switched_at \/ (s.switched_at = None /\ sw = s.step)
       PROVE  /\ u.step >= P /\ Len(g) = u.step - P
              /\ \A i \in 1..Len(g) : /\ g[i].step = P + i - 1
                                      /\ g[i].on <=> (sw = None \/ g[i].step < sw)
       <2>1. u.step >= P /\ Len(g) = u.step - P
             BY <1>1, <1>8, <1>11, <1>12, SMTT(30)
       <2>2. ASSUME NEW i \in 1..n
             PROVE  g[i].step = P + i - 1 /\ (g[i].on <=> (sw = None \/ g[i].step < sw))
             BY <1>1, <1>4, <1>12, <1>13, <1>16
       <2>3. g[n + 1].step = P + (n + 1) - 1
             BY <1>1, <1>7, <1>11, <1>12, SMTT(30)
       <2>4. g[n + 1].on <=> (sw = None \/ g[n + 1].step < sw)
             BY <1>1, <1>4, <1>5, <1>7, <1>12, <1>14, <1>16
       <2>5. \A i \in 1..(n + 1) : i \in 1..n \/ i = n + 1
             BY <1>11
       <2> QED
           BY <1>12, <2>1, <2>2, <2>3, <2>4, <2>5
<1>17. CASE ~due
       <2>1. d = None /\ rule = s.rule /\ sw = s.switched_at /\ checksOf(u) = checks
             BY <1>9, <1>17 DEF due, rule, sw
       <2>2. {c.step : c \in checks} =
                {m \in P..(IF sw = None THEN u.step - 1 ELSE sw) : scheduled(m)}
             <3>1. CASE sw = None
                   <4>1. ~scheduled(s.step)
                         BY <1>3, <1>17, <2>1, <3>1
                   <4>2. u.step - 1 = s.step
                         BY <1>1, <1>8, SMTT(30)
                   <4>3. \A m : m \in P..s.step <=> m \in P..(s.step - 1) \/ m = s.step
                         BY <1>1, <1>11, SMTT(30)
                   <4> QED
                       BY <1>15, <2>1, <3>1, <4>1, <4>2, <4>3
             <3>2. CASE sw # None
                   BY <1>15, <2>1, <3>2
             <3> QED
                 BY <3>1, <3>2
       <2>3. sw # None => sw \in P..(u.step - 1) /\ scheduled(sw)
             BY <1>1, <1>8, <1>14, <2>1
       <2> QED
           BY <1>8, <1>14, <1>16, <2>1, <2>2, <2>3 DEF Decided, g
<1>18. CASE due
       <2>1. /\ d \in Int /\ s.switched_at = None /\ scheduled(s.step)
             /\ checksOf(u) = checks \cup {r}
             /\ rule = observe(s.rule, r.step, r.d)
             BY <1>3, <1>4, <1>7, <1>9, <1>18 DEF due, rule
       <2>2. observable(s.rule, r.step)
             BY <1>7, <1>18 DEF raises, due
       <2>3. Comes(s.rule, checks, r)
             BY <1>1, <1>7, <1>10, <1>14, <2>1, <2>2 DEF Comes, Numbers, Rules
       <2>4. Observes(rule, checks, r, checks \cup {r})
             BY <2>1, <2>3, NextCheck
       <2>5. sw = IF rule.switched THEN s.step ELSE None
             BY <1>18, <2>1 DEF sw
       <2>6. rule.switched <=> sw # None
             BY <1>1, <1>4, <2>5
       <2>7. {c.step : c \in checks \cup {r}} = {m \in P..s.step : scheduled(m)}
             <3>1. \A m : m \in P..s.step <=> m \in P..(s.step - 1) \/ m = s.step
                   BY <1>1, <1>11, SMTT(30)
             <3>2. {c.step : c \in checks \cup {r}} = {c.step : c \in checks} \cup {s.step}
                   BY <1>7
             <3> QED
                 BY <1>15, <2>1, <3>1, <3>2
       <2>8. (IF sw = None THEN u.step - 1 ELSE sw) = s.step
             BY <1>1, <1>8, <2>5, SMTT(30)
       <2>9. sw # None => sw \in P..(u.step - 1) /\ scheduled(sw)
             BY <1>1, <1>8, <1>11, <2>1, <2>5
       <2>10. \A c \in checks : ~Triggers(checks \cup {r}, c) /\ c.step # sw
             <3>1. \A c \in checks : c.step \in Nat /\ c.step < s.step
                   BY <1>10 DEF Numbers
             <3>2. \A c \in checks : ~Triggers(checks, c)
                   BY <1>4, <1>14, <2>1, <3>1
             <3>3. \A c \in checks : c.step # sw
                   BY <1>1, <1>4, <2>5, <3>1
             <3> QED
                 BY <2>4, <3>2, <3>3 DEF Observes
       <2>11. Triggers(checks \cup {r}, r) <=> r.step = sw
             BY <1>1, <1>4, <1>7, <2>4, <2>5 DEF Observes
       <2>12. sw = None => Remembers(rule, checks \cup {r})
             BY <2>4, <2>6 DEF Observes
       <2>13. sw = s.switched_at \/ (s.switched_at = None /\ sw = s.step)
             BY <2>1, <2>5
       <2> QED
           BY <1>8, <1>16, <2>1, <2>6, <2>7, <2>8, <2>9, <2>10, <2>11, <2>12, <2>13 DEF Decided, g
<1> QED
    BY <1>17, <1>18

-----------------------------------------------------------------------------
(* What the steps that make a state do.                                     *)

\* A run takes up its checkpoint, a new engine or a fork of the prefix.
LEMMA RestoreFacts ==
    ASSUME TypeOK, Control, NEW t \in Tasks, Restore(t)
    PROVE  \E s \in States :
              /\ engine' = [engine EXCEPT ![t] = s]
              /\ pc' = [pc EXCEPT ![t] = "loop"] \/ pc' = [pc EXCEPT ![t] = "refused"]
              /\ \/ checkpoint[t] # None /\ s = checkpoint[t]
                 \/ checkpoint[t] = None /\ t = "prefix" /\ s = newEngine
                 \/ /\ checkpoint[t] = None /\ t # "prefix" /\ s = fork(prefixPt)
                    /\ prefixPt # None /\ prefixReady = prefixPt
<1> DEFINE s == IF checkpoint[t] # None THEN checkpoint[t]
                ELSE IF t = "prefix" THEN newEngine ELSE fork(prefixPt)
<1>1. /\ engine' = [engine EXCEPT ![t] = s]
      /\ pc' = [pc EXCEPT ![t] = "loop"] \/ pc' = [pc EXCEPT ![t] = "refused"]
      BY DEF Restore, goto
<1>2. t # "prefix" => prefixPt # None /\ prefixReady = prefixPt
      BY DEF Restore, Control, Released, Placed
<1>3. s \in States
      BY <1>2, NewEngine, Forked DEF TypeOK, SavedType, MaybeState
<1> QED
    BY <1>1, <1>2, <1>3

\* An update raises, or makes a state of the next step.
LEMMA UpdateFacts ==
    ASSUME PlanAssumption, IntervalAssumption, TypeOK, Control, NEW t \in Tasks, Update(t)
    PROVE  /\ engine[t] \in States
           /\ \/ pc' = [pc EXCEPT ![t] = "refused"] /\ UNCHANGED <<engine, charged>>
              \/ \E u \in States :
                    /\ engine' = [engine EXCEPT ![t] = u]
                    /\ charged' = [charged EXCEPT ![t] = @ + 1]
                    /\ pc' = [pc EXCEPT ![t] = IF saves(t, u.step) THEN "saving" ELSE "loop"]
                    /\ NextOf(t, engine[t], u)
                    /\ t = "switch" /\ Decided(engine[t]) => Decided(u)
<1>1. pc[t] = "updating"
      BY DEF Update
<1>2. PICK s \in States : s = engine[t]
      BY <1>1 DEF Control, Placed, Loaded, Points, Metered, TypeOK, ProcessType, MaybeState
<1>3. run[t] \in Nat
      BY DEF TypeOK, ProcessType
<1>4. CASE raises(t, s)
      BY <1>2, <1>4 DEF Update, goto
<1>5. CASE ~raises(t, s)
      <2>1. PICK d \in IF check_due(t, s) THEN Contrasts ELSE {None} :
               engine' = [engine EXCEPT ![t] = updated(t, s, d)]
            BY <1>2, <1>5 DEF Update
      <2>2. d \in Int \cup {None} /\ (check_due(t, s) => d \in Int)
            BY <2>1 DEF PlanAssumption
      <2>3. PICK u : u = updated(t, s, d)
            OBVIOUS
      <2>4. /\ charged' = [charged EXCEPT ![t] = @ + 1]
            /\ pc' = [pc EXCEPT ![t] = IF saves(t, s.step + 1) THEN "saving" ELSE "loop"]
            BY <1>2, <1>5 DEF Update, goto
      <2>5. u \in States /\ NextOf(t, s, u)
            BY <1>3, <2>2, <2>3, Updated
      <2>6. t = "switch" /\ Decided(s) => Decided(u)
            <3>1. t = "switch" => d \in IF check_due("switch", s) THEN Int ELSE {None}
                  BY <2>1 DEF PlanAssumption
            <3> QED
                BY <1>3, <1>5, <2>3, <2>5, <3>1, UpdateDecides
      <2> QED
          BY <1>2, <2>1, <2>3, <2>4, <2>5, <2>6 DEF NextOf
<1> QED
    BY <1>4, <1>5

-----------------------------------------------------------------------------
(* Types.                                                                   *)

\* Types of processes and engines.
LEMMA ProcessTyping ==
    ASSUME PlanAssumption, NoneAssumption, IntervalAssumption, TypeOK, Control, [Next]_vars
    PROVE  ProcessType'
<1> USE DEF TypeOK, ProcessType, MaybeState, Points, Metered, goto
<1>1. CASE UNCHANGED <<pc, run, engine, crashes>>
      BY <1>1
<1>2. ASSUME NEW t \in Tasks, Start(t) PROVE ProcessType'
      BY <1>2 DEF Start
<1>3. ASSUME NEW t \in Tasks, Restore(t) PROVE ProcessType'
      <2>1. PICK s \in States :
               /\ engine' = [engine EXCEPT ![t] = s]
               /\ pc' = [pc EXCEPT ![t] = "loop"] \/ pc' = [pc EXCEPT ![t] = "refused"]
            BY <1>3, RestoreFacts
      <2> QED
          BY <1>3, <2>1 DEF Restore
<1>4. ASSUME NEW t \in Tasks, Begin(t) PROVE ProcessType'
      BY <1>4 DEF Begin
<1>5. ASSUME NEW t \in Tasks, Update(t) PROVE ProcessType'
      <2>1. UNCHANGED engine \/ \E u \in States : engine' = [engine EXCEPT ![t] = u]
            BY <1>5, UpdateFacts
      <2>2. \E p \in Points : pc' = [pc EXCEPT ![t] = p]
            BY <1>5 DEF Update
      <2> QED
          BY <1>5, <2>1, <2>2 DEF Update
<1>6. ASSUME NEW t \in Tasks, Save(t) PROVE ProcessType'
      BY <1>6 DEF Save
<1>7. ASSUME NEW t \in Tasks, EndSave(t) PROVE ProcessType'
      BY <1>7 DEF EndSave
<1>8. ASSUME NEW t \in Tasks, WriteProgress(t) PROVE ProcessType'
      BY <1>8 DEF WriteProgress
<1>9. ASSUME NEW t \in Tasks, WritePrefix(t) PROVE ProcessType'
      BY <1>9 DEF WritePrefix
<1>10. ASSUME NEW t \in Tasks, WriteReady(t) PROVE ProcessType'
      BY <1>10 DEF WriteReady
<1>11. ASSUME NEW t \in Tasks, Evaluate(t) PROVE ProcessType'
      BY <1>11 DEF Evaluate
<1>12. ASSUME NEW t \in Tasks, EndEvaluate(t) PROVE ProcessType'
      BY <1>12 DEF EndEvaluate
<1>13. ASSUME NEW t \in Tasks, WriteEndpoint(t) PROVE ProcessType'
      BY <1>13 DEF WriteEndpoint
<1>14. ASSUME NEW t \in Tasks, Finalize(t) PROVE ProcessType'
      BY <1>14 DEF Finalize
<1>15. ASSUME NEW t \in Tasks, Crash(t) PROVE ProcessType'
      BY <1>15 DEF Crash
<1>16. [Next]_vars /\ ~UNCHANGED <<pc, run, engine, crashes>> =>
        \/ \E t \in Tasks : Start(t)
        \/ \E t \in Tasks : Restore(t)
        \/ \E t \in Tasks : Begin(t)
        \/ \E t \in Tasks : Update(t)
        \/ \E t \in Tasks : Save(t)
        \/ \E t \in Tasks : EndSave(t)
        \/ \E t \in Tasks : WriteProgress(t)
        \/ \E t \in Tasks : WritePrefix(t)
        \/ \E t \in Tasks : WriteReady(t)
        \/ \E t \in Tasks : Evaluate(t)
        \/ \E t \in Tasks : EndEvaluate(t)
        \/ \E t \in Tasks : WriteEndpoint(t)
        \/ \E t \in Tasks : Finalize(t)
        \/ \E t \in Tasks : Crash(t)
      BY DEF vars, diskVars, costVars, Next, TaskStep, PublishReports
<1> QED
    BY <1>1, <1>2, <1>3, <1>4, <1>5, <1>6, <1>7, <1>8, <1>9, <1>10, <1>11, <1>12, <1>13,
       <1>14, <1>15, <1>16

\* Types of saved states.
LEMMA SavedTyping ==
    ASSUME PlanAssumption, NoneAssumption, IntervalAssumption, TypeOK, Control, [Next]_vars
    PROVE  SavedType'
<1>1. CASE UNCHANGED <<checkpoint, prefixPt, prefixReady>>
      BY <1>1 DEF TypeOK, SavedType
<1>2. ASSUME NEW t \in Tasks, Save(t) PROVE SavedType'
      BY <1>2 DEF Save, TypeOK, ProcessType, SavedType, MaybeState, Control, Placed, Loaded,
         Points, Metered, snapshot
<1>3. ASSUME NEW t \in Tasks, WritePrefix(t) PROVE SavedType'
      BY <1>3 DEF WritePrefix, TypeOK, ProcessType, SavedType, MaybeState, Control, Placed,
         Loaded, Points, Metered, snapshot
<1>4. ASSUME NEW t \in Tasks, WriteReady(t) PROVE SavedType'
      BY <1>4 DEF WriteReady, TypeOK, ProcessType, SavedType, MaybeState, Control, Placed,
         Loaded, Points, Metered, snapshot
<1>5. [Next]_vars /\ ~UNCHANGED <<checkpoint, prefixPt, prefixReady>> =>
        \/ \E t \in Tasks : Save(t)
        \/ \E t \in Tasks : WritePrefix(t)
        \/ \E t \in Tasks : WriteReady(t)
      BY DEF vars, diskVars, costVars, Next, TaskStep, Start, Restore, Begin, Update, EndSave,
         WriteProgress, Evaluate, EndEvaluate, WriteEndpoint, Finalize, Crash, PublishReports
<1> QED
    BY <1>1, <1>2, <1>3, <1>4, <1>5

\* Types of results.
LEMMA ResultTyping ==
    ASSUME PlanAssumption, NoneAssumption, IntervalAssumption, TypeOK, Control, [Next]_vars
    PROVE  ResultType'
<1> USE DEF TypeOK, ResultType, goto, finalized
<1>1. CASE UNCHANGED <<progress, endpoint, manifest>>
      BY <1>1
<1>2. ASSUME NEW t \in Tasks, Start(t) PROVE ResultType'
      BY <1>2 DEF Start
<1>3. ASSUME NEW t \in Tasks, WriteProgress(t) PROVE ResultType'
      <2>1. t \in Arms /\ engine[t] \in States
            BY <1>3 DEF WriteProgress, Control, Placed, Loaded, Points, Metered, Tasks,
               ProcessType, MaybeState
      <2>2. engine[t].step \in Nat
            BY <2>1 DEF States
      <2> QED
          BY <1>3, <2>1, <2>2 DEF WriteProgress
<1>4. ASSUME NEW t \in Tasks, WriteEndpoint(t) PROVE ResultType'
      <2>1. t \in Arms /\ engine[t] \in States /\ prefixReady \in States
            BY <1>4 DEF WriteEndpoint, Control, Placed, Loaded, Points, Metered, Tasks,
               ProcessType,
                 SavedType, MaybeState
      <2>2. measured(t) \in BOOLEAN
            BY DEF measured, CostType
      <2>3. [state |-> engine[t], prefix |-> prefixReady, measured |-> measured(t)] \in Results
            BY <2>1, <2>2 DEF Results
      <2> QED
          BY <1>4, <2>1, <2>3 DEF WriteEndpoint
<1>5. ASSUME NEW t \in Tasks, Finalize(t) PROVE ResultType'
      BY <1>5 DEF Finalize
<1>6. CASE PublishReports
      BY <1>6 DEF PublishReports
<1>7. [Next]_vars /\ ~UNCHANGED <<progress, endpoint, manifest>> =>
        \/ \E t \in Tasks : Start(t)
        \/ \E t \in Tasks : WriteProgress(t)
        \/ \E t \in Tasks : WriteEndpoint(t)
        \/ \E t \in Tasks : Finalize(t)
        \/ PublishReports
      BY DEF vars, diskVars, costVars, Next, TaskStep, Restore, Begin, Update, Save, EndSave,
         WritePrefix, WriteReady, Evaluate, EndEvaluate, Crash
<1> QED
    BY <1>1, <1>2, <1>3, <1>4, <1>5, <1>6, <1>7

\* Types of the cost receipts.
LEMMA CostTyping ==
    ASSUME PlanAssumption, NoneAssumption, IntervalAssumption, TypeOK, Control, [Next]_vars
    PROVE  CostType'
<1> USE DEF TypeOK, CostType, goto
<1>1. CASE UNCHANGED <<begun, charged, unfinished>>
      BY <1>1
<1>2. ASSUME NEW t \in Tasks, Begin(t) PROVE CostType'
      BY <1>2 DEF Begin
<1>3. ASSUME NEW t \in Tasks, Update(t) PROVE CostType'
      <2>1. UNCHANGED charged \/ charged' = [charged EXCEPT ![t] = @ + 1]
            BY <1>3 DEF Update
      <2> QED
          BY <1>3, <2>1 DEF Update
<1>4. ASSUME NEW t \in Tasks, Crash(t) PROVE CostType'
      BY <1>4 DEF Crash
<1>5. [Next]_vars /\ ~UNCHANGED <<begun, charged, unfinished>> =>
        \/ \E t \in Tasks : Begin(t)
        \/ \E t \in Tasks : Update(t)
        \/ \E t \in Tasks : Crash(t)
      BY DEF vars, diskVars, costVars, Next, TaskStep, Start, Restore, Save, EndSave,
         WriteProgress, WritePrefix, WriteReady, Evaluate, EndEvaluate, WriteEndpoint,
         Finalize, PublishReports
<1> QED
    BY <1>1, <1>2, <1>3, <1>4, <1>5

\* All types.
LEMMA Typing ==
    ASSUME PlanAssumption, NoneAssumption, IntervalAssumption, TypeOK, Control, [Next]_vars
    PROVE  TypeOK'
BY ProcessTyping, SavedTyping, ResultTyping, CostTyping DEF TypeOK

-----------------------------------------------------------------------------
(* Control, runs and costs.                                                 *)

\* Where a process goes.
LEMMA GoesTo ==
    ASSUME TypeOK, NEW t \in Tasks, NEW p, goto(t, p)
    PROVE  pc'[t] = p /\ \A u \in Tasks \ {t} : pc'[u] = pc[u]
BY DEF TypeOK, ProcessType, goto

\* One engine is replaced.
LEMMA Loads ==
    ASSUME TypeOK, NEW t \in Tasks, NEW s, engine' = [engine EXCEPT ![t] = s]
    PROVE  engine'[t] = s /\ \A u \in Tasks \ {t} : engine'[u] = engine[u]
BY DEF TypeOK, ProcessType

\* One result is written.
LEMMA Writes ==
    ASSUME PlanAssumption, NoneAssumption, IntervalAssumption, TypeOK, Control,
           NEW t \in Tasks, WriteEndpoint(t)
    PROVE  /\ t \in Arms /\ endpoint[t] = None /\ prefixReady # None
           /\ engine[t] \in States
           /\ endpoint'[t].state = engine[t] /\ endpoint'[t].measured = measured(t)
           /\ endpoint'[t] # None
           /\ \A a \in Arms \ {t} : endpoint'[a] = endpoint[a]
<1>1. t \in Arms /\ endpoint[t] = None /\ prefixReady # None /\ engine[t] # None
      BY DEF WriteEndpoint, Control, Placed, Loaded, Points, Metered, Tasks, complete
<1>2. engine[t] \in States /\ prefixReady \in States
      BY <1>1 DEF TypeOK, ProcessType, SavedType, MaybeState
<1>3. measured(t) \in BOOLEAN
      BY DEF measured, TypeOK, CostType
<1> DEFINE r == [state |-> engine[t], prefix |-> prefixReady, measured |-> measured(t)]
<1>4. r \in Results
      BY <1>2, <1>3 DEF Results
<1>5. endpoint' = [endpoint EXCEPT ![t] = r]
      BY DEF WriteEndpoint
<1>6. r.state = engine[t] /\ r.measured = measured(t)
      OBVIOUS
<1> HIDE DEF r
<1>7. endpoint'[t] = r /\ \A a \in Arms \ {t} : endpoint'[a] = endpoint[a]
      BY <1>1, <1>5 DEF TypeOK, ResultType
<1>8. r # None
      BY <1>4 DEF NoneAssumption
<1> QED
    BY <1>1, <1>2, <1>6, <1>7, <1>8

\* What keeps the places of the other tasks.
LEMMA OtherPlaced ==
    ASSUME NEW u \in Tasks, Placed(u), pc'[u] = pc[u], engine'[u] = engine[u],
           prefixPt # None => prefixPt' # None, prefixReady # None => prefixReady' # None,
           complete(u)' = complete(u)
    PROVE  Placed(u)'
BY DEF Placed

\* A process that goes on keeps the control.
LEMMA ControlMoved ==
    ASSUME TypeOK, Control, NEW t \in Tasks, NEW p, goto(t, p),
           UNCHANGED <<prefixPt, prefixReady, endpoint>>,
           pc[t] \notin {"off", "finalize"}, p \notin {"off", "finalize"},
           engine'[t] # None, \A u \in Tasks \ {t} : engine'[u] = engine[u],
           t = "prefix" => p \notin {"progress", "evaluating", "endpoint", "ready"},
           t # "prefix" => p # "ready"
    PROVE  Control'
<1>1. pc'[t] = p /\ \A u \in Tasks \ {t} : pc'[u] = pc[u]
      BY GoesTo
<1>2. \A u \in Tasks : complete(u)' = complete(u)
      BY DEF complete
<1>3. \A u \in Tasks \ {t} : Placed(u)'
      BY <1>1, <1>2, OtherPlaced DEF Control
<1>4. Placed(t)'
      BY <1>1, <1>2 DEF Control, Placed
<1> QED
    BY <1>3, <1>4 DEF Control, Released

\* Processes stay where the published files allow.
LEMMA ControlKept ==
    ASSUME PlanAssumption, NoneAssumption, IntervalAssumption, TypeOK, Control, [Next]_vars
    PROVE  Control'
<1>1. CASE UNCHANGED <<pc, engine, prefixPt, prefixReady, endpoint>>
      BY <1>1 DEF Control, Released, Placed, complete
<1>2. ASSUME NEW t \in Tasks, Start(t) PROVE Control'
      <2>1. goto(t, "setup") /\ UNCHANGED <<engine, prefixPt, prefixReady, endpoint>>
            BY <1>2 DEF Start
      <2>2. pc'[t] = "setup" /\ \A u \in Tasks \ {t} : pc'[u] = pc[u]
            BY <2>1, GoesTo
      <2>3. \A u \in Tasks : complete(u)' = complete(u)
            BY <2>1 DEF complete
      <2>4. \A u \in Tasks \ {t} : Placed(u)'
            BY <2>1, <2>2, <2>3, OtherPlaced DEF Control
      <2>5. Placed(t)'
            BY <1>2, <2>1, <2>2, <2>3 DEF Start, Placed, Loaded
      <2> QED
          BY <2>1, <2>4, <2>5 DEF Control, Released
<1>3. ASSUME NEW t \in Tasks, Restore(t) PROVE Control'
      <2>1. PICK s \in States : engine' = [engine EXCEPT ![t] = s]
            BY <1>3, RestoreFacts
      <2>2. PICK p \in {"loop", "refused"} : goto(t, p)
            BY <1>3 DEF Restore
      <2>3. engine'[t] # None /\ \A u \in Tasks \ {t} : engine'[u] = engine[u]
            BY <2>1, Loads DEF NoneAssumption
      <2>4. pc[t] = "setup" /\ UNCHANGED <<prefixPt, prefixReady, endpoint>>
            BY <1>3 DEF Restore, diskVars
      <2> QED
          BY <2>2, <2>3, <2>4, ControlMoved
<1>4. ASSUME NEW t \in Tasks, Begin(t) PROVE Control'
      <2>1. goto(t, "updating") /\ UNCHANGED <<engine, prefixPt, prefixReady, endpoint>>
            BY <1>4 DEF Begin, diskVars
      <2>2. engine'[t] # None
            BY <1>4, <2>1 DEF Begin, Control, Placed, Loaded, Points, Metered
      <2> QED
          BY <1>4, <2>1, <2>2, ControlMoved DEF Begin, Control, Placed, Tasks
<1>5. ASSUME NEW t \in Tasks, Update(t) PROVE Control'
      <2>1. PICK p \in {"refused", "saving", "loop"} : goto(t, p)
            BY <1>5 DEF Update, goto
      <2>2. engine[t] # None
            BY <1>5, UpdateFacts DEF NoneAssumption
      <2>3. engine'[t] # None /\ \A u \in Tasks \ {t} : engine'[u] = engine[u]
            <3>1. UNCHANGED engine \/ \E u \in States : engine' = [engine EXCEPT ![t] = u]
                  BY <1>5, UpdateFacts
            <3>2. CASE UNCHANGED engine
                  BY <2>2, <3>2
            <3>3. ASSUME NEW u \in States, engine' = [engine EXCEPT ![t] = u]
                  PROVE  engine'[t] # None /\ \A v \in Tasks \ {t} : engine'[v] = engine[v]
                  BY <3>3, Loads DEF NoneAssumption
            <3> QED
                BY <3>1, <3>2, <3>3
      <2>4. pc[t] = "updating" /\ UNCHANGED <<prefixPt, prefixReady, endpoint>>
            BY <1>5 DEF Update, diskVars
      <2> QED
          BY <2>1, <2>3, <2>4, ControlMoved
<1>6. ASSUME NEW t \in Tasks, Save(t) PROVE Control'
      <2>1. goto(t, "saved") /\ UNCHANGED <<engine, prefixPt, prefixReady, endpoint>>
            BY <1>6 DEF Save, diskVars
      <2>2. engine'[t] # None
            BY <1>6, <2>1 DEF Save, Control, Placed, Loaded, Points, Metered
      <2> QED
          BY <1>6, <2>1, <2>2, ControlMoved DEF Save, Control, Placed, Tasks
<1>7. ASSUME NEW t \in Tasks, EndSave(t) PROVE Control'
      <2>1. PICK p \in {"progress", "loop"} : goto(t, p)
            BY <1>7 DEF EndSave
      <2>2. UNCHANGED <<engine, prefixPt, prefixReady, endpoint>>
            BY <1>7 DEF EndSave, diskVars
      <2>3. engine'[t] # None
            BY <1>7, <2>2 DEF EndSave, Control, Placed, Loaded, Points, Metered
      <2>4. t = "prefix" => p # "progress"
            BY <1>7, <2>1, GoesTo DEF EndSave
      <2> QED
          BY <1>7, <2>1, <2>2, <2>3, <2>4, ControlMoved DEF EndSave, Control, Placed, Tasks
<1>8. ASSUME NEW t \in Tasks, WriteProgress(t) PROVE Control'
      <2>1. goto(t, "loop") /\ UNCHANGED <<engine, prefixPt, prefixReady, endpoint>>
            BY <1>8 DEF WriteProgress, diskVars
      <2>2. engine'[t] # None
            BY <1>8, <2>1 DEF WriteProgress, Control, Placed, Loaded, Points, Metered
      <2> QED
          BY <1>8, <2>1, <2>2, ControlMoved DEF WriteProgress, Control, Placed, Tasks
<1>9. ASSUME NEW t \in Tasks, WritePrefix(t) PROVE Control'
      <2>1. /\ t = "prefix" /\ pc[t] = "loop" /\ goto(t, "ready") /\ prefixPt' = engine[t]
            /\ UNCHANGED <<engine, prefixReady, endpoint>>
            BY <1>9 DEF WritePrefix, snapshot
      <2>2. engine[t] # None /\ prefixReady = None
            BY <2>1 DEF Control, Placed, Loaded, Points, Metered, complete
      <2>3. pc'[t] = "ready" /\ \A u \in Tasks \ {t} : pc'[u] = pc[u]
            BY <2>1, GoesTo
      <2>4. \A u \in Tasks : complete(u)' = complete(u)
            BY <2>1 DEF complete
      <2>5. \A u \in Tasks \ {t} : Placed(u)'
            BY <2>1, <2>2, <2>3, <2>4, OtherPlaced DEF Control
      <2>6. Placed(t)'
            BY <2>1, <2>2, <2>3, <2>4 DEF Control, Placed
      <2> QED
          BY <2>1, <2>2, <2>5, <2>6 DEF Control, Released
<1>10. ASSUME NEW t \in Tasks, WriteReady(t) PROVE Control'
      <2>1. /\ pc[t] = "ready" /\ goto(t, "off") /\ prefixReady' = prefixPt
            /\ engine' = [engine EXCEPT ![t] = None]
            /\ UNCHANGED <<prefixPt, endpoint>>
            BY <1>10 DEF WriteReady
      <2>2. t = "prefix" /\ prefixPt # None /\ prefixReady = None
            BY <2>1 DEF Control, Placed, complete
      <2>3. pc'[t] = "off" /\ \A u \in Tasks \ {t} : pc'[u] = pc[u]
            BY <2>1, GoesTo
      <2>4. engine'[t] = None /\ \A u \in Tasks \ {t} : engine'[u] = engine[u]
            BY <2>1, Loads
      <2>5. \A u \in Tasks \ {t} : complete(u)' = complete(u)
            BY <2>1, <2>2 DEF complete
      <2>6. \A u \in Tasks \ {t} : Placed(u)'
            BY <2>1, <2>2, <2>3, <2>4, <2>5, OtherPlaced DEF Control
      <2>7. Placed(t)'
            BY <2>2, <2>3, <2>4 DEF Placed, Loaded
      <2> QED
          BY <2>1, <2>2, <2>6, <2>7 DEF Control, Released
<1>11. ASSUME NEW t \in Tasks, Evaluate(t) PROVE Control'
      <2>1. goto(t, "evaluating") /\ UNCHANGED <<engine, prefixPt, prefixReady, endpoint>>
            BY <1>11 DEF Evaluate, diskVars
      <2>2. engine'[t] # None
            BY <1>11, <2>1 DEF Evaluate, Control, Placed, Loaded, Points, Metered
      <2> QED
          BY <1>11, <2>1, <2>2, ControlMoved DEF Evaluate, Control, Placed, Tasks
<1>12. ASSUME NEW t \in Tasks, EndEvaluate(t) PROVE Control'
      <2>1. goto(t, "endpoint") /\ UNCHANGED <<engine, prefixPt, prefixReady, endpoint>>
            BY <1>12 DEF EndEvaluate, diskVars
      <2>2. engine'[t] # None
            BY <1>12, <2>1 DEF EndEvaluate, Control, Placed, Loaded, Points, Metered
      <2> QED
          BY <1>12, <2>1, <2>2, ControlMoved DEF EndEvaluate, Control, Placed, Tasks
<1>13. ASSUME NEW t \in Tasks, WriteEndpoint(t) PROVE Control'
      <2>1. /\ pc[t] = "endpoint" /\ goto(t, "finalize")
            /\ UNCHANGED <<engine, prefixPt, prefixReady>>
            BY <1>13 DEF WriteEndpoint
      <2>2. /\ t \in Arms /\ t # "prefix" /\ prefixReady # None
            /\ engine[t] # None /\ endpoint'[t] # None
            /\ \A a \in Arms \ {t} : endpoint'[a] = endpoint[a]
            BY <1>13, Writes DEF PlanAssumption, NoneAssumption
      <2>3. pc'[t] = "finalize" /\ \A u \in Tasks \ {t} : pc'[u] = pc[u]
            BY <2>1, GoesTo
      <2>4. complete(t)' /\ \A u \in Tasks \ {t} : complete(u)' = complete(u)
            BY <2>1, <2>2 DEF complete, Tasks
      <2>5. \A u \in Tasks \ {t} : Placed(u)'
            BY <2>1, <2>3, <2>4, OtherPlaced DEF Control
      <2>6. Placed(t)'
            BY <2>1, <2>2, <2>3, <2>4 DEF Placed
      <2> QED
          BY <2>1, <2>5, <2>6 DEF Control, Released
<1>14. ASSUME NEW t \in Tasks, Finalize(t) PROVE Control'
      <2>1. /\ goto(t, "off") /\ engine' = [engine EXCEPT ![t] = None]
            /\ UNCHANGED <<prefixPt, prefixReady, endpoint>>
            BY <1>14 DEF Finalize, diskVars
      <2>2. pc'[t] = "off" /\ \A u \in Tasks \ {t} : pc'[u] = pc[u]
            BY <2>1, GoesTo
      <2>3. engine'[t] = None /\ \A u \in Tasks \ {t} : engine'[u] = engine[u]
            BY <2>1, Loads
      <2>4. \A u \in Tasks : complete(u)' = complete(u)
            BY <2>1 DEF complete
      <2>5. \A u \in Tasks \ {t} : Placed(u)'
            BY <2>1, <2>2, <2>3, <2>4, OtherPlaced DEF Control
      <2>6. Placed(t)'
            BY <2>1, <2>2, <2>3, <2>4 DEF Placed, Loaded
      <2> QED
          BY <2>1, <2>5, <2>6 DEF Control, Released
<1>15. ASSUME NEW t \in Tasks, Crash(t) PROVE Control'
      <2>1. /\ goto(t, "off") /\ engine' = [engine EXCEPT ![t] = None]
            /\ UNCHANGED <<prefixPt, prefixReady, endpoint>>
            BY <1>15 DEF Crash, diskVars
      <2>2. pc'[t] = "off" /\ \A u \in Tasks \ {t} : pc'[u] = pc[u]
            BY <2>1, GoesTo
      <2>3. engine'[t] = None /\ \A u \in Tasks \ {t} : engine'[u] = engine[u]
            BY <2>1, Loads
      <2>4. \A u \in Tasks : complete(u)' = complete(u)
            BY <2>1 DEF complete
      <2>5. \A u \in Tasks \ {t} : Placed(u)'
            BY <2>1, <2>2, <2>3, <2>4, OtherPlaced DEF Control
      <2>6. Placed(t)'
            BY <2>1, <2>2, <2>3, <2>4 DEF Placed, Loaded
      <2> QED
          BY <2>1, <2>5, <2>6 DEF Control, Released
<1>16. [Next]_vars /\ ~UNCHANGED <<pc, engine, prefixPt, prefixReady, endpoint>> =>
        \/ \E t \in Tasks : Start(t)
        \/ \E t \in Tasks : Restore(t)
        \/ \E t \in Tasks : Begin(t)
        \/ \E t \in Tasks : Update(t)
        \/ \E t \in Tasks : Save(t)
        \/ \E t \in Tasks : EndSave(t)
        \/ \E t \in Tasks : WriteProgress(t)
        \/ \E t \in Tasks : WritePrefix(t)
        \/ \E t \in Tasks : WriteReady(t)
        \/ \E t \in Tasks : Evaluate(t)
        \/ \E t \in Tasks : EndEvaluate(t)
        \/ \E t \in Tasks : WriteEndpoint(t)
        \/ \E t \in Tasks : Finalize(t)
        \/ \E t \in Tasks : Crash(t)
      BY DEF vars, diskVars, costVars, Next, TaskStep, PublishReports
<1> QED
    BY <1>1, <1>2, <1>3, <1>4, <1>5, <1>6, <1>7, <1>8, <1>9, <1>10, <1>11, <1>12, <1>13,
       <1>14, <1>15, <1>16

\* What keeps the count of the runs of the other tasks.
LEMMA OtherCounted ==
    ASSUME TypeOK, NEW u \in Tasks, Counted(u), pc'[u] = pc[u], run'[u] = run[u],
           crashes' \in {crashes, crashes + 1}, complete(u)' = complete(u)
    PROVE  Counted(u)'
<1>1. crashes \in Nat /\ run[u] \in Nat
      BY DEF TypeOK, ProcessType
<1> QED
    BY <1>1 DEF Counted

\* A process that goes on or ends keeps the count of its runs.
LEMMA CountsMoved ==
    ASSUME TypeOK, Counts, NEW t \in Tasks, NEW p, goto(t, p), pc[t] # "off",
           UNCHANGED run, crashes' \in {crashes, crashes + 1},
           p = "off" => crashes' = crashes + 1 \/ complete(t)',
           \A u \in Tasks \ {t} : complete(u)' = complete(u)
    PROVE  Counts'
<1>1. pc'[t] = p /\ \A u \in Tasks \ {t} : pc'[u] = pc[u]
      BY GoesTo
<1>2. \A u \in Tasks \ {t} : Counted(u)'
      BY <1>1, OtherCounted DEF Counts
<1>3. run[t] > 0 /\ run[t] <= crashes + 1
      <2>1. crashes \in Nat /\ run[t] \in Nat
            BY DEF TypeOK, ProcessType
      <2> QED
          BY <2>1 DEF Counts, Counted
<1>4. Counted(t)'
      <2>1. crashes \in Nat /\ run[t] \in Nat
            BY DEF TypeOK, ProcessType
      <2> QED
          BY <1>1, <1>3, <2>1 DEF Counted
<1> QED
    BY <1>2, <1>4 DEF Counts

\* Every run but the first of a task follows a kill.
LEMMA CountsKept ==
    ASSUME PlanAssumption, NoneAssumption, IntervalAssumption, TypeOK, Control, Counts, [Next]_vars
    PROVE  Counts'
<1>1. CASE UNCHANGED <<pc, run, crashes, prefixReady, endpoint>>
      BY <1>1 DEF Counts, Counted, complete
<1>2. ASSUME NEW t \in Tasks, Start(t) PROVE Counts'
      <2>1. /\ pc[t] = "off" /\ ~complete(t) /\ goto(t, "setup")
            /\ run' = [run EXCEPT ![t] = @ + 1]
            /\ UNCHANGED <<crashes, prefixReady, endpoint>>
            BY <1>2 DEF Start
      <2>2. pc'[t] = "setup" /\ \A u \in Tasks \ {t} : pc'[u] = pc[u]
            BY <2>1, GoesTo
      <2>3. /\ run'[t] = run[t] + 1 /\ run[t] \in Nat /\ crashes \in Nat
            /\ \A u \in Tasks \ {t} : run'[u] = run[u]
            BY <2>1 DEF TypeOK, ProcessType
      <2>4. \A u \in Tasks : complete(u)' = complete(u)
            BY <2>1 DEF complete
      <2>5. \A u \in Tasks \ {t} : Counted(u)'
            BY <2>1, <2>2, <2>3, <2>4, OtherCounted DEF Counts
      <2>6. Counted(t)'
            BY <2>1, <2>2, <2>3 DEF Counts, Counted
      <2> QED
          BY <2>5, <2>6 DEF Counts
<1>3. ASSUME NEW t \in Tasks, Restore(t) PROVE Counts'
      <2>1. PICK p \in {"loop", "refused"} : goto(t, p)
            BY <1>3 DEF Restore, goto
      <2>2. pc[t] # "off" /\ UNCHANGED <<run, crashes, prefixReady, endpoint>>
            BY <1>3 DEF Restore, diskVars
      <2>3. \A u \in Tasks : complete(u)' = complete(u)
            BY <2>2 DEF complete
      <2> QED
          BY <2>1, <2>2, <2>3, CountsMoved
<1>4. ASSUME NEW t \in Tasks, Begin(t) PROVE Counts'
      <2>1. PICK p \in {"updating"} : goto(t, p)
            BY <1>4 DEF Begin, goto
      <2>2. pc[t] # "off" /\ UNCHANGED <<run, crashes, prefixReady, endpoint>>
            BY <1>4 DEF Begin, diskVars
      <2>3. \A u \in Tasks : complete(u)' = complete(u)
            BY <2>2 DEF complete
      <2> QED
          BY <2>1, <2>2, <2>3, CountsMoved
<1>5. ASSUME NEW t \in Tasks, Update(t) PROVE Counts'
      <2>1. PICK p \in {"refused", "saving", "loop"} : goto(t, p)
            BY <1>5 DEF Update, goto
      <2>2. pc[t] # "off" /\ UNCHANGED <<run, crashes, prefixReady, endpoint>>
            BY <1>5 DEF Update, diskVars
      <2>3. \A u \in Tasks : complete(u)' = complete(u)
            BY <2>2 DEF complete
      <2> QED
          BY <2>1, <2>2, <2>3, CountsMoved
<1>6. ASSUME NEW t \in Tasks, Save(t) PROVE Counts'
      <2>1. PICK p \in {"saved"} : goto(t, p)
            BY <1>6 DEF Save, goto
      <2>2. pc[t] # "off" /\ UNCHANGED <<run, crashes, prefixReady, endpoint>>
            BY <1>6 DEF Save, diskVars
      <2>3. \A u \in Tasks : complete(u)' = complete(u)
            BY <2>2 DEF complete
      <2> QED
          BY <2>1, <2>2, <2>3, CountsMoved
<1>7. ASSUME NEW t \in Tasks, EndSave(t) PROVE Counts'
      <2>1. PICK p \in {"progress", "loop"} : goto(t, p)
            BY <1>7 DEF EndSave, goto
      <2>2. pc[t] # "off" /\ UNCHANGED <<run, crashes, prefixReady, endpoint>>
            BY <1>7 DEF EndSave, diskVars
      <2>3. \A u \in Tasks : complete(u)' = complete(u)
            BY <2>2 DEF complete
      <2> QED
          BY <2>1, <2>2, <2>3, CountsMoved
<1>8. ASSUME NEW t \in Tasks, WriteProgress(t) PROVE Counts'
      <2>1. PICK p \in {"loop"} : goto(t, p)
            BY <1>8 DEF WriteProgress, goto
      <2>2. pc[t] # "off" /\ UNCHANGED <<run, crashes, prefixReady, endpoint>>
            BY <1>8 DEF WriteProgress, diskVars
      <2>3. \A u \in Tasks : complete(u)' = complete(u)
            BY <2>2 DEF complete
      <2> QED
          BY <2>1, <2>2, <2>3, CountsMoved
<1>9. ASSUME NEW t \in Tasks, WritePrefix(t) PROVE Counts'
      <2>1. PICK p \in {"ready"} : goto(t, p)
            BY <1>9 DEF WritePrefix, goto
      <2>2. pc[t] # "off" /\ UNCHANGED <<run, crashes, prefixReady, endpoint>>
            BY <1>9 DEF WritePrefix, diskVars
      <2>3. \A u \in Tasks : complete(u)' = complete(u)
            BY <2>2 DEF complete
      <2> QED
          BY <2>1, <2>2, <2>3, CountsMoved
<1>10. ASSUME NEW t \in Tasks, WriteReady(t) PROVE Counts'
      <2>1. /\ pc[t] = "ready" /\ goto(t, "off") /\ prefixReady' = prefixPt
            /\ UNCHANGED <<run, crashes, endpoint>>
            BY <1>10 DEF WriteReady
      <2>2. t = "prefix" /\ prefixPt # None
            BY <2>1 DEF Control, Placed
      <2>3. complete(t)' /\ \A u \in Tasks \ {t} : complete(u)' = complete(u)
            BY <2>1, <2>2 DEF complete
      <2> QED
          BY <2>1, <2>3, CountsMoved
<1>11. ASSUME NEW t \in Tasks, Evaluate(t) PROVE Counts'
      <2>1. PICK p \in {"evaluating"} : goto(t, p)
            BY <1>11 DEF Evaluate, goto
      <2>2. pc[t] # "off" /\ UNCHANGED <<run, crashes, prefixReady, endpoint>>
            BY <1>11 DEF Evaluate, diskVars
      <2>3. \A u \in Tasks : complete(u)' = complete(u)
            BY <2>2 DEF complete
      <2> QED
          BY <2>1, <2>2, <2>3, CountsMoved
<1>12. ASSUME NEW t \in Tasks, EndEvaluate(t) PROVE Counts'
      <2>1. PICK p \in {"endpoint"} : goto(t, p)
            BY <1>12 DEF EndEvaluate, goto
      <2>2. pc[t] # "off" /\ UNCHANGED <<run, crashes, prefixReady, endpoint>>
            BY <1>12 DEF EndEvaluate, diskVars
      <2>3. \A u \in Tasks : complete(u)' = complete(u)
            BY <2>2 DEF complete
      <2> QED
          BY <2>1, <2>2, <2>3, CountsMoved
<1>13. ASSUME NEW t \in Tasks, WriteEndpoint(t) PROVE Counts'
      <2>1. /\ pc[t] = "endpoint" /\ goto(t, "finalize")
            /\ UNCHANGED <<run, crashes, prefixReady>>
            BY <1>13 DEF WriteEndpoint
      <2>2. \A u \in Tasks \ {t} : complete(u)' = complete(u)
            BY <1>13, <2>1, Writes DEF complete, Tasks
      <2> QED
          BY <2>1, <2>2, CountsMoved
<1>14. ASSUME NEW t \in Tasks, Finalize(t) PROVE Counts'
      <2>1. /\ pc[t] = "finalize" /\ goto(t, "off")
            /\ UNCHANGED <<run, crashes, prefixReady, endpoint>>
            BY <1>14 DEF Finalize
      <2>2. complete(t)
            BY <2>1 DEF Control, Placed
      <2>3. \A u \in Tasks : complete(u)' = complete(u)
            BY <2>1 DEF complete
      <2> QED
          BY <2>1, <2>2, <2>3, CountsMoved
<1>15. ASSUME NEW t \in Tasks, Crash(t) PROVE Counts'
      <2>1. /\ pc[t] # "off" /\ goto(t, "off") /\ crashes' = crashes + 1
            /\ UNCHANGED <<run, prefixReady, endpoint>>
            BY <1>15 DEF Crash, diskVars
      <2>2. \A u \in Tasks : complete(u)' = complete(u)
            BY <2>1 DEF complete
      <2> QED
          BY <2>1, <2>2, CountsMoved
<1>16. [Next]_vars /\ ~UNCHANGED <<pc, run, crashes, prefixReady, endpoint>> =>
        \/ \E t \in Tasks : Start(t)
        \/ \E t \in Tasks : Restore(t)
        \/ \E t \in Tasks : Begin(t)
        \/ \E t \in Tasks : Update(t)
        \/ \E t \in Tasks : Save(t)
        \/ \E t \in Tasks : EndSave(t)
        \/ \E t \in Tasks : WriteProgress(t)
        \/ \E t \in Tasks : WritePrefix(t)
        \/ \E t \in Tasks : WriteReady(t)
        \/ \E t \in Tasks : Evaluate(t)
        \/ \E t \in Tasks : EndEvaluate(t)
        \/ \E t \in Tasks : WriteEndpoint(t)
        \/ \E t \in Tasks : Finalize(t)
        \/ \E t \in Tasks : Crash(t)
      BY DEF vars, diskVars, costVars, Next, TaskStep, PublishReports
<1> QED
    BY <1>1, <1>2, <1>3, <1>4, <1>5, <1>6, <1>7, <1>8, <1>9, <1>10, <1>11, <1>12, <1>13,
       <1>14, <1>15, <1>16

\* A step outside an update keeps the charges.
LEMMA ChargesMoved ==
    ASSUME TypeOK, Charges, NEW t \in Tasks, NEW p, goto(t, p),
           pc[t] \notin {"updating", "refused"}, p # "updating", UNCHANGED <<costVars, endpoint>>
    PROVE  Charges'
<1>1. pc'[t] = p /\ \A u \in Tasks \ {t} : pc'[u] = pc[u]
      BY GoesTo
<1>2. ASSUME NEW u \in Tasks PROVE Charged(u)'
      BY <1>1 DEF Charges, Charged, costVars
<1>3. ASSUME NEW a \in Arms PROVE Measured(a)'
      BY DEF Charges, Measured, costVars
<1> QED
    BY <1>2, <1>3 DEF Charges

\* A phase that ended is charged, or its receipt is unfinished.
LEMMA ChargesKept ==
    ASSUME PlanAssumption, NoneAssumption, IntervalAssumption, TypeOK, Control, Charges, [Next]_vars
    PROVE  Charges'
<1>1. CASE UNCHANGED <<pc, begun, charged, unfinished, endpoint>>
      BY <1>1 DEF Charges, Charged, Measured
<1>2. ASSUME NEW t \in Tasks, Start(t) PROVE Charges'
      <2>1. \E p \in {"setup"} : goto(t, p)
            BY <1>2 DEF Start
      <2>2. pc[t] \notin {"updating", "refused"} /\ UNCHANGED <<costVars, endpoint>>
            BY <1>2 DEF Start, diskVars
      <2> QED
          BY <2>1, <2>2, ChargesMoved
<1>3. ASSUME NEW t \in Tasks, Restore(t) PROVE Charges'
      <2>1. \E p \in {"loop", "refused"} : goto(t, p)
            BY <1>3 DEF Restore
      <2>2. pc[t] \notin {"updating", "refused"} /\ UNCHANGED <<costVars, endpoint>>
            BY <1>3 DEF Restore, diskVars
      <2> QED
          BY <2>1, <2>2, ChargesMoved
<1>4. ASSUME NEW t \in Tasks, Begin(t) PROVE Charges'
      <2>1. pc[t] = "loop" /\ pc'[t] = "updating" /\ \A u \in Tasks \ {t} : pc'[u] = pc[u]
            BY <1>4, GoesTo DEF Begin
      <2>2. begun'[t] = begun[t] + 1 /\ \A u \in Tasks \ {t} : begun'[u] = begun[u]
            BY <1>4 DEF Begin, TypeOK, CostType
      <2>3. UNCHANGED <<charged, unfinished, endpoint>>
            BY <1>4 DEF Begin, diskVars
      <2>4. charged[t] \in Nat /\ begun[t] \in Nat
            BY DEF TypeOK, CostType
      <2>5. \A u \in Tasks \ {t} : Charged(u)'
            BY <2>1, <2>2, <2>3 DEF Charges, Charged
      <2>6. ~unfinished[t] => begun[t] = charged[t]
            BY <2>1, <2>4 DEF Charges, Charged
      <2>7. Charged(t)'
            BY <2>1, <2>2, <2>3, <2>4, <2>6 DEF Charged
      <2> QED
          BY <2>3, <2>5, <2>7 DEF Charges, Measured
<1>5. ASSUME NEW t \in Tasks, Update(t) PROVE Charges'
      <2>1. pc[t] = "updating" /\ UNCHANGED <<begun, unfinished, endpoint>>
            BY <1>5 DEF Update, diskVars
      <2>2. CASE goto(t, "refused") /\ UNCHANGED charged
            <3>1. pc'[t] = "refused" /\ \A u \in Tasks \ {t} : pc'[u] = pc[u]
                  BY <2>2, GoesTo
            <3> QED
                BY <2>1, <2>2, <3>1 DEF Charges, Charged, Measured
      <2>3. CASE charged' = [charged EXCEPT ![t] = @ + 1] /\ \E p \in {"saving", "loop"} : goto(t, p)
            <3>1. pc'[t] \in {"saving", "loop"} /\ \A u \in Tasks \ {t} : pc'[u] = pc[u]
                  BY <2>3, GoesTo
            <3>2. /\ charged'[t] = charged[t] + 1 /\ charged[t] \in Nat /\ begun[t] \in Nat
                  /\ \A u \in Tasks \ {t} : charged'[u] = charged[u]
                  BY <2>3 DEF TypeOK, CostType
            <3>3. \A u \in Tasks \ {t} : Charged(u)'
                  BY <2>1, <3>1, <3>2 DEF Charges, Charged
            <3>4. Charged(t)'
                  BY <2>1, <3>1, <3>2 DEF Charges, Charged
            <3> QED
                BY <2>1, <3>3, <3>4 DEF Charges, Measured
      <2> QED
          BY <1>5, <2>2, <2>3 DEF Update
<1>6. ASSUME NEW t \in Tasks, Save(t) PROVE Charges'
      <2>1. \E p \in {"saved"} : goto(t, p)
            BY <1>6 DEF Save
      <2>2. pc[t] \notin {"updating", "refused"} /\ UNCHANGED <<costVars, endpoint>>
            BY <1>6 DEF Save, diskVars
      <2> QED
          BY <2>1, <2>2, ChargesMoved
<1>7. ASSUME NEW t \in Tasks, EndSave(t) PROVE Charges'
      <2>1. \E p \in {"progress", "loop"} : goto(t, p)
            BY <1>7 DEF EndSave
      <2>2. pc[t] \notin {"updating", "refused"} /\ UNCHANGED <<costVars, endpoint>>
            BY <1>7 DEF EndSave, diskVars
      <2> QED
          BY <2>1, <2>2, ChargesMoved
<1>8. ASSUME NEW t \in Tasks, WriteProgress(t) PROVE Charges'
      <2>1. \E p \in {"loop"} : goto(t, p)
            BY <1>8 DEF WriteProgress
      <2>2. pc[t] \notin {"updating", "refused"} /\ UNCHANGED <<costVars, endpoint>>
            BY <1>8 DEF WriteProgress, diskVars
      <2> QED
          BY <2>1, <2>2, ChargesMoved
<1>9. ASSUME NEW t \in Tasks, WritePrefix(t) PROVE Charges'
      <2>1. \E p \in {"ready"} : goto(t, p)
            BY <1>9 DEF WritePrefix
      <2>2. pc[t] \notin {"updating", "refused"} /\ UNCHANGED <<costVars, endpoint>>
            BY <1>9 DEF WritePrefix, diskVars
      <2> QED
          BY <2>1, <2>2, ChargesMoved
<1>10. ASSUME NEW t \in Tasks, WriteReady(t) PROVE Charges'
      <2>1. \E p \in {"off"} : goto(t, p)
            BY <1>10 DEF WriteReady
      <2>2. pc[t] \notin {"updating", "refused"} /\ UNCHANGED <<costVars, endpoint>>
            BY <1>10 DEF WriteReady, diskVars
      <2> QED
          BY <2>1, <2>2, ChargesMoved
<1>11. ASSUME NEW t \in Tasks, Evaluate(t) PROVE Charges'
      <2>1. \E p \in {"evaluating"} : goto(t, p)
            BY <1>11 DEF Evaluate
      <2>2. pc[t] \notin {"updating", "refused"} /\ UNCHANGED <<costVars, endpoint>>
            BY <1>11 DEF Evaluate, diskVars
      <2> QED
          BY <2>1, <2>2, ChargesMoved
<1>12. ASSUME NEW t \in Tasks, EndEvaluate(t) PROVE Charges'
      <2>1. \E p \in {"endpoint"} : goto(t, p)
            BY <1>12 DEF EndEvaluate
      <2>2. pc[t] \notin {"updating", "refused"} /\ UNCHANGED <<costVars, endpoint>>
            BY <1>12 DEF EndEvaluate, diskVars
      <2> QED
          BY <2>1, <2>2, ChargesMoved
<1>13. ASSUME NEW t \in Tasks, WriteEndpoint(t) PROVE Charges'
      <2>1. pc[t] = "endpoint" /\ goto(t, "finalize") /\ UNCHANGED costVars
            BY <1>13 DEF WriteEndpoint
      <2>2. pc'[t] = "finalize" /\ \A u \in Tasks \ {t} : pc'[u] = pc[u]
            BY <2>1, GoesTo
      <2>3. \A u \in Tasks : Charged(u)'
            BY <2>1, <2>2 DEF Charges, Charged, costVars
      <2>4. endpoint'[t].measured => ~unfinished[t]
            BY <1>13, Writes DEF measured
      <2>5. \A a \in Arms : Measured(a)'
            BY <1>13, <2>1, <2>4, Writes DEF Charges, Measured, costVars
      <2> QED
          BY <2>3, <2>5 DEF Charges
<1>14. ASSUME NEW t \in Tasks, Finalize(t) PROVE Charges'
      <2>1. \E p \in {"off"} : goto(t, p)
            BY <1>14 DEF Finalize
      <2>2. pc[t] \notin {"updating", "refused"} /\ UNCHANGED <<costVars, endpoint>>
            BY <1>14 DEF Finalize, diskVars
      <2> QED
          BY <2>1, <2>2, ChargesMoved
<1>15. ASSUME NEW t \in Tasks, Crash(t) PROVE Charges'
      <2>1. /\ goto(t, "off") /\ pc[t] # "refused"
            /\ unfinished' = [unfinished EXCEPT ![t] = @ \/ pc[t] \in Metered]
            /\ UNCHANGED <<begun, charged, endpoint>>
            BY <1>15 DEF Crash, diskVars
      <2>2. pc'[t] = "off" /\ \A u \in Tasks \ {t} : pc'[u] = pc[u]
            BY <2>1, GoesTo
      <2>3. /\ unfinished'[t] <=> (unfinished[t] \/ pc[t] \in Metered)
            /\ \A u \in Tasks \ {t} : unfinished'[u] = unfinished[u]
            BY <2>1 DEF TypeOK, CostType
      <2>4. \A u \in Tasks \ {t} : Charged(u)'
            BY <2>1, <2>2, <2>3 DEF Charges, Charged
      <2>5. Charged(t)'
            BY <2>1, <2>2, <2>3 DEF Charges, Charged, Metered
      <2>6. ASSUME NEW a \in Arms PROVE Measured(a)'
            <3>1. CASE a = t /\ endpoint[a] # None
                  <4>1. pc[t] = "finalize"
                        BY <1>15, <3>1 DEF Crash, Control, Placed, complete, PlanAssumption
                  <4> QED
                      BY <2>1, <2>3, <3>1, <4>1 DEF Charges, Measured, Metered
            <3>2. CASE a # t
                  BY <2>1, <2>3, <3>2 DEF Charges, Measured, Tasks
            <3>3. CASE endpoint[a] = None
                  BY <2>1, <3>3 DEF Measured
            <3> QED
                BY <3>1, <3>2, <3>3
      <2> QED
          BY <2>4, <2>5, <2>6 DEF Charges
<1>16. [Next]_vars /\ ~UNCHANGED <<pc, begun, charged, unfinished, endpoint>> =>
        \/ \E t \in Tasks : Start(t)
        \/ \E t \in Tasks : Restore(t)
        \/ \E t \in Tasks : Begin(t)
        \/ \E t \in Tasks : Update(t)
        \/ \E t \in Tasks : Save(t)
        \/ \E t \in Tasks : EndSave(t)
        \/ \E t \in Tasks : WriteProgress(t)
        \/ \E t \in Tasks : WritePrefix(t)
        \/ \E t \in Tasks : WriteReady(t)
        \/ \E t \in Tasks : Evaluate(t)
        \/ \E t \in Tasks : EndEvaluate(t)
        \/ \E t \in Tasks : WriteEndpoint(t)
        \/ \E t \in Tasks : Finalize(t)
        \/ \E t \in Tasks : Crash(t)
      BY DEF vars, diskVars, costVars, Next, TaskStep, PublishReports
<1> QED
    BY <1>1, <1>2, <1>3, <1>4, <1>5, <1>6, <1>7, <1>8, <1>9, <1>10, <1>11, <1>12, <1>13,
       <1>14, <1>15, <1>16

\* run.json stays honest.
LEMMA ManifestKept ==
    ASSUME PlanAssumption, NoneAssumption, IntervalAssumption, TypeOK, Control, ManifestHonest, [Next]_vars
    PROVE  ManifestHonest'
<1> USE DEF ManifestHonest, allArms, finalized
<1>1. CASE UNCHANGED <<manifest, endpoint>>
      BY <1>1
<1>2. ASSUME NEW t \in Tasks, Start(t) PROVE ManifestHonest'
      BY <1>2 DEF Start
<1>3. ASSUME NEW t \in Tasks, WriteEndpoint(t) PROVE ManifestHonest'
      <2>1. \A a \in Arms : endpoint[a] # None => endpoint'[a] # None
            BY <1>3, Writes
      <2>2. UNCHANGED manifest
            BY <1>3 DEF WriteEndpoint
      <2> QED
          BY <2>1, <2>2
<1>4. ASSUME NEW t \in Tasks, Finalize(t) PROVE ManifestHonest'
      BY <1>4 DEF Finalize
<1>5. CASE PublishReports
      BY <1>5 DEF PublishReports
<1>6. [Next]_vars /\ ~UNCHANGED <<manifest, endpoint>> =>
        \/ \E t \in Tasks : Start(t)
        \/ \E t \in Tasks : WriteEndpoint(t)
        \/ \E t \in Tasks : Finalize(t)
        \/ PublishReports
      BY DEF vars, diskVars, costVars, Next, TaskStep, Restore, Begin, Update, Save, EndSave,
         WriteProgress, WritePrefix, WriteReady, Evaluate, EndEvaluate, Crash
<1> QED
    BY <1>1, <1>2, <1>3, <1>4, <1>5, <1>6

-----------------------------------------------------------------------------
(* The blocks of On-policy updates.                                         *)

\* An update of a sound state makes a sound one.
LEMMA UpdateSound ==
    ASSUME PlanAssumption, NoneAssumption, NEW t \in Tasks, NEW s \in States, NEW u \in States,
           Sound(t, s), NextOf(t, s, u)
    PROVE  Sound(t, u)
<1>1. PICK r \in Records : /\ u.history = Append(s.history, r)
                           /\ r.step = s.step
                           /\ r.on => uses_on(t, s) /\ r.block = u.active
      BY DEF NextOf
<1>2. s.step \in Nat /\ s.history \in Seq(Records) /\ SelectionInterval \in Nat \ {0}
      BY DEF States, PlanAssumption
<1>3. uses_on(t, s) => u.active = BlockOf(s.step)
      BY <1>2 DEF NextOf, Sound, Current, refreshes, BlockOf
<1>4. /\ Len(u.history) = Len(s.history) + 1 /\ Len(s.history) \in Nat
      /\ \A i \in 1..Len(s.history) : u.history[i] = s.history[i]
      /\ u.history[Len(s.history) + 1] = r
      BY <1>1, <1>2
<1>5. Blocks(u)
      <2>1. ASSUME NEW i \in 1..Len(u.history), u.history[i].on
            PROVE  u.history[i].block = BlockOf(u.history[i].step)
            <3>1. CASE i = Len(s.history) + 1
                  BY <1>1, <1>3, <1>4, <2>1, <3>1
            <3>2. CASE i # Len(s.history) + 1
                  <4>1. i \in 1..Len(s.history)
                        BY <1>4, <3>2, SMTT(30)
                  <4>2. u.history[i] = s.history[i]
                        BY <1>4, <4>1
                  <4> QED
                      BY <2>1, <4>1, <4>2 DEF Sound, Blocks
            <3> QED
                BY <3>1, <3>2
      <2> QED
          BY <2>1 DEF Blocks
<1>6. Current(t, u)
      <2>1. ASSUME uses_on(t, u), u.step % SelectionInterval # 0
            PROVE  u.active = BlockOf(u.step)
            <3>1. uses_on(t, s)
                  BY <2>1 DEF uses_on, NextOf
            <3>2. u.step = s.step + 1
                  BY DEF NextOf
            <3>3. BlockOf(s.step + 1) = BlockOf(s.step)
                  BY <1>2, <2>1, <3>2, NextBlock
            <3> QED
                BY <1>3, <3>1, <3>2, <3>3
      <2> QED
          BY <2>1 DEF Current
<1>7. t = "prefix" => u.switched_at = None
      BY DEF NextOf, Sound
<1> QED
    BY <1>5, <1>6, <1>7 DEF Sound

\* A new engine and a fork of a sound prefix are sound.
LEMMA BeginSound ==
    ASSUME PlanAssumption, NEW t \in Tasks
    PROVE  /\ Sound("prefix", newEngine)
           /\ \A s \in States : t # "prefix" /\ Sound("prefix", s) => Sound(t, fork(s))
<1>1. Sound("prefix", newEngine)
      <2>1. /\ newEngine.step = 0 /\ newEngine.switched_at = None
            /\ newEngine.history = <<>>
            BY DEF newEngine
      <2>2. 0 % SelectionInterval = 0
            BY DEF PlanAssumption
      <2>3. Len(newEngine.history) = 0
            BY <2>1
      <2> QED
          BY <2>1, <2>2, <2>3 DEF Sound, Blocks, Current
<1>2. ASSUME NEW s \in States, t # "prefix", Sound("prefix", s)
      PROVE  Sound(t, fork(s))
      <2>1. /\ fork(s).step = s.step /\ fork(s).active = s.active
            /\ fork(s).switched_at = None /\ Len(fork(s).history) = 0
            BY Forked
      <2>2. uses_on("prefix", s)
            BY <1>2 DEF Sound, uses_on, onArm
      <2>3. Current(t, fork(s))
            BY <1>2, <2>1, <2>2 DEF Sound, Current
      <2>4. Blocks(fork(s))
            BY <2>1 DEF Blocks
      <2> QED
          BY <1>2, <2>3, <2>4 DEF Sound
<1> QED
    BY <1>1, <1>2

\* Every state trains on its own block.
LEMMA BlocksKept ==
    ASSUME PlanAssumption, NoneAssumption, IntervalAssumption, TypeOK, Control, BlocksSound, [Next]_vars
    PROVE  BlocksSound'
<1>1. CASE UNCHANGED <<engine, checkpoint, prefixPt, endpoint>>
      BY <1>1 DEF BlocksSound
<1>2. ASSUME NEW t \in Tasks, Restore(t) PROVE BlocksSound'
      <2>1. PICK s \in States :
               /\ engine' = [engine EXCEPT ![t] = s]
               /\ \/ checkpoint[t] # None /\ s = checkpoint[t]
                  \/ t = "prefix" /\ s = newEngine
                  \/ t # "prefix" /\ s = fork(prefixPt) /\ prefixPt # None
            BY <1>2, RestoreFacts
      <2>2. Sound(t, s)
            <3>1. prefixPt # None => prefixPt \in States
                  BY DEF TypeOK, SavedType, MaybeState
            <3> QED
                BY <2>1, <3>1, BeginSound DEF BlocksSound
      <2>3. engine'[t] = s /\ \A u \in Tasks \ {t} : engine'[u] = engine[u]
            BY <2>1, Loads
      <2>4. UNCHANGED <<checkpoint, prefixPt, endpoint>>
            BY <1>2 DEF Restore, diskVars
      <2> QED
          BY <2>2, <2>3, <2>4 DEF BlocksSound
<1>3. ASSUME NEW t \in Tasks, Update(t) PROVE BlocksSound'
      <2>1. UNCHANGED <<checkpoint, prefixPt, endpoint>>
            BY <1>3 DEF Update, diskVars
      <2>2. CASE UNCHANGED engine
            BY <2>1, <2>2 DEF BlocksSound
      <2>3. ASSUME NEW u \in States, engine' = [engine EXCEPT ![t] = u], NextOf(t, engine[t], u)
            PROVE  BlocksSound'
            <3>1. engine[t] \in States /\ engine[t] # None
                  BY <1>3, UpdateFacts DEF NoneAssumption
            <3>2. Sound(t, u)
                  BY <2>3, <3>1, UpdateSound DEF BlocksSound
            <3>3. engine'[t] = u /\ \A v \in Tasks \ {t} : engine'[v] = engine[v]
                  BY <2>3, Loads
            <3> QED
                BY <2>1, <3>2, <3>3 DEF BlocksSound
      <2> QED
          BY <1>3, <2>2, <2>3, UpdateFacts
<1>4. ASSUME NEW t \in Tasks, Save(t) PROVE BlocksSound'
      <2>1. checkpoint' = [checkpoint EXCEPT ![t] = engine[t]] /\ UNCHANGED <<engine, prefixPt, endpoint>>
            BY <1>4 DEF Save, snapshot
      <2>2. checkpoint'[t] = engine[t] /\ \A u \in Tasks \ {t} : checkpoint'[u] = checkpoint[u]
            BY <2>1 DEF TypeOK, SavedType
      <2> QED
          BY <2>1, <2>2 DEF BlocksSound
<1>5. ASSUME NEW t \in Tasks, WritePrefix(t) PROVE BlocksSound'
      <2>1. t = "prefix" /\ prefixPt' = engine[t] /\ UNCHANGED <<engine, checkpoint, endpoint>>
            BY <1>5 DEF WritePrefix, snapshot
      <2> QED
          BY <2>1 DEF BlocksSound
<1>6. ASSUME NEW t \in Tasks, WriteReady(t) PROVE BlocksSound'
      <2>1. engine' = [engine EXCEPT ![t] = None] /\ UNCHANGED <<checkpoint, prefixPt, endpoint>>
            BY <1>6 DEF WriteReady, diskVars
      <2>2. \A u \in Tasks : engine'[u] # None => engine'[u] = engine[u]
            BY <2>1, Loads
      <2> QED
          BY <2>1, <2>2 DEF BlocksSound
<1>7. ASSUME NEW t \in Tasks, WriteEndpoint(t) PROVE BlocksSound'
      <2>1. UNCHANGED <<engine, checkpoint, prefixPt>>
            BY <1>7 DEF WriteEndpoint
      <2>2. /\ t \in Arms /\ engine[t] # None /\ endpoint'[t].state = engine[t]
            /\ \A a \in Arms \ {t} : endpoint'[a] = endpoint[a]
            BY <1>7, Writes DEF NoneAssumption
      <2>3. Blocks(endpoint'[t].state)
            BY <2>2 DEF BlocksSound, Sound
      <2>4. \A a \in Arms \ {t} : endpoint'[a] # None => Blocks(endpoint'[a].state)
            BY <2>2 DEF BlocksSound
      <2> QED
          BY <2>1, <2>3, <2>4 DEF BlocksSound
<1>8. ASSUME NEW t \in Tasks, Finalize(t) PROVE BlocksSound'
      <2>1. engine' = [engine EXCEPT ![t] = None] /\ UNCHANGED <<checkpoint, prefixPt, endpoint>>
            BY <1>8 DEF Finalize, diskVars
      <2>2. \A u \in Tasks : engine'[u] # None => engine'[u] = engine[u]
            BY <2>1, Loads
      <2> QED
          BY <2>1, <2>2 DEF BlocksSound
<1>9. ASSUME NEW t \in Tasks, Crash(t) PROVE BlocksSound'
      <2>1. engine' = [engine EXCEPT ![t] = None] /\ UNCHANGED <<checkpoint, prefixPt, endpoint>>
            BY <1>9 DEF Crash, diskVars
      <2>2. \A u \in Tasks : engine'[u] # None => engine'[u] = engine[u]
            BY <2>1, Loads
      <2> QED
          BY <2>1, <2>2 DEF BlocksSound
<1>10. [Next]_vars /\ ~UNCHANGED <<engine, checkpoint, prefixPt, endpoint>> =>
        \/ \E t \in Tasks : Restore(t)
        \/ \E t \in Tasks : Update(t)
        \/ \E t \in Tasks : Save(t)
        \/ \E t \in Tasks : WritePrefix(t)
        \/ \E t \in Tasks : WriteReady(t)
        \/ \E t \in Tasks : WriteEndpoint(t)
        \/ \E t \in Tasks : Finalize(t)
        \/ \E t \in Tasks : Crash(t)
      BY DEF vars, diskVars, costVars, Next, TaskStep, Start, Begin, EndSave, WriteProgress,
         Evaluate, EndEvaluate, PublishReports
<1> QED
    BY <1>1, <1>2, <1>3, <1>4, <1>5, <1>6, <1>7, <1>8, <1>9, <1>10

-----------------------------------------------------------------------------
(* The switch decision.                                                     *)

\* An arm that begins on a fork of the prefix has checked nothing.
LEMMA BeginDecides ==
    ASSUME PlanAssumption, NEW s \in States, s.step = P
    PROVE  Decided(fork(s))
<1> DEFINE f == fork(s)
<1>1. /\ f.step = P /\ f.history = <<>> /\ f.switched_at = None /\ f.rule = NewRule
      BY Forked
<1>2. checksOf(f) = {}
      BY <1>1 DEF checksOf
<1>3. P \in Nat /\ P - P = 0 /\ {n \in P..(P - 1) : scheduled(n)} = {}
      BY DEF PlanAssumption
<1> HIDE DEF f
<1>4. Len(f.history) = 0
      BY <1>1
<1>5. f.rule.switched = FALSE
      BY <1>1 DEF NewRule
<1>6. Decided(f)
      BY <1>1, <1>2, <1>3, <1>4, <1>5, NothingChecked DEF Decided
<1> QED
    BY <1>6 DEF f

\* Every state of the arm that may switch was decided by the rule.
LEMMA DecisionsKept ==
    ASSUME PlanAssumption, NoneAssumption, IntervalAssumption, TypeOK, Control, Sizes, Decisions,
           [Next]_vars
    PROVE  Decisions'
<1> SUFFICES ASSUME "switch" \in Arms
             PROVE  /\ engine'["switch"] # None => Decided(engine'["switch"])
                    /\ checkpoint'["switch"] # None => Decided(checkpoint'["switch"])
                    /\ endpoint'["switch"] # None => Decided(endpoint'["switch"].state)
    BY DEF Decisions
<1> DEFINE E == engine["switch"] # None => Decided(engine["switch"])
           C == checkpoint["switch"] # None => Decided(checkpoint["switch"])
           R == endpoint["switch"] # None => Decided(endpoint["switch"].state)
           En == engine'["switch"] # None => Decided(engine'["switch"])
           Cn == checkpoint'["switch"] # None => Decided(checkpoint'["switch"])
           Rn == endpoint'["switch"] # None => Decided(endpoint'["switch"].state)
<1>0. E /\ C /\ R /\ "switch" \in Tasks /\ "switch" # "prefix"
      BY DEF Decisions, Tasks
<1>1. CASE UNCHANGED <<engine, checkpoint, endpoint>>
      BY <1>0, <1>1
<1>2. ASSUME NEW t \in Tasks, Restore(t) PROVE En /\ Cn /\ Rn
      <2>1. PICK s \in States :
               /\ engine' = [engine EXCEPT ![t] = s]
               /\ \/ checkpoint[t] # None /\ s = checkpoint[t]
                  \/ t = "prefix" /\ s = newEngine
                  \/ t # "prefix" /\ s = fork(prefixPt) /\ prefixPt # None
            BY <1>2, RestoreFacts
      <2>2. t = "switch" => Decided(s)
            <3>1. prefixPt # None => prefixPt \in States /\ prefixPt.step = P
                  BY DEF TypeOK, SavedType, MaybeState, Sizes
            <3> QED
                BY <1>0, <2>1, <3>1, BeginDecides
      <2>3. engine'[t] = s /\ \A u \in Tasks \ {t} : engine'[u] = engine[u]
            BY <2>1, Loads
      <2>4. UNCHANGED <<checkpoint, endpoint>>
            BY <1>2 DEF Restore, diskVars
      <2> QED
          BY <1>0, <2>2, <2>3, <2>4
<1>3. ASSUME NEW t \in Tasks, Update(t) PROVE En /\ Cn /\ Rn
      <2>1. UNCHANGED <<checkpoint, endpoint>>
            BY <1>3 DEF Update, diskVars
      <2>2. CASE UNCHANGED engine
            BY <1>0, <2>1, <2>2
      <2>3. ASSUME NEW u \in States, engine' = [engine EXCEPT ![t] = u],
                   t = "switch" /\ Decided(engine[t]) => Decided(u)
            PROVE  En /\ Cn /\ Rn
            <3>1. engine[t] # None
                  BY <1>3, UpdateFacts DEF NoneAssumption
            <3>2. engine'[t] = u /\ \A v \in Tasks \ {t} : engine'[v] = engine[v]
                  BY <2>3, Loads
            <3> QED
                BY <1>0, <2>1, <2>3, <3>1, <3>2
      <2> QED
          BY <1>3, <2>2, <2>3, UpdateFacts
<1>4. ASSUME NEW t \in Tasks, Save(t) PROVE En /\ Cn /\ Rn
      <2>1. checkpoint' = [checkpoint EXCEPT ![t] = engine[t]] /\ UNCHANGED <<engine, endpoint>>
            BY <1>4 DEF Save, snapshot
      <2>2. checkpoint'[t] = engine[t] /\ \A u \in Tasks \ {t} : checkpoint'[u] = checkpoint[u]
            BY <2>1 DEF TypeOK, SavedType
      <2> QED
          BY <1>0, <2>1, <2>2
<1>5. ASSUME NEW t \in Tasks, WriteEndpoint(t) PROVE En /\ Cn /\ Rn
      <2>1. UNCHANGED <<engine, checkpoint>>
            BY <1>5 DEF WriteEndpoint
      <2>2. /\ engine[t] # None /\ endpoint'[t].state = engine[t]
            /\ \A a \in Arms \ {t} : endpoint'[a] = endpoint[a]
            BY <1>5, Writes DEF NoneAssumption
      <2> QED
          BY <1>0, <2>1, <2>2
<1>6. ASSUME NEW t \in Tasks, engine' = [engine EXCEPT ![t] = None], UNCHANGED <<checkpoint, endpoint>>
      PROVE  En /\ Cn /\ Rn
      <2>1. \A u \in Tasks : engine'[u] # None => engine'[u] = engine[u]
            BY <1>6, Loads
      <2> QED
          BY <1>0, <1>6, <2>1
<1>7. ASSUME NEW t \in Tasks, WriteReady(t) \/ Finalize(t) \/ Crash(t) PROVE En /\ Cn /\ Rn
      BY <1>6, <1>7 DEF WriteReady, Finalize, Crash, diskVars
<1>8. [Next]_vars /\ ~UNCHANGED <<engine, checkpoint, endpoint>> =>
        \/ \E t \in Tasks : Restore(t)
        \/ \E t \in Tasks : Update(t)
        \/ \E t \in Tasks : Save(t)
        \/ \E t \in Tasks : WriteEndpoint(t)
        \/ \E t \in Tasks : WriteReady(t) \/ Finalize(t) \/ Crash(t)
      BY DEF vars, diskVars, costVars, Next, TaskStep, Start, Begin, EndSave, WriteProgress,
         WritePrefix, Evaluate, EndEvaluate, PublishReports
<1> HIDE DEF En, Cn, Rn
<1>9. En /\ Cn /\ Rn
      BY <1>1, <1>2, <1>3, <1>4, <1>5, <1>7, <1>8 DEF En, Cn, Rn
<1> QED
    BY <1>9 DEF En, Cn, Rn

-----------------------------------------------------------------------------
(* What is trained.                                                         *)

\* The sizes of a new engine, of a fork and of an updated state.
LEMMA BeginSized ==
    ASSUME PlanAssumption, NEW t \in Tasks
    PROVE  /\ Sized("prefix", newEngine)
           /\ \A s \in States : t # "prefix" /\ s.step = P /\ Len(s.theta) = P => Sized(t, fork(s))
<1>1. Sized("prefix", newEngine)
      <2>1. newEngine.step = 0 /\ Len(newEngine.theta) = 0
            BY DEF newEngine
      <2> QED
          BY <2>1 DEF Sized, target, PlanAssumption
<1>2. ASSUME NEW s \in States, t # "prefix", s.step = P, Len(s.theta) = P
      PROVE  Sized(t, fork(s))
      <2>1. fork(s).step = P /\ Len(fork(s).theta) = P
            BY <1>2, Forked
      <2> QED
          BY <1>2, <2>1 DEF Sized, target, PlanAssumption
<1> QED
    BY <1>1, <1>2

\* An update of a state below its target keeps it sized.
LEMMA UpdateSized ==
    ASSUME PlanAssumption, NEW t \in Tasks, NEW s \in States, NEW u,
           Sized(t, s), s.step < target(t), NextOf(t, s, u)
    PROVE  Sized(t, u)
<1>1. s.step \in Nat /\ s.theta \in Seq(Nat) /\ target(t) \in Nat /\ P \in Nat
      BY DEF States, target, PlanAssumption
<1>2. u.step = s.step + 1 /\ Len(u.theta) = Len(s.theta) + 1
      BY <1>1 DEF NextOf
<1> QED
    BY <1>1, <1>2 DEF Sized

\* An update extends what was taken up.
LEMMA UpdateExtends ==
    ASSUME NEW t \in Tasks, NEW s \in States, NEW u, Extends(t, s), NextOf(t, s, u),
           Len(base(t)) \in Nat
    PROVE  Extends(t, u)
<1> DEFINE n == Len(s.theta)
           b == base(t)
<1>1. s.theta \in Seq(Nat) /\ n \in Nat
      BY DEF States
<1>2. u.theta = Append(s.theta, run[t])
      BY DEF NextOf
<1>3. Len(u.theta) = n + 1 /\ u.theta[n + 1] = run[t] /\ \A i \in 1..n : u.theta[i] = s.theta[i]
      BY <1>1, <1>2
<1>4. /\ Len(b) <= n /\ Len(b) \in Nat
      /\ \A i \in 1..Len(b) : s.theta[i] = b[i]
      /\ \A i \in (Len(b) + 1)..n : s.theta[i] = run[t]
      BY DEF Extends
<1> HIDE DEF n, b
<1>5. Len(b) <= Len(u.theta) /\ \A i \in 1..Len(b) : u.theta[i] = b[i]
      BY <1>1, <1>3, <1>4
<1>6. \A i \in (Len(b) + 1)..Len(u.theta) : u.theta[i] = run[t]
      <2>1. ASSUME NEW i \in (Len(b) + 1)..(n + 1) PROVE u.theta[i] = run[t]
            <3>1. i = n + 1 \/ i \in (Len(b) + 1)..n
                  BY <1>1, <1>4
            <3>2. i \in (Len(b) + 1)..n => i \in 1..n
                  BY <1>1, <1>4
            <3> QED
                BY <1>3, <1>4, <3>1, <3>2
      <2> QED
          BY <1>3, <2>1
<1> QED
    BY <1>5, <1>6 DEF Extends, b

\* The length of what is taken up.
LEMMA BaseLength ==
    ASSUME TypeOK, Control, NEW t \in Tasks, pc[t] # "off"
    PROVE  base(t) \in Seq(Nat) /\ Len(base(t)) \in Nat
<1>1. t # "prefix" => prefixReady \in States
      BY DEF Control, Placed, TypeOK, SavedType, MaybeState
<1>2. checkpoint[t] # None => checkpoint[t] \in States
      BY DEF TypeOK, SavedType, MaybeState
<1>3. \A s \in States : s.theta \in Seq(Nat)
      BY DEF States
<1>4. base(t) \in Seq(Nat)
      BY <1>1, <1>2, <1>3 DEF base
<1> QED
    BY <1>4

\* A state has made as many updates as it counts.
LEMMA SizesKept ==
    ASSUME PlanAssumption, NoneAssumption, IntervalAssumption, TypeOK, Control, Sizes, LastKept, [Next]_vars
    PROVE  Sizes'
<1>1. CASE UNCHANGED <<engine, checkpoint, prefixPt>>
      BY <1>1 DEF Sizes
<1>2. ASSUME NEW t \in Tasks, Restore(t) PROVE Sizes'
      <2>1. PICK s \in States :
               /\ engine' = [engine EXCEPT ![t] = s]
               /\ \/ checkpoint[t] # None /\ s = checkpoint[t]
                  \/ t = "prefix" /\ s = newEngine
                  \/ t # "prefix" /\ s = fork(prefixPt) /\ prefixPt # None
            BY <1>2, RestoreFacts
      <2>2. Sized(t, s)
            <3>1. prefixPt # None => prefixPt \in States
                  BY DEF TypeOK, SavedType, MaybeState
            <3> QED
                BY <2>1, <3>1, BeginSized DEF Sizes
      <2>3. engine'[t] = s /\ \A u \in Tasks \ {t} : engine'[u] = engine[u]
            BY <2>1, Loads
      <2>4. UNCHANGED <<checkpoint, prefixPt>>
            BY <1>2 DEF Restore, diskVars
      <2> QED
          BY <2>2, <2>3, <2>4 DEF Sizes
<1>3. ASSUME NEW t \in Tasks, Update(t) PROVE Sizes'
      <2>1. pc[t] = "updating" /\ UNCHANGED <<checkpoint, prefixPt>>
            BY <1>3 DEF Update, diskVars
      <2>2. CASE UNCHANGED engine
            BY <2>1, <2>2 DEF Sizes
      <2>3. ASSUME NEW u \in States, engine' = [engine EXCEPT ![t] = u], NextOf(t, engine[t], u)
            PROVE  Sizes'
            <3>1. engine[t] \in States /\ engine[t] # None /\ engine[t].step < target(t)
                  BY <1>3, <2>1, UpdateFacts DEF NoneAssumption, LastKept, Kept
            <3>2. Sized(t, u)
                  BY <2>3, <3>1, UpdateSized DEF Sizes
            <3>3. engine'[t] = u /\ \A v \in Tasks \ {t} : engine'[v] = engine[v]
                  BY <2>3, Loads
            <3> QED
                BY <2>1, <3>2, <3>3 DEF Sizes
      <2> QED
          BY <1>3, <2>2, <2>3, UpdateFacts
<1>4. ASSUME NEW t \in Tasks, Save(t) PROVE Sizes'
      <2>1. checkpoint' = [checkpoint EXCEPT ![t] = engine[t]] /\ UNCHANGED <<engine, prefixPt>>
            BY <1>4 DEF Save, snapshot
      <2>2. checkpoint'[t] = engine[t] /\ \A u \in Tasks \ {t} : checkpoint'[u] = checkpoint[u]
            BY <2>1 DEF TypeOK, SavedType
      <2> QED
          BY <2>1, <2>2 DEF Sizes
<1>5. ASSUME NEW t \in Tasks, WritePrefix(t) PROVE Sizes'
      <2>1. /\ t = "prefix" /\ prefixPt' = engine[t] /\ engine[t].step = P /\ pc[t] = "loop"
            /\ UNCHANGED <<engine, checkpoint>>
            BY <1>5 DEF WritePrefix, snapshot
      <2>2. engine[t] # None
            BY <2>1 DEF Control, Placed, Loaded, Points, Metered
      <2> QED
          BY <2>1, <2>2 DEF Sizes, Sized
<1>6. ASSUME NEW t \in Tasks, WriteReady(t) PROVE Sizes'
      <2>1. engine' = [engine EXCEPT ![t] = None] /\ UNCHANGED <<checkpoint, prefixPt>>
            BY <1>6 DEF WriteReady, diskVars
      <2>2. \A u \in Tasks : engine'[u] # None => engine'[u] = engine[u]
            BY <2>1, Loads
      <2> QED
          BY <2>1, <2>2 DEF Sizes
<1>7. ASSUME NEW t \in Tasks, Finalize(t) PROVE Sizes'
      <2>1. engine' = [engine EXCEPT ![t] = None] /\ UNCHANGED <<checkpoint, prefixPt>>
            BY <1>7 DEF Finalize, diskVars
      <2>2. \A u \in Tasks : engine'[u] # None => engine'[u] = engine[u]
            BY <2>1, Loads
      <2> QED
          BY <2>1, <2>2 DEF Sizes
<1>8. ASSUME NEW t \in Tasks, Crash(t) PROVE Sizes'
      <2>1. engine' = [engine EXCEPT ![t] = None] /\ UNCHANGED <<checkpoint, prefixPt>>
            BY <1>8 DEF Crash, diskVars
      <2>2. \A u \in Tasks : engine'[u] # None => engine'[u] = engine[u]
            BY <2>1, Loads
      <2> QED
          BY <2>1, <2>2 DEF Sizes
<1>9. [Next]_vars /\ ~UNCHANGED <<engine, checkpoint, prefixPt>> =>
        \/ \E t \in Tasks : Restore(t)
        \/ \E t \in Tasks : Update(t)
        \/ \E t \in Tasks : Save(t)
        \/ \E t \in Tasks : WritePrefix(t)
        \/ \E t \in Tasks : WriteReady(t)
        \/ \E t \in Tasks : Finalize(t)
        \/ \E t \in Tasks : Crash(t)
      BY DEF vars, diskVars, costVars, Next, TaskStep, Start, Begin, EndSave, WriteProgress,
         Evaluate, EndEvaluate, WriteEndpoint, PublishReports
<1> QED
    BY <1>1, <1>2, <1>3, <1>4, <1>5, <1>6, <1>7, <1>8, <1>9

\* What the other tasks have grown.
LEMMA OtherGrown ==
    ASSUME NEW u \in Tasks, pc[u] \in Loaded => Extends(u, engine[u]),
           pc'[u] = pc[u], engine'[u] = engine[u], run'[u] = run[u], checkpoint'[u] = checkpoint[u],
           u # "prefix" /\ pc[u] # "off" => prefixReady' = prefixReady
    PROVE  pc'[u] \in Loaded => Extends(u, engine[u])'
<1>1. CASE pc[u] \in Loaded
      <2>1. base(u)' = base(u)
            BY <1>1 DEF base, Loaded
      <2> QED
          BY <1>1, <2>1 DEF Extends
<1>2. CASE pc[u] \notin Loaded
      BY <1>2
<1> QED
    BY <1>1, <1>2

\* A process that trains nothing keeps what it has grown.
LEMMA GrownMoved ==
    ASSUME TypeOK, Grown, NEW t \in Tasks, NEW p, goto(t, p), p \in Loaded => pc[t] \in Loaded,
           UNCHANGED <<engine, run, checkpoint, prefixReady>>
    PROVE  Grown'
<1>1. pc'[t] = p /\ \A u \in Tasks \ {t} : pc'[u] = pc[u]
      BY GoesTo
<1>2. \A u \in Tasks : base(u)' = base(u)
      BY DEF base
<1>3. \A u \in Tasks : Extends(u, engine[u]) => Extends(u, engine[u])'
      BY <1>2 DEF Extends
<1> QED
    BY <1>1, <1>3 DEF Grown

\* A process that ends keeps what the others have grown.
LEMMA GrownEnds ==
    ASSUME TypeOK, Control, Grown, NEW t \in Tasks, goto(t, "off"),
           engine' = [engine EXCEPT ![t] = None], UNCHANGED <<run, checkpoint>>,
           prefixReady # None => prefixReady' = prefixReady
    PROVE  Grown'
<1>1. pc'[t] = "off" /\ \A u \in Tasks \ {t} : pc'[u] = pc[u]
      BY GoesTo
<1>2. \A u \in Tasks \ {t} : engine'[u] = engine[u]
      BY Loads
<1>3. \A u \in Tasks : u # "prefix" /\ pc[u] # "off" => prefixReady' = prefixReady
      BY DEF Control, Placed
<1>4. \A u \in Tasks \ {t} : pc'[u] \in Loaded => Extends(u, engine[u])'
      BY <1>1, <1>2, <1>3, OtherGrown DEF Grown
<1> QED
    BY <1>1, <1>4 DEF Grown, Loaded

\* Every run extends what it took up.
LEMMA GrownKept ==
    ASSUME PlanAssumption, NoneAssumption, IntervalAssumption, TypeOK, Control, Grown, [Next]_vars
    PROVE  Grown'
<1>1. CASE UNCHANGED <<pc, engine, run, checkpoint, prefixReady>>
      <2>1. \A u \in Tasks : base(u)' = base(u)
            BY <1>1 DEF base
      <2>2. \A u \in Tasks : Extends(u, engine[u]) => Extends(u, engine[u])'
            BY <1>1, <2>1 DEF Extends
      <2> QED
          BY <1>1, <2>2 DEF Grown
<1>2. ASSUME NEW t \in Tasks, Start(t) PROVE Grown'
      <2>1. goto(t, "setup") /\ UNCHANGED <<engine, checkpoint, prefixReady>>
            BY <1>2 DEF Start
      <2>2. pc'[t] = "setup" /\ \A u \in Tasks \ {t} : pc'[u] = pc[u]
            BY <2>1, GoesTo
      <2>3. \A u \in Tasks \ {t} : run'[u] = run[u]
            BY <1>2 DEF Start, TypeOK, ProcessType
      <2>4. \A u \in Tasks \ {t} : pc'[u] \in Loaded => Extends(u, engine[u])'
            BY <2>1, <2>2, <2>3, OtherGrown DEF Grown
      <2> QED
          BY <2>2, <2>4 DEF Grown, Loaded
<1>3. ASSUME NEW t \in Tasks, Restore(t) PROVE Grown'
      <2>1. PICK s \in States :
               /\ engine' = [engine EXCEPT ![t] = s]
               /\ pc' = [pc EXCEPT ![t] = "loop"] \/ pc' = [pc EXCEPT ![t] = "refused"]
               /\ \/ checkpoint[t] # None /\ s = checkpoint[t]
                  \/ checkpoint[t] = None /\ t = "prefix" /\ s = newEngine
                  \/ /\ checkpoint[t] = None /\ t # "prefix" /\ s = fork(prefixPt)
                     /\ prefixPt # None /\ prefixReady = prefixPt
            BY <1>3, RestoreFacts
      <2>2. /\ \E p \in {"loop", "refused"} : goto(t, p)
            /\ UNCHANGED <<run, checkpoint, prefixReady>>
            BY <2>1, <1>3 DEF Restore, goto, diskVars
      <2>3. \A u \in Tasks \ {t} : pc'[u] = pc[u]
            BY <2>2, GoesTo
      <2>4. engine'[t] = s /\ \A u \in Tasks \ {t} : engine'[u] = engine[u]
            BY <2>1, Loads
      <2>5. \A u \in Tasks \ {t} : pc'[u] \in Loaded => Extends(u, engine[u])'
            BY <2>2, <2>3, <2>4, OtherGrown DEF Grown
      <2>6. base(t)' = s.theta
            <3>1. prefixPt # None => prefixPt \in States
                  BY DEF TypeOK, SavedType, MaybeState
            <3>2. newEngine.theta = <<>>
                  BY DEF newEngine
            <3> QED
                BY <2>1, <2>2, <3>1, <3>2, Forked DEF base
      <2>7. s.theta \in Seq(Nat) /\ Len(s.theta) \in Nat
            BY DEF States
      <2>8. Extends(t, engine[t])'
            BY <2>4, <2>6, <2>7 DEF Extends
      <2> QED
          BY <2>5, <2>8 DEF Grown
<1>4. ASSUME NEW t \in Tasks, Begin(t) PROVE Grown'
      <2>1. /\ \E p \in {"updating"} : goto(t, p)
            /\ UNCHANGED <<engine, run, checkpoint, prefixReady>>
            BY <1>4 DEF Begin, diskVars
      <2>2. pc[t] \in Loaded
            BY <1>4 DEF Begin, Loaded, Points, Metered
      <2> QED
          BY <2>1, <2>2, GrownMoved
<1>5. ASSUME NEW t \in Tasks, Update(t) PROVE Grown'
      <2>1. pc[t] = "updating" /\ UNCHANGED <<run, checkpoint, prefixReady>>
            BY <1>5 DEF Update, diskVars
      <2>2. \A u \in Tasks : base(u)' = base(u)
            BY <2>1 DEF base
      <2>3. CASE goto(t, "refused") /\ UNCHANGED engine
            BY <2>1, <2>3, GrownMoved DEF Loaded
      <2>4. ASSUME NEW u \in States, engine' = [engine EXCEPT ![t] = u], NextOf(t, engine[t], u)
            PROVE  Grown'
            <3>1. engine[t] \in States /\ Extends(t, engine[t])
                  BY <1>5, <2>1, UpdateFacts DEF Grown, Loaded, Points, Metered
            <3>2. Len(base(t)) \in Nat
                  BY <2>1, BaseLength
            <3>3. Extends(t, u)
                  BY <2>4, <3>1, <3>2, UpdateExtends
            <3>4. engine'[t] = u /\ \A v \in Tasks \ {t} : engine'[v] = engine[v]
                  BY <2>4, Loads
            <3>5. Extends(t, engine[t])'
                  BY <2>1, <2>2, <3>3, <3>4 DEF Extends
            <3>6. \E p \in {"refused", "saving", "loop"} : goto(t, p)
                  BY <1>5 DEF Update, goto
            <3>7. \A v \in Tasks \ {t} : pc'[v] = pc[v]
                  BY <3>6, GoesTo
            <3>8. \A v \in Tasks \ {t} : pc'[v] \in Loaded => Extends(v, engine[v])'
                  BY <2>1, <3>4, <3>7, OtherGrown DEF Grown
            <3> QED
                BY <3>5, <3>8 DEF Grown
      <2> QED
          BY <1>5, <2>3, <2>4, UpdateFacts DEF goto
<1>6. ASSUME NEW t \in Tasks, Save(t) PROVE Grown'
      <2>1. /\ checkpoint' = [checkpoint EXCEPT ![t] = engine[t]] /\ goto(t, "saved")
            /\ pc[t] = "saving" /\ UNCHANGED <<engine, run, prefixReady>>
            BY <1>6 DEF Save, snapshot
      <2>2. checkpoint'[t] = engine[t] /\ \A u \in Tasks \ {t} : checkpoint'[u] = checkpoint[u]
            BY <2>1 DEF TypeOK, SavedType
      <2>3. \A u \in Tasks \ {t} : pc'[u] = pc[u]
            BY <2>1, GoesTo
      <2>4. \A u \in Tasks \ {t} : pc'[u] \in Loaded => Extends(u, engine[u])'
            BY <2>1, <2>2, <2>3, OtherGrown DEF Grown
      <2>5. engine[t] # None
            BY <2>1 DEF Control, Placed, Loaded, Points, Metered
      <2>6. engine[t] \in States
            BY <2>5 DEF TypeOK, ProcessType, MaybeState
      <2>7. engine[t].theta \in Seq(Nat) /\ Len(engine[t].theta) \in Nat
            BY <2>6 DEF States
      <2>8. base(t)' = engine[t].theta
            BY <2>2, <2>5 DEF base
      <2>9. Extends(t, engine[t])'
            BY <2>1, <2>7, <2>8 DEF Extends
      <2> QED
          BY <2>4, <2>9 DEF Grown
<1>7. ASSUME NEW t \in Tasks, EndSave(t) PROVE Grown'
      <2>1. /\ \E p \in {"progress", "loop"} : goto(t, p)
            /\ UNCHANGED <<engine, run, checkpoint, prefixReady>>
            BY <1>7 DEF EndSave, diskVars
      <2>2. pc[t] \in Loaded
            BY <1>7 DEF EndSave, Loaded, Points, Metered
      <2> QED
          BY <2>1, <2>2, GrownMoved
<1>8. ASSUME NEW t \in Tasks, WriteProgress(t) PROVE Grown'
      <2>1. /\ \E p \in {"loop"} : goto(t, p)
            /\ UNCHANGED <<engine, run, checkpoint, prefixReady>>
            BY <1>8 DEF WriteProgress, diskVars
      <2>2. pc[t] \in Loaded
            BY <1>8 DEF WriteProgress, Loaded, Points, Metered
      <2> QED
          BY <2>1, <2>2, GrownMoved
<1>9. ASSUME NEW t \in Tasks, WritePrefix(t) PROVE Grown'
      <2>1. /\ \E p \in {"ready"} : goto(t, p)
            /\ UNCHANGED <<engine, run, checkpoint, prefixReady>>
            BY <1>9 DEF WritePrefix, diskVars
      <2>2. pc[t] \in Loaded
            BY <1>9 DEF WritePrefix, Loaded, Points, Metered
      <2> QED
          BY <2>1, <2>2, GrownMoved
<1>10. ASSUME NEW t \in Tasks, WriteReady(t) PROVE Grown'
      <2>1. /\ pc[t] = "ready" /\ goto(t, "off") /\ engine' = [engine EXCEPT ![t] = None]
            /\ UNCHANGED <<run, checkpoint>>
            BY <1>10 DEF WriteReady
      <2>2. prefixReady = None
            BY <2>1 DEF Control, Placed, complete
      <2> QED
          BY <2>1, <2>2, GrownEnds
<1>11. ASSUME NEW t \in Tasks, Evaluate(t) PROVE Grown'
      <2>1. /\ \E p \in {"evaluating"} : goto(t, p)
            /\ UNCHANGED <<engine, run, checkpoint, prefixReady>>
            BY <1>11 DEF Evaluate, diskVars
      <2>2. pc[t] \in Loaded
            BY <1>11 DEF Evaluate, Loaded, Points, Metered
      <2> QED
          BY <2>1, <2>2, GrownMoved
<1>12. ASSUME NEW t \in Tasks, EndEvaluate(t) PROVE Grown'
      <2>1. /\ \E p \in {"endpoint"} : goto(t, p)
            /\ UNCHANGED <<engine, run, checkpoint, prefixReady>>
            BY <1>12 DEF EndEvaluate, diskVars
      <2>2. pc[t] \in Loaded
            BY <1>12 DEF EndEvaluate, Loaded, Points, Metered
      <2> QED
          BY <2>1, <2>2, GrownMoved
<1>13. ASSUME NEW t \in Tasks, WriteEndpoint(t) PROVE Grown'
      <2>1. /\ \E p \in {"finalize"} : goto(t, p)
            /\ UNCHANGED <<engine, run, checkpoint, prefixReady>>
            BY <1>13 DEF WriteEndpoint, diskVars
      <2>2. pc[t] \in Loaded
            BY <1>13 DEF WriteEndpoint, Loaded, Points, Metered
      <2> QED
          BY <2>1, <2>2, GrownMoved
<1>14. ASSUME NEW t \in Tasks, Finalize(t) PROVE Grown'
      <2>1. /\ goto(t, "off") /\ engine' = [engine EXCEPT ![t] = None]
            /\ UNCHANGED <<run, checkpoint>> /\ (prefixReady # None => prefixReady' = prefixReady)
            BY <1>14 DEF Finalize, diskVars
      <2> QED
          BY <2>1, GrownEnds
<1>15. ASSUME NEW t \in Tasks, Crash(t) PROVE Grown'
      <2>1. /\ goto(t, "off") /\ engine' = [engine EXCEPT ![t] = None]
            /\ UNCHANGED <<run, checkpoint>> /\ (prefixReady # None => prefixReady' = prefixReady)
            BY <1>15 DEF Crash, diskVars
      <2> QED
          BY <2>1, GrownEnds
<1>16. [Next]_vars /\ ~UNCHANGED <<pc, engine, run, checkpoint, prefixReady>> =>
        \/ \E t \in Tasks : Start(t)
        \/ \E t \in Tasks : Restore(t)
        \/ \E t \in Tasks : Begin(t)
        \/ \E t \in Tasks : Update(t)
        \/ \E t \in Tasks : Save(t)
        \/ \E t \in Tasks : EndSave(t)
        \/ \E t \in Tasks : WriteProgress(t)
        \/ \E t \in Tasks : WritePrefix(t)
        \/ \E t \in Tasks : WriteReady(t)
        \/ \E t \in Tasks : Evaluate(t)
        \/ \E t \in Tasks : EndEvaluate(t)
        \/ \E t \in Tasks : WriteEndpoint(t)
        \/ \E t \in Tasks : Finalize(t)
        \/ \E t \in Tasks : Crash(t)
      BY DEF vars, diskVars, costVars, Next, TaskStep, PublishReports
<1> QED
    BY <1>1, <1>2, <1>3, <1>4, <1>5, <1>6, <1>7, <1>8, <1>9, <1>10, <1>11, <1>12, <1>13,
       <1>14, <1>15, <1>16

\* What keeps Kept of the other tasks.
LEMMA OtherKept ==
    ASSUME NEW u \in Tasks, Kept(u), pc'[u] = pc[u], engine'[u] = engine[u],
           checkpoint'[u] = checkpoint[u], pc[u] = "ready" => prefixPt' = prefixPt
    PROVE  Kept(u)'
BY DEF Kept

\* A process that goes on keeps what is saved.
LEMMA KeptMoved ==
    ASSUME TypeOK, LastKept, NEW t \in Tasks, NEW p, goto(t, p), pc[t] \in Settled,
           p \in Settled, p # "ready",
           p \in {"evaluating", "endpoint"} => engine[t].step = target(t),
           UNCHANGED <<engine, checkpoint, prefixPt>>
    PROVE  LastKept'
<1>1. pc'[t] = p /\ \A u \in Tasks \ {t} : pc'[u] = pc[u]
      BY GoesTo
<1>2. \A u \in Tasks \ {t} : Kept(u)'
      BY <1>1, OtherKept DEF LastKept
<1>3. Kept(t)'
      <2>1. p # "updating"
            BY DEF Settled
      <2> QED
          BY <1>1, <2>1 DEF LastKept, Kept
<1> QED
    BY <1>2, <1>3 DEF LastKept

\* A process that ends, or is not at work, leaves what the others have saved.
LEMMA KeptIdle ==
    ASSUME TypeOK, LastKept, NEW t \in Tasks, NEW p, goto(t, p),
           p \in {"off", "setup", "refused", "saving", "finalize"},
           \A u \in Tasks \ {t} : engine'[u] = engine[u],
           UNCHANGED <<checkpoint, prefixPt>>
    PROVE  LastKept'
<1>1. pc'[t] = p /\ \A u \in Tasks \ {t} : pc'[u] = pc[u]
      BY GoesTo
<1>2. \A u \in Tasks \ {t} : Kept(u)'
      BY <1>1, OtherKept DEF LastKept
<1>3. Kept(t)'
      BY <1>1 DEF Kept, Settled, Loaded
<1> QED
    BY <1>2, <1>3 DEF LastKept

\* What is published was saved.
LEMMA LastKeptKept ==
    ASSUME PlanAssumption, NoneAssumption, IntervalAssumption, TypeOK, Control, Training, [Next]_vars
    PROVE  LastKept'
<1> USE DEF Training
<1>1. CASE UNCHANGED <<pc, engine, checkpoint, prefixPt>>
      BY <1>1 DEF Training, LastKept, Kept
<1>2. ASSUME NEW t \in Tasks, Start(t) PROVE LastKept'
      <2>1. goto(t, "setup") /\ UNCHANGED <<engine, checkpoint, prefixPt>>
            BY <1>2 DEF Start
      <2> QED
          BY <2>1, KeptIdle
<1>3. ASSUME NEW t \in Tasks, Restore(t) PROVE LastKept'
      <2>1. PICK s \in States :
               /\ engine' = [engine EXCEPT ![t] = s]
               /\ pc' = [pc EXCEPT ![t] = "loop"] \/ pc' = [pc EXCEPT ![t] = "refused"]
               /\ \/ checkpoint[t] # None /\ s = checkpoint[t]
                  \/ checkpoint[t] = None /\ t = "prefix" /\ s = newEngine
                  \/ /\ checkpoint[t] = None /\ t # "prefix" /\ s = fork(prefixPt)
                     /\ prefixPt # None /\ prefixReady = prefixPt
            BY <1>3, RestoreFacts
      <2>2. PICK p \in {"loop", "refused"} : goto(t, p)
            BY <2>1 DEF goto
      <2>3. UNCHANGED <<checkpoint, prefixPt>>
            BY <1>3 DEF Restore, diskVars
      <2>4. pc'[t] = p /\ \A u \in Tasks \ {t} : pc'[u] = pc[u]
            BY <2>2, GoesTo
      <2>5. engine'[t] = s /\ \A u \in Tasks \ {t} : engine'[u] = engine[u]
            BY <2>1, Loads
      <2>6. \A u \in Tasks \ {t} : Kept(u)'
            BY <2>3, <2>4, <2>5, OtherKept DEF LastKept
      <2>7. s.step = target(t) => checkpoint[t] = s
            <3>1. CASE t = "prefix" /\ s = newEngine
                  BY <3>1 DEF newEngine, target, PlanAssumption
            <3>2. CASE t # "prefix" /\ s = fork(prefixPt) /\ prefixPt # None
                  <4>1. prefixPt \in States /\ prefixPt.step = P
                        BY <3>2 DEF Training, Sizes, TypeOK, SavedType, MaybeState
                  <4>2. s.step = P
                        BY <3>2, <4>1, Forked
                  <4> QED
                      BY <3>2, <4>2 DEF target, PlanAssumption
            <3> QED
                BY <2>1, <3>1, <3>2
      <2>8. Kept(t)'
            BY <2>2, <2>3, <2>4, <2>5, <2>7 DEF Kept, Settled, Loaded
      <2> QED
          BY <2>6, <2>8 DEF LastKept
<1>4. ASSUME NEW t \in Tasks, Begin(t) PROVE LastKept'
      <2>1. /\ goto(t, "updating") /\ engine[t].step < target(t)
            /\ UNCHANGED <<engine, checkpoint, prefixPt>>
            BY <1>4 DEF Begin, diskVars
      <2>2. pc'[t] = "updating" /\ \A u \in Tasks \ {t} : pc'[u] = pc[u]
            BY <2>1, GoesTo
      <2>3. \A u \in Tasks \ {t} : Kept(u)'
            BY <2>1, <2>2, OtherKept DEF LastKept
      <2>4. Kept(t)'
            BY <2>1, <2>2 DEF Kept, Settled
      <2> QED
          BY <2>3, <2>4 DEF LastKept
<1>5. ASSUME NEW t \in Tasks, Update(t) PROVE LastKept'
      <2>1. UNCHANGED <<checkpoint, prefixPt>>
            BY <1>5 DEF Update, diskVars
      <2>2. CASE goto(t, "refused") /\ UNCHANGED engine
            BY <2>1, <2>2, KeptIdle
      <2>3. ASSUME NEW u \in States, engine' = [engine EXCEPT ![t] = u], NextOf(t, engine[t], u),
                   goto(t, IF saves(t, u.step) THEN "saving" ELSE "loop")
            PROVE  LastKept'
            <3>1. \A v \in Tasks \ {t} : engine'[v] = engine[v]
                  BY <2>3, Loads
            <3>2. CASE saves(t, u.step)
                  BY <2>1, <2>3, <3>1, <3>2, KeptIdle
            <3>3. CASE ~saves(t, u.step)
                  <4>1. u.step # target(t)
                        BY <3>3 DEF saves, target, PlanAssumption
                  <4>2. engine'[t] = u
                        BY <2>3, Loads
                  <4>3. goto(t, "loop")
                        BY <2>3, <3>3
                  <4>4. pc'[t] = "loop" /\ \A v \in Tasks \ {t} : pc'[v] = pc[v]
                        BY <4>3, GoesTo
                  <4>5. \A v \in Tasks \ {t} : Kept(v)'
                        BY <2>1, <3>1, <4>4, OtherKept DEF LastKept
                  <4>6. Kept(t)'
                        BY <4>1, <4>2, <4>4 DEF Kept, target
                  <4> QED
                      BY <4>5, <4>6 DEF LastKept
            <3> QED
                BY <3>2, <3>3
      <2> QED
          BY <1>5, <2>2, <2>3, UpdateFacts DEF goto
<1>6. ASSUME NEW t \in Tasks, Save(t) PROVE LastKept'
      <2>1. /\ checkpoint' = [checkpoint EXCEPT ![t] = engine[t]] /\ goto(t, "saved")
            /\ UNCHANGED <<engine, prefixPt>>
            BY <1>6 DEF Save, snapshot
      <2>2. checkpoint'[t] = engine[t] /\ \A u \in Tasks \ {t} : checkpoint'[u] = checkpoint[u]
            BY <2>1 DEF TypeOK, SavedType
      <2>3. pc'[t] = "saved" /\ \A u \in Tasks \ {t} : pc'[u] = pc[u]
            BY <2>1, GoesTo
      <2>4. \A u \in Tasks \ {t} : Kept(u)'
            BY <2>1, <2>2, <2>3, OtherKept DEF LastKept
      <2>5. Kept(t)'
            BY <2>1, <2>2, <2>3 DEF Kept
      <2> QED
          BY <2>4, <2>5 DEF LastKept
<1>7. ASSUME NEW t \in Tasks, EndSave(t) PROVE LastKept'
      <2>1. /\ \E p \in {"progress", "loop"} : goto(t, p)
            /\ UNCHANGED <<engine, checkpoint, prefixPt>>
            BY <1>7 DEF EndSave, diskVars
      <2>2. pc[t] \in Settled /\ {"progress", "loop"} \subseteq Settled
            BY <1>7 DEF EndSave, Settled, Loaded, Points, Metered
      <2> QED
          BY <2>1, <2>2, KeptMoved
<1>8. ASSUME NEW t \in Tasks, WriteProgress(t) PROVE LastKept'
      <2>1. /\ \E p \in {"loop"} : goto(t, p)
            /\ UNCHANGED <<engine, checkpoint, prefixPt>>
            BY <1>8 DEF WriteProgress, diskVars
      <2>2. pc[t] \in Settled /\ {"loop"} \subseteq Settled
            BY <1>8 DEF WriteProgress, Settled, Loaded, Points, Metered
      <2> QED
          BY <2>1, <2>2, KeptMoved
<1>9. ASSUME NEW t \in Tasks, WritePrefix(t) PROVE LastKept'
      <2>1. /\ t = "prefix" /\ pc[t] = "loop" /\ engine[t].step = P /\ goto(t, "ready")
            /\ prefixPt' = engine[t] /\ UNCHANGED <<engine, checkpoint>>
            BY <1>9 DEF WritePrefix, snapshot
      <2>2. pc'[t] = "ready" /\ \A u \in Tasks \ {t} : pc'[u] = pc[u]
            BY <2>1, GoesTo
      <2>3. checkpoint[t] = engine[t]
            BY <2>1 DEF LastKept, Kept, Settled, Loaded, Points, Metered, target
      <2>4. \A u \in Tasks \ {t} : pc[u] # "ready"
            BY <2>1 DEF Control, Placed
      <2>5. \A u \in Tasks \ {t} : Kept(u)'
            BY <2>1, <2>2, <2>4, OtherKept DEF LastKept
      <2>6. Kept(t)'
            BY <2>1, <2>2, <2>3 DEF Kept, target
      <2> QED
          BY <2>5, <2>6 DEF LastKept
<1>10. ASSUME NEW t \in Tasks, WriteReady(t) PROVE LastKept'
      <2>1. /\ goto(t, "off") /\ engine' = [engine EXCEPT ![t] = None]
            /\ UNCHANGED <<checkpoint, prefixPt>>
            BY <1>10 DEF WriteReady, diskVars
      <2>2. \A u \in Tasks \ {t} : engine'[u] = engine[u]
            BY <2>1, Loads
      <2> QED
          BY <2>1, <2>2, KeptIdle
<1>11. ASSUME NEW t \in Tasks, Evaluate(t) PROVE LastKept'
      <2>1. /\ goto(t, "evaluating") /\ engine[t].step = target(t)
            /\ UNCHANGED <<engine, checkpoint, prefixPt>>
            BY <1>11 DEF Evaluate, diskVars, target, PlanAssumption
      <2>2. pc[t] \in Settled /\ "evaluating" \in Settled
            BY <1>11 DEF Evaluate, Settled, Loaded, Points, Metered
      <2> QED
          BY <2>1, <2>2, KeptMoved
<1>12. ASSUME NEW t \in Tasks, EndEvaluate(t) PROVE LastKept'
      <2>1. /\ goto(t, "endpoint") /\ pc[t] = "evaluating"
            /\ UNCHANGED <<engine, checkpoint, prefixPt>>
            BY <1>12 DEF EndEvaluate, diskVars
      <2>2. pc[t] \in Settled /\ "endpoint" \in Settled
            BY <2>1 DEF Settled, Loaded, Points, Metered
      <2>3. engine[t].step = target(t)
            BY <2>1 DEF LastKept, Kept
      <2> QED
          BY <2>1, <2>2, <2>3, KeptMoved
<1>13. ASSUME NEW t \in Tasks, WriteEndpoint(t) PROVE LastKept'
      <2>1. goto(t, "finalize") /\ UNCHANGED <<engine, checkpoint, prefixPt>>
            BY <1>13 DEF WriteEndpoint
      <2> QED
          BY <2>1, KeptIdle
<1>14. ASSUME NEW t \in Tasks, Finalize(t) PROVE LastKept'
      <2>1. /\ goto(t, "off") /\ engine' = [engine EXCEPT ![t] = None]
            /\ UNCHANGED <<checkpoint, prefixPt>>
            BY <1>14 DEF Finalize, diskVars
      <2>2. \A u \in Tasks \ {t} : engine'[u] = engine[u]
            BY <2>1, Loads
      <2> QED
          BY <2>1, <2>2, KeptIdle
<1>15. ASSUME NEW t \in Tasks, Crash(t) PROVE LastKept'
      <2>1. /\ goto(t, "off") /\ engine' = [engine EXCEPT ![t] = None]
            /\ UNCHANGED <<checkpoint, prefixPt>>
            BY <1>15 DEF Crash, diskVars
      <2>2. \A u \in Tasks \ {t} : engine'[u] = engine[u]
            BY <2>1, Loads
      <2> QED
          BY <2>1, <2>2, KeptIdle
<1>16. [Next]_vars /\ ~UNCHANGED <<pc, engine, checkpoint, prefixPt>> =>
        \/ \E t \in Tasks : Start(t)
        \/ \E t \in Tasks : Restore(t)
        \/ \E t \in Tasks : Begin(t)
        \/ \E t \in Tasks : Update(t)
        \/ \E t \in Tasks : Save(t)
        \/ \E t \in Tasks : EndSave(t)
        \/ \E t \in Tasks : WriteProgress(t)
        \/ \E t \in Tasks : WritePrefix(t)
        \/ \E t \in Tasks : WriteReady(t)
        \/ \E t \in Tasks : Evaluate(t)
        \/ \E t \in Tasks : EndEvaluate(t)
        \/ \E t \in Tasks : WriteEndpoint(t)
        \/ \E t \in Tasks : Finalize(t)
        \/ \E t \in Tasks : Crash(t)
      BY DEF vars, diskVars, costVars, Next, TaskStep, PublishReports
<1> QED
    BY <1>1, <1>2, <1>3, <1>4, <1>5, <1>6, <1>7, <1>8, <1>9, <1>10, <1>11, <1>12, <1>13,
       <1>14, <1>15, <1>16

-----------------------------------------------------------------------------
(* The inductive invariant.                                                 *)

\* IInv holds initially.
LEMMA Initially ==
    ASSUME PlanAssumption, NoneAssumption, IntervalAssumption, Init
    PROVE  IInv
<1>1. TypeOK
      BY DEF Init, TypeOK, ProcessType, SavedType, ResultType, CostType, MaybeState, Points,
             PlanAssumption
<1>2. Control
      BY DEF Init, Control, Released, Placed, Loaded, complete, Tasks
<1>3. Counts
      BY DEF Init, Counts, Counted
<1>4. Charges
      BY DEF Init, Charges, Charged, Measured
<1>5. ManifestHonest
      BY DEF Init, ManifestHonest
<1>6. BlocksSound
      BY DEF Init, BlocksSound
<1>7. Training
      BY DEF Init, Training, Sizes, Grown, LastKept, Kept, Loaded, Settled
<1>8. Decisions
      BY DEF Init, Decisions, Tasks
<1> QED
    BY <1>1, <1>2, <1>3, <1>4, <1>5, <1>6, <1>7, <1>8 DEF IInv

\* Every step preserves IInv.
LEMMA Preserved ==
    ASSUME PlanAssumption, NoneAssumption, IntervalAssumption, IInv, [Next]_vars
    PROVE  IInv'
<1>1. TypeOK /\ Control
      BY DEF IInv
<1>2. TypeOK'
      BY <1>1, Typing
<1>3. Control'
      BY <1>1, ControlKept
<1>4. Counts'
      BY <1>1, CountsKept DEF IInv
<1>5. Charges'
      BY <1>1, ChargesKept DEF IInv
<1>6. ManifestHonest'
      BY <1>1, ManifestKept DEF IInv
<1>7. BlocksSound'
      BY <1>1, BlocksKept DEF IInv
<1>8. Training'
      BY <1>1, SizesKept, GrownKept, LastKeptKept DEF IInv, Training
<1>9. Decisions'
      BY <1>1, DecisionsKept DEF IInv, Training
<1> QED
    BY <1>2, <1>3, <1>4, <1>5, <1>6, <1>7, <1>8, <1>9 DEF IInv

\* Types, control, runs, costs, blocks and trajectories are as stated in every
\* reachable state, whatever is killed: run_experiment.py and Engine.
THEOREM Invariance == Spec => []IInv
<1>1. Init => IInv
      BY Initially, PlanAssumption, NoneAssumption, IntervalAssumption
<1>2. IInv /\ [Next]_vars => IInv'
      BY Preserved, PlanAssumption, NoneAssumption, IntervalAssumption
<1> QED
    BY <1>1, <1>2, PTL DEF Spec

\* A result that reports complete costs was charged for every phase its runs
\* began, those of killed runs included (PhaseLedger.totals).
THEOREM MeasuredCostsAreAll == Spec => []MeasuredIsAll
<1>1. IInv => MeasuredIsAll
      <2> SUFFICES ASSUME IInv, NEW a \in Arms, endpoint[a] # None, endpoint[a].measured
                   PROVE  charged[a] = begun[a]
            BY DEF MeasuredIsAll
      <2>1. a \in Tasks /\ a # "prefix"
            BY PlanAssumption DEF Tasks, PlanAssumption
      <2>2. ~unfinished[a]
            BY DEF IInv, Charges, Measured
      <2>3. complete(a)
            BY <2>1 DEF complete
      <2>4. pc[a] \in {"off", "finalize"}
            BY <2>1, <2>3 DEF IInv, Control, Placed
      <2>5. begun[a] = charged[a] + 0
            BY <2>1, <2>2, <2>4 DEF IInv, Charges, Charged
      <2>6. charged[a] \in Nat
            BY <2>1 DEF IInv, TypeOK, CostType
      <2> QED
          BY <2>5, <2>6
<1> QED
    BY <1>1, Invariance, PTL

\* run.json says complete only when every arm has its result (finalize_seed).
THEOREM ManifestIsHonest == Spec => []ManifestHonest
<1>1. IInv => ManifestHonest
      BY DEF IInv
<1> QED
    BY <1>1, Invariance, PTL

\* On-policy updates train on the block of their own selection interval, after
\* any number of resumes (load_state_dict, update).
THEOREM BlocksAreCurrent == Spec => []BlockIsCurrent
<1>1. IInv => BlockIsCurrent
      <2> SUFFICES ASSUME IInv, NEW a \in Arms, NEW s \in states(a), NEW i \in 1..Len(s.history),
                          s.history[i].on
                   PROVE  s.history[i].block = BlockOf(s.history[i].step)
            BY DEF BlockIsCurrent, BlockOf
      <2>1. a \in Tasks
            BY DEF Tasks
      <2>2. \/ s = engine[a] /\ engine[a] # None
            \/ s = checkpoint[a] /\ checkpoint[a] # None
            \/ s = endpoint[a].state /\ endpoint[a] # None
            BY DEF states, complete
      <2>3. Blocks(s)
            BY <2>1, <2>2 DEF IInv, BlocksSound, Sound
      <2> QED
          BY <2>3 DEF Blocks
<1> QED
    BY <1>1, Invariance, PTL

\* The switch arm switches at the first of its own checks that triggers by the
\* documented rule, one check at every scheduled step, and trains on SR from there
\* on, after any number of resumes (TemporalRule, update, load_state_dict).
THEOREM SwitchesByRule == Spec => []SwitchByRule
<1>1. IInv => SwitchByRule
      <2> SUFFICES ASSUME IInv, "switch" \in Arms, NEW s \in states("switch")
                   PROVE  LET checks == checksOf(s)
                              ended  == IF s.switched_at = None THEN s.step - 1 ELSE s.switched_at
                          IN  /\ {c.step : c \in {c \in checks : Triggers(checks, c)}}
                                    = {s.switched_at} \ {None}
                              /\ {c.step : c \in checks} = {n \in P..ended : scheduled(n)}
                              /\ \A i \in 1..Len(s.history) :
                                    /\ s.history[i].step = P + i - 1
                                    /\ s.history[i].on <=>
                                          (s.switched_at = None \/ s.history[i].step < s.switched_at)
            BY DEF SwitchByRule
      <2>1. "switch" \in Tasks /\ "switch" # "prefix"
            BY DEF Tasks
      <2>2. \/ s = engine["switch"] /\ engine["switch"] # None
            \/ s = checkpoint["switch"] /\ checkpoint["switch"] # None
            \/ s = endpoint["switch"].state /\ endpoint["switch"] # None
            BY <2>1 DEF states, complete
      <2>3. Decided(s)
            BY <2>2 DEF IInv, Decisions
      <2>4. s \in States
            <3>1. \A r \in Results : r.state \in States
                  BY DEF Results
            <3> QED
                BY <2>1, <2>2, <3>1 DEF IInv, TypeOK, ProcessType, SavedType, ResultType, MaybeState
      <2>5. s.step \in Nat /\ s.switched_at \in Nat \cup {None} /\ P \in Nat
            BY <2>4, PlanAssumption DEF States, PlanAssumption
      <2> DEFINE checks == checksOf(s)
      <2>6. Numbers(checks)
            BY <2>3, <2>4, PlanAssumption, ChecksSound
      <2>7. /\ \A c \in checks : Triggers(checks, c) <=> c.step = s.switched_at
            /\ s.switched_at # None => s.switched_at \in P..(s.step - 1) /\ scheduled(s.switched_at)
            /\ s.switched_at # None =>
                  {c.step : c \in checks} = {n \in P..s.switched_at : scheduled(n)}
            BY <2>3 DEF Decided
      <2> HIDE DEF checks
      <2>8. {c.step : c \in {c \in checks : Triggers(checks, c)}} = {s.switched_at} \ {None}
            <3>1. CASE s.switched_at = None
                  <4>1. \A c \in checks : c.step # None
                        BY <2>6, IntervalAssumption DEF Numbers, IntervalAssumption
                  <4> QED
                      BY <2>7, <3>1, <4>1
            <3>2. CASE s.switched_at # None
                  <4>1. s.switched_at \in {n \in P..s.switched_at : scheduled(n)}
                        BY <2>5, <2>7, <3>2
                  <4>2. PICK c \in checks : c.step = s.switched_at
                        BY <2>7, <3>2, <4>1
                  <4> QED
                      BY <2>7, <3>2, <4>2
            <3> QED
                BY <3>1, <3>2
      <2> QED
          BY <2>3, <2>8 DEF Decided, checks
<1> QED
    BY <1>1, Invariance, PTL

-----------------------------------------------------------------------------
(* The training implements Trajectory.                                      *)

Saved  == [t \in Tasks |-> trajectory(checkpoint[t])]
Result == [a \in Arms |-> IF endpoint[a] = None THEN None ELSE endpoint[a].state.theta]

\* A state has a trajectory, and None has none.
LEMMA Trajectories ==
    ASSUME NoneAssumption, NEW s \in MaybeState
    PROVE  /\ s # None => trajectory(s) = s.theta /\ s.theta \in Seq(Nat) /\ s.theta # None
           /\ s = None => trajectory(s) = None
BY DEF NoneAssumption, MaybeState, States, trajectory

\* A sequence that begins with another one.
LEMMA Beginning ==
    ASSUME NEW a \in Seq(Nat), NEW b \in Seq(Nat), Len(a) <= Len(b),
           \A i \in 1..Len(a) : b[i] = a[i]
    PROVE  SubSeq(b, 1, Len(a)) = a
<1> DEFINE c == SubSeq(b, 1, Len(a))
<1>1. /\ c \in Seq(Nat) /\ Len(c) = Len(a)
      /\ \A i \in 1..Len(a) : c[i] = b[i]
      OBVIOUS
<1> HIDE DEF c
<1>2. \A i \in 1..Len(a) : c[i] = a[i]
      BY <1>1
<1>3. c = a
      BY <1>1, <1>2, SeqEqual
<1> QED
    BY <1>3 DEF c

\* Saving is a step of the abstraction.
LEMMA SaveAbstract ==
    ASSUME PlanAssumption, NoneAssumption, IntervalAssumption, IInv, NEW t \in Tasks, Save(t)
    PROVE  T!Next
<1>1. /\ pc[t] = "saving" /\ checkpoint' = [checkpoint EXCEPT ![t] = engine[t]]
      /\ UNCHANGED <<prefixReady, endpoint>>
      BY DEF Save, snapshot
<1>2. TypeOK /\ Control /\ Counts /\ Training
      BY DEF IInv
<1>3. engine[t] # None /\ engine[t] \in States
      BY <1>1, <1>2 DEF Control, Placed, Loaded, Points, Metered, TypeOK, ProcessType,
         MaybeState
<1> DEFINE b == engine[t].theta
           n == engine[t].step
<1>4. b \in Seq(Nat) /\ b # None /\ Len(b) = n /\ n \in Nat /\ n <= target(t)
      /\ (t # "prefix" => n >= P)
      BY <1>2, <1>3 DEF NoneAssumption, States, Training, Sizes, Sized
<1>5. Extends(t, engine[t])
      BY <1>1, <1>2 DEF Training, Grown, Loaded, Points, Metered
<1>6. base(t) \in Seq(Nat)
      BY <1>1, <1>2, BaseLength
<1>7. run[t] \in 1..(MaxCrashes + 1)
      <2>1. run[t] \in Nat /\ crashes \in Nat /\ MaxCrashes \in Nat /\ crashes <= MaxCrashes
            BY <1>2 DEF TypeOK, ProcessType, PlanAssumption
      <2>2. run[t] > 0 /\ run[t] <= crashes + 1
            BY <1>1, <1>2, <2>1 DEF Counts, Counted
      <2> QED
          BY <2>1, <2>2
<1>8. T!Base(t) = base(t)
      <2>1. checkpoint[t] \in MaybeState /\ prefixReady \in MaybeState
            BY <1>2 DEF TypeOK, SavedType
      <2>2. t # "prefix" => prefixReady # None
            BY <1>1, <1>2 DEF Control, Placed
      <2>3. Saved[t] = trajectory(checkpoint[t])
            BY DEF Saved
      <2>4. T!Base(t) = IF Saved[t] # None THEN Saved[t]
                        ELSE IF t = "prefix" THEN <<>> ELSE trajectory(prefixReady)
            BY DEF T!Base, Saved
      <2> QED
          BY <2>1, <2>2, <2>3, <2>4, Trajectories DEF base
<1>9. T!Continues(T!Base(t), b, n)
      <2> DEFINE a == base(t)
      <2>1. Len(a) <= Len(b) /\ \A i \in 1..Len(a) : b[i] = a[i]
            BY <1>5 DEF Extends
      <2>2. SubSeq(b, 1, Len(a)) = a
            <3> HIDE DEF a, b
            <3> QED
                BY <1>4, <1>6, <2>1, Beginning DEF a
      <2>3. \A i \in (Len(a) + 1)..n : b[i] = run[t]
            BY <1>4, <1>5 DEF Extends
      <2> HIDE DEF a, b, n
      <2>4. T!Continues(a, b, n)
            BY <1>4, <1>7, <2>1, <2>2, <2>3 DEF T!Continues
      <2> QED
          BY <1>8, <2>4 DEF a
<1>10. Saved' = [Saved EXCEPT ![t] = b] /\ Saved'[t] = b
      <2>1. checkpoint'[t] = engine[t] /\ \A u \in Tasks \ {t} : checkpoint'[u] = checkpoint[u]
            BY <1>1, <1>2 DEF TypeOK, SavedType
      <2>2. trajectory(engine[t]) = b
            BY <1>3 DEF trajectory
      <2>3. Saved'[t] = b
            BY <2>1, <2>2 DEF Saved, trajectory
      <2>4. \A u \in Tasks \ {t} : Saved'[u] = Saved[u]
            BY <2>1 DEF Saved, trajectory
      <2> HIDE DEF b
      <2> QED
          BY <2>3, <2>4 DEF Saved
<1>11. UNCHANGED <<trajectory(prefixReady), Result>>
      BY <1>1 DEF trajectory, Result
<1> HIDE DEF b, n
<1>12. T!Saves(t, n)
      <2>1. Saved' = [Saved EXCEPT ![t] = Saved'[t]] /\ Saved'[t] # None
            BY <1>4, <1>10
      <2>2. T!Continues(T!Base(t), Saved'[t], n)
            BY <1>9, <1>10
      <2> HIDE DEF b, n
      <2> QED
          BY <1>11, <2>1, <2>2 DEF T!Saves, Saved, Result
<1>13. CASE t = "prefix"
      <2>1. prefixReady = None
            BY <1>1, <1>2, <1>13 DEF Control, Placed, complete
      <2>2. n \in 0..P
            BY <1>4, <1>13 DEF target, PlanAssumption
      <2>3. T!Saves("prefix", n)
            BY <1>12, <1>13
      <2>4. trajectory(prefixReady) = None
            BY <2>1 DEF trajectory
      <2>5. T!SavePrefix
            BY <2>2, <2>3, <2>4 DEF T!SavePrefix
      <2> QED
          BY <2>5 DEF T!Next
<1>14. CASE t # "prefix"
      <2>1. t \in Arms /\ endpoint[t] = None /\ prefixReady # None
            BY <1>1, <1>2, <1>14 DEF Control, Placed, complete, Tasks
      <2>2. prefixReady \in MaybeState
            BY <1>2 DEF TypeOK, SavedType
      <2>3. trajectory(prefixReady) # None
            BY <2>1, <2>2, Trajectories
      <2>4. Result[t] = None
            BY <2>1 DEF Result
      <2>5. n \in P..Total
            BY <1>4, <1>14 DEF target, PlanAssumption
      <2>6. T!SaveArm(t)
            BY <1>12, <2>1, <2>3, <2>5 DEF T!SaveArm
      <2> QED
          BY <2>1, <2>6 DEF T!Next
<1> QED
    BY <1>13, <1>14

\* Releasing the prefix is a step of the abstraction.
LEMMA ReleaseAbstract ==
    ASSUME PlanAssumption, NoneAssumption, IntervalAssumption, IInv, NEW t \in Tasks, WriteReady(t)
    PROVE  T!Next
<1>1. /\ pc[t] = "ready" /\ prefixReady' = prefixPt /\ UNCHANGED <<checkpoint, endpoint>>
      BY DEF WriteReady
<1>2. t = "prefix" /\ prefixReady = None /\ prefixPt # None
      BY <1>1 DEF IInv, Control, Placed, complete
<1>3. prefixPt = checkpoint["prefix"]
      BY <1>1, <1>2 DEF IInv, Training, LastKept, Kept
<1>4. prefixPt \in MaybeState /\ Len(prefixPt.theta) = P
      BY <1>2 DEF IInv, TypeOK, SavedType, Training, Sizes
<1>5. trajectory(prefixPt) = prefixPt.theta /\ prefixPt.theta # None
      BY <1>2, <1>4, Trajectories
<1>6. Saved["prefix"] = prefixPt.theta
      BY <1>3, <1>5 DEF Saved, Tasks
<1>7. trajectory(prefixReady) = None /\ trajectory(prefixReady)' = Saved["prefix"]
      BY <1>1, <1>2, <1>5, <1>6 DEF trajectory
<1>8. UNCHANGED <<Saved, Result>>
      BY <1>1 DEF Saved, Result, trajectory
<1>9. T!Release
      <2>1. /\ trajectory(prefixReady) = None /\ Saved["prefix"] # None /\ Len(Saved["prefix"]) = P
            /\ trajectory(prefixReady)' = Saved["prefix"]
            BY <1>4, <1>5, <1>6, <1>7
      <2> QED
          BY <1>8, <2>1 DEF T!Release, Saved, Result
<1> QED
    BY <1>9 DEF T!Next

\* Publishing a result is a step of the abstraction.
LEMMA PublishAbstract ==
    ASSUME PlanAssumption, NoneAssumption, IntervalAssumption, IInv, NEW t \in Tasks, WriteEndpoint(t)
    PROVE  T!Next
<1>1. pc[t] = "endpoint" /\ UNCHANGED <<checkpoint, prefixReady>>
      BY DEF WriteEndpoint
<1>2. TypeOK /\ Control /\ Training
      BY DEF IInv
<1>3. /\ t \in Arms /\ endpoint[t] = None /\ engine[t] \in States
      /\ endpoint'[t].state = engine[t] /\ endpoint'[t] # None
      /\ \A a \in Arms \ {t} : endpoint'[a] = endpoint[a]
      BY <1>2, Writes
<1>4. engine[t].step = Total
      BY <1>1, <1>3 DEF IInv, Training, LastKept, Kept, target, PlanAssumption
<1>5. checkpoint[t] = engine[t]
      <2>1. pc[t] \in Settled /\ engine[t].step = target(t)
            BY <1>1, <1>3, <1>4 DEF Settled, Loaded, Points, Metered, target, PlanAssumption
      <2> QED
          BY <1>2, <2>1 DEF Training, LastKept, Kept
<1> DEFINE b == engine[t].theta
<1>6. engine[t] # None /\ engine[t] \in MaybeState
      BY <1>3 DEF NoneAssumption, MaybeState
<1>7. Len(b) = Total
      BY <1>2, <1>4, <1>6 DEF Training, Sizes, Sized
<1>8. Saved[t] = b /\ b # None
      BY <1>5, <1>6, Trajectories DEF Saved
<1>9. Result[t] = None /\ Result'[t] = b
      BY <1>3 DEF Result
<1>10. \A a \in Arms \ {t} : Result'[a] = Result[a]
      BY <1>3 DEF Result
<1>11. Result' = [Result EXCEPT ![t] = Saved[t]]
      <2> HIDE DEF b
      <2> QED
          BY <1>3, <1>8, <1>9, <1>10 DEF Result
<1>12. UNCHANGED <<Saved, trajectory(prefixReady)>>
      BY <1>1 DEF Saved, trajectory
<1> HIDE DEF b
<1>13. T!Publish(t)
      <2>1. Result[t] = None /\ Saved[t] # None /\ Len(Saved[t]) = Total
            BY <1>7, <1>8, <1>9
      <2> QED
          BY <1>11, <1>12, <2>1 DEF T!Publish, Saved, Result
<1> QED
    BY <1>3, <1>13 DEF T!Next

\* Whatever is killed and redone, saved trajectories only grow, the arms extend
\* one released prefix, and results are complete (run_experiment.main).
THEOREM Refinement == Spec => ImplementsTrajectory
<1>1. Init => T!Init
      <2> SUFFICES ASSUME Init PROVE T!Init
          OBVIOUS
      <2>1. Saved = [t \in Arms \cup {"prefix"} |-> None]
            BY DEF Init, Saved, trajectory, Tasks
      <2>2. trajectory(prefixReady) = None
            BY DEF Init, trajectory
      <2>3. Result = [a \in Arms |-> None]
            BY DEF Init, Result
      <2> QED
          BY <2>1, <2>2, <2>3 DEF T!Init, Saved, Result
<1>2. IInv /\ [Next]_vars => [T!Next]_(T!vars)
      <2> SUFFICES ASSUME IInv, [Next]_vars PROVE [T!Next]_(T!vars)
          OBVIOUS
      <2>1. CASE \E t \in Tasks : Save(t) \/ WriteReady(t) \/ WriteEndpoint(t)
            BY <2>1, SaveAbstract, ReleaseAbstract, PublishAbstract, PlanAssumption,
               NoneAssumption, IntervalAssumption
      <2>2. CASE ~ \E t \in Tasks : Save(t) \/ WriteReady(t) \/ WriteEndpoint(t)
            <3>1. UNCHANGED <<checkpoint, prefixReady, endpoint>>
                  BY <2>2 DEF vars, diskVars, Next, TaskStep, Start, Restore, Begin, Update,
                     EndSave, WriteProgress, WritePrefix, Evaluate, EndEvaluate, Finalize,
                     Crash, PublishReports
            <3> QED
                BY <3>1 DEF T!vars, trajectory
      <2> QED
          BY <2>1, <2>2
<1> QED
    BY <1>1, <1>2, Invariance, PTL DEF Spec, ImplementsTrajectory, T!Spec
=============================================================================
