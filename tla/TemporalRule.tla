----------------------------- MODULE TemporalRule -----------------------------
(***************************************************************************)
(* The switch rule fed with checks at scheduled steps, some of which may   *)
(* be missing.                                                             *)
(***************************************************************************)
EXTENDS SwitchRule

CONSTANTS
    Steps,   \* the steps a check may be made at
    Values   \* the values D may take

ASSUME ChecksAssumption == Steps \subseteq Nat /\ Values \subseteq Int

VARIABLES
    automaton,  \* the TemporalRule
    observed    \* the checks observed so far

ruleVars == <<automaton, observed>>

Checks == [step : Nat, d : Int]

RuleTypeOK ==
    /\ automaton \in [last : Nat \cup {None}, window : Seq(Int), switched : BOOLEAN]
    /\ observed \subseteq Checks

RuleInit == automaton = NewRule /\ observed = {}

Check(step, d) ==
    /\ observable(automaton, step)
    /\ automaton' = observe(automaton, step, d)
    /\ observed' = observed \cup {[step |-> step, d |-> d]}

RuleNext == \E step \in Steps, d \in Values : Check(step, d)

RuleSpec == RuleInit /\ [][RuleNext]_ruleVars

-----------------------------------------------------------------------------
\* The rule remembers its last check, and the window that check leaves.
Remembers(rule, checks) ==
    \/ rule.last = None /\ rule.window = <<>> /\ checks = {}
    \/ \E c \in checks :
         /\ rule.last = c.step
         /\ \A b \in checks : b.step <= c.step
         /\ rule.window \in
                IF c.d < 0 THEN {<<c.d>>}
                ELSE IF \E b \in Earlier(checks, c, 1) : b.d < 0
                THEN {<<b.d, c.d>> : b \in Earlier(checks, c, 1)}
                ELSE {<<>>}

\* One check at a step, and the steps are multiples of the interval.
Apart(checks) ==
    \A c \in checks : c.step % Interval = 0 /\ \A b \in checks : b.step = c.step => b = c

\* The inductive invariant: until the rule switches no check triggers and its
\* memory is what the last check leaves; then the last check alone triggers.
RuleInv ==
    /\ RuleTypeOK
    /\ Apart(observed)
    /\ ~automaton.switched =>
          Remembers(automaton, observed) /\ \A c \in observed : ~Triggers(observed, c)
    /\ automaton.switched =>
          \E c \in observed : /\ Triggers(observed, c)
                              /\ \A b \in observed : /\ b.step <= c.step
                                                     /\ Triggers(observed, b) => b = c

\* README.md, "Two consecutive negative checks trigger switching" and the lines
\* after it: the automaton switches at the first check that triggers by the
\* documented rule, whatever the checks before it and however many are missing.
SwitchesAsDocumented ==
    /\ automaton.switched <=> \E c \in observed : Triggers(observed, c)
    /\ \A c \in observed : Triggers(observed, c) => \A b \in observed : b.step <= c.step
=============================================================================
