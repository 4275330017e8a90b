------------------------------ MODULE SwitchRule ------------------------------
(***************************************************************************)
(* The temporal rule of the online switch (TemporalRule in srgc.py), as    *)
(* operators on its state, and what the README says it decides.  The       *)
(* contrast D is an integer: the rule reads only the sign of D and of a    *)
(* sum of three, and math.fsum rounds that sum without changing its sign.  *)
(***************************************************************************)
EXTENDS Integers, Sequences

CONSTANTS
    Interval,  \* updates between two scheduled checks
    None       \* no check so far

ASSUME IntervalAssumption == Interval \in Nat \ {0} /\ None \notin Int

NewRule == [last |-> None, window |-> <<>>, switched |-> FALSE]

\* The checks observe() raises on.
observable(rule, step) ==
    /\ ~rule.switched
    /\ step >= 0 /\ step % Interval = 0
    /\ rule.last # None => step > rule.last

\* Missing checks cannot confirm a transition.
window(rule, step) ==
    IF rule.last # None /\ step # rule.last + Interval THEN <<>> ELSE rule.window

\* Mutant: equality switches too.
confirmsEqual(w, d) ==
    \/ Len(w) = 1 /\ d < 0
    \/ Len(w) = 2 /\ d < 0 /\ w[1] + w[2] + d <= 0

\* Two negative checks, or negative, nonnegative, negative with a negative sum.
confirms(w, d) ==
    \/ Len(w) = 1 /\ d < 0
    \/ Len(w) = 2 /\ d < 0 /\ w[1] + w[2] + d < 0

\* An unconfirmed window keeps the latest negative check and at most one
\* nonnegative one after it.
extend(w, d) ==
    IF d < 0 THEN <<d>> ELSE IF Len(w) = 1 THEN <<w[1], d>> ELSE <<>>

observe(rule, step, d) ==
    LET w == window(rule, step)
    IN  [last     |-> step,
         window   |-> IF confirms(w, d) THEN w ELSE extend(w, d),
         switched |-> confirms(w, d)]

-----------------------------------------------------------------------------
(* The documented rule.  Checks are a set of records with a step and a d.   *)

\* The check n check intervals before c, if it was made.
Earlier(checks, c, n) == {b \in checks : b.step = c.step - n * Interval}

TwoNegative(checks, c) == c.d < 0 /\ \E b \in Earlier(checks, c, 1) : b.d < 0

NegativeMean(checks, c) ==
    /\ c.d < 0
    /\ \E a \in Earlier(checks, c, 2), b \in Earlier(checks, c, 1) :
          a.d < 0 /\ b.d >= 0 /\ a.d + b.d + c.d < 0

Triggers(checks, c) == TwoNegative(checks, c) \/ NegativeMean(checks, c)
=============================================================================
