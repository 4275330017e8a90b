------------------------------ MODULE Trajectory ------------------------------
(***************************************************************************)
(* What a seed's training promises, whatever is killed and restarted: the  *)
(* saved updates of the prefix and of every arm only ever grow, all arms   *)
(* continue the one released prefix, and a result is a complete saved      *)
(* trajectory.  A trajectory is the sequence of the updates that led to a  *)
(* model, each named by the run that made it.                              *)
(***************************************************************************)
EXTENDS Naturals, Sequences

CONSTANTS
    Arms,   \* the arms that continue the prefix
    P,      \* updates of the prefix
    Total,  \* updates of an arm, the prefix included
    Runs,   \* the runs an update can be made by
    None    \* nothing saved, released or published yet

VARIABLES
    saved,     \* "prefix" or arm -> the trajectory last saved, or None
    released,  \* the trajectory of the shared prefix, or None
    result     \* arm -> the trajectory of its published result, or None

vars == <<saved, released, result>>

Init ==
    /\ saved = [t \in Arms \cup {"prefix"} |-> None]
    /\ released = None
    /\ result = [a \in Arms |-> None]

\* b is a followed by updates of one run, n in all.
Continues(a, b, n) ==
    /\ Len(b) = n /\ n >= Len(a)
    /\ SubSeq(b, 1, Len(a)) = a
    /\ \E r \in Runs : \A i \in (Len(a) + 1)..n : b[i] = r

\* Where a run of t takes up the training.
Base(t) ==
    IF saved[t] # None THEN saved[t] ELSE IF t = "prefix" THEN <<>> ELSE released

\* Task t saves a trajectory of n updates.
Saves(t, n) ==
    /\ saved'[t] # None /\ Continues(Base(t), saved'[t], n)
    /\ saved' = [saved EXCEPT ![t] = saved'[t]]
    /\ UNCHANGED <<released, result>>

SavePrefix == released = None /\ \E n \in 0..P : Saves("prefix", n)

Release ==
    /\ released = None /\ saved["prefix"] # None /\ Len(saved["prefix"]) = P
    /\ released' = saved["prefix"]
    /\ UNCHANGED <<saved, result>>

SaveArm(a) == released # None /\ result[a] = None /\ \E n \in P..Total : Saves(a, n)

Publish(a) ==
    /\ result[a] = None /\ saved[a] # None /\ Len(saved[a]) = Total
    /\ result' = [result EXCEPT ![a] = saved[a]]
    /\ UNCHANGED <<saved, released>>

Next ==
    \/ SavePrefix \/ Release
    \/ \E a \in Arms : SaveArm(a) \/ Publish(a)

Spec == Init /\ [][Next]_vars
=============================================================================
