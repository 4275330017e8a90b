------------------------------- MODULE StudyDag -------------------------------
(***************************************************************************)
(* What the task queue promises: every task of the study is published at   *)
(* most once, after the task it depends on, and stays published.           *)
(***************************************************************************)
CONSTANTS
    Tasks,       \* the tasks of the study
    Dependency,  \* task -> the task it needs first, or None
    None

VARIABLE published  \* the tasks whose result is final

Init == published = {}

Publish(t) ==
    /\ t \notin published
    /\ Dependency[t] # None => Dependency[t] \in published
    /\ published' = published \cup {t}

Next == \E t \in Tasks : Publish(t)

Spec == Init /\ [][Next]_published
=============================================================================
