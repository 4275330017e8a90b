------------------------------ MODULE WriteOnce ------------------------------
(***************************************************************************)
(* What the cache handoff promises: a bundle is written once, and only     *)
(* then released to the workers, each of which keeps it for good.          *)
(***************************************************************************)
CONSTANTS
    Readers,  \* the workers that wait for the bundle
    Values,   \* the bundles that can be written
    None      \* no bundle yet

VARIABLES
    value,    \* the bundle, or None
    released  \* the readers that have it

vars == <<value, released>>

Init == value = None /\ released = {}

Write(v) == value = None /\ value' = v /\ UNCHANGED released

Release(r) == value # None /\ released' = released \cup {r} /\ UNCHANGED value

Next == (\E v \in Values : Write(v)) \/ (\E r \in Readers : Release(r))

Spec == Init /\ [][Next]_vars
=============================================================================
