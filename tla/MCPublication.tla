---------------------------- MODULE MCPublication ----------------------------
(* Instances of Publication for TLC.                                       *)
EXTENDS Publication

CONSTANTS i1, i2

\* Directories are interchangeable, so what the two names refer to at first
\* may be chosen once and for all.
MCInit == Init /\ tmp \in {i1, None} /\ final \in {i2, None}

MCSpec == MCInit /\ [][Next]_vars
MCFairSpec == MCSpec /\ Fairness
=============================================================================
