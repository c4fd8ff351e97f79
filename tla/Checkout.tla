------------------------------ MODULE Checkout ------------------------------
(***************************************************************************)
(* What publication promises for one workspace: its checkout appears in    *)
(* one step, complete, never changes again by setup, and success is        *)
(* reported only for a checkout that is there.                             *)
(***************************************************************************)
CONSTANT Sessions
VARIABLES checkout, \* "absent" or "complete"
          reported  \* sessions that currently report success

vars == <<checkout, reported>>

Init == checkout \in {"absent", "complete"} /\ reported = {}

Appear == checkout = "absent" /\ checkout' = "complete" /\ UNCHANGED reported

Report(s) == /\ checkout = "complete"
             /\ reported' = reported \cup {s} /\ UNCHANGED checkout

\* Sessions end, one at a time or all at once when the machine restarts.
End == reported' \subseteq reported /\ UNCHANGED checkout

Next == Appear \/ End \/ \E s \in Sessions : Report(s)

Spec == Init /\ [][Next]_vars
=============================================================================
