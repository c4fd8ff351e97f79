--------------------------- MODULE AtomicCatalog ----------------------------
(***************************************************************************)
(* What the project catalog promises its users: one change at a time       *)
(* applied to the current entries, success reported only for a change that *)
(* a power loss cannot undo, and never a half-written catalog.             *)
(***************************************************************************)
CONSTANTS Writers, IDs, Values, None
VARIABLES entries,  \* what every reader sees
          stable,   \* what a reader sees after a power loss
          applied,  \* writers whose change is applied and that still run
          reported  \* writers that currently report success

vars == <<entries, stable, applied, reported>>

Catalogs == [IDs -> Values \cup {None}]

Init == entries \in Catalogs /\ stable = entries /\ applied = {} /\ reported = {}

\* An entry is added, edited or removed; an edit may change nothing.
Apply(w) ==
    /\ w \notin applied /\ applied' = applied \cup {w}
    /\ \E j \in IDs :
        /\ entries[j] # None \/ entries'[j] # None
        /\ entries'[j] \in Values \cup {None}
        /\ entries' = [entries EXCEPT ![j] = entries'[j]]
    /\ UNCHANGED <<stable, reported>>

\* Success is reported together with the promise that it is stable.
Report(w) ==
    /\ w \in applied /\ w \notin reported
    /\ reported' = reported \cup {w}
    /\ stable' = entries
    /\ UNCHANGED <<entries, applied>>

End(w) == /\ w \in applied
          /\ applied' = applied \ {w} /\ reported' = reported \ {w}
          /\ UNCHANGED <<entries, stable>>

\* Everything stops; the entries may fall back to the stable ones.
PowerLoss ==
    /\ applied' = {} /\ reported' = {}
    /\ entries' \in {entries, stable} /\ stable' = entries'

Next == PowerLoss \/ \E w \in Writers : Apply(w) \/ Report(w) \/ End(w)

Spec == Init /\ [][Next]_vars
=============================================================================
