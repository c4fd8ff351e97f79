------------------------------ MODULE PageStore ------------------------------
(***************************************************************************)
(* What the store of a Cockpit page promises the person who looks at it.   *)
(* One operation runs at a time; only a running operation changes what the *)
(* page shows of the host, whatever calls of an earlier opening of the     *)
(* page are answered late; and it does not end with something on the       *)
(* screen that was read before the answer to the page's last command.      *)
(***************************************************************************)
VARIABLES open,  \* the page is open
          busy,  \* an operation runs
          shown  \* what is on the screen: "nothing", "fresh" or "stale"

vars == <<open, busy, shown>>

Init == open = FALSE /\ busy = FALSE /\ shown = "nothing"

\* Opening begins with a read.
Open == ~open /\ open' = TRUE /\ busy' = TRUE /\ shown' = "nothing"

Shut == open /\ open' = FALSE /\ UNCHANGED <<busy, shown>>

Begin == /\ open /\ ~busy
         /\ busy' = TRUE /\ shown' \in {shown, "nothing"} /\ UNCHANGED open

\* A dialog is closed with what it shows.
Dismiss == ~busy /\ shown' = "nothing" /\ UNCHANGED <<open, busy>>

Work == open /\ busy /\ shown' \in {"nothing", "fresh", "stale"} /\ UNCHANGED <<open, busy>>

End == open /\ busy /\ busy' = FALSE /\ shown' # "stale" /\ UNCHANGED open

Next == Open \/ Shut \/ Begin \/ Dismiss \/ Work \/ End

Spec == Init /\ [][Next]_vars
=============================================================================
