----------------------------- MODULE RunnersPage -----------------------------
(***************************************************************************)
(* The store of Cockpit's Runners page (cockpit/src/runners/store.ts): one *)
(* operation at a time, each a call of soda-runners and the list read      *)
(* after it, and a page that may be closed and opened while they wait.     *)
(***************************************************************************)
EXTENDS Naturals

CONSTANTS Ids,            \* runners
          MaxGenerations, \* bound on opening and closing the page
          None            \* a model value

VARIABLES active, generation,
          operation, \* [action, id], or None
          data,      \* the runners on screen and when they were read, or None
          dialog,    \* "create", [remove |-> id], or "none"
          formError, \* the dialog shows why the last attempt failed
          awaits     \* generation -> what its function awaits

vars == <<active, generation, operation, data, dialog, formError, awaits>>

Generations == 0 .. MaxGenerations
Actions == {"start", "stop", "restart", "remove"}
Operations == [action : Actions \cup {"create", "list"}, id : Ids \cup {None}]
Dialogs == [kind : {"none", "create"}, id : {None}] \cup [kind : {"remove"}, id : Ids]
NoDialog == [kind |-> "none", id |-> None]
Listings == [age : {"fresh", "stale"}, ids : SUBSET Ids]

Init ==
    /\ active = FALSE /\ generation = 0
    /\ operation = None /\ data = None /\ dialog = NoDialog /\ formError = FALSE
    /\ awaits = [g \in Generations |-> "nothing"]

MayAct == active /\ operation = None
Awaits(c) == awaits' = [awaits EXCEPT ![generation] = c]
Begins(action, id) == operation' = [action |-> action, id |-> id]

Start ==
    /\ ~active /\ generation < MaxGenerations
    /\ active' = TRUE /\ generation' = generation + 1
    /\ Begins("list", None) /\ data' = None /\ dialog' = NoDialog /\ formError' = FALSE
    /\ awaits' = [awaits EXCEPT ![generation + 1] = "list"]

Stop ==
    /\ active /\ generation < MaxGenerations
    /\ active' = FALSE /\ generation' = generation + 1
    /\ UNCHANGED <<operation, data, dialog, formError, awaits>>

\* A function whose generation is over does nothing with its answer.
Retire(g) ==
    /\ awaits[g] # "nothing" /\ ~(active /\ g = generation)
    /\ awaits' = [awaits EXCEPT ![g] = "nothing"]
    /\ UNCHANGED <<active, generation, operation, data, dialog, formError>>

-----------------------------------------------------------------------------
Refresh ==
    /\ MayAct /\ Begins("list", None) /\ Awaits("list")
    /\ UNCHANGED <<active, generation, data, dialog, formError>>

Open ==
    /\ MayAct
    /\ dialog' \in Dialogs \ {NoDialog} /\ formError' = FALSE
    /\ UNCHANGED <<active, generation, operation, data, awaits>>

Close ==
    /\ operation = None /\ dialog' = NoDialog
    /\ UNCHANGED <<active, generation, operation, data, formError, awaits>>

Register(id) ==
    /\ MayAct /\ dialog.kind = "create"
    /\ Begins("create", id) /\ Awaits("command") /\ formError' = FALSE
    /\ UNCHANGED <<active, generation, data, dialog>>

ChangeListener(action, id) ==
    /\ MayAct /\ action # "remove" /\ data # None /\ id \in data.ids
    /\ Begins(action, id) /\ Awaits("command") /\ formError' = FALSE
    /\ UNCHANGED <<active, generation, data, dialog>>

\* The name typed is the dialog's, or the dialog says that it is not.
Remove ==
    /\ MayAct /\ dialog.kind = "remove"
    /\ \/ formError' = TRUE /\ UNCHANGED <<operation, awaits>>
       \/ Begins("remove", dialog.id) /\ Awaits("command") /\ formError' = FALSE
    /\ UNCHANGED <<active, generation, data, dialog>>

-----------------------------------------------------------------------------
Answered(calls) == active /\ awaits[generation] \in calls

\* load is asked for whatever a command answers (mutation: unless it failed).
CommandAnswers_ReadsIfDone ==
    /\ Answered({"command"})
    /\ data' = IF data = None THEN None ELSE [data EXCEPT !.age = "stale"]
    /\ \/ /\ Awaits("listAfter")
          /\ dialog' = IF operation.action \in {"create", "remove"} THEN NoDialog ELSE dialog
          /\ UNCHANGED <<operation, formError>>
       \/ /\ Awaits("nothing") /\ operation' = None /\ formError' = TRUE
          /\ UNCHANGED dialog
    /\ UNCHANGED <<active, generation>>

CommandAnswers ==
    /\ Answered({"command"})
    /\ data' = IF data = None THEN None ELSE [data EXCEPT !.age = "stale"]
    /\ \/ /\ Awaits("listAfter")
          /\ dialog' = IF operation.action \in {"create", "remove"} THEN NoDialog ELSE dialog
       \/ Awaits("listAfterFailure") /\ UNCHANGED dialog
    /\ UNCHANGED <<active, generation, operation, formError>>

\* A registration that failed and is listed all the same needs no dialog to be
\* tried again in.
ListAnswers ==
    /\ Answered({"list", "listAfter", "listAfterFailure"})
    /\ data' \in [age : {"fresh"}, ids : SUBSET Ids] \cup {None}
    /\ dialog' = IF /\ awaits[generation] = "listAfterFailure"
                    /\ operation.action = "create"
                    /\ data' # None /\ operation.id \in data'.ids
                 THEN NoDialog ELSE dialog
    /\ formError' = (formError \/ awaits[generation] = "listAfterFailure")
    /\ operation' = None /\ Awaits("nothing")
    /\ UNCHANGED <<active, generation>>

-----------------------------------------------------------------------------
Answer == CommandAnswers \/ ListAnswers

Person == Refresh \/ Open \/ Close \/ Remove
          \/ \E id \in Ids : \/ Register(id)
                             \/ \E action \in Actions : ChangeListener(action, id)

Next == Start \/ Stop \/ Person \/ Answer \/ \E g \in Generations : Retire(g)

\* Every call ends.
Fairness == WF_vars(Answer) /\ \A g \in Generations : WF_vars(Retire(g))

Spec == Init /\ [][Next]_vars /\ Fairness

-----------------------------------------------------------------------------
(* Properties                                                              *)

TypeOK ==
    /\ active \in BOOLEAN /\ generation \in Generations
    /\ operation \in Operations \cup {None}
    /\ data \in Listings \cup {None} /\ dialog \in Dialogs /\ formError \in BOOLEAN
    /\ awaits \in [Generations -> {"nothing", "list", "command", "listAfter",
                                   "listAfterFailure"}]
    /\ active => (operation = None <=> awaits[generation] = "nothing")

\* What a registration or a removal did is never left to what the page knew
\* before it: the promise of PageStore.
Promise == INSTANCE PageStore WITH
    open <- active, busy <- operation # None,
    shown <- IF data = None THEN "nothing" ELSE data.age
KeepsPromise == Promise!Spec
=============================================================================
