----------------------------- MODULE ProjectsPage -----------------------------
(***************************************************************************)
(* The store of Cockpit's Projects page (cockpit/src/projects/store.ts     *)
(* with the decisions of ui.ts).  Every operation is an asynchronous       *)
(* function that awaits calls of soda-projects; the page may be closed and *)
(* opened again while it waits, which begins a new generation and leaves   *)
(* the old function to find out that it is retired.                        *)
(*                                                                         *)
(* What a call answers matters only as far as the page depends on it, and  *)
(* when it was read: it is "fresh" until the answer to the page's next     *)
(* command, and "stale" from then on.                                      *)
(***************************************************************************)
EXTENDS Naturals

CONSTANTS Projects, \* projects of the catalog, and the targets of removals
          MaxGenerations, \* bound on opening and closing the page
          None       \* a model value

VARIABLES active, generation,
          operation,   \* the token: what the page is doing, or None
          task,        \* the open dialog
          data,        \* the list of projects on screen, or None
          inspections, \* project -> the inspection on screen, or None
          awaits,      \* generation -> the call its function awaits, or "nothing"
          looked       \* history: the name was typed with this preview on screen

vars == <<active, generation, operation, task, data, inspections, awaits, looked>>

Generations == 0 .. MaxGenerations
Calls == {"list", "catalog", "catalogList", "catalogFailedList",
          "inspect", "inspectFirst", "setup", "setupList", "inspectAfter",
          "preview", "remove", "removeList", "removeListIncomplete"}

NoTask == [kind |-> "none"]
CatalogTask == [kind |-> "catalog"]
WorkspaceTask(j) == [kind |-> "workspace", project |-> j, setupError |-> FALSE,
                     completed |-> FALSE]
RemovalTask(t) == [kind |-> "removal", target |-> t, typed |-> FALSE,
                   reviewing |-> FALSE, preview |-> None, receipt |-> None,
                   unknown |-> FALSE]

\* A preview either can be confirmed or shows why not (nothing left to remove,
\* an orphaned account, another identity than the one whose deletion failed).
Previews == [age : {"fresh", "stale"}, removable : BOOLEAN]
Inspections == [age : {"fresh", "stale"}, is : {"ready", "settable", "blocked"}]
RemovalTasks == [kind : {"removal"}, target : Projects \cup {None}, typed : BOOLEAN,
                 reviewing : BOOLEAN, preview : Previews \cup {None},
                 receipt : {None, "ok", "incomplete"}, unknown : BOOLEAN]

NoInspections == [j \in Projects |-> None]

Init ==
    /\ active = FALSE /\ generation = 0
    /\ operation = None /\ task = NoTask /\ data = None /\ inspections = NoInspections
    /\ awaits = [g \in Generations |-> "nothing"]
    /\ looked = FALSE

MayAct == active /\ operation = None

\* The function of the current generation awaits a call made now, or ends.
Awaits(c) == awaits' = [awaits EXCEPT ![generation] = c]
Done == Awaits("nothing") /\ operation' = None

\* loadCatalog, with which every command ends: the inspections on screen go at
\* once.
LoadCatalog(c) == Awaits(c) /\ inspections' = NoInspections

-----------------------------------------------------------------------------
(* Opening and closing the page                                            *)

\* The page's effect starts the store, and stops it before it starts it again.
Start ==
    /\ ~active /\ generation < MaxGenerations
    /\ active' = TRUE /\ generation' = generation + 1
    /\ operation' = "list" /\ task' = NoTask /\ data' = None /\ inspections' = NoInspections
    /\ awaits' = [awaits EXCEPT ![generation + 1] = "list"]
    /\ looked' = FALSE

Stop ==
    /\ active /\ generation < MaxGenerations
    /\ active' = FALSE /\ generation' = generation + 1
    /\ UNCHANGED <<operation, task, data, inspections, awaits, looked>>

\* A function whose generation is over does nothing with its answer.
Retire(g) ==
    /\ awaits[g] # "nothing" /\ ~(active /\ g = generation)
    /\ awaits' = [awaits EXCEPT ![g] = "nothing"]
    /\ UNCHANGED <<active, generation, operation, task, data, inspections, looked>>

-----------------------------------------------------------------------------
(* What a person does                                                      *)

Refresh ==
    /\ MayAct /\ operation' = "list" /\ LoadCatalog("list")
    /\ UNCHANGED <<active, generation, task, data, looked>>

\* Dialogs are modal.
OpenCatalog ==
    /\ MayAct /\ task = NoTask /\ task' = CatalogTask
    /\ UNCHANGED <<active, generation, operation, data, inspections, awaits, looked>>

\* readWorkspace: only this project's inspection goes.
ReadWorkspace(j, c) ==
    Awaits(c) /\ inspections' = [inspections EXCEPT ![j] = None]

OpenWorkspace(j) ==
    /\ MayAct /\ task = NoTask /\ task' = WorkspaceTask(j) /\ operation' = "inspect"
    /\ \E c \in {"inspect", "inspectFirst"} : ReadWorkspace(j, c)
    /\ UNCHANGED <<active, generation, data, looked>>

RunWorkspace ==
    /\ MayAct /\ task.kind = "workspace" /\ operation' = "inspect"
    /\ \E c \in {"inspect", "inspectFirst"} : ReadWorkspace(task.project, c)
    /\ UNCHANGED <<active, generation, task, data, looked>>

OpenRemoval ==
    /\ MayAct /\ task = NoTask
    /\ \/ task' = RemovalTask(None) /\ UNCHANGED <<operation, awaits>>
       \/ \E t \in Projects :
            /\ task' = [RemovalTask(t) EXCEPT !.reviewing = TRUE]
            /\ operation' = "inspect" /\ Awaits("preview")
    /\ looked' = FALSE
    /\ UNCHANGED <<active, generation, data, inspections>>

\* Not while an operation runs.
Close ==
    /\ operation = None /\ task' = NoTask
    /\ UNCHANGED <<active, generation, operation, data, inspections, awaits, looked>>

SubmitCatalog ==
    /\ MayAct /\ task.kind = "catalog"
    /\ operation' = "catalog" /\ Awaits("catalog")
    /\ UNCHANGED <<active, generation, task, data, inspections, looked>>

ChangeRemovalTarget(t) ==
    /\ MayAct /\ task.kind = "removal" /\ task.receipt = None /\ ~task.unknown
    /\ task' = [task EXCEPT !.target = t, !.preview = None, !.typed = FALSE]
    /\ looked' = FALSE
    /\ UNCHANGED <<active, generation, operation, data, inspections, awaits>>

\* The target's name is typed; whoever types another one confirms nothing.
ChangeConfirmation ==
    /\ MayAct /\ task.kind = "removal" /\ task.target # None
    /\ task' = [task EXCEPT !.typed = TRUE]
    /\ looked' = (task.preview # None)
    /\ UNCHANGED <<active, generation, operation, data, inspections, awaits>>

\* (mutations: what was typed stays; what is known of the last attempt goes)
CheckRemoval_KeepsTyped ==
    /\ MayAct /\ task.kind = "removal" /\ task.target # None /\ task.receipt # "ok"
    /\ operation' = "inspect" /\ Awaits("preview")
    /\ task' = [task EXCEPT !.reviewing = TRUE, !.preview = None]
    /\ looked' = FALSE
    /\ UNCHANGED <<active, generation, data, inspections>>

CheckRemoval_Forgets ==
    /\ MayAct /\ task.kind = "removal" /\ task.target # None /\ task.receipt # "ok"
    /\ operation' = "inspect" /\ Awaits("preview")
    /\ task' = [task EXCEPT !.reviewing = TRUE, !.preview = None, !.typed = FALSE,
                            !.receipt = None, !.unknown = FALSE]
    /\ looked' = FALSE
    /\ UNCHANGED <<active, generation, data, inspections>>

CheckRemoval ==
    /\ MayAct /\ task.kind = "removal" /\ task.target # None /\ task.receipt # "ok"
    /\ operation' = "inspect" /\ Awaits("preview")
    /\ task' = [task EXCEPT !.reviewing = TRUE, !.preview = None, !.typed = FALSE]
    /\ looked' = FALSE
    /\ UNCHANGED <<active, generation, data, inspections>>

\* removalReview: the selection is shown, can be confirmed and is confirmed.
CanConfirm ==
    /\ task.preview # None /\ task.preview.removable /\ task.receipt # "ok"
    /\ task.reviewing \/ (task.receipt = None /\ ~task.unknown)

Remove ==
    /\ MayAct /\ task.kind = "removal" /\ CanConfirm /\ task.typed
    /\ operation' = "remove" /\ Awaits("remove")
    /\ task' = [task EXCEPT !.typed = FALSE, !.reviewing = FALSE]
    /\ looked' = FALSE
    /\ UNCHANGED <<active, generation, data, inspections>>

-----------------------------------------------------------------------------
(* Answers to the current generation's calls.  While the token is held     *)
(* nothing else changes the task, so the copy a function captured before   *)
(* it waited is the current one.                                           *)

Answered(calls) == active /\ awaits[generation] \in calls
Aged == IF data = None THEN None ELSE "stale"

\* invoke("list") may fail, then nothing is shown.
ListAnswers ==
    /\ Answered({"list", "catalogList", "catalogFailedList", "setupList", "removeList",
                 "removeListIncomplete"})
    /\ data' \in {"fresh", None}
    /\ CASE awaits[generation] = "setupList" ->
              /\ ReadWorkspace(task.project, "inspectAfter")
              /\ UNCHANGED <<operation, task>>
         [] awaits[generation] = "removeListIncomplete" ->
              /\ operation' = "inspect" /\ Awaits("preview")
              /\ task' = [task EXCEPT !.preview = None]
              /\ UNCHANGED inspections
         [] OTHER -> Done /\ UNCHANGED <<task, inspections>>
    /\ UNCHANGED <<active, generation, looked>>

\* After a failure the dialog stays open.
CatalogAnswers ==
    /\ Answered({"catalog"})
    /\ \/ task' = NoTask /\ LoadCatalog("catalogList")
       \/ task' = task /\ LoadCatalog("catalogFailedList")
    /\ data' = Aged
    /\ UNCHANGED <<active, generation, operation, looked>>

\* Setup begins only on an inspection that was read for it.
InspectionAnswers ==
    /\ Answered({"inspect", "inspectFirst", "inspectAfter"})
    /\ \E i \in [age : {"fresh"}, is : {"ready", "settable", "blocked"}] \cup {None} :
         /\ inspections' = [inspections EXCEPT ![task.project] = i]
         /\ IF i # None /\ i.is = "settable" /\ awaits[generation] = "inspectFirst"
            THEN /\ operation' = "setup" /\ Awaits("setup")
                 /\ task' = [task EXCEPT !.setupError = FALSE, !.completed = FALSE]
            ELSE /\ Done
                 /\ task' = IF i # None /\ i.is = "ready"
                            THEN [task EXCEPT !.setupError = FALSE] ELSE task
    /\ UNCHANGED <<active, generation, data, looked>>

SetupAnswers ==
    /\ Answered({"setup"})
    /\ \E ok \in BOOLEAN :
         task' = [task EXCEPT !.completed = ok, !.setupError = ~ok]
    /\ operation' = "inspect" /\ LoadCatalog("setupList")
    /\ data' = Aged
    /\ UNCHANGED <<active, generation, looked>>

PreviewAnswers ==
    /\ Answered({"preview"})
    /\ \E p \in [age : {"fresh"}, removable : BOOLEAN] \cup {None} :
         task' = [task EXCEPT !.preview = p]
    /\ Done /\ looked' = FALSE
    /\ UNCHANGED <<active, generation, data, inspections>>

\* A receipt, or no answer: then the outcome is unknown.
RemoveAnswers ==
    /\ Answered({"remove"})
    /\ \/ \E r \in {"ok", "incomplete"} :
            /\ task' = [task EXCEPT !.receipt = r, !.unknown = FALSE, !.preview = None]
            /\ LoadCatalog(IF r = "ok" THEN "removeList" ELSE "removeListIncomplete")
       \/ /\ task' = [task EXCEPT !.unknown = TRUE, !.preview = None]
          /\ LoadCatalog("removeList")
    /\ data' = Aged
    /\ UNCHANGED <<active, generation, operation, looked>>

-----------------------------------------------------------------------------
Answer == ListAnswers \/ CatalogAnswers \/ InspectionAnswers \/ SetupAnswers
          \/ PreviewAnswers \/ RemoveAnswers

Person == Refresh \/ OpenCatalog \/ OpenRemoval \/ Close \/ SubmitCatalog
          \/ RunWorkspace \/ ChangeConfirmation \/ CheckRemoval \/ Remove
          \/ \E j \in Projects : OpenWorkspace(j) \/ ChangeRemovalTarget(j)

Next == Start \/ Stop \/ Person \/ Answer \/ \E g \in Generations : Retire(g)

\* Every call ends.
Fairness == WF_vars(Answer) /\ \A g \in Generations : WF_vars(Retire(g))

Spec == Init /\ [][Next]_vars /\ Fairness

-----------------------------------------------------------------------------
(* Properties                                                              *)

TypeOK ==
    /\ active \in BOOLEAN /\ generation \in Generations
    /\ operation \in {"list", "catalog", "inspect", "setup", "remove", None}
    /\ \/ task \in {NoTask, CatalogTask} \cup RemovalTasks
       \/ \E j \in Projects, e, c \in BOOLEAN :
            task = [WorkspaceTask(j) EXCEPT !.setupError = e, !.completed = c]
    /\ data \in {"fresh", "stale", None}
    /\ inspections \in [Projects -> Inspections \cup {None}]
    /\ awaits \in [Generations -> Calls \cup {"nothing"}]
    /\ looked \in BOOLEAN
    /\ active => (operation = None <=> awaits[generation] = "nothing")

\* The list, the inspections and the preview together keep the promise of
\* PageStore: nothing read before the answer to a command is left on the screen
\* of a page at rest, in whatever dialog the command was given.
Ages == {i.age : i \in {inspections[j] : j \in Projects} \ {None}}
        \cup (IF data = None THEN {} ELSE {data})
        \cup (IF task.kind = "removal" /\ task.preview # None THEN {task.preview.age} ELSE {})
Promise == INSTANCE PageStore WITH
    open <- active, busy <- operation # None,
    shown <- IF Ages = {} THEN "nothing" ELSE IF "stale" \in Ages THEN "stale" ELSE "fresh"
KeepsPromise == Promise!Spec

\* A removal begins only with a preview read since the last command, and the
\* name that confirms it was typed while this preview was on the screen.
RemovesWhatIsShown ==
    [][operation # "remove" /\ operation' = "remove" =>
         looked /\ task.preview # None /\ task.preview.age = "fresh"]_vars

\* "Removal reads never retry mutation or erase evidence from the last attempt"
\* (store.ts:295): until the dialog is closed only the next attempt's answer
\* changes what is known of the last one.
EvidenceIsKept ==
    [][task.kind = "removal" /\ task'.kind = "removal" /\ awaits[generation] # "remove" =>
         task'.receipt = task.receipt /\ task'.unknown = task.unknown]_vars
=============================================================================
