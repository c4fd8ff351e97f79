----------------------------- MODULE Pages_proofs -----------------------------
(***************************************************************************)
(* Theorems about the Cockpit pages of MCPages, for every set of projects, *)
(* runners and soda-updates processes and every bound.  ProjectsInv,       *)
(* R!TypeOK and UpdatesInv are the inductive invariants of the three       *)
(* stores, TypeInv is that of the Tailscale page; a step of one page       *)
(* leaves the others alone.                                                *)
(***************************************************************************)
EXTENDS MCPages, TailscalePage_proofs

USE PagesAssumption

-----------------------------------------------------------------------------
(* Runners (RunnersPage).                                                  *)

LEMMA RunnersInit == R!Init => R!TypeOK
<1> SUFFICES ASSUME R!Init PROVE R!TypeOK
  OBVIOUS
<1>1. 0 \in R!Generations
  BY DEF R!Generations
<1>2. R!NoDialog \in R!Dialogs
  BY DEF R!NoDialog, R!Dialogs
<1>3. QED BY <1>1, <1>2 DEF R!Init, R!TypeOK

\* Each step, seen as one of PageStore.
LEMMA RunnersStep ==
  ASSUME R!TypeOK, [R!Next]_(R!vars)
  PROVE  R!TypeOK' /\ [R!Promise!Next]_(R!Promise!vars)
<1> USE DEF R!TypeOK, R!Promise!Next, R!Promise!vars, R!MayAct, R!Awaits, R!Begins
<1>0. \A a \in R!Actions \cup {"create", "list"}, id \in Ids \cup {None} :
        [action |-> a, id |-> id] \in R!Operations /\ [action |-> a, id |-> id] # None
  BY DEF R!Operations
<1>1. R!NoDialog \in R!Dialogs
  BY DEF R!NoDialog, R!Dialogs
<1>2. CASE R!Start
  <2>1. rGeneration' \in R!Generations /\ rGeneration' # rGeneration
    BY <1>2 DEF R!Start, R!Generations
  <2>2. rOperation' \in R!Operations /\ rOperation' # None
    BY <1>0, <1>2 DEF R!Start
  <2>3. R!TypeOK'
    BY <1>1, <1>2, <2>1, <2>2 DEF R!Start
  <2>4. R!Promise!Open
    BY <1>2, <2>2 DEF R!Start, R!Promise!Open
  <2>5. QED BY <2>3, <2>4
<1>3. CASE R!Stop
  <2>1. rGeneration' \in R!Generations
    BY <1>3 DEF R!Stop, R!Generations
  <2>2. R!TypeOK'
    BY <1>3, <2>1 DEF R!Stop
  <2>3. R!Promise!Shut
    BY <1>3 DEF R!Stop, R!Promise!Shut
  <2>4. QED BY <2>2, <2>3
<1>4. ASSUME NEW g \in R!Generations, R!Retire(g)
      PROVE  R!TypeOK' /\ [R!Promise!Next]_(R!Promise!vars)
  BY <1>4 DEF R!Retire
<1>5. CASE R!Refresh
  <2>1. rOperation' \in R!Operations /\ rOperation' # None
    BY <1>0, <1>5 DEF R!Refresh
  <2>2. R!TypeOK'
    BY <1>5, <2>1 DEF R!Refresh
  <2>3. R!Promise!Begin
    BY <1>5, <2>1 DEF R!Refresh, R!Promise!Begin
  <2>4. QED BY <2>2, <2>3
<1>6. CASE R!Open \/ R!Close
  <2>1. /\ UNCHANGED <<rActive, rGeneration, rOperation, rData, rAwaits>>
        /\ rDialog' \in R!Dialogs /\ rFormError' \in BOOLEAN
    BY <1>1, <1>6 DEF R!Open, R!Close
  <2>2. QED BY <2>1
<1>7. ASSUME NEW id \in Ids, R!Register(id) \/ \E a \in R!Actions : R!ChangeListener(a, id)
      PROVE  R!TypeOK' /\ [R!Promise!Next]_(R!Promise!vars)
  <2>1. rOperation' \in R!Operations /\ rOperation' # None
    BY <1>0, <1>7 DEF R!Register, R!ChangeListener
  <2>2. R!TypeOK'
    BY <1>7, <2>1 DEF R!Register, R!ChangeListener
  <2>3. R!Promise!Begin
    BY <1>7, <2>1 DEF R!Register, R!ChangeListener, R!Promise!Begin
  <2>4. QED BY <2>2, <2>3
<1>8. CASE R!Remove
  <2>1. CASE rFormError' = TRUE /\ UNCHANGED <<rOperation, rAwaits>>
    BY <1>8, <2>1 DEF R!Remove
  <2>2. CASE R!Begins("remove", rDialog.id) /\ R!Awaits("command") /\ rFormError' = FALSE
    <3>1. rDialog.id \in Ids
      BY <1>8 DEF R!Remove, R!Dialogs
    <3>2. rOperation' \in R!Operations /\ rOperation' # None
      BY <1>0, <2>2, <3>1 DEF R!Actions
    <3>3. R!TypeOK'
      BY <1>8, <2>2, <3>2 DEF R!Remove
    <3>4. R!Promise!Begin
      BY <1>8, <2>2, <3>2 DEF R!Remove, R!Promise!Begin
    <3>5. QED BY <3>3, <3>4
  <2>3. QED BY <1>8, <2>1, <2>2 DEF R!Remove
<1>9. CASE R!CommandAnswers
  <2>1. /\ rData' \in R!Listings \cup {None}
        /\ (IF rData = None THEN "nothing" ELSE rData.age)' \in {"nothing", "fresh", "stale"}
    BY <1>9 DEF R!CommandAnswers, R!Listings
  <2>2. rDialog' \in R!Dialogs
    BY <1>1, <1>9 DEF R!CommandAnswers
  <2>3. R!TypeOK'
    BY <1>9, <2>1, <2>2 DEF R!CommandAnswers, R!Answered
  <2>4. R!Promise!Work
    BY <1>9, <2>1 DEF R!CommandAnswers, R!Answered, R!Promise!Work
  <2>5. QED BY <2>3, <2>4
<1>10. CASE R!ListAnswers
  <2>1. /\ rData' \in R!Listings \cup {None}
        /\ (IF rData = None THEN "nothing" ELSE rData.age)' # "stale"
    BY <1>10 DEF R!ListAnswers, R!Listings
  <2>2. rDialog' \in R!Dialogs /\ rFormError' \in BOOLEAN
    BY <1>1, <1>10 DEF R!ListAnswers
  <2>3. R!TypeOK'
    BY <1>10, <2>1, <2>2 DEF R!ListAnswers, R!Answered
  <2>4. R!Promise!End
    BY <1>10, <2>1 DEF R!ListAnswers, R!Answered, R!Promise!End
  <2>5. QED BY <2>3, <2>4
<1>11. CASE UNCHANGED R!vars
  BY <1>11 DEF R!vars
<1>12. QED BY <1>2, <1>3, <1>4, <1>5, <1>6, <1>7, <1>8, <1>9, <1>10, <1>11
           DEF R!Next, R!Person, R!Answer

-----------------------------------------------------------------------------
(* Updates.                                                                *)

Holding == {"check", "read", "apply", "applying", "unlock"}

\* A process that has the lock is alone, and whoever is about to apply an
\* update has read that nothing blocks it and nobody but bootc outside Soda
\* can have changed that.
UpdatesInv ==
    /\ U!TypeOK
    /\ \A c \in Processes :
         /\ process[c].pc \in Holding <=> lock = c
         /\ process[c].pc = "apply" => ~blocked \/ c \in disturbed
    /\ uActive => /\ uOperation = None <=> uAwaits[uGeneration] = "nothing"
                  /\ uAwaits[uGeneration] = "check" => uShown = None /\ ~uError
                  /\ uAwaits[uGeneration] = "update" => ~uNotice

LEMMA UpdatesInit == U!Init => UpdatesInv
<1> SUFFICES ASSUME U!Init PROVE UpdatesInv
  OBVIOUS
<1> USE DEF U!Init
<1>1. 0 \in U!Generations /\ 0 \in 0 .. MaxFaults
  BY DEF U!Generations
<1>2. \A c \in Processes : process[c] = U!NoProcess /\ process[c].pc = "none" /\ lock # c
  BY DEF U!NoProcess
<1>3. process \in [Processes -> {U!NoProcess}]
  OBVIOUS
<1>4. U!TypeOK
  BY <1>1, <1>3 DEF U!TypeOK
<1>5. QED BY <1>2, <1>4 DEF UpdatesInv, Holding

\* What a process may be.
Running ==
    [kind : U!Kinds, caller : U!Generations \cup {None}, read : {None, "blocked", "mutable"},
     pc : {"lock", "check", "read", "apply", "applying", "unlock", "exit"}]

LEMMA ProcessTypes ==
  ASSUME U!TypeOK, NEW c \in Processes
  PROVE  /\ process \in [Processes -> Running \cup {U!NoProcess}]
         /\ process[c].pc # "none" => process[c] \in Running
         /\ process[c] = U!NoProcess => process[c].pc = "none"
  BY DEF U!TypeOK, Running, U!NoProcess

\* The page is not touched and one process goes on.
LEMMA ProcessStep ==
  ASSUME UpdatesInv, NEW c \in Processes, UNCHANGED U!page,
         NEW r \in Running \cup {U!NoProcess}, process' = [process EXCEPT ![c] = r],
         blocked' \in BOOLEAN, orphan' \in BOOLEAN, faults' \in 0 .. MaxFaults,
         disturbed' = disturbed \/ disturbed' = disturbed \ {c},
         process[c].pc = "apply" => c \notin disturbed' \/ r.pc = "apply",
         \/ lock' = lock /\ (process[c].pc \in Holding <=> r.pc \in Holding)
         \/ lock = None /\ lock' = c /\ r.pc \in Holding
         \/ lock = c /\ lock' = None /\ r.pc \notin Holding,
         r.pc = "apply" => ~blocked' \/ c \in disturbed',
         blocked' # blocked => lock = c
  PROVE  UpdatesInv'
<1>0. U!TypeOK
  BY DEF UpdatesInv
<1>1. /\ process' \in [Processes -> Running \cup {U!NoProcess}]
      /\ process'[c] = r /\ \A d \in Processes \ {c} : process'[d] = process[d]
  BY <1>0, ProcessTypes
<1>2. /\ UNCHANGED <<uActive, uGeneration, uOperation, uShown, uError, uNotice, uAwaits>>
  BY DEF U!page
<1>3. disturbed' \subseteq {d \in Processes : process'[d].pc = "apply"}
  BY <1>0, <1>1 DEF U!TypeOK
<1>4. lock' \in Processes \cup {None}
  BY <1>0 DEF U!TypeOK
<1>5. U!TypeOK'
  BY <1>0, <1>1, <1>2, <1>3, <1>4 DEF U!TypeOK, Running
<1>6. \A d \in Processes : process'[d].pc \in Holding <=> lock' = d
  BY <1>1 DEF UpdatesInv
<1>7. \A d \in Processes : process'[d].pc = "apply" => ~blocked' \/ d \in disturbed'
  <2>1. SUFFICES ASSUME NEW d \in Processes \ {c}, process'[d].pc = "apply"
                 PROVE  ~blocked' \/ d \in disturbed'
    BY <1>1
  <2>2. lock = d /\ (~blocked \/ d \in disturbed)
    BY <1>1, <2>1 DEF UpdatesInv, Holding
  <2>3. blocked' = blocked
    BY <2>2
  <2>4. d \in disturbed => d \in disturbed'
    OBVIOUS
  <2>5. QED BY <2>2, <2>3, <2>4
<1>8. (uActive => /\ uOperation = None <=> uAwaits[uGeneration] = "nothing"
                  /\ uAwaits[uGeneration] = "check" => uShown = None /\ ~uError
                  /\ uAwaits[uGeneration] = "update" => ~uNotice)'
  BY <1>2 DEF UpdatesInv
<1>9. QED BY <1>5, <1>6, <1>7, <1>8 DEF UpdatesInv

LEMMA ProcessActions ==
  ASSUME UpdatesInv, NEW c \in Processes,
         U!Run(c) \/ U!Terminal(c) \/ U!Cancel(c) \/ U!Kill(c) \/ U!Disconnect(c)
  PROVE  UpdatesInv'
<1>0. /\ U!TypeOK /\ blocked \in BOOLEAN /\ orphan \in BOOLEAN /\ faults \in 0 .. MaxFaults
      /\ process \in [Processes -> Running \cup {U!NoProcess}]
      /\ process[c].pc # "none" => process[c] \in Running
      /\ process[c].pc \in Holding <=> lock = c
      /\ process[c].pc = "apply" => ~blocked \/ c \in disturbed
      /\ None # c
  BY ProcessTypes DEF UpdatesInv, U!TypeOK
<1>1. \A to \in {"check", "read", "apply", "applying", "unlock", "exit"},
         from \in Holding \cup {"lock"} :
        U!Step(c, from, to) =>
          /\ [process[c] EXCEPT !.pc = to] \in Running
          /\ [process[c] EXCEPT !.pc = to].pc = to
          /\ process' = [process EXCEPT ![c] = [process[c] EXCEPT !.pc = to]]
          /\ process[c].pc = from
  BY <1>0 DEF U!Step, Running, Holding
<1>2. \A from \in Holding :
        U!Fails(c, from) =>
          /\ [process[c] EXCEPT !.pc = "unlock", !.read = None] \in Running
          /\ [process[c] EXCEPT !.pc = "unlock", !.read = None].pc = "unlock"
          /\ process' = [process EXCEPT ![c] =
                           [process[c] EXCEPT !.pc = "unlock", !.read = None]]
          /\ process[c].pc = from
  BY <1>0 DEF U!Fails, Running, Holding
<1>3. U!NoProcess.pc = "none"
  BY DEF U!NoProcess
<1>4. U!Fault => faults' \in 0 .. MaxFaults
  BY <1>0 DEF U!Fault
<1>5. CASE U!Lock(c)
  <2> USE DEF U!Lock
  <2>1. CASE lock # None
    <3>1. U!Step(c, "lock", "exit") /\ UNCHANGED lock
      BY <1>5, <2>1
    <3>2. process[c].pc = "lock" /\ lock # c /\ "exit" \notin Holding
      BY <1>0, <3>1 DEF U!Step, Holding
    <3> DEFINE r == [process[c] EXCEPT !.pc = "exit"]
    <3>3. r \in Running /\ r.pc = "exit" /\ process' = [process EXCEPT ![c] = r]
      BY <1>1, <3>1
    <3> HIDE DEF r
    <3>4. QED BY <1>0, <1>5, <3>1, <3>2, <3>3, ProcessStep DEF Holding
  <2>2. CASE lock = None
    <3>1. PICK to \in {"check", "read"} : U!Step(c, "lock", to) /\ lock' = c
      BY <1>5, <2>2
    <3>2. process[c].pc = "lock"
      BY <3>1 DEF U!Step
    <3> DEFINE r == [process[c] EXCEPT !.pc = to]
    <3>3. r \in Running /\ r.pc = to /\ process' = [process EXCEPT ![c] = r]
      BY <1>1, <3>1
    <3> HIDE DEF r
    <3>4. QED BY <1>0, <1>5, <2>2, <3>1, <3>2, <3>3, ProcessStep DEF Holding
  <2>3. QED BY <2>1, <2>2
<1>6. CASE U!Check(c)
  <2>1. CASE U!Step(c, "check", "read")
    <3> DEFINE r == [process[c] EXCEPT !.pc = "read"]
    <3>1. r \in Running /\ r.pc = "read" /\ process' = [process EXCEPT ![c] = r]
      BY <1>1, <2>1 DEF Holding
    <3>2. process[c].pc = "check"
      BY <2>1 DEF U!Step
    <3> HIDE DEF r
    <3>3. QED BY <1>0, <1>6, <3>1, <3>2, ProcessStep DEF Holding, U!Check
  <2>2. CASE U!Fails(c, "check")
    BY <1>0, <1>2, <1>6, <2>2, ProcessStep DEF Holding, U!Check
  <2>3. QED BY <1>6, <2>1, <2>2 DEF U!Check
<1>7. CASE U!ReadHost(c)
  <2>1. CASE U!Fails(c, "read")
    BY <1>0, <1>2, <1>7, <2>1, ProcessStep DEF Holding, U!ReadHost
  <2>2. CASE ~U!Fails(c, "read")
    <3> DEFINE to == IF process[c].kind = "update" /\ ~blocked THEN "apply" ELSE "unlock"
               saw == IF blocked THEN "blocked" ELSE "mutable"
               r == [process[c] EXCEPT !.read = saw, !.pc = to]
    <3>1. process[c].pc = "read" /\ process[c] \in Running
      BY <1>0, <1>7 DEF U!ReadHost
    <3>2. r \in Running /\ r.pc = to
      BY <3>1 DEF Running
    <3>3. process' = [process EXCEPT ![c] = r]
      BY <1>0, <1>7, <2>2, <3>1 DEF U!ReadHost
    <3>4. to \in {"apply", "unlock"} /\ (to = "apply" => ~blocked)
      OBVIOUS
    <3> HIDE DEF r, to
    <3>5. QED BY <1>0, <1>7, <3>1, <3>2, <3>3, <3>4, ProcessStep DEF Holding, U!ReadHost
  <2>3. QED BY <2>1, <2>2
<1>8. CASE U!StartApply(c)
  <2> DEFINE r == [process[c] EXCEPT !.pc = "applying"]
  <2>1. U!Step(c, "apply", "applying")
    BY <1>8 DEF U!StartApply
  <2>2. r \in Running /\ r.pc = "applying" /\ process' = [process EXCEPT ![c] = r]
    BY <1>1, <2>1 DEF Holding
  <2>3. process[c].pc = "apply"
    BY <2>1 DEF U!Step
  <2> HIDE DEF r
  <2>4. QED BY <1>0, <1>8, <2>2, <2>3, ProcessStep DEF Holding, U!StartApply
<1>9. CASE U!EndApply(c)
  <2>1. blocked' \in BOOLEAN
    BY <1>9 DEF U!EndApply, U!BootcRan
  <2>2. CASE U!Step(c, "applying", "unlock")
    <3> DEFINE r == [process[c] EXCEPT !.pc = "unlock"]
    <3>1. r \in Running /\ r.pc = "unlock" /\ process' = [process EXCEPT ![c] = r]
      BY <1>1, <2>2 DEF Holding
    <3>2. process[c].pc = "applying"
      BY <2>2 DEF U!Step
    <3> HIDE DEF r
    <3>3. QED BY <1>0, <1>9, <2>1, <3>1, <3>2, ProcessStep DEF Holding, U!EndApply
  <2>3. CASE U!Fails(c, "applying")
    BY <1>0, <1>2, <1>9, <2>1, <2>3, ProcessStep DEF Holding, U!EndApply
  <2>4. QED BY <1>9, <2>2, <2>3 DEF U!EndApply
<1>10. CASE U!Unlock(c)
  <2> DEFINE r == [process[c] EXCEPT !.pc = "exit"]
  <2>1. U!Step(c, "unlock", "exit")
    BY <1>10 DEF U!Unlock
  <2>2. r \in Running /\ r.pc = "exit" /\ process' = [process EXCEPT ![c] = r]
    BY <1>1, <2>1 DEF Holding
  <2>3. process[c].pc = "unlock"
    BY <2>1 DEF U!Step
  <2> HIDE DEF r
  <2>4. QED BY <1>0, <1>10, <2>2, <2>3, ProcessStep DEF Holding, U!Unlock
<1>11. CASE U!Reap(c)
  BY <1>0, <1>3, <1>11, ProcessStep DEF Holding, U!Reap
<1>12. CASE U!Terminal(c)
  <2>1. PICK kind \in {"check", "update"} : U!Spawned(c, kind, None)
    BY <1>12 DEF U!Terminal
  <2> DEFINE r == [kind |-> kind, pc |-> "lock", caller |-> None, read |-> None]
  <2>2. r \in Running /\ r.pc = "lock"
    BY DEF Running, U!Kinds
  <2>3. process' = [process EXCEPT ![c] = r] /\ process[c].pc = "none"
    BY <1>3, <2>1 DEF U!Spawned
  <2> HIDE DEF r
  <2>4. QED BY <1>0, <1>12, <2>2, <2>3, ProcessStep DEF Holding, U!Terminal
<1>13. CASE U!Cancel(c)
  <2>1. PICK from \in {"check", "read", "apply", "applying"} : U!Fails(c, from)
    BY <1>13 DEF U!Cancel
  <2>2. blocked' \in BOOLEAN
    BY <1>0, <1>13 DEF U!Cancel, U!BootcRan
  <2>3. QED BY <1>0, <1>2, <1>4, <1>13, <2>1, <2>2, ProcessStep DEF Holding, U!Cancel
<1>14. CASE U!Kill(c)
  <2>1. orphan' \in BOOLEAN
    <3>1. orphan' = (orphan \/ process[c].pc = "applying")
      BY <1>14 DEF U!Kill
    <3>2. QED BY <1>0, <3>1, Zenon
  <2>2. QED BY <1>0, <1>3, <1>4, <1>14, <2>1, ProcessStep DEF Holding, U!Kill
<1>15. CASE U!Disconnect(c)
  <2> DEFINE r == [process[c] EXCEPT !.caller = None]
  <2>1. process[c] \in Running
    BY <1>0, <1>15 DEF U!Disconnect, U!NoProcess
  <2>2. r \in Running /\ r.pc = process[c].pc
    BY <2>1 DEF Running
  <2>3. process' = [process EXCEPT ![c] = r]
    BY <1>0, <1>15 DEF U!Disconnect
  <2> HIDE DEF r
  <2>4. QED BY <1>0, <1>4, <1>15, <2>2, <2>3, ProcessStep DEF Holding, U!Disconnect
<1>16. QED BY <1>5, <1>6, <1>7, <1>8, <1>9, <1>10, <1>11, <1>12, <1>13, <1>14, <1>15 DEF U!Run

LEMMA MachineActions ==
  ASSUME UpdatesInv, U!Reboot \/ U!OutsideSoda
  PROVE  UpdatesInv'
<1>0. /\ U!TypeOK /\ blocked' \in BOOLEAN /\ orphan' \in BOOLEAN
      /\ UNCHANGED <<uActive, uGeneration, uOperation, uShown, uError, uNotice, uAwaits>>
  BY DEF UpdatesInv, U!TypeOK, U!Reboot, U!OutsideSoda, U!BootcRan, U!page
<1>1. faults' \in 0 .. MaxFaults
  BY <1>0 DEF U!TypeOK, U!Reboot, U!OutsideSoda, U!Fault
<1>2. CASE U!Reboot
  <2>1. /\ \A c \in Processes : process'[c] = U!NoProcess /\ process'[c].pc = "none"
        /\ process' \in [Processes -> {U!NoProcess}] /\ lock' = None /\ disturbed' = {}
    BY <1>2 DEF U!Reboot, U!NoProcess
  <2>2. U!TypeOK'
    BY <1>0, <1>1, <2>1 DEF U!TypeOK
  <2>3. QED BY <1>0, <2>1, <2>2 DEF UpdatesInv, Holding
<1>3. CASE U!OutsideSoda
  <2>1. U!TypeOK'
    BY <1>0, <1>1, <1>3 DEF U!TypeOK, U!OutsideSoda
  <2>2. QED BY <1>0, <1>3, <2>1 DEF UpdatesInv, U!OutsideSoda
<1>4. QED BY <1>2, <1>3

\* The types of the page, and what holds while it is open.
PageState ==
    /\ uActive \in BOOLEAN /\ uGeneration \in U!Generations
    /\ uOperation \in U!Kinds \cup {"read", None}
    /\ uShown \in U!Statuses \cup {None} /\ uError \in BOOLEAN /\ uNotice \in BOOLEAN
    /\ uAwaits \in [U!Generations -> U!Kinds \cup {"nothing", "status", "statusAfter",
                                                   "statusAfterFailure"}]
    /\ uActive => /\ uOperation = None <=> uAwaits[uGeneration] = "nothing"
                  /\ uAwaits[uGeneration] = "check" => uShown = None /\ ~uError
                  /\ uAwaits[uGeneration] = "update" => ~uNotice

\* A page that starts a process, or is done with one, touches nobody who has
\* the lock.
LEMMA PageAlone ==
  ASSUME UpdatesInv, PageState', UNCHANGED <<blocked, lock, orphan, disturbed, faults>>,
         \/ UNCHANGED process
         \/ \E c \in Processes, r \in Running \cup {U!NoProcess} :
              /\ process' = [process EXCEPT ![c] = r]
              /\ process[c].pc \notin Holding /\ r.pc \notin Holding
  PROVE  UpdatesInv'
<1>0. U!TypeOK /\ process \in [Processes -> Running \cup {U!NoProcess}]
  BY ProcessTypes DEF UpdatesInv, U!TypeOK, Running
<1>1. process' \in [Processes -> Running \cup {U!NoProcess}]
  BY <1>0
<1>2. \A c \in Processes : process[c].pc \in Holding \/ process'[c].pc \in Holding =>
                             process'[c].pc = process[c].pc
  BY <1>0
<1>3. disturbed' \subseteq {c \in Processes : process'[c].pc = "apply"}
  BY <1>0, <1>2 DEF U!TypeOK, Holding
<1>4. U!TypeOK'
  BY <1>0, <1>1, <1>3 DEF U!TypeOK, Running, PageState
<1>5. \A c \in Processes : process'[c].pc \in Holding <=> lock' = c
  BY <1>2 DEF UpdatesInv
<1>6. \A c \in Processes : process'[c].pc = "apply" => ~blocked' \/ c \in disturbed'
  BY <1>2 DEF UpdatesInv, Holding
<1>7. QED BY <1>4, <1>5, <1>6 DEF UpdatesInv, PageState

\* Each step of the page, seen as one of PageStore.
LEMMA PageOpens ==
  ASSUME UpdatesInv, U!Start \/ U!Stop \/ U!Refresh \/ \E g \in U!Generations : U!Retire(g)
  PROVE  UpdatesInv' /\ [U!Promise!Next]_(U!Promise!vars)
<1> USE DEF U!MayAct, U!Awaits, U!machine
<1>0. U!TypeOK /\ PageState
  BY DEF UpdatesInv, U!TypeOK, PageState
<1>1. UNCHANGED U!machine
  BY DEF U!Start, U!Stop, U!Refresh, U!Retire
<1>2. CASE U!Start
  <2>1. uGeneration' \in U!Generations /\ uOperation' # None
    BY <1>0, <1>2 DEF U!Start, U!Generations, U!TypeOK
  <2>2. PageState'
    BY <1>0, <1>2, <2>1 DEF U!Start, PageState
  <2>3. U!Promise!Open
    BY <1>2, <2>1 DEF U!Start, U!Promise!Open
  <2>4. QED BY <1>1, <2>2, <2>3, PageAlone DEF U!Promise!Next
<1>3. CASE U!Stop
  <2>1. uGeneration' \in U!Generations
    BY <1>0, <1>3 DEF U!Stop, U!Generations, U!TypeOK
  <2>2. PageState'
    BY <1>0, <1>3, <2>1 DEF U!Stop, PageState
  <2>3. U!Promise!Shut
    BY <1>3 DEF U!Stop, U!Promise!Shut
  <2>4. QED BY <1>1, <2>2, <2>3, PageAlone DEF U!Promise!Next
<1>4. CASE U!Refresh
  <2>1. PageState' /\ uOperation' # None
    BY <1>0, <1>4 DEF U!Refresh, PageState
  <2>2. U!Promise!Begin
    BY <1>4, <2>1 DEF U!Refresh, U!Promise!Begin
  <2>3. QED BY <1>1, <2>1, <2>2, PageAlone DEF U!Promise!Next
<1>5. ASSUME NEW g \in U!Generations, U!Retire(g)
      PROVE  UpdatesInv' /\ [U!Promise!Next]_(U!Promise!vars)
  <2>1. PageState'
    BY <1>0, <1>5 DEF U!Retire, PageState
  <2>2. UNCHANGED U!Promise!vars
    BY <1>5 DEF U!Retire, U!Promise!vars
  <2>3. QED BY <1>1, <2>1, <2>2, PageAlone
<1>6. QED BY <1>2, <1>3, <1>4, <1>5

LEMMA PageCommands ==
  ASSUME UpdatesInv, U!CheckUpdates \/ U!Update
  PROVE  UpdatesInv' /\ [U!Promise!Next]_(U!Promise!vars)
<1>0. U!TypeOK /\ PageState
  BY DEF UpdatesInv, U!TypeOK, PageState
<1>1. PICK kind \in U!Kinds : U!Begins(kind) /\ uShown' = None
  BY DEF U!CheckUpdates, U!Update, U!Kinds
<1>2. PICK c \in Processes : U!Spawned(c, kind, uGeneration)
  BY <1>1 DEF U!Begins
<1> DEFINE r == [kind |-> kind, pc |-> "lock", caller |-> uGeneration, read |-> None]
<1>3. r \in Running /\ r.pc = "lock"
  BY <1>0 DEF Running, U!TypeOK
<1>4. process' = [process EXCEPT ![c] = r] /\ process[c].pc = "none"
  BY <1>2 DEF U!Spawned, U!NoProcess
<1> HIDE DEF r
<1>5. kind # None /\ kind # "nothing"
  BY DEF U!Kinds
<1>6. PageState'
  BY <1>0, <1>1, <1>5 DEF U!Begins, U!MayAct, U!Awaits, PageState
<1>7. U!Promise!Begin
  BY <1>1, <1>5 DEF U!Begins, U!MayAct, U!Promise!Begin
<1>8. QED BY <1>1, <1>3, <1>4, <1>6, <1>7, PageAlone DEF U!Begins, U!Promise!Next, Holding

LEMMA PageAnswers ==
  ASSUME UpdatesInv, U!Answer
  PROVE  UpdatesInv' /\ [U!Promise!Next]_(U!Promise!vars)
<1>0. U!TypeOK /\ PageState
  BY DEF UpdatesInv, U!TypeOK, PageState
<1>1. \A ok \in BOOLEAN, c \in Processes :
        U!Answers(ok, c) =>
          \/ UNCHANGED process
          \/ \E d \in Processes, r \in Running \cup {U!NoProcess} :
               /\ process' = [process EXCEPT ![d] = r]
               /\ process[d].pc \notin Holding /\ r.pc \notin Holding
  BY DEF U!Answers, U!NoProcess, Holding
<1>2. CASE U!StatusAnswers
  <2>1. /\ uShown' \in U!Statuses \cup {None}
        /\ (IF uShown = None THEN "nothing" ELSE uShown.age)' # "stale"
    BY <1>0, <1>2 DEF U!StatusAnswers, U!Statuses, U!TypeOK
  <2>2. uError' \in BOOLEAN
    <3>1. uError' = (uError \/ uAwaits[uGeneration] = "statusAfterFailure")
      BY <1>2 DEF U!StatusAnswers
    <3>2. uError \in BOOLEAN
      BY <1>0 DEF PageState
    <3>3. QED BY <3>1, <3>2, Zenon
  <2>3. PageState'
    BY <1>0, <1>2, <2>1, <2>2 DEF U!StatusAnswers, U!Awaits, PageState
  <2>4. U!Promise!End
    BY <1>0, <1>2, <2>1 DEF U!StatusAnswers, U!Promise!End, PageState
  <2>5. QED BY <1>2, <2>3, <2>4, PageAlone DEF U!StatusAnswers, U!Promise!Next, U!machine
<1>3. CASE U!CheckAnswers
  <2>1. PICK ok \in BOOLEAN, c \in Processes :
          /\ U!Answers(ok, c)
          /\ uShown' = IF ok THEN [age |-> "fresh", blocked |-> process[c].read = "blocked"]
                       ELSE IF uShown = None THEN None ELSE [uShown EXCEPT !.age = "stale"]
          /\ uError' = ~ok
    BY <1>3 DEF U!CheckAnswers
  <2>2. uShown = None
    BY <1>3 DEF U!CheckAnswers, UpdatesInv
  <2> DEFINE b == process[c].read = "blocked"
             s == [age |-> "fresh", blocked |-> b]
  <2>3. b \in BOOLEAN
    BY Zenon
  <2>4. s \in U!Statuses /\ s.age = "fresh"
    BY <2>3 DEF U!Statuses
  <2>5. uShown' \in {s, None}
    BY <2>1, <2>2
  <2> HIDE DEF s
  <2>6. /\ uShown' \in U!Statuses \cup {None}
        /\ (IF uShown = None THEN "nothing" ELSE uShown.age)' # "stale"
    BY <2>4, <2>5
  <2>7. uError' \in BOOLEAN
    BY <2>1
  <2>8. PageState'
    BY <1>0, <1>3, <2>6, <2>7 DEF U!CheckAnswers, U!Awaits, PageState
  <2>9. U!Promise!End
    BY <1>0, <1>3, <2>6 DEF U!CheckAnswers, U!Promise!End, PageState
  <2>10. UpdatesInv'
    BY <1>1, <1>3, <2>1, <2>8, PageAlone DEF U!CheckAnswers
  <2>11. QED BY <2>9, <2>10 DEF U!Promise!Next
<1>4. CASE U!UpdateAnswers
  <2>1. PICK ok \in BOOLEAN, c \in Processes :
          /\ U!Answers(ok, c)
          /\ uNotice' = ok
          /\ U!Awaits(IF ok THEN "statusAfter" ELSE "statusAfterFailure")
    BY <1>4 DEF U!UpdateAnswers
  <2>2. PageState'
    BY <1>0, <1>4, <2>1 DEF U!UpdateAnswers, U!Awaits, PageState
  <2>3. UpdatesInv'
    BY <1>1, <1>4, <2>1, <2>2, PageAlone DEF U!UpdateAnswers
  <2>4. UNCHANGED U!Promise!vars
    BY <1>4 DEF U!UpdateAnswers, U!Promise!vars
  <2>5. QED BY <2>3, <2>4
<1>5. QED BY <1>2, <1>3, <1>4 DEF U!Answer

LEMMA UpdatesStep ==
  ASSUME UpdatesInv, [U!Next]_(U!vars)
  PROVE  UpdatesInv' /\ [U!Promise!Next]_(U!Promise!vars)
<1>1. ASSUME NEW c \in Processes,
             U!Run(c) \/ U!Terminal(c) \/ U!Cancel(c) \/ U!Kill(c) \/ U!Disconnect(c)
      PROVE  UpdatesInv' /\ UNCHANGED U!page
  BY <1>1, ProcessActions
     DEF U!Run, U!Lock, U!Check, U!ReadHost, U!StartApply, U!EndApply, U!Unlock, U!Reap,
         U!Terminal, U!Cancel, U!Kill, U!Disconnect
<1>2. CASE U!Reboot \/ U!OutsideSoda
  <2>1. UNCHANGED U!page
    BY <1>2 DEF U!Reboot, U!OutsideSoda
  <2>2. QED BY <1>2, <2>1, MachineActions DEF U!page, U!Promise!vars
<1>3. CASE U!Start \/ U!Stop \/ U!Refresh \/ \E g \in U!Generations : U!Retire(g)
  BY <1>3, PageOpens
<1>4. CASE U!CheckUpdates \/ U!Update
  BY <1>4, PageCommands
<1>5. CASE U!Answer
  BY <1>5, PageAnswers
<1>6. CASE UNCHANGED U!vars
  BY <1>6 DEF U!vars, U!machine, U!page, UpdatesInv, U!TypeOK, U!Promise!vars
<1>7. UNCHANGED U!page => UNCHANGED U!Promise!vars
  BY DEF U!page, U!Promise!vars
<1>8. QED BY <1>1, <1>2, <1>3, <1>4, <1>5, <1>6, <1>7 DEF U!Next

\* Only StartApply begins to apply, and only a command clears what is said of
\* the last one.
LEMMA UpdatesActs ==
  ASSUME UpdatesInv, [U!Next]_(U!vars)
  PROVE  /\ \A c \in Processes :
              process[c].pc = "apply" /\ process'[c].pc = "applying" =>
                ~blocked \/ c \in disturbed
         /\ uActive /\ uActive' /\ ((uError /\ ~uError') \/ (uNotice /\ ~uNotice')) =>
              uOperation = None /\ uOperation' \in U!Kinds
<1>1. \A c \in Processes : process[c].pc = "apply" => ~blocked \/ c \in disturbed
  BY DEF UpdatesInv
<1>2. ASSUME uActive, uActive', (uError /\ ~uError') \/ (uNotice /\ ~uNotice')
      PROVE  uOperation = None /\ uOperation' \in U!Kinds
  <2>1. ~UNCHANGED U!page /\ ~U!Start /\ ~U!Stop /\ ~U!Refresh
    BY <1>2 DEF U!page, U!Start, U!Stop, U!Refresh
  <2>2. ~U!CheckAnswers
    BY <1>2 DEF U!CheckAnswers, UpdatesInv
  <2>3. ~U!UpdateAnswers
    BY <1>2 DEF U!UpdateAnswers, UpdatesInv
  <2>4. ~U!StatusAnswers /\ \A g \in U!Generations : ~U!Retire(g)
    BY <1>2 DEF U!StatusAnswers, U!Retire
  <2>5. /\ \A c \in Processes : ~(U!Run(c) \/ U!Terminal(c) \/ U!Cancel(c) \/ U!Kill(c)
                                  \/ U!Disconnect(c))
        /\ ~U!Reboot /\ ~U!OutsideSoda /\ ~UNCHANGED U!vars
    BY <2>1
       DEF U!Run, U!Lock, U!Check, U!ReadHost, U!StartApply, U!EndApply, U!Unlock, U!Reap,
           U!Terminal, U!Cancel, U!Kill, U!Disconnect, U!Reboot, U!OutsideSoda, U!vars
  <2>6. U!CheckUpdates \/ U!Update
    BY <2>1, <2>2, <2>3, <2>4, <2>5 DEF U!Next, U!Answer
  <2>7. QED BY <2>6 DEF U!CheckUpdates, U!Update, U!Begins, U!MayAct, U!Kinds
<1>3. QED BY <1>1, <1>2

-----------------------------------------------------------------------------
(* Projects (ProjectsPage).                                                *)

WorkspaceTasks ==
    [kind : {"workspace"}, project : Projects, setupError : BOOLEAN, completed : BOOLEAN]
Tasks == {P!NoTask, P!CatalogTask} \cup P!RemovalTasks \cup WorkspaceTasks

\* Inspections and previews are taken from the screen before they age, so all
\* that can be stale on it is the list, and that only until the list is read
\* again; which function waits says which dialog is open; and no confirmation
\* stands beside a preview it was not typed for.
ProjectsInv ==
    /\ pActive \in BOOLEAN /\ pGeneration \in P!Generations
    /\ pOperation \in {"list", "catalog", "inspect", "setup", "remove", None}
    /\ pTask \in Tasks
    /\ pData \in {"fresh", "stale", None}
    /\ pInspections \in [Projects -> P!Inspections \cup {None}]
    /\ pAwaits \in [P!Generations -> P!Calls \cup {"nothing"}]
    /\ pLooked \in BOOLEAN
    /\ \A j \in Projects : pInspections[j] # None => pInspections[j].age = "fresh"
    /\ pTask.kind = "removal" /\ pTask.preview # None =>
         pTask.preview.age = "fresh" /\ (pTask.typed => pLooked)
    /\ pData = "stale" => pOperation # None
    /\ pActive =>
         /\ pOperation = None <=> pAwaits[pGeneration] = "nothing"
         /\ pData = "stale" =>
              pAwaits[pGeneration] \in {"catalogList", "catalogFailedList", "setupList",
                                        "removeList", "removeListIncomplete"}
         /\ pAwaits[pGeneration] \in {"inspect", "inspectFirst", "inspectAfter", "setup",
                                      "setupList"} =>
              pTask.kind = "workspace"
         /\ pAwaits[pGeneration] \in {"preview", "remove", "removeListIncomplete"} =>
              pTask.kind = "removal" /\ ~pTask.typed

LEMMA TaskKinds ==
  /\ P!NoTask.kind = "none" /\ P!CatalogTask.kind = "catalog"
  /\ \A t \in P!RemovalTasks : t.kind = "removal"
  /\ \A t \in WorkspaceTasks : t.kind = "workspace"
  /\ \A t \in Tasks : t.kind = "removal" => t \in P!RemovalTasks
  /\ \A t \in Tasks : t.kind = "workspace" => t \in WorkspaceTasks
<1>1. /\ P!NoTask.kind = "none" /\ P!CatalogTask.kind = "catalog"
      /\ \A t \in P!RemovalTasks : t.kind = "removal"
      /\ \A t \in WorkspaceTasks : t.kind = "workspace"
  BY DEF P!NoTask, P!CatalogTask, P!RemovalTasks, WorkspaceTasks
<1>2. QED BY <1>1, Zenon DEF Tasks

LEMMA ProjectsTypes == ProjectsInv => P!TypeOK
<1> SUFFICES ASSUME ProjectsInv PROVE P!TypeOK
  OBVIOUS
<1>1. ASSUME pTask \in WorkspaceTasks
      PROVE  \E j \in Projects, e, c \in BOOLEAN :
               pTask = [P!WorkspaceTask(j) EXCEPT !.setupError = e, !.completed = c]
  <2>1. pTask = [P!WorkspaceTask(pTask.project) EXCEPT !.setupError = pTask.setupError,
                                                       !.completed = pTask.completed]
    <3> DEFINE w == P!WorkspaceTask(pTask.project)
    <3>1. w \in WorkspaceTasks /\ w.project = pTask.project
      BY <1>1 DEF WorkspaceTasks, P!WorkspaceTask
    <3> HIDE DEF w
    <3>2. pTask = [w EXCEPT !.setupError = pTask.setupError, !.completed = pTask.completed]
      BY <1>1, <3>1 DEF WorkspaceTasks
    <3>3. QED BY <3>2 DEF w
  <2>2. /\ pTask.project \in Projects
        /\ pTask.setupError \in BOOLEAN /\ pTask.completed \in BOOLEAN
    BY <1>1 DEF WorkspaceTasks
  <2>3. QED BY <2>1, <2>2
<1>2. QED BY <1>1 DEF ProjectsInv, P!TypeOK, Tasks

LEMMA ProjectsInit == P!Init => ProjectsInv
<1> SUFFICES ASSUME P!Init PROVE ProjectsInv
  OBVIOUS
<1>1. 0 \in P!Generations
  BY DEF P!Generations
<1>2. QED BY <1>1, TaskKinds DEF P!Init, ProjectsInv, Tasks, P!NoInspections

\* What is on the screen, and how old: P!Ages of these values.
Screen(d, i, t) ==
    {x.age : x \in {i[j] : j \in Projects} \ {None}}
    \cup (IF d = None THEN {} ELSE {d})
    \cup (IF t.kind = "removal" /\ t.preview # None THEN {t.preview.age} ELSE {})
Showing(s) == IF s = {} THEN "nothing" ELSE IF "stale" \in s THEN "stale" ELSE "fresh"

LEMMA ScreenAges ==
  ASSUME NEW d \in {"fresh", "stale", None}, NEW i, NEW t,
         \A j \in Projects : i[j] # None => i[j].age = "fresh",
         t.kind = "removal" /\ t.preview # None => t.preview.age = "fresh"
  PROVE  /\ Showing(Screen(d, i, t)) \in {"nothing", "fresh", "stale"}
         /\ Showing(Screen(d, i, t)) = "stale" <=> d = "stale"
<1>1. Screen(d, i, t) \subseteq {"fresh", "stale"}
  BY DEF Screen
<1>2. "stale" \in Screen(d, i, t) <=> d = "stale"
  BY DEF Screen
<1>3. QED BY <1>1, <1>2 DEF Showing

\* Nothing comes to the screen.
LEMMA ScreenShrinks ==
  ASSUME NEW d \in {"fresh", None}, NEW i, NEW t, NEW k, NEW u,
         \A j \in Projects : i[j] # None => i[j].age = "fresh",
         t.kind = "removal" /\ t.preview # None => t.preview.age = "fresh",
         \A j \in Projects : k[j] \in {i[j], None},
         u.kind = "removal" /\ u.preview # None => t.kind = "removal" /\ u.preview = t.preview
  PROVE  Showing(Screen(d, k, u)) \in {Showing(Screen(d, i, t)), "nothing"}
<1>1. Screen(d, i, t) \subseteq {"fresh"}
  BY DEF Screen
<1>2. Screen(d, k, u) \subseteq Screen(d, i, t)
  <2>1. ASSUME NEW a \in Screen(d, k, u) PROVE a \in Screen(d, i, t)
    <3>1. CASE a \in {x.age : x \in {k[j] : j \in Projects} \ {None}}
      <4>1. PICK j \in Projects : k[j] # None /\ a = k[j].age
        BY <3>1
      <4>2. i[j] # None /\ a = i[j].age
        BY <4>1
      <4>3. QED BY <4>2 DEF Screen
    <3>2. CASE a \in (IF d = None THEN {} ELSE {d})
      BY <3>2 DEF Screen
    <3>3. CASE u.kind = "removal" /\ u.preview # None /\ a = u.preview.age
      BY <3>3 DEF Screen
    <3>4. QED BY <2>1, <3>1, <3>2, <3>3 DEF Screen
  <2>2. QED BY <2>1
<1>3. QED BY <1>1, <1>2 DEF Showing

\* How the steps of the store are steps of PageStore, by what they do to the
\* screen.
LEMMA ScreenSteps ==
  ASSUME ProjectsInv, ProjectsInv', pActive' = pActive,
         \/ /\ pOperation = None /\ pData' = pData
            /\ pActive \/ pOperation' = None
            /\ \A j \in Projects : pInspections'[j] \in {pInspections[j], None}
            /\ pTask'.kind = "removal" /\ pTask'.preview # None =>
                 pTask.kind = "removal" /\ pTask'.preview = pTask.preview
         \/ pActive /\ pOperation # None
  PROVE  [P!Promise!Next]_(P!Promise!vars)
<1> DEFINE now == Showing(Screen(pData, pInspections, pTask))
           then == Showing(Screen(pData', pInspections', pTask'))
<1>1. /\ now = IF P!Ages = {} THEN "nothing" ELSE IF "stale" \in P!Ages THEN "stale" ELSE "fresh"
      /\ then = (IF P!Ages = {} THEN "nothing"
                 ELSE IF "stale" \in P!Ages THEN "stale" ELSE "fresh")'
  BY DEF P!Ages, Screen, Showing
<1>2. /\ pData' \in {"fresh", "stale", None}
      /\ \A j \in Projects : pInspections'[j] # None => pInspections'[j].age = "fresh"
      /\ pTask'.kind = "removal" /\ pTask'.preview # None => pTask'.preview.age = "fresh"
      /\ pData' = "stale" => pOperation' # None
  BY DEF ProjectsInv
<1>3. /\ pData \in {"fresh", "stale", None}
      /\ \A j \in Projects : pInspections[j] # None => pInspections[j].age = "fresh"
      /\ pTask.kind = "removal" /\ pTask.preview # None => pTask.preview.age = "fresh"
      /\ pData = "stale" => pOperation # None
  BY DEF ProjectsInv
<1>4. then \in {"nothing", "fresh", "stale"} /\ (then = "stale" <=> pData' = "stale")
  BY <1>2, ScreenAges
<1>5. CASE pActive /\ pOperation # None
  <2>1. CASE pOperation' = None
    <3>1. then # "stale"
      BY <1>2, <1>4, <2>1
    <3> HIDE DEF now, then
    <3>2. QED BY <1>1, <1>5, <2>1, <3>1 DEF P!Promise!Next, P!Promise!End
  <2>2. CASE pOperation' # None
    <3> HIDE DEF now, then
    <3>1. QED BY <1>1, <1>4, <1>5, <2>2 DEF P!Promise!Next, P!Promise!Work
  <2>3. QED BY <2>1, <2>2
<1>6. CASE /\ pOperation = None /\ pData' = pData
           /\ pActive \/ pOperation' = None
           /\ \A j \in Projects : pInspections'[j] \in {pInspections[j], None}
           /\ pTask'.kind = "removal" /\ pTask'.preview # None =>
                pTask.kind = "removal" /\ pTask'.preview = pTask.preview
  <2>1. pData \in {"fresh", None}
    BY <1>3, <1>6
  <2>2. then \in {now, "nothing"}
    BY <1>3, <1>6, <2>1, ScreenShrinks
  <2> HIDE DEF now, then
  <2>3. CASE pOperation' = None
    BY <1>1, <1>6, <2>2, <2>3 DEF P!Promise!Next, P!Promise!Dismiss, P!Promise!vars
  <2>4. CASE pOperation' # None
    BY <1>1, <1>6, <2>2, <2>4 DEF P!Promise!Next, P!Promise!Begin
  <2>5. QED BY <2>3, <2>4
<1>7. QED BY <1>5, <1>6

LEMMA ProjectsOpens ==
  ASSUME ProjectsInv, P!Start \/ P!Stop \/ \E g \in P!Generations : P!Retire(g)
  PROVE  ProjectsInv' /\ [P!Promise!Next]_(P!Promise!vars)
<1>1. CASE P!Start
  <2>1. pGeneration' \in P!Generations /\ pOperation' # None
    BY <1>1 DEF P!Start, P!Generations, ProjectsInv
  <2>2. /\ pAwaits' \in [P!Generations -> P!Calls \cup {"nothing"}]
        /\ pAwaits'[pGeneration'] = "list"
    BY <1>1, <2>1 DEF P!Start, P!Calls, ProjectsInv
  <2>3. pInspections' = [j \in Projects |-> None] /\ pTask' = P!NoTask /\ pTask' \in Tasks
    BY <1>1 DEF P!Start, P!NoInspections, Tasks
  <2>4. ProjectsInv'
    BY <1>1, <2>1, <2>2, <2>3, TaskKinds DEF P!Start, ProjectsInv
  <2>5. P!Ages' = {}
    BY <1>1, <2>3, TaskKinds DEF P!Start, P!Ages
  <2>6. P!Promise!Open
    BY <1>1, <2>1, <2>5 DEF P!Start, P!Promise!Open
  <2>7. QED BY <2>4, <2>6 DEF P!Promise!Next
<1>2. CASE P!Stop
  <2>1. pGeneration' \in P!Generations
    BY <1>2 DEF P!Stop, P!Generations, ProjectsInv
  <2>2. ProjectsInv'
    BY <1>2, <2>1 DEF P!Stop, ProjectsInv
  <2>3. P!Ages' = P!Ages
    BY <1>2 DEF P!Stop, P!Ages
  <2>4. P!Promise!Shut
    BY <1>2, <2>3 DEF P!Stop, P!Promise!Shut
  <2>5. QED BY <2>2, <2>4 DEF P!Promise!Next
<1>3. ASSUME NEW g \in P!Generations, P!Retire(g)
      PROVE  ProjectsInv' /\ [P!Promise!Next]_(P!Promise!vars)
  <2>1. ProjectsInv'
    BY <1>3 DEF P!Retire, ProjectsInv
  <2>2. UNCHANGED P!Promise!vars
    BY <1>3 DEF P!Retire, P!Promise!vars, P!Ages
  <2>3. QED BY <2>1, <2>2
<1>4. QED BY <1>1, <1>2, <1>3

\* Dialogs are opened and filled in without a call.
LEMMA ProjectsDialogs ==
  ASSUME ProjectsInv,
         \/ P!OpenCatalog \/ P!Close \/ P!ChangeConfirmation
         \/ \E j \in Projects : P!ChangeRemovalTarget(j)
  PROVE  ProjectsInv' /\ [P!Promise!Next]_(P!Promise!vars)
<1>0. UNCHANGED <<pActive, pGeneration, pOperation, pData, pInspections, pAwaits>>
      /\ pOperation = None
  BY DEF P!OpenCatalog, P!Close, P!ChangeConfirmation, P!ChangeRemovalTarget, P!MayAct
<1>1. CASE P!OpenCatalog \/ P!Close
  <2>1. pTask' \in Tasks /\ pTask'.kind # "removal" /\ pLooked' = pLooked
    BY <1>1, TaskKinds DEF P!OpenCatalog, P!Close, Tasks
  <2>2. ProjectsInv'
    BY <1>0, <2>1 DEF ProjectsInv
  <2>3. QED BY <1>0, <2>1, <2>2, ScreenSteps
<1>2. CASE P!ChangeConfirmation \/ \E j \in Projects : P!ChangeRemovalTarget(j)
  <2>1. pTask \in P!RemovalTasks
    BY <1>2, TaskKinds DEF P!ChangeConfirmation, P!ChangeRemovalTarget, ProjectsInv
  <2>2. /\ pTask' \in P!RemovalTasks
        /\ pTask'.preview \in {pTask.preview, None}
        /\ pTask'.preview # None => pLooked'
        /\ pLooked' \in BOOLEAN
    <3>1. CASE P!ChangeConfirmation
      <4>1. pTask' \in P!RemovalTasks /\ pTask'.preview = pTask.preview
        BY <2>1, <3>1 DEF P!ChangeConfirmation, P!RemovalTasks
      <4>2. pLooked' = (pTask.preview # None)
        BY <3>1 DEF P!ChangeConfirmation
      <4>3. pLooked' \in BOOLEAN
        BY <4>2, Zenon
      <4>4. QED BY <4>1, <4>2, <4>3
    <3>2. ASSUME NEW j \in Projects, P!ChangeRemovalTarget(j)
          PROVE  /\ pTask' \in P!RemovalTasks /\ pTask'.preview = None
                 /\ pLooked' = FALSE
      BY <2>1, <3>2 DEF P!ChangeRemovalTarget, P!RemovalTasks
    <3>3. QED BY <1>2, <3>1, <3>2
  <2>3. pTask' \in Tasks /\ pTask'.kind = "removal" /\ pTask.kind = "removal"
    BY <2>1, <2>2, TaskKinds DEF Tasks
  <2>4. ProjectsInv'
    BY <1>0, <2>2, <2>3 DEF ProjectsInv
  <2>5. QED BY <1>0, <2>2, <2>3, <2>4, ScreenSteps
<1>3. QED BY <1>1, <1>2

\* A function begins with a call.
LEMMA ProjectsBegins ==
  ASSUME ProjectsInv, P!MayAct, NEW c \in P!Calls, P!Awaits(c),
         pOperation' \in {"list", "catalog", "inspect", "remove"},
         pTask' \in Tasks, pLooked' \in BOOLEAN,
         UNCHANGED <<pActive, pGeneration, pData>>,
         pInspections' \in [Projects -> P!Inspections \cup {None}],
         \A j \in Projects : pInspections'[j] \in {pInspections[j], None},
         pTask'.kind = "removal" /\ pTask'.preview # None =>
           /\ pTask.kind = "removal" /\ pTask'.preview = pTask.preview
           /\ pTask'.typed => pTask.typed /\ pLooked' = pLooked,
         c \in {"inspect", "inspectFirst", "inspectAfter", "setup", "setupList"} =>
           pTask'.kind = "workspace",
         c \in {"preview", "remove", "removeListIncomplete"} =>
           pTask'.kind = "removal" /\ ~pTask'.typed
  PROVE  ProjectsInv' /\ [P!Promise!Next]_(P!Promise!vars)
<1>1. /\ pAwaits' \in [P!Generations -> P!Calls \cup {"nothing"}] /\ pAwaits'[pGeneration] = c
      /\ c # "nothing" /\ pOperation' # None
  BY DEF P!Awaits, P!Calls, ProjectsInv
<1>2. pActive /\ pOperation = None /\ pData # "stale"
  BY DEF P!MayAct, ProjectsInv
<1>3. \A j \in Projects : pInspections'[j] # None => pInspections'[j].age = "fresh"
  BY DEF ProjectsInv
<1>4. pTask'.kind = "removal" /\ pTask'.preview # None =>
        pTask'.preview.age = "fresh" /\ (pTask'.typed => pLooked')
  BY DEF ProjectsInv
<1>5. ProjectsInv'
  BY <1>1, <1>2, <1>3, <1>4 DEF ProjectsInv
<1>6. QED BY <1>2, <1>5, ScreenSteps

LEMMA ProjectsCommands ==
  ASSUME ProjectsInv,
         \/ P!Refresh \/ P!RunWorkspace \/ P!OpenRemoval \/ P!SubmitCatalog
         \/ P!CheckRemoval \/ P!Remove \/ \E j \in Projects : P!OpenWorkspace(j)
  PROVE  ProjectsInv' /\ [P!Promise!Next]_(P!Promise!vars)
<1>0. /\ P!MayAct /\ pTask \in Tasks /\ pLooked \in BOOLEAN
      /\ pInspections \in [Projects -> P!Inspections \cup {None}]
      /\ UNCHANGED <<pActive, pGeneration, pData>>
  BY DEF P!Refresh, P!RunWorkspace, P!OpenRemoval, P!SubmitCatalog, P!CheckRemoval, P!Remove,
         P!OpenWorkspace, ProjectsInv, P!MayAct
<1>1. /\ "list" \in P!Calls /\ "catalog" \in P!Calls /\ "inspect" \in P!Calls
      /\ "inspectFirst" \in P!Calls /\ "preview" \in P!Calls /\ "remove" \in P!Calls
  BY DEF P!Calls
<1>2. CASE P!Refresh
  <2>1. pInspections' = [j \in Projects |-> None] /\ P!Awaits("list")
    BY <1>2 DEF P!Refresh, P!LoadCatalog, P!NoInspections
  <2>2. UNCHANGED <<pTask, pLooked>> /\ pOperation' = "list"
    BY <1>2 DEF P!Refresh
  <2>3. QED BY <1>0, <1>1, <2>1, <2>2, ProjectsBegins
<1>3. CASE P!SubmitCatalog
  <2>1. UNCHANGED <<pTask, pLooked, pInspections>> /\ P!Awaits("catalog")
        /\ pOperation' = "catalog"
    BY <1>3 DEF P!SubmitCatalog
  <2>2. QED BY <1>0, <1>1, <2>1, ProjectsBegins
<1>4. ASSUME NEW j, NEW c \in {"inspect", "inspectFirst"}, P!ReadWorkspace(j, c),
             pTask' \in WorkspaceTasks, pLooked' = pLooked, pOperation' = "inspect"
      PROVE  ProjectsInv' /\ [P!Promise!Next]_(P!Promise!vars)
  <2>1. /\ pInspections' \in [Projects -> P!Inspections \cup {None}] /\ P!Awaits(c)
        /\ \A k \in Projects : pInspections'[k] \in {pInspections[k], None}
    BY <1>0, <1>4 DEF P!ReadWorkspace
  <2>2. pTask' \in Tasks /\ pTask'.kind = "workspace"
    BY <1>4, TaskKinds DEF Tasks
  <2>3. c \in P!Calls /\ c \notin {"preview", "remove", "removeListIncomplete"}
    BY <1>1
  <2>4. QED BY <1>0, <1>4, <2>1, <2>2, <2>3, ProjectsBegins
<1>5. ASSUME NEW j \in Projects, P!OpenWorkspace(j)
      PROVE  ProjectsInv' /\ [P!Promise!Next]_(P!Promise!vars)
  <2>1. pTask' \in WorkspaceTasks
    BY <1>5 DEF P!OpenWorkspace, P!WorkspaceTask, WorkspaceTasks
  <2>2. QED BY <1>4, <1>5, <2>1 DEF P!OpenWorkspace
<1>6. CASE P!RunWorkspace
  <2>1. pTask' \in WorkspaceTasks
    BY <1>0, <1>6, TaskKinds DEF P!RunWorkspace
  <2>2. QED BY <1>4, <1>6, <2>1 DEF P!RunWorkspace
<1>7. CASE P!OpenRemoval
  <2>1. CASE pTask' = P!RemovalTask(None) /\ UNCHANGED <<pOperation, pAwaits>>
    <3>1. pTask' \in P!RemovalTasks /\ pTask'.preview = None
      BY <2>1 DEF P!RemovalTask, P!RemovalTasks
    <3>2. pTask' \in Tasks /\ pLooked' = FALSE /\ UNCHANGED pInspections
      BY <1>7, <3>1 DEF Tasks, P!OpenRemoval
    <3>3. /\ pOperation = None /\ pAwaits[pGeneration] = "nothing" /\ pData # "stale"
      BY <1>0 DEF P!MayAct, ProjectsInv
    <3>4. ProjectsInv'
      BY <1>0, <2>1, <3>1, <3>2, <3>3 DEF ProjectsInv
    <3>5. QED BY <1>0, <2>1, <3>1, <3>2, <3>3, <3>4, ScreenSteps
  <2>2. ASSUME NEW t \in Projects, pTask' = [P!RemovalTask(t) EXCEPT !.reviewing = TRUE],
               pOperation' = "inspect", P!Awaits("preview")
        PROVE  ProjectsInv' /\ [P!Promise!Next]_(P!Promise!vars)
    <3> DEFINE r == P!RemovalTask(t)
    <3>1. r \in P!RemovalTasks /\ r.preview = None /\ r.typed = FALSE
      BY DEF P!RemovalTask, P!RemovalTasks
    <3>2. pTask' = [r EXCEPT !.reviewing = TRUE]
      BY <2>2
    <3> HIDE DEF r
    <3>3. pTask' \in P!RemovalTasks /\ pTask'.preview = None /\ pTask'.typed = FALSE
      BY <3>1, <3>2 DEF P!RemovalTasks
    <3>4. pTask' \in Tasks /\ pTask'.kind = "removal" /\ pLooked' = FALSE
          /\ UNCHANGED pInspections
      BY <1>7, <3>3, TaskKinds DEF Tasks, P!OpenRemoval
    <3>5. QED BY <1>0, <1>1, <2>2, <3>3, <3>4, ProjectsBegins
  <2>3. QED BY <1>7, <2>1, <2>2 DEF P!OpenRemoval
<1>8. CASE P!CheckRemoval
  <2>1. pTask \in P!RemovalTasks
    BY <1>0, <1>8, TaskKinds DEF P!CheckRemoval
  <2>2. pTask' \in P!RemovalTasks /\ pTask'.preview = None /\ pTask'.typed = FALSE
    BY <1>8, <2>1 DEF P!CheckRemoval, P!RemovalTasks
  <2>3. pTask' \in Tasks /\ pTask'.kind = "removal" /\ pLooked' = FALSE
        /\ UNCHANGED pInspections /\ pOperation' = "inspect" /\ P!Awaits("preview")
    BY <1>8, <2>2, TaskKinds DEF Tasks, P!CheckRemoval
  <2>4. QED BY <1>0, <1>1, <2>2, <2>3, ProjectsBegins
<1>9. CASE P!Remove
  <2>1. pTask \in P!RemovalTasks
    BY <1>0, <1>9, TaskKinds DEF P!Remove
  <2>2. pTask' \in P!RemovalTasks /\ pTask'.preview = pTask.preview /\ pTask'.typed = FALSE
    BY <1>9, <2>1 DEF P!Remove, P!RemovalTasks
  <2>3. pTask' \in Tasks /\ pTask'.kind = "removal" /\ pLooked' = FALSE /\ pTask.kind = "removal"
        /\ UNCHANGED pInspections /\ pOperation' = "remove" /\ P!Awaits("remove")
    BY <1>9, <2>2, TaskKinds DEF Tasks, P!Remove
  <2>4. QED BY <1>0, <1>1, <2>2, <2>3, ProjectsBegins
<1>10. QED BY <1>2, <1>3, <1>5, <1>6, <1>7, <1>8, <1>9

\* A function has its answer, and goes on or ends.
LEMMA ProjectsGoesOn ==
  ASSUME ProjectsInv, pActive, pAwaits[pGeneration] # "nothing",
         UNCHANGED <<pActive, pGeneration>>,
         NEW c \in P!Calls \cup {"nothing"}, P!Awaits(c),
         pOperation' \in {"list", "catalog", "inspect", "setup", "remove", None},
         pOperation' = None <=> c = "nothing",
         pTask' \in Tasks, pLooked' \in BOOLEAN, pData' \in {"fresh", "stale", None},
         pInspections' \in [Projects -> P!Inspections \cup {None}],
         \A j \in Projects : pInspections'[j] # None => pInspections'[j].age = "fresh",
         pTask'.kind = "removal" /\ pTask'.preview # None =>
           pTask'.preview.age = "fresh" /\ (pTask'.typed => pLooked'),
         pData' = "stale" => c \in {"catalogList", "catalogFailedList", "setupList",
                                    "removeList", "removeListIncomplete"},
         c \in {"inspect", "inspectFirst", "inspectAfter", "setup", "setupList"} =>
           pTask'.kind = "workspace",
         c \in {"preview", "remove", "removeListIncomplete"} =>
           pTask'.kind = "removal" /\ ~pTask'.typed
  PROVE  ProjectsInv' /\ [P!Promise!Next]_(P!Promise!vars)
<1>1. /\ pAwaits' \in [P!Generations -> P!Calls \cup {"nothing"}] /\ pAwaits'[pGeneration] = c
      /\ pOperation # None
  BY DEF P!Awaits, ProjectsInv
<1>2. pData' = "stale" => pOperation' # None
  OBVIOUS
<1>3. pGeneration' \in P!Generations /\ pActive' \in BOOLEAN
  BY DEF ProjectsInv
<1>4. ProjectsInv'
  BY <1>1, <1>2, <1>3 DEF ProjectsInv
<1>5. QED BY <1>1, <1>4, ScreenSteps

LEMMA ListAnswersKeep ==
  ASSUME ProjectsInv, P!ListAnswers
  PROVE  ProjectsInv' /\ [P!Promise!Next]_(P!Promise!vars)
<1>0. /\ pActive /\ pAwaits[pGeneration] # "nothing" /\ pOperation # None
      /\ pData' \in {"fresh", None} /\ UNCHANGED <<pActive, pGeneration, pLooked>>
      /\ pTask \in Tasks /\ pLooked \in BOOLEAN
      /\ pInspections \in [Projects -> P!Inspections \cup {None}]
      /\ pOperation \in {"list", "catalog", "inspect", "setup", "remove", None}
      /\ \A j \in Projects : pInspections[j] # None => pInspections[j].age = "fresh"
      /\ pTask.kind = "removal" /\ pTask.preview # None =>
           pTask.preview.age = "fresh" /\ (pTask.typed => pLooked)
  BY DEF P!ListAnswers, P!Answered, ProjectsInv
<1>1. CASE pAwaits[pGeneration] = "setupList"
  <2>1. /\ P!ReadWorkspace(pTask.project, "inspectAfter") /\ UNCHANGED <<pOperation, pTask>>
        /\ pTask.kind = "workspace"
    BY <1>0, <1>1 DEF P!ListAnswers, ProjectsInv
  <2>2. /\ P!Awaits("inspectAfter")
        /\ pInspections' \in [Projects -> P!Inspections \cup {None}]
        /\ \A j \in Projects : pInspections'[j] # None => pInspections'[j].age = "fresh"
    BY <1>0, <2>1 DEF P!ReadWorkspace
  <2>3. "inspectAfter" \in P!Calls
    BY DEF P!Calls
  <2>4. QED BY <1>0, <2>1, <2>2, <2>3, ProjectsGoesOn
<1>2. CASE pAwaits[pGeneration] = "removeListIncomplete"
  <2>1. /\ pOperation' = "inspect" /\ P!Awaits("preview") /\ UNCHANGED pInspections
        /\ pTask' = [pTask EXCEPT !.preview = None]
        /\ pTask.kind = "removal" /\ ~pTask.typed
    BY <1>0, <1>2 DEF P!ListAnswers, ProjectsInv
  <2>2. pTask \in P!RemovalTasks
    BY <1>0, <2>1, TaskKinds
  <2>3. pTask' \in P!RemovalTasks /\ pTask'.preview = None /\ ~pTask'.typed
    BY <2>1, <2>2 DEF P!RemovalTasks
  <2>4. pTask' \in Tasks /\ pTask'.kind = "removal" /\ "preview" \in P!Calls
    BY <2>3, TaskKinds DEF Tasks, P!Calls
  <2>5. QED BY <1>0, <2>1, <2>3, <2>4, ProjectsGoesOn
<1>3. CASE pAwaits[pGeneration] \notin {"setupList", "removeListIncomplete"}
  <2>1. P!Awaits("nothing") /\ pOperation' = None /\ UNCHANGED <<pTask, pInspections>>
    BY <1>3 DEF P!ListAnswers, P!Done
  <2>2. QED BY <1>0, <2>1, ProjectsGoesOn
<1>4. QED BY <1>1, <1>2, <1>3

LEMMA CommandAnswersKeep ==
  ASSUME ProjectsInv, P!CatalogAnswers \/ P!SetupAnswers \/ P!RemoveAnswers
  PROVE  ProjectsInv' /\ [P!Promise!Next]_(P!Promise!vars)
<1>0. /\ pActive /\ pAwaits[pGeneration] # "nothing" /\ pOperation # None
      /\ pData' \in {"stale", None} /\ UNCHANGED <<pActive, pGeneration, pLooked>>
      /\ pTask \in Tasks /\ pLooked \in BOOLEAN
      /\ pOperation \in {"list", "catalog", "inspect", "setup", "remove", None}
      /\ pTask.kind = "removal" /\ pTask.preview # None =>
           pTask.preview.age = "fresh" /\ (pTask.typed => pLooked)
  BY DEF P!CatalogAnswers, P!SetupAnswers, P!RemoveAnswers, P!Answered, P!Aged, ProjectsInv
<1>1. ASSUME NEW c, P!LoadCatalog(c)
      PROVE  /\ P!Awaits(c) /\ pInspections' \in [Projects -> P!Inspections \cup {None}]
             /\ \A j \in Projects : pInspections'[j] # None => pInspections'[j].age = "fresh"
  BY <1>1 DEF P!LoadCatalog, P!NoInspections
<1>2. /\ "catalogList" \in P!Calls /\ "catalogFailedList" \in P!Calls
      /\ "setupList" \in P!Calls /\ "removeList" \in P!Calls
      /\ "removeListIncomplete" \in P!Calls
  BY DEF P!Calls
<1>3. CASE P!CatalogAnswers
  <2>1. CASE pTask' = P!NoTask /\ P!LoadCatalog("catalogList")
    <3>1. pTask' \in Tasks /\ pTask'.kind = "none"
      BY <2>1, TaskKinds DEF Tasks
    <3>2. pOperation' = pOperation
      BY <1>3 DEF P!CatalogAnswers
    <3>3. QED BY <1>0, <1>1, <1>2, <2>1, <3>1, <3>2, ProjectsGoesOn
  <2>2. CASE pTask' = pTask /\ P!LoadCatalog("catalogFailedList")
    <3>1. pOperation' = pOperation
      BY <1>3 DEF P!CatalogAnswers
    <3>2. QED BY <1>0, <1>1, <1>2, <2>2, <3>1, ProjectsGoesOn
  <2>3. QED BY <1>3, <2>1, <2>2 DEF P!CatalogAnswers
<1>4. CASE P!SetupAnswers
  <2>1. PICK ok \in BOOLEAN : pTask' = [pTask EXCEPT !.completed = ok, !.setupError = ~ok]
    BY <1>4 DEF P!SetupAnswers
  <2>2. pTask \in WorkspaceTasks
    BY <1>0, <1>4, TaskKinds DEF P!SetupAnswers, P!Answered, ProjectsInv
  <2>3. pTask' \in WorkspaceTasks
    BY <2>1, <2>2 DEF WorkspaceTasks
  <2>4. pTask' \in Tasks /\ pTask'.kind = "workspace"
    BY <2>3, TaskKinds DEF Tasks
  <2>5. pOperation' = "inspect" /\ P!LoadCatalog("setupList")
    BY <1>4 DEF P!SetupAnswers
  <2>6. QED BY <1>0, <1>1, <1>2, <2>4, <2>5, ProjectsGoesOn
<1>5. CASE P!RemoveAnswers
  <2>1. pTask \in P!RemovalTasks /\ ~pTask.typed /\ pOperation' = pOperation
    BY <1>0, <1>5, TaskKinds DEF P!RemoveAnswers, P!Answered, ProjectsInv
  <2>2. pTask' \in P!RemovalTasks /\ pTask'.preview = None /\ ~pTask'.typed
    <3>1. ASSUME NEW r \in {"ok", "incomplete"},
                 pTask' = [pTask EXCEPT !.receipt = r, !.unknown = FALSE, !.preview = None]
          PROVE  pTask' \in P!RemovalTasks /\ pTask'.preview = None /\ ~pTask'.typed
      BY <2>1, <3>1 DEF P!RemovalTasks
    <3>2. ASSUME pTask' = [pTask EXCEPT !.unknown = TRUE, !.preview = None]
          PROVE  pTask' \in P!RemovalTasks /\ pTask'.preview = None /\ ~pTask'.typed
      BY <2>1, <3>2 DEF P!RemovalTasks
    <3>3. QED BY <1>5, <3>1, <3>2 DEF P!RemoveAnswers
  <2>3. pTask' \in Tasks /\ pTask'.kind = "removal"
    BY <2>2, TaskKinds DEF Tasks
  <2>4. PICK c \in {"removeList", "removeListIncomplete"} : P!LoadCatalog(c)
    BY <1>5 DEF P!RemoveAnswers
  <2>5. QED BY <1>0, <1>1, <1>2, <2>1, <2>2, <2>3, <2>4, ProjectsGoesOn
<1>6. QED BY <1>3, <1>4, <1>5

LEMMA InspectionAnswersKeep ==
  ASSUME ProjectsInv, P!InspectionAnswers
  PROVE  ProjectsInv' /\ [P!Promise!Next]_(P!Promise!vars)
<1>0. /\ pActive /\ pOperation # None /\ UNCHANGED <<pActive, pGeneration, pLooked, pData>>
      /\ pAwaits[pGeneration] \in {"inspect", "inspectFirst", "inspectAfter"}
      /\ pTask \in Tasks /\ pLooked \in BOOLEAN /\ pData \in {"fresh", None}
      /\ pInspections \in [Projects -> P!Inspections \cup {None}]
      /\ \A j \in Projects : pInspections[j] # None => pInspections[j].age = "fresh"
      /\ pTask.kind = "workspace"
  BY DEF P!InspectionAnswers, P!Answered, ProjectsInv
<1>1. PICK i \in [age : {"fresh"}, is : {"ready", "settable", "blocked"}] \cup {None} :
        /\ pInspections' = [pInspections EXCEPT ![pTask.project] = i]
        /\ IF i # None /\ i.is = "settable" /\ pAwaits[pGeneration] = "inspectFirst"
           THEN /\ pOperation' = "setup" /\ P!Awaits("setup")
                /\ pTask' = [pTask EXCEPT !.setupError = FALSE, !.completed = FALSE]
           ELSE /\ P!Done
                /\ pTask' = IF i # None /\ i.is = "ready"
                            THEN [pTask EXCEPT !.setupError = FALSE] ELSE pTask
  BY DEF P!InspectionAnswers
<1>2. /\ i \in P!Inspections \cup {None} /\ (i # None => i.age = "fresh")
  BY DEF P!Inspections
<1>3. /\ pInspections' \in [Projects -> P!Inspections \cup {None}]
      /\ \A j \in Projects : pInspections'[j] # None => pInspections'[j].age = "fresh"
  BY <1>0, <1>1, <1>2
<1>4. pTask \in WorkspaceTasks
  BY <1>0, TaskKinds
<1>5. pTask' \in WorkspaceTasks
  BY <1>1, <1>4 DEF WorkspaceTasks
<1>6. pTask' \in Tasks /\ pTask'.kind = "workspace" /\ "setup" \in P!Calls
  BY <1>5, TaskKinds DEF Tasks, P!Calls
<1>7. CASE pOperation' = "setup" /\ P!Awaits("setup")
  BY <1>0, <1>3, <1>6, <1>7, ProjectsGoesOn
<1>8. CASE P!Done
  BY <1>0, <1>3, <1>6, <1>8, ProjectsGoesOn DEF P!Done
<1>9. QED BY <1>1, <1>7, <1>8

LEMMA PreviewAnswersKeep ==
  ASSUME ProjectsInv, P!PreviewAnswers
  PROVE  ProjectsInv' /\ [P!Promise!Next]_(P!Promise!vars)
<1>0. /\ pActive /\ pOperation # None
      /\ UNCHANGED <<pActive, pGeneration, pData, pInspections>>
      /\ pAwaits[pGeneration] = "preview" /\ pTask \in Tasks /\ pData \in {"fresh", None}
      /\ pInspections \in [Projects -> P!Inspections \cup {None}]
      /\ \A j \in Projects : pInspections[j] # None => pInspections[j].age = "fresh"
      /\ pTask.kind = "removal" /\ ~pTask.typed
      /\ pLooked' = FALSE /\ P!Awaits("nothing") /\ pOperation' = None
  BY DEF P!PreviewAnswers, P!Answered, P!Done, ProjectsInv
<1>1. PICK p \in [age : {"fresh"}, removable : BOOLEAN] \cup {None} :
        pTask' = [pTask EXCEPT !.preview = p]
  BY DEF P!PreviewAnswers
<1>2. p \in P!Previews \cup {None} /\ (p # None => p.age = "fresh")
  BY DEF P!Previews
<1>3. pTask \in P!RemovalTasks
  BY <1>0, TaskKinds
<1>4. pTask' \in P!RemovalTasks /\ pTask'.preview = p /\ ~pTask'.typed
  BY <1>0, <1>1, <1>2, <1>3 DEF P!RemovalTasks
<1>5. pTask' \in Tasks
  BY <1>4 DEF Tasks
<1>6. QED BY <1>0, <1>2, <1>4, <1>5, ProjectsGoesOn

LEMMA ProjectsStep ==
  ASSUME ProjectsInv, [P!Next]_(P!vars)
  PROVE  ProjectsInv' /\ [P!Promise!Next]_(P!Promise!vars)
<1>1. CASE UNCHANGED P!vars
  <2>1. UNCHANGED <<pActive, pGeneration, pOperation, pTask, pData, pInspections, pAwaits,
                    pLooked>>
    BY <1>1 DEF P!vars
  <2>2. QED BY <2>1 DEF ProjectsInv, P!Promise!vars, P!Ages
<1>2. CASE P!Person
  BY <1>2, ProjectsDialogs, ProjectsCommands DEF P!Person
<1>3. CASE P!Answer
  BY <1>3, ListAnswersKeep, CommandAnswersKeep, InspectionAnswersKeep, PreviewAnswersKeep
     DEF P!Answer
<1>4. QED BY <1>1, <1>2, <1>3, ProjectsOpens DEF P!Next

\* Only Remove begins a removal, and only its answer changes what is known of it.
LEMMA ProjectsActs ==
  ASSUME ProjectsInv, [P!Next]_(P!vars)
  PROVE  /\ pOperation # "remove" /\ pOperation' = "remove" =>
              pLooked /\ pTask.preview # None /\ pTask.preview.age = "fresh"
         /\ pTask.kind = "removal" /\ pTask'.kind = "removal"
              /\ pAwaits[pGeneration] # "remove" =>
              pTask'.receipt = pTask.receipt /\ pTask'.unknown = pTask.unknown
<1>1. ASSUME pOperation # "remove", pOperation' = "remove"
      PROVE  pLooked /\ pTask.preview # None /\ pTask.preview.age = "fresh"
  <2>1. P!Remove
    BY <1>1 DEF P!Next, P!vars, P!Start, P!Stop, P!Retire, P!Person, P!Refresh, P!OpenCatalog,
         P!OpenRemoval, P!Close, P!SubmitCatalog, P!RunWorkspace, P!ChangeConfirmation,
         P!CheckRemoval, P!OpenWorkspace, P!ChangeRemovalTarget, P!Answer, P!ListAnswers,
         P!Done, P!CatalogAnswers, P!InspectionAnswers, P!SetupAnswers, P!PreviewAnswers,
         P!RemoveAnswers
  <2>2. QED BY <2>1 DEF P!Remove, P!CanConfirm, ProjectsInv
<1>2. ASSUME pTask.kind = "removal", pTask'.kind = "removal", pAwaits[pGeneration] # "remove"
      PROVE  pTask'.receipt = pTask.receipt /\ pTask'.unknown = pTask.unknown
  <2>1. pTask \in P!RemovalTasks
    BY <1>2, TaskKinds DEF ProjectsInv
  <2>2. CASE pTask' = pTask
    BY <2>2
  <2>3. CASE pTask' # pTask
    <3>1. ~P!Start /\ ~P!Close /\ ~P!OpenCatalog /\ \A j \in Projects : ~P!OpenWorkspace(j)
      BY <1>2, <2>1, TaskKinds
         DEF P!Start, P!Close, P!OpenCatalog, P!OpenWorkspace, P!WorkspaceTask
    <3>2. ~P!OpenRemoval /\ ~P!RemoveAnswers /\ ~P!CatalogAnswers
      BY <1>2, <2>3, TaskKinds
         DEF P!OpenRemoval, P!RemoveAnswers, P!CatalogAnswers, P!Answered
    <3>3. ~P!InspectionAnswers /\ ~P!SetupAnswers
      BY <1>2 DEF P!InspectionAnswers, P!SetupAnswers, P!Answered, ProjectsInv
    <3>4. \/ P!ChangeConfirmation \/ P!CheckRemoval \/ P!Remove
          \/ \E j \in Projects : P!ChangeRemovalTarget(j)
          \/ P!ListAnswers \/ P!PreviewAnswers
      BY <2>3, <3>1, <3>2, <3>3 DEF P!Next, P!vars, P!Person, P!Answer, P!Stop, P!Retire,
           P!Refresh, P!RunWorkspace, P!SubmitCatalog
    <3>5. CASE P!ChangeConfirmation \/ P!Remove
      <4>1. \/ pTask' = [pTask EXCEPT !.typed = TRUE]
            \/ pTask' = [pTask EXCEPT !.typed = FALSE, !.reviewing = FALSE]
        BY <3>5 DEF P!ChangeConfirmation, P!Remove
      <4>2. QED BY <2>1, <4>1 DEF P!RemovalTasks
    <3>6. CASE P!CheckRemoval \/ \E j \in Projects : P!ChangeRemovalTarget(j)
      BY <2>1, <3>6 DEF P!CheckRemoval, P!ChangeRemovalTarget, P!RemovalTasks
    <3>7. CASE P!ListAnswers \/ P!PreviewAnswers
      <4>1. \E p : pTask' = [pTask EXCEPT !.preview = p]
        BY <2>3, <3>7 DEF P!ListAnswers, P!PreviewAnswers
      <4>2. QED BY <2>1, <4>1 DEF P!RemovalTasks
    <3>8. QED BY <3>4, <3>5, <3>6, <3>7
  <2>4. QED BY <2>2, <2>3
<1>3. QED BY <1>1, <1>2

-----------------------------------------------------------------------------
(* The four pages (MCPages).                                               *)

PagesInv == TypeInv /\ ProjectsInv /\ R!TypeOK /\ UpdatesInv

\* A step of one page is a step of every page, or leaves it alone.
LEMMA EachPage ==
  [PagesNext]_documents =>
    [Next]_vars /\ [P!Next]_(P!vars) /\ [R!Next]_(R!vars) /\ [U!Next]_(U!vars)
<1>1. /\ UNCHANGED pVars <=> UNCHANGED P!vars
      /\ UNCHANGED rVars <=> UNCHANGED R!vars
      /\ UNCHANGED uVars <=> UNCHANGED U!vars
  BY DEF pVars, rVars, uVars, P!vars, R!vars, U!vars, U!machine, U!page
<1>2. CASE UNCHANGED documents
  <2>1. UNCHANGED <<vars, pVars, rVars, uVars>>
    BY <1>2 DEF documents
  <2>2. QED BY <1>1, <2>1
<1>3. CASE PagesNext
  <2>1. /\ Next \/ UNCHANGED vars
        /\ P!Next \/ UNCHANGED pVars
        /\ R!Next \/ UNCHANGED rVars
        /\ U!Next \/ UNCHANGED uVars
    BY <1>3 DEF PagesNext
  <2>2. QED BY <1>1, <2>1
<1>4. QED BY <1>2, <1>3

LEMMA PagesInvInit == PagesInit => PagesInv
  BY InitTypeInv, ProjectsInit, RunnersInit, UpdatesInit DEF PagesInit, PagesInv

LEMMA PagesInvStep == PagesInv /\ [PagesNext]_documents => PagesInv'
<1> SUFFICES ASSUME PagesInv, [PagesNext]_documents PROVE PagesInv'
  OBVIOUS
<1>1. [Next]_vars /\ [P!Next]_(P!vars) /\ [R!Next]_(R!vars) /\ [U!Next]_(U!vars)
  BY EachPage
<1>2. TypeInv' /\ ProjectsInv' /\ R!TypeOK' /\ UpdatesInv'
  BY <1>1, NextTypeInv, ProjectsStep, RunnersStep, UpdatesStep DEF PagesInv
<1>3. QED BY <1>2 DEF PagesInv

-----------------------------------------------------------------------------
(* The theorems.                                                           *)

\* In the stores of all four pages the variables have their types; where a page
\* is open it has an operation exactly while a function waits for an answer.
THEOREM PagesTypes == PagesSpec => []PagesTypeOK
<1>1. PagesInv => PagesTypeOK
  BY ProjectsTypes DEF PagesInv, PagesTypeOK, TypeInv, UpdatesInv
<1>2. QED BY <1>1, PagesInvInit, PagesInvStep, PTL DEF PagesSpec

\* The stores of projects, runners and updates implement PageStore: one
\* operation at a time, nothing changes on the screen without it, and nothing
\* read before the answer to the last command is left on a page at rest.
THEOREM StoresImplementPageStore == PagesSpec => StoresKeepPromise
<1>1. PagesInit => P!Promise!Init /\ R!Promise!Init /\ U!Promise!Init
  <2> SUFFICES ASSUME PagesInit PROVE P!Promise!Init /\ R!Promise!Init /\ U!Promise!Init
    OBVIOUS
  <2>1. P!Ages = {}
    BY TaskKinds DEF PagesInit, P!Init, P!Ages, P!NoInspections
  <2>2. P!Promise!Init
    BY <2>1 DEF PagesInit, P!Init, P!Promise!Init
  <2>3. R!Promise!Init /\ U!Promise!Init
    BY DEF PagesInit, R!Init, U!Init, R!Promise!Init, U!Promise!Init
  <2>4. QED BY <2>2, <2>3
<1>2. PagesInv /\ [PagesNext]_documents =>
        /\ [P!Promise!Next]_(P!Promise!vars)
        /\ [R!Promise!Next]_(R!Promise!vars)
        /\ [U!Promise!Next]_(U!Promise!vars)
  <2> SUFFICES ASSUME PagesInv, [PagesNext]_documents
               PROVE  /\ [P!Promise!Next]_(P!Promise!vars)
                      /\ [R!Promise!Next]_(R!Promise!vars)
                      /\ [U!Promise!Next]_(U!Promise!vars)
    OBVIOUS
  <2>1. [P!Next]_(P!vars) /\ [R!Next]_(R!vars) /\ [U!Next]_(U!vars)
    BY EachPage
  <2>2. QED BY <2>1, ProjectsStep, RunnersStep, UpdatesStep DEF PagesInv
<1>3. QED BY <1>1, <1>2, PagesInvInit, PagesInvStep, PTL
          DEF PagesSpec, StoresKeepPromise, P!KeepsPromise, R!KeepsPromise, U!KeepsPromise,
              P!Promise!Spec, R!Promise!Spec, U!Promise!Spec

\* A removal of a project begins with a preview read since the last command,
\* and the name that confirms it was typed with this preview on the screen.
THEOREM RemovesWhatWasShown == PagesSpec => RemovesWhatIsShown
<1>1. PagesInv /\ [PagesNext]_documents =>
        [pOperation # "remove" /\ pOperation' = "remove" =>
           pLooked /\ pTask.preview # None /\ pTask.preview.age = "fresh"]_(P!vars)
  BY EachPage, ProjectsActs DEF PagesInv
<1>2. QED BY <1>1, PagesInvInit, PagesInvStep, PTL
          DEF PagesSpec, RemovesWhatIsShown, P!RemovesWhatIsShown

\* What a page says of its last attempt outlives everything but the next
\* attempt: a removal's receipt or its unknown outcome, an update's error or
\* notice.
THEOREM EvidenceStays == PagesSpec => EvidenceIsKept
<1>1. PagesInv /\ [PagesNext]_documents =>
        /\ [pTask.kind = "removal" /\ pTask'.kind = "removal"
              /\ pAwaits[pGeneration] # "remove" =>
              pTask'.receipt = pTask.receipt /\ pTask'.unknown = pTask.unknown]_(P!vars)
        /\ [uActive /\ uActive' /\ ((uError /\ ~uError') \/ (uNotice /\ ~uNotice')) =>
              uOperation = None /\ uOperation' \in U!Kinds]_(U!vars)
  BY EachPage, ProjectsActs, UpdatesActs DEF PagesInv
<1>2. QED BY <1>1, PagesInvInit, PagesInvStep, PTL
          DEF PagesSpec, EvidenceIsKept, P!EvidenceIsKept, U!EvidenceIsKept

\* bootc upgrade --apply is started only where the status read for it still
\* holds, unless bootc ran outside Soda's lock in between: that of an
\* administrator, or one that outlived its killed soda-updates.
THEOREM AppliesWhatWasRead == PagesSpec => AppliesWhatItRead
<1>1. PagesInv /\ [PagesNext]_documents =>
        [\A c \in Processes :
           process[c].pc = "apply" /\ process'[c].pc = "applying" =>
             ~blocked \/ c \in disturbed]_(U!vars)
  BY EachPage, UpdatesActs DEF PagesInv
<1>2. QED BY <1>1, PagesInvInit, PagesInvStep, PTL
          DEF PagesSpec, AppliesWhatItRead, U!AppliesWhatItRead
=============================================================================
