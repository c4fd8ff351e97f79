------------------------------- MODULE Updates -------------------------------
(***************************************************************************)
(* Soda Updates: the processes of cmd/soda-updates, which take the         *)
(* non-blocking lock of internal/updates and run bootc, and the store of   *)
(* the Cockpit page that starts them (cockpit/src/updates/store.ts).       *)
(* Administrators run soda-updates in a terminal and bootc without Soda's  *)
(* lock.  All that is kept of the deployment status is whether it blocks   *)
(* an update (mutable, updateDiagnostic).                                  *)
(***************************************************************************)
EXTENDS Naturals

CONSTANTS Processes,      \* soda-updates check or update
          MaxGenerations, \* bound on opening and closing the page
          MaxFaults,      \* bound on signals, reboots, lost connections and
                          \* bootc commands outside Soda
          None            \* a model value

VARIABLES
    blocked,  \* bootc's status has a condition that mutable refuses
    process,  \* soda-updates processes: kind, pc, caller, and what they read
    lock,     \* holder of /run/soda-updates.lock, or None
    orphan,   \* a bootc runs whose soda-updates was killed
    disturbed, \* history: processes with bootc run outside Soda since they read
    faults, \* used of the bound
    active, generation,
    operation, \* the page's
    shown,    \* host: when it was read and whether it blocks, or None
    error, notice, \* what the page says of the last command
    awaits    \* generation -> what its function awaits

machine == <<blocked, process, lock, orphan, disturbed, faults>>
page == <<active, generation, operation, shown, error, notice, awaits>>
vars == <<machine, page>>

Generations == 0 .. MaxGenerations
NoProcess == [kind |-> "none", pc |-> "none", caller |-> None, read |-> None]
Statuses == [age : {"fresh", "stale"}, blocked : BOOLEAN]

Init ==
    /\ blocked \in BOOLEAN
    /\ process = [c \in Processes |-> NoProcess] /\ lock = None
    /\ orphan = FALSE /\ disturbed = {} /\ faults = 0
    /\ active = FALSE /\ generation = 0 /\ operation = None /\ shown = None
    /\ error = FALSE /\ notice = FALSE
    /\ awaits = [g \in Generations |-> "nothing"]

-----------------------------------------------------------------------------
(* soda-updates                                                            *)

Step(c, from, to) ==
    process[c].pc = from /\ process' = [process EXCEPT ![c].pc = to]
Fails(c, from) ==
    process[c].pc = from /\ process' = [process EXCEPT ![c].pc = "unlock", ![c].read = None]

\* What mutable reads may have changed when bootc has run.
BootcRan == blocked' \in BOOLEAN

Spawned(c, kind, caller) ==
    /\ process[c] = NoProcess
    /\ process' = [process EXCEPT ![c] = [kind |-> kind, pc |-> "lock", caller |-> caller,
                                          read |-> None]]

\* (mutation: LOCK_SH)
Lock_Shared(c) ==
    /\ IF process[c].kind = "check" THEN Step(c, "lock", "check") ELSE Step(c, "lock", "read")
    /\ lock' = c
    /\ UNCHANGED <<blocked, orphan, disturbed, faults, page>>

\* LOCK_EX | LOCK_NB: "another Soda update operation is running".
Lock(c) ==
    /\ IF lock # None THEN Step(c, "lock", "exit") /\ UNCHANGED lock
       ELSE /\ IF process[c].kind = "check" THEN Step(c, "lock", "check")
               ELSE Step(c, "lock", "read")
            /\ lock' = c
    /\ UNCHANGED <<blocked, orphan, disturbed, faults, page>>

\* bootc upgrade --check changes no condition of mutable.
Check(c) ==
    /\ Step(c, "check", "read") \/ Fails(c, "check")
    /\ UNCHANGED <<blocked, lock, orphan, disturbed, faults, page>>

ReadHost(c) ==
    /\ process[c].pc = "read"
    /\ \/ /\ process' = [process EXCEPT
                ![c].read = IF blocked THEN "blocked" ELSE "mutable",
                ![c].pc = IF process[c].kind = "update" /\ ~blocked
                          THEN "apply" ELSE "unlock"]
       \/ Fails(c, "read")
    /\ UNCHANGED <<blocked, lock, orphan, disturbed, faults, page>>

StartApply(c) ==
    /\ Step(c, "apply", "applying") /\ disturbed' = disturbed \ {c}
    /\ UNCHANGED <<blocked, lock, orphan, faults, page>>

EndApply(c) ==
    /\ Step(c, "applying", "unlock") \/ Fails(c, "applying")
    /\ BootcRan
    /\ UNCHANGED <<lock, orphan, disturbed, faults, page>>

\* The deferred Close, and the end of the process.
Unlock(c) ==
    /\ Step(c, "unlock", "exit") /\ lock' = None
    /\ UNCHANGED <<blocked, orphan, disturbed, faults, page>>

Succeeded(c) == IF process[c].kind = "check" THEN process[c].read # None
                ELSE process[c].read = "mutable"

\* A process is reaped when its page has its answer, or has gone.
Reap(c) ==
    /\ process[c].pc = "exit" /\ process[c].caller # generation
    /\ process' = [process EXCEPT ![c] = NoProcess]
    /\ UNCHANGED <<blocked, lock, orphan, disturbed, faults, page>>

Terminal(c) ==
    /\ \E kind \in {"check", "update"} : Spawned(c, kind, None)
    /\ UNCHANGED <<blocked, lock, orphan, disturbed, faults, page>>

-----------------------------------------------------------------------------
(* Faults                                                                  *)

Fault == faults < MaxFaults /\ faults' = faults + 1

\* SIGTERM or the three minutes of a check: bootc is killed and waited for.
Cancel(c) ==
    /\ Fault
    /\ \E pc \in {"check", "read", "apply", "applying"} : Fails(c, pc)
    /\ IF process[c].pc = "applying" THEN BootcRan ELSE UNCHANGED blocked
    /\ disturbed' = disturbed \ {c}
    /\ UNCHANGED <<lock, orphan, page>>

\* SIGKILL frees the lock; a running bootc goes on.
Kill(c) ==
    /\ Fault /\ process[c].pc \notin {"none", "exit"}
    /\ orphan' = (orphan \/ process[c].pc = "applying")
    /\ lock' = IF lock = c THEN None ELSE lock
    /\ process' = [process EXCEPT ![c] = NoProcess] /\ disturbed' = disturbed \ {c}
    /\ UNCHANGED <<blocked, page>>

\* The connection between page and process is lost; the process goes on.
Disconnect(c) ==
    /\ Fault /\ process[c].caller # None
    /\ process' = [process EXCEPT ![c].caller = None]
    /\ UNCHANGED <<blocked, lock, orphan, disturbed, page>>

\* By bootc after an update, or by anybody else.
Reboot ==
    /\ Fault
    /\ process' = [c \in Processes |-> NoProcess] /\ lock' = None
    /\ orphan' = FALSE /\ disturbed' = {} /\ BootcRan
    /\ UNCHANGED page

\* bootc of an administrator, who may also resolve what blocks, or an orphan.
OutsideSoda ==
    /\ \/ Fault /\ UNCHANGED orphan
       \/ orphan /\ orphan' = FALSE /\ UNCHANGED faults
    /\ BootcRan
    /\ disturbed' = {c \in Processes : process[c].pc = "apply"}
    /\ UNCHANGED <<process, lock, page>>

-----------------------------------------------------------------------------
(* The page                                                                *)

MayAct == active /\ operation = None
Awaits(c) == awaits' = [awaits EXCEPT ![generation] = c]

Start ==
    /\ ~active /\ generation < MaxGenerations
    /\ active' = TRUE /\ generation' = generation + 1
    /\ operation' = "read" /\ shown' = None /\ error' = FALSE /\ notice' = FALSE
    /\ awaits' = [awaits EXCEPT ![generation + 1] = "status"]
    /\ UNCHANGED machine

Stop ==
    /\ active /\ generation < MaxGenerations
    /\ active' = FALSE /\ generation' = generation + 1
    /\ UNCHANGED <<machine, operation, shown, error, notice, awaits>>

\* A function whose generation is over does nothing with its answer.
Retire(g) ==
    /\ awaits[g] # "nothing" /\ ~(active /\ g = generation)
    /\ awaits' = [awaits EXCEPT ![g] = "nothing"]
    /\ UNCHANGED <<machine, active, generation, operation, shown, error, notice>>

\* By its button, and whenever the window gets the focus.
Refresh ==
    /\ MayAct /\ operation' = "read" /\ Awaits("status")
    /\ UNCHANGED <<machine, active, generation, shown, error, notice>>

Begins(kind) ==
    /\ MayAct /\ operation' = kind /\ Awaits(kind)
    /\ error' = FALSE /\ notice' = FALSE
    /\ \E c \in Processes : Spawned(c, kind, generation)
    /\ UNCHANGED <<blocked, lock, orphan, disturbed, faults, active, generation>>

CheckUpdates == Begins("check") /\ shown' = None

Update == shown # None /\ ~shown.blocked /\ Begins("update") /\ shown' = None

\* Status is readable while an operation runs.
StatusAnswers ==
    /\ active /\ awaits[generation] \in {"status", "statusAfter", "statusAfterFailure"}
    /\ shown' \in {None, [age |-> "fresh", blocked |-> blocked]}
    /\ error' = (error \/ awaits[generation] = "statusAfterFailure")
    /\ operation' = None /\ Awaits("nothing")
    /\ UNCHANGED <<machine, active, generation, notice>>

\* The call of a process that was killed or lost fails.
Answers(ok, c) ==
    \/ /\ process[c].pc = "exit" /\ process[c].caller = generation /\ ok = Succeeded(c)
       /\ process' = [process EXCEPT ![c] = NoProcess]
    \/ /\ \A d \in Processes : process[d].caller # generation
       /\ ok = FALSE /\ UNCHANGED process

CheckAnswers ==
    /\ active /\ awaits[generation] = "check"
    /\ \E ok \in BOOLEAN, c \in Processes :
         /\ Answers(ok, c)
         /\ shown' = IF ok THEN [age |-> "fresh", blocked |-> process[c].read = "blocked"]
                     ELSE IF shown = None THEN None ELSE [shown EXCEPT !.age = "stale"]
         /\ error' = ~ok
    /\ operation' = None /\ Awaits("nothing")
    /\ UNCHANGED <<blocked, lock, orphan, disturbed, faults, active, generation, notice>>

\* The outcome of an update is read back whatever the command answers.
UpdateAnswers ==
    /\ active /\ awaits[generation] = "update"
    /\ \E ok \in BOOLEAN, c \in Processes :
         /\ Answers(ok, c)
         /\ notice' = ok
         /\ Awaits(IF ok THEN "statusAfter" ELSE "statusAfterFailure")
    /\ UNCHANGED <<blocked, lock, orphan, disturbed, faults, active, generation, operation,
                   shown, error>>

-----------------------------------------------------------------------------
Run(c) == Lock(c) \/ Check(c) \/ ReadHost(c) \/ StartApply(c) \/ EndApply(c) \/ Unlock(c)
          \/ Reap(c)

Answer == StatusAnswers \/ CheckAnswers \/ UpdateAnswers

Next ==
    \/ \E c \in Processes : Run(c) \/ Terminal(c) \/ Cancel(c) \/ Kill(c) \/ Disconnect(c)
    \/ Reboot \/ OutsideSoda
    \/ Start \/ Stop \/ Refresh \/ CheckUpdates \/ Update \/ Answer
    \/ \E g \in Generations : Retire(g)

\* Every process that runs comes to its end, and with it every call.
Fairness ==
    /\ \A c \in Processes : WF_vars(Run(c))
    /\ WF_vars(Answer) /\ \A g \in Generations : WF_vars(Retire(g))

Spec == Init /\ [][Next]_vars /\ Fairness

-----------------------------------------------------------------------------
(* Properties                                                              *)

Kinds == {"check", "update"}
TypeOK ==
    /\ blocked \in BOOLEAN /\ orphan \in BOOLEAN /\ lock \in Processes \cup {None}
    /\ process \in [Processes ->
         [kind : Kinds, caller : Generations \cup {None}, read : {None, "blocked", "mutable"},
          pc : {"lock", "check", "read", "apply", "applying", "unlock", "exit"}]
         \cup {NoProcess}]
    /\ disturbed \subseteq {c \in Processes : process[c].pc = "apply"} /\ faults \in 0 .. MaxFaults
    /\ active \in BOOLEAN /\ generation \in Generations
    /\ operation \in Kinds \cup {"read", None}
    /\ shown \in Statuses \cup {None} /\ error \in BOOLEAN /\ notice \in BOOLEAN
    /\ awaits \in [Generations -> Kinds \cup {"nothing", "status", "statusAfter",
                                              "statusAfterFailure"}]

\* bootc upgrade --apply begins on a status that was read for it and still
\* holds, whatever other pages and terminals do and whichever of their calls are
\* cancelled or lost, unless bootc ran outside Soda's lock since: that of an
\* administrator, or one that outlived its killed soda-updates.
AppliesWhatItRead ==
    [][\A c \in Processes :
         process[c].pc = "apply" /\ process'[c].pc = "applying" =>
           ~blocked \/ c \in disturbed]_vars

\* A status from before a check or an update does not survive it, not even when
\* it fails: the promise of PageStore.
Promise == INSTANCE PageStore WITH
    open <- active, busy <- operation # None,
    shown <- IF shown = None THEN "nothing" ELSE shown.age
KeepsPromise == Promise!Spec

\* "refresh does not erase its error" (docs/cockpit-updates.md:46): only the
\* next command clears what is said of the last one.
EvidenceIsKept ==
    [][active /\ active' /\ ((error /\ ~error') \/ (notice /\ ~notice')) =>
         operation = None /\ operation' \in Kinds]_vars
=============================================================================
