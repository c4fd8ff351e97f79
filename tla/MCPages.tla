------------------------------- MODULE MCPages -------------------------------
(***************************************************************************)
(* The four Cockpit pages, checked in one run.  Each page is a document of *)
(* its own with nothing shared, so a behaviour is that of one page, chosen *)
(* at the start, while the others stay unopened.  The Updates page is      *)
(* opened again only in behaviours without faults.                         *)
(***************************************************************************)
EXTENDS TailscalePage

CONSTANTS Projects, Ids, Processes, MaxGenerations, MaxFaults

VARIABLES document, \* "tailscale", "projects", "runners" or "updates"
          pActive, pGeneration, pOperation, pTask, pData, pInspections, pAwaits, pLooked,
          rActive, rGeneration, rOperation, rData, rDialog, rFormError, rAwaits,
          blocked, process, lock, orphan, disturbed, faults,
          uActive, uGeneration, uOperation, uShown, uError, uNotice, uAwaits

P == INSTANCE ProjectsPage WITH
       active <- pActive, generation <- pGeneration, operation <- pOperation,
       task <- pTask, data <- pData, inspections <- pInspections, awaits <- pAwaits,
       looked <- pLooked
R == INSTANCE RunnersPage WITH
       active <- rActive, generation <- rGeneration, operation <- rOperation,
       data <- rData, dialog <- rDialog, formError <- rFormError, awaits <- rAwaits
U == INSTANCE Updates WITH
       active <- uActive, generation <- uGeneration, operation <- uOperation,
       shown <- uShown, error <- uError, notice <- uNotice, awaits <- uAwaits

\* None is not a value of a type that it marks the absence of.
ASSUME PagesAssumption ==
    /\ MaxGenerations \in Nat /\ MaxFaults \in Nat
    /\ None \notin {"ok", "incomplete", "fresh", "stale"} \cup Projects \cup Ids \cup Processes
    /\ None \notin {"list", "catalog", "inspect", "setup", "remove"} \cup P!Inspections
    /\ None \notin P!Previews /\ None \notin R!Operations /\ None \notin R!Listings
    /\ None \notin {"read", "blocked", "mutable"} \cup U!Kinds \cup U!Statuses

pVars == <<pActive, pGeneration, pOperation, pTask, pData, pInspections, pAwaits, pLooked>>
rVars == <<rActive, rGeneration, rOperation, rData, rDialog, rFormError, rAwaits>>
uVars == <<blocked, process, lock, orphan, disturbed, faults,
           uActive, uGeneration, uOperation, uShown, uError, uNotice, uAwaits>>
documents == <<document, vars, pVars, rVars, uVars>>

PagesInit == /\ document \in {"tailscale", "projects", "runners", "updates"}
             /\ Init /\ P!Init /\ R!Init /\ U!Init
             /\ document # "tailscale" => host.identity = None
             /\ document # "updates" => ~blocked

PagesNext ==
    \/ /\ document = "tailscale" /\ Next
       /\ UNCHANGED <<document, pVars, rVars, uVars>>
    \/ /\ document = "projects" /\ P!Next
       /\ UNCHANGED <<document, vars, rVars, uVars>>
    \/ /\ document = "runners" /\ R!Next
       /\ UNCHANGED <<document, vars, pVars, uVars>>
    \/ /\ document = "updates" /\ U!Next
       /\ uGeneration' > 2 => faults' = 0
       /\ UNCHANGED <<document, vars, pVars, rVars>>

PagesSpec == /\ PagesInit /\ [][PagesNext]_documents
             /\ Fairness /\ P!Fairness /\ R!Fairness /\ U!Fairness

-----------------------------------------------------------------------------
\* Every page's variables have their types.
PagesTypeOK == TypeOK /\ P!TypeOK /\ R!TypeOK /\ U!TypeOK

\* No operation of a page stays begun: neither by a promise nobody settles nor
\* by operations that wait for each other, as a command of the Tailscale page
\* waits for a read, the read for a refresh of Forgejo, and the refresh is shared.
Busy == \/ view.operation # None
        \/ pActive /\ pOperation # None
        \/ rActive /\ rOperation # None
        \/ uActive /\ uOperation # None
PagesEnd == Busy ~> ~Busy

\* The stores of projects, runners and updates show nothing that was read
\* before the answer to their last command, whether it was done, failed or
\* lost, and no answer to an earlier opening (PageStore).
StoresKeepPromise == P!KeepsPromise /\ R!KeepsPromise /\ U!KeepsPromise

\* A removal is of the preview the person looked at when typing the name.
RemovesWhatIsShown == P!RemovesWhatIsShown

\* What is known of the last attempt outlives reads, for removals of projects
\* and for updates.
EvidenceIsKept == P!EvidenceIsKept /\ U!EvidenceIsKept

\* bootc upgrade --apply begins on a status that still holds, unless bootc was
\* used outside Soda.
AppliesWhatItRead == U!AppliesWhatItRead
=============================================================================
