-------------------------- MODULE Publication_proofs -------------------------
(***************************************************************************)
(* Theorems about Publication, for every set of sessions and directories.  *)
(***************************************************************************)
EXTENDS Publication, TLAPS

USE PublicationAssumption

LEMMA InitType == Init => TypeOK
<1> SUFFICES ASSUME Init PROVE TypeOK
  OBVIOUS
<1>1. faults = 0 /\ overlapped = FALSE
  BY DEF Init
<1>2. 0 \in 0 .. MaxFaults
  OBVIOUS
<1>3. \A s \in Sessions : pc[s] = "idle"
  BY DEF Init
<1>4. QED BY <1>1, <1>2, <1>3 DEF Init, TypeOK

LEMMA HelperType ==
  ASSUME TypeOK, NEW s \in Sessions, HelperStep(s)
  PROVE  TypeOK'
<1> USE DEF TypeOK, Goes, Contents
<1>1. CASE Inspect(s) BY <1>1 DEF Inspect
<1>2. CASE ClearPrevious(s) BY <1>2 DEF ClearPrevious
<1>3. CASE EmptyPrevious(s) BY <1>3 DEF EmptyPrevious
<1>4. CASE UnlinkPrevious(s) BY <1>4 DEF UnlinkPrevious
<1>5. CASE Reserve(s) BY <1>5 DEF Reserve, Unused, InUse
<1>6. CASE OpenTarget(s) BY <1>6 DEF OpenTarget
<1>7. CASE GitStarts(s) BY <1>7 DEF GitStarts, Unused, InUse
<1>8. CASE GitSucceeds(s) BY <1>8 DEF GitSucceeds
<1>9. CASE GitFails(s) BY <1>9 DEF GitFails
<1>10. CASE ValidateTree(s) BY <1>10 DEF ValidateTree
<1>11. CASE CheckEntry(s) BY <1>11 DEF CheckEntry
<1>12. CASE Relabel(s) BY <1>12 DEF Relabel
<1>13. CASE Rename(s) BY <1>13 DEF Rename
<1>14. CASE SyncProjects(s) BY <1>14 DEF SyncProjects
<1>15. CASE Reply(s) BY <1>15 DEF Reply
<1>16. QED BY <1>1, <1>2, <1>3, <1>4, <1>5, <1>6, <1>7, <1>8, <1>9, <1>10, <1>11, <1>12, <1>13,
              <1>14, <1>15 DEF HelperStep

LEMMA NextType == TypeOK /\ [Next]_vars => TypeOK'
<1> SUFFICES ASSUME TypeOK, [Next]_vars PROVE TypeOK'
  OBVIOUS
<1> USE DEF TypeOK
<1>1. ASSUME NEW s \in Sessions, Begin(s) PROVE TypeOK'
  BY <1>1 DEF Begin
<1>2. ASSUME NEW s \in Sessions, KillCoordinator(s) PROVE TypeOK'
  BY <1>2 DEF KillCoordinator
<1>3. CASE Reboot
  BY <1>3 DEF Reboot
<1>4. CASE UNCHANGED vars
  BY <1>4 DEF vars
<1>5. QED BY <1>1, <1>2, <1>3, <1>4, HelperType DEF Next

\* Every variable keeps its type, the two names never refer to one directory,
\* and a helper that works on a directory has it open.
THEOREM TypeCorrect == Spec => []TypeOK
  BY InitType, NextType, PTL DEF Spec

-----------------------------------------------------------------------------
\* A published checkout stays: the only step that moves the name "ID" finds
\* it missing.
THEOREM CheckoutStays == Spec => NeverReplaced
<1>1. [Next]_vars => [final # None => final' = final]_vars
  BY DEF Next, Reboot, Begin, KillCoordinator, HelperStep, Inspect, ClearPrevious, EmptyPrevious,
         UnlinkPrevious, Reserve, OpenTarget, GitStarts, GitSucceeds, GitFails, ValidateTree,
         CheckEntry, Relabel, Rename, SyncProjects, Reply
<1>2. QED BY <1>1, PTL DEF Spec, NeverReplaced

-----------------------------------------------------------------------------
(* The file operations implement the one-step promise as long as no two    *)
(* helpers of the workspace have run at once.                              *)

\* The helper that runs is alone.
OneHelper == \A s, t \in Sessions : pc[s] # "idle" /\ pc[t] # "idle" => s = t

\* What it has established on its way.
Stage(s) ==
    /\ pc[s] \in {"clear", "empty", "unlink", "reserve", "open", "git", "clone",
                  "validate", "check", "relabel", "rename"} => final = None
    /\ pc[s] \in {"git", "clone", "validate", "check", "relabel", "rename"} => tmp = fd[s]
    /\ pc[s] \in {"validate", "check", "relabel", "rename"} => content[fd[s]] = "complete"
    /\ pc[s] \in {"sync", "published"} => final # None

CheckoutComplete == final # None => content[final] = "complete"

Orderly == ~overlapped => OneHelper /\ CheckoutComplete /\ \A s \in Sessions : Stage(s)

LEMMA HelperOrderly ==
  ASSUME TypeOK, Orderly, NEW s \in Sessions, HelperStep(s)
  PROVE  Orderly'
<1> SUFFICES ASSUME ~overlapped
             PROVE  (OneHelper /\ CheckoutComplete)' /\ \A t \in Sessions : Stage(t)'
  BY DEF HelperStep, Inspect, ClearPrevious, EmptyPrevious, UnlinkPrevious, Reserve, OpenTarget,
         GitStarts, GitSucceeds, GitFails, ValidateTree, CheckEntry, Relabel, Rename, SyncProjects,
         Reply, Goes, Orderly
<1>1. OneHelper /\ CheckoutComplete /\ Stage(s) /\ pc[s] # "idle"
  BY DEF HelperStep, Inspect, ClearPrevious, EmptyPrevious, UnlinkPrevious, Reserve, OpenTarget,
         GitStarts, GitSucceeds, GitFails, ValidateTree, CheckEntry, Relabel, Rename, SyncProjects,
         Reply, Orderly
<1>2. \A t \in Sessions \ {s} : pc[t] = "idle" /\ pc'[t] = "idle"
  BY <1>1 DEF HelperStep, Inspect, ClearPrevious, EmptyPrevious, UnlinkPrevious, Reserve,
         OpenTarget, GitStarts, GitSucceeds, GitFails, ValidateTree, CheckEntry, Relabel, Rename,
         SyncProjects, Reply, Goes, OneHelper, TypeOK
<1>3. OneHelper'
  BY <1>2 DEF OneHelper
<1>4. \A t \in Sessions \ {s} : Stage(t)'
  BY <1>2 DEF Stage
<1>5. CheckoutComplete' /\ Stage(s)'
  <2> USE <1>1 DEF TypeOK, Goes, CheckoutComplete, Stage
  <2>1. CASE Inspect(s) BY <2>1 DEF Inspect, Filled
  <2>2. CASE ClearPrevious(s) BY <2>2 DEF ClearPrevious
  <2>3. CASE EmptyPrevious(s) BY <2>3 DEF EmptyPrevious
  <2>4. CASE UnlinkPrevious(s) BY <2>4 DEF UnlinkPrevious
  <2>5. CASE Reserve(s) BY <2>5 DEF Reserve
  <2>6. CASE OpenTarget(s) BY <2>6 DEF OpenTarget
  <2>7. CASE GitStarts(s) BY <2>7 DEF GitStarts
  <2>8. CASE GitSucceeds(s) BY <2>8 DEF GitSucceeds
  <2>9. CASE GitFails(s) BY <2>9 DEF GitFails
  <2>10. CASE ValidateTree(s) BY <2>10 DEF ValidateTree
  <2>11. CASE CheckEntry(s) BY <2>11 DEF CheckEntry
  <2>12. CASE Relabel(s) BY <2>12 DEF Relabel
  <2>13. CASE Rename(s) BY <2>13 DEF Rename
  <2>14. CASE SyncProjects(s) BY <2>14 DEF SyncProjects
  <2>15. CASE Reply(s) BY <2>15 DEF Reply
  <2>16. QED BY <2>1, <2>2, <2>3, <2>4, <2>5, <2>6, <2>7, <2>8, <2>9, <2>10, <2>11, <2>12, <2>13,
                <2>14, <2>15 DEF HelperStep
<1>6. QED BY <1>3, <1>4, <1>5

LEMMA NextOrderly == TypeOK /\ Orderly /\ [Next]_vars => Orderly'
<1> SUFFICES ASSUME TypeOK, Orderly, [Next]_vars PROVE Orderly'
  OBVIOUS
<1>1. ASSUME NEW s \in Sessions, Begin(s) PROVE Orderly'
  <2> SUFFICES ASSUME ~overlapped'
               PROVE  (OneHelper /\ CheckoutComplete)' /\ \A t \in Sessions : Stage(t)'
    BY DEF Orderly
  <2>1. \A t \in Sessions : pc[t] = "idle"
    BY <1>1 DEF Begin
  <2>2. CheckoutComplete'
    BY <1>1 DEF Begin, Orderly, CheckoutComplete
  <2>3. OneHelper' /\ \A t \in Sessions : Stage(t)'
    BY <1>1, <2>1 DEF Begin, OneHelper, Stage, TypeOK
  <2>4. QED BY <2>2, <2>3
<1>2. ASSUME NEW s \in Sessions, KillCoordinator(s) PROVE Orderly'
  BY <1>2 DEF KillCoordinator, Orderly, OneHelper, CheckoutComplete, Stage
<1>3. CASE Reboot
  BY <1>3 DEF Reboot, Orderly, OneHelper, CheckoutComplete, Stage
<1>4. CASE UNCHANGED vars
  BY <1>4 DEF vars, Orderly, OneHelper, CheckoutComplete, Stage
<1>5. QED BY <1>1, <1>2, <1>3, <1>4, HelperOrderly DEF Next

LEMMA OrderlyHolds == Spec => [](TypeOK /\ Orderly)
<1>1. Init => Orderly
  BY DEF Init, Orderly, OneHelper, CheckoutComplete, Stage
<1>2. QED BY <1>1, NextOrderly, TypeCorrect, PTL DEF Spec

\* Each step is a step of the promise, or two helpers have overlapped.
LEMMA PromiseStep ==
  ASSUME TypeOK, Orderly, [Next]_vars, ~overlapped'
  PROVE  Promise!Next
<1>1. ~overlapped
  BY DEF Next, Reboot, Begin, KillCoordinator, HelperStep, Inspect, ClearPrevious, EmptyPrevious,
         UnlinkPrevious, Reserve, OpenTarget, GitStarts, GitSucceeds, GitFails, ValidateTree,
         CheckEntry, Relabel, Rename, SyncProjects, Reply, Goes, vars
<1> DEFINE checkout == IF final = None THEN "absent" ELSE content[final]
           reported == {s \in Sessions : pc[s] = "published"}
<1>2. CheckoutComplete /\ CheckoutComplete'
  BY <1>1, NextOrderly DEF Orderly
<1>3. CASE UNCHANGED final /\ reported' \subseteq reported
  BY <1>2, <1>3 DEF CheckoutComplete, Promise!Next, Promise!End
<1>4. ASSUME NEW s \in Sessions, UNCHANGED final, final # None, reported' = reported \cup {s}
      PROVE  Promise!Next
  BY <1>2, <1>4 DEF CheckoutComplete, Promise!Next, Promise!Report
<1>5. ASSUME NEW s \in Sessions, HelperStep(s) PROVE Promise!Next
  <2> USE DEF TypeOK, Goes
  <2>1. CASE Rename(s)
    <3>1. CASE final = None /\ final' # None /\ reported' = reported
      BY <1>2, <3>1 DEF CheckoutComplete, Promise!Next, Promise!Appear
    <3>2. QED BY <1>3, <2>1, <3>1 DEF Rename
  <2>2. CASE Inspect(s)
    BY <1>3, <1>4, <2>2 DEF Inspect, Filled
  <2>3. CASE SyncProjects(s)
    BY <1>1, <1>3, <1>4, <2>3 DEF SyncProjects, Orderly, Stage
  <2>4. CASE UNCHANGED final /\ pc'[s] # "published" /\ \A t \in Sessions \ {s} : pc'[t] = pc[t]
    BY <1>3, <2>4
  <2>5. QED BY <1>5, <2>1, <2>2, <2>3, <2>4
        DEF HelperStep, ClearPrevious, EmptyPrevious, UnlinkPrevious, Reserve, OpenTarget,
            GitStarts, GitSucceeds, GitFails, ValidateTree, CheckEntry, Relabel, Reply
<1>6. ASSUME NEW s \in Sessions, Begin(s) \/ KillCoordinator(s) PROVE Promise!Next
  BY <1>3, <1>6 DEF Begin, KillCoordinator, TypeOK
<1>7. CASE Reboot
  BY <1>3, <1>7 DEF Reboot
<1>8. CASE UNCHANGED vars
  BY <1>3, <1>8 DEF vars
<1>9. QED BY <1>5, <1>6, <1>7, <1>8 DEF Next

\* Publication implements Checkout for as long as the setup lock has kept the
\* helpers apart, through kills and reboots.
THEOREM ImplementsCheckout == Spec => PublishesAtomically
<1>1. Init => Promise!Init
  BY DEF Init, Promise!Init
<1>2. TypeOK /\ Orderly /\ [Next]_vars => [overlapped' \/ Promise!Next]_(Promise!vars)
  BY PromiseStep
<1>3. QED BY <1>1, <1>2, OrderlyHolds, PTL DEF Spec, PublishesAtomically

-----------------------------------------------------------------------------
(* Without a killed coordinator the setup lock does keep helpers apart.    *)

LockedHelper ==
    faults = 0 => ~overlapped /\ \A s \in Sessions : pc[s] # "idle" => lock = s

LEMMA NextLocked == TypeOK /\ LockedHelper /\ [Next]_vars => LockedHelper'
<1> SUFFICES ASSUME TypeOK, LockedHelper, [Next]_vars PROVE LockedHelper'
  OBVIOUS
<1>1. ASSUME NEW s \in Sessions, Begin(s) PROVE LockedHelper'
  BY <1>1 DEF Begin, LockedHelper, TypeOK
<1>2. ASSUME NEW s \in Sessions, KillCoordinator(s) PROVE LockedHelper'
  BY <1>2 DEF KillCoordinator, LockedHelper, TypeOK
<1>3. ASSUME NEW s \in Sessions, Reply(s) PROVE LockedHelper'
  BY <1>3 DEF Reply, LockedHelper, TypeOK
<1>4. ASSUME NEW s \in Sessions, HelperStep(s), ~Reply(s) PROVE LockedHelper'
  <2>1. /\ UNCHANGED <<lock, faults, overlapped>> /\ pc[s] # "idle"
        /\ \A t \in Sessions \ {s} : pc'[t] = pc[t]
    BY <1>4 DEF HelperStep, Inspect, ClearPrevious, EmptyPrevious, UnlinkPrevious, Reserve,
         OpenTarget, GitStarts, GitSucceeds, GitFails, ValidateTree, CheckEntry, Relabel, Rename,
         SyncProjects, Goes, TypeOK
  <2>2. QED BY <2>1 DEF LockedHelper
<1>5. CASE Reboot
  BY <1>5 DEF Reboot, LockedHelper, TypeOK
<1>6. CASE UNCHANGED vars
  BY <1>6 DEF vars, LockedHelper
<1>7. QED BY <1>1, <1>2, <1>3, <1>4, <1>5, <1>6 DEF Next

\* Until a coordinator is killed, or the machine restarts, whatever is reported
\* as published is there and complete: the kill is what it takes.
THEOREM CompleteUnlessKilled == Spec => [](faults = 0 => PublishedIsComplete)
<1>1. Init => LockedHelper
  BY DEF Init, LockedHelper
<1>2. TypeOK /\ Orderly /\ LockedHelper => (faults = 0 => PublishedIsComplete)
  BY DEF LockedHelper, Orderly, CheckoutComplete, Stage, PublishedIsComplete
<1>3. QED BY <1>1, <1>2, NextLocked, OrderlyHolds, PTL DEF Spec
=============================================================================
