---------------------------- MODULE Publication -----------------------------
(***************************************************************************)
(* How setup publishes one workspace's clone (projects/workspace:          *)
(* Accounts.Publish, Repository.CloneExists and Repository.Publish), file  *)
(* operation by file operation.  Two names of the Projects directory       *)
(* matter: ".soda-ID.tmp" (tmp) and "ID" (final).  Each names a directory, *)
(* an inode, or is missing.  A session is a coordinator, which holds the   *)
(* workspace's setup lock, with its helper, which does the work as root.   *)
(***************************************************************************)
EXTENDS Naturals, FiniteSets

CONSTANTS Sessions, \* slots for concurrent setups of this workspace
          Inodes,   \* directories the file system may use
          MaxFaults, \* bound on kills of coordinators and on reboots
          None

ASSUME PublicationAssumption ==
    /\ IsFiniteSet(Inodes) /\ IsFiniteSet(Sessions)
    /\ None \notin Inodes \cup Sessions
    /\ MaxFaults \in Nat

VARIABLES tmp, final, \* what the two names refer to
          content,    \* inode -> "empty", "partial" (.git, no commit) or "complete"
          lock,       \* the session that holds the setup lock
          pc,         \* control state of each helper
          fd,         \* the directory each helper keeps open as its target
          victim,     \* the directory its rm --recursive is emptying
          faults,
          overlapped  \* history: two helpers of this workspace have run at once

vars == <<tmp, final, content, lock, pc, fd, victim, faults, overlapped>>

Contents == {"empty", "partial", "complete"}

InUse == {tmp, final} \cup {fd[s] : s \in Sessions} \cup {victim[s] : s \in Sessions}
Unused == Inodes \ InUse

\* The workspace account exists; nothing, an earlier attempt's directory or a
\* complete checkout is in its Projects directory.
Init ==
    /\ tmp \in Inodes \cup {None} /\ final \in Inodes \cup {None}
    /\ tmp # None => tmp # final
    /\ content \in [Inodes -> Contents]
    /\ \A i \in Inodes : i \notin {tmp, final} => content[i] = "empty"
    /\ final # None => content[final] = "complete"
    /\ lock = None
    /\ pc = [s \in Sessions |-> "idle"]
    /\ fd = [s \in Sessions |-> None]
    /\ victim = [s \in Sessions |-> None]
    /\ faults = 0 /\ overlapped = FALSE

\* A name refers to a directory that is not empty.
Filled(name) == name # None /\ content[name] # "empty"

Goes(s, l) == pc' = [pc EXCEPT ![s] = l] /\ UNCHANGED <<lock, faults, overlapped>>

-----------------------------------------------------------------------------
\* The coordinator takes the setup lock and starts its helper.
Begin(s) ==
    /\ pc[s] = "idle" /\ lock = None
    /\ lock' = s
    /\ pc' = [pc EXCEPT ![s] = "inspect"]
    /\ overlapped' = (overlapped \/ \E o \in Sessions : pc[o] # "idle")
    /\ UNCHANGED <<tmp, final, content, fd, victim, faults>>

\* CloneExists: a directory without .git is an error; a .git whose HEAD is an
\* unborn branch counts as a clone (validateUnbornHead).
Inspect(s) ==
    /\ pc[s] = "inspect"
    /\ \/ final = None /\ Goes(s, "clear")
       \/ Filled(final) /\ Goes(s, "published")
       \/ Goes(s, "failed")
    /\ UNCHANGED <<tmp, final, content, fd, victim>>

\* removePreviousAttempt opens what the name refers to, empties it file by
\* file and unlinks the name; a missing name is no error
\* (mutations: a missing name is opened all the same; nothing is removed).
ClearPrevious_NoCheck(s) ==
    /\ pc[s] = "clear"
    /\ victim' = [victim EXCEPT ![s] = tmp]
    /\ Goes(s, "empty")
    /\ UNCHANGED <<tmp, final, content, fd>>

ClearPrevious_Never(s) ==
    /\ pc[s] = "clear"
    /\ Goes(s, "reserve")
    /\ UNCHANGED <<tmp, final, content, fd, victim>>

ClearPrevious(s) ==
    /\ pc[s] = "clear"
    /\ victim' = [victim EXCEPT ![s] = tmp]
    /\ Goes(s, IF tmp = None THEN "reserve" ELSE "empty")
    /\ UNCHANGED <<tmp, final, content, fd>>

EmptyPrevious(s) ==
    /\ pc[s] = "empty"
    /\ \/ /\ content' = [content EXCEPT ![victim[s]] = "partial"]
          /\ Goes(s, "empty") \/ Goes(s, "failed")
       \/ content' = [content EXCEPT ![victim[s]] = "empty"] /\ Goes(s, "unlink")
    /\ UNCHANGED <<tmp, final, fd, victim>>

UnlinkPrevious(s) ==
    /\ pc[s] = "unlink"
    /\ \/ Filled(tmp) /\ Goes(s, "failed") /\ UNCHANGED tmp
       \/ ~Filled(tmp) /\ Goes(s, "reserve") /\ tmp' = None
    /\ victim' = [victim EXCEPT ![s] = None]
    /\ UNCHANGED <<final, content, fd>>

\* mkdirat refuses an existing name.
Reserve(s) ==
    /\ pc[s] = "reserve"
    /\ \/ /\ tmp = None
          /\ \E i \in Unused : tmp' = i /\ content' = [content EXCEPT ![i] = "empty"]
          /\ Goes(s, "open")
       \/ tmp # None /\ Goes(s, "failed") /\ UNCHANGED <<tmp, content>>
    /\ UNCHANGED <<final, fd, victim>>

OpenTarget(s) ==
    /\ pc[s] = "open"
    /\ fd' = [fd EXCEPT ![s] = tmp]
    /\ Goes(s, IF tmp = None THEN "failed" ELSE "git")
    /\ UNCHANGED <<tmp, final, content, victim>>

-----------------------------------------------------------------------------
(* git clone works by path: it fills an empty directory, makes a missing   *)
(* one, refuses another, and when it fails may empty what the path names.  *)

GitStarts(s) ==
    /\ pc[s] = "git"
    /\ \/ /\ tmp # None /\ ~Filled(tmp)
          /\ content' = [content EXCEPT ![tmp] = "partial"]
          /\ Goes(s, "clone") /\ UNCHANGED tmp
       \/ /\ tmp = None
          /\ \E i \in Unused : tmp' = i /\ content' = [content EXCEPT ![i] = "partial"]
          /\ Goes(s, "clone")
       \/ Filled(tmp) /\ Goes(s, "failed") /\ UNCHANGED <<tmp, content>>
    /\ UNCHANGED <<final, fd, victim>>

\* A git whose directory was taken away does not succeed.
GitSucceeds(s) ==
    /\ pc[s] = "clone" /\ tmp = fd[s] /\ content[tmp] = "partial"
    /\ content' = [content EXCEPT ![tmp] = "complete"]
    /\ Goes(s, "validate")
    /\ UNCHANGED <<tmp, final, fd, victim>>

\* Mutation: the exit status of git is not looked at.
GitFails_Ignored(s) ==
    /\ pc[s] = "clone"
    /\ Goes(s, "validate")
    /\ UNCHANGED <<tmp, final, content, fd, victim>>

GitFails(s) ==
    /\ pc[s] = "clone"
    /\ \/ UNCHANGED content
       \/ tmp # None /\ content' = [content EXCEPT ![tmp] = "empty"]
    /\ Goes(s, "failed")
    /\ UNCHANGED <<tmp, final, fd, victim>>

-----------------------------------------------------------------------------
\* validateCopiedWorkspace reads the open directory, not the name.
ValidateTree(s) ==
    /\ pc[s] = "validate"
    /\ \/ content[fd[s]] # "empty" /\ Goes(s, "check")
       \/ Goes(s, "failed")
    /\ UNCHANGED <<tmp, final, content, fd, victim>>

\* The name still refers to the open directory: before and after restorecon.
CheckEntry(s) ==
    /\ pc[s] = "check"
    /\ Goes(s, IF tmp = fd[s] THEN "relabel" ELSE "failed")
    /\ UNCHANGED <<tmp, final, content, fd, victim>>

Relabel(s) ==
    /\ pc[s] = "relabel"
    /\ \/ tmp = fd[s] /\ Goes(s, "rename")
       \/ Goes(s, "failed")
    /\ UNCHANGED <<tmp, final, content, fd, victim>>

\* Mutation: a plain rename.
Rename_Replaces(s) ==
    /\ pc[s] = "rename" /\ tmp # None
    /\ final' = tmp /\ tmp' = None /\ Goes(s, "sync")
    /\ UNCHANGED <<content, fd, victim>>

\* renameat2(RENAME_NOREPLACE) by name.
Rename(s) ==
    /\ pc[s] = "rename"
    /\ \/ /\ tmp # None /\ final = None
          /\ final' = tmp /\ tmp' = None /\ Goes(s, "sync")
       \/ /\ tmp = None \/ final # None
          /\ Goes(s, "failed") /\ UNCHANGED <<tmp, final>>
    /\ UNCHANGED <<content, fd, victim>>

SyncProjects(s) ==
    /\ pc[s] = "sync"
    /\ Goes(s, "published") \/ Goes(s, "failed")
    /\ UNCHANGED <<tmp, final, content, fd, victim>>

\* The helper exits and its coordinator, if it lives, releases the lock.
Reply(s) ==
    /\ pc[s] \in {"published", "failed"}
    /\ pc' = [pc EXCEPT ![s] = "idle"]
    /\ fd' = [fd EXCEPT ![s] = None]
    /\ victim' = [victim EXCEPT ![s] = None]
    /\ lock' = IF lock = s THEN None ELSE lock
    /\ UNCHANGED <<tmp, final, content, faults, overlapped>>

\* A killed coordinator's lock is free at once; its helper is not killed.
KillCoordinator(s) ==
    /\ lock = s
    /\ faults < MaxFaults /\ faults' = faults + 1
    /\ lock' = None
    /\ UNCHANGED <<tmp, final, content, pc, fd, victim, overlapped>>

Reboot ==
    /\ faults < MaxFaults /\ faults' = faults + 1
    /\ pc' = [s \in Sessions |-> "idle"]
    /\ fd' = [s \in Sessions |-> None]
    /\ victim' = [s \in Sessions |-> None]
    /\ lock' = None
    /\ UNCHANGED <<tmp, final, content, overlapped>>

HelperStep(s) ==
    \/ Inspect(s) \/ ClearPrevious(s) \/ EmptyPrevious(s) \/ UnlinkPrevious(s)
    \/ Reserve(s) \/ OpenTarget(s) \/ GitStarts(s) \/ GitSucceeds(s) \/ GitFails(s)
    \/ ValidateTree(s) \/ CheckEntry(s) \/ Relabel(s) \/ Rename(s)
    \/ SyncProjects(s) \/ Reply(s)

Next == Reboot \/ \E s \in Sessions : Begin(s) \/ HelperStep(s) \/ KillCoordinator(s)

Spec == Init /\ [][Next]_vars

\* Helpers run; people retry; a command that is tried again and again sooner
\* or later works.
Fairness ==
    /\ WF_vars(\E s \in Sessions : Begin(s))
    /\ \A s \in Sessions : /\ WF_vars(HelperStep(s))
                           /\ WF_vars(EmptyPrevious(s) /\ pc'[s] # "empty")
    /\ SF_vars(\E s \in Sessions : Inspect(s) /\ pc'[s] = "clear")
    /\ SF_vars(\E s \in Sessions : EmptyPrevious(s) /\ pc'[s] = "unlink")
    /\ SF_vars(\E s \in Sessions : GitSucceeds(s))
    /\ SF_vars(\E s \in Sessions : ValidateTree(s) /\ pc'[s] = "check")
    /\ SF_vars(\E s \in Sessions : Relabel(s) /\ pc'[s] = "rename")

FairSpec == Spec /\ Fairness

-----------------------------------------------------------------------------
(* Properties                                                              *)

TypeOK ==
    /\ tmp \in Inodes \cup {None} /\ final \in Inodes \cup {None}
    /\ content \in [Inodes -> Contents]
    /\ lock \in Sessions \cup {None}
    /\ pc \in [Sessions -> {"idle", "inspect", "clear", "empty", "unlink", "reserve",
                            "open", "git", "clone", "validate", "check", "relabel",
                            "rename", "sync", "published", "failed"}]
    /\ fd \in [Sessions -> Inodes \cup {None}]
    /\ victim \in [Sessions -> Inodes \cup {None}]
    /\ faults \in 0 .. MaxFaults /\ overlapped \in BOOLEAN
    /\ tmp # None => tmp # final
    /\ \A s \in Sessions :
         /\ pc[s] \in {"empty", "unlink"} => victim[s] # None
         /\ pc[s] \in {"git", "clone", "validate", "check", "relabel", "rename", "sync"}
              => fd[s] # None

\* "A complete clone is the only successful outcome" (accounts.go:118): what a
\* helper reports to its coordinator as published is there and is complete.
PublishedIsComplete ==
    \A s \in Sessions : pc[s] = "published" /\ lock = s =>
        final # None /\ content[final] = "complete"

\* As long as the setup lock has kept helpers apart, whatever is killed or
\* rebooted, the steps above implement the one-step promise of Checkout: nobody
\* sees a checkout appear other than complete, or change under setup.
Promise == INSTANCE Checkout WITH
    checkout <- IF final = None THEN "absent" ELSE content[final],
    reported <- {s \in Sessions : pc[s] = "published"}
PublishesAtomically == Promise!Init /\ [][overlapped' \/ Promise!Next]_(Promise!vars)

\* Nothing setup does, not even a helper that outlived its coordinator beside
\* another one, replaces or removes a published checkout.
NeverReplaced == [][final # None => final' = final]_vars

\* Whatever an interrupted attempt left behind, retrying publishes.
RetriesPublish == <>(final # None)
=============================================================================
