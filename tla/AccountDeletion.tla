--------------------------- MODULE AccountDeletion ---------------------------
(***************************************************************************)
(* How one Linux account is deleted (linuxhost: Native.DeleteAccount),     *)
(* native command by native command, beside its owner, who may still log   *)
(* in, systemd, which notices later than pgrep what became of the owner's  *)
(* user manager, and an administrator who works outside Soda.  Deletions   *)
(* of one account never overlap (Projects: the exclusive operation lock),  *)
(* but a failed or killed one may be tried again.                          *)
(***************************************************************************)
EXTENDS Naturals

CONSTANTS MaxLogins, \* bound on logins after the deletion was requested
          MaxFaults  \* bound on killed helpers and on native replacements

ASSUME DeletionAssumption == MaxLogins \in Nat /\ MaxFaults \in Nat

VARIABLES account,    \* "reviewed", "changed" (the name has another identity) or "gone"
          home,       \* whether its home directory is there
          processes,  \* what runs with its UID: "session" and "manager"
          listed,     \* logind lists the user
          unit,       \* ActiveState of user@UID.service
          pc,         \* next command of the deletion
          terminated, \* this attempt has terminated the logind user
          answer,     \* of the last attempt
          signalled,  \* history: Soda has ended the user manager since the last login
          late,       \* history: the identity changed after the last check
          logins, faults

accountVars == <<account, home, late>>
ownerVars == <<processes, listed, unit, signalled, logins>>
vars == <<accountVars, ownerVars, pc, terminated, answer, faults>>

Init ==
    /\ account = "reviewed" /\ home = TRUE /\ late = FALSE
    /\ \/ processes = {} /\ listed = FALSE /\ unit = "inactive"
       \/ processes = {"session", "manager"} /\ listed = TRUE /\ unit = "active"
    /\ pc = "idle" /\ terminated = FALSE /\ answer = "none"
    /\ signalled = FALSE
    /\ logins = 0 /\ faults = 0

\* The attempt goes on with the next command, or ends with an answer.
Goes(l) == pc' = l /\ UNCHANGED <<terminated, answer, faults>>
Ends(a) == pc' = "idle" /\ answer' = a /\ UNCHANGED <<terminated, faults>>

-----------------------------------------------------------------------------
(* The deletion                                                            *)

Start ==
    /\ pc = "idle" /\ account = "reviewed"
    /\ pc' = "revalidate" /\ terminated' = FALSE /\ answer' = "none"
    /\ UNCHANGED <<accountVars, ownerVars, faults>>

\* Any command may fail, or refuse what it finds.
Fails ==
    /\ pc # "idle" /\ Ends("uncertain")
    /\ UNCHANGED <<accountVars, ownerVars>>

\* Name, UID, group membership and home are those of the preview.
Sound == account = "reviewed" /\ home

Revalidate ==
    /\ pc = "revalidate" /\ Sound /\ Goes("list")
    /\ UNCHANGED <<accountVars, ownerVars>>

\* Mutation: the user is taken to be logged in.
ListUsers_Not ==
    /\ pc = "list"
    /\ Goes("terminate")
    /\ UNCHANGED <<accountVars, ownerVars>>

ListUsers ==
    /\ pc = "list"
    /\ Goes(IF listed THEN "terminate" ELSE "term")
    /\ UNCHANGED <<accountVars, ownerVars>>

\* Soda's signals end these processes.
Signal(gone) ==
    /\ processes' = processes \ gone
    /\ signalled' = (signalled \/ "manager" \in processes \cap gone)

\* logind stops the sessions and the manager in its own time.
TerminateUser ==
    /\ pc = "terminate" /\ listed
    /\ \E gone \in SUBSET {"session"} : Signal(gone)
    /\ unit' \in IF unit = "active" THEN {"active", "deactivating"} ELSE {unit}
    /\ pc' = "term" /\ terminated' = TRUE
    /\ UNCHANGED <<accountVars, listed, logins, answer, faults>>

PKillTerm ==
    /\ pc = "term"
    /\ \E gone \in SUBSET {"session", "manager"} : Signal(gone)
    /\ Goes("kill")
    /\ UNCHANGED <<accountVars, listed, unit, logins>>

PKillKill ==
    /\ pc = "kill"
    /\ Signal({"session", "manager"})
    /\ Goes("verify")
    /\ UNCHANGED <<accountVars, listed, unit, logins>>

\* pgrep is asked until it finds nothing or five seconds have passed, which is
\* one of the Fails (mutations: nobody resets; everybody does).
VerifyNoProcesses_NoReset ==
    /\ pc = "verify" /\ processes = {}
    /\ Goes("recheck")
    /\ UNCHANGED <<accountVars, ownerVars>>

VerifyNoProcesses_Resets ==
    /\ pc = "verify" /\ processes = {}
    /\ Goes("show")
    /\ UNCHANGED <<accountVars, ownerVars>>

VerifyNoProcesses ==
    /\ pc = "verify" /\ processes = {}
    /\ Goes(IF terminated THEN "show" ELSE "recheck")
    /\ UNCHANGED <<accountVars, ownerVars>>

\* Any state but these two is an error.
ShowManager ==
    /\ pc = "show"
    /\ \/ unit = "inactive" /\ Goes("recheck")
       \/ unit = "failed" /\ Goes("reset")
    /\ UNCHANGED <<accountVars, ownerVars>>

ResetFailed ==
    /\ pc = "reset"
    /\ \/ /\ unit' = IF unit = "failed" THEN "inactive" ELSE unit
          /\ Goes("recheck")
       \/ Goes("showAgain") /\ UNCHANGED unit
    /\ UNCHANGED <<accountVars, processes, listed, signalled, logins>>

\* A unit that was unloaded before it could be reset needs no reset.
ShowManagerAgain ==
    /\ pc = "showAgain" /\ unit = "inactive" /\ Goes("recheck")
    /\ UNCHANGED <<accountVars, ownerVars>>

\* Mutation: the account was already checked at the beginning.
RevalidateAgain_Not ==
    /\ pc = "recheck" /\ Goes("userdel")
    /\ UNCHANGED <<accountVars, ownerVars>>

RevalidateAgain ==
    /\ pc = "recheck" /\ Sound /\ Goes("userdel")
    /\ UNCHANGED <<accountVars, ownerVars>>

\* userdel --remove goes by name and refuses a user who has processes; the
\* account is gone before its home is.
UserDelRemoves(keepsHome) ==
    /\ account # "gone" /\ (account = "reviewed" => processes = {})
    /\ account' = "gone"
    /\ home' = (home /\ keepsHome)
    /\ UNCHANGED <<late, ownerVars>>

UserDel ==
    /\ pc = "userdel"
    /\ \/ UserDelRemoves(FALSE) /\ Ends("removed")
       \/ UserDelRemoves(TRUE) /\ Ends("uncertain")

\* The helper is killed; a userdel it has started runs on.
KillHelper ==
    /\ pc # "idle" /\ faults < MaxFaults /\ faults' = faults + 1
    /\ pc' = "idle" /\ answer' = "none"
    /\ \/ UNCHANGED <<accountVars, ownerVars>>
       \/ pc = "userdel" /\ \E keepsHome \in BOOLEAN : UserDelRemoves(keepsHome)
    /\ UNCHANGED terminated

-----------------------------------------------------------------------------
(* The owner, systemd and an administrator                                 *)

Login ==
    /\ account = "reviewed" /\ home /\ unit # "deactivating"
    /\ logins < MaxLogins /\ logins' = logins + 1
    /\ processes' = {"session", "manager"} /\ listed' = TRUE /\ unit' = "active"
    /\ signalled' = FALSE
    /\ UNCHANGED <<accountVars, pc, terminated, answer, faults>>

\* The sessions end: the manager is stopped, and exits well or badly.
Logout ==
    /\ "session" \in processes
    /\ processes' = processes \ {"session"}
    /\ unit' = IF unit = "active" THEN "deactivating" ELSE unit
    /\ UNCHANGED <<accountVars, listed, signalled, logins, pc, terminated, answer, faults>>

ManagerEnds ==
    /\ unit \in {"active", "deactivating"} /\ "session" \notin processes
    /\ unit' \in {"inactive", "failed"} /\ processes' = {}
    /\ UNCHANGED <<accountVars, listed, signalled, logins, pc, terminated, answer, faults>>

\* logind forgets a user whose manager has ended, systemd a failure only when
\* an administrator resets it.
LogindForgets ==
    /\ listed /\ processes = {} /\ unit \in {"inactive", "failed"}
    /\ listed' = FALSE
    /\ UNCHANGED <<accountVars, processes, unit, signalled, logins, pc, terminated,
                   answer, faults>>

NativeReset ==
    /\ unit = "failed" /\ unit' = "inactive"
    /\ UNCHANGED <<accountVars, processes, listed, signalled, logins, pc, terminated,
                   answer, faults>>

\* The account is deleted, or its name given to another identity, outside Soda.
NativeChange ==
    /\ account = "reviewed" /\ faults < MaxFaults /\ faults' = faults + 1
    /\ account' \in {"changed", "gone"}
    /\ late' = (pc = "userdel")
    /\ UNCHANGED <<home, ownerVars, pc, terminated, answer>>

-----------------------------------------------------------------------------
DeletionStep ==
    \/ Revalidate \/ ListUsers \/ TerminateUser \/ PKillTerm \/ PKillKill
    \/ VerifyNoProcesses \/ ShowManager \/ ResetFailed \/ ShowManagerAgain
    \/ RevalidateAgain \/ UserDel

Outside == Login \/ Logout \/ ManagerEnds \/ LogindForgets \/ NativeReset \/ NativeChange

Next == Start \/ DeletionStep \/ Fails \/ KillHelper \/ Outside

\* Whoever asked tries again; systemd and logind work; a command tried again
\* and again sooner or later works, and so does the removal of the home.
Fairness ==
    /\ WF_vars(Start) /\ WF_vars(DeletionStep \/ Fails)
    /\ WF_vars(ManagerEnds) /\ WF_vars(LogindForgets)
    /\ SF_vars(Revalidate) /\ SF_vars(ListUsers) /\ SF_vars(TerminateUser)
    /\ SF_vars(PKillTerm) /\ SF_vars(PKillKill) /\ SF_vars(VerifyNoProcesses)
    /\ SF_vars(ShowManager) /\ SF_vars(ResetFailed /\ pc' = "recheck")
    /\ SF_vars(RevalidateAgain) /\ SF_vars(UserDel)

Spec == Init /\ [][Next]_vars
FairSpec == Spec /\ Fairness

-----------------------------------------------------------------------------
(* Properties                                                              *)

TypeOK ==
    /\ account \in {"reviewed", "changed", "gone"} /\ home \in BOOLEAN
    /\ processes \subseteq {"session", "manager"} /\ listed \in BOOLEAN
    /\ unit \in {"inactive", "active", "deactivating", "failed"}
    /\ pc \in {"idle", "revalidate", "list", "terminate", "term", "kill", "verify",
               "show", "reset", "showAgain", "recheck", "userdel"}
    /\ terminated \in BOOLEAN /\ answer \in {"none", "removed", "uncertain"}
    /\ signalled \in BOOLEAN /\ late \in BOOLEAN
    /\ logins \in 0 .. MaxLogins /\ faults \in 0 .. MaxFaults
    /\ pc # "idle" => answer = "none"
    /\ pc \in {"show", "reset", "showAgain"} => terminated

\* Name, UID and home are checked again after the seconds termination may take:
\* an identity that changed before that last check is never deleted, although
\* userdel goes by name.
DeletesOnlyChecked ==
    [][account = "changed" /\ account' = "gone" => late]_vars

\* "Reset only that exact user@<uid>.service failure" (bug-notes.md:958): when
\* an attempt that terminated the user's sessions reports the account removed,
\* the manager its signals ended is not left failed.
ResetsWhatItBroke ==
    answer = "removed" /\ terminated /\ signalled => unit # "failed"

\* "Any other state or a reset that leaves the unit failed remains a visible
\* error, with the account and catalog entry retained" (bug-notes.md:976): also
\* when the attempt that ended the manager failed and a later one removes the
\* account.
NoFailedManagerLeft == answer = "removed" /\ signalled => unit # "failed"

\* However often commands fail, helpers are killed and the owner comes back, an
\* attempt never makes the next one impossible: retrying deletes the account.
RetriesDelete == <>(account # "reviewed")
=============================================================================
