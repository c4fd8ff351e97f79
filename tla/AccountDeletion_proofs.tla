------------------------ MODULE AccountDeletion_proofs ------------------------
(***************************************************************************)
(* Theorems about AccountDeletion, for any number of logins and faults.    *)
(***************************************************************************)
EXTENDS AccountDeletion, TLAPS

\* What the attempt has seen of the unit since its signals ended the manager:
\* only a login, which begins a new one, changes an inactive unit.
Seen ==
    /\ pc = "reset" /\ signalled => unit \in {"failed", "inactive"}
    /\ pc \in {"recheck", "userdel"} /\ terminated /\ signalled => unit = "inactive"
    /\ answer = "removed" /\ terminated /\ signalled => unit = "inactive"

\* An attempt past its last check knows the account, unless it changed since.
Checked == pc = "userdel" /\ account = "changed" => late

IInv == TypeOK /\ Seen /\ Checked

LEMMA InitIInv == Init => IInv
  <1> SUFFICES ASSUME Init PROVE IInv
    OBVIOUS
  <1>1. logins \in 0 .. MaxLogins /\ faults \in 0 .. MaxFaults
    BY DeletionAssumption DEF DeletionAssumption, Init
  <1>2. TypeOK
    <2>1. CASE processes = {} /\ listed = FALSE /\ unit = "inactive"
      BY <1>1, <2>1, Zenon DEF Init, TypeOK
    <2>2. CASE processes = {"session", "manager"} /\ listed = TRUE /\ unit = "active"
      BY <1>1, <2>2, Zenon DEF Init, TypeOK
    <2> QED BY <2>1, <2>2, Zenon DEF Init
  <1> QED BY <1>2, Zenon DEF Init, IInv, Seen, Checked

\* The commands before the unit is looked at.
LEMMA EndingProcesses ==
    ASSUME IInv, Start \/ Revalidate \/ ListUsers \/ TerminateUser \/ PKillTerm
                 \/ PKillKill \/ VerifyNoProcesses
    PROVE  IInv'
  <1> USE DEF Goes, accountVars, ownerVars
  <1>1. CASE Start
    BY <1>1 DEF Start, IInv, TypeOK, Seen, Checked
  <1>2. CASE Revalidate
    BY <1>2 DEF Revalidate, IInv, TypeOK, Seen, Checked
  <1>3. CASE ListUsers
    BY <1>3 DEF ListUsers, IInv, TypeOK, Seen, Checked
  <1>4. CASE TerminateUser
    BY <1>4 DEF TerminateUser, Signal, IInv, TypeOK, Seen, Checked
  <1>5. CASE PKillTerm
    BY <1>5 DEF PKillTerm, Signal, IInv, TypeOK, Seen, Checked
  <1>6. CASE PKillKill
    BY <1>6 DEF PKillKill, Signal, IInv, TypeOK, Seen, Checked
  <1>7. CASE VerifyNoProcesses
    BY <1>7 DEF VerifyNoProcesses, IInv, TypeOK, Seen, Checked
  <1> QED BY <1>1, <1>2, <1>3, <1>4, <1>5, <1>6, <1>7

\* The unit is looked at and reset, the account checked and deleted.
LEMMA Deleting ==
    ASSUME IInv, ShowManager \/ ResetFailed \/ ShowManagerAgain \/ RevalidateAgain
                 \/ UserDel \/ Fails \/ KillHelper
    PROVE  IInv'
  <1> USE DEF Goes, Ends, accountVars, ownerVars
  <1>1. CASE ShowManager
    BY <1>1 DEF ShowManager, IInv, TypeOK, Seen, Checked
  <1>2. CASE ResetFailed
    BY <1>2 DEF ResetFailed, IInv, TypeOK, Seen, Checked
  <1>3. CASE ShowManagerAgain
    BY <1>3 DEF ShowManagerAgain, IInv, TypeOK, Seen, Checked
  <1>4. CASE RevalidateAgain
    BY <1>4 DEF RevalidateAgain, Sound, IInv, TypeOK, Seen, Checked
  <1>5. CASE UserDel
    <2>1. ASSUME NEW keeps \in BOOLEAN, UserDelRemoves(keeps)
          PROVE  home' \in BOOLEAN /\ account' = "gone" /\ UNCHANGED <<late, ownerVars>>
      BY <2>1, Zenon DEF UserDelRemoves
    <2>2. PICK keeps \in BOOLEAN : UserDelRemoves(keeps)
      BY <1>5 DEF UserDel
    <2>3. /\ pc = "userdel" /\ pc' = "idle" /\ answer' \in {"removed", "uncertain"}
          /\ UNCHANGED <<terminated, faults>>
      BY <1>5 DEF UserDel
    <2>4. home' \in BOOLEAN /\ account' = "gone" /\ UNCHANGED <<late, ownerVars>>
      BY <2>1, <2>2
    <2>5. TypeOK'
      BY <2>3, <2>4, Zenon DEF IInv, TypeOK
    <2>6. Seen'
      BY <2>3, <2>4, Zenon DEF IInv, Seen
    <2>7. Checked'
      BY <2>3, Zenon DEF Checked
    <2> QED BY <2>5, <2>6, <2>7, Zenon DEF IInv
  <1>6. CASE Fails
    BY <1>6 DEF Fails, IInv, TypeOK, Seen, Checked
  <1>7. CASE KillHelper
    <2>1. faults' \in 0 .. MaxFaults
      BY <1>7, DeletionAssumption DEF DeletionAssumption, KillHelper, IInv, TypeOK
    <2>2. ASSUME NEW keeps \in BOOLEAN, UserDelRemoves(keeps)
          PROVE  home' \in BOOLEAN /\ account' = "gone" /\ UNCHANGED <<late, ownerVars>>
      BY <2>2, Zenon DEF UserDelRemoves
    <2>3. home' \in BOOLEAN /\ account' \in {account, "gone"} /\ UNCHANGED <<late, ownerVars>>
      BY <1>7, <2>2 DEF KillHelper, IInv, TypeOK
    <2>4. pc' = "idle" /\ answer' = "none" /\ terminated' = terminated
      BY <1>7 DEF KillHelper
    <2> QED BY <2>1, <2>3, <2>4, Zenon DEF IInv, TypeOK, Seen, Checked
  <1> QED BY <1>1, <1>2, <1>3, <1>4, <1>5, <1>6, <1>7

\* Everybody else, at any time.
LEMMA FromOutside == ASSUME IInv, Outside PROVE IInv'
  <1> USE DEF accountVars, ownerVars
  <1>1. CASE Login
    <2>1. logins' \in 0 .. MaxLogins
      BY <1>1, DeletionAssumption DEF DeletionAssumption, Login, IInv, TypeOK
    <2> QED BY <1>1, <2>1, Zenon DEF Login, IInv, TypeOK, Seen, Checked
  <1>2. CASE Logout
    BY <1>2 DEF Logout, IInv, TypeOK, Seen, Checked
  <1>3. CASE ManagerEnds
    BY <1>3 DEF ManagerEnds, IInv, TypeOK, Seen, Checked
  <1>4. CASE LogindForgets
    BY <1>4 DEF LogindForgets, IInv, TypeOK, Seen, Checked
  <1>5. CASE NativeReset
    BY <1>5 DEF NativeReset, IInv, TypeOK, Seen, Checked
  <1>6. CASE NativeChange
    <2>1. faults' \in 0 .. MaxFaults
      BY <1>6, DeletionAssumption DEF DeletionAssumption, NativeChange, IInv, TypeOK
    <2>2. late' \in BOOLEAN /\ (pc = "userdel" => late')
      BY <1>6, Zenon DEF NativeChange
    <2>3. account' \in {"reviewed", "changed", "gone"}
      BY <1>6 DEF NativeChange
    <2>4. UNCHANGED <<home, ownerVars, pc, terminated, answer>>
      BY <1>6 DEF NativeChange
    <2> QED BY <2>1, <2>2, <2>3, <2>4, Zenon DEF IInv, TypeOK, Seen, Checked
  <1> QED BY <1>1, <1>2, <1>3, <1>4, <1>5, <1>6 DEF Outside

LEMMA Invariance == Spec => []IInv
  <1>1. IInv /\ [Next]_vars => IInv'
    <2> SUFFICES ASSUME IInv, [Next]_vars PROVE IInv'
      OBVIOUS
    <2>1. CASE UNCHANGED vars
      BY <2>1 DEF vars, accountVars, ownerVars, IInv, TypeOK, Seen, Checked
    <2>2. CASE Next
      BY <2>2, EndingProcesses, Deleting, FromOutside DEF Next, DeletionStep
    <2> QED BY <2>1, <2>2
  <1> QED BY InitIInv, <1>1, PTL DEF Spec

\* Every reachable state has its types, an attempt that runs has no answer yet,
\* and only one that terminated the user looks at the unit.
THEOREM DeletionTyped == Spec => []TypeOK
  BY Invariance, PTL DEF IInv

\* Whoever terminated the user's sessions does not report the account removed
\* while the manager its signals ended is failed (resetFailedUserManager).
THEOREM FailureIsReset == Spec => []ResetsWhatItBroke
  <1>1. IInv => ResetsWhatItBroke
    BY DEF IInv, Seen, ResetsWhatItBroke
  <1> QED BY Invariance, <1>1, PTL

\* userdel never removes an identity that changed before the last check
\* (revalidateAccountForDeletion), although it goes by name.
THEOREM OnlyCheckedDeleted == Spec => DeletesOnlyChecked
  <1>1. IInv /\ [Next]_vars => [account = "changed" /\ account' = "gone" => late]_vars
    <2> SUFFICES ASSUME IInv, Next, account = "changed", account' = "gone"
                 PROVE  late
      BY DEF vars
    <2>1. account' # account
      OBVIOUS
    <2>2. pc = "userdel"
      <3>1. CASE Start \/ DeletionStep \/ Fails
        BY <2>1, <3>1
        DEF DeletionStep, Start, Fails, Revalidate, ListUsers, TerminateUser, PKillTerm,
            PKillKill, VerifyNoProcesses, ShowManager, ResetFailed, ShowManagerAgain,
            RevalidateAgain, UserDel, accountVars
      <3>2. CASE KillHelper
        BY <2>1, <3>2 DEF KillHelper, accountVars
      <3>3. CASE Outside
        BY <2>1, <3>3
        DEF Outside, Login, Logout, ManagerEnds, LogindForgets, NativeReset, NativeChange,
            accountVars
      <3> QED BY <3>1, <3>2, <3>3 DEF Next
    <2> QED BY <2>2 DEF IInv, Checked
  <1> QED BY Invariance, <1>1, PTL DEF Spec, DeletesOnlyChecked
=============================================================================
