-------------------------- MODULE Projects_proofs ---------------------------
(***************************************************************************)
(* Theorems about Projects, for every set of people, projects, setups,     *)
(* removals and writers.                                                   *)
(***************************************************************************)
EXTENDS Projects, TLAPS

USE ProjectsAssumption
USE DEF hostVars, lockVars, setupVars, removalVars, writerVars, bounds
USE DEF MayLockSetup, MayLockShared, MayLockExclusive, MayLockCatalog,
        StillRequested, Revalidated, NotAttempted, CatalogOutcome

-----------------------------------------------------------------------------
(* Type correctness, a lemma per process                                   *)

LEMMA BlankType ==
    /\ NoRequest \in SetupRequests /\ NoRemoval \in RemovalRequests
    /\ NoReceipt \in Receipts /\ NoChange \in Changes
    /\ NoCatalog \in [ProjectIDs -> URLs \cup {None}]
  BY DEF NoRequest, NoRemoval, NoReceipt, NoChange, NoCatalog, NoScope, SetupRequests,
         RemovalRequests, Receipts, Changes, Scopes, Actions

LEMMA AccountType ==
    /\ Workspaces \subseteq Accounts
    /\ \A p \in People : Primary(p) \in Accounts \ Workspaces
  BY DEF Accounts, Workspaces, Primary

LEMMA InitType == Init => TypeOK
<1> SUFFICES ASSUME Init PROVE TypeOK
  OBVIOUS
<1>1. HostTypeOK
  <2>1. \A a \in Accounts \ Workspaces : uid[a] \in UIDs
    BY DEF Init, InitHost, Exists, UIDs
  <2>2. \A u \in UIDs : [NewHome(u) EXCEPT !.keys = TRUE] \in Homes
    BY DEF NewHome, Homes
  <2>3. QED BY <2>1, <2>2 DEF Init, InitHost, HostTypeOK
<1>2. LockTypeOK
  BY DEF Init, InitProcesses, LockTypeOK
<1>3. SetupTypeOK
  BY BlankType DEF Init, InitProcesses, SetupTypeOK
<1>4. RemovalTypeOK
  BY BlankType DEF Init, InitProcesses, RemovalTypeOK
<1>5. WriterTypeOK
  BY BlankType DEF Init, InitProcesses, WriterTypeOK
<1>6. QED BY <1>1, <1>2, <1>3, <1>4, <1>5 DEF Init, InitProcesses, TypeOK

\* What keeps its variables keeps its type.
LEMMA Stable ==
    ASSUME TypeOK
    PROVE  /\ UNCHANGED hostVars => HostTypeOK'
           /\ UNCHANGED lockVars => LockTypeOK'
           /\ UNCHANGED setupVars => SetupTypeOK'
           /\ UNCHANGED removalVars => RemovalTypeOK'
           /\ UNCHANGED writerVars => WriterTypeOK'
<1>1. UNCHANGED hostVars => HostTypeOK' BY DEF TypeOK, HostTypeOK
<1>2. UNCHANGED lockVars => LockTypeOK' BY DEF TypeOK, LockTypeOK
<1>3. UNCHANGED setupVars => SetupTypeOK' BY DEF TypeOK, SetupTypeOK, Target
<1>4. UNCHANGED removalVars => RemovalTypeOK' BY DEF TypeOK, RemovalTypeOK
<1>5. UNCHANGED writerVars => WriterTypeOK' BY DEF TypeOK, WriterTypeOK
<1>6. QED BY <1>1, <1>2, <1>3, <1>4, <1>5

LEMMA SetupType ==
  ASSUME TypeOK, NEW s \in Setups,
         StartSetup(s) \/ SetupStep(s) \/ CancelSetup(s) \/ KillCoordinator(s)
  PROVE  TypeOK'
<1> USE Stable DEF TypeOK
<1>1. CASE StartSetup(s)
  <2>1. SetupTypeOK'
    BY <1>1 DEF StartSetup, SetupTypeOK, SetupRequests, HostTypeOK, Accounts, Primary, Target, Workspaces
  <2>2. QED BY <1>1, <2>1 DEF StartSetup
<1>2. CASE LockSetup(s)
  <2>1. SetupTypeOK'
    BY <1>2 DEF LockSetup, SetupTypeOK, Target
  <2>2. LockTypeOK'
    BY <1>2 DEF LockSetup, LockTypeOK
  <2>3. QED BY <1>2, <2>1, <2>2 DEF LockSetup
<1>3. CASE ShareOperation(s)
  <2>1. SetupTypeOK'
    BY <1>3 DEF ShareOperation, SetupTypeOK, Target
  <2>2. LockTypeOK'
    BY <1>3 DEF ShareOperation, LockTypeOK, ByCoordinator
  <2>3. QED BY <1>3, <2>1, <2>2 DEF ShareOperation
<1>4. CASE GetEntry(s)
  <2>1. request[s] \in SetupRequests /\ Target(s) \in Workspaces
    BY <1>4 DEF GetEntry, SetupTypeOK
  <2>2. catalog[request[s].project] \in URLs \cup {None}
    BY <2>1 DEF HostTypeOK, Target, Workspaces
  <2>3. request' \in [Setups -> SetupRequests]
    BY <1>4, <2>1, <2>2 DEF GetEntry, SetupTypeOK, SetupRequests
  <2>4. \A t \in Setups : Target(t)' = Target(t)
    BY <1>4, <2>1 DEF GetEntry, SetupTypeOK, SetupRequests, Target
  <2>5. SetupTypeOK'
    BY <1>4, <2>3, <2>4 DEF GetEntry, SetupTypeOK
  <2>6. QED BY <1>4, <2>5 DEF GetEntry
<1>5. CASE HelperReplies(s)
  <2>1. request[s] \in SetupRequests
    BY DEF SetupTypeOK
  <2>2. request' \in [Setups -> SetupRequests]
    BY <1>5, <2>1 DEF HelperReplies, SetupTypeOK, SetupRequests
  <2>3. \A t \in Setups : Target(t)' = Target(t)
    BY <1>5, <2>1 DEF HelperReplies, SetupTypeOK, SetupRequests, Target
  <2>4. SetupTypeOK'
    BY <1>5, <2>2, <2>3 DEF HelperReplies, SetupTypeOK
  <2>5. QED BY <1>5, <2>4 DEF HelperReplies
<1>6. CASE UnlockOperation(s)
  <2>1. SetupTypeOK'
    BY <1>6 DEF UnlockOperation, SetupTypeOK, Target
  <2>2. LockTypeOK'
    BY <1>6 DEF UnlockOperation, LockTypeOK
  <2>3. QED BY <1>6, <2>1, <2>2 DEF UnlockOperation
<1>7. CASE UnlockSetup(s)
  <2>1. SetupTypeOK'
    BY <1>7, BlankType DEF UnlockSetup, SetupTypeOK, Target
  <2>2. LockTypeOK'
    BY <1>7 DEF UnlockSetup, LockTypeOK
  <2>3. QED BY <1>7, <2>1, <2>2 DEF UnlockSetup
<1>8. CASE ReapOrphan(s)
  <2>1. SetupTypeOK'
    BY <1>8, BlankType DEF ReapOrphan, SetupTypeOK, Target
  <2>2. QED BY <1>8, <2>1 DEF ReapOrphan
<1>9. CASE CancelSetup(s)
  <2>1. SetupTypeOK'
    BY <1>9, BlankType DEF CancelSetup, SetupTypeOK, Target
  <2>2. QED BY <1>9, <2>1 DEF CancelSetup
<1>10. CASE KillCoordinator(s)
  <2>1. SetupTypeOK'
    BY <1>10 DEF KillCoordinator, SetupTypeOK, Target
  <2>2. LockTypeOK'
    BY <1>10 DEF KillCoordinator, LockTypeOK, HeldSetupLocksFreed
  <2>3. QED BY <1>10, <2>1, <2>2 DEF KillCoordinator
<1>11. QED BY <1>1, <1>2, <1>3, <1>4, <1>5, <1>6, <1>7, <1>8, <1>9, <1>10 DEF SetupStep

LEMMA UserAddType ==
  ASSUME HostTypeOK, NEW a, UserAdd(a)
  PROVE  uid' \in [Accounts -> 0 .. MaxUID] /\ home' \in [Accounts -> Homes \cup {None}]
<1>1. PICK u \in UIDs : /\ uid' = [uid EXCEPT ![a] = u]
                        /\ home' = [home EXCEPT ![a] = IF @ = None THEN NewHome(u) ELSE @]
  BY DEF UserAdd
<1>2. NewHome(u) \in Homes
  BY DEF NewHome, Homes
<1>3. u \in 0 .. MaxUID
  BY ProjectsAssumption DEF UIDs
<1>4. uid' \in [Accounts -> 0 .. MaxUID]
  BY <1>1, <1>3 DEF HostTypeOK
<1>5. home' \in [Accounts -> Homes \cup {None}]
  BY <1>1, <1>2 DEF HostTypeOK
<1>6. QED BY <1>4, <1>5

LEMMA HelperType ==
  ASSUME TypeOK, NEW s \in Setups, HelperStep(s)
  PROVE  TypeOK'
<1> USE Stable DEF TypeOK, HelperGoes
<1>1. CASE HelperAuthorize(s)
  <2>1. SetupTypeOK'
    BY <1>1 DEF HelperAuthorize, SetupTypeOK, Target
  <2>2. QED BY <1>1, <2>1 DEF HelperAuthorize
<1>2. CASE HelperLock(s)
  <2>1. SetupTypeOK'
    BY <1>2 DEF HelperLock, SetupTypeOK, Target
  <2>2. LockTypeOK'
    BY <1>2 DEF HelperLock, LockTypeOK, ByHelper
  <2>3. QED BY <1>2, <2>1, <2>2 DEF HelperLock
<1>3. CASE HelperCheck(s)
  <2>1. SetupTypeOK'
    BY <1>3 DEF HelperCheck, SetupTypeOK, Target
  <2>2. QED BY <1>3, <2>1 DEF HelperCheck
<1>4. CASE HelperAccount(s)
  <2>1. SetupTypeOK'
    BY <1>4 DEF HelperAccount, SetupTypeOK, Target
  <2>2. HostTypeOK'
    <3>1. CASE UNCHANGED <<uid, home>>
      BY <1>4, <3>1 DEF HelperAccount
    <3>2. CASE UserAdd(Target(s))
      BY <1>4, <3>2, UserAddType DEF HelperAccount, HostTypeOK
    <3>3. QED BY <1>4, <3>1, <3>2 DEF HelperAccount
  <2>3. QED BY <1>4, <2>1, <2>2 DEF HelperAccount
<1>5. CASE HelperInstall(s)
  <2>1. SetupTypeOK'
    BY <1>5 DEF HelperInstall, SetupTypeOK, Target
  <2>2. Target(s) \in Accounts
    BY <1>5, AccountType DEF HelperInstall, SetupTypeOK
  <2>3. HostTypeOK'
    <3>1. CASE UNCHANGED home
      BY <1>5, <3>1 DEF HelperInstall
    <3>2. CASE HomeUsable(Target(s)) /\ home' = [home EXCEPT ![Target(s)].keys = TRUE]
      <4>1. home[Target(s)] \in Homes
        BY <2>2, <3>2 DEF HostTypeOK, HomeUsable
      <4>2. home' \in [Accounts -> Homes \cup {None}]
        BY <2>2, <3>2, <4>1 DEF HostTypeOK, Homes
      <4>3. QED BY <1>5, <4>2 DEF HelperInstall, HostTypeOK
    <3>3. QED BY <1>5, <3>1, <3>2 DEF HelperInstall
  <2>4. QED BY <1>5, <2>1, <2>3 DEF HelperInstall
<1>6. CASE HelperKey(s)
  <2>1. SetupTypeOK'
    BY <1>6 DEF HelperKey, SetupTypeOK, Target
  <2>2. Target(s) \in Accounts
    BY <1>6, AccountType DEF HelperKey, SetupTypeOK
  <2>3. HostTypeOK'
    <3>1. CASE UNCHANGED home
      BY <1>6, <3>1 DEF HelperKey
    <3>2. CASE HomeUsable(Target(s)) /\ home' = [home EXCEPT ![Target(s)].git = TRUE]
      <4>1. home[Target(s)] \in Homes
        BY <2>2, <3>2 DEF HostTypeOK, HomeUsable
      <4>2. home' \in [Accounts -> Homes \cup {None}]
        BY <2>2, <3>2, <4>1 DEF HostTypeOK, Homes
      <4>3. QED BY <1>6, <4>2 DEF HelperKey, HostTypeOK
    <3>3. QED BY <1>6, <3>1, <3>2 DEF HelperKey
  <2>4. QED BY <1>6, <2>1, <2>3 DEF HelperKey
<1>7. CASE HelperClone(s)
  <2>1. SetupTypeOK'
    BY <1>7 DEF HelperClone, SetupTypeOK, Target
  <2>2. Target(s) \in Accounts /\ request[s].url \in URLs \cup {None}
    BY <1>7, AccountType DEF HelperClone, SetupTypeOK, SetupRequests
  <2>3. HostTypeOK'
    BY <1>7, <2>2 DEF HelperClone, HostTypeOK, HomeUsable, Homes
  <2>4. QED BY <1>7, <2>1, <2>3 DEF HelperClone
<1>8. CASE HelperUnlock(s)
  <2>1. SetupTypeOK'
    BY <1>8 DEF HelperUnlock, SetupTypeOK, Target
  <2>2. LockTypeOK'
    BY <1>8 DEF HelperUnlock, LockTypeOK
  <2>3. QED BY <1>8, <2>1, <2>2 DEF HelperUnlock
<1>9. QED BY <1>1, <1>2, <1>3, <1>4, <1>5, <1>6, <1>7, <1>8 DEF HelperStep

LEMMA ScopeType ==
  ASSUME TypeOK, NEW r \in Removals, rpc[r] # "idle"
  PROVE  Scope(removal[r]) \in Scopes
<1>1. removal[r].action = "remove" => catalog[removal[r].target] \in URLs \cup {None}
  BY DEF TypeOK, RemovalTypeOK, HostTypeOK
<1>2. Identities(Selected(removal[r])) \in SUBSET (Accounts \X UIDs)
  BY DEF Identities, Selected, Exists, UIDs, TypeOK, HostTypeOK
<1>3. QED BY <1>1, <1>2 DEF Scope, Scopes

LEMMA TerminateType ==
  ASSUME TypeOK, NEW a, hpc' = hpc, request' = request, exclusive' = exclusive,
         catalogLock' = catalogLock,
         Terminate(CoordinatorsOf(a)) \/ UNCHANGED <<cpc, setupLock, shared>>
  PROVE  SetupTypeOK' /\ LockTypeOK'
<1>1. CASE Terminate(CoordinatorsOf(a))
  <2>1. \A s \in Setups : cpc'[s] = cpc[s] \/ (cpc'[s] = "killed" /\ cpc[s] # "idle")
    BY <1>1 DEF Terminate, CoordinatorsOf
  <2>2. SetupTypeOK'
    BY <1>1, <2>1 DEF Terminate, TypeOK, SetupTypeOK, Target
  <2>3. LockTypeOK'
    BY <1>1 DEF Terminate, TypeOK, LockTypeOK, HeldSetupLocksFreed
  <2>4. QED BY <2>2, <2>3
<1>2. CASE UNCHANGED <<cpc, setupLock, shared>>
  BY <1>2, Stable DEF TypeOK
<1>3. QED BY <1>1, <1>2

LEMMA RemovalType ==
  ASSUME TypeOK, NEW r \in Removals,
         StartRemoval(r) \/ RemovalStep(r) \/ DecideRemoval(r) \/ CancelRemoval(r)
  PROVE  TypeOK'
<1> USE Stable DEF TypeOK
<1>0. removal[r] \in RemovalRequests /\ receipt[r] \in Receipts
  BY DEF RemovalTypeOK
<1>1. CASE StartRemoval(r)
  <2>1. RemovalTypeOK'
    BY <1>1 DEF StartRemoval, RemovalTypeOK, RemovalRequests, Scopes, NoScope, HostTypeOK, Accounts, Primary
  <2>2. QED BY <1>1, <2>1 DEF StartRemoval
<1>2. CASE ShareInspection(r)
  <2>1. RemovalTypeOK'
    BY <1>2 DEF ShareInspection, RemovalTypeOK
  <2>2. LockTypeOK'
    BY <1>2 DEF ShareInspection, LockTypeOK, ByInspector
  <2>3. QED BY <1>2, <2>1, <2>2 DEF ShareInspection
<1>3. CASE InspectRemoval(r)
  <2>0. Scope(removal[r]) \in Scopes
    BY <1>3, ScopeType DEF InspectRemoval
  <2>1. RemovalTypeOK'
    BY <1>0, <1>3, <2>0, BlankType DEF InspectRemoval, RemovalTypeOK, RemovalRequests
  <2>2. LockTypeOK'
    BY <1>3 DEF InspectRemoval, LockTypeOK
  <2>3. QED BY <1>3, <2>1, <2>2 DEF InspectRemoval
<1>4. CASE DecideRemoval(r)
  <2>1. RemovalTypeOK'
    BY <1>4, BlankType DEF DecideRemoval, RemovalTypeOK
  <2>2. QED BY <1>4, <2>1 DEF DecideRemoval
<1>5. CASE LockExclusive(r)
  <2>1. RemovalTypeOK'
    BY <1>5 DEF LockExclusive, RemovalTypeOK
  <2>2. LockTypeOK'
    BY <1>5 DEF LockExclusive, LockTypeOK, ByRemover
  <2>3. QED BY <1>5, <2>1, <2>2 DEF LockExclusive
<1>6. CASE LockRemovalCatalog(r)
  <2>1. RemovalTypeOK'
    BY <1>6 DEF LockRemovalCatalog, RemovalTypeOK
  <2>2. LockTypeOK'
    BY <1>6 DEF LockRemovalCatalog, LockTypeOK, ByRemover
  <2>3. QED BY <1>6, <2>1, <2>2 DEF LockRemovalCatalog
<1>7. CASE Recheck(r)
  <2>1. RemovalTypeOK'
    <3>1. CASE ~Confirmed(removal[r])
      BY <1>7, <3>1 DEF Recheck, RemovalTypeOK
    <3>2. CASE Confirmed(removal[r])
      <4>1. Scope(removal[r]).accounts \in SUBSET (Accounts \X UIDs)
        BY <1>7, ScopeType DEF Recheck, Scopes
      <4>2. removal' \in [Removals -> RemovalRequests]
        BY <1>0, <1>7, <3>2, <4>1 DEF Recheck, RemovalTypeOK, RemovalRequests
      <4>3. receipt' \in [Removals -> Receipts]
        BY <1>0, <1>7, <3>2 DEF Recheck, RemovalTypeOK, Receipts
      <4>4. removal'[r].action = removal[r].action /\ removal'[r].target = removal[r].target
        BY <1>0, <1>7, <3>2 DEF Recheck, RemovalTypeOK, RemovalRequests
      <4>5. QED BY <1>7, <3>2, <4>2, <4>3, <4>4 DEF Recheck, RemovalTypeOK
    <3>3. QED BY <3>1, <3>2
  <2>2. QED BY <1>7, <2>1 DEF Recheck
<1>8. CASE DeleteOne(r)
  <2>1. PICK i \in removal[r].todo :
          /\ Terminate(CoordinatorsOf(i[1]))
          /\ uid' = [uid EXCEPT ![i[1]] = 0] /\ home' = [home EXCEPT ![i[1]] = None]
          /\ removal' = [removal EXCEPT ![r].todo = @ \ {i}]
          /\ receipt' = [receipt EXCEPT ![r].removed = @ \cup {i[1]}]
    BY <1>8 DEF DeleteOne
  <2>2. i \in Accounts \X UIDs
    BY <1>0, <2>1 DEF RemovalRequests
  <2>3. HostTypeOK'
    BY <1>8, <2>1 DEF DeleteOne, HostTypeOK
  <2>4. SetupTypeOK' /\ LockTypeOK'
    BY <1>8, <2>1, TerminateType DEF DeleteOne
  <2>5. removal' \in [Removals -> RemovalRequests]
    BY <1>0, <2>1 DEF RemovalTypeOK, RemovalRequests
  <2>6. receipt' \in [Removals -> Receipts]
    BY <1>0, <2>1, <2>2 DEF RemovalTypeOK, Receipts
  <2>7. \A q \in Removals : /\ removal'[q].action = removal[q].action
                           /\ removal'[q].target = removal[q].target
    BY <1>0, <2>1 DEF RemovalTypeOK, RemovalRequests
  <2>8. RemovalTypeOK'
    BY <1>8, <2>5, <2>6, <2>7 DEF DeleteOne, RemovalTypeOK
  <2>9. QED BY <1>8, <2>3, <2>4, <2>8 DEF DeleteOne
<1>9. CASE DeleteFails(r)
  <2>1. PICK i \in removal[r].todo :
          /\ \/ /\ Terminate(CoordinatorsOf(i[1]))
                /\ uid' = uid \/ uid' = [uid EXCEPT ![i[1]] = 0]
                /\ home' = home \/ home' = [home EXCEPT ![i[1]] = None]
             \/ UNCHANGED <<cpc, setupLock, shared, uid, home>>
          /\ receipt' = [receipt EXCEPT ![r].uncertain = i[1],
                                        ![r].notAttempted = removal[r].todo \ {i}]
    BY <1>9 DEF DeleteFails
  <2>2. i \in Accounts \X UIDs /\ removal[r].todo \in SUBSET (Accounts \X UIDs)
    BY <1>0, <2>1 DEF RemovalRequests
  <2>3. HostTypeOK'
    BY <1>9, <2>1 DEF DeleteFails, HostTypeOK
  <2>4. SetupTypeOK' /\ LockTypeOK'
    BY <1>9, <2>1, TerminateType DEF DeleteFails
  <2>5. receipt' \in [Removals -> Receipts]
    BY <1>0, <2>1, <2>2 DEF RemovalTypeOK, Receipts
  <2>6. RemovalTypeOK'
    BY <1>9, <2>5 DEF DeleteFails, RemovalTypeOK
  <2>7. QED BY <1>9, <2>3, <2>4, <2>6 DEF DeleteFails
<1>10. CASE Uncatalog(r)
  <2>1. HostTypeOK'
    BY <1>10 DEF Uncatalog, HostTypeOK
  <2>2. receipt' \in [Removals -> Receipts]
    <3>1. CASE receipt' = [receipt EXCEPT ![r].ok = TRUE]
      BY <1>0, <3>1 DEF RemovalTypeOK, Receipts
    <3>2. ASSUME NEW ok \in BOOLEAN,
                 receipt' = [receipt EXCEPT ![r].catalog = CatalogOutcome(ok), ![r].ok = ok]
          PROVE  receipt' \in [Removals -> Receipts]
      BY <1>0, <3>2 DEF RemovalTypeOK, Receipts
    <3>3. CASE receipt' = [receipt EXCEPT ![r].catalog = CatalogOutcome(FALSE)]
      BY <1>0, <3>3 DEF RemovalTypeOK, Receipts
    <3>4. QED BY <1>10, <3>1, <3>2, <3>3 DEF Uncatalog
  <2>3. RemovalTypeOK'
    BY <1>10, <2>2 DEF Uncatalog, RemovalTypeOK
  <2>4. QED BY <1>10, <2>1, <2>3 DEF Uncatalog
<1>11. CASE CloseCatalog(r)
  <2>1. RemovalTypeOK'
    BY <1>11 DEF CloseCatalog, RemovalTypeOK
  <2>2. LockTypeOK'
    BY <1>11 DEF CloseCatalog, LockTypeOK
  <2>3. QED BY <1>11, <2>1, <2>2 DEF CloseCatalog
<1>12. CASE CloseOperation(r)
  <2>1. RemovalTypeOK'
    BY <1>12, BlankType DEF CloseOperation, RemovalTypeOK
  <2>2. LockTypeOK'
    BY <1>12 DEF CloseOperation, LockTypeOK
  <2>3. QED BY <1>12, <2>1, <2>2 DEF CloseOperation
<1>13. CASE CancelRemoval(r)
  <2>1. RemovalTypeOK'
    BY <1>13, BlankType DEF CancelRemoval, RemovalTypeOK
  <2>2. QED BY <1>13, <2>1 DEF CancelRemoval
<1>14. QED BY <1>1, <1>2, <1>3, <1>4, <1>5, <1>6, <1>7, <1>8, <1>9, <1>10, <1>11, <1>12, <1>13
       DEF RemovalStep

LEMMA WriterType ==
  ASSUME TypeOK, NEW w \in Writers, StartWrite(w) \/ WriterStep(w)
  PROVE  TypeOK'
<1> USE Stable DEF TypeOK
<1>1. CASE StartWrite(w)
  <2>1. WriterTypeOK'
    BY <1>1 DEF StartWrite, WriterTypeOK, Changes, HostTypeOK, Accounts, Primary
  <2>2. QED BY <1>1, <2>1 DEF StartWrite
<1>2. CASE LockWrite(w)
  <2>1. WriterTypeOK'
    BY <1>2 DEF LockWrite, WriterTypeOK
  <2>2. LockTypeOK'
    BY <1>2 DEF LockWrite, LockTypeOK, ByWriter
  <2>3. QED BY <1>2, <2>1, <2>2 DEF LockWrite
<1>3. CASE ReadEntries(w)
  <2>1. snapshot' \in [Writers -> [ProjectIDs -> URLs \cup {None}]]
    <3>1. snapshot' = [snapshot EXCEPT ![w] = catalog] \/ UNCHANGED snapshot
      BY <1>3 DEF ReadEntries
    <3>2. QED BY <3>1 DEF WriterTypeOK, HostTypeOK
  <2>2. wpc' = [wpc EXCEPT ![w] = "write"] \/ wpc' = [wpc EXCEPT ![w] = "unlock"]
    BY <1>3 DEF ReadEntries
  <2>3. UNCHANGED <<hostVars, lockVars, setupVars, removalVars, change, bounds>>
    BY <1>3 DEF ReadEntries
  <2>4. WriterTypeOK'
    BY <2>1, <2>2, <2>3 DEF WriterTypeOK
  <2>5. QED BY <2>3, <2>4
<1>4. CASE WriteEntries(w)
  <2>1. WriterTypeOK'
    BY <1>4 DEF WriteEntries, WriterTypeOK
  <2>2. Mutated(w) \in [ProjectIDs -> URLs \cup {None}]
    BY DEF Mutated, WriterTypeOK, Changes
  <2>3. HostTypeOK'
    BY <1>4, <2>2 DEF WriteEntries, HostTypeOK
  <2>4. QED BY <1>4, <2>1, <2>3 DEF WriteEntries
<1>5. CASE UnlockWrite(w)
  <2>1. WriterTypeOK'
    BY <1>5, BlankType DEF UnlockWrite, WriterTypeOK
  <2>2. LockTypeOK'
    BY <1>5 DEF UnlockWrite, LockTypeOK
  <2>3. QED BY <1>5, <2>1, <2>2 DEF UnlockWrite
<1>6. QED BY <1>1, <1>2, <1>3, <1>4, <1>5 DEF WriterStep

LEMMA RebootType == TypeOK /\ Reboot => TypeOK'
<1> SUFFICES ASSUME TypeOK, Reboot PROVE TypeOK'
  OBVIOUS
<1> USE BlankType DEF Reboot
<1>1. HostTypeOK' BY Stable
<1>2. LockTypeOK' BY DEF LockTypeOK
<1>3. SetupTypeOK' BY DEF SetupTypeOK
<1>4. RemovalTypeOK' BY DEF RemovalTypeOK
<1>5. WriterTypeOK' BY DEF WriterTypeOK
<1>6. QED BY <1>1, <1>2, <1>3, <1>4, <1>5 DEF TypeOK

LEMMA KillType ==
  ASSUME TypeOK,
         \/ \E s \in Setups : KillHelper(s)
         \/ \E r \in Removals : KillRemoval(r)
         \/ \E w \in Writers : KillWrite(w)
  PROVE  TypeOK'
<1> USE Stable, BlankType DEF TypeOK
<1>1. ASSUME NEW s \in Setups, KillHelper(s) PROVE TypeOK'
  <2>1. SetupTypeOK'
    BY <1>1 DEF KillHelper, SetupTypeOK, Target
  <2>2. LockTypeOK'
    BY <1>1 DEF KillHelper, LockTypeOK
  <2>3. QED BY <1>1, <2>1, <2>2 DEF KillHelper
<1>2. ASSUME NEW r \in Removals, KillRemoval(r) PROVE TypeOK'
  <2>1. RemovalTypeOK'
    BY <1>2 DEF KillRemoval, RemovalTypeOK
  <2>2. LockTypeOK'
    BY <1>2 DEF KillRemoval, LockTypeOK
  <2>3. QED BY <1>2, <2>1, <2>2 DEF KillRemoval
<1>3. ASSUME NEW w \in Writers, KillWrite(w) PROVE TypeOK'
  <2>1. WriterTypeOK'
    BY <1>3 DEF KillWrite, WriterTypeOK
  <2>2. LockTypeOK'
    BY <1>3 DEF KillWrite, LockTypeOK
  <2>3. QED BY <1>3, <2>1, <2>2 DEF KillWrite
<1>4. QED BY <1>1, <1>2, <1>3

LEMMA NextType == TypeOK /\ [Next]_vars => TypeOK'
<1>1. TypeOK /\ UNCHANGED vars => TypeOK'
  BY Stable DEF TypeOK, vars
<1>2. QED BY <1>1, SetupType, HelperType, RemovalType, WriterType, KillType, RebootType DEF Next

\* Every variable keeps its type.
THEOREM TypeCorrect == Spec => []TypeOK
  BY InitType, NextType, PTL DEF Spec

-----------------------------------------------------------------------------
(* The locks, a lemma per process                                          *)

LEMMA SetupLocks ==
  ASSUME TypeOK, LockDiscipline, NEW s \in Setups,
         StartSetup(s) \/ SetupStep(s) \/ CancelSetup(s) \/ KillCoordinator(s)
  PROVE  LockDiscipline'
<1> USE DEF TypeOK, SetupTypeOK, LockDiscipline, ByHelper, ByCoordinator
<1>1. CASE StartSetup(s)
  BY <1>1 DEF StartSetup
<1>2. CASE LockSetup(s)
  BY <1>2 DEF LockSetup
<1>3. CASE ShareOperation(s)
  BY <1>3 DEF ShareOperation
<1>4. CASE GetEntry(s)
  BY <1>4 DEF GetEntry
<1>5. CASE HelperReplies(s)
  BY <1>5 DEF HelperReplies
<1>6. CASE UnlockOperation(s)
  BY <1>6 DEF UnlockOperation
<1>7. CASE UnlockSetup(s)
  BY <1>7 DEF UnlockSetup
<1>8. CASE ReapOrphan(s)
  BY <1>8 DEF ReapOrphan
<1>9. CASE CancelSetup(s)
  BY <1>9 DEF CancelSetup
<1>10. CASE KillCoordinator(s)
  BY <1>10 DEF KillCoordinator
<1>11. QED BY <1>1, <1>2, <1>3, <1>4, <1>5, <1>6, <1>7, <1>8, <1>9, <1>10 DEF SetupStep

LEMMA HelperLocks ==
  ASSUME TypeOK, LockDiscipline, NEW s \in Setups, HelperStep(s)
  PROVE  LockDiscipline'
<1> USE DEF TypeOK, SetupTypeOK, LockDiscipline, ByHelper, HelperGoes
<1>1. CASE HelperAuthorize(s)
  BY <1>1 DEF HelperAuthorize
<1>2. CASE HelperLock(s)
  BY <1>2 DEF HelperLock
<1>3. CASE HelperCheck(s)
  BY <1>3 DEF HelperCheck
<1>4. CASE HelperAccount(s)
  BY <1>4 DEF HelperAccount
<1>5. CASE HelperInstall(s)
  BY <1>5 DEF HelperInstall
<1>6. CASE HelperKey(s)
  BY <1>6 DEF HelperKey
<1>7. CASE HelperClone(s)
  BY <1>7 DEF HelperClone
<1>8. CASE HelperUnlock(s)
  BY <1>8 DEF HelperUnlock
<1>9. QED BY <1>1, <1>2, <1>3, <1>4, <1>5, <1>6, <1>7, <1>8 DEF HelperStep

LEMMA RemovalLocks ==
  ASSUME TypeOK, LockDiscipline, NEW r \in Removals,
         StartRemoval(r) \/ RemovalStep(r) \/ DecideRemoval(r) \/ CancelRemoval(r)
  PROVE  LockDiscipline'
<1> USE DEF TypeOK, RemovalTypeOK, LockDiscipline, ByHelper, ByInspector, ByRemover, ByWriter
<1>1. CASE StartRemoval(r)
  BY <1>1 DEF StartRemoval
<1>2. CASE ShareInspection(r)
  BY <1>2 DEF ShareInspection
<1>3. CASE InspectRemoval(r)
  BY <1>3 DEF InspectRemoval, NoRemoval, RemovalRequests
<1>4. CASE DecideRemoval(r)
  BY <1>4 DEF DecideRemoval, NoRemoval
<1>5. CASE LockExclusive(r)
  BY <1>5 DEF LockExclusive
<1>6. CASE LockRemovalCatalog(r)
  BY <1>6 DEF LockRemovalCatalog
<1>7. CASE Recheck(r)
  BY <1>7 DEF Recheck, RemovalRequests
<1>8. CASE DeleteOne(r)
  BY <1>8 DEF DeleteOne, Terminate, ByCoordinator, RemovalRequests
<1>9. CASE DeleteFails(r)
  BY <1>9 DEF DeleteFails, Terminate, ByCoordinator
<1>10. CASE Uncatalog(r)
  BY <1>10 DEF Uncatalog
<1>11. CASE CloseCatalog(r)
  BY <1>11 DEF CloseCatalog
<1>12. CASE CloseOperation(r)
  BY <1>12 DEF CloseOperation, NoRemoval
<1>13. CASE CancelRemoval(r)
  BY <1>13 DEF CancelRemoval, NoRemoval
<1>14. QED BY <1>1, <1>2, <1>3, <1>4, <1>5, <1>6, <1>7, <1>8, <1>9, <1>10, <1>11, <1>12, <1>13 DEF RemovalStep

LEMMA WriterLocks ==
  ASSUME TypeOK, LockDiscipline, NEW w \in Writers, StartWrite(w) \/ WriterStep(w)
  PROVE  LockDiscipline'
<1> USE DEF TypeOK, WriterTypeOK, LockDiscipline, ByRemover, ByWriter
<1>1. CASE StartWrite(w)
  BY <1>1 DEF StartWrite
<1>2. CASE LockWrite(w)
  BY <1>2 DEF LockWrite
<1>3. CASE ReadEntries(w)
  BY <1>3 DEF ReadEntries
<1>4. CASE WriteEntries(w)
  BY <1>4 DEF WriteEntries
<1>5. CASE UnlockWrite(w)
  BY <1>5 DEF UnlockWrite
<1>6. QED BY <1>1, <1>2, <1>3, <1>4, <1>5 DEF WriterStep

LEMMA KillLocks ==
  ASSUME TypeOK, LockDiscipline,
         \/ \E s \in Setups : KillHelper(s)
         \/ \E r \in Removals : KillRemoval(r)
         \/ \E w \in Writers : KillWrite(w)
  PROVE  LockDiscipline'
<1> USE DEF TypeOK, LockDiscipline, ByHelper, ByInspector, ByRemover, ByWriter
<1>1. ASSUME NEW s \in Setups, KillHelper(s) PROVE LockDiscipline'
  BY <1>1 DEF KillHelper, SetupTypeOK
<1>2. ASSUME NEW r \in Removals, KillRemoval(r) PROVE LockDiscipline'
  BY <1>2 DEF KillRemoval, RemovalTypeOK, NoRemoval
<1>3. ASSUME NEW w \in Writers, KillWrite(w) PROVE LockDiscipline'
  BY <1>3 DEF KillWrite, WriterTypeOK
<1>4. QED BY <1>1, <1>2, <1>3

LEMMA NextLocks == TypeOK /\ LockDiscipline /\ [Next]_vars => LockDiscipline'
<1>1. LockDiscipline /\ Reboot => LockDiscipline'
  BY DEF LockDiscipline, Reboot
<1>2. LockDiscipline /\ UNCHANGED vars => LockDiscipline'
  BY DEF LockDiscipline, vars
<1>3. QED BY <1>1, <1>2, SetupLocks, HelperLocks, RemovalLocks, WriterLocks, KillLocks DEF Next

\* Exclusive means alone, one catalog change at a time, for any number of
\* processes.
THEOREM LocksHold == Spec => []LockDiscipline
<1>1. Init => LockDiscipline
  BY DEF Init, InitProcesses, LockDiscipline
<1>2. QED BY <1>1, NextLocks, TypeCorrect, PTL DEF Spec

-----------------------------------------------------------------------------
(* The inductive invariant: types, lock discipline, the checks made under  *)
(* the locks, and what those checks are for.                               *)

Safe == ChecksStillHold /\ NoOrphanWorkspace /\ NoUncataloguedWorkspace
IInv == TypeOK /\ LockDiscipline /\ Safe

LEMMA InitSafe == Init => Safe
<1> SUFFICES ASSUME Init PROVE Safe
  OBVIOUS
<1>1. \A p \in People, j \in ProjectIDs : ~Exists(<<p, j>>)
  BY DEF Init, InitHost, Workspaces, Accounts
<1>2. ChecksStillHold
  BY DEF Init, InitProcesses, ChecksStillHold, HelperChecked, WriterChecked, RemovalChecked
<1>3. QED BY <1>1, <1>2 DEF Safe, NoOrphanWorkspace, NoUncataloguedWorkspace

\* No removal deletes while a helper is past its lock, nor beside another
\* removal or, for a project, beside a writer.
LEMMA Exclusion ==
  ASSUME LockDiscipline, NEW r \in Removals, rpc[r] = "delete"
  PROVE  /\ \A s \in Setups : hpc[s] \notin {"check", "account", "install", "key",
                                             "clone", "finished", "failed"}
         /\ \A q \in Removals : rpc[q] = "delete" => q = r
         /\ removal[r].action = "remove" =>
              \A w \in Writers : wpc[w] \notin {"read", "write", "unlock"}
  BY DEF LockDiscipline, ByHelper, ByRemover, ByWriter

\* Steps that leave catalog and accounts alone and start no checked state.
LEMMA KeepsSafe ==
  ASSUME Safe, UNCHANGED <<catalog, uid>>,
         \A s \in Setups : hpc'[s] = "account" =>
            hpc[s] = "account" /\ Target(s)' = Target(s),
         \A w \in Writers : WriterChecked(w)',
         \A r \in Removals : rpc'[r] = "delete" =>
            rpc[r] = "delete" /\ removal'[r] = removal[r]
  PROVE  Safe'
<1>1. \A s \in Setups : HelperChecked(s)'
  BY DEF Safe, ChecksStillHold, HelperChecked, Target, Exists, Primary
<1>2. \A r \in Removals : RemovalChecked(r)'
  BY DEF Safe, ChecksStillHold, RemovalChecked, Selected, Concerns, Exists
<1>3. NoOrphanWorkspace' /\ NoUncataloguedWorkspace'
  BY DEF Safe, NoOrphanWorkspace, NoUncataloguedWorkspace, Exists, Primary
<1>4. QED BY <1>1, <1>2, <1>3 DEF Safe, ChecksStillHold

LEMMA KeepsWriters ==
  ASSUME Safe, UNCHANGED <<catalog, writerVars>>
  PROVE  \A w \in Writers : WriterChecked(w)'
  BY DEF Safe, ChecksStillHold, WriterChecked

LEMMA SetupSafe ==
  ASSUME TypeOK, Safe, NEW s \in Setups,
         StartSetup(s) \/ SetupStep(s) \/ CancelSetup(s) \/ KillCoordinator(s)
  PROVE  Safe'
<1> USE DEF TypeOK, SetupTypeOK, Target
<1>1. UNCHANGED <<catalog, uid, writerVars, removalVars>>
  BY DEF StartSetup, SetupStep, CancelSetup, KillCoordinator, LockSetup, ShareOperation,
         GetEntry, HelperReplies, UnlockOperation, UnlockSetup, ReapOrphan
<1>2. \A t \in Setups : hpc'[t] = "account" => hpc[t] = "account" /\ Target(t)' = Target(t)
  <2>1. CASE StartSetup(s) BY <2>1 DEF StartSetup
  <2>2. CASE LockSetup(s) BY <2>2 DEF LockSetup
  <2>3. CASE ShareOperation(s) BY <2>3 DEF ShareOperation
  <2>4. CASE GetEntry(s) BY <2>4 DEF GetEntry
  <2>5. CASE HelperReplies(s) BY <2>5 DEF HelperReplies
  <2>6. CASE UnlockOperation(s) BY <2>6 DEF UnlockOperation
  <2>7. CASE UnlockSetup(s) BY <2>7 DEF UnlockSetup
  <2>8. CASE ReapOrphan(s) BY <2>8 DEF ReapOrphan
  <2>9. CASE CancelSetup(s) BY <2>9 DEF CancelSetup
  <2>10. CASE KillCoordinator(s) BY <2>10 DEF KillCoordinator
  <2>11. QED BY <2>1, <2>2, <2>3, <2>4, <2>5, <2>6, <2>7, <2>8, <2>9, <2>10 DEF SetupStep
<1>3. QED BY <1>1, <1>2, KeepsSafe, KeepsWriters

LEMMA HelperSafe ==
  ASSUME TypeOK, LockDiscipline, Safe, NEW s \in Setups, HelperStep(s)
  PROVE  Safe'
<1> USE DEF TypeOK, SetupTypeOK, HelperGoes
<1>1. CASE HelperCheck(s)
  <2>1. \A t \in Setups : HelperChecked(t)'
    BY <1>1 DEF HelperCheck, HelperChecked, Safe, ChecksStillHold, Authorized, Exists, Primary
  <2>2. \A r \in Removals : RemovalChecked(r)'
    BY <1>1 DEF HelperCheck, Safe, ChecksStillHold, RemovalChecked, Selected, Concerns, Exists
  <2>3. NoOrphanWorkspace' /\ NoUncataloguedWorkspace'
    BY <1>1 DEF HelperCheck, Safe, NoOrphanWorkspace, NoUncataloguedWorkspace, Exists, Primary
  <2>4. QED BY <1>1, <2>1, <2>2, <2>3, KeepsWriters DEF HelperCheck, Safe, ChecksStillHold
<1>2. CASE HelperAccount(s) /\ UserAdd(Target(s))
  <2>1. PICK u \in UIDs : uid' = [uid EXCEPT ![Target(s)] = u]
    BY <1>2 DEF UserAdd
  <2>2. /\ Target(s) \in Workspaces
        /\ Exists(Primary(request[s].who)) /\ catalog[request[s].project] # None
    BY <1>2 DEF HelperAccount, Safe, ChecksStillHold, HelperChecked
  <2>3. \A a \in Accounts : Exists(a)' <=> Exists(a) \/ a = Target(s)
    BY <2>1 DEF Exists, UIDs, HostTypeOK
  <2>4. \A t \in Setups : HelperChecked(t)'
    <3> SUFFICES ASSUME NEW t \in Setups, hpc'[t] = "account"
                 PROVE  Exists(Primary(request[t].who))' /\ catalog'[request[t].project] # None
      BY <1>2 DEF HelperChecked, HelperAccount
    <3>1. hpc[t] = "account"
      BY <1>2 DEF HelperAccount
    <3>2. Primary(request[t].who) \in Accounts
      BY <3>1, AccountType DEF Target, Workspaces
    <3>3. QED BY <1>2, <2>3, <3>1, <3>2
          DEF HelperAccount, Safe, ChecksStillHold, HelperChecked, Primary, Exists
  <2>5. \A r \in Removals : RemovalChecked(r)'
    BY <1>2, Exclusion DEF HelperAccount, RemovalChecked
  <2>6. NoOrphanWorkspace' /\ NoUncataloguedWorkspace'
    BY <1>2, <2>2, <2>3, AccountType
       DEF HelperAccount, Safe, NoOrphanWorkspace, NoUncataloguedWorkspace, Target, Workspaces
  <2>7. QED BY <1>2, <2>4, <2>5, <2>6, KeepsWriters DEF HelperAccount, Safe, ChecksStillHold
<1>3. CASE /\ UNCHANGED <<catalog, uid, request, writerVars, removalVars>>
           /\ \A t \in Setups : hpc'[t] = "account" => hpc[t] = "account"
  BY <1>3, KeepsSafe, KeepsWriters DEF Target
<1>4. CASE HelperAuthorize(s) \/ HelperLock(s) \/ HelperUnlock(s)
  BY <1>3, <1>4 DEF HelperAuthorize, HelperLock, HelperUnlock
<1>5. CASE HelperAccount(s) /\ UNCHANGED uid
  BY <1>3, <1>5 DEF HelperAccount
<1>6. CASE HelperInstall(s) \/ HelperKey(s) \/ HelperClone(s)
  BY <1>3, <1>6 DEF HelperInstall, HelperKey, HelperClone
<1>7. QED BY <1>1, <1>2, <1>4, <1>5, <1>6 DEF HelperStep, HelperAccount

LEMMA DeletionSafe ==
  ASSUME IInv, NEW r \in Removals, DeleteOne(r) \/ DeleteFails(r)
  PROVE  Safe'
<1> USE DEF IInv
<1>1. rpc[r] = "delete" /\ removal[r] \in RemovalRequests
      /\ Concerns(removal[r], Primary(removal[r].target)) \in BOOLEAN
  BY DEF DeleteOne, DeleteFails, TypeOK, RemovalTypeOK, Concerns
<1>2. PICK i \in removal[r].todo :
        /\ InOrder(r, i)
        /\ uid' = uid \/ uid' = [uid EXCEPT ![i[1]] = 0]
        /\ \/ removal' = [removal EXCEPT ![r].todo = @ \ {i}] /\ uid'[i[1]] = 0
              /\ uid' = [uid EXCEPT ![i[1]] = 0]
           \/ UNCHANGED removal /\ rpc'[r] = "closeCatalog"
  <2>1. CASE DeleteOne(r)
    <3>1. PICK i \in removal[r].todo :
            /\ InOrder(r, i) /\ uid' = [uid EXCEPT ![i[1]] = 0]
            /\ removal' = [removal EXCEPT ![r].todo = @ \ {i}]
      BY <2>1 DEF DeleteOne
    <3>2. i[1] \in Accounts
      BY <1>1, <3>1 DEF RemovalRequests
    <3>3. uid'[i[1]] = 0
      BY <3>1, <3>2 DEF TypeOK, HostTypeOK
    <3>4. QED BY <3>1, <3>3
  <2>2. CASE DeleteFails(r)
    BY <2>2 DEF DeleteFails, TypeOK, RemovalTypeOK
  <2>3. QED BY <2>1, <2>2
<1>3. i[1] \in Accounts /\ i \in Accounts \X UIDs
  BY <1>1, <1>2 DEF RemovalRequests
<1>4. \A a \in Accounts : Exists(a)' => Exists(a) /\ (a = i[1] => uid' = uid)
  BY <1>2, <1>3 DEF Exists, TypeOK, HostTypeOK
<1>5. UNCHANGED <<catalog, writerVars, hpc, request>>
  BY DEF DeleteOne, DeleteFails
<1>6. \A s \in Setups : HelperChecked(s)'
  BY <1>1, <1>5, Exclusion DEF HelperChecked
<1>7. \A q \in Removals : RemovalChecked(q)'
  <2> SUFFICES ASSUME NEW q \in Removals, rpc'[q] = "delete" PROVE RemovalChecked(q)'
    BY DEF RemovalChecked
  <2>1. rpc[q] = "delete"
    BY DEF DeleteOne, DeleteFails, TypeOK, RemovalTypeOK
  <2>2. q = r
    BY <1>1, <2>1, Exclusion
  <2>3. /\ removal' = [removal EXCEPT ![r].todo = @ \ {i}]
        /\ uid' = [uid EXCEPT ![i[1]] = 0]
    BY <1>2, <2>2
  <2>4. /\ removal'[r].todo = removal[r].todo \ {i}
        /\ removal'[r].reviewed = removal[r].reviewed /\ removal'[r].by = removal[r].by
        /\ removal'[r].action = removal[r].action /\ removal'[r].target = removal[r].target
    BY <1>1, <2>3 DEF TypeOK, RemovalTypeOK, RemovalRequests
  <2>5. \A a : Concerns(removal[r], a)' = Concerns(removal[r], a)
    BY <2>4 DEF Concerns
  <2>6. RemovalChecked(r)
    BY DEF Safe, ChecksStillHold
  <2>7. \A a \in Selected(removal[r])' : <<a, uid'[a]>> \in removal'[r].todo
    <3> SUFFICES ASSUME NEW a \in Accounts, Exists(a)', Concerns(removal[r], a)'
                 PROVE  <<a, uid'[a]>> \in removal'[r].todo
      BY DEF Selected
    <3>1. Exists(a) /\ uid'[a] = uid[a] /\ a # i[1]
      BY <1>3, <1>4, <2>3 DEF Exists, TypeOK, HostTypeOK
    <3>2. <<a, uid[a]>> \in removal[r].todo
      BY <1>1, <2>5, <2>6, <3>1 DEF RemovalChecked, Selected
    <3>3. QED BY <2>4, <3>1, <3>2
  <2>8. QED BY <1>1, <1>5, <2>2, <2>4, <2>5, <2>6, <2>7 DEF RemovalChecked
<1>8. NoUncataloguedWorkspace'
  BY <1>4, <1>5, AccountType DEF Safe, NoUncataloguedWorkspace, Workspaces
<1>9. NoOrphanWorkspace'
  <2> SUFFICES ASSUME NEW p \in People, NEW j \in ProjectIDs, Exists(<<p, j>>)',
                      ~Exists(Primary(p))'
               PROVE  FALSE
    BY DEF NoOrphanWorkspace
  <2>1. <<p, j>> \in Workspaces /\ Exists(<<p, j>>)
    BY <1>4, AccountType DEF Workspaces
  <2>2. Exists(Primary(p))
    BY <2>1 DEF Safe, NoOrphanWorkspace
  <2>3. i[1] = Primary(p)
    BY <1>2, <1>3, <2>2, AccountType DEF Exists, TypeOK, HostTypeOK, Primary
  <2>4. Concerns(removal[r], Primary(p)) /\ RemovalChecked(r)
    BY <1>1, <1>2, <2>3 DEF Safe, ChecksStillHold, RemovalChecked
  <2>5. removal[r].action = "delete-human" /\ removal[r].target = p
    BY <1>1, <2>4 DEF Concerns, Primary, RemovalRequests, TypeOK, RemovalTypeOK, Actions
  <2>6. <<p, j>> \in Selected(removal[r])
    BY <2>1, <2>5, AccountType DEF Selected, Concerns
  <2>7. <<<<p, j>>, uid[<<p, j>>]>> \in removal[r].todo
    BY <1>1, <2>4, <2>6 DEF RemovalChecked
  <2>8. QED BY <1>2, <2>1, <2>3, <2>7, AccountType DEF InOrder
<1>10. QED BY <1>5, <1>6, <1>7, <1>8, <1>9, KeepsWriters DEF Safe, ChecksStillHold

LEMMA RecheckSafe ==
  ASSUME IInv, NEW r \in Removals, Recheck(r)
  PROVE  Safe'
<1> USE DEF IInv
<1>1. removal[r] \in RemovalRequests
  BY DEF TypeOK, RemovalTypeOK
<1>2. CASE Confirmed(removal[r]) /\ rpc'[r] = "delete"
  <2>1. removal' = [removal EXCEPT ![r].todo = Scope(removal[r]).accounts]
    BY <1>2 DEF Recheck
  <2>2. /\ removal'[r].todo = Identities(Selected(removal[r]))
        /\ removal'[r].reviewed = Scope(removal[r]) /\ removal'[r].by = removal[r].by
        /\ removal'[r].action = removal[r].action /\ removal'[r].target = removal[r].target
    BY <1>1, <1>2, <2>1 DEF TypeOK, RemovalTypeOK, RemovalRequests, Scope, Confirmed
  <2>3. \A a : Concerns(removal[r], a)' = Concerns(removal[r], a)
    BY <2>2 DEF Concerns
  <2>4. UNCHANGED <<catalog, uid, hpc, request, writerVars>>
    BY DEF Recheck
  <2>5. Selected(removal[r])' = Selected(removal[r])
    BY <2>3, <2>4 DEF Selected, Exists
  <2>6. removal'[r].reviewed.repository # None =>
          /\ removal'[r].action = "remove"
          /\ catalog'[removal'[r].target] = removal'[r].reviewed.repository
    BY <2>2, <2>4 DEF Scope
  <2>7. /\ removal'[r].todo \subseteq removal'[r].reviewed.accounts
        /\ \A i \in removal'[r].todo : Concerns(removal[r], i[1])'
        /\ \A a \in Selected(removal[r])' : <<a, uid'[a]>> \in removal'[r].todo
    BY <2>2, <2>3, <2>4, <2>5 DEF Scope, Identities, Selected
  <2>8. RemovalChecked(r)'
    BY <2>6, <2>7 DEF RemovalChecked
  <2>9. \A q \in Removals : RemovalChecked(q)'
    <3> SUFFICES ASSUME NEW q \in Removals, q # r PROVE RemovalChecked(q)'
      BY <2>8
    <3>1. rpc'[q] = rpc[q] /\ removal'[q] = removal[q]
      BY <2>1 DEF Recheck, TypeOK, RemovalTypeOK
    <3>2. QED BY <2>4, <3>1 DEF Safe, ChecksStillHold, RemovalChecked, Selected, Concerns, Exists
  <2>10. \A s \in Setups : HelperChecked(s)'
    BY <2>4 DEF Safe, ChecksStillHold, HelperChecked, Exists
  <2>11. NoOrphanWorkspace' /\ NoUncataloguedWorkspace'
    BY <2>4 DEF Safe, NoOrphanWorkspace, NoUncataloguedWorkspace, Exists, Primary
  <2>12. QED BY <2>4, <2>9, <2>10, <2>11, KeepsWriters DEF Safe, ChecksStillHold
<1>3. CASE rpc'[r] = "closeCatalog" /\ UNCHANGED removal
  BY <1>3, KeepsSafe, KeepsWriters DEF Recheck, Target, TypeOK, RemovalTypeOK
<1>4. QED BY <1>2, <1>3 DEF Recheck, TypeOK, RemovalTypeOK

LEMMA UncatalogSafe ==
  ASSUME IInv, NEW r \in Removals, Uncatalog(r)
  PROVE  Safe'
<1> USE DEF IInv
<1>1. rpc[r] = "delete" /\ rpc'[r] = "closeCatalog" /\ RemovalChecked(r)
      /\ UNCHANGED <<uid, hpc, request, removal, writerVars>>
  BY DEF Uncatalog, Safe, ChecksStillHold, TypeOK, RemovalTypeOK
<1>2. CASE UNCHANGED catalog
  BY <1>1, <1>2, KeepsSafe, KeepsWriters DEF Uncatalog, Target, TypeOK, RemovalTypeOK
<1>3. CASE /\ removal[r].reviewed.repository # None
           /\ catalog' = [catalog EXCEPT ![removal[r].target] = None]
  <2>1. removal[r].action = "remove" /\ removal[r].todo = {}
    BY <1>1, <1>3 DEF Uncatalog, RemovalChecked
  <2>2. \A s \in Setups : HelperChecked(s)'
    BY <1>1, Exclusion DEF HelperChecked
  <2>3. \A w \in Writers : WriterChecked(w)'
    BY <1>1, <2>1, Exclusion DEF WriterChecked, Safe, ChecksStillHold
  <2>4. \A q \in Removals : RemovalChecked(q)'
    BY <1>1, Exclusion DEF Uncatalog, RemovalChecked, TypeOK, RemovalTypeOK
  <2>5. Selected(removal[r]) = {}
    BY <1>1, <2>1 DEF RemovalChecked
  <2>6. NoUncataloguedWorkspace'
    <3> SUFFICES ASSUME NEW p \in People, NEW j \in ProjectIDs, Exists(<<p, j>>)'
                 PROVE  catalog'[j] # None
      BY DEF NoUncataloguedWorkspace
    <3>1. Exists(<<p, j>>) /\ <<p, j>> \in Accounts
      BY <1>1, AccountType DEF Exists, Workspaces
    <3>2. j # removal[r].target
      BY <2>1, <2>5, <3>1 DEF Selected, Concerns
    <3>3. QED BY <1>3, <3>1, <3>2 DEF Safe, NoUncataloguedWorkspace, TypeOK, HostTypeOK
  <2>7. NoOrphanWorkspace'
    BY <1>1 DEF Safe, NoOrphanWorkspace, Exists, Primary
  <2>8. QED BY <2>2, <2>3, <2>4, <2>6, <2>7 DEF Safe, ChecksStillHold
<1>4. QED BY <1>2, <1>3 DEF Uncatalog

LEMMA RemovalSafe ==
  ASSUME IInv, NEW r \in Removals,
         StartRemoval(r) \/ RemovalStep(r) \/ DecideRemoval(r) \/ CancelRemoval(r)
  PROVE  Safe'
<1> USE DEF IInv, TypeOK, RemovalTypeOK
<1>1. CASE /\ UNCHANGED <<catalog, uid, setupVars, writerVars>>
           /\ \A q \in Removals : rpc'[q] = "delete" =>
                rpc[q] = "delete" /\ removal'[q] = removal[q]
  BY <1>1, KeepsSafe, KeepsWriters DEF Target
<1>2. CASE StartRemoval(r) BY <1>1, <1>2 DEF StartRemoval
<1>3. CASE ShareInspection(r) BY <1>1, <1>3 DEF ShareInspection
<1>4. CASE InspectRemoval(r) BY <1>1, <1>4 DEF InspectRemoval
<1>5. CASE DecideRemoval(r) BY <1>1, <1>5 DEF DecideRemoval
<1>6. CASE LockExclusive(r) BY <1>1, <1>6 DEF LockExclusive
<1>7. CASE LockRemovalCatalog(r) BY <1>1, <1>7 DEF LockRemovalCatalog
<1>8. CASE CloseCatalog(r) BY <1>1, <1>8 DEF CloseCatalog
<1>9. CASE CloseOperation(r) BY <1>1, <1>9 DEF CloseOperation
<1>10. CASE CancelRemoval(r) BY <1>1, <1>10 DEF CancelRemoval
<1>11. QED
  BY <1>2, <1>3, <1>4, <1>5, <1>6, <1>7, <1>8, <1>9, <1>10,
     RecheckSafe, DeletionSafe, UncatalogSafe DEF RemovalStep

LEMMA WriterSafe ==
  ASSUME IInv, NEW w \in Writers, StartWrite(w) \/ WriterStep(w)
  PROVE  Safe'
<1> USE DEF IInv
<1>1. UNCHANGED <<uid, setupVars, removalVars>>
  BY DEF StartWrite, WriterStep, LockWrite, ReadEntries, WriteEntries, UnlockWrite
<1>2. CASE UNCHANGED catalog /\ \A x \in Writers : WriterChecked(x)'
  BY <1>1, <1>2, KeepsSafe DEF Target
<1>3. CASE StartWrite(w) \/ LockWrite(w) \/ ReadEntries(w) \/ UnlockWrite(w)
  <2>1. UNCHANGED catalog
    BY <1>3 DEF StartWrite, LockWrite, ReadEntries, UnlockWrite
  <2>2. \A x \in Writers : WriterChecked(x)'
    <3> USE <2>1 DEF Safe, ChecksStillHold, WriterChecked, TypeOK, WriterTypeOK
    <3>1. CASE StartWrite(w) BY <3>1 DEF StartWrite
    <3>2. CASE LockWrite(w) BY <3>2 DEF LockWrite
    <3>3. CASE ReadEntries(w) BY <3>3 DEF ReadEntries
    <3>4. CASE UnlockWrite(w) BY <3>4 DEF UnlockWrite
    <3>5. QED BY <1>3, <3>1, <3>2, <3>3, <3>4
  <2>3. QED BY <1>2, <2>1, <2>2
<1>4. CASE WriteEntries(w)
  <2>1. wpc[w] = "write" /\ wpc'[w] = "unlock" /\ WriterChecked(w)
        /\ UNCHANGED <<change, snapshot>>
    BY <1>4 DEF WriteEntries, Safe, ChecksStillHold, TypeOK, WriterTypeOK
  <2>2. \A x \in Writers : x # w => wpc[x] # "write" /\ wpc'[x] = wpc[x]
    BY <1>4, <2>1 DEF WriteEntries, LockDiscipline, ByWriter, TypeOK, WriterTypeOK
  <2>3. \A x \in Writers : WriterChecked(x)'
    BY <2>1, <2>2 DEF Safe, ChecksStillHold, WriterChecked
  <2>4. CASE UNCHANGED catalog
    BY <1>2, <2>3, <2>4
  <2>5. CASE catalog' = Mutated(w)
    <3>1. \A j \in ProjectIDs : catalog[j] # None => catalog'[j] = catalog[j]
      BY <2>1, <2>5 DEF Mutated, WriterChecked, TypeOK, HostTypeOK
    <3>2. \A s \in Setups : HelperChecked(s)'
      <4> SUFFICES ASSUME NEW s \in Setups, hpc[s] = "account"
                   PROVE  HelperChecked(s)'
        BY <1>1 DEF HelperChecked
      <4>1. request[s].project \in ProjectIDs
        BY DEF TypeOK, SetupTypeOK, Target, Workspaces
      <4>2. QED BY <1>1, <3>1, <4>1 DEF Safe, ChecksStillHold, HelperChecked, Exists, Primary
    <3>3. \A r \in Removals : RemovalChecked(r)'
      BY <1>1, <2>1, Exclusion DEF Safe, ChecksStillHold, RemovalChecked, Selected, Concerns, Exists
    <3>4. NoOrphanWorkspace' /\ NoUncataloguedWorkspace'
      BY <1>1, <3>1 DEF Safe, NoOrphanWorkspace, NoUncataloguedWorkspace, Exists, Primary
    <3>5. QED BY <2>3, <3>2, <3>3, <3>4 DEF Safe, ChecksStillHold
  <2>6. QED BY <1>4, <2>4, <2>5 DEF WriteEntries
<1>5. QED BY <1>3, <1>4 DEF WriterStep

LEMMA KillSafe ==
  ASSUME IInv,
         \/ \E s \in Setups : KillHelper(s)
         \/ \E r \in Removals : KillRemoval(r)
         \/ \E w \in Writers : KillWrite(w)
  PROVE  Safe'
<1> USE DEF IInv, Target
<1>1. ASSUME NEW s \in Setups, KillHelper(s) PROVE Safe'
  BY <1>1, KeepsSafe, KeepsWriters DEF KillHelper, TypeOK, SetupTypeOK
<1>2. ASSUME NEW r \in Removals, KillRemoval(r) PROVE Safe'
  BY <1>2, KeepsSafe, KeepsWriters DEF KillRemoval, TypeOK, RemovalTypeOK
<1>3. ASSUME NEW w \in Writers, KillWrite(w) PROVE Safe'
  <2>1. \A x \in Writers : WriterChecked(x)'
    BY <1>3 DEF KillWrite, Safe, ChecksStillHold, WriterChecked, TypeOK, WriterTypeOK
  <2>2. QED BY <1>3, <2>1, KeepsSafe DEF KillWrite
<1>4. QED BY <1>1, <1>2, <1>3

LEMMA NextSafe == IInv /\ [Next]_vars => Safe'
<1> SUFFICES ASSUME IInv, [Next]_vars PROVE Safe'
  OBVIOUS
<1>1. CASE Reboot
  BY <1>1 DEF Reboot, IInv, Safe, ChecksStillHold, HelperChecked, WriterChecked, RemovalChecked,
              NoOrphanWorkspace, NoUncataloguedWorkspace, Exists, Primary
<1>2. CASE UNCHANGED vars
  BY <1>2, KeepsSafe, KeepsWriters DEF vars, IInv, Target
<1>3. QED BY <1>1, <1>2, SetupSafe, HelperSafe, RemovalSafe, WriterSafe, KillSafe DEF Next, IInv

LEMMA InductiveInvariant == Spec => []IInv
<1>1. Spec => []TypeOK /\ []LockDiscipline
  BY TypeCorrect, LocksHold
<1>2. QED BY <1>1, InitSafe, NextSafe, PTL DEF Spec, IInv

\* A check made under the locks is never stale when it is acted on: helper,
\* catalog writer and removal, however many run.
THEOREM ChecksNeverStale == Spec => []ChecksStillHold
  BY InductiveInvariant, PTL DEF IInv, Safe

\* Setup racing with the deletion of a person never leaves a workspace
\* account behind, nor does a deletion that stops half way.
THEOREM NoOrphans == Spec => []NoOrphanWorkspace
  BY InductiveInvariant, PTL DEF IInv, Safe

\* Every workspace account belongs to a project in the catalog, whatever
\* setups, removals and catalog mutations run at once.
THEOREM AllCatalogued == Spec => []NoUncataloguedWorkspace
  BY InductiveInvariant, PTL DEF IInv, Safe

-----------------------------------------------------------------------------
(* What a single step may do                                               *)

\* Only a catalog write and the end of a project removal change the catalog.
LEMMA ChangesEntryStep ==
  ASSUME IInv, [Next]_vars, NEW j \in ProjectIDs, catalog'[j] # catalog[j]
  PROVE  \/ /\ catalog[j] = None
            /\ \E w \in Writers : wpc[w] = "write" /\ change[w].action = "add"
                                  /\ change[w].project = j /\ catalog'[j] = change[w].url
         \/ /\ catalog'[j] = None
            /\ \E r \in Removals : /\ removal[r].action = "remove" /\ removal[r].target = j
                                   /\ removal[r].reviewed.repository = catalog[j]
                                   /\ removal[r].todo = {}
<1> USE DEF IInv, Safe, ChecksStillHold, TypeOK, HostTypeOK
<1>1. CASE \E w \in Writers : WriteEntries(w)
  <2>1. PICK w \in Writers : WriteEntries(w)
    BY <1>1
  <2>2. catalog' = Mutated(w) /\ wpc[w] = "write" /\ WriterChecked(w)
    BY <2>1 DEF WriteEntries
  <2>3. QED BY <2>2 DEF Mutated, WriterChecked
<1>2. CASE \E r \in Removals : Uncatalog(r)
  <2>1. PICK r \in Removals : Uncatalog(r)
    BY <1>2
  <2>2. /\ rpc[r] = "delete" /\ removal[r].todo = {} /\ RemovalChecked(r)
        /\ removal[r].reviewed.repository # None
        /\ catalog' = [catalog EXCEPT ![removal[r].target] = None]
    BY <2>1 DEF Uncatalog
  <2>3. QED BY <2>2 DEF RemovalChecked
<1>3. QED
  <2>1. ~UNCHANGED catalog
    OBVIOUS
  <2>2. ~Reboot /\ ~UNCHANGED vars
    BY <2>1 DEF Reboot, vars
  <2>3. \A s \in Setups : ~StartSetup(s) /\ ~SetupStep(s) /\ ~CancelSetup(s)
                          /\ ~KillCoordinator(s) /\ ~HelperStep(s) /\ ~KillHelper(s)
    BY <2>1 DEF StartSetup, SetupStep, CancelSetup, KillCoordinator, LockSetup, ShareOperation,
           GetEntry, HelperReplies, UnlockOperation, UnlockSetup, ReapOrphan, HelperStep,
           HelperAuthorize, HelperLock, HelperCheck, HelperAccount, HelperInstall, HelperKey,
           HelperClone, HelperUnlock, HelperGoes, KillHelper
  <2>4. QED
    BY <1>1, <1>2, <2>1, <2>2, <2>3
       DEF Next, RemovalStep, StartRemoval, DecideRemoval, CancelRemoval, ShareInspection,
           InspectRemoval, LockExclusive, LockRemovalCatalog, Recheck, DeleteOne, DeleteFails,
           CloseCatalog, CloseOperation, WriterStep, StartWrite, LockWrite, ReadEntries,
           UnlockWrite, KillRemoval, KillWrite

\* No catalog change is lost: an entry comes with an add of that project, goes
\* with its confirmed removal after its accounts, and keeps its URL meanwhile.
THEOREM NoLostUpdate == Spec => OneCatalogChangeAtATime
<1>1. IInv /\ [Next]_vars =>
        [\A j \in ProjectIDs : catalog'[j] # catalog[j] =>
           \/ /\ catalog[j] = None
              /\ \E w \in Writers : wpc[w] = "write" /\ change[w].action = "add"
                                    /\ change[w].project = j /\ catalog'[j] = change[w].url
           \/ /\ catalog'[j] = None
              /\ \E r \in Removals : /\ removal[r].action = "remove" /\ removal[r].target = j
                                     /\ removal[r].reviewed.repository = catalog[j]
                                     /\ removal[r].todo = {}]_vars
  BY ChangesEntryStep
<1>2. QED BY <1>1, InductiveInvariant, PTL DEF Spec, OneCatalogChangeAtATime

-----------------------------------------------------------------------------
(* What is reported: a second inductive invariant, of which the first is   *)
(* an assumption.                                                          *)

HoldsSetup  == {"shareLock", "getEntry", "prepare", "publish", "cancelled", "succeeded",
                "failed", "unlockSetup"}
HoldsShared == HoldsSetup \ {"shareLock", "unlockSetup"}

\* A live coordinator holds what it has taken.
CoordinatorHolds(s) ==
    /\ cpc[s] \in HoldsSetup => setupLock[Target(s)] = s
    /\ cpc[s] \in HoldsShared => ByCoordinator(s) \in shared
CoordinatorsHold == \A s \in Setups : CoordinatorHolds(s)

\* So does a project removal that is about to give the catalog lock back.
RemoversHold == \A r \in Removals :
    rpc[r] = "closeCatalog" /\ removal[r].action = "remove" => ByRemover(r) \in catalogLock

Held == CoordinatorsHold /\ RemoversHold

LEMMA SetupHeld ==
  ASSUME TypeOK, CoordinatorsHold, NEW s \in Setups,
         StartSetup(s) \/ SetupStep(s) \/ CancelSetup(s) \/ KillCoordinator(s)
  PROVE  CoordinatorsHold'
<1> USE DEF TypeOK, SetupTypeOK, LockTypeOK, CoordinatorsHold, CoordinatorHolds,
            HoldsSetup, HoldsShared, ByCoordinator
<1>0. cpc[s] # "idle" => Target(s) \in Workspaces
  OBVIOUS
<1>1. CASE StartSetup(s)
  BY <1>1 DEF StartSetup, Target
<1>2. CASE LockSetup(s)
  <2>1. \A t \in Setups : Target(t)' = Target(t)
    BY <1>2 DEF LockSetup, Target
  <2>2. CoordinatorHolds(s)'
    BY <1>0, <1>2, <2>1 DEF LockSetup
  <2>3. ASSUME NEW t \in Setups \ {s} PROVE CoordinatorHolds(t)'
    <3>1. cpc'[t] = cpc[t] /\ shared' = shared
      BY <1>2 DEF LockSetup
    <3>2. cpc[t] \in HoldsSetup => Target(t) # Target(s) /\ setupLock'[Target(t)] = t
      BY <1>2 DEF LockSetup
    <3>3. QED BY <2>1, <3>1, <3>2
  <2>4. QED BY <2>2, <2>3
<1>3. CASE ShareOperation(s)
  <2>1. \A t \in Setups : Target(t)' = Target(t)
    BY <1>3 DEF ShareOperation, Target
  <2>2. QED BY <1>3, <2>1 DEF ShareOperation
<1>4. CASE GetEntry(s)
  <2>1. \A t \in Setups : Target(t)' = Target(t)
    BY <1>4 DEF GetEntry, Target, SetupRequests
  <2>2. UNCHANGED <<setupLock, shared>>
    BY <1>4 DEF GetEntry
  <2>3. \A t \in Setups : cpc'[t] = cpc[t] \/ (t = s /\ cpc[t] \in HoldsShared)
    BY <1>4 DEF GetEntry
  <2>4. QED BY <2>1, <2>2, <2>3
<1>5. CASE HelperReplies(s)
  <2>1. \A t \in Setups : Target(t)' = Target(t)
    BY <1>5 DEF HelperReplies, Target, SetupRequests
  <2>2. UNCHANGED <<setupLock, shared>>
    BY <1>5 DEF HelperReplies
  <2>3. \A t \in Setups : cpc'[t] = cpc[t] \/ (t = s /\ cpc[t] \in HoldsShared)
    BY <1>5 DEF HelperReplies
  <2>4. QED BY <2>1, <2>2, <2>3
<1>6. CASE UnlockOperation(s)
  <2>1. \A t \in Setups : Target(t)' = Target(t)
    BY <1>6 DEF UnlockOperation, Target
  <2>2. QED BY <1>6, <2>1 DEF UnlockOperation
<1>7. CASE UnlockSetup(s)
  <2>1. \A t \in Setups \ {s} : Target(t)' = Target(t) /\ cpc'[t] = cpc[t]
    BY <1>7 DEF UnlockSetup, Target
  <2>2. /\ cpc[s] = "unlockSetup" /\ cpc'[s] = "idle" /\ setupLock[Target(s)] = s
        /\ setupLock' = [setupLock EXCEPT ![Target(s)] = None] /\ shared' = shared
    BY <1>7 DEF UnlockSetup
  <2>3. ASSUME NEW t \in Setups \ {s} PROVE CoordinatorHolds(t)'
    <3>1. cpc[t] \in HoldsSetup => Target(t) # Target(s) /\ setupLock'[Target(t)] = t
      BY <2>2
    <3>2. QED BY <2>1, <2>2, <3>1
  <2>4. QED BY <2>2, <2>3
<1>8. CASE ReapOrphan(s)
  BY <1>8 DEF ReapOrphan, Target
<1>9. CASE CancelSetup(s)
  <2>1. UNCHANGED <<setupLock, shared>>
    BY <1>9 DEF CancelSetup
  <2>2. \A t \in Setups : cpc'[t] \in HoldsSetup => Target(t)' = Target(t)
    BY <1>9 DEF CancelSetup, Target
  <2>3. \A t \in Setups : cpc'[t] \in HoldsSetup => cpc[t] \in HoldsSetup
    BY <1>9 DEF CancelSetup
  <2>4. \A t \in Setups : cpc'[t] \in HoldsShared => cpc[t] \in HoldsShared
    BY <1>9 DEF CancelSetup
  <2>5. QED BY <2>1, <2>2, <2>3, <2>4
<1>10. CASE KillCoordinator(s)
  <2>1. \A t \in Setups : Target(t)' = Target(t)
    BY <1>10 DEF KillCoordinator, Target
  <2>2. CoordinatorHolds(s)'
    BY <1>10 DEF KillCoordinator
  <2>3. ASSUME NEW t \in Setups \ {s} PROVE CoordinatorHolds(t)'
    BY <1>10, <2>1 DEF KillCoordinator, HeldSetupLocksFreed
  <2>4. QED BY <2>2, <2>3
<1>11. QED BY <1>1, <1>2, <1>3, <1>4, <1>5, <1>6, <1>7, <1>8, <1>9, <1>10 DEF SetupStep

LEMMA HelperHeld ==
  ASSUME TypeOK, Held, NEW s \in Setups, HelperStep(s) \/ KillHelper(s)
  PROVE  Held'
<1> USE DEF Held, CoordinatorsHold, CoordinatorHolds, RemoversHold, ByCoordinator, ByHelper, Target
<1>1. UNCHANGED <<cpc, request, setupLock, catalogLock, removalVars>>
  BY DEF HelperStep, HelperAuthorize, HelperLock, HelperCheck, HelperAccount, HelperInstall,
         HelperKey, HelperClone, HelperUnlock, HelperGoes, KillHelper
<1>2. \A t \in Setups : ByCoordinator(t) \in shared => ByCoordinator(t) \in shared'
  BY DEF HelperStep, HelperAuthorize, HelperLock, HelperCheck, HelperAccount, HelperInstall,
         HelperKey, HelperClone, HelperUnlock, HelperGoes, KillHelper
<1>3. QED BY <1>1, <1>2

LEMMA TerminateHeld ==
  ASSUME TypeOK, CoordinatorsHold, NEW a, UNCHANGED request,
         Terminate(CoordinatorsOf(a)) \/ UNCHANGED <<cpc, setupLock, shared>>
  PROVE  CoordinatorsHold'
<1>1. CASE Terminate(CoordinatorsOf(a))
  <2> SUFFICES ASSUME NEW s \in Setups, cpc'[s] # "killed", cpc'[s] = cpc[s],
                      s \notin CoordinatorsOf(a)
               PROVE  /\ cpc'[s] \in HoldsSetup => setupLock'[Target(s)'] = s
                      /\ cpc'[s] \in HoldsShared => ByCoordinator(s) \in shared'
    BY <1>1 DEF Terminate, CoordinatorsHold, CoordinatorHolds, TypeOK, SetupTypeOK,
                   HoldsSetup, HoldsShared, ByCoordinator
  <2>1. Target(s)' = Target(s)
    BY DEF Target
  <2>2. cpc[s] # "idle" => Target(s) \in Workspaces
    BY DEF TypeOK, SetupTypeOK
  <2>3. cpc[s] \in HoldsSetup => setupLock'[Target(s)] = s
    BY <1>1, <2>2 DEF Terminate, HeldSetupLocksFreed, CoordinatorsHold, CoordinatorHolds, HoldsSetup
  <2>4. cpc[s] \in HoldsShared => ByCoordinator(s) \in shared'
    BY <1>1 DEF Terminate, CoordinatorsHold, CoordinatorHolds, ByCoordinator
  <2>5. QED BY <2>1, <2>3, <2>4
<1>2. CASE UNCHANGED <<cpc, setupLock, shared>>
  BY <1>2 DEF CoordinatorsHold, CoordinatorHolds, Target, ByCoordinator
<1>3. QED BY <1>1, <1>2

LEMMA RemovalHeld ==
  ASSUME TypeOK, LockDiscipline, Held, NEW r \in Removals,
         \/ StartRemoval(r) \/ RemovalStep(r) \/ DecideRemoval(r) \/ CancelRemoval(r)
         \/ KillRemoval(r)
  PROVE  Held'
<1>1. CoordinatorsHold'
  <2>1. CASE DeleteOne(r)
    BY <2>1, TerminateHeld DEF DeleteOne, Held
  <2>2. CASE DeleteFails(r)
    BY <2>2, TerminateHeld DEF DeleteFails, Held
  <2>3. CASE UNCHANGED setupVars /\ ~DeleteOne(r) /\ ~DeleteFails(r)
    <3>1. UNCHANGED setupLock
      BY <2>3 DEF StartRemoval, RemovalStep, DecideRemoval, CancelRemoval, KillRemoval,
         ShareInspection, InspectRemoval, LockExclusive, LockRemovalCatalog, Recheck, Uncatalog,
         CloseCatalog, CloseOperation
    <3>2. \A s \in Setups : ByCoordinator(s) \in shared => ByCoordinator(s) \in shared'
      BY <2>3 DEF StartRemoval, RemovalStep, DecideRemoval, CancelRemoval, KillRemoval,
         ShareInspection, InspectRemoval, LockExclusive, LockRemovalCatalog, Recheck, Uncatalog,
         CloseCatalog, CloseOperation, ByCoordinator, ByInspector
    <3>3. QED BY <2>3, <3>1, <3>2 DEF Held, CoordinatorsHold, CoordinatorHolds, Target
  <2>4. ~DeleteOne(r) /\ ~DeleteFails(r) => UNCHANGED setupVars
    BY DEF StartRemoval, RemovalStep, DecideRemoval, CancelRemoval, KillRemoval,
         ShareInspection, InspectRemoval, LockExclusive, LockRemovalCatalog, Recheck, Uncatalog,
         CloseCatalog, CloseOperation
  <2>5. QED BY <2>1, <2>2, <2>3, <2>4
<1>2. RemoversHold'
  <2> USE DEF TypeOK, RemovalTypeOK, Held, RemoversHold, ByRemover
  <2>1. CASE StartRemoval(r) BY <2>1 DEF StartRemoval
  <2>2. CASE ShareInspection(r) BY <2>2 DEF ShareInspection
  <2>3. CASE InspectRemoval(r) BY <2>3 DEF InspectRemoval
  <2>4. CASE DecideRemoval(r) BY <2>4 DEF DecideRemoval
  <2>5. CASE LockExclusive(r) BY <2>5 DEF LockExclusive
  <2>6. CASE LockRemovalCatalog(r) BY <2>6 DEF LockRemovalCatalog
  <2>7. CASE Recheck(r) BY <2>7 DEF Recheck, LockDiscipline
  <2>8. CASE DeleteOne(r) BY <2>8 DEF DeleteOne
  <2>9. CASE DeleteFails(r) BY <2>9 DEF DeleteFails, LockDiscipline
  <2>10. CASE Uncatalog(r) BY <2>10 DEF Uncatalog, LockDiscipline
  <2>11. CASE CloseCatalog(r) BY <2>11 DEF CloseCatalog
  <2>12. CASE CloseOperation(r) BY <2>12 DEF CloseOperation
  <2>13. CASE CancelRemoval(r) BY <2>13 DEF CancelRemoval
  <2>14. CASE KillRemoval(r) BY <2>14 DEF KillRemoval
  <2>15. QED BY <2>1, <2>2, <2>3, <2>4, <2>5, <2>6, <2>7, <2>8, <2>9, <2>10, <2>11, <2>12,
                <2>13, <2>14 DEF RemovalStep
<1>3. QED BY <1>1, <1>2 DEF Held

LEMMA NextHeld == TypeOK /\ LockDiscipline /\ Held /\ [Next]_vars => Held'
<1> SUFFICES ASSUME TypeOK, LockDiscipline, Held, [Next]_vars PROVE Held'
  OBVIOUS
<1>1. ASSUME NEW s \in Setups,
             StartSetup(s) \/ SetupStep(s) \/ CancelSetup(s) \/ KillCoordinator(s)
      PROVE  Held'
  <2>1. UNCHANGED <<catalogLock, removalVars>>
    BY <1>1 DEF StartSetup, SetupStep, CancelSetup, KillCoordinator, LockSetup, ShareOperation,
         GetEntry, HelperReplies, UnlockOperation, UnlockSetup, ReapOrphan
  <2>2. QED BY <1>1, <2>1, SetupHeld DEF Held, RemoversHold
<1>2. ASSUME NEW w \in Writers, StartWrite(w) \/ WriterStep(w) \/ KillWrite(w)
      PROVE  Held'
  <2>1. UNCHANGED <<setupLock, shared, setupVars, removalVars>>
    BY <1>2 DEF StartWrite, WriterStep, KillWrite, LockWrite, ReadEntries, WriteEntries, UnlockWrite
  <2>2. \A r \in Removals : ByRemover(r) \in catalogLock => ByRemover(r) \in catalogLock'
    BY <1>2 DEF StartWrite, WriterStep, KillWrite, LockWrite, ReadEntries, WriteEntries, UnlockWrite,
                ByRemover, ByWriter
  <2>3. QED BY <2>1, <2>2 DEF Held, CoordinatorsHold, CoordinatorHolds, RemoversHold, Target, ByCoordinator
<1>3. CASE Reboot
  BY <1>3 DEF Reboot, Held, CoordinatorsHold, CoordinatorHolds, RemoversHold, HoldsSetup, HoldsShared
<1>4. CASE UNCHANGED vars
  BY <1>4 DEF vars, Held, CoordinatorsHold, CoordinatorHolds, RemoversHold, Target, ByCoordinator
<1>5. QED BY <1>1, <1>2, <1>3, <1>4, HelperHeld, RemovalHeld DEF Next

\* What a setup has reached: its helper's part of the work, and what of its
\* workspace is there while its coordinator lives.
PreparedHome(a)  == KeysReadable(a) /\ home[a].git
PublishedHome(a) == PreparedHome(a) /\ home[a].clone # None

HelperProgress(s) ==
    /\ hpc[s] \in {"account", "install", "key"} => request[s].action = "prepare"
    /\ hpc[s] = "clone" => request[s].action = "publish" /\ request[s].url # None
CoordinatorProgress(s) ==
    /\ cpc[s] \in {"setupLock", "shareLock", "getEntry", "prepare"}
         => request[s].action = "prepare"
    /\ cpc[s] = "prepare" =>
         /\ hpc[s] = "key" => KeysReadable(Target(s))
         /\ hpc[s] \in {"finished", "ok"} => PreparedHome(Target(s))
    /\ cpc[s] = "publish" =>
         /\ request[s].action = "publish" /\ PreparedHome(Target(s))
         /\ hpc[s] \in {"finished", "ok"} => PublishedHome(Target(s))
    /\ cpc[s] = "succeeded" => PublishedHome(Target(s))
Progress(s) == HelperProgress(s) /\ CoordinatorProgress(s)

\* No step but a deletion takes anything from a home.
Keeps(a) ==
    /\ KeysReadable(a) => KeysReadable(a)'
    /\ PreparedHome(a) => PreparedHome(a)'
    /\ PublishedHome(a) => PublishedHome(a)'

\* A home that is used keeps at least what it holds.
LEMMA KeepsMore ==
  ASSUME NEW a,
         HomeUsable(a) => /\ HomeUsable(a)'
                          /\ home[a].keys => home'[a].keys
                          /\ home[a].git => home'[a].git
                          /\ home[a].clone # None => home'[a].clone # None
  PROVE  Keeps(a)
<1>1. KeysReadable(a) => KeysReadable(a)'
  BY DEF KeysReadable
<1>2. PreparedHome(a) => PreparedHome(a)'
  BY <1>1 DEF PreparedHome, KeysReadable
<1>3. PublishedHome(a) => PublishedHome(a)'
  BY <1>2 DEF PublishedHome, PreparedHome, KeysReadable
<1>4. QED BY <1>1, <1>2, <1>3 DEF Keeps

LEMMA KeepsUnchanged == ASSUME UNCHANGED <<uid, home>>, NEW a PROVE Keeps(a)
  BY DEF Keeps, KeysReadable, PreparedHome, PublishedHome, HomeUsable

\* A helper only adds to what a home holds, its own or another's.
LEMMA HelperKeeps ==
  ASSUME TypeOK, NEW s \in Setups, HelperStep(s), NEW a \in Accounts
  PROVE  Keeps(a)
<1> USE DEF HelperGoes
<1>1. CASE UNCHANGED <<uid, home>>
  BY <1>1, KeepsUnchanged
<1>2. CASE ~Exists(Target(s)) /\ UserAdd(Target(s))
  <2>1. PICK u \in UIDs :
          /\ uid' = [uid EXCEPT ![Target(s)] = u]
          /\ home' = [home EXCEPT ![Target(s)] = IF @ = None THEN NewHome(u) ELSE @]
    BY <1>2 DEF UserAdd
  <2>2. HomeUsable(a) => a # Target(s)
    BY <1>2 DEF TypeOK, HostTypeOK, HomeUsable, Homes, UIDs, Exists
  <2>3. HomeUsable(a) => uid'[a] = uid[a] /\ home'[a] = home[a]
    BY <2>1, <2>2 DEF TypeOK, HostTypeOK
  <2>4. QED BY <2>3, KeepsMore DEF HomeUsable
<1>3. CASE HelperInstall(s) /\ home' = [home EXCEPT ![Target(s)].keys = TRUE]
  <2>1. HomeUsable(a) => home[a] \in Homes
    BY DEF TypeOK, HostTypeOK, HomeUsable
  <2>2. HomeUsable(a) => home'[a] = home[a] \/ home'[a] = [home[a] EXCEPT !.keys = TRUE]
    BY <1>3 DEF TypeOK, HostTypeOK
  <2>3. uid' = uid
    BY <1>3 DEF HelperInstall
  <2>4. HomeUsable(a) => /\ home'[a] # None /\ home'[a].owner = home[a].owner
                         /\ home[a].keys => home'[a].keys
                         /\ home[a].git => home'[a].git
                         /\ home[a].clone # None => home'[a].clone # None
    BY <2>1, <2>2, NoneIsNoHome DEF Homes
  <2>5. HomeUsable(a) => HomeUsable(a)'
    BY <2>3, <2>4 DEF HomeUsable
  <2>6. QED BY <2>4, <2>5, KeepsMore
<1>4. CASE HelperKey(s) /\ home' = [home EXCEPT ![Target(s)].git = TRUE]
  <2>1. HomeUsable(a) => home[a] \in Homes
    BY DEF TypeOK, HostTypeOK, HomeUsable
  <2>2. HomeUsable(a) => home'[a] = home[a] \/ home'[a] = [home[a] EXCEPT !.git = TRUE]
    BY <1>4 DEF TypeOK, HostTypeOK
  <2>3. uid' = uid
    BY <1>4 DEF HelperKey
  <2>4. HomeUsable(a) => /\ home'[a] # None /\ home'[a].owner = home[a].owner
                         /\ home[a].keys => home'[a].keys
                         /\ home[a].git => home'[a].git
                         /\ home[a].clone # None => home'[a].clone # None
    BY <2>1, <2>2, NoneIsNoHome DEF Homes
  <2>5. HomeUsable(a) => HomeUsable(a)'
    BY <2>3, <2>4 DEF HomeUsable
  <2>6. QED BY <2>4, <2>5, KeepsMore
<1>5. ASSUME HelperClone(s), NEW c \in URLs \cup {None, "incomplete"},
             home' = [home EXCEPT ![Target(s)].clone = c],
             home[Target(s)].clone = None
      PROVE  Keeps(a)
  <2>1. HomeUsable(a) => home[a] \in Homes
    BY DEF TypeOK, HostTypeOK, HomeUsable
  <2>2. HomeUsable(a) =>
          \/ home'[a] = home[a]
          \/ home'[a] = [home[a] EXCEPT !.clone = c] /\ home[a].clone = None
    BY <1>5 DEF TypeOK, HostTypeOK
  <2>3. uid' = uid
    BY <1>5 DEF HelperClone
  <2>4. HomeUsable(a) => /\ home'[a] # None /\ home'[a].owner = home[a].owner
                         /\ home[a].keys => home'[a].keys
                         /\ home[a].git => home'[a].git
                         /\ home[a].clone # None => home'[a].clone # None
    BY <2>1, <2>2, NoneIsNoHome DEF Homes
  <2>5. HomeUsable(a) => HomeUsable(a)'
    BY <2>3, <2>4 DEF HomeUsable
  <2>6. QED BY <2>4, <2>5, KeepsMore
<1>6. CASE HelperAuthorize(s) BY <1>1, <1>6 DEF HelperAuthorize
<1>7. CASE HelperLock(s) BY <1>1, <1>7 DEF HelperLock
<1>8. CASE HelperCheck(s) BY <1>1, <1>8 DEF HelperCheck
<1>9. CASE HelperUnlock(s) BY <1>1, <1>9 DEF HelperUnlock
<1>10. CASE HelperAccount(s) BY <1>1, <1>2, <1>10 DEF HelperAccount
<1>11. CASE HelperInstall(s) BY <1>1, <1>3, <1>11 DEF HelperInstall
<1>12. CASE HelperKey(s) BY <1>1, <1>4, <1>12 DEF HelperKey
<1>13. CASE HelperClone(s)
  <2>1. request[s].url \in URLs \cup {None}
    BY DEF TypeOK, SetupTypeOK, SetupRequests
  <2>2. QED BY <1>1, <1>5, <1>13, <2>1 DEF HelperClone
<1>14. QED BY <1>6, <1>7, <1>8, <1>9, <1>10, <1>11, <1>12, <1>13 DEF HelperStep

\* A setup that does not advance loses nothing as long as its home does not.
LEMMA KeepsProgress ==
  ASSUME TypeOK, NEW s \in Setups, Progress(s), request'[s] = request[s],
         cpc[s] # "idle" => \A a \in Accounts : Keeps(a),
         cpc'[s] = cpc[s] \/ cpc'[s] \in {"cancelled", "failed", "unlockSetup", "killed"},
         hpc'[s] = hpc[s] \/ hpc'[s] \in {"idle", "authorize", "lock", "check", "failed", "error"}
  PROVE  Progress(s)'
<1>1. Target(s)' = Target(s)
  BY DEF Target
<1>2. HelperProgress(s)'
  BY DEF Progress, HelperProgress
<1>3. cpc[s] # "idle" => Target(s) \in Accounts
  BY AccountType DEF TypeOK, SetupTypeOK
<1>4. CoordinatorProgress(s)'
  BY <1>1, <1>3 DEF Progress, CoordinatorProgress, Keeps, KeysReadable, PreparedHome,
                        PublishedHome, HomeUsable
<1>5. QED BY <1>2, <1>4 DEF Progress

SetupsProgress == \A s \in Setups : Progress(s)

LEMMA SetupProgress ==
  ASSUME TypeOK, SetupsProgress, NEW s \in Setups,
         \/ StartSetup(s) \/ SetupStep(s) \/ CancelSetup(s) \/ KillCoordinator(s)
         \/ KillHelper(s)
  PROVE  SetupsProgress'
<1>1. UNCHANGED <<uid, home>>
  BY DEF StartSetup, SetupStep, CancelSetup, KillCoordinator, KillHelper, LockSetup,
         ShareOperation, GetEntry, HelperReplies, UnlockOperation, UnlockSetup, ReapOrphan
<1>2. \A a : Keeps(a)
  BY <1>1, KeepsUnchanged
<1>3. ASSUME NEW t \in Setups, t # s PROVE Progress(t)'
  <2>1. cpc'[t] = cpc[t] /\ hpc'[t] = hpc[t] /\ request'[t] = request[t]
    BY <1>3 DEF StartSetup, SetupStep, CancelSetup, KillCoordinator, KillHelper, LockSetup,
         ShareOperation, GetEntry, HelperReplies, UnlockOperation, UnlockSetup, ReapOrphan,
         TypeOK, SetupTypeOK
  <2>2. QED BY <1>2, <2>1, KeepsProgress DEF SetupsProgress
<1>4. Progress(s)'
  <2> USE DEF TypeOK, SetupTypeOK
  <2>0. /\ Progress(s)
        /\ hpc[s] # "idle" => cpc[s] \in {"prepare", "publish", "cancelled", "killed"}
    BY DEF SetupsProgress
  <2>1. CASE StartSetup(s)
    BY <2>0, <2>1 DEF StartSetup, Progress, HelperProgress, CoordinatorProgress
  <2>2. CASE LockSetup(s) \/ ShareOperation(s)
    BY <2>0, <2>2 DEF LockSetup, ShareOperation, Progress, HelperProgress, CoordinatorProgress
  <2>3. CASE GetEntry(s)
    BY <2>0, <2>3 DEF GetEntry, Progress, HelperProgress, CoordinatorProgress, SetupRequests
  <2>4. CASE HelperReplies(s)
    <3>1. Target(s)' = Target(s)
      BY <2>4 DEF HelperReplies, Target, SetupRequests
    <3>2. CASE hpc[s] = "ok" /\ cpc[s] = "prepare" /\ cpc'[s] = "publish"
      <4>1. hpc'[s] = "authorize" /\ request'[s].action = "publish"
        BY <2>4, <3>2 DEF HelperReplies, SetupRequests
      <4>2. PreparedHome(Target(s))
        BY <2>0, <3>2 DEF Progress, CoordinatorProgress
      <4>3. PreparedHome(Target(s))'
        BY <1>1, <3>1, <4>2 DEF PreparedHome, KeysReadable, HomeUsable
      <4>4. QED BY <3>2, <4>1, <4>3 DEF Progress, HelperProgress, CoordinatorProgress
    <3>3. CASE hpc[s] = "ok" /\ cpc[s] = "publish" /\ cpc'[s] = "succeeded"
      <4>1. hpc'[s] = "idle"
        BY <2>4, <3>3 DEF HelperReplies
      <4>2. PublishedHome(Target(s))
        BY <2>0, <3>3 DEF Progress, CoordinatorProgress
      <4>3. PublishedHome(Target(s))'
        BY <1>1, <3>1, <4>2 DEF PublishedHome, PreparedHome, KeysReadable, HomeUsable
      <4>4. QED BY <3>3, <4>1, <4>3 DEF Progress, HelperProgress, CoordinatorProgress
    <3>4. CASE cpc'[s] = "failed" /\ hpc'[s] = "idle" /\ UNCHANGED request
      BY <1>2, <2>0, <3>4, KeepsProgress
    <3>5. QED BY <2>4, <3>2, <3>3, <3>4 DEF HelperReplies
  <2>5. CASE UnlockOperation(s)
    BY <1>2, <2>0, <2>5, KeepsProgress DEF UnlockOperation
  <2>6. CASE UnlockSetup(s) \/ ReapOrphan(s)
    BY <2>0, <2>6 DEF UnlockSetup, ReapOrphan, Progress, HelperProgress, CoordinatorProgress
  <2>7. CASE CancelSetup(s)
    <3>1. CASE cpc'[s] = "idle"
      BY <2>0, <2>7, <3>1 DEF CancelSetup, Progress, HelperProgress, CoordinatorProgress
    <3>2. CASE cpc'[s] # "idle"
      BY <1>2, <2>0, <2>7, <3>2, KeepsProgress DEF CancelSetup
    <3>3. QED BY <3>1, <3>2
  <2>8. CASE KillCoordinator(s)
    BY <1>2, <2>0, <2>8, KeepsProgress DEF KillCoordinator
  <2>9. CASE KillHelper(s)
    BY <1>2, <2>0, <2>9, KeepsProgress DEF KillHelper
  <2>10. QED BY <2>1, <2>2, <2>3, <2>4, <2>5, <2>6, <2>7, <2>8, <2>9 DEF SetupStep
<1>5. QED BY <1>3, <1>4 DEF SetupsProgress

LEMMA HelperAdvances ==
  ASSUME TypeOK, SetupsProgress, NEW s \in Setups, HelperStep(s)
  PROVE  SetupsProgress'
<1>1. \A a \in Accounts : Keeps(a)
  BY HelperKeeps
<1>2. /\ UNCHANGED <<cpc, request>> /\ Target(s)' = Target(s)
      /\ cpc[s] \in {"prepare", "publish", "cancelled", "killed"}
      /\ Target(s) \in Accounts /\ Progress(s)
  <2>1. UNCHANGED <<cpc, request>> /\ hpc[s] # "idle"
    BY DEF HelperStep, HelperAuthorize, HelperLock, HelperCheck, HelperAccount, HelperInstall,
           HelperKey, HelperClone, HelperUnlock, HelperGoes
  <2>2. QED BY <2>1, AccountType DEF TypeOK, SetupTypeOK, SetupsProgress, Target
<1>3. ASSUME NEW t \in Setups, t # s PROVE Progress(t)'
  <2>1. hpc'[t] = hpc[t]
    BY <1>3 DEF HelperStep, HelperAuthorize, HelperLock, HelperCheck, HelperAccount, HelperInstall,
           HelperKey, HelperClone, HelperUnlock, HelperGoes, TypeOK, SetupTypeOK
  <2>2. QED BY <1>1, <1>2, <2>1, KeepsProgress DEF SetupsProgress
<1>4. Progress(s)'
  <2> USE DEF TypeOK, SetupTypeOK, HelperGoes
  <2>0. CASE hpc'[s] \in {"idle", "authorize", "lock", "check", "failed", "error"}
    BY <1>1, <1>2, <2>0, KeepsProgress
  <2>1. CASE HelperAuthorize(s) \/ HelperLock(s)
    BY <2>0, <2>1 DEF HelperAuthorize, HelperLock
  <2>2. CASE HelperCheck(s)
    <3>1. \/ hpc'[s] = "failed"
          \/ hpc'[s] = "account" /\ request[s].action = "prepare"
          \/ hpc'[s] = "clone" /\ request[s].action = "publish" /\ request[s].url # None
      BY <2>2 DEF HelperCheck, SetupRequests
    <3>2. HelperProgress(s)'
      BY <1>2, <3>1 DEF HelperProgress
    <3>3. CoordinatorProgress(s)'
      <4>1. UNCHANGED <<uid, home>>
        BY <2>2 DEF HelperCheck
      <4>2. QED BY <1>2, <3>1, <4>1 DEF Progress, CoordinatorProgress, PublishedHome,
                   PreparedHome, KeysReadable, HomeUsable
    <3>4. QED BY <3>2, <3>3 DEF Progress
  <2>3. CASE HelperAccount(s) \/ HelperInstall(s) \/ HelperKey(s) \/ HelperClone(s)
             \/ HelperUnlock(s)
    <3>1. CASE hpc'[s] = "install"
      <4>1. HelperAccount(s)
        BY <2>3, <3>1 DEF HelperAccount, HelperInstall, HelperKey, HelperClone, HelperUnlock
      <4>2. hpc[s] = "account"
        BY <4>1 DEF HelperAccount
      <4>3. HelperProgress(s)'
        BY <1>2, <3>1, <4>2 DEF Progress, HelperProgress
      <4>4. CoordinatorProgress(s)'
        BY <1>1, <1>2, <3>1, <4>2 DEF Progress, HelperProgress, CoordinatorProgress
      <4>5. QED BY <4>3, <4>4 DEF Progress
    <3>2. CASE hpc'[s] = "key"
      <4>1. request[s].action = "prepare"
        BY <1>2, <2>3, <3>2 DEF HelperAccount, HelperInstall, HelperKey, HelperClone,
                                HelperUnlock, Progress, HelperProgress
      <4>2. KeysReadable(Target(s))'
        <5>1. CASE HelperAccount(s)
          BY <1>2, <3>2, <5>1 DEF HelperAccount, KeysReadable, HomeUsable
        <5>2. CASE HelperInstall(s)
          <6>1. /\ HomeUsable(Target(s))
                /\ home' = [home EXCEPT ![Target(s)].keys = TRUE] /\ uid' = uid
            BY <3>2, <5>2 DEF HelperInstall
          <6>2. home[Target(s)] \in Homes
            BY <1>2, <6>1 DEF HostTypeOK, HomeUsable
          <6>3. home'[Target(s)] = [home[Target(s)] EXCEPT !.keys = TRUE]
            BY <1>2, <6>1 DEF HostTypeOK
          <6>4. home'[Target(s)] \in Homes /\ home'[Target(s)].keys
                /\ home'[Target(s)].owner = home[Target(s)].owner
            BY <6>2, <6>3 DEF Homes
          <6>5. QED BY <1>2, <6>1, <6>4, NoneIsNoHome DEF KeysReadable, HomeUsable
        <5>3. QED BY <2>3, <3>2, <5>1, <5>2 DEF HelperKey, HelperClone, HelperUnlock
      <4>3. HelperProgress(s)'
        BY <1>2, <3>2, <4>1 DEF HelperProgress
      <4>4. CoordinatorProgress(s)'
        BY <1>2, <3>2, <4>1, <4>2 DEF Progress, HelperProgress, CoordinatorProgress
      <4>5. QED BY <4>3, <4>4 DEF Progress
    <3>3. CASE hpc'[s] = "finished" /\ HelperKey(s)
      <4>1. /\ HomeUsable(Target(s)) /\ hpc[s] = "key"
            /\ home' = [home EXCEPT ![Target(s)].git = TRUE] /\ uid' = uid
        BY <3>3 DEF HelperKey
      <4>2. request[s].action = "prepare"
        BY <1>2, <4>1 DEF Progress, HelperProgress
      <4>3. cpc[s] = "prepare" => PreparedHome(Target(s))'
        <5>1. cpc[s] = "prepare" => KeysReadable(Target(s))
          BY <1>2, <4>1 DEF Progress, CoordinatorProgress
        <5>2. cpc[s] = "prepare" => KeysReadable(Target(s))'
          BY <1>1, <1>2, <5>1 DEF Keeps, KeysReadable, HomeUsable
        <5>3. home[Target(s)] \in Homes
          BY <1>2, <4>1 DEF HostTypeOK, HomeUsable
        <5>4. home'[Target(s)].git
          BY <1>2, <4>1, <5>3 DEF HostTypeOK, Homes
        <5>5. QED BY <1>2, <5>2, <5>4 DEF PreparedHome
      <4>4. HelperProgress(s)'
        BY <3>3 DEF HelperProgress
      <4>5. CoordinatorProgress(s)'
        BY <1>2, <3>3, <4>2, <4>3 DEF Progress, CoordinatorProgress
      <4>6. QED BY <4>4, <4>5 DEF Progress
    <3>4. CASE hpc'[s] = "finished" /\ HelperClone(s)
      <4>1. request[s].action = "publish" /\ request[s].url # None /\ hpc[s] = "clone"
        BY <1>2, <3>4 DEF HelperClone, Progress, HelperProgress
      <4>2. home'[Target(s)].clone # None
        <5>1. \A h, c : home' = [home EXCEPT ![Target(s)].clone = c] /\ home[Target(s)] \in Homes
                          => home'[Target(s)].clone = c
          BY <1>2 DEF HostTypeOK, Homes
        <5>2. HomeUsable(Target(s)) => home[Target(s)] \in Homes
          BY <1>2 DEF HostTypeOK, HomeUsable
        <5>3. QED BY <3>4, <4>1, <5>1, <5>2 DEF HelperClone
      <4>3. cpc[s] = "publish" => PublishedHome(Target(s))'
        BY <1>1, <1>2, <4>2 DEF Progress, CoordinatorProgress, Keeps, PublishedHome, PreparedHome,
                                KeysReadable, HomeUsable
      <4>4. HelperProgress(s)'
        BY <3>4 DEF HelperProgress
      <4>5. CoordinatorProgress(s)'
        BY <1>2, <3>4, <4>1, <4>3 DEF Progress, CoordinatorProgress, PublishedHome
      <4>6. QED BY <4>4, <4>5 DEF Progress
    <3>5. CASE hpc'[s] = "ok"
      <4>1. hpc[s] = "finished" /\ UNCHANGED <<uid, home>>
        BY <2>3, <3>5 DEF HelperAccount, HelperInstall, HelperKey, HelperClone, HelperUnlock
      <4>2. HelperProgress(s)'
        BY <3>5 DEF HelperProgress
      <4>3. CoordinatorProgress(s)'
        BY <1>2, <3>5, <4>1 DEF Progress, CoordinatorProgress, PublishedHome, PreparedHome,
                                KeysReadable, HomeUsable
      <4>4. QED BY <4>2, <4>3 DEF Progress
    <3>6. QED BY <2>0, <2>3, <3>1, <3>2, <3>3, <3>4, <3>5
              DEF HelperAccount, HelperInstall, HelperKey, HelperClone, HelperUnlock
  <2>4. QED BY <2>1, <2>2, <2>3 DEF HelperStep
<1>5. QED BY <1>3, <1>4 DEF SetupsProgress

\* A deletion meets no coordinator and no helper that is past its locks: what
\* it takes away no setup has reached.
LEMMA DeletionProgress ==
  ASSUME TypeOK, LockDiscipline, CoordinatorsHold, SetupsProgress,
         NEW r \in Removals, DeleteOne(r) \/ DeleteFails(r)
  PROVE  SetupsProgress'
<1>1. shared = {}
  BY DEF DeleteOne, DeleteFails, LockDiscipline
<1>2. UNCHANGED <<hpc, request>>
  BY DEF DeleteOne, DeleteFails
<1>3. \A s \in Setups : cpc'[s] = cpc[s] \/ cpc'[s] = "killed"
  <2>1. PICK dead : Terminate(dead) \/ UNCHANGED cpc
    BY DEF DeleteOne, DeleteFails
  <2>2. QED BY <2>1 DEF Terminate
<1>4. \A s \in Setups : cpc[s] \notin HoldsShared
  BY <1>1 DEF CoordinatorsHold, CoordinatorHolds
<1>5. \A s \in Setups : hpc[s] \notin {"account", "install", "key", "clone"}
  BY <1>1 DEF LockDiscipline
<1>6. \A s \in Setups : HelperProgress(s)'
  BY <1>2, <1>5 DEF HelperProgress
<1>7. \A s \in Setups : CoordinatorProgress(s)'
  BY <1>2, <1>3, <1>4 DEF SetupsProgress, Progress, CoordinatorProgress, HoldsShared, HoldsSetup
<1>8. QED BY <1>6, <1>7 DEF SetupsProgress, Progress

LEMMA ElsewhereProgress ==
  ASSUME TypeOK, SetupsProgress, UNCHANGED <<uid, home, setupVars>>
  PROVE  SetupsProgress'
<1>1. \A a : Keeps(a)
  BY KeepsUnchanged
<1>2. QED BY <1>1, KeepsProgress DEF SetupsProgress

LEMMA NextProgress ==
  TypeOK /\ LockDiscipline /\ Held /\ SetupsProgress /\ [Next]_vars => SetupsProgress'
<1> SUFFICES ASSUME TypeOK, LockDiscipline, Held, SetupsProgress, [Next]_vars
             PROVE  SetupsProgress'
  OBVIOUS
<1>1. CASE Reboot
  BY <1>1 DEF Reboot, SetupsProgress, Progress, HelperProgress, CoordinatorProgress
<1>2. ASSUME NEW r \in Removals,
             \/ StartRemoval(r) \/ RemovalStep(r) \/ DecideRemoval(r) \/ CancelRemoval(r)
             \/ KillRemoval(r),
             ~DeleteOne(r), ~DeleteFails(r)
      PROVE  SetupsProgress'
  <2>1. UNCHANGED <<uid, home, setupVars>>
    BY <1>2 DEF StartRemoval, RemovalStep, DecideRemoval, CancelRemoval, KillRemoval,
         ShareInspection, InspectRemoval, LockExclusive, LockRemovalCatalog, Recheck, Uncatalog,
         CloseCatalog, CloseOperation
  <2>2. QED BY <2>1, ElsewhereProgress
<1>3. ASSUME NEW w \in Writers, StartWrite(w) \/ WriterStep(w) \/ KillWrite(w)
      PROVE  SetupsProgress'
  <2>1. UNCHANGED <<uid, home, setupVars>>
    BY <1>3 DEF StartWrite, WriterStep, KillWrite, LockWrite, ReadEntries, WriteEntries, UnlockWrite
  <2>2. QED BY <2>1, ElsewhereProgress
<1>4. CASE UNCHANGED vars
  BY <1>4, ElsewhereProgress DEF vars
<1>5. QED BY <1>1, <1>2, <1>3, <1>4, SetupProgress, HelperAdvances, DeletionProgress
       DEF Next, Held, RemovalStep

-----------------------------------------------------------------------------
(* What a removal reports                                                  *)

\* What a removal has to report of the accounts and, while it holds the
\* catalog lock, of the entry.
AccountsTold(r) ==
    /\ \A a \in receipt[r].removed : ~Exists(a)
    /\ \A i \in receipt[r].notAttempted : uid[i[1]] = i[2]
    /\ receipt[r].ok => \A i \in removal[r].reviewed.accounts : ~Exists(i[1])
CatalogTold(r) ==
    /\ receipt[r].catalog = "removed" => catalog[removal[r].target] = None
    /\ receipt[r].catalog = "not_attempted" =>
         catalog[removal[r].target] = removal[r].reviewed.repository
    /\ receipt[r].ok => catalog[removal[r].target] = None
\* What it knows while it works through its list.
Deleting(r) ==
    /\ receipt[r].notAttempted = {} /\ ~receipt[r].ok
    /\ \A a \in receipt[r].removed : ~Exists(a)
    /\ \A i \in removal[r].todo : uid[i[1]] = i[2]
    /\ \A i \in removal[r].reviewed.accounts \ removal[r].todo : ~Exists(i[1])
    /\ removal[r].action = "remove" =>
         /\ receipt[r].catalog = "not_attempted"
         /\ catalog[removal[r].target] = removal[r].reviewed.repository
Report(r) ==
    /\ rpc[r] \notin {"delete", "closeCatalog", "closeOperation"} => receipt[r] = NoReceipt
    /\ rpc[r] = "delete" => Deleting(r)
    /\ rpc[r] \in {"closeCatalog", "closeOperation"} => AccountsTold(r)
    /\ rpc[r] = "closeCatalog" /\ removal[r].action = "remove" => CatalogTold(r)
Reports == \A r \in Removals : Report(r)

\* Only the step of its own process, of an account or of the catalog changes
\* what a removal can report.
LEMMA KeepsReport ==
  ASSUME NEW r \in Removals, Report(r), rpc'[r] = rpc[r], removal'[r] = removal[r],
         receipt'[r] = receipt[r],
         rpc[r] \in {"delete", "closeCatalog", "closeOperation"} => uid' = uid,
         rpc[r] \in {"delete", "closeCatalog"} /\ removal[r].action = "remove"
           => catalog' = catalog
  PROVE  Report(r)'
<1>1. rpc[r] = "delete" => Deleting(r)'
  BY DEF Report, Deleting, Exists
<1>2. rpc[r] \in {"closeCatalog", "closeOperation"} => AccountsTold(r)'
  BY DEF Report, AccountsTold, Exists
<1>3. rpc[r] = "closeCatalog" /\ removal[r].action = "remove" => CatalogTold(r)'
  BY DEF Report, CatalogTold
<1>4. QED BY <1>1, <1>2, <1>3 DEF Report

\* Whoever has the exclusive lock is the only process that changes accounts.
LEMMA Alone ==
  ASSUME LockDiscipline, NEW r \in Removals,
         rpc[r] \in {"delete", "closeCatalog", "closeOperation"}
  PROVE  /\ \A s \in Setups : hpc[s] # "account"
         /\ \A q \in Removals : rpc[q] = "delete" => q = r
  BY DEF LockDiscipline, ByHelper, ByRemover

LEMMA CatalogAlone ==
  ASSUME LockDiscipline, RemoversHold, NEW r \in Removals,
         rpc[r] \in {"delete", "closeCatalog"}, removal[r].action = "remove"
  PROVE  \A w \in Writers : wpc[w] # "write"
  BY DEF LockDiscipline, RemoversHold, ByRemover, ByWriter

LEMMA ReportsElsewhere ==
  ASSUME TypeOK, LockDiscipline, Held, Reports, UNCHANGED removalVars,
         uid' = uid \/ \E s \in Setups : hpc[s] = "account",
         catalog' = catalog \/ \E w \in Writers : wpc[w] = "write"
  PROVE  Reports'
  BY KeepsReport, Alone, CatalogAlone DEF Reports, Held

\* A step of one removal, told of the others.
LEMMA ReportsOther ==
  ASSUME TypeOK, LockDiscipline, Reports, NEW r \in Removals,
         UNCHANGED <<uid, catalog>> \/ rpc[r] = "delete",
         \A q \in Removals \ {r} : /\ rpc'[q] = rpc[q] /\ removal'[q] = removal[q]
                                   /\ receipt'[q] = receipt[q]
  PROVE  \A q \in Removals \ {r} : Report(q)'
  BY KeepsReport, Alone DEF Reports

LEMMA RecheckReport ==
  ASSUME IInv, Reports, NEW r \in Removals, Recheck(r)
  PROVE  Report(r)'
<1> USE DEF IInv, TypeOK, RemovalTypeOK
<1>1. receipt[r] = NoReceipt /\ rpc[r] = "recheck" /\ UNCHANGED <<catalog, uid>>
      /\ receipt[r] \in Receipts /\ removal[r] \in RemovalRequests
  BY DEF Recheck, Reports, Report
<1>2. CASE rpc'[r] = "delete"
  <2>1. /\ Scope(removal[r]) = removal[r].reviewed
        /\ removal' = [removal EXCEPT ![r].todo = Scope(removal[r]).accounts]
        /\ receipt' = [receipt EXCEPT ![r].catalog =
               IF removal[r].action = "remove" THEN "not_attempted" ELSE "unchanged"]
    BY <1>2 DEF Recheck, Confirmed
  <2>2. /\ removal'[r].action = removal[r].action /\ removal'[r].target = removal[r].target
        /\ removal'[r].reviewed = removal[r].reviewed
        /\ removal'[r].todo = removal[r].reviewed.accounts
    BY <1>1, <2>1 DEF RemovalRequests
  <2>3. /\ receipt'[r].removed = {} /\ receipt'[r].notAttempted = {} /\ ~receipt'[r].ok
        /\ removal[r].action = "remove" => receipt'[r].catalog = "not_attempted"
    BY <1>1, <2>1 DEF NoReceipt
  <2>4. \A i \in removal'[r].todo : uid[i[1]] = i[2]
    BY <2>1, <2>2 DEF Scope, Identities
  <2>5. removal[r].action = "remove" => catalog[removal[r].target] = removal[r].reviewed.repository
    BY <2>1 DEF Scope
  <2>6. Deleting(r)'
    BY <1>1, <2>2, <2>3, <2>4, <2>5 DEF Deleting
  <2>7. QED BY <1>2, <2>6 DEF Report
<1>3. CASE rpc'[r] = "closeCatalog" /\ UNCHANGED receipt
  BY <1>1, <1>3 DEF Report, AccountsTold, CatalogTold, NoReceipt
<1>4. QED BY <1>2, <1>3 DEF Recheck

LEMMA DeleteOneReport ==
  ASSUME IInv, Reports, NEW r \in Removals, DeleteOne(r)
  PROVE  Report(r)'
<1> USE DEF IInv, TypeOK, HostTypeOK, RemovalTypeOK
<1>1. PICK i \in removal[r].todo :
        /\ uid[i[1]] = i[2]
        /\ uid' = [uid EXCEPT ![i[1]] = 0]
        /\ removal' = [removal EXCEPT ![r].todo = @ \ {i}]
        /\ receipt' = [receipt EXCEPT ![r].removed = @ \cup {i[1]}]
  BY DEF DeleteOne
<1>2. /\ removal[r] \in RemovalRequests /\ receipt[r] \in Receipts
      /\ i \in Accounts \X UIDs /\ rpc[r] = "delete" /\ Deleting(r) /\ UNCHANGED <<rpc, catalog>>
  BY <1>1 DEF DeleteOne, RemovalRequests, Reports, Report
<1>3. /\ removal'[r].action = removal[r].action /\ removal'[r].target = removal[r].target
      /\ removal'[r].reviewed = removal[r].reviewed /\ removal'[r].todo = removal[r].todo \ {i}
  BY <1>1, <1>2 DEF RemovalRequests
<1>4. /\ receipt'[r].removed = receipt[r].removed \cup {i[1]} /\ receipt'[r].ok = receipt[r].ok
      /\ receipt'[r].notAttempted = receipt[r].notAttempted
      /\ receipt'[r].catalog = receipt[r].catalog
  BY <1>1, <1>2 DEF Receipts
<1>5. uid'[i[1]] = 0 /\ \A a : uid[a] = 0 /\ a \in Accounts => uid'[a] = 0
  BY <1>1, <1>2
<1>6. \A a \in receipt'[r].removed : ~Exists(a)'
  <2>1. receipt[r].removed \subseteq Accounts
    BY <1>2 DEF Receipts
  <2>2. QED BY <1>2, <1>4, <1>5, <2>1 DEF Exists, Deleting
<1>7. \A k \in removal'[r].todo : uid'[k[1]] = k[2]
  <2> SUFFICES ASSUME NEW k \in removal[r].todo, k # i PROVE uid'[k[1]] = k[2]
    BY <1>3
  <2>1. k \in Accounts \X UIDs /\ uid[k[1]] = k[2]
    BY <1>2 DEF Deleting, RemovalRequests
  <2>2. k[1] # i[1]
    BY <1>1, <1>2, <2>1
  <2>3. QED BY <1>1, <2>1, <2>2
<1>8. \A k \in removal'[r].reviewed.accounts \ removal'[r].todo : ~Exists(k[1])'
  <2> SUFFICES ASSUME NEW k \in removal[r].reviewed.accounts, k = i \/ k \notin removal[r].todo
               PROVE  uid'[k[1]] = 0
    BY <1>3 DEF Exists
  <2>1. k \in Accounts \X UIDs
    BY <1>2 DEF RemovalRequests, Scopes
  <2>2. k # i => uid[k[1]] = 0
    BY <1>2 DEF Deleting, Exists
  <2>3. QED BY <1>5, <2>1, <2>2
<1>9. Deleting(r)'
  BY <1>2, <1>3, <1>4, <1>6, <1>7, <1>8 DEF Deleting
<1>10. QED BY <1>2, <1>9 DEF Report

LEMMA DeleteFailsReport ==
  ASSUME IInv, Reports, NEW r \in Removals, DeleteFails(r)
  PROVE  Report(r)'
<1> USE DEF IInv, TypeOK, HostTypeOK, RemovalTypeOK
<1>1. PICK i \in removal[r].todo :
        /\ uid' = uid \/ (uid' = [uid EXCEPT ![i[1]] = 0] /\ uid[i[1]] = i[2])
        /\ receipt' = [receipt EXCEPT ![r].uncertain = i[1],
                                      ![r].notAttempted = removal[r].todo \ {i}]
  BY DEF DeleteFails
<1>2. /\ removal[r] \in RemovalRequests /\ receipt[r] \in Receipts
      /\ i \in Accounts \X UIDs /\ rpc[r] = "delete" /\ rpc'[r] = "closeCatalog"
      /\ Deleting(r) /\ UNCHANGED <<removal, catalog>>
  BY <1>1 DEF DeleteFails, RemovalRequests, Reports, Report
<1>3. /\ receipt'[r].removed = receipt[r].removed /\ ~receipt'[r].ok
      /\ receipt'[r].notAttempted = removal[r].todo \ {i}
      /\ receipt'[r].catalog = receipt[r].catalog
  BY <1>1, <1>2 DEF Receipts, Deleting
<1>4. \A a \in receipt'[r].removed : ~Exists(a)'
  <2>1. receipt[r].removed \subseteq Accounts
    BY <1>2 DEF Receipts
  <2>2. \A a \in Accounts : uid[a] = 0 => uid'[a] = 0
    BY <1>1, <1>2
  <2>3. QED BY <1>2, <1>3, <2>1, <2>2 DEF Exists, Deleting
<1>5. \A k \in receipt'[r].notAttempted : uid'[k[1]] = k[2]
  <2> SUFFICES ASSUME NEW k \in removal[r].todo, k # i PROVE uid'[k[1]] = k[2]
    BY <1>3
  <2>1. k \in Accounts \X UIDs /\ uid[k[1]] = k[2]
    BY <1>2 DEF Deleting, RemovalRequests
  <2>2. uid[i[1]] = i[2]
    BY <1>2 DEF Deleting
  <2>3. k[1] # i[1]
    BY <1>2, <2>1, <2>2
  <2>4. QED BY <1>1, <2>1, <2>3
<1>6. AccountsTold(r)'
  BY <1>3, <1>4, <1>5 DEF AccountsTold
<1>7. removal[r].action = "remove" => CatalogTold(r)'
  BY <1>2, <1>3 DEF CatalogTold, Deleting
<1>8. QED BY <1>2, <1>6, <1>7 DEF Report

LEMMA UncatalogReport ==
  ASSUME IInv, Reports, NEW r \in Removals, Uncatalog(r)
  PROVE  Report(r)'
<1> USE DEF IInv, TypeOK, HostTypeOK, RemovalTypeOK
<1>1. /\ removal[r] \in RemovalRequests /\ receipt[r] \in Receipts
      /\ rpc[r] = "delete" /\ rpc'[r] = "closeCatalog" /\ removal[r].todo = {}
      /\ Deleting(r) /\ UNCHANGED <<removal, uid>>
      /\ removal[r].action = "remove" => removal[r].target \in ProjectIDs
  BY DEF Uncatalog, Reports, Report
<1>2. receipt'[r].removed = receipt[r].removed /\ receipt'[r].notAttempted = {}
  <2>1. PICK ok \in BOOLEAN, c \in {"removed", "uncertain"} :
          \/ receipt' = [receipt EXCEPT ![r].ok = TRUE]
          \/ receipt' = [receipt EXCEPT ![r].catalog = c, ![r].ok = ok]
          \/ receipt' = [receipt EXCEPT ![r].catalog = c]
    BY DEF Uncatalog
  <2>2. QED BY <1>1, <2>1 DEF Receipts, Deleting
<1>3. AccountsTold(r)'
  BY <1>1, <1>2 DEF AccountsTold, Deleting, Exists
<1>4. removal[r].action = "remove" => CatalogTold(r)'
  <2>1. CASE /\ removal[r].reviewed.repository = None
             /\ receipt' = [receipt EXCEPT ![r].ok = TRUE] /\ UNCHANGED catalog
    BY <1>1, <2>1 DEF Receipts, Deleting, CatalogTold
  <2>2. ASSUME NEW ok \in BOOLEAN, catalog' = [catalog EXCEPT ![removal[r].target] = None],
               receipt' = [receipt EXCEPT ![r].catalog = CatalogOutcome(ok), ![r].ok = ok]
        PROVE  removal[r].action = "remove" => CatalogTold(r)'
    <3>1. receipt'[r].catalog \in {"removed", "uncertain"}
      BY <1>1, <2>2 DEF Receipts
    <3>2. removal[r].action = "remove" => catalog'[removal'[r].target] = None
      BY <1>1, <2>2
    <3>3. QED BY <3>1, <3>2 DEF CatalogTold
  <2>3. CASE receipt' = [receipt EXCEPT ![r].catalog = CatalogOutcome(FALSE)] /\ UNCHANGED catalog
    BY <1>1, <2>3 DEF Receipts, Deleting, CatalogTold
  <2>4. QED BY <2>1, <2>2, <2>3 DEF Uncatalog
<1>5. QED BY <1>1, <1>3, <1>4 DEF Report

LEMMA RemovalReports ==
  ASSUME IInv, Held, Reports, NEW r \in Removals,
         \/ StartRemoval(r) \/ RemovalStep(r) \/ DecideRemoval(r) \/ CancelRemoval(r)
         \/ KillRemoval(r)
  PROVE  Reports'
<1> USE DEF IInv, TypeOK, RemovalTypeOK
<1>1. UNCHANGED <<uid, catalog>> \/ rpc[r] = "delete"
  BY DEF StartRemoval, RemovalStep, DecideRemoval, CancelRemoval, KillRemoval,
         ShareInspection, InspectRemoval, LockExclusive, LockRemovalCatalog, Recheck, DeleteOne,
         DeleteFails, Uncatalog, CloseCatalog, CloseOperation
<1>2. \A q \in Removals \ {r} : /\ rpc'[q] = rpc[q] /\ removal'[q] = removal[q]
                                /\ receipt'[q] = receipt[q]
  <2>1. CASE DeleteOne(r) BY <2>1 DEF DeleteOne
  <2>2. CASE DeleteFails(r) BY <2>2 DEF DeleteFails
  <2>3. CASE Uncatalog(r) BY <2>3 DEF Uncatalog
  <2>4. CASE Recheck(r) BY <2>4 DEF Recheck
  <2>5. QED BY <2>1, <2>2, <2>3, <2>4 DEF StartRemoval, RemovalStep, DecideRemoval, CancelRemoval,
         KillRemoval, ShareInspection, InspectRemoval, LockExclusive, LockRemovalCatalog,
         CloseCatalog, CloseOperation
<1>3. \A q \in Removals \ {r} : Report(q)'
  BY <1>1, <1>2, ReportsOther
<1>4. Report(r)'
  <2>1. CASE rpc'[r] \notin {"delete", "closeCatalog", "closeOperation"} /\ receipt'[r] = NoReceipt
    BY <2>1 DEF Report
  <2>2. CASE /\ rpc[r] \notin {"delete", "closeCatalog", "closeOperation"}
             /\ rpc'[r] \notin {"delete", "closeCatalog", "closeOperation"}
             /\ UNCHANGED receipt
    BY <2>1, <2>2 DEF Reports, Report
  <2>3. CASE StartRemoval(r) BY <2>2, <2>3 DEF StartRemoval
  <2>4. CASE ShareInspection(r) BY <2>2, <2>4 DEF ShareInspection
  <2>5. CASE InspectRemoval(r) BY <2>2, <2>5 DEF InspectRemoval
  <2>6. CASE DecideRemoval(r) BY <2>2, <2>6 DEF DecideRemoval
  <2>7. CASE LockExclusive(r) BY <2>2, <2>7 DEF LockExclusive
  <2>8. CASE LockRemovalCatalog(r) BY <2>2, <2>8 DEF LockRemovalCatalog
  <2>9. CASE CloseOperation(r) BY <2>1, <2>9 DEF CloseOperation
  <2>10. CASE KillRemoval(r) BY <2>1, <2>10 DEF KillRemoval
  <2>11. CASE CloseCatalog(r)
    <3>1. /\ rpc[r] = "closeCatalog" /\ rpc'[r] = "closeOperation"
          /\ UNCHANGED <<removal, receipt, uid>>
      BY <2>11 DEF CloseCatalog
    <3>2. AccountsTold(r)'
      BY <3>1 DEF Reports, Report, AccountsTold, Exists
    <3>3. QED BY <3>1, <3>2 DEF Report
  <2>12. CASE CancelRemoval(r)
    <3>1. CASE rpc'[r] = "idle"
      BY <2>2, <2>12, <3>1 DEF CancelRemoval
    <3>2. CASE rpc'[r] = "closeOperation"
      BY <2>12, <3>2 DEF CancelRemoval, Reports, Report, AccountsTold, NoReceipt
    <3>3. QED BY <2>12, <3>1, <3>2 DEF CancelRemoval
  <2>13. QED BY <2>3, <2>4, <2>5, <2>6, <2>7, <2>8, <2>9, <2>10, <2>11, <2>12,
                RecheckReport, DeleteOneReport, DeleteFailsReport, UncatalogReport DEF RemovalStep
<1>5. QED BY <1>3, <1>4 DEF Reports

LEMMA NextReports == IInv /\ Held /\ Reports /\ [Next]_vars => Reports'
<1> SUFFICES ASSUME IInv, Held, Reports, [Next]_vars PROVE Reports'
  OBVIOUS
<1> USE DEF IInv
<1>1. CASE Reboot
  BY <1>1 DEF Reboot, Reports, Report
<1>2. CASE UNCHANGED vars
  BY <1>2, ReportsElsewhere DEF vars
<1>3. ASSUME NEW s \in Setups,
             \/ StartSetup(s) \/ SetupStep(s) \/ HelperStep(s) \/ CancelSetup(s)
             \/ KillCoordinator(s) \/ KillHelper(s)
      PROVE  Reports'
  <2>1. UNCHANGED <<catalog, removalVars>> /\ (uid' = uid \/ hpc[s] = "account")
    BY <1>3 DEF StartSetup, SetupStep, CancelSetup, KillCoordinator, LockSetup, ShareOperation,
           GetEntry, HelperReplies, UnlockOperation, UnlockSetup, ReapOrphan, HelperStep,
           HelperAuthorize, HelperLock, HelperCheck, HelperAccount, HelperInstall, HelperKey,
           HelperClone, HelperUnlock, HelperGoes, KillHelper
  <2>2. QED BY <2>1, ReportsElsewhere
<1>4. ASSUME NEW w \in Writers, StartWrite(w) \/ WriterStep(w) \/ KillWrite(w)
      PROVE  Reports'
  <2>1. UNCHANGED <<uid, removalVars>> /\ (catalog' = catalog \/ wpc[w] = "write")
    BY <1>4 DEF StartWrite, WriterStep, LockWrite, ReadEntries, WriteEntries, UnlockWrite, KillWrite
  <2>2. QED BY <2>1, ReportsElsewhere
<1>5. QED BY <1>1, <1>2, <1>3, <1>4, RemovalReports DEF Next

Truth == Held /\ SetupsProgress /\ Reports

LEMMA TruthHolds == Spec => [](IInv /\ Truth)
<1>1. Init => Truth
  BY DEF Init, InitProcesses, Truth, Held, CoordinatorsHold, CoordinatorHolds, RemoversHold,
         HoldsSetup, HoldsShared, SetupsProgress, Progress, HelperProgress, CoordinatorProgress,
         Reports, Report
<1>2. IInv /\ Truth /\ [Next]_vars => Truth'
  BY NextHeld, NextProgress, NextReports DEF IInv, Truth
<1>3. QED BY <1>1, <1>2, InductiveInvariant, PTL DEF Spec

\* Success is reported only of a workspace that is there and complete, with
\* the account, both keys and a checkout, whatever ran in between.
THEOREM SuccessIsReady == Spec => []ReadyOnSuccess
<1>1. IInv /\ Truth => ReadyOnSuccess
  <2> SUFFICES ASSUME IInv, Truth, NEW s \in Setups, cpc[s] = "succeeded"
               PROVE  /\ Exists(Target(s)) /\ KeysReadable(Target(s))
                      /\ home[Target(s)].git /\ home[Target(s)].clone # None
    BY DEF ReadyOnSuccess
  <2>1. PublishedHome(Target(s)) /\ Target(s) \in Accounts
    BY AccountType DEF Truth, SetupsProgress, Progress, CoordinatorProgress, IInv, TypeOK, SetupTypeOK
  <2>2. KeysReadable(Target(s)) /\ home[Target(s)].git /\ home[Target(s)].clone # None
    BY <2>1 DEF PublishedHome, PreparedHome
  <2>3. Exists(Target(s))
    BY <2>1, <2>2 DEF KeysReadable, HomeUsable, IInv, TypeOK, HostTypeOK, Homes, UIDs, Exists
  <2>4. QED BY <2>2, <2>3
<1>2. QED BY <1>1, TruthHolds, PTL

\* While their coordinators live, two helpers never work on one workspace.
THEOREM HelpersApart == Spec => []OneHelperPerWorkspace
<1>1. IInv /\ Truth => OneHelperPerWorkspace
  <2> SUFFICES ASSUME IInv, Truth, NEW s \in Setups, NEW t \in Setups, s # t,
                      Target(s) = Target(t),
                      {hpc[s], hpc[t]} \cap {"idle", "ok", "error"} = {},
                      cpc[s] # "killed", cpc[t] # "killed"
               PROVE  FALSE
    BY DEF OneHelperPerWorkspace
  <2>1. cpc[s] \in HoldsSetup /\ cpc[t] \in HoldsSetup
    BY DEF IInv, TypeOK, SetupTypeOK, HoldsSetup
  <2>2. QED BY <2>1 DEF Truth, Held, CoordinatorsHold, CoordinatorHolds
<1>2. QED BY <1>1, TruthHolds, PTL

\* The receipt of a removal describes the accounts as they are while it still
\* holds the exclusive lock.
THEOREM ReceiptsTrue == Spec => []ReceiptTruthful
<1>1. Truth => ReceiptTruthful
  BY DEF Truth, Reports, Report, AccountsTold, ReceiptTruthful
<1>2. QED BY <1>1, TruthHolds, PTL

\* And the shared entry while it still holds the catalog lock.
THEOREM CatalogReceiptsTrue == Spec => []CatalogReceiptTruthful
<1>1. Truth => CatalogReceiptTruthful
  BY DEF Truth, Reports, Report, CatalogTold, CatalogReceiptTruthful
<1>2. QED BY <1>1, TruthHolds, PTL

-----------------------------------------------------------------------------
(* With an administrator working behind Soda's back                        *)

LEMMA NativeType == TypeOK /\ [NativeNext]_vars => TypeOK'
<1> SUFFICES ASSUME TypeOK, NativeUserDel \/ NativeUserAdd PROVE TypeOK'
  BY NextType DEF NativeNext
<1> USE Stable DEF TypeOK
<1>1. CASE NativeUserDel
  <2>1. HostTypeOK'
    BY <1>1 DEF NativeUserDel, HostTypeOK
  <2>2. QED BY <1>1, <2>1 DEF NativeUserDel
<1>2. CASE NativeUserAdd
  <2>1. PICK p \in People : UserAdd(Primary(p))
    BY <1>2 DEF NativeUserAdd
  <2>2. HostTypeOK'
    BY <1>2, <2>1, UserAddType DEF NativeUserAdd, HostTypeOK
  <2>3. QED BY <1>2, <2>2 DEF NativeUserAdd
<1>3. QED BY <1>1, <1>2

\* The locks are Soda's alone: nothing native touches them.
LEMMA NativeLocks == TypeOK /\ LockDiscipline /\ [NativeNext]_vars => LockDiscipline'
  BY NextLocks DEF NativeNext, NativeUserDel, NativeUserAdd, LockDiscipline

\* A work list never leaves what was reviewed.
WorkListReviewed ==
    \A r \in Removals : rpc[r] = "delete" => removal[r].todo \subseteq removal[r].reviewed.accounts

LEMMA NextWorkList == TypeOK /\ WorkListReviewed /\ [NativeNext]_vars => WorkListReviewed'
<1> SUFFICES ASSUME TypeOK, WorkListReviewed, [NativeNext]_vars PROVE WorkListReviewed'
  OBVIOUS
<1> USE DEF TypeOK, RemovalTypeOK, WorkListReviewed
<1>1. CASE \A q \in Removals : rpc'[q] = "delete" => rpc[q] = "delete" /\ removal'[q] = removal[q]
  BY <1>1
<1>2. ASSUME NEW r \in Removals, Recheck(r) PROVE WorkListReviewed'
  <2>1. removal[r] \in RemovalRequests
    OBVIOUS
  <2>2. rpc'[r] = "delete" => removal'[r].todo = removal'[r].reviewed.accounts
    BY <1>2, <2>1 DEF Recheck, Confirmed, RemovalRequests
  <2>3. \A q \in Removals \ {r} : rpc'[q] = rpc[q] /\ removal'[q] = removal[q]
    BY <1>2 DEF Recheck
  <2>4. QED BY <2>2, <2>3
<1>3. ASSUME NEW r \in Removals, DeleteOne(r) PROVE WorkListReviewed'
  <2>1. removal[r] \in RemovalRequests /\ UNCHANGED rpc
    BY <1>3 DEF DeleteOne
  <2>2. PICK i : removal' = [removal EXCEPT ![r].todo = @ \ {i}]
    BY <1>3 DEF DeleteOne
  <2>3. removal'[r].todo \subseteq removal[r].todo /\ removal'[r].reviewed = removal[r].reviewed
    BY <2>1, <2>2 DEF RemovalRequests
  <2>4. QED BY <2>1, <2>2, <2>3
<1>4. ASSUME NEW r \in Removals,
             \/ StartRemoval(r) \/ RemovalStep(r) \/ DecideRemoval(r) \/ CancelRemoval(r)
             \/ KillRemoval(r),
             ~Recheck(r), ~DeleteOne(r)
      PROVE  \A q \in Removals : rpc'[q] = "delete" => rpc[q] = "delete" /\ removal'[q] = removal[q]
  BY <1>4 DEF StartRemoval, RemovalStep, DecideRemoval, CancelRemoval, KillRemoval,
         ShareInspection, InspectRemoval, LockExclusive, LockRemovalCatalog, DeleteFails,
         Uncatalog, CloseCatalog, CloseOperation
<1>5. CASE Reboot
  BY <1>5 DEF Reboot
<1>6. CASE UNCHANGED removalVars
  BY <1>1, <1>6
<1>7. NativeUserDel \/ NativeUserAdd \/ UNCHANGED vars => UNCHANGED removalVars
  BY DEF NativeUserDel, NativeUserAdd, vars
<1>8. ASSUME NEW s \in Setups,
             \/ StartSetup(s) \/ SetupStep(s) \/ HelperStep(s) \/ CancelSetup(s)
             \/ KillCoordinator(s) \/ KillHelper(s)
      PROVE  UNCHANGED removalVars
  BY <1>8 DEF StartSetup, SetupStep, CancelSetup, KillCoordinator, LockSetup, ShareOperation,
         GetEntry, HelperReplies, UnlockOperation, UnlockSetup, ReapOrphan, HelperStep,
         HelperAuthorize, HelperLock, HelperCheck, HelperAccount, HelperInstall, HelperKey,
         HelperClone, HelperUnlock, HelperGoes, KillHelper
<1>9. ASSUME NEW w \in Writers, StartWrite(w) \/ WriterStep(w) \/ KillWrite(w)
      PROVE  UNCHANGED removalVars
  BY <1>9 DEF StartWrite, WriterStep, LockWrite, ReadEntries, WriteEntries, UnlockWrite, KillWrite
<1>10. QED BY <1>1, <1>2, <1>3, <1>4, <1>5, <1>6, <1>7, <1>8, <1>9 DEF NativeNext, Next

NativeInv == TypeOK /\ LockDiscipline /\ WorkListReviewed

LEMMA NativeInvariant == NativeSpec => []NativeInv
<1>1. Init => NativeInv
  BY InitType DEF Init, InitProcesses, LockDiscipline, WorkListReviewed, NativeInv
<1>2. NativeInv /\ [NativeNext]_vars => NativeInv'
  BY NativeType, NativeLocks, NextWorkList DEF NativeInv
<1>3. QED BY <1>1, <1>2, PTL DEF NativeSpec

\* A step that removes accounts and reports it is a deletion of a reviewed one.
LEMMA RemovesReviewedStep ==
  ASSUME NativeInv, [NativeNext]_vars, NEW r \in Removals, receipt'[r] # receipt[r],
         NEW a \in Accounts, Exists(a), uid'[a] = 0
  PROVE  <<a, uid[a]>> \in removal[r].reviewed.accounts
<1> USE DEF NativeInv
<1>1. PICK q \in Removals : DeleteOne(q) \/ DeleteFails(q)
  <2>1. uid' # uid /\ receipt' # receipt
    BY DEF Exists
  <2>2. ~Reboot /\ ~UNCHANGED vars /\ ~NativeUserDel /\ ~NativeUserAdd
    BY <2>1 DEF Reboot, vars, NativeUserDel, NativeUserAdd
  <2>3. \A s \in Setups : ~StartSetup(s) /\ ~SetupStep(s) /\ ~CancelSetup(s)
                          /\ ~KillCoordinator(s) /\ ~HelperStep(s) /\ ~KillHelper(s)
    BY DEF StartSetup, SetupStep, CancelSetup, KillCoordinator, LockSetup, ShareOperation,
           GetEntry, HelperReplies, UnlockOperation, UnlockSetup, ReapOrphan, HelperStep,
           HelperAuthorize, HelperLock, HelperCheck, HelperAccount, HelperInstall, HelperKey,
           HelperClone, HelperUnlock, HelperGoes, KillHelper
  <2>4. \A w \in Writers : ~StartWrite(w) /\ ~WriterStep(w) /\ ~KillWrite(w)
    BY DEF StartWrite, WriterStep, LockWrite, ReadEntries, WriteEntries, UnlockWrite, KillWrite
  <2>5. QED
    BY <2>1, <2>2, <2>3, <2>4
       DEF NativeNext, Next, RemovalStep, StartRemoval, DecideRemoval, CancelRemoval,
           ShareInspection, InspectRemoval, LockExclusive, LockRemovalCatalog, Recheck, Uncatalog,
           CloseCatalog, CloseOperation, KillRemoval
<1>2. q = r /\ rpc[r] = "delete"
  BY <1>1 DEF DeleteOne, DeleteFails, TypeOK, RemovalTypeOK
<1>3. PICK i \in removal[r].todo : /\ uid' = uid \/ uid' = [uid EXCEPT ![i[1]] = 0]
                                   /\ uid' # uid => uid[i[1]] = i[2]
  BY <1>1, <1>2 DEF DeleteOne, DeleteFails
<1>4. i \in Accounts \X UIDs
  BY DEF TypeOK, RemovalTypeOK, RemovalRequests
<1>5. a = i[1] /\ uid[a] = i[2]
  BY <1>3, <1>4 DEF Exists, TypeOK, HostTypeOK
<1>6. i \in removal[r].reviewed.accounts
  BY <1>2, <1>3 DEF WorkListReviewed
<1>7. QED BY <1>4, <1>5, <1>6

\* A removal deletes only accounts that were in the confirmed preview, with
\* the UID they had in it, whatever an administrator does natively meanwhile.
THEOREM OnlyReviewedNatively == NativeSpec => RemovesOnlyReviewed
<1>1. NativeInv /\ [NativeNext]_vars =>
        [\A r \in Removals : receipt'[r] # receipt[r] =>
           \A a \in Accounts : Exists(a) /\ uid'[a] = 0 =>
              <<a, uid[a]>> \in removal[r].reviewed.accounts]_vars
  BY RemovesReviewedStep
<1>2. QED BY <1>1, NativeInvariant, PTL DEF NativeSpec, RemovesOnlyReviewed

\* The same of Soda alone, whose steps are among those.
THEOREM OnlyReviewed == Spec => RemovesOnlyReviewed
<1>1. [Next]_vars => [NativeNext]_vars
  BY DEF NativeNext
<1>2. Spec => NativeSpec
  BY <1>1, PTL DEF Spec, NativeSpec
<1>3. QED BY <1>2, OnlyReviewedNatively
=============================================================================
