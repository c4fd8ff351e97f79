------------------------------ MODULE Projects ------------------------------
(***************************************************************************)
(* The Soda Projects service (internal/projects with linuxhost and         *)
(* filelock): unprivileged setup coordinators, the privileged helper, the  *)
(* shared catalog, Linux accounts and homes, and the four advisory locks.  *)
(*                                                                         *)
(*   setup lock      one per (person, project), held by a coordinator      *)
(*   operation lock  shared by coordinators, helpers and inspections,      *)
(*                   exclusive for a confirmed removal                     *)
(*   catalog lock    held by one catalog mutation at a time                *)
(*                                                                         *)
(* Every process may be interleaved with every other between two commands  *)
(* or file operations.  An account is <<person, project>>; the primary     *)
(* account of a person is <<person, None>>.  UID 0 marks an absent account.*)
(***************************************************************************)
EXTENDS Naturals, FiniteSets

CONSTANTS People,         \* human primary usernames
          Administrators, \* the people in wheel
          ProjectIDs,     \* catalog identifiers
          URLs,           \* canonical repository URLs
          Setups,         \* slots for concurrent soda-projects setup processes
          Removals,       \* slots for concurrent removal conversations
          Writers,        \* slots for concurrent catalog-add/-edit helpers
          MaxUID,         \* UIDs useradd may allocate are 1 .. MaxUID
          MaxRequests,    \* bound on the requests that arrive
          MaxFaults,      \* bound on kills, cancellations, reboots, native acts
          None

ASSUME ProjectsAssumption ==
    /\ Administrators \subseteq People
    /\ None \notin ProjectIDs
    /\ None \notin URLs \cup {"incomplete"}
    /\ None \notin Setups
    /\ MaxUID \in Nat /\ MaxRequests \in Nat /\ MaxFaults \in Nat

VARIABLES
    catalog,     \* published catalog file: project -> canonical URL or None
    uid,         \* passwd: account -> UID, 0 when absent
    home,        \* home directories: account -> record or None
    setupLock,   \* (person, project) -> the coordinator holding its setup lock
    shared,      \* processes holding the operation lock shared
    exclusive,   \* removals holding the operation lock exclusively
    catalogLock, \* processes holding the catalog lock
    cpc, hpc,    \* control state of each coordinator and of its helper process
    request,     \* what each setup was asked and has read from the catalog
    rpc,         \* control state of each removal conversation
    removal,     \* its request, its confirmed scope and its work list
    receipt,     \* what it will report
    wpc, change, \* control state and request of each catalog mutation
    snapshot,    \* the entries that mutation has read
    requests, faults

hostVars    == <<catalog, uid, home>>
lockVars    == <<setupLock, shared, exclusive, catalogLock>>
setupVars   == <<cpc, hpc, request>>
removalVars == <<rpc, removal, receipt>>
writerVars  == <<wpc, change, snapshot>>
bounds      == <<requests, faults>>
vars == <<hostVars, lockVars, setupVars, removalVars, writerVars, bounds>>

-----------------------------------------------------------------------------
(* Accounts, homes and scopes                                              *)

Accounts   == People \X (ProjectIDs \cup {None})
Workspaces == People \X ProjectIDs
Primary(p) == <<p, None>>

UIDs  == 1 .. MaxUID
Homes == [owner: UIDs, keys: BOOLEAN, git: BOOLEAN,
          clone: URLs \cup {None, "incomplete"}]
ASSUME NoneIsNoHome == None \notin Homes
NewHome(u) == [owner |-> u, keys |-> FALSE, git |-> FALSE, clone |-> None]

Exists(a) == uid[a] # 0

\* OpenAccountHome: the home is there and owned by the account's current UID.
HomeUsable(a) == home[a] # None /\ home[a].owner = uid[a]

\* ReadAuthorizedKeys succeeds.
KeysReadable(a) == HomeUsable(a) /\ home[a].keys

\* authorizeActor: the caller's UID still names the primary account.
Authorized(p, caller) == caller # 0 /\ uid[Primary(p)] = caller

\* Identity of an account as a removal compares it (name and UID).
Identities(accounts) == {<<a, uid[a]>> : a \in accounts}

Actions == {"remove-workspace", "remove", "delete-human"}

\* The accounts a removal request is about, and those that exist now.
Concerns(q, a) ==
    \/ q.action = "remove-workspace" /\ a = <<q.by, q.target>>
    \/ q.action = "remove" /\ a[2] = q.target
    \/ q.action = "delete-human" /\ a[1] = q.target
Selected(q) == {a \in Accounts : Exists(a) /\ Concerns(q, a)}

\* removalScope succeeds: authorization and every account's preflight hold.
ScopeReadable(q) ==
    /\ Authorized(q.by, q.caller)
    /\ q.action \in {"remove", "delete-human"} => q.by \in Administrators
    /\ q.action = "delete-human" => Exists(Primary(q.target))
    /\ \A a \in Selected(q) : HomeUsable(a)

NoScope == [repository |-> None, accounts |-> {}]
Scope(q) ==
    [repository |-> IF q.action = "remove" THEN catalog[q.target] ELSE None,
     accounts   |-> Identities(Selected(q))]

NoReceipt == [ok |-> FALSE, removed |-> {}, uncertain |-> None,
              notAttempted |-> {}, catalog |-> "unchanged"]
NoRequest == [who |-> None, project |-> None, caller |-> 0,
              url |-> None, action |-> "prepare"]
NoRemoval == [action |-> "remove", by |-> None, caller |-> 0,
              target |-> None, reviewed |-> NoScope, todo |-> {}]
NoChange  == [action |-> "edit", by |-> None, caller |-> 0,
              project |-> None, url |-> None]
NoCatalog == [j \in ProjectIDs |-> None]

Target(s) == <<request[s].who, request[s].project>>
ByCoordinator(s) == <<"coordinator", s>>
ByHelper(s)      == <<"helper", s>>
ByInspector(r)   == <<"inspector", r>>
ByRemover(r)     == <<"remover", r>>
ByWriter(w)      == <<"writer", w>>

-----------------------------------------------------------------------------
\* A machine with its primary accounts and a catalog, before any setup.
InitHost ==
    /\ catalog \in [ProjectIDs -> URLs \cup {None}]
    /\ uid \in [Accounts -> 0 .. MaxUID]
    /\ \A a \in Accounts : Exists(a) <=> a \notin Workspaces
    /\ \A p, q \in People : uid[Primary(p)] = uid[Primary(q)] => p = q
    /\ home = [a \in Accounts |->
                 IF a \in Workspaces THEN None
                 ELSE [NewHome(uid[a]) EXCEPT !.keys = TRUE]]

\* No process is running.
InitProcesses ==
    /\ setupLock = [w \in Workspaces |-> None]
    /\ shared = {} /\ exclusive = {} /\ catalogLock = {}
    /\ cpc = [s \in Setups |-> "idle"]
    /\ hpc = [s \in Setups |-> "idle"]
    /\ request = [s \in Setups |-> NoRequest]
    /\ rpc = [r \in Removals |-> "idle"]
    /\ removal = [r \in Removals |-> NoRemoval]
    /\ receipt = [r \in Removals |-> NoReceipt]
    /\ wpc = [w \in Writers |-> "idle"]
    /\ change = [w \in Writers |-> NoChange]
    /\ snapshot = [w \in Writers |-> NoCatalog]
    /\ requests = MaxRequests /\ faults = MaxFaults

Init == InitHost /\ InitProcesses

-----------------------------------------------------------------------------
(* When flock grants each lock (mutations: a lock that does not exclude)   *)

MayLockSetup_Always(w) == TRUE
MayLockSetup(w) == setupLock[w] = None

MayLockShared == exclusive = {}

MayLockExclusive_BesideSetups == exclusive = {}
MayLockExclusive == shared = {} /\ exclusive = {}

MayLockCatalog_Always == TRUE
MayLockCatalog == catalogLock = {}

-----------------------------------------------------------------------------
(* Setup: the coordinator's part                                           *)

\* Execute authorizes the caller and setup reads the entry, both unlocked.
StartSetup(s) ==
    /\ cpc[s] = "idle" /\ requests > 0
    /\ \E p \in People, j \in ProjectIDs :
        /\ Exists(Primary(p)) /\ catalog[j] # None
        /\ request' = [request EXCEPT ![s] =
             [who |-> p, project |-> j, caller |-> uid[Primary(p)],
              url |-> None, action |-> "prepare"]]
    /\ cpc' = [cpc EXCEPT ![s] = "setupLock"]
    /\ requests' = requests - 1
    /\ UNCHANGED <<hostVars, lockVars, hpc, removalVars, writerVars, faults>>

LockSetup(s) ==
    /\ cpc[s] = "setupLock" /\ MayLockSetup(Target(s))
    /\ setupLock' = [setupLock EXCEPT ![Target(s)] = s]
    /\ cpc' = [cpc EXCEPT ![s] = "shareLock"]
    /\ UNCHANGED <<hostVars, shared, exclusive, catalogLock, hpc, request,
                   removalVars, writerVars, bounds>>

\* Mutation: the coordinator leaves the lock to its helpers.
ShareOperation_NotHeld(s) ==
    /\ cpc[s] = "shareLock" /\ MayLockShared
    /\ cpc' = [cpc EXCEPT ![s] = "getEntry"]
    /\ UNCHANGED <<hostVars, lockVars, hpc, request, removalVars, writerVars,
                   bounds>>

ShareOperation(s) ==
    /\ cpc[s] = "shareLock" /\ MayLockShared
    /\ shared' = shared \cup {ByCoordinator(s)}
    /\ cpc' = [cpc EXCEPT ![s] = "getEntry"]
    /\ UNCHANGED <<hostVars, setupLock, exclusive, catalogLock, hpc, request,
                   removalVars, writerVars, bounds>>

\* setupLocked reads the entry again under the locks and starts the helper.
GetEntry(s) ==
    /\ cpc[s] = "getEntry"
    /\ \/ /\ catalog[request[s].project] # None
          /\ request' = [request EXCEPT ![s].url = catalog[request[s].project]]
          /\ cpc' = [cpc EXCEPT ![s] = "prepare"]
          /\ hpc' = [hpc EXCEPT ![s] = "authorize"]
       \/ /\ catalog[request[s].project] = None
          /\ cpc' = [cpc EXCEPT ![s] = "failed"]
          /\ UNCHANGED <<request, hpc>>
    /\ UNCHANGED <<hostVars, lockVars, removalVars, writerVars, bounds>>

\* The helper has exited: start the next one, or finish with its outcome.
HelperReplies(s) ==
    /\ cpc[s] \in {"prepare", "publish", "cancelled"}
    /\ hpc[s] \in {"ok", "error"}
    /\ \/ /\ hpc[s] = "ok" /\ cpc[s] = "prepare"
          /\ cpc' = [cpc EXCEPT ![s] = "publish"]
          /\ hpc' = [hpc EXCEPT ![s] = "authorize"]
          /\ request' = [request EXCEPT ![s].action = "publish"]
       \/ /\ hpc[s] = "ok" /\ cpc[s] = "publish"
          /\ cpc' = [cpc EXCEPT ![s] = "succeeded"]
          /\ hpc' = [hpc EXCEPT ![s] = "idle"]
          /\ UNCHANGED request
       \/ /\ hpc[s] = "error" \/ cpc[s] = "cancelled"
          /\ cpc' = [cpc EXCEPT ![s] = "failed"]
          /\ hpc' = [hpc EXCEPT ![s] = "idle"]
          /\ UNCHANGED request
    /\ UNCHANGED <<hostVars, lockVars, removalVars, writerVars, bounds>>

\* Mutation: the operation lock leaks.
UnlockOperation_Leaks(s) ==
    /\ cpc[s] \in {"succeeded", "failed"}
    /\ cpc' = [cpc EXCEPT ![s] = "unlockSetup"]
    /\ UNCHANGED <<hostVars, lockVars, hpc, request, removalVars, writerVars,
                   bounds>>

UnlockOperation(s) ==
    /\ cpc[s] \in {"succeeded", "failed"}
    /\ shared' = shared \ {ByCoordinator(s)}
    /\ cpc' = [cpc EXCEPT ![s] = "unlockSetup"]
    /\ UNCHANGED <<hostVars, setupLock, exclusive, catalogLock, hpc, request,
                   removalVars, writerVars, bounds>>

UnlockSetup(s) ==
    /\ cpc[s] = "unlockSetup"
    /\ setupLock' = [setupLock EXCEPT ![Target(s)] = None]
    /\ cpc' = [cpc EXCEPT ![s] = "idle"]
    /\ request' = [request EXCEPT ![s] = NoRequest]
    /\ UNCHANGED <<hostVars, shared, exclusive, catalogLock, hpc,
                   removalVars, writerVars, bounds>>

\* Mutation: a cancelled coordinator does not wait for its helper.
CancelSetup_AtOnce(s) ==
    /\ faults > 0 /\ faults' = faults - 1
    /\ cpc[s] \in {"prepare", "publish"}
    /\ cpc' = [cpc EXCEPT ![s] = "failed"]
    /\ UNCHANGED <<hostVars, lockVars, hpc, request, removalVars, writerVars, requests>>

\* SIGTERM cancels a wait for a lock at once.  While a helper runs the
\* coordinator cannot kill it (it runs as root): it waits and then fails.
CancelSetup(s) ==
    /\ faults > 0 /\ faults' = faults - 1
    /\ \/ /\ cpc[s] = "setupLock" /\ cpc' = [cpc EXCEPT ![s] = "idle"]
          /\ request' = [request EXCEPT ![s] = NoRequest]
       \/ /\ cpc[s] = "shareLock" /\ cpc' = [cpc EXCEPT ![s] = "unlockSetup"]
          /\ UNCHANGED request
       \/ /\ cpc[s] \in {"prepare", "publish"}
          /\ cpc' = [cpc EXCEPT ![s] = "cancelled"]
          /\ UNCHANGED request
    /\ UNCHANGED <<hostVars, lockVars, hpc, removalVars, writerVars, requests>>

\* The kernel closes a killed coordinator's locks; its helper runs on.
HeldSetupLocksFreed(dead) ==
    [w \in Workspaces |-> IF setupLock[w] \in dead THEN None ELSE setupLock[w]]

KillCoordinator(s) ==
    /\ faults > 0 /\ faults' = faults - 1
    /\ cpc[s] \notin {"idle", "killed"}
    /\ cpc' = [cpc EXCEPT ![s] = "killed"]
    /\ setupLock' = HeldSetupLocksFreed({s})
    /\ shared' = shared \ {ByCoordinator(s)}
    /\ UNCHANGED <<hostVars, exclusive, catalogLock, hpc, request,
                   removalVars, writerVars, requests>>

\* A helper whose coordinator is gone exits unobserved.
ReapOrphan(s) ==
    /\ cpc[s] = "killed" /\ hpc[s] \in {"idle", "ok", "error"}
    /\ cpc' = [cpc EXCEPT ![s] = "idle"]
    /\ hpc' = [hpc EXCEPT ![s] = "idle"]
    /\ request' = [request EXCEPT ![s] = NoRequest]
    /\ UNCHANGED <<hostVars, lockVars, removalVars, writerVars, bounds>>

-----------------------------------------------------------------------------
(* Setup: the privileged helper, workspace-prepare and workspace-publish   *)

HelperAuthorize(s) ==
    /\ hpc[s] = "authorize"
    /\ hpc' = [hpc EXCEPT ![s] =
         IF Authorized(request[s].who, request[s].caller) THEN "lock"
                                                          ELSE "error"]
    /\ UNCHANGED <<hostVars, lockVars, cpc, request, removalVars, writerVars,
                   bounds>>

HelperLock(s) ==
    /\ hpc[s] = "lock" /\ MayLockShared
    /\ shared' = shared \cup {ByHelper(s)}
    /\ hpc' = [hpc EXCEPT ![s] = "check"]
    /\ UNCHANGED <<hostVars, setupLock, exclusive, catalogLock, cpc, request,
                   removalVars, writerVars, bounds>>

\* authorizeActor and workspaceEntry, again, under the lock (mutation: the
\* entry is not looked up again).
StillRequested_NoEntry(s) == Authorized(request[s].who, request[s].caller)
StillRequested(s) ==
    /\ Authorized(request[s].who, request[s].caller)
    /\ catalog[request[s].project] # None
    /\ catalog[request[s].project] = request[s].url

HelperCheck(s) ==
    /\ hpc[s] = "check"
    /\ hpc' = [hpc EXCEPT ![s] =
         IF StillRequested(s)
         THEN IF request[s].action = "prepare" THEN "account" ELSE "clone"
         ELSE "failed"]
    /\ UNCHANGED <<hostVars, lockVars, cpc, request, removalVars, writerVars,
                   bounds>>

HelperGoes(s, pc) ==
    /\ hpc' = [hpc EXCEPT ![s] = pc]
    /\ UNCHANGED <<catalog, lockVars, cpc, request, removalVars, writerVars,
                   bounds>>

\* useradd keeps a home directory it finds, whoever owns it.
UserAdd(a) ==
    \E u \in UIDs :
        /\ \A b \in Accounts : uid[b] # u
        /\ uid' = [uid EXCEPT ![a] = u]
        /\ home' = [home EXCEPT ![a] = IF @ = None THEN NewHome(u) ELSE @]

\* Prepare: a found account needs readable inbound keys; otherwise the
\* primary's keys are read first and the account is created.  Every native
\* command may fail.
HelperAccount(s) ==
    /\ hpc[s] = "account"
    /\ \/ /\ Exists(Target(s)) /\ KeysReadable(Target(s))
          /\ HelperGoes(s, "key") /\ UNCHANGED <<uid, home>>
       \/ /\ ~Exists(Target(s)) /\ KeysReadable(Primary(request[s].who))
          /\ UserAdd(Target(s)) /\ HelperGoes(s, "install")
       \/ HelperGoes(s, "failed") /\ UNCHANGED <<uid, home>>

\* Keys are installed once, never replaced; a failed directory sync leaves
\* them published.
HelperInstall(s) ==
    /\ hpc[s] = "install"
    /\ \/ /\ HomeUsable(Target(s)) /\ ~home[Target(s)].keys
          /\ home' = [home EXCEPT ![Target(s)].keys = TRUE]
          /\ HelperGoes(s, "key") \/ HelperGoes(s, "failed")
       \/ HelperGoes(s, "failed") /\ UNCHANGED home
    /\ UNCHANGED uid

HelperKey(s) ==
    /\ hpc[s] = "key"
    /\ \/ /\ HomeUsable(Target(s))
          /\ home' = [home EXCEPT ![Target(s)].git = TRUE]
          /\ HelperGoes(s, "finished")
       \/ HelperGoes(s, "failed") /\ UNCHANGED home
    /\ UNCHANGED uid

\* Two publications of one workspace that overlap can put a checkout in
\* place that is not a complete clone (module Publication).
Overlapped(s) == \E t \in Setups \ {s} : hpc[t] = "clone" /\ Target(t) = Target(s)

\* Publish: an existing checkout is accepted whatever it was cloned from (an
\* incomplete one only if it looks like an unborn branch); otherwise the clone
\* is published.
HelperClone(s) ==
    /\ hpc[s] = "clone"
    /\ \/ /\ Exists(Target(s)) /\ HomeUsable(Target(s))
          /\ home[Target(s)].clone # None
          /\ HelperGoes(s, "finished") /\ UNCHANGED home
       \/ /\ Exists(Target(s)) /\ HomeUsable(Target(s))
          /\ home[Target(s)].clone = None
          /\ \E c \in {request[s].url}
                      \cup (IF Overlapped(s) THEN {"incomplete"} ELSE {}) :
               home' = [home EXCEPT ![Target(s)].clone = c]
          /\ HelperGoes(s, "finished") \/ HelperGoes(s, "failed")
       \/ HelperGoes(s, "failed") /\ UNCHANGED home
    /\ UNCHANGED uid

HelperUnlock(s) ==
    /\ hpc[s] \in {"finished", "failed"}
    /\ shared' = shared \ {ByHelper(s)}
    /\ hpc' = [hpc EXCEPT ![s] = IF @ = "finished" THEN "ok" ELSE "error"]
    /\ UNCHANGED <<hostVars, setupLock, exclusive, catalogLock, cpc, request,
                   removalVars, writerVars, bounds>>

-----------------------------------------------------------------------------
(* Removal: inspection under the shared lock, the client's confirmation,   *)
(* execution under the exclusive lock                                      *)

StartRemoval(r) ==
    /\ rpc[r] = "idle" /\ requests > 0
    /\ \E p \in People, act \in Actions, t \in ProjectIDs \cup People :
        /\ t \in People <=> act = "delete-human"
        /\ Exists(Primary(p))
        /\ removal' = [removal EXCEPT ![r] =
             [action |-> act, by |-> p, caller |-> uid[Primary(p)],
              target |-> t, reviewed |-> NoScope, todo |-> {}]]
    /\ rpc' = [rpc EXCEPT ![r] = "shareLock"]
    /\ requests' = requests - 1
    /\ UNCHANGED <<hostVars, lockVars, setupVars, receipt, writerVars, faults>>

ShareInspection(r) ==
    /\ rpc[r] = "shareLock" /\ MayLockShared
    /\ shared' = shared \cup {ByInspector(r)}
    /\ rpc' = [rpc EXCEPT ![r] = "inspect"]
    /\ UNCHANGED <<hostVars, setupLock, exclusive, catalogLock, setupVars,
                   removal, receipt, writerVars, bounds>>

\* The preview, or an error that ends the conversation; then the unlock.
InspectRemoval(r) ==
    /\ rpc[r] = "inspect"
    /\ \/ /\ ScopeReadable(removal[r])
          /\ removal' = [removal EXCEPT ![r].reviewed = Scope(removal[r])]
          /\ rpc' = [rpc EXCEPT ![r] = "review"]
       \/ /\ ~ScopeReadable(removal[r])
          /\ rpc' = [rpc EXCEPT ![r] = "idle"]
          /\ removal' = [removal EXCEPT ![r] = NoRemoval]
    /\ shared' = shared \ {ByInspector(r)}
    /\ UNCHANGED <<hostVars, setupLock, exclusive, catalogLock, setupVars,
                   receipt, writerVars, bounds>>

\* The person confirms the preview, any time later, or walks away.
DecideRemoval(r) ==
    /\ rpc[r] = "review"
    /\ \/ rpc' = [rpc EXCEPT ![r] = "exclusiveLock"] /\ UNCHANGED removal
       \/ /\ rpc' = [rpc EXCEPT ![r] = "idle"]
          /\ removal' = [removal EXCEPT ![r] = NoRemoval]
    /\ UNCHANGED <<hostVars, lockVars, setupVars, receipt, writerVars, bounds>>

LockExclusive(r) ==
    /\ rpc[r] = "exclusiveLock" /\ MayLockExclusive
    /\ exclusive' = exclusive \cup {ByRemover(r)}
    /\ rpc' = [rpc EXCEPT ![r] =
                IF removal[r].action = "remove" THEN "catalogLock" ELSE "recheck"]
    /\ UNCHANGED <<hostVars, setupLock, shared, catalogLock, setupVars, removal,
                   receipt, writerVars, bounds>>

LockRemovalCatalog(r) ==
    /\ rpc[r] = "catalogLock" /\ MayLockCatalog
    /\ catalogLock' = catalogLock \cup {ByRemover(r)}
    /\ rpc' = [rpc EXCEPT ![r] = "recheck"]
    /\ UNCHANGED <<hostVars, setupLock, shared, exclusive, setupVars, removal,
                   receipt, writerVars, bounds>>

\* removeWithCurrentScope: the recomputed scope must be the reviewed one, and
\* accounts of a project that left the catalog are not removed (mutation: the
\* current scope is taken as confirmed).
Confirmed_Drifted(q) ==
    /\ ScopeReadable(q)
    /\ q.action = "remove" /\ catalog[q.target] = None => Selected(q) = {}
Confirmed(q) ==
    /\ ScopeReadable(q)
    /\ Scope(q) = q.reviewed
    /\ q.action = "remove" /\ catalog[q.target] = None => Selected(q) = {}

Recheck(r) ==
    /\ rpc[r] = "recheck"
    /\ \/ /\ Confirmed(removal[r])
          /\ removal' = [removal EXCEPT ![r].todo = Scope(removal[r]).accounts]
          /\ receipt' = [receipt EXCEPT ![r].catalog =
               IF removal[r].action = "remove" THEN "not_attempted" ELSE "unchanged"]
          /\ rpc' = [rpc EXCEPT ![r] = "delete"]
       \/ /\ ~Confirmed(removal[r])
          /\ rpc' = [rpc EXCEPT ![r] = "closeCatalog"]
          /\ UNCHANGED <<removal, receipt>>
    /\ UNCHANGED <<hostVars, lockVars, setupVars, writerVars, bounds>>

\* The next account of the work list: a primary account only after workspaces.
InOrder_Any(r, i) == i \in removal[r].todo
InOrder(r, i) ==
    /\ i \in removal[r].todo
    /\ i[1] \in Workspaces \/ \A k \in removal[r].todo : k[1] \notin Workspaces

\* Terminating a primary account's processes kills its coordinators too.
CoordinatorsOf(a) == {s \in Setups : cpc[s] # "idle" /\ a = Primary(request[s].who)}
Terminate(dead) ==
    /\ cpc' = [s \in Setups |-> IF s \in dead THEN "killed" ELSE cpc[s]]
    /\ setupLock' = HeldSetupLocksFreed(dead)
    /\ shared' = shared \ {ByCoordinator(s) : s \in dead}

\* revalidateAccountForDeletion: name, UID and home (mutation: the name).
Revalidated_ByName(i) == Exists(i[1])
Revalidated(i) == uid[i[1]] = i[2] /\ HomeUsable(i[1])

\* DeleteAccount revalidates the account, terminates its processes and runs
\* userdel --remove.
DeleteOne(r) ==
    /\ rpc[r] = "delete"
    /\ \E i \in removal[r].todo :
        /\ InOrder(r, i)
        /\ Revalidated(i)
        /\ Terminate(CoordinatorsOf(i[1]))
        /\ uid' = [uid EXCEPT ![i[1]] = 0]
        /\ home' = [home EXCEPT ![i[1]] = None]
        /\ removal' = [removal EXCEPT ![r].todo = @ \ {i}]
        /\ receipt' = [receipt EXCEPT ![r].removed = @ \cup {i[1]}]
    /\ UNCHANGED <<catalog, exclusive, catalogLock, hpc, request, rpc,
                   writerVars, bounds>>

\* What a receipt says was not attempted when deleting i failed (mutation: i
\* itself is among it).
NotAttempted_WithFailed(r, i) == removal[r].todo
NotAttempted(r, i) == removal[r].todo \ {i}

\* A failed deletion may have changed nothing, or stopped the processes and
\* removed the account, its home, or both.  It ends the work list.
DeleteFails(r) ==
    /\ rpc[r] = "delete"
    /\ \E i \in removal[r].todo :
        /\ InOrder(r, i)
        /\ \/ /\ Revalidated(i)
              /\ Terminate(CoordinatorsOf(i[1]))
              /\ uid' = uid \/ uid' = [uid EXCEPT ![i[1]] = 0]
              /\ home' = home \/ home' = [home EXCEPT ![i[1]] = None]
           \/ UNCHANGED <<cpc, setupLock, shared, uid, home>>
        /\ receipt' = [receipt EXCEPT ![r].uncertain = i[1],
                                      ![r].notAttempted = NotAttempted(r, i)]
    /\ rpc' = [rpc EXCEPT ![r] = "closeCatalog"]
    /\ UNCHANGED <<catalog, exclusive, catalogLock, hpc, request, removal,
                   writerVars, bounds>>

\* What a receipt says of the catalog after the write of its removal
\* (mutation: a failed write has changed nothing).
CatalogOutcome_Optimistic(ok) == IF ok THEN "removed" ELSE "not_attempted"
CatalogOutcome(ok) == IF ok THEN "removed" ELSE "uncertain"

\* The work list is empty: remove the entry that was reviewed, if any.  A
\* failed write may or may not have published the new catalog.
Uncatalog(r) ==
    /\ rpc[r] = "delete" /\ removal[r].todo = {}
    /\ \/ /\ removal[r].reviewed.repository = None
          /\ receipt' = [receipt EXCEPT ![r].ok = TRUE]
          /\ UNCHANGED catalog
       \/ /\ removal[r].reviewed.repository # None
          /\ catalog' = [catalog EXCEPT ![removal[r].target] = None]
          /\ \E ok \in BOOLEAN : receipt' =
               [receipt EXCEPT ![r].catalog = CatalogOutcome(ok), ![r].ok = ok]
       \/ /\ removal[r].reviewed.repository # None
          /\ receipt' = [receipt EXCEPT ![r].catalog = CatalogOutcome(FALSE)]
          /\ UNCHANGED catalog
    /\ rpc' = [rpc EXCEPT ![r] = "closeCatalog"]
    /\ UNCHANGED <<uid, home, lockVars, setupVars, removal, writerVars, bounds>>

CloseCatalog(r) ==
    /\ rpc[r] = "closeCatalog"
    /\ catalogLock' = catalogLock \ {ByRemover(r)}
    /\ rpc' = [rpc EXCEPT ![r] = "closeOperation"]
    /\ UNCHANGED <<hostVars, setupLock, shared, exclusive, setupVars, removal,
                   receipt, writerVars, bounds>>

CloseOperation(r) ==
    /\ rpc[r] = "closeOperation"
    /\ exclusive' = exclusive \ {ByRemover(r)}
    /\ rpc' = [rpc EXCEPT ![r] = "idle"]
    /\ removal' = [removal EXCEPT ![r] = NoRemoval]
    /\ receipt' = [receipt EXCEPT ![r] = NoReceipt]
    /\ UNCHANGED <<hostVars, setupLock, shared, catalogLock, setupVars,
                   writerVars, bounds>>

\* SIGTERM cancels a removal that waits for a lock.
CancelRemoval(r) ==
    /\ faults > 0 /\ faults' = faults - 1
    /\ \/ /\ rpc[r] \in {"shareLock", "exclusiveLock"}
          /\ rpc' = [rpc EXCEPT ![r] = "idle"]
          /\ removal' = [removal EXCEPT ![r] = NoRemoval]
       \/ /\ rpc[r] = "catalogLock"
          /\ rpc' = [rpc EXCEPT ![r] = "closeOperation"]
          /\ UNCHANGED removal
    /\ UNCHANGED <<hostVars, lockVars, setupVars, receipt, writerVars, requests>>

-----------------------------------------------------------------------------
(* Catalog mutations: catalog-add and catalog-edit                         *)

StartWrite(w) ==
    /\ wpc[w] = "idle" /\ requests > 0
    /\ \E p \in People, j \in ProjectIDs, u \in URLs, act \in {"add", "edit"} :
        /\ Exists(Primary(p))
        /\ change' = [change EXCEPT ![w] =
             [action |-> act, by |-> p, caller |-> uid[Primary(p)],
              project |-> j, url |-> u]]
    /\ wpc' = [wpc EXCEPT ![w] = "catalogLock"]
    /\ requests' = requests - 1
    /\ UNCHANGED <<hostVars, lockVars, setupVars, removalVars, snapshot, faults>>

LockWrite(w) ==
    /\ wpc[w] = "catalogLock" /\ MayLockCatalog
    /\ catalogLock' = catalogLock \cup {ByWriter(w)}
    /\ wpc' = [wpc EXCEPT ![w] = "read"]
    /\ UNCHANGED <<hostVars, setupLock, shared, exclusive, setupVars,
                   removalVars, change, snapshot, bounds>>

\* Reauthorize, read every entry, and refuse a duplicate add or absent edit.
ReadEntries(w) ==
    /\ wpc[w] = "read"
    /\ \/ /\ Authorized(change[w].by, change[w].caller)
          /\ (catalog[change[w].project] = None) <=> (change[w].action = "add")
          /\ snapshot' = [snapshot EXCEPT ![w] = catalog]
          /\ wpc' = [wpc EXCEPT ![w] = "write"]
       \/ wpc' = [wpc EXCEPT ![w] = "unlock"] /\ UNCHANGED snapshot
    /\ UNCHANGED <<hostVars, lockVars, setupVars, removalVars, change, bounds>>

\* Mutation: an edit replaces the entry's URL.
Mutated_URL(w) == [snapshot[w] EXCEPT ![change[w].project] = change[w].url]

\* An edit keeps the entry's URL (its other fields are not modelled).
Mutated(w) ==
    IF change[w].action = "add"
    THEN [snapshot[w] EXCEPT ![change[w].project] = change[w].url]
    ELSE snapshot[w]

\* The whole file is replaced by rename, or the write fails before that.
WriteEntries(w) ==
    /\ wpc[w] = "write"
    /\ catalog' = Mutated(w) \/ UNCHANGED catalog
    /\ wpc' = [wpc EXCEPT ![w] = "unlock"]
    /\ UNCHANGED <<uid, home, lockVars, setupVars, removalVars, change,
                   snapshot, bounds>>

UnlockWrite(w) ==
    /\ wpc[w] = "unlock"
    /\ catalogLock' = catalogLock \ {ByWriter(w)}
    /\ wpc' = [wpc EXCEPT ![w] = "idle"]
    /\ change' = [change EXCEPT ![w] = NoChange]
    /\ snapshot' = [snapshot EXCEPT ![w] = NoCatalog]
    /\ UNCHANGED <<hostVars, setupLock, shared, exclusive, setupVars,
                   removalVars, bounds>>

-----------------------------------------------------------------------------
(* The environment                                                         *)

\* A privileged process is killed with the command it runs (loginctl
\* terminate-user of a person who deletes their own account does it); its
\* locks are free.
KillHelper(s) ==
    /\ faults > 0 /\ faults' = faults - 1
    /\ hpc[s] \notin {"idle", "ok", "error"}
    /\ hpc' = [hpc EXCEPT ![s] = "error"]
    /\ shared' = shared \ {ByHelper(s)}
    /\ UNCHANGED <<hostVars, setupLock, exclusive, catalogLock, cpc, request,
                   removalVars, writerVars, requests>>

KillRemoval(r) ==
    /\ faults > 0 /\ faults' = faults - 1
    /\ rpc[r] # "idle" /\ rpc' = [rpc EXCEPT ![r] = "idle"]
    /\ removal' = [removal EXCEPT ![r] = NoRemoval]
    /\ receipt' = [receipt EXCEPT ![r] = NoReceipt]
    /\ shared' = shared \ {ByInspector(r)}
    /\ exclusive' = exclusive \ {ByRemover(r)}
    /\ catalogLock' = catalogLock \ {ByRemover(r)}
    /\ UNCHANGED <<hostVars, setupLock, setupVars, writerVars, requests>>

KillWrite(w) ==
    /\ faults > 0 /\ faults' = faults - 1
    /\ wpc[w] # "idle" /\ wpc' = [wpc EXCEPT ![w] = "idle"]
    /\ change' = [change EXCEPT ![w] = NoChange]
    /\ snapshot' = [snapshot EXCEPT ![w] = NoCatalog]
    /\ catalogLock' = catalogLock \ {ByWriter(w)}
    /\ UNCHANGED <<hostVars, setupLock, shared, exclusive, setupVars, removalVars,
                   requests>>

\* The machine restarts: every process and every lock is gone, the files stay.
Reboot ==
    /\ faults > 0 /\ faults' = faults - 1
    /\ cpc' = [s \in Setups |-> "idle"]
    /\ hpc' = [s \in Setups |-> "idle"]
    /\ rpc' = [r \in Removals |-> "idle"]
    /\ wpc' = [w \in Writers |-> "idle"]
    /\ setupLock' = [w \in Workspaces |-> None]
    /\ shared' = {} /\ exclusive' = {} /\ catalogLock' = {}
    /\ request' = [s \in Setups |-> NoRequest]
    /\ removal' = [r \in Removals |-> NoRemoval]
    /\ receipt' = [r \in Removals |-> NoReceipt]
    /\ change' = [w \in Writers |-> NoChange]
    /\ snapshot' = [w \in Writers |-> NoCatalog]
    /\ UNCHANGED <<hostVars, requests>>

\* A native administrator deletes an account without Soda's locks, with or
\* without its home, or creates a primary account again.
NativeUserDel ==
    /\ faults > 0 /\ faults' = faults - 1
    /\ \E a \in Accounts :
        /\ Exists(a)
        /\ uid' = [uid EXCEPT ![a] = 0]
        /\ home' = home \/ home' = [home EXCEPT ![a] = None]
    /\ UNCHANGED <<catalog, lockVars, setupVars, removalVars, writerVars, requests>>

NativeUserAdd ==
    /\ faults > 0 /\ faults' = faults - 1
    /\ \E p \in People : ~Exists(Primary(p)) /\ UserAdd(Primary(p))
    /\ UNCHANGED <<catalog, lockVars, setupVars, removalVars, writerVars, requests>>

-----------------------------------------------------------------------------
SetupStep(s) ==
    \/ LockSetup(s) \/ ShareOperation(s) \/ GetEntry(s) \/ HelperReplies(s)
    \/ UnlockOperation(s) \/ UnlockSetup(s) \/ ReapOrphan(s)

HelperStep(s) ==
    \/ HelperAuthorize(s) \/ HelperLock(s) \/ HelperCheck(s) \/ HelperAccount(s)
    \/ HelperInstall(s) \/ HelperKey(s) \/ HelperClone(s) \/ HelperUnlock(s)

RemovalStep(r) ==
    \/ ShareInspection(r) \/ InspectRemoval(r) \/ LockExclusive(r)
    \/ LockRemovalCatalog(r) \/ Recheck(r) \/ DeleteOne(r) \/ DeleteFails(r)
    \/ Uncatalog(r) \/ CloseCatalog(r) \/ CloseOperation(r)

WriterStep(w) ==
    LockWrite(w) \/ ReadEntries(w) \/ WriteEntries(w) \/ UnlockWrite(w)

Next ==
    \/ \E s \in Setups : \/ StartSetup(s) \/ SetupStep(s) \/ HelperStep(s)
                         \/ CancelSetup(s) \/ KillCoordinator(s) \/ KillHelper(s)
    \/ \E r \in Removals : \/ StartRemoval(r) \/ RemovalStep(r)
                           \/ DecideRemoval(r) \/ CancelRemoval(r)
                           \/ KillRemoval(r)
    \/ \E w \in Writers : StartWrite(w) \/ WriterStep(w) \/ KillWrite(w)
    \/ Reboot

\* Soda and an administrator working behind its back.
NativeNext == Next \/ NativeUserDel \/ NativeUserAdd

\* Every process whose lock is free and whose command ends is scheduled.
Fairness ==
    /\ \A s \in Setups : WF_vars(SetupStep(s)) /\ WF_vars(HelperStep(s))
    /\ \A r \in Removals : WF_vars(RemovalStep(r))
    /\ \A w \in Writers : WF_vars(WriterStep(w))

Spec       == Init /\ [][Next]_vars
FairSpec   == Spec /\ Fairness
NativeSpec == Init /\ [][NativeNext]_vars

-----------------------------------------------------------------------------
(* Properties                                                              *)

SetupRequests == [who : People \cup {None}, project : ProjectIDs \cup {None},
                  caller : 0 .. MaxUID, url : URLs \cup {None},
                  action : {"prepare", "publish"}]
Scopes == [repository : URLs \cup {None}, accounts : SUBSET (Accounts \X UIDs)]
RemovalRequests == [action : Actions, by : People \cup {None}, caller : 0 .. MaxUID,
                    target : People \cup ProjectIDs \cup {None},
                    reviewed : Scopes, todo : SUBSET (Accounts \X UIDs)]
Receipts == [ok : BOOLEAN, removed : SUBSET Accounts, uncertain : Accounts \cup {None},
             notAttempted : SUBSET (Accounts \X UIDs),
             catalog : {"unchanged", "not_attempted", "uncertain", "removed"}]
Changes == [action : {"add", "edit"}, by : People \cup {None}, caller : 0 .. MaxUID,
            project : ProjectIDs \cup {None}, url : URLs \cup {None}]

HostTypeOK ==
    /\ catalog \in [ProjectIDs -> URLs \cup {None}]
    /\ uid \in [Accounts -> 0 .. MaxUID]
    /\ home \in [Accounts -> Homes \cup {None}]

LockTypeOK ==
    /\ setupLock \in [Workspaces -> Setups \cup {None}]
    /\ shared \subseteq ({"coordinator", "helper"} \X Setups)
                       \cup ({"inspector"} \X Removals)
    /\ exclusive \subseteq {"remover"} \X Removals
    /\ catalogLock \subseteq ({"remover"} \X Removals) \cup ({"writer"} \X Writers)

SetupTypeOK ==
    /\ cpc \in [Setups -> {"idle", "setupLock", "shareLock", "getEntry", "prepare",
                           "publish", "cancelled", "succeeded", "failed",
                           "unlockSetup", "killed"}]
    /\ hpc \in [Setups -> {"idle", "authorize", "lock", "check", "account", "install",
                           "key", "clone", "finished", "failed", "ok", "error"}]
    /\ request \in [Setups -> SetupRequests]
    /\ \A s \in Setups :
         /\ hpc[s] # "idle" => cpc[s] \in {"prepare", "publish", "cancelled", "killed"}
         /\ cpc[s] # "idle" => Target(s) \in Workspaces

RemovalTypeOK ==
    /\ rpc \in [Removals -> {"idle", "shareLock", "inspect", "review",
                             "exclusiveLock", "catalogLock", "recheck", "delete",
                             "closeCatalog", "closeOperation"}]
    /\ removal \in [Removals -> RemovalRequests]
    /\ receipt \in [Removals -> Receipts]
    /\ \A r \in Removals : rpc[r] # "idle" =>
         IF removal[r].action = "delete-human" THEN removal[r].target \in People
                                               ELSE removal[r].target \in ProjectIDs

WriterTypeOK ==
    /\ wpc \in [Writers -> {"idle", "catalogLock", "read", "write", "unlock"}]
    /\ change \in [Writers -> Changes]
    /\ snapshot \in [Writers -> [ProjectIDs -> URLs \cup {None}]]

TypeOK ==
    /\ HostTypeOK /\ LockTypeOK /\ SetupTypeOK /\ RemovalTypeOK /\ WriterTypeOK
    /\ requests \in Nat /\ faults \in Nat

\* The locks do what the rest relies on: an exclusive holder is alone, the
\* catalog lock has one holder, and whoever is past an acquisition holds it.
LockDiscipline ==
    /\ exclusive # {} => shared = {}
    /\ \A x, y \in exclusive : x = y
    /\ \A x, y \in catalogLock : x = y
    /\ \A s \in Setups :
         hpc[s] \in {"check", "account", "install", "key", "clone", "finished", "failed"}
            => ByHelper(s) \in shared
    /\ \A r \in Removals :
         /\ rpc[r] \in {"catalogLock", "recheck", "delete", "closeCatalog", "closeOperation"}
              => ByRemover(r) \in exclusive
         /\ rpc[r] \in {"recheck", "delete"} /\ removal[r].action = "remove"
              => ByRemover(r) \in catalogLock
    /\ \A w \in Writers :
         wpc[w] \in {"read", "write", "unlock"} => ByWriter(w) \in catalogLock

\* The helper about to create an account: its person and its project exist.
HelperChecked(s) == hpc[s] = "account" =>
    Exists(Primary(request[s].who)) /\ catalog[request[s].project] # None

\* The writer about to replace the file: it has read the current entries.
WriterChecked(w) ==
    /\ wpc[w] # "idle" => change[w].url \in URLs /\ change[w].project \in ProjectIDs
    /\ wpc[w] = "write" =>
         /\ snapshot[w] = catalog
         /\ (catalog[change[w].project] = None) <=> (change[w].action = "add")

\* A removal's work list is part of what was reviewed, concerns its target and
\* covers every account it concerns; the entry is the reviewed one.
RemovalChecked(r) == rpc[r] = "delete" =>
    /\ removal[r].todo \subseteq removal[r].reviewed.accounts
    /\ \A i \in removal[r].todo : Concerns(removal[r], i[1])
    /\ \A a \in Selected(removal[r]) : <<a, uid[a]>> \in removal[r].todo
    /\ removal[r].reviewed.repository # None =>
         /\ removal[r].action = "remove"
         /\ catalog[removal[r].target] = removal[r].reviewed.repository

\* What a process checked under its locks still holds when it acts on it.
ChecksStillHold ==
    /\ \A s \in Setups : HelperChecked(s)
    /\ \A w \in Writers : WriterChecked(w)
    /\ \A r \in Removals : RemovalChecked(r)

\* A setup that loses a race with delete-human, or a person deletion that
\* stops half way, never leaves a workspace account whose person is gone.
NoOrphanWorkspace ==
    \A p \in People, j \in ProjectIDs : Exists(<<p, j>>) => Exists(Primary(p))

\* No interleaving of setups, catalog mutations and project removal leaves a
\* workspace account of a project that is not in the catalog.
NoUncataloguedWorkspace ==
    \A p \in People, j \in ProjectIDs : Exists(<<p, j>>) => catalog[j] # None

\* When a coordinator is about to report success nothing has undone either
\* half of the setup: the account, both keys and a checkout are there.
ReadyOnSuccess ==
    \A s \in Setups : cpc[s] = "succeeded" =>
        /\ Exists(Target(s)) /\ KeysReadable(Target(s))
        /\ home[Target(s)].git /\ home[Target(s)].clone # None

\* The setup lock keeps the helpers of one workspace apart for as long as
\* their coordinators live; only the helper of a killed coordinator, which
\* keeps running as root without it, can work beside another.
OneHelperPerWorkspace ==
    \A s, t \in Setups :
        s # t /\ Target(s) = Target(t) /\ {hpc[s], hpc[t]} \cap {"idle", "ok", "error"} = {}
            => "killed" \in {cpc[s], cpc[t]}

\* "Replacing the URL requires an administrator to remove the project and all
\* local workspaces and then re-add it" (architecture.md:111): a workspace
\* reported ready is a clone of the repository its project has now.
ReadyCloneIsProjects ==
    \A s \in Setups : cpc[s] = "succeeded" =>
        home[Target(s)].clone = catalog[request[s].project]

\* While a removal still holds the exclusive lock its receipt describes the
\* accounts: removed ones are gone, those not attempted are as reviewed, and
\* ok means the whole reviewed scope is gone.
ReceiptTruthful ==
    \A r \in Removals : rpc[r] \in {"closeCatalog", "closeOperation"} =>
        /\ \A a \in receipt[r].removed : ~Exists(a)
        /\ \A i \in receipt[r].notAttempted : uid[i[1]] = i[2]
        /\ receipt[r].ok => \A i \in removal[r].reviewed.accounts : ~Exists(i[1])

\* While it still holds the catalog lock too, what it says of the shared entry
\* is right: "removed" is gone, "not_attempted" is the entry it reviewed.
CatalogReceiptTruthful ==
    \A r \in Removals : rpc[r] = "closeCatalog" /\ removal[r].action = "remove" =>
        /\ receipt[r].catalog = "removed" => catalog[removal[r].target] = None
        /\ receipt[r].catalog = "not_attempted" =>
             catalog[removal[r].target] = removal[r].reviewed.repository
        /\ receipt[r].ok => catalog[removal[r].target] = None

\* Whatever a removal deletes, it deletes an account that was in the preview
\* the person confirmed, with the UID it had then: scope drift between the
\* inspection and the execution stops it.
RemovesOnlyReviewed ==
    [][\A r \in Removals : receipt'[r] # receipt[r] =>
         \A a \in Accounts : Exists(a) /\ uid'[a] = 0 =>
            <<a, uid[a]>> \in removal[r].reviewed.accounts]_vars

\* No catalog change is lost or undone by another one: an entry appears only
\* by an add of that project, disappears only by its removal after its
\* accounts, and never changes its URL.
OneCatalogChangeAtATime ==
    [][\A j \in ProjectIDs : catalog'[j] # catalog[j] =>
         \/ /\ catalog[j] = None
            /\ \E w \in Writers : wpc[w] = "write" /\ change[w].action = "add"
                                  /\ change[w].project = j /\ catalog'[j] = change[w].url
         \/ /\ catalog'[j] = None
            /\ \E r \in Removals : /\ removal[r].action = "remove" /\ removal[r].target = j
                                   /\ removal[r].reviewed.repository = catalog[j]
                                   /\ removal[r].todo = {}]_vars

\* Setups with their helpers, removals (up to the preview a person may leave
\* unanswered) and catalog mutations all come to an end: the nested shared locks
\* and the lock order never leave them waiting on each other, whatever is killed,
\* cancelled or done natively.  Requests are bounded, so that each of them ends
\* means that all processes end up at rest.
AtRest ==
    /\ \A s \in Setups : cpc[s] = "idle" /\ hpc[s] = "idle"
    /\ \A r \in Removals : rpc[r] \in {"idle", "review"}
    /\ \A w \in Writers : wpc[w] = "idle"
EveryRequestEnds == <>[]AtRest
=============================================================================
