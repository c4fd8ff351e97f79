# Soda OS: specifications and proofs

This directory holds TLA+ specifications of the Soda OS repository (Go services
under `internal/`, commands under `cmd/`, the Cockpit pages under `cockpit/`),
the TLC configurations that model-check them and TLAPS proofs about them. Paths
below are relative to the repository's root. `PROJECT.json` maps every
definition to the lines it models.

## 1. The system

Soda OS is a bootc image for a shared development machine. People have ordinary
Linux accounts; for every *project* of a shared catalog a person may have a
*workspace*, a second Linux account `<person>+<project>` with its own home,
keys and a Git checkout. There is no daemon: every request is a short process
(`soda-projects`, unprivileged) that starts a privileged one through pkexec
(`soda-workspace-helper`, root), and all of them share the account database, a
catalog file and four advisory (flock) locks. That is where the difficulty is.

| component | state it keeps | operations | interacts with |
|---|---|---|---|
| coordinators (`internal/projects/coordinator*.go`, `pkexec.go`) | none but the locks they hold | list, setup, add-existing, edit, remove-workspace, remove, delete-human | start one helper per privileged step, hold the setup and the operation lock across two of them |
| helper (`helper.go`, `removal.go`) | none but the locks it holds | catalog-add, catalog-edit, workspace-prepare, workspace-publish, remove-inspect, workspace-remove, project-remove, human-delete | rechecks authorization and catalog under its own lock, then calls linuxhost, workspace, catalog |
| locks (`system_operation_lock.go`, `workspace/setup_lock.go`, `filelock`) | flock state, gone when the holder dies | shared, exclusive, setup, catalog | polled, no order among waiters |
| catalog store (`projects/catalog`) | `/var/lib/soda/catalog/projects.json` | Lock, Add, Edit, Remove, List, Get | readers take no lock |
| workspace (`projects/workspace`) | the person's `Projects` directory in the workspace home | Prepare, Publish, CloneExists, removal targets | runs ssh-keygen, git, rm, restorecon as the workspace account |
| people (`projects/people`) | none | scope and order of a person's deletion | workspace targets, linuxhost |
| linuxhost | passwd, homes, authorized_keys | lookup, candidates, useradd, DeleteAccount, InstallAuthorizedKeys | shadow-utils, loginctl, pkill, systemd's user managers |
| runners (`internal/runners`) | runner accounts, descriptors, systemd units | List, Create, Remove, Start, Stop, Restart | a lock for Create and Remove only; the provider's registration |
| updates (`internal/updates`) | bootc deployments | Status, Check, Update (`bootc upgrade --apply`) | a lock that refuses a second operation; bootc |
| tailnet (`internal/tailnet`) | none: reads tailscaled | identity, endpoint, enrollment state | `tailscale status --json`; read by Forgejo's refresh unit |
| Cockpit pages (`cockpit/src/*/store.ts`) | what the page shows, the operation that runs, the generation of its opening | start and stop, refresh, dialogs, commands | processes whose answers may come after the page was closed and opened again |
| build, installer, acceptance, config | artefacts | build-time | - |

The behaviours that are hard here:

* interleavings of any number of coordinators and helpers, where what one
  checked may be stale when it acts (authorization, catalog entry, the scope of
  a removal that a person reviewed minutes ago);
* a coordinator that holds a lock shared while its helper takes the same lock
  shared again, beside a removal that wants it exclusively;
* cancellation and kills: a coordinator cannot signal its root helper, and the
  kernel frees a dead process's locks although its children run on;
* partial failure: of one deletion among several, of the catalog write after
  every account is gone, of `userdel` after the account but before the home;
* leftovers of an interrupted attempt that a retry meets;
* power loss between write, rename and directory sync;
* an owner who logs in, and a user manager that ends in its own time, while the
  account is deleted;
* pages that show what they read before a command, or what a call of an earlier
  opening answers, and confirmations typed for something that has changed.

What makes each component correct:

* *projects*: an account never outlives its person or its catalog entry; a
  removal deletes only what its preview showed; its receipt tells the truth; a
  setup reported as ready is ready; all requests end.
* *catalog store*: changes are atomic, none is lost, success is durable, and
  whatever is written can be read again.
* *linuxhost*: a deletion is of the account that its last check saw, can be
  retried, and resets the user manager it broke.
* *publication*: a checkout appears complete, in one step, and is never
  replaced; leftovers do not block a retry.
* *runners*: one creation or removal at a time; its answer is true; a runner is
  whole or absent unless its last mutation could not finish; a creation that
  answers mentions the record GitHub may have; no listener runs without its runner.
* *Tailscale page*: never a value older than one it reported as saved, unsaved
  drafts kept, one read in flight, every command ends.
* *updates*: an update begins on a status that still holds; what was said of an
  update outlives refreshes.
* *Projects, Runners and Updates pages*: one operation at a time; nothing read
  before the last command is left on the screen; no late answer reaches a later
  opening; a removal is of the preview that was on the screen when its name was
  typed; every operation ends.

## 2. Modules

| module | models | kind |
|---|---|---|
| `Projects` | coordinators, helper, locks, catalog, accounts and homes | system |
| `MCProjects` | instances of it for TLC | model checking |
| `Projects_proofs` | theorems about it | proofs |
| `Publication` | one workspace's publication, file operation by file operation | component, refines `Checkout` |
| `Checkout` | what publication promises | abstract |
| `MCPublication` | instances of `Publication` for TLC | model checking |
| `Publication_proofs` | theorems about it | proofs |
| `CatalogStore` | catalog entries as JSON, the changes to them, replacement of the file step by step | component, refines `AtomicCatalog` |
| `AtomicCatalog` | what the store promises | abstract |
| `CatalogStore_proofs` | theorems about it | proofs |
| `Runners` | runner helpers, their lock, accounts, files, units | component |
| `Runners_proofs` | theorems about it | proofs |
| `AccountDeletion` | `DeleteAccount`, native command by native command | component |
| `AccountDeletion_proofs` | theorems about it | proofs |
| `Updates` | soda-updates with its lock, and the store of Cockpit's Updates page | component, refines `PageStore` |
| `TailscalePage` | the store of Cockpit's Tailscale page | component |
| `TailscalePage_proofs` | theorems about it | proofs |
| `ProjectsPage`, `RunnersPage` | the stores of these pages | components, refine `PageStore` |
| `PageStore` | what the store of a page promises | abstract |
| `MCPages` | the four pages in one run | model checking |
| `Pages_proofs` | theorems about it, and with it about the four pages | proofs |

`Projects` uses `CatalogStore` and `Publication` through what they promise: there the catalog is
one variable changed in one step (`WriteEntries`, `Uncatalog`), and a checkout
appears in one step (`HelperClone`). `ImplementsAtomicCatalog` and
`PublishesAtomically` justify these steps; where publication does *not* keep its
promise (two helpers of one workspace that overlap, see section 5),
`HelperClone` may put an `"incomplete"` checkout in place. `DeleteOne` and
`DeleteFails` are one step of `AccountDeletion`, which shows what the termination
of the owner's processes does before it.

### Projects

State and code:

| variable | code |
|---|---|
| `catalog` | the entries of `projects.json`, project to canonical URL |
| `uid`, `home` | passwd entries and home directories; a home remembers the UID that owns it, whether it has inbound keys and an outbound key, and what its checkout is a clone of |
| `setupLock`, `shared`, `exclusive`, `catalogLock` | the holders of each flock |
| `cpc`, `hpc`, `request` | a `soda-projects setup` process, the helper it runs, and what the two know |
| `rpc`, `removal`, `receipt` | a removal conversation: inspection, review, execution |
| `wpc`, `change`, `snapshot` | a catalog-add or catalog-edit helper between Lock and Close |

An account is `<<person, project>>`, the primary one `<<person, None>>`. Every
process takes one action per lock, per native command and per file replacement;
between two of them all others may run. The actions follow the code in order:

* setup: `StartSetup` (Execute, dispatch and the unlocked Get) `LockSetup`
  `ShareOperation` `GetEntry` (the second Get) then, for prepare and publish in
  turn, `HelperAuthorize` `HelperLock` `HelperCheck` (authorizeActor and
  workspaceEntry again) `HelperAccount` `HelperInstall` `HelperKey` or
  `HelperClone`, `HelperUnlock`, `HelperReplies`; finally `UnlockOperation`,
  `UnlockSetup`.
* removal: `StartRemoval` `ShareInspection` `InspectRemoval`, `DecideRemoval`
  (the person, any time later), `LockExclusive`, `LockRemovalCatalog` (projects
  only), `Recheck` (removeWithCurrentScope), `DeleteOne`/`DeleteFails` per
  account, `Uncatalog`, `CloseCatalog`, `CloseOperation`.
* catalog mutation: `StartWrite` `LockWrite` `ReadEntries` `WriteEntries`
  `UnlockWrite`.
* faults: `CancelSetup`, `CancelRemoval` (SIGTERM), `KillCoordinator`,
  `KillHelper`, `KillRemoval`, `KillWrite`, `Reboot`; in `NativeSpec` also an
  administrator's `userdel` and `useradd` outside Soda's locks.

Abstractions: names, markers, group membership and home paths are an account's
identity and are compared as its name and UID; an entry is its URL (an edit of
the other fields changes nothing here); a command may fail at any time and its
stderr is not kept; a killed helper's command dies with it, as it does when
`loginctl terminate-user` kills the session of people who delete themselves.

### Publication and CatalogStore

`Publication` follows `Accounts.Publish`, `CloneExists` and `Repository.Publish`
for one workspace. The two names `.soda-ID.tmp` and `ID` refer to directories
(`Inodes`); descriptors (`fd`, `victim`) keep a directory alive and are what the
validation reads, while git, rm and rename work by name. A name that changes its
meaning between two of these steps is exactly what can go wrong.

`overlapped` remembers that two helpers of the workspace have run at once, which
only a killed coordinator makes possible: `PublishesAtomically` is the
refinement of `Checkout` for as long as it is false.

`CatalogStore` follows `LockedStore.mutate` and `Store.write`. `file` is what a
reader sees, `disk` what a power loss cannot undo; contents that were renamed
without having been synced may come back torn. The file is a sequence of JSON
objects, functions from field names; `EntryOf` and `EditOf` are the decoders of
entry.go with what they refuse (a missing or invalid field, an edit of the
URL), `Decoded` is `decodeCatalog` (one bad entry, or two of one ID, and nothing
is read), `ObjectOf` and `Encoded` are what is written. `Sorted` is what
sort.Slice makes (IDs are distinct, so there is one such arrangement), `Without` the
slice with one position cut out. `Changes` are the requests
that pass strictjson and the decoders. A text that is not a valid ID, name or
URL is the value `Bad`; all further fields together are `note`.

### AccountDeletion

One action per native command of `DeleteAccount`, in the order of the code:
`Revalidate` `ListUsers` `TerminateUser` `PKillTerm` `PKillKill`
`VerifyNoProcesses` `ShowManager` `ResetFailed` `ShowManagerAgain`
`RevalidateAgain` `UserDel`. Each may fail (`Fails`), and the helper may be killed.
Beside it act the owner (`Login`, `Logout`), systemd, which ends the user
manager well or badly (`ManagerEnds`) and forgets the user only later
(`LogindForgets`), and an administrator outside Soda (`NativeReset`,
`NativeChange`). `processes`, `listed` and `unit` are what pgrep, `loginctl
list-users` and `systemctl show` would say: three views of the same login that do
not change together, which is where the hazards are. An identity is "reviewed"
or "changed"; `late` remembers a change between the last check and userdel, which
no check can exclude.

### Runners

| variable | code |
|---|---|
| `accounts` | Linux accounts `soda-runner-ID` |
| `files` | what is in `/var/lib/soda/runners/ID`: the directory, `state`, the copy of the GitHub runner (`app`), `descriptor.json` |
| `unit` | `soda-runner@ID.service`: enabled, and off, being started or retried, or listening |
| `record` | GitHub's record of the runner, and whether an answer mentioned it |
| `lock`, `helper` | the flock of Create and Remove; the step each `soda-runner-helper` is at |
| `survivor` | `useradd`, `userdel` and `config.sh` that run on after their helper was killed |
| `left` | observed: ids whose last mutation could not finish |
| `unheard` | observed: ids of whose record, if there is one, nobody will hear |

`Lock`, `CheckAvailable`, `UserAdd`, `MakeState`, `Configure`, `Register`,
`RecordRunner` and `Enable` are `Create` (native_create.go) in order, each with
its failure; `CleansUp` enters `creationFailure`, whose steps `UserDel` and
`Clear` are also those of `Remove` after `ReadDescriptor` and `Disable`.
`Start`, `Stop` and `Restart` are `ReadDescriptor`, `Enable`/`Disable` and, for
the second half of a restart, `ReadAgain` and `Restart`; they take no lock and
run between any steps of the others. `Listen` and `ListenerExits` are systemd
with `Restart=always` and the launcher (launch.go), which needs account, state
and descriptor. `Repair` is the administrator who deletes what was left, as the
public documentation asks. Not under `src/`: useradd, userdel (one step, which
refuses an account with a running process), systemd, GitHub. Runners of different
ids meet only in the lock.

`useradd` and `userdel` may fail, or be killed with a cancelled request, after
they did their work, and nothing cleans up after `useradd`. A helper that is
killed (`Kill`) answers nobody and frees the lock, while the command it runs may go on
(`Outlives`) and do its work under the next mutation (`Lands`). Assumed of
useradd and userdel is that one which is overtaken, because another one of the same
name has succeeded meanwhile, finds the name taken or gone and does nothing (`Overtakes`).
A surviving `systemctl` does nothing that a `Start` or `Stop` of another
helper could not do at that moment, and a surviving `cp` writes into a directory
that no listener uses; neither is modelled. A registration that times out
counts as made, if it is made, before its answer, which mentions it either way.

`Close` delivers the answer and decides what it leaves open. The id is in
`left` when its answer was that `useradd` failed, that a removal of the account
is unconfirmed or that state remains, when its helper was cut short (`Lost`), or
when a surviving command landed; a mutation that settles, or `Repair`, takes
it out. A record is mentioned by a creation that says "inspect/remove", or by a
removal that succeeds: the page then advises to remove it in the provider
(ui.ts). It is `unheard` after a death, after a removal that leaves state
behind, whose error speaks only of the state, and after a repair by hand.

What the code leaves behind and no property denies: the account of a
`useradd` that failed, of which no answer speaks and which makes every retry
be refused; the account or the record that a killed helper, or its command, left; after a
failure or a kill between `userdel` and the removal of the state, `Remove` fails
at `userdel` and `Create` refuses the id, until `Repair`; a start that races a
removal leaves an enabled unit whose launcher fails for ever. Files survive
`Reboot`: the descriptor is not synced, and a torn one after a power loss is not
modelled.

### TailscalePage

JavaScript runs one callback at a time. An action is one callback together with
the code that follows it without waiting; what a settled promise releases runs
first (`Quiet`, `ReadBack`, `EndOperation`). `reads` and `refreshes` are the
promises of `readSnapshot` and `runForgejo` that are not settled, also those of
earlier activations; `reading` and `forgejo` are the ones `load` and
`refreshForgejo` join; `observer` and `mutation` are the two loops that wait for
them. The host's preferences are numbered by their last change, so that "older"
has a meaning. `Start`/`Stop` are the activation and its disposer, `TimerFires`
the observer, `Edit`, `Apply`, `SignIn`, `RetryForgejo` the person,
`CommandEnds` `ReadBack` `EndOperation` the three parts of `mutate` between its
awaits, `Sample` the two requests of `client.read`, `Deliver`, `DeliverLate` and
`ReadFails` the end of `readSnapshot`. tailscaled, other administrators
(`OthersChange`, `Reconnect`) and a cancelled process whose write still takes
effect (`OrphanLands`) act between any two callbacks. Left out: the stream of
sign-in messages, error texts and rendering.

### ProjectsPage, RunnersPage, Updates

The three stores have one form: an operation is an asynchronous function that
holds the token `operation` while it awaits one call after another, and finds
after each whether its generation is still the current one. An action is what
runs between two awaits; `awaits[g]` is the call that the function of generation
g is waiting for, so that functions of earlier openings are still there
(`Retire`). Of an answer the models keep what decides what comes next, and its
age: `"fresh"` until the answer to the page's next command, `"stale"` from then
on. `PageStore` states over that age what the three promise.

`ProjectsPage` has the catalog dialog, the workspace dialog with inspection and
setup, and the removal dialog with preview, typed name, receipt and unknown
outcome (`CanConfirm` is `removalReview` in ui.ts). `looked` remembers that the
name was typed while the present preview was on the screen.

`Updates` adds the processes that the page and terminals start: `Lock` (refused,
not waited for), `Check`, `ReadHost` (ReadHost and mutable), `StartApply` and
`EndApply` (`bootc upgrade --apply`), `Unlock`; `Cancel` is SIGTERM or the time
limit of a check, `Kill` leaves a running bootc behind (`orphan`), `Disconnect`
loses the page's call but not the process. `OutsideSoda` is bootc that runs without
Soda's lock, an administrator's or one that outlived its killed process;
`disturbed` are the processes that hold a status from before it.

In `MCPages` a behaviour is that of one page, chosen at the start: the pages share
no state, so nothing is lost, and all of them are checked in one run.

## 3. Runs

| run | question | instance |
|---|---|---|
| `MCProjects` | locks, checks and consistency of accounts and catalog | 2 people (1 administrator), 1 project, 1 URL, 2 setups, 1 removal, 1 writer, 3 requests, 1 fault |
| `MCRemovals` | overlapping removals beside catalog changes: receipts, no lost change | 2 removals, 2 writers, 2 URLs, workspaces present, 3 requests, 1 fault |
| `MCNative` | only reviewed accounts are deleted, beside a native administrator; every request ends | 1 setup, 1 removal, 1 writer, 2 requests with 2 faults or 3 without, fair |
| `MCStaleClone` | finding 1 | 1 person, 2 URLs, 5 requests |
| `MCPublication` | refinement of `Checkout`, never replaced, a retry publishes | 2 sessions, 4 directories, 2 kills or reboots, fair |
| `MCPublicationKill` | finding 2 | 1 kill or reboot |
| `MCCatalogStore` | refinement of `AtomicCatalog`; what is written is read | 2 writers, 2 projects, 1 name, 1 URL, with or without a note, 2 crashes |
| `MCRunners` | all properties of `Runners`, requests end | 1 id, 2 helpers, 4 requests, 1 fault, fair |
| `MCPages` | the promises of the four pages; their operations end | Tailscale: 1 form, 1 identity, 2 activations, 1 command, 1 outside change; Projects: 2 projects; Runners: 1 runner; Updates: 2 processes, 1 fault; up to 3 generations; fair |
| `MCTailscaleIdentity` | finding 3 | 2 identities, 1 command, 2 outside changes |
| `MCAccountDeletion` | deletes only what was checked, resets what it broke, a retry deletes | 2 logins, 2 faults, fair |
| `MCAccountDeletionRetry` | finding 4 | no logins, no faults |

The two setups of `MCProjects` are interchangeable: `Projects` never orders or
chooses among them, and both the safety properties and the initial states treat
them alike, so `SetupSymmetry` is sound there (no liveness is checked in that
run). They start from a host without workspaces, the removals of `MCRemovals` from one where
both people have workspaces.

Why these bounds are enough to be interesting. Two people are the fewest with a
removal that concerns an account other than the caller's; one project is enough
for every account property, because accounts of different projects meet only in
a person's deletion, which has its two accounts (workspace and primary) here.
`MaxUID` leaves UIDs for every account at once and lets useradd reuse a freed
one. Three requests let a setup, a removal and a mutation, or two of one kind
and one of another, overlap in any way and be followed by one more. One fault is
a kill, a cancellation or a reboot at every point; `MCNative` has two, a
deletion and the creation that takes over the name. In `Publication` four
directories are what two sessions can refer to at once (a name and a descriptor
each); where they do not suffice (`Unused` empty) the reservation waits.
`MCPublication` names the directories that the two names refer to at first once
and for all, since no action distinguishes directories. Requests and faults are the only bounds that
occur in guards (`StartSetup`, `StartRemoval`, `StartWrite`; every fault).
Four runner requests by two helpers are a creation, its removal and two
unlocked requests around them, or a removal that is repeated after a fault; one
id suffices because different ids share only the lock, for which the proofs
hold with any number. Two activations of the page let
a read of the first be pending in the second, and one command of any kind meets
every read, refresh and outside change; its bounds (`MaxStarts`, `MaxRequests`,
`MaxChanges`) are guards of `Start`, `Request`, `OthersChange` and `Reconnect`,
and `ReadSlots`, `RefreshSlots` have a place for every promise that can be
pending. The generations of the other pages count openings and closings: three
are a page that is opened, closed and opened again while calls of its first
opening are pending. Two projects let a dialog of one follow that of another,
and the inspection of one be left while the other is set up. Two update
processes are the page's and another's (a second page or a terminal), and after
one has ended a third takes its place; the page is opened again only in
behaviours without faults. One name and one URL suffice for `CatalogStore`
because only IDs are compared; two notes (one absent) make an edit visible. Two
logins are one before and one after the owner's processes were ended, and two
faults a killed helper and an outside change in either order.

The runs of `Projects`, `Runners`, `MCPages` and `AccountDeletion` turn deadlock
checking off: when the requests are used up, the page was closed for the last
time or the account is gone, the system is quiet, which is not a deadlock. That
no process waits for ever is checked by the liveness properties: `EveryRequestEnds`
(as requests are bounded, that each of them ends means that all processes end up
at rest), `RequestsEnd`, `PagesEnd`, `ObserverGoesOn`, `RetriesPublish` and
`RetriesDelete`.

Fairness. `Fairness` is weak fairness of each process's own steps: the kernel
schedules every process, and a lock that stays free is taken by whoever polls
it (`filelock.Acquire` retries every 25 ms). Starting a request,
confirming a removal, kills and cancellations are never fair. Weak fairness
suffices only because requests are bounded: the code gives a removal no
preference over an endless stream of shared holders, so nothing stronger would
be justified. Commands are assumed to end; the code has no timeout for
`git clone`, and one that hangs keeps the shared lock (listed as a hazard).
`Runners!Fairness` is the same for helpers. `TailscalePage!Fairness` says that
the browser runs every callback that is due and that the processes and requests
the page waits for end; persons and the machine owe nothing.
The three other pages only assume that their calls end, and `Updates` that its
processes do. `Publication!Fairness` and `AccountDeletion!Fairness` state strong
fairness of the good outcome of each command, the meaning of "retry until it
works", and weak fairness of systemd and logind; owners, administrators and faults
owe nothing.

Each property of a passing run is broken by a small change of the modelled code,
kept in the modules as an operator `Definition_Change` next to the definition it
replaces.

## 4. Proofs

Every safety invariant, action property and refinement that a passing run checks
is also a theorem; the runs show them on small instances, the theorems for every
value of the constants.

**`Projects_proofs`**, under `ProjectsAssumption` (administrators are people;
`None` is no project, URL, setup or `"incomplete"`; the bounds are naturals) and
`NoneIsNoHome`, with any number of people, projects, setups, removals and
writers:

| theorem | statement |
|---|---|
| `TypeCorrect` | `Spec => []TypeOK` |
| `LocksHold` | `Spec => []LockDiscipline` |
| `ChecksNeverStale` | `Spec => []ChecksStillHold` |
| `NoOrphans` | `Spec => []NoOrphanWorkspace` |
| `AllCatalogued` | `Spec => []NoUncataloguedWorkspace` |
| `SuccessIsReady` | `Spec => []ReadyOnSuccess` |
| `HelpersApart` | `Spec => []OneHelperPerWorkspace` |
| `ReceiptsTrue` | `Spec => []ReceiptTruthful` |
| `CatalogReceiptsTrue` | `Spec => []CatalogReceiptTruthful` |
| `OnlyReviewedNatively` | `NativeSpec => RemovesOnlyReviewed` |
| `OnlyReviewed` | `Spec => RemovesOnlyReviewed` |
| `NoLostUpdate` | `Spec => OneCatalogChangeAtATime` |

The inductive invariant is `IInv == TypeOK /\ LockDiscipline /\ Safe` with
`Safe == ChecksStillHold /\ NoOrphanWorkspace /\ NoUncataloguedWorkspace`. Neither
account property is inductive alone. That no workspace is left without its
person or its entry needs to know that a removal past its recheck has every
account it concerns on its work list (`RemovalChecked`), which stays true only
because no helper is between its own check and `useradd` then: the remover holds
the exclusive lock, every such helper a shared one (`LockDiscipline`). That is
lemma `Exclusion`, from which `HelperSafe`, `RemovalSafe` and the others follow,
one lemma per group of actions. For the primary account, `InOrder` takes it only
when no workspace is left on the list, and the list covers all of them. For the
catalog, a writer's snapshot is the current file because the lock has one holder
(`WriterChecked`), so its write changes one entry (`NoLostUpdate`).

What is reported needs a second invariant on top of it,
`Truth == Held /\ SetupsProgress /\ Reports`. A setup says "ready" long after its
helper's last look, so `SetupsProgress` carries what the home holds at each of
its steps (`PreparedHome`, then `PublishedHome`). It is stable because every step
but a deletion keeps what a home holds (`KeepsMore`), and a deletion needs the
exclusive lock while the coordinator still holds the shared one (`Held`).
`Reports` divides what a removal reviewed into accounts that are gone and
accounts on its work list, each with its reviewed UID: only then is what a
receipt names as removed or not attempted true when a command fails half way.

`NativeSpec` breaks `Safe`, since an administrator deletes accounts outside Soda's
locks. What survives is `NativeInv == TypeOK /\ LockDiscipline /\
WorkListReviewed`: a work list never leaves what was reviewed. `OnlyReviewed`
follows because every step of `Next` is one of `NativeNext`.

**`Publication_proofs`**, under `PublicationAssumption` (finitely many
directories and sessions, `None` is neither), for any number of them:

| theorem | statement |
|---|---|
| `TypeCorrect` | `Spec => []TypeOK` |
| `CheckoutStays` | `Spec => NeverReplaced` |
| `ImplementsCheckout` | `Spec => PublishesAtomically` |
| `CompleteUnlessKilled` | `Spec => [](faults = 0 => PublishedIsComplete)` |

Behind the refinement is `Orderly`: until helpers overlap there is one at a time,
`final` is complete, and each step knows what it has established (`Stage`: the
name `ID` is free until the rename, `.soda-ID.tmp` is the directory it holds open,
and after the validation that directory is complete). The rename is then the
one-step `Publish` of `Checkout`, every other step a stutter. `LockedHelper` says
that helpers overlap only after a fault: the positive side of finding 2.

**`CatalogStore_proofs`**, under `CatalogStoreAssumption` (identifiers are a finite
set of numbers; `None`, `Bad` and `Torn` are not among what they mark the absence
of), for any number of writers, projects, texts and crashes:

| theorem | statement |
|---|---|
| `TypeCorrect` | `Spec => []TypeOK` |
| `WritesReadBack` | `Spec => []ReadsBack` |
| `ImplementsPromise` | `Spec => ImplementsAtomicCatalog` |

Most of this proof is about the data. Entries with distinct IDs have exactly one
sorted arrangement (`OrderExists` by the rank of each ID, `OrderUnique` by
counting, both without induction); sorting keeps the entries (`SortedIsCatalog`);
decoding what was encoded returns it (`ObjectReads`, `WrittenIsRead`); and what an
add, an edit or a removal makes of a list differs from it in one ID
(`ChangedDiffers`, `DifferInOne`). The invariant `IInv` adds `Progress`: the entries a
writer read are those of the file until it writes, the ones it is about to write
differ from the file in one ID, and its temporary file is synced before the
rename. A rename is therefore `Apply` of `AtomicCatalog`, a directory sync `Report`.
Since nothing unsynced is ever renamed, `synced` is always true, and a power loss
never finds a torn file.

**`Runners_proofs`**, under `RunnersAssumption` (`None` is no helper, task or
answer, the bounds are naturals), with any number of runners and helpers:

| theorem | statement |
|---|---|
| `RunnersTyped` | `Spec => []TypeOK` |
| `MutationsExclude` | `Spec => []OneMutation` |
| `AnswersAreTrue` | `Spec => []RepliesAreTrue` |
| `RunnersAreWhole` | `Spec => []WholeOrAbsent` |
| `ListenersAreRunners` | `Spec => []ListenersHaveRunners` |
| `RecordsAreKnown` | `Spec => []NoSilentRecord` |

`WholeOrAbsent` and `NoSilentRecord` name their exceptions: `left` and
`unheard` say of which runners they promise nothing, and the steps that put an id there are
the answers and the deaths listed in section 2.

The inductive invariant adds what the holder of the lock knows at each of its
steps (`Phase`): what exists of its runner (`Building`), that the runner was
whole when it began, or is known not to be (`Untouched`), that no other account command of
its runner is left to land once its own has succeeded (`Alone`), and that its
answer is going to mention GitHub's record (`Recorded`). `Beside` keeps the unlocked
helpers off the holder's steps. Four lemmas carry the proof: `HolderStep` (a step of
the holder changes only its runner), `FreeStep` (a step beside the lock changes
neither accounts nor files), `HolderLeaves` (a holder that answers or dies leaves its
runner whole, or observed) and `LandsStep` (a command that outlived its helper
disturbs no answer of the mutation it lands under).

**`AccountDeletion_proofs`**, under `DeletionAssumption` (the bounds are natural
numbers), for any number of logins, killed helpers and native changes:

| theorem | statement |
|---|---|
| `DeletionTyped` | `Spec => []TypeOK` |
| `FailureIsReset` | `Spec => []ResetsWhatItBroke` |
| `OnlyCheckedDeleted` | `Spec => DeletesOnlyChecked` |

Its inductive invariant is `TypeOK /\ Seen /\ Checked`. `Seen` carries what the
attempt observed of the unit from `show` to its answer: once Soda's signals have
ended the manager, only a login can make an inactive unit anything else, and a
login begins a new manager (`signalled` becomes false). `ResetsWhatItBroke` alone
is not inductive, because it says nothing before the answer. `Checked` says that
at `userdel` a changed identity changed after the last check. `NoFailedManagerLeft`,
which drops "this attempt terminated the user", is not provable: finding 4.

**`TailscalePage_proofs`**, under `TailscaleAssumption` (`None`, `Chosen` and `Timer`
are no forms, identities or numbers; the page is opened at least once) and
`NoneIsNoRecord`, for any forms, identities, openings, commands and outside
changes:

| theorem | statement |
|---|---|
| `TypeCorrect` | `Spec => []TypeOK` |
| `OneRead` | `Spec => []ReadsDoNotOverlap` |
| `NothingOlder` | `Spec => []NothingOlderThanSaved` |
| `DraftsKept` | `Spec => DraftsAreKept` |

The types need `Slots` (an unsettled promise of the current generation is the one
that the next caller joins, and each earlier generation left at most one behind,
so that a slot is always free) and `Clock` (every write still to come belongs to a
request of its own). `NothingOlderThanSaved` speaks of the shown values only;
`Later` carries them from the command to the screen: the read that a command
waits for has ended when it is released (`Waits`), the draft is on the screen
meanwhile (`Drafts`), and a read of the last revision was sampled after every
write reported as saved (`Samples`). Without the revision check of `Deliver` it is
not inductive: a read from before the write would answer last.

**`Pages_proofs`**, under these and `PagesAssumption` (`None` is no state, operation
or data of the pages), for any projects, runners and soda-updates processes:

| theorem | statement |
|---|---|
| `PagesTypes` | `PagesSpec => []PagesTypeOK` |
| `StoresImplementPageStore` | `PagesSpec => StoresKeepPromise` |
| `RemovesWhatWasShown` | `PagesSpec => RemovesWhatIsShown` |
| `EvidenceStays` | `PagesSpec => EvidenceIsKept` |
| `AppliesWhatWasRead` | `PagesSpec => AppliesWhatItRead` |

`EachPage` splits a step into a step of each page. For Runners the types suffice;
`ProjectsInv` says which dialog is open while which call is awaited, and that
only the list can be stale, until it is read again; `UpdatesInv` says that the
lock's holder is alone and that whoever is about to apply an update read that
nothing blocks it, or bootc ran outside Soda's lock since.

Only model-checked are the liveness properties (`EveryRequestEnds`,
`RetriesPublish`, `RetriesDelete`, `RequestsEnd`, `PagesEnd`, `ObserverGoesOn`): they rest
on fairness and ENABLED, which the prover does not handle. The four findings are
counterexamples, shown by TLC.

## 5. Findings

1. *A stale clone is reported ready* (`MCStaleClone`, `ReadyCloneIsProjects`).
   `CloneExists` (`workspace/repository.go:33`) accepts any checkout that is
   there. If `userdel` removed an account but not its home, the retried removal
   finds no account and uncatalogs the project; when the project is added again
   with another URL, useradd gives the freed UID to the new account and keeps
   the home, and setup reports a clone of the old repository as ready.
   `docs/architecture.md:110` describes exactly this sequence as the way to
   replace a URL.
2. *A killed coordinator breaks the setup lock* (`MCPublicationKill`,
   `PublishedIsComplete`). Its lock is free at once, its root helper runs on.
   A second setup runs beside it and can report success for a directory the
   first helper has emptied (`workspace/accounts.go:118`: "A complete clone is
   the only successful outcome"). `NeverReplaced` shows the limit of the damage: a
   published checkout is never replaced.
3. *An identity without its refresh* (`MCTailscaleIdentity`,
   `EachIdentityIsRefreshed`). `syncForgejo` notes a new identity and then joins
   a refresh that still runs for the previous one
   (`cockpit/src/tailscale/store.ts:193-198`); none is begun for the new one
   until the person asks. `docs/cockpit-development.md:120` says "Forgejo
   refresh is attempted once per connected identity". It takes a sign-in, whose
   final refresh the observer does not wait for, and a change of identity while
   that refresh runs.
4. *A retry leaves a failed user manager behind* (`MCAccountDeletionRetry`,
   `NoFailedManagerLeft`). `DeleteAccount` (`linuxhost/removal.go:40`) looks at
   the unit only if the same attempt terminated the user. An attempt that ended
   the manager and then failed, perhaps at the reset itself, is retried after
   logind has forgotten the user, and the account is deleted although the unit is
   still failed. `docs/bug-notes.md:976` says: "Any other state or a reset that
   leaves the unit failed remains a visible error, with the account and catalog
   entry retained".

## 6. Not modelled, and the plan

What could still be modelled:

1. `KeysInstall` (linuxhost/keys.go): staging, link and sync of authorized_keys,
   with the crash that leaves a staged file (one step in `Projects`).
2. The stream of Tailscale's sign-in (cockpit/src/tailscale/stream.ts) and the
   request and response formats (protocol.ts).
3. The ownership validation of workspace trees (workspace/tree.go).

Theorems to come: what remains true beside the findings, as
`CompleteUnlessKilled` does for the second (a ready clone is the project's as long
as no `userdel` fails half way; a first attempt leaves no failed manager), and the
safety part of the lock's hand-over that `EveryRequestEnds` rests on.

Hazards no property covers, because the code leaves them so: a removal may be
starved by a stream of setups; `git clone` has no timeout; a start that races a
removal leaves an enabled unit; a failed useradd may leave its account, which
blocks every retry; a removal of a runner that failed after userdel cannot be
completed by a retry; an edit silently overwrites another
administrator's.

Left out for good: `internal/tailnet` (a pure function of the output of
`tailscale status`, which keeps nothing), rendering of the pages, argument
parsing, text validation (URLs, IDs, names), the build and acceptance tools'
shell work, packaging, artwork: no state shared between processes, or pure input
and output.
