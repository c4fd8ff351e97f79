---------------------------- MODULE TailscalePage ----------------------------
(***************************************************************************)
(* The store behind Cockpit's Tailscale page: one observer that polls the  *)
(* native client, commands that write one preference and read it back, and *)
(* the refresh of the bundled Forgejo for each connected identity.         *)
(*                                                                         *)
(* JavaScript runs one callback at a time.  An action is one callback with *)
(* the code that follows it without waiting; a continuation that a promise *)
(* has just released runs before any other callback (Quiet).  Processes of *)
(* the machine take their steps between any two of them.                   *)
(***************************************************************************)
EXTENDS Naturals, FiniteSets

CONSTANTS
    Forms,          \* the preferences a person can write ("exit", "advertise")
    Identities,     \* connected identities: DNS name and addresses
    None,
    Chosen,         \* a draft as the person left it, not as a read showed it
    Timer,          \* the observer waits for its timer
    MaxStarts,      \* bound: activations of the page
    MaxRequests,    \* bound: commands and explicit retries
    MaxChanges      \* bound: changes of preference or connection by others

ASSUME TailscaleAssumption ==
    /\ None \notin Forms \cup {"signin", "forgejo"} \cup Identities \cup Nat
    /\ Chosen \notin Nat /\ Timer \notin Nat \cup {None}
    /\ Forms \cap {"signin", "forgejo"} = {}
    /\ MaxStarts \in Nat \ {0} /\ MaxRequests \in Nat /\ MaxChanges \in Nat

VARIABLES
    host,       \* tailscaled: preferences, each as the number of its last change, and identity
    used,       \* how much of each bound is used
    open,       \* native # null
    generation,
    revision,   \* preferencesRevision
    reading,    \* the read that load joins, or None
    forgejo,    \* the refresh that refreshForgejo joins, or None
    view,       \* snapshot, drafts, dirty, operation, saved, forgejoIdentity
    observer,   \* the read the observer awaits, or Timer
    mutation,   \* the command in progress, as far as it has come
    reads,      \* promises of readSnapshot that are not settled
    refreshes,  \* promises of runForgejo that are not settled
    orphans,    \* writes whose page was closed and that may still take effect
    written,    \* the change that the page last saved, per preference
    attempted   \* a refresh was begun for forgejoIdentity
native == <<host, orphans>>
tasks == <<observer, mutation, reads, refreshes>>
vars == <<host, used, open, generation, revision, reading, forgejo, view, tasks,
          orphans, written, attempted>>

Changes == 0 .. MaxRequests + MaxChanges
ReadSlots == 1 .. MaxStarts + 1
RefreshSlots == 1 .. MaxStarts + 1
Snapshots == [prefs: [Forms -> Changes], identity: Identities \cup {None}]
Reads == [generation: Nat, revision: Nat, phase: {"status", "prefs", "answer", "sync"},
          prefs: [Forms -> Changes], identity: Identities \cup {None},
          waits: RefreshSlots \cup {None}]
Refreshes == [generation: Nat, identity: Identities \cup {None}]
Operations == Forms \cup {"signin", "forgejo", None}
Views == [snapshot: Snapshots \cup {None}, draft: [Forms -> Changes \cup {Chosen}],
          dirty: [Forms -> BOOLEAN], operation: Operations, saved: Forms \cup {None},
          identity: Identities \cup {None}]
Mutations == [phase: {"native", "await", "released", "readback", "readagain", "retry"},
              landed: Changes, done: BOOLEAN, waits: ReadSlots \cup {None}]

ASSUME NoneIsNoRecord ==
    None \notin Reads /\ None \notin Refreshes /\ None \notin Mutations /\ None \notin Snapshots

TypeOK ==
    /\ host \in Snapshots
    /\ used \in [starts: 0 .. MaxStarts, requests: 0 .. MaxRequests,
                 changes: 0 .. MaxChanges, clock: Changes]
    /\ open \in BOOLEAN /\ generation \in Nat /\ revision \in Nat
    /\ reading \in ReadSlots \cup {None} /\ forgejo \in RefreshSlots \cup {None}
    /\ view \in Views
    /\ observer \in ReadSlots \cup {Timer, None}
    /\ mutation \in Mutations \cup {None}
    /\ reads \in [ReadSlots -> Reads \cup {None}]
    /\ refreshes \in [RefreshSlots -> Refreshes \cup {None}]
    /\ orphans \subseteq Forms
    /\ written \in [Forms -> Changes] /\ attempted \in BOOLEAN
    \* whoever waits for a promise waits for one that is not settled
    /\ observer \in ReadSlots => reads[observer] # None
    /\ mutation # None /\ mutation.waits # None => reads[mutation.waits] # None
    /\ \A i \in ReadSlots : reads[i] # None /\ reads[i].waits # None =>
         refreshes[reads[i].waits] # None

InitialView ==
    [snapshot |-> None, draft |-> [f \in Forms |-> 0], dirty |-> [f \in Forms |-> FALSE],
     operation |-> None, saved |-> None, identity |-> None]

Init ==
    /\ host \in [prefs: {[f \in Forms |-> 0]}, identity: Identities \cup {None}]
    /\ used = [starts |-> 0, requests |-> 0, changes |-> 0, clock |-> 0]
    /\ open = FALSE /\ generation = 0 /\ revision = 0
    /\ reading = None /\ forgejo = None
    /\ view = InitialView
    /\ observer = None /\ mutation = None
    /\ reads = [i \in ReadSlots |-> None]
    /\ refreshes = [i \in RefreshSlots |-> None]
    /\ orphans = {}
    /\ written = [f \in Forms |-> 0] /\ attempted = FALSE

-----------------------------------------------------------------------------
(* No continuation of a command is waiting to run.                          *)
Quiet == mutation # None => mutation.phase \notin {"released", "readagain"}

Current(task) == open /\ task.generation = generation
Connected(snapshot) == snapshot # None /\ snapshot.identity # None

Free(slots) == CHOOSE i \in DOMAIN slots : slots[i] = None
NewRead(g, r) ==
    [generation |-> g, revision |-> r, phase |-> "status",
     prefs |-> [f \in Forms |-> 0], identity |-> None, waits |-> None]

(* load: join the read in flight, or begin one.                             *)
Load ==
    IF reading # None
    THEN UNCHANGED <<reading, reads>>
    ELSE /\ reading' = Free(reads)
         /\ reads' = [reads EXCEPT ![reading'] = NewRead(generation, revision)]

(* refreshForgejo: join the refresh in flight, or begin one.                *)
RefreshForgejo ==
    IF forgejo # None
    THEN UNCHANGED <<forgejo, refreshes>>
    ELSE /\ forgejo' = Free(refreshes)
         /\ refreshes' = [refreshes EXCEPT ![forgejo'] =
                            [generation |-> generation, identity |-> host.identity]]

(* A refresh is begun for this identity, or has begun while the host had it.*)
Begun(identity) == forgejo = None \/ refreshes[forgejo].identity = identity

(* syncForgejo, with what the page shows after the step: a new identity is  *)
(* noted and a refresh is asked for.                                        *)
SyncForgejo(shown) ==
    IF Connected(shown.snapshot) /\ shown.snapshot.identity # shown.identity
    THEN /\ view' = [shown EXCEPT !.identity = shown.snapshot.identity]
         /\ RefreshForgejo
         /\ attempted' = Begun(shown.snapshot.identity)
    ELSE /\ view' = [shown EXCEPT !.identity = IF Connected(shown.snapshot) THEN @ ELSE None]
         /\ UNCHANGED <<forgejo, refreshes, attempted>>

Forgotten_Never(ids) == reading

Forgotten_WithoutComparison(ids) == None

(* What follows when reads are settled: load no longer joins them, the      *)
(* observer sets its timer and a command that waited is released.           *)
Forgotten(ids) == IF reading \in ids THEN None ELSE reading
Settle(ids, command) ==
    /\ reads' = [i \in ReadSlots |-> IF i \in ids THEN None ELSE reads[i]]
    /\ reading' = Forgotten(ids)
    /\ observer' = IF observer \in ids THEN Timer ELSE observer
    /\ mutation' =
         IF command # None /\ command.waits \in ids
         THEN [command EXCEPT !.phase = IF @ = "await" THEN "released" ELSE "readagain",
                              !.waits = None]
         ELSE command

-----------------------------------------------------------------------------
(* A write in progress on a page that closes: its process is told to stop,  *)
(* which does not undo it or prove that it was not done.                    *)
Abandoned ==
    IF mutation # None /\ mutation.phase = "native" /\ mutation.landed = 0
       /\ view.operation \in Forms
    THEN orphans \cup {view.operation} ELSE orphans

Start ==
    /\ Quiet
    /\ used.starts < MaxStarts
    /\ used' = [used EXCEPT !.starts = @ + 1]
    /\ open' = TRUE
    /\ generation' = generation + 1
    /\ revision' = 0
    /\ orphans' = Abandoned
    /\ reading' = Free(reads)
    /\ reads' = [reads EXCEPT ![reading'] = NewRead(generation', 0)]
    /\ observer' = reading'
    /\ forgejo' = None /\ mutation' = None
    /\ view' = InitialView
    /\ written' = [f \in Forms |-> 0] /\ attempted' = FALSE
    /\ UNCHANGED <<host, refreshes>>

Stop ==
    /\ Quiet
    /\ open
    /\ open' = FALSE
    /\ generation' = generation + 1
    /\ orphans' = Abandoned
    /\ reading' = None /\ forgejo' = None
    /\ observer' = None /\ mutation' = None
    /\ view' = InitialView
    /\ UNCHANGED <<host, used, revision, reads, refreshes, written, attempted>>

TimerFires_OnlyIfIdle ==
    /\ Quiet
    /\ open /\ observer = Timer
    /\ IF reading # None THEN observer' = None /\ UNCHANGED <<reading, reads>>
       ELSE Load /\ observer' = reading'
    /\ UNCHANGED <<host, used, open, generation, revision, forgejo, view, mutation,
                   refreshes, orphans, written, attempted>>

TimerFires ==
    /\ Quiet
    /\ open /\ observer = Timer
    /\ Load
    /\ observer' = reading'
    /\ UNCHANGED <<host, used, open, generation, revision, forgejo, view, mutation,
                   refreshes, orphans, written, attempted>>

-----------------------------------------------------------------------------
(* changeExitNode, changeAllowLAN, changeAdvertise                          *)
Edit(f) ==
    /\ Quiet
    /\ open /\ view.operation = None
    /\ view' = [view EXCEPT !.draft[f] = Chosen, !.dirty[f] = TRUE, !.saved = None]
    /\ UNCHANGED <<host, used, open, generation, revision, reading, forgejo, tasks,
                   orphans, written, attempted>>

Request ==
    /\ Quiet
    /\ open /\ view.operation = None
    /\ used.requests < MaxRequests
    /\ used' = [used EXCEPT !.requests = @ + 1]

Command == [phase |-> "native", landed |-> 0, done |-> FALSE, waits |-> None]

(* applyExitNode, applyAdvertisement: what is written is the draft.         *)
Apply(f) ==
    /\ Request
    /\ Connected(view.snapshot)
    /\ revision' = revision + 1
    /\ view' = [view EXCEPT !.operation = f, !.saved = None, !.dirty[f] = TRUE,
                            !.draft[f] = Chosen]
    /\ mutation' = Command
    /\ UNCHANGED <<host, open, generation, reading, forgejo, observer, reads, refreshes,
                   orphans, written, attempted>>

SignIn ==
    /\ Request
    /\ view.snapshot # None
    /\ view' = [view EXCEPT !.operation = "signin", !.saved = None]
    /\ mutation' = Command
    /\ UNCHANGED <<host, open, generation, revision, reading, forgejo, observer, reads,
                   refreshes, orphans, written, attempted>>

RetryForgejo ==
    /\ Request
    /\ Connected(view.snapshot)
    /\ view' = [view EXCEPT !.operation = "forgejo"]
    /\ RefreshForgejo
    /\ attempted' = (attempted \/ Begun(view.identity))
    /\ mutation' = [Command EXCEPT !.phase = "retry"]
    /\ UNCHANGED <<host, open, generation, revision, reading, observer, reads, orphans,
                   written>>

(* A write retires the reads begun before or during it.                     *)
RetireReads == IF view.operation \in Forms THEN revision + 1 ELSE revision

Awaited_Nothing == None

(* The read in flight, which the command waits for before it reads back.    *)
Awaited == reading

(* The command's process ends, well or not.                                 *)
CommandEnds(done) ==
    /\ Quiet
    /\ mutation # None /\ mutation.phase = "native"
    /\ done => mutation.landed # 0 \/ view.operation = "signin"
    /\ revision' = RetireReads
    /\ written' = IF done /\ view.operation \in Forms
                  THEN [written EXCEPT ![view.operation] = mutation.landed] ELSE written
    /\ mutation' = [mutation EXCEPT !.done = done, !.waits = Awaited,
                                    !.phase = IF Awaited = None THEN "released" ELSE "await"]
    /\ UNCHANGED <<native, used, open, generation, reading, forgejo, view, observer,
                   reads, refreshes, attempted>>

Saved(done) ==
    IF done /\ view.operation \in Forms
    THEN [view EXCEPT !.saved = view.operation, !.dirty[view.operation] = FALSE]
    ELSE view

(* The draft is released and a fresh read is begun.                         *)
ReadBack ==
    /\ mutation # None /\ mutation.phase = "released"
    /\ view' = Saved(mutation.done)
    /\ Load
    /\ mutation' = [mutation EXCEPT !.phase = "readback", !.waits = reading']
    /\ UNCHANGED <<native, used, open, generation, revision, forgejo, observer,
                   refreshes, written, attempted>>

EndOperation ==
    /\ mutation # None /\ mutation.phase = "readagain"
    /\ mutation' = None
    /\ SyncForgejo([view EXCEPT !.operation = None])
    /\ UNCHANGED <<native, used, open, generation, revision, reading, observer, reads,
                   written>>

-----------------------------------------------------------------------------
(* client.read asks for the status, then for the preferences; each answer   *)
(* shows the host as it is when tailscaled answers.                         *)
Sample(i) ==
    /\ reads[i] # None /\ reads[i].phase \in {"status", "prefs"}
    /\ reads' = [reads EXCEPT ![i] =
         IF @.phase = "status"
         THEN [@ EXCEPT !.phase = "prefs", !.identity = host.identity]
         ELSE [@ EXCEPT !.phase = "answer", !.prefs = host.prefs]]
    /\ UNCHANGED <<native, used, open, generation, revision, reading, forgejo, view,
                   observer, mutation, refreshes, written, attempted>>

Retired(read) == read.revision # revision
Shown_OverDrafts(read) ==
    [view EXCEPT !.snapshot = [prefs |-> read.prefs, identity |-> read.identity],
                 !.draft = read.prefs]

Shown(read) ==
    LET snapshot == [prefs |-> read.prefs, identity |-> read.identity] IN
    [view EXCEPT
       !.snapshot = snapshot,
       !.draft = [f \in Forms |-> IF view.dirty[f] THEN @[f] ELSE read.prefs[f]],
       !.identity = IF Connected(snapshot) THEN @ ELSE None]

(* Whether the page asks for a refresh after showing this answer.           *)
Asks(shown) ==
    /\ shown.operation = None
    /\ Connected(shown.snapshot) /\ shown.snapshot.identity # shown.identity

(* A read whose page has gone, or which a write has retired, has no effect. *)
DeliverLate(i) ==
    /\ Quiet
    /\ reads[i] # None /\ reads[i].phase # "sync"
    /\ \/ ~Current(reads[i])
       \/ reads[i].phase = "answer" /\ Retired(reads[i])
    /\ Settle({i}, mutation)
    /\ UNCHANGED <<native, used, open, generation, revision, forgejo, view, refreshes,
                   written, attempted>>

Deliver(i) ==
    /\ Quiet
    /\ reads[i] # None /\ reads[i].phase = "answer"
    /\ Current(reads[i]) /\ ~Retired(reads[i])
    /\ LET shown == Shown(reads[i]) IN
       IF Asks(shown)
       THEN /\ SyncForgejo(shown)
            /\ reads' = [reads EXCEPT ![i].phase = "sync", ![i].waits = forgejo']
            /\ UNCHANGED <<reading, observer, mutation>>
       ELSE /\ view' = shown
            /\ Settle({i}, mutation)
            /\ UNCHANGED <<forgejo, refreshes, attempted>>
    /\ UNCHANGED <<native, used, open, generation, revision, written>>

ReadFails(i) ==
    /\ Quiet
    /\ reads[i] # None /\ reads[i].phase # "sync"
    /\ Current(reads[i])
    /\ view' = IF Retired(reads[i]) THEN view ELSE [view EXCEPT !.snapshot = None]
    /\ Settle({i}, mutation)
    /\ UNCHANGED <<native, used, open, generation, revision, forgejo, refreshes,
                   written, attempted>>

Retried_Ignored(j) == FALSE

Retried(j) == mutation # None /\ mutation.phase = "retry" /\ forgejo = j

(* A refresh ends, well or not; the read or the retry that awaited it goes  *)
(* on.                                                                      *)
RefreshEnds(j) ==
    LET waiting == {i \in ReadSlots : reads[i] # None /\ reads[i].waits = j} IN
    /\ Quiet
    /\ refreshes[j] # None
    /\ refreshes' = [refreshes EXCEPT ![j] = None]
    /\ forgejo' = IF forgejo = j THEN None ELSE forgejo
    /\ Settle(waiting, IF Retried(j) THEN None ELSE mutation)
    /\ view' = IF Retried(j) THEN [view EXCEPT !.operation = None] ELSE view
    /\ UNCHANGED <<native, used, open, generation, revision, written, attempted>>

-----------------------------------------------------------------------------
(* The machine.                                                             *)
Page == <<open, generation, revision, reading, forgejo, view, observer, reads, refreshes,
          written, attempted>>
Change(f) == host' = [host EXCEPT !.prefs[f] = used.clock + 1]

WriteLands ==
    /\ mutation # None /\ mutation.phase = "native" /\ mutation.landed = 0
    /\ view.operation \in Forms
    /\ Change(view.operation)
    /\ used' = [used EXCEPT !.clock = @ + 1]
    /\ mutation' = [mutation EXCEPT !.landed = used.clock + 1]
    /\ UNCHANGED <<Page, orphans>>

OrphanLands(f) ==
    /\ f \in orphans
    /\ orphans' = orphans \ {f}
    /\ \/ Change(f) /\ used' = [used EXCEPT !.clock = @ + 1]
       \/ UNCHANGED <<host, used>>
    /\ UNCHANGED <<Page, mutation>>

(* tailscaled, the tailnet or an administrator at another terminal.         *)
OthersChange(f) ==
    /\ used.changes < MaxChanges
    /\ used' = [used EXCEPT !.changes = @ + 1, !.clock = @ + 1]
    /\ Change(f)
    /\ UNCHANGED <<Page, mutation, orphans>>

Reconnect(i) ==
    /\ used.changes < MaxChanges
    /\ used' = [used EXCEPT !.changes = @ + 1]
    /\ i # host.identity
    /\ host' = [host EXCEPT !.identity = i]
    /\ UNCHANGED <<Page, mutation, orphans>>

Machine ==
    \/ WriteLands
    \/ \E f \in Forms : OrphanLands(f) \/ OthersChange(f)
    \/ \E i \in Identities \cup {None} : Reconnect(i)

Person ==
    \/ Start \/ Stop \/ SignIn \/ RetryForgejo
    \/ \E f \in Forms : Edit(f) \/ Apply(f)

ReadStep(i) == Sample(i) \/ DeliverLate(i) \/ Deliver(i) \/ ReadFails(i)

Next ==
    \/ Person \/ Machine
    \/ TimerFires \/ ReadBack \/ EndOperation
    \/ \E done \in BOOLEAN : CommandEnds(done)
    \/ \E i \in ReadSlots : ReadStep(i)
    \/ \E j \in RefreshSlots : RefreshEnds(j)

Spec == Init /\ [][Next]_vars

(* The browser runs what is due, and every process it waits for ends.       *)
Fairness ==
    /\ WF_vars(TimerFires) /\ WF_vars(ReadBack) /\ WF_vars(EndOperation)
    /\ WF_vars(\E done \in BOOLEAN : CommandEnds(done))
    /\ \A i \in ReadSlots : WF_vars(ReadStep(i))
    /\ \A j \in RefreshSlots : WF_vars(RefreshEnds(j))
FairSpec == Spec /\ Fairness

-----------------------------------------------------------------------------
(* "Reads do not overlap": whatever is activated, closed, joined or         *)
(* abandoned, the shown page has at most one read in flight, and it is the  *)
(* one that load joins.                                                     *)
ReadsDoNotOverlap ==
    open => \A i \in ReadSlots :
              reads[i] # None /\ reads[i].generation = generation => reading = i

(* Once a command has ended, the page shows no preference from before the   *)
(* write it reported as saved: neither in the snapshot nor in a draft that  *)
(* follows the host.                                                        *)
NothingOlderThanSaved ==
    open => \A f \in Forms :
      view.operation # f =>
        /\ view.snapshot # None => view.snapshot.prefs[f] >= written[f]
        /\ ~view.dirty[f] /\ view.draft[f] # Chosen => view.draft[f] >= written[f]

(* A draft that the person has changed and not saved is not replaced by the *)
(* observer: it changes only when the page is activated anew or closed.     *)
DraftsAreKept ==
    [][\A f \in Forms :
         view.dirty[f] /\ view'.draft[f] # view.draft[f] =>
           generation' # generation \/ view'.draft[f] = Chosen]_vars

(* The observer goes on as long as the page is open.                        *)
ObserverGoesOn == []<>(open => observer = Timer) /\ []<>(open => reading # None)

(* "Forgejo refresh is attempted once per connected identity": when nothing *)
(* is in progress, one was begun for the identity the page has noted, or    *)
(* while the host already had it.                                           *)
EachIdentityIsRefreshed ==
    open /\ view.operation = None /\ forgejo = None /\ view.identity # None => attempted
=============================================================================
