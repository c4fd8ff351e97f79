------------------------- MODULE TailscalePage_proofs -------------------------
(***************************************************************************)
(* Theorems about TailscalePage, for every set of preferences and          *)
(* identities and every bound.  TypeInv is the inductive invariant behind  *)
(* the types and the reads that do not overlap; Later, on top of it, the   *)
(* one behind what the page shows after a write.                           *)
(***************************************************************************)
EXTENDS TailscalePage, FiniteSetTheorems, TLAPS

USE TailscaleAssumption, NoneIsNoRecord

-----------------------------------------------------------------------------
(* The promises of one kind, those of reads or those of refreshes: slots   *)
(* are the unsettled ones and joined the one that a new caller joins.      *)

LEMMA SlotsFinite == IsFiniteSet(ReadSlots) /\ Cardinality(ReadSlots) = MaxStarts + 1
<1>1. MaxStarts + 1 \in Nat /\ 1 \in Nat
  OBVIOUS
<1>2. QED BY <1>1, FS_Interval DEF ReadSlots

LEMMA SlotNames == ReadSlots = 1 .. MaxStarts + 1 /\ None \notin ReadSlots
  BY DEF ReadSlots

\* The unsettled promises of openings before the one that is on, if one is.
Left(slots, on, now) == {i \in ReadSlots : slots[i] # None /\ (on => slots[i].generation # now)}

\* The page on, if it is, is the only opening of generation "now"; of each of
\* the openings before at most one promise is left.
Held(slots, joined, on, now, starts) ==
    /\ \A i \in ReadSlots : slots[i] # None =>
         slots[i].generation <= now /\ (on /\ slots[i].generation = now => joined = i)
    /\ joined # None =>
         on /\ joined \in ReadSlots /\ slots[joined] # None /\ slots[joined].generation = now
    /\ on => starts >= 1
    /\ Cardinality(Left(slots, on, now)) <= starts - (IF on THEN 1 ELSE 0)

LEMMA OneMore ==
  ASSUME NEW S, IsFiniteSet(S), NEW x
  PROVE  /\ IsFiniteSet(S \cup {x}) /\ Cardinality(S \cup {x}) \in Nat
         /\ Cardinality(S) \in Nat /\ Cardinality(S \cup {x}) <= Cardinality(S) + 1
<1>1. Cardinality(S) \in Nat
  BY FS_CardinalityType
<1>2. /\ IsFiniteSet(S \cup {x})
      /\ Cardinality(S \cup {x}) = IF x \in S THEN Cardinality(S) ELSE Cardinality(S) + 1
  BY FS_AddElement, Zenon
<1>3. QED BY <1>1, <1>2

LEMMA LeftFinite ==
  ASSUME NEW slots, NEW on, NEW now
  PROVE  IsFiniteSet(Left(slots, on, now)) /\ Cardinality(Left(slots, on, now)) \in Nat
<1>1. Left(slots, on, now) \subseteq ReadSlots
  BY DEF Left
<1>2. QED BY <1>1, SlotsFinite, FS_Subset, FS_CardinalityType

LEMMA FreeSlot ==
  ASSUME NEW slots, NEW joined, NEW on \in BOOLEAN, NEW now, NEW starts \in Nat,
         DOMAIN slots = ReadSlots, starts <= MaxStarts, Held(slots, joined, on, now, starts)
  PROVE  Free(slots) \in ReadSlots /\ slots[Free(slots)] = None
<1>1. SUFFICES \E i \in ReadSlots : slots[i] = None
  BY DEF Free
<1>2. SUFFICES ASSUME \A i \in ReadSlots : slots[i] # None PROVE FALSE
  OBVIOUS
<1> DEFINE old == Left(slots, on, now)
<1>3. IsFiniteSet(old) /\ Cardinality(old) \in Nat
  BY LeftFinite
<1> HIDE DEF old
<1>4. CASE joined = None \/ ~on
  <2>1. ReadSlots \subseteq old
    BY <1>2, <1>4, SlotNames DEF Held, Left, old
  <2>2. Cardinality(ReadSlots) <= Cardinality(old)
    BY <2>1, <1>3, FS_Subset
  <2>3. Cardinality(old) <= starts
    BY <1>3 DEF Held, old
  <2>4. QED BY <2>2, <2>3, <1>3, SlotsFinite
<1>5. CASE joined # None /\ on
  <2>1. ReadSlots \subseteq old \cup {joined}
    BY <1>2, <1>5 DEF Held, Left, old
  <2>2. IsFiniteSet(old \cup {joined}) /\ Cardinality(old \cup {joined}) <= Cardinality(old) + 1
    BY <1>3, OneMore
  <2>3. Cardinality(ReadSlots) <= Cardinality(old \cup {joined})
    BY <2>1, <2>2, FS_Subset
  <2>4. Cardinality(old) <= starts - 1
    BY <1>3, <1>5 DEF Held, old
  <2>5. Cardinality(old \cup {joined}) \in Nat
    BY <2>2, FS_CardinalityType
  <2>6. QED BY <2>2, <2>3, <2>4, <2>5, <1>3, SlotsFinite
<1>6. QED BY <1>4, <1>5

\* Promises are settled, or go on, within an opening.
LEMMA HeldSettled ==
  ASSUME NEW slots, NEW joined, NEW on \in BOOLEAN, NEW now \in Nat, NEW starts \in Nat,
         Held(slots, joined, on, now, starts), NEW next, NEW joined2,
         \A i \in ReadSlots : next[i] # None =>
           slots[i] # None /\ next[i].generation = slots[i].generation,
         \/ joined2 = joined /\ (joined # None => next[joined] # None)
         \/ joined2 = None /\ (joined # None => next[joined] = None)
  PROVE  Held(next, joined2, on, now, starts)
<1>1. Left(next, on, now) \subseteq Left(slots, on, now)
  BY DEF Left
<1>2. Cardinality(Left(next, on, now)) <= Cardinality(Left(slots, on, now))
  BY <1>1, LeftFinite, FS_Subset
<1>3. QED
  <2>1. Cardinality(Left(next, on, now)) \in Nat /\ Cardinality(Left(slots, on, now)) \in Nat
    BY LeftFinite
  <2>2. Cardinality(Left(next, on, now)) <= starts - (IF on THEN 1 ELSE 0)
    BY <1>2, <2>1 DEF Held
  <2>3. QED BY <2>2 DEF Held

\* One is begun that no caller could join before.
LEMMA HeldBegun ==
  ASSUME NEW slots, NEW now \in Nat, NEW starts \in Nat, DOMAIN slots = ReadSlots,
         Held(slots, None, TRUE, now, starts),
         NEW i \in ReadSlots, slots[i] = None, NEW r, r # None, r.generation = now
  PROVE  Held([slots EXCEPT ![i] = r], i, TRUE, now, starts)
<1> DEFINE next == [slots EXCEPT ![i] = r]
<1>1. \A j \in ReadSlots : next[j] = IF j = i THEN r ELSE slots[j]
  OBVIOUS
<1> HIDE DEF next
<1>2. Left(next, TRUE, now) = Left(slots, TRUE, now)
  BY <1>1 DEF Left
<1>3. i # None
  BY SlotNames
<1>4. \A j \in ReadSlots :
        slots[j] # None => slots[j].generation <= now /\ slots[j].generation # now
  BY SlotNames DEF Held
<1>5. \A j \in ReadSlots : next[j] # None =>
        next[j].generation <= now /\ (next[j].generation = now => i = j)
  BY <1>1, <1>4
<1>6. next[i] # None /\ next[i].generation = now
  BY <1>1
<1>7. starts >= 1 /\ Cardinality(Left(next, TRUE, now)) <= starts - 1
  BY <1>2 DEF Held
<1>8. Held(next, i, TRUE, now, starts)
  BY <1>3, <1>5, <1>6, <1>7 DEF Held
<1>9. QED BY <1>8 DEF next

\* The page is opened: what was joined before is left.
LEMMA HeldOpened ==
  ASSUME NEW slots, NEW joined, NEW on \in BOOLEAN, NEW now \in Nat, NEW starts \in Nat,
         \A i \in ReadSlots : slots[i] # None => slots[i].generation \in Nat,
         Held(slots, joined, on, now, starts), NEW again \in BOOLEAN, again \/ on
  PROVE  Held(slots, None, again, now + 1, IF again THEN starts + 1 ELSE starts)
<1> DEFINE old == Left(slots, on, now)
           new == Left(slots, again, now + 1)
<1>1. IsFiniteSet(old) /\ Cardinality(old) \in Nat /\ Cardinality(new) \in Nat
  BY LeftFinite
<1> HIDE DEF old, new
<1>2. \A i \in ReadSlots : slots[i] # None => slots[i].generation <= now
  BY DEF Held
<1>3. Cardinality(new) <= Cardinality(old) + (IF on THEN 1 ELSE 0)
  <2>1. CASE on
    <3>1. new \subseteq old \cup {joined}
      BY <1>2, <2>1 DEF Held, Left, old, new
    <3>2. IsFiniteSet(old \cup {joined}) /\ Cardinality(old \cup {joined}) <= Cardinality(old) + 1
      BY <1>1, OneMore
    <3>3. /\ Cardinality(new) <= Cardinality(old \cup {joined})
          /\ Cardinality(old \cup {joined}) \in Nat
      BY <3>1, <3>2, FS_Subset, FS_CardinalityType
    <3>4. QED BY <3>2, <3>3, <2>1, <1>1
  <2>2. CASE ~on
    <3>1. new \subseteq old
      BY <2>2, <1>2 DEF Left, old, new
    <3>2. Cardinality(new) <= Cardinality(old)
      BY <3>1, <1>1, FS_Subset
    <3>3. QED BY <3>2, <2>2, <1>1
  <2>3. QED BY <2>1, <2>2
<1>4. Cardinality(old) <= starts - (IF on THEN 1 ELSE 0)
  BY DEF Held, old
<1>5. Cardinality(new) <= starts
  BY <1>1, <1>3, <1>4
<1>6. again => ~\E i \in ReadSlots : slots[i] # None /\ slots[i].generation = now + 1
  BY <1>2
<1> DEFINE n == IF again THEN starts + 1 ELSE starts
<1>7. Cardinality(new) <= n - (IF again THEN 1 ELSE 0) /\ (again => n >= 1)
  BY <1>5, <1>1
<1> HIDE DEF n
<1>8. \A i \in ReadSlots : slots[i] # None => slots[i].generation <= now + 1
  BY <1>2
<1>9. Held(slots, None, again, now + 1, n)
  BY <1>6, <1>7, <1>8 DEF Held, new
<1>10. QED BY <1>9 DEF n

-----------------------------------------------------------------------------
(* The strengthening.                                                      *)

Slots ==
    /\ Held(reads, reading, open, generation, used.starts)
    /\ Held(refreshes, forgejo, open, generation, used.starts)

\* The command's process may still write.
Writing == mutation # None /\ mutation.phase = "native" /\ mutation.landed = 0
           /\ view.operation \in Forms

\* Each write to come has its own request.
Clock ==
    /\ IsFiniteSet(orphans)
    /\ used.clock + Cardinality(orphans) + (IF Writing THEN 1 ELSE 0)
         <= used.requests + used.changes

TypeInv == TypeOK /\ Slots /\ Clock /\ (mutation # None => open /\ view.operation # None)

\* A command waits for the read that load joins; when it is released there is
\* none, so that it reads back what its own write left.
Waits ==
    /\ \A i \in ReadSlots : reads[i] # None /\ reads[i].waits # None => reads[i].phase = "sync"
    /\ mutation # None =>
         /\ mutation.waits # None => mutation.phase \in {"await", "readback"}
         /\ mutation.phase \in {"await", "readback"} => mutation.waits = reading /\ reading # None
         /\ mutation.phase = "released" => reading = None
         /\ mutation.phase = "readback" =>
              reads[reading].revision = revision /\ reads[reading].phase # "sync"

Before == {"native", "await", "released", "readback"}

\* Until it has been read back the written preference shows the draft.
Drafts ==
    mutation # None /\ view.operation \in Forms =>
      /\ mutation.phase \in Before =>
           /\ view.draft[view.operation] = Chosen
           /\ mutation.phase # "readback" => view.dirty[view.operation]
      /\ mutation.landed <= host.prefs[view.operation]

\* The host only moves on, and a read of the last revision that has been
\* answered was answered after every write that was reported as saved.
Samples ==
    /\ \A f \in Forms : host.prefs[f] <= used.clock
    /\ open => \A f \in Forms : written[f] <= host.prefs[f]
    /\ open => \A i \in ReadSlots : reads[i] # None /\ reads[i].generation = generation =>
         /\ reads[i].revision <= revision
         /\ reads[i].revision = revision /\ reads[i].phase = "answer" =>
              \A f \in Forms : written[f] <= reads[i].prefs[f]

Fresh(f) ==
    /\ view.snapshot # None => view.snapshot.prefs[f] >= written[f]
    /\ ~view.dirty[f] /\ view.draft[f] # Chosen => view.draft[f] >= written[f]

Shows ==
    open => \A f \in Forms :
      \/ Fresh(f)
      \/ view.operation = f /\ mutation # None /\ mutation.phase \in Before \ {"native"}

-----------------------------------------------------------------------------
(* Types.                                                                  *)

LEMMA LoadType ==
  ASSUME TypeOK, Slots, open, Load
  PROVE  /\ reads' \in [ReadSlots -> Reads \cup {None}]
         /\ reading' \in ReadSlots /\ reads'[reading'] # None
         /\ \A i \in ReadSlots : reads[i] # None => reads'[i] = reads[i]
         /\ \A i \in ReadSlots :
              reads'[i] = reads[i] \/ (i = reading' /\ reads'[i] = NewRead(generation, revision))
         /\ Held(reads', reading', open, generation, used.starts)
<1>1. CASE reading # None
  BY <1>1 DEF Load, TypeOK, Slots, Held
<1>2. CASE reading = None
  <2>1. used.starts \in Nat /\ used.starts <= MaxStarts /\ DOMAIN reads = ReadSlots
    BY DEF TypeOK
  <2>2. reading' = Free(reads) /\ Free(reads) \in ReadSlots /\ reads[Free(reads)] = None
    BY <1>2, <2>1, FreeSlot DEF Load, Slots, TypeOK
  <2>3. NewRead(generation, revision) \in Reads
    <3>1. 0 \in Changes
      BY DEF Changes
    <3>2. QED BY <3>1 DEF TypeOK, NewRead, Reads
  <2>4. reads' = [reads EXCEPT ![reading'] = NewRead(generation, revision)]
    BY <1>2 DEF Load
  <2>5. /\ NewRead(generation, revision) # None
        /\ NewRead(generation, revision).generation = generation
    BY <2>3 DEF NewRead
  <2>6. Held(reads', reading', open, generation, used.starts)
    BY <1>2, <2>1, <2>2, <2>4, <2>5, HeldBegun DEF Slots, TypeOK
  <2>7. QED BY <2>2, <2>3, <2>4, <2>5, <2>6 DEF TypeOK
<1>3. QED BY <1>1, <1>2

LEMMA RefreshType ==
  ASSUME TypeOK, Slots, open, RefreshForgejo
  PROVE  /\ refreshes' \in [RefreshSlots -> Refreshes \cup {None}]
         /\ forgejo' \in RefreshSlots /\ refreshes'[forgejo'] # None
         /\ \A i \in RefreshSlots : refreshes[i] # None => refreshes'[i] = refreshes[i]
         /\ Held(refreshes', forgejo', open, generation, used.starts)
<1> DEFINE new == [generation |-> generation, identity |-> host.identity]
<1>0. RefreshSlots = ReadSlots
  BY DEF RefreshSlots, ReadSlots
<1>1. CASE forgejo # None
  BY <1>0, <1>1 DEF RefreshForgejo, TypeOK, Slots, Held
<1>2. CASE forgejo = None
  <2>1. used.starts \in Nat /\ used.starts <= MaxStarts /\ DOMAIN refreshes = ReadSlots
    BY <1>0 DEF TypeOK
  <2>2. /\ forgejo' = Free(refreshes)
        /\ Free(refreshes) \in ReadSlots
        /\ refreshes[Free(refreshes)] = None
    BY <1>2, <2>1, FreeSlot DEF RefreshForgejo, Slots, TypeOK
  <2>3. new \in Refreshes
    BY DEF TypeOK, Refreshes, Snapshots
  <2>4. refreshes' = [refreshes EXCEPT ![forgejo'] = new]
    BY <1>2 DEF RefreshForgejo
  <2>5. new # None /\ new.generation = generation
    BY <2>3
  <2> HIDE DEF new
  <2>6. Held(refreshes', forgejo', open, generation, used.starts)
    BY <1>2, <2>1, <2>2, <2>4, <2>5, HeldBegun DEF Slots, TypeOK
  <2>7. QED BY <1>0, <2>2, <2>3, <2>4, <2>5, <2>6 DEF TypeOK
<1>3. QED BY <1>1, <1>2

\* Whoever waits for a promise waits for an unsettled one.
AwaitsUnsettled(command, slots) ==
    command # None /\ command.waits # None => slots[command.waits] # None

LEMMA SettleType ==
  ASSUME TypeOK, Slots, NEW ids \in SUBSET ReadSlots, NEW command \in Mutations \cup {None},
         AwaitsUnsettled(command, reads), Settle(ids, command)
  PROVE  /\ reads' \in [ReadSlots -> Reads \cup {None}]
         /\ \A i \in ReadSlots : reads'[i] = None \/ (reads'[i] = reads[i] /\ i \notin ids)
         /\ reading' \in ReadSlots \cup {None}
         /\ observer' \in ReadSlots \cup {Timer, None}
         /\ observer' \in ReadSlots => reads'[observer'] # None
         /\ mutation' \in Mutations \cup {None}
         /\ AwaitsUnsettled(mutation', reads')
         /\ command = None => mutation' = None
         /\ Held(reads', reading', open, generation, used.starts)
<1>1. /\ reads' \in [ReadSlots -> Reads \cup {None}]
      /\ \A i \in ReadSlots : reads'[i] = IF i \in ids THEN None ELSE reads[i]
  BY DEF Settle, TypeOK
<1>2. reading' \in ReadSlots \cup {None} /\ (reading' = reading \/ reading' = None)
  BY DEF Settle, Forgotten, TypeOK
<1>3. /\ observer' \in ReadSlots \cup {Timer, None}
      /\ (observer' \in ReadSlots => reads'[observer'] # None)
  <2>1. Timer \notin ReadSlots
    BY DEF ReadSlots
  <2>2. QED BY <1>1, <2>1 DEF Settle, TypeOK
<1>4. /\ mutation' \in Mutations \cup {None} /\ AwaitsUnsettled(mutation', reads')
      /\ command = None => mutation' = None
  <2>1. CASE command # None /\ command.waits \in ids
    <3>1. mutation' = [command EXCEPT !.phase = IF @ = "await" THEN "released" ELSE "readagain",
                                      !.waits = None]
      BY <2>1 DEF Settle
    <3>2. mutation' \in Mutations /\ mutation'.waits = None
      BY <3>1, <2>1 DEF Mutations
    <3>3. QED BY <3>2, <2>1 DEF AwaitsUnsettled
  <2>2. CASE ~(command # None /\ command.waits \in ids)
    <3>1. mutation' = command
      BY <2>2 DEF Settle
    <3>2. command # None => command.waits \in ReadSlots \cup {None}
      BY DEF Mutations
    <3>3. QED BY <3>1, <3>2, <2>2, <1>1 DEF AwaitsUnsettled
  <2>3. QED BY <2>1, <2>2
<1>5. Held(reads', reading', open, generation, used.starts)
  <2>1. used.starts \in Nat /\ open \in BOOLEAN /\ generation \in Nat
    BY DEF TypeOK
  <2>2. \A i \in ReadSlots :
          reads'[i] # None => reads[i] # None /\ reads'[i].generation = reads[i].generation
    BY <1>1
  <2>3. \/ reading' = reading /\ (reading # None => reads'[reading] # None)
        \/ reading' = None /\ (reading # None => reads'[reading] = None)
    BY <1>1 DEF Settle, Forgotten, TypeOK, Slots, Held
  <2>4. QED BY <2>1, <2>2, <2>3, HeldSettled DEF Slots
<1>6. QED BY <1>1, <1>2, <1>3, <1>4, <1>5

LEMMA SyncType ==
  ASSUME TypeOK, Slots, open, NEW shown \in Views, SyncForgejo(shown)
  PROVE  /\ view' \in Views
         /\ refreshes' \in [RefreshSlots -> Refreshes \cup {None}]
         /\ forgejo' \in RefreshSlots \cup {None}
         /\ \A i \in RefreshSlots : refreshes[i] # None => refreshes'[i] = refreshes[i]
         /\ Held(refreshes', forgejo', open, generation, used.starts)
         /\ attempted' \in BOOLEAN
         /\ Connected(shown.snapshot) /\ shown.snapshot.identity # shown.identity =>
              forgejo' \in RefreshSlots /\ refreshes'[forgejo'] # None
         /\ view' = [shown EXCEPT !.identity = view'.identity]
<1>1. CASE Connected(shown.snapshot) /\ shown.snapshot.identity # shown.identity
  <2>1. view' = [shown EXCEPT !.identity = shown.snapshot.identity]
    BY <1>1 DEF SyncForgejo
  <2>2. shown.snapshot.identity \in Identities
    BY <1>1 DEF Views, Snapshots, Connected
  <2>3. view' \in Views /\ view' = [shown EXCEPT !.identity = view'.identity]
    BY <2>1, <2>2 DEF Views
  <2>4. RefreshForgejo /\ attempted' \in BOOLEAN
    BY <1>1 DEF SyncForgejo, Begun
  <2>5. QED BY <2>3, <2>4, RefreshType
<1>2. CASE ~(Connected(shown.snapshot) /\ shown.snapshot.identity # shown.identity)
  <2>1. /\ view' = [shown EXCEPT !.identity = IF Connected(shown.snapshot) THEN @ ELSE None]
        /\ UNCHANGED <<forgejo, refreshes, attempted>>
    BY <1>2 DEF SyncForgejo
  <2>2. view' \in Views /\ view' = [shown EXCEPT !.identity = view'.identity]
    BY <2>1 DEF Views
  <2>3. QED BY <1>2, <2>1, <2>2 DEF TypeOK, Slots
<1>3. QED BY <1>1, <1>2
-----------------------------------------------------------------------------
RunningOpen == mutation # None => open /\ view.operation # None

LEMMA Numbers ==
  ASSUME TypeOK
  PROVE  /\ used.starts \in Nat /\ used.starts <= MaxStarts
         /\ used.requests \in Nat /\ used.requests <= MaxRequests
         /\ used.changes \in Nat /\ used.changes <= MaxChanges
         /\ used.clock \in Nat /\ used.clock <= MaxRequests + MaxChanges
  BY DEF TypeOK, Changes

LEMMA InitTypeInv == Init => TypeInv
<1> SUFFICES ASSUME Init PROVE TypeInv
  OBVIOUS
<1> USE DEF Init
<1>1. 0 \in Changes /\ 0 \in 0 .. MaxStarts /\ 0 \in 0 .. MaxRequests /\ 0 \in 0 .. MaxChanges
  BY DEF Changes
<1>2. host \in Snapshots /\ view \in Views
  BY <1>1 DEF Snapshots, Views, InitialView, Operations
<1>3. TypeOK
  <2>1. used \in [starts: 0 .. MaxStarts, requests: 0 .. MaxRequests,
                  changes: 0 .. MaxChanges, clock: Changes]
    BY <1>1
  <2>2. observer \in ReadSlots \cup {Timer, None} /\ observer \notin ReadSlots
    BY SlotNames
  <2>3. written \in [Forms -> Changes]
    BY <1>1
  <2>4. QED BY <1>2, <2>1, <2>2, <2>3 DEF TypeOK
<1>4. Left(reads, open, generation) = {} /\ Left(refreshes, open, generation) = {}
  BY DEF Left, ReadSlots, RefreshSlots
<1>5. Slots
  <2>1. \A i \in ReadSlots : reads[i] = None /\ refreshes[i] = None
    BY DEF ReadSlots, RefreshSlots
  <2>2. /\ Cardinality(Left(reads, open, generation)) = 0
        /\ Cardinality(Left(refreshes, open, generation)) = 0
    BY <1>4, FS_EmptySet
  <2>3. used.starts = 0 /\ open = FALSE
    OBVIOUS
  <2>4. QED BY <2>1, <2>2, <2>3 DEF Slots, Held
<1>6. Clock
  BY FS_EmptySet DEF Clock, Writing
<1>7. QED BY <1>3, <1>5, <1>6 DEF TypeInv

\* A write that is abandoned is counted among those to come.
LEMMA AbandonedType ==
  ASSUME TypeInv, orphans' = Abandoned
  PROVE  /\ orphans' \subseteq Forms /\ IsFiniteSet(orphans')
         /\ used.clock + Cardinality(orphans') <= used.requests + used.changes
<1>1. IsFiniteSet(orphans) /\ Cardinality(orphans) \in Nat
  BY FS_CardinalityType DEF TypeInv, Clock
<1>2. CASE Writing
  <2>1. orphans' = orphans \cup {view.operation} /\ view.operation \in Forms
    BY <1>2 DEF Abandoned, Writing
  <2> DEFINE more == orphans \cup {view.operation}
  <2>2. /\ IsFiniteSet(more)
        /\ Cardinality(more) \in Nat
        /\ Cardinality(more) <= Cardinality(orphans) + 1
    BY <1>1, OneMore
  <2>3. QED BY <1>1, <1>2, <2>1, <2>2, Numbers DEF TypeInv, Clock, TypeOK
<1>3. CASE ~Writing
  BY <1>1, <1>3, Numbers DEF Abandoned, Writing, TypeInv, Clock, TypeOK
<1>4. QED BY <1>2, <1>3

LEMMA ViewTypes ==
  /\ InitialView \in Views
  /\ \A v \in Views, f \in Forms :
       /\ [v EXCEPT !.draft[f] = Chosen, !.dirty[f] = TRUE, !.saved = None] \in Views
       /\ [v EXCEPT !.operation = f, !.saved = None, !.dirty[f] = TRUE,
                     !.draft[f] = Chosen] \in Views
       /\ [v EXCEPT !.saved = f, !.dirty[f] = FALSE] \in Views
  /\ \A v \in Views, o \in Operations :
       [v EXCEPT !.operation = o] \in Views /\ [v EXCEPT !.operation = o, !.saved = None] \in Views
  /\ \A v \in Views : [v EXCEPT !.snapshot = None] \in Views
  /\ Command \in Mutations /\ [Command EXCEPT !.phase = "retry"] \in Mutations
<1>1. 0 \in Changes
  BY DEF Changes
<1>2. InitialView \in Views
  BY <1>1 DEF Views, InitialView, Operations
<1>3. Command \in Mutations /\ [Command EXCEPT !.phase = "retry"] \in Mutations
  BY <1>1 DEF Command, Mutations
<1>4. ASSUME NEW v \in Views
      PROVE  /\ [v EXCEPT !.snapshot = None] \in Views
             /\ \A o \in Operations : /\ [v EXCEPT !.operation = o] \in Views
                                     /\ [v EXCEPT !.operation = o, !.saved = None] \in Views
  BY DEF Views
<1>5. ASSUME NEW v \in Views, NEW f \in Forms
      PROVE  /\ [v EXCEPT !.draft[f] = Chosen, !.dirty[f] = TRUE, !.saved = None] \in Views
             /\ [v EXCEPT !.operation = f, !.saved = None, !.dirty[f] = TRUE,
                          !.draft[f] = Chosen] \in Views
             /\ [v EXCEPT !.saved = f, !.dirty[f] = FALSE] \in Views
  <2>1. /\ [v.draft EXCEPT ![f] = Chosen] \in [Forms -> Changes \cup {Chosen}]
        /\ [v.dirty EXCEPT ![f] = TRUE] \in [Forms -> BOOLEAN]
        /\ [v.dirty EXCEPT ![f] = FALSE] \in [Forms -> BOOLEAN]
        /\ f \in Operations
    BY DEF Views, Operations
  <2>2. QED BY <2>1 DEF Views
<1>6. QED BY <1>2, <1>3, <1>4, <1>5

LEMMA StartType == ASSUME TypeInv, Start PROVE TypeInv'
<1>0. TypeOK /\ Slots /\ Clock
  BY DEF TypeInv
<1> USE <1>0
<1>1. /\ open' = TRUE /\ generation' = generation + 1 /\ generation' \in Nat
      /\ used' \in [starts: 0 .. MaxStarts, requests: 0 .. MaxRequests,
                    changes: 0 .. MaxChanges, clock: Changes]
      /\ used'.starts = used.starts + 1 /\ used'.clock = used.clock
      /\ used'.requests = used.requests /\ used'.changes = used.changes
  BY DEF Start, TypeOK
<1>2. used.starts \in Nat /\ used.starts < MaxStarts /\ open \in BOOLEAN /\ generation \in Nat
  BY DEF Start, TypeOK
<1>3. /\ \A i \in ReadSlots : reads[i] # None => reads[i].generation \in Nat
      /\ \A i \in ReadSlots : refreshes[i] # None => refreshes[i].generation \in Nat
      /\ DOMAIN reads = ReadSlots
  BY DEF TypeOK, Reads, Refreshes, ReadSlots, RefreshSlots
<1>4. /\ Held(reads, None, TRUE, generation', used'.starts)
      /\ Held(refreshes, None, TRUE, generation', used'.starts)
  <2>1. Held(reads, None, TRUE, generation + 1, used.starts + 1)
    BY <1>2, <1>3, HeldOpened DEF Slots
  <2>2. Held(refreshes, None, TRUE, generation + 1, used.starts + 1)
    BY <1>2, <1>3, HeldOpened DEF Slots
  <2>3. QED BY <1>1, <2>1, <2>2
<1>5. reading' = Free(reads) /\ Free(reads) \in ReadSlots /\ reads[Free(reads)] = None
  BY <1>2, <1>3, FreeSlot DEF Slots, Start
<1>6. NewRead(generation', 0) \in Reads /\ NewRead(generation', 0).generation = generation'
  <2>1. 0 \in Changes
    BY DEF Changes
  <2>2. QED BY <2>1, <1>1 DEF NewRead, Reads
<1>7. reads' = [reads EXCEPT ![reading'] = NewRead(generation', 0)]
  BY DEF Start
<1>8. Held(reads', reading', TRUE, generation', used'.starts)
  <2> DEFINE new == NewRead(generation', 0)
  <2>1. new # None /\ new.generation = generation'
    BY <1>6
  <2> HIDE DEF new
  <2>2. used'.starts \in Nat
    BY <1>1, <1>2
  <2>3. Held([reads EXCEPT ![Free(reads)] = new], Free(reads), TRUE, generation', used'.starts)
    BY <1>1, <1>3, <1>4, <1>5, <2>1, <2>2, HeldBegun
  <2>4. QED BY <1>5, <1>7, <2>3 DEF new
<1>9. Slots'
  BY <1>1, <1>4, <1>8 DEF Slots, Start
<1>10. orphans' \subseteq Forms /\ Clock' /\ mutation' = None
  <2>1. orphans' = Abandoned /\ mutation' = None
    BY DEF Start
  <2>2. /\ orphans' \subseteq Forms /\ IsFiniteSet(orphans') /\ Cardinality(orphans') \in Nat
        /\ used.clock + Cardinality(orphans') <= used.requests + used.changes
    BY <2>1, AbandonedType, FS_CardinalityType
  <2>3. ~Writing'
    BY <2>1 DEF Writing
  <2>4. QED BY <1>1, <2>1, <2>2, <2>3, Numbers DEF Clock
<1>11. /\ reads' \in [ReadSlots -> Reads \cup {None}] /\ reads'[reading'] # None
       /\ \A i \in ReadSlots : i # reading' => reads'[i] = reads[i]
       /\ reads'[reading'].waits = None
  BY <1>5, <1>6, <1>7 DEF TypeOK, NewRead
<1>12. 0 \in Changes /\ written' = [f \in Forms |-> 0] /\ attempted' = FALSE /\ view' = InitialView
  BY DEF Start, Changes
<1>13. TypeOK'
  <2>1. observer' = reading' /\ reading' \in ReadSlots /\ forgejo' = None
    BY <1>5 DEF Start
  <2>2. revision' = 0 /\ host' = host /\ refreshes' = refreshes
    BY DEF Start
  <2>3. \A i \in ReadSlots : reads'[i] # None /\ reads'[i].waits # None =>
          refreshes'[reads'[i].waits] # None
    BY <1>11, <2>2 DEF TypeOK
  <2>4. written' \in [Forms -> Changes] /\ view' \in Views
    BY <1>12, ViewTypes
  <2>5. QED BY <1>1, <1>10, <1>11, <1>12, <2>1, <2>2, <2>3, <2>4 DEF TypeOK
<1>14. QED BY <1>9, <1>10, <1>13 DEF TypeInv

LEMMA StopType == ASSUME TypeInv, Stop PROVE TypeInv'
<1>0. TypeOK /\ Slots /\ Clock
  BY DEF TypeInv
<1> USE <1>0
<1>1. open \in BOOLEAN /\ generation \in Nat /\ used.starts \in Nat /\ open
  BY DEF Stop, TypeOK
<1>2. /\ \A i \in ReadSlots : reads[i] # None => reads[i].generation \in Nat
      /\ \A i \in ReadSlots : refreshes[i] # None => refreshes[i].generation \in Nat
  BY DEF TypeOK, Reads, Refreshes, ReadSlots, RefreshSlots
<1>3. /\ Held(reads, None, FALSE, generation + 1, used.starts)
      /\ Held(refreshes, None, FALSE, generation + 1, used.starts)
  BY <1>1, <1>2, HeldOpened DEF Slots
<1>4. Slots'
  BY <1>3 DEF Slots, Stop
<1>5. orphans' \subseteq Forms /\ Clock'
  <2>1. orphans' = Abandoned /\ mutation' = None /\ used' = used
    BY DEF Stop
  <2>2. /\ orphans' \subseteq Forms /\ IsFiniteSet(orphans') /\ Cardinality(orphans') \in Nat
        /\ used.clock + Cardinality(orphans') <= used.requests + used.changes
    BY <2>1, AbandonedType, FS_CardinalityType
  <2>3. ~Writing'
    BY <2>1 DEF Writing
  <2>4. QED BY <2>1, <2>2, <2>3, Numbers DEF Clock
<1>6. view' \in Views /\ observer' = None /\ observer' \notin ReadSlots /\ mutation' = None
  BY ViewTypes, SlotNames DEF Stop
<1>7. TypeOK'
  <2>1. /\ UNCHANGED <<host, used, revision, reads, refreshes, written, attempted>>
        /\ open' = FALSE /\ generation' = generation + 1 /\ reading' = None /\ forgejo' = None
    BY DEF Stop
  <2>2. generation' \in Nat
    BY <1>1, <2>1
  <2>3. open' \in BOOLEAN
    BY <2>1, Zenon
  <2>4. QED BY <1>5, <1>6, <2>1, <2>2, <2>3 DEF TypeOK
<1>8. QED BY <1>4, <1>5, <1>6, <1>7 DEF TypeInv

LEMMA TimerType == ASSUME TypeInv, TimerFires PROVE TypeInv'
<1>0. TypeOK /\ Slots /\ Clock /\ Load /\ open
  BY DEF TypeInv, TimerFires
<1> USE <1>0
<1>1. observer' = reading'
      /\ UNCHANGED <<host, used, open, generation, revision, forgejo, view, mutation,
                     refreshes, orphans, written, attempted>>
  BY DEF TimerFires
<1>2. Slots' /\ Clock' /\ reading' \in ReadSlots
  BY <1>1, LoadType DEF Slots, Clock, Writing
<1>3. AwaitsUnsettled(mutation', reads')
  BY <1>1, LoadType DEF TypeOK, AwaitsUnsettled, Mutations
<1>4. \A i \in ReadSlots : reads'[i] # None /\ reads'[i].waits # None =>
        refreshes[reads'[i].waits] # None
  <2>1. \A i \in ReadSlots : reads'[i] = reads[i] \/ reads'[i] = NewRead(generation, revision)
    BY LoadType
  <2>2. NewRead(generation, revision).waits = None
    BY DEF NewRead
  <2>3. QED BY <2>1, <2>2 DEF TypeOK
<1>5. TypeOK'
  BY <1>1, <1>2, <1>3, <1>4, LoadType DEF TypeOK, AwaitsUnsettled
<1>6. QED BY <1>1, <1>2, <1>5 DEF TypeInv

LEMMA EditType == ASSUME TypeInv, NEW f \in Forms, Edit(f) PROVE TypeInv'
<1>0. TypeOK /\ Slots /\ Clock
  BY DEF TypeInv
<1>1. /\ UNCHANGED <<host, used, open, generation, revision, reading, forgejo, tasks,
                     orphans, written, attempted>>
      /\ view' = [view EXCEPT !.draft[f] = Chosen, !.dirty[f] = TRUE, !.saved = None]
  BY DEF Edit
<1>2. view' \in Views /\ view'.operation = view.operation
  <2>1. view' \in Views
    BY <1>0, <1>1, ViewTypes DEF TypeOK
  <2>2. view'.operation = view.operation
    BY <1>0, <1>1 DEF TypeOK, Views
  <2>3. QED BY <2>1, <2>2
<1>3. TypeOK' /\ Slots'
  BY <1>0, <1>1, <1>2 DEF TypeOK, Slots, tasks
<1>4. Clock'
  BY <1>0, <1>1, <1>2 DEF Clock, Writing, tasks
<1>5. QED BY <1>1, <1>2, <1>3, <1>4 DEF TypeInv, tasks

\* A command begins: its write has a request of its own.
LEMMA CommandType ==
  ASSUME TypeInv, Request, view' \in Views, view'.operation # None,
         revision' \in Nat, attempted' \in BOOLEAN,
         UNCHANGED <<host, open, generation, reading, observer, reads, orphans, written>>,
         \/ mutation' = Command
         \/ mutation' = [Command EXCEPT !.phase = "retry"],
         refreshes' \in [RefreshSlots -> Refreshes \cup {None}],
         forgejo' \in RefreshSlots \cup {None},
         \A i \in RefreshSlots : refreshes[i] # None => refreshes'[i] = refreshes[i],
         Held(refreshes', forgejo', open, generation, used.starts)
  PROVE  TypeInv'
<1>0. TypeOK /\ Slots /\ Clock
  BY DEF TypeInv
<1>1. /\ used' = [used EXCEPT !.requests = @ + 1] /\ used.requests < MaxRequests
      /\ open /\ view.operation = None
  BY DEF Request
<1>2. /\ used' \in [starts: 0 .. MaxStarts, requests: 0 .. MaxRequests,
                    changes: 0 .. MaxChanges, clock: Changes]
      /\ used'.starts = used.starts /\ used'.clock = used.clock
      /\ used'.requests = used.requests + 1 /\ used'.changes = used.changes
  BY <1>0, <1>1 DEF TypeOK
<1>3. mutation' \in Mutations /\ mutation'.waits = None
  <2>1. mutation' \in Mutations
    BY ViewTypes
  <2>2. mutation'.waits = None
    BY DEF Command
  <2>3. QED BY <2>1, <2>2
<1>4. Slots'
  BY <1>0, <1>2 DEF Slots
<1>5. Clock'
  <2>1. ~Writing
    BY <1>1 DEF Writing
  <2>2. Cardinality(orphans) \in Nat
    BY <1>0, FS_CardinalityType DEF Clock
  <2>3. used.clock + Cardinality(orphans) <= used.requests + used.changes
    BY <1>0, <2>1, <2>2, Numbers DEF Clock
  <2>4. QED BY <1>0, <1>2, <2>2, <2>3, Numbers DEF Clock
<1>6. \A i \in ReadSlots : reads[i] # None /\ reads[i].waits # None =>
        refreshes'[reads[i].waits] # None
  BY <1>0 DEF TypeOK, Reads
<1>7. TypeOK'
  BY <1>0, <1>2, <1>3, <1>6 DEF TypeOK
<1>8. QED BY <1>1, <1>4, <1>5, <1>7 DEF TypeInv

LEMMA ApplyType == ASSUME TypeInv, NEW f \in Forms, Apply(f) PROVE TypeInv'
<1>1. TypeOK /\ Slots /\ f # None
  BY DEF TypeInv
<1>2. /\ view' = [view EXCEPT !.operation = f, !.saved = None, !.dirty[f] = TRUE,
                              !.draft[f] = Chosen]
      /\ Request /\ mutation' = Command /\ revision' = revision + 1
      /\ UNCHANGED <<host, open, generation, reading, forgejo, observer, reads, refreshes,
                     orphans, written, attempted>>
  BY DEF Apply
<1>3. view' \in Views /\ view'.operation = f
  BY <1>1, <1>2, ViewTypes DEF TypeOK, Views
<1>4. QED BY <1>1, <1>2, <1>3, CommandType DEF TypeOK, Slots

LEMMA SignInType == ASSUME TypeInv, SignIn PROVE TypeInv'
<1>1. TypeOK /\ Slots
  BY DEF TypeInv
<1>2. /\ view' = [view EXCEPT !.operation = "signin", !.saved = None]
      /\ Request /\ mutation' = Command
      /\ UNCHANGED <<host, open, generation, revision, reading, forgejo, observer, reads,
                     refreshes, orphans, written, attempted>>
  BY DEF SignIn
<1>3. view' \in Views /\ view'.operation = "signin"
  BY <1>1, <1>2, ViewTypes DEF TypeOK, Views, Operations
<1>4. "signin" # None
  OBVIOUS
<1>5. QED BY <1>1, <1>2, <1>3, <1>4, CommandType DEF TypeOK, Slots

LEMMA RetryType == ASSUME TypeInv, RetryForgejo PROVE TypeInv'
<1>1. TypeOK /\ Slots /\ open
  BY DEF TypeInv, RetryForgejo, Request
<1>2. /\ view' = [view EXCEPT !.operation = "forgejo"]
      /\ Request /\ mutation' = [Command EXCEPT !.phase = "retry"] /\ RefreshForgejo
      /\ UNCHANGED <<host, open, generation, revision, reading, observer, reads, orphans,
                     written>>
  BY DEF RetryForgejo
<1>3. view' \in Views /\ view'.operation = "forgejo"
  BY <1>1, <1>2, ViewTypes DEF TypeOK, Views, Operations
<1>4. "forgejo" # None
  OBVIOUS
<1>5. attempted' \in BOOLEAN
  BY Zenon DEF RetryForgejo
<1>6. QED BY <1>1, <1>2, <1>3, <1>4, <1>5, RefreshType, CommandType DEF TypeOK

LEMMA EndsType == ASSUME TypeInv, NEW done \in BOOLEAN, CommandEnds(done) PROVE TypeInv'
<1>0. TypeOK /\ Slots /\ Clock
  BY DEF TypeInv
<1>1. /\ mutation # None /\ mutation.phase = "native" /\ mutation \in Mutations
      /\ mutation' = [mutation EXCEPT !.done = done, !.waits = reading,
                                      !.phase = IF reading = None THEN "released" ELSE "await"]
      /\ revision' = RetireReads
      /\ written' = IF done /\ view.operation \in Forms
                    THEN [written EXCEPT ![view.operation] = mutation.landed] ELSE written
      /\ UNCHANGED <<host, orphans, used, open, generation, reading, forgejo, view, observer,
                     reads, refreshes, attempted>>
  BY <1>0 DEF CommandEnds, Awaited, native, TypeOK
<1>2. /\ mutation' \in Mutations /\ mutation'.waits = reading
      /\ mutation'.phase \in {"released", "await"}
  BY <1>0, <1>1 DEF TypeOK, Mutations
<1>3. revision' \in Nat /\ written' \in [Forms -> Changes]
  BY <1>0, <1>1 DEF TypeOK, RetireReads, Mutations
<1>4. reading # None => reads[reading] # None
  BY <1>0 DEF Slots, Held
<1>5. TypeOK' /\ Slots'
  BY <1>0, <1>1, <1>2, <1>3, <1>4 DEF TypeOK, Slots
<1>6. Clock'
  <2>1. ~Writing' /\ used' = used /\ orphans' = orphans /\ Cardinality(orphans) \in Nat
    BY <1>0, <1>1, <1>2, FS_CardinalityType DEF Writing, Clock
  <2>2. QED BY <1>0, <2>1, Numbers DEF Clock
<1>7. QED BY <1>1, <1>5, <1>6 DEF TypeInv

LEMMA ReadBackType == ASSUME TypeInv, ReadBack PROVE TypeInv'
<1>0. TypeOK /\ Slots /\ Clock /\ open /\ mutation # None /\ mutation \in Mutations /\ Load
  BY DEF TypeInv, ReadBack, TypeOK
<1>1. /\ mutation.phase = "released"
      /\ view' = Saved(mutation.done)
      /\ mutation' = [mutation EXCEPT !.phase = "readback", !.waits = reading']
      /\ UNCHANGED <<host, orphans, used, open, generation, revision, forgejo, observer,
                     refreshes, written, attempted>>
  BY DEF ReadBack, native
<1>2. view' \in Views /\ view'.operation = view.operation
  <2>1. CASE mutation.done /\ view.operation \in Forms
    <3>1. view' = [view EXCEPT !.saved = view.operation, !.dirty[view.operation] = FALSE]
      BY <1>1, <2>1 DEF Saved
    <3>2. view' \in Views
      BY <1>0, <2>1, <3>1, ViewTypes DEF TypeOK
    <3>3. view'.operation = view.operation
      BY <1>0, <3>1 DEF TypeOK, Views
    <3>4. QED BY <3>2, <3>3
  <2>2. CASE ~(mutation.done /\ view.operation \in Forms)
    BY <1>0, <1>1, <2>2 DEF Saved, TypeOK
  <2>3. QED BY <2>1, <2>2
<1>3. mutation' \in Mutations /\ mutation'.waits = reading' /\ mutation'.phase = "readback"
  BY <1>0, <1>1, LoadType DEF Mutations
<1>4. \A i \in ReadSlots : reads'[i] # None /\ reads'[i].waits # None =>
        refreshes[reads'[i].waits] # None
  <2>1. \A i \in ReadSlots : reads'[i] = reads[i] \/ reads'[i] = NewRead(generation, revision)
    BY <1>0, LoadType
  <2>2. NewRead(generation, revision).waits = None
    BY DEF NewRead
  <2>3. QED BY <1>0, <2>1, <2>2 DEF TypeOK
<1>5. observer \in ReadSlots => reads'[observer] # None
  BY <1>0, LoadType DEF TypeOK
<1>6. TypeOK' /\ Slots'
  BY <1>0, <1>1, <1>2, <1>3, <1>4, <1>5, LoadType DEF TypeOK, Slots
<1>7. Clock'
  <2>1. ~Writing' /\ used' = used /\ orphans' = orphans /\ Cardinality(orphans) \in Nat
    BY <1>0, <1>1, <1>3, FS_CardinalityType DEF Writing, Clock
  <2>2. QED BY <1>0, <2>1, Numbers DEF Clock
<1>8. QED BY <1>0, <1>1, <1>2, <1>6, <1>7 DEF TypeInv

\* The clock while no write is in progress before and after a step.
LEMMA ClockStays ==
  ASSUME TypeInv, UNCHANGED <<used, orphans>>, Writing' => Writing
  PROVE  Clock'
<1>1. Cardinality(orphans) \in Nat
  BY FS_CardinalityType DEF TypeInv, Clock
<1>2. QED BY <1>1, Numbers DEF TypeInv, Clock

LEMMA EndOperationType == ASSUME TypeInv, EndOperation PROVE TypeInv'
<1>0. TypeOK /\ Slots /\ Clock /\ open
  BY DEF TypeInv, EndOperation
<1>1. /\ mutation' = None
      /\ SyncForgejo([view EXCEPT !.operation = None])
      /\ UNCHANGED <<host, orphans, used, open, generation, revision, reading, observer, reads,
                     written>>
  BY DEF EndOperation, native
<1>2. [view EXCEPT !.operation = None] \in Views
  BY <1>0, ViewTypes DEF TypeOK, Operations
<1>3. /\ view' \in Views
      /\ refreshes' \in [RefreshSlots -> Refreshes \cup {None}]
      /\ forgejo' \in RefreshSlots \cup {None}
      /\ \A i \in RefreshSlots : refreshes[i] # None => refreshes'[i] = refreshes[i]
      /\ Held(refreshes', forgejo', open, generation, used.starts)
      /\ attempted' \in BOOLEAN
  BY <1>0, <1>1, <1>2, SyncType
<1>4. \A i \in ReadSlots : reads[i] # None /\ reads[i].waits # None =>
        refreshes'[reads[i].waits] # None
  BY <1>0, <1>3 DEF TypeOK, Reads
<1>5. TypeOK' /\ Slots'
  BY <1>0, <1>1, <1>3, <1>4 DEF TypeOK, Slots
<1>6. Clock'
  BY <1>1, ClockStays DEF Writing
<1>7. QED BY <1>1, <1>5, <1>6 DEF TypeInv

LEMMA SampleType == ASSUME TypeInv, NEW i \in ReadSlots, Sample(i) PROVE TypeInv'
<1>0. TypeOK /\ Slots /\ Clock
  BY DEF TypeInv
<1>1. /\ reads[i] # None /\ reads[i] \in Reads
      /\ UNCHANGED <<host, orphans, used, open, generation, revision, reading, forgejo, view,
                     observer, mutation, refreshes, written, attempted>>
  BY <1>0 DEF Sample, native, TypeOK
<1> DEFINE r == IF reads[i].phase = "status"
                THEN [reads[i] EXCEPT !.phase = "prefs", !.identity = host.identity]
                ELSE [reads[i] EXCEPT !.phase = "answer", !.prefs = host.prefs]
<1>2. reads' = [reads EXCEPT ![i] = r]
  BY DEF Sample
<1>3. r \in Reads /\ r.generation = reads[i].generation /\ r.waits = reads[i].waits
  BY <1>0, <1>1 DEF TypeOK, Snapshots, Reads
<1> HIDE DEF r
<1>4. /\ reads' \in [ReadSlots -> Reads \cup {None}]
      /\ reads'[i] # None /\ \A j \in ReadSlots \ {i} : reads'[j] = reads[j]
      /\ reads'[i].waits = reads[i].waits /\ reads'[i].generation = reads[i].generation
  BY <1>0, <1>2, <1>3 DEF TypeOK
<1>5. Held(reads', reading, open, generation, used.starts)
  <2>1. open \in BOOLEAN /\ generation \in Nat /\ used.starts \in Nat
    BY <1>0 DEF TypeOK
  <2>2. /\ \A j \in ReadSlots : reads'[j] # None =>
             reads[j] # None /\ reads'[j].generation = reads[j].generation
        /\ reading # None => reads'[reading] # None
    BY <1>0, <1>1, <1>4 DEF Slots, Held
  <2>3. QED BY <1>0, <2>1, <2>2, HeldSettled DEF Slots
<1>6. TypeOK'
  <2>1. observer \in ReadSlots => reads'[observer] # None
    BY <1>0, <1>4 DEF TypeOK
  <2>2. mutation # None /\ mutation.waits # None => reads'[mutation.waits] # None
    BY <1>0, <1>4 DEF TypeOK, Mutations
  <2>3. \A j \in ReadSlots : reads'[j] # None /\ reads'[j].waits # None =>
          refreshes[reads'[j].waits] # None
    BY <1>0, <1>1, <1>4 DEF TypeOK
  <2>4. QED BY <1>0, <1>1, <1>4, <2>1, <2>2, <2>3 DEF TypeOK
<1>7. Slots'
  BY <1>0, <1>1, <1>5 DEF Slots
<1>8. Clock'
  BY <1>1, ClockStays DEF Writing
<1>9. QED BY <1>1, <1>6, <1>7, <1>8 DEF TypeInv

LEMMA SettledPhase ==
  ASSUME TypeOK, NEW ids \in SUBSET ReadSlots, Settle(ids, mutation)
  PROVE  mutation' = mutation \/ (mutation # None /\ mutation'.phase \in {"released", "readagain"})
<1>1. CASE mutation # None /\ mutation.waits \in ids
  <2>1. mutation' = [mutation EXCEPT !.phase = IF @ = "await" THEN "released" ELSE "readagain",
                                     !.waits = None]
    BY <1>1 DEF Settle
  <2>2. QED BY <1>1, <2>1 DEF TypeOK, Mutations
<1>2. CASE ~(mutation # None /\ mutation.waits \in ids)
  BY <1>2 DEF Settle
<1>3. QED BY <1>1, <1>2

LEMMA SettledTypeInv ==
  ASSUME TypeInv, NEW ids \in SUBSET ReadSlots, Settle(ids, mutation),
         view' \in Views, view'.operation = view.operation,
         UNCHANGED <<host, orphans, used, open, generation, revision, forgejo, refreshes,
                     written, attempted>>
  PROVE  TypeInv'
<1>0. /\ TypeOK
      /\ Slots
      /\ Clock
      /\ AwaitsUnsettled(mutation, reads)
      /\ mutation \in Mutations \cup {None}
  BY DEF TypeInv, TypeOK, AwaitsUnsettled
<1>1. \A i \in ReadSlots : reads'[i] # None /\ reads'[i].waits # None =>
        refreshes[reads'[i].waits] # None
  BY <1>0, SettleType DEF TypeOK
<1>2. TypeOK' /\ Slots'
  BY <1>0, <1>1, SettleType DEF TypeOK, Slots, AwaitsUnsettled
<1>3. Clock'
  BY <1>0, SettledPhase, ClockStays DEF Writing
<1>4. mutation' # None => mutation # None
  BY <1>0, SettleType
<1>5. QED BY <1>2, <1>3, <1>4 DEF TypeInv

LEMMA DeliverLateType == ASSUME TypeInv, NEW i \in ReadSlots, DeliverLate(i) PROVE TypeInv'
  BY SettledTypeInv DEF DeliverLate, native, TypeInv, TypeOK

LEMMA ReadFailsType == ASSUME TypeInv, NEW i \in ReadSlots, ReadFails(i) PROVE TypeInv'
<1>1. view \in Views
  BY DEF TypeInv, TypeOK
<1>2. /\ view' = IF Retired(reads[i]) THEN view ELSE [view EXCEPT !.snapshot = None]
      /\ Settle({i}, mutation)
      /\ UNCHANGED <<host, orphans, used, open, generation, revision, forgejo, refreshes,
                     written, attempted>>
  BY DEF ReadFails, native
<1>3. view' \in Views
  BY <1>1, <1>2, ViewTypes
<1>4. view'.operation = view.operation
  BY <1>1, <1>2 DEF Views
<1>5. QED BY <1>2, <1>3, <1>4, SettledTypeInv

LEMMA ShownType ==
  ASSUME TypeOK, NEW r \in Reads
  PROVE  /\ Shown(r) \in Views /\ Shown(r).operation = view.operation
         /\ Shown(r).snapshot = [prefs |-> r.prefs, identity |-> r.identity]
         /\ Shown(r).dirty = view.dirty
         /\ \A f \in Forms : Shown(r).draft[f] = IF view.dirty[f] THEN view.draft[f] ELSE r.prefs[f]
<1> DEFINE d == [f \in Forms |-> IF view.dirty[f] THEN view.draft[f] ELSE r.prefs[f]]
           s == [prefs |-> r.prefs, identity |-> r.identity]
<1>1. s \in Snapshots
  BY DEF Reads, Snapshots
<1>2. d \in [Forms -> Changes \cup {Chosen}]
  BY DEF TypeOK, Views, Reads
<1>3. view \in Views
  BY DEF TypeOK
<1>4. Shown(r) = [view EXCEPT !.snapshot = s, !.draft = d,
                              !.identity = IF Connected(s) THEN @ ELSE None]
  BY <1>3 DEF Shown, Views
<1> HIDE DEF s, d
<1>5. Shown(r) \in Views
  BY <1>1, <1>2, <1>3, <1>4 DEF Views
<1>6. /\ Shown(r).operation = view.operation /\ Shown(r).snapshot = s
      /\ Shown(r).draft = d /\ Shown(r).dirty = view.dirty
  BY <1>3, <1>4 DEF Views
<1>7. QED BY <1>5, <1>6 DEF s, d

LEMMA DeliverType == ASSUME TypeInv, NEW i \in ReadSlots, Deliver(i) PROVE TypeInv'
<1>0. TypeOK /\ Slots /\ Clock
  BY DEF TypeInv
<1>1. /\ reads[i] # None /\ reads[i] \in Reads /\ open /\ reads[i].phase = "answer"
      /\ UNCHANGED <<host, orphans, used, open, generation, revision, written>>
  BY <1>0 DEF Deliver, native, TypeOK, Current
<1> DEFINE shown == Shown(reads[i])
<1>2. shown \in Views /\ shown.operation = view.operation
  BY <1>0, <1>1, ShownType
<1>3. CASE ~Asks(shown)
  <2>1. view' = shown /\ Settle({i}, mutation) /\ UNCHANGED <<forgejo, refreshes, attempted>>
    BY <1>3 DEF Deliver
  <2>2. QED BY <1>1, <1>2, <2>1, SettledTypeInv
<1>4. CASE Asks(shown)
  <2>1. /\ SyncForgejo(shown)
        /\ reads' = [reads EXCEPT ![i].phase = "sync", ![i].waits = forgejo']
        /\ UNCHANGED <<reading, observer, mutation>>
    BY <1>4 DEF Deliver
  <2> HIDE DEF shown
  <2>2. Connected(shown.snapshot) /\ shown.snapshot.identity # shown.identity
    BY <1>4 DEF Asks
  <2>3. /\ view' \in Views
        /\ refreshes' \in [RefreshSlots -> Refreshes \cup {None}]
        /\ forgejo' \in RefreshSlots /\ refreshes'[forgejo'] # None
        /\ \A j \in RefreshSlots : refreshes[j] # None => refreshes'[j] = refreshes[j]
        /\ Held(refreshes', forgejo', open, generation, used.starts)
        /\ attempted' \in BOOLEAN
        /\ view' = [shown EXCEPT !.identity = view'.identity]
    BY <1>0, <1>1, <1>2, <2>1, <2>2, SyncType
  <2>4. view'.operation = view.operation
    BY <1>2, <2>3 DEF Views
  <2> DEFINE r == [reads[i] EXCEPT !.phase = "sync", !.waits = forgejo']
  <2>5. r \in Reads /\ r.generation = reads[i].generation /\ r.waits = forgejo'
    BY <1>1, <2>3 DEF Reads
  <2>6. reads' = [reads EXCEPT ![i] = r]
    BY <1>0, <1>1, <2>1 DEF TypeOK
  <2> HIDE DEF r
  <2>7. /\ reads' \in [ReadSlots -> Reads \cup {None}]
        /\ reads'[i] # None /\ \A j \in ReadSlots \ {i} : reads'[j] = reads[j]
        /\ reads'[i].waits = forgejo' /\ reads'[i].generation = reads[i].generation
    BY <1>0, <2>5, <2>6 DEF TypeOK
  <2>8. Held(reads', reading, open, generation, used.starts)
    <3>1. open \in BOOLEAN /\ generation \in Nat /\ used.starts \in Nat
      BY <1>0 DEF TypeOK
    <3>2. /\ \A j \in ReadSlots : reads'[j] # None =>
               reads[j] # None /\ reads'[j].generation = reads[j].generation
          /\ reading # None => reads'[reading] # None
      BY <1>0, <1>1, <2>7 DEF Slots, Held
    <3>3. QED BY <1>0, <3>1, <3>2, HeldSettled DEF Slots
  <2>9. TypeOK'
    <3>1. observer \in ReadSlots => reads'[observer] # None
      BY <1>0, <2>7 DEF TypeOK
    <3>2. mutation # None /\ mutation.waits # None => reads'[mutation.waits] # None
      BY <1>0, <2>7 DEF TypeOK, Mutations
    <3>3. \A j \in ReadSlots : reads[j] # None /\ reads[j].waits # None =>
            refreshes'[reads[j].waits] # None
      BY <1>0, <2>3 DEF TypeOK, Reads
    <3>4. \A j \in ReadSlots : reads'[j] # None /\ reads'[j].waits # None =>
            refreshes'[reads'[j].waits] # None
      BY <2>3, <2>7, <3>3
    <3>5. QED BY <1>0, <1>1, <2>1, <2>3, <2>7, <3>1, <3>2, <3>4 DEF TypeOK
  <2>10. Slots'
    BY <1>1, <2>1, <2>3, <2>8 DEF Slots
  <2>11. Clock'
    BY <1>1, <2>1, <2>4, ClockStays DEF Writing
  <2>12. QED BY <1>1, <2>1, <2>4, <2>9, <2>10, <2>11 DEF TypeInv
<1>5. QED BY <1>3, <1>4

LEMMA RefreshEndsType == ASSUME TypeInv, NEW j \in RefreshSlots, RefreshEnds(j) PROVE TypeInv'
<1>0. TypeOK /\ Slots /\ Clock
  BY DEF TypeInv
<1> DEFINE waiting == {i \in ReadSlots : reads[i] # None /\ reads[i].waits = j}
           command == IF Retried(j) THEN None ELSE mutation
<1>1. /\ refreshes' = [refreshes EXCEPT ![j] = None]
      /\ forgejo' = IF forgejo = j THEN None ELSE forgejo
      /\ Settle(waiting, command)
      /\ view' = IF Retried(j) THEN [view EXCEPT !.operation = None] ELSE view
      /\ UNCHANGED <<host, orphans, used, open, generation, revision, written, attempted>>
  BY DEF RefreshEnds, native
<1>2. /\ waiting \in SUBSET ReadSlots /\ command \in Mutations \cup {None}
      /\ AwaitsUnsettled(command, reads)
  BY <1>0 DEF TypeOK, AwaitsUnsettled
<1> HIDE DEF command, waiting
<1>3. view' \in Views
  BY <1>0, <1>1, ViewTypes DEF TypeOK, Operations
<1>4. /\ refreshes' \in [RefreshSlots -> Refreshes \cup {None}]
      /\ forgejo' \in RefreshSlots \cup {None}
  BY <1>0, <1>1 DEF TypeOK
<1>5. Held(refreshes', forgejo', open, generation, used.starts)
  <2>1. open \in BOOLEAN /\ generation \in Nat /\ used.starts \in Nat /\ RefreshSlots = ReadSlots
    BY <1>0 DEF TypeOK, ReadSlots, RefreshSlots
  <2>2. \A i \in ReadSlots : refreshes'[i] # None =>
          refreshes[i] # None /\ refreshes'[i].generation = refreshes[i].generation
    BY <1>0, <1>1, <2>1 DEF TypeOK
  <2>3. \/ forgejo' = forgejo /\ (forgejo # None => refreshes'[forgejo] # None)
        \/ forgejo' = None /\ (forgejo # None => refreshes'[forgejo] = None)
    BY <1>0, <1>1, <2>1 DEF TypeOK, Slots, Held
  <2>4. QED BY <1>0, <2>1, <2>2, <2>3, HeldSettled DEF Slots
<1>6. \A i \in ReadSlots : reads'[i] # None /\ reads'[i].waits # None =>
        refreshes'[reads'[i].waits] # None
  <2>1. \A i \in ReadSlots : reads'[i] # None => reads'[i] = reads[i] /\ i \notin waiting
    BY <1>0, <1>1, <1>2, SettleType
  <2>2. \A i \in ReadSlots : reads'[i] # None => reads[i].waits # j
    BY <2>1 DEF waiting
  <2>3. QED BY <1>0, <1>1, <2>1, <2>2 DEF TypeOK, Reads
<1>7. TypeOK' /\ Slots'
  BY <1>0, <1>1, <1>2, <1>3, <1>4, <1>5, <1>6, SettleType DEF TypeOK, Slots, AwaitsUnsettled
<1>8. (mutation' # None => open /\ view'.operation # None) /\ (Writing' => Writing)
  <2>1. CASE Retried(j)
    BY <1>0, <1>1, <1>2, <2>1, SettleType DEF command, Writing
  <2>2. CASE ~Retried(j)
    <3>1. command = mutation /\ view' = view
      BY <1>1, <2>2 DEF command
    <3>2. mutation' = mutation \/ (mutation # None /\ mutation'.phase \in {"released", "readagain"})
      BY <1>0, <1>1, <1>2, <3>1, SettledPhase
    <3>3. mutation = None => mutation' = None
      BY <3>2
    <3>4. QED BY <3>1, <3>2, <3>3 DEF TypeInv, Writing
  <2>3. QED BY <2>1, <2>2
<1>9. QED BY <1>1, <1>7, <1>8, ClockStays DEF TypeInv

\* A change of a preference takes the next number.
LEMMA HostType ==
  ASSUME TypeOK, NEW f \in Forms, Change(f), used.clock + 1 \in Changes
  PROVE  host' \in Snapshots /\ host'.prefs = [host.prefs EXCEPT ![f] = used.clock + 1]
  BY DEF TypeOK, Change, Snapshots

LEMMA WriteLandsType == ASSUME TypeInv, WriteLands PROVE TypeInv'
<1>0. TypeOK /\ Slots /\ Clock /\ Writing /\ Cardinality(orphans) \in Nat
  BY FS_CardinalityType DEF TypeInv, WriteLands, Writing, Clock
<1>1. /\ Change(view.operation) /\ used' = [used EXCEPT !.clock = @ + 1]
      /\ mutation' = [mutation EXCEPT !.landed = used.clock + 1]
      /\ UNCHANGED <<open, generation, revision, reading, forgejo, view, observer, reads,
                     refreshes, written, attempted, orphans>>
  BY DEF WriteLands, Page
<1>2. used.clock + 1 \in Changes /\ used.clock + 1 # 0
  BY <1>0, Numbers DEF Clock, Changes
<1>3. mutation' \in Mutations /\ mutation'.waits = mutation.waits /\ mutation'.landed # 0
  BY <1>0, <1>1, <1>2 DEF TypeOK, Mutations, Writing
<1>4. /\ used' \in [starts: 0 .. MaxStarts, requests: 0 .. MaxRequests,
                    changes: 0 .. MaxChanges, clock: Changes]
      /\ used'.starts = used.starts /\ used'.clock = used.clock + 1
      /\ used'.requests = used.requests /\ used'.changes = used.changes
  BY <1>0, <1>1, <1>2 DEF TypeOK
<1>5. TypeOK'
  BY <1>0, <1>1, <1>2, <1>3, <1>4, HostType DEF TypeOK, Writing
<1>6. Slots'
  BY <1>0, <1>1, <1>4 DEF Slots
<1>7. Clock'
  BY <1>0, <1>1, <1>3, <1>4, Numbers DEF Clock, Writing
<1>8. QED BY <1>0, <1>1, <1>5, <1>6, <1>7 DEF TypeInv, Writing

\* The rest of what changes the host.
LEMMA MachineType ==
  ASSUME TypeInv, host' \in Snapshots, UNCHANGED <<Page, mutation>>,
         used' \in [starts: 0 .. MaxStarts, requests: 0 .. MaxRequests,
                    changes: 0 .. MaxChanges, clock: Changes],
         used'.starts = used.starts,
         orphans' \subseteq Forms, Clock'
  PROVE  TypeInv'
<1>0. TypeOK /\ Slots
  BY DEF TypeInv
<1>1. UNCHANGED <<open, generation, revision, reading, forgejo, view, observer, reads,
                  refreshes, written, attempted>>
  BY DEF Page
<1>2. TypeOK'
  BY <1>0, <1>1 DEF TypeOK
<1>3. Slots'
  BY <1>0, <1>1 DEF Slots
<1>4. QED BY <1>1, <1>2, <1>3 DEF TypeInv

LEMMA OrphanType == ASSUME TypeInv, NEW f \in Forms, OrphanLands(f) PROVE TypeInv'
<1>0. TypeOK /\ Clock /\ IsFiniteSet(orphans) /\ Cardinality(orphans) \in Nat
  BY FS_CardinalityType DEF TypeInv, Clock
<1>1. f \in orphans /\ orphans' = orphans \ {f} /\ UNCHANGED <<Page, mutation, view>>
  BY DEF OrphanLands, Page
<1>2. IsFiniteSet(orphans') /\ Cardinality(orphans') = Cardinality(orphans) - 1
  BY <1>0, <1>1, FS_RemoveElement
<1>3. orphans' \subseteq Forms /\ Writing' = Writing
  BY <1>0, <1>1 DEF TypeOK, Writing
<1>4. CASE UNCHANGED <<host, used>>
  <2>1. Clock'
    BY <1>0, <1>2, <1>3, <1>4, Numbers DEF Clock
  <2>2. QED BY <1>0, <1>1, <1>3, <1>4, <2>1, MachineType DEF TypeOK
<1>5. CASE Change(f) /\ used' = [used EXCEPT !.clock = @ + 1]
  <2>1. Cardinality(orphans) >= 1
    BY <1>0, <1>2, FS_CardinalityType
  <2>2. used.clock + 1 \in Changes
    BY <1>0, <2>1, Numbers DEF Clock, Changes
  <2>3. /\ used' \in [starts: 0 .. MaxStarts, requests: 0 .. MaxRequests,
                      changes: 0 .. MaxChanges, clock: Changes]
        /\ used'.starts = used.starts /\ used'.clock = used.clock + 1
        /\ used'.requests = used.requests /\ used'.changes = used.changes
    BY <1>0, <1>5, <2>2 DEF TypeOK
  <2>4. Clock'
    BY <1>0, <1>2, <1>3, <2>3, Numbers DEF Clock
  <2>5. QED BY <1>0, <1>1, <1>3, <1>5, <2>2, <2>3, <2>4, HostType, MachineType
<1>6. QED BY <1>4, <1>5 DEF OrphanLands

LEMMA OthersType == ASSUME TypeInv, NEW f \in Forms, OthersChange(f) PROVE TypeInv'
<1>0. TypeOK /\ Clock /\ Cardinality(orphans) \in Nat
  BY FS_CardinalityType DEF TypeInv, Clock
<1>1. /\ used.changes < MaxChanges /\ Change(f)
      /\ used' = [used EXCEPT !.changes = @ + 1, !.clock = @ + 1]
      /\ UNCHANGED <<Page, mutation, orphans, view>>
  BY DEF OthersChange, Page
<1>2. used.clock + 1 \in Changes
  BY <1>0, <1>1, Numbers DEF Clock, Changes
<1>3. /\ used' \in [starts: 0 .. MaxStarts, requests: 0 .. MaxRequests,
                    changes: 0 .. MaxChanges, clock: Changes]
      /\ used'.starts = used.starts /\ used'.clock = used.clock + 1
      /\ used'.requests = used.requests /\ used'.changes = used.changes + 1
  <2>1. used.changes + 1 \in 0 .. MaxChanges
    BY <1>0, <1>1, Numbers
  <2>2. QED BY <1>0, <1>1, <1>2, <2>1 DEF TypeOK
<1>4. Writing' = Writing
  BY <1>1 DEF Writing
<1>5. Clock'
  BY <1>0, <1>1, <1>3, <1>4, Numbers DEF Clock
<1>6. QED BY <1>0, <1>1, <1>2, <1>3, <1>5, HostType, MachineType DEF TypeOK

LEMMA ReconnectType ==
  ASSUME TypeInv, NEW i \in Identities \cup {None}, Reconnect(i)
  PROVE  TypeInv'
<1>0. TypeOK /\ Clock /\ Cardinality(orphans) \in Nat
  BY FS_CardinalityType DEF TypeInv, Clock
<1>1. /\ used.changes < MaxChanges /\ host' = [host EXCEPT !.identity = i]
      /\ used' = [used EXCEPT !.changes = @ + 1]
      /\ UNCHANGED <<Page, mutation, orphans, view>>
  BY DEF Reconnect, Page
<1>2. host' \in Snapshots
  BY <1>0, <1>1 DEF TypeOK, Snapshots
<1>3. /\ used' \in [starts: 0 .. MaxStarts, requests: 0 .. MaxRequests,
                    changes: 0 .. MaxChanges, clock: Changes]
      /\ used'.starts = used.starts /\ used'.clock = used.clock
      /\ used'.requests = used.requests /\ used'.changes = used.changes + 1
  BY <1>0, <1>1 DEF TypeOK
<1>4. Writing' = Writing
  BY <1>1 DEF Writing
<1>5. Clock'
  BY <1>0, <1>1, <1>3, <1>4, Numbers DEF Clock
<1>6. QED BY <1>0, <1>1, <1>2, <1>3, <1>5, MachineType DEF TypeOK

LEMMA NextTypeInv == TypeInv /\ [Next]_vars => TypeInv'
<1> SUFFICES ASSUME TypeInv, [Next]_vars PROVE TypeInv'
  OBVIOUS
<1>1. CASE Person
  BY <1>1, StartType, StopType, SignInType, RetryType, EditType, ApplyType DEF Person
<1>2. CASE Machine
  BY <1>2, WriteLandsType, OrphanType, OthersType, ReconnectType DEF Machine
<1>3. CASE TimerFires \/ ReadBack \/ EndOperation
  BY <1>3, TimerType, ReadBackType, EndOperationType
<1>4. CASE \E done \in BOOLEAN : CommandEnds(done)
  BY <1>4, EndsType
<1>5. CASE \E i \in ReadSlots : ReadStep(i)
  BY <1>5, SampleType, DeliverLateType, DeliverType, ReadFailsType DEF ReadStep
<1>6. CASE \E j \in RefreshSlots : RefreshEnds(j)
  BY <1>6, RefreshEndsType
<1>7. CASE UNCHANGED vars
  BY <1>7 DEF vars, tasks, TypeInv, TypeOK, Slots, Clock, Writing
<1>8. QED BY <1>1, <1>2, <1>3, <1>4, <1>5, <1>6, <1>7 DEF Next

\* Every variable keeps its type, no counter leaves its bound, there is a slot
\* for every promise, and whoever waits for a promise waits for an unsettled one.
THEOREM TypeCorrect == Spec => []TypeOK
<1>1. TypeInv => TypeOK
  BY DEF TypeInv
<1>2. QED BY <1>1, InitTypeInv, NextTypeInv, PTL DEF Spec

\* The shown page has at most one read in flight, the one that load joins.
THEOREM OneRead == Spec => []ReadsDoNotOverlap
<1>1. TypeInv => ReadsDoNotOverlap
  BY DEF TypeInv, Slots, Held, ReadsDoNotOverlap
<1>2. QED BY <1>1, InitTypeInv, NextTypeInv, PTL DEF Spec
-----------------------------------------------------------------------------
(* What the page shows is not older than what it saved.                    *)

Later == Waits /\ Drafts /\ Samples /\ Shows

LEMMA Values ==
  ASSUME TypeOK
  PROVE  /\ \A f \in Forms : written[f] \in Nat /\ host.prefs[f] \in Nat
         /\ \A i \in ReadSlots : reads[i] # None =>
              /\ reads[i] \in Reads /\ reads[i].generation \in Nat /\ reads[i].revision \in Nat
              /\ \A f \in Forms : reads[i].prefs[f] \in Nat
         /\ view.snapshot # None => \A f \in Forms : view.snapshot.prefs[f] \in Nat
         /\ \A f \in Forms : view.draft[f] # Chosen => view.draft[f] \in Nat
         /\ generation \in Nat /\ revision \in Nat /\ used.clock \in Nat
  BY DEF TypeOK, Changes, Reads, Views, Snapshots

LEMMA InitLater == Init => Later
<1> SUFFICES ASSUME Init PROVE Later
  OBVIOUS
<1>1. mutation = None /\ open = FALSE /\ \A i \in ReadSlots : reads[i] = None
  BY DEF Init
<1>2. \A f \in Forms : host.prefs[f] = 0 /\ used.clock = 0
  BY DEF Init
<1>3. QED BY <1>1, <1>2 DEF Later, Waits, Drafts, Samples, Shows

LEMMA LoadLater ==
  ASSUME TypeInv, Load, open
  PROVE  /\ reading # None => reads' = reads /\ reading' = reading
         /\ reading = None => reads'[reading'] = NewRead(generation, revision)
         /\ Waits => \A i \in ReadSlots : reads'[i] # None /\ reads'[i].waits # None =>
                                            reads'[i].phase = "sync"
         /\ Samples /\ UNCHANGED <<host, used, open, generation, revision, written>> => Samples'
<1>0. TypeOK /\ Slots
  BY DEF TypeInv
<1>1. reading # None => reads' = reads /\ reading' = reading
  BY DEF Load
<1> DEFINE new == NewRead(generation, revision)
<1>2. reading = None => reads'[reading'] = new
  BY <1>0, LoadType DEF Load, TypeOK
<1>3. \A i \in ReadSlots : reads'[i] = reads[i] \/ reads'[i] = new
  BY <1>0, LoadType
<1>4. /\ new.generation = generation
      /\ new.revision = revision
      /\ new.phase = "status"
      /\ new.waits = None
  BY DEF NewRead
<1> HIDE DEF new
<1>5. Waits => \A i \in ReadSlots : reads'[i] # None /\ reads'[i].waits # None =>
                                      reads'[i].phase = "sync"
  BY <1>3, <1>4 DEF Waits
<1>6. Samples /\ UNCHANGED <<host, used, open, generation, revision, written>> => Samples'
  BY <1>0, <1>3, <1>4, Values DEF Samples
<1>7. QED BY <1>1, <1>2, <1>5, <1>6 DEF new

LEMMA SettledLater ==
  ASSUME TypeInv, NEW ids \in SUBSET ReadSlots, Settle(ids, mutation), Quiet
  PROVE  /\ Waits /\ revision' = revision => Waits'
         /\ Samples /\ UNCHANGED <<host, used, open, generation, revision, written>> => Samples'
<1>0. TypeOK /\ Slots /\ AwaitsUnsettled(mutation, reads) /\ mutation \in Mutations \cup {None}
  BY DEF TypeInv, TypeOK, AwaitsUnsettled
<1>1. \A i \in ReadSlots : reads'[i] = None \/ reads'[i] = reads[i]
  BY <1>0, SettleType
<1>2. Samples /\ UNCHANGED <<host, used, open, generation, revision, written>> => Samples'
  BY <1>1 DEF Samples
<1>3. ASSUME Waits, revision' = revision PROVE Waits'
  <2>1. \A i \in ReadSlots : reads'[i] # None /\ reads'[i].waits # None => reads'[i].phase = "sync"
    BY <1>1, <1>3 DEF Waits
  <2>2. CASE mutation # None /\ mutation.waits \in ids
    <3>1. mutation' = [mutation EXCEPT !.phase = IF @ = "await" THEN "released" ELSE "readagain",
                                       !.waits = None]
      BY <2>2 DEF Settle
    <3>2. mutation'.waits = None /\ mutation'.phase \in {"released", "readagain"}
      BY <1>0, <2>2, <3>1 DEF Mutations
    <3>3. mutation.waits = reading /\ reading \in ids
      BY <1>0, <1>3, <2>2, SlotNames DEF Waits, Mutations
    <3>4. reading' = None
      BY <3>3 DEF Settle, Forgotten
    <3>5. QED BY <2>1, <3>2, <3>4 DEF Waits
  <2>3. CASE ~(mutation # None /\ mutation.waits \in ids)
    <3>1. mutation' = mutation
      BY <2>3 DEF Settle
    <3>2. mutation # None => mutation.phase # "released"
      BY DEF Quiet
    <3>3. mutation # None /\ mutation.phase \in {"await", "readback"} =>
            reading \in ReadSlots /\ reading \notin ids
      BY <1>0, <1>3, <2>3 DEF Waits, TypeOK
    <3>4. mutation # None /\ mutation.phase \in {"await", "readback"} =>
            reading' = reading /\ reads'[reading] = reads[reading]
      BY <3>3 DEF Settle, Forgotten
    <3>5. QED BY <1>3, <2>1, <3>1, <3>2, <3>4 DEF Waits
  <2>4. QED BY <2>2, <2>3
<1>4. QED BY <1>2, <1>3

\* How settling moves a command on.
LEMMA SettledCommand ==
  ASSUME TypeInv, Waits, NEW ids \in SUBSET ReadSlots, Settle(ids, mutation)
  PROVE  \/ mutation' = mutation
         \/ /\ mutation # None /\ mutation' # None /\ mutation.waits \in ids
            /\ mutation.waits = reading /\ mutation'.landed = mutation.landed
            /\ \/ mutation.phase = "await" /\ mutation'.phase = "released"
               \/ mutation.phase = "readback" /\ mutation'.phase = "readagain"
<1>1. mutation \in Mutations \cup {None}
  BY DEF TypeInv, TypeOK
<1>2. CASE mutation # None /\ mutation.waits \in ids
  <2>1. mutation' = [mutation EXCEPT !.phase = IF @ = "await" THEN "released" ELSE "readagain",
                                     !.waits = None]
    BY <1>2 DEF Settle
  <2>2. mutation' \in Mutations
    BY <1>1, <1>2, <2>1 DEF Mutations
  <2>3. mutation.phase \in {"await", "readback"} /\ mutation.waits = reading
    BY <1>2, SlotNames DEF Waits
  <2>4. mutation'.landed = mutation.landed
        /\ mutation'.phase = IF mutation.phase = "await" THEN "released" ELSE "readagain"
    BY <1>1, <1>2, <2>1 DEF Mutations
  <2>5. QED BY <1>2, <2>2, <2>3, <2>4
<1>3. CASE ~(mutation # None /\ mutation.waits \in ids)
  BY <1>3 DEF Settle
<1>4. QED BY <1>2, <1>3

LEMMA StopLater == ASSUME TypeInv, Later, Stop PROVE Later'
<1>1. /\ open' = FALSE /\ mutation' = None
      /\ UNCHANGED <<host, used, reads>>
  BY DEF Stop
<1>2. QED BY <1>1 DEF Later, Waits, Drafts, Samples, Shows

LEMMA StartLater == ASSUME TypeInv, Later, Start PROVE Later'
<1>0. TypeOK /\ Slots /\ TypeOK'
  BY StartType DEF TypeInv
<1>1. /\ open' = TRUE /\ mutation' = None /\ generation' = generation + 1 /\ revision' = 0
      /\ view' = InitialView /\ written' = [f \in Forms |-> 0]
      /\ reads' = [reads EXCEPT ![reading'] = NewRead(generation', 0)]
      /\ host' = host /\ used'.clock = used.clock
  <2>1. open' = TRUE /\ mutation' = None /\ generation' = generation + 1 /\ revision' = 0
    BY DEF Start
  <2>2. view' = InitialView /\ written' = [f \in Forms |-> 0] /\ host' = host
    BY DEF Start
  <2>3. reads' = [reads EXCEPT ![reading'] = NewRead(generation', 0)]
    BY DEF Start
  <2>4. used'.clock = used.clock
    BY <1>0 DEF Start, TypeOK
  <2>5. QED BY <2>1, <2>2, <2>3, <2>4
<1> DEFINE new == NewRead(generation', 0)
<1>2. \A i \in ReadSlots : reads'[i] = reads[i] \/ reads'[i] = new
  BY <1>0, <1>1 DEF TypeOK
<1>3. new.generation = generation' /\ new.revision = 0 /\ new.phase = "status" /\ new.waits = None
  BY DEF NewRead
<1> HIDE DEF new
<1>4. Waits' /\ Drafts'
  BY <1>1, <1>2, <1>3 DEF Later, Waits, Drafts
<1>5. \A i \in ReadSlots : reads[i] # None => reads[i].generation # generation'
  BY <1>0, <1>1, Values DEF Slots, Held
<1>6. Samples'
  BY <1>0, <1>1, <1>2, <1>3, <1>5, Values DEF Later, Samples
<1>7. \A f \in Forms : view'.snapshot = None /\ view'.draft[f] = 0 /\ written'[f] = 0
  BY <1>1 DEF InitialView
<1>8. Shows'
  BY <1>7 DEF Shows, Fresh
<1>9. QED BY <1>4, <1>6, <1>8 DEF Later

LEMMA TimerLater == ASSUME TypeInv, Later, TimerFires PROVE Later'
<1>1. /\ Load /\ open /\ Quiet
      /\ UNCHANGED <<host, used, open, generation, revision, view, mutation, written>>
  BY DEF TimerFires
<1>2. Samples' /\ Drafts' /\ Shows'
  BY <1>1, LoadLater DEF Later, Drafts, Shows, Fresh
<1>3. Waits'
  BY <1>1, LoadLater DEF Later, Waits, Quiet
<1>4. QED BY <1>2, <1>3 DEF Later

LEMMA EditLater == ASSUME TypeInv, Later, NEW f \in Forms, Edit(f) PROVE Later'
<1>0. view \in Views
  BY DEF TypeInv, TypeOK
<1>1. /\ view.operation = None /\ mutation = None
      /\ view' = [view EXCEPT !.draft[f] = Chosen, !.dirty[f] = TRUE, !.saved = None]
      /\ UNCHANGED <<host, used, open, generation, revision, reading, reads, mutation, written>>
  BY DEF TypeInv, Edit, tasks
<1>2. /\ view'.snapshot = view.snapshot /\ view'.draft[f] = Chosen
      /\ \A g \in Forms \ {f} : view'.draft[g] = view.draft[g] /\ view'.dirty[g] = view.dirty[g]
  BY <1>0, <1>1 DEF Views
<1>3. Waits' /\ Drafts' /\ Samples'
  BY <1>1 DEF Later, Waits, Drafts, Samples
<1>4. Shows'
  BY <1>1, <1>2 DEF Later, Shows, Fresh
<1>5. QED BY <1>3, <1>4 DEF Later

LEMMA ApplyLater == ASSUME TypeInv, Later, NEW f \in Forms, Apply(f) PROVE Later'
<1>0. TypeOK /\ view \in Views
  BY DEF TypeInv, TypeOK
<1>1. /\ view.operation = None /\ mutation = None /\ open
      /\ view' = [view EXCEPT !.operation = f, !.saved = None, !.dirty[f] = TRUE,
                              !.draft[f] = Chosen]
      /\ mutation' = Command /\ revision' = revision + 1
      /\ UNCHANGED <<host, open, generation, reading, reads, written>>
      /\ used'.clock = used.clock
  BY <1>0 DEF TypeInv, Apply, Request, TypeOK
<1>2. /\ view'.snapshot = view.snapshot /\ view'.draft[f] = Chosen /\ view'.dirty[f]
      /\ view'.operation = f
      /\ \A g \in Forms \ {f} : view'.draft[g] = view.draft[g] /\ view'.dirty[g] = view.dirty[g]
  BY <1>0, <1>1 DEF Views
<1>3. mutation'.phase = "native" /\ mutation'.waits = None /\ mutation'.landed = 0
  BY <1>1 DEF Command
<1>4. Waits'
  BY <1>1, <1>3 DEF Later, Waits
<1>5. Drafts'
  BY <1>0, <1>1, <1>2, <1>3, Values DEF Drafts
<1>6. Samples'
  BY <1>0, <1>1, Values DEF Later, Samples
<1>7. Shows'
  BY <1>1, <1>2 DEF Later, Shows, Fresh
<1>8. QED BY <1>4, <1>5, <1>6, <1>7 DEF Later

LEMMA OtherCommandLater == ASSUME TypeInv, Later, SignIn \/ RetryForgejo PROVE Later'
<1>0. TypeOK /\ view \in Views
  BY DEF TypeInv, TypeOK
<1>1. /\ view.operation = None /\ mutation = None /\ open
      /\ \/ view' = [view EXCEPT !.operation = "signin", !.saved = None]
         \/ view' = [view EXCEPT !.operation = "forgejo"]
      /\ mutation' = Command \/ mutation' = [Command EXCEPT !.phase = "retry"]
      /\ UNCHANGED <<host, open, generation, revision, reading, reads, written>>
      /\ used'.clock = used.clock
  BY <1>0 DEF TypeInv, SignIn, RetryForgejo, Request, TypeOK
<1>2. /\ view'.snapshot = view.snapshot /\ view'.draft = view.draft /\ view'.dirty = view.dirty
      /\ view'.operation \in {"signin", "forgejo"}
  BY <1>0, <1>1 DEF Views
<1>3. mutation'.phase \in {"native", "retry"} /\ mutation'.waits = None
  BY <1>1 DEF Command
<1>4. Waits'
  BY <1>1, <1>3 DEF Later, Waits
<1>5. Drafts'
  BY <1>2 DEF Drafts
<1>6. Samples'
  BY <1>1 DEF Later, Samples
<1>7. Shows'
  BY <1>1, <1>2 DEF Later, Shows, Fresh
<1>8. QED BY <1>4, <1>5, <1>6, <1>7 DEF Later

LEMMA EndsLater == ASSUME TypeInv, Later, NEW done \in BOOLEAN, CommandEnds(done) PROVE Later'
<1>0. TypeOK /\ open
  BY DEF TypeInv, CommandEnds
<1>1. /\ mutation # None /\ mutation.phase = "native" /\ mutation \in Mutations
      /\ done => mutation.landed # 0 \/ view.operation = "signin"
      /\ mutation' = [mutation EXCEPT !.done = done, !.waits = reading,
                                      !.phase = IF reading = None THEN "released" ELSE "await"]
      /\ revision' = RetireReads
      /\ written' = IF done /\ view.operation \in Forms
                    THEN [written EXCEPT ![view.operation] = mutation.landed] ELSE written
      /\ UNCHANGED <<host, used, open, generation, reading, view, reads>>
  BY <1>0 DEF CommandEnds, Awaited, native, TypeOK
<1>2. /\ mutation'.waits = reading /\ mutation'.landed = mutation.landed
      /\ mutation'.phase = IF reading = None THEN "released" ELSE "await"
      /\ mutation' \in Mutations
  BY <1>0, <1>1 DEF TypeOK, Mutations
<1>3. Waits'
  BY <1>1, <1>2 DEF Later, Waits
<1>4. Drafts'
  BY <1>1, <1>2 DEF Later, Drafts, Before
<1>5. Samples'
  <2>1. CASE view.operation \in Forms
    <3>1. revision' = revision + 1
      BY <1>1, <2>1 DEF RetireReads
    <3>2. \A f \in Forms : written'[f] = written[f]
                           \/ (f = view.operation /\ written'[f] = mutation.landed)
      BY <1>0, <1>1 DEF TypeOK
    <3>3. \A f \in Forms : written'[f] <= host.prefs[f]
      BY <1>0, <1>1, <2>1, <3>2 DEF Later, Samples, Drafts
    <3>4. QED BY <1>0, <1>1, <3>1, <3>3, Values DEF Later, Samples
  <2>2. CASE view.operation \notin Forms
    BY <1>1, <2>2 DEF Later, Samples, RetireReads
  <2>3. QED BY <2>1, <2>2
<1>6. Shows'
  <2>1. \A f \in Forms : f # view.operation => written'[f] = written[f]
    BY <1>0, <1>1 DEF TypeOK
  <2>2. mutation' # None /\ mutation'.phase \in Before \ {"native"}
    BY <1>2 DEF Before
  <2>3. QED BY <1>1, <2>1, <2>2 DEF Later, Shows, Fresh
<1>7. QED BY <1>3, <1>4, <1>5, <1>6 DEF Later

LEMMA ReadBackLater == ASSUME TypeInv, Later, ReadBack PROVE Later'
<1>0. TypeOK /\ Slots /\ open /\ mutation # None /\ mutation \in Mutations /\ Load
  BY DEF TypeInv, ReadBack, TypeOK
<1>1. /\ mutation.phase = "released" /\ reading = None
      /\ view' = Saved(mutation.done)
      /\ mutation' = [mutation EXCEPT !.phase = "readback", !.waits = reading']
      /\ UNCHANGED <<host, used, open, generation, revision, written>>
  BY DEF ReadBack, native, Later, Waits
<1>2. reading' \in ReadSlots /\ reading' # None /\ reads'[reading'] = NewRead(generation, revision)
  BY <1>0, <1>1, LoadLater, LoadType, SlotNames
<1>3. /\ mutation'.phase = "readback" /\ mutation'.waits = reading'
      /\ mutation'.landed = mutation.landed /\ mutation' \in Mutations
  BY <1>0, <1>1, <1>2 DEF Mutations
<1>4. Waits'
  <2>1. NewRead(generation, revision).revision = revision
        /\ NewRead(generation, revision).phase = "status"
    BY DEF NewRead
  <2>2. QED BY <1>0, <1>1, <1>2, <1>3, <2>1, LoadLater DEF Later, Waits
<1>5. Samples'
  BY <1>0, <1>1, LoadLater DEF Later
<1>6. /\ view'.snapshot = view.snapshot /\ view'.operation = view.operation
      /\ view'.draft = view.draft
      /\ \A f \in Forms : f # view.operation => view'.dirty[f] = view.dirty[f]
  BY <1>0, <1>1 DEF Saved, TypeOK, Views
<1>7. Drafts'
  BY <1>0, <1>1, <1>3, <1>6 DEF Later, Drafts, Before
<1>8. Shows'
  BY <1>0, <1>1, <1>3, <1>6 DEF Later, Shows, Fresh, Before
<1>9. QED BY <1>4, <1>5, <1>7, <1>8 DEF Later

LEMMA EndOperationLater == ASSUME TypeInv, Later, EndOperation PROVE Later'
<1>0. TypeOK /\ Slots /\ open /\ view \in Views
  BY DEF TypeInv, EndOperation, TypeOK
<1>1. /\ mutation.phase = "readagain" /\ mutation' = None
      /\ SyncForgejo([view EXCEPT !.operation = None])
      /\ UNCHANGED <<host, used, open, generation, revision, reading, reads, written>>
  BY DEF EndOperation, native
<1>2. [view EXCEPT !.operation = None] \in Views
  BY <1>0, ViewTypes DEF Operations
<1>3. /\ view'.snapshot = view.snapshot /\ view'.draft = view.draft /\ view'.dirty = view.dirty
  <2>1. view' = [[view EXCEPT !.operation = None] EXCEPT !.identity = view'.identity]
    BY <1>0, <1>1, <1>2, SyncType
  <2>2. QED BY <1>0, <2>1 DEF Views
<1>4. Waits' /\ Drafts' /\ Samples'
  BY <1>1 DEF Later, Waits, Drafts, Samples
<1>5. Shows'
  BY <1>1, <1>3 DEF Later, Shows, Fresh, Before
<1>6. QED BY <1>4, <1>5 DEF Later

LEMMA SampleLater == ASSUME TypeInv, Later, NEW i \in ReadSlots, Sample(i) PROVE Later'
<1>0. TypeOK /\ Slots
  BY DEF TypeInv
<1>1. /\ reads[i] # None /\ reads[i] \in Reads /\ reads[i].phase \in {"status", "prefs"}
      /\ UNCHANGED <<host, used, open, generation, revision, reading, view, mutation, written>>
  BY <1>0 DEF Sample, native, TypeOK
<1> DEFINE r == IF reads[i].phase = "status"
                THEN [reads[i] EXCEPT !.phase = "prefs", !.identity = host.identity]
                ELSE [reads[i] EXCEPT !.phase = "answer", !.prefs = host.prefs]
<1>2. reads' = [reads EXCEPT ![i] = r]
  BY DEF Sample
<1>3. /\ r.generation = reads[i].generation /\ r.revision = reads[i].revision
      /\ r.waits = reads[i].waits /\ r.phase \in {"prefs", "answer"}
      /\ r.phase = "answer" => r.prefs = host.prefs
  BY <1>0, <1>1 DEF Reads
<1> HIDE DEF r
<1>4. reads'[i] = r /\ \A j \in ReadSlots \ {i} : reads'[j] = reads[j]
  BY <1>0, <1>2 DEF TypeOK
<1>5. Waits'
  BY <1>0, <1>1, <1>3, <1>4 DEF Later, Waits, TypeOK
<1>6. Samples'
  BY <1>0, <1>1, <1>3, <1>4, Values DEF Later, Samples
<1>7. QED BY <1>1, <1>5, <1>6 DEF Later, Drafts, Shows, Fresh

\* A read that a command waits for after its write is current and not retired.
LEMMA ReadBackCurrent ==
  ASSUME TypeInv, Waits, mutation # None, mutation.phase = "readback"
  PROVE  /\ reading \in ReadSlots /\ mutation.waits = reading /\ Current(reads[reading])
         /\ ~Retired(reads[reading]) /\ reads[reading].phase # "sync" /\ reads[reading].waits = None
  BY DEF TypeInv, Waits, Slots, Held, Current, Retired

LEMMA DeliverLateLater ==
  ASSUME TypeInv, Later, NEW i \in ReadSlots, DeliverLate(i)
  PROVE  Later'
<1>1. /\ Settle({i}, mutation) /\ Quiet
      /\ UNCHANGED <<host, used, open, generation, revision, view, written>>
  BY DEF DeliverLate, native
<1>2. mutation # None /\ mutation.phase = "readback" => mutation.waits # i
  BY ReadBackCurrent DEF DeliverLate, Later
<1>3. \/ mutation' = mutation
      \/ /\ mutation # None /\ mutation' # None /\ mutation'.landed = mutation.landed
         /\ mutation.phase = "await" /\ mutation'.phase = "released"
  BY <1>1, <1>2, SettledCommand DEF Later
<1>4. Waits' /\ Samples'
  BY <1>1, SettledLater DEF Later
<1>5. Drafts' /\ Shows'
  BY <1>1, <1>3 DEF Later, Drafts, Shows, Fresh, Before
<1>6. QED BY <1>4, <1>5 DEF Later

LEMMA ReadFailsLater == ASSUME TypeInv, Later, NEW i \in ReadSlots, ReadFails(i) PROVE Later'
<1>0. view \in Views
  BY DEF TypeInv, TypeOK
<1>1. /\ view' = IF Retired(reads[i]) THEN view ELSE [view EXCEPT !.snapshot = None]
      /\ Settle({i}, mutation) /\ Quiet
      /\ UNCHANGED <<host, used, open, generation, revision, written>>
  BY DEF ReadFails, native
<1>2. /\ view'.draft = view.draft /\ view'.dirty = view.dirty /\ view'.operation = view.operation
      /\ view'.snapshot = IF Retired(reads[i]) THEN view.snapshot ELSE None
  BY <1>0, <1>1 DEF Views
<1>3. mutation # None /\ mutation.phase = "readback" /\ mutation.waits = i => ~Retired(reads[i])
  BY ReadBackCurrent DEF Later
<1>4. \/ mutation' = mutation
      \/ /\ mutation # None /\ mutation' # None /\ mutation'.landed = mutation.landed
         /\ \/ mutation.phase = "await" /\ mutation'.phase = "released"
            \/ mutation.phase = "readback" /\ mutation'.phase = "readagain" /\ ~Retired(reads[i])
  BY <1>1, <1>3, SettledCommand DEF Later
<1>5. Waits' /\ Samples'
  BY <1>1, SettledLater DEF Later
<1>6. Drafts'
  BY <1>1, <1>2, <1>4 DEF Later, Drafts, Before
<1>7. Shows'
  BY <1>1, <1>2, <1>4 DEF Later, Shows, Fresh, Drafts, Before
<1>8. QED BY <1>5, <1>6, <1>7 DEF Later

LEMMA DeliverLater == ASSUME TypeInv, Later, NEW i \in ReadSlots, Deliver(i) PROVE Later'
<1>0. TypeOK /\ Slots
  BY DEF TypeInv
<1>1. /\ reads[i] # None /\ reads[i] \in Reads /\ reads[i].phase = "answer" /\ Quiet
      /\ open /\ reads[i].generation = generation /\ reads[i].revision = revision
      /\ UNCHANGED <<host, used, open, generation, revision, written>>
  BY <1>0 DEF Deliver, native, TypeOK, Current, Retired
<1> DEFINE shown == Shown(reads[i])
<1>2. /\ shown \in Views /\ shown.operation = view.operation /\ shown.dirty = view.dirty
      /\ shown.snapshot.prefs = reads[i].prefs
      /\ \A f \in Forms :
           shown.draft[f] = IF view.dirty[f] THEN view.draft[f] ELSE reads[i].prefs[f]
  <2>1. /\ shown \in Views /\ shown.operation = view.operation /\ shown.dirty = view.dirty
        /\ shown.snapshot = [prefs |-> reads[i].prefs, identity |-> reads[i].identity]
        /\ \A f \in Forms :
             shown.draft[f] = IF view.dirty[f] THEN view.draft[f] ELSE reads[i].prefs[f]
    BY <1>0, <1>1, ShownType
  <2> HIDE DEF shown
  <2>2. shown.snapshot.prefs = reads[i].prefs
    BY <2>1
  <2>3. QED BY <2>1, <2>2
<1>3. \A f \in Forms : reads[i].prefs[f] >= written[f]
  BY <1>0, <1>1, Values DEF Later, Samples
<1>4. reading = i
  BY <1>0, <1>1 DEF Slots, Held
<1>5. CASE ~Asks(shown)
  <2>1. view' = shown /\ Settle({i}, mutation)
    BY <1>5 DEF Deliver
  <2> HIDE DEF shown
  <2>2. Waits' /\ Samples'
    BY <1>1, <2>1, SettledLater DEF Later
  <2>3. Shows'
    BY <1>1, <1>2, <1>3, <2>1 DEF Shows, Fresh
  <2>4. \/ mutation' = mutation
        \/ /\ mutation # None /\ mutation' # None /\ mutation'.landed = mutation.landed
           /\ \/ mutation.phase = "await" /\ mutation'.phase = "released"
              \/ mutation.phase = "readback" /\ mutation'.phase = "readagain"
    BY <2>1, SettledCommand DEF Later
  <2>5. mutation # None /\ mutation.phase = "readback" => mutation' # mutation
    <3>1. SUFFICES ASSUME mutation # None, mutation.phase = "readback" PROVE mutation' # mutation
      OBVIOUS
    <3>2. mutation.waits = i
      BY <1>4, <3>1 DEF Later, Waits
    <3>3. mutation' = [mutation EXCEPT !.phase = IF @ = "await" THEN "released" ELSE "readagain",
                                       !.waits = None]
      BY <2>1, <3>1, <3>2 DEF Settle
    <3>4. mutation'.phase = "readagain"
      BY <1>0, <3>1, <3>3 DEF TypeOK, Mutations
    <3>5. QED BY <3>1, <3>4
  <2>6. Drafts'
    BY <1>1, <1>2, <2>1, <2>4, <2>5 DEF Later, Drafts, Before
  <2>7. QED BY <2>2, <2>3, <2>6 DEF Later
<1>6. CASE Asks(shown)
  <2>1. /\ SyncForgejo(shown)
        /\ reads' = [reads EXCEPT ![i].phase = "sync", ![i].waits = forgejo']
        /\ UNCHANGED <<reading, mutation>>
        /\ view.operation = None /\ mutation = None
    BY <1>2, <1>6 DEF Deliver, Asks, TypeInv
  <2> HIDE DEF shown
  <2>2. /\ view'.snapshot = shown.snapshot /\ view'.draft = shown.draft
        /\ view'.dirty = shown.dirty
    <3>1. view' = [shown EXCEPT !.identity = view'.identity]
      BY <1>0, <1>1, <1>2, <2>1, SyncType
    <3>2. QED BY <1>2, <3>1 DEF Views
  <2>3. Shows'
    BY <1>1, <1>2, <1>3, <2>2 DEF Shows, Fresh
  <2> DEFINE r == [reads[i] EXCEPT !.phase = "sync", !.waits = forgejo']
  <2>4. r.phase = "sync" /\ r.generation = reads[i].generation /\ r.revision = reads[i].revision
    BY <1>1 DEF Reads
  <2>5. reads' = [reads EXCEPT ![i] = r]
    BY <1>0, <1>1, <2>1 DEF TypeOK
  <2> HIDE DEF r
  <2>6. reads'[i] = r /\ \A j \in ReadSlots \ {i} : reads'[j] = reads[j]
    BY <1>0, <2>5 DEF TypeOK
  <2>7. Waits' /\ Drafts' /\ Samples'
    <3>1. mutation' = None
      BY <2>1
    <3>2. \A k \in ReadSlots : reads'[k] # None /\ reads'[k].waits # None =>
                                reads'[k].phase = "sync"
      BY <2>4, <2>6 DEF Later, Waits
    <3>3. Samples'
      BY <1>1, <2>4, <2>6 DEF Later, Samples
    <3>4. QED BY <3>1, <3>2, <3>3 DEF Waits, Drafts
  <2>8. QED BY <2>3, <2>7 DEF Later
<1>7. QED BY <1>5, <1>6

LEMMA RefreshEndsLater ==
  ASSUME TypeInv, Later, NEW j \in RefreshSlots, RefreshEnds(j)
  PROVE  Later'
<1>0. TypeOK /\ Slots /\ view \in Views /\ j # None
  BY DEF TypeInv, TypeOK, RefreshSlots
<1> DEFINE waiting == {i \in ReadSlots : reads[i] # None /\ reads[i].waits = j}
<1>1. /\ Settle(waiting, IF Retried(j) THEN None ELSE mutation) /\ Quiet
      /\ view' = IF Retried(j) THEN [view EXCEPT !.operation = None] ELSE view
      /\ UNCHANGED <<host, used, open, generation, revision, written>>
  BY DEF RefreshEnds, native
<1>2. CASE Retried(j)
  <2>1. mutation' = None /\ mutation.phase = "retry"
    BY <1>1, <1>2 DEF Settle, Retried
  <2>2. view'.snapshot = view.snapshot /\ view'.draft = view.draft /\ view'.dirty = view.dirty
    BY <1>0, <1>1, <1>2 DEF Views
  <2>3. \A i \in ReadSlots : reads'[i] = None \/ reads'[i] = reads[i]
    BY <1>1 DEF Settle
  <2>4. Waits' /\ Drafts' /\ Samples'
    BY <1>1, <2>1, <2>3 DEF Later, Waits, Drafts, Samples
  <2>5. Shows'
    BY <1>1, <2>1, <2>2 DEF Later, Shows, Fresh, Before
  <2>6. QED BY <2>4, <2>5 DEF Later
<1>3. CASE ~Retried(j)
  <2>1. Settle(waiting, mutation) /\ view' = view
    BY <1>1, <1>3
  <2>2. mutation # None /\ mutation.phase = "readback" => mutation.waits \notin waiting
    BY <1>0, ReadBackCurrent DEF Later
  <2> HIDE DEF waiting
  <2>3. waiting \in SUBSET ReadSlots
    BY DEF waiting
  <2>4. \/ mutation' = mutation
        \/ /\ mutation # None /\ mutation' # None /\ mutation'.landed = mutation.landed
           /\ mutation.phase = "await" /\ mutation'.phase = "released"
    BY <2>1, <2>2, <2>3, SettledCommand DEF Later
  <2>5. Waits' /\ Samples'
    BY <1>1, <2>1, <2>3, SettledLater DEF Later
  <2>6. Drafts' /\ Shows'
    BY <1>1, <2>1, <2>4 DEF Later, Drafts, Shows, Fresh, Before
  <2>7. QED BY <2>5, <2>6 DEF Later
<1>4. QED BY <1>2, <1>3

\* Steps of the machine take the host on and show nothing.
LEMMA MachineLater == ASSUME TypeInv, Later, Machine PROVE Later'
<1>0. TypeOK
  BY DEF TypeInv
<1>1. UNCHANGED <<open, generation, revision, reading, view, reads, written>>
  BY DEF Machine, WriteLands, OrphanLands, OthersChange, Reconnect, Page
<1>2. /\ \A f \in Forms : host'.prefs[f] >= host.prefs[f] /\ host'.prefs[f] <= used'.clock
      /\ \A f \in Forms : host'.prefs[f] \in Nat
  <2>1. CASE WriteLands \/ \E f \in Forms : OrphanLands(f) \/ OthersChange(f)
    <3>1. \/ UNCHANGED <<host, used>>
          \/ \E f \in Forms : Change(f) /\ used'.clock = used.clock + 1
      BY <1>0, <2>1 DEF WriteLands, OrphanLands, OthersChange, TypeOK
    <3>2. CASE \E f \in Forms : Change(f) /\ used'.clock = used.clock + 1
      <4>1. PICK f \in Forms : Change(f) /\ used'.clock = used.clock + 1
        BY <3>2
      <4>2. \A g \in Forms : host'.prefs[g] = IF g = f THEN used.clock + 1 ELSE host.prefs[g]
        BY <1>0, <4>1 DEF Change, TypeOK, Snapshots
      <4>3. QED BY <1>0, <4>1, <4>2, Values DEF Later, Samples
    <3>3. QED BY <1>0, <3>1, <3>2, Values DEF Later, Samples
  <2>2. CASE \E i \in Identities \cup {None} : Reconnect(i)
    <3>1. host'.prefs = host.prefs /\ used'.clock = used.clock
      BY <1>0, <2>2 DEF Reconnect, TypeOK, Snapshots
    <3>2. QED BY <1>0, <3>1, Values DEF Later, Samples
  <2>3. QED BY <2>1, <2>2 DEF Machine
<1>3. \/ mutation' = mutation
      \/ /\ mutation # None /\ mutation' # None /\ view.operation \in Forms
         /\ mutation'.phase = mutation.phase /\ mutation'.waits = mutation.waits
         /\ mutation'.landed = host'.prefs[view.operation]
  <2>1. CASE WriteLands
    <3>1. /\ mutation # None /\ mutation \in Mutations /\ view.operation \in Forms
          /\ mutation' = [mutation EXCEPT !.landed = used.clock + 1]
          /\ host' = [host EXCEPT !.prefs[view.operation] = used.clock + 1]
      BY <1>0, <2>1 DEF WriteLands, Change, TypeOK
    <3>2. TypeOK'
      BY NextTypeInv DEF Next, TypeInv
    <3>3. mutation'.phase = mutation.phase /\ mutation'.waits = mutation.waits
          /\ mutation'.landed = used.clock + 1
      BY <3>1 DEF Mutations
    <3>4. host'.prefs[view.operation] = used.clock + 1
      BY <1>0, <3>1 DEF TypeOK, Snapshots
    <3>5. mutation' # None
      <4>1. used.clock + 1 \in Changes
        BY <1>0, <3>2, <2>1 DEF WriteLands, TypeOK
      <4>2. mutation' \in Mutations
        BY <3>1, <4>1 DEF Mutations
      <4>3. QED BY <4>2
    <3>6. QED BY <3>1, <3>3, <3>4, <3>5
  <2>2. CASE ~WriteLands
    BY <2>2 DEF Machine, OrphanLands, OthersChange, Reconnect
  <2>3. QED BY <2>1, <2>2
<1>4. Waits'
  BY <1>1, <1>3 DEF Later, Waits
<1>5. Drafts'
  <2>1. mutation # None /\ view.operation \in Forms => mutation.landed \in Nat
    BY <1>0 DEF TypeOK, Mutations, Changes
  <2>2. QED BY <1>0, <1>1, <1>2, <1>3, <2>1, Values DEF Later, Drafts, Before
<1>6. Samples'
  BY <1>0, <1>1, <1>2, Values DEF Later, Samples
<1>7. Shows'
  BY <1>1, <1>3 DEF Later, Shows, Fresh, Before
<1>8. QED BY <1>4, <1>5, <1>6, <1>7 DEF Later

LEMMA NextLater == TypeInv /\ Later /\ [Next]_vars => Later'
<1> SUFFICES ASSUME TypeInv, Later, [Next]_vars PROVE Later'
  OBVIOUS
<1>1. CASE Person
  BY <1>1, StartLater, StopLater, OtherCommandLater, EditLater, ApplyLater DEF Person
<1>2. CASE Machine
  BY <1>2, MachineLater
<1>3. CASE TimerFires \/ ReadBack \/ EndOperation
  BY <1>3, TimerLater, ReadBackLater, EndOperationLater
<1>4. CASE \E done \in BOOLEAN : CommandEnds(done)
  BY <1>4, EndsLater
<1>5. CASE \E i \in ReadSlots : ReadStep(i)
  BY <1>5, SampleLater, DeliverLateLater, DeliverLater, ReadFailsLater DEF ReadStep
<1>6. CASE \E j \in RefreshSlots : RefreshEnds(j)
  BY <1>6, RefreshEndsLater
<1>7. CASE UNCHANGED vars
  BY <1>7 DEF vars, tasks, Later, Waits, Drafts, Samples, Shows, Fresh, Before
<1>8. QED BY <1>1, <1>2, <1>3, <1>4, <1>5, <1>6, <1>7 DEF Next

\* Once a command has ended, the page shows no preference from before the
\* write it reported as saved.
THEOREM NothingOlder == Spec => []NothingOlderThanSaved
<1>1. TypeInv /\ Later => NothingOlderThanSaved
  BY DEF Later, Shows, Fresh, NothingOlderThanSaved
<1>2. QED BY <1>1, InitTypeInv, NextTypeInv, InitLater, NextLater, PTL DEF Spec

-----------------------------------------------------------------------------
\* A draft that the person has changed and not saved is not replaced by the
\* observer: it changes only when the page is activated anew or closed.
THEOREM DraftsKept == Spec => DraftsAreKept
<1>1. ASSUME TypeInv, [Next]_vars, NEW f \in Forms, view.dirty[f], view'.draft[f] # view.draft[f]
      PROVE  generation' # generation \/ view'.draft[f] = Chosen
  <2>0. TypeOK /\ Slots /\ view \in Views /\ generation \in Nat
    BY <1>1 DEF TypeInv, TypeOK
  <2>1. CASE Start \/ Stop
    BY <2>0, <2>1 DEF Start, Stop
  <2>2. ASSUME NEW g \in Forms, Edit(g) \/ Apply(g)
        PROVE  view'.draft[f] = Chosen
    <3>1. view'.draft = [view.draft EXCEPT ![g] = Chosen]
      BY <2>0, <2>2 DEF Edit, Apply, Views
    <3>2. QED BY <1>1, <2>0, <3>1 DEF Views
  <2>3. ~(SignIn \/ RetryForgejo \/ ReadBack)
    BY <1>1, <2>0 DEF SignIn, RetryForgejo, ReadBack, Saved, Views
  <2>4. ~EndOperation
    <3>1. SUFFICES ASSUME EndOperation PROVE FALSE
      OBVIOUS
    <3>2. [view EXCEPT !.operation = None] \in Views /\ open
      BY <1>1, <2>0, <3>1, ViewTypes DEF Operations, TypeInv, EndOperation
    <3>3. view' = [[view EXCEPT !.operation = None] EXCEPT !.identity = view'.identity]
      BY <2>0, <3>1, <3>2, SyncType DEF EndOperation
    <3>4. QED BY <1>1, <2>0, <3>3 DEF Views
  <2>5. ASSUME NEW i \in ReadSlots, ReadStep(i) PROVE FALSE
    <3>1. CASE Sample(i) \/ DeliverLate(i)
      BY <1>1, <3>1 DEF Sample, DeliverLate
    <3>2. CASE ReadFails(i)
      BY <1>1, <2>0, <3>2 DEF ReadFails, Views
    <3>3. CASE Deliver(i)
      <4>1. reads[i] \in Reads /\ open
        BY <2>0, <3>3 DEF Deliver, TypeOK, Current
      <4>2. Shown(reads[i]) \in Views /\ Shown(reads[i]).draft[f] = view.draft[f]
        BY <1>1, <2>0, <4>1, ShownType
      <4>3. \/ view' = Shown(reads[i])
            \/ view' = [Shown(reads[i]) EXCEPT !.identity = view'.identity]
        BY <2>0, <3>3, <4>1, <4>2, SyncType DEF Deliver
      <4>4. QED BY <1>1, <4>2, <4>3 DEF Views
    <3>4. QED BY <2>5, <3>1, <3>2, <3>3 DEF ReadStep
  <2>6. ASSUME NEW j \in RefreshSlots, RefreshEnds(j) PROVE FALSE
    BY <1>1, <2>0, <2>6 DEF RefreshEnds, Views
  <2>7. ~(Machine \/ TimerFires \/ (\E done \in BOOLEAN : CommandEnds(done)) \/ UNCHANGED vars)
    BY <1>1 DEF Machine, WriteLands, OrphanLands, OthersChange, Reconnect, Page, TimerFires,
                CommandEnds, vars
  <2>8. QED BY <1>1, <2>1, <2>2, <2>3, <2>4, <2>5, <2>6, <2>7 DEF Next, Person
<1>2. TypeInv /\ [Next]_vars =>
        [\A f \in Forms : view.dirty[f] /\ view'.draft[f] # view.draft[f] =>
           generation' # generation \/ view'.draft[f] = Chosen]_vars
  BY <1>1
<1>3. QED BY <1>2, InitTypeInv, NextTypeInv, PTL DEF Spec, DraftsAreKept
===============================================================================
