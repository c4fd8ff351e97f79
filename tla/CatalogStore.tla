---------------------------- MODULE CatalogStore ----------------------------
(***************************************************************************)
(* How the project catalog file is changed (projects/catalog/store.go):    *)
(* under the catalog lock a writer reads all entries, changes one, writes  *)
(* all of them to a temporary file, syncs it, renames it over the catalog  *)
(* and syncs the directory.  Readers take no lock: they open whatever the  *)
(* name refers to.  Writers may fail or be killed between any two of these *)
(* steps, and the machine may lose power.                                  *)
(***************************************************************************)
EXTENDS Naturals, Sequences, FiniteSets, Functions

CONSTANTS Writers,   \* slots for concurrent mutations
          IDs,       \* project identifiers: numbers, for their order
          Names, URLs, \* texts that Validate accepts
          Notes,     \* further metadata, raw
          Bad,       \* a value of another type, or a text that Validate refuses
          MaxCrashes,
          Torn,      \* a file that is not JSON
          None

VARIABLES file,   \* the file that the catalog's name refers to: JSON objects, or Torn
          synced, \* whether those contents were synced before the rename
          disk,   \* contents of the catalog that a power loss cannot undo
          lock,   \* the writer that holds the catalog lock
          wpc,    \* control state of each writer
          change, \* what it was asked for
          memory, \* the entries it has read and changed
          temp,   \* contents of its temporary file
          crashes

vars == <<file, synced, disk, lock, wpc, change, memory, temp, crashes>>

\* An entry, and the edit of one.  Whatever has no field of its own is "note".
Entries == [id : IDs, name : Names, url : URLs, note : Notes \cup {None}]
Edits == [id : IDs, name : Names, note : Notes \cup {None}]

\* A JSON object is a function from the names of its fields.
WellFormed == [id : IDs, display_name : Names, canonical_url : URLs, note : Notes]
Objects ==
    LET named == UNION {{[f \in fields |-> object[f]] : object \in WellFormed} :
                          fields \in SUBSET {"id", "display_name", "canonical_url", "note"}}
    IN  named \cup UNION {{[object EXCEPT ![f] = Bad] : f \in DOMAIN object \ {"note"}} :
                             object \in named}

Has(object, fields) == \A f \in fields : f \in DOMAIN object /\ object[f] # Bad
NoteOf(object) == IF "note" \in DOMAIN object THEN object.note ELSE None

\* entryFromValues and editFromValues: an entry has every required field, an
\* edit has no canonical URL.
EntryOf(object) ==
    IF Has(object, {"id", "display_name", "canonical_url"})
    THEN [id |-> object.id, name |-> object.display_name, url |-> object.canonical_url,
          note |-> NoteOf(object)]
    ELSE None

EditOf(object) ==
    IF Has(object, {"id", "display_name"}) /\ "canonical_url" \notin DOMAIN object
    THEN [id |-> object.id, name |-> object.display_name, note |-> NoteOf(object)]
    ELSE None

\* Edit.Apply: everything but the identity is replaced.
Apply(edit, current) == [current EXCEPT !.name = edit.name, !.note = edit.note]

\* jsonObject.
ObjectOf(entry) ==
    LET object == [id |-> entry.id, display_name |-> entry.name,
                   canonical_url |-> entry.url, note |-> entry.note]
    IN  [f \in DOMAIN object \ (IF entry.note = None THEN {"note"} ELSE {}) |-> object[f]]

\* sort.Slice by ID.
ByID(a, b) == a.id < b.id
Sorted(entries) ==
    LET positions == DOMAIN entries
        order == CHOOSE p \in Bijection(positions, positions) :
                   \A i, k \in positions : i < k => ~ByID(entries[p[k]], entries[p[i]])
    IN  [i \in positions |-> entries[order[i]]]

\* decodeCatalog: one object that is no entry, or a second one for an ID, and
\* nothing can be read.
Decoded(contents) ==
    LET entries == [i \in DOMAIN contents |-> EntryOf(contents[i])] IN
    IF contents = Torn \/ None \in {entries[i] : i \in DOMAIN entries}
    THEN Torn
    ELSE IF \E i, k \in DOMAIN entries : i < k /\ entries[i].id = entries[k].id
         THEN Torn ELSE Sorted(entries)

Encoded(entries) == [i \in DOMAIN entries |-> ObjectOf(entries[i])]

\* The catalogs there may be, in the order in which they are written.
Catalogs ==
    UNION {{e \in [1 .. n -> Entries] : \A i, k \in 1 .. n : i < k => ByID(e[i], e[k])} :
             n \in 0 .. Cardinality(IDs)}
Files == {Encoded(entries) : entries \in Catalogs}
NoTemp   == [data |-> Torn, synced |-> FALSE]

\* The requests that strictjson and the decoders let through.
Changes ==
    [action : {"add"}, entry : {EntryOf(object) : object \in Objects} \ {None}]
    \cup [action : {"edit"}, edit : {EditOf(object) : object \in Objects} \ {None}]
    \cup [action : {"remove"}, id : IDs]
NoChange == [action |-> "none"]

ASSUME CatalogStoreAssumption ==
    /\ None \notin Entries \cup Edits \cup Notes \cup Writers
    /\ Bad \notin IDs \cup Names \cup URLs
    /\ IDs \subseteq Nat /\ IsFiniteSet(IDs)
    /\ Torn \notin Files \cup Catalogs
    /\ MaxCrashes \in Nat

Init ==
    /\ file \in Files /\ synced = TRUE /\ disk = file
    /\ lock = None
    /\ wpc = [w \in Writers |-> "idle"]
    /\ change = [w \in Writers |-> NoChange]
    /\ memory = [w \in Writers |-> <<>>]
    /\ temp = [w \in Writers |-> NoTemp]
    /\ crashes = 0

Goes(w, l) == wpc' = [wpc EXCEPT ![w] = l] /\ UNCHANGED <<lock, crashes>>

\* Mutation: a lock that does not exclude.
Lock_Shared(w) ==
    /\ wpc[w] = "idle"
    /\ lock' = w
    /\ \E c \in Changes : change' = [change EXCEPT ![w] = c]
    /\ wpc' = [wpc EXCEPT ![w] = "list"]
    /\ UNCHANGED <<file, synced, disk, memory, temp, crashes>>

\* Lock, for a new request.
Lock(w) ==
    /\ wpc[w] = "idle" /\ lock = None
    /\ lock' = w
    /\ \E c \in Changes : change' = [change EXCEPT ![w] = c]
    /\ wpc' = [wpc EXCEPT ![w] = "list"]
    /\ UNCHANGED <<file, synced, disk, memory, temp, crashes>>

\* listUnlocked: an unreadable catalog ends the mutation.
ListEntries(w) ==
    /\ wpc[w] = "list"
    /\ \/ /\ Decoded(file) # Torn /\ memory' = [memory EXCEPT ![w] = Decoded(file)]
          /\ Goes(w, "change")
       \/ Goes(w, "failed") /\ UNCHANGED memory
    /\ UNCHANGED <<file, synced, disk, change, temp>>

Without(entries, i) == SubSeq(entries, 1, i - 1) \o SubSeq(entries, i + 1, Len(entries))

\* What Add, Edit and Remove make of the entries, or Torn: an add needs an
\* absent ID, an edit and a removal need a present one (mutation: an add does
\* not look).
Changed_AddsTwice(entries, c) ==
    LET at(id) == {i \in DOMAIN entries : entries[i].id = id} IN
    CASE c.action = "add" -> Append(entries, c.entry)
      [] c.action = "edit" /\ at(c.edit.id) # {} ->
           [entries EXCEPT ![CHOOSE i \in at(c.edit.id) : TRUE] = Apply(c.edit, @)]
      [] c.action = "remove" /\ at(c.id) # {} ->
           Without(entries, CHOOSE i \in at(c.id) : TRUE)
      [] OTHER -> Torn

Changed(entries, c) ==
    LET at(id) == {i \in DOMAIN entries : entries[i].id = id} IN
    CASE c.action = "add" /\ at(c.entry.id) = {} -> Append(entries, c.entry)
      [] c.action = "edit" /\ at(c.edit.id) # {} ->
           [entries EXCEPT ![CHOOSE i \in at(c.edit.id) : TRUE] = Apply(c.edit, @)]
      [] c.action = "remove" /\ at(c.id) # {} ->
           Without(entries, CHOOSE i \in at(c.id) : TRUE)
      [] OTHER -> Torn

ChangeEntries(w) ==
    /\ wpc[w] = "change"
    /\ LET changed == Changed(memory[w], change[w]) IN
       IF changed # Torn
       THEN /\ memory' = [memory EXCEPT ![w] = Sorted(changed)]
            /\ Goes(w, "create")
       ELSE Goes(w, "failed") /\ UNCHANGED memory
    /\ UNCHANGED <<file, synced, disk, change, temp>>

\* write: CreateTemp, populateTemporary, Rename, syncDirectory.  A failure
\* before the rename discards the temporary file.
CreateTemp(w) ==
    /\ wpc[w] = "create"
    /\ temp' = [temp EXCEPT ![w] = NoTemp]
    /\ Goes(w, "encode") \/ Goes(w, "failed")
    /\ UNCHANGED <<file, synced, disk, change, memory>>

Discard(w) ==
    /\ wpc[w] \in {"encode", "sync", "rename"}
    /\ temp' = [temp EXCEPT ![w] = NoTemp]
    /\ Goes(w, "failed")
    /\ UNCHANGED <<file, synced, disk, change, memory>>

Encode(w) ==
    /\ wpc[w] = "encode"
    /\ temp' = [temp EXCEPT ![w].data = Encoded(memory[w])]
    /\ Goes(w, "sync")
    /\ UNCHANGED <<file, synced, disk, change, memory>>

\* Mutation: the temporary file is not synced.
SyncTemp_Skipped(w) ==
    /\ wpc[w] = "sync"
    /\ Goes(w, "rename")
    /\ UNCHANGED <<file, synced, disk, change, memory, temp>>

SyncTemp(w) ==
    /\ wpc[w] = "sync"
    /\ temp' = [temp EXCEPT ![w].synced = TRUE]
    /\ Goes(w, "rename")
    /\ UNCHANGED <<file, synced, disk, change, memory>>

RenameTemp(w) ==
    /\ wpc[w] = "rename"
    /\ file' = temp[w].data /\ synced' = temp[w].synced
    /\ temp' = [temp EXCEPT ![w] = NoTemp]
    /\ Goes(w, "syncDirectory")
    /\ UNCHANGED <<disk, change, memory>>

\* A failed directory sync is an error although the change is visible.
SyncDirectory(w) ==
    /\ wpc[w] = "syncDirectory"
    /\ \/ disk' = file /\ Goes(w, "succeeded")
       \/ UNCHANGED disk /\ Goes(w, "uncertain")
    /\ UNCHANGED <<file, synced, change, memory, temp>>

\* Close unlocks; then the outcome is reported.
Close(w) ==
    /\ wpc[w] \in {"succeeded", "uncertain", "failed"}
    /\ wpc' = [wpc EXCEPT ![w] = "idle"]
    /\ lock' = None
    /\ change' = [change EXCEPT ![w] = NoChange]
    /\ memory' = [memory EXCEPT ![w] = <<>>]
    /\ UNCHANGED <<file, synced, disk, temp, crashes>>

-----------------------------------------------------------------------------
\* A killed writer's lock is free; its temporary file is never read again.
Kill(w) ==
    /\ crashes < MaxCrashes /\ crashes' = crashes + 1
    /\ wpc[w] # "idle" /\ wpc' = [wpc EXCEPT ![w] = "idle"]
    /\ lock' = None
    /\ change' = [change EXCEPT ![w] = NoChange]
    /\ memory' = [memory EXCEPT ![w] = <<>>]
    /\ temp' = [temp EXCEPT ![w] = NoTemp]
    /\ UNCHANGED <<file, synced, disk>>

\* A rename whose directory was not synced may or may not survive; contents
\* that were not synced before it may be torn.
PowerLoss ==
    /\ crashes < MaxCrashes /\ crashes' = crashes + 1
    /\ file' \in {disk, file} \cup (IF synced THEN {} ELSE {Torn})
    /\ disk' = file' /\ synced' = TRUE
    /\ lock' = None
    /\ wpc' = [w \in Writers |-> "idle"]
    /\ change' = [w \in Writers |-> NoChange]
    /\ memory' = [w \in Writers |-> <<>>]
    /\ temp' = [w \in Writers |-> NoTemp]

WriterStep(w) ==
    \/ Lock(w) \/ ListEntries(w) \/ ChangeEntries(w) \/ CreateTemp(w) \/ Discard(w)
    \/ Encode(w) \/ SyncTemp(w) \/ RenameTemp(w) \/ SyncDirectory(w) \/ Close(w)

Next == PowerLoss \/ \E w \in Writers : WriterStep(w) \/ Kill(w)

Spec == Init /\ [][Next]_vars

-----------------------------------------------------------------------------
(* Properties                                                              *)

TypeOK ==
    /\ file \in Files /\ disk \in Files
    /\ synced \in BOOLEAN
    /\ lock \in Writers \cup {None}
    /\ wpc \in [Writers -> {"idle", "list", "change", "create", "encode", "sync", "rename",
                            "syncDirectory", "succeeded", "uncertain", "failed"}]
    /\ change \in [Writers -> Changes \cup {NoChange}]
    /\ memory \in [Writers -> Catalogs]
    /\ temp \in [Writers -> [data : Files \cup {Torn}, synced : BOOLEAN]]
    /\ crashes \in 0 .. MaxCrashes
    /\ \A w \in Writers : wpc[w] # "idle" <=> lock = w

\* The store implements the one-step promise of AtomicCatalog: no change is
\* lost or mixed with another, readers never meet a torn file, even after a
\* power loss, and a reported success survives one.
Shown(contents) ==
    LET entries == Decoded(contents) IN
    IF entries = Torn THEN Torn
    ELSE [j \in IDs |-> IF \E i \in DOMAIN entries : entries[i].id = j
                        THEN entries[CHOOSE i \in DOMAIN entries : entries[i].id = j] ELSE None]
Promise == INSTANCE AtomicCatalog WITH
    Values <- Entries,
    entries  <- Shown(file),
    stable   <- Shown(disk),
    applied  <- {w \in Writers : wpc[w] \in {"syncDirectory", "succeeded", "uncertain"}},
    reported <- {w \in Writers : wpc[w] = "succeeded"}
ImplementsAtomicCatalog == Promise!Spec

\* Readers get back exactly what the writer had in memory, however the entries
\* came to be: no sequence of adds, edits and removals writes a catalog that
\* decodeCatalog refuses, in whole, or reads otherwise.
ReadsBack ==
    \A w \in Writers : wpc[w] \in {"syncDirectory", "succeeded", "uncertain"} =>
                         Decoded(file) = memory[w]
=============================================================================
