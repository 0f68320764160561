-------------------------- MODULE MapStoreSummary --------------------------
(***************************************************************************)
(* The store summary: the folders of an account in a key file, with two    *)
(* hash tables from folder ids to full names and back                      *)
(* (camel/camel-map-store-summary.c).                                      *)
(*                                                                         *)
(* All functions hold the summary's lock, so each is one action.  The      *)
(* hash tables share their strings: the keys of fname_id are the values of *)
(* id_fname and are freed with them.  An entry of fname_id therefore       *)
(* records whose string its key is.  A NULL key or an endless recursion    *)
(* ends the process; what a freed key does is undefined, and nothing is    *)
(* said of a summary that has one.                                         *)
(***************************************************************************)
EXTENDS Naturals, FiniteSets, SequencesExt

CONSTANTS
    Ids,            \* folder ids
    Names,          \* display names
    Values,         \* what the other keys of a group hold: flags, totals, ...
    NoId,           \* no ParentFolderId
    NoName,         \* no DisplayName, and a NULL full name
    NoFile,         \* no file at the summary's path
    Freed,          \* the owner of a string that was freed
    Orderly,        \* TRUE: the callers keep the folders a tree, see Tidy
    MaxOps          \* bound: changes made to the folders

ASSUME OrderlyIsBoolean == Orderly \in BOOLEAN

ASSUME BoundIsNat == MaxOps \in Nat

ASSUME IdsAreFinite == IsFiniteSet(Ids) /\ NoId \notin Ids

ASSUME FreedIsNoId == Freed \notin Ids

ASSUME ValuesExist == Values # {}

ASSUME NoNameIsNone ==
    /\ NoName \notin Names
    /\ \A n \in 1..Cardinality(Ids) : NoName \notin [1..n -> Names]

VARIABLES
    key_file,       \* groups: what is known of each folder; versioned: the
                    \* Version key of the store's own group is there
    dirty,
    disk,           \* the file at path: the same, or NoFile
    id_fname,       \* id_fname_hash: id -> full name
    fname_id,       \* fname_id_hash: full name -> id, and owner of the key
    deleted,        \* the monitor has a deletion of the file to report
    stale,          \* history: the key file was cleared since the hash tables
                    \* were last built
    unsaved,        \* history: the last attempt to save failed
    alive,          \* FALSE: the process ended; it is started again
    ops             \* number of changes, bounded by MaxOps

file   == <<key_file, dirty>>
hashes == <<id_fname, fname_id>>

vars == <<file, disk, hashes, deleted, stale, unsaved, alive, ops>>

----------------------------------------------------------------------------
(* Full names.                                                             *)

Empty == <<>>

Group(parent, name, value) ==
    [parent |-> parent, name |-> name, value |-> value]

NameOf(groups, i)   == IF i \in DOMAIN groups THEN groups[i].name ELSE NoName
ParentOf(groups, i) == IF i \in DOMAIN groups THEN groups[i].parent ELSE NoId

\* The parents of i, nearest first; cyclic when i is among its own ancestors.
Ancestors(groups, i) ==
    LET up[n \in 0..Cardinality(Ids)] ==
            IF n = 0 THEN {i}
            ELSE {ParentOf(groups, j) : j \in up[n - 1]} \ {NoId}
    IN UNION {up[n] : n \in 1..Cardinality(Ids)}

Cyclic(groups, i) == \E j \in {i} \cup Ancestors(groups, i) :
                        j \in Ancestors(groups, j)

\* The names from the root down to i; an ancestor without a name ends the path.
BuildFullName(groups, i) ==
    LET path[n \in 0..Cardinality(Ids)] ==
            [j \in Ids |->
                IF NameOf(groups, j) = NoName THEN NoName
                ELSE LET p == ParentOf(groups, j)
                         above == IF p = NoId \/ n = 0 THEN NoName
                                                      ELSE path[n - 1][p]
                     IN IF above = NoName THEN <<NameOf(groups, j)>>
                                          ELSE Append(above, NameOf(groups, j))]
    IN path[Cardinality(Ids)][i]

\* What a caller that mirrors a tree of folders keeps true: named folders,
\* parents that exist, no cycle, and no two folders of one full name.
Tidy(groups) ==
    /\ \A i \in DOMAIN groups :
          /\ groups[i].name # NoName
          /\ groups[i].parent \in DOMAIN groups \cup {NoId}
          /\ ~Cyclic(groups, i)
    /\ \A i, j \in DOMAIN groups :
          BuildFullName(groups, i) = BuildFullName(groups, j) => i = j

----------------------------------------------------------------------------
(* Hash tables: h has both of them, and whether the process still runs.    *)

Hashes == [ids |-> id_fname, names |-> fname_id, ok |-> TRUE]

Without(f, k) == [x \in DOMAIN f \ {k} |-> f[x]]
With(f, k, v) == [x \in DOMAIN f \cup {k} |-> IF x = k THEN v ELSE f[x]]

\* The strings of i are freed: whatever still refers to them is left hanging.
FreeStrings(names, i) ==
    [n \in DOMAIN names |->
        IF names[n].owner = i \/ names[n].id = i
        THEN [names[n] EXCEPT !.owner = Freed] ELSE names[n]]

\* g_hash_table_insert keeps the key of an entry that is already there.
InsertName(names, n, i) ==
    With(names, n, [id |-> i, owner |-> IF n \in DOMAIN names
                                        THEN names[n].owner ELSE i])

\* map_ss_hash_replace without the subfolders.
ReplaceOne(groups, h, i) ==
    LET known == i \in DOMAIN h.ids
        full  == BuildFullName(groups, i)
        fits  == /\ ~Cyclic(groups, i) /\ full # NoName
                 /\ known => h.ids[i] \in DOMAIN h.names
        rest  == IF known /\ h.names[h.ids[i]].id = i
                 THEN Without(h.names, h.ids[i]) ELSE h.names
        kept  == IF known THEN FreeStrings(rest, i) ELSE rest
    IN IF ~h.ok \/ ~fits THEN [h EXCEPT !.ok = FALSE]
       ELSE [ids |-> With(h.ids, i, full), names |-> InsertName(kept, full, i),
             ok |-> TRUE]

\* The folders whose entry lies below the old full name of i.
Subfolders(h, i, names) ==
    IF i \in DOMAIN h.ids /\ h.names[h.ids[i]].id = i
    THEN {names[n].id : n \in {m \in DOMAIN names : IsStrictPrefix(h.ids[i], m)}}
    ELSE {}

ReplaceEach(groups, h, order) ==
    FoldLeft(LAMBDA g, i : ReplaceOne(groups, g, i), h, order)

\* map_ss_hash_replace; the subfolders come in the order of the hash table.
HashReplace(groups, i, recurse) ==
    LET one == ReplaceOne(groups, Hashes, i)
    IN IF one.ok /\ recurse
       THEN {ReplaceEach(groups, one, order) :
                order \in SetToSeqs(Subfolders(Hashes, i, one.names))}
       ELSE {one}

\* The body of the loop of load_id_fname_hash.
AddOne(groups, h, i) ==
    LET full == BuildFullName(groups, i)
    IN [h EXCEPT !.ids = With(@, i, full), !.names = InsertName(@, full, i)]

AddEach(groups, h, order) ==
    FoldLeft(LAMBDA g, i : AddOne(groups, g, i), h, order)

NoHashes == [ids |-> Empty, names |-> Empty, ok |-> TRUE]

\* load_id_fname_hash; the folders come in the order of the key file.
LoadHashes(groups) ==
    LET named == {i \in DOMAIN groups : groups[i].name # NoName}
    IN IF \E i \in named : Cyclic(groups, i)
       THEN {[NoHashes EXCEPT !.ok = FALSE]}
       ELSE {AddEach(groups, NoHashes, order) : order \in SetToSeqs(named)}

\* The hash tables become h, or the process ends.
SetHashes(h) ==
    IF h.ok THEN id_fname' = h.ids /\ fname_id' = h.names /\ UNCHANGED alive
            ELSE UNCHANGED hashes /\ alive' = FALSE

\* No key of fname_id was freed under it.
KeysLive == \A n \in DOMAIN fname_id : fname_id[n].owner # Freed

Running == alive /\ KeysLive

----------------------------------------------------------------------------

NewFile == [groups |-> Empty, versioned |-> TRUE]

\* camel_map_store_summary_new and camel_map_store_summary_load, which the
\* store calls one after the other: a file without the version is cleared.
LoadFrom(contents) ==
    LET kept == contents # NoFile /\ contents.versioned
    IN /\ key_file' = IF kept THEN contents ELSE NewFile
       /\ dirty' = ~kept
       /\ \E h \in LoadHashes(IF kept THEN contents.groups ELSE Empty) :
             id_fname' = h.ids /\ fname_id' = h.names /\ alive' = h.ok

Init ==
    /\ key_file = NewFile
    /\ dirty = TRUE
    /\ disk = NoFile
    /\ id_fname = Empty
    /\ fname_id = Empty
    /\ deleted = FALSE
    /\ stale = FALSE
    /\ unsaved = FALSE
    /\ alive = TRUE
    /\ ops = 0

Load ==
    /\ LoadFrom(disk)
    /\ deleted' = FALSE /\ stale' = FALSE /\ unsaved' = FALSE
    /\ UNCHANGED <<disk, ops>>

\* The flag is cleared even when the file could not be written.
Save ==
    /\ Running
    /\ dirty
    /\ \/ disk' = key_file /\ unsaved' = FALSE
       \/ UNCHANGED disk /\ unsaved' = TRUE
    /\ dirty' = FALSE
    /\ UNCHANGED <<key_file, hashes, deleted, stale, alive, ops>>

\* camel_map_store_summary_clear: a new key file, the old hash tables.
ClearFile ==
    /\ key_file' = [groups |-> Empty, versioned |-> FALSE]
    /\ dirty' = TRUE
    /\ stale' = TRUE
    /\ UNCHANGED hashes

\* camel_map_store_summary_remove
RemoveFile ==
    /\ Running
    /\ ClearFile
    /\ disk' = NoFile
    /\ deleted' = (deleted \/ disk # NoFile)
    /\ UNCHANGED <<unsaved, alive, ops>>

\* Somebody else deletes the file.
FileDeleted ==
    /\ disk # NoFile
    /\ disk' = NoFile
    /\ deleted' = TRUE
    /\ UNCHANGED <<file, hashes, stale, unsaved, alive, ops>>

\* monitor_delete_cb, whenever the main loop comes to it.
MonitorDelete ==
    /\ Running
    /\ deleted
    /\ deleted' = FALSE
    /\ ClearFile
    /\ UNCHANGED <<disk, unsaved, alive, ops>>

RebuildHashes ==
    /\ Running
    /\ \E h \in LoadHashes(key_file.groups) : SetHashes(h)
    /\ stale' = FALSE
    /\ UNCHANGED <<file, disk, deleted, unsaved, ops>>

\* A setter: the groups become g, dirty is set; an orderly caller does this
\* only when the folders stay a tree.
SetGroups(g) ==
    /\ Running
    /\ Orderly => Tidy(g)
    /\ ops < MaxOps
    /\ ops' = ops + 1
    /\ key_file' = [key_file EXCEPT !.groups = g]
    /\ dirty' = TRUE
    /\ UNCHANGED <<disk, deleted, stale, unsaved>>

GroupOf(i) == IF i \in DOMAIN key_file.groups THEN key_file.groups[i]
              ELSE Group(NoId, NoName, CHOOSE v \in Values : TRUE)

\* Mutant of SetFolderName: the subfolders keep their old full names.
SetFolderNameOnly(i, name) ==
    LET g == With(key_file.groups, i, [GroupOf(i) EXCEPT !.name = name])
    IN /\ SetGroups(g)
       /\ \E h \in HashReplace(g, i, FALSE) : SetHashes(h)

SetFolderName(i, name) ==
    LET g == With(key_file.groups, i, [GroupOf(i) EXCEPT !.name = name])
    IN /\ SetGroups(g)
       /\ \E h \in HashReplace(g, i, TRUE) : SetHashes(h)

\* A NULL parent leaves a parent that is there alone.
NewFolder(i, parent, name, value) ==
    LET p == IF parent = NoId THEN GroupOf(i).parent ELSE parent
        g == With(key_file.groups, i, Group(p, name, value))
    IN /\ Orderly => i \notin DOMAIN key_file.groups
       /\ SetGroups(g)
       /\ \E h \in HashReplace(g, i, FALSE) : SetHashes(h)

SetParentFolderId(i, parent) ==
    LET g == IF parent = NoId /\ i \notin DOMAIN key_file.groups
             THEN key_file.groups
             ELSE With(key_file.groups, i, [GroupOf(i) EXCEPT !.parent = parent])
    IN /\ Orderly => i \in DOMAIN key_file.groups
       /\ SetGroups(g)
       /\ \E h \in HashReplace(g, i, TRUE) : SetHashes(h)

\* set_change_key, set_sync_state, set_folder_flags, set_folder_unread and
\* set_folder_total.
SetValue(i, value) ==
    /\ SetGroups(With(key_file.groups, i, [GroupOf(i) EXCEPT !.value = value]))
    /\ UNCHANGED <<hashes, alive>>

\* Mutant of RemoveFolder: the change is not marked for saving.
RemoveFolderClean(i) ==
    LET g == Without(key_file.groups, i)
    IN /\ i \in DOMAIN id_fname
       /\ Running
       /\ Orderly => Tidy(g)
       /\ ops < MaxOps
       /\ ops' = ops + 1
       /\ key_file' = [key_file EXCEPT !.groups = g]
       /\ fname_id' = FreeStrings(Without(fname_id, id_fname[i]), i)
       /\ id_fname' = Without(id_fname, i)
       /\ UNCHANGED <<dirty, disk, deleted, stale, unsaved, alive>>

\* Mutant of RemoveFolder: the entry of the id is emptied but stays.
RemoveFolderBlank(i) ==
    /\ i \in DOMAIN id_fname
    /\ SetGroups(Without(key_file.groups, i))
    /\ fname_id' = FreeStrings(Without(fname_id, id_fname[i]), i)
    /\ id_fname' = [id_fname EXCEPT ![i] = NoName]
    /\ UNCHANGED alive

\* Mutant of RemoveFolder: the id keeps its full name.
RemoveFolderByName(i) ==
    /\ i \in DOMAIN id_fname
    /\ SetGroups(Without(key_file.groups, i))
    /\ fname_id' = Without(fname_id, id_fname[i])
    /\ UNCHANGED <<id_fname, alive>>

\* Mutant of RemoveFolder: the full name keeps its entry.
RemoveFolderKeepingName(i) ==
    /\ i \in DOMAIN id_fname
    /\ SetGroups(Without(key_file.groups, i))
    /\ fname_id' = FreeStrings(fname_id, i)
    /\ id_fname' = Without(id_fname, i)
    /\ UNCHANGED alive

\* The entry of the full name goes, whichever folder it points to.
RemoveFolder(i) ==
    /\ i \in DOMAIN id_fname
    /\ SetGroups(Without(key_file.groups, i))
    /\ fname_id' = FreeStrings(Without(fname_id, id_fname[i]), i)
    /\ id_fname' = Without(id_fname, i)
    /\ UNCHANGED alive

Next ==
    \/ Load \/ Save \/ RemoveFile \/ FileDeleted \/ MonitorDelete \/ RebuildHashes
    \/ \E i \in Ids :
          \/ \E n \in Names : SetFolderName(i, n)
          \/ \E p \in Ids \cup {NoId} :
                \/ SetParentFolderId(i, p)
                \/ \E n \in Names, v \in Values : NewFolder(i, p, n, v)
          \/ \E v \in Values : SetValue(i, v)
          \/ RemoveFolder(i)

Spec == Init /\ [][Next]_vars

----------------------------------------------------------------------------
(* Properties.                                                             *)

FullNames == UNION {[1..n -> Names] : n \in 1..Cardinality(Ids)}

IsFile(f) ==
    /\ DOMAIN f.groups \subseteq Ids
    /\ \A i \in DOMAIN f.groups :
          f.groups[i] \in [parent : Ids \cup {NoId}, name : Names \cup {NoName},
                           value : Values]
    /\ f.versioned \in BOOLEAN

\* Type correctness of the whole state.
TypeOK ==
    /\ IsFile(key_file)
    /\ disk = NoFile \/ IsFile(disk)
    /\ DOMAIN id_fname \subseteq Ids
    /\ \A i \in DOMAIN id_fname : id_fname[i] \in FullNames
    /\ DOMAIN fname_id \subseteq FullNames
    /\ \A n \in DOMAIN fname_id :
          fname_id[n] \in [id : Ids, owner : Ids \cup {Freed}]
    /\ {dirty, deleted, stale, unsaved, alive} \subseteq BOOLEAN
    /\ ops \in 0..MaxOps

\* For orderly callers the two hash tables are what building them from the key
\* file would give: every folder under the full name its ancestors spell, after
\* any sequence of renames, moves and removals, and inverse to one another.
HashesMatchFile ==
    Orderly /\ ~stale /\ alive =>
        /\ DOMAIN id_fname = DOMAIN key_file.groups
        /\ \A i \in DOMAIN id_fname :
              /\ id_fname[i] = BuildFullName(key_file.groups, i)
              /\ fname_id[id_fname[i]].id = i
        /\ DOMAIN fname_id = {id_fname[i] : i \in DOMAIN id_fname}

\* For orderly callers no function meets a NULL name, a full name without an
\* entry or a cycle of parents, as long as the file was not cleared meanwhile.
OrderlyKeepsRunning ==
    Orderly /\ ~stale => alive

\* Orderly callers never leave a full name in the table whose string was freed
\* with the entry of a folder that was renamed, moved or removed.
OrderlyKeysLive ==
    Orderly /\ ~stale => KeysLive

\* What is not marked for saving is saved, unless the file could not be written
\* or was deleted and the monitor has not come to that.
DirtyIsExact ==
    ~dirty => disk = key_file \/ unsaved \/ deleted

\* "entries must always be removed from fname_id_hash *first*"
\* (camel-map-store-summary.c:17-19): no key of fname_id is freed with the
\* entry of id_fname that owns it.
NoFreedKeys == KeysLive

============================================================================
