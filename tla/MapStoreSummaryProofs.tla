----------------------- MODULE MapStoreSummaryProofs -----------------------
(***************************************************************************)
(* For any folders, names and values: what the hash tables of the store    *)
(* summary hold, that orderly callers never end the process, and what the  *)
(* dirty flag says of the file.  MapStoreSummaryNames has the lemmas about *)
(* full names and about the two tables.                                    *)
(***************************************************************************)
EXTENDS MapStoreSummaryNames

\* A key file with well-typed groups.
FileTyped(f) ==
    /\ f = [groups |-> f.groups, versioned |-> f.versioned]
    /\ f.versioned \in BOOLEAN
    /\ Groups(f.groups)

\* Type correctness, in the terms of the lemmas.
Typed ==
    /\ FileTyped(key_file)
    /\ disk = NoFile \/ FileTyped(disk)
    /\ HashesTyped(Hashes)
    /\ dirty \in BOOLEAN /\ deleted \in BOOLEAN /\ stale \in BOOLEAN
    /\ unsaved \in BOOLEAN /\ alive \in BOOLEAN
    /\ ops \in 0..MaxOps

\* What orderly callers leave in the key file and in the file is a tree.
TidyFiles ==
    Orderly => /\ Tidy(key_file.groups)
               /\ disk # NoFile => Tidy(disk.groups)

\* Unless the key file was cleared under them, the hash tables hold the folders
\* of the key file under their full names.
TablesMirror ==
    Orderly /\ ~stale =>
        /\ alive
        /\ Mirror(Hashes, DOMAIN key_file.groups, FullNamesOf(key_file.groups))

\* The inductive invariant: a rename looks for the entry of the folder and for
\* those of its subfolders, which the tables must have; loading rebuilds them
\* from the file, which must be a tree, and saving copies the key file there.
IInv == Typed /\ TidyFiles /\ TablesMirror

----------------------------------------------------------------------------

\* The tables of a state.
LEMMA HashesAre ==
  /\ Hashes.ids = id_fname /\ Hashes.names = fname_id /\ Hashes.ok = TRUE
  /\ Hashes = [ids |-> Hashes.ids, names |-> Hashes.names, ok |-> Hashes.ok]
BY DEF Hashes

\* Well-typed tables stay so when they become h.
LEMMA NextHashes ==
  ASSUME NEW h, HashesTyped(h), id_fname' = h.ids, fname_id' = h.names
  PROVE  /\ HashesTyped(Hashes')
         /\ \A D, f : Mirror(h, D, f) => Mirror(Hashes', D, f)
<1>1. /\ Hashes' = [ids |-> h.ids, names |-> h.names, ok |-> TRUE]
    BY DEF Hashes
<1>2. Hashes'.ids = h.ids /\ Hashes'.names = h.names /\ Hashes'.ok = TRUE
    BY <1>1
<1> DEFINE H == Hashes'
<1> HIDE DEF H
<1>3. H.ids = h.ids /\ H.names = h.names /\ H.ok = TRUE
      /\ H = [ids |-> h.ids, names |-> h.names, ok |-> TRUE]
    BY <1>1, <1>2 DEF H
<1>4. HashesTyped(H)
    BY <1>3 DEF HashesTyped
<1>5. \A D, f : Mirror(h, D, f) => Mirror(H, D, f)
    BY <1>3 DEF Mirror
<1> QED
    BY <1>4, <1>5 DEF H

\* h is what map_ss_hash_replace makes of h0 with the subfolders.
Replaced(H, h0, i, h) ==
    LET one == ReplaceOne(H, h0, i)
    IN \/ ~ one.ok /\ h = one
       \/ \E order \in SetToSeqs(Subfolders(h0, i, one.names)) :
             h = ReplaceEach(H, one, order)

\* map_ss_hash_replace replaces the folder, and then the subfolders if told to.
LEMMA HashReplaceIs ==
  ASSUME NEW H, NEW i
  PROVE  /\ \A h \in HashReplace(H, i, FALSE) : h = ReplaceOne(H, Hashes, i)
         /\ \A h \in HashReplace(H, i, TRUE) : Replaced(H, Hashes, i, h)
<1>1. \A h \in HashReplace(H, i, FALSE) : h = ReplaceOne(H, Hashes, i)
    BY DEF HashReplace
<1>2. \A h \in HashReplace(H, i, TRUE) : Replaced(H, Hashes, i, h)
    BY DEF HashReplace, Replaced
<1> QED
    BY <1>1, <1>2

\* The groups H are those of G but for folder i, which is there.
OneGroup(G, H, i) ==
    /\ i \in Ids /\ DOMAIN H = DOMAIN G \cup {i}
    /\ \A k \in DOMAIN G : k # i => H[k] = G[k]

\* The tables that hold the tree G hold the tree H afterwards.
Follows(G, H, h0, h) ==
    Tidy(G) /\ Tidy(H) /\ Mirror(h0, DOMAIN G, FullNamesOf(G))
    => h.ok /\ Mirror(h, DOMAIN H, FullNamesOf(H))

\* map_ss_hash_replace gives well-typed tables.
LEMMA HashReplaceTyped ==
  ASSUME NEW H, Groups(H), NEW i \in Ids, HashesTyped(Hashes)
  PROVE  /\ \A h \in HashReplace(H, i, FALSE) : HashesTyped(h)
         /\ \A h \in HashReplace(H, i, TRUE) : HashesTyped(h)
<1>1. PICK h0, one : h0 = Hashes /\ one = ReplaceOne(H, h0, i)
    OBVIOUS
<1>2. HashesTyped(one)
    BY <1>1, ReplaceOneTyped
<1>3. \A h \in HashReplace(H, i, FALSE) : HashesTyped(h)
    BY <1>1, <1>2, HashReplaceIs
<1>4. ASSUME NEW h \in HashReplace(H, i, TRUE)
      PROVE  HashesTyped(h)
  <2>1. \/ ~ one.ok /\ h = one
        \/ \E order \in SetToSeqs(Subfolders(h0, i, one.names)) :
              h = ReplaceEach(H, one, order)
    <3>1. Replaced(H, Hashes, i, h)
        BY HashReplaceIs
    <3> QED
        BY <1>1, <3>1 DEF Replaced
  <2>2. CASE h = one
      BY <1>2, <2>2
  <2>3. ASSUME NEW order \in SetToSeqs(Subfolders(h0, i, one.names)),
               h = ReplaceEach(H, one, order)
        PROVE  HashesTyped(h)
    <3>1. Subfolders(h0, i, one.names) \subseteq Ids
        BY <1>2, SubfoldersTyped
    <3> QED
        BY <1>2, <2>3, <3>1, ReplaceLoopTyped
  <2> QED
      BY <2>1, <2>2, <2>3
<1> QED
    BY <1>3, <1>4

\* map_ss_hash_replace with the subfolders, after a rename or a move of a folder
\* or for a new one.
LEMMA HashReplaceAll ==
  ASSUME NEW G, Groups(G), NEW H, Groups(H), NEW i, OneGroup(G, H, i),
         HashesTyped(Hashes), NEW h \in HashReplace(H, i, TRUE)
  PROVE  Follows(G, H, Hashes, h)
<1>1. PICK h0, one : h0 = Hashes /\ one = ReplaceOne(H, h0, i)
    OBVIOUS
<1>2. i \in Ids /\ HashesTyped(h0) /\ h0.ok
    BY <1>1, HashesAre DEF OneGroup
<1>3. \/ ~ one.ok /\ h = one
      \/ \E order \in SetToSeqs(Subfolders(h0, i, one.names)) :
            h = ReplaceEach(H, one, order)
  <2>1. Replaced(H, Hashes, i, h)
      BY HashReplaceIs
  <2> QED
      BY <1>1, <2>1 DEF Replaced
<1>4. ASSUME Tidy(G), Tidy(H), Mirror(h0, DOMAIN G, FullNamesOf(G))
      PROVE  h.ok /\ Mirror(h, DOMAIN H, FullNamesOf(H))
  <2>1. CASE i \in DOMAIN G
    <3>1. DOMAIN H = DOMAIN G /\ \A k \in DOMAIN G \ {i} : H[k] = G[k]
        BY <2>1 DEF OneGroup
    <3>2. /\ one.ok
          /\ \A order \in SetToSeqs(Subfolders(h0, i, one.names)) :
                /\ ReplaceEach(H, one, order).ok
                /\ Mirror(ReplaceEach(H, one, order), DOMAIN H, FullNamesOf(H))
        BY <1>1, <1>2, <1>4, <2>1, <3>1, ReplaceMirrors
    <3> QED
        BY <1>3, <3>2
  <2>2. CASE i \notin DOMAIN G
    <3>1. /\ DOMAIN H = DOMAIN G \cup {i} /\ i \in DOMAIN H
          /\ \A k \in DOMAIN G : H[k] = G[k]
        BY <2>2 DEF OneGroup
    <3>2. /\ one.ok
          /\ \A order \in SetToSeqs(Subfolders(h0, i, one.names)) :
                /\ ReplaceEach(H, one, order).ok
                /\ Mirror(ReplaceEach(H, one, order), DOMAIN H, FullNamesOf(H))
        BY <1>1, <1>2, <1>4, <2>2, <3>1, NewMirrors
    <3> QED
        BY <1>3, <3>2
  <2> QED
      BY <2>1, <2>2
<1> QED
    BY <1>1, <1>4 DEF Follows

\* map_ss_hash_replace without the subfolders, for a new folder.
LEMMA HashReplaceNew ==
  ASSUME NEW G, Groups(G), NEW H, Groups(H), NEW i, OneGroup(G, H, i),
         i \notin DOMAIN G, HashesTyped(Hashes), NEW h \in HashReplace(H, i, FALSE)
  PROVE  Follows(G, H, Hashes, h)
<1>1. PICK h0, one : h0 = Hashes /\ one = ReplaceOne(H, h0, i)
    OBVIOUS
<1>2. i \in Ids /\ HashesTyped(h0) /\ h0.ok
    BY <1>1, HashesAre DEF OneGroup
<1>3. h = one
    BY <1>1, HashReplaceIs
<1>4. ASSUME Tidy(G), Tidy(H), Mirror(h0, DOMAIN G, FullNamesOf(G))
      PROVE  one.ok /\ Mirror(one, DOMAIN H, FullNamesOf(H))
  <2>1. /\ DOMAIN H = DOMAIN G \cup {i} /\ i \in DOMAIN H
        /\ \A k \in DOMAIN G : H[k] = G[k]
      BY DEF OneGroup
  <2> QED
      BY <1>1, <1>2, <1>4, <2>1, NewMirrors
<1> QED
    BY <1>1, <1>3, <1>4 DEF Follows

----------------------------------------------------------------------------
(* The invariant, step by step.                                            *)

\* The tables, when the process goes on and when it ends.
LEMMA SetHashesStep ==
  ASSUME HashesTyped(Hashes), NEW h, HashesTyped(h), SetHashes(h),
         alive \in BOOLEAN
  PROVE  /\ HashesTyped(Hashes') /\ alive' \in BOOLEAN
         /\ h.ok => /\ alive' = alive
                    /\ \A D, f : Mirror(h, D, f) => Mirror(Hashes', D, f)
<1>1. CASE h.ok
  <2>1. id_fname' = h.ids /\ fname_id' = h.names /\ alive' = alive
      BY <1>1 DEF SetHashes
  <2> QED
      BY <2>1, NextHashes
<1>2. CASE ~ h.ok
  <2>1. id_fname' = id_fname /\ fname_id' = fname_id /\ alive' = FALSE
      BY <1>2 DEF SetHashes, hashes
  <2>2. id_fname' = Hashes.ids /\ fname_id' = Hashes.names
      BY <2>1, HashesAre
  <2> QED
      BY <1>2, <2>1, <2>2, NextHashes
<1> QED
    BY <1>1, <1>2

\* A setter that leaves the groups g and the tables h.
LEMMA SetterStep ==
  ASSUME IInv, NEW g, Groups(g), SetGroups(g), NEW h, HashesTyped(h), SetHashes(h),
         Orderly => Follows(key_file.groups, g, Hashes, h)
  PROVE  IInv'
<1> USE DEF IInv
<1>1. PICK G : G = key_file.groups
    OBVIOUS
<1>2. /\ Running /\ (Orderly => Tidy(g)) /\ ops < MaxOps /\ ops' = ops + 1
      /\ key_file' = [key_file EXCEPT !.groups = g] /\ dirty' = TRUE
      /\ disk' = disk /\ deleted' = deleted /\ stale' = stale /\ unsaved' = unsaved
    BY DEF SetGroups
<1>3. key_file'.groups = g /\ FileTyped(key_file')
  <2>1. key_file = [groups |-> G, versioned |-> key_file.versioned]
        /\ key_file.versioned \in BOOLEAN
      BY <1>1 DEF Typed, FileTyped
  <2>2. key_file' = [groups |-> g, versioned |-> key_file.versioned]
      BY <1>2, <2>1
  <2> QED
      BY <2>1, <2>2 DEF FileTyped
<1>4. HashesTyped(Hashes) /\ alive \in BOOLEAN
    BY DEF Typed
<1>5. /\ HashesTyped(Hashes') /\ alive' \in BOOLEAN
      /\ h.ok => /\ alive' = alive
                 /\ \A D, f : Mirror(h, D, f) => Mirror(Hashes', D, f)
    BY <1>4, SetHashesStep
<1>6. Typed'
  <2>1. disk' = NoFile \/ FileTyped(disk')
      BY <1>2 DEF Typed
  <2>2. /\ dirty' \in BOOLEAN /\ deleted' \in BOOLEAN /\ stale' \in BOOLEAN
        /\ unsaved' \in BOOLEAN
      BY <1>2 DEF Typed
  <2>3. ops' \in 0..MaxOps
      BY <1>2, BoundIsNat DEF Typed
  <2> QED
      BY <1>3, <1>5, <2>1, <2>2, <2>3 DEF Typed
<1>7. TidyFiles'
    BY <1>2, <1>3 DEF TidyFiles
<1>8. TablesMirror'
  <2> SUFFICES ASSUME Orderly, ~ stale'
               PROVE  /\ alive'
                      /\ Mirror(Hashes', DOMAIN g, FullNamesOf(g))
      BY <1>3 DEF TablesMirror
  <2>1. Tidy(G) /\ Tidy(g)
      BY <1>1, <1>2 DEF TidyFiles
  <2>2. alive /\ Mirror(Hashes, DOMAIN G, FullNamesOf(G))
      BY <1>1, <1>2 DEF TablesMirror
  <2>3. h.ok /\ Mirror(h, DOMAIN g, FullNamesOf(g))
      BY <1>1, <2>1, <2>2 DEF Follows
  <2> QED
      BY <1>5, <2>2, <2>3
<1> QED
    BY <1>6, <1>7, <1>8

\* A group of a key file.
GroupType == [parent : Ids \cup {NoId}, name : Names \cup {NoName}, value : Values]

\* What the setters start from, for a folder that is there and for a new one.
LEMMA GroupOfTyped ==
  ASSUME FileTyped(key_file), NEW i \in Ids
  PROVE  GroupOf(i) \in GroupType
BY ValuesExist DEF FileTyped, Groups, GroupOf, Group, GroupType

\* A setter changes one group.
LEMMA WithGroup ==
  ASSUME NEW G, Groups(G), NEW i \in Ids, NEW x \in GroupType
  PROVE  Groups(With(G, i, x)) /\ OneGroup(G, With(G, i, x), i)
<1> DEFINE H == With(G, i, x)
<1>1. DOMAIN H = DOMAIN G \cup {i} /\ H[i] = x
      /\ \A k \in DOMAIN G : k # i => H[k] = G[k]
    BY DEF With
<1> HIDE DEF H
<1>2. Groups(H) /\ OneGroup(G, H, i)
    BY <1>1 DEF Groups, OneGroup, GroupType
<1> QED
    BY <1>2 DEF H

\* One folder gets the group x, and the tables follow.
LEMMA ReplaceStep ==
  ASSUME IInv, NEW i \in Ids, NEW x \in GroupType,
         NEW g, g = With(key_file.groups, i, x), SetGroups(g),
         NEW h, SetHashes(h),
         \/ h \in HashReplace(g, i, TRUE)
         \/ /\ h \in HashReplace(g, i, FALSE)
            /\ Orderly => i \notin DOMAIN key_file.groups
  PROVE  IInv'
<1>1. PICK G : G = key_file.groups
    OBVIOUS
<1>2. Groups(G) /\ HashesTyped(Hashes)
    BY <1>1 DEF IInv, Typed, FileTyped
<1>3. Groups(g) /\ OneGroup(G, g, i)
    BY <1>1, <1>2, WithGroup
<1>4. HashesTyped(h)
    BY <1>2, <1>3, HashReplaceTyped
<1>5. Orderly => Follows(G, g, Hashes, h)
    BY <1>1, <1>2, <1>3, HashReplaceAll, HashReplaceNew
<1> QED
    BY <1>1, <1>3, <1>4, <1>5, SetterStep

\* camel_map_store_summary_set_folder_name.
LEMMA SetFolderNameStep ==
  ASSUME IInv, NEW i \in Ids, NEW n \in Names, SetFolderName(i, n)
  PROVE  IInv'
<1>1. PICK x, g : x = [GroupOf(i) EXCEPT !.name = n] /\ g = With(key_file.groups, i, x)
    OBVIOUS
<1>2. SetGroups(g) /\ \E h \in HashReplace(g, i, TRUE) : SetHashes(h)
    BY <1>1 DEF SetFolderName
<1>3. x \in GroupType
    BY <1>1, GroupOfTyped DEF IInv, Typed, GroupType
<1> QED
    BY <1>1, <1>2, <1>3, ReplaceStep

\* camel_map_store_summary_new_folder: a new folder brings no subfolders.
LEMMA NewFolderStep ==
  ASSUME IInv, NEW i \in Ids, NEW p \in Ids \cup {NoId}, NEW n \in Names,
         NEW v \in Values, NewFolder(i, p, n, v)
  PROVE  IInv'
<1>1. PICK q, x, g : /\ q = IF p = NoId THEN GroupOf(i).parent ELSE p
                     /\ x = Group(q, n, v) /\ g = With(key_file.groups, i, x)
    OBVIOUS
<1>2. /\ Orderly => i \notin DOMAIN key_file.groups
      /\ SetGroups(g) /\ \E h \in HashReplace(g, i, FALSE) : SetHashes(h)
    BY <1>1 DEF NewFolder
<1>3. x \in GroupType
  <2>1. GroupOf(i) \in GroupType
      BY GroupOfTyped DEF IInv, Typed
  <2>2. q \in Ids \cup {NoId}
      BY <1>1, <2>1 DEF GroupType
  <2> QED
      BY <1>1, <2>2 DEF Group, GroupType
<1> QED
    BY <1>1, <1>2, <1>3, ReplaceStep

\* camel_map_store_summary_set_parent_folder_id; without a parent and a group it
\* changes no group, and an orderly caller does not do that.
LEMMA SetParentFolderIdStep ==
  ASSUME IInv, NEW i \in Ids, NEW p \in Ids \cup {NoId}, SetParentFolderId(i, p)
  PROVE  IInv'
<1>1. CASE p = NoId /\ i \notin DOMAIN key_file.groups
  <2>1. PICK g : g = key_file.groups
      OBVIOUS
  <2>2. /\ ~ Orderly
        /\ SetGroups(g) /\ \E h \in HashReplace(g, i, TRUE) : SetHashes(h)
      BY <1>1, <2>1 DEF SetParentFolderId
  <2>3. PICK h \in HashReplace(g, i, TRUE) : SetHashes(h)
      BY <2>2
  <2>4. Groups(g) /\ HashesTyped(Hashes)
      BY <2>1 DEF IInv, Typed, FileTyped
  <2>5. HashesTyped(h)
      BY <2>4, HashReplaceTyped
  <2> QED
      BY <2>2, <2>3, <2>4, <2>5, SetterStep
<1>2. CASE ~ (p = NoId /\ i \notin DOMAIN key_file.groups)
  <2>1. PICK x, g : /\ x = [GroupOf(i) EXCEPT !.parent = p]
                    /\ g = With(key_file.groups, i, x)
      OBVIOUS
  <2>2. SetGroups(g) /\ \E h \in HashReplace(g, i, TRUE) : SetHashes(h)
      BY <1>2, <2>1 DEF SetParentFolderId
  <2>3. x \in GroupType
      BY <2>1, GroupOfTyped DEF IInv, Typed, GroupType
  <2> QED
      BY <2>1, <2>2, <2>3, ReplaceStep
<1> QED
    BY <1>1, <1>2

\* The setters of the other keys.
LEMMA SetValueStep ==
  ASSUME IInv, NEW i \in Ids, NEW v \in Values, SetValue(i, v)
  PROVE  IInv'
<1>1. PICK G, y, x, g : /\ G = key_file.groups /\ y = GroupOf(i)
                        /\ x = [y EXCEPT !.value = v] /\ g = With(G, i, x)
    OBVIOUS
<1>2. SetGroups(g) /\ UNCHANGED <<hashes, alive>>
    BY <1>1 DEF SetValue
<1>3. y \in GroupType /\ Groups(G) /\ HashesTyped(Hashes)
    BY <1>1, GroupOfTyped DEF IInv, Typed, FileTyped
<1>4. x \in GroupType /\ x.name = y.name /\ x.parent = y.parent
    BY <1>1, <1>3 DEF GroupType
<1>5. Groups(g) /\ OneGroup(G, g, i) /\ g[i] = x
    BY <1>1, <1>3, <1>4, WithGroup, WithEffect
<1>6. SetHashes(Hashes)
    BY <1>2 DEF SetHashes, Hashes, hashes
\* A value alone makes no folder: a group without a name is no tree's.
<1>7. ASSUME Tidy(G), Tidy(g), Mirror(Hashes, DOMAIN G, FullNamesOf(G))
      PROVE  Mirror(Hashes, DOMAIN g, FullNamesOf(g))
  <2>1. i \in DOMAIN G
    <3>1. i \notin DOMAIN G => y.name = NoName
        BY <1>1 DEF GroupOf, Group
    <3>2. i \in DOMAIN g /\ g[i].name # NoName
        BY <1>5, <1>7 DEF OneGroup, Tidy
    <3> QED
        BY <1>4, <1>5, <3>1, <3>2
  <2>2. y = G[i]
      BY <1>1, <2>1 DEF GroupOf
  <2>3. /\ DOMAIN g = DOMAIN G
        /\ \A k \in DOMAIN G : g[k].name = G[k].name /\ g[k].parent = G[k].parent
      BY <1>4, <1>5, <2>1, <2>2 DEF OneGroup
  <2> QED
      BY <1>3, <1>5, <1>7, <2>3, ValueMirrors
<1>8. Follows(G, g, Hashes, Hashes)
    BY <1>7, HashesAre DEF Follows
<1> QED
    BY <1>1, <1>2, <1>3, <1>5, <1>6, <1>8, SetterStep

\* camel_map_store_summary_remove_folder.
LEMMA RemoveFolderStep ==
  ASSUME IInv, NEW i \in Ids, RemoveFolder(i)
  PROVE  IInv'
<1>1. PICK G, g, h0, h :
         /\ G = key_file.groups /\ g = Without(G, i) /\ h0 = Hashes
         /\ h = [ids |-> Without(h0.ids, i),
                 names |-> FreeStrings(Without(h0.names, h0.ids[i]), i),
                 ok |-> TRUE]
    OBVIOUS
<1>2. /\ i \in DOMAIN h0.ids /\ SetGroups(g) /\ alive' = alive
      /\ fname_id' = FreeStrings(Without(h0.names, h0.ids[i]), i)
      /\ id_fname' = Without(h0.ids, i)
    BY <1>1, HashesAre DEF RemoveFolder
<1>3. Groups(G) /\ HashesTyped(h0)
    BY <1>1 DEF IInv, Typed, FileTyped
<1>4. /\ h.ids = Without(h0.ids, i) /\ h.ok = TRUE
      /\ h.names = FreeStrings(Without(h0.names, h0.ids[i]), i)
      /\ h = [ids |-> h.ids, names |-> h.names, ok |-> h.ok]
    BY <1>1
<1>5. SetHashes(h)
    BY <1>2, <1>4 DEF SetHashes
<1>6. Groups(g)
    BY <1>1, <1>3 DEF Groups, Without
<1>7. HashesTyped(h)
  <2>1. NamesTyped(h0.names)
      BY <1>3 DEF HashesTyped, NamesTyped, Entry
  <2>2. NamesTyped(h.names)
    <3>1. NamesTyped(Without(h0.names, h0.ids[i]))
        BY <2>1, WithoutEffect
    <3>2. NamesTyped(FreeStrings(Without(h0.names, h0.ids[i]), i))
        BY <3>1, FreeStringsEffect
    <3> QED
        BY <1>4, <3>2
  <2>3. DOMAIN h.ids \subseteq Ids /\ \A j \in DOMAIN h.ids : h.ids[j] \in FullNames
      BY <1>3, <1>4 DEF HashesTyped, Without
  <2> QED
      BY <1>4, <2>2, <2>3 DEF HashesTyped, NamesTyped, Entry
<1>8. ASSUME Tidy(G), Tidy(g), Mirror(h0, DOMAIN G, FullNamesOf(G))
      PROVE  Mirror(h, DOMAIN g, FullNamesOf(g))
  <2>1. i \in DOMAIN G
      BY <1>2, <1>8 DEF Mirror
  <2> QED
      BY <1>1, <1>3, <1>4, <1>6, <1>8, <2>1, RemoveMirrors
<1>9. Follows(G, g, Hashes, h)
    BY <1>1, <1>4, <1>8 DEF Follows
<1> QED
    BY <1>1, <1>2, <1>5, <1>6, <1>7, <1>9, SetterStep

\* An empty key file is a tree of no folders.
LEMMA EmptyGroups == Groups(Empty) /\ Tidy(Empty)
BY DEF Groups, Tidy, Empty

\* The tables are built from the groups g of the key file there is then.
LEMMA LoadedStep ==
  ASSUME IInv, NEW g, g = key_file'.groups, FileTyped(key_file'), Orderly => Tidy(g),
         NEW h \in LoadHashes(g), id_fname' = h.ids, fname_id' = h.names, alive' = h.ok,
         disk' = disk, dirty' \in BOOLEAN, deleted' \in BOOLEAN,
         stale' \in BOOLEAN, unsaved' \in BOOLEAN, ops' = ops
  PROVE  IInv'
<1>1. Groups(g)
    BY DEF FileTyped
<1>2. HashesTyped(h)
    BY <1>1, LoadTyped
<1>3. /\ HashesTyped(Hashes')
      /\ \A D, f : Mirror(h, D, f) => Mirror(Hashes', D, f)
    BY <1>2, NextHashes
<1>4. alive' \in BOOLEAN
    BY <1>2 DEF HashesTyped
<1>5. Typed'
  <2>1. disk' = NoFile \/ FileTyped(disk')
      BY DEF IInv, Typed
  <2>2. ops' \in 0..MaxOps
      BY DEF IInv, Typed
  <2> QED
      BY <1>3, <1>4, <2>1, <2>2 DEF Typed
<1>6. TidyFiles'
    BY DEF IInv, TidyFiles
<1>7. TablesMirror'
  <2> SUFFICES ASSUME Orderly
               PROVE  alive' /\ Mirror(Hashes', DOMAIN g, FullNamesOf(g))
      BY DEF TablesMirror
  <2>1. h.ok /\ Mirror(h, DOMAIN g, FullNamesOf(g))
      BY <1>1, LoadMirrors
  <2> QED
      BY <1>3, <2>1
<1> QED
    BY <1>5, <1>6, <1>7 DEF IInv

\* Starting again: the file, or a new key file when there is none or an old one.
LEMMA LoadStep == IInv /\ Load => IInv'
<1> SUFFICES ASSUME IInv, Load PROVE IInv'
    OBVIOUS
<1>1. PICK f, g : /\ f = IF disk # NoFile /\ disk.versioned THEN disk ELSE NewFile
                  /\ g = f.groups
    OBVIOUS
<1>2. /\ FileTyped(f)
      /\ Orderly => Tidy(g)
  <2>1. CASE disk # NoFile /\ disk.versioned
      BY <1>1, <2>1 DEF IInv, Typed, TidyFiles
  <2>2. CASE ~ (disk # NoFile /\ disk.versioned)
    <3>1. f = [groups |-> Empty, versioned |-> TRUE]
        BY <1>1, <2>2 DEF NewFile
    <3>2. f.groups = Empty /\ f.versioned = TRUE
        BY <3>1
    <3> QED
        BY <1>1, <3>1, <3>2, EmptyGroups DEF FileTyped
  <2> QED
      BY <2>1, <2>2
<1>3. /\ key_file' = f /\ dirty' \in BOOLEAN
      /\ disk' = disk /\ ops' = ops
      /\ deleted' \in BOOLEAN /\ stale' \in BOOLEAN /\ unsaved' \in BOOLEAN
    BY <1>1 DEF Load, LoadFrom
<1>4. PICK h \in LoadHashes(g) :
         id_fname' = h.ids /\ fname_id' = h.names /\ alive' = h.ok
  <2>1. CASE disk # NoFile /\ disk.versioned
      BY <1>1, <2>1 DEF Load, LoadFrom
  <2>2. CASE ~ (disk # NoFile /\ disk.versioned)
    <3>1. g = Empty
        BY <1>1, <2>2 DEF NewFile
    <3> QED
        BY <2>2, <3>1 DEF Load, LoadFrom
  <2> QED
      BY <2>1, <2>2
<1> QED
    BY <1>1, <1>2, <1>3, <1>4, LoadedStep

\* camel_map_store_summary_rebuild_hashes.
LEMMA RebuildStep == IInv /\ RebuildHashes => IInv'
<1> SUFFICES ASSUME IInv, RebuildHashes PROVE IInv'
    OBVIOUS
<1>1. PICK g : g = key_file.groups
    OBVIOUS
<1>2. /\ key_file' = key_file /\ dirty' = dirty /\ disk' = disk /\ ops' = ops
      /\ deleted' = deleted /\ stale' = FALSE /\ unsaved' = unsaved
    BY DEF RebuildHashes, file
<1>3. PICK h \in LoadHashes(g) : SetHashes(h)
    BY <1>1 DEF RebuildHashes
<1>4. /\ FileTyped(key_file) /\ Groups(g) /\ HashesTyped(Hashes)
      /\ disk' = NoFile \/ FileTyped(disk')
      /\ dirty' \in BOOLEAN /\ deleted' \in BOOLEAN /\ unsaved' \in BOOLEAN
      /\ alive \in BOOLEAN /\ ops' \in 0..MaxOps
    BY <1>1, <1>2 DEF IInv, Typed, FileTyped
<1>5. HashesTyped(h)
    BY <1>4, LoadTyped
<1>6. /\ HashesTyped(Hashes') /\ alive' \in BOOLEAN
      /\ h.ok => /\ alive' = alive
                 /\ \A D, f : Mirror(h, D, f) => Mirror(Hashes', D, f)
    BY <1>3, <1>4, <1>5, SetHashesStep
<1>7. Typed'
    BY <1>2, <1>4, <1>6 DEF Typed
<1>8. TidyFiles'
    BY <1>2 DEF IInv, TidyFiles
<1>9. TablesMirror'
  <2> SUFFICES ASSUME Orderly
               PROVE  alive' /\ Mirror(Hashes', DOMAIN g, FullNamesOf(g))
      BY <1>1, <1>2 DEF TablesMirror
  <2>1. Tidy(g)
      BY <1>1 DEF IInv, TidyFiles
  <2>2. h.ok /\ Mirror(h, DOMAIN g, FullNamesOf(g))
      BY <1>3, <1>4, <2>1, LoadMirrors
  <2>3. alive
      BY DEF RebuildHashes, Running
  <2> QED
      BY <1>6, <2>2, <2>3
<1> QED
    BY <1>7, <1>8, <1>9 DEF IInv

\* The tables stay, and so does what they are compared with.
LEMMA SameTables ==
  ASSUME UNCHANGED hashes
  PROVE  Hashes' = Hashes
BY DEF hashes, Hashes

\* camel_map_store_summary_save, whether the file is written or not.
LEMMA SaveStep == IInv /\ Save => IInv'
<1> SUFFICES ASSUME IInv, Save PROVE IInv'
    OBVIOUS
<1>1. /\ key_file' = key_file /\ (disk' = key_file \/ disk' = disk)
      /\ dirty' \in BOOLEAN /\ unsaved' \in BOOLEAN
      /\ deleted' = deleted /\ stale' = stale /\ alive' = alive /\ ops' = ops
      /\ UNCHANGED hashes
    BY DEF Save
<1>2. Hashes' = Hashes
    BY <1>1, SameTables
<1>3. Typed'
    BY <1>1, <1>2 DEF IInv, Typed
<1>4. TidyFiles'
    BY <1>1 DEF IInv, TidyFiles
<1>5. TablesMirror'
    BY <1>1, <1>2 DEF IInv, TablesMirror
<1> QED
    BY <1>3, <1>4, <1>5 DEF IInv

\* Clearing the key file leaves tables that are stale.
LEMMA ClearStep ==
  ASSUME IInv, ClearFile, disk' = NoFile \/ disk' = disk,
         deleted' \in BOOLEAN, unsaved' = unsaved, alive' = alive, ops' = ops
  PROVE  IInv'
<1>1. key_file' = [groups |-> Empty, versioned |-> FALSE]
      /\ dirty' = TRUE /\ stale' = TRUE /\ UNCHANGED hashes
    BY DEF ClearFile
<1>2. key_file'.groups = Empty /\ key_file'.versioned = FALSE
    BY <1>1
<1>3. FileTyped(key_file')
    BY <1>1, <1>2, EmptyGroups DEF FileTyped
<1>4. Hashes' = Hashes
    BY <1>1, SameTables
<1>5. Typed'
    BY <1>1, <1>3, <1>4 DEF IInv, Typed
<1>6. TidyFiles'
    BY <1>2, EmptyGroups DEF IInv, TidyFiles
<1>7. TablesMirror'
    BY <1>1 DEF TablesMirror
<1> QED
    BY <1>5, <1>6, <1>7 DEF IInv

\* The file is gone; the key file and the tables stay.
LEMMA FileDeletedStep == IInv /\ FileDeleted => IInv'
<1> SUFFICES ASSUME IInv, FileDeleted PROVE IInv'
    OBVIOUS
<1>1. /\ key_file' = key_file /\ dirty' = dirty /\ disk' = NoFile
      /\ deleted' = TRUE /\ stale' = stale /\ unsaved' = unsaved
      /\ alive' = alive /\ ops' = ops /\ UNCHANGED hashes
    BY DEF FileDeleted, file
<1>2. Hashes' = Hashes
    BY <1>1, SameTables
<1>3. Typed'
    BY <1>1, <1>2 DEF IInv, Typed
<1>4. TidyFiles'
    BY <1>1 DEF IInv, TidyFiles
<1>5. TablesMirror'
    BY <1>1, <1>2 DEF IInv, TablesMirror
<1> QED
    BY <1>3, <1>4, <1>5 DEF IInv

\* A step of something else.
LEMMA StutterStep == IInv /\ UNCHANGED vars => IInv'
<1> SUFFICES ASSUME IInv, UNCHANGED vars PROVE IInv'
    OBVIOUS
<1>1. /\ key_file' = key_file /\ dirty' = dirty /\ disk' = disk
      /\ deleted' = deleted /\ stale' = stale /\ unsaved' = unsaved
      /\ alive' = alive /\ ops' = ops /\ UNCHANGED hashes
    BY DEF vars, file
<1>2. Hashes' = Hashes
    BY <1>1, SameTables
<1>3. Typed'
    BY <1>1, <1>2 DEF IInv, Typed
<1>4. TidyFiles'
    BY <1>1 DEF IInv, TidyFiles
<1>5. TablesMirror'
    BY <1>1, <1>2 DEF IInv, TablesMirror
<1> QED
    BY <1>3, <1>4, <1>5 DEF IInv

\* A new summary has no folders.
LEMMA InitIInv == Init => IInv
<1> SUFFICES ASSUME Init PROVE IInv
    OBVIOUS
<1>1. /\ key_file = [groups |-> Empty, versioned |-> TRUE] /\ disk = NoFile
      /\ id_fname = Empty /\ fname_id = Empty /\ dirty = TRUE /\ deleted = FALSE
      /\ stale = FALSE /\ unsaved = FALSE /\ alive = TRUE /\ ops = 0
    BY DEF Init, NewFile
<1>2. key_file.groups = Empty /\ key_file.versioned = TRUE
    BY <1>1
<1>3. DOMAIN Empty = {}
    BY DEF Empty
<1>4. HashesTyped(Hashes)
    BY <1>1, <1>3, HashesAre DEF HashesTyped
<1>5. FileTyped(key_file)
    BY <1>1, <1>2, EmptyGroups DEF FileTyped
<1>6. Typed
  <2>1. ops \in 0..MaxOps
      BY <1>1, BoundIsNat
  <2>2. /\ dirty \in BOOLEAN /\ deleted \in BOOLEAN /\ stale \in BOOLEAN
        /\ unsaved \in BOOLEAN /\ alive \in BOOLEAN /\ disk = NoFile
      BY <1>1
  <2> QED
      BY <1>4, <1>5, <2>1, <2>2 DEF Typed
<1>7. TidyFiles
    BY <1>1, <1>2, EmptyGroups DEF TidyFiles
<1>8. TablesMirror
  <2>1. Mirror(Hashes, DOMAIN Empty, FullNamesOf(Empty))
      BY <1>1, <1>3, HashesAre DEF Mirror
  <2> QED
      BY <1>1, <1>2, <2>1 DEF TablesMirror
<1> QED
    BY <1>6, <1>7, <1>8 DEF IInv

\* Every step keeps the invariant.
LEMMA IInvStep == IInv /\ [Next]_vars => IInv'
<1> SUFFICES ASSUME IInv, [Next]_vars
             PROVE  IInv'
    OBVIOUS
<1>1. CASE Load
    BY <1>1, LoadStep
<1>2. CASE Save
    BY <1>2, SaveStep
<1>3. CASE RemoveFile
  <2>1. deleted' \in BOOLEAN
      BY <1>3 DEF RemoveFile, IInv, Typed
  <2> QED
      BY <1>3, <2>1, ClearStep DEF RemoveFile
<1>4. CASE FileDeleted
    BY <1>4, FileDeletedStep
<1>5. CASE MonitorDelete
    BY <1>5, ClearStep DEF MonitorDelete
<1>6. CASE RebuildHashes
    BY <1>6, RebuildStep
<1>7. ASSUME NEW i \in Ids, NEW n \in Names, SetFolderName(i, n)
      PROVE  IInv'
    BY <1>7, SetFolderNameStep
<1>8. ASSUME NEW i \in Ids, NEW p \in Ids \cup {NoId}, SetParentFolderId(i, p)
      PROVE  IInv'
    BY <1>8, SetParentFolderIdStep
<1>9. ASSUME NEW i \in Ids, NEW p \in Ids \cup {NoId}, NEW n \in Names,
             NEW v \in Values, NewFolder(i, p, n, v)
      PROVE  IInv'
    BY <1>9, NewFolderStep
<1>10. ASSUME NEW i \in Ids, NEW v \in Values, SetValue(i, v)
       PROVE  IInv'
    BY <1>10, SetValueStep
<1>11. ASSUME NEW i \in Ids, RemoveFolder(i)
       PROVE  IInv'
    BY <1>11, RemoveFolderStep
<1>12. CASE UNCHANGED vars
    BY <1>12, StutterStep
<1> QED
    BY <1>1, <1>2, <1>3, <1>4, <1>5, <1>6, <1>7, <1>8, <1>9, <1>10, <1>11,
       <1>12 DEF Next

----------------------------------------------------------------------------
(* The theorems.                                                           *)

\* The invariant holds in every state.
THEOREM Invariant == Spec => []IInv
BY InitIInv, IInvStep, PTL DEF Spec

\* Type correctness of the key file, of its file and of both hash tables, for
\* callers of any kind: no function of the store summary enters a NULL full name
\* or an id that is none (map_ss_hash_replace, load_id_fname_hash).
THEOREM TypeCorrect == Spec => []TypeOK
<1>1. IInv => TypeOK
  <2> SUFFICES ASSUME IInv PROVE TypeOK
      OBVIOUS
  <2>1. Typed
      BY DEF IInv
  <2>2. \A f : FileTyped(f) => IsFile(f)
      BY DEF FileTyped, Groups, IsFile
  <2>3. IsFile(key_file) /\ (disk = NoFile \/ IsFile(disk))
      BY <2>1, <2>2 DEF Typed
  <2>4. /\ DOMAIN id_fname \subseteq Ids
        /\ \A i \in DOMAIN id_fname : id_fname[i] \in FullNames
        /\ DOMAIN fname_id \subseteq FullNames
        /\ \A n \in DOMAIN fname_id :
              fname_id[n] \in [id : Ids, owner : Ids \cup {Freed}]
      BY <2>1, HashesAre DEF Typed, HashesTyped
  <2>5. {dirty, deleted, stale, unsaved, alive} \subseteq BOOLEAN /\ ops \in 0..MaxOps
      BY <2>1 DEF Typed
  <2> QED
      BY <2>3, <2>4, <2>5 DEF TypeOK
<1> QED
    BY <1>1, Invariant, PTL

\* For orderly callers both hash tables are what building them from the key file
\* would give, after any sequence of new folders, renames, moves and removals
\* (map_ss_hash_replace with its subfolders, camel_map_store_summary_remove_folder).
THEOREM HashesMatch == Spec => []HashesMatchFile
<1>1. IInv => HashesMatchFile
  <2> SUFFICES ASSUME IInv, Orderly, ~ stale
               PROVE  /\ DOMAIN id_fname = DOMAIN key_file.groups
                      /\ \A i \in DOMAIN id_fname :
                            /\ id_fname[i] = BuildFullName(key_file.groups, i)
                            /\ fname_id[id_fname[i]].id = i
                      /\ DOMAIN fname_id = {id_fname[i] : i \in DOMAIN id_fname}
      BY DEF HashesMatchFile
  <2>1. PICK G, E : G = key_file.groups /\ E = FullNamesOf(G)
      OBVIOUS
  <2>2. Mirror(Hashes, DOMAIN G, E)
      BY <2>1 DEF IInv, TablesMirror
  <2>3. /\ DOMAIN id_fname = DOMAIN G
        /\ \A j \in DOMAIN G : /\ id_fname[j] = E[j] /\ E[j] \in DOMAIN fname_id
                               /\ fname_id[E[j]].id = j
        /\ \A n \in DOMAIN fname_id : \E j \in DOMAIN G : n = E[j]
      BY <2>2, HashesAre DEF Mirror
  <2>4. \A j \in DOMAIN G : E[j] = BuildFullName(G, j)
      BY <2>1 DEF FullNamesOf
  <2>5. \A i \in DOMAIN id_fname : /\ id_fname[i] = BuildFullName(G, i)
                                   /\ fname_id[id_fname[i]].id = i
      BY <2>3, <2>4
  <2>6. DOMAIN fname_id = {id_fname[i] : i \in DOMAIN id_fname}
      BY <2>3
  <2> QED
      BY <2>1, <2>3, <2>5, <2>6
<1> QED
    BY <1>1, Invariant, PTL

\* Orderly callers never make a function of the store summary meet a NULL name, a
\* full name without an entry or a cycle of parents (map_ss_hash_replace, whose
\* g_hash_table_lookup results are used unchecked), while the tables are not stale.
THEOREM OrderlyRuns == Spec => []OrderlyKeepsRunning
<1>1. IInv => OrderlyKeepsRunning
    BY DEF IInv, TablesMirror, OrderlyKeepsRunning
<1> QED
    BY <1>1, Invariant, PTL

\* Orderly callers never leave a key in the table of full names that was freed:
\* the entry goes before its string does ("entries must always be removed from
\* fname_id_hash *first*", camel-map-store-summary.c 17-19 and 322-338).
THEOREM OrderlyKeysLiveHolds == Spec => []OrderlyKeysLive
<1>1. IInv => OrderlyKeysLive
  <2> SUFFICES ASSUME IInv, Orderly, ~ stale, NEW n \in DOMAIN fname_id
               PROVE  fname_id[n].owner # Freed
      BY DEF OrderlyKeysLive, KeysLive
  <2>1. PICK G, E : G = key_file.groups /\ E = FullNamesOf(G)
      OBVIOUS
  <2>2. Mirror(Hashes, DOMAIN G, E)
      BY <2>1 DEF IInv, TablesMirror
  <2>3. PICK j \in DOMAIN G : n = E[j] /\ fname_id[E[j]].owner = j
      BY <2>2, HashesAre DEF Mirror
  <2>4. j \in Ids
      BY <2>1, <2>3 DEF IInv, Typed, FileTyped, Groups
  <2> QED
      BY <2>3, <2>4, FreedIsNoId
<1> QED
    BY <1>1, Invariant, PTL

----------------------------------------------------------------------------
(* The dirty flag.                                                         *)

\* Every setter marks what it changes for saving; the file stays.
LEMMA SettersMark ==
  ASSUME NEW g, SetGroups(g)
  PROVE  dirty'
BY DEF SetGroups

\* So does clearing the key file.
LEMMA ClearMarks == ClearFile => dirty'
BY DEF ClearFile

\* The property is inductive by itself.
LEMMA DirtyStep == DirtyIsExact /\ [Next]_vars => DirtyIsExact'
<1> SUFFICES ASSUME DirtyIsExact, [Next]_vars
             PROVE  DirtyIsExact'
    OBVIOUS
\* A file that is kept is what the key file is now; one that is not is dirty.
<1>1. CASE Load
  <2>1. LoadFrom(disk) /\ disk' = disk
      BY <1>1 DEF Load
  <2>2. dirty' \/ key_file' = disk
      BY <2>1 DEF LoadFrom
  <2> QED
      BY <2>1, <2>2 DEF DirtyIsExact
\* The flag goes, and either the file is written or the failure is recorded.
<1>2. CASE Save
    BY <1>2 DEF Save, DirtyIsExact
<1>3. CASE RemoveFile
    BY <1>3, ClearMarks DEF RemoveFile, DirtyIsExact
\* The monitor has the deletion to report.
<1>4. CASE FileDeleted
    BY <1>4 DEF FileDeleted, DirtyIsExact
<1>5. CASE MonitorDelete
    BY <1>5, ClearMarks DEF MonitorDelete, DirtyIsExact
<1>6. CASE RebuildHashes
    BY <1>6 DEF RebuildHashes, DirtyIsExact, file
<1>7. ASSUME NEW i \in Ids, NEW n \in Names, SetFolderName(i, n)
      PROVE  DirtyIsExact'
    BY <1>7, SettersMark DEF SetFolderName, DirtyIsExact
<1>8. ASSUME NEW i \in Ids, NEW p \in Ids \cup {NoId},
             SetParentFolderId(i, p)
      PROVE  DirtyIsExact'
    BY <1>8, SettersMark DEF SetParentFolderId, DirtyIsExact
<1>9. ASSUME NEW i \in Ids, NEW p \in Ids \cup {NoId}, NEW n \in Names,
             NEW v \in Values, NewFolder(i, p, n, v)
      PROVE  DirtyIsExact'
    BY <1>9, SettersMark DEF NewFolder, DirtyIsExact
<1>10. ASSUME NEW i \in Ids, NEW v \in Values, SetValue(i, v)
       PROVE  DirtyIsExact'
    BY <1>10, SettersMark DEF SetValue, DirtyIsExact
<1>11. ASSUME NEW i \in Ids, RemoveFolder(i)
       PROVE  DirtyIsExact'
    BY <1>11, SettersMark DEF RemoveFolder, DirtyIsExact
<1>12. CASE UNCHANGED vars
    BY <1>12 DEF vars, file, DirtyIsExact
<1> QED
    BY <1>1, <1>2, <1>3, <1>4, <1>5, <1>6, <1>7, <1>8, <1>9, <1>10, <1>11,
       <1>12 DEF Next

\* What is not marked for saving is in the file, unless it could not be written
\* or was deleted meanwhile (camel_map_store_summary_save, which keeps a clean
\* summary from being written, and every place that sets its dirty flag).
THEOREM DirtyIsExactHolds == Spec => []DirtyIsExact
<1>1. Init => DirtyIsExact
    BY DEF Init, DirtyIsExact
<1> QED
    BY <1>1, DirtyStep, PTL DEF Spec

=============================================================================
