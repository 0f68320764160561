--------------------------- MODULE MapFolderTree ---------------------------
(***************************************************************************)
(* Reading the folder hierarchy of the phone: create_folder_hierarchy and  *)
(* its caller map_get_folder_info_sync (camel/camel-map-store.c 378-499).  *)
(*                                                                         *)
(* The function visits a directory, makes a CamelFolderInfo for each of    *)
(* its folders and visits that folder at once.  It shares the variable fi  *)
(* with its caller, through the pointer fiparent: the stack of its frames  *)
(* is modelled, a frame's fiparent being the fi of the frame below it, or  *)
(* the fi of map_get_folder_info_sync for the lowest.  A folder info is    *)
(* known by its directory; its names and flags are not modelled.           *)
(*                                                                         *)
(* The whole walk also shares the caller's error.  A call to the phone     *)
(* that fails sets it, if the caller gave a place for it, and GLib makes   *)
(* no call with an error that is set already: it gives NULL at once.  So   *)
(* it does without a proxy, and then sets no error.                        *)
(*                                                                         *)
(* The store may be disconnected during the walk.  That this releases the  *)
(* proxy of a running call, and that a connect may follow, which begins    *)
(* another session, are the matter of MapConnection.                       *)
(***************************************************************************)
EXTENDS Naturals, SequencesExt

CONSTANTS
    Dirs,           \* the directories below "/telecom/msg"
    Top,            \* "/telecom/msg"
    Up,             \* the directory each of them is in
    Skipped,        \* those with the names "msg" and "MSG"
    None            \* NULL

ASSUME TopIsNoDir == Top \notin Dirs /\ None \notin Dirs

ASSUME DirsAreFinite == IsFiniteSet(Dirs)

ASSUME UpIsDirectory == Up \in [Dirs -> Dirs \cup {Top}]

ASSUME SkippedAreDirs == Skipped \subseteq Dirs

VARIABLES
    stack,          \* the frames of create_folder_hierarchy, lowest first
    fi,             \* the fi of map_get_folder_info_sync, which it returns
    infos,          \* the folder infos that were made
    table,          \* the hash table of all folders
    current,        \* the phone's current directory
    error,          \* the caller's error: "NULL" (no place), "unset" or "set"
    proxy,          \* the store has a proxy for the phone
    listed,         \* history: the directories whose listing succeeded,
    refused,        \* those the phone refused to select or list,
    gone            \* those that were reached without a proxy

vars == <<stack, fi, infos, table, current, error, proxy, listed, refused, gone>>

Folders(d) == {f \in Dirs : Up[f] = d} \ Skipped

Frame(dir, parent_fi) ==
    [dir |-> dir, at |-> "select", todo |-> {}, fi |-> None,
     parent_fi |-> parent_fi]

Init ==
    /\ stack = <<Frame(Top, None)>>
    /\ fi = None
    /\ infos = [d \in {} |-> None]
    /\ table = {}
    /\ current = Top
    /\ error \in {"NULL", "unset"}
    /\ proxy \in BOOLEAN
    /\ listed = {} /\ refused = {} /\ gone = {}

Depth == Len(stack)
Here  == stack[Depth]

At(label) == stack # <<>> /\ Here.at = label

\* The function returns to its caller, which goes on with its loop.
Return == stack' = SubSeq(stack, 1, Depth - 1)

----------------------------------------------------------------------------

\* GLib passes the call on to the phone.
Asks == proxy /\ error # "set"

\* The phone refuses the call, and the function returns.
PhoneRefuses ==
    /\ Return
    /\ error' = IF error = "NULL" THEN "NULL" ELSE "set"
    /\ refused' = refused \cup {Here.dir}
    /\ UNCHANGED <<fi, infos, table, current, proxy, listed, gone>>

SelectDir ==
    /\ At("select") /\ Asks
    /\ stack' = [stack EXCEPT ![Depth].at = "list"]
    /\ current' = Here.dir
    /\ UNCHANGED <<fi, infos, table, error, proxy, listed, refused, gone>>

\* Mutant of SelectFails: the failure ends the whole walk.
SelectFailsForAll ==
    /\ At("select") /\ Asks
    /\ stack' = <<>>
    /\ error' = IF error = "NULL" THEN "NULL" ELSE "set"
    /\ refused' = refused \cup {Here.dir}
    /\ UNCHANGED <<fi, infos, table, current, proxy, listed, gone>>

SelectFails == At("select") /\ Asks /\ PhoneRefuses

\* Mutant of ListFolders: the listing is taken to have the directory itself.
ListWithSelf ==
    /\ At("list") /\ Asks
    /\ stack' = [stack EXCEPT ![Depth].at = "loop",
                              ![Depth].todo = Folders(current) \cup {current}]
    /\ listed' = listed \cup {Here.dir}
    /\ UNCHANGED <<fi, infos, table, current, error, proxy, refused, gone>>

ListFolders ==
    /\ At("list") /\ Asks
    /\ stack' = [stack EXCEPT ![Depth].at = "loop",
                              ![Depth].todo = Folders(current)]
    /\ listed' = listed \cup {Here.dir}
    /\ UNCHANGED <<fi, infos, table, current, error, proxy, refused, gone>>

\* Mutant of ListFails: the listing is asked for without the caller's error.
ListFailsSilently ==
    /\ At("list") /\ Asks
    /\ Return
    /\ refused' = refused \cup {Here.dir}
    /\ UNCHANGED <<fi, infos, table, current, error, proxy, listed, gone>>

ListFails == At("list") /\ Asks /\ PhoneRefuses

\* With the error of an earlier directory the phone is not asked.
NotAsked ==
    /\ At("select") /\ proxy /\ error = "set"
    /\ Return
    /\ UNCHANGED <<fi, infos, table, current, error, proxy, listed, refused,
                   gone>>

\* Without a proxy it is not asked either, and the error stays as it is.
NoProxy ==
    /\ At("select") \/ At("list")
    /\ ~proxy
    /\ Return
    /\ gone' = gone \cup {Here.dir}
    /\ UNCHANGED <<fi, infos, table, current, error, proxy, listed, refused>>

\* The stack once folder f of the directory is visited; the first info of the
\* lowest frame is also what fiparent points to.
Visit(f) ==
    Append([stack EXCEPT ![Depth].todo = @ \ {f}, ![Depth].fi = f],
           Frame(f, f))

\* child is never set.
Info(parent) == [parent |-> parent, next |-> None]

\* The infos with one more for f; prev is the one before it in the directory.
Linked(f, parent, prev) ==
    [d \in DOMAIN infos \cup {f} |->
        IF d = f THEN Info(parent)
        ELSE IF d = prev THEN [infos[d] EXCEPT !.next = f]
        ELSE infos[d]]

\* Mutant of FirstFolder: what fiparent points to is set for every directory.
FirstFolderOfAll(f) ==
    /\ At("loop") /\ f \in Here.todo
    /\ Here.fi = None
    /\ IF Depth = 1 THEN fi' = f /\ stack' = Visit(f)
       ELSE UNCHANGED fi /\ stack' = [Visit(f) EXCEPT ![Depth - 1].fi = f]
    /\ infos' = Linked(f, Here.parent_fi, None)
    /\ table' = table \cup {f}
    /\ UNCHANGED <<current, error, proxy, listed, refused, gone>>

FirstFolder(f) ==
    /\ At("loop") /\ f \in Here.todo
    /\ Here.fi = None
    /\ stack' = Visit(f)
    /\ fi' = IF Here.parent_fi = None THEN f ELSE fi
    /\ infos' = Linked(f, Here.parent_fi, None)
    /\ table' = table \cup {f}
    /\ UNCHANGED <<current, error, proxy, listed, refused, gone>>

\* Mutant of NextFolder: the info before it becomes the parent.
NextFolderUnder(f) ==
    /\ At("loop") /\ f \in Here.todo
    /\ Here.fi # None
    /\ stack' = Visit(f)
    /\ infos' = Linked(f, Here.fi, Here.fi)
    /\ table' = table \cup {f}
    /\ UNCHANGED <<fi, current, error, proxy, listed, refused, gone>>

NextFolder(f) ==
    /\ At("loop") /\ f \in Here.todo
    /\ Here.fi # None
    /\ stack' = Visit(f)
    /\ infos' = Linked(f, Here.parent_fi, Here.fi)
    /\ table' = table \cup {f}
    /\ UNCHANGED <<fi, current, error, proxy, listed, refused, gone>>

EndOfListing ==
    /\ At("loop") /\ Here.todo = {}
    /\ Return
    /\ UNCHANGED <<fi, infos, table, current, error, proxy, listed, refused,
                   gone>>

\* The store is disconnected, in another thread.
Disconnect ==
    /\ stack # <<>>
    /\ proxy /\ proxy' = FALSE
    /\ UNCHANGED <<stack, fi, infos, table, current, error, listed, refused,
                   gone>>

\* map_get_folder_info_sync has returned.
Rest == stack = <<>> /\ UNCHANGED vars

Next ==
    \/ SelectDir \/ SelectFails \/ ListFolders \/ ListFails
    \/ \E f \in Dirs : FirstFolder(f) \/ NextFolder(f)
    \/ EndOfListing
    \/ NotAsked \/ NoProxy \/ Disconnect
    \/ Rest

Spec == Init /\ [][Next]_vars

----------------------------------------------------------------------------
(* Properties.                                                             *)

\* Type correctness of the whole state.
TypeOK ==
    /\ \A i \in 1..Depth :
          stack[i] \in [dir : Dirs \cup {Top}, at : {"select", "list", "loop"},
                        todo : SUBSET Dirs, fi : Dirs \cup {None},
                        parent_fi : Dirs \cup {None}]
    /\ fi \in Dirs \cup {None}
    /\ DOMAIN infos \subseteq Dirs
    /\ \A d \in DOMAIN infos :
          infos[d] \in [parent : Dirs \cup {None}, next : Dirs \cup {None}]
    /\ table \in SUBSET Dirs
    /\ current \in Dirs \cup {Top}
    /\ error \in {"NULL", "unset", "set"} /\ proxy \in BOOLEAN
    /\ {listed, refused, gone} \subseteq SUBSET (Dirs \cup {Top})

Over == stack = <<>>

\* The variable shared over the recursion does not mix directories up: in the
\* end the infos of each listed directory are one chain of siblings, and the
\* info returned is the first of the chain of "/telecom/msg".
SiblingsChained ==
    Over => \A d \in listed :
        \E chain \in SetToSeqs(Folders(d)) :
            /\ \A i \in DOMAIN chain :
                  infos[chain[i]].next =
                     IF i < Len(chain) THEN chain[i + 1] ELSE None
            /\ d = Top /\ chain # <<>> => fi = chain[1]

\* The parent of an info is the info of the directory it is in, and the infos
\* at the top have none, whatever has been visited in between.
ParentIsDirectory ==
    \A d \in DOMAIN infos :
        infos[d].parent = IF Up[d] = Top THEN None ELSE Up[d]

\* The directories with an info, and the top, whose folders are not known.
Unlisted == (DOMAIN infos \cup {Top}) \ listed

\* Every folder of every directory that was listed has an info and is in the
\* table.  For a caller without a place for an error (camel-test.c 74) a
\* directory costs its own subtree only: those whose folders are not known are
\* the ones that the phone itself refused or that were reached without a proxy.
FailureIsLocal ==
    Over => /\ DOMAIN infos = UNION {Folders(d) : d \in listed}
            /\ table = DOMAIN infos
            /\ error = "NULL" => Unlisted = refused \cup gone

\* A caller with a place for an error learns from it whether the hierarchy is
\* complete, if the store stayed connected: the error is set exactly when the
\* phone refused a directory.  It was asked for none after that one, so that
\* those that came later cost their subtrees as well.
ErrorTellsLoss ==
    Over => /\ error = "unset" => refused = {} /\ Unlisted = gone
            /\ error = "set" => \E d \in Unlisted : refused = {d}

============================================================================
