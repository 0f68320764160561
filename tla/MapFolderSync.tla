--------------------------- MODULE MapFolderSync ---------------------------
(***************************************************************************)
(* Keeping the message summaries of a store's folders in step with the     *)
(* phone: refresh, expunge, marking messages read, and the other           *)
(* operations that share the store's folder_lock with them                 *)
(* (camel/camel-map-folder.c 146-221 and 735-1328, map_info_set_flags of   *)
(* camel/camel-map-summary.c, the folder lock of camel/camel-map-store.c). *)
(*                                                                         *)
(* folder_lock is recursive: a refresh that marks a message read on the    *)
(* phone takes it again, which changes nothing and is not modelled.        *)
(* One action is one call to the phone, one critical section or one        *)
(* change of a summary.  Properties of a message other than its read       *)
(* status are not modelled; Priority is handled like Read but never sent   *)
(* to the phone.                                                           *)
(***************************************************************************)
EXTENDS Naturals, FiniteSets

CONSTANTS
    Threads,        \* the threads that call into the folders
    Folders,        \* the folders of the store
    Messages,       \* the messages the phone may ever have
    Home,           \* the folder of each message
    NoThread,       \* folder_lock when it is free
    NoFolder,       \* the folder of an idle thread
    MsgDir,         \* the phone's directory "/telecom/msg"
    MaxOps,         \* bound: operations started by all threads together
    MaxEvents       \* bound: events of the handset, of the store and crashes

ASSUME HomeIsFolder == Home \in [Messages -> Folders]

ASSUME NamesDistinct ==
    /\ NoThread \notin Threads
    /\ NoFolder \notin Folders /\ MsgDir \notin Folders

ASSUME BoundsAreNat == MaxOps \in Nat /\ MaxEvents \in Nat

VARIABLES
    pc,             \* where each thread is
    folder,         \* the folder of its operation
    msg,            \* the messages it works on: one, or none
    todo,           \* messages of a listing or of known_uids still to come
    want,           \* the statuses its listing, or its caller, gives messages
    prune,          \* the local initial_fetch of a refresh
    changed,        \* the refresh has changes to save and to signal
    refreshing,     \* the folders whose refreshing flag is set
    folder_lock,    \* the thread that holds the store's folder lock
    initial_fetch,  \* the store's initial_fetch flag
    phone,          \* the phone: a status per message
    phone_dir,      \* the phone's current directory
    local,          \* the summaries in memory: a status per message
    marked,         \* messages whose DELETED flag is set in the summary
    db,             \* the saved summaries: statuses and DELETED flags
    touched,        \* history: messages somebody else changed since the
                    \* listing of the running refresh
    flagged,        \* history: messages whose DELETED flag somebody set
                    \* since the expunge of a thread began
    expunged,       \* history: messages expunged since the last crash
    refreshed,      \* history: folders refreshed since the last crash
    ops, events     \* counters for the bounds

thread == <<pc, folder, msg, todo, want, prune, changed>>
store  == <<refreshing, folder_lock, initial_fetch>>
remote == <<phone, phone_dir>>
disk   == <<db>>
past   == <<touched, flagged, expunged, refreshed>>
count  == <<ops, events>>

vars == <<thread, store, remote, local, marked, disk, past, count>>

----------------------------------------------------------------------------

\* "none" is a message not there yet, "gone" one deleted on the phone, which
\* does not use its handle again.
Shown == {"unread", "read"}

InFolder(f) == {m \in Messages : Home[m] = f}
Known(f)    == {m \in InFolder(f) : local[m] # "none"}
ListedBy(t) == {m \in Messages : want[t][m] # "none"}

RefreshSteps == {"r_lock", "r_inbox", "r_select", "r_list", "r_process",
                 "r_echo", "r_write", "r_apply", "r_prune", "r_save",
                 "r_unlock", "r_clear"}
ExpungeSteps == {"x_lock", "x_loop", "x_delete", "x_remove", "x_unlock"}
Locked == (RefreshSteps \ {"r_lock", "r_clear"})
          \cup (ExpungeSteps \ {"x_lock"})
          \cup {"m_select", "m_write", "m_unlock",
                "f_select", "f_get", "f_unlock"}
Labels == RefreshSteps \cup Locked
          \cup {"idle", "x_lock", "m_lock", "m_set", "f_lock"}

NoStatus == [m \in Messages |-> "none"]

Init ==
    /\ pc = [t \in Threads |-> "idle"]
    /\ folder = [t \in Threads |-> NoFolder]
    /\ msg = [t \in Threads |-> {}]
    /\ todo = [t \in Threads |-> {}]
    /\ want = [t \in Threads |-> NoStatus]
    /\ prune = {}
    /\ changed = {}
    /\ refreshing = {}
    /\ folder_lock = NoThread
    /\ initial_fetch = TRUE
    /\ phone \in [Messages -> {"none", "unread"}]
    /\ phone_dir = MsgDir
    /\ local = NoStatus
    /\ marked = {}
    /\ db = [status |-> NoStatus, marked |-> {}]
    /\ touched = {}
    /\ flagged = [t \in Threads |-> {}]
    /\ expunged = {}
    /\ refreshed = {}
    /\ ops = 0
    /\ events = 0

Move(t, from, to) == pc[t] = from /\ pc' = [pc EXCEPT ![t] = to]

\* A step of t that changes nothing of the thread but where it is.
Goto(t, from, to) ==
    /\ Move(t, from, to)
    /\ UNCHANGED <<folder, msg, todo, want, prune, changed>>

\* The operation of t is over and its local variables are gone.
Finish(t, from) ==
    /\ Move(t, from, "idle")
    /\ folder' = [folder EXCEPT ![t] = NoFolder]
    /\ msg' = [msg EXCEPT ![t] = {}]
    /\ todo' = [todo EXCEPT ![t] = {}]
    /\ want' = [want EXCEPT ![t] = NoStatus]
    /\ prune' = prune \ {t}
    /\ changed' = changed \ {t}

\* Thread t begins an operation on folder f.
Begin(t, f, label, ms, us) ==
    /\ ops < MaxOps
    /\ ops' = ops + 1
    /\ Move(t, "idle", label)
    /\ folder' = [folder EXCEPT ![t] = f]
    /\ msg' = [msg EXCEPT ![t] = ms]
    /\ todo' = [todo EXCEPT ![t] = us]
    /\ UNCHANGED <<want, prune, changed, events>>

Lock(t, from, to) ==
    /\ folder_lock = NoThread
    /\ folder_lock' = t
    /\ Goto(t, from, to)
    /\ UNCHANGED <<refreshing, initial_fetch, remote, local, marked, disk, past,
                   count>>

Unlock(t, from, to) ==
    /\ Goto(t, from, to)
    /\ folder_lock' = NoThread
    /\ UNCHANGED <<refreshing, initial_fetch, remote, local, marked, disk, past,
                   count>>

UnlockAndReturn(t, from) ==
    /\ Finish(t, from)
    /\ folder_lock' = NoThread
    /\ UNCHANGED <<refreshing, initial_fetch, remote, local, marked, disk, past,
                   count>>

\* SetFolder on the phone: it succeeds and t goes on, or it fails.
SelectDir(t, dir, from, ok, failed) ==
    /\ \/ Goto(t, from, ok) /\ phone_dir' = dir
       \/ Goto(t, from, failed) /\ UNCHANGED phone_dir
    /\ UNCHANGED <<store, phone, local, marked, disk, past, count>>

----------------------------------------------------------------------------
(* map_refresh_info_sync.                                                  *)

\* Under state_lock: a refresh of a folder that is being refreshed returns.
RefreshInfo(t, f) ==
    /\ f \notin refreshing
    /\ Begin(t, f, "r_lock", {}, {})
    /\ refreshing' = refreshing \cup {f}
    /\ UNCHANGED <<folder_lock, initial_fetch, remote, local, marked, disk, past>>

\* Mutant of RefreshLock: the refreshing flag alone is relied on.
RefreshUnlocked(t) ==
    /\ Goto(t, "r_lock", "r_inbox")
    /\ UNCHANGED <<store, remote, local, marked, disk, past, count>>

RefreshLock(t) == Lock(t, "r_lock", "r_inbox")

\* Mutant of UpdateInbox: its error path forgets the refreshing flag.
UpdateInboxKeepingFlag(t) ==
    \/ /\ Goto(t, "r_inbox", "r_select")
       /\ UNCHANGED <<store, remote, local, marked, disk, past, count>>
    \/ UnlockAndReturn(t, "r_inbox")

\* An update_inbox the phone does not implement counts as done.
UpdateInbox(t) ==
    /\ \E next \in {"r_select", "r_unlock"} : Goto(t, "r_inbox", next)
    /\ UNCHANGED <<store, remote, local, marked, disk, past, count>>

RefreshSelect(t) == SelectDir(t, MsgDir, "r_select", "r_list", "r_unlock")

\* ListMessages, and the flag that makes this the refresh that prunes.
ListMessages(t) ==
    \/ /\ Goto(t, "r_list", "r_unlock")
       /\ UNCHANGED <<store, remote, local, marked, disk, past, count>>
    \/ LET listed == {m \in InFolder(folder[t]) : phone[m] \in Shown}
       IN /\ Move(t, "r_list", "r_process")
          /\ want' = [want EXCEPT ![t] =
                [m \in Messages |-> IF m \in listed THEN phone[m] ELSE "none"]]
          /\ todo' = [todo EXCEPT ![t] = listed]
          /\ prune' = IF initial_fetch THEN prune \cup {t} ELSE prune
          /\ initial_fetch' = FALSE
          /\ touched' = {}
          /\ UNCHANGED <<folder, msg, changed, refreshing, folder_lock, remote,
                         local, marked, disk, flagged, expunged, refreshed,
                         count>>

\* The next message of the listing: the same in the summary, different or new.
\* camel_message_info_set_flags goes to map_info_set_flags, which tells the
\* phone when the SEEN flag changes: a new message starts out unread.  It is
\* added with the first of its properties, which may come before Read.
ProcessMessage(t) ==
    \E m \in todo[t] :
        /\ \/ /\ local[m] = want[t][m]
              /\ Move(t, "r_process", "r_process")
              /\ UNCHANGED <<msg, changed, local>>
           \/ /\ local[m] # want[t][m]
              /\ Move(t, "r_process",
                      IF local[m] = "none" /\ want[t][m] = "unread"
                      THEN "r_apply" ELSE "r_echo")
              /\ msg' = [msg EXCEPT ![t] = {m}]
              /\ changed' = changed \cup {t}
              /\ \/ UNCHANGED local
                 \/ local[m] = "none" /\ local' = [local EXCEPT ![m] = "unread"]
        /\ todo' = [todo EXCEPT ![t] = @ \ {m}]
        /\ UNCHANGED <<folder, want, prune, store, remote, marked, disk, past,
                       count>>

EchoSelect(t) == SelectDir(t, folder[t], "r_echo", "r_write", "r_apply")

\* The Read property of the messages ms becomes s on the phone, or the call
\* fails; a call that reports a failure may have been carried out.
SetRead(ms, s) ==
    phone' \in {phone, [m \in Messages |->
                           IF m \in ms /\ phone[m] \in Shown THEN s ELSE phone[m]]}

\* Mutant of EchoWrite: the status the summary still has is sent.
EchoOldStatus(t) ==
    /\ Goto(t, "r_write", "r_apply")
    /\ \A m \in msg[t] :
          SetRead({m}, IF want[t][m] = "read" THEN "unread" ELSE "read")
    /\ UNCHANGED <<store, phone_dir, local, marked, disk, past, count>>

EchoWrite(t) ==
    /\ Goto(t, "r_write", "r_apply")
    /\ \A m \in msg[t] : SetRead({m}, want[t][m])
    /\ UNCHANGED <<store, phone_dir, local, marked, disk, past, count>>

\* Mutant of ApplyMessage: only new messages reach the summary.
ApplyNewOnly(t) ==
    /\ Move(t, "r_apply", "r_process")
    /\ local' = [m \in Messages |->
                    IF m \in msg[t] /\ local[m] = "none" THEN want[t][m]
                                                         ELSE local[m]]
    /\ msg' = [msg EXCEPT ![t] = {}]
    /\ UNCHANGED <<folder, todo, want, prune, changed, store, remote, marked,
                   disk, past, count>>

ApplyMessage(t) ==
    /\ Move(t, "r_apply", "r_process")
    /\ local' = [m \in Messages |->
                    IF m \in msg[t] THEN want[t][m] ELSE local[m]]
    /\ msg' = [msg EXCEPT ![t] = {}]
    /\ UNCHANGED <<folder, todo, want, prune, changed, store, remote, marked,
                   disk, past, count>>

ProcessEnd(t) ==
    /\ todo[t] = {}
    /\ Goto(t, "r_process", IF t \in prune THEN "r_prune" ELSE "r_save")
    /\ UNCHANGED <<store, remote, local, marked, disk, past, count>>

\* Messages of the summary that the phone did not list leave it.
Prune(t) ==
    LET unlisted == Known(folder[t]) \ ListedBy(t)
    IN /\ Move(t, "r_prune", "r_save")
       /\ local' = [m \in Messages |->
                       IF m \in unlisted THEN "none" ELSE local[m]]
       /\ marked' = marked \ unlisted
       /\ changed' = IF unlisted # {} THEN changed \cup {t} ELSE changed
       /\ UNCHANGED <<folder, msg, todo, want, prune, store, remote, disk,
                      past, count>>

\* camel_folder_summary_save_to_db for folder f.
SaveToDb(f) ==
    db' = [status |-> [m \in Messages |-> IF Home[m] = f THEN local[m]
                                                         ELSE db.status[m]],
           marked |-> (marked \cap InFolder(f)) \cup (db.marked \ InFolder(f))]

SaveChanges(t) ==
    /\ Goto(t, "r_save", "r_unlock")
    /\ IF t \in changed THEN SaveToDb(folder[t]) ELSE UNCHANGED db
    /\ refreshed' = refreshed \cup {folder[t]}
    /\ UNCHANGED <<store, remote, local, marked, touched, flagged, expunged,
                   count>>

RefreshUnlock(t) == Unlock(t, "r_unlock", "r_clear")

\* Under state_lock.
RefreshClear(t) ==
    /\ Finish(t, "r_clear")
    /\ refreshing' = refreshing \ {folder[t]}
    /\ UNCHANGED <<folder_lock, initial_fetch, remote, local, marked, disk,
                   past, count>>

----------------------------------------------------------------------------
(* map_folder_delete_messages, reached from expunge_sync and               *)
(* synchronize_sync.                                                       *)

\* The uids are collected before the lock is taken.
Expunge(t, f) ==
    /\ Begin(t, f, "x_lock", {}, Known(f))
    /\ UNCHANGED <<want, store, remote, local, marked, disk, past>>

ExpungeLock(t) == Lock(t, "x_lock", "x_loop")

\* The next uid: messages whose DELETED flag is not set stay.
ExpungeNext(t) ==
    \E m \in todo[t] :
        /\ local[m] # "none"
        /\ Move(t, "x_loop", IF m \in marked THEN "x_delete" ELSE "x_loop")
        /\ todo' = [todo EXCEPT ![t] = @ \ {m}]
        /\ msg' = [msg EXCEPT ![t] = IF m \in marked THEN {m} ELSE {}]
        /\ UNCHANGED <<folder, want, prune, changed, store, remote, local,
                       marked, disk, past, count>>

ExpungeEnd(t) ==
    /\ todo[t] = {}
    /\ Goto(t, "x_loop", "x_unlock")
    /\ UNCHANGED <<store, remote, local, marked, disk, past, count>>

\* Mutant of DeleteOnPhone: a failed call is taken for a deletion.
DeleteUnchecked(t) ==
    /\ Goto(t, "x_delete", "x_remove")
    /\ \A m \in msg[t] : phone' \in {phone, [phone EXCEPT ![m] = "gone"]}
    /\ UNCHANGED <<store, phone_dir, local, marked, disk, past, count>>

\* Mutant of DeleteOnPhone: the error path returns without unlocking.
DeleteLeavingLocked(t) ==
    \E m \in msg[t] :
        /\ phone' = [phone EXCEPT ![m] = "gone"]
        /\ Goto(t, "x_delete", "x_remove") \/ Finish(t, "x_delete")
        /\ UNCHANGED <<store, phone_dir, local, marked, disk, past, count>>

\* Mutant of DeleteOnPhone: a failed call does not end the expunge.
DeleteContinuing(t) ==
    \E m \in msg[t] :
        LET deleted == [phone EXCEPT ![m] = "gone"]
        IN /\ \/ /\ phone[m] \in Shown
                 /\ Goto(t, "x_delete", "x_remove")
                 /\ phone' = deleted
              \/ /\ Goto(t, "x_delete", "x_loop")
                 /\ phone' \in {phone, deleted}
           /\ UNCHANGED <<store, phone_dir, local, marked, disk, past, count>>

\* The phone deletes the message, or the call fails and ends the expunge; a
\* failing call may have been carried out.
DeleteOnPhone(t) ==
    \E m \in msg[t] :
        LET deleted == [phone EXCEPT ![m] = "gone"]
        IN /\ \/ /\ phone[m] \in Shown
                 /\ Goto(t, "x_delete", "x_remove")
                 /\ phone' = deleted
              \/ /\ Goto(t, "x_delete", "x_unlock")
                 /\ phone' \in {phone, deleted}
           /\ UNCHANGED <<store, phone_dir, local, marked, disk, past, count>>

\* Mutant of RemoveMessage: the entry stays, as one deleted on the phone.
RemoveKeepingEntry(t) ==
    /\ Move(t, "x_remove", "x_loop")
    /\ local' = [m \in Messages |-> IF m \in msg[t] THEN "gone" ELSE local[m]]
    /\ marked' = marked \ msg[t]
    /\ expunged' = expunged \cup msg[t]
    /\ msg' = [msg EXCEPT ![t] = {}]
    /\ UNCHANGED <<folder, todo, want, prune, changed, store, remote, disk,
                   touched, flagged, refreshed, count>>

\* Summary and cache forget the message.
RemoveMessage(t) ==
    /\ Move(t, "x_remove", "x_loop")
    /\ local' = [m \in Messages |-> IF m \in msg[t] THEN "none" ELSE local[m]]
    /\ marked' = marked \ msg[t]
    /\ expunged' = expunged \cup msg[t]
    /\ msg' = [msg EXCEPT ![t] = {}]
    /\ UNCHANGED <<folder, todo, want, prune, changed, store, remote, disk,
                   touched, flagged, refreshed, count>>

ExpungeUnlock(t) ==
    /\ Finish(t, "x_unlock")
    /\ folder_lock' = NoThread
    /\ flagged' = [flagged EXCEPT ![t] = {}]
    /\ UNCHANGED <<refreshing, initial_fetch, remote, local, marked, disk,
                   touched, expunged, refreshed, count>>

----------------------------------------------------------------------------
(* Flags a user changes: map_info_set_flags and mark_message_read.         *)

Opposite(s) == IF s = "read" THEN "unread" ELSE "read"

\* A change of the SEEN flag is sent to the phone before it is made locally.
SetSeen(t, m) ==
    /\ local[m] # "none"
    /\ ops < MaxOps
    /\ ops' = ops + 1
    /\ Move(t, "idle", "m_lock")
    /\ folder' = [folder EXCEPT ![t] = Home[m]]
    /\ msg' = [msg EXCEPT ![t] = {m}]
    /\ want' = [want EXCEPT ![t][m] = Opposite(local[m])]
    /\ UNCHANGED <<todo, prune, changed, store, remote, local, marked, disk,
                   past, events>>

MarkLock(t) == Lock(t, "m_lock", "m_select")

\* Mutant of MarkSelect: its error path jumps behind the unlock.
MarkSelectLeavingLocked(t) ==
    SelectDir(t, folder[t], "m_select", "m_write", "m_set")

MarkSelect(t) == SelectDir(t, folder[t], "m_select", "m_write", "m_unlock")

MarkWrite(t) ==
    /\ Goto(t, "m_write", "m_unlock")
    /\ \A m \in msg[t] : SetRead({m}, want[t][m])
    /\ UNCHANGED <<store, phone_dir, local, marked, disk, past, count>>

MarkUnlock(t) == Unlock(t, "m_unlock", "m_set")

\* Whatever came of the call, the flag changes locally; the info may have left
\* the summary meanwhile.
MarkLocally(t) ==
    /\ Finish(t, "m_set")
    /\ local' = [m \in Messages |->
                    IF m \in msg[t] /\ local[m] # "none" THEN want[t][m]
                                                         ELSE local[m]]
    /\ touched' = touched \cup msg[t]
    /\ UNCHANGED <<store, remote, marked, disk, flagged, expunged, refreshed,
                   count>>

\* The DELETED flag is only local until an expunge.
SetDeleted(m) ==
    /\ local[m] # "none"
    /\ ops < MaxOps
    /\ ops' = ops + 1
    /\ marked' = IF m \in marked THEN marked \ {m} ELSE marked \cup {m}
    /\ flagged' = [t \in Threads |->
                      flagged[t] \cup IF pc[t] \in ExpungeSteps THEN {m} ELSE {}]
    /\ UNCHANGED <<thread, store, remote, local, disk, touched, expunged,
                   refreshed, events>>

----------------------------------------------------------------------------
(* Other users of the folder lock and of the phone's current directory.    *)

\* camel_map_folder_get_message; module MapMessageFetch has the rest of it.
Fetch(t, m) ==
    /\ local[m] # "none"
    /\ Begin(t, Home[m], "f_lock", {m}, {})
    /\ UNCHANGED <<want, store, remote, local, marked, disk, past>>

FetchLock(t)   == Lock(t, "f_lock", "f_select")
FetchSelect(t) == SelectDir(t, folder[t], "f_select", "f_get", "f_unlock")
FetchGet(t) ==
    /\ Goto(t, "f_get", "f_unlock")
    /\ UNCHANGED <<store, remote, local, marked, disk, past, count>>
FetchUnlock(t) == UnlockAndReturn(t, "f_unlock")

\* Mutant of GetFolder: SetFolder without the lock.
GetFolderUnlocked(f) ==
    /\ ops < MaxOps
    /\ ops' = ops + 1
    /\ phone_dir' = f
    /\ UNCHANGED <<thread, store, phone, local, marked, disk, past, events>>

\* map_get_folder_sync takes the lock for its SetFolder.
GetFolder(f) ==
    /\ folder_lock = NoThread
    /\ ops < MaxOps
    /\ ops' = ops + 1
    /\ phone_dir' = f
    /\ UNCHANGED <<thread, store, phone, local, marked, disk, past, events>>

----------------------------------------------------------------------------
(* The handset, Camel's own saving of summaries, and the process.          *)

Event == events < MaxEvents /\ events' = events + 1

NewMessage(m) ==
    /\ Event
    /\ phone[m] = "none"
    /\ phone' = [phone EXCEPT ![m] = "unread"]
    /\ UNCHANGED <<thread, store, phone_dir, local, marked, disk, past, ops>>

\* The message is read, marked unread or deleted on the handset.
HandsetChange(m) ==
    /\ Event
    /\ phone[m] \in Shown
    /\ \E s \in {Opposite(phone[m]), "gone"} : phone' = [phone EXCEPT ![m] = s]
    /\ touched' = touched \cup {m}
    /\ UNCHANGED <<thread, store, phone_dir, local, marked, disk, flagged,
                   expunged, refreshed, ops>>

\* Camel saves the summary of a folder, for instance when it closes it.
SaveSummary(f) ==
    /\ Event
    /\ SaveToDb(f)
    /\ UNCHANGED <<thread, store, remote, local, marked, past, ops>>

\* The process ends; the next one loads what was saved and connects anew.
Restart ==
    /\ pc' = [t \in Threads |-> "idle"]
    /\ folder' = [t \in Threads |-> NoFolder]
    /\ msg' = [t \in Threads |-> {}]
    /\ todo' = [t \in Threads |-> {}]
    /\ want' = [t \in Threads |-> NoStatus]
    /\ prune' = {}
    /\ changed' = {}
    /\ refreshing' = {}
    /\ folder_lock' = NoThread
    /\ initial_fetch' = TRUE
    /\ phone_dir' = MsgDir
    /\ local' = db.status
    /\ marked' = db.marked
    /\ touched' = {} /\ expunged' = {} /\ refreshed' = {}
    /\ flagged' = [t \in Threads |-> {}]
    /\ UNCHANGED <<phone, disk, ops>>

Crash == Event /\ Restart

\* map_folder_delete_messages uses the info of every uid it collected; for one
\* that has left the summary that is a NULL pointer.
ExpungeCrash(t) ==
    /\ pc[t] = "x_loop"
    /\ \E m \in todo[t] : local[m] = "none"
    /\ Restart
    /\ UNCHANGED events

\* Every operation was started and is over.
Rest ==
    /\ ops = MaxOps
    /\ \A t \in Threads : pc[t] = "idle"
    /\ UNCHANGED vars

----------------------------------------------------------------------------

\* The steps a thread takes by itself once it has begun an operation.
Step(t) ==
    \/ RefreshLock(t) \/ UpdateInbox(t) \/ RefreshSelect(t) \/ ListMessages(t)
    \/ ProcessMessage(t) \/ EchoSelect(t) \/ EchoWrite(t) \/ ApplyMessage(t)
    \/ ProcessEnd(t) \/ Prune(t) \/ SaveChanges(t) \/ RefreshUnlock(t)
    \/ RefreshClear(t)
    \/ ExpungeLock(t) \/ ExpungeNext(t) \/ ExpungeEnd(t) \/ ExpungeCrash(t)
    \/ DeleteOnPhone(t) \/ RemoveMessage(t) \/ ExpungeUnlock(t)
    \/ MarkLock(t) \/ MarkSelect(t) \/ MarkWrite(t) \/ MarkUnlock(t)
    \/ MarkLocally(t)
    \/ FetchLock(t) \/ FetchSelect(t) \/ FetchGet(t) \/ FetchUnlock(t)

Next ==
    \/ \E t \in Threads :
          \/ \E f \in Folders : RefreshInfo(t, f) \/ Expunge(t, f)
          \/ \E m \in Messages : SetSeen(t, m) \/ Fetch(t, m)
          \/ Step(t)
    \/ \E f \in Folders : GetFolder(f) \/ SaveSummary(f)
    \/ \E m \in Messages : SetDeleted(m) \/ NewMessage(m) \/ HandsetChange(m)
    \/ Crash
    \/ Rest

Spec == Init /\ [][Next]_vars

\* Every thread that can take a step of its operation takes one.
Fairness == \A t \in Threads : WF_vars(Step(t))

FairSpec == Spec /\ Fairness

----------------------------------------------------------------------------
(* Properties.                                                             *)

Status == {"none", "unread", "read"}

\* Type correctness of the whole state.
TypeOK ==
    /\ pc \in [Threads -> Labels]
    /\ folder \in [Threads -> Folders \cup {NoFolder}]
    /\ msg \in [Threads -> SUBSET Messages]
    /\ todo \in [Threads -> SUBSET Messages]
    /\ want \in [Threads -> [Messages -> Status]]
    /\ prune \in SUBSET Threads
    /\ changed \in SUBSET Threads
    /\ refreshing \in SUBSET Folders
    /\ folder_lock \in Threads \cup {NoThread}
    /\ initial_fetch \in BOOLEAN
    /\ phone \in [Messages -> Status \cup {"gone"}]
    /\ phone_dir \in Folders \cup {MsgDir}
    /\ local \in [Messages -> Status]
    /\ marked \in SUBSET Messages
    /\ db \in [status : [Messages -> Status], marked : SUBSET Messages]
    /\ touched \in SUBSET Messages
    /\ flagged \in [Threads -> SUBSET Messages]
    /\ expunged \in SUBSET Messages
    /\ refreshed \in SUBSET Folders
    /\ ops \in 0..MaxOps
    /\ events \in 0..MaxEvents

\* The refreshing flag of a folder is set exactly while one thread refreshes
\* it, whichever of the refresh's four ends is taken: a flag left behind would
\* turn every later refresh of the folder into a silent success.
RefreshingExact ==
    /\ refreshing = {folder[t] : t \in {s \in Threads : pc[s] \in RefreshSteps}}
    /\ \A s, t \in Threads :
          /\ pc[s] \in RefreshSteps /\ pc[t] \in RefreshSteps
          /\ folder[s] = folder[t]
          => s = t

\* The store's folder lock is held by exactly the thread that is between its
\* lock and its unlock, over refresh, expunge, mark and fetch.
FolderLockExact ==
    \A t \in Threads : folder_lock = t <=> pc[t] \in Locked

\* When the phone is asked for something in its current directory, that is the
\* directory the operation selected: no other operation, of this folder or of
\* another, selects its own in between.
SelectedDir ==
    \A t \in Threads :
        /\ pc[t] = "r_list" => phone_dir = MsgDir
        /\ pc[t] \in {"r_write", "m_write", "f_get"} => phone_dir = folder[t]

\* A message that was expunged does not come back with a refresh that overlaps
\* the expunge; only a crash, which loads an older summary, brings it back.
ExpungedStaysAway ==
    \A m \in expunged : local[m] = "none"

\* When a refresh has handled its listing, the summary agrees with it about
\* every message listed, unless a user or the handset changed the message
\* since; a message still known was listed if this refresh pruned.
RefreshAgrees ==
    \A t \in Threads : pc[t] = "r_save" =>
        /\ \A m \in ListedBy(t) \ touched : local[m] = want[t][m]
        /\ t \in prune => Known(folder[t]) \subseteq ListedBy(t)

\* A message only leaves the summary of a running process when the phone no
\* longer has it: neither an expunge whose call failed nor a refresh whose
\* listing is older than a new message drops one.  (After a crash no thread is
\* in an operation.)
DropsOnlyGone ==
    [][\A m \in Messages :
          /\ local[m] # "none" /\ local'[m] = "none"
          /\ \E t \in Threads : pc'[t] # "idle"
          => phone[m] = "gone"]_vars

\* An expunge that gets to its end, and so returns TRUE, has removed every
\* message of its folder whose DELETED flag was set when it began: one that the
\* phone refuses to delete, because the handset deleted it already, ends the
\* expunge with FALSE instead.  A refresh that ran between the collection of
\* the uids and the lock makes no difference.
ExpungesAll ==
    [][\A t \in Threads :
          pc[t] = "x_loop" /\ pc'[t] = "x_unlock"
          => marked \cap Known(folder[t]) \subseteq flagged[t]]_vars

\* Sending the read status of a listed message back to the phone changes
\* nothing there unless the message changed after it was listed.
EchoChangesNothing ==
    [][\A t \in Threads, m \in Messages :
          pc[t] = "r_write" /\ pc'[t] = "r_apply" /\ phone'[m] # phone[m]
          => m \in touched]_vars

\* "Only during initial fetch, we can check for deleted messages"
\* (camel-map-folder.c:818): when the first refresh of a folder in a session
\* saves, the summary has no message that the phone did not list.
FirstRefreshPrunes ==
    \A t \in Threads :
        pc[t] = "r_save" /\ folder[t] \notin refreshed
        => Known(folder[t]) \subseteq ListedBy(t)

\* Every operation ends: no path leaves the folder lock taken.
OperationsEnd ==
    \A t \in Threads : pc[t] # "idle" ~> pc[t] = "idle"

============================================================================
