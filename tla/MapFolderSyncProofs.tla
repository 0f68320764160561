------------------------ MODULE MapFolderSyncProofs --------------------------
(***************************************************************************)
(* For any threads, folders and messages and any bounds, the safety        *)
(* properties of MapFolderSync: what the folder lock and the refreshing    *)
(* flags guard, what a listing may still say when it is used, and what     *)
(* leaves the summary of a folder.                                         *)
(***************************************************************************)
EXTENDS MapFolderSync, TLAPS

\* A refresh that has its listing and still uses it.
Listing == {"r_process", "r_echo", "r_write", "r_apply", "r_prune", "r_save"}

\* The thread works on one message.
OneMessage == {"r_echo", "r_write", "r_apply", "x_delete", "x_remove",
               "m_lock", "m_select", "m_write", "m_unlock", "m_set"}

\* The local variables of an operation: all of its messages are messages of
\* its folder, and where it handles one of them, there is one.
Frame(t) ==
    /\ pc[t] = "idle" => todo[t] = {}
    /\ pc[t] # "idle" => folder[t] \in Folders
    /\ pc[t] # "idle" => msg[t] \cup todo[t] \subseteq InFolder(folder[t])
    /\ pc[t] \in OneMessage => msg[t] # {}
    /\ pc[t] \in (RefreshSteps \ OneMessage) \cup {"x_lock", "x_loop"}
       => msg[t] = {}
    /\ pc[t] \in {"r_prune", "r_save"} => todo[t] = {}

\* ... of every thread.
Frames == \A t \in Threads : Frame(t)

\* A thread works on one message at a time.
AtMostOne == \A t \in Threads : \A a, b \in msg[t] : a = b

\* What a thread still has to do is part of what it was given a status for.
Wants(t) ==
    /\ pc[t] \in Listing => /\ msg[t] \cup todo[t] \subseteq ListedBy(t)
                            /\ ListedBy(t) \subseteq InFolder(folder[t])
    /\ pc[t] \in {"m_lock", "m_select", "m_write", "m_unlock", "m_set"}
       => msg[t] \subseteq ListedBy(t)

\* ... of every thread.
Wanted == \A t \in Threads : Wants(t)

\* Nobody knows a message before the phone has it.
PhoneFirst ==
    \A m \in Messages : phone[m] = "none" =>
        /\ local[m] = "none" /\ db.status[m] = "none"
        /\ \A t \in Threads : want[t][m] = "none"

\* An expunged message is gone for good: the phone has deleted it, which an
\* expunge knows before it removes it from the summary, and no listing that is
\* still in use has it.
ExpungedGone == \A m \in expunged : phone[m] = "gone" /\ local[m] = "none"

\* An expunge that goes on to the removal of a message found it gone.
RemovesGone ==
    \A t \in Threads :
        pc[t] = "x_remove" => \A m \in msg[t] : phone[m] = "gone"

\* No listing in use has an expunged message.
ExpungedUnlisted ==
    \A t \in Threads :
        pc[t] \in Listing => \A m \in expunged : want[t][m] = "none"

\* A listing in use is what the phone has, but for what was touched, and what
\* the summary has, but for what was touched or is still to be handled.
Current(t) ==
    /\ \A m \in ListedBy(t) \ touched : phone[m] = want[t][m]
    /\ \A m \in ListedBy(t) \ (touched \cup todo[t] \cup msg[t]) :
          local[m] = want[t][m]
    /\ \A m \in Known(folder[t]) \ ListedBy(t) : phone[m] = "gone"
    /\ pc[t] = "r_save" /\ t \in prune
       => Known(folder[t]) \subseteq ListedBy(t)

\* ... for every refresh that uses its listing.
ListingCurrent == \A t \in Threads : pc[t] \in Listing => Current(t)

\* Only messages of a summary have the DELETED flag, there and when saved.
MarkedKnown ==
    /\ \A m \in marked : local[m] # "none"
    /\ \A m \in db.marked : db.status[m] # "none"

\* An expunge still has before it what was marked when it began.
Covers(t) ==
    marked \cap Known(folder[t]) \subseteq todo[t] \cup msg[t] \cup flagged[t]

\* ... while it goes on.
ExpungeCovers ==
    \A t \in Threads : pc[t] \in ExpungeSteps \ {"x_unlock"} => Covers(t)

\* The inductive invariant.
IInv ==
    /\ TypeOK /\ FolderLockExact /\ RefreshingExact /\ SelectedDir
    /\ Frames /\ AtMostOne /\ Wanted
    /\ PhoneFirst /\ ExpungedGone /\ RemovesGone /\ ExpungedUnlisted
    /\ ListingCurrent /\ MarkedKnown /\ ExpungeCovers

----------------------------------------------------------------------------
(* Types, in four parts: TypeOK says all four.                             *)

\* The labels.
PcType == pc \in [Threads -> Labels]

\* The local variables of the threads.
FrameTypes ==
    /\ folder \in [Threads -> Folders \cup {NoFolder}]
    /\ msg \in [Threads -> SUBSET Messages]
    /\ todo \in [Threads -> SUBSET Messages]
    /\ want \in [Threads -> [Messages -> Status]]
    /\ prune \in SUBSET Threads
    /\ changed \in SUBSET Threads

\* The phone, the summaries, the database and the ghosts.
DataTypes ==
    /\ phone \in [Messages -> Status \cup {"gone"}]
    /\ local \in [Messages -> Status]
    /\ marked \in SUBSET Messages
    /\ db \in [status : [Messages -> Status], marked : SUBSET Messages]
    /\ expunged \in SUBSET Messages
    /\ touched \in SUBSET Messages
    /\ flagged \in [Threads -> SUBSET Messages]
    /\ refreshed \in SUBSET Folders

\* The flags and locks of the store, and the bounds.
StoreTypes ==
    /\ refreshing \in SUBSET Folders
    /\ folder_lock \in Threads \cup {NoThread}
    /\ initial_fetch \in BOOLEAN
    /\ phone_dir \in Folders \cup {MsgDir}
    /\ ops \in 0..MaxOps
    /\ events \in 0..MaxEvents

\* Type correctness in parts.
LEMMA TypeParts == TypeOK <=> PcType /\ FrameTypes /\ DataTypes /\ StoreTypes
BY DEF TypeOK, PcType, FrameTypes, DataTypes, StoreTypes

\* The steps of thread t that change neither the phone nor a summary.
Control(t) ==
    \/ RefreshLock(t) \/ ExpungeLock(t) \/ MarkLock(t) \/ FetchLock(t)
    \/ RefreshUnlock(t) \/ MarkUnlock(t) \/ FetchUnlock(t) \/ ExpungeUnlock(t)
    \/ RefreshClear(t)
    \/ RefreshSelect(t) \/ EchoSelect(t) \/ MarkSelect(t) \/ FetchSelect(t)
    \/ UpdateInbox(t) \/ ProcessEnd(t) \/ ExpungeEnd(t) \/ FetchGet(t)

----------------------------------------------------------------------------
(* What the actions that change more than one variable of a thread do.     *)

\* What the threads other than t have, and where they are, stays.
OthersSame(t) ==
    \A s \in Threads \ {t} :
        /\ pc'[s] = pc[s] /\ folder'[s] = folder[s] /\ msg'[s] = msg[s]
        /\ todo'[s] = todo[s] /\ want'[s] = want[s]

\* Thread t moves and stays in its operation.
Moves(t, from, to) ==
    /\ pc[t] = from /\ pc'[t] = to
    /\ folder'[t] = folder[t]
    /\ OthersSame(t)

\* ListMessages fails, or gives t the statuses that its folder has on the
\* phone.
LEMMA ListEffect ==
  ASSUME PcType, FrameTypes, NEW t \in Threads, ListMessages(t)
  PROVE  \/ /\ Goto(t, "r_list", "r_unlock")
            /\ UNCHANGED <<store, remote, local, marked, disk, past, count>>
         \/ /\ Moves(t, "r_list", "r_process")
            /\ todo'[t] \subseteq Messages
            /\ \A m \in Messages :
                  /\ m \in todo'[t] <=> Home[m] = folder[t] /\ phone[m] \in Shown
                  /\ want'[t][m] = IF m \in todo'[t] THEN phone[m] ELSE "none"
            /\ msg' = msg /\ touched' = {}
            /\ UNCHANGED <<refreshing, folder_lock, remote, local, marked,
                           disk,
                           flagged, expunged, refreshed, count>>
<1> DEFINE listed == {m \in InFolder(folder[t]) : phone[m] \in Shown}
           status == [m \in Messages |-> IF m \in listed THEN phone[m] ELSE "none"]
<1>1. CASE /\ Goto(t, "r_list", "r_unlock")
           /\ UNCHANGED <<store, remote, local, marked, disk, past, count>>
    BY <1>1
<1>2. CASE /\ Move(t, "r_list", "r_process")
           /\ want' = [want EXCEPT ![t] = status]
           /\ todo' = [todo EXCEPT ![t] = listed]
           /\ touched' = {}
           /\ UNCHANGED <<folder, msg, refreshing, folder_lock, remote, local,
                          marked, disk, flagged, expunged, refreshed, count>>
  <2>1. /\ want'[t] = status /\ todo'[t] = listed
        /\ Moves(t, "r_list", "r_process")
      BY <1>2 DEF Move, Moves, OthersSame, PcType, FrameTypes
  <2> QED
      BY <1>2, <2>1 DEF InFolder
<1> QED
    BY <1>1, <1>2 DEF ListMessages

\* ProcessMessage takes one message m off the listing: if the summary has
\* another status for it, m is handled next.
LEMMA ProcessEffect ==
  ASSUME PcType, FrameTypes, NEW t \in Threads, ProcessMessage(t)
  PROVE  \E m \in todo[t] :
            /\ todo'[t] = todo[t] \ {m}
            /\ folder' = folder /\ want' = want /\ prune' = prune
            /\ UNCHANGED <<store, remote, marked, disk, past, count>>
            /\ \/ /\ local[m] = want[t][m]
                  /\ Moves(t, "r_process", "r_process")
                  /\ msg' = msg /\ local' = local
               \/ /\ local[m] # want[t][m]
                  /\ \E to \in {"r_apply", "r_echo"} : Moves(t, "r_process", to)
                  /\ msg'[t] = {m}
                  /\ \/ local' = local
                     \/ local[m] = "none" /\ local' = [local EXCEPT ![m] = "unread"]
BY DEF ProcessMessage, Move, Moves, OthersSame, PcType, FrameTypes

\* ExpungeNext takes one uid: a message to delete if its DELETED flag is set.
LEMMA ExpungeNextEffect ==
  ASSUME PcType, FrameTypes, NEW t \in Threads, ExpungeNext(t)
  PROVE  \E m \in todo[t] :
            /\ todo'[t] = todo[t] \ {m}
            /\ folder' = folder /\ want' = want
            /\ UNCHANGED <<store, remote, local, marked, disk, past, count>>
            /\ \/ m \in marked /\ Moves(t, "x_loop", "x_delete") /\ msg'[t] = {m}
               \/ m \notin marked /\ Moves(t, "x_loop", "x_loop") /\ msg'[t] = {}
BY DEF ExpungeNext, Move, Moves, OthersSame, PcType, FrameTypes

\* Begin puts an idle thread into an operation on folder f.
LEMMA BeginEffect ==
  ASSUME PcType, FrameTypes, NEW t \in Threads, NEW f, NEW label, NEW ms,
         NEW us,
         Begin(t, f, label, ms, us)
  PROVE  /\ pc[t] = "idle" /\ pc'[t] = label /\ folder'[t] = f
         /\ msg'[t] = ms /\ todo'[t] = us /\ want' = want
         /\ OthersSame(t)
BY DEF Begin, Move, OthersSame, PcType, FrameTypes

\* SetSeen begins an operation on one known message.
LEMMA SeenEffect ==
  ASSUME PcType, FrameTypes, NEW t \in Threads, NEW m \in Messages,
         SetSeen(t, m)
  PROVE  /\ local[m] # "none"
         /\ pc[t] = "idle" /\ pc'[t] = "m_lock" /\ folder'[t] = Home[m]
         /\ msg'[t] = {m} /\ todo'[t] = todo[t]
         /\ want'[t][m] = Opposite(local[m])
         /\ \A k \in Messages \ {m} : want'[t][k] = want[t][k]
         /\ OthersSame(t)
         /\ UNCHANGED <<prune, changed, store, remote, local, marked, disk,
                        past>>
BY DEF SetSeen, Move, OthersSame, PcType, FrameTypes

\* Finish ends the operation of t.
LEMMA FinishTypes ==
  ASSUME FrameTypes, NEW t \in Threads, NEW from, Finish(t, from)
  PROVE  FrameTypes'
<1>1. NoStatus \in [Messages -> Status]
    BY DEF NoStatus, Status
<1> QED
    BY <1>1 DEF FrameTypes, Finish

\* Control steps change no data; the statuses a thread wants stay or go.
LEMMA ControlEffect ==
  ASSUME FrameTypes, NEW t \in Threads, Control(t)
  PROVE  /\ UNCHANGED <<phone, local, marked, db, touched, expunged,
                        refreshed>>
         /\ \A s \in Threads : want'[s] \in {want[s], NoStatus}
<1> USE DEF Goto, Finish, Lock, Unlock, UnlockAndReturn, SelectDir, FrameTypes,
        store, remote, disk, past
<1>1. CASE RefreshLock(t) \/ ExpungeLock(t) \/ MarkLock(t) \/ FetchLock(t)
    BY <1>1 DEF RefreshLock, ExpungeLock, MarkLock, FetchLock
<1>2. CASE RefreshUnlock(t) \/ MarkUnlock(t)
    BY <1>2 DEF RefreshUnlock, MarkUnlock
<1>3. CASE FetchUnlock(t) \/ ExpungeUnlock(t) \/ RefreshClear(t)
    BY <1>3 DEF FetchUnlock, ExpungeUnlock, RefreshClear
<1>4. CASE RefreshSelect(t) \/ EchoSelect(t) \/ MarkSelect(t) \/ FetchSelect(t)
    BY <1>4 DEF RefreshSelect, EchoSelect, MarkSelect, FetchSelect
<1>5. CASE UpdateInbox(t) \/ ProcessEnd(t) \/ ExpungeEnd(t) \/ FetchGet(t)
    BY <1>5 DEF UpdateInbox, ProcessEnd, ExpungeEnd, FetchGet
<1> QED
    BY <1>1, <1>2, <1>3, <1>4, <1>5 DEF Control

----------------------------------------------------------------------------
(* Types.                                                                  *)

\* A thread is always at one of the labels.
LEMMA PcStep == PcType /\ [Next]_vars => PcType'
<1> SUFFICES ASSUME PcType, [Next]_vars PROVE PcType'
    OBVIOUS
<1> USE DEF PcType, Labels, Locked, RefreshSteps, ExpungeSteps, Goto, Move,
        Finish, thread
<1>1. ASSUME NEW t \in Threads, Control(t) PROVE PcType'
    BY <1>1 DEF Control, RefreshLock, ExpungeLock, MarkLock, FetchLock,
       RefreshUnlock, MarkUnlock, FetchUnlock, ExpungeUnlock, RefreshClear,
       RefreshSelect, EchoSelect, MarkSelect, FetchSelect, UpdateInbox,
       ProcessEnd, ExpungeEnd, FetchGet, Lock, Unlock, UnlockAndReturn,
       SelectDir
<1>2. ASSUME NEW t \in Threads, ListMessages(t) PROVE PcType'
    BY <1>2 DEF ListMessages
<1>3. ASSUME NEW t \in Threads, ProcessMessage(t) PROVE PcType'
    BY <1>3 DEF ProcessMessage
<1>4. ASSUME NEW t \in Threads, EchoWrite(t) \/ MarkWrite(t) PROVE PcType'
    BY <1>4 DEF EchoWrite, MarkWrite, SetRead
<1>5. ASSUME NEW t \in Threads, DeleteOnPhone(t) PROVE PcType'
    BY <1>5 DEF DeleteOnPhone
<1>6. ASSUME NEW t \in Threads, ApplyMessage(t) \/ RemoveMessage(t)
      PROVE  PcType'
    BY <1>6 DEF ApplyMessage, RemoveMessage
<1>7. ASSUME NEW t \in Threads, Prune(t) PROVE PcType'
    BY <1>7 DEF Prune
<1>8. ASSUME NEW t \in Threads, MarkLocally(t) PROVE PcType'
    BY <1>8 DEF MarkLocally
<1>9. ASSUME NEW t \in Threads, SaveChanges(t) PROVE PcType'
    BY <1>9 DEF SaveChanges, SaveToDb
<1>10. ASSUME NEW t \in Threads, ExpungeNext(t) PROVE PcType'
    BY <1>10 DEF ExpungeNext
<1>11. ASSUME NEW t \in Threads, NEW f \in Folders, RefreshInfo(t, f) \/
            Expunge(t, f)
      PROVE  PcType'
    BY <1>11 DEF RefreshInfo, Expunge, Begin
<1>12. ASSUME NEW t \in Threads, NEW m \in Messages, SetSeen(t, m) \/
            Fetch(t, m)
      PROVE  PcType'
    BY <1>12 DEF SetSeen, Fetch, Begin
<1>13. ASSUME NEW f \in Folders, GetFolder(f) \/ SaveSummary(f) PROVE PcType'
    BY <1>13 DEF GetFolder, SaveSummary, SaveToDb, Event
<1>14. ASSUME NEW m \in Messages, SetDeleted(m) \/ NewMessage(m) \/
            HandsetChange(m)
      PROVE  PcType'
    BY <1>14 DEF SetDeleted, NewMessage, HandsetChange, Event
<1>15. CASE Restart
    BY <1>15 DEF Restart
<1>16. CASE UNCHANGED vars
    BY <1>16 DEF vars
<1> QED
    BY <1>1, <1>2, <1>3, <1>4, <1>5, <1>6, <1>7, <1>8, <1>9, <1>10, <1>11,
       <1>12, <1>13, <1>14, <1>15, <1>16 DEF Next, Step, Control, Rest, Crash,
       ExpungeCrash

\* The local variables of the threads keep their types.
LEMMA FrameStep == FrameTypes /\ DataTypes /\ [Next]_vars => FrameTypes'
<1> SUFFICES ASSUME FrameTypes, DataTypes, [Next]_vars PROVE FrameTypes'
    OBVIOUS
<1> USE DEF FrameTypes, Goto, thread
<1>1. ASSUME NEW t \in Threads, Control(t) PROVE FrameTypes'
  <2>1. CASE RefreshLock(t) \/ ExpungeLock(t) \/ MarkLock(t) \/ FetchLock(t)
             \/ RefreshUnlock(t) \/ MarkUnlock(t)
      BY <2>1 DEF RefreshLock, ExpungeLock, MarkLock, FetchLock,
         RefreshUnlock, MarkUnlock, Lock, Unlock
  <2>2. CASE FetchUnlock(t) \/ ExpungeUnlock(t) \/ RefreshClear(t)
      BY <2>2, FinishTypes DEF FetchUnlock, ExpungeUnlock, RefreshClear,
         UnlockAndReturn
  <2>3. CASE RefreshSelect(t) \/ EchoSelect(t) \/ MarkSelect(t) \/ FetchSelect(t)
             \/ UpdateInbox(t) \/ ProcessEnd(t) \/ ExpungeEnd(t) \/ FetchGet(t)
      BY <2>3 DEF RefreshSelect, EchoSelect, MarkSelect, FetchSelect,
         SelectDir,
         UpdateInbox, ProcessEnd, ExpungeEnd, FetchGet
  <2> QED
      BY <1>1, <2>1, <2>2, <2>3 DEF Control
<1>2. ASSUME NEW t \in Threads, ListMessages(t) PROVE FrameTypes'
  <2> DEFINE listed == {m \in InFolder(folder[t]) : phone[m] \in Shown}
             status == [m \in Messages |-> IF m \in listed THEN phone[m] ELSE "none"]
  <2>1. status \in [Messages -> Status] /\ listed \in SUBSET Messages
      BY DEF InFolder, Shown, Status
  <2>2. CASE Goto(t, "r_list", "r_unlock")
      BY <2>2
  <2>3. CASE /\ want' = [want EXCEPT ![t] = status]
             /\ todo' = [todo EXCEPT ![t] = listed]
             /\ prune' \in {prune, prune \cup {t}}
             /\ UNCHANGED <<folder, msg, changed>>
    <3> HIDE DEF status, listed
    <3> QED
        BY <2>1, <2>3
  <2> QED
      BY <1>2, <2>2, <2>3 DEF ListMessages
<1>3. ASSUME NEW t \in Threads, ProcessMessage(t) PROVE FrameTypes'
    BY <1>3 DEF ProcessMessage
<1>4. ASSUME NEW t \in Threads, EchoWrite(t) \/ MarkWrite(t) PROVE FrameTypes'
    BY <1>4 DEF EchoWrite, MarkWrite, SetRead
<1>5. ASSUME NEW t \in Threads, DeleteOnPhone(t) PROVE FrameTypes'
    BY <1>5 DEF DeleteOnPhone
<1>6. ASSUME NEW t \in Threads, ApplyMessage(t) \/ RemoveMessage(t)
      PROVE  FrameTypes'
    BY <1>6 DEF ApplyMessage, RemoveMessage
<1>7. ASSUME NEW t \in Threads, Prune(t) PROVE FrameTypes'
    BY <1>7 DEF Prune
<1>8. ASSUME NEW t \in Threads, MarkLocally(t) PROVE FrameTypes'
    BY <1>8, FinishTypes DEF MarkLocally
<1>9. ASSUME NEW t \in Threads, SaveChanges(t) PROVE FrameTypes'
    BY <1>9 DEF SaveChanges, SaveToDb
<1>10. ASSUME NEW t \in Threads, ExpungeNext(t) PROVE FrameTypes'
    BY <1>10 DEF ExpungeNext
<1>11. ASSUME NEW t \in Threads, NEW f \in Folders, RefreshInfo(t, f) \/
            Expunge(t, f)
      PROVE  FrameTypes'
  <2>1. Known(f) \in SUBSET Messages
      BY DEF Known, InFolder
  <2> QED
      BY <1>11, <2>1 DEF RefreshInfo, Expunge, Begin
<1>12. ASSUME NEW t \in Threads, NEW m \in Messages, SetSeen(t, m) \/
            Fetch(t, m)
      PROVE  FrameTypes'
  <2>1. Opposite(local[m]) \in Status /\ Home[m] \in Folders
      BY HomeIsFolder DEF Opposite, Status
  <2>2. CASE SetSeen(t, m)
    <3>1. want' \in [Threads -> [Messages -> Status]]
        BY <2>1, <2>2 DEF SetSeen
    <3> QED
        BY <2>1, <2>2, <3>1 DEF SetSeen
  <2>3. CASE Fetch(t, m)
      BY <2>1, <2>3 DEF Fetch, Begin
  <2> QED
      BY <1>12, <2>2, <2>3
<1>13. ASSUME NEW f \in Folders, GetFolder(f) \/ SaveSummary(f)
      PROVE  FrameTypes'
    BY <1>13 DEF GetFolder, SaveSummary, SaveToDb, Event
<1>14. ASSUME NEW m \in Messages, SetDeleted(m) \/ NewMessage(m) \/
            HandsetChange(m)
      PROVE  FrameTypes'
    BY <1>14 DEF SetDeleted, NewMessage, HandsetChange, Event
<1>15. CASE Restart
  <2>1. NoStatus \in [Messages -> Status]
      BY DEF NoStatus, Status
  <2> QED
      BY <1>15, <2>1 DEF Restart
<1>16. CASE UNCHANGED vars
    BY <1>16 DEF vars
<1> QED
    BY <1>1, <1>2, <1>3, <1>4, <1>5, <1>6, <1>7, <1>8, <1>9, <1>10, <1>11,
       <1>12, <1>13, <1>14, <1>15, <1>16 DEF Next, Step, Control, Rest, Crash,
       ExpungeCrash

\* A write of the read status is about a message: EchoWrite and MarkWrite
\* run where there is one.
LEMMA WriteEffect ==
  ASSUME Frames, FrameTypes, NEW t \in Threads, EchoWrite(t) \/ MarkWrite(t)
  PROVE  \E m \in msg[t] :
            /\ SetRead({m}, want[t][m])
            /\ \/ Goto(t, "r_write", "r_apply") \/ Goto(t, "m_write", "m_unlock")
            /\ UNCHANGED <<store, phone_dir, local, marked, disk, past,
                           count>>
<1>1. msg[t] # {}
    BY DEF EchoWrite, MarkWrite, Goto, Move, Frames, Frame, OneMessage
<1> QED
    BY <1>1 DEF EchoWrite, MarkWrite

\* It leaves the phone with a status for every message.
LEMMA WriteData ==
  ASSUME Frames, FrameTypes, DataTypes, NEW t \in Threads,
         EchoWrite(t) \/ MarkWrite(t)
  PROVE  DataTypes'
<1>1. PICK m \in msg[t] :
            /\ SetRead({m}, want[t][m])
            /\ UNCHANGED <<store, phone_dir, local, marked, disk, past,
                           count>>
    BY WriteEffect
<1>2. phone' \in [Messages -> Status \cup {"gone"}]
    BY <1>1 DEF SetRead, FrameTypes, DataTypes
<1> QED
    BY <1>1, <1>2 DEF DataTypes, disk, past

\* So do the steps that change a summary.
LEMMA LocalData ==
  ASSUME FrameTypes, DataTypes, NEW t \in Threads,
         ApplyMessage(t) \/ RemoveMessage(t) \/ MarkLocally(t)
  PROVE  DataTypes'
<1>1. local' \in [Messages -> Status]
  <2>1. \A m \in Messages : want[t][m] \in Status
      BY DEF FrameTypes
  <2>2. "none" \in Status
      BY DEF Status
  <2> QED
      BY <2>1, <2>2 DEF ApplyMessage, RemoveMessage, MarkLocally, DataTypes
<1>2. /\ UNCHANGED <<phone, db, flagged, refreshed>>
      /\ marked' \subseteq marked
      /\ expunged' \subseteq expunged \cup msg[t]
      /\ touched' \subseteq touched \cup msg[t]
    BY DEF ApplyMessage, RemoveMessage, MarkLocally, disk, past, remote
<1> QED
    BY <1>1, <1>2 DEF DataTypes, FrameTypes

\* The data of the phone, the summaries and the database keep their types.
LEMMA DataStep == DataTypes /\ FrameTypes /\ Frames /\ [Next]_vars =>
    DataTypes'
<1> SUFFICES ASSUME DataTypes, FrameTypes, Frames, [Next]_vars
       PROVE  DataTypes'
    OBVIOUS
<1> USE DEF DataTypes, Goto, Move, Finish, Frames, Frame, OneMessage, remote,
        disk, past, Shown, Status
<1>1. ASSUME NEW t \in Threads, Control(t) PROVE DataTypes'
    BY <1>1 DEF Control, RefreshLock, ExpungeLock, MarkLock, FetchLock,
       RefreshUnlock, MarkUnlock, FetchUnlock, ExpungeUnlock, RefreshClear,
       RefreshSelect, EchoSelect, MarkSelect, FetchSelect, UpdateInbox,
       ProcessEnd, ExpungeEnd, FetchGet, Lock, Unlock, UnlockAndReturn,
       SelectDir
<1>2. ASSUME NEW t \in Threads, ListMessages(t) PROVE DataTypes'
    BY <1>2 DEF ListMessages
<1>3. ASSUME NEW t \in Threads, ProcessMessage(t) PROVE DataTypes'
    BY <1>3 DEF ProcessMessage
<1>4. ASSUME NEW t \in Threads, EchoWrite(t) \/ MarkWrite(t) PROVE DataTypes'
    BY <1>4, WriteData
<1>5. ASSUME NEW t \in Threads, DeleteOnPhone(t) PROVE DataTypes'
    BY <1>5 DEF DeleteOnPhone
<1>6. ASSUME NEW t \in Threads, ApplyMessage(t) \/ RemoveMessage(t)
      PROVE  DataTypes'
    BY <1>6, LocalData
<1>7. ASSUME NEW t \in Threads, Prune(t) PROVE DataTypes'
    BY <1>7 DEF Prune, Known, InFolder
<1>8. ASSUME NEW t \in Threads, MarkLocally(t) PROVE DataTypes'
    BY <1>8, LocalData
<1>9. ASSUME NEW t \in Threads, SaveChanges(t) PROVE DataTypes'
    BY <1>9 DEF SaveChanges, SaveToDb, InFolder
<1>10. ASSUME NEW t \in Threads, ExpungeNext(t) PROVE DataTypes'
    BY <1>10 DEF ExpungeNext
<1>11. ASSUME NEW t \in Threads, NEW f \in Folders, RefreshInfo(t, f) \/
            Expunge(t, f)
      PROVE  DataTypes'
    BY <1>11 DEF RefreshInfo, Expunge, Begin
<1>12. ASSUME NEW t \in Threads, NEW m \in Messages, SetSeen(t, m) \/
            Fetch(t, m)
      PROVE  DataTypes'
    BY <1>12 DEF SetSeen, Fetch, Begin
<1>13. ASSUME NEW f \in Folders, GetFolder(f) \/ SaveSummary(f)
      PROVE  DataTypes'
    BY <1>13 DEF GetFolder, SaveSummary, SaveToDb, Event, InFolder
<1>14. ASSUME NEW m \in Messages, SetDeleted(m) \/ NewMessage(m) \/
            HandsetChange(m)
      PROVE  DataTypes'
    BY <1>14 DEF SetDeleted, NewMessage, HandsetChange, Event, Opposite
<1>15. CASE Restart
    BY <1>15 DEF Restart
<1>16. CASE UNCHANGED vars
    BY <1>16 DEF vars
<1> QED
    BY <1>1, <1>2, <1>3, <1>4, <1>5, <1>6, <1>7, <1>8, <1>9, <1>10, <1>11,
       <1>12, <1>13, <1>14, <1>15, <1>16 DEF Next, Step, Control, Rest, Crash,
       ExpungeCrash

\* The flags, the locks, the directory and the counters keep their types.
LEMMA StoreStep == StoreTypes /\ FrameTypes /\ PcType /\ Frames /\ [Next]_vars
    => StoreTypes'
<1> SUFFICES ASSUME StoreTypes, FrameTypes, PcType, Frames, [Next]_vars
       PROVE  StoreTypes'
    OBVIOUS
<1> USE NamesDistinct, BoundsAreNat DEF StoreTypes, Frames, Frame, Goto, Move,
        store, remote, count
<1>1. ASSUME NEW t \in Threads, Control(t) PROVE StoreTypes'
    BY <1>1 DEF Control, RefreshLock, ExpungeLock, MarkLock, FetchLock,
       RefreshUnlock, MarkUnlock, FetchUnlock, ExpungeUnlock, RefreshClear,
       RefreshSelect, EchoSelect, MarkSelect, FetchSelect, UpdateInbox,
       ProcessEnd, ExpungeEnd, FetchGet, Lock, Unlock, UnlockAndReturn,
       SelectDir
<1>2. ASSUME NEW t \in Threads, ListMessages(t) PROVE StoreTypes'
    BY <1>2 DEF ListMessages
<1>3. ASSUME NEW t \in Threads, ProcessMessage(t) PROVE StoreTypes'
    BY <1>3 DEF ProcessMessage
<1>4. ASSUME NEW t \in Threads, EchoWrite(t) \/ MarkWrite(t) PROVE StoreTypes'
    BY <1>4 DEF EchoWrite, MarkWrite, SetRead
<1>5. ASSUME NEW t \in Threads, DeleteOnPhone(t) PROVE StoreTypes'
    BY <1>5 DEF DeleteOnPhone
<1>6. ASSUME NEW t \in Threads, ApplyMessage(t) \/ RemoveMessage(t)
      PROVE  StoreTypes'
    BY <1>6 DEF ApplyMessage, RemoveMessage
<1>7. ASSUME NEW t \in Threads, Prune(t) PROVE StoreTypes'
    BY <1>7 DEF Prune
<1>8. ASSUME NEW t \in Threads, MarkLocally(t) PROVE StoreTypes'
    BY <1>8 DEF MarkLocally
<1>9. ASSUME NEW t \in Threads, SaveChanges(t) PROVE StoreTypes'
    BY <1>9 DEF SaveChanges, SaveToDb
<1>10. ASSUME NEW t \in Threads, ExpungeNext(t) PROVE StoreTypes'
    BY <1>10 DEF ExpungeNext
<1>11. ASSUME NEW t \in Threads, NEW f \in Folders, RefreshInfo(t, f) \/
            Expunge(t, f)
      PROVE  StoreTypes'
    BY <1>11 DEF RefreshInfo, Expunge, Begin
<1>12. ASSUME NEW t \in Threads, NEW m \in Messages, SetSeen(t, m) \/
            Fetch(t, m)
      PROVE  StoreTypes'
    BY <1>12 DEF SetSeen, Fetch, Begin
<1>13. ASSUME NEW f \in Folders, GetFolder(f) \/ SaveSummary(f)
      PROVE  StoreTypes'
    BY <1>13 DEF GetFolder, SaveSummary, SaveToDb, Event
<1>14. ASSUME NEW m \in Messages, SetDeleted(m) \/ NewMessage(m) \/
            HandsetChange(m)
      PROVE  StoreTypes'
    BY <1>14 DEF SetDeleted, NewMessage, HandsetChange, Event
<1>15. CASE Restart /\ (Event \/ UNCHANGED events)
    BY <1>15 DEF Restart, Event
<1>16. CASE UNCHANGED vars
    BY <1>16 DEF vars
<1> QED
    BY <1>1, <1>2, <1>3, <1>4, <1>5, <1>6, <1>7, <1>8, <1>9, <1>10, <1>11,
       <1>12, <1>13, <1>14, <1>15, <1>16 DEF Next, Step, Control, Rest, Crash,
       ExpungeCrash

----------------------------------------------------------------------------
(* The locks.                                                              *)

\* The steps that take and give back the folder lock enter and leave the
\* locked part of an operation, and no others do.
LEMMA FolderLockStep == PcType /\ FolderLockExact /\ [Next]_vars =>
    FolderLockExact'
<1> SUFFICES ASSUME PcType, FolderLockExact, [Next]_vars
       PROVE  FolderLockExact'
    OBVIOUS
<1> USE NamesDistinct DEF PcType, FolderLockExact, Locked, RefreshSteps,
        ExpungeSteps, Goto, Move, Finish, thread, store
<1>1. ASSUME NEW t \in Threads, Control(t) PROVE FolderLockExact'
    BY <1>1 DEF Control, RefreshLock, ExpungeLock, MarkLock, FetchLock,
       RefreshUnlock, MarkUnlock, FetchUnlock, ExpungeUnlock, RefreshClear,
       RefreshSelect, EchoSelect, MarkSelect, FetchSelect, UpdateInbox,
       ProcessEnd, ExpungeEnd, FetchGet, Lock, Unlock, UnlockAndReturn,
       SelectDir
<1>2. ASSUME NEW t \in Threads, ListMessages(t) PROVE FolderLockExact'
    BY <1>2 DEF ListMessages
<1>3. ASSUME NEW t \in Threads, ProcessMessage(t) PROVE FolderLockExact'
    BY <1>3 DEF ProcessMessage
<1>4. ASSUME NEW t \in Threads, EchoWrite(t) \/ MarkWrite(t)
      PROVE  FolderLockExact'
    BY <1>4 DEF EchoWrite, MarkWrite, SetRead
<1>5. ASSUME NEW t \in Threads, DeleteOnPhone(t) PROVE FolderLockExact'
    BY <1>5 DEF DeleteOnPhone
<1>6. ASSUME NEW t \in Threads, ApplyMessage(t) \/ RemoveMessage(t)
      PROVE  FolderLockExact'
    BY <1>6 DEF ApplyMessage, RemoveMessage
<1>7. ASSUME NEW t \in Threads, Prune(t) PROVE FolderLockExact'
    BY <1>7 DEF Prune
<1>8. ASSUME NEW t \in Threads, MarkLocally(t) PROVE FolderLockExact'
    BY <1>8 DEF MarkLocally
<1>9. ASSUME NEW t \in Threads, SaveChanges(t) PROVE FolderLockExact'
    BY <1>9 DEF SaveChanges, SaveToDb
<1>10. ASSUME NEW t \in Threads, ExpungeNext(t) PROVE FolderLockExact'
    BY <1>10 DEF ExpungeNext
<1>11. ASSUME NEW t \in Threads, NEW f \in Folders, RefreshInfo(t, f) \/
            Expunge(t, f)
      PROVE  FolderLockExact'
    BY <1>11 DEF RefreshInfo, Expunge, Begin
<1>12. ASSUME NEW t \in Threads, NEW m \in Messages, SetSeen(t, m) \/
            Fetch(t, m)
      PROVE  FolderLockExact'
    BY <1>12 DEF SetSeen, Fetch, Begin
<1>13. ASSUME NEW f \in Folders, GetFolder(f) \/ SaveSummary(f)
      PROVE  FolderLockExact'
    BY <1>13 DEF GetFolder, SaveSummary, SaveToDb, Event
<1>14. ASSUME NEW m \in Messages, SetDeleted(m) \/ NewMessage(m) \/
            HandsetChange(m)
      PROVE  FolderLockExact'
    BY <1>14 DEF SetDeleted, NewMessage, HandsetChange, Event
<1>15. CASE Restart
    BY <1>15 DEF Restart
<1>16. CASE UNCHANGED vars
    BY <1>16 DEF vars
<1> QED
    BY <1>1, <1>2, <1>3, <1>4, <1>5, <1>6, <1>7, <1>8, <1>9, <1>10, <1>11,
       <1>12, <1>13, <1>14, <1>15, <1>16 DEF Next, Step, Control, Rest, Crash,
       ExpungeCrash

\* The directory changes by a SetFolder, and all of them need the lock.
LEMMA SelectedDirStep == PcType /\ FrameTypes /\ FolderLockExact /\
    SelectedDir /\ [Next]_vars => SelectedDir'
<1> SUFFICES ASSUME PcType, FrameTypes, FolderLockExact, SelectedDir,
       [Next]_vars PROVE SelectedDir'
    OBVIOUS
<1> USE NamesDistinct DEF PcType, FrameTypes, FolderLockExact, SelectedDir,
        Locked, RefreshSteps, ExpungeSteps, Goto, Move, Finish, thread, remote
<1>1. ASSUME NEW t \in Threads, Control(t) PROVE SelectedDir'
    BY <1>1 DEF Control, RefreshLock, ExpungeLock, MarkLock, FetchLock,
       RefreshUnlock, MarkUnlock, FetchUnlock, ExpungeUnlock, RefreshClear,
       RefreshSelect, EchoSelect, MarkSelect, FetchSelect, UpdateInbox,
       ProcessEnd, ExpungeEnd, FetchGet, Lock, Unlock, UnlockAndReturn,
       SelectDir
<1>2. ASSUME NEW t \in Threads, ListMessages(t) PROVE SelectedDir'
    BY <1>2 DEF ListMessages
<1>3. ASSUME NEW t \in Threads, ProcessMessage(t) PROVE SelectedDir'
    BY <1>3 DEF ProcessMessage
<1>4. ASSUME NEW t \in Threads, EchoWrite(t) \/ MarkWrite(t) PROVE SelectedDir'
    BY <1>4 DEF EchoWrite, MarkWrite, SetRead
<1>5. ASSUME NEW t \in Threads, DeleteOnPhone(t) PROVE SelectedDir'
    BY <1>5 DEF DeleteOnPhone
<1>6. ASSUME NEW t \in Threads, ApplyMessage(t) \/ RemoveMessage(t)
      PROVE  SelectedDir'
    BY <1>6 DEF ApplyMessage, RemoveMessage
<1>7. ASSUME NEW t \in Threads, Prune(t) PROVE SelectedDir'
    BY <1>7 DEF Prune
<1>8. ASSUME NEW t \in Threads, MarkLocally(t) PROVE SelectedDir'
    BY <1>8 DEF MarkLocally
<1>9. ASSUME NEW t \in Threads, SaveChanges(t) PROVE SelectedDir'
    BY <1>9 DEF SaveChanges, SaveToDb
<1>10. ASSUME NEW t \in Threads, ExpungeNext(t) PROVE SelectedDir'
    BY <1>10 DEF ExpungeNext
<1>11. ASSUME NEW t \in Threads, NEW f \in Folders, RefreshInfo(t, f) \/
            Expunge(t, f)
      PROVE  SelectedDir'
    BY <1>11 DEF RefreshInfo, Expunge, Begin
<1>12. ASSUME NEW t \in Threads, NEW m \in Messages, SetSeen(t, m) \/
            Fetch(t, m)
      PROVE  SelectedDir'
    BY <1>12 DEF SetSeen, Fetch, Begin
<1>13. ASSUME NEW f \in Folders, GetFolder(f) \/ SaveSummary(f)
      PROVE  SelectedDir'
    BY <1>13 DEF GetFolder, SaveSummary, SaveToDb, Event
<1>14. ASSUME NEW m \in Messages, SetDeleted(m) \/ NewMessage(m) \/
            HandsetChange(m)
      PROVE  SelectedDir'
    BY <1>14 DEF SetDeleted, NewMessage, HandsetChange, Event
<1>15. CASE Restart
    BY <1>15 DEF Restart
<1>16. CASE UNCHANGED vars
    BY <1>16 DEF vars
<1> QED
    BY <1>1, <1>2, <1>3, <1>4, <1>5, <1>6, <1>7, <1>8, <1>9, <1>10, <1>11,
       <1>12, <1>13, <1>14, <1>15, <1>16 DEF Next, Step, Control, Rest, Crash,
       ExpungeCrash

\* Two threads are not between lock and unlock at one time.
LEMMA OneListing ==
  ASSUME PcType, FolderLockExact, NEW s \in Threads, NEW t \in Threads,
         pc[s] \in Locked, pc[t] \in Listing
  PROVE  s = t
BY DEF PcType, FolderLockExact, Locked, RefreshSteps, ExpungeSteps, Listing

\* The refreshes that go on are the same, and so are the flags.
SameRefreshers ==
    /\ \A t \in Threads :
          /\ pc'[t] \in RefreshSteps <=> pc[t] \in RefreshSteps
          /\ pc[t] \in RefreshSteps => folder'[t] = folder[t]
    /\ refreshing' = refreshing

\* Then the flags are still right.
LEMMA KeepRefreshers == RefreshingExact /\ SameRefreshers => RefreshingExact'
BY DEF RefreshingExact, SameRefreshers

\* A refresh begins for a folder that no thread refreshes, and sets its
\* flag.
LEMMA RefreshEffect ==
  ASSUME PcType, FrameTypes, RefreshingExact, NEW t \in Threads,
         NEW f \in Folders,
         RefreshInfo(t, f)
  PROVE  RefreshingExact'
<1>1. /\ f \notin refreshing /\ refreshing' = refreshing \cup {f}
      /\ pc[t] \notin RefreshSteps /\ pc'[t] \in RefreshSteps /\ folder'[t] = f
      /\ \A s \in Threads \ {t} : pc'[s] = pc[s] /\ folder'[s] = folder[s]
    BY BeginEffect DEF RefreshInfo, RefreshSteps, OthersSame
<1> QED
    BY <1>1 DEF RefreshingExact

\* A refresh that ends clears the flag of its folder, which only it
\* refreshed.
LEMMA ClearEffect ==
  ASSUME PcType, FrameTypes, RefreshingExact, NEW t \in Threads,
         RefreshClear(t)
  PROVE  RefreshingExact'
<1>1. /\ refreshing' = refreshing \ {folder[t]}
      /\ pc[t] \in RefreshSteps /\ pc'[t] \notin RefreshSteps
      /\ \A s \in Threads \ {t} : pc'[s] = pc[s] /\ folder'[s] = folder[s]
    BY DEF RefreshClear, Finish, Move, RefreshSteps, PcType, FrameTypes
<1> QED
    BY <1>1 DEF RefreshingExact

\* All other steps leave the refreshes as they are.
LEMMA SameRefreshersStep == PcType /\ FrameTypes /\ RefreshingExact /\
    [Next]_vars => SameRefreshers \/ RefreshingExact'
<1> SUFFICES ASSUME PcType, FrameTypes, RefreshingExact, [Next]_vars PROVE
       SameRefreshers \/ RefreshingExact'
    OBVIOUS
<1> USE DEF PcType, FrameTypes, SameRefreshers, RefreshSteps, ExpungeSteps,
        Goto, Move, Finish, thread, store
<1>1. ASSUME NEW t \in Threads, Control(t)
      PROVE  SameRefreshers \/ RefreshingExact'
  <2>1. CASE RefreshClear(t)
      BY <2>1, ClearEffect
  <2>2. CASE ~RefreshClear(t)
      BY <1>1, <2>2 DEF Control, RefreshLock, ExpungeLock, MarkLock,
         FetchLock,
         RefreshUnlock, MarkUnlock, FetchUnlock, ExpungeUnlock, RefreshSelect,
         EchoSelect, MarkSelect, FetchSelect, UpdateInbox, ProcessEnd,
         ExpungeEnd, FetchGet, Lock, Unlock, UnlockAndReturn, SelectDir
  <2> QED
      BY <2>1, <2>2
<1>2. ASSUME NEW t \in Threads, ListMessages(t)
      PROVE  SameRefreshers \/ RefreshingExact'
    BY <1>2 DEF ListMessages
<1>3. ASSUME NEW t \in Threads, ProcessMessage(t)
      PROVE  SameRefreshers \/ RefreshingExact'
    BY <1>3 DEF ProcessMessage
<1>4. ASSUME NEW t \in Threads, EchoWrite(t) \/ MarkWrite(t)
      PROVE  SameRefreshers \/ RefreshingExact'
    BY <1>4 DEF EchoWrite, MarkWrite, SetRead
<1>5. ASSUME NEW t \in Threads, DeleteOnPhone(t)
      PROVE  SameRefreshers \/ RefreshingExact'
    BY <1>5 DEF DeleteOnPhone
<1>6. ASSUME NEW t \in Threads, ApplyMessage(t) \/ RemoveMessage(t)
      PROVE  SameRefreshers \/ RefreshingExact'
    BY <1>6 DEF ApplyMessage, RemoveMessage
<1>7. ASSUME NEW t \in Threads, Prune(t)
      PROVE  SameRefreshers \/ RefreshingExact'
    BY <1>7 DEF Prune
<1>8. ASSUME NEW t \in Threads, MarkLocally(t)
      PROVE  SameRefreshers \/ RefreshingExact'
    BY <1>8 DEF MarkLocally
<1>9. ASSUME NEW t \in Threads, SaveChanges(t)
      PROVE  SameRefreshers \/ RefreshingExact'
    BY <1>9 DEF SaveChanges, SaveToDb
<1>10. ASSUME NEW t \in Threads, ExpungeNext(t)
      PROVE  SameRefreshers \/ RefreshingExact'
    BY <1>10 DEF ExpungeNext
<1>11. ASSUME NEW t \in Threads, NEW f \in Folders, RefreshInfo(t, f) \/
            Expunge(t, f)
      PROVE  SameRefreshers \/ RefreshingExact'
  <2>1. CASE RefreshInfo(t, f)
      BY <2>1, RefreshEffect
  <2>2. CASE Expunge(t, f)
      BY <2>2 DEF Expunge, Begin
  <2> QED
      BY <1>11, <2>1, <2>2
<1>12. ASSUME NEW t \in Threads, NEW m \in Messages, SetSeen(t, m) \/
            Fetch(t, m)
      PROVE  SameRefreshers \/ RefreshingExact'
    BY <1>12 DEF SetSeen, Fetch, Begin
<1>13. ASSUME NEW f \in Folders, GetFolder(f) \/ SaveSummary(f)
      PROVE  SameRefreshers \/ RefreshingExact'
    BY <1>13 DEF GetFolder, SaveSummary, SaveToDb, Event
<1>14. ASSUME NEW m \in Messages, SetDeleted(m) \/ NewMessage(m) \/
            HandsetChange(m)
      PROVE  SameRefreshers \/ RefreshingExact'
    BY <1>14 DEF SetDeleted, NewMessage, HandsetChange, Event
<1>15. CASE Restart
    BY <1>15 DEF Restart, RefreshingExact
<1>16. CASE UNCHANGED vars
    BY <1>16 DEF vars
<1> QED
    BY <1>1, <1>2, <1>3, <1>4, <1>5, <1>6, <1>7, <1>8, <1>9, <1>10, <1>11,
       <1>12, <1>13, <1>14, <1>15, <1>16 DEF Next, Step, Control, Rest, Crash,
       ExpungeCrash

\* The refreshing flags stay exact.
LEMMA RefreshingStep ==
    PcType /\ FrameTypes /\ RefreshingExact /\ [Next]_vars => RefreshingExact'
BY SameRefreshersStep, KeepRefreshers

----------------------------------------------------------------------------
(* The local variables of operations.                                      *)

\* What a thread does leaves the local variables of the others alone.
LEMMA OthersFrame ==
  ASSUME NEW t \in Threads, OthersSame(t), Frames
  PROVE  \A s \in Threads \ {t} : Frame(s)'
BY DEF OthersSame, Frames, Frame

\* A listing gives a refresh messages of its folder.
LEMMA ListFrames ==
  ASSUME PcType, FrameTypes, Frames, NEW t \in Threads, ListMessages(t)
  PROVE  Frames'
<1>1. CASE Goto(t, "r_list", "r_unlock")
    BY <1>1 DEF Goto, Move, Frames, Frame, PcType, OneMessage, RefreshSteps
<1>2. CASE /\ Moves(t, "r_list", "r_process") /\ msg' = msg
           /\ todo'[t] \subseteq Messages
           /\ \A m \in Messages : m \in todo'[t] => Home[m] = folder[t]
  <2>1. msg[t] = {} /\ folder[t] \in Folders
      BY <1>2 DEF Moves, Frames, Frame, OneMessage, RefreshSteps
  <2>2. Frame(t)'
      BY <1>2, <2>1 DEF Moves, Frame, OneMessage, RefreshSteps, InFolder
  <2> QED
      BY <1>2, <2>2, OthersFrame DEF Moves, Frames
<1> QED
    BY <1>1, <1>2, ListEffect

\* Processing moves a message of the listing to where it is handled.
LEMMA ProcessFrames ==
  ASSUME PcType, FrameTypes, Frames, NEW t \in Threads, ProcessMessage(t)
  PROVE  Frames'
<1>1. PICK m \in todo[t] :
         /\ todo'[t] = todo[t] \ {m}
         /\ \/ Moves(t, "r_process", "r_process") /\ msg'[t] = msg[t]
            \/ /\ \E to \in {"r_apply", "r_echo"} : Moves(t, "r_process", to)
               /\ msg'[t] = {m}
    BY ProcessEffect
<1>2. /\ OthersSame(t) /\ Frame(t) /\ m \in Messages
      /\ pc[t] = "r_process" /\ folder'[t] = folder[t]
    BY <1>1 DEF Moves, Frames, FrameTypes
<1>3. Frame(t)'
    BY <1>1, <1>2 DEF Moves, Frame, OneMessage, RefreshSteps
<1> QED
    BY <1>2, <1>3, OthersFrame DEF Frames

\* So does an expunge with the uids it collected.
LEMMA ExpungeNextFrames ==
  ASSUME PcType, FrameTypes, Frames, NEW t \in Threads, ExpungeNext(t)
  PROVE  Frames'
<1>1. PICK m \in todo[t] :
         /\ todo'[t] = todo[t] \ {m}
         /\ \/ Moves(t, "x_loop", "x_delete") /\ msg'[t] = {m}
            \/ Moves(t, "x_loop", "x_loop") /\ msg'[t] = {}
    BY ExpungeNextEffect
<1>2. /\ OthersSame(t) /\ Frame(t) /\ m \in Messages
      /\ pc[t] = "x_loop" /\ folder'[t] = folder[t]
    BY <1>1 DEF Moves, Frames, FrameTypes
<1>3. Frame(t)'
    BY <1>1, <1>2 DEF Moves, Frame, OneMessage, RefreshSteps
<1> QED
    BY <1>2, <1>3, OthersFrame DEF Frames

\* Marking and fetching begin with a message in its folder.
LEMMA BeginFrames ==
  ASSUME PcType, FrameTypes, Frames, NEW t \in Threads, NEW m \in Messages,
         SetSeen(t, m) \/ Fetch(t, m)
  PROVE  Frames'
<1>1. /\ OthersSame(t) /\ pc[t] = "idle" /\ pc'[t] \in {"m_lock", "f_lock"}
      /\ folder'[t] = Home[m] /\ msg'[t] = {m} /\ todo'[t] \in {{}, todo[t]}
    BY SeenEffect, BeginEffect DEF Fetch
<1>2. Frame(t)'
    BY <1>1, HomeIsFolder DEF Frames, Frame, OneMessage, RefreshSteps,
       InFolder
<1> QED
    BY <1>1, <1>2, OthersFrame DEF Frames

\* Every step keeps the local variables consistent.
LEMMA FramesStep == PcType /\ FrameTypes /\ Frames /\ [Next]_vars => Frames'
<1> SUFFICES ASSUME PcType, FrameTypes, Frames, [Next]_vars PROVE Frames'
    OBVIOUS
<1> USE HomeIsFolder DEF PcType, FrameTypes, Frames, Frame, OneMessage,
        RefreshSteps, InFolder, Goto, Move, Finish, thread
<1>1. ASSUME NEW t \in Threads, Control(t) PROVE Frames'
    BY <1>1 DEF Control, RefreshLock, ExpungeLock, MarkLock, FetchLock,
       RefreshUnlock, MarkUnlock, FetchUnlock, ExpungeUnlock, RefreshClear,
       RefreshSelect, EchoSelect, MarkSelect, FetchSelect, UpdateInbox,
       ProcessEnd, ExpungeEnd, FetchGet, Lock, Unlock, UnlockAndReturn,
       SelectDir
<1>2. ASSUME NEW t \in Threads, ListMessages(t) PROVE Frames'
    BY <1>2, ListFrames
<1>3. ASSUME NEW t \in Threads, ProcessMessage(t) PROVE Frames'
    BY <1>3, ProcessFrames
<1>4. ASSUME NEW t \in Threads, EchoWrite(t) \/ MarkWrite(t) PROVE Frames'
    BY <1>4 DEF EchoWrite, MarkWrite, SetRead
<1>5. ASSUME NEW t \in Threads, DeleteOnPhone(t) PROVE Frames'
    BY <1>5 DEF DeleteOnPhone
<1>6. ASSUME NEW t \in Threads, ApplyMessage(t) \/ RemoveMessage(t)
      PROVE  Frames'
    BY <1>6 DEF ApplyMessage, RemoveMessage
<1>7. ASSUME NEW t \in Threads, Prune(t) PROVE Frames'
    BY <1>7 DEF Prune
<1>8. ASSUME NEW t \in Threads, MarkLocally(t) PROVE Frames'
    BY <1>8 DEF MarkLocally
<1>9. ASSUME NEW t \in Threads, SaveChanges(t) PROVE Frames'
    BY <1>9 DEF SaveChanges, SaveToDb
<1>10. ASSUME NEW t \in Threads, ExpungeNext(t) PROVE Frames'
    BY <1>10, ExpungeNextFrames
<1>11. ASSUME NEW t \in Threads, NEW f \in Folders, RefreshInfo(t, f) \/
            Expunge(t, f)
      PROVE  Frames'
    BY <1>11 DEF RefreshInfo, Expunge, Begin, Known
<1>12. ASSUME NEW t \in Threads, NEW m \in Messages, SetSeen(t, m) \/
            Fetch(t, m)
      PROVE  Frames'
    BY <1>12, BeginFrames
<1>13. ASSUME NEW f \in Folders, GetFolder(f) \/ SaveSummary(f) PROVE Frames'
    BY <1>13 DEF GetFolder, SaveSummary, SaveToDb, Event
<1>14. ASSUME NEW m \in Messages, SetDeleted(m) \/ NewMessage(m) \/
            HandsetChange(m)
      PROVE  Frames'
    BY <1>14 DEF SetDeleted, NewMessage, HandsetChange, Event
<1>15. CASE Restart
    BY <1>15 DEF Restart
<1>16. CASE UNCHANGED vars
    BY <1>16 DEF vars
<1> QED
    BY <1>1, <1>2, <1>3, <1>4, <1>5, <1>6, <1>7, <1>8, <1>9, <1>10, <1>11,
       <1>12, <1>13, <1>14, <1>15, <1>16 DEF Next, Step, Control, Rest, Crash,
       ExpungeCrash

\* No step gives a thread a second message to work on.
LEMMA AtMostOneStep == FrameTypes /\ AtMostOne /\ [Next]_vars => AtMostOne'
<1> SUFFICES ASSUME FrameTypes, AtMostOne, [Next]_vars PROVE AtMostOne'
    OBVIOUS
<1> USE DEF FrameTypes, AtMostOne, Goto, Finish, thread
<1>1. ASSUME NEW t \in Threads, Control(t) PROVE AtMostOne'
    BY <1>1 DEF Control, RefreshLock, ExpungeLock, MarkLock, FetchLock,
       RefreshUnlock, MarkUnlock, FetchUnlock, ExpungeUnlock, RefreshClear,
       RefreshSelect, EchoSelect, MarkSelect, FetchSelect, UpdateInbox,
       ProcessEnd, ExpungeEnd, FetchGet, Lock, Unlock, UnlockAndReturn,
       SelectDir
<1>2. ASSUME NEW t \in Threads, ListMessages(t) PROVE AtMostOne'
    BY <1>2 DEF ListMessages
<1>3. ASSUME NEW t \in Threads, ProcessMessage(t) PROVE AtMostOne'
    BY <1>3 DEF ProcessMessage
<1>4. ASSUME NEW t \in Threads, EchoWrite(t) \/ MarkWrite(t) PROVE AtMostOne'
    BY <1>4 DEF EchoWrite, MarkWrite, SetRead
<1>5. ASSUME NEW t \in Threads, DeleteOnPhone(t) PROVE AtMostOne'
    BY <1>5 DEF DeleteOnPhone
<1>6. ASSUME NEW t \in Threads, ApplyMessage(t) \/ RemoveMessage(t)
      PROVE  AtMostOne'
    BY <1>6 DEF ApplyMessage, RemoveMessage
<1>7. ASSUME NEW t \in Threads, Prune(t) PROVE AtMostOne'
    BY <1>7 DEF Prune
<1>8. ASSUME NEW t \in Threads, MarkLocally(t) PROVE AtMostOne'
    BY <1>8 DEF MarkLocally
<1>9. ASSUME NEW t \in Threads, SaveChanges(t) PROVE AtMostOne'
    BY <1>9 DEF SaveChanges, SaveToDb
<1>10. ASSUME NEW t \in Threads, ExpungeNext(t) PROVE AtMostOne'
    BY <1>10 DEF ExpungeNext
<1>11. ASSUME NEW t \in Threads, NEW f \in Folders, RefreshInfo(t, f) \/
            Expunge(t, f)
      PROVE  AtMostOne'
    BY <1>11 DEF RefreshInfo, Expunge, Begin
<1>12. ASSUME NEW t \in Threads, NEW m \in Messages, SetSeen(t, m) \/
            Fetch(t, m)
      PROVE  AtMostOne'
    BY <1>12 DEF SetSeen, Fetch, Begin
<1>13. ASSUME NEW f \in Folders, GetFolder(f) \/ SaveSummary(f)
      PROVE  AtMostOne'
    BY <1>13 DEF GetFolder, SaveSummary, SaveToDb, Event
<1>14. ASSUME NEW m \in Messages, SetDeleted(m) \/ NewMessage(m) \/
            HandsetChange(m)
      PROVE  AtMostOne'
    BY <1>14 DEF SetDeleted, NewMessage, HandsetChange, Event
<1>15. CASE Restart
    BY <1>15 DEF Restart
<1>16. CASE UNCHANGED vars
    BY <1>16 DEF vars
<1> QED
    BY <1>1, <1>2, <1>3, <1>4, <1>5, <1>6, <1>7, <1>8, <1>9, <1>10, <1>11,
       <1>12, <1>13, <1>14, <1>15, <1>16 DEF Next, Step, Control, Rest, Crash,
       ExpungeCrash

\* The messages of a listing are those that it gives a status.
LEMMA ListWanted ==
  ASSUME PcType, FrameTypes, DataTypes, Frames, Wanted, NEW t \in Threads,
         ListMessages(t)
  PROVE  Wanted'
<1>1. CASE Goto(t, "r_list", "r_unlock")
    BY <1>1 DEF Goto, Move, Wanted, Wants, ListedBy, PcType, Listing
<1>2. CASE /\ Moves(t, "r_list", "r_process") /\ msg' = msg
           /\ todo'[t] \subseteq Messages
           /\ \A m \in Messages :
                  /\ m \in todo'[t] <=> Home[m] = folder[t] /\ phone[m] \in Shown
                  /\ want'[t][m] = IF m \in todo'[t] THEN phone[m] ELSE "none"
  <2>1. msg[t] = {}
      BY <1>2 DEF Moves, Frames, Frame, OneMessage, RefreshSteps
  <2>2. Wants(t)'
      BY <1>2, <2>1 DEF Moves, Wants, ListedBy, InFolder, Shown
  <2>3. \A s \in Threads \ {t} : Wants(s)'
      BY <1>2 DEF Moves, OthersSame, Wanted, Wants, ListedBy
  <2> QED
      BY <2>2, <2>3 DEF Wanted
<1> QED
    BY <1>1, <1>2, ListEffect

\* Marking begins with a status for its message.
LEMMA BeginWanted ==
  ASSUME PcType, FrameTypes, DataTypes, Wanted, NEW t \in Threads,
         NEW m \in Messages,
         SetSeen(t, m) \/ Fetch(t, m)
  PROVE  Wanted'
<1>1. /\ OthersSame(t) /\ msg'[t] = {m}
      /\ \/ pc'[t] = "m_lock" /\ want'[t][m] = Opposite(local[m])
         \/ pc'[t] = "f_lock"
    BY SeenEffect, BeginEffect DEF Fetch
<1>2. Wants(t)'
    BY <1>1 DEF Wants, ListedBy, Opposite, Listing
<1>3. \A s \in Threads \ {t} : Wants(s)'
    BY <1>1 DEF OthersSame, Wanted, Wants, ListedBy
<1> QED
    BY <1>2, <1>3 DEF Wanted

\* What a thread has still to do stays part of what it was given a status
\* for.
LEMMA WantedStep == PcType /\ FrameTypes /\ DataTypes /\ Frames /\ Wanted /\
    [Next]_vars => Wanted'
<1> SUFFICES ASSUME PcType, FrameTypes, DataTypes, Frames, Wanted, [Next]_vars
       PROVE Wanted'
    OBVIOUS
<1> USE HomeIsFolder DEF PcType, FrameTypes, Wanted, Wants, InFolder,
        ListedBy, Listing, Goto, Move, Finish, thread
<1>1. ASSUME NEW t \in Threads, Control(t) PROVE Wanted'
    BY <1>1 DEF Control, RefreshLock, ExpungeLock, MarkLock, FetchLock,
       RefreshUnlock, MarkUnlock, FetchUnlock, ExpungeUnlock, RefreshClear,
       RefreshSelect, EchoSelect, MarkSelect, FetchSelect, UpdateInbox,
       ProcessEnd, ExpungeEnd, FetchGet, Lock, Unlock, UnlockAndReturn,
       SelectDir
<1>2. ASSUME NEW t \in Threads, ListMessages(t) PROVE Wanted'
    BY <1>2, ListWanted
<1>3. ASSUME NEW t \in Threads, ProcessMessage(t) PROVE Wanted'
    BY <1>3 DEF ProcessMessage
<1>4. ASSUME NEW t \in Threads, EchoWrite(t) \/ MarkWrite(t) PROVE Wanted'
    BY <1>4 DEF EchoWrite, MarkWrite, SetRead
<1>5. ASSUME NEW t \in Threads, DeleteOnPhone(t) PROVE Wanted'
    BY <1>5 DEF DeleteOnPhone
<1>6. ASSUME NEW t \in Threads, ApplyMessage(t) \/ RemoveMessage(t)
      PROVE  Wanted'
    BY <1>6 DEF ApplyMessage, RemoveMessage
<1>7. ASSUME NEW t \in Threads, Prune(t) PROVE Wanted'
    BY <1>7 DEF Prune
<1>8. ASSUME NEW t \in Threads, MarkLocally(t) PROVE Wanted'
    BY <1>8 DEF MarkLocally
<1>9. ASSUME NEW t \in Threads, SaveChanges(t) PROVE Wanted'
    BY <1>9 DEF SaveChanges, SaveToDb
<1>10. ASSUME NEW t \in Threads, ExpungeNext(t) PROVE Wanted'
    BY <1>10 DEF ExpungeNext
<1>11. ASSUME NEW t \in Threads, NEW f \in Folders, RefreshInfo(t, f) \/
            Expunge(t, f)
      PROVE  Wanted'
    BY <1>11 DEF RefreshInfo, Expunge, Begin
<1>12. ASSUME NEW t \in Threads, NEW m \in Messages, SetSeen(t, m) \/
            Fetch(t, m)
      PROVE  Wanted'
    BY <1>12, BeginWanted
<1>13. ASSUME NEW f \in Folders, GetFolder(f) \/ SaveSummary(f) PROVE Wanted'
    BY <1>13 DEF GetFolder, SaveSummary, SaveToDb, Event
<1>14. ASSUME NEW m \in Messages, SetDeleted(m) \/ NewMessage(m) \/
            HandsetChange(m)
      PROVE  Wanted'
    BY <1>14 DEF SetDeleted, NewMessage, HandsetChange, Event
<1>15. CASE Restart
    BY <1>15 DEF Restart
<1>16. CASE UNCHANGED vars
    BY <1>16 DEF vars
<1> QED
    BY <1>1, <1>2, <1>3, <1>4, <1>5, <1>6, <1>7, <1>8, <1>9, <1>10, <1>11,
       <1>12, <1>13, <1>14, <1>15, <1>16 DEF Next, Step, Control, Rest, Crash,
       ExpungeCrash

----------------------------------------------------------------------------
(* Phone, summaries and listings.                                          *)

\* A listing has only messages that the phone has.
LEMMA ListPhoneFirst ==
  ASSUME PcType, FrameTypes, PhoneFirst, NEW t \in Threads, ListMessages(t)
  PROVE  PhoneFirst'
<1>1. UNCHANGED <<phone, local, db>>
    BY ListEffect DEF remote, disk
<1>2. want' = want \/ /\ \A m \in Messages : want'[t][m] \in {phone[m], "none"}
                      /\ \A s \in Threads \ {t} : want'[s] = want[s]
    BY ListEffect DEF Goto, Moves, OthersSame
<1> QED
    BY <1>1, <1>2 DEF PhoneFirst

\* Nobody comes to know a message before the phone has it.
LEMMA PhoneFirstStep == DataTypes /\ FrameTypes /\ PcType /\ Frames /\ Wanted
    /\ PhoneFirst /\ [Next]_vars => PhoneFirst'
<1> SUFFICES ASSUME DataTypes, FrameTypes, PcType, Frames, Wanted, PhoneFirst,
       [Next]_vars PROVE PhoneFirst'
    OBVIOUS
<1> USE DEF DataTypes, FrameTypes, Frames, Frame, Wanted, Wants, ListedBy,
        PhoneFirst, Listing, OneMessage, Shown, NoStatus, Goto, Move, Finish,
        thread, remote, disk
<1>1. ASSUME NEW t \in Threads, Control(t) PROVE PhoneFirst'
    BY <1>1, ControlEffect
<1>2. ASSUME NEW t \in Threads, ListMessages(t) PROVE PhoneFirst'
    BY <1>2, ListPhoneFirst
<1>3. ASSUME NEW t \in Threads, ProcessMessage(t) PROVE PhoneFirst'
    BY <1>3 DEF ProcessMessage
<1>4. ASSUME NEW t \in Threads, EchoWrite(t) \/ MarkWrite(t) PROVE PhoneFirst'
    BY <1>4 DEF EchoWrite, MarkWrite, SetRead
<1>5. ASSUME NEW t \in Threads, DeleteOnPhone(t) PROVE PhoneFirst'
    BY <1>5 DEF DeleteOnPhone
<1>6. ASSUME NEW t \in Threads, ApplyMessage(t) \/ RemoveMessage(t)
      PROVE  PhoneFirst'
    BY <1>6 DEF ApplyMessage, RemoveMessage
<1>7. ASSUME NEW t \in Threads, Prune(t) PROVE PhoneFirst'
    BY <1>7 DEF Prune
<1>8. ASSUME NEW t \in Threads, MarkLocally(t) PROVE PhoneFirst'
    BY <1>8 DEF MarkLocally
<1>9. ASSUME NEW t \in Threads, SaveChanges(t) PROVE PhoneFirst'
    BY <1>9 DEF SaveChanges, SaveToDb
<1>10. ASSUME NEW t \in Threads, ExpungeNext(t) PROVE PhoneFirst'
    BY <1>10 DEF ExpungeNext
<1>11. ASSUME NEW t \in Threads, NEW f \in Folders, RefreshInfo(t, f) \/
            Expunge(t, f)
      PROVE  PhoneFirst'
    BY <1>11 DEF RefreshInfo, Expunge, Begin
<1>12. ASSUME NEW t \in Threads, NEW m \in Messages, SetSeen(t, m) \/
            Fetch(t, m)
      PROVE  PhoneFirst'
    BY <1>12, SeenEffect DEF Fetch, Begin, OthersSame
<1>13. ASSUME NEW f \in Folders, GetFolder(f) \/ SaveSummary(f)
      PROVE  PhoneFirst'
    BY <1>13 DEF GetFolder, SaveSummary, SaveToDb, Event
<1>14. ASSUME NEW m \in Messages, SetDeleted(m) \/ NewMessage(m) \/
            HandsetChange(m)
      PROVE  PhoneFirst'
    BY <1>14 DEF SetDeleted, NewMessage, HandsetChange, Event, Opposite
<1>15. CASE Restart
    BY <1>15 DEF Restart
<1>16. CASE UNCHANGED vars
    BY <1>16 DEF vars
<1> QED
    BY <1>1, <1>2, <1>3, <1>4, <1>5, <1>6, <1>7, <1>8, <1>9, <1>10, <1>11,
       <1>12, <1>13, <1>14, <1>15, <1>16 DEF Next, Step, Control, Rest, Crash,
       ExpungeCrash

\* A message that leaves a summary takes its DELETED flag along.
LEMMA MarkedKnownStep == PcType /\ FrameTypes /\ DataTypes /\ Frames /\ Wanted
    /\ MarkedKnown /\ [Next]_vars => MarkedKnown'
<1> SUFFICES ASSUME PcType, FrameTypes, DataTypes, Frames, Wanted,
       MarkedKnown, [Next]_vars PROVE MarkedKnown'
    OBVIOUS
<1> USE DEF FrameTypes, DataTypes, Wanted, Wants, MarkedKnown, InFolder,
        NoStatus, ListedBy, Listing, Goto, Move, Finish, disk
<1>1. ASSUME NEW t \in Threads, Control(t) PROVE MarkedKnown'
    BY <1>1 DEF Control, RefreshLock, ExpungeLock, MarkLock, FetchLock,
       RefreshUnlock, MarkUnlock, FetchUnlock, ExpungeUnlock, RefreshClear,
       RefreshSelect, EchoSelect, MarkSelect, FetchSelect, UpdateInbox,
       ProcessEnd, ExpungeEnd, FetchGet, Lock, Unlock, UnlockAndReturn,
       SelectDir
<1>2. ASSUME NEW t \in Threads, ListMessages(t) PROVE MarkedKnown'
    BY <1>2 DEF ListMessages
<1>3. ASSUME NEW t \in Threads, ProcessMessage(t) PROVE MarkedKnown'
    BY <1>3 DEF ProcessMessage
<1>4. ASSUME NEW t \in Threads, EchoWrite(t) \/ MarkWrite(t) PROVE MarkedKnown'
    BY <1>4 DEF EchoWrite, MarkWrite, SetRead
<1>5. ASSUME NEW t \in Threads, DeleteOnPhone(t) PROVE MarkedKnown'
    BY <1>5 DEF DeleteOnPhone
<1>6. ASSUME NEW t \in Threads, ApplyMessage(t) \/ RemoveMessage(t)
      PROVE  MarkedKnown'
    BY <1>6 DEF ApplyMessage, RemoveMessage
<1>7. ASSUME NEW t \in Threads, Prune(t) PROVE MarkedKnown'
    BY <1>7 DEF Prune
<1>8. ASSUME NEW t \in Threads, MarkLocally(t) PROVE MarkedKnown'
    BY <1>8 DEF MarkLocally
<1>9. ASSUME NEW t \in Threads, SaveChanges(t) PROVE MarkedKnown'
    BY <1>9 DEF SaveChanges, SaveToDb
<1>10. ASSUME NEW t \in Threads, ExpungeNext(t) PROVE MarkedKnown'
    BY <1>10 DEF ExpungeNext
<1>11. ASSUME NEW t \in Threads, NEW f \in Folders, RefreshInfo(t, f) \/
            Expunge(t, f)
      PROVE  MarkedKnown'
    BY <1>11 DEF RefreshInfo, Expunge, Begin
<1>12. ASSUME NEW t \in Threads, NEW m \in Messages, SetSeen(t, m) \/
            Fetch(t, m)
      PROVE  MarkedKnown'
    BY <1>12 DEF SetSeen, Fetch, Begin
<1>13. ASSUME NEW f \in Folders, GetFolder(f) \/ SaveSummary(f)
      PROVE  MarkedKnown'
    BY <1>13 DEF GetFolder, SaveSummary, SaveToDb, Event
<1>14. ASSUME NEW m \in Messages, SetDeleted(m) \/ NewMessage(m) \/
            HandsetChange(m)
      PROVE  MarkedKnown'
    BY <1>14 DEF SetDeleted, NewMessage, HandsetChange, Event
<1>15. CASE Restart
    BY <1>15 DEF Restart
<1>16. CASE UNCHANGED vars
    BY <1>16 DEF vars
<1> QED
    BY <1>1, <1>2, <1>3, <1>4, <1>5, <1>6, <1>7, <1>8, <1>9, <1>10, <1>11,
       <1>12, <1>13, <1>14, <1>15, <1>16 DEF Next, Step, Control, Rest, Crash,
       ExpungeCrash

\* A write does not bring an expunged message back.
LEMMA WriteExpungedGone ==
  ASSUME Frames, ExpungedGone, FrameTypes, DataTypes, NEW t \in Threads,
         EchoWrite(t) \/ MarkWrite(t)
  PROVE  ExpungedGone'
<1>1. PICK m \in msg[t] :
            /\ SetRead({m}, want[t][m])
            /\ UNCHANGED <<store, phone_dir, local, marked, disk, past,
                           count>>
    BY WriteEffect
<1> QED
    BY <1>1 DEF DataTypes, disk, past, ExpungedGone, SetRead, Shown

\* Neither does any other step: what is expunged is gone on the phone first,
\* no listing has it, and a local change only applies to what is known.
LEMMA ExpungedGoneStep == PcType /\ FrameTypes /\ DataTypes /\ Frames /\
    Wanted /\ ExpungedGone /\ RemovesGone /\ ExpungedUnlisted /\ [Next]_vars
    => ExpungedGone'
<1> SUFFICES ASSUME PcType, FrameTypes, DataTypes, Frames, Wanted,
       ExpungedGone, RemovesGone, ExpungedUnlisted, [Next]_vars
       PROVE  ExpungedGone'
    OBVIOUS
<1> USE DEF FrameTypes, DataTypes, ExpungedGone, RemovesGone,
        ExpungedUnlisted, Wanted, Wants, ListedBy, Listing, Shown, Goto, Move,
        Finish, remote, past
<1>1. ASSUME NEW t \in Threads, Control(t) PROVE ExpungedGone'
    BY <1>1 DEF Control, RefreshLock, ExpungeLock, MarkLock, FetchLock,
       RefreshUnlock, MarkUnlock, FetchUnlock, ExpungeUnlock, RefreshClear,
       RefreshSelect, EchoSelect, MarkSelect, FetchSelect, UpdateInbox,
       ProcessEnd, ExpungeEnd, FetchGet, Lock, Unlock, UnlockAndReturn,
       SelectDir
<1>2. ASSUME NEW t \in Threads, ListMessages(t) PROVE ExpungedGone'
    BY <1>2 DEF ListMessages
<1>3. ASSUME NEW t \in Threads, ProcessMessage(t) PROVE ExpungedGone'
    BY <1>3 DEF ProcessMessage
<1>4. ASSUME NEW t \in Threads, EchoWrite(t) \/ MarkWrite(t)
      PROVE  ExpungedGone'
    BY <1>4, WriteExpungedGone
<1>5. ASSUME NEW t \in Threads, DeleteOnPhone(t) PROVE ExpungedGone'
    BY <1>5 DEF DeleteOnPhone
<1>6. ASSUME NEW t \in Threads, ApplyMessage(t) \/ RemoveMessage(t)
      PROVE  ExpungedGone'
    BY <1>6 DEF ApplyMessage, RemoveMessage
<1>7. ASSUME NEW t \in Threads, Prune(t) PROVE ExpungedGone'
    BY <1>7 DEF Prune
<1>8. ASSUME NEW t \in Threads, MarkLocally(t) PROVE ExpungedGone'
    BY <1>8 DEF MarkLocally
<1>9. ASSUME NEW t \in Threads, SaveChanges(t) PROVE ExpungedGone'
    BY <1>9 DEF SaveChanges, SaveToDb
<1>10. ASSUME NEW t \in Threads, ExpungeNext(t) PROVE ExpungedGone'
    BY <1>10 DEF ExpungeNext
<1>11. ASSUME NEW t \in Threads, NEW f \in Folders, RefreshInfo(t, f) \/
            Expunge(t, f)
      PROVE  ExpungedGone'
    BY <1>11 DEF RefreshInfo, Expunge, Begin
<1>12. ASSUME NEW t \in Threads, NEW m \in Messages, SetSeen(t, m) \/
            Fetch(t, m)
      PROVE  ExpungedGone'
    BY <1>12 DEF SetSeen, Fetch, Begin
<1>13. ASSUME NEW f \in Folders, GetFolder(f) \/ SaveSummary(f)
      PROVE  ExpungedGone'
    BY <1>13 DEF GetFolder, SaveSummary, SaveToDb, Event
<1>14. ASSUME NEW m \in Messages, SetDeleted(m) \/ NewMessage(m) \/
            HandsetChange(m)
      PROVE  ExpungedGone'
    BY <1>14 DEF SetDeleted, NewMessage, HandsetChange, Event
<1>15. CASE Restart
    BY <1>15 DEF Restart
<1>16. CASE UNCHANGED vars
    BY <1>16 DEF vars
<1> QED
    BY <1>1, <1>2, <1>3, <1>4, <1>5, <1>6, <1>7, <1>8, <1>9, <1>10, <1>11,
       <1>12, <1>13, <1>14, <1>15, <1>16 DEF Next, Step, Control, Rest, Crash,
       ExpungeCrash

\* An expunge goes on to the removal of a message when the phone has deleted
\* it.
LEMMA DeleteRemovesGone ==
  ASSUME PcType, FolderLockExact, AtMostOne, RemovesGone, FrameTypes,
         DataTypes,
         NEW t \in Threads, DeleteOnPhone(t)
  PROVE  RemovesGone'
<1>1. /\ pc[t] \in Locked /\ \A s \in Threads \ {t} : pc'[s] # "x_remove"
    BY DEF DeleteOnPhone, Goto, Move, FolderLockExact, Locked, PcType,
       ExpungeSteps,
       RefreshSteps
<1>2. pc'[t] = "x_remove" => \E m \in msg[t] : phone'[m] = "gone"
    BY DEF DeleteOnPhone, Goto, Move, PcType, FrameTypes, DataTypes
<1> QED
    BY <1>1, <1>2 DEF RemovesGone, AtMostOne, DeleteOnPhone, Goto

\* While it does so, the message stays deleted.
LEMMA RemovesGoneStep == PcType /\ FrameTypes /\ DataTypes /\ AtMostOne /\
    RemovesGone /\ FolderLockExact /\ [Next]_vars => RemovesGone'
<1> SUFFICES ASSUME PcType, FrameTypes, DataTypes, AtMostOne, RemovesGone,
       FolderLockExact, [Next]_vars PROVE RemovesGone'
    OBVIOUS
<1> USE DEF PcType, FrameTypes, DataTypes, RemovesGone, Shown,
        FolderLockExact, Locked, RefreshSteps, ExpungeSteps, Goto, Move,
        Finish, thread, remote
<1>1. ASSUME NEW t \in Threads, Control(t) PROVE RemovesGone'
    BY <1>1 DEF Control, RefreshLock, ExpungeLock, MarkLock, FetchLock,
       RefreshUnlock, MarkUnlock, FetchUnlock, ExpungeUnlock, RefreshClear,
       RefreshSelect, EchoSelect, MarkSelect, FetchSelect, UpdateInbox,
       ProcessEnd, ExpungeEnd, FetchGet, Lock, Unlock, UnlockAndReturn,
       SelectDir
<1>2. ASSUME NEW t \in Threads, ListMessages(t) PROVE RemovesGone'
    BY <1>2 DEF ListMessages
<1>3. ASSUME NEW t \in Threads, ProcessMessage(t) PROVE RemovesGone'
    BY <1>3 DEF ProcessMessage
<1>4. ASSUME NEW t \in Threads, EchoWrite(t) \/ MarkWrite(t) PROVE RemovesGone'
    BY <1>4 DEF EchoWrite, MarkWrite, SetRead
<1>5. ASSUME NEW t \in Threads, DeleteOnPhone(t) PROVE RemovesGone'
    BY <1>5, DeleteRemovesGone
<1>6. ASSUME NEW t \in Threads, ApplyMessage(t) \/ RemoveMessage(t)
      PROVE  RemovesGone'
    BY <1>6 DEF ApplyMessage, RemoveMessage
<1>7. ASSUME NEW t \in Threads, Prune(t) PROVE RemovesGone'
    BY <1>7 DEF Prune
<1>8. ASSUME NEW t \in Threads, MarkLocally(t) PROVE RemovesGone'
    BY <1>8 DEF MarkLocally
<1>9. ASSUME NEW t \in Threads, SaveChanges(t) PROVE RemovesGone'
    BY <1>9 DEF SaveChanges, SaveToDb
<1>10. ASSUME NEW t \in Threads, ExpungeNext(t) PROVE RemovesGone'
    BY <1>10 DEF ExpungeNext
<1>11. ASSUME NEW t \in Threads, NEW f \in Folders, RefreshInfo(t, f) \/
            Expunge(t, f)
      PROVE  RemovesGone'
    BY <1>11 DEF RefreshInfo, Expunge, Begin
<1>12. ASSUME NEW t \in Threads, NEW m \in Messages, SetSeen(t, m) \/
            Fetch(t, m)
      PROVE  RemovesGone'
    BY <1>12 DEF SetSeen, Fetch, Begin
<1>13. ASSUME NEW f \in Folders, GetFolder(f) \/ SaveSummary(f)
      PROVE  RemovesGone'
    BY <1>13 DEF GetFolder, SaveSummary, SaveToDb, Event
<1>14. ASSUME NEW m \in Messages, SetDeleted(m) \/ NewMessage(m) \/
            HandsetChange(m)
      PROVE  RemovesGone'
    BY <1>14 DEF SetDeleted, NewMessage, HandsetChange, Event
<1>15. CASE Restart
    BY <1>15 DEF Restart
<1>16. CASE UNCHANGED vars
    BY <1>16 DEF vars
<1> QED
    BY <1>1, <1>2, <1>3, <1>4, <1>5, <1>6, <1>7, <1>8, <1>9, <1>10, <1>11,
       <1>12, <1>13, <1>14, <1>15, <1>16 DEF Next, Step, Control, Rest, Crash,
       ExpungeCrash

\* A listing does not have an expunged message, which the phone has deleted.
LEMMA ListUnlisted ==
  ASSUME PcType, FrameTypes, DataTypes, ExpungedGone, ExpungedUnlisted,
         NEW t \in Threads, ListMessages(t)
  PROVE  ExpungedUnlisted'
<1>1. CASE Goto(t, "r_list", "r_unlock") /\ UNCHANGED past
    BY <1>1 DEF Goto, Move, ExpungedUnlisted, PcType, Listing, past
<1>2. CASE /\ Moves(t, "r_list", "r_process") /\ expunged' = expunged
           /\ \A m \in Messages :
                  /\ m \in todo'[t] <=> Home[m] = folder[t] /\ phone[m] \in Shown
                  /\ want'[t][m] = IF m \in todo'[t] THEN phone[m] ELSE "none"
  <2>1. \A m \in expunged : want'[t][m] = "none"
      BY <1>2 DEF ExpungedGone, Shown, DataTypes
  <2> QED
      BY <1>2, <2>1 DEF ExpungedUnlisted, Moves, OthersSame
<1> QED
    BY <1>1, <1>2, ListEffect

\* A refresh or an expunge that begins has no listing yet.
LEMMA BeginUnlisted ==
  ASSUME PcType, FrameTypes, ExpungedUnlisted, NEW t \in Threads,
         NEW f \in Folders, RefreshInfo(t, f) \/ Expunge(t, f)
  PROVE  ExpungedUnlisted'
<1>1. OthersSame(t) /\ pc'[t] \in {"r_lock", "x_lock"} /\ expunged' = expunged
    BY BeginEffect DEF RefreshInfo, Expunge, past
<1> QED
    BY <1>1 DEF OthersSame, ExpungedUnlisted, Listing

\* No message is expunged while a listing is in use: both need the folder
\* lock.
LEMMA UnlistedStep == PcType /\ FrameTypes /\ DataTypes /\ Frames /\
    ExpungedGone /\ RemovesGone /\ ExpungedUnlisted /\ FolderLockExact /\
    [Next]_vars => ExpungedUnlisted'
<1> SUFFICES ASSUME PcType, FrameTypes, DataTypes, Frames, ExpungedGone,
       RemovesGone, ExpungedUnlisted, FolderLockExact, [Next]_vars
       PROVE  ExpungedUnlisted'
    OBVIOUS
<1> USE DEF PcType, FrameTypes, RemovesGone, ExpungedUnlisted, Listing,
        FolderLockExact, Locked, RefreshSteps, ExpungeSteps, Goto, Move,
        Finish, thread, past
<1>1. ASSUME NEW t \in Threads, Control(t) PROVE ExpungedUnlisted'
    BY <1>1 DEF Control, RefreshLock, ExpungeLock, MarkLock, FetchLock,
       RefreshUnlock, MarkUnlock, FetchUnlock, ExpungeUnlock, RefreshClear,
       RefreshSelect, EchoSelect, MarkSelect, FetchSelect, UpdateInbox,
       ProcessEnd, ExpungeEnd, FetchGet, Lock, Unlock, UnlockAndReturn,
       SelectDir
<1>2. ASSUME NEW t \in Threads, ListMessages(t) PROVE ExpungedUnlisted'
    BY <1>2, ListUnlisted
<1>3. ASSUME NEW t \in Threads, ProcessMessage(t) PROVE ExpungedUnlisted'
    BY <1>3 DEF ProcessMessage
<1>4. ASSUME NEW t \in Threads, EchoWrite(t) \/ MarkWrite(t)
      PROVE  ExpungedUnlisted'
    BY <1>4 DEF EchoWrite, MarkWrite, SetRead
<1>5. ASSUME NEW t \in Threads, DeleteOnPhone(t) PROVE ExpungedUnlisted'
    BY <1>5 DEF DeleteOnPhone
<1>6. ASSUME NEW t \in Threads, ApplyMessage(t) \/ RemoveMessage(t)
      PROVE  ExpungedUnlisted'
  <2>1. CASE ApplyMessage(t)
      BY <2>1 DEF ApplyMessage
  <2>2. CASE RemoveMessage(t)
    <3>1. \A s \in Threads : pc'[s] \notin Listing
        BY <2>2 DEF RemoveMessage
    <3> QED
        BY <3>1
  <2> QED
      BY <1>6, <2>1, <2>2
<1>7. ASSUME NEW t \in Threads, Prune(t) PROVE ExpungedUnlisted'
    BY <1>7 DEF Prune
<1>8. ASSUME NEW t \in Threads, MarkLocally(t) PROVE ExpungedUnlisted'
    BY <1>8 DEF MarkLocally
<1>9. ASSUME NEW t \in Threads, SaveChanges(t) PROVE ExpungedUnlisted'
    BY <1>9 DEF SaveChanges, SaveToDb
<1>10. ASSUME NEW t \in Threads, ExpungeNext(t) PROVE ExpungedUnlisted'
    BY <1>10 DEF ExpungeNext
<1>11. ASSUME NEW t \in Threads, NEW f \in Folders, RefreshInfo(t, f) \/
            Expunge(t, f)
      PROVE  ExpungedUnlisted'
    BY <1>11, BeginUnlisted
<1>12. ASSUME NEW t \in Threads, NEW m \in Messages, SetSeen(t, m) \/
            Fetch(t, m)
      PROVE  ExpungedUnlisted'
    BY <1>12, SeenEffect, BeginEffect DEF Fetch, OthersSame
<1>13. ASSUME NEW f \in Folders, GetFolder(f) \/ SaveSummary(f)
      PROVE  ExpungedUnlisted'
    BY <1>13 DEF GetFolder, SaveSummary, SaveToDb, Event
<1>14. ASSUME NEW m \in Messages, SetDeleted(m) \/ NewMessage(m) \/
            HandsetChange(m)
      PROVE  ExpungedUnlisted'
    BY <1>14 DEF SetDeleted, NewMessage, HandsetChange, Event
<1>15. CASE Restart
    BY <1>15 DEF Restart
<1>16. CASE UNCHANGED vars
    BY <1>16 DEF vars
<1> QED
    BY <1>1, <1>2, <1>3, <1>4, <1>5, <1>6, <1>7, <1>8, <1>9, <1>10, <1>11,
       <1>12, <1>13, <1>14, <1>15, <1>16 DEF Next, Step, Control, Rest, Crash,
       ExpungeCrash

\* A listing is what the phone has.
LEMMA ListCurrent ==
  ASSUME PcType, FrameTypes, DataTypes, FolderLockExact, PhoneFirst,
         ListingCurrent,
         NEW t \in Threads, ListMessages(t)
  PROVE  ListingCurrent'
<1>0. pc[t] \in Locked
    BY DEF ListMessages, Goto, Move, Locked, RefreshSteps
<1>1. CASE Goto(t, "r_list", "r_unlock")
    BY <1>0, <1>1, OneListing DEF Goto, Move, ListingCurrent, PcType, Listing
<1>2. CASE /\ Moves(t, "r_list", "r_process")
           /\ todo'[t] \subseteq Messages
           /\ \A m \in Messages :
                  /\ m \in todo'[t] <=> Home[m] = folder[t] /\ phone[m] \in Shown
                  /\ want'[t][m] = IF m \in todo'[t] THEN phone[m] ELSE "none"
           /\ UNCHANGED <<remote, local>>
  <2>1. \A m \in ListedBy(t)' : m \in todo'[t] /\ phone'[m] = want'[t][m]
      BY <1>2 DEF ListedBy, remote
  <2>2. \A m \in Known(folder[t])' \ ListedBy(t)' : phone'[m] = "gone"
    <3> SUFFICES ASSUME NEW m \in Messages, Home[m] = folder[t],
                        local[m] # "none", m \notin todo'[t]
                 PROVE  phone[m] = "gone"
        BY <1>2 DEF Known, InFolder, ListedBy, Moves, remote, Shown
    <3> QED
        BY <1>2 DEF PhoneFirst, DataTypes, Status, Shown
  <2>3. Current(t)'
      BY <1>2, <2>1, <2>2 DEF Current, Moves
  <2>4. \A s \in Threads \ {t} : pc'[s] \notin Listing
      BY <1>0, <1>2, OneListing DEF Moves, OthersSame
  <2> QED
      BY <2>3, <2>4 DEF ListingCurrent
<1> QED
    BY <1>1, <1>2, ListEffect

\* A message that the summary has with the same status is handled; another
\* one is handled next.
LEMMA ProcessCurrent ==
  ASSUME PcType, FrameTypes, DataTypes, FolderLockExact, Frames, Wanted,
         ListingCurrent,
         NEW t \in Threads, ProcessMessage(t)
  PROVE  ListingCurrent'
<1>1. PICK m \in todo[t] :
         /\ todo'[t] = todo[t] \ {m} /\ want' = want /\ prune' = prune
         /\ UNCHANGED <<remote, past>>
         /\ \/ /\ local[m] = want[t][m]
               /\ Moves(t, "r_process", "r_process")
               /\ msg' = msg /\ local' = local
            \/ /\ \E to \in {"r_apply", "r_echo"} : Moves(t, "r_process", to)
               /\ msg'[t] = {m}
               /\ local' = local \/ local' = [local EXCEPT ![m] = "unread"]
    BY ProcessEffect
<1>2. /\ OthersSame(t) /\ m \in Messages /\ m \in ListedBy(t)
      /\ pc[t] = "r_process" /\ pc'[t] \in {"r_process", "r_apply", "r_echo"}
      /\ folder'[t] = folder[t] /\ msg[t] = {} /\ Current(t)
      /\ ListedBy(t)' = ListedBy(t)
    BY <1>1 DEF Moves, Frames, Frame, OneMessage, RefreshSteps, FrameTypes,
       Wanted, Wants,
       Listing, ListedBy, ListingCurrent
<1>3. \A k \in Messages \ {m} : local'[k] = local[k]
    BY <1>1 DEF DataTypes
<1>4. \A k \in ListedBy(t) \ (touched \cup todo'[t] \cup msg'[t]) : local'[k] = want[t][k]
    BY <1>1, <1>2, <1>3 DEF Current, ListedBy
<1>5. Known(folder[t])' \ ListedBy(t)' \subseteq Known(folder[t]) \ ListedBy(t)
    BY <1>2, <1>3 DEF Known, InFolder
<1>6. Current(t)'
    BY <1>1, <1>2, <1>4, <1>5 DEF Current, remote, past
<1>7. \A s \in Threads \ {t} : pc'[s] \notin Listing
    BY <1>2, OneListing DEF OthersSame, Locked, RefreshSteps
<1> QED
    BY <1>6, <1>7 DEF ListingCurrent

\* Sending the listed status back leaves the phone with that status.
LEMMA WriteCurrent ==
  ASSUME PcType, FrameTypes, DataTypes, FolderLockExact, Frames,
         ListingCurrent,
         NEW t \in Threads, EchoWrite(t) \/ MarkWrite(t)
  PROVE  ListingCurrent'
<1>1. PICK m \in msg[t] :
         /\ SetRead({m}, want[t][m])
         /\ \/ Goto(t, "r_write", "r_apply") \/ Goto(t, "m_write", "m_unlock")
         /\ UNCHANGED <<store, phone_dir, local, marked, disk, past, count>>
    BY WriteEffect
<1>2. \A s \in Threads \ {t} : pc'[s] \notin Listing
    BY <1>1, OneListing DEF Goto, Move, PcType, Locked, RefreshSteps
<1>3. CASE Goto(t, "m_write", "m_unlock")
    BY <1>2, <1>3 DEF Goto, Move, PcType, Listing, ListingCurrent
<1>4. CASE Goto(t, "r_write", "r_apply")
  <2>1. /\ pc[t] = "r_write" /\ pc'[t] = "r_apply" /\ Current(t)
        /\ UNCHANGED <<folder, msg, todo, want, prune>>
      BY <1>4 DEF Goto, Move, PcType, Listing, ListingCurrent
  <2>2. \A k \in Messages : \/ phone'[k] = phone[k]
                            \/ k = m /\ phone[k] \in Shown /\ phone'[k] = want[t][k]
      BY <1>1 DEF SetRead, DataTypes
  <2>3. Current(t)'
      BY <1>1, <2>1, <2>2 DEF Current, ListedBy, Known, InFolder, Shown, past
  <2> QED
      BY <1>2, <2>3 DEF ListingCurrent
<1> QED
    BY <1>1, <1>3, <1>4

\* A deletion needs the lock, so no listing is in use.
LEMMA DeleteCurrent ==
  ASSUME PcType, FolderLockExact, NEW t \in Threads, DeleteOnPhone(t)
  PROVE  ListingCurrent'
<1>1. \A s \in Threads : pc'[s] \notin Listing
    BY OneListing DEF DeleteOnPhone, Goto, Move, PcType, Locked,
       ExpungeSteps, Listing
<1> QED
    BY <1>1 DEF ListingCurrent

\* A message that is applied has the listed status in the summary.
LEMMA ApplyCurrent ==
  ASSUME PcType, FrameTypes, DataTypes, FolderLockExact, Wanted,
         ListingCurrent,
         NEW t \in Threads, ApplyMessage(t) \/ RemoveMessage(t)
  PROVE  ListingCurrent'
<1>1. \A s \in Threads \ {t} : pc'[s] \notin Listing
    BY OneListing DEF ApplyMessage, RemoveMessage, Move, PcType, Locked,
       RefreshSteps,
       ExpungeSteps
<1>2. CASE ApplyMessage(t)
  <2>1. /\ Current(t) /\ msg[t] \subseteq ListedBy(t) /\ pc'[t] = "r_process"
        /\ UNCHANGED <<folder, todo, want, prune, phone, touched>>
        /\ \A m \in Messages : local'[m] = IF m \in msg[t] THEN want[t][m] ELSE local[m]
      BY <1>2 DEF ApplyMessage, Move, PcType, Listing, ListingCurrent,
         Wanted, Wants,
         remote, past
  <2>2. \A m \in ListedBy(t) \ (touched \cup todo[t]) : local'[m] = want[t][m]
      BY <2>1 DEF Current, ListedBy
  <2>3. Known(folder[t])' \ ListedBy(t)' \subseteq Known(folder[t]) \ ListedBy(t)
      BY <2>1 DEF Known, InFolder, ListedBy
  <2>4. Current(t)'
      BY <2>1, <2>2, <2>3 DEF Current, ListedBy
  <2> QED
      BY <1>1, <2>4 DEF ListingCurrent
<1>3. CASE RemoveMessage(t)
    BY <1>1, <1>3 DEF RemoveMessage, Move, PcType, Listing, ListingCurrent
<1> QED
    BY <1>2, <1>3

\* After pruning the summary has no message that was not listed.
LEMMA PruneCurrent ==
  ASSUME PcType, FrameTypes, DataTypes, FolderLockExact, ListingCurrent,
         NEW t \in Threads, Prune(t)
  PROVE  ListingCurrent'
<1>1. \A s \in Threads \ {t} : pc'[s] \notin Listing
    BY OneListing DEF Prune, Move, PcType, Locked, RefreshSteps
<1>2. Current(t)
    BY DEF Prune, Move, Listing, ListingCurrent
<1>3. /\ UNCHANGED <<folder, msg, todo, want, prune, phone, touched>>
      /\ \A m \in Messages : local'[m] =
            IF m \in Known(folder[t]) \ ListedBy(t) THEN "none" ELSE local[m]
    BY DEF Prune, remote, past
<1>4. Known(folder[t])' \subseteq ListedBy(t)
    BY <1>3 DEF Known, InFolder
<1>5. Current(t)'
    BY <1>2, <1>3, <1>4 DEF Current, ListedBy
<1> QED
    BY <1>1, <1>5 DEF ListingCurrent

\* A listing in use stays what the phone and the summary have, but for what
\* a user or the handset changed.
LEMMA CurrentStep == PcType /\ FrameTypes /\ DataTypes /\ Frames /\
    FolderLockExact /\ Wanted /\ PhoneFirst /\ ListingCurrent /\ [Next]_vars
    => ListingCurrent'
<1> SUFFICES ASSUME PcType, FrameTypes, DataTypes, Frames, FolderLockExact,
       Wanted, PhoneFirst, ListingCurrent, [Next]_vars PROVE ListingCurrent'
    OBVIOUS
<1> USE DEF PcType, FrameTypes, DataTypes, Frames, Frame, Wanted, Wants,
        FolderLockExact, PhoneFirst, ListingCurrent, Current, Known, InFolder,
        OneMessage, Shown, Listing, ListedBy, Locked, RefreshSteps,
        ExpungeSteps, Goto, Move, Finish, thread, remote, past
<1>1. ASSUME NEW t \in Threads, Control(t) PROVE ListingCurrent'
    BY <1>1 DEF Control, RefreshLock, ExpungeLock, MarkLock, FetchLock,
       RefreshUnlock, MarkUnlock, FetchUnlock, ExpungeUnlock, RefreshClear,
       RefreshSelect, EchoSelect, MarkSelect, FetchSelect, UpdateInbox,
       ProcessEnd, ExpungeEnd, FetchGet, Lock, Unlock, UnlockAndReturn,
       SelectDir
<1>2. ASSUME NEW t \in Threads, ListMessages(t) PROVE ListingCurrent'
    BY <1>2, ListCurrent
<1>3. ASSUME NEW t \in Threads, ProcessMessage(t) PROVE ListingCurrent'
    BY <1>3, ProcessCurrent
<1>4. ASSUME NEW t \in Threads, EchoWrite(t) \/ MarkWrite(t)
      PROVE  ListingCurrent'
    BY <1>4, WriteCurrent
<1>5. ASSUME NEW t \in Threads, DeleteOnPhone(t) PROVE ListingCurrent'
    BY <1>5, DeleteCurrent
<1>6. ASSUME NEW t \in Threads, ApplyMessage(t) \/ RemoveMessage(t)
      PROVE  ListingCurrent'
    BY <1>6, ApplyCurrent
<1>7. ASSUME NEW t \in Threads, Prune(t) PROVE ListingCurrent'
    BY <1>7, PruneCurrent
<1>8. ASSUME NEW t \in Threads, MarkLocally(t) PROVE ListingCurrent'
    BY <1>8 DEF MarkLocally
<1>9. ASSUME NEW t \in Threads, SaveChanges(t) PROVE ListingCurrent'
    BY <1>9 DEF SaveChanges, SaveToDb
<1>10. ASSUME NEW t \in Threads, ExpungeNext(t) PROVE ListingCurrent'
    BY <1>10 DEF ExpungeNext
<1>11. ASSUME NEW t \in Threads, NEW f \in Folders, RefreshInfo(t, f) \/
            Expunge(t, f)
      PROVE  ListingCurrent'
    BY <1>11 DEF RefreshInfo, Expunge, Begin
<1>12. ASSUME NEW t \in Threads, NEW m \in Messages, SetSeen(t, m) \/
            Fetch(t, m)
      PROVE  ListingCurrent'
    BY <1>12 DEF SetSeen, Fetch, Begin
<1>13. ASSUME NEW f \in Folders, GetFolder(f) \/ SaveSummary(f)
      PROVE  ListingCurrent'
    BY <1>13 DEF GetFolder, SaveSummary, SaveToDb, Event
<1>14. ASSUME NEW m \in Messages, SetDeleted(m) \/ NewMessage(m) \/
            HandsetChange(m)
      PROVE  ListingCurrent'
    BY <1>14 DEF SetDeleted, NewMessage, HandsetChange, Event
<1>15. CASE Restart
    BY <1>15 DEF Restart
<1>16. CASE UNCHANGED vars
    BY <1>16 DEF vars
<1> QED
    BY <1>1, <1>2, <1>3, <1>4, <1>5, <1>6, <1>7, <1>8, <1>9, <1>10, <1>11,
       <1>12, <1>13, <1>14, <1>15, <1>16 DEF Next, Step, Control, Rest, Crash,
       ExpungeCrash

\* A listing changes nothing of an expunge.
LEMMA ListCovers ==
  ASSUME PcType, FrameTypes, ExpungeCovers, NEW t \in Threads, ListMessages(t)
  PROVE  ExpungeCovers'
<1>1. /\ pc'[t] \in {"r_unlock", "r_process"}
      /\ OthersSame(t) /\ UNCHANGED <<marked, local, flagged>>
    BY ListEffect DEF Goto, Move, Moves, OthersSame, PcType, past
<1> QED
    BY <1>1 DEF ExpungeCovers, Covers, Known, OthersSame, ExpungeSteps

\* Whatever is marked is still before the expunge, or was marked after it
\* began.
LEMMA CoversStep == PcType /\ FrameTypes /\ DataTypes /\ Frames /\
    FolderLockExact /\ MarkedKnown /\ ExpungeCovers /\ [Next]_vars =>
    ExpungeCovers'
<1> SUFFICES ASSUME PcType, FrameTypes, DataTypes, Frames, FolderLockExact,
       MarkedKnown, ExpungeCovers, [Next]_vars PROVE ExpungeCovers'
    OBVIOUS
<1> USE DEF PcType, FrameTypes, DataTypes, Frames, Frame, FolderLockExact,
        MarkedKnown, ExpungeCovers, Covers, Known, InFolder, OneMessage,
        RefreshSteps, ExpungeSteps, Goto, Move, Finish, thread, past
<1>1. ASSUME NEW t \in Threads, Control(t) PROVE ExpungeCovers'
    BY <1>1 DEF Control, RefreshLock, ExpungeLock, MarkLock, FetchLock,
       RefreshUnlock, MarkUnlock, FetchUnlock, ExpungeUnlock, RefreshClear,
       RefreshSelect, EchoSelect, MarkSelect, FetchSelect, UpdateInbox,
       ProcessEnd, ExpungeEnd, FetchGet, Lock, Unlock, UnlockAndReturn,
       SelectDir
<1>2. ASSUME NEW t \in Threads, ListMessages(t) PROVE ExpungeCovers'
    BY <1>2, ListCovers
<1>3. ASSUME NEW t \in Threads, ProcessMessage(t) PROVE ExpungeCovers'
    BY <1>3 DEF ProcessMessage
<1>4. ASSUME NEW t \in Threads, EchoWrite(t) \/ MarkWrite(t)
      PROVE  ExpungeCovers'
    BY <1>4 DEF EchoWrite, MarkWrite, SetRead
<1>5. ASSUME NEW t \in Threads, DeleteOnPhone(t) PROVE ExpungeCovers'
    BY <1>5 DEF DeleteOnPhone
<1>6. ASSUME NEW t \in Threads, ApplyMessage(t) \/ RemoveMessage(t)
      PROVE  ExpungeCovers'
    BY <1>6 DEF ApplyMessage, RemoveMessage
<1>7. ASSUME NEW t \in Threads, Prune(t) PROVE ExpungeCovers'
    BY <1>7 DEF Prune
<1>8. ASSUME NEW t \in Threads, MarkLocally(t) PROVE ExpungeCovers'
    BY <1>8 DEF MarkLocally
<1>9. ASSUME NEW t \in Threads, SaveChanges(t) PROVE ExpungeCovers'
    BY <1>9 DEF SaveChanges, SaveToDb
<1>10. ASSUME NEW t \in Threads, ExpungeNext(t) PROVE ExpungeCovers'
    BY <1>10 DEF ExpungeNext
<1>11. ASSUME NEW t \in Threads, NEW f \in Folders, RefreshInfo(t, f) \/
            Expunge(t, f)
      PROVE  ExpungeCovers'
    BY <1>11 DEF RefreshInfo, Expunge, Begin
<1>12. ASSUME NEW t \in Threads, NEW m \in Messages, SetSeen(t, m) \/
            Fetch(t, m)
      PROVE  ExpungeCovers'
    BY <1>12, SeenEffect, BeginEffect DEF Fetch, OthersSame
<1>13. ASSUME NEW f \in Folders, GetFolder(f) \/ SaveSummary(f)
      PROVE  ExpungeCovers'
    BY <1>13 DEF GetFolder, SaveSummary, SaveToDb, Event
<1>14. ASSUME NEW m \in Messages, SetDeleted(m) \/ NewMessage(m) \/
            HandsetChange(m)
      PROVE  ExpungeCovers'
    BY <1>14 DEF SetDeleted, NewMessage, HandsetChange, Event
<1>15. CASE Restart
    BY <1>15 DEF Restart
<1>16. CASE UNCHANGED vars
    BY <1>16 DEF vars
<1> QED
    BY <1>1, <1>2, <1>3, <1>4, <1>5, <1>6, <1>7, <1>8, <1>9, <1>10, <1>11,
       <1>12, <1>13, <1>14, <1>15, <1>16 DEF Next, Step, Control, Rest, Crash,
       ExpungeCrash

----------------------------------------------------------------------------
(* The invariant, and what it gives.                                       *)

\* The initial state satisfies the invariant.
LEMMA InitInv == Init => IInv
<1> SUFFICES ASSUME Init PROVE IInv
    OBVIOUS
<1>1. TypeOK
  <2>1. /\ NoStatus \in [Messages -> Status]
        /\ phone \in [Messages -> Status \cup {"gone"}]
      BY DEF Init, NoStatus, Status
  <2> QED
      BY <2>1, BoundsAreNat DEF Init, TypeOK, Labels
<1>2. /\ FolderLockExact /\ RefreshingExact /\ SelectedDir
      /\ Frames /\ AtMostOne /\ Wanted
    BY NamesDistinct DEF Init, FolderLockExact, RefreshingExact, SelectedDir,
       Frames,
       Frame, AtMostOne, Wanted, Wants, Listing, OneMessage, Locked,
       RefreshSteps,
       ExpungeSteps
<1>3. /\ PhoneFirst /\ ExpungedGone /\ RemovesGone /\ ExpungedUnlisted
      /\ ListingCurrent /\ MarkedKnown /\ ExpungeCovers
    BY DEF Init, PhoneFirst, ExpungedGone, RemovesGone, ExpungedUnlisted,
       ListingCurrent, MarkedKnown, ExpungeCovers, Listing, ExpungeSteps,
       NoStatus
<1> QED
    BY <1>1, <1>2, <1>3 DEF IInv

\* Every step keeps it.
LEMMA NextInv == IInv /\ [Next]_vars => IInv'
<1> SUFFICES ASSUME IInv, [Next]_vars
             PROVE  IInv'
    OBVIOUS
<1>1. PcType /\ FrameTypes /\ DataTypes /\ StoreTypes
    BY TypeParts DEF IInv
<1>2. PcType' /\ FrameTypes'
    BY <1>1, PcStep, FrameStep
<1>3. DataTypes' /\ StoreTypes'
    BY <1>1, DataStep, StoreStep DEF IInv
<1>4. TypeOK'
    BY <1>2, <1>3 DEF TypeOK, PcType, FrameTypes, DataTypes, StoreTypes
<1>5. FolderLockExact' /\ RefreshingExact' /\ SelectedDir'
    BY <1>1, FolderLockStep, RefreshingStep, SelectedDirStep DEF IInv
<1>6. Frames' /\ AtMostOne' /\ Wanted'
    BY <1>1, FramesStep, AtMostOneStep, WantedStep DEF IInv
<1>7. PhoneFirst' /\ ExpungedGone'
    BY <1>1, PhoneFirstStep, ExpungedGoneStep DEF IInv
<1>8. RemovesGone' /\ ExpungedUnlisted'
    BY <1>1, RemovesGoneStep, UnlistedStep DEF IInv
<1>9. ListingCurrent' /\ MarkedKnown' /\ ExpungeCovers'
    BY <1>1, CurrentStep, MarkedKnownStep, CoversStep DEF IInv
<1> QED
    BY <1>4, <1>5, <1>6, <1>7, <1>8, <1>9 DEF IInv

\* The invariant holds in every state (camel-map-folder.c 146-221, 735-1328).
THEOREM Invariance == Spec => []IInv
BY InitInv, NextInv, PTL DEF Spec

\* Every state of the folders, the summaries and the phone has its type.
THEOREM TypeCorrect == Spec => []TypeOK
<1>1. IInv => TypeOK
    BY DEF IInv
<1> QED
    BY <1>1, Invariance, PTL

\* The refreshing flag of a folder is set exactly while one thread refreshes
\* it (the four returns of map_refresh_info_sync).
THEOREM RefreshingExactHolds == Spec => []RefreshingExact
<1>1. IInv => RefreshingExact
    BY DEF IInv
<1> QED
    BY <1>1, Invariance, PTL

\* The folder lock is held by exactly the thread between its lock and its
\* unlock, over refresh, expunge, mark and fetch.
THEOREM FolderLockHolds == Spec => []FolderLockExact
<1>1. IInv => FolderLockExact
    BY DEF IInv
<1> QED
    BY <1>1, Invariance, PTL

\* When the phone is asked in its current directory, that is the one that the
\* operation selected.
THEOREM SelectedDirHolds == Spec => []SelectedDir
<1>1. IInv => SelectedDir
    BY DEF IInv
<1> QED
    BY <1>1, Invariance, PTL

\* An expunged message does not come back, whatever refreshes overlap the
\* expunge (map_folder_delete_messages and map_refresh_info_sync).
THEOREM ExpungedStaysAwayHolds == Spec => []ExpungedStaysAway
<1>1. IInv => ExpungedStaysAway
    BY DEF IInv, ExpungedGone, ExpungedStaysAway
<1> QED
    BY <1>1, Invariance, PTL

\* When a refresh has handled its listing the summary agrees with it, but for
\* what was changed since; after a refresh that prunes it has nothing else.
THEOREM RefreshAgreesHolds == Spec => []RefreshAgrees
<1>1. IInv => RefreshAgrees
  <2> SUFFICES ASSUME IInv, NEW t \in Threads, pc[t] = "r_save"
               PROVE  /\ \A m \in ListedBy(t) \ touched : local[m] = want[t][m]
                      /\ t \in prune => Known(folder[t]) \subseteq ListedBy(t)
      BY DEF RefreshAgrees
  <2>1. Current(t) /\ msg[t] = {} /\ todo[t] = {}
      BY DEF IInv, ListingCurrent, Listing, Frames, Frame, RefreshSteps,
         OneMessage
  <2> QED
      BY <2>1 DEF Current
<1> QED
    BY <1>1, Invariance, PTL

----------------------------------------------------------------------------
(* What a step may never do.                                               *)

\* No message leaves a summary that the phone still has.
NoneDropped ==
    \A m \in Messages :
        /\ local[m] # "none" /\ local'[m] = "none"
        /\ \E t \in Threads : pc'[t] # "idle"
        => phone[m] = "gone"

\* Only a removal and a pruning drop a message, and both know it is gone.
LEMMA DropsStep == PcType /\ FrameTypes /\ DataTypes /\ Wanted /\ RemovesGone
    /\ ListingCurrent /\ [Next]_vars => NoneDropped
<1> SUFFICES ASSUME PcType, FrameTypes, DataTypes, Wanted, RemovesGone,
       ListingCurrent, [Next]_vars PROVE NoneDropped
    OBVIOUS
<1> USE DEF FrameTypes, DataTypes, Wanted, Wants, ListedBy, Listing,
        RemovesGone, NoneDropped, Goto, Move, Finish, remote
<1>1. ASSUME NEW t \in Threads, Control(t) PROVE NoneDropped
    BY <1>1, ControlEffect
<1>2. ASSUME NEW t \in Threads, ListMessages(t) PROVE NoneDropped
    BY <1>2, ListEffect
<1>3. ASSUME NEW t \in Threads, ProcessMessage(t) PROVE NoneDropped
    BY <1>3 DEF ProcessMessage
<1>4. ASSUME NEW t \in Threads, EchoWrite(t) \/ MarkWrite(t) PROVE NoneDropped
    BY <1>4 DEF EchoWrite, MarkWrite, SetRead
<1>5. ASSUME NEW t \in Threads, DeleteOnPhone(t) PROVE NoneDropped
    BY <1>5 DEF DeleteOnPhone
<1>6. ASSUME NEW t \in Threads, ApplyMessage(t) \/ RemoveMessage(t)
      PROVE  NoneDropped
    BY <1>6 DEF ApplyMessage, RemoveMessage
<1>7. ASSUME NEW t \in Threads, Prune(t) PROVE NoneDropped
  <2>1. Current(t)
      BY <1>7 DEF Prune, ListingCurrent
  <2> QED
      BY <1>7, <2>1 DEF Prune, Current
<1>8. ASSUME NEW t \in Threads, MarkLocally(t) PROVE NoneDropped
    BY <1>8 DEF MarkLocally
<1>9. ASSUME NEW t \in Threads, SaveChanges(t) PROVE NoneDropped
    BY <1>9 DEF SaveChanges, SaveToDb
<1>10. ASSUME NEW t \in Threads, ExpungeNext(t) PROVE NoneDropped
    BY <1>10 DEF ExpungeNext
<1>11. ASSUME NEW t \in Threads, NEW f \in Folders, RefreshInfo(t, f) \/
            Expunge(t, f)
      PROVE  NoneDropped
    BY <1>11 DEF RefreshInfo, Expunge, Begin
<1>12. ASSUME NEW t \in Threads, NEW m \in Messages, SetSeen(t, m) \/
            Fetch(t, m)
      PROVE  NoneDropped
    BY <1>12 DEF SetSeen, Fetch, Begin
<1>13. ASSUME NEW f \in Folders, GetFolder(f) \/ SaveSummary(f)
      PROVE  NoneDropped
    BY <1>13 DEF GetFolder, SaveSummary, SaveToDb, Event
<1>14. ASSUME NEW m \in Messages, SetDeleted(m) \/ NewMessage(m) \/
            HandsetChange(m)
      PROVE  NoneDropped
    BY <1>14 DEF SetDeleted, NewMessage, HandsetChange, Event
<1>15. CASE Restart
    BY <1>15 DEF Restart
<1>16. CASE UNCHANGED vars
    BY <1>16 DEF vars
<1> QED
    BY <1>1, <1>2, <1>3, <1>4, <1>5, <1>6, <1>7, <1>8, <1>9, <1>10, <1>11,
       <1>12, <1>13, <1>14, <1>15, <1>16 DEF Next, Step, Control, Rest, Crash,
       ExpungeCrash

\* A message only leaves the summary of a running process when the phone no
\* longer has it.
THEOREM DropsOnlyGoneHolds == Spec => DropsOnlyGone
<1>1. IInv /\ [Next]_vars => NoneDropped
    BY DropsStep, TypeParts DEF IInv
<1>2. IInv /\ [Next]_vars => [NoneDropped]_vars
    BY <1>1
<1> QED
    BY <1>2, Invariance, PTL DEF Spec, DropsOnlyGone, NoneDropped

\* A status that is sent back to the phone is the one that it has.
EchoHarmless ==
    \A t \in Threads, m \in Messages :
        pc[t] = "r_write" /\ pc'[t] = "r_apply" /\ phone'[m] # phone[m]
        => m \in touched

\* The write of a refresh changes nothing that was not touched.
LEMMA WriteHarmless ==
  ASSUME PcType, FrameTypes, DataTypes, Frames, Wanted, ListingCurrent,
         NEW t \in Threads, EchoWrite(t) \/ MarkWrite(t)
  PROVE  EchoHarmless
<1>1. PICK m \in msg[t] :
         /\ SetRead({m}, want[t][m])
         /\ \/ Goto(t, "r_write", "r_apply") \/ Goto(t, "m_write", "m_unlock")
    BY WriteEffect
<1>2. CASE Goto(t, "m_write", "m_unlock")
    BY <1>2 DEF Goto, Move, PcType, EchoHarmless
<1>3. CASE Goto(t, "r_write", "r_apply")
  <2>1. Current(t) /\ m \in ListedBy(t) /\ \A s \in Threads \ {t} : pc'[s] = pc[s]
      BY <1>1, <1>3 DEF Goto, Move, PcType, Wanted, Wants, Listing,
         ListingCurrent
  <2>2. \A k \in Messages : phone'[k] # phone[k] => k \in touched
      BY <1>1, <2>1 DEF SetRead, DataTypes, Current
  <2> QED
      BY <2>1, <2>2 DEF EchoHarmless
<1> QED
    BY <1>1, <1>2, <1>3

\* No other step is such a write.
LEMMA EchoStep == PcType /\ FrameTypes /\ DataTypes /\ Frames /\ Wanted /\
    ListingCurrent /\ [Next]_vars => EchoHarmless
<1> SUFFICES ASSUME PcType, FrameTypes, DataTypes, Frames, Wanted,
       ListingCurrent, [Next]_vars PROVE EchoHarmless
    OBVIOUS
<1> USE DEF PcType, EchoHarmless, Goto, Move, Finish, thread, remote
<1>1. ASSUME NEW t \in Threads, Control(t) PROVE EchoHarmless
    BY <1>1, ControlEffect
<1>2. ASSUME NEW t \in Threads, ListMessages(t) PROVE EchoHarmless
    BY <1>2 DEF ListMessages
<1>3. ASSUME NEW t \in Threads, ProcessMessage(t) PROVE EchoHarmless
    BY <1>3 DEF ProcessMessage
<1>4. ASSUME NEW t \in Threads, EchoWrite(t) \/ MarkWrite(t) PROVE EchoHarmless
    BY <1>4, WriteHarmless
<1>5. ASSUME NEW t \in Threads, DeleteOnPhone(t) PROVE EchoHarmless
    BY <1>5 DEF DeleteOnPhone
<1>6. ASSUME NEW t \in Threads, ApplyMessage(t) \/ RemoveMessage(t)
      PROVE  EchoHarmless
    BY <1>6 DEF ApplyMessage, RemoveMessage
<1>7. ASSUME NEW t \in Threads, Prune(t) PROVE EchoHarmless
    BY <1>7 DEF Prune
<1>8. ASSUME NEW t \in Threads, MarkLocally(t) PROVE EchoHarmless
    BY <1>8 DEF MarkLocally
<1>9. ASSUME NEW t \in Threads, SaveChanges(t) PROVE EchoHarmless
    BY <1>9 DEF SaveChanges, SaveToDb
<1>10. ASSUME NEW t \in Threads, ExpungeNext(t) PROVE EchoHarmless
    BY <1>10 DEF ExpungeNext
<1>11. ASSUME NEW t \in Threads, NEW f \in Folders, RefreshInfo(t, f) \/
            Expunge(t, f)
      PROVE  EchoHarmless
    BY <1>11 DEF RefreshInfo, Expunge, Begin
<1>12. ASSUME NEW t \in Threads, NEW m \in Messages, SetSeen(t, m) \/
            Fetch(t, m)
      PROVE  EchoHarmless
    BY <1>12 DEF SetSeen, Fetch, Begin
<1>13. ASSUME NEW f \in Folders, GetFolder(f) \/ SaveSummary(f)
      PROVE  EchoHarmless
    BY <1>13 DEF GetFolder, SaveSummary, SaveToDb, Event
<1>14. ASSUME NEW m \in Messages, SetDeleted(m) \/ NewMessage(m) \/
            HandsetChange(m)
      PROVE  EchoHarmless
    BY <1>14 DEF SetDeleted, NewMessage, HandsetChange, Event
<1>15. CASE Restart
    BY <1>15 DEF Restart
<1>16. CASE UNCHANGED vars
    BY <1>16 DEF vars
<1> QED
    BY <1>1, <1>2, <1>3, <1>4, <1>5, <1>6, <1>7, <1>8, <1>9, <1>10, <1>11,
       <1>12, <1>13, <1>14, <1>15, <1>16 DEF Next, Step, Control, Rest, Crash,
       ExpungeCrash

\* Sending the read status of a listed message back to the phone changes
\* nothing there unless the message changed after it was listed.
THEOREM EchoChangesNothingHolds == Spec => EchoChangesNothing
<1>1. IInv /\ [Next]_vars => EchoHarmless
    BY EchoStep, TypeParts DEF IInv
<1>2. IInv /\ [Next]_vars => [EchoHarmless]_vars
    BY <1>1
<1> QED
    BY <1>2, Invariance, PTL DEF Spec, EchoChangesNothing, EchoHarmless

\* What is still marked when an expunge ends was marked after it began.
EndCovered ==
    \A t \in Threads :
        pc[t] = "x_loop" /\ pc'[t] = "x_unlock"
        => marked \cap Known(folder[t]) \subseteq flagged[t]

\* An expunge ends when nothing is left to do.
LEMMA ExpungesStep == PcType /\ FrameTypes /\ Frames /\ ExpungeCovers /\
    [Next]_vars => EndCovered
<1> SUFFICES ASSUME PcType, FrameTypes, Frames, ExpungeCovers, [Next]_vars
       PROVE EndCovered
    OBVIOUS
<1> USE DEF PcType, EndCovered, Frames, Frame, RefreshSteps, OneMessage,
        ExpungeCovers, Covers, ExpungeSteps, Goto, Move, Finish, thread
<1>1. ASSUME NEW t \in Threads, Control(t) PROVE EndCovered
    BY <1>1 DEF Control, RefreshLock, ExpungeLock, MarkLock, FetchLock,
       RefreshUnlock, MarkUnlock, FetchUnlock, ExpungeUnlock, RefreshClear,
       RefreshSelect, EchoSelect, MarkSelect, FetchSelect, UpdateInbox,
       ProcessEnd, ExpungeEnd, FetchGet, Lock, Unlock, UnlockAndReturn,
       SelectDir
<1>2. ASSUME NEW t \in Threads, ListMessages(t) PROVE EndCovered
    BY <1>2 DEF ListMessages
<1>3. ASSUME NEW t \in Threads, ProcessMessage(t) PROVE EndCovered
    BY <1>3 DEF ProcessMessage
<1>4. ASSUME NEW t \in Threads, EchoWrite(t) \/ MarkWrite(t) PROVE EndCovered
    BY <1>4 DEF EchoWrite, MarkWrite, SetRead
<1>5. ASSUME NEW t \in Threads, DeleteOnPhone(t) PROVE EndCovered
    BY <1>5 DEF DeleteOnPhone
<1>6. ASSUME NEW t \in Threads, ApplyMessage(t) \/ RemoveMessage(t)
      PROVE  EndCovered
    BY <1>6 DEF ApplyMessage, RemoveMessage
<1>7. ASSUME NEW t \in Threads, Prune(t) PROVE EndCovered
    BY <1>7 DEF Prune
<1>8. ASSUME NEW t \in Threads, MarkLocally(t) PROVE EndCovered
    BY <1>8 DEF MarkLocally
<1>9. ASSUME NEW t \in Threads, SaveChanges(t) PROVE EndCovered
    BY <1>9 DEF SaveChanges, SaveToDb
<1>10. ASSUME NEW t \in Threads, ExpungeNext(t) PROVE EndCovered
    BY <1>10 DEF ExpungeNext
<1>11. ASSUME NEW t \in Threads, NEW f \in Folders, RefreshInfo(t, f) \/
            Expunge(t, f)
      PROVE  EndCovered
    BY <1>11 DEF RefreshInfo, Expunge, Begin
<1>12. ASSUME NEW t \in Threads, NEW m \in Messages, SetSeen(t, m) \/
            Fetch(t, m)
      PROVE  EndCovered
    BY <1>12 DEF SetSeen, Fetch, Begin
<1>13. ASSUME NEW f \in Folders, GetFolder(f) \/ SaveSummary(f)
      PROVE  EndCovered
    BY <1>13 DEF GetFolder, SaveSummary, SaveToDb, Event
<1>14. ASSUME NEW m \in Messages, SetDeleted(m) \/ NewMessage(m) \/
            HandsetChange(m)
      PROVE  EndCovered
    BY <1>14 DEF SetDeleted, NewMessage, HandsetChange, Event
<1>15. CASE Restart
    BY <1>15 DEF Restart
<1>16. CASE UNCHANGED vars
    BY <1>16 DEF vars
<1> QED
    BY <1>1, <1>2, <1>3, <1>4, <1>5, <1>6, <1>7, <1>8, <1>9, <1>10, <1>11,
       <1>12, <1>13, <1>14, <1>15, <1>16 DEF Next, Step, Control, Rest, Crash,
       ExpungeCrash

\* An expunge that gets to its end has removed every message that was marked
\* when it began.
THEOREM ExpungesAllHolds == Spec => ExpungesAll
<1>1. IInv /\ [Next]_vars => EndCovered
    BY ExpungesStep, TypeParts DEF IInv
<1>2. IInv /\ [Next]_vars => [EndCovered]_vars
    BY <1>1
<1> QED
    BY <1>2, Invariance, PTL DEF Spec, ExpungesAll, EndCovered

============================================================================
