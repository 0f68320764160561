--------------------------- MODULE MapConnection ---------------------------
(***************************************************************************)
(* The store's connection to the phone: connecting, disconnecting, the     *)
(* online flag, opening folders, the folder list, and what a refresh of a  *)
(* folder or the marking of a message does on a connection that comes and  *)
(* goes (camel/camel-map-store.c 188-323, 346-376, 469-499, 756-829,       *)
(* camel_map_folder_new and camel_map_folder_mark_message_read of          *)
(* camel/camel-map-folder.c).                                              *)
(*                                                                         *)
(* Connecting makes obexd create a session and selects the directory of    *)
(* the messages there.  session_path and map, the proxy of the session,    *)
(* are the store's; an opened folder takes a reference to the proxy the    *)
(* store had then.  Camel runs one connect or disconnect of a service at a *)
(* time, and connects only a service that is not connected.  Disconnecting *)
(* takes no lock that the operations take: it releases the proxy that      *)
(* another thread may have read and be about to use.                       *)
(* A session, and the path of it, is a number in the order of creation; a  *)
(* proxy is an object of a session.                                        *)
(***************************************************************************)
EXTENDS Naturals, FiniteSetsExt

CONSTANTS
    Threads,        \* the threads that call into the store and its folders
    Folders,        \* the folders of the store
    NoThread,       \* a lock that is free
    Null,           \* NULL: no path, no proxy
    Closed,         \* a folder that is not open
    RootDir,        \* the directory a new session begins in
    MsgDir,         \* "/telecom/msg"
    MaxSessions,    \* bound: sessions created
    MaxOps          \* bound: calls into the store and its folders

ASSUME NamesDistinct ==
    /\ NoThread \notin Threads
    /\ {RootDir, MsgDir} \cap Folders = {} /\ RootDir # MsgDir

ASSUME BoundsAreNat ==
    MaxSessions \in Nat /\ MaxOps \in Nat /\ Null \notin 1..MaxSessions /\ Closed # Null

VARIABLES
    pc,             \* where each thread is
    local,          \* what it has read, and history of its operation
    status,         \* Camel's connection status of the service
    connecting,     \* the thread that connects or disconnects it
    online,         \* the flag of CamelOfflineStore
    session_path, map,
    folder_lock,    \* the thread that holds current_folder_lock
    finfo_lock,     \* the thread that holds get_finfo_lock
    folder_map,     \* the proxy each open folder keeps
    live,           \* obexd: the session that works, if any
    dir,            \* the phone: current directory of that session
    sessions, ops   \* counters for the bounds

thread  == <<pc, local>>
service == <<status, connecting, online>>
locks   == <<folder_lock, finfo_lock>>
store   == <<session_path, map, folder_map>>
phone   == <<live, dir, sessions>>

vars == <<thread, service, locks, store, phone, ops>>

Sessions == 1..MaxSessions
Dirs     == Folders \cup {RootDir, MsgDir}

\* A proxy: its session, and a number for the objects of one session that are
\* in use at one time.
Proxies == [session : Sessions, object : 1..(1 + Cardinality(Folders \cup Threads))]

\* Threads and folders are finitely many, a thread is no folder, and NULL is no
\* object.
ASSUME FinitelyMany ==
    /\ IsFiniteSet(Threads) /\ IsFiniteSet(Folders)
    /\ Threads \cap Folders = {}
    /\ Null \notin Proxies

NoLocal == [folder |-> MsgDir, using |-> Null, path |-> Null,
            chosen |-> Null, calm |-> FALSE]

Init ==
    /\ pc = [t \in Threads |-> "idle"]
    /\ local = [t \in Threads |-> NoLocal]
    /\ status = "disconnected" /\ connecting = NoThread
    /\ online \in BOOLEAN
    /\ session_path = Null /\ map = Null
    /\ folder_lock = NoThread /\ finfo_lock = NoThread
    /\ folder_map = [f \in Folders |-> Closed]
    /\ live = Null /\ dir = RootDir
    /\ sessions = 0 /\ ops = 0

----------------------------------------------------------------------------
(* Steps of a thread, and calls through a proxy.                           *)

Goto(t, from, to) == pc[t] = from /\ pc' = [pc EXCEPT ![t] = to]

Return(t, from) ==
    /\ Goto(t, from, "idle")
    /\ local' = [local EXCEPT ![t] = NoLocal]

\* The process ends.
Die(t) ==
    /\ pc' = [pc EXCEPT ![t] = "dead"]
    /\ UNCHANGED <<local, service, locks, store, phone, ops>>

Lock(t, from, to) ==
    /\ folder_lock = NoThread
    /\ folder_lock' = t
    /\ Goto(t, from, to)
    /\ UNCHANGED <<service, finfo_lock, store, phone, ops>>

\* g_object_ref keeps the object that the store or a folder points to.
Held(p)     == p = map \/ \E f \in Folders : folder_map[f] = p
Released(p) == p # Null /\ ~Held(p)

\* A call through a proxy works only in the session that works, and may fail
\* there, too.  Through a released object it does the one, the other, or ends
\* the process.
Works(p) == p # Null /\ p.session = live

SetFolder(p, d) == Works(p) /\ dir' = d

InUse == {map} \cup {folder_map[f] : f \in Folders} \cup {local[t].using : t \in Threads}

\* An object that nobody points to is allocated.
NewProxy(s) ==
    [session |-> s,
     object  |-> Min({n \in 1..(1 + Cardinality(Folders \cup Threads)) :
                        [session |-> s, object |-> n] \notin InUse})]

Disconnecting == \E s \in Threads : pc[s] \in {"d_map", "d_path"}

\* A call begins.  It is calm while there is a proxy, and a folder with one,
\* and no disconnect overlaps it.
Begin(t, label, f, ready) ==
    /\ ops < MaxOps
    /\ ops' = ops + 1
    /\ Goto(t, "idle", label)
    /\ local' = [local EXCEPT ![t].folder = f,
                              ![t].calm = ready /\ map # Null /\ ~Disconnecting]

----------------------------------------------------------------------------
(* map_connect_sync.                                                       *)

\* Camel calls the function for a service that is not connected.
Connect(t) ==
    /\ status = "disconnected" /\ connecting = NoThread
    /\ connecting' = t
    /\ Begin(t, "c_start", MsgDir, TRUE)
    /\ UNCHANGED <<status, online, locks, store, phone>>

\* The function returns TRUE or FALSE, and Camel notes it.  The folder list,
\* which may have asked for the connection, goes on or gives up.
ConnectReturns(t, from, success) ==
    /\ status' = IF success THEN "connected" ELSE "disconnected"
    /\ connecting' = NoThread
    /\ \/ /\ success /\ finfo_lock = t
          /\ Goto(t, from, "i_lock")
          /\ UNCHANGED <<local, finfo_lock>>
       \/ /\ ~(success /\ finfo_lock = t)
          /\ Return(t, from)
          /\ finfo_lock' = IF finfo_lock = t THEN NoThread ELSE finfo_lock

AlreadyConnected(t) ==
    /\ session_path # Null
    /\ ConnectReturns(t, "c_start", TRUE)
    /\ UNCHANGED <<online, folder_lock, store, phone, ops>>

\* No connection to the bus, or no session.
ConnectFails(t) ==
    /\ session_path = Null
    /\ ConnectReturns(t, "c_start", FALSE)
    /\ UNCHANGED <<online, folder_lock, store, phone, ops>>

\* obexd has one session for a device and makes one when it has none.
CreateSession(t) ==
    /\ session_path = Null
    /\ Goto(t, "c_start", "c_proxy")
    /\ \/ /\ live # Null
          /\ session_path' = live
          /\ UNCHANGED phone
       \/ /\ live = Null
          /\ sessions < MaxSessions
          /\ sessions' = sessions + 1
          /\ session_path' = sessions + 1
          /\ live' = sessions + 1
          /\ dir' = RootDir
    /\ UNCHANGED <<local, service, locks, map, folder_map, ops>>

\* The proxy may be NULL, which nobody tests.
CreateProxies(t) ==
    /\ Goto(t, "c_proxy", "c_lock")
    /\ map' \in {NewProxy(session_path), Null}
    /\ UNCHANGED <<local, service, locks, session_path, folder_map, phone, ops>>

ConnectLock(t) == Lock(t, "c_lock", "c_select") /\ UNCHANGED local

\* Mutant of ConnectSelect: the connect that fails releases what it made.
ConnectSelectUndone(t) ==
    /\ \/ /\ Goto(t, "c_select", "c_list")
          /\ SetFolder(map, MsgDir)
          /\ UNCHANGED <<local, status, connecting, locks, store>>
       \/ /\ ConnectReturns(t, "c_select", FALSE)
          /\ folder_lock' = NoThread
          /\ map' = Null /\ session_path' = Null
          /\ UNCHANGED <<dir, folder_map>>
    /\ UNCHANGED <<online, live, sessions, ops>>

\* Mutant of ConnectSelect: the lock is not given back.
ConnectSelectLeavingLocked(t) ==
    /\ \/ /\ Goto(t, "c_select", "c_list")
          /\ SetFolder(map, MsgDir)
          /\ UNCHANGED <<local, status, connecting, locks>>
       \/ /\ ConnectReturns(t, "c_select", FALSE)
          /\ UNCHANGED <<dir, folder_lock>>
    /\ UNCHANGED <<online, store, live, sessions, ops>>

ConnectSelect(t) ==
    /\ \/ /\ Goto(t, "c_select", "c_list")
          /\ SetFolder(map, MsgDir)
          /\ UNCHANGED <<local, status, connecting, locks>>
       \/ /\ ConnectReturns(t, "c_select", FALSE)
          /\ folder_lock' = NoThread
          /\ UNCHANGED dir
    /\ UNCHANGED <<online, store, live, sessions, ops>>

\* The listing is only printed.  Only here is the store set online.
ConnectList(t) ==
    /\ \E success \in {FALSE, Works(map)} :
          /\ ConnectReturns(t, "c_list", success)
          /\ online' = (online \/ success)
    /\ folder_lock' = NoThread
    /\ UNCHANGED <<store, phone, ops>>

----------------------------------------------------------------------------
(* map_disconnect_sync.                                                    *)

Disconnect(t) ==
    /\ status = "connected" /\ connecting = NoThread
    /\ connecting' = t
    /\ ops < MaxOps /\ ops' = ops + 1
    /\ Goto(t, "idle", "d_map")
    /\ local' = [s \in Threads |-> [local[s] EXCEPT !.calm = FALSE]]
    /\ UNCHANGED <<status, online, locks, store, phone>>

\* Mutant of ForgetMap: the path goes first.
ForgetPathFirst(t) ==
    /\ Goto(t, "d_map", "d_path")
    /\ session_path' = Null
    /\ UNCHANGED <<local, service, locks, map, folder_map, phone, ops>>

ForgetMap(t) ==
    /\ Goto(t, "d_map", "d_path")
    /\ map' = Null
    /\ UNCHANGED <<local, service, locks, session_path, folder_map, phone, ops>>

\* Camel may disconnect the store because it goes offline.
ForgetPath(t) ==
    /\ Return(t, "d_path")
    /\ session_path' = Null
    /\ status' = "disconnected" /\ connecting' = NoThread
    /\ online' \in {online, FALSE}
    /\ UNCHANGED <<locks, map, folder_map, phone, ops>>

GoOnline ==
    /\ ~online /\ online' = TRUE
    /\ UNCHANGED <<thread, status, connecting, locks, store, phone, ops>>

----------------------------------------------------------------------------
(* map_get_folder_sync and map_get_folder_info_sync.                       *)

\* Camel opens a folder once; nothing asks whether the store is connected.
OpenFolder(t, f) ==
    /\ folder_map[f] = Closed
    /\ \A s \in Threads : local[s].folder # f
    /\ Begin(t, "o_lock", f, TRUE)
    /\ UNCHANGED <<service, locks, store, phone>>

\* The proxy is read, and the call begins.
OpenLock(t) ==
    /\ Lock(t, "o_lock", "o_select")
    /\ local' = [local EXCEPT ![t].using = map]

OpenSelect(t) ==
    /\ \/ /\ Goto(t, "o_select", "o_new")
          /\ SetFolder(local[t].using, local[t].folder)
          /\ local' = [local EXCEPT ![t].using = Null]
       \/ Return(t, "o_select") /\ UNCHANGED dir
    /\ folder_lock' = NoThread
    /\ UNCHANGED <<service, finfo_lock, store, live, sessions, ops>>

OpenDies(t) ==
    /\ pc[t] = "o_select" /\ Released(local[t].using)
    /\ Die(t)

\* The proxy is read again after the lock was given back ...
NewFolder(t) ==
    /\ Goto(t, "o_new", "o_ref")
    /\ local' = [local EXCEPT ![t].using = map]
    /\ UNCHANGED <<service, locks, store, phone, ops>>

\* Mutant of RefProxy: the directory is passed where the proxy belongs.
RefDir(t) ==
    /\ Return(t, "o_ref")
    /\ folder_map' = [folder_map EXCEPT ![local[t].folder] = local[t].folder]
    /\ UNCHANGED <<service, locks, session_path, map, phone, ops>>

\* ... and g_object_ref gives NULL for NULL and for an object released since.
RefProxy(t) ==
    /\ Return(t, "o_ref")
    /\ folder_map' = [folder_map EXCEPT ![local[t].folder] =
                          IF Released(local[t].using) THEN Null ELSE local[t].using]
    /\ UNCHANGED <<service, locks, session_path, map, phone, ops>>

RefDies(t) ==
    /\ pc[t] = "o_ref" /\ Released(local[t].using)
    /\ Die(t)

CloseFolder(f) ==
    /\ \A t \in Threads : local[t].folder # f
    /\ folder_map[f] # Closed
    /\ folder_map' = [folder_map EXCEPT ![f] = Closed]
    /\ UNCHANGED <<thread, service, locks, session_path, map, phone, ops>>

FolderInfo(t) ==
    /\ finfo_lock = NoThread
    /\ finfo_lock' = t
    /\ Begin(t, "i_start", MsgDir, TRUE)
    /\ UNCHANGED <<service, folder_lock, store, phone>>

FolderInfoOffline(t) ==
    /\ ~online
    /\ Return(t, "i_start")
    /\ finfo_lock' = NoThread
    /\ UNCHANGED <<service, folder_lock, store, phone, ops>>

\* What becomes of the flag from here on is not looked at.
FolderInfoOnline(t) ==
    /\ online
    /\ Goto(t, "i_start", "i_connect")
    /\ UNCHANGED <<local, service, locks, store, phone, ops>>

\* camel_service_connect_sync waits for a connect or disconnect that goes on,
\* and makes the connection unless there is one.
FolderInfoConnected(t) ==
    /\ status = "connected" /\ connecting = NoThread
    /\ Goto(t, "i_connect", "i_lock")
    /\ UNCHANGED <<local, service, locks, store, phone, ops>>

FolderInfoConnect(t) ==
    /\ status = "disconnected" /\ connecting = NoThread
    /\ Goto(t, "i_connect", "c_start")
    /\ connecting' = t
    /\ UNCHANGED <<local, status, online, locks, store, phone, ops>>

\* Mutant of FolderInfoLock: the hierarchy is read without the lock.
FolderInfoUnlocked(t) ==
    /\ Goto(t, "i_lock", "i_select")
    /\ local' = [local EXCEPT ![t].using = map]
    /\ UNCHANGED <<service, locks, store, phone, ops>>

FolderInfoLock(t) ==
    /\ Lock(t, "i_lock", "i_select")
    /\ local' = [local EXCEPT ![t].using = map]

\* One visit of module MapFolderTree's create_folder_hierarchy stands for all,
\* in the directory it ends in.
FolderInfoSelect(t) ==
    /\ Return(t, "i_select")
    /\ \/ \E d \in Folders \cup {MsgDir} : SetFolder(local[t].using, d)
       \/ UNCHANGED dir
    /\ folder_lock' = IF folder_lock = t THEN NoThread ELSE folder_lock
    /\ finfo_lock' = NoThread
    /\ UNCHANGED <<service, store, live, sessions, ops>>

FolderInfoDies(t) ==
    /\ pc[t] = "i_select" /\ Released(local[t].using)
    /\ Die(t)

----------------------------------------------------------------------------
(* map_refresh_info_sync as far as the connection goes; module             *)
(* MapFolderSync has the rest of it.                                       *)

\* The folder may be open with a NULL proxy.
Refresh(t, f) ==
    /\ folder_map[f] # Closed
    /\ Begin(t, "r_lock", f, folder_map[f] # Null)
    /\ UNCHANGED <<service, locks, store, phone>>

RefreshLock(t) ==
    /\ Lock(t, "r_lock", "r_update")
    /\ local' = [local EXCEPT ![t].using = map]

\* UpdateInbox: when the phone does not know it ("0x51"), all goes on.
UpdateInbox(t) ==
    /\ \/ /\ Goto(t, "r_update", "r_select")
          /\ Works(local[t].using)
          /\ local' = [local EXCEPT ![t].using = map]
       \/ /\ Goto(t, "r_update", "r_unlock")
          /\ local' = [local EXCEPT ![t].using = Null]
    /\ UNCHANGED <<service, locks, store, phone, ops>>

\* A call through NULL, or an object no longer alive, sets no error, whose
\* message is read when the caller passed a place for one.
UpdateInboxDies(t) ==
    /\ pc[t] = "r_update"
    /\ local[t].using = Null \/ Released(local[t].using)
    /\ Die(t)

\* The directory is selected with the store's proxy ...
RefreshSelect(t) ==
    /\ \/ /\ Goto(t, "r_select", "r_list")
          /\ SetFolder(local[t].using, MsgDir)
          /\ local' = [local EXCEPT ![t].using = Null,
                                    ![t].chosen = local[t].using.session]
       \/ /\ Goto(t, "r_select", "r_unlock")
          /\ local' = [local EXCEPT ![t].using = Null]
          /\ UNCHANGED dir
    /\ UNCHANGED <<service, locks, store, live, sessions, ops>>

RefreshDies(t) ==
    /\ pc[t] = "r_select" /\ Released(local[t].using)
    /\ Die(t)

\* ... and the listing asked for with the folder's own.
RefreshList(t) ==
    /\ \/ Goto(t, "r_list", "r_process") /\ Works(folder_map[local[t].folder])
       \/ Goto(t, "r_list", "r_unlock")
    /\ UNCHANGED <<local, service, locks, store, phone, ops>>

RefreshProcess(t) ==
    /\ Goto(t, "r_process", "r_unlock")
    /\ UNCHANGED <<local, service, locks, store, phone, ops>>

RefreshUnlock(t) ==
    /\ Return(t, "r_unlock")
    /\ folder_lock' = NoThread
    /\ UNCHANGED <<service, finfo_lock, store, phone, ops>>

----------------------------------------------------------------------------
(* camel_map_folder_mark_message_read: the object path of the message is   *)
(* built from session_path, the directory selected with the store's proxy  *)
(* and the message written to with the folder's.                           *)

Mark(t, f) ==
    /\ folder_map[f] # Closed
    /\ Begin(t, "m_lock", f, folder_map[f] # Null)
    /\ UNCHANGED <<service, locks, store, phone>>

MarkLock(t) == Lock(t, "m_lock", "m_path") /\ UNCHANGED local

\* A disconnect that is about to free the path may do so under the read: what
\* is read then is no path.
MarkPath(t) ==
    /\ Goto(t, "m_path", "m_ask")
    /\ \E p \in {session_path} \cup {Null : s \in {s \in Threads : pc[s] = "d_path"}} :
          local' = [local EXCEPT ![t].path = p]
    /\ UNCHANGED <<service, locks, store, phone, ops>>

MarkPathDies(t) ==
    /\ pc[t] = "m_path" /\ \E s \in Threads : pc[s] = "d_path"
    /\ Die(t)

MarkAsk(t) ==
    /\ Goto(t, "m_ask", "m_select")
    /\ local' = [local EXCEPT ![t].using = map]
    /\ UNCHANGED <<service, locks, store, phone, ops>>

MarkSelect(t) ==
    /\ \/ /\ Goto(t, "m_select", "m_write")
          /\ SetFolder(local[t].using, local[t].folder)
          /\ local' = [local EXCEPT ![t].using = Null,
                                    ![t].chosen = local[t].using.session]
       \/ /\ Goto(t, "m_select", "m_unlock")
          /\ local' = [local EXCEPT ![t].using = Null]
          /\ UNCHANGED dir
    /\ UNCHANGED <<service, locks, store, live, sessions, ops>>

MarkSelectDies(t) ==
    /\ pc[t] = "m_select" /\ Released(local[t].using)
    /\ Die(t)

\* Mutant of MarkWrite: the path is read when it is needed.
MarkWriteLatePath(t) ==
    /\ \/ /\ Goto(t, "m_write", "m_written")
          /\ session_path # Null /\ session_path = live
          /\ folder_map[local[t].folder] # Null
       \/ Goto(t, "m_write", "m_unlock")
    /\ UNCHANGED <<local, service, locks, store, phone, ops>>

\* The folder's proxy serves for its connection to the bus only.
MarkWrite(t) ==
    /\ \/ /\ Goto(t, "m_write", "m_written")
          /\ local[t].path # Null /\ local[t].path = live
          /\ folder_map[local[t].folder] # Null
       \/ Goto(t, "m_write", "m_unlock")
    /\ UNCHANGED <<local, service, locks, store, phone, ops>>

\* Without a connection or a path there is no proxy of the message, and no
\* error either, whose message is printed.
MarkWriteDies(t) ==
    /\ pc[t] = "m_write"
    /\ local[t].path = Null \/ folder_map[local[t].folder] = Null
    /\ Die(t)

MarkUnlock(t) ==
    /\ Return(t, "m_unlock") \/ Return(t, "m_written")
    /\ folder_lock' = NoThread
    /\ UNCHANGED <<service, finfo_lock, store, phone, ops>>

----------------------------------------------------------------------------
\* The phone goes out of reach, and obexd drops the session.
Drop ==
    /\ live # Null
    /\ live' = Null
    /\ UNCHANGED <<thread, service, locks, store, dir, sessions, ops>>

\* The process ends, which ends its session, and another one begins.
Restart ==
    /\ pc' = [t \in Threads |-> "idle"]
    /\ local' = [t \in Threads |-> NoLocal]
    /\ status' = "disconnected" /\ connecting' = NoThread
    /\ online' \in BOOLEAN
    /\ session_path' = Null /\ map' = Null
    /\ folder_lock' = NoThread /\ finfo_lock' = NoThread
    /\ folder_map' = [f \in Folders |-> Closed]
    /\ live' = Null
    /\ UNCHANGED <<dir, sessions, ops>>

\* A call begins.
Call(t) ==
    \/ Connect(t) \/ Disconnect(t) \/ FolderInfo(t)
    \/ \E f \in Folders : OpenFolder(t, f) \/ Refresh(t, f) \/ Mark(t, f)

\* A call that has begun goes on.
Step(t) ==
    \/ AlreadyConnected(t) \/ ConnectFails(t) \/ CreateSession(t)
    \/ CreateProxies(t) \/ ConnectLock(t) \/ ConnectSelect(t) \/ ConnectList(t)
    \/ ForgetMap(t) \/ ForgetPath(t)
    \/ OpenLock(t) \/ OpenSelect(t) \/ OpenDies(t)
    \/ NewFolder(t) \/ RefProxy(t) \/ RefDies(t)
    \/ FolderInfoOffline(t) \/ FolderInfoOnline(t)
    \/ FolderInfoConnected(t) \/ FolderInfoConnect(t)
    \/ FolderInfoLock(t) \/ FolderInfoSelect(t) \/ FolderInfoDies(t)
    \/ RefreshLock(t) \/ UpdateInbox(t) \/ UpdateInboxDies(t)
    \/ RefreshSelect(t) \/ RefreshDies(t) \/ RefreshList(t)
    \/ RefreshProcess(t) \/ RefreshUnlock(t)
    \/ MarkLock(t) \/ MarkPath(t) \/ MarkPathDies(t) \/ MarkAsk(t)
    \/ MarkSelect(t) \/ MarkSelectDies(t)
    \/ MarkWrite(t) \/ MarkWriteDies(t) \/ MarkUnlock(t)

Alive == \A t \in Threads : pc[t] # "dead"

Next ==
    \/ Alive /\ \E t \in Threads : Call(t) \/ Step(t)
    \/ Alive /\ \E f \in Folders : CloseFolder(f)
    \/ Alive /\ GoOnline
    \/ Drop
    \/ Restart

Spec == Init /\ [][Next]_vars

\* Threads run, and the calls to obexd have timeouts.
Fairness == \A t \in Threads : WF_vars(Alive /\ Step(t))

FairSpec == Spec /\ Fairness

----------------------------------------------------------------------------
(* Properties.                                                             *)

\* Type correctness of the whole state.
TypeOK ==
    /\ pc \in [Threads -> {"idle", "dead", "c_start", "c_proxy", "c_lock",
                           "c_select", "c_list", "d_map", "d_path", "o_lock",
                           "o_select", "o_new", "o_ref", "i_start",
                           "i_connect", "i_lock", "i_select", "r_lock",
                           "r_update", "r_select", "r_list", "r_process",
                           "r_unlock", "m_lock", "m_path", "m_ask", "m_select",
                           "m_write", "m_written", "m_unlock"}]
    /\ local \in [Threads ->
          [folder : Folders \cup {MsgDir}, using : Proxies \cup {Null},
           path : Sessions \cup {Null}, chosen : Sessions \cup {Null},
           calm : BOOLEAN]]
    /\ status \in {"connected", "disconnected"} /\ online \in BOOLEAN
    /\ {connecting, folder_lock, finfo_lock} \subseteq Threads \cup {NoThread}
    /\ {session_path, live} \subseteq Sessions \cup {Null}
    /\ map \in Proxies \cup {Null}
    /\ folder_map \in [Folders -> Proxies \cup {Null, Closed}]
    /\ dir \in Dirs
    /\ sessions \in 0..MaxSessions /\ ops \in 0..MaxOps

\* While a proxy can be read, the path that message paths are built from is
\* that of the proxy's session: over connects that fail half-way, reconnects
\* and disconnects that race an operation.
PathMatchesProxy == map # Null => map.session = session_path

\* A refresh whose listing succeeds lists "/telecom/msg" in the session where
\* it selected that, although it selects with one proxy and lists with another:
\* a folder opened in an earlier session gets no listing at all.
ListsSelected ==
    [][\A t \in Threads :
          pc[t] = "r_list" /\ pc'[t] = "r_process"
          => local[t].chosen = live /\ dir = MsgDir]_vars

\* A message is marked in the session where the folder was selected, and with
\* that folder selected, although its path is built before, from what a
\* disconnect and a connect may have changed when the selection is made.
MarksSelected ==
    [][\A t \in Threads :
          pc[t] = "m_write" /\ pc'[t] = "m_written"
          => local[t].chosen = live /\ dir = local[t].folder]_vars

\* The proxy and the path that a disconnect releases without the operations'
\* lock, and the NULL ones before a connect, are the only ones that end the
\* process: no call does that began with a proxy and that no disconnect
\* overlapped, whatever fails on the phone, and whichever connects fail.
CalmCallsSurvive ==
    \A t \in Threads : pc[t] = "dead" => ~local[t].calm

\* Every call returns: the folder list, which holds get_finfo_lock while it
\* connects, which takes the folder lock, and every failure on the way leave
\* nobody waiting.
CallsReturn ==
    \A t \in Threads : pc[t] # "idle" ~> pc[t] = "idle" \/ ~Alive

\* "Already connected" (camel-map-store.c:201): when the function answers so,
\* the store has a proxy.
AlreadyHasProxy ==
    \A t \in Threads :
        pc[t] = "c_start" /\ session_path # Null => map # Null

============================================================================
