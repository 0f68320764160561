------------------------ MODULE MapConnectionProofs --------------------------
(***************************************************************************)
(* For any finite sets of threads and folders and any bounds, the safety   *)
(* properties of MapConnection: which proxy and path a call can meet, that *)
(* no call without a disconnect ends the process, and that what a refresh  *)
(* lists and what is marked was selected in the same session.              *)
(***************************************************************************)
EXTENDS MapConnection, FiniteSetTheorems, WellFoundedInduction, TLAPS

\* The steps between taking and giving back current_folder_lock.
LockedSteps == {"c_select", "c_list", "o_select", "i_select", "r_update",
                "r_select", "r_list", "r_process", "r_unlock", "m_path", "m_ask",
                "m_select", "m_write", "m_written", "m_unlock"}

\* The steps of a connect or a disconnect.
ServiceSteps == {"c_start", "c_proxy", "c_lock", "c_select", "c_list",
                 "d_map", "d_path"}

\* The steps of a call that opens a folder, and of one that uses an open one.
OpenSteps == {"o_lock", "o_select", "o_new", "o_ref"}
UseSteps  == {"r_lock", "r_update", "r_select", "r_list", "r_process", "r_unlock",
              "m_lock", "m_path", "m_ask", "m_select", "m_write", "m_written",
              "m_unlock"}

\* The steps between reading a proxy and the call through it.
HoldSteps == {"o_select", "o_ref", "i_select", "r_update", "r_select", "m_select"}

\* The folder lock is held by the thread that is between its lock and unlock.
LockHeld == \A t \in Threads : pc[t] \in LockedSteps => folder_lock = t

\* One thread at a time connects or disconnects.
OneConnects == \A t \in Threads : pc[t] \in ServiceSteps => connecting = t

\* A connect that has a session and a disconnect that has dropped the proxy
\* find no proxy.
NoProxyYet ==
    \A t \in Threads :
        /\ pc[t] \in {"c_proxy", "d_path"} => map = Null
        /\ pc[t] = "c_proxy" => session_path # Null

\* Every session a path or a proxy is of was created.
Created(n) == n \in 1..sessions

\* ... all of them.
AllCreated ==
    /\ sessions \in 0..MaxSessions
    /\ map # Null => Created(map.session)
    /\ session_path # Null => Created(session_path)
    /\ live # Null => Created(live)
    /\ \A f \in Folders :
          folder_map[f] \notin {Null, Closed} => Created(folder_map[f].session)
    /\ \A t \in Threads :
          /\ local[t].using # Null => Created(local[t].using.session)
          /\ local[t].path # Null => Created(local[t].path)

\* A folder that is being opened is closed and is nobody else's; a folder that
\* is used is open.
OpenedOnce ==
    \A t \in Threads :
        /\ pc[t] \in OpenSteps =>
              /\ local[t].folder \in Folders
              /\ folder_map[local[t].folder] = Closed
              /\ \A s \in Threads \ {t} : local[s].folder # local[t].folder
        /\ pc[t] \in UseSteps =>
              /\ local[t].folder \in Folders
              /\ folder_map[local[t].folder] # Closed

\* A call that began with a proxy, and that no disconnect overlaps, meets it.
CalmMeetsProxy ==
    \A t \in Threads : local[t].calm =>
        /\ map # Null /\ ~Disconnecting /\ pc[t] # "dead"
        /\ pc[t] \in HoldSteps => local[t].using = map
        /\ pc[t] \in {"m_ask", "m_select", "m_write"} => local[t].path # Null
        /\ pc[t] \in UseSteps => folder_map[local[t].folder] # Null

\* Whoever is about to list or to mark in the session that works has selected
\* its directory there.
Selected ==
    \A t \in Threads :
        /\ pc[t] = "r_list" /\ Works(folder_map[local[t].folder])
           => local[t].chosen = live /\ dir = MsgDir
        /\ pc[t] = "m_write" /\ local[t].path # Null /\ local[t].path = live
           => local[t].chosen = live /\ dir = local[t].folder

\* Only a thread between reading a proxy and its call keeps one.
UsesOne ==
    \A t \in Threads : pc[t] \notin HoldSteps \cup {"dead"} => local[t].using = Null

\* The inductive invariant.
IInv ==
    /\ TypeOK /\ LockHeld /\ OneConnects /\ NoProxyYet /\ PathMatchesProxy
    /\ AllCreated /\ OpenedOnce /\ CalmMeetsProxy /\ Selected /\ UsesOne

----------------------------------------------------------------------------
(* The threads, and their types.                                           *)

\* The steps that end the process.
Dying(t) ==
    \/ OpenDies(t) \/ RefDies(t) \/ FolderInfoDies(t) \/ UpdateInboxDies(t)
    \/ RefreshDies(t) \/ MarkPathDies(t) \/ MarkSelectDies(t) \/ MarkWriteDies(t)

\* Where a thread can be.
Labels == {"idle", "dead"} \cup ServiceSteps \cup LockedSteps \cup OpenSteps
          \cup UseSteps \cup {"i_start", "i_connect", "i_lock", "i_select"}

\* Type correctness in parts.
PcType == pc \in [Threads -> Labels]

\* What a thread can have read.
Locals == [folder : Folders \cup {MsgDir}, using : Proxies \cup {Null},
           path : Sessions \cup {Null}, chosen : Sessions \cup {Null},
           calm : BOOLEAN]

\* ... each of the threads.
LocalTypes == local \in [Threads -> Locals]

\* The service and the locks.
ServiceTypes ==
    /\ status \in {"connected", "disconnected"} /\ online \in BOOLEAN
    /\ connecting \in Threads \cup {NoThread}
    /\ folder_lock \in Threads \cup {NoThread}
    /\ finfo_lock \in Threads \cup {NoThread}

\* The paths, the proxies, the session and the bounds.
StoreTypes ==
    /\ session_path \in Sessions \cup {Null}
    /\ live \in Sessions \cup {Null}
    /\ map \in Proxies \cup {Null}
    /\ folder_map \in [Folders -> Proxies \cup {Null, Closed}]
    /\ dir \in Dirs
    /\ sessions \in 0..MaxSessions /\ ops \in 0..MaxOps

\* TypeOK says all four.
LEMMA TypeParts == TypeOK <=> PcType /\ LocalTypes /\ ServiceTypes /\ StoreTypes
BY DEF TypeOK, PcType, Labels, ServiceSteps, LockedSteps, OpenSteps, UseSteps,
   LocalTypes, Locals, ServiceTypes, StoreTypes

\* What changes of the local variables of a thread keep their types.
LEMMA LocalFields ==
  /\ NoLocal \in Locals
  /\ \A l \in Locals : l.using \in Proxies \cup {Null} /\ l.folder \in Folders \cup {MsgDir}
  /\ \A l \in Locals, p \in Proxies \cup {Null} : [l EXCEPT !.using = p] \in Locals
  /\ \A l \in Locals, p \in Sessions \cup {Null} : [l EXCEPT !.path = p] \in Locals
  /\ \A l \in Locals : [l EXCEPT !.calm = FALSE] \in Locals
  /\ \A l \in Locals, f \in Folders \cup {MsgDir}, b \in BOOLEAN :
        [l EXCEPT !.folder = f, !.calm = b] \in Locals
  /\ \A l \in Locals, s \in Sessions :
        [l EXCEPT !.using = Null, !.chosen = s] \in Locals
<1>1. NoLocal \in Locals
    BY DEF NoLocal, Locals
<1>2. \A l \in Locals : l.using \in Proxies \cup {Null} /\ l.folder \in Folders \cup {MsgDir}
    BY DEF Locals
<1>3. \A l \in Locals, p \in Proxies \cup {Null} : [l EXCEPT !.using = p] \in Locals
    BY DEF Locals
<1>4. \A l \in Locals, p \in Sessions \cup {Null} : [l EXCEPT !.path = p] \in Locals
    BY DEF Locals
<1>5. \A l \in Locals : [l EXCEPT !.calm = FALSE] \in Locals
    BY DEF Locals
<1>6. \A l \in Locals, f \in Folders \cup {MsgDir}, b \in BOOLEAN :
        [l EXCEPT !.folder = f, !.calm = b] \in Locals
    BY DEF Locals
<1>7. \A l \in Locals, s \in Sessions :
        [l EXCEPT !.using = Null, !.chosen = s] \in Locals
    BY DEF Locals
<1> QED
    BY <1>1, <1>2, <1>3, <1>4, <1>5, <1>6, <1>7

\* One thread changes its own.
LEMMA LocalSet ==
  ASSUME LocalTypes, NEW t \in Threads, NEW l \in Locals,
         local' = [local EXCEPT ![t] = l]
  PROVE  LocalTypes'
BY DEF LocalTypes

\* A call begins with the folder it is about.
LEMMA BeginTypes ==
  ASSUME LocalTypes, NEW t \in Threads, NEW label, NEW f \in Folders \cup {MsgDir},
         NEW ready \in BOOLEAN, Begin(t, label, f, ready)
  PROVE  LocalTypes'
<1> DEFINE calm == ready /\ map # Null /\ ~Disconnecting
           l == [local[t] EXCEPT !.folder = f, !.calm = calm]
<1>1. l \in Locals
    BY LocalFields DEF LocalTypes
<1>2. local' = [local EXCEPT ![t] = l]
    BY DEF Begin
<1> HIDE DEF l
<1> QED
    BY <1>1, <1>2, LocalSet

\* The other threads stay where they are, with what they have.
OthersSame(t) ==
    \A s \in Threads \ {t} : pc'[s] = pc[s] /\ local'[s] = local[s]

\* Begin moves an idle thread, which keeps what it has but for the folder.
LEMMA BeginEffect ==
  ASSUME PcType, LocalTypes, NEW t \in Threads, NEW label,
         NEW f \in Folders \cup {MsgDir}, NEW ready, Begin(t, label, f, ready)
  PROVE  /\ pc[t] = "idle" /\ pc'[t] = label
         /\ local'[t].folder = f /\ local'[t].using = local[t].using
         /\ local'[t].path = local[t].path /\ local'[t].chosen = local[t].chosen
         /\ local'[t].calm => map # Null /\ ~Disconnecting /\ ready
         /\ OthersSame(t)
BY DEF Begin, Goto, PcType, LocalTypes, Locals, OthersSame

\* Return gives up what the operation had read.
LEMMA ReturnEffect ==
  ASSUME PcType, LocalTypes, NEW t \in Threads, NEW from, Return(t, from)
  PROVE  /\ pc[t] = from /\ pc'[t] = "idle" /\ local'[t] = NoLocal
         /\ OthersSame(t)
BY DEF Return, Goto, PcType, LocalTypes, OthersSame

\* Connecting and the folder list are about no folder.
LEMMA NoFolderEffect ==
  ASSUME PcType, LocalTypes, NEW t \in Threads, Connect(t) \/ FolderInfo(t)
  PROVE  /\ pc'[t] \in {"c_start", "i_start"} /\ local'[t].folder = MsgDir
         /\ folder_map' = folder_map /\ OthersSame(t)
<1>1. MsgDir \in Folders \cup {MsgDir}
    OBVIOUS
<1>2. CASE Connect(t)
    BY <1>1, <1>2, BeginEffect DEF Connect, store
<1>3. CASE FolderInfo(t)
    BY <1>1, <1>3, BeginEffect DEF FolderInfo, store
<1> QED
    BY <1>2, <1>3

\* Something that has a smallest member has the Min of it.
LEMMA MinIsMember ==
  ASSUME NEW S \in SUBSET Nat, S # {}
  PROVE  Min(S) \in S
<1>1. PICK x \in S : \A y \in S : <<y, x>> \notin OpToRel(<, Nat)
    BY WFMin, NatLessThanWellFounded
<1>2. \A y \in S : ~(y < x)
  <2> SUFFICES ASSUME NEW y \in S, y < x
               PROVE  FALSE
      OBVIOUS
  <2>1. <<y, x>> \in {p \in Nat \X Nat : p[1] < p[2]}
      OBVIOUS
  <2> QED
      BY <1>1, <2>1 DEF OpToRel
<1>3. \A y \in S : x =< y
    BY <1>2
<1> QED
    BY <1>3 DEF Min

\* While the store has no proxy, and the thread that makes one holds none,
\* there is an object that nobody points to: the others are fewer.
LEMMA NewObject ==
  ASSUME NEW s \in Sessions, NEW t \in Threads,
         map = Null, local[t].using = Null
  PROVE  NewProxy(s) \in Proxies
<1> DEFINE owners == Folders \cup Threads
           N      == 1 + Cardinality(owners)
           proxy(n)   == [session |-> s, object |-> n]
           Owns(o, n) == \/ o \in Folders /\ folder_map[o] = proxy(n)
                         \/ o \in Threads /\ local[o].using = proxy(n)
           free   == {n \in 1..N : proxy(n) \notin InUse}
<1>1. /\ IsFiniteSet(owners) /\ Cardinality(owners) \in Nat
      /\ IsFiniteSet(1..N) /\ Cardinality(1..N) = N
  <2>1. IsFiniteSet(owners)
      BY FinitelyMany, FS_Union
  <2>2. Cardinality(owners) \in Nat
      BY <2>1, FS_CardinalityType
  <2>3. 1 \in Int /\ N \in Int /\ ~(1 > N)
      BY <2>2
  <2>4. IsFiniteSet(1..N) /\ Cardinality(1..N) = N - 1 + 1
      BY <2>3, FS_Interval
  <2> QED
      BY <2>1, <2>2, <2>4
<1>2. free # {}
  <2> SUFFICES ASSUME \A n \in 1..N : proxy(n) \in InUse
               PROVE  FALSE
      OBVIOUS
  <2> DEFINE f == [n \in 1..N |-> CHOOSE o \in owners : Owns(o, n)]
  <2>1. \A n \in 1..N : f[n] \in owners /\ Owns(f[n], n)
    <3> SUFFICES ASSUME NEW n \in 1..N
                 PROVE  \E o \in owners : Owns(o, n)
        OBVIOUS
    <3>1. proxy(n) \in Proxies
        BY DEF Proxies
    <3>2. proxy(n) # Null
        BY <3>1, FinitelyMany
    <3>3. proxy(n) \in InUse
        OBVIOUS
    <3> HIDE DEF proxy
    <3> QED
        BY <3>2, <3>3 DEF InUse
  <2>2. f \in [1..N -> owners] /\ Cardinality(owners) < Cardinality(1..N)
    <3>1. f \in [1..N -> owners]
        BY <2>1
    <3> HIDE DEF owners
    <3> QED
        BY <1>1, <3>1
  <2>3. PICK x, y \in 1..N : x # y /\ f[x] = f[y]
    <3> HIDE DEF f, owners, N
    <3> QED
        BY <1>1, <2>2, FS_PigeonHole
  <2>4. Owns(f[x], x) /\ Owns(f[x], y)
      BY <2>1, <2>3
  <2>5. proxy(x) = proxy(y)
    <3> HIDE DEF f, proxy
    <3> QED
        BY <2>4, FinitelyMany
  <2> QED
      BY <2>3, <2>5
<1>3. free \in SUBSET Nat
    OBVIOUS
<1>4. Min(free) \in 1..N
    BY <1>2, <1>3, MinIsMember
<1> QED
    BY <1>4 DEF NewProxy, Proxies

----------------------------------------------------------------------------
(* Types.                                                                  *)

\* A thread is always at one of the labels.
LEMMA PcStep == PcType /\ [Next]_vars => PcType'
<1> SUFFICES ASSUME PcType, [Next]_vars
             PROVE  PcType'
    OBVIOUS
<1> USE DEF PcType, Labels, ServiceSteps, LockedSteps, OpenSteps, UseSteps,
        Goto, thread, service, locks, store, phone
<1>1. ASSUME NEW t \in Threads, Connect(t) \/ FolderInfo(t) PROVE PcType'
    BY <1>1 DEF Connect, FolderInfo, Begin
<1>2. ASSUME NEW t \in Threads, Disconnect(t) PROVE PcType'
    BY <1>2 DEF Disconnect
<1>3. ASSUME NEW t \in Threads, NEW f \in Folders, OpenFolder(t, f)
      PROVE  PcType'
    BY <1>3 DEF OpenFolder, Begin
<1>4. ASSUME NEW t \in Threads, NEW f \in Folders, Refresh(t, f) \/ Mark(t, f)
      PROVE  PcType'
    BY <1>4 DEF Refresh, Mark, Begin
<1>5. ASSUME NEW t \in Threads, AlreadyConnected(t) \/ ConnectFails(t)
      PROVE  PcType'
    BY <1>5 DEF AlreadyConnected, ConnectFails, ConnectReturns, Return
<1>6. ASSUME NEW t \in Threads, CreateSession(t) PROVE PcType'
    BY <1>6 DEF CreateSession
<1>7. ASSUME NEW t \in Threads, CreateProxies(t) PROVE PcType'
    BY <1>7 DEF CreateProxies
<1>8. ASSUME NEW t \in Threads, ConnectLock(t) \/ MarkLock(t) PROVE PcType'
    BY <1>8 DEF ConnectLock, MarkLock, Lock
<1>9. ASSUME NEW t \in Threads, ConnectSelect(t) PROVE PcType'
    BY <1>9 DEF ConnectSelect, SetFolder, ConnectReturns, Return
<1>10. ASSUME NEW t \in Threads, ConnectList(t) PROVE PcType'
    BY <1>10 DEF ConnectList, ConnectReturns, Return
<1>11. ASSUME NEW t \in Threads, ForgetMap(t) PROVE PcType'
    BY <1>11 DEF ForgetMap
<1>12. ASSUME NEW t \in Threads, ForgetPath(t) PROVE PcType'
    BY <1>12 DEF ForgetPath, Return
<1>13. ASSUME NEW t \in Threads, OpenLock(t) \/ RefreshLock(t) \/
            FolderInfoLock(t)
      PROVE  PcType'
    BY <1>13 DEF OpenLock, RefreshLock, FolderInfoLock, Lock
<1>14. ASSUME NEW t \in Threads, OpenSelect(t) PROVE PcType'
    BY <1>14 DEF OpenSelect, SetFolder, Return
<1>15. ASSUME NEW t \in Threads, Dying(t) PROVE PcType'
    BY <1>15 DEF Dying, OpenDies, RefDies, FolderInfoDies, UpdateInboxDies,
       RefreshDies, MarkPathDies, MarkSelectDies, MarkWriteDies, Die
<1>16. ASSUME NEW t \in Threads, NewFolder(t) \/ MarkAsk(t) PROVE PcType'
    BY <1>16 DEF NewFolder, MarkAsk
<1>17. ASSUME NEW t \in Threads, RefProxy(t) PROVE PcType'
    BY <1>17 DEF RefProxy, Return
<1>18. ASSUME NEW t \in Threads, FolderInfoOffline(t) \/ FolderInfoOnline(t) \/
            FolderInfoConnected(t) \/ FolderInfoConnect(t)
      PROVE  PcType'
    BY <1>18 DEF FolderInfoOffline, FolderInfoOnline, FolderInfoConnected,
       FolderInfoConnect, Return
<1>19. ASSUME NEW t \in Threads, FolderInfoSelect(t) PROVE PcType'
    BY <1>19 DEF FolderInfoSelect, SetFolder, Return
<1>20. ASSUME NEW t \in Threads, UpdateInbox(t) PROVE PcType'
    BY <1>20 DEF UpdateInbox
<1>21. ASSUME NEW t \in Threads, RefreshSelect(t) \/ MarkSelect(t)
      PROVE  PcType'
    BY <1>21 DEF RefreshSelect, MarkSelect, SetFolder
<1>22. ASSUME NEW t \in Threads, RefreshList(t) \/ RefreshProcess(t) \/
            MarkWrite(t)
      PROVE  PcType'
    BY <1>22 DEF RefreshList, RefreshProcess, MarkWrite
<1>23. ASSUME NEW t \in Threads, RefreshUnlock(t) \/ MarkUnlock(t)
      PROVE  PcType'
    BY <1>23 DEF RefreshUnlock, MarkUnlock, Return
<1>24. ASSUME NEW t \in Threads, MarkPath(t) PROVE PcType'
    BY <1>24 DEF MarkPath
<1>25. ASSUME NEW f \in Folders, CloseFolder(f) PROVE PcType'
    BY <1>25 DEF CloseFolder
<1>26. CASE GoOnline \/ Drop
    BY <1>26 DEF GoOnline, Drop
<1>27. CASE Restart
    BY <1>27 DEF Restart
<1>28. CASE UNCHANGED vars
    BY <1>28 DEF vars
<1> QED
    BY <1>1, <1>2, <1>3, <1>4, <1>5, <1>6, <1>7, <1>8, <1>9, <1>10, <1>11,
       <1>12, <1>13, <1>14, <1>15, <1>16, <1>17, <1>18, <1>19, <1>20, <1>21,
       <1>22, <1>23, <1>24, <1>25, <1>26, <1>27, <1>28 DEF Next, Call, Step,
       Dying

\* The local variables of a thread keep their types.
LEMMA LocalStep == LocalTypes /\ StoreTypes /\ [Next]_vars => LocalTypes'
<1> SUFFICES ASSUME LocalTypes, StoreTypes, [Next]_vars
             PROVE  LocalTypes'
    OBVIOUS
<1> USE LocalFields DEF LocalTypes, Works, Goto, thread, service, locks,
        store, phone
<1>1. ASSUME NEW t \in Threads, Connect(t) \/ FolderInfo(t) PROVE LocalTypes'
    BY <1>1, BeginTypes DEF Connect, FolderInfo
<1>2. ASSUME NEW t \in Threads, Disconnect(t) PROVE LocalTypes'
    BY <1>2 DEF Disconnect
<1>3. ASSUME NEW t \in Threads, NEW f \in Folders, OpenFolder(t, f)
      PROVE  LocalTypes'
    BY <1>3, BeginTypes DEF OpenFolder
<1>4. ASSUME NEW t \in Threads, NEW f \in Folders, Refresh(t, f) \/ Mark(t, f)
      PROVE  LocalTypes'
  <2>1. (folder_map[f] # Null) \in BOOLEAN
      OBVIOUS
  <2> QED
      BY <1>4, <2>1, BeginTypes DEF Refresh, Mark
<1>5. ASSUME NEW t \in Threads, AlreadyConnected(t) \/ ConnectFails(t)
      PROVE  LocalTypes'
    BY <1>5 DEF AlreadyConnected, ConnectFails, ConnectReturns, Return
<1>6. ASSUME NEW t \in Threads, CreateSession(t) PROVE LocalTypes'
    BY <1>6 DEF CreateSession
<1>7. ASSUME NEW t \in Threads, CreateProxies(t) PROVE LocalTypes'
    BY <1>7 DEF CreateProxies
<1>8. ASSUME NEW t \in Threads, ConnectLock(t) \/ MarkLock(t)
      PROVE  LocalTypes'
    BY <1>8 DEF ConnectLock, MarkLock, Lock
<1>9. ASSUME NEW t \in Threads, ConnectSelect(t) PROVE LocalTypes'
    BY <1>9 DEF ConnectSelect, SetFolder, ConnectReturns, Return
<1>10. ASSUME NEW t \in Threads, ConnectList(t) PROVE LocalTypes'
    BY <1>10 DEF ConnectList, ConnectReturns, Return
<1>11. ASSUME NEW t \in Threads, ForgetMap(t) PROVE LocalTypes'
    BY <1>11 DEF ForgetMap
<1>12. ASSUME NEW t \in Threads, ForgetPath(t) PROVE LocalTypes'
    BY <1>12 DEF ForgetPath, Return
<1>13. ASSUME NEW t \in Threads, OpenLock(t) \/ RefreshLock(t) \/
            FolderInfoLock(t)
      PROVE  LocalTypes'
  <2>1. [local[t] EXCEPT !.using = map] \in Locals
      BY DEF StoreTypes
  <2> QED
      BY <1>13, <2>1, LocalSet DEF OpenLock, RefreshLock, FolderInfoLock
<1>14. ASSUME NEW t \in Threads, OpenSelect(t) PROVE LocalTypes'
  <2>1. [local[t] EXCEPT !.using = Null] \in Locals
      OBVIOUS
  <2> QED
      BY <1>14, <2>1, LocalSet DEF OpenSelect, Return
<1>15. ASSUME NEW t \in Threads, Dying(t) PROVE LocalTypes'
    BY <1>15 DEF Dying, OpenDies, RefDies, FolderInfoDies, UpdateInboxDies,
       RefreshDies, MarkPathDies, MarkSelectDies, MarkWriteDies, Die
<1>16. ASSUME NEW t \in Threads, NewFolder(t) \/ MarkAsk(t) PROVE LocalTypes'
  <2>1. [local[t] EXCEPT !.using = map] \in Locals
      BY DEF StoreTypes
  <2> QED
      BY <1>16, <2>1, LocalSet DEF NewFolder, MarkAsk
<1>17. ASSUME NEW t \in Threads, RefProxy(t) PROVE LocalTypes'
    BY <1>17 DEF RefProxy, Return
<1>18. ASSUME NEW t \in Threads, FolderInfoOffline(t) \/ FolderInfoOnline(t) \/
            FolderInfoConnected(t) \/ FolderInfoConnect(t)
      PROVE  LocalTypes'
    BY <1>18 DEF FolderInfoOffline, FolderInfoOnline, FolderInfoConnected,
       FolderInfoConnect, Return
<1>19. ASSUME NEW t \in Threads, FolderInfoSelect(t) PROVE LocalTypes'
    BY <1>19 DEF FolderInfoSelect, SetFolder, Return
<1>20. ASSUME NEW t \in Threads, UpdateInbox(t) PROVE LocalTypes'
  <2>1. /\ [local[t] EXCEPT !.using = Null] \in Locals
        /\ [local[t] EXCEPT !.using = map] \in Locals
      BY DEF StoreTypes
  <2> QED
      BY <1>20, <2>1, LocalSet DEF UpdateInbox
<1>21. ASSUME NEW t \in Threads, RefreshSelect(t) \/ MarkSelect(t)
      PROVE  LocalTypes'
  <2>1. [local[t] EXCEPT !.using = Null] \in Locals
      OBVIOUS
  <2>2. Works(local[t].using) => [local[t] EXCEPT !.using = Null,
                                    !.chosen = local[t].using.session] \in Locals
      BY DEF Proxies
  <2> QED
      BY <1>21, <2>1, <2>2, LocalSet DEF RefreshSelect, MarkSelect, SetFolder
<1>22. ASSUME NEW t \in Threads, RefreshList(t) \/ RefreshProcess(t) \/
            MarkWrite(t)
      PROVE  LocalTypes'
    BY <1>22 DEF RefreshList, RefreshProcess, MarkWrite
<1>23. ASSUME NEW t \in Threads, RefreshUnlock(t) \/ MarkUnlock(t)
      PROVE  LocalTypes'
    BY <1>23 DEF RefreshUnlock, MarkUnlock, Return
<1>24. ASSUME NEW t \in Threads, MarkPath(t) PROVE LocalTypes'
  <2>1. PICK p \in {session_path, Null} : local' = [local EXCEPT ![t].path = p]
      BY <1>24 DEF MarkPath
  <2>2. [local[t] EXCEPT !.path = p] \in Locals
      BY <2>1 DEF StoreTypes
  <2> QED
      BY <2>1, <2>2, LocalSet
<1>25. ASSUME NEW f \in Folders, CloseFolder(f) PROVE LocalTypes'
    BY <1>25 DEF CloseFolder
<1>26. CASE GoOnline \/ Drop
    BY <1>26 DEF GoOnline, Drop
<1>27. CASE Restart
    BY <1>27 DEF Restart
<1>28. CASE UNCHANGED vars
    BY <1>28 DEF vars
<1> QED
    BY <1>1, <1>2, <1>3, <1>4, <1>5, <1>6, <1>7, <1>8, <1>9, <1>10, <1>11,
       <1>12, <1>13, <1>14, <1>15, <1>16, <1>17, <1>18, <1>19, <1>20, <1>21,
       <1>22, <1>23, <1>24, <1>25, <1>26, <1>27, <1>28 DEF Next, Call, Step,
       Dying

\* So do the status, the flag and the locks.
LEMMA ServiceStep == ServiceTypes /\ [Next]_vars => ServiceTypes'
<1> SUFFICES ASSUME ServiceTypes, [Next]_vars
             PROVE  ServiceTypes'
    OBVIOUS
<1> USE DEF ServiceTypes, Goto, thread, service, locks, store, phone
<1>1. ASSUME NEW t \in Threads, Connect(t) \/ FolderInfo(t)
      PROVE  ServiceTypes'
    BY <1>1 DEF Connect, FolderInfo, Begin
<1>2. ASSUME NEW t \in Threads, Disconnect(t) PROVE ServiceTypes'
    BY <1>2 DEF Disconnect
<1>3. ASSUME NEW t \in Threads, NEW f \in Folders, OpenFolder(t, f)
      PROVE  ServiceTypes'
    BY <1>3 DEF OpenFolder, Begin
<1>4. ASSUME NEW t \in Threads, NEW f \in Folders, Refresh(t, f) \/ Mark(t, f)
      PROVE  ServiceTypes'
    BY <1>4 DEF Refresh, Mark, Begin
<1>5. ASSUME NEW t \in Threads, AlreadyConnected(t) \/ ConnectFails(t)
      PROVE  ServiceTypes'
    BY <1>5 DEF AlreadyConnected, ConnectFails, ConnectReturns, Return
<1>6. ASSUME NEW t \in Threads, CreateSession(t) PROVE ServiceTypes'
    BY <1>6 DEF CreateSession
<1>7. ASSUME NEW t \in Threads, CreateProxies(t) PROVE ServiceTypes'
    BY <1>7 DEF CreateProxies
<1>8. ASSUME NEW t \in Threads, ConnectLock(t) \/ MarkLock(t)
      PROVE  ServiceTypes'
    BY <1>8 DEF ConnectLock, MarkLock, Lock
<1>9. ASSUME NEW t \in Threads, ConnectSelect(t) PROVE ServiceTypes'
    BY <1>9 DEF ConnectSelect, SetFolder, ConnectReturns, Return
<1>10. ASSUME NEW t \in Threads, ConnectList(t) PROVE ServiceTypes'
    BY <1>10 DEF ConnectList, ConnectReturns, Return
<1>11. ASSUME NEW t \in Threads, ForgetMap(t) PROVE ServiceTypes'
    BY <1>11 DEF ForgetMap
<1>12. ASSUME NEW t \in Threads, ForgetPath(t) PROVE ServiceTypes'
    BY <1>12 DEF ForgetPath, Return
<1>13. ASSUME NEW t \in Threads, OpenLock(t) \/ RefreshLock(t) \/
            FolderInfoLock(t)
      PROVE  ServiceTypes'
    BY <1>13 DEF OpenLock, RefreshLock, FolderInfoLock, Lock
<1>14. ASSUME NEW t \in Threads, OpenSelect(t) PROVE ServiceTypes'
    BY <1>14 DEF OpenSelect, SetFolder, Return
<1>15. ASSUME NEW t \in Threads, Dying(t) PROVE ServiceTypes'
    BY <1>15 DEF Dying, OpenDies, RefDies, FolderInfoDies, UpdateInboxDies,
       RefreshDies, MarkPathDies, MarkSelectDies, MarkWriteDies, Die
<1>16. ASSUME NEW t \in Threads, NewFolder(t) \/ MarkAsk(t)
      PROVE  ServiceTypes'
    BY <1>16 DEF NewFolder, MarkAsk
<1>17. ASSUME NEW t \in Threads, RefProxy(t) PROVE ServiceTypes'
    BY <1>17 DEF RefProxy, Return
<1>18. ASSUME NEW t \in Threads, FolderInfoOffline(t) \/ FolderInfoOnline(t) \/
            FolderInfoConnected(t) \/ FolderInfoConnect(t)
      PROVE  ServiceTypes'
    BY <1>18 DEF FolderInfoOffline, FolderInfoOnline, FolderInfoConnected,
       FolderInfoConnect, Return
<1>19. ASSUME NEW t \in Threads, FolderInfoSelect(t) PROVE ServiceTypes'
    BY <1>19 DEF FolderInfoSelect, SetFolder, Return
<1>20. ASSUME NEW t \in Threads, UpdateInbox(t) PROVE ServiceTypes'
    BY <1>20 DEF UpdateInbox
<1>21. ASSUME NEW t \in Threads, RefreshSelect(t) \/ MarkSelect(t)
      PROVE  ServiceTypes'
    BY <1>21 DEF RefreshSelect, MarkSelect, SetFolder
<1>22. ASSUME NEW t \in Threads, RefreshList(t) \/ RefreshProcess(t) \/
            MarkWrite(t)
      PROVE  ServiceTypes'
    BY <1>22 DEF RefreshList, RefreshProcess, MarkWrite
<1>23. ASSUME NEW t \in Threads, RefreshUnlock(t) \/ MarkUnlock(t)
      PROVE  ServiceTypes'
    BY <1>23 DEF RefreshUnlock, MarkUnlock, Return
<1>24. ASSUME NEW t \in Threads, MarkPath(t) PROVE ServiceTypes'
    BY <1>24 DEF MarkPath
<1>25. ASSUME NEW f \in Folders, CloseFolder(f) PROVE ServiceTypes'
    BY <1>25 DEF CloseFolder
<1>26. CASE GoOnline \/ Drop
    BY <1>26 DEF GoOnline, Drop
<1>27. CASE Restart
    BY <1>27 DEF Restart
<1>28. CASE UNCHANGED vars
    BY <1>28 DEF vars
<1> QED
    BY <1>1, <1>2, <1>3, <1>4, <1>5, <1>6, <1>7, <1>8, <1>9, <1>10, <1>11,
       <1>12, <1>13, <1>14, <1>15, <1>16, <1>17, <1>18, <1>19, <1>20, <1>21,
       <1>22, <1>23, <1>24, <1>25, <1>26, <1>27, <1>28 DEF Next, Call, Step,
       Dying

\* So do the paths, the proxies and the session: an object for a new proxy
\* is found because the store has none while it connects.
LEMMA StoreStep == StoreTypes /\ LocalTypes /\ PcType /\ NoProxyYet /\
    OpenedOnce /\ UsesOne /\ [Next]_vars => StoreTypes'
<1> SUFFICES ASSUME StoreTypes, LocalTypes, PcType, NoProxyYet, OpenedOnce,
           UsesOne, [Next]_vars
             PROVE  StoreTypes'
    OBVIOUS
<1> USE BoundsAreNat DEF StoreTypes, LocalTypes, Locals, PcType, OpenedOnce,
        OpenSteps, Dirs, Sessions, Goto, thread, service, locks, store, phone
<1>1. ASSUME NEW t \in Threads, Connect(t) \/ FolderInfo(t) PROVE StoreTypes'
    BY <1>1 DEF Connect, FolderInfo, Begin
<1>2. ASSUME NEW t \in Threads, Disconnect(t) PROVE StoreTypes'
    BY <1>2 DEF Disconnect
<1>3. ASSUME NEW t \in Threads, NEW f \in Folders, OpenFolder(t, f)
      PROVE  StoreTypes'
    BY <1>3 DEF OpenFolder, Begin
<1>4. ASSUME NEW t \in Threads, NEW f \in Folders, Refresh(t, f) \/ Mark(t, f)
      PROVE  StoreTypes'
    BY <1>4 DEF Refresh, Mark, Begin
<1>5. ASSUME NEW t \in Threads, AlreadyConnected(t) \/ ConnectFails(t)
      PROVE  StoreTypes'
    BY <1>5 DEF AlreadyConnected, ConnectFails, ConnectReturns, Return
<1>6. ASSUME NEW t \in Threads, CreateSession(t) PROVE StoreTypes'
    BY <1>6 DEF CreateSession
<1>7. ASSUME NEW t \in Threads, CreateProxies(t) PROVE StoreTypes'
    BY <1>7, NewObject DEF CreateProxies, NoProxyYet, UsesOne, HoldSteps
<1>8. ASSUME NEW t \in Threads, ConnectLock(t) \/ MarkLock(t)
      PROVE  StoreTypes'
    BY <1>8 DEF ConnectLock, MarkLock, Lock
<1>9. ASSUME NEW t \in Threads, ConnectSelect(t) PROVE StoreTypes'
    BY <1>9 DEF ConnectSelect, SetFolder, ConnectReturns, Return
<1>10. ASSUME NEW t \in Threads, ConnectList(t) PROVE StoreTypes'
    BY <1>10 DEF ConnectList, ConnectReturns, Return
<1>11. ASSUME NEW t \in Threads, ForgetMap(t) PROVE StoreTypes'
    BY <1>11 DEF ForgetMap
<1>12. ASSUME NEW t \in Threads, ForgetPath(t) PROVE StoreTypes'
    BY <1>12 DEF ForgetPath, Return
<1>13. ASSUME NEW t \in Threads, OpenLock(t) \/ RefreshLock(t) \/
            FolderInfoLock(t)
      PROVE  StoreTypes'
    BY <1>13 DEF OpenLock, RefreshLock, FolderInfoLock, Lock
<1>14. ASSUME NEW t \in Threads, OpenSelect(t) PROVE StoreTypes'
    BY <1>14 DEF OpenSelect, SetFolder, Return
<1>15. ASSUME NEW t \in Threads, Dying(t) PROVE StoreTypes'
    BY <1>15 DEF Dying, OpenDies, RefDies, FolderInfoDies, UpdateInboxDies,
       RefreshDies, MarkPathDies, MarkSelectDies, MarkWriteDies, Die
<1>16. ASSUME NEW t \in Threads, NewFolder(t) \/ MarkAsk(t) PROVE StoreTypes'
    BY <1>16 DEF NewFolder, MarkAsk
<1>17. ASSUME NEW t \in Threads, RefProxy(t) PROVE StoreTypes'
    BY <1>17 DEF RefProxy, Return
<1>18. ASSUME NEW t \in Threads, FolderInfoOffline(t) \/ FolderInfoOnline(t) \/
            FolderInfoConnected(t) \/ FolderInfoConnect(t)
      PROVE  StoreTypes'
    BY <1>18 DEF FolderInfoOffline, FolderInfoOnline, FolderInfoConnected,
       FolderInfoConnect, Return
<1>19. ASSUME NEW t \in Threads, FolderInfoSelect(t) PROVE StoreTypes'
    BY <1>19 DEF FolderInfoSelect, SetFolder, Return
<1>20. ASSUME NEW t \in Threads, UpdateInbox(t) PROVE StoreTypes'
    BY <1>20 DEF UpdateInbox
<1>21. ASSUME NEW t \in Threads, RefreshSelect(t) \/ MarkSelect(t)
      PROVE  StoreTypes'
    BY <1>21 DEF RefreshSelect, MarkSelect, SetFolder
<1>22. ASSUME NEW t \in Threads, RefreshList(t) \/ RefreshProcess(t) \/
            MarkWrite(t)
      PROVE  StoreTypes'
    BY <1>22 DEF RefreshList, RefreshProcess, MarkWrite
<1>23. ASSUME NEW t \in Threads, RefreshUnlock(t) \/ MarkUnlock(t)
      PROVE  StoreTypes'
    BY <1>23 DEF RefreshUnlock, MarkUnlock, Return
<1>24. ASSUME NEW t \in Threads, MarkPath(t) PROVE StoreTypes'
    BY <1>24 DEF MarkPath
<1>25. ASSUME NEW f \in Folders, CloseFolder(f) PROVE StoreTypes'
    BY <1>25 DEF CloseFolder
<1>26. CASE GoOnline \/ Drop
    BY <1>26 DEF GoOnline, Drop
<1>27. CASE Restart
    BY <1>27 DEF Restart
<1>28. CASE UNCHANGED vars
    BY <1>28 DEF vars
<1> QED
    BY <1>1, <1>2, <1>3, <1>4, <1>5, <1>6, <1>7, <1>8, <1>9, <1>10, <1>11,
       <1>12, <1>13, <1>14, <1>15, <1>16, <1>17, <1>18, <1>19, <1>20, <1>21,
       <1>22, <1>23, <1>24, <1>25, <1>26, <1>27, <1>28 DEF Next, Call, Step,
       Dying

----------------------------------------------------------------------------
(* Locks, and the service.                                                 *)

\* Only the holder of the folder lock enters, and only it leaves, the steps
\* between lock and unlock.
LEMMA LockHeldStep == PcType /\ LockHeld /\ [Next]_vars => LockHeld'
<1> SUFFICES ASSUME PcType, LockHeld, [Next]_vars
             PROVE  LockHeld'
    OBVIOUS
<1> USE NamesDistinct DEF PcType, LockHeld, LockedSteps, Goto, thread,
        service, locks, store, phone
<1>1. ASSUME NEW t \in Threads, Connect(t) \/ FolderInfo(t) PROVE LockHeld'
    BY <1>1 DEF Connect, FolderInfo, Begin
<1>2. ASSUME NEW t \in Threads, Disconnect(t) PROVE LockHeld'
    BY <1>2 DEF Disconnect
<1>3. ASSUME NEW t \in Threads, NEW f \in Folders, OpenFolder(t, f)
      PROVE  LockHeld'
    BY <1>3 DEF OpenFolder, Begin
<1>4. ASSUME NEW t \in Threads, NEW f \in Folders, Refresh(t, f) \/ Mark(t, f)
      PROVE  LockHeld'
    BY <1>4 DEF Refresh, Mark, Begin
<1>5. ASSUME NEW t \in Threads, AlreadyConnected(t) \/ ConnectFails(t)
      PROVE  LockHeld'
    BY <1>5 DEF AlreadyConnected, ConnectFails, ConnectReturns, Return
<1>6. ASSUME NEW t \in Threads, CreateSession(t) PROVE LockHeld'
    BY <1>6 DEF CreateSession
<1>7. ASSUME NEW t \in Threads, CreateProxies(t) PROVE LockHeld'
    BY <1>7 DEF CreateProxies
<1>8. ASSUME NEW t \in Threads, ConnectLock(t) \/ MarkLock(t) PROVE LockHeld'
    BY <1>8 DEF ConnectLock, MarkLock, Lock
<1>9. ASSUME NEW t \in Threads, ConnectSelect(t) PROVE LockHeld'
    BY <1>9 DEF ConnectSelect, SetFolder, ConnectReturns, Return
<1>10. ASSUME NEW t \in Threads, ConnectList(t) PROVE LockHeld'
    BY <1>10 DEF ConnectList, ConnectReturns, Return
<1>11. ASSUME NEW t \in Threads, ForgetMap(t) PROVE LockHeld'
    BY <1>11 DEF ForgetMap
<1>12. ASSUME NEW t \in Threads, ForgetPath(t) PROVE LockHeld'
    BY <1>12 DEF ForgetPath, Return
<1>13. ASSUME NEW t \in Threads, OpenLock(t) \/ RefreshLock(t) \/
            FolderInfoLock(t)
      PROVE  LockHeld'
    BY <1>13 DEF OpenLock, RefreshLock, FolderInfoLock, Lock
<1>14. ASSUME NEW t \in Threads, OpenSelect(t) PROVE LockHeld'
    BY <1>14 DEF OpenSelect, SetFolder, Return
<1>15. ASSUME NEW t \in Threads, Dying(t) PROVE LockHeld'
    BY <1>15 DEF Dying, OpenDies, RefDies, FolderInfoDies, UpdateInboxDies,
       RefreshDies, MarkPathDies, MarkSelectDies, MarkWriteDies, Die
<1>16. ASSUME NEW t \in Threads, NewFolder(t) \/ MarkAsk(t) PROVE LockHeld'
    BY <1>16 DEF NewFolder, MarkAsk
<1>17. ASSUME NEW t \in Threads, RefProxy(t) PROVE LockHeld'
    BY <1>17 DEF RefProxy, Return
<1>18. ASSUME NEW t \in Threads, FolderInfoOffline(t) \/ FolderInfoOnline(t) \/
            FolderInfoConnected(t) \/ FolderInfoConnect(t)
      PROVE  LockHeld'
    BY <1>18 DEF FolderInfoOffline, FolderInfoOnline, FolderInfoConnected,
       FolderInfoConnect, Return
<1>19. ASSUME NEW t \in Threads, FolderInfoSelect(t) PROVE LockHeld'
    BY <1>19 DEF FolderInfoSelect, SetFolder, Return
<1>20. ASSUME NEW t \in Threads, UpdateInbox(t) PROVE LockHeld'
    BY <1>20 DEF UpdateInbox
<1>21. ASSUME NEW t \in Threads, RefreshSelect(t) \/ MarkSelect(t)
      PROVE  LockHeld'
    BY <1>21 DEF RefreshSelect, MarkSelect, SetFolder
<1>22. ASSUME NEW t \in Threads, RefreshList(t) \/ RefreshProcess(t) \/
            MarkWrite(t)
      PROVE  LockHeld'
    BY <1>22 DEF RefreshList, RefreshProcess, MarkWrite
<1>23. ASSUME NEW t \in Threads, RefreshUnlock(t) \/ MarkUnlock(t)
      PROVE  LockHeld'
    BY <1>23 DEF RefreshUnlock, MarkUnlock, Return
<1>24. ASSUME NEW t \in Threads, MarkPath(t) PROVE LockHeld'
    BY <1>24 DEF MarkPath
<1>25. ASSUME NEW f \in Folders, CloseFolder(f) PROVE LockHeld'
    BY <1>25 DEF CloseFolder
<1>26. CASE GoOnline \/ Drop
    BY <1>26 DEF GoOnline, Drop
<1>27. CASE Restart
    BY <1>27 DEF Restart
<1>28. CASE UNCHANGED vars
    BY <1>28 DEF vars
<1> QED
    BY <1>1, <1>2, <1>3, <1>4, <1>5, <1>6, <1>7, <1>8, <1>9, <1>10, <1>11,
       <1>12, <1>13, <1>14, <1>15, <1>16, <1>17, <1>18, <1>19, <1>20, <1>21,
       <1>22, <1>23, <1>24, <1>25, <1>26, <1>27, <1>28 DEF Next, Call, Step,
       Dying

\* Connects and disconnects exclude one another.
LEMMA OneConnectsStep == PcType /\ OneConnects /\ [Next]_vars => OneConnects'
<1> SUFFICES ASSUME PcType, OneConnects, [Next]_vars
             PROVE  OneConnects'
    OBVIOUS
<1> USE NamesDistinct DEF PcType, OneConnects, ServiceSteps, Goto, thread,
        service, locks, store, phone
<1>1. ASSUME NEW t \in Threads, Connect(t) \/ FolderInfo(t) PROVE OneConnects'
    BY <1>1 DEF Connect, FolderInfo, Begin
<1>2. ASSUME NEW t \in Threads, Disconnect(t) PROVE OneConnects'
    BY <1>2 DEF Disconnect
<1>3. ASSUME NEW t \in Threads, NEW f \in Folders, OpenFolder(t, f)
      PROVE  OneConnects'
    BY <1>3 DEF OpenFolder, Begin
<1>4. ASSUME NEW t \in Threads, NEW f \in Folders, Refresh(t, f) \/ Mark(t, f)
      PROVE  OneConnects'
    BY <1>4 DEF Refresh, Mark, Begin
<1>5. ASSUME NEW t \in Threads, AlreadyConnected(t) \/ ConnectFails(t)
      PROVE  OneConnects'
    BY <1>5 DEF AlreadyConnected, ConnectFails, ConnectReturns, Return
<1>6. ASSUME NEW t \in Threads, CreateSession(t) PROVE OneConnects'
    BY <1>6 DEF CreateSession
<1>7. ASSUME NEW t \in Threads, CreateProxies(t) PROVE OneConnects'
    BY <1>7 DEF CreateProxies
<1>8. ASSUME NEW t \in Threads, ConnectLock(t) \/ MarkLock(t)
      PROVE  OneConnects'
    BY <1>8 DEF ConnectLock, MarkLock, Lock
<1>9. ASSUME NEW t \in Threads, ConnectSelect(t) PROVE OneConnects'
    BY <1>9 DEF ConnectSelect, SetFolder, ConnectReturns, Return
<1>10. ASSUME NEW t \in Threads, ConnectList(t) PROVE OneConnects'
    BY <1>10 DEF ConnectList, ConnectReturns, Return
<1>11. ASSUME NEW t \in Threads, ForgetMap(t) PROVE OneConnects'
    BY <1>11 DEF ForgetMap
<1>12. ASSUME NEW t \in Threads, ForgetPath(t) PROVE OneConnects'
    BY <1>12 DEF ForgetPath, Return
<1>13. ASSUME NEW t \in Threads, OpenLock(t) \/ RefreshLock(t) \/
            FolderInfoLock(t)
      PROVE  OneConnects'
    BY <1>13 DEF OpenLock, RefreshLock, FolderInfoLock, Lock
<1>14. ASSUME NEW t \in Threads, OpenSelect(t) PROVE OneConnects'
    BY <1>14 DEF OpenSelect, SetFolder, Return
<1>15. ASSUME NEW t \in Threads, Dying(t) PROVE OneConnects'
    BY <1>15 DEF Dying, OpenDies, RefDies, FolderInfoDies, UpdateInboxDies,
       RefreshDies, MarkPathDies, MarkSelectDies, MarkWriteDies, Die
<1>16. ASSUME NEW t \in Threads, NewFolder(t) \/ MarkAsk(t) PROVE OneConnects'
    BY <1>16 DEF NewFolder, MarkAsk
<1>17. ASSUME NEW t \in Threads, RefProxy(t) PROVE OneConnects'
    BY <1>17 DEF RefProxy, Return
<1>18. ASSUME NEW t \in Threads, FolderInfoOffline(t) \/ FolderInfoOnline(t) \/
            FolderInfoConnected(t) \/ FolderInfoConnect(t)
      PROVE  OneConnects'
    BY <1>18 DEF FolderInfoOffline, FolderInfoOnline, FolderInfoConnected,
       FolderInfoConnect, Return
<1>19. ASSUME NEW t \in Threads, FolderInfoSelect(t) PROVE OneConnects'
    BY <1>19 DEF FolderInfoSelect, SetFolder, Return
<1>20. ASSUME NEW t \in Threads, UpdateInbox(t) PROVE OneConnects'
    BY <1>20 DEF UpdateInbox
<1>21. ASSUME NEW t \in Threads, RefreshSelect(t) \/ MarkSelect(t)
      PROVE  OneConnects'
    BY <1>21 DEF RefreshSelect, MarkSelect, SetFolder
<1>22. ASSUME NEW t \in Threads, RefreshList(t) \/ RefreshProcess(t) \/
            MarkWrite(t)
      PROVE  OneConnects'
    BY <1>22 DEF RefreshList, RefreshProcess, MarkWrite
<1>23. ASSUME NEW t \in Threads, RefreshUnlock(t) \/ MarkUnlock(t)
      PROVE  OneConnects'
    BY <1>23 DEF RefreshUnlock, MarkUnlock, Return
<1>24. ASSUME NEW t \in Threads, MarkPath(t) PROVE OneConnects'
    BY <1>24 DEF MarkPath
<1>25. ASSUME NEW f \in Folders, CloseFolder(f) PROVE OneConnects'
    BY <1>25 DEF CloseFolder
<1>26. CASE GoOnline \/ Drop
    BY <1>26 DEF GoOnline, Drop
<1>27. CASE Restart
    BY <1>27 DEF Restart
<1>28. CASE UNCHANGED vars
    BY <1>28 DEF vars
<1> QED
    BY <1>1, <1>2, <1>3, <1>4, <1>5, <1>6, <1>7, <1>8, <1>9, <1>10, <1>11,
       <1>12, <1>13, <1>14, <1>15, <1>16, <1>17, <1>18, <1>19, <1>20, <1>21,
       <1>22, <1>23, <1>24, <1>25, <1>26, <1>27, <1>28 DEF Next, Call, Step,
       Dying

----------------------------------------------------------------------------
(* Proxies and paths.                                                      *)

\* A connect that created a session found no path, thus no proxy, and nobody
\* else makes one; a disconnect dropped the proxy first.
LEMMA NoProxyYetStep == PcType /\ StoreTypes /\ OneConnects /\ NoProxyYet /\
    PathMatchesProxy /\ [Next]_vars => NoProxyYet'
<1> SUFFICES ASSUME PcType, StoreTypes, OneConnects, NoProxyYet,
           PathMatchesProxy, [Next]_vars
             PROVE  NoProxyYet'
    OBVIOUS
<1> USE NamesDistinct, BoundsAreNat DEF PcType, StoreTypes, Sessions, Proxies,
        OneConnects, ServiceSteps, NoProxyYet, PathMatchesProxy, Goto, thread,
        service, locks, store, phone
<1>1. ASSUME NEW t \in Threads, Connect(t) \/ FolderInfo(t) PROVE NoProxyYet'
    BY <1>1 DEF Connect, FolderInfo, Begin
<1>2. ASSUME NEW t \in Threads, Disconnect(t) PROVE NoProxyYet'
    BY <1>2 DEF Disconnect
<1>3. ASSUME NEW t \in Threads, NEW f \in Folders, OpenFolder(t, f)
      PROVE  NoProxyYet'
    BY <1>3 DEF OpenFolder, Begin
<1>4. ASSUME NEW t \in Threads, NEW f \in Folders, Refresh(t, f) \/ Mark(t, f)
      PROVE  NoProxyYet'
    BY <1>4 DEF Refresh, Mark, Begin
<1>5. ASSUME NEW t \in Threads, AlreadyConnected(t) \/ ConnectFails(t)
      PROVE  NoProxyYet'
    BY <1>5 DEF AlreadyConnected, ConnectFails, ConnectReturns, Return
<1>6. ASSUME NEW t \in Threads, CreateSession(t) PROVE NoProxyYet'
    BY <1>6 DEF CreateSession
<1>7. ASSUME NEW t \in Threads, CreateProxies(t) PROVE NoProxyYet'
    BY <1>7 DEF CreateProxies
<1>8. ASSUME NEW t \in Threads, ConnectLock(t) \/ MarkLock(t)
      PROVE  NoProxyYet'
    BY <1>8 DEF ConnectLock, MarkLock, Lock
<1>9. ASSUME NEW t \in Threads, ConnectSelect(t) PROVE NoProxyYet'
    BY <1>9 DEF ConnectSelect, SetFolder, ConnectReturns, Return
<1>10. ASSUME NEW t \in Threads, ConnectList(t) PROVE NoProxyYet'
    BY <1>10 DEF ConnectList, ConnectReturns, Return
<1>11. ASSUME NEW t \in Threads, ForgetMap(t) PROVE NoProxyYet'
    BY <1>11 DEF ForgetMap
<1>12. ASSUME NEW t \in Threads, ForgetPath(t) PROVE NoProxyYet'
    BY <1>12 DEF ForgetPath, Return
<1>13. ASSUME NEW t \in Threads, OpenLock(t) \/ RefreshLock(t) \/
            FolderInfoLock(t)
      PROVE  NoProxyYet'
    BY <1>13 DEF OpenLock, RefreshLock, FolderInfoLock, Lock
<1>14. ASSUME NEW t \in Threads, OpenSelect(t) PROVE NoProxyYet'
    BY <1>14 DEF OpenSelect, SetFolder, Return
<1>15. ASSUME NEW t \in Threads, Dying(t) PROVE NoProxyYet'
    BY <1>15 DEF Dying, OpenDies, RefDies, FolderInfoDies, UpdateInboxDies,
       RefreshDies, MarkPathDies, MarkSelectDies, MarkWriteDies, Die
<1>16. ASSUME NEW t \in Threads, NewFolder(t) \/ MarkAsk(t) PROVE NoProxyYet'
    BY <1>16 DEF NewFolder, MarkAsk
<1>17. ASSUME NEW t \in Threads, RefProxy(t) PROVE NoProxyYet'
    BY <1>17 DEF RefProxy, Return
<1>18. ASSUME NEW t \in Threads, FolderInfoOffline(t) \/ FolderInfoOnline(t) \/
            FolderInfoConnected(t) \/ FolderInfoConnect(t)
      PROVE  NoProxyYet'
    BY <1>18 DEF FolderInfoOffline, FolderInfoOnline, FolderInfoConnected,
       FolderInfoConnect, Return
<1>19. ASSUME NEW t \in Threads, FolderInfoSelect(t) PROVE NoProxyYet'
    BY <1>19 DEF FolderInfoSelect, SetFolder, Return
<1>20. ASSUME NEW t \in Threads, UpdateInbox(t) PROVE NoProxyYet'
    BY <1>20 DEF UpdateInbox
<1>21. ASSUME NEW t \in Threads, RefreshSelect(t) \/ MarkSelect(t)
      PROVE  NoProxyYet'
    BY <1>21 DEF RefreshSelect, MarkSelect, SetFolder
<1>22. ASSUME NEW t \in Threads, RefreshList(t) \/ RefreshProcess(t) \/
            MarkWrite(t)
      PROVE  NoProxyYet'
    BY <1>22 DEF RefreshList, RefreshProcess, MarkWrite
<1>23. ASSUME NEW t \in Threads, RefreshUnlock(t) \/ MarkUnlock(t)
      PROVE  NoProxyYet'
    BY <1>23 DEF RefreshUnlock, MarkUnlock, Return
<1>24. ASSUME NEW t \in Threads, MarkPath(t) PROVE NoProxyYet'
    BY <1>24 DEF MarkPath
<1>25. ASSUME NEW f \in Folders, CloseFolder(f) PROVE NoProxyYet'
    BY <1>25 DEF CloseFolder
<1>26. CASE GoOnline \/ Drop
    BY <1>26 DEF GoOnline, Drop
<1>27. CASE Restart
    BY <1>27 DEF Restart
<1>28. CASE UNCHANGED vars
    BY <1>28 DEF vars
<1> QED
    BY <1>1, <1>2, <1>3, <1>4, <1>5, <1>6, <1>7, <1>8, <1>9, <1>10, <1>11,
       <1>12, <1>13, <1>14, <1>15, <1>16, <1>17, <1>18, <1>19, <1>20, <1>21,
       <1>22, <1>23, <1>24, <1>25, <1>26, <1>27, <1>28 DEF Next, Call, Step,
       Dying

\* Proxy and path of one session come in this order and go in the other.
LEMMA PathMatchesStep == PcType /\ StoreTypes /\ OneConnects /\ NoProxyYet /\
    PathMatchesProxy /\ [Next]_vars => PathMatchesProxy'
<1> SUFFICES ASSUME PcType, StoreTypes, OneConnects, NoProxyYet,
           PathMatchesProxy, [Next]_vars
             PROVE  PathMatchesProxy'
    OBVIOUS
<1> USE NamesDistinct, BoundsAreNat DEF PcType, StoreTypes, Proxies, Sessions,
        OneConnects, ServiceSteps, NoProxyYet, PathMatchesProxy, NewProxy,
        Goto, thread, service, locks, store, phone
<1>1. ASSUME NEW t \in Threads, Connect(t) \/ FolderInfo(t)
      PROVE  PathMatchesProxy'
    BY <1>1 DEF Connect, FolderInfo, Begin
<1>2. ASSUME NEW t \in Threads, Disconnect(t) PROVE PathMatchesProxy'
    BY <1>2 DEF Disconnect
<1>3. ASSUME NEW t \in Threads, NEW f \in Folders, OpenFolder(t, f)
      PROVE  PathMatchesProxy'
    BY <1>3 DEF OpenFolder, Begin
<1>4. ASSUME NEW t \in Threads, NEW f \in Folders, Refresh(t, f) \/ Mark(t, f)
      PROVE  PathMatchesProxy'
    BY <1>4 DEF Refresh, Mark, Begin
<1>5. ASSUME NEW t \in Threads, AlreadyConnected(t) \/ ConnectFails(t)
      PROVE  PathMatchesProxy'
    BY <1>5 DEF AlreadyConnected, ConnectFails, ConnectReturns, Return
<1>6. ASSUME NEW t \in Threads, CreateSession(t) PROVE PathMatchesProxy'
    BY <1>6 DEF CreateSession
<1>7. ASSUME NEW t \in Threads, CreateProxies(t) PROVE PathMatchesProxy'
    BY <1>7 DEF CreateProxies
<1>8. ASSUME NEW t \in Threads, ConnectLock(t) \/ MarkLock(t)
      PROVE  PathMatchesProxy'
    BY <1>8 DEF ConnectLock, MarkLock, Lock
<1>9. ASSUME NEW t \in Threads, ConnectSelect(t) PROVE PathMatchesProxy'
    BY <1>9 DEF ConnectSelect, SetFolder, ConnectReturns, Return
<1>10. ASSUME NEW t \in Threads, ConnectList(t) PROVE PathMatchesProxy'
    BY <1>10 DEF ConnectList, ConnectReturns, Return
<1>11. ASSUME NEW t \in Threads, ForgetMap(t) PROVE PathMatchesProxy'
    BY <1>11 DEF ForgetMap
<1>12. ASSUME NEW t \in Threads, ForgetPath(t) PROVE PathMatchesProxy'
    BY <1>12 DEF ForgetPath, Return
<1>13. ASSUME NEW t \in Threads, OpenLock(t) \/ RefreshLock(t) \/
            FolderInfoLock(t)
      PROVE  PathMatchesProxy'
    BY <1>13 DEF OpenLock, RefreshLock, FolderInfoLock, Lock
<1>14. ASSUME NEW t \in Threads, OpenSelect(t) PROVE PathMatchesProxy'
    BY <1>14 DEF OpenSelect, SetFolder, Return
<1>15. ASSUME NEW t \in Threads, Dying(t) PROVE PathMatchesProxy'
    BY <1>15 DEF Dying, OpenDies, RefDies, FolderInfoDies, UpdateInboxDies,
       RefreshDies, MarkPathDies, MarkSelectDies, MarkWriteDies, Die
<1>16. ASSUME NEW t \in Threads, NewFolder(t) \/ MarkAsk(t)
      PROVE  PathMatchesProxy'
    BY <1>16 DEF NewFolder, MarkAsk
<1>17. ASSUME NEW t \in Threads, RefProxy(t) PROVE PathMatchesProxy'
    BY <1>17 DEF RefProxy, Return
<1>18. ASSUME NEW t \in Threads, FolderInfoOffline(t) \/ FolderInfoOnline(t) \/
            FolderInfoConnected(t) \/ FolderInfoConnect(t)
      PROVE  PathMatchesProxy'
    BY <1>18 DEF FolderInfoOffline, FolderInfoOnline, FolderInfoConnected,
       FolderInfoConnect, Return
<1>19. ASSUME NEW t \in Threads, FolderInfoSelect(t) PROVE PathMatchesProxy'
    BY <1>19 DEF FolderInfoSelect, SetFolder, Return
<1>20. ASSUME NEW t \in Threads, UpdateInbox(t) PROVE PathMatchesProxy'
    BY <1>20 DEF UpdateInbox
<1>21. ASSUME NEW t \in Threads, RefreshSelect(t) \/ MarkSelect(t)
      PROVE  PathMatchesProxy'
    BY <1>21 DEF RefreshSelect, MarkSelect, SetFolder
<1>22. ASSUME NEW t \in Threads, RefreshList(t) \/ RefreshProcess(t) \/
            MarkWrite(t)
      PROVE  PathMatchesProxy'
    BY <1>22 DEF RefreshList, RefreshProcess, MarkWrite
<1>23. ASSUME NEW t \in Threads, RefreshUnlock(t) \/ MarkUnlock(t)
      PROVE  PathMatchesProxy'
    BY <1>23 DEF RefreshUnlock, MarkUnlock, Return
<1>24. ASSUME NEW t \in Threads, MarkPath(t) PROVE PathMatchesProxy'
    BY <1>24 DEF MarkPath
<1>25. ASSUME NEW f \in Folders, CloseFolder(f) PROVE PathMatchesProxy'
    BY <1>25 DEF CloseFolder
<1>26. CASE GoOnline \/ Drop
    BY <1>26 DEF GoOnline, Drop
<1>27. CASE Restart
    BY <1>27 DEF Restart
<1>28. CASE UNCHANGED vars
    BY <1>28 DEF vars
<1> QED
    BY <1>1, <1>2, <1>3, <1>4, <1>5, <1>6, <1>7, <1>8, <1>9, <1>10, <1>11,
       <1>12, <1>13, <1>14, <1>15, <1>16, <1>17, <1>18, <1>19, <1>20, <1>21,
       <1>22, <1>23, <1>24, <1>25, <1>26, <1>27, <1>28 DEF Next, Call, Step,
       Dying

\* A proxy is read for one call.
LEMMA UsesOneStep == PcType /\ LocalTypes /\ UsesOne /\ [Next]_vars =>
    UsesOne'
<1> SUFFICES ASSUME PcType, LocalTypes, UsesOne, [Next]_vars
             PROVE  UsesOne'
    OBVIOUS
<1> USE DEF PcType, LocalTypes, Locals, NoLocal, UsesOne, HoldSteps, Goto,
        thread, service, locks, store, phone
<1>1. ASSUME NEW t \in Threads, Connect(t) \/ FolderInfo(t) PROVE UsesOne'
    BY <1>1 DEF Connect, FolderInfo, Begin
<1>2. ASSUME NEW t \in Threads, Disconnect(t) PROVE UsesOne'
    BY <1>2 DEF Disconnect
<1>3. ASSUME NEW t \in Threads, NEW f \in Folders, OpenFolder(t, f)
      PROVE  UsesOne'
    BY <1>3 DEF OpenFolder, Begin
<1>4. ASSUME NEW t \in Threads, NEW f \in Folders, Refresh(t, f) \/ Mark(t, f)
      PROVE  UsesOne'
    BY <1>4 DEF Refresh, Mark, Begin
<1>5. ASSUME NEW t \in Threads, AlreadyConnected(t) \/ ConnectFails(t)
      PROVE  UsesOne'
    BY <1>5 DEF AlreadyConnected, ConnectFails, ConnectReturns, Return
<1>6. ASSUME NEW t \in Threads, CreateSession(t) PROVE UsesOne'
    BY <1>6 DEF CreateSession
<1>7. ASSUME NEW t \in Threads, CreateProxies(t) PROVE UsesOne'
    BY <1>7 DEF CreateProxies
<1>8. ASSUME NEW t \in Threads, ConnectLock(t) \/ MarkLock(t) PROVE UsesOne'
    BY <1>8 DEF ConnectLock, MarkLock, Lock
<1>9. ASSUME NEW t \in Threads, ConnectSelect(t) PROVE UsesOne'
    BY <1>9 DEF ConnectSelect, SetFolder, ConnectReturns, Return
<1>10. ASSUME NEW t \in Threads, ConnectList(t) PROVE UsesOne'
    BY <1>10 DEF ConnectList, ConnectReturns, Return
<1>11. ASSUME NEW t \in Threads, ForgetMap(t) PROVE UsesOne'
    BY <1>11 DEF ForgetMap
<1>12. ASSUME NEW t \in Threads, ForgetPath(t) PROVE UsesOne'
    BY <1>12 DEF ForgetPath, Return
<1>13. ASSUME NEW t \in Threads, OpenLock(t) \/ RefreshLock(t) \/
            FolderInfoLock(t)
      PROVE  UsesOne'
    BY <1>13 DEF OpenLock, RefreshLock, FolderInfoLock, Lock
<1>14. ASSUME NEW t \in Threads, OpenSelect(t) PROVE UsesOne'
    BY <1>14 DEF OpenSelect, SetFolder, Return
<1>15. ASSUME NEW t \in Threads, Dying(t) PROVE UsesOne'
    BY <1>15 DEF Dying, OpenDies, RefDies, FolderInfoDies, UpdateInboxDies,
       RefreshDies, MarkPathDies, MarkSelectDies, MarkWriteDies, Die
<1>16. ASSUME NEW t \in Threads, NewFolder(t) \/ MarkAsk(t) PROVE UsesOne'
    BY <1>16 DEF NewFolder, MarkAsk
<1>17. ASSUME NEW t \in Threads, RefProxy(t) PROVE UsesOne'
    BY <1>17 DEF RefProxy, Return
<1>18. ASSUME NEW t \in Threads, FolderInfoOffline(t) \/ FolderInfoOnline(t) \/
            FolderInfoConnected(t) \/ FolderInfoConnect(t)
      PROVE  UsesOne'
    BY <1>18 DEF FolderInfoOffline, FolderInfoOnline, FolderInfoConnected,
       FolderInfoConnect, Return
<1>19. ASSUME NEW t \in Threads, FolderInfoSelect(t) PROVE UsesOne'
    BY <1>19 DEF FolderInfoSelect, SetFolder, Return
<1>20. ASSUME NEW t \in Threads, UpdateInbox(t) PROVE UsesOne'
    BY <1>20 DEF UpdateInbox
<1>21. ASSUME NEW t \in Threads, RefreshSelect(t) \/ MarkSelect(t)
      PROVE  UsesOne'
    BY <1>21 DEF RefreshSelect, MarkSelect, SetFolder
<1>22. ASSUME NEW t \in Threads, RefreshList(t) \/ RefreshProcess(t) \/
            MarkWrite(t)
      PROVE  UsesOne'
    BY <1>22 DEF RefreshList, RefreshProcess, MarkWrite
<1>23. ASSUME NEW t \in Threads, RefreshUnlock(t) \/ MarkUnlock(t)
      PROVE  UsesOne'
    BY <1>23 DEF RefreshUnlock, MarkUnlock, Return
<1>24. ASSUME NEW t \in Threads, MarkPath(t) PROVE UsesOne'
    BY <1>24 DEF MarkPath
<1>25. ASSUME NEW f \in Folders, CloseFolder(f) PROVE UsesOne'
    BY <1>25 DEF CloseFolder
<1>26. CASE GoOnline \/ Drop
    BY <1>26 DEF GoOnline, Drop
<1>27. CASE Restart
    BY <1>27 DEF Restart
<1>28. CASE UNCHANGED vars
    BY <1>28 DEF vars
<1> QED
    BY <1>1, <1>2, <1>3, <1>4, <1>5, <1>6, <1>7, <1>8, <1>9, <1>10, <1>11,
       <1>12, <1>13, <1>14, <1>15, <1>16, <1>17, <1>18, <1>19, <1>20, <1>21,
       <1>22, <1>23, <1>24, <1>25, <1>26, <1>27, <1>28 DEF Next, Call, Step,
       Dying

\* A new session is none of those that anything refers to.
LEMMA CreatedStep == PcType /\ LocalTypes /\ StoreTypes /\ NoProxyYet /\
    AllCreated /\ [Next]_vars => AllCreated'
<1> SUFFICES ASSUME PcType, LocalTypes, StoreTypes, NoProxyYet, AllCreated,
           [Next]_vars
             PROVE  AllCreated'
    OBVIOUS
<1> USE BoundsAreNat DEF PcType, LocalTypes, Locals, StoreTypes, NoLocal,
        NoProxyYet, AllCreated, Created, NewProxy, Works, Goto, thread,
        service, locks, store, phone
<1>1. ASSUME NEW t \in Threads, Connect(t) \/ FolderInfo(t) PROVE AllCreated'
    BY <1>1 DEF Connect, FolderInfo, Begin
<1>2. ASSUME NEW t \in Threads, Disconnect(t) PROVE AllCreated'
    BY <1>2 DEF Disconnect
<1>3. ASSUME NEW t \in Threads, NEW f \in Folders, OpenFolder(t, f)
      PROVE  AllCreated'
    BY <1>3 DEF OpenFolder, Begin
<1>4. ASSUME NEW t \in Threads, NEW f \in Folders, Refresh(t, f) \/ Mark(t, f)
      PROVE  AllCreated'
    BY <1>4, BeginEffect DEF Refresh, Mark, OthersSame
<1>5. ASSUME NEW t \in Threads, AlreadyConnected(t) \/ ConnectFails(t)
      PROVE  AllCreated'
    BY <1>5 DEF AlreadyConnected, ConnectFails, ConnectReturns, Return
<1>6. ASSUME NEW t \in Threads, CreateSession(t) PROVE AllCreated'
    BY <1>6 DEF CreateSession
<1>7. ASSUME NEW t \in Threads, CreateProxies(t) PROVE AllCreated'
    BY <1>7 DEF CreateProxies
<1>8. ASSUME NEW t \in Threads, ConnectLock(t) \/ MarkLock(t)
      PROVE  AllCreated'
    BY <1>8 DEF ConnectLock, MarkLock, Lock
<1>9. ASSUME NEW t \in Threads, ConnectSelect(t) PROVE AllCreated'
    BY <1>9 DEF ConnectSelect, SetFolder, ConnectReturns, Return
<1>10. ASSUME NEW t \in Threads, ConnectList(t) PROVE AllCreated'
    BY <1>10 DEF ConnectList, ConnectReturns, Return
<1>11. ASSUME NEW t \in Threads, ForgetMap(t) PROVE AllCreated'
    BY <1>11 DEF ForgetMap
<1>12. ASSUME NEW t \in Threads, ForgetPath(t) PROVE AllCreated'
    BY <1>12 DEF ForgetPath, Return
<1>13. ASSUME NEW t \in Threads, OpenLock(t) \/ RefreshLock(t) \/
            FolderInfoLock(t)
      PROVE  AllCreated'
    BY <1>13 DEF OpenLock, RefreshLock, FolderInfoLock, Lock
<1>14. ASSUME NEW t \in Threads, OpenSelect(t) PROVE AllCreated'
    BY <1>14 DEF OpenSelect, SetFolder, Return
<1>15. ASSUME NEW t \in Threads, Dying(t) PROVE AllCreated'
    BY <1>15 DEF Dying, OpenDies, RefDies, FolderInfoDies, UpdateInboxDies,
       RefreshDies, MarkPathDies, MarkSelectDies, MarkWriteDies, Die
<1>16. ASSUME NEW t \in Threads, NewFolder(t) \/ MarkAsk(t) PROVE AllCreated'
    BY <1>16 DEF NewFolder, MarkAsk
<1>17. ASSUME NEW t \in Threads, RefProxy(t) PROVE AllCreated'
    BY <1>17 DEF RefProxy, Return
<1>18. ASSUME NEW t \in Threads, FolderInfoOffline(t) \/ FolderInfoOnline(t) \/
            FolderInfoConnected(t) \/ FolderInfoConnect(t)
      PROVE  AllCreated'
    BY <1>18 DEF FolderInfoOffline, FolderInfoOnline, FolderInfoConnected,
       FolderInfoConnect, Return
<1>19. ASSUME NEW t \in Threads, FolderInfoSelect(t) PROVE AllCreated'
    BY <1>19 DEF FolderInfoSelect, SetFolder, Return
<1>20. ASSUME NEW t \in Threads, UpdateInbox(t) PROVE AllCreated'
    BY <1>20 DEF UpdateInbox
<1>21. ASSUME NEW t \in Threads, RefreshSelect(t) \/ MarkSelect(t)
      PROVE  AllCreated'
    BY <1>21 DEF RefreshSelect, MarkSelect, SetFolder
<1>22. ASSUME NEW t \in Threads, RefreshList(t) \/ RefreshProcess(t) \/
            MarkWrite(t)
      PROVE  AllCreated'
    BY <1>22 DEF RefreshList, RefreshProcess, MarkWrite
<1>23. ASSUME NEW t \in Threads, RefreshUnlock(t) \/ MarkUnlock(t)
      PROVE  AllCreated'
    BY <1>23 DEF RefreshUnlock, MarkUnlock, Return
<1>24. ASSUME NEW t \in Threads, MarkPath(t) PROVE AllCreated'
    BY <1>24 DEF MarkPath
<1>25. ASSUME NEW f \in Folders, CloseFolder(f) PROVE AllCreated'
    BY <1>25 DEF CloseFolder
<1>26. CASE GoOnline \/ Drop
    BY <1>26 DEF GoOnline, Drop
<1>27. CASE Restart
    BY <1>27 DEF Restart
<1>28. CASE UNCHANGED vars
    BY <1>28 DEF vars
<1> QED
    BY <1>1, <1>2, <1>3, <1>4, <1>5, <1>6, <1>7, <1>8, <1>9, <1>10, <1>11,
       <1>12, <1>13, <1>14, <1>15, <1>16, <1>17, <1>18, <1>19, <1>20, <1>21,
       <1>22, <1>23, <1>24, <1>25, <1>26, <1>27, <1>28 DEF Next, Call, Step,
       Dying

----------------------------------------------------------------------------
(* Operations on folders.                                                  *)

\* A folder that is being opened is not opened, used or closed by another
\* thread.
LEMMA OpenedStep == PcType /\ LocalTypes /\ StoreTypes /\ UsesOne /\
    OpenedOnce /\ [Next]_vars => OpenedOnce'
<1> SUFFICES ASSUME PcType, LocalTypes, StoreTypes, UsesOne, OpenedOnce,
           [Next]_vars
             PROVE  OpenedOnce'
    OBVIOUS
<1> USE NamesDistinct, BoundsAreNat DEF PcType, LocalTypes, Locals,
        StoreTypes, NoLocal, UsesOne, HoldSteps, OpenedOnce, OpenSteps,
        UseSteps, Goto, thread, service, locks, store, phone
<1>1. ASSUME NEW t \in Threads, Connect(t) \/ FolderInfo(t) PROVE OpenedOnce'
  <2>1. /\ pc'[t] \in {"c_start", "i_start"} /\ local'[t].folder = MsgDir
        /\ folder_map' = folder_map /\ OthersSame(t)
      BY <1>1, NoFolderEffect
  <2>2. MsgDir \notin Folders
      BY NamesDistinct
  <2> QED
      BY <2>1, <2>2 DEF OthersSame
<1>2. ASSUME NEW t \in Threads, Disconnect(t) PROVE OpenedOnce'
    BY <1>2 DEF Disconnect
<1>3. ASSUME NEW t \in Threads, NEW f \in Folders, OpenFolder(t, f)
      PROVE  OpenedOnce'
    BY <1>3 DEF OpenFolder, Begin
<1>4. ASSUME NEW t \in Threads, NEW f \in Folders, Refresh(t, f) \/ Mark(t, f)
      PROVE  OpenedOnce'
    BY <1>4, BeginEffect DEF Refresh, Mark, OthersSame
<1>5. ASSUME NEW t \in Threads, AlreadyConnected(t) \/ ConnectFails(t)
      PROVE  OpenedOnce'
    BY <1>5 DEF AlreadyConnected, ConnectFails, ConnectReturns, Return
<1>6. ASSUME NEW t \in Threads, CreateSession(t) PROVE OpenedOnce'
    BY <1>6 DEF CreateSession
<1>7. ASSUME NEW t \in Threads, CreateProxies(t) PROVE OpenedOnce'
    BY <1>7 DEF CreateProxies
<1>8. ASSUME NEW t \in Threads, ConnectLock(t) \/ MarkLock(t)
      PROVE  OpenedOnce'
    BY <1>8 DEF ConnectLock, MarkLock, Lock
<1>9. ASSUME NEW t \in Threads, ConnectSelect(t) PROVE OpenedOnce'
    BY <1>9 DEF ConnectSelect, SetFolder, ConnectReturns, Return
<1>10. ASSUME NEW t \in Threads, ConnectList(t) PROVE OpenedOnce'
    BY <1>10 DEF ConnectList, ConnectReturns, Return
<1>11. ASSUME NEW t \in Threads, ForgetMap(t) PROVE OpenedOnce'
    BY <1>11 DEF ForgetMap
<1>12. ASSUME NEW t \in Threads, ForgetPath(t) PROVE OpenedOnce'
    BY <1>12 DEF ForgetPath, Return
<1>13. ASSUME NEW t \in Threads, OpenLock(t) \/ RefreshLock(t) \/
            FolderInfoLock(t)
      PROVE  OpenedOnce'
    BY <1>13 DEF OpenLock, RefreshLock, FolderInfoLock, Lock
<1>14. ASSUME NEW t \in Threads, OpenSelect(t) PROVE OpenedOnce'
    BY <1>14 DEF OpenSelect, SetFolder, Return
<1>15. ASSUME NEW t \in Threads, Dying(t) PROVE OpenedOnce'
    BY <1>15 DEF Dying, OpenDies, RefDies, FolderInfoDies, UpdateInboxDies,
       RefreshDies, MarkPathDies, MarkSelectDies, MarkWriteDies, Die
<1>16. ASSUME NEW t \in Threads, NewFolder(t) \/ MarkAsk(t) PROVE OpenedOnce'
    BY <1>16 DEF NewFolder, MarkAsk
<1>17. ASSUME NEW t \in Threads, RefProxy(t) PROVE OpenedOnce'
    BY <1>17 DEF RefProxy, Return
<1>18. ASSUME NEW t \in Threads, FolderInfoOffline(t) \/ FolderInfoOnline(t) \/
            FolderInfoConnected(t) \/ FolderInfoConnect(t)
      PROVE  OpenedOnce'
    BY <1>18 DEF FolderInfoOffline, FolderInfoOnline, FolderInfoConnected,
       FolderInfoConnect, Return
<1>19. ASSUME NEW t \in Threads, FolderInfoSelect(t) PROVE OpenedOnce'
    BY <1>19 DEF FolderInfoSelect, SetFolder, Return
<1>20. ASSUME NEW t \in Threads, UpdateInbox(t) PROVE OpenedOnce'
  <2>1. /\ pc[t] = "r_update" /\ pc'[t] \in {"r_select", "r_unlock"}
        /\ local'[t].folder = local[t].folder /\ folder_map' = folder_map
        /\ OthersSame(t)
      BY <1>20 DEF UpdateInbox, OthersSame
  <2> QED
      BY <2>1 DEF OthersSame
<1>21. ASSUME NEW t \in Threads, RefreshSelect(t) \/ MarkSelect(t)
      PROVE  OpenedOnce'
    BY <1>21 DEF RefreshSelect, MarkSelect, SetFolder
<1>22. ASSUME NEW t \in Threads, RefreshList(t) \/ RefreshProcess(t) \/
            MarkWrite(t)
      PROVE  OpenedOnce'
    BY <1>22 DEF RefreshList, RefreshProcess, MarkWrite
<1>23. ASSUME NEW t \in Threads, RefreshUnlock(t) \/ MarkUnlock(t)
      PROVE  OpenedOnce'
    BY <1>23, ReturnEffect DEF RefreshUnlock, MarkUnlock, OthersSame
<1>24. ASSUME NEW t \in Threads, MarkPath(t) PROVE OpenedOnce'
    BY <1>24 DEF MarkPath
<1>25. ASSUME NEW f \in Folders, CloseFolder(f) PROVE OpenedOnce'
    BY <1>25 DEF CloseFolder
<1>26. CASE GoOnline \/ Drop
    BY <1>26 DEF GoOnline, Drop
<1>27. CASE Restart
    BY <1>27 DEF Restart
<1>28. CASE UNCHANGED vars
    BY <1>28 DEF vars
<1> QED
    BY <1>1, <1>2, <1>3, <1>4, <1>5, <1>6, <1>7, <1>8, <1>9, <1>10, <1>11,
       <1>12, <1>13, <1>14, <1>15, <1>16, <1>17, <1>18, <1>19, <1>20, <1>21,
       <1>22, <1>23, <1>24, <1>25, <1>26, <1>27, <1>28 DEF Next, Call, Step,
       Dying

\* A call that no disconnect overlaps keeps the proxy it began with.
LEMMA CalmStep == PcType /\ LocalTypes /\ StoreTypes /\ OneConnects /\
    NoProxyYet /\ PathMatchesProxy /\ OpenedOnce /\ CalmMeetsProxy /\
    [Next]_vars => CalmMeetsProxy'
<1> SUFFICES ASSUME PcType, LocalTypes, StoreTypes, OneConnects, NoProxyYet,
           PathMatchesProxy, OpenedOnce, CalmMeetsProxy, [Next]_vars
             PROVE  CalmMeetsProxy'
    OBVIOUS
<1> USE NamesDistinct, BoundsAreNat DEF PcType, LocalTypes, Locals,
        StoreTypes, NoLocal, OneConnects, NoProxyYet, ServiceSteps,
        OpenedOnce, OpenSteps, UseSteps, CalmMeetsProxy, HoldSteps,
        Disconnecting, Released, Held, Goto, thread, service, locks, store,
        phone
<1>1. ASSUME NEW t \in Threads, Connect(t) \/ FolderInfo(t)
      PROVE  CalmMeetsProxy'
    BY <1>1 DEF Connect, FolderInfo, Begin
<1>2. ASSUME NEW t \in Threads, Disconnect(t) PROVE CalmMeetsProxy'
    BY <1>2 DEF Disconnect
<1>3. ASSUME NEW t \in Threads, NEW f \in Folders, OpenFolder(t, f)
      PROVE  CalmMeetsProxy'
    BY <1>3 DEF OpenFolder, Begin
<1>4. ASSUME NEW t \in Threads, NEW f \in Folders, Refresh(t, f) \/ Mark(t, f)
      PROVE  CalmMeetsProxy'
    BY <1>4 DEF Refresh, Mark, Begin
<1>5. ASSUME NEW t \in Threads, AlreadyConnected(t) \/ ConnectFails(t)
      PROVE  CalmMeetsProxy'
    BY <1>5 DEF AlreadyConnected, ConnectFails, ConnectReturns, Return
<1>6. ASSUME NEW t \in Threads, CreateSession(t) PROVE CalmMeetsProxy'
    BY <1>6 DEF CreateSession
<1>7. ASSUME NEW t \in Threads, CreateProxies(t) PROVE CalmMeetsProxy'
    BY <1>7 DEF CreateProxies
<1>8. ASSUME NEW t \in Threads, ConnectLock(t) \/ MarkLock(t)
      PROVE  CalmMeetsProxy'
    BY <1>8 DEF ConnectLock, MarkLock, Lock
<1>9. ASSUME NEW t \in Threads, ConnectSelect(t) PROVE CalmMeetsProxy'
    BY <1>9 DEF ConnectSelect, SetFolder, ConnectReturns, Return
<1>10. ASSUME NEW t \in Threads, ConnectList(t) PROVE CalmMeetsProxy'
    BY <1>10 DEF ConnectList, ConnectReturns, Return
<1>11. ASSUME NEW t \in Threads, ForgetMap(t) PROVE CalmMeetsProxy'
    BY <1>11 DEF ForgetMap
<1>12. ASSUME NEW t \in Threads, ForgetPath(t) PROVE CalmMeetsProxy'
    BY <1>12 DEF ForgetPath, Return
<1>13. ASSUME NEW t \in Threads, OpenLock(t) \/ RefreshLock(t) \/
            FolderInfoLock(t)
      PROVE  CalmMeetsProxy'
    BY <1>13 DEF OpenLock, RefreshLock, FolderInfoLock, Lock
<1>14. ASSUME NEW t \in Threads, OpenSelect(t) PROVE CalmMeetsProxy'
    BY <1>14 DEF OpenSelect, SetFolder, Return
<1>15. ASSUME NEW t \in Threads, Dying(t) PROVE CalmMeetsProxy'
    BY <1>15 DEF Dying, OpenDies, RefDies, FolderInfoDies, UpdateInboxDies,
       RefreshDies, MarkPathDies, MarkSelectDies, MarkWriteDies, Die
<1>16. ASSUME NEW t \in Threads, NewFolder(t) \/ MarkAsk(t)
      PROVE  CalmMeetsProxy'
    BY <1>16 DEF NewFolder, MarkAsk
<1>17. ASSUME NEW t \in Threads, RefProxy(t) PROVE CalmMeetsProxy'
    BY <1>17 DEF RefProxy, Return
<1>18. ASSUME NEW t \in Threads, FolderInfoOffline(t) \/ FolderInfoOnline(t) \/
            FolderInfoConnected(t) \/ FolderInfoConnect(t)
      PROVE  CalmMeetsProxy'
    BY <1>18 DEF FolderInfoOffline, FolderInfoOnline, FolderInfoConnected,
       FolderInfoConnect, Return
<1>19. ASSUME NEW t \in Threads, FolderInfoSelect(t) PROVE CalmMeetsProxy'
    BY <1>19 DEF FolderInfoSelect, SetFolder, Return
<1>20. ASSUME NEW t \in Threads, UpdateInbox(t) PROVE CalmMeetsProxy'
  <2>1. /\ pc[t] = "r_update" /\ pc'[t] \in {"r_select", "r_unlock"}
        /\ pc'[t] = "r_select" => local'[t].using = map
        /\ local'[t].folder = local[t].folder /\ local'[t].calm = local[t].calm
        /\ OthersSame(t)
        /\ UNCHANGED <<map, folder_map>>
      BY <1>20 DEF UpdateInbox, OthersSame
  <2> QED
      BY <2>1 DEF OthersSame
<1>21. ASSUME NEW t \in Threads, RefreshSelect(t) \/ MarkSelect(t)
      PROVE  CalmMeetsProxy'
    BY <1>21 DEF RefreshSelect, MarkSelect, SetFolder
<1>22. ASSUME NEW t \in Threads, RefreshList(t) \/ RefreshProcess(t) \/
            MarkWrite(t)
      PROVE  CalmMeetsProxy'
    BY <1>22 DEF RefreshList, RefreshProcess, MarkWrite
<1>23. ASSUME NEW t \in Threads, RefreshUnlock(t) \/ MarkUnlock(t)
      PROVE  CalmMeetsProxy'
    BY <1>23 DEF RefreshUnlock, MarkUnlock, Return
<1>24. ASSUME NEW t \in Threads, MarkPath(t) PROVE CalmMeetsProxy'
  <2>1. PICK p \in {session_path, Null} :
            /\ local' = [local EXCEPT ![t].path = p]
            /\ p = session_path \/ Disconnecting
      BY <1>24 DEF MarkPath
  <2>2. map # Null => session_path # Null
      BY DEF PathMatchesProxy, Proxies, Sessions
  <2>3. CASE local[t].calm
    <3>1. p # Null
        BY <2>1, <2>2, <2>3
    <3> QED
        BY <1>24, <2>1, <3>1 DEF MarkPath
  <2>4. CASE ~local[t].calm
      BY <1>24, <2>1, <2>4 DEF MarkPath
  <2> QED
      BY <2>3, <2>4
<1>25. ASSUME NEW f \in Folders, CloseFolder(f) PROVE CalmMeetsProxy'
    BY <1>25 DEF CloseFolder
<1>26. CASE GoOnline \/ Drop
    BY <1>26 DEF GoOnline, Drop
<1>27. CASE Restart
    BY <1>27 DEF Restart
<1>28. CASE UNCHANGED vars
    BY <1>28 DEF vars
<1> QED
    BY <1>1, <1>2, <1>3, <1>4, <1>5, <1>6, <1>7, <1>8, <1>9, <1>10, <1>11,
       <1>12, <1>13, <1>14, <1>15, <1>16, <1>17, <1>18, <1>19, <1>20, <1>21,
       <1>22, <1>23, <1>24, <1>25, <1>26, <1>27, <1>28 DEF Next, Call, Step,
       Dying

\* What a thread selected stays selected while it holds the folder lock, in
\* the session where it selected it; a session made since is none that an
\* open folder has a proxy of.
LEMMA SelectedStep == PcType /\ LocalTypes /\ StoreTypes /\ LockHeld /\
    AllCreated /\ OpenedOnce /\ Selected /\ [Next]_vars => Selected'
<1> SUFFICES ASSUME PcType, LocalTypes, StoreTypes, LockHeld, AllCreated,
           OpenedOnce, Selected, [Next]_vars
             PROVE  Selected'
    OBVIOUS
<1> USE NamesDistinct, BoundsAreNat DEF PcType, LocalTypes, Locals,
        StoreTypes, NoLocal, LockHeld, LockedSteps, OpenedOnce, OpenSteps,
        UseSteps, Selected, Works, Goto, thread, service, locks, store, phone
<1>1. ASSUME NEW t \in Threads, Connect(t) \/ FolderInfo(t) PROVE Selected'
    BY <1>1 DEF Connect, FolderInfo, Begin
<1>2. ASSUME NEW t \in Threads, Disconnect(t) PROVE Selected'
    BY <1>2 DEF Disconnect
<1>3. ASSUME NEW t \in Threads, NEW f \in Folders, OpenFolder(t, f)
      PROVE  Selected'
    BY <1>3 DEF OpenFolder, Begin
<1>4. ASSUME NEW t \in Threads, NEW f \in Folders, Refresh(t, f) \/ Mark(t, f)
      PROVE  Selected'
    BY <1>4 DEF Refresh, Mark, Begin
<1>5. ASSUME NEW t \in Threads, AlreadyConnected(t) \/ ConnectFails(t)
      PROVE  Selected'
    BY <1>5 DEF AlreadyConnected, ConnectFails, ConnectReturns, Return
<1>6. ASSUME NEW t \in Threads, CreateSession(t) PROVE Selected'
    BY <1>6 DEF CreateSession, AllCreated, Created, Proxies, Sessions
<1>7. ASSUME NEW t \in Threads, CreateProxies(t) PROVE Selected'
    BY <1>7 DEF CreateProxies
<1>8. ASSUME NEW t \in Threads, ConnectLock(t) \/ MarkLock(t) PROVE Selected'
    BY <1>8 DEF ConnectLock, MarkLock, Lock
<1>9. ASSUME NEW t \in Threads, ConnectSelect(t) PROVE Selected'
    BY <1>9 DEF ConnectSelect, SetFolder, ConnectReturns, Return
<1>10. ASSUME NEW t \in Threads, ConnectList(t) PROVE Selected'
    BY <1>10 DEF ConnectList, ConnectReturns, Return
<1>11. ASSUME NEW t \in Threads, ForgetMap(t) PROVE Selected'
    BY <1>11 DEF ForgetMap
<1>12. ASSUME NEW t \in Threads, ForgetPath(t) PROVE Selected'
    BY <1>12 DEF ForgetPath, Return
<1>13. ASSUME NEW t \in Threads, OpenLock(t) \/ RefreshLock(t) \/
            FolderInfoLock(t)
      PROVE  Selected'
    BY <1>13 DEF OpenLock, RefreshLock, FolderInfoLock, Lock
<1>14. ASSUME NEW t \in Threads, OpenSelect(t) PROVE Selected'
    BY <1>14 DEF OpenSelect, SetFolder, Return
<1>15. ASSUME NEW t \in Threads, Dying(t) PROVE Selected'
    BY <1>15 DEF Dying, OpenDies, RefDies, FolderInfoDies, UpdateInboxDies,
       RefreshDies, MarkPathDies, MarkSelectDies, MarkWriteDies, Die
<1>16. ASSUME NEW t \in Threads, NewFolder(t) \/ MarkAsk(t) PROVE Selected'
    BY <1>16 DEF NewFolder, MarkAsk
<1>17. ASSUME NEW t \in Threads, RefProxy(t) PROVE Selected'
    BY <1>17 DEF RefProxy, Return
<1>18. ASSUME NEW t \in Threads, FolderInfoOffline(t) \/ FolderInfoOnline(t) \/
            FolderInfoConnected(t) \/ FolderInfoConnect(t)
      PROVE  Selected'
    BY <1>18 DEF FolderInfoOffline, FolderInfoOnline, FolderInfoConnected,
       FolderInfoConnect, Return
<1>19. ASSUME NEW t \in Threads, FolderInfoSelect(t) PROVE Selected'
    BY <1>19 DEF FolderInfoSelect, SetFolder, Return
<1>20. ASSUME NEW t \in Threads, UpdateInbox(t) PROVE Selected'
    BY <1>20 DEF UpdateInbox
<1>21. ASSUME NEW t \in Threads, RefreshSelect(t) \/ MarkSelect(t)
      PROVE  Selected'
    BY <1>21 DEF RefreshSelect, MarkSelect, SetFolder
<1>22. ASSUME NEW t \in Threads, RefreshList(t) \/ RefreshProcess(t) \/
            MarkWrite(t)
      PROVE  Selected'
    BY <1>22 DEF RefreshList, RefreshProcess, MarkWrite
<1>23. ASSUME NEW t \in Threads, RefreshUnlock(t) \/ MarkUnlock(t)
      PROVE  Selected'
    BY <1>23 DEF RefreshUnlock, MarkUnlock, Return
<1>24. ASSUME NEW t \in Threads, MarkPath(t) PROVE Selected'
    BY <1>24 DEF MarkPath
<1>25. ASSUME NEW f \in Folders, CloseFolder(f) PROVE Selected'
    BY <1>25 DEF CloseFolder
<1>26. CASE GoOnline \/ Drop
    BY <1>26 DEF GoOnline, Drop, Proxies, Sessions
<1>27. CASE Restart
    BY <1>27 DEF Restart
<1>28. CASE UNCHANGED vars
    BY <1>28 DEF vars
<1> QED
    BY <1>1, <1>2, <1>3, <1>4, <1>5, <1>6, <1>7, <1>8, <1>9, <1>10, <1>11,
       <1>12, <1>13, <1>14, <1>15, <1>16, <1>17, <1>18, <1>19, <1>20, <1>21,
       <1>22, <1>23, <1>24, <1>25, <1>26, <1>27, <1>28 DEF Next, Call, Step,
       Dying

\* A listing or a write that succeeds was made in the session and in the
\* directory that its thread selected.
UseSelected ==
    \A t \in Threads :
        /\ pc[t] = "r_list" /\ pc'[t] = "r_process"
           => local[t].chosen = live /\ dir = MsgDir
        /\ pc[t] = "m_write" /\ pc'[t] = "m_written"
           => local[t].chosen = live /\ dir = local[t].folder

\* Only the two steps with a selection list and mark.
LEMMA UseSelectedStep == PcType /\ Selected /\ [Next]_vars => UseSelected
<1> SUFFICES ASSUME PcType, Selected, [Next]_vars
             PROVE  UseSelected
    OBVIOUS
<1> USE DEF PcType, Selected, UseSelected, Goto, thread, service, locks,
        store, phone
<1>1. ASSUME NEW t \in Threads, Connect(t) \/ FolderInfo(t) PROVE UseSelected
    BY <1>1 DEF Connect, FolderInfo, Begin
<1>2. ASSUME NEW t \in Threads, Disconnect(t) PROVE UseSelected
    BY <1>2 DEF Disconnect
<1>3. ASSUME NEW t \in Threads, NEW f \in Folders, OpenFolder(t, f)
      PROVE  UseSelected
    BY <1>3 DEF OpenFolder, Begin
<1>4. ASSUME NEW t \in Threads, NEW f \in Folders, Refresh(t, f) \/ Mark(t, f)
      PROVE  UseSelected
    BY <1>4 DEF Refresh, Mark, Begin
<1>5. ASSUME NEW t \in Threads, AlreadyConnected(t) \/ ConnectFails(t)
      PROVE  UseSelected
    BY <1>5 DEF AlreadyConnected, ConnectFails, ConnectReturns, Return
<1>6. ASSUME NEW t \in Threads, CreateSession(t) PROVE UseSelected
    BY <1>6 DEF CreateSession
<1>7. ASSUME NEW t \in Threads, CreateProxies(t) PROVE UseSelected
    BY <1>7 DEF CreateProxies
<1>8. ASSUME NEW t \in Threads, ConnectLock(t) \/ MarkLock(t)
      PROVE  UseSelected
    BY <1>8 DEF ConnectLock, MarkLock, Lock
<1>9. ASSUME NEW t \in Threads, ConnectSelect(t) PROVE UseSelected
    BY <1>9 DEF ConnectSelect, SetFolder, ConnectReturns, Return
<1>10. ASSUME NEW t \in Threads, ConnectList(t) PROVE UseSelected
    BY <1>10 DEF ConnectList, ConnectReturns, Return
<1>11. ASSUME NEW t \in Threads, ForgetMap(t) PROVE UseSelected
    BY <1>11 DEF ForgetMap
<1>12. ASSUME NEW t \in Threads, ForgetPath(t) PROVE UseSelected
    BY <1>12 DEF ForgetPath, Return
<1>13. ASSUME NEW t \in Threads, OpenLock(t) \/ RefreshLock(t) \/
            FolderInfoLock(t)
      PROVE  UseSelected
    BY <1>13 DEF OpenLock, RefreshLock, FolderInfoLock, Lock
<1>14. ASSUME NEW t \in Threads, OpenSelect(t) PROVE UseSelected
    BY <1>14 DEF OpenSelect, SetFolder, Return
<1>15. ASSUME NEW t \in Threads, Dying(t) PROVE UseSelected
    BY <1>15 DEF Dying, OpenDies, RefDies, FolderInfoDies, UpdateInboxDies,
       RefreshDies, MarkPathDies, MarkSelectDies, MarkWriteDies, Die
<1>16. ASSUME NEW t \in Threads, NewFolder(t) \/ MarkAsk(t) PROVE UseSelected
    BY <1>16 DEF NewFolder, MarkAsk
<1>17. ASSUME NEW t \in Threads, RefProxy(t) PROVE UseSelected
    BY <1>17 DEF RefProxy, Return
<1>18. ASSUME NEW t \in Threads, FolderInfoOffline(t) \/ FolderInfoOnline(t) \/
            FolderInfoConnected(t) \/ FolderInfoConnect(t)
      PROVE  UseSelected
    BY <1>18 DEF FolderInfoOffline, FolderInfoOnline, FolderInfoConnected,
       FolderInfoConnect, Return
<1>19. ASSUME NEW t \in Threads, FolderInfoSelect(t) PROVE UseSelected
    BY <1>19 DEF FolderInfoSelect, SetFolder, Return
<1>20. ASSUME NEW t \in Threads, UpdateInbox(t) PROVE UseSelected
    BY <1>20 DEF UpdateInbox
<1>21. ASSUME NEW t \in Threads, RefreshSelect(t) \/ MarkSelect(t)
      PROVE  UseSelected
    BY <1>21 DEF RefreshSelect, MarkSelect, SetFolder
<1>22. ASSUME NEW t \in Threads, RefreshList(t) \/ RefreshProcess(t) \/
            MarkWrite(t)
      PROVE  UseSelected
    BY <1>22 DEF RefreshList, RefreshProcess, MarkWrite
<1>23. ASSUME NEW t \in Threads, RefreshUnlock(t) \/ MarkUnlock(t)
      PROVE  UseSelected
    BY <1>23 DEF RefreshUnlock, MarkUnlock, Return
<1>24. ASSUME NEW t \in Threads, MarkPath(t) PROVE UseSelected
    BY <1>24 DEF MarkPath
<1>25. ASSUME NEW f \in Folders, CloseFolder(f) PROVE UseSelected
    BY <1>25 DEF CloseFolder
<1>26. CASE GoOnline \/ Drop
    BY <1>26 DEF GoOnline, Drop
<1>27. CASE Restart
    BY <1>27 DEF Restart
<1>28. CASE UNCHANGED vars
    BY <1>28 DEF vars
<1> QED
    BY <1>1, <1>2, <1>3, <1>4, <1>5, <1>6, <1>7, <1>8, <1>9, <1>10, <1>11,
       <1>12, <1>13, <1>14, <1>15, <1>16, <1>17, <1>18, <1>19, <1>20, <1>21,
       <1>22, <1>23, <1>24, <1>25, <1>26, <1>27, <1>28 DEF Next, Call, Step,
       Dying

----------------------------------------------------------------------------
(* The invariant, and what it gives.                                       *)

\* The initial states satisfy the invariant.
LEMMA InitInv == Init => IInv
<1> SUFFICES ASSUME Init PROVE IInv
    OBVIOUS
<1>1. PcType /\ LocalTypes
  <2>1. local \in [Threads -> Locals]
      BY LocalFields DEF Init
  <2> QED
      BY <2>1 DEF Init, PcType, Labels, LocalTypes
<1>2. ServiceTypes /\ StoreTypes
    BY BoundsAreNat DEF Init, ServiceTypes, StoreTypes, Dirs
<1>3. LockHeld /\ OneConnects /\ NoProxyYet /\ PathMatchesProxy /\ UsesOne
    BY DEF Init, LockHeld, LockedSteps, OneConnects, ServiceSteps, NoProxyYet,
       PathMatchesProxy, UsesOne, NoLocal
<1>4. AllCreated /\ OpenedOnce
    BY BoundsAreNat DEF Init, AllCreated, OpenedOnce, OpenSteps, UseSteps, NoLocal
<1>5. CalmMeetsProxy /\ Selected
    BY DEF Init, CalmMeetsProxy, Selected, NoLocal
<1> QED
    BY <1>1, <1>2, <1>3, <1>4, <1>5, TypeParts DEF IInv

\* Every step keeps it.
LEMMA NextInv == IInv /\ [Next]_vars => IInv'
<1> SUFFICES ASSUME IInv, [Next]_vars
             PROVE  IInv'
    OBVIOUS
<1>1. PcType /\ LocalTypes /\ ServiceTypes /\ StoreTypes
    BY TypeParts DEF IInv
<1>2. PcType' /\ LocalTypes' /\ ServiceTypes' /\ StoreTypes'
    BY <1>1, PcStep, LocalStep, ServiceStep, StoreStep DEF IInv
<1>3. TypeOK'
    BY <1>2 DEF TypeOK, PcType, Labels, ServiceSteps, LockedSteps, OpenSteps,
       UseSteps, LocalTypes, Locals, ServiceTypes, StoreTypes
<1>4. LockHeld' /\ OneConnects' /\ NoProxyYet' /\ PathMatchesProxy'
    BY <1>1, LockHeldStep, OneConnectsStep, NoProxyYetStep, PathMatchesStep
       DEF IInv
<1>5. AllCreated' /\ OpenedOnce' /\ UsesOne'
    BY <1>1, CreatedStep, OpenedStep, UsesOneStep DEF IInv
<1>6. CalmMeetsProxy' /\ Selected'
    BY <1>1, CalmStep, SelectedStep DEF IInv
<1> QED
    BY <1>3, <1>4, <1>5, <1>6 DEF IInv

\* The invariant holds in every state of the connection
\* (camel-map-store.c 188-323, 346-376, 469-499, 756-829).
THEOREM Invariance == Spec => []IInv
BY InitInv, NextInv, PTL DEF Spec

\* Every state of the connection and of its threads has its type; in
\* particular a new proxy is always found among the bounded ones.
THEOREM TypeCorrect == Spec => []TypeOK
<1>1. IInv => TypeOK
    BY DEF IInv
<1> QED
    BY <1>1, Invariance, PTL

\* While a proxy can be read, session_path is the path of its session
\* (map_connect_sync and map_disconnect_sync).
THEOREM PathMatchesProxyHolds == Spec => []PathMatchesProxy
<1>1. IInv => PathMatchesProxy
    BY DEF IInv
<1> QED
    BY <1>1, Invariance, PTL

\* No call ends the process that began with a proxy and that no disconnect
\* overlapped.
THEOREM CalmCallsSurviveHolds == Spec => []CalmCallsSurvive
<1>1. IInv => CalmCallsSurvive
    BY DEF IInv, CalmMeetsProxy, CalmCallsSurvive
<1> QED
    BY <1>1, Invariance, PTL

\* A refresh whose listing succeeds lists "/telecom/msg" in the session where
\* it selected that.
THEOREM ListsSelectedHolds == Spec => ListsSelected
<1> DEFINE Lists == \A t \in Threads :
                       pc[t] = "r_list" /\ pc'[t] = "r_process"
                       => local[t].chosen = live /\ dir = MsgDir
<1>1. IInv /\ [Next]_vars => Lists
    BY UseSelectedStep, TypeParts DEF IInv, UseSelected
<1>2. IInv /\ [Next]_vars => [Lists]_vars
    BY <1>1
<1> QED
    BY <1>2, Invariance, PTL DEF Spec, ListsSelected

\* A message is marked in the session where its folder was selected, and with
\* that folder selected.
THEOREM MarksSelectedHolds == Spec => MarksSelected
<1> DEFINE Marks == \A t \in Threads :
                       pc[t] = "m_write" /\ pc'[t] = "m_written"
                       => local[t].chosen = live /\ dir = local[t].folder
<1>1. IInv /\ [Next]_vars => Marks
    BY UseSelectedStep, TypeParts DEF IInv, UseSelected
<1>2. IInv /\ [Next]_vars => [Marks]_vars
    BY <1>1
<1> QED
    BY <1>2, Invariance, PTL DEF Spec, MarksSelected

============================================================================
