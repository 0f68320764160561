---------------------- MODULE MapMessageFetchProofs ------------------------
(***************************************************************************)
(* The safety properties of MapMessageFetch for any set of threads and     *)
(* messages and any number of calls, timeouts and crashes.                 *)
(*                                                                         *)
(* FetchMutex and FolderLockExact are inductive together with the types.   *)
(* OwnMessage is not: it needs that the file a thread is about to parse    *)
(* holds that thread's message.  That follows from the folder lock, which  *)
(* no second thread holds, and from the absence of late transfers.         *)
(***************************************************************************)
EXTENDS MapMessageFetch, TLAPS

\* What bt_message holds when it is parsed, as long as no transfer was
\* reported as done while it was not.
FreshFile ==
    unfinished = 0 =>
        /\ late = {}
        /\ \A t \in Threads : pc[t] = "parse" => bt_message = req[t]

\* The inductive invariant.
IInv == TypeOK /\ FetchMutex /\ FolderLockExact /\ FreshFile /\ OwnMessage

----------------------------------------------------------------------------
\* Every step keeps the types: camel-map-folder.c 223-507.
LEMMA TypeStep == TypeOK /\ [Next]_vars => TypeOK'
<1> SUFFICES ASSUME TypeOK, [Next]_vars PROVE TypeOK'
    OBVIOUS
<1> USE NamesDistinct, BoundsAreNat
<1>1. ASSUME NEW t \in Threads, NEW u \in Uids,
             GetMessageSync(t, u) \/ GetMessageCached(t, u)
      PROVE  TypeOK'
    BY <1>1 DEF TypeOK, GetMessageSync, GetMessageCached, Start, Move, Labels,
                Content
<1>2. ASSUME NEW t \in Threads,
             ReadCached(t) \/ ReadFirst(t) \/ ReadWaited(t) \/ ReadFetched(t)
      PROVE  TypeOK'
    BY <1>2 DEF TypeOK, ReadCached, ReadFirst, ReadWaited, ReadFetched, Return,
                Move, FromCache, Labels, Fetching, Content
<1>3. ASSUME NEW t \in Threads,
             Check(t) \/ Recheck(t) \/ SpuriousWake(t)
      PROVE  TypeOK'
    BY <1>3 DEF TypeOK, Check, Recheck, SpuriousWake, Move, Labels, Fetching
<1>4. ASSUME NEW t \in Threads,
             LockFolder(t) \/ Prepare(t) \/ UnlockFolder(t) \/ RemoveUid(t)
      PROVE  TypeOK'
    BY <1>4 DEF TypeOK, LockFolder, Prepare, UnlockFolder, RemoveUid, Move,
                Labels, Fetching
<1>5. ASSUME NEW t \in Threads,
             TransferRefused(t) \/ TransferDone(t) \/ TransferFailed(t)
             \/ TransferUnfinished(t)
      PROVE  TypeOK'
    BY <1>5 DEF TypeOK, TransferRefused, TransferDone, TransferFailed,
                TransferUnfinished, Move, Labels, Fetching, Content
<1>6. ASSUME NEW t \in Threads, ParseBtMessage(t) PROVE TypeOK'
    BY <1>6 DEF TypeOK, ParseBtMessage, Move, Labels, Fetching, Content
<1>7. ASSUME NEW t \in Threads, Broadcast(t) PROVE TypeOK'
    BY <1>7 DEF TypeOK, Broadcast, Labels
<1>8. ASSUME NEW u \in Uids, LateTransfer(u) PROVE TypeOK'
    BY <1>8 DEF TypeOK, LateTransfer, Content
<1>9. CASE Crash
    BY <1>9 DEF TypeOK, Crash, Labels, Content
<1>10. CASE UNCHANGED vars
    BY <1>10 DEF TypeOK, vars
<1> QED
    BY <1>1, <1>2, <1>3, <1>4, <1>5, <1>6, <1>7, <1>8, <1>9, <1>10
    DEF Next, Step, ParseCrash, Rest

----------------------------------------------------------------------------
\* A step that changes neither where a thread is with respect to Fetching, nor
\* its uid, nor uid_eflags keeps FetchMutex.
LEMMA FetchFrame ==
    ASSUME FetchMutex, uid_eflags' = uid_eflags,
           \A t \in Threads : pc'[t] \in Fetching <=> pc[t] \in Fetching,
           \A t \in Threads : pc[t] \in Fetching => req'[t] = req[t]
    PROVE  FetchMutex'
BY DEF FetchMutex

\* uid_eflags works as the mutex camel-map-folder.c:404 takes it for.
LEMMA FetchStep == TypeOK /\ FetchMutex /\ [Next]_vars => FetchMutex'
<1> SUFFICES ASSUME TypeOK, FetchMutex, [Next]_vars PROVE FetchMutex'
    OBVIOUS
<1>1. ASSUME NEW t \in Threads, NEW u \in Uids,
             GetMessageSync(t, u) \/ GetMessageCached(t, u)
      PROVE  FetchMutex'
    BY <1>1, FetchFrame
    DEF TypeOK, GetMessageSync, GetMessageCached, Start, Move, Fetching
<1>2. ASSUME NEW t \in Threads,
             ReadCached(t) \/ ReadFirst(t) \/ ReadWaited(t) \/ ReadFetched(t)
      PROVE  FetchMutex'
    BY <1>2, FetchFrame
    DEF TypeOK, ReadCached, ReadFirst, ReadWaited, ReadFetched, Return, Move,
        Fetching
<1>3. ASSUME NEW t \in Threads, Check(t) PROVE FetchMutex'
  <2>1. CASE req[t] \in uid_eflags
      BY <1>3, <2>1, FetchFrame DEF TypeOK, Check, Move, Fetching
  <2>2. CASE req[t] \notin uid_eflags
    <3>1. /\ pc' = [pc EXCEPT ![t] = "lock"]
          /\ uid_eflags' = uid_eflags \cup {req[t]}
          /\ req' = req
          /\ pc[t] \notin Fetching
        BY <1>3, <2>2 DEF Check, Move, Fetching
    <3>2. \A s \in Threads : pc'[s] \in Fetching <=> pc[s] \in Fetching \/ s = t
        BY <3>1 DEF TypeOK, Fetching
    <3>3. QED
        BY <3>1, <3>2, <2>2 DEF FetchMutex
  <2>3. QED
      BY <2>1, <2>2
<1>4. ASSUME NEW t \in Threads,
             Recheck(t) \/ SpuriousWake(t) \/ LockFolder(t) \/ Prepare(t)
             \/ UnlockFolder(t)
      PROVE  FetchMutex'
    BY <1>4, FetchFrame
    DEF TypeOK, Recheck, SpuriousWake, LockFolder, Prepare, UnlockFolder, Move,
        Fetching
<1>5. ASSUME NEW t \in Threads,
             TransferRefused(t) \/ TransferDone(t) \/ TransferFailed(t)
             \/ TransferUnfinished(t) \/ ParseBtMessage(t)
      PROVE  FetchMutex'
    BY <1>5, FetchFrame
    DEF TypeOK, TransferRefused, TransferDone, TransferFailed,
        TransferUnfinished, ParseBtMessage, Move, Fetching
<1>6. ASSUME NEW t \in Threads, RemoveUid(t) PROVE FetchMutex'
  <2>1. /\ pc' = [pc EXCEPT ![t] = "broadcast"]
        /\ uid_eflags' = uid_eflags \ {req[t]}
        /\ req' = req
        /\ pc[t] \in Fetching
      BY <1>6 DEF RemoveUid, Move, Fetching
  <2>2. \A s \in Threads : pc'[s] \in Fetching <=> pc[s] \in Fetching /\ s # t
      BY <2>1 DEF TypeOK, Fetching
  <2>3. QED
      BY <2>1, <2>2 DEF FetchMutex
<1>7. ASSUME NEW t \in Threads, Broadcast(t) PROVE FetchMutex'
    BY <1>7, FetchFrame DEF TypeOK, Broadcast, Fetching
<1>8. ASSUME NEW u \in Uids, LateTransfer(u) PROVE FetchMutex'
    BY <1>8 DEF LateTransfer, FetchMutex
<1>9. CASE Crash
    BY <1>9 DEF Crash, FetchMutex, Fetching
<1>10. CASE UNCHANGED vars
    BY <1>10 DEF FetchMutex, vars
<1> QED
    BY <1>1, <1>2, <1>3, <1>4, <1>5, <1>6, <1>7, <1>8, <1>9, <1>10
    DEF Next, Step, ParseCrash, Rest

----------------------------------------------------------------------------
\* The folder lock is taken and given back on every path through the fetch.
LEMMA LockStep == TypeOK /\ FolderLockExact /\ [Next]_vars => FolderLockExact'
<1> SUFFICES ASSUME TypeOK, FolderLockExact, [Next]_vars
             PROVE  FolderLockExact'
    OBVIOUS
<1> USE NamesDistinct DEF TypeOK, FolderLockExact, Locked
<1>1. ASSUME NEW t \in Threads, NEW u \in Uids,
             GetMessageSync(t, u) \/ GetMessageCached(t, u)
      PROVE  FolderLockExact'
    BY <1>1 DEF GetMessageSync, GetMessageCached, Start, Move
<1>2. ASSUME NEW t \in Threads,
             ReadCached(t) \/ ReadFirst(t) \/ ReadWaited(t) \/ ReadFetched(t)
      PROVE  FolderLockExact'
    BY <1>2 DEF ReadCached, ReadFirst, ReadWaited, ReadFetched, Return, Move
<1>3. ASSUME NEW t \in Threads,
             Check(t) \/ Recheck(t) \/ SpuriousWake(t) \/ RemoveUid(t)
             \/ Broadcast(t)
      PROVE  FolderLockExact'
    BY <1>3 DEF Check, Recheck, SpuriousWake, RemoveUid, Broadcast, Move
<1>4. ASSUME NEW t \in Threads, LockFolder(t) \/ UnlockFolder(t)
      PROVE  FolderLockExact'
    BY <1>4 DEF LockFolder, UnlockFolder, Move
<1>5. ASSUME NEW t \in Threads,
             Prepare(t) \/ TransferRefused(t) \/ TransferDone(t)
             \/ TransferFailed(t) \/ TransferUnfinished(t) \/ ParseBtMessage(t)
      PROVE  FolderLockExact'
    BY <1>5 DEF Prepare, TransferRefused, TransferDone, TransferFailed,
                TransferUnfinished, ParseBtMessage, Move
<1>6. ASSUME NEW u \in Uids, LateTransfer(u) PROVE FolderLockExact'
    BY <1>6 DEF LateTransfer
<1>7. CASE Crash
    BY <1>7 DEF Crash
<1>8. CASE UNCHANGED vars
    BY <1>8 DEF vars
<1> QED
    BY <1>1, <1>2, <1>3, <1>4, <1>5, <1>6, <1>7, <1>8
    DEF Next, Step, ParseCrash, Rest

----------------------------------------------------------------------------
\* Two threads are never both between taking and giving back the folder lock.
LEMMA OneLocked ==
    ASSUME FolderLockExact, NEW s \in Threads, NEW t \in Threads,
           pc[s] \in Locked, pc[t] \in Locked
    PROVE  s = t
BY DEF FolderLockExact

\* A file about to be parsed holds the message of the thread that parses it.
LEMMA FileStep ==
    TypeOK /\ FolderLockExact /\ FreshFile /\ [Next]_vars => FreshFile'
<1> SUFFICES ASSUME TypeOK, FolderLockExact, FreshFile, [Next]_vars,
                    unfinished' = 0
             PROVE  late' = {} /\ \A t \in Threads :
                                     pc'[t] = "parse" => bt_message' = req'[t]
    BY DEF FreshFile
<1> DEFINE Goal == late' = {} /\ \A t \in Threads :
                                     pc'[t] = "parse" => bt_message' = req'[t]
<1> USE DEF TypeOK, FreshFile
<1>1. ASSUME NEW t \in Threads, NEW u \in Uids,
             GetMessageSync(t, u) \/ GetMessageCached(t, u)
      PROVE  Goal
    BY <1>1 DEF GetMessageSync, GetMessageCached, Start, Move
<1>2. ASSUME NEW t \in Threads,
             ReadCached(t) \/ ReadFirst(t) \/ ReadWaited(t) \/ ReadFetched(t)
      PROVE  Goal
    BY <1>2 DEF ReadCached, ReadFirst, ReadWaited, ReadFetched, Return, Move
<1>3. ASSUME NEW t \in Threads,
             Check(t) \/ Recheck(t) \/ SpuriousWake(t) \/ LockFolder(t)
             \/ Prepare(t) \/ TransferRefused(t) \/ UnlockFolder(t)
             \/ RemoveUid(t) \/ Broadcast(t) \/ ParseBtMessage(t)
      PROVE  Goal
    BY <1>3 DEF Check, Recheck, SpuriousWake, LockFolder, Prepare,
                TransferRefused, UnlockFolder, RemoveUid, Broadcast,
                ParseBtMessage, Move
<1>4. ASSUME NEW t \in Threads, TransferDone(t) \/ TransferFailed(t)
      PROVE  Goal
  <2>1. \A s \in Threads : pc[s] = "parse" => s = t
      BY <1>4, OneLocked DEF TransferDone, TransferFailed, Move, Locked
  <2>2. QED
      BY <1>4, <2>1 DEF TransferDone, TransferFailed, Move
<1>5. ASSUME NEW t \in Threads, TransferUnfinished(t) PROVE Goal
    BY <1>5, BoundsAreNat DEF TransferUnfinished
<1>6. ASSUME NEW u \in Uids, LateTransfer(u) PROVE Goal
    BY <1>6 DEF LateTransfer
<1>7. CASE Crash
    BY <1>7 DEF Crash
<1>8. CASE UNCHANGED vars
    BY <1>8 DEF vars
<1> QED
    BY <1>1, <1>2, <1>3, <1>4, <1>5, <1>6, <1>7, <1>8
    DEF Next, Step, ParseCrash, Rest

\* A cache file is written from a fresh file only, and read under its own uid.
LEMMA OwnStep == TypeOK /\ FreshFile /\ OwnMessage /\ [Next]_vars => OwnMessage'
<1> SUFFICES ASSUME TypeOK, FreshFile, OwnMessage, [Next]_vars, unfinished' = 0
             PROVE  /\ \A u \in Uids : cache'[u] \in {u, None}
                    /\ \A t \in Threads : result'[t] \in {req'[t], None}
    BY DEF OwnMessage
<1> DEFINE Goal == /\ \A u \in Uids : cache'[u] \in {u, None}
                   /\ \A t \in Threads : result'[t] \in {req'[t], None}
<1> USE DEF TypeOK, OwnMessage
<1>1. ASSUME NEW t \in Threads, NEW u \in Uids,
             GetMessageSync(t, u) \/ GetMessageCached(t, u)
      PROVE  Goal
    BY <1>1 DEF GetMessageSync, GetMessageCached, Start, Move
<1>2. ASSUME NEW t \in Threads,
             ReadCached(t) \/ ReadFirst(t) \/ ReadWaited(t) \/ ReadFetched(t)
      PROVE  Goal
    BY <1>2 DEF ReadCached, ReadFirst, ReadWaited, ReadFetched, Return,
                FromCache, Move
<1>3. ASSUME NEW t \in Threads,
             Check(t) \/ Recheck(t) \/ SpuriousWake(t) \/ LockFolder(t)
             \/ Prepare(t) \/ TransferRefused(t) \/ TransferDone(t)
             \/ TransferFailed(t) \/ UnlockFolder(t) \/ RemoveUid(t)
             \/ Broadcast(t)
      PROVE  Goal
    BY <1>3 DEF Check, Recheck, SpuriousWake, LockFolder, Prepare,
                TransferRefused, TransferDone, TransferFailed, UnlockFolder,
                RemoveUid, Broadcast
<1>4. ASSUME NEW t \in Threads, ParseBtMessage(t) PROVE Goal
    BY <1>4 DEF ParseBtMessage, FreshFile, Move
<1>5. ASSUME NEW t \in Threads, TransferUnfinished(t) PROVE Goal
    BY <1>5, BoundsAreNat DEF TransferUnfinished
<1>6. ASSUME NEW u \in Uids, LateTransfer(u) PROVE Goal
    BY <1>6 DEF LateTransfer
<1>7. CASE Crash
    BY <1>7 DEF Crash
<1>8. CASE UNCHANGED vars
    BY <1>8 DEF vars
<1> QED
    BY <1>1, <1>2, <1>3, <1>4, <1>5, <1>6, <1>7, <1>8
    DEF Next, Step, ParseCrash, Rest

----------------------------------------------------------------------------
\* The inductive invariant holds throughout.
THEOREM Invariance == Spec => []IInv
<1>1. Init => IInv
    BY NamesDistinct, BoundsAreNat
    DEF Init, IInv, TypeOK, FetchMutex, FolderLockExact, FreshFile, OwnMessage,
        Labels, Fetching, Locked, Content
<1>2. IInv /\ [Next]_vars => IInv'
    BY TypeStep, FetchStep, LockStep, FileStep, OwnStep DEF IInv
<1>3. QED
    BY <1>1, <1>2, PTL DEF Spec

\* The state of the folder, its threads and its files keeps its types.
THEOREM TypeCorrect == Spec => []TypeOK
BY Invariance, PTL DEF IInv

\* No two threads fetch one message and no fetch leaves its uid registered
\* (uid_eflags, camel-map-folder.c 393-407 and 460-463).
THEOREM FetchMutexHolds == Spec => []FetchMutex
BY Invariance, PTL DEF IInv

\* The store's folder lock is held on exactly the steps of a fetch that talk to
\* the phone or use bt-message (camel-map-folder.c 410 and 458).
THEOREM FolderLockHolds == Spec => []FolderLockExact
BY Invariance, PTL DEF IInv

\* While no transfer was taken for done too early, messages are never mixed up
\* in the cache or in what calls return (camel-map-folder.c 412-455).
THEOREM OwnMessageHolds == Spec => []OwnMessage
BY Invariance, PTL DEF IInv

============================================================================
