-------------------------- MODULE MapMessageFetch --------------------------
(***************************************************************************)
(* Reading a message of one MAP folder: camel_map_folder_get_message and   *)
(* the functions around it (camel/camel-map-folder.c 223-507).             *)
(*                                                                         *)
(* Any number of threads ask for messages.  The first thread that misses   *)
(* the cache registers the uid in uid_eflags and fetches the message; the  *)
(* others wait on fetch_cond until the entry is gone and read the cache.   *)
(* A fetch has the phone write the message to the file "bt-message" of the *)
(* folder, which all messages share, then parses that file into the        *)
(* message's own cache entry.  folder_lock, the lock of the store, covers  *)
(* the fetch.  One action is one step that no other thread can split: a    *)
(* critical section of state_lock or cache_lock, a call to the phone, a    *)
(* file operation.                                                         *)
(*                                                                         *)
(* The call to the phone, camel_map_dbus_get_message, is modelled in full  *)
(* by module MapTransfer; here it is one step with the outcomes that       *)
(* module TransferOutcome allows.                                          *)
(***************************************************************************)
EXTENDS Naturals, FiniteSets

CONSTANTS
    Threads,        \* the threads that call into the folder
    Uids,           \* the messages; a uid also stands for its content
    NoThread,       \* folder_lock when it is free
    None,           \* a NULL message, a file that does not exist
    Partial,        \* a bt-message file that a transfer has only begun
    MaxCalls,       \* bound: calls made by all threads together
    MaxUnfinished   \* bound: transfers reported as done while they are not

ASSUME NamesDistinct ==
    /\ NoThread \notin Threads
    /\ None \notin Uids /\ Partial \notin Uids /\ None # Partial

ASSUME BoundsAreNat == MaxCalls \in Nat /\ MaxUnfinished \in Nat

VARIABLES
    pc,             \* where each thread is
    req,            \* the uid of each thread's call, kept with its result
    result,         \* the message its call returns: None or a content
    uid_eflags,     \* the uids some thread is fetching
    folder_lock,    \* the thread that holds the store's folder_lock
    bt_message,     \* content of the folder's "bt-message" file
    cache,          \* content of each message's cache file
    late,           \* transfers the phone still works on, their callers gone
    calls,          \* number of calls made, bounded by MaxCalls
    unfinished      \* number of transfers reported as done while they are not

vars == <<pc, req, result, uid_eflags, folder_lock, bt_message, cache, late,
          calls, unfinished>>

----------------------------------------------------------------------------

\* The steps of a fetch between inserting into uid_eflags and removing from it,
\* and those of them under folder_lock.
Fetching == {"lock", "prepare", "transfer", "parse", "reread", "unlock",
             "remove"}
Locked   == {"prepare", "transfer", "parse", "reread", "unlock"}
Labels   == Fetching \cup {"idle", "cached", "first", "check", "sleep",
                           "woken", "waited", "broadcast"}

Content == Uids \cup {None}

Init ==
    /\ pc = [t \in Threads |-> "idle"]
    /\ req = [t \in Threads |-> None]
    /\ result = [t \in Threads |-> None]
    /\ uid_eflags = {}
    /\ folder_lock = NoThread
    /\ bt_message = None
    /\ cache = [u \in Uids |-> None]
    /\ late = {}
    /\ calls = 0
    /\ unfinished = 0

Move(t, from, to) == pc[t] = from /\ pc' = [pc EXCEPT ![t] = to]

\* What reading the cache entry of u can give: its content, or NULL when there
\* is no entry, it cannot be opened or no message can be built from it.
FromCache(u) == {cache[u], None}

\* The caller gets m and the thread is free again.
Return(t, from, m) ==
    /\ Move(t, from, "idle")
    /\ result' = [result EXCEPT ![t] = m]
    /\ req' = IF m = None THEN [req EXCEPT ![t] = None] ELSE req

----------------------------------------------------------------------------
(* Entry points: get_message_sync and get_message_cached.                  *)

Start(t, u, label) ==
    /\ calls < MaxCalls
    /\ Move(t, "idle", label)
    /\ req' = [req EXCEPT ![t] = u]
    /\ result' = [result EXCEPT ![t] = None]
    /\ calls' = calls + 1
    /\ UNCHANGED <<uid_eflags, folder_lock, bt_message, cache, late, unfinished>>

GetMessageSync(t, u)   == Start(t, u, "first")
GetMessageCached(t, u) == Start(t, u, "cached")

ReadCached(t) ==
    /\ pc[t] = "cached"
    /\ \E m \in FromCache(req[t]) : Return(t, "cached", m)
    /\ UNCHANGED <<uid_eflags, folder_lock, bt_message, cache, late,
                   calls, unfinished>>

\* The cache is tried first, with no lock held over to the check that follows.
ReadFirst(t) ==
    /\ pc[t] = "first"
    /\ \E m \in FromCache(req[t]) :
          IF m # None THEN Return(t, "first", m)
                      ELSE Move(t, "first", "check") /\ UNCHANGED <<req, result>>
    /\ UNCHANGED <<uid_eflags, folder_lock, bt_message, cache, late,
                   calls, unfinished>>

----------------------------------------------------------------------------
(* camel_map_folder_get_message: waiting for another thread's fetch.       *)

\* Under state_lock: sleep while the uid is being fetched, else register it.
Check(t) ==
    /\ \/ /\ req[t] \in uid_eflags
          /\ Move(t, "check", "sleep")
          /\ UNCHANGED uid_eflags
       \/ /\ req[t] \notin uid_eflags
          /\ Move(t, "check", "lock")
          /\ uid_eflags' = uid_eflags \cup {req[t]}
    /\ UNCHANGED <<req, result, folder_lock, bt_message, cache, late, calls,
                   unfinished>>

\* g_cond_wait may return without a broadcast.
SpuriousWake(t) ==
    /\ Move(t, "sleep", "woken")
    /\ UNCHANGED <<req, result, uid_eflags, folder_lock, bt_message, cache,
                   late, calls, unfinished>>

\* Mutant of Recheck: the waiter fetches the message itself, unregistered.
RecheckFetching(t) ==
    /\ Move(t, "woken", IF req[t] \in uid_eflags THEN "sleep" ELSE "lock")
    /\ UNCHANGED <<req, result, uid_eflags, folder_lock, bt_message, cache,
                   late, calls, unfinished>>

\* Under state_lock again: the condition of the wait loop.
Recheck(t) ==
    /\ Move(t, "woken", IF req[t] \in uid_eflags THEN "sleep" ELSE "waited")
    /\ UNCHANGED <<req, result, uid_eflags, folder_lock, bt_message, cache,
                   late, calls, unfinished>>

ReadWaited(t) ==
    /\ pc[t] = "waited"
    /\ \E m \in FromCache(req[t]) : Return(t, "waited", m)
    /\ UNCHANGED <<uid_eflags, folder_lock, bt_message, cache, late,
                   calls, unfinished>>

----------------------------------------------------------------------------
(* camel_map_folder_get_message: the fetch.                                *)

\* Mutant of LockFolder: the lock is one of the folder, not of the store's
\* session, and does not exclude another fetch.
LockFolderShared(t) ==
    /\ Move(t, "lock", "prepare")
    /\ UNCHANGED <<req, result, uid_eflags, folder_lock, bt_message, cache,
                   late, calls, unfinished>>

LockFolder(t) ==
    /\ folder_lock = NoThread
    /\ Move(t, "lock", "prepare")
    /\ folder_lock' = t
    /\ UNCHANGED <<req, result, uid_eflags, bt_message, cache, late, calls,
                   unfinished>>

\* Mutant of Prepare: the error path jumps behind the unlock.
PrepareLeavingLocked(t) ==
    /\ \E next \in {"transfer", "remove"} : Move(t, "prepare", next)
    /\ UNCHANGED <<req, result, uid_eflags, folder_lock, bt_message, cache,
                   late, calls, unfinished>>

\* Create the cache directory and select the folder on the phone: either may
\* fail, and the function then leaves through "exit".
Prepare(t) ==
    /\ \E next \in {"transfer", "unlock"} : Move(t, "prepare", next)
    /\ UNCHANGED <<req, result, uid_eflags, folder_lock, bt_message, cache,
                   late, calls, unfinished>>

\* FALSE before anything was asked of the phone.
TransferRefused(t) ==
    /\ Move(t, "transfer", "unlock")
    /\ UNCHANGED <<req, result, uid_eflags, folder_lock, bt_message, cache,
                   late, calls, unfinished>>

\* TRUE, and the file holds the message.  A session serves its transfers one
\* after the other, so the earlier ones are over as well.
TransferDone(t) ==
    /\ Move(t, "transfer", "parse")
    /\ bt_message' = req[t]
    /\ late' = {}
    /\ UNCHANGED <<req, result, uid_eflags, folder_lock, cache, calls,
                   unfinished>>

\* FALSE after the phone reported an error; the file may have been begun.
TransferFailed(t) ==
    /\ Move(t, "transfer", "unlock")
    /\ bt_message' \in {bt_message, Partial}
    /\ late' = {}
    /\ UNCHANGED <<req, result, uid_eflags, folder_lock, cache, calls,
                   unfinished>>

\* TRUE although the transfer is not over: the wait timed out, or its error
\* was not seen.  The phone may go on writing to the file.
TransferUnfinished(t) ==
    /\ unfinished < MaxUnfinished
    /\ Move(t, "transfer", "parse")
    /\ bt_message' \in {bt_message, Partial}
    /\ late' = late \cup {req[t]}
    /\ unfinished' = unfinished + 1
    /\ UNCHANGED <<req, result, uid_eflags, folder_lock, cache, calls>>

\* Mutant of ParseBtMessage: a file without END:MSG is cached as it is.
ParseUnchecked(t) ==
    /\ \/ /\ bt_message # None
          /\ Move(t, "parse", "reread")
          /\ cache' = [cache EXCEPT ![req[t]] = bt_message]
       \/ /\ Move(t, "parse", "unlock")
          /\ UNCHANGED cache
    /\ UNCHANGED <<req, result, uid_eflags, folder_lock, bt_message, late,
                   calls, unfinished>>

\* parse_xbt_message: a missing file or a failing write gives FALSE, otherwise
\* what the file holds becomes the cache entry, by an atomic replacement.
ParseBtMessage(t) ==
    /\ bt_message # Partial
    /\ \/ /\ bt_message # None
          /\ Move(t, "parse", "reread")
          /\ cache' = [cache EXCEPT ![req[t]] = bt_message]
       \/ /\ Move(t, "parse", "unlock")
          /\ UNCHANGED cache
    /\ UNCHANGED <<req, result, uid_eflags, folder_lock, bt_message, late,
                   calls, unfinished>>

ReadFetched(t) ==
    /\ Move(t, "reread", "unlock")
    /\ \E m \in FromCache(req[t]) : result' = [result EXCEPT ![t] = m]
    /\ UNCHANGED <<req, uid_eflags, folder_lock, bt_message, cache, late,
                   calls, unfinished>>

UnlockFolder(t) ==
    /\ Move(t, "unlock", "remove")
    /\ folder_lock' = NoThread
    /\ UNCHANGED <<req, result, uid_eflags, bt_message, cache, late, calls,
                   unfinished>>

\* Under state_lock.
RemoveUid(t) ==
    /\ Move(t, "remove", "broadcast")
    /\ uid_eflags' = uid_eflags \ {req[t]}
    /\ UNCHANGED <<req, result, folder_lock, bt_message, cache, late, calls,
                   unfinished>>

\* Mutant of Broadcast: g_cond_signal, which wakes one waiter of any uid.
BroadcastToOne(t) ==
    /\ pc[t] = "broadcast"
    /\ \/ \E w \in Threads :
             /\ pc[w] = "sleep"
             /\ pc' = [pc EXCEPT ![t] = "idle", ![w] = "woken"]
       \/ /\ \A w \in Threads : pc[w] # "sleep"
          /\ pc' = [pc EXCEPT ![t] = "idle"]
    /\ UNCHANGED <<req, result, uid_eflags, folder_lock, bt_message, cache,
                   late, calls, unfinished>>

\* After state_lock is released.  The condition is one for all uids.
Broadcast(t) ==
    /\ pc[t] = "broadcast"
    /\ pc' = [s \in Threads |-> IF s = t THEN "idle"
                                ELSE IF pc[s] = "sleep" THEN "woken"
                                ELSE pc[s]]
    /\ req' = IF result[t] = None THEN [req EXCEPT ![t] = None] ELSE req
    /\ UNCHANGED <<result, uid_eflags, folder_lock, bt_message, cache,
                   late, calls, unfinished>>

----------------------------------------------------------------------------
(* The phone, and the end of the process.                                  *)

\* A transfer nobody waits for any more goes on: it begins the file, or it
\* ends, having written the message, a part of it or nothing.
LateTransfer(u) ==
    /\ u \in late
    /\ \/ bt_message' = Partial /\ UNCHANGED late
       \/ bt_message' \in {u, Partial, bt_message} /\ late' = late \ {u}
    /\ UNCHANGED <<pc, req, result, uid_eflags, folder_lock, cache, calls,
                   unfinished>>

\* The process ends while calls are running, and is started again.  Files
\* stay; locks, uid_eflags and the session with its transfers are gone.
Crash ==
    /\ \E t \in Threads : pc[t] # "idle"
    /\ pc' = [t \in Threads |-> "idle"]
    /\ req' = [t \in Threads |-> None]
    /\ result' = [t \in Threads |-> None]
    /\ uid_eflags' = {}
    /\ folder_lock' = NoThread
    /\ late' = {}
    /\ UNCHANGED <<bt_message, cache, calls, unfinished>>

\* parse_xbt_message looks for "END:MSG" and writes through the result: on a
\* file that was only begun it is NULL, and the process ends.
ParseCrash(t) == pc[t] = "parse" /\ bt_message = Partial /\ Crash

\* Every call was made and has returned.
Rest ==
    /\ calls = MaxCalls
    /\ \A t \in Threads : pc[t] = "idle"
    /\ UNCHANGED vars

----------------------------------------------------------------------------

\* The steps a thread that is inside the folder takes by itself.
Step(t) ==
    \/ ReadCached(t) \/ ReadFirst(t) \/ Check(t) \/ Recheck(t) \/ ReadWaited(t)
    \/ LockFolder(t) \/ Prepare(t)
    \/ TransferRefused(t) \/ TransferDone(t) \/ TransferFailed(t)
    \/ TransferUnfinished(t)
    \/ ParseBtMessage(t) \/ ParseCrash(t) \/ ReadFetched(t)
    \/ UnlockFolder(t) \/ RemoveUid(t) \/ Broadcast(t)

Next ==
    \/ \E t \in Threads :
          \/ \E u \in Uids : GetMessageSync(t, u) \/ GetMessageCached(t, u)
          \/ Step(t)
          \/ SpuriousWake(t)
    \/ \E u \in Uids : LateTransfer(u)
    \/ Crash
    \/ Rest

Spec == Init /\ [][Next]_vars

\* The scheduler runs every thread that can run.  No thread has to call, to be
\* woken without a broadcast or to be preferred for a lock that is taken, and
\* the phone does not have to finish anything: the wait for it is bounded.
Fairness == \A t \in Threads : WF_vars(Step(t))

FairSpec == Spec /\ Fairness

----------------------------------------------------------------------------
(* Properties.                                                             *)

\* Type correctness of the whole state.
TypeOK ==
    /\ pc \in [Threads -> Labels]
    /\ req \in [Threads -> Content]
    /\ \A t \in Threads : pc[t] # "idle" => req[t] \in Uids
    /\ result \in [Threads -> Content]
    /\ uid_eflags \in SUBSET Uids
    /\ folder_lock \in Threads \cup {NoThread}
    /\ bt_message \in Content \cup {Partial}
    /\ cache \in [Uids -> Content]
    /\ late \in SUBSET Uids
    /\ calls \in 0..MaxCalls
    /\ unfinished \in 0..MaxUnfinished

\* uid_eflags is "a form of mutex" (camel-map-folder.c:404): a uid is in it
\* exactly while one thread fetches that message, whatever path the fetch
\* leaves by, so no two threads fetch one message and no entry is left behind.
FetchMutex ==
    /\ uid_eflags = {req[t] : t \in {s \in Threads : pc[s] \in Fetching}}
    /\ \A s, t \in Threads :
          pc[s] \in Fetching /\ pc[t] \in Fetching /\ req[s] = req[t] => s = t

\* The store's folder lock is held by exactly the thread that talks to the
\* phone or touches bt-message, over every early exit of the fetch.
FolderLockExact ==
    \A t \in Threads : folder_lock = t <=> pc[t] \in Locked

\* The shared bt-message file never mixes messages up: as long as no transfer
\* was reported as done while it was not, a cache file holds its own message
\* and every call returns the message it asked for, also across crashes.
OwnMessage ==
    unfinished = 0 =>
        /\ \A u \in Uids : cache[u] \in {u, None}
        /\ \A t \in Threads : result[t] \in {req[t], None}

\* "Get the message from cache if available otherwise get it from server"
\* (camel-map-folder.c:485): what a call returns is the message asked for.
ReturnsRequested ==
    \A t \in Threads : result[t] # None => result[t] = req[t]

\* Every call returns: no waiter misses the broadcast that ends its wait, and
\* neither lock is left taken.
CallsReturn ==
    \A t \in Threads : pc[t] # "idle" ~> pc[t] = "idle"

============================================================================
