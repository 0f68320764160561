# evolution-map: specifications, model checking and proofs

evolution-map is a provider for Camel, the mail library of Evolution: it shows
the messages of a mobile phone, which it reaches over Bluetooth MAP (Message
Access Profile) through the daemon `obexd`.  This directory holds TLA+ modules
of its logic, the TLC configurations that check them and TLAPS proofs about
them.  Paths are relative to the repository; `folder.c`, `store.c`,
`dbus-utils.c`, `store-summary.c` and `summary.c` stand for
`src/camel/camel-map-*.c`; `settings.c` for `src/utils/camel-map-settings.c`;
`backend.c` and `discovery.c` for `src/configuration/e-mail-config-map-*.c`.  The repository has no documentation of its own: the
code and its comments are the reference.

To check: `tlc -config MCMapFolderSync.cfg MCMapFolderSync` (module and
configuration of each run are in `PROJECT.json`), `tlapm` with each of the
modules that end in `Proofs.tla`, and with `MapStoreSummaryNames.tla`.

## 1. The system

| Component | State | Operations | Where |
|---|---|---|---|
| message fetch | `uid_eflags`, `fetch_cond`, `state_lock`, `cache_lock`, the file `bt-message` of the folder, one cache file per message | get_message_sync, get_message_cached, parse_xbt_message | folder.c 223-507 |
| message transfer | a `TransferHandler` per call, signals of the transfer's proxy | camel_map_dbus_get_message, transfer_on_signal | dbus-utils.c 71-209 |
| folder synchronisation | the summary in memory and in the database, `refreshing`, the store's `initial_fetch` | refresh_info_sync, expunge_sync, synchronize_sync, mark read, set flags | folder.c 146-221, 735-1075, 1247-1286; summary.c 245-259 |
| store connection | `session_path`, `map` (the proxy), the online flag, `current_folder_lock`, `get_finfo_lock`, the proxy of each open folder | connect, disconnect, get_folder, get_folder_info, and the calls of a refresh and a mark | store.c 188-376, 469-500, 756-829 |
| folder hierarchy | the tree of `CamelFolderInfo` | create_folder_hierarchy | store.c 378-467 |
| store summary | a key file, two hash tables that share strings, `dirty`, a file monitor | new, load, save, clear, remove, rebuild, the setters | store-summary.c |
| message summary records | none | conversions between records and message infos | summary.c |
| settings | the properties of one account | accessors | settings.c |
| account configuration | the page's list of phones and its selection, the providers the rows point to, the button, the thread that searches | insert_widgets, run_discovery, devices_discover_cb, device_selection_changed, check_complete; discover_service in the thread | backend.c, discovery.c |
| provider registration | static tables | | camel-map-provider.c |

**How they interact.**  Camel calls the folder and the store from any number of
threads; `camel_folder_set_lock_async (folder, TRUE)` (folder.c:1244) and
operations that Camel does not serialise make the concurrency real.  Everything
that talks to the phone goes through one proxy of one session, whose *current
directory* is a piece of state on the phone that every operation changes.
`current_folder_lock` of the store (recursive; `folder_lock` in the modules) is
meant to keep "select the directory" and "ask for something in it" together.
The end of a transfer arrives as a signal in the main loop's thread, while the
calling thread waits on a condition.  `obexd` and the phone may refuse any
call, drop the session or finish late.  Before all that the user has chosen a
phone on the account's configuration page, which runs in Evolution's main loop
and searches for phones in a thread of its own; what it leaves are the settings
that connect reads.

**Behaviours that are hard.**  Several threads missing the cache for one
message; one condition for the waiters of all messages; one transfer file for
all messages of a folder; a two-minute timeout against a late answer; callbacks
that write without the lock of what they write; listings that are older than
what other threads did meanwhile; flags of the store that mean something per
folder; connects that fail half-way, and folders that outlive the session they
were opened in; a proxy and a path that a disconnect releases under the calls
that use them; a search that outlives the page that began it, and rows that point
to providers being freed; a pointer and an error handed down a recursion; strings owned by one hash
table and used by another; crashes between any two steps.

**What makes each component correct.**

* fetch: a message is fetched by one thread at a time, every caller gets the
  message it asked for or none, every call returns;
* transfer: the answer agrees with what became of the transfer, and comes;
* synchronisation: after a refresh the summary says what the phone listed,
  nothing that was deleted comes back, nothing leaves the summary that the
  phone still has, the two locks are exact on every path;
* connection: paths and proxies are of one session, a listing or a mark is made
  where the directory was selected, a call that nobody disconnects survives, every
  call returns, a connect that answers TRUE has connected;
* configuration: what the page accepts is one service of one phone that was
  offered, rows are live, the button comes back;
* hierarchy: siblings and parents as on the phone; a directory that fails costs
  its own subtree for a caller that takes no error, and for one that does the
  error says that something is missing;
* store summary: both hash tables say what the key file says and have no
  freed keys, changes are saved.

## 2. The modules

| Module | Models | Extended or used by |
|---|---|---|
| `MapMessageFetch` | message fetch | `MCMapMessageFetch`, `MapMessageFetchProofs` |
| `MapMessageFetchProofs` | theorems about it | |
| `TransferOutcome` | what a transfer call promises (abstract) | `MapTransfer` by INSTANCE |
| `MapTransfer` | the transfer call and its callback | `MCMapTransfer`, `MapTransferProofs` |
| `MapTransferProofs` | theorems about it | |
| `MapFolderSync` | refresh, expunge, mark, and what shares their lock | `MCMapFolderSync`, `MapFolderSyncProofs` |
| `MapFolderSyncProofs` | theorems about it | |
| `MapConnection` | connect, disconnect, folder list, open, refresh, mark over sessions | `MCMapConnection`, `MapConnectionProofs` |
| `MapConnectionProofs` | theorems about it | |
| `DeviceChoice` | what the configuration page promises (abstract) | `MapDeviceConfig` by INSTANCE |
| `MapDeviceConfig` | the page, the search, the settings they fill in | `MCMapDeviceConfig`, `MapDeviceConfigProofs` |
| `MapDeviceConfigProofs` | theorems about it | |
| `MapFolderTree` | the walk over the folder hierarchy | `MCMapFolderTree`, `MapFolderTreeProofs` |
| `MapFolderTreeProofs` | theorems about it | |
| `MapStoreSummary` | the store summary | `MCMapStoreSummary`, `MapStoreSummaryNames` |
| `MapStoreSummaryNames` | lemmas about its operators | `MapStoreSummaryProofs` |
| `MapStoreSummaryProofs` | theorems about it | |

The definitions named "Mutant of X" in the modules are plausible mistakes in
the code behind X.  They are not part of any specification; they show that the
property they are paired with in `PROJECT.json` is able to fail.

### MapMessageFetch

Variables are the code's: `uid_eflags`, `folder_lock`, `bt_message`, `cache`.
A message is identified with its content, so "the cache file of u holds u" says
that no message was stored under another's uid; `Partial` is a file that was
only begun.  One action is one critical section, one call to the phone or one
file operation:

| Code | Actions |
|---|---|
| get_message_sync 486-499 | `GetMessageSync`, `ReadFirst` |
| get_message_cached 501-507 | `GetMessageCached`, `ReadCached` |
| wait and recheck under state_lock 383-408 | `Check`, `Recheck`, `SpuriousWake`, `ReadWaited` |
| folder lock, cache directory, selection 410-437 | `LockFolder`, `Prepare` |
| camel_map_dbus_get_message 439-448 | `TransferDone`, `TransferFailed`, `TransferRefused`, `TransferUnfinished` |
| parse_xbt_message | `ParseBtMessage`, `ParseCrash` |
| read, unlock, remove, broadcast 455-463 | `ReadFetched`, `UnlockFolder`, `RemoveUid`, `Broadcast` |

`TransferUnfinished` is the answer TRUE for a transfer that still runs, which
`TransferOutcome` allows when the time is over; `LateTransfer` is that transfer
going on.  Both are bounded by `MaxUnfinished`, and `OwnMessage` is stated for
histories without one.  `Crash` keeps files and loses locks, `uid_eflags` and
the session.  Reading a cache file may fail at any time (`FromCache`).

### MapTransfer and TransferOutcome

`TransferOutcome` has five variables: the phone's transfer, whose time is over,
how far the end of each transfer was told (`told`), the answers, whether the
process lives.  An end is told in two steps, first that there is one and then
which.  The actions say when what may be answered:

* TRUE only once an end is being told or the time is over, and never for a
  failure that was told in full;
* FALSE only if no transfer was begun or a failure was told in full;
* the process ends only of a refused `Get`, in a call that was told of an end
  and leaves its loop with the handler locked, or by an end that is told after
  the answer.

`MapTransfer` adds the program: the calling thread's steps, the handler's lock,
`complete` and `error`, the proxy and its callback in the main loop, which runs
one callback at a time and writes the handler without its lock.  So the test of
`complete` (dbus-utils.c:192, `Test`) and the wait (194, `Wait`) are two steps,
and each write of the callback and its signal may fall between them; a signal
that does is lost, as is one before the callback is connected.
`CallsAnswered` says that this costs time only.  A refused `Get` (its NULL
result is unpacked, dbus-utils.c:167), clearing a locked mutex (201) and touching
a freed handler may each end the process; where C leaves the outcome open the
model has both.  `KeepsOutcome` is the refinement: the variables have the same
names, and `told` is `Told`, read off `complete` and the callback's place.

What `TransferOutcome` promises is weaker than a caller may expect: TRUE is
answered also after two minutes without an answer, and when the caller wakes
between the callback's `complete = TRUE` (dbus-utils.c:100) and `error = TRUE`.
`MapMessageFetch` shows what follows from the first (run `fetch_timeout`).

### MapFolderSync

A message on the phone is not there yet, unread, read or gone; the summary
(`local`), the database (`db`) and a listing (`want`) hold the same statuses.
`marked` is the DELETED flag.  Operations:

| Code | Actions |
|---|---|
| map_refresh_info_sync 735-1075 | `RefreshInfo` to `RefreshClear`; per message `ProcessMessage`, and `EchoSelect`, `EchoWrite`, `ApplyMessage` when its flags change |
| map_folder_delete_messages 146-221 | `Expunge` to `ExpungeUnlock`, `ExpungeCrash` |
| camel_map_folder_mark_message_read 1247-1286 and map_info_set_flags | `SetSeen`, `MarkLock` to `MarkUnlock`, `MarkLocally`, `SetDeleted` |
| the part of a fetch under the lock | `Fetch` to `FetchUnlock` |
| map_get_folder_sync's selection | `GetFolder` |
| the handset, Camel, the process | `NewMessage`, `HandsetChange`, `SaveSummary`, `Crash` |

The *echo* is easily missed: the refresh applies a listed status with
`camel_message_info_set_flags`, whose MAP implementation sends a changed SEEN
flag to the phone, from where it just came.

An expunge that ends without an error has removed every message that was marked
and in the summary when it looked at it (`flagged` is the history of that);
`ExpungesAll` says so, so that one that goes on behind a refused deletion would
be found.

Messages that are deleted on the phone do not get their handle back (`gone`).
`Priority` is handled as `Read` is, but never sent, and left out; so are all
other properties.  History variables: `touched` (changed by somebody else since
the running refresh listed), `expunged`, `refreshed`.

An expunge collects the uids before it takes the folder lock (folder.c:162).  A
refresh that holds the lock may prune one of them, and the expunge then uses
the NULL info of that uid (folder.c:175): `ExpungeCrash`, which TLC reaches.

### MapConnection

A session is a number in the order of creation, and a proxy an object of a
session, so that a mixture of sessions and a pointer to a released object both
show.  `live` is the session that works.  `local` is what a thread has in its
variables: the folder, the proxy it is about to call (`using`) and the path it
has built; `chosen` and `calm` are history.

| Code | Actions |
|---|---|
| map_connect_sync 188-310 | `Connect`, `AlreadyConnected`, `ConnectFails`, `CreateSession`, `CreateProxies`, `ConnectLock`, `ConnectSelect`, `ConnectList` |
| map_disconnect_sync 312-323 | `ForgetMap`, `ForgetPath`: two steps that interleave with everything |
| map_get_folder_sync 346-376, camel_map_folder_new | `OpenLock`, `OpenSelect`, `NewFolder`, `RefProxy` |
| map_get_folder_info_sync 469-500 | `FolderInfo...`: it holds `get_finfo_lock` while it connects, and the connect takes the folder lock |
| refresh 735-816, update_inbox 819-829 | `RefreshLock`, `UpdateInbox`, `RefreshSelect`, `RefreshList` |
| camel_map_folder_mark_message_read 1247-1286 | `MarkLock`, `MarkPath`, `MarkAsk`, `MarkSelect`, `MarkWrite` |

Camel's own connection status is external: it runs one connect or disconnect at
a time and connects only what is not connected.  The folder list connects by
itself when the store is online and then has no session; it reads the online
flag once, before it looks at the session (`FolderInfoOnline`).  `Drop` is obexd losing the
session, `Restart` the end of the process and the next one.

A disconnect takes `connection_lock` and no lock of the operations.  A thread
that has read the store's proxy, or the path, may find it released; the call then
works as before, fails or ends the process (the actions named `...Dies`).  So
does a call on a NULL proxy whose error, which nobody set, is read
(folder.c:775, dbus-utils.c:232).  `CalmCallsSurvive` says that nothing else ends
the process: a call that began with a proxy and that no disconnect overlapped
never dies.

`MapFolderSync` takes one session for granted and has the details of the
refresh; here refresh and mark are only what they do to the connection.  The
expunge builds its paths as the mark does, without a selection, and the fetch
gets a refused or answered Get (`MapTransfer`): both are left to those modules.

One session works at a time.  The code never removes a session from obexd, so
that the session of an earlier connect may go on working there; that a folder
with a proxy of such a session lists in it, while the selection was made in the
new one, does not occur in the model.

### MapDeviceConfig and DeviceChoice

`DeviceChoice` has the services on offer, the user's choice and the account: the
choice is one that was offered or none, and only a choice gets into an account.
`MapDeviceConfig` has the page.  Everything but the search runs in the main
loop, so a handler is one action with all the handlers it sets off:

| Code | Actions |
|---|---|
| insert_widgets 255-434 | `InsertWidgets`, on a copy of the account's settings |
| device_selection_changed 222-253, channel_text_to_uint | `Select`, `SelectionChanged`, `SetText` |
| run_discovery 148-187 | `RunDiscovery` |
| discover_service (discovery.c 48-150), in its thread | `Inquiry`, `AskPhone`, `AskPhoneCrash`, `ConnectFails`, `AllAsked` |
| devices_discover_cb 87-135 | `DevicesDiscover`; `DevicesDiscoverLate` when the page is gone |
| check_complete 476-515 | `CheckComplete`, the guard of `Apply` |
| Evolution | `Apply`, `Cancel` |

Two libraries decide part of it.  `gtk_list_store_clear` removes row by row and
may move the selection over the rows that are left, whose handler then runs
(`ClearRows`: any set of rows, ending at any of them).  And a hidden entry
notifies its binding only when its text changes; the binding of the channel
refuses an empty text (backend.c:214), so that blanking the settings leaves
the old channel.  `CompleteIsUsable` says that what is then complete again
nevertheless is one service.

`freed` is the set of providers whose memory was given back.  run_discovery frees
them before it removes the rows that point to them: this is safe only because
nothing found by a search is ever in `priv->providers` (backend.c:120 frees the
list and keeps the providers), so that only the one row of an account being
edited can point to a freed one, and a selected row is not selected again while it
is removed.  The mutant of `DiesOnlyOfSearch` keeps the list, as the code perhaps
meant to, and the handler then reads freed memory.

### MapFolderTree

The recursion's frames are a sequence.  `fiparent` of a frame points to the
variable `fi` of the frame below it, and the write through it (`*fiparent =
fi`, store.c:435) happens only when that variable was NULL on entry.  A folder
info is known by its directory; names, flags and types are left out.  The phone
may refuse any selection or listing (`SelectFails`, `ListFails`).

The whole walk shares one `error` (store.c:395, 404, 457), which is that of its
caller: a caller without a place for one passes NULL (camel-test.c:74).  After
a refusal it is set, and `g_dbus_proxy_call_sync` does nothing but return NULL
when it is given an error that is set (its precondition): `NotAsked`, for every
directory that comes later.  So without a place for an error a refused directory
costs its own subtree, and with one it costs those of all later directories as
well.  Another thread may `Disconnect` the store; the walk then has no proxy,
and the same precondition gives NULL and sets no error (`NoProxy`).  `refused`
and `gone` are histories of the directories lost in either way.

`FailureIsLocal` says that nothing else is lost where `error` is NULL, and
`ErrorTellsLoss` that a caller with a place for an error learns from it whether
the phone refused one.  What a disconnect costs no error tells.  The walk is in
one session: the release of a proxy under a running call and the next session
are in `MapConnection`.

The code never sets the `child` of an info.  A reader that goes down by `child`
(`print_folder_info` of src/camel/camel-test.c:15 does) therefore finds the
top level only, although `parent` is set throughout.  The properties are about
`next`, `parent` and the table.

### MapStoreSummary

All functions run under one lock, so each is one action.  `fname_id` records
for each full name the id *and* the folder whose string is the key, because the
tables share strings: the value of `id_fname` is the key of `fname_id` and is
freed with the entry of `id_fname`.  A step that would use a NULL name, miss an
entry it needs or recurse for ever ends the process (`alive`); after a freed
key nothing is said any more (`Running`).  That orderly callers never get there
is a property of its own, `OrderlyKeysLive`.

`Orderly` callers add only new folders and keep the folders a tree of distinct
full names (`Tidy`).  The provider itself calls new, load and save so far
(store.c 121-160, 667-682); the other functions are modelled as the header
offers them.  The five setters that change a value only are one action.

## 3. Runs

| Run | Checks | Bounds |
|---|---|---|
| `fetch` | TypeOK, FetchMutex, FolderLockExact, OwnMessage, CallsReturn | 3 threads, 2 messages, 3 calls, 1 unfinished transfer |
| `fetch_timeout` | ReturnsRequested is violated | 2 calls, 1 unfinished transfer |
| `transfer` | TypeOK, KeepsOutcome, CallsAnswered | 2 calls |
| `sync` | TypeOK, RefreshingExact, ExpungedStaysAway, RefreshAgrees, DropsOnlyGone, EchoChangesNothing, ExpungesAll | 2 threads, 1 folder, 2 messages, 4 operations, 2 events |
| `sync_two_folders` | FolderLockExact, SelectedDir, OperationsEnd | 2 threads, 2 folders of 1 message, 3 operations, 1 event |
| `sync_ghosts` | FirstRefreshPrunes is violated | 2 folders |
| `connection` | TypeOK, PathMatchesProxy, CalmCallsSurvive, ListsSelected, MarksSelected, CallsReturn | 2 threads, 2 folders, 3 sessions, 5 calls |
| `connection_already` | AlreadyHasProxy is violated | the same, 3 calls |
| `device_config` | TypeOK, RowsLive, CompleteIsUsable, DiesOnlyOfSearch, ChoosesDevice, ButtonReturns | 2 phones, 3 services, 1 abandoned search |
| `tree` | TypeOK, SiblingsChained, ParentIsDirectory, FailureIsLocal, ErrorTellsLoss | 6 directories on 3 levels, with and without an error, 1 disconnect |
| `summary` | TypeOK, HashesMatchFile, OrderlyKeepsRunning, OrderlyKeysLive, DirtyIsExact | 3 folders, 2 names, 5 changes |
| `summary_strings` | NoFreedKeys is violated | 2 folders, 4 changes |

**Why the bounds are enough.**

* fetch: a wake-up meant for one message and received by a waiter of another
  needs three threads and two messages; the third call meets what the first two left
  in cache and file.  Crashes are not bounded by themselves: each needs a running
  call.  The safety properties are proved for any number of each.
* transfer: a call interacts with its own callback and, through the main loop
  that runs one callback at a time, with one other call.  The end of a transfer,
  the callback's three writes and the end of the time come anywhere among its
  steps.
* sync: two threads are enough for one operation to overlap another, and four
  operations for a refresh, a mark, an expunge and another refresh in any order.
  Two messages tell "this one" from "the other one" of a listing.  Two events
  make a message change after it was listed and then the process crash, or a
  message arrive and be deleted.
* connection: a third session is needed for a folder of the first, a connect
  that failed in the second and the third that works.  Five calls are a connect,
  an opened folder, a disconnect, another connect and the operation of the second
  thread that all of them overlap.
* device_config: one phone with two services and one with one, so that providers
  differ in the service alone or in the phone as well; searches and edits of the
  account are not bounded, only searches whose page was closed are.
* tree: a chain of two siblings below a directory that is not the first, a
  directory below that, and a skipped name: there are directories before, beside
  and behind the one that is refused.
* summary: a parent, its child and its grandchild, so that a rename goes through
  two levels; two names make full names collide unless the caller is orderly, and
  make a name free for another folder when one is renamed or removed.

`CHECK_DEADLOCK` is never turned off: a system whose calls are all over, or
whose process has ended, stutters explicitly (`Rest`); `MapDeviceConfig` has `Ended` for a process that ended; `MapConnection` and
`MapStoreSummary` always have a next step.  Symmetry over threads,
messages, folders or ids is used only in runs without temporal properties other
than `[][A]_v`, where it is sound; runs with liveness use none.

**Fairness.**  Each thread is weakly fair for the steps of the operation it is
in (`Step`): the scheduler runs every thread that can run.  Nobody has to
begin an operation, spurious wake-ups are not fair, and the phone, the handset
and the main loop are not fair at all: what they do not do is covered by the
two-minute timeout, whose clock (`TimePasses`) does go on.  A lock is taken
with weak fairness only; that this suffices rests on the bounded number of
calls, with unbounded ones a thread could be overtaken for ever, and a GMutex
promises no more.  In `MapConnection` a step of a thread is fair while the process
lives: the calls it waits for go to obexd and have timeouts.  In
`MapDeviceConfig` the search's thread and the callback of the main loop are fair
(the requests to a phone have timeouts), the user and GTK are not, and the
callback of a page that is closed is not.

**What the violations say of the code.**

* `fetch_timeout`: a transfer that is reported as done while it still runs makes
  the fetch parse what `bt-message` holds, which is the message fetched before;
  it is cached under the uid of the new one and returned.  A late transfer does
  the same to a later fetch.
* `sync_ghosts`: `initial_fetch` is a flag of the store (store.c), but "Only
  during initial fetch, we can check for deleted messages" (folder.c:818) is
  said of a folder's summary.  The first folder that is refreshed consumes it;
  in the others messages that were deleted on the phone stay.
* `connection_already`: a connect that failed after `CreateSession` leaves
  `session_path`, and the next answers "Already connected" (store.c:201)
  without a usable proxy.
* `summary_strings`: with two folders of one full name, the key of
  `fname_id_hash` is the string of one and the entry points to the other;
  renaming the first frees the key under the entry, against "entries must always
  be removed from fname_id_hash *first*" (store-summary.c:19).

## 4. Proofs

### The fetch

`MapMessageFetchProofs` proves, for any sets of threads and messages and any
bounds, that `MapMessageFetch` implies

* `TypeCorrect`: `[]TypeOK`,
* `FetchMutexHolds`: `[]FetchMutex`,
* `FolderLockHolds`: `[]FolderLockExact`,
* `OwnMessageHolds`: `[]OwnMessage`,

all from `Invariance`: `Spec => []IInv` with

    IInv == TypeOK /\ FetchMutex /\ FolderLockExact /\ FreshFile /\ OwnMessage

`FetchMutex` and `FolderLockExact` are inductive with the types: each action
that changes `uid_eflags` or `folder_lock` moves its thread into or out of the
matching set of labels.  `OwnMessage` is not inductive: a state with a foreign
`bt_message` and a thread about to parse it satisfies it, and the next step does
not.  `FreshFile` excludes that state: while no transfer was reported as done
too early there are no late transfers, and the thread that is about to parse
finds its own message in the file.  It is kept because the file is only written
under the folder lock, which `FolderLockExact` gives to one thread, and because
a crash, which leaves a foreign file behind, leaves no thread about to parse.
The proof has a lemma per conjunct, with a step per group of actions.
Assumptions: `NamesDistinct` and `BoundsAreNat` of the module, which TLC
evaluates on every run.

### The transfer

`MapTransferProofs` proves, for any set of calls, that `MapTransfer` implies
`[]TypeOK` (`TypeCorrect`) and `KeepsOutcome`, that is `TransferOutcome`
(`KeepsOutcomeHolds`), from

    IInv == TypeOK /\ ToldIsOver /\ WaitedLongEnough /\ AsksOnce
            /\ HandlerLives /\ LockedTold /\ ToldOnce /\ ErrorKept

`ToldIsOver` follows an end of transfer from the proxy through the main loop and
the callback into `complete` and `error`: nothing is told that did not happen.
`WaitedLongEnough` says that a call leaves its loop only with `complete` set or
its time over, which the `while` around the wait gives.  `ErrorKept` is what
forbids TRUE for a failure that was told: from the callback's second write to
the call's reading it, `error` stays; it needs `ToldOnce`, that no callback comes
a second time, and `HandlerLives`, that the handler is there from the `Get` to
the answer.  `LockedTold` says that who clears a locked mutex has seen
`complete`, and `HandlerLives` that only a call that has its answer has a freed
handler: this is why the process ends only where `TransferOutcome` lets it.
`OutcomeStep` maps each step.  The assumption is `NoCallIsNone`.

### The configuration page

`MapDeviceConfigProofs` proves, for any phones, services and any number of
searches, that `MapDeviceConfig` implies

* `TypeCorrect`: `[]TypeOK`,
* `RowsLiveHolds`: `[]RowsLive`,
* `CompleteIsUsableHolds`: `[]CompleteIsUsable`,
* `DiesOnlyOfSearchHolds`: the action property `DiesOnlyOfSearch`,
* `ChoosesDeviceHolds`: the refinement `ChoosesDevice`, that is `DeviceChoice`
  under the mapping of the module,

from

    IInv == TypeOK /\ RowsLive /\ found \cap freed = {} /\ OwnProvider
            /\ OffersServices /\ CompleteIsUsable /\ SavedUsable

Even the types are not inductive: the page of a saved account shows the account
as a provider, which needs that no incomplete account was saved (`SavedUsable`).
`CompleteIsUsable` needs that whatever can be selected is one service
(`OffersServices`): the rows, what the search has found and the page's own
provider.  `RowsLive` needs that what a search made is not freed.
`DiesOnlyOfSearch` and the step of `devices_discover_cb` in the refinement need
`OwnProvider`: the page has a provider of its own only until its first search,
which is then the only row, and while it searches no row has one.
`SelectionUsable` follows the four `gtk_entry_set_text` calls one by one.
Assumptions: `RecordsHaveDevices`, `NamesDistinct`, `BoundIsNat` and
`PointersDistinct`, which TLC evaluates on the run.

### Folder synchronisation

`MapFolderSyncProofs` proves, for any threads, folders and messages and any
bounds, every property of `MapFolderSync` that the runs check but for
`OperationsEnd`: `[]TypeOK`, `[]RefreshingExact`, `[]FolderLockExact`,
`[]SelectedDir`, `[]ExpungedStaysAway`, `[]RefreshAgrees` and the action
properties `DropsOnlyGone`, `EchoChangesNothing` and `ExpungesAll`.  The
inductive invariant has three groups of conjuncts:

* what guards what: `TypeOK`, `FolderLockExact`, `RefreshingExact`,
  `SelectedDir`.  `SelectedDir` follows from the lock: a thread that selects
  holds it, and no second thread is between selecting and using;
* what an operation has in hand: `Frames` (its messages are messages of its
  folder, and it has one where it handles one), `AtMostOne`, `Wanted` (what a
  refresh still has to handle was listed);
* how the four copies of a message relate: `PhoneFirst` (nobody knows a message
  before the phone has it), `RemovesGone` and `ExpungedGone` (what is being
  removed and what was expunged is gone from the phone, for good),
  `ExpungedUnlisted` (no listing in use has an expunged message),
  `ListingCurrent`, `MarkedKnown`, `ExpungeCovers`.

`ExpungedStaysAway` is not inductive: a refresh about to apply a listing with an
expunged message satisfies it.  `ExpungedUnlisted` excludes that, and holds
because listing and expunging are both done under the folder lock.
`ListingCurrent` is what `RefreshAgrees`, `DropsOnlyGone` and
`EchoChangesNothing` come down to: a listing in use says what the phone has, but
for messages touched since, and what the summary has, but for messages touched or
still to be handled; and what the summary knows and the listing lacks is gone
from the phone.  Without `PhoneFirst` the last part would fail for a message
that the phone gets after it was listed.  `ExpungesAll` rests on
`ExpungeCovers`: what was marked and known is to do, in hand, or recorded.
Assumptions: `HomeIsFolder`, `NamesDistinct`, `BoundsAreNat`.

### The connection

`MapConnectionProofs` proves, for any finite sets of threads and folders and any
bounds, `[]TypeOK`, `[]PathMatchesProxy`, `[]CalmCallsSurvive` and the action
properties `ListsSelected` and `MarksSelected`, from

    IInv == TypeOK /\ LockHeld /\ OneConnects /\ NoProxyYet /\ PathMatchesProxy
            /\ AllCreated /\ OpenedOnce /\ CalmMeetsProxy /\ Selected /\ UsesOne

`PathMatchesProxy` needs that one thread connects or disconnects at a time
(`OneConnects`) and that a connect that has its session and a disconnect that
has dropped the proxy find no proxy (`NoProxyYet`): then no proxy is there while
the path changes.  `CalmMeetsProxy` strengthens `CalmCallsSurvive`: a call that
began with a proxy and that no disconnect overlapped still meets that proxy,
holds it between reading and calling, and has a path; it needs `OpenedOnce`, that
nobody closes a folder under a call.  `Selected` strengthens the two action
properties: who is about to list or mark in the session that works has selected
there, which `LockHeld` keeps and which a new session cannot spoil because its
number is new (`AllCreated`).  `TypeOK` itself is not obvious: a proxy that is
created gets an object that nothing refers to, and `NewObject` shows by
counting that one of the `Objects` is always free, since a thread refers to one
at most (`UsesOne`).  Assumptions: `NamesDistinct`, `BoundsAreNat` and
`FinitelyMany` (threads and folders are finite sets, disjoint, and no proxy is
NULL), which the counting needs.

### The folder hierarchy

`MapFolderTreeProofs` proves, for any finite tree of directories and any
pattern of refusals, with and without a place for the error and with a disconnect
anywhere, `[]TypeOK`, `[]ParentIsDirectory`, `[]FailureIsLocal`,
`[]ErrorTellsLoss` and `[]SiblingsChained`, from

    IInv == Types /\ StackShaped /\ DirsDistinct /\ InfosExact
            /\ ParentIsDirectory /\ AllChained /\ LastsKept
            /\ ErrorTypes /\ LossesExact

The properties speak of the end of the walk or of infos already made; the
invariant says what the frames on the stack stand for.  `StackShaped`: the
`fiparent` of a frame is the info of its directory, and what it has left to visit
are folders of it.  `DirsDistinct`: no directory is on the stack twice.
`InfosExact`: the infos are those of the folders of listed directories but for
the ones still to be visited; with an empty stack that is the first
part of `FailureIsLocal`.  `LossesExact` is the rest: no directory that was lost
is listed or on the stack, a set error stands for exactly one refusal, and while
it is not set every directory that is not listed was lost or is being visited.
`AllChained`: the infos of each listed directory made so far are one chain;
`LastsKept`: the `fi` of a frame is the last of its chain, also after the visits
to other directories (`VisitsSeen`).  `ChainGrows` shows that a visit adds to the
end of the chain.  Assumptions: `TopIsNoDir`, `UpIsDirectory`, `SkippedAreDirs`
and `DirsAreFinite` (a chain is a finite sequence of all the folders).

### The store summary

`MapStoreSummaryProofs` proves, for any finite set of folders, any names and any
number of changes, `[]TypeOK`, `[]HashesMatchFile`, `[]OrderlyKeepsRunning` and
`[]OrderlyKeysLive`, from

    IInv == Typed /\ TidyFiles /\ TablesMirror

and `[]DirtyIsExact`.  The last is inductive by itself: a step that changes the key file sets the
flag, the one that loads leaves it clear only with what it read, the one that
saves clears it and writes or records the failure, and a deletion by somebody
else is one the monitor has to report.

The three hash properties are one fact.  `TablesMirror`: unless the key file was
cleared under them, the tables hold exactly the folders of the key file under
their full names, in both directions, each name being the string of the folder
it leads to, and the process lives.  A rename needs the
entries it looks up without a check, which `TablesMirror` of the state before has,
and makes those of the state after; loading rebuilds the tables from the file, which
must therefore be a tree as well (`TidyFiles`).

That one rename keeps the tables so is the work of `MapStoreSummaryNames`:

* `AncestorsAre`, `PathsRec`, `LoopExists`: the recursive functions behind
  `Ancestors`, `BuildFullName` and the loops exist and unfold as they are written;
* `Rooted`: without a cycle the parents of a folder come to an end within as many
  steps as there are ids, since no id is among its own ancestors (counted with
  the cardinality of the ids met on the way);
* `FullNameIs`, `TidyIsTree`: the full name of a folder is that of its parent with
  its own name after it, which is what the recursion of `build_full_name` means;
* `UnderStays`, `NoClash`: when one folder is renamed or moved, the full names of
  the folders under it change and no others, and no new full name is one that
  another folder had before.  This is why it does no harm that a folder above is
  entered under its new name while those below still have their old ones;
* `ReplaceLoopMirrors`, `AddLoopMirrors`: the loop over the subfolders and the one
  that builds the tables keep both tables inverse to one another after every round,
  with some folders under the new and the others under the old names (`Mix`), so
  that the order of a hash table does not matter.

The library's induction theorems cannot be instantiated by the provers here.
Where a fact is about every depth or every round, its proof takes the least number
for which it fails (`LeastOf`, from the library's theorem on minimal elements of a
well-founded order) and derives a contradiction from the one before.
Assumptions: `IdsAreFinite`, `ValuesExist` and `NoNameIsNone` (no name, and no
sequence of names, is the value that stands for NULL), with those the module had,
`OrderlyIsBoolean`, `BoundIsNat` and `FreedIsNoId`.

### Model-checked only

* Liveness (`CallsReturn` of two modules, `CallsAnswered`, `OperationsEnd`,
  `ButtonReturns`), which TLAPS does not reach.
* The four runs that expect a violation.

## 5. What is not modelled

* Message summary records: conversions without state of their own.
  `camel_map_summary_add_message`, `camel_map_update_message_info_flags` and
  `map_summary_clear` have no caller.
* Settings other than the phone's four: the junk and check-all flags and the
  e-mail address are set and read independently.  The lock of the setters, which
  no getter takes, is left out, and with it a connect that reads address and
  channel (store.c:214) while the user edits the account.
* `server_flags` of the message records: they are written to the database and
  read from it, and no code that is called ever sets one.
* Leaks (the providers that a search found) except for what rests on them.
* Provider registration: static tables, hash and equality of URLs.
* Searching is Camel's; appending, transferring, creating, renaming and deleting
  only report an error.
* Content of messages: `parse_xbt_message` is modelled by what it needs of the
  file and what it leaves, not by its text.
* `camel_map_dbus_set_notification_registration` and
  `camel_map_folder_mark_message_deleted` (folder.c:1289) have no caller.
* `camel-test.c`, a program to try the provider.

## 6. Plan

In this order:

1. done: all modules of section 2, and the proofs of every invariant and action
   property that a passing run checks, and of the refinements of `TransferOutcome`
   and `DeviceChoice`;
2. a composition of fetch and transfer, in which `TransferUnfinished` is the
   step of `MapTransfer` instead of an allowance of `TransferOutcome`.
