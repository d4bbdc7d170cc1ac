# A verification of the synchronization engine of Nuxeo Drive

Nuxeo Drive keeps folders of a computer and of a server in step. This project models the parts of its Python
code whose correctness depends on the order in which threads, timers, servers and users act, checks the models
with TLC and proves theorems about them with TLAPS. Every definition is translated from the source;
`PROJECT.json` names the lines each one stands for. Paths below are relative to `src/nxdrive/`.

1. [The system](#1-the-system)
2. [The modules](#2-the-modules): state, actions and abstractions of each
3. [The runs](#3-the-runs): what TLC checks, the bounds, the fairness
4. [The proofs](#4-the-proofs): what TLAPS proves, from what, along which argument
5. [Where the code departs from what one expects](#5-known-departures)
6. [What is not modelled](#6-what-is-not-modelled) and [what comes next](#7-what-comes-next)

## 1. The system

### Parts, their state and their operations

| Part | Source | State | Operations | Modelled by |
|---|---|---|---|---|
| Processing queues | `drive/engine/queue_manager.py` | four queues, their enable flags, the dedicated threads and the pool, `_on_error_queue` and its timer | `push`, `push_error`, the four getters, `launch_processors`, `_thread_finished`, `suspend`, `resume` | `QueueManager`, `PairDelivery` |
| Worker threads | `drive/engine/workers.py` | `_continue`, `_pause`, the running flag, the current pair | `run`, `_interact`, `stop`, `suspend`, `resume`, `increase_error`, `giveup_error` | `QueueManager` |
| Processor | `nuxeo/engine/processor.py` | the soft locks, the current pair | `_execute` and one handler per pair state | `QueueManager`, `PairSync`, `FileTransfers`, `DirectTransfer` |
| Pair database | `drive/dao/engine.py`, `drive/dao/base.py` | one row per file: local, remote and pair state, version, owner, error count; transfers; sessions; filters; paths to scan | `acquire_state`, `release_state`, `update_local_state`, `update_remote_state`, `synchronize_state`, `increase_error`, filters, transfers, sessions | `PairStates` and the modules that use it; the file itself in `Database` |
| Engine | `drive/engine/engine.py`, `nuxeo/engine/engine.py` | `_pause`, `_stopped`, `_offline_state`, the threads | `start`, `stop`, `suspend`, `resume`, `set_offline`, conflict resolution, transfers and sessions | `QueueManager`, `Accounts`, `DirectTransfer`, `PairSync`, `FileTransfers` |
| Local watcher | `drive/engine/watcher/local_watcher.py` | the events of the file system, delayed scans | `_scan`, `scan_pair`, `handle_watchdog_event` | `LocalWatcher`, `PairSync` |
| Remote watcher | `nuxeo/engine/watcher/remote_watcher.py` | the last seen audit event, the scans to do | `_handle_changes`, `_update_remote_states`, `scan_remote` | `RemoteWatcher`, `PairSync`, `Filters` |
| Uploads, downloads | `nuxeo/client/uploader/`, `nuxeo/client/remote_client.py` | rows of Uploads and Downloads, temporary files, batches on the server | `_get_transfer`, `upload_chunks`, `link_blob_to_doc`, `stream_content`, `download` | `FileTransfers`, `DirectTransfer`, `TransferSession` |
| Direct Edit, autolocker | `drive/direct_edit.py`, `nuxeo/direct_edit.py`, `drive/autolocker.py`, `drive/engine/blocklist_queue.py` | an upload queue, a lock queue, files that wait, locks held | `edit`, `_handle_upload_queue`, `_handle_lock_queue`, `_poll`, `_cleanup` | `DirectEdit` |
| Direct Download | `drive/direct_download.py` | records, batches, a pool of threads | start, pause, resume, cancel, archive, clean up | `DirectDownload` |
| Alfresco engine | `alfresco/` | a second kind of server, without an audit log or digests | its own processor, watcher, tokens | `Alfresco`, `SignIn` |
| Manager | `drive/manager.py`, `drive/poll_workers.py` | the engines, the configuration database | bind, unbind, start, stop, pause, restore | `Accounts`, `Settings` |
| Updater | `drive/updater/` | the status and the version to install | `refresh_status`, `update` | `Updates` |
| Options | `drive/options.py`, `drive/feature.py` | the value and the setter of each option | `set`, `update`, with priorities | `Settings` |
| Migrations, repair | `drive/dao/migrations/`, `drive/dao/utils.py` | the version of the schema, backups | `fix_db`, `save_backup`, `restore_backup`, the migrations | `Database` |
| Authentication | `drive/auth/`, `nuxeo/auth/`, `alfresco/auth/` | pages, codes, tokens | `continue_oauth2_flow`, `update_token`, refreshes | `SignIn` |
| Interface | `drive/gui/`, `drive/utils.py` (PID file, links) | windows, the local socket | the window of the filters, the links, the start of an instance | `Filters`, `Links` |
| Local client, notifications and objects, desktop integration | `drive/client/local/`, `drive/notification.py`, `drive/osi/`, ... | none that others read | calls to the system, records, messages | not modelled |

`PROJECT.json` has one entry for each part with what its modules leave out; all but the last line above are
modelled in part.

### How they interact

A watcher writes what it saw into a row and the database pushes the row into a queue. The queue manager launches
a processor thread, which pops the row, acquires it by writing its thread id into the column `processor`, calls
the handler named after the state of the pair, and releases it. A handler reads and writes the row and other
rows, pushes them again, and calls the two clients. An error puts the pair on a timer. The engine suspends,
resumes, stops and starts all of it from the main thread; Qt signals posted by the other threads run in the main
thread's event loop. The manager holds one engine per account and calls them from the windows, the polls and the
links. Direct Edit, Direct Download, Direct Transfer and the updater share the manager and the threads of the
application but not the rows of the pairs.

### What is hard

* the queues are popped by several threads, a pair may be in them several times, and the getters drop what is on
  error;
* signals are posted, so a thread may end between a push and the slot that would have launched it;
* a handler works on a row it read earlier, while watchers and other handlers write it;
* a watcher compares what it learned a moment ago with rows that others change, and its events describe a disk
  or a server that has moved on;
* a transfer is taken up where it was cut, though its source may have changed;
* the user suspends, cancels or resolves while a handler is at work;
* the application stops or crashes in the middle of sequences of statements that are not transactions, and
  several instances of it may start at once.

The list of hazards in `PROJECT.json` names the line of each one and the properties that cover it.

### What makes each part correct

* Queues: no pair is lost, none is handled twice at once, none stays "in use" for ever, none waits for a launch
  that was lost.
* Pairs: when all is quiet both sides agree or the user is told; no step replaces or deletes what somebody wrote
  and nobody removed; no document is made twice.
* Transfers: what is synchronized is one whole version; a pause is obeyed; nothing is left halfway.
* Sessions: counts agree with the rows, a session ends when all its rows have ended.
* Watchers: when all is quiet the rows and the folder mirror the server (or the disk); what the user moved or
  filtered stays where it is.
* Direct Edit and Direct Download: the last save reaches the server over nobody else's version and the lock is
  released; a record says COMPLETED only with its whole document.
* The application: one instance runs; every link, sign-in page, setting, account and row is kept.

## 2. The modules

| Module | What it is |
|---|---|
| `PairDelivery` | Abstract: what the queues promise. A pair that is due is handled, by one handler at a time. |
| `QueueManager` | The queues, the threads and the error timer; implements `PairDelivery`. |
| `TransferSession` | Abstract: a session of Direct Transfer. Every item ends at most once, a lost one never, a cancellation is final. |
| `DirectTransfer` | One session: its planning, the processors on its items, the user and restarts; implements `TransferSession`. |
| `PairStates` | The row of a pair and the methods of `EngineDAO` that write it; used by `PairSync`, `RemoteWatcher`, `LocalWatcher`, `Alfresco`. |
| `PairSync` | One file, its documents, its row, the two watchers, the processor and the conflict resolver. |
| `FileTransfers` | The content of one file, chunk by chunk, in both directions. |
| `RemoteWatcher` | A tree of documents, the audit log, the scans, the filters and the processor. |
| `LocalWatcher` | A tree of files and folders, the events of the file system, the scans and the processor. |
| `Alfresco` | One file and its document on a server without an audit log or digests. |
| `DirectEdit` | One document from its opening to its unlocking. |
| `DirectDownload` | Batches of documents streamed, archived and cleaned up. |
| `Accounts` | The accounts, their engines, databases and folders over launches and crashes. |
| `Filters` | The window with the tree of the documents, the table of filters and the scans that follow. |
| `SignIn` | The pages of a sign-in, their answers, and the refreshing of tokens. |
| `Database` | The file of an engine's database through crashes, repairs, backups and upgrades. |
| `Settings` | Who sets a feature or an option, and who is heeded. |
| `Updates` | The choice and the installation of a new version. |
| `Links` | The instances of the application, the PID file, and the links they hand over. |
| `Nil` | The constant that the last modules write where the code has None. |
| `MC...` | The instances TLC checks. |
| `...Proofs` | The theorems about a module. |

Most properties have the form "P, unless one of these named things has happened". A named loss (the variables
`lost`, `why`, `excuse`, `kept`, `spoiled`) is recorded at the step where the code drops or mistakes something,
and only there; the property then says that nothing else goes wrong. Section 5 lists them. A history variable is
never read by an action.

### QueueManager

State. `queue` holds the four queues, `enabled` their four flags (they only change together), `connected`
whether `newItem` is connected (init_processors), `launch` and `newError` the slots posted to the main thread,
`onError` and `timer` the error queue. For each thread: `phase` is where it is, `item` what it popped, `current`
its `_current_doc_pair`, `goesOn` and `pause` its two flags, `from` the queue chosen by `_get_file`, `fate` what
`push_error` is about to insert. For each row: `owner` is its column `processor`, `rows` tells whether it
exists, `errors` its `error_count`. `paused`, `offline` and `scan` belong to the engine and to the local
watcher. `stopping` holds the threads that `Worker.stop` waits for; a terminated one is "killed", and `hung` if it
was started again after that. `Ghost` in the column `processor` is the id of a terminated thread. Two variables
are histories: `owed`, the pairs whose push, or whose handler's wish for another try, has not been followed by an
acquisition, and `freed`, the rows that another than their handler has freed.

Actions. A slot of the main thread is one action, since slots never interleave with each other. A processor
thread is one action per access to shared state: choose a queue, pop, look at the error queue (once more after
the lock for the pool), acquire, the end of the handler, the check and the insertion of `push_error`, the
release, `_interact`. What a handler does inside is left out but for its effects here: how it ends (`Outcome`),
and the write in the middle of it that resets the column `processor` (`Synchronize`). `Worker.stop` is two
actions: the order to quit, with the start of a local scan (`ScanBegin`) or the deletion of a folder
(`DeleteFolder`, which asks `get_processors_on` about any set of pairs), and `Terminate`, at any moment after it
while the thread is in its handler; a scan does not go on before the threads it waits for have ended or were
terminated. `FreeRow` is another thread's `synchronize_state` or `unsynchronize_state` of the row of a handler.

Abstractions. The kind of a pair and the direction of its change are the set `Home[p]` of the queues a push of
it may go to. A copy of a row in a queue is its id, since acquire_state reads the row again; a copy on error is
"live" or "void", after the state that push() will look at. The interval of the error timer and the one-second
waits are not modelled: the timer may expire as soon as it is active. A thread is terminated only inside a
handler: outside of it a thread does not wait for the network, so that it ends within the five seconds.

### DirectTransfer

State. The three tables of the database: `rows` and `todo` are the rows of States and those whose remote_state
is "todo", `upload` the status of the row of Uploads of each item, `status`, `uploaded` and `total` the row of
Sessions. `stage` and `planned` are how far `_direct_transfer` is, `step` where the processor of each item is,
`gui` and `target` what the main thread is in the middle of, `suspended` is `Engine._pause`. `due` stands for
the queues and the error timer of `QueueManager`: an item in it will be taken by a processor, one at a time,
which is what `PairDelivery` promises. Three history variables: `linked` has the items that became documents,
`abandoned` those whose handler has ended without a copy queued again, and that nothing has pushed since, `lost`
those whose row was removed without being counted in the session.

Actions. The planning is one transaction per batch (`PlanItems`). A processor is one action per access to a
table that others write: `ReadSession` and `PathExists` open the handler; `MakeFolder` is a folder, with the
release of its children; `FindTransfer` / `NoTransfer` / `NewTransfer`, `Chunk` / `SendInOneGo`, `Complete` and
`Link` are the upload of a file; `EndTransfer`, `EndUploaded` / `EndGivenUp`, `EndSession`, `CountUploaded` /
`CountGivenUp` are the four accesses of `_direct_transfer_end`. The faults are actions of their own
(`PathMissing`, `Ignored`, `LinkNotFound`, `Disconnected`, `GiveUp`; `Forbidden`, for every ending that leaves
the row queued nowhere: a 403, which is only logged, a path too long, an error above the threshold or given up, a
RuntimeError; `CredentialsExpired`, which also removes the upload; `Vanished`, for the ENOENT that removes the row
and counts nothing). In the main thread, what takes several
accesses is split: the two steps of `Engine.resume_session`, the question and the cancellation of a session, the
steps of `Engine.cancel_upload`. `Restart` is the end of the process at any moment, then
`register_queue_manager` and `resume_suspended_transfers`.

Abstractions. The number of chunks is not counted: a file is in `chunks` until its last chunk. Some steps are
wider than one access, where no one looks in between: the release of a folder's children with the answer of the
server, the removal of an obsolete upload with the insertion of the new one, the uploads resumed one by one by
`resume_suspended_transfers`. A missing path, a refused request or a 404 is a choice, at most `MaxFaults` times.
The user sees the status as it is in the database. An item above the threshold of errors is pushed again by a
resumption or a restart only, not by the button that retries it. Left out: several sessions, scheduled sessions,
the steps of S3, a folder ignored as a duplicate, the orderly end of the
application.

### PairStates and PairSync

`PairStates` is the row and the methods of `EngineDAO` that write its state. A thread works on a copy of a row;
the copy remembers whether its row is still there (`here`: a write is "WHERE id = ?") and whether the version is
still the one that was read (`cur`: versions are only compared for equality), so that no counter is needed.

`PairSync` has the disk (`disk`), the documents of the file's name (`server`), the row (`row`), the copies of
the threads (`doc`), what is on its way to each watcher (`events`, `event`; `changes`, `summary`, `deletions`),
the queues (`queued`, `later`, `errors`), the signal of a conflict and where the processor is (`pc`, `handler`,
`info`). A step ends where its thread waits for the server: what a handler does on the disk and in the database
between two calls is one step, for that is where another thread comes in; the two watchers read a row and write
it back in two steps. Every handler of `Processor` that a file of a synchronized, writable folder can reach is
an action. `unseen`, `during`, `recorded`, `wanted`, `local` and `remote` are history variables of the
properties. The queues are those of `QueueManager` reduced to "in a queue", "on error".

### FileTransfers

State. `disk` and `doc` are contents: sequences of the version of each chunk, so that a content that mixes
versions can be told. `tmp` is the temporary file, `batch` what the server has of a batch, `served` whether it
has already answered the request of the row, `down` and `up` the rows of Downloads and Uploads with their status
and whether they are tied to the pair, `pair` and `proc` the pair and what the processor is doing, `news` what
the watchers have not reported, `digested` whether this server gives digests.

Actions. The processor takes the pair (`Take`); a download is `Info`, `Get` (a Range from the size of the
temporary file), `Chunk` for each chunk that follows or `Small` for a file below the limit, `Check`, `Place`; an
upload is `GetTransfer`, `Send` for each chunk, `Sent` (or `SentNowhere` when the batch is gone), `Complete`,
`Link` and the ways it fails (`LinkNotFound`, `LinkLost`, `LinkUnavailable`), `Linked`. `Fails` is the network,
`Raised` what `_execute` does with an exception. `Pause`, `Resume`, `SuspendEngine`, `ResumeEngine`, `Crash`,
`BatchExpires`, and the edits on both sides with the reports of the watchers come in anywhere. Left out: both
directions at once, uploads in one request, servers that give no digest when the pair is an upload, S3.

### RemoteWatcher and LocalWatcher

`RemoteWatcher` has the documents of the server and its log, what the database keeps of it (rows, Filters,
ToRemoteScan, RemoteScan, the bound of the log) and what the watcher holds in memory. It is interrupted between
two calls to the server. A handler of the processor is one step; the user adds and removes filters, others move,
delete and restore documents. `LocalWatcher` is its mirror: the files and folders of the disk with the reference
each carries in an extended attribute, the events in their order, the scan and the handlers of the events one by
one against the disk as it is by then, the processor that makes the server follow. `hasBirth` is whether the
platform has a creation time to tell a copy from its original. Each of the two lets only one side change, with a
processor step that is whole: what happens between the steps of the processor, and when both sides change, is
`PairSync`.

### Alfresco

The remote watcher of Alfresco lists the folder at every poll and compares times; it then looks at the disk for
what the local watcher missed. `scan`, `held`, `pc`, `cur` and `answer` are where these two threads are and the
copies they hold; `disk`, `nodes` and `row` are what they write. A step ends where its thread waits for the
server, or between two writes that another thread may come between.

### DirectEdit and DirectDownload

`DirectEdit` follows one document: the server's (`srv`), the folder of the edit (`file`, with the digest and the
mark it carries), the local application (`app`), the watchdog queue, `_upload_queue`, `_lock_queue`, the
`_error_queue` of files that wait (a `BlocklistQueue`), the autolocker's polls (`auto`, `toLock`, `snap`,
`locked`) and the conflict window. The thread of Direct Edit handles locks, uploads and events in that order;
`base` (in `file`), `mine`, `others`, `known` are history. `DirectDownload` has the records (`rec`), the folders
of the batches (`disk`), what each thread of the pool is doing (`batches`), and what was put in "Downloads"
(`delivered`). The thread, the window and the end of a batch each read a record and write it back whole: reading
and writing are steps apart. A file has the name of its document's title (`FileIn`), so that two documents of one
title in one folder have one file, and its pieces say whose they are.

### The application: Accounts, Filters, SignIn, Database, Settings, Updates, Links

* `Accounts`: the tables, databases, folders and engines of the accounts. A bind (`BindBegins`, `BindWrites`,
  `BindEnds`) and an unbind are several steps (`doing`) that a crash may cut; all else in the main thread is one
  handler, one action. What a method of an engine does (`StartEngine`, `Stop`, `Suspend`, `Resume`, `CheckRoot`)
  is a function of the state of an account: its database, its engine and the folders. A handler that calls
  several of them composes these functions, and one that calls a method of every engine applies it to each.
* `Filters`: the boxes of the tree (`window`), the children being fetched (`job`), what OK has still to write
  (`ops`) and what the watcher is scanning (`scan`).
* `SignIn`: the pages, the one `callback_params` for all of them, the copy of it in the manager's database, the
  loopback listener, the tokens as pairs of page and generation since every refresh makes the one before void.
* `Database`: a content is the two version numbers a release may look at, the schema the tables really have, and
  the rows; the write-ahead log is a file of its own. Starting is a sequence of steps that a crash may cut.
* `Settings`: for each feature and option the value and its setter, what the files, the command line, the
  database and the server say, and what the user last chose.
* `Updates`: the site, the servers of the accounts and the channel change between the fetch, the choice, the
  question and the installation, which the worker and the user may both start.
* `Links`: the PID file read, checked, removed and written in steps by any number of instances; the links in the
  socket of the one that runs; the cache of the parser with the lists it has returned.

## 3. The runs

Several runs check two or more components at once, to share a run: in each behaviour only one of them (`part`)
takes steps, with its own bounds. The components that the MC module EXTENDS have their own variables and wait in
an initial state of theirs when another runs (`MCServices` extends four, whose initial states, steps and
specifications are named after them, and `MCDownloads` the two it runs); the others are instantiated on variables
of the MC module. A property of such a run joins properties of one module (`TransfersKept`, `AnswersKept`,
`RowsKept`, ...). `pair_sync` runs one component with two sets of bounds (`part`, too): two rounds, or a restart.

| Run | What runs | Properties | What it shows |
|---|---|---|---|
| `queue_outcomes` | a file pushed twice, every way a handler may end, a suspension, disconnection, scan or deletion of a folder, terminations | `TypeOK`, `HandlersExclusive`, `NoOrphanOwner`, `ErrorTimerArmed`, `NoLostWakeup` | two handlers never work on a pair at once unless its row was freed, only a terminated thread is left blocking it, wake-ups survive |
| `queue_delivery` | the same with fairness and the endings that ask for another try | `NoLostPair`, `Delivered`, `ImplementsDelivery` | the queues implement `PairDelivery`; what is owed is delivered, unless its row keeps a terminated thread |
| `pair_sync` | `PairSync`: two rounds of edits, removals, restorations on both sides, two documents; or one round, and a stop or a crash anywhere | `PairKept`; `NothingUndone`; `NoTwin`, `RestartSettles` | a row keeps a known state, both sides agree or the user is told; in two rounds no step loses an edit or deletes what nobody deleted; after a restart no document is made twice, the threads come to rest |
| `remote_watcher` | two folders and a file; two changes, a filter, a fault | `Mirror`, `StaysHere`, `Settles` | the folder and the rows end as the server and the filters say |
| `local_watcher` | `LocalWatcher`: a folder and its file, three actions of the user and a stop; `FileTransfers`: three chunks, up to three versions | `Mirror`, `KeepsFiles`; `TransfersKept` | the server ends as the disk, no document of a file that is still there is trashed; what is synchronized is one version, of one document, and nothing is left halfway |
| `downloads` | `DirectDownload`: two documents of two pieces and a third with the title of the first, two threads, three clicks or two clicks and a fault (two of these with the third document); `Updates`: three versions, two servers, two changes, a failure | `Completed`, `Settles`; `Suitable`, `Checks` | COMPLETED means whole, documents of one title share a file only when one request has both, what is pending ends; what is installed is suitable, the checks go on |
| `namesake_skipped` | the same, one click, no fault | `OnlyCompleteSkipped`, violated | "Only skip when we are sure the file is already complete" (`nuxeo/direct_download.py:633`): the second of two documents of one title is skipped for the file of the first |
| `alfresco` | every listed combination of two or three of: edits, moves, deletions, faults | `Kept`, `Settles` | nothing that only one side had is destroyed, and the two end alike |
| `dt_session` | a folder, the file in it and a file beside it; pauses, resumes, suspensions, a cancellation, faults but `not_found` and `missing`; fairness | `Accounting`, `NothingForgotten`, `ImplementsSession`, `SessionFinishes` | counters agree with the tables, no item is left behind but on a logged error, the tables implement `TransferSession`, the session ends unless an item vanishes or stays behind |
| `dt_uploads` | a session created paused, clicks during the planning, uploads cancelled one by one, restarts, missing paths, 404, 403, vanished files | `TypeOK`, `CountedIsLinked` | never more is counted than was made |
| `services` | `Links`, `SignIn`, `Database`, `Settings`, `Filters` | `FiltersKept`, `AnswersKept`, `RowsKept`, `SettingsKept`, `OneInstance`, `LinksAnswered` | each keeps what it is for |
| `desktop` | `Accounts`, `DirectEdit` | `AccountsKept`; `EditsSent`, `KeepsOther` | accounts and engines stay together; the last save is sent, over nobody's version |

Each property has a mutant of the code in `PROJECT.json` that breaks it; of a property that joins several, one
of them. One run expects a violation, of a comment of the code; whatever else the code does otherwise than
expected is a named loss of a module (section 5), so that the rest can be checked around it.

Deadlock is checked in `local_watcher` and in `services`: the watcher names its states of rest, a database must
always have a step, and the components beside them rest once their bounds are used. Elsewhere the system really may
stop: with nothing to do, queues and watchers wait, a session that is over or paused has no step, and the budgets
of the users end.

### Bounds

* `QueueManager`: `MaxPush` pushes and `MaxToggle` suspensions, disconnections and scans are enough for two
  copies of a pair to be in the queues while a third is on error, and for a suspension or a scan to fall at any
  point of it. One pair and three threads reach every action: a hazard of these queues needs two copies of one
  pair or one pair and a thread that ends. `MaxErrors = 1` lets the threshold be reached by the second error,
  and `errors` is saturated above it since only the comparison matters.
* `DirectTransfer`: three items are a folder, a file that waits for it and one that does not; one chunked and
  one not. `MaxOps` clicks are enough to pause, resume and do one thing more at any point of a handler;
  `MaxFaults` is one or two, so that an item is retried.
* `PairSync`: three contents, the third of another size, since an edit is seen by size or by digest; two
  documents, since a removed one may be replaced; two rounds (`Rounds`, with at most `Burst` changes of each
  side in one), so that the second starts with what the first left.
* `FileTransfers`: three chunks, with `Limit` one: first, middle and last differ; the edits, failures, pauses
  and crashes of `TransferBudgets`, two of what matters together.
* `RemoteWatcher`, `LocalWatcher`, `Alfresco`: one chain of folders and one file, and the combinations of
  `MCStarts` and `MCBudgets`: a hazard there takes two changes, or one and a fault, at the wrong moment.
* `DirectDownload`: what the user does and what fails are at most three, and at most two once the document with
  the title of another is asked for (`Budgeted` of `MCDownloads`); `CompletedIsWhole` is proved without these bounds.
* `DirectDownload`, `DirectEdit`, `Accounts` and the services: two of each thing that may be confused
  (documents, versions, accounts, pages, options, instances: three for a third one that starts while two look at
  the PID file), and combinations of rare events in which two or three meet.

### Fairness

* `QueueManager` (`FairSpec`): weak fairness of the posted slots and of the timer, since Qt delivers posted
  signals and timers while the main loop runs; of each processor thread, since the operating system schedules it
  and no handler blocks for ever (network calls have timeouts); of the end of a scan. Nothing obliges watchers,
  users or the network, and nothing terminates a thread. `Delivered` holds under the condition that the queues are
  open for good, with no terminated thread hanging in its slot, and says nothing of a pair whose row keeps the id
  of a terminated thread.
* `DirectTransfer` (`FairSpec`): weak fairness of the Runner's planning, of what the main thread has begun (the
  dialog is answered, the slots run to their end), and for each item of `Take` and `Handle`, as the liveness of
  `PairDelivery` gives them. None of the user or of the faults: `SessionFinishes` speaks of a session that is
  not left paused by an engine that is not left suspended, and of which no item vanishes or stays left behind.
* `PairSync`: weak fairness of the two watchers, the processor and the engine's restart, each a loop that
  nothing blocks; `RemoteWatcher`: of the watcher's loop, the restart and the handling of each queued item;
  `DirectDownload`: of each task of the pool and of the end of a batch. The other modules state no fairness and
  have no liveness property.

## 4. The proofs

A theorem below holds for every value of the constants: any number of pairs, threads, items, chunks, versions,
instances, options and any budget. `PROJECT.json` lists the theorems; those with a `property` state what a run
checks. Constants satisfy the assumptions their modules state (TLC evaluates them on the instances); a theorem's
own hypotheses are named here and in its comment. Each step proof has one case per action of `Next`.

### Queues (`QueueManagerProofs`)

* `TypeCorrect`, `Exclusion` (`HandlersExclusive`), `NoOrphan` (`NoOrphanOwner`): from the inductive invariant
  `RowInv`. Exclusion alone is not inductive: two handlers cannot hold a pair because each owns its row unless
  another freed it (`HandlerOwns`), the owner of a row is still working on it unless it was terminated
  (`OwnerWorks`), an item that is being postponed
  because its row is in use never owns it (`BusyInError`), and whoever works holds a pair (`HasItem`, without
  which the types are not inductive either).
* `Wakeups` (`NoLostWakeup`) and `TimerArmed` (`ErrorTimerArmed`): inductive given the types.
* `NoneLost` (`NoLostPair`): a pair that is owed a handler is in a queue, in the hands of a thread, or waits for
  the error timer. It assumes `NothingForgotten`: no handler ends in one of the two ways after which the code
  remembers nothing ("ongoing", `nuxeo/engine/processor.py:365`, and "void", a pair postponed while it is
  conflicted). Then no copy is "void" (`NoVoid`), and with `RowInv` the property is inductive.
* `DeliveryPromise`: the safety part of `ImplementsDelivery`, with no hypothesis on the endings. The initial
  state maps to the initial state of `PairDelivery`, and each step either leaves what it sees unchanged
  (`Invisible`), opens or closes the gate (`Gate`), submits a pair (`Submission`), ends a handler (`Ending`), starts
  one, drops a row, or is the death of one (`Die`).
  Its liveness part is `Delivered`, left to TLC.

### Direct Transfer (`DirectTransferProofs`)

* `TransferTypes` (`TypeOK`), from `Base`, and `CountIsTrue` (`CountedIsLinked`), with no further assumption.
  The count alone is not inductive: `CountInv` says that the items counted so far, the linked ones which are not
  about to be counted, are at least `uploaded`.
* `AccountingHolds` (`Accounting`) and `SessionContract` (`ImplementsSession`), assuming `Orderly`: no upload is
  cancelled alone, nothing restarts, no folder is given up, and a session that may be cancelled is not paused by
  a missing path. These are the uses for which the hazards show that the contract is not kept. The inductive
  invariant `SessionInv` adds to the counters that an item in the hands of a processor keeps its row unless the
  session was cancelled (`Present`), that a cancelled session counts at least its total (`Counts`), so that a
  late update cannot make it done, and where folders and the main thread may be (`Shape`). Every step has one of
  seven effects on the session (`EffectStep`), and each effect is a step of `TransferSession` or a stutter. A
  vanished item (`Losing`) moves from the rows to `lost`, so that what is left stays what the counters say, and
  is a step `Lose` of the contract: it is pending for ever.
* `NothingIsForgotten` (`NothingForgotten`), assuming `Orderly` and `Attended`: nobody touches the session
  before it is planned (a session created paused and resumed too early forgets its last batches), and whatever
  is below a folder is directly below one. The invariant `Remembered` says that an item without a copy in the
  queues, and not left behind by an error that is only logged (`abandoned`), waits for a folder whose row is still
  there and which is not made yet (`Waiting`), or has a suspended upload (`Covered`, `Uploads`).

### The content of a file (`FileTransfersProofs`)

`TransferInvariant` is the inductive invariant, proved without hypotheses; `ContentsAreWhole` (`WholeVersions`),
`OneDocumentIsMade` (`OneDocument`), `PauseIsObeyed` (`PauseObeyed`), `TransfersResume` (`Resumed`) and
`TransfersAreKept` (`TransfersKept`, the four) follow. `TransferInv` joins

* `TransferTypes`: types, that the file and the document always have all their chunks (`Documents`), and what
  each place of the processor implies for the pieces it holds (`Pieces`): the end it still has to read has the
  length that the temporary file lacks;
* `CopiesInv`: once a document is made, the request of the row has been served as long as the pair does not know
  that document, so that a second one needs a new identifier ("renewed");
* `PauseInv`: at most one chunk follows a pause, and after it the processor is no longer where it would send or
  receive another;
* `VersionInv`: a pair whose version is no longer that of the processor's copy is queued again, and one whose
  version is has the digest of the copy;
* `ForgottenInv`: what is neither synchronized, queued nor with the processor has a row tied to it that the user
  or the engine will resume, and a suspended row has a suspended engine;
* `ContentsInv`: unless versions were mixed for a named reason (`Lost`), the file, the document and the digests
  are written versions, and every piece in the temporary file, the batch and the processor is of one
  (`WholeInv`); and what the processor holds is what the file or the document is, or a change is still to be
  reported (`SyncInv`, except for "older").

`WholeInv` is not inductive without `SyncInv` where the processor places what it downloaded; `SyncInv` needs
`VersionInv`, since the code writes "synchronized" only if the version has not changed.

### Direct Edit (`DirectEditProofs`)

* `OthersAreKept` (`KeepsOther`): from `ReplaceInv`. `BaseInv` says that the file and its digest are versions of
  its base or of the user, `MarkInv` that a folder marked as locked has the lock and every version seen, or an
  excuse, `SendingInv` that an upload which runs over an unseen version has one.
* `LastSaveIsSent`, `LockIsReleased`, `EditsAreSent` (`EditsSent`, the two): from `LocksInv`, which joins to it
  that a version of the user once seen on the server is known (`KnownInv`), that as long as the last save is not
  sent the folder holds it and an event, a queue or a dialog is left (`SentInv`), and that a lock held is
  followed by an unlock in the queues, or is in the table that the next start reads (`LockInv`, with `Covered`
  for the order in the lock queue).

### The application (`ServicesProofs`, `DownloadsProofs`)

* `SignInInvariant` (`SignInInv`) and `AnswersAreKept` (`AnswersKept`), assuming that every engine has a kind and
  that None is no engine, no page and no token. A page is answered once, and what is in memory or in manager.db
  is of the last page opened (`PagesInv`); the answer of that page is on its way, with what it needs still there
  (`UsedInv`); a token comes from the page of its own engine, and that page will not be answered again
  (`RightInv`, `FreshInv`); every engine has a token of a later generation than all those of its page that a
  refresh has made void (`WorksInv`, `NewestInv`), and it is stored or about to be (`SavedInv`). `NewestInv` is what
  makes "the token works" inductive: the server accepts one generation only.
* `LinksInvariant` (`LinksInv`), whose three parts give `OneRuns` (`OneInstance`), `LinksSettled` (`Answered`) and,
  with them, `LinksAreAnswered` (`LinksAnswered`), for every number of instances, links, retries and crashes.
  `PidInv`: unless the file was raced, who runs is in the PID file (`RunnerInFile`); for this the PID found stale
  stays of an ended instance (`StaleEnded`) and who is in the file has started (`FileStarted`). `LinkInv`: the link
  of an instance that has ended is answered, in the inbox of one that runs, or lost for a named reason; an
  instance that does not run has nothing in its inbox. `RecordsInv`: unless a link was clicked again, each record
  of a download was taken up at most once; a link inserts a record for each of its documents, numbered after
  those there are, so that the proof is about the ranks of the documents in the list (`Inserted`) and needs that
  the list of a link is finite (`LinkAssumption`).
* `UserIsHeeded`, `ServerIsHeeded`, `SettingsAreKept` (`SettingsKept`), with `ItemsAssumption` (features and
  options are distinct, the default is a value, None is not). `UserInv`: the last choice is written where the
  next start will read it and is in force now; `ServerInv`: what nobody chose holds what the server last said.
* `ChecksGoOn` (`Checks`) from `ChecksInv`; `InstallsSuitable` (`Suitable`), if there is a server, from
  `SuitableInv`: the site known to the check is the present one, or a change is recorded; the version to install
  is the client's or fits the first account. It rests on `LatestFits`: the maximum that the code chooses is one
  of the candidates.

### Direct Download (`DownloadsProofs`)

`DownloadsInvariant` and `CompletedIsWhole` (`Completed`) hold for any finite set of documents, of one piece or
more, and any threads, clicks and faults. `DownloadsInv` follows a file from its first piece to the record that
says COMPLETED: unless something has spoiled the document,

* its file, in any folder that is its own (`Home`: its record, a copy of it that a task holds, or an unsettled
  batch names the folder), is the beginning of it (`PartInv`), and the task that writes the file stands where it ends
  (`Streams`): a range that the server honours goes on from there, and one that it ignores starts an empty file;
* its file is whole when its task ended and left the record "in progress", when the batch chose the record, and in
  the archive of the batch (`EndsWell`); a record that a task read before it asked the server, and will write
  back whole, is no more COMPLETED than is true (`CopyInv`);
* no other document with its title has a folder in common with it (`NamesApart`): what is written in the file is
  the document's. It holds after a download since the folder is new to the records, to their copies and to the
  batches, and after a restart since only records of one folder share one; a request that has two documents of
  one title breaks it, and spoils both ("namesake");
* no other batch that is not settled has the document or the folder (`ApartInv`). This is what makes the rest
  inductive: two threads of two batches never write the same file, and the archive of one batch removes no file of
  another. It holds after a download asked for the first time (a document is asked for once, a folder is new) and
  after a restart (the batches are those of the records that go on, by folder); a record resumed while its
  batch is not settled breaks it, and spoils every document of that batch ("again").

### The accounts (`AccountsProofs`)

`AccountsInvariant` and `AccountsAreKept` (`AccountsKept`) hold for any accounts, users, folders, nesting of
folders and budgets; of the constants they assume that "absent" and "plain" are no users and that None is nothing
else. `AccountsInv` joins

* `EngineFits`: which of the flags of an engine (its loop on, held or off; suspended; refused; its queue open) go
  together, given the pause of the application and what has been done to the account. `EnginesFollow` looks only
  at an engine that runs; a held one is let go later, so that the invariant must also say it of threads that are
  not off;
* `TransferFits`: a transfer that runs has a record, and a stopped engine has no record left "ongoing", since its
  next start would drop it (`_manage_staled_transfers`);
* `PresenceInv`: which rows of the table have a database, a user in it and an engine, at every step of an addition
  or a removal, after a crash in it, after a database was lost, put aside and given back;
* `OwnInv`: an engine works in the folder of its row, unless that was moved;
* `ApartInv`: the folders of two accounts that can run do not overlap. Its first part is what makes it inductive:
  `check_local_folder_available` looks at `_engine_definitions`, which must have every account that can run
  while the application is up;
* `MarkInv`: the mark on the folder of a row is that of its user. Only an account that comes to own a folder or
  a user could break it, but an account that is put aside keeps its user, so that its copy is part of it;
* `FailInv`: a launch fails for a named reason.

The first lemmas say of each function of `Accounts` what it leaves of an account (`Kin`) and what it makes of its
engine (`StartFacts`, `ResumeFacts`, `ReloginFacts`, `RecreatedFacts`, ...); they are about one account and have
nothing to do with the invariant. Whatever is composed of them is a `Turn`: no account changes its folder, and the
only mark an engine leaves is that of its user on its folder. `EngineStepKeeps` says that a turn keeps all that
does not look at what an engine does; `AllKeeps` and `OneKeeps` reduce a step of the engines to `EngineFits` and
`TransferFits` of what each becomes. Then there is one lemma for each action.

### The database of an engine (`DatabaseProofs`)

`DatabaseInvariant` and `RowsAreKept` (`RowsKept`) hold for every set of rows, every content that a release may have
left (`ContentAssumption`), every release from the last migration on (`AppAssumption`) and every number of kills,
damages, days and backups. `DatabaseInv` joins

* `StartInv`: what there is at each stage of the start (a dump while it is read, a backup while it is restored,
  a file once it is in use), and that the copies are in the order of their age, so that removing the old ones
  leaves the newest or none;
* `ContentInv`: every file there is or may come back (in use, dumped, put aside) is one that some release leaves
  (`Coherent`): the two version numbers, the schema and the rows agree. It is what makes an upgrade
  possible, and it is true only unless a database that never had its version in Configuration was dumped
  ("undumped"): the dump forgets the version;
* `UpgradeInv`: what is in use has the tables of this release. It follows from `Coherent` over each migration, and
  is not inductive without it;
* `RowsInv`: where what was written is: in the file and its log, in the dump while it is read back, in the
  newest copy as far as it was there at the last backup.

### What the proofs changed in the models

Proving showed places where a model said less than was meant. `KeepsOther` compared numbers of versions where the
code's promise is about where the file comes from: the folder now carries its base as a history. A lock that is
skipped because the folder looks locked has a reason of its own (`LockSkipped`). A change of the site in the middle
of a check is a reason of `Suitable` ("changed"), which TLC's bounds had hidden. `FileTransfers` states the types
of its rows, pairs and jobs, and that None is none of them. `SignIn` kept only the latest token of each page and
compared with it, so that a second engine signed in on another page could have hidden a void token: it now keeps
the tokens that are void (`void`). `Database` states which contents a release may leave, where TLC had a list of
examples. `Links` numbers the records of downloads, where it had a set of names, since what the property means is
that no record is taken up twice. `Accounts` forgot at the addition of an account what had been done to one of
that name before, and with it that a folder had been moved or the table restored; excused a folder that is bound
in spite of its mark by the moment, where it now has a reason of its own ("unchecked"); and excused an account by
its own moves, though the folder of another may be moved into its place (`Shuffled`). With larger budgets than
those of the run each of the three was a violation.

### What stays with TLC, and why

* Liveness under fairness: `Delivered`, `SessionFinishes`, `Settles` of `PairSync`, `RemoteWatcher` and
  `DirectDownload`.
* What is computed by recursion or folds over data: `Mirror` and `StaysHere` of `RemoteWatcher` (the path of a
  document is recursive), `FiltersKept` (the closure of the boxes is a fold over the tree).
* `PairSync`, `LocalWatcher` and `Alfresco`: their invariants join dozens of steps of three threads with named
  losses, and some hold only within the bounds of the runs. Simulations with larger bounds violate `NoUnknownPair`,
  `OneDocument`, `Agree` and `NothingUndone` of `PairSync`: a restoration between the mark of a deletion and the
  deletion itself, three rounds one over the other, a restart in the second round each find an order whose
  loss has no name yet. What TLC says of them is about one file, two rounds, or one round and a restart.

## 5. Known departures

What the code does that a reader of its comments, or a user, would not expect. Each is a step of a model as the
code has it, and the properties exclude it by name.

* Queues: a request still being processed is never checked again (`nuxeo/engine/processor.py:365`); a pair
  postponed while conflicted is refused by `push()` (`queue_manager.py:298`); a worker suspended before `run`
  forgets it (`workers.py:193`). A handler still at work five seconds after a local scan, or the deletion of a
  folder, stops its thread is terminated (`workers.py:102`, from `local_watcher.py:301` and `dao/engine.py:780`):
  its `finally` does not run, its row stays "in use" until the next start (`reinit_processors`,
  `dao/engine.py:743`), the pair is not pushed again, and later copies of it are postponed again and again. A
  resumption of the engine that starts such a thread before it is reaped finds `_running` still set
  (`workers.py:187`): its event loop then keeps the slot until a suspension quits it. A RuntimeError that
  `_execute` raises again ends the thread and forgets the pair until it changes. The remote watcher and the user
  free a row under its handler (`synchronize_state`, `unsynchronize_state`), after which two may work on it.
* Sessions: an upload cancelled while it is linked is counted twice (`engine.py:663`); the chunks of a cancelled
  session go on (`uploader/__init__.py:365`); a restart between the creation of a folder and the removal of its
  row leaves its children unpushed (`dao/engine.py:971`); a folder given up counts one for all it holds
  (`processor.py:254`). A 403 is only logged (`processor.py:347`): the row stays, nothing is queued, and the
  session stays ongoing until a pause and a resumption, or a restart, push it again; so it is after a path too
  long (`processor.py:461`), an error given up, or credentials of the bucket that stay expired
  (`processor.py:475`). A file that vanishes between the test of its path and its reading loses its row without
  being counted (`processor.py:460`): its session ends by a cancellation only.
* Pairs (`lost` of `PairSync`, listed there): among them, a deletion seen during a handler does not change the
  version of the row and is overwritten by "synchronized" (`dao/engine.py:753`); an edit made during a download
  loses its event; a digest declares a file synchronized that the database has not followed; a document created
  but not yet referenced at a crash.
* Transfers: "undigested" (without a digest, chunks of two versions follow each other), "mixed" (the file
  changes while it is sent), "older" (the document found after a 503 is of an earlier upload), "renewed" (a
  second request identifier after most errors), "early", "expired" (the branch of `_link_blob_to_doc` for a 404
  is not reached and the pair is dropped), "unavailable". A row that is done overwrites a pause.
* Remote watcher: fetched changes are abandoned at a stop in the middle of them (`remote_watcher.py:746`, a
  TODO); a document moved into a folder whose own news are lost is retried for ever; filters cut moves and
  restorations.
* Local watcher: events handled after the disk has moved on (a name that was taken again, a file replaced twice,
  a rename undone), copies on platforms without a creation time, `_protected_files` that is never reset.
* Alfresco: a document that changes between its listing and its download is marked synchronized without its
  content (`alfresco/engine/processor.py:504-510`), and the next scan may delete it from the server; a pair
  deleted on both sides keeps its row.
* Direct Edit: a folder marked as locked is sent without a look at the version; `_cleanup` removes saves that
  were not sent when the credentials are invalid; the lock of an edit whose download fails stays; the item of an
  unknown error drops all that waits. A save for a document that is a version or a proxy
  (`nuxeo/direct_edit.py:516-528`, 596), is gone (579), or for which the file is too large (602, logged as a proxy)
  is only logged: it is neither sent, nor tried again, nor told ("skipped"). An unlock that is Forbidden (441) or
  fails with an error that is not of the network (463) is told and not tried again: the lock and the mark of the
  folder stay ("refused"). A lock that is refused leaves the mark, too, and with it no look at the version.
* Direct Download: two documents of one title in one request share a file (`nuxeo/direct_download.py:609`): the
  second is skipped as complete (line 635) or appended to the first (line 658), and both are COMPLETED with one
  content, or with a mixture; this is the finding of `namesake_skipped`. A pause or a cancellation is overwritten
  by a record written back whole; a stop in the middle of a stream counts as a complete document; an archive takes
  the partial file of a paused document; batch folders stay after a crash.
* Accounts: parts of the application resume or start engines without a look at the pause (`manager.py:1267`); an
  account signed in as another user makes `Manager.load` fail at the next start (`manager.py:746-757`); crashes
  between the folder, the database and the table.
* Filters: boxes clicked while children are loaded, filters written one by one while the watcher scans. Sign-in:
  a page answered after another was opened, tokens refreshed and not yet stored at a crash. Database: dumps cut,
  damaged or older backups. Settings: a feature of the packaged configuration, choices that cannot be saved,
  options hidden by the command line. Updates: a failed download leaves the status "updating" and the checks
  stop (`updater/base.py:157`). Links: `refresh_lock` writes the PID of the instance itself, which then finds
  itself running and drops its link; the cache of `parse_protocol_url` returns the documents of an earlier link,
  already given a record; a link to edit that mentions "direct-download" is not understood.

Two hazards have no property: the conflicted pair and the worker suspended before it runs, the departures above;
their notes in `PROJECT.json` say what is excluded instead.

## 6. What is not modelled

* `Local client`, `Notifications and objects`, `Desktop integration`: calls to the file system of three
  platforms, records and messages; what a caller needs of them is in the module of the caller.
* In the other components, what the note in `PROJECT.json` says: scheduled sessions and statistics; read-only
  folders, ignored and temporary names, normalisation and what only Windows does in the local watcher; names
  refused by a file system; several synchronization users; S3; uploads in one request; subfolders, exclusions
  and paused transfers with Alfresco; several Direct Edit documents of one name, a file that another program
  replaces by a folder; the choice of an application;
  metrics and reports; proxies; the review workflow; validation and callbacks of options; the manager's own
  database; the upgrade of an address to https; forced downgrades; cryptography.
* `Engine.set_offline` (`engine.py:397-408`) in `Accounts`: it suspends and resumes the queue manager alone, which
  `QueueManager` models (`SetOffline`, `SetOnline`); the queue of an account in `Accounts` is held by pauses only.
* The termination of a thread outside of its handler, or while it holds a lock of the database or of the
  interpreter, and the reuse of its id by a later thread, which would release its rows.
* Times in seconds: modification times differ whenever contents do in the models, while the scan and the Alfresco
  engine compare times cut to seconds (`local_watcher.py:514-521`), so that two changes in one second may be
  taken for one.
* Across modules: each module has the others' steps only as the environment it needs. `PairSync` has one pair,
  so that a folder and its children are in the two watchers; the queues appear in it as "in a queue" and "on
  error", which `QueueManager` refines.

## 7. What comes next

1. `Filters` with the closure written without a fold, then `FiltersKept`.
2. Names for the losses of `PairSync` that appear beyond two rounds, and lemmas on `PairStates` (the version changes
   with every local or remote state that is written), the base of any proof of `PairSync`.
3. Scheduled sessions in `DirectTransfer`, and several sessions.
