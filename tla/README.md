# Moonstone in TLA+

Moonstone (this repository) indexes the names of the files of NTFS volumes by
reading their USN change journals into an SQLite database, and searches that
index while the user types. The code is C++ for Windows: a *kernel* library
(`src/kernel`), a Qt front end (`src/everything`), a privileged daemon
(`src/moonstone`) and a portability layer (`src/pal`). The difficulties are in
the kernel: several threads, condition variables, completion packets, nested
transactions, a journal that is replayed after a restart.

Paths below are relative to the repository. `*.tla` modules, `*.cfg` runs and
`PROJECT.json` (runs, mutants, map of definitions to source lines, findings,
hazards, theorems) are in this directory.

## 1. Inventory

| component | code | state | operations | talks to |
|---|---|---|---|---|
| thread pool | `src/kernel/threadpool.cc`, `tp_thread.cc` | all threads, idle threads; per thread `candidate_`, `done`, `quit` | allocate, wake, wait, recycle, `master` loop, both destructors | calls `tp_working` of its owners |
| tasklet queue | `src/kernel/tasklet_queue.cc` | FIFO, mutex, condition variable | `enqueue`, `tp_working`, destructor (NULL tasklet) | one pool thread; runs volume tasklets |
| index engine | `src/kernel/index_engine2.cc`, `volpreplet_win32.cc` | `watchings`, `watching_volumes`, `wacthings_lock` | queue/remove a volume, list volumes, ADD and RMV tasklets, destructor | tasklet queue, completion-port pool, volume watches |
| completion-port pool | `src/kernel/fdpool_win32.cc` | I/O completion port, one thread per CPU | attach, `tp_working`, destructor (empty packets) | calls `process` of a watch |
| volume watch | `src/kernel/watching_win32.cc` | journal id, `lastusn`, `recheck`, read buffer | constructor, `check`, `init`, `dispach_read`, `process`, destructor | file index, transactions, feedback |
| file index | `src/kernel/filemgr.cc`, `volmgr.cc`, `dal/*` | tables `known_dentry`, `known_file`, `known_ntfs`, `known_vols` | ack, nak, flip, rename, checkbegin, checkdone, pointers | SQLite |
| transactions | `src/kernel/Database.cc`, `dal/DatabaseInterface.cpp` | `nest_`, `breaked_`, `db_lock_` | begin, abort, final | every thread that writes |
| search service | `src/kernel/search_engine.cc`, `src/everything/searchfiledbmodel.cc` | task queue, three result buffers, `thread_exit` | post, search loop, flip, destructor | GUI event loop |
| event ports | `src/kernel/feedback.cc`, `eventd.cc`, `logd.cc` | ring of 1024 events, receivers, log file | `printf`, `next`, dispatch, register, destructors | every component that reports |
| volume list | `src/everything/volumemodel.cc`, `mainwindow.cc`, `Preferences.cc` | tracing bits per volume | toggle, apply, clear | index engine, `known_vols` |
| daemon | `src/moonstone/*`, `src/pal/ipc*.cc` | configuration, traced volumes, log rotation, pipes | tracing start/stop, USN log, service points, packets | kernel drivers, front end |
| legacy tagging | `src/kernel/legacy`, `src/gui.legacy2` | tag graph, undo stacks | not built | - |
| SQLite binding | `src/kernel/dal/db_sqlite_impl.h`, `sqlitemeta.cpp` over the vendored `sqlite3.c` | connection, schema | prepare, execute | file index, transactions |

What is hard, and the property that makes each component correct:

* **thread pool** - a wake-up or a `done` may come before the thread looks. A group
  that has been destroyed must have had all its threads in its worker, and none left there.
* **tasklet queue** - FIFO, exactly once, and destruction drains it.
* **volume watch / file index** - a crash at any statement; records are
  replayed on top of their own effects. The index must name the files there are.
* **transactions** - `nest_` is shared by all threads and outlives the objects that raised it.
* **search service** - the newest text must win and the GUI must never see a
  buffer that is being filled, although results and events are matched by parity only.
* **index engine** - commands, completions and deletion of a watch are on three threads.
* **event ports** - a full ring drops the oldest event, which may be QUIT or a
  registration. What is taken is in order, and everyone registered hears it.
* **volume list** - bits in the list, commands in a queue, watches in the engine and
  rows in `known_vols` are four copies of one wish, over exits and crashes.
* **daemon, USN log** - a thread is told to stop by an event it creates itself; events
  go through buffered, rotating files that are named by a counter saved at exit.

## 2. Plan

The order is by what would hurt a user most: the machinery everything runs on,
then what may lose or invent index entries, then the periphery.

| step | module | composes / implements | state |
|---|---|---|---|
| 1 | `ThreadPool` | - | checked, safety proved |
| 2 | `TaskletQueue` | implements `TaskletService` | checked, safety and refinement proved |
| 3 | `SearchService` | - | checked, safety proved |
| 4 | `FileIndex`, `Watching` | the file system, its journal, the tables and the transactions of one volume | checked, safety proved |
| 5 | `IndexEngine` | the tasklet queue (as the FIFO step 2 shows it to be), the watches and the completion port | checked, safety proved |
| 6 | `Transactions` | threads of several volumes that share `nest_`, `breaked_` and one connection | checked, safety proved |
| 7 | `EventPort` | `feedback_port`, `eventd`, `logd` | checked, safety proved |
| 8 | `VolumeList` | the GUI's list, the engine's queue and watches, `known_vols` over sessions | checked, safety proved |
| 9 | `UsnLog` | the daemon's main thread, its tracing thread, the log files, the configuration | checked, safety proved |
| 10 | service points | packets over pipes (`sp*`, `ipc*`) | open, see section 7 |

The proofs of steps 1 and 4 to 9 are in `<module>Proofs`; those of `TaskletQueue` and
`SearchService` share `QueueProofs`, which EXTENDS both (hence `SearchInit`, `SearchSpec`, ... in the latter); `FileIndex`,
a library of operators, is proved about in `WatchingProofs`.

Open beyond step 10: `EventPort` as a refinement of an abstract "bounded, lossy, ordered" port;
`ReadsBack` beyond a crash, up to the first file written after it.

## 3. Modules

Every definition that stands for code is listed with its source lines in
`PROJECT.json`, "map". Definitions under a comment that begins with *Fault* are not part of
the specifications: each is a plausible bug, and putting it in place of the
definition it imitates makes TLC refute the property named for it under
"mutants". MC modules hold the instances the configurations use.

**ThreadPool** (`threadpool.cc`, `tp_thread.cc`). Per thread: the members
`candidate`, `done`, `quit`, the place `at` in `master()`, its local `job`. Per
owner: the life of its group (`new`, `waking`, `up`, `waiting`, `gone`). A
critical section is one action; where the code releases a lock, or writes
without one, there is another. So the look at `candidate_` and the falling
asleep are two steps with "dozing" between them (which `wake()`, taking
`can_lock_`, cannot enter, and `~tp_thread_t`, taking nothing, can), and so are
picking the candidate up and clearing `done`. Spurious wake-ups are actions.

The constructor of `tp_thread_t` initialises neither `candidate_` nor `done`:
the constants `FreshCandidate` and `FreshDone` say what is found there.
Both are left open, and threads are recycled. Since `done` is cleared only when a thread
begins to work, a recycled thread carries the `done` of its former owner, and `wait()`
passes it by. The history variable `ready` holds the threads of a group for which that
cannot happen: handed out idle with `done` cleared, or seen to enter `tp_working` while
their owner lives. The promises of `~threadgroup_t` are about them.

**TaskletService, TaskletQueue** (`tasklet_queue.cc`). The service is a
FIFO that runs each tasklet once and can be closed; the queue is the mutex,
the condition variable, the worker and the NULL tasklet. `enqueue` pushes and
notifies after unlocking, so both are actions. The refinement maps the queue,
without its NULL, to the pending tasklets, and the worker's place to what the
service has begun and finished.

**SearchService** (`search_engine.cc`, `searchfiledbmodel.cc`). A text
is a number, the newest the largest; a buffer is the text it answers and
whether all rows are in. The worker drains the queue to its last entry, fills
`reading`, swaps it with `read`, posts an event; the GUI thread swaps `read`
and `front` on each event. The destructor's steps are separate, because it takes no lock.

**FileIndex** (`filemgr.cc`, `volmgr.cc`, `dal/*`) is a library of
operators, one per SQL statement, on a record of tables. A record of the journal carries a
*set* of reasons; `Statements` is the sequence of `if`s of `process()` on it, and `Follow`
what comes after an INSERT or a SELECT, whose result decides. It needs no state of its own.

**Watching** (`watching_win32.cc`, `Database.cc`). The environment creates,
changes, renames, links, unlinks, deletes and closes files and logs what NTFS logs: the
reasons of a file gather until its last handle is closed (`acc`), and every record carries them
all, since the program asks for every record (`ReturnOnlyOnClose` is FALSE). The
watch reads buffers and executes their statements one at a time on `db`, those at the end of the
buffer (pointer, `checkdone`) included; `disk` is what a crash leaves. A USN is a count of
records. `recheck` is set when the table's journal id is not the volume's, and (as in the code)
never cleared by `process()`; a watch can be removed between any two buffers, whatever its level
in the transaction then is. At first there are files the journal does not know of
(`Found`), and the tables may be those of an earlier journal, read up to one of `OldUsns`.
`base` is the level a watch found when it was added, `untold` the names of which the records
do not say all: those older than the journal, and those a record removes and, by a later reason,
enters again.

**IndexEngine** (`index_engine2.cc`, `volpreplet_win32.cc`,
`fdpool_win32.cc`). The GUI flips tracing bits and so queues
`add` and `remove`; the queue's worker executes them under `wacthings_lock`;
port threads take packets and call `process()`, which posts the next read.
A tasklet that returns -1 leaves the lock "leaked", as the code does. Deleting
a watch closes its handle, which completes a pending read. What `process()` does on
a deleted watch is undefined: `EndProcessDeleted` may happen or never happen.

**Transactions** (`Database.cc`, and whoever calls it: `watching_win32.cc`,
`search_engine.cc`, `volmgr.cc`). Every action of a thread is one access to the
database: `Execute` (a statement in whatever transaction is open),
`BeginTransaction` or `EndTransaction`, with the level, the flag, what the connection
sees (`db`) and what a crash leaves (`disk`). Of the tables only
what must not be torn apart is kept: per volume the number of whole buffers, the statements
of the next one, the mark of a re-check. That `recheck` is never cleared is in
`EndBuffer`: after the re-check has caught up it goes on ending one transaction per buffer, and the
history variable `overdrawn` notes that. `MayAbort` gives some thread
`abort_transaction`, which is exported but which nothing in the repository calls.

**EventPort** (`feedback.cc`, `eventd.cc`, `logd.cc`). An event is the number of its
`printf`; a registration is an event like any other. `dump` looks at `journal` and then
writes, in two actions, with `~logd`'s two between them. QUIT is left
in the ring, so `PostQuit` may push out another event and others may push it out.

**VolumeList** (`volumemodel.cc`, `volmgr.cc`, `Preferences.cc`, `volpreplet_win32.cc`).
`traced` and `still` are the two bits, `todo` what a loop of the GUI has still to
visit, `commands` the queue of the engine and `watched` its watches (with `failed` for a
lock left held). A session starts from `disk`; `known` are the volumes whose row number
(`kpi`) the list has. A statement may or may not fall into some watch's open transaction, so
`Store` leaves open whether it is durable. Whether `check()` passes for an online volume (it must be
NTFS and have a journal) is decided when the command comes.

**UsnLog** (`logusn.cc`, `tracing_win32.cc`, `tracing.cc`, `daemon.cc`), as the sources build with
MILESTONE 3; the shipped MILESTONE 4 does not start the thread. Files are sequences of events and
their size the number of them. `lastfid`, a global that outlives the writing
context, names the file; `flushed` is how much of the open file a crash cannot take. The main thread
tells the tracing thread to exit by an event which that thread creates.
The journal is external: a read ends with some prefix of what there is. What
nothing initialises holds something of `FreshUuid` and `FreshSeen`; `raw` says which members still do, and
`misled` that one of them happened to hold the value it was compared with.

## 4. Runs

| run | bounds | states | shows |
|---|---|---|---|
| `tp_startup` | 2 owners (one of 2 threads, one of 1), 3 threads, fresh or recycled, any `done` and `candidate_` | 266,232 | ready threads run and are closed with their group, no job overwritten |
| `tasklet_queue` | 3 tasklets, 2 clients, 1 worker | 746 | FIFO, exactly once, draining close, `ImplementsService` |
| `search_service` | 3 texts | 1,254 | what is in view is whole; the last text is searched for |
| `watching` | 2 names, 2 files, 3 records, buffers of 1-2, 1 crash or removal, tables empty or of an earlier journal | 742,051 | tables plus journal are the volume, at any crash; the index catches up |
| `index_engine` | 3 volumes (1 bad), 2 port threads, 3 watches | 177,014 | lists run parallel, wishes are met, one read per watch, closing returns |
| `transactions` | 1 known and 1 new volume, 2 buffers each, 1 reader, 1 writer, 1 crash | 157,338 | a transaction is open while the level is positive; a crash tears no buffer and no re-check; an abort dooms its transaction; with nobody inside everything is durable |
| `event_port` | ring of 2, 5 events, 2 receivers | 22,494 | bounded loss, everyone registered hears everything, one late write, destructors return |
| `volume_list` | 2 volumes, 3 sessions, 3 clicks each, `check()` may fail | 34,052 | commands fit what is watched, watches follow the list, rows follow the bits |
| `usn_log` | 2 volumes, files of 2 events, 2 sessions, 2 reads each, 1 crash, 2 in every uninitialised member | 279,091 | the files say what was read; sizes, gaps, stopping |

Violation runs, one disagreement between code and comment each ("findings"):

| run | property | what happens |
|---|---|---|
| `search_fast_typist` | `LastTextShown` | two searches finish before the first event: the second flip brings the older result back |
| `engine_removed` | `ProcessesLiveWatches` | a volume is removed while its read is pending: a port thread works on a deleted watch |
| `txn_overdrawn` | `PerBuffer` | after a finished re-check the level falls one short, and the COMMIT comes in the middle of another volume's buffer |

Why the bounds are enough. *Thread pool*: two groups compete for threads, one
of them waits for two at different stages; the hand-over itself involves one thread and one
owner. *Queue*: two clients interleave with each other and with the destructor, three
tasklets distinguish FIFO from LIFO and from a swap of neighbours. *Search*: results are
matched by parity, so three texts (drain, fill, swap, one more) reach every pairing of the
three buffers. *Watching*: the smallest bounds in which every kind of record, records of
several reasons, a buffer boundary inside a rename, a replay of a record on its own later effect, a
re-check of a recreated journal and a removal in the middle of a re-check occur. Its safety
properties also pass with two crashes or removals (1,738,076 states) and with four records (7,321,694).
*Engine*: a volume that is removed and added again beside another one, a failing one, a
listing and a destruction; two threads to compete for packets. *Transactions*: two watches
overlap with each other and with a reader, so a level of three, an inner and an
outer end, and a level below zero occur. *Event port*: five events overflow a ring of two before, between
and after registration and QUIT. *Volume list*: a volume is first seen in one session, known in the
second, started from its row in the third; three clicks make an add, a removal and
an add. *USN log*: two sessions of which either rotates and switches volumes, with the
crash in any of them, or the number of a full file brought back by it.

Bounds that are guards in the modules: `Threads`, `MaxPosts`, `MaxRecords`, `MaxBatch`,
`MaxBreaks`, `MaxWatches`, `MaxBuffers`, `MaxCalls`, `MaxEvents`, `MaxToggles`,
`MaxSessions`, `MaxReads`, `MaxJid`, `MaxCrashes`.

All configurations have `CHECK_DEADLOCK FALSE`: every one of these
programs ends (pool destroyed, window closed, journal bound reached), and
where it must not stop, a liveness property says so. The configurations check
what is not proved, and of what is proved the properties that say most; the type invariants and the
rest of the proved properties are left to the proofs of section 6.

## 5. Fairness

Weak fairness of each thread's next step, nothing stronger. The operating
system runs threads that can run; a mutex that stays free is taken; Qt
delivers a posted event; completion threads work off packets; `doit()` and
`tp_working` return once they are told to. Nobody is assumed to enqueue, type, change
files, trace, remove, crash or close, and spurious wake-ups need never occur. A
constructor or destructor that has begun goes on. There is no fairness on
`EndProcessDeleted`, whose outcome is undefined, so `DestructorReturns` of the
engine is conditional on no deleted watch being processed and no lock
leaked, and `ListingReturns` on the latter. `engine_removed` shows that the first condition
can fail, section 8 the second.

In `Watching` the port thread works off what the journal has: a read that is pending completes once there
are records beyond its start, and `process()` goes on; nobody has to write any. In `Transactions` nothing is
assumed: its properties are safety properties, and a re-check need never catch up, since the journal may end
before the USN it has to reach. In `EventPort` the worker runs and a destructor goes on; nobody must
post. In `VolumeList` the queue's worker takes commands unless the lock was lost, and the GUI
ends its loops. In `UsnLog` the tracing thread runs and the main thread, once it is stopping,
goes on; reads need never complete.

## 6. Proofs

For every value of the constants, under the modules' ASSUMEs. Every safety invariant and every action
property that a passing run checks is proved, and for each of the nine state machines its type
invariant. No theorem of a property has a hypothesis beyond them. An ASSUME that is more than a type: `N` is
at most 62 in `UsnLog`, because 63 volumes and the two events are more than `MAXIMUM_WAIT_OBJECTS` and the
wait fails at once (`moonstone/KNOWNBUGS.txt:5`).

* `ThreadPoolProofs`. `GroupsClose`, `GroupsDisjoint`, `JobsKept`, with fresh members of any content and
  recycled threads. `ClosesAllThreads` is not inductive: that `done` is TRUE says
  nothing unless it is known which worker it is about. `IInv` therefore follows each
  thread of a group through its stages (to be woken, asked, picked up, working,
  back), which are exhaustive and move only forward. In the first three a thread that is not `ready` may
  still be busy with an earlier job and have any `done`; a ready one has `done` only in the last.
* `QueueProofs`, the tasklet queue. `ConservationHolds`, `SingleOwnerHolds`,
  `DestructionDrains`, `QueueRefinesService`. What was pushed is what was
  taken followed by what is queued; the strengthening is that NULL is the last
  element from the moment the destructor has run (`QuitLast`), a tasklet that was taken is in hand
  or finished (`Accounted`) and a worker returns only when NULL is
  all that is left (`ReturnedLast`). `QueueRefinesService` maps initial states and steps; the
  service's fairness is left to TLC.
* `QueueProofs`, the search service. `ViewAlwaysWhole`, `NewestAlwaysKept`,
  `ViewNeverRewritten`. The three pointers are a permutation (`Apart`), only the
  worker's own buffer may be half full (`WholeApart`), and buffers are no newer than the
  text being searched for (`Fresh`).
* `WatchingProofs`: `RecoveryIsExact` (what is on disk, replayed, is the volume at
  any moment) and `IndexIsExact`. Replay is a recursive function; the invariant does without it. `Replays(t, p)`
  says of each name, other than those in `untold`, what the table `t` must have for the records beyond
  position `p` to make it right: either one of them clears the name for good (`Clears`), or `t` has nothing or
  the truth, and the truth unless one of them names it. It holds of `db` and of `disk` at the pointers they
  store (`OnDisk`), and while a buffer is worked off `Comes` says the same of the statements still to be
  executed (`InProgress`): their removals, entries and flips, in their order. That it implies
  exactness is shown by replaying record by record: were there a position at which `Replays` no longer
  holds, there would be a least one, and one record keeps it (`ReplayRecord`). The journal must
  tell the volume (`JournalTells`), and every entry must be marked as seen (`Seen`), or the end of a
  re-check would delete it: of the entries of an earlier journal that is not so, and they are in `untold`.
  `NothingWaits` and `BuffersAreAtomic` follow from the level that the
  transaction has at each place of the watch, counted from the one it was added at (`Levels`).
* `UsnLogProofs`. `FilesStayNearLimit`: the files whose numbers are still to come have room (`Roomy`), also
  for the events of a crashed process that used the same numbers. `BuffersFollow`: the next read of a
  journal begins where its last buffer of this session ends (`Chained`). `FilesTellAll`: without a crash the files are numbered without a gap and the open one is the
  last (`InOrder`), so that what is written comes last in what is read back; `cur_uuid_`, once it was set, is
  the volume of the last switch (`OpenLog`); each volume's journal by the files is the one `records.conf` or the memory
  has it at, unless that is still `raw` (`Recorded`), and for a volume being read it is the present one (`Announced`). What the
  reader's folds make of one event more is shown from their recursive definitions (`FlattenAppended`,
  `ReadAppended`).
* `IndexEngineProofs`. `ListsAlwaysAgree` rests on `Numbered` (a watch in
  use has been created, so a new one is new) and on a lemma about removing one
  position of a sequence; that no volume is listed twice follows from `Find`
  being empty when one is added. `OneReadAlways` is split into `AtLeastOne` and
  `AtMostOne` and transferred through the packets' queue by the lemmas on
  appending and on concatenating empty packets. `WishesComeTrue` and `OnlyBadVolumesFail` rest on
  `LeadsToWish`: the commands still to come, executed on the volumes now listed, fit one after the other and end with
  exactly those traced, unless one has failed and keeps the lock. `WatchedAfter` says what k commands
  leave without executing them.
* `TransactionsProofs`. `LevelTellsTransaction`, `AbortDooms` and `OnlyAbortsUndo` need little: what
  each kind of access does to level, flag and tables (`AccessKeepsBase`, `AccessKeepsRows`). `NothingTorn` needs
  that the level *counts* the threads inside a transaction of their own (`Counted`, a
  cardinality), until somebody is `overdrawn`: so whoever lowers it to zero is alone, and the
  rows of everybody else are whole (`PartsInside`). Afterwards it is at most their number (`Bounded`), which is what
  `QuietAlwaysDurable` needs: with nobody inside, the level is not positive.
* `EventPortProofs`. `RingInOrder`, `LossIsBounded`, `OneWriteLate`. A ring that is an
  unbroken run of numbers ending with the last one posted (`RingHolds`) bounds what is lost; of late
  writes there is at most the one that was begun before `journal` was cleared. `EveryEventHeard`: what a
  receiver got is the end of what was taken, less one while it still waits to be called, and begins
  with its registration (`HeardInv`); a registration names its receiver once, so nobody is listed twice.
* `VolumeListProofs`. `CommandsFit`, `EngineComesToFollow`, `TracingIsStored`, `NothingUnasked`. The commands of
  a volume alternate (`Ordered`): the first fits what is watched, each is the opposite of the one before,
  the last leaves what the list shows. Appending at one end and executing at the other keep
  that; a command that fits is not refused, though `check()` may still fail it.

What recursive functions compute for every input is proved without the library's induction theorems, which
cannot be instantiated here: a counterexample, if there is one, has a least position (`Least`, from the
well-foundedness of < on Nat), and the step up to this position is a lemma of its own.

Only model-checked: all liveness properties (`WorkersRun`, `DestroyReturns`, `EventuallyRun`, `CloseReturns`,
`LastTextSearched`, `CatchesUp`, `ListingReturns`, `DestructorReturns`, `GetsRegistered`,
`TracedGetsWatched`, `StopReturns`) and the fairness in `ImplementsService`, since fairness and ENABLED are out of the
prover's reach; and that the findings are reachable.

## 7. Not modelled

*Service points, packets, pipes* (`src/moonstone/sp*.cc`, `packet_handler.cc`, `src/pal/ipc*.cc`):
`ipc_valid_native_fd` is inverted, so `sp_init` gives up on every pipe it could create and nothing
behind it runs; a model would be of a program there is not. *Portability layer*: thin wrappers of system
calls. *Legacy tagging* (`src/kernel/legacy`): not built. *SQLite* (`sqlite3.c`, vendored, most of the
repository's lines): the models rely on atomic statements, BEGIN, COMMIT and ROLLBACK.

Of what is modelled, the following is left out: in `Watching` a crash between the three statements of `init()`, which
are one step, and a read of no records (a cancelled one, whose size wraps, `watching_win32.cc:109`); in `Transactions` the
removal of a watch (it is in `Watching`, for one volume); in `UsnLog` a `records.conf` that cannot be opened
(`daemon.cc:26`: the process ends; `:109`: what is saved is lost, unnoticed), and a read that fails, which `collect_journal` does not
notice (`tracing_win32.cc:210-216`) and which ends like `Crash`; in `EventPort` a text too long for its buffer, which
`printf` drops (`feedback.cc:14`). Further: the SQL of the search and the lookup of full
paths; I/O errors of the journal and a journal recreated under a pending read; the
reader of the USN log files, which nothing calls and which opens the newest file whatever it is asked for
(`logusn.cc:177`) - `ReadsBack` is what a correct one could make of them; `tracing_commit_changes`, which nothing
calls; the failure of `fopen` in `logd` (`logd.cc:16`: it is reported and the NULL used); the display
of progress; layout and translation of the windows.

## 8. Observations without a run

The first seven are properties stated in the modules that TLC refutes with the constants or the change named; no
configuration here keeps them.

* `SearchService!DestructorReturns` with the constants of `search_fast_typist.cfg`: `~search_service` takes no
  lock, so its NULL task is drained with `thread_exit` still 0, or notified while nobody sleeps, and the join hangs
  (`search_engine.cc:42-44`; ":54 protect thread_exit and task_queue").
* `Watching!RemovedGone` with the constants of `watching.cfg`: a removed hard link goes through
  `existance_flip` and then through `ack`, which inserts it again (`watching_win32.cc:164`; `filemgr.h:17`); and a file that
  was renamed and deleted before it was closed has both reasons in its last record, so `nak` removes the entry and `rename_new`
  enters it again (`watching_win32.cc:148, 157`; `filemgr.h:16`).
* `Watching!WitnessedKept` with the same: `ack` marks an entry only when its inode is new, so the
  re-check after a journal was recreated deletes entries the journal bears witness of
  (`filemgr.cc:48`; `filemgr.h:21` "all dentry hasn't been witnessed should be considered removed").
* `Watching!DurableAtRest` without `base <= 0`: a volume removed during its re-check leaves its
  transaction open for ever, and nothing becomes durable any more (`watching_win32.cc:32`). In the same way a re-check that
  never reaches `lastusn`, because the journal ends before it, holds back what all volumes store (`watching_win32.cc:184`).
* `Watching!BufferAtomic` without `base >= 0`: a finished re-check reads one more buffer, which leaves the level at -1; the
  volume is removed and added again, `begin_transaction` takes the level from -1 to 0 without BEGIN, and every statement
  is durable at once (`watching_win32.cc:190`, `Database.cc:45`).
* `Watching!CaughtUpExact` without `base <= 0`: the re-check of a recreated journal stores the new journal's id with the old
  journal's USN; if it is removed unfinished and the volume is added again, that watch begins at the old USN and passes over what lies
  before it (`watching_win32.cc:67, 71`), or begins beyond the end, which `CatchesUp` excepts.
* `IndexEngine!QueueCloses` with the constants of `index_engine.cfg`: `doit` returns -1 in three places with
  `wacthings_lock` held, so the next tasklet and the destructor wait for ever
  (`volpreplet_win32.cc:34, 38, 49`; `tasklet_queue.h:19` "close all the threads").

What the properties except, and what else the modules show:

* A thread starts in the constructor of `tp_thread_t` before `candidate_` is set, and may call `tp_working` through
  whatever was there (`tp_thread.cc:6`): `Lost` in `ThreadPool`.
* A stale or uninitialised `done` lets `wait()` pass a thread that has not run yet, so a group can be destroyed, and its owner
  freed, ahead of its worker, although `tasklet_queue.h:19` says "close all the threads". `ClosesAllThreads` is therefore
  about the `ready` threads; every recycled thread begins with `done` TRUE.
* `~tp_thread_t` sets `quit` and notifies without `can_lock_`: the wake-up
  may fall between the look and the wait, and the join never returns
  (`tp_thread.cc:11`).
* The queue's destructor notifies once; a second worker, which the
  code never allocates, would never be woken.
* A write outside a transaction of its own (`volmgr_t::update`) falls into whichever is open, and is durable
  only with it (`VolumeList`, `Store`).
* In the session that first sees a volume its list entry has `kpi` -1, so the UPDATE of `apply_changes` hits no row, and
  the volume is not traced after a restart (`volumemodel.cc:146`; `kernel/TASKLIST:74-75` "Continue tracing after exited").
  A removal is not stored, so it *is* traced after a restart (`volumemodel.cc:149`).
* A traced volume that is not there at the start, and an online one that is not NTFS or has no journal, fails its tasklet, which
  takes the lock with it for the session (`volpreplet_win32.cc:37-38`).
* `cur_uuid_` is not initialised (`logusn.cc:65, 95`), nor is `journal_id_last_seen` of a volume listed for the first time
  (`tracing.cc:29`). If the one happens to hold the volume written first, or the other that volume's journal, a switch or an announcement
  is missing and the events are taken for another volume's or journal's: `misled` in `UsnLog`.
* After a crash the old `lastfid` comes back, and later files begin without a switch of volume, so a reader takes their
  events for another volume's. `ReadsBack` is therefore limited to runs without a crash.
* `checksize` names the next file before it counts, so a full file is opened once more and gets one more event
  (`logusn.cc:110`; `NearLimit` says what is left of the limit).
* With more than 62 volumes `WaitForMultipleObjects` fails, its -1 is taken for the place of a volume, and nothing is traced
  (`tracing_win32.cc:180`; `moonstone/KNOWNBUGS.txt:5`).
* `BytesToWaitFor` is 0 (`tracing_win32.cc:15`): a read of an exhausted journal returns at once with nothing, and the
  thread spins. A volume that could not be opened once stays disabled in the saved configuration (`tracing_win32.cc:58`).

Read in the code only: `refc` grows with every change of a file and every replay; progress
is 0/0 before anything was read (`volmgr.cc:142`); the daemon is built at MILESTONE 4, which stops a tracing thread it
never started (`daemon.cc:100`); no receiver is ever unregistered, so after `~MainWindow` the worker of `procd` calls it with a
dangling pointer (`mainwindow.cc:25`); QUIT stays in the port, so a second `eventd` on it would end at once.
