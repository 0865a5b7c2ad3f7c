# TLA+ models of mh-compressor-manager

`mh-compressor-manager` is a daemon that watches directories and keeps a `.gz`
and a `.br` copy next to every file of a web server. This directory holds TLA+
modules that model its code (`src/src/*.cpp`, `src/src/*.h`), configurations
with which TLC checks them on small instances, and proofs checked by TLAPS.
`PROJECT.json` maps every definition to the lines it models.

## 1. The system

| Component | State | Operations | Hard parts |
|---|---|---|---|
| Thread pool (`threadpool.h`) | priority queue, `active_tasks`, `io_slots_available`, `stop_flag`, three condition variables | `enqueue`, worker loop, `wait_all`, `stop` | lost wake-ups, a wait that releases the mutex, a counter that wraps, exceptions |
| Tasks (`main.cpp`: `should_compress`, `compress_task`, `delete_task`) | the original, its copies and temporary files on disk; a borrowed buffer | read in one piece or streamed, check, write, rename, copy of the times, removal | edits between any two system calls, two tasks for one file, crashes, failing writes |
| Compressor (`compressor.cpp`) | stream states, temporary files | `write_atomic_file`, `*_stream_*`, `copy_metadata`, `safe_remove_compressed` | atomic publication, clean-up on every path |
| Monitor (`monitor.cpp`) | inotify queue, `m_wd_path_map`, `m_debounce_map`, `m_move_cookies`, `m_running` | watch thread, scan, `run`, `process_event`, `stop` | events dropped or early, timeouts, starvation |
| Watches and reload (`monitor.cpp`, `main.cpp`) | watches of a tree, `m_cfg`, `g_cfg` | `add_watch_recursive`, `remove_watch_recursive`, `reload_config` | directories that come and go, races with the scan |
| Life cycle (`main.cpp`) | `g_running`, signals, the threads | start, READY, SIGHUP, `graceful_shutdown_with_timeout` | signals before the mask, the timeout of the shutdown |
| Memory pool (`memory_pool.h`) | free list, `allocated_set_`, caches of threads | `allocate_raw`, `release_raw`, `shrink`, `cleanup_thread_cache` | locks taken twice, ownership across threads |
| Rate limiter (`security.cpp`) | timestamps | `try_acquire`, `available`, `reset` | boundaries of the window |
| Logger (`logger.cpp`) | bounded queue, writer thread | `log`, `init`, `shutdown` | overflow, the last messages |
| Configuration (`config.cpp`) | `Config` | `load_config`, `get_folder_override_index` | longest prefix |
| `cache_info`, `numa_utils`, `async_io`, `performance_optimizer`, `i18n` | none worth a model | reads of `/sys`, wrappers of system calls, wording | |

How they interact: users change files; the kernel queues events; the monitor
thread reads them, waits out the debounce delay and calls the task and delete
handlers that `main` registered; those call `enqueue` of the pool, which may
refuse; a worker runs `compress_task` or `delete_task` on the file system, whose
renames and removals are events again. The initial scan calls the same handler
from a thread of its own. At a stop, `main` joins the scan, stops the monitor,
waits for the tasks and stops the pool.

What makes each component correct:

* pool: every accepted task runs once, in the order of priority and age, within
  the I/O limit; nobody sleeps while there is work for him; `stop` and
  `wait_all` return, and only when nothing is left;
* tasks and compressor: what is at `path.gz` can always be read to its end, is
  what the current original compresses to once all tasks are done, and nothing
  else is left on the disk or in the process;
* monitor: whatever happens to a file reaches the pool, exactly when the file
  has been quiet;
* watches: when the threads rest, what the configuration names is watched, and
  nothing else;
* life cycle: nothing is reset while a thread uses it, a SIGHUP is followed by a
  reload that sees the file as it was then, a stop ends;
* memory pool: a buffer has one owner and comes back once;
* rate limiter: no more than `max_operations` in any window;
* logger: messages appear in their order, and none is lost without a warning;
* configuration: a path gets the settings of its nearest section as written.

`PROJECT.json` lists the hazards at the lines where they bite.

## 2. The modules

| Module | Models |
|---|---|
| `Executor` | what the daemon expects of a pool: tasks are pending, running, finished; the abstract specification |
| `ThreadPool` | class `ThreadPool`, with its mutex, condition variables and I/O slots; implements `Executor` |
| `CompressTask` | one original, its copies, the tasks and users that touch them, crash and restart |
| `Monitor` | one file, the kernel's queue of events and the threads of class `Monitor` |
| `Watches` | the inotify watches of a tree, the watch thread beside reloads |
| `MemoryPool` | class `MemoryPool`: caches of threads, the free list, the lock |
| `RateLimiter` | class `RateLimiter` |
| `Config` | `load_config`, line by line, and `get_folder_override_index` |
| `Logger` | class `Logger`: the queue, the writer, `shutdown` |
| `Lifecycle` | `main` from start to end with its signals; extends `Logger`, instantiates `Executor` |
| `MC...` | constants and symmetries of TLC's instances |
| `...Proofs` | theorems about `ThreadPool`, `CompressTask`, `Monitor`, `Watches`, `MemoryPool`, `RateLimiter`, `Config`, and in `LifecycleProofs` about `Logger` and `Lifecycle` |

Composition: `ThreadPool` implements `Executor` (checked and proved), and
`Lifecycle` uses `Executor` where the daemon has the pool; `Lifecycle` shares the
variables of `Logger`, and every step of it is a step of the log or leaves the
log alone (proved), so that what holds of the log holds in the daemon.
`CompressTask` and `Monitor` meet at the pool: what one hands over, the other
begins with.

### ThreadPool

A task is a model value with a priority. The priority queue is the set `queue`
plus `stamp`, the `enqueue_time` of every task; `Before` is `operator<`. What
runs under `queue_mutex` is one step, with one exception that matters: a worker
whose predicate was false is at `"checked"` until `condition.wait` has put it to
sleep, and keeps the mutex (`MutexFree`), because `stop_internal` sets the flag
and notifies without it. `notify_one` comes after the mutex is released and is a
step of its own (`NotifyOne`). Workers (`pc`): `loop` (about to take the mutex),
`checked`, `waiting` (on `condition`), `ioWait` (on `io_slot_available`), `busy`
(inside `task()`), `exited`, `leaked` (returned without
`cleanup_thread_cache`). `TakeNow`, `AwaitSlot`, `SlotGranted`, `SlotTimeout`,
`Finish`, `Leave` are the branches of the worker loop; `RaiseStop`, `NotifyAll`,
`Join` the parts of `stop_internal`; `WaitAll` is `wait_all`. `slots` is a
`size_t`: it wraps modulo `SizeMod`. `fate` records what ends the process: an
exception out of a task, or a `top()` of an empty queue (undefined behaviour,
after which the model stops).

### CompressTask

Bytes do not occur. The original is a sequence of versions (`hist`), each with
its inode and mtime, and `SizeOf` says of each version whether it is empty, below
the threshold, read in one piece or streamed. A read returns the set of versions
it saw; a copy is the set of versions it was made of, whether it is complete, its
mtime, its user (`uid`), and the worker whose descriptor still writes to it
(`owner`). Every system call another thread or user could observe is a step. A
task is `Decide` (existence, `should_compress`, threshold), `Open`, then either
`Read`, `Check` and per format `OpenTmp`, `Fill`, `Rename`, `Meta`, or per format
`Unlink`, `Create`, then `Chunk1`, `Chunk2`, `Flush`, `Publish`, `StreamCheck`,
`StreamMeta`. A read that fails ends the task as a truncation does: the one-shot
branch keeps its buffer, the streaming branch its descriptors and temporary files
(`lost`).

`Remove` is `safe_remove_compressed`, one copy at a time. It looks at the original
once (`Seen`), and removes a copy only if the original is gone, is root's, or
belongs to the same user (`MayRemove`, for `check_file_ownership`); a copy is the
daemon's until `copy_metadata` gives it away, which only root can. The removal may
also fail. A copy that stays sets `kept`. Every removal that
succeeds queues the file again, as the monitor does on the event. `Crash` loses
the tasks, not the files; `Restart` is the scan, which unlinks the copies of a
small file whosever they are. `late` is set when the original changes behind the
last check of a running task.

### Monitor

Time is counted in ticks and kept as ages, so that no clock grows. The kernel's
queue (`Push`) merges equal neighbours, drops events when it is full and then
holds one overflow event. The monitor thread walks `select`, `read`, `handle`
(one step per event), `cookies`, `debounce`, as `Monitor::run` does. The watch
thread is `AddWatch` and `MapWatch`, two steps, because events arrive in
between. `owed` is what a perfect daemon still has to do: for what was outdated
at its `"start"`, for a change (`"compress"`), a removal (`"delete"`), a lost
`"copy"`. A task handed to the pool settles it, since the task looks at the file
later. `Scan` does not know what is owed: it compares the times of the original
and its copy, in whole seconds (`older`; a change may leave it as it was), queues
what is `Outdated`, and a `filesystem_error` ends it before it has seen the file.
`UnknownPath` is an event whose path `weakly_canonical` cannot resolve. `losses`
records what went wrong: `"missed"`, an event before the watch was in the map,
which the scan may make up for, and `"lost"`, an overflow, a refused task or a
failing call.

### Watches

A path is a sequence of characters, because `remove_watch_recursive` compares
strings: `/ab` is not below `/a`. A name, as the configuration or the map spells
it, is a path with or without a slash behind it (`slash`): of `/a/` the listing
yields `/a/b`, and the removal looks for what begins with `/a//` (`Gone`), so
that it leaves every watch below; these directories are `left`. `wd` is the
kernel's side (the descriptor of each directory, 0 for none), `map` is
`m_wd_path_map`. Two actors walk: the watch thread through the paths of the
start, the main thread through the paths a reload has added; `todo` is what a
walk has still to visit and `pending` the descriptor between `inotify_add_watch`
and its entry in the map. `Vanished`, `AddWatch`, `AddFails`, `Enter`,
`ListingFails` are the branches of `add_watch_recursive_impl`; the last one is
the `filesystem_error` that abandons the remaining entries (`Overlooked`).
`MoveDir` takes a directory with its watches out of the tree: their descriptors
are `away`, and the map keeps their old names. `BeginReload`, `AllAdded`,
`RemoveWatch`, `EndReload` the parts of `reload_config`. `excused` collects the
directories whose missing watch has a known cause, `raced` remembers that a path
was removed while the watch thread was at work.

### MemoryPool

`cache[t]` is the `thread_local` cache, `free` is `free_buffers_`, `tracked` is
`allocated_set_`, `lost` is memory nobody points to. `aligned_free` locks
`mutex_`; where the code calls it under that mutex, the thread is `"stuck"` (or
the pool `"hung"`), and nobody gets the mutex any more (`Unlocked`).

### RateLimiter

`try_acquire` is `Look` (lock, first reading of the clock, clean-up) and then
`Grant` (second reading) or `Refuse`; the clock may advance in between. `times`
keeps all grants, `first` says where `m_timestamps` begins, so that the limit can
be stated about any window of the past.

### Config

The file is chosen line by line as `load_config` reads it, so that `section`,
`cfg` and `overrides` are its variables at that point. One key stands for each
kind of key (a number with a range, a boolean, a list that accumulates, a value
that is replaced). `Settings(p)` is what a task for `p` uses;
`WrittenSettings(p)` reads the same file as a whole.

### Logger and Lifecycle

In `Logger` a message is its number, 0 is the overflow warning; each block under
`s_queue_mutex` is a step, the two blocks of `log()` are two (`owing` holds the
threads in between). `complaint` is the message that `shutdown` itself may log.
`Lifecycle` has `main` as a program counter, the mask and
disposition of the signals, the flags `running` and `reload`, and of the other
threads what `main` starts and joins. A signal goes to any thread that does not
block it: until `init_signal_fd` to `main`, afterwards to the log's thread, which
was created before (`WriterTakesSignals`), unless the process was started with
the signals blocked (`inherited`). Versions of the configuration file are
numbers: `asked` is the one there was at the last SIGHUP, `loaded` the one in
force. Two mishaps that other modules show are choices here: `missed`, a worker
did not hear the pool's stop (`ThreadPool`), so that `JoinPool` does not return;
and `leaked`, a task lost its buffer (`CompressTask`), so that `~MemoryPool` does
not (`MemoryPool`).

## 3. What TLC checks

Runs that pass (name of the `.cfg`):

| cfg | What it shows |
|---|---|
| `ThreadPoolRun` | two fair workers, three tasks of two priorities, a queue of two, one slot, one task that may throw: exactly-once accounting, counters through their wrap at a stop, the limit until a stop, order in spite of requeueing, no stranded task, no forgotten `wait_all`, refinement of `Executor`; accepted tasks finish, `wait_all` returns, `stop` returns unless a worker was asleep or falling asleep when the flag was raised (all of it unless a task ended the process) |
| `CompressOneShot` | two fair workers of a daemon that is not root, three versions, of root and of another user, the last one below the threshold: copies are fresh unless an edit comes late or a removal was refused, never torn, never go back to an older version; no temporary file left, one writer; a copy outlives its removal only beside an original of another user; the work ends |
| `CompressStream` | one worker of a daemon that is root, four versions of another user, from streamed through one piece to too small, older replacements, a failing read, write or removal and a crash: no unfinished copy is visible; a copy of mixed versions lives only until the check removes it, unless a crash comes first or the removal is refused; the copies `should_compress` trusts are right; a buffer or descriptor is lost only where the open file was truncated or a call failed |
| `MonitorRun` | fair threads, refusals of the pool, failing calls, dates that hide a change, a stop, two operations and any number of writes: a monitor with nothing left to look at has handed over every change, removal and lost copy, or `losses` says why not; a change reaches the pool once the writing ends, a removal always, a lost copy as long as events come |
| `WatchesRun` | four directories, nested and look-alike, two reloads among four configurations, in one of which a path ends in a slash, one failing watch or listing, one directory made, removed or moved elsewhere: what is configured is watched and its events find their path, and nothing else is watched but what `left`, `raced` and `away` name |
| `MemoryPoolRun` | two workers and a client that takes up to four buffers: one owner for every buffer, `allocated_set_` holds what is out, a worker lives with one buffer, the exit hangs only after a loss or for such a client |
| `RateLimiterRun` | two callers, two grants in two ticks: the limit in every window, and no refusal without a full window |
| `ConfigRun` | every file of four lines, then a reload with another: a path gets the settings of its nearest section as written, target paths come from the command line, the file, the default, in this order, and from the file after a reload |
| `LifecycleRun` | the whole daemon with two SIGHUP, one SIGTERM, an edit of the file, three messages and a log of two: threads are joined before what they use is reset, a SIGHUP is honoured whatever it interrupts, the log keeps its order and every message but the complaint of `shutdown` is written or reported as shed, a stop ends or hangs in one of three named places |

Premises that limit what is claimed, each where the code really does less:

* `late`: the original changed between the last check of a running task and its
  `copy_metadata`. In that window the code stamps an old copy with a new mtime
  (`StaleAfterLateEdit` shows it).
* `kept`: a copy outlived its removal. A streamed copy is removed while it still
  is the daemon's, so an original that belongs neither to root nor to the daemon
  keeps a copy of mixed versions, whose mtime makes `should_compress` trust it;
  and a daemon that is not root never removes the copies of such an original while
  it exists. `FreshUnlessLate`, `TrustedCopiesAreFresh` and `MixedCopyIsDoomed`
  exempt it, `KeptHasACause` says that nothing else keeps a copy: either a call
  failed, or an original belonged to another user.
* `FreshUnlessLate` names what can leave a stale copy when all is quiet: an edit
  that came late, a copy that was kept, a failing read, write or removal and a
  crash (after which nothing is retried), a stream that broke off at a truncation,
  whose temporary files lock out all later tasks, and an older file put in place.
* a trusted copy is one whose mtime is not below the original's. In
  `CompressStream` an original may be replaced by an older one, whose mtime is
  written as 0; `should_compress` compares mtimes by order and trusts the copy
  it finds, so `TrustedCopiesAreFresh` does not speak about such an original, nor
  about the moment in which a stream has published what it has not checked, nor
  after a crash at this moment (`cut`).
* a single streaming worker: two tasks that stream one file share a temporary
  path and publish unfinished copies (below).
* `losses` of the monitor: an overflow of the kernel's queue, a refused task, a
  change before the watch exists or is in the map for which the scan did not make
  up (an original with an old date is taken for compressed), a scan that a
  `filesystem_error` cut short, an event whose path could not be resolved.
  `NothingForgotten` says that there is no other reason.
* `ChangeReachesPool` presumes that the writing ends: each event moves the deadline
  by a whole delay, so a file that is written for ever is never compressed.
  `LossReachesPool` presumes that events keep coming: a cookie times out only
  behind a batch.
* `excused`, `left` and `raced` of the watches: a directory made after its path was
  added, one whose watch was refused or that a failing listing did not yield (with
  what is below it), one below a removed path that another path still wants; one
  below a removed path that was written with a slash; a path removed while the
  watch thread was still adding. The properties say that there is no other way to
  miss a directory, nor to keep the watch of one that is in its place. Of a
  directory that was moved elsewhere they say less: its watch stays under the name
  it had, for as long as this name is configured.
* `HangsByLossOnly`: the destructor frees under the mutex that `aligned_free`
  locks. It is harmless only as long as there is nothing to free.
* `Spilled` of the configuration: keys below a section that is skipped count as
  keys of `[general]` in the code.
* `LogTellsAll`: the writer may have gone when `shutdown` logs its complaint, so
  this one message may stay in the queue, and with it the warning about what it
  shed. The last message of a run without complaint is no exception.
* `StopEnds`: a program that was told to stop ends or is held up in one of three
  places: its main loop, when there is no epoll descriptor and nobody reads the
  signalfd (`Deaf`); the join of a worker that missed the pool's stop
  (`HungInPool`, which `PoolStopHangs` shows); the destructor of the memory pool
  after a buffer was lost (`HungAtExit`, see `HangsByLossOnly`).

Every property has a mutant, a plausible bug in a definition of the model, that
TLC finds (`PROJECT.json`, "mutants"; the mutated forms stand before their
originals in the modules).

Runs that end in a violation: each one states what a comment or the
specification of the program says, and TLC shows an execution of the code that
does otherwise. The lines are quoted in `PROJECT.json`, "findings".

| cfg | Claim that fails |
|---|---|
| `PoolStopHangs` | a stop always ends: the notification can fall between a worker's predicate and its sleep |
| `StaleAfterLateEdit` | a copy never stays behind the original |
| `SigtermKills` | SIGTERM lets the tasks at hand finish: the log's thread was created before the signals were blocked, and dies of it with the whole process |

Other places where the code and a comment, test or specification part ways. The
models contain the behaviour of most of them; no run of its own shows it.

| Source | The code | What is said |
|---|---|---|
| `threadpool.h:112` | after a wait for a slot the queue may be empty, and `top()` is called | the comment at l. 106: the task is skipped, which presumes one |
| `threadpool.h:104` | during a stop the slot is not waited for, so the limit is exceeded and the counter wraps | the limit on concurrent I/O |
| `threadpool.h:117` | one early return skips `cleanup_thread_cache` | a leaving worker clears its cache |
| `threadpool.h:114` | a requeued task keeps its `enqueue_time`, so it is the top again | it goes to the end of the queue |
| `threadpool.h` worker loop | an exception out of a task ends the process | `tests/unit/threadpool_test.cpp:126`: the pool survives |
| `compressor.cpp:553` | two tasks stream one file through one temporary path; the second unlinks the first's, whose rename publishes an unfinished copy | specification, l. 321 and ATOM-4: nginx never reads a half-written copy |
| `main.cpp:480, 492` | a read that fails or yields too little keeps the borrowed buffer, and the exit then hangs in `~MemoryPool` | every path gives it back |
| `main.cpp:633` | a stream whose read fails leaves its temporary files and descriptors | specification, ATOM-2 |
| `compressor.cpp:255, 272` | a streamed copy is the daemon's when the race check removes it, and stays beside an original of another user | `main.cpp:694, 711`: the copies are removed |
| `memory_pool.h:77, 89, 196, 241` | `aligned_free` locks `mutex_`, which its callers hold | a pool that shrinks and is destroyed |
| `memory_pool.h:203` | a buffer that was cached before is taken for a double free, and leaks | a check for double free; `memory_pool_test.cpp` expects it in the free list |
| `memory_pool.h:62` | the loop of the constructor allocates one buffer, not sixteen | preallocation |
| `main.cpp:312` | with `algorithms = gzip` an up-to-date file is compressed again, for want of a `.br` | an up-to-date file is skipped |
| `main.cpp:882, 900` | `return 1` with the log's thread joinable calls `std::terminate` | an exit code of 1 |
| `main.cpp:944` | READY is sent before the watches exist | at READY nothing is missed |
| `main.cpp:182` | the graceful wait looks at running tasks only; the join that follows has no limit | at most 30 s |
| `main.cpp:218` | a reload forgets the command line | a reload changes what the file changes |
| `config.cpp:196` | keys of a skipped section are read as keys of `[general]` | they are skipped ("пропускаем все ключи в этой секции") |
| `config.cpp:194` | `enable_folder_overrides` counts only for the sections below it | a switch for all of them |
| `config.cpp:83` | a section path with a trailing slash never applies | `/path/` names a directory |
| `config.h:14` | a section switches `process_files_without_extensions` off unless it names it | unset keys come from `[general]` |
| `config.h:15-18` | `recursive`, `rate_limit` and `max_active_ios` of a section are read and not used | they apply to the folder |
| `monitor.cpp:494` | a path with a slash behind it leaves all watches below it when it is removed | l. 493: it and its subdirectories |
| `monitor.cpp:494` | the watch of a directory that was moved away lives on under its old name, as long as this is configured | l. 493: the map tells which watches are below a path |
| `monitor.cpp:345` | the scan compares whole seconds by order: an original put in place with an old date is taken for compressed | specification 3.1.8: a copy never stays behind the original |
| `monitor.cpp:384` | one unreadable entry ends the scan of its path | specification, l. 192: the scan treats every file |
| `monitor.cpp:571`, the pool's limit | events beyond the queue of the kernel and tasks beyond that of the pool are gone | EDGE-8, specification l. 1607: 1000 changes at once, none lost |
| `monitor.cpp:494` | removing a path unwatches a configured path below it | only the removed path goes |
| `monitor.cpp:163` | a reload during the first walk leaves watches of a path that was removed | the same |
| `monitor.cpp:407` | directories made or moved in later are not watched | specification 3.1.7, points 4 to 6 |
| `monitor.cpp:571` | an overflow event has no name and is dropped, so the rescan never starts | l. 582, 588: an overflow is followed by a rescan |
| `monitor.cpp:976` | every event moves the deadline by a whole delay, without end | l. 969: at most three delays |
| `monitor.cpp:642` | a move cookie expires only after a batch of events | it expires after its timeout |
| `monitor.cpp`, `IN_MOVED_FROM` | the debounce entry of the old name stays | specification, l. 246 |
| temporary files | stay after a crash, and after a truncation under a stream | specification, ATOM-2 and l. 320 |
| copies | may outlive an original deleted while a task runs | specification, ORPHAN-1 |

### Bounds

* Pool: two workers and one slot let one wait for the slot while the other takes
  the last task, let tasks of one and of two priorities meet, and fill the queue
  of two. `SizeMod` is 8 instead of 2^64: larger than the numbers that occur, so
  that a wrap is visible.
* Files: two workers and three versions are an edit before and an edit after
  every check; a streamed file has two chunks, so that an edit can fall between
  them. Four versions lead a stream into each other size. `Users` and `Daemon` are
  chosen so that every case of the ownership check occurs: in `CompressOneShot`
  the daemon is an ordinary user and an original is root's or another user's; in
  `CompressStream` it is root and gives the copies away. `MaxErrors` and
  `MaxCrashes` of 1 let a failure come before or after a crash, in
  `CompressStream` only.
* Monitor: writes to the file have no bound; of the other operations there are
  `MaxOps` 2, so that a removal or the loss of the copy meets another change, in
  whatever order. A kernel queue of two events, one cookie, delays of one or two
  ticks.
* Watches: three nested directories and one whose name begins like another's
  (`Dirs`), `MaxReloads` 2, so that what a reload added another removes; four sets
  of target paths: one inside of the other, side by side, and one path with and
  without a slash. `MaxChanges` and `MaxFailures` 1. A moved directory leaves
  `Dirs`; one that is moved to another configured path is not watched anew, like
  one that is made there.
* Memory: caches of two, a list of one: the client reaches the full cache, the
  full list, the false double free, the lock. Six buffers are four in its hands
  or its cache, with one for each worker.
* Rate limiter: a clock of `MaxClock` 7 ticks is three windows and a half;
  `FewGrants` cuts only what no correct limiter
  grants in that time.
* Configuration: `MaxLines` 4 is a section, its key, another section with the
  same path or the switch, and its key.
* Life cycle: `Cap`, `DropPart`, `BatchSize` are small instead of 10000, 4 and 32:
  three messages overflow the log. Two SIGHUP are one during the reload of the
  other (`MaxHups`, `MaxTerms`, `MaxEdits`, `MaxMessages` are the bounds).
* Symmetry is used for workers, buffers and callers, and never in a run with
  liveness.
* Deadlock is checked for the rate limiter. The other runs may end: users have no
  operations left, the pool or the daemon is stopped, the file is read, or a
  thread waits for itself, as the code does.

### Fairness

Threads are scheduled. A worker competes for the mutex with others that may take
it again and again: strong fairness for `Step(w)`, which also stands for tasks
that end. `notify_one`, `notify_all`, `join`, the monitor thread, the watch and
scan threads and the clock: weak fairness. In `Lifecycle`, `main`, the log's
writer and the threads `main` joins have weak fairness, and the tasks end; the
join of the pool's workers ends only if none of them `missed` the stop. No
fairness for users, for `enqueue`, for `stop`, for signals, for new messages, for
spurious wake-ups, for crashes. In `Monitor` the watch of the directory can be
installed (no EACCES, no ENOSPC). The monitor thread ends in `Lifecycle` once it
is told to; in the code both of its loops test `m_running` and `select` returns
within a second.

## 4. What is proved

All for every value of the constants that the named assumptions allow.

| Module | Theorems |
|---|---|
| `ThreadPoolProofs` | `TypeOK`, `Accounting`, `IOAccounting`, `NoStrandedTask`, `FifoWithinPriority`, `StopDrains`, `NoForgottenWaiter`, `WaitAllSeesAllDone`, and that `ThreadPool` implements `Executor` |
| `CompressTaskProofs` | `TypeOK`, `LostHasACause` and `KeptHasACause` for all workers, sizes and users; `NoTornCopy`, `OneWriter`, `MixedCopyIsDoomed`, `TrustedCopiesAreFresh`, `FreshUnlessLate`, `NoRegress`, and `NoTmpLeft` until something crashed or a stream broke off, if no version is streamed (any number of workers) or one worker handles the file (any sizes) |
| `MonitorProofs` | `TypeOK`, `NothingForgotten` |
| `WatchesProofs` | `TypeOK`, `ScopeIsWatched`, `OnlyScopeIsWatched` |
| `MemoryPoolProofs` | `TypeOK`, `NoSharing`, `TrackedIsOut`, `OneBufferPerWorker`, `HangsByLossOnly` |
| `RateLimiterProofs` | `TypeOK`, `WithinRate`, `RefusesOnlyWhenFull` |
| `ConfigProofs` | `TypeOK`, `SettingsAsWritten`, `TargetsAsAsked`, for files of any length |
| `LifecycleProofs` | of the log `QueueIsBounded`, `WrittenInOrder`, `LogTellsAll`; of the daemon `ThreadsAreJoined`, that it implements the log, with it `LogTellsAll` and `WrittenInOrder`, and `HupIsHonoured` |

ThreadPool. Assumptions: there is a worker; the sets are finite; the limit and
the number of workers together are below `SizeMod`, that is 2^64; `NoTask` is no
task. The argument is one inductive invariant, `IInv`. `Accounting` needs
`Holding`: a worker has a closure exactly while it is busy. `IOAccounting` needs
`NoWrapYet`: until the stop, `slots + active` is the limit as a sum of natural
numbers and not only modulo `SizeMod`. `NoStrandedTask` needs `PcMeansQueue`: the
queue is empty for as long as a worker that found it so has not gone to sleep,
because it holds the mutex; the same conjunct says that a worker that left saw
the flag and an empty queue, which `enqueue` cannot fill any more, and with
`JoinedAll` gives `StopDrains`. `FifoWithinPriority` needs `ClockBound`: a new
task is younger than all others. `TakeSlot` and `FinishSlot` do the modular
arithmetic of the unsigned counter. Every action has its step, and under it one
for each conjunct it can disturb. The refinement follows from `IInv`: every step
of the pool is a step of the executor or leaves its variables alone.

CompressTask. The premise is `OneShotOnly \/ Sole`: no version of the original is
large enough to be streamed, or the file has one worker. It is needed: with two
workers that stream, one unlinks the temporary file the other still writes, and
`NoTornCopy` is false. The invariant `SInv` has a part for each thing that is
passed from one step to a later one. `History`: the mtime of a version is its
own time or, for an older file that was moved in, 0. `Knows(w)`: what a worker
has read lies between its snapshot and now, and after the last check it is one
version, the current one unless `late`. `Holds(w)`: which temporary files are
the worker's, and that the one it is about to rename is complete and nobody's.
`Published(w)`: a copy just renamed is current until its metadata are written,
and a stream replaces no copy younger than its snapshot. `Whole`, `Checked`: a
published copy is complete, and of one version unless the streaming worker has
still to check it (or a crash took that worker away). `TmpOwned`: a temporary
file belongs to a task in flight. `Progress` is what `FreshUnlessLate` needs:
until an edit comes late, a call fails or something crashes, a format whose copy
is not the current original's is on some worker's list, or a task is queued for
it, through every step of every interleaving. `Checked` and `Progress` end when a
copy is `kept`, so neither depends on who owns what. `LossesHaveACause` has an
invariant of its own, `LInv`, and no premise. `KeptCopiesHaveACause` has another,
`KInv`, and none either: as long as no call has failed and every original was
root's or the daemon's, every copy and temporary file is the daemon's, which
`MayRemove` grants.

Monitor. What was read and not handled, and what the kernel still holds, is one
sequence, `Ahead`: reading leaves it unchanged, an event is appended to it (or
merged with its last one), handling takes its head. `Noticed`, the heart of
`IInv`: as long as nothing was lost, an owed removal is in `Ahead`; an owed
change is in `Ahead` with no removal behind it, or has its deadline set and no
removal in `Ahead`; what was outdated at the start shows it by its date and the
scan has still to come (`Found`); of the loss of a copy, its removal is in
`Ahead`, or its move is (or its cookie waits in the map) with no `IN_MOVED_TO` of
that cookie in `Ahead`. `OverflowSeen` ties the overflow event,
which `Named` drops, to the entry in `losses`. A monitor with nothing left to
look at has `Ahead` and both maps empty, so that nothing is owed. The constant
`None` must be neither a cookie nor a number (`NoneAssumption`).

Watches. Descriptors come first (`DInv`): each belongs to one directory, and
whatever the map or an actor knows of the descriptor of a directory that is in
its place, it knows under the path of this directory. For `OnlyScopeIsWatched`, as
long as nothing `raced`: what is still to be visited or about to be entered is
claimed by a configured path, by one on its way out, or by `left`, and of every
descriptor, `away` or not, there is an entry under a claimed name (`Claims`).
"Lies at or below" is transitive (`UnderTransitive`), so that what a claimed
directory contains is claimed, and `left` goes down the tree (`LeftGoesDown`);
removing a path takes every entry only it claims, or puts the directory on
`left`. For `ScopeIsWatched`, every directory that exists and has to be
watched, and is not excused, is watched, or about to be entered in the map, or
lies at or below something a walk has still to visit (`RInv`). When a walk
enters a directory, what lies below it lies at or below one of its entries
(`EntryOnTheWay`, by the least length of a directory on the way), provided the
existing directories are a tree (`Tree`), which `ParentsAssumption` states of
those there are at the start.

MemoryPool. `NoSharing` and `TrackedIsOut` are inductive together, once it is
known that what is tracked is live. `OneBufferPerWorker` needs in addition that a
thread with `Hold` 1 has no two buffers in hand and cache together, and
`HangsByLossOnly` that no thread has more buffers than its `Hold` (or one), so that
only a thread whose `Hold` exceeds the cache fills the list.

RateLimiter. The grants are ordered in time and not in the future; those that
were dropped were older than a window when they were; those that were kept are
not more than the limit. `WithinRate` follows for the grants on both sides of
`first`.

Config. While the file is read and no key was spilled (`CInv`): `section` is what
the last header says; `cfg` has the values the lines so far give in `[general]`;
and there is an increasing sequence of headers, those that count, one for each
override, which has the values given under it. Most lemmas say how a definition
that looks at the whole file changes with one line more. The end of the file
adds the defaults and the command line, a reload starts again.
`get_folder_override_index` is a recursion: that it has a solution, and that the
solution is the first of the deepest of the enabled sections that cover the path,
are shown by the least index at which they would fail. Then this section is
`Nearest`, and its values are those of `WrittenSettings`.

Logger and Lifecycle. What is in the queue, in the batch and in the log together
is ordered, and contains every number that was not shed; a shed message is owed a
warning by a thread, or has one behind it. The daemon's steps are steps of the
log because `main` closes it after all others were joined, which is
`ThreadsAreJoined`. `HupIsHonoured`: a SIGHUP that was taken is seen in
`arrived`, in `reload`, or by a reload that has still to read the file.

In `LifecycleProofs` the theorems about the log alone use no variable and no
assumption of `Lifecycle`.

Every invariant and every action property of the passing runs is the property of
a theorem. Only model-checked: all liveness, which rests on fairness and on
ENABLED, out of the prover's reach, and the violations, which are executions.
Nothing is claimed of two workers that stream one file. Theorems by
induction take an operator as a parameter, which the provers cannot
instantiate; where a proof needs induction over numbers, it takes the least
counterexample of a set (`Least`, from the well-foundedness of `<`).

## 5. What is not modelled, and why

* The contents of files and compression itself. Of `copy_metadata`, the mtime and
  the user are modelled and succeed (a `fchown` by a daemon that is not root is
  refused); the mode is not. The user of a version of the original does not change
  (`chown`), except by replacing it.
* Symbolic links, path and name checks, `drop_privileges`, seccomp: predicates on
  strings, `lstat` and sequences of system calls without a state of their own.
  That the privileges may not be dropped is a choice in `Lifecycle`.
* Time stamps are as fine as the edits in `CompressTask`; two edits within the
  resolution of the file system are not. In `Monitor` the scan's whole seconds are.
* `EINVAL` of `read` and the growth of its buffer in `Monitor::run`, which needs
  a name longer than the buffer of 256 KB; the limit on the depth of the watched
  tree.
* The rescan after an overflow: dead code, as said above.
* The data race of `scan_existing_files` with a reload on `m_cfg.target_paths`:
  undefined behaviour without a bound.
* An exception inside of a reload (`std::bad_alloc`), after which the old
  configuration stays, and inside of the main loop.
* The NUMA branch of the memory pool: the daemon's pool has no node.
* One file and one directory in `CompressTask` and `Monitor`. Tasks of different
  files share the pool only, which `ThreadPool` models.
* The text of the configuration and of the command line, `/sys`, metrics,
  systemd notifications, formatting of messages, localisation.

## 6. Where to go on

1. `Daemon`: an abstract specification of one file (an edit is followed by a
   fresh copy), with `Monitor` handing tasks to an `Executor` and `CompressTask`
   running them.
2. A file system with coarse times in `CompressTask`.
3. Several files with one log of events, so that a move cookie can be taken for
   another.
