# A verification project for obsidian-mattermost-notifier

The program watches Obsidian vaults (directories of Markdown files) and announces
every new document once in a Mattermost channel. This directory holds TLA+ models of
the program from the file events to the HTTP answers, the TLC runs that check them on
small instances, and TLAPS proofs of nearly all safety properties the runs check.
File references are to `src/obsidian_mattermost_notifier/` of the repository;
`README.md:n`, `docs/...` and `tests/...` are the repository's own files.

1. [The system](#1-the-system)
2. [The modules](#2-the-modules)
3. [How the models correspond to the code](#3-how-the-models-correspond-to-the-code)
4. [The runs](#4-the-runs)
5. [Fairness](#5-fairness)
6. [What the runs found](#6-what-the-runs-found)
7. [The proofs](#7-the-proofs)
8. [What is left out](#8-what-is-left-out)
9. [Plan](#9-plan)

To repeat the checks:

    tlc -workers 2 -config MCOneDocument.cfg MCNotifierService
    tlc -workers 2 -config MCVault.cfg MCVaultWatch
    tlc -workers 2 -config MCDispatcher.cfg StableFileDispatcher
    tlc -workers 2 -config MCPostRetries.cfg MCPostRetries
    tlapm StateStoreProofs.tla            (NotifierServiceProofs, SlotProofs,
    tlapm StableFileDispatcherProofs.tla   WakeupProofs, AnnouncementProofs
    tlapm PostRetriesProofs.tla            and VaultWatchProofs likewise)

## 1. The system

```
   files --> watchdog observer --> StableFileDispatcher --+
              (one per vault)        (one per vault)      | callbacks
                    |  moves, deletions                   v
                    +------------------------> NotifierService <-- main loop
                                                  |      |         (every 5 s)
                                 one transaction  |      | wake()
                                                  v      v
                                            StateStore <-- DeliveryWorker
                                             (SQLite)        | scheduling thread
                                                             | 4 posting threads
                                                             v
                                                     MattermostClient --> HTTP
```

| Component | State it keeps | Operations | What makes it hard |
|---|---|---|---|
| **State store** `state.py` | tables `vaults` and `documents`: generation, status, post id, presence, attempt count, next retry time | `reconcile`, `observe_new`, `mark_missing`, `move_path`, `mark_sent`, `mark_delivery_failure`, `resume_pending`, migration, two queries | long sequences of legal calls; identity of a document across renames, deletions and recreations; late answers; restarts |
| **Delivery worker** `delivery.py` | `_generation` (wake counter), `_stopping`, `_in_flight`, `_vaults_in_flight`, the executor's queue | `wake`, `stop`, the loop `_run`, `_submit`, `_attempt_and_release` | one scheduling and four posting threads, a condition variable, rows read before and used after a slow POST, retries, shutdown |
| **Notifier service** `service.py` | runtimes, failed vaults | `start`, `stop`, `restart_failed_watchers`, the watcher callbacks | callbacks on two threads per vault racing with delivery; vaults that fail independently; crash and restart |
| **File watcher** `watcher.py` | scheduled files with signature and due time | `submit`, `discard`, `_run`, event handler, scan | debouncing; scans racing with events; renames in quick succession |
| **Retry policy** `retry.py` | none | `delay_seconds` | caps, jitter and Retry-After interact |
| **Mattermost client** `mattermost.py` | HTTP sessions | `validate_auth`, `channel_id_for`, `post_message` | which failures are retried |
| **Message builder** `message.py` | none | title and text | exceptions of the YAML parser |
| **Configuration** `config.py` | none | `load_config` | validation rules |
| **Command line** `__main__.py` | shutdown flag | main loop, `--check-mattermost`, `--send-test` | none beyond the above |

What makes each of them correct:

* *State store*: status, post id and schedule of a row agree; scanning the same files
  again changes nothing; a settled document never becomes pending again; a document
  nobody tried to post keeps its first deadline; only a refused attempt blocks it.
* *Delivery worker*: no slot leaks and no vault has two attempts; no wakeup is lost; no
  document is posted early, twice or after it was recorded as sent; every scheduled
  document is served; a stop ends.
* *Notifier service*: every change that makes a document due is followed by a wakeup;
  a running service unblocks nothing; one vault does not hold back another; a restart
  resumes what is pending and keeps what is settled.
* *File watcher*: a file that comes to rest is reported, one that does not is not; after
  the events have drained the rows agree with the disk.
* *Retry policy*: delays grow to their cap and never leave the jitter band, unless
  Retry-After demands more.
* *Mattermost client*: exactly timeouts, lost connections, 408, 429 and 5xx are retried.

The hazards, each at its line and with the properties that watch over it, are in
`PROJECT.json` under `hazards`.

## 2. The modules

| Module | What it is |
|---|---|
| `StateStore` | `state.py`: every operation as an action, the worker's queries as operators; on its own, any caller may do anything (`StoreSpec`) |
| `DeliveryWorker` | `delivery.py`: the scheduling thread and the posting threads over the store; its steps have no specification of their own, the service composes them |
| `NotifierService` | `service.py`: the whole process, with watcher callbacks, maintenance, stop, crash and restart (`Spec`, `FairSpec`) |
| `Debounce` | the abstract promise of the dispatcher: a path asked about is reported when its file has been at rest, and dropped only when the file is gone or, once for each rename away from it, when that rename is heard of |
| `StableFileDispatcher` | `watcher.py:58-141`: the dispatcher's lock, condition and thread against the observer thread and a changing disk; implements `Debounce` |
| `VaultWatch` | one vault with its disk: users, the observer's queue and handler (`watcher.py:144-188`), the scans and replacements of `service.py:146-217`, drafts, and the deliveries that look for files |
| `RetryPolicy` | `retry.py`, as operators on numbers |
| `MattermostClient` | `mattermost.py`: what each answer to a request means |
| `PostRetries` | one pending document, the process that posts it and a server that fails; composes `StateStore`, `RetryPolicy` and `MattermostClient` |
| `MC...` | values of constants for TLC |
| `StateStoreProofs`, `StableFileDispatcherProofs`, `PostRetriesProofs`, `VaultWatchProofs` | the theorems about the modules of these names |
| `NotifierServiceProofs`, `SlotProofs`, `WakeupProofs`, `AnnouncementProofs` | the theorems about `NotifierService`: its types and its use of the store, the slots, the wakeups, what is posted |

`DeliveryWorker`, `VaultWatch` and `PostRetries` EXTEND `StateStore`, and
`NotifierService` EXTENDS `DeliveryWorker`: all of them call the store's actions by name,
so that the store that is proved about is the one the rest uses. The three compositions
look at the program from three sides, because the product of all threads, all files and all
numbers is out of reach:

* `NotifierService` has every thread, and neither files nor numbers: whether a file
  exists is a choice, and a retry falls at any later time;
* `VaultWatch` has files, events and scans, and one attempt at a time;
* `PostRetries` has the times and the answers, and one document.

A definition whose comment starts with "Slip" is a variant a programmer could have
written. No action uses it. Each property of a passing run is paired in `PROJECT.json`
(`mutants`) with a slip that breaks it, so that no property holds by the shape of the model.

## 3. How the models correspond to the code

### Store, worker and service

**Rows.** `documents[v][p]` is the row with the primary key (v, p); `NoRow` stands for no
row and has generation 0, so that inserting (generation 1) and regenerating
(generation + 1) are one operation, `Fresh`. `present` is the column; `Never` is NULL in
`next_retry_at`, `NoPost` NULL in `post_id`. A stored time is an instant of a small
discrete clock `now`; the schedule of a failed attempt and the quiet time of a scan may be
any instant from now on, which contains whatever the retry policy and the configuration
would give.

**Transactions.** Every public method of `StateStore` holds one lock over one transaction,
so it is one action. `KeyError` from `mark_sent` and `mark_delivery_failure` is "nothing
changes", since both callers ignore it (`delivery.py:211`, `237`, `267`).

**The scheduling thread** has a program counter. `Top` is lines 102-105, `Query` 107-109,
`Submit` one iteration of 110-115 with the whole of `_submit`, `Plan` 117-124, `Wait`
126-131. `signalled` is the comparison of `_generation` with the observed value, the only
use the code makes of the counter. The wait has a timeout of at most 60 seconds; `WakeUp`
may therefore happen at any time, and safety properties that speak about sleep look at
what the thread would do if the timeout were the only thing to wake it. Targets and clock
are read immediately before the due rows and belong to `Query`: between them the thread
touches nothing another thread could notice.

**A posting thread** takes a key from the executor's queue, re-reads the row (`Begun`),
looks for the file (`FileGone`, `FileThere`), POSTs, records the outcome (`RecordSent`,
`PostFails`), releases its slots (`Release`) and wakes the scheduler (`WakeScheduler`).
Each is a separate step because transactions of other threads fall between them. An
unanswered POST may have been carried out by the server: nothing in the model depends on
it, the code retries in either case.

**Faults** are counted by `faults` up to `MaxFaults` and drawn from `FaultKinds`:
`unanswered` and `refused` POSTs, `storage` (an exception on a posting thread, swallowed at
`delivery.py:162`), `query` (an exception on the scheduling thread), `start` (a vault
cannot be started) and `crash`.

**The service.** `StartVault` is `_start_vault`, for a new vault and a known one;
`FailToBring` includes the case that the baseline is committed and the watcher then
fails. Event callbacks commit a transaction and call `wake()` afterwards: between the two
the calling thread is in `owed`, one entry for each of the threads that can be there (the
dispatcher and the observer of each vault, and the main thread). `RestartWatcher` may
happen at any time, because an observer may die at any time.

**History.** `birth`, `made` and `answered` record which announcement a row stands for and
how many answered POSTs it has had. An announcement is born when a row becomes pending and
stays with the row through renames. They are written by the actions and read only by
properties; the post id a POST returns is the announcement it carried, so that a property
can tell whose answer completed a row.

### Dispatcher

One section under the lock of `StableFileDispatcher` is one step; a signature is read
outside the lock, so `Submit` (line 88) and `Submitted` (lines 89-94) are two steps of the
observer thread, and `Pop` (110-125), `FoundGone`/`FoundChanged`/`FoundStable` (127-130),
`Reschedule` (131-137) and `CallbackEnds` (138-141) are steps of the dispatcher thread.
`pc` says where that thread is: `top` of the loop, `idle` (waiting for work), `timed`
(waiting for the earliest deadline), `popped`, `changed`, `callback`, `exited`.
`signalled` is a `notify` that the waiting thread has not seen yet. A signature stands
for size and mtime: every write gives a new one (`version`).

`ImplementsDebounce` is the refinement: `Debounce` with `awaiting` mapped to the scheduled
paths and the one the thread has in its hands and not decided about, and `renamed[p]` to the
number of moves away from p that the observer has yet to handle. `Debounce` lets a path go in
three ways only: it is reported, its file is found gone, or such a move is handled
(`discard`, `watcher.py:96-99`), which uses the move up.

### A vault and its disk

`disk[p]` is the number of the document at path p; documents are numbered as users create
them, and a rename takes the number along. So a property can tell a document from the one
that was there before, which the program cannot.

* *Events.* Users' changes append to `events` while the observer is scheduled
  (`watching`); the observer thread handles them later, against the disk as it is then.
  `OnMoved` is `on_moved` with `handle_move` and `_on_moved`: discard the source, move the
  row if the file is at the destination, submit an eligible destination.
* *Dispatcher.* `awaiting` is what `Debounce` calls by that name; a file is taken when it has
  been at rest for `Quiet`. `_on_stable_file` looks at the file (`Dispatch`) and writes the row
  (`Observe`) in two steps.
* *Scans.* `Start` or `ReplaceWatcher`, `ReadDirectory` and `FinishScan` are three steps
  between which the observer and the dispatcher run. The watcher of a known vault starts
  before its scan, that of a new vault after it.
* *Delivery.* `Attempt` looks for the file and posts, `Conclude` records (`mark_sent`, or
  `mark_missing` without a file).
* `Drafts` are paths that match `draft_name_patterns`, `Outside` paths that
  `eligible_relative_path` refuses.

*What users wait for.* What users do not wait for is a constant, `Overlaps`. Five of its members are
about everybody (`UsersAct`): with `"events"` users act while events are queued or a callback
runs, with `"delivery"` while a document is due or being posted, with `"scan"` during a scan of a
known vault, with `"baseline"` during that of a new one, with `"quiet"` while the dispatcher has
something to wait for. The other four are about the path that is touched, and each stands for
one guard:

| Member | Without it users wait |
|---|---|
| `"crossing"` | until a queued rename from or to a path is handled before they touch the path (`Still`), and until the POST of a document is over before they rename it (`Idle`) |
| `"replaced"` | while the callback, or a due delivery, of what was at a path is under way, before they put another document there (`Vacant`) |
| `"renames"` | until a scan is over, to rename |
| `"recreated"` | until a file created where another was deleted is observed, to rename it |

The run `vault` leaves out only the members that make the program announce a document twice or
not at all, each of which has a configuration in section 6. `vault_events`, where nothing is
renamed and `AnnouncedOnce` is not checked, adds `"replaced"` and slow events, and leaves out only
`"baseline"`. `Slow` says what may last
as long as a whole quiet time: a scan, the events in the queue, the callback of a file between
its look and its write, the lookup of a missing file.

Three assumptions about users hold in every configuration and are
guards of `Create` and `Rename`: a document put in the place of another counts as a new one
only if the departure of the other is still to be handled (`README.md:624`); files are
renamed under a running watcher and to a free path; and what comes back from an ignored
folder is not followed (the program documents that it is then a new document). A watcher or
process ends only with a queue whose events a scan makes up for: the moves in it are lost,
and what was moved counts as deleted and created.

`forgotten` is a deviation that is written into the property instead: when the callback of a
path raises (`watcher.py:138-141`), the path is not scheduled again, and its document is
announced only after it is touched or scanned the next time. Nothing in the repository
promises more.

### Retries

Times are exact: a ratio is a multiple of `1 / Scale` and a second is `Scale * Scale` ticks,
so that `Delay` is the formula of `retry.py:36-46` without rounding. An `Answer` is an
exception of `requests` or a status, the kind of its body and a Retry-After header, which may
be absent, a number (of either sign), `nan`, a date or anything else. `Outcome` follows
`_get_json`, `_post_json`, `_response_json` and their callers' look at `id`.

`Post` sends the request and lets the server carry it out or not: a request that timed out
or was answered by a 5xx may have created the post, and then `lost` is set. The answer is
recorded in a later step, and a restart may fall between. `Restart` stands for a kill, for a
signal and for `main` returning after a failed `start()`; `Boot`, `Authenticate` and
`ResolveChannel` are the way up, each of which may fail.
`datetime` and `timedelta` raise `OverflowError` for a delay nobody can represent
(`delivery.py:228`): beyond `Horizon`, nothing is recorded.

`notBefore`, `failedAt`, `posts`, `lost` and `refused` are history. `Wish` and `Transient` are
the environment's and the documentation's view of an answer and do not use the operators of
`MattermostClient`.

## 4. The runs

| Run | Instance | Shows |
|---|---|---|
| `store` | 1 vault, 2 paths, 2 post ids, clock 0..2, 2 generations, 1 failure each | the seven properties of the store under every sequence of calls |
| `one_document` | 1 path, 2 posting threads, clock 0..1, 2 generations, any 2 faults of all kinds | slots, single announcement, no lost wakeup, quiet time, blocked documents |
| `two_vaults` | 2 vaults, 1 posting thread, 1 fault | isolation of the vaults |
| `renames` | 2 paths, every rename at any moment | wakeups, no second post of a sent document |
| `delivery` | 1 path, 2 generations, 1 fault, fair | every scheduled document is served, every stop ends |
| `delivery_order` | 2 paths of one vault, 1 fault, fair | documents of one vault do not starve each other |
| `dispatcher` | 2 files, 3 changes, settle time 2, fair | the dispatcher implements `Debounce`, forgets no submission, never oversleeps, answers every path, and a stop ends its thread |
| `vault` | 4 paths (two ordinary, one draft, one ignored), 2 documents, 2 edits (modify, delete, rename along draft, a, b, ignored, a) while events are queued, callbacks and scans run and documents are due or posted, 1 fault (crash, dead watcher or failing callback) | announced once, nothing missed, rows match files, no draft posted |
| `vault_events` | 1 path and a draft, no renames, 2 documents, 2 edits at any moment but during the first scan, also in the place of a document that is being handled, slow events, quiet time of 2 ticks, 1 crash, fair | nothing missed, no quiet time cut short before a document is recorded, and the program comes to rest although users act between any two of its steps |
| `post_retries` | 1 document, 12 kinds of failing answers, 3 failures, 1 restart, 45 ticks, fair | outages do not block, backoff in its band, Retry-After respected, a second post only after a lost answer, posted in the end |

The runs `unreadable` and `recreated` expect a violation and are described in section 6.

*Properties.* The comment above each definition says what it means and which code it is
about. In short:

* `RowCoherent`, `BlockedOnlyByFailure`, `RowsBelongToKnownVaults`: how the columns of a
  row relate, in every reachable database.
* `RestartIsQuiet`, `NoRenotification`, `QuietDeadlineKept`: what repeated scans, restarts
  and renames must not do.
* `SlotsMatchTasks`: `_in_flight` and `_vaults_in_flight` are exactly the slots of the
  queued and running tasks, one per vault.
* `NoDuplicateAnnouncement`, `SentRowWasAnnounced`, `NoRepostOfSent`: each document is
  announced once and completed by its own answer.
* `SleepCoversRetries`: whenever the scheduling thread sleeps and nobody is about to wake
  it, it sleeps no longer than the earliest retry time.
* `NoIdleDueVault`: while it sleeps, no vault with a due document is idle.
* `QuietTimeRespected`, `BackoffRespected`: nothing is posted before its time.
* `RefusedStaysBlocked`: a running service puts a refused document back on the schedule in one
  way only, the recorded failure of a further attempt at it, which a stale record can begin.
* `NoDocumentWaitsForever`, `StopTerminates`: liveness of the delivery.
* `NothingForgotten`, `NoOversleep`, `ImplementsDebounce`, `EveryPathAnswered`, `StopEnds`: the
  dispatcher, its schedule and its wait.
* `AnnouncedOnce`, `NothingMissed`: documents against posts, once everything is handled.
* `RowsMatchFiles`: rows against files, once everything is handled.
* `NoDraftPosted`: under which names documents are posted.
* `QuietUntilRecorded`: every change starts the quiet time again until the row is written. It
  says nothing of changes afterwards: `README.md:613-614` promises the same of them and the code
  does not keep it (`QuietRestarts` in section 6).
* `ComesToRest`: what users did last is handled in the end.
* `OutagesNeverBlock`, `BackoffInBand`, `RetryAfterRespected`: the schedule of retries.
* `PostedAgainOnlyIfLost`, `EventuallyPosted`: posts on the server.

*Bounds and why they are enough.* Two generations are needed for a late answer to an
earlier one, and no code compares generations other than for equality. Two paths are
needed for a rename and for two documents of a vault; two vaults for isolation. Two
posting threads are the fewest that overlap, and since a vault has one slot more threads
than vaults only idle. One clock tick separates "due" from "not yet due"; the store alone has
two. `BatchLimit` is 100 in the code; the passing runs never have more due documents than
the limit, and one run is about what happens when they do. `MaxBirths`, `MaxGeneration`,
`MaxAttempts` and `MaxFaults` bound the counters: a step that would exceed one is not taken
(`Bounded`), which removes only events of users, watchers and failures, never a step that a
fairness condition or a liveness property relies on (`MaxAttempts` is never smaller than
`MaxFaults`, and only faults raise the count). The runs with renames have no faults and a
clock that stands still: the combinations with retries are covered for one path, and the
product of both is beyond what TLC explores in minutes.

For the dispatcher, two files are needed for the order of the schedule and three changes for
a file that changes before, while and after it is looked at. In `VaultWatch` a second
document is needed for one that takes the place of another, and two edits for a rename after
a rename or a deletion after one. `vault_events` has a quiet time of two ticks, so that a change
can fall between a scheduling and its deadline; `Early` lets a user or a fault begin something only while
its quiet time can still pass before `MaxTime`, and so does `PostRetries` for the longest
backoff. `Slack` (2 ticks) is how long after its due time an attempt may begin or end;
`MaxFailures` is 3 so that with two immediate retries the schedule reaches its cap.
`MaxTime` of 45 ticks leaves room for two of the longest backoffs (18 ticks with jitter).

*Deadlock* is checked in every run: `Rest` and `Done` are the only states in which the program
may stop, and they say that there is nothing left to do.

*Symmetry* is used in the two safety runs where it is declared, over posting threads, and
over paths and post ids of the store, which no operator orders or chooses from.

## 5. Fairness

`FairSpec` adds weak fairness of the scheduling thread, of each posting thread, of a
caller that has committed and must call `wake()`, of the end of a stop, and of the clock.
They are operating system threads whose waits are bounded: `Condition.wait` by 60 seconds
(`delivery.py:120-131`), an HTTP request by `request_timeout_seconds`, and the executor runs
what is queued. Nothing is assumed of users, watchers, restarts or faults: the documents
need not change, a stopped service need not come back, and no POST needs to succeed
(`PostFails` is bounded by `MaxFaults`, so a POST that is tried often enough is answered:
Mattermost recovers eventually).

The other specifications assume the same of their threads. `StableFileDispatcher`: the
observer and dispatcher threads run and time passes; `notify` wakes the wait, and nothing is
assumed of `Stop`. `VaultWatch`: the observer, the dispatcher, the main thread (`shutdown.wait`
has a timeout of 5 seconds, `__main__.py:66`), the delivery and the clock; nothing of users,
faults or `Start`, which is why `ComesToRest` allows a service that stays down.
`PostRetries` assumes also that the process is started again after it ended, as the
repository's `compose.example.yaml` asks of Docker (`restart: unless-stopped`), and, as
above, that the server fails a bounded number of times.

## 6. What the runs found

Each of these configurations checks one property that a document, a comment or a test of the
repository states, and TLC shows an execution of the code that violates it. `MCUnreadable` and
`MCRecreated` are the runs `unreadable` and `recreated` of `PROJECT.json`, with the whole
quotation under `findings`; the others are kept as configurations and are repeated with
`tlc -config X.cfg Module`.

With `MCNotifierService`:

| Configuration | Violates | What happens |
|---|---|---|
| `MCUnreadable` | `NoDocumentWaitsForever` | Front matter with an impossible date makes `document_title` raise; nothing is recorded, the attempt is repeated for ever and the vault's other documents starve (`README.md:624`). |
| `MCRenameInFlight` | `NoDuplicateAnnouncement` | A rename during the POST makes `mark_sent` miss its row; the answer is dropped and the document is posted again (`README.md:620-621`). |
| `MCRenameReuse` | `SentRowWasAnnounced` | A vacated path taken by a new document starts at generation 1 again; the late answer to the old document completes the new one, which is never announced (`README.md:626`). |
| `MCRenameHanded` | `QuietTimeRespected` | A pending document renamed onto the path of a due record of the same generation is posted in its stead: `_attempt` compares the generation and not the schedule (`delivery.py:176-183`; `README.md:613-614`). |
| `MCBatchLimit` | `NoIdleDueVault` | One vault with 100 documents due earlier hides the due documents of an idle vault, pass after pass (`docs/HANDOFF.md:521`). |
| `MCStaleBatch` | `BackoffRespected` | A record read before the overlapping attempt was refused, or rescheduled, is posted at once (`README.md:607`, `624`). |
| `MCDeadWorker` | `NoDocumentWaitsForever` | One database exception ends the scheduling thread for good (`README.md:624`). |

`MCRenameOverRefused` violates `RefusedStaysBlocked` in the same way and is no disagreement: a pending
document renamed over a refused one takes its path, and its row with it.

With `MCVaultWatch`:

| Configuration | Violates | What happens |
|---|---|---|
| `MCRecreated` | `NothingMissed` | A document created where a settled one was deleted, and renamed before it was observed, takes the settled row along (`state.py:282-296`) and is never announced (`docs/HANDOFF.md:515`). |
| `MCRenameTwice` | `AnnouncedOnce` | Renames a to b to c while the first event is queued: `_on_moved` finds no file at b and returns (`service.py:260-263`), the second move finds no row at b, and the file at c is a new document (`README.md:619-621`). |
| `MCRenameDuringScan` | `AnnouncedOnce` | A file renamed between the reading of the directory and `reconcile` by a replaced watcher: the older snapshot marks the new path missing and regenerates the old one, or the renamed file is observed as new (`service.py:164-171`, `README.md:620-621`). |
| `MCFirstStart` | `NothingMissed` | A document created between the scan of the baseline and the start of the watcher causes no event and is in no baseline (`service.py:210-217`, `docs/HANDOFF.md:515`). |
| `MCRenameToDraft` | `NoDraftPosted` | `move_path` does not look at the draft patterns: a pending document renamed to a draft name is posted (`service.py:253-268`, `README.md:617`). |
| `MCScanQuiet` | `QuietRestarts` | A document found by a scan has a fixed deadline; a modification afterwards does not restart its quiet time, since `observe_new` leaves a present row alone (`state.py:183`, `227-246`; `README.md:613-614`). The property is in `MCVaultWatch`; what holds is `QuietUntilRecorded`. |
| `MCSlowScan` | `NothingMissed` | A file observed after the directory was read is marked missing by the reconcile, and nobody looks again (`state.py:139-150`, `docs/HANDOFF.md:515`). It takes a scan as long as the quiet time. |
| `MCLateLookup` | `NothingMissed` | `_attempt` misses the file, the file is recreated and observed, and `mark_missing`, which has no generation, takes the new generation off (`delivery.py:185-188`, `state.py:250-256`; `README.md:624`). |

Six more configurations of `MCVaultWatch` show why the theorems about `VaultWatch` suppose what
they do. `MCRenameDuringDelivery` (the rename of `MCRenameInFlight`, seen from the disk) and
`MCReplaced` violate `AnnouncedOnce`; in the latter a file at rest is deleted and created again
between the look of `_on_stable_file` and `observe_new` (`service.py:239-249`), the row is
that of the new document and posted, and the deletion, handled afterwards, marks it missing, so
that it is observed as a new one again. The other four are slower than a quiet time, which is 30
seconds unless configured: `MCLongScan`, `MCLongEvents` and `MCNoQuietTime` violate
`AnnouncedOnce`, and `MCSlowCallback`, where a file is changed after that look, violates
`QuietUntilRecorded`.

With `MCPostRetries`:

| Configuration | Violates | What happens |
|---|---|---|
| `MCUnreadableAnswer` | `PostedAgainOnlyIfLost` | A 2xx answer without a readable id is a refusal: the document is blocked and posted again by the next start, although the answer arrived (`mattermost.py:113-119`, `196-212`; `README.md:626` grants duplicates for lost answers). |
| `MCEndlessWait` | `RetryAfterRespected` | A Retry-After beyond the range of `datetime` (`inf`, `1e12`) raises `OverflowError` in `_record_failure` (`delivery.py:228`); nothing is recorded and the document is posted again at once (`README.md:607`). |

Met while modelling, and stated nowhere in the repository, so without a configuration: a
restart resumes throttled documents at once, whatever Retry-After said (`state.py:367-377`);
a body that breaks off is a `request_error` and blocks the document, although a timeout
would not (`mattermost.py:138-142`); jitter is applied after the cap, so a delay may exceed
`retry_max_seconds` by `retry_jitter_ratio`.

Two further divergences concern wording only and have no run: `tests/test_message.py:56`
expects a heading with the prefix `제목:` and `docs/HANDOFF.md:262-281` the name of the vault in
the message; `message.py:58-69` writes neither.

## 7. The proofs

Eight modules prove thirty-five theorems, each for every value of the constants that the
named assumptions admit. The states are unbounded where the constants are: any set of paths,
any number of vaults, threads, changes, failures and restarts.

| Module | Theorems about | Obligations |
|---|---|---|
| `StateStoreProofs` | the seven properties of the run `store` | 401 |
| `StableFileDispatcherProofs` | `TypeOK`, `NoOversleep`, `NothingForgotten` and the refinement `ImplementsDebounce` | 956 |
| `PostRetriesProofs` | `TypeOK`, `OutagesNeverBlock`, `RetryAfterRespected`, `PostedAgainOnlyIfLost`, `BackoffInBand` | 1013 |
| `NotifierServiceProofs` | `TypeOK`, the refinement of `StoreSpec`, and with it `NoRenotification` and `RowCoherent` of the running service | 893 |
| `SlotProofs` | `SlotsMatchTasks`, one task per vault | 258 |
| `WakeupProofs` | `SleepCoversRetries`, `NoIdleDueVault` | 421 |
| `AnnouncementProofs` | `NoRepostOfSent`, `NoDuplicateAnnouncement`, `SentRowWasAnnounced`, `QuietTimeRespected`, `RefusedStaysBlocked` | 955 |
| `VaultWatchProofs` | `TypeOK`, `NoDraftPosted`, `AnnouncedOnce`, `QuietUntilRecorded`, `RowsMatchFiles`, `NothingMissed` | 4744 |

*Hypotheses.* A property that fails when users do what section 6 shows cannot be proved
without saying that they do not. Each theorem that needs such a hypothesis names it, and a
configuration shows what happens without it. A passing run that checks the property
meets it, so that none of them is empty:

| Hypothesis | Says | Theorems | Without it |
|---|---|---|---|
| `FewDue` | at most `BatchLimit` documents are due at a time | `ServiceNoIdleDueVault` | `MCBatchLimit` |
| `SpareUnderWay` | no document is renamed from or onto a path being posted | `ServiceAnnouncesOnce`, `ServiceSentWasAnnounced` | `MCRenameInFlight`, `MCRenameReuse` |
| `SpareHanded` | nor one that is in the batch or the executor's queue | `ServiceQuietTime` | `MCRenameHanded` |
| `SpareRefused` | nothing is renamed over a refused document | `ServiceRefusedStaysBlocked` | `MCRenameOverRefused`: the row is then the other document's |
| `OnlyFinish` | nothing is renamed to a draft name | `VaultNoDraftPosted` | `MCRenameToDraft` |
| `Uncrossed` | users wait for a queued rename before they touch its paths and for the POST of a document before they rename it; scans take less than a quiet time | the four below | `MCRenameTwice`, `MCRenameDuringDelivery`, `MCLongScan` |
| `Patient` | `Uncrossed`; they put no document where the callback or a due delivery of another is under way, and rename nothing during a scan; events take less than a quiet time, and there is one | `VaultAnnouncesOnce` | `MCReplaced`, `MCRenameDuringScan`, `MCLongEvents`, `MCNoQuietTime`: one for each conjunct |
| `Prompt` | `Uncrossed`; a callback writes before the clock goes on | `VaultQuietUntilRecorded` | `MCSlowCallback` |
| `Unhurried` | `Patient`; users wait for the first scan of a new vault | `VaultRowsMatchFiles` | `MCFirstStart` |
| `Attentive` | `Unhurried`; a recreated file is observed before it is renamed | `VaultMissesNothing` | `MCRecreated` |

None of the last five makes users wait for events, callbacks, deliveries or scans elsewhere than
at the paths they touch, but for the first scan and for renames during a scan; `Prompt` allows both.

### The store

The assumptions are `NullsAssumption` (NULL is no post id and no time) and `BoundsAssumption`
(the bounds are natural numbers).

*The invariant.* `StoreInv` is the type invariant, `GoodRow` for every row, and
`RowsBelongToKnownVaults`. `GoodRow` joins `RowCoherent` and `BlockedOnlyByFailure`, so that
both are carried through the operations by one induction; the type of the row is part of
it because a recorded failure excuses a missing retry time only if the attempt count it
raises is a natural number. `RowsBelongToKnownVaults` and "a row that is not there is not
present" are what `RestartIsQuiet` needs beyond types: the baseline branch of `ScanResult`
keeps the rows it does not find, and a second scan would mark them missing if there were any.

*The argument.* A step is first reduced to what it does to a single row: `RowStep` lists the
ten ways a row can change, and `StoreStepRows` shows that every operation changes every row
in one of them. `Good...` lemmas then show that each way keeps a row good, so no operation
needs its own invariance proof, and `NoRenotification` and `QuietDeadlineKept` follow from
`RowStep` by the same case distinction. `StoreStepShape` and `UnknownVaultsStayEmpty` supply
what is about whole tables. `RestartIsQuiet` is a fact about `ScanResult` under the
invariant.

### The dispatcher

The assumptions are `NoEntryAssumption` (a path without an entry is told from one with an
entry) and `TimesAssumption`.

*The invariant.* `DispatcherInv` is the type invariant, which says also that the thread holds
a path exactly while it looks at it, and three facts about time. `Look`: no file was changed
in the future, and no signature is newer than the newest write; without it a signature read
earlier could be that of a write still to come. `EntryRested`: an entry whose signature is
that of the file was made after the file's last change, so its due time lies a settle time
after it. `HandRested`: the same of the path the thread has taken and not looked at, which
is by then at rest. The last is what `Debounce` demands of a report, and it is not inductive
without the other two: a file may change between the look of the observer
(`watcher.py:88`) and the lock (89-94), and the entry then carries an old signature.

*The argument.* `ChangeKeepsInv` covers the users' changes, `ScheduleKeepsRested` the two
places that write an entry, `DispatcherInvStep` the steps of the threads.
`DispatcherStepRefines` maps each step to one of `Debounce` or to a stutter: the report of a
path happens where the callback begins, the drop where the file is found gone or where a
discard is handled, and a path is asked about where `submit` takes the lock. That a discard is
never one too many is counted: `DiscardQueued` and `DiscardTaken` say by how much a queue that
grows at its end or shrinks at its head changes the renames away from each path.
`NoOversleep` is inductive with the types alone.
`NothingForgotten` speaks of a drained queue; inductive is `NoneLost`: a file that has not been
reported as it is has an event in the queue that no later discard follows, or is being
submitted, or is awaited, and then no discard is queued at all. `EventQueued` and `EventTaken`
say what a queue that grows at its end or shrinks at its head still tells.

### The retries

The assumptions are `PostAssumption`, `RetryAssumption` (the rules of `config.py` for the
retry settings) and, from the store, `NullsAssumption`.

*The invariant.* `PostInv` is the type invariant, `OutagesNeverBlock`, and what ties the
process to its row: an attempt is under way only for the present generation of a row that
is still scheduled, and what a process was told dies with it. To it are added, one per
theorem, `WishKept` (the row's next time is not before the server's wish), `PostsAccounted`
(while no answer was lost there is at most one post, and it is recorded as sent or its answer
is about to be) and `BandKept` (the last recorded failure lies in the band). They are separate
because each needs a hypothesis of its own.

*The argument.* `OutcomeShape` says what the client makes of any answer (a success exactly
on the good one, retried exactly on a transient one, at most one wish), and `AttemptRecorded`
what recording it does to the row. `DelayBounds` and `JitterBounds` are the arithmetic of
`retry.py:36-46`; `NextAttempt` joins both. Two of the hypotheses name what the code needs of the world, and a configuration of section 6 shows
that it does: `Representable` (no delay leaves the range of `datetime`; `MCEndlessWait`) and
`Readable` (an answer that accepts a post names it; `MCUnreadableAnswer`). The third,
`ExponentsFit`, limits `RetriesBackOff` to 31 immediate retries: that `2^n` is a natural
number follows by computation for `n <= 30`, and for all `n` only by induction, which the
prover cannot do.

### The service

The assumptions are, besides those of the store, `WorkerAssumption` (threads, vaults and paths
are finite, `BatchLimit` is positive, a post names its vault, path and number) and
`RenamesAssumption`.

*The store is used as it may be.* `ServiceInv` is the store's invariant, the types, and where
keys and announcements come from: `batch`, `queue` and `task` hold keys of rows (`Keyed`), a
pending row has an announcement of its vault (`Announceable`), and so has an active thread
(`TasksAnnounce`). `StepOnStore` then maps every step of the service to one operation of
`StateStore` or to none, which is a refinement: `Spec => StoreSpec`. Theorems about the store
hold of the service with a one-line proof (`ServiceNoRenotification`, `ServiceRowsCoherent`).

*Slots.* `SlotsMatchTasks` counts; inductive is `SlotInv`, which names the slots: `inFlight` and
`vaultsInFlight` are the images of the tasks queued and running, and no two of them are of one
vault. `SlotsCounted` gets the cardinalities from it, since on tasks of different vaults the two
images have equal size.

*Wakeups.* `SleepCoversRetries` looks at a sleeping thread only. Between the query and the wait
(`delivery.py:107-131`) a row may become due earlier, so `Covered` says the same of the `wait`
step, unless somebody has woken the thread or is bound to (`Disturbed`): a caller in `owed`, or a
posting thread that has yet to release. `NewProcess` says that nothing is planned before the
worker starts. `Served` is the like for `NoIdleDueVault`: from the query on, a vault found due is
in flight or still has a record in the batch; where `FewDue` holds, the batch has them all.

*Announcements.* `RepostInv` (no hypothesis) says that each announcement belongs to one row
(`BirthsApart`); a late answer then cannot meet another thread with the same announcement,
because vaults have one task. `OnceInv` adds what an attempt knows about its row while it is
spared renames: the row has the announcement of the attempt, or a newer generation, no answer
to it has come, and no other row has it (`Attempting`). `QuietInv` follows the keys on their way
from the query to the thread: each was due when it was read, or its row is a newer generation,
with which the check of `delivery.py:176-183` drops it.

### A vault

The assumptions besides the store's are `VaultAssumption` and `NothingAssumption` (empty hands
of the dispatcher are told from a path). `VaultInv` is the store's
invariant, the types, a queue of well-formed events, and no rows for paths that are not eligible;
`VaultNoDraftPosted` adds that drafts have none.

*The queue.* `QueueInv` adds where the threads are (`Control`) and two facts about the order of
events. `MovesLast`: of the events that concern a path, a rename is the last, and there is one
at most; this is what waiting for a queued rename buys. `DeletedFirst`: what is
on the disk again after a queued deletion is itself in the queue, behind it. Otherwise the queue
is as long and as mixed as it likes, and the event that is handled may be older than the disk.

*`AnnouncedOnce`.* The invariant is `OnceInv`, which adds `Orderly`. What carries it is
`KnownSettled`: the row of a document that was announced or belongs to the baseline is settled,
is the one being delivered (`AttemptOnDisk`), or has yet to follow the document; `MoveWaits` says
what the two paths of a queued rename and their rows look like meanwhile. `Renewed` says that
where a deletion is still queued, the document now at the path is a new one or comes by a rename
that is queued, too. For a scan that has read the
directory and not written yet, `ScanMissed` says that a file it did not see is new, and for a
new vault `NewVault` that its snapshot has the whole baseline; `Numbered` that no document is at
two paths. Each action has a lemma of its own.

*`QuietUntilRecorded`.* `RestInv` adds `Rested`, and needs none of `Orderly`. `Held` is said of a row
and the last change of its file: its deadline is a quiet time after the change, or the change came
after the row was written. It holds of every row (`RowsHeld`), of a row that has yet to follow a
rename (`MovesHeld`), and, as a promise, of the file the callback has looked at (`ObservedRested`).
A scan that overlaps a change satisfies it because its instant is the present one (`Control`). No
attempt fails in `VaultWatch`, so resuming puts off no deadline.

*`RowsMatchFiles`.* It speaks of a program that has handled everything; inductive is `RowsInv`,
which says where things are before. `Seen`: a file whose row is not present is awaited, observed,
in the queue, or in front of a scan that has yet to read the directory or has found it. `Gone`: a
row whose file is not there is pending and will be looked for, or its departure is queued, or a
scan will mark it; `AttemptGone` says the same of a file that vanishes during its POST. `BaselineRead`
and `Watched` are about the first scan. A watcher that dies, a crash and a start satisfy `Seen` and
`Gone` by the scan they lead to (`ScanDue`); that is why `restart_failed_watchers` must scan, and why
a callback that raises (`forgotten`) is made up for by the next one.

*`NothingMissed`.* `KnownInv` adds the converse of `KnownSettled`: a settled row is that of a known
document, so that no new one is taken for announced (`SettledKnown`), also on its way behind a
rename (`MovesKnown`), and what is delivered is counted (`AttemptCounted`). Together with `Seen` it
gives the property for a quiescent program.

### What is only model-checked

* all liveness: `NoDocumentWaitsForever`, `StopTerminates`, `EveryPathAnswered`, `StopEnds`,
  `ComesToRest`, `EventuallyPosted`. The prover has no means for fairness;
* `NothingMissed` where documents are replaced while they are handled, or events are slow
  (`vault_events`): a document may then be announced twice, and `OnceInv` does not hold.

## 8. What is left out

*Of the components that are modelled:*

* **The product of the three views.** No model has all threads, the files and the numbers at
  once (section 2). A race that takes two posting threads and two scans is not covered.
* **Users' assumptions in `VaultWatch`.** What the passing runs exclude is listed in section 3,
  with a configuration for each exclusion that matters. Not modelled in any: a rename over
  an existing document, and renames while the service is down (the program sees a deletion
  and a creation).
* **Time out of order.** The clock never goes back. Times are stored as ISO strings and
  compared as such by SQLite; the models compare them as times.
* **Closing.** `stop()` gives up joining a watcher after a timeout (`watcher.py:106`); the models'
  watchers are silent once the service stops.
* **Exceptions out of `resume_pending` and the constructor** end the process, as `Crash` does.
* **`_record_unknown_failure`** is `PostFails` of `DeliveryWorker`; `PostRetries` has only the
  exceptions of the client.
* **The limit of SQLite variables.** `reconcile` passes one placeholder per scanned file
  (`state.py:140`), so a vault beyond the limit fails every scan. It is listed as a hazard
  without a property.

*Components that are not modelled, or in part:*

* **Mattermost client**: the sessions, one per thread, and their `close`.
* **Message builder**: which title a file gets. It has no state, and what matters to the
  rest, that it may raise, is the constant `Unreadable`.
* **Configuration**: the rules beyond those for the retry settings. A file is validated once,
  before the service exists.
* **Command line**: argument parsing and the two one-shot commands; the main loop is part of
  `NotifierService` and `PostRetries`.
* **Deployment** scripts and logging.

## 9. Plan

Done: every component of section 1 that keeps state is modelled, and every safety property
that a passing run checks is proved; those that executions of section 6 violate, under the
hypotheses of section 7.

Left, in order of what matters most for the program:

1. `Outbox`: an abstract specification of what the program promises (a document is new, then
   announced once, or blocked, or gone), implemented by `NotifierService` while renames are
   spared, with the refinement mapping over `birth` and `answered`.
2. `NothingMissed` from `Seen`, `Gone` and `Knowing` alone, without `OnceInv`, as `vault_events`
   checks it.
3. The choice of a title in `message.py` and the remaining rules of `config.py`, as operators.
