--------------------------- MODULE NotifierService ---------------------------
(***************************************************************************)
(* service.py around the DeliveryWorker: starting vaults, the events the   *)
(* watchers report, replacing failed watchers, stopping, and a process     *)
(* that may crash and start again over the same database.                  *)
(*                                                                         *)
(* The threads that report events commit a transaction first and call      *)
(* wake() afterwards; between the two they are in owed.  Each vault has a  *)
(* dispatcher thread (stable files), an observer thread (moves and         *)
(* deletions), and the main thread serves all of them in turn.             *)
(***************************************************************************)
EXTENDS DeliveryWorker

CONSTANT Renames  \* the renames users perform: pairs <<source, destination>>

ASSUME RenamesAssumption == Renames \subseteq Paths \X Paths

VARIABLES
    service,  \* "down", "starting", "up" or "stopping"
    untried,  \* vaults the loop of start() has not come to yet
    failed,   \* _failed_vaults
    owed      \* threads that have committed and have yet to call wake()

serviceVars == <<service, untried, failed, owed>>
vars == <<storeVars, workerVars, serviceVars>>

Callers == Vaults \X {"dispatcher", "observer", "main"}

TypeOK ==
    /\ StoreTypeOK
    /\ WorkerTypeOK
    /\ service \in {"down", "starting", "up", "stopping"}
    /\ untried \subseteq Vaults
    /\ failed \subseteq Vaults
    /\ owed \subseteq Callers

Init ==
    /\ StoreInit
    /\ WorkerInit
    /\ service = "down"
    /\ untried = {}
    /\ failed = {}
    /\ owed = {}

\* A document that became pending is a new announcement; it keeps its row.
Born(v, p) ==
    /\ documents'[v][p].status = "pending"
    /\ documents'[v][p].generation # documents[v][p].generation

Announced ==
    /\ made' = [v \in Vaults |-> [p \in Paths |->
                    IF Born(v, p) THEN made[v][p] + 1 ELSE made[v][p]]]
    /\ birth' = [v \in Vaults |-> [p \in Paths |->
                    IF Born(v, p) THEN <<v, p, made'[v][p]>> ELSE birth[v][p]]]
    /\ UNCHANGED answered

-----------------------------------------------------------------------------
(* Starting.                                                                *)

\* A new process opens the database (NotifierService.__init__) and logs in.
Boot ==
    /\ service = "down"
    /\ Open
    /\ service' = "starting"
    /\ untried' = Vaults
    /\ UNCHANGED <<workerVars, failed, owed>>

\* The scan of a starting or restarted vault and the reconcile it feeds.
Scan(v) ==
    /\ \E found \in SUBSET Paths, at \in Deadlines : Reconcile(v, found, at)
    /\ Announced

\* _start_vault to its end: the vault has a runtime.
Bring(v) ==
    /\ Scan(v)
    /\ runtimes' = runtimes \cup {v}
    /\ failed' = failed \ {v}
    /\ UNCHANGED <<stopping, loopVars, poolVars, faults>>

\* _start_vault raises.  The baseline of a new vault is committed before its
\* watcher starts (lines 211-217), so it may stay behind.
FailToBring(v) ==
    /\ Fault("start")
    /\ \/ UNCHANGED <<storeVars, history>>
       \/ v \notin vaults /\ Scan(v)
    /\ UNCHANGED <<runtimes, stopping, loopVars, poolVars>>

StartVault(v) ==
    /\ service = "starting" /\ v \in untried
    /\ untried' = untried \ {v}
    /\ Bring(v)
    /\ UNCHANGED <<service, owed>>

\* Isolated from the other vaults; only a retryable failure is remembered.
StartVaultFails(v) ==
    /\ service = "starting" /\ v \in untried
    /\ untried' = untried \ {v}
    /\ FailToBring(v)
    /\ failed' \in {failed, failed \cup {v}}
    /\ UNCHANGED <<service, owed>>

\* Lines 99-102.
StartWorker ==
    /\ service = "starting" /\ untried = {} /\ runtimes # {}
    /\ ResumePending
    /\ pc' = "top"
    /\ Wake
    /\ service' = "up"
    /\ UNCHANGED <<runtimes, stopping, batch, passNow, planned, poolVars,
                   history, faults, untried, failed, owed>>

\* Lines 95-97: no vault could be started, and the program ends.
NothingToStart ==
    /\ service = "starting" /\ untried = {} /\ runtimes = {}
    /\ service' = "down"
    /\ failed' = {}
    /\ UNCHANGED <<storeVars, workerVars, untried, owed>>

-----------------------------------------------------------------------------
(* Events of a running vault.                                               *)

Watching(v) == v \in runtimes /\ service \in {"starting", "up"}

\* wake() follows when the row is left pending and present.
WakeIfPending(v, p, who) ==
    owed' = IF Deliverable(documents'[v][p]) THEN owed \cup {<<v, who>>} ELSE owed

\* _on_stable_file, for a file that is still there and is not a draft.
OnStableFile(v, p) ==
    /\ Watching(v) /\ <<v, "dispatcher">> \notin owed
    /\ ObserveNew(v, p)
    /\ Announced
    /\ WakeIfPending(v, p, "dispatcher")
    /\ UNCHANGED <<runtimes, stopping, loopVars, poolVars, faults,
                   service, untried, failed>>

\* The deleted callback, and _on_moved to a path that is not eligible.
OnMissing(v, p) ==
    /\ Watching(v) /\ <<v, "observer">> \notin owed
    /\ MarkMissing(v, p)
    /\ UNCHANGED <<workerVars, serviceVars>>

\* Slip: a move does not wake the worker.
OnMovedQuietly(v, src, dst) ==
    /\ Watching(v) /\ <<v, "observer">> \notin owed
    /\ MovePath(v, src, dst)
    /\ birth' = IF Exists(documents[v][src])
                THEN [birth EXCEPT ![v][src] = NoPost, ![v][dst] = birth[v][src]]
                ELSE birth
    /\ UNCHANGED <<runtimes, stopping, loopVars, poolVars, made, answered, faults,
                   serviceVars>>

\* _on_moved to an eligible path whose file is still there.
OnMoved(v, src, dst) ==
    /\ Watching(v) /\ <<v, "observer">> \notin owed
    /\ MovePath(v, src, dst)
    /\ birth' = IF Exists(documents[v][src])
                THEN [birth EXCEPT ![v][src] = NoPost, ![v][dst] = birth[v][src]]
                ELSE birth
    /\ WakeIfPending(v, dst, "observer")
    /\ UNCHANGED <<runtimes, stopping, loopVars, poolVars, made, answered, faults,
                   service, untried, failed>>

\* wake() of a thread that has committed.
CallerWakes ==
    /\ \E who \in owed : owed' = owed \ {who}
    /\ Wake
    /\ UNCHANGED <<storeVars, runtimes, stopping, pc, batch, passNow, planned,
                   poolVars, history, faults, service, untried, failed>>

-----------------------------------------------------------------------------
(* restart_failed_watchers, which the main thread calls every 5 seconds.    *)

MainIsFree == \A v \in Vaults : <<v, "main">> \notin owed

\* Lines 127-144: a vault that failed to start is tried again.
RetryVault(v) ==
    /\ service = "up" /\ MainIsFree /\ v \in failed
    /\ Bring(v)
    /\ owed' = owed \cup {<<v, "main">>}
    /\ UNCHANGED <<service, untried>>

RetryVaultFails(v) ==
    /\ service = "up" /\ MainIsFree /\ v \in failed
    /\ FailToBring(v)
    /\ failed' \in {failed, failed \ {v}}
    /\ UNCHANGED <<service, untried, owed>>

\* Slip: a restarted watcher resumes what is pending, as a restarted service does.
RestartWatcherResuming(v) ==
    /\ service = "up" /\ MainIsFree /\ v \in runtimes
    /\ ResumePending
    /\ owed' = owed \cup {<<v, "main">>}
    /\ UNCHANGED <<workerVars, service, untried, failed>>

\* Lines 146-178: a dead watcher is replaced, and the vault scanned.
RestartWatcher(v) ==
    /\ service = "up" /\ MainIsFree /\ v \in runtimes
    /\ Scan(v)
    /\ owed' = owed \cup {<<v, "main">>}
    /\ UNCHANGED <<runtimes, stopping, loopVars, poolVars, faults,
                   service, untried, failed>>

-----------------------------------------------------------------------------
(* Stopping.                                                                *)

\* stop(), lines 107-116, up to the join of the scheduling thread.
Stop ==
    /\ service = "up" /\ MainIsFree
    /\ service' = "stopping"
    /\ stopping' = TRUE
    /\ Wake
    /\ UNCHANGED <<storeVars, runtimes, pc, batch, passNow, planned, poolVars,
                   history, faults, untried, failed, owed>>

\* The thread is joined, the executor has finished every task it was given,
\* and the client and the database are closed (delivery.py:90-94).
Stopped ==
    /\ service = "stopping" /\ pc = "exited"
    /\ queue = <<>> /\ \A w \in Threads : ~ Busy(w)
    /\ service' = "down"
    /\ ResetWorker
    /\ failed' = {}
    /\ owed' = {}
    /\ UNCHANGED <<storeVars, history, faults, untried>>

\* The process is killed: everything but the database is gone.
Crash ==
    /\ service # "down"
    /\ Fault("crash")
    /\ service' = "down"
    /\ ResetWorker
    /\ untried' = {}
    /\ failed' = {}
    /\ owed' = {}
    /\ UNCHANGED <<storeVars, history>>

Clock == Tick /\ UNCHANGED <<workerVars, serviceVars>>

-----------------------------------------------------------------------------
Starting ==
    \/ Boot \/ StartWorker \/ NothingToStart
    \/ \E v \in Vaults : StartVault(v) \/ StartVaultFails(v)

Events ==
    \/ \E v \in Vaults, p \in Paths : OnStableFile(v, p) \/ OnMissing(v, p)
    \/ \E v \in Vaults, move \in Renames : OnMoved(v, move[1], move[2])

Maintenance ==
    \E v \in Vaults : RetryVault(v) \/ RetryVaultFails(v) \/ RestartWatcher(v)

Delivering == (SchedulerStep \/ SchedulerDies \/ PoolStep) /\ UNCHANGED serviceVars

\* Bounds: a step that would exceed one is not taken.  Only new documents and
\* recorded failures grow, and MaxAttempts is never met when it is MaxFaults.
Bounded ==
    /\ WithinBounds
    /\ \A v \in Vaults, p \in Paths : made[v][p] <= MaxBirths

Step ==
    \/ Starting \/ Events \/ CallerWakes \/ Maintenance \/ Delivering
    \/ Stop \/ Stopped \/ Crash \/ Clock

Next == Step /\ Bounded'

Spec == Init /\ [][Next]_vars

\* The operating system runs every ready thread, every wait and every HTTP
\* request has a timeout, and time passes.  Nothing is assumed of users, of
\* watchers, of faults or of restarts.
Fairness ==
    /\ WF_vars(SchedulerStep /\ UNCHANGED serviceVars)
    /\ \A w \in Threads :
          WF_vars((Take(w) \/ TaskStep(w)) /\ UNCHANGED <<runtimes, stopping, serviceVars>>)
    /\ WF_vars(CallerWakes)
    /\ WF_vars(Stopped)
    /\ WF_vars(Clock)

FairSpec == Spec /\ Fairness

-----------------------------------------------------------------------------
(* Safety.                                                                  *)

\* Slots are neither leaked nor shared: the documents and vaults marked in
\* flight (delivery.py:135-147, 170-172) are those of the queued and running
\* tasks, and a vault has one task at a time.
SlotsMatchTasks ==
    LET running == {w \in Threads : Busy(w) /\ ~ At(w, "wake")}
        keys == {task[w].key : w \in running} \cup {queue[i] : i \in DOMAIN queue}
    IN  /\ inFlight = keys
        /\ vaultsInFlight = {key[1] : key \in keys}
        /\ Cardinality(vaultsInFlight) = Cardinality(running) + Len(queue)

\* A document is announced once: no second POST for it is ever answered with
\* success, whatever retries, restarts, crashes and watcher replacements happen.
\* A POST whose answer is lost, or not recorded, is the exception the
\* documentation grants (README.md:626) and is not counted.
NoDuplicateAnnouncement == \A b \in Posts : answered[b] <= 1

\* A row is marked sent by the answer to its own announcement: a late answer of
\* an earlier generation never completes a recreated document
\* (delivery.py:204-216, state.py:315-316).
SentRowWasAnnounced ==
    \A v \in Vaults, p \in Paths :
        documents[v][p].status = "sent" => documents[v][p].postId = birth[v][p]

\* A document recorded as announced is not posted again, wherever its row has
\* been renamed to (README.md:620-621), although the records a pass submits were
\* read before the attempts it overlaps with ended.
NoRepostOfSent ==
    \A w \in Threads, v \in Vaults, p \in Paths :
        /\ Busy(w) /\ task[w].step \in {"file", "post", "answered"}
        /\ birth[v][p] = task[w].about
        => documents[v][p].status # "sent"

\* The scheduling thread sleeps and nobody is about to wake it.
SoundAsleep ==
    /\ pc = "asleep" /\ ~ signalled
    /\ owed = {} /\ \A w \in Threads : ~ At(w, "release") /\ ~ At(w, "wake")

\* While the scheduling thread sleeps, every vault that had a due document when
\* it last looked is being served: a busy or failing vault holds back no other.
NoIdleDueVault ==
    SoundAsleep =>
        \A v \in runtimes, p \in Paths :
            DueBy(documents[v][p], passNow) => v \in vaultsInFlight

\* No wakeup is lost: the scheduling thread never sleeps past the retry time of
\* a document it does not know of (delivery.py:105, 129-131: every change that
\* makes a row due earlier is followed by a wake the thread does not miss).
SleepCoversRetries ==
    SoundAsleep =>
        \A v \in runtimes, p \in Paths :
            Scheduled(documents[v][p]) =>
                planned # Never /\ planned <= documents[v][p].nextRetryAt

\* No document is posted before its quiet time is over, even when its row changed
\* after a thread had been given it: a first attempt is under way only for a
\* document whose first deadline has passed.
QuietTimeRespected ==
    \A w \in Threads :
        /\ Busy(w)
        /\ task[w].step \in {"file", "post", "answered"}
        /\ StillDue(RowOf(task[w].key), Generation(w))
        => LET row == RowOf(task[w].key) IN row.attemptCount > 0 \/ DueBy(row, now)

\* No document is posted before its time: what a thread is about to post, or has
\* posted and not recorded, is not inside its quiet time or its backoff, and is
\* not blocked, even when the row changed after the thread had been given it.
BackoffRespected ==
    \A w \in Threads :
        /\ Busy(w)
        /\ task[w].step \in {"file", "post", "answered"}
        /\ StillDue(RowOf(task[w].key), Generation(w))
        => DueBy(RowOf(task[w].key), now)

\* A starting process opens the database, and in the end resumes what is pending.
Resumes == <<service, service'>> \in {<<"down", "starting">>, <<"starting", "up">>}

\* A thread records that its attempt at the document of this row has failed.
FailureRecorded(v, p) ==
    \E w \in Threads :
        /\ At(w, "post") /\ task'[w].step = "release"
        /\ task[w].key = <<v, p, documents[v][p].generation>>

\* A refused document stays blocked until the service restarts (README.md:624): no
\* scan, event, rename or maintenance, no success and no other document's failure
\* puts it back on the schedule.  One step of the running service can: a second
\* attempt at it, which a record read before the refusal has led to, and which
\* fails in a way that is to be retried (MCStaleBatch shows such an attempt).
RefusedStaysBlocked ==
    [][\A v \in Vaults, p \in Paths : LET row == documents[v][p] IN
        /\ row.status = "pending" /\ row.nextRetryAt = Never
        /\ documents'[v][p].generation = row.generation
        /\ documents'[v][p].nextRetryAt # Never
        => Resumes \/ FailureRecorded(v, p)
      ]_vars

-----------------------------------------------------------------------------
(* Liveness, under FairSpec.                                                *)

\* While the service is up no readable document stays scheduled for ever: it is
\* announced, or refused, or found to be missing.
NoDocumentWaitsForever ==
    \A v \in Vaults, p \in Paths \ Unreadable :
        []<> ~ (service = "up" /\ v \in runtimes /\ Scheduled(documents[v][p]))

\* A stop that was asked for comes to its end, whatever the threads were doing.
StopTerminates == service = "stopping" ~> service = "down"
=============================================================================
