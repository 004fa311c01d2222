--------------------------- MODULE DeliveryWorker ---------------------------
(***************************************************************************)
(* delivery.py: the scheduling thread (_run) that hands due documents to a *)
(* pool of posting threads (_attempt_and_release), over the rows of the    *)
(* StateStore.  A step of a thread here ends where another thread can      *)
(* interfere: at a store transaction, the condition lock, the executor's   *)
(* queue or the POST.                                                      *)
(*                                                                         *)
(* The counter _generation is only compared with the value observed at the *)
(* top of the loop, so one bit is kept: signalled, "the two differ".       *)
(*                                                                         *)
(* Two history variables serve the properties.  An announcement <<v, p, n>>*)
(* is the n-th document that became pending at path p; birth follows the   *)
(* row it belongs to through renames, and the post id a POST returns is    *)
(* the announcement whose message it carried.                              *)
(***************************************************************************)
EXTENDS StateStore

CONSTANTS
    BatchLimit,   \* limit of due_pending (100)
    Threads,      \* posting threads (max_workers = 4 of them)
    Unreadable,   \* paths whose front matter makes document_title raise
    MaxBirths,    \* bound: documents that become pending at one path
    FaultKinds,   \* the kinds of faults that may occur
    MaxFaults     \* bound: how many faults may occur

ASSUME WorkerAssumption ==
    /\ BatchLimit \in Nat \ {0}
    /\ IsFiniteSet(Threads) /\ IsFiniteSet(Vaults) /\ IsFiniteSet(Paths)
    /\ Unreadable \subseteq Paths
    /\ MaxFaults \in Nat /\ MaxBirths \in Nat
    /\ Posts = Vaults \X Paths \X (1..MaxBirths)

VARIABLES
    runtimes,       \* vaults the service delivers for: what targets() returns
    stopping,       \* _stopping
    pc,             \* where the scheduling thread is
    signalled,      \* _generation # observed_generation
    batch,          \* due: the records of this pass not yet submitted
    passNow,        \* the clock reading this pass queried with
    planned,        \* next_retry, from which the pass computes its timeout
    inFlight,       \* _in_flight
    vaultsInFlight, \* _vaults_in_flight
    queue,          \* keys in the executor's queue
    task,           \* what each posting thread is doing
    birth,          \* history: the announcement a row stands for
    made,           \* history: how many announcements each path has had
    answered,       \* history: POSTs whose 2xx answer reached mark_sent, up to 2
    faults          \* how many faults have occurred

loopVars == <<pc, signalled, batch, passNow, planned>>
poolVars == <<inFlight, vaultsInFlight, queue, task>>
history == <<birth, made, answered>>
workerVars == <<runtimes, stopping, loopVars, poolVars, history, faults>>

Key == Vaults \X Paths \X Nat
Steps == {"file", "post", "answered", "release", "wake"}
Task == [key : Key, step : Steps, about : Posts \cup {NoPost}]
Idle == [step |-> "idle"]
Busy(w) == task[w] # Idle

WorkerTypeOK ==
    /\ runtimes \subseteq Vaults
    /\ stopping \in BOOLEAN
    /\ pc \in {"off", "top", "query", "submit", "wait", "asleep", "exited"}
    /\ signalled \in BOOLEAN
    /\ batch \in Seq(Key)
    /\ passNow \in Nat
    /\ planned \in Nat \cup {Never}
    /\ inFlight \subseteq Key
    /\ vaultsInFlight \subseteq Vaults
    /\ queue \in Seq(Key)
    /\ task \in [Threads -> Task \cup {Idle}]
    /\ birth \in [Vaults -> [Paths -> Posts \cup {NoPost}]]
    /\ made \in [Vaults -> [Paths -> 0..MaxBirths]]
    /\ answered \in [Posts -> 0..2]
    /\ faults \in 0..MaxFaults

\* A fresh process: no thread, no slot, nothing remembered.
ResetWorker ==
    /\ runtimes' = {}
    /\ stopping' = FALSE
    /\ pc' = "off"
    /\ signalled' = FALSE
    /\ batch' = <<>>
    /\ passNow' = 0
    /\ planned' = Never
    /\ inFlight' = {}
    /\ vaultsInFlight' = {}
    /\ queue' = <<>>
    /\ task' = [w \in Threads |-> Idle]

WorkerInit ==
    /\ runtimes = {}
    /\ stopping = FALSE
    /\ pc = "off"
    /\ signalled = FALSE
    /\ batch = <<>>
    /\ passNow = 0
    /\ planned = Never
    /\ inFlight = {}
    /\ vaultsInFlight = {}
    /\ queue = <<>>
    /\ task = [w \in Threads |-> Idle]
    /\ birth = [v \in Vaults |-> [p \in Paths |-> NoPost]]
    /\ made = [v \in Vaults |-> [p \in Paths |-> 0]]
    /\ answered = [b \in Posts |-> 0]
    /\ faults = 0

Fault(kind) ==
    /\ kind \in FaultKinds
    /\ faults < MaxFaults
    /\ faults' = faults + 1

-----------------------------------------------------------------------------
(* The scheduling thread.                                                   *)

Wake == signalled' = TRUE

\* Lines 102-105: leave, or observe the generation this pass answers.  The
\* locals of the previous pass are dead here.
Top ==
    /\ pc = "top"
    /\ IF stopping THEN pc' = "exited" /\ UNCHANGED signalled
                   ELSE pc' = "query" /\ signalled' = FALSE
    /\ passNow' = 0 /\ planned' = Never
    /\ UNCHANGED <<batch, poolVars, storeVars>>

\* Lines 107-109: the targets, the clock and the due records.
Query ==
    /\ pc = "query"
    /\ batch' \in DuePending(runtimes, now, BatchLimit)
    /\ passNow' = now
    /\ pc' = "submit"
    /\ UNCHANGED <<signalled, planned, poolVars, storeVars>>

\* Slip: one attempt at a time for all the vaults.
FreeIfNothingInFlight(key) == ~ stopping /\ inFlight = {}

\* _submit, lines 135-147: one document of a vault at a time.
Free(key) == ~ stopping /\ key \notin inFlight /\ key[1] \notin vaultsInFlight

\* Lines 110-115 for the next record of the pass.
Submit ==
    /\ pc = "submit" /\ batch # <<>>
    /\ IF stopping
       THEN pc' = "exited" /\ UNCHANGED <<batch, poolVars>>
       ELSE LET key == Head(batch) IN
            /\ batch' = Tail(batch)
            /\ IF Free(key)
               THEN /\ inFlight' = inFlight \cup {key}
                    /\ vaultsInFlight' = vaultsInFlight \cup {key[1]}
                    /\ queue' = Append(queue, key)
               ELSE UNCHANGED <<inFlight, vaultsInFlight, queue>>
            /\ UNCHANGED <<pc, task>>
    /\ UNCHANGED <<signalled, passNow, planned, storeVars>>

\* Lines 117-124: how long the thread may sleep.
Plan ==
    /\ pc = "submit" /\ batch = <<>>
    /\ planned' = NextRetryTime(runtimes)
    /\ pc' = "wait"
    /\ UNCHANGED <<signalled, batch, passNow, poolVars, storeVars>>

\* Slip: no comparison with observed_generation, so that a notification sent
\* before the wait is lost.
WaitUnconditionally ==
    /\ pc = "wait"
    /\ pc' = IF stopping THEN "exited" ELSE "asleep"
    /\ signalled' = FALSE
    /\ UNCHANGED <<batch, passNow, planned, poolVars, storeVars>>

\* Lines 126-131, under the condition lock: leave, go round, or sleep.
Wait ==
    /\ pc = "wait"
    /\ pc' = IF stopping THEN "exited" ELSE IF signalled THEN "top" ELSE "asleep"
    /\ UNCHANGED <<signalled, batch, passNow, planned, poolVars, storeVars>>

\* The wait ends by notify_all, at the planned time, or after 60 seconds: with
\* that cap it may end at any moment, and it always ends.
WakeUp ==
    /\ pc = "asleep"
    /\ pc' = "top"
    /\ UNCHANGED <<signalled, batch, passNow, planned, poolVars, storeVars>>

Scheduling == Top \/ Query \/ Submit \/ Plan \/ Wait \/ WakeUp

SchedulerStep ==
    /\ Scheduling
    /\ UNCHANGED <<runtimes, stopping, history, faults>>

\* An exception out of due_pending or next_retry_time ends the thread.
SchedulerDies ==
    /\ pc \in {"query", "submit"}
    /\ Fault("query")
    /\ pc' = "exited"
    /\ UNCHANGED <<runtimes, stopping, signalled, batch, passNow, planned,
                   poolVars, history, storeVars>>

-----------------------------------------------------------------------------
(* The posting threads.                                                     *)

Goto(w, step) == task' = [task EXCEPT ![w].step = step]

At(w, step) == task[w].step = step

\* The row a thread's key names.
Vault(w) == task[w].key[1]
Path(w) == task[w].key[2]
Generation(w) == task[w].key[3]

\* Slip: does not look whether the document has been announced meanwhile.
StillThere(row, g) == row.present /\ row.generation = g

\* Lines 177-183: is the row still the one that was due?  Its next_retry_at is
\* not looked at.
StillDue(row, g) == Deliverable(row) /\ row.generation = g

\* What a thread knows when it has read the row of its key (lines 176-183).
Begun(key) ==
    [ key   |-> key,
      step  |-> IF StillDue(RowOf(key), key[3]) THEN "file" ELSE "release",
      about |-> birth[key[1]][key[2]] ]

\* Slip: what was queued is left alone once the worker is stopping.
TakeUnlessStopping(w) ==
    /\ queue # <<>> /\ ~ Busy(w) /\ ~ stopping
    /\ queue' = Tail(queue)
    /\ task' = [task EXCEPT ![w] = Begun(Head(queue))]
    /\ UNCHANGED <<inFlight, vaultsInFlight, loopVars, history, faults, storeVars>>

\* A thread without a task takes the oldest one from the executor's queue and
\* reads its row; nobody can tell the two apart.  A stop does not cancel what is
\* queued (line 92).
Take(w) ==
    /\ queue # <<>> /\ ~ Busy(w)
    /\ queue' = Tail(queue)
    /\ task' = [task EXCEPT ![w] = Begun(Head(queue))]
    /\ UNCHANGED <<inFlight, vaultsInFlight, loopVars, history, faults, storeVars>>

\* Lines 185-188: is_file is false and the row is marked, whatever it is now.
FileGone(w) ==
    /\ At(w, "file")
    /\ MarkMissing(Vault(w), Path(w))
    /\ Goto(w, "release")
    /\ UNCHANGED <<history, faults>>

\* Lines 185-194: the file is there; an unreadable title raises.
FileThere(w) ==
    /\ At(w, "file")
    /\ Goto(w, IF Path(w) \in Unreadable THEN "release" ELSE "post")
    /\ UNCHANGED <<history, faults, storeVars>>

\* Lines 195-196: the POST is answered with the id of the created post.
PostAnswered(w) ==
    /\ At(w, "post")
    /\ Goto(w, "answered")
    /\ UNCHANGED <<history, faults, storeVars>>

\* Lines 204-216.
RecordSent(w) ==
    /\ At(w, "answered")
    /\ MarkSent(Vault(w), Path(w), Generation(w), task[w].about)
    /\ answered' = [answered EXCEPT ![task[w].about] = IF @ = 0 THEN 1 ELSE 2]
    /\ Goto(w, "release")
    /\ UNCHANGED <<birth, made, faults>>

\* The time the RetryPolicy gives; a refused document is given none.
RetryTimes(outcome) == IF outcome = "refused" THEN {Never} ELSE Deadlines

\* Lines 197-202 with _record_failure and _record_unknown_failure.  Unanswered is
\* every error to be retried (a lost connection, a timeout, 408, 429, 5xx), and the
\* server may have created the post all the same; refused is every other
\* MattermostRequestError.
PostFails(w) ==
    /\ At(w, "post")
    /\ \E outcome \in {"unanswered", "refused"} :
          /\ Fault(outcome)
          /\ \E at \in RetryTimes(outcome) :
                MarkDeliveryFailure(Vault(w), Path(w), Generation(w), at)
    /\ Goto(w, "release")
    /\ UNCHANGED history

\* An exception of the store, swallowed at lines 162-168: the outcome of the
\* attempt is not recorded.
TaskRaises(w) ==
    /\ task[w].step \in {"file", "post", "answered"}
    /\ Fault("storage")
    /\ Goto(w, "release")
    /\ UNCHANGED <<history, storeVars>>

Attempt(w) ==
    /\ \/ FileGone(w) \/ FileThere(w)
       \/ PostAnswered(w) \/ RecordSent(w) \/ PostFails(w) \/ TaskRaises(w)
    /\ UNCHANGED <<inFlight, vaultsInFlight, queue, loopVars>>

\* Slip: the vault stays taken.
ReleaseKeyOnly(w) ==
    /\ At(w, "release")
    /\ inFlight' = inFlight \ {task[w].key}
    /\ Goto(w, "wake")
    /\ UNCHANGED <<vaultsInFlight, queue, loopVars, history, faults, storeVars>>

\* Lines 170-172.
Release(w) ==
    /\ At(w, "release")
    /\ inFlight' = inFlight \ {task[w].key}
    /\ vaultsInFlight' = vaultsInFlight \ {Vault(w)}
    /\ Goto(w, "wake")
    /\ UNCHANGED <<queue, loopVars, history, faults, storeVars>>

\* Line 173; the thread is then free for another task.
WakeScheduler(w) ==
    /\ At(w, "wake")
    /\ Wake
    /\ task' = [task EXCEPT ![w] = Idle]
    /\ UNCHANGED <<inFlight, vaultsInFlight, queue, pc, batch, passNow, planned,
                   history, faults, storeVars>>

TaskStep(w) == Attempt(w) \/ Release(w) \/ WakeScheduler(w)

PoolStep ==
    /\ \E w \in Threads : Take(w) \/ TaskStep(w)
    /\ UNCHANGED <<runtimes, stopping>>
=============================================================================
