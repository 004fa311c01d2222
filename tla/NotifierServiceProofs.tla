------------------------ MODULE NotifierServiceProofs ------------------------
(***************************************************************************)
(* What the runs of NotifierService check on one or two documents, for any *)
(* number of vaults, documents and posting threads: the running service    *)
(* does to the database what StateStore allows, so that the theorems about *)
(* the store hold of it; its types; and the slots of the worker.           *)
(***************************************************************************)
EXTENDS NotifierService, StateStoreProofs, FiniteSetTheorems, SequenceTheorems

\* The keys of rows that exist.
Keys == Vaults \X Paths \X (1..MaxGeneration)

\* A thread between reading its row and recording the outcome.
Active(w) == Busy(w) /\ task[w].step \in {"file", "post", "answered"}

\* What is handed from the database to the threads are keys of rows.
Keyed ==
    /\ batch \in Seq(Keys)
    /\ queue \in Seq(Keys)
    /\ \A w \in Threads : Busy(w) => task[w].key \in Keys

\* A pending document has an announcement, of its own vault.
Announceable ==
    \A v \in Vaults, p \in Paths :
        /\ documents[v][p].status = "pending" => birth[v][p] # NoPost
        /\ birth[v][p] # NoPost => birth[v][p][1] = v

\* What a thread is about to post is an announcement of its vault.
TasksAnnounce ==
    \A w \in Threads :
        Active(w) => task[w].about # NoPost /\ task[w].about[1] = Vault(w)

\* The inductive invariant.
ServiceInv ==
    /\ StoreInv
    /\ TypeOK
    /\ Bounded
    /\ Keyed
    /\ Announceable
    /\ TasksAnnounce

-----------------------------------------------------------------------------
(* Facts about the constants and the tasks.                                 *)

\* No post is NULL, and a post names its vault, path and number.
LEMMA PostsAreTriples ==
  /\ NoPost \notin Posts
  /\ \A v \in Vaults, p \in Paths, n \in 1..MaxBirths : <<v, p, n>> \in Posts
  /\ \A b \in Posts : /\ b = <<b[1], b[2], b[3]>>
                      /\ b[1] \in Vaults /\ b[2] \in Paths /\ b[3] \in 1..MaxBirths
  BY NullsAssumption, WorkerAssumption

\* A thread without a task has none of the steps.
LEMMA IdleIsNoTask ==
  /\ Idle \notin Task
  /\ \A t \in Task \cup {Idle} : t.step \in Steps <=> t \in Task
  BY DEF Idle, Task, Steps

\* The keys of the bounded births are keys.
LEMMA KeysAreKeys == Keys \subseteq Key
  BY BoundsAssumption DEF Keys, Key

\* A thread that goes on to another step keeps its key and its announcement, and
\* the others are left alone.
LEMMA StepOfTask ==
  ASSUME task \in [Threads -> Task \cup {Idle}], NEW w \in Threads,
         task[w].step \in Steps, NEW step \in Steps, Goto(w, step)
  PROVE  /\ task' \in [Threads -> Task \cup {Idle}]
         /\ task'[w] \in Task
         /\ task'[w].step = step
         /\ task'[w].key = task[w].key
         /\ task'[w].about = task[w].about
         /\ \A x \in Threads \ {w} : task'[x] = task[x]
<1>1. task[w] \in Task
  BY IdleIsNoTask
<1>2. task' = [task EXCEPT ![w] = [task[w] EXCEPT !.step = step]]
  BY DEF Goto
<1>3. [task[w] EXCEPT !.step = step] \in Task
  BY <1>1 DEF Task
<1> QED
  BY <1>1, <1>2, <1>3 DEF Task

-----------------------------------------------------------------------------
(* Every step of the service is a step of the store, or none.               *)

\* The thread that has read its row names a row that exists and a post.
LEMMA ActiveNames ==
  ASSUME TypeOK, Keyed, TasksAnnounce, NEW w \in Threads, Active(w)
  PROVE  /\ task[w] \in Task
         /\ Vault(w) \in Vaults /\ Path(w) \in Paths
         /\ Generation(w) \in 1..MaxGeneration
         /\ task[w].about \in Posts
<1>1. task[w] \in Task
  BY IdleIsNoTask DEF TypeOK, WorkerTypeOK, Active, Busy
<1>2. task[w].key \in Keys /\ task[w].about \in Posts
  BY <1>1 DEF Keyed, TasksAnnounce, Active, Task
<1> QED
  BY <1>1, <1>2 DEF Keys, Vault, Path, Generation

\* A step of a thread is a step of the store, or none.
LEMMA TaskStepOnStore ==
  ASSUME TypeOK, Keyed, TasksAnnounce, NEW w \in Threads, Take(w) \/ TaskStep(w)
  PROVE  StoreStep \/ UNCHANGED storeVars
<1>0. task[w].step \in {"file", "post", "answered"} => Active(w)
  BY DEF Active, Busy, Idle
<1>1. CASE FileGone(w)
  <2>1. Active(w) /\ MarkMissing(Vault(w), Path(w))
    BY <1>0, <1>1 DEF FileGone, At
  <2> QED
    BY <2>1, ActiveNames DEF StoreStep
<1>2. CASE RecordSent(w)
  <2>1. Active(w) /\ MarkSent(Vault(w), Path(w), Generation(w), task[w].about)
    BY <1>0, <1>2 DEF RecordSent, At
  <2> QED
    BY <2>1, ActiveNames DEF StoreStep
<1>3. CASE PostFails(w)
  <2>1. Active(w)
    BY <1>0, <1>3 DEF PostFails, At
  <2>2. PICK at \in Deadlines \cup {Never} :
                MarkDeliveryFailure(Vault(w), Path(w), Generation(w), at)
    BY <1>3 DEF PostFails, RetryTimes
  <2> QED
    BY <2>1, <2>2, ActiveNames DEF StoreStep
<1>4. CASE Take(w) \/ FileThere(w) \/ PostAnswered(w) \/ TaskRaises(w) \/ Release(w)
             \/ WakeScheduler(w)
  BY <1>4 DEF Take, FileThere, PostAnswered, TaskRaises, Release, WakeScheduler
<1> QED
  BY <1>1, <1>2, <1>3, <1>4 DEF TaskStep, Attempt

\* A scan is a reconcile of its vault.
LEMMA ScanOnStore == ASSUME NEW v \in Vaults, Scan(v) PROVE StoreStep
  BY DEF Scan, StoreStep

\* Starting, watching, maintaining, delivering, stopping and crashing do to the
\* database only what an operation of StateStore does.
LEMMA StepOnStore ==
  ASSUME TypeOK, Keyed, TasksAnnounce, Next
  PROVE  StoreNext \/ UNCHANGED storeVars
<1> SUFFICES StoreStep \/ UNCHANGED storeVars
  BY DEF Next, Bounded, StoreNext
<1>1. CASE Boot
  BY <1>1 DEF Boot, StoreStep
<1>2. ASSUME NEW v \in Vaults, StartVault(v) \/ RetryVault(v) \/ RestartWatcher(v)
      PROVE  StoreStep
  BY <1>2, ScanOnStore DEF StartVault, RetryVault, RestartWatcher, Bring
<1>3. ASSUME NEW v \in Vaults, StartVaultFails(v) \/ RetryVaultFails(v)
      PROVE  StoreStep \/ UNCHANGED storeVars
  BY <1>3, ScanOnStore DEF StartVaultFails, RetryVaultFails, FailToBring
<1>4. CASE StartWorker
  BY <1>4 DEF StartWorker, StoreStep
<1>5. ASSUME NEW v \in Vaults, NEW p \in Paths, OnStableFile(v, p) \/ OnMissing(v, p)
      PROVE  StoreStep
  BY <1>5 DEF OnStableFile, OnMissing, StoreStep
<1>6. ASSUME NEW v \in Vaults, NEW move \in Renames, OnMoved(v, move[1], move[2])
      PROVE  StoreStep
  <2>1. move[1] \in Paths /\ move[2] \in Paths
    BY RenamesAssumption
  <2> QED
    BY <1>6, <2>1 DEF OnMoved, StoreStep
<1>7. CASE PoolStep
  BY <1>7, TaskStepOnStore DEF PoolStep
<1>8. CASE SchedulerStep \/ SchedulerDies
  BY <1>8 DEF SchedulerStep, SchedulerDies, Scheduling, Top, Query, Submit, Plan, Wait, WakeUp
<1>9. CASE NothingToStart \/ CallerWakes \/ Stop \/ Stopped \/ Crash
  BY <1>9 DEF NothingToStart, CallerWakes, Stop, Stopped, Crash
<1>10. CASE Clock
  BY <1>10 DEF Clock, StoreStep
<1> QED
  BY <1>1, <1>2, <1>3, <1>4, <1>5, <1>6, <1>7, <1>8, <1>9, <1>10
  DEF Next, Step, Starting, Events, Maintenance, Delivering

-----------------------------------------------------------------------------
(* The queries of the worker (state.py:377-411).                            *)

\* Due rows are finitely many, and their keys are keys of rows.
LEMMA DueKeysAreKeys ==
  ASSUME StoreInv, WithinBounds, NEW names \in SUBSET Vaults, NEW at
  PROVE  IsFiniteSet(DueKeys(names, at)) /\ DueKeys(names, at) \subseteq Keys
<1> DEFINE due == {y \in names \X Paths : DueBy(RowOf(y), at)}
           key == [x \in due |-> <<x[1], x[2], RowOf(x).generation>>]
<1>1. IsFiniteSet(due)
  <2>1. IsFiniteSet(Vaults \X Paths)
    BY WorkerAssumption, FS_Product
  <2> QED
    BY <2>1, FS_Subset
<1>2. key \in Surjection(due, DueKeys(names, at))
  BY DEF Surjection, DueKeys
<1>3. ASSUME NEW x \in due PROVE RowOf(x).generation \in 1..MaxGeneration
  <2>1. x[1] \in Vaults /\ x[2] \in Paths /\ RowOf(x).status = "pending"
    BY DEF DueBy, Scheduled, Deliverable
  <2>2. GoodRow(RowOf(x)) /\ RowOf(x).generation <= MaxGeneration
    BY <2>1 DEF StoreInv, WithinBounds, RowOf
  <2> QED
    BY <2>1, <2>2, BoundsAssumption DEF GoodRow, Row
<1> QED
  BY <1>1, <1>2, <1>3, FS_Surjection DEF DueKeys, Keys

\* A batch has a record of the row.
Records(due, key) == \E i \in DOMAIN due : due[i] = key

\* The batch of a pass consists of due keys, and of all of them unless they are
\* more than the limit.
LEMMA BatchOfPass ==
  ASSUME StoreInv, WithinBounds, NEW names \in SUBSET Vaults, NEW at, NEW limit \in Nat,
         NEW due \in DuePending(names, at, limit)
  PROVE  /\ due \in Seq(Keys)
         /\ \A i \in DOMAIN due : due[i] \in DueKeys(names, at)
         /\ Cardinality(DueKeys(names, at)) <= limit
              => \A key \in DueKeys(names, at) : Records(due, key)
<1> DEFINE keys == DueKeys(names, at)
           size == Cardinality(keys)
           cut == IF size < limit THEN size ELSE limit
<1>1. IsFiniteSet(keys) /\ keys \subseteq Keys /\ size \in Nat
  BY DueKeysAreKeys, FS_CardinalityType
<1>2. PICK s \in [1..size -> keys] :
         /\ \A i, j \in 1..size : i < j => s[i] # s[j]
         /\ due = SubSeq(s, 1, cut)
  BY DEF DuePending
<1>3. cut \in Nat /\ cut <= size
  BY <1>1
<1>4. /\ due \in Seq(keys)
      /\ Len(due) = cut
      /\ \A i \in 1..cut : due[i] = s[i]
  <2>1. \A i \in 1..cut : s[i] \in keys
    BY <1>1, <1>2, <1>3
  <2> HIDE DEF keys, size, cut
  <2> QED
    BY <1>2, <1>3, <2>1, SubSeqProperties
<1>5. due \in Seq(Keys) /\ \A i \in DOMAIN due : due[i] \in keys
  BY <1>1, <1>4, SeqMonotonic, ElementOfSeq, LenProperties
<1>6. ASSUME size <= limit, NEW key \in keys PROVE Records(due, key)
  <2>1. cut = size
    BY <1>1, <1>6
  <2>2. s \in Injection(1..size, keys)
    BY <1>1, <1>2 DEF Injection, IsInjective
  <2>3. Cardinality(1..size) = size
    BY <1>1, FS_Interval
  <2>4. s \in Surjection(1..size, keys)
    BY <1>1, <2>2, <2>3, FS_Injection
  <2>5. PICK i \in 1..size : s[i] = key
    BY <2>4 DEF Surjection
  <2>6. DOMAIN due = 1..size
    BY <1>4, <2>1, LenProperties
  <2> QED
    BY <1>4, <2>1, <2>5, <2>6 DEF Records
<1> QED
  BY <1>5, <1>6

-----------------------------------------------------------------------------
(* Which steps change what.                                                 *)

\* Only a pass of the scheduling thread, the posting threads and the end of the
\* process touch the batch and the pool.
LEMMA PoolChanges ==
  ASSUME Next
  PROVE  \/ UNCHANGED <<batch, poolVars>>
         \/ Query \/ Submit \/ ResetWorker
         \/ \E w \in Threads : Take(w) \/ TaskStep(w)
<1>1. CASE Starting
  BY <1>1 DEF Starting, Boot, StartWorker, NothingToStart, StartVault, StartVaultFails,
              Bring, FailToBring, workerVars, loopVars
<1>2. CASE Events \/ CallerWakes
  BY <1>2 DEF Events, OnStableFile, OnMissing, OnMoved, CallerWakes, workerVars, loopVars
<1>3. CASE Maintenance
  BY <1>3 DEF Maintenance, RetryVault, RetryVaultFails, RestartWatcher, Bring, FailToBring,
              loopVars
<1>4. CASE SchedulerStep \/ SchedulerDies
  BY <1>4 DEF SchedulerStep, SchedulerDies, Scheduling, Top, Plan, Wait, WakeUp
<1>5. CASE PoolStep
  BY <1>5 DEF PoolStep
<1>6. CASE Stop \/ Stopped \/ Crash \/ Clock
  BY <1>6 DEF Stop, Stopped, Crash, Clock, workerVars, loopVars
<1> QED
  BY <1>1, <1>2, <1>3, <1>4, <1>5, <1>6 DEF Next, Step, Delivering

\* What a posting thread does to its task.
LEMMA TaskStepOfThread ==
  ASSUME TypeOK, NEW w \in Threads, TaskStep(w)
  PROVE  /\ task[w] \in Task
         /\ \/ task'[w] = Idle
            \/ /\ task'[w] \in Task
               /\ task'[w].key = task[w].key /\ task'[w].about = task[w].about
               /\ task'[w].step \in {"post", "answered"} => Active(w)
               /\ task'[w].step # "file"
         /\ \A x \in Threads \ {w} : task'[x] = task[x]
         /\ task' \in [Threads -> Task \cup {Idle}]
         /\ batch' = batch /\ queue' = queue
<1>0. task \in [Threads -> Task \cup {Idle}]
  BY DEF TypeOK, WorkerTypeOK
<1>1. CASE WakeScheduler(w)
  <2>1. task[w].step = "wake" /\ task' = [task EXCEPT ![w] = Idle] /\ "wake" \in Steps
    BY <1>1 DEF WakeScheduler, At, Steps
  <2> QED
    BY <1>0, <1>1, <2>1, IdleIsNoTask DEF WakeScheduler
<1>2. CASE ~ WakeScheduler(w)
  <2>1. /\ task[w].step \in Steps \ {"wake"}
        /\ \E step \in Steps : /\ Goto(w, step) /\ step # "file"
                               /\ step \in {"post", "answered"} =>
                                    task[w].step \in {"file", "post", "answered"}
        /\ batch' = batch /\ queue' = queue
    BY <1>2 DEF TaskStep, Attempt, Release, FileGone, FileThere, PostAnswered, RecordSent,
                PostFails, TaskRaises, At, Steps, loopVars
  <2>2. PICK step \in Steps : /\ Goto(w, step) /\ step # "file"
                              /\ step \in {"post", "answered"} =>
                                    task[w].step \in {"file", "post", "answered"}
    BY <2>1
  <2>3. task[w] \in Task /\ Busy(w)
    BY <1>0, <2>1, IdleIsNoTask DEF Busy
  <2> QED
    BY <1>0, <2>1, <2>2, <2>3, StepOfTask DEF Active
<1> QED
  BY <1>1, <1>2

\* Keys are handed on as they are.
LEMMA KeyedKept == ASSUME ServiceInv, Next PROVE Keyed'
<1>0. /\ batch \in Seq(Keys) /\ queue \in Seq(Keys) /\ runtimes \in SUBSET Vaults
      /\ task \in [Threads -> Task \cup {Idle}] /\ StoreInv /\ WithinBounds /\ TypeOK
      /\ \A w \in Threads : Busy(w) => task[w].key \in Keys
  BY DEF ServiceInv, Keyed, TypeOK, WorkerTypeOK, Bounded
<1>1. CASE UNCHANGED <<batch, poolVars>>
  BY <1>0, <1>1 DEF Keyed, poolVars, Busy
<1>2. CASE Query
  <2>1. batch' \in Seq(Keys)
    BY <1>0, <1>2, BatchOfPass, WorkerAssumption DEF Query
  <2> QED
    BY <1>0, <1>2, <2>1 DEF Keyed, Query, poolVars, Busy
<1>3. CASE Submit
  <2>0. batch # <<>> /\ task' = task
    BY <1>3 DEF Submit, poolVars
  <2>1. Head(batch) \in Keys /\ Tail(batch) \in Seq(Keys)
    BY <1>0, <2>0, HeadTailProperties
  <2>2. batch' \in Seq(Keys) /\ queue' \in {queue, Append(queue, Head(batch))}
    BY <1>0, <1>3, <2>1 DEF Submit, poolVars
  <2>3. Append(queue, Head(batch)) \in Seq(Keys)
    BY <1>0, <2>1, AppendProperties
  <2> QED
    BY <1>0, <2>0, <2>2, <2>3 DEF Keyed, Busy
<1>4. CASE ResetWorker
  <2>1. \A w \in Threads : task'[w] = Idle
    BY <1>4 DEF ResetWorker
  <2> QED
    BY <1>4, <2>1 DEF ResetWorker, Keyed, Busy
<1>5. ASSUME NEW w \in Threads, Take(w) PROVE Keyed'
  <2>0. queue # <<>> /\ batch' = batch /\ queue' = Tail(queue)
        /\ task' = [task EXCEPT ![w] = Begun(Head(queue))]
    BY <1>5 DEF Take, loopVars
  <2>1. Head(queue) \in Keys /\ Tail(queue) \in Seq(Keys)
    BY <1>0, <2>0, HeadTailProperties
  <2>2. task'[w].key \in Keys /\ \A x \in Threads \ {w} : task'[x] = task[x]
    BY <1>0, <2>0, <2>1 DEF Begun
  <2> QED
    BY <1>0, <2>0, <2>1, <2>2 DEF Keyed, Busy
<1>6. ASSUME NEW w \in Threads, TaskStep(w) PROVE Keyed'
  BY <1>0, <1>6, TaskStepOfThread DEF Keyed, Busy, Idle, Task
<1> QED
  BY <1>1, <1>2, <1>3, <1>4, <1>5, <1>6, PoolChanges

-----------------------------------------------------------------------------
(* How a step of the service changes a row, and its announcement.           *)

\* By a posting thread with the row of its key, by a start, or by a deletion: the
\* row stands for the same document as before.
RowServed(v, p) ==
    LET old == documents[v][p]
        new == documents'[v][p]
    IN  \/ new = old
        \/ new = Missing(old)
        \/ Resumes /\ new \in {Migrated(old), Resumed(old)}
        \/ \E w \in Threads :
              /\ Active(w) /\ Vault(w) = v /\ Path(w) = p
              /\ old.status = "pending" /\ old.generation = Generation(w)
              /\ \/ new = Sent(old, task[w].about) /\ At(w, "answered")
                 \/ At(w, "post") /\ \E at \in Nat \cup {Never} : new = Failed(old, at)
              /\ task'[w] # Idle /\ task'[w].step = "release"

\* By a scan or an observation: the row stands for the same document as before,
\* or for a new one.
RowScanned(v, p) ==
    LET old == documents[v][p]
        new == documents'[v][p]
    IN  \/ new = old
        \/ new = Missing(old)
        \/ ~ old.present /\ \E at \in Nat : new = Fresh(old, at)
        \/ v \notin vaults /\ new = BaselineRow

\* A scan of a vault treats each row like an observation.
LEMMA ScanRows ==
  ASSUME StoreTypeOK, NEW v \in Vaults, Scan(v)
  PROVE  Announced /\ \A u \in Vaults, p \in Paths : RowScanned(u, p)
<1>1. PICK found \in SUBSET Paths, at \in Deadlines : Reconcile(v, found, at)
  BY DEF Scan
<1>2. documents \in [Vaults -> [Paths -> Row]] /\ at \in Nat
  BY BoundsAssumption DEF StoreTypeOK, Deadlines
<1>3. ASSUME NEW u \in Vaults, NEW p \in Paths PROVE RowScanned(u, p)
  <2>1. CASE u # v
    BY <1>1, <1>2, <2>1 DEF Reconcile, RowScanned
  <2>2. CASE u = v
    <3>1. documents'[u][p] = ScanResult(v \in vaults, documents[v], found, at)[p]
      BY <1>1, <1>2, <2>2 DEF Reconcile
    <3> QED
      BY <1>2, <2>2, <3>1 DEF ScanResult, Reconciled, Observed, RowScanned
  <2> QED
    BY <2>1, <2>2
<1> QED
  BY <1>3 DEF Scan

\* A posting thread changes at most the row of its key.
LEMMA TaskStepRows ==
  ASSUME TypeOK, Keyed, TasksAnnounce, NEW w \in Threads, Take(w) \/ TaskStep(w)
  PROVE  /\ UNCHANGED <<birth, made>>
         /\ \A v \in Vaults, p \in Paths : RowServed(v, p)
<1>0. /\ documents \in [Vaults -> [Paths -> Row]]
      /\ task \in [Threads -> Task \cup {Idle}]
      /\ task[w].step \in {"file", "post", "answered"} => Active(w) /\ task[w].step \in Steps
      /\ "release" \in Steps
  BY DEF TypeOK, StoreTypeOK, WorkerTypeOK, Active, Busy, Idle, Steps
<1> DEFINE v == Vault(w)
           p == Path(w)
<1>1. CASE FileGone(w)
  <2>1. Active(w) /\ MarkMissing(v, p) /\ UNCHANGED history
    BY <1>0, <1>1 DEF FileGone, At
  <2>2. v \in Vaults /\ p \in Paths
    BY <2>1, ActiveNames
  <2> QED
    BY <1>0, <2>1, <2>2 DEF MarkMissing, RowServed, history
<1>2. CASE RecordSent(w)
  <2>1. /\ Active(w) /\ At(w, "answered") /\ Goto(w, "release")
        /\ MarkSent(v, p, Generation(w), task[w].about)
        /\ UNCHANGED <<birth, made>>
    BY <1>0, <1>2 DEF RecordSent, At
  <2>2. v \in Vaults /\ p \in Paths
    BY <2>1, ActiveNames
  <2>3. task'[w] # Idle /\ task'[w].step = "release"
    BY <1>0, <1>2, <2>1, StepOfTask, IdleIsNoTask DEF RecordSent, At
  <2>4. ASSUME NEW u \in Vaults, NEW q \in Paths PROVE RowServed(u, q)
    <3>1. CASE u = v /\ q = p /\ AcceptsSent(documents[v][p], Generation(w))
      <4>1. documents'[u][q] = Sent(documents[u][q], task[w].about)
        BY <1>0, <2>1, <2>2, <3>1 DEF MarkSent
      <4> QED
        BY <2>1, <2>3, <3>1, <4>1 DEF AcceptsSent, RowServed
    <3>2. CASE ~ (u = v /\ q = p /\ AcceptsSent(documents[v][p], Generation(w)))
      BY <1>0, <2>1, <2>2, <3>2 DEF MarkSent, RowServed
    <3> QED
      BY <3>1, <3>2
  <2> QED
    BY <2>1, <2>4
<1>3. CASE PostFails(w)
  <2>1. Active(w) /\ At(w, "post") /\ Goto(w, "release") /\ UNCHANGED history
    BY <1>0, <1>3 DEF PostFails, At
  <2>2. PICK at \in Deadlines \cup {Never} : MarkDeliveryFailure(v, p, Generation(w), at)
    BY <1>3 DEF PostFails, RetryTimes
  <2>3. v \in Vaults /\ p \in Paths /\ at \in Nat \cup {Never}
    BY <2>1, <2>2, ActiveNames, BoundsAssumption DEF Deadlines, TypeOK, StoreTypeOK
  <2>4. task'[w] # Idle /\ task'[w].step = "release"
    BY <1>0, <1>3, <2>1, StepOfTask, IdleIsNoTask DEF PostFails, At
  <2>5. ASSUME NEW u \in Vaults, NEW q \in Paths PROVE RowServed(u, q)
    <3>1. CASE u = v /\ q = p /\ AcceptsFailure(documents[v][p], Generation(w))
      <4>1. documents'[u][q] = Failed(documents[u][q], at)
        BY <1>0, <2>2, <2>3, <3>1 DEF MarkDeliveryFailure
      <4> QED
        BY <2>1, <2>3, <2>4, <3>1, <4>1 DEF AcceptsFailure, AcceptsSent, RowServed
    <3>2. CASE ~ (u = v /\ q = p /\ AcceptsFailure(documents[v][p], Generation(w)))
      BY <1>0, <2>2, <2>3, <3>2 DEF MarkDeliveryFailure, RowServed
    <3> QED
      BY <3>1, <3>2
  <2> QED
    BY <2>1, <2>5 DEF history
<1>4. CASE Take(w) \/ FileThere(w) \/ PostAnswered(w) \/ TaskRaises(w) \/ Release(w)
             \/ WakeScheduler(w)
  BY <1>4 DEF Take, FileThere, PostAnswered, TaskRaises, Release, WakeScheduler,
              history, storeVars, RowServed
<1> QED
  BY <1>1, <1>2, <1>3, <1>4 DEF TaskStep, Attempt

\* Every step of the service changes the rows and the announcements in one of
\* three ways.
LEMMA RowsChange ==
  ASSUME TypeOK, Keyed, TasksAnnounce, Next
  PROVE  \/ UNCHANGED <<birth, made>> /\ \A v \in Vaults, p \in Paths : RowServed(v, p)
         \/ Announced /\ \A v \in Vaults, p \in Paths : RowScanned(v, p)
         \/ \E v \in Vaults, src, dst \in Paths :
               <<src, dst>> \in Renames /\ OnMoved(v, src, dst)
<1> DEFINE Served == UNCHANGED <<birth, made>> /\ \A v \in Vaults, p \in Paths : RowServed(v, p)
           Scanned == Announced /\ \A v \in Vaults, p \in Paths : RowScanned(v, p)
<1>0. StoreTypeOK /\ documents \in [Vaults -> [Paths -> Row]] /\ now \in Nat
  BY DEF TypeOK, StoreTypeOK
<1>u. UNCHANGED <<birth, made, documents>> => Served
  BY DEF RowServed
<1>1. CASE Boot
  <2>1. Resumes /\ Open /\ UNCHANGED <<birth, made>>
    BY <1>1 DEF Boot, Resumes, workerVars, history
  <2> QED
    BY <2>1 DEF Open, RowServed
<1>2. ASSUME NEW v \in Vaults, StartVault(v) \/ RetryVault(v) \/ RestartWatcher(v)
      PROVE  Scanned
  BY <1>0, <1>2, ScanRows DEF StartVault, RetryVault, RestartWatcher, Bring
<1>3. ASSUME NEW v \in Vaults, StartVaultFails(v) \/ RetryVaultFails(v)
      PROVE  Served \/ Scanned
  BY <1>0, <1>3, <1>u, ScanRows
  DEF StartVaultFails, RetryVaultFails, FailToBring, history, storeVars
<1>4. CASE StartWorker
  <2>1. Resumes /\ ResumePending /\ UNCHANGED <<birth, made>>
    BY <1>4 DEF StartWorker, Resumes, history
  <2> QED
    BY <2>1 DEF ResumePending, RowServed
<1>5. ASSUME NEW v \in Vaults, NEW p \in Paths, OnStableFile(v, p) PROVE Scanned
  <2>1. Announced /\ ObserveNew(v, p)
    BY <1>5 DEF OnStableFile
  <2>2. ASSUME NEW u \in Vaults, NEW q \in Paths PROVE RowScanned(u, q)
    BY <1>0, <2>1 DEF ObserveNew, Observed, RowScanned
  <2> QED
    BY <2>1, <2>2
<1>6. ASSUME NEW v \in Vaults, NEW p \in Paths, OnMissing(v, p) PROVE Served
  <2>1. UNCHANGED <<birth, made>> /\ MarkMissing(v, p)
    BY <1>6 DEF OnMissing, workerVars, history
  <2> QED
    BY <1>0, <2>1 DEF MarkMissing, RowServed
<1>7. ASSUME NEW v \in Vaults, NEW move \in Renames, OnMoved(v, move[1], move[2])
      PROVE  \E src, dst \in Paths : <<src, dst>> \in Renames /\ OnMoved(v, src, dst)
  <2>1. move = <<move[1], move[2]>> /\ move[1] \in Paths /\ move[2] \in Paths
    BY RenamesAssumption
  <2> QED
    BY <1>7, <2>1
<1>8. CASE PoolStep
  BY <1>8, TaskStepRows DEF PoolStep
<1>9. CASE SchedulerStep \/ SchedulerDies
  <2>1. UNCHANGED <<birth, made, documents>>
    BY <1>9 DEF SchedulerStep, SchedulerDies, Scheduling, Top, Query, Submit, Plan, Wait,
                WakeUp, history, storeVars
  <2> QED
    BY <1>u, <2>1
<1>10. CASE NothingToStart \/ CallerWakes \/ Stop \/ Stopped \/ Crash \/ Clock
  <2>1. UNCHANGED <<birth, made, documents>>
    BY <1>10 DEF NothingToStart, CallerWakes, Stop, Stopped, Crash, Clock, Tick,
                 workerVars, history, storeVars
  <2> QED
    BY <1>u, <2>1
<1> QED
  BY <1>1, <1>2, <1>3, <1>4, <1>5, <1>6, <1>7, <1>8, <1>9, <1>10
  DEF Next, Step, Starting, Events, Maintenance, Delivering

-----------------------------------------------------------------------------
(* The announcements.                                                       *)

\* A scan numbers the new documents of each path; the numbers are posts.
LEMMA NewAnnouncements ==
  ASSUME TypeOK, Bounded', Announced, NEW v \in Vaults, NEW p \in Paths
  PROVE  /\ Born(v, p) => /\ birth'[v][p] = <<v, p, made[v][p] + 1>>
                          /\ birth'[v][p] \in Posts
                          /\ made'[v][p] = made[v][p] + 1
         /\ ~ Born(v, p) => /\ birth'[v][p] = birth[v][p]
                            /\ made'[v][p] = made[v][p]
         /\ made'[v][p] \in 0..MaxBirths
<1>1. made[v][p] \in 0..MaxBirths /\ MaxBirths \in Nat
  BY WorkerAssumption DEF TypeOK, WorkerTypeOK
<1>2. made'[v][p] = IF Born(v, p) THEN made[v][p] + 1 ELSE made[v][p]
  BY DEF Announced
<1>3. birth'[v][p] = IF Born(v, p) THEN <<v, p, made'[v][p]>> ELSE birth[v][p]
  BY DEF Announced
<1>4. made'[v][p] <= MaxBirths
  BY DEF Bounded
<1>5. Born(v, p) => made'[v][p] = made[v][p] + 1 /\ made'[v][p] \in 1..MaxBirths
  BY <1>1, <1>2, <1>4
<1> HIDE DEF Born
<1> QED
  BY <1>1, <1>2, <1>3, <1>5, PostsAreTriples

\* What an observation that is no birth leaves of a row: its document, if it has
\* one.
LEMMA ScannedRow ==
  ASSUME TypeOK, NEW v \in Vaults, NEW p \in Paths, RowScanned(v, p)
  PROVE  /\ Born(v, p) => /\ documents'[v][p].status = "pending"
                          /\ documents'[v][p].generation = documents[v][p].generation + 1
                          /\ ~ documents[v][p].present
         /\ ~ Born(v, p) => \/ documents'[v][p] = documents[v][p]
                            \/ documents'[v][p] = Missing(documents[v][p])
                            \/ v \notin vaults /\ documents'[v][p] = BaselineRow
<1>1. documents[v][p] \in Row
  BY DEF TypeOK, StoreTypeOK
<1>2. /\ Missing(documents[v][p]).generation = documents[v][p].generation
      /\ BaselineRow.status = "baseline"
      /\ \A at \in Nat : /\ Fresh(documents[v][p], at).status = "pending"
                         /\ Fresh(documents[v][p], at).generation = documents[v][p].generation + 1
                         /\ documents[v][p].generation + 1 # documents[v][p].generation
  BY <1>1 DEF Missing, BaselineRow, Fresh, Row
<1> QED
  BY <1>1, <1>2 DEF RowScanned, Born

\* Serving a row never makes it pending, nor sent but by the answer to a POST, and
\* keeps its generation.
LEMMA ServedRow ==
  ASSUME TypeOK, NEW v \in Vaults, NEW p \in Paths, RowServed(v, p)
  PROVE  /\ documents'[v][p].generation = documents[v][p].generation
         /\ documents'[v][p].status # documents[v][p].status =>
              /\ documents[v][p].status = "pending"
              /\ documents'[v][p].status = "sent"
<1> DEFINE old == documents[v][p]
           new == documents'[v][p]
<1>1. old \in Row
  BY DEF TypeOK, StoreTypeOK
<1>2. CASE new \in {old, Missing(old), Migrated(old), Resumed(old)}
  BY <1>1, <1>2 DEF Missing, Migrated, Resumed, Row
<1>3. ASSUME NEW post, new = Sent(old, post) PROVE new.generation = old.generation /\ new.status = "sent"
  BY <1>1, <1>3 DEF Sent, Row
<1>4. ASSUME NEW at, new = Failed(old, at)
      PROVE  new.generation = old.generation /\ new.status = old.status
  BY <1>1, <1>4 DEF Failed, Row
<1> HIDE DEF old, new
<1> QED
  BY <1>2, <1>3, <1>4 DEF RowServed, old, new

\* A rename swaps nothing: the destination takes over row and announcement, the
\* source is left with neither, and a source without a row changes nothing.
LEMMA RenamedRow ==
  ASSUME TypeOK, NEW v \in Vaults, NEW src \in Paths, NEW dst \in Paths,
         OnMoved(v, src, dst), NEW u \in Vaults, NEW p \in Paths
  PROVE  \/ documents'[u][p] = documents[u][p] /\ birth'[u][p] = birth[u][p]
         \/ u = v /\ p = src /\ documents'[u][p] = NoRow /\ birth'[u][p] = NoPost
         \/ /\ u = v /\ p = dst
            /\ documents'[u][p] = [documents[v][src] EXCEPT !.present = TRUE]
            /\ birth'[u][p] = birth[v][src]
<1>1. /\ documents \in [Vaults -> [Paths -> Row]]
      /\ birth \in [Vaults -> [Paths -> Posts \cup {NoPost}]]
  BY DEF TypeOK, StoreTypeOK, WorkerTypeOK
<1>2. documents' = [documents EXCEPT ![v] = MoveResult(documents[v], src, dst)]
  BY DEF OnMoved, MovePath
<1>3. CASE ~ Exists(documents[v][src])
  BY <1>1, <1>2, <1>3 DEF MoveResult, OnMoved
<1>4. CASE Exists(documents[v][src])
  <2>1. birth' = [birth EXCEPT ![v][src] = NoPost, ![v][dst] = birth[v][src]]
    BY <1>4 DEF OnMoved
  <2>2. documents'[v] = [documents[v] EXCEPT ![src] = NoRow,
                           ![dst] = [documents[v][src] EXCEPT !.present = TRUE]]
    BY <1>1, <1>2, <1>4 DEF MoveResult
  <2>3. u # v => documents'[u][p] = documents[u][p] /\ birth'[u][p] = birth[u][p]
    BY <1>1, <1>2, <2>1
  <2>4. CASE u = v /\ p = dst
    BY <1>1, <2>1, <2>2, <2>4
  <2>5. CASE u = v /\ p # dst
    BY <1>1, <2>1, <2>2, <2>5
  <2> QED
    BY <2>3, <2>4, <2>5
<1> QED
  BY <1>3, <1>4

\* A pending document keeps its announcement, and gets one when it becomes pending.
LEMMA AnnounceableKept == ASSUME ServiceInv, Next PROVE Announceable'
<1> SUFFICES ASSUME NEW v \in Vaults, NEW p \in Paths
             PROVE  /\ documents'[v][p].status = "pending" => birth'[v][p] # NoPost
                    /\ birth'[v][p] # NoPost => birth'[v][p][1] = v
  BY DEF Announceable
<1>0. TypeOK /\ Keyed /\ TasksAnnounce /\ Bounded' /\ documents[v][p] \in Row
  BY DEF ServiceInv, Next, TypeOK, StoreTypeOK
<1>a. ASSUME NEW q \in Paths
      PROVE  /\ documents[v][q].status = "pending" => birth[v][q] # NoPost
             /\ birth[v][q] # NoPost => birth[v][q][1] = v
  BY DEF ServiceInv, Announceable
<1>1. CASE UNCHANGED birth /\ RowServed(v, p)
  BY <1>0, <1>1, <1>a, ServedRow
<1>2. CASE Announced /\ RowScanned(v, p)
  <2>1. CASE Born(v, p)
    BY <1>0, <1>2, <2>1, NewAnnouncements, PostsAreTriples
  <2>2. CASE ~ Born(v, p)
    <3>1. birth'[v][p] = birth[v][p]
      BY <1>0, <1>2, <2>2, NewAnnouncements
    <3>2. \/ documents'[v][p] \in {documents[v][p], Missing(documents[v][p])}
          \/ documents'[v][p] = BaselineRow
      BY <1>0, <1>2, <2>2, ScannedRow
    <3>3. documents'[v][p].status = "pending" => documents[v][p].status = "pending"
      BY <1>0, <3>2 DEF Missing, BaselineRow, Row
    <3> QED
      BY <1>a, <3>1, <3>3
  <2> QED
    BY <2>1, <2>2
<1>3. ASSUME NEW u \in Vaults, NEW src \in Paths, NEW dst \in Paths, OnMoved(u, src, dst)
      PROVE  /\ documents'[v][p].status = "pending" => birth'[v][p] # NoPost
             /\ birth'[v][p] # NoPost => birth'[v][p][1] = v
  <2>1. documents[u][src] \in Row
    BY <1>0 DEF TypeOK, StoreTypeOK
  <2>2. \/ documents'[v][p] = documents[v][p] /\ birth'[v][p] = birth[v][p]
        \/ documents'[v][p] = NoRow /\ birth'[v][p] = NoPost
        \/ /\ u = v /\ birth'[v][p] = birth[u][src]
           /\ documents'[v][p] = [documents[u][src] EXCEPT !.present = TRUE]
    BY <1>0, <1>3, RenamedRow
  <2> QED
    BY <1>a, <2>1, <2>2 DEF NoRow, Row
<1> QED
  BY <1>0, <1>1, <1>2, <1>3, RowsChange

\* A thread that is between reading its row and recording the outcome was so
\* before, with the same key and announcement, or has just read the row.
LEMMA ActiveAfter ==
  ASSUME TypeOK, Keyed, Next, NEW w \in Threads, Active(w)'
  PROVE  \/ Active(w) /\ task'[w].key = task[w].key /\ task'[w].about = task[w].about
         \/ LET key == Head(queue) IN
            /\ Take(w) /\ key \in Keys
            /\ StillDue(RowOf(key), key[3])
            /\ task'[w].key = key /\ task'[w].about = birth[key[1]][key[2]]
<1>0. queue \in Seq(Keys) /\ task \in [Threads -> Task \cup {Idle}]
  BY DEF Keyed, TypeOK, WorkerTypeOK
<1>1. CASE task' = task
  BY <1>1 DEF Active, Busy
<1>2. CASE ResetWorker
  BY <1>2 DEF ResetWorker, Active, Busy
<1>3. CASE Take(w)
  <2> DEFINE key == Head(queue)
  <2>1. key \in Keys
    BY <1>0, <1>3, HeadTailProperties DEF Take
  <2>2. task'[w] = Begun(key)
    BY <1>0, <1>3 DEF Take
  <2> QED
    BY <1>3, <2>1, <2>2 DEF Begun, Active
<1>4. ASSUME NEW x \in Threads, TaskStep(x) \/ (Take(x) /\ x # w)
      PROVE  Active(w) /\ task'[w].key = task[w].key /\ task'[w].about = task[w].about
  <2>1. CASE x = w
    BY <1>0, <1>4, <2>1, TaskStepOfThread DEF Active, Busy
  <2>2. CASE x # w
    <3>1. task'[w] = task[w]
      BY <1>0, <1>4, <2>2, TaskStepOfThread DEF Take
    <3> QED
      BY <3>1 DEF Active, Busy
  <2> QED
    BY <2>1, <2>2
<1> QED
  BY <1>1, <1>2, <1>3, <1>4, PoolChanges DEF Query, Submit, poolVars

\* What a thread is about to post stays an announcement of its vault.
LEMMA TasksAnnounceKept == ASSUME ServiceInv, Next PROVE TasksAnnounce'
<1> SUFFICES ASSUME NEW w \in Threads, Active(w)'
             PROVE  task'[w].about # NoPost /\ task'[w].about[1] = task'[w].key[1]
  BY DEF TasksAnnounce, Vault
<1>0. TypeOK /\ Keyed /\ TasksAnnounce /\ Announceable
  BY DEF ServiceInv
<1>1. CASE Active(w) /\ task'[w].key = task[w].key /\ task'[w].about = task[w].about
  BY <1>0, <1>1 DEF TasksAnnounce, Vault
<1>2. ASSUME NEW key \in Keys, StillDue(RowOf(key), key[3]),
             task'[w].key = key, task'[w].about = birth[key[1]][key[2]]
      PROVE  task'[w].about # NoPost /\ task'[w].about[1] = task'[w].key[1]
  BY <1>0, <1>2 DEF Announceable, StillDue, Deliverable, RowOf, Keys
<1> QED
  BY <1>0, <1>1, <1>2, ActiveAfter

-----------------------------------------------------------------------------
(* The types.                                                               *)

\* A set of natural numbers that is not empty has a least element.
LEMMA LeastNatural ==
  ASSUME NEW T \in SUBSET Nat, T # {}
  PROVE  \E t \in T : \A u \in T : t <= u
<1>1. PICK t \in T : \A u \in T : ~ (<<u, t>> \in OpToRel(<, Nat))
  BY NatLessThanWellFounded, WFMin
<1>2. ASSUME NEW u \in T PROVE t <= u
  <2>1. ~ (<<u, t>> \in {ss \in Nat \X Nat : ss[1] < ss[2]})
    BY <1>1 DEF OpToRel
  <2> QED
    BY <2>1
<1> QED
  BY <1>2

\* The time the scheduling thread plans with (state.py:395-411) is NULL or the
\* earliest one: no scheduled document of its vaults is due before it.
LEMMA EarliestRetry ==
  ASSUME StoreTypeOK, NEW names \in SUBSET Vaults
  PROVE  /\ NextRetryTime(names) \in Nat \cup {Never}
         /\ \A v \in names, p \in Paths : Scheduled(documents[v][p]) =>
               /\ NextRetryTime(names) # Never
               /\ NextRetryTime(names) <= documents[v][p].nextRetryAt
<1> DEFINE times == {RowOf(x).nextRetryAt : x \in {y \in names \X Paths : Scheduled(RowOf(y))}}
           least == CHOOSE t \in times : \A u \in times : t <= u
<1>1. times \subseteq Nat
  BY DEF StoreTypeOK, Scheduled, RowOf, Row
<1>2. ASSUME times # {} PROVE least \in times /\ \A u \in times : least <= u
  BY <1>1, <1>2, LeastNatural
<1>3. \A v \in names, p \in Paths : Scheduled(documents[v][p]) =>
         documents[v][p].nextRetryAt \in times
  <2> SUFFICES ASSUME NEW v \in names, NEW p \in Paths, Scheduled(documents[v][p])
               PROVE  documents[v][p].nextRetryAt \in times
    OBVIOUS
  <2>1. RowOf(<<v, p>>) = documents[v][p] /\ <<v, p>> \in names \X Paths
    BY DEF RowOf
  <2> QED
    BY <2>1
<1>4. NextRetryTime(names) = IF times = {} THEN Never ELSE least
  BY DEF NextRetryTime
<1> HIDE DEF times, least
<1> QED
  BY <1>1, <1>2, <1>3, <1>4, NullsAssumption

\* The part of the types that does not concern rows, tasks and announcements.
ControlTypeOK ==
    /\ runtimes \subseteq Vaults
    /\ stopping \in BOOLEAN
    /\ pc \in {"off", "top", "query", "submit", "wait", "asleep", "exited"}
    /\ signalled \in BOOLEAN
    /\ passNow \in Nat
    /\ planned \in Nat \cup {Never}
    /\ faults \in 0..MaxFaults
    /\ service \in {"down", "starting", "up", "stopping"}
    /\ untried \subseteq Vaults
    /\ failed \subseteq Vaults
    /\ owed \subseteq Callers

\* Threads, clocks, bounds and sets of vaults keep their types.
LEMMA ControlKept == ASSUME TypeOK, Next PROVE ControlTypeOK'
<1>0. ControlTypeOK /\ now \in Nat /\ StoreTypeOK
  BY DEF TypeOK, WorkerTypeOK, ControlTypeOK, StoreTypeOK
<1>a. \A kind : Fault(kind) => faults' \in 0..MaxFaults
  BY <1>0, WorkerAssumption DEF Fault, ControlTypeOK
<1>b. \A v \in Vaults : \A who \in {"dispatcher", "observer", "main"} : <<v, who>> \in Callers
  BY DEF Callers
<1>1. CASE Boot \/ NothingToStart
  BY <1>0, <1>1 DEF Boot, NothingToStart, workerVars, loopVars, ControlTypeOK
<1>2. CASE StartWorker
  BY <1>0, <1>2 DEF StartWorker, Wake, ControlTypeOK
<1>3. ASSUME NEW v \in Vaults, StartVault(v) \/ RetryVault(v) \/ RestartWatcher(v)
      PROVE  ControlTypeOK'
  BY <1>0, <1>b, <1>3 DEF StartVault, RetryVault, RestartWatcher, Bring, loopVars, ControlTypeOK
<1>4. ASSUME NEW v \in Vaults, StartVaultFails(v) \/ RetryVaultFails(v)
      PROVE  ControlTypeOK'
  BY <1>0, <1>a, <1>4
  DEF StartVaultFails, RetryVaultFails, FailToBring, loopVars, ControlTypeOK
<1>5. ASSUME NEW v \in Vaults, NEW p \in Paths, OnStableFile(v, p) \/ OnMissing(v, p)
      PROVE  ControlTypeOK'
  BY <1>0, <1>b, <1>5
  DEF OnStableFile, OnMissing, WakeIfPending, workerVars, serviceVars, loopVars, ControlTypeOK
<1>6. ASSUME NEW v \in Vaults, NEW move \in Renames, OnMoved(v, move[1], move[2])
      PROVE  ControlTypeOK'
  BY <1>0, <1>b, <1>6 DEF OnMoved, WakeIfPending, loopVars, ControlTypeOK
<1>7. CASE CallerWakes
  BY <1>0, <1>7 DEF CallerWakes, Wake, ControlTypeOK
<1>8. CASE SchedulerStep /\ UNCHANGED serviceVars
  <2>1. NextRetryTime(runtimes) \in Nat \cup {Never}
    BY <1>0, EarliestRetry DEF ControlTypeOK
  <2>2. /\ pc' \in {"top", "query", "submit", "wait", "asleep", "exited"}
        /\ signalled' \in BOOLEAN
        /\ passNow' \in {passNow, 0, now}
        /\ planned' \in {planned, Never, NextRetryTime(runtimes)}
    BY <1>0, <1>8
    DEF SchedulerStep, Scheduling, Top, Query, Submit, Plan, Wait, WakeUp, ControlTypeOK
  <2> QED
    BY <1>0, <1>8, <2>1, <2>2 DEF SchedulerStep, serviceVars, ControlTypeOK
<1>9. CASE SchedulerDies /\ UNCHANGED serviceVars
  BY <1>0, <1>a, <1>9 DEF SchedulerDies, serviceVars, ControlTypeOK
<1>10. ASSUME NEW w \in Threads, Take(w) \/ TaskStep(w),
              UNCHANGED <<runtimes, stopping, serviceVars>>
       PROVE  ControlTypeOK'
  <2>1. faults' = faults \/ \E kind : Fault(kind)
    BY <1>10 DEF Take, TaskStep, Attempt, FileGone, FileThere, PostAnswered, RecordSent,
                 PostFails, TaskRaises, Release, WakeScheduler
  <2>2. signalled' \in {signalled, TRUE} /\ UNCHANGED <<pc, passNow, planned>>
    BY <1>10 DEF Take, TaskStep, Attempt, Release, WakeScheduler, Wake, loopVars
  <2> QED
    BY <1>0, <1>a, <1>10, <2>1, <2>2 DEF serviceVars, ControlTypeOK
<1>11. CASE Stop \/ Clock
  BY <1>0, <1>11 DEF Stop, Wake, Clock, Tick, workerVars, serviceVars, loopVars, ControlTypeOK
<1>12. CASE Stopped \/ Crash
  <2>1. ResetWorker /\ service' = "down" /\ failed' = {} /\ owed' = {}
    BY <1>12 DEF Stopped, Crash
  <2>2. untried' \in {untried, {}} /\ (faults' = faults \/ Fault("crash"))
    BY <1>12 DEF Stopped, Crash
  <2> QED
    BY <1>0, <1>a, <2>1, <2>2 DEF ResetWorker, ControlTypeOK
<1> QED
  BY <1>1, <1>2, <1>3, <1>4, <1>5, <1>6, <1>7, <1>8, <1>9, <1>10, <1>11, <1>12
  DEF Next, Step, Starting, Events, Maintenance, Delivering, PoolStep, serviceVars

\* Slots and tasks keep their types.
LEMMA PoolKept ==
  ASSUME ServiceInv, Next
  PROVE  /\ inFlight' \subseteq Key /\ vaultsInFlight' \subseteq Vaults
         /\ task' \in [Threads -> Task \cup {Idle}]
<1>0. /\ TypeOK /\ task \in [Threads -> Task \cup {Idle}]
      /\ inFlight \subseteq Key /\ vaultsInFlight \subseteq Vaults
      /\ batch \in Seq(Keys) /\ queue \in Seq(Keys)
      /\ birth \in [Vaults -> [Paths -> Posts \cup {NoPost}]]
  BY DEF ServiceInv, Keyed, TypeOK, WorkerTypeOK
<1>1. CASE UNCHANGED poolVars
  BY <1>0, <1>1 DEF poolVars
<1>2. CASE Submit
  <2>1. batch # <<>> => Head(batch) \in Keys
    BY <1>0, HeadTailProperties
  <2>2. \A key \in Keys : key \in Key /\ key[1] \in Vaults
    BY KeysAreKeys DEF Keys
  <2> QED
    BY <1>0, <1>2, <2>1, <2>2 DEF Submit, poolVars
<1>3. CASE ResetWorker
  BY <1>3 DEF ResetWorker
<1>4. ASSUME NEW w \in Threads, Take(w)
      PROVE  task' \in [Threads -> Task \cup {Idle}]
  <2>1. Head(queue) \in Keys
    BY <1>0, <1>4, HeadTailProperties DEF Take
  <2>2. Begun(Head(queue)) \in Task
    BY <1>0, <2>1, KeysAreKeys DEF Begun, Task, Steps, Keys
  <2> QED
    BY <1>0, <1>4, <2>2 DEF Take
<1>5. ASSUME NEW w \in Threads, Take(w) \/ TaskStep(w)
      PROVE  inFlight' \subseteq inFlight /\ vaultsInFlight' \subseteq vaultsInFlight
  BY <1>5 DEF Take, TaskStep, Attempt, Release, WakeScheduler
<1> QED
  BY <1>0, <1>1, <1>2, <1>3, <1>4, <1>5, PoolChanges, TaskStepOfThread DEF Query

\* Announcements are posts, numbered up to the bound, and counted up to two.
LEMMA HistoryKept ==
  ASSUME ServiceInv, Next
  PROVE  /\ birth' \in [Vaults -> [Paths -> Posts \cup {NoPost}]]
         /\ made' \in [Vaults -> [Paths -> 0..MaxBirths]]
<1>0. /\ TypeOK /\ Keyed /\ TasksAnnounce /\ Bounded'
      /\ birth \in [Vaults -> [Paths -> Posts \cup {NoPost}]]
      /\ made \in [Vaults -> [Paths -> 0..MaxBirths]]
  BY DEF ServiceInv, Next, TypeOK, WorkerTypeOK
<1>1. CASE UNCHANGED <<birth, made>>
  BY <1>0, <1>1
<1>2. CASE Announced
  <2>1. /\ birth' = [v \in Vaults |-> [p \in Paths |-> birth'[v][p]]]
        /\ made' = [v \in Vaults |-> [p \in Paths |-> made'[v][p]]]
    BY <1>2 DEF Announced
  <2>2. ASSUME NEW v \in Vaults, NEW p \in Paths
        PROVE  birth'[v][p] \in Posts \cup {NoPost} /\ made'[v][p] \in 0..MaxBirths
    BY <1>0, <1>2, NewAnnouncements
  <2> QED
    BY <2>1, <2>2
<1>3. ASSUME NEW v \in Vaults, NEW src \in Paths, NEW dst \in Paths, OnMoved(v, src, dst)
      PROVE  /\ birth' \in [Vaults -> [Paths -> Posts \cup {NoPost}]]
             /\ made' = made
  BY <1>0, <1>3 DEF OnMoved
<1> QED
  BY <1>0, <1>1, <1>2, <1>3, RowsChange

\* A recorded answer is counted for the announcement it was posted for, by a thread
\* that had posted it, and nothing else is counted.
LEMMA AnswersCounted ==
  ASSUME TypeOK, Keyed, TasksAnnounce, Next
  PROVE  \/ answered' = answered
         \/ \E w \in Threads :
               /\ RecordSent(w) /\ Active(w) /\ task[w].about \in Posts
               /\ answered' = [answered EXCEPT ![task[w].about] = IF @ = 0 THEN 1 ELSE 2]
<1>1. CASE Starting \/ Maintenance
  BY <1>1 DEF Starting, Maintenance, Boot, StartWorker, NothingToStart, StartVault,
              StartVaultFails, RetryVault, RetryVaultFails, RestartWatcher, Bring, FailToBring,
              Scan, Announced, workerVars, history
<1>2. CASE Events \/ CallerWakes
  BY <1>2 DEF Events, OnStableFile, OnMissing, OnMoved, CallerWakes, Announced, workerVars, history
<1>3. CASE SchedulerStep \/ SchedulerDies
  BY <1>3 DEF SchedulerStep, SchedulerDies, history
<1>4. ASSUME NEW w \in Threads, RecordSent(w)
      PROVE  /\ RecordSent(w) /\ Active(w) /\ task[w].about \in Posts
             /\ answered' = [answered EXCEPT ![task[w].about] = IF @ = 0 THEN 1 ELSE 2]
  <2>1. Active(w)
    BY <1>4 DEF RecordSent, At, Active, Busy, Idle
  <2> QED
    BY <1>4, <2>1, ActiveNames DEF RecordSent
<1>5. ASSUME NEW w \in Threads, Take(w) \/ TaskStep(w), ~ RecordSent(w)
      PROVE  answered' = answered
  BY <1>5 DEF Take, TaskStep, Attempt, FileGone, FileThere, PostAnswered, PostFails, TaskRaises,
              Release, WakeScheduler, history
<1>6. CASE Stop \/ Stopped \/ Crash \/ Clock
  BY <1>6 DEF Stop, Stopped, Crash, Clock, workerVars, history
<1> QED
  BY <1>1, <1>2, <1>3, <1>4, <1>5, <1>6 DEF Next, Step, Delivering, PoolStep

\* The types are kept.
LEMMA TypesKept == ASSUME ServiceInv, Next, StoreInv' PROVE TypeOK'
<1>1. batch' \in Seq(Key) /\ queue' \in Seq(Key)
  BY KeyedKept, KeysAreKeys, SeqMonotonic DEF Keyed
<1>2. answered' \in [Posts -> 0..2]
  <2>1. answered \in [Posts -> 0..2] /\ TypeOK /\ Keyed /\ TasksAnnounce
    BY DEF ServiceInv, TypeOK, WorkerTypeOK
  <2>2. \/ answered' = answered
        \/ \E b \in Posts : answered' = [answered EXCEPT ![b] = IF @ = 0 THEN 1 ELSE 2]
    BY <2>1, AnswersCounted
  <2> QED
    BY <2>1, <2>2
<1>3. ControlTypeOK'
  BY ControlKept DEF ServiceInv
<1> QED
  BY <1>1, <1>2, <1>3, PoolKept, HistoryKept
  DEF StoreInv, ControlTypeOK, TypeOK, WorkerTypeOK

-----------------------------------------------------------------------------
(* The invariant.                                                           *)

\* A fresh installation satisfies the invariant: nothing is stored or running.
LEMMA InitServiceInv == Init => ServiceInv
<1> SUFFICES ASSUME Init PROVE ServiceInv
  OBVIOUS
<1>1. StoreInv
  BY InitStoreInv DEF Init
<1>2. /\ \A v \in Vaults, p \in Paths : documents[v][p] = NoRow
      /\ \A v \in Vaults, p \in Paths : birth[v][p] = NoPost /\ made[v][p] = 0
      /\ \A w \in Threads : task[w] = Idle
      /\ batch = <<>> /\ queue = <<>>
  BY DEF Init, StoreInit, WorkerInit
<1>3. TypeOK
  <2>1. /\ task \in [Threads -> Task \cup {Idle}]
        /\ birth \in [Vaults -> [Paths -> Posts \cup {NoPost}]]
    BY DEF Init, WorkerInit
  <2>2. /\ made \in [Vaults -> [Paths -> 0..MaxBirths]]
        /\ answered \in [Posts -> 0..2]
        /\ faults \in 0..MaxFaults /\ passNow \in Nat
    BY WorkerAssumption DEF Init, WorkerInit
  <2>3. batch \in Seq(Key) /\ queue \in Seq(Key)
    BY <1>2, EmptySeq
  <2> QED
    BY <1>1, <2>1, <2>2, <2>3 DEF Init, WorkerInit, TypeOK, WorkerTypeOK, StoreInv
<1>4. Bounded
  BY <1>2, WorkerAssumption, BoundsAssumption DEF Bounded, WithinBounds, NoRow
<1>5. Keyed /\ TasksAnnounce
  BY <1>2, EmptySeq DEF Keyed, TasksAnnounce, Active, Busy
<1>6. Announceable
  BY <1>2 DEF Announceable, NoRow
<1> QED
  BY <1>1, <1>3, <1>4, <1>5, <1>6 DEF ServiceInv

\* Every step of the service, and every step that changes nothing, keeps it.
LEMMA StepKeepsServiceInv == ServiceInv /\ [Next]_vars => ServiceInv'
<1> SUFFICES ASSUME ServiceInv, [Next]_vars PROVE ServiceInv'
  OBVIOUS
<1>1. CASE Next
  <2>1. StoreInv'
    BY <1>1, StepOnStore, StepKeepsStoreInv DEF ServiceInv
  <2> QED
    BY <1>1, <2>1, TypesKept, KeyedKept, AnnounceableKept, TasksAnnounceKept
    DEF ServiceInv, Next
<1>2. CASE UNCHANGED vars
  <2>1. StoreInv'
    BY <1>2, StepKeepsStoreInv DEF ServiceInv, vars
  <2>2. /\ UNCHANGED <<storeVars, runtimes, stopping, faults, serviceVars>>
        /\ UNCHANGED <<loopVars, poolVars, history>>
    BY <1>2 DEF vars, workerVars
  <2>3. TypeOK' /\ Bounded'
    BY <2>2 DEF ServiceInv, TypeOK, StoreTypeOK, WorkerTypeOK, Bounded, WithinBounds,
                storeVars, loopVars, poolVars, history, serviceVars
  <2>4. Keyed' /\ Announceable' /\ TasksAnnounce'
    BY <2>2 DEF ServiceInv, Keyed, Announceable, TasksAnnounce, Active, Busy, Vault,
                storeVars, loopVars, poolVars, history
  <2> QED
    BY <2>1, <2>3, <2>4 DEF ServiceInv
<1> QED
  BY <1>1, <1>2

\* Hence the invariant of every run of the service.
LEMMA ServiceInvariant == Spec => []ServiceInv
  BY InitServiceInv, StepKeepsServiceInv, PTL DEF Spec

\* The variables of the service, the worker and the rows have the types the code
\* gives them in every reachable state: a thread only ever posts for a key the
\* store handed out, and the counters stay in range.
THEOREM ServiceTypeCorrect == Spec => []TypeOK
<1>1. ServiceInv => TypeOK
  BY DEF ServiceInv
<1> QED
  BY <1>1, ServiceInvariant, PTL

\* The running service uses its database as StateStore says: whatever its threads,
\* watchers, crashes and restarts do, every change of the tables is one operation
\* of the store, so that what is proved of the store alone holds of the service.
THEOREM ServiceUsesStore == Spec => StoreSpec
<1>1. Init => StoreInit
  BY DEF Init
<1>2. ServiceInv /\ [Next]_vars => [StoreNext]_storeVars
  BY StepOnStore DEF ServiceInv, vars
<1> QED
  BY <1>1, <1>2, ServiceInvariant, PTL DEF Spec, StoreSpec

\* In particular no document that is part of the baseline or announced becomes
\* pending again, but by another pending document renamed over it.
THEOREM ServiceNoRenotification == Spec => NoRenotification
  BY ServiceUsesStore, StoreNoRenotification

\* And the rows stay coherent: exactly the sent ones have a post id, only pending
\* ones a retry time.
THEOREM ServiceRowsCoherent == Spec => []RowCoherent
  BY ServiceUsesStore, StoreRowsCoherent
=============================================================================
