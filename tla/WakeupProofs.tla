----------------------------- MODULE WakeupProofs -----------------------------
(***************************************************************************)
(* The wakeups of the scheduling thread, for any number of vaults,         *)
(* documents and threads: what happens between the query of a pass and the *)
(* end of the wait (delivery.py:97-131) is either harmless or followed by  *)
(* a wake() the thread does not miss.                                      *)
(***************************************************************************)
EXTENDS SlotProofs

\* Until the worker is started nothing is scheduled and nothing runs.
NewProcess ==
    service \in {"down", "starting"} =>
        /\ pc = "off" /\ batch = <<>> /\ queue = <<>>
        /\ inFlight = {} /\ vaultsInFlight = {}
        /\ \A w \in Threads : ~ Busy(w)

\* Somebody has woken the scheduling thread, or is bound to.
Disturbed ==
    \/ signalled
    \/ owed # {}
    \/ \E w \in Threads : At(w, "release") \/ At(w, "wake")

\* The planned time covers every row the thread does not hear of.
Covered ==
    pc \in {"wait", "asleep"} /\ ~ Disturbed =>
        \A v \in runtimes, p \in Paths :
            Scheduled(documents[v][p]) =>
                planned # Never /\ planned <= documents[v][p].nextRetryAt

\* A vault with a document that was due at the last query is being served, or
\* has a record in the rest of the batch.
Served ==
    pc \in {"submit", "wait", "asleep"} /\ ~ Disturbed =>
        \A v \in runtimes, p \in Paths :
            DueBy(documents[v][p], passNow) =>
                \/ v \in vaultsInFlight
                \/ pc = "submit" /\ \E i \in DOMAIN batch : batch[i][1] = v

-----------------------------------------------------------------------------
(* A new process.                                                           *)

\* The worker starts with StartWorker, and a process that ends leaves nothing.
LEMMA NewProcessKept ==
  ASSUME TypeOK, NewProcess, [Next]_vars PROVE NewProcess'
<1>1. CASE Starting
  <2>1. CASE StartWorker
    BY <2>1 DEF StartWorker, NewProcess
  <2>2. CASE ~ StartWorker
    <3>1. service \in {"down", "starting"} /\ UNCHANGED <<loopVars, poolVars>>
      BY <1>1, <2>2 DEF Starting, Boot, NothingToStart, StartVault, StartVaultFails, Bring,
                        FailToBring, workerVars
    <3> QED
      BY <3>1 DEF NewProcess, Busy, loopVars, poolVars
  <2> QED
    BY <2>1, <2>2
<1>7. CASE Events \/ CallerWakes
  <2>1. UNCHANGED <<service, pc, batch, poolVars>>
    BY <1>7 DEF Events, OnStableFile, OnMissing, OnMoved, CallerWakes, workerVars, serviceVars,
                loopVars
  <2> QED
    BY <2>1 DEF NewProcess, Busy, poolVars
<1>8. CASE Maintenance
  <2>1. service' = "up"
    BY <1>8 DEF Maintenance, RetryVault, RetryVaultFails, RestartWatcher
  <2> QED
    BY <2>1 DEF NewProcess
<1>2. CASE Delivering
  <2>1. service' = service
    BY <1>2 DEF Delivering, serviceVars
  <2>2. CASE service \in {"down", "starting"}
    <3>1. pc = "off" /\ queue = <<>> /\ \A w \in Threads : task[w] = Idle
      BY <2>2 DEF NewProcess, Busy
    <3>2. FALSE
      BY <1>2, <3>1
      DEF Delivering, SchedulerStep, SchedulerDies, PoolStep, Scheduling, Top, Query, Submit,
          Plan, Wait, WakeUp, Take, TaskStep, Attempt, FileGone, FileThere, PostAnswered,
          RecordSent, PostFails, TaskRaises, Release, WakeScheduler, At, Idle
    <3> QED
      BY <3>2
  <2> QED
    BY <2>1, <2>2 DEF NewProcess
<1>3. CASE Stop
  BY <1>3 DEF Stop, NewProcess
<1>4. CASE Stopped \/ Crash
  <2>1. ResetWorker
    BY <1>4 DEF Stopped, Crash
  <2> QED
    BY <2>1 DEF ResetWorker, NewProcess, Busy
<1>5. CASE Clock
  BY <1>5 DEF Clock, workerVars, serviceVars, loopVars, poolVars, NewProcess, Busy
<1>6. CASE UNCHANGED vars
  BY <1>6 DEF vars, workerVars, serviceVars, loopVars, poolVars, NewProcess, Busy
<1> QED
  BY <1>1, <1>2, <1>3, <1>4, <1>5, <1>6, <1>7, <1>8 DEF Next, Step

-----------------------------------------------------------------------------
(* Disturbances.                                                            *)

\* A disturbance ends only at the top of the loop, or with the process.
LEMMA DisturbanceLasts ==
  ASSUME TypeOK, Disturbed, [Next]_vars, pc' \in {"submit", "wait", "asleep"}
  PROVE  Disturbed'
<1>0. task \in [Threads -> Task \cup {Idle}]
  BY DEF TypeOK, WorkerTypeOK
<1>1. CASE task' = task
  <2>1. (signalled => signalled') /\ (owed # {} => owed' # {} \/ signalled')
    <3>1. CASE Starting
      BY <3>1 DEF Starting, Boot, StartWorker, NothingToStart, StartVault, StartVaultFails, Wake,
                  Bring, FailToBring, workerVars, loopVars
    <3>5. CASE Events
      <4>1. ASSUME NEW v \in Vaults, NEW p \in Paths, NEW who, WakeIfPending(v, p, who)
            PROVE  owed \subseteq owed'
        BY <4>1 DEF WakeIfPending
      <4>2. ASSUME NEW v \in Vaults, NEW p \in Paths, OnStableFile(v, p) \/ OnMissing(v, p)
            PROVE  owed \subseteq owed' /\ signalled' = signalled
        BY <4>1, <4>2 DEF OnStableFile, OnMissing, workerVars, serviceVars, loopVars
      <4>3. ASSUME NEW v \in Vaults, NEW move \in Renames, OnMoved(v, move[1], move[2])
            PROVE  owed \subseteq owed' /\ signalled' = signalled
        BY <4>1, <4>3, RenamesAssumption DEF OnMoved, loopVars
      <4> QED
        BY <3>5, <4>2, <4>3 DEF Events
    <3>6. CASE CallerWakes \/ Maintenance
      BY <3>6 DEF CallerWakes, Wake, Maintenance, RetryVault, RetryVaultFails, RestartWatcher,
                  Bring, FailToBring, loopVars
    <3>2. CASE Delivering
      BY <3>2 DEF Delivering, SchedulerStep, SchedulerDies, PoolStep, Scheduling, Top, Query,
                  Submit, Plan, Wait, WakeUp, Take, TaskStep, Attempt, Release, WakeScheduler,
                  Wake, loopVars, serviceVars
    <3>3. CASE Stop \/ Stopped \/ Crash \/ Clock
      BY <3>3 DEF Stop, Stopped, Crash, Clock, ResetWorker, Wake, workerVars, serviceVars, loopVars
    <3>4. CASE UNCHANGED vars
      BY <3>4 DEF vars, workerVars, serviceVars, loopVars
    <3> QED
      BY <3>1, <3>2, <3>3, <3>4, <3>5, <3>6 DEF Next, Step
  <2> QED
    BY <1>1, <2>1 DEF Disturbed, At
<1>2. CASE task' # task
  <2>1. UNCHANGED vars => task' = task
    BY DEF vars, workerVars, poolVars
  <2>2. ~ ResetWorker
    BY DEF ResetWorker
  <2>3. PICK w \in Threads : Take(w) \/ TaskStep(w)
    BY <1>2, <2>1, <2>2, PoolChanges DEF Query, Submit, poolVars
  <2>4. Delivering \/ owed' = owed
    BY <1>2, <2>1, <2>2
    DEF Next, Step, Starting, Boot, StartWorker, NothingToStart, StartVault, StartVaultFails,
        Events, OnStableFile, OnMissing, OnMoved, CallerWakes, Maintenance, RetryVault,
        RetryVaultFails, RestartWatcher, Bring, FailToBring, Stop, Stopped, Crash, Clock,
        workerVars, serviceVars, poolVars
  <2>5. owed' = owed /\ (signalled => signalled')
    BY <2>3, <2>4 DEF Delivering, serviceVars, Take, TaskStep, Attempt, Release, WakeScheduler,
                      Wake, loopVars
  <2>6. ASSUME NEW x \in Threads, At(x, "release") \/ At(x, "wake")
        PROVE  Disturbed'
    <3>1. CASE x # w
      <4>1. task'[x] = task[x]
        BY <1>0, <2>3, <3>1, TaskStepOfThread DEF Take
      <4> QED
        BY <2>6, <4>1 DEF Disturbed, At
    <3>2. CASE x = w
      <4>1. Busy(x) /\ task[x].step \in Steps
        BY <2>6 DEF Busy, At, Idle, Steps
      <4>2. ~ Take(w) /\ ~ Attempt(w)
        BY <2>6, <3>2, <4>1 DEF Take, Attempt, FileGone, FileThere, PostAnswered, RecordSent,
                                PostFails, TaskRaises, At
      <4>3. CASE Release(w)
        <5>1. task'[x].step = "wake"
          BY <1>0, <3>2, <4>1, <4>3, StepOfTask DEF Release, Steps
        <5> QED
          BY <5>1 DEF Disturbed, At
      <4>4. CASE WakeScheduler(w)
        BY <4>4 DEF WakeScheduler, Wake, Disturbed
      <4> QED
        BY <2>3, <4>2, <4>3, <4>4 DEF TaskStep
    <3> QED
      BY <3>1, <3>2
  <2> QED
    BY <2>5, <2>6 DEF Disturbed
<1> QED
  BY <1>1, <1>2

\* While nobody is bound to wake the scheduling thread, no step brings a vault, and
\* a row either stays as it is or is off the schedule: what makes a row due goes
\* with a wake (delivery.py:128, 173; service.py:101, 144, 178, 251, 270).
LEMMA QuietStep ==
  ASSUME ServiceInv, NewProcess, Next, pc # "off", ~ Disturbed',
         pc' \in {"submit", "wait", "asleep"}
  PROVE  /\ runtimes' = runtimes
         /\ vaultsInFlight \subseteq vaultsInFlight'
         /\ \A v \in Vaults, p \in Paths :
               documents'[v][p] # documents[v][p] => ~ Scheduled(documents'[v][p])
<1> DEFINE Goal ==
        /\ runtimes' = runtimes
        /\ vaultsInFlight \subseteq vaultsInFlight'
        /\ \A v \in Vaults, p \in Paths :
              documents'[v][p] # documents[v][p] => ~ Scheduled(documents'[v][p])
<1>0. /\ TypeOK /\ StoreTypeOK /\ documents \in [Vaults -> [Paths -> Row]]
      /\ task \in [Threads -> Task \cup {Idle}]
      /\ service \notin {"down", "starting"}
      /\ signalled' # TRUE /\ owed' = {}
  BY DEF ServiceInv, TypeOK, StoreTypeOK, WorkerTypeOK, NewProcess, Disturbed
<1>1. CASE Starting \/ Stopped \/ Crash \/ Stop \/ CallerWakes
  BY <1>0, <1>1
  DEF Starting, Boot, StartWorker, NothingToStart, StartVault, StartVaultFails, Stop, Stopped,
      Crash, ResetWorker, CallerWakes, Wake
<1>2. CASE Clock
  BY <1>2 DEF Clock, Tick, workerVars, poolVars
<1>3. ASSUME NEW v \in Vaults, RetryVault(v) \/ RestartWatcher(v) PROVE FALSE
  BY <1>0, <1>3 DEF RetryVault, RestartWatcher
<1>4. ASSUME NEW v \in Vaults, RetryVaultFails(v) PROVE Goal
  <2>1. CASE UNCHANGED storeVars
    BY <1>4, <2>1 DEF RetryVaultFails, FailToBring, poolVars, storeVars
  <2>2. CASE v \notin vaults /\ Scan(v)
    <3>1. PICK found \in SUBSET Paths, at \in Deadlines : Reconcile(v, found, at)
      BY <2>2 DEF Scan
    <3>2. \A u \in Vaults, p \in Paths :
             documents'[u][p] \in {documents[u][p], BaselineRow}
      BY <1>0, <2>2, <3>1 DEF Reconcile, ScanResult
    <3>3. ~ Scheduled(BaselineRow)
      BY DEF BaselineRow, Scheduled, Deliverable
    <3> QED
      BY <1>4, <3>2, <3>3 DEF RetryVaultFails, FailToBring, poolVars
  <2> QED
    BY <1>4, <2>1, <2>2 DEF RetryVaultFails, FailToBring
<1>5. ASSUME NEW v \in Vaults, NEW p \in Paths, OnStableFile(v, p) PROVE Goal
  <2>1. ~ Deliverable(documents'[v][p])
    BY <1>0, <1>5 DEF OnStableFile, WakeIfPending
  <2>2. \A u \in Vaults, q \in Paths :
           documents'[u][q] # documents[u][q] => u = v /\ q = p
    BY <1>0, <1>5 DEF OnStableFile, ObserveNew
  <2> QED
    BY <1>5, <2>1, <2>2 DEF OnStableFile, poolVars, Scheduled
<1>6. ASSUME NEW v \in Vaults, NEW p \in Paths, OnMissing(v, p) PROVE Goal
  <2>1. \A u \in Vaults, q \in Paths :
           documents'[u][q] \in {documents[u][q], Missing(documents[u][q])}
    BY <1>0, <1>6 DEF OnMissing, MarkMissing
  <2>2. \A row \in Row : ~ Scheduled(Missing(row))
    BY DEF Missing, Scheduled, Deliverable, Row
  <2> QED
    BY <1>0, <1>6, <2>1, <2>2 DEF OnMissing, workerVars, poolVars
<1>7. ASSUME NEW v \in Vaults, NEW src \in Paths, NEW dst \in Paths, OnMoved(v, src, dst)
      PROVE  Goal
  <2>1. ~ Deliverable(documents'[v][dst])
    BY <1>0, <1>7 DEF OnMoved, WakeIfPending
  <2>3. \A u \in Vaults, q \in Paths :
           documents'[u][q] \in {documents[u][q], NoRow} \/ (u = v /\ q = dst)
    <3> SUFFICES ASSUME NEW u \in Vaults, NEW q \in Paths
                 PROVE  documents'[u][q] \in {documents[u][q], NoRow} \/ (u = v /\ q = dst)
      OBVIOUS
    <3>1. \/ documents'[u][q] = documents[u][q] /\ birth'[u][q] = birth[u][q]
          \/ u = v /\ q = src /\ documents'[u][q] = NoRow /\ birth'[u][q] = NoPost
          \/ /\ u = v /\ q = dst
             /\ documents'[u][q] = [documents[v][src] EXCEPT !.present = TRUE]
             /\ birth'[u][q] = birth[v][src]
      BY <1>0, <1>7, RenamedRow
    <3> QED
      BY <3>1
  <2>4. ~ Scheduled(NoRow)
    BY DEF NoRow, Scheduled, Deliverable
  <2> QED
    BY <1>7, <2>1, <2>3, <2>4 DEF OnMoved, poolVars, Scheduled
<1>8. CASE SchedulerStep \/ SchedulerDies
  <2>1. UNCHANGED <<runtimes, documents>> /\ vaultsInFlight \subseteq vaultsInFlight'
    BY <1>8 DEF SchedulerStep, SchedulerDies, Scheduling, Top, Query, Submit, Plan, Wait, WakeUp,
                poolVars, storeVars
  <2> QED
    BY <2>1
<1>9. ASSUME NEW w \in Threads, Take(w) \/ TaskStep(w), UNCHANGED runtimes PROVE Goal
  <2>1. CASE Take(w) \/ FileThere(w) \/ PostAnswered(w)
    <3>1. UNCHANGED documents
      BY <2>1 DEF Take, FileThere, PostAnswered, storeVars
    <3>2. vaultsInFlight' = vaultsInFlight
      BY <1>9, <2>1, <1>0 DEF Take, TaskStep, Attempt, FileThere, PostAnswered, Release,
                              WakeScheduler, Wake, At, Idle, Busy
    <3> QED
      BY <1>9, <3>1, <3>2
  <2>2. CASE FileGone(w) \/ RecordSent(w) \/ PostFails(w) \/ TaskRaises(w) \/ Release(w)
    <3>1. /\ task[w].step \in Steps
          /\ \E step \in {"release", "wake"} : Goto(w, step)
      BY <2>2 DEF FileGone, RecordSent, PostFails, TaskRaises, Release, At, Steps
    <3>2. task'[w].step \in {"release", "wake"}
      BY <1>0, <3>1, StepOfTask DEF Steps
    <3> QED
      BY <3>2 DEF Disturbed, At
  <2>3. CASE WakeScheduler(w)
    BY <1>0, <2>3 DEF WakeScheduler, Wake
  <2> QED
    BY <1>9, <2>1, <2>2, <2>3 DEF TaskStep, Attempt
<1> QED
  BY <1>1, <1>2, <1>3, <1>4, <1>5, <1>6, <1>7, <1>8, <1>9, RenamesAssumption
  DEF Next, Step, Starting, Events, Maintenance, Delivering, PoolStep

\* Where the scheduling thread can be after a step: it gets to the end of a pass by
\* its own steps only.
LEMMA WaitingIsScheduling ==
  ASSUME Next, pc' \in {"submit", "wait", "asleep"}
  PROVE  \/ UNCHANGED <<pc, batch, passNow, planned>>
         \/ Query \/ Submit \/ Plan
         \/ Wait /\ UNCHANGED <<batch, passNow, planned, vaultsInFlight>>
<1>1. CASE Starting
  BY <1>1 DEF Starting, Boot, StartWorker, NothingToStart, StartVault, StartVaultFails, Bring,
              FailToBring, workerVars, loopVars
<1>2. CASE Events \/ CallerWakes
  BY <1>2 DEF Events, OnStableFile, OnMissing, OnMoved, CallerWakes, workerVars, loopVars
<1>3. CASE Maintenance
  BY <1>3 DEF Maintenance, RetryVault, RetryVaultFails, RestartWatcher, Bring, FailToBring,
              loopVars
<1>4. CASE SchedulerStep \/ SchedulerDies
  BY <1>4 DEF SchedulerStep, SchedulerDies, Scheduling, Top, WakeUp, Wait, poolVars
<1>5. CASE PoolStep
  BY <1>5 DEF PoolStep, Take, TaskStep, Attempt, Release, WakeScheduler, loopVars
<1>6. CASE Stop \/ Stopped \/ Crash \/ Clock
  BY <1>6 DEF Stop, Stopped, Crash, ResetWorker, Clock, workerVars, loopVars
<1> QED
  BY <1>1, <1>2, <1>3, <1>4, <1>5, <1>6 DEF Next, Step, Delivering

-----------------------------------------------------------------------------
(* No wakeup is lost.                                                       *)

\* Sleeping on: the time the thread sleeps to covers every schedule, whatever
\* changed since the pass that planned it.
LEMMA CoveredKept ==
  ASSUME ServiceInv, NewProcess, Covered, [Next]_vars PROVE Covered'
<1>1. CASE UNCHANGED vars
  BY <1>1 DEF vars, workerVars, storeVars, loopVars, poolVars, serviceVars, Covered, Disturbed, At
<1>2. CASE Next
  <2> SUFFICES ASSUME pc' \in {"wait", "asleep"}, ~ Disturbed',
                      NEW v \in runtimes', NEW p \in Paths, Scheduled(documents'[v][p])
               PROVE  planned' # Never /\ planned' <= documents'[v][p].nextRetryAt
    BY DEF Covered
  <2>0. TypeOK /\ StoreTypeOK /\ runtimes \subseteq Vaults /\ ~ Disturbed
    BY <1>2, DisturbanceLasts DEF ServiceInv, TypeOK, WorkerTypeOK
  <2>1. CASE pc = "off"
    BY <1>2, <2>1, WaitingIsScheduling DEF Query, Submit, Plan, Wait
  <2>2. CASE pc # "off"
    <3>1. /\ runtimes' = runtimes /\ v \in runtimes
          /\ Scheduled(documents[v][p]) /\ documents'[v][p] = documents[v][p]
      BY <1>2, <2>0, <2>2, QuietStep
    <3>2. CASE Plan
      BY <2>0, <3>1, <3>2, EarliestRetry DEF Plan
    <3>3. CASE ~ Plan
      <4>1. pc \in {"wait", "asleep"} /\ planned' = planned
        BY <1>2, <3>3, WaitingIsScheduling DEF Query, Submit, Wait
      <4> QED
        BY <2>0, <3>1, <4>1 DEF Covered
    <3> QED
      BY <3>2, <3>3
  <2> QED
    BY <2>1, <2>2
<1> QED
  BY <1>1, <1>2

-----------------------------------------------------------------------------
(* No vault waits for another.                                              *)

\* At most BatchLimit documents are due at the moment.
FewDue == Cardinality(DueKeys(runtimes, now)) <= BatchLimit

\* A taken document is one of a taken vault.
LEMMA SlotHasVault ==
  ASSUME SlotInv, NEW key, key \in inFlight PROVE key[1] \in vaultsInFlight
  BY DEF SlotInv, SlotsAreTasks, Vault

\* Whatever happens from the query of a pass to the end of the wait, a vault that
\* was found due is being served or still has its record in the batch.
LEMMA ServedKept ==
  ASSUME ServiceInv, SlotInv, NewProcess, FewDue, Served, [Next]_vars PROVE Served'
<1>1. CASE UNCHANGED vars
  BY <1>1 DEF vars, workerVars, storeVars, loopVars, poolVars, serviceVars, Served, Disturbed, At
<1>2. CASE Next
  <2> SUFFICES ASSUME pc' \in {"submit", "wait", "asleep"}, ~ Disturbed',
                      NEW v \in runtimes', NEW p \in Paths, DueBy(documents'[v][p], passNow')
               PROVE  \/ v \in vaultsInFlight'
                      \/ pc' = "submit" /\ \E i \in DOMAIN batch' : batch'[i][1] = v
    BY DEF Served
  <2>0. /\ runtimes \subseteq Vaults /\ ~ Disturbed
        /\ batch \in Seq(Keys) /\ StoreInv /\ WithinBounds
    BY <1>2, DisturbanceLasts DEF ServiceInv, TypeOK, WorkerTypeOK, Keyed, Bounded
  <2>1. pc # "off"
    BY <1>2, WaitingIsScheduling DEF Query, Submit, Plan, Wait
  <2>2. /\ runtimes' = runtimes /\ v \in runtimes
        /\ documents'[v][p] = documents[v][p]
        /\ vaultsInFlight \subseteq vaultsInFlight'
    BY <1>2, <2>0, <2>1, QuietStep DEF DueBy
  <2>3. CASE Query
    <3> DEFINE key == <<v, p, documents[v][p].generation>>
    <3>1. pc' = "submit" /\ passNow' = now /\ batch' \in DuePending(runtimes, now, BatchLimit)
      BY <2>3 DEF Query
    <3>2. key \in DueKeys(runtimes, now)
      <4>1. <<v, p>> \in {y \in runtimes \X Paths : DueBy(RowOf(y), now)}
        BY <2>2, <3>1 DEF RowOf
      <4>2. key = <<<<v, p>>[1], <<v, p>>[2], RowOf(<<v, p>>).generation>>
        BY DEF RowOf
      <4> QED
        BY <4>1, <4>2 DEF DueKeys
    <3>3. BatchLimit \in Nat /\ runtimes \in SUBSET Vaults
      BY <2>0, WorkerAssumption
    <3>4. Records(batch', key)
      BY <2>0, <3>1, <3>2, <3>3, BatchOfPass DEF FewDue
    <3> QED
      BY <3>1, <3>4 DEF Records
  <2>4. CASE Submit
    <3>0. /\ pc = "submit" /\ pc' = "submit" /\ batch # <<>> /\ batch' = Tail(batch)
          /\ passNow' = passNow /\ ~ stopping
      BY <2>4 DEF Submit
    <3>1. CASE v \in vaultsInFlight
      BY <2>2, <3>1
    <3>2. ASSUME NEW i \in DOMAIN batch, batch[i][1] = v
          PROVE  v \in vaultsInFlight' \/ \E j \in DOMAIN batch' : batch'[j][1] = v
      <4>1. /\ DOMAIN batch = 1..Len(batch) /\ Len(batch) \in Nat
            /\ Head(batch) = batch[1]
            /\ DOMAIN batch' = 1..(Len(batch) - 1)
            /\ \A j \in 1..(Len(batch) - 1) : batch'[j] = batch[j + 1]
        BY <2>0, <3>0, HeadTailProperties, LenProperties
      <4>2. CASE i = 1
        <5>1. Head(batch)[1] = v
          BY <3>2, <4>1, <4>2
        <5>2. CASE Free(Head(batch))
          BY <2>4, <3>0, <5>1, <5>2 DEF Submit
        <5>3. CASE ~ Free(Head(batch))
          BY <2>2, <3>0, <5>1, <5>3, SlotHasVault DEF Free
        <5> QED
          BY <5>2, <5>3
      <4>3. CASE i # 1
        <5>1. i - 1 \in DOMAIN batch' /\ batch'[i - 1] = batch[i]
          BY <4>1, <4>3
        <5> QED
          BY <3>2, <5>1
      <4> QED
        BY <4>2, <4>3
    <3> QED
      BY <2>0, <2>2, <3>0, <3>1, <3>2 DEF Served
  <2>5. CASE Plan
    <3>1. pc = "submit" /\ batch = <<>> /\ passNow' = passNow
      BY <2>5 DEF Plan
    <3> QED
      BY <2>0, <2>2, <3>1 DEF Served
  <2>6. CASE ~ Query /\ ~ Submit /\ ~ Plan
    <3>1. /\ passNow' = passNow /\ batch' = batch
          /\ pc' = pc \/ pc = "wait"
          /\ pc \in {"submit", "wait", "asleep"}
      BY <1>2, <2>6, WaitingIsScheduling DEF Wait
    <3> QED
      BY <2>0, <2>2, <3>1 DEF Served
  <2> QED
    BY <2>3, <2>4, <2>5, <2>6
<1> QED
  BY <1>1, <1>2

-----------------------------------------------------------------------------
(* The theorems.                                                            *)

\* Nothing is planned before the worker runs.
LEMMA InitWakeups == Init => NewProcess /\ Covered /\ Served
  BY DEF Init, WorkerInit, NewProcess, Covered, Served, Busy

\* The invariants of the state, the slots and the wakeups hold together.
LEMMA WakeupInvariant == Spec => [](ServiceInv /\ SlotInv /\ NewProcess /\ Covered)
<1>1. ServiceInv => TypeOK
  BY DEF ServiceInv
<1> QED
  BY <1>1, InitServiceInv, InitSlots, InitWakeups, StepKeepsServiceInv, SlotsKept,
     NewProcessKept, CoveredKept, PTL DEF Spec

\* No wakeup is lost, for any number of vaults, documents and threads: the
\* scheduling thread never sleeps past the retry time of a document of its vaults,
\* because every change that makes a row due earlier is followed by a wake that it
\* cannot miss (delivery.py:105, 129-131).
THEOREM ServiceSleepCoversRetries == Spec => []SleepCoversRetries
<1>1. Covered => SleepCoversRetries
  BY DEF Covered, SleepCoversRetries, SoundAsleep, Disturbed
<1> QED
  BY <1>1, WakeupInvariant, PTL

\* As long as no more than BatchLimit documents are due at a time, no vault is held
\* back by another: while the scheduling thread sleeps, each one that had a due
\* document at its last query is being served.  Without that condition the oldest
\* documents of one vault fill the batch, as the run MCBatchLimit shows.
THEOREM ServiceNoIdleDueVault == Spec /\ []FewDue => []NoIdleDueVault
<1>1. Served => NoIdleDueVault
  BY DEF Served, NoIdleDueVault, SoundAsleep, Disturbed
<1>2. ServiceInv /\ SlotInv /\ NewProcess /\ FewDue /\ Served /\ [Next]_vars => Served'
  BY ServedKept
<1> QED
  BY <1>1, <1>2, InitWakeups, WakeupInvariant, PTL DEF Spec
=============================================================================
