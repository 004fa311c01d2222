------------------------------ MODULE SlotProofs ------------------------------
(***************************************************************************)
(* The slots of the delivery worker, for any number of vaults and threads: *)
(* what _submit takes and the finally of _attempt_and_release gives back   *)
(* (delivery.py:135-147, 170-173).                                         *)
(***************************************************************************)
EXTENDS NotifierServiceProofs

\* A thread whose slot is not yet given back.
Running(w) == Busy(w) /\ ~ At(w, "wake")
Runners == {w \in Threads : Running(w)}

\* No two tasks, queued or running, are of one vault.
OneTaskPerVault ==
    /\ \A w, x \in Runners : Vault(w) = Vault(x) => w = x
    /\ \A i, j \in DOMAIN queue : queue[i][1] = queue[j][1] => i = j
    /\ \A w \in Runners, i \in DOMAIN queue : Vault(w) # queue[i][1]

\* The two sets of slots are those of the tasks.
SlotsAreTasks ==
    /\ inFlight = {task[w].key : w \in Runners} \cup {queue[i] : i \in DOMAIN queue}
    /\ vaultsInFlight = {Vault(w) : w \in Runners} \cup {queue[i][1] : i \in DOMAIN queue}

SlotInv == OneTaskPerVault /\ SlotsAreTasks

-----------------------------------------------------------------------------
(* How the pool changes.                                                    *)

\* With a task at the end of the queue, or without the one at its head.
LEMMA QueueChanges ==
  ASSUME queue \in Seq(Keys)
  PROVE  /\ \A key \in Keys : queue' = Append(queue, key) =>
               /\ DOMAIN queue' = DOMAIN queue \cup {Len(queue) + 1}
               /\ Len(queue) + 1 \notin DOMAIN queue
               /\ queue'[Len(queue) + 1] = key
               /\ \A i \in DOMAIN queue : queue'[i] = queue[i]
         /\ queue # <<>> /\ queue' = Tail(queue) =>
               /\ 1 \in DOMAIN queue /\ queue[1] = Head(queue)
               /\ \A i \in DOMAIN queue' : i + 1 \in DOMAIN queue /\ queue'[i] = queue[i + 1]
               /\ \A i \in DOMAIN queue \ {1} :
                     i - 1 \in DOMAIN queue' /\ queue'[i - 1] = queue[i]
               /\ DOMAIN queue' \subseteq Nat \ {0} /\ DOMAIN queue \subseteq Nat \ {0}
<1>1. Len(queue) \in Nat /\ DOMAIN queue = 1..Len(queue)
  BY LenProperties
<1>2. ASSUME NEW key \in Keys, queue' = Append(queue, key)
      PROVE  /\ DOMAIN queue' = DOMAIN queue \cup {Len(queue) + 1}
             /\ Len(queue) + 1 \notin DOMAIN queue
             /\ queue'[Len(queue) + 1] = key
             /\ \A i \in DOMAIN queue : queue'[i] = queue[i]
  <2>1. /\ Len(queue') = Len(queue) + 1
        /\ queue'[Len(queue) + 1] = key
        /\ \A i \in 1..Len(queue) : queue'[i] = queue[i]
        /\ DOMAIN queue' = 1..(Len(queue) + 1)
    BY <1>2, AppendProperties, LenProperties
  <2> QED
    BY <1>1, <2>1
<1>3. ASSUME queue # <<>>, queue' = Tail(queue)
      PROVE  /\ 1 \in DOMAIN queue /\ queue[1] = Head(queue)
             /\ \A i \in DOMAIN queue' : i + 1 \in DOMAIN queue /\ queue'[i] = queue[i + 1]
             /\ \A i \in DOMAIN queue \ {1} :
                   i - 1 \in DOMAIN queue' /\ queue'[i - 1] = queue[i]
             /\ DOMAIN queue' \subseteq Nat \ {0} /\ DOMAIN queue \subseteq Nat \ {0}
  <2>1. /\ queue' \in Seq(Keys) /\ Len(queue') = Len(queue) - 1
        /\ \A i \in 1..Len(queue') : queue'[i] = queue[i + 1]
        /\ Len(queue) # 0
    BY <1>3, HeadTailProperties, EmptySeq
  <2>2. DOMAIN queue' = 1..Len(queue') /\ Head(queue) = queue[1]
    BY <2>1, LenProperties
  <2> QED
    BY <1>1, <2>1, <2>2
<1> QED
  BY <1>2, <1>3

\* Tasks are tasks, and keys have vaults.
LEMMA RunnersAreTasks ==
  ASSUME ServiceInv
  PROVE  /\ task \in [Threads -> Task \cup {Idle}]
         /\ \A w \in Threads : Busy(w) <=> task[w] \in Task
         /\ queue \in Seq(Keys)
         /\ TypeOK
  BY IdleIsNoTask DEF ServiceInv, Keyed, TypeOK, WorkerTypeOK, Busy

\* A submitted task takes its slot and its vault (lines 137-142); both were free.
LEMMA SubmitKeepsSlots == ASSUME ServiceInv, SlotInv, Submit PROVE SlotInv'
<1> DEFINE key == Head(batch)
<1>1. CASE UNCHANGED <<inFlight, vaultsInFlight, queue, task>>
  BY <1>1 DEF SlotInv, OneTaskPerVault, SlotsAreTasks, Runners, Running, Busy, At, Vault
<1>2. CASE /\ batch # <<>> /\ Free(key)
           /\ inFlight' = inFlight \cup {key}
           /\ vaultsInFlight' = vaultsInFlight \cup {key[1]}
           /\ queue' = Append(queue, key)
           /\ task' = task
  <2>1. key \in Keys
    BY <1>2, HeadTailProperties DEF ServiceInv, Keyed
  <2>2. /\ DOMAIN queue' = DOMAIN queue \cup {Len(queue) + 1}
        /\ Len(queue) + 1 \notin DOMAIN queue
        /\ queue'[Len(queue) + 1] = key
        /\ \A i \in DOMAIN queue : queue'[i] = queue[i]
    BY <1>2, <2>1, QueueChanges, RunnersAreTasks
  <2>3. /\ Runners' = Runners
        /\ \A w \in Runners : Vault(w)' = Vault(w) /\ task'[w].key = task[w].key
    BY <1>2 DEF Runners, Running, Busy, At, Vault
  <2>4. /\ \A w \in Runners : Vault(w) # key[1]
        /\ \A i \in DOMAIN queue : queue[i][1] # key[1]
    BY <1>2 DEF Free, SlotInv, SlotsAreTasks
  <2>5. OneTaskPerVault'
    BY <2>2, <2>3, <2>4 DEF SlotInv, OneTaskPerVault
  <2>6. SlotsAreTasks'
    BY <1>2, <2>2, <2>3 DEF SlotInv, SlotsAreTasks
  <2> QED
    BY <2>5, <2>6 DEF SlotInv
<1> QED
  BY <1>1, <1>2 DEF Submit, poolVars

\* The slot goes with the task from the queue to the thread.
LEMMA TakeKeepsSlots ==
  ASSUME ServiceInv, SlotInv, NEW w \in Threads, Take(w)
  PROVE  SlotInv'
<1> DEFINE key == Head(queue)
<1>1. /\ queue # <<>> /\ queue' = Tail(queue)
      /\ w \notin Runners
      /\ UNCHANGED <<inFlight, vaultsInFlight>>
      /\ task' = [task EXCEPT ![w] = Begun(key)]
  BY DEF Take, Runners, Running
<1>2. /\ Runners' = Runners \cup {w}
      /\ task'[w].key = key /\ Vault(w)' = key[1]
      /\ \A x \in Runners : Vault(x)' = Vault(x) /\ task'[x].key = task[x].key
  <2>1. task'[w] = Begun(key) /\ \A x \in Threads \ {w} : task'[x] = task[x]
    BY <1>1, RunnersAreTasks
  <2>2. Begun(key).key = key /\ Begun(key).step \in {"file", "release"}
    BY DEF Begun
  <2>3. Running(w)'
    BY <2>1, <2>2 DEF Running, Busy, At, Idle
  <2>4. \A x \in Threads \ {w} : Running(x)' <=> Running(x)
    BY <2>1 DEF Running, Busy, At
  <2> QED
    BY <1>1, <2>1, <2>2, <2>3, <2>4 DEF Runners, Vault
<1>3. /\ 1 \in DOMAIN queue /\ queue[1] = key
      /\ \A i \in DOMAIN queue' : i + 1 \in DOMAIN queue /\ queue'[i] = queue[i + 1]
      /\ \A i \in DOMAIN queue \ {1} : i - 1 \in DOMAIN queue' /\ queue'[i - 1] = queue[i]
      /\ DOMAIN queue' \subseteq Nat \ {0} /\ DOMAIN queue \subseteq Nat \ {0}
  BY <1>1, QueueChanges, RunnersAreTasks
<1>4. OneTaskPerVault'
  <2>1. \A i \in DOMAIN queue' : queue'[i][1] # key[1]
    BY <1>3 DEF SlotInv, OneTaskPerVault
  <2>2. \A i, j \in DOMAIN queue' : queue'[i][1] = queue'[j][1] => i = j
    BY <1>3 DEF SlotInv, OneTaskPerVault
  <2>3. \A x \in Runners : Vault(x) # key[1] /\ \A i \in DOMAIN queue' : Vault(x) # queue'[i][1]
    BY <1>3 DEF SlotInv, OneTaskPerVault
  <2> QED
    BY <1>1, <1>2, <2>1, <2>2, <2>3 DEF SlotInv, OneTaskPerVault
<1>5. SlotsAreTasks'
  <2>1. {queue[i] : i \in DOMAIN queue} = {queue'[i] : i \in DOMAIN queue'} \cup {key}
    BY <1>3
  <2>2. {queue[i][1] : i \in DOMAIN queue} = {queue'[i][1] : i \in DOMAIN queue'} \cup {key[1]}
    BY <1>3
  <2>3. /\ {task'[x].key : x \in Runners'} = {task[x].key : x \in Runners} \cup {key}
        /\ {Vault(x)' : x \in Runners'} = {Vault(x) : x \in Runners} \cup {key[1]}
    BY <1>2
  <2> QED
    BY <1>1, <2>1, <2>2, <2>3 DEF SlotInv, SlotsAreTasks
<1> QED
  BY <1>4, <1>5 DEF SlotInv

\* A thread keeps its slot until it releases it, and releases only its own.
LEMMA TaskStepKeepsSlots ==
  ASSUME ServiceInv, SlotInv, NEW w \in Threads, TaskStep(w)
  PROVE  SlotInv'
<1>0. /\ task \in [Threads -> Task \cup {Idle}] /\ TypeOK
      /\ queue' = queue
      /\ task[w] \in Task /\ Busy(w)
      /\ \A x \in Threads \ {w} : task'[x] = task[x]
      /\ \/ task'[w] = Idle
         \/ task'[w] \in Task /\ task'[w].key = task[w].key
  BY RunnersAreTasks, TaskStepOfThread
<1>a. \A x \in Threads \ {w} : /\ x \in Runners' <=> x \in Runners
                               /\ Vault(x)' = Vault(x) /\ task'[x].key = task[x].key
  BY <1>0 DEF Runners, Running, Busy, At, Vault
<1>1. CASE Attempt(w)
  <2>1. /\ UNCHANGED <<inFlight, vaultsInFlight>>
        /\ task[w].step \in {"file", "post", "answered"}
        /\ \E step \in {"post", "answered", "release"} : Goto(w, step)
    BY <1>1 DEF Attempt, FileGone, FileThere, PostAnswered, RecordSent, PostFails, TaskRaises, At
  <2>2. w \in Runners /\ w \in Runners' /\ Vault(w)' = Vault(w) /\ task'[w].key = task[w].key
    BY <1>0, <2>1, StepOfTask, IdleIsNoTask DEF Runners, Running, Busy, At, Vault, Steps
  <2>3. Runners' = Runners
    BY <1>a, <2>2 DEF Runners
  <2>4. \A x \in Runners : Vault(x)' = Vault(x) /\ task'[x].key = task[x].key
    BY <1>a, <2>2 DEF Runners
  <2> QED
    BY <1>0, <2>1, <2>3, <2>4 DEF SlotInv, OneTaskPerVault, SlotsAreTasks
<1>2. CASE Release(w)
  <2>1. /\ inFlight' = inFlight \ {task[w].key}
        /\ vaultsInFlight' = vaultsInFlight \ {Vault(w)}
        /\ At(w, "release") /\ Goto(w, "wake")
    BY <1>2 DEF Release
  <2>2. w \in Runners /\ w \notin Runners'
    BY <1>0, <2>1, StepOfTask, IdleIsNoTask DEF Runners, Running, Busy, At, Steps
  <2>3. Runners' = Runners \ {w}
    BY <1>a, <2>2 DEF Runners
  <2>4. \A x \in Runners' : x \in Runners /\ x # w /\ Vault(x)' = Vault(x) /\ task'[x].key = task[x].key
    BY <1>a, <2>3 DEF Runners
  <2>5. /\ \A x \in Runners' : Vault(x) # Vault(w) /\ task[x].key # task[w].key
        /\ \A i \in DOMAIN queue : queue[i][1] # Vault(w) /\ queue[i] # task[w].key
    BY <2>2, <2>4 DEF SlotInv, OneTaskPerVault, Vault
  <2>6. OneTaskPerVault'
    BY <1>0, <2>4 DEF SlotInv, OneTaskPerVault
  <2>7. /\ {task'[x].key : x \in Runners'} = {task[x].key : x \in Runners} \ {task[w].key}
        /\ {Vault(x)' : x \in Runners'} = {Vault(x) : x \in Runners} \ {Vault(w)}
    BY <2>3, <2>4, <2>5
  <2>8. /\ inFlight' = {task'[x].key : x \in Runners'} \cup {queue[i] : i \in DOMAIN queue}
        /\ vaultsInFlight' = {Vault(x)' : x \in Runners'} \cup {queue[i][1] : i \in DOMAIN queue}
    <3>1. /\ task[w].key \notin {queue[i] : i \in DOMAIN queue}
          /\ Vault(w) \notin {queue[i][1] : i \in DOMAIN queue}
      BY <2>5
    <3> QED
      BY <2>1, <2>7, <3>1 DEF SlotInv, SlotsAreTasks
  <2> QED
    BY <1>0, <2>6, <2>8 DEF SlotInv, SlotsAreTasks
<1>3. CASE WakeScheduler(w)
  <2>1. UNCHANGED <<inFlight, vaultsInFlight>> /\ At(w, "wake") /\ task' = [task EXCEPT ![w] = Idle]
    BY <1>3 DEF WakeScheduler
  <2>2. w \notin Runners /\ w \notin Runners'
    BY <1>0, <2>1 DEF Runners, Running, Busy
  <2>3. Runners' = Runners
    BY <1>a, <2>2 DEF Runners
  <2>4. \A x \in Runners : Vault(x)' = Vault(x) /\ task'[x].key = task[x].key
    BY <1>a, <2>2 DEF Runners
  <2> QED
    BY <1>0, <2>1, <2>3, <2>4 DEF SlotInv, OneTaskPerVault, SlotsAreTasks
<1> QED
  BY <1>1, <1>2, <1>3 DEF TaskStep

\* A fresh process has no slots.
LEMMA ResetKeepsSlots == ASSUME ResetWorker PROVE SlotInv'
<1>1. Runners' = {} /\ queue' = <<>>
  BY DEF ResetWorker, Runners, Running, Busy
<1> QED
  BY <1>1 DEF ResetWorker, SlotInv, OneTaskPerVault, SlotsAreTasks

\* Every step of the service keeps the slots those of the tasks.
LEMMA SlotsKept == ServiceInv /\ SlotInv /\ [Next]_vars => SlotInv'
<1> SUFFICES ASSUME ServiceInv, SlotInv, [Next]_vars PROVE SlotInv'
  OBVIOUS
<1>1. CASE UNCHANGED poolVars
  BY <1>1 DEF poolVars, SlotInv, OneTaskPerVault, SlotsAreTasks, Runners, Running, Busy, At, Vault
<1>2. UNCHANGED vars => UNCHANGED poolVars
  BY DEF vars, workerVars
<1> QED
  BY <1>1, <1>2, PoolChanges, SubmitKeepsSlots, TakeKeepsSlots, TaskStepKeepsSlots,
     ResetKeepsSlots DEF Query

\* No slot is taken before anything runs.
LEMMA InitSlots == Init => SlotInv
<1> SUFFICES ASSUME Init PROVE SlotInv
  OBVIOUS
<1>1. Runners = {} /\ queue = <<>> /\ inFlight = {} /\ vaultsInFlight = {}
  BY DEF Init, WorkerInit, Runners, Running, Busy
<1> QED
  BY <1>1 DEF SlotInv, OneTaskPerVault, SlotsAreTasks

\* In every reachable state each slot belongs to one task.
LEMMA SlotInvariant == Spec => [](ServiceInv /\ SlotInv)
  BY InitServiceInv, InitSlots, StepKeepsServiceInv, SlotsKept, PTL DEF Spec

-----------------------------------------------------------------------------
(* Counting.                                                                *)

\* As many vaults are taken as there are tasks.
LEMMA SlotsCounted ==
  ASSUME ServiceInv, SlotInv
  PROVE  Cardinality(vaultsInFlight) = Cardinality(Runners) + Len(queue)
<1> DEFINE running == {Vault(w) : w \in Runners}
           queued == {queue[i][1] : i \in DOMAIN queue}
<1>1. IsFiniteSet(Runners)
  BY WorkerAssumption, FS_Subset DEF Runners
<1>2. Len(queue) \in Nat /\ DOMAIN queue = 1..Len(queue)
  BY LenProperties DEF ServiceInv, Keyed
<1>3. IsFiniteSet(running) /\ Cardinality(running) = Cardinality(Runners)
  <2> DEFINE f == [w \in Runners |-> Vault(w)]
  <2>1. f \in Bijection(Runners, running)
    BY DEF Bijection, Injection, Surjection, IsInjective, SlotInv, OneTaskPerVault
  <2> QED
    BY <1>1, <2>1, FS_Bijection DEF ExistsBijection
<1>4. IsFiniteSet(queued) /\ Cardinality(queued) = Len(queue)
  <2> DEFINE g == [i \in 1..Len(queue) |-> queue[i][1]]
  <2>1. g \in Bijection(1..Len(queue), queued)
    BY <1>2 DEF Bijection, Injection, Surjection, IsInjective, SlotInv, OneTaskPerVault
  <2>2. IsFiniteSet(1..Len(queue)) /\ Cardinality(1..Len(queue)) = Len(queue)
    <3>1. \A n \in Nat : IsFiniteSet(1..n) /\ Cardinality(1..n) = n
      <4> SUFFICES ASSUME NEW n \in Nat PROVE IsFiniteSet(1..n) /\ Cardinality(1..n) = n
        OBVIOUS
      <4> QED
        BY FS_Interval
    <3> QED
      BY <1>2, <3>1
  <2> QED
    BY <2>1, <2>2, FS_Bijection DEF ExistsBijection
<1>5. running \cap queued = {}
  BY DEF SlotInv, OneTaskPerVault
<1>6. Cardinality(running \cup queued) = Cardinality(running) + Cardinality(queued) - Cardinality({})
  BY <1>3, <1>4, <1>5, FS_Union
<1>7. Cardinality(Runners) \in Nat /\ Cardinality({}) = 0
  BY <1>1, FS_CardinalityType, FS_EmptySet
<1>8. vaultsInFlight = running \cup queued
  BY DEF SlotInv, SlotsAreTasks
<1> HIDE DEF running, queued
<1> QED
  BY <1>2, <1>3, <1>4, <1>6, <1>7, <1>8

\* Slots are neither leaked nor shared, whatever is submitted, fails, raises or is
\* posted, and in every process the database sees: the documents and vaults in
\* flight are those of the queued and running tasks, and a vault has one at a time.
THEOREM ServiceSlotsMatchTasks == Spec => []SlotsMatchTasks
<1>1. ServiceInv /\ SlotInv => SlotsMatchTasks
  <2> SUFFICES ASSUME ServiceInv, SlotInv PROVE SlotsMatchTasks
    OBVIOUS
  <2> DEFINE keys == {task[w].key : w \in Runners} \cup {queue[i] : i \in DOMAIN queue}
  <2>1. Runners = {w \in Threads : Busy(w) /\ ~ At(w, "wake")}
    BY DEF Runners, Running
  <2>2. inFlight = keys
    BY DEF SlotInv, SlotsAreTasks
  <2>3. vaultsInFlight = {key[1] : key \in keys}
    BY DEF SlotInv, SlotsAreTasks, Vault
  <2> QED
    BY <2>1, <2>2, <2>3, SlotsCounted DEF SlotsMatchTasks
<1> QED
  BY <1>1, SlotInvariant, PTL

\* No more documents are being posted than there are vaults: a second document of
\* a vault waits for the first to be finished with (delivery.py:137-138).
THEOREM ServiceOneTaskPerVault == Spec => []OneTaskPerVault
<1>1. SlotInv => OneTaskPerVault
  BY DEF SlotInv
<1> QED
  BY <1>1, SlotInvariant, PTL
=============================================================================
