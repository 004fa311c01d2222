-------------------------- MODULE VaultWatchProofs --------------------------
(***************************************************************************)
(* What the runs of VaultWatch check on two documents, for any set of      *)
(* paths, any renames and any number of documents, edits and faults: its   *)
(* types; that no document is posted under a draft's name; that none is    *)
(* announced twice, posted while it is being changed before it is          *)
(* recorded, or missed; and that the rows agree with the files.            *)
(*                                                                         *)
(* Users act at any moment: while events are queued, a callback runs, a    *)
(* scan, a due delivery or a POST is under way.  The hypotheses Uncrossed, *)
(* Patient, Prompt, Unhurried and Attentive name the few orders that a     *)
(* theorem excludes, all of them at the path that is touched but for the   *)
(* baseline of a new vault and renames during a scan; a configuration      *)
(* beside the runs shows what the code does in each of them.               *)
(***************************************************************************)
EXTENDS VaultWatch, StateStoreProofs, SequenceTheorems

\* What the observer's queue holds.
Moves == { <<"moved", move[1], move[2]>> : move \in { m \in Renames : m[1] # m[2] } }
Event == ({"changed", "deleted"} \X Paths) \cup Moves

\* The inductive invariant of every vault: no row is kept for a path that is
\* not eligible.
VaultInv ==
    /\ StoreInv
    /\ TypeOK
    /\ events \in Seq(Event)
    /\ \A p \in Outside : Rows[p] = NoRow

-----------------------------------------------------------------------------
(* The rows after each operation of the store.                              *)

\* There is one vault, its paths and documents are those of the store.
LEMMA OneVault ==
  /\ Vault \in Vaults /\ \A v \in Vaults : v = Vault
  /\ Drafts \subseteq Paths /\ Outside \subseteq Paths /\ Renames \subseteq Paths \X Paths
  /\ Quiet \in Nat /\ MaxDocs \in Nat /\ Documents = Posts /\ Documents \subseteq Nat
  /\ NoDoc \notin Documents
  BY VaultAssumption DEF Documents, NoDoc

\* What is in the queue names paths; a move is one of the renames users perform.
LEMMA EventShape ==
  ASSUME NEW e \in Event
  PROVE  /\ e[1] \in {"changed", "deleted", "moved"} /\ e[2] \in Paths
         /\ e[1] = "moved" => e[3] \in Paths /\ e[2] # e[3] /\ <<e[2], e[3]>> \in Renames
<1>1. CASE e \in {"changed", "deleted"} \X Paths
  BY <1>1
<1>2. CASE e \in Moves
  <2>1. PICK move \in Renames : move[1] # move[2] /\ e = <<"moved", move[1], move[2]>>
    BY <1>2 DEF Moves
  <2> QED
    BY <2>1, OneVault
<1> QED
  BY <1>1, <1>2 DEF Event

\* A step that changes every row in a way of the store keeps the store's invariant.
LEMMA RowsKept ==
  ASSUME StoreInv, IsTable(documents'), vaults' \in {vaults, vaults \cup {Vault}}, now' \in Nat,
         \A p \in Paths : RowStep(Vault, p),
         Vault \notin vaults' => \A p \in Paths : ~ Exists(Rows'[p])
  PROVE  StoreInv'
<1>1. \A v \in Vaults, p \in Paths : GoodRow(documents'[v][p])
  BY RowStepKeepsGood, OneVault
<1>2. vaults' \subseteq Vaults
  BY OneVault DEF StoreInv, StoreTypeOK
<1>3. documents' \in [Vaults -> [Paths -> Row]]
  BY <1>1 DEF IsTable, GoodRow
<1>4. RowsBelongToKnownVaults'
  BY OneVault DEF RowsBelongToKnownVaults, Rows
<1> QED
  BY <1>1, <1>2, <1>3, <1>4 DEF StoreInv, StoreTypeOK, GoodRow

\* What the invariant of the store says of the rows of the vault.
LEMMA RowFacts ==
  ASSUME StoreInv
  PROVE  /\ IsTable(documents) /\ Rows \in [Paths -> Row] /\ now \in Nat
         /\ \A p \in Paths : GoodRow(Rows[p])
         /\ Vault \notin vaults => \A p \in Paths : Rows[p].status = "none"
  BY OneVault DEF StoreInv, StoreTypeOK, IsTable, Rows, RowsBelongToKnownVaults, Exists

\* Opening the database migrates the rows.
LEMMA Opened ==
  ASSUME StoreInv, Open
  PROVE  StoreInv' /\ UNCHANGED <<vaults, now>> /\ \A p \in Paths : Rows'[p] = Migrated(Rows[p])
<1>1. \A p \in Paths : Rows'[p] = Migrated(Rows[p]) /\ Migrated(Rows[p]).status = Rows[p].status
  BY OneVault, RowFacts DEF Open, Rows, Migrated, Row
<1>2. IsTable(documents')
  BY DEF Open, IsTable
<1> QED
  BY <1>1, <1>2, RowsKept, RowFacts DEF Open, RowStep, Rows, Exists

\* So does resuming.
LEMMA ResumedRows ==
  ASSUME StoreInv, ResumePending
  PROVE  StoreInv' /\ UNCHANGED <<vaults, now>> /\ \A p \in Paths : Rows'[p] = Resumed(Rows[p])
<1>1. \A p \in Paths : Rows'[p] = Resumed(Rows[p]) /\ Resumed(Rows[p]).status = Rows[p].status
  BY OneVault, RowFacts DEF ResumePending, Rows, Resumed, Row
<1>2. IsTable(documents')
  BY DEF ResumePending, IsTable
<1> QED
  BY <1>1, <1>2, RowsKept, RowFacts DEF ResumePending, RowStep, Rows, Exists

\* An observation concerns one row and makes the vault known.
LEMMA ObservedRows ==
  ASSUME StoreInv, NEW p \in Paths, ObserveNew(Vault, p)
  PROVE  /\ StoreInv' /\ vaults' = vaults \cup {Vault} /\ UNCHANGED now
         /\ Rows'[p] = Observed(Rows[p], now)
         /\ \A q \in Paths \ {p} : Rows'[q] = Rows[q]
<1>1. /\ Rows'[p] = Observed(Rows[p], now) /\ \A q \in Paths \ {p} : Rows'[q] = Rows[q]
      /\ now \in Nat /\ IsTable(documents')
  BY OneVault, RowFacts, UpdatedTable DEF ObserveNew, Rows, IsTable
<1> QED
  BY <1>1, RowsKept DEF ObserveNew, RowStep, Rows

\* Marking a document missing concerns one row.
LEMMA MissingRows ==
  ASSUME StoreInv, NEW p \in Paths, MarkMissing(Vault, p)
  PROVE  /\ StoreInv' /\ UNCHANGED <<vaults, now>>
         /\ Rows'[p] = Missing(Rows[p])
         /\ \A q \in Paths \ {p} : Rows'[q] = Rows[q]
<1>1. /\ Rows'[p] = Missing(Rows[p]) /\ \A q \in Paths \ {p} : Rows'[q] = Rows[q]
      /\ IsTable(documents')
  BY OneVault, RowFacts, UpdatedTable DEF MarkMissing, Rows, IsTable
<1>2. Missing(Rows[p]).status = Rows[p].status
  BY RowFacts DEF Missing, Row
<1> QED
  BY <1>1, <1>2, RowsKept, RowFacts DEF MarkMissing, RowStep, Rows, Exists

\* A moved row leaves its path and replaces the row at the other.
LEMMA MovedRows ==
  ASSUME StoreInv, NEW p \in Paths, NEW q \in Paths, p # q, MovePath(Vault, p, q)
  PROVE  /\ StoreInv' /\ UNCHANGED <<vaults, now>>
         /\ \A r \in Paths \ {p, q} : Rows'[r] = Rows[r]
         /\ IF Exists(Rows[p])
            THEN Rows'[p] = NoRow /\ Rows'[q] = [Rows[p] EXCEPT !.present = TRUE]
            ELSE Rows'[p] = Rows[p] /\ Rows'[q] = Rows[q]
<1>1. Rows' = MoveResult(Rows, p, q)
  BY OneVault, RowFacts DEF MovePath, Rows, IsTable
<1>2. /\ \A r \in Paths \ {p, q} : Rows'[r] = Rows[r]
      /\ IF Exists(Rows[p])
         THEN Rows'[p] = NoRow /\ Rows'[q] = [Rows[p] EXCEPT !.present = TRUE]
         ELSE Rows'[p] = Rows[p] /\ Rows'[q] = Rows[q]
  BY <1>1, RowFacts DEF MoveResult
<1>3. IsTable(documents')
  <2>1. MoveResult(Rows, p, q) = [r \in Paths |-> MoveResult(Rows, p, q)[r]]
    BY RowFacts DEF MoveResult
  <2> QED
    BY <2>1, OneVault, RowFacts, ReplacedTable DEF MovePath, Rows
<1>4. \A r \in Paths : RowStep(Vault, r)
  BY <1>2 DEF RowStep, Rows
<1>5. Vault \notin vaults => \A r \in Paths : ~ Exists(Rows'[r])
  BY <1>2, RowFacts DEF Exists
<1> QED
  BY <1>2, <1>3, <1>4, <1>5, RowsKept, RowFacts DEF MovePath

\* Completing a delivery concerns one row, and only while it is pending.
LEMMA SentRows ==
  ASSUME StoreInv, NEW p \in Paths, NEW g, NEW d \in Documents, MarkSent(Vault, p, g, d)
  PROVE  /\ StoreInv' /\ UNCHANGED <<vaults, now>>
         /\ Rows'[p] = IF AcceptsSent(Rows[p], g) THEN Sent(Rows[p], d) ELSE Rows[p]
         /\ \A q \in Paths \ {p} : Rows'[q] = Rows[q]
<1>1. /\ Rows'[p] = IF AcceptsSent(Rows[p], g) THEN Sent(Rows[p], d) ELSE Rows[p]
      /\ \A q \in Paths \ {p} : Rows'[q] = Rows[q]
      /\ IsTable(documents')
  BY OneVault, RowFacts, UpdatedTable DEF MarkSent, Rows, IsTable
<1>2. \A r \in Paths : RowStep(Vault, r)
  BY <1>1, OneVault DEF RowStep, Rows, AcceptsSent
<1>3. Vault \notin vaults => \A r \in Paths : ~ Exists(Rows'[r])
  BY <1>1, RowFacts DEF Exists, AcceptsSent
<1> QED
  BY <1>1, <1>2, <1>3, RowsKept, RowFacts DEF MarkSent

\* A scan makes the vault known and reconciles every row with what it found.
LEMMA ScannedRows ==
  ASSUME StoreInv, NEW found, NEW at \in Nat, Reconcile(Vault, found, at)
  PROVE  /\ StoreInv' /\ vaults' = vaults \cup {Vault} /\ UNCHANGED now
         /\ \A p \in Paths : Rows'[p] = IF Vault \in vaults THEN Reconciled(Rows[p], p \in found, at)
                                        ELSE IF p \in found THEN BaselineRow ELSE Rows[p]
<1>1. /\ \A p \in Paths : Rows'[p] = IF Vault \in vaults THEN Reconciled(Rows[p], p \in found, at)
                                     ELSE IF p \in found THEN BaselineRow ELSE Rows[p]
      /\ IsTable(documents')
  BY OneVault, RowFacts, ReplacedTable DEF Reconcile, ScanResult, Rows, IsTable
<1>2. \A r \in Paths : RowStep(Vault, r)
  BY <1>1 DEF RowStep, Rows, Reconciled
<1> QED
  BY <1>1, <1>2, RowsKept, RowFacts DEF Reconcile

-----------------------------------------------------------------------------
(* The types.                                                               *)

\* An event at the end of the queue, or none when nobody watches, keeps the queue typed.
LEMMA EmittedEvent ==
  ASSUME events \in Seq(Event), NEW e \in Event, Emit(e) PROVE events' \in Seq(Event)
  BY DEF Emit

\* Every path of every event is a path, and what is left of the queue is one.
LEMMA HandledEvent ==
  ASSUME events \in Seq(Event), NEW kind \in {"changed", "deleted", "moved"}, NextEvent(kind)
  PROVE  /\ Head(events) \in Event /\ Head(events)[1] = kind /\ events' \in Seq(Event)
         /\ Head(events)[2] \in Paths
         /\ kind = "moved" => /\ Head(events)[3] \in Paths
                              /\ Head(events)[2] # Head(events)[3]
                              /\ <<Head(events)[2], Head(events)[3]>> \in Renames
<1>1. Head(events) \in Event /\ Head(events)[1] = kind /\ events' \in Seq(Event)
  BY HeadTailProperties DEF NextEvent
<1> QED
  BY <1>1, EventShape

\* An operation of the store on rows of eligible paths, or none.
RowsStep ==
    \/ UNCHANGED storeVars
    \/ Tick
    \/ Open
    \/ ResumePending
    \/ \E at \in Nat : Reconcile(Vault, scan.found, at) /\ scan.phase = "reconcile"
    \/ \E p \in Scannable : ObserveNew(Vault, p)
    \/ \E p \in Paths : MarkMissing(Vault, p)
    \/ \E p, q \in Eligible : p # q /\ <<p, q>> \in Renames /\ MovePath(Vault, p, q)
    \/ \E p \in Paths, g \in Nat, d \in Documents : MarkSent(Vault, p, g, d)

\* Whatever the threads do, they use the store for paths they may.
LEMMA StepOnRows == ASSUME TypeOK, events \in Seq(Event), Next PROVE RowsStep
<1>0. /\ scan.found \in SUBSET Scannable /\ scan.since \in Nat
      /\ delivering # Nothing => delivering \in Paths \X Nat \X (Documents \cup {NoDoc})
      /\ observing # Nothing => observing \in Scannable
  BY DEF TypeOK
<1>1. CASE Users
  BY <1>1 DEF Users, Create, Modify, Delete, Rename, RowsStep
<1>2. CASE OnCreated
  BY <1>2 DEF OnCreated, RowsStep
<1>3. CASE OnDeleted
  BY <1>3, HandledEvent DEF OnDeleted, RowsStep
<1>4. CASE OnMoved
  <2>1. PICK p \in Paths, q \in Paths : p # q /\ <<p, q>> \in Renames /\ Moved(p, q)
    BY <1>4, HandledEvent DEF OnMoved
  <2>2. \/ p \in Eligible /\ q \in Eligible /\ MovePath(Vault, p, q)
        \/ MarkMissing(Vault, p)
        \/ UNCHANGED storeVars
    BY <2>1 DEF Moved, Eligible
  <2> QED
    BY <2>1, <2>2 DEF RowsStep
<1>5. CASE Dispatcher
  <2>1. CASE Observe
    BY <1>0, <2>1 DEF Observe, RowsStep
  <2>2. ASSUME NEW p \in Paths, DispatchGone(p) \/ Dispatch(p) PROVE UNCHANGED storeVars
    BY <2>2 DEF DispatchGone, Dispatch, Take
  <2> QED
    BY <1>5, <2>1, <2>2 DEF Dispatcher, RowsStep
<1>6. CASE Main
  <2>1. CASE FinishScan
    <3>1. scan.since + Quiet \in Nat
      BY <1>0, OneVault
    <3> QED
      BY <2>1, <3>1 DEF FinishScan, RowsStep
  <2> QED
    BY <1>6, <2>1 DEF Main, ReadDirectory, StartWorker, ReplaceWatcher, RowsStep
<1>7. CASE Delivery
  <2>1. CASE Conclude
    <3>1. PICK p \in Paths, g \in Nat, d \in Documents \cup {NoDoc} : delivering = <<p, g, d>>
      BY <1>0, <2>1 DEF Conclude
    <3>2. IF d = NoDoc THEN MarkMissing(Vault, p) ELSE MarkSent(Vault, p, g, d)
      BY <2>1, <3>1 DEF Conclude
    <3> QED
      BY <3>1, <3>2 DEF RowsStep
  <2> QED
    BY <1>7, <2>1 DEF Delivery, Attempt, RowsStep
<1>8. CASE Start
  BY <1>8 DEF Start, RowsStep
<1>9. CASE ObserveRaises \/ WatcherDies \/ Crash \/ Clock \/ Rest
  BY <1>9 DEF ObserveRaises, WatcherDies, Crash, Clock, Rest, vars, RowsStep
<1> QED
  BY <1>1, <1>2, <1>3, <1>4, <1>5, <1>6, <1>7, <1>8, <1>9 DEF Next, Observer

\* Such an operation keeps the invariant of the store, and writes no row at paths
\* nothing is observed at and no document is renamed to.
LEMMA RowsStepKept ==
  ASSUME StoreInv, TypeOK, RowsStep, NEW S \in SUBSET Paths, S \cap Scannable = {},
         \A p, q \in Eligible : <<p, q>> \in Renames => q \notin S,
         \A r \in S : Rows[r] = NoRow
  PROVE  StoreInv' /\ \A r \in S : Rows'[r] = NoRow
<1>0. /\ scan.found \subseteq Scannable /\ Scannable \subseteq Eligible /\ Eligible \subseteq Paths
      /\ \A r \in S : r \in Paths /\ Rows[r] = NoRow
  BY DEF TypeOK, Scannable, Eligible
<1>n. NoRow.status = "none" /\ NoRow.present = FALSE
  BY DEF NoRow
<1>a. Missing(NoRow) = NoRow /\ Resumed(NoRow) = NoRow /\ Migrated(NoRow) = NoRow
  <2>1. Missing(NoRow) = NoRow
    <3>1. NoRow \in Row
      BY GoodNoRow DEF GoodRow
    <3>2. \A row \in Row : ~ row.present => Missing(row) = row
      BY DEF Missing, Row
    <3> QED
      BY <1>n, <3>1, <3>2
  <2> QED
    BY <1>n, <2>1 DEF Resumed, Deliverable, Migrated
<1>1. CASE UNCHANGED storeVars
  BY <1>0, <1>1 DEF storeVars, Rows, StoreInv, StoreTypeOK, RowsBelongToKnownVaults, GoodRow
<1>2. CASE Tick
  BY <1>0, <1>2 DEF Tick, Rows, StoreInv, StoreTypeOK, RowsBelongToKnownVaults, GoodRow
<1>3. CASE Open
  BY <1>0, <1>a, <1>3, Opened
<1>4. CASE ResumePending
  BY <1>0, <1>a, <1>4, ResumedRows
<1>5. ASSUME NEW at \in Nat, Reconcile(Vault, scan.found, at)
      PROVE  StoreInv' /\ \A r \in S : Rows'[r] = NoRow
  <2>1. /\ StoreInv'
        /\ \A p \in Paths : Rows'[p] = IF Vault \in vaults THEN Reconciled(Rows[p], p \in scan.found, at)
                                       ELSE IF p \in scan.found THEN BaselineRow ELSE Rows[p]
    BY <1>0, <1>5, ScannedRows
  <2>2. \A r \in S : r \notin scan.found
    BY <1>0
  <2> QED
    BY <1>0, <1>a, <2>1, <2>2 DEF Reconciled
<1>6. ASSUME NEW p \in Scannable, ObserveNew(Vault, p)
      PROVE  StoreInv' /\ \A r \in S : Rows'[r] = NoRow
  BY <1>0, <1>6, ObservedRows
<1>7. ASSUME NEW p \in Paths, MarkMissing(Vault, p)
      PROVE  StoreInv' /\ \A r \in S : Rows'[r] = NoRow
  BY <1>0, <1>a, <1>7, MissingRows
<1>8. ASSUME NEW p \in Eligible, NEW q \in Eligible, <<p, q>> \in Renames, p # q,
             MovePath(Vault, p, q)
      PROVE  StoreInv' /\ \A r \in S : Rows'[r] = NoRow
  <2>1. p \in Paths /\ q \in Paths
    BY <1>0
  <2>2. StoreInv' /\ \A r \in Paths \ {p, q} : Rows'[r] = Rows[r]
    BY <1>0, <1>8, <2>1, MovedRows
  <2>3. p \in S => Rows'[p] = Rows[p]
    BY <1>0, <1>n, <1>8, <2>1, MovedRows DEF Exists
  <2>4. q \notin S
    BY <1>8
  <2> QED
    BY <1>0, <2>2, <2>3, <2>4
<1>9. ASSUME NEW p \in Paths, NEW g \in Nat, NEW d \in Documents, MarkSent(Vault, p, g, d)
      PROVE  StoreInv' /\ \A r \in S : Rows'[r] = NoRow
  <2>1. /\ StoreInv' /\ \A r \in Paths \ {p} : Rows'[r] = Rows[r]
        /\ Rows[p].status # "pending" => Rows'[p] = Rows[p]
    BY <1>0, <1>9, SentRows DEF AcceptsSent
  <2> QED
    BY <1>0, <1>n, <2>1
<1> QED
  BY <1>1, <1>2, <1>3, <1>4, <1>5, <1>6, <1>7, <1>8, <1>9 DEF RowsStep

\* What the users do keeps the types.
LEMMA UsersKept ==
  ASSUME TypeOK, StoreInv', events \in Seq(Event), Users
  PROVE  TypeOK' /\ events' \in Seq(Event)
<1>0. StoreTypeOK'
  BY DEF StoreInv
<1>1. ASSUME NEW p \in Paths, Create(p) PROVE TypeOK' /\ events' \in Seq(Event)
  <2>1. created + 1 \in Documents /\ <<"changed", p>> \in Event /\ Emit(<<"changed", p>>) /\ now \in Nat
    BY <1>1, OneVault DEF Create, TypeOK, StoreTypeOK, Documents, Event
  <2> QED
    BY <1>0, <1>1, <2>1, EmittedEvent DEF Create, TypeOK, deliveryVars, Documents
<1>2. ASSUME NEW p \in Paths, Modify(p) PROVE TypeOK' /\ events' \in Seq(Event)
  <2>1. <<"changed", p>> \in Event /\ Emit(<<"changed", p>>) /\ edits + 1 \in 0..MaxEdits /\ now \in Nat
    BY <1>2, OneVault, VaultAssumption DEF Modify, Edit, TypeOK, StoreTypeOK, Event
  <2> QED
    BY <1>0, <1>2, <2>1, EmittedEvent DEF Modify, Edit, TypeOK, deliveryVars
<1>3. ASSUME NEW p \in Paths, Delete(p) PROVE TypeOK' /\ events' \in Seq(Event)
  <2>1. <<"deleted", p>> \in Event /\ Emit(<<"deleted", p>>) /\ edits + 1 \in 0..MaxEdits
    BY <1>3, OneVault, VaultAssumption DEF Delete, Edit, TypeOK, Event
  <2> QED
    BY <1>0, <1>3, <2>1, EmittedEvent DEF Delete, Edit, TypeOK, deliveryVars
<1>4. ASSUME NEW p \in Paths, NEW q \in Paths, <<p, q>> \in Renames, Rename(p, q)
      PROVE  TypeOK' /\ events' \in Seq(Event)
  <2>1. p # q /\ Emit(<<"moved", p, q>>) /\ edits + 1 \in 0..MaxEdits /\ now \in Nat
    BY <1>4, VaultAssumption DEF Rename, Edit, TypeOK, StoreTypeOK
  <2>2. <<"moved", p, q>> \in Event
    BY <1>4, <2>1 DEF Event, Moves
  <2> QED
    BY <1>0, <1>4, <2>1, <2>2, EmittedEvent DEF Rename, Edit, TypeOK, deliveryVars
<1> QED
  BY <1>1, <1>2, <1>3, <1>4, OneVault DEF Users

\* What the program does to its queue, its scans and its files keeps the types.
LEMMA ProgramKept ==
  ASSUME TypeOK, StoreInv', events \in Seq(Event), Next, ~ Users
  PROVE  TypeOK' /\ events' \in Seq(Event)
<1>0. StoreTypeOK' /\ Scannable \subseteq Eligible /\ Eligible \subseteq Paths
  BY DEF StoreInv, Scannable, Eligible
<1>u. <<>> \in Seq(Event)
  OBVIOUS
<1>1. ASSUME NEW kind \in {"changed", "deleted", "moved"}, NextEvent(kind), awaiting' \subseteq Eligible
      PROVE  TypeOK' /\ events' \in Seq(Event)
  <2>1. events' \in Seq(Event) /\ forgotten' \subseteq forgotten
    BY <1>1, HandledEvent DEF NextEvent
  <2> QED
    BY <1>0, <1>1, <2>1 DEF NextEvent, TypeOK, diskVars, deliveryVars
<1>2. CASE OnCreated
  BY <1>1, <1>2 DEF OnCreated, TypeOK
<1>3. CASE OnDeleted
  BY <1>1, <1>3 DEF OnDeleted, TypeOK
<1>4. CASE OnMoved
  BY <1>1, <1>4 DEF OnMoved, TypeOK
<1>5. CASE Dispatcher
  <2>1. CASE Observe
    BY <1>0, <2>1 DEF Observe, TypeOK, diskVars, deliveryVars
  <2>2. ASSUME NEW p \in Paths, DispatchGone(p) \/ Dispatch(p)
        PROVE  TypeOK' /\ events' \in Seq(Event)
    <3>1. observing' \in Scannable \cup {Nothing}
      BY <2>2 DEF DispatchGone, Dispatch, Take, TypeOK, Scannable
    <3> QED
      BY <1>0, <2>2, <3>1 DEF DispatchGone, Dispatch, Take, TypeOK, diskVars, deliveryVars
  <2> QED
    BY <1>5, <2>1, <2>2 DEF Dispatcher
<1>6. CASE ObserveRaises
  <2>1. forgotten' \subseteq Scannable /\ faults' \in 0..MaxFaults
    BY <1>6, VaultAssumption DEF ObserveRaises, Fault, TypeOK
  <2> QED
    BY <1>0, <1>6, <2>1 DEF ObserveRaises, TypeOK, diskVars, deliveryVars
<1>7. CASE Start
  <2>1. scan' \in [phase : {"none", "read", "reconcile"}, found : SUBSET Scannable, since : Nat]
    BY <1>7 DEF Start, Begin, TypeOK, StoreTypeOK
  <2> QED
    BY <1>0, <1>7, <2>1 DEF Start, TypeOK, diskVars, deliveryVars
<1>8. CASE ReadDirectory
  <2>1. scan' \in [phase : {"none", "read", "reconcile"}, found : SUBSET Scannable, since : Nat]
    BY <1>0, <1>8 DEF ReadDirectory, TypeOK, StoreTypeOK
  <2>2. baseline' \subseteq Documents
    BY <1>0, <1>8 DEF ReadDirectory, TypeOK
  <2> QED
    BY <1>0, <1>8, <2>1, <2>2 DEF ReadDirectory, TypeOK, diskVars, watchVars, deliveryVars
<1>9. CASE FinishScan
  BY <1>0, <1>9 DEF FinishScan, NoScan, TypeOK, diskVars, deliveryVars
<1>10. CASE StartWorker
  BY <1>0, <1>10 DEF StartWorker, TypeOK, diskVars, watchVars, deliveryVars
<1>11. CASE ReplaceWatcher
  <2>1. scan' \in [phase : {"none", "read", "reconcile"}, found : SUBSET Scannable, since : Nat]
    BY <1>11 DEF ReplaceWatcher, Begin, TypeOK, StoreTypeOK
  <2> QED
    BY <1>0, <1>11, <2>1 DEF ReplaceWatcher, TypeOK, diskVars, deliveryVars
<1>12. CASE WatcherDies
  <2>1. faults' \in 0..MaxFaults
    BY <1>12, VaultAssumption DEF WatcherDies, Fault, TypeOK
  <2> QED
    BY <1>0, <1>u, <1>12, <2>1 DEF WatcherDies, TypeOK, diskVars, deliveryVars
<1>13. CASE Crash
  <2>1. faults' \in 0..MaxFaults
    BY <1>13, VaultAssumption DEF Crash, Fault, TypeOK
  <2> QED
    BY <1>0, <1>u, <1>13, <2>1 DEF Crash, NoScan, TypeOK, diskVars
<1>14. CASE Delivery
  <2>1. CASE Conclude
    BY <1>0, <2>1 DEF Conclude, TypeOK, diskVars, watchVars
  <2>2. ASSUME NEW p \in Paths, Attempt(p) PROVE TypeOK' /\ events' \in Seq(Event)
    <3>1. delivering' \in Paths \X Nat \X (Documents \cup {NoDoc})
      BY <2>2, OneVault DEF Attempt, Rows, Row, TypeOK, StoreTypeOK
    <3>2. posts' \in [Documents -> Nat]
      BY <2>2 DEF Attempt, TypeOK
    <3> QED
      BY <1>0, <2>2, <3>1, <3>2 DEF Attempt, TypeOK, diskVars, watchVars
  <2> QED
    BY <1>14, <2>1, <2>2 DEF Delivery
<1>15. CASE Clock \/ Rest
  BY <1>0, <1>15 DEF Clock, Rest, TypeOK, vars, diskVars, watchVars, deliveryVars
<1> QED
  BY <1>2, <1>3, <1>4, <1>5, <1>6, <1>7, <1>8, <1>9, <1>10, <1>11, <1>12, <1>13, <1>14, <1>15
  DEF Next, Observer, Main

\* The invariant is inductive.
LEMMA VaultInvKept == VaultInv /\ [Next]_vars => VaultInv'
<1> SUFFICES ASSUME VaultInv, [Next]_vars PROVE VaultInv'
  OBVIOUS
<1>0. Outside \in SUBSET Paths /\ Outside \cap Eligible = {} /\ Outside \cap Scannable = {}
  BY OneVault DEF Eligible, Scannable
<1>1. CASE Next
  <2>1. StoreInv' /\ \A r \in Outside : Rows'[r] = NoRow
    BY <1>0, <1>1, StepOnRows, RowsStepKept DEF VaultInv
  <2>2. TypeOK' /\ events' \in Seq(Event)
    BY <1>1, <2>1, UsersKept, ProgramKept DEF VaultInv
  <2> QED
    BY <2>1, <2>2 DEF VaultInv
<1>2. CASE UNCHANGED vars
  <2>1. StoreInv' /\ \A r \in Outside : Rows'[r] = NoRow
    BY <1>0, <1>2, RowsStepKept DEF RowsStep, vars, VaultInv
  <2> QED
    BY <1>2, <2>1 DEF VaultInv, TypeOK, StoreInv, vars, diskVars, watchVars, deliveryVars
<1> QED
  BY <1>1, <1>2

\* It holds at first.
LEMMA InitVaultInv == Init => VaultInv
<1> SUFFICES ASSUME Init PROVE VaultInv
  OBVIOUS
<1>1. StoreInv
  BY InitStoreInv DEF Init
<1>2. \A p \in Paths : Rows[p] = NoRow
  BY OneVault DEF Init, StoreInit, Rows
<1>3. TypeOK /\ events \in Seq(Event)
  <2>1. /\ disk \in [Paths -> Documents \cup {NoDoc}] /\ changed \in [Paths -> Nat]
        /\ posts \in [Documents -> Nat] /\ events \in Seq(Event)
    BY DEF Init
  <2>2. scan \in [phase : {"none", "read", "reconcile"}, found : SUBSET Scannable, since : Nat]
    BY DEF Init, NoScan
  <2>3. /\ StoreTypeOK
        /\ created \in 0..MaxDocs /\ edits \in 0..MaxEdits /\ faults \in 0..MaxFaults
    BY <1>1, VaultAssumption DEF Init, StoreInv
  <2> QED
    BY <2>1, <2>2, <2>3 DEF Init, TypeOK
<1> QED
  BY <1>1, <1>2, <1>3, OneVault DEF VaultInv

\* So it holds always.
LEMMA VaultInvariant == Spec => []VaultInv
  BY InitVaultInv, VaultInvKept, PTL DEF Spec

\* The vault, its queue, scans and rows keep their types, whatever users, faults
\* and restarts do.
THEOREM VaultTypeCorrect == Spec => []TypeOK
<1>1. VaultInv => TypeOK
  BY DEF VaultInv
<1> QED
  BY <1>1, VaultInvariant, PTL

-----------------------------------------------------------------------------
(* Drafts.                                                                  *)

\* Users finish drafts and do not make drafts of documents.
OnlyFinish == \A p, q \in Paths : <<p, q>> \in Renames => q \notin Drafts

\* No row is kept for a draft, so none is delivered.
NoDraftRows == \A p \in Drafts : Rows[p] = NoRow

\* A row comes to a draft's path by a rename only.
LEMMA NoDraftRowsKept ==
  ASSUME OnlyFinish
  PROVE  VaultInv /\ NoDraftRows /\ [Next]_vars => NoDraftRows'
<1> SUFFICES ASSUME VaultInv, NoDraftRows, [Next]_vars PROVE NoDraftRows'
  OBVIOUS
<1>0. Drafts \in SUBSET Paths /\ Drafts \cap Scannable = {} /\ Eligible \subseteq Paths
  BY OneVault DEF Eligible, Scannable
<1>1. RowsStep
  BY StepOnRows DEF VaultInv, RowsStep, vars
<1> QED
  BY <1>0, <1>1, RowsStepKept DEF VaultInv, NoDraftRows, OnlyFinish

\* What is attempted is no draft.
LEMMA NoDraftPostedKept ==
  ASSUME VaultInv, NoDraftRows, NoDraftPosted, [Next]_vars PROVE NoDraftPosted'
<1>1. ASSUME NEW p \in Paths, Attempt(p) PROVE NoDraftPosted'
  <2>1. Rows[p] # NoRow
    BY <1>1 DEF Attempt, DueBy, Scheduled, Deliverable, NoRow
  <2>2. p \in Scannable
    BY <2>1 DEF VaultInv, NoDraftRows, Scannable, Eligible
  <2>3. delivering'[1] = p
    BY <1>1 DEF Attempt
  <2> QED
    BY <2>2, <2>3 DEF NoDraftPosted
<1>2. ASSUME \A p \in Paths : ~ Attempt(p) PROVE UNCHANGED delivering \/ delivering' = Nothing
  BY <1>2 DEF Next, Users, Create, Modify, Delete, Rename, Observer, OnCreated, OnDeleted, OnMoved,
     NextEvent, Dispatcher, Observe, DispatchGone, Dispatch, Take, ObserveRaises, Start, Main,
     ReadDirectory, FinishScan, StartWorker, ReplaceWatcher, WatcherDies, Crash, Delivery, Conclude,
     Clock, Rest, vars, deliveryVars
<1> QED
  BY <1>1, <1>2 DEF NoDraftPosted

\* While nobody renames a document to a draft's name, no document is posted under
\* one: neither events, scans nor restarts deliver a draft.
THEOREM VaultNoDraftPosted ==
  ASSUME OnlyFinish PROVE Spec => []NoDraftPosted
<1>1. Init => NoDraftRows /\ NoDraftPosted
  <2>1. Init => \A p \in Paths : Rows[p] = NoRow
    BY OneVault DEF Init, StoreInit, Rows
  <2> QED
    BY <2>1, OneVault DEF Init, NoDraftRows, NoDraftPosted
<1>2. VaultInv /\ NoDraftRows /\ NoDraftPosted /\ [Next]_vars => NoDraftPosted'
  BY NoDraftPostedKept
<1> QED
  BY <1>1, <1>2, NoDraftRowsKept, VaultInvariant, PTL DEF Spec


-----------------------------------------------------------------------------
(* The queue.                                                               *)

\* Users wait until the queued rename of a path is handled before they touch it, and
\* a scan takes less than the quiet time.
Uncrossed == "crossing" \notin Overlaps /\ "scan" \notin Slow

\* Besides, they put no document at a path while the callback or a due delivery of the
\* one before is under way, and wait until a scan is over before they rename; and the
\* events are handled within the quiet time.  Each conjunct is needed: without it
\* TLC finds a document announced twice.
Patient ==
    /\ Uncrossed
    /\ "replaced" \notin Overlaps /\ "renames" \notin Overlaps
    /\ "events" \notin Slow /\ Quiet > 0

InQueue(e) == \E i \in DOMAIN events : events[i] = e
Changing(p) == InQueue(<<"changed", p>>)
Leaving(p) == InQueue(<<"deleted", p>>)
MoveQueued(p, q) == InQueue(<<"moved", p, q>>)
Arriving(p) == \E x \in Paths : MoveQueued(x, p)

Concerns(e, p) == e[2] = p \/ (e[1] = "moved" /\ e[3] = p)
Brings(e, p) == e = <<"changed", p>> \/ \E x \in Paths : e = <<"moved", x, p>>

\* A rename is the last thing that is queued of its paths, and the only rename.
MovesLast ==
    \A i, j \in DOMAIN events, p \in Paths :
        i # j /\ events[i][1] = "moved" /\ Concerns(events[i], p) /\ Concerns(events[j], p)
        => j < i /\ events[j][1] # "moved"

\* What is there again after a deletion is in the queue behind it.
DeletedFirst ==
    \A p \in Paths, i \in DOMAIN events :
        disk[p] # NoDoc /\ events[i] = <<"deleted", p>>
        => \E j \in DOMAIN events : i < j /\ Brings(events[j], p)

\* Where the threads are.
Control ==
    /\ scan.phase = "none" => scan = NoScan
    /\ scan.phase # "none" => scan.since = now
    /\ ~ watching => events = <<>>
    /\ service = "down" => ~ watching /\ scan.phase = "none"

\* Delivery always succeeds here: no row was attempted and is still pending.
NeverTried == \A p \in Paths : Rows[p].attemptCount = 0

QueueInv == VaultInv /\ Control /\ NeverTried /\ MovesLast /\ DeletedFirst

\* Where the paths are, for the provers.
LEMMA PathSets ==
  /\ Scannable \subseteq Eligible /\ Eligible \subseteq Paths
  /\ \A p \in Eligible : p \in Scannable <=> p \notin Drafts
  BY DEF Scannable, Eligible

\* What the types say of the disk and the posts.
LEMMA DiskTypes ==
  ASSUME TypeOK
  PROVE  /\ disk \in [Paths -> Documents \cup {NoDoc}] /\ changed \in [Paths -> Nat]
         /\ posts \in [Documents -> Nat] /\ baseline \subseteq Documents
         /\ created \in Nat /\ now \in Nat /\ NoDoc = 0 /\ Documents \subseteq Nat
         /\ \A d \in Documents : d > 0
  BY VaultAssumption DEF TypeOK, StoreTypeOK, Documents, NoDoc

\* A watched queue grows at its end, an unwatched one is as before.
LEMMA Emitted ==
  ASSUME events \in Seq(Event), NEW e \in Event, Emit(e)
  PROVE  /\ ~ watching => events' = events
         /\ watching => /\ DOMAIN events' = DOMAIN events \cup {Len(events) + 1}
                        /\ events'[Len(events) + 1] = e
         /\ \A i \in DOMAIN events : /\ i \in Nat /\ i < Len(events) + 1
                                     /\ i \in DOMAIN events' /\ events'[i] = events[i]
         /\ Len(events) + 1 \in Nat
         /\ \A f : InQueue(f)' <=> InQueue(f) \/ (watching /\ f = e)
<1>1. CASE ~ watching
  BY <1>1 DEF Emit, InQueue
<1>2. CASE watching
  <2>1. events' = Append(events, e)
    BY <1>2 DEF Emit
  <2>2. /\ DOMAIN events' = DOMAIN events \cup {Len(events) + 1}
        /\ events'[Len(events) + 1] = e
        /\ \A i \in DOMAIN events : /\ i \in Nat /\ i < Len(events) + 1
                                    /\ i \in DOMAIN events' /\ events'[i] = events[i]
        /\ Len(events) + 1 \in Nat
    BY <2>1
  <2>3. \A f : InQueue(f)' <=> InQueue(f) \/ f = e
    BY <2>2 DEF InQueue
  <2> QED
    BY <1>2, <2>2, <2>3
<1> QED
  BY <1>1, <1>2

\* A handled event was the first, and the others move up.
LEMMA Handled ==
  ASSUME events \in Seq(Event), NEW kind \in {"changed", "deleted", "moved"}, NextEvent(kind)
  PROVE  /\ 1 \in DOMAIN events /\ events[1] = Head(events) /\ InQueue(Head(events))
         /\ \A i \in DOMAIN events' : /\ i \in Nat /\ i > 0 /\ i + 1 \in DOMAIN events
                                      /\ events'[i] = events[i + 1]
         /\ \A i \in DOMAIN events : /\ i \in Nat
                                     /\ i # 1 => i - 1 \in DOMAIN events' /\ events'[i - 1] = events[i]
         /\ \A f : InQueue(f)' => InQueue(f)
         /\ \A f : InQueue(f) => f = Head(events) \/ InQueue(f)'
<1>1. events # <<>> /\ events' = Tail(events)
  BY DEF NextEvent
<1>2. /\ Len(events) \in Nat /\ Len(events) > 0 /\ DOMAIN events = 1..Len(events)
      /\ Len(events') = Len(events) - 1 /\ DOMAIN events' = 1..(Len(events) - 1)
      /\ events[1] = Head(events)
      /\ \A i \in 1..(Len(events) - 1) : events'[i] = events[i + 1]
  BY <1>1, EmptySeq, HeadTailProperties
<1>3. /\ \A i \in DOMAIN events' : /\ i \in Nat /\ i > 0 /\ i + 1 \in DOMAIN events
                                   /\ events'[i] = events[i + 1]
  BY <1>2
<1>4. /\ \A i \in DOMAIN events : i \in Nat /\ (i # 1 => i - 1 \in 1..(Len(events) - 1))
      /\ 1 \in DOMAIN events
  BY <1>2
<1>5. \A i \in DOMAIN events : i # 1 => i - 1 \in DOMAIN events' /\ events'[i - 1] = events[i]
  <2> SUFFICES ASSUME NEW i \in DOMAIN events, i # 1
               PROVE  i - 1 \in DOMAIN events' /\ events'[i - 1] = events[i]
    OBVIOUS
  <2>1. i - 1 \in 1..(Len(events) - 1) /\ (i - 1) + 1 = i
    BY <1>4
  <2> QED
    BY <1>2, <2>1
<1>6. \A f : InQueue(f)' => InQueue(f)
  BY <1>3 DEF InQueue
<1>7. \A f : InQueue(f) => f = Head(events) \/ InQueue(f)'
  BY <1>2, <1>5 DEF InQueue
<1>8. InQueue(Head(events))
  BY <1>2, <1>4 DEF InQueue
<1> QED
  BY <1>2, <1>3, <1>4, <1>5, <1>6, <1>7, <1>8

\* What the module says of the queue, by its members.
LEMMA QueueSays ==
  ASSUME events \in Seq(Event), NEW p \in Paths
  PROVE  /\ Queued(p) <=> Leaving(p) \/ \E q \in Paths : MoveQueued(p, q)
         /\ Moving(p) <=> Arriving(p) \/ \E q \in Paths : MoveQueued(p, q)
         /\ \A i \in DOMAIN events : events[i] \in Event
<1>0. \A i \in DOMAIN events : events[i] \in Event
  OBVIOUS
<1>1. \A e \in Event : /\ e[1] = "deleted" => e = <<"deleted", e[2]>>
                       /\ e[1] = "moved" => /\ e = <<"moved", e[2], e[3]>>
                                            /\ e[2] \in Paths /\ e[3] \in Paths
  <2> SUFFICES ASSUME NEW e \in Event
               PROVE  /\ e[1] = "deleted" => e = <<"deleted", e[2]>>
                      /\ e[1] = "moved" => e = <<"moved", e[2], e[3]>>
    BY EventShape
  <2>1. CASE e \in {"changed", "deleted"} \X Paths
    BY <2>1
  <2>2. CASE e \in Moves
    BY <2>2 DEF Moves
  <2> QED
    BY <2>1, <2>2 DEF Event
<1>2. \A e \in Event : e[1] = "moved" => (Announces(e, p) <=> e[2] = p \/ e[3] = p)
  <2> SUFFICES ASSUME NEW e \in Event, e[1] = "moved" PROVE Announces(e, p) <=> e[2] = p \/ e[3] = p
    OBVIOUS
  <2>1. Len(e) = 3
    BY <1>1
  <2>2. 2..3 = {2, 3}
    OBVIOUS
  <2> QED
    BY <2>1, <2>2 DEF Announces
<1>3. Queued(p) <=> Leaving(p) \/ \E q \in Paths : MoveQueued(p, q)
  BY <1>0, <1>1 DEF Queued, Leaving, MoveQueued, InQueue
<1>4. Moving(p) <=> Arriving(p) \/ \E q \in Paths : MoveQueued(p, q)
  BY <1>0, <1>1, <1>2 DEF Moving, Arriving, MoveQueued, InQueue
<1> QED
  BY <1>0, <1>3, <1>4

\* Nothing is queued in an empty queue.
LEMMA NoEvents ==
  ASSUME events = <<>> PROVE ~ \E e : InQueue(e)
  BY DEF InQueue

\* Behind a rename at the head of the queue, nothing concerns its paths.
LEMMA MoveAlone ==
  ASSUME events \in Seq(Event), MovesLast, NextEvent("moved"), NEW e, InQueue(e)', NEW p \in Paths,
         Concerns(Head(events), p)
  PROVE  ~ Concerns(e, p)
<1>1. PICK i \in DOMAIN events' : events'[i] = e
  BY DEF InQueue
<1>2. /\ i \in Nat /\ i > 0 /\ i + 1 \in DOMAIN events /\ events[i + 1] = e
      /\ 1 \in DOMAIN events /\ events[1] = Head(events)
  BY <1>1, Handled
<1>3. Head(events)[1] = "moved" /\ ~ (i + 1 < 1) /\ i + 1 # 1
  BY <1>2 DEF NextEvent
<1> QED
  BY <1>2, <1>3 DEF MovesLast

\* What is there again after a deletion is still queued when the deletion is handled.
LEMMA BroughtAgain ==
  ASSUME events \in Seq(Event), DeletedFirst, NextEvent("deleted"), NEW p \in Paths,
         Head(events) = <<"deleted", p>>, disk[p] # NoDoc
  PROVE  Changing(p)' \/ Arriving(p)'
<1>1. 1 \in DOMAIN events /\ events[1] = <<"deleted", p>>
  BY Handled
<1>2. PICK j \in DOMAIN events : 1 < j /\ Brings(events[j], p)
  BY <1>1 DEF DeletedFirst
<1>3. j - 1 \in DOMAIN events' /\ events'[j - 1] = events[j]
  <2>1. j # 1
    BY <1>2, Handled
  <2> QED
    BY <2>1, Handled
<1>4. CASE events[j] = <<"changed", p>>
  BY <1>3, <1>4 DEF Changing, InQueue
<1>5. ASSUME NEW x \in Paths, events[j] = <<"moved", x, p>> PROVE Arriving(p)'
  BY <1>3, <1>5 DEF Arriving, MoveQueued, InQueue
<1> QED
  BY <1>2, <1>4, <1>5 DEF Brings

\* No two queued renames share a path.
LEMMA MovesApart ==
  ASSUME events \in Seq(Event), MovesLast, NEW p \in Paths, NEW q \in Paths, MoveQueued(p, q),
         NEW x \in Paths, NEW y \in Paths, MoveQueued(x, y), {p, q} \cap {x, y} # {}
  PROVE  x = p /\ y = q
<1>1. PICK i \in DOMAIN events : events[i] = <<"moved", p, q>>
  BY DEF MoveQueued, InQueue
<1>2. PICK j \in DOMAIN events : events[j] = <<"moved", x, y>>
  BY DEF MoveQueued, InQueue
<1>3. PICK r \in Paths : r \in {p, q} /\ r \in {x, y}
  OBVIOUS
<1>4. i = j
  BY <1>1, <1>2, <1>3 DEF MovesLast, Concerns
<1> QED
  BY <1>1, <1>2, <1>4

\* An event about a path that no queued rename concerns: it tells of a file that
\* is new there, and tells of a deletion only when there is none.
Tells(e, p) ==
    /\ Concerns(e, p) => ~ Moving(p)
    /\ disk[p] = NoDoc /\ disk'[p] # NoDoc => Brings(e, p)
    /\ e = <<"deleted", p>> => disk'[p] = NoDoc

\* What a user does is told by the event it emits.
LEMMA UsersEmit ==
  ASSUME Uncrossed, VaultInv, Users
  PROVE  /\ UNCHANGED <<storeVars, service, watching, awaiting, observing, forgotten, scan,
                        deliveryVars, baseline>>
         /\ \E e \in Event : Emit(e) /\ \A p \in Paths : Tells(e, p)
<1>0. disk \in [Paths -> Documents \cup {NoDoc}]
  BY DiskTypes DEF VaultInv
<1>1. ASSUME NEW p \in Paths, Create(p) \/ Modify(p) \/ Delete(p)
      PROVE  /\ UNCHANGED <<storeVars, service, watching, awaiting, observing, forgotten, scan,
                            deliveryVars, baseline>>
             /\ \E e \in Event : Emit(e) /\ \A r \in Paths : Tells(e, r)
  <2>1. /\ UNCHANGED <<storeVars, service, watching, awaiting, observing, forgotten, scan,
                       deliveryVars, baseline>>
        /\ ~ Moving(p)
    BY <1>1 DEF Create, Modify, Delete, Edit, Still, Uncrossed
  <2>2. PICK kind \in {"changed", "deleted"} :
           /\ Emit(<<kind, p>>)
           /\ \A r \in Paths : disk[r] = NoDoc /\ disk'[r] # NoDoc => r = p /\ kind = "changed"
           /\ kind = "deleted" => disk'[p] = NoDoc
    BY <1>0, <1>1 DEF Create, Modify, Delete
  <2>3. <<kind, p>> \in Event
    BY DEF Event
  <2>4. \A r \in Paths : Tells(<<kind, p>>, r)
    BY <2>1, <2>2 DEF Tells, Concerns, Brings
  <2> QED
    BY <2>1, <2>2, <2>3, <2>4
<1>2. ASSUME NEW p \in Paths, NEW q \in Paths, <<p, q>> \in Renames, Rename(p, q)
      PROVE  /\ UNCHANGED <<storeVars, service, watching, awaiting, observing, forgotten, scan,
                            deliveryVars, baseline>>
             /\ \E e \in Event : Emit(e) /\ \A r \in Paths : Tells(e, r)
  <2>1. /\ UNCHANGED <<storeVars, service, watching, awaiting, observing, forgotten, scan,
                       deliveryVars, baseline>>
        /\ ~ Moving(p) /\ ~ Moving(q) /\ p # q /\ Emit(<<"moved", p, q>>)
        /\ \A r \in Paths : disk[r] = NoDoc /\ disk'[r] # NoDoc => r = q
    BY <1>0, <1>2 DEF Rename, Edit, Still, Uncrossed
  <2>2. <<"moved", p, q>> \in Event
    BY <1>2, <2>1 DEF Event, Moves
  <2>3. \A r \in Paths : Tells(<<"moved", p, q>>, r)
    BY <2>1 DEF Tells, Concerns, Brings
  <2> QED
    BY <2>1, <2>2, <2>3
<1>3. ASSUME NEW move \in Renames, Rename(move[1], move[2])
      PROVE  \E p, q \in Paths : <<p, q>> \in Renames /\ Rename(p, q)
  <2>1. PICK p \in Paths, q \in Paths : move = <<p, q>>
    BY OneVault
  <2> QED
    BY <1>3, <2>1
<1> QED
  BY <1>1, <1>2, <1>3 DEF Users

\* Every other step keeps the files, and handles one event, loses all, or none.
LEMMA ProgramEvents ==
  ASSUME TypeOK, Control, [Next]_vars, ~ Users
  PROVE  /\ UNCHANGED <<disk, changed, created>>
         /\ \/ \E kind \in {"changed", "deleted", "moved"} : NextEvent(kind)
            \/ events' = <<>>
            \/ UNCHANGED events
<1>1. UNCHANGED <<disk, changed, created>>
  BY DEF Next, Observer, OnCreated, OnDeleted, OnMoved, NextEvent, Dispatcher, Observe, DispatchGone,
     Dispatch, Take, ObserveRaises, Start, Main, ReadDirectory, FinishScan, StartWorker,
     ReplaceWatcher, WatcherDies, Crash, Delivery, Attempt, Conclude, Clock, Rest, vars, diskVars
<1>2. \/ \E kind \in {"changed", "deleted", "moved"} : NextEvent(kind)
      \/ events' = <<>>
      \/ UNCHANGED events
  <2>1. Observer => \E kind \in {"changed", "deleted", "moved"} : NextEvent(kind)
    BY DEF Observer, OnCreated, OnDeleted, OnMoved
  <2> QED
    BY <2>1 DEF Next, Dispatcher, Observe, DispatchGone, Dispatch, Take, ObserveRaises, Start, Main,
       ReadDirectory, FinishScan, StartWorker, ReplaceWatcher, WatcherDies, Crash, Delivery, Attempt,
       Conclude, Clock, Rest, vars, watchVars
<1> QED
  BY <1>1, <1>2

\* The order of the queue is kept.
LEMMA OrderKept ==
  ASSUME Uncrossed, QueueInv, [Next]_vars PROVE MovesLast' /\ DeletedFirst'
<1>0. events \in Seq(Event) /\ TypeOK /\ Control /\ MovesLast /\ DeletedFirst
  BY DEF QueueInv, VaultInv
<1>1. CASE Users
  <2>1. PICK e \in Event : Emit(e) /\ \A p \in Paths : Tells(e, p)
    BY <1>1, UsersEmit DEF QueueInv
  <2>2. CASE ~ watching
    <3>1. events' = <<>>
      BY <1>0, <2>1, <2>2, Emitted DEF Control
    <3> QED
      BY <3>1 DEF MovesLast, DeletedFirst
  <2>3. CASE watching
    <3>1. /\ DOMAIN events' = DOMAIN events \cup {Len(events) + 1}
          /\ events'[Len(events) + 1] = e /\ Len(events) + 1 \in Nat
          /\ \A i \in DOMAIN events : /\ i \in Nat /\ i < Len(events) + 1
                                      /\ i \in DOMAIN events' /\ events'[i] = events[i]
      BY <1>0, <2>1, <2>3, Emitted
    <3>2. ASSUME NEW p \in Paths, Concerns(e, p), NEW i \in DOMAIN events, Concerns(events[i], p)
          PROVE  events[i][1] # "moved"
      <4>1. events[i] \in Event
        BY <1>0
      <4>2. ~ Moving(p)
        BY <2>1, <3>2 DEF Tells
      <4>3. SUFFICES ASSUME events[i][1] = "moved" PROVE FALSE
        OBVIOUS
      <4>4. events[i] = <<"moved", events[i][2], events[i][3]>>
        BY <4>1, <4>3 DEF Event, Moves
      <4>5. Announces(events[i], p)
        <5>1. Len(events[i]) = 3
          BY <4>4
        <5>2. 2 \in 2..3 /\ 3 \in 2..3
          OBVIOUS
        <5> QED
          BY <3>2, <5>1, <5>2 DEF Announces, Concerns
      <4> QED
        BY <4>2, <4>3, <4>5 DEF Moving
    <3>3. MovesLast'
      <4> SUFFICES ASSUME NEW i \in DOMAIN events', NEW j \in DOMAIN events', NEW p \in Paths,
                          i # j, events'[i][1] = "moved", Concerns(events'[i], p),
                          Concerns(events'[j], p)
                   PROVE  j < i /\ events'[j][1] # "moved"
        BY DEF MovesLast, Concerns
      <4>1. CASE i \in DOMAIN events /\ j \in DOMAIN events
        BY <1>0, <3>1, <4>1 DEF MovesLast
      <4>2. CASE i \in DOMAIN events /\ j \notin DOMAIN events
        BY <3>1, <3>2, <4>2
      <4>3. CASE i \notin DOMAIN events /\ j \in DOMAIN events
        BY <3>1, <3>2, <4>3
      <4> QED
        BY <3>1, <4>1, <4>2, <4>3
    <3>4. DeletedFirst'
      <4> SUFFICES ASSUME NEW p \in Paths, NEW i \in DOMAIN events', disk'[p] # NoDoc,
                          events'[i] = <<"deleted", p>>
                   PROVE  \E j \in DOMAIN events' : i < j /\ Brings(events'[j], p)
        BY DEF DeletedFirst, Brings
      <4>1. CASE disk[p] = NoDoc
        <5>1. Brings(e, p)
          BY <2>1, <4>1 DEF Tells
        <5>2. e # <<"deleted", p>>
          BY <5>1 DEF Brings
        <5>3. i \in DOMAIN events /\ i < Len(events) + 1
          BY <3>1, <5>2
        <5> QED
          BY <3>1, <5>1, <5>3
      <4>2. CASE disk[p] # NoDoc /\ i \in DOMAIN events
        <5>1. events[i] = <<"deleted", p>>
          BY <3>1, <4>2
        <5>2. PICK j \in DOMAIN events : i < j /\ Brings(events[j], p)
          BY <1>0, <4>2, <5>1 DEF DeletedFirst
        <5> QED
          BY <3>1, <5>2
      <4>3. CASE disk[p] # NoDoc /\ i \notin DOMAIN events
        <5>1. e = <<"deleted", p>>
          BY <3>1, <4>3
        <5> QED
          BY <2>1, <5>1 DEF Tells
      <4> QED
        BY <4>1, <4>2, <4>3
    <3> QED
      BY <3>3, <3>4
  <2> QED
    BY <2>2, <2>3
<1>2. CASE ~ Users
  <2>1. UNCHANGED disk
    BY <1>0, <1>2, ProgramEvents
  <2>2. ASSUME NEW kind \in {"changed", "deleted", "moved"}, NextEvent(kind)
        PROVE  MovesLast' /\ DeletedFirst'
    <3>1. /\ \A i \in DOMAIN events' : /\ i \in Nat /\ i > 0 /\ i + 1 \in DOMAIN events
                                       /\ events'[i] = events[i + 1]
          /\ \A i \in DOMAIN events : /\ i \in Nat
                                      /\ i # 1 => i - 1 \in DOMAIN events' /\ events'[i - 1] = events[i]
      BY <1>0, <2>2, Handled
    <3>2. MovesLast'
      <4> SUFFICES ASSUME NEW i \in DOMAIN events', NEW j \in DOMAIN events', NEW p \in Paths,
                          i # j, events'[i][1] = "moved", Concerns(events'[i], p),
                          Concerns(events'[j], p)
                   PROVE  j < i /\ events'[j][1] # "moved"
        BY DEF MovesLast, Concerns
      <4>1. i + 1 \in DOMAIN events /\ j + 1 \in DOMAIN events /\ i + 1 # j + 1
            /\ events'[i] = events[i + 1] /\ events'[j] = events[j + 1] /\ i \in Nat /\ j \in Nat
        BY <3>1
      <4>2. j + 1 < i + 1 /\ events[j + 1][1] # "moved"
        BY <1>0, <4>1 DEF MovesLast
      <4> QED
        BY <4>1, <4>2
    <3>3. DeletedFirst'
      <4> SUFFICES ASSUME NEW p \in Paths, NEW i \in DOMAIN events', disk[p] # NoDoc,
                          events'[i] = <<"deleted", p>>
                   PROVE  \E j \in DOMAIN events' : i < j /\ Brings(events'[j], p)
        BY <2>1 DEF DeletedFirst, Brings
      <4>1. i + 1 \in DOMAIN events /\ events[i + 1] = <<"deleted", p>> /\ i \in Nat /\ i > 0
        BY <3>1
      <4>2. PICK j \in DOMAIN events : i + 1 < j /\ Brings(events[j], p)
        BY <1>0, <4>1 DEF DeletedFirst
      <4>3. j \in Nat /\ j # 1
        BY <3>1, <4>1, <4>2
      <4>4. j - 1 \in DOMAIN events' /\ events'[j - 1] = events[j] /\ i < j - 1
        BY <3>1, <4>1, <4>2, <4>3
      <4> QED
        BY <4>2, <4>4
    <3> QED
      BY <3>2, <3>3
  <2>3. CASE events' = <<>>
    BY <2>3 DEF MovesLast, DeletedFirst
  <2>4. CASE UNCHANGED events
    BY <1>0, <2>1, <2>4 DEF MovesLast, DeletedFirst, Concerns, Brings
  <2> QED
    BY <1>0, <1>2, <2>2, <2>3, <2>4, ProgramEvents
<1> QED
  BY <1>1, <1>2

\* Every pending row has a deadline, so that opening the database and resuming
\* change nothing.
LEMMA RowsHaveDeadlines ==
  ASSUME VaultInv, NeverTried, NEW p \in Paths
  PROVE  /\ Rows[p].status = "pending" => Rows[p].nextRetryAt # Never
         /\ Migrated(Rows[p]) = Rows[p] /\ Resumed(Rows[p]) = Rows[p]
<1>1. Rows[p].status = "pending" => Rows[p].nextRetryAt # Never
  BY RowFacts DEF VaultInv, NeverTried, GoodRow
<1>2. Rows[p].attemptCount = 0
  BY DEF NeverTried
<1>3. Migrated(Rows[p]) = Rows[p]
  BY <1>1 DEF Migrated
<1>4. Resumed(Rows[p]) = Rows[p]
  BY <1>1, <1>2 DEF Resumed, Deliverable
<1> QED
  BY <1>1, <1>3, <1>4

\* No operation of the store that the threads use counts an attempt.
LEMMA TriesKept ==
  ASSUME VaultInv, NeverTried, RowsStep PROVE NeverTried'
<1>0. /\ StoreInv /\ TypeOK /\ Scannable \subseteq Paths /\ Eligible \subseteq Paths
      /\ \A p \in Paths : Rows[p] \in Row /\ Rows[p].attemptCount = 0
  BY RowFacts, PathSets DEF VaultInv, NeverTried
<1>r. \A row \in Row : row.attemptCount = 0 =>
        /\ Missing(row).attemptCount = 0
        /\ \A d : Sent(row, d).attemptCount = 0
        /\ \A at : Observed(row, at).attemptCount = 0
        /\ [row EXCEPT !.present = TRUE].attemptCount = 0
  BY DEF Missing, Sent, Observed, Fresh, Row
<1>n. NoRow.attemptCount = 0 /\ BaselineRow.attemptCount = 0
  BY DEF NoRow, BaselineRow
<1>1. CASE UNCHANGED storeVars
  BY <1>1, <1>0 DEF storeVars, Rows, NeverTried
<1>2. CASE Tick
  BY <1>2, <1>0 DEF Tick, Rows, NeverTried
<1>3. CASE Open
  BY <1>0, <1>3, Opened, RowsHaveDeadlines DEF NeverTried
<1>4. CASE ResumePending
  BY <1>0, <1>4, ResumedRows, RowsHaveDeadlines DEF NeverTried
<1>5. ASSUME NEW at \in Nat, Reconcile(Vault, scan.found, at) PROVE NeverTried'
  <2>1. \A p \in Paths : Rows'[p] = IF Vault \in vaults THEN Reconciled(Rows[p], p \in scan.found, at)
                                    ELSE IF p \in scan.found THEN BaselineRow ELSE Rows[p]
    BY <1>0, <1>5, ScannedRows
  <2> QED
    BY <1>0, <1>r, <1>n, <2>1 DEF Reconciled, NeverTried
<1>6. ASSUME NEW p \in Scannable, ObserveNew(Vault, p) PROVE NeverTried'
  BY <1>0, <1>r, <1>6, ObservedRows DEF NeverTried
<1>7. ASSUME NEW p \in Paths, MarkMissing(Vault, p) PROVE NeverTried'
  BY <1>0, <1>r, <1>7, MissingRows DEF NeverTried
<1>8. ASSUME NEW p \in Paths, NEW q \in Paths, p # q, MovePath(Vault, p, q) PROVE NeverTried'
  <2>1. /\ \A r \in Paths \ {p, q} : Rows'[r] = Rows[r]
        /\ Rows'[p] \in {NoRow, Rows[p]}
        /\ Rows'[q] \in {Rows[q], [Rows[p] EXCEPT !.present = TRUE]}
    BY <1>0, <1>8, MovedRows
  <2>2. Rows'[p].attemptCount = 0
    BY <1>0, <1>n, <2>1
  <2>3. Rows'[q].attemptCount = 0
    BY <1>0, <1>r, <2>1
  <2> QED
    BY <1>0, <2>1, <2>2, <2>3 DEF NeverTried
<1>9. ASSUME NEW p \in Paths, NEW g \in Nat, NEW d \in Documents, MarkSent(Vault, p, g, d)
      PROVE  NeverTried'
  BY <1>0, <1>r, <1>9, SentRows DEF NeverTried
<1> QED
  BY <1>0, <1>1, <1>2, <1>3, <1>4, <1>5, <1>6, <1>7, <1>8, <1>9 DEF RowsStep

\* A scan is over before the time goes on, and nobody queues what nobody watches.
LEMMA ControlKept == ASSUME Uncrossed, QueueInv, [Next]_vars PROVE Control'
<1>0. Control /\ TypeOK /\ events \in Seq(Event)
  BY DEF QueueInv, VaultInv
<1>1. CASE Users
  <2>1. PICK e \in Event : Emit(e)
    BY <1>1, UsersEmit DEF QueueInv
  <2>2. UNCHANGED <<service, watching, scan, now>>
    BY <1>1, UsersEmit DEF QueueInv, storeVars
  <2>3. ~ watching => events' = events
    BY <1>0, <2>1, Emitted
  <2> QED
    BY <1>0, <2>2, <2>3 DEF Control
<1>2. CASE Observer
  <2>1. watching /\ UNCHANGED <<service, watching, scan>>
    BY <1>2 DEF Observer, OnCreated, OnDeleted, OnMoved, NextEvent
  <2>2. now' = now
    <3>1. CASE OnCreated \/ OnDeleted
      BY <3>1 DEF OnCreated, OnDeleted, MarkMissing, storeVars
    <3>2. CASE OnMoved
      <4>1. PICK p \in Paths, q \in Paths : Moved(p, q)
        BY <1>0, <3>2, HandledEvent DEF OnMoved
      <4>2. MovePath(Vault, p, q) \/ MarkMissing(Vault, p) \/ UNCHANGED storeVars
        BY <4>1 DEF Moved, Eligible
      <4> QED
        BY <4>2 DEF MovePath, MarkMissing, storeVars
    <3> QED
      BY <1>2, <3>1, <3>2 DEF Observer
  <2> QED
    BY <1>0, <2>1, <2>2 DEF Control
<1>3. CASE Dispatcher \/ ObserveRaises \/ Delivery
  <2>1. UNCHANGED <<service, watching, events, scan>>
    BY <1>3 DEF Dispatcher, Observe, DispatchGone, Dispatch, Take, ObserveRaises, Delivery, Attempt,
       Conclude, watchVars
  <2>2. now' = now
    BY <1>3 DEF Dispatcher, Observe, ObserveNew, DispatchGone, Dispatch, Take, ObserveRaises, Delivery,
       Attempt, Conclude, MarkMissing, MarkSent, storeVars
  <2> QED
    BY <1>0, <2>1, <2>2 DEF Control
<1>4. CASE Start \/ Main \/ WatcherDies \/ Crash
  <2>1. CASE Start
    BY <1>0, <2>1 DEF Start, Open, Begin, Control
  <2>2. CASE ReadDirectory
    BY <1>0, <2>2 DEF ReadDirectory, storeVars, watchVars, Control, TypeOK
  <2>3. CASE FinishScan \/ StartWorker
    BY <1>0, <2>3 DEF FinishScan, StartWorker, ResumePending, NoScan, watchVars, Control
  <2>4. CASE ReplaceWatcher
    BY <1>0, <2>4 DEF ReplaceWatcher, Begin, storeVars, Control
  <2>5. CASE WatcherDies
    BY <1>0, <2>5 DEF WatcherDies, storeVars, Control
  <2>6. CASE Crash
    BY <1>0, <2>6 DEF Crash, NoScan, Control
  <2> QED
    BY <1>4, <2>1, <2>2, <2>3, <2>4, <2>5, <2>6 DEF Main
<1>5. CASE Clock
  <2>1. scan = NoScan /\ UNCHANGED <<service, watching, events, scan>>
    BY <1>5 DEF Clock, Uncrossed, watchVars
  <2> QED
    BY <1>0, <2>1 DEF Control, NoScan
<1>6. CASE UNCHANGED vars
  BY <1>0, <1>6 DEF Control, vars, storeVars, watchVars
<1> QED
  BY <1>1, <1>2, <1>3, <1>4, <1>5, <1>6 DEF Next, Rest

\* The invariant of the queue is inductive.
LEMMA QueueInvKept == ASSUME Uncrossed PROVE QueueInv /\ [Next]_vars => QueueInv'
<1> SUFFICES ASSUME QueueInv, [Next]_vars PROVE QueueInv'
  OBVIOUS
<1>1. VaultInv'
  BY VaultInvKept DEF QueueInv
<1>2. NeverTried'
  <2>1. RowsStep
    BY StepOnRows DEF QueueInv, VaultInv, RowsStep, vars
  <2> QED
    BY <2>1, TriesKept DEF QueueInv
<1> QED
  BY <1>1, <1>2, ControlKept, OrderKept DEF QueueInv

\* It holds at first.
LEMMA InitQueueInv == Init => QueueInv
<1> SUFFICES ASSUME Init PROVE QueueInv
  OBVIOUS
<1>1. VaultInv
  BY InitVaultInv
<1>2. \A p \in Paths : Rows[p] = NoRow
  BY OneVault DEF Init, StoreInit, Rows
<1>3. NeverTried
  BY <1>2 DEF NeverTried, NoRow
<1>4. Control /\ MovesLast /\ DeletedFirst
  BY DEF Init, NoScan, Control, MovesLast, DeletedFirst
<1> QED
  BY <1>1, <1>3, <1>4 DEF QueueInv

-----------------------------------------------------------------------------
(* One announcement.                                                        *)

KnownAt(p) == disk[p] # NoDoc /\ (disk[p] \in baseline \/ posts[disk[p]] > 0)
SettledAt(p) == Rows[p].status \in {"baseline", "sent"}

\* Drafts are not scanned, and what is not scanned may be marked missing.
Here(p) == p \in Drafts \/ Rows[p].present
Untouched(p) == observing = Nothing \/ observing # p

\* The program has nothing to do with p for now.
Spared(p) == Untouched(p) /\ ~ Attempted(p) /\ ~ DueBy(Rows[p], now)

\* The row of a known document that leaves p is there to go with it.
Carried(p) == p \in Eligible /\ SettledAt(p) /\ Here(p) /\ ~ Leaving(p) /\ ~ Attempted(p)

\* Nothing happens to a vault before its baseline is written, and what the
\* baseline is written from still holds the documents of the baseline.
NewVault ==
    Vault \notin vaults =>
        /\ ~ watching /\ awaiting = {} /\ observing = Nothing /\ delivering = Nothing
        /\ service # "up" /\ (service = "starting" => scan.phase # "none")
        /\ \A d \in Documents : posts[d] = 0
        /\ scan.phase = "reconcile" => \A p \in Paths : disk[p] \in baseline => p \in scan.found

\* Documents are numbered as they are created, and are in one place.
Numbered ==
    /\ \A p \in Paths : disk[p] <= created
    /\ \A p, q \in Paths : disk[p] = disk[q] /\ disk[p] # NoDoc => p = q
    /\ \A d \in Documents : d > created => d \notin baseline /\ posts[d] = 0

\* While the queue still tells of the deletion of what was at p before, the
\* document at p is a new one, or comes by a rename that is queued, too.
RenewedAt(p) == changed[p] = now /\ Spared(p) /\ (Arriving(p) \/ ~ KnownAt(p))
Renewed == \A p \in Paths : disk[p] # NoDoc /\ Leaving(p) => RenewedAt(p)

\* Between a rename and its handling, nobody uses its paths, and the row of a known
\* document is where the document was.
Crossing(p, q) ==
    /\ scan.phase = "none"
    /\ disk[p] = NoDoc /\ disk[q] # NoDoc /\ changed[q] = now
    /\ Spared(q) /\ (Leaving(q) \/ ~ Rows[q].present)
    /\ Attempted(p) => delivering[3] = NoDoc
    /\ KnownAt(q) => Carried(p)
MoveWaits == \A p, q \in Paths : MoveQueued(p, q) => Crossing(p, q)

\* What is being delivered is where it was, or has been deleted.
AttemptOnDisk == delivering # Nothing => disk[delivering[1]] \in {NoDoc, delivering[3]}

UnderWay(p) == delivering = <<p, Rows[p].generation, disk[p]>> /\ Rows[p].status = "pending"

\* A known document's row is settled, or is about to be, or is on its way with it.
Standing(p) == (SettledAt(p) \/ UnderWay(p)) /\ Here(p)
KnownSettled ==
    Vault \in vaults => \A p \in Eligible : KnownAt(p) => Standing(p) \/ Arriving(p)

\* A document a scan did not see is a new one.
UnseenAt(p) ==
    /\ changed[p] = now /\ Untouched(p) /\ ~ KnownAt(p)
    /\ Leaving(p) \/ ~ Rows[p].present
ScanMissed ==
    Vault \in vaults /\ scan.phase = "reconcile" =>
        \A p \in Scannable \ scan.found : disk[p] # NoDoc => UnseenAt(p)

Orderly ==
    /\ NewVault /\ Numbered /\ Renewed /\ MoveWaits
    /\ AttemptOnDisk /\ KnownSettled /\ ScanMissed
    /\ AnnouncedOnce

\* The inductive invariant.
OnceInv == QueueInv /\ Orderly

\* What depends only on the disk, the posts and the baseline.
LEMMA SameDocuments ==
  ASSUME OnceInv, UNCHANGED <<disk, created, posts, baseline>>
  PROVE  Numbered' /\ AnnouncedOnce' /\ \A p : KnownAt(p)' <=> KnownAt(p)
  BY DEF OnceInv, Orderly, Numbered, AnnouncedOnce, KnownAt

\* What may happen to a row without making it due.
LEMMA StaysSpared ==
  ASSUME StoreInv, now' = now, NEW p \in Paths, Spared(p), Untouched(p)', ~ Attempted(p)',
         \/ Rows'[p] = Rows[p] \/ Rows'[p] = Missing(Rows[p])
         \/ \E at \in Nat : at > now /\ Rows'[p] = Observed(Rows[p], at)
  PROVE  Spared(p)'
<1>1. Rows[p] \in Row /\ now \in Nat
  BY RowFacts
<1>2. Missing(Rows[p]).present = FALSE
  BY <1>1 DEF Missing, Row
<1>3. ASSUME NEW at \in Nat, at > now, Rows'[p] = Observed(Rows[p], at)
      PROVE  Rows'[p] = Rows[p] \/ ~ (Rows'[p].nextRetryAt <= now)
  <2>1. Rows'[p] = Rows[p] \/ Rows'[p].nextRetryAt = at
    BY <1>3 DEF Observed, Fresh
  <2> QED
    BY <1>1, <1>3, <2>1
<1>4. ~ DueBy(Rows'[p], now)
  BY <1>2, <1>3 DEF Spared, DueBy, Scheduled, Deliverable
<1> QED
  BY <1>4 DEF Spared

\* Marking a row missing leaves its status, and a row that is not there is not due.
LEMMA MissingKeeps ==
  ASSUME StoreInv, NEW p \in Paths
  PROVE  /\ Missing(Rows[p]).present = FALSE
         /\ Missing(Rows[p]).status = Rows[p].status
         /\ Missing(Rows[p]).generation = Rows[p].generation
  BY RowFacts DEF Missing, Row

\* A creation.
LEMMA CreateOnce ==
  ASSUME Patient, OnceInv, QueueInv', NEW p \in Paths, Create(p) PROVE Orderly'
<1>0. UNCHANGED <<storeVars, service, watching, awaiting, observing, scan, delivering, posts, baseline>>
  BY DEF Create, deliveryVars
<1>1. /\ disk[p] = NoDoc /\ created < MaxDocs /\ created' = created + 1
      /\ disk' = [disk EXCEPT ![p] = created + 1] /\ changed' = [changed EXCEPT ![p] = now]
      /\ Emit(<<"changed", p>>) /\ (Rows[p].present => Queued(p))
      /\ ~ Moving(p) /\ observing # p /\ ~ Attempted(p) /\ ~ DueBy(Rows[p], now)
  BY DEF Create, Still, Vacant, Patient, Uncrossed
<1>2. /\ NewVault /\ Numbered /\ Renewed /\ MoveWaits /\ AttemptOnDisk /\ KnownSettled
      /\ ScanMissed /\ AnnouncedOnce /\ TypeOK /\ events \in Seq(Event)
  BY DEF OnceInv, Orderly, QueueInv, VaultInv
<1>3. <<"changed", p>> \in Event
  BY DEF Event
<1>4. /\ \A q : Leaving(q)' <=> Leaving(q)
      /\ \A x, y : MoveQueued(x, y)' <=> MoveQueued(x, y)
      /\ \A q : Arriving(q)' <=> Arriving(q)
  <2>1. \A f : InQueue(f)' <=> InQueue(f) \/ (watching /\ f = <<"changed", p>>)
    BY <1>1, <1>2, <1>3, Emitted
  <2>2. \A x, y : MoveQueued(x, y)' <=> MoveQueued(x, y)
    BY <2>1 DEF MoveQueued
  <2> QED
    BY <2>1, <2>2 DEF Leaving, Arriving
<1>5. /\ created + 1 \in Documents /\ disk'[p] = created + 1 /\ changed'[p] = now
      /\ \A q \in Paths \ {p} : disk'[q] = disk[q] /\ changed'[q] = changed[q]
  <2>1. created + 1 \in Documents
    BY <1>1, <1>2, DiskTypes, OneVault DEF Documents
  <2> QED
    BY <1>1, <1>2, <2>1, DiskTypes
<1>6. /\ Rows[p].present => Leaving(p)
      /\ \A x \in Paths : ~ MoveQueued(x, p) /\ ~ MoveQueued(p, x)
  BY <1>1, <1>2, QueueSays DEF Arriving
<1>7. ~ KnownAt(p)' /\ \A q \in Paths \ {p} : KnownAt(q)' <=> KnownAt(q)
  BY <1>0, <1>2, <1>5, DiskTypes DEF Numbered, KnownAt
<1>8. /\ \A q : Spared(q)' <=> Spared(q)
      /\ \A q : Untouched(q)' <=> Untouched(q)
      /\ \A q : Carried(q)' <=> Carried(q)
      /\ \A q : Attempted(q)' <=> Attempted(q)
  BY <1>0, <1>4 DEF Spared, Untouched, Attempted, Carried, SettledAt, Here, Rows, storeVars
<1>9. Spared(p)
  BY <1>1 DEF Spared, Untouched
<1>10. NewVault'
  <2>1. \A q \in Paths : disk'[q] \in baseline => disk[q] \in baseline
    BY <1>2, <1>5, DiskTypes DEF Numbered
  <2> QED
    BY <1>0, <1>2, <2>1 DEF NewVault, storeVars
<1>11. Numbered'
  <2>1. \A q \in Paths \ {p} : disk'[q] <= created /\ disk'[q] # disk'[p]
    BY <1>2, <1>5, DiskTypes DEF Numbered
  <2>2. \A q \in Paths : disk'[q] <= created'
    BY <1>1, <1>2, <1>5, <2>1, DiskTypes
  <2>3. \A x, y \in Paths : disk'[x] = disk'[y] /\ disk'[x] # NoDoc => x = y
    BY <1>2, <1>5, <2>1 DEF Numbered
  <2>4. \A d \in Documents : d > created' => d \notin baseline /\ posts[d] = 0
    BY <1>1, <1>2, DiskTypes DEF Numbered
  <2> QED
    BY <1>0, <2>2, <2>3, <2>4 DEF Numbered
<1>12. Renewed'
  <2> SUFFICES ASSUME NEW q \in Paths, disk'[q] # NoDoc, Leaving(q)' PROVE RenewedAt(q)'
    BY DEF Renewed
  <2>1. CASE q = p
    BY <1>0, <1>5, <1>7, <1>8, <1>9, <2>1 DEF RenewedAt, storeVars
  <2>2. CASE q # p
    <3>1. RenewedAt(q)
      BY <1>2, <1>4, <1>5, <2>2 DEF Renewed
    <3> QED
      BY <1>0, <1>4, <1>5, <1>7, <1>8, <2>2, <3>1 DEF RenewedAt, storeVars
  <2> QED
    BY <2>1, <2>2
<1>13. MoveWaits'
  <2> SUFFICES ASSUME NEW x \in Paths, NEW y \in Paths, MoveQueued(x, y)' PROVE Crossing(x, y)'
    BY DEF MoveWaits
  <2>1. x # p /\ y # p /\ Crossing(x, y)
    BY <1>2, <1>4, <1>6 DEF MoveWaits
  <2> QED
    BY <1>0, <1>4, <1>5, <1>7, <1>8, <2>1 DEF Crossing, Rows, storeVars
<1>14. AttemptOnDisk'
  <2>1. delivering # Nothing => delivering[1] \in Paths \ {p}
    BY <1>1, <1>2 DEF Attempted, TypeOK
  <2> QED
    BY <1>0, <1>2, <1>5, <2>1 DEF AttemptOnDisk
<1>15. KnownSettled'
  <2> SUFFICES ASSUME Vault \in vaults, NEW q \in Eligible, KnownAt(q)'
               PROVE  Standing(q)' \/ Arriving(q)'
    BY <1>0 DEF KnownSettled, storeVars
  <2>1. q \in Paths \ {p} /\ KnownAt(q)
    BY <1>7, PathSets
  <2>2. Standing(q) \/ Arriving(q)
    BY <1>2, <2>1 DEF KnownSettled
  <2> QED
    BY <1>0, <1>4, <1>5, <2>1, <2>2 DEF Standing, SettledAt, UnderWay, Here, Rows, storeVars
<1>16. ScanMissed'
  <2> SUFFICES ASSUME Vault \in vaults, scan.phase = "reconcile",
                      NEW q \in Scannable \ scan.found, disk'[q] # NoDoc
               PROVE  UnseenAt(q)'
    BY <1>0 DEF ScanMissed, storeVars
  <2>1. CASE q = p
    BY <1>0, <1>4, <1>5, <1>6, <1>7, <1>8, <1>9, <2>1 DEF UnseenAt, Spared, Rows, storeVars
  <2>2. CASE q # p
    <3>1. UnseenAt(q) /\ q \in Paths
      BY <1>2, <1>5, <2>2, PathSets DEF ScanMissed
    <3> QED
      BY <1>0, <1>4, <1>5, <1>7, <1>8, <2>2, <3>1 DEF UnseenAt, Rows, storeVars
  <2> QED
    BY <2>1, <2>2
<1>17. AnnouncedOnce'
  BY <1>0, <1>2 DEF AnnouncedOnce
<1> QED
  BY <1>10, <1>11, <1>12, <1>13, <1>14, <1>15, <1>16, <1>17 DEF Orderly

\* A modification or a deletion.
LEMMA EditOnce ==
  ASSUME Patient, OnceInv, QueueInv', NEW p \in Paths, Modify(p) \/ Delete(p) PROVE Orderly'
<1>0. UNCHANGED <<storeVars, created, service, watching, awaiting, observing, scan, delivering, posts,
                  baseline>>
  BY DEF Modify, Delete, Edit, deliveryVars
<1>1. ~ Moving(p)
  BY DEF Modify, Delete, Still, Patient, Uncrossed
<1>2. /\ NewVault /\ Numbered /\ Renewed /\ MoveWaits /\ AttemptOnDisk /\ KnownSettled
      /\ ScanMissed /\ AnnouncedOnce /\ TypeOK /\ events \in Seq(Event)
  BY DEF OnceInv, Orderly, QueueInv, VaultInv
<1>3. PICK kind \in {"changed", "deleted"} :
        Emit(<<kind, p>>) /\ (kind = "deleted" => disk'[p] = NoDoc)
  BY DiskTypes, <1>2 DEF Modify, Delete
<1>4. /\ \A q : Leaving(q) => Leaving(q)'
      /\ \A q \in Paths : disk'[q] # NoDoc /\ Leaving(q)' => Leaving(q)
      /\ \A q \in Paths : q # p /\ Leaving(q)' => Leaving(q)
      /\ \A x, y : MoveQueued(x, y)' <=> MoveQueued(x, y)
      /\ \A q : Arriving(q)' <=> Arriving(q)
  <2>1. <<kind, p>> \in Event
    BY <1>3 DEF Event
  <2>2. \A f : InQueue(f)' <=> InQueue(f) \/ (watching /\ f = <<kind, p>>)
    BY <1>2, <1>3, <2>1, Emitted
  <2>3. \A x, y : MoveQueued(x, y)' <=> MoveQueued(x, y)
    BY <2>2 DEF MoveQueued
  <2>4. \A q \in Paths : disk'[q] # NoDoc /\ Leaving(q)' => Leaving(q)
    BY <1>3, <2>2 DEF Leaving
  <2>5. \A q \in Paths : q # p /\ Leaving(q)' => Leaving(q)
    BY <1>3, <2>2 DEF Leaving
  <2> QED
    BY <2>2, <2>3, <2>4, <2>5 DEF Leaving, Arriving
<1>5. \A q \in Paths : /\ disk'[q] \in {disk[q], NoDoc} /\ (q # p => disk'[q] = disk[q])
                       /\ changed'[q] \in {changed[q], now}
  BY <1>2, DiskTypes DEF Modify, Delete
<1>6. \A x \in Paths : ~ MoveQueued(x, p) /\ ~ MoveQueued(p, x)
  BY <1>1, <1>2, QueueSays DEF Arriving
<1>7. \A q \in Paths : KnownAt(q)' => KnownAt(q) /\ disk'[q] = disk[q]
  BY <1>0, <1>5 DEF KnownAt
<1>8. /\ \A q : Spared(q)' <=> Spared(q)
      /\ \A q : Untouched(q)' <=> Untouched(q)
      /\ \A q : Attempted(q)' <=> Attempted(q)
      /\ \A q \in Paths : q # p /\ Carried(q) => Carried(q)'
  BY <1>0, <1>4 DEF Spared, Untouched, Attempted, Carried, SettledAt, Here, Rows, storeVars
<1>10. NewVault'
  <2>1. \A q \in Paths : disk'[q] \in baseline => disk[q] \in baseline
    BY <1>2, <1>5, DiskTypes
  <2> QED
    BY <1>0, <1>2, <2>1 DEF NewVault, storeVars
<1>11. Numbered'
  BY <1>0, <1>2, <1>5, DiskTypes DEF Numbered
<1>12. Renewed'
  <2> SUFFICES ASSUME NEW q \in Paths, disk'[q] # NoDoc, Leaving(q)' PROVE RenewedAt(q)'
    BY DEF Renewed
  <2>1. RenewedAt(q)
    BY <1>2, <1>4, <1>5 DEF Renewed
  <2> QED
    BY <1>0, <1>4, <1>5, <1>7, <1>8, <2>1 DEF RenewedAt, storeVars
<1>13. MoveWaits'
  <2> SUFFICES ASSUME NEW x \in Paths, NEW y \in Paths, MoveQueued(x, y)' PROVE Crossing(x, y)'
    BY DEF MoveWaits
  <2>1. x # p /\ y # p /\ Crossing(x, y)
    BY <1>2, <1>4, <1>6 DEF MoveWaits
  <2>2. disk'[x] = disk[x] /\ disk'[y] = disk[y] /\ changed'[y] \in {changed[y], now}
    BY <1>5, <2>1
  <2> QED
    BY <1>0, <1>4, <1>7, <1>8, <2>1, <2>2 DEF Crossing, Rows, storeVars
<1>14. AttemptOnDisk'
  <2>1. delivering # Nothing => delivering[1] \in Paths
    BY <1>2 DEF TypeOK
  <2> QED
    BY <1>0, <1>2, <1>5, <2>1 DEF AttemptOnDisk
<1>15. KnownSettled'
  <2> SUFFICES ASSUME Vault \in vaults, NEW q \in Eligible, KnownAt(q)'
               PROVE  Standing(q)' \/ Arriving(q)'
    BY <1>0 DEF KnownSettled, storeVars
  <2>1. KnownAt(q) /\ disk'[q] = disk[q]
    BY <1>7, PathSets
  <2>2. Standing(q) \/ Arriving(q)
    BY <1>2, <2>1 DEF KnownSettled
  <2> QED
    BY <1>0, <1>4, <2>1, <2>2 DEF Standing, SettledAt, UnderWay, Here, Rows, storeVars
<1>16. ScanMissed'
  <2> SUFFICES ASSUME Vault \in vaults, scan.phase = "reconcile",
                      NEW q \in Scannable \ scan.found, disk'[q] # NoDoc
               PROVE  UnseenAt(q)'
    BY <1>0 DEF ScanMissed, storeVars
  <2>1. UnseenAt(q) /\ q \in Paths
    BY <1>2, <1>5, PathSets DEF ScanMissed
  <2> QED
    BY <1>0, <1>4, <1>5, <1>7, <1>8, <2>1 DEF UnseenAt, Rows, storeVars
<1>17. AnnouncedOnce'
  BY <1>0, <1>2 DEF AnnouncedOnce
<1> QED
  BY <1>10, <1>11, <1>12, <1>13, <1>14, <1>15, <1>16, <1>17 DEF Orderly

\* A rename, with no scan under way.
LEMMA RenameOnce ==
  ASSUME Patient, OnceInv, QueueInv', NEW p \in Paths, NEW q \in Paths, <<p, q>> \in Renames,
         Rename(p, q)
  PROVE  Orderly'
<1>0. UNCHANGED <<storeVars, created, service, watching, awaiting, observing, scan, delivering, posts,
                  baseline>>
  BY DEF Rename, Edit, deliveryVars
<1>1. /\ watching /\ disk[p] # NoDoc /\ disk[q] = NoDoc
      /\ disk' = [disk EXCEPT ![p] = NoDoc, ![q] = disk[p]]
      /\ changed' = [changed EXCEPT ![q] = now]
      /\ Emit(<<"moved", p, q>>) /\ (Rows[q].present => Queued(q))
      /\ p \in Outside => ~ Known(disk[p])
      /\ scan = NoScan
  BY DEF Rename, Patient, Uncrossed
<1>2. /\ NewVault /\ Numbered /\ Renewed /\ MoveWaits /\ AttemptOnDisk /\ KnownSettled
      /\ ScanMissed /\ AnnouncedOnce /\ TypeOK /\ events \in Seq(Event)
  BY DEF OnceInv, Orderly, QueueInv, VaultInv
<1>b. /\ ~ Moving(p) /\ ~ Moving(q) /\ ~ Attempted(p) /\ Spared(q)
  BY DEF Rename, Still, Idle, Vacant, Patient, Uncrossed, Spared, Untouched
<1>3. p # q /\ <<"moved", p, q>> \in Event
  <2>1. p # q
    BY <1>1
  <2> QED
    BY <2>1 DEF Event, Moves
<1>4. /\ \A r : Leaving(r)' <=> Leaving(r)
      /\ \A x, y : MoveQueued(x, y)' <=> MoveQueued(x, y) \/ (x = p /\ y = q)
      /\ \A r : Arriving(r)' <=> Arriving(r) \/ r = q
  <2>1. \A f : InQueue(f)' <=> InQueue(f) \/ f = <<"moved", p, q>>
    BY <1>1, <1>2, <1>3, Emitted
  <2>2. \A x, y : MoveQueued(x, y)' <=> MoveQueued(x, y) \/ (x = p /\ y = q)
    BY <2>1 DEF MoveQueued
  <2> QED
    BY <2>1, <2>2 DEF Leaving, Arriving
<1>5. /\ disk'[p] = NoDoc /\ disk'[q] = disk[p] /\ changed'[q] = now
      /\ \A r \in Paths \ {p, q} : disk'[r] = disk[r] /\ changed'[r] = changed[r]
  BY <1>1, <1>2, <1>3, DiskTypes
<1>6. /\ Vault \in vaults /\ scan.phase = "none"
      /\ Rows[q].present => Leaving(q)
      /\ \A x \in Paths : /\ ~ MoveQueued(x, p) /\ ~ MoveQueued(p, x)
                          /\ ~ MoveQueued(x, q) /\ ~ MoveQueued(q, x)
  BY <1>1, <1>2, <1>b, QueueSays DEF Arriving, NewVault, NoScan
<1>7. /\ KnownAt(q)' <=> KnownAt(p)
      /\ \A r \in Paths \ {p, q} : KnownAt(r)' <=> KnownAt(r)
      /\ ~ KnownAt(p)'
  <2>1. KnownAt(q)' <=> KnownAt(p)
    BY <1>0, <1>5 DEF KnownAt
  <2>2. \A r \in Paths \ {p, q} : KnownAt(r)' <=> KnownAt(r)
    BY <1>0, <1>5 DEF KnownAt
  <2>3. ~ KnownAt(p)'
    BY <1>5 DEF KnownAt
  <2> QED
    BY <2>1, <2>2, <2>3
<1>8. /\ \A r : Spared(r)' <=> Spared(r)
      /\ \A r : Attempted(r)' <=> Attempted(r)
      /\ \A r : Carried(r)' <=> Carried(r)
  BY <1>0, <1>4 DEF Spared, Untouched, Attempted, Carried, SettledAt, Here, Rows, storeVars
<1>9. NewVault'
  BY <1>0, <1>6 DEF NewVault, storeVars
<1>11. Numbered'
  BY <1>0, <1>1, <1>2, <1>5, DiskTypes DEF Numbered
<1>12. Renewed'
  <2> SUFFICES ASSUME NEW r \in Paths, disk'[r] # NoDoc, Leaving(r)' PROVE RenewedAt(r)'
    BY DEF Renewed
  <2>1. CASE r = q
    BY <1>0, <1>4, <1>5, <1>8, <1>b, <2>1 DEF RenewedAt, storeVars
  <2>2. CASE r # q
    <3>1. r # p /\ RenewedAt(r)
      BY <1>2, <1>4, <1>5, <2>2 DEF Renewed
    <3> QED
      BY <1>0, <1>4, <1>5, <1>7, <1>8, <2>2, <3>1 DEF RenewedAt, storeVars
  <2> QED
    BY <2>1, <2>2
<1>13. KnownAt(p) => Carried(p)
  <2> SUFFICES ASSUME KnownAt(p) PROVE Carried(p)
    OBVIOUS
  <2>1. p \in Eligible
    BY <1>1 DEF KnownAt, Known, Eligible
  <2>2. ~ Arriving(p) /\ ~ UnderWay(p)
    BY <1>6, <1>b DEF Arriving, UnderWay, Attempted, Nothing
  <2>3. SettledAt(p) /\ Here(p)
    BY <1>2, <1>6, <2>1, <2>2 DEF KnownSettled, Standing
  <2>4. ~ Leaving(p)
    BY <1>1, <1>2, <2>2 DEF Renewed, RenewedAt
  <2> QED
    BY <1>b, <2>1, <2>3, <2>4 DEF Carried
<1>14. MoveWaits'
  <2> SUFFICES ASSUME NEW x \in Paths, NEW y \in Paths, MoveQueued(x, y)' PROVE Crossing(x, y)'
    BY DEF MoveWaits
  <2>1. CASE x = p /\ y = q
    <3>1. Rows'[q] = Rows[q] /\ scan'.phase = "none" /\ now' = now /\ ~ Attempted(p)'
      BY <1>0, <1>6, <1>8, <1>b DEF Rows, storeVars
    <3>2. disk'[p] = NoDoc /\ disk'[q] # NoDoc
      BY <1>1, <1>5
    <3>3. Crossing(p, q)'
      BY <1>4, <1>5, <1>6, <1>7, <1>8, <1>13, <1>b, <3>1, <3>2 DEF Crossing
    <3> QED
      BY <2>1, <3>3
  <2>2. CASE MoveQueued(x, y)
    <3>1. x \notin {p, q} /\ y \notin {p, q} /\ Crossing(x, y)
      BY <1>2, <1>6, <2>2 DEF MoveWaits
    <3>2. /\ disk'[x] = disk[x] /\ disk'[y] = disk[y] /\ changed'[y] = changed[y]
          /\ KnownAt(y)' <=> KnownAt(y)
      BY <1>5, <1>7, <3>1
    <3> QED
      BY <1>0, <1>4, <1>8, <3>1, <3>2 DEF Crossing, Rows, storeVars
  <2> QED
    BY <1>4, <2>1, <2>2
<1>15. AttemptOnDisk'
  <2>1. delivering # Nothing => delivering[1] \in Paths \ {p, q}
    BY <1>2, <1>b DEF Attempted, Spared, TypeOK
  <2> QED
    BY <1>0, <1>2, <1>5, <2>1 DEF AttemptOnDisk
<1>16. KnownSettled'
  <2> SUFFICES ASSUME NEW r \in Eligible, KnownAt(r)' PROVE Standing(r)' \/ Arriving(r)'
    BY DEF KnownSettled
  <2>1. CASE r = q
    BY <1>4, <2>1
  <2>2. CASE r # q
    <3>1. r \in Paths \ {p, q} /\ KnownAt(r)
      BY <1>7, <2>2, PathSets
    <3>2. Standing(r) \/ Arriving(r)
      BY <1>2, <1>6, <3>1 DEF KnownSettled
    <3> QED
      BY <1>0, <1>4, <1>5, <3>1, <3>2 DEF Standing, SettledAt, UnderWay, Here, Rows, storeVars
  <2> QED
    BY <2>1, <2>2
<1>17. ScanMissed' /\ AnnouncedOnce'
  BY <1>0, <1>2, <1>6 DEF ScanMissed, AnnouncedOnce
<1> QED
  BY <1>9, <1>11, <1>12, <1>14, <1>15, <1>16, <1>17 DEF Orderly

\* The observer handles the event at the head of the queue.
LEMMA ObserverOnce == ASSUME Patient, OnceInv, QueueInv', Observer PROVE Orderly'
<1>0. PICK kind \in {"changed", "deleted", "moved"} : NextEvent(kind)
  BY DEF Observer, OnCreated, OnDeleted, OnMoved
<1>1. /\ watching
      /\ UNCHANGED <<disk, changed, created, service, watching, observing, scan, delivering, posts,
                     baseline>>
  BY <1>0 DEF NextEvent, diskVars, deliveryVars
<1>2. /\ NewVault /\ Numbered /\ Renewed /\ MoveWaits /\ AttemptOnDisk /\ KnownSettled
      /\ ScanMissed /\ TypeOK /\ StoreInv /\ events \in Seq(Event) /\ MovesLast
  BY DEF OnceInv, Orderly, QueueInv, VaultInv
<1>e. PICK e \in Event : e = Head(events)
  BY <1>0, <1>2, HandledEvent
<1>3. /\ e[1] = kind /\ e[2] \in Paths
      /\ kind = "moved" => /\ e[3] \in Paths /\ e[2] # e[3] /\ e = <<"moved", e[2], e[3]>>
                           /\ MoveQueued(e[2], e[3])
      /\ kind = "deleted" => e = <<"deleted", e[2]>> /\ Leaving(e[2])
      /\ \A f : InQueue(f)' => InQueue(f)
      /\ \A f : InQueue(f) => f = e \/ InQueue(f)'
  <2>1. /\ e[1] = kind /\ e[2] \in Paths /\ InQueue(e)
        /\ kind = "moved" => e[3] \in Paths /\ e[2] # e[3]
    BY <1>0, <1>2, <1>e, HandledEvent, Handled
  <2>2. /\ \A f : InQueue(f)' => InQueue(f)
        /\ \A f : InQueue(f) => f = e \/ InQueue(f)'
    BY <1>0, <1>2, <1>e, Handled
  <2>3. kind = "moved" => e = <<"moved", e[2], e[3]>> /\ MoveQueued(e[2], e[3])
    BY <2>1 DEF Event, Moves, MoveQueued
  <2>4. kind = "deleted" => e = <<"deleted", e[2]>> /\ Leaving(e[2])
    BY <2>1 DEF Event, Moves, Leaving
  <2> QED
    BY <2>1, <2>2, <2>3, <2>4
<1>4. /\ \A r : Leaving(r)' => Leaving(r)
      /\ \A x, y : MoveQueued(x, y)' => MoveQueued(x, y)
      /\ \A x, y : MoveQueued(x, y) /\ kind # "moved" => MoveQueued(x, y)'
      /\ \A r : Leaving(r) /\ kind # "deleted" => Leaving(r)'
      /\ \A r : Leaving(r) /\ kind = "deleted" /\ r # e[2] => Leaving(r)'
      /\ \A r : Arriving(r) /\ kind # "moved" => Arriving(r)'
      /\ \A r : Arriving(r) /\ kind = "moved" /\ r # e[3] => Arriving(r)'
  <2>1. \A r : Leaving(r)' => Leaving(r)
    BY <1>3 DEF Leaving
  <2>2. \A x, y : MoveQueued(x, y)' => MoveQueued(x, y)
    BY <1>3 DEF MoveQueued
  <2>3. \A x, y : MoveQueued(x, y) /\ kind # "moved" => MoveQueued(x, y)'
    <3> SUFFICES ASSUME NEW x, NEW y, MoveQueued(x, y), kind # "moved" PROVE MoveQueued(x, y)'
      OBVIOUS
    <3>1. <<"moved", x, y>> # e
      BY <1>3
    <3> QED
      BY <1>3, <3>1 DEF MoveQueued
  <2>4. \A r : Leaving(r) /\ kind # "deleted" => Leaving(r)'
    <3> SUFFICES ASSUME NEW r, Leaving(r), kind # "deleted" PROVE Leaving(r)'
      OBVIOUS
    <3>1. <<"deleted", r>> # e
      BY <1>3
    <3> QED
      BY <1>3, <3>1 DEF Leaving
  <2>5. \A r : Leaving(r) /\ kind = "deleted" /\ r # e[2] => Leaving(r)'
    <3> SUFFICES ASSUME NEW r, Leaving(r), r # e[2] PROVE Leaving(r)'
      OBVIOUS
    <3>1. <<"deleted", r>> # e
      OBVIOUS
    <3> QED
      BY <1>3, <3>1 DEF Leaving
  <2>6. \A r : Arriving(r) /\ kind = "moved" /\ r # e[3] => Arriving(r)'
    <3> SUFFICES ASSUME NEW r, NEW x \in Paths, MoveQueued(x, r), r # e[3] PROVE MoveQueued(x, r)'
      BY DEF Arriving
    <3>1. <<"moved", x, r>> # e
      OBVIOUS
    <3> QED
      BY <1>3, <3>1 DEF MoveQueued
  <2> QED
    BY <2>1, <2>2, <2>3, <2>4, <2>5, <2>6 DEF Arriving
<1>5. Numbered' /\ AnnouncedOnce' /\ \A p : KnownAt(p)' <=> KnownAt(p)
  BY <1>1, SameDocuments DEF OnceInv
\* Behind a rename at the head, nothing is queued of its paths.
<1>6. ASSUME kind = "moved", NEW r \in Paths, Concerns(e, r)
      PROVE  ~ Leaving(r)' /\ \A x \in Paths : ~ MoveQueued(x, r)' /\ ~ MoveQueued(r, x)'
  <2>1. \A f : InQueue(f)' => ~ Concerns(f, r)
    BY <1>0, <1>2, <1>e, <1>6, MoveAlone
  <2> QED
    BY <2>1 DEF Leaving, MoveQueued, Concerns
<1>7. ASSUME UNCHANGED <<vaults, now>>,
             \A r \in Paths : \/ Rows'[r] = Rows[r]
                              \/ Rows'[r] = Missing(Rows[r]) /\ Leaving(r)
                              \/ kind = "moved" /\ Concerns(e, r),
             \A r \in Paths : Leaving(r) => Leaving(r)' \/ ~ Rows'[r].present,
             \A r \in Eligible : KnownAt(r) => Standing(r)' \/ Arriving(r)'
      PROVE  Orderly'
  <2>0. ASSUME NEW r \in Paths, kind # "moved" \/ ~ Concerns(e, r)
        PROVE  /\ Spared(r) => Spared(r)'
               /\ SettledAt(r) => SettledAt(r)'
               /\ Rows'[r].present => Rows[r].present
    <3>1. Rows'[r] = Rows[r] \/ Rows'[r] = Missing(Rows[r])
      BY <1>7, <2>0
    <3>2. Missing(Rows[r]).present = FALSE /\ Missing(Rows[r]).status = Rows[r].status
      BY <1>2, MissingKeeps
    <3>3. Spared(r) => Untouched(r)' /\ ~ Attempted(r)'
      BY <1>1 DEF Spared, Untouched, Attempted
    <3>4. Spared(r) => Spared(r)'
      BY <1>2, <1>7, <3>1, <3>3, StaysSpared
    <3> QED
      BY <3>1, <3>2, <3>4 DEF SettledAt
  <2>1. NewVault' /\ AttemptOnDisk'
    BY <1>1, <1>2, <1>7 DEF NewVault, AttemptOnDisk
  <2>2. Renewed'
    <3> SUFFICES ASSUME NEW r \in Paths, disk[r] # NoDoc, Leaving(r)' PROVE RenewedAt(r)'
      BY <1>1 DEF Renewed
    <3>1. kind # "moved" \/ ~ Concerns(e, r)
      BY <1>6
    <3>2. RenewedAt(r) /\ (Arriving(r) => Arriving(r)')
      BY <1>2, <1>3, <1>4, <3>1 DEF Renewed, Concerns
    <3> QED
      BY <1>1, <1>5, <1>7, <2>0, <3>1, <3>2 DEF RenewedAt
  <2>3. MoveWaits'
    <3> SUFFICES ASSUME NEW x \in Paths, NEW y \in Paths, MoveQueued(x, y)' PROVE Crossing(x, y)'
      BY DEF MoveWaits
    <3>1. kind # "moved" \/ (~ Concerns(e, x) /\ ~ Concerns(e, y))
      BY <1>6
    <3>2. Crossing(x, y)
      BY <1>2, <1>4 DEF MoveWaits
    <3>3. Spared(y)' /\ (Leaving(y)' \/ ~ Rows'[y].present)
      BY <1>7, <2>0, <3>1, <3>2 DEF Crossing
    <3>4. Carried(x) => Carried(x)'
      <4> SUFFICES ASSUME Carried(x) PROVE Carried(x)'
        OBVIOUS
      <4>1. SettledAt(x)' /\ ~ Leaving(x)' /\ ~ Attempted(x)'
        BY <1>1, <1>4, <2>0, <3>1 DEF Carried, Attempted
      <4>2. Here(x)'
        <5>1. CASE Rows'[x] = Rows[x]
          BY <5>1 DEF Carried, Here
        <5>2. CASE Rows'[x] # Rows[x]
          <6>1. Leaving(x)
            BY <1>7, <3>1, <5>2
          <6> QED
            BY <6>1 DEF Carried
        <5> QED
          BY <5>1, <5>2
      <4> QED
        BY <4>1, <4>2 DEF Carried
    <3> QED
      BY <1>1, <1>5, <1>7, <3>2, <3>3, <3>4 DEF Crossing, Attempted
  <2>4. KnownSettled'
    BY <1>5, <1>7, PathSets DEF KnownSettled
  <2>5. ScanMissed'
    <3> SUFFICES ASSUME Vault \in vaults, scan.phase = "reconcile",
                        NEW q \in Scannable \ scan.found, disk[q] # NoDoc
                 PROVE  UnseenAt(q)'
      BY <1>1, <1>7 DEF ScanMissed
    <3>1. UnseenAt(q) /\ q \in Paths
      BY <1>2, PathSets DEF ScanMissed
    <3>2. kind # "moved"
      BY <1>2, <1>3 DEF MoveWaits, Crossing
    <3>3. Leaving(q)' \/ ~ Rows'[q].present
      BY <1>7, <2>0, <3>1, <3>2 DEF UnseenAt
    <3> QED
      BY <1>1, <1>5, <1>7, <3>1, <3>3 DEF UnseenAt, Untouched
  <2> QED
    BY <1>5, <2>1, <2>2, <2>3, <2>4, <2>5 DEF Orderly
<1>s. ASSUME NEW r \in Eligible, KnownAt(r), kind # "moved" \/ r # e[3], Rows'[r] = Rows[r]
      PROVE  Standing(r)' \/ Arriving(r)'
  <2>1. Vault \in vaults
    BY <1>1, <1>2 DEF NewVault
  <2>2. Standing(r) \/ Arriving(r)
    BY <1>2, <1>s, <2>1 DEF KnownSettled
  <2>3. Standing(r) => Standing(r)'
    BY <1>1, <1>s DEF Standing, SettledAt, UnderWay, Here
  <2>4. Arriving(r) => Arriving(r)'
    BY <1>4, <1>s
  <2> QED
    BY <2>2, <2>3, <2>4
<1>8. CASE kind = "changed"
  <2>1. UNCHANGED storeVars
    BY <1>0, <1>8 DEF NextEvent, Observer, OnCreated, OnDeleted, OnMoved
  <2>2. \A r \in Paths : Rows'[r] = Rows[r]
    BY <2>1 DEF storeVars, Rows
  <2>3. UNCHANGED <<vaults, now>>
    BY <2>1 DEF storeVars
  <2>4. \A r \in Eligible : KnownAt(r) => Standing(r)' \/ Arriving(r)'
    BY <1>8, <1>s, <2>2, PathSets
  <2>5. \A r \in Paths : Leaving(r) => Leaving(r)'
    BY <1>4, <1>8
  <2> QED
    BY <1>7, <2>2, <2>3, <2>4, <2>5
<1>9. CASE kind = "deleted"
  <2>1. PICK p \in Paths : p = e[2] /\ Leaving(p)
    BY <1>3, <1>9
  <2>2. IF p \in Eligible THEN MarkMissing(Vault, p) ELSE UNCHANGED storeVars
    BY <1>0, <1>9, <1>e, <2>1 DEF NextEvent, Observer, OnCreated, OnDeleted, OnMoved
  <2>3. UNCHANGED <<vaults, now>> /\ \A r \in Paths \ {p} : Rows'[r] = Rows[r]
    BY <1>2, <2>2, MissingRows DEF storeVars, Rows
  <2>4. Rows'[p] = Rows[p] \/ Rows'[p] = Missing(Rows[p])
    BY <1>2, <2>2, MissingRows DEF storeVars, Rows
  <2>5. ~ Rows'[p].present
    <3>1. CASE p \in Eligible
      <4>1. Rows'[p] = Missing(Rows[p])
        BY <1>2, <2>2, <3>1, MissingRows
      <4> QED
        BY <1>2, <4>1, MissingKeeps
    <3>2. CASE p \notin Eligible
      <4>1. p \in Outside /\ Rows'[p] = Rows[p]
        BY <2>2, <3>2 DEF Eligible, storeVars, Rows
      <4> QED
        BY <4>1 DEF OnceInv, QueueInv, VaultInv, NoRow
    <3> QED
      BY <3>1, <3>2
  <2>6. \A r \in Paths : Leaving(r) => Leaving(r)' \/ ~ Rows'[r].present
    BY <1>4, <1>9, <2>1, <2>5
  <2>7. ASSUME NEW r \in Eligible, KnownAt(r) PROVE Standing(r)' \/ Arriving(r)'
    <3>1. CASE r = p
      <4>1. RenewedAt(p)
        BY <1>2, <2>1, <2>7, <3>1 DEF Renewed, KnownAt
      <4>2. Arriving(p)
        BY <2>7, <3>1, <4>1 DEF RenewedAt
      <4> QED
        BY <1>4, <1>9, <3>1, <4>2
    <3>2. CASE r # p
      BY <1>9, <1>s, <2>3, <2>7, <3>2, PathSets
    <3> QED
      BY <3>1, <3>2
  <2>8. \A r \in Paths : \/ Rows'[r] = Rows[r]
                         \/ Rows'[r] = Missing(Rows[r]) /\ Leaving(r)
    BY <2>1, <2>3, <2>4
  <2> QED
    BY <1>7, <2>3, <2>6, <2>7, <2>8
<1>10. CASE kind = "moved"
  <2>1. PICK p \in Paths, q \in Paths : p = e[2] /\ q = e[3] /\ p # q /\ Crossing(p, q)
    BY <1>2, <1>3, <1>10 DEF MoveWaits
  <2>2. Moved(p, q)
    BY <1>0, <1>10, <1>e, <2>1 DEF NextEvent, Observer, OnCreated, OnDeleted, OnMoved
  <2>3. MovePath(Vault, p, q) \/ MarkMissing(Vault, p) \/ UNCHANGED storeVars
    BY <2>2 DEF Moved, Eligible
  <2>4. UNCHANGED <<vaults, now>> /\ \A r \in Paths \ {p, q} : Rows'[r] = Rows[r]
    <3>1. CASE MovePath(Vault, p, q)
      BY <1>2, <2>1, <3>1, MovedRows
    <3>2. CASE MarkMissing(Vault, p)
      BY <1>2, <3>2, MissingRows
    <3>3. CASE UNCHANGED storeVars
      BY <3>3 DEF storeVars, Rows
    <3> QED
      BY <2>3, <3>1, <3>2, <3>3
  <2>5. ASSUME q \in Eligible, KnownAt(q) PROVE Standing(q)'
    <3>1. Carried(p)
      BY <2>1, <2>5 DEF Crossing
    <3>2. MovePath(Vault, p, q)
      BY <2>1, <2>2, <2>5, <3>1 DEF Carried, Crossing, Moved, Eligible
    <3>3. SettledAt(p) /\ Exists(Rows[p])
      BY <3>1 DEF Carried, SettledAt, Exists
    <3>4. Rows'[q] = [Rows[p] EXCEPT !.present = TRUE]
      BY <1>2, <2>1, <3>2, <3>3, MovedRows
    <3>5. Rows'[q].present = TRUE /\ Rows'[q].status = Rows[p].status
      BY <1>2, <3>4, RowFacts DEF Row
    <3> QED
      BY <3>3, <3>5 DEF Standing, SettledAt, Here
  <2>6. ASSUME NEW r \in Eligible, KnownAt(r) PROVE Standing(r)' \/ Arriving(r)'
    <3>1. r # p /\ r \in Paths
      BY <2>1, <2>6, PathSets DEF Crossing, KnownAt
    <3>2. CASE r = q
      BY <2>5, <2>6, <3>2
    <3>3. CASE r # q
      <4>1. r # e[3] /\ Rows'[r] = Rows[r]
        BY <2>1, <2>4, <3>1, <3>3
      <4> QED
        BY <1>s, <2>6, <4>1
    <3> QED
      BY <3>2, <3>3
  <2>7. \A r \in Paths : Rows'[r] = Rows[r] \/ Concerns(e, r)
    BY <1>3, <1>10, <2>1, <2>4 DEF Concerns
  <2>8. \A r \in Paths : Leaving(r) => Leaving(r)'
    BY <1>4, <1>10
  <2> QED
    BY <1>7, <1>10, <2>4, <2>6, <2>7, <2>8
<1> QED
  BY <1>8, <1>9, <1>10

\* A step in which the disk, the queue and the scan are as before: what else Orderly
\* speaks of is kept with the paths the program has nothing to do with, the rows of
\* the settled documents, and those that leave with theirs.
LEMMA StillOrderly ==
  ASSUME OnceInv,
         UNCHANGED <<disk, changed, created, now, events, scan, vaults, posts, baseline>>,
         NewVault', AttemptOnDisk',
         \A q \in Paths : Spared(q) /\ changed[q] = now => Spared(q)',
         \A q \in Paths : Untouched(q) /\ Rows'[q].present => Rows[q].present,
         \A q \in Paths : Untouched(q) /\ changed[q] = now => Untouched(q)',
         \A q \in Paths : Attempted(q)' => Attempted(q) /\ delivering' = delivering,
         \A q \in Paths : Carried(q) => Carried(q)',
         \A q \in Eligible : KnownAt(q) /\ Standing(q) => Standing(q)'
  PROVE  Orderly'
<1>1. /\ Numbered /\ Renewed /\ MoveWaits /\ KnownSettled /\ ScanMissed
  BY DEF OnceInv, Orderly
<1>2. Numbered' /\ AnnouncedOnce' /\ \A q : KnownAt(q)' <=> KnownAt(q)
  BY SameDocuments
<1>3. /\ \A q : Leaving(q)' <=> Leaving(q)
      /\ \A x, y : MoveQueued(x, y)' <=> MoveQueued(x, y)
      /\ \A q : Arriving(q)' <=> Arriving(q)
  BY DEF Leaving, Arriving, MoveQueued, InQueue
<1>4. Renewed'
  <2> SUFFICES ASSUME NEW q \in Paths, disk[q] # NoDoc, Leaving(q) PROVE RenewedAt(q)'
    BY <1>3 DEF Renewed
  <2> QED
    BY <1>1, <1>2, <1>3 DEF Renewed, RenewedAt
<1>5. MoveWaits'
  <2> SUFFICES ASSUME NEW x \in Paths, NEW y \in Paths, MoveQueued(x, y) PROVE Crossing(x, y)'
    BY <1>3 DEF MoveWaits
  <2>1. Crossing(x, y)
    BY <1>1 DEF MoveWaits
  <2>2. Spared(y)' /\ (Rows'[y].present => Rows[y].present)
    BY <2>1 DEF Crossing, Spared
  <2>3. /\ Attempted(x)' => delivering'[3] = NoDoc
        /\ KnownAt(y)' => Carried(x)'
    BY <1>2, <2>1 DEF Crossing
  <2> QED
    BY <1>3, <2>1, <2>2, <2>3 DEF Crossing
<1>6. KnownSettled'
  <2> SUFFICES ASSUME Vault \in vaults, NEW q \in Eligible, KnownAt(q)
               PROVE  Standing(q)' \/ Arriving(q)'
    BY <1>2 DEF KnownSettled
  <2>1. Standing(q) \/ Arriving(q)
    BY <1>1 DEF KnownSettled
  <2> QED
    BY <1>3, <2>1
<1>7. ScanMissed'
  <2> SUFFICES ASSUME Vault \in vaults, scan.phase = "reconcile",
                      NEW q \in Scannable \ scan.found, disk[q] # NoDoc
               PROVE  UnseenAt(q)'
    BY DEF ScanMissed
  <2>1. UnseenAt(q) /\ q \in Paths
    BY <1>1, PathSets DEF ScanMissed
  <2>2. Untouched(q)' /\ (Rows'[q].present => Rows[q].present)
    BY <2>1 DEF UnseenAt
  <2> QED
    BY <1>2, <1>3, <2>1, <2>2 DEF UnseenAt
<1> QED
  BY <1>2, <1>4, <1>5, <1>6, <1>7 DEF Orderly

\* The dispatcher takes a file that is at rest, or one that is gone.
LEMMA TakeOnce ==
  ASSUME Patient, OnceInv, NEW p \in Paths, DispatchGone(p) \/ Dispatch(p) PROVE Orderly'
<1>1. /\ p \in awaiting /\ observing = Nothing
      /\ awaiting' = awaiting \ {p}
      /\ observing' = Nothing
         \/ (observing' = p /\ disk[p] # NoDoc /\ changed[p] + Quiet <= now)
      /\ UNCHANGED <<vaults, documents, now, disk, changed, created, service, watching, events, scan,
                     delivering, posts, baseline>>
  BY DEF DispatchGone, Dispatch, Take, storeVars, diskVars, deliveryVars
<1>2. NewVault /\ AttemptOnDisk /\ TypeOK
  BY DEF OnceInv, Orderly, QueueInv, VaultInv
<1>3. \A q \in Paths : Untouched(q) /\ changed[q] = now => Untouched(q)'
  <2>1. changed[p] \in Nat /\ now \in Nat /\ Quiet \in Nat /\ Quiet > 0
    BY <1>2, DiskTypes, OneVault DEF Patient, Uncrossed
  <2> QED
    BY <1>1, <2>1 DEF Untouched
<1>4. AttemptOnDisk' /\ NewVault'
  BY <1>1, <1>2 DEF NewVault, AttemptOnDisk
<1>5. Rows' = Rows /\ \A q : Attempted(q)' <=> Attempted(q)
  BY <1>1 DEF Rows, Attempted
<1>6. \A q \in Paths : Spared(q) /\ changed[q] = now => Spared(q)'
  BY <1>1, <1>3, <1>5 DEF Spared
<1>7. \A q \in Paths : Carried(q) => Carried(q)'
  BY <1>1, <1>5 DEF Carried, SettledAt, Here, Leaving, InQueue
<1>8. \A q \in Eligible : Standing(q) => Standing(q)'
  BY <1>1, <1>5 DEF Standing, SettledAt, UnderWay, Here
<1> QED
  BY <1>1, <1>3, <1>4, <1>5, <1>6, <1>7, <1>8, StillOrderly

\* An observation of a file that was at rest, or the failure to record it.
LEMMA ObserveOnce == ASSUME OnceInv, Observe \/ ObserveRaises PROVE Orderly'
<1>1. /\ observing # Nothing /\ observing' = Nothing
      /\ UNCHANGED <<now, disk, changed, created, service, watching, events, awaiting, scan,
                     delivering, posts, baseline>>
  BY DEF Observe, ObserveNew, ObserveRaises, storeVars, diskVars, deliveryVars
<1>2. NewVault /\ AttemptOnDisk /\ TypeOK /\ StoreInv
  BY DEF OnceInv, Orderly, QueueInv, VaultInv
<1>4. PICK o \in Scannable : o = observing
  BY <1>1, <1>2 DEF TypeOK
<1>5. vaults' = vaults /\ Vault \in vaults
  BY <1>1, <1>2 DEF NewVault, Observe, ObserveNew, ObserveRaises, storeVars
<1>6. \A q \in Paths : Rows'[q] = Rows[q] \/ (q = o /\ ~ Rows[o].present)
  <2>1. CASE Observe
    <3>1. ObserveNew(Vault, o) /\ o \in Paths
      BY <1>4, <2>1, PathSets DEF Observe
    <3> QED
      BY <1>2, <3>1, ObservedRows DEF Observed
  <2>2. CASE ObserveRaises
    BY <2>2 DEF ObserveRaises, storeVars, Rows
  <2> QED
    BY <2>1, <2>2
<1>7. \A q \in Paths : Untouched(q) => Rows'[q] = Rows[q] /\ Untouched(q)'
  BY <1>1, <1>4, <1>6 DEF Untouched
<1>8. AttemptOnDisk' /\ NewVault' /\ \A q : Attempted(q)' <=> Attempted(q)
  BY <1>1, <1>2, <1>5 DEF AttemptOnDisk, NewVault, Attempted
<1>9. \A q \in Paths : Here(q) => Rows'[q] = Rows[q]
  BY <1>4, <1>6 DEF Here, Scannable
<1>10. \A q \in Paths : Spared(q) => Spared(q)'
  BY <1>1, <1>7, <1>8 DEF Spared
<1>11. \A q \in Paths : Carried(q) => Carried(q)'
  BY <1>1, <1>8, <1>9 DEF Carried, SettledAt, Here, Leaving, InQueue
<1>12. \A q \in Eligible : Standing(q) => Standing(q)'
  BY <1>1, <1>9, PathSets DEF Standing, SettledAt, UnderWay, Here
<1> QED
  BY <1>1, <1>5, <1>7, <1>8, <1>10, <1>11, <1>12, StillOrderly

\* What the program is restarted with: the rows, and a queue that lost no rename.
LEMMA Restarted ==
  ASSUME OnceInv, Start \/ StartWorker \/ WatcherDies \/ ReplaceWatcher \/ Crash
  PROVE  /\ UNCHANGED <<vaults, now, disk, changed, created, delivering, posts, baseline>>
         /\ observing' \in {observing, Nothing} /\ awaiting' \in {awaiting, {}}
         /\ \A p \in Paths : Rows'[p] = Rows[p]
<1>1. /\ UNCHANGED <<vaults, now, disk, changed, created, delivering, posts, baseline>>
      /\ observing' \in {observing, Nothing} /\ awaiting' \in {awaiting, {}}
  BY DEF Start, Open, StartWorker, ResumePending, WatcherDies, ReplaceWatcher, Crash, storeVars,
     diskVars, watchVars, deliveryVars
<1>2. VaultInv /\ NeverTried /\ StoreInv
  BY DEF OnceInv, QueueInv, VaultInv
<1>3. Open \/ ResumePending \/ UNCHANGED documents
  BY DEF Start, StartWorker, WatcherDies, ReplaceWatcher, Crash, storeVars
<1>4. \A p \in Paths : Rows'[p] \in {Rows[p], Migrated(Rows[p]), Resumed(Rows[p])}
  BY <1>2, <1>3, Opened, ResumedRows DEF Rows
<1> QED
  BY <1>1, <1>2, <1>4, RowsHaveDeadlines

\* The end of a start.
LEMMA StartedOnce == ASSUME OnceInv, StartWorker PROVE Orderly'
<1>1. /\ UNCHANGED <<vaults, now, disk, changed, created, delivering, posts, baseline, watching,
                     events, awaiting, observing, scan>>
      /\ \A p \in Paths : Rows'[p] = Rows[p]
      /\ service = "starting" /\ scan.phase = "none" /\ service' = "up"
  BY Restarted DEF StartWorker, NoScan, watchVars
<1>2. NewVault /\ AttemptOnDisk
  BY DEF OnceInv, Orderly
<1>3. NewVault' /\ AttemptOnDisk'
  BY <1>1, <1>2 DEF NewVault, AttemptOnDisk
<1>4. /\ \A q : Attempted(q)' <=> Attempted(q)
      /\ \A q : Untouched(q)' <=> Untouched(q)
      /\ \A q \in Paths : Spared(q) => Spared(q)'
  BY <1>1 DEF Attempted, Untouched, Spared
<1>5. \A q \in Paths : Carried(q) => Carried(q)'
  BY <1>1, <1>4 DEF Carried, SettledAt, Here, Leaving, InQueue
<1>6. \A q \in Eligible : Standing(q) => Standing(q)'
  BY <1>1, PathSets DEF Standing, SettledAt, UnderWay, Here
<1> QED
  BY <1>1, <1>3, <1>4, <1>5, <1>6, StillOrderly

\* A start, a failing watcher and its replacement, and a crash: the queue is lost.
LEMMA RestartOnce ==
  ASSUME OnceInv, Start \/ WatcherDies \/ ReplaceWatcher \/ Crash PROVE Orderly'
<1>1. /\ UNCHANGED <<vaults, now, disk, changed, created, delivering, posts, baseline>>
      /\ observing' \in {observing, Nothing} /\ awaiting' \in {awaiting, {}}
      /\ \A p \in Paths : Rows'[p] = Rows[p]
  BY Restarted
<1>2. Control /\ NewVault /\ AttemptOnDisk /\ KnownSettled
  BY DEF OnceInv, Orderly, QueueInv
<1>3. Numbered' /\ AnnouncedOnce' /\ \A q : KnownAt(q)' <=> KnownAt(q)
  BY <1>1, SameDocuments
<1>4. events' = <<>> /\ \A x, y : ~ MoveQueued(x, y)
  <2>1. events' = <<>> /\ (events = <<>> \/ QueueExpendable)
    BY <1>2 DEF Start, WatcherDies, ReplaceWatcher, Crash, Control
  <2>2. QueueExpendable => \A x, y : ~ MoveQueued(x, y)
    BY DEF QueueExpendable, MoveQueued, InQueue
  <2> QED
    BY <2>1, <2>2 DEF MoveQueued, InQueue
<1>5. Renewed' /\ MoveWaits'
  BY <1>4 DEF Renewed, MoveWaits, Leaving, MoveQueued, InQueue
<1>6. AttemptOnDisk'
  BY <1>1, <1>2 DEF AttemptOnDisk
<1>7. KnownSettled'
  <2> SUFFICES ASSUME Vault \in vaults, NEW q \in Eligible, KnownAt(q) PROVE Standing(q)'
    BY <1>1, <1>3 DEF KnownSettled
  <2>1. Standing(q)
    BY <1>2, <1>4 DEF KnownSettled, Arriving
  <2> QED
    BY <1>1, <2>1, PathSets DEF Standing, SettledAt, UnderWay, Here
<1>8. ScanMissed'
  BY <1>2 DEF Control, ScanMissed, Start, WatcherDies, ReplaceWatcher, Crash, Begin, NoScan
<1>9. NewVault'
  <2> SUFFICES ASSUME Vault \notin vaults PROVE NewVault'
    BY <1>1 DEF NewVault
  <2>1. /\ ~ watching /\ awaiting = {} /\ observing = Nothing /\ delivering = Nothing
        /\ service # "up" /\ \A d \in Documents : posts[d] = 0
    BY <1>2 DEF NewVault
  <2>2. /\ ~ watching' /\ service' \in {"starting", "down"}
        /\ service' = "starting" => scan'.phase = "read"
        /\ scan'.phase # "reconcile"
    <3>1. CASE Start
      BY <3>1 DEF Start, Begin
    <3>2. CASE Crash
      BY <3>2 DEF Crash, NoScan
    <3>3. ~ WatcherDies /\ ~ ReplaceWatcher
      BY <2>1 DEF WatcherDies, ReplaceWatcher
    <3> QED
      BY <3>1, <3>2, <3>3
  <2> QED
    BY <1>1, <2>1, <2>2 DEF NewVault
<1> QED
  BY <1>3, <1>5, <1>6, <1>7, <1>8, <1>9 DEF Orderly

\* While a scan is under way, no rename is queued.
LEMMA NoMoveInScan ==
  ASSUME MoveWaits, scan.phase # "none"
  PROVE  \A x, y \in Paths : ~ MoveQueued(x, y)
  BY DEF MoveWaits, Crossing

\* The directory is read: for a new vault, this is the baseline.
LEMMA ReadOnce == ASSUME OnceInv, ReadDirectory PROVE Orderly'
<1>1. /\ UNCHANGED <<vaults, documents, now, disk, changed, created, service, watching, events,
                     awaiting, observing, delivering, posts>>
      /\ scan.phase = "read" /\ scan'.phase = "reconcile"
      /\ scan'.found = {p \in Scannable : disk[p] # NoDoc}
  BY DEF ReadDirectory, storeVars, diskVars, watchVars, deliveryVars, OnceInv, QueueInv, VaultInv, TypeOK
<1>2. /\ Control /\ NewVault /\ Numbered /\ Renewed /\ MoveWaits /\ AttemptOnDisk /\ KnownSettled
      /\ AnnouncedOnce /\ TypeOK
  BY DEF OnceInv, Orderly, QueueInv, VaultInv
<1>3. \A x, y \in Paths : ~ MoveQueued(x, y)
  BY <1>1, <1>2, NoMoveInScan
<1>4. /\ \A q : Leaving(q)' <=> Leaving(q)
      /\ \A x, y : MoveQueued(x, y)' <=> MoveQueued(x, y)
      /\ \A q : Spared(q)' <=> Spared(q)
  BY <1>1 DEF Leaving, MoveQueued, InQueue, Spared, Untouched, Attempted, Rows
<1>5. MoveWaits' /\ AttemptOnDisk' /\ \A q \in Paths : ~ Arriving(q)' /\ ~ Arriving(q)
  BY <1>1, <1>2, <1>3, <1>4 DEF MoveWaits, AttemptOnDisk, Arriving
<1>6. CASE Vault \in vaults
  <2>1. baseline' = baseline
    BY <1>6 DEF ReadDirectory
  <2>2. NewVault'
    BY <1>1, <1>6 DEF NewVault
  <2>3. Numbered' /\ AnnouncedOnce' /\ \A p : KnownAt(p)' <=> KnownAt(p)
    BY <1>1, <2>1, SameDocuments
  <2>4. KnownSettled'
    <3>1. \A q \in Paths : Standing(q)' <=> Standing(q)
      BY <1>1 DEF Standing, SettledAt, UnderWay, Here, Rows
    <3> QED
      BY <1>1, <1>2, <1>5, <2>3, <3>1, PathSets DEF KnownSettled
  <2>5. Renewed'
    <3> SUFFICES ASSUME NEW q \in Paths, disk[q] # NoDoc, Leaving(q) PROVE RenewedAt(q)'
      BY <1>1, <1>4 DEF Renewed
    <3>1. RenewedAt(q)
      BY <1>2 DEF Renewed
    <3> QED
      BY <1>1, <1>4, <1>5, <2>3, <3>1 DEF RenewedAt
  <2>6. ScanMissed'
    BY <1>1 DEF ScanMissed
  <2> QED
    BY <1>5, <2>2, <2>3, <2>4, <2>5, <2>6 DEF Orderly
<1>7. CASE Vault \notin vaults
  <2>1. \A d : d \in baseline' <=> \E q \in Scannable : disk[q] # NoDoc /\ disk[q] = d
    BY <1>7 DEF ReadDirectory
  <2>2. \A p \in Paths : disk[p] \in baseline' => p \in scan'.found
    BY <1>1, <1>2, <2>1, PathSets DEF Numbered
  <2>3. \A d \in Documents : posts[d] = 0
    BY <1>2, <1>7 DEF NewVault
  <2>4. NewVault'
    BY <1>1, <1>2, <1>7, <2>2, <2>3 DEF NewVault
  <2>5. Numbered'
    <3>1. \A d \in Documents : d > created => d \notin baseline'
      BY <1>2, <2>1, DiskTypes, PathSets DEF Numbered
    <3> QED
      BY <1>1, <1>2, <2>3, <3>1 DEF Numbered
  <2>6. AnnouncedOnce'
    BY <1>1, <2>3 DEF AnnouncedOnce
  <2>7. KnownSettled' /\ ScanMissed'
    BY <1>1, <1>7 DEF KnownSettled, ScanMissed
  <2>8. Renewed'
    <3>1. \A q : ~ Leaving(q)
      BY <1>2, <1>7 DEF NewVault, Control, Leaving, InQueue
    <3> QED
      BY <1>4, <3>1 DEF Renewed
  <2> QED
    BY <1>5, <2>4, <2>5, <2>6, <2>7, <2>8 DEF Orderly
<1> QED
  BY <1>6, <1>7

\* The scan is written to the rows.
LEMMA ScanOnce == ASSUME Patient, OnceInv, FinishScan PROVE Orderly'
<1>1. /\ UNCHANGED <<disk, changed, created, service, events, awaiting, observing, delivering, posts,
                     baseline>>
      /\ scan.phase = "reconcile" /\ scan' = NoScan /\ scan'.phase = "none" /\ watching'
      /\ Reconcile(Vault, scan.found, scan.since + Quiet)
  BY DEF FinishScan, NoScan, diskVars, deliveryVars
<1>2. /\ Control /\ NewVault /\ Renewed /\ MoveWaits /\ AttemptOnDisk /\ KnownSettled /\ ScanMissed
      /\ TypeOK /\ StoreInv
  BY DEF OnceInv, Orderly, QueueInv, VaultInv
<1>3. Numbered' /\ AnnouncedOnce' /\ \A p : KnownAt(p)' <=> KnownAt(p)
  BY <1>1, SameDocuments
<1>4. PICK at \in Nat : at > now /\ Reconcile(Vault, scan.found, at)
  <2>1. scan.since = now /\ now \in Nat /\ Quiet \in Nat /\ Quiet > 0
    BY <1>1, <1>2, DiskTypes, OneVault DEF Control, Patient, Uncrossed
  <2>2. now + Quiet \in Nat /\ now + Quiet > now
    BY <2>1
  <2> QED
    BY <1>1, <2>1, <2>2
<1>5. /\ vaults' = vaults \cup {Vault} /\ now' = now
      /\ \A p \in Paths : Rows'[p] = IF Vault \in vaults THEN Reconciled(Rows[p], p \in scan.found, at)
                                     ELSE IF p \in scan.found THEN BaselineRow ELSE Rows[p]
  BY <1>2, <1>4, ScannedRows
<1>6. /\ \A x, y \in Paths : ~ MoveQueued(x, y) /\ ~ MoveQueued(x, y)'
      /\ \A q : Leaving(q)' <=> Leaving(q)
  BY <1>1, <1>2, NoMoveInScan DEF MoveQueued, InQueue, Leaving
<1>7. NewVault' /\ MoveWaits' /\ AttemptOnDisk' /\ ScanMissed'
  BY <1>1, <1>2, <1>5, <1>6 DEF NewVault, MoveWaits, AttemptOnDisk, ScanMissed
<1>8. Renewed'
  <2> SUFFICES ASSUME NEW q \in Paths, disk[q] # NoDoc, Leaving(q) PROVE RenewedAt(q)'
    BY <1>1, <1>6 DEF Renewed
  <2>1. RenewedAt(q) /\ ~ Arriving(q)
    BY <1>2, <1>6 DEF Renewed, Arriving
  <2>2. Vault \in vaults
    BY <1>2 DEF NewVault, Control, Leaving, InQueue
  <2>3. \/ Rows'[q] = Rows[q] \/ Rows'[q] = Missing(Rows[q])
        \/ Rows'[q] = Observed(Rows[q], at)
    BY <1>5, <2>2 DEF Reconciled
  <2>4. Untouched(q)' /\ ~ Attempted(q)' /\ Spared(q)
    BY <1>1, <2>1 DEF RenewedAt, Spared, Untouched, Attempted
  <2>5. Spared(q)'
    BY <1>2, <1>4, <1>5, <2>3, <2>4, StaysSpared
  <2> QED
    BY <1>1, <1>3, <1>5, <2>1, <2>5 DEF RenewedAt
<1>9. KnownSettled'
  <2> SUFFICES ASSUME NEW q \in Eligible, KnownAt(q) PROVE Standing(q)'
    BY <1>3 DEF KnownSettled
  <2>0. q \in Paths /\ (q \notin Drafts => q \in Scannable) /\ Rows[q] \in Row
    BY <1>2, PathSets, RowFacts
  <2>1. CASE Vault \in vaults
    <3>1. Standing(q)
      BY <1>2, <1>6, <2>0, <2>1 DEF KnownSettled, Arriving
    <3>2. Rows'[q] = Rows[q] \/ (q \in Drafts /\ Rows'[q] = Missing(Rows[q]))
      <4>1. CASE q \in Drafts
        <5>1. q \notin scan.found
          BY <1>2, <2>0, <4>1 DEF TypeOK, Scannable
        <5> QED
          BY <1>5, <2>0, <2>1, <4>1, <5>1 DEF Reconciled
      <4>2. CASE q \notin Drafts
        <5>1. q \in scan.found
          BY <1>1, <1>2, <2>0, <2>1, <4>2 DEF ScanMissed, UnseenAt, KnownAt
        <5>2. Rows[q].present
          BY <3>1, <4>2 DEF Standing, Here
        <5> QED
          BY <1>5, <2>0, <2>1, <5>1, <5>2 DEF Reconciled, Observed
      <4> QED
        BY <4>1, <4>2
    <3>3. /\ Missing(Rows[q]).status = Rows[q].status
          /\ Missing(Rows[q]).generation = Rows[q].generation
      BY <1>2, <2>0, MissingKeeps
    <3> QED
      BY <1>1, <3>1, <3>2, <3>3 DEF Standing, SettledAt, UnderWay, Here
  <2>2. CASE Vault \notin vaults
    <3>1. q \in scan.found
      BY <1>1, <1>2, <2>0, <2>2, DiskTypes DEF NewVault, KnownAt
    <3>2. Rows'[q] = BaselineRow
      BY <1>5, <2>0, <2>2, <3>1
    <3> QED
      BY <3>2 DEF Standing, SettledAt, Here, BaselineRow
  <2> QED
    BY <2>1, <2>2
<1> QED
  BY <1>3, <1>7, <1>8, <1>9 DEF Orderly

\* An attempt posts a document nobody has announced.
LEMMA AttemptOnce == ASSUME OnceInv, NEW p \in Paths, Attempt(p) PROVE Orderly'
<1>1. /\ service = "up" /\ delivering = Nothing /\ DueBy(Rows[p], now)
      /\ delivering' = <<p, Rows[p].generation, disk[p]>>
      /\ posts' = [d \in Documents |-> IF d = disk[p] THEN posts[d] + 1 ELSE posts[d]]
      /\ UNCHANGED <<vaults, documents, now, disk, changed, created, service, watching, events,
                     awaiting, observing, scan, baseline>>
  BY DEF Attempt, storeVars, diskVars, watchVars
<1>2. /\ NewVault /\ Numbered /\ Renewed /\ MoveWaits /\ KnownSettled /\ ScanMissed
      /\ AnnouncedOnce /\ TypeOK
  BY DEF OnceInv, Orderly, QueueInv, VaultInv
<1>3. Vault \in vaults /\ Rows[p].status = "pending" /\ Rows[p].present
  BY <1>1, <1>2 DEF NewVault, DueBy, Scheduled, Deliverable
<1>4. p \in Eligible
  <2>1. Rows[p] # NoRow
    BY <1>3 DEF NoRow
  <2> QED
    BY <2>1 DEF OnceInv, QueueInv, VaultInv, Eligible
<1>s. /\ \A q \in Paths : Spared(q) => q # p /\ Spared(q)'
      /\ \A q \in Paths : Attempted(q)' => q = p
      /\ \A q \in Paths : SettledAt(q) => q # p
      /\ \A q : Untouched(q)' <=> Untouched(q)
      /\ Rows' = Rows
  BY <1>1, <1>3 DEF Spared, Attempted, Untouched, SettledAt, Rows
<1>q. /\ \A q : Leaving(q)' <=> Leaving(q)
      /\ \A x, y : MoveQueued(x, y)' <=> MoveQueued(x, y)
      /\ \A q : Arriving(q)' <=> Arriving(q)
  BY <1>1 DEF Leaving, Arriving, MoveQueued, InQueue
<1>5. ~ KnownAt(p)
  <2>1. ~ SettledAt(p) /\ ~ UnderWay(p)
    BY <1>1, <1>3 DEF SettledAt, UnderWay, Nothing
  <2>2. ~ Arriving(p)
    BY <1>2, <1>s DEF MoveWaits, Arriving, Crossing
  <2> QED
    BY <1>2, <1>3, <1>4, <2>1, <2>2 DEF KnownSettled, Standing
<1>6. \A q \in Paths \ {p} : KnownAt(q)' <=> KnownAt(q)
  BY <1>1, <1>2, DiskTypes DEF KnownAt, Numbered
<1>7. NewVault'
  BY <1>1, <1>3 DEF NewVault
<1>8. Numbered'
  <2>1. \A d \in Documents : d > created => posts'[d] = posts[d]
    BY <1>1, <1>2, DiskTypes DEF Numbered
  <2> QED
    BY <1>1, <1>2, <2>1 DEF Numbered
<1>9. AttemptOnDisk'
  BY <1>1 DEF AttemptOnDisk
<1>10. AnnouncedOnce'
  <2> SUFFICES ASSUME NEW d \in Documents
               PROVE  posts'[d] <= IF d \in baseline THEN 0 ELSE 1
    BY <1>1 DEF AnnouncedOnce
  <2>1. posts[d] \in Nat /\ posts[d] <= IF d \in baseline THEN 0 ELSE 1
    BY <1>2, DiskTypes DEF AnnouncedOnce
  <2>2. CASE d = disk[p]
    <3>1. d # NoDoc
      BY OneVault
    <3>2. d \notin baseline /\ posts[d] = 0
      BY <1>5, <2>1, <2>2, <3>1 DEF KnownAt
    <3> QED
      BY <1>1, <2>2, <3>2
  <2>3. CASE d # disk[p]
    BY <1>1, <2>1, <2>3
  <2> QED
    BY <2>2, <2>3
<1>11. MoveWaits'
  <2> SUFFICES ASSUME NEW x \in Paths, NEW y \in Paths, MoveQueued(x, y) PROVE Crossing(x, y)'
    BY <1>q DEF MoveWaits
  <2>1. Crossing(x, y)
    BY <1>2 DEF MoveWaits
  <2>2. y # p /\ Spared(y)' /\ (KnownAt(y)' <=> KnownAt(y))
    BY <1>6, <1>s, <2>1 DEF Crossing
  <2>3. Attempted(x)' => delivering'[3] = NoDoc
    BY <1>1, <1>s, <2>1 DEF Crossing
  <2>4. Carried(x) => Carried(x)'
    BY <1>q, <1>s DEF Carried, SettledAt, Here
  <2> QED
    BY <1>1, <1>q, <1>s, <2>1, <2>2, <2>3, <2>4 DEF Crossing
<1>12. Renewed'
  <2> SUFFICES ASSUME NEW q \in Paths, disk[q] # NoDoc, Leaving(q) PROVE RenewedAt(q)'
    BY <1>1, <1>q DEF Renewed
  <2>1. RenewedAt(q) /\ q # p
    BY <1>2, <1>s DEF Renewed, RenewedAt
  <2> QED
    BY <1>1, <1>6, <1>q, <1>s, <2>1 DEF RenewedAt
<1>13. KnownSettled'
  <2> SUFFICES ASSUME NEW q \in Eligible, KnownAt(q)' PROVE Standing(q)' \/ Arriving(q)'
    BY DEF KnownSettled
  <2>1. CASE q = p
    BY <1>1, <1>3, <1>s, <2>1 DEF Standing, UnderWay, Here
  <2>2. CASE q # p
    <3>1. KnownAt(q) /\ ~ UnderWay(q) /\ q \in Paths
      BY <1>1, <1>6, <2>2, PathSets DEF UnderWay, Nothing
    <3>2. (SettledAt(q) /\ Here(q)) \/ Arriving(q)
      BY <1>2, <1>3, <3>1 DEF KnownSettled, Standing
    <3> QED
      BY <1>q, <1>s, <3>2 DEF Standing, SettledAt, Here
  <2> QED
    BY <2>1, <2>2
<1>14. ScanMissed'
  <2> SUFFICES ASSUME scan.phase = "reconcile", NEW q \in Scannable \ scan.found, disk[q] # NoDoc
               PROVE  UnseenAt(q)'
    BY <1>1 DEF ScanMissed
  <2>1. UnseenAt(q) /\ q \in Paths
    BY <1>2, <1>3, PathSets DEF ScanMissed
  <2>2. q # p
    <3>1. Leaving(q) => Spared(q)
      BY <1>2, <2>1 DEF Renewed, RenewedAt
    <3> QED
      BY <1>3, <1>s, <2>1, <3>1 DEF UnseenAt
  <2> QED
    BY <1>1, <1>6, <1>q, <1>s, <2>1, <2>2 DEF UnseenAt
<1> QED
  BY <1>7, <1>8, <1>9, <1>10, <1>11, <1>12, <1>13, <1>14 DEF Orderly

\* An answered attempt settles the row of what it posted, and marks missing only
\* what is not there.
LEMMA ConcludeOnce == ASSUME OnceInv, Conclude PROVE Orderly'
<1>1. /\ delivering # Nothing /\ delivering' = Nothing
      /\ UNCHANGED <<disk, changed, created, service, watching, events, awaiting, observing, scan,
                     posts, baseline>>
  BY DEF Conclude, diskVars, watchVars
<1>2. NewVault /\ AttemptOnDisk /\ TypeOK /\ StoreInv
  BY DEF OnceInv, Orderly, QueueInv, VaultInv
<1>4. PICK p \in Paths, g \in Nat, d \in Documents \cup {NoDoc} : delivering = <<p, g, d>>
  BY <1>1, <1>2 DEF TypeOK
<1>5. disk[p] \in {NoDoc, d} /\ Vault \in vaults
  BY <1>1, <1>2, <1>4 DEF AttemptOnDisk, NewVault
<1>6. /\ UNCHANGED <<vaults, now>> /\ \A q \in Paths \ {p} : Rows'[q] = Rows[q]
      /\ IF d = NoDoc THEN Rows'[p] = Missing(Rows[p])
         ELSE Rows'[p] = IF AcceptsSent(Rows[p], g) THEN Sent(Rows[p], d) ELSE Rows[p]
  <2>1. IF d = NoDoc THEN MarkMissing(Vault, p) ELSE MarkSent(Vault, p, g, d)
    BY <1>4 DEF Conclude
  <2>2. CASE d = NoDoc
    BY <1>2, <2>1, <2>2, MissingRows
  <2>3. CASE d # NoDoc
    BY <1>2, <2>1, <2>3, SentRows
  <2> QED
    BY <2>2, <2>3
<1>7. \A q \in Paths : Rows'[q].present => Rows[q].present
  <2>1. Rows[p] \in Row
    BY <1>2, RowFacts
  <2>2. /\ Missing(Rows[p]).present = FALSE
        /\ Sent(Rows[p], d).present = Rows[p].present
    BY <2>1 DEF Missing, Sent, Row
  <2>3. Rows'[p].present => Rows[p].present
    BY <1>6, <2>2
  <2> QED
    BY <1>6, <2>3
<1>8. /\ \A q : ~ Attempted(q)' /\ (Attempted(q) <=> q = p)
      /\ \A q : Untouched(q)' <=> Untouched(q)
      /\ NewVault' /\ AttemptOnDisk'
  BY <1>1, <1>2, <1>4, <1>5, <1>6 DEF Attempted, Untouched, NewVault, AttemptOnDisk
<1>9. \A q \in Paths : Spared(q) => Spared(q)'
  BY <1>6, <1>8 DEF Spared
<1>10. \A q \in Paths : Carried(q) => Carried(q)'
  BY <1>1, <1>6, <1>8 DEF Carried, SettledAt, Here, Leaving, InQueue
<1>11. ASSUME NEW q \in Eligible, KnownAt(q), Standing(q) PROVE Standing(q)'
  <2>1. CASE q # p
    <3>1. ~ UnderWay(q) /\ Rows'[q] = Rows[q]
      BY <1>4, <1>6, <2>1, PathSets DEF UnderWay
    <3> QED
      BY <1>11, <3>1 DEF Standing, SettledAt, Here
  <2>2. CASE q = p
    <3>1. d # NoDoc /\ Rows[p] \in Row
      BY <1>2, <1>5, <1>11, <2>2, RowFacts DEF KnownAt
    <3>2. UnderWay(p) => AcceptsSent(Rows[p], g)
      BY <1>4 DEF UnderWay, AcceptsSent
    <3>3. SettledAt(p)'
      BY <1>6, <1>11, <2>2, <3>1, <3>2 DEF Standing, SettledAt, Sent, Row
    <3>4. Rows'[p].present = Rows[p].present
      BY <1>6, <3>1 DEF Sent, Row
    <3> QED
      BY <1>11, <2>2, <3>3, <3>4 DEF Standing, Here
  <2> QED
    BY <2>1, <2>2
<1> QED
  BY <1>1, <1>6, <1>7, <1>8, <1>9, <1>10, <1>11, StillOrderly

\* Time passes only when the queue is empty and no scan is under way.
LEMMA ClockOnce == ASSUME Patient, OnceInv, Clock PROVE Orderly'
<1>1. /\ scan = NoScan /\ events = <<>>
      /\ UNCHANGED <<vaults, documents, disk, changed, created, service, watching, events, awaiting,
                     observing, scan, delivering, posts, baseline>>
  BY DEF Patient, Uncrossed, Clock, Tick, diskVars, watchVars, deliveryVars
<1>2. NewVault /\ AttemptOnDisk /\ KnownSettled
  BY DEF OnceInv, Orderly
<1>3. Numbered' /\ AnnouncedOnce' /\ \A q : KnownAt(q)' <=> KnownAt(q)
  BY <1>1, SameDocuments
<1>4. NewVault' /\ AttemptOnDisk'
  BY <1>1, <1>2 DEF NewVault, AttemptOnDisk
<1>5. Renewed' /\ MoveWaits' /\ ScanMissed'
  BY <1>1 DEF Renewed, Leaving, MoveWaits, MoveQueued, InQueue, ScanMissed, NoScan
<1>6. KnownSettled'
  BY <1>1, <1>2, <1>3
  DEF KnownSettled, Standing, SettledAt, UnderWay, Here, Arriving, MoveQueued, InQueue, Rows
<1> QED
  BY <1>3, <1>4, <1>5, <1>6 DEF Orderly

\* A step in which nothing changes.
LEMMA StutterOnce == ASSUME OnceInv, UNCHANGED vars PROVE Orderly'
<1>1. UNCHANGED <<vaults, documents, now, disk, changed, created, service, watching, events,
                  awaiting, observing, scan, delivering, posts, baseline>>
  BY DEF vars, storeVars, diskVars, watchVars, deliveryVars
<1>2. NewVault /\ AttemptOnDisk
  BY DEF OnceInv, Orderly
<1>3. /\ NewVault' /\ AttemptOnDisk' /\ Rows' = Rows
      /\ \A q : Attempted(q)' <=> Attempted(q)
      /\ \A q : Untouched(q)' <=> Untouched(q)
  BY <1>1, <1>2 DEF NewVault, AttemptOnDisk, Rows, Attempted, Untouched
<1>4. /\ \A q : Spared(q)' <=> Spared(q)
      /\ \A q : Carried(q) => Carried(q)'
      /\ \A q : Standing(q) => Standing(q)'
  BY <1>1, <1>3
  DEF Spared, Carried, Standing, SettledAt, UnderWay, Here, Leaving, InQueue
<1> QED
  BY <1>1, <1>3, <1>4, PathSets, StillOrderly

\* Every step keeps the invariant.
LEMMA OnceInvKept == ASSUME Patient PROVE OnceInv /\ [Next]_vars => OnceInv'
<1> SUFFICES ASSUME OnceInv, [Next]_vars PROVE OnceInv'
  OBVIOUS
<1>0. QueueInv'
  BY QueueInvKept DEF OnceInv, Patient
<1>1. CASE Users
  <2>1. ASSUME NEW p \in Paths, NEW q \in Paths, <<p, q>> \in Renames, Rename(p, q) PROVE Orderly'
    BY <1>0, <2>1, RenameOnce
  <2>2. ASSUME NEW move \in Renames, Rename(move[1], move[2]) PROVE Orderly'
    <3>1. PICK p \in Paths, q \in Paths : move = <<p, q>>
      BY OneVault
    <3> QED
      BY <2>1, <2>2, <3>1
  <2>3. ASSUME NEW p \in Paths, Create(p) \/ Modify(p) \/ Delete(p) PROVE Orderly'
    BY <1>0, <2>3, CreateOnce, EditOnce
  <2> QED
    BY <1>0, <1>1, <2>2, <2>3 DEF Users, OnceInv
<1>2. CASE Observer
  BY <1>0, <1>2, ObserverOnce DEF OnceInv
<1>3. CASE Dispatcher \/ ObserveRaises
  BY <1>0, <1>3, TakeOnce, ObserveOnce DEF OnceInv, Dispatcher
<1>4. CASE Main
  BY <1>0, <1>4, ReadOnce, ScanOnce, StartedOnce, RestartOnce DEF OnceInv, Main
<1>5. CASE Delivery
  BY <1>0, <1>5, AttemptOnce, ConcludeOnce DEF OnceInv, Delivery
<1>6. CASE Start \/ WatcherDies \/ Crash
  BY <1>0, <1>6, RestartOnce DEF OnceInv
<1>7. CASE Clock
  BY <1>0, <1>7, ClockOnce DEF OnceInv
<1>8. CASE UNCHANGED vars
  BY <1>0, <1>8, StutterOnce DEF OnceInv
<1> QED
  BY <1>1, <1>2, <1>3, <1>4, <1>5, <1>6, <1>7, <1>8 DEF Next, Rest

\* It holds at first.
LEMMA InitOnce == Init => OnceInv
<1> SUFFICES ASSUME Init PROVE OnceInv
  OBVIOUS
<1>1. QueueInv
  BY InitQueueInv
<1>2. NewVault /\ AttemptOnDisk
  BY DEF Init, NewVault, AttemptOnDisk, NoScan
<1>3. /\ \A p \in Paths : disk[p] = 0
      /\ \A d \in Documents : d \notin baseline /\ posts[d] = 0
      /\ created = 0
  BY DEF Init, NoDoc
<1>4. Numbered
  BY <1>3 DEF Numbered, NoDoc
<1>5. AnnouncedOnce
  BY <1>3 DEF AnnouncedOnce
<1>6. Renewed /\ MoveWaits /\ KnownSettled /\ ScanMissed
  BY DEF Init, StoreInit, Renewed, Leaving, MoveWaits, MoveQueued, InQueue, KnownSettled, ScanMissed
<1> QED
  BY <1>1, <1>2, <1>4, <1>5, <1>6 DEF OnceInv, Orderly

\* A document of the baseline is never announced, and any other at most once,
\* whatever events are queued, files under observation and posts under way when
\* users act, whatever drafts and folders there are, and whatever watchers and
\* services fail and start again, when users wait at the paths they touch and the
\* program handles its queue within the quiet time, as Patient says.
THEOREM VaultAnnouncesOnce ==
  ASSUME Patient PROVE Spec => []AnnouncedOnce
<1>1. OnceInv => AnnouncedOnce
  BY DEF OnceInv, Orderly
<1> QED
  BY <1>1, InitOnce, OnceInvKept, PTL DEF Spec

-----------------------------------------------------------------------------
(* The quiet time.                                                          *)

\* A row with this deadline for a file last changed at c: the quiet time has passed
\* by then, or the change came after the row was written.
Held(row, c) ==
    row.status = "pending" => c + Quiet <= row.nextRetryAt \/ c >= row.firstObservedAt

\* Nothing changed, and no row was written, in the future.
ClockAhead == \A p \in Paths : changed[p] <= now /\ Rows[p].firstObservedAt <= now

\* What is about to be observed has had its quiet time, or is being changed meanwhile.
ObservedRested ==
    observing # Nothing => changed[observing] + Quiet <= now \/ changed[observing] = now

RowsHeld == \A p \in Paths : Held(Rows[p], changed[p])

\* A row that has yet to follow its file.
Follows(p, q) ==
    disk[p] = NoDoc /\ Held(Rows[p], changed[q]) /\ (observing = p => changed[q] = now)
MovesHeld == \A p, q \in Paths : MoveQueued(p, q) => Follows(p, q)

Rested == ClockAhead /\ ObservedRested /\ RowsHeld /\ MovesHeld
RestInv == QueueInv /\ Rested

\* The callback of a file at rest writes before the clock goes on, too.
Prompt == Uncrossed /\ "callback" \notin Slow

\* A pending row's deadline is a time.
LEMMA DeadlineTypes ==
  ASSUME StoreInv, NeverTried, NEW p \in Paths
  PROVE  /\ Rows[p] \in Row /\ Rows[p].firstObservedAt \in Nat
         /\ Rows[p].status = "pending" => Rows[p].nextRetryAt \in Nat
<1>1. GoodRow(Rows[p]) /\ Rows[p].attemptCount = 0
  BY RowFacts DEF NeverTried
<1> QED
  BY <1>1 DEF GoodRow, Row

\* What becomes of a row and keeps it held.
LEMMA StaysHeld ==
  ASSUME StoreInv, NEW p \in Paths, NEW c \in Nat, Held(Rows[p], c),
         \/ Rows'[p] = Rows[p] \/ Rows'[p] = Missing(Rows[p]) \/ Rows'[p].status # "pending"
         \/ \E at \in Nat : /\ Rows'[p] = Observed(Rows[p], at)
                            /\ c + Quiet <= at \/ c >= now
  PROVE  Held(Rows'[p], c)
<1>1. Rows[p] \in Row
  BY RowFacts
<1>2. Held(Missing(Rows[p]), c)
  BY <1>1 DEF Missing, Held, Row
<1>3. ASSUME NEW at \in Nat, Rows'[p] = Observed(Rows[p], at), c + Quiet <= at \/ c >= now
      PROVE  Held(Rows'[p], c)
  BY <1>3 DEF Observed, Fresh, Held
<1> QED
  BY <1>2, <1>3 DEF Held

\* A step in which the disk, the times of changes and the queue are as before.
LEMMA StillRested ==
  ASSUME RestInv, UNCHANGED <<disk, changed, now>>,
         \A p, q \in Paths : MoveQueued(p, q)' => MoveQueued(p, q),
         \A p \in Paths : Rows'[p].firstObservedAt <= now,
         \A p \in Paths : Held(Rows'[p], changed[p]),
         \A p, q \in Paths : MoveQueued(p, q)' => Held(Rows'[p], changed[q]),
         observing' \in {observing, Nothing}
  PROVE  Rested'
<1>1. ClockAhead /\ ObservedRested /\ MovesHeld
  BY DEF RestInv, Rested
<1>2. ClockAhead' /\ ObservedRested' /\ RowsHeld'
  BY <1>1 DEF ClockAhead, ObservedRested, RowsHeld
<1>3. MovesHeld'
  BY <1>1, NothingAssumption DEF MovesHeld, Follows
<1> QED
  BY <1>2, <1>3 DEF Rested

\* What a user changes is changed now, and nobody touches the paths of a rename.
LEMMA UsersRest == ASSUME Prompt, RestInv, Users PROVE Rested'
<1>0. /\ UNCHANGED <<storeVars, service, watching, awaiting, observing, scan>>
      /\ Rows' = Rows /\ now' = now
  <2>1. UNCHANGED <<storeVars, service, watching, awaiting, observing, scan>>
    BY DEF Users, Create, Modify, Delete, Rename, Edit
  <2> QED
    BY <2>1 DEF storeVars, Rows
<1>1. /\ TypeOK /\ StoreInv /\ events \in Seq(Event) /\ NeverTried
      /\ ClockAhead /\ ObservedRested /\ RowsHeld /\ MovesHeld
      /\ changed \in [Paths -> Nat] /\ disk \in [Paths -> Documents \cup {NoDoc}] /\ now \in Nat
  BY DiskTypes DEF RestInv, Rested, QueueInv, VaultInv
<1>2. ASSUME NEW p \in Paths PROVE Held(Rows[p], now) /\ Rows[p].firstObservedAt \in Nat
  BY <1>1, DeadlineTypes DEF ClockAhead, Held
<1>3. \A p \in Paths : changed'[p] \in {changed[p], now}
  BY <1>1 DEF Users, Create, Modify, Delete, Rename
<1>4. ClockAhead' /\ RowsHeld'
  BY <1>0, <1>1, <1>2, <1>3 DEF ClockAhead, RowsHeld
<1>5. ObservedRested'
  <2>1. observing # Nothing => observing \in Paths
    BY <1>1, PathSets DEF TypeOK
  <2> QED
    BY <1>0, <1>1, <1>3, <2>1 DEF ObservedRested
<1>6. ASSUME NEW r \in Paths, Create(r) \/ Modify(r) \/ Delete(r) PROVE MovesHeld'
  <2>1. PICK kind \in {"changed", "deleted"} : Emit(<<kind, r>>)
    BY <1>6 DEF Create, Modify, Delete
  <2>2. ~ Moving(r)
    BY <1>6 DEF Create, Modify, Delete, Still, Prompt, Uncrossed
  <2>3. \A x \in Paths : ~ MoveQueued(x, r) /\ ~ MoveQueued(r, x)
    BY <1>1, <2>2, QueueSays DEF Arriving
  <2>4. \A x, y : MoveQueued(x, y)' <=> MoveQueued(x, y)
    <3>1. <<kind, r>> \in Event
      BY DEF Event
    <3>2. \A f : InQueue(f)' <=> InQueue(f) \/ (watching /\ f = <<kind, r>>)
      BY <1>1, <2>1, <3>1, Emitted
    <3> QED
      BY <3>2 DEF MoveQueued
  <2>5. \A x \in Paths \ {r} : disk'[x] = disk[x] /\ changed'[x] = changed[x]
    BY <1>1, <1>6 DEF Create, Modify, Delete
  <2> SUFFICES ASSUME NEW x \in Paths, NEW y \in Paths, MoveQueued(x, y)' PROVE Follows(x, y)'
    BY DEF MovesHeld
  <2>6. MoveQueued(x, y) /\ x # r /\ y # r
    BY <2>3, <2>4
  <2> QED
    BY <1>0, <1>1, <2>5, <2>6 DEF MovesHeld, Follows
<1>7. ASSUME NEW p \in Paths, NEW q \in Paths, <<p, q>> \in Renames, Rename(p, q) PROVE MovesHeld'
  <2>1. /\ Emit(<<"moved", p, q>>) /\ ~ Moving(p) /\ ~ Moving(q) /\ p # q
        /\ disk'[p] = NoDoc /\ changed'[q] = now
        /\ \A x \in Paths \ {p, q} : disk'[x] = disk[x] /\ changed'[x] = changed[x]
    BY <1>1, <1>7 DEF Rename, Still, Prompt, Uncrossed
  <2>2. <<"moved", p, q>> \in Event
    BY <1>7, <2>1 DEF Event, Moves
  <2>3. \A x, y : MoveQueued(x, y)' => MoveQueued(x, y) \/ (x = p /\ y = q)
    <3>1. \A f : InQueue(f)' <=> InQueue(f) \/ (watching /\ f = <<"moved", p, q>>)
      BY <1>1, <2>1, <2>2, Emitted
    <3> QED
      BY <3>1 DEF MoveQueued
  <2>4. \A x \in Paths : /\ ~ MoveQueued(x, p) /\ ~ MoveQueued(p, x)
                         /\ ~ MoveQueued(x, q) /\ ~ MoveQueued(q, x)
    BY <1>1, <2>1, QueueSays DEF Arriving
  <2> SUFFICES ASSUME NEW x \in Paths, NEW y \in Paths, MoveQueued(x, y)' PROVE Follows(x, y)'
    BY DEF MovesHeld
  <2>5. CASE x = p /\ y = q
    BY <1>0, <1>2, <2>1, <2>5 DEF Follows
  <2>6. CASE MoveQueued(x, y)
    <3>1. x \notin {p, q} /\ y \notin {p, q} /\ Follows(x, y)
      BY <1>1, <2>4, <2>6 DEF MovesHeld
    <3> QED
      BY <1>0, <2>1, <3>1 DEF Follows
  <2> QED
    BY <2>3, <2>5, <2>6
<1>8. MovesHeld'
  <2>1. ASSUME NEW move \in Renames, Rename(move[1], move[2]) PROVE MovesHeld'
    <3>1. PICK p \in Paths, q \in Paths : move = <<p, q>>
      BY OneVault
    <3> QED
      BY <1>7, <2>1, <3>1
  <2> QED
    BY <1>6, <2>1 DEF Users
<1> QED
  BY <1>4, <1>5, <1>8 DEF Rested

\* The observer: a rename carries the deadline to where the document was moved.
LEMMA ObserverRest == ASSUME RestInv, Observer PROVE Rested'
<1>0. PICK kind \in {"changed", "deleted", "moved"} : NextEvent(kind)
  BY DEF Observer, OnCreated, OnDeleted, OnMoved
<1>1. UNCHANGED <<disk, changed, observing>>
  BY <1>0 DEF NextEvent, diskVars
<1>2. /\ TypeOK /\ StoreInv /\ events \in Seq(Event) /\ NeverTried /\ MovesLast
      /\ ClockAhead /\ RowsHeld /\ MovesHeld /\ changed \in [Paths -> Nat] /\ now \in Nat
  BY DiskTypes DEF RestInv, Rested, QueueInv, VaultInv
<1>e. PICK e \in Event : e = Head(events)
  BY <1>0, <1>2, HandledEvent
<1>3. /\ e[1] = kind /\ e[2] \in Paths
      /\ kind = "moved" => e[3] \in Paths /\ e[2] # e[3] /\ MoveQueued(e[2], e[3])
      /\ \A x, y : MoveQueued(x, y)' => MoveQueued(x, y)
  <2>1. /\ e[1] = kind /\ e[2] \in Paths /\ InQueue(e)
        /\ kind = "moved" => e[3] \in Paths /\ e[2] # e[3]
        /\ \A f : InQueue(f)' => InQueue(f)
    BY <1>0, <1>2, <1>e, HandledEvent, Handled
  <2>2. kind = "moved" => e = <<"moved", e[2], e[3]>>
    BY <2>1 DEF Event, Moves
  <2> QED
    BY <2>1, <2>2 DEF MoveQueued
\* Every row stays, is marked missing, goes, or comes by the rename at the head.
<1>4. /\ now' = now
      /\ \A r \in Paths :
            \/ Rows'[r] = Rows[r] \/ Rows'[r] = Missing(Rows[r]) \/ Rows'[r] = NoRow
            \/ /\ kind = "moved" /\ r = e[3]
               /\ Rows'[r] = [Rows[e[2]] EXCEPT !.present = TRUE]
      /\ \A r \in Paths : kind = "moved" /\ ~ Concerns(e, r) => Rows'[r] = Rows[r]
  <2>1. CASE kind = "changed"
    <3>1. UNCHANGED storeVars
      BY <1>0, <2>1 DEF NextEvent, Observer, OnCreated, OnDeleted, OnMoved
    <3> QED
      BY <2>1, <3>1 DEF storeVars, Rows
  <2>2. CASE kind = "deleted"
    <3>1. MarkMissing(Vault, e[2]) \/ UNCHANGED storeVars
      BY <1>0, <1>e, <2>2 DEF NextEvent, Observer, OnCreated, OnDeleted, OnMoved
    <3>2. CASE MarkMissing(Vault, e[2])
      BY <1>2, <1>3, <2>2, <3>2, MissingRows
    <3>3. CASE UNCHANGED storeVars
      BY <2>2, <3>3 DEF storeVars, Rows
    <3> QED
      BY <3>1, <3>2, <3>3
  <2>3. CASE kind = "moved"
    <3>1. PICK p \in Paths, q \in Paths : p = e[2] /\ q = e[3] /\ p # q
      BY <1>3, <2>3
    <3>2. Moved(p, q)
      BY <1>0, <1>e, <2>3, <3>1 DEF NextEvent, Observer, OnCreated, OnDeleted, OnMoved
    <3>3. MovePath(Vault, p, q) \/ MarkMissing(Vault, p) \/ UNCHANGED storeVars
      BY <3>2 DEF Moved, Eligible
    <3>4. \A r \in Paths : ~ Concerns(e, r) => r # p /\ r # q
      BY <1>3, <2>3, <3>1 DEF Concerns
    <3>5. CASE MovePath(Vault, p, q)
      <4>1. /\ now' = now /\ \A r \in Paths \ {p, q} : Rows'[r] = Rows[r]
            /\ Rows'[p] \in {NoRow, Rows[p]}
            /\ Rows'[q] \in {Rows[q], [Rows[p] EXCEPT !.present = TRUE]}
        BY <1>2, <3>1, <3>5, MovedRows
      <4> QED
        BY <2>3, <3>1, <3>4, <4>1
    <3>6. CASE MarkMissing(Vault, p)
      BY <1>2, <3>1, <3>4, <3>6, MissingRows
    <3>7. CASE UNCHANGED storeVars
      BY <3>7 DEF storeVars, Rows
    <3> QED
      BY <3>3, <3>5, <3>6, <3>7
  <2> QED
    BY <2>1, <2>2, <2>3
<1>5. ASSUME NEW r \in Paths PROVE Rows'[r].firstObservedAt <= now /\ Held(Rows'[r], changed[r])
  <2>1. /\ Rows[r] \in Row /\ Rows[r].firstObservedAt <= now /\ Held(Rows[r], changed[r])
        /\ changed[r] \in Nat
    BY <1>2, RowFacts DEF ClockAhead, RowsHeld
  <2>2. /\ Missing(Rows[r]).firstObservedAt = Rows[r].firstObservedAt
        /\ Held(Missing(Rows[r]), changed[r])
    BY <2>1 DEF Missing, Held, Row
  <2>3. NoRow.firstObservedAt <= now /\ Held(NoRow, changed[r])
    BY <1>2 DEF NoRow, Held
  <2>4. CASE kind = "moved" /\ r = e[3] /\ Rows'[r] = [Rows[e[2]] EXCEPT !.present = TRUE]
    <3>1. PICK p \in Paths : p = e[2]
      BY <1>3
    <3>2. Rows[p] \in Row /\ Rows[p].firstObservedAt <= now /\ Held(Rows[p], changed[r])
      BY <1>2, <1>3, <2>4, <3>1, RowFacts DEF ClockAhead, MovesHeld, Follows
    <3> QED
      BY <2>4, <3>1, <3>2 DEF Held, Row
  <2> QED
    BY <1>4, <2>1, <2>2, <2>3, <2>4
<1>6. ASSUME NEW x \in Paths, NEW y \in Paths, MoveQueued(x, y)' PROVE Held(Rows'[x], changed[y])
  <2>1. MoveQueued(x, y) /\ Held(Rows[x], changed[y])
    BY <1>2, <1>3, <1>6 DEF MovesHeld, Follows
  <2>2. CASE kind = "moved"
    <3>1. ~ Concerns(e, x)
      <4>1. SUFFICES ASSUME Concerns(e, x) PROVE FALSE
        OBVIOUS
      <4>2. ~ Concerns(<<"moved", x, y>>, x)
        BY <1>0, <1>2, <1>6, <1>e, <2>2, <4>1, MoveAlone DEF MoveQueued
      <4> QED
        BY <4>2 DEF Concerns
    <3> QED
      BY <1>4, <2>1, <2>2, <3>1
  <2>3. CASE kind # "moved"
    <3>1. Rows[x] \in Row
      BY <1>2, RowFacts
    <3>2. Held(Missing(Rows[x]), changed[y])
      BY <2>1, <3>1 DEF Missing, Held, Row
    <3> QED
      BY <1>4, <2>1, <2>3, <3>2 DEF Held, NoRow
  <2> QED
    BY <2>2, <2>3
<1> QED
  BY <1>1, <1>3, <1>4, <1>5, <1>6, StillRested

\* The dispatcher: what it takes is at rest, and what it records is held.
LEMMA DispatcherRest == ASSUME RestInv, Dispatcher \/ ObserveRaises PROVE Rested'
<1>1. UNCHANGED <<disk, changed, now, events>>
  BY DEF Dispatcher, Observe, ObserveNew, DispatchGone, Dispatch, Take, ObserveRaises, storeVars, diskVars
<1>2. /\ TypeOK /\ StoreInv /\ NeverTried /\ ClockAhead /\ ObservedRested /\ RowsHeld /\ MovesHeld
      /\ changed \in [Paths -> Nat] /\ now \in Nat /\ Quiet \in Nat
  BY DiskTypes, OneVault DEF RestInv, Rested, QueueInv, VaultInv
<1>3. \A x, y : MoveQueued(x, y)' <=> MoveQueued(x, y)
  BY <1>1 DEF MoveQueued, InQueue
<1>4. ASSUME NEW p \in Paths, DispatchGone(p) \/ Dispatch(p) PROVE Rested'
  <2>1. /\ Rows' = Rows
        /\ observing' = Nothing
           \/ (observing' = p /\ disk[p] # NoDoc /\ changed[p] + Quiet <= now)
    BY <1>4 DEF DispatchGone, Dispatch, Take, storeVars, Rows
  <2>2. ClockAhead' /\ RowsHeld' /\ ObservedRested'
    BY <1>1, <1>2, <2>1 DEF ClockAhead, RowsHeld, ObservedRested
  <2>3. MovesHeld'
    BY <1>1, <1>2, <1>3, <2>1, NothingAssumption DEF MovesHeld, Follows
  <2> QED
    BY <2>2, <2>3 DEF Rested
<1>5. CASE Observe
  <2>1. PICK o \in Paths : o = observing /\ ObserveNew(Vault, o)
    BY <1>2, <1>5, PathSets DEF Observe, TypeOK
  <2>2. Rows'[o] = Observed(Rows[o], now) /\ \A q \in Paths \ {o} : Rows'[q] = Rows[q]
    BY <1>2, <2>1, ObservedRows
  <2>3. observing' = Nothing /\ (changed[o] + Quiet <= now \/ changed[o] >= now)
    BY <1>2, <1>5, <2>1 DEF Observe, ObservedRested
  <2>4. \A p \in Paths : Rows'[p].firstObservedAt <= now
    BY <1>2, <2>2 DEF ClockAhead, Observed, Fresh
  <2>5. \A p \in Paths : Held(Rows'[p], changed[p])
    <3>1. Held(Rows'[o], changed[o])
      BY <1>2, <2>2, <2>3, StaysHeld DEF RowsHeld
    <3> QED
      BY <1>2, <2>2, <3>1 DEF RowsHeld
  <2>6. ASSUME NEW p \in Paths, NEW q \in Paths, MoveQueued(p, q) PROVE Held(Rows'[p], changed[q])
    <3>1. Held(Rows[p], changed[q]) /\ (observing = p => changed[q] = now)
      BY <1>2, <2>6 DEF MovesHeld, Follows
    <3>2. CASE p = o
      BY <1>2, <2>1, <2>2, <3>1, <3>2, StaysHeld
    <3> QED
      BY <2>2, <3>1, <3>2
  <2> QED
    BY <1>1, <1>3, <2>3, <2>4, <2>5, <2>6, StillRested
<1>6. CASE ObserveRaises
  <2>1. Rows' = Rows /\ observing' = Nothing
    BY <1>6 DEF ObserveRaises, storeVars, Rows
  <2> QED
    BY <1>1, <1>2, <1>3, <2>1, StillRested DEF ClockAhead, RowsHeld, MovesHeld, Follows
<1> QED
  BY <1>4, <1>5, <1>6 DEF Dispatcher

\* What a scan writes is due a quiet time from now.
LEMMA ScanRest == ASSUME RestInv, FinishScan PROVE Rested'
<1>1. UNCHANGED <<disk, changed, events, observing>>
  BY DEF FinishScan, diskVars
<1>2. /\ TypeOK /\ StoreInv /\ NeverTried /\ ClockAhead /\ RowsHeld /\ MovesHeld /\ Control
      /\ changed \in [Paths -> Nat] /\ now \in Nat /\ Quiet \in Nat
  BY DiskTypes, OneVault DEF RestInv, Rested, QueueInv, VaultInv
<1>3. now + Quiet \in Nat /\ Reconcile(Vault, scan.found, now + Quiet)
  BY <1>2 DEF FinishScan, Control
<1>4. /\ now' = now
      /\ \A p \in Paths : \/ Rows'[p] = Rows[p] \/ Rows'[p] = Missing(Rows[p])
                          \/ Rows'[p] = BaselineRow \/ Rows'[p] = Observed(Rows[p], now + Quiet)
  BY <1>2, <1>3, ScannedRows DEF Reconciled
<1>5. BaselineRow.status # "pending" /\ BaselineRow.firstObservedAt = now
  BY DEF BaselineRow
<1>6. ASSUME NEW p \in Paths PROVE Rows'[p].firstObservedAt <= now
  <2>1. Rows[p] \in Row /\ Rows[p].firstObservedAt <= now
    BY <1>2, RowFacts DEF ClockAhead
  <2>2. Missing(Rows[p]).firstObservedAt <= now
    BY <2>1 DEF Missing, Row
  <2>3. Observed(Rows[p], now + Quiet).firstObservedAt \in {now, Rows[p].firstObservedAt}
    <3>1. Fresh(Rows[p], now + Quiet).firstObservedAt = now
      BY <2>1 DEF Fresh, Row
    <3>2. Observed(Rows[p], now + Quiet).firstObservedAt
             \in {Fresh(Rows[p], now + Quiet).firstObservedAt, Rows[p].firstObservedAt}
      BY <2>1, Zenon DEF Observed
    <3> QED
      BY <3>1, <3>2
  <2>4. now <= now
    BY <1>2
  <2> QED
    BY <1>4, <1>5, <2>1, <2>2, <2>3, <2>4
<1>7. ASSUME NEW p \in Paths, NEW q \in Paths, Held(Rows[p], changed[q])
      PROVE  Held(Rows'[p], changed[q])
  <2>1. changed[q] \in Nat /\ changed[q] + Quiet <= now + Quiet
    BY <1>2 DEF ClockAhead
  <2> QED
    BY <1>2, <1>3, <1>4, <1>5, <1>7, <2>1, StaysHeld
<1>8. \A x, y : MoveQueued(x, y)' <=> MoveQueued(x, y)
  BY <1>1 DEF MoveQueued, InQueue
<1>9. /\ \A p \in Paths : Held(Rows'[p], changed[p])
      /\ \A p, q \in Paths : MoveQueued(p, q)' => Held(Rows'[p], changed[q])
  BY <1>2, <1>7, <1>8 DEF RowsHeld, MovesHeld, Follows
<1> QED
  BY <1>1, <1>4, <1>6, <1>8, <1>9, StillRested

\* Starting, reading the directory, restarting and delivering leave every deadline alone.
LEMMA OthersRest ==
  ASSUME RestInv,
         Start \/ ReadDirectory \/ StartWorker \/ ReplaceWatcher \/ WatcherDies \/ Crash \/ Delivery
  PROVE  Rested'
<1>1. UNCHANGED <<disk, changed, now>> /\ observing' \in {observing, Nothing}
  BY DEF Start, Open, ReadDirectory, StartWorker, ResumePending, ReplaceWatcher, WatcherDies, Crash,
     Delivery, Attempt, Conclude, MarkMissing, MarkSent, storeVars, diskVars, watchVars
<1>2. /\ VaultInv /\ TypeOK /\ StoreInv /\ NeverTried /\ ClockAhead /\ RowsHeld /\ MovesHeld
      /\ changed \in [Paths -> Nat] /\ now \in Nat /\ Control
  BY DiskTypes DEF RestInv, Rested, QueueInv, VaultInv
<1>3. \A x, y : MoveQueued(x, y)' => MoveQueued(x, y)
  <2>1. events' = events \/ events' = <<>>
    BY <1>2 DEF Start, ReadDirectory, StartWorker, ReplaceWatcher, WatcherDies, Crash, Delivery,
       Attempt, Conclude, watchVars, Control
  <2> QED
    BY <2>1 DEF MoveQueued, InQueue
<1>4. \A p \in Paths : \/ Rows'[p] = Rows[p] \/ Rows'[p] = Missing(Rows[p])
                       \/ \E d : Rows'[p] = Sent(Rows[p], d)
  <2>1. CASE ~ Conclude
    <3>1. Open \/ ResumePending \/ UNCHANGED documents
      BY <2>1 DEF Start, ReadDirectory, StartWorker, ReplaceWatcher, WatcherDies, Crash, Delivery,
         Attempt, storeVars
    <3>2. \A p \in Paths : Rows'[p] \in {Rows[p], Migrated(Rows[p]), Resumed(Rows[p])}
      BY <1>2, <3>1, Opened, ResumedRows DEF Rows
    <3> QED
      BY <1>2, <3>2, RowsHaveDeadlines
  <2>2. CASE Conclude
    <3>1. PICK p \in Paths, g \in Nat, d \in Documents \cup {NoDoc} : delivering = <<p, g, d>>
      BY <1>2, <2>2 DEF TypeOK, Conclude
    <3>2. IF d = NoDoc THEN MarkMissing(Vault, p) ELSE MarkSent(Vault, p, g, d)
      BY <2>2, <3>1 DEF Conclude
    <3>3. CASE d = NoDoc
      BY <1>2, <3>2, <3>3, MissingRows
    <3>4. CASE d # NoDoc
      BY <1>2, <3>1, <3>2, <3>4, SentRows
    <3> QED
      BY <3>3, <3>4
  <2> QED
    BY <2>1, <2>2
<1>5. ASSUME NEW p \in Paths, NEW q \in Paths, Held(Rows[p], changed[q])
      PROVE  Held(Rows'[p], changed[q])
  <2>1. \A d : Sent(Rows[p], d).status = "sent"
    BY <1>2, RowFacts DEF Sent, Row
  <2> QED
    BY <1>2, <1>4, <1>5, <2>1, StaysHeld
<1>6. ASSUME NEW p \in Paths PROVE Rows'[p].firstObservedAt <= now
  <2>1. Rows[p] \in Row /\ Rows[p].firstObservedAt <= now
    BY <1>2, RowFacts DEF ClockAhead
  <2>2. /\ Missing(Rows[p]).firstObservedAt = Rows[p].firstObservedAt
        /\ \A d : Sent(Rows[p], d).firstObservedAt = Rows[p].firstObservedAt
    BY <2>1 DEF Missing, Sent, Row
  <2> QED
    BY <1>4, <2>1, <2>2
<1>7. /\ \A p \in Paths : Held(Rows'[p], changed[p])
      /\ \A p, q \in Paths : MoveQueued(p, q)' => Held(Rows'[p], changed[q])
  BY <1>2, <1>3, <1>5 DEF RowsHeld, MovesHeld, Follows
<1> QED
  BY <1>1, <1>3, <1>6, <1>7, StillRested

\* Every step keeps the invariant.
LEMMA RestInvKept == ASSUME Prompt PROVE RestInv /\ [Next]_vars => RestInv'
<1> SUFFICES ASSUME RestInv, [Next]_vars PROVE RestInv'
  OBVIOUS
<1>1. QueueInv'
  BY QueueInvKept DEF RestInv, Prompt
<1>2. CASE Clock
  <2>1. /\ observing = Nothing /\ now' = now + 1 /\ now \in Nat /\ Rows' = Rows
        /\ UNCHANGED <<disk, changed, events, observing>>
    BY <1>2, DiskTypes DEF Prompt, Clock, Tick, Rows, diskVars, watchVars, RestInv, QueueInv, VaultInv
  <2>2. /\ ClockAhead /\ RowsHeld /\ MovesHeld
        /\ changed \in [Paths -> Nat] /\ \A p \in Paths : Rows[p].firstObservedAt \in Nat
    BY DiskTypes, DeadlineTypes DEF RestInv, Rested, QueueInv, VaultInv
  <2>3. ClockAhead'
    BY <2>1, <2>2 DEF ClockAhead
  <2>4. RowsHeld' /\ ObservedRested'
    BY <2>1, <2>2 DEF RowsHeld, ObservedRested
  <2>5. MovesHeld'
    <3>1. \A x, y : MoveQueued(x, y)' <=> MoveQueued(x, y)
      BY <2>1 DEF MoveQueued, InQueue
    <3> QED
      BY <2>1, <2>2, <3>1, NothingAssumption DEF MovesHeld, Follows
  <2> QED
    BY <1>1, <2>3, <2>4, <2>5 DEF RestInv, Rested
<1>3. CASE UNCHANGED vars
  <2>1. UNCHANGED <<disk, changed, now, events, observing>> /\ Rows' = Rows
    BY <1>3 DEF vars, storeVars, diskVars, watchVars, Rows
  <2>2. \A x, y : MoveQueued(x, y)' <=> MoveQueued(x, y)
    BY <2>1 DEF MoveQueued, InQueue
  <2>3. ClockAhead /\ RowsHeld /\ MovesHeld
    BY DEF RestInv, Rested
  <2> QED
    BY <1>1, <2>1, <2>2, <2>3, StillRested DEF RestInv, ClockAhead, RowsHeld, MovesHeld, Follows
<1>4. CASE Next /\ ~ Clock /\ ~ Rest
  BY <1>1, <1>4, UsersRest, ObserverRest, DispatcherRest, ScanRest, OthersRest DEF RestInv, Next, Main
<1> QED
  BY <1>2, <1>3, <1>4 DEF Rest

\* It holds at first.
LEMMA InitRest == Init => RestInv
<1> SUFFICES ASSUME Init PROVE RestInv
  OBVIOUS
<1>1. \A p \in Paths : Rows[p] = NoRow
  BY OneVault DEF Init, StoreInit, Rows
<1>2. \A p \in Paths : changed[p] = 0 /\ Rows[p].firstObservedAt = 0 /\ Rows[p].status = "none"
  BY <1>1 DEF Init, NoRow
<1>3. now = 0 /\ observing = Nothing /\ events = <<>>
  BY DEF Init, StoreInit
<1>4. Rested
  BY <1>2, <1>3 DEF Rested, ClockAhead, ObservedRested, RowsHeld, Held, MovesHeld, MoveQueued, InQueue
<1> QED
  BY <1>4, InitQueueInv DEF RestInv

\* A document is posted only when it has been left alone for the quiet time or was
\* recorded before its last change, whatever users do meanwhile with any file that no
\* queued rename concerns, however long events stay in the queue, and whatever
\* watchers and services fail and start again.
THEOREM VaultQuietUntilRecorded ==
  ASSUME Prompt PROVE Spec => QuietUntilRecorded
<1>1. ASSUME RestInv, Next, delivering = Nothing, delivering' # Nothing, delivering'[3] # NoDoc
      PROVE  LET p == delivering'[1] IN
                changed[p] + Quiet <= now \/ changed[p] >= Rows[p].firstObservedAt
  <2>1. PICK p \in Paths : Attempt(p)
    <3>1. ~ (Users \/ Observer \/ ObserveRaises \/ Start \/ Main \/ WatcherDies \/ Crash \/ Clock \/ Rest)
      BY <1>1
      DEF Users, Create, Modify, Delete, Rename, Observer, OnCreated, OnDeleted, OnMoved, NextEvent,
          ObserveRaises, Start, Main, ReadDirectory, FinishScan, StartWorker, ReplaceWatcher,
          WatcherDies, Crash, Clock, Rest, vars, deliveryVars
    <3>2. ~ Dispatcher /\ ~ Conclude
      BY <1>1 DEF Dispatcher, Observe, DispatchGone, Dispatch, Take, Conclude, deliveryVars
    <3> QED
      BY <1>1, <3>1, <3>2 DEF Next, Delivery
  <2>2. /\ DueBy(Rows[p], now) /\ delivering' = <<p, Rows[p].generation, disk[p]>>
    BY <2>1 DEF Attempt
  <2>3. Rows[p].status = "pending" /\ Rows[p].nextRetryAt <= now
    BY <2>2 DEF DueBy, Scheduled, Deliverable
  <2>4. Held(Rows[p], changed[p])
    BY <1>1 DEF RestInv, Rested, RowsHeld
  <2>5. /\ Rows[p].nextRetryAt \in Nat /\ changed[p] \in Nat /\ Quiet \in Nat /\ now \in Nat
    BY <1>1, <2>3, DiskTypes, DeadlineTypes, OneVault DEF RestInv, QueueInv, VaultInv
  <2> QED
    BY <2>2, <2>3, <2>4, <2>5 DEF Held
<1>2. RestInv /\ [Next]_vars =>
        [delivering = Nothing /\ delivering' # Nothing /\ delivering'[3] # NoDoc
         => LET p == delivering'[1] IN
               changed[p] + Quiet <= now \/ changed[p] >= Rows[p].firstObservedAt]_vars
  BY <1>1
<1> QED
  BY <1>2, InitRest, RestInvKept, PTL DEF Spec, QuietUntilRecorded

-----------------------------------------------------------------------------
(* Rows and files.                                                          *)

\* Users wait for the baseline of a new vault, too.  TLC finds a file without a row
\* otherwise.
Unhurried == Patient /\ "baseline" \notin Overlaps

\* A scan will come, or has not read the directory yet.
ScanDue == service = "down" \/ ~ watching \/ scan.phase = "read"
Scanned(p) == scan.phase = "reconcile" /\ p \in scan.found

\* A known vault is scanned under its watcher.
Watched == Vault \in vaults /\ scan.phase # "none" => watching

\* The baseline of a new vault is what is on the disk.
BaselineRead ==
    Vault \notin vaults /\ scan.phase = "reconcile" =>
        /\ scan.found = {p \in Scannable : disk[p] # NoDoc}
        /\ \A p \in scan.found : disk[p] \in baseline

\* A file whose row is missing is in front of a scan that will see it, or on its
\* way through the observer and the dispatcher.
SeenAt(p) ==
    \/ Rows[p].present \/ ScanDue \/ Scanned(p)
    \/ p \in awaiting \/ observing = p
    \/ Changing(p) \/ Arriving(p)
Seen == \A p \in Scannable \ forgotten : disk[p] # NoDoc => SeenAt(p)

\* That the file of p has gone has yet to be handled, or to be scanned.
Departing(p) == Leaving(p) \/ \E q \in Paths : MoveQueued(p, q)
Departs(p) == ScanDue \/ (scan.phase = "reconcile" /\ p \notin scan.found) \/ Departing(p)

\* A row whose file is missing is due to be looked for, or its file departs.
GoneAt(p) == Rows[p].status = "pending" \/ Departs(p)
Gone == \A p \in Paths : Rows[p].present /\ disk[p] = NoDoc => GoneAt(p)

\* The attempt at a file that was there does not outlive the row's generation, and
\* when the file has gone since, it departs.
AttemptGone ==
    \A p \in Paths, g \in Nat, d \in Documents : delivering = <<p, g, d>> =>
        /\ Rows[p].generation >= g
        /\ Rows[p].present /\ Rows[p].generation = g /\ disk[p] = NoDoc => Departs(p)

Following == Watched /\ BaselineRead /\ Seen /\ Gone /\ AttemptGone

RowsInv == OnceInv /\ Following

\* What the parts of the invariant say together.
LEMMA RowsInvSays ==
  ASSUME RowsInv
  PROVE  /\ Watched /\ BaselineRead /\ Seen /\ Gone /\ AttemptGone
         /\ Control /\ MovesLast /\ DeletedFirst
         /\ NewVault /\ MoveWaits /\ AttemptOnDisk /\ ScanMissed
         /\ TypeOK /\ StoreInv /\ VaultInv /\ events \in Seq(Event)
         /\ \A p \in Outside : Rows[p] = NoRow
         /\ Rows \in [Paths -> Row] /\ \A p \in Paths : GoodRow(Rows[p])
         /\ disk \in [Paths -> Documents \cup {NoDoc}]
BY RowFacts, DiskTypes DEF RowsInv, Following, OnceInv, Orderly, QueueInv, VaultInv

\* A row that does not exist is not present.
LEMMA AbsentRow ==
  ASSUME NEW row, GoodRow(row), ~ Exists(row) PROVE ~ row.present
BY DEF GoodRow, Exists, NoRow

\* What a user does at a path: a file that was not there is announced, and one that
\* has gone from a watched directory, too.
LEMMA UsersTell ==
  ASSUME TypeOK, events \in Seq(Event), Users
  PROVE  /\ \A r : InQueue(r) => InQueue(r)'
         /\ \A r \in Paths : disk[r] = NoDoc /\ disk'[r] # NoDoc => ~ watching \/ Changing(r)' \/ Arriving(r)'
         /\ \A r \in Paths : disk[r] # NoDoc /\ disk'[r] = NoDoc => ~ watching \/ Departing(r)'
<1>0. disk \in [Paths -> Documents \cup {NoDoc}]
  BY DiskTypes
<1>1. ASSUME NEW p \in Paths, Create(p) \/ Modify(p) \/ Delete(p)
      PROVE  \E e \in Event : /\ Emit(e)
                              /\ \A r \in Paths : /\ disk[r] = NoDoc /\ disk'[r] # NoDoc => Brings(e, r)
                                                  /\ disk[r] # NoDoc /\ disk'[r] = NoDoc => e = <<"deleted", r>>
  <2>1. CASE Create(p)
    <3>1. <<"changed", p>> \in Event /\ Emit(<<"changed", p>>)
          /\ disk' = [disk EXCEPT ![p] = created + 1] /\ created + 1 # NoDoc
      BY <2>1, DiskTypes DEF Create, Event, NoDoc
    <3>2. \A r \in Paths : r # p => disk'[r] = disk[r]
      BY <1>0, <3>1
    <3>3. disk'[p] # NoDoc
      BY <1>0, <3>1
    <3> QED
      BY <3>1, <3>2, <3>3 DEF Brings
  <2>2. CASE Modify(p)
    BY <2>2 DEF Modify, Event
  <2>3. CASE Delete(p)
    <3>1. <<"deleted", p>> \in Event /\ Emit(<<"deleted", p>>) /\ disk' = [disk EXCEPT ![p] = NoDoc]
      BY <2>3 DEF Delete, Event
    <3>2. \A r \in Paths : disk'[r] = IF r = p THEN NoDoc ELSE disk[r]
      BY <1>0, <3>1
    <3> QED
      BY <3>1, <3>2
  <2> QED
    BY <1>1, <2>1, <2>2, <2>3
<1>2. ASSUME NEW p \in Paths, NEW q \in Paths, <<p, q>> \in Renames, Rename(p, q)
      PROVE  \E e \in Event : /\ Emit(e)
                              /\ \A r \in Paths : /\ disk[r] = NoDoc /\ disk'[r] # NoDoc => Brings(e, r)
                                                  /\ disk[r] # NoDoc /\ disk'[r] = NoDoc => e = <<"moved", r, q>>
  <2>1. /\ p # q /\ Emit(<<"moved", p, q>>) /\ disk[p] # NoDoc /\ disk[q] = NoDoc
        /\ disk' = [disk EXCEPT ![p] = NoDoc, ![q] = disk[p]]
    BY <1>2 DEF Rename
  <2>2. <<"moved", p, q>> \in Event
    BY <1>2, <2>1 DEF Event, Moves
  <2>3. \A r \in Paths : disk'[r] = IF r = q THEN disk[p] ELSE IF r = p THEN NoDoc ELSE disk[r]
    BY <1>0, <2>1
  <2> QED
    BY <2>1, <2>2, <2>3 DEF Brings
<1>3. PICK e \in Event :
        /\ Emit(e)
        /\ \A r \in Paths : /\ disk[r] = NoDoc /\ disk'[r] # NoDoc => Brings(e, r)
                            /\ disk[r] # NoDoc /\ disk'[r] = NoDoc
                               => e = <<"deleted", r>> \/ \E q \in Paths : e = <<"moved", r, q>>
  <2>1. ASSUME NEW move \in Renames, Rename(move[1], move[2])
        PROVE  \E p, q \in Paths : <<p, q>> \in Renames /\ Rename(p, q)
    <3>1. PICK p \in Paths, q \in Paths : move = <<p, q>>
      BY OneVault
    <3> QED
      BY <2>1, <3>1
  <2>2. CASE \E p, q \in Paths : <<p, q>> \in Renames /\ Rename(p, q)
    <3>1. PICK p \in Paths, q \in Paths : <<p, q>> \in Renames /\ Rename(p, q)
      BY <2>2
    <3>2. PICK e \in Event :
            /\ Emit(e)
            /\ \A r \in Paths : /\ disk[r] = NoDoc /\ disk'[r] # NoDoc => Brings(e, r)
                                /\ disk[r] # NoDoc /\ disk'[r] = NoDoc => e = <<"moved", r, q>>
      BY <1>2, <3>1
    <3> QED
      BY <3>2
  <2>3. CASE \E p \in Paths : Create(p) \/ Modify(p) \/ Delete(p)
    <3>1. PICK p \in Paths : Create(p) \/ Modify(p) \/ Delete(p)
      BY <2>3
    <3>2. PICK e \in Event :
            /\ Emit(e)
            /\ \A r \in Paths : /\ disk[r] = NoDoc /\ disk'[r] # NoDoc => Brings(e, r)
                                /\ disk[r] # NoDoc /\ disk'[r] = NoDoc => e = <<"deleted", r>>
      BY <1>1, <3>1
    <3> QED
      BY <3>2
  <2> QED
    BY <2>1, <2>2, <2>3 DEF Users
<1>4. \A f : InQueue(f)' <=> InQueue(f) \/ (watching /\ f = e)
  BY <1>3, Emitted
<1>5. \A r \in Paths : disk[r] = NoDoc /\ disk'[r] # NoDoc => ~ watching \/ Changing(r)' \/ Arriving(r)'
  BY <1>3, <1>4 DEF Brings, Changing, Arriving, MoveQueued
<1>6. \A r \in Paths : disk[r] # NoDoc /\ disk'[r] = NoDoc => ~ watching \/ Departing(r)'
  BY <1>3, <1>4 DEF Departing, Leaving, MoveQueued
<1> QED
  BY <1>4, <1>5, <1>6

\* The files that users touch are told of.
LEMMA UsersFollow == ASSUME Unhurried, RowsInv, Users PROVE Following'
<1>0. /\ UsersAct
      /\ UNCHANGED <<vaults, documents, service, watching, awaiting, observing, forgotten, scan,
                     delivering, baseline>>
  BY DEF Users, Create, Modify, Delete, Rename, Edit, storeVars, deliveryVars
<1>1. /\ Watched /\ BaselineRead /\ Seen /\ Gone /\ AttemptGone
      /\ TypeOK /\ events \in Seq(Event)
  BY RowsInvSays
<1>2. /\ \A r : InQueue(r) => InQueue(r)'
      /\ \A r \in Paths : disk[r] = NoDoc /\ disk'[r] # NoDoc => ~ watching \/ Changing(r)' \/ Arriving(r)'
      /\ \A r \in Paths : disk[r] # NoDoc /\ disk'[r] = NoDoc => ~ watching \/ Departing(r)'
  BY <1>1, UsersTell
<1>3. /\ ScanDue' <=> ScanDue
      /\ \A r : Scanned(r)' <=> Scanned(r)
      /\ \A r : Changing(r) => Changing(r)'
      /\ \A r : Arriving(r) => Arriving(r)'
      /\ \A r : Departing(r) => Departing(r)'
  BY <1>0, <1>2 DEF ScanDue, Scanned, Changing, Arriving, MoveQueued, Departing, Leaving
<1>4. Watched' /\ BaselineRead'
  <2>1. Vault \in vaults \/ scan.phase = "none"
    BY <1>0 DEF UsersAct, NoScan, Unhurried
  <2> QED
    BY <1>0, <1>1, <2>1 DEF Watched, BaselineRead
<1>5. Seen'
  <2> SUFFICES ASSUME NEW r \in Scannable \ forgotten, disk'[r] # NoDoc PROVE SeenAt(r)'
    BY <1>0 DEF Seen
  <2>1. CASE disk[r] # NoDoc
    <3>1. SeenAt(r)
      BY <1>1, <2>1 DEF Seen
    <3> QED
      BY <1>0, <1>3, <3>1 DEF SeenAt, Rows
  <2>2. CASE disk[r] = NoDoc
    BY <1>0, <1>2, <2>2, PathSets DEF SeenAt, ScanDue
  <2> QED
    BY <2>1, <2>2
<1>6. ASSUME NEW r \in Paths, disk'[r] = NoDoc, disk[r] = NoDoc => Departs(r) PROVE Departs(r)'
  <2>1. CASE disk[r] = NoDoc
    BY <1>0, <1>3, <1>6, <2>1 DEF Departs
  <2>2. CASE disk[r] # NoDoc
    BY <1>0, <1>2, <1>6, <2>2 DEF Departs, ScanDue
  <2> QED
    BY <2>1, <2>2
<1>7. Gone'
  <2> SUFFICES ASSUME NEW r \in Paths, Rows[r].present, disk'[r] = NoDoc PROVE GoneAt(r)'
    BY <1>0 DEF Gone, Rows
  <2>1. disk[r] = NoDoc => Rows[r].status = "pending" \/ Departs(r)
    BY <1>1 DEF Gone, GoneAt
  <2>2. Rows'[r].status = Rows[r].status
    BY <1>0 DEF Rows
  <2> QED
    BY <1>6, <2>1, <2>2 DEF GoneAt
<1>8. AttemptGone'
  <2> SUFFICES ASSUME NEW r \in Paths, NEW g \in Nat, NEW d \in Documents, delivering = <<r, g, d>>
               PROVE  /\ Rows[r].generation >= g
                      /\ Rows[r].present /\ Rows[r].generation = g /\ disk'[r] = NoDoc => Departs(r)'
    BY <1>0 DEF AttemptGone, Rows
  <2> QED
    BY <1>1, <1>6 DEF AttemptGone
<1> QED
  BY <1>4, <1>5, <1>7, <1>8 DEF Following

\* The paths an event names.
LEMMA EventPaths ==
  ASSUME NEW e \in Event, NEW i \in 2..Len(e)
  PROVE  e[i] = e[2] \/ (e[1] = "moved" /\ e[i] = e[3])
<1>1. CASE e \in {"changed", "deleted"} \X Paths
  <2>1. PICK kind \in {"changed", "deleted"}, p \in Paths : e = <<kind, p>>
    BY <1>1
  <2> QED
    BY <2>1
<1>2. CASE e \in Moves
  <2>1. PICK move \in Renames : e = <<"moved", move[1], move[2]>>
    BY <1>2 DEF Moves
  <2> QED
    BY <2>1
<1> QED
  BY <1>1, <1>2 DEF Event

\* The observer hands on what it is told of, and the rows follow.
LEMMA ObserverFollows == ASSUME RowsInv, Observer PROVE Following'
<1>0. PICK kind \in {"changed", "deleted", "moved"} : NextEvent(kind)
  BY DEF Observer, OnCreated, OnDeleted, OnMoved
<1>1. /\ watching /\ UNCHANGED <<disk, service, watching, observing, scan, delivering, baseline>>
      /\ forgotten' = forgotten \ {Head(events)[i] : i \in 2..Len(Head(events))}
  BY <1>0 DEF NextEvent, diskVars, deliveryVars
<1>2. /\ Watched /\ BaselineRead /\ Seen /\ Gone /\ AttemptGone /\ MoveWaits /\ MovesLast /\ DeletedFirst
      /\ StoreInv /\ events \in Seq(Event)
      /\ \A r \in Outside : Rows[r] = NoRow
      /\ \A r \in Paths : Rows[r] \in Row /\ GoodRow(Rows[r])
  BY RowsInvSays
<1>3. PICK e \in Event : e = Head(events)
  BY <1>0, <1>2, HandledEvent
<1>4. /\ \A f : InQueue(f)' => InQueue(f)
      /\ \A f : InQueue(f) => f = e \/ InQueue(f)'
      /\ InQueue(e)
  BY <1>0, <1>2, <1>3, Handled
<1>5. \A r \in forgotten : r \in forgotten' \/ r = e[2] \/ (e[1] = "moved" /\ r = e[3])
  BY <1>1, <1>3, EventPaths
<1>6. /\ ScanDue' <=> ScanDue
      /\ \A r : Scanned(r)' <=> Scanned(r)
  BY <1>1 DEF ScanDue, Scanned
<1>7. \A r : /\ Changing(r) => e = <<"changed", r>> \/ Changing(r)'
             /\ Arriving(r) => Arriving(r)' \/ \E x \in Paths : e = <<"moved", x, r>>
             /\ Departing(r) => Departing(r)' \/ e = <<"deleted", r>>
                                 \/ \E y \in Paths : e = <<"moved", r, y>>
  BY <1>4 DEF Changing, Arriving, Departing, Leaving, MoveQueued
<1>8. ASSUME UNCHANGED vaults,
             \A r \in Paths : disk[r] # NoDoc => (r \in awaiting => r \in awaiting'),
             \A r \in Paths : disk[r] # NoDoc /\ Rows[r].present
                => Rows'[r].present \/ Changing(r)' \/ Arriving(r)',
             \A r \in Eligible : /\ disk[r] # NoDoc
                                 /\ r = e[2] \/ (e[1] = "moved" /\ r = e[3])
                => r \in awaiting' \/ Changing(r)' \/ Arriving(r)',
             \A r \in Paths : Rows'[r].present /\ disk[r] = NoDoc
                => Rows'[r] = Rows[r] /\ (e[1] = "changed" \/ r # e[2]),
             \A r \in Paths : (\E g, d : d \in Documents /\ delivering = <<r, g, d>>)
                => Rows'[r].generation = Rows[r].generation
      PROVE  Following'
  <2>1. Watched' /\ BaselineRead'
    BY <1>1, <1>2, <1>8 DEF Watched, BaselineRead
  <2>2. Seen'
    <3> SUFFICES ASSUME NEW r \in Scannable \ forgotten', disk[r] # NoDoc PROVE SeenAt(r)'
      BY <1>1 DEF Seen
    <3>1. r \in Eligible /\ r \in Paths
      BY PathSets
    <3>2. CASE r = e[2] \/ (e[1] = "moved" /\ r = e[3])
      BY <1>8, <3>1, <3>2 DEF SeenAt
    <3>3. CASE ~ (r = e[2] \/ (e[1] = "moved" /\ r = e[3]))
      <4>1. SeenAt(r)
        BY <1>2, <1>5, <3>3 DEF Seen
      <4>2. /\ Changing(r) => Changing(r)'
            /\ Arriving(r) => Arriving(r)'
        BY <1>7, <3>3
      <4> QED
        BY <1>1, <1>6, <1>8, <3>1, <4>1, <4>2 DEF SeenAt
    <3> QED
      BY <3>2, <3>3
  <2>3. \A r \in Paths : Rows'[r].present /\ disk[r] = NoDoc /\ Departs(r) => Departs(r)'
    <3> SUFFICES ASSUME NEW r \in Paths, Rows'[r].present, disk[r] = NoDoc, Departs(r) PROVE Departs(r)'
      OBVIOUS
    <3>1. Departing(r) => Departing(r)'
      BY <1>7, <1>8
    <3> QED
      BY <1>1, <1>6, <3>1 DEF Departs
  <2>4. Gone'
    <3> SUFFICES ASSUME NEW r \in Paths, Rows'[r].present, disk[r] = NoDoc PROVE GoneAt(r)'
      BY <1>1 DEF Gone
    <3>1. Rows'[r] = Rows[r] /\ GoneAt(r)
      BY <1>2, <1>8 DEF Gone
    <3> QED
      BY <2>3, <3>1 DEF GoneAt
  <2>5. AttemptGone'
    <3> SUFFICES ASSUME NEW r \in Paths, NEW g \in Nat, NEW d \in Documents, delivering = <<r, g, d>>
                 PROVE  /\ Rows'[r].generation >= g
                        /\ Rows'[r].present /\ Rows'[r].generation = g /\ disk[r] = NoDoc => Departs(r)'
      BY <1>1 DEF AttemptGone
    <3>1. Rows'[r].generation = Rows[r].generation
      BY <1>8
    <3> QED
      BY <1>2, <1>8, <2>3, <3>1 DEF AttemptGone
  <2> QED
    BY <2>1, <2>2, <2>4, <2>5 DEF Following
<1>9. CASE OnCreated
  <2>1. /\ vaults' = vaults /\ Rows' = Rows /\ e[1] = "changed"
        /\ awaiting' = IF e[2] \in Eligible THEN awaiting \cup {e[2]} ELSE awaiting
    BY <1>3, <1>9 DEF OnCreated, NextEvent, storeVars, Rows
  <2> QED
    BY <1>8, <2>1
<1>10. CASE OnDeleted
  <2>1. /\ e[1] = "deleted" /\ awaiting' = awaiting /\ NextEvent("deleted")
        /\ IF e[2] \in Eligible THEN MarkMissing(Vault, e[2]) ELSE UNCHANGED storeVars
    BY <1>3, <1>10 DEF OnDeleted, NextEvent
  <2>2. PICK p \in Paths : p = e[2] /\ e = <<"deleted", p>>
    <3>1. e[2] \in Paths
      BY EventShape
    <3>2. e = <<"deleted", e[2]>>
      BY <2>1 DEF Event, Moves
    <3> QED
      BY <3>1, <3>2
  <2>3. /\ UNCHANGED vaults /\ ~ Rows'[p].present
        /\ \A q \in Paths \ {p} : Rows'[q] = Rows[q]
        /\ \A q \in Paths : Rows'[q].generation = Rows[q].generation
    <3>1. CASE p \in Eligible
      BY <1>2, <2>1, <2>2, <3>1, MissingRows, MissingKeeps
    <3>2. CASE p \notin Eligible
      BY <1>2, <2>1, <2>2, <3>2 DEF Eligible, storeVars, Rows, NoRow
    <3> QED
      BY <3>1, <3>2
  <2>4. disk[p] # NoDoc => Changing(p)' \/ Arriving(p)'
    BY <1>2, <1>3, <2>1, <2>2, BroughtAgain
  <2>5. \A r : e[1] = "moved" /\ r = e[3] => FALSE
    BY <2>1
  <2> QED
    BY <1>8, <2>1, <2>2, <2>3, <2>4, <2>5, PathSets
<1>11. CASE OnMoved
  <2>1. /\ e[1] = "moved" /\ Moved(e[2], e[3])
        /\ awaiting' = (IF e[3] \in Eligible THEN awaiting \ {e[2]} ELSE awaiting)
                          \cup ({e[3]} \cap Eligible)
    BY <1>3, <1>11 DEF OnMoved, NextEvent
  <2>2. PICK p \in Paths, q \in Paths : p = e[2] /\ q = e[3] /\ p # q
    BY <2>1, EventShape
  <2>3. e = <<"moved", p, q>>
    BY <2>1, <2>2 DEF Event, Moves
  <2>4. /\ disk[p] = NoDoc /\ disk[q] # NoDoc /\ ~ Attempted(q)
        /\ Attempted(p) => delivering[3] = NoDoc
    BY <1>2, <1>4, <2>3 DEF MoveQueued, MoveWaits, Crossing, Spared
  <2>5. /\ UNCHANGED vaults /\ ~ Rows'[p].present
        /\ \A r \in Paths \ {p, q} : Rows'[r] = Rows[r]
        /\ Rows[q].present => Rows'[q].present
    <3>0. Moved(p, q) /\ GoodRow(Rows[p])
      BY <1>2, <2>1, <2>2
    <3>1. CASE p \in Eligible /\ q \in Eligible
      <4>1. MovePath(Vault, p, q)
        BY <2>4, <3>0, <3>1 DEF Moved, Eligible
      <4>2. /\ UNCHANGED vaults /\ \A r \in Paths \ {p, q} : Rows'[r] = Rows[r]
            /\ IF Exists(Rows[p])
               THEN Rows'[p] = NoRow /\ Rows'[q] = [Rows[p] EXCEPT !.present = TRUE]
               ELSE Rows'[p] = Rows[p] /\ Rows'[q] = Rows[q]
        BY <1>2, <2>2, <4>1, MovedRows
      <4>3. ~ Rows'[p].present
        BY <3>0, <4>2, AbsentRow DEF NoRow
      <4>4. [Rows[p] EXCEPT !.present = TRUE].present
        BY <1>2 DEF Row
      <4> QED
        BY <4>2, <4>3, <4>4
    <3>2. CASE p \in Eligible /\ q \in Outside
      <4>1. MarkMissing(Vault, p)
        BY <3>0, <3>2 DEF Moved, Eligible
      <4> QED
        BY <1>2, <2>2, <4>1, MissingRows, MissingKeeps
    <3>3. CASE p \in Outside
      <4>1. UNCHANGED storeVars
        BY <3>0, <3>3 DEF Moved, Eligible
      <4> QED
        BY <1>2, <3>3, <4>1 DEF storeVars, Rows, NoRow
    <3> QED
      BY <3>1, <3>2, <3>3 DEF Eligible
  <2>6. \A r \in Paths : disk[r] # NoDoc => r \in Paths \ {p}
    BY <2>4
  <2>7. \A r \in Paths : (\E g, d : d \in Documents /\ delivering = <<r, g, d>>) => r \in Paths \ {p, q}
    <3> SUFFICES ASSUME NEW r \in Paths, NEW g, NEW d \in Documents, delivering = <<r, g, d>>
                 PROVE  r # p /\ r # q
      OBVIOUS
    <3>1. delivering[1] = r /\ delivering[3] = d /\ delivering # Nothing /\ d # NoDoc
      BY OneVault DEF Nothing
    <3> QED
      BY <2>4, <3>1 DEF Attempted
  <2>8. \A r \in Eligible : disk[r] # NoDoc /\ (r = e[2] \/ (e[1] = "moved" /\ r = e[3])) => r \in awaiting'
    BY <2>1, <2>2, <2>4
  <2>9. \A r \in Paths : disk[r] # NoDoc => (r \in awaiting => r \in awaiting')
    BY <2>1, <2>2, <2>4
  <2>10. \A r \in Paths : disk[r] # NoDoc /\ Rows[r].present => Rows'[r].present
    <3> SUFFICES ASSUME NEW r \in Paths, disk[r] # NoDoc, Rows[r].present PROVE Rows'[r].present
      OBVIOUS
    <3>1. r # p
      BY <2>4
    <3> QED
      BY <2>5, <3>1
  <2>11. \A r \in Paths : Rows'[r].present /\ disk[r] = NoDoc => Rows'[r] = Rows[r] /\ r # e[2]
    <3> SUFFICES ASSUME NEW r \in Paths, Rows'[r].present, disk[r] = NoDoc PROVE Rows'[r] = Rows[r] /\ r # e[2]
      OBVIOUS
    <3>1. r # p /\ r # q
      BY <2>4, <2>5
    <3> QED
      BY <2>2, <2>5, <3>1
  <2> QED
    BY <1>8, <2>5, <2>7, <2>8, <2>9, <2>10, <2>11
<1> QED
  BY <1>9, <1>10, <1>11 DEF Observer

\* What the dispatcher, the start of the worker and the delivery keep: files stay
\* seen, rows without a file stay due or departing.
LEMMA StillFollowing ==
  ASSUME RowsInv,
         UNCHANGED <<vaults, disk, watching, events, scan, baseline>>,
         service' = "down" <=> service = "down",
         \A r \in Scannable \ forgotten' : disk[r] # NoDoc =>
            /\ r \notin forgotten
            /\ Rows[r].present \/ r \in awaiting \/ observing = r
               => Rows'[r].present \/ r \in awaiting' \/ observing' = r,
         \A r \in Paths : Rows'[r].present /\ disk[r] = NoDoc =>
            \/ Rows[r].present /\ Rows'[r].status = Rows[r].status
            \/ Rows'[r].status = "pending" \/ Departs(r),
         AttemptGone'
  PROVE  Following'
<1>1. Watched /\ BaselineRead /\ Seen /\ Gone
  BY RowsInvSays
<1>2. /\ ScanDue' <=> ScanDue
      /\ \A r : /\ Scanned(r)' <=> Scanned(r)
                /\ Changing(r)' <=> Changing(r)
                /\ Arriving(r)' <=> Arriving(r)
                /\ Departs(r)' <=> Departs(r)
  BY DEF ScanDue, Scanned, Changing, Arriving, Departs, Departing, Leaving, MoveQueued, InQueue
<1>3. Watched' /\ BaselineRead'
  BY <1>1 DEF Watched, BaselineRead
<1>4. Seen'
  <2> SUFFICES ASSUME NEW r \in Scannable \ forgotten', disk[r] # NoDoc PROVE SeenAt(r)'
    BY DEF Seen
  <2>1. SeenAt(r)
    BY <1>1 DEF Seen
  <2> QED
    BY <1>2, <2>1 DEF SeenAt
<1>5. Gone'
  <2> SUFFICES ASSUME NEW r \in Paths, Rows'[r].present, disk[r] = NoDoc PROVE GoneAt(r)'
    BY DEF Gone
  <2>1. Rows[r].present => GoneAt(r)
    BY <1>1 DEF Gone
  <2> QED
    BY <1>2, <2>1 DEF GoneAt
<1> QED
  BY <1>3, <1>4, <1>5 DEF Following

\* An attempt goes on while its row stays, or takes a later generation.
LEMMA AttemptGoesOn ==
  ASSUME RowsInv,
         delivering' \in {delivering, Nothing},
         \A r \in Paths : disk'[r] = disk[r] /\ (Departs(r) => Departs(r)' \/ ~ Rows'[r].present),
         \A r \in Paths : \/ Rows'[r].generation = Rows[r].generation
                             /\ (Rows'[r].present => Rows[r].present)
                          \/ Rows'[r].generation = Rows[r].generation + 1
  PROVE  AttemptGone'
<1> SUFFICES ASSUME NEW r \in Paths, NEW g \in Nat, NEW d \in Documents, delivering' = <<r, g, d>>
             PROVE  /\ Rows'[r].generation >= g
                    /\ Rows'[r].present /\ Rows'[r].generation = g /\ disk'[r] = NoDoc => Departs(r)'
  BY DEF AttemptGone
<1>1. delivering = <<r, g, d>>
  BY DEF Nothing
<1>2. /\ Rows[r].generation >= g
      /\ Rows[r].present /\ Rows[r].generation = g /\ disk[r] = NoDoc => Departs(r)
  BY <1>1, RowsInvSays DEF AttemptGone
<1>3. Rows[r].generation \in Nat /\ Rows[r].generation >= g
  BY <1>2, RowsInvSays DEF Row
<1>4. CASE Rows'[r].generation = Rows[r].generation /\ (Rows'[r].present => Rows[r].present)
  BY <1>2, <1>4
<1>5. CASE Rows'[r].generation = Rows[r].generation + 1
  <2>1. Rows[r].generation + 1 >= g /\ Rows[r].generation + 1 # g
    BY <1>3
  <2> QED
    BY <1>5, <2>1
<1> QED
  BY <1>4, <1>5

\* What the dispatcher takes it records, reports gone, or forgets when it raises.
LEMMA DispatcherFollows == ASSUME RowsInv, Dispatcher \/ ObserveRaises PROVE Following'
<1>1. UNCHANGED <<disk, service, watching, events, scan, delivering, baseline>>
  BY DEF Dispatcher, Observe, ObserveRaises, DispatchGone, Dispatch, Take, diskVars, deliveryVars
<1>2. /\ NewVault /\ StoreInv /\ TypeOK
      /\ \A r \in Paths : Rows[r] \in Row
  BY RowsInvSays
<1>3. \A r : Departs(r)' <=> Departs(r)
  BY <1>1 DEF ScanDue, Departs, Departing, Leaving, MoveQueued, InQueue
<1>4. ASSUME NEW p \in Paths, DispatchGone(p) \/ Dispatch(p) PROVE Following'
  <2>1. /\ p \in awaiting /\ observing = Nothing
        /\ awaiting' = awaiting \ {p} /\ UNCHANGED <<vaults, Rows, forgotten>>
        /\ p \in Scannable /\ disk[p] # NoDoc => observing' = p
    BY <1>4 DEF DispatchGone, Dispatch, Take, storeVars, Rows, Scannable
  <2>2. AttemptGone'
    BY <1>1, <1>3, <2>1, AttemptGoesOn
  <2>3. \A r \in Scannable : disk[r] # NoDoc /\ (r \in awaiting \/ observing = r)
           => r \in awaiting' \/ observing' = r
    BY <2>1, PathSets, NothingAssumption
  <2> QED
    BY <1>1, <2>1, <2>2, <2>3, PathSets, StillFollowing
<1>5. CASE Observe \/ ObserveRaises
  <2>1. observing # Nothing /\ observing' = Nothing /\ awaiting' = awaiting
    BY <1>5 DEF Observe, ObserveRaises
  <2>2. PICK o \in Scannable : o = observing
    BY <1>2, <2>1 DEF TypeOK
  <2>3. /\ UNCHANGED vaults /\ \A q \in Paths \ {o} : Rows'[q] = Rows[q]
        /\ Rows'[o] = Rows[o]
           \/ (Rows'[o].status = "pending" /\ Rows'[o].generation = Rows[o].generation + 1)
        /\ forgotten \subseteq forgotten' /\ (Rows'[o].present \/ o \in forgotten')
        /\ Rows[o].present => Rows'[o].present
    <3>1. CASE Observe
      <4>1. ObserveNew(Vault, o) /\ o \in Paths /\ forgotten' = forgotten
        BY <2>2, <3>1, PathSets DEF Observe
      <4>2. /\ vaults' = vaults \cup {Vault} /\ Rows'[o] = Observed(Rows[o], now)
            /\ \A q \in Paths \ {o} : Rows'[q] = Rows[q]
        BY <1>2, <4>1, ObservedRows
      <4>3. Vault \in vaults
        BY <1>2, <2>1 DEF NewVault
      <4>4. /\ Fresh(Rows[o], now).status = "pending" /\ Fresh(Rows[o], now).present
            /\ Fresh(Rows[o], now).generation = Rows[o].generation + 1
        BY <1>2, <4>1 DEF Fresh, Row
      <4> QED
        BY <4>1, <4>2, <4>3, <4>4 DEF Observed
    <3>2. CASE ObserveRaises
      BY <2>2, <3>2 DEF ObserveRaises, storeVars, Rows
    <3> QED
      BY <1>5, <3>1, <3>2
  <2>4. \A r \in Paths : Rows'[r] = Rows[r]
           \/ (Rows'[r].status = "pending" /\ Rows'[r].generation = Rows[r].generation + 1)
    BY <2>3
  <2>5. AttemptGone'
    BY <1>1, <1>3, <2>4, AttemptGoesOn
  <2>6. \A r \in Scannable \ forgotten' : Rows[r].present \/ r \in awaiting \/ observing = r
           => Rows'[r].present \/ r \in awaiting'
    <3> SUFFICES ASSUME NEW r \in Scannable \ forgotten', Rows[r].present \/ r \in awaiting \/ observing = r
                 PROVE  Rows'[r].present \/ r \in awaiting'
      OBVIOUS
    <3>1. CASE r = o
      BY <2>3, <3>1
    <3>2. CASE r # o
      BY <2>1, <2>2, <2>3, <3>2, PathSets
    <3> QED
      BY <3>1, <3>2
  <2> QED
    BY <1>1, <2>3, <2>4, <2>5, <2>6, StillFollowing
<1> QED
  BY <1>4, <1>5 DEF Dispatcher

\* A restart or a new watcher scans; what is lost with the old one is found again.
LEMMA RestartFollows ==
  ASSUME RowsInv, Start \/ StartWorker \/ WatcherDies \/ ReplaceWatcher \/ Crash PROVE Following'
<1>1. /\ UNCHANGED <<vaults, disk, delivering, baseline, forgotten>>
      /\ \A p \in Paths : Rows'[p] = Rows[p]
  BY Restarted DEF RowsInv, Start, StartWorker, WatcherDies, ReplaceWatcher, Crash, watchVars
<1>2. Control
  BY RowsInvSays
<1>3. CASE StartWorker
  <2>1. /\ UNCHANGED <<watching, events, awaiting, observing, scan>>
        /\ service = "starting" /\ service' = "up"
    BY <1>3 DEF StartWorker, watchVars
  <2>2. \A r : Departs(r)' <=> Departs(r)
    BY <2>1 DEF ScanDue, Departs, Departing, Leaving, MoveQueued, InQueue
  <2>3. AttemptGone'
    BY <1>1, <2>2, AttemptGoesOn
  <2> QED
    BY <1>1, <2>1, <2>3, PathSets, StillFollowing
<1>4. CASE Start \/ WatcherDies \/ ReplaceWatcher \/ Crash
  <2>1. ScanDue' /\ scan'.phase # "reconcile"
    <3>1. Start \/ ReplaceWatcher => scan'.phase = "read"
      BY DEF Start, ReplaceWatcher, Begin
    <3>2. WatcherDies \/ Crash => scan'.phase = "none" /\ ScanDue'
      BY DEF WatcherDies, Crash, NoScan, ScanDue
    <3> QED
      BY <1>4, <3>1, <3>2 DEF ScanDue
  <2>2. Watched'
    <3>1. Start /\ Vault \in vaults => watching'
      BY Zenon DEF Start
    <3>2. ReplaceWatcher => watching'
      BY DEF ReplaceWatcher
    <3>3. WatcherDies \/ Crash => scan'.phase = "none"
      BY DEF WatcherDies, Crash, NoScan
    <3> QED
      BY <1>1, <1>4, <3>1, <3>2, <3>3 DEF Watched
  <2>3. BaselineRead'
    BY <2>1 DEF BaselineRead
  <2>4. Seen' /\ Gone'
    BY <2>1 DEF Seen, SeenAt, Gone, GoneAt, Departs
  <2>5. AttemptGone'
    BY <1>1, <2>1, AttemptGoesOn DEF Departs
  <2> QED
    BY <2>2, <2>3, <2>4, <2>5 DEF Following
<1> QED
  BY <1>3, <1>4

\* The scan sees every file, and nothing else.
LEMMA ReadFollows == ASSUME RowsInv, ReadDirectory PROVE Following'
<1>1. /\ UNCHANGED <<vaults, documents, disk, watching, events, delivering>>
      /\ scan.phase = "read" /\ scan'.phase = "reconcile"
      /\ scan'.found = {p \in Scannable : disk[p] # NoDoc}
  BY RowsInvSays DEF ReadDirectory, storeVars, diskVars, watchVars, deliveryVars, TypeOK
<1>2. /\ Watched /\ TypeOK /\ \A r \in Outside : Rows[r] = NoRow
  BY RowsInvSays
<1>3. Watched' /\ BaselineRead'
  BY <1>1, <1>2, PathSets DEF ReadDirectory, Watched, BaselineRead
<1>4. \A r \in Paths : disk[r] = NoDoc => Departs(r)'
  BY <1>1 DEF Departs
<1>5. Seen' /\ Gone'
  BY <1>1, <1>4 DEF Seen, SeenAt, Scanned, Gone, GoneAt
<1>6. AttemptGone'
  <2> SUFFICES ASSUME NEW r \in Paths, NEW g \in Nat, NEW d \in Documents, delivering = <<r, g, d>>
               PROVE  /\ Rows[r].generation >= g
                      /\ Rows[r].present /\ Rows[r].generation = g /\ disk[r] = NoDoc => Departs(r)'
    BY <1>1 DEF AttemptGone, Rows
  <2> QED
    BY <1>4, RowsInvSays DEF AttemptGone
<1> QED
  BY <1>3, <1>5, <1>6 DEF Following

\* What the scan did not find has no row any more, and what it found has one.
LEMMA ScanFollows == ASSUME RowsInv, FinishScan PROVE Following'
<1>1. /\ UNCHANGED <<disk, service, events, awaiting, observing, delivering, baseline>>
      /\ scan.phase = "reconcile" /\ scan'.phase = "none" /\ watching'
      /\ forgotten' = forgotten \ scan.found
  BY DEF FinishScan, NoScan, diskVars, deliveryVars
<1>2. /\ Watched /\ BaselineRead /\ Seen /\ Gone /\ AttemptGone
      /\ Control /\ NewVault /\ ScanMissed /\ DeletedFirst /\ StoreInv
      /\ scan.found \subseteq Scannable
      /\ \A r \in Paths : Rows[r] \in Row /\ GoodRow(Rows[r])
  BY RowsInvSays DEF TypeOK
<1>3. PICK at \in Nat : Reconcile(Vault, scan.found, at)
  <2>1. scan.since + Quiet \in Nat
    BY RowsInvSays, OneVault DEF TypeOK
  <2> QED
    BY <2>1 DEF FinishScan
<1>4. /\ vaults' = vaults \cup {Vault}
      /\ \A p \in Paths : Rows'[p] = IF Vault \in vaults THEN Reconciled(Rows[p], p \in scan.found, at)
                                     ELSE IF p \in scan.found THEN BaselineRow ELSE Rows[p]
  BY <1>2, <1>3, ScannedRows
<1>5. \A r : /\ Changing(r)' <=> Changing(r)
             /\ Arriving(r)' <=> Arriving(r)
             /\ Departing(r)' <=> Departing(r)
  BY <1>1 DEF Changing, Arriving, Departing, Leaving, MoveQueued, InQueue
<1>6. Watched' /\ BaselineRead'
  BY <1>1 DEF Watched, BaselineRead
<1>7. CASE Vault \in vaults
  <2>1. ~ ScanDue
    BY <1>1, <1>2, <1>7 DEF ScanDue, Watched, Control
  <2>2. ASSUME NEW p \in Paths
        PROVE  /\ p \in scan.found => Rows'[p].present
               /\ Rows'[p].present => p \in scan.found
               /\ Rows'[p].present => \/ Rows'[p] = Rows[p]
                                      \/ Rows'[p].status = "pending"
               /\ \/ /\ Rows'[p].generation = Rows[p].generation
                     /\ Rows'[p].present => Rows[p].present
                  \/ Rows'[p].generation = Rows[p].generation + 1
    <3>1. Rows'[p] = Reconciled(Rows[p], p \in scan.found, at)
      BY <1>4, <1>7
    <3>2. ~ Missing(Rows[p]).present /\ Missing(Rows[p]).generation = Rows[p].generation
      BY <1>2, MissingKeeps
    <3>3. /\ Fresh(Rows[p], at).status = "pending" /\ Fresh(Rows[p], at).present
          /\ Fresh(Rows[p], at).generation = Rows[p].generation + 1
      BY <1>2 DEF Fresh, Row
    <3>4. CASE p \in scan.found
      <4>1. (Rows'[p] = Rows[p] /\ Rows[p].present) \/ Rows'[p] = Fresh(Rows[p], at)
        BY <3>1, <3>4 DEF Reconciled, Observed
      <4> QED
        BY <3>3, <3>4, <4>1
    <3>5. CASE p \notin scan.found
      BY <3>1, <3>2, <3>5 DEF Reconciled
    <3> QED
      BY <3>4, <3>5
  <2>3. Seen'
    <3> SUFFICES ASSUME NEW r \in Scannable \ forgotten', disk[r] # NoDoc PROVE SeenAt(r)'
      BY <1>1 DEF Seen
    <3>1. CASE r \in scan.found
      BY <2>2, <3>1, PathSets DEF SeenAt
    <3>2. CASE r \notin scan.found
      <4>1. SeenAt(r) /\ ~ Scanned(r)
        BY <1>1, <1>2, <3>2 DEF Seen, Scanned
      <4>2. Rows[r].present => Changing(r) \/ Arriving(r)
        <5>1. Rows[r].present => Leaving(r)
          BY <1>1, <1>2, <1>7, <3>2 DEF ScanMissed, UnseenAt
        <5>2. Leaving(r) => Changing(r) \/ Arriving(r)
          BY <1>2, PathSets
             DEF Leaving, InQueue, DeletedFirst, Brings, Changing, Arriving, MoveQueued
        <5> QED
          BY <5>1, <5>2
      <4> QED
        BY <1>1, <1>5, <2>1, <4>1, <4>2 DEF SeenAt
    <3> QED
      BY <3>1, <3>2
  <2>4. \A r \in Paths : Departs(r) => Departs(r)' \/ ~ Rows'[r].present
    BY <1>5, <2>1, <2>2 DEF Departs
  <2>5. Gone'
    <3> SUFFICES ASSUME NEW r \in Paths, Rows'[r].present, disk[r] = NoDoc PROVE GoneAt(r)'
      BY <1>1 DEF Gone
    <3>1. CASE Rows'[r].status = "pending"
      BY <3>1 DEF GoneAt
    <3>2. CASE Rows'[r] = Rows[r]
      BY <1>2, <2>4, <3>2 DEF Gone, GoneAt
    <3> QED
      BY <2>2, <3>1, <3>2
  <2>6. AttemptGone'
    BY <1>1, <2>2, <2>4, AttemptGoesOn
  <2> QED
    BY <1>6, <2>3, <2>5, <2>6 DEF Following
<1>8. CASE Vault \notin vaults
  <2>1. scan.found = {p \in Scannable : disk[p] # NoDoc} /\ delivering = Nothing
    BY <1>1, <1>2, <1>8 DEF BaselineRead, NewVault
  <2>2. \A p \in Paths : Rows'[p].present <=> p \in scan.found
    <3>1. \A p \in Paths : ~ Rows[p].present
      BY <1>2, <1>8, RowFacts, AbsentRow DEF Exists
    <3> QED
      BY <1>4, <1>8, <3>1 DEF BaselineRow
  <2>3. Seen' /\ Gone'
    BY <1>1, <2>1, <2>2, PathSets DEF Seen, SeenAt, Gone
  <2>4. AttemptGone'
    BY <1>1, <2>1 DEF AttemptGone, Nothing
  <2> QED
    BY <1>6, <2>3, <2>4 DEF Following
<1> QED
  BY <1>7, <1>8

\* An attempt marks the row of a missing file, and one that settles a row settles
\* that of a file that is there or departs.
LEMMA DeliveryFollows == ASSUME RowsInv, Delivery PROVE Following'
<1>1. UNCHANGED <<vaults, disk, service, watching, events, awaiting, observing, forgotten, scan, baseline>>
  BY DEF Delivery, Attempt, Conclude, MarkMissing, MarkSent, storeVars, diskVars, watchVars
<1>2. /\ AttemptGone /\ AttemptOnDisk /\ StoreInv /\ TypeOK
      /\ \A r \in Paths : Rows[r] \in Row
      /\ disk \in [Paths -> Documents \cup {NoDoc}]
  BY RowsInvSays
<1>3. ASSUME NEW p \in Paths, Attempt(p) PROVE Following'
  <2>1. delivering' = <<p, Rows[p].generation, disk[p]>> /\ Rows' = Rows
    BY <1>3 DEF Attempt, storeVars, Rows
  <2>2. AttemptGone'
    <3> SUFFICES ASSUME NEW r \in Paths, NEW g \in Nat, NEW d \in Documents, delivering' = <<r, g, d>>
                 PROVE  /\ Rows[r].generation >= g
                        /\ Rows[r].present /\ Rows[r].generation = g /\ disk[r] = NoDoc => Departs(r)'
      BY <1>1, <2>1 DEF AttemptGone
    <3>1. r = p /\ g = Rows[p].generation /\ d = disk[p]
      BY <2>1
    <3>2. disk[r] # NoDoc
      BY <3>1, OneVault
    <3> QED
      BY <3>1, <3>2
  <2> QED
    BY <1>1, <2>1, <2>2, StillFollowing
<1>4. CASE Conclude
  <2>1. delivering # Nothing /\ delivering' = Nothing
    BY <1>4 DEF Conclude
  <2>2. PICK p \in Paths, g \in Nat, d \in Documents \cup {NoDoc} : delivering = <<p, g, d>>
    BY <1>2, <2>1 DEF TypeOK
  <2>3. disk[p] \in {NoDoc, d}
    BY <1>2, <2>1, <2>2 DEF AttemptOnDisk
  <2>4. AttemptGone'
    BY <2>1 DEF AttemptGone, Nothing
  <2>5. IF d = NoDoc THEN MarkMissing(Vault, p) ELSE MarkSent(Vault, p, g, d)
    BY <1>4, <2>2 DEF Conclude
  <2>6. CASE d = NoDoc
    <3>1. /\ ~ Rows'[p].present /\ disk[p] = NoDoc
          /\ \A q \in Paths \ {p} : Rows'[q] = Rows[q]
      BY <1>2, <2>3, <2>5, <2>6, MissingRows, MissingKeeps
    <3> QED
      BY <1>1, <2>4, <3>1, PathSets, StillFollowing
  <2>7. CASE d # NoDoc
    <3>1. /\ \A q \in Paths \ {p} : Rows'[q] = Rows[q]
          /\ Rows'[p] = IF AcceptsSent(Rows[p], g) THEN Sent(Rows[p], d) ELSE Rows[p]
      BY <1>2, <2>5, <2>7, SentRows
    <3>2. Sent(Rows[p], d).present = Rows[p].present
      BY <1>2 DEF Sent, Row
    <3>3. Rows'[p].present = Rows[p].present
      BY <3>1, <3>2
    <3>4. \/ Rows'[p] = Rows[p]
          \/ Rows[p].present /\ disk[p] = NoDoc => Departs(p)
      BY <1>2, <2>2, <2>7, <3>1 DEF AcceptsSent, AttemptGone
    <3>5. \A r \in Paths : Rows[r].present <=> Rows'[r].present
      BY <3>1, <3>3
    <3>6. \A r \in Paths : Rows'[r].present /\ disk[r] = NoDoc =>
             Rows'[r].status = Rows[r].status \/ Departs(r)
      BY <3>1, <3>3, <3>4
    <3> QED
      BY <1>1, <2>4, <3>5, <3>6, PathSets, StillFollowing
  <2> QED
    BY <2>6, <2>7
<1> QED
  BY <1>3, <1>4 DEF Delivery

\* Every step keeps the invariant of the rows.
LEMMA RowsInvKept == ASSUME Unhurried PROVE RowsInv /\ [Next]_vars => RowsInv'
<1> SUFFICES ASSUME RowsInv, [Next]_vars PROVE RowsInv'
  OBVIOUS
<1>1. OnceInv'
  BY OnceInvKept DEF RowsInv, Unhurried
<1>2. CASE Clock \/ UNCHANGED vars
  <2>1. /\ UNCHANGED <<vaults, documents, disk, service, watching, events, awaiting, observing,
                       forgotten, scan, delivering, baseline>>
    BY <1>2 DEF Clock, Tick, vars, storeVars, diskVars, watchVars, deliveryVars
  <2>2. /\ UNCHANGED Rows
        /\ \A r : Departs(r)' <=> Departs(r)
    BY <2>1 DEF Rows, ScanDue, Departs, Departing, Leaving, MoveQueued, InQueue
  <2>3. AttemptGone'
    BY <2>1, <2>2, AttemptGoesOn
  <2>4. Following'
    BY <2>1, <2>2, <2>3, StillFollowing
  <2> QED
    BY <1>1, <2>4 DEF RowsInv
<1>3. CASE Next /\ ~ Clock /\ ~ Rest
  BY <1>1, <1>3, UsersFollow, ObserverFollows, DispatcherFollows, RestartFollows, ReadFollows,
     ScanFollows, DeliveryFollows DEF RowsInv, Next, Main
<1> QED
  BY <1>2, <1>3 DEF Rest

\* It holds of an empty vault nobody watches.
LEMMA InitRows == Init => RowsInv
<1> SUFFICES ASSUME Init PROVE RowsInv
  OBVIOUS
<1>1. /\ service = "down" /\ scan.phase = "none" /\ delivering = Nothing
      /\ \A p \in Paths : disk[p] = NoDoc
  BY DEF Init, NoScan
<1>2. Following
  BY <1>1, PathSets
     DEF Following, Watched, BaselineRead, Seen, Gone, GoneAt, Departs, ScanDue, AttemptGone, Nothing
<1> QED
  BY <1>2, InitOnce DEF RowsInv

\* When everything is handled, a row is that of a file, and a file that is no draft
\* has a row.
LEMMA QuietRows ==
  ASSUME RowsInv, Quiescent
  PROVE  /\ \A p \in Paths : Rows[p].present => disk[p] # NoDoc /\ SettledAt(p)
         /\ \A p \in Scannable \ forgotten : disk[p] # NoDoc => Rows[p].present
         /\ \A e : ~ InQueue(e)
<1>1. Seen /\ Gone /\ \A p \in Paths : GoodRow(Rows[p])
  BY RowsInvSays
<1>2. /\ ~ ScanDue /\ scan.phase = "none" /\ awaiting = {}
      /\ \A e : ~ InQueue(e)
  BY NoEvents DEF Quiescent, ScanDue, NoScan
<1>3. \A p : ~ Departs(p) /\ ~ Changing(p) /\ ~ Arriving(p) /\ ~ Scanned(p)
  BY <1>2 DEF Departs, Departing, Leaving, MoveQueued, Changing, Arriving, Scanned
<1>4. \A p \in Paths : observing # p
  BY NothingAssumption DEF Quiescent
<1>5. \A p \in Paths : Rows[p].present => Rows[p].status # "pending"
  BY DEF Quiescent, Pending, Deliverable
<1>6. \A p \in Paths : Rows[p].present => SettledAt(p)
  BY <1>1, <1>5 DEF GoodRow, SettledAt, Row, Statuses
<1>7. \A p \in Paths : Rows[p].present => disk[p] # NoDoc
  BY <1>1, <1>3, <1>5 DEF Gone, GoneAt
<1>8. \A p \in Scannable \ forgotten : disk[p] # NoDoc => Rows[p].present
  BY <1>1, <1>2, <1>3, <1>4, PathSets DEF Seen, SeenAt
<1> QED
  BY <1>2, <1>6, <1>7, <1>8

\* The rows agree with the disk whenever everything is handled, whatever users did
\* while events were queued, a callback ran, a scan or a POST was under way, so that
\* later deletions, recreations and renames are told apart from what is already known.
THEOREM VaultRowsMatchFiles ==
  ASSUME Unhurried PROVE Spec => []RowsMatchFiles
<1>1. RowsInv => RowsMatchFiles
  BY QuietRows DEF RowsMatchFiles
<1> QED
  BY <1>1, InitRows, RowsInvKept, PTL DEF Spec

-----------------------------------------------------------------------------
(* No document is missed.                                                   *)

\* A file that is there again after a deletion is observed before it is renamed.
\* TLC finds a document that is never announced otherwise.
Attentive == Unhurried /\ "recreated" \notin Overlaps

\* The converse of KnownSettled: the settled row of a file is that of a known
\* document, unless the deletion of the one before is queued.
SettledKnown ==
    \A p \in Eligible :
        Rows[p].present /\ SettledAt(p) /\ disk[p] # NoDoc => KnownAt(p) \/ Leaving(p)

\* So it is when it has yet to follow its file, and what is delivered is counted.
MovesKnown == \A p, q \in Paths : MoveQueued(p, q) /\ SettledAt(p) => KnownAt(q)
AttemptCounted == \A p, g, d : delivering = <<p, g, d>> /\ d \in Documents => posts[d] > 0

Knowing == SettledKnown /\ MovesKnown /\ AttemptCounted

KnownInv == RowsInv /\ Knowing

\* What the parts of the invariant say together.
LEMMA KnownInvSays ==
  ASSUME KnownInv
  PROVE  /\ SettledKnown /\ MovesKnown /\ AttemptCounted
         /\ BaselineRead /\ MovesLast /\ DeletedFirst
         /\ NewVault /\ MoveWaits /\ AttemptOnDisk /\ Control
         /\ TypeOK /\ StoreInv /\ events \in Seq(Event)
         /\ \A p \in Outside : Rows[p] = NoRow
         /\ \A p \in Paths : Rows[p] \in Row /\ GoodRow(Rows[p])
         /\ disk \in [Paths -> Documents \cup {NoDoc}] /\ posts \in [Documents -> Nat]
         /\ RowsInv /\ OnceInv
BY RowsInvSays, DiskTypes DEF KnownInv, Knowing, RowsInv

\* A settled row is one that exists.
LEMMA SettledRow ==
  ASSUME NEW p \in Paths, GoodRow(Rows[p]), SettledAt(p)
  PROVE  Rows[p] # NoRow /\ Rows[p].generation # 0
BY DEF SettledAt, GoodRow, NoRow

\* What the program does elsewhere keeps what is known; rows that stay present and
\* settled are as before, or those of documents that are counted.
LEMMA StillKnowing ==
  ASSUME KnownInv, UNCHANGED disk,
         \A p \in Paths : KnownAt(p) => KnownAt(p)',
         \A p \in Eligible : Rows'[p].present /\ SettledAt(p)' /\ disk[p] # NoDoc =>
            (Rows[p].present /\ SettledAt(p)) \/ KnownAt(p)',
         \A p \in Eligible : disk[p] # NoDoc /\ Leaving(p) /\ Rows'[p].present => Leaving(p)',
         \A p, q \in Paths : MoveQueued(p, q)' => MoveQueued(p, q) /\ (SettledAt(p)' => SettledAt(p)),
         AttemptCounted'
  PROVE  Knowing'
<1>1. SettledKnown /\ MovesKnown
  BY KnownInvSays
<1>2. SettledKnown'
  <2> SUFFICES ASSUME NEW p \in Eligible, Rows'[p].present, SettledAt(p)', disk[p] # NoDoc
               PROVE  KnownAt(p)' \/ Leaving(p)'
    BY DEF SettledKnown
  <2>1. (Rows[p].present /\ SettledAt(p)) \/ KnownAt(p)'
    OBVIOUS
  <2>2. Rows[p].present /\ SettledAt(p) => KnownAt(p) \/ Leaving(p)
    BY <1>1 DEF SettledKnown
  <2> QED
    BY <2>1, <2>2, PathSets
<1>3. MovesKnown'
  BY <1>1 DEF MovesKnown
<1> QED
  BY <1>2, <1>3 DEF Knowing

\* Users put new documents where the program knows none, or where the queue tells it
\* that the one it knows has gone, and rename what has been observed.
LEMMA UsersKnow == ASSUME Attentive, KnownInv, Users PROVE Knowing'
<1>0. UNCHANGED <<vaults, documents, watching, delivering, posts, baseline>>
  BY DEF Users, Create, Modify, Delete, Rename, Edit, storeVars, deliveryVars
<1>1. /\ SettledKnown /\ MovesKnown /\ AttemptCounted
      /\ TypeOK /\ events \in Seq(Event)
      /\ disk \in [Paths -> Documents \cup {NoDoc}]
      /\ \A p \in Outside : Rows[p] = NoRow
      /\ \A p \in Paths : GoodRow(Rows[p])
  BY KnownInvSays
<1>2. /\ AttemptCounted' /\ Rows' = Rows
      /\ \A p : SettledAt(p)' <=> SettledAt(p)
  BY <1>0, <1>1 DEF AttemptCounted, Rows, SettledAt
<1>3. ASSUME NEW e \in Event, Emit(e),
             \A p \in Paths : disk'[p] = disk[p] \/ disk'[p] = NoDoc \/ (Rows[p].present => Leaving(p)),
             \A p, q \in Paths : MoveQueued(p, q) => disk'[q] = disk[q],
             \A p, q \in Paths : e = <<"moved", p, q>> /\ SettledAt(p) => KnownAt(q)'
      PROVE  Knowing'
  <2>1. \A f : InQueue(f)' <=> InQueue(f) \/ (watching /\ f = e)
    BY <1>1, <1>3, Emitted
  <2>2. /\ \A p : Leaving(p) => Leaving(p)'
        /\ \A p, q : MoveQueued(p, q)' => MoveQueued(p, q) \/ e = <<"moved", p, q>>
    BY <2>1 DEF Leaving, MoveQueued
  <2>3. SettledKnown'
    <3> SUFFICES ASSUME NEW p \in Eligible, Rows[p].present, SettledAt(p), disk'[p] # NoDoc
                 PROVE  KnownAt(p)' \/ Leaving(p)'
      BY <1>2 DEF SettledKnown
    <3>1. CASE disk'[p] = disk[p]
      BY <1>0, <1>1, <2>2, <3>1 DEF SettledKnown, KnownAt
    <3>2. CASE Leaving(p)
      BY <2>2, <3>2
    <3> QED
      BY <1>3, <3>1, <3>2, PathSets
  <2>4. MovesKnown'
    <3> SUFFICES ASSUME NEW p \in Paths, NEW q \in Paths, MoveQueued(p, q)', SettledAt(p)
                 PROVE  KnownAt(q)'
      BY <1>2 DEF MovesKnown
    <3>1. CASE MoveQueued(p, q)
      BY <1>0, <1>1, <1>3, <3>1 DEF MovesKnown, KnownAt
    <3> QED
      BY <1>3, <2>2, <3>1
  <2> QED
    BY <1>2, <2>3, <2>4 DEF Knowing
<1>4. ASSUME NEW p \in Paths, Create(p) \/ Modify(p) \/ Delete(p) PROVE Knowing'
  <2>1. /\ ~ Moving(p)
        /\ \/ Emit(<<"changed", p>>) \/ Emit(<<"deleted", p>>)
        /\ \A q \in Paths \ {p} : disk'[q] = disk[q]
        /\ disk'[p] = disk[p] \/ disk'[p] = NoDoc \/ (Rows[p].present => Queued(p))
    <3>1. CASE Create(p)
      BY <1>1, <3>1 DEF Create, Still, Attentive, Unhurried, Patient, Uncrossed
    <3>2. CASE Modify(p)
      BY <1>1, <3>2 DEF Modify, Still, Attentive, Unhurried, Patient, Uncrossed
    <3>3. CASE Delete(p)
      BY <1>1, <3>3 DEF Delete, Still, Attentive, Unhurried, Patient, Uncrossed
    <3> QED
      BY <1>4, <3>1, <3>2, <3>3
  <2>2. /\ Queued(p) => Leaving(p)
        /\ \A x \in Paths : ~ MoveQueued(x, p)
    BY <1>1, <2>1, QueueSays DEF Arriving
  <2>3. /\ <<"changed", p>> \in Event /\ <<"deleted", p>> \in Event
        /\ \A x, y : <<"changed", p>> # <<"moved", x, y>> /\ <<"deleted", p>> # <<"moved", x, y>>
    BY DEF Event
  <2>4. \A q \in Paths : disk'[q] = disk[q] \/ disk'[q] = NoDoc \/ (Rows[q].present => Leaving(q))
    BY <2>1, <2>2
  <2>5. \A x, y \in Paths : MoveQueued(x, y) => disk'[y] = disk[y]
    BY <2>1, <2>2
  <2> QED
    BY <1>3, <2>1, <2>3, <2>4, <2>5
<1>5. ASSUME NEW p \in Paths, NEW q \in Paths, Rename(p, q) , <<p, q>> \in Renames PROVE Knowing'
  <2>1. /\ p # q /\ disk[p] # NoDoc /\ disk'[p] = NoDoc /\ disk'[q] = disk[p]
        /\ \A r \in Paths \ {p, q} : disk'[r] = disk[r]
        /\ ~ Moving(p) /\ ~ Moving(q) /\ Emit(<<"moved", p, q>>)
        /\ Rows[q].present => Queued(q)
        /\ (Rows[p].present /\ ~ Queued(p)) \/ Rows[p].generation = 0
    BY <1>1, <1>5 DEF Rename, Still, Attentive, Unhurried, Patient, Uncrossed
  <2>2. /\ Queued(q) => Leaving(q)
        /\ Leaving(p) => Queued(p)
        /\ \A x \in Paths : ~ MoveQueued(x, p) /\ ~ MoveQueued(x, q)
    BY <1>1, <2>1, QueueSays DEF Arriving
  <2>3. <<"moved", p, q>> \in Event
    BY <1>5, <2>1 DEF Event, Moves
  <2>4. SettledAt(p) => KnownAt(q)'
    <3>1. SettledAt(p) => p \in Eligible /\ Rows[p].present /\ ~ Leaving(p)
      BY <1>1, <2>1, <2>2, SettledRow DEF Eligible
    <3>2. SettledAt(p) => KnownAt(p)
      BY <1>1, <2>1, <3>1 DEF SettledKnown
    <3> QED
      BY <1>0, <2>1, <3>2 DEF KnownAt
  <2>5. \A x, y \in Paths : <<"moved", p, q>> = <<"moved", x, y>> /\ SettledAt(x) => KnownAt(y)'
    BY <2>4
  <2>6. \A r \in Paths : disk'[r] = disk[r] \/ disk'[r] = NoDoc \/ (Rows[r].present => Leaving(r))
    BY <2>1, <2>2
  <2>7. \A x, y \in Paths : MoveQueued(x, y) => disk'[y] = disk[y]
    BY <2>1, <2>2
  <2> QED
    BY <1>3, <2>1, <2>3, <2>5, <2>6, <2>7
<1>6. ASSUME NEW move \in Renames, Rename(move[1], move[2]) PROVE Knowing'
  <2>1. PICK p \in Paths, q \in Paths : move = <<p, q>>
    BY OneVault
  <2> QED
    BY <1>5, <1>6, <2>1
<1> QED
  BY <1>4, <1>6 DEF Users

\* A deletion settles no row, and a rename carries the row of a known document.
LEMMA ObserverKnows == ASSUME KnownInv, Observer PROVE Knowing'
<1>0. PICK kind \in {"changed", "deleted", "moved"} : NextEvent(kind)
  BY DEF Observer, OnCreated, OnDeleted, OnMoved
<1>1. UNCHANGED <<disk, delivering, posts, baseline>>
  BY <1>0 DEF NextEvent, diskVars, deliveryVars
<1>2. /\ SettledKnown /\ MovesKnown /\ AttemptCounted /\ MoveWaits /\ MovesLast
      /\ StoreInv /\ events \in Seq(Event)
      /\ \A r \in Outside : Rows[r] = NoRow
      /\ \A r \in Paths : Rows[r] \in Row /\ GoodRow(Rows[r])
  BY KnownInvSays
<1>3. PICK e \in Event : e = Head(events)
  BY <1>0, <1>2, HandledEvent
<1>4. /\ \A f : InQueue(f)' => InQueue(f)
      /\ \A f : InQueue(f) => f = e \/ InQueue(f)'
      /\ InQueue(e)
  BY <1>0, <1>2, <1>3, Handled
<1>5. /\ \A p : KnownAt(p)' <=> KnownAt(p)
      /\ AttemptCounted'
      /\ \A p : Leaving(p) => Leaving(p)' \/ e = <<"deleted", p>>
      /\ \A p, q : MoveQueued(p, q)' => MoveQueued(p, q)
  BY <1>1, <1>2, <1>4 DEF KnownAt, AttemptCounted, Leaving, MoveQueued
<1>6. CASE OnCreated
  <2>1. Rows' = Rows /\ e[1] = "changed"
    BY <1>3, <1>6 DEF OnCreated, NextEvent, storeVars, Rows
  <2>2. \A p : e # <<"deleted", p>>
    BY <2>1
  <2> QED
    BY <1>1, <1>5, <2>1, <2>2, StillKnowing DEF SettledAt
<1>7. CASE OnDeleted
  <2>1. /\ e[1] = "deleted"
        /\ IF e[2] \in Eligible THEN MarkMissing(Vault, e[2]) ELSE UNCHANGED storeVars
    BY <1>3, <1>7 DEF OnDeleted, NextEvent
  <2>2. PICK p \in Paths : p = e[2]
    BY EventShape
  <2>3. /\ p \in Eligible => ~ Rows'[p].present
        /\ Rows'[p].status = Rows[p].status
        /\ \A q \in Paths \ {p} : Rows'[q] = Rows[q]
    <3>1. CASE p \in Eligible
      BY <1>2, <2>1, <2>2, <3>1, MissingRows, MissingKeeps
    <3>2. CASE p \notin Eligible
      BY <2>1, <2>2, <3>2 DEF storeVars, Rows
    <3> QED
      BY <3>1, <3>2
  <2>4. \A q : e = <<"deleted", q>> => q = p
    BY <2>2
  <2>5. \A q \in Paths : SettledAt(q)' <=> SettledAt(q)
    BY <2>3 DEF SettledAt
  <2>6. \A q \in Eligible : Rows'[q].present => q # p /\ Rows[q].present
    BY <2>3, PathSets
  <2>7. \A q \in Eligible : Leaving(q) /\ Rows'[q].present => Leaving(q)'
    BY <1>5, <2>4, <2>6
  <2> QED
    BY <1>1, <1>5, <2>5, <2>6, <2>7, PathSets, StillKnowing
<1>8. CASE OnMoved
  <2>1. /\ e[1] = "moved" /\ Moved(e[2], e[3]) /\ NextEvent("moved")
    BY <1>3, <1>8 DEF OnMoved, NextEvent
  <2>2. PICK p \in Paths, q \in Paths : p = e[2] /\ q = e[3] /\ p # q
    BY <2>1, EventShape
  <2>3. e = <<"moved", p, q>> /\ MoveQueued(p, q)
    <3>1. e = <<"moved", p, q>>
      BY <2>1, <2>2 DEF Event, Moves
    <3> QED
      BY <1>4, <3>1 DEF MoveQueued
  <2>4. disk[p] = NoDoc /\ disk[q] # NoDoc
    BY <1>2, <2>3 DEF MoveWaits, Crossing
  <2>5. /\ \A r \in Paths \ {p, q} : Rows'[r] = Rows[r]
        /\ \/ Rows'[q] = Rows[q]
           \/ SettledAt(q)' => SettledAt(p)
    <3>0. Moved(p, q) /\ GoodRow(Rows[p])
      BY <1>2, <2>1, <2>2
    <3>1. CASE p \in Eligible /\ q \in Eligible
      <4>1. MovePath(Vault, p, q)
        BY <2>4, <3>0, <3>1 DEF Moved, Eligible
      <4>2. /\ \A r \in Paths \ {p, q} : Rows'[r] = Rows[r]
            /\ IF Exists(Rows[p])
               THEN Rows'[p] = NoRow /\ Rows'[q] = [Rows[p] EXCEPT !.present = TRUE]
               ELSE Rows'[p] = Rows[p] /\ Rows'[q] = Rows[q]
        BY <1>2, <2>2, <4>1, MovedRows
      <4>3. [Rows[p] EXCEPT !.present = TRUE].status = Rows[p].status
        BY <1>2 DEF Row
      <4> QED
        BY <4>2, <4>3 DEF SettledAt
    <3>2. CASE p \in Eligible /\ q \in Outside
      <4>1. MarkMissing(Vault, p)
        BY <3>0, <3>2 DEF Moved, Eligible
      <4> QED
        BY <1>2, <2>2, <4>1, MissingRows
    <3>3. CASE p \in Outside
      <4>1. UNCHANGED storeVars
        BY <3>0, <3>3 DEF Moved, Eligible
      <4> QED
        BY <4>1 DEF storeVars, Rows
    <3> QED
      BY <3>1, <3>2, <3>3 DEF Eligible
  <2>6. \A x, y \in Paths : MoveQueued(x, y)' => x \in Paths \ {p, q}
    <3> SUFFICES ASSUME NEW x \in Paths, NEW y \in Paths, MoveQueued(x, y)' PROVE x # p /\ x # q
      OBVIOUS
    <3>1. InQueue(<<"moved", x, y>>)'
      BY DEF MoveQueued
    <3>2. Concerns(Head(events), p) /\ Concerns(Head(events), q)
      BY <1>3, <2>3 DEF Concerns
    <3>3. ~ Concerns(<<"moved", x, y>>, p) /\ ~ Concerns(<<"moved", x, y>>, q)
      BY <1>2, <2>1, <3>1, <3>2, MoveAlone
    <3> QED
      BY <3>3 DEF Concerns
  <2>7. \A r : e # <<"deleted", r>>
    BY <2>1
  <2>8. \A r \in Eligible : Rows'[r].present /\ SettledAt(r)' /\ disk[r] # NoDoc =>
           (Rows[r].present /\ SettledAt(r)) \/ KnownAt(r)
    <3> SUFFICES ASSUME NEW r \in Eligible, Rows'[r].present, SettledAt(r)', disk[r] # NoDoc
                 PROVE  (Rows[r].present /\ SettledAt(r)) \/ KnownAt(r)
      OBVIOUS
    <3>1. r # p /\ r \in Paths
      BY <2>4, PathSets
    <3>2. CASE Rows'[r] = Rows[r]
      BY <3>2 DEF SettledAt
    <3>3. CASE r = q /\ SettledAt(p)
      BY <1>2, <2>3, <3>3 DEF MovesKnown
    <3> QED
      BY <2>5, <3>1, <3>2, <3>3
  <2>9. \A x, y \in Paths : MoveQueued(x, y)' => MoveQueued(x, y) /\ (SettledAt(x)' => SettledAt(x))
    BY <1>5, <2>5, <2>6 DEF SettledAt
  <2> QED
    BY <1>1, <1>5, <2>7, <2>8, <2>9, StillKnowing
<1> QED
  BY <1>6, <1>7, <1>8 DEF Observer

\* The dispatcher settles no row.
LEMMA DispatcherKnows == ASSUME KnownInv, Dispatcher \/ ObserveRaises PROVE Knowing'
<1>1. UNCHANGED <<disk, events, delivering, posts, baseline>>
  BY DEF Dispatcher, Observe, ObserveRaises, DispatchGone, Dispatch, Take, diskVars, deliveryVars
<1>2. AttemptCounted /\ StoreInv /\ TypeOK
  BY KnownInvSays
<1>3. /\ \A p : KnownAt(p)' <=> KnownAt(p)
      /\ \A p : Leaving(p)' <=> Leaving(p)
      /\ \A p, q : MoveQueued(p, q)' <=> MoveQueued(p, q)
      /\ AttemptCounted'
  BY <1>1, <1>2 DEF KnownAt, Leaving, MoveQueued, InQueue, AttemptCounted
<1>4. \A p \in Paths : Rows'[p] = Rows[p] \/ Rows'[p].status = "pending"
  <2>1. ASSUME NEW p \in Paths, DispatchGone(p) \/ Dispatch(p) PROVE Rows' = Rows
    BY <2>1 DEF DispatchGone, Dispatch, Take, storeVars, Rows
  <2>2. CASE ObserveRaises
    BY <2>2 DEF ObserveRaises, storeVars, Rows
  <2>3. CASE Observe
    <3>1. PICK o \in Scannable : o = observing
      BY <1>2, <2>3 DEF Observe, TypeOK
    <3>2. /\ Rows'[o] = Observed(Rows[o], now)
          /\ \A q \in Paths \ {o} : Rows'[q] = Rows[q]
      BY <1>2, <2>3, <3>1, ObservedRows, PathSets DEF Observe
    <3> QED
      BY <3>2 DEF Observed, Fresh
  <2> QED
    BY <2>1, <2>2, <2>3 DEF Dispatcher
<1>5. \A p \in Paths : SettledAt(p)' => Rows'[p] = Rows[p]
  BY <1>4 DEF SettledAt
<1>6. \A p \in Paths : SettledAt(p)' => SettledAt(p)
  BY <1>5 DEF SettledAt
<1> QED
  BY <1>1, <1>3, <1>5, <1>6, PathSets, StillKnowing

\* What is lost with a queue tells of no file that is there again.
LEMMA RestartKnows ==
  ASSUME KnownInv, Start \/ StartWorker \/ WatcherDies \/ ReplaceWatcher \/ Crash PROVE Knowing'
<1>1. /\ UNCHANGED <<disk, delivering, posts, baseline>>
      /\ \A p \in Paths : Rows'[p] = Rows[p]
  BY KnownInvSays, Restarted
<1>2. AttemptCounted /\ Control
  BY KnownInvSays
<1>3. /\ \A p : KnownAt(p)' <=> KnownAt(p)
      /\ \A p \in Paths : SettledAt(p)' <=> SettledAt(p)
      /\ AttemptCounted'
  BY <1>1, <1>2 DEF KnownAt, SettledAt, AttemptCounted
<1>4. \A e : InQueue(e)' => InQueue(e)
  <2>1. events' = events \/ events' = <<>>
    BY <1>2 DEF Start, StartWorker, ReplaceWatcher, WatcherDies, Crash, watchVars, Control
  <2> QED
    BY <2>1 DEF InQueue
<1>5. \A p \in Paths : disk[p] # NoDoc /\ Leaving(p) => Leaving(p)'
  <2>1. CASE WatcherDies \/ Crash
    <3>1. QueueExpendable
      BY <2>1 DEF WatcherDies, Crash
    <3> QED
      BY <3>1 DEF QueueExpendable, Leaving, InQueue
  <2>2. CASE Start \/ StartWorker \/ ReplaceWatcher
    <3>1. events' = events
      BY <1>2, <2>2 DEF Start, StartWorker, ReplaceWatcher, watchVars, Control
    <3> QED
      BY <3>1 DEF Leaving, InQueue
  <2> QED
    BY <2>1, <2>2
<1> QED
  BY <1>1, <1>3, <1>4, <1>5, PathSets, StillKnowing DEF MoveQueued

\* Reading the directory settles no row, and a new vault has none.
LEMMA ReadKnows == ASSUME KnownInv, ReadDirectory PROVE Knowing'
<1>1. /\ UNCHANGED <<vaults, documents, disk, events, delivering, posts>>
      /\ scan.phase = "read"
  BY DEF ReadDirectory, storeVars, diskVars, watchVars, deliveryVars
<1>2. /\ SettledKnown /\ MovesKnown /\ AttemptCounted /\ MoveWaits /\ StoreInv
  BY KnownInvSays
<1>3. Vault \in vaults => baseline' = baseline
  BY DEF ReadDirectory
<1>4. AttemptCounted' /\ Rows' = Rows
  BY <1>1, <1>2 DEF AttemptCounted, Rows
<1>5. MovesKnown'
  <2>1. \A x, y \in Paths : ~ MoveQueued(x, y)
    BY <1>1, <1>2, NoMoveInScan
  <2> QED
    BY <1>1, <2>1 DEF MovesKnown, MoveQueued, InQueue
<1>6. SettledKnown'
  <2>1. CASE Vault \in vaults
    BY <1>1, <1>2, <1>3, <1>4, <2>1 DEF SettledKnown, SettledAt, KnownAt, Leaving, InQueue
  <2>2. CASE Vault \notin vaults
    BY <1>2, <1>4, <2>2, RowFacts, PathSets DEF SettledKnown, SettledAt
  <2> QED
    BY <2>1, <2>2
<1> QED
  BY <1>4, <1>5, <1>6 DEF Knowing

\* A scan settles the rows of the baseline only.
LEMMA ScanKnows == ASSUME KnownInv, FinishScan PROVE Knowing'
<1>1. /\ UNCHANGED <<disk, events, delivering, posts, baseline>>
      /\ scan.phase = "reconcile"
  BY DEF FinishScan, diskVars, deliveryVars
<1>2. /\ BaselineRead /\ AttemptCounted /\ MoveWaits /\ StoreInv /\ TypeOK
      /\ \A r \in Paths : Rows[r] \in Row /\ GoodRow(Rows[r])
  BY KnownInvSays
<1>3. PICK at \in Nat : Reconcile(Vault, scan.found, at)
  <2>1. scan.since + Quiet \in Nat
    BY <1>2, OneVault DEF TypeOK
  <2> QED
    BY <2>1 DEF FinishScan
<1>4. \A p \in Paths : Rows'[p] = IF Vault \in vaults THEN Reconciled(Rows[p], p \in scan.found, at)
                                  ELSE IF p \in scan.found THEN BaselineRow ELSE Rows[p]
  BY <1>2, <1>3, ScannedRows
<1>5. /\ \A p : KnownAt(p)' <=> KnownAt(p)
      /\ \A p : Leaving(p)' <=> Leaving(p)
      /\ \A p, q : MoveQueued(p, q)' <=> MoveQueued(p, q)
      /\ AttemptCounted'
  BY <1>1, <1>2 DEF KnownAt, Leaving, MoveQueued, InQueue, AttemptCounted
<1>6. \A x, y \in Paths : ~ MoveQueued(x, y)
  BY <1>1, <1>2, NoMoveInScan
<1>7. ASSUME NEW p \in Paths, Rows'[p].present, SettledAt(p)', disk[p] # NoDoc
      PROVE  (Rows[p].present /\ SettledAt(p)) \/ KnownAt(p)
  <2>1. CASE Vault \in vaults
    <3>1. ~ Missing(Rows[p]).present
      BY <1>2, MissingKeeps
    <3>2. Fresh(Rows[p], at).status = "pending"
      BY DEF Fresh
    <3>3. Rows'[p] = Rows[p]
      BY <1>4, <1>7, <2>1, <3>1, <3>2 DEF Reconciled, Observed, SettledAt
    <3> QED
      BY <1>7, <3>3 DEF SettledAt
  <2>2. CASE Vault \notin vaults
    <3>1. p \in scan.found
      BY <1>2, <1>4, <1>7, <2>2, RowFacts DEF SettledAt
    <3> QED
      BY <1>1, <1>2, <1>7, <2>2, <3>1 DEF BaselineRead, KnownAt
  <2> QED
    BY <2>1, <2>2
<1> QED
  BY <1>1, <1>5, <1>6, <1>7, PathSets, StillKnowing

\* An attempt is counted before its row is settled.
LEMMA DeliveryKnows == ASSUME KnownInv, Delivery PROVE Knowing'
<1>1. UNCHANGED <<disk, events, baseline>>
  BY DEF Delivery, Attempt, Conclude, diskVars, watchVars
<1>2. /\ AttemptCounted /\ AttemptOnDisk /\ MoveWaits /\ StoreInv /\ TypeOK
      /\ \A r \in Paths : Rows[r] \in Row
      /\ disk \in [Paths -> Documents \cup {NoDoc}] /\ posts \in [Documents -> Nat]
  BY KnownInvSays
<1>3. /\ \A p : Leaving(p)' <=> Leaving(p)
      /\ \A p, q : MoveQueued(p, q)' <=> MoveQueued(p, q)
  BY <1>1 DEF Leaving, MoveQueued, InQueue
<1>4. ASSUME NEW p \in Paths, Attempt(p) PROVE Knowing'
  <2>1. /\ delivering' = <<p, Rows[p].generation, disk[p]>> /\ Rows' = Rows
        /\ posts' = [d \in Documents |-> IF d = disk[p] THEN posts[d] + 1 ELSE posts[d]]
    BY <1>4 DEF Attempt, storeVars, Rows
  <2>2. \A d \in Documents : (posts[d] > 0 => posts'[d] > 0) /\ (d = disk[p] => posts'[d] > 0)
    <3> SUFFICES ASSUME NEW d \in Documents
                 PROVE  (posts[d] > 0 => posts'[d] > 0) /\ (d = disk[p] => posts'[d] > 0)
      OBVIOUS
    <3>1. posts[d] \in Nat /\ posts'[d] = IF d = disk[p] THEN posts[d] + 1 ELSE posts[d]
      BY <1>2, <2>1
    <3>2. posts[d] + 1 > 0
      BY <3>1
    <3> QED
      BY <3>1, <3>2
  <2>3. AttemptCounted'
    <3> SUFFICES ASSUME NEW r, NEW g, NEW d \in Documents, delivering' = <<r, g, d>> PROVE posts'[d] > 0
      BY DEF AttemptCounted
    <3>1. d = disk[p]
      BY <2>1
    <3> QED
      BY <2>2, <3>1
  <2>4. \A r \in Paths : KnownAt(r) => KnownAt(r)'
    BY <1>1, <1>2, <2>2 DEF KnownAt
  <2> QED
    BY <1>1, <1>3, <2>1, <2>3, <2>4, StillKnowing DEF SettledAt
<1>5. CASE Conclude
  <2>1. delivering # Nothing /\ delivering' = Nothing /\ posts' = posts
    BY <1>5 DEF Conclude
  <2>2. PICK p \in Paths, g \in Nat, d \in Documents \cup {NoDoc} : delivering = <<p, g, d>>
    BY <1>2, <2>1 DEF TypeOK
  <2>3. AttemptCounted' /\ \A r : KnownAt(r)' <=> KnownAt(r)
    BY <1>1, <2>1 DEF AttemptCounted, KnownAt, Nothing
  <2>4. IF d = NoDoc THEN MarkMissing(Vault, p) ELSE MarkSent(Vault, p, g, d)
    BY <1>5, <2>2 DEF Conclude
  <2>5. CASE d = NoDoc
    <3>1. /\ ~ Rows'[p].present /\ Rows'[p].status = Rows[p].status
          /\ \A q \in Paths \ {p} : Rows'[q] = Rows[q]
      BY <1>2, <2>4, <2>5, MissingRows, MissingKeeps
    <3>2. \A q \in Paths : SettledAt(q)' <=> SettledAt(q)
      BY <3>1 DEF SettledAt
    <3>3. \A q \in Eligible : Rows'[q].present => Rows[q].present
      BY <3>1, PathSets
    <3> QED
      BY <1>1, <1>3, <2>3, <3>2, <3>3, PathSets, StillKnowing
  <2>6. CASE d # NoDoc
    <3>1. /\ \A q \in Paths \ {p} : Rows'[q] = Rows[q]
          /\ Rows'[p] = Rows[p] \/ Rows'[p] = Sent(Rows[p], d)
      BY <1>2, <2>4, <2>6, SentRows
    <3>2. disk[p] # NoDoc => KnownAt(p)
      <4>1. disk[p] \in {NoDoc, d} /\ posts[d] > 0
        BY <1>2, <2>1, <2>2, <2>6 DEF AttemptOnDisk, AttemptCounted
      <4> QED
        BY <4>1 DEF KnownAt
    <3>3. \A x, y \in Paths : MoveQueued(x, y) => x # p
      <4> SUFFICES ASSUME NEW y \in Paths, MoveQueued(p, y) PROVE FALSE
        OBVIOUS
      <4>1. Attempted(p) /\ delivering[3] = d
        BY <2>1, <2>2 DEF Attempted
      <4> QED
        BY <1>2, <2>6, <4>1 DEF MoveWaits, Crossing
    <3>4. \A q \in Paths \ {p} : SettledAt(q)' <=> SettledAt(q)
      BY <3>1 DEF SettledAt
    <3>5. \A q \in Eligible : Rows'[q].present /\ SettledAt(q)' /\ disk[q] # NoDoc =>
             (Rows[q].present /\ SettledAt(q)) \/ KnownAt(q)'
      BY <2>3, <3>1, <3>2, <3>4, PathSets
    <3>6. \A x, y \in Paths : MoveQueued(x, y)' => MoveQueued(x, y) /\ (SettledAt(x)' => SettledAt(x))
      BY <1>3, <3>3, <3>4
    <3> QED
      BY <1>1, <1>3, <2>3, <3>5, <3>6, PathSets, StillKnowing
  <2> QED
    BY <2>5, <2>6
<1> QED
  BY <1>4, <1>5 DEF Delivery

\* Every step keeps the invariant.
LEMMA KnownInvKept == ASSUME Attentive PROVE KnownInv /\ [Next]_vars => KnownInv'
<1> SUFFICES ASSUME KnownInv, [Next]_vars PROVE KnownInv'
  OBVIOUS
<1>1. RowsInv'
  BY RowsInvKept DEF KnownInv, Attentive
<1>2. CASE Clock \/ UNCHANGED vars
  <2>1. UNCHANGED <<documents, disk, events, delivering, posts, baseline>>
    BY <1>2 DEF Clock, Tick, vars, storeVars, diskVars, watchVars, deliveryVars
  <2>2. SettledKnown /\ MovesKnown /\ AttemptCounted
    BY KnownInvSays
  <2>3. Knowing'
    BY <2>1, <2>2 DEF Knowing, SettledKnown, MovesKnown, AttemptCounted, SettledAt, KnownAt, Leaving,
       MoveQueued, InQueue, Rows
  <2> QED
    BY <1>1, <2>3 DEF KnownInv
<1>3. CASE Next /\ ~ Clock /\ ~ Rest
  BY <1>1, <1>3, UsersKnow, ObserverKnows, DispatcherKnows, RestartKnows, ReadKnows, ScanKnows,
     DeliveryKnows DEF KnownInv, Next, Main
<1> QED
  BY <1>2, <1>3 DEF Rest

\* It holds of an empty vault nobody watches.
LEMMA InitKnown == Init => KnownInv
<1> SUFFICES ASSUME Init PROVE KnownInv
  OBVIOUS
<1>1. Knowing
  BY PathSets DEF Init, Knowing, SettledKnown, MovesKnown, AttemptCounted, MoveQueued, InQueue, Nothing
<1> QED
  BY <1>1, InitRows DEF KnownInv

\* Once everything is handled, every file that is no draft has been announced or
\* belongs to the baseline, unless recording it failed and nothing has happened to
\* it since: whatever users did while events were queued, a callback ran, a scan or a
\* POST was under way, no restart, new watcher, rename or deletion loses a document
\* (service.py:146-217, watcher.py:82-188).
THEOREM VaultMissesNothing ==
  ASSUME Attentive PROVE Spec => []NothingMissed
<1>1. ASSUME KnownInv PROVE NothingMissed
  <2> SUFFICES ASSUME Quiescent, NEW p \in Scannable \ forgotten, disk[p] # NoDoc
               PROVE  Known(disk[p])
    BY DEF NothingMissed
  <2>1. Rows[p].present /\ SettledAt(p) /\ ~ Leaving(p)
    BY <1>1, KnownInvSays, QuietRows, PathSets DEF Leaving
  <2>2. KnownAt(p)
    BY <1>1, <2>1, KnownInvSays, PathSets DEF SettledKnown
  <2> QED
    BY <2>2 DEF KnownAt, Known
<1> QED
  BY <1>1, InitKnown, KnownInvKept, PTL DEF Spec
=============================================================================
