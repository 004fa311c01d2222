-------------------------- MODULE StateStoreProofs --------------------------
(***************************************************************************)
(* Proofs about the store.  Every operation changes each row in one of the *)
(* few ways RowStep lists, so a property of rows is proved once per way    *)
(* (the Good... lemmas) and not once per operation.                        *)
(***************************************************************************)
EXTENDS StateStore, TLAPS

\* What every row satisfies: its type, RowCoherent and BlockedOnlyByFailure.
GoodRow(row) ==
    /\ row \in Row
    /\ row.status = "sent" <=> row.postId # NoPost
    /\ row.nextRetryAt # Never => row.status = "pending"
    /\ row.status = "none" <=> row.generation = 0
    /\ row.status = "none" => ~ row.present
    /\ row.status = "pending" /\ row.nextRetryAt = Never => row.attemptCount > 0

StoreInv ==
    /\ StoreTypeOK
    /\ \A v \in Vaults, p \in Paths : GoodRow(documents[v][p])
    /\ RowsBelongToKnownVaults

\* The ways in which a step changes the row at path p of vault v.
RowStep(v, p) ==
    LET old == documents[v][p]
        new == documents'[v][p]
    IN  \/ new = old
        \/ new = Missing(old)
        \/ \E at \in Nat : new = Observed(old, at)
        \/ v \notin vaults /\ new = BaselineRow
        \/ new = NoRow
        \/ \E q \in Paths : /\ Exists(documents[v][q])
                            /\ new = [documents[v][q] EXCEPT !.present = TRUE]
        \/ \E post \in Posts : old.status = "pending" /\ new = Sent(old, post)
        \/ \E at \in Nat \cup {Never} : old.status = "pending" /\ new = Failed(old, at)
        \/ new = Resumed(old)
        \/ new = Migrated(old)

-----------------------------------------------------------------------------
(* Each way of changing a row keeps it good.                                *)

\* A deleted row is good.
LEMMA GoodNoRow == GoodRow(NoRow)
  BY NullsAssumption DEF GoodRow, NoRow, Row, Statuses

\* The row a baseline scan inserts (state.py:113-130) is good.
LEMMA GoodBaseline == ASSUME now \in Nat PROVE GoodRow(BaselineRow)
  BY NullsAssumption DEF GoodRow, BaselineRow, Row, Statuses

\* An observation, whether it inserts, regenerates or only looks (state.py:152-188,
\* 211-246), leaves a good row good.
LEMMA GoodObserved ==
  ASSUME now \in Nat, NEW row, GoodRow(row), NEW at \in Nat
  PROVE  GoodRow(Observed(row, at))
  BY NullsAssumption DEF GoodRow, Observed, Fresh, Row, Statuses

\* Marking a row absent (state.py:253-256) leaves it good.
LEMMA GoodMissing ==
  ASSUME NEW row, GoodRow(row) PROVE GoodRow(Missing(row))
  BY DEF GoodRow, Missing, Row, Statuses

\* A row that took another path (state.py:282-295) is as good as it was.
LEMMA GoodMoved ==
  ASSUME NEW row, GoodRow(row), Exists(row)
  PROVE  GoodRow([row EXCEPT !.present = TRUE])
  BY DEF GoodRow, Exists, Row, Statuses

\* Completing a pending row (state.py:312-316) clears its schedule and stays good.
LEMMA GoodSent ==
  ASSUME NEW row, GoodRow(row), row.status = "pending", NEW post \in Posts
  PROVE  GoodRow(Sent(row, post))
  BY NullsAssumption DEF GoodRow, Sent, Row, Statuses

\* A recorded failure, scheduled again or not (state.py:348-352), leaves a row good:
\* the attempt count it raises is what excuses a missing retry time.
LEMMA GoodFailed ==
  ASSUME NEW row, GoodRow(row), row.status = "pending", NEW at \in Nat \cup {Never}
  PROVE  GoodRow(Failed(row, at))
<1>1. row \in Row /\ row.attemptCount \in Nat
  BY DEF GoodRow, Row
<1>2. row.attemptCount + 1 \in Nat /\ row.attemptCount + 1 > 0
  BY <1>1
<1>3. Failed(row, at) \in Row
  BY <1>1, <1>2 DEF Failed, Row
<1> QED
  BY <1>1, <1>2, <1>3 DEF GoodRow, Failed, Row

\* resume_pending (state.py:372-374) leaves a row good.
LEMMA GoodResumed ==
  ASSUME now \in Nat, NEW row, GoodRow(row) PROVE GoodRow(Resumed(row))
  BY NullsAssumption DEF GoodRow, Resumed, Deliverable, Row, Statuses

\* The migration at opening (state.py:464-465) leaves a row good.
LEMMA GoodMigrated ==
  ASSUME NEW row, GoodRow(row) PROVE GoodRow(Migrated(row))
  BY NullsAssumption DEF GoodRow, Migrated, Row, Statuses

\* Whichever way a step changes a row, the row stays good.
LEMMA RowStepKeepsGood ==
  ASSUME StoreInv, NEW v \in Vaults, NEW p \in Paths, RowStep(v, p)
  PROVE  GoodRow(documents'[v][p])
<1> DEFINE old == documents[v][p]
<1>1. now \in Nat /\ GoodRow(old) /\ \A q \in Paths : GoodRow(documents[v][q])
  BY DEF StoreInv, StoreTypeOK
<1> QED
  BY <1>1, GoodNoRow, GoodBaseline, GoodObserved, GoodMissing, GoodMoved,
     GoodSent, GoodFailed, GoodResumed, GoodMigrated DEF RowStep

-----------------------------------------------------------------------------
(* Every step of the store changes rows by RowStep.                         *)

\* Every operation of the store changes each row in one of the ways of RowStep.
LEMMA StoreStepRows ==
  ASSUME StoreTypeOK, StoreNext
  PROVE  \A v \in Vaults, p \in Paths : RowStep(v, p)
<1> SUFFICES ASSUME NEW v \in Vaults, NEW p \in Paths
             PROVE  RowStep(v, p)
  OBVIOUS
<1>0. documents \in [Vaults -> [Paths -> Row]] /\ now \in Nat /\ Deadlines \subseteq Nat
  BY BoundsAssumption DEF StoreTypeOK, Deadlines
<1>1. CASE Open
  BY <1>1 DEF Open, RowStep
<1>2. ASSUME NEW w \in Vaults, NEW found \in SUBSET Paths, NEW at \in Deadlines,
             Reconcile(w, found, at)
      PROVE  RowStep(v, p)
  <2>1. CASE v # w
    BY <1>0, <1>2, <2>1 DEF Reconcile, RowStep
  <2>2. CASE v = w
    <3>1. documents'[v][p] = ScanResult(v \in vaults, documents[v], found, at)[p]
      BY <1>0, <1>2, <2>2 DEF Reconcile
    <3> QED
      BY <1>0, <3>1 DEF ScanResult, Reconciled, RowStep
  <2> QED
    BY <2>1, <2>2
<1>3. ASSUME NEW w \in Vaults, NEW q \in Paths, ObserveNew(w, q)
      PROVE  RowStep(v, p)
  BY <1>0, <1>3 DEF ObserveNew, RowStep
<1>4. ASSUME NEW w \in Vaults, NEW q \in Paths, MarkMissing(w, q)
      PROVE  RowStep(v, p)
  BY <1>0, <1>4 DEF MarkMissing, RowStep
<1>5. ASSUME NEW w \in Vaults, NEW src \in Paths, NEW dst \in Paths,
             MovePath(w, src, dst)
      PROVE  RowStep(v, p)
  <2>1. CASE v # w
    BY <1>0, <1>5, <2>1 DEF MovePath, RowStep
  <2>2. CASE v = w
    <3>1. documents'[v][p] = MoveResult(documents[v], src, dst)[p]
      BY <1>0, <1>5, <2>2 DEF MovePath
    <3> QED
      BY <1>0, <3>1 DEF MoveResult, RowStep
  <2> QED
    BY <2>1, <2>2
<1>6. ASSUME NEW w \in Vaults, NEW q \in Paths, NEW g \in 1..MaxGeneration,
             NEW post \in Posts, MarkSent(w, q, g, post)
      PROVE  RowStep(v, p)
  BY <1>0, <1>6 DEF MarkSent, AcceptsSent, RowStep
<1>7. ASSUME NEW w \in Vaults, NEW q \in Paths, NEW g \in 1..MaxGeneration,
             NEW at \in Deadlines \cup {Never}, MarkDeliveryFailure(w, q, g, at)
      PROVE  RowStep(v, p)
  BY <1>0, <1>7 DEF MarkDeliveryFailure, AcceptsFailure, AcceptsSent, RowStep
<1>8. CASE ResumePending
  BY <1>8 DEF ResumePending, RowStep
<1>9. CASE Tick
  BY <1>9 DEF Tick, RowStep
<1> QED
  BY <1>1, <1>2, <1>3, <1>4, <1>5, <1>6, <1>7, <1>8, <1>9 DEF StoreNext, StoreStep

-----------------------------------------------------------------------------
(* The invariant.                                                           *)

\* An empty database satisfies the invariant.
LEMMA InitStoreInv == StoreInit => StoreInv
<1> SUFFICES ASSUME StoreInit PROVE StoreInv
  OBVIOUS
<1>1. \A v \in Vaults, p \in Paths : documents[v][p] = NoRow
  BY DEF StoreInit
<1>2. \A v \in Vaults, p \in Paths : GoodRow(documents[v][p])
  BY <1>1, GoodNoRow
<1>3. StoreTypeOK
  <2>1. NoRow \in Row
    BY GoodNoRow DEF GoodRow
  <2> QED
    BY <2>1 DEF StoreInit, StoreTypeOK
<1>4. RowsBelongToKnownVaults
  BY DEF StoreInit, RowsBelongToKnownVaults, Exists, NoRow
<1> QED
  BY <1>2, <1>3, <1>4 DEF StoreInv

\* The shape of the documents table, whatever its rows are.
IsTable(d) == d = [v \in Vaults |-> [p \in Paths |-> d[v][p]]]

\* Replacing the rows of one vault leaves a table of rows.
LEMMA UpdatedTable ==
  ASSUME NEW d, IsTable(d), NEW v \in Vaults, NEW p \in Paths, NEW row
  PROVE  IsTable([d EXCEPT ![v][p] = row])
  BY DEF IsTable

\* A table built row by row is a table of rows.
LEMMA ReplacedTable ==
  ASSUME NEW d, IsTable(d), NEW v \in Vaults, NEW rows,
         rows = [p \in Paths |-> rows[p]]
  PROVE  IsTable([d EXCEPT ![v] = rows])
  BY DEF IsTable

\* A step keeps the types of the tables and only adds vaults.
LEMMA StoreStepShape ==
  ASSUME StoreTypeOK, StoreNext
  PROVE  IsTable(documents') /\ vaults' \subseteq Vaults /\ now' \in Nat
<1>0. IsTable(documents) /\ now \in Nat /\ vaults \subseteq Vaults
  BY DEF StoreTypeOK, IsTable
<1>1. CASE Open
  BY <1>0, <1>1 DEF Open, IsTable
<1>2. ASSUME NEW w \in Vaults, NEW found \in SUBSET Paths, NEW at \in Deadlines,
             Reconcile(w, found, at)
      PROVE  IsTable(documents') /\ vaults' \subseteq Vaults /\ now' \in Nat
  BY <1>0, <1>2, ReplacedTable DEF Reconcile, ScanResult
<1>3. ASSUME NEW w \in Vaults, NEW q \in Paths, ObserveNew(w, q)
      PROVE  IsTable(documents') /\ vaults' \subseteq Vaults /\ now' \in Nat
  BY <1>0, <1>3, UpdatedTable DEF ObserveNew
<1>4. ASSUME NEW w \in Vaults, NEW q \in Paths, MarkMissing(w, q)
      PROVE  IsTable(documents') /\ vaults' \subseteq Vaults /\ now' \in Nat
  BY <1>0, <1>4, UpdatedTable DEF MarkMissing
<1>5. ASSUME NEW w \in Vaults, NEW src \in Paths, NEW dst \in Paths,
             MovePath(w, src, dst)
      PROVE  IsTable(documents') /\ vaults' \subseteq Vaults /\ now' \in Nat
  <2>1. MoveResult(documents[w], src, dst)
          = [p \in Paths |-> MoveResult(documents[w], src, dst)[p]]
    BY DEF StoreTypeOK, MoveResult
  <2> QED
    BY <1>0, <1>5, <2>1, ReplacedTable DEF MovePath
<1>6. ASSUME NEW w \in Vaults, NEW q \in Paths, NEW g \in 1..MaxGeneration,
             NEW post \in Posts, MarkSent(w, q, g, post)
      PROVE  IsTable(documents') /\ vaults' \subseteq Vaults /\ now' \in Nat
  BY <1>0, <1>6, UpdatedTable DEF MarkSent
<1>7. ASSUME NEW w \in Vaults, NEW q \in Paths, NEW g \in 1..MaxGeneration,
             NEW at \in Deadlines \cup {Never}, MarkDeliveryFailure(w, q, g, at)
      PROVE  IsTable(documents') /\ vaults' \subseteq Vaults /\ now' \in Nat
  BY <1>0, <1>7, UpdatedTable DEF MarkDeliveryFailure
<1>8. CASE ResumePending
  BY <1>0, <1>8 DEF ResumePending, IsTable
<1>9. CASE Tick
  BY <1>0, <1>9 DEF Tick
<1> QED
  BY <1>1, <1>2, <1>3, <1>4, <1>5, <1>6, <1>7, <1>8, <1>9 DEF StoreNext, StoreStep

\* A vault without a baseline keeps having no rows.
LEMMA UnknownVaultsStayEmpty ==
  ASSUME StoreInv, StoreNext, NEW v \in Vaults \ vaults', NEW p \in Paths
  PROVE  ~ Exists(documents'[v][p])
<1>0. /\ documents \in [Vaults -> [Paths -> Row]]
      /\ v \notin vaults => \A q \in Paths : documents[v][q].status = "none"
  BY DEF StoreInv, StoreTypeOK, RowsBelongToKnownVaults, Exists
<1>a. /\ Missing(documents[v][p]).status = documents[v][p].status
      /\ Resumed(documents[v][p]).status = documents[v][p].status
      /\ Migrated(documents[v][p]).status = documents[v][p].status
  BY <1>0 DEF Missing, Resumed, Migrated, Row
<1>1. CASE Open
  BY <1>0, <1>a, <1>1 DEF Open, Exists
<1>2. ASSUME NEW w \in Vaults, NEW found \in SUBSET Paths, NEW at \in Deadlines,
             Reconcile(w, found, at)
      PROVE  ~ Exists(documents'[v][p])
  <2>1. v # w /\ v \notin vaults
    BY <1>2 DEF Reconcile
  <2> QED
    BY <1>0, <1>2, <2>1 DEF Reconcile, Exists
<1>3. ASSUME NEW w \in Vaults, NEW q \in Paths, ObserveNew(w, q)
      PROVE  ~ Exists(documents'[v][p])
  <2>1. v # w /\ v \notin vaults
    BY <1>3 DEF ObserveNew
  <2> QED
    BY <1>0, <1>3, <2>1 DEF ObserveNew, Exists
<1>4. ASSUME NEW w \in Vaults, NEW q \in Paths, MarkMissing(w, q)
      PROVE  ~ Exists(documents'[v][p])
  BY <1>0, <1>a, <1>4 DEF MarkMissing, Exists
<1>5. ASSUME NEW w \in Vaults, NEW src \in Paths, NEW dst \in Paths,
             MovePath(w, src, dst)
      PROVE  ~ Exists(documents'[v][p])
  BY <1>0, <1>5 DEF MovePath, MoveResult, Exists
<1>6. ASSUME NEW w \in Vaults, NEW q \in Paths, NEW g \in 1..MaxGeneration,
             NEW post \in Posts, MarkSent(w, q, g, post)
      PROVE  ~ Exists(documents'[v][p])
  BY <1>0, <1>6 DEF MarkSent, AcceptsSent, Exists
<1>7. ASSUME NEW w \in Vaults, NEW q \in Paths, NEW g \in 1..MaxGeneration,
             NEW at \in Deadlines \cup {Never}, MarkDeliveryFailure(w, q, g, at)
      PROVE  ~ Exists(documents'[v][p])
  BY <1>0, <1>7 DEF MarkDeliveryFailure, AcceptsFailure, AcceptsSent, Exists
<1>8. CASE ResumePending
  BY <1>0, <1>a, <1>8 DEF ResumePending, Exists
<1>9. CASE Tick
  BY <1>0, <1>9 DEF Tick, Exists
<1> QED
  BY <1>1, <1>2, <1>3, <1>4, <1>5, <1>6, <1>7, <1>8, <1>9 DEF StoreNext, StoreStep

\* The invariant is inductive.
LEMMA StepKeepsStoreInv == StoreInv /\ [StoreNext]_storeVars => StoreInv'
<1> SUFFICES ASSUME StoreInv, [StoreNext]_storeVars PROVE StoreInv'
  OBVIOUS
<1>1. CASE StoreNext
  <2>1. \A v \in Vaults, p \in Paths : GoodRow(documents'[v][p])
    BY <1>1, StoreStepRows, RowStepKeepsGood DEF StoreInv
  <2>2. IsTable(documents') /\ vaults' \subseteq Vaults /\ now' \in Nat
    BY <1>1, StoreStepShape DEF StoreInv
  <2>3. documents' \in [Vaults -> [Paths -> Row]]
    BY <2>1, <2>2 DEF IsTable, GoodRow
  <2>4. RowsBelongToKnownVaults'
    BY <1>1, <2>2, UnknownVaultsStayEmpty DEF IsTable, RowsBelongToKnownVaults
  <2> QED
    BY <2>1, <2>2, <2>3, <2>4 DEF StoreInv, StoreTypeOK, GoodRow
<1>2. CASE UNCHANGED storeVars
  BY <1>2 DEF StoreInv, StoreTypeOK, RowsBelongToKnownVaults, storeVars, GoodRow, NoRow, Row
<1> QED
  BY <1>1, <1>2

\* The invariant holds in every reachable state of the store.
LEMMA StoreInvariant == StoreSpec => []StoreInv
  BY InitStoreInv, StepKeepsStoreInv, PTL DEF StoreSpec

-----------------------------------------------------------------------------
(* The safety properties the runs check, for every value of the constants.  *)

\* The tables always have the columns' types: a status the CHECK constraint
\* knows, a post id or NULL, a time or NULL (state.py:57-74).
THEOREM StoreTypeCorrect == StoreSpec => []StoreTypeOK
<1>1. StoreInv => StoreTypeOK
  BY DEF StoreInv
<1> QED
  BY <1>1, StoreInvariant, PTL

\* Status, post id, schedule and generation of every row agree in every
\* reachable state: the UPDATE statements clear what they must clear.
THEOREM StoreRowsCoherent == StoreSpec => []RowCoherent
<1>1. StoreInv => RowCoherent
  BY DEF StoreInv, GoodRow, RowCoherent
<1> QED
  BY <1>1, StoreInvariant, PTL

\* A pending row without a retry time has a recorded failed attempt, so no
\* document is silently off the schedule.
THEOREM StoreBlockedOnlyByFailure == StoreSpec => []BlockedOnlyByFailure
<1>1. StoreInv => BlockedOnlyByFailure
  BY DEF StoreInv, GoodRow, BlockedOnlyByFailure
<1> QED
  BY <1>1, StoreInvariant, PTL

\* Rows exist only in vaults with a baseline, so the INSERT of the baseline
\* branch of reconcile cannot fail on an existing row.
THEOREM StoreRowsBelongToKnownVaults == StoreSpec => []RowsBelongToKnownVaults
<1>1. StoreInv => RowsBelongToKnownVaults
  BY DEF StoreInv
<1> QED
  BY <1>1, StoreInvariant, PTL

\* Scanning the same files twice is scanning them once, in every reachable
\* state and at any two times: restarts announce nothing again.
THEOREM StoreRestartIsQuiet == StoreSpec => []RestartIsQuiet
<1>1. StoreInv => RestartIsQuiet
  <2> SUFFICES ASSUME StoreInv, NEW v \in Vaults, NEW found \in SUBSET Paths,
                      NEW t \in Deadlines, NEW u \in Deadlines
               PROVE  LET once == ScanResult(v \in vaults, documents[v], found, t)
                      IN  ScanResult(TRUE, once, found, u) = once
    BY DEF RestartIsQuiet
  <2> DEFINE once == ScanResult(v \in vaults, documents[v], found, t)
  <2>0. \A p \in Paths : documents[v][p] \in Row
    BY DEF StoreInv, StoreTypeOK
  <2>1. ASSUME NEW p \in Paths PROVE Reconciled(once[p], p \in found, u) = once[p]
    <3> DEFINE old == documents[v][p]
    <3>1. CASE p \in found
      <4>1. once[p].present
        BY <2>0, <3>1 DEF ScanResult, Reconciled, Observed, Fresh, BaselineRow
      <4> QED
        BY <3>1, <4>1 DEF Reconciled, Observed
    <3>2. CASE p \notin found
      <4>1. once[p] = IF v \in vaults THEN Missing(old) ELSE old
        BY <3>2 DEF ScanResult, Reconciled
      <4>2. old \in Row /\ (v \notin vaults => old.present = FALSE)
        BY <2>0 DEF StoreInv, RowsBelongToKnownVaults, GoodRow, Exists, Row
      <4>3. Missing(old) \in Row /\ Missing(old).present = FALSE
        BY <4>2 DEF Missing, Row
      <4>4. \A row \in Row : row.present = FALSE => Missing(row) = row
        <5> SUFFICES ASSUME NEW row \in Row, row.present = FALSE
                     PROVE  [row EXCEPT !.present = FALSE] = row
          BY DEF Missing
        <5>1. row = [f \in DOMAIN row |-> row[f]]
          BY DEF Row
        <5> QED
          BY <5>1
      <4> HIDE DEF once, old
      <4>5. Missing(once[p]) = once[p]
        BY <4>1, <4>2, <4>3, <4>4
      <4> QED
        BY <3>2, <4>5 DEF Reconciled
    <3> QED
      BY <3>1, <3>2
  <2>2. ScanResult(TRUE, once, found, u) = [p \in Paths |-> once[p]]
    BY <2>1 DEF ScanResult
  <2>3. once = [p \in Paths |-> once[p]]
    BY DEF ScanResult
  <2> QED
    BY <2>2, <2>3
<1> QED
  BY <1>1, StoreInvariant, PTL

-----------------------------------------------------------------------------
(* The action properties.                                                   *)

\* No operation makes a settled document that is present pending again; only a
\* pending document renamed over it can take its path.
THEOREM StoreNoRenotification == StoreSpec => NoRenotification
<1> DEFINE Kept(v, p) ==
        /\ documents[v][p].present
        /\ documents[v][p].status \in {"baseline", "sent"}
        /\ documents'[v][p].status = "pending"
        => \E q \in Paths \ {p} :
              /\ documents[v][q].status = "pending"
              /\ documents'[v][p] = [documents[v][q] EXCEPT !.present = TRUE]
<1>1. ASSUME StoreInv, StoreNext, NEW v \in Vaults, NEW p \in Paths
      PROVE  Kept(v, p)
  <2> DEFINE old == documents[v][p]
             new == documents'[v][p]
  <2> SUFFICES ASSUME old.present, old.status \in {"baseline", "sent"},
                      new.status = "pending"
               PROVE  \E q \in Paths \ {p} :
                        /\ documents[v][q].status = "pending"
                        /\ new = [documents[v][q] EXCEPT !.present = TRUE]
    OBVIOUS
  <2>1. \A q \in Paths : documents[v][q] \in Row
    BY <1>1 DEF StoreInv, StoreTypeOK
  <2>2. RowStep(v, p)
    BY <1>1, StoreStepRows DEF StoreInv
  <2>3. old \in Row /\ old.present /\ old.status \in {"baseline", "sent"}
    BY <2>1
  <2>4. PICK q \in Paths : new = [documents[v][q] EXCEPT !.present = TRUE]
    <3>1. Observed(old, 0) = old /\ \A at \in Nat : Observed(old, at) = old
      BY <2>3 DEF Observed
    <3>2. Missing(old).status = old.status
      BY <2>3 DEF Missing, Row
    <3>3. Resumed(old) = old /\ Migrated(old) = old
      BY <2>3 DEF Resumed, Migrated, Deliverable
    <3>4. NoRow.status # "pending" /\ BaselineRow.status # "pending"
      BY DEF NoRow, BaselineRow
    <3>5. old.status # "pending" /\ new.status = "pending"
      BY <2>3
    <3> QED
      BY <2>2, <3>1, <3>2, <3>3, <3>4, <3>5 DEF RowStep
  <2>5. documents[v][q].status = "pending"
    BY <2>1, <2>4 DEF Row
  <2>6. q # p
    BY <2>3, <2>5
  <2> QED
    BY <2>4, <2>5, <2>6
<1>2. StoreInv /\ [StoreNext]_storeVars
        => [\A v \in Vaults, p \in Paths : Kept(v, p)]_storeVars
  BY <1>1
<1> QED
  BY <1>2, StoreInvariant, PTL DEF StoreSpec, NoRenotification

\* No operation gives a pending document that was never attempted a deadline
\* other than the one it was first given, so the quiet time survives restarts.
THEOREM StoreQuietDeadlineKept == StoreSpec => QuietDeadlineKept
<1> DEFINE Kept(v, p) == LET row == documents'[v][p] IN
        row.status = "pending" /\ row.attemptCount = 0
        => \/ row = Fresh(documents[v][p], row.nextRetryAt) /\ ~ documents[v][p].present
           \/ \E q \in Paths : LET old == documents[v][q] IN
                 /\ old.status = "pending" /\ old.attemptCount = 0
                 /\ old.generation = row.generation
                 /\ old.firstObservedAt = row.firstObservedAt
                 /\ old.nextRetryAt = row.nextRetryAt
<1>1. ASSUME StoreInv, StoreNext, NEW v \in Vaults, NEW p \in Paths
      PROVE  Kept(v, p)
  <2> DEFINE old == documents[v][p]
             new == documents'[v][p]
             Same(q) == LET was == documents[v][q] IN
                 /\ was.status = "pending" /\ was.attemptCount = 0
                 /\ was.generation = new.generation
                 /\ was.firstObservedAt = new.firstObservedAt
                 /\ was.nextRetryAt = new.nextRetryAt
  <2> SUFFICES ASSUME new.status = "pending", new.attemptCount = 0
               PROVE  \/ new = Fresh(old, new.nextRetryAt) /\ ~ old.present
                      \/ \E q \in Paths : Same(q)
    OBVIOUS
  <2>1. \A q \in Paths : documents[v][q] \in Row /\ GoodRow(documents[v][q])
    BY <1>1 DEF StoreInv, GoodRow
  <2>2. RowStep(v, p)
    BY <1>1, StoreStepRows DEF StoreInv
  <2>3. CASE new = old
    BY <2>3
  <2>4. CASE new = Missing(old)
    BY <2>1, <2>4 DEF Missing, Row
  <2>5. ASSUME NEW at \in Nat, new = Observed(old, at)
        PROVE  \/ new = Fresh(old, new.nextRetryAt) /\ ~ old.present
               \/ \E q \in Paths : Same(q)
    <3>1. CASE old.present
      BY <2>3, <2>5, <3>1 DEF Observed
    <3>2. CASE ~ old.present
      BY <2>5, <3>2 DEF Observed, Fresh
    <3> QED
      BY <3>1, <3>2
  <2>6. ASSUME NEW q \in Paths, new = [documents[v][q] EXCEPT !.present = TRUE]
        PROVE  Same(q)
    BY <2>1, <2>6 DEF Row
  <2>7. ~ (new = NoRow \/ new = BaselineRow)
    BY DEF NoRow, BaselineRow
  <2>8. \A post : new # Sent(old, post)
    BY <2>1 DEF Sent, Row
  <2>9. ASSUME NEW at, new = Failed(old, at) PROVE FALSE
    BY <2>1, <2>9 DEF Failed, Row
  <2>10. CASE new = Resumed(old)
    <3>1. CASE new = old
      BY <2>3, <3>1
    <3>2. CASE new # old
      BY <2>1, <2>10, <3>2 DEF Resumed, Deliverable, GoodRow, Row
    <3> QED
      BY <3>1, <3>2
  <2>11. CASE new = Migrated(old)
    <3>1. CASE new = old
      BY <2>3, <3>1
    <3>2. CASE new # old
      BY <2>1, <2>11, <3>2 DEF Migrated, GoodRow, Row
    <3> QED
      BY <3>1, <3>2
  <2> HIDE DEF Same
  <2> QED
    BY <2>2, <2>3, <2>4, <2>5, <2>6, <2>7, <2>8, <2>9, <2>10, <2>11 DEF RowStep
<1>2. StoreInv /\ [StoreNext]_storeVars
        => [\A v \in Vaults, p \in Paths : Kept(v, p)]_storeVars
  BY <1>1
<1> QED
  BY <1>2, StoreInvariant, PTL DEF StoreSpec, QuietDeadlineKept
=============================================================================
