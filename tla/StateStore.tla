----------------------------- MODULE StateStore -----------------------------
(***************************************************************************)
(* The SQLite store of state.py: which vaults have a baseline, and for     *)
(* every document row its generation, delivery status, presence and retry  *)
(* schedule.  Every operation of the class runs in one transaction under   *)
(* one lock, so each is a single action here.                              *)
(*                                                                         *)
(* A path without a row is NoRow, whose generation is 0: inserting a row   *)
(* (generation 1) and regenerating a missing one (generation + 1) are then *)
(* the same operation, Fresh.  size, mtime_ns, notified_at and last_error  *)
(* are never read back by a decision and are left out.                     *)
(***************************************************************************)
EXTENDS Naturals, FiniteSets, Sequences

CONSTANTS
    Vaults,         \* vault names
    Paths,          \* normalised relative paths of Markdown documents
    Posts,          \* Mattermost post ids
    NoPost,         \* SQL NULL in post_id
    Never,          \* SQL NULL in next_retry_at
    MaxTime,        \* bound: the last instant of the wall clock
    MaxGeneration,  \* bound: generations of one path
    MaxAttempts     \* bound: recorded failures of one generation

ASSUME NullsAssumption == NoPost \notin Posts /\ Never \notin Nat
ASSUME BoundsAssumption ==
    /\ MaxTime \in Nat
    /\ MaxGeneration \in Nat
    /\ MaxAttempts \in Nat

VARIABLES
    vaults,     \* the vaults table
    documents,  \* the documents table
    now         \* the wall clock the callers read

storeVars == <<vaults, documents, now>>

Statuses == {"none", "baseline", "pending", "sent"}

Row == [ generation      : Nat,
         status          : Statuses,
         postId          : Posts \cup {NoPost},
         present         : BOOLEAN,
         attemptCount    : Nat,
         nextRetryAt     : Nat \cup {Never},
         firstObservedAt : Nat ]

NoRow == [ generation |-> 0, status |-> "none", postId |-> NoPost,
           present |-> FALSE, attemptCount |-> 0, nextRetryAt |-> Never,
           firstObservedAt |-> 0 ]

Exists(row) == row.status # "none"
Deliverable(row) == row.status = "pending" /\ row.present
Scheduled(row) == Deliverable(row) /\ row.nextRetryAt # Never

DueBy(row, at) == Scheduled(row) /\ row.nextRetryAt <= at

StoreTypeOK ==
    /\ vaults \subseteq Vaults
    /\ documents \in [Vaults -> [Paths -> Row]]
    /\ now \in Nat

-----------------------------------------------------------------------------
(* What one transaction does to one row.  A definition whose comment says   *)
(* "Slip" is a variant the store must not be: the properties below are      *)
(* checked to tell it from the definition that follows it.                  *)

\* Slip: a regenerated row keeps the post of its previous generation.
FreshKeepingPost(row, at) ==
    [row EXCEPT !.generation = @ + 1, !.status = "pending", !.present = TRUE,
                !.attemptCount = 0, !.nextRetryAt = at, !.firstObservedAt = now]

\* Slip: inserted without next_retry_at, as before schema version 2.
FreshUnscheduled(row, at) ==
    [ generation |-> row.generation + 1, status |-> "pending",
      postId |-> NoPost, present |-> TRUE, attemptCount |-> 0,
      nextRetryAt |-> Never, firstObservedAt |-> now ]

\* A row that starts (or restarts) its life as a document to announce.
Fresh(row, at) ==
    [ generation |-> row.generation + 1, status |-> "pending",
      postId |-> NoPost, present |-> TRUE, attemptCount |-> 0,
      nextRetryAt |-> at, firstObservedAt |-> now ]

BaselineRow ==
    [ generation |-> 1, status |-> "baseline", postId |-> NoPost,
      present |-> TRUE, attemptCount |-> 0, nextRetryAt |-> Never,
      firstObservedAt |-> now ]

Missing(row) == [row EXCEPT !.present = FALSE]

\* Slip: every scan regenerates.
ObservedAgain(row, at) == Fresh(row, at)

\* An observed file: a new generation unless the row is present already.
Observed(row, at) == IF row.present THEN row ELSE Fresh(row, at)

Reconciled(row, found, at) == IF found THEN Observed(row, at) ELSE Missing(row)

\* Slip: any answer completes a pending row.
AcceptsAnySent(row, g) == row.status = "pending"

\* The condition of mark_sent; the row need not be present.
AcceptsSent(row, g) == row.status = "pending" /\ row.generation = g

\* The condition of mark_delivery_failure.
AcceptsFailure(row, g) == AcceptsSent(row, g) /\ row.present

\* Slip: a status the CHECK constraint of the table does not know.
SentAsPosted(row, post) ==
    [row EXCEPT !.status = "posted", !.postId = post, !.nextRetryAt = Never]

Sent(row, post) ==
    [row EXCEPT !.status = "sent", !.postId = post, !.nextRetryAt = Never]

Failed(row, at) ==
    [row EXCEPT !.attemptCount = @ + 1, !.nextRetryAt = at]

\* Slip: resumes the rows that still wait for their quiet time, too.
ResumedAll(row) == IF Deliverable(row) THEN [row EXCEPT !.nextRetryAt = now] ELSE row

\* resume_pending: only rows that were attempted or are blocked.
Resumed(row) ==
    IF Deliverable(row) /\ (row.attemptCount > 0 \/ row.nextRetryAt = Never)
    THEN [row EXCEPT !.nextRetryAt = now]
    ELSE row

\* _migrate_schema, which every opening of the database runs.
Migrated(row) ==
    IF row.status = "pending" /\ row.nextRetryAt = Never
    THEN [row EXCEPT !.nextRetryAt = row.firstObservedAt]
    ELSE row

-----------------------------------------------------------------------------
(* The tables a whole transaction leaves behind.                            *)

\* The first scan of a vault is its baseline; later scans find new documents.
ScanResult(known, rows, found, at) ==
    [p \in Paths |-> IF known THEN Reconciled(rows[p], p \in found, at)
                     ELSE IF p \in found THEN BaselineRow ELSE rows[p]]

\* The destination's own row is deleted before the source row takes its path.
MoveResult(rows, src, dst) ==
    IF Exists(rows[src])
    THEN [rows EXCEPT ![src] = NoRow,
                      ![dst] = [rows[src] EXCEPT !.present = TRUE]]
    ELSE rows

-----------------------------------------------------------------------------
(* The operations.                                                          *)

StoreInit ==
    /\ vaults = {}
    /\ documents = [v \in Vaults |-> [p \in Paths |-> NoRow]]
    /\ now = 0

\* Open an existing database (StateStore.__init__).
Open ==
    /\ documents' = [v \in Vaults |-> [p \in Paths |-> Migrated(documents[v][p])]]
    /\ UNCHANGED <<vaults, now>>

Reconcile(v, found, at) ==
    /\ vaults' = vaults \cup {v}
    /\ documents' = [documents EXCEPT ![v] =
                        ScanResult(v \in vaults, documents[v], found, at)]
    /\ UNCHANGED now

\* Slip: no _ensure_vault.
ObserveNewUnregistered(v, p) ==
    /\ documents' = [documents EXCEPT ![v][p] = Observed(documents[v][p], now)]
    /\ UNCHANGED <<vaults, now>>

ObserveNew(v, p) ==
    /\ vaults' = vaults \cup {v}
    /\ documents' = [documents EXCEPT ![v][p] = Observed(documents[v][p], now)]
    /\ UNCHANGED now

MarkMissing(v, p) ==
    /\ documents' = [documents EXCEPT ![v][p] = Missing(documents[v][p])]
    /\ UNCHANGED <<vaults, now>>

MovePath(v, src, dst) ==
    /\ documents' = [documents EXCEPT ![v] = MoveResult(documents[v], src, dst)]
    /\ UNCHANGED <<vaults, now>>

\* A condition that does not hold is a KeyError, which every caller ignores.
MarkSent(v, p, g, post) ==
    /\ documents' = [documents EXCEPT ![v][p] =
                        IF AcceptsSent(documents[v][p], g)
                        THEN Sent(documents[v][p], post) ELSE documents[v][p]]
    /\ UNCHANGED <<vaults, now>>

MarkDeliveryFailure(v, p, g, at) ==
    /\ documents' = [documents EXCEPT ![v][p] =
                        IF AcceptsFailure(documents[v][p], g)
                        THEN Failed(documents[v][p], at) ELSE documents[v][p]]
    /\ UNCHANGED <<vaults, now>>

ResumePending ==
    /\ documents' = [v \in Vaults |-> [p \in Paths |-> Resumed(documents[v][p])]]
    /\ UNCHANGED <<vaults, now>>

Tick ==
    /\ now < MaxTime
    /\ now' = now + 1
    /\ UNCHANGED <<vaults, documents>>

-----------------------------------------------------------------------------
(* The queries of the delivery worker.                                      *)

\* Rows are handed out in order of next_retry_at, then first_observed_at; the
\* last column of the ORDER BY, relative_path, is left to chance.
Before(r, s) ==
    \/ r.nextRetryAt < s.nextRetryAt
    \/ r.nextRetryAt = s.nextRetryAt /\ r.firstObservedAt < s.firstObservedAt

RowOf(key) == documents[key[1]][key[2]]

\* Slip: does not look at the clock.
DueKeysAnytime(names, at) ==
    { <<x[1], x[2], RowOf(x).generation>> :
        x \in { y \in names \X Paths : Scheduled(RowOf(y)) } }

DueKeys(names, at) ==
    { <<x[1], x[2], RowOf(x).generation>> :
        x \in { y \in names \X Paths : DueBy(RowOf(y), at) } }

\* The results due_pending may return: at most limit keys, most urgent first.
DuePending(names, at, limit) ==
    LET keys == DueKeys(names, at)
        size == Cardinality(keys)
        Urgent(s) == \A i, j \in 1..size : i < j =>
                        s[i] # s[j] /\ ~ Before(RowOf(s[j]), RowOf(s[i]))
    IN  { SubSeq(s, 1, IF size < limit THEN size ELSE limit) :
            s \in { t \in [1..size -> keys] : Urgent(t) } }

\* The earliest schedule of a deliverable row, Never if there is none.
NextRetryTime(names) ==
    LET times == { RowOf(x).nextRetryAt :
                    x \in { y \in names \X Paths : Scheduled(RowOf(y)) } }
    IN  IF times = {} THEN Never
        ELSE CHOOSE t \in times : \A u \in times : t <= u

-----------------------------------------------------------------------------
(* The store on its own: any caller, any order, any argument.               *)

Deadlines == now..MaxTime

\* Bounds: no step takes a row beyond MaxGeneration or MaxAttempts.
WithinBounds ==
    \A v \in Vaults, p \in Paths :
        /\ documents[v][p].generation <= MaxGeneration
        /\ documents[v][p].attemptCount <= MaxAttempts

StoreStep ==
    \/ Open
    \/ \E v \in Vaults, found \in SUBSET Paths, at \in Deadlines :
            Reconcile(v, found, at)
    \/ \E v \in Vaults, p \in Paths : ObserveNew(v, p)
    \/ \E v \in Vaults, p \in Paths : MarkMissing(v, p)
    \/ \E v \in Vaults, src, dst \in Paths : MovePath(v, src, dst)
    \/ \E v \in Vaults, p \in Paths, g \in 1..MaxGeneration, post \in Posts :
            MarkSent(v, p, g, post)
    \/ \E v \in Vaults, p \in Paths, g \in 1..MaxGeneration,
          at \in Deadlines \cup {Never} :
            MarkDeliveryFailure(v, p, g, at)
    \/ ResumePending
    \/ Tick

StoreNext == StoreStep /\ WithinBounds'

StoreSpec == StoreInit /\ [][StoreNext]_storeVars

-----------------------------------------------------------------------------
(* Properties.                                                              *)

\* Status, post id and schedule of a row agree: exactly the sent rows carry a
\* post id (state.py:164-171 and 215-222 must clear the old one), only pending
\* rows carry a retry time (state.py:313-314 must clear it), and a row that is
\* not there carries nothing.
RowCoherent ==
    \A v \in Vaults, p \in Paths : LET row == documents[v][p] IN
        /\ row.status = "sent" <=> row.postId # NoPost
        /\ row.nextRetryAt # Never => row.status = "pending"
        /\ row.status = "none" <=> row.generation = 0
        /\ row.status = "none" => ~ row.present

\* A pending document is off the schedule only because an attempt of its
\* present generation was refused: whatever the order of scans, renames,
\* deletions and restarts, no document nobody tried to post falls off the
\* schedule.
BlockedOnlyByFailure ==
    \A v \in Vaults, p \in Paths : LET row == documents[v][p] IN
        row.status = "pending" /\ row.nextRetryAt = Never => row.attemptCount > 0

\* A document row belongs to a vault with a baseline, so that the plain INSERT
\* of the baseline branch (state.py:113-119) never meets an existing row and
\* the foreign key of the table holds.
RowsBelongToKnownVaults ==
    \A v \in Vaults \ vaults, p \in Paths : ~ Exists(documents[v][p])

\* Restarting is quiet: scanning the same files again changes nothing, whatever
\* the first scan found and whatever time has passed, so repeated restarts and
\* watcher replacements announce nothing twice and do not push back deadlines.
RestartIsQuiet ==
    \A v \in Vaults, found \in SUBSET Paths, t, u \in Deadlines :
        LET once == ScanResult(v \in vaults, documents[v], found, t)
        IN  ScanResult(TRUE, once, found, u) = once

\* A document that is present and settled (part of the baseline, or announced)
\* never becomes pending again: its path can only turn pending when another
\* document, itself pending, is renamed over it.
NoRenotification ==
    [][\A v \in Vaults, p \in Paths :
        /\ documents[v][p].present
        /\ documents[v][p].status \in {"baseline", "sent"}
        /\ documents'[v][p].status = "pending"
        => \E q \in Paths \ {p} :
              /\ documents[v][q].status = "pending"
              /\ documents'[v][p] = [documents[v][q] EXCEPT !.present = TRUE]
      ]_storeVars

\* The quiet time of a document found while the service was down survives:
\* no restart, resume_pending, scan or rename gives a pending document that was
\* never attempted another deadline than the one it was first given.
QuietDeadlineKept ==
    [][\A v \in Vaults, p \in Paths : LET row == documents'[v][p] IN
        row.status = "pending" /\ row.attemptCount = 0
        => \/ row = Fresh(documents[v][p], row.nextRetryAt) /\ ~ documents[v][p].present
           \/ \E q \in Paths : LET old == documents[v][q] IN
                 /\ old.status = "pending" /\ old.attemptCount = 0
                 /\ old.generation = row.generation
                 /\ old.firstObservedAt = row.firstObservedAt
                 /\ old.nextRetryAt = row.nextRetryAt
      ]_storeVars
=============================================================================
