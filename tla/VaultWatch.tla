------------------------------ MODULE VaultWatch ------------------------------
(***************************************************************************)
(* One vault from the disk to the announcement: users change files, the    *)
(* observer queues and handles the events (watcher.py:144-188), files that *)
(* come to rest are observed, a starting service or a replaced watcher     *)
(* scans the directory and reconciles later (service.py:146-217), and the  *)
(* delivery looks for the file of a row before it posts it.                *)
(*                                                                         *)
(* The store is StateStore, the dispatcher is reduced to what Debounce     *)
(* says of it, and delivery to one attempt at a time that is always        *)
(* answered: what the threads of DeliveryWorker do besides is checked      *)
(* there.  Documents are numbered as they are created, and a post carries  *)
(* the number of the document that was on the disk.                        *)
(***************************************************************************)
EXTENDS StateStore

CONSTANTS
    Vault,      \* the only member of Vaults
    Drafts,     \* paths whose name matches draft_name_patterns
    Outside,    \* paths that are not eligible: an ignored folder, another suffix
    Renames,    \* the renames users perform: pairs <<source, destination>>
    Quiet,      \* notification_quiet_seconds
    Overlaps,   \* what users do not wait for: "quiet" times, "events" that are
                \* queued or being recorded, the scan for the "baseline", another
                \* "scan", a "delivery" that is due or under way; and what they do
                \* not wait for at the paths they touch: that a document there can
                \* be "replaced", that nothing is "crossing" a rename, and to
                \* rename, a scan ("renames"), or that a "recreated" file is observed
    Slow,       \* what may take as long as the quiet time: "scan", "events" in the
                \* queue, the "callback" of a file at rest until it has written, and
                \* "lookup", from missing a file to marking its row
    FaultKinds, \* the faults that occur: "crash", "watcher", "storage"
    MaxDocs,    \* bound: documents ever created
    MaxEdits,   \* bound: modifications, deletions and renames
    MaxFaults   \* bound: faults

ASSUME VaultAssumption ==
    /\ Vaults = {Vault}
    /\ Drafts \subseteq Paths /\ Outside \subseteq Paths
    /\ Renames \subseteq Paths \X Paths
    /\ Quiet \in Nat /\ MaxDocs \in Nat /\ MaxEdits \in Nat /\ MaxFaults \in Nat
    /\ Posts = 1..MaxDocs

VARIABLES
    disk,       \* the document at every path, NoDoc where there is none
    changed,    \* when a path was last written or renamed to
    created,    \* documents created so far
    edits,      \* modifications, deletions and renames so far
    service,    \* "down", "starting" or "up"
    watching,   \* the observer is scheduled
    events,     \* its queue
    awaiting,   \* paths the dispatcher has been given and not reported
    observing,  \* the path _on_stable_file has looked at and not yet recorded
    scan,       \* the scan of the directory: NoScan, or what it has found and when
    delivering, \* the attempt under way: path, generation, document
    posts,      \* how often each document was posted
    baseline,   \* documents that were on the disk when the baseline was read
    forgotten,  \* paths whose callback raised, and nothing has happened since
    faults      \* faults so far

diskVars == <<disk, changed, created, edits>>
watchVars == <<watching, events, awaiting, observing, forgotten>>
deliveryVars == <<delivering, posts>>
vars == <<storeVars, diskVars, service, watchVars, scan, deliveryVars, baseline, faults>>

NoDoc == 0
Documents == 1..MaxDocs
Eligible == Paths \ Outside
Scannable == Eligible \ Drafts
Nothing == <<>>
Rows == documents[Vault]

\* Nothing in the hands of the dispatcher is not a path.
ASSUME NothingAssumption == Nothing \notin Paths

\* A scan that has not read the directory yet has no snapshot.
NoScan == [phase |-> "none", found |-> {}, since |-> 0]

TypeOK ==
    /\ StoreTypeOK
    /\ disk \in [Paths -> Documents \cup {NoDoc}]
    /\ changed \in [Paths -> Nat]
    /\ created \in 0..MaxDocs /\ edits \in 0..MaxEdits /\ faults \in 0..MaxFaults
    /\ service \in {"down", "starting", "up"}
    /\ watching \in BOOLEAN
    /\ awaiting \subseteq Eligible /\ forgotten \subseteq Scannable
    /\ observing \in Scannable \cup {Nothing}
    /\ scan \in [phase : {"none", "read", "reconcile"}, found : SUBSET Scannable, since : Nat]
    /\ delivering \in (Paths \X Nat \X (Documents \cup {NoDoc})) \cup {Nothing}
    /\ posts \in [Documents -> Nat]
    /\ baseline \subseteq Documents

Init ==
    /\ StoreInit
    /\ disk = [p \in Paths |-> NoDoc]
    /\ changed = [p \in Paths |-> 0]
    /\ created = 0 /\ edits = 0 /\ faults = 0
    /\ service = "down"
    /\ watching = FALSE /\ events = <<>> /\ awaiting = {} /\ observing = Nothing
    /\ forgotten = {}
    /\ scan = NoScan
    /\ delivering = Nothing
    /\ posts = [d \in Documents |-> 0]
    /\ baseline = {}

\* Bound: what begins a quiet time does so early enough for its end to be seen.
Early == now + Quiet <= MaxTime

Fault(kind) ==
    /\ kind \in FaultKinds /\ faults < MaxFaults /\ Early
    /\ faults' = faults + 1

-----------------------------------------------------------------------------
(* Users.                                                                   *)

Pending == {p \in Paths : Deliverable(Rows[p])}

\* Users may act; the ones of a patient run wait for the program.
UsersAct ==
    /\ Early
    /\ "quiet" \in Overlaps \/ awaiting = {}
    /\ "events" \in Overlaps \/ (events = <<>> /\ observing = Nothing)
    /\ "baseline" \in Overlaps \/ scan = NoScan \/ Vault \in vaults
    /\ "scan" \in Overlaps \/ scan = NoScan \/ Vault \notin vaults
    /\ "delivery" \in Overlaps
       \/ (delivering = Nothing /\ \A p \in Paths : ~ DueBy(Rows[p], now))

Attempted(p) == delivering # Nothing /\ delivering[1] = p
Announces(event, p) == \E i \in 2..Len(event) : event[i] = p

\* A rename from or to p is queued.
Moving(p) == \E i \in DOMAIN events : events[i][1] = "moved" /\ Announces(events[i], p)

\* What users wait for at p itself, to touch it, to put a document there, and to rename.
Still(p) == "crossing" \in Overlaps \/ ~ Moving(p)
Idle(p) == "crossing" \in Overlaps \/ ~ Attempted(p)
Vacant(p) ==
    "replaced" \in Overlaps \/ (observing # p /\ ~ Attempted(p) /\ ~ DueBy(Rows[p], now))

Emit(event) == events' = IF watching THEN Append(events, event) ELSE events

\* The queue tells that the document at p has gone.
Queued(p) == \E i \in DOMAIN events : events[i][1] \in {"deleted", "moved"} /\ events[i][2] = p

\* A document put in the place of another is a new one only if the departure of
\* the other is observed (README.md:624); only such documents are counted.
Create(p) ==
    /\ UsersAct /\ Still(p) /\ Vacant(p)
    /\ disk[p] = NoDoc /\ created < MaxDocs
    /\ Rows[p].present => Queued(p)
    /\ created' = created + 1
    /\ disk' = [disk EXCEPT ![p] = created + 1]
    /\ changed' = [changed EXCEPT ![p] = now]
    /\ Emit(<<"changed", p>>)
    /\ UNCHANGED <<storeVars, edits, service, watching, awaiting, observing, forgotten, scan,
                   deliveryVars, baseline, faults>>

Edit == UsersAct /\ edits < MaxEdits /\ edits' = edits + 1

Modify(p) ==
    /\ Edit /\ Still(p) /\ disk[p] # NoDoc
    /\ changed' = [changed EXCEPT ![p] = now]
    /\ Emit(<<"changed", p>>)
    /\ UNCHANGED <<storeVars, disk, created, service, watching, awaiting, observing, forgotten, scan,
                   deliveryVars, baseline, faults>>

Delete(p) ==
    /\ Edit /\ Still(p) /\ disk[p] # NoDoc
    /\ disk' = [disk EXCEPT ![p] = NoDoc]
    /\ Emit(<<"deleted", p>>)
    /\ UNCHANGED <<storeVars, changed, created, service, watching, awaiting, observing, forgotten, scan,
                   deliveryVars, baseline, faults>>

\* The program has announced d or has taken it for an old document.
Known(d) == d \in baseline \/ posts[d] > 0

\* Only under a watcher: the program cannot tell a rename made while it is down
\* from a deletion and a creation.  Only to a free path, as in Create; and what
\* comes back from outside counts as a new document, so it is not followed.
Rename(p, q) ==
    /\ Edit /\ Still(p) /\ Still(q) /\ Vacant(q) /\ Idle(p)
    /\ watching /\ disk[p] # NoDoc /\ disk[q] = NoDoc
    /\ Rows[q].present => Queued(q)
    /\ p \in Outside => ~ Known(disk[p])
    /\ "renames" \in Overlaps \/ scan = NoScan
    /\ "recreated" \in Overlaps \/ (Rows[p].present /\ ~ Queued(p)) \/ Rows[p].generation = 0
    /\ disk' = [disk EXCEPT ![p] = NoDoc, ![q] = disk[p]]
    /\ changed' = [changed EXCEPT ![q] = now]
    /\ Emit(<<"moved", p, q>>)
    /\ UNCHANGED <<storeVars, created, service, watching, awaiting, observing, forgotten, scan,
                   deliveryVars, baseline, faults>>

-----------------------------------------------------------------------------
(* The observer thread: VaultEventHandler and the callbacks of the service. *)

NextEvent(kind) ==
    /\ watching /\ events # <<>> /\ Head(events)[1] = kind
    /\ events' = Tail(events)
    /\ forgotten' = forgotten \ {Head(events)[i] : i \in 2..Len(Head(events))}
    /\ UNCHANGED <<diskVars, service, watching, observing, scan, deliveryVars,
                   baseline, faults>>

\* Slip: modifications are ignored, since they announce nothing.
OnCreatedOnce ==
    /\ NextEvent("changed")
    /\ LET p == Head(events)[2] IN
          awaiting' = IF p \in Eligible /\ ~ Rows[p].present THEN awaiting \cup {p} ELSE awaiting
    /\ UNCHANGED storeVars

\* on_created and on_modified: the file is submitted.
OnCreated ==
    /\ NextEvent("changed")
    /\ LET p == Head(events)[2] IN
          awaiting' = IF p \in Eligible THEN awaiting \cup {p} ELSE awaiting
    /\ UNCHANGED storeVars

OnDeleted ==
    /\ NextEvent("deleted")
    /\ LET p == Head(events)[2] IN
          IF p \in Eligible THEN MarkMissing(Vault, p) ELSE UNCHANGED storeVars
    /\ UNCHANGED awaiting

\* What a move does to the rows.  The destination is eligible whenever
\* _on_moved asks; it returns when the file is not there any more.
Moved(p, q) ==
    CASE p \in Eligible /\ q \in Eligible ->
            IF disk[q] # NoDoc THEN MovePath(Vault, p, q) ELSE UNCHANGED storeVars
      [] p \in Eligible /\ q \in Outside -> MarkMissing(Vault, p)
      [] p \in Outside -> UNCHANGED storeVars

\* Slip: a move is a deletion and a creation.
OnMovedAsNew ==
    /\ NextEvent("moved")
    /\ LET p == Head(events)[2]  q == Head(events)[3] IN
          /\ IF p \in Eligible THEN MarkMissing(Vault, p) ELSE UNCHANGED storeVars
          /\ awaiting' = (awaiting \ {p}) \cup ({q} \cap Eligible)

\* on_moved: handle_move discards the source, then the row moves, and an
\* eligible destination is submitted.
OnMoved ==
    /\ NextEvent("moved")
    /\ LET p == Head(events)[2]  q == Head(events)[3] IN
          /\ Moved(p, q)
          /\ awaiting' = (IF q \in Eligible THEN awaiting \ {p} ELSE awaiting)
                            \cup ({q} \cap Eligible)

-----------------------------------------------------------------------------
(* The dispatcher thread.                                                   *)

Take(p) ==
    /\ p \in awaiting /\ observing = Nothing
    /\ awaiting' = awaiting \ {p}
    /\ UNCHANGED <<storeVars, diskVars, service, watching, events, forgotten, scan, deliveryVars,
                   baseline, faults>>

\* The file is gone when it is looked at.
DispatchGone(p) == Take(p) /\ disk[p] = NoDoc /\ UNCHANGED observing

\* Slip: drafts are observed like other documents.
DispatchAny(p) ==
    /\ Take(p)
    /\ disk[p] # NoDoc /\ changed[p] + Quiet <= now
    /\ observing' = p

\* Slip: modifications do not restart the quiet time.
DispatchEarly(p) ==
    /\ Take(p)
    /\ disk[p] # NoDoc
    /\ observing' = IF p \in Drafts THEN Nothing ELSE p

\* The file is at rest; _on_stable_file ignores drafts and looks at the file
\* once more before it writes.
Dispatch(p) ==
    /\ Take(p)
    /\ disk[p] # NoDoc /\ changed[p] + Quiet <= now
    /\ observing' = IF p \in Drafts THEN Nothing ELSE p

\* _on_stable_file, line 245.
Observe ==
    /\ observing # Nothing
    /\ ObserveNew(Vault, observing)
    /\ observing' = Nothing
    /\ UNCHANGED <<diskVars, service, watching, events, awaiting, forgotten, scan,
                   deliveryVars, baseline, faults>>

\* The database raises; the dispatcher logs it and goes on (watcher.py:138-141).
ObserveRaises ==
    /\ observing # Nothing
    /\ Fault("storage")
    /\ forgotten' = forgotten \cup {observing}
    /\ observing' = Nothing
    /\ UNCHANGED <<storeVars, diskVars, service, watching, events, awaiting, scan,
                   deliveryVars, baseline>>

-----------------------------------------------------------------------------
(* Starting, scanning, restarting.                                          *)

Begin(phase) == scan' = [phase |-> phase, found |-> {}, since |-> now]

\* Slip: the watcher of a known vault starts after the scan, like a new one's.
StartUnwatched ==
    /\ service = "down"
    /\ Open
    /\ service' = "starting"
    /\ Begin("read")
    /\ UNCHANGED <<diskVars, watchVars, deliveryVars, baseline, faults>>

\* __init__ and _start_vault: the watcher of a known vault starts before the
\* scan, the one of a new vault after it.
Start ==
    /\ service = "down"
    /\ Open
    /\ service' = "starting"
    /\ watching' = (Vault \in vaults)
    /\ Begin("read")
    /\ UNCHANGED <<diskVars, events, awaiting, observing, forgotten, deliveryVars, baseline, faults>>

\* Slip: the scan does not leave out drafts.
ReadEverything ==
    /\ scan.phase = "read"
    /\ scan' = [scan EXCEPT !.phase = "reconcile",
                            !.found = {p \in Eligible : disk[p] # NoDoc}]
    /\ baseline' = IF Vault \in vaults THEN baseline
                   ELSE {disk[p] : p \in {q \in Paths : disk[q] # NoDoc}}
    /\ UNCHANGED <<storeVars, diskVars, service, watchVars, deliveryVars, faults>>

\* scan_markdown_files and _scannable_files.
ReadDirectory ==
    /\ scan.phase = "read"
    /\ scan' = [scan EXCEPT !.phase = "reconcile",
                            !.found = {p \in Scannable : disk[p] # NoDoc}]
    /\ baseline' = IF Vault \in vaults THEN baseline
                   ELSE {disk[p] : p \in {q \in Scannable : disk[q] # NoDoc}}
    /\ UNCHANGED <<storeVars, diskVars, service, watchVars, deliveryVars, faults>>

\* reconcile with what was read; the watcher of a new vault starts now.
FinishScan ==
    /\ scan.phase = "reconcile"
    /\ Reconcile(Vault, scan.found, scan.since + Quiet)
    /\ scan' = NoScan
    /\ watching' = TRUE
    /\ forgotten' = forgotten \ scan.found
    /\ UNCHANGED <<diskVars, service, events, awaiting, observing, deliveryVars, baseline, faults>>

\* The end of start(): resume_pending, and the worker begins to deliver.
StartWorker ==
    /\ service = "starting" /\ scan = NoScan
    /\ ResumePending
    /\ service' = "up"
    /\ UNCHANGED <<diskVars, watchVars, scan, deliveryVars, baseline, faults>>

\* The events that are lost with the queue tell of nothing a scan cannot see.
QueueExpendable ==
    \A i \in DOMAIN events :
        /\ events[i][1] # "moved"
        /\ events[i][1] = "deleted" => disk[events[i][2]] = NoDoc

\* The observer thread ends, by an exception or with its directory.
WatcherDies ==
    /\ service = "up" /\ watching /\ scan = NoScan /\ QueueExpendable
    /\ Fault("watcher")
    /\ watching' = FALSE
    /\ events' = <<>>
    /\ UNCHANGED <<storeVars, diskVars, service, awaiting, observing, forgotten, scan,
                   deliveryVars, baseline>>

\* Slip: the watcher is replaced without a scan.
ReplaceWatcherOnly ==
    /\ service = "up" /\ ~ watching /\ observing = Nothing
    /\ watching' = TRUE
    /\ awaiting' = {}
    /\ UNCHANGED <<storeVars, diskVars, service, events, observing, forgotten, scan, deliveryVars,
                   baseline, faults>>

\* restart_failed_watchers: the old dispatcher is joined, the new one is empty.
ReplaceWatcher ==
    /\ service = "up" /\ ~ watching /\ observing = Nothing
    /\ watching' = TRUE
    /\ awaiting' = {}
    /\ Begin("read")
    /\ UNCHANGED <<storeVars, diskVars, service, events, observing, forgotten, deliveryVars,
                   baseline, faults>>

\* The process dies.  Not during a POST: that the document may be posted again
\* then is documented (README.md:626), and NotifierService covers it.
Crash ==
    /\ service # "down" /\ QueueExpendable /\ delivering = Nothing
    /\ Fault("crash")
    /\ service' = "down"
    /\ watching' = FALSE /\ events' = <<>> /\ awaiting' = {} /\ observing' = Nothing
    /\ scan' = NoScan
    /\ delivering' = Nothing
    /\ UNCHANGED <<storeVars, diskVars, forgotten, posts, baseline>>

-----------------------------------------------------------------------------
(* Delivery: _attempt, reduced to where it meets the disk and the rows.     *)

\* delivery.py:176-196: the row is due, the file is looked for, and posted.
Attempt(p) ==
    /\ service = "up" /\ delivering = Nothing /\ DueBy(Rows[p], now)
    /\ delivering' = <<p, Rows[p].generation, disk[p]>>
    /\ posts' = [d \in Documents |-> IF d = disk[p] THEN posts[d] + 1 ELSE posts[d]]
    /\ UNCHANGED <<storeVars, diskVars, service, watchVars, scan, baseline, faults>>

\* Slip: a document whose file is gone stays as it is.
ConcludeOnlySent ==
    /\ delivering # Nothing
    /\ LET p == delivering[1]  g == delivering[2]  d == delivering[3] IN
          IF d = NoDoc THEN UNCHANGED storeVars ELSE MarkSent(Vault, p, g, d)
    /\ delivering' = Nothing
    /\ UNCHANGED <<diskVars, service, watchVars, scan, posts, baseline, faults>>

\* delivery.py:185-188 and 205-210: mark_missing knows no generation.
Conclude ==
    /\ delivering # Nothing
    /\ LET p == delivering[1]  g == delivering[2]  d == delivering[3] IN
          IF d = NoDoc THEN MarkMissing(Vault, p) ELSE MarkSent(Vault, p, g, d)
    /\ delivering' = Nothing
    /\ UNCHANGED <<diskVars, service, watchVars, scan, posts, baseline, faults>>

-----------------------------------------------------------------------------
Clock ==
    /\ Tick
    /\ now + 1 + Quiet <= MaxTime \/ (service = "up" /\ watching /\ scan = NoScan)
    /\ "scan" \in Slow \/ scan = NoScan
    /\ "events" \in Slow \/ events = <<>>
    /\ "callback" \in Slow \/ observing = Nothing
    /\ delivering # Nothing /\ delivering[3] = NoDoc => "lookup" \in Slow
    /\ UNCHANGED <<diskVars, service, watchVars, scan, deliveryVars, baseline, faults>>

Users ==
    \/ \E p \in Paths : Create(p) \/ Modify(p) \/ Delete(p)
    \/ \E move \in Renames : Rename(move[1], move[2])

Observer == OnCreated \/ OnDeleted \/ OnMoved
Dispatcher == Observe \/ \E p \in Paths : DispatchGone(p) \/ Dispatch(p)
Main == ReadDirectory \/ FinishScan \/ StartWorker \/ ReplaceWatcher
Delivery == Conclude \/ \E p \in Paths : Attempt(p)

\* The program has handled all that has happened.
Quiescent ==
    /\ service = "up" /\ watching /\ events = <<>>
    /\ awaiting = {} /\ observing = Nothing
    /\ scan = NoScan /\ delivering = Nothing
    /\ Pending = {}

\* Nothing is left to do, and users may leave it at that.
Rest == Quiescent /\ UNCHANGED vars

Next ==
    \/ Users \/ Observer \/ Dispatcher \/ ObserveRaises \/ Start \/ Main
    \/ WatcherDies \/ Crash \/ Delivery \/ Clock \/ Rest

Spec == Init /\ [][Next]_vars

\* The threads of the program run and time passes; users, faults and restarts
\* may happen or not.
FairSpec ==
    /\ Spec
    /\ WF_vars(Observer) /\ WF_vars(Dispatcher) /\ WF_vars(Main)
    /\ WF_vars(Delivery) /\ WF_vars(Clock)

-----------------------------------------------------------------------------
(* Properties.                                                              *)

\* A new document is posted once, and a document of the baseline never, whatever
\* events, scans and restarts it goes through (docs/HANDOFF.md:515, 518).
AnnouncedOnce ==
    \A d \in Documents : posts[d] <= IF d \in baseline THEN 0 ELSE 1

\* No document is missed: once everything is handled, every eligible file whose
\* name is not a draft's has been posted or belongs to the baseline
\* (docs/HANDOFF.md:515, 519), unless its callback raised and it has neither been
\* touched nor scanned since.
NothingMissed ==
    Quiescent => \A p \in Scannable \ forgotten : disk[p] # NoDoc => Known(disk[p])

\* The rows agree with the disk once everything is handled: present rows are
\* those of existing files, so that later deletions, recreations and renames
\* are told apart from what is already known.
RowsMatchFiles ==
    Quiescent => \A p \in Paths :
        /\ Rows[p].present => disk[p] # NoDoc
        /\ p \in Scannable \ forgotten /\ disk[p] # NoDoc => Rows[p].present

\* No document is posted under a draft name (README.md:617).
NoDraftPosted ==
    delivering # Nothing /\ delivering[3] # NoDoc => delivering[1] \in Scannable

\* A document is posted only when it has been left alone for Quiet, unless it was
\* recorded before its last change: until its row is written every change starts
\* the quiet time again, and the row keeps the deadline it was written with
\* (state.py:183, 227-246).
QuietUntilRecorded ==
    [][ delivering = Nothing /\ delivering' # Nothing /\ delivering'[3] # NoDoc
        => LET p == delivering'[1] IN
              changed[p] + Quiet <= now \/ changed[p] >= Rows[p].firstObservedAt ]_vars

\* The program comes to rest: whatever the users did, their last change is
\* handled in the end unless the service goes down.
ComesToRest == []<>(Quiescent \/ service = "down")
=============================================================================
