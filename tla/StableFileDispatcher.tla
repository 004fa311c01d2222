------------------------- MODULE StableFileDispatcher -------------------------
(***************************************************************************)
(* The dispatcher of watcher.py: the observer thread submits and discards  *)
(* paths, the dispatcher thread waits until a scheduled one is due, looks  *)
(* at the file outside the lock, and reports or reschedules it.  A section *)
(* under the lock is one step; reading a signature is a step of its own on *)
(* both threads, since neither holds the lock then.                        *)
(*                                                                         *)
(* The disk and the observer's queue are the environment: a file is        *)
(* written, deleted (an event the dispatcher does not see) or renamed away *)
(* (handle_move discards it).                                              *)
(***************************************************************************)
EXTENDS Naturals, Sequences, FiniteSets

CONSTANTS
    Paths,
    Settle,
    NoEntry,     \* a path that is not in _scheduled, or a thread without one
    MaxVersion,  \* bound: changes of the disk
    Idle         \* bound: how long the clock runs when nothing is scheduled

ASSUME NoEntryAssumption == NoEntry \notin [signature : Nat, dueAt : Nat]
ASSUME TimesAssumption == Settle \in Nat /\ MaxVersion \in Nat /\ Idle \in Nat

VARIABLES
    files,      \* the signature of every file
    changed,    \* when a file last changed
    now,        \* time.monotonic()
    version,    \* the last signature given out
    events,     \* the observer's queue: <<operation, path>>
    submitting, \* the path and signature of a submit() before its lock
    scheduled,  \* _scheduled
    stopping,   \* _stopping
    pc,         \* where the dispatcher thread is
    hand,       \* the path and entry it has popped
    wakeAt,     \* when its wait times out
    signalled,  \* its wait was notified
    reported    \* history: the signature of the last callback of a path

diskVars == <<files, changed, now, version>>
callVars == <<events, submitting>>
threadVars == <<pc, hand, wakeAt, signalled>>
vars == <<diskVars, callVars, scheduled, stopping, threadVars, reported>>

Absent == 0
Entry == [signature : Nat, dueAt : Nat]
InHand == Paths \X Entry
Nothing == <<>>

PCs == {"top", "idle", "timed", "popped", "changed", "callback", "exited"}

TypeOK ==
    /\ files \in [Paths -> Nat]
    /\ changed \in [Paths -> Nat]
    /\ now \in Nat /\ version \in Nat /\ wakeAt \in Nat
    /\ events \in Seq({"submit", "discard"} \X Paths)
    /\ submitting \in (Paths \X Nat) \cup {Nothing}
    /\ scheduled \in [Paths -> Entry \cup {NoEntry}]
    /\ stopping \in BOOLEAN /\ signalled \in BOOLEAN
    /\ pc \in PCs
    /\ hand \in InHand \cup {Nothing}
    /\ hand # Nothing <=> pc \in {"popped", "changed", "callback"}
    /\ reported \in [Paths -> Nat]

Scheduled == {p \in Paths : scheduled[p] # NoEntry}

Init ==
    /\ files = [p \in Paths |-> Absent]
    /\ changed = [p \in Paths |-> 0]
    /\ now = 0 /\ version = 0
    /\ events = <<>> /\ submitting = Nothing
    /\ scheduled = [p \in Paths |-> NoEntry]
    /\ stopping = FALSE
    /\ pc = "top" /\ hand = Nothing /\ wakeAt = 0 /\ signalled = FALSE
    /\ reported = [p \in Paths |-> Absent]

-----------------------------------------------------------------------------
(* The disk.                                                                *)

Becomes(p, signature) ==
    /\ files' = [files EXCEPT ![p] = signature]
    /\ changed' = [changed EXCEPT ![p] = now]
    /\ version' = version + 1
    /\ UNCHANGED now

Write(p) ==
    /\ version < MaxVersion
    /\ Becomes(p, version + 1)
    /\ events' = Append(events, <<"submit", p>>)
    /\ UNCHANGED <<submitting, scheduled, stopping, threadVars, reported>>

Delete(p) ==
    /\ version < MaxVersion /\ files[p] # Absent
    /\ Becomes(p, Absent)
    /\ UNCHANGED <<callVars, scheduled, stopping, threadVars, reported>>

RenameAway(p) ==
    /\ version < MaxVersion /\ files[p] # Absent
    /\ Becomes(p, Absent)
    /\ events' = Append(events, <<"discard", p>>)
    /\ UNCHANGED <<submitting, scheduled, stopping, threadVars, reported>>

\* Time passes while a timer runs, and for Idle on its own.
Clock ==
    /\ now < Idle \/ \E p \in Scheduled : scheduled[p].dueAt > now
    /\ now' = now + 1
    /\ UNCHANGED <<files, changed, version, callVars, scheduled, stopping,
                   threadVars, reported>>

-----------------------------------------------------------------------------
(* The observer thread.                                                     *)

\* submit(), line 88: the signature is read before the lock is taken.
Submit(p) ==
    /\ submitting = Nothing
    /\ events # <<>> /\ Head(events) = <<"submit", p>>
    /\ events' = Tail(events)
    /\ submitting' = <<p, files[p]>>
    /\ UNCHANGED <<diskVars, scheduled, stopping, threadVars, reported>>

Schedule(p, signature) ==
    scheduled' = [scheduled EXCEPT ![p] =
                    [signature |-> signature, dueAt |-> now + Settle]]

Notify == signalled' = TRUE

\* Slip: the thread is not told.
SubmittedQuietly(p, signature) ==
    /\ submitting = <<p, signature>>
    /\ Schedule(p, signature)
    /\ submitting' = Nothing
    /\ UNCHANGED <<diskVars, events, stopping, threadVars, reported>>

\* submit(), lines 89-94.
Submitted(p, signature) ==
    /\ submitting = <<p, signature>>
    /\ Schedule(p, signature)
    /\ Notify
    /\ submitting' = Nothing
    /\ UNCHANGED <<diskVars, events, stopping, pc, hand, wakeAt, reported>>

Discard(p) ==
    /\ submitting = Nothing
    /\ events # <<>> /\ Head(events) = <<"discard", p>>
    /\ events' = Tail(events)
    /\ scheduled' = [scheduled EXCEPT ![p] = NoEntry]
    /\ Notify
    /\ UNCHANGED <<diskVars, submitting, stopping, pc, hand, wakeAt, reported>>

\* Slip: stop() does not wake the thread.
StopQuietly ==
    /\ ~ stopping
    /\ stopping' = TRUE
    /\ UNCHANGED <<diskVars, callVars, scheduled, threadVars, reported>>

\* stop(); VaultWatcher.stop() has stopped the observer before, but only waits
\* 10 seconds for it, so submissions may still arrive.
Stop ==
    /\ ~ stopping
    /\ stopping' = TRUE
    /\ Notify
    /\ UNCHANGED <<diskVars, callVars, scheduled, pc, hand, wakeAt, reported>>

-----------------------------------------------------------------------------
(* The dispatcher thread.                                                   *)

Earliest == {p \in Scheduled : \A q \in Scheduled : scheduled[p].dueAt <= scheduled[q].dueAt}

\* Lines 111-112; a notification sent while nobody waits is lost.
WaitForWork ==
    /\ pc = "top" /\ Scheduled = {} /\ ~ stopping
    /\ pc' = "idle"
    /\ signalled' = FALSE
    /\ UNCHANGED <<diskVars, callVars, scheduled, stopping, hand, wakeAt, reported>>

\* Lines 115-121.
WaitForDue ==
    /\ pc = "top" /\ ~ stopping
    /\ \E p \in Earliest :
          /\ scheduled[p].dueAt > now
          /\ wakeAt' = scheduled[p].dueAt
    /\ pc' = "timed"
    /\ signalled' = FALSE
    /\ UNCHANGED <<diskVars, callVars, scheduled, stopping, hand, reported>>

WakeUp ==
    /\ \/ pc = "idle" /\ signalled
       \/ pc = "timed" /\ (signalled \/ wakeAt <= now)
    /\ pc' = "top"
    /\ wakeAt' = 0
    /\ signalled' = FALSE
    /\ UNCHANGED <<diskVars, callVars, scheduled, stopping, hand, reported>>

Exit ==
    /\ pc = "top" /\ stopping
    /\ pc' = "exited"
    /\ UNCHANGED <<diskVars, callVars, scheduled, stopping, hand, wakeAt, signalled, reported>>

\* Lines 115-125; under one lock, so that line 123 finds its entry unchanged.
Pop(p) ==
    /\ pc = "top" /\ ~ stopping
    /\ p \in Earliest /\ scheduled[p].dueAt <= now
    /\ hand' = <<p, scheduled[p]>>
    /\ scheduled' = [scheduled EXCEPT ![p] = NoEntry]
    /\ pc' = "popped"
    /\ UNCHANGED <<diskVars, callVars, stopping, wakeAt, signalled, reported>>

\* Slip: the thread goes on and keeps the path of a file that is gone.
FoundGoneKeeping ==
    /\ pc = "popped" /\ files[hand[1]] = Absent
    /\ pc' = "top"
    /\ UNCHANGED <<diskVars, callVars, scheduled, stopping, hand, wakeAt, signalled, reported>>

\* Lines 127-129.
FoundGone ==
    /\ pc = "popped" /\ files[hand[1]] = Absent
    /\ pc' = "top"
    /\ hand' = Nothing
    /\ UNCHANGED <<diskVars, callVars, scheduled, stopping, wakeAt, signalled, reported>>

\* Slip: only a file that has not changed is handled further.
FoundChangedDropping ==
    /\ pc = "popped"
    /\ files[hand[1]] \notin {Absent, hand[2].signature}
    /\ hand' = Nothing
    /\ pc' = "top"
    /\ UNCHANGED <<diskVars, callVars, scheduled, stopping, wakeAt, signalled, reported>>

\* Lines 127 and 130: the signature to reschedule with is the one just read.
FoundChanged ==
    /\ pc = "popped"
    /\ files[hand[1]] \notin {Absent, hand[2].signature}
    /\ hand' = <<hand[1], [hand[2] EXCEPT !.signature = files[hand[1]]]>>
    /\ pc' = "changed"
    /\ UNCHANGED <<diskVars, callVars, scheduled, stopping, wakeAt, signalled, reported>>

\* Lines 131-137: overwrites whatever submit() has stored in the meantime.
Reschedule ==
    /\ pc = "changed"
    /\ Schedule(hand[1], hand[2].signature)
    /\ Notify
    /\ pc' = "top"
    /\ hand' = Nothing
    /\ UNCHANGED <<diskVars, callVars, stopping, wakeAt, reported>>

\* Lines 127-139: the signature is the one it had when it was scheduled.
FoundStable ==
    /\ pc = "popped"
    /\ files[hand[1]] # Absent /\ files[hand[1]] = hand[2].signature
    /\ reported' = [reported EXCEPT ![hand[1]] = files[hand[1]]]
    /\ pc' = "callback"
    /\ UNCHANGED <<diskVars, callVars, scheduled, stopping, hand, wakeAt, signalled>>

\* Slip: the entry is removed only now, and with it what was submitted since.
CallbackEndsClearing ==
    /\ pc = "callback"
    /\ scheduled' = [scheduled EXCEPT ![hand[1]] = NoEntry]
    /\ pc' = "top"
    /\ hand' = Nothing
    /\ UNCHANGED <<diskVars, callVars, stopping, wakeAt, signalled, reported>>

\* The callback returns, or raises and is logged.
CallbackEnds ==
    /\ pc = "callback"
    /\ pc' = "top"
    /\ hand' = Nothing
    /\ UNCHANGED <<diskVars, callVars, scheduled, stopping, wakeAt, signalled, reported>>

-----------------------------------------------------------------------------
Disk == Clock \/ \E p \in Paths : Write(p) \/ Delete(p) \/ RenameAway(p)

Observer ==
    \E p \in Paths :
        Submit(p) \/ Discard(p) \/ \E s \in 0..version : Submitted(p, s)

Looking == FoundGone \/ FoundChanged \/ FoundStable

Dispatcher ==
    \/ WaitForWork \/ WaitForDue \/ WakeUp \/ Exit
    \/ \E p \in Paths : Pop(p)
    \/ Looking \/ Reschedule \/ CallbackEnds

\* The thread has ended and everything it was told about has been told.
Done ==
    /\ pc = "exited" \/ (pc = "idle" /\ ~ signalled)
    /\ events = <<>> /\ submitting = Nothing /\ version = MaxVersion
    /\ UNCHANGED vars

Next == Disk \/ Observer \/ Stop \/ Dispatcher \/ Done

Spec == Init /\ [][Next]_vars

\* Both threads run and time passes; nothing is assumed of users or of Stop.
FairSpec == Spec /\ WF_vars(Dispatcher) /\ WF_vars(Observer) /\ WF_vars(Clock)

-----------------------------------------------------------------------------
(* Properties.                                                              *)

\* Paths the dispatcher owes an answer: those scheduled, and the one it has
\* taken out and not looked at, or not put back yet.
Awaiting ==
    {p \in Paths : \/ scheduled[p] # NoEntry
                   \/ pc \in {"popped", "changed"} /\ hand[1] = p}

\* The renames away from p that are still in the observer's queue.
Discards(p) == {i \in DOMAIN events : events[i] = <<"discard", p>>}
Renamed == [p \in Paths |-> Cardinality(Discards(p))]

D == INSTANCE Debounce WITH awaiting <- Awaiting, renamed <- Renamed

\* The dispatcher reports a file only after it has been at rest for Settle
\* although submissions, discards and the thread overlap; and a path it was
\* asked about is dropped only when its file is found to be gone, or by the
\* discard of a rename away from it, one for each (watcher.py:96-99, 127-137).
ImplementsDebounce == D!Spec

\* No submission is forgotten: when the observer has passed on everything and
\* the thread waits for work, every file has been reported as it is now, even
\* when it was written while the thread had its path in hand (watcher.py:125-137).
NothingForgotten ==
    events = <<>> /\ submitting = Nothing /\ pc = "idle" /\ ~ signalled
    => \A p \in Paths : files[p] # Absent => reported[p] = files[p]

\* The thread does not oversleep: while it waits and has not been notified,
\* nothing is scheduled before its wait times out.
NoOversleep ==
    /\ pc = "idle" /\ ~ signalled => Scheduled = {} /\ ~ stopping
    /\ pc = "timed" /\ ~ signalled =>
          ~ stopping /\ \A p \in Scheduled : wakeAt <= scheduled[p].dueAt

\* Every path that was submitted is answered: its file is reported, found
\* missing or renamed away, or the dispatcher stops.
EveryPathAnswered == \A p \in Paths : p \in Awaiting ~> stopping \/ p \notin Awaiting

\* stop() does not depend on its join timeout: the thread ends.
StopEnds == stopping ~> pc = "exited"
=============================================================================
