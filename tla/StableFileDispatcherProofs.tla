---------------------- MODULE StableFileDispatcherProofs ----------------------
(***************************************************************************)
(* What the runs of StableFileDispatcher check on two files, for any set   *)
(* of paths, any settle time and any number of changes.                    *)
(***************************************************************************)
EXTENDS StableFileDispatcher, SequenceTheorems, FiniteSetTheorems, FunctionTheorems,
        TLAPS

Look == /\ \A p \in Paths : changed[p] <= now /\ files[p] <= version
        /\ submitting # Nothing => submitting[2] <= version
        /\ pc \in {"popped", "changed"} => hand[2].signature <= version

\* An entry whose signature is that of the file was taken from a file that had
\* already been changed for the last time when the entry was made.
EntryRested(p) ==
    scheduled[p] # NoEntry =>
        /\ scheduled[p].signature <= version
        /\ files[p] # Absent /\ scheduled[p].signature = files[p]
           => changed[p] + Settle <= scheduled[p].dueAt

HandRested ==
    pc = "popped" /\ files[hand[1]] # Absent /\ hand[2].signature = files[hand[1]]
    => changed[hand[1]] + Settle <= now

\* The inductive invariant.
DispatcherInv ==
    /\ TypeOK
    /\ Look
    /\ \A p \in Paths : EntryRested(p)
    /\ HandRested

-----------------------------------------------------------------------------
\* A pair is not the empty sequence, which stands for nothing in hand.
LEMMA PairIsSomething == \A x, y : <<x, y>> # Nothing
  BY DEF Nothing

\* The types hold in the first state.
LEMMA TypeOKInit == Init => TypeOK
<1> SUFFICES ASSUME Init PROVE TypeOK
  OBVIOUS
<1>1. events \in Seq({"submit", "discard"} \X Paths)
  BY DEF Init
<1>2. scheduled \in [Paths -> Entry \cup {NoEntry}]
  BY DEF Init
<1>3. /\ files \in [Paths -> Nat] /\ changed \in [Paths -> Nat]
      /\ reported \in [Paths -> Nat]
      /\ now \in Nat /\ version \in Nat /\ wakeAt \in Nat
  BY DEF Init, Absent
<1>4. /\ submitting \in (Paths \X Nat) \cup {Nothing}
      /\ stopping \in BOOLEAN /\ signalled \in BOOLEAN
  BY DEF Init
<1>5. /\ pc \in PCs /\ hand \in InHand \cup {Nothing}
      /\ hand # Nothing <=> pc \in {"popped", "changed", "callback"}
  BY DEF Init, PCs
<1> QED
  BY <1>1, <1>2, <1>3, <1>4, <1>5 DEF TypeOK

\* Every step keeps the types.
LEMMA TypeOKStep == TypeOK /\ [Next]_vars => TypeOK'
<1> SUFFICES ASSUME TypeOK, [Next]_vars PROVE TypeOK'
  OBVIOUS
<1> USE TimesAssumption, PairIsSomething DEF TypeOK, PCs, Absent
<1>1. CASE Disk
  <2>1. CASE Clock
    BY <2>1 DEF Clock, callVars, threadVars
  <2>2. ASSUME NEW p \in Paths, Write(p) PROVE TypeOK'
    BY <2>2 DEF Write, Becomes, threadVars
  <2>3. ASSUME NEW p \in Paths, Delete(p) PROVE TypeOK'
    BY <2>3 DEF Delete, Becomes, callVars, threadVars
  <2>4. ASSUME NEW p \in Paths, RenameAway(p) PROVE TypeOK'
    BY <2>4 DEF RenameAway, Becomes, threadVars
  <2> QED
    BY <1>1, <2>1, <2>2, <2>3, <2>4 DEF Disk
<1>2. CASE Observer
  <2>1. ASSUME NEW p \in Paths, Submit(p) PROVE TypeOK'
    BY <2>1 DEF Submit, diskVars, threadVars
  <2>2. ASSUME NEW p \in Paths, Discard(p) PROVE TypeOK'
    BY <2>2 DEF Discard, Notify, diskVars, threadVars
  <2>3. ASSUME NEW p \in Paths, NEW s \in 0..version, Submitted(p, s) PROVE TypeOK'
    BY <2>3 DEF Submitted, Schedule, Notify, diskVars, Entry
  <2> QED
    BY <1>2, <2>1, <2>2, <2>3 DEF Observer
<1>3. CASE Stop
  BY <1>3 DEF Stop, Notify, diskVars, callVars
<1>4. CASE Dispatcher
  <2>1. CASE WaitForWork
    BY <2>1 DEF WaitForWork, diskVars, callVars
  <2>7. CASE Exit
    BY <2>7 DEF Exit, diskVars, callVars
  <2>8. CASE WakeUp
    <3>1. /\ pc \in {"idle", "timed"} /\ pc' = "top" /\ wakeAt' = 0 /\ signalled' = FALSE
          /\ UNCHANGED <<diskVars, callVars, scheduled, stopping, hand, reported>>
      BY <2>8 DEF WakeUp
    <3> QED
      BY <3>1 DEF diskVars, callVars
  <2>2. CASE WaitForDue
    BY <2>2 DEF WaitForDue, Earliest, Scheduled, Entry, diskVars, callVars
  <2>3. ASSUME NEW p \in Paths, Pop(p) PROVE TypeOK'
    BY <2>3 DEF Pop, Earliest, Scheduled, InHand, diskVars, callVars
  <2>4. CASE Looking
    <3>1. CASE FoundGone
      BY <3>1 DEF FoundGone, diskVars, callVars
    <3>2. CASE FoundChanged
      <4>1. hand \in Paths \X Entry /\ files[hand[1]] \in Nat
        BY <3>2 DEF FoundChanged, InHand
      <4>2. hand' \in InHand
        BY <3>2, <4>1 DEF FoundChanged, InHand, Entry
      <4> QED
        BY <3>2, <4>2 DEF FoundChanged, diskVars, callVars
    <3>3. CASE FoundStable
      BY <3>3 DEF FoundStable, InHand, diskVars, callVars
    <3> QED
      BY <2>4, <3>1, <3>2, <3>3 DEF Looking
  <2>5. CASE Reschedule
    BY <2>5 DEF Reschedule, Schedule, Notify, InHand, Entry, diskVars, callVars
  <2>6. CASE CallbackEnds
    BY <2>6 DEF CallbackEnds, diskVars, callVars
  <2> QED
    BY <1>4, <2>1, <2>2, <2>3, <2>4, <2>5, <2>6, <2>7, <2>8 DEF Dispatcher
<1>5. CASE UNCHANGED vars
  BY <1>5 DEF vars, diskVars, callVars, threadVars
<1> QED
  BY <1>1, <1>2, <1>3, <1>4, <1>5 DEF Next, Done

-----------------------------------------------------------------------------
\* The invariant behind the properties holds at first.
LEMMA DispatcherInvInit == Init => DispatcherInv
<1> SUFFICES ASSUME Init PROVE DispatcherInv
  OBVIOUS
<1>1. TypeOK
  BY TypeOKInit
<1>2. Look
  BY DEF Init, Look, Absent
<1>3. \A p \in Paths : EntryRested(p)
  BY DEF Init, EntryRested
<1>4. HandRested
  BY DEF Init, HandRested
<1> QED
  BY <1>1, <1>2, <1>3, <1>4 DEF DispatcherInv

\* What a change of the disk must leave true: the new signature of the file is
\* one that nobody has read before.
LEMMA ChangeKeepsInv ==
  ASSUME DispatcherInv, NEW p \in Paths, NEW s \in {Absent, version + 1}, Becomes(p, s),
         UNCHANGED <<submitting, scheduled, pc, hand>>
  PROVE  Look' /\ (\A q \in Paths : EntryRested(q)') /\ HandRested'
<1>0. /\ TypeOK /\ Look /\ HandRested /\ \A q \in Paths : EntryRested(q)
      /\ version \in Nat /\ now \in Nat /\ Settle \in Nat
      /\ \A q \in Paths : changed[q] \in Nat /\ files[q] \in Nat
  BY TimesAssumption DEF DispatcherInv, TypeOK
<1>1. /\ s \in Nat /\ s <= version + 1 /\ (s # Absent => s > version)
      /\ version' = version + 1 /\ now' = now
      /\ \A q \in Paths : files'[q] = IF q = p THEN s ELSE files[q]
      /\ \A q \in Paths : changed'[q] = IF q = p THEN now ELSE changed[q]
  BY <1>0 DEF Becomes, TypeOK, Absent
<1>2. \A q \in Paths : changed'[q] <= now' /\ files'[q] <= version'
  BY <1>0, <1>1 DEF Look
<1>3. submitting # Nothing => submitting[2] <= version'
  <2>1. submitting # Nothing => submitting[2] \in Nat /\ submitting[2] <= version
    BY <1>0 DEF Look, TypeOK
  <2> QED
    BY <2>1, <1>0, <1>1
<1>4. pc \in {"popped", "changed"} => /\ hand[1] \in Paths
                                      /\ hand[2].signature \in Nat
                                      /\ hand[2].signature <= version
  BY <1>0 DEF Look, TypeOK, InHand, Entry
<1>5. Look'
  <2>1. pc \in {"popped", "changed"} => hand[2].signature <= version'
    BY <1>0, <1>1, <1>4
  <2> QED
    BY <1>2, <1>3, <2>1 DEF Look
<1>6. ASSUME NEW q \in Paths PROVE EntryRested(q)'
  <2>1. SUFFICES ASSUME scheduled[q] # NoEntry PROVE EntryRested(q)'
    BY DEF EntryRested
  <2>2. scheduled[q].signature \in Nat
    BY <1>0, <2>1 DEF TypeOK, Entry
  <2>3. scheduled[q].signature <= version
    BY <1>0, <2>1 DEF EntryRested
  <2>4. \/ files'[q] = files[q] /\ changed'[q] = changed[q]
        \/ files'[q] \in {Absent, version + 1}
    BY <1>1
  <2>5. files[q] # Absent /\ scheduled[q].signature = files[q]
        => changed[q] + Settle <= scheduled[q].dueAt
    BY <1>0, <2>1 DEF EntryRested
  <2>6. scheduled[q].signature <= version' /\ scheduled[q].signature # version + 1
    BY <1>0, <1>1, <2>2, <2>3
  <2> QED
    BY <2>4, <2>5, <2>6 DEF EntryRested, Absent
<1>7. HandRested'
  <2>1. SUFFICES ASSUME pc = "popped" PROVE HandRested'
    BY DEF HandRested
  <2>2. \/ files'[hand[1]] = files[hand[1]] /\ changed'[hand[1]] = changed[hand[1]]
        \/ files'[hand[1]] \in {Absent, version + 1}
    BY <1>1, <1>4, <2>1
  <2>3. hand[2].signature # version + 1
    BY <1>0, <1>4, <2>1
  <2> QED
    BY <1>0, <1>1, <2>1, <2>2, <2>3 DEF HandRested, Absent
<1> QED
  BY <1>5, <1>6, <1>7

\* A path scheduled with a signature that was read before is at rest by the
\* time it is due, if the signature is still the file's.
LEMMA ScheduleKeepsRested ==
  ASSUME DispatcherInv, NEW p \in Paths, NEW s \in Nat, s <= version,
         Schedule(p, s), UNCHANGED diskVars
  PROVE  \A q \in Paths : EntryRested(q)'
<1> USE TimesAssumption DEF DispatcherInv, TypeOK
<1>1. SUFFICES ASSUME NEW q \in Paths PROVE EntryRested(q)'
  OBVIOUS
<1>2. UNCHANGED <<files, changed, now, version>>
  BY DEF diskVars
<1>3. CASE q = p
  <2>1. scheduled'[q] = [signature |-> s, dueAt |-> now + Settle]
    BY <1>3 DEF Schedule
  <2>2. changed[q] <= now
    BY DEF Look
  <2> QED
    BY <1>2, <2>1, <2>2 DEF EntryRested
<1>4. CASE q # p
  BY <1>2, <1>4 DEF EntryRested, Schedule
<1> QED
  BY <1>3, <1>4

\* Every step keeps the invariant behind the properties.
LEMMA DispatcherInvStep == DispatcherInv /\ [Next]_vars => DispatcherInv'
<1> SUFFICES ASSUME DispatcherInv, [Next]_vars
             PROVE  Look' /\ (\A q \in Paths : EntryRested(q)') /\ HandRested'
  BY TypeOKStep DEF DispatcherInv
<1>0. /\ TypeOK /\ Look /\ HandRested /\ \A q \in Paths : EntryRested(q)
      /\ version \in Nat /\ now \in Nat /\ Settle \in Nat
      /\ \A q \in Paths : changed[q] \in Nat /\ files[q] \in Nat
  BY TimesAssumption DEF DispatcherInv, TypeOK
<1>h. pc \in {"popped", "changed", "callback"} =>
        /\ hand[1] \in Paths /\ hand[2].signature \in Nat
        /\ hand # Nothing
  BY <1>0 DEF TypeOK, InHand, Entry
<1>1. CASE Clock
  BY <1>0, <1>1, <1>h DEF Clock, Look, EntryRested, HandRested, callVars, threadVars
<1>2. ASSUME NEW p \in Paths, Write(p) \/ Delete(p) \/ RenameAway(p)
      PROVE  Look' /\ (\A q \in Paths : EntryRested(q)') /\ HandRested'
  <2>1. PICK s \in {Absent, version + 1} : Becomes(p, s)
    BY <1>2 DEF Write, Delete, RenameAway
  <2>2. UNCHANGED <<submitting, scheduled, pc, hand>>
    BY <1>2 DEF Write, Delete, RenameAway, callVars, threadVars
  <2> QED
    BY <2>1, <2>2, ChangeKeepsInv
<1>3. ASSUME NEW p \in Paths, Submit(p)
      PROVE  Look' /\ (\A q \in Paths : EntryRested(q)') /\ HandRested'
  <2>1. UNCHANGED <<files, changed, now, version, scheduled, pc, hand>>
    BY <1>3 DEF Submit, diskVars, threadVars
  <2>2. submitting'[2] <= version'
    BY <1>0, <1>3, <2>1 DEF Submit, Look
  <2> QED
    BY <1>0, <2>1, <2>2 DEF Look, EntryRested, HandRested
<1>4. ASSUME NEW p \in Paths, NEW s \in 0..version, Submitted(p, s)
      PROVE  Look' /\ (\A q \in Paths : EntryRested(q)') /\ HandRested'
  <2>1. UNCHANGED <<files, changed, now, version, pc, hand>> /\ submitting' = Nothing
    BY <1>4 DEF Submitted, diskVars
  <2>2. \A q \in Paths : EntryRested(q)'
    BY <1>0, <1>4, ScheduleKeepsRested DEF Submitted
  <2> QED
    BY <1>0, <2>1, <2>2 DEF Look, HandRested
<1>5. ASSUME NEW p \in Paths, Discard(p)
      PROVE  Look' /\ (\A q \in Paths : EntryRested(q)') /\ HandRested'
  <2>1. UNCHANGED <<files, changed, now, version, submitting, pc, hand>>
    BY <1>5 DEF Discard, diskVars
  <2>2. \A q \in Paths : scheduled'[q] \in {scheduled[q], NoEntry}
    BY <1>0, <1>5 DEF Discard, TypeOK
  <2> QED
    BY <1>0, <2>1, <2>2 DEF Look, EntryRested, HandRested
<1>6. CASE Stop \/ WaitForWork \/ WaitForDue \/ WakeUp \/ Exit \/ UNCHANGED vars
  <2>1. /\ UNCHANGED <<files, changed, now, version, submitting, scheduled, hand>>
        /\ pc' \in {"popped", "changed"} => pc' = pc
    BY <1>6 DEF Stop, WaitForWork, WaitForDue, WakeUp, Exit, vars, diskVars, callVars, threadVars
  <2> QED
    BY <1>0, <2>1 DEF Look, EntryRested, HandRested
<1>7. ASSUME NEW p \in Paths, Pop(p)
      PROVE  Look' /\ (\A q \in Paths : EntryRested(q)') /\ HandRested'
  <2>1. /\ UNCHANGED <<files, changed, now, version, submitting>>
        /\ hand' = <<p, scheduled[p]>>
        /\ scheduled[p] # NoEntry /\ scheduled[p].dueAt <= now
    BY <1>7 DEF Pop, Earliest, Scheduled, diskVars, callVars
  <2>2. \A q \in Paths : scheduled'[q] \in {scheduled[q], NoEntry}
    BY <1>0, <1>7 DEF Pop, TypeOK
  <2>3. scheduled[p].dueAt \in Nat
    BY <1>0, <2>1 DEF TypeOK, Entry
  <2>4. EntryRested(p)
    BY <1>0
  <2>5. HandRested'
    BY <1>0, <2>1, <2>3, <2>4 DEF EntryRested, HandRested
  <2>6. Look'
    BY <1>0, <2>1, <2>4 DEF EntryRested, Look
  <2> QED
    BY <1>0, <2>1, <2>2, <2>5, <2>6 DEF EntryRested
<1>8. CASE Looking \/ CallbackEnds
  <2>1. /\ UNCHANGED <<files, changed, now, version, submitting, scheduled>>
        /\ pc' # "popped"
    BY <1>8 DEF Looking, FoundGone, FoundChanged, FoundStable, CallbackEnds, diskVars, callVars
  <2>2. ASSUME pc' = "changed" PROVE hand'[2].signature <= version
    <3>1. FoundChanged
      BY <1>8, <2>2 DEF Looking, FoundGone, FoundStable, CallbackEnds
    <3>2. hand'[2].signature = files[hand[1]] /\ hand[1] \in Paths
      BY <1>0, <3>1 DEF FoundChanged, TypeOK, InHand, Entry
    <3> QED
      BY <1>0, <3>2 DEF Look
  <2> QED
    BY <1>0, <2>1, <2>2 DEF Look, EntryRested, HandRested
<1>9. CASE Reschedule
  <2>1. /\ UNCHANGED <<files, changed, now, version, submitting>>
        /\ pc = "changed" /\ pc' = "top"
    BY <1>9 DEF Reschedule, diskVars, callVars
  <2>2. \A q \in Paths : EntryRested(q)'
    <3>1. hand[2].signature <= version /\ hand[1] \in Paths /\ hand[2].signature \in Nat
      BY <1>0, <1>h, <2>1 DEF Look
    <3> QED
      BY <1>9, <3>1, ScheduleKeepsRested DEF Reschedule
  <2> QED
    BY <1>0, <2>1, <2>2 DEF Look, HandRested
<1> QED
  BY <1>1, <1>2, <1>3, <1>4, <1>5, <1>6, <1>7, <1>8, <1>9
  DEF Next, Disk, Observer, Dispatcher, Done

-----------------------------------------------------------------------------
\* The dispatcher's variables keep their types.
THEOREM DispatcherTypeCorrect == Spec => []TypeOK
<1>1. TypeOK /\ [Next]_vars => TypeOK'
  BY TypeOKStep
<1> QED
  BY <1>1, TypeOKInit, PTL DEF Spec

\* The thread never oversleeps: a step that could make an entry due before the
\* wait ends, or asks the thread to stop, notifies it.
THEOREM DispatcherNoOversleep == Spec => []NoOversleep
<1>1. Init => NoOversleep
  BY DEF Init, NoOversleep
<1>2. TypeOK /\ NoOversleep /\ [Next]_vars => NoOversleep'
  <2> SUFFICES ASSUME TypeOK, NoOversleep, [Next]_vars PROVE NoOversleep'
    OBVIOUS
  <2>1. CASE \/ Disk \/ UNCHANGED vars
             \/ \E p \in Paths : Submit(p)
    <3>1. UNCHANGED <<scheduled, stopping, pc, wakeAt, signalled>>
      BY <2>1 DEF Disk, Clock, Write, Delete, RenameAway, Submit, vars, threadVars
    <3> QED
      BY <3>1 DEF NoOversleep, Scheduled
  <2>2. CASE Stop \/ Reschedule \/ \E p \in Paths :
                Discard(p) \/ \E s \in 0..version : Submitted(p, s)
    <3>1. signalled'
      BY <2>2 DEF Stop, Discard, Submitted, Reschedule, Notify
    <3> QED
      BY <3>1 DEF NoOversleep
  <2>3. CASE WaitForWork
    BY <2>3 DEF WaitForWork, NoOversleep, Scheduled
  <2>4. CASE WaitForDue
    <3>1. PICK p \in Earliest : wakeAt' = scheduled[p].dueAt
      BY <2>4 DEF WaitForDue
    <3>2. \A q \in Scheduled : wakeAt' <= scheduled[q].dueAt
      BY <3>1 DEF Earliest
    <3> QED
      BY <2>4, <3>2 DEF WaitForDue, NoOversleep, Scheduled
  <2>5. CASE WakeUp \/ Exit \/ Looking \/ CallbackEnds \/ \E p \in Paths : Pop(p)
    <3>1. pc' \notin {"idle", "timed"}
      BY <2>5 DEF WakeUp, Exit, Looking, FoundGone, FoundChanged, FoundStable,
                  CallbackEnds, Pop
    <3> QED
      BY <3>1 DEF NoOversleep
  <2> QED
    BY <2>1, <2>2, <2>3, <2>4, <2>5 DEF Next, Observer, Dispatcher, Done
<1> QED
  BY <1>1, <1>2, DispatcherTypeCorrect, PTL DEF Spec

-----------------------------------------------------------------------------
Event == {"submit", "discard"} \X Paths

\* The queue holds finitely many renames away from a path.
LEMMA DiscardsFinite ==
  ASSUME events \in Seq(Event), NEW p \in Paths
  PROVE  /\ IsFiniteSet(Discards(p)) /\ Cardinality(Discards(p)) \in Nat
         /\ Discards(p) \in SUBSET (1..Len(events)) /\ Len(events) \in Nat
<1>1. Len(events) \in Nat /\ DOMAIN events = 1..Len(events)
  BY LenProperties
<1>2. Discards(p) \in SUBSET (1..Len(events))
  BY <1>1 DEF Discards
<1>3. IsFiniteSet(1..Len(events))
  BY <1>1, FS_Interval
<1> QED
  BY <1>1, <1>2, <1>3, FS_Subset, FS_CardinalityType

\* An event at the end of the queue is one more rename away, or none.
LEMMA DiscardQueued ==
  ASSUME events \in Seq(Event), NEW e \in Event, events' = Append(events, e)
  PROVE  /\ (\A p \in Paths : e # <<"discard", p>>) => Renamed' = Renamed
         /\ \A p \in Paths : e = <<"discard", p>> =>
                Renamed' = [Renamed EXCEPT ![p] = @ + 1]
<1>1. PICK n \in Nat : /\ n = Len(events) /\ DOMAIN events = 1..n /\ DOMAIN events' = 1..(n + 1)
                       /\ events'[n + 1] = e /\ \A i \in 1..n : events'[i] = events[i]
  BY AppendProperties, LenProperties
<1>2. ASSUME NEW q \in Paths, e # <<"discard", q>> PROVE Discards(q)' = Discards(q)
  <2>1. \A i : i \in Discards(q) <=> i \in 1..n /\ events[i] = <<"discard", q>>
    BY <1>1 DEF Discards
  <2>2. \A i : i \in Discards(q)' <=> i \in 1..(n + 1) /\ events'[i] = <<"discard", q>>
    BY <1>1 DEF Discards
  <2>3. \A i : i \in 1..n <=> i \in 1..(n + 1) /\ i # n + 1
    BY <1>1
  <2> QED
    BY <1>1, <1>2, <2>1, <2>2, <2>3
<1>3. ASSUME NEW q \in Paths, e = <<"discard", q>>
      PROVE  Cardinality(Discards(q)') = Cardinality(Discards(q)) + 1
  <2>1. Discards(q)' = Discards(q) \cup {n + 1} /\ n + 1 \notin Discards(q)
    BY <1>1, <1>3 DEF Discards
  <2> QED
    BY <2>1, DiscardsFinite, FS_AddElement
<1>4. ASSUME NEW p \in Paths, e = <<"discard", p>>
      PROVE  Renamed' = [Renamed EXCEPT ![p] = @ + 1]
  <2>1. \A q \in Paths \ {p} : Discards(q)' = Discards(q)
    BY <1>2, <1>4
  <2> QED
    BY <1>3, <1>4, <2>1 DEF Renamed
<1> QED
  BY <1>2, <1>4 DEF Renamed

\* Taking the event at the head removes one rename away, or none.
LEMMA DiscardTaken ==
  ASSUME events \in Seq(Event), events # <<>>, events' = Tail(events)
  PROVE  /\ (\A p \in Paths : Head(events) # <<"discard", p>>) => Renamed' = Renamed
         /\ \A p \in Paths : Head(events) = <<"discard", p>> =>
                /\ Renamed[p] > 0
                /\ Renamed' = [Renamed EXCEPT ![p] = @ - 1]
<1>1. PICK n \in Nat : /\ n > 0 /\ DOMAIN events = 1..n /\ DOMAIN events' = 1..(n - 1)
                       /\ Head(events) = events[1]
                       /\ \A i \in 1..(n - 1) : events'[i] = events[i + 1]
  BY HeadTailProperties, LenProperties, EmptySeq
<1>2. ASSUME NEW q \in Paths
      PROVE  Cardinality(Discards(q)') = Cardinality(Discards(q) \ {1})
  <2> DEFINE shift == [i \in Discards(q) \ {1} |-> i - 1]
  <2>1. \A i : i \in Discards(q) \ {1} <=> i \in 2..n /\ events[i] = <<"discard", q>>
    BY <1>1 DEF Discards
  <2>2. \A j : j \in Discards(q)' <=> j \in 1..(n - 1) /\ events[j + 1] = <<"discard", q>>
    BY <1>1 DEF Discards
  <2>3. shift \in [Discards(q) \ {1} -> Discards(q)']
    <3>1. ASSUME NEW i \in Discards(q) \ {1} PROVE i - 1 \in Discards(q)'
      <4>1. i \in 2..n /\ events[i] = <<"discard", q>>
        BY <2>1
      <4>2. i - 1 \in 1..(n - 1) /\ (i - 1) + 1 = i
        BY <1>1, <4>1
      <4> QED
        BY <2>2, <4>1, <4>2
    <3> QED
      BY <3>1
  <2>4. \A i, j \in Discards(q) \ {1} : shift[i] = shift[j] => i = j
    BY <2>1
  <2>5. \A j \in Discards(q)' : \E i \in Discards(q) \ {1} : shift[i] = j
    <3> SUFFICES ASSUME NEW j \in Discards(q)'
                 PROVE  \E i \in Discards(q) \ {1} : shift[i] = j
      OBVIOUS
    <3>2. j \in 1..(n - 1) /\ events[j + 1] = <<"discard", q>>
      BY <2>2
    <3>3. j + 1 \in 2..n /\ (j + 1) - 1 = j
      BY <1>1, <3>2
    <3>1. j + 1 \in Discards(q) \ {1} /\ (j + 1) - 1 = j
      BY <2>1, <3>2, <3>3
    <3> QED
      BY <3>1
  <2>6. ExistsBijection(Discards(q) \ {1}, Discards(q)')
    BY <2>3, <2>4, <2>5, Fun_IsBij DEF ExistsBijection
  <2> HIDE DEF shift
  <2>7. IsFiniteSet(Discards(q) \ {1})
    BY DiscardsFinite, FS_RemoveElement
  <2> QED
    BY <2>6, <2>7, FS_Bijection
<1>3. ASSUME NEW q \in Paths
      PROVE  /\ Cardinality(Discards(q)) \in Nat
             /\ Head(events) # <<"discard", q>> =>
                   Cardinality(Discards(q)') = Cardinality(Discards(q))
             /\ Head(events) = <<"discard", q>> =>
                   /\ Cardinality(Discards(q)') = Cardinality(Discards(q)) - 1
                   /\ Cardinality(Discards(q)') \in Nat
  <2>1. Head(events) = <<"discard", q>> <=> 1 \in Discards(q)
    BY <1>1 DEF Discards
  <2>2. Cardinality(Discards(q) \ {1}) =
            IF 1 \in Discards(q) THEN Cardinality(Discards(q)) - 1 ELSE Cardinality(Discards(q))
    BY DiscardsFinite, FS_RemoveElement
  <2>3. IsFiniteSet(Discards(q)) /\ Cardinality(Discards(q)) \in Nat
    BY DiscardsFinite
  <2>4. Cardinality(Discards(q) \ {1}) \in Nat
    BY <2>3, FS_RemoveElement, FS_CardinalityType
  <2> QED
    BY <1>2, <2>1, <2>2, <2>3, <2>4
<1>4. ASSUME NEW p \in Paths, Head(events) = <<"discard", p>>
      PROVE  Renamed[p] > 0 /\ Renamed' = [Renamed EXCEPT ![p] = @ - 1]
  <2>1. \A q \in Paths \ {p} : Head(events) # <<"discard", q>>
    BY <1>4
  <2>2. \A q \in Paths \ {p} : Cardinality(Discards(q)') = Cardinality(Discards(q))
    BY <1>3, <2>1
  <2>3. /\ Cardinality(Discards(p)) > 0
        /\ Cardinality(Discards(p)') = Cardinality(Discards(p)) - 1
    BY <1>3, <1>4
  <2> QED
    BY <2>2, <2>3 DEF Renamed
<1> QED
  BY <1>3, <1>4 DEF Renamed

\* A step that keeps the dispatcher's obligations, the disk and the observer's
\* queue is a stutter.
LEMMA StutterIsStutter ==
  ASSUME UNCHANGED <<files, changed, now, reported>>, Awaiting' = Awaiting, Renamed' = Renamed
  PROVE  UNCHANGED D!vars
  BY DEF D!vars

\* Every step of the dispatcher is a step of Debounce, or nothing it can see.
LEMMA DispatcherStepRefines == DispatcherInv /\ [Next]_vars => [D!Next]_(D!vars)
<1> SUFFICES ASSUME DispatcherInv, [Next]_vars PROVE D!Next \/ UNCHANGED D!vars
  OBVIOUS
<1>0. /\ TypeOK /\ Look /\ HandRested
      /\ version \in Nat /\ now \in Nat /\ Settle \in Nat
      /\ files \in [Paths -> Nat] /\ changed \in [Paths -> Nat]
      /\ reported \in [Paths -> Nat]
      /\ scheduled \in [Paths -> Entry \cup {NoEntry}]
      /\ \A q \in Paths : files[q] <= version
      /\ events \in Seq(Event)
  BY TimesAssumption DEF DispatcherInv, TypeOK, Look, Event
<1>u. ASSUME UNCHANGED events PROVE Renamed' = Renamed
  BY <1>u DEF Renamed, Discards
<1>h. pc \in {"popped", "changed", "callback"} => hand \in Paths \X Entry
  BY <1>0 DEF TypeOK, InHand
<1>1. CASE Clock
  BY <1>1, <1>u DEF Clock, Awaiting, D!Next, D!Tick, callVars, threadVars
<1>2. ASSUME NEW p \in Paths, Write(p) \/ Delete(p) PROVE D!Next
  <2>1. PICK s \in {Absent, version + 1} : Becomes(p, s) /\ s # files[p]
    BY <1>0, <1>2 DEF Write, Delete, Absent
  <2>2. UNCHANGED <<scheduled, pc, hand, reported>>
    BY <1>2 DEF Write, Delete, callVars, threadVars
  <2>4. Renamed' = Renamed
    <3>1. CASE Write(p)
      <4>1. /\ <<"submit", p>> \in Event /\ events' = Append(events, <<"submit", p>>)
            /\ \A q \in Paths : <<"submit", p>> # <<"discard", q>>
        BY <3>1 DEF Write, Event
      <4> QED
        BY <1>0, <4>1, DiscardQueued
    <3>2. CASE Delete(p)
      BY <1>u, <3>2 DEF Delete, callVars
    <3> QED
      BY <1>2, <3>1, <3>2
  <2>3. D!Change(p)
    <3>1. files' = [files EXCEPT ![p] = s] /\ files'[p] = s /\ s \in Nat
      BY <1>0, <2>1 DEF Becomes, Absent
    <3> QED
      BY <2>1, <2>2, <2>4, <3>1 DEF Becomes, D!Change, Awaiting
  <2> QED
    BY <2>3 DEF D!Next
<1>11. ASSUME NEW p \in Paths, RenameAway(p) PROVE D!Next
  <2>1. /\ files[p] # Absent /\ Becomes(p, Absent)
        /\ UNCHANGED <<scheduled, pc, hand, reported>>
    BY <1>11 DEF RenameAway, threadVars
  <2>2. Renamed' = [Renamed EXCEPT ![p] = @ + 1]
    <3>1. <<"discard", p>> \in Event /\ events' = Append(events, <<"discard", p>>)
      BY <1>11 DEF RenameAway, Event
    <3> QED
      BY <1>0, <3>1, DiscardQueued
  <2>3. D!Rename(p)
    BY <2>1, <2>2 DEF Becomes, D!Rename, D!Absent, Absent, Awaiting
  <2> QED
    BY <2>3 DEF D!Next
<1>3. ASSUME NEW p \in Paths, NEW s \in 0..version, Submitted(p, s) PROVE D!Next
  <2>1. scheduled'[p] \in Entry /\ \A q \in Paths \ {p} : scheduled'[q] = scheduled[q]
    BY <1>0, <1>3 DEF Submitted, Schedule, Entry
  <2>2. scheduled'[p] # NoEntry
    BY <2>1, NoEntryAssumption DEF Entry
  <2>3. Awaiting' = Awaiting \cup {p}
    BY <1>3, <2>1, <2>2 DEF Submitted, Awaiting
  <2> QED
    BY <1>3, <1>u, <2>3 DEF Submitted, D!Next, D!Ask, diskVars
<1>4. ASSUME NEW p \in Paths, Discard(p) PROVE D!Next
  <2>1. scheduled'[p] = NoEntry /\ \A q \in Paths \ {p} : scheduled'[q] = scheduled[q]
    BY <1>0, <1>4 DEF Discard
  <2>2. UNCHANGED <<files, changed, now, reported, pc, hand>>
    BY <1>4 DEF Discard, diskVars
  <2>3. Awaiting' \in {Awaiting, Awaiting \ {p}}
    BY <2>1, <2>2 DEF Awaiting
  <2>4. Renamed[p] > 0 /\ Renamed' = [Renamed EXCEPT ![p] = @ - 1]
    <3>1. events # <<>> /\ events' = Tail(events) /\ Head(events) = <<"discard", p>>
      BY <1>4 DEF Discard
    <3> QED
      BY <1>0, <3>1, DiscardTaken
  <2>5. D!Withdraw(p)
    BY <2>2, <2>3, <2>4 DEF D!Withdraw
  <2> QED
    BY <2>5 DEF D!Next
<1>5. CASE \/ Stop \/ WaitForWork \/ WaitForDue \/ WakeUp \/ Exit \/ CallbackEnds
           \/ UNCHANGED vars \/ \E p \in Paths : Submit(p)
  <2>1. /\ UNCHANGED <<files, changed, now, reported, scheduled>>
        /\ \/ UNCHANGED <<pc, hand>>
           \/ pc \notin {"popped", "changed"} /\ pc' \notin {"popped", "changed"}
    BY <1>5 DEF Stop, WaitForWork, WaitForDue, WakeUp, Exit, CallbackEnds, Submit,
                vars, diskVars, callVars, threadVars
  <2>2. Renamed' = Renamed
    <3>1. ASSUME NEW p \in Paths, Submit(p) PROVE Renamed' = Renamed
      <4>1. /\ events # <<>> /\ events' = Tail(events)
            /\ \A q \in Paths : Head(events) # <<"discard", q>>
        BY <3>1 DEF Submit
      <4> QED
        BY <1>0, <4>1, DiscardTaken
    <3>2. CASE ~ \E p \in Paths : Submit(p)
      BY <1>5, <1>u, <3>2 DEF Stop, WaitForWork, WaitForDue, WakeUp, Exit, CallbackEnds,
                              vars, callVars
    <3> QED
      BY <3>1, <3>2
  <2> QED
    BY <2>1, <2>2, StutterIsStutter DEF Awaiting
<1>6. ASSUME NEW p \in Paths, Pop(p) PROVE UNCHANGED D!vars
  <2>1. /\ UNCHANGED <<files, changed, now, reported>>
        /\ pc = "top" /\ pc' = "popped" /\ hand' = <<p, scheduled[p]>>
        /\ scheduled[p] # NoEntry
    BY <1>6 DEF Pop, Earliest, Scheduled, diskVars
  <2>3. Renamed' = Renamed
    BY <1>6, <1>u DEF Pop, callVars
  <2>2. scheduled'[p] = NoEntry /\ \A q \in Paths \ {p} : scheduled'[q] = scheduled[q]
    BY <1>0, <1>6 DEF Pop
  <2> QED
    BY <2>1, <2>2, <2>3, StutterIsStutter DEF Awaiting
<1>7. CASE FoundGone
  <2>1. /\ UNCHANGED <<files, changed, now, reported, scheduled>>
        /\ pc = "popped" /\ pc' = "top" /\ files[hand[1]] = Absent /\ hand[1] \in Paths
    BY <1>h, <1>7 DEF FoundGone, diskVars
  <2>4. Renamed' = Renamed
    BY <1>7, <1>u DEF FoundGone, callVars
  <2>2. CASE scheduled[hand[1]] # NoEntry
    BY <2>1, <2>2, <2>4, StutterIsStutter DEF Awaiting
  <2>3. CASE scheduled[hand[1]] = NoEntry
    <3>1. Awaiting' = Awaiting \ {hand[1]} /\ hand[1] \in Awaiting
      BY <2>1, <2>3 DEF Awaiting
    <3> QED
      BY <2>1, <2>4, <3>1 DEF D!Next, D!GiveUp, D!Absent, Absent
  <2> QED
    BY <2>2, <2>3
<1>8. CASE FoundChanged
  <2>1. /\ UNCHANGED <<files, changed, now, reported, scheduled>>
        /\ pc = "popped" /\ pc' = "changed" /\ hand'[1] = hand[1]
    BY <1>8 DEF FoundChanged, diskVars
  <2>2. Renamed' = Renamed
    BY <1>8, <1>u DEF FoundChanged, callVars
  <2> QED
    BY <2>1, <2>2, StutterIsStutter DEF Awaiting
<1>9. CASE FoundStable
  <2>1. /\ UNCHANGED <<files, changed, now, scheduled>>
        /\ reported' = [reported EXCEPT ![hand[1]] = files[hand[1]]]
        /\ pc = "popped" /\ pc' = "callback" /\ hand[1] \in Paths
        /\ files[hand[1]] # Absent /\ hand[2].signature = files[hand[1]]
    BY <1>h, <1>9 DEF FoundStable, diskVars
  <2>2. changed[hand[1]] + Settle <= now
    BY <1>0, <2>1 DEF HandRested
  <2>3. hand[1] \in Awaiting /\ Awaiting' \in {Awaiting, Awaiting \ {hand[1]}}
    BY <2>1 DEF Awaiting
  <2>4. Renamed' = Renamed
    BY <1>9, <1>u DEF FoundStable, callVars
  <2> QED
    BY <2>1, <2>2, <2>3, <2>4 DEF D!Next, D!Report, D!Absent, Absent
<1>10. CASE Reschedule
  <2>1. /\ UNCHANGED <<files, changed, now, reported>>
        /\ pc = "changed" /\ pc' = "top" /\ hand[1] \in Paths
    BY <1>h, <1>10 DEF Reschedule, diskVars
  <2>2. /\ scheduled'[hand[1]] \in Entry
        /\ \A q \in Paths \ {hand[1]} : scheduled'[q] = scheduled[q]
    BY <1>0, <1>h, <1>10, <2>1 DEF Reschedule, Schedule, Entry
  <2>3. scheduled'[hand[1]] # NoEntry
    BY <2>2, NoEntryAssumption DEF Entry
  <2>4. Renamed' = Renamed
    BY <1>10, <1>u DEF Reschedule, callVars
  <2> QED
    BY <2>1, <2>2, <2>3, <2>4, StutterIsStutter DEF Awaiting
<1> QED
  BY <1>1, <1>2, <1>11, <1>3, <1>4, <1>5, <1>6, <1>7, <1>8, <1>9, <1>10
  DEF Next, Disk, Observer, Dispatcher, Looking, Done

\* The dispatcher, with its thread, lock and schedule, does what Debounce
\* promises: it reports a file only after the file has been at rest for Settle,
\* and drops a path only when it finds its file gone or hears of a rename away
\* from it, once for every such rename.
THEOREM DispatcherImplementsDebounce == Spec => ImplementsDebounce
<1>1. Init => D!Init
  <2> SUFFICES ASSUME Init PROVE D!Init
    OBVIOUS
  <2>1. Awaiting = {}
    BY DEF Init, Awaiting
  <2>2. Renamed = [p \in Paths |-> 0]
    <3>1. \A p \in Paths : Discards(p) = {}
      BY DEF Init, Discards
    <3> QED
      BY <3>1, FS_EmptySet DEF Renamed
  <2> QED
    BY <2>1, <2>2 DEF Init, D!Init, D!Absent, Absent
<1> QED
  BY <1>1, DispatcherInvInit, DispatcherInvStep, DispatcherStepRefines, PTL
  DEF Spec, ImplementsDebounce, D!Spec

-----------------------------------------------------------------------------
(* No submission is forgotten.                                              *)

\* After position i the queue does not tell that p was renamed away.
NotDiscarded(p, i) == \A j \in DOMAIN events : j > i => events[j] # <<"discard", p>>

\* The dispatcher has been asked about p, or will be, and not to forget it since.
Asked(p) == \E i \in DOMAIN events : events[i] = <<"submit", p>> /\ NotDiscarded(p, i)
Underway(p) ==
    /\ NotDiscarded(p, 0)
    /\ (submitting # Nothing /\ submitting[1] = p) \/ p \in Awaiting

\* A file that has not been reported as it is will be looked at.
NoneLost ==
    \A p \in Paths :
        files[p] # Absent /\ reported[p] # files[p] => Asked(p) \/ Underway(p)

\* A new event at the end of the queue leaves what is asked about other paths.
LEMMA EventQueued ==
  ASSUME events \in Seq(Event), NEW e \in Event, events' = Append(events, e), NEW p \in Paths
  PROVE  /\ e = <<"submit", p>> => Asked(p)'
         /\ e # <<"discard", p>> => /\ Asked(p) => Asked(p)'
                                    /\ NotDiscarded(p, 0) => NotDiscarded(p, 0)'
<1>1. PICK n \in Nat : /\ DOMAIN events = 1..n /\ DOMAIN events' = 1..(n + 1)
                       /\ events'[n + 1] = e /\ \A i \in 1..n : events'[i] = events[i]
  BY AppendProperties, LenProperties
<1>2. ASSUME e = <<"submit", p>> PROVE Asked(p)'
  <2>1. NotDiscarded(p, n + 1)' /\ n + 1 \in DOMAIN events'
    BY <1>1 DEF NotDiscarded
  <2> QED
    BY <1>1, <1>2, <2>1 DEF Asked
<1>3. ASSUME e # <<"discard", p>>, NEW i \in 0..n, NotDiscarded(p, i)
      PROVE  NotDiscarded(p, i)'
  <2> SUFFICES ASSUME NEW j \in 1..(n + 1), j > i PROVE events'[j] # <<"discard", p>>
    BY <1>1 DEF NotDiscarded
  <2>1. CASE j = n + 1
    BY <1>1, <1>3, <2>1
  <2>2. CASE j # n + 1
    <3>1. j \in DOMAIN events /\ events'[j] = events[j]
      BY <1>1, <2>2
    <3> QED
      BY <1>3, <3>1 DEF NotDiscarded
  <2> QED
    BY <2>1, <2>2
<1>4. ASSUME e # <<"discard", p>>, Asked(p) PROVE Asked(p)'
  <2>1. PICK i \in 1..n : events[i] = <<"submit", p>> /\ NotDiscarded(p, i)
    BY <1>1, <1>4 DEF Asked
  <2>2. NotDiscarded(p, i)' /\ i \in DOMAIN events' /\ events'[i] = events[i]
    BY <1>1, <1>3, <1>4, <2>1
  <2> QED
    BY <2>1, <2>2 DEF Asked
<1> QED
  BY <1>1, <1>2, <1>3, <1>4

\* The observer takes the event at the head of the queue: what is asked after it
\* stays asked, and when it is the last question, nothing forgets it.
LEMMA EventTaken ==
  ASSUME events \in Seq(Event), events # <<>>, events' = Tail(events), NEW p \in Paths
  PROVE  /\ NotDiscarded(p, 0) => NotDiscarded(p, 0)' /\ Head(events) # <<"discard", p>>
         /\ Asked(p) => Asked(p)' \/ (Head(events) = <<"submit", p>> /\ NotDiscarded(p, 0)')
<1>1. PICK n \in Nat : /\ n > 0 /\ DOMAIN events = 1..n /\ DOMAIN events' = 1..(n - 1)
                       /\ Head(events) = events[1]
                       /\ \A i \in 1..(n - 1) : events'[i] = events[i + 1]
  BY HeadTailProperties, LenProperties, EmptySeq
<1>2. ASSUME NEW i \in 1..n, NotDiscarded(p, i) PROVE NotDiscarded(p, i - 1)'
  BY <1>1, <1>2 DEF NotDiscarded
<1>3. ASSUME NotDiscarded(p, 0) PROVE NotDiscarded(p, 0)' /\ Head(events) # <<"discard", p>>
  BY <1>1, <1>3 DEF NotDiscarded
<1>4. ASSUME Asked(p)
      PROVE  Asked(p)' \/ (Head(events) = <<"submit", p>> /\ NotDiscarded(p, 0)')
  <2>1. PICK i \in 1..n : events[i] = <<"submit", p>> /\ NotDiscarded(p, i)
    BY <1>1, <1>4 DEF Asked
  <2>2. NotDiscarded(p, i - 1)'
    BY <1>2, <2>1
  <2>3. CASE i = 1
    BY <1>1, <2>1, <2>2, <2>3
  <2>4. CASE i # 1
    <3>1. i - 1 \in DOMAIN events' /\ events'[i - 1] = events[i]
      BY <1>1, <2>4
    <3> QED
      BY <2>1, <2>2, <3>1 DEF Asked
  <2> QED
    BY <2>3, <2>4
<1> QED
  BY <1>3, <1>4

\* What is asked or under way stays so while the observer's queue is untouched
\* and no answer is owed for fewer paths.
LEMMA UntouchedKept ==
  ASSUME UNCHANGED <<events, submitting>>, NEW p \in Paths, p \in Awaiting => p \in Awaiting'
  PROVE  (Asked(p) \/ Underway(p)) => (Asked(p) \/ Underway(p))'
<1>1. \A i : NotDiscarded(p, i) <=> NotDiscarded(p, i)'
  BY DEF NotDiscarded
<1>2. Asked(p) => Asked(p)'
  BY <1>1 DEF Asked
<1>3. Underway(p) => Underway(p)'
  BY <1>1 DEF Underway
<1> QED
  BY <1>2, <1>3

\* Every step keeps the question about every file that was not reported as it is:
\* only a report, a missing file or a rename ends it.
LEMMA NoneLostKept == TypeOK /\ NoneLost /\ [Next]_vars => NoneLost'
<1> SUFFICES ASSUME TypeOK, NoneLost, [Next]_vars,
                    NEW q \in Paths, files'[q] # Absent, reported'[q] # files'[q]
             PROVE  (Asked(q) \/ Underway(q))'
  BY DEF NoneLost
<1>t. /\ files \in [Paths -> Nat] /\ reported \in [Paths -> Nat]
      /\ scheduled \in [Paths -> Entry \cup {NoEntry}] /\ events \in Seq(Event)
  BY DEF TypeOK, Event
<1>h. pc \in {"popped", "changed", "callback"} => hand \in Paths \X Entry
  BY PairIsSomething DEF TypeOK, InHand
<1>e. \A s \in Nat, d \in Nat : [signature |-> s, dueAt |-> d] # NoEntry
  BY NoEntryAssumption
<1>0. files[q] # Absent /\ reported[q] # files[q] => Asked(q) \/ Underway(q)
  BY DEF NoneLost
<1>u. ASSUME UNCHANGED <<events, submitting, files, reported>>,
             q \in Awaiting => q \in Awaiting'
      PROVE  (Asked(q) \/ Underway(q))'
  BY <1>0, <1>u, UntouchedKept
<1>w. ASSUME NEW p \in Paths, NEW e \in Event, e[2] = p,
             events' = Append(events, e), UNCHANGED <<submitting, reported, scheduled, threadVars>>,
             \A r \in Paths \ {p} : files'[r] = files[r],
             e[1] = "submit" \/ files'[p] = Absent
      PROVE  (Asked(q) \/ Underway(q))'
  <2>1. CASE p = q
    <3>1. e = <<"submit", q>>
      BY <1>w, <2>1 DEF Event
    <3> QED
      BY <1>t, <1>w, <3>1, EventQueued
  <2>2. CASE p # q
    <3>1. e # <<"discard", q>> /\ (Asked(q) \/ Underway(q))
      BY <1>0, <1>w, <2>2
    <3>2. /\ Asked(q) => Asked(q)'
          /\ NotDiscarded(q, 0) => NotDiscarded(q, 0)'
      BY <1>t, <1>w, <3>1, EventQueued
    <3>3. (q \in Awaiting) = (q \in Awaiting')
      BY <1>w DEF Awaiting, threadVars
    <3>4. Underway(q) => Underway(q)'
      BY <1>w, <3>2, <3>3 DEF Underway
    <3> QED
      BY <3>1, <3>2, <3>4
  <2> QED
    BY <2>1, <2>2
<1>1. CASE Disk
  <2>1. CASE Clock
    BY <1>u, <2>1 DEF Clock, callVars, threadVars, Awaiting
  <2>2. ASSUME NEW p \in Paths, Write(p) PROVE (Asked(q) \/ Underway(q))'
    <3>1. <<"submit", p>> \in Event /\ \A r \in Paths \ {p} : files'[r] = files[r]
      BY <1>t, <2>2 DEF Write, Becomes, Event
    <3> QED
      BY <1>w, <2>2, <3>1 DEF Write
  <2>3. ASSUME NEW p \in Paths, Delete(p) PROVE (Asked(q) \/ Underway(q))'
    <3>1. p # q /\ files'[q] = files[q] /\ reported'[q] = reported[q]
      BY <1>t, <2>3 DEF Delete, Becomes
    <3>2. UNCHANGED <<events, submitting>> /\ (q \in Awaiting => q \in Awaiting')
      BY <2>3 DEF Delete, callVars, threadVars, Awaiting
    <3> QED
      BY <1>0, <3>1, <3>2, UntouchedKept
  <2>4. ASSUME NEW p \in Paths, RenameAway(p) PROVE (Asked(q) \/ Underway(q))'
    <3>1. /\ <<"discard", p>> \in Event /\ \A r \in Paths \ {p} : files'[r] = files[r]
          /\ files'[p] = Absent
      BY <1>t, <2>4 DEF RenameAway, Becomes, Event
    <3> QED
      BY <1>w, <2>4, <3>1 DEF RenameAway
  <2> QED
    BY <1>1, <2>1, <2>2, <2>3, <2>4 DEF Disk
<1>2. CASE Observer
  <2>1. ASSUME NEW p \in Paths, Submit(p) PROVE (Asked(q) \/ Underway(q))'
    <3>1. /\ UNCHANGED <<files, reported>> /\ (q \in Awaiting) = (q \in Awaiting')
          /\ events # <<>> /\ Head(events) = <<"submit", p>> /\ events' = Tail(events)
          /\ submitting = Nothing /\ submitting' = <<p, files[p]>>
      BY <2>1 DEF Submit, diskVars, threadVars, Awaiting
    <3>2. /\ NotDiscarded(q, 0) => NotDiscarded(q, 0)'
          /\ Asked(q) => Asked(q)' \/ (p = q /\ NotDiscarded(q, 0)')
      BY <1>t, <3>1, EventTaken
    <3>3. submitting' # Nothing /\ submitting'[1] = p
      BY <3>1, PairIsSomething
    <3> QED
      BY <1>0, <3>1, <3>2, <3>3 DEF Underway
  <2>2. ASSUME NEW p \in Paths, Discard(p) PROVE (Asked(q) \/ Underway(q))'
    <3>1. /\ UNCHANGED <<files, reported, submitting, pc, hand>>
          /\ events # <<>> /\ Head(events) = <<"discard", p>> /\ events' = Tail(events)
          /\ submitting = Nothing
          /\ \A r \in Paths \ {p} : scheduled'[r] = scheduled[r]
      BY <1>t, <2>2 DEF Discard, diskVars
    <3>2. /\ NotDiscarded(q, 0) => NotDiscarded(q, 0)' /\ p # q
          /\ Asked(q) => Asked(q)'
      BY <1>t, <3>1, EventTaken
    <3>3. p # q => (q \in Awaiting) = (q \in Awaiting')
      BY <3>1 DEF Awaiting
    <3> QED
      BY <1>0, <3>1, <3>2, <3>3 DEF Underway
  <2>3. ASSUME NEW p \in Paths, NEW s \in 0..version, Submitted(p, s)
        PROVE  (Asked(q) \/ Underway(q))'
    <3>1. /\ UNCHANGED <<files, reported, events, pc, hand>>
          /\ submitting = <<p, s>> /\ submitting' = Nothing
          /\ scheduled' = [scheduled EXCEPT ![p] = [signature |-> s, dueAt |-> now + Settle]]
      BY <2>3 DEF Submitted, Schedule, diskVars
    <3>2. version \in Nat /\ now + Settle \in Nat
      BY TimesAssumption DEF TypeOK
    <3>3. scheduled'[p] # NoEntry /\ \A r \in Paths \ {p} : scheduled'[r] = scheduled[r]
      BY <1>t, <1>e, <3>1, <3>2
    <3>4. (Underway(q) => q \in Awaiting') /\ (p = q => q \in Awaiting')
      BY <3>1, <3>3 DEF Awaiting, Underway
    <3>5. \A i : NotDiscarded(q, i) <=> NotDiscarded(q, i)'
      BY <3>1 DEF NotDiscarded
    <3>6. Asked(q) => Asked(q)'
      BY <3>1, <3>5 DEF Asked
    <3> QED
      BY <1>0, <3>1, <3>4, <3>5, <3>6 DEF Underway
  <2> QED
    BY <1>2, <2>1, <2>2, <2>3 DEF Observer
<1>3. CASE Stop \/ UNCHANGED vars
  BY <1>u, <1>3 DEF Stop, vars, diskVars, callVars, threadVars, Awaiting
<1>4. CASE WaitForWork \/ WaitForDue \/ WakeUp \/ Exit \/ CallbackEnds
  <2>1. /\ UNCHANGED <<diskVars, callVars, scheduled, reported>>
        /\ pc \in {"popped", "changed"} => pc' = pc /\ hand' = hand
    BY <1>4 DEF WaitForWork, WaitForDue, WakeUp, Exit, CallbackEnds
  <2> QED
    BY <1>u, <2>1 DEF diskVars, callVars, Awaiting
<1>5. ASSUME NEW p \in Paths, Pop(p) PROVE (Asked(q) \/ Underway(q))'
  <2>1. /\ UNCHANGED <<diskVars, callVars, reported>>
        /\ pc = "top" /\ pc' = "popped" /\ hand'[1] = p
        /\ \A r \in Paths \ {p} : scheduled'[r] = scheduled[r]
    BY <1>t, <1>5 DEF Pop
  <2> QED
    BY <1>u, <2>1 DEF diskVars, callVars, Awaiting
<1>6. CASE FoundGone \/ FoundStable
  <2>1. /\ UNCHANGED <<files, callVars, scheduled>> /\ pc = "popped" /\ hand[1] \in Paths
        /\ \A r \in Paths \ {hand[1]} : reported'[r] = reported[r]
    BY <1>t, <1>h, <1>6 DEF FoundGone, FoundStable, diskVars
  <2>2. q # hand[1]
    BY <1>t, <1>6, <2>1 DEF FoundGone, FoundStable
  <2> QED
    BY <1>0, <2>1, <2>2, UntouchedKept DEF callVars, Awaiting
<1>7. CASE FoundChanged
  <2>1. /\ UNCHANGED <<diskVars, callVars, scheduled, reported>>
        /\ pc' = "changed" /\ hand'[1] = hand[1]
    BY <1>7 DEF FoundChanged
  <2> QED
    BY <1>u, <2>1 DEF diskVars, callVars, Awaiting
<1>8. CASE Reschedule
  <2>1. /\ UNCHANGED <<diskVars, callVars, reported>>
        /\ pc = "changed" /\ pc' = "top" /\ hand \in Paths \X Entry
        /\ scheduled' = [scheduled EXCEPT ![hand[1]] =
                            [signature |-> hand[2].signature, dueAt |-> now + Settle]]
    BY <1>h, <1>8 DEF Reschedule, Schedule
  <2>2. hand[2].signature \in Nat /\ now + Settle \in Nat
    BY <2>1, TimesAssumption DEF TypeOK, Entry
  <2>3. /\ scheduled'[hand[1]] # NoEntry
        /\ \A r \in Paths \ {hand[1]} : scheduled'[r] = scheduled[r]
    BY <1>t, <1>e, <2>1, <2>2
  <2> QED
    BY <1>u, <2>1, <2>3 DEF diskVars, callVars, Awaiting
<1> QED
  BY <1>1, <1>2, <1>3, <1>4, <1>5, <1>6, <1>7, <1>8 DEF Next, Dispatcher, Looking, Done

\* When the observer has passed on everything and the thread waits for work,
\* every file has been reported as it is now: a submission made while the thread
\* had the path in hand, or before the thread waited, is never forgotten.
THEOREM DispatcherForgetsNothing == Spec => []NothingForgotten
<1>1. Init => NoneLost
  BY DEF Init, NoneLost
<1>2. TypeOK /\ NoneLost /\ NoOversleep => NothingForgotten
  <2> SUFFICES ASSUME TypeOK, NoneLost, NoOversleep,
                      events = <<>>, submitting = Nothing, pc = "idle", ~ signalled,
                      NEW p \in Paths, files[p] # Absent
               PROVE  reported[p] = files[p]
    BY DEF NothingForgotten
  <2>1. ~ Asked(p)
    BY EmptySeq, LenProperties DEF Asked
  <2>2. p \notin Awaiting
    BY DEF Awaiting, NoOversleep, Scheduled
  <2> QED
    BY <2>1, <2>2 DEF NoneLost, Underway
<1> QED
  BY <1>1, <1>2, NoneLostKept, DispatcherTypeCorrect, DispatcherNoOversleep, PTL DEF Spec
=============================================================================
