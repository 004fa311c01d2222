-------------------------- MODULE AnnouncementProofs --------------------------
(***************************************************************************)
(* What is posted, how often and when, for any number of vaults, documents *)
(* and threads.  An announcement is a document that became pending; birth  *)
(* follows the row it belongs to, and a thread posts the announcement it   *)
(* found when it read its row.                                             *)
(*                                                                         *)
(* Some of these properties fail when a document is renamed while it is    *)
(* being posted (the runs MCRenameInFlight and MCRenameReuse show how), so *)
(* their theorems say which renames must not happen.                       *)
(***************************************************************************)
EXTENDS SlotProofs

\* The announcement has been given out, when counts says how many have.
Made(b, counts) == b[3] <= counts[b[1]][b[2]]

\* Announcements of rows have been given out, each to one row.
BirthsApart ==
    \A v \in Vaults, p \in Paths : birth[v][p] # NoPost =>
        /\ Made(birth[v][p], made)
        /\ \A q \in Paths : birth[v][q] = birth[v][p] => q = p

\* So have the announcements of the threads.
AboutsMade == \A w \in Threads : Active(w) => Made(task[w].about, made)

\* The inductive invariant for NoRepostOfSent.
RepostInv ==
    /\ ServiceInv /\ SlotInv
    /\ BirthsApart /\ AboutsMade
    /\ NoRepostOfSent

-----------------------------------------------------------------------------
(* Announcements are given out once.                                        *)

\* The numbers only grow.
LEMMA MadeGrows ==
  ASSUME ServiceInv, Next, NEW b \in Posts, Made(b, made) PROVE Made(b, made')
<1>0. /\ TypeOK /\ Keyed /\ TasksAnnounce /\ Bounded'
      /\ b[1] \in Vaults /\ b[2] \in Paths /\ b[3] \in Nat
      /\ made[b[1]][b[2]] \in Nat
  BY PostsAreTriples, WorkerAssumption DEF ServiceInv, Next, TypeOK, WorkerTypeOK
<1>1. CASE made' = made
  BY <1>1 DEF Made
<1>2. CASE Announced
  <2>1. made'[b[1]][b[2]] \in {made[b[1]][b[2]], made[b[1]][b[2]] + 1}
    BY <1>0, <1>2, NewAnnouncements
  <2> QED
    BY <1>0, <2>1 DEF Made
<1> QED
  BY <1>0, <1>1, <1>2, RowsChange DEF OnMoved

\* A new announcement is not one that has been given out.
LEMMA NewIsNotMade ==
  ASSUME TypeOK, NEW v \in Vaults, NEW p \in Paths
  PROVE  ~ Made(<<v, p, made[v][p] + 1>>, made)
<1>1. made[v][p] \in Nat
  BY WorkerAssumption DEF TypeOK, WorkerTypeOK
<1> QED
  BY <1>1 DEF Made

\* Scans give out new numbers, and renames hand announcements on.
LEMMA BirthsApartKept == ASSUME ServiceInv, BirthsApart, Next PROVE BirthsApart'
<1> SUFFICES ASSUME NEW v \in Vaults, NEW p \in Paths, birth'[v][p] # NoPost
             PROVE  /\ Made(birth'[v][p], made')
                    /\ \A q \in Paths : birth'[v][q] = birth'[v][p] => q = p
  BY DEF BirthsApart, Made
<1>0. /\ TypeOK /\ Keyed /\ TasksAnnounce /\ Bounded' /\ Announceable
      /\ \A q \in Paths : birth[v][q] \in Posts \cup {NoPost}
  BY DEF ServiceInv, Next, TypeOK, WorkerTypeOK
<1>a. ASSUME NEW q \in Paths, birth[v][q] # NoPost
      PROVE  /\ Made(birth[v][q], made) /\ Made(birth[v][q], made')
             /\ \A r \in Paths : birth[v][r] = birth[v][q] => r = q
  BY <1>0, <1>a, MadeGrows DEF BirthsApart
<1>1. CASE UNCHANGED birth
  BY <1>1, <1>a
<1>2. CASE Announced
  <2>1. ASSUME NEW q \in Paths
        PROVE  \/ birth'[v][q] = birth[v][q]
               \/ birth'[v][q] = <<v, q, made[v][q] + 1>> /\ made'[v][q] = made[v][q] + 1
    BY <1>0, <1>2, NewAnnouncements
  <2>2. CASE birth'[v][p] = birth[v][p]
    <3>1. ASSUME NEW q \in Paths, birth'[v][q] = birth[v][p] PROVE q = p
      BY <1>0, <1>a, <2>1, <2>2, <3>1, NewIsNotMade
    <3> QED
      BY <1>a, <2>2, <3>1
  <2>3. CASE birth'[v][p] = <<v, p, made[v][p] + 1>> /\ made'[v][p] = made[v][p] + 1
    <3>1. Made(birth'[v][p], made')
      <4>1. made[v][p] \in Nat
        BY <1>0, WorkerAssumption DEF TypeOK, WorkerTypeOK
      <4> QED
        BY <2>3, <4>1 DEF Made
    <3>2. ASSUME NEW q \in Paths, birth'[v][q] = birth'[v][p] PROVE q = p
      <4>1. CASE birth'[v][q] = birth[v][q]
        BY <1>0, <1>a, <2>3, <3>2, <4>1, NewIsNotMade
      <4>2. CASE birth'[v][q] = <<v, q, made[v][q] + 1>>
        BY <2>3, <3>2, <4>2
      <4> QED
        BY <2>1, <4>1, <4>2
    <3> QED
      BY <3>1, <3>2
  <2> QED
    BY <2>1, <2>2, <2>3
<1>3. ASSUME NEW u \in Vaults, NEW src \in Paths, NEW dst \in Paths, OnMoved(u, src, dst)
      PROVE  /\ Made(birth'[v][p], made')
             /\ \A q \in Paths : birth'[v][q] = birth'[v][p] => q = p
  <2>0. birth \in [Vaults -> [Paths -> Posts \cup {NoPost}]]
    BY <1>0 DEF TypeOK, WorkerTypeOK
  <2>1. CASE u # v \/ ~ Exists(documents[u][src])
    <3>1. birth'[v] = birth[v]
      BY <1>3, <2>0, <2>1 DEF OnMoved
    <3> QED
      BY <1>a, <3>1
  <2>2. CASE u = v /\ Exists(documents[u][src])
    <3>1. \A q \in Paths : birth'[v][q] = IF q = dst THEN birth[v][src]
                                          ELSE IF q = src THEN NoPost ELSE birth[v][q]
      BY <1>3, <2>0, <2>2 DEF OnMoved
    <3> QED
      BY <1>a, <3>1
  <2> QED
    BY <2>1, <2>2
<1> QED
  BY <1>0, <1>1, <1>2, <1>3, RowsChange

\* A thread takes its announcement from a row.
LEMMA AboutsMadeKept ==
  ASSUME ServiceInv, BirthsApart, AboutsMade, Next PROVE AboutsMade'
<1> SUFFICES ASSUME NEW w \in Threads, Active(w)' PROVE Made(task'[w].about, made')
  BY DEF AboutsMade, Made
<1>0. TypeOK /\ Keyed /\ TasksAnnounce /\ Announceable
  BY DEF ServiceInv
<1>1. CASE Active(w) /\ task'[w].about = task[w].about
  BY <1>0, <1>1, ActiveNames, MadeGrows DEF AboutsMade
<1>2. ASSUME NEW key \in Keys, StillDue(RowOf(key), key[3]), task'[w].about = birth[key[1]][key[2]]
      PROVE  Made(task'[w].about, made')
  <2>1. /\ birth[key[1]][key[2]] # NoPost /\ birth[key[1]][key[2]] \in Posts
        /\ Made(birth[key[1]][key[2]], made)
    BY <1>0, <1>2
    DEF Announceable, StillDue, Deliverable, RowOf, Keys, BirthsApart, TypeOK, WorkerTypeOK
  <2> QED
    BY <1>2, <2>1, MadeGrows
<1> QED
  BY <1>0, <1>1, <1>2, ActiveAfter

-----------------------------------------------------------------------------
(* What has been recorded as announced is not posted again.                 *)

\* A row becomes sent by a thread whose task names it.
LEMMA SentByThread ==
  ASSUME TypeOK, NEW v \in Vaults, NEW p \in Paths, RowServed(v, p),
         documents'[v][p].status = "sent"
  PROVE  \/ /\ documents[v][p].status = "sent"
            /\ documents'[v][p].postId = documents[v][p].postId
         \/ \E w \in Threads :
               /\ Active(w) /\ Vault(w) = v /\ Path(w) = p
               /\ documents[v][p].generation = Generation(w)
               /\ documents'[v][p].postId = task[w].about
               /\ task'[w].step = "release"
<1> DEFINE old == documents[v][p]
           new == documents'[v][p]
<1>1. old \in Row
  BY DEF TypeOK, StoreTypeOK
<1>2. CASE new \in {old, Missing(old), Migrated(old), Resumed(old)}
  <2>1. new.status = old.status /\ new.postId = old.postId
    BY <1>1, <1>2 DEF Missing, Migrated, Resumed, Row
  <2> QED
    BY <2>1
<1>3. ASSUME NEW post, new = Sent(old, post) PROVE new.postId = post
  BY <1>1, <1>3 DEF Sent, Row
<1>4. ASSUME NEW at, new = Failed(old, at) PROVE new.status = old.status
  BY <1>1, <1>4 DEF Failed, Row
<1> HIDE DEF old, new
<1> QED
  BY <1>2, <1>3, <1>4 DEF RowServed, old, new

\* Two threads that are posting do not post for the same vault.
LEMMA OneThreadPerVault ==
  ASSUME SlotInv, NEW w \in Threads, NEW x \in Threads, Active(w), Active(x),
         Vault(w) = Vault(x)
  PROVE  w = x
  BY DEF SlotInv, OneTaskPerVault, Runners, Running, Active, At

\* A row is not marked sent while another thread posts its announcement.
LEMMA NoRepostKept == ASSUME RepostInv, Next PROVE NoRepostOfSent'
<1> SUFFICES ASSUME NEW w \in Threads, NEW v \in Vaults, NEW p \in Paths, Active(w)',
                    birth'[v][p] = task'[w].about, documents'[v][p].status = "sent"
             PROVE  FALSE
  BY DEF NoRepostOfSent, Active
<1>0. /\ ServiceInv /\ SlotInv /\ TypeOK /\ Keyed /\ TasksAnnounce /\ Announceable /\ Bounded'
      /\ \A q \in Paths : documents[v][q] \in Row
  BY DEF RepostInv, ServiceInv, Next, TypeOK, StoreTypeOK
<1>1. ASSUME NEW key \in Keys, Take(w), StillDue(RowOf(key), key[3]),
             task'[w].about = birth[key[1]][key[2]]
      PROVE  FALSE
  <2>1. UNCHANGED <<birth, documents>>
    BY <1>1 DEF Take, history, storeVars
  <2>2. /\ key[1] \in Vaults /\ key[2] \in Paths
        /\ documents[key[1]][key[2]].status = "pending"
    BY <1>1 DEF Keys, StillDue, Deliverable, RowOf
  <2>3. birth[v][p] = birth[key[1]][key[2]] /\ birth[v][p] # NoPost
    BY <1>0, <1>1, <2>1, <2>2 DEF Announceable
  <2>4. v = key[1] /\ p = key[2]
    BY <1>0, <2>2, <2>3 DEF Announceable, RepostInv, BirthsApart
  <2> QED
    BY <2>1, <2>2, <2>4
<1>2. CASE Active(w) /\ task'[w].about = task[w].about
  <2>0. /\ task[w].about # NoPost /\ task[w].about[1] = Vault(w)
        /\ \A q \in Paths : birth[v][q] = task[w].about => documents[v][q].status # "sent"
    BY <1>0, <1>2 DEF TasksAnnounce, RepostInv, NoRepostOfSent, Active
  <2>1. CASE UNCHANGED birth /\ RowServed(v, p)
    <3>1. PICK x \in Threads : Active(x) /\ Vault(x) = v /\ task'[x].step = "release"
      BY <1>0, <1>2, <2>0, <2>1, SentByThread
    <3>2. Vault(w) = v
      BY <1>0, <1>2, <2>0, <2>1 DEF Announceable
    <3>3. w = x
      BY <1>0, <1>2, <3>1, <3>2, OneThreadPerVault
    <3> QED
      BY <3>1, <3>3 DEF Active
  <2>2. CASE Announced /\ RowScanned(v, p)
    <3>1. ~ Born(v, p)
      BY <1>0, <2>2, ScannedRow
    <3>2. birth'[v][p] = birth[v][p]
      BY <1>0, <2>2, <3>1, NewAnnouncements
    <3>3. documents'[v][p] \in {documents[v][p], Missing(documents[v][p]), BaselineRow}
      BY <1>0, <2>2, <3>1, ScannedRow
    <3>4. documents[v][p].status = "sent"
      BY <1>0, <3>3 DEF Missing, BaselineRow, Row
    <3> QED
      BY <1>2, <2>0, <3>2, <3>4
  <2>3. ASSUME NEW u \in Vaults, NEW src \in Paths, NEW dst \in Paths, OnMoved(u, src, dst)
        PROVE  FALSE
    <3>1. \/ documents'[v][p] = documents[v][p] /\ birth'[v][p] = birth[v][p]
          \/ documents'[v][p] = NoRow
          \/ /\ u = v /\ birth'[v][p] = birth[u][src]
             /\ documents'[v][p] = [documents[u][src] EXCEPT !.present = TRUE]
      BY <1>0, <2>3, RenamedRow
    <3> QED
      BY <1>0, <1>2, <2>0, <3>1 DEF NoRow, Row
  <2> QED
    BY <1>0, <2>1, <2>2, <2>3, RowsChange
<1> QED
  BY <1>0, <1>1, <1>2, ActiveAfter

\* Every step keeps the invariant.
LEMMA RepostInvKept == RepostInv /\ [Next]_vars => RepostInv'
<1> SUFFICES ASSUME RepostInv, [Next]_vars PROVE RepostInv'
  OBVIOUS
<1>1. ServiceInv' /\ SlotInv'
  BY StepKeepsServiceInv, SlotsKept DEF RepostInv
<1>2. CASE Next
  BY <1>1, <1>2, BirthsApartKept, AboutsMadeKept, NoRepostKept DEF RepostInv
<1>3. CASE UNCHANGED vars
  BY <1>1, <1>3 DEF vars, workerVars, storeVars, poolVars, history, RepostInv, BirthsApart,
                    AboutsMade, Made, Active, Busy, NoRepostOfSent
<1> QED
  BY <1>2, <1>3

\* Nothing is announced before anything runs.
LEMMA InitRepost == Init => RepostInv
<1> SUFFICES ASSUME Init PROVE RepostInv
  OBVIOUS
<1>1. /\ \A w \in Threads : task[w] = Idle
      /\ \A v \in Vaults, p \in Paths : birth[v][p] = NoPost
  BY DEF Init, WorkerInit
<1> QED
  BY <1>1, InitServiceInv, InitSlots
  DEF RepostInv, BirthsApart, AboutsMade, NoRepostOfSent, Active, Busy

\* The invariant holds of every behaviour.
LEMMA RepostInvariant == Spec => []RepostInv
  BY InitRepost, RepostInvKept, PTL DEF Spec

\* A document recorded as announced is not posted again, wherever its row has been
\* renamed to, and although the records a pass submits may be stale: the row is
\* read again before the POST (delivery.py:176-183), and no other thread can record
\* it meanwhile, for a vault has one task.
THEOREM ServiceNoRepostOfSent == Spec => []NoRepostOfSent
<1>1. RepostInv => NoRepostOfSent
  BY DEF RepostInv
<1> QED
  BY <1>1, RepostInvariant, PTL

-----------------------------------------------------------------------------
(* Announced once, when no document is renamed while it is being posted.    *)

\* A rename gives p the row of another path, or takes its row away.
RenameTouches(v, p) ==
    \E src, dst \in Paths :
        /\ <<src, dst>> \in Renames /\ p \in {src, dst}
        /\ OnMoved(v, src, dst) /\ Exists(documents[v][src])

\* The step renames nothing from or onto the path of a document being posted.
SpareUnderWay == \A w \in Threads : Active(w) => ~ RenameTouches(Vault(w), Path(w))

\* The thread with this key posts the announcement b of the row the key names,
\* unless the document was recreated meanwhile, and no answer to b is recorded.
Attempting(key, b) ==
    /\ key[3] <= RowOf(key).generation
    /\ RowOf(key).generation = key[3] => birth[key[1]][key[2]] = b
    /\ answered[b] = 0
    /\ \A q \in Paths : birth[key[1]][q] = b => q = key[2] /\ RowOf(key).generation = key[3]

Attempts == \A w \in Threads : Active(w) => Attempting(task[w].key, task[w].about)

\* No answer is recorded to the announcement of a pending row,
Unanswered ==
    \A v \in Vaults, p \in Paths :
        documents[v][p].status = "pending" => answered[birth[v][p]] = 0

\* or to one that was never given out.
Unused == \A b \in Posts : answered[b] > 0 => Made(b, made)

\* The inductive invariant for NoDuplicateAnnouncement and SentRowWasAnnounced.
OnceInv ==
    /\ RepostInv
    /\ Attempts /\ Unanswered /\ Unused
    /\ SentRowWasAnnounced
    /\ NoDuplicateAnnouncement

\* A rename of a path without a row changes no row and no announcement.
LEMMA EmptyRename ==
  ASSUME TypeOK, NEW v \in Vaults, NEW src \in Paths, NEW dst \in Paths,
         OnMoved(v, src, dst), ~ Exists(documents[v][src])
  PROVE  UNCHANGED <<birth, documents>>
<1>1. documents' = [documents EXCEPT ![v] = MoveResult(documents[v], src, dst)]
  BY DEF OnMoved, MovePath
<1> QED
  BY <1>1 DEF OnMoved, MoveResult, TypeOK, StoreTypeOK

\* An answer is recorded by one thread, for the announcement it posted.
AnswerRecorded(w) ==
    /\ RecordSent(w) /\ Active(w) /\ task[w].about \in Posts
    /\ answered' = [answered EXCEPT ![task[w].about] = IF @ = 0 THEN 1 ELSE 2]

\* It changes the count of that announcement only.
LEMMA CountOfAnswer ==
  ASSUME TypeOK, NEW b \in Posts, NEW w \in Threads, AnswerRecorded(w)
  PROVE  /\ b # task[w].about => answered'[b] = answered[b]
         /\ b = task[w].about /\ answered[b] = 0 => answered'[b] = 1
         /\ task'[w] = [task[w] EXCEPT !.step = "release"]
<1>1. answered \in [Posts -> 0..2] /\ task \in [Threads -> Task \cup {Idle}]
  BY DEF TypeOK, WorkerTypeOK
<1>2. task' = [task EXCEPT ![w].step = "release"]
  BY DEF AnswerRecorded, RecordSent, Goto
<1> QED
  BY <1>1, <1>2 DEF AnswerRecorded

\* The answers recorded after a step, said of one announcement.
LEMMA AnsweredAfter ==
  ASSUME ServiceInv, Next, NEW b \in Posts, answered'[b] # answered[b]
  PROVE  \E w \in Threads : AnswerRecorded(w) /\ task[w].about = b
<1>1. TypeOK /\ Keyed /\ TasksAnnounce
  BY DEF ServiceInv
<1>2. \/ answered' = answered
      \/ \E w \in Threads : AnswerRecorded(w)
  BY <1>1, AnswersCounted DEF AnswerRecorded
<1> QED
  BY <1>1, <1>2, CountOfAnswer

\* An answer is recorded at most once, and only for an announcement given out.
LEMMA OnceKept ==
  ASSUME OnceInv, Next PROVE Unused' /\ NoDuplicateAnnouncement'
<1>0. /\ ServiceInv /\ TypeOK /\ TypeOK' /\ AboutsMade
      /\ answered \in [Posts -> 0..2]
  BY StepKeepsServiceInv DEF OnceInv, RepostInv, ServiceInv, TypeOK, WorkerTypeOK
<1>1. ASSUME NEW b \in Posts
      PROVE  answered'[b] <= 1 /\ (answered'[b] > 0 => Made(b, made'))
  <2>1. CASE answered'[b] = answered[b]
    BY <1>0, <2>1, MadeGrows DEF OnceInv, Unused, NoDuplicateAnnouncement
  <2>2. CASE answered'[b] # answered[b]
    <3>1. PICK w \in Threads : AnswerRecorded(w) /\ task[w].about = b
      BY <1>0, <2>2, AnsweredAfter
    <3>2. answered[b] = 0 /\ Made(b, made)
      BY <1>0, <3>1 DEF AnswerRecorded, OnceInv, Attempts, Attempting, AboutsMade
    <3>3. answered'[b] = 1
      BY <1>0, <3>1, <3>2, CountOfAnswer
    <3>4. Made(b, made')
      BY <1>0, <3>2, MadeGrows
    <3> QED
      BY <3>3, <3>4
  <2> QED
    BY <2>1, <2>2
<1> QED
  BY <1>1 DEF Unused, NoDuplicateAnnouncement

\* A pending row still stands for an announcement nobody has answered.
LEMMA UnansweredKept == ASSUME OnceInv, Next PROVE Unanswered'
<1> SUFFICES ASSUME NEW v \in Vaults, NEW p \in Paths, documents'[v][p].status = "pending"
             PROVE  answered'[birth'[v][p]] = 0
  BY DEF Unanswered
<1>0. /\ ServiceInv /\ ServiceInv' /\ TypeOK /\ Keyed /\ TasksAnnounce /\ Bounded'
      /\ Announceable /\ Announceable' /\ BirthsApart /\ SlotInv
      /\ documents \in [Vaults -> [Paths -> Row]]
      /\ answered \in [Posts -> 0..2]
      /\ birth \in [Vaults -> [Paths -> Posts \cup {NoPost}]]
      /\ birth' \in [Vaults -> [Paths -> Posts \cup {NoPost}]]
  BY StepKeepsServiceInv
  DEF OnceInv, RepostInv, ServiceInv, Next, TypeOK, StoreTypeOK, WorkerTypeOK
<1>t. TypeOK
  BY <1>0
<1>a. ASSUME NEW q \in Paths, documents[v][q].status = "pending"
      PROVE  birth[v][q] \in Posts /\ answered[birth[v][q]] = 0
  BY <1>0, <1>a DEF OnceInv, Unanswered, Announceable
<1>b. birth'[v][p] \in Posts
  BY <1>0 DEF Announceable
<1>1. CASE UNCHANGED birth /\ RowServed(v, p)
  <2>1. documents[v][p].status = "pending"
    BY <1>0, <1>1, ServedRow
  <2>2. CASE answered'[birth[v][p]] # answered[birth[v][p]]
    <3>1. PICK w \in Threads : AnswerRecorded(w) /\ task[w].about = birth[v][p]
      BY <1>0, <1>a, <2>1, <2>2, AnsweredAfter
    <3>2. Active(w) /\ Vault(w) = v /\ birth[v][p] # NoPost
      BY <1>0, <2>1, <3>1 DEF AnswerRecorded, TasksAnnounce, Announceable
    <3>3. Path(w) = p /\ documents[v][p].generation = Generation(w)
      BY <3>1, <3>2 DEF OnceInv, Attempts, Attempting, RowOf, Vault, Path, Generation
    <3>4. documents'[v][p] = Sent(documents[v][p], task[w].about)
      BY <1>0, <2>1, <3>1, <3>2, <3>3 DEF AnswerRecorded, RecordSent, MarkSent, AcceptsSent
    <3> QED
      BY <1>0, <3>4 DEF Sent, Row
  <2> QED
    BY <1>1, <1>a, <2>1, <2>2
<1>2. CASE Announced /\ RowScanned(v, p)
  <2>0. answered' = answered
    BY <1>2 DEF Announced
  <2>1. CASE Born(v, p)
    <3>1. birth'[v][p] = <<v, p, made[v][p] + 1>>
      BY <1>0, <1>2, <2>1, NewAnnouncements
    <3>2. ~ Made(birth'[v][p], made)
      BY <1>0, <3>1, NewIsNotMade
    <3> QED
      BY <1>0, <1>b, <2>0, <3>2 DEF OnceInv, Unused
  <2>2. CASE ~ Born(v, p)
    <3>1. birth'[v][p] = birth[v][p]
      BY <1>0, <1>2, <2>2, NewAnnouncements
    <3>2. documents'[v][p] \in {documents[v][p], Missing(documents[v][p]), BaselineRow}
      BY <1>0, <1>2, <2>2, ScannedRow
    <3>3. documents[v][p].status = "pending"
      BY <1>0, <3>2 DEF Missing, BaselineRow, Row
    <3> QED
      BY <1>a, <2>0, <3>1, <3>3
  <2> QED
    BY <2>1, <2>2
<1>3. ASSUME NEW u \in Vaults, NEW src \in Paths, NEW dst \in Paths, OnMoved(u, src, dst)
      PROVE  answered'[birth'[v][p]] = 0
  <2>1. answered' = answered
    BY <1>3 DEF OnMoved
  <2>2. \/ documents'[v][p] = documents[v][p] /\ birth'[v][p] = birth[v][p]
        \/ documents'[v][p] = NoRow
        \/ /\ u = v /\ birth'[v][p] = birth[u][src]
           /\ documents'[v][p] = [documents[u][src] EXCEPT !.present = TRUE]
    BY <1>3, <1>t, RenamedRow
  <2> QED
    BY <1>0, <1>a, <2>1, <2>2 DEF NoRow, Row
<1> QED
  BY <1>0, <1>1, <1>2, <1>3, RowsChange

\* A row is marked sent with the announcement it stands for.
LEMMA SentKept == ASSUME OnceInv, Next PROVE SentRowWasAnnounced'
<1> SUFFICES ASSUME NEW v \in Vaults, NEW p \in Paths, documents'[v][p].status = "sent"
             PROVE  documents'[v][p].postId = birth'[v][p]
  BY DEF SentRowWasAnnounced
<1>0. /\ ServiceInv /\ TypeOK /\ Keyed /\ TasksAnnounce /\ Bounded'
      /\ documents \in [Vaults -> [Paths -> Row]]
  BY DEF OnceInv, RepostInv, ServiceInv, Next, TypeOK, StoreTypeOK
<1>a. ASSUME NEW q \in Paths, documents[v][q].status = "sent"
      PROVE  documents[v][q].postId = birth[v][q]
  BY <1>a DEF OnceInv, SentRowWasAnnounced
<1>1. CASE UNCHANGED birth /\ RowServed(v, p)
  <2>1. CASE documents[v][p].status = "sent" /\ documents'[v][p].postId = documents[v][p].postId
    BY <1>1, <1>a, <2>1
  <2>2. ASSUME NEW w \in Threads, Active(w), Vault(w) = v, Path(w) = p,
               documents[v][p].generation = Generation(w),
               documents'[v][p].postId = task[w].about
        PROVE  documents'[v][p].postId = birth'[v][p]
    BY <1>1, <2>2 DEF OnceInv, Attempts, Attempting, RowOf, Vault, Path, Generation
  <2> QED
    BY <1>0, <1>1, <2>1, <2>2, SentByThread
<1>2. CASE Announced /\ RowScanned(v, p)
  <2>1. ~ Born(v, p)
    BY <1>0, <1>2, ScannedRow
  <2>2. birth'[v][p] = birth[v][p]
    BY <1>0, <1>2, <2>1, NewAnnouncements
  <2>3. documents'[v][p] \in {documents[v][p], Missing(documents[v][p]), BaselineRow}
    BY <1>0, <1>2, <2>1, ScannedRow
  <2>4. documents[v][p] \in Row
    BY <1>0
  <2>5. /\ documents[v][p].status = "sent"
        /\ documents'[v][p].postId = documents[v][p].postId
    BY <2>3, <2>4 DEF Missing, BaselineRow, Row
  <2> QED
    BY <1>a, <2>2, <2>5
<1>3. ASSUME NEW u \in Vaults, NEW src \in Paths, NEW dst \in Paths, OnMoved(u, src, dst)
      PROVE  documents'[v][p].postId = birth'[v][p]
  <2>1. \/ documents'[v][p] = documents[v][p] /\ birth'[v][p] = birth[v][p]
        \/ documents'[v][p] = NoRow
        \/ /\ u = v /\ birth'[v][p] = birth[u][src]
           /\ documents'[v][p] = [documents[u][src] EXCEPT !.present = TRUE]
    BY <1>0, <1>3, RenamedRow
  <2> QED
    BY <1>0, <1>a, <2>1 DEF NoRow, Row
<1> QED
  BY <1>0, <1>1, <1>2, <1>3, RowsChange

\* A thread that has just read its row is about to post its announcement.
LEMMA AttemptBegins ==
  ASSUME OnceInv, NEW key \in Keys, StillDue(RowOf(key), key[3])
  PROVE  Attempting(key, birth[key[1]][key[2]])
<1>1. /\ key[1] \in Vaults /\ key[2] \in Paths /\ key[3] \in Nat
      /\ RowOf(key).generation = key[3]
      /\ documents[key[1]][key[2]].status = "pending"
  BY BoundsAssumption DEF Keys, StillDue, Deliverable, RowOf
<1>2. birth[key[1]][key[2]] # NoPost /\ answered[birth[key[1]][key[2]]] = 0
  BY <1>1 DEF OnceInv, RepostInv, ServiceInv, Announceable, Unanswered
<1>3. \A q \in Paths : birth[key[1]][q] = birth[key[1]][key[2]] => q = key[2]
  BY <1>1, <1>2 DEF OnceInv, RepostInv, BirthsApart
<1> QED
  BY <1>1, <1>2, <1>3 DEF Attempting

\* The announcement of an attempt is not given to another row by a scan.
LEMMA AttemptScanned ==
  ASSUME OnceInv, Next, NEW key \in Keys, NEW b \in Posts, Attempting(key, b), Made(b, made),
         Announced, \A v \in Vaults, q \in Paths : RowScanned(v, q)
  PROVE  Attempting(key, b)'
<1> DEFINE v == key[1]
           p == key[2]
<1>0. /\ TypeOK /\ Bounded' /\ v \in Vaults /\ p \in Paths /\ key[3] \in Nat /\ key[3] > 0
      /\ answered' = answered
      /\ documents[v][p] \in Row
      /\ v \notin vaults => documents[v][p].generation = 0
  BY BoundsAssumption
  DEF Keys, OnceInv, RepostInv, ServiceInv, Next, Announced, TypeOK, StoreTypeOK, StoreInv,
      GoodRow, RowsBelongToKnownVaults, Exists
<1>1. ASSUME NEW q \in Paths
      PROVE  /\ ~ Born(v, q) => birth'[v][q] = birth[v][q]
             /\ Born(v, q) => birth'[v][q] # b
  <2>1. ~ Made(<<v, q, made[v][q] + 1>>, made)
    BY <1>0, NewIsNotMade
  <2> QED
    BY <1>0, <2>1, NewAnnouncements
<1>2. /\ documents[v][p].generation \in Nat
      /\ key[3] <= documents[v][p].generation
      /\ documents[v][p].generation = key[3] => birth[v][p] = b
      /\ answered[b] = 0
      /\ \A q \in Paths : birth[v][q] = b => q = p /\ documents[v][p].generation = key[3]
  BY <1>0 DEF Attempting, RowOf, Row
<1>3. \/ Born(v, p) /\ documents'[v][p].generation = documents[v][p].generation + 1
      \/ ~ Born(v, p) /\ documents'[v][p].generation = documents[v][p].generation
  <2>1. RowScanned(v, p) /\ TypeOK
    BY <1>0
  <2>2. CASE Born(v, p)
    BY <1>0, <2>1, <2>2, ScannedRow
  <2>3. CASE ~ Born(v, p)
    <3>1. v \in vaults
      BY <1>0, <1>2
    <3>2. documents'[v][p] \in {documents[v][p], Missing(documents[v][p])}
      BY <1>0, <2>1, <2>3, <3>1, ScannedRow
    <3>3. Missing(documents[v][p]).generation = documents[v][p].generation
      BY <1>0 DEF Missing, Row
    <3> QED
      BY <2>3, <3>2, <3>3
  <2> QED
    BY <2>2, <2>3
<1> HIDE DEF v, p
<1>4. /\ key[3] <= documents'[v][p].generation
      /\ documents'[v][p].generation = key[3] => birth'[v][p] = b
      /\ answered'[b] = 0
      /\ \A q \in Paths : birth'[v][q] = b => q = p /\ documents'[v][p].generation = key[3]
  BY <1>0, <1>1, <1>2, <1>3
<1> QED
  BY <1>4 DEF Attempting, RowOf, v, p

\* Nor by a rename of other paths.
LEMMA AttemptSpared ==
  ASSUME TypeOK, NEW key \in Keys, NEW b \in Posts, Attempting(key, b),
         NEW v \in Vaults, NEW src \in Paths, NEW dst \in Paths,
         <<src, dst>> \in Renames, OnMoved(v, src, dst), ~ RenameTouches(key[1], key[2])
  PROVE  Attempting(key, b)'
<1>0. PICK u \in Vaults, p \in Paths : u = key[1] /\ p = key[2]
  BY DEF Keys
<1>a. answered' = answered /\ b # NoPost
  BY PostsAreTriples DEF OnMoved
<1>1. CASE ~ Exists(documents[v][src])
  BY <1>a, <1>1, EmptyRename DEF Attempting, RowOf
<1>2. CASE Exists(documents[v][src])
  <2>1. v = u => p # src /\ p # dst
    BY <1>0, <1>2 DEF RenameTouches
  <2>a. ASSUME NEW q \in Paths
        PROVE  \/ documents'[u][q] = documents[u][q] /\ birth'[u][q] = birth[u][q]
               \/ u = v /\ q = src /\ birth'[u][q] = NoPost
               \/ u = v /\ q = dst /\ birth'[u][q] = birth[v][src]
    <3>1. \/ documents'[u][q] = documents[u][q] /\ birth'[u][q] = birth[u][q]
          \/ u = v /\ q = src /\ documents'[u][q] = NoRow /\ birth'[u][q] = NoPost
          \/ /\ u = v /\ q = dst
             /\ documents'[u][q] = [documents[v][src] EXCEPT !.present = TRUE]
             /\ birth'[u][q] = birth[v][src]
      BY <1>0, RenamedRow
    <3> QED
      BY <3>1
  <2>2. documents'[u][p] = documents[u][p] /\ birth'[u][p] = birth[u][p]
    BY <1>0, <2>1, <2>a
  <2>3. ASSUME NEW q \in Paths, birth'[u][q] = b PROVE birth[u][q] = b
    <3>1. v = u => birth[v][src] # b
      BY <1>0, <2>1 DEF Attempting
    <3> QED
      BY <1>a, <2>3, <2>a, <3>1
  <2> QED
    BY <1>0, <1>a, <2>2, <2>3 DEF Attempting, RowOf
<1> QED
  BY <1>1, <1>2

\* Attempts stay what they are while nothing they post is renamed.
LEMMA AttemptsKept == ASSUME OnceInv, Next, SpareUnderWay PROVE Attempts'
<1> SUFFICES ASSUME NEW w \in Threads, Active(w)',
                    NEW key, NEW b, key = task'[w].key, b = task'[w].about
             PROVE  Attempting(key, b)'
  BY DEF Attempts, Attempting, RowOf
<1>0. /\ ServiceInv /\ SlotInv /\ TypeOK /\ Keyed /\ TasksAnnounce /\ AboutsMade
  BY DEF OnceInv, RepostInv, ServiceInv
<1>1. ASSUME Take(w), key \in Keys, StillDue(RowOf(key), key[3]), b = birth[key[1]][key[2]]
      PROVE  Attempting(key, b)'
  <2>1. UNCHANGED <<birth, documents, answered>>
    BY <1>1 DEF Take, history, storeVars
  <2>2. Attempting(key, b)
    BY <1>1, AttemptBegins
  <2> QED
    BY <2>1, <2>2 DEF Attempting, RowOf
<1>2. CASE Active(w) /\ task'[w].key = task[w].key /\ task'[w].about = task[w].about
  <2>0. /\ key \in Keys /\ b \in Posts /\ Made(b, made) /\ Attempting(key, b)
        /\ key[1] = Vault(w) /\ key[2] = Path(w) /\ b[1] = key[1]
        /\ ~ RenameTouches(key[1], key[2])
    BY <1>0, <1>2, ActiveNames
    DEF OnceInv, Attempts, AboutsMade, SpareUnderWay, TasksAnnounce, Keyed, Active, Vault, Path
  <2>1. CASE UNCHANGED birth /\ \A v \in Vaults, p \in Paths : RowServed(v, p)
    <3>1. answered'[b] = answered[b]
      <4>1. ASSUME NEW x \in Threads, AnswerRecorded(x), task[x].about = b PROVE FALSE
        <5>1. Active(x) /\ Vault(x) = Vault(w)
          BY <1>0, <2>0, <4>1 DEF AnswerRecorded, TasksAnnounce
        <5>2. w = x
          BY <1>0, <1>2, <5>1, OneThreadPerVault
        <5>3. task[x] \in Task /\ task'[x] = [task[x] EXCEPT !.step = "release"]
          BY <1>0, <2>0, <4>1, <5>1, CountOfAnswer, ActiveNames
        <5> QED
          BY <5>2, <5>3 DEF Active, Task
      <4> QED
        BY <1>0, <2>0, <4>1, AnsweredAfter
    <3>2. RowOf(key)'.generation = RowOf(key).generation
      BY <1>0, <2>0, <2>1, ServedRow DEF RowOf, Keys
    <3> QED
      BY <2>0, <2>1, <3>1, <3>2 DEF Attempting, RowOf
  <2>2. CASE Announced /\ \A v \in Vaults, p \in Paths : RowScanned(v, p)
    BY <2>0, <2>2, AttemptScanned
  <2>3. ASSUME NEW v \in Vaults, NEW src \in Paths, NEW dst \in Paths,
               <<src, dst>> \in Renames, OnMoved(v, src, dst)
        PROVE  Attempting(key, b)'
    BY <1>0, <2>0, <2>3, AttemptSpared
  <2> QED
    BY <1>0, <2>1, <2>2, <2>3, RowsChange
<1> QED
  BY <1>0, <1>1, <1>2, ActiveAfter

\* Every step that spares the documents being posted keeps the invariant.
LEMMA OnceInvKept == OnceInv /\ [Next]_vars /\ [SpareUnderWay]_vars => OnceInv'
<1> SUFFICES ASSUME OnceInv, [Next]_vars, [SpareUnderWay]_vars PROVE OnceInv'
  OBVIOUS
<1>1. RepostInv'
  BY RepostInvKept DEF OnceInv
<1>2. CASE Next /\ SpareUnderWay
  BY <1>1, <1>2, OnceKept, UnansweredKept, SentKept, AttemptsKept DEF OnceInv
<1>3. CASE UNCHANGED vars
  <2>1. UNCHANGED <<documents, task, birth, made, answered>>
    BY <1>3 DEF vars, workerVars, storeVars, poolVars, history
  <2> QED
    BY <1>1, <2>1 DEF OnceInv, Attempts, Attempting, Active, Busy, RowOf, Unanswered, Unused,
                      Made, SentRowWasAnnounced, NoDuplicateAnnouncement
<1> QED
  BY <1>2, <1>3

\* At the start nothing is stored, posted or answered.
LEMMA InitOnce == Init => OnceInv
<1> SUFFICES ASSUME Init PROVE OnceInv
  OBVIOUS
<1>1. /\ \A w \in Threads : task[w] = Idle
      /\ \A v \in Vaults, p \in Paths : documents[v][p] = NoRow
      /\ \A b \in Posts : answered[b] = 0
  BY DEF Init, StoreInit, WorkerInit
<1>2. Attempts
  BY <1>1 DEF Attempts, Active, Busy
<1>3. Unanswered /\ SentRowWasAnnounced
  BY <1>1 DEF Unanswered, SentRowWasAnnounced, NoRow
<1>4. Unused /\ NoDuplicateAnnouncement
  BY <1>1 DEF Unused, NoDuplicateAnnouncement
<1> QED
  BY <1>2, <1>3, <1>4, InitRepost DEF OnceInv

\* The invariant holds while no document is renamed that is being posted.
LEMMA OnceInvariant == Spec /\ [][SpareUnderWay]_vars => []OnceInv
  BY InitOnce, OnceInvKept, PTL DEF Spec

\* No announcement is posted twice and answered twice, whatever retries, restarts,
\* crashes, recreations and watcher replacements happen, as long as no document is
\* renamed while it is being posted (delivery.py:176-216); MCRenameInFlight is the
\* run that shows what such a rename does.
THEOREM ServiceAnnouncesOnce ==
  Spec /\ [][SpareUnderWay]_vars => []NoDuplicateAnnouncement
<1>1. OnceInv => NoDuplicateAnnouncement
  BY DEF OnceInv
<1> QED
  BY <1>1, OnceInvariant, PTL

\* Under the same condition a row is marked sent by the answer to its own
\* announcement: a late answer of an earlier generation, or of another document,
\* completes none (state.py:312-316).  MCRenameReuse shows the condition is needed.
THEOREM ServiceSentWasAnnounced ==
  Spec /\ [][SpareUnderWay]_vars => []SentRowWasAnnounced
<1>1. OnceInv => SentRowWasAnnounced
  BY DEF OnceInv
<1> QED
  BY <1>1, OnceInvariant, PTL

-----------------------------------------------------------------------------
(* Not before its time, when no document is renamed that was handed out.    *)

\* The worker has read from the database that the document is due, and has not
\* recorded an outcome: the key is in the pass, in the queue or with a thread.
Handed(key) ==
    \/ \E i \in DOMAIN batch : batch[i] = key
    \/ \E i \in DOMAIN queue : queue[i] = key
    \/ \E w \in Threads : Active(w) /\ task[w].key = key

\* The step renames nothing from or onto the path of such a document.
SpareHanded == \A key \in Keys : Handed(key) => ~ RenameTouches(key[1], key[2])

\* The key is of the present document or an earlier one, and the present one may
\* be posted: it has been tried before, or its first deadline has passed.
Ripe(key) ==
    /\ key[3] <= RowOf(key).generation
    /\ StillDue(RowOf(key), key[3]) => RowOf(key).attemptCount > 0 \/ DueBy(RowOf(key), now)

\* The inductive invariant for QuietTimeRespected.
QuietInv ==
    /\ ServiceInv
    /\ \A key \in Keys : Handed(key) => Ripe(key)

\* Time does not go back.
LEMMA ClockForward == ASSUME ServiceInv, Next PROVE now \in Nat /\ now' \in Nat /\ now <= now'
<1>1. now \in Nat /\ TypeOK /\ Keyed /\ TasksAnnounce
  BY DEF ServiceInv, TypeOK, StoreTypeOK
<1>2. StoreStep => now' = now \/ now' = now + 1
  BY DEF StoreStep, Open, Reconcile, ObserveNew, MarkMissing, MovePath, MarkSent,
         MarkDeliveryFailure, ResumePending, Tick
<1>3. now' = now \/ now' = now + 1
  BY <1>1, <1>2, StepOnStore DEF StoreNext, storeVars
<1> QED
  BY <1>1, <1>3

\* What is handed out was so before, or is due now.
LEMMA HandedBefore ==
  ASSUME ServiceInv, Next, NEW key \in Keys, Handed(key)'
  PROVE  Handed(key) \/ key \in DueKeys(runtimes, now)
<1>0. /\ TypeOK /\ batch \in Seq(Keys) /\ queue \in Seq(Keys) /\ runtimes \in SUBSET Vaults
      /\ task \in [Threads -> Task \cup {Idle}] /\ StoreInv /\ WithinBounds
  BY DEF ServiceInv, Keyed, TypeOK, WorkerTypeOK, Bounded
<1>1. CASE UNCHANGED <<batch, poolVars>>
  BY <1>1 DEF Handed, poolVars, Active, Busy
<1>2. CASE Query
  <2>1. \A i \in DOMAIN batch' : batch'[i] \in DueKeys(runtimes, now)
    BY <1>0, <1>2, BatchOfPass, WorkerAssumption DEF Query
  <2> QED
    BY <1>2, <2>1 DEF Handed, Query, poolVars, Active, Busy
<1>3. CASE Submit
  <2>0. batch # <<>> /\ task' = task
    BY <1>3 DEF Submit, poolVars
  <2>1. /\ Head(batch) = batch[1] /\ 1 \in DOMAIN batch /\ Head(batch) \in Keys
        /\ \A i \in DOMAIN Tail(batch) : i + 1 \in DOMAIN batch /\ Tail(batch)[i] = batch[i + 1]
    BY <1>0, <2>0, HeadTailProperties, LenProperties
  <2>2. /\ batch' \in {batch, Tail(batch)}
        /\ queue' \in {queue, Append(queue, Head(batch))}
    BY <1>3 DEF Submit, poolVars
  <2>3. \A i \in DOMAIN queue' : queue'[i] = Head(batch) \/ (i \in DOMAIN queue /\ queue'[i] = queue[i])
    BY <1>0, <2>1, <2>2, QueueChanges
  <2>4. \A i \in DOMAIN batch' : \E j \in DOMAIN batch : batch[j] = batch'[i]
    BY <2>1, <2>2
  <2> QED
    BY <2>0, <2>1, <2>3, <2>4 DEF Handed, Active, Busy
<1>4. CASE ResetWorker
  BY <1>4 DEF ResetWorker, Handed, Active, Busy
<1>5. ASSUME NEW w \in Threads, Take(w) PROVE Handed(key)
  <2>0. queue # <<>> /\ batch' = batch /\ queue' = Tail(queue)
        /\ task' = [task EXCEPT ![w] = Begun(Head(queue))]
    BY <1>5 DEF Take, loopVars
  <2>1. /\ Head(queue) = queue[1] /\ 1 \in DOMAIN queue
        /\ \A i \in DOMAIN queue' : i + 1 \in DOMAIN queue /\ queue'[i] = queue[i + 1]
    BY <1>0, <2>0, QueueChanges
  <2>2. task'[w].key = Head(queue) /\ \A x \in Threads \ {w} : task'[x] = task[x]
    BY <1>0, <2>0 DEF Begun
  <2> QED
    BY <2>0, <2>1, <2>2 DEF Handed, Active, Busy
<1>6. ASSUME NEW w \in Threads, TaskStep(w) PROVE Handed(key)
  <2>1. ASSUME NEW x \in Threads, Active(x)' PROVE Active(x) /\ task'[x].key = task[x].key
    BY <1>0, <1>6, <2>1, TaskStepOfThread DEF Active, Busy
  <2> QED
    BY <1>0, <1>6, <2>1, TaskStepOfThread DEF Handed
<1> QED
  BY <1>1, <1>2, <1>3, <1>4, <1>5, <1>6, PoolChanges

\* Serving a row does not make a document that may be posted one that may not.
LEMMA RipeServed ==
  ASSUME StoreInv, NEW v \in Vaults, NEW p \in Paths, RowServed(v, p), NEW g \in Nat,
         StillDue(documents'[v][p], g),
         StillDue(documents[v][p], g) =>
            documents[v][p].attemptCount > 0 \/ DueBy(documents[v][p], now)
  PROVE  documents'[v][p].attemptCount > 0 \/ DueBy(documents'[v][p], now)
<1> DEFINE old == documents[v][p]
           new == documents'[v][p]
<1>0. now \in Nat /\ GoodRow(old) /\ old \in Row
  BY DEF StoreInv, StoreTypeOK, GoodRow
<1>1. CASE new = old
  BY <1>1
<1>2. CASE new = Missing(old)
  BY <1>0, <1>2 DEF Missing, StillDue, Deliverable, Row
<1>3. CASE new = Migrated(old) /\ new # old
  BY <1>0, <1>3 DEF Migrated, GoodRow, Row
<1>4. CASE new = Resumed(old) /\ new # old
  BY <1>0, <1>4, NullsAssumption DEF Resumed, Deliverable, DueBy, Scheduled, Row
<1>5. ASSUME NEW post, new = Sent(old, post) PROVE FALSE
  BY <1>0, <1>5 DEF Sent, StillDue, Deliverable, Row
<1>6. ASSUME NEW at, new = Failed(old, at) PROVE new.attemptCount > 0
  BY <1>0, <1>6 DEF Failed, Row
<1> HIDE DEF old, new
<1> QED
  BY <1>1, <1>2, <1>3, <1>4, <1>5, <1>6 DEF RowServed, old, new

\* Nor does time, or any step that does not rename it.
LEMMA RipeKept ==
  ASSUME ServiceInv, Next, NEW key \in Keys, Ripe(key), ~ RenameTouches(key[1], key[2])
  PROVE  Ripe(key)'
<1>0. /\ TypeOK /\ Keyed /\ TasksAnnounce /\ StoreInv /\ Bounded'
      /\ now \in Nat /\ now' \in Nat /\ now <= now'
  BY ClockForward DEF ServiceInv, Next
<1>1. PICK v \in Vaults, p \in Paths, g \in Nat : v = key[1] /\ p = key[2] /\ g = key[3] /\ g > 0
  BY BoundsAssumption DEF Keys
<1> DEFINE old == documents[v][p]
           new == documents'[v][p]
<1>2. /\ old \in Row /\ old.generation \in Nat /\ g <= old.generation
      /\ StillDue(old, g) => old.attemptCount > 0 \/ DueBy(old, now)
      /\ v \notin vaults => old.generation = 0
  BY <1>0, <1>1
  DEF Ripe, RowOf, StoreInv, StoreTypeOK, GoodRow, Row, RowsBelongToKnownVaults, Exists
<1>3. SUFFICES /\ g <= new.generation
               /\ StillDue(new, g) => new.attemptCount > 0 \/ DueBy(new, now)
  <2>1. new \in Row
    BY <1>0, <1>1, StepKeepsServiceInv DEF ServiceInv, TypeOK, StoreTypeOK
  <2>2. DueBy(new, now) => DueBy(new, now')
    BY <1>0, <2>1 DEF DueBy, Scheduled, Row
  <2> QED
    BY <1>1, <1>3, <2>2 DEF Ripe, RowOf
<1>4. CASE RowServed(v, p)
  BY <1>0, <1>1, <1>2, <1>4, ServedRow, RipeServed
<1>5. CASE RowScanned(v, p)
  <2>1. CASE Born(v, p)
    <3>1. new.generation = old.generation + 1
      BY <1>0, <1>1, <1>5, <2>1, ScannedRow
    <3> QED
      BY <1>2, <3>1 DEF StillDue
  <2>2. CASE ~ Born(v, p)
    <3>1. v \in vaults
      BY <1>1, <1>2
    <3>2. new = old \/ new = Missing(old)
      BY <1>0, <1>1, <1>5, <2>2, <3>1, ScannedRow
    <3> QED
      BY <1>2, <3>2 DEF Missing, StillDue, Deliverable, Row
  <2> QED
    BY <2>1, <2>2
<1>6. ASSUME NEW u \in Vaults, NEW src \in Paths, NEW dst \in Paths,
             <<src, dst>> \in Renames, OnMoved(u, src, dst)
      PROVE  new = old
  <2>1. CASE ~ Exists(documents[u][src])
    BY <1>0, <1>6, <2>1, EmptyRename
  <2>2. CASE Exists(documents[u][src])
    <3>1. u = v => p # src /\ p # dst
      BY <1>1, <1>6, <2>2 DEF RenameTouches
    <3>2. \/ documents'[v][p] = documents[v][p] /\ birth'[v][p] = birth[v][p]
          \/ v = u /\ p = src /\ documents'[v][p] = NoRow /\ birth'[v][p] = NoPost
          \/ /\ v = u /\ p = dst
             /\ documents'[v][p] = [documents[u][src] EXCEPT !.present = TRUE]
             /\ birth'[v][p] = birth[u][src]
      BY <1>0, <1>1, <1>6, RenamedRow
    <3> QED
      BY <3>1, <3>2
  <2> QED
    BY <2>1, <2>2
<1> HIDE DEF old, new
<1>7. \/ RowServed(v, p) \/ RowScanned(v, p)
      \/ \E u \in Vaults, src, dst \in Paths : <<src, dst>> \in Renames /\ OnMoved(u, src, dst)
  BY <1>0, <1>1, RowsChange
<1> QED
  BY <1>2, <1>4, <1>5, <1>6, <1>7

\* A due document may be posted.
LEMMA DueIsRipe ==
  ASSUME ServiceInv, NEW key \in DueKeys(runtimes, now) PROVE key \in Keys /\ Ripe(key)
<1>0. StoreInv /\ WithinBounds /\ runtimes \in SUBSET Vaults /\ StoreTypeOK
  BY DEF ServiceInv, Bounded, TypeOK, WorkerTypeOK
<1>1. PICK x \in runtimes \X Paths :
              DueBy(RowOf(x), now) /\ key = <<x[1], x[2], RowOf(x).generation>>
  BY DEF DueKeys
<1>2. RowOf(key) = RowOf(x) /\ key[3] = RowOf(x).generation /\ RowOf(x).generation \in Nat
  BY <1>0, <1>1 DEF RowOf, StoreTypeOK, Row
<1>3. key \in Keys
  BY <1>0, DueKeysAreKeys
<1> QED
  BY <1>1, <1>2, <1>3 DEF Ripe

\* Every step that spares what is handed out keeps the invariant.
LEMMA QuietInvKept == QuietInv /\ [Next]_vars /\ [SpareHanded]_vars => QuietInv'
<1> SUFFICES ASSUME QuietInv, [Next]_vars, [SpareHanded]_vars PROVE QuietInv'
  OBVIOUS
<1>1. ServiceInv'
  BY StepKeepsServiceInv DEF QuietInv
<1>2. CASE Next /\ SpareHanded
  <2>1. ASSUME NEW key \in Keys, Handed(key)' PROVE Ripe(key)'
    <3>1. Ripe(key)
      BY <1>2, <2>1, HandedBefore, DueIsRipe DEF QuietInv
    <3>2. CASE ~ RenameTouches(key[1], key[2])
      BY <1>2, <3>1, <3>2, RipeKept DEF QuietInv
    <3>3. CASE RenameTouches(key[1], key[2])
      <4>1. UNCHANGED <<loopVars, poolVars>>
        BY <3>3 DEF RenameTouches, OnMoved
      <4>2. Handed(key)
        BY <2>1, <4>1 DEF Handed, Active, Busy, loopVars, poolVars
      <4> QED
        BY <1>2, <3>3, <4>2 DEF SpareHanded
    <3> QED
      BY <3>2, <3>3
  <2> QED
    BY <1>1, <2>1 DEF QuietInv
<1>3. CASE UNCHANGED vars
  <2>1. UNCHANGED <<documents, now, batch, queue, task>>
    BY <1>3 DEF vars, workerVars, storeVars, loopVars, poolVars
  <2> QED
    BY <1>1, <2>1 DEF QuietInv, Handed, Ripe, RowOf, Active, Busy
<1> QED
  BY <1>2, <1>3

\* Nothing is handed out at the start.
LEMMA InitQuiet == Init => QuietInv
<1> SUFFICES ASSUME Init PROVE QuietInv
  OBVIOUS
<1>1. batch = <<>> /\ queue = <<>> /\ \A w \in Threads : task[w] = Idle
  BY DEF Init, WorkerInit
<1> QED
  BY <1>1, InitServiceInv DEF QuietInv, Handed, Active, Busy

\* The invariant holds while no document is renamed that is handed out.
LEMMA QuietInvariant == Spec /\ [][SpareHanded]_vars => []QuietInv
  BY InitQuiet, QuietInvKept, PTL DEF Spec

\* No first attempt is made before the quiet time of the document is over, even if
\* its row changed after the worker had read that it is due, as long as no document
\* is renamed that the worker has been given (delivery.py:107-115, 176-183).
THEOREM ServiceQuietTime == Spec /\ [][SpareHanded]_vars => []QuietTimeRespected
<1>1. QuietInv => QuietTimeRespected
  <2> SUFFICES ASSUME QuietInv, NEW w \in Threads, Active(w),
                      StillDue(RowOf(task[w].key), Generation(w))
               PROVE  \/ RowOf(task[w].key).attemptCount > 0
                      \/ DueBy(RowOf(task[w].key), now)
    BY DEF QuietTimeRespected, Active
  <2>1. task[w].key \in Keys /\ Handed(task[w].key)
    BY DEF QuietInv, ServiceInv, Keyed, Handed, Active
  <2> QED
    BY <2>1 DEF QuietInv, Ripe, Generation
<1> QED
  BY <1>1, QuietInvariant, PTL

-----------------------------------------------------------------------------
(* What is refused stays blocked, when nothing is renamed over it.          *)

\* A rename gives p the row of another path.
RenamedOver(v, p) ==
    \E src \in Paths :
        <<src, p>> \in Renames /\ OnMoved(v, src, p) /\ Exists(documents[v][src])

\* The step renames nothing over a document that has been refused.
SpareRefused ==
    \A v \in Vaults, p \in Paths :
        documents[v][p].status = "pending" /\ documents[v][p].nextRetryAt = Never
        => ~ RenamedOver(v, p)

\* Serving a row sets the retry time of a blocked one only at a start or when the
\* failure of an attempt at it is recorded.
LEMMA BlockedServed ==
  ASSUME TypeOK, NEW v \in Vaults, NEW p \in Paths, RowServed(v, p),
         documents[v][p].nextRetryAt = Never, documents'[v][p].nextRetryAt # Never
  PROVE  Resumes \/ FailureRecorded(v, p)
<1> DEFINE old == documents[v][p]
           new == documents'[v][p]
<1>0. old \in Row
  BY DEF TypeOK, StoreTypeOK
<1>1. CASE new = Missing(old)
  BY <1>0, <1>1 DEF Missing, Row
<1>2. ASSUME NEW post, new = Sent(old, post) PROVE new.nextRetryAt = Never
  BY <1>0, <1>2 DEF Sent, Row
<1>3. ASSUME NEW w \in Threads, Active(w), Vault(w) = v, Path(w) = p,
             Generation(w) = old.generation
      PROVE  task[w].key = <<v, p, old.generation>>
  <2>1. task[w].key \in Key
    BY <1>3 DEF TypeOK, WorkerTypeOK, Task, Active, Busy
  <2> QED
    BY <1>3, <2>1 DEF Key, Vault, Path, Generation
<1> HIDE DEF old, new
<1>4. ASSUME NEW w \in Threads, Active(w), Vault(w) = v, Path(w) = p,
             old.generation = Generation(w), At(w, "post"), task'[w].step = "release"
      PROVE  FailureRecorded(v, p)
  BY <1>3, <1>4 DEF FailureRecorded, old
<1> QED
  BY <1>1, <1>2, <1>4 DEF RowServed, old, new

\* Nor does a scan or an event, unless the path is given to another document.
LEMMA BlockedKept ==
  ASSUME ServiceInv, Next, SpareRefused, NEW v \in Vaults, NEW p \in Paths,
         documents[v][p].status = "pending", documents[v][p].nextRetryAt = Never,
         documents'[v][p].generation = documents[v][p].generation,
         documents'[v][p].nextRetryAt # Never
  PROVE  Resumes \/ FailureRecorded(v, p)
<1>0. TypeOK /\ Keyed /\ TasksAnnounce /\ documents[v][p] \in Row
  BY DEF ServiceInv, TypeOK, StoreTypeOK
<1>1. CASE RowServed(v, p)
  BY <1>0, <1>1, BlockedServed
<1>2. CASE RowScanned(v, p)
  <2>1. ~ Born(v, p)
    BY DEF Born
  <2>2. documents'[v][p] \in {documents[v][p], Missing(documents[v][p]), BaselineRow}
    BY <1>0, <1>2, <2>1, ScannedRow
  <2> QED
    BY <1>0, <2>2 DEF Missing, BaselineRow, Row
<1>3. ASSUME NEW u \in Vaults, NEW src \in Paths, NEW dst \in Paths,
             <<src, dst>> \in Renames, OnMoved(u, src, dst)
      PROVE  FALSE
  <2>1. CASE ~ Exists(documents[u][src])
    BY <1>0, <1>3, <2>1, EmptyRename
  <2>2. CASE Exists(documents[u][src])
    <3>1. ~ (u = v /\ dst = p)
      BY <1>3, <2>2 DEF SpareRefused, RenamedOver
    <3>2. \/ documents'[v][p] = documents[v][p] /\ birth'[v][p] = birth[v][p]
          \/ v = u /\ p = src /\ documents'[v][p] = NoRow /\ birth'[v][p] = NoPost
          \/ /\ v = u /\ p = dst
             /\ documents'[v][p] = [documents[u][src] EXCEPT !.present = TRUE]
             /\ birth'[v][p] = birth[u][src]
      BY <1>0, <1>3, RenamedRow
    <3> QED
      BY <3>1, <3>2 DEF NoRow
  <2> QED
    BY <2>1, <2>2
<1> QED
  BY <1>0, <1>1, <1>2, <1>3, RowsChange

\* A document the server refused is put back on the schedule only by a start of the
\* service or by the recorded failure of a further attempt at the same row (state.py:348-352,
\* 367-374), by no scan, event, replaced watcher or outcome of another document,
\* as long as no other document is renamed over it: then its row is the other's.
THEOREM ServiceRefusedStaysBlocked ==
  Spec /\ [][SpareRefused]_vars => RefusedStaysBlocked
<1>1. /\ ServiceInv /\ [Next]_vars /\ [SpareRefused]_vars
      => [\A v \in Vaults, p \in Paths : LET row == documents[v][p] IN
            /\ row.status = "pending" /\ row.nextRetryAt = Never
            /\ documents'[v][p].generation = row.generation
            /\ documents'[v][p].nextRetryAt # Never
            => Resumes \/ FailureRecorded(v, p)]_vars
  BY BlockedKept
<1> QED
  BY <1>1, ServiceInvariant, PTL DEF Spec, RefusedStaysBlocked
=============================================================================
