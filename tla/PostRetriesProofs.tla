--------------------------- MODULE PostRetriesProofs ---------------------------
(***************************************************************************)
(* What the run of PostRetries checks against one server, for every set of *)
(* answers, every retry policy and any number of failures and restarts.    *)
(***************************************************************************)
EXTENDS PostRetries, TLAPS

-----------------------------------------------------------------------------
(* The answers.                                                             *)

\* The headers that carry no number are no pairs.
LEMMA PairsAreLonger ==
  ASSUME NEW x, NEW y PROVE <<x, y>> # <<>> /\ \A z : <<x, y>> # <<z>>
<1>1. <<x, y>> # <<>>
  OBVIOUS
<1>2. ASSUME NEW z, <<x, y>> = <<z>> PROVE FALSE
  <2>1. Len(<<x, y>>) = 2 /\ Len(<<z>>) = 1
    OBVIOUS
  <2> QED
    BY <1>2, <2>1
<1> QED
  BY <1>1, <1>2

Pairs == {"seconds", "date"} \X Int

\* A time the server asked for is a number of ticks from now (mattermost.py:235-244).
LEMMA RetryAfterIsTime ==
  ASSUME NEW header \in Headers, NEW at \in Int
  PROVE  \/ header \notin Pairs /\ RetryAfterSeconds(header, at) = {}
         \/ header \notin Pairs /\ RetryAfterSeconds(header, at) = {0}
         \/ /\ header \in Pairs
            /\ RetryAfterSeconds(header, at)
                 = {NotNegative(IF header[1] = "date" THEN header[2] - at ELSE header[2])}
<1>1. CASE header \in {<<>>, <<"other">>}
  BY <1>1, PairsAreLonger DEF RetryAfterSeconds, Pairs
<1>2. CASE header = <<"nan">>
  BY <1>2, PairsAreLonger DEF RetryAfterSeconds, Pairs
<1>3. CASE header \in Pairs
  <2>1. header # <<"nan">> /\ header \notin {<<>>, <<"other">>}
    <3>1. PICK unit \in {"seconds", "date"}, n \in Int : header = <<unit, n>>
      BY <1>3 DEF Pairs
    <3> QED
      BY <3>1, PairsAreLonger
  <2>2. CASE header[1] = "seconds"
    BY <1>3, <2>1, <2>2 DEF RetryAfterSeconds, Pairs
  <2>3. CASE header[1] = "date"
    <3>1. header \notin {"seconds"} \X Int /\ header \in {"date"} \X Int
      BY <1>3, <2>3 DEF Pairs
    <3> QED
      BY <1>3, <2>1, <2>3, <3>1 DEF RetryAfterSeconds
  <2> QED
    BY <1>3, <2>2, <2>3 DEF Pairs
<1> QED
  BY <1>1, <1>2, <1>3 DEF Headers, Pairs

\* The delay is a time that neither undercuts the jittered backoff nor the wish
\* of the server (retry.py:36-46), and it is one of the two.
LEMMA DelayBounds ==
  ASSUME NEW n \in Nat \ {0}, NEW r \in 0..Scale, NEW wish,
         wish = {} \/ \E k \in Nat : wish = {k}
  PROVE  /\ Jittered(n, r) \in Nat
         /\ Delay(n, wish, r) \in {Jittered(n, r)} \cup wish
         /\ Delay(n, wish, r) \in Nat
         /\ \A k \in {Jittered(n, r)} \cup wish : k <= Delay(n, wish, r)
<1>1. Smaller(n - 1, 30) \in Nat
  BY DEF Smaller
<1>2. 2^Smaller(n - 1, 30) \in Int
  BY <1>1
<1>3. BaseDelay(n) \in Int
  BY <1>2, RetryAssumption DEF BaseDelay, Smaller, AcceptedRetryConfig
<1>4. JitterFactor(r) \in Int
  BY RetryAssumption DEF JitterFactor, Ticks, AcceptedRetryConfig
<1>5. Jittered(n, r) \in Nat
  BY <1>3, <1>4 DEF Jittered, Larger
<1> DEFINE times == {Jittered(n, r)} \cup wish
<1>6. \E d \in times : \A k \in times : k <= d
  <2>1. CASE wish = {}
    BY <1>5, <2>1
  <2>2. ASSUME NEW k \in Nat, wish = {k}
        PROVE  \E d \in times : \A other \in times : other <= d
    BY <1>5, <2>2
  <2> QED
    BY <2>1, <2>2
<1>7. Delay(n, wish, r) \in times /\ \A k \in times : k <= Delay(n, wish, r)
  BY <1>6 DEF Delay
<1>8. times \subseteq Nat
  BY <1>5
<1> QED
  BY <1>5, <1>7, <1>8

\* Multiplying by a natural number keeps the order.
LEMMA ProductsKeepOrder ==
  ASSUME NEW a \in Int, NEW b \in Int, NEW c \in Nat, a <= b PROVE a * c <= b * c
  OBVIOUS

\* The longest backoff is a number of ticks.
LEMMA LongestBackoffIsTime == LongestBackoff \in Nat
  BY RetryAssumption DEF LongestBackoff, Ticks, AcceptedRetryConfig

\* Jitter multiplies by at least nothing and at most 1 + retry_jitter_ratio (retry.py:42).
LEMMA JitterBounds ==
  ASSUME NEW r \in 0..Scale
  PROVE  /\ JitterFactor(r) \in Int
         /\ 0 <= Ticks - Jitter * Scale
         /\ Ticks - Jitter * Scale <= JitterFactor(r)
         /\ JitterFactor(r) <= Ticks + Jitter * Scale
<1>1. Scale \in Nat /\ Jitter \in Nat /\ Jitter <= Scale /\ r \in Nat /\ r <= Scale
  BY RetryAssumption DEF AcceptedRetryConfig
<1>2. 2 * r - Scale \in Int /\ 2 * r - Scale <= Scale /\ 0 - Scale <= 2 * r - Scale
  BY <1>1
<1>3. (2 * r - Scale) * Jitter <= Scale * Jitter
  BY <1>1, <1>2, ProductsKeepOrder
<1>4. (0 - Scale) * Jitter <= (2 * r - Scale) * Jitter
  BY <1>1, <1>2, ProductsKeepOrder
<1>5. Jitter * Scale <= Scale * Scale
  BY <1>1, ProductsKeepOrder
<1> QED
  BY <1>1, <1>3, <1>4, <1>5 DEF JitterFactor, Ticks

\* No backoff exceeds the cap by more than the jitter (retry.py:36-43).
LEMMA JitteredWithinBackoff ==
  ASSUME NEW n \in Nat \ {0}, NEW r \in 0..Scale
  PROVE  Jittered(n, r) <= LongestBackoff
<1>1. RetryMax \in Nat /\ BaseDelay(n) \in Int /\ BaseDelay(n) <= RetryMax
  <2>1. Smaller(n - 1, 30) \in Nat
    BY DEF Smaller
  <2>2. 2^Smaller(n - 1, 30) \in Int
    BY <2>1
  <2> QED
    BY <2>2, RetryAssumption DEF BaseDelay, Smaller, AcceptedRetryConfig
<1>2. JitterFactor(r) \in Nat /\ Ticks + Jitter * Scale \in Int
  BY JitterBounds, RetryAssumption DEF AcceptedRetryConfig, Ticks
<1>3. BaseDelay(n) * JitterFactor(r) <= RetryMax * JitterFactor(r)
  BY <1>1, <1>2, ProductsKeepOrder
<1>4. JitterFactor(r) * RetryMax <= (Ticks + Jitter * Scale) * RetryMax
  BY <1>1, <1>2, JitterBounds, ProductsKeepOrder
<1>5. LongestBackoff \in Nat /\ LongestBackoff = (Ticks + Jitter * Scale) * RetryMax
  BY <1>1, <1>2, LongestBackoffIsTime DEF LongestBackoff
<1>6. /\ BaseDelay(n) * JitterFactor(r) \in Int /\ RetryMax * JitterFactor(r) \in Int
      /\ RetryMax * JitterFactor(r) = JitterFactor(r) * RetryMax
  BY <1>1, <1>2
<1> QED
  BY <1>3, <1>4, <1>5, <1>6 DEF Jittered, Larger

-----------------------------------------------------------------------------
(* The row.                                                                 *)

\* Opening the database schedules a blocked document again (state.py:462-467).
LEMMA RowOpened ==
  ASSUME StoreTypeOK, Open PROVE StoreTypeOK' /\ TheRow' = Migrated(TheRow)
<1>1. ASSUME NEW row \in Row PROVE Migrated(row) \in Row
  BY DEF Migrated, Row
<1>2. \A v \in Vaults, p \in Paths : Migrated(documents[v][p]) \in Row
  BY <1>1 DEF StoreTypeOK
<1> QED
  BY <1>2, PostAssumption DEF StoreTypeOK, Open, TheRow

\* resume_pending makes what was put off due now (state.py:367-377).
LEMMA RowResumed ==
  ASSUME StoreTypeOK, ResumePending PROVE StoreTypeOK' /\ TheRow' = Resumed(TheRow)
<1>1. ASSUME NEW row \in Row PROVE Resumed(row) \in Row
  BY DEF StoreTypeOK, Resumed, Row
<1>2. \A v \in Vaults, p \in Paths : Resumed(documents[v][p]) \in Row
  BY <1>1 DEF StoreTypeOK
<1> QED
  BY <1>2, PostAssumption DEF StoreTypeOK, ResumePending, TheRow

\* mark_sent finds the generation it was told, and settles the row (state.py:298-329).
LEMMA RowSent ==
  ASSUME StoreTypeOK, Scheduled(TheRow), NEW id \in Posts,
         MarkSent(Vault, Document, TheRow.generation, id)
  PROVE  StoreTypeOK' /\ TheRow' = Sent(TheRow, id)
<1>1. TheRow \in Row
  BY PostAssumption DEF StoreTypeOK, TheRow
<1>2. Sent(TheRow, id) \in Row
  BY <1>1 DEF Sent, Row, Statuses
<1>3. AcceptsSent(TheRow, TheRow.generation)
  BY DEF Scheduled, Deliverable, AcceptsSent
<1> QED
  BY <1>2, <1>3, PostAssumption DEF StoreTypeOK, MarkSent, TheRow

\* mark_delivery_failure counts the failure and sets the next attempt (state.py:331-365).
LEMMA RowFailed ==
  ASSUME StoreTypeOK, Scheduled(TheRow), NEW at \in Nat \cup {Never},
         MarkDeliveryFailure(Vault, Document, TheRow.generation, at)
  PROVE  StoreTypeOK' /\ TheRow' = Failed(TheRow, at)
<1>1. TheRow \in Row
  BY PostAssumption DEF StoreTypeOK, TheRow
<1>2. Failed(TheRow, at) \in Row
  <2>1. TheRow.attemptCount + 1 \in Nat
    BY <1>1 DEF Row
  <2> QED
    BY <1>1, <2>1 DEF Failed, Row
<1>3. AcceptsFailure(TheRow, TheRow.generation)
  BY DEF Scheduled, Deliverable, AcceptsSent, AcceptsFailure
<1> QED
  BY <1>2, <1>3, PostAssumption DEF StoreTypeOK, MarkDeliveryFailure, TheRow

-----------------------------------------------------------------------------
(* The answers and what is recorded of them.                                *)

\* A failing server does not answer well.
LEMMA GoodIsNoFailure == Good \notin Failures
<1>1. Good.status = 201 /\ Good.body = "id"
  BY DEF Good, Http
<1>2. Successful(Good.status)
  BY <1>1 DEF Successful
<1> QED
  BY <1>1, <1>2, PostAssumption

\* What the client makes of an answer (mattermost.py:131-220): it is good, or it is
\* retried exactly if the documentation calls it transient.
LEMMA OutcomeShape ==
  ASSUME NEW answer \in Failures \cup {Good}, NEW at \in Nat
  PROVE  /\ answer \in Answer
         /\ Outcome(answer, at).ok <=> answer = Good
         /\ \/ Outcome(answer, at).retryAfter = {}
            \/ \E n \in Nat : Outcome(answer, at).retryAfter = {n}
         /\ Outcome(answer, at).retryable <=> Transient(answer)
<1>0. /\ Good.error = "none" /\ Good.status = 201 /\ Good.body = "id" /\ Good.header = <<>>
      /\ Good \in Answer
  BY DEF Good, Http, Answer, Bodies, Headers
<1>1. answer \in Answer
  BY <1>0, PostAssumption
<1>2. CASE answer = Good
  <2>1. Successful(answer.status) /\ ~ Transient(answer)
    BY <1>0, <1>2 DEF Successful, Transient
  <2>2. Outcome(answer, at) = [ok |-> TRUE, retryable |-> FALSE, retryAfter |-> {}]
    BY <1>0, <1>2, <2>1 DEF Outcome
  <2> QED
    BY <1>1, <1>2, <2>1, <2>2
<1>3. CASE answer.error # "none"
  <2>1. answer \in Failures /\ answer.error \in Exceptions
    BY <1>0, <1>1, <1>3 DEF Answer
  <2> QED
    BY <1>0, <1>1, <1>3, <2>1 DEF Outcome, Failure, Transient, Exceptions
<1>4. CASE answer # Good /\ answer.error = "none" /\ ~ Successful(answer.status)
  <2>1. answer.status \in Nat /\ answer.header \in Headers
    BY <1>1 DEF Answer
  <2>2. Outcome(answer, at) = Failure(RetryableStatus(answer.status),
                                      IF answer.status = 429
                                      THEN RetryAfterSeconds(answer.header, at) ELSE {})
    BY <1>4 DEF Outcome
  <2>3. RetryableStatus(answer.status) <=> Transient(answer)
    BY <1>4, <2>1 DEF RetryableStatus, Transient
  <2>4. \/ RetryAfterSeconds(answer.header, at) = {}
        \/ \E n \in Nat : RetryAfterSeconds(answer.header, at) = {n}
    BY <2>1, RetryAfterIsTime DEF NotNegative, Pairs
  <2> QED
    BY <1>1, <1>4, <2>2, <2>3, <2>4 DEF Failure
<1>5. CASE answer # Good /\ answer.error = "none" /\ Successful(answer.status)
  <2>1. answer \in Failures /\ answer.body # "id" /\ answer.status \in 200..299
    BY <1>5, PostAssumption DEF Successful
  <2>2. Outcome(answer, at) = Failure(FALSE, {})
    BY <1>5, <2>1 DEF Outcome
  <2>3. ~ Transient(answer)
    BY <1>5, <2>1 DEF Transient
  <2> QED
    BY <1>1, <1>5, <2>2, <2>3 DEF Failure
<1> QED
  BY <1>2, <1>3, <1>4, <1>5

\* No answer and no attempt number asks for a time that cannot be represented.
Representable ==
    /\ LongestBackoff <= Horizon
    /\ \A answer \in Failures : answer.header \in Pairs => answer.header[2] <= Horizon

\* What _record_failure computes (delivery.py:221-228): a time at which the server
\* wants to be asked again.
LEMMA NextAttempt ==
  ASSUME NEW answer \in Failures, StoreTypeOK, NEW r \in 0..Scale
  PROVE  LET delay == Delay(TheRow.attemptCount + 1, Outcome(answer, now).retryAfter, r)
         IN  /\ now + delay \in Nat
             /\ Wish(answer) \in Int
             /\ Wish(answer) <= now + delay
             /\ Representable => delay <= Horizon
             /\ delay \in {Jittered(TheRow.attemptCount + 1, r), Wish(answer) - now}
             /\ Jittered(TheRow.attemptCount + 1, r) <= delay
<1> DEFINE n == TheRow.attemptCount + 1
           outcome == Outcome(answer, now)
           delay == Delay(n, outcome.retryAfter, r)
<1>1. now \in Nat /\ n \in Nat \ {0}
  <2>1. TheRow \in Row
    BY PostAssumption DEF StoreTypeOK, TheRow
  <2> QED
    BY <2>1 DEF StoreTypeOK, Row
<1>2. /\ answer \in Answer
      /\ \/ outcome.retryAfter = {} \/ \E k \in Nat : outcome.retryAfter = {k}
  BY <1>1, OutcomeShape
<1>3. /\ Jittered(n, r) \in Nat /\ delay \in Nat
      /\ delay \in {Jittered(n, r)} \cup outcome.retryAfter
      /\ \A k \in {Jittered(n, r)} \cup outcome.retryAfter : k <= delay
  BY <1>1, <1>2, DelayBounds
<1>4. CASE answer.status = 429 /\ answer.header \in Pairs
  <2>1. answer.error = "none"
    <3>1. answer.error # "none" => answer = Raised(answer.error)
      BY PostAssumption
    <3>2. Raised(answer.error).status = 0
      BY DEF Raised
    <3> QED
      BY <1>4, <3>1, <3>2
  <2>2. outcome.retryAfter = RetryAfterSeconds(answer.header, now)
    BY <1>4, <2>1 DEF Outcome, Failure, Successful
  <2>3. RetryAfterSeconds(answer.header, now)
          = {NotNegative(IF answer.header[1] = "date"
                         THEN answer.header[2] - now ELSE answer.header[2])}
    BY <1>1, <1>2, <1>4, RetryAfterIsTime DEF Answer
  <2>4. answer.header[2] \in Int
    BY <1>4 DEF Pairs
  <2>5. Wish(answer) = IF answer.header[1] = "date" THEN answer.header[2]
                       ELSE now + answer.header[2]
    BY <1>4 DEF Wish, Pairs
  <2>6. NotNegative(IF answer.header[1] = "date"
                    THEN answer.header[2] - now ELSE answer.header[2]) <= delay
    BY <1>3, <2>2, <2>3
  <2>7. Wish(answer) \in Int /\ Wish(answer) <= now + delay
    BY <1>1, <1>3, <2>4, <2>5, <2>6 DEF NotNegative
  <2>8. Representable /\ delay # Jittered(n, r) => delay <= Horizon
    <3>1. delay # Jittered(n, r) =>
            delay = NotNegative(IF answer.header[1] = "date"
                                THEN answer.header[2] - now ELSE answer.header[2])
      BY <1>3, <2>2, <2>3
    <3> QED
      BY <1>1, <1>3, <1>4, <2>4, <3>1, PostAssumption, JitteredWithinBackoff,
         LongestBackoffIsTime DEF Representable, NotNegative
  <2>9. Representable /\ delay = Jittered(n, r) => delay <= Horizon
    BY <1>1, <1>3, PostAssumption, JitteredWithinBackoff, LongestBackoffIsTime
       DEF Representable
  <2>10. now + delay \in Nat /\ Jittered(n, r) <= delay
    BY <1>1, <1>3
  <2>11. delay # Jittered(n, r) => delay = Wish(answer) - now
    BY <1>1, <1>3, <2>2, <2>3, <2>4, <2>5 DEF NotNegative
  <2> QED
    BY <2>7, <2>8, <2>9, <2>10, <2>11
<1>5. CASE ~ (answer.status = 429 /\ answer.header \in Pairs)
  <2>1. Wish(answer) = 0
    BY <1>5 DEF Wish, Pairs
  <2>2. outcome.retryAfter \subseteq {0}
    <3>1. answer.header \in Headers /\ answer.status \in Nat
      BY <1>2 DEF Answer
    <3>2. RetryAfterSeconds(answer.header, now) \subseteq {0} \/ answer.header \in Pairs
      BY <1>1, <3>1, RetryAfterIsTime
    <3>3. outcome.retryAfter # {} => answer.status = 429
                                     /\ outcome.retryAfter = RetryAfterSeconds(answer.header, now)
      <4>1. CASE answer.error # "none"
        BY <1>2, <4>1 DEF Outcome, Failure, Answer, Exceptions
      <4>2. CASE answer.error = "none" /\ ~ Successful(answer.status)
        BY <4>2 DEF Outcome, Failure
      <4>3. CASE answer.error = "none" /\ Successful(answer.status)
        BY <4>3 DEF Outcome, Failure
      <4> QED
        BY <4>1, <4>2, <4>3
    <3> QED
      BY <1>5, <3>2, <3>3
  <2>3. delay \in {Jittered(n, r), 0}
    BY <1>3, <2>2
  <2>4. Jittered(n, r) <= LongestBackoff
    BY <1>1, JitteredWithinBackoff
  <2>5. delay <= LongestBackoff
    BY <1>3, <2>3, <2>4, LongestBackoffIsTime
  <2>6. Representable => delay <= Horizon
    BY <1>3, <2>5, LongestBackoffIsTime, PostAssumption DEF Representable
  <2>7. now + delay \in Nat /\ Wish(answer) \in Int /\ Wish(answer) <= now + delay
    BY <1>1, <1>3, <2>1
  <2>8. delay = Jittered(n, r)
    BY <1>3, <2>3
  <2> QED
    BY <1>3, <2>6, <2>7, <2>8
<1> QED
  BY <1>4, <1>5

-----------------------------------------------------------------------------
(* The invariant.                                                           *)

\* The inductive invariant behind the properties: an attempt is under way only
\* for the present generation of a row that is still scheduled, and what a
\* process was told dies with it.
PostInv ==
    /\ TypeOK
    /\ posting # Nothing => posting[1] = TheRow.generation /\ Scheduled(TheRow)
    /\ process # "up" => posting = Nothing /\ notBefore = 0
    /\ OutagesNeverBlock

\* The schedule of a row respects the wish of the server.
WishKept == Scheduled(TheRow) => notBefore <= TheRow.nextRetryAt

\* As long as no answer was lost, a document that has been posted is recorded as
\* sent, or its answer is about to be.
PostsAccounted ==
    ~ lost => /\ posts \in {0, 1}
              /\ posts = 1 => \/ TheRow.status = "sent"
                              \/ posting # Nothing /\ Successful(posting[2].status)

\* The first state satisfies the invariant.
LEMMA PostInvInit == Init => PostInv /\ WishKept /\ PostsAccounted
<1> SUFFICES ASSUME Init PROVE PostInv /\ WishKept /\ PostsAccounted
  OBVIOUS
<1>1. Fresh(NoRow, 0) \in Row
  BY NullsAssumption DEF Init, Fresh, NoRow, Row, Statuses
<1>2. TheRow = Fresh(NoRow, 0)
  BY PostAssumption DEF Init, TheRow
<1>3. Fresh(NoRow, 0).nextRetryAt = 0 /\ Fresh(NoRow, 0).status = "pending"
  BY DEF Fresh
<1>4. StoreTypeOK
  BY <1>1 DEF Init, StoreTypeOK
<1>5. TypeOK
  <2>1. 0 \in 0..MaxFailures /\ 0 \in 0..MaxRestarts
    BY PostAssumption
  <2>2. /\ process \in {"down", "auth", "channel", "up"} /\ posting = Nothing
        /\ posts \in Nat /\ notBefore \in Int /\ failedAt \in Nat \cup {Never}
    BY DEF Init
  <2>3. /\ lost \in BOOLEAN /\ refused \in BOOLEAN
        /\ failures \in 0..MaxFailures /\ restarts \in 0..MaxRestarts
    BY <2>1 DEF Init
  <2> QED
    BY <1>4, <2>1, <2>2, <2>3 DEF TypeOK
<1>6. OutagesNeverBlock
  BY <1>2, <1>3, NullsAssumption DEF OutagesNeverBlock
<1> QED
  BY <1>2, <1>3, <1>5, <1>6 DEF Init, PostInv, WishKept, PostsAccounted

\* How the attempt ends whose answer the invariant speaks of: the row is settled,
\* put off or blocked (delivery.py:189-252).
LEMMA AttemptRecorded ==
  ASSUME PostInv, NEW answer \in Failures \cup {Good}, NEW r \in 0..Scale,
         RecordSent(answer) \/ RecordFailure(answer, r)
  PROVE  /\ StoreTypeOK'
         /\ posting' = Nothing /\ posting # Nothing /\ posting[2] = answer
         /\ \/ /\ answer = Good /\ UNCHANGED <<notBefore, failedAt>>
               /\ \E id \in Posts : TheRow' = Sent(TheRow, id)
            \/ /\ answer \in Failures /\ notBefore' = Wish(answer)
               /\ LET delay == Delay(TheRow.attemptCount + 1, Outcome(answer, now).retryAfter, r)
                  IN  \/ /\ Transient(answer) /\ delay > Horizon
                         /\ UNCHANGED <<TheRow, failedAt>>
                      \/ /\ Transient(answer) /\ ~ (delay > Horizon)
                         /\ TheRow' = Failed(TheRow, now + delay)
                         /\ failedAt' = now
                      \/ /\ ~ Transient(answer)
                         /\ TheRow' = Failed(TheRow, Never)
                         /\ failedAt' = now
<1>1. /\ StoreTypeOK /\ now \in Nat
      /\ posting # Nothing => posting[1] = TheRow.generation /\ Scheduled(TheRow)
  BY DEF PostInv, TypeOK, StoreTypeOK
<1>2. /\ Outcome(answer, now).ok <=> answer = Good
      /\ Outcome(answer, now).retryable <=> Transient(answer)
  BY <1>1, OutcomeShape
<1>3. CASE RecordSent(answer)
  <2>1. (CHOOSE id \in Posts : TRUE) \in Posts
    BY PostAssumption
  <2>2. /\ StoreTypeOK'
        /\ TheRow' = Sent(TheRow, CHOOSE id \in Posts : TRUE)
    BY <1>1, <1>3, <2>1, RowSent DEF RecordSent, Concluded
  <2> QED
    BY <1>2, <1>3, <2>1, <2>2 DEF RecordSent, Concluded
<1>4. CASE RecordFailure(answer, r)
  <2> DEFINE delay == Delay(TheRow.attemptCount + 1, Outcome(answer, now).retryAfter, r)
  <2>1. /\ posting # Nothing /\ posting[2] = answer /\ posting' = Nothing
        /\ answer # Good /\ answer \in Failures /\ notBefore' = Wish(answer)
    BY <1>2, <1>4 DEF RecordFailure, Concluded
  <2>2. now + delay \in Nat
    BY <1>1, <2>1, NextAttempt
  <2>3. CASE Transient(answer) /\ delay > Horizon
    BY <1>1, <1>2, <1>4, <2>1, <2>3 DEF RecordFailure, storeVars, StoreTypeOK, TheRow
  <2>4. CASE Transient(answer) /\ ~ (delay > Horizon)
    <3>1. MarkDeliveryFailure(Vault, Document, posting[1], now + delay) /\ failedAt' = now
      BY <1>2, <1>4, <2>4 DEF RecordFailure
    <3> QED
      BY <1>1, <2>1, <2>2, <2>4, <3>1, RowFailed
  <2>5. CASE ~ Transient(answer)
    <3>1. MarkDeliveryFailure(Vault, Document, posting[1], Never) /\ failedAt' = now
      BY <1>2, <1>4, <2>5 DEF RecordFailure
    <3> QED
      BY <1>1, <2>1, <2>5, <3>1, RowFailed
  <2> QED
    BY <2>3, <2>4, <2>5
<1> QED
  BY <1>3, <1>4

\* Counting a failing answer keeps within the bound.
LEMMA AnswersCounted ==
  ASSUME NEW answer, Answers(answer), failures \in 0..MaxFailures
  PROVE  failures' \in 0..MaxFailures
  BY PostAssumption DEF Answers

\* Every step keeps the invariant.
LEMMA PostInvStep == PostInv /\ [Next]_vars => PostInv'
<1> SUFFICES ASSUME PostInv, [Next]_vars PROVE PostInv'
  OBVIOUS
<1>0. /\ TypeOK /\ StoreTypeOK /\ now \in Nat /\ OutagesNeverBlock
      /\ TheRow \in Row
      /\ posting # Nothing => posting[1] = TheRow.generation /\ Scheduled(TheRow)
      /\ process # "up" => posting = Nothing /\ notBefore = 0
  BY PostAssumption DEF PostInv, TypeOK, StoreTypeOK, TheRow
<1>1. CASE Boot
  <2>1. StoreTypeOK' /\ TheRow' = Migrated(TheRow)
    BY <1>0, <1>1, RowOpened DEF Boot
  <2>2. TypeOK'
    BY <1>0, <1>1, <2>1 DEF TypeOK, Boot
  <2>3. OutagesNeverBlock'
    BY <1>0, <1>1, <2>1, NullsAssumption DEF OutagesNeverBlock, Boot, Migrated, Row
  <2> QED
    BY <1>0, <1>1, <2>2, <2>3 DEF PostInv, Boot
<1>2. ASSUME NEW answer \in Failures \cup {Good}, Authenticate(answer) PROVE PostInv'
  <2>1. StoreTypeOK' /\ TheRow' = TheRow
    BY <1>0, <1>2 DEF Authenticate, storeVars, StoreTypeOK, TheRow
  <2>2. TypeOK'
    BY <1>0, <1>2, <2>1, AnswersCounted DEF TypeOK, Authenticate
  <2>3. OutagesNeverBlock'
    BY <1>0, <1>2, <2>1 DEF OutagesNeverBlock, Authenticate
  <2> QED
    BY <1>0, <1>2, <2>1, <2>2, <2>3 DEF PostInv, Authenticate
<1>3. ASSUME NEW answer \in Failures \cup {Good}, ResolveChannel(answer) PROVE PostInv'
  <2>1. StoreTypeOK' /\ TheRow' \in {TheRow, Resumed(TheRow)}
    BY <1>0, <1>3, RowResumed DEF ResolveChannel, storeVars, StoreTypeOK, TheRow
  <2>2. TypeOK'
    BY <1>0, <1>3, <2>1, AnswersCounted DEF TypeOK, ResolveChannel
  <2>3. OutagesNeverBlock'
    BY <1>0, <1>3, <2>1, NullsAssumption DEF OutagesNeverBlock, ResolveChannel, Resumed, Row
  <2> QED
    BY <1>0, <1>3, <2>2, <2>3 DEF PostInv, ResolveChannel
<1>4. CASE Restart
  <2>1. StoreTypeOK' /\ TheRow' = TheRow
    BY <1>0, <1>4 DEF Restart, storeVars, StoreTypeOK, TheRow
  <2>2. TypeOK'
    <3>1. restarts' \in 0..MaxRestarts
      BY <1>0, <1>4, PostAssumption DEF TypeOK, Restart
    <3>2. lost' \in BOOLEAN
      BY <1>0, <1>4 DEF TypeOK, Restart
    <3> QED
      BY <1>0, <1>4, <2>1, <3>1, <3>2 DEF TypeOK, Restart
  <2>3. OutagesNeverBlock'
    BY <1>0, <1>4, <2>1 DEF OutagesNeverBlock, Restart
  <2> QED
    BY <1>4, <2>2, <2>3 DEF PostInv, Restart
<1>5. ASSUME NEW answer \in Failures \cup {Good}, Post(answer) PROVE PostInv'
  <2>1. StoreTypeOK' /\ TheRow' = TheRow
    BY <1>0, <1>5 DEF Post, storeVars, StoreTypeOK, TheRow
  <2>2. posting' = <<TheRow.generation, answer>> /\ TheRow.generation \in Nat
    BY <1>0, <1>5 DEF Post, Row
  <2>3. posts' \in Nat /\ lost' \in BOOLEAN /\ failures' \in 0..MaxFailures
    <3>1. failures' \in 0..MaxFailures
      BY <1>0, <1>5, AnswersCounted DEF TypeOK, Post
    <3>2. posts' \in Nat
      BY <1>0, <1>5 DEF TypeOK, Post
    <3>3. lost' \in BOOLEAN
      BY <1>0, <1>5 DEF TypeOK, Post
    <3> QED
      BY <3>1, <3>2, <3>3
  <2>4. TypeOK'
    BY <1>0, <1>5, <2>1, <2>2, <2>3 DEF TypeOK, Post
  <2>5. OutagesNeverBlock'
    BY <1>0, <1>5, <2>1 DEF OutagesNeverBlock, Post
  <2> QED
    BY <1>0, <1>5, <2>1, <2>2, <2>4, <2>5 DEF PostInv, Post, DueBy
<1>6. ASSUME NEW answer \in Failures \cup {Good}, NEW r \in 0..Scale,
             RecordSent(answer) \/ RecordFailure(answer, r)
      PROVE  PostInv'
  <2>1. /\ StoreTypeOK' /\ posting' = Nothing /\ posting # Nothing
        /\ UNCHANGED <<process, posts, lost, failures, restarts>>
        /\ refused' = (answer # Good /\ ~ Transient(answer))
    BY <1>6, AttemptRecorded DEF RecordSent, RecordFailure, Concluded
  <2>2. notBefore' \in Int /\ failedAt' \in Nat \cup {Never}
    <3>1. \/ UNCHANGED <<notBefore, failedAt>>
          \/ answer \in Failures /\ notBefore' = Wish(answer) /\ failedAt' \in {failedAt, now}
      BY <1>6, AttemptRecorded
    <3>2. CASE UNCHANGED <<notBefore, failedAt>>
      BY <1>0, <3>2 DEF TypeOK
    <3>3. CASE answer \in Failures /\ notBefore' = Wish(answer) /\ failedAt' \in {failedAt, now}
      BY <1>0, <1>6, <3>3, NextAttempt DEF TypeOK
    <3> QED
      BY <3>1, <3>2, <3>3
  <2>3. TypeOK'
    <3>1. refused' \in BOOLEAN
      BY <2>1
    <3> QED
      BY <1>0, <2>1, <2>2, <3>1 DEF TypeOK
  <2>4. OutagesNeverBlock'
    <3>1. TheRow.status = "pending" /\ TheRow.nextRetryAt # Never
      BY <1>0, <2>1 DEF Scheduled, Deliverable
    <3>2. CASE answer = Good
      <4>1. \E id \in Posts : TheRow' = Sent(TheRow, id)
        BY <1>6, <3>2, AttemptRecorded, GoodIsNoFailure
      <4> QED
        BY <1>0, <4>1 DEF OutagesNeverBlock, Sent, Row
    <3>3. CASE answer # Good /\ Transient(answer)
      <4> DEFINE delay == Delay(TheRow.attemptCount + 1, Outcome(answer, now).retryAfter, r)
      <4>1. TheRow' = TheRow \/ TheRow' = Failed(TheRow, now + delay)
        BY <1>6, <3>3, AttemptRecorded
      <4>2. now + delay \in Nat
        BY <1>0, <1>6, <3>3, NextAttempt
      <4>3. now + delay # Never
        BY <4>2, NullsAssumption
      <4> QED
        BY <1>0, <3>1, <4>1, <4>3 DEF OutagesNeverBlock, Failed, Row
    <3>4. CASE answer # Good /\ ~ Transient(answer)
      BY <2>1, <3>4 DEF OutagesNeverBlock
    <3> QED
      BY <3>2, <3>3, <3>4
  <2> QED
    BY <1>0, <2>1, <2>3, <2>4 DEF PostInv
<1>7. CASE Clock
  <2>1. StoreTypeOK' /\ TheRow' = TheRow
    BY <1>0, <1>7 DEF Clock, Tick, StoreTypeOK, TheRow
  <2>2. TypeOK'
    BY <1>0, <1>7, <2>1 DEF TypeOK, Clock
  <2>3. OutagesNeverBlock'
    BY <1>0, <1>7, <2>1 DEF OutagesNeverBlock, Clock
  <2> QED
    BY <1>0, <1>7, <2>1, <2>2, <2>3 DEF PostInv, Clock
<1>8. CASE UNCHANGED vars
  <2>1. UNCHANGED <<TheRow, process, posting, notBefore, refused>> /\ TypeOK'
    BY <1>0, <1>8 DEF vars, storeVars, TheRow, TypeOK, StoreTypeOK
  <2> QED
    BY <1>0, <2>1 DEF PostInv, OutagesNeverBlock
<1>9. 0 \in 0..Scale
  BY RetryAssumption
<1> QED
  BY <1>1, <1>2, <1>3, <1>4, <1>5, <1>6, <1>7, <1>8, <1>9
     DEF Next, Starting, Attempting, Rest

-----------------------------------------------------------------------------
(* The wish of the server.                                                  *)

\* As long as every delay can be represented, each step keeps the schedule
\* behind the wish of the server.
LEMMA WishKeptStep ==
  Representable /\ PostInv /\ WishKept /\ [Next]_vars => WishKept'
<1> SUFFICES ASSUME Representable, PostInv, WishKept, [Next]_vars PROVE WishKept'
  OBVIOUS
<1>0. /\ StoreTypeOK /\ now \in Nat /\ notBefore \in Int /\ TheRow \in Row
      /\ posting # Nothing => Scheduled(TheRow)
      /\ process # "up" => notBefore = 0
  BY PostAssumption DEF PostInv, TypeOK, StoreTypeOK, TheRow
<1>1. CASE Boot
  <2>1. TheRow' = Migrated(TheRow) /\ notBefore' = 0
    BY <1>0, <1>1, RowOpened DEF Boot
  <2>2. TheRow'.nextRetryAt # Never => TheRow'.nextRetryAt \in Nat
    BY <1>0, <2>1 DEF Migrated, Row
  <2> QED
    BY <2>1, <2>2 DEF WishKept, Scheduled
<1>2. ASSUME NEW answer \in Failures \cup {Good}, ResolveChannel(answer) PROVE WishKept'
  <2>1. TheRow' \in {TheRow, Resumed(TheRow)} /\ notBefore' = 0
    BY <1>0, <1>2, RowResumed DEF ResolveChannel, storeVars, TheRow
  <2>2. TheRow'.nextRetryAt # Never => TheRow'.nextRetryAt \in Nat
    BY <1>0, <2>1 DEF Resumed, Row
  <2> QED
    BY <2>1, <2>2 DEF WishKept, Scheduled
<1>3. CASE Restart
  <2>1. TheRow' = TheRow /\ notBefore' = 0
    BY <1>3 DEF Restart, storeVars, TheRow
  <2> QED
    BY <1>0, <2>1 DEF WishKept, Scheduled, Row
<1>4. ASSUME NEW answer \in Failures \cup {Good}, NEW r \in 0..Scale,
             RecordSent(answer) \/ RecordFailure(answer, r)
      PROVE  WishKept'
  <2> DEFINE delay == Delay(TheRow.attemptCount + 1, Outcome(answer, now).retryAfter, r)
  <2>1. CASE \E id \in Posts : TheRow' = Sent(TheRow, id)
    BY <1>0, <2>1 DEF WishKept, Scheduled, Deliverable, Sent, Row
  <2>2. CASE TheRow' = Failed(TheRow, Never)
    BY <1>0, <2>2 DEF WishKept, Scheduled, Failed, Row
  <2>3. CASE answer \in Failures /\ TheRow' = Failed(TheRow, now + delay)
             /\ notBefore' = Wish(answer)
    <3>1. Wish(answer) <= now + delay
      BY <1>0, <2>3, NextAttempt
    <3>2. TheRow'.nextRetryAt = now + delay
      BY <1>0, <2>3 DEF Failed, Row
    <3> QED
      BY <2>3, <3>1, <3>2 DEF WishKept
  <2>4. ~ (answer \in Failures /\ delay > Horizon)
    <3>1. answer \in Failures => now + delay \in Nat /\ delay <= Horizon
      BY <1>0, NextAttempt
    <3>2. answer \in Failures => delay \in Int
      BY <1>0, OutcomeShape, DelayBounds DEF Row
    <3> QED
      BY <3>1, <3>2, PostAssumption
  <2> QED
    BY <1>4, <2>1, <2>2, <2>3, <2>4, AttemptRecorded
<1>5. CASE UNCHANGED <<documents, notBefore>>
  BY <1>5 DEF WishKept, TheRow
<1>6. ASSUME NEW answer \in Failures \cup {Good}, Authenticate(answer) \/ Post(answer)
      PROVE  WishKept'
  BY <1>5, <1>6 DEF Authenticate, Post, storeVars
<1>7. CASE Clock \/ Rest \/ UNCHANGED vars
  BY <1>5, <1>7 DEF Clock, Tick, Rest, vars, storeVars
<1> QED
  BY <1>1, <1>2, <1>3, <1>4, <1>6, <1>7, RetryAssumption DEF Next, Starting, Attempting

\* No attempt of a process undercuts the time the server asked it to wait
\* (README.md:607), whatever the retry policy and the answers are, as long as the
\* delays can be represented (delivery.py:228 raises OverflowError otherwise).
THEOREM PostsRespectRetryAfter ==
  ASSUME Representable PROVE Spec => RetryAfterRespected
<1>1. Init => PostInv /\ WishKept
  BY PostInvInit
<1>2. PostInv /\ WishKept /\ [Next]_vars => (PostInv /\ WishKept)'
  BY PostInvStep, WishKeptStep
<1>3. PostInv /\ WishKept /\ [Next]_vars
        => [posting = Nothing /\ posting' # Nothing => now >= notBefore]_vars
  <2> SUFFICES ASSUME PostInv, WishKept, [Next]_vars, posting = Nothing, posting' # Nothing
               PROVE  now >= notBefore
    OBVIOUS
  <2>1. PICK answer \in Failures \cup {Good} : Post(answer)
    BY DEF Next, Starting, Boot, Authenticate, ResolveChannel, Restart, Attempting,
           RecordSent, RecordFailure, Concluded, Clock, Rest, vars
  <2>2. /\ TheRow \in Row /\ now \in Nat /\ notBefore \in Int
        /\ Scheduled(TheRow) /\ TheRow.nextRetryAt <= now
    BY <2>1, PostAssumption DEF Post, DueBy, PostInv, TypeOK, StoreTypeOK, TheRow
  <2> QED
    BY <2>2 DEF WishKept, Scheduled, Row
<1> QED
  BY <1>1, <1>2, <1>3, PTL DEF Spec, RetryAfterRespected

-----------------------------------------------------------------------------
(* Outages, and what is on the server.                                      *)

\* The process, the row and the counts keep their types in every reachable state.
THEOREM PostRetriesTypeCorrect == Spec => []TypeOK
<1>1. Init => PostInv
  BY PostInvInit
<1>2. PostInv /\ [Next]_vars => PostInv'
  BY PostInvStep
<1>3. PostInv => TypeOK
  BY DEF PostInv
<1> QED
  BY <1>1, <1>2, <1>3, PTL DEF Spec

\* Timeouts, connection errors, 408, 429 and 5xx, in whatever number and order and
\* with whatever restarts in between, never block the document
\* (mattermost.py:187, delivery.py:221-228).
THEOREM OutagesBlockNothing == Spec => []OutagesNeverBlock
<1>1. Init => PostInv
  BY PostInvInit
<1>2. PostInv /\ [Next]_vars => PostInv'
  BY PostInvStep
<1>3. PostInv => OutagesNeverBlock
  BY DEF PostInv
<1> QED
  BY <1>1, <1>2, <1>3, PTL DEF Spec

\* Every answer that says a post exists names it.
Readable == \A answer \in Failures : ~ Successful(answer.status)

\* As long as such answers are readable, each step accounts for the posts.
LEMMA PostsAccountedStep ==
  Readable /\ PostInv /\ PostsAccounted /\ [Next]_vars => PostsAccounted'
<1> SUFFICES ASSUME Readable, PostInv, PostsAccounted, [Next]_vars PROVE PostsAccounted'
  OBVIOUS
<1>0. /\ StoreTypeOK /\ TheRow \in Row /\ posts \in Nat /\ lost \in BOOLEAN
      /\ posting # Nothing => Scheduled(TheRow)
      /\ process # "up" => posting = Nothing
  BY PostAssumption DEF PostInv, TypeOK, StoreTypeOK, TheRow
<1>1. CASE /\ UNCHANGED <<posts, lost, posting>>
           /\ TheRow' \in {TheRow, Migrated(TheRow), Resumed(TheRow)}
  <2>1. TheRow.status = "sent" => TheRow'.status = "sent"
    BY <1>0, <1>1 DEF Migrated, Resumed, Deliverable
  <2> QED
    BY <1>1, <2>1 DEF PostsAccounted
<1>2. CASE Boot
  BY <1>0, <1>1, <1>2, RowOpened DEF Boot
<1>3. ASSUME NEW answer \in Failures \cup {Good}, ResolveChannel(answer)
      PROVE  PostsAccounted'
  BY <1>0, <1>1, <1>3, RowResumed DEF ResolveChannel, storeVars, TheRow
<1>4. ASSUME NEW answer \in Failures \cup {Good}, Authenticate(answer)
      PROVE  PostsAccounted'
  BY <1>1, <1>4 DEF Authenticate, storeVars, TheRow
<1>5. CASE Restart
  <2>1. TheRow' = TheRow /\ posts' = posts
    BY <1>5 DEF Restart, storeVars, TheRow
  <2>2. ~ lost' => ~ lost /\ ~ (posting # Nothing /\ Successful(posting[2].status))
    BY <1>0, <1>5 DEF Restart
  <2> QED
    BY <2>1, <2>2 DEF PostsAccounted
<1>6. ASSUME NEW answer \in Failures \cup {Good}, Post(answer) PROVE PostsAccounted'
  <2>1. TheRow' = TheRow /\ TheRow.status = "pending" /\ posting = Nothing
    BY <1>6 DEF Post, DueBy, Scheduled, Deliverable, storeVars, TheRow
  <2>2. ~ lost => posts = 0
    BY <1>0, <2>1 DEF PostsAccounted
  <2>3. posting' # Nothing /\ posting'[2] = answer
    BY <1>6 DEF Post, Nothing
  <2>4. CASE Successful(answer.status) /\ posts' = posts + 1 /\ UNCHANGED lost
    BY <1>0, <2>2, <2>3, <2>4 DEF PostsAccounted
  <2>5. CASE lost' = TRUE
    BY <2>5 DEF PostsAccounted
  <2>6. CASE UNCHANGED <<posts, lost>>
    BY <1>0, <2>2, <2>6 DEF PostsAccounted
  <2> QED
    BY <1>6, <2>4, <2>5, <2>6 DEF Post
<1>7. ASSUME NEW answer \in Failures \cup {Good}, NEW r \in 0..Scale,
             RecordSent(answer) \/ RecordFailure(answer, r)
      PROVE  PostsAccounted'
  <2>1. /\ posting # Nothing /\ posting[2] = answer /\ UNCHANGED <<posts, lost>>
        /\ TheRow.status = "pending"
    BY <1>0, <1>7, AttemptRecorded DEF RecordSent, RecordFailure, Concluded, Scheduled, Deliverable
  <2>2. CASE answer = Good
    <3>1. PICK id \in Posts : TheRow' = Sent(TheRow, id)
      BY <1>7, <2>2, AttemptRecorded, GoodIsNoFailure
    <3>2. TheRow'.status = "sent"
      BY <1>0, <3>1 DEF Sent, Row
    <3> QED
      BY <2>1, <3>2 DEF PostsAccounted
  <2>3. CASE answer \in Failures
    <3>1. ~ Successful(posting[2].status)
      BY <2>1, <2>3 DEF Readable
    <3> QED
      BY <2>1, <3>1 DEF PostsAccounted
  <2> QED
    BY <2>2, <2>3
<1>8. CASE Clock \/ Rest \/ UNCHANGED vars
  BY <1>1, <1>8 DEF Clock, Tick, Rest, vars, storeVars, TheRow
<1> QED
  BY <1>2, <1>3, <1>4, <1>5, <1>6, <1>7, <1>8, RetryAssumption DEF Next, Starting, Attempting

\* A document is posted a second time only if the answer to a post was lost
\* (README.md:626: at least once), through any number of outages, refusals and
\* restarts, as long as the answer to a post names it (mattermost.py:113-119
\* refuses one that does not).
THEOREM PostsRepeatedOnlyIfLost ==
  ASSUME Readable PROVE Spec => []PostedAgainOnlyIfLost
<1>1. Init => PostInv /\ PostsAccounted
  BY PostInvInit
<1>2. PostInv /\ PostsAccounted /\ [Next]_vars => (PostInv /\ PostsAccounted)'
  BY PostInvStep, PostsAccountedStep
<1>3. PostInv /\ PostsAccounted => PostedAgainOnlyIfLost
  BY DEF PostInv, TypeOK, PostsAccounted, PostedAgainOnlyIfLost
<1> QED
  BY <1>1, <1>2, <1>3, PTL DEF Spec

-----------------------------------------------------------------------------
(* The backoff.                                                             *)

\* The cap of the exponent, 30, is never in the way (retry.py:35-38).
ExponentsFit == ImmediateRetryAttempts <= 31

\* The powers that the exponential schedule is made of.
LEMMA PowersAreNatural == ASSUME NEW k \in 0..30 PROVE 2^k \in Nat
<1>1. k \in { 0, 1, 2, 3, 4, 5, 6, 7, 8, 9, 10, 11, 12, 13, 14, 15, 16, 17, 18, 19, 20,
               21, 22, 23, 24, 25, 26, 27, 28, 29, 30 }
  OBVIOUS
<1>2. /\ 2^0 \in Nat /\ 2^1 \in Nat /\ 2^2 \in Nat /\ 2^3 \in Nat /\ 2^4 \in Nat
      /\ 2^5 \in Nat /\ 2^6 \in Nat /\ 2^7 \in Nat /\ 2^8 \in Nat /\ 2^9 \in Nat
      /\ 2^10 \in Nat /\ 2^11 \in Nat /\ 2^12 \in Nat /\ 2^13 \in Nat /\ 2^14 \in Nat
      /\ 2^15 \in Nat /\ 2^16 \in Nat /\ 2^17 \in Nat /\ 2^18 \in Nat /\ 2^19 \in Nat
      /\ 2^20 \in Nat /\ 2^21 \in Nat /\ 2^22 \in Nat /\ 2^23 \in Nat /\ 2^24 \in Nat
      /\ 2^25 \in Nat /\ 2^26 \in Nat /\ 2^27 \in Nat /\ 2^28 \in Nat /\ 2^29 \in Nat
      /\ 2^30 \in Nat
  OBVIOUS
<1> QED
  BY <1>1, <1>2

\* The n-th delay of the exponential schedule.
Cap(n) == IF n > ImmediateRetryAttempts THEN RetryMax
          ELSE Smaller(RetryMax, RetryBase * 2^(n - 1))

\* Jitter keeps the backoff in a band around the exponential schedule (retry.py:36-43).
LEMMA JitteredInBand ==
  ASSUME ExponentsFit, NEW n \in Nat \ {0}, NEW r \in 0..Scale
  PROVE  /\ Cap(n) \in Nat
         /\ Cap(n) * (Ticks - Jitter * Scale) <= Jittered(n, r)
         /\ Jittered(n, r) <= Cap(n) * (Ticks + Jitter * Scale)
<1>1. BaseDelay(n) = Cap(n) /\ Cap(n) \in Nat
  <2>1. CASE n > ImmediateRetryAttempts
    BY <2>1, RetryAssumption DEF BaseDelay, Cap, AcceptedRetryConfig
  <2>2. CASE ~ (n > ImmediateRetryAttempts)
    <3>1. n - 1 \in 0..30 /\ Smaller(n - 1, 30) = n - 1 /\ n <= ImmediateRetryAttempts
      BY <2>2, RetryAssumption DEF ExponentsFit, Smaller, AcceptedRetryConfig
    <3>2. BaseDelay(n) = Smaller(RetryMax, RetryBase * 2^(n - 1)) /\ BaseDelay(n) = Cap(n)
      BY <2>2, <3>1 DEF BaseDelay, Cap
    <3>3. 2^(n - 1) \in Nat /\ RetryBase \in Nat /\ RetryMax \in Nat
      BY <3>1, PowersAreNatural, RetryAssumption DEF AcceptedRetryConfig
    <3> QED
      BY <3>2, <3>3 DEF Smaller
  <2> QED
    BY <2>1, <2>2
<1> DEFINE low == Ticks - Jitter * Scale
           high == Ticks + Jitter * Scale
           factor == JitterFactor(r)
<1>2. low \in Nat /\ high \in Nat /\ factor \in Nat /\ low <= factor /\ factor <= high
  BY JitterBounds, RetryAssumption DEF Ticks, AcceptedRetryConfig
<1>3. low * Cap(n) <= factor * Cap(n) /\ factor * Cap(n) <= high * Cap(n)
  BY <1>1, <1>2, ProductsKeepOrder
<1>4. Jittered(n, r) = Cap(n) * factor
  BY <1>1, <1>2 DEF Jittered, Larger
<1> QED
  BY <1>1, <1>2, <1>3, <1>4

\* The band holds between the recorded failure and the schedule of the row.
BandKept ==
    /\ process # "up" => failedAt = Never
    /\ failedAt # Never /\ Scheduled(TheRow) =>
          /\ TheRow.attemptCount \in Nat \ {0}
          /\ TheRow.nextRetryAt - failedAt
                >= Cap(TheRow.attemptCount) * (Ticks - Jitter * Scale)
          /\ TheRow.nextRetryAt - failedAt
                <= Larger(Cap(TheRow.attemptCount) * (Ticks + Jitter * Scale),
                          notBefore - failedAt)

\* Each step keeps the band: a recorded failure makes it, and nothing else the
\* running process does changes the schedule.
LEMMA BandKeptStep ==
  Representable /\ ExponentsFit /\ PostInv /\ BandKept /\ [Next]_vars => BandKept'
<1> SUFFICES ASSUME Representable, ExponentsFit, PostInv, BandKept, [Next]_vars
             PROVE  BandKept'
  OBVIOUS
<1>0. /\ StoreTypeOK /\ now \in Nat /\ notBefore \in Int /\ TheRow \in Row
      /\ posting # Nothing => Scheduled(TheRow) /\ process = "up"
  BY PostAssumption DEF PostInv, TypeOK, StoreTypeOK, TheRow
<1>1. CASE failedAt' = Never
  BY <1>1 DEF BandKept
<1>2. CASE UNCHANGED <<documents, notBefore, failedAt, process>>
  BY <1>2 DEF BandKept, TheRow
<1>3. CASE Boot \/ Restart
  BY <1>1, <1>3 DEF Boot, Restart, BandKept
<1>4. ASSUME NEW answer \in Failures \cup {Good},
             Authenticate(answer) \/ ResolveChannel(answer)
      PROVE  BandKept'
  BY <1>1, <1>4 DEF Authenticate, ResolveChannel, BandKept
<1>5. ASSUME NEW answer \in Failures \cup {Good}, Post(answer) PROVE BandKept'
  BY <1>2, <1>5 DEF Post, storeVars
<1>6. ASSUME NEW answer \in Failures \cup {Good}, NEW r \in 0..Scale,
             RecordSent(answer) \/ RecordFailure(answer, r)
      PROVE  BandKept'
  <2> DEFINE n == TheRow.attemptCount + 1
             delay == Delay(n, Outcome(answer, now).retryAfter, r)
  <2>1. process' = process /\ process = "up" /\ n \in Nat \ {0}
    BY <1>0, <1>6, AttemptRecorded DEF RecordSent, RecordFailure, Concluded, Row
  <2>2. CASE \E id \in Posts : TheRow' = Sent(TheRow, id)
    BY <1>0, <2>1, <2>2 DEF BandKept, Scheduled, Deliverable, Sent, Row
  <2>3. CASE TheRow' = Failed(TheRow, Never)
    BY <1>0, <2>1, <2>3 DEF BandKept, Scheduled, Failed, Row
  <2>4. CASE /\ answer \in Failures /\ TheRow' = Failed(TheRow, now + delay)
             /\ notBefore' = Wish(answer) /\ failedAt' = now
    <3>1. /\ now + delay \in Nat /\ Wish(answer) \in Int
          /\ delay \in {Jittered(n, r), Wish(answer) - now}
          /\ Jittered(n, r) <= delay
      BY <1>0, <2>4, NextAttempt
    <3>2. TheRow'.nextRetryAt = now + delay /\ TheRow'.attemptCount = n
      BY <1>0, <2>4 DEF Failed, Row
    <3>3. /\ Cap(n) * (Ticks - Jitter * Scale) <= Jittered(n, r)
          /\ Jittered(n, r) <= Cap(n) * (Ticks + Jitter * Scale)
          /\ Cap(n) * (Ticks - Jitter * Scale) \in Int
          /\ Cap(n) * (Ticks + Jitter * Scale) \in Int
      BY <2>1, JitteredInBand, RetryAssumption DEF AcceptedRetryConfig, Ticks
    <3>4. Jittered(n, r) \in Int /\ delay \in Int
      BY <1>0, <2>1, <2>4, OutcomeShape, DelayBounds
    <3>5. (now + delay) - now = delay
      BY <1>0, <3>4
    <3>6. delay >= Cap(n) * (Ticks - Jitter * Scale)
      BY <3>1, <3>3, <3>4
    <3>7. delay <= Larger(Cap(n) * (Ticks + Jitter * Scale), Wish(answer) - now)
      BY <1>0, <3>1, <3>3, <3>4 DEF Larger
    <3> QED
      BY <2>1, <2>4, <3>2, <3>5, <3>6, <3>7 DEF BandKept
  <2>5. ~ (answer \in Failures /\ delay > Horizon)
    <3>1. answer \in Failures => delay <= Horizon
      BY <1>0, NextAttempt
    <3>2. answer \in Failures => delay \in Int
      BY <1>0, <2>1, OutcomeShape, DelayBounds
    <3> QED
      BY <3>1, <3>2, PostAssumption
  <2> QED
    BY <1>6, <2>2, <2>3, <2>4, <2>5, AttemptRecorded
<1>7. CASE Clock \/ Rest \/ UNCHANGED vars
  BY <1>2, <1>7 DEF Clock, Tick, Rest, vars, storeVars
<1> QED
  BY <1>3, <1>4, <1>5, <1>6, <1>7, RetryAssumption DEF Next, Starting, Attempting

\* Every retry the running process schedules waits as long as the exponential
\* schedule says, give or take the jitter, and longer only if the server asked for
\* it (retry.py:24-46, delivery.py:221-228), for every retry policy whose cap on
\* the exponent plays no part.
THEOREM RetriesBackOff ==
  ASSUME Representable, ExponentsFit PROVE Spec => []BackoffInBand
<1>1. Init => PostInv /\ BandKept
  BY PostInvInit DEF Init, BandKept
<1>2. PostInv /\ BandKept /\ [Next]_vars => (PostInv /\ BandKept)'
  BY PostInvStep, BandKeptStep
<1>3. BandKept => BackoffInBand
  BY DEF BandKept, BackoffInBand, Cap
<1> QED
  BY <1>1, <1>2, <1>3, PTL DEF Spec
====
