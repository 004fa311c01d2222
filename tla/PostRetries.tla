------------------------------ MODULE PostRetries ------------------------------
(***************************************************************************)
(* One pending document against a Mattermost server that fails for a time: *)
(* the process starts (__main__.py:56-73, service.py:68-102), posts the    *)
(* document, records what the client makes of the answer (delivery.py:     *)
(* 189-273), waits as long as the retry policy says, and is stopped or     *)
(* killed.                                                                 *)
(*                                                                         *)
(* The clock counts the ticks of RetryPolicy.  Threads, slots and further  *)
(* documents are the matter of DeliveryWorker.                             *)
(***************************************************************************)
EXTENDS StateStore, RetryPolicy, MattermostClient

CONSTANTS
    Vault,        \* the only member of Vaults
    Document,     \* the only member of Paths
    Failures,     \* what a failing server may answer
    Horizon,      \* the longest delay that timedelta and datetime represent
    Slack,        \* bound: ticks after its due time by which an attempt has ended
    MaxFailures,  \* bound: failing answers; then the server is well again
    MaxRestarts   \* bound: how often the process ends

ASSUME PostAssumption ==
    /\ Vaults = {Vault} /\ Paths = {Document} /\ Posts # {}
    /\ \A answer \in Failures :
        /\ answer \in Answer
        /\ answer.error # "none" => answer = Raised(answer.error)
        /\ ~ (Successful(answer.status) /\ answer.body = "id")
    /\ Horizon \in Nat /\ Slack \in Nat /\ MaxFailures \in Nat /\ MaxRestarts \in Nat

VARIABLES
    process,    \* "down", "auth", "channel" (starting) or "up"
    posting,    \* the attempt under way: generation and answer, Nothing if none
    posts,      \* posts on the server
    lost,       \* a post exists whose answer did not arrive
    notBefore,  \* the time the server wants to be left alone until
    failedAt,   \* when this process last recorded a failure, Never before
    refused,    \* the last answer to a POST was a failure that is not transient
    failures,   \* failing answers so far
    restarts    \* ends of the process so far

vars == <<storeVars, process, posting, posts, lost, notBefore, failedAt, refused,
          failures, restarts>>

Nothing == <<>>
Good == Http(201, "id", <<>>)
TheRow == documents[Vault][Document]

TypeOK ==
    /\ StoreTypeOK
    /\ process \in {"down", "auth", "channel", "up"}
    /\ posting = Nothing \/ posting \in Nat \X (Failures \cup {Good})
    /\ posts \in Nat /\ failures \in 0..MaxFailures /\ restarts \in 0..MaxRestarts
    /\ lost \in BOOLEAN /\ refused \in BOOLEAN
    /\ notBefore \in Int
    /\ failedAt \in Nat \cup {Never}

\* The document has been observed, and its quiet time is over.
Init ==
    /\ now = 0
    /\ vaults = Vaults
    /\ documents = [v \in Vaults |-> [p \in Paths |-> Fresh(NoRow, 0)]]
    /\ process = "down" /\ posting = Nothing
    /\ posts = 0 /\ lost = FALSE /\ notBefore = 0 /\ failedAt = Never /\ refused = FALSE
    /\ failures = 0 /\ restarts = 0

\* Bound: failures happen early enough for the next attempt to be seen.
LongestBackoff == RetryMax * (Ticks + Jitter * Scale)
Early == now + Slack + LongestBackoff <= MaxTime

\* The server answers.
Answers(answer) ==
    \/ answer = Good /\ UNCHANGED failures
    \/ /\ answer \in Failures /\ failures < MaxFailures /\ Early
       /\ failures' = failures + 1

-----------------------------------------------------------------------------
(* The process.                                                             *)

Boot ==
    /\ process = "down"
    /\ Open
    /\ process' = "auth"
    /\ UNCHANGED <<posting, posts, lost, notBefore, failedAt, refused, failures, restarts>>

\* validate_auth: an error ends start() and with it the process.
Authenticate(answer) ==
    /\ process = "auth"
    /\ Answers(answer)
    /\ process' = IF Outcome(answer, now).ok THEN "channel" ELSE "down"
    /\ UNCHANGED <<storeVars, posting, posts, lost, notBefore, failedAt, refused, restarts>>

\* channel_id_for; with its only vault failing, start() raises as well.
ResolveChannel(answer) ==
    /\ process = "channel"
    /\ Answers(answer)
    /\ IF Outcome(answer, now).ok
       THEN process' = "up" /\ ResumePending
       ELSE process' = "down" /\ UNCHANGED storeVars
    /\ UNCHANGED <<posting, posts, lost, notBefore, failedAt, refused, restarts>>

\* The process ends, killed or by SIGTERM (which waits for the POST).  The next
\* one resumes at once what this one has put off.
Restart ==
    /\ process # "down" /\ restarts < MaxRestarts
    /\ restarts' = restarts + 1
    /\ process' = "down"
    /\ posting' = Nothing
    /\ lost' = (lost \/ (posting # Nothing /\ Successful(posting[2].status)))
    /\ notBefore' = 0 /\ failedAt' = Never
    /\ UNCHANGED <<storeVars, posts, refused, failures>>

-----------------------------------------------------------------------------
(* An attempt.                                                              *)

\* What may have been carried out although it was not answered well.
Unclear(answer) ==
    answer.error # "none" \/ answer.status = 408 \/ answer.status \in 500..599

\* The request is sent, and the server carries it out or not.
Post(answer) ==
    /\ process = "up" /\ posting = Nothing /\ DueBy(TheRow, now)
    /\ Answers(answer)
    /\ posting' = <<TheRow.generation, answer>>
    /\ \/ Successful(answer.status) /\ posts' = posts + 1 /\ UNCHANGED lost
       \/ Unclear(answer) /\ posts' = posts + 1 /\ lost' = TRUE
       \/ ~ Successful(answer.status) /\ UNCHANGED <<posts, lost>>
    /\ UNCHANGED <<storeVars, process, notBefore, failedAt, refused, restarts>>

\* What the server asked for, whatever the client makes of it.
Wish(answer) ==
    IF answer.status = 429 /\ answer.header \in {"seconds", "date"} \X Int
    THEN IF answer.header[1] = "date" THEN answer.header[2] ELSE now + answer.header[2]
    ELSE 0

\* What the documentation calls worth a retry: timeouts, connection errors, 408,
\* 429 and 5xx (docs/PHASE2_PROMPT.md:24).
Transient(answer) ==
    \/ answer.error \in {"timeout", "connection_error"}
    \/ answer.error = "none" /\ (answer.status \in {408, 429} \/ answer.status \div 100 = 5)

Concluded(answer) ==
    /\ posting # Nothing /\ posting[2] = answer
    /\ posting' = Nothing
    /\ refused' = (answer # Good /\ ~ Transient(answer))
    /\ UNCHANGED <<process, posts, lost, failures, restarts>>

\* Slip: mark_sent is told an earlier generation.
RecordSentStale(answer) ==
    /\ Concluded(answer)
    /\ Outcome(answer, now).ok
    /\ MarkSent(Vault, Document, posting[1] - 1, CHOOSE id \in Posts : TRUE)
    /\ UNCHANGED <<notBefore, failedAt>>

\* mark_sent.
RecordSent(answer) ==
    /\ Concluded(answer)
    /\ Outcome(answer, now).ok
    /\ MarkSent(Vault, Document, posting[1], CHOOSE id \in Posts : TRUE)
    /\ UNCHANGED <<notBefore, failedAt>>

\* _record_failure.  A delay nobody can represent raises OverflowError, and
\* nothing is recorded.
RecordFailure(answer, r) ==
    LET outcome == Outcome(answer, now)
        delay == Delay(TheRow.attemptCount + 1, outcome.retryAfter, r)
    IN  /\ Concluded(answer)
        /\ ~ outcome.ok
        /\ notBefore' = Wish(answer)
        /\ IF outcome.retryable /\ delay > Horizon
           THEN UNCHANGED <<storeVars, failedAt>>
           ELSE /\ MarkDeliveryFailure(Vault, Document, posting[1],
                                       IF outcome.retryable THEN now + delay ELSE Never)
                /\ failedAt' = now

\* Starting is taken to last no time, since nothing is due in between.
Clock ==
    /\ Tick
    /\ process = "up" /\ ~ DueBy(TheRow, now - Slack)
    /\ UNCHANGED <<process, posting, posts, lost, notBefore, failedAt, refused,
                   failures, restarts>>

-----------------------------------------------------------------------------
Starting == Boot \/ \E answer \in Failures \cup {Good} :
                        Authenticate(answer) \/ ResolveChannel(answer)

Attempting == \E answer \in Failures \cup {Good} :
    Post(answer) \/ RecordSent(answer) \/ \E r \in 0..Scale : RecordFailure(answer, r)

\* The document has been posted or has been given up, and nothing goes on.
Rest ==
    /\ process = "up" /\ posting = Nothing /\ ~ Scheduled(TheRow)
    /\ UNCHANGED vars

Next == Starting \/ Restart \/ Attempting \/ Clock \/ Rest

Spec == Init /\ [][Next]_vars

\* The process is started again whenever it has ended (restart: unless-stopped
\* in compose.example.yaml), its threads run and time passes.
FairSpec == Spec /\ WF_vars(Starting) /\ WF_vars(Attempting) /\ WF_vars(Clock)

-----------------------------------------------------------------------------
(* Properties.                                                              *)

\* An outage blocks no document: a document is off the schedule only after an
\* answer that no later attempt would better.
OutagesNeverBlock ==
    TheRow.status = "pending" /\ TheRow.nextRetryAt = Never => refused

\* The wish of the server is respected by every attempt of the process it was
\* told to (README.md:607).
RetryAfterRespected == [][posting = Nothing /\ posting' # Nothing => now >= notBefore]_vars

\* The attempts back off: the n-th retry of a generation waits for the n-th
\* delay of the exponential schedule, give or take the jitter, and never longer
\* unless the server wants it to.
BackoffInBand ==
    failedAt # Never /\ Scheduled(TheRow) =>
        LET base == Smaller(RetryMax, RetryBase * 2^(TheRow.attemptCount - 1))
            cap == IF TheRow.attemptCount > ImmediateRetryAttempts THEN RetryMax ELSE base
            waits == TheRow.nextRetryAt - failedAt
        IN  /\ waits >= cap * (Ticks - Jitter * Scale)
            /\ waits <= Larger(cap * (Ticks + Jitter * Scale), notBefore - failedAt)

\* A document is posted twice only if a post was carried out whose answer was
\* lost (README.md:626).
PostedAgainOnlyIfLost == posts > 1 => lost

\* A document whose server recovers is posted, unless an answer that is not
\* transient has blocked it (README.md:624, docs/HANDOFF.md:520).
EventuallyPosted == <>(TheRow.status = "sent" \/ refused)
=============================================================================
