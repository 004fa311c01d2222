--------------------------- MODULE MattermostClient ---------------------------
(***************************************************************************)
(* What the client makes of the answer to a request (mattermost.py): the   *)
(* id it asked for, or an error that is worth another attempt or not, with *)
(* the time the server wants to be left alone.                             *)
(*                                                                         *)
(* An answer is an exception of requests, or a status with a body and a    *)
(* Retry-After header; URLs, payloads and wording are left out.            *)
(***************************************************************************)
EXTENDS Integers

Bodies == {"id", "no id", "no object", "no json"}

Exceptions == {"timeout", "connection_error", "request_error"}

\* A Retry-After header: absent, a number, nan, a date or anything else.
Headers == {<<>>, <<"nan">>, <<"other">>} \cup ({"seconds", "date"} \X Int)

Answer == [error : Exceptions \cup {"none"}, status : Nat, body : Bodies, header : Headers]

Raised(exception) == [error |-> exception, status |-> 0, body |-> "no json", header |-> <<>>]
Http(code, text, retryAfter) ==
    [error |-> "none", status |-> code, body |-> text, header |-> retryAfter]

NotNegative(x) == IF x < 0 THEN 0 ELSE x

\* _retry_after_seconds, as a set that is empty for None: max(0.0, nan) is 0.0,
\* and a date counts from now.
RetryAfterSeconds(header, at) ==
    CASE header \in {<<>>, <<"other">>} -> {}
      [] header = <<"nan">> -> {0}
      [] header \in {"seconds"} \X Int -> {NotNegative(header[2])}
      [] header \in {"date"} \X Int -> {NotNegative(header[2] - at)}

Successful(code) == code \in 200..299

\* Slip: a request timeout of the server is a refusal.
RetryableClientError(code) == code = 429 \/ code \in 500..599

\* _response_json, line 187.
RetryableStatus(code) == code \in {408, 429} \/ code \in 500..599

Failure(again, hint) == [ok |-> FALSE, retryable |-> again, retryAfter |-> hint]

\* _get_json, _post_json, _response_json and the look at the id of their callers.
Outcome(answer, at) ==
    CASE answer.error \in {"timeout", "connection_error"} -> Failure(TRUE, {})
      [] answer.error = "request_error" -> Failure(FALSE, {})
      [] answer.error = "none" /\ ~ Successful(answer.status) ->
            Failure(RetryableStatus(answer.status),
                    IF answer.status = 429 THEN RetryAfterSeconds(answer.header, at)
                    ELSE {})
      [] answer.error = "none" /\ Successful(answer.status) /\ answer.body # "id" ->
            Failure(FALSE, {})
      [] answer.error = "none" /\ Successful(answer.status) /\ answer.body = "id" ->
            [ok |-> TRUE, retryable |-> FALSE, retryAfter |-> {}]
=============================================================================
