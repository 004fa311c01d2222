----------------------------- MODULE RetryPolicy -----------------------------
(***************************************************************************)
(* The delay before the next attempt (retry.py): exponential up to a cap   *)
(* for the first failures, the cap for all later ones, spread by jitter,   *)
(* and never less than what the server asked for.                          *)
(*                                                                         *)
(* retry_jitter_ratio and the random number are multiples of 1 / Scale,    *)
(* base_seconds and max_seconds are whole units, and a delay is counted in *)
(* ticks, Scale * Scale of which make a unit: no delay is ever rounded.    *)
(***************************************************************************)
EXTENDS Integers

CONSTANTS
    ImmediateRetryAttempts,  \* immediate_retry_attempts
    RetryBase,               \* retry_base_seconds
    RetryMax,                \* retry_max_seconds
    Jitter,                  \* retry_jitter_ratio, in 1 / Scale
    Scale                    \* what a ratio of one is

\* What parse_config lets through.
AcceptedRetryConfig ==
    /\ ImmediateRetryAttempts \in Nat
    /\ RetryBase \in Nat \ {0}
    /\ RetryMax \in Nat /\ RetryMax >= RetryBase
    /\ Jitter \in 0..Scale

ASSUME RetryAssumption == Scale \in Nat \ {0} /\ AcceptedRetryConfig

Ticks == Scale * Scale
Smaller(x, y) == IF x <= y THEN x ELSE y
Larger(x, y) == IF x >= y THEN x ELSE y

\* Slip: the exponent is one too large.
BaseDelayAhead(n) ==
    IF n <= ImmediateRetryAttempts
    THEN Smaller(RetryMax, RetryBase * 2^Smaller(n, 30))
    ELSE RetryMax

BaseDelay(n) ==
    IF n <= ImmediateRetryAttempts
    THEN Smaller(RetryMax, RetryBase * 2^Smaller(n - 1, 30))
    ELSE RetryMax

\* The random number r is between 0 and Scale.
JitterFactor(r) == Ticks + Jitter * (2 * r - Scale)
Jittered(n, r) == Larger(0, BaseDelay(n) * JitterFactor(r))

\* Slip: the wish of the server is ignored.
DelayUnasked(n, retryAfter, r) == Jittered(n, r)

\* delay_seconds; retryAfter holds the wish of the server in ticks, if it has one.
Delay(n, retryAfter, r) ==
    CHOOSE delay \in {Jittered(n, r)} \cup retryAfter :
        \A other \in {Jittered(n, r)} \cup retryAfter : other <= delay
=============================================================================
