----------------------------- MODULE RetryPolicy -----------------------------
(***************************************************************************)
(* The retry policy of JobsService: which job types may be retried, how    *)
(* many attempts a job has, and how long a failed attempt waits            *)
(* (getRetryPolicy and computeBackoffSeconds in jobs.service.ts).  The     *)
(* numbers come from the environment, so they are constants here.          *)
(***************************************************************************)
EXTENDS Integers

CONSTANTS
    MaxAttemptsOf,   \* JOB_RETRY_MAX_ATTEMPTS_<type>, of each retryable type
    BaseBackoffOf,   \* JOB_RETRY_BACKOFF_SECONDS_<type>
    MaxBackoff       \* JOB_RETRY_MAX_BACKOFF_SECONDS

RetryableTypes   == {"BUCKET_SYNC", "UPLOAD_CLEANUP", "RETENTION_CLEANUP"}
DestructiveTypes == {"FOLDER_RENAME", "FOLDER_DELETE"}
JobTypes         == RetryableTypes \cup DestructiveTypes

\* common/env.ts accepts positive integers only.
ASSUME RetryConfigAssumption ==
    /\ MaxAttemptsOf \in [RetryableTypes -> Nat \ {0}]
    /\ BaseBackoffOf \in [RetryableTypes -> Nat \ {0}]
    /\ MaxBackoff \in Nat \ {0}

Retryable(type)   == type \in RetryableTypes
MaxAttempts(type) == IF Retryable(type) THEN MaxAttemptsOf[type] ELSE 1
BaseBackoff(type) == IF Retryable(type) THEN BaseBackoffOf[type] ELSE 0

\* Math.max and Math.min of two integers.
Larger(a, b)  == IF a > b THEN a ELSE b
Smaller(a, b) == IF a < b THEN a ELSE b

\* The wait after the given attempt failed: the base doubles per attempt, is
\* never below the base and never above the cap (which wins over the base).
Backoff(type, attemptCount) ==
    LET exponent == Larger(attemptCount - 1, 0)
        raw      == BaseBackoff(type) * 2^exponent
    IN  Smaller(Larger(raw, BaseBackoff(type)), MaxBackoff)
=============================================================================
