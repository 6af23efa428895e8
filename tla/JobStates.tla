----------------------------- MODULE JobStates -----------------------------
(***************************************************************************)
(* The closed enumerations of the jobs application and the two decision    *)
(* tables written over them: the graph of legal status changes             *)
(* (jobs/domain) and the set of failures that may be retried               *)
(* (jobs/services).  No state lives here.                                  *)
(***************************************************************************)

\* A row that has not been inserted yet (for jobs, attempts, dead letters).
NoRow == "NO_ROW"

JobStatus == {"WAITING", "QUEUED", "EXECUTING", "RETRY_WAIT",
              "CANCEL_REQUESTED", "SUCCEEDED", "FAILED_FINAL", "CANCELLED"}

\* The statuses cancel_job treats as finished.
Terminal == {"SUCCEEDED", "FAILED_FINAL", "CANCELLED"}

\* The statuses of a job between _reserve_job and release_capacity.
Slotted == {"QUEUED", "EXECUTING", "CANCEL_REQUESTED"}

AttemptStatus == {"RUNNING", "SUCCEEDED", "FAILED", "TIMED_OUT", "ABANDONED",
                  "CANCELLED"}

DeadLetterStatus == {"OPEN", "REPLAYED", "DISMISSED"}

FailureType == {"TRANSIENT", "PERMANENT", "INFRASTRUCTURE", "TIMEOUT", "UNKNOWN"}

\* What execute() can classify an exception of a handler as.
HandlerFailure == {"TRANSIENT", "PERMANENT", "UNKNOWN"}

Retryable == {"TRANSIENT", "INFRASTRUCTURE", "TIMEOUT", "UNKNOWN"}

ALLOWED_TRANSITIONS ==
    [s \in JobStatus |->
        CASE s = "WAITING"          -> {"QUEUED", "CANCELLED"}
          [] s = "QUEUED"           -> {"EXECUTING", "CANCEL_REQUESTED", "WAITING"}
          [] s = "EXECUTING"        -> {"SUCCEEDED", "RETRY_WAIT", "FAILED_FINAL",
                                        "CANCEL_REQUESTED"}
          [] s = "RETRY_WAIT"       -> {"WAITING", "CANCELLED"}
          [] s = "CANCEL_REQUESTED" -> {"CANCELLED", "SUCCEEDED"}
          [] OTHER                  -> {}]

\* validate_transition: raises unless this holds.
IsValidTransition(current, new) == new \in ALLOWED_TRANSITIONS[current]
=============================================================================
