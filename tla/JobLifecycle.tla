---------------------------- MODULE JobLifecycle ----------------------------
(***************************************************************************)
(* The life of a job, from the API call that inserts its row to a terminal *)
(* status: jobs/services over the tables of jobs/models, driven by the     *)
(* API views, the four periodic tasks of jobs/tasks.py and any number of   *)
(* Celery workers.                                                         *)
(*                                                                         *)
(* One action is one committed database transaction (or one autocommit     *)
(* statement, one broker operation, one end of a worker), and transactions *)
(* of different processes interleave freely.  What a process remembers     *)
(* between two of its transactions is state here: the attempts and         *)
(* reservations a reaper run has listed, an API request that has not       *)
(* refreshed the index yet, the handlers living workers are executing.     *)
(*                                                                         *)
(* Time is abstracted to the two comparisons the code makes: a job's       *)
(* available_at is past (due) or not, a lease or reservation is found      *)
(* expired by a reaper or not.                                             *)
(***************************************************************************)
EXTENDS JobStates, Integers, FiniteSets

CONSTANTS
    Job,            \* ids of job rows, submitted or cloned by a replay
    Tenant,
    Key, NoKey,     \* overlap keys; NoKey: the payload names none
    TenantOf,       \* job.tenant
    KeyOf,          \* job.payload.get("overlap_key")
    Delayed,        \* jobs a client submits with available_at in the future
    MaxConcurrent,  \* tenant.max_concurrent_jobs
    MaxRetries,     \* number of entries of RETRY_DELAYS (3), keys 1, 2, 3
    Faults          \* the environment's misbehaviour, see FaultKinds

\* lease_lapse: a lease expires although its worker is alive (a handler that
\*   runs longer than the five minutes and sends no heartbeat, a paused host).
\* slow_pickup: a reservation expires although the message that would claim
\*   the job is on its way (a queue of more than five minutes).
\* reaper_overlap: two runs of reconcile_zombies have listed the same row.
\* commit_unknown: complete_job commits but its worker sees an error.
\* api_crash: the API process dies between submit_job and the refresh.
FaultKinds ==
    {"lease_lapse", "slow_pickup", "reaper_overlap", "commit_unknown", "api_crash"}

ASSUME JobAssumption == IsFiniteSet(Job)
ASSUME AttributesAssumption ==
    /\ NoKey \notin Key
    /\ TenantOf \in [Job -> Tenant]
    /\ KeyOf \in [Job -> Key \cup {NoKey}]
    /\ Delayed \subseteq Job
ASSUME LimitsAssumption ==
    /\ MaxConcurrent \in [Tenant -> Nat]
    /\ MaxRetries \in Nat
ASSUME FaultsAssumption == Faults \subseteq FaultKinds

MaxAttempts == MaxRetries + 1
Attempts == Job \X (1 .. MaxAttempts)   \* <<job, attempt_number>>

VARIABLES
    \* rows of the database
    status,         \* jobs.status, NoRow before the insert
    attemptCount,   \* jobs.attempt_count
    due,            \* jobs whose available_at is <= now()
    attempt,        \* job_attempts.status per (job, attempt_number)
    reserved,       \* jobs with a job_execution_reservations row
    locked,         \* jobs with a job_overlap_locks row
    active,         \* tenant_scheduler_state.active_reservations
    hasReady,       \* tenant_scheduler_state.has_ready_work
    outbox,         \* jobs with a PENDING job_outbox event
    deadLetter,     \* dead_letter_jobs.status per job
    \* the broker
    broker,         \* jobs with at least one execute_job message in Redis
    \* memory of the processes
    apiRequest,     \* progress of the API request that inserted the job
    listed,         \* tenants in the list of a dispatch_jobs run, not flagged any more
    live,           \* attempts whose handler a living worker is executing
    suspect,        \* attempts still in the list of a reconcile_expired run
    overdue         \* jobs still in the list of a reconcile_queued run

vars == <<status, attemptCount, due, attempt, reserved, locked, active, hasReady,
          outbox, deadLetter, broker, apiRequest, listed, live, suspect, overdue>>

\* An API request that has submitted its job refreshes the index, or has died.
Unrefreshed == {"created", "saw_ready", "saw_none"}
ApiProgress == {"idle", "died"} \cup Unrefreshed

TypeOK ==
    /\ status \in [Job -> JobStatus \cup {NoRow}]
    /\ attemptCount \in [Job -> 0 .. MaxAttempts]
    /\ due \subseteq Job
    /\ attempt \in [Attempts -> AttemptStatus \cup {NoRow}]
    /\ reserved \subseteq Job
    /\ locked \subseteq Job
    /\ active \in [Tenant -> Nat]
    /\ hasReady \in [Tenant -> BOOLEAN]
    /\ outbox \subseteq Job
    /\ deadLetter \in [Job -> DeadLetterStatus \cup {NoRow}]
    /\ broker \subseteq Job
    /\ apiRequest \in [Job -> ApiProgress]
    /\ listed \subseteq Tenant
    /\ live \subseteq Attempts
    /\ suspect \subseteq Attempts
    /\ overdue \subseteq Job

Init ==
    /\ status = [j \in Job |-> NoRow]
    /\ attemptCount = [j \in Job |-> 0]
    /\ due = {}
    /\ attempt = [a \in Attempts |-> NoRow]
    /\ reserved = {}
    /\ locked = {}
    /\ active = [t \in Tenant |-> 0]
    /\ hasReady = [t \in Tenant |-> FALSE]
    /\ outbox = {}
    /\ deadLetter = [j \in Job |-> NoRow]
    /\ broker = {}
    /\ apiRequest = [j \in Job |-> "idle"]
    /\ listed = {}
    /\ live = {}
    /\ suspect = {}
    /\ overdue = {}

-----------------------------------------------------------------------------
(* Queries and guards *)

\* The ready waiting jobs of a tenant: status=WAITING, available_at <= now.
Ready(t) == {j \in due : TenantOf[j] = t /\ status[j] = "WAITING"}

SlotsOf(t) == {j \in reserved : TenantOf[j] = t}

\* Mutant of HasCapacity: one slot too many.
HasCapacityOffByOne(t) == active[t] <= MaxConcurrent[t]
HasCapacity(t) == active[t] < MaxConcurrent[t]

SameResource(j, k) ==
    /\ KeyOf[j] # NoKey
    /\ KeyOf[j] = KeyOf[k]
    /\ TenantOf[j] = TenantOf[k]

\* Mutant of LockFree: acquire_overlap's IntegrityError is ignored.
LockIgnored(j) == j \in Job
\* acquire_overlap succeeds: uq_tenant_overlap_resource admits the row.
LockFree(j) == \A k \in locked : ~SameResource(j, k)

\* Mutant of Claimable: claim_job accepts a job another worker has claimed.
ClaimableTwice(j) == status[j] \in {"QUEUED", "EXECUTING"}
Claimable(j) == status[j] = "QUEUED"

\* Mutant of StillRunning: reconcile_attempt trusts its list.
ListedRunning(a) == a \in suspect
StillRunning(a) == attempt[a] = "RUNNING"

\* Mutant of StillQueued: recover_queued trusts its list.
ListedQueued(j) == j \in overdue
StillQueued(j) == status[j] = "QUEUED"

\* Mutant of CanRetry: one retry beyond the table of delays.
CanRetryOnceMore(j, ft) == ft \in Retryable /\ attemptCount[j] \in 1 .. MaxAttempts
\* failure_type in RETRYABLE and attempt_count in RETRY_DELAYS
CanRetry(j, ft) == ft \in Retryable /\ attemptCount[j] \in 1 .. MaxRetries

-----------------------------------------------------------------------------
(* Pieces of transactions *)

\* Mutant of CountAttempt: save() names every field but attempt_count.
CountUnsaved(j, n) == attemptCount' = attemptCount
CountAttempt(j, n) == attemptCount' = [attemptCount EXCEPT ![j] = n]

\* Mutant of ReleaseCapacity: the reservation row is left behind.
ReleaseKeepingReservation(j) ==
    /\ reserved' = reserved
    /\ locked' = locked \ {j}
    /\ active' = [active EXCEPT ![TenantOf[j]] = IF @ > 0 THEN @ - 1 ELSE @]
\* Mutant of ReleaseCapacity: the overlap locks are left to their expiry time.
ReleaseKeepingLock(j) ==
    /\ reserved' = reserved \ {j}
    /\ locked' = locked
    /\ active' = [active EXCEPT ![TenantOf[j]] = IF @ > 0 THEN @ - 1 ELSE @]
\* Mutant of ReleaseCapacity: the counter is not decremented.
ReleaseKeepingCount(j) ==
    /\ reserved' = reserved \ {j}
    /\ locked' = locked \ {j}
    /\ active' = active
\* The counter is decremented whether or not a reservation was deleted.
ReleaseCapacity(j) ==
    /\ reserved' = reserved \ {j}
    /\ locked' = locked \ {j}
    /\ active' = [active EXCEPT ![TenantOf[j]] = IF @ > 0 THEN @ - 1 ELSE @]

\* Mutant of Settle: the last failure writes no dead letter.
SettleWithoutDeadLetter(j, ft) ==
    /\ IF CanRetry(j, ft)
         THEN /\ status' = [status EXCEPT ![j] = "RETRY_WAIT"]
              /\ due' = due \ {j}
         ELSE /\ status' = [status EXCEPT ![j] = "FAILED_FINAL"]
              /\ UNCHANGED due
    /\ UNCHANGED deadLetter
    /\ ReleaseCapacity(j)
\* Mutant of Settle: every failure is written to the dead letters.
SettleAlwaysDeadLetter(j, ft) ==
    /\ IF CanRetry(j, ft)
         THEN /\ status' = [status EXCEPT ![j] = "RETRY_WAIT"]
              /\ due' = due \ {j}
         ELSE /\ status' = [status EXCEPT ![j] = "FAILED_FINAL"]
              /\ UNCHANGED due
    /\ deadLetter' = [deadLetter EXCEPT ![j] = IF @ = NoRow THEN "OPEN" ELSE @]
    /\ ReleaseCapacity(j)
\* The outcome of a failed attempt, whatever status the job has by now.
Settle(j, ft) ==
    /\ IF CanRetry(j, ft)
         THEN /\ status' = [status EXCEPT ![j] = "RETRY_WAIT"]
              /\ due' = due \ {j}
              /\ UNCHANGED deadLetter
         ELSE /\ status' = [status EXCEPT ![j] = "FAILED_FINAL"]
              /\ deadLetter' = [deadLetter EXCEPT ![j] = IF @ = NoRow THEN "OPEN" ELSE @]
              /\ UNCHANGED due
    /\ ReleaseCapacity(j)

\* refresh_scheduler_state for each tenant of ts, at the end of a transaction:
\* the query sees the transaction's own writes.
Refresh(ts) ==
    hasReady' = [t \in Tenant |-> IF t \in ts THEN Ready(t)' # {} ELSE hasReady[t]]

-----------------------------------------------------------------------------
(* The API *)

\* POST /jobs/: the transaction of submit_job that inserts a new row.  (A
\* request whose idempotency key exists changes nothing.)
SubmitJob(j) ==
    /\ status[j] = NoRow
    /\ status' = [status EXCEPT ![j] = "WAITING"]
    /\ due' = IF j \in Delayed THEN due ELSE due \cup {j}
    /\ apiRequest' = [apiRequest EXCEPT ![j] = "created"]
    /\ UNCHANGED <<attemptCount, attempt, reserved, locked, active, hasReady, outbox,
                   deadLetter, broker, live, suspect, overdue, listed>>

\* POST /jobs/, continued in autocommit mode: the query of
\* refresh_scheduler_state for a ready job ...
RefreshQuery(j) ==
    /\ apiRequest[j] = "created"
    /\ apiRequest' = [apiRequest EXCEPT ![j] =
                         IF Ready(TenantOf[j]) # {} THEN "saw_ready" ELSE "saw_none"]
    /\ UNCHANGED <<status, attemptCount, due, attempt, reserved, locked, active, hasReady,
                   outbox, deadLetter, broker, live, suspect, overdue, listed>>

\* ... and the save of what the query saw.  A run of dispatch_jobs may have
\* listed the tenant before its flag is cleared.
RefreshSave(j) ==
    /\ apiRequest[j] \in {"saw_ready", "saw_none"}
    /\ hasReady' = [hasReady EXCEPT ![TenantOf[j]] = (apiRequest[j] = "saw_ready")]
    /\ \/ listed' = listed
       \/ hasReady[TenantOf[j]] /\ ~hasReady'[TenantOf[j]] /\ listed' = listed \cup {TenantOf[j]}
    /\ apiRequest' = [apiRequest EXCEPT ![j] = "idle"]
    /\ UNCHANGED <<status, attemptCount, due, attempt, reserved, locked, active, outbox,
                   deadLetter, broker, live, suspect, overdue>>

\* The API process dies before it has refreshed the index.
ApiCrash(j) ==
    /\ "api_crash" \in Faults
    /\ apiRequest[j] \in Unrefreshed
    /\ apiRequest' = [apiRequest EXCEPT ![j] = "died"]
    /\ UNCHANGED <<status, attemptCount, due, attempt, reserved, locked, active, hasReady,
                   outbox, deadLetter, broker, live, suspect, overdue, listed>>

\* POST /jobs/<id>/cancel/ on a job that holds no slot.
CancelUndispatched(j) ==
    /\ status[j] \in {"WAITING", "RETRY_WAIT"}
    /\ status' = [status EXCEPT ![j] = "CANCELLED"]
    /\ UNCHANGED <<reserved, locked, active>>

CancelQueued(j) ==
    /\ status[j] = "QUEUED"
    /\ status' = [status EXCEPT ![j] = "CANCELLED"]
    /\ ReleaseCapacity(j)

CancelExecuting(j) ==
    /\ status[j] = "EXECUTING"
    /\ status' = [status EXCEPT ![j] = "CANCEL_REQUESTED"]
    /\ UNCHANGED <<reserved, locked, active>>

\* cancel_job: one branch per status; terminal and CANCEL_REQUESTED jobs stay.
CancelJob(j) ==
    /\ CancelUndispatched(j) \/ CancelQueued(j) \/ CancelExecuting(j)
    /\ UNCHANGED <<attemptCount, due, attempt, hasReady, outbox, deadLetter, broker,
                   apiRequest, live, suspect, overdue, listed>>

\* POST /dead-letters/<id>/replay/: a fresh job k with the attributes of j,
\* whatever the dead letter's own status.
ReplayDeadLetter(j, k) ==
    /\ deadLetter[j] # NoRow
    /\ status[k] = NoRow
    /\ TenantOf[k] = TenantOf[j] /\ KeyOf[k] = KeyOf[j]
    /\ status' = [status EXCEPT ![k] = "WAITING"]
    /\ due' = due \cup {k}
    /\ deadLetter' = [deadLetter EXCEPT ![j] = "REPLAYED"]
    /\ Refresh({TenantOf[k]})
    /\ UNCHANGED <<attemptCount, attempt, reserved, locked, active, outbox, broker,
                   apiRequest, live, suspect, overdue, listed>>

\* The clock passes the available_at of a job.
BecomeDue(j) ==
    /\ status[j] # NoRow
    /\ j \notin due
    /\ due' = due \cup {j}
    /\ UNCHANGED <<status, attemptCount, attempt, reserved, locked, active, hasReady,
                   outbox, deadLetter, broker, apiRequest, live, suspect, overdue, listed>>

-----------------------------------------------------------------------------
(* dispatch_jobs, every second *)

\* dispatch_next, for a tenant that the task's query has listed: flagged now, or
\* not any more.  The query for candidates skips the rows that other
\* transactions hold at that moment, so that any ready job may come first; a
\* dispatch that finds no capacity or no candidate changes nothing.
DispatchJob(t, j) ==
    /\ hasReady[t] \/ t \in listed
    /\ HasCapacity(t)
    /\ j \in Ready(t)
    /\ LockFree(j)
    /\ status' = [status EXCEPT ![j] = "QUEUED"]
    /\ reserved' = reserved \cup {j}
    /\ locked' = IF KeyOf[j] = NoKey THEN locked ELSE locked \cup {j}
    /\ active' = [active EXCEPT ![t] = @ + 1]
    /\ outbox' = outbox \cup {j}
    /\ listed' \in {listed, listed \ {t}}
    /\ UNCHANGED <<attemptCount, due, attempt, hasReady, deadLetter, broker, apiRequest,
                   live, suspect, overdue>>

\* The last run that has listed the tenant finds nothing to dispatch, or ends.
PassTenant(t) ==
    /\ t \in listed
    /\ listed' = listed \ {t}
    /\ UNCHANGED <<status, attemptCount, due, attempt, reserved, locked, active, hasReady,
                   outbox, deadLetter, broker, apiRequest, live, suspect, overdue>>

-----------------------------------------------------------------------------
(* publish_outbox, every second, and the broker *)

\* publish_event: the message is sent, then the transaction commits.
PublishEvent(j) ==
    /\ j \in outbox
    /\ broker' = broker \cup {j}
    /\ outbox' = outbox \ {j}
    /\ UNCHANGED <<status, attemptCount, due, attempt, reserved, locked, active, hasReady,
                   deadLetter, apiRequest, live, suspect, overdue, listed>>

\* publish_event: the message is sent, but the transaction does not commit.
PublishUncommitted(j) ==
    /\ j \in outbox
    /\ broker' = broker \cup {j}
    /\ UNCHANGED <<status, attemptCount, due, attempt, reserved, locked, active, hasReady,
                   outbox, deadLetter, apiRequest, live, suspect, overdue, listed>>

\* Redis loses its messages for j.
LoseMessage(j) ==
    /\ j \in broker
    /\ broker' = broker \ {j}
    /\ UNCHANGED <<status, attemptCount, due, attempt, reserved, locked, active, hasReady,
                   outbox, deadLetter, apiRequest, live, suspect, overdue, listed>>

-----------------------------------------------------------------------------
(* execute_job, on a Celery worker *)

\* claim_job: the attempt row is created and the handler starts.  Another
\* message for the job may be left in the broker.
ClaimJob(j) ==
    LET n == attemptCount[j] + 1 IN
    /\ j \in broker
    /\ Claimable(j)
    /\ broker' \in {broker, broker \ {j}}
    /\ CountAttempt(j, n)
    /\ status' = [status EXCEPT ![j] = "EXECUTING"]
    /\ attempt' = [attempt EXCEPT ![<<j, n>>] = "RUNNING"]
    /\ live' = live \cup {<<j, n>>}
    /\ UNCHANGED <<due, reserved, locked, active, hasReady, outbox, deadLetter,
                   apiRequest, suspect, overdue, listed>>

\* claim_job returns None: the message is acknowledged and nothing happens.
DropMessage(j) ==
    /\ j \in broker
    /\ ~Claimable(j)
    /\ broker' = broker \ {j}
    /\ UNCHANGED <<status, attemptCount, due, attempt, reserved, locked, active, hasReady,
                   outbox, deadLetter, apiRequest, live, suspect, overdue, listed>>

\* complete_job, after the handler returned: no status is looked at.
CompleteJob(a) ==
    /\ a \in live
    /\ attempt' = [attempt EXCEPT ![a] = "SUCCEEDED"]
    /\ status' = [status EXCEPT ![a[1]] = "SUCCEEDED"]
    /\ ReleaseCapacity(a[1])
    /\ \/ live' = live \ {a}
       \/ "commit_unknown" \in Faults /\ live' = live
    /\ UNCHANGED <<attemptCount, due, hasReady, outbox, deadLetter, broker, apiRequest,
                   suspect, overdue, listed>>

\* fail_job, after the handler (or complete_job itself) raised: no status is
\* looked at.
FailJob(a, ft) ==
    /\ a \in live
    /\ attempt' = [attempt EXCEPT ![a] = "FAILED"]
    /\ Settle(a[1], ft)
    /\ live' = live \ {a}
    /\ UNCHANGED <<attemptCount, hasReady, outbox, broker, apiRequest, suspect,
                   overdue, listed>>

\* The worker dies (or hits the hard time limit); acks_late lets the broker
\* deliver the message again.
WorkerCrash(a) ==
    /\ a \in live
    /\ live' = live \ {a}
    /\ broker' \in {broker, broker \cup {a[1]}}
    /\ UNCHANGED <<status, attemptCount, due, attempt, reserved, locked, active, hasReady,
                   outbox, deadLetter, apiRequest, suspect, overdue, listed>>

-----------------------------------------------------------------------------
(* reconcile_zombies, every ten seconds *)

\* The query for RUNNING attempts with an expired lease.
FindExpired(a) ==
    /\ attempt[a] = "RUNNING"
    /\ a \in live => "lease_lapse" \in Faults
    /\ suspect' = suspect \cup {a}
    /\ UNCHANGED <<status, attemptCount, due, attempt, reserved, locked, active, hasReady,
                   outbox, deadLetter, broker, apiRequest, live, overdue, listed>>

\* reconcile_attempt and, in the same transaction, finalize_failure.
AbandonAttempt(a) ==
    /\ StillRunning(a)
    /\ attempt' = [attempt EXCEPT ![a] = "ABANDONED"]
    /\ Settle(a[1], "INFRASTRUCTURE")

LeaveAttempt(a) ==
    /\ ~StillRunning(a)
    /\ UNCHANGED <<attempt, status, due, deadLetter, reserved, locked, active>>

ReconcileAttempt(a) ==
    /\ a \in suspect
    /\ AbandonAttempt(a) \/ LeaveAttempt(a)
    /\ \/ suspect' = suspect \ {a}
       \/ "reaper_overlap" \in Faults /\ suspect' = suspect
    /\ UNCHANGED <<attemptCount, hasReady, outbox, broker, apiRequest, live,
                   overdue, listed>>

\* The query for reservations of QUEUED jobs that have expired.
FindOverdue(j) ==
    /\ j \in reserved
    /\ status[j] = "QUEUED"
    /\ j \in outbox \cup broker => "slow_pickup" \in Faults
    /\ overdue' = overdue \cup {j}
    /\ UNCHANGED <<status, attemptCount, due, attempt, reserved, locked, active, hasReady,
                   outbox, deadLetter, broker, apiRequest, live, suspect, listed>>

\* Mutant of RequeueJob: the scheduler's index is not refreshed.
RequeueUnlisted(j) ==
    /\ StillQueued(j)
    /\ status' = [status EXCEPT ![j] = "WAITING"]
    /\ ReleaseCapacity(j)
    /\ UNCHANGED <<due, hasReady>>
RequeueJob(j) ==
    /\ StillQueued(j)
    /\ status' = [status EXCEPT ![j] = "WAITING"]
    /\ ReleaseCapacity(j)
    /\ UNCHANGED due
    /\ Refresh({TenantOf[j]})

LeaveQueued(j) ==
    /\ ~StillQueued(j)
    /\ UNCHANGED <<status, reserved, locked, active, due, hasReady>>

\* recover_queued
RecoverQueued(j) ==
    /\ j \in overdue
    /\ RequeueJob(j) \/ LeaveQueued(j)
    /\ \/ overdue' = overdue \ {j}
       \/ "reaper_overlap" \in Faults /\ overdue' = overdue
    /\ UNCHANGED <<attemptCount, attempt, outbox, deadLetter, broker, apiRequest,
                   live, suspect, listed>>

-----------------------------------------------------------------------------
(* process_retries, every five seconds *)

\* Mutant of PromoteRetries: the scheduler's index is not refreshed.
PromoteUnlisted(batch) ==
    /\ batch # {}
    /\ \A j \in batch : status[j] = "RETRY_WAIT" /\ j \in due
    /\ status' = [j \in Job |-> IF j \in batch THEN "WAITING" ELSE status[j]]
    /\ UNCHANGED <<attemptCount, due, attempt, reserved, locked, active, hasReady, outbox,
                   deadLetter, broker, apiRequest, live, suspect, overdue, listed>>
\* promote_ready_retries: some of the jobs whose backoff has elapsed (rows
\* that are locked, or beyond the batch limit, are left for a later run).
PromoteRetries(batch) ==
    /\ batch # {}
    /\ \A j \in batch : status[j] = "RETRY_WAIT" /\ j \in due
    /\ status' = [j \in Job |-> IF j \in batch THEN "WAITING" ELSE status[j]]
    /\ UNCHANGED <<attemptCount, due, attempt, reserved, locked, active, outbox,
                   deadLetter, broker, apiRequest, live, suspect, overdue, listed>>
    /\ Refresh({TenantOf[j] : j \in batch})

-----------------------------------------------------------------------------

ApiStep(j) ==
    \/ SubmitJob(j)
    \/ RefreshQuery(j)
    \/ RefreshSave(j)
    \/ ApiCrash(j)
    \/ CancelJob(j)
    \/ \E k \in Job : ReplayDeadLetter(j, k)

JobStep(j) ==
    \/ ApiStep(j)
    \/ BecomeDue(j)
    \/ PublishEvent(j)
    \/ PublishUncommitted(j)
    \/ LoseMessage(j)
    \/ ClaimJob(j)
    \/ DropMessage(j)
    \/ FindOverdue(j)
    \/ RecoverQueued(j)

DispatchTenant(t) == \E j \in Job : DispatchJob(t, j)

TenantStep(t) ==
    \/ DispatchTenant(t)
    \/ PassTenant(t)

HandlerEnds(a) ==
    \/ CompleteJob(a)
    \/ \E ft \in HandlerFailure : FailJob(a, ft)
    \/ WorkerCrash(a)

AttemptStep(a) ==
    \/ HandlerEnds(a)
    \/ FindExpired(a)
    \/ ReconcileAttempt(a)

Next ==
    \/ \E j \in Job : JobStep(j)
    \/ \E t \in Tenant : TenantStep(t)
    \/ \E a \in Attempts : AttemptStep(a)
    \/ \E batch \in SUBSET Job : PromoteRetries(batch)

Spec == Init /\ [][Next]_vars

\* The periodic tasks run for ever, an API process that lives answers its
\* request, handlers end (by themselves or at the hard time limit), the clock
\* advances.  Strong fairness where a step may be disabled again and again:
\* a job's row is not locked, and its message not lost, at every dispatch.
Fairness ==
    /\ \A t \in Tenant : SF_vars(DispatchTenant(t))
    /\ \A j \in Job :
        /\ WF_vars(RefreshQuery(j))
        /\ WF_vars(RefreshSave(j))
        /\ WF_vars(BecomeDue(j))
        /\ WF_vars(PublishEvent(j))
        /\ SF_vars(ClaimJob(j))
        /\ WF_vars(FindOverdue(j))
        /\ WF_vars(RecoverQueued(j))
    /\ \A a \in Attempts :
        /\ WF_vars(HandlerEnds(a))
        /\ WF_vars(FindExpired(a))
        /\ WF_vars(ReconcileAttempt(a))
    /\ WF_vars(\E batch \in SUBSET Job : PromoteRetries(batch))

FairSpec == Spec /\ Fairness

-----------------------------------------------------------------------------
(* What holds whatever goes wrong *)

\* A job holds a reservation exactly while its status says so: no handler,
\* reaper, cancellation or recovery, in whatever order, leaves a reservation
\* behind a job that is done or takes one from a job that is queued.
SlotsMatchStatus == reserved = {j \in Job : status[j] \in Slotted}

\* A job that names an overlap key holds the key's lock row exactly while it
\* holds its reservation, and no two jobs hold one key of one tenant.
LocksMatchSlots ==
    /\ locked = {j \in reserved : KeyOf[j] # NoKey}
    /\ \A j, k \in locked : j # k => ~SameResource(j, k)

\* The cached counter never counts a slot that no job holds: capacity may be
\* overcommitted when leases lapse, it never leaks.
NoSlotLeak == \A t \in Tenant : active[t] <= Cardinality(SlotsOf(t))

\* The cached counter stays within the tenant's limit.
LimitRespected == \A t \in Tenant : active[t] <= MaxConcurrent[t]

\* A job that can run again has a retry left, so that no job is executed more
\* than MaxRetries + 1 times, even when stale attempts report late.
RetryBudget ==
    \A j \in Job : status[j] \in {"WAITING", "QUEUED", "RETRY_WAIT"}
                      => attemptCount[j] <= MaxRetries

\* The attempt rows of a job are numbered 1 .. attempt_count without gaps:
\* redelivered messages and late reports neither reuse nor skip a number.
AttemptsNumbered ==
    \A a \in Attempts : attempt[a] # NoRow <=> a[2] <= attemptCount[a[1]]

\* A job that failed for good is in the dead letters, where it can be replayed.
FailedIsDeadLettered ==
    \A j \in Job : status[j] = "FAILED_FINAL" => deadLetter[j] # NoRow

\* Jobs that are not submitted have no history; a handler that lives and a
\* finding of the reaper belong to an attempt that was started.
NothingUnstarted ==
    /\ \A j \in Job : status[j] = NoRow => attemptCount[j] = 0 /\ deadLetter[j] = NoRow
    /\ \A a \in live \cup suspect : attempt[a] # NoRow

\* The inductive invariant of the specification, faults or not.
SafeInv ==
    /\ TypeOK
    /\ SlotsMatchStatus
    /\ LocksMatchSlots
    /\ RetryBudget
    /\ AttemptsNumbered
    /\ FailedIsDeadLettered
    /\ NothingUnstarted
    /\ NoSlotLeak
    /\ LimitRespected

-----------------------------------------------------------------------------
(* What holds as long as only dead workers lose their lease *)

\* The counter dispatch_next compares with the limit is the number of slots.
CounterExact == \A t \in Tenant : active[t] = Cardinality(SlotsOf(t))

LiveJobs(t) == {j \in Job : TenantOf[j] = t /\ \E a \in live : a[1] = j}

\* No tenant has more jobs executing than it may have.
ConcurrencyLimit == \A t \in Tenant : Cardinality(LiveJobs(t)) <= MaxConcurrent[t]

\* At most one worker executes a job, and at most one of the jobs that name
\* the same overlap key, however often messages are delivered.
ExclusiveExecution ==
    \A a, b \in live : a # b => a[1] # b[1] /\ ~SameResource(a[1], b[1])

\* The one RUNNING attempt of a job is the last one and belongs to a job that
\* executes: the reaper cannot find a leftover of an earlier execution.
RunningIsCurrent ==
    \A a \in Attempts :
        attempt[a] = "RUNNING" <=> /\ status[a[1]] \in {"EXECUTING", "CANCEL_REQUESTED"}
                                   /\ a[2] = attemptCount[a[1]]

\* Only jobs that failed for good are offered for replay.
DeadLetterMeansFailed ==
    \A j \in Job : deadLetter[j] # NoRow => status[j] = "FAILED_FINAL"

\* The reaper never holds a living worker's attempt, and a living worker's
\* attempt is RUNNING: nobody settles it behind the worker's back.
LiveIsUndisputed ==
    /\ live \cap suspect = {}
    /\ \A a \in live : attempt[a] = "RUNNING"

\* The inductive invariant of the specification without late reports.
TimelyInv ==
    /\ SafeInv
    /\ LiveIsUndisputed
    /\ RunningIsCurrent
    /\ DeadLetterMeansFailed
    /\ CounterExact

\* Finished jobs and finished attempts are never touched again.
SettledStaysSettled ==
    [][/\ \A j \in Job : status[j] \in Terminal => status'[j] = status[j]
       /\ \A a \in Attempts : attempt[a] \notin {NoRow, "RUNNING"}
                                 => attempt'[a] = attempt[a]]_vars

\* The status changes the code makes beside ALLOWED_TRANSITIONS.
UndeclaredTransitions ==
    {<<"QUEUED", "CANCELLED">>, <<"CANCEL_REQUESTED", "RETRY_WAIT">>,
     <<"CANCEL_REQUESTED", "FAILED_FINAL">>}

\* Every status change is in the table of transitions.py, three excepted.
LegalTransitions ==
    [][\A j \in Job : status[j] # NoRow /\ status'[j] # status[j] =>
          \/ IsValidTransition(status[j], status'[j])
          \/ <<status[j], status'[j]>> \in UndeclaredTransitions]_vars

\* Ready jobs the scheduler's query does not see, with no request on its way
\* to make it see them.
Stranded ==
    {j \in Job :
        /\ j \in Ready(TenantOf[j])
        /\ ~hasReady[TenantOf[j]]
        /\ \A k \in Job : TenantOf[k] = TenantOf[j] => apiRequest[k] \notin Unrefreshed}

\* A ready job is stranded in three ways only: its time comes and nobody looks,
\* a request dies before it has refreshed the index, or one saves what it saw
\* before the job was ready.  No dispatch, report, recovery, promotion, replay
\* or cancellation, in whatever order, strands one.
StrandsAreKnown ==
    [][\A j \in Job : j \notin Stranded /\ j \in Stranded' =>
          \/ status[j] = "WAITING" /\ j \notin due
          \/ \E k \in Job : /\ TenantOf[k] = TenantOf[j]
                            /\ \/ apiRequest[k] \in Unrefreshed /\ apiRequest'[k] = "died"
                               \/ apiRequest[k] = "saw_none" /\ apiRequest'[k] = "idle"]_vars

\* Every submitted job that is not left stranded for good comes to an end:
\* through worker deaths, lost and repeated messages, late publications and
\* failures, and beside other jobs that are delayed or stranded.
EverySettled ==
    \A j \in Job : []<>(j \notin Stranded) => (status[j] # NoRow ~> status[j] \in Terminal)

\* A job that goes back to WAITING is listed again by the same transaction,
\* whatever races on the index have made of has_ready_work since it left.
ReturnedIsListed ==
    [][\A j \in Job : status[j] \notin {NoRow, "WAITING"} /\ status'[j] = "WAITING"
                         => hasReady'[TenantOf[j]]]_vars

\* The lifecycle keeps the promises of JobContract: slots, exclusion, bounded
\* executions, no return from the end.
Phase ==
    [j \in Job |->
        CASE status[j] = NoRow                       -> "absent"
          [] status[j] \in {"WAITING", "RETRY_WAIT"} -> "pending"
          [] status[j] \in Slotted                   -> "running"
          [] OTHER                                   -> "done"]

Contract == INSTANCE JobContract WITH
    MaxTries <- MaxAttempts,
    Exclusive <- {p \in Job \X Job : SameResource(p[1], p[2])},
    phase <- Phase,
    tries <- attemptCount

ImplementsContract == Contract!Spec

-----------------------------------------------------------------------------
(* What documents and comments of the repository say of the program *)

\* transitions.py: after CANCEL_REQUESTED the worker stopped (CANCELLED) or
\* finished before the signal was processed (SUCCEEDED).
CancelIsHonoured ==
    [][\A j \in Job : status[j] = "CANCEL_REQUESTED" =>
          status'[j] \in {"CANCEL_REQUESTED", "CANCELLED", "SUCCEEDED"}]_vars

\* scheduler_state.py: has_ready_work makes the dispatcher see ready jobs; so
\* a job whose available_at has come does not wait for ever.
ReadyIsDispatched ==
    \A j \in Job : j \in Ready(TenantOf[j]) ~> j \notin Ready(TenantOf[j])
=============================================================================
