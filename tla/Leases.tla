------------------------------- MODULE Leases -------------------------------
(***************************************************************************)
(* Leases and reservations over a clock: the executions of one job, one    *)
(* after the other, the heartbeats of their workers, and the reaper.       *)
(*                                                                         *)
(* JobLifecycle says that a lease is found expired or not; here it has a   *)
(* time.  One action is one statement or one transaction, and heartbeat,   *)
(* which opens no transaction, is four: it reads the clock, looks at the   *)
(* attempt, writes the attempt's lease, writes the job's reservation.  A   *)
(* run of reconcile_zombies reads the clock, scans, reconciles what it     *)
(* listed, scans the queued jobs, recovers what it listed.                 *)
(*                                                                         *)
(* Time passes in ticks, and only if no one who has to act by now still    *)
(* has to: the reaper starts every ReapEvery ticks and takes at most       *)
(* ReapTime; the worker of a punctual attempt begins a heartbeat at least  *)
(* every BeatEvery ticks and ends it within BeatTime; a broker delivers    *)
(* or loses a message before the reservation expires.                      *)
(***************************************************************************)
EXTENDS Integers, FiniteSets

CONSTANTS
    Lease,          \* LEASE_SECONDS, and the five minutes of claim and dispatch
    BeatEvery,      \* how often a punctual handler calls context.heartbeat()
    BeatTime,       \* how long such a call may take
    ReapEvery,      \* the schedule of reconcile_zombies
    ReapTime,       \* how long a run of it may take
    RetryDelay,     \* the least backoff before a job is dispatched again
    MaxAttempts,
    Punctual,       \* attempts whose worker, while it lives, beats in time
    Horizon         \* bound: the model's clock stops here

ASSUME TimesAssumption ==
    /\ {Lease, BeatEvery, BeatTime, ReapEvery, ReapTime, RetryDelay, MaxAttempts,
        Horizon} \subseteq Nat
    /\ BeatTime <= BeatEvery /\ BeatEvery + BeatTime <= Lease
    /\ ReapTime < ReapEvery
    /\ ReapTime < RetryDelay
    /\ MaxAttempts > 0
    /\ Punctual \subseteq 1 .. MaxAttempts

VARIABLES
    now,            \* the clock of hosts and database
    job,            \* jobs.status; PENDING: WAITING or RETRY_WAIT
    readyAt,        \* jobs.available_at
    queuedAt,       \* jobs.queued_at
    count,          \* jobs.attempt_count
    running,        \* attempts with status RUNNING
    lease,          \* job_attempts.lease_expires_at
    reservation,    \* job_execution_reservations.expires_at, or None
    live,           \* attempts whose worker lives and executes the handler
    diedAt,         \* history: when the worker of an attempt died, or None
    beat,           \* how far the heartbeat call of a worker is
    beatAt,         \* the now of its last call, or of the claim
    reaper,         \* how far the reaper is
    reapAt,         \* the now of its last run
    listed,         \* attempts its first scan has listed
    overdue         \* whether its second scan has listed the job

jobVars == <<job, readyAt, queuedAt, count, reservation>>
workerVars == <<live, diedAt, beat, beatAt>>
reaperVars == <<reaper, reapAt, listed, overdue>>
vars == <<now, jobVars, running, lease, workerVars, reaperVars>>

Attempt == 1 .. MaxAttempts
None == -1
Time == 0 .. Horizon
Expiry == 0 .. Horizon + Lease + RetryDelay

TypeOK ==
    /\ now \in Time /\ queuedAt \in Time /\ reapAt \in Time
    /\ readyAt \in Expiry /\ reservation \in Expiry \cup {None}
    /\ job \in {"PENDING", "QUEUED", "EXECUTING", "ENDED"}
    /\ count \in 0 .. MaxAttempts
    /\ running \subseteq Attempt /\ live \subseteq Attempt /\ listed \subseteq Attempt
    /\ lease \in [Attempt -> Expiry]
    /\ diedAt \in [Attempt -> Time \cup {None}]
    /\ beat \in [Attempt -> {"none", "begun", "checked", "extended"}]
    /\ beatAt \in [Attempt -> Time]
    /\ reaper \in {"idle", "begun", "attempts", "queued"}
    /\ overdue \in BOOLEAN

Init ==
    /\ now = 0 /\ readyAt = 0 /\ queuedAt = 0 /\ reapAt = 0
    /\ job = "PENDING"
    /\ count = 0
    /\ running = {} /\ live = {} /\ listed = {}
    /\ lease = [n \in Attempt |-> 0]
    /\ reservation = None
    /\ diedAt = [n \in Attempt |-> None]
    /\ beat = [n \in Attempt |-> "none"]
    /\ beatAt = [n \in Attempt |-> 0]
    /\ reaper = "idle"
    /\ overdue = FALSE

-----------------------------------------------------------------------------
(* Dispatch and execution *)

Dispatch ==
    /\ job = "PENDING"
    /\ readyAt <= now
    /\ job' = "QUEUED"
    /\ queuedAt' = now
    /\ reservation' = now + Lease
    /\ UNCHANGED <<now, readyAt, count, running, lease, workerVars, reaperVars>>

\* claim_job; the reservation keeps the expiry it got at dispatch.
Claim ==
    LET n == count + 1 IN
    /\ job = "QUEUED"
    /\ job' = "EXECUTING"
    /\ count' = n
    /\ running' = running \cup {n}
    /\ lease' = [lease EXCEPT ![n] = now + Lease]
    /\ live' = live \cup {n}
    /\ beatAt' = [beatAt EXCEPT ![n] = now]
    /\ UNCHANGED <<now, readyAt, queuedAt, reservation, diedAt, beat, reaperVars>>

\* Mutant of Retry: one retry beyond the table of delays.
RetryOnceMore ==
    /\ IF count <= MaxAttempts
         THEN job' = "PENDING" /\ readyAt' = now + RetryDelay
         ELSE job' = "ENDED" /\ UNCHANGED readyAt
    /\ reservation' = None
    /\ UNCHANGED <<queuedAt, count>>
\* Mutant of Retry: the job may be dispatched again at once.
RetryAtOnce ==
    /\ IF count < MaxAttempts
         THEN job' = "PENDING" /\ readyAt' = now
         ELSE job' = "ENDED" /\ UNCHANGED readyAt
    /\ reservation' = None
    /\ UNCHANGED <<queuedAt, count>>
\* The outcome of a failed attempt: a retry after a delay, or the end.
Retry ==
    /\ IF count < MaxAttempts
         THEN job' = "PENDING" /\ readyAt' = now + RetryDelay
         ELSE job' = "ENDED" /\ UNCHANGED readyAt
    /\ reservation' = None
    /\ UNCHANGED <<queuedAt, count>>

Succeed ==
    /\ job' = "ENDED"
    /\ reservation' = None
    /\ UNCHANGED <<readyAt, queuedAt, count>>

\* complete_job or fail_job, whatever became of the attempt meanwhile.
Report(n) ==
    /\ n \in live
    /\ beat[n] = "none"
    /\ live' = live \ {n}
    /\ running' = running \ {n}
    /\ Succeed \/ Retry
    /\ UNCHANGED <<now, lease, diedAt, beat, beatAt, reaperVars>>

Die(n) ==
    /\ n \in live
    /\ live' = live \ {n}
    /\ diedAt' = [diedAt EXCEPT ![n] = now]
    /\ beat' = [beat EXCEPT ![n] = "none"]
    /\ UNCHANGED <<now, jobVars, running, lease, beatAt, reaperVars>>

-----------------------------------------------------------------------------
(* heartbeat *)

\* now = timezone.now()
BeatBegin(n) ==
    /\ n \in live
    /\ beat[n] = "none"
    /\ beat' = [beat EXCEPT ![n] = "begun"]
    /\ beatAt' = [beatAt EXCEPT ![n] = now]
    /\ UNCHANGED <<now, jobVars, running, lease, live, diedAt, reaperVars>>

\* Mutant of BeatCheck: the status of the attempt is not looked at.
BeatUnchecked(n) ==
    /\ beat[n] = "begun"
    /\ beat' = [beat EXCEPT ![n] = "checked"]
    /\ UNCHANGED <<now, jobVars, running, lease, live, diedAt, beatAt, reaperVars>>
\* The query for the attempt in status RUNNING, and the early return.
BeatCheck(n) ==
    /\ beat[n] = "begun"
    /\ beat' = [beat EXCEPT ![n] = IF n \in running THEN "checked" ELSE "none"]
    /\ UNCHANGED <<now, jobVars, running, lease, live, diedAt, beatAt, reaperVars>>

\* Mutant of BeatLease: only the reservation is extended.
BeatWithoutLease(n) ==
    /\ beat[n] = "checked"
    /\ beat' = [beat EXCEPT ![n] = "extended"]
    /\ UNCHANGED <<now, jobVars, running, lease, live, diedAt, beatAt, reaperVars>>
BeatLease(n) ==
    /\ beat[n] = "checked"
    /\ lease' = [lease EXCEPT ![n] = beatAt[n] + Lease]
    /\ beat' = [beat EXCEPT ![n] = "extended"]
    /\ UNCHANGED <<now, jobVars, running, live, diedAt, beatAt, reaperVars>>

\* Mutant of BeatReservation: the reservation is created if it is gone.
BeatUpsert(n) ==
    /\ beat[n] = "extended"
    /\ reservation' = beatAt[n] + Lease
    /\ beat' = [beat EXCEPT ![n] = "none"]
    /\ UNCHANGED <<now, job, readyAt, queuedAt, count, running, lease, live, diedAt,
                   beatAt, reaperVars>>
\* The reservation of the job, which may be that of a later dispatch by now.
BeatReservation(n) ==
    /\ beat[n] = "extended"
    /\ reservation' = IF reservation = None THEN None ELSE beatAt[n] + Lease
    /\ beat' = [beat EXCEPT ![n] = "none"]
    /\ UNCHANGED <<now, job, readyAt, queuedAt, count, running, lease, live, diedAt,
                   beatAt, reaperVars>>

-----------------------------------------------------------------------------
(* reconcile_zombies *)

ReapBegin ==
    /\ reaper = "idle"
    /\ reapAt + ReapEvery <= now
    /\ reaper' = "begun"
    /\ reapAt' = now
    /\ UNCHANGED <<now, jobVars, running, lease, workerVars, listed, overdue>>

\* Mutant of ListExpired: an attempt is listed while its job's reservation is
\* expired, too.
ListBothExpired == {n \in running : lease[n] < reapAt /\ reservation < reapAt}
\* status = RUNNING and lease_expires_at < now
ListExpired == {n \in running : lease[n] < reapAt}

ScanAttempts ==
    /\ reaper = "begun"
    /\ listed' = ListExpired
    /\ reaper' = "attempts"
    /\ UNCHANGED <<now, jobVars, running, lease, workerVars, reapAt, overdue>>

\* reconcile_attempt: it looks at the status again, not at the lease.
Reconcile(n) ==
    /\ reaper = "attempts"
    /\ n \in listed
    /\ listed' = listed \ {n}
    /\ \/ n \in running /\ Retry
       \/ n \notin running /\ UNCHANGED jobVars
    /\ running' = running \ {n}
    /\ UNCHANGED <<now, lease, workerVars, reaper, reapAt, overdue>>

\* expires_at < now and job.status = QUEUED
JobOverdue == job = "QUEUED" /\ reservation # None /\ reservation < reapAt

ScanQueued ==
    /\ reaper = "attempts"
    /\ listed = {}
    /\ overdue' = JobOverdue
    /\ reaper' = "queued"
    /\ UNCHANGED <<now, jobVars, running, lease, workerVars, reapAt, listed>>

\* recover_queued: it looks at the status again, not at the reservation.
Recover ==
    /\ reaper = "queued"
    /\ overdue
    /\ overdue' = FALSE
    /\ IF job = "QUEUED"
         THEN job' = "PENDING" /\ reservation' = None
         ELSE UNCHANGED <<job, reservation>>
    /\ UNCHANGED <<now, readyAt, queuedAt, count, running, lease, workerVars, reaper,
                   reapAt, listed>>

ReapEnd ==
    /\ reaper = "queued"
    /\ ~overdue
    /\ reaper' = "idle"
    /\ UNCHANGED <<now, jobVars, running, lease, workerVars, reapAt, listed, overdue>>

-----------------------------------------------------------------------------
(* Time *)

ReaperInTime ==
    IF reaper = "idle" THEN now < reapAt + ReapEvery ELSE now < reapAt + ReapTime

BeatsInTime(n) ==
    IF beat[n] = "none" THEN now < beatAt[n] + BeatEvery ELSE now < beatAt[n] + BeatTime

Tick ==
    /\ now < Horizon
    /\ ReaperInTime
    /\ \A n \in live \cap Punctual : BeatsInTime(n)
    /\ now' = now + 1
    /\ UNCHANGED <<jobVars, running, lease, workerVars, reaperVars>>

WorkerStep(n) ==
    \/ Report(n)
    \/ Die(n)
    \/ BeatBegin(n)
    \/ BeatCheck(n)
    \/ BeatLease(n)
    \/ BeatReservation(n)

ReaperStep ==
    \/ ReapBegin
    \/ ScanAttempts
    \/ \E n \in Attempt : Reconcile(n)
    \/ ScanQueued
    \/ Recover
    \/ ReapEnd

Next ==
    \/ Tick
    \/ Dispatch
    \/ Claim
    \/ \E n \in Attempt : WorkerStep(n)
    \/ ReaperStep

Spec == Init /\ [][Next]_vars

-----------------------------------------------------------------------------

\* Heartbeats that cross a release of the slot, at any of their statements,
\* neither bring the reservation back nor leave a slotted job without one.
ReservationMatchesJob == reservation # None <=> job \in {"QUEUED", "EXECUTING"}

\* A worker that lives and heartbeats in time never loses its attempt to the
\* reaper, whatever late workers of earlier attempts do to the same job.
PunctualKeepsAttempt == live \cap Punctual \subseteq running

\* The attempt of a dead worker is found and settled within a known time.
DeadFoundInTime ==
    \A n \in running : diedAt[n] # None => now <= diedAt[n] + Lease + ReapEvery + ReapTime

\* A queued job whose message is lost is recovered within a period and a run
\* of the reaper, counted from the end of the dispatch's own five minutes or,
\* beside an earlier attempt that is still RUNNING, of that attempt's lease.
\* Such an attempt's heartbeats extend the reservation of the new dispatch as
\* long as they come; those of settled attempts never do.
QueuedRecoveredInTime ==
    LET ends == {queuedAt + Lease} \cup {lease[n] : n \in running} IN
    job = "QUEUED" =>
        /\ \E end \in ends : reservation <= end
        /\ \E end \in ends : now <= end + ReapEvery + ReapTime

\* A queued job that the reaper has listed is not dispatched anew before the
\* reaper gets to it: recover_queued, which looks at the job's status alone,
\* takes back the dispatch that was listed or none.
ListedOnce == overdue /\ job = "PENDING" => now < readyAt
=============================================================================
