# Verification of the multi-tenant job orchestrator

TLA+ models of the Django/Celery job platform in `jobs/` and `tenants/`, model-checked with TLC on
small instances and, for the properties that matter most, proved with TLAPS for every instance.
Paths below are relative to the repository; `services/` stands for `jobs/services/`.

## The system

A tenant's client posts jobs; the platform runs each of them on a Celery worker, at most
`max_concurrent_jobs` of a tenant at a time, highest priority first, retries temporary failures and
keeps final failures for replay. All state is in PostgreSQL; Redis carries `execute_job` messages.
There is no central scheduler process: API processes, four periodic Celery tasks and any number of
workers act on the same rows in short transactions.

| component | state | operations | what is hard, and what makes it correct |
|---|---|---|---|
| submission, `services/submission.py`, `jobs/views.py` | `jobs` row | insert under an idempotency key, then refresh the index | two steps, a crash or another request between them; the job must become visible to the dispatcher, and be inserted once |
| scheduler index, `services/scheduler_state.py` | `active_reservations`, `has_ready_work`, ... per tenant | refresh after submission, promotion, recovery, replay | a cache of two other tables, written by everyone; it must never hide a ready job for ever, nor miscount the slots |
| dispatcher, `services/dispatcher.py` | reservation, overlap lock, outbox event | `dispatch_next` for each listed tenant, every second | limit and exclusion under concurrent releases |
| overlap locks, `services/overlap.py` | one row per held key | acquire at dispatch, release with the slot | must come and go exactly with the reservation |
| outbox, `services/outbox.py` | PENDING events | send, then commit | at-least-once: repeated, early or lost messages |
| execution, `services/execution.py` | attempt row, job status, handler | claim, complete, fail | redelivery, dead workers, late reports, unknown commits |
| failure policy, `services/failure.py` | status, `available_at`, dead letter | decide retry or final failure | the same policy twice; the budget must hold even for stale reports |
| reaper, `services/reconciliation.py` | - | find expired attempts and reservations, settle each in its own transaction | acts on a list that is stale by then |
| retries, `services/retry.py` | - | promote a batch | must list the tenants again |
| cancellation, `services/cancellation.py` | status | one branch per status | races with dispatch, claim, completion |
| dead letters, `services/dead_letter.py` | dead letter row | replay as a clone | exactly the failed jobs are there |
| leases, `services/heartbeat.py` | expiry of attempt and reservation | extend | reads the clock, checks and updates in separate statements; must not lose a living worker's attempt, nor hide a dead one |
| row locks, all services | PostgreSQL's lock table | each transaction in its own order | cycles of waits; the detector's victim is rolled back, and a rolled-back report turns success into failure |
| states, `jobs/domain`, `jobs/models` | - | enumerations, graph of transitions, `validate_transition` | no service calls the validation |
| tenants, handlers, configuration, serializers, admin | limit, outcomes, schedule | CRUD, simulated work | parameters of the model, or no behaviour |

The full list with what is and is not modelled is `components` in `PROJECT.json`; the points where
the code could go wrong, each at its line, are `hazards` there.

## The modules

| module | content |
|---|---|
| `JobStates` | enumerations, `ALLOWED_TRANSITIONS`, the retryable failures |
| `JobLifecycle` | the whole life of a job over all tables: its actions (below) and its properties |
| `JobContract` | the abstract specification: a job is absent, pending, running or done; running needs a slot and its resource; executions are bounded |
| `JobContractProofs` | what follows from the contract alone |
| `JobLifecycleProofs`, `IndexProofs` | theorems about `JobLifecycle`, for every value of its constants |
| `Submission` | `POST /jobs/` by concurrent requests with one idempotency key, statement by statement |
| `IdempotentStore` | the abstract specification of that: one job per key, made at one instant |
| `SubmissionProofs` | theorems about `Submission`, the refinement of `IdempotentStore` among them |
| `Leases` | one job's executions, heartbeats and the reaper over an integer clock |
| `LeasesProofs` | theorems about `Leases`, for every length of lease, heartbeat, backoff and schedule |
| `LockOrder` | the row locks of the transactions, in order, and the waits between them |
| `LockOrderProofs` | theorems about `LockOrder`: which deadlocks there can be, and what it takes for one |
| `Dispatch` | `dispatch_jobs` over tenants and `dispatch_next`'s choice among a tenant's jobs |
| `DispatchProofs` | theorems about `Dispatch`: order, limits and keys |
| `MC...` | the small instances of these for TLC |

`JobLifecycle` is the composition: all tables, with each transaction as one step. The others open up
what is one step there, and each rests on it for the rest: `Submission` the insert, `Leases` the two
bits that stand for time, `LockOrder` the atomicity of the transactions, `Dispatch` the choice of the
next job. A definition called a mutant stands before the definition it distorts; it is not part of the
specification and serves to show that the properties notice the bug it describes.

### How `JobLifecycle` reads the code

One action is one committed transaction, one autocommit statement, one broker operation or one end
of a worker. PostgreSQL's row locks make each service transaction atomic: every one locks the job,
attempt or scheduler row it decides on before it reads it. What is *not* atomic in the code is not
atomic here: the refresh after a submission (views.py runs in autocommit mode), its query and its
save, the reaper's scans and its transactions, sending a message and committing, and the time between
the claim and the report of a handler. What a process remembers across such a gap is a variable.

| variable | code |
|---|---|
| `status`, `attemptCount`, `due` | `jobs.status`, `attempt_count`, whether `available_at <= now()` |
| `attempt` | `job_attempts.status` by (job, attempt number) |
| `reserved`, `locked` | rows of `job_execution_reservations` and `job_overlap_locks` |
| `active`, `hasReady` | `active_reservations` and `has_ready_work` of `tenant_scheduler_state` |
| `outbox`, `deadLetter` | PENDING events; dead letters and their status |
| `broker` | jobs with at least one message in Redis |
| `apiRequest`, `live`, `suspect`, `overdue` | memory of processes: how far an API request is with its refresh and what its query saw, the handlers that execute, what reaper runs have listed and not yet handled |
| `listed` | tenants that a run of `dispatch_jobs` has in its list although their flag has been cleared since |

Actions: `SubmitJob`, `RefreshQuery` and `RefreshSave` (the two statements of the refresh after it), `ApiCrash`, `CancelJob`, `ReplayDeadLetter`, `BecomeDue` (the clock), `DispatchJob`,
`PassTenant` (a run ends without dispatching a tenant it has listed), `PublishEvent`, `PublishUncommitted`, `LoseMessage`, `ClaimJob`, `DropMessage`, `CompleteJob`,
`FailJob`, `WorkerCrash`, `FindExpired`, `ReconcileAttempt`, `FindOverdue`, `RecoverQueued`,
`PromoteRetries`.

Abstractions, and why they lose nothing the properties tell apart:

- *Time* is two bits: a job is due or not, a lease is found expired or not. Every dead worker's lease
  expires at some time; a living worker's lease expires only under the fault `lease_lapse`, which is
  real: no shipped handler sends a heartbeat, a lease is five minutes and the hard limit of a task
  thirty. The reservation of a queued job expires when its message is gone, or, under `slow_pickup`,
  while it is queued.
- *Order of candidates*: `select_for_update(skip_locked=True)` passes over rows that others hold, so
  any ready job may come first; the model allows each. `Dispatch` has the exact order.
- *Messages* are a set of jobs; a message may be delivered again as often as one likes, which covers
  duplicates, redelivery after `acks_late` and early delivery.
- *Refreshes inside transactions* (promotion, recovery, replay) always find the job they just made
  ready, so their query and save cannot disagree and are one step. The refresh after a submission runs in
  autocommit mode and is two steps in every run.
- *The list of a `dispatch_jobs` run* is read before its transactions, which do not look at the flag
  again. A dispatch is therefore possible for a tenant flagged now, or whose flag `RefreshSave` (the only
  step that clears one that was set) has cleared since a run has listed it.
- *Requests with a known idempotency key* change nothing in `submit_job` and refresh nothing
  (`Submission` shows it).
- *Failures of the broker* change nothing: `publish_event` re-raises inside its transaction, which
  rolls back `publish_attempts` and `last_error` with the rest.
- The `expires_at` of overlap locks is written and never read, and is left out.

`Faults` selects the environment's misbehaviour. Worker deaths, lost and repeated messages and
publications that do not commit are always possible. The remaining kinds are options since some
properties hold only without them:
`lease_lapse`, `slow_pickup`, `reaper_overlap` (two runs hold the same row in their lists),
`commit_unknown` (`complete_job` commits, its worker sees an error), `api_crash` (an API process dies
between its insert and its refresh).

### How `Submission` reads the code

One action is one statement of `submit_job` or of `JobListCreateView.create` after it. Rows of others
are visible when committed (READ COMMITTED); an insert of a key that an open transaction has inserted
waits for that transaction (`InsertRow` and `InsertConflict` are both disabled), succeeds if it rolls
back and raises IntegrityError if it commits. `found` is the variable `job`, `answer` the response with
its 201 or 200, `refreshed` the jobs whose maker got to its refresh. `Die` is a process that dies at any
statement.

### How `Leases` reads the code

One job, its attempts one after the other; several workers may live at once, since an attempt whose
lease lapsed may be followed by the next while its worker goes on. `heartbeat` opens no transaction: its
clock, its query and its two updates are four actions (`BeatBegin`, `BeatCheck`, `BeatLease`,
`BeatReservation`), and the second update writes the reservation of the *job*, whichever dispatch it
belongs to by then. The reaper's clock, scans and transactions are actions of their own; so are dispatch,
claim, report and death. `Tick` advances the clock by one, unless someone is late who must not be: the
reaper (`ReapEvery`, `ReapTime`) and the workers of `Punctual` attempts (`BeatEvery`, `BeatTime`). All
others may be as late as they like, or die. Left out: the fields that only describe (`heartbeat_at`,
`finished_at`, errors), other jobs (nothing here is shared with them), cancellation (JobLifecycle has it:
to a lease it is a job that ends), and the wait between `dispatch_next`'s clock and its transaction, which
shortens a reservation.

### How `LockOrder` reads the code

A transaction is the sequence of the locks it requests; `Take` gets the next one if no other holds it,
`Commit` releases all. Rows that a `skip_locked` query returns are locked at once and never waited for.
An insert into `job_overlap_locks` waits for an uncommitted insert or delete of the same key and fails
against a committed row, on which `acquire_overlap` returns None and the loop goes on. `Abort` is
PostgreSQL's detector. What is left out, and why it cannot close a cycle, is in the module's header.

### How `Dispatch` reads the code

`BeginRun` reads the list of tenants, `Visit` enters `dispatch_next` for one (the clock is read, then the
call waits), and one of `ReturnNone`, `Reserve`, `Raise` is its transaction. `ready_since`
is the field of that name (0 for a job that does not wait): a promoted batch or a recovered job gets one
`now`, which no waiting job's time is after, a submitted job any time (its `available_at` may be in the past).
`Candidates(r)` is a set of sets: `ORDER BY priority, ready_since` leaves the order of ties, and so the choice
of those that still fit the limit, to the database; `First` is where the loop over such a set may end. `late[r]` are the jobs that became due after call r read
its clock: the call may miss them. `cancelling` are rows that an uncommitted cancellation has locked.
The counter and the overlap locks are read off `status`: `CounterExact` and `LocksMatchSlots` of
`JobLifecycle` say that they agree. `Submit` inserts only; `RefreshQuery` and `RefreshSave` follow in steps of
their own, so that a flag may be late, or be cleared by an answer that is old. An uncommitted cancellation
commits or rolls back. Delayed jobs and API processes that die are in `JobLifecycle` only.

## What is checked

| run | instance | shows |
|---|---|---|
| `late_reports` | two jobs, two slots, one retry, all worker and reaper faults | what survives everything: `SlotsMatchStatus`, `NoSlotLeak`, `RetryBudget`, `AttemptsNumbered`, `FailedIsDeadLettered` |
| `timely_limit` | two jobs, one slot, one retry, overlapping reapers, slow queue | without late reports: `ConcurrencyLimit`, `CounterExact`, `RunningIsCurrent`, `DeadLetterMeansFailed`, `SettledStaysSettled`, `LegalTransitions` |
| `timely_key` | two delayed jobs, one overlap key, two slots, dying API processes, slow queue, overlapping reapers | `ExclusiveExecution`, `LocksMatchSlots`, `StrandsAreKnown`, `ReturnedIsListed`, and `ImplementsContract` (refinement) |
| `settles` | two jobs, one of them delayed, one slot, one retry, dying API processes, fair | `EverySettled` |
| `submission` | three requests with one key, one with another, fair | `AnswersAgree`, `ReReadFinds`, `HeldIsReal`, `EveryRequestAnswered`, `CreatedIsRefreshed`, and `ActsAtOnce` (refinement) |
| `leases` | three attempts, the first two of late workers; lease 3, heartbeat 2+1, reaper 2+1, backoff 2 | `PunctualKeepsAttempt`, `DeadFoundInTime`, `QueuedRecoveredInTime`, `ListedOnce`, `ReservationMatchesJob` |
| `locks` | three connections, two tenants, two jobs that share a key and one without, fair | `DeadlocksAreKnown`, `KeylessNeverAborted`, `EveryTransactionEnds` |
| `dispatch` | four jobs of one tenant, one run of `dispatch_jobs` at a time, one candidate per dispatch, a shared key, a changing limit, a list payload, fair | `NoOvertaking`, `OverLimitOnlyDrains`, `ReadyIsServed` |

Four further runs check what a document or comment of the repository says and the code does not do;
each has its counterexample and is described in `findings`: `v_limit` (a lapsed lease breaks the limit),
`v_cancel` (a requested cancellation ends in a retry), `v_delayed` (a delayed job stays invisible to
`dispatch_jobs` until another job of its tenant changes) and `v_neighbour` (one job whose payload is a list
keeps `dispatch_jobs` from every tenant behind its own). The models have two relatives of these, which
have no run of their own: with `lease_lapse`, a late report moves a finished job (`SettledStaysSettled`
fails); a request that dies, or saves an old answer, strands a ready job (next section).
`UndeclaredTransitions` names the three status changes the code makes although `transitions.py` does not
permit them, one of them (QUEUED to CANCELLED) on purpose in `cancel_job`, two through lost cancellation
requests.

Deadlock is not checked: with a finite pool of jobs or requests a system rightly stops when all are
through.

### What the scheduler's index does and does not promise

`has_ready_work` is a cache that is recomputed on some events. A ready job that the dispatcher's query does
not see, with no request of its tenant on the way to a refresh, is in `Stranded`. The code does strand jobs:

1. a delayed job becomes due, which is no event (`v_delayed`);
2. the API process dies between the insert and the refresh; a repetition of the request does not refresh;
3. of two refreshes of one tenant, the one with the older answer saves last. For example, j1 is submitted and
   cancelled before its request queries, so that it sees no ready job; j2 is submitted and refreshed TRUE;
   j1's FALSE is saved. Or j1's request queries while its delayed job is all there is.

So no property says that every ready job is listed: it would be false of the code. What is true is
`StrandsAreKnown`: these three are the only ways, and no dispatch, report, recovery, promotion, replay or
cancellation is another; dropping any of its three exceptions makes it fail. What it costs is in `EverySettled`, which is
about jobs that are not left stranded for good: its antecedent says that, time and again, the job is not
stranded, and leaves out the jobs that ways 1 to 3 hide for ever, those of dead requests among them. For
a job that was dispatched once, `ReturnedIsListed` and `StrandsAreKnown` leave way 3 only: it is due, and the transaction
that makes it WAITING again lists its tenant. A promoted job whose tenant is then taken off the list by a request
that queried before the promotion may wait for ever.

### What the new parts found to be so

- A late heartbeat of a settled attempt can write the reservation of the *next* dispatch, but with an older
  clock: it shortens it, and the job may be recovered early. A heartbeat of an attempt that is still RUNNING
  extends it: worker 1 is late, its attempt is abandoned, attempt 2 is claimed, worker 1's failure then
  requeues the job under RUNNING attempt 2, and worker 2's heartbeats keep the reservation of the
  following dispatch alive, as long as they come. If the message of that dispatch is lost, the job is recovered
  late: `QueuedRecoveredInTime` counts from the end of attempt 2's lease then.
- `reconcile_attempt` looks at the status again, not at the lease: a worker that beats after the scan and
  before the reconciliation loses its attempt although its lease is renewed. A worker that beats in time
  cannot be on the list.
- The overlap lock closes a cycle: `dispatch_next` holds the scheduler row and waits for the key of a job
  whose report has deleted the key's row and waits for the scheduler row. When the detector picks the
  report, `execute` takes the error for one of the handler and fails the job that succeeded. Jobs without
  a key cannot be hit (`KeylessNeverAborted`). Two promotions can deadlock on two tenants' rows.
- Ten candidates that wait for a key hide the jobs behind them, but not for ever: the key's holder ends
  (`ReadyIsServed`, for tenants that are listed again and again).

### Bounds

`MaxRetries` is 1 where two jobs compete: every branch of the retry decision (retry left, none left)
occurs, on first and second attempts, and the proofs hold for the code's 3 as for any number. Tenants
share nothing but the broker and the tasks, so `JobLifecycle` runs have one, and two jobs: its hazards are
pairwise, two jobs that compete for one slot or one key, two workers on one job, two reaper runs on one
row. Jobs include the clones that replays create. `SmallBatches` (in `late_reports` only) lets the reapers
hold one finding at a time between them, and `PromptRequests` (there too) lets an API request refresh before a
worker claims its job; everything that run checks is also proved without the bounds.

`leases` identifies states that differ by a shift of the clock, or in times nothing reads any more
(`VIEW View`): actions compare and copy times and never use their absolute values. `Horizon` caps the
clock, and is never reached in the reduced graph; with it the run covers histories of any length. Three attempts are
enough for two late workers and one in time. In `dispatch`, `CandidateLimit` is 1 so that two jobs
with one key hide a third, `Batch` holds all tenants, `MaxReturns` bounds failures, recoveries and rolled back
cancellations in all, and `MaxRequests` is 1: one submission at a time is between its insert and its refresh, whose
answer may still be older than a promotion or recovery. `Instant` has two times, and `AvailableAt` gives both to the
two jobs of one priority, which tie or do not. There is one tenant and one run of `dispatch_jobs`; the theorems of
`DispatchProofs` hold for any number of both, `ReadyIsServed` is checked without overlapping runs, and
`v_neighbour` has two tenants and two runs.
`Limits` are the values an operator may set. `locks` gives each of three connections some kinds of
transactions (`Duties`) such that every pair of kinds meets; the two-party cycles and the three-party one
through a tenant's row occur.

### Fairness

`FairSpec` of `JobLifecycle` asks for what `CELERY_BEAT_SCHEDULE` (config/settings.py) and the platform give: each
periodic task keeps running, so its step is weakly fair (publication, both scans, reconciliation,
recovery, promotion); a living API process finishes its request; the clock advances; a handler ends,
by itself, by an exception, or killed at `CELERY_TASK_TIME_LIMIT`. Strong fairness is used twice:
for dispatch, since capacity and readiness come and go and a row skipped because it was locked is not
locked every time; and for the claim of a job, since a message may be lost or late, but not every
message of a job for ever. Submission, cancellation, replay, faults and losses are not fair.
The liveness runs exclude `slow_pickup` and `reaper_overlap`: with a queue that is always slower than
the five minutes of a reservation a job is recovered each time before its message arrives, and never
runs. That is a limit of the design, not an accident of the model.

`Submission`: a living process takes its next statement as soon as the database lets it (weak). `Dispatch`:
each run of `dispatch_jobs` goes on (weak), a submission refreshes the index, a job that has a slot gives it
back, which `settles` shows, a cancellation commits or rolls back, and retries are promoted (weak). `LockOrder`: a process that waits gets a lock that becomes free again and
again (strong: PostgreSQL queues waiters), and the detector looks at every cycle (weak: after
`deadlock_timeout`). New transactions, requests and changes of the limit are never fair. `Leases` has
deadlines in place of fairness: its properties say by when, and are safety.

## What is proved

All proofs are checked by tlapm with Z3, Zenon and LS4.

`JobLifecycleProofs` proves, for any sets of jobs, tenants and keys, any
limits and any number of retries:

- `SafeCorrect`: `Spec => []SafeInv`, whatever the faults, and from it each invariant of `late_reports`
  and `LocksMatchSlots`.
- With `"lease_lapse"` and `"commit_unknown"` not in `Faults` (`Timely`): `TimelyCorrect`
  (`[]TimelyInv`), with `CounterExact`, `RunningIsCurrent` and `DeadLetterMeansFailed` from it, `LimitHolds` (`[]ConcurrencyLimit`), `ExclusionHolds` (`[]ExclusiveExecution`),
  `TransitionsLegal`, `SettledStays`, and `Implements` (`Spec => Contract!Spec`).

Assumptions: the set of jobs is finite, attributes and limits have their types, `Faults` is a set of
the kinds listed. TLC evaluates them in every run.

The argument. `SlotsMatchStatus` alone is not inductive: a stale report sets a status and releases the
slot in one step, which preserves it only together with the retry budget (a released job must not be
claimable beyond its budget, or `attempt` would leave its type) and with gapless numbering (the number
`claim_job` uses is free). `SafeInv` is their conjunction with the locks, the counter bounds and
`NothingUnstarted`, and each action is shown to preserve it part by part; cardinalities change by one
through the lemmas `SlotAdded` and `SlotRemoved`. `TimelyInv` adds that an attempt in the hands of a
living worker is RUNNING and unlisted, and that the RUNNING attempt of a job is its last and the job
is executing; hence every report and every reconciliation finds its own job with its own slot, the
counter is decremented exactly when a reservation goes, and equals their number. The limit follows: a
living handler's job holds a reservation, reservations are as many as the counter, the counter is
within the limit. Exclusion follows from locks being held with reservations. The refinement maps a
status to its phase; a step is shown to change one phase as `JobContract` permits.

`JobContractProofs` asks what the refinement is worth: `PromiseKept` says that every behaviour of `JobContract`
keeps the limits, the exclusion and the bound on executions, `EndsOnceKept` that an end is final. `PromisesHold` (in
`JobLifecycleProofs`) composes `Implements` with it, by the substitution of the refinement: the promises are true
of the tables. The attributes it asks for are those of the assumptions above (`AttributesGiven`).

`IndexProofs`: `ReturnsAreListed` (`ReturnedIsListed`) needs no assumption on faults. A queued job is due,
since dispatch required it and only a failure moves `available_at`; so the query of the refresh, in the
transaction that makes the job WAITING, finds at least this job. `StrandsKnown` (`StrandsAreKnown`) needs none
either: a step either leaves flags and requests alone and makes no job ready but one whose time comes, or
ends with a refresh that sees the job it returns (`RefreshedNotStranded`), or is a step of a request, where
`SubmitJob` leaves its own request on the way and `RefreshSave` with TRUE strands nobody.

`SubmissionProofs`, for any set of requests and keys: `HeldIsReal` is the inductive invariant. `AnswersAgree`
is not inductive: that an answer names the committed row needs that a request which has matched or
inserted holds that row, that an open insert excludes every other of its key, and that a row is committed
by a request of its own key. `ReReadCorrect` follows (rows are never deleted), and so does the refinement:
`CommitInsert` is the abstract `Put`, `Answer` the abstract `Reply`, all else stutters.

`LeasesProofs`, for all times that `TimesAssumption` allows (`BeatTime <= BeatEvery`,
`BeatEvery + BeatTime <= Lease`, a reaper run shorter than its period and than the shortest backoff; the code has 300 s, 10 s and
3 s for lease, period and backoff, the rest is up to handlers and the load) and any set of punctual
attempts: all six invariants of the run. `PunctualKeepsAttempt` is not inductive; `Covered` says how far the lease of a punctual
worker reaches at each statement of a heartbeat, and that the reaper has not listed it. `LeasesScanned`
says that what a scan passed over had not expired at its clock, `LeasesBounded` that a lease ends within
its length of the last heartbeat: together they bound the time to find a dead worker. `QueueScanned` is the
same for the reservation of a queued job and `QueueExtended` bounds it: it ends with the dispatch's own lease or
with that of an attempt that is RUNNING beside it, since every heartbeat in flight of a settled attempt
carries a clock before the dispatch. `OverdueSettled` compares the backoff with the reaper's run. That a run of the reaper is
shorter than the shortest backoff is an assumption on load, without which `ListedOnce` fails.

`LockOrderProofs`, for any finite sets of connections and jobs, any tenants, keys and duties: `DeadlocksKnown`
and `KeylessSafe` (the two invariants of `locks`), `TypesCorrect`, and `LocksExcluded`, which is no property of
the run: no two transactions hold locks that clash. The inductive invariant `Inv` (`Correct`)
says that a transaction about one job requests its rows by rising rank of their tables (attempt or dead
letter, job, overlap lock, scheduler state) and holds only lower ones, what a dispatch and a promotion hold
at each stage, that no two hold locks that clash, and how overlap rows under way relate to committed ones.
In a deadlock nobody wants a row of the first or second table: who does holds only lower ones, and
somebody would have to wait for those. So a transaction about one job that waits in a deadlock has an
overlap row, wants the state, and is waited for by a dispatch that tries the key. Without any such
transaction the rest are promotions. `DeadlockFree` turns this around: if no job names a key and runs of
`promote_ready_retries` do not overlap, there is no deadlock at all. The assumptions are that processes and
jobs are finitely many and that sharing a key is symmetric.

`DispatchProofs`, for any finite set of jobs and any tenants, priorities, keys, limits, candidates and runs:
`TypesHold`, `OrderIsKept` (`NoOvertaking`) and `LoweredLimitDrains` (`OverLimitOnlyDrains`), and
`KeysAreExclusive`, which is not a property of the run: of the jobs that share a key one is dispatched, so that
the statuses say as much as the table of overlap locks which `Dispatch` leaves out. The types are inductive (a
cancellation holds a waiting job's row because `skip_locked` keeps every dispatch off it). The rest
follows from one lemma about the query and the loop, `FirstIsRightful`: a job that is visible and ahead of
the one reserved was refused its key, for it was among the candidates, or it would be left out behind
one of them, and the loop came to it first.

Only model-checked: liveness (`EverySettled`, `EveryRequestAnswered`,
`CreatedIsRefreshed`, `EveryTransactionEnds`, `ReadyIsServed`), which is out of the prover's reach, and the
counterexamples. Every other property of a passing run is a theorem.

## Not modelled

- More listed tenants than a batch of 100: the query has no order, the database decides who is in, and
  a tenant may be left out for ever; with at most a batch of them `ReadyIsServed` holds. `last_dispatched_at`,
  `highest_ready_priority` and `next_ready_at`, which would order it, are written and read by no query.
- `expires_at` of overlap locks (written, read by no code), `GLOBAL` scope (no caller), `DISMISSED`
  (no writer), `fail_attempt`, `retry_delay` and `validate_transition` (no caller; the graph is compared
  with what the services do).
- Lost updates of a tenant's fields by two concurrent PATCH requests: no property of jobs depends on
  which wins. Deleting rows through the admin.
- What the simulated handlers compute, the registry, results and error texts, serializers, admin, urls,
  migrations: no state the other parts read.
