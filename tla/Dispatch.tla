------------------------------ MODULE Dispatch ------------------------------
(***************************************************************************)
(* Which job is dispatched next: the loop of dispatch_jobs over the listed *)
(* tenants, and dispatch_next's choice among a tenant's waiting jobs, for  *)
(* runs that overlap, submissions that refresh the index late and with old *)
(* answers, cancellations that hold a row and then commit or roll back,    *)
(* limits that an operator changes and jobs that come back.                *)
(*                                                                         *)
(* QUEUED stands for every status with a slot, ENDED for the terminal      *)
(* ones.  JobLifecycle shows that active_reservations counts the slots and *)
(* that overlap locks come and go with them, so both are read off status   *)
(* here.  It also has delayed jobs, and API processes that die.             *)
(***************************************************************************)
EXTENDS Integers, FiniteSets

CONSTANTS
    Job, Tenant, NoTenant, TenantOf,
    Priority,           \* 1 is the highest, 5 the lowest
    Exclusive,          \* pairs of jobs of one tenant with one overlap key
    NoObject,           \* jobs whose payload is JSON but no object
    Limits,             \* values an operator gives to a tenant's max_concurrent_jobs
    Instant,            \* the times of ready_since
    AvailableAt,        \* those a client may submit a job with
    CandidateLimit,     \* 10 in the code
    Batch,              \* 100 in the code
    MaxRequests,        \* bound: submissions between their insert and their refresh
    MaxReturns,         \* bound: how often a job fails, is recovered, or has its
                        \* cancellation rolled back, in all
    Run                 \* runs of dispatch_jobs in the Celery workers

ASSUME DispatchAssumption ==
    /\ NoTenant \notin Tenant
    /\ IsFiniteSet(Job)
    /\ TenantOf \in [Job -> Tenant]
    /\ Priority \in [Job -> 1 .. 5]
    /\ Exclusive \subseteq Job \X Job
    /\ \A i, j \in Job : <<i, j>> \in Exclusive => <<j, i>> \in Exclusive
    /\ NoObject \subseteq Job
    /\ Limits \in [Tenant -> SUBSET Nat]
    /\ Instant \subseteq Nat \ {0}
    /\ AvailableAt \in [Job -> SUBSET Instant]
    /\ MaxRequests \in Nat
    /\ CandidateLimit \in Nat \ {0} /\ Batch \in Nat \ {0} /\ MaxReturns \in Nat

VARIABLES
    status,             \* of every job; "NoRow" before it is submitted
    ready_since,        \* 0 for a job that does not wait, where nobody reads it
    returns,            \* how often that happened
    request,            \* progress of the API request that submits the job
    cancelling,         \* jobs whose row an uncommitted cancel_job has locked
    limit,              \* max_concurrent_jobs
    has_ready_work,
    todo,               \* tenants that a run has yet to visit
    visited,            \* the tenant a run is in dispatch_next for
    late                \* jobs that became due after this call read the clock

vars == <<status, ready_since, returns, request, cancelling, limit, has_ready_work,
          todo, visited, late>>
runVars == <<todo, visited, late>>

AnyLimit == UNION {Limits[t] : t \in Tenant}
LimitsInForce == {f \in [Tenant -> AnyLimit] : \A t \in Tenant : f[t] \in Limits[t]}

TypeOK ==
    /\ status \in [Job -> {"NoRow", "WAITING", "QUEUED", "RETRY_WAIT", "ENDED"}]
    /\ ready_since \in [Job -> Instant \cup {0}]
    /\ \A j \in Job : ready_since[j] = 0 <=> status[j] # "WAITING"
    /\ returns \in 0 .. MaxReturns
    /\ request \in [Job -> {"idle", "inserted", "saw_ready", "saw_none"}]
    /\ cancelling \subseteq {j \in Job : status[j] = "WAITING"}
    /\ limit \in LimitsInForce
    /\ has_ready_work \in [Tenant -> BOOLEAN]
    /\ todo \in [Run -> SUBSET Tenant]
    /\ visited \in [Run -> Tenant \cup {NoTenant}]
    /\ late \in [Run -> SUBSET Job]

Init ==
    /\ status = [j \in Job |-> "NoRow"]
    /\ ready_since = [j \in Job |-> 0]
    /\ returns = 0
    /\ request = [j \in Job |-> "idle"]
    /\ cancelling = {}
    /\ limit \in LimitsInForce
    /\ has_ready_work = [t \in Tenant |-> FALSE]
    /\ todo = [r \in Run |-> {}]
    /\ visited = [r \in Run |-> NoTenant]
    /\ late = [r \in Run |-> {}]

-----------------------------------------------------------------------------
(* Reading the tables *)

JobsOf(t) == {j \in Job : TenantOf[j] = t}
Slots(t) == Cardinality({j \in JobsOf(t) : status[j] = "QUEUED"})
Listed == {t \in Tenant : has_ready_work[t]}

\* Mutant of HasCapacity: the counter is compared for equality.
HasCapacityUnlessEqual(t) == Slots(t) # limit[t]
HasCapacity(t) == Slots(t) < limit[t]

\* Mutant of KeyHeld: a job that ends leaves its lock behind.
KeyHeldOn(j) == \E i \in Job : status[i] \in {"QUEUED", "ENDED"} /\ <<i, j>> \in Exclusive
\* acquire_overlap fails: a job of the tenant holds the key.
KeyHeld(j) == \E i \in Job : status[i] = "QUEUED" /\ <<i, j>> \in Exclusive

\* Mutant of Visible: candidates are read without a lock on their rows.
VisibleUnlocked(r, j) == j \notin late[r]
\* due by the clock of the call, and the row is free
Visible(r, j) == j \notin cancelling /\ j \notin late[r]

\* Mutant of Ahead: the candidates are not ordered by priority.
AheadByAge(i, j) == ready_since[i] < ready_since[j]
\* ORDER BY priority, ready_since; of jobs that tie, the database's choice is first
Ahead(i, j) ==
    \/ Priority[i] < Priority[j]
    \/ Priority[i] = Priority[j] /\ ready_since[i] < ready_since[j]

\* What the query may return: as many visible jobs as the limit, none of them
\* behind one that is left out.
Candidates(r) ==
    LET waiting == {j \in JobsOf(visited[r]) : status[j] = "WAITING" /\ Visible(r, j)}
    IN  {c \in SUBSET waiting :
            /\ Cardinality(c) = IF Cardinality(waiting) < CandidateLimit
                                THEN Cardinality(waiting) ELSE CandidateLimit
            /\ \A j \in c, i \in waiting \ c : ~Ahead(i, j)}

\* Where the loop over the candidates can return or raise, and where it does.
Stops(c) == {j \in c : j \in NoObject \/ ~KeyHeld(j)}
First(c) == {j \in Stops(c) : \A i \in Stops(c) : ~Ahead(i, j)}

-----------------------------------------------------------------------------
(* API requests *)

\* Jobs become due: a call that has read the clock before sees them or not.
BecomeDue(js) ==
    \E missed \in [{r \in Run : visited[r] # NoTenant} -> SUBSET js] :
        late' = [r \in Run |-> IF visited[r] = NoTenant THEN {} ELSE late[r] \cup missed[r]]

\* submit_job inserts the row.  A job may be submitted with an available_at in
\* the past, and so with an earlier ready_since than jobs that wait already.
Submit(j) ==
    /\ status[j] = "NoRow"
    /\ Cardinality({i \in Job : request[i] # "idle"}) < MaxRequests
    /\ status' = [status EXCEPT ![j] = "WAITING"]
    /\ \E n \in AvailableAt[j] : ready_since' = [ready_since EXCEPT ![j] = n]
    /\ BecomeDue({j})
    /\ request' = [request EXCEPT ![j] = "inserted"]
    /\ UNCHANGED <<returns, cancelling, limit, has_ready_work, todo, visited>>

\* refresh_scheduler_state, in autocommit mode: the query for a ready job ...
RefreshQuery(j) ==
    /\ request[j] = "inserted"
    /\ request' = [request EXCEPT ![j] =
                      IF \E i \in JobsOf(TenantOf[j]) : status[i] = "WAITING"
                      THEN "saw_ready" ELSE "saw_none"]
    /\ UNCHANGED <<status, ready_since, returns, cancelling, limit, has_ready_work, runVars>>

\* ... and the save, which may be of an answer that is old by now.
RefreshSave(j) ==
    /\ request[j] \in {"saw_ready", "saw_none"}
    /\ has_ready_work' = [has_ready_work EXCEPT ![TenantOf[j]] = (request[j] = "saw_ready")]
    /\ request' = [request EXCEPT ![j] = "idle"]
    /\ UNCHANGED <<status, ready_since, returns, cancelling, limit, runVars>>

\* cancel_job of a WAITING job locks the row and ends later.
BeginCancel(j) ==
    /\ status[j] = "WAITING"
    /\ cancelling' = cancelling \cup {j}
    /\ UNCHANGED <<status, ready_since, returns, request, limit, has_ready_work, runVars>>

CommitCancel(j) ==
    /\ j \in cancelling
    /\ cancelling' = cancelling \ {j}
    /\ status' = [status EXCEPT ![j] = "ENDED"]
    /\ ready_since' = [ready_since EXCEPT ![j] = 0]
    /\ late' = [r \in Run |-> late[r] \ {j}]
    /\ UNCHANGED <<returns, request, limit, has_ready_work, todo, visited>>

\* The request dies or its transaction fails: the job waits on, and dispatches
\* that have passed its row over have taken later jobs.
RollBackCancel(j) ==
    /\ j \in cancelling
    /\ returns < MaxReturns
    /\ returns' = returns + 1
    /\ cancelling' = cancelling \ {j}
    /\ UNCHANGED <<status, ready_since, request, limit, has_ready_work, runVars>>

\* PATCH /tenants/<id>/ waits while dispatch_next has the tenant's row.
ChangeLimit(t, n) ==
    /\ n \in Limits[t]
    /\ limit' = [limit EXCEPT ![t] = n]
    /\ UNCHANGED <<status, ready_since, returns, request, cancelling, has_ready_work, runVars>>

-----------------------------------------------------------------------------
(* dispatch_jobs *)

\* The list of tenants is read once; which of them, if there are more than
\* fit, and in which order, is the database's choice.
BeginRun(r) ==
    /\ todo[r] = {} /\ visited[r] = NoTenant
    /\ Listed # {}
    /\ \E batch \in SUBSET Listed :
        /\ Cardinality(batch) = IF Cardinality(Listed) < Batch THEN Cardinality(Listed) ELSE Batch
        /\ todo' = [todo EXCEPT ![r] = batch]
    /\ UNCHANGED <<status, ready_since, returns, request, cancelling, limit, has_ready_work,
                   visited, late>>

\* dispatch_next reads the clock, then waits for the tenant's scheduler state.
Visit(r, t) ==
    /\ visited[r] = NoTenant /\ t \in todo[r]
    /\ visited' = [visited EXCEPT ![r] = t]
    /\ todo' = [todo EXCEPT ![r] = @ \ {t}]
    /\ UNCHANGED <<status, ready_since, returns, request, cancelling, limit, has_ready_work, late>>

Return(r) ==
    /\ visited' = [visited EXCEPT ![r] = NoTenant]
    /\ late' = [late EXCEPT ![r] = {}]

\* The limit is reached, or no candidate gets its key.
ReturnNone(r) ==
    /\ visited[r] # NoTenant
    /\ ~HasCapacity(visited[r]) \/ (\E c \in Candidates(r) : Stops(c) = {})
    /\ Return(r)
    /\ UNCHANGED <<status, ready_since, returns, request, cancelling, limit, has_ready_work, todo>>

\* The first candidate that names no key, or gets it, is reserved.
Reserve(r) ==
    /\ visited[r] # NoTenant /\ HasCapacity(visited[r])
    /\ \E c \in Candidates(r) : \E j \in First(c) :
        /\ j \notin NoObject
        /\ status' = [status EXCEPT ![j] = "QUEUED"]
        /\ ready_since' = [ready_since EXCEPT ![j] = 0]
    /\ Return(r)
    /\ UNCHANGED <<returns, request, cancelling, limit, has_ready_work, todo>>

\* job.payload has no get: the transaction and the loop over tenants end.
Raise(r) ==
    /\ visited[r] # NoTenant /\ HasCapacity(visited[r])
    /\ \E c \in Candidates(r) : First(c) \cap NoObject # {}
    /\ Return(r)
    /\ todo' = [todo EXCEPT ![r] = {}]
    /\ UNCHANGED <<status, ready_since, returns, request, cancelling, limit, has_ready_work>>

DispatchJobs(r) ==
    \/ BeginRun(r)
    \/ \E t \in Tenant : Visit(r, t)
    \/ ReturnNone(r)
    \/ Reserve(r)
    \/ Raise(r)

-----------------------------------------------------------------------------
(* What happens to a dispatched job *)

\* It settles, or its cancellation while queued gives the slot back.
End(j) ==
    /\ status[j] = "QUEUED"
    /\ status' = [status EXCEPT ![j] = "ENDED"]
    /\ UNCHANGED <<ready_since, returns, request, cancelling, limit, has_ready_work, runVars>>

Fail(j) ==
    /\ status[j] = "QUEUED"
    /\ returns < MaxReturns
    /\ returns' = returns + 1
    /\ status' = [status EXCEPT ![j] = "RETRY_WAIT"]
    /\ UNCHANGED <<ready_since, request, cancelling, limit, has_ready_work, runVars>>

\* now, which is not before any waiting job's ready_since
ReadyNow(n) == \A j \in Job : ready_since[j] <= n

\* promote_ready_retries: the jobs of a batch are ready since one time.
PromoteRetries ==
    /\ \E batch \in (SUBSET {j \in Job : status[j] = "RETRY_WAIT"}) \ {{}} :
        /\ status' = [j \in Job |-> IF j \in batch THEN "WAITING" ELSE status[j]]
        /\ \E n \in Instant :
            /\ ReadyNow(n)
            /\ ready_since' = [j \in Job |-> IF j \in batch THEN n ELSE ready_since[j]]
        /\ has_ready_work' = [t \in Tenant |-> has_ready_work[t] \/ JobsOf(t) \cap batch # {}]
        /\ BecomeDue(batch)
    /\ UNCHANGED <<returns, request, cancelling, limit, todo, visited>>

\* recover_queued, with its refresh
RecoverQueued(j) ==
    /\ status[j] = "QUEUED"
    /\ returns < MaxReturns
    /\ returns' = returns + 1
    /\ status' = [status EXCEPT ![j] = "WAITING"]
    /\ \E n \in Instant : ReadyNow(n) /\ ready_since' = [ready_since EXCEPT ![j] = n]
    /\ has_ready_work' = [has_ready_work EXCEPT ![TenantOf[j]] = TRUE]
    /\ UNCHANGED <<request, cancelling, limit, runVars>>

Next ==
    \/ \E j \in Job : \/ Submit(j) \/ RefreshQuery(j) \/ RefreshSave(j)
                      \/ BeginCancel(j) \/ CommitCancel(j) \/ RollBackCancel(j)
                      \/ End(j) \/ Fail(j) \/ RecoverQueued(j)
    \/ \E t \in Tenant, n \in AnyLimit : ChangeLimit(t, n)
    \/ \E r \in Run : DispatchJobs(r)
    \/ PromoteRetries

Spec == Init /\ [][Next]_vars

\* The periodic tasks run again and again, requests end, and a job that has a
\* slot gives it back (EverySettled of JobLifecycle).
Fairness ==
    /\ \A r \in Run : WF_vars(DispatchJobs(r))
    /\ WF_vars(\E j \in Job : RefreshQuery(j) \/ RefreshSave(j))
    /\ WF_vars(\E j \in Job : CommitCancel(j) \/ RollBackCancel(j) \/ End(j))
    /\ WF_vars(PromoteRetries)

FairSpec == Spec /\ Fairness

-----------------------------------------------------------------------------

\* i is to be served before j, as dispatch_next documents it: a higher priority,
\* or the same and ready for longer.
Precedes(i, j) ==
    /\ TenantOf[i] = TenantOf[j]
    /\ \/ Priority[i] < Priority[j]
       \/ Priority[i] = Priority[j] /\ ready_since[i] < ready_since[j]

\* A dispatched job overtakes no waiting job of its tenant but those that are
\* being cancelled, wait for a held key or became due during the dispatch.
NoOvertaking ==
    [][\A i, j \in Job :
        /\ status[i] = "WAITING" /\ status[j] = "WAITING" /\ status'[j] = "QUEUED"
        /\ Precedes(i, j)
        => \/ i \in cancelling \/ KeyHeld(i)
           \/ \E r \in Run : visited[r] = TenantOf[j] /\ i \in late[r] /\ i \notin late'[r]]_vars

\* A limit that an operator lowers below the slots in use takes none away and
\* lets none be added: the slots above it drain.
OverLimitOnlyDrains ==
    [][\A t \in Tenant : Slots(t) > limit[t] => Slots(t)' <= Slots(t)]_vars

\* No job waits for ever whose tenant is not taken off the scheduler's list for
\* good, however many jobs with a held key hide it from the candidates, unless
\* the tenant's limit is zero or a job waits whose payload is no object.
ReadyIsServed ==
    \A j \in Job : []<>has_ready_work[TenantOf[j]] =>
        []<>(\/ status[j] # "WAITING" \/ limit[TenantOf[j]] = 0
             \/ \E i \in NoObject : status[i] = "WAITING")

\* The same, unless the job whose payload is no object is of the same tenant.
NeighbourIsServed ==
    \A j \in Job : []<>has_ready_work[TenantOf[j]] =>
        []<>(\/ status[j] # "WAITING" \/ limit[TenantOf[j]] = 0
             \/ \E i \in NoObject : TenantOf[i] = TenantOf[j] /\ status[i] = "WAITING")
=============================================================================
