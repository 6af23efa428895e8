----------------------------- MODULE LockOrder -----------------------------
(***************************************************************************)
(* The row locks that the service transactions take, in their order, and   *)
(* the waits between them.  JobLifecycle has these transactions as single  *)
(* steps; here each is a sequence of lock requests, and PostgreSQL's       *)
(* deadlock detector aborts one transaction of a cycle of waits.           *)
(*                                                                         *)
(* A lock is <<table, row>>.  A row of job_overlap_locks is named by its   *)
(* job: an insert waits for an uncommitted insert or delete of a row with  *)
(* the same tenant and key, and fails at once against a committed one.     *)
(* Candidates and retries are read with skip_locked and never waited for.  *)
(* Left out are transactions of one lock (claim_job, cancel_job of a job   *)
(* without a slot, publish_event, the autocommit statements of heartbeat   *)
(* and of the refresh after a submission), which hold nothing while they   *)
(* wait; rows that are written under the lock of their job; and the        *)
(* tenant's row, which dispatch_next takes together with the scheduler's   *)
(* and others refer to only at their commit (Django defers foreign keys).  *)
(***************************************************************************)
EXTENDS Integers, Sequences, SequencesExt, FiniteSets

CONSTANTS
    Process,    \* database connections of API processes and Celery workers
    Duties,     \* the transactions each of them runs
    Job, Tenant, TenantOf,
    Exclusive   \* pairs of jobs of one tenant with one overlap key; <<j, j>>
                \* if j names a key

Kind == {"none", "report", "abandon", "recover", "replay", "promote", "dispatch",
         "reserve"}

ASSUME LocksAssumption ==
    /\ IsFiniteSet(Process) /\ IsFiniteSet(Job)
    /\ Duties \in [Process -> SUBSET Kind]
    /\ TenantOf \in [Job -> Tenant]
    /\ Exclusive \subseteq Job \X Job
    /\ \A e \in Exclusive : <<e[2], e[1]>> \in Exclusive

VARIABLES
    kind,       \* the transaction a process is in
    held,       \* the locks it holds
    todo,       \* the locks it has yet to request
    locked      \* jobs with a committed row in job_overlap_locks

vars == <<kind, held, todo, locked>>

AttemptRow(j) == <<"job_attempts", j>>
JobRow(j) == <<"jobs", j>>
OverlapRow(j) == <<"job_overlap_locks", j>>
DeadLetterRow(j) == <<"dead_letter_jobs", j>>
StateRow(t) == <<"tenant_scheduler_state", t>>

Lock == {AttemptRow(j) : j \in Job} \cup {JobRow(j) : j \in Job}
        \cup {OverlapRow(j) : j \in Job} \cup {DeadLetterRow(j) : j \in Job}
        \cup {StateRow(t) : t \in Tenant}

TypeOK ==
    /\ kind \in [Process -> Kind]
    /\ held \in [Process -> SUBSET Lock]
    /\ todo \in [Process -> Seq(Lock)]
    /\ locked \subseteq Job
    /\ \A j, k \in locked : j # k => <<j, k>> \notin Exclusive

Init ==
    /\ kind = [p \in Process |-> "none"]
    /\ held = [p \in Process |-> {}]
    /\ todo = [p \in Process |-> <<>>]
    /\ locked = {}

-----------------------------------------------------------------------------
(* Waits *)

Keyed(js) == {j \in js : <<j, j>> \in Exclusive}

Clash(l, m) ==
    \/ l = m
    \/ l[1] = "job_overlap_locks" /\ m[1] = "job_overlap_locks" /\ <<l[2], m[2]>> \in Exclusive

HeldByOther(p, l) == \E q \in Process \ {p} : \E m \in held[q] : Clash(l, m)

WaitsFor(p, q) ==
    /\ p # q /\ todo[p] # <<>>
    /\ \E m \in held[q] : Clash(Head(todo[p]), m)

\* Sets of processes that wait for each other, in one cycle or several.
Deadlocks ==
    {C \in (SUBSET {p \in Process : todo[p] # <<>>}) \ {{}} :
        \A p \in C : (\E q \in C : WaitsFor(p, q)) /\ (\E q \in C : WaitsFor(q, p))}

-----------------------------------------------------------------------------
(* The transactions *)

\* release_capacity: the overlap rows of the job, then the tenant's state.
Release(j) == SetToSeq({OverlapRow(i) : i \in Keyed({j})}) \o <<StateRow(TenantOf[j])>>

\* complete_job and fail_job
Report(j) == <<AttemptRow(j), JobRow(j)>> \o Release(j)

\* Mutant of Abandon: the job is locked before its attempt.
AbandonJobFirst(j) == <<JobRow(j), AttemptRow(j)>> \o Release(j)
\* reconcile_attempt and, inside it, finalize_failure
Abandon(j) == <<AttemptRow(j), JobRow(j)>> \o Release(j)

\* recover_queued, and cancel_job of a queued job
Recover(j) == <<JobRow(j)>> \o Release(j)

\* replay_dead_letter: both rows of its query, then the refresh of the state
Replay(j) == <<DeadLetterRow(j), JobRow(j), StateRow(TenantOf[j])>>

Start(p, k, locks) ==
    /\ kind[p] = "none"
    /\ k \in Duties[p]
    /\ kind' = [kind EXCEPT ![p] = k]
    /\ todo' = [todo EXCEPT ![p] = locks]

BeginJob(p, j) ==
    /\ \/ Start(p, "report", Report(j))
       \/ Start(p, "abandon", Abandon(j))
       \/ Start(p, "recover", Recover(j))
       \/ Start(p, "replay", Replay(j))
    /\ UNCHANGED <<held, locked>>

BeginDispatch(p, t) ==
    /\ Start(p, "dispatch", <<StateRow(t)>>)
    /\ UNCHANGED <<held, locked>>

\* Jobs that hold no slot and whose rows a skip_locked query of p can lock.
Lockable(p) == {j \in Job \ locked : ~HeldByOther(p, JobRow(j))}

\* promote_ready_retries: the due retries, then a refresh for each of their
\* tenants, in the order a Python set yields them.
BeginPromotion(p) ==
    /\ \E batch \in (SUBSET Lockable(p)) \ {{}} :
        /\ \E order \in SetToSeqs({StateRow(TenantOf[j]) : j \in batch}) :
               Start(p, "promote", order)
        /\ held' = [held EXCEPT ![p] = {JobRow(j) : j \in batch}]
    /\ UNCHANGED locked

\* The overlap rows tried for a batch of candidates, up to one without a key.
Tries(batch) ==
    LET rows == {OverlapRow(j) : j \in Keyed(batch)} IN
    IF Keyed(batch) = batch THEN SetToSeqs(rows) ELSE SetToAllKPermutations(rows)

\* Mutant of Candidates: the query has no skip_locked.
CandidatesWaiting(p) ==
    /\ kind[p] = "dispatch"
    /\ todo[p] = <<>>
    /\ \E t \in Tenant : \E batch \in SUBSET {j \in Job \ locked : TenantOf[j] = t} :
        /\ StateRow(t) \in held[p]
        /\ \E order \in SetToSeqs({JobRow(j) : j \in batch}) :
               todo' = [todo EXCEPT ![p] = order]
    /\ kind' = [kind EXCEPT ![p] = "reserve"]
    /\ UNCHANGED <<held, locked>>
\* dispatch_next, with the tenant's state locked: the candidates are locked,
\* and those that name a key are tried in order, up to one that names none.
Candidates(p) ==
    /\ kind[p] = "dispatch"
    /\ todo[p] = <<>>
    /\ \E t \in Tenant : \E batch \in SUBSET {j \in Lockable(p) : TenantOf[j] = t} :
        /\ StateRow(t) \in held[p]
        /\ held' = [held EXCEPT ![p] = @ \cup {JobRow(j) : j \in batch}]
        /\ \E tried \in Tries(batch) : todo' = [todo EXCEPT ![p] = tried]
    /\ kind' = [kind EXCEPT ![p] = "reserve"]
    /\ UNCHANGED locked

-----------------------------------------------------------------------------
(* The steps of a transaction *)

\* Mutant of KeyTaken: only the candidate's own row is looked for.
KeyOwnOnly(p) == kind[p] = "reserve" /\ Head(todo[p])[2] \in locked
\* A committed row keeps the job at the head of p's requests from its key.
KeyTaken(p) ==
    /\ kind[p] = "reserve"
    /\ \E k \in locked : Clash(Head(todo[p]), OverlapRow(k))

\* The delete of a job's overlap rows finds none.
NothingToDelete(p) ==
    /\ kind[p] # "reserve"
    /\ Head(todo[p])[1] = "job_overlap_locks"
    /\ Head(todo[p])[2] \notin locked

\* The next lock is free and is taken; a dispatch that got its key is done.
Take(p) ==
    /\ todo[p] # <<>>
    /\ ~HeldByOther(p, Head(todo[p]))
    /\ ~KeyTaken(p) /\ ~NothingToDelete(p)
    /\ held' = [held EXCEPT ![p] = @ \cup {Head(todo[p])}]
    /\ todo' = [todo EXCEPT ![p] = IF kind[p] = "reserve" THEN <<>> ELSE Tail(@)]
    /\ UNCHANGED <<kind, locked>>

\* Mutant of TryNext: the dispatch waits until the key is free.
TrySame(p) ==
    /\ todo[p] # <<>>
    /\ NothingToDelete(p)
    /\ todo' = [todo EXCEPT ![p] = Tail(@)]
    /\ UNCHANGED <<kind, held, locked>>
\* acquire_overlap returns None and the loop continues; or there is no row.
TryNext(p) ==
    /\ todo[p] # <<>>
    /\ \/ KeyTaken(p) /\ ~HeldByOther(p, Head(todo[p]))
       \/ NothingToDelete(p)
    /\ todo' = [todo EXCEPT ![p] = Tail(@)]
    /\ UNCHANGED <<kind, held, locked>>

Leave(p) ==
    /\ kind' = [kind EXCEPT ![p] = "none"]
    /\ held' = [held EXCEPT ![p] = {}]
    /\ todo' = [todo EXCEPT ![p] = <<>>]

Overlaps(p) == {j \in Job : OverlapRow(j) \in held[p]}

Commit(p) ==
    /\ kind[p] \notin {"none", "dispatch"}
    /\ todo[p] = <<>>
    /\ locked' = IF kind[p] = "reserve" THEN locked \cup Overlaps(p) ELSE locked \ Overlaps(p)
    /\ Leave(p)

\* PostgreSQL's detector: some transaction of the cycle is rolled back.
Abort(p) ==
    /\ \E C \in Deadlocks : p \in C
    /\ Leave(p)
    /\ UNCHANGED locked

Begin(p) ==
    \/ \E j \in Job : BeginJob(p, j)
    \/ \E t \in Tenant : BeginDispatch(p, t)
    \/ BeginPromotion(p)

Proceed(p) ==
    \/ Candidates(p)
    \/ Take(p)
    \/ TryNext(p)
    \/ Commit(p)

Next == \E p \in Process : Begin(p) \/ Proceed(p) \/ Abort(p)

Spec == Init /\ [][Next]_vars

\* Processes go on; a free lock goes to those that wait for it in their order
\* of arrival; the detector looks at every wait that lasts.
Fairness == \A p \in Process :
    /\ SF_vars(Proceed(p))
    /\ WF_vars(Abort(p))

FairSpec == Spec /\ Fairness

-----------------------------------------------------------------------------

\* The only deadlocks: a dispatch that waits, with the tenant's state locked,
\* for the overlap row that another transaction of the tenant deletes before
\* it requests the state; and promotions that refresh two tenants crosswise.
DeadlocksAreKnown ==
    \A C \in Deadlocks :
        \/ /\ \E q \in C : kind[q] = "reserve"
           /\ \E q \in C : kind[q] \in {"report", "abandon", "recover"} /\ Overlaps(q) # {}
        \/ Cardinality({q \in C : kind[q] = "promote"}) >= 2

\* The report of a job that names no overlap key is never a detector's victim,
\* nor is its recovery, its cancellation or a replay.
KeylessNeverAborted ==
    \A C \in Deadlocks : \A p \in C :
        kind[p] \in {"report", "abandon", "recover", "replay"} => Overlaps(p) # {}

\* Every transaction ends, committed or rolled back: no wait outlasts the
\* detector, and no loop inside a transaction keeps what others wait for.
EveryTransactionEnds == \A p \in Process : kind[p] # "none" ~> kind[p] = "none"
=============================================================================
