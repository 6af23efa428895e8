---------------------------- MODULE IndexProofs ----------------------------
(***************************************************************************)
(* Proofs about has_ready_work, the flag by which dispatch_jobs finds      *)
(* tenants, whatever faults and races there are: what goes back to WAITING *)
(* is listed by the same transaction, and the ways in which a ready job    *)
(* comes to be hidden are the three that StrandsAreKnown names.            *)
(***************************************************************************)
EXTENDS JobLifecycleProofs

\* A job that holds a place in the queue was due when it was dispatched.
QueuedIsDue == \A j \in Job : status[j] = "QUEUED" => j \in due

\* Only a failed attempt moves available_at, and its job leaves the queue.
LEMMA QueuedDueStep == TypeOK /\ QueuedIsDue /\ [Next]_vars => QueuedIsDue'
<1> SUFFICES ASSUME TypeOK, QueuedIsDue, [Next]_vars PROVE QueuedIsDue'
  OBVIOUS
<1>1. ASSUME NEW j \in Job, NEW ft, Settle(j, ft) PROVE QueuedIsDue'
  BY <1>1 DEF Settle, QueuedIsDue, TypeOK
<1>2. ASSUME NEW j \in Job, ApiStep(j) PROVE QueuedIsDue'
  BY <1>2 DEF ApiStep, SubmitJob, RefreshQuery, RefreshSave, ApiCrash,
              CancelJob, CancelUndispatched, CancelQueued, CancelExecuting,
              ReplayDeadLetter, QueuedIsDue, TypeOK
<1>3. ASSUME NEW j \in Job,
             BecomeDue(j) \/ PublishEvent(j) \/ PublishUncommitted(j) \/ LoseMessage(j)
             \/ ClaimJob(j) \/ DropMessage(j) \/ FindOverdue(j)
      PROVE  QueuedIsDue'
  BY <1>3 DEF BecomeDue, PublishEvent, PublishUncommitted, LoseMessage, ClaimJob,
              DropMessage, FindOverdue, QueuedIsDue, TypeOK
<1>4. ASSUME NEW j \in Job, RecoverQueued(j) PROVE QueuedIsDue'
  BY <1>4 DEF RecoverQueued, RequeueJob, LeaveQueued, QueuedIsDue, TypeOK
<1>5. ASSUME NEW t \in Tenant, NEW j \in Job, DispatchJob(t, j) PROVE QueuedIsDue'
  BY <1>5 DEF DispatchJob, Ready, QueuedIsDue, TypeOK
<1>6. ASSUME NEW a \in Attempts, AttemptStep(a) PROVE QueuedIsDue'
  <2>1. a[1] \in Job
    BY AttemptPair
  <2>2. CASE CompleteJob(a)
    BY <2>1, <2>2 DEF CompleteJob, QueuedIsDue, TypeOK
  <2>3. CASE \E ft \in HandlerFailure : FailJob(a, ft)
    BY <1>1, <2>1, <2>3 DEF FailJob
  <2>4. CASE WorkerCrash(a) \/ FindExpired(a)
    BY <2>4 DEF WorkerCrash, FindExpired, QueuedIsDue
  <2>5. CASE ReconcileAttempt(a)
    BY <1>1, <2>1, <2>5 DEF ReconcileAttempt, AbandonAttempt, LeaveAttempt, QueuedIsDue
  <2> QED BY <1>6, <2>2, <2>3, <2>4, <2>5 DEF AttemptStep, HandlerEnds
<1>7. ASSUME NEW batch \in SUBSET Job, PromoteRetries(batch) PROVE QueuedIsDue'
  BY <1>7 DEF PromoteRetries, QueuedIsDue, TypeOK
<1>8. CASE UNCHANGED vars \/ \E t \in Tenant : PassTenant(t)
  BY <1>8 DEF vars, PassTenant, QueuedIsDue
<1> QED BY <1>2, <1>3, <1>4, <1>5, <1>6, <1>7, <1>8
        DEF Next, JobStep, TenantStep, DispatchTenant

\* The query of a refresh sees a job its own transaction has made ready.
LEMMA RefreshSees ==
    ASSUME TypeOK', NEW ts, Refresh(ts), NEW j \in Job, TenantOf[j] \in ts,
           status'[j] = "WAITING", j \in due'
    PROVE  hasReady'[TenantOf[j]] = TRUE
<1>1. TenantOf[j] \in Tenant
  BY AttributesAssumption
<1>2. j \in Ready(TenantOf[j])'
  BY DEF Ready
<1> QED BY <1>1, <1>2 DEF Refresh

\* Recovery and promotion are the only ways back to WAITING.
LEMMA ReturnedStep ==
    ASSUME TypeOK, TypeOK', QueuedIsDue, [Next]_vars,
           NEW j \in Job, status[j] \notin {NoRow, "WAITING"}, status'[j] = "WAITING"
    PROVE  hasReady'[TenantOf[j]] = TRUE
<1>1. ASSUME NEW k \in Job, ApiStep(k) PROVE FALSE
  BY <1>1 DEF ApiStep, SubmitJob, RefreshQuery, RefreshSave, ApiCrash,
              CancelJob, CancelUndispatched, CancelQueued, CancelExecuting,
              ReplayDeadLetter, TypeOK
<1>2. ASSUME NEW k \in Job,
             BecomeDue(k) \/ PublishEvent(k) \/ PublishUncommitted(k) \/ LoseMessage(k)
             \/ ClaimJob(k) \/ DropMessage(k) \/ FindOverdue(k)
      PROVE  FALSE
  BY <1>2 DEF BecomeDue, PublishEvent, PublishUncommitted, LoseMessage, ClaimJob,
              DropMessage, FindOverdue, TypeOK
<1>3. ASSUME NEW k \in Job, RecoverQueued(k) PROVE hasReady'[TenantOf[j]] = TRUE
  <2>1. RequeueJob(k) /\ k = j
    BY <1>3 DEF RecoverQueued, RequeueJob, LeaveQueued, TypeOK
  <2>2. j \in due' /\ Refresh({TenantOf[j]})
    BY <2>1 DEF RequeueJob, StillQueued, QueuedIsDue
  <2> QED BY <2>2, RefreshSees
<1>4. ASSUME NEW t \in Tenant, NEW k \in Job, DispatchJob(t, k) PROVE FALSE
  BY <1>4 DEF DispatchJob, TypeOK
<1>5. ASSUME NEW a \in Attempts, AttemptStep(a) PROVE FALSE
  <2>1. a[1] \in Job
    BY AttemptPair
  <2>2. ASSUME NEW ft, Settle(a[1], ft) PROVE FALSE
    BY <2>1, <2>2 DEF Settle, TypeOK
  <2> QED BY <1>5, <2>1, <2>2
          DEF AttemptStep, HandlerEnds, CompleteJob, FailJob, WorkerCrash, FindExpired,
              ReconcileAttempt, AbandonAttempt, LeaveAttempt, TypeOK
<1>6. ASSUME NEW batch \in SUBSET Job, PromoteRetries(batch)
      PROVE  hasReady'[TenantOf[j]] = TRUE
  <2>1. j \in batch /\ j \in due'
    BY <1>6 DEF PromoteRetries, TypeOK
  <2> QED BY <1>6, <2>1, RefreshSees DEF PromoteRetries
<1>7. CASE UNCHANGED vars \/ \E t \in Tenant : PassTenant(t)
  BY <1>7 DEF vars, PassTenant
<1> QED BY <1>1, <1>2, <1>3, <1>4, <1>5, <1>6, <1>7
        DEF Next, JobStep, TenantStep, DispatchTenant

\* A job that recovery or promotion returns to WAITING is listed by the same
\* transaction, whatever faults and races have come before.
THEOREM ReturnsAreListed == Spec => ReturnedIsListed
<1>1. Init => QueuedIsDue
  BY DEF Init, NoRow, QueuedIsDue
<1>2. SafeInv /\ QueuedIsDue /\ [Next]_vars => QueuedIsDue'
  BY QueuedDueStep DEF SafeInv
<1>3. SafeInv /\ SafeInv' /\ QueuedIsDue /\ [Next]_vars
      => [\A j \in Job : status[j] \notin {NoRow, "WAITING"} /\ status'[j] = "WAITING"
                            => hasReady'[TenantOf[j]]]_vars
  BY ReturnedStep DEF SafeInv
<1> QED BY <1>1, <1>2, <1>3, SafeCorrect, PTL DEF Spec, ReturnedIsListed

-----------------------------------------------------------------------------
(* How a ready job comes to be hidden from the scheduler *)

\* The three ways: its time comes and nobody looks, a request of its tenant
\* dies, a request saves an answer that is older than the job's readiness.
KnownWay(j) ==
    \/ status[j] = "WAITING" /\ j \notin due
    \/ \E k \in Job : /\ TenantOf[k] = TenantOf[j]
                      /\ \/ apiRequest[k] \in Unrefreshed /\ apiRequest'[k] = "died"
                         \/ apiRequest[k] = "saw_none" /\ apiRequest'[k] = "idle"

\* A step that makes no job ready, lists and unlists no tenant and leaves the
\* requests alone strands nobody.
LEMMA IndexUntouched ==
    ASSUME NEW j \in Job, j \in Stranded',
           status'[j] = "WAITING" => status[j] = "WAITING",
           j \in due' => j \in due,
           hasReady'[TenantOf[j]] = hasReady[TenantOf[j]],
           \A k \in Job : TenantOf[k] = TenantOf[j] => apiRequest'[k] = apiRequest[k]
    PROVE  j \in Stranded
BY DEF Stranded, Ready

\* A transaction that refreshes the tenant of a ready job lists it.
LEMMA RefreshedNotStranded ==
    ASSUME TypeOK', NEW ts, Refresh(ts), NEW j \in Job, TenantOf[j] \in ts
    PROVE  j \notin Stranded'
BY RefreshSees DEF Stranded, Ready

\* The steps of the API: only a refresh that runs beside others, or not at
\* all, hides a job.
LEMMA ApiStrands ==
    ASSUME TypeOK, TypeOK', NEW j \in Job, j \in Stranded', NEW i \in Job, ApiStep(i)
    PROVE  j \in Stranded \/ KnownWay(j)
<1>1. /\ TenantOf[j] \in Tenant
      /\ \A k \in Job : TenantOf[k] = TenantOf[j] => apiRequest'[k] \notin Unrefreshed
      /\ ~hasReady'[TenantOf[j]]
  BY AttributesAssumption DEF Stranded
<1>2. CASE SubmitJob(i) \/ RefreshQuery(i)
  <2>1. apiRequest'[i] \in Unrefreshed
    BY <1>2 DEF SubmitJob, RefreshQuery, Unrefreshed, TypeOK
  <2>2. TenantOf[i] # TenantOf[j]
    BY <1>1, <2>1
  <2> QED BY <1>2, <2>2, IndexUntouched DEF SubmitJob, RefreshQuery, TypeOK
<1>3. CASE RefreshSave(i)
  <2>1. CASE TenantOf[i] = TenantOf[j]
    <3>1. apiRequest[i] = "saw_none" /\ apiRequest'[i] = "idle"
      BY <1>1, <1>3, <2>1 DEF RefreshSave, TypeOK
    <3> QED BY <2>1, <3>1 DEF KnownWay
  <2>2. CASE TenantOf[i] # TenantOf[j]
    BY <1>1, <1>3, <2>2, IndexUntouched DEF RefreshSave, TypeOK
  <2> QED BY <2>1, <2>2
<1>4. CASE ApiCrash(i)
  <2>1. CASE TenantOf[i] = TenantOf[j]
    BY <1>4, <2>1 DEF ApiCrash, KnownWay, TypeOK
  <2>2. CASE TenantOf[i] # TenantOf[j]
    BY <1>4, <2>2, IndexUntouched DEF ApiCrash, TypeOK
  <2> QED BY <2>1, <2>2
<1>5. CASE CancelJob(i)
  BY <1>5, IndexUntouched
     DEF CancelJob, CancelUndispatched, CancelQueued, CancelExecuting, TypeOK
<1>6. CASE \E k \in Job : ReplayDeadLetter(i, k)
  <2>1. PICK k \in Job : ReplayDeadLetter(i, k)
    BY <1>6
  <2>2. TenantOf[k] # TenantOf[j]
    BY <2>1, RefreshedNotStranded DEF ReplayDeadLetter
  <2>3. hasReady'[TenantOf[j]] = hasReady[TenantOf[j]]
    BY <1>1, <2>1, <2>2 DEF ReplayDeadLetter, Refresh
  <2> QED BY <2>1, <2>2, <2>3, IndexUntouched DEF ReplayDeadLetter, TypeOK
<1> QED BY <1>2, <1>3, <1>4, <1>5, <1>6 DEF ApiStep

\* The steps of dispatch, execution and reconciliation: no settling of an
\* attempt makes a job ready.
LEMMA AttemptStrands ==
    ASSUME TypeOK, NEW j \in Job, j \in Stranded', NEW a \in Attempts, AttemptStep(a)
    PROVE  j \in Stranded
<1>1. a[1] \in Job
  BY AttemptPair
<1>2. ASSUME NEW ft, Settle(a[1], ft)
      PROVE  (status'[j] = "WAITING" => status[j] = "WAITING") /\ due' \subseteq due
  BY <1>1, <1>2 DEF Settle, TypeOK
<1>3. /\ status'[j] = "WAITING" => status[j] = "WAITING"
      /\ due' \subseteq due
      /\ UNCHANGED <<hasReady, apiRequest>>
  BY <1>1, <1>2
     DEF AttemptStep, HandlerEnds, CompleteJob, FailJob, WorkerCrash, FindExpired,
         ReconcileAttempt, AbandonAttempt, LeaveAttempt, TypeOK
<1> QED BY <1>3, IndexUntouched

LEMMA QueueStrands ==
    ASSUME TypeOK, TypeOK', NEW j \in Job, j \in Stranded',
           \/ \E i \in Job : FindOverdue(i) \/ RecoverQueued(i)
           \/ \E batch \in SUBSET Job : PromoteRetries(batch)
    PROVE  j \in Stranded
<1>1. TenantOf[j] \in Tenant
  BY AttributesAssumption
<1>2. ASSUME NEW i \in Job, FindOverdue(i)
      PROVE  j \in Stranded
  BY <1>2, IndexUntouched DEF FindOverdue
<1>3. ASSUME NEW i \in Job, RecoverQueued(i)
      PROVE  j \in Stranded
  <2>1. CASE RequeueJob(i)
    <3>1. TenantOf[i] # TenantOf[j]
      BY <2>1, RefreshedNotStranded DEF RequeueJob
    <3>2. hasReady'[TenantOf[j]] = hasReady[TenantOf[j]]
      BY <1>1, <2>1, <3>1 DEF RequeueJob, Refresh
    <3> QED BY <1>3, <2>1, <3>1, <3>2, IndexUntouched DEF RecoverQueued, RequeueJob, TypeOK
  <2>2. CASE LeaveQueued(i)
    BY <1>3, <2>2, IndexUntouched DEF RecoverQueued, LeaveQueued
  <2> QED BY <1>3, <2>1, <2>2 DEF RecoverQueued
<1>4. ASSUME NEW batch \in SUBSET Job, PromoteRetries(batch)
      PROVE  j \in Stranded
  <2>1. TenantOf[j] \notin {TenantOf[i] : i \in batch}
    BY <1>4, RefreshedNotStranded DEF PromoteRetries
  <2>2. hasReady'[TenantOf[j]] = hasReady[TenantOf[j]]
    BY <1>1, <1>4, <2>1 DEF PromoteRetries, Refresh
  <2>3. j \notin batch
    BY <2>1
  <2> QED BY <1>4, <2>2, <2>3, IndexUntouched DEF PromoteRetries, TypeOK
<1> QED BY <1>2, <1>3, <1>4

LEMMA StrandsStep ==
    ASSUME TypeOK, TypeOK', [Next]_vars, NEW j \in Job, j \notin Stranded, j \in Stranded'
    PROVE  KnownWay(j)
<1>1. CASE \E i \in Job : BecomeDue(i)
  <2>1. PICK i \in Job : BecomeDue(i)
    BY <1>1
  <2>2. CASE i = j
    BY <2>1, <2>2 DEF BecomeDue, Stranded, Ready, KnownWay
  <2>3. CASE i # j
    BY <2>1, <2>3, IndexUntouched DEF BecomeDue
  <2> QED BY <2>2, <2>3
<1>2. CASE \E i \in Job :
             \/ PublishEvent(i) \/ PublishUncommitted(i) \/ LoseMessage(i)
             \/ ClaimJob(i) \/ DropMessage(i)
  BY <1>2, IndexUntouched
     DEF PublishEvent, PublishUncommitted, LoseMessage, ClaimJob, DropMessage, TypeOK
<1>3. CASE \E t \in Tenant : TenantStep(t)
  BY <1>3, IndexUntouched
     DEF TenantStep, DispatchTenant, DispatchJob, PassTenant, TypeOK
<1>4. CASE UNCHANGED vars
  BY <1>4, IndexUntouched DEF vars
<1> QED BY <1>1, <1>2, <1>3, <1>4, ApiStrands, AttemptStrands, QueueStrands
        DEF Next, JobStep

\* Through every race of submissions, dispatches, reports, recoveries and
\* promotions, a ready job is hidden only by its own delay, by a request that
\* dies, or by the save of an older answer.
THEOREM StrandsKnown == Spec => StrandsAreKnown
<1>1. SafeInv /\ SafeInv' /\ [Next]_vars
      => [\A j \in Job : j \notin Stranded /\ j \in Stranded' =>
            \/ status[j] = "WAITING" /\ j \notin due
            \/ \E k \in Job : /\ TenantOf[k] = TenantOf[j]
                              /\ \/ apiRequest[k] \in Unrefreshed /\ apiRequest'[k] = "died"
                                 \/ apiRequest[k] = "saw_none" /\ apiRequest'[k] = "idle"]_vars
  BY StrandsStep DEF SafeInv, KnownWay
<1> QED BY <1>1, SafeCorrect, PTL DEF Spec, StrandsAreKnown
=============================================================================
