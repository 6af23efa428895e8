------------------------- MODULE JobLifecycleProofs -------------------------
(***************************************************************************)
(* Machine-checked proofs about JobLifecycle, for every finite set of      *)
(* jobs, every set of tenants, every limit and every length of the retry   *)
(* table.                                                                  *)
(*   SafeCorrect    []SafeInv whatever faults occur                        *)
(*   TimelyCorrect  []TimelyInv when leases of living workers do not lapse *)
(*                  and complete_job's outcome is known                    *)
(***************************************************************************)
EXTENDS JobLifecycle, FiniteSetTheorems, TLAPS

USE DEF NoRow

-----------------------------------------------------------------------------
(* Counting slots *)

\* The jobs of R that belong to tenant t.
Share(R, t) == {k \in R : TenantOf[k] = t}

\* Adding a job to a set of jobs adds it to its own tenant's share only.
LEMMA SlotAdded ==
    ASSUME NEW R \in SUBSET Job, NEW j \in Job \ R, NEW t
    PROVE  /\ Cardinality(Share(R, t)) \in Nat
           /\ Cardinality(Share(R \cup {j}, t)) =
                IF TenantOf[j] = t THEN Cardinality(Share(R, t)) + 1
                                   ELSE Cardinality(Share(R, t))
<1>1. IsFiniteSet(Share(R, t)) /\ Cardinality(Share(R, t)) \in Nat
  <2>1. Share(R, t) \subseteq Job
    BY DEF Share
  <2> QED BY <2>1, JobAssumption, FS_Subset, FS_CardinalityType
<1>2. CASE TenantOf[j] = t
  <2>1. Share(R \cup {j}, t) = Share(R, t) \cup {j} /\ j \notin Share(R, t)
    BY <1>2 DEF Share
  <2> QED BY <1>1, <1>2, <2>1, FS_AddElement
<1>3. CASE TenantOf[j] # t
  <2>1. Share(R \cup {j}, t) = Share(R, t)
    BY <1>3 DEF Share
  <2> QED BY <1>1, <1>3, <2>1
<1> QED BY <1>1, <1>2, <1>3

\* Removing a job from a set of jobs removes it from its own tenant's share.
LEMMA SlotRemoved ==
    ASSUME NEW R \in SUBSET Job, NEW j \in Job, NEW t
    PROVE  /\ Cardinality(Share(R, t)) \in Nat
           /\ Cardinality(Share(R \ {j}, t)) =
                IF j \in R /\ TenantOf[j] = t THEN Cardinality(Share(R, t)) - 1
                                              ELSE Cardinality(Share(R, t))
           /\ j \in R /\ TenantOf[j] = t => Cardinality(Share(R, t)) > 0
<1>1. IsFiniteSet(Share(R, t)) /\ Cardinality(Share(R, t)) \in Nat
  <2>1. Share(R, t) \subseteq Job
    BY DEF Share
  <2> QED BY <2>1, JobAssumption, FS_Subset, FS_CardinalityType
<1>2. CASE j \in R /\ TenantOf[j] = t
  <2>1. Share(R \ {j}, t) = Share(R, t) \ {j} /\ j \in Share(R, t)
    BY <1>2 DEF Share
  <2>2. Cardinality(Share(R, t)) > 0
    BY <1>1, <2>1, FS_EmptySet
  <2>3. Cardinality(Share(R, t) \ {j}) = Cardinality(Share(R, t)) - 1
    BY <1>1, <2>1, FS_RemoveElement
  <2> QED BY <1>1, <1>2, <2>1, <2>2, <2>3
<1>3. CASE ~(j \in R /\ TenantOf[j] = t)
  <2>1. Share(R \ {j}, t) = Share(R, t)
    BY <1>3 DEF Share
  <2> QED BY <1>1, <1>3, <2>1
<1> QED BY <1>1, <1>2, <1>3

-----------------------------------------------------------------------------
(* Types *)

LEMMA InitType == Init => TypeOK
BY AttributesAssumption, LimitsAssumption
   DEF Init, TypeOK, ApiProgress, Attempts, MaxAttempts, JobStatus, AttemptStatus, DeadLetterStatus

\* Releasing capacity keeps the types of what it writes.
LEMMA ReleaseType ==
    ASSUME TypeOK, NEW j \in Job, ReleaseCapacity(j)
    PROVE  reserved' \subseteq Job /\ locked' \subseteq Job /\ active' \in [Tenant -> Nat]
BY AttributesAssumption DEF TypeOK, ReleaseCapacity

LEMMA SettleType ==
    ASSUME TypeOK, NEW j \in Job, NEW ft, Settle(j, ft)
    PROVE  /\ status' \in [Job -> JobStatus \cup {NoRow}]
           /\ due' \subseteq Job
           /\ deadLetter' \in [Job -> DeadLetterStatus \cup {NoRow}]
           /\ reserved' \subseteq Job /\ locked' \subseteq Job
           /\ active' \in [Tenant -> Nat]
<1>1. reserved' \subseteq Job /\ locked' \subseteq Job /\ active' \in [Tenant -> Nat]
  BY ReleaseType DEF Settle
<1> QED BY <1>1 DEF Settle, TypeOK, JobStatus, DeadLetterStatus

LEMMA RefreshType ==
    ASSUME TypeOK, NEW ts, Refresh(ts)
    PROVE  hasReady' \in [Tenant -> BOOLEAN]
BY DEF TypeOK, Refresh

\* The steps of an API request and of the clock.
LEMMA ApiType ==
    ASSUME TypeOK, NEW j \in Job, ApiStep(j) \/ BecomeDue(j)
    PROVE  TypeOK'
<1>1. CASE SubmitJob(j)
  BY <1>1 DEF SubmitJob, TypeOK, ApiProgress, Unrefreshed, JobStatus
<1>2. CASE RefreshQuery(j)
  BY <1>2 DEF RefreshQuery, TypeOK, ApiProgress, Unrefreshed
<1>3. CASE RefreshSave(j)
  <2>1. hasReady' \in [Tenant -> BOOLEAN]
    BY <1>3 DEF RefreshSave, TypeOK
  <2>2. listed' \subseteq Tenant
    BY <1>3, AttributesAssumption DEF RefreshSave, TypeOK
  <2> QED BY <1>3, <2>1, <2>2 DEF RefreshSave, TypeOK, ApiProgress
<1>4. CASE ApiCrash(j)
  BY <1>4 DEF ApiCrash, TypeOK, ApiProgress
<1>5. CASE CancelJob(j)
  <2>1. status' \in [Job -> JobStatus \cup {NoRow}]
    BY <1>5 DEF CancelJob, CancelUndispatched, CancelQueued, CancelExecuting, TypeOK, JobStatus
  <2>2. reserved' \subseteq Job /\ locked' \subseteq Job /\ active' \in [Tenant -> Nat]
    BY <1>5, ReleaseType
       DEF CancelJob, CancelUndispatched, CancelQueued, CancelExecuting, TypeOK
  <2> QED BY <1>5, <2>1, <2>2 DEF CancelJob, TypeOK
<1>6. CASE \E k \in Job : ReplayDeadLetter(j, k)
  <2>1. PICK k \in Job : ReplayDeadLetter(j, k)
    BY <1>6
  <2>2. hasReady' \in [Tenant -> BOOLEAN]
    BY <2>1, RefreshType DEF ReplayDeadLetter
  <2> QED BY <2>1, <2>2 DEF ReplayDeadLetter, TypeOK, JobStatus, DeadLetterStatus
<1>7. CASE BecomeDue(j)
  BY <1>7 DEF BecomeDue, TypeOK
<1> QED BY <1>1, <1>2, <1>3, <1>4, <1>5, <1>6, <1>7 DEF ApiStep

\* A queued job has an attempt number left.
LEMMA NextAttempt ==
    ASSUME TypeOK, RetryBudget, NEW j \in Job, status[j] = "QUEUED"
    PROVE  /\ attemptCount[j] + 1 \in 1 .. MaxAttempts
           /\ <<j, attemptCount[j] + 1>> \in Attempts
BY LimitsAssumption DEF TypeOK, RetryBudget, Attempts, MaxAttempts

\* The steps of the dispatcher, the outbox and the broker.
LEMMA DeliveryType ==
    ASSUME TypeOK, RetryBudget, NEW j \in Job,
           \/ \E t \in Tenant : DispatchJob(t, j)
           \/ PublishEvent(j) \/ PublishUncommitted(j) \/ LoseMessage(j)
           \/ ClaimJob(j) \/ DropMessage(j)
    PROVE  TypeOK'
<1>1. CASE \E t \in Tenant : DispatchJob(t, j)
  BY <1>1 DEF DispatchJob, TypeOK, JobStatus
<1>2. CASE PublishEvent(j)
  BY <1>2 DEF PublishEvent, TypeOK
<1>3. CASE PublishUncommitted(j)
  BY <1>3 DEF PublishUncommitted, TypeOK
<1>4. CASE LoseMessage(j)
  BY <1>4 DEF LoseMessage, TypeOK
<1>5. CASE ClaimJob(j)
  <2> DEFINE n == attemptCount[j] + 1
  <2>1. n \in 1 .. MaxAttempts /\ <<j, n>> \in Attempts
    BY <1>5, NextAttempt DEF ClaimJob, Claimable
  <2>2. attemptCount' \in [Job -> 0 .. MaxAttempts]
    BY <1>5, <2>1 DEF ClaimJob, CountAttempt, TypeOK
  <2>3. live' \subseteq Attempts /\ attempt' \in [Attempts -> AttemptStatus \cup {NoRow}]
    BY <1>5, <2>1 DEF ClaimJob, TypeOK, AttemptStatus
  <2> QED BY <1>5, <2>2, <2>3 DEF ClaimJob, TypeOK, JobStatus
<1>6. CASE DropMessage(j)
  BY <1>6 DEF DropMessage, TypeOK
<1> QED BY <1>1, <1>2, <1>3, <1>4, <1>5, <1>6

\* The first component of an attempt is a job, the second its number.
LEMMA AttemptPair ==
    ASSUME NEW a \in Attempts
    PROVE  a[1] \in Job /\ a[2] \in 1 .. MaxAttempts /\ a = <<a[1], a[2]>>
BY DEF Attempts

\* The steps of a handler's end and of the reaper.
LEMMA AttemptType ==
    ASSUME TypeOK, NEW a \in Attempts, AttemptStep(a)
    PROVE  TypeOK'
<1>1. CASE CompleteJob(a)
  BY <1>1, AttemptPair, ReleaseType DEF CompleteJob, TypeOK, JobStatus, AttemptStatus
<1>2. CASE \E ft \in HandlerFailure : FailJob(a, ft)
  BY <1>2, AttemptPair, SettleType DEF FailJob, TypeOK, AttemptStatus
<1>3. CASE WorkerCrash(a)
  BY <1>3, AttemptPair DEF WorkerCrash, TypeOK
<1>4. CASE FindExpired(a)
  BY <1>4 DEF FindExpired, TypeOK
<1>5. CASE ReconcileAttempt(a)
  <2>1. CASE AbandonAttempt(a)
    BY <1>5, <2>1, AttemptPair, SettleType
       DEF ReconcileAttempt, AbandonAttempt, TypeOK, AttemptStatus
  <2>2. CASE LeaveAttempt(a)
    BY <1>5, <2>2 DEF ReconcileAttempt, LeaveAttempt, TypeOK
  <2> QED BY <1>5, <2>1, <2>2 DEF ReconcileAttempt
<1> QED BY <1>1, <1>2, <1>3, <1>4, <1>5 DEF AttemptStep, HandlerEnds

\* The steps of the recovery of queued jobs and of the promotion of retries.
LEMMA QueueType ==
    ASSUME TypeOK,
           \/ \E j \in Job : FindOverdue(j) \/ RecoverQueued(j)
           \/ \E batch \in SUBSET Job : PromoteRetries(batch)
    PROVE  TypeOK'
<1>1. ASSUME NEW j \in Job, FindOverdue(j)
      PROVE  TypeOK'
  BY <1>1 DEF FindOverdue, TypeOK
<1>2. ASSUME NEW j \in Job, RecoverQueued(j)
      PROVE  TypeOK'
  <2>1. CASE RequeueJob(j)
    <3>1. hasReady' \in [Tenant -> BOOLEAN]
      BY <2>1, RefreshType DEF RequeueJob
    <3> QED BY <1>2, <2>1, <3>1, ReleaseType DEF RecoverQueued, RequeueJob, TypeOK, JobStatus
  <2>2. CASE LeaveQueued(j)
    BY <1>2, <2>2 DEF RecoverQueued, LeaveQueued, TypeOK
  <2> QED BY <1>2, <2>1, <2>2 DEF RecoverQueued
<1>3. ASSUME NEW batch \in SUBSET Job, PromoteRetries(batch)
      PROVE  TypeOK'
  <2>1. hasReady' \in [Tenant -> BOOLEAN]
    BY <1>3, RefreshType DEF PromoteRetries
  <2> QED BY <1>3, <2>1 DEF PromoteRetries, TypeOK, JobStatus
<1> QED BY <1>1, <1>2, <1>3

LEMMA TypeStep == TypeOK /\ RetryBudget /\ [Next]_vars => TypeOK'
<1> SUFFICES ASSUME TypeOK, RetryBudget, [Next]_vars
             PROVE  TypeOK'
  OBVIOUS
<1>1. CASE UNCHANGED vars
  BY <1>1 DEF vars, TypeOK
<1>2. CASE \E t \in Tenant : PassTenant(t)
  BY <1>2 DEF PassTenant, TypeOK
<1>3. CASE Next
  BY <1>2, <1>3, ApiType, DeliveryType, AttemptType, QueueType
     DEF Next, JobStep, TenantStep, DispatchTenant
<1> QED BY <1>1, <1>3

-----------------------------------------------------------------------------
(* Slots, locks, attempts and dead letters, whatever faults occur *)

\* The slot counter and the tables of slots and locks.
Slots == SlotsMatchStatus /\ LocksMatchSlots /\ NoSlotLeak /\ LimitRespected

\* The history of jobs and attempts.
History == RetryBudget /\ AttemptsNumbered /\ FailedIsDeadLettered /\ NothingUnstarted

\* Jobs change status, none into or out of a slot, and slots stay as they are.
LEMMA SlotsKept ==
    ASSUME TypeOK, Slots, TypeOK', UNCHANGED <<reserved, locked, active>>,
           \A j \in Job : status'[j] \in Slotted <=> status[j] \in Slotted
    PROVE  Slots'
BY DEF Slots, SlotsMatchStatus, LocksMatchSlots, NoSlotLeak, LimitRespected, SlotsOf,
       TypeOK, SameResource

\* A job leaves its slot, or had none: its reservation, lock and count go.
LEMMA SlotsReleased ==
    ASSUME TypeOK, Slots, TypeOK', NEW j \in Job, ReleaseCapacity(j),
           NEW s \in JobStatus \ Slotted, status' = [status EXCEPT ![j] = s]
    PROVE  Slots'
<1>1. SlotsMatchStatus'
  BY DEF Slots, SlotsMatchStatus, ReleaseCapacity, TypeOK
<1>2. LocksMatchSlots'
  BY DEF Slots, LocksMatchSlots, ReleaseCapacity, SameResource
<1>3. ASSUME NEW t \in Tenant
      PROVE  active'[t] <= Cardinality(SlotsOf(t)') /\ active'[t] <= active[t]
  <2>1. active[t] \in Nat /\ active[t] <= Cardinality(SlotsOf(t))
    BY DEF Slots, NoSlotLeak, TypeOK
  <2>2. active'[t] = IF TenantOf[j] = t /\ active[t] > 0 THEN active[t] - 1 ELSE active[t]
    BY DEF ReleaseCapacity, TypeOK
  <2>3. /\ Cardinality(SlotsOf(t)) \in Nat
        /\ Cardinality(SlotsOf(t)') = IF j \in reserved /\ TenantOf[j] = t
                                        THEN Cardinality(SlotsOf(t)) - 1
                                        ELSE Cardinality(SlotsOf(t))
        /\ j \in reserved /\ TenantOf[j] = t => Cardinality(SlotsOf(t)) > 0
    <3>1. SlotsOf(t) = Share(reserved, t) /\ SlotsOf(t)' = Share(reserved \ {j}, t)
      BY DEF SlotsOf, Share, ReleaseCapacity
    <3>2. reserved \in SUBSET Job
      BY DEF TypeOK
    <3> QED BY <3>1, <3>2, SlotRemoved
  <2> QED BY <2>1, <2>2, <2>3
<1>4. NoSlotLeak'
  BY <1>3 DEF NoSlotLeak
<1>5. LimitRespected'
  BY <1>3, LimitsAssumption DEF Slots, LimitRespected, TypeOK
<1> QED BY <1>1, <1>2, <1>4, <1>5 DEF Slots

\* A waiting job gets a slot, a lock and a count.
LEMMA SlotsReserved ==
    ASSUME TypeOK, Slots, TypeOK', NEW t \in Tenant, NEW j \in Job, DispatchJob(t, j)
    PROVE  Slots'
<1>1. TenantOf[j] = t /\ status[j] = "WAITING" /\ j \notin reserved
  BY DEF DispatchJob, Ready, Slots, SlotsMatchStatus, Slotted
<1>2. SlotsMatchStatus'
  BY DEF Slots, SlotsMatchStatus, DispatchJob, TypeOK, Slotted
<1>3. LocksMatchSlots'
  <2>1. \A k \in locked : ~SameResource(j, k) /\ ~SameResource(k, j)
    BY DEF DispatchJob, LockFree, SameResource
  <2>2. locked' = {k \in reserved' : KeyOf[k] # NoKey}
    BY DEF DispatchJob, Slots, LocksMatchSlots
  <2>3. locked' \subseteq locked \cup {j}
    BY DEF DispatchJob
  <2>4. ASSUME NEW k \in locked', NEW l \in locked', k # l
        PROVE  ~SameResource(k, l)
    BY <2>1, <2>3, <2>4 DEF Slots, LocksMatchSlots
  <2> QED BY <2>2, <2>4 DEF LocksMatchSlots, SameResource
<1>4. ASSUME NEW u \in Tenant
      PROVE  active'[u] <= Cardinality(SlotsOf(u)') /\ active'[u] <= MaxConcurrent[u]
  <2>1. /\ active[u] \in Nat /\ active[u] <= Cardinality(SlotsOf(u))
        /\ active[u] <= MaxConcurrent[u]
        /\ u = t => active[u] < MaxConcurrent[u]
    BY DEF Slots, NoSlotLeak, LimitRespected, TypeOK, DispatchJob, HasCapacity
  <2>2. active'[u] = IF u = t THEN active[u] + 1 ELSE active[u]
    BY DEF DispatchJob, TypeOK
  <2>3. /\ Cardinality(SlotsOf(u)) \in Nat
        /\ Cardinality(SlotsOf(u)') = IF u = t THEN Cardinality(SlotsOf(u)) + 1
                                               ELSE Cardinality(SlotsOf(u))
    <3>1. SlotsOf(u) = Share(reserved, u) /\ SlotsOf(u)' = Share(reserved \cup {j}, u)
      BY DEF SlotsOf, Share, DispatchJob
    <3> QED BY <1>1, <3>1, SlotAdded DEF TypeOK
  <2> QED BY <2>1, <2>2, <2>3, LimitsAssumption
<1> QED BY <1>2, <1>3, <1>4 DEF Slots, NoSlotLeak, LimitRespected

LEMMA HistoryKept ==
    ASSUME TypeOK, History, TypeOK',
           UNCHANGED <<status, attemptCount, attempt, deadLetter>>,
           \A a \in (live' \cup suspect') \ (live \cup suspect) : attempt[a] # NoRow
    PROVE  History'
BY DEF History, RetryBudget, AttemptsNumbered, FailedIsDeadLettered, NothingUnstarted

\* A job that has a row moves to a status that asks for no retry budget and
\* no dead letter.
LEMMA HistoryMoved ==
    ASSUME TypeOK, History, NEW j \in Job, status[j] # NoRow,
           NEW s \in JobStatus \ {"WAITING", "QUEUED", "RETRY_WAIT", "FAILED_FINAL"},
           status' = [status EXCEPT ![j] = s],
           UNCHANGED <<attemptCount, deadLetter>>
    PROVE  RetryBudget' /\ FailedIsDeadLettered'
           /\ \A k \in Job : status'[k] = NoRow => attemptCount'[k] = 0 /\ deadLetter'[k] = NoRow
BY DEF TypeOK, History, RetryBudget, FailedIsDeadLettered, NothingUnstarted, JobStatus

\* A started attempt is settled; which attempts have a row stays the same.
LEMMA AttemptSettled ==
    ASSUME TypeOK, History, NEW a \in Attempts, attempt[a] # NoRow,
           NEW s \in AttemptStatus, attempt' = [attempt EXCEPT ![a] = s],
           UNCHANGED attemptCount, live' \subseteq live, suspect' \subseteq suspect
    PROVE  /\ AttemptsNumbered'
           /\ \A b \in live' \cup suspect' : attempt'[b] # NoRow
           /\ attemptCount[a[1]] # 0 /\ status[a[1]] # NoRow
<1>1. a[1] \in Job /\ a[2] \in 1 .. MaxAttempts
  BY AttemptPair
<1>2. attemptCount[a[1]] # 0
  BY <1>1 DEF History, AttemptsNumbered
<1> QED BY <1>1, <1>2
        DEF TypeOK, History, AttemptsNumbered, NothingUnstarted, AttemptStatus

\* SafeInv is the conjunction of the three groups.
LEMMA SafeParts ==
    /\ SafeInv <=> TypeOK /\ Slots /\ History
    /\ SafeInv' <=> TypeOK' /\ Slots' /\ History'
BY DEF SafeInv, Slots, History

\* The steps that change none of the tables of jobs, attempts and slots.
LEMMA FrameSafe ==
    ASSUME SafeInv, TypeOK',
           UNCHANGED <<status, attemptCount, attempt, deadLetter, reserved, locked, active>>,
           \A a \in (live' \cup suspect') \ (live \cup suspect) : attempt[a] # NoRow
    PROVE  SafeInv'
BY SafeParts, SlotsKept, HistoryKept DEF SafeInv

LEMMA ApiSafe ==
    ASSUME SafeInv, TypeOK', NEW j \in Job, ApiStep(j) \/ BecomeDue(j)
    PROVE  SafeInv'
<1> USE SafeParts
<1>1. CASE SubmitJob(j)
  <2>1. Slots'
    BY <1>1, SlotsKept DEF SubmitJob, Slotted, TypeOK
  <2>2. History'
    BY <1>1, LimitsAssumption
       DEF SubmitJob, History, RetryBudget, AttemptsNumbered, FailedIsDeadLettered,
           NothingUnstarted, TypeOK
  <2> QED BY <2>1, <2>2
<1>2. CASE RefreshQuery(j) \/ RefreshSave(j) \/ ApiCrash(j)
           \/ BecomeDue(j)
  BY <1>2, FrameSafe
     DEF RefreshQuery, RefreshSave, ApiCrash, BecomeDue
<1>3. CASE CancelJob(j)
  <2>1. status[j] # NoRow
    BY <1>3 DEF CancelJob, CancelUndispatched, CancelQueued, CancelExecuting
  <2>2. PICK s \in {"CANCELLED", "CANCEL_REQUESTED"} : status' = [status EXCEPT ![j] = s]
    BY <1>3 DEF CancelJob, CancelUndispatched, CancelQueued, CancelExecuting
  <2>3. History'
    BY <1>3, <2>1, <2>2, HistoryMoved
       DEF CancelJob, History, AttemptsNumbered, NothingUnstarted, JobStatus
  <2>4. Slots'
    <3>1. CASE CancelUndispatched(j) \/ CancelExecuting(j)
      BY <3>1, SlotsKept DEF CancelUndispatched, CancelExecuting, Slotted, TypeOK
    <3>2. CASE CancelQueued(j)
      BY <3>2, SlotsReleased DEF CancelQueued, Slotted, JobStatus
    <3> QED BY <1>3, <3>1, <3>2 DEF CancelJob
  <2> QED BY <2>3, <2>4
<1>4. CASE \E k \in Job : ReplayDeadLetter(j, k)
  <2>1. PICK k \in Job : ReplayDeadLetter(j, k)
    BY <1>4
  <2>2. Slots'
    BY <2>1, SlotsKept DEF ReplayDeadLetter, Slotted, TypeOK
  <2>3. status[j] # NoRow /\ attemptCount[k] = 0 /\ k # j
    BY <2>1 DEF ReplayDeadLetter, History, NothingUnstarted
  <2>4. History'
    <3>1. RetryBudget' /\ AttemptsNumbered'
      BY <2>1, <2>3, LimitsAssumption
         DEF ReplayDeadLetter, History, RetryBudget, AttemptsNumbered, TypeOK
    <3>2. FailedIsDeadLettered'
      BY <2>1, <2>3 DEF ReplayDeadLetter, History, FailedIsDeadLettered, TypeOK
    <3>3. NothingUnstarted'
      BY <2>1, <2>3 DEF ReplayDeadLetter, History, NothingUnstarted, TypeOK
    <3> QED BY <3>1, <3>2, <3>3 DEF History
  <2> QED BY <2>2, <2>4
<1> QED BY <1>1, <1>2, <1>3, <1>4 DEF ApiStep

LEMMA DeliverySafe ==
    ASSUME SafeInv, TypeOK', NEW j \in Job,
           \/ \E t \in Tenant : DispatchJob(t, j)
           \/ PublishEvent(j) \/ PublishUncommitted(j) \/ LoseMessage(j)
           \/ ClaimJob(j) \/ DropMessage(j)
    PROVE  SafeInv'
<1> USE SafeParts
<1>1. CASE \E t \in Tenant : DispatchJob(t, j)
  <2>1. PICK t \in Tenant : DispatchJob(t, j)
    BY <1>1
  <2>2. Slots'
    BY <2>1, SlotsReserved
  <2>3. History'
    BY <2>1 DEF DispatchJob, Ready, History, RetryBudget, AttemptsNumbered,
                FailedIsDeadLettered, NothingUnstarted, TypeOK
  <2> QED BY <2>2, <2>3
<1>2. CASE PublishEvent(j) \/ PublishUncommitted(j) \/ LoseMessage(j) \/ DropMessage(j)
  BY <1>2, FrameSafe DEF PublishEvent, PublishUncommitted, LoseMessage, DropMessage
<1>3. CASE ClaimJob(j)
  <2> DEFINE n == attemptCount[j] + 1
  <2>1. n \in 1 .. MaxAttempts /\ <<j, n>> \in Attempts /\ status[j] = "QUEUED"
    BY <1>3, NextAttempt DEF ClaimJob, Claimable, SafeInv
  <2>2. Slots'
    BY <1>3, <2>1, SlotsKept DEF ClaimJob, Slotted, TypeOK
  <2>3. RetryBudget' /\ FailedIsDeadLettered'
    BY <1>3 DEF ClaimJob, CountAttempt, History, RetryBudget, FailedIsDeadLettered, TypeOK
  <2>4. AttemptsNumbered'
    <3> SUFFICES ASSUME NEW a \in Attempts
                 PROVE  attempt'[a] # NoRow <=> a[2] <= attemptCount'[a[1]]
      BY DEF AttemptsNumbered
    <3>1. /\ a[1] \in Job /\ a[2] \in 1 .. MaxAttempts /\ a = <<a[1], a[2]>>
          /\ attempt[a] # NoRow <=> a[2] <= attemptCount[a[1]]
          /\ attemptCount[a[1]] \in Nat
      BY AttemptPair DEF History, AttemptsNumbered, TypeOK
    <3>2. CASE a = <<j, n>>
      BY <1>3, <2>1, <3>1, <3>2 DEF ClaimJob, CountAttempt, TypeOK
    <3>3. CASE a # <<j, n>>
      <4>1. attempt'[a] = attempt[a]
        BY <1>3, <3>3 DEF ClaimJob, TypeOK
      <4>2. CASE a[1] = j
        <5>1. a[2] # n
          BY <3>1, <3>3, <4>2
        <5>2. attemptCount'[j] = n /\ attemptCount[j] \in Nat
          BY <1>3 DEF ClaimJob, CountAttempt, TypeOK
        <5> QED BY <3>1, <4>1, <4>2, <5>1, <5>2
      <4>3. CASE a[1] # j
        BY <1>3, <3>1, <4>1, <4>3 DEF ClaimJob, CountAttempt, TypeOK
      <4> QED BY <4>2, <4>3
    <3> QED BY <3>2, <3>3
  <2>5. NothingUnstarted'
    BY <1>3, <2>1 DEF ClaimJob, CountAttempt, History, NothingUnstarted, TypeOK
  <2> QED BY <2>2, <2>3, <2>4, <2>5 DEF History
<1> QED BY <1>1, <1>2, <1>3

\* What becomes of slots and history when a started attempt is settled as a
\* failure, whatever status its job has by now.
LEMMA SettleSafe ==
    ASSUME SafeInv, TypeOK', NEW a \in Attempts, attempt[a] # NoRow, NEW ft,
           NEW s \in AttemptStatus, attempt' = [attempt EXCEPT ![a] = s],
           Settle(a[1], ft), UNCHANGED attemptCount,
           live' \subseteq live, suspect' \subseteq suspect
    PROVE  SafeInv'
<1> USE SafeParts
<1>1. a[1] \in Job
  BY AttemptPair
<1>2. /\ AttemptsNumbered'
      /\ \A b \in live' \cup suspect' : attempt'[b] # NoRow
      /\ status[a[1]] # NoRow
  BY AttemptSettled
<1>3. CASE CanRetry(a[1], ft)
  <2>1. Slots'
    BY <1>1, <1>3, SlotsReleased DEF Settle, Slotted, JobStatus
  <2>2. attemptCount[a[1]] <= MaxRetries
    BY <1>3, LimitsAssumption DEF CanRetry
  <2>3. RetryBudget' /\ FailedIsDeadLettered' /\ NothingUnstarted'
    BY <1>1, <1>2, <1>3, <2>2
       DEF Settle, History, RetryBudget, FailedIsDeadLettered, NothingUnstarted, TypeOK
  <2> QED BY <1>2, <2>1, <2>3 DEF History
<1>4. CASE ~CanRetry(a[1], ft)
  <2>1. Slots'
    BY <1>1, <1>4, SlotsReleased DEF Settle, Slotted, JobStatus
  <2>2. RetryBudget' /\ FailedIsDeadLettered' /\ NothingUnstarted'
    BY <1>1, <1>2, <1>4
       DEF Settle, History, RetryBudget, FailedIsDeadLettered, NothingUnstarted, TypeOK
  <2> QED BY <1>2, <2>1, <2>2 DEF History
<1> QED BY <1>3, <1>4

LEMMA AttemptSafe ==
    ASSUME SafeInv, TypeOK', NEW a \in Attempts, AttemptStep(a)
    PROVE  SafeInv'
<1> USE SafeParts
<1>1. a[1] \in Job
  BY AttemptPair
<1>2. \A b \in live \cup suspect : attempt[b] # NoRow
  BY DEF History, NothingUnstarted
<1>3. CASE CompleteJob(a)
  <2>1. /\ attempt[a] # NoRow /\ live' \subseteq live /\ suspect' \subseteq suspect
        /\ "SUCCEEDED" \in AttemptStatus
        /\ "SUCCEEDED" \in JobStatus \ {"WAITING", "QUEUED", "RETRY_WAIT", "FAILED_FINAL"}
        /\ "SUCCEEDED" \in JobStatus \ Slotted
    BY <1>2, <1>3 DEF CompleteJob, AttemptStatus, JobStatus, Slotted
  <2>2. /\ AttemptsNumbered'
        /\ \A b \in live' \cup suspect' : attempt'[b] # NoRow
        /\ status[a[1]] # NoRow
    BY <1>3, <2>1, AttemptSettled DEF CompleteJob
  <2>3. RetryBudget' /\ FailedIsDeadLettered'
        /\ \A k \in Job : status'[k] = NoRow => attemptCount'[k] = 0 /\ deadLetter'[k] = NoRow
    BY <1>1, <1>3, <2>1, <2>2, HistoryMoved DEF CompleteJob
  <2>4. Slots'
    BY <1>1, <1>3, <2>1, SlotsReleased DEF CompleteJob
  <2> QED BY <2>2, <2>3, <2>4 DEF History, NothingUnstarted
<1>4. CASE \E ft \in HandlerFailure : FailJob(a, ft)
  BY <1>2, <1>4, SettleSafe DEF FailJob, AttemptStatus
<1>5. CASE WorkerCrash(a) \/ FindExpired(a)
  BY <1>5, FrameSafe DEF WorkerCrash, FindExpired, StillRunning
<1>6. CASE ReconcileAttempt(a)
  <2>1. CASE AbandonAttempt(a)
    BY <1>2, <1>6, <2>1, SettleSafe DEF ReconcileAttempt, AbandonAttempt, AttemptStatus
  <2>2. CASE LeaveAttempt(a)
    BY <1>6, <2>2, FrameSafe DEF ReconcileAttempt, LeaveAttempt
  <2> QED BY <1>6, <2>1, <2>2 DEF ReconcileAttempt
<1> QED BY <1>3, <1>4, <1>5, <1>6 DEF AttemptStep, HandlerEnds

LEMMA QueueSafe ==
    ASSUME SafeInv, TypeOK',
           \/ \E j \in Job : FindOverdue(j) \/ RecoverQueued(j)
           \/ \E batch \in SUBSET Job : PromoteRetries(batch)
    PROVE  SafeInv'
<1> USE SafeParts
<1>1. ASSUME NEW j \in Job, FindOverdue(j)
      PROVE  SafeInv'
  BY <1>1, FrameSafe DEF FindOverdue
<1>2. ASSUME NEW j \in Job, RecoverQueued(j)
      PROVE  SafeInv'
  <2>1. CASE RequeueJob(j)
    <3>1. Slots'
      BY <2>1, SlotsReleased DEF RequeueJob, JobStatus, Slotted
    <3>2. History'
      BY <1>2, <2>1 DEF RecoverQueued, RequeueJob, StillQueued, History, RetryBudget,
                        AttemptsNumbered, FailedIsDeadLettered, NothingUnstarted, TypeOK
    <3> QED BY <3>1, <3>2
  <2>2. CASE LeaveQueued(j)
    BY <1>2, <2>2, FrameSafe DEF RecoverQueued, LeaveQueued
  <2> QED BY <1>2, <2>1, <2>2 DEF RecoverQueued
<1>3. ASSUME NEW batch \in SUBSET Job, PromoteRetries(batch)
      PROVE  SafeInv'
  <2>1. Slots'
    BY <1>3, SlotsKept DEF PromoteRetries, Slotted
  <2>2. History'
    BY <1>3 DEF PromoteRetries, History, RetryBudget, AttemptsNumbered,
                FailedIsDeadLettered, NothingUnstarted
  <2> QED BY <2>1, <2>2
<1> QED BY <1>1, <1>2, <1>3

LEMMA SafeStep == SafeInv /\ [Next]_vars => SafeInv'
<1> SUFFICES ASSUME SafeInv, [Next]_vars
             PROVE  SafeInv'
  OBVIOUS
<1>1. TypeOK'
  BY TypeStep DEF SafeInv
<1>2. CASE UNCHANGED vars
  BY <1>1, <1>2, FrameSafe DEF vars
<1>3. CASE \E t \in Tenant : PassTenant(t)
  BY <1>1, <1>3, FrameSafe DEF PassTenant
<1>4. CASE Next
  BY <1>1, <1>3, <1>4, ApiSafe, DeliverySafe, AttemptSafe, QueueSafe
     DEF Next, JobStep, TenantStep, DispatchTenant
<1> QED BY <1>2, <1>4

LEMMA InitSafe == Init => SafeInv
<1> SUFFICES ASSUME Init
             PROVE  SafeInv
  OBVIOUS
<1>1. TypeOK
  BY InitType
<1>2. Slots
  <2>1. ASSUME NEW t \in Tenant
        PROVE  active[t] = 0 /\ Cardinality(SlotsOf(t)) = 0
    <3>1. SlotsOf(t) = {}
      BY DEF Init, SlotsOf
    <3> QED BY <3>1, FS_EmptySet DEF Init
  <2>2. NoSlotLeak /\ LimitRespected
    BY <2>1, LimitsAssumption DEF NoSlotLeak, LimitRespected
  <2> QED BY <2>2 DEF Init, Slots, SlotsMatchStatus, LocksMatchSlots, Slotted
<1>3. History
  BY AttemptPair DEF Init, History, RetryBudget, AttemptsNumbered, FailedIsDeadLettered,
                     NothingUnstarted
<1> QED BY <1>1, <1>2, <1>3, SafeParts

\* Whatever faults occur - leases of living workers that lapse, commits whose
\* outcome is unknown, crashes, lost and repeated messages, races on the index
\* - reservations match statuses, locks exclude, the counter neither leaks nor
\* exceeds the limit, the retry budget holds, attempts are numbered without
\* gaps and jobs that failed for good are in the dead letters.
THEOREM SafeCorrect == Spec => []SafeInv
<1>1. Init => SafeInv
  BY InitSafe
<1>2. SafeInv /\ [Next]_vars => SafeInv'
  BY SafeStep
<1> QED BY <1>1, <1>2, PTL DEF Spec

\* Types, and with them the bound on attempt_count, under every fault.
THEOREM TypesHold == Spec => []TypeOK
<1>1. SafeInv => TypeOK
  BY DEF SafeInv
<1> QED BY <1>1, SafeCorrect, PTL

\* Reservations exist exactly for the jobs that are dispatched or executing,
\* whoever reports late.
THEOREM SlotsHold == Spec => []SlotsMatchStatus
<1>1. SafeInv => SlotsMatchStatus
  BY DEF SafeInv
<1> QED BY <1>1, SafeCorrect, PTL

\* Overlap locks come and go with reservations, one job to a resource.
THEOREM LocksHold == Spec => []LocksMatchSlots
<1>1. SafeInv => LocksMatchSlots
  BY DEF SafeInv
<1> QED BY <1>1, SafeCorrect, PTL

\* The cached counter never exceeds the number of reservations.
THEOREM NoLeak == Spec => []NoSlotLeak
<1>1. SafeInv => NoSlotLeak
  BY DEF SafeInv
<1> QED BY <1>1, SafeCorrect, PTL

\* No job comes back for an execution beyond its retries.
THEOREM BudgetHolds == Spec => []RetryBudget
<1>1. SafeInv => RetryBudget
  BY DEF SafeInv
<1> QED BY <1>1, SafeCorrect, PTL

\* The attempts of a job are numbered from one without gaps or repetitions.
THEOREM NumberingHolds == Spec => []AttemptsNumbered
<1>1. SafeInv => AttemptsNumbered
  BY DEF SafeInv
<1> QED BY <1>1, SafeCorrect, PTL

\* Every job that failed for good is in the dead letters.
THEOREM FailuresKept == Spec => []FailedIsDeadLettered
<1>1. SafeInv => FailedIsDeadLettered
  BY DEF SafeInv
<1> QED BY <1>1, SafeCorrect, PTL

-----------------------------------------------------------------------------
(* Without late reports *)

\* Only workers that are dead lose a lease, and a worker learns whether its
\* transaction committed.
Timely == "lease_lapse" \notin Faults /\ "commit_unknown" \notin Faults

\* Attempts, jobs and dead letters agree with one another.
Current == LiveIsUndisputed /\ RunningIsCurrent /\ DeadLetterMeansFailed

LEMMA TimelyParts ==
    /\ TimelyInv <=> SafeInv /\ Current /\ CounterExact
    /\ TimelyInv' <=> SafeInv' /\ Current' /\ CounterExact'
BY DEF TimelyInv, Current

\* The conjuncts of SafeInv that the steps below rest on.
LEMMA SafeFacts ==
    ASSUME SafeInv
    PROVE  TypeOK /\ SlotsMatchStatus /\ RetryBudget /\ AttemptsNumbered /\ NothingUnstarted
BY DEF SafeInv

LEMMA ExactKept ==
    ASSUME CounterExact, UNCHANGED <<reserved, active>>
    PROVE  CounterExact'
BY DEF CounterExact, SlotsOf

LEMMA ExactReleased ==
    ASSUME TypeOK, CounterExact, NEW j \in reserved, ReleaseCapacity(j)
    PROVE  CounterExact'
<1> SUFFICES ASSUME NEW t \in Tenant
             PROVE  active'[t] = Cardinality(SlotsOf(t)')
  BY DEF CounterExact
<1>1. active[t] \in Nat /\ active[t] = Cardinality(SlotsOf(t))
  BY DEF CounterExact, TypeOK
<1>2. active'[t] = IF TenantOf[j] = t /\ active[t] > 0 THEN active[t] - 1 ELSE active[t]
  BY DEF ReleaseCapacity, TypeOK
<1>3. SlotsOf(t) = Share(reserved, t) /\ SlotsOf(t)' = Share(reserved \ {j}, t)
  BY DEF SlotsOf, Share, ReleaseCapacity
<1>4. /\ Cardinality(SlotsOf(t)') = IF TenantOf[j] = t THEN Cardinality(SlotsOf(t)) - 1
                                                       ELSE Cardinality(SlotsOf(t))
      /\ TenantOf[j] = t => Cardinality(SlotsOf(t)) > 0
  BY <1>3, SlotRemoved DEF TypeOK
<1> QED BY <1>1, <1>2, <1>4

LEMMA ExactReserved ==
    ASSUME SafeInv, CounterExact, NEW t \in Tenant, NEW j \in Job, DispatchJob(t, j)
    PROVE  CounterExact'
<1> SUFFICES ASSUME NEW u \in Tenant
             PROVE  active'[u] = Cardinality(SlotsOf(u)')
  BY DEF CounterExact
<1>1. TenantOf[j] = t /\ j \in Job \ reserved /\ TypeOK
  BY SafeFacts DEF DispatchJob, Ready, SlotsMatchStatus, Slotted
<1>2. active'[u] = IF u = t THEN active[u] + 1 ELSE active[u]
  BY <1>1 DEF DispatchJob, TypeOK
<1>3. SlotsOf(u) = Share(reserved, u) /\ SlotsOf(u)' = Share(reserved \cup {j}, u)
  BY DEF SlotsOf, Share, DispatchJob
<1>4. Cardinality(SlotsOf(u)') = IF u = t THEN Cardinality(SlotsOf(u)) + 1
                                          ELSE Cardinality(SlotsOf(u))
  BY <1>1, <1>3, SlotAdded DEF TypeOK
<1> QED BY <1>2, <1>4 DEF CounterExact

\* No attempt and no dead letter changes; jobs move neither into nor out of
\* execution or final failure.
LEMMA CurrentKept ==
    ASSUME TypeOK, Current, UNCHANGED <<attempt, attemptCount>>,
           live' \subseteq live, live' \cap suspect' = {},
           \A j \in Job :
             /\ status'[j] \in {"EXECUTING", "CANCEL_REQUESTED"}
                  <=> status[j] \in {"EXECUTING", "CANCEL_REQUESTED"}
             /\ status[j] = "FAILED_FINAL" => status'[j] = "FAILED_FINAL"
             /\ deadLetter'[j] = NoRow <=> deadLetter[j] = NoRow
    PROVE  Current'
<1>1. LiveIsUndisputed'
  BY DEF Current, LiveIsUndisputed
<1>2. RunningIsCurrent'
  BY AttemptPair DEF Current, RunningIsCurrent
<1>3. DeadLetterMeansFailed'
  BY DEF Current, DeadLetterMeansFailed
<1> QED BY <1>1, <1>2, <1>3 DEF Current

\* The running attempt of a job is settled: it is nobody's any more, its job
\* executes no more, and is in the dead letters only if it failed for good.
LEMMA CurrentSettled ==
    ASSUME SafeInv, Current, NEW a \in Attempts, attempt[a] = "RUNNING",
           NEW r \in AttemptStatus \ {"RUNNING"}, attempt' = [attempt EXCEPT ![a] = r],
           NEW s \in JobStatus \ {"EXECUTING", "CANCEL_REQUESTED"},
           status' = [status EXCEPT ![a[1]] = s],
           UNCHANGED attemptCount,
           live' \subseteq live, a \notin live', suspect' \subseteq suspect,
           \/ UNCHANGED deadLetter
           \/ s = "FAILED_FINAL" /\ \E d : deadLetter' = [deadLetter EXCEPT ![a[1]] = d]
    PROVE  Current'
<1>1. a[1] \in Job /\ TypeOK /\ a[2] = attemptCount[a[1]]
      /\ status[a[1]] \in {"EXECUTING", "CANCEL_REQUESTED"}
  BY AttemptPair, SafeFacts DEF Current, RunningIsCurrent
<1>2. LiveIsUndisputed'
  BY <1>1 DEF Current, LiveIsUndisputed, TypeOK
<1>3. RunningIsCurrent'
  <2> SUFFICES ASSUME NEW b \in Attempts
               PROVE  attempt'[b] = "RUNNING" <=>
                        /\ status'[b[1]] \in {"EXECUTING", "CANCEL_REQUESTED"}
                        /\ b[2] = attemptCount'[b[1]]
    BY DEF RunningIsCurrent
  <2>1. b[1] \in Job /\ b = <<b[1], b[2]>> /\ a = <<a[1], a[2]>>
    BY AttemptPair
  <2>2. CASE b[1] = a[1]
    <3>1. b # a => attempt'[b] = attempt[b] /\ attempt[b] # "RUNNING"
      BY <1>1, <2>1, <2>2 DEF Current, RunningIsCurrent, TypeOK
    <3> QED BY <1>1, <2>2, <3>1 DEF TypeOK
  <2>3. CASE b[1] # a[1]
    <3>1. attempt'[b] = attempt[b] /\ status'[b[1]] = status[b[1]]
      BY <1>1, <2>1, <2>3 DEF TypeOK
    <3> QED BY <3>1 DEF Current, RunningIsCurrent
  <2> QED BY <2>2, <2>3
<1>4. DeadLetterMeansFailed'
  BY <1>1 DEF Current, DeadLetterMeansFailed, TypeOK
<1> QED BY <1>2, <1>3, <1>4 DEF Current

\* The steps of handlers and of the reaper.
LEMMA AttemptTimely ==
    ASSUME Timely, SafeInv, Current, CounterExact, NEW a \in Attempts, AttemptStep(a)
    PROVE  Current' /\ CounterExact'
<1>1. a[1] \in Job /\ TypeOK
  BY AttemptPair, SafeFacts
<1>2. attempt[a] = "RUNNING" => a[1] \in reserved
  BY <1>1, SafeFacts DEF Current, RunningIsCurrent, SlotsMatchStatus, Slotted
<1>3. ASSUME NEW ft, Settle(a[1], ft)
      PROVE  /\ ReleaseCapacity(a[1])
             /\ \E s \in {"RETRY_WAIT", "FAILED_FINAL"} :
                  /\ status' = [status EXCEPT ![a[1]] = s]
                  /\ \/ UNCHANGED deadLetter
                     \/ /\ s = "FAILED_FINAL"
                        /\ \E d : deadLetter' = [deadLetter EXCEPT ![a[1]] = d]
  BY <1>3 DEF Settle
<1>4. CASE CompleteJob(a)
  <2>1. attempt[a] = "RUNNING" /\ live' = live \ {a}
    BY <1>4 DEF CompleteJob, Current, LiveIsUndisputed, Timely
  <2>2. Current'
    BY <1>4, <2>1, CurrentSettled DEF CompleteJob, AttemptStatus, JobStatus
  <2>3. CounterExact'
    BY <1>1, <1>2, <1>4, <2>1, ExactReleased DEF CompleteJob
  <2> QED BY <2>2, <2>3
<1>5. CASE \E ft \in HandlerFailure : FailJob(a, ft)
  <2>1. PICK ft \in HandlerFailure : FailJob(a, ft)
    BY <1>5
  <2>2. attempt[a] = "RUNNING" /\ live' = live \ {a}
    BY <2>1 DEF FailJob, Current, LiveIsUndisputed
  <2>3. Current'
    BY <1>3, <2>1, <2>2, CurrentSettled DEF FailJob, AttemptStatus, JobStatus
  <2>4. CounterExact'
    BY <1>1, <1>2, <1>3, <2>1, <2>2, ExactReleased DEF FailJob
  <2> QED BY <2>3, <2>4
<1>6. CASE WorkerCrash(a)
  BY <1>1, <1>6, CurrentKept, ExactKept DEF WorkerCrash, Current, LiveIsUndisputed
<1>7. CASE FindExpired(a)
  <2>1. live' \cap suspect' = {}
    BY <1>7 DEF FindExpired, Timely, Current, LiveIsUndisputed
  <2> QED BY <1>1, <1>7, <2>1, CurrentKept, ExactKept DEF FindExpired
<1>8. CASE ReconcileAttempt(a)
  <2>1. a \notin live /\ live' = live /\ suspect' \subseteq suspect /\ UNCHANGED attemptCount
    BY <1>8 DEF ReconcileAttempt, Current, LiveIsUndisputed
  <2>2. CASE AbandonAttempt(a)
    <3>1. Current'
      BY <1>3, <2>1, <2>2, CurrentSettled
         DEF AbandonAttempt, StillRunning, AttemptStatus, JobStatus
    <3>2. CounterExact'
      BY <1>1, <1>2, <1>3, <2>2, ExactReleased DEF AbandonAttempt, StillRunning
    <3> QED BY <3>1, <3>2
  <2>3. CASE LeaveAttempt(a)
    <3>1. live' \cap suspect' = {}
      BY <2>1 DEF Current, LiveIsUndisputed
    <3> QED BY <1>1, <2>1, <2>3, <3>1, CurrentKept, ExactKept DEF LeaveAttempt
  <2> QED BY <1>8, <2>2, <2>3 DEF ReconcileAttempt
<1> QED BY <1>4, <1>5, <1>6, <1>7, <1>8 DEF AttemptStep, HandlerEnds

LEMMA ApiTimely ==
    ASSUME SafeInv, Current, CounterExact, NEW j \in Job, ApiStep(j) \/ BecomeDue(j)
    PROVE  Current' /\ CounterExact'
<1>1. TypeOK /\ live \cap suspect = {}
  BY SafeFacts DEF Current, LiveIsUndisputed
<1>2. CASE SubmitJob(j)
  BY <1>1, <1>2, CurrentKept, ExactKept DEF SubmitJob, TypeOK
<1>3. CASE RefreshQuery(j) \/ RefreshSave(j) \/ ApiCrash(j)
           \/ BecomeDue(j)
  BY <1>1, <1>3, CurrentKept, ExactKept
     DEF RefreshQuery, RefreshSave, ApiCrash, BecomeDue
<1>4. CASE CancelJob(j)
  <2>1. Current'
    BY <1>1, <1>4, CurrentKept
       DEF CancelJob, CancelUndispatched, CancelQueued, CancelExecuting, TypeOK
  <2>2. CASE CancelUndispatched(j) \/ CancelExecuting(j)
    BY <2>1, <2>2, ExactKept DEF CancelUndispatched, CancelExecuting
  <2>3. CASE CancelQueued(j)
    BY <1>1, <2>1, <2>3, SafeFacts, ExactReleased
       DEF CancelQueued, SlotsMatchStatus, Slotted
  <2> QED BY <1>4, <2>2, <2>3 DEF CancelJob
<1>5. CASE \E k \in Job : ReplayDeadLetter(j, k)
  <2>1. PICK k \in Job : ReplayDeadLetter(j, k)
    BY <1>5
  <2>2. Current'
    BY <1>1, <2>1, CurrentKept DEF ReplayDeadLetter, TypeOK
  <2> QED BY <2>1, <2>2, ExactKept DEF ReplayDeadLetter
<1> QED BY <1>2, <1>3, <1>4, <1>5 DEF ApiStep

LEMMA DeliveryTimely ==
    ASSUME SafeInv, Current, CounterExact, NEW j \in Job,
           \/ \E t \in Tenant : DispatchJob(t, j)
           \/ PublishEvent(j) \/ PublishUncommitted(j) \/ LoseMessage(j)
           \/ ClaimJob(j) \/ DropMessage(j)
    PROVE  Current' /\ CounterExact'
<1>1. TypeOK /\ live \cap suspect = {}
  BY SafeFacts DEF Current, LiveIsUndisputed
<1>2. CASE \E t \in Tenant : DispatchJob(t, j)
  BY <1>1, <1>2, CurrentKept, ExactReserved DEF DispatchJob, Ready, TypeOK
<1>3. CASE PublishEvent(j) \/ PublishUncommitted(j) \/ LoseMessage(j) \/ DropMessage(j)
  BY <1>1, <1>3, CurrentKept, ExactKept
     DEF PublishEvent, PublishUncommitted, LoseMessage, DropMessage
<1>4. CASE ClaimJob(j)
  <2> DEFINE a == <<j, attemptCount[j] + 1>>
  <2>1. a \in Attempts /\ status[j] = "QUEUED" /\ attemptCount[j] \in Nat
    BY <1>1, <1>4, NextAttempt, SafeFacts DEF ClaimJob, Claimable, TypeOK
  <2>2. attempt[a] = NoRow /\ a \notin live \cup suspect
    BY <2>1, SafeFacts DEF AttemptsNumbered, NothingUnstarted
  <2>3. LiveIsUndisputed'
    BY <1>1, <1>4, <2>1, <2>2 DEF ClaimJob, Current, LiveIsUndisputed, TypeOK
  <2>4. RunningIsCurrent'
    <3> SUFFICES ASSUME NEW b \in Attempts
                 PROVE  attempt'[b] = "RUNNING" <=>
                          /\ status'[b[1]] \in {"EXECUTING", "CANCEL_REQUESTED"}
                          /\ b[2] = attemptCount'[b[1]]
      BY DEF RunningIsCurrent
    <3>1. b[1] \in Job /\ b = <<b[1], b[2]>> /\ (b = a <=> b[1] = j /\ b[2] = attemptCount[j] + 1)
      BY AttemptPair
    <3>2. attempt'[b] = IF b = a THEN "RUNNING" ELSE attempt[b]
      BY <1>1, <1>4, <2>1 DEF ClaimJob, TypeOK
    <3>3. /\ status'[b[1]] = IF b[1] = j THEN "EXECUTING" ELSE status[b[1]]
          /\ attemptCount'[b[1]] = IF b[1] = j THEN attemptCount[j] + 1 ELSE attemptCount[b[1]]
      BY <1>1, <1>4, <3>1 DEF ClaimJob, CountAttempt, TypeOK
    <3>4. attempt[b] = "RUNNING" <=> /\ status[b[1]] \in {"EXECUTING", "CANCEL_REQUESTED"}
                                     /\ b[2] = attemptCount[b[1]]
      BY DEF Current, RunningIsCurrent
    <3>5. b[1] = j /\ b # a => attempt[b] # "RUNNING" /\ b[2] # attemptCount[j] + 1
      BY <2>1, <3>1, <3>4
    <3> QED BY <3>1, <3>2, <3>3, <3>4, <3>5
  <2>5. DeadLetterMeansFailed'
    BY <1>1, <1>4, <2>1 DEF ClaimJob, Current, DeadLetterMeansFailed, TypeOK
  <2> QED BY <1>4, <2>3, <2>4, <2>5, ExactKept DEF ClaimJob, Current
<1> QED BY <1>2, <1>3, <1>4

LEMMA QueueTimely ==
    ASSUME SafeInv, Current, CounterExact,
           \/ \E j \in Job : FindOverdue(j) \/ RecoverQueued(j)
           \/ \E batch \in SUBSET Job : PromoteRetries(batch)
    PROVE  Current' /\ CounterExact'
<1>1. TypeOK /\ live \cap suspect = {}
  BY SafeFacts DEF Current, LiveIsUndisputed
<1>2. ASSUME NEW j \in Job, FindOverdue(j)
      PROVE  Current' /\ CounterExact'
  BY <1>1, <1>2, CurrentKept, ExactKept DEF FindOverdue
<1>3. ASSUME NEW j \in Job, RecoverQueued(j)
      PROVE  Current' /\ CounterExact'
  <2>1. CASE RequeueJob(j)
    <3>1. Current'
      BY <1>1, <1>3, <2>1, CurrentKept DEF RecoverQueued, RequeueJob, StillQueued, TypeOK
    <3>2. j \in reserved
      BY <2>1, SafeFacts DEF RequeueJob, StillQueued, SlotsMatchStatus, Slotted
    <3> QED BY <1>1, <2>1, <3>1, <3>2, ExactReleased DEF RequeueJob
  <2>2. CASE LeaveQueued(j)
    BY <1>1, <1>3, <2>2, CurrentKept, ExactKept DEF RecoverQueued, LeaveQueued
  <2> QED BY <1>3, <2>1, <2>2 DEF RecoverQueued
<1>4. ASSUME NEW batch \in SUBSET Job, PromoteRetries(batch)
      PROVE  Current' /\ CounterExact'
  BY <1>1, <1>4, CurrentKept, ExactKept DEF PromoteRetries
<1> QED BY <1>2, <1>3, <1>4

LEMMA TimelyStep == Timely /\ TimelyInv /\ [Next]_vars => TimelyInv'
<1> SUFFICES ASSUME Timely, TimelyInv, [Next]_vars
             PROVE  TimelyInv'
  OBVIOUS
<1>1. SafeInv /\ Current /\ CounterExact /\ SafeInv'
  BY TimelyParts, SafeStep
<1>2. CASE UNCHANGED vars
  <2>1. TypeOK /\ live' \cap suspect' = {}
    BY <1>1, <1>2, SafeFacts DEF vars, Current, LiveIsUndisputed
  <2>2. Current' /\ CounterExact'
    BY <1>1, <1>2, <2>1, CurrentKept, ExactKept DEF vars
  <2> QED BY <1>1, <2>2, TimelyParts
<1>3. CASE \E t \in Tenant : PassTenant(t)
  <2>1. TypeOK /\ live' \cap suspect' = {}
    BY <1>1, <1>3, SafeFacts DEF PassTenant, Current, LiveIsUndisputed
  <2>2. Current' /\ CounterExact'
    BY <1>1, <1>3, <2>1, CurrentKept, ExactKept DEF PassTenant
  <2> QED BY <1>1, <2>2, TimelyParts
<1>4. CASE Next
  <2>1. CASE \/ \E j \in Job : JobStep(j) \/ \E t \in Tenant : DispatchJob(t, j)
             \/ \E a \in Attempts : AttemptStep(a)
             \/ \E batch \in SUBSET Job : PromoteRetries(batch)
    <3>1. Current' /\ CounterExact'
      BY <1>1, <2>1, ApiTimely, DeliveryTimely, AttemptTimely, QueueTimely DEF JobStep
    <3> QED BY <1>1, <3>1, TimelyParts
  <2> QED BY <1>3, <1>4, <2>1 DEF Next, TenantStep, DispatchTenant
<1> QED BY <1>2, <1>4

LEMMA InitTimely == Init => TimelyInv
<1> SUFFICES ASSUME Init
             PROVE  TimelyInv
  OBVIOUS
<1>1. SafeInv
  BY InitSafe
<1>2. Current
  BY AttemptPair
     DEF Init, Current, LiveIsUndisputed, RunningIsCurrent, DeadLetterMeansFailed
<1>3. CounterExact
  <2>1. ASSUME NEW t \in Tenant
        PROVE  SlotsOf(t) = {}
    BY DEF Init, SlotsOf
  <2> QED BY <2>1, FS_EmptySet DEF Init, CounterExact
<1> QED BY <1>1, <1>2, <1>3, TimelyParts

\* As long as only dead workers lose their lease and commits are certain, the
\* cached counter is exact, the running attempt of a job is its last one and
\* only the job that failed for good is in the dead letters.
THEOREM TimelyCorrect == ASSUME Timely PROVE Spec => []TimelyInv
<1>1. Init => TimelyInv
  BY InitTimely
<1>2. TimelyInv /\ [Next]_vars => TimelyInv'
  BY TimelyStep
<1> QED BY <1>1, <1>2, PTL DEF Spec

\* The cached counter is the number of reservations.
THEOREM CounterHolds == ASSUME Timely PROVE Spec => []CounterExact
<1>1. TimelyInv => CounterExact
  BY DEF TimelyInv
<1> QED BY <1>1, TimelyCorrect, PTL

\* The only RUNNING attempt of a job is its last, and its job is executing.
THEOREM RunningHolds == ASSUME Timely PROVE Spec => []RunningIsCurrent
<1>1. TimelyInv => RunningIsCurrent
  BY DEF TimelyInv
<1> QED BY <1>1, TimelyCorrect, PTL

\* Only jobs that failed for good are in the dead letters.
THEOREM DeadLettersHold == ASSUME Timely PROVE Spec => []DeadLetterMeansFailed
<1>1. TimelyInv => DeadLetterMeansFailed
  BY DEF TimelyInv
<1> QED BY <1>1, TimelyCorrect, PTL

\* A live handler's job holds a reservation.
LEMMA LiveHoldsSlot ==
    ASSUME TimelyInv, NEW a \in live
    PROVE  /\ a \in Attempts /\ a[1] \in Job /\ a[1] \in reserved
           /\ a[2] = attemptCount[a[1]]
<1>1. TypeOK /\ SlotsMatchStatus
  BY SafeFacts DEF TimelyInv
<1>2. a \in Attempts /\ a[1] \in Job
  BY <1>1, AttemptPair DEF TypeOK
<1> QED BY <1>1, <1>2
        DEF TimelyInv, LiveIsUndisputed, RunningIsCurrent, SlotsMatchStatus, Slotted

\* README.md: no tenant executes more jobs than its limit, when no lease of a
\* living worker lapses.
THEOREM LimitHolds == ASSUME Timely PROVE Spec => []ConcurrencyLimit
<1>1. TimelyInv => ConcurrencyLimit
  <2> SUFFICES ASSUME TimelyInv, NEW t \in Tenant
               PROVE  Cardinality(LiveJobs(t)) <= MaxConcurrent[t]
    BY DEF ConcurrencyLimit
  <2>1. TypeOK /\ active[t] = Cardinality(SlotsOf(t)) /\ active[t] <= MaxConcurrent[t]
    BY DEF TimelyInv, SafeInv, CounterExact, LimitRespected
  <2>2. LiveJobs(t) \subseteq SlotsOf(t) /\ SlotsOf(t) \subseteq Job
    BY <2>1, LiveHoldsSlot DEF LiveJobs, SlotsOf, TypeOK
  <2>3. IsFiniteSet(SlotsOf(t))
    BY <2>2, JobAssumption, FS_Subset
  <2>4. /\ Cardinality(LiveJobs(t)) \in Nat /\ Cardinality(SlotsOf(t)) \in Nat
        /\ Cardinality(LiveJobs(t)) <= Cardinality(SlotsOf(t))
    BY <2>2, <2>3, FS_Subset, FS_CardinalityType
  <2> QED BY <2>1, <2>4, LimitsAssumption
<1> QED BY <1>1, TimelyCorrect, PTL

\* No job is executed by two workers at once, and no two jobs that name one
\* overlap key are, however often messages are delivered.
THEOREM ExclusionHolds == ASSUME Timely PROVE Spec => []ExclusiveExecution
<1>1. TimelyInv => ExclusiveExecution
  <2> SUFFICES ASSUME TimelyInv, NEW a \in live, NEW b \in live, a # b
               PROVE  a[1] # b[1] /\ ~SameResource(a[1], b[1])
    BY DEF ExclusiveExecution
  <2>1. /\ a = <<a[1], a[2]>> /\ a[1] \in reserved /\ a[2] = attemptCount[a[1]]
        /\ b = <<b[1], b[2]>> /\ b[1] \in reserved /\ b[2] = attemptCount[b[1]]
    BY LiveHoldsSlot, AttemptPair
  <2>2. a[1] # b[1]
    BY <2>1
  <2>3. \A j, k \in reserved : j # k => ~SameResource(j, k)
    BY DEF TimelyInv, SafeInv, LocksMatchSlots, SameResource
  <2> QED BY <2>1, <2>2, <2>3
<1> QED BY <1>1, TimelyCorrect, PTL

-----------------------------------------------------------------------------
(* Steps without late reports *)

\* The status changes of JobLifecycle, all of them legal.
LEMMA LegalPairs ==
    \A p \in {<<"WAITING", "QUEUED">>, <<"WAITING", "CANCELLED">>,
              <<"QUEUED", "EXECUTING">>, <<"QUEUED", "WAITING">>, <<"QUEUED", "CANCELLED">>,
              <<"EXECUTING", "SUCCEEDED">>, <<"EXECUTING", "RETRY_WAIT">>,
              <<"EXECUTING", "FAILED_FINAL">>, <<"EXECUTING", "CANCEL_REQUESTED">>,
              <<"RETRY_WAIT", "WAITING">>, <<"RETRY_WAIT", "CANCELLED">>,
              <<"CANCEL_REQUESTED", "SUCCEEDED">>, <<"CANCEL_REQUESTED", "RETRY_WAIT">>,
              <<"CANCEL_REQUESTED", "FAILED_FINAL">>} :
        IsValidTransition(p[1], p[2]) \/ p \in UndeclaredTransitions
BY DEF IsValidTransition, ALLOWED_TRANSITIONS, UndeclaredTransitions, JobStatus

\* What the settling of a running attempt does to its job and to its row.
LEMMA SettledMove ==
    ASSUME TimelyInv, NEW a \in Attempts, attempt[a] = "RUNNING",
           NEW s \in {"SUCCEEDED", "RETRY_WAIT", "FAILED_FINAL"},
           status' = [status EXCEPT ![a[1]] = s], NEW j \in Job, status'[j] # status[j]
    PROVE  IsValidTransition(status[j], status'[j])
           \/ <<status[j], status'[j]>> \in UndeclaredTransitions
<1>1. TypeOK /\ status[a[1]] \in {"EXECUTING", "CANCEL_REQUESTED"}
  BY SafeFacts DEF TimelyInv, RunningIsCurrent
<1>2. j = a[1] /\ status'[j] = s
  BY <1>1 DEF TypeOK
<1> QED BY <1>1, <1>2, LegalPairs

\* The steps that settle an attempt settle a running one, with one of three
\* outcomes for its job.
LEMMA SettlingStep ==
    ASSUME Timely, TimelyInv, NEW a \in Attempts, AttemptStep(a)
    PROVE  \/ UNCHANGED <<status, attempt, attemptCount>>
           \/ /\ attempt[a] = "RUNNING"
              /\ \E s \in {"SUCCEEDED", "RETRY_WAIT", "FAILED_FINAL"} :
                   /\ status' = [status EXCEPT ![a[1]] = s]
                   /\ s = "RETRY_WAIT" => attemptCount[a[1]] <= MaxRetries
              /\ \E r \in AttemptStatus : attempt' = [attempt EXCEPT ![a] = r]
              /\ UNCHANGED attemptCount
<1>1. a \in live => attempt[a] = "RUNNING"
  BY DEF TimelyInv, LiveIsUndisputed
<1>2. ASSUME NEW ft, Settle(a[1], ft)
      PROVE  \E s \in {"RETRY_WAIT", "FAILED_FINAL"} :
               /\ status' = [status EXCEPT ![a[1]] = s]
               /\ s = "RETRY_WAIT" => attemptCount[a[1]] <= MaxRetries
  BY <1>2, LimitsAssumption DEF Settle, CanRetry
<1>3. CASE CompleteJob(a)
  BY <1>1, <1>3 DEF CompleteJob, AttemptStatus
<1>4. CASE \E ft \in HandlerFailure : FailJob(a, ft)
  BY <1>1, <1>2, <1>4 DEF FailJob, AttemptStatus
<1>5. CASE WorkerCrash(a) \/ FindExpired(a)
  BY <1>5 DEF WorkerCrash, FindExpired
<1>6. CASE ReconcileAttempt(a)
  BY <1>2, <1>6 DEF ReconcileAttempt, AbandonAttempt, LeaveAttempt, StillRunning, AttemptStatus
<1> QED BY <1>3, <1>4, <1>5, <1>6 DEF AttemptStep, HandlerEnds

LEMMA LegalStep ==
    ASSUME Timely, TimelyInv, [Next]_vars, NEW j \in Job,
           status[j] # NoRow, status'[j] # status[j]
    PROVE  IsValidTransition(status[j], status'[j])
           \/ <<status[j], status'[j]>> \in UndeclaredTransitions
<1>1. TypeOK
  BY SafeFacts DEF TimelyInv
<1>2. ASSUME NEW i \in Job, JobStep(i) \/ \E t \in Tenant : DispatchJob(t, i)
      PROVE  IsValidTransition(status[j], status'[j])
             \/ <<status[j], status'[j]>> \in UndeclaredTransitions
  <2>1. CASE SubmitJob(i) \/ \E k \in Job : ReplayDeadLetter(i, k)
    BY <1>1, <2>1 DEF SubmitJob, ReplayDeadLetter, TypeOK
  <2>2. CASE CancelJob(i)
    BY <1>1, <2>2, LegalPairs
       DEF CancelJob, CancelUndispatched, CancelQueued, CancelExecuting, TypeOK
  <2>3. CASE ClaimJob(i)
    BY <1>1, <2>3, LegalPairs DEF ClaimJob, Claimable, TypeOK
  <2>4. CASE RecoverQueued(i)
    BY <1>1, <2>4, LegalPairs DEF RecoverQueued, RequeueJob, LeaveQueued, StillQueued, TypeOK
  <2>5. CASE \E t \in Tenant : DispatchJob(t, i)
    BY <1>1, <2>5, LegalPairs DEF DispatchJob, Ready, TypeOK
  <2>6. CASE \/ RefreshQuery(i) \/ RefreshSave(i) \/ ApiCrash(i)
             \/ BecomeDue(i) \/ PublishEvent(i) \/ PublishUncommitted(i) \/ LoseMessage(i)
             \/ DropMessage(i) \/ FindOverdue(i)
    BY <2>6 DEF RefreshQuery, RefreshSave, ApiCrash, BecomeDue,
                PublishEvent, PublishUncommitted, LoseMessage, DropMessage, FindOverdue
  <2> QED BY <1>2, <2>1, <2>2, <2>3, <2>4, <2>5, <2>6 DEF JobStep, ApiStep
<1>3. ASSUME NEW a \in Attempts, AttemptStep(a)
      PROVE  IsValidTransition(status[j], status'[j])
             \/ <<status[j], status'[j]>> \in UndeclaredTransitions
  BY <1>3, SettlingStep, SettledMove
<1>4. ASSUME NEW batch \in SUBSET Job, PromoteRetries(batch)
      PROVE  IsValidTransition(status[j], status'[j])
  BY <1>4 DEF PromoteRetries, IsValidTransition, ALLOWED_TRANSITIONS, JobStatus
<1> QED BY <1>2, <1>3, <1>4 DEF Next, TenantStep, DispatchTenant, PassTenant, vars

\* Every status change of a submitted job is in the table of transitions.py or
\* is one of the three the code makes beside it.
THEOREM TransitionsLegal == ASSUME Timely PROVE Spec => LegalTransitions
<1> DEFINE Legal ==
      \A j \in Job : status[j] # NoRow /\ status'[j] # status[j] =>
          \/ IsValidTransition(status[j], status'[j])
          \/ <<status[j], status'[j]>> \in UndeclaredTransitions
<1>1. TimelyInv /\ [Next]_vars => [Legal]_vars
  BY LegalStep
<1>2. Spec => [][Legal]_vars
  BY <1>1, TimelyCorrect, PTL DEF Spec
<1> QED BY <1>2 DEF LegalTransitions

\* Settled attempts stay as they are.
LEMMA AttemptsStay ==
    ASSUME Timely, TimelyInv, [Next]_vars, NEW b \in Attempts,
           attempt[b] \notin {NoRow, "RUNNING"}
    PROVE  attempt'[b] = attempt[b]
<1>1. TypeOK /\ RetryBudget /\ AttemptsNumbered
  BY SafeFacts DEF TimelyInv
<1>2. ASSUME NEW j \in Job, ClaimJob(j)
      PROVE  attempt'[b] = attempt[b]
  <2>1. <<j, attemptCount[j] + 1>> \in Attempts /\ attemptCount[j] \in Nat
    BY <1>1, <1>2, NextAttempt DEF ClaimJob, Claimable, TypeOK
  <2>2. attempt[<<j, attemptCount[j] + 1>>] = NoRow
    BY <1>1, <2>1 DEF AttemptsNumbered
  <2> QED BY <1>1, <1>2, <2>2 DEF ClaimJob, TypeOK
<1>3. ASSUME NEW a \in Attempts, AttemptStep(a)
      PROVE  attempt'[b] = attempt[b]
  BY <1>1, <1>3, SettlingStep DEF TypeOK
<1>4. CASE UNCHANGED attempt
  BY <1>4
<1>5. [Next]_vars => \/ \E j \in Job : ClaimJob(j)
                     \/ \E a \in Attempts : AttemptStep(a)
                     \/ UNCHANGED attempt
  BY DEF Next, vars, JobStep, ApiStep, TenantStep, DispatchTenant, PassTenant, SubmitJob, RefreshQuery,
         RefreshSave, ApiCrash, CancelJob, ReplayDeadLetter, BecomeDue, PublishEvent,
         PublishUncommitted, LoseMessage, DropMessage, FindOverdue, RecoverQueued, DispatchJob,
         PromoteRetries
<1> QED BY <1>2, <1>3, <1>4, <1>5

\* Finished jobs and finished attempts are never touched again.
THEOREM SettledStays == ASSUME Timely PROVE Spec => SettledStaysSettled
<1> DEFINE Stays ==
      /\ \A j \in Job : status[j] \in Terminal => status'[j] = status[j]
      /\ \A a \in Attempts : attempt[a] \notin {NoRow, "RUNNING"}
                                => attempt'[a] = attempt[a]
<1>1. TimelyInv /\ [Next]_vars => [Stays]_vars
  <2> SUFFICES ASSUME TimelyInv, [Next]_vars
               PROVE  Stays
    OBVIOUS
  <2>1. ASSUME NEW j \in Job, status[j] \in Terminal
        PROVE  status'[j] = status[j]
    <3>1. \A s : ~IsValidTransition(status[j], s) /\ <<status[j], s>> \notin UndeclaredTransitions
      BY <2>1 DEF IsValidTransition, ALLOWED_TRANSITIONS, UndeclaredTransitions, Terminal,
                  JobStatus
    <3> QED BY <2>1, <3>1, LegalStep DEF Terminal
  <2> QED BY <2>1, AttemptsStay
<1>2. Spec => [][Stays]_vars
  BY <1>1, TimelyCorrect, PTL DEF Spec
<1> QED BY <1>2 DEF SettledStaysSettled

-----------------------------------------------------------------------------
(* The lifecycle implements JobContract *)

\* The phase that a status stands for.
PhaseOf(s) ==
    CASE s = NoRow                       -> "absent"
      [] s \in {"WAITING", "RETRY_WAIT"} -> "pending"
      [] s \in Slotted                   -> "running"
      [] OTHER                           -> "done"

LEMMA PhaseFacts ==
    /\ Phase = [j \in Job |-> PhaseOf(status[j])]
    /\ Phase' = [j \in Job |-> PhaseOf(status'[j])]
    /\ PhaseOf(NoRow) = "absent"
    /\ PhaseOf("WAITING") = "pending" /\ PhaseOf("RETRY_WAIT") = "pending"
    /\ PhaseOf("QUEUED") = "running" /\ PhaseOf("EXECUTING") = "running"
    /\ PhaseOf("CANCEL_REQUESTED") = "running"
    /\ PhaseOf("SUCCEEDED") = "done" /\ PhaseOf("FAILED_FINAL") = "done"
    /\ PhaseOf("CANCELLED") = "done"
    /\ \A s \in JobStatus : PhaseOf(s) = "running" <=> s \in Slotted
BY DEF Phase, PhaseOf, Slotted, JobStatus

\* One job changes status: the contract sees at most its phase change.
LEMMA PhaseMoves ==
    ASSUME TypeOK, NEW j \in Job, NEW s, status' = [status EXCEPT ![j] = s]
    PROVE  /\ Phase' = [Phase EXCEPT ![j] = PhaseOf(s)]
           /\ Phase[j] = PhaseOf(status[j])
           /\ PhaseOf(s) = PhaseOf(status[j]) => Phase' = Phase
BY PhaseFacts DEF TypeOK

\* The steps of the contract, spelled out.
LEMMA ContractSteps ==
    ASSUME NEW j \in Job
    PROVE  /\ UNCHANGED <<Phase, attemptCount>> => [Contract!Next]_(Contract!vars)
           /\ Contract!Submit(j) \/ Contract!Reserve(j) \/ Contract!Execute(j)
                \/ Contract!Requeue(j) \/ Contract!Finish(j) => [Contract!Next]_(Contract!vars)
BY DEF Contract!Next, Contract!vars

LEMMA ReserveImplements ==
    ASSUME TimelyInv, NEW t \in Tenant, NEW j \in Job, DispatchJob(t, j)
    PROVE  Contract!Reserve(j)
<1>1. TypeOK /\ SlotsMatchStatus
  BY SafeFacts DEF TimelyInv
<1>2. /\ TenantOf[j] = t
      /\ status[j] = "WAITING"
      /\ status' = [status EXCEPT ![j] = "QUEUED"]
      /\ UNCHANGED attemptCount
  BY DEF DispatchJob, Ready
<1>7. Phase' = [Phase EXCEPT ![j] = PhaseOf("QUEUED")] /\ Phase[j] = PhaseOf("WAITING")
  BY <1>1, <1>2, PhaseMoves
<1>8. Phase' = [Phase EXCEPT ![j] = "running"] /\ Phase[j] = "pending"
  BY <1>7, PhaseFacts
<1>3. \A k \in Job : Phase[k] = "running" <=> k \in reserved
  <2> SUFFICES ASSUME NEW k \in Job
               PROVE  Phase[k] = "running" <=> k \in reserved
    OBVIOUS
  <2>1. Phase[k] = PhaseOf(status[k]) /\ status[k] \in JobStatus \cup {NoRow}
    BY <1>1, PhaseFacts DEF TypeOK
  <2> QED BY <1>1, <2>1, PhaseFacts DEF SlotsMatchStatus, Slotted
<1>4. Contract!Running(TenantOf[j]) = SlotsOf(t)
  BY <1>1, <1>2, <1>3 DEF Contract!Running, SlotsOf, TypeOK
<1>5. Cardinality(SlotsOf(t)) < MaxConcurrent[t] /\ MaxConcurrent[t] = MaxConcurrent[TenantOf[j]]
  BY <1>2 DEF DispatchJob, HasCapacity, TimelyInv, CounterExact
<1>6. \A k \in Job : Phase[k] = "running" => <<j, k>> \notin {p \in Job \X Job : SameResource(p[1], p[2])}
  <2> SUFFICES ASSUME NEW k \in reserved
               PROVE  ~SameResource(j, k)
    BY <1>3
  <2>1. locked = {i \in reserved : KeyOf[i] # NoKey}
    BY DEF TimelyInv, SafeInv, LocksMatchSlots
  <2> QED BY <2>1 DEF DispatchJob, LockFree, SameResource
<1>9. Contract!Cardinality(Contract!Running(TenantOf[j])) = Cardinality(SlotsOf(t))
  BY <1>4 DEF Cardinality, Contract!Cardinality
<1> QED BY <1>2, <1>5, <1>6, <1>8, <1>9 DEF Contract!Reserve

\* Inserting a row, by a submission or a replay, submits a job.
LEMMA InsertImplements ==
    ASSUME TypeOK, NEW j \in Job, status[j] = NoRow,
           status' = [status EXCEPT ![j] = "WAITING"], UNCHANGED attemptCount
    PROVE  Contract!Submit(j)
<1>1. Phase' = [Phase EXCEPT ![j] = PhaseOf("WAITING")] /\ Phase[j] = PhaseOf(NoRow)
  BY PhaseMoves
<1> QED BY <1>1, PhaseFacts DEF Contract!Submit

LEMMA ContractStep ==
    ASSUME Timely, TimelyInv, [Next]_vars
    PROVE  [Contract!Next]_(Contract!vars)
<1>1. TypeOK /\ RetryBudget
  BY SafeFacts DEF TimelyInv
<1>2. ASSUME UNCHANGED <<status, attemptCount>>
      PROVE  [Contract!Next]_(Contract!vars)
  BY <1>2, PhaseFacts DEF Contract!vars
<1>3. ASSUME NEW j \in Job, JobStep(j) \/ \E t \in Tenant : DispatchJob(t, j)
      PROVE  [Contract!Next]_(Contract!vars)
  <2>1. CASE SubmitJob(j)
    <3>1. /\ status[j] = NoRow
          /\ status' = [status EXCEPT ![j] = "WAITING"]
          /\ UNCHANGED attemptCount
      BY <2>1 DEF SubmitJob
    <3>2. Contract!Submit(j)
      BY <1>1, <3>1, InsertImplements
    <3> QED BY <3>2, ContractSteps
  <2>2. CASE \E k \in Job : ReplayDeadLetter(j, k)
    <3>1. PICK k \in Job : ReplayDeadLetter(j, k)
      BY <2>2
    <3>2. /\ status[k] = NoRow
          /\ status' = [status EXCEPT ![k] = "WAITING"]
          /\ UNCHANGED attemptCount
      BY <3>1 DEF ReplayDeadLetter
    <3>3. Contract!Submit(k)
      BY <1>1, <3>2, InsertImplements
    <3> QED BY <3>3, ContractSteps
  <2>3. CASE CancelJob(j)
    <3>1. CASE CancelUndispatched(j) \/ CancelQueued(j)
      <4>1. Contract!Finish(j)
        BY <1>1, <2>3, <3>1, PhaseMoves, PhaseFacts
           DEF CancelJob, CancelUndispatched, CancelQueued, Contract!Finish
      <4> QED BY <4>1, ContractSteps
    <3>2. CASE CancelExecuting(j)
      <4>1. UNCHANGED <<Phase, attemptCount>>
        BY <1>1, <2>3, <3>2, PhaseMoves, PhaseFacts DEF CancelJob, CancelExecuting
      <4> QED BY <4>1, ContractSteps
    <3> QED BY <2>3, <3>1, <3>2 DEF CancelJob
  <2>4. CASE ClaimJob(j)
    <3>1. status[j] = "QUEUED" /\ attemptCount[j] < MaxAttempts /\ Phase' = Phase
          /\ Phase[j] = "running"
      BY <1>1, <2>4, PhaseMoves, PhaseFacts, LimitsAssumption
         DEF ClaimJob, Claimable, RetryBudget, MaxAttempts, TypeOK
    <3>2. Contract!Execute(j)
      BY <1>1, <2>4, <3>1 DEF ClaimJob, CountAttempt, Contract!Execute, TypeOK
    <3> QED BY <3>2, ContractSteps
  <2>5. CASE RecoverQueued(j)
    <3>1. CASE RequeueJob(j)
      <4>1. attemptCount[j] < MaxAttempts
        BY <1>1, <3>1, LimitsAssumption DEF RequeueJob, StillQueued, RetryBudget, MaxAttempts, TypeOK
      <4>2. /\ status[j] = "QUEUED"
            /\ status' = [status EXCEPT ![j] = "WAITING"]
            /\ UNCHANGED attemptCount
        BY <2>5, <3>1 DEF RecoverQueued, RequeueJob, StillQueued
      <4>3. Phase' = [Phase EXCEPT ![j] = PhaseOf("WAITING")] /\ Phase[j] = PhaseOf("QUEUED")
        BY <1>1, <4>2, PhaseMoves
      <4>4. Contract!Requeue(j)
        BY <4>1, <4>2, <4>3, PhaseFacts DEF Contract!Requeue
      <4> QED BY <4>4, ContractSteps
    <3>2. CASE LeaveQueued(j)
      BY <1>2, <2>5, <3>2 DEF RecoverQueued, LeaveQueued
    <3> QED BY <2>5, <3>1, <3>2 DEF RecoverQueued
  <2>6. CASE \E t \in Tenant : DispatchJob(t, j)
    BY <2>6, ReserveImplements, ContractSteps
  <2>7. CASE \/ RefreshQuery(j) \/ RefreshSave(j) \/ ApiCrash(j)
             \/ BecomeDue(j) \/ PublishEvent(j) \/ PublishUncommitted(j) \/ LoseMessage(j)
             \/ DropMessage(j) \/ FindOverdue(j)
    BY <1>2, <2>7
       DEF RefreshQuery, RefreshSave, ApiCrash, BecomeDue, PublishEvent,
           PublishUncommitted, LoseMessage, DropMessage, FindOverdue
  <2> QED BY <1>3, <2>1, <2>2, <2>3, <2>4, <2>5, <2>6, <2>7 DEF JobStep, ApiStep
<1>4. ASSUME NEW a \in Attempts, AttemptStep(a)
      PROVE  [Contract!Next]_(Contract!vars)
  <2>1. CASE UNCHANGED <<status, attempt, attemptCount>>
    BY <1>2, <2>1
  <2>2. CASE /\ attempt[a] = "RUNNING"
             /\ \E s \in {"SUCCEEDED", "RETRY_WAIT", "FAILED_FINAL"} :
                  /\ status' = [status EXCEPT ![a[1]] = s]
                  /\ s = "RETRY_WAIT" => attemptCount[a[1]] <= MaxRetries
             /\ UNCHANGED attemptCount
    <3>1. a[1] \in Job /\ status[a[1]] \in {"EXECUTING", "CANCEL_REQUESTED"}
      BY <2>2, AttemptPair DEF TimelyInv, RunningIsCurrent
    <3>2. PICK s \in {"SUCCEEDED", "RETRY_WAIT", "FAILED_FINAL"} :
            /\ status' = [status EXCEPT ![a[1]] = s]
            /\ s = "RETRY_WAIT" => attemptCount[a[1]] <= MaxRetries
      BY <2>2
    <3>3. Phase[a[1]] = "running" /\ Phase' = [Phase EXCEPT ![a[1]] = PhaseOf(s)]
      BY <1>1, <3>1, <3>2, PhaseMoves, PhaseFacts
    <3>4. CASE s = "RETRY_WAIT"
      <4>1. attemptCount[a[1]] < MaxAttempts
        BY <1>1, <3>1, <3>2, <3>4, LimitsAssumption DEF MaxAttempts, TypeOK
      <4>2. Contract!Requeue(a[1])
        BY <2>2, <3>3, <3>4, <4>1, PhaseFacts DEF Contract!Requeue
      <4> QED BY <3>1, <4>2, ContractSteps
    <3>5. CASE s # "RETRY_WAIT"
      <4>1. PhaseOf(s) = "done"
        BY <3>5, PhaseFacts
      <4>2. Phase' = [Phase EXCEPT ![a[1]] = "done"]
        BY <3>3, <4>1
      <4>3. Contract!Finish(a[1])
        BY <2>2, <3>3, <4>2 DEF Contract!Finish
      <4> QED BY <3>1, <4>3, ContractSteps
    <3> QED BY <3>4, <3>5
  <2> QED BY <1>4, <2>1, <2>2, SettlingStep
<1>5. ASSUME NEW batch \in SUBSET Job, PromoteRetries(batch)
      PROVE  [Contract!Next]_(Contract!vars)
  <2>1. Phase' = Phase
    BY <1>5, PhaseFacts DEF PromoteRetries
  <2> QED BY <1>5, <2>1 DEF PromoteRetries, Contract!vars
<1>6. CASE UNCHANGED vars \/ \E t \in Tenant : PassTenant(t)
  BY <1>2, <1>6 DEF vars, PassTenant
<1> QED BY <1>3, <1>4, <1>5, <1>6 DEF Next, TenantStep, DispatchTenant

\* With rows, counters, leases, queues and reapers hidden, the orchestrator
\* does what JobContract promises: slots within the limit, exclusive
\* resources, at most MaxAttempts executions, one end.
THEOREM Implements == ASSUME Timely PROVE Spec => ImplementsContract
<1>1. Init => Contract!Init
  BY PhaseFacts DEF Init, Contract!Init
<1>2. TimelyInv /\ [Next]_vars => [Contract!Next]_(Contract!vars)
  BY ContractStep
<1> QED BY <1>1, <1>2, TimelyCorrect, PTL DEF Spec, ImplementsContract, Contract!Spec

-----------------------------------------------------------------------------
(* What the contract promises holds of the tables *)

Promises == INSTANCE JobContractProofs WITH
    MaxTries <- MaxAttempts,
    Exclusive <- {p \in Job \X Job : SameResource(p[1], p[2])},
    phase <- Phase,
    tries <- attemptCount

LEMMA AttributesGiven == Promises!Attributes
<1>1. Promises!IsFiniteSet(Job) BY JobAssumption DEF Promises!IsFiniteSet, IsFiniteSet
<1>2. MaxAttempts \in Nat BY LimitsAssumption DEF MaxAttempts
<1>3. \A i, j : SameResource(i, j) => SameResource(j, i) BY DEF SameResource
<1> QED BY <1>1, <1>2, <1>3, LimitsAssumption, AttributesAssumption DEF Promises!Attributes

\* Whatever is proved of the contract is true of the tables: the jobs with a
\* slot stay within the limit, share no resource, and no attempt_count exceeds
\* the budget, as long as no lease of a living worker lapses.
THEOREM PromisesHold == ASSUME Timely PROVE Spec => []Promises!Promise
<1>1. Promises!Spec => []Promises!Promise BY AttributesGiven, Promises!PromiseKept
<1>2. Spec => Contract!Spec BY Implements DEF ImplementsContract
<1>3. Contract!Init => Promises!Init BY DEF Contract!Init, Promises!Init
<1>4. ASSUME NEW j \in Job, Contract!Reserve(j) PROVE Promises!Reserve(j)
  <2>1. Contract!Running(TenantOf[j]) = Promises!Running(TenantOf[j])
    BY DEF Contract!Running, Promises!Running
  <2>2. \A S : Contract!Cardinality(S) = Promises!Cardinality(S)
    BY DEF Contract!Cardinality, Promises!Cardinality
  <2> QED BY <1>4, <2>1, <2>2 DEF Contract!Reserve, Promises!Reserve
<1>5. [Contract!Next]_(Contract!vars) => [Promises!Next]_(Promises!vars)
  BY <1>4 DEF Contract!Next, Contract!vars, Promises!Next, Promises!vars, Contract!Submit, Promises!Submit,
    Contract!Execute, Promises!Execute, Contract!Requeue, Promises!Requeue, Contract!Finish, Promises!Finish
<1> QED BY <1>1, <1>2, <1>3, <1>5, PTL DEF Contract!Spec, Promises!Spec
=============================================================================
