--------------------------- MODULE DispatchProofs ---------------------------
(***************************************************************************)
(* Proofs about Dispatch, for any number of jobs, tenants, runs, limits    *)
(* and candidates: its types, the order in which jobs are dispatched, and  *)
(* that a lowered limit drains.                                            *)
(***************************************************************************)
EXTENDS Dispatch, FiniteSetTheorems, TLAPS

USE DispatchAssumption

(***************************************************************************)
(* The first of the candidates                                             *)
(***************************************************************************)

\* What dispatch_next can reserve: a visible waiting job of the tenant, with
\* every visible job ahead of it refused its key.
LEMMA FirstIsRightful ==
    ASSUME TypeOK, NEW r \in Run, NEW c \in Candidates(r), NEW j \in First(c)
    PROVE  /\ j \in JobsOf(visited[r]) /\ status[j] = "WAITING" /\ Visible(r, j)
           /\ j \in NoObject \/ ~KeyHeld(j)
           /\ \A i \in JobsOf(visited[r]) :
                status[i] = "WAITING" /\ Visible(r, i) /\ Ahead(i, j) => KeyHeld(i)
<1>1. j \in c BY DEF First, Stops
<1>2. j \in JobsOf(visited[r]) /\ status[j] = "WAITING" /\ Visible(r, j)
  BY <1>1 DEF Candidates
<1>3. j \in NoObject \/ ~KeyHeld(j) BY DEF First, Stops
<1>4. ASSUME NEW i \in JobsOf(visited[r]), status[i] = "WAITING", Visible(r, i),
             Ahead(i, j), ~KeyHeld(i)
      PROVE  FALSE
  <2>1. i \in c BY <1>1, <1>4 DEF Candidates
  <2>2. i \in Stops(c) BY <2>1, <1>4 DEF Stops
  <2> QED BY <2>2, <1>4 DEF First
<1> QED BY <1>2, <1>3, <1>4

(***************************************************************************)
(* Types                                                                   *)
(***************************************************************************)

LEMMA InitTypes == Init => TypeOK
<1> SUFFICES ASSUME Init PROVE TypeOK OBVIOUS
<1> QED BY DEF Init, TypeOK

\* Jobs that become due are added to what the calls under way may miss.
LEMMA DueTypes ==
    ASSUME TypeOK, NEW js \in SUBSET Job, BecomeDue(js)
    PROVE  late' \in [Run -> SUBSET Job]
<1>1. PICK missed \in [{r \in Run : visited[r] # NoTenant} -> SUBSET js] :
        late' = [r \in Run |-> IF visited[r] = NoTenant THEN {} ELSE late[r] \cup missed[r]]
  BY DEF BecomeDue
<1>2. ASSUME NEW r \in Run
      PROVE  (IF visited[r] = NoTenant THEN {} ELSE late[r] \cup missed[r]) \in SUBSET Job
  BY <1>1 DEF TypeOK
<1> QED BY <1>1, <1>2

LEMMA StepTypes == TypeOK /\ [Next]_vars => TypeOK'
<1> SUFFICES ASSUME TypeOK, [Next]_vars PROVE TypeOK' OBVIOUS
<1>1. ASSUME NEW j \in Job, Submit(j) PROVE TypeOK'
  <2>1. late' \in [Run -> SUBSET Job] BY <1>1, DueTypes DEF Submit
  <2>2. PICK n \in Instant : ready_since' = [ready_since EXCEPT ![j] = n]
    BY <1>1 DEF Submit
  <2> QED BY <1>1, <2>1, <2>2 DEF Submit, TypeOK
<1>2. ASSUME NEW j \in Job, RefreshQuery(j) \/ RefreshSave(j) PROVE TypeOK'
  <2>1. CASE RefreshQuery(j)
    <3>1. PICK answer \in {"saw_ready", "saw_none"} : request' = [request EXCEPT ![j] = answer]
      BY <2>1 DEF RefreshQuery
    <3> QED BY <2>1, <3>1 DEF RefreshQuery, TypeOK, runVars
  <2>2. CASE RefreshSave(j)
    <3>1. has_ready_work' \in [Tenant -> BOOLEAN] BY <2>2 DEF RefreshSave, TypeOK
    <3> QED BY <2>2, <3>1 DEF RefreshSave, TypeOK, runVars
  <2> QED BY <1>2, <2>1, <2>2
<1>3. ASSUME NEW j \in Job, BeginCancel(j) \/ CommitCancel(j) \/ RollBackCancel(j) PROVE TypeOK'
  <2>1. CASE BeginCancel(j) BY <2>1 DEF BeginCancel, TypeOK, runVars
  <2>2. CASE CommitCancel(j) BY <2>2 DEF CommitCancel, TypeOK
  <2>3. CASE RollBackCancel(j) BY <2>3 DEF RollBackCancel, TypeOK, runVars
  <2> QED BY <1>3, <2>1, <2>2, <2>3
<1>4. ASSUME NEW j \in Job, End(j) PROVE TypeOK'
  BY <1>4 DEF End, TypeOK, runVars
<1>5. ASSUME NEW j \in Job, Fail(j) PROVE TypeOK'
  BY <1>5 DEF Fail, TypeOK, runVars
<1>6. ASSUME NEW j \in Job, RecoverQueued(j) PROVE TypeOK'
  <2>1. PICK n \in Instant : ready_since' = [ready_since EXCEPT ![j] = n]
    BY <1>6 DEF RecoverQueued
  <2> QED BY <1>6, <2>1 DEF RecoverQueued, TypeOK, runVars
<1>7. ASSUME NEW t \in Tenant, NEW n \in AnyLimit, ChangeLimit(t, n) PROVE TypeOK'
  <2>1. limit' \in LimitsInForce
    BY <1>7 DEF ChangeLimit, TypeOK, LimitsInForce
  <2> QED BY <1>7, <2>1 DEF ChangeLimit, TypeOK, runVars
<1>8. ASSUME NEW r \in Run, DispatchJobs(r) PROVE TypeOK'
  <2>1. CASE BeginRun(r)
    <3>1. PICK batch \in SUBSET Tenant : todo' = [todo EXCEPT ![r] = batch]
      BY <2>1 DEF BeginRun, Listed
    <3> QED BY <2>1, <3>1 DEF BeginRun, TypeOK
  <2>2. ASSUME NEW t \in Tenant, Visit(r, t) PROVE TypeOK'
    BY <2>2 DEF Visit, TypeOK
  <2>3. CASE ReturnNone(r)
    BY <2>3 DEF ReturnNone, Return, TypeOK
  <2>4. CASE Reserve(r)
    <3>1. PICK c \in Candidates(r) : \E j \in First(c) :
            /\ status' = [status EXCEPT ![j] = "QUEUED"]
            /\ ready_since' = [ready_since EXCEPT ![j] = 0]
      BY <2>4 DEF Reserve
    <3>2. PICK j \in First(c) :
            /\ status' = [status EXCEPT ![j] = "QUEUED"]
            /\ ready_since' = [ready_since EXCEPT ![j] = 0]
      BY <3>1
    <3>3. j \in Job /\ status[j] = "WAITING" /\ j \notin cancelling
      BY FirstIsRightful DEF JobsOf, Visible
    <3> QED BY <2>4, <3>2, <3>3 DEF Reserve, Return, TypeOK
  <2>5. CASE Raise(r)
    BY <2>5 DEF Raise, Return, TypeOK
  <2> QED BY <1>8, <2>1, <2>2, <2>3, <2>4, <2>5 DEF DispatchJobs
<1>9. CASE PromoteRetries
  <2>1. PICK batch \in (SUBSET {j \in Job : status[j] = "RETRY_WAIT"}) \ {{}}, n \in Instant :
          /\ status' = [j \in Job |-> IF j \in batch THEN "WAITING" ELSE status[j]]
          /\ ready_since' = [j \in Job |-> IF j \in batch THEN n ELSE ready_since[j]]
          /\ has_ready_work' = [t \in Tenant |-> has_ready_work[t] \/ JobsOf(t) \cap batch # {}]
          /\ BecomeDue(batch)
    BY <1>9 DEF PromoteRetries
  <2>2. late' \in [Run -> SUBSET Job] BY <2>1, DueTypes
  <2>3. has_ready_work' \in [Tenant -> BOOLEAN] BY <2>1
  <2> QED BY <1>9, <2>1, <2>2, <2>3 DEF PromoteRetries, TypeOK
<1>10. CASE UNCHANGED vars BY <1>10 DEF vars, TypeOK
<1> QED BY <1>1, <1>2, <1>3, <1>4, <1>5, <1>6, <1>7, <1>8, <1>9, <1>10 DEF Next

\* Every variable has its type: a job is ready since some time exactly while it
\* waits, and only the rows of waiting jobs are locked by cancellations.
THEOREM TypesHold == Spec => []TypeOK
<1> QED BY InitTypes, StepTypes, PTL DEF Spec

(***************************************************************************)
(* Order                                                                   *)
(***************************************************************************)

\* Only a reservation makes a job QUEUED, and it is the one it reserves.
LEMMA QueuedByReserve ==
    ASSUME TypeOK, [Next]_vars, NEW j \in Job, status[j] # "QUEUED", status'[j] = "QUEUED"
    PROVE  \E r \in Run : Reserve(r) /\ \E c \in Candidates(r) : j \in First(c)
<1>1. ASSUME NEW i \in Job, Submit(i) PROVE FALSE BY <1>1 DEF Submit, TypeOK
<1>2. ASSUME NEW i \in Job, RefreshQuery(i) \/ RefreshSave(i) PROVE FALSE
  BY <1>2 DEF RefreshQuery, RefreshSave
<1>3. ASSUME NEW i \in Job, BeginCancel(i) \/ CommitCancel(i) \/ RollBackCancel(i) PROVE FALSE
  BY <1>3 DEF BeginCancel, CommitCancel, RollBackCancel, TypeOK
<1>4. ASSUME NEW i \in Job, End(i) PROVE FALSE BY <1>4 DEF End, TypeOK
<1>5. ASSUME NEW i \in Job, Fail(i) PROVE FALSE BY <1>5 DEF Fail, TypeOK
<1>6. ASSUME NEW i \in Job, RecoverQueued(i) PROVE FALSE BY <1>6 DEF RecoverQueued, TypeOK
<1>7. ASSUME NEW t \in Tenant, NEW n \in AnyLimit, ChangeLimit(t, n) PROVE FALSE
  BY <1>7 DEF ChangeLimit
<1>8. ASSUME NEW r \in Run, DispatchJobs(r), ~Reserve(r) PROVE FALSE
  BY <1>8 DEF DispatchJobs, BeginRun, Visit, ReturnNone, Raise
<1>9. ASSUME PromoteRetries PROVE FALSE BY <1>9 DEF PromoteRetries
<1>10. ASSUME UNCHANGED vars PROVE FALSE BY <1>10 DEF vars
<1>11. PICK r \in Run : Reserve(r)
  BY <1>1, <1>2, <1>3, <1>4, <1>5, <1>6, <1>7, <1>8, <1>9, <1>10 DEF Next
<1>12. PICK c \in Candidates(r) : \E i \in First(c) : status' = [status EXCEPT ![i] = "QUEUED"]
  BY <1>11 DEF Reserve
<1>13. j \in First(c) BY <1>12 DEF TypeOK
<1> QED BY <1>11, <1>12, <1>13

\* A run that returns forgets what it may have missed.
LEMMA ReturnForgets ==
    ASSUME TypeOK, NEW r \in Run, Return(r), NEW i PROVE i \notin late'[r]
<1> QED BY DEF Return, TypeOK

\* A job that dispatch_next reserves overtakes a waiting job of its tenant only
\* if a cancellation holds that job's row, its key is held, or it became due
\* after the call read its clock.
THEOREM OrderIsKept == Spec => NoOvertaking
<1>1. TypeOK /\ [Next]_vars =>
        [\A i, j \in Job :
            /\ status[i] = "WAITING" /\ status[j] = "WAITING" /\ status'[j] = "QUEUED"
            /\ Precedes(i, j)
            => \/ i \in cancelling \/ KeyHeld(i)
               \/ \E r \in Run : visited[r] = TenantOf[j] /\ i \in late[r] /\ i \notin late'[r]]_vars
  <2> SUFFICES ASSUME TypeOK, [Next]_vars, NEW i \in Job, NEW j \in Job,
                      status[i] = "WAITING", status[j] = "WAITING", status'[j] = "QUEUED",
                      Precedes(i, j), i \notin cancelling, ~KeyHeld(i)
               PROVE  \E r \in Run : visited[r] = TenantOf[j] /\ i \in late[r] /\ i \notin late'[r]
    OBVIOUS
  <2>1. PICK r \in Run : Reserve(r) /\ \E c \in Candidates(r) : j \in First(c)
    BY QueuedByReserve
  <2>2. PICK c \in Candidates(r) : j \in First(c) BY <2>1
  <2>3. j \in JobsOf(visited[r]) BY <2>2, FirstIsRightful
  <2>4. Ahead(i, j) /\ i \in JobsOf(visited[r]) BY <2>3 DEF Precedes, Ahead, JobsOf
  <2>5. ~Visible(r, i) BY <2>2, <2>4, FirstIsRightful
  <2>6. i \in late[r] BY <2>5 DEF Visible
  <2>7. i \notin late'[r] BY <2>1, ReturnForgets DEF Reserve
  <2> QED BY <2>3, <2>6, <2>7 DEF JobsOf
<1> QED BY <1>1, TypesHold, PTL DEF Spec, NoOvertaking

(***************************************************************************)
(* Slots                                                                   *)
(***************************************************************************)

LEMMA SlotsAreCounted ==
    \A t : IsFiniteSet({j \in JobsOf(t) : status[j] = "QUEUED"}) /\ Slots(t) \in Nat
<1> TAKE t
<1>1. IsFiniteSet({j \in JobsOf(t) : status[j] = "QUEUED"}) BY FS_Subset DEF JobsOf
<1> QED BY <1>1, FS_CardinalityType DEF Slots

\* A step adds a slot to a tenant only if its limit is not reached.
LEMMA AddedBelowLimit ==
    ASSUME TypeOK, [Next]_vars, NEW t \in Tenant, NEW j \in JobsOf(t),
           status[j] # "QUEUED", status'[j] = "QUEUED"
    PROVE  Slots(t) < limit[t]
<1>1. PICK r \in Run : Reserve(r) /\ \E c \in Candidates(r) : j \in First(c)
  BY QueuedByReserve DEF JobsOf
<1>2. j \in JobsOf(visited[r]) BY <1>1, FirstIsRightful
<1> QED BY <1>1, <1>2 DEF Reserve, HasCapacity, JobsOf

\* While a tenant has more slots in use than its limit, none is added.
THEOREM LoweredLimitDrains == Spec => OverLimitOnlyDrains
<1>1. TypeOK /\ [Next]_vars => [\A t \in Tenant : Slots(t) > limit[t] => Slots(t)' <= Slots(t)]_vars
  <2> SUFFICES ASSUME TypeOK, [Next]_vars, NEW t \in Tenant, Slots(t) > limit[t]
               PROVE  Slots(t)' <= Slots(t)
    OBVIOUS
  <2>1. ~(Slots(t) < limit[t])
    <3>1. limit[t] \in Nat BY DEF TypeOK, LimitsInForce
    <3>2. Slots(t) \in Nat BY SlotsAreCounted
    <3> QED BY <3>1, <3>2
  <2>2. {j \in JobsOf(t) : status'[j] = "QUEUED"} \subseteq {j \in JobsOf(t) : status[j] = "QUEUED"}
    BY <2>1, AddedBelowLimit
  <2>3. Cardinality({j \in JobsOf(t) : status'[j] = "QUEUED"})
            <= Cardinality({j \in JobsOf(t) : status[j] = "QUEUED"})
    BY <2>2, SlotsAreCounted, FS_Subset
  <2> QED BY <2>3 DEF Slots, JobsOf
<1> QED BY <1>1, TypesHold, PTL DEF Spec, OverLimitOnlyDrains

(***************************************************************************)
(* Keys                                                                    *)
(***************************************************************************)

KeysExclude ==
    \A i, j \in Job :
        i # j /\ status[i] = "QUEUED" /\ status[j] = "QUEUED" => <<i, j>> \notin Exclusive

\* Reading a held key off the statuses, as this module does for the table of
\* overlap locks, lets in at most one of the jobs that share a key, whatever
\* the order of priorities and the number of runs.
THEOREM KeysAreExclusive == Spec => []KeysExclude
<1>1. Init => KeysExclude BY DEF Init, KeysExclude
<1>2. TypeOK /\ KeysExclude /\ [Next]_vars => KeysExclude'
  <2> SUFFICES ASSUME TypeOK, KeysExclude, [Next]_vars, NEW i \in Job, NEW j \in Job, i # j,
                      status'[i] = "QUEUED", status'[j] = "QUEUED", <<i, j>> \in Exclusive
               PROVE  FALSE
    BY DEF KeysExclude
  <2>1. <<j, i>> \in Exclusive OBVIOUS
  <2>2. ASSUME NEW k \in Job, NEW l \in Job, k # l, <<k, l>> \in Exclusive,
               status[l] # "QUEUED", status'[k] = "QUEUED", status'[l] = "QUEUED"
        PROVE  FALSE
    <3>1. PICK r \in Run : Reserve(r) /\ \E c \in Candidates(r) : l \in First(c)
      BY <2>2, QueuedByReserve
    <3>2. PICK c \in Candidates(r) : \E m \in First(c) :
            m \notin NoObject /\ status' = [status EXCEPT ![m] = "QUEUED"]
      BY <3>1 DEF Reserve
    <3>3. PICK m \in First(c) : m \notin NoObject /\ status' = [status EXCEPT ![m] = "QUEUED"]
      BY <3>2
    <3>4. m = l BY <2>2, <3>3 DEF TypeOK
    <3>5. ~KeyHeld(l) BY <3>3, <3>4, FirstIsRightful
    <3>6. status[k] = "QUEUED" BY <2>2, <3>3, <3>4 DEF TypeOK
    <3> QED BY <2>2, <3>5, <3>6 DEF KeyHeld
  <2>3. status[i] = "QUEUED" BY <2>1, <2>2
  <2>4. status[j] = "QUEUED" BY <2>2
  <2> QED BY <2>3, <2>4 DEF KeysExclude
<1> QED BY <1>1, <1>2, TypesHold, PTL DEF Spec
=============================================================================
