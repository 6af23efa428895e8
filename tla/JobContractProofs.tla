------------------------- MODULE JobContractProofs -------------------------
(***************************************************************************)
(* What JobContract promises, as consequences of its steps: whatever       *)
(* implements the contract keeps the limit of every tenant, the exclusion  *)
(* of jobs that share a resource and the bound on executions.              *)
(***************************************************************************)
EXTENDS JobContract, FiniteSetTheorems, TLAPS

\* What JobLifecycle gives the contract for its constants.
Attributes ==
    /\ IsFiniteSet(Job)
    /\ TenantOf \in [Job -> Tenant]
    /\ MaxConcurrent \in [Tenant -> Nat]
    /\ MaxTries \in Nat
    /\ \A i, j \in Job : <<i, j>> \in Exclusive => <<j, i>> \in Exclusive

ContractTypes ==
    /\ phase \in [Job -> {"absent", "pending", "running", "done"}]
    /\ tries \in [Job -> 0 .. MaxTries]

LimitKept == \A t \in Tenant : Cardinality(Running(t)) <= MaxConcurrent[t]

ExclusionKept ==
    \A i, j \in Job :
        i # j /\ phase[i] = "running" /\ phase[j] = "running" => <<i, j>> \notin Exclusive

\* A job that is through never leaves its end, nor starts another execution.
EndsOnce ==
    [][\A j \in Job : phase[j] = "done" => phase'[j] = "done" /\ tries'[j] = tries[j]]_vars

Promise == ContractTypes /\ LimitKept /\ ExclusionKept

LEMMA RunningCounted ==
    ASSUME Attributes
    PROVE  \A t : IsFiniteSet(Running(t)) /\ Cardinality(Running(t)) \in Nat
<1> TAKE t
<1>1. IsFiniteSet(Running(t)) BY FS_Subset DEF Running, Attributes
<1> QED BY <1>1, FS_CardinalityType

\* The limit and the exclusion survive as long as nobody starts to run.
LEMMA FewerRun ==
    ASSUME Attributes, Promise, \A j \in Job : phase'[j] = "running" => phase[j] = "running"
    PROVE  LimitKept' /\ ExclusionKept'
<1>1. ExclusionKept' BY DEF Promise, ExclusionKept
<1>2. ASSUME NEW t \in Tenant PROVE Cardinality(Running(t)') <= MaxConcurrent[t]
  <2>1. Running(t)' \subseteq Running(t) BY DEF Running
  <2>2. Cardinality(Running(t)') <= Cardinality(Running(t)) /\ Cardinality(Running(t)') \in Nat
    BY <2>1, RunningCounted, FS_Subset, FS_CardinalityType
  <2>3. Cardinality(Running(t)) <= MaxConcurrent[t] BY DEF Promise, LimitKept
  <2>4. Cardinality(Running(t)) \in Nat /\ MaxConcurrent[t] \in Nat
    BY RunningCounted DEF Attributes
  <2> QED BY <2>2, <2>3, <2>4
<1>3. LimitKept' BY <1>2 DEF LimitKept, Running
<1> QED BY <1>1, <1>3

LEMMA ReservePromise ==
    ASSUME Attributes, Promise, NEW j \in Job, Reserve(j)
    PROVE  Promise'
<1>1. ContractTypes' BY DEF Promise, ContractTypes, Reserve
<1>2. ExclusionKept'
  <2> SUFFICES ASSUME NEW i \in Job, NEW k \in Job, i # k,
                      phase'[i] = "running", phase'[k] = "running", <<i, k>> \in Exclusive
               PROVE  FALSE
    BY DEF ExclusionKept
  <2>1. <<k, i>> \in Exclusive BY DEF Attributes
  <2>2. \A l \in Job \ {j} : phase'[l] = phase[l]
    BY DEF Promise, ContractTypes, Reserve
  <2>3. \A l \in Job : phase[l] = "running" => <<j, l>> \notin Exclusive BY DEF Reserve
  <2>4. CASE i = j BY <2>1, <2>2, <2>3, <2>4
  <2>5. CASE k = j BY <2>1, <2>2, <2>3, <2>5
  <2>6. CASE i # j /\ k # j BY <2>2, <2>6 DEF Promise, ExclusionKept
  <2> QED BY <2>4, <2>5, <2>6
<1>3. ASSUME NEW t \in Tenant PROVE Cardinality(Running(t)') <= MaxConcurrent[t]
  <2>1. CASE t # TenantOf[j]
    <3>1. Running(t)' = Running(t)
      BY <2>1 DEF Running, Promise, ContractTypes, Reserve
    <3> QED BY <3>1 DEF Promise, LimitKept
  <2>2. CASE t = TenantOf[j]
    <3>1. Running(t)' = Running(t) \cup {j} /\ j \notin Running(t)
      BY <2>2 DEF Running, Promise, ContractTypes, Reserve
    <3>2. Cardinality(Running(t)') = Cardinality(Running(t)) + 1
      BY <3>1, RunningCounted, FS_AddElement
    <3>3. Cardinality(Running(t)) < MaxConcurrent[t] BY <2>2 DEF Reserve
    <3>4. Cardinality(Running(t)) \in Nat /\ MaxConcurrent[t] \in Nat
      BY RunningCounted DEF Attributes
    <3> QED BY <3>2, <3>3, <3>4
  <2> QED BY <2>1, <2>2
<1>4. LimitKept' BY <1>3 DEF LimitKept, Running
<1> QED BY <1>1, <1>2, <1>4 DEF Promise

\* A contract that is kept keeps its promise: at every time at most
\* max_concurrent_jobs of a tenant hold a slot, no two jobs of one resource, and
\* no job has been executed more often than allowed.
THEOREM PromiseKept == ASSUME Attributes PROVE Spec => []Promise
<1>1. Init => Promise
  <2> SUFFICES ASSUME Init PROVE Promise OBVIOUS
  <2>1. ContractTypes /\ ExclusionKept
    BY DEF Init, ContractTypes, ExclusionKept, Attributes
  <2>2. \A t \in Tenant : Running(t) = {} BY DEF Init, Running
  <2>3. LimitKept BY <2>2, FS_EmptySet DEF LimitKept, Attributes
  <2> QED BY <2>1, <2>3 DEF Promise
<1>2. Promise /\ [Next]_vars => Promise'
  <2> SUFFICES ASSUME Promise, [Next]_vars PROVE Promise' OBVIOUS
  <2>1. ASSUME NEW j \in Job, Submit(j) \/ Execute(j) \/ Requeue(j) \/ Finish(j) PROVE Promise'
    <3>1. ContractTypes'
      BY <2>1 DEF Submit, Execute, Requeue, Finish, Promise, ContractTypes, Attributes
    <3>2. \A i \in Job : phase'[i] = "running" => phase[i] = "running"
      BY <2>1 DEF Submit, Execute, Requeue, Finish, Promise, ContractTypes
    <3> QED BY <3>1, <3>2, FewerRun DEF Promise
  <2>2. CASE UNCHANGED vars
    <3>1. \A i \in Job : phase'[i] = "running" => phase[i] = "running"
      BY <2>2 DEF vars
    <3> QED BY <2>2, <3>1, FewerRun DEF vars, Promise, ContractTypes
  <2> QED BY <2>1, <2>2, ReservePromise DEF Next
<1> QED BY <1>1, <1>2, PTL DEF Spec

\* Under the contract no step undoes an end: EndsOnce.
THEOREM EndsOnceKept == ASSUME Attributes PROVE Spec => EndsOnce
<1>1. Promise /\ [Next]_vars =>
        [\A j \in Job : phase[j] = "done" => phase'[j] = "done" /\ tries'[j] = tries[j]]_vars
  BY DEF Promise, ContractTypes, Next, Submit, Reserve, Execute, Requeue, Finish, vars
<1> QED BY <1>1, PromiseKept, PTL DEF Spec, EndsOnce
=============================================================================
