---------------------------- MODULE JobContract ----------------------------
(***************************************************************************)
(* What the orchestrator promises about jobs, without its tables, queues,  *)
(* leases and periodic tasks: a submitted job waits until its tenant has a *)
(* free slot and its resource is free, is executed a bounded number of     *)
(* times, and ends once.                                                   *)
(***************************************************************************)
EXTENDS Integers, FiniteSets

CONSTANTS
    Job,
    Tenant,
    TenantOf,
    MaxConcurrent,  \* slots per tenant
    MaxTries,       \* executions per job
    Exclusive       \* pairs of jobs that may not hold slots together

VARIABLES
    phase,          \* absent, pending, running (holds a slot), done
    tries           \* executions started so far

vars == <<phase, tries>>

Running(t) == {j \in Job : TenantOf[j] = t /\ phase[j] = "running"}

Init ==
    /\ phase = [j \in Job |-> "absent"]
    /\ tries = [j \in Job |-> 0]

Submit(j) ==
    /\ phase[j] = "absent"
    /\ phase' = [phase EXCEPT ![j] = "pending"]
    /\ UNCHANGED tries

\* Job j gets a slot.
Reserve(j) ==
    /\ phase[j] = "pending"
    /\ Cardinality(Running(TenantOf[j])) < MaxConcurrent[TenantOf[j]]
    /\ \A k \in Job : phase[k] = "running" => <<j, k>> \notin Exclusive
    /\ phase' = [phase EXCEPT ![j] = "running"]
    /\ UNCHANGED tries

\* An execution of j starts.
Execute(j) ==
    /\ phase[j] = "running"
    /\ tries[j] < MaxTries
    /\ tries' = [tries EXCEPT ![j] = @ + 1]
    /\ UNCHANGED phase

\* Job j gives its slot back and waits, with an execution left to it.
Requeue(j) ==
    /\ phase[j] = "running"
    /\ tries[j] < MaxTries
    /\ phase' = [phase EXCEPT ![j] = "pending"]
    /\ UNCHANGED tries

\* Job j succeeds, fails for good or is cancelled.
Finish(j) ==
    /\ phase[j] \in {"pending", "running"}
    /\ phase' = [phase EXCEPT ![j] = "done"]
    /\ UNCHANGED tries

Next ==
    \E j \in Job : Submit(j) \/ Reserve(j) \/ Execute(j) \/ Requeue(j) \/ Finish(j)

Spec == Init /\ [][Next]_vars
=============================================================================
