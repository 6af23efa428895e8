--------------------------- MODULE MCJobLifecycle ---------------------------
(***************************************************************************)
(* Small instances of JobLifecycle: the values its configurations give to  *)
(* the constants, the symmetry of equal jobs and the bounds.               *)
(***************************************************************************)
EXTENDS JobLifecycle, TLC

CONSTANTS j1, j2, t1, k1

OneJob == {j1}
TwoJobs == {j1, j2}
OneTenant == {t1}
OneKey == {k1}
OneTenantOf == [j \in Job |-> t1]

\* The jobs share no resource, or exclude each other.
NoKeys == [j \in Job |-> NoKey]
SharedKey == [j \in Job |-> k1]

LimitOne == [t \in Tenant |-> 1]
LimitTwo == [t \in Tenant |-> 2]

NoJob == {}
AllJobs == Job
SecondJob == {j2}

NoFaults == {}
SlowRecovery == {"slow_pickup", "reaper_overlap"}
LateReports == {"lease_lapse", "commit_unknown"} \cup SlowRecovery
LeaseLapse == {"lease_lapse"}
IndexFaults == {"api_crash"} \cup SlowRecovery
ApiCrashes == {"api_crash"}

\* Jobs with equal attributes are interchangeable.
Symmetry == Permutations(Job)

\* At most one finding of the reapers is outstanding at a time.
SmallBatches == Cardinality(suspect) + Cardinality(overdue) <= 1

\* An API request has refreshed the index before a worker claims its job.
PromptRequests ==
    \A j \in Job : apiRequest[j] \in Unrefreshed
                      => status[j] \in {"WAITING", "QUEUED", "CANCELLED"}
=============================================================================
