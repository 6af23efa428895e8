---------------------------- MODULE MCLockOrder ----------------------------
(***************************************************************************)
(* An instance of LockOrder: a tenant with two jobs that exclude each      *)
(* other, a tenant with a job without a key, three connections.            *)
(***************************************************************************)
EXTENDS LockOrder

CONSTANTS p1, p2, p3, j1, j2, j3, t1, t2

\* A worker or API process, and two that run the periodic tasks.
Roles == [p \in Process |->
    CASE p = p1 -> {"report", "replay"}
      [] p = p2 -> {"abandon", "dispatch", "promote"}
      [] OTHER  -> {"recover", "dispatch", "promote"}]

ThreeProcesses == {p1, p2, p3}
ThreeJobs == {j1, j2, j3}
TwoTenants == {t1, t2}
PairAndOne == [j \in Job |-> IF j = j3 THEN t2 ELSE t1]
PairShares == {j1, j2} \X {j1, j2}
=============================================================================
