----------------------------- MODULE MCDispatch -----------------------------
(***************************************************************************)
(* Instances of Dispatch: a tenant whose jobs with one overlap key fill    *)
(* the candidates and hide a job without a key, beside a job that brings a *)
(* list, and two tenants with a job each.                                  *)
(***************************************************************************)
EXTENDS Dispatch

CONSTANTS a1, a2, a3, b1, ta, tb

FourJobs == {a1, a2, a3, b1}
TwoJobs == {a1, b1}
TwoTenants == {ta, tb}
OneTenant == {ta}
OneOwner == [j \in Job |-> ta]
TwoOwners == [j \in Job |-> IF j = b1 THEN tb ELSE ta]
KeyShared == {a1, a2} \X {a1, a2}
NoKeys == {}
\* The job without a key has the lowest priority, the list the highest.
Ranks == [j \in Job |-> CASE j = a3 -> 5 [] j = b1 -> 1 [] OTHER -> 3]
\* An operator lowers and raises the limit.
RaisedAndLowered == [t \in Tenant |-> {0, 2}]
LimitOne == [t \in Tenant |-> {1}]
\* One job brings a list.
ListPayload == {b1}
\* The order of ready_since matters between jobs of one priority.
EarlierOrLater == [j \in Job |-> IF j \in {a1, a2} THEN Instant ELSE {1}]
=============================================================================
