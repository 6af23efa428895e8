-------------------------- MODULE IdempotentStore --------------------------
(***************************************************************************)
(* What POST /jobs/ promises to clients that repeat a request: one job per *)
(* idempotency key, made at one instant by one of the requests; every      *)
(* answer names that job, and tells the request that made it from the      *)
(* others.                                                                 *)
(***************************************************************************)
CONSTANTS
    Request,
    Key,        \* pairs of a tenant and an idempotency key
    KeyOf,      \* the key a request carries
    None

VARIABLES
    store,      \* the job of a key, named by the request that made it
    answer      \* what a request was answered

vars == <<store, answer>>

Init ==
    /\ store = [k \in Key |-> None]
    /\ answer = [r \in Request |-> None]

Put(r) ==
    /\ store[KeyOf[r]] = None
    /\ store' = [store EXCEPT ![KeyOf[r]] = r]
    /\ UNCHANGED answer

Reply(r) ==
    LET job == store[KeyOf[r]] IN
    /\ job # None
    /\ answer[r] = None
    /\ answer' = [answer EXCEPT ![r] = [job |-> job, created |-> job = r]]
    /\ UNCHANGED store

Next == \E r \in Request : Put(r) \/ Reply(r)

Spec == Init /\ [][Next]_vars
=============================================================================
