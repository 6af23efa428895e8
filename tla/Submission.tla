----------------------------- MODULE Submission -----------------------------
(***************************************************************************)
(* POST /jobs/ by concurrent clients that repeat requests under one        *)
(* idempotency key: JobListCreateView.create over submit_job, statement by *)
(* statement, under READ COMMITTED and the constraint                      *)
(* uq_job_tenant_idempotency_key.                                          *)
(*                                                                         *)
(* Each request is one call of create, with a process of its own; a client *)
(* that repeats a request issues another one with the same key.  The job a *)
(* request inserts is named by the request.  An inserted row is seen by    *)
(* others only when its transaction commits; until then an insert of the   *)
(* same key waits.  A process may die at any point, and PostgreSQL then    *)
(* rolls its open transaction back.                                        *)
(***************************************************************************)
EXTENDS FiniteSets

CONSTANTS
    Request,    \* calls of create
    Key,        \* pairs of a tenant and an idempotency key
    KeyOf,      \* the key of a request: from a header, the body, or a fresh uuid
    None

ASSUME KeysAssumption ==
    /\ KeyOf \in [Request -> Key]
    /\ None \notin Request

VARIABLES
    step,       \* where a request stands, see Steps
    row,        \* the committed row of a key
    found,      \* the job a request holds in its variable job
    answer,     \* the HTTP answer: the job and 201 (created) or 200
    refreshed   \* jobs after whose insert the scheduler's index was refreshed

vars == <<step, row, found, answer, refreshed>>

\* received: not begun; unmatched: the fast path found no row; inserted: the
\* savepoint is released, the transaction is open; conflict: IntegrityError;
\* matched: an existing row was read; committed: the new job is committed;
\* notified: refresh_scheduler_state is done; raised: DoesNotExist.
Open == {"unmatched", "inserted", "conflict", "matched", "committed", "notified"}
Steps == {"received", "answered", "died", "raised"} \cup Open

TypeOK ==
    /\ step \in [Request -> Steps]
    /\ row \in [Key -> Request \cup {None}]
    /\ found \in [Request -> Request \cup {None}]
    /\ answer \in [Request -> [job : Request, created : BOOLEAN] \cup {None}]
    /\ refreshed \subseteq Request

Init ==
    /\ step = [r \in Request |-> "received"]
    /\ row = [k \in Key |-> None]
    /\ found = [r \in Request |-> None]
    /\ answer = [r \in Request |-> None]
    /\ refreshed = {}

\* The requests whose uncommitted insert of the key of r is in the index.
Inserting(r) == {s \in Request : step[s] = "inserted" /\ KeyOf[s] = KeyOf[r]}

-----------------------------------------------------------------------------
(* submit_job *)

\* Mutant of CheckKey: the query sees rows that are not committed.
CheckKeyDirty(r) ==
    LET seen == {row[KeyOf[r]]} \cup Inserting(r) IN
    /\ step[r] = "received"
    /\ \E s \in seen :
        /\ step' = [step EXCEPT ![r] = IF s = None THEN "unmatched" ELSE "matched"]
        /\ found' = [found EXCEPT ![r] = s]
    /\ UNCHANGED <<row, answer, refreshed>>
\* Mutant of CheckKey: the result of the query is returned without a test.
CheckKeyUntested(r) ==
    /\ step[r] = "received"
    /\ step' = [step EXCEPT ![r] = "matched"]
    /\ found' = [found EXCEPT ![r] = row[KeyOf[r]]]
    /\ UNCHANGED <<row, answer, refreshed>>
\* Step 1: the query for a job with the key.
CheckKey(r) ==
    /\ step[r] = "received"
    /\ step' = [step EXCEPT ![r] = IF row[KeyOf[r]] = None THEN "unmatched" ELSE "matched"]
    /\ found' = [found EXCEPT ![r] = row[KeyOf[r]]]
    /\ UNCHANGED <<row, answer, refreshed>>

\* Mutant of InsertRow: there is no unique constraint.
InsertUnchecked(r) ==
    /\ step[r] = "unmatched"
    /\ step' = [step EXCEPT ![r] = "inserted"]
    /\ found' = [found EXCEPT ![r] = r]
    /\ UNCHANGED <<row, answer, refreshed>>
\* Step 2: the insert succeeds, since no other row has the key.
InsertRow(r) ==
    /\ step[r] = "unmatched"
    /\ row[KeyOf[r]] = None
    /\ Inserting(r) = {}
    /\ step' = [step EXCEPT ![r] = "inserted"]
    /\ found' = [found EXCEPT ![r] = r]
    /\ UNCHANGED <<row, answer, refreshed>>

\* Mutant of InsertConflict: the insert does not wait for the other transaction.
ConflictUncommitted(r) ==
    /\ step[r] = "unmatched"
    /\ row[KeyOf[r]] # None \/ Inserting(r) # {}
    /\ step' = [step EXCEPT ![r] = "conflict"]
    /\ UNCHANGED <<row, found, answer, refreshed>>
\* Step 2: the insert violates the constraint; only the savepoint is lost.
InsertConflict(r) ==
    /\ step[r] = "unmatched"
    /\ row[KeyOf[r]] # None
    /\ step' = [step EXCEPT ![r] = "conflict"]
    /\ UNCHANGED <<row, found, answer, refreshed>>

\* Mutant of ReadWinner: the insert is tried again.
InsertAgain(r) ==
    /\ step[r] = "conflict"
    /\ step' = [step EXCEPT ![r] = "unmatched"]
    /\ UNCHANGED <<row, found, answer, refreshed>>
\* Step 3: get() the row of the request that was faster.
ReadWinner(r) ==
    /\ step[r] = "conflict"
    /\ step' = [step EXCEPT ![r] = IF row[KeyOf[r]] = None THEN "raised" ELSE "matched"]
    /\ found' = [found EXCEPT ![r] = row[KeyOf[r]]]
    /\ UNCHANGED <<row, answer, refreshed>>

\* The transaction that inserted the job commits.
CommitInsert(r) ==
    /\ step[r] = "inserted"
    /\ row' = [row EXCEPT ![KeyOf[r]] = r]
    /\ step' = [step EXCEPT ![r] = "committed"]
    /\ UNCHANGED <<found, answer, refreshed>>

-----------------------------------------------------------------------------
(* create, after submit_job *)

\* Mutant of RefreshIndex: the scheduler is not told of new jobs.
RefreshOmitted(r) ==
    /\ step[r] = "committed"
    /\ step' = [step EXCEPT ![r] = "notified"]
    /\ UNCHANGED <<row, found, answer, refreshed>>
\* if created: refresh_scheduler_state(job.tenant_id)
RefreshIndex(r) ==
    /\ step[r] = "committed"
    /\ refreshed' = refreshed \cup {r}
    /\ step' = [step EXCEPT ![r] = "notified"]
    /\ UNCHANGED <<row, found, answer>>

Answer(r) ==
    /\ step[r] \in {"matched", "notified"}
    /\ answer' = [answer EXCEPT ![r] = [job |-> found[r], created |-> step[r] = "notified"]]
    /\ step' = [step EXCEPT ![r] = "answered"]
    /\ UNCHANGED <<row, found, refreshed>>

\* The process or its connection dies; an uncommitted insert is rolled back.
Die(r) ==
    /\ step[r] \in Open
    /\ step' = [step EXCEPT ![r] = "died"]
    /\ UNCHANGED <<row, found, answer, refreshed>>

Progress(r) ==
    \/ InsertRow(r)
    \/ InsertConflict(r)
    \/ ReadWinner(r)
    \/ CommitInsert(r)
    \/ RefreshIndex(r)
    \/ Answer(r)

Next == \E r \in Request : CheckKey(r) \/ Progress(r) \/ Die(r)

Spec == Init /\ [][Next]_vars

\* A process that lives goes on, as soon as the database lets it.
Fairness == \A r \in Request : WF_vars(Progress(r))

FairSpec == Spec /\ Fairness

-----------------------------------------------------------------------------

\* However requests with one key overlap, die and are repeated: every answer
\* names the key's committed job, and only the request that made it hears 201.
AnswersAgree ==
    \A r \in Request : answer[r] # None =>
        /\ answer[r].job = row[KeyOf[r]]
        /\ answer[r].created <=> answer[r].job = r

\* The re-read after an IntegrityError finds a job: an insert fails only
\* against a row that is committed, not against one that may yet vanish.
ReReadFinds == \A r \in Request : step[r] # "raised"

\* The inductive invariant: what a request holds is committed, or its own, and
\* a committed row was made by a request of its key that has got that far.
HeldIsReal ==
    \A r \in Request :
        /\ step[r] \in {"matched", "committed", "notified"} => found[r] = row[KeyOf[r]]
        /\ step[r] = "matched" => found[r] \in Request \ {r}
        /\ step[r] \in {"inserted", "committed", "notified"} => found[r] = r
        /\ step[r] = "inserted" => row[KeyOf[r]] = None /\ Inserting(r) = {r}
        /\ step[r] = "conflict" => row[KeyOf[r]] \in Request
        /\ answer[r] # None => step[r] = "answered"
        /\ \A k \in Key : row[k] = r =>
            KeyOf[r] = k /\ step[r] \in {"committed", "notified", "answered", "died"}

\* No request waits for ever behind the transactions of the others, whether
\* these commit, or die and leave the key to the next one.
EveryRequestAnswered ==
    \A r \in Request : step[r] \in Open ~> step[r] \in {"answered", "died"}

\* A new job is brought to the scheduler's notice, unless the process that
\* made it dies; no repetition of the request does so in its place.
CreatedIsRefreshed ==
    \A r \in Request : row[KeyOf[r]] = r ~> r \in refreshed \/ step[r] = "died"

\* The statements of submit_job together act as the one step of IdempotentStore.
Store == INSTANCE IdempotentStore WITH store <- row
ActsAtOnce == Store!Spec
=============================================================================
