-------------------------- MODULE SubmissionProofs --------------------------
(***************************************************************************)
(* Proofs about Submission for any number of requests and keys: the        *)
(* inductive invariant, what follows from it for the answers, and that     *)
(* submit_job acts as the one step of IdempotentStore.                     *)
(***************************************************************************)
EXTENDS Submission, TLAPS

Inv == TypeOK /\ HeldIsReal /\ AnswersAgree /\ ReReadFinds

LEMMA InitInv == Init => Inv
BY KeysAssumption DEF Init, Inv, TypeOK, HeldIsReal, AnswersAgree, ReReadFinds, Steps

\* Until a request has inserted a job, the row of its key is another's.
LEMMA NotMadeYet ==
    ASSUME TypeOK, HeldIsReal, NEW r \in Request,
           step[r] \in {"received", "unmatched", "conflict"}
    PROVE  row[KeyOf[r]] \in (Request \ {r}) \cup {None}
<1>1. KeyOf[r] \in Key
  BY KeysAssumption
<1>2. row[KeyOf[r]] \in Request \cup {None}
  BY <1>1 DEF TypeOK
<1>3. row[KeyOf[r]] # r
  BY <1>1 DEF HeldIsReal
<1> QED BY <1>2, <1>3

LEMMA CheckKeyInv == ASSUME Inv, NEW r \in Request, CheckKey(r) PROVE Inv'
<1> USE KeysAssumption DEF CheckKey
<1>1. TypeOK'
  BY DEF Inv, TypeOK, Steps, Open
<1>2. HeldIsReal'
  <2>1. \A s \in Request : Inserting(s)' = Inserting(s)
    BY DEF Inv, TypeOK, Inserting
  <2>2. row[KeyOf[r]] # None => row[KeyOf[r]] \in Request \ {r}
    BY NotMadeYet DEF Inv
  <2>3. /\ \/ step'[r] = "matched" /\ row[KeyOf[r]] # None
           \/ step'[r] = "unmatched"
        /\ found'[r] = row[KeyOf[r]]
    BY DEF Inv, TypeOK
  <2> QED BY <2>1, <2>2, <2>3 DEF Inv, TypeOK, HeldIsReal
<1>3. AnswersAgree' /\ ReReadFinds'
  BY DEF Inv, TypeOK, AnswersAgree, ReReadFinds
<1> QED BY <1>1, <1>2, <1>3 DEF Inv

LEMMA InsertRowInv == ASSUME Inv, NEW r \in Request, InsertRow(r) PROVE Inv'
<1> USE KeysAssumption DEF InsertRow
<1>1. TypeOK'
  BY DEF Inv, TypeOK, Steps, Open
<1>2. HeldIsReal'
  BY DEF Inv, TypeOK, HeldIsReal, Inserting
<1>3. AnswersAgree' /\ ReReadFinds'
  BY DEF Inv, TypeOK, AnswersAgree, ReReadFinds
<1> QED BY <1>1, <1>2, <1>3 DEF Inv

LEMMA InsertConflictInv == ASSUME Inv, NEW r \in Request, InsertConflict(r) PROVE Inv'
<1> USE KeysAssumption DEF InsertConflict
<1>1. TypeOK'
  BY DEF Inv, TypeOK, Steps, Open
<1>2. HeldIsReal'
  <2>1. \A s \in Request : Inserting(s)' = Inserting(s)
    BY DEF Inv, TypeOK, Inserting
  <2>2. row[KeyOf[r]] \in Request
    BY NotMadeYet DEF Inv
  <2> QED BY <2>1, <2>2 DEF Inv, TypeOK, HeldIsReal
<1>3. AnswersAgree' /\ ReReadFinds'
  BY DEF Inv, TypeOK, AnswersAgree, ReReadFinds
<1> QED BY <1>1, <1>2, <1>3 DEF Inv

LEMMA ReadWinnerInv == ASSUME Inv, NEW r \in Request, ReadWinner(r) PROVE Inv'
<1> USE KeysAssumption DEF ReadWinner
<1>1. row[KeyOf[r]] # None
  BY DEF Inv, HeldIsReal
<1>2. TypeOK'
  BY <1>1 DEF Inv, TypeOK, Steps, Open
<1>3. HeldIsReal'
  <2>1. \A s \in Request : Inserting(s)' = Inserting(s)
    BY <1>1 DEF Inv, TypeOK, Inserting
  <2>2. step'[r] = "matched" /\ found'[r] = row[KeyOf[r]] /\ row[KeyOf[r]] \in Request \ {r}
    BY <1>1, NotMadeYet DEF Inv, TypeOK
  <2> QED BY <2>1, <2>2 DEF Inv, TypeOK, HeldIsReal
<1>4. AnswersAgree' /\ ReReadFinds'
  BY <1>1 DEF Inv, TypeOK, AnswersAgree, ReReadFinds
<1> QED BY <1>2, <1>3, <1>4 DEF Inv

LEMMA CommitInsertInv == ASSUME Inv, NEW r \in Request, CommitInsert(r) PROVE Inv'
<1> USE KeysAssumption DEF CommitInsert
<1>1. row[KeyOf[r]] = None /\ found[r] = r /\ KeyOf[r] \in Key
  BY DEF Inv, HeldIsReal
<1>2. TypeOK'
  BY DEF Inv, TypeOK, Steps, Open
<1>3. HeldIsReal'
  BY <1>1 DEF Inv, TypeOK, HeldIsReal, Inserting
<1>4. AnswersAgree' /\ ReReadFinds'
  BY <1>1 DEF Inv, TypeOK, AnswersAgree, ReReadFinds
<1> QED BY <1>2, <1>3, <1>4 DEF Inv

LEMMA RefreshIndexInv == ASSUME Inv, NEW r \in Request, RefreshIndex(r) PROVE Inv'
<1> USE KeysAssumption DEF RefreshIndex
<1>1. TypeOK'
  BY DEF Inv, TypeOK, Steps, Open
<1>2. HeldIsReal'
  BY DEF Inv, TypeOK, HeldIsReal, Inserting
<1>3. AnswersAgree' /\ ReReadFinds'
  BY DEF Inv, TypeOK, AnswersAgree, ReReadFinds
<1> QED BY <1>1, <1>2, <1>3 DEF Inv

LEMMA AnswerInv == ASSUME Inv, NEW r \in Request, Answer(r) PROVE Inv'
<1> USE KeysAssumption DEF Answer
<1>1. found[r] = row[KeyOf[r]] /\ found[r] \in Request
  BY DEF Inv, HeldIsReal
<1>2. TypeOK'
  BY <1>1 DEF Inv, TypeOK, Steps, Open
<1>3. HeldIsReal'
  BY DEF Inv, TypeOK, HeldIsReal, Inserting
<1>4. answer'[r].created <=> answer'[r].job = r
  BY DEF Inv, TypeOK, HeldIsReal
<1>5. AnswersAgree' /\ ReReadFinds'
  BY <1>1, <1>4 DEF Inv, TypeOK, AnswersAgree, ReReadFinds
<1> QED BY <1>2, <1>3, <1>5 DEF Inv

LEMMA DieInv == ASSUME Inv, NEW r \in Request, Die(r) PROVE Inv'
<1> USE KeysAssumption DEF Die
<1>1. TypeOK'
  BY DEF Inv, TypeOK, Steps, Open
<1>2. HeldIsReal'
  BY DEF Inv, TypeOK, HeldIsReal, Inserting, Open
<1>3. AnswersAgree' /\ ReReadFinds'
  BY DEF Inv, TypeOK, AnswersAgree, ReReadFinds
<1> QED BY <1>1, <1>2, <1>3 DEF Inv

LEMMA StepInv == Inv /\ [Next]_vars => Inv'
<1>1. ASSUME Inv, UNCHANGED vars PROVE Inv'
  BY <1>1 DEF Inv, TypeOK, HeldIsReal, AnswersAgree, ReReadFinds, Inserting, vars
<1>2. ASSUME Inv, NEW r \in Request, CheckKey(r) \/ Progress(r) \/ Die(r) PROVE Inv'
  BY <1>2, CheckKeyInv, InsertRowInv, InsertConflictInv, ReadWinnerInv, CommitInsertInv,
     RefreshIndexInv, AnswerInv, DieInv DEF Progress
<1> QED BY <1>1, <1>2 DEF Next

\* What a request holds in its variables is committed or its own insert, in
\* every interleaving of any number of requests, deaths and repetitions.
THEOREM HeldCorrect == Spec => [](TypeOK /\ HeldIsReal)
<1>1. Inv => TypeOK /\ HeldIsReal
  BY DEF Inv
<1> QED BY <1>1, InitInv, StepInv, PTL DEF Spec

\* Types: no request ends with an answer that names no job.
THEOREM TypesCorrect == Spec => []TypeOK
BY HeldCorrect, PTL

\* All answers to requests with one key name its one committed job, and only
\* the request that made it is told that it was created.
THEOREM AnswersCorrect == Spec => []AnswersAgree
<1>1. Inv => AnswersAgree
  BY DEF Inv
<1> QED BY <1>1, InitInv, StepInv, PTL DEF Spec

\* The get() that follows an IntegrityError never raises DoesNotExist.
THEOREM ReReadCorrect == Spec => []ReReadFinds
<1>1. Inv => ReReadFinds
  BY DEF Inv
<1> QED BY <1>1, InitInv, StepInv, PTL DEF Spec

-----------------------------------------------------------------------------

LEMMA StoreStep == Inv /\ [Next]_vars => [Store!Next]_(Store!vars)
<1> SUFFICES ASSUME Inv, [Next]_vars PROVE [Store!Next]_(Store!vars)
  OBVIOUS
<1> USE KeysAssumption
<1>1. ASSUME NEW r \in Request, CommitInsert(r) PROVE Store!Put(r)
  BY <1>1 DEF Inv, HeldIsReal, CommitInsert, Store!Put
<1>2. ASSUME NEW r \in Request, Answer(r) PROVE Store!Reply(r)
  <2>1. found[r] = row[KeyOf[r]] /\ row[KeyOf[r]] \in Request /\ answer[r] = None
    BY <1>2 DEF Inv, HeldIsReal, Answer
  <2>2. step[r] = "notified" <=> row[KeyOf[r]] = r
    BY <1>2 DEF Inv, HeldIsReal, Answer
  <2> QED BY <1>2, <2>1, <2>2 DEF Answer, Store!Reply
<1>3. ASSUME NEW r \in Request,
             CheckKey(r) \/ InsertRow(r) \/ InsertConflict(r) \/ ReadWinner(r)
             \/ RefreshIndex(r) \/ Die(r)
      PROVE  UNCHANGED Store!vars
  BY <1>3 DEF CheckKey, InsertRow, InsertConflict, ReadWinner, RefreshIndex, Die, Store!vars
<1>4. CASE UNCHANGED vars
  BY <1>4 DEF vars, Store!vars
<1> QED BY <1>1, <1>2, <1>3, <1>4 DEF Next, Progress, Store!Next

\* The statements of submit_job, with their waits and their savepoint, act as
\* one step that makes the job of a key or finds it.
THEOREM ActsAtOnceCorrect == Spec => ActsAtOnce
<1>1. Init => Store!Init
  BY DEF Init, Store!Init
<1> QED BY <1>1, InitInv, StepInv, StoreStep, PTL DEF Spec, ActsAtOnce, Store!Spec
=============================================================================
