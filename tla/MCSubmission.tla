---------------------------- MODULE MCSubmission ----------------------------
(***************************************************************************)
(* An instance of Submission: three requests repeat one key, a fourth has  *)
(* a key of its own.                                                       *)
(***************************************************************************)
EXTENDS Submission

CONSTANTS r1, r2, r3, r4, k1, k2

FourRequests == {r1, r2, r3, r4}
TwoKeys == {k1, k2}
ThreeRepeat == [r \in Request |-> IF r = r4 THEN k2 ELSE k1]
=============================================================================
