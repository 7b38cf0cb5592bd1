-------------------------- MODULE MCVerificationJobs --------------------------
(* Two jobs, the second of which has lost its claim, or one; two workers under *)
(* the default worker id, or one.                                             *)
EXTENDS VerificationJobs

CONSTANTS p1, p2, w1

SharedId == [p \in {p1, p2} |-> w1]
OneProcess == [p \in {p1} |-> w1]
Schedule == <<1, 2>>
Once == <<1>>
=============================================================================
