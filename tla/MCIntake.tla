------------------------------ MODULE MCIntake ------------------------------
(* Intake with two issues of the same number and one of another number. *)
EXTENDS Intake

MCIssues == {<<"p", 1>>, <<"q", 1>>, <<"p", 2>>}

MCEdited == {<<"p", 1>>}
=============================================================================
