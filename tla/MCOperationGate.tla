-------------------------- MODULE MCOperationGate --------------------------
(* Instances of OperationGate for TLC: two sessions share a directory, the  *)
(* third has its own.                                                      *)
EXTENDS OperationGate, TLC

CONSTANTS s1, s2, s3, c1, c2

MCSessions == {s1, s2, s3}
MCCwds == {c1, c2}
MCCwdOf == s1 :> c1 @@ s2 :> c1 @@ s3 :> c2
TwoGoals == {s1, s3}
OneGoal == {s1}

=============================================================================
