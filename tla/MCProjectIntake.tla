-------------------------- MODULE MCProjectIntake --------------------------
(* Two opportunities that do not both fit, and three stages: two of a        *)
(* pipeline with a rule between them, one of another pipeline.               *)
EXTENDS ProjectIntake

CONSTANTS p1, p2, s1, s2, s3

StagePipelines == [s \in {s1, s2, s3} |-> IF s = s3 THEN p2 ELSE p1]

MoveRules == {<<s1, s2>>}
=============================================================================
