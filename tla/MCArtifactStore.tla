--------------------------- MODULE MCArtifactStore ---------------------------
(* Two tasks; one of them may be deleted, submitted again and run again,   *)
(* so that two artifacts share a path.                                     *)
EXTENDS ArtifactStore

CONSTANTS t1, t2, a1, a2, a3, d1

MCTasks == {t1, t2}
MCArtifacts == {a1, a2, a3}
MCTaskOf == [a \in {a1, a2, a3} |-> IF a = a3 THEN t2 ELSE t1]
MCWanted == [d \in {d1} |-> a1]
OneRow == <<a3>>
=============================================================================
