--------------------------- MODULE MCTaskLifecycle ---------------------------
(* Small instances: two tasks that compete for one slot, one task with its *)
(* abort and delete requests, and one task id that is submitted twice.     *)
EXTENDS TaskLifecycle

CONSTANTS t1, t2, p1, p2

OneTask == {t1}
OtherTask == {t2}
TwoTasks == {t1, t2}
OnePost == {p1}
TwoPosts == {p1, p2}
None == {}
OneOf == [p \in {p1} |-> t1]
EachOf == [p \in {p1, p2} |-> IF p = p1 THEN t1 ELSE t2]
SameOf == [p \in {p1, p2} |-> t1]
=============================================================================
