------------------------------ MODULE MCMysqlDB ------------------------------
(***************************************************************************)
(* Values of MysqlDB's constants for TLC.                                  *)
(***************************************************************************)
EXTENDS MysqlDBInvariant, TLC

CONSTANTS t1, t2, t3

TwoTasks == {t1, t2}
ThreeTasks == {t1, t2, t3}

\* Two requests of one key, and a third of another key and another lane.
TwoKeys == t1 :> 1 @@ t2 :> 1 @@ t3 :> 2

OneKey == t1 :> 1 @@ t2 :> 1
=============================================================================
