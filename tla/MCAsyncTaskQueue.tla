-------------------------- MODULE MCAsyncTaskQueue --------------------------
(***************************************************************************)
(* Values of AsyncTaskQueue's constants for TLC.                           *)
(***************************************************************************)
EXTENDS AsyncTaskQueue

CONSTANTS t1, t2, p1, p2, c1, c2

TwoTasks == {t1, t2}
TwoProducers == {p1, p2}
TwoConsumers == {c1, c2}
=============================================================================
