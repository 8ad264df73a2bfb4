------------------------------ MODULE MCDBMgr -------------------------------
(***************************************************************************)
(* Values of DBMgr's constants for TLC.                                    *)
(***************************************************************************)
EXTENDS DBMgr

\* Every ini file with at most two sections, the numbers of them included that
\* `num` promises and the file does not have.
ShortConfigs == {<<>>} \cup [1..1 -> Section] \cup [1..2 -> Section]

\* One good file, for the run that looks at DestroyDatabase alone.
OneDatabase == {<<[name |-> 1, default |-> TRUE]>>}
=============================================================================
