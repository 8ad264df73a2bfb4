----------------------------- MODULE MCRecords ------------------------------
(***************************************************************************)
(* Values of Records' constants for TLC.                                   *)
(***************************************************************************)
EXTENDS Records, TLC

OneKey == [pri |-> {1}, auto |-> None]
AutoKey == [pri |-> {1}, auto |-> 1]
KeyLess == [pri |-> {}, auto |-> None]
CompositeKey == [pri |-> {1, 2}, auto |-> None]

SimpleSchemas == {OneKey, AutoKey, KeyLess}
CompositeSchema == {CompositeKey}

CONSTANTS r1, r2
OneRecord == {r1}
TwoRecords == {r1, r2}
Interchangeable == Permutations(TwoRecords)
=============================================================================
