------------------------------ MODULE TaskQueue ------------------------------
(***************************************************************************)
(* What AsyncTaskQueue (comps/database/src/AsyncTaskQueue.h) is to its     *)
(* users: a FIFO queue whose operations happen at one instant each.        *)
(***************************************************************************)
EXTENDS Sequences

CONSTANTS Tasks, Consumers

VARIABLES content,   \* what is queued
          got        \* what each consumer has been handed so far

vars == <<content, got>>

Init == content = <<>> /\ got = [c \in Consumers |-> <<>>]

Put(t) == content' = Append(content, t) /\ UNCHANGED got

\* TimePop and TryPop: the oldest task.
TakeOne(c) ==
    /\ content # <<>>
    /\ got' = [got EXCEPT ![c] = Append(@, Head(content))]
    /\ content' = Tail(content)

\* TimePopAll and PopAll: every task, oldest first.
TakeAll(c) ==
    /\ got' = [got EXCEPT ![c] = @ \o content]
    /\ content' = <<>>

Next ==
    \/ \E t \in Tasks : Put(t)
    \/ \E c \in Consumers : TakeOne(c) \/ TakeAll(c)

Spec == Init /\ [][Next]_vars
=============================================================================
