------------------------------- MODULE AsyncDB -------------------------------
(***************************************************************************)
(* What an IDatabase (comps/database/include/IDB.h) promises the code that *)
(* sends it asynchronous requests, with no threads, queues or flags: each  *)
(* request is executed once and its callback called once, in the order of  *)
(* submission among the requests of one key; closing the database executes *)
(* everything and drops the callbacks that are left; a flush returns only  *)
(* when everything older than the flush before it has been executed.  (It  *)
(* is not the promise of IDBMgr.h:36, which the code does not keep.)       *)
(***************************************************************************)
CONSTANTS Tasks, Key

VARIABLES requested,  \* the requests submitted so far
          earlier,    \* for each of them, those submitted before it
          executed, notified,
          open,
          flushing,   \* a Flush is in progress
          due,        \* what must be executed before it returns
          seen        \* what was submitted before it began

vars == <<requested, earlier, executed, notified, open, flushing, due, seen>>

\* The requests of t's key that were submitted before t.
Before(t) == {s \in earlier[t] : Key[s] = Key[t]}

Init ==
    /\ requested = {} /\ executed = {} /\ notified = {}
    /\ earlier = [t \in Tasks |-> {}]
    /\ open = TRUE /\ flushing = FALSE
    /\ due = {} /\ seen = {}

Submit(t) ==
    /\ open /\ ~flushing
    /\ t \notin requested
    /\ requested' = requested \cup {t}
    /\ earlier' = [earlier EXCEPT ![t] = requested]
    /\ UNCHANGED <<executed, notified, open, flushing, due, seen>>

Execute(t) ==
    /\ open
    /\ t \in requested \ executed
    /\ Before(t) \subseteq executed
    /\ executed' = executed \cup {t}
    /\ UNCHANGED <<requested, earlier, notified, open, flushing, due, seen>>

Notify(t) ==
    /\ open /\ ~flushing
    /\ t \in executed \ notified
    /\ Before(t) \subseteq notified
    /\ notified' = notified \cup {t}
    /\ UNCHANGED <<requested, earlier, executed, open, flushing, due, seen>>

FlushBegin ==
    /\ open /\ ~flushing
    /\ flushing' = TRUE
    /\ seen' = requested
    /\ due' = seen
    /\ UNCHANGED <<requested, earlier, executed, notified, open>>

FlushEnd ==
    /\ flushing
    /\ due \subseteq executed
    /\ flushing' = FALSE
    /\ UNCHANGED <<requested, earlier, executed, notified, open, due, seen>>

Close ==
    /\ open /\ ~flushing
    /\ requested \subseteq executed
    /\ open' = FALSE
    /\ UNCHANGED <<requested, earlier, executed, notified, flushing, due, seen>>

Next ==
    \/ \E t \in Tasks : Submit(t) \/ Execute(t) \/ Notify(t)
    \/ FlushBegin \/ FlushEnd \/ Close

Spec == Init /\ [][Next]_vars
=============================================================================
