--------------------------- MODULE AsyncTaskQueue ---------------------------
(***************************************************************************)
(* AsyncTaskQueue (comps/database/src/AsyncTaskQueue.cpp) at the level of  *)
(* its mutex and condition variable: who holds _lock, who is blocked in    *)
(* _cv, and what each caller has read so far.  The engine (MysqlDB) uses   *)
(* one producer and one consumer per queue and only TimePopAll; the class  *)
(* is modelled for any number of callers of any of its operations.         *)
(***************************************************************************)
EXTENDS Naturals, SequencesExt

CONSTANTS Tasks, Producers, Consumers, Free

ASSUME ThreadsAssumption ==
    /\ Producers \cap Consumers = {}
    /\ Free \notin Producers \cup Consumers
    /\ IsFiniteSet(Producers) /\ IsFiniteSet(Consumers)

Ops == {"TimePop", "TryPop", "PopAll", "TimePopAll"}
Timed(op) == op \in {"TimePop", "TimePopAll"}
All(op) == op \in {"PopAll", "TimePopAll"}

VARIABLES
    lock,      \* the holder of _lock, or Free
    tasks,     \* _tasks
    pc,        \* where each thread is
    arg,       \* the task a producer pushes, the operation a consumer called
    late,      \* the consumers whose wait_for has timed out
    buf,       \* what a consumer has copied out in its current call
    unpushed,  \* history: the tasks no producer has pushed
    got        \* history: what each consumer's calls have returned

vars == <<lock, tasks, pc, arg, late, buf, unpushed, got>>
Threads == Producers \cup Consumers

Init ==
    /\ lock = Free /\ tasks = <<>>
    /\ pc = [p \in Threads |-> "idle"]
    /\ arg = [p \in Threads |-> Free]
    /\ late = {}
    /\ buf = [c \in Consumers |-> <<>>]
    /\ unpushed = Tasks
    /\ got = [c \in Consumers |-> <<>>]

GoTo(p, where) == pc' = [pc EXCEPT ![p] = where]

-----------------------------------------------------------------------------
(* Push: lock, push, unlock, and only then notify.                         *)

PushLock(p, t) ==
    /\ pc[p] = "idle" /\ lock = Free /\ t \in unpushed
    /\ lock' = p
    /\ arg' = [arg EXCEPT ![p] = t]
    /\ unpushed' = unpushed \ {t}
    /\ GoTo(p, "push")
    /\ UNCHANGED <<tasks, late, buf, got>>

PushTask(p) ==
    /\ pc[p] = "push"
    /\ tasks' = Append(tasks, arg[p])
    /\ lock' = Free
    /\ GoTo(p, "notify")
    /\ UNCHANGED <<arg, late, buf, unpushed, got>>

\* notify_one: one of the threads blocked in _cv, if there is one.
NotifyNobody(p) ==                                         \* (mutant)
    /\ pc[p] = "notify"
    /\ GoTo(p, "idle")
    /\ UNCHANGED <<lock, tasks, arg, late, buf, unpushed, got>>
NotifyOne(p) ==
    /\ pc[p] = "notify"
    /\ \/ \E c \in Consumers :
            /\ pc[c] = "blocked"
            /\ pc' = [pc EXCEPT ![p] = "idle", ![c] = "woken"]
       \/ /\ \A c \in Consumers : pc[c] # "blocked"
          /\ GoTo(p, "idle")
    /\ UNCHANGED <<lock, tasks, arg, late, buf, unpushed, got>>

-----------------------------------------------------------------------------
(* The four ways to take.                                                  *)

Call(c, op) ==
    /\ pc[c] = "idle"
    /\ arg' = [arg EXCEPT ![c] = op]
    /\ GoTo(c, "enter")
    /\ UNCHANGED <<lock, tasks, late, buf, unpushed, got>>

\* The constructor of unique_lock, or the end of a wait.
LockRegardless(c) ==                                       \* (mutant)
    /\ pc[c] \in {"enter", "woken"}
    /\ lock' = c
    /\ GoTo(c, "test")
    /\ UNCHANGED <<tasks, arg, late, buf, unpushed, got>>
Lock(c) ==
    /\ pc[c] \in {"enter", "woken"}
    /\ lock = Free
    /\ lock' = c
    /\ GoTo(c, "test")
    /\ UNCHANGED <<tasks, arg, late, buf, unpushed, got>>

\* wait_for gives the lock up while the predicate is false and time is left.
Block(c) ==
    /\ pc[c] = "test"
    /\ tasks = <<>> /\ Timed(arg[c]) /\ c \notin late
    /\ lock' = Free
    /\ GoTo(c, "blocked")
    /\ UNCHANGED <<tasks, arg, late, buf, unpushed, got>>

\* The interval is over, or the thread wakes for no reason.
WakeByItself(c) ==
    /\ pc[c] = "blocked"
    /\ late' \in {late, late \cup {c}}
    /\ GoTo(c, "woken")
    /\ UNCHANGED <<lock, tasks, arg, buf, unpushed, got>>

\* One round of `front(); pop();`: the copy first, then the removal.
CopyUnchecked(c) ==                                        \* (mutant)
    /\ pc[c] = "test"
    /\ buf' = [buf EXCEPT ![c] =
                  Append(@, IF tasks = <<>> THEN Free ELSE Head(tasks))]
    /\ GoTo(c, "pop")
    /\ UNCHANGED <<lock, tasks, arg, late, unpushed, got>>
CopyFront(c) ==
    /\ pc[c] = "test"
    /\ tasks # <<>>
    /\ buf' = [buf EXCEPT ![c] = Append(@, Head(tasks))]
    /\ GoTo(c, "pop")
    /\ UNCHANGED <<lock, tasks, arg, late, unpushed, got>>

PopFront(c) ==
    /\ pc[c] = "pop"
    /\ tasks' = Tail(tasks)
    /\ GoTo(c, IF All(arg[c]) /\ Tail(tasks) # <<>> THEN "test" ELSE "leave")
    /\ UNCHANGED <<lock, arg, late, buf, unpushed, got>>

FindNothing(c) ==
    /\ pc[c] = "test"
    /\ tasks = <<>> /\ (~Timed(arg[c]) \/ c \in late)
    /\ GoTo(c, "leave")
    /\ UNCHANGED <<lock, tasks, arg, late, buf, unpushed, got>>

Leave(c) ==
    /\ pc[c] = "leave"
    /\ lock' = Free
    /\ got' = [got EXCEPT ![c] = @ \o buf[c]]
    /\ buf' = [buf EXCEPT ![c] = <<>>]
    /\ late' = late \ {c}
    /\ GoTo(c, "idle")
    /\ UNCHANGED <<tasks, arg, unpushed>>

-----------------------------------------------------------------------------

ProducerStep(p) == PushTask(p) \/ NotifyOne(p)
ConsumerStep(c) ==
    \/ Block(c) \/ CopyFront(c) \/ PopFront(c) \/ FindNothing(c) \/ Leave(c)

Next ==
    \/ \E p \in Producers : ProducerStep(p) \/ \E t \in Tasks : PushLock(p, t)
    \/ \E c \in Consumers : Lock(c) \/ ConsumerStep(c) \/ WakeByItself(c)
    \/ \E c \in Consumers, op \in Ops : Call(c, op)

Spec == Init /\ [][Next]_vars

\* A thread inside the class goes on, and a free mutex is given to one of those
\* that want it, to whichever.  A wait need not time out: what is pushed must
\* be found without the help of the interval.
FairSpec ==
    /\ Spec
    /\ \A p \in Producers : WF_vars(ProducerStep(p))
    /\ \A c \in Consumers : WF_vars(ConsumerStep(c))
    /\ WF_vars(\E c \in Consumers : Lock(c))

-----------------------------------------------------------------------------
(* Properties.                                                             *)

\* Every variable has its type.
TypeOK ==
    /\ lock \in Threads \cup {Free}
    /\ tasks \in Seq(Tasks)
    /\ pc \in [Threads -> {"idle", "push", "notify", "enter", "woken", "test",
                           "blocked", "pop", "leave"}]
    /\ arg \in [Threads -> Tasks \cup Ops \cup {Free}]
    /\ late \in SUBSET Consumers
    /\ buf \in [Consumers -> Seq(Tasks)]
    /\ unpushed \in SUBSET Tasks
    /\ got \in [Consumers -> Seq(Tasks)]

Waiting == \E c \in Consumers : pc[c] = "blocked"

\* No wakeup is lost although Push notifies after it has given up the lock:
\* while a consumer is blocked, every queued task has a thread of its own that
\* is about to notify, or is awake and about to look into the queue.
NoLostWakeup ==
    Waiting =>
        Len(tasks) <= Cardinality({p \in Threads :
                                     pc[p] \in {"notify", "woken", "test", "pop"}})

\* While somebody stays blocked in a timed pop, no queued task is left behind:
\* it is handed out, even if no wait ever times out.
TaskServed ==
    \A t \in Tasks :
        (t \in ToSet(tasks) /\ Waiting) ~>
            (~Waiting \/ \E c \in Consumers : t \in ToSet(got[c]))

\* The operations are atomic: each takes effect between its call and its
\* return, so the queue is FIFO and hands out every task once.  A consumer
\* has taken nothing until it gives up the lock: what it has copied by then is
\* still the front of the queue.
Copied(c) == IF pc[c] = "pop" THEN Front(buf[c]) ELSE buf[c]
Atomic == INSTANCE TaskQueue WITH
    content <- IF lock \in Consumers THEN Copied(lock) \o tasks ELSE tasks

\* Every behaviour of the class is one of the atomic FIFO queue.
ImplementsTaskQueue == Atomic!Spec
=============================================================================
