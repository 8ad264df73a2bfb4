-------------------------- MODULE MysqlDBInvariant --------------------------
(***************************************************************************)
(* The inductive invariant of MysqlDB: what has to be true in every state  *)
(* for its safety properties to be kept by every step.  A request moves    *)
(* down a pipeline: the queue of its lane, the batch of the lane's worker, *)
(* finishTasks, OnUpdate's local queue, its callback.  What lies further   *)
(* down is older, lane by lane.                                            *)
(***************************************************************************)
EXTENDS MysqlDB

Q(i) == Range(taskQueues[i])
B(i) == Range(batch[i])
F == Range(finishTasks)
U == Range(updating)

\* s is sorted by f, among requests of one lane
InOrder(s, f) ==
    \A a, b \in 1 .. Len(s) :
        (a < b /\ Lane(s[a]) = Lane(s[b])) => f[s[a]] < f[s[b]]

\* every member of S comes before every member of T in its lane
Ahead(S, T, f) == \A s \in S, t \in T : Lane(s) = Lane(t) => f[s] < f[t]

InFlush == mainpc \in {"flushReset", "flushWait"}

\* main has taken updating and not yet finished with it
InUpdate ==
    \/ mainpc \in {"update", "callback"}
    \/ InFlush /\ ret = "callback"

\* Destroy has been called
InDestroy ==
    \/ mainpc \in {"stop", "resetCount", "stopWait", "join", "destroyed"}
    \/ InFlush /\ ret = "stop"

-----------------------------------------------------------------------------

\* Numbers are given out in order, and only what is submitted is executed.
TicketInv ==
    /\ \A t \in Tasks : ticket[t] <= issued
    /\ \A t \in Tasks : execs[t] > 0 => ticket[t] > 0
    /\ newer \subseteq Submitted /\ older \subseteq Submitted
    /\ taken \subseteq Submitted

QueueInv ==
    \A i \in Worker :
        /\ \A t \in Q(i) : ticket[t] > 0 /\ Lane(t) = i /\ execs[t] = 0
        /\ InOrder(taskQueues[i], ticket)

BatchInv ==
    \A i \in Worker :
        /\ batch[i] # <<>> <=> wpc[i] \in {"work", "finish"}
        /\ \A t \in B(i) : ticket[t] > 0 /\ Lane(t) = i /\ called[t] = 0
        /\ wpc[i] = "work" => \A t \in B(i) : execs[t] = 0
        /\ wpc[i] = "finish" =>
             /\ execs[Head(batch[i])] = 1
             /\ \A t \in Range(Tail(batch[i])) : execs[t] = 0
        /\ InOrder(batch[i], ticket)

FinishInv ==
    /\ \A t \in F \cup U : execs[t] = 1 /\ called[t] = 0
    /\ InOrder(finishTasks, ticket) /\ InOrder(updating, ticket)
    /\ ~InUpdate => updating = <<>>

AheadInv ==
    /\ Ahead(U, F, ticket)
    /\ \A i \in Worker :
         /\ Ahead(B(i), Q(i), ticket)
         /\ Ahead(F, B(i) \cup Q(i), ticket)
         /\ Ahead(U, B(i) \cup Q(i), ticket)

\* Nothing is lost between two places.
CoverInv ==
    \A t \in Submitted :
        /\ execs[t] = 0 => t \in Q(Lane(t)) \cup B(Lane(t))
        /\ (execs[t] > 0 /\ called[t] = 0 /\ mainpc # "destroyed") =>
             \/ t \in F \cup U
             \/ wpc[Lane(t)] = "finish" /\ t = Head(batch[Lane(t)])

LaneOrder ==
    \A s, t \in Submitted :
        (Lane(s) = Lane(t) /\ ticket[s] < ticket[t]) =>
            (execs[s] >= execs[t] /\ called[s] >= called[t])

\* Worker i has nothing left to do for the Flush in progress.
Passed(i) ==
    /\ mainpc = "flushReset" => i < mi /\ flushFlag[i]
    /\ mainpc = "flushWait" => flushFlag[i]

BarrierInv ==
    /\ \A i \in Worker :
         /\ taken \cap Q(i) = {}
         /\ wpc[i] # "pop" => older \cap Q(i) = {}
         /\ (Passed(i) /\ wpc[i] # "pop") => newer \cap Q(i) = {}
         /\ (InFlush /\ Passed(i)) =>
              \A t \in older \cup taken : Lane(t) = i => execs[t] > 0
         /\ (mainpc = "flushWait" /\ i < mi) => flushFlag[i]

StartInv ==
    mainpc \in {"connect", "start"} =>
        /\ \A i \in Worker : i >= mi => wpc[i] = "off"
        /\ mainpc = "connect" => mi = 0

StopInv ==
    /\ InDestroy => newer = Submitted
    /\ stoping => mainpc \in {"resetCount", "stopWait", "join", "destroyed"}
    /\ \A i \in Worker : wpc[i] \in {"count", "done"} => stoping /\ Q(i) = {}
    /\ stopedNum <= Cardinality({i \in Worker : wpc[i] = "done"})
    /\ mainpc \in {"join", "destroyed"} => \A i \in Worker : wpc[i] = "done"

\* The conjunction of the facts above holds in every reachable state.
IInv ==
    /\ TypeOK
    /\ TicketInv /\ QueueInv /\ BatchInv /\ FinishInv
    /\ AheadInv /\ CoverInv /\ LaneOrder /\ AtMostOnce
    /\ BarrierInv /\ StartInv /\ StopInv
=============================================================================
