------------------------------- MODULE MysqlDB -------------------------------
(***************************************************************************)
(* The asynchronous engine of one MysqlDB object (comps/database/src/      *)
(* Database.cpp, with the queue of AsyncTaskQueue.cpp): a main thread, the *)
(* service loop and the user code it calls, hands SQL requests to ConnNum  *)
(* worker threads, one connection and one queue each; the workers put what *)
(* they have executed in one finish queue and the main thread runs the     *)
(* callbacks from OnUpdate.  Flush and Destroy are the two rendezvous.     *)
(*                                                                         *)
(* A step is what one thread does between two accesses to state that other *)
(* threads also use: the queues (under their locks), the finish queue      *)
(* (under _finishLock) and the atomics _flushing, _stoping, _stopedNum and *)
(* *_flushFlag[i].  What a statement returns, and whether the server still *)
(* answers, is left out: a request is executed once the call returns.      *)
(*                                                                         *)
(* An operator marked (mutant) is a wrong version of the definition below  *)
(* it, of no use to the specification: it shows that a property would      *)
(* notice the mistake.                                                     *)
(***************************************************************************)
EXTENDS Integers, Sequences, FiniteSets, Functions

CONSTANTS Tasks,        \* the AsyncTask objects the user code may create
          Key,          \* the key the caller passes with each of them
          CfgConnNum    \* cfg._asyncConnNum

ASSUME TasksAssumption == IsFiniteSet(Tasks)
ASSUME KeyAssumption == Key \in [Tasks -> Nat]
ASSUME CfgConnNumAssumption == CfgConnNum \in Int

\* std::max<int>(cfg._asyncConnNum, 1), the value Init gives _asyncConnNum
ConnNum == IF CfgConnNum > 1 THEN CfgConnNum ELSE 1
Worker == 0 .. ConnNum - 1

VARIABLES
    \* the main thread
    mainpc,      \* where it is
    ret,         \* where Flush returns to: "idle", "callback" or "stop"
    mi,          \* the loop index of Init and Flush
    updating,    \* OnUpdate's local queue
    inited,
    \* shared between the threads
    stoping, stopedNum, flushing,
    flushFlag,   \* [Worker -> BOOLEAN]
    taskQueues,  \* [Worker -> Seq(Tasks)]
    finishTasks,
    \* the worker threads
    wpc,         \* where each one is
    batch,       \* its local vector `tasks`, the executed prefix removed
    \* history: what was asked for and what was done about it
    issued,      \* the number of requests submitted so far
    ticket,      \* the number of a request in submission order, 0 before
    execs,       \* how often its statement was executed
    called,      \* how often its callback was invoked
    newer,       \* what was submitted before the last Flush began,
    older,       \* before the one that preceded it,
    taken        \* and what workers had already popped when the last one began

mainVars == <<mainpc, ret, mi, updating, inited>>
stopVars == <<stoping, stopedNum>>
flushVars == <<flushing, flushFlag>>
queues == <<taskQueues, finishTasks>>
shared == <<stopVars, flushVars, queues>>
workerVars == <<wpc, batch>>
requests == <<issued, ticket>>
barrier == <<newer, older, taken>>
history == <<requests, execs, called, barrier>>
vars == <<mainpc, ret, mi, updating, inited, stoping, stopedNum, flushing,
          flushFlag, taskQueues, finishTasks, wpc, batch, issued, ticket,
          execs, called, newer, older, taken>>

MainPC == {"connect", "start", "idle", "update", "callback", "flushReset",
           "flushWait", "stop", "resetCount", "stopWait", "join", "destroyed",
           "failed"}
WorkerPC == {"off", "pop", "work", "finish", "check", "setFlag", "checkStop",
             "count", "done"}

Submitted == {t \in Tasks : ticket[t] > 0}
Executed == {t \in Tasks : execs[t] > 0}
Queued == UNION {Range(taskQueues[i]) : i \in Worker}

\* _taskQueues[key % _asyncConnNum]
LaneByTurn(t) == issued % ConnNum                          \* (mutant)
Lane(t) == Key[t] % ConnNum

\* AsyncTaskQueue::_count is initialised and never written again: neither
\* Push nor any of the Pops maintains it, whatever the queue holds.
Count(i) == 0
Empty(i) == Count(i) = 0

-----------------------------------------------------------------------------

\* The state of a MysqlDB whose Init is about to connect.
Init ==
    /\ mainpc = "connect" /\ ret = "idle" /\ mi = 0 /\ updating = <<>>
    /\ inited = FALSE
    /\ stoping = FALSE /\ stopedNum = 0 /\ flushing = FALSE
    /\ flushFlag \in [Worker -> BOOLEAN]    \* new std::atomic_bool: no value
    /\ taskQueues = [i \in Worker |-> <<>>]
    /\ finishTasks = <<>>
    /\ wpc = [i \in Worker |-> "off"]
    /\ batch = [i \in Worker |-> <<>>]
    /\ issued = 0
    /\ ticket = [t \in Tasks |-> 0]
    /\ execs = [t \in Tasks |-> 0]
    /\ called = [t \in Tasks |-> 0]
    /\ newer = {} /\ older = {} /\ taken = {}

-----------------------------------------------------------------------------
(* The main thread: Init.  All connections are made before any thread is   *)
(* started, so a failure leaves nothing to stop.                           *)

InitFail ==
    /\ mainpc = "connect"
    /\ mainpc' = "failed"
    /\ UNCHANGED <<ret, mi, updating, inited, shared, workerVars, history>>

InitConnect ==
    /\ mainpc = "connect"
    /\ mainpc' = "start"
    /\ UNCHANGED <<ret, mi, updating, inited, shared, workerVars, history>>

\* The worker runs from here on, while Init is still in its loop.
StartOneMore ==                                            \* (mutant)
    /\ mainpc = "start" /\ mi <= ConnNum
    /\ wpc' = [wpc EXCEPT ![mi] = "pop"]
    /\ mi' = mi + 1
    /\ UNCHANGED <<mainpc, ret, updating, inited, shared, batch, history>>
StartThread ==
    /\ mainpc = "start" /\ mi < ConnNum
    /\ wpc' = [wpc EXCEPT ![mi] = "pop"]
    /\ mi' = mi + 1
    /\ UNCHANGED <<mainpc, ret, updating, inited, shared, batch, history>>

InitReturn ==
    /\ mainpc = "start" /\ mi = ConnNum
    /\ mainpc' = "idle"
    /\ inited' = TRUE
    /\ UNCHANGED <<ret, mi, updating, shared, workerVars, history>>

-----------------------------------------------------------------------------
(* The main thread: QueryAsync and OnUpdate.  User code runs either from   *)
(* the service loop ("idle") or inside a callback ("callback").            *)

InUserCode == mainpc \in {"idle", "callback"}

\* Both overloads, and AddAsyncTask.
QueryAsync(t) ==
    /\ InUserCode
    /\ ticket[t] = 0
    /\ issued' = issued + 1
    /\ ticket' = [ticket EXCEPT ![t] = issued + 1]
    /\ taskQueues' = [taskQueues EXCEPT ![Lane(t)] = Append(@, t)]
    /\ UNCHANGED <<mainVars, stopVars, flushVars, finishTasks, workerVars,
                   execs, called, barrier>>

OnUpdateFirstOnly ==                                       \* (mutant)
    /\ mainpc = "idle"
    /\ finishTasks # <<>>
    /\ mainpc' = "update"
    /\ updating' = <<Head(finishTasks)>>
    /\ finishTasks' = <<>>
    /\ UNCHANGED <<ret, mi, inited, stopVars, flushVars, taskQueues,
                   workerVars, history>>
\* OnUpdate returns at once when there is nothing to do; otherwise it takes
\* the whole finish queue under the lock, and runs the callbacks outside it.
OnUpdate ==
    /\ mainpc = "idle"
    /\ finishTasks # <<>>
    /\ mainpc' = "update"
    /\ updating' = finishTasks
    /\ finishTasks' = <<>>
    /\ UNCHANGED <<ret, mi, inited, stopVars, flushVars, taskQueues,
                   workerVars, history>>

Invoke ==
    /\ mainpc = "update"
    /\ updating # <<>>
    /\ called' = [called EXCEPT ![Head(updating)] = @ + 1]
    /\ updating' = Tail(updating)
    /\ mainpc' = "callback"
    /\ UNCHANGED <<ret, mi, inited, shared, workerVars, requests, execs,
                   barrier>>

CallbackReturn ==
    /\ mainpc = "callback"
    /\ mainpc' = "update"
    /\ UNCHANGED <<ret, mi, updating, inited, shared, workerVars, history>>

UpdateReturn ==
    /\ mainpc = "update"
    /\ updating = <<>>
    /\ mainpc' = "idle"
    /\ UNCHANGED <<ret, mi, updating, inited, shared, workerVars, history>>

-----------------------------------------------------------------------------
(* The main thread: Flush, called by user code or by Destroy.              *)

BeginFlush(from) ==
    /\ mainpc' = "flushReset"
    /\ ret' = from
    /\ mi' = 0
    /\ newer' = Submitted
    /\ older' = newer
    /\ taken' = Submitted \ Queued

Flush ==
    /\ InUserCode
    /\ inited /\ ~flushing
    /\ BeginFlush(mainpc)
    /\ UNCHANGED <<updating, inited, shared, workerVars, requests, execs,
                   called>>

FlushKeepsFlag ==                                          \* (mutant)
    /\ mainpc = "flushReset" /\ mi < ConnNum
    /\ mi' = mi + 1
    /\ UNCHANGED <<mainpc, ret, updating, inited, shared, workerVars, history>>
FlushReset ==
    /\ mainpc = "flushReset" /\ mi < ConnNum
    /\ flushFlag' = [flushFlag EXCEPT ![mi] = FALSE]
    /\ mi' = mi + 1
    /\ UNCHANGED <<mainpc, ret, updating, inited, stopVars, flushing, queues,
                   workerVars, history>>

FlushNotRaised ==                                          \* (mutant)
    /\ mainpc = "flushReset" /\ mi = ConnNum
    /\ mi' = 0
    /\ mainpc' = "flushWait"
    /\ UNCHANGED <<ret, updating, inited, shared, workerVars, history>>
FlushRaise ==
    /\ mainpc = "flushReset" /\ mi = ConnNum
    /\ flushing' = TRUE
    /\ mi' = 0
    /\ mainpc' = "flushWait"
    /\ UNCHANGED <<ret, updating, inited, stopVars, flushFlag, queues,
                   workerVars, history>>

FlushSeenAny ==                                            \* (mutant)
    /\ mainpc = "flushWait" /\ mi < ConnNum
    /\ \E i \in Worker : flushFlag[i]
    /\ mi' = mi + 1
    /\ UNCHANGED <<mainpc, ret, updating, inited, shared, workerVars, history>>
FlushSeen ==
    /\ mainpc = "flushWait" /\ mi < ConnNum
    /\ flushFlag[mi]
    /\ mi' = mi + 1
    /\ UNCHANGED <<mainpc, ret, updating, inited, shared, workerVars, history>>

FlushReturn ==
    /\ mainpc = "flushWait" /\ mi = ConnNum
    /\ flushing' = FALSE
    /\ mainpc' = ret
    /\ UNCHANGED <<ret, mi, updating, inited, stopVars, flushFlag, queues,
                   workerVars, history>>

-----------------------------------------------------------------------------
(* The main thread: Destroy, called by DBMgr from the service loop.        *)

DestroyNoFlush ==                                          \* (mutant)
    /\ mainpc = "idle"
    /\ inited /\ ~stoping
    /\ mainpc' = "stop"
    /\ UNCHANGED <<ret, mi, updating, inited, shared, workerVars, history>>
Destroy ==
    /\ mainpc = "idle"
    /\ inited /\ ~stoping /\ ~flushing
    /\ BeginFlush("stop")
    /\ UNCHANGED <<updating, inited, shared, workerVars, requests, execs,
                   called>>

SetStoping ==
    /\ mainpc = "stop"
    /\ stoping' = TRUE
    /\ mainpc' = "resetCount"
    /\ UNCHANGED <<ret, mi, updating, inited, stopedNum, flushVars, queues,
                   workerVars, history>>

\* `_stopedNum = 0` comes after the workers have been told to stop.
ResetStopedNum ==
    /\ mainpc = "resetCount"
    /\ stopedNum' = 0
    /\ mainpc' = "stopWait"
    /\ UNCHANGED <<ret, mi, updating, inited, stoping, flushVars, queues,
                   workerVars, history>>

AwaitAnyStoped ==                                          \* (mutant)
    /\ mainpc = "stopWait"
    /\ stopedNum > 0
    /\ mainpc' = "join"
    /\ UNCHANGED <<ret, mi, updating, inited, shared, workerVars, history>>
AwaitStoped ==
    /\ mainpc = "stopWait"
    /\ stopedNum = ConnNum
    /\ mainpc' = "join"
    /\ UNCHANGED <<ret, mi, updating, inited, shared, workerVars, history>>

\* The joins, and what is deleted after them: the executed requests whose
\* callbacks have not run are dropped.
JoinAndClear ==
    /\ mainpc = "join"
    /\ \A i \in Worker : wpc[i] = "done"
    /\ finishTasks' = <<>>
    /\ taskQueues' = [i \in Worker |-> <<>>]
    /\ inited' = FALSE
    /\ mainpc' = "destroyed"
    /\ UNCHANGED <<ret, mi, updating, stopVars, flushVars, workerVars,
                   history>>

-----------------------------------------------------------------------------
(* Worker i: the loop of AsyncWorkFunc.                                    *)

\* TimePopAll: everything that is queued, or nothing after 50 milliseconds.
WorkerPop(i) ==
    /\ wpc[i] = "pop"
    /\ batch' = [batch EXCEPT ![i] = taskQueues[i]]
    /\ taskQueues' = [taskQueues EXCEPT ![i] = <<>>]
    /\ wpc' = [wpc EXCEPT ![i] = IF taskQueues[i] = <<>> THEN "check"
                                                         ELSE "work"]
    /\ UNCHANGED <<mainVars, stopVars, flushVars, finishTasks, history>>

\* AsyncDoWork: the statement, on this worker's connection ...
WorkerExec(i) ==
    /\ wpc[i] = "work"
    /\ execs' = [execs EXCEPT ![Head(batch[i])] = @ + 1]
    /\ wpc' = [wpc EXCEPT ![i] = "finish"]
    /\ UNCHANGED <<mainVars, shared, batch, requests, called, barrier>>

\* ... and the task into the finish queue, under _finishLock.
FinishTwice(i) ==                                          \* (mutant)
    /\ wpc[i] = "finish"
    /\ finishTasks' = Append(finishTasks, Head(batch[i]))
    /\ wpc' = [wpc EXCEPT ![i] = "work"]
    /\ \/ batch' = [batch EXCEPT ![i] = Tail(@)] /\ Tail(batch[i]) # <<>>
       \/ UNCHANGED batch
    /\ UNCHANGED <<mainVars, stopVars, flushVars, taskQueues, history>>
WorkerFinish(i) ==
    /\ wpc[i] = "finish"
    /\ finishTasks' = Append(finishTasks, Head(batch[i]))
    /\ batch' = [batch EXCEPT ![i] = Tail(@)]
    /\ wpc' = [wpc EXCEPT ![i] = IF Tail(batch[i]) = <<>> THEN "check"
                                                          ELSE "work"]
    /\ UNCHANGED <<mainVars, stopVars, flushVars, taskQueues, history>>

\* `if (_flushing && taskQueue->Empty())`: a read of _flushing ...
WorkerCheck(i) ==
    /\ wpc[i] = "check"
    /\ wpc' = [wpc EXCEPT ![i] = IF flushing /\ Empty(i) THEN "setFlag"
                                                         ELSE "checkStop"]
    /\ UNCHANGED <<mainVars, shared, batch, history>>

\* ... and the write of the flag it decided on, some time later.
WorkerSetFlag(i) ==
    /\ wpc[i] = "setFlag"
    /\ flushFlag' = [flushFlag EXCEPT ![i] = TRUE]
    /\ wpc' = [wpc EXCEPT ![i] = "pop"]
    /\ UNCHANGED <<mainVars, stopVars, flushing, queues, batch, history>>

WorkerStopsUnasked(i) ==                                   \* (mutant)
    /\ wpc[i] = "checkStop"
    /\ wpc' = [wpc EXCEPT ![i] = "count"]
    /\ UNCHANGED <<mainVars, shared, batch, history>>
WorkerCheckStop(i) ==
    /\ wpc[i] = "checkStop"
    /\ wpc' = [wpc EXCEPT ![i] = IF stoping THEN "count" ELSE "pop"]
    /\ UNCHANGED <<mainVars, shared, batch, history>>

WorkerLeavesUncounted(i) ==                                \* (mutant)
    /\ wpc[i] = "count"
    /\ wpc' = [wpc EXCEPT ![i] = "done"]
    /\ UNCHANGED <<mainVars, shared, batch, history>>
WorkerCount(i) ==
    /\ wpc[i] = "count"
    /\ stopedNum' = stopedNum + 1
    /\ wpc' = [wpc EXCEPT ![i] = "done"]
    /\ UNCHANGED <<mainVars, stoping, flushVars, queues, batch, history>>

-----------------------------------------------------------------------------

\* What the main thread does by itself once user code has called it.
MainStep ==
    \/ StartThread \/ InitReturn
    \/ Invoke \/ UpdateReturn
    \/ FlushReset \/ FlushRaise \/ FlushSeen \/ FlushReturn
    \/ SetStoping \/ ResetStopedNum \/ AwaitStoped \/ JoinAndClear

\* What the user code and the server decide.
UserStep ==
    \/ InitFail \/ InitConnect
    \/ \E t \in Tasks : QueryAsync(t)
    \/ Flush \/ CallbackReturn \/ Destroy

WorkerStep(i) ==
    \/ WorkerPop(i) \/ WorkerExec(i) \/ WorkerFinish(i) \/ WorkerCheck(i)
    \/ WorkerSetFlag(i) \/ WorkerCheckStop(i) \/ WorkerCount(i)

Next == MainStep \/ UserStep \/ OnUpdate \/ \E i \in Worker : WorkerStep(i)

Spec == Init /\ [][Next]_vars

\* Threads are scheduled; the service calls OnUpdate in every frame it runs,
\* however often user code calls something else in between; a callback ends.
Fairness ==
    /\ WF_vars(MainStep)
    /\ SF_vars(OnUpdate)
    /\ SF_vars(CallbackReturn)
    /\ \A i \in Worker : WF_vars(WorkerStep(i))

FairSpec == Spec /\ Fairness

-----------------------------------------------------------------------------
(* Properties.                                                             *)

\* Every variable has its type.
TypeOK ==
    /\ mainpc \in MainPC
    /\ ret \in {"idle", "callback", "stop"}
    /\ mi \in 0 .. ConnNum
    /\ updating \in Seq(Tasks)
    /\ inited \in BOOLEAN /\ stoping \in BOOLEAN /\ flushing \in BOOLEAN
    /\ stopedNum \in Nat
    /\ flushFlag \in [Worker -> BOOLEAN]
    /\ taskQueues \in [Worker -> Seq(Tasks)]
    /\ finishTasks \in Seq(Tasks)
    /\ wpc \in [Worker -> WorkerPC]
    /\ batch \in [Worker -> Seq(Tasks)]
    /\ issued \in Nat
    /\ ticket \in [Tasks -> Nat]
    /\ execs \in [Tasks -> Nat] /\ called \in [Tasks -> Nat]
    /\ newer \in SUBSET Tasks /\ older \in SUBSET Tasks
    /\ taken \in SUBSET Tasks

\* A statement reaches the server at most once and its callback runs at most
\* once, only after it: a task moves from the queue through a worker's batch,
\* the finish queue and OnUpdate's local queue and is never in two of them.
AtMostOnce == \A t \in Tasks : execs[t] <= 1 /\ called[t] <= execs[t]

\* What one caller is promised by passing the same key: the requests of a key
\* are executed, and their callbacks run, in the order of the QueryAsync calls.
KeyOrder ==
    \A s, t \in Submitted :
        (Key[s] = Key[t] /\ ticket[s] < ticket[t]) =>
            (execs[s] >= execs[t] /\ called[s] >= called[t])

\* When Flush is about to return, every request that a worker had taken from
\* its queue before the call has been executed.
FlushTakenDone ==
    (mainpc = "flushWait" /\ mi = ConnNum) => taken \subseteq Executed

\* A second Flush makes up for what the first one left in the queues: when it
\* is about to return, everything submitted before the first has been executed.
SecondFlushCovers ==
    (mainpc = "flushWait" /\ mi = ConnNum) => older \subseteq Executed

\* Destroy loses no statement: a worker that has left its loop has executed
\* every request ever submitted to its connection, whatever Flush missed.
DestroyDrains ==
    \A i \in Worker : wpc[i] \in {"count", "done"} =>
        \A t \in Submitted : Lane(t) = i => execs[t] > 0

\* Destroy never goes on to join and delete while a worker is still to count
\* itself out, although the counter may be reset under the workers' feet.
DestroyNeverEarly ==
    mainpc \in {"join", "destroyed"} => \A i \in Worker : wpc[i] = "done"

\* IDBMgr.h:36 says of Flush "flush all async tasks and wait tasks finish":
\* when it is about to return, every submitted request has been executed.
FlushWaitsAll ==
    (mainpc = "flushWait" /\ mi = ConnNum) => Submitted \subseteq Executed

\* Every submitted request is executed in the end.
EveryRequestExecuted ==
    \A t \in Tasks : (ticket[t] > 0) ~> (execs[t] > 0)

\* The callback of an executed request runs, unless Destroy is called first.
EveryCallback ==
    \A t \in Tasks : (execs[t] > 0) ~> (called[t] > 0 \/ ret = "stop")

\* Flush returns: no order of flags, batches and polls keeps it waiting.
FlushReturns ==
    (mainpc = "flushReset") ~> (mainpc \notin {"flushReset", "flushWait"})

\* Destroy returns when no worker counted itself out before the reset.
CleanDestroyReturns ==
    (mainpc = "stopWait" /\ Cardinality({i \in Worker : wpc[i] = "done"})
                                = stopedNum) ~> (mainpc = "destroyed")

\* Database.cpp:117 announces that Destroy waits for all asynchronous threads
\* to exit, and then it releases the object: Destroy returns.
DestroyReturns == (mainpc = "stop") ~> (mainpc = "destroyed")

\* The engine keeps the promise of AsyncDB.  A request is Submitted by the
\* push, Executed by its worker, Notified by Invoke; a Flush begins with its
\* guard and ends with the write of _flushing; the database is closed when
\* Destroy has joined the workers.
Promise == INSTANCE AsyncDB WITH
    requested <- Submitted,
    earlier <- [t \in Tasks |->
                  {s \in Submitted : ticket[t] > 0 /\ ticket[s] < ticket[t]}],
    executed <- Executed,
    notified <- {t \in Tasks : called[t] > 0},
    open <- mainpc # "destroyed",
    flushing <- mainpc \in {"flushReset", "flushWait"},
    due <- older,
    seen <- newer

\* Every behaviour of the engine is one of AsyncDB.
ImplementsAsyncDB == Promise!Spec

=============================================================================
