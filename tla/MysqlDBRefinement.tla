-------------------------- MODULE MysqlDBRefinement --------------------------
(***************************************************************************)
(* MysqlDB implements AsyncDB: the initial states map to its initial state *)
(* and every step of the engine to a step of AsyncDB or to a stutter.      *)
(***************************************************************************)
EXTENDS MysqlDBProofs

\* The value the refinement mapping gives to AsyncDB's `earlier`.
Earlier == [t \in Tasks |->
              {s \in Submitted : ticket[t] > 0 /\ ticket[s] < ticket[t]}]
Notified == {t \in Tasks : called[t] > 0}

LEMMA RefinesInit == Init => Promise!Init
<1>. SUFFICES ASSUME Init PROVE Promise!Init
  OBVIOUS
<1>1. Submitted = {} /\ Executed = {} /\ Notified = {}
  BY DEF Init, Submitted, Executed, Notified
<1>2. Earlier = [t \in Tasks |-> {}]
  BY <1>1 DEF Earlier
<1>. QED BY <1>1, <1>2 DEF Init, Promise!Init, Earlier, Notified

LEMMA RefinesSubmit ==
    ASSUME IInv, NEW t \in Tasks, QueryAsync(t)
    PROVE  Promise!Submit(t)
<1>0. ticket \in [Tasks -> Nat] /\ Submitted \subseteq Tasks
  BY DEF IInv, TypeOK, Submitted
<1>1. /\ UNCHANGED <<mainpc, execs, called, newer, older>>
      /\ mainpc \in {"idle", "callback"}
  BY DEF QueryAsync, mainVars, barrier, InUserCode
<1>2. t \notin Submitted /\ Submitted' = Submitted \cup {t}
  BY NewRequest
<1>3. ASSUME NEW u \in Tasks
      PROVE  Earlier'[u] = IF u = t THEN Submitted ELSE Earlier[u]
  <2>1. CASE u = t
    BY <1>0, <1>2, <2>1, NewRequest DEF Earlier, Submitted
  <2>2. CASE u # t
    <3>1. ticket'[u] = ticket[u] /\ ticket[u] < ticket'[t]
      BY <2>2, NewRequest
    <3>2. \A s \in Submitted : ticket'[s] = ticket[s]
      BY <1>0, <1>2, NewRequest
    <3>3. ~(ticket'[t] < ticket[u])
      BY <1>0, <3>1, NewRequest
    <3>. QED BY <1>2, <2>2, <3>1, <3>2, <3>3 DEF Earlier
  <2>. QED BY <2>1, <2>2
<1>4. Earlier' = [Earlier EXCEPT ![t] = Submitted]
  BY <1>3 DEF Earlier
<1>. QED
  BY <1>1, <1>2, <1>4 DEF Promise!Submit, Executed, Earlier

LEMMA RefinesExecute ==
    ASSUME IInv, IInv', NEW i \in Worker, WorkerExec(i)
    PROVE  Promise!Execute(Head(batch[i]))
<1>. DEFINE h == Head(batch[i])
<1>0. execs \in [Tasks -> Nat] /\ ticket \in [Tasks -> Nat]
  BY DEF IInv, TypeOK
<1>1. /\ h \in Tasks /\ ticket[h] > 0 /\ execs[h] = 0
  BY BatchHead DEF WorkerExec, IInv, BatchInv
<1>2. /\ UNCHANGED <<mainpc, ticket, called, newer, older>>
      /\ execs' = [execs EXCEPT ![h] = @ + 1]
  BY DEF WorkerExec, mainVars, requests, barrier
<1>3. mainpc # "destroyed"
  BY DEF IInv, StopInv, WorkerExec
<1>4. Executed' = Executed \cup {h} /\ h \in Submitted \ Executed
  BY <1>0, <1>1, <1>2 DEF Executed, Submitted
<1>5. ASSUME NEW s \in Earlier[h], Key[s] = Key[h] PROVE s \in Executed
  <2>1. s \in Submitted /\ ticket[s] < ticket[h] /\ s \in Tasks
    BY <1>1, <1>5 DEF Earlier, Submitted
  <2>2. s \in Submitted' /\ h \in Submitted' /\ ticket'[s] < ticket'[h]
    BY <1>2, <1>4, <2>1 DEF Submitted
  <2>3. execs'[s] >= execs'[h]
    BY <1>5, <2>2 DEF IInv, LaneOrder, Lane
  <2>4. s # h
    BY <1>0, <2>1
  <2>. QED BY <1>0, <1>1, <1>2, <2>1, <2>3, <2>4 DEF Executed
<1>. QED
  BY <1>1, <1>2, <1>3, <1>4, <1>5
     DEF Promise!Execute, Promise!Before, Earlier, Submitted

LEMMA RefinesNotify ==
    ASSUME IInv, IInv', Invoke
    PROVE  \E t \in Tasks : Promise!Notify(t)
<1>h. PICK h \in Tasks : h = Head(updating)
  BY UpdateHead DEF Invoke
<1>0. called \in [Tasks -> Nat] /\ ticket \in [Tasks -> Nat]
  BY DEF IInv, TypeOK
<1>1. h \in Tasks /\ ticket[h] > 0 /\ called[h] = 0 /\ execs[h] = 1
  BY <1>h, UpdateHead DEF Invoke
<1>2. /\ UNCHANGED <<ticket, execs, newer, older>>
      /\ mainpc = "update" /\ mainpc' = "callback"
      /\ called' = [called EXCEPT ![h] = @ + 1]
  BY <1>h DEF Invoke, requests, barrier
<1>3. /\ Notified' = Notified \cup {h} /\ h \notin Notified
      /\ h \in Submitted /\ h \in Executed
  BY <1>0, <1>1, <1>2 DEF Notified, Executed, Submitted
<1>4. ASSUME NEW s \in Earlier[h], Key[s] = Key[h] PROVE s \in Notified
  <2>1. s \in Submitted /\ ticket[s] < ticket[h] /\ s \in Tasks
    BY <1>1, <1>4 DEF Earlier, Submitted
  <2>2. s \in Submitted' /\ h \in Submitted' /\ ticket'[s] < ticket'[h]
    BY <1>2, <1>3, <2>1 DEF Submitted
  <2>3. called'[s] >= called'[h]
    BY <1>4, <2>2 DEF IInv, LaneOrder, Lane
  <2>4. s # h
    BY <1>0, <2>1
  <2>. QED BY <1>0, <1>1, <1>2, <2>1, <2>3, <2>4 DEF Notified
<1>5. Promise!Notify(h)
  BY <1>1, <1>2, <1>3, <1>4
     DEF Promise!Notify, Promise!Before, Earlier, Notified, Submitted, Executed
<1>. QED BY <1>1, <1>5

LEMMA RefinesClose ==
    ASSUME IInv, JoinAndClear
    PROVE  Promise!Close
<1>1. ASSUME NEW t \in Submitted PROVE t \in Executed
  <2>1. t \in Tasks /\ Lane(t) \in Worker /\ execs[t] \in Nat
    BY LaneType DEF IInv, TypeOK, Submitted
  <2>2. wpc[Lane(t)] = "done"
    BY <2>1 DEF JoinAndClear
  <2>3. Q(Lane(t)) = {} /\ B(Lane(t)) = {}
    BY <2>1, <2>2, RangeEmpty DEF IInv, StopInv, BatchInv, B
  <2>. QED BY <2>1, <2>3 DEF IInv, CoverInv, Executed
<1>2. /\ UNCHANGED <<ticket, execs, called, newer, older>>
      /\ mainpc = "join" /\ mainpc' = "destroyed"
  BY DEF JoinAndClear, history, requests, barrier
<1>. QED
  BY <1>1, <1>2 DEF Promise!Close, Submitted, Executed

LEMMA RefinesNext ==
    IInv /\ IInv' /\ [Next]_vars => [Promise!Next]_(Promise!vars)
<1>. SUFFICES ASSUME IInv, IInv', [Next]_vars
              PROVE  Promise!Next \/ UNCHANGED Promise!vars
  OBVIOUS
<1>1. ASSUME NEW t \in Tasks, QueryAsync(t) PROVE Promise!Next
  BY <1>1, RefinesSubmit DEF Promise!Next
<1>2. ASSUME NEW i \in Worker, WorkerExec(i) PROVE Promise!Next
  <2>1. Head(batch[i]) \in Tasks
    BY <1>2, BatchHead DEF WorkerExec
  <2>. QED BY <1>2, <2>1, RefinesExecute DEF Promise!Next
<1>3. CASE Invoke
  BY <1>3, RefinesNotify DEF Promise!Next
<1>4. CASE JoinAndClear
  BY <1>4, RefinesClose DEF Promise!Next
<1>5. CASE Flush \/ Destroy
  <2>1. /\ UNCHANGED <<ticket, execs, called>>
        /\ mainpc \in {"idle", "callback"} /\ mainpc' = "flushReset"
        /\ newer' = Submitted /\ older' = newer
    BY <1>5 DEF Flush, Destroy, BeginFlush, InUserCode, requests
  <2>. QED
    BY <2>1 DEF Promise!Next, Promise!FlushBegin, Submitted, Executed
<1>6. CASE FlushReturn
  <2>1. /\ UNCHANGED <<ticket, execs, called, newer, older>>
        /\ mainpc = "flushWait" /\ mainpc' \in {"idle", "callback", "stop"}
    BY <1>6 DEF FlushReturn, history, requests, barrier, IInv, TypeOK
  <2>2. older \subseteq Executed
    <3>1. ASSUME NEW t \in older PROVE t \in Executed
      <4>1. t \in Tasks /\ Lane(t) \in Worker /\ Lane(t) < mi
        <5>1. t \in Tasks /\ Lane(t) \in Worker /\ mi = ConnNum
          BY <1>6, LaneType DEF FlushReturn, IInv, TypeOK
        <5>. QED BY <5>1, ConnNumPositive DEF Worker
      <4>. QED BY <2>1, <4>1 DEF IInv, BarrierInv, Passed, InFlush, Executed
    <3>. QED BY <3>1
  <2>. QED
    BY <2>1, <2>2 DEF Promise!Next, Promise!FlushEnd, Submitted, Executed
<1>7. CASE /\ UNCHANGED <<ticket, execs, called, newer, older>>
           /\ mainpc' = mainpc \/ {mainpc, mainpc'} \cap
                {"flushReset", "flushWait", "destroyed"} = {}
  <2>1. /\ Submitted' = Submitted /\ Executed' = Executed
        /\ Earlier' = Earlier /\ Notified' = Notified
    BY <1>7 DEF Submitted, Executed, Earlier, Notified
  <2>2. /\ mainpc' # "destroyed" <=> mainpc # "destroyed"
        /\ mainpc' \in {"flushReset", "flushWait"} <=>
             mainpc \in {"flushReset", "flushWait"}
    BY <1>7
  <2>. QED BY <1>7, <2>1, <2>2 DEF Promise!vars, Earlier, Notified
<1>8. CASE FlushRaise
  <2>1. /\ UNCHANGED <<ticket, execs, called, newer, older>>
        /\ mainpc = "flushReset" /\ mainpc' = "flushWait"
    BY <1>8 DEF FlushRaise, history, requests, barrier
  <2>2. /\ Submitted' = Submitted /\ Executed' = Executed
        /\ Earlier' = Earlier /\ Notified' = Notified
    BY <2>1 DEF Submitted, Executed, Earlier, Notified
  <2>. QED BY <2>1, <2>2 DEF Promise!vars, Earlier, Notified
<1>9. CASE \/ StartThread \/ InitReturn \/ InitFail \/ InitConnect
           \/ UpdateReturn \/ CallbackReturn \/ FlushReset \/ FlushSeen
           \/ SetStoping \/ ResetStopedNum \/ AwaitStoped \/ OnUpdate
           \/ UNCHANGED vars
  BY <1>7, <1>9
     DEF StartThread, InitReturn, InitFail, InitConnect, UpdateReturn,
         CallbackReturn, FlushReset, FlushSeen, SetStoping, ResetStopedNum,
         AwaitStoped, OnUpdate, vars, history, requests, barrier
<1>10. ASSUME NEW i \in Worker,
              \/ WorkerPop(i) \/ WorkerFinish(i) \/ WorkerCheck(i)
              \/ WorkerSetFlag(i) \/ WorkerCheckStop(i) \/ WorkerCount(i)
       PROVE  Promise!Next \/ UNCHANGED Promise!vars
  <2>1. UNCHANGED <<mainpc, ticket, execs, called, newer, older>>
    BY <1>10
       DEF WorkerPop, WorkerFinish, WorkerCheck, WorkerSetFlag,
           WorkerCheckStop, WorkerCount, mainVars, history, requests, barrier
  <2>. QED BY <1>7, <2>1
<1>. QED
  BY <1>1, <1>2, <1>3, <1>4, <1>5, <1>6, <1>8, <1>9, <1>10, NextSplit
     DEF Control

\* Every behaviour of the engine, with its threads, queues and flags, is a
\* behaviour of the promise AsyncDB makes to the code that uses it.
THEOREM Refinement == Spec => ImplementsAsyncDB
<1>. SUFFICES Spec => Promise!Spec
  BY DEF ImplementsAsyncDB
<1>1. Spec => Promise!Init /\ [][Promise!Next]_(Promise!vars)
  BY RefinesInit, RefinesNext, Invariance, PTL DEF Spec
<1>. QED BY <1>1 DEF Promise!Spec
=============================================================================
