---------------------------- MODULE MysqlDBProofs ----------------------------
(***************************************************************************)
(* Proofs about MysqlDB, for every set of requests, every assignment of    *)
(* keys and every configured number of connections.                        *)
(***************************************************************************)
EXTENDS MysqlDBInvariant, TLAPS, FiniteSetTheorems

-----------------------------------------------------------------------------
(* The constants.                                                          *)

LEMMA ConnNumPositive == ConnNum \in Nat /\ ConnNum > 0
BY CfgConnNumAssumption DEF ConnNum

LEMMA LaneType == \A t \in Tasks : Lane(t) \in Worker
BY ConnNumPositive, KeyAssumption DEF Lane, Worker

-----------------------------------------------------------------------------
(* Sequences and their ranges.                                             *)

LEMMA RangeEmpty == Range(<<>>) = {}
BY DEF Range

LEMMA RangeMember ==
    ASSUME NEW S, NEW s \in Seq(S)
    PROVE  /\ Range(s) \subseteq S
           /\ \A x : x \in Range(s) <=> \E a \in 1 .. Len(s) : x = s[a]
BY DEF Range

LEMMA RangeAppend ==
    ASSUME NEW S, NEW s \in Seq(S), NEW e \in S
    PROVE  /\ Append(s, e) \in Seq(S)
           /\ Range(Append(s, e)) = Range(s) \cup {e}
<1>1. Append(s, e) \in Seq(S) /\ DOMAIN s = 1 .. Len(s)
      /\ DOMAIN Append(s, e) = 1 .. Len(s) + 1
  OBVIOUS
<1>2. /\ \A a \in 1 .. Len(s) : Append(s, e)[a] = s[a]
      /\ Append(s, e)[Len(s) + 1] = e
  OBVIOUS
<1>3. Len(s) \in Nat /\ 1 .. Len(s) + 1 = 1 .. Len(s) \cup {Len(s) + 1}
  OBVIOUS
<1>. QED BY <1>1, <1>2, <1>3 DEF Range

LEMMA RangeTail ==
    ASSUME NEW S, NEW s \in Seq(S), s # <<>>
    PROVE  /\ Head(s) \in S /\ Tail(s) \in Seq(S)
           /\ Head(s) \in Range(s)
           /\ Range(Tail(s)) \subseteq Range(s)
           /\ Range(s) = {Head(s)} \cup Range(Tail(s))
<1>1. /\ Len(s) \in Nat \ {0} /\ Head(s) = s[1]
      /\ Head(s) \in S /\ Tail(s) \in Seq(S)
  BY SMTT(30)
<1>2. /\ Len(Tail(s)) = Len(s) - 1
      /\ \A a \in 1 .. Len(Tail(s)) : Tail(s)[a] = s[a + 1]
  OBVIOUS
<1>3. Head(s) \in Range(s)
  <2>1. 1 \in 1 .. Len(s)
    BY <1>1
  <2>. QED BY <1>1, <2>1, RangeMember
<1>4. ASSUME NEW x \in Range(Tail(s)) PROVE x \in Range(s)
  <2>1. PICK a \in 1 .. Len(Tail(s)) : x = Tail(s)[a]
    BY <1>1 DEF Range
  <2>2. a + 1 \in 1 .. Len(s) /\ x = s[a + 1]
    BY <1>1, <1>2, <2>1
  <2>. QED BY <2>2, RangeMember
<1>5. ASSUME NEW x \in Range(s), x # Head(s) PROVE x \in Range(Tail(s))
  <2>1. PICK a \in 1 .. Len(s) : x = s[a]
    BY RangeMember
  <2>2. a - 1 \in 1 .. Len(Tail(s)) /\ x = Tail(s)[a - 1]
    BY <1>1, <1>2, <1>5, <2>1
  <2>3. DOMAIN Tail(s) = 1 .. Len(Tail(s))
    BY <1>1
  <2>. QED BY <2>2, <2>3, Zenon DEF Range
<1>. QED BY <1>1, <1>3, <1>4, <1>5

-----------------------------------------------------------------------------
(* Sequences in the order of a number f gives their elements.              *)

LEMMA InOrderEmpty == ASSUME NEW f PROVE InOrder(<<>>, f)
BY DEF InOrder

LEMMA InOrderAppend ==
    ASSUME NEW s \in Seq(Tasks), NEW e \in Tasks, NEW f \in [Tasks -> Nat],
           InOrder(s, f), Ahead(Range(s), {e}, f)
    PROVE  InOrder(Append(s, e), f)
<1>. DEFINE u == Append(s, e)
<1>1. /\ Len(s) \in Nat /\ Len(u) = Len(s) + 1 /\ u[Len(s) + 1] = e
      /\ \A a \in 1 .. Len(s) : u[a] = s[a]
  OBVIOUS
<1>2. SUFFICES ASSUME NEW a \in 1 .. Len(u), NEW b \in 1 .. Len(u),
                      a < b, Lane(u[a]) = Lane(u[b])
               PROVE  f[u[a]] < f[u[b]]
  BY DEF InOrder
<1>3. a \in 1 .. Len(s) /\ u[a] = s[a]
  BY <1>1, <1>2
<1>4. CASE b \in 1 .. Len(s)
  BY <1>1, <1>2, <1>3, <1>4 DEF InOrder
<1>5. CASE b = Len(s) + 1
  <2>1. s[a] \in Range(s)
    BY <1>3, RangeMember
  <2>. QED BY <1>1, <1>2, <1>3, <1>5, <2>1 DEF Ahead
<1>. QED BY <1>1, <1>4, <1>5

LEMMA InOrderTail ==
    ASSUME NEW s \in Seq(Tasks), s # <<>>, NEW f \in [Tasks -> Nat],
           InOrder(s, f)
    PROVE  /\ InOrder(Tail(s), f)
           /\ Ahead({Head(s)}, Range(Tail(s)), f)
<1>1. /\ Len(s) \in Nat \ {0} /\ Head(s) = s[1] /\ Tail(s) \in Seq(Tasks)
      /\ Len(Tail(s)) = Len(s) - 1
      /\ \A a \in 1 .. Len(Tail(s)) : Tail(s)[a] = s[a + 1]
  OBVIOUS
<1>2. InOrder(Tail(s), f)
  BY <1>1 DEF InOrder
<1>3. ASSUME NEW t \in Range(Tail(s)), Lane(Head(s)) = Lane(t)
      PROVE  f[Head(s)] < f[t]
  <2>1. PICK a \in 1 .. Len(Tail(s)) : t = Tail(s)[a]
    BY <1>1 DEF Range
  <2>2. a + 1 \in 1 .. Len(s) /\ t = s[a + 1] /\ 1 < a + 1
    BY <1>1, <2>1
  <2>. QED BY <1>1, <1>3, <2>2 DEF InOrder
<1>. QED BY <1>2, <1>3 DEF Ahead

\* Numbering one more request disturbs no sequence that does not hold it.
LEMMA InOrderSame ==
    ASSUME NEW s \in Seq(Tasks), NEW f, NEW g, InOrder(s, f),
           \A t \in Range(s) : f[t] = g[t]
    PROVE  InOrder(s, g)
<1>1. \A a \in 1 .. Len(s) : s[a] \in Range(s)
  BY RangeMember
<1>. QED BY <1>1 DEF InOrder

-----------------------------------------------------------------------------
(* Type correctness.                                                       *)

LEMMA EmptySeq == ASSUME NEW S PROVE <<>> \in Seq(S)
OBVIOUS

LEMMA TypeInit == Init => TypeOK
<1>. SUFFICES ASSUME Init PROVE TypeOK
  OBVIOUS
<1>1. /\ taskQueues \in [Worker -> Seq(Tasks)]
      /\ batch \in [Worker -> Seq(Tasks)]
      /\ updating \in Seq(Tasks) /\ finishTasks \in Seq(Tasks)
  BY EmptySeq DEF Init
<1>2. QED
  <2>1. flushFlag \in [Worker -> BOOLEAN] /\ mi \in 0 .. ConnNum
    BY ConnNumPositive DEF Init
  <2>2. /\ wpc \in [Worker -> WorkerPC]
        /\ ticket \in [Tasks -> Nat] /\ execs \in [Tasks -> Nat]
        /\ called \in [Tasks -> Nat]
    BY DEF Init, WorkerPC
  <2>. QED BY <1>1, <2>1, <2>2 DEF Init, TypeOK, MainPC

LEMMA TypeNext == TypeOK /\ BatchInv /\ [Next]_vars => TypeOK'
<1>. SUFFICES ASSUME TypeOK, BatchInv, [Next]_vars PROVE TypeOK'
  OBVIOUS
<1>. USE DEF TypeOK, vars, mainVars, stopVars, flushVars, queues, shared,
             workerVars, requests, barrier, history
<1>1. ASSUME NEW t \in Tasks, QueryAsync(t) PROVE TypeOK'
  <2>1. Append(taskQueues[Lane(t)], t) \in Seq(Tasks)
    BY LaneType
  <2>2. taskQueues' \in [Worker -> Seq(Tasks)]
    BY <1>1, <2>1 DEF QueryAsync
  <2>3. ticket' \in [Tasks -> Nat] /\ issued' \in Nat
    BY <1>1 DEF QueryAsync
  <2>. QED BY <1>1, <2>2, <2>3 DEF QueryAsync
<1>2. CASE StartThread
  <2>1. mi' \in 0 .. ConnNum
    BY <1>2, ConnNumPositive DEF StartThread
  <2>2. wpc' \in [Worker -> WorkerPC]
    BY <1>2 DEF StartThread, WorkerPC
  <2>. QED BY <1>2, <2>1, <2>2 DEF StartThread
<1>3. CASE InitReturn
  BY <1>3 DEF InitReturn, MainPC
<1>4. CASE Invoke
  <2>1. Head(updating) \in Tasks /\ Tail(updating) \in Seq(Tasks)
    BY <1>4, RangeTail DEF Invoke
  <2>2. updating' \in Seq(Tasks) /\ mainpc' \in MainPC
    BY <1>4, <2>1 DEF Invoke, MainPC
  <2>3. called' \in [Tasks -> Nat]
    BY <1>4, <2>1 DEF Invoke
  <2>. QED BY <1>4, <2>2, <2>3 DEF Invoke
<1>5. CASE UpdateReturn
  BY <1>5 DEF UpdateReturn, MainPC
<1>6. CASE FlushReset
  <2>1. flushFlag' \in [Worker -> BOOLEAN]
    BY <1>6, Zenon DEF FlushReset
  <2>2. mi' \in 0 .. ConnNum
    BY <1>6, ConnNumPositive DEF FlushReset
  <2>. QED BY <1>6, <2>1, <2>2 DEF FlushReset
<1>7. CASE FlushRaise
  BY <1>7, ConnNumPositive DEF FlushRaise, MainPC
<1>8. CASE FlushSeen
  BY <1>8, ConnNumPositive DEF FlushSeen
<1>9. CASE FlushReturn
  BY <1>9 DEF FlushReturn, MainPC
<1>10. CASE SetStoping
  BY <1>10 DEF SetStoping, MainPC
<1>11. CASE ResetStopedNum
  BY <1>11 DEF ResetStopedNum, MainPC
<1>12. CASE AwaitStoped
  BY <1>12 DEF AwaitStoped, MainPC
<1>13. CASE JoinAndClear
  <2>1. /\ taskQueues' \in [Worker -> Seq(Tasks)]
        /\ finishTasks' \in Seq(Tasks)
    BY <1>13, EmptySeq DEF JoinAndClear
  <2>. QED BY <1>13, <2>1 DEF JoinAndClear, MainPC
<1>14. CASE InitFail
  BY <1>14 DEF InitFail, MainPC
<1>15. CASE InitConnect
  BY <1>15 DEF InitConnect, MainPC
<1>16. CASE Flush
  BY <1>16, ConnNumPositive DEF Flush, MainPC, BeginFlush, InUserCode, Submitted
<1>17. CASE CallbackReturn
  BY <1>17 DEF CallbackReturn, MainPC
<1>18. CASE Destroy
  BY <1>18, ConnNumPositive DEF Destroy, MainPC, BeginFlush, Submitted
<1>19. CASE OnUpdate
  BY <1>19 DEF OnUpdate, MainPC
<1>20. ASSUME NEW i \in Worker, WorkerPop(i) PROVE TypeOK'
  <2>1. wpc' \in [Worker -> WorkerPC]
    BY <1>20 DEF WorkerPop, WorkerPC
  <2>. QED BY <1>20, <2>1 DEF WorkerPop
<1>21. ASSUME NEW i \in Worker, WorkerExec(i) PROVE TypeOK'
  <2>1. /\ Head(batch[i]) \in Tasks /\ Tail(batch[i]) \in Seq(Tasks)
    BY <1>21, RangeTail DEF WorkerExec, BatchInv
  <2>2. wpc' \in [Worker -> WorkerPC]
    BY <1>21 DEF WorkerExec, WorkerPC
  <2>3. execs' \in [Tasks -> Nat]
    BY <1>21, <2>1 DEF WorkerExec
  <2>. QED BY <1>21, <2>2, <2>3 DEF WorkerExec
<1>22. ASSUME NEW i \in Worker, WorkerFinish(i) PROVE TypeOK'
  <2>1. /\ Head(batch[i]) \in Tasks /\ Tail(batch[i]) \in Seq(Tasks)
    BY <1>22, RangeTail DEF WorkerFinish, BatchInv
  <2>2. finishTasks' \in Seq(Tasks) /\ batch' \in [Worker -> Seq(Tasks)]
    BY <1>22, <2>1, RangeAppend DEF WorkerFinish
  <2>3. wpc' \in [Worker -> WorkerPC]
    BY <1>22 DEF WorkerFinish, WorkerPC
  <2>. QED BY <1>22, <2>2, <2>3 DEF WorkerFinish
<1>23. ASSUME NEW i \in Worker, WorkerCheck(i) PROVE TypeOK'
  <2>1. wpc' \in [Worker -> WorkerPC]
    BY <1>23 DEF WorkerCheck, WorkerPC
  <2>. QED BY <1>23, <2>1 DEF WorkerCheck
<1>24. ASSUME NEW i \in Worker, WorkerSetFlag(i) PROVE TypeOK'
  <2>1. wpc' \in [Worker -> WorkerPC]
    BY <1>24 DEF WorkerSetFlag, WorkerPC
  <2>. QED BY <1>24, <2>1 DEF WorkerSetFlag
<1>25. ASSUME NEW i \in Worker, WorkerCheckStop(i) PROVE TypeOK'
  <2>1. wpc' \in [Worker -> WorkerPC]
    BY <1>25 DEF WorkerCheckStop, WorkerPC
  <2>. QED BY <1>25, <2>1 DEF WorkerCheckStop
<1>26. ASSUME NEW i \in Worker, WorkerCount(i) PROVE TypeOK'
  <2>1. wpc' \in [Worker -> WorkerPC]
    BY <1>26 DEF WorkerCount, WorkerPC
  <2>. QED BY <1>26, <2>1 DEF WorkerCount
<1>27. CASE UNCHANGED vars
  BY <1>27
<1>. QED
  BY <1>1, <1>2, <1>3, <1>4, <1>5, <1>6, <1>7, <1>8, <1>9, <1>10, <1>11, <1>12, <1>13, <1>14, <1>15, <1>16, <1>17, <1>18, <1>19, <1>20, <1>21, <1>22, <1>23, <1>24, <1>25, <1>26, <1>27 DEF Next, MainStep, UserStep, WorkerStep

-----------------------------------------------------------------------------
(* What the invariant says of the two requests a step takes out of a       *)
(* sequence: they are in no other place.                                   *)

LEMMA Places ==
    ASSUME TypeOK
    PROVE  /\ F \subseteq Tasks /\ U \subseteq Tasks
           /\ \A i \in Worker : Q(i) \subseteq Tasks /\ B(i) \subseteq Tasks
BY RangeMember DEF TypeOK, F, U, Q, B

LEMMA BatchHead ==
    ASSUME IInv, NEW i \in Worker, wpc[i] \in {"work", "finish"}
    PROVE  LET h == Head(batch[i])
               r == Tail(batch[i])
           IN  /\ h \in Tasks /\ r \in Seq(Tasks) /\ Range(r) \subseteq Tasks
               /\ h \in B(i) /\ B(i) = {h} \cup Range(r)
               /\ h \notin Range(r) /\ h \notin F \cup U
               /\ \A j \in Worker : h \notin Q(j) /\ (j # i => h \notin B(j))
               /\ ticket[h] > 0 /\ Lane(h) = i /\ called[h] = 0
               /\ InOrder(r, ticket) /\ Ahead({h}, Range(r), ticket)
<1>. USE DEF IInv
<1>. DEFINE h == Head(batch[i])
            r == Tail(batch[i])
<1>1. batch[i] \in Seq(Tasks) /\ batch[i] # <<>> /\ ticket \in [Tasks -> Nat]
  BY DEF TypeOK, BatchInv
<1>2. /\ h \in Tasks /\ r \in Seq(Tasks) /\ Range(r) \subseteq Tasks
      /\ h \in B(i) /\ B(i) = {h} \cup Range(r)
  BY <1>1, RangeTail, RangeMember DEF B
<1>3. InOrder(r, ticket) /\ Ahead({h}, Range(r), ticket)
  BY <1>1, InOrderTail DEF BatchInv
<1>4. ticket[h] > 0 /\ Lane(h) = i /\ called[h] = 0
  BY <1>2 DEF BatchInv
<1>5. ticket[h] \in Nat /\ ~(ticket[h] < ticket[h])
  BY <1>1, <1>2
<1>6. h \notin Range(r)
  BY <1>3, <1>5 DEF Ahead
<1>7. h \notin F \cup U
  BY <1>2, <1>5 DEF AheadInv, Ahead
<1>8. ASSUME NEW j \in Worker PROVE h \notin Q(j) /\ (j # i => h \notin B(j))
  <2>1. CASE j = i
    BY <1>2, <1>5, <2>1 DEF AheadInv, Ahead
  <2>2. CASE j # i
    BY <1>4, <2>2 DEF QueueInv, BatchInv
  <2>. QED BY <2>1, <2>2
<1>. QED BY <1>2, <1>3, <1>4, <1>6, <1>7, <1>8

LEMMA UpdateHead ==
    ASSUME IInv, updating # <<>>
    PROVE  LET h == Head(updating)
               r == Tail(updating)
           IN  /\ h \in Tasks /\ r \in Seq(Tasks) /\ Range(r) \subseteq Tasks
               /\ h \in U /\ U = {h} \cup Range(r)
               /\ h \notin Range(r) /\ h \notin F
               /\ \A j \in Worker : h \notin Q(j) \cup B(j)
               /\ ticket[h] > 0 /\ execs[h] = 1 /\ called[h] = 0
               /\ InOrder(r, ticket) /\ Ahead({h}, Range(r), ticket)
<1>. USE DEF IInv
<1>. DEFINE h == Head(updating)
            r == Tail(updating)
<1>1. updating \in Seq(Tasks) /\ ticket \in [Tasks -> Nat]
  BY DEF TypeOK
<1>2. /\ h \in Tasks /\ r \in Seq(Tasks) /\ Range(r) \subseteq Tasks
      /\ h \in U /\ U = {h} \cup Range(r)
  BY <1>1, RangeTail, RangeMember DEF U
<1>3. InOrder(r, ticket) /\ Ahead({h}, Range(r), ticket)
  BY <1>1, InOrderTail DEF FinishInv
<1>4. execs[h] = 1 /\ called[h] = 0 /\ ticket[h] > 0
  BY <1>2 DEF FinishInv, TicketInv
<1>5. ticket[h] \in Nat /\ ~(ticket[h] < ticket[h])
  BY <1>1, <1>2
<1>6. h \notin Range(r)
  BY <1>3, <1>5 DEF Ahead
<1>7. h \notin F
  BY <1>2, <1>5 DEF AheadInv, Ahead
<1>8. \A j \in Worker : h \notin Q(j) \cup B(j)
  BY <1>2, <1>5 DEF AheadInv, Ahead
<1>. QED BY <1>2, <1>3, <1>4, <1>6, <1>7, <1>8

\* A request that is being submitted is in no place yet, its number is above
\* every other, and the numbers of the others stay what they are.
LEMMA NewRequest ==
    ASSUME IInv, NEW t \in Tasks, QueryAsync(t)
    PROVE  /\ t \notin F \cup U /\ t \notin Submitted
           /\ \A i \in Worker : t \notin Q(i) \cup B(i)
           /\ execs[t] = 0 /\ called[t] = 0
           /\ ticket' \in [Tasks -> Nat]
           /\ \A s \in Tasks : s # t => ticket'[s] = ticket[s]
           /\ \A s \in Tasks : ticket[s] < ticket'[t]
           /\ ticket'[t] = issued + 1
           /\ Submitted' = Submitted \cup {t}
           /\ Lane(t) \in Worker
           /\ Q(Lane(t))' = Q(Lane(t)) \cup {t}
           /\ \A i \in Worker : i # Lane(t) => Q(i)' = Q(i)
<1>. USE DEF IInv
<1>1. /\ ticket \in [Tasks -> Nat] /\ issued \in Nat
      /\ execs \in [Tasks -> Nat] /\ called \in [Tasks -> Nat]
      /\ taskQueues \in [Worker -> Seq(Tasks)]
      /\ Lane(t) \in Worker
  BY LaneType DEF TypeOK
<1>2. t \notin Submitted /\ t \notin F \cup U
  BY <1>1 DEF QueryAsync, Submitted, TicketInv, FinishInv
<1>3. \A i \in Worker : t \notin Q(i) \cup B(i)
  BY <1>1 DEF QueryAsync, QueueInv, BatchInv
<1>4. execs[t] = 0 /\ called[t] = 0
  BY <1>1, <1>2 DEF TicketInv, AtMostOnce, Submitted
<1>5. /\ ticket' \in [Tasks -> Nat] /\ ticket'[t] = issued + 1
      /\ \A s \in Tasks : s # t => ticket'[s] = ticket[s]
  BY <1>1 DEF QueryAsync
<1>6. /\ \A s \in Tasks : ticket[s] < ticket'[t]
      /\ Submitted' = Submitted \cup {t}
  BY <1>1, <1>5 DEF TicketInv, Submitted
<1>7. /\ Q(Lane(t))' = Q(Lane(t)) \cup {t}
      /\ \A i \in Worker : i # Lane(t) => Q(i)' = Q(i)
  BY <1>1, RangeAppend DEF QueryAsync, Q
<1>. QED BY <1>1, <1>2, <1>3, <1>4, <1>5, <1>6, <1>7

-----------------------------------------------------------------------------
(* Each part of the invariant is kept by every step.                       *)

\* The steps that only move a thread from one place in its code to another,
\* with the flags that go with it.
Control ==
    \/ StartThread \/ InitReturn \/ InitFail \/ InitConnect
    \/ UpdateReturn \/ CallbackReturn
    \/ FlushReset \/ FlushRaise \/ FlushSeen \/ FlushReturn
    \/ SetStoping \/ ResetStopedNum \/ AwaitStoped
    \/ \E i \in Worker : \/ WorkerCheck(i) \/ WorkerSetFlag(i)
                         \/ WorkerCheckStop(i) \/ WorkerCount(i)
    \/ UNCHANGED vars

LEMMA ControlFrame ==
    Control => UNCHANGED <<taskQueues, finishTasks, updating, batch, issued,
                           ticket, execs, called, newer, older, taken>>
BY DEF Control, StartThread, InitReturn, InitFail, InitConnect, UpdateReturn,
       CallbackReturn, FlushReset, FlushRaise, FlushSeen, FlushReturn,
       SetStoping, ResetStopedNum, AwaitStoped, WorkerCheck, WorkerSetFlag,
       WorkerCheckStop, WorkerCount, vars, mainVars, stopVars, flushVars,
       queues, shared, workerVars, requests, barrier, history

LEMMA NextSplit ==
    ASSUME [Next]_vars
    PROVE  \/ Control
           \/ \E t \in Tasks : QueryAsync(t)
           \/ OnUpdate \/ Invoke \/ JoinAndClear
           \/ Flush \/ Destroy
           \/ \E i \in Worker : WorkerPop(i) \/ WorkerExec(i) \/ WorkerFinish(i)
BY DEF Control, Next, MainStep, UserStep, WorkerStep

LEMMA TicketNext == IInv /\ [Next]_vars => TicketInv'
<1>. SUFFICES ASSUME IInv, [Next]_vars PROVE TicketInv'
  OBVIOUS
<1>. USE DEF IInv, TicketInv
<1>. USE DEF vars, mainVars, stopVars, flushVars, queues, shared, workerVars,
             requests, barrier, history
<1>0. /\ ticket \in [Tasks -> Nat] /\ issued \in Nat
      /\ execs \in [Tasks -> Nat]
  BY DEF TypeOK
<1>1. ASSUME NEW t \in Tasks, QueryAsync(t) PROVE TicketInv'
  <2>1. \A s \in Tasks : ticket'[s] <= issued'
    BY <1>0, <1>1, NewRequest DEF QueryAsync
  <2>2. UNCHANGED <<execs, newer, older, taken>> /\ Submitted \subseteq Submitted'
    BY <1>1, NewRequest DEF QueryAsync
  <2>3. \A s \in Tasks : execs[s] > 0 => ticket'[s] > 0
    BY <1>0, <1>1, NewRequest
  <2>. QED BY <2>1, <2>2, <2>3
<1>2. ASSUME NEW i \in Worker, WorkerExec(i) PROVE TicketInv'
  BY <1>0, <1>2, BatchHead DEF WorkerExec, Submitted
<1>3. CASE Flush
  BY <1>3 DEF Flush, BeginFlush, Submitted
<1>4. CASE Destroy
  BY <1>4 DEF Destroy, BeginFlush, Submitted
<1>5. CASE UNCHANGED <<issued, ticket, execs, barrier>>
  BY <1>5 DEF Submitted
<1>. QED
  BY <1>1, <1>2, <1>3, <1>4, <1>5, NextSplit, ControlFrame
     DEF OnUpdate, Invoke, JoinAndClear, WorkerPop, WorkerFinish

LEMMA QueueNext == IInv /\ [Next]_vars => QueueInv'
<1>. SUFFICES ASSUME IInv, [Next]_vars, NEW i \in Worker
              PROVE  /\ \A t \in Q(i)' :
                           ticket'[t] > 0 /\ Lane(t) = i /\ execs'[t] = 0
                     /\ InOrder(taskQueues'[i], ticket')
  BY DEF QueueInv
<1>. USE DEF IInv, QueueInv
<1>. USE DEF vars, mainVars, stopVars, flushVars, queues, shared, workerVars,
             requests, barrier, history
<1>0. /\ ticket \in [Tasks -> Nat] /\ execs \in [Tasks -> Nat]
      /\ taskQueues \in [Worker -> Seq(Tasks)]
      /\ Q(i) \subseteq Tasks
  BY Places DEF TypeOK
<1>1. ASSUME NEW t \in Tasks, QueryAsync(t) PROVE
          /\ \A s \in Q(i)' : ticket'[s] > 0 /\ Lane(s) = i /\ execs'[s] = 0
          /\ InOrder(taskQueues'[i], ticket')
  <2>1. InOrder(taskQueues[i], ticket')
    BY <1>0, <1>1, NewRequest, InOrderSame DEF Q
  <2>2. Ahead(Q(i), {t}, ticket')
    BY <1>0, <1>1, NewRequest DEF Ahead
  <2>3. CASE i = Lane(t)
    <3>1. taskQueues'[i] = Append(taskQueues[i], t) /\ execs' = execs
      BY <1>0, <1>1, <2>3 DEF QueryAsync
    <3>2. InOrder(taskQueues'[i], ticket')
      <4>1. /\ ticket' \in [Tasks -> Nat] /\ taskQueues[i] \in Seq(Tasks)
            /\ Ahead(Range(taskQueues[i]), {t}, ticket')
        BY <1>0, <1>1, <2>2, NewRequest DEF Q
      <4>. QED BY <2>1, <3>1, <4>1, InOrderAppend
    <3>3. \A s \in Q(i)' : ticket'[s] > 0 /\ Lane(s) = i /\ execs'[s] = 0
      BY <1>0, <1>1, <2>3, <3>1, NewRequest
    <3>. QED BY <3>2, <3>3
  <2>4. CASE i # Lane(t)
    <3>1. taskQueues'[i] = taskQueues[i] /\ execs' = execs
      BY <1>0, <1>1, <2>4 DEF QueryAsync
    <3>2. Q(i)' = Q(i) /\ \A s \in Q(i) : ticket'[s] > 0
      <4>1. /\ \A s \in Q(i) : s # t
            /\ \A s \in Tasks : s # t => ticket'[s] = ticket[s]
        BY <1>1, NewRequest
      <4>. QED BY <1>0, <3>1, <4>1 DEF Q
    <3>. QED BY <1>0, <2>1, <3>1, <3>2
  <2>. QED BY <2>3, <2>4
<1>2. ASSUME NEW j \in Worker, WorkerPop(j) PROVE
          /\ \A t \in Q(i)' : ticket'[t] > 0 /\ Lane(t) = i /\ execs'[t] = 0
          /\ InOrder(taskQueues'[i], ticket')
  <2>1. taskQueues'[i] = taskQueues[i] \/ taskQueues'[i] = <<>>
    BY <1>0, <1>2 DEF WorkerPop
  <2>. QED BY <1>2, <2>1, InOrderEmpty, RangeEmpty DEF WorkerPop, Q
<1>3. CASE JoinAndClear
  BY <1>3, InOrderEmpty, RangeEmpty DEF JoinAndClear, Q
<1>4. ASSUME NEW j \in Worker, WorkerExec(j) PROVE
          /\ \A t \in Q(i)' : ticket'[t] > 0 /\ Lane(t) = i /\ execs'[t] = 0
          /\ InOrder(taskQueues'[i], ticket')
  <2>1. Head(batch[j]) \notin Q(i)
    BY <1>4, BatchHead DEF WorkerExec
  <2>2. \A t \in Q(i) : execs'[t] = execs[t]
    BY <1>0, <1>4, <2>1 DEF WorkerExec
  <2>. QED BY <1>4, <2>2 DEF WorkerExec, Q
<1>5. CASE UNCHANGED <<taskQueues, ticket, execs>>
  BY <1>5 DEF Q
<1>. QED
  BY <1>1, <1>2, <1>3, <1>4, <1>5, NextSplit, ControlFrame
     DEF OnUpdate, Invoke, Flush, Destroy, WorkerFinish

LEMMA BatchNext == IInv /\ [Next]_vars => BatchInv'
<1>. DEFINE Good(i) ==
       /\ batch[i] # <<>> <=> wpc[i] \in {"work", "finish"}
       /\ \A t \in B(i) : ticket[t] > 0 /\ Lane(t) = i /\ called[t] = 0
       /\ wpc[i] = "work" => \A t \in B(i) : execs[t] = 0
       /\ wpc[i] = "finish" =>
            /\ execs[Head(batch[i])] = 1
            /\ \A t \in Range(Tail(batch[i])) : execs[t] = 0
       /\ InOrder(batch[i], ticket)
<1>. SUFFICES ASSUME IInv, [Next]_vars, NEW i \in Worker PROVE Good(i)'
  BY DEF BatchInv
<1>. USE DEF IInv
<1>. USE DEF vars, mainVars, stopVars, flushVars, queues, shared, workerVars,
             requests, barrier, history
<1>0. /\ ticket \in [Tasks -> Nat] /\ execs \in [Tasks -> Nat]
      /\ called \in [Tasks -> Nat]
      /\ taskQueues \in [Worker -> Seq(Tasks)]
      /\ batch \in [Worker -> Seq(Tasks)]
      /\ wpc \in [Worker -> WorkerPC]
      /\ Q(i) \subseteq Tasks /\ B(i) \subseteq Tasks
  BY Places DEF TypeOK
<1>a. Good(i)
  BY DEF BatchInv
<1>b. wpc[i] \in {"work", "finish"} => Range(Tail(batch[i])) \subseteq B(i)
  <2>. HIDE DEF IInv
  <2>. SUFFICES ASSUME wpc[i] \in {"work", "finish"}
                PROVE  Range(Tail(batch[i])) \subseteq B(i)
    OBVIOUS
  <2>1. B(i) = {Head(batch[i])} \cup Range(Tail(batch[i]))
    BY BatchHead
  <2>. QED BY <2>1
<1>1. ASSUME NEW t \in Tasks, QueryAsync(t) PROVE Good(i)'
  <2>1. /\ UNCHANGED <<batch, wpc, execs, called>>
        /\ \A s \in B(i) : ticket'[s] = ticket[s]
    BY <1>0, <1>1, NewRequest DEF QueryAsync
  <2>2. InOrder(batch[i], ticket')
    BY <1>0, <1>a, <2>1, InOrderSame DEF B
  <2>. QED BY <1>0, <1>a, <2>1, <2>2 DEF B
<1>2. CASE Invoke
  <2>1. /\ UNCHANGED <<batch, wpc, execs, ticket>>
        /\ \A s \in B(i) : called'[s] = called[s]
    BY <1>0, <1>2, UpdateHead DEF Invoke
  <2>. QED BY <1>a, <2>1 DEF B
<1>3. ASSUME NEW j \in Worker, WorkerPop(j) PROVE Good(i)'
  <2>1. CASE i = j
    <3>1. /\ batch'[i] = taskQueues[i]
          /\ wpc'[i] = IF taskQueues[i] = <<>> THEN "check" ELSE "work"
          /\ UNCHANGED <<ticket, execs, called>>
      BY <1>0, <1>3, <2>1 DEF WorkerPop
    <3>2. B(i)' = Q(i)
      BY <3>1 DEF B, Q
    <3>3. \A t \in Q(i) : called[t] = 0
      BY <1>0 DEF QueueInv, AtMostOnce
    <3>. QED BY <3>1, <3>2, <3>3 DEF QueueInv
  <2>2. CASE i # j
    <3>1. /\ batch'[i] = batch[i] /\ wpc'[i] = wpc[i]
          /\ UNCHANGED <<ticket, execs, called>>
      BY <1>0, <1>3, <2>2 DEF WorkerPop
    <3>. QED BY <1>a, <3>1 DEF B
  <2>. QED BY <2>1, <2>2
<1>4. ASSUME NEW j \in Worker, WorkerExec(j) PROVE Good(i)'
  <2>. DEFINE h == Head(batch[j])
  <2>0. h \in Tasks
    BY <1>4, BatchHead DEF WorkerExec
  <2>1. /\ UNCHANGED <<ticket, called, batch>> /\ h \in Tasks
        /\ \A s \in Tasks : s # h => execs'[s] = execs[s]
    <3>. HIDE DEF IInv
    <3>. QED BY <1>0, <1>4, <2>0 DEF WorkerExec
  <2>2. CASE i = j
    <3>1. wpc[i] = "work" /\ wpc'[i] = "finish"
      BY <1>0, <1>4, <2>2 DEF WorkerExec
    <3>2. h \in B(i) /\ h \notin Range(Tail(batch[i]))
      BY <2>2, <3>1, BatchHead
    <3>3. execs[h] = 0 /\ execs'[h] = 1
      <4>. HIDE DEF IInv
      <4>1. execs[h] = 0
        BY <1>a, <3>1, <3>2
      <4>2. execs' = [execs EXCEPT ![h] = @ + 1]
        BY <1>4 DEF WorkerExec
      <4>3. execs'[h] = execs[h] + 1
        BY <1>0, <2>0, <4>2
      <4>. QED BY <4>1, <4>3
    <3>4. \A t \in Range(Tail(batch[i])) : execs'[t] = 0
      <4>. HIDE DEF IInv
      <4>. QED BY <1>0, <1>a, <1>b, <2>1, <3>1, <3>2
    <3>. QED BY <1>a, <2>1, <2>2, <3>1, <3>3, <3>4 DEF B
  <2>3. CASE i # j
    <3>. HIDE DEF IInv
    <3>0. wpc[j] = "work" /\ wpc' = [wpc EXCEPT ![j] = "finish"]
      BY <1>4 DEF WorkerExec
    <3>1. wpc'[i] = wpc[i] /\ h \notin B(i)
      <4>1. wpc'[i] = wpc[i]
        BY <1>0, <2>3, <3>0
      <4>2. h \notin B(i)
        BY <2>3, <3>0, BatchHead
      <4>. QED BY <4>1, <4>2
    <3>2. \A t \in B(i) : execs'[t] = execs[t]
      BY <1>0, <2>1, <3>1
    <3>3. wpc[i] = "finish" => Head(batch[i]) \in B(i)
      <4>. SUFFICES ASSUME wpc[i] = "finish" PROVE Head(batch[i]) \in B(i)
        OBVIOUS
      <4>. QED BY BatchHead
    <3>. QED BY <1>a, <1>b, <2>1, <3>1, <3>2, <3>3 DEF B
  <2>. QED BY <2>2, <2>3
<1>5. ASSUME NEW j \in Worker, WorkerFinish(j) PROVE Good(i)'
  <2>1. UNCHANGED <<ticket, execs, called>>
    BY <1>5 DEF WorkerFinish
  <2>2. CASE i = j
    <3>1. /\ batch'[i] = Tail(batch[i]) /\ wpc[i] = "finish"
          /\ wpc'[i] = IF Tail(batch[i]) = <<>> THEN "check" ELSE "work"
      BY <1>0, <1>5, <2>2 DEF WorkerFinish
    <3>2. InOrder(Tail(batch[i]), ticket)
      BY <3>1, BatchHead
    <3>3. B(i)' = Range(Tail(batch[i]))
      BY <3>1 DEF B
    <3>. QED BY <1>a, <1>b, <2>1, <3>1, <3>2, <3>3
  <2>3. CASE i # j
    <3>1. batch'[i] = batch[i] /\ wpc'[i] = wpc[i]
      BY <1>0, <1>5, <2>3 DEF WorkerFinish
    <3>. QED BY <1>a, <2>1, <3>1 DEF B
  <2>. QED BY <2>2, <2>3
<1>6. CASE /\ UNCHANGED <<batch, ticket, execs, called>>
           /\ \/ wpc'[i] = wpc[i]
              \/ /\ wpc[i] \notin {"work", "finish"}
                 /\ wpc'[i] \notin {"work", "finish"}
  BY <1>6, <1>a DEF B
<1>7. CASE StartThread
  <2>1. mi \in Worker /\ wpc[mi] = "off"
    BY <1>7, ConnNumPositive DEF StartThread, StartInv, Worker, TypeOK
  <2>2. wpc'[i] = wpc[i] \/ (wpc[i] = "off" /\ wpc'[i] = "pop")
    BY <1>0, <1>7, <2>1 DEF StartThread
  <2>. QED BY <1>6, <1>7, <2>2, ControlFrame DEF Control
<1>8. ASSUME NEW j \in Worker,
             \/ WorkerCheck(j) \/ WorkerSetFlag(j)
             \/ WorkerCheckStop(j) \/ WorkerCount(j)
      PROVE  Good(i)'
  <2>1. \/ wpc'[i] = wpc[i]
        \/ /\ wpc[i] \notin {"work", "finish"}
           /\ wpc'[i] \notin {"work", "finish"}
    BY <1>0, <1>8 DEF WorkerCheck, WorkerSetFlag, WorkerCheckStop, WorkerCount
  <2>. QED BY <1>6, <1>8, <2>1, ControlFrame DEF Control
<1>9. CASE UNCHANGED <<batch, wpc, ticket, execs, called>>
  BY <1>6, <1>9
<1>. QED
  BY <1>1, <1>2, <1>3, <1>4, <1>5, <1>7, <1>8, <1>9, NextSplit, ControlFrame
     DEF Control, OnUpdate, JoinAndClear, Flush, Destroy, InitReturn, InitFail,
         InitConnect, UpdateReturn, CallbackReturn, FlushReset, FlushRaise,
         FlushSeen, FlushReturn, SetStoping, ResetStopedNum, AwaitStoped

LEMMA FinishNext == IInv /\ [Next]_vars => FinishInv'
<1>. SUFFICES ASSUME IInv, [Next]_vars PROVE FinishInv'
  OBVIOUS
<1>. USE DEF IInv
<1>. USE DEF vars, mainVars, stopVars, flushVars, queues, shared, workerVars,
             requests, barrier, history
<1>0. /\ ticket \in [Tasks -> Nat] /\ execs \in [Tasks -> Nat]
      /\ called \in [Tasks -> Nat]
      /\ finishTasks \in Seq(Tasks) /\ updating \in Seq(Tasks)
      /\ F \subseteq Tasks /\ U \subseteq Tasks
  BY Places DEF TypeOK
<1>a. FinishInv
  OBVIOUS
<1>1. ASSUME NEW t \in Tasks, QueryAsync(t) PROVE FinishInv'
  <2>1. /\ UNCHANGED <<mainVars, finishTasks, execs, called>>
        /\ \A s \in F \cup U : ticket'[s] = ticket[s]
    BY <1>0, <1>1, NewRequest DEF QueryAsync
  <2>2. InOrder(finishTasks, ticket') /\ InOrder(updating, ticket')
    BY <1>0, <1>a, <2>1, InOrderSame DEF F, U, FinishInv
  <2>. QED BY <1>a, <2>1, <2>2 DEF F, U, FinishInv, InUpdate, InFlush
<1>2. CASE OnUpdate
  <2>1. /\ updating' = finishTasks /\ finishTasks' = <<>>
        /\ UNCHANGED <<ticket, execs, called>> /\ InUpdate'
    BY <1>2 DEF OnUpdate, InUpdate
  <2>. QED BY <1>a, <2>1, InOrderEmpty, RangeEmpty DEF FinishInv, F, U
<1>3. CASE Invoke
  <2>. DEFINE h == Head(updating)
  <2>1. /\ updating' = Tail(updating) /\ InUpdate'
        /\ UNCHANGED <<finishTasks, ticket, execs>>
    BY <1>3 DEF Invoke, InUpdate
  <2>2. /\ h \in Tasks /\ h \notin F \cup Range(Tail(updating))
        /\ Range(Tail(updating)) \subseteq U
        /\ InOrder(Tail(updating), ticket)
    BY <1>3, UpdateHead DEF Invoke
  <2>3. \A t \in F \cup Range(Tail(updating)) : called'[t] = called[t]
    BY <1>0, <1>3, <2>2 DEF Invoke
  <2>. QED BY <1>a, <2>1, <2>2, <2>3 DEF FinishInv, F, U
<1>4. ASSUME NEW i \in Worker, WorkerExec(i) PROVE FinishInv'
  <2>1. Head(batch[i]) \notin F \cup U
    BY <1>4, BatchHead DEF WorkerExec
  <2>2. /\ UNCHANGED <<mainVars, finishTasks, ticket, called>>
        /\ \A t \in F \cup U : execs'[t] = execs[t]
    BY <1>0, <1>4, <2>1 DEF WorkerExec
  <2>. QED BY <1>a, <2>2 DEF FinishInv, F, U, InUpdate, InFlush
<1>5. ASSUME NEW i \in Worker, WorkerFinish(i) PROVE FinishInv'
  <2>. DEFINE h == Head(batch[i])
  <2>1. /\ h \in Tasks /\ h \in B(i) /\ execs[h] = 1 /\ called[h] = 0
    BY <1>5, BatchHead DEF WorkerFinish, BatchInv
  <2>2. /\ UNCHANGED <<mainVars, ticket, execs, called>>
        /\ finishTasks' = Append(finishTasks, h) /\ F' = F \cup {h}
    BY <1>0, <1>5, <2>1, RangeAppend DEF WorkerFinish, F
  <2>3. Ahead(F, {h}, ticket)
    BY <1>5, <2>1 DEF AheadInv, Ahead
  <2>4. InOrder(finishTasks', ticket)
    BY <1>0, <1>a, <2>1, <2>2, <2>3, InOrderAppend DEF FinishInv, F
  <2>. QED BY <1>a, <2>1, <2>2, <2>4 DEF FinishInv, U, InUpdate, InFlush
<1>6. CASE JoinAndClear
  BY <1>6, <1>a, InOrderEmpty, RangeEmpty
     DEF JoinAndClear, FinishInv, F, U, InUpdate, InFlush
<1>7. CASE /\ UNCHANGED <<finishTasks, updating, ticket, execs, called>>
           /\ ~InUpdate' => updating = <<>>
  BY <1>7, <1>a DEF FinishInv, F, U
<1>8. ~InUpdate' => updating = <<>>
  BY <1>a, NextSplit
     DEF FinishInv, InUpdate, InFlush, Control, StartThread, InitReturn,
         InitFail, InitConnect, UpdateReturn, CallbackReturn, FlushReset,
         FlushRaise, FlushSeen, FlushReturn, SetStoping, ResetStopedNum,
         AwaitStoped, WorkerCheck, WorkerSetFlag, WorkerCheckStop, WorkerCount,
         QueryAsync, OnUpdate, Invoke, JoinAndClear, Flush, Destroy,
         BeginFlush, InUserCode, WorkerPop, WorkerExec, WorkerFinish, TypeOK
<1>. QED
  BY <1>1, <1>2, <1>3, <1>4, <1>5, <1>6, <1>7, <1>8, NextSplit, ControlFrame
     DEF Flush, Destroy, WorkerPop

LEMMA AheadNext == IInv /\ [Next]_vars => AheadInv'
<1>w. 0 \in Worker
  BY ConnNumPositive DEF Worker
<1>. SUFFICES ASSUME IInv, [Next]_vars, NEW i \in Worker
              PROVE  /\ Ahead(U', F', ticket')
                     /\ Ahead(B(i)', Q(i)', ticket')
                     /\ Ahead(F', B(i)' \cup Q(i)', ticket')
                     /\ Ahead(U', B(i)' \cup Q(i)', ticket')
  BY <1>w DEF AheadInv
<1>. USE DEF IInv
<1>. USE DEF vars, mainVars, stopVars, flushVars, queues, shared, workerVars,
             requests, barrier, history
<1>. DEFINE Goal == /\ Ahead(U', F', ticket')
                    /\ Ahead(B(i)', Q(i)', ticket')
                    /\ Ahead(F', B(i)' \cup Q(i)', ticket')
                    /\ Ahead(U', B(i)' \cup Q(i)', ticket')
<1>0. /\ ticket \in [Tasks -> Nat]
      /\ taskQueues \in [Worker -> Seq(Tasks)]
      /\ batch \in [Worker -> Seq(Tasks)]
      /\ finishTasks \in Seq(Tasks)
      /\ F \subseteq Tasks /\ U \subseteq Tasks
      /\ Q(i) \subseteq Tasks /\ B(i) \subseteq Tasks
  BY Places DEF TypeOK
<1>a. /\ Ahead(U, F, ticket)
      /\ Ahead(B(i), Q(i), ticket)
      /\ Ahead(F, B(i) \cup Q(i), ticket)
      /\ Ahead(U, B(i) \cup Q(i), ticket)
  BY DEF AheadInv
<1>1. ASSUME NEW t \in Tasks, QueryAsync(t) PROVE Goal
  <2>1. /\ F' = F /\ U' = U /\ B(i)' = B(i)
        /\ Q(i)' = Q(i) \/ Q(i)' = Q(i) \cup {t}
    BY <1>1, NewRequest DEF QueryAsync, F, U, B
  <2>2. /\ \A s \in F \cup U \cup B(i) \cup Q(i) : ticket'[s] = ticket[s]
        /\ \A s \in F \cup U \cup B(i) \cup Q(i) : ticket'[s] < ticket'[t]
    BY <1>0, <1>1, NewRequest
  <2>. QED BY <1>a, <2>1, <2>2 DEF Ahead
<1>2. CASE OnUpdate
  <2>1. U = {}
    BY <1>2, RangeEmpty DEF OnUpdate, FinishInv, InUpdate, InFlush, U
  <2>2. /\ U' = F /\ F' = {} /\ B(i)' = B(i) /\ Q(i)' = Q(i)
        /\ ticket' = ticket
    BY <1>2, RangeEmpty DEF OnUpdate, F, U, B, Q
  <2>. QED BY <1>a, <2>2 DEF Ahead
<1>3. CASE Invoke
  <2>1. /\ U' \subseteq U /\ F' = F /\ B(i)' = B(i) /\ Q(i)' = Q(i)
        /\ ticket' = ticket
    BY <1>3, UpdateHead DEF Invoke, F, U, B, Q
  <2>. QED BY <1>a, <2>1 DEF Ahead
<1>4. ASSUME NEW j \in Worker, WorkerPop(j) PROVE Goal
  <2>1. F' = F /\ U' = U /\ ticket' = ticket
    BY <1>4 DEF WorkerPop, F, U
  <2>2. CASE i = j
    <3>1. B(i)' = Q(i) /\ Q(i)' = {}
      BY <1>0, <1>4, <2>2, RangeEmpty DEF WorkerPop, B, Q
    <3>. QED BY <1>a, <2>1, <3>1 DEF Ahead
  <2>3. CASE i # j
    <3>1. B(i)' = B(i) /\ Q(i)' = Q(i)
      BY <1>0, <1>4, <2>3 DEF WorkerPop, B, Q
    <3>. QED BY <1>a, <2>1, <3>1 DEF Ahead
  <2>. QED BY <2>2, <2>3
<1>5. ASSUME NEW j \in Worker, WorkerFinish(j) PROVE Goal
  <2>. DEFINE h == Head(batch[j])
              r == Range(Tail(batch[j]))
  <2>1. /\ h \in Tasks /\ h \in B(j) /\ B(j) = {h} \cup r /\ Lane(h) = j
        /\ Ahead({h}, r, ticket)
    BY <1>5, BatchHead DEF WorkerFinish
  <2>2. /\ F' = F \cup {h} /\ U' = U /\ Q(i)' = Q(i) /\ ticket' = ticket
    BY <1>0, <1>5, <2>1, RangeAppend DEF WorkerFinish, F, U, Q
  <2>3. Ahead(U, {h}, ticket)
    BY <2>1 DEF AheadInv, Ahead
  <2>4. CASE i = j
    <3>1. B(i)' = r
      BY <1>0, <1>5, <2>4 DEF WorkerFinish, B
    <3>2. Ahead({h}, r \cup Q(i), ticket)
      BY <1>a, <2>1, <2>4 DEF Ahead
    <3>. QED BY <1>a, <2>1, <2>2, <2>3, <2>4, <3>1, <3>2 DEF Ahead
  <2>5. CASE i # j
    <3>1. B(i)' = B(i)
      BY <1>0, <1>5, <2>5 DEF WorkerFinish, B
    <3>2. \A t \in B(i) \cup Q(i) : Lane(t) = i
      BY DEF BatchInv, QueueInv
    <3>3. Ahead({h}, B(i) \cup Q(i), ticket)
      BY <2>1, <2>5, <3>2 DEF Ahead
    <3>. QED BY <1>a, <2>2, <2>3, <3>1, <3>3 DEF Ahead
  <2>. QED BY <2>4, <2>5
<1>6. CASE JoinAndClear
  <2>1. /\ F' = {} /\ U' = U /\ B(i)' = B(i) /\ Q(i)' = {}
        /\ ticket' = ticket
    BY <1>6, RangeEmpty DEF JoinAndClear, F, U, B, Q
  <2>. QED BY <1>a, <2>1 DEF Ahead
<1>7. CASE UNCHANGED <<taskQueues, batch, finishTasks, updating, ticket>>
  BY <1>7, <1>a DEF F, U, B, Q
<1>. QED
  BY <1>1, <1>2, <1>3, <1>4, <1>5, <1>6, <1>7, NextSplit, ControlFrame
     DEF Flush, Destroy, WorkerExec

LEMMA CoverNext == IInv /\ [Next]_vars => CoverInv'
<1>. DEFINE Queued0(t) == execs[t] = 0 => t \in Q(Lane(t)) \cup B(Lane(t))
            Kept(t) == \/ t \in F \cup U
                       \/ /\ wpc[Lane(t)] = "finish"
                          /\ t = Head(batch[Lane(t)])
            Waits(t) == (execs[t] > 0 /\ called[t] = 0) => Kept(t)
<1>. SUFFICES ASSUME IInv, [Next]_vars, NEW t \in Submitted'
              PROVE  Queued0(t)' /\ (mainpc' # "destroyed" => Waits(t)')
  BY DEF CoverInv
<1>. USE DEF IInv
<1>. USE DEF vars, mainVars, stopVars, flushVars, queues, shared, workerVars,
             requests, barrier, history
<1>0. /\ ticket \in [Tasks -> Nat] /\ execs \in [Tasks -> Nat]
      /\ called \in [Tasks -> Nat]
      /\ taskQueues \in [Worker -> Seq(Tasks)]
      /\ batch \in [Worker -> Seq(Tasks)]
      /\ finishTasks \in Seq(Tasks) /\ t \in Tasks /\ Lane(t) \in Worker
      /\ wpc \in [Worker -> WorkerPC]
  BY LaneType DEF TypeOK, Submitted
<1>a. t \in Submitted => Queued0(t) /\ (mainpc # "destroyed" => Waits(t))
  BY DEF CoverInv
<1>1. ASSUME NEW s \in Tasks, QueryAsync(s)
      PROVE  Queued0(t)' /\ (mainpc' # "destroyed" => Waits(t)')
  <2>1. /\ F' = F /\ U' = U /\ B(Lane(t))' = B(Lane(t))
        /\ Q(Lane(t)) \subseteq Q(Lane(t))' /\ mainpc # "destroyed"
        /\ UNCHANGED <<execs, called, wpc, batch>>
    BY <1>0, <1>1, NewRequest DEF QueryAsync, InUserCode, F, U, B
  <2>2. CASE t = s
    BY <1>1, <2>1, <2>2, NewRequest
  <2>3. CASE t # s
    BY <1>1, <1>a, <2>1, <2>3, NewRequest
  <2>. QED BY <2>2, <2>3
<1>2. CASE OnUpdate
  <2>1. U = {}
    BY <1>2, RangeEmpty DEF OnUpdate, FinishInv, InUpdate, InFlush, U
  <2>2. /\ U' = F /\ B(Lane(t))' = B(Lane(t)) /\ Q(Lane(t))' = Q(Lane(t))
        /\ UNCHANGED <<ticket, execs, called, wpc, batch>>
        /\ mainpc # "destroyed" /\ t \in Submitted
    BY <1>2 DEF OnUpdate, F, U, B, Q, Submitted
  <2>. QED BY <1>a, <2>1, <2>2
<1>3. CASE Invoke
  <2>. DEFINE h == Head(updating)
  <2>1. /\ F' = F /\ U = {h} \cup U' /\ h \in Tasks
        /\ B(Lane(t))' = B(Lane(t)) /\ Q(Lane(t))' = Q(Lane(t))
        /\ UNCHANGED <<ticket, execs, wpc, batch>>
        /\ mainpc # "destroyed" /\ t \in Submitted
    BY <1>3, UpdateHead DEF Invoke, F, U, B, Q, Submitted
  <2>2. called'[h] > 0 /\ (t # h => called'[t] = called[t])
    BY <1>0, <1>3, <2>1 DEF Invoke
  <2>. QED BY <1>a, <2>1, <2>2
<1>4. ASSUME NEW j \in Worker, WorkerPop(j)
      PROVE  Queued0(t)' /\ (mainpc' # "destroyed" => Waits(t)')
  <2>1. /\ F' = F /\ U' = U /\ t \in Submitted
        /\ UNCHANGED <<mainpc, ticket, execs, called>>
    BY <1>4 DEF WorkerPop, F, U, Submitted
  <2>2. CASE Lane(t) = j
    <3>1. B(j) = {} /\ wpc[j] = "pop"
      BY <1>4, RangeEmpty DEF WorkerPop, BatchInv, B
    <3>2. B(j)' = Q(j)
      BY <1>0, <1>4, <2>2 DEF WorkerPop, B, Q
    <3>. QED BY <1>a, <2>1, <2>2, <3>1, <3>2
  <2>3. CASE Lane(t) # j
    <3>1. /\ B(Lane(t))' = B(Lane(t)) /\ Q(Lane(t))' = Q(Lane(t))
          /\ wpc'[Lane(t)] = wpc[Lane(t)] /\ batch'[Lane(t)] = batch[Lane(t)]
      BY <1>0, <1>4, <2>3 DEF WorkerPop, B, Q
    <3>. QED BY <1>a, <2>1, <3>1
  <2>. QED BY <2>2, <2>3
<1>5. ASSUME NEW j \in Worker, WorkerExec(j)
      PROVE  Queued0(t)' /\ (mainpc' # "destroyed" => Waits(t)')
  <2>. DEFINE h == Head(batch[j])
  <2>1. /\ F' = F /\ U' = U /\ t \in Submitted
        /\ B(Lane(t))' = B(Lane(t)) /\ Q(Lane(t))' = Q(Lane(t))
        /\ UNCHANGED <<mainpc, ticket, called, batch>>
    BY <1>5 DEF WorkerExec, F, U, B, Q, Submitted
  <2>2. /\ h \in Tasks /\ Lane(h) = j /\ wpc[j] = "work"
        /\ wpc' = [wpc EXCEPT ![j] = "finish"]
        /\ execs' = [execs EXCEPT ![h] = @ + 1]
    BY <1>5, BatchHead DEF WorkerExec
  <2>3. CASE t = h
    BY <1>0, <2>1, <2>2, <2>3
  <2>4. CASE t # h
    <3>1. execs'[t] = execs[t]
      BY <1>0, <2>2, <2>4
    <3>2. Kept(t) => Kept(t)'
      BY <1>0, <2>1, <2>2
    <3>. QED BY <1>a, <2>1, <3>1, <3>2
  <2>. QED BY <2>3, <2>4
<1>6. ASSUME NEW j \in Worker, WorkerFinish(j)
      PROVE  Queued0(t)' /\ (mainpc' # "destroyed" => Waits(t)')
  <2>. DEFINE h == Head(batch[j])
              r == Range(Tail(batch[j]))
  <2>1. /\ h \in Tasks /\ Lane(h) = j /\ wpc[j] = "finish" /\ execs[h] = 1
        /\ B(j) = {h} \cup r
    BY <1>6, BatchHead DEF WorkerFinish, BatchInv
  <2>2. /\ F' = F \cup {h} /\ U' = U /\ t \in Submitted
        /\ Q(Lane(t))' = Q(Lane(t))
        /\ UNCHANGED <<mainpc, ticket, execs, called>>
    BY <1>0, <1>6, <2>1, RangeAppend DEF WorkerFinish, F, U, Q, Submitted
  <2>3. CASE Lane(t) = j
    <3>1. B(j)' = r
      BY <1>0, <1>6, <2>3 DEF WorkerFinish, B
    <3>. QED BY <1>a, <2>1, <2>2, <2>3, <3>1
  <2>4. CASE Lane(t) # j
    <3>1. /\ B(Lane(t))' = B(Lane(t)) /\ wpc'[Lane(t)] = wpc[Lane(t)]
          /\ batch'[Lane(t)] = batch[Lane(t)]
      BY <1>0, <1>6, <2>4 DEF WorkerFinish, B
    <3>. QED BY <1>a, <2>2, <3>1
  <2>. QED BY <2>3, <2>4
<1>7. CASE JoinAndClear
  <2>1. /\ wpc[Lane(t)] = "done" /\ mainpc' = "destroyed" /\ t \in Submitted
        /\ B(Lane(t)) = {} /\ UNCHANGED execs
    BY <1>0, <1>7, RangeEmpty DEF JoinAndClear, BatchInv, B, Submitted
  <2>2. Q(Lane(t)) = {}
    BY <1>0, <2>1 DEF StopInv
  <2>. QED BY <1>a, <2>1, <2>2
<1>8. CASE Control \/ Flush \/ Destroy
  <2>1. /\ UNCHANGED <<taskQueues, batch, finishTasks, updating, ticket,
                       execs, called>>
        /\ mainpc = "destroyed" => mainpc' = "destroyed"
        /\ wpc[Lane(t)] = "finish" => wpc'[Lane(t)] = "finish"
    <3>1. CASE StartThread
      <4>1. mi \in Worker /\ wpc[mi] = "off"
        BY <3>1, ConnNumPositive DEF StartThread, StartInv, Worker, TypeOK
      <4>. QED BY <1>0, <3>1, <4>1 DEF StartThread
    <3>2. CASE Flush \/ Destroy
      BY <3>2 DEF Flush, Destroy, BeginFlush, InUserCode
    <3>3. ASSUME NEW j \in Worker,
                 \/ WorkerCheck(j) \/ WorkerSetFlag(j)
                 \/ WorkerCheckStop(j) \/ WorkerCount(j)
          PROVE  /\ mainpc' = mainpc
                 /\ wpc[Lane(t)] = "finish" => wpc'[Lane(t)] = "finish"
      BY <1>0, <3>3 DEF WorkerCheck, WorkerSetFlag, WorkerCheckStop,
                        WorkerCount
    <3>4. CASE \/ InitReturn \/ InitFail \/ InitConnect
               \/ UpdateReturn \/ CallbackReturn
               \/ FlushReset \/ FlushRaise \/ FlushSeen \/ FlushReturn
               \/ SetStoping \/ ResetStopedNum \/ AwaitStoped
               \/ UNCHANGED vars
      BY <3>4 DEF InitReturn, InitFail, InitConnect, UpdateReturn,
                  CallbackReturn, FlushReset, FlushRaise, FlushSeen,
                  FlushReturn, SetStoping, ResetStopedNum, AwaitStoped
    <3>. QED BY <1>8, <3>1, <3>2, <3>3, <3>4, ControlFrame DEF Control
  <2>. QED BY <1>a, <2>1 DEF F, U, B, Q, Submitted
<1>. QED
  BY <1>1, <1>2, <1>3, <1>4, <1>5, <1>6, <1>7, <1>8, NextSplit

LEMMA LaneOrderNext == IInv /\ [Next]_vars => LaneOrder'
<1>. SUFFICES ASSUME IInv, [Next]_vars,
                     NEW s \in Submitted', NEW t \in Submitted',
                     Lane(s) = Lane(t), ticket'[s] < ticket'[t]
              PROVE  execs'[s] >= execs'[t] /\ called'[s] >= called'[t]
  BY DEF LaneOrder
<1>. USE DEF IInv
<1>. USE DEF vars, mainVars, stopVars, flushVars, queues, shared, workerVars,
             requests, barrier, history
<1>0. /\ ticket \in [Tasks -> Nat] /\ execs \in [Tasks -> Nat]
      /\ called \in [Tasks -> Nat] /\ s \in Tasks /\ t \in Tasks
      /\ Lane(s) \in Worker
  BY LaneType DEF TypeOK, Submitted
<1>b. /\ execs[s] \in 0 .. 1 /\ execs[t] \in 0 .. 1
      /\ called[s] \in 0 .. 1 /\ called[t] \in 0 .. 1
  BY <1>0 DEF AtMostOnce
<1>a. ASSUME s \in Submitted, t \in Submitted, ticket[s] < ticket[t]
      PROVE  execs[s] >= execs[t] /\ called[s] >= called[t]
  BY <1>a DEF LaneOrder
<1>1. ASSUME NEW n \in Tasks, QueryAsync(n)
      PROVE  execs'[s] >= execs'[t] /\ called'[s] >= called'[t]
  <2>1. UNCHANGED <<execs, called>>
    BY <1>1 DEF QueryAsync
  <2>2. CASE t = n
    BY <1>0, <1>1, <2>1, <2>2, NewRequest
  <2>3. CASE s = n /\ t # n
    <3>1. ticket'[t] = ticket[t] /\ ticket[t] < ticket'[s]
      BY <1>0, <1>1, <2>3, NewRequest
    <3>. QED BY <1>0, <1>1, <3>1, NewRequest
  <2>4. CASE s # n /\ t # n
    BY <1>0, <1>1, <1>a, <2>1, <2>4, NewRequest
  <2>. QED BY <2>2, <2>3, <2>4
<1>2. CASE Invoke
  <2>. DEFINE h == Head(updating)
              r == Range(Tail(updating))
  <2>1. /\ UNCHANGED <<ticket, execs>>
        /\ s \in Submitted /\ t \in Submitted /\ mainpc # "destroyed"
    BY <1>2 DEF Invoke, Submitted
  <2>2. /\ h \in Tasks /\ execs[h] = 1 /\ called[h] = 0
        /\ h \in U /\ U = {h} \cup r /\ Ahead({h}, r, ticket)
    BY <1>2, UpdateHead DEF Invoke
  <2>3. called' = [called EXCEPT ![h] = @ + 1]
    BY <1>2 DEF Invoke
  <2>4. CASE t = h /\ called[s] = 0
    <3>1. execs[s] = 1
      BY <1>0, <1>b, <1>a, <2>1, <2>2, <2>4
    <3>2. s \notin F
      BY <1>0, <2>1, <2>2, <2>4 DEF AheadInv, Ahead
    <3>3. s \notin r /\ s # h
      BY <1>0, <2>1, <2>2, <2>4 DEF Ahead
    <3>4. wpc[Lane(s)] = "finish" => s # Head(batch[Lane(s)])
      <4>1. wpc[Lane(s)] = "finish" =>
              Head(batch[Lane(s)]) \in B(Lane(s))
        BY <1>0, BatchHead
      <4>2. s \notin B(Lane(s))
        BY <1>0, <2>1, <2>2, <2>4 DEF AheadInv, Ahead
      <4>. QED BY <4>1, <4>2
    <3>. QED BY <2>1, <2>2, <2>4, <3>1, <3>2, <3>3, <3>4 DEF CoverInv
  <2>5. CASE ~(t = h /\ called[s] = 0)
    BY <1>0, <1>b, <1>a, <2>1, <2>2, <2>3, <2>5
  <2>. QED BY <2>4, <2>5
<1>3. ASSUME NEW i \in Worker, WorkerExec(i)
      PROVE  execs'[s] >= execs'[t] /\ called'[s] >= called'[t]
  <2>. DEFINE h == Head(batch[i])
              r == Range(Tail(batch[i]))
  <2>1. /\ UNCHANGED <<ticket, called>>
        /\ s \in Submitted /\ t \in Submitted
        /\ execs' = [execs EXCEPT ![h] = @ + 1]
    BY <1>3 DEF WorkerExec, Submitted
  <2>2. /\ h \in Tasks /\ h \in B(i) /\ Lane(h) = i /\ B(i) = {h} \cup r
        /\ Ahead({h}, r, ticket) /\ execs[h] = 0
    BY <1>3, BatchHead DEF WorkerExec, BatchInv
  <2>3. CASE t = h /\ execs[s] = 0
    <3>1. s \notin Q(i)
      BY <1>0, <2>1, <2>2, <2>3 DEF AheadInv, Ahead
    <3>2. s \notin r /\ s # h
      BY <1>0, <2>1, <2>2, <2>3 DEF Ahead
    <3>. QED BY <2>1, <2>2, <2>3, <3>1, <3>2 DEF CoverInv
  <2>4. CASE ~(t = h /\ execs[s] = 0)
    BY <1>0, <1>b, <1>a, <2>1, <2>2, <2>4
  <2>. QED BY <2>3, <2>4
<1>4. CASE UNCHANGED <<ticket, execs, called>>
  BY <1>4, <1>a DEF Submitted
<1>. QED
  BY <1>1, <1>2, <1>3, <1>4, NextSplit, ControlFrame
     DEF OnUpdate, JoinAndClear, Flush, Destroy, WorkerPop, WorkerFinish

LEMMA AtMostOnceNext == IInv /\ [Next]_vars => AtMostOnce'
<1>. SUFFICES ASSUME IInv, [Next]_vars, NEW t \in Tasks
              PROVE  execs'[t] <= 1 /\ called'[t] <= execs'[t]
  BY DEF AtMostOnce
<1>. USE DEF IInv
<1>. USE DEF vars, mainVars, stopVars, flushVars, queues, shared, workerVars,
             requests, barrier, history
<1>0. /\ execs \in [Tasks -> Nat] /\ called \in [Tasks -> Nat]
      /\ execs[t] <= 1 /\ called[t] <= execs[t]
  BY DEF TypeOK, AtMostOnce
<1>1. CASE Invoke
  BY <1>0, <1>1, UpdateHead DEF Invoke
<1>2. ASSUME NEW i \in Worker, WorkerExec(i)
      PROVE  execs'[t] <= 1 /\ called'[t] <= execs'[t]
  <2>1. execs[Head(batch[i])] = 0 /\ Head(batch[i]) \in Tasks
    BY <1>2, BatchHead DEF WorkerExec, BatchInv
  <2>. QED BY <1>0, <1>2, <2>1 DEF WorkerExec
<1>3. CASE UNCHANGED <<execs, called>>
  BY <1>0, <1>3
<1>. QED
  BY <1>1, <1>2, <1>3, NextSplit, ControlFrame
     DEF OnUpdate, JoinAndClear, Flush, Destroy, WorkerPop, WorkerFinish,
         QueryAsync

LEMMA StartNext == IInv /\ [Next]_vars => StartInv'
<1>. SUFFICES ASSUME IInv, [Next]_vars, mainpc' \in {"connect", "start"}
              PROVE  /\ \A i \in Worker : i >= mi' => wpc'[i] = "off"
                     /\ mainpc' = "connect" => mi' = 0
  BY DEF StartInv
<1>. USE DEF IInv, StartInv
<1>. USE DEF vars, mainVars, stopVars, flushVars, queues, shared, workerVars,
             requests, barrier, history
<1>0. /\ mi \in Nat
      /\ wpc \in [Worker -> WorkerPC]
      /\ Worker \subseteq Nat /\ ret \in {"idle", "callback", "stop"}
  BY ConnNumPositive DEF TypeOK, Worker
<1>1. CASE StartThread
  BY <1>0, <1>1 DEF StartThread
<1>2. CASE InitConnect
  BY <1>0, <1>2 DEF InitConnect
<1>3. ASSUME NEW i \in Worker, WorkerStep(i)
      PROVE  /\ \A j \in Worker : j >= mi' => wpc'[j] = "off"
             /\ mainpc' = "connect" => mi' = 0
  BY <1>0, <1>3 DEF WorkerStep, WorkerPop, WorkerExec, WorkerFinish,
                    WorkerCheck, WorkerSetFlag, WorkerCheckStop, WorkerCount
<1>4. CASE UNCHANGED <<mainpc, mi, wpc>>
  BY <1>4
<1>. QED
  BY <1>0, <1>1, <1>2, <1>3, <1>4
     DEF Next, MainStep, UserStep, InitReturn, InitFail, UpdateReturn,
         CallbackReturn, FlushReset, FlushRaise, FlushSeen, FlushReturn,
         SetStoping, ResetStopedNum, AwaitStoped, QueryAsync, OnUpdate,
         Invoke, JoinAndClear, Flush, Destroy, BeginFlush

LEMMA BarrierNext == IInv /\ [Next]_vars => BarrierInv'
<1>. DEFINE Good(i) ==
       /\ taken \cap Q(i) = {}
       /\ wpc[i] # "pop" => older \cap Q(i) = {}
       /\ (Passed(i) /\ wpc[i] # "pop") => newer \cap Q(i) = {}
       /\ (InFlush /\ Passed(i)) =>
            \A t \in older \cup taken : Lane(t) = i => execs[t] > 0
       /\ (mainpc = "flushWait" /\ i < mi) => flushFlag[i]
<1>. SUFFICES ASSUME IInv, [Next]_vars, NEW i \in Worker PROVE Good(i)'
  BY DEF BarrierInv
<1>t. TypeOK /\ TicketInv
  BY DEF IInv
<1>k. /\ execs \in [Tasks -> Nat] /\ mi \in 0 .. ConnNum
      /\ taskQueues \in [Worker -> Seq(Tasks)]
      /\ batch \in [Worker -> Seq(Tasks)]
      /\ flushFlag \in [Worker -> BOOLEAN]
      /\ wpc \in [Worker -> WorkerPC]
      /\ ret \in {"idle", "callback", "stop"}
  BY <1>t DEF TypeOK
<1>s. /\ newer \subseteq Submitted /\ older \subseteq Submitted
      /\ taken \subseteq Submitted /\ Submitted \subseteq Tasks
  BY <1>t DEF TicketInv, Submitted
<1>w. i \in Nat /\ i < ConnNum /\ ConnNum \in Nat
  BY ConnNumPositive DEF Worker
<1>0. /\ execs \in [Tasks -> Nat] /\ mi \in 0 .. ConnNum
      /\ i \in Nat /\ i < ConnNum /\ ConnNum \in Nat
      /\ taskQueues \in [Worker -> Seq(Tasks)]
      /\ batch \in [Worker -> Seq(Tasks)]
      /\ flushFlag \in [Worker -> BOOLEAN]
      /\ wpc \in [Worker -> WorkerPC]
      /\ ret \in {"idle", "callback", "stop"}
      /\ newer \subseteq Submitted /\ older \subseteq Submitted
      /\ taken \subseteq Submitted /\ Submitted \subseteq Tasks
  BY <1>k, <1>s, <1>w
<1>. USE DEF IInv
<1>. USE DEF vars, mainVars, stopVars, flushVars, queues, shared, workerVars,
             requests, barrier, history
<1>a. Good(i)
  BY DEF BarrierInv
<1>. HIDE DEF IInv
<1>1. ASSUME NEW n \in Tasks, QueryAsync(n) PROVE Good(i)'
  <2>1. /\ n \notin Submitted
        /\ Q(i)' \subseteq Q(i) \cup {n}
    BY <1>1, NewRequest
  <2>2. /\ UNCHANGED <<mainpc, mi, flushFlag, wpc, execs, barrier>>
        /\ Passed(i)' = Passed(i) /\ InFlush' = InFlush
    BY <1>1 DEF QueryAsync, Passed, InFlush
  <2>. QED BY <1>0, <1>a, <2>1, <2>2
<1>2. CASE Flush \/ Destroy
  <2>1. /\ mainpc' = "flushReset" /\ mi' = 0 /\ older' = newer
        /\ taken' = Submitted \ Queued /\ UNCHANGED <<taskQueues, wpc>>
        /\ mainpc \notin {"flushReset", "flushWait"}
    BY <1>2 DEF Flush, Destroy, BeginFlush, InUserCode
  <2>2. Passed(i) /\ ~Passed(i)'
    BY <1>0, <2>1 DEF Passed
  <2>3. Q(i)' = Q(i) /\ taken' \cap Q(i) = {}
    BY <2>1 DEF Q, Queued
  <2>. QED BY <1>a, <2>1, <2>2, <2>3
<1>3. CASE FlushReset
  <2>1. UNCHANGED <<taskQueues, wpc, execs, barrier, mainpc>>
    BY <1>3 DEF FlushReset
  <2>2. CASE i = mi
    <3>1. ~flushFlag'[i] /\ mainpc' = "flushReset"
      BY <1>0, <1>3, <2>2 DEF FlushReset
    <3>2. ~Passed(i)'
      BY <3>1 DEF Passed
    <3>. QED BY <1>a, <2>1, <3>1, <3>2 DEF Q
  <2>3. CASE i # mi
    <3>1. flushFlag'[i] = flushFlag[i] /\ (i < mi' <=> i < mi)
          /\ mainpc = "flushReset"
      BY <1>0, <1>3, <2>3 DEF FlushReset
    <3>2. Passed(i)' => Passed(i)
      BY <2>1, <3>1 DEF Passed
    <3>. QED BY <1>a, <2>1, <3>1, <3>2 DEF Q, InFlush
  <2>. QED BY <2>2, <2>3
<1>4. CASE FlushRaise
  <2>1. /\ UNCHANGED <<taskQueues, wpc, execs, barrier, flushFlag>>
        /\ mainpc = "flushReset" /\ mainpc' = "flushWait"
        /\ mi = ConnNum /\ mi' = 0
    BY <1>4 DEF FlushRaise
  <2>2. Passed(i)' => Passed(i)
    BY <1>0, <2>1 DEF Passed
  <2>. QED BY <1>0, <1>a, <2>1, <2>2 DEF Q, InFlush
<1>5. CASE FlushSeen
  <2>1. /\ UNCHANGED <<taskQueues, wpc, execs, barrier, flushFlag, mainpc>>
        /\ mainpc = "flushWait" /\ mi' = mi + 1 /\ flushFlag[mi]
    BY <1>5 DEF FlushSeen
  <2>2. Passed(i)' => Passed(i)
    BY <2>1 DEF Passed
  <2>3. i < mi' => flushFlag[i]
    BY <1>0, <1>a, <2>1
  <2>. QED BY <1>a, <2>1, <2>2, <2>3 DEF Q, InFlush
<1>6. CASE FlushReturn
  <2>1. /\ UNCHANGED <<taskQueues, wpc, execs, barrier, flushFlag>>
        /\ mainpc = "flushWait" /\ mainpc' = ret /\ mi = ConnNum
    BY <1>6 DEF FlushReturn
  <2>2. Passed(i) /\ ~InFlush' /\ mainpc' # "flushWait"
    BY <1>0, <1>a, <2>1 DEF Passed, InFlush
  <2>. QED BY <1>a, <2>1, <2>2 DEF Q
<1>7. ASSUME NEW j \in Worker, WorkerPop(j) PROVE Good(i)'
  <2>1. /\ UNCHANGED <<mainpc, mi, flushFlag, execs, barrier>>
        /\ Passed(i)' = Passed(i) /\ InFlush' = InFlush
    BY <1>7 DEF WorkerPop, Passed, InFlush
  <2>2. Q(i)' = {} \/ (Q(i)' = Q(i) /\ wpc'[i] = wpc[i])
    <3>1. CASE i = j
      BY <1>0, <1>7, <3>1, RangeEmpty DEF WorkerPop, Q
    <3>2. CASE i # j
      BY <1>0, <1>7, <3>2 DEF WorkerPop, Q
    <3>. QED BY <3>1, <3>2
  <2>. QED BY <1>a, <2>1, <2>2
<1>8. ASSUME NEW j \in Worker, WorkerExec(j) PROVE Good(i)'
  <2>1. /\ UNCHANGED <<mainpc, mi, flushFlag, barrier, taskQueues>>
        /\ Passed(i)' = Passed(i) /\ InFlush' = InFlush
    BY <1>8 DEF WorkerExec, Passed, InFlush
  <2>2. \A t \in Tasks : execs[t] > 0 => execs'[t] > 0
    BY <1>0, <1>8 DEF WorkerExec
  <2>3. wpc'[i] # "pop" => wpc[i] # "pop"
    BY <1>0, <1>8 DEF WorkerExec
  <2>. QED BY <1>0, <1>a, <2>1, <2>2, <2>3 DEF Q
<1>9. ASSUME NEW j \in Worker, WorkerSetFlag(j) PROVE Good(i)'
  <2>1. UNCHANGED <<mainpc, mi, execs, barrier, taskQueues>>
    BY <1>9 DEF WorkerSetFlag
  <2>2. CASE i = j
    <3>1. wpc[i] = "setFlag" /\ wpc'[i] = "pop" /\ flushFlag'[i]
      BY <1>0, <1>9, <2>2 DEF WorkerSetFlag
    <3>2. B(i) = {}
      BY <3>1, RangeEmpty DEF IInv, BatchInv, B
    <3>3. \A t \in older \cup taken : Lane(t) = i => execs[t] > 0
      <4>. SUFFICES ASSUME NEW t \in older \cup taken, Lane(t) = i
                    PROVE  execs[t] > 0
        OBVIOUS
      <4>1. t \in Submitted /\ t \notin Q(i) /\ execs[t] \in Nat
        BY <1>0, <1>a, <3>1
      <4>. QED BY <3>2, <4>1 DEF IInv, CoverInv
    <3>. QED BY <1>a, <2>1, <3>1, <3>3 DEF Q
  <2>3. CASE i # j
    <3>1. flushFlag'[i] = flushFlag[i] /\ wpc'[i] = wpc[i]
      BY <1>0, <1>9, <2>3 DEF WorkerSetFlag
    <3>2. Passed(i)' = Passed(i) /\ InFlush' = InFlush
      BY <2>1, <3>1 DEF Passed, InFlush
    <3>. QED BY <1>a, <2>1, <3>1, <3>2 DEF Q
  <2>. QED BY <2>2, <2>3
<1>10. ASSUME NEW j \in Worker,
              \/ WorkerFinish(j) \/ WorkerCheck(j)
              \/ WorkerCheckStop(j) \/ WorkerCount(j)
       PROVE  Good(i)'
  <2>1. UNCHANGED <<mainpc, mi, flushFlag, execs, barrier, taskQueues>>
    BY <1>10 DEF WorkerFinish, WorkerCheck, WorkerCheckStop, WorkerCount
  <2>2. wpc'[i] # "pop" => wpc[i] # "pop"
    BY <1>0, <1>10 DEF WorkerFinish, WorkerCheck, WorkerCheckStop, WorkerCount
  <2>. QED BY <1>a, <2>1, <2>2 DEF Q, Passed, InFlush
<1>11. CASE /\ UNCHANGED <<flushFlag, execs, barrier>>
            /\ Q(i)' = {} \/ Q(i)' = Q(i)
            /\ wpc'[i] = "pop" \/ wpc'[i] = wpc[i]
            /\ ~InFlush /\ ~InFlush'
  BY <1>11, <1>a DEF Passed, InFlush
<1>12. CASE StartThread
  <2>1. wpc'[i] = "pop" \/ wpc'[i] = wpc[i]
    BY <1>0, <1>12 DEF StartThread
  <2>. QED BY <1>11, <1>12, <2>1 DEF StartThread, InFlush, Q
<1>13. CASE JoinAndClear
  BY <1>11, <1>13, RangeEmpty DEF JoinAndClear, InFlush, Q
<1>14. CASE \/ InitReturn \/ InitFail \/ InitConnect
            \/ UpdateReturn \/ CallbackReturn \/ OnUpdate \/ Invoke
            \/ SetStoping \/ ResetStopedNum \/ AwaitStoped
  BY <1>11, <1>14
     DEF InitReturn, InitFail, InitConnect, UpdateReturn, CallbackReturn,
         OnUpdate, Invoke, SetStoping, ResetStopedNum, AwaitStoped, InFlush, Q
<1>15. CASE UNCHANGED vars
  BY <1>15, <1>a DEF Passed, InFlush, Q
<1>. QED
  BY <1>1, <1>2, <1>3, <1>4, <1>5, <1>6, <1>7, <1>8, <1>9, <1>10, <1>12,
     <1>13, <1>14, <1>15, NextSplit DEF Control

LEMMA WorkerCardinality ==
    /\ IsFiniteSet(Worker) /\ Cardinality(Worker) = ConnNum
    /\ \A S \in SUBSET Worker : /\ IsFiniteSet(S)
                                /\ Cardinality(S) \in Nat
                                /\ Cardinality(S) <= ConnNum
                                /\ Cardinality(S) = ConnNum => S = Worker
<1>1. IsFiniteSet(Worker) /\ Cardinality(Worker) = ConnNum
  BY ConnNumPositive, FS_Interval DEF Worker
<1>2. ASSUME NEW S \in SUBSET Worker
      PROVE  /\ IsFiniteSet(S) /\ Cardinality(S) <= ConnNum
             /\ Cardinality(S) = ConnNum => S = Worker
  BY <1>1, FS_Subset
<1>. QED BY <1>1, <1>2, FS_CardinalityType

Done == {i \in Worker : wpc[i] = "done"}

LEMMA StopNext == IInv /\ [Next]_vars => StopInv'
<1>. SUFFICES ASSUME IInv, [Next]_vars PROVE StopInv'
  OBVIOUS
<1>. USE DEF vars, mainVars, stopVars, flushVars, queues, shared, workerVars,
             requests, barrier, history
<1>0. /\ stopedNum \in Nat /\ mi \in 0 .. ConnNum
      /\ taskQueues \in [Worker -> Seq(Tasks)]
      /\ wpc \in [Worker -> WorkerPC]
      /\ ret \in {"idle", "callback", "stop"}
  BY DEF IInv, TypeOK
<1>a. StopInv
  BY DEF IInv
<1>1. InDestroy' => newer' = Submitted'
  <2>1. CASE Flush \/ Destroy
    BY <2>1 DEF Flush, Destroy, BeginFlush, Submitted
  <2>2. ASSUME NEW t \in Tasks, QueryAsync(t) PROVE ~InDestroy'
    BY <2>2 DEF QueryAsync, InUserCode, InDestroy, InFlush
  <2>3. InDestroy' => InDestroy \/ Destroy
    BY <1>0, NextSplit
       DEF InDestroy, InFlush, Control, StartThread, InitReturn, InitFail,
           InitConnect, UpdateReturn, CallbackReturn, FlushReset, FlushRaise,
           FlushSeen, FlushReturn, SetStoping, ResetStopedNum, AwaitStoped,
           WorkerCheck, WorkerSetFlag, WorkerCheckStop, WorkerCount,
           QueryAsync, OnUpdate, Invoke, JoinAndClear, WorkerPop, WorkerExec,
           WorkerFinish, Flush, BeginFlush, InUserCode
  <2>4. \/ UNCHANGED <<newer, ticket>> \/ Flush \/ Destroy
        \/ \E t \in Tasks : QueryAsync(t)
    BY NextSplit, ControlFrame
       DEF OnUpdate, Invoke, JoinAndClear, WorkerPop, WorkerExec, WorkerFinish
  <2>. QED BY <1>a, <2>1, <2>2, <2>3, <2>4 DEF StopInv, Submitted
<1>2. stoping' => mainpc' \in {"resetCount", "stopWait", "join", "destroyed"}
  BY <1>a, NextSplit
     DEF StopInv, Control, StartThread, InitReturn, InitFail, InitConnect,
         UpdateReturn, CallbackReturn, FlushReset, FlushRaise, FlushSeen,
         FlushReturn, SetStoping, ResetStopedNum, AwaitStoped, WorkerCheck,
         WorkerSetFlag, WorkerCheckStop, WorkerCount, QueryAsync, OnUpdate,
         Invoke, JoinAndClear, Flush, Destroy, BeginFlush, InUserCode,
         WorkerPop, WorkerExec, WorkerFinish
<1>3. ASSUME NEW i \in Worker, wpc'[i] \in {"count", "done"}
      PROVE  stoping' /\ Q(i)' = {}
  <2>1. stoping => stoping'
    BY NextSplit
       DEF Control, StartThread, InitReturn, InitFail, InitConnect,
           UpdateReturn, CallbackReturn, FlushReset, FlushRaise, FlushSeen,
           FlushReturn, SetStoping, ResetStopedNum, AwaitStoped, WorkerCheck,
           WorkerSetFlag, WorkerCheckStop, WorkerCount, QueryAsync, OnUpdate,
           Invoke, JoinAndClear, Flush, Destroy, WorkerPop, WorkerExec,
           WorkerFinish
  <2>2. CASE wpc[i] \in {"count", "done"}
    <3>1. Q(i)' = Q(i) \/ Q(i)' = {}
      <4>1. ASSUME NEW t \in Tasks, QueryAsync(t) PROVE FALSE
        BY <1>a, <2>2, <4>1 DEF QueryAsync, StopInv, InUserCode
      <4>2. ASSUME NEW j \in Worker, WorkerPop(j) PROVE Q(i)' = Q(i)
        BY <1>0, <2>2, <4>2 DEF WorkerPop, Q
      <4>3. CASE JoinAndClear
        BY <4>3, RangeEmpty DEF JoinAndClear, Q
      <4>4. CASE UNCHANGED taskQueues
        BY <4>4 DEF Q
      <4>. QED
        BY <4>1, <4>2, <4>3, <4>4, NextSplit, ControlFrame
           DEF OnUpdate, Invoke, Flush, Destroy, WorkerExec, WorkerFinish
    <3>. QED BY <1>a, <2>1, <2>2, <3>1 DEF StopInv
  <2>3. CASE wpc[i] \notin {"count", "done"}
    <3>1. WorkerCheckStop(i) /\ stoping
      BY <1>0, <1>3, <2>3, NextSplit
         DEF Control, StartThread, InitReturn, InitFail, InitConnect,
             UpdateReturn, CallbackReturn, FlushReset, FlushRaise, FlushSeen,
             FlushReturn, SetStoping, ResetStopedNum, AwaitStoped, WorkerCheck,
             WorkerSetFlag, WorkerCheckStop, WorkerCount, QueryAsync, OnUpdate,
             Invoke, JoinAndClear, Flush, Destroy, WorkerPop, WorkerExec,
             WorkerFinish
    <3>2. newer = Submitted /\ Passed(i)
      BY <1>a, <3>1 DEF StopInv, InDestroy, Passed
    <3>3. wpc[i] # "pop" /\ UNCHANGED <<taskQueues, stoping>>
      BY <1>0, <3>1 DEF WorkerCheckStop
    <3>4. newer \cap Q(i) = {}
      BY <3>2, <3>3 DEF IInv, BarrierInv
    <3>5. Q(i) \subseteq Submitted
      BY Places DEF IInv, QueueInv, Submitted
    <3>. QED BY <3>1, <3>2, <3>3, <3>4, <3>5 DEF Q
  <2>. QED BY <2>2, <2>3
<1>4. stopedNum' <= Cardinality(Done')
  <2>0. /\ Done \in SUBSET Worker /\ Done' \in SUBSET Worker
        /\ Cardinality(Done) \in Nat /\ Cardinality(Done') \in Nat
        /\ IsFiniteSet(Done) /\ stopedNum <= Cardinality(Done)
    BY <1>a, WorkerCardinality DEF Done, StopInv
  <2>1. ASSUME NEW i \in Worker, WorkerCount(i)
        PROVE  stopedNum' <= Cardinality(Done')
    <3>1. i \notin Done /\ Done' = Done \cup {i} /\ stopedNum' = stopedNum + 1
      BY <1>0, <2>1 DEF WorkerCount, Done
    <3>2. Cardinality(Done \cup {i}) = Cardinality(Done) + 1
      BY <2>0, <3>1, FS_AddElement
    <3>. QED BY <1>0, <2>0, <3>1, <3>2
  <2>2. ASSUME NEW i \in Worker, \/ WorkerPop(i) \/ WorkerExec(i)
                                 \/ WorkerFinish(i) \/ WorkerCheck(i)
                                 \/ WorkerSetFlag(i) \/ WorkerCheckStop(i)
        PROVE  Done' = Done /\ stopedNum' = stopedNum
    BY <1>0, <2>2 DEF WorkerPop, WorkerExec, WorkerFinish, WorkerCheck,
                      WorkerSetFlag, WorkerCheckStop, Done
  <2>3. CASE StartThread
    <3>1. mi \in Worker /\ wpc[mi] = "off"
      BY <2>3, ConnNumPositive
         DEF StartThread, IInv, StartInv, Worker, TypeOK
    <3>2. Done' = Done /\ stopedNum' = stopedNum
      BY <1>0, <2>3, <3>1 DEF StartThread, Done
    <3>. QED BY <2>0, <3>2
  <2>4. CASE ResetStopedNum
    BY <2>0, <2>4 DEF ResetStopedNum
  <2>5. CASE UNCHANGED <<wpc, stopedNum>>
    BY <2>0, <2>5 DEF Done
  <2>. QED
    BY <2>0, <2>1, <2>2, <2>3, <2>4, <2>5, NextSplit
       DEF Control, InitReturn, InitFail, InitConnect, UpdateReturn,
           CallbackReturn, FlushReset, FlushRaise, FlushSeen, FlushReturn,
           SetStoping, AwaitStoped, QueryAsync, OnUpdate, Invoke, JoinAndClear,
           Flush, Destroy
<1>5. ASSUME mainpc' \in {"join", "destroyed"}, NEW i \in Worker
      PROVE  wpc'[i] = "done"
  <2>1. CASE AwaitStoped
    <3>1. Cardinality(Done) = ConnNum /\ Done \in SUBSET Worker
      BY <1>0, <1>a, <2>1, ConnNumPositive, WorkerCardinality
         DEF AwaitStoped, StopInv, Done
    <3>2. Done = Worker /\ wpc' = wpc
      BY <2>1, <3>1, WorkerCardinality DEF AwaitStoped
    <3>. QED BY <3>2 DEF Done
  <2>2. CASE ~AwaitStoped
    <3>1. mainpc \in {"join", "destroyed"}
      BY <1>0, <1>5, <2>2, NextSplit
         DEF Control, StartThread, InitReturn, InitFail, InitConnect,
             UpdateReturn, CallbackReturn, FlushReset, FlushRaise, FlushSeen,
             FlushReturn, SetStoping, ResetStopedNum, WorkerCheck,
             WorkerSetFlag, WorkerCheckStop, WorkerCount, QueryAsync, OnUpdate,
             Invoke, JoinAndClear, Flush, Destroy, BeginFlush, WorkerPop,
             WorkerExec, WorkerFinish
    <3>2. \A j \in Worker : wpc[j] = "done"
      BY <1>a, <3>1 DEF StopInv
    <3>3. wpc' = wpc
      BY <3>1, <3>2, NextSplit
         DEF Control, StartThread, InitReturn, InitFail, InitConnect,
             UpdateReturn, CallbackReturn, FlushReset, FlushRaise, FlushSeen,
             FlushReturn, SetStoping, ResetStopedNum, AwaitStoped, WorkerCheck,
             WorkerSetFlag, WorkerCheckStop, WorkerCount, QueryAsync, OnUpdate,
             Invoke, JoinAndClear, Flush, Destroy, WorkerPop,
             WorkerExec, WorkerFinish
    <3>. QED BY <3>2, <3>3
  <2>. QED BY <2>1, <2>2
<1>. QED
  BY <1>1, <1>2, <1>3, <1>4, <1>5 DEF StopInv, Done

-----------------------------------------------------------------------------
(* The theorems.                                                           *)

LEMMA IInvInit == Init => IInv
<1>. SUFFICES ASSUME Init PROVE IInv
  OBVIOUS
<1>1. TypeOK
  BY TypeInit
<1>2. F = {} /\ U = {} /\ \A i \in Worker : Q(i) = {} /\ B(i) = {}
  BY RangeEmpty DEF Init, F, U, Q, B
<1>3. TicketInv /\ QueueInv /\ BatchInv /\ FinishInv
  BY <1>2, InOrderEmpty DEF Init, TicketInv, QueueInv, BatchInv, FinishInv
<1>4. AheadInv /\ CoverInv /\ LaneOrder /\ AtMostOnce /\ BarrierInv
  BY <1>2 DEF Init, AheadInv, Ahead, CoverInv, LaneOrder, AtMostOnce,
              BarrierInv, InFlush, Submitted
<1>5. StartInv
  BY DEF Init, StartInv
<1>6. StopInv
  <2>1. Cardinality({i \in Worker : wpc[i] = "done"}) \in Nat
    BY WorkerCardinality
  <2>. QED BY <2>1 DEF Init, StopInv, InDestroy, InFlush
<1>. QED BY <1>1, <1>3, <1>4, <1>5, <1>6 DEF IInv

LEMMA IInvNext == IInv /\ [Next]_vars => IInv'
<1>. SUFFICES ASSUME IInv, [Next]_vars PROVE IInv'
  OBVIOUS
<1>1. TypeOK'
  BY TypeNext DEF IInv
<1>. QED
  BY <1>1, TicketNext, QueueNext, BatchNext, FinishNext, AheadNext, CoverNext,
     LaneOrderNext, AtMostOnceNext, BarrierNext, StartNext, StopNext DEF IInv

\* The invariant is one: every step of every thread keeps it.
THEOREM Invariance == Spec => []IInv
BY IInvInit, IInvNext, PTL DEF Spec

\* Every variable of the engine keeps its type.
THEOREM TypeCorrect == Spec => []TypeOK
BY Invariance, PTL DEF IInv

\* A statement is executed at most once and its callback runs at most once
\* and not before it (AsyncWorkFunc, AsyncDoWork, OnUpdate).
THEOREM AtMostOnceHolds == Spec => []AtMostOnce
BY Invariance, PTL DEF IInv

\* Requests submitted with one key are executed and called back in the order
\* of the QueryAsync calls, whatever the number of connections.
THEOREM KeyOrderHolds == Spec => []KeyOrder
<1>1. IInv => KeyOrder
  BY DEF IInv, KeyOrder, LaneOrder, Lane
<1>. QED BY <1>1, Invariance, PTL

\* Flush waits for what the workers had already taken (Database.cpp:162-168).
THEOREM FlushTakenDoneHolds == Spec => []FlushTakenDone
<1>1. IInv => FlushTakenDone
  <2>. SUFFICES ASSUME IInv, mainpc = "flushWait", mi = ConnNum,
                       NEW t \in taken
                PROVE  t \in Executed
    BY DEF FlushTakenDone
  <2>1. t \in Tasks /\ Lane(t) \in Worker /\ Lane(t) < mi
    BY LaneType, ConnNumPositive DEF IInv, TypeOK, Worker
  <2>. QED BY <2>1 DEF IInv, BarrierInv, Passed, InFlush, Executed
<1>. QED BY <1>1, Invariance, PTL

\* The second of two Flush calls waits for everything submitted before the
\* first, whatever happened in between.
THEOREM SecondFlushCoversHolds == Spec => []SecondFlushCovers
<1>1. IInv => SecondFlushCovers
  <2>. SUFFICES ASSUME IInv, mainpc = "flushWait", mi = ConnNum,
                       NEW t \in older
                PROVE  t \in Executed
    BY DEF SecondFlushCovers
  <2>1. t \in Tasks /\ Lane(t) \in Worker /\ Lane(t) < mi
    BY LaneType, ConnNumPositive DEF IInv, TypeOK, Worker
  <2>. QED BY <2>1 DEF IInv, BarrierInv, Passed, InFlush, Executed
<1>. QED BY <1>1, Invariance, PTL

\* A worker leaves its loop only when its lane is drained.
THEOREM DestroyDrainsHolds == Spec => []DestroyDrains
<1>1. IInv => DestroyDrains
  <2>. SUFFICES ASSUME IInv, NEW i \in Worker, wpc[i] \in {"count", "done"},
                       NEW t \in Submitted, Lane(t) = i
                PROVE  execs[t] > 0
    BY DEF DestroyDrains
  <2>1. Q(i) = {}
    BY DEF IInv, StopInv
  <2>2. B(i) = {}
    BY RangeEmpty DEF IInv, BatchInv, B
  <2>3. execs[t] \in Nat
    BY DEF IInv, TypeOK, Submitted
  <2>. QED BY <2>1, <2>2, <2>3 DEF IInv, CoverInv
<1>. QED BY <1>1, Invariance, PTL

\* The wait for the stop counter ends only after every worker has left.
THEOREM DestroyNeverEarlyHolds == Spec => []DestroyNeverEarly
<1>1. IInv => DestroyNeverEarly
  BY DEF IInv, StopInv, DestroyNeverEarly
<1>. QED BY <1>1, Invariance, PTL
=============================================================================
