------------------------ MODULE AsyncTaskQueueProofs ------------------------
(***************************************************************************)
(* Proofs about AsyncTaskQueue, for every set of tasks and any finite      *)
(* number of producers and consumers: its type invariant, that no wakeup   *)
(* is lost, and that the class implements the atomic TaskQueue.            *)
(***************************************************************************)
EXTENDS AsyncTaskQueue, TLAPS, FiniteSetTheorems, SequenceTheorems

\* Where a thread holds _lock.
Inside == {"push", "test", "pop", "leave"}

\* A producer is in Push and a consumer in one of the pops, and the thread between
\* the constructor and the destructor of unique_lock is the holder of _lock.
ControlInv ==
    /\ \A p \in Producers : pc[p] \in {"idle", "push", "notify"}
    /\ \A c \in Consumers :
         pc[c] \in {"idle", "enter", "woken", "test", "blocked", "pop", "leave"}
    /\ \A p \in Threads : pc[p] \in Inside <=> lock = p
    /\ \A p \in Producers : pc[p] = "push" => arg[p] \in Tasks

\* What a consumer has copied is more than nothing only while it has the lock; a
\* copy is of the front of the queue; a call that takes all goes on until there
\* is no more, one that takes one stops after it.
CopyInv ==
    \A c \in Consumers :
        /\ pc[c] \notin Inside => buf[c] = <<>>
        /\ pc[c] = "pop" => tasks # <<>> /\ buf[c] # <<>> /\ Last(buf[c]) = Head(tasks)
        /\ pc[c] = "pop" /\ ~All(arg[c]) => Len(buf[c]) = 1
        /\ pc[c] = "test" /\ buf[c] # <<>> => tasks # <<>> /\ All(arg[c])
        /\ pc[c] = "leave" /\ buf[c] # <<>> => IF All(arg[c]) THEN tasks = <<>>
                                                             ELSE Len(buf[c]) = 1

IInv == TypeOK /\ ControlInv /\ CopyInv /\ NoLostWakeup

-----------------------------------------------------------------------------
(* Sequences.                                                              *)

LEMMA Single ==
    ASSUME NEW S, NEW s \in Seq(S), Len(s) = 1
    PROVE  s = <<s[1]>> /\ s # <<>>
<1>1. s[1] \in S /\ <<s[1]>> \in Seq(S)
  OBVIOUS
<1>2. Len(<<s[1]>>) = 1 /\ <<s[1]>>[1] = s[1]
  OBVIOUS
<1>3. \A i \in 1..Len(s) : s[i] = <<s[1]>>[i]
  BY <1>2
<1> QED  BY <1>1, <1>2, <1>3, SeqEqual

\* What a queue holds after front() and pop().
LEMMA HeadTail ==
    ASSUME NEW S, NEW s \in Seq(S), s # <<>>
    PROVE  /\ Head(s) \in S /\ Tail(s) \in Seq(S)
           /\ Len(s) \in Nat /\ Len(Tail(s)) = Len(s) - 1 /\ Len(Tail(s)) \in Nat
           /\ s = <<Head(s)>> \o Tail(s)
<1>1. /\ Head(s) \in S /\ Tail(s) \in Seq(S) /\ Len(Tail(s)) = Len(s) - 1
      /\ \A i \in 1..Len(Tail(s)) : Tail(s)[i] = s[i + 1]
  BY HeadTailProperties
<1>2. Len(s) \in Nat /\ Len(Tail(s)) \in Nat
  BY <1>1, LenProperties
<1>3. <<Head(s)>> \in Seq(S) /\ Len(<<Head(s)>>) = 1 /\ <<Head(s)>>[1] = s[1]
  BY <1>1
<1> DEFINE t == <<Head(s)>> \o Tail(s)
<1>4. /\ t \in Seq(S) /\ Len(t) = 1 + Len(Tail(s))
      /\ \A i \in 1..Len(s) : t[i] = IF i <= 1 THEN <<Head(s)>>[i] ELSE Tail(s)[i - 1]
  BY <1>1, <1>2, <1>3, ConcatProperties
<1>5. ASSUME NEW i \in 1..Len(s) PROVE t[i] = s[i]
  <2>1. CASE i = 1
    BY <1>3, <1>4, <2>1
  <2>2. CASE i # 1
    <3>1. i - 1 \in 1..Len(Tail(s)) /\ (i - 1) + 1 = i
      BY <1>1, <1>2, <2>2
    <3>2. t[i] = Tail(s)[i - 1] /\ Tail(s)[i - 1] = s[(i - 1) + 1]
      BY <1>1, <1>4, <2>2, <3>1
    <3> QED  BY <3>1, <3>2
  <2> QED  BY <2>1, <2>2
<1>6. Len(t) = Len(s)
  BY <1>1, <1>2, <1>4
<1> HIDE DEF t
<1>7. t = s
  BY <1>4, <1>5, <1>6, SeqEqual
<1> QED  BY <1>1, <1>2, <1>7 DEF t

\* A list of one task, and another behind it.
LEMMA OneThenRest ==
    ASSUME NEW S, NEW e \in S, NEW t \in Seq(S)
    PROVE  <<e>> \o t # <<>> /\ Head(<<e>> \o t) = e /\ Tail(<<e>> \o t) = t
<1> DEFINE s == <<e>> \o t
<1>1. <<e>> \in Seq(S) /\ Len(<<e>>) = 1 /\ <<e>>[1] = e
  OBVIOUS
<1>2. /\ s \in Seq(S) /\ Len(s) = 1 + Len(t)
      /\ \A i \in 1..1 + Len(t) : s[i] = IF i <= 1 THEN <<e>>[i] ELSE t[i - 1]
  BY <1>1, ConcatProperties
<1>3. Len(t) \in Nat
  BY LenProperties
<1> HIDE DEF s
<1>4. s # <<>> /\ s[1] = e
  BY <1>1, <1>2, <1>3, EmptySeq
<1>5. Head(s) = e
  BY <1>2, <1>4
<1>6. /\ Tail(s) \in Seq(S) /\ Len(Tail(s)) = Len(t)
      /\ \A i \in 1..Len(Tail(s)) : Tail(s)[i] = s[i + 1]
  BY <1>2, <1>3, <1>4, HeadTailProperties
<1>7. \A i \in 1..Len(Tail(s)) : Tail(s)[i] = t[i]
  BY <1>2, <1>3, <1>6
<1>8. Tail(s) = t
  BY <1>6, <1>7, SeqEqual
<1> QED  BY <1>4, <1>5, <1>8 DEF s

\* What a consumer has copied, before and after another push_back.
LEMMA FrontLast ==
    ASSUME NEW S, NEW s \in Seq(S), NEW e \in S
    PROVE  /\ Append(s, e) \in Seq(S) /\ Append(s, e) # <<>>
           /\ Len(Append(s, e)) = Len(s) + 1
           /\ Last(Append(s, e)) = e /\ Front(Append(s, e)) = s
<1> DEFINE t == Append(s, e)
<1>1. /\ t \in Seq(S) /\ t # <<>> /\ Len(t) = Len(s) + 1
      /\ \A i \in 1..Len(s) : t[i] = s[i]
      /\ t[Len(s) + 1] = e
  BY AppendProperties
<1> HIDE DEF t
<1>2. Len(s) \in Nat
  BY LenProperties
<1>3. Last(t) = e
  BY <1>1 DEF Last
<1>4. \A i \in 1..Len(t) - 1 : t[i] \in S
  BY <1>1, <1>2, ElementOfSeq
<1>5. /\ SubSeq(t, 1, Len(t) - 1) \in Seq(S)
      /\ Len(SubSeq(t, 1, Len(t) - 1)) = IF 1 <= Len(t) - 1 THEN (Len(t) - 1) - 1 + 1 ELSE 0
      /\ \A i \in 1..(Len(t) - 1) - 1 + 1 : SubSeq(t, 1, Len(t) - 1)[i] = t[1 + i - 1]
  BY <1>1, <1>2, <1>4, SubSeqProperties
<1> DEFINE f == SubSeq(t, 1, Len(t) - 1)
<1> HIDE DEF f
<1>6. Len(f) = Len(s)
  BY <1>1, <1>2, <1>5 DEF f
<1>7. \A i \in 1..Len(f) : f[i] = s[i]
  BY <1>1, <1>2, <1>5, <1>6 DEF f
<1>8. f = s
  BY <1>5, <1>6, <1>7, SeqEqual DEF f
<1>9. Front(t) = s
  BY <1>8 DEF Front, f
<1> QED  BY <1>1, <1>3, <1>9 DEF t

\* A list is its members but the last, and the last.
LEMMA FrontThenLast ==
    ASSUME NEW S, NEW s \in Seq(S), s # <<>>
    PROVE  Front(s) \in Seq(S) /\ s = Append(Front(s), Last(s)) /\ Last(s) \in S
<1>1. PICK f \in Seq(S), e \in S : s = Append(f, e)
  BY SequenceEmptyOrAppend
<1> QED  BY <1>1, FrontLast

-----------------------------------------------------------------------------
(* The parts of the invariant, one after the other.                        *)

LEMMA InitInv == Init => IInv
<1> SUFFICES ASSUME Init PROVE IInv
  OBVIOUS
<1>1. <<>> \in Seq(Tasks)
  BY EmptySeq
<1>2. TypeOK
  BY <1>1 DEF Init, TypeOK
<1>3. ControlInv
  BY ThreadsAssumption DEF Init, ControlInv, Inside, Threads
<1>4. CopyInv
  BY DEF Init, CopyInv, Inside, Threads
<1>5. NoLostWakeup
  BY DEF Init, NoLostWakeup, Waiting, Threads
<1> QED  BY <1>2, <1>3, <1>4, <1>5 DEF IInv

\* The actions of one thread, without the disjunctions around them.
LEMMA NextSplit ==
    ASSUME [Next]_vars
    PROVE  \/ \E p \in Producers : PushTask(p) \/ NotifyOne(p) \/ \E t \in Tasks : PushLock(p, t)
           \/ \E c \in Consumers :
                \/ \E op \in Ops : Call(c, op)
                \/ Lock(c) \/ Block(c) \/ WakeByItself(c) \/ CopyFront(c)
                \/ PopFront(c) \/ FindNothing(c) \/ Leave(c)
           \/ UNCHANGED vars
BY DEF Next, ProducerStep, ConsumerStep

LEMMA TypeNext ==
    ASSUME IInv, [Next]_vars
    PROVE  TypeOK'
<1> USE DEF IInv, TypeOK, GoTo, Threads
<1>1. ASSUME NEW p \in Producers, NEW t \in Tasks, PushLock(p, t) PROVE TypeOK'
  BY <1>1 DEF PushLock
<1>2. ASSUME NEW p \in Producers, PushTask(p) PROVE TypeOK'
  <2>1. arg[p] \in Tasks
    BY <1>2 DEF PushTask, ControlInv
  <2>2. tasks' \in Seq(Tasks)
    BY <1>2, <2>1, AppendProperties DEF PushTask
  <2> QED  BY <1>2, <2>2 DEF PushTask
<1>3. ASSUME NEW p \in Producers, NotifyOne(p) PROVE TypeOK'
  BY <1>3 DEF NotifyOne
<1>4. ASSUME NEW c \in Consumers, NEW op \in Ops, Call(c, op) PROVE TypeOK'
  BY <1>4 DEF Call
<1>5. ASSUME NEW c \in Consumers, Lock(c) PROVE TypeOK'
  BY <1>5 DEF Lock
<1>6. ASSUME NEW c \in Consumers, Block(c) PROVE TypeOK'
  BY <1>6 DEF Block
<1>7. ASSUME NEW c \in Consumers, WakeByItself(c) PROVE TypeOK'
  BY <1>7 DEF WakeByItself
<1>8. ASSUME NEW c \in Consumers, CopyFront(c) PROVE TypeOK'
  <2>1. Append(buf[c], Head(tasks)) \in Seq(Tasks)
    BY <1>8, HeadTail, AppendProperties DEF CopyFront
  <2> QED  BY <1>8, <2>1 DEF CopyFront
<1>9. ASSUME NEW c \in Consumers, PopFront(c) PROVE TypeOK'
  <2>1. Tail(tasks) \in Seq(Tasks)
    BY <1>9, HeadTail DEF PopFront, CopyInv
  <2> QED  BY <1>9, <2>1 DEF PopFront
<1>10. ASSUME NEW c \in Consumers, FindNothing(c) PROVE TypeOK'
  BY <1>10 DEF FindNothing
<1>11. ASSUME NEW c \in Consumers, Leave(c) PROVE TypeOK'
  <2>1. got[c] \o buf[c] \in Seq(Tasks) /\ <<>> \in Seq(Tasks)
    BY ConcatProperties, EmptySeq
  <2> QED  BY <1>11, <2>1 DEF Leave
<1>12. CASE UNCHANGED vars
  BY <1>12 DEF vars
<1> QED
  BY <1>1, <1>2, <1>3, <1>4, <1>5, <1>6, <1>7, <1>8, <1>9, <1>10, <1>11, <1>12, NextSplit

LEMMA ControlNext ==
    ASSUME IInv, [Next]_vars
    PROVE  ControlInv'
<1> USE ThreadsAssumption DEF IInv, TypeOK, ControlInv, GoTo, Threads, Inside
<1>1. ASSUME NEW p \in Producers, NEW t \in Tasks, PushLock(p, t) PROVE ControlInv'
  BY <1>1 DEF PushLock
<1>2. ASSUME NEW p \in Producers, PushTask(p) PROVE ControlInv'
  BY <1>2 DEF PushTask
<1>3. ASSUME NEW p \in Producers, NotifyOne(p) PROVE ControlInv'
  <2>1. CASE pc' = [pc EXCEPT ![p] = "idle"]
    BY <1>3, <2>1 DEF NotifyOne
  <2>2. ASSUME NEW c \in Consumers, pc[c] = "blocked",
               pc' = [pc EXCEPT ![p] = "idle", ![c] = "woken"]
        PROVE  ControlInv'
    BY <1>3, <2>2 DEF NotifyOne
  <2> QED  BY <1>3, <2>1, <2>2 DEF NotifyOne
<1>4. ASSUME NEW c \in Consumers, NEW op \in Ops, Call(c, op) PROVE ControlInv'
  <2>1. pc[c] = "idle" /\ pc' = [pc EXCEPT ![c] = "enter"] /\ lock' = lock
    BY <1>4 DEF Call
  <2>2. \A p \in Producers : p # c /\ pc'[p] = pc[p] /\ arg'[p] = arg[p]
    BY <1>4 DEF Call
  <2> QED  BY <2>1, <2>2
<1>5. ASSUME NEW c \in Consumers, Lock(c) PROVE ControlInv'
  BY <1>5 DEF Lock
<1>6. ASSUME NEW c \in Consumers, Block(c) PROVE ControlInv'
  BY <1>6 DEF Block
<1>7. ASSUME NEW c \in Consumers, WakeByItself(c) PROVE ControlInv'
  BY <1>7 DEF WakeByItself
<1>8. ASSUME NEW c \in Consumers, CopyFront(c) PROVE ControlInv'
  BY <1>8 DEF CopyFront
<1>9. ASSUME NEW c \in Consumers, PopFront(c) PROVE ControlInv'
  BY <1>9 DEF PopFront
<1>10. ASSUME NEW c \in Consumers, FindNothing(c) PROVE ControlInv'
  BY <1>10 DEF FindNothing
<1>11. ASSUME NEW c \in Consumers, Leave(c) PROVE ControlInv'
  BY <1>11 DEF Leave
<1>12. CASE UNCHANGED vars
  BY <1>12 DEF vars
<1> QED
  BY <1>1, <1>2, <1>3, <1>4, <1>5, <1>6, <1>7, <1>8, <1>9, <1>10, <1>11, <1>12, NextSplit

\* What one thread does leaves the copies of the consumers outside as they are.
LEMMA OthersOutside ==
    ASSUME IInv, NEW p \in Threads, lock = p \/ lock = Free, NEW d \in Consumers, d # p
    PROVE  pc[d] \notin Inside /\ buf[d] = <<>>
BY ThreadsAssumption DEF IInv, ControlInv, CopyInv, Threads

LEMMA CopyNext ==
    ASSUME IInv, [Next]_vars
    PROVE  CopyInv'
<1> USE ThreadsAssumption DEF IInv, TypeOK, GoTo, Threads
<1>1. ASSUME NEW p \in Producers, NEW t \in Tasks, PushLock(p, t) PROVE CopyInv'
  BY <1>1 DEF PushLock, CopyInv, Inside
<1>2. ASSUME NEW p \in Producers, PushTask(p) PROVE CopyInv'
  <2>1. lock = p
    BY <1>2 DEF PushTask, ControlInv, Inside
  <2>2. \A d \in Consumers : pc[d] \notin Inside /\ buf[d] = <<>> /\ pc'[d] = pc[d]
    BY <1>2, <2>1, OthersOutside DEF PushTask
  <2> QED  BY <1>2, <2>2 DEF PushTask, CopyInv, Inside
<1>3. ASSUME NEW p \in Producers, NotifyOne(p) PROVE CopyInv'
  BY <1>3 DEF NotifyOne, CopyInv, Inside
<1>4. ASSUME NEW c \in Consumers, NEW op \in Ops, Call(c, op) PROVE CopyInv'
  BY <1>4 DEF Call, CopyInv, Inside
<1>5. ASSUME NEW c \in Consumers, Lock(c) PROVE CopyInv'
  BY <1>5 DEF Lock, CopyInv, Inside
<1>6. ASSUME NEW c \in Consumers, Block(c) PROVE CopyInv'
  BY <1>6 DEF Block, CopyInv, Inside
<1>7. ASSUME NEW c \in Consumers, WakeByItself(c) PROVE CopyInv'
  BY <1>7 DEF WakeByItself, CopyInv, Inside
<1>8. ASSUME NEW c \in Consumers, CopyFront(c) PROVE CopyInv'
  <2>1. Head(tasks) \in Tasks /\ tasks # <<>> /\ pc[c] = "test" /\ pc'[c] = "pop"
    BY <1>8, HeadTail DEF CopyFront
  <2>a. buf'[c] = Append(buf[c], Head(tasks)) /\ buf[c] \in Seq(Tasks)
    BY <1>8 DEF CopyFront
  <2>2. /\ buf'[c] # <<>> /\ Last(buf'[c]) = Head(tasks)
        /\ Len(buf'[c]) = Len(buf[c]) + 1
    <3> DEFINE b == buf[c]  e == Head(tasks)
    <3>0. b \in Seq(Tasks) /\ e \in Tasks
      BY <2>1, <2>a
    <3> HIDE DEF b, e
    <3>1. Append(b, e) # <<>> /\ Last(Append(b, e)) = e /\ Len(Append(b, e)) = Len(b) + 1
      BY <3>0, FrontLast
    <3> QED  BY <2>a, <3>1 DEF b, e
  <2>3. ~All(arg[c]) => Len(buf'[c]) = 1
    BY <2>1, <2>2, EmptySeq DEF CopyInv
  <2>4. \A d \in Consumers \ {c} : UNCHANGED <<pc[d], buf[d], arg[d]>>
    BY <1>8 DEF CopyFront
  <2>5. \A d \in Consumers \ {c} : pc[d] \notin Inside /\ buf[d] = <<>>
    BY <2>1, OthersOutside DEF ControlInv, Inside
  <2> QED  BY <1>8, <2>1, <2>2, <2>3, <2>4, <2>5 DEF CopyFront, CopyInv, Inside
<1>9. ASSUME NEW c \in Consumers, PopFront(c) PROVE CopyInv'
  <2>1. /\ pc[c] = "pop" /\ lock = c /\ buf' = buf /\ arg' = arg /\ tasks' = Tail(tasks)
        /\ pc' = [pc EXCEPT ![c] = IF All(arg[c]) /\ Tail(tasks) # <<>> THEN "test" ELSE "leave"]
    BY <1>9 DEF PopFront, ControlInv, Inside
  <2>2. \A d \in Consumers \ {c} : pc[d] \notin Inside /\ buf[d] = <<>> /\ pc'[d] = pc[d]
    BY <2>1, OthersOutside
  <2>3. ~All(arg[c]) => Len(buf[c]) = 1
    BY <2>1 DEF CopyInv
  <2>4. pc'[c] = "leave" => IF All(arg[c]) THEN tasks' = <<>> ELSE Len(buf'[c]) = 1
    BY <2>1, <2>3
  <2>5. pc'[c] = "test" => tasks' # <<>> /\ All(arg'[c])
    BY <2>1
  <2>6. pc'[c] \in {"test", "leave"}
    BY <2>1
  <2> QED  BY <2>1, <2>2, <2>4, <2>5, <2>6 DEF CopyInv, Inside
<1>10. ASSUME NEW c \in Consumers, FindNothing(c) PROVE CopyInv'
  BY <1>10 DEF FindNothing, CopyInv, Inside
<1>11. ASSUME NEW c \in Consumers, Leave(c) PROVE CopyInv'
  BY <1>11 DEF Leave, CopyInv, Inside
<1>12. CASE UNCHANGED vars
  BY <1>12 DEF vars, CopyInv
<1> QED
  BY <1>1, <1>2, <1>3, <1>4, <1>5, <1>6, <1>7, <1>8, <1>9, <1>10, <1>11, <1>12, NextSplit

-----------------------------------------------------------------------------
(* Wakeups.                                                                *)

\* The threads that have been told of a task, or will tell of one.
Awake == {p \in Threads : pc[p] \in {"notify", "woken", "test", "pop"}}

\* A thread that comes to be awake adds one to them, one that goes to sleep or
\* away takes one, and the others are as many as they were.
LEMMA Counting ==
    ASSUME NEW S, S \subseteq Threads, NEW p
    PROVE  /\ IsFiniteSet(S) /\ Cardinality(S) \in Nat
           /\ Cardinality(S \cup {p}) = IF p \in S THEN Cardinality(S) ELSE Cardinality(S) + 1
           /\ Cardinality(S \ {p}) = IF p \in S THEN Cardinality(S) - 1 ELSE Cardinality(S)
           /\ Cardinality(S \cup {p}) \in Nat /\ Cardinality(S \ {p}) \in Nat
           /\ Cardinality(S \cup {p}) >= Cardinality(S)
           /\ Cardinality(S \ {p}) >= Cardinality(S) - 1
<1>1. IsFiniteSet(Threads)
  BY ThreadsAssumption, FS_Union DEF Threads
<1>2. IsFiniteSet(S)
  BY <1>1, FS_Subset
<1>3. IsFiniteSet(S \cup {p}) /\ IsFiniteSet(S \ {p})
  BY <1>2, FS_AddElement, FS_RemoveElement
<1>4. /\ Cardinality(S) \in Nat
      /\ Cardinality(S \cup {p}) \in Nat /\ Cardinality(S \ {p}) \in Nat
  BY <1>2, <1>3, FS_CardinalityType
<1>5. /\ Cardinality(S \cup {p}) = IF p \in S THEN Cardinality(S) ELSE Cardinality(S) + 1
      /\ Cardinality(S \ {p}) = IF p \in S THEN Cardinality(S) - 1 ELSE Cardinality(S)
  BY <1>2, FS_AddElement, FS_RemoveElement
<1> QED  BY <1>2, <1>4, <1>5

LEMMA WakeNext ==
    ASSUME IInv, [Next]_vars
    PROVE  NoLostWakeup'
<1> USE ThreadsAssumption DEF IInv, TypeOK, GoTo, Threads
<1>a. /\ NoLostWakeup <=> (Waiting => Len(tasks) <= Cardinality(Awake))
      /\ NoLostWakeup' <=> (Waiting' => Len(tasks') <= Cardinality(Awake'))
  BY DEF NoLostWakeup, Awake
<1>b. Awake \subseteq Threads /\ Cardinality(Awake) \in Nat /\ Len(tasks) \in Nat
  BY Counting, LenProperties DEF Awake
<1>1. ASSUME NEW p \in Producers, NEW t \in Tasks, PushLock(p, t) PROVE NoLostWakeup'
  <2>1. Awake' = Awake /\ (Waiting' => Waiting)
    BY <1>1 DEF PushLock, Awake, Waiting
  <2> QED  BY <1>1, <1>a, <2>1 DEF PushLock
<1>2. ASSUME NEW p \in Producers, PushTask(p) PROVE NoLostWakeup'
  <2>1. p \notin Awake /\ Awake' = Awake \cup {p} /\ (Waiting' => Waiting)
    BY <1>2 DEF PushTask, Awake, Waiting
  <2>2. Len(tasks') = Len(tasks) + 1
    BY <1>2, AppendProperties DEF PushTask, ControlInv
  <2>3. Cardinality(Awake') = Cardinality(Awake) + 1
    BY <1>b, <2>1, Counting
  <2> QED  BY <1>a, <1>b, <2>1, <2>2, <2>3
<1>3. ASSUME NEW p \in Producers, NotifyOne(p) PROVE NoLostWakeup'
  <2>1. CASE \E c \in Consumers : pc[c] = "blocked" /\ pc' = [pc EXCEPT ![p] = "idle", ![c] = "woken"]
    <3>1. PICK c \in Consumers : pc[c] = "blocked" /\ pc' = [pc EXCEPT ![p] = "idle", ![c] = "woken"]
      BY <2>1
    <3>2. /\ p \in Awake /\ c \notin Awake \ {p} /\ Awake' = (Awake \ {p}) \cup {c}
          /\ Waiting /\ tasks' = tasks
      BY <1>3, <3>1 DEF NotifyOne, Awake, Waiting
    <3>3. Cardinality(Awake') = Cardinality(Awake)
      <4>1. Cardinality(Awake \ {p}) = Cardinality(Awake) - 1
        BY <1>b, <3>2, Counting
      <4>2. Cardinality((Awake \ {p}) \cup {c}) = Cardinality(Awake \ {p}) + 1
        BY <1>b, <3>2, Counting
      <4> QED  BY <1>b, <3>2, <4>1, <4>2
    <3> QED  BY <1>a, <3>2, <3>3
  <2>2. CASE \A c \in Consumers : pc[c] # "blocked" /\ pc' = [pc EXCEPT ![p] = "idle"]
    BY <1>a, <2>2 DEF Waiting
  <2> QED  BY <1>3, <1>a, <2>1, <2>2 DEF NotifyOne, Waiting
<1>4. ASSUME NEW c \in Consumers, NEW op \in Ops, Call(c, op) PROVE NoLostWakeup'
  <2>1. Awake' = Awake /\ (Waiting' => Waiting)
    BY <1>4 DEF Call, Awake, Waiting
  <2> QED  BY <1>4, <1>a, <2>1 DEF Call
<1>5. ASSUME NEW c \in Consumers, Lock(c) PROVE NoLostWakeup'
  <2>1. Awake' = Awake \cup {c} /\ (Waiting' => Waiting)
    BY <1>5 DEF Lock, Awake, Waiting
  <2>2. Cardinality(Awake') >= Cardinality(Awake)
    BY <1>b, <2>1, Counting
  <2>3. Cardinality(Awake') \in Nat
    BY <1>b, <2>1, Counting
  <2> QED  BY <1>5, <1>a, <1>b, <2>1, <2>2, <2>3 DEF Lock
<1>6. ASSUME NEW c \in Consumers, Block(c) PROVE NoLostWakeup'
  <2>1. tasks' = <<>> /\ Len(tasks') = 0
    BY <1>6, EmptySeq DEF Block
  <2>2. Awake' = Awake \ {c}
    BY <1>6 DEF Block, Awake
  <2>3. Cardinality(Awake') \in Nat
    BY <1>b, <2>2, Counting
  <2> QED  BY <1>a, <2>1, <2>3
<1>7. ASSUME NEW c \in Consumers, WakeByItself(c) PROVE NoLostWakeup'
  <2>1. Awake' = Awake \cup {c} /\ (Waiting' => Waiting) /\ c \notin Awake
    BY <1>7 DEF WakeByItself, Awake, Waiting
  <2>2. Cardinality(Awake') = Cardinality(Awake) + 1
    BY <1>b, <2>1, Counting
  <2> QED  BY <1>7, <1>a, <1>b, <2>1, <2>2 DEF WakeByItself
<1>8. ASSUME NEW c \in Consumers, CopyFront(c) PROVE NoLostWakeup'
  <2>1. Awake' = Awake /\ (Waiting' => Waiting)
    BY <1>8 DEF CopyFront, Awake, Waiting
  <2> QED  BY <1>8, <1>a, <2>1 DEF CopyFront
<1>9. ASSUME NEW c \in Consumers, PopFront(c) PROVE NoLostWakeup'
  <2>1. (Awake' = Awake \/ Awake' = Awake \ {c}) /\ (Waiting' => Waiting)
    BY <1>9 DEF PopFront, Awake, Waiting
  <2>a. /\ Cardinality(Awake \ {c}) >= Cardinality(Awake) - 1
        /\ Cardinality(Awake \ {c}) \in Nat
    BY <1>b, Counting
  <2>2. Cardinality(Awake') >= Cardinality(Awake) - 1 /\ Cardinality(Awake') \in Nat
    <3>1. CASE Awake' = Awake
      BY <1>b, <3>1
    <3>2. CASE Awake' = Awake \ {c}
      BY <2>a, <3>2, Zenon
    <3> QED  BY <2>1, <3>1, <3>2
  <2>3. Len(tasks') = Len(tasks) - 1
    BY <1>9, HeadTail DEF PopFront, CopyInv
  <2> QED  BY <1>a, <1>b, <2>1, <2>2, <2>3
<1>10. ASSUME NEW c \in Consumers, FindNothing(c) PROVE NoLostWakeup'
  <2>1. Len(tasks') = 0
    BY <1>10, EmptySeq DEF FindNothing
  <2>2. Awake' = Awake \ {c}
    BY <1>10 DEF FindNothing, Awake
  <2>3. Cardinality(Awake') \in Nat
    BY <1>b, <2>2, Counting
  <2> QED  BY <1>a, <2>1, <2>3
<1>11. ASSUME NEW c \in Consumers, Leave(c) PROVE NoLostWakeup'
  <2>1. Awake' = Awake /\ (Waiting' => Waiting)
    BY <1>11 DEF Leave, Awake, Waiting
  <2> QED  BY <1>11, <1>a, <2>1 DEF Leave
<1>12. CASE UNCHANGED vars
  BY <1>12 DEF vars, NoLostWakeup, Waiting
<1> QED
  BY <1>1, <1>2, <1>3, <1>4, <1>5, <1>6, <1>7, <1>8, <1>9, <1>10, <1>11, <1>12, NextSplit

\* The invariant is inductive, and holds in every reachable state.
THEOREM Invariance == Spec => []IInv
<1>1. IInv /\ [Next]_vars => IInv'
  BY TypeNext, ControlNext, CopyNext, WakeNext DEF IInv
<1> QED  BY <1>1, InitInv, PTL DEF Spec

\* The variables of AsyncTaskQueue have their types.
THEOREM TypeCorrect == Spec => []TypeOK
<1>1. IInv => TypeOK
  BY DEF IInv
<1> QED  BY <1>1, Invariance, PTL

\* Although Push notifies after it has unlocked: while a consumer is blocked, as
\* many threads are about to look into the queue, or to wake one that will, as
\* there are tasks in it.
THEOREM WakeupsKept == Spec => []NoLostWakeup
<1>1. IInv => NoLostWakeup
  BY DEF IInv
<1> QED  BY <1>1, Invariance, PTL

-----------------------------------------------------------------------------
(* AsyncTaskQueue implements TaskQueue.                                    *)

\* The value the refinement mapping gives to TaskQueue's `content`.
Content == IF lock \in Consumers THEN Copied(lock) \o tasks ELSE tasks

\* One round of front() and pop() moves the lock holder's copy on by a task and
\* leaves what the copy and the queue make together.
LEMMA Moved ==
    ASSUME NEW S, NEW b \in Seq(S), NEW t \in Seq(S), b # <<>>, t # <<>>,
           Last(b) = Head(t)
    PROVE  Front(b) \o t = b \o Tail(t)
<1>1. Front(b) \in Seq(S) /\ b = Append(Front(b), Head(t)) /\ Head(t) \in S
  BY FrontThenLast
<1>2. Tail(t) \in Seq(S) /\ t = <<Head(t)>> \o Tail(t)
  BY HeadTail
<1>3. b = Front(b) \o <<Head(t)>> /\ <<Head(t)>> \in Seq(S)
  BY <1>1, AppendIsConcat
<1>4. (Front(b) \o <<Head(t)>>) \o Tail(t) = Front(b) \o (<<Head(t)>> \o Tail(t))
  BY <1>1, <1>2, <1>3, ConcatAssociative
<1> QED  BY <1>2, <1>3, <1>4

LEMMA RefinesInit == Init => Atomic!Init
BY ThreadsAssumption DEF Init, Atomic!Init

\* A task is in the queue from the push on.
LEMMA RefinesPush ==
    ASSUME IInv, NEW p \in Producers, PushTask(p)
    PROVE  Atomic!Put(arg[p]) /\ arg[p] \in Tasks
<1>1. lock = p /\ p \notin Consumers /\ arg[p] \in Tasks
  BY ThreadsAssumption DEF IInv, ControlInv, Inside, Threads, PushTask
<1>2. lock' \notin Consumers
  BY ThreadsAssumption DEF PushTask
<1>3. Content = tasks /\ Content' = Append(tasks, arg[p])
  BY <1>1, <1>2 DEF PushTask, Content
<1> QED  BY <1>1, <1>3 DEF Atomic!Put, Content, PushTask

\* A call takes effect when it gives up the lock.
LEMMA RefinesLeave ==
    ASSUME IInv, NEW c \in Consumers, Leave(c)
    PROVE  Atomic!TakeOne(c) \/ Atomic!TakeAll(c) \/ UNCHANGED Atomic!vars
<1>1. /\ pc[c] = "leave" /\ lock = c /\ Copied(c) = buf[c]
      /\ buf[c] \in Seq(Tasks) /\ tasks \in Seq(Tasks) /\ got \in [Consumers -> Seq(Tasks)]
  BY DEF IInv, TypeOK, ControlInv, Inside, Threads, Leave, Copied
<1>2. Content = buf[c] \o tasks
  BY <1>1 DEF Content
<1>3. Content' = tasks /\ got' = [got EXCEPT ![c] = @ \o buf[c]]
  BY ThreadsAssumption DEF Leave, Content
<1>4. CASE buf[c] = <<>>
  <2>1. Content = tasks /\ got[c] \o buf[c] = got[c]
    BY <1>1, <1>2, <1>4, ConcatEmptySeq
  <2>2. got' = got
    BY <1>1, <1>3, <2>1
  <2> QED  BY <1>3, <2>1, <2>2 DEF Atomic!vars, Content
<1>5. CASE buf[c] # <<>> /\ tasks = <<>>
  <2>1. Content = buf[c]
    BY <1>1, <1>2, <1>5, ConcatEmptySeq
  <2> QED  BY <1>3, <1>5, <2>1 DEF Atomic!TakeAll, Content
<1>6. CASE buf[c] # <<>> /\ Len(buf[c]) = 1
  <2>1. buf[c] = <<buf[c][1]>> /\ buf[c][1] \in Tasks
    BY <1>1, <1>6, Single
  <2>2. got[c] \o buf[c] = Append(got[c], buf[c][1])
    BY <1>1, <2>1, AppendIsConcat
  <2>a. Content = <<buf[c][1]>> \o tasks
    BY <1>2, <2>1, Zenon
  <2>3. /\ Content # <<>> /\ Head(Content) = buf[c][1] /\ Tail(Content) = tasks
    BY <1>1, <2>1, <2>a, OneThenRest, Zenon
  <2> QED  BY <1>3, <2>2, <2>3 DEF Atomic!TakeOne, Content
<1>7. buf[c] # <<>> => tasks = <<>> \/ Len(buf[c]) = 1
  BY <1>1 DEF IInv, CopyInv
<1> QED  BY <1>4, <1>5, <1>6, <1>7

\* Every other step of a caller is hidden from the users of the queue.
LEMMA RefinesStutter ==
    ASSUME IInv, [Next]_vars,
           \A p \in Producers : ~PushTask(p),
           \A c \in Consumers : ~Leave(c)
    PROVE  UNCHANGED Atomic!vars
<1> USE ThreadsAssumption DEF Content, GoTo
<1> SUFFICES UNCHANGED <<Content, got>>
  BY DEF Atomic!vars, Content
<1>0. /\ tasks \in Seq(Tasks) /\ \A c \in Consumers : buf[c] \in Seq(Tasks)
      /\ \A c \in Consumers : c \in Threads
      /\ \A p \in Threads : pc[p] \in Inside <=> lock = p
      /\ pc \in [Threads -> {"idle", "push", "notify", "enter", "woken", "test",
                             "blocked", "pop", "leave"}]
  BY DEF IInv, TypeOK, ControlInv, Threads
<1>1. ASSUME NEW p \in Producers, NEW t \in Tasks, PushLock(p, t) PROVE UNCHANGED <<Content, got>>
  BY <1>1 DEF PushLock
<1>2. ASSUME NEW p \in Producers, NotifyOne(p) PROVE UNCHANGED <<Content, got>>
  BY <1>0, <1>2 DEF NotifyOne, Copied, Inside, Threads
<1>3. ASSUME NEW c \in Consumers, NEW op \in Ops, Call(c, op) PROVE UNCHANGED <<Content, got>>
  BY <1>0, <1>3 DEF Call, Copied
<1>4. ASSUME NEW c \in Consumers, Lock(c) PROVE UNCHANGED <<Content, got>>
  <2>1. buf[c] = <<>> /\ pc'[c] = "test" /\ buf' = buf /\ lock' = c /\ lock = Free
    BY <1>0, <1>4 DEF Lock, IInv, CopyInv, Inside
  <2>2. Content = tasks /\ Content' = <<>> \o tasks
    BY <1>4, <2>1 DEF Lock, Copied
  <2> QED  BY <1>0, <1>4, <2>2, ConcatEmptySeq DEF Lock
<1>5. ASSUME NEW c \in Consumers, Block(c) PROVE UNCHANGED <<Content, got>>
  <2>1. buf[c] = <<>> /\ lock = c /\ pc[c] = "test" /\ tasks = <<>> /\ tasks' = <<>> /\ lock' = Free
    BY <1>0, <1>5 DEF Block, IInv, CopyInv, Inside
  <2>2. Content = <<>> \o <<>> /\ Content' = <<>>
    BY <2>1 DEF Copied
  <2> QED  BY <1>0, <1>5, <2>1, <2>2, ConcatEmptySeq DEF Block
<1>6. ASSUME NEW c \in Consumers, WakeByItself(c) PROVE UNCHANGED <<Content, got>>
  BY <1>0, <1>6 DEF WakeByItself, Copied
<1>7. ASSUME NEW c \in Consumers, CopyFront(c) PROVE UNCHANGED <<Content, got>>
  <2>1. lock = c /\ lock' = c /\ pc[c] = "test" /\ pc'[c] = "pop" /\ tasks' = tasks
    BY <1>0, <1>7 DEF CopyFront, Inside
  <2>2. buf'[c] = Append(buf[c], Head(tasks)) /\ Head(tasks) \in Tasks
    BY <1>0, <1>7, HeadTail DEF CopyFront, IInv, TypeOK
  <2>3. Front(buf'[c]) = buf[c]
    BY <1>0, <2>2, FrontLast
  <2>4. Copied(c) = buf[c] /\ Copied(c)' = buf[c]
    BY <2>1, <2>3 DEF Copied
  <2>5. Content = Copied(c) \o tasks /\ Content' = Copied(c)' \o tasks'
    BY <2>1
  <2> QED  BY <1>7, <2>1, <2>4, <2>5 DEF CopyFront
<1>8. ASSUME NEW c \in Consumers, PopFront(c) PROVE UNCHANGED <<Content, got>>
  <2>1. /\ lock = c /\ lock' = c /\ pc[c] = "pop" /\ pc'[c] # "pop"
        /\ buf' = buf /\ tasks' = Tail(tasks)
    BY <1>0, <1>8 DEF PopFront, Inside
  <2>2. Copied(c) = Front(buf[c]) /\ Copied(c)' = buf[c]
    BY <2>1 DEF Copied
  <2>3. Front(buf[c]) \o tasks = buf[c] \o Tail(tasks)
    BY <1>0, <2>1, Moved DEF IInv, CopyInv
  <2>4. Content = Copied(c) \o tasks /\ Content' = Copied(c)' \o tasks'
    BY <2>1
  <2> QED  BY <1>8, <2>1, <2>2, <2>3, <2>4 DEF PopFront
<1>9. ASSUME NEW c \in Consumers, FindNothing(c) PROVE UNCHANGED <<Content, got>>
  BY <1>0, <1>9 DEF FindNothing, Copied, Inside
<1>10. CASE UNCHANGED vars
  BY <1>10 DEF vars, Copied
<1> QED
  BY <1>1, <1>2, <1>3, <1>4, <1>5, <1>6, <1>7, <1>8, <1>9, <1>10, NextSplit

\* Every behaviour of the class, with its mutex, its condition variable and calls
\* that take tasks one by one, is a behaviour of a queue whose operations happen
\* at one instant each: it hands out every task once, first come first served.
THEOREM Refinement == Spec => ImplementsTaskQueue
<1>1. IInv /\ [Next]_vars => [Atomic!Next]_(Atomic!vars)
  <2> SUFFICES ASSUME IInv, [Next]_vars PROVE [Atomic!Next]_(Atomic!vars)
    OBVIOUS
  <2>1. ASSUME NEW p \in Producers, PushTask(p) PROVE Atomic!Next
    BY <2>1, RefinesPush DEF Atomic!Next
  <2>2. ASSUME NEW c \in Consumers, Leave(c) PROVE [Atomic!Next]_(Atomic!vars)
    BY <2>2, RefinesLeave DEF Atomic!Next
  <2> QED  BY <2>1, <2>2, RefinesStutter
<1>2. Spec => Atomic!Init /\ [][Atomic!Next]_(Atomic!vars)
  BY <1>1, RefinesInit, Invariance, PTL DEF Spec
<1> QED  BY <1>2 DEF ImplementsTaskQueue, Atomic!Spec
=============================================================================
