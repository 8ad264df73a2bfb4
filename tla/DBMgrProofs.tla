---------------------------- MODULE DBMgrProofs -----------------------------
(***************************************************************************)
(* Proofs about DBMgr, for every ini file, any number of names, objects    *)
(* and finished tasks.                                                     *)
(*                                                                         *)
(* The inductive invariant has one part per thing that can go wrong: Owned *)
(* says which objects the map has and what their threads do, Loaded what   *)
(* OnInitialize has got from the ini file so far, and Frame which          *)
(* callbacks a loop over the map has still before it.                      *)
(***************************************************************************)
EXTENDS DBMgr, TLAPS

InMap(d) == \E n \in Names : databases[n] = d

\* Only the map owns objects, one name each, and theirs are the running threads
\* (but for those of a second default).
Owned ==
    /\ \A m, n \in Names : databases[m] # NoDB /\ databases[m] = databases[n] => m = n
    /\ \A n \in Names : databases[n] # NoDB => threads[databases[n]] # "unborn"
    /\ pc \notin {"destroy", "destroyed"} =>
         \A n \in Names : databases[n] # NoDB => threads[databases[n]] = "running"
    /\ \A d \in Objects : threads[d] = "running" => InMap(d) \/ LeftBehind(d)
    /\ pc = "destroy" =>
         \A n \in Names :
            n <= pos /\ databases[n] # NoDB => threads[databases[n]] = "joined"

\* The i-th section dealt with has made the object i, and the map holds that one
\* under the section's name; it is the default if the section says so.
Loaded ==
    /\ started => section = Len(config) /\ pc \notin {"init", "failed"}
    /\ pc = "init" =>
         /\ defaultDB <= section
         /\ \A d \in Objects : threads[d] # "unborn" <=> d <= section
    /\ pc # "destroyed" =>
         \A i \in 1..section :
            /\ i \in Objects /\ config[i].name \in Names
            /\ databases[config[i].name] = i
            /\ config[i].default <=> defaultDB = i

\* A callback that this frame owes is due at a database that the loop has still to
\* come to, or in the batch of the one at which it is.
Frame ==
    /\ ~started => \A d \in Objects : due[d] = 0
    /\ pc = "callback" => pos \in Names /\ databases[pos] # NoDB
    /\ pc \in {"idle", "update", "callback"} =>
         \A d \in Objects : due[d] > 0 => InMap(d)
    /\ pc \in {"init", "idle"} => \A d \in Objects : owed[d] = 0
    /\ pc \in {"update", "callback"} =>
         \A d \in Objects : owed[d] > 0 =>
            \/ \E n \in Names : n > pos /\ databases[n] = d /\ owed[d] <= due[d]
            \/ pc = "callback" /\ databases[pos] = d /\ owed[d] <= batch

IInv == TypeOK /\ Owned /\ Loaded /\ Frame

-----------------------------------------------------------------------------

\* Sections are records, and a fresh object is one that nothing refers to.
LEMMA ConfigType ==
    ASSUME IInv
    PROVE  /\ config \in Seq(Section) /\ Len(config) \in Nat /\ section \in Nat
           /\ \A i \in 1..Len(config) :
                config[i] # Missing =>
                    config[i].name \in Names /\ config[i].default \in BOOLEAN
<1>1. config \in Seq(Section) /\ section \in 0..Len(config)
  BY ConstantsAssumption DEF IInv, TypeOK
<1>2. \A i \in 1..Len(config) : config[i] \in Section
  BY <1>1
<1> QED  BY <1>1, <1>2 DEF Section

LEMMA FreshObject ==
    ASSUME IInv, NEW d \in Objects, Fresh(d)
    PROVE  /\ threads[d] = "unborn" /\ d # NoDB
           /\ \A n \in Names : databases[n] # d
           /\ pc = "init" => d = section + 1
<1>1. d \notin Made /\ d \in Nat /\ d # NoDB
  BY ConstantsAssumption DEF Fresh, Objects, NoDB
<1>2. threads[d] = "unborn"
  BY <1>1 DEF Made
<1>3. ASSUME pc = "init" PROVE d = section + 1
  <2>0. section \in Nat
    BY ConfigType
  <2>1. section \in Nat /\ section < d
    <3>1. ~(d <= section)
      BY <1>2, <1>3 DEF IInv, Loaded
    <3> QED  BY <1>1, <2>0, <3>1
  <2>2. section + 1 \in Objects /\ ~(section + 1 <= section)
    BY <1>1, <2>1, ConstantsAssumption DEF Objects
  <2>3. section + 1 \notin Made
    BY <1>3, <2>1, <2>2 DEF IInv, Loaded, Made
  <2> QED  BY <1>1, <2>1, <2>2, <2>3 DEF Fresh
<1> QED  BY <1>1, <1>2, <1>3 DEF IInv, Owned

LEMMA InitInv == Init => IInv
<1> SUFFICES ASSUME Init PROVE IInv
  OBVIOUS
<1>1. config \in Seq(Section)
  BY ConstantsAssumption DEF Init
<1>2. TypeOK
  <2>1. Len(config) \in Nat /\ MaxDue \in Nat /\ NumNames \in Nat
    BY <1>1, ConstantsAssumption
  <2>2. 0 \in 0..Len(config) /\ 0 \in 0..MaxDue /\ 0 \in 0..NumNames
    BY <2>1
  <2> QED  BY <2>2 DEF Init, TypeOK, NoDB
<1>3. Owned
  BY DEF Init, Owned
<1>4. Loaded
  <2>1. \A d \in Objects : ~(d <= 0)
    BY ConstantsAssumption DEF Objects
  <2> QED  BY <2>1 DEF Init, Loaded, NoDB
<1>5. Frame
  BY DEF Init, Frame
<1> QED  BY <1>2, <1>3, <1>4, <1>5 DEF IInv

\* OnInitialize fails.
LEMMA SectionFailsInv ==
    ASSUME IInv, SectionFails
    PROVE  IInv'
<1> USE DEF IInv
<1>1. TypeOK'
  BY DEF SectionFails, InitFails, GoTo, InSection, TypeOK
<1>2. Owned'
  BY DEF SectionFails, InitFails, GoTo, InSection, Owned, InMap, LeftBehind
<1>3. Loaded'
  BY DEF SectionFails, InitFails, GoTo, InSection, Loaded, InMap
<1>4. Frame'
  BY DEF SectionFails, InitFails, GoTo, InSection, Frame
<1> QED  BY <1>1, <1>2, <1>3, <1>4

LEMMA NoDefaultInv ==
    ASSUME IInv, NoDefault
    PROVE  IInv'
<1> USE DEF IInv
<1>1. TypeOK'
  BY DEF NoDefault, InitFails, GoTo, TypeOK
<1>2. Owned'
  BY DEF NoDefault, InitFails, GoTo, Owned, InMap, LeftBehind
<1>3. Loaded'
  BY DEF NoDefault, InitFails, GoTo, Loaded, InMap
<1>4. Frame'
  BY DEF NoDefault, InitFails, GoTo, Frame
<1> QED  BY <1>1, <1>2, <1>3, <1>4

LEMMA SecondDefaultInv ==
    ASSUME IInv, SecondDefault
    PROVE  IInv'
<1> USE DEF IInv
<1>1. PICK d \in Objects : CreateMysqlDB(d)
  BY DEF SecondDefault
<1>2. /\ pc = "init" /\ pc' = "failed" /\ ~started
      /\ UNCHANGED <<config, section, databases, defaultDB, due, pos, batch,
                     started, owed, closed>>
      /\ threads' = [threads EXCEPT ![d] = "running"]
  BY <1>1 DEF SecondDefault, InSection, InitFails, GoTo, CreateMysqlDB, Loaded
<1>3. \A n \in Names : databases[n] # d
  BY <1>1, FreshObject DEF CreateMysqlDB
<1>4. TypeOK'
  BY <1>2 DEF TypeOK
<1>5. Owned'
  <2>1. /\ Current.default /\ d = section + 1 /\ section < Len(config)
    BY <1>1, <1>2, FreshObject DEF CreateMysqlDB, SecondDefault, InSection
  <2>2. LeftBehind(d)'
    BY <1>2, <2>1 DEF LeftBehind, Current
  <2>3. \A e \in Objects : threads'[e] = IF e = d THEN "running" ELSE threads[e]
    BY <1>2 DEF TypeOK
  <2>4. \A e \in Objects : threads[e] = "running" => InMap(e)
    BY <1>2 DEF Owned, LeftBehind
  <2>5. \A e \in Objects : threads'[e] = "running" => InMap(e)' \/ LeftBehind(e)'
    BY <1>2, <2>2, <2>3, <2>4 DEF InMap
  <2>6. \A n \in Names : databases[n] # NoDB => threads'[databases[n]] = threads[databases[n]]
    BY <1>3, <2>3 DEF TypeOK
  <2> QED  BY <1>2, <2>5, <2>6 DEF Owned
<1>6. Loaded'
  BY <1>2 DEF Loaded, InMap
<1>7. Frame'
  BY <1>2 DEF Frame
<1> QED  BY <1>4, <1>5, <1>6, <1>7

LEMMA LoadSectionInv ==
    ASSUME IInv, LoadSection
    PROVE  IInv'
<1> USE DEF IInv
<1> DEFINE n == Current.name
<1>1. PICK d \in Objects :
        /\ CreateMysqlDB(d)
        /\ defaultDB' = IF Current.default THEN d ELSE defaultDB
        /\ databases' = [databases EXCEPT ![n] = d]
  BY DEF LoadSection
<1>2. /\ pc = "init" /\ pc' = "init" /\ ~started /\ section < Len(config)
      /\ Current # Missing /\ databases[n] = NoDB
      /\ Current.default => defaultDB = NoDB
      /\ section' = section + 1 /\ config' = config /\ due' = due /\ pos' = pos
      /\ batch' = batch /\ started' = started /\ owed' = owed /\ closed' = closed
      /\ threads' = [threads EXCEPT ![d] = "running"]
  BY <1>1 DEF LoadSection, InSection, CreateMysqlDB, Loaded
<1>3. /\ threads[d] = "unborn" /\ d # NoDB /\ \A m \in Names : databases[m] # d
  BY <1>1, FreshObject DEF CreateMysqlDB
<1>4. n \in Names /\ Current.default \in BOOLEAN /\ Current = config[section + 1]
  BY <1>2, ConfigType DEF Current
<1> HIDE DEF n
<1>5. TypeOK'
  BY <1>1, <1>2, <1>3, <1>4, ConfigType DEF TypeOK
<1>6. /\ databases'[n] = d /\ threads'[d] = "running" /\ d = section + 1
      /\ \A m \in Names \ {n} : databases'[m] = databases[m] /\ databases[m] # d
      /\ \A e \in Objects \ {d} : threads'[e] = threads[e]
      /\ \A m \in Names : databases[m] \in Objects \cup {NoDB}
  BY <1>1, <1>2, <1>3, <1>4, FreshObject DEF TypeOK, CreateMysqlDB
<1>7. Owned'
  <2>1. \A m \in Names : databases'[m] # NoDB => threads'[databases'[m]] = "running"
    BY <1>2, <1>3, <1>6 DEF Owned
  <2>2. \A e \in Objects : threads'[e] = "running" => InMap(e)'
    <3>1. ASSUME NEW e \in Objects, e # d, threads'[e] = "running" PROVE InMap(e)'
      <4>1. InMap(e)
        BY <1>2, <1>6, <3>1 DEF Owned, LeftBehind
      <4> QED  BY <1>2, <1>6, <4>1, <3>1 DEF InMap, Objects, NoDB
    <3>2. InMap(d)'
      BY <1>4, <1>6 DEF InMap
    <3> QED  BY <3>1, <3>2
  <2>3. \A l, m \in Names : databases'[m] # NoDB /\ databases'[m] = databases'[l] => m = l
    BY <1>6 DEF Owned
  <2> QED  BY <1>2, <2>1, <2>2, <2>3 DEF Owned
<1>8. Loaded'
  <2>1. section \in Nat /\ section' = section + 1 /\ d \in Nat
    BY <1>2, <1>6, ConfigType
  <2>2. defaultDB \in Nat /\ defaultDB <= section /\ defaultDB' \in {defaultDB, d}
    BY <1>1, <1>2, ConstantsAssumption DEF Loaded, TypeOK, Objects, NoDB
  <2>3. defaultDB' <= section'
    BY <1>6, <2>1, <2>2
  <2>4. ASSUME NEW e \in Objects PROVE threads'[e] # "unborn" <=> e <= section'
    <3>1. e \in Nat /\ (e # d => (e <= section' <=> e <= section))
      BY <1>6, <2>1, ConstantsAssumption DEF Objects
    <3>2. CASE e = d
      BY <1>6, <2>1, <3>2
    <3>3. CASE e # d
      BY <1>2, <1>6, <3>1, <3>3 DEF Loaded
    <3> QED  BY <3>2, <3>3
  <2>5. ASSUME NEW i \in 1..section'
        PROVE  /\ i \in Objects /\ config[i].name \in Names
               /\ databases'[config[i].name] = i
               /\ config[i].default <=> defaultDB' = i
    <3>1. CASE i = section + 1
      <4>1. config[i] = Current /\ i = d
        BY <1>4, <1>6, <3>1
      <4>2. Current.default <=> defaultDB' = d
        BY <1>1, <1>2, <1>6, <2>1, <2>2
      <4> QED  BY <1>4, <1>6, <4>1, <4>2 DEF n
    <3>2. CASE i # section + 1
      <4>1. i \in 1..section /\ i # d
        BY <1>6, <2>1, <3>2
      <4>2. /\ i \in Objects /\ config[i].name \in Names
            /\ databases[config[i].name] = i
            /\ config[i].default <=> defaultDB = i
        BY <1>2, <4>1 DEF Loaded
      <4>3. i # NoDB
        BY <4>2, ConstantsAssumption DEF Objects, NoDB
      <4>4. databases'[config[i].name] = i
        BY <1>2, <1>6, <4>2, <4>3
      <4>5. defaultDB' = i <=> defaultDB = i
        <5>1. CASE Current.default
          BY <1>1, <1>2, <4>1, <4>3, <5>1
        <5>2. CASE ~Current.default
          BY <1>1, <5>2
        <5> QED  BY <5>1, <5>2
      <4> QED  BY <4>2, <4>4, <4>5
    <3> QED  BY <3>1, <3>2
  <2> QED  BY <1>2, <2>3, <2>4, <2>5 DEF Loaded
<1>9. Frame'
  BY <1>2 DEF Frame
<1> QED  BY <1>5, <1>7, <1>8, <1>9

LEMMA InitializedInv ==
    ASSUME IInv, Initialized
    PROVE  IInv'
<1> USE DEF IInv
<1>1. TypeOK'
  BY DEF Initialized, GoTo, TypeOK
<1>2. Owned'
  BY DEF Initialized, GoTo, Owned, InMap, LeftBehind
<1>3. Loaded'
  BY DEF Initialized, GoTo, Loaded, InMap
<1>4. Frame'
  BY DEF Initialized, GoTo, Frame, Loaded
<1> QED  BY <1>1, <1>2, <1>3, <1>4

-----------------------------------------------------------------------------
(* User code and workers.                                                  *)

LEMMA CreateDatabaseInv ==
    ASSUME IInv, NEW n \in Names, CreateDatabase(n)
    PROVE  IInv'
<1> USE DEF IInv
<1>1. PICK d \in Objects : CreateMysqlDB(d) /\ databases' = [databases EXCEPT ![n] = d]
  BY DEF CreateDatabase
<1>2. /\ pc \in {"idle", "callback"} /\ databases[n] = NoDB
      /\ UNCHANGED <<config, section, defaultDB, due, pc, pos, batch, started, owed,
                     closed>>
      /\ threads' = [threads EXCEPT ![d] = "running"]
  BY <1>1 DEF CreateDatabase, InUserCode, CreateMysqlDB
<1>3. threads[d] = "unborn" /\ d # NoDB /\ \A m \in Names : databases[m] # d
  BY <1>1, FreshObject DEF CreateMysqlDB
<1>4. /\ databases'[n] = d /\ threads'[d] = "running"
      /\ \A m \in Names \ {n} : databases'[m] = databases[m] /\ databases[m] # d
      /\ \A e \in Objects \ {d} : threads'[e] = threads[e]
      /\ \A m \in Names : databases[m] \in Objects \cup {NoDB}
  BY <1>1, <1>2, <1>3 DEF TypeOK
<1>5. \A e : e # NoDB /\ InMap(e) => InMap(e)'
  BY <1>2, <1>4 DEF InMap
<1>6. TypeOK'
  BY <1>1, <1>2 DEF TypeOK
<1>7. Owned'
  <2>1. \A m \in Names : databases'[m] # NoDB => threads'[databases'[m]] = "running"
    BY <1>2, <1>3, <1>4 DEF Owned
  <2>2. \A e \in Objects : threads'[e] = "running" => InMap(e)' \/ LeftBehind(e)'
    <3>1. ASSUME NEW e \in Objects, e # d, threads'[e] = "running", ~LeftBehind(e)
          PROVE  InMap(e)'
      <4>1. InMap(e) /\ e # NoDB
        BY <1>4, <3>1 DEF Owned, Objects, NoDB
      <4> QED  BY <1>5, <4>1
    <3>2. InMap(d)'
      BY <1>4 DEF InMap
    <3>3. \A e \in Objects : LeftBehind(e) => LeftBehind(e)'
      BY <1>2 DEF LeftBehind
    <3> QED  BY <3>1, <3>2, <3>3
  <2>3. \A l, m \in Names : databases'[m] # NoDB /\ databases'[m] = databases'[l] => m = l
    BY <1>4 DEF Owned
  <2> QED  BY <1>2, <2>1, <2>2, <2>3 DEF Owned
<1>8. Loaded'
  <2>1. ASSUME NEW i \in 1..section
        PROVE  /\ i \in Objects /\ config[i].name \in Names
               /\ databases'[config[i].name] = i
               /\ config[i].default <=> defaultDB = i
    <3>1. /\ i \in Objects /\ config[i].name \in Names
          /\ databases[config[i].name] = i
          /\ config[i].default <=> defaultDB = i
      BY <1>2 DEF Loaded
    <3>2. i # NoDB
      BY <3>1, ConstantsAssumption DEF Objects, NoDB
    <3> QED  BY <1>2, <1>4, <3>1, <3>2
  <2> QED  BY <1>2, <2>1 DEF Loaded
<1>9. Frame'
  <2>1. pc = "callback" => pos \in Names /\ databases'[pos] # NoDB
    BY <1>2, <1>3, <1>4 DEF Frame
  <2>2. ASSUME NEW e \in Objects, due[e] > 0 PROVE InMap(e)'
    BY <1>2, <1>5, <2>2 DEF Frame, Objects, NoDB
  <2>3. ASSUME pc = "callback", NEW e \in Objects, owed[e] > 0
        PROVE  \/ \E m \in Names : m > pos /\ databases'[m] = e /\ owed[e] <= due[e]
               \/ databases'[pos] = e /\ owed[e] <= batch
    <3>1. CASE databases[pos] = e /\ owed[e] <= batch
      BY <1>2, <1>4, <2>3, <3>1 DEF Frame
    <3>2. CASE \E m \in Names : m > pos /\ databases[m] = e /\ owed[e] <= due[e]
      <4>1. PICK m \in Names : m > pos /\ databases[m] = e /\ owed[e] <= due[e]
        BY <3>2
      <4>2. databases'[m] = e
        BY <1>2, <1>4, <4>1 DEF Objects, NoDB
      <4> QED  BY <4>1, <4>2
    <3> QED  BY <2>3, <3>1, <3>2 DEF Frame
  <2> QED  BY <1>2, <2>1, <2>2, <2>3 DEF Frame
<1> QED  BY <1>6, <1>7, <1>8, <1>9

LEMMA DestroyDatabaseInv ==
    ASSUME IInv, NEW n \in Names, DestroyDatabase(n)
    PROVE  IInv'
<1> USE DEF IInv
<1>1. /\ pc \in {"idle", "callback"} /\ pc' \in {pc, "undefined"}
      /\ \/ closed' = closed
         \/ databases[n] # NoDB /\ closed' = closed \cup {databases[n]}
      /\ UNCHANGED <<config, section, databases, defaultDB, threads, due, pos,
                     batch, started, owed>>
  BY DEF DestroyDatabase, InUserCode, GoTo
<1>2. TypeOK'
  BY <1>1 DEF TypeOK
<1>3. Owned'
  BY <1>1 DEF Owned, InMap, LeftBehind
<1>4. Loaded'
  BY <1>1 DEF Loaded, InMap
<1>5. Frame'
  BY <1>1 DEF Frame, InMap
<1> QED  BY <1>2, <1>3, <1>4, <1>5

LEMMA CompleteInv ==
    ASSUME IInv, NEW d \in Objects, Complete(d)
    PROVE  IInv'
<1> USE DEF IInv
<1>1. /\ started /\ d \in Registered /\ due[d] < MaxDue
      /\ due' = [due EXCEPT ![d] = @ + 1]
      /\ UNCHANGED <<config, section, databases, defaultDB, threads, pc, pos,
                     batch, started, owed, closed>>
  BY DEF Complete
<1>2. InMap(d) /\ due[d] \in Nat /\ MaxDue \in Nat
  BY <1>1, ConstantsAssumption DEF Registered, InMap, TypeOK
<1>3. \A e \in Objects : due[e] <= due'[e] /\ (e # d => due'[e] = due[e])
  BY <1>1, <1>2, ConstantsAssumption DEF TypeOK
<1>4. TypeOK'
  BY <1>1, <1>2 DEF TypeOK
<1>5. Owned'
  BY <1>1 DEF Owned, InMap, LeftBehind
<1>6. Loaded'
  BY <1>1 DEF Loaded, InMap
<1>7. Frame'
  <2>1. pc \in {"idle", "update", "callback"} =>
          \A e \in Objects : due'[e] > 0 => InMap(e)
    BY <1>2, <1>3 DEF Frame
  <2>2. ASSUME NEW e \in Objects, owed[e] <= due[e] PROVE owed[e] <= due'[e]
    BY <1>3, <1>4, <2>2, ConstantsAssumption DEF TypeOK
  <2>3. pc \in {"update", "callback"} =>
          \A e \in Objects : owed[e] > 0 =>
            \/ \E n \in Names : n > pos /\ databases[n] = e /\ owed[e] <= due'[e]
            \/ pc = "callback" /\ databases[pos] = e /\ owed[e] <= batch
    BY <2>2 DEF Frame
  <2> QED  BY <1>1, <2>1, <2>3 DEF Frame, InMap
<1> QED  BY <1>4, <1>5, <1>6, <1>7

-----------------------------------------------------------------------------
(* OnUpdate.                                                               *)

LEMMA OnUpdateInv ==
    ASSUME IInv, OnUpdate
    PROVE  IInv'
<1> USE DEF IInv
<1>1. /\ pc = "idle" /\ pc' = "update" /\ pos' = 0 /\ owed' = due
      /\ UNCHANGED <<config, section, databases, defaultDB, threads, due, batch,
                     started, closed>>
  BY DEF OnUpdate, GoTo
<1>2. TypeOK'
  BY <1>1, ConstantsAssumption DEF TypeOK
<1>3. Owned'
  BY <1>1 DEF Owned, InMap, LeftBehind
<1>4. Loaded'
  BY <1>1 DEF Loaded, InMap
<1>5. Frame'
  <2>1. ASSUME NEW d \in Objects, due[d] > 0
        PROVE  \E n \in Names : n > 0 /\ databases[n] = d /\ due[d] <= due[d]
    <3>1. PICK n \in Names : databases[n] = d
      BY <1>1, <2>1 DEF Frame, InMap
    <3> QED  BY <1>2, <3>1, ConstantsAssumption DEF Names, TypeOK
  <2> QED  BY <1>1, <2>1 DEF Frame, InMap
<1> QED  BY <1>2, <1>3, <1>4, <1>5

LEMMA UpdateNextInv ==
    ASSUME IInv, UpdateNext
    PROVE  IInv'
<1> USE DEF IInv
<1>1. PICK n \in Names :
        /\ Following(n) /\ pos' = n /\ batch' = due[databases[n]]
        /\ due' = [due EXCEPT ![databases[n]] = 0]
        /\ pc' = IF due[databases[n]] = 0 THEN "update" ELSE "callback"
  BY DEF UpdateNext, GoTo
<1>2. /\ pc = "update"
      /\ UNCHANGED <<config, section, databases, defaultDB, threads, started, owed,
                     closed>>
  BY DEF UpdateNext
<1>3. /\ n > pos /\ databases[n] # NoDB /\ databases[n] \in Objects
      /\ \A m \in Names : m > pos /\ databases[m] # NoDB => n <= m
  BY <1>1 DEF Following, Ahead, TypeOK
<1>4. TypeOK'
  BY <1>1, <1>2, <1>3, ConstantsAssumption DEF TypeOK, Names
<1>5. Owned'
  BY <1>1, <1>2 DEF Owned, InMap, LeftBehind
<1>6. Loaded'
  BY <1>1, <1>2 DEF Loaded, InMap
<1>7. Frame'
  <2>1. ~started => \A d \in Objects : due'[d] = 0
    BY <1>1, <1>3 DEF Frame, TypeOK
  <2>2. \A d \in Objects : due'[d] > 0 => InMap(d)
    BY <1>1, <1>2, <1>3 DEF Frame, TypeOK
  <2>3. ASSUME NEW d \in Objects, owed[d] > 0
        PROVE  \/ \E m \in Names : m > n /\ databases[m] = d /\ owed[d] <= due'[d]
               \/ pc' = "callback" /\ databases[n] = d /\ owed[d] <= batch'
    <3>1. PICK m \in Names : m > pos /\ databases[m] = d /\ owed[d] <= due[d]
      BY <1>2, <2>3 DEF Frame
    <3>2. n <= m /\ owed[d] \in Nat /\ due[d] \in Nat /\ n \in Nat /\ m \in Nat
      BY <1>3, <3>1, ConstantsAssumption DEF Objects, NoDB, TypeOK, Names
    <3>3. CASE m = n
      BY <1>1, <2>3, <3>1, <3>2, <3>3
    <3>4. CASE m # n
      <4>1. databases[n] # d
        BY <1>3, <3>1, <3>4 DEF Owned
      <4>2. due'[d] = due[d] /\ m > n
        BY <1>1, <3>2, <3>4, <4>1 DEF TypeOK
      <4> QED  BY <3>1, <4>2
    <3> QED  BY <3>3, <3>4
  <2> QED  BY <1>1, <1>2, <1>3, <2>1, <2>2, <2>3 DEF Frame, InMap
<1> QED  BY <1>4, <1>5, <1>6, <1>7

LEMMA InvokeInv ==
    ASSUME IInv, Invoke
    PROVE  IInv'
<1> USE DEF IInv
<1> DEFINE o == databases[pos]
<1>1. /\ pc = "callback" /\ batch > 0 /\ batch' = batch - 1
      /\ owed' = [owed EXCEPT ![o] = IF @ = 0 THEN 0 ELSE @ - 1]
      /\ UNCHANGED <<config, section, databases, defaultDB, threads, due, pc, pos,
                     started, closed>>
  BY DEF Invoke
<1>2. /\ o \in Objects /\ batch \in Nat
      /\ owed[o] \in Nat /\ owed'[o] = IF owed[o] = 0 THEN 0 ELSE owed[o] - 1
      /\ \A d \in Objects \ {o} : owed'[d] = owed[d]
  BY <1>1, ConstantsAssumption DEF Frame, TypeOK
<1>3. TypeOK'
  BY <1>1, <1>2, ConstantsAssumption DEF TypeOK
<1>4. Owned'
  BY <1>1 DEF Owned, InMap, LeftBehind
<1>5. Loaded'
  BY <1>1 DEF Loaded, InMap
<1>6. Frame'
  <2>1. ASSUME NEW d \in Objects, owed'[d] > 0
        PROVE  \/ \E m \in Names : m > pos /\ databases[m] = d /\ owed'[d] <= due[d]
               \/ databases[pos] = d /\ owed'[d] <= batch'
    <3>1. /\ owed[d] > 0 /\ owed'[d] <= owed[d]
          /\ owed[d] \in Nat /\ owed'[d] \in Nat /\ due[d] \in Nat
      <4>1. owed[d] \in Nat /\ due[d] \in Nat
        BY ConstantsAssumption DEF TypeOK
      <4>2. CASE d = o
        BY <1>2, <2>1, <4>1, <4>2
      <4>3. CASE d # o
        BY <1>2, <2>1, <4>1, <4>3
      <4> QED  BY <4>2, <4>3
    <3>2. CASE databases[pos] = d /\ owed[d] <= batch
      BY <1>1, <1>2, <3>1, <3>2
    <3>3. CASE \E m \in Names : m > pos /\ databases[m] = d /\ owed[d] <= due[d]
      BY <3>1, <3>3
    <3> QED  BY <1>1, <3>1, <3>2, <3>3 DEF Frame
  <2> QED  BY <1>1, <2>1 DEF Frame, InMap
<1> QED  BY <1>3, <1>4, <1>5, <1>6

LEMMA BatchDoneInv ==
    ASSUME IInv, BatchDone
    PROVE  IInv'
<1> USE DEF IInv
<1>1. /\ pc = "callback" /\ batch = 0 /\ pc' = "update"
      /\ UNCHANGED <<config, section, databases, defaultDB, threads, due, pos,
                     batch, started, owed, closed>>
  BY DEF BatchDone, GoTo
<1>2. \A d \in Objects : owed[d] > 0 => ~(owed[d] <= batch)
  BY <1>1, ConstantsAssumption DEF TypeOK
<1>3. TypeOK'
  BY <1>1 DEF TypeOK
<1>4. Owned'
  BY <1>1 DEF Owned, InMap, LeftBehind
<1>5. Loaded'
  BY <1>1 DEF Loaded, InMap
<1>6. Frame'
  BY <1>1, <1>2 DEF Frame, InMap
<1> QED  BY <1>3, <1>4, <1>5, <1>6

LEMMA UpdateReturnInv ==
    ASSUME IInv, UpdateReturn
    PROVE  IInv'
<1> USE DEF IInv
<1>1. /\ pc = "update" /\ Ahead(pos) = {} /\ pc' = "idle"
      /\ UNCHANGED <<config, section, databases, defaultDB, threads, due, pos,
                     batch, started, owed, closed>>
  BY DEF UpdateReturn, GoTo
<1>2. TypeOK'
  BY <1>1 DEF TypeOK
<1>3. Owned'
  BY <1>1 DEF Owned, InMap, LeftBehind
<1>4. Loaded'
  BY <1>1 DEF Loaded, InMap
<1>5. Frame'
  <2>1. ASSUME NEW d \in Objects PROVE ~(owed[d] > 0)
    BY <1>1 DEF Frame, Ahead, Objects, NoDB
  <2>2. \A d \in Objects : owed[d] = 0
    BY <2>1, ConstantsAssumption DEF TypeOK
  <2> QED  BY <1>1, <2>2 DEF Frame, InMap
<1> QED  BY <1>2, <1>3, <1>4, <1>5

-----------------------------------------------------------------------------
(* OnDestroy.                                                              *)

LEMMA OnDestroyInv ==
    ASSUME IInv, OnDestroy
    PROVE  IInv'
<1> USE DEF IInv
<1>1. /\ pc \in {"idle", "failed"} /\ pos' = 0 /\ pc' = "destroy"
      /\ UNCHANGED <<config, section, databases, defaultDB, threads, due, batch,
                     started, owed, closed>>
  BY DEF OnDestroy, GoTo
<1>2. \A n \in Names : ~(n <= 0)
  BY ConstantsAssumption DEF Names
<1>3. TypeOK'
  BY <1>1, ConstantsAssumption DEF TypeOK
<1>4. Owned'
  BY <1>1, <1>2 DEF Owned, InMap, LeftBehind
<1>5. Loaded'
  BY <1>1 DEF Loaded, InMap
<1>6. Frame'
  BY <1>1 DEF Frame
<1> QED  BY <1>3, <1>4, <1>5, <1>6

LEMMA DestroyNextInv ==
    ASSUME IInv, DestroyNext
    PROVE  IInv'
<1> USE DEF IInv
<1>1. PICK n \in Names :
        /\ Following(n) /\ pos' = n
        /\ threads' = [threads EXCEPT ![databases[n]] = "joined"]
        /\ due' = [due EXCEPT ![databases[n]] = 0]
  BY DEF DestroyNext
<1>2. /\ pc = "destroy"
      /\ UNCHANGED <<config, section, databases, defaultDB, pc, batch, started,
                     owed, closed>>
  BY DEF DestroyNext
<1>3. /\ databases[n] \in Objects
      /\ \A m \in Names : m > pos /\ databases[m] # NoDB => n <= m
  BY <1>1 DEF Following, Ahead, TypeOK
<1>4. TypeOK'
  BY <1>1, <1>2, <1>3, ConstantsAssumption DEF TypeOK, Names
<1>5. Owned'
  <2>1. \A d \in Objects : threads'[d] = IF d = databases[n] THEN "joined" ELSE threads[d]
    BY <1>1 DEF TypeOK
  <2>2. \A m \in Names : databases[m] \in Objects \cup {NoDB}
    BY DEF TypeOK
  <2>3. ASSUME NEW m \in Names, m <= n, databases[m] # NoDB
        PROVE  threads'[databases[m]] = "joined"
    <3>1. CASE m <= pos
      BY <1>2, <2>1, <2>2, <2>3, <3>1 DEF Owned
    <3>2. CASE m > pos
      <4>1. m = n
        BY <1>3, <2>3, <3>2, ConstantsAssumption DEF Names
      <4> QED  BY <1>3, <2>1, <4>1
    <3> QED  BY <3>1, <3>2, ConstantsAssumption DEF Names, TypeOK
  <2> QED  BY <1>1, <1>2, <2>1, <2>2, <2>3 DEF Owned, InMap, LeftBehind
<1>6. Loaded'
  BY <1>1, <1>2 DEF Loaded, InMap
<1>7. Frame'
  BY <1>1, <1>2, <1>3 DEF Frame, TypeOK
<1> QED  BY <1>4, <1>5, <1>6, <1>7

LEMMA ClearInv ==
    ASSUME IInv, Clear
    PROVE  IInv'
<1> USE DEF IInv
<1>1. /\ pc = "destroy" /\ Ahead(pos) = {} /\ pc' = "destroyed"
      /\ databases' = [n \in Names |-> NoDB]
      /\ UNCHANGED <<config, section, defaultDB, threads, due, pos, batch, started,
                     owed, closed>>
  BY DEF Clear, GoTo
<1>2. TypeOK'
  BY <1>1 DEF TypeOK
<1>3. Owned'
  <2>1. ASSUME NEW d \in Objects, InMap(d) PROVE threads[d] # "running"
    <3>1. PICK n \in Names : databases[n] = d
      BY <2>1 DEF InMap
    <3>2. databases[n] # NoDB
      BY <3>1 DEF Objects, NoDB
    <3>3. n <= pos
      <4>1. ~(n > pos)
        BY <1>1, <3>2 DEF Ahead
      <4>2. n \in Nat /\ pos \in Nat
        BY ConstantsAssumption DEF Names, TypeOK
      <4> QED  BY <4>1, <4>2
    <3> QED  BY <1>1, <3>1, <3>2, <3>3 DEF Owned
  <2>2. \A d \in Objects : threads[d] = "running" => LeftBehind(d)'
    BY <1>1, <2>1 DEF Owned, LeftBehind
  <2> QED  BY <1>1, <2>2 DEF Owned
<1>4. Loaded'
  BY <1>1 DEF Loaded
<1>5. Frame'
  BY <1>1 DEF Frame
<1> QED  BY <1>2, <1>3, <1>4, <1>5

-----------------------------------------------------------------------------

\* The invariant is inductive, and holds in every reachable state.
THEOREM Invariance == Spec => []IInv
<1>1. IInv /\ [Next]_vars => IInv'
  <2> SUFFICES ASSUME IInv, [Next]_vars PROVE IInv'
    OBVIOUS
  <2>1. CASE SectionFails \/ SecondDefault \/ LoadSection \/ NoDefault \/ Initialized
    BY <2>1, SectionFailsInv, SecondDefaultInv, LoadSectionInv, NoDefaultInv,
       InitializedInv
  <2>2. ASSUME NEW n \in Names, CreateDatabase(n) \/ DestroyDatabase(n) PROVE IInv'
    BY <2>2, CreateDatabaseInv, DestroyDatabaseInv
  <2>3. ASSUME NEW d \in Objects, Complete(d) PROVE IInv'
    BY <2>3, CompleteInv
  <2>4. CASE OnUpdate \/ UpdateNext \/ Invoke \/ BatchDone \/ UpdateReturn
    BY <2>4, OnUpdateInv, UpdateNextInv, InvokeInv, BatchDoneInv, UpdateReturnInv
  <2>5. CASE OnDestroy \/ DestroyNext \/ Clear
    BY <2>5, OnDestroyInv, DestroyNextInv, ClearInv
  <2>6. CASE UNCHANGED vars
    BY <2>6 DEF vars, IInv, TypeOK, Owned, Loaded, Frame, InMap, LeftBehind
  <2> QED  BY <2>1, <2>2, <2>3, <2>4, <2>5, <2>6 DEF Next
<1> QED  BY <1>1, InitInv, PTL DEF Spec

\* The variables of DBMgr have their types.
THEOREM TypeCorrect == Spec => []TypeOK
<1>1. IInv => TypeOK
  BY DEF IInv
<1> QED  BY <1>1, Invariance, PTL

\* From OnInitialize to OnDestroy, a database of the ini file is the object opened
\* for it, and GetDefaultDatabase returns the one that the file names, unless user
\* code has asked for its end.
THEOREM ConfigKept == Spec => []ConfigInForce
<1>1. IInv => ConfigInForce
  BY DEF IInv, Loaded, ConfigInForce
<1> QED  BY <1>1, Invariance, PTL

\* No object is deleted, or left by OnDestroy, with threads running, but for the
\* second default that makes OnInitialize fail.
THEOREM ThreadsOwned == Spec => []RunningIsOwned
<1>1. IInv => RunningIsOwned
  <2> SUFFICES ASSUME IInv, NEW d \in Objects, threads[d] = "running", ~LeftBehind(d)
               PROVE  d \in Registered
    BY DEF RunningIsOwned
  <2>1. PICK n \in Names : databases[n] = d
    BY DEF IInv, Owned, InMap
  <2> QED  BY <2>1 DEF Registered, Objects, NoDB
<1> QED  BY <1>1, Invariance, PTL

\* A frame runs every callback that was due when it began, however many databases
\* its callbacks insert into the map that it loops over.
THEOREM FrameComplete == Spec => []FrameServesAll
<1>1. IInv => FrameServesAll
  BY DEF IInv, Frame, FrameServesAll
<1> QED  BY <1>1, Invariance, PTL

\* A callback never deletes the database in whose OnUpdate it runs.
THEOREM OwnerLives == Spec => []CallbackOwnerLives
<1>1. IInv => CallbackOwnerLives
  BY DEF IInv, Owned, Frame, CallbackOwnerLives
<1> QED  BY <1>1, Invariance, PTL
=============================================================================
