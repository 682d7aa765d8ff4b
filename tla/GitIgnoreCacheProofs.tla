------------------------ MODULE GitIgnoreCacheProofs ------------------------
(***************************************************************************)
(* Theorems about GitIgnoreCache, for every number of goroutines, files    *)
(* and calls.                                                              *)
(***************************************************************************)
EXTENDS GitIgnoreCache, FiniteSetTheorems, TLAPS

\* Neither the mark of an empty cell nor the shared instance without patterns
\* is taken for another.
LEMMA Distinct == Absent \notin Instance /\ Empty # Absent
<1>1. Absent # Empty
  BY DEF Absent, Empty
<1>2. \A p, n : <<p, n>> # Absent
  BY DEF Absent
<1>. QED
  BY <1>1, <1>2 DEF Instance

LEMMA OutcomeType ==
  ASSUME TypeOK, NEW p \in Path
  PROVE  Outcome(p) \in Instance /\ Outcome(p) # Absent
<1>1. loads[p] + 1 \in Nat \ {0}
  BY DEF TypeOK
<1>2. Outcome(p) \in Instance
  BY <1>1 DEF Outcome, Loaded, Instance
<1>. QED
  BY <1>2, Distinct

LEMMA TypeInit == Init => TypeOK
<1>. SUFFICES ASSUME Init PROVE TypeOK
  OBVIOUS
<1>1. 0 \in 0..MaxCalls /\ FALSE \in BOOLEAN
  BY CacheAssumption
<1>2. calls \in [Client -> 0..MaxCalls] /\ defined \in BOOLEAN
  BY <1>1 DEF Init
<1>3. map \in [Path -> Instance \cup {Absent}] /\ got \in [Client -> Instance \cup {Absent}]
  BY DEF Init
<1>. QED
  BY <1>2, <1>3 DEF Init, TypeOK

LEMMA TypeStep == TypeOK /\ [Next]_vars => TypeOK'
<1>. SUFFICES ASSUME TypeOK, [Next]_vars PROVE TypeOK'
  OBVIOUS
<1>1. ASSUME NEW c \in Client, Call(c) \/ CallFails(c) PROVE TypeOK'
  BY <1>1, CacheAssumption DEF Call, CallFails, MayCall, TypeOK
<1>2. ASSUME NEW c \in Client, Get(c) PROVE TypeOK'
  BY <1>2 DEF Get, Found, Return, TypeOK
<1>3. ASSUME NEW c \in Client, Load(c) PROVE TypeOK'
  <2>1. Outcome(path[c]) \in Instance /\ Outcome(path[c]) # Absent
    BY OutcomeType DEF TypeOK
  <2>. QED
    BY <1>3, <2>1 DEF Load, Return, TypeOK
<1>4. ASSUME NEW c \in Client, TestMap(c) PROVE TypeOK'
  BY <1>4 DEF TestMap, TypeOK
<1>5. ASSUME NEW c \in Client, MakeMap(c) PROVE TypeOK'
  BY <1>5 DEF MakeMap, TypeOK
<1>6. ASSUME NEW c \in Client, Store(c) PROVE TypeOK'
  BY <1>6 DEF Store, Stored, Return, TypeOK
<1>7. CASE UNCHANGED vars
  BY <1>7 DEF vars, TypeOK
<1>. QED
  BY <1>1, <1>2, <1>3, <1>4, <1>5, <1>6, <1>7 DEF Next, Step, Finished

\* The types of the cache, and that a call never stores a nil instance.
THEOREM CacheTypeCorrect == Spec => []TypeOK
BY TypeInit, TypeStep, PTL DEF Spec

(***************************************************************************)
(* When a single goroutine uses the new cache until it has made the map,   *)
(* nothing is ever dropped: before the map is made nobody has an answer,   *)
(* afterwards nobody makes another one, so what has been answered is in    *)
(* the map, and a late call asks for such a path.                          *)
(***************************************************************************)
SingleFirst == \A c, e \in First : c = e

BeforeMap ==
  ~defined => /\ answered = {}
              /\ \A p \in Path : map[p] = Absent
              /\ \A c \in Client \ First : pc[c] = "idle"

KeptInv ==
  /\ TypeOK
  /\ BeforeMap
  /\ \A c \in Client : pc[c] = "make" => ~defined
  /\ \A c \in Client : pc[c] = "store" => defined
  /\ \A p \in answered : map[p] # Absent
  /\ \A c \in late : pc[c] # "idle" => path[c] \in answered
  /\ LoadedBeforeIsCached

LEMMA KeptStep == SingleFirst /\ CacheGiven /\ KeptInv /\ [Next]_vars => KeptInv'
<1>. SUFFICES ASSUME SingleFirst, CacheGiven, KeptInv, [Next]_vars PROVE KeptInv'
  OBVIOUS
<1>0. TypeOK /\ TypeOK'
  BY TypeStep DEF KeptInv
<1>1. ASSUME NEW c \in Client, Call(c) \/ CallFails(c) PROVE KeptInv'
  BY <1>0, <1>1 DEF Call, CallFails, MayCall, KeptInv, BeforeMap, TypeOK, LoadedBeforeIsCached
<1>2. ASSUME NEW c \in Client, Get(c) PROVE KeptInv'
  <2>1. CASE Found(c)
    <3>1. defined /\ map[path[c]] # Absent
      BY <1>0, <2>1 DEF Found, KeptInv, BeforeMap, TypeOK
    <3>. QED
      BY <1>0, <1>2, <2>1, <3>1 DEF Get, Return, KeptInv, BeforeMap, TypeOK, LoadedBeforeIsCached
  <2>2. CASE ~Found(c)
    BY <1>0, <1>2, <2>2 DEF Get, Found, KeptInv, BeforeMap, TypeOK, LoadedBeforeIsCached
  <2>. QED
    BY <2>1, <2>2
<1>3. ASSUME NEW c \in Client, Load(c) PROVE KeptInv'
  BY <1>0, <1>3 DEF Load, KeptInv, BeforeMap, TypeOK, LoadedBeforeIsCached
<1>4. ASSUME NEW c \in Client, TestMap(c) PROVE KeptInv'
  BY <1>0, <1>4 DEF TestMap, KeptInv, BeforeMap, TypeOK, LoadedBeforeIsCached
<1>5. ASSUME NEW c \in Client, MakeMap(c) PROVE KeptInv'
  <2>1. ~defined /\ answered = {} /\ pc[c] = "make" /\ c \in First
    BY <1>0, <1>5 DEF MakeMap, KeptInv, BeforeMap, TypeOK
  <2>2. \A e \in Client : e # c => pc[e] = "idle"
    BY <2>1 DEF KeptInv, BeforeMap, SingleFirst
  <2>. QED
    BY <1>0, <1>5, <2>1, <2>2 DEF MakeMap, KeptInv, BeforeMap, TypeOK, LoadedBeforeIsCached
<1>6. ASSUME NEW c \in Client, Store(c) PROVE KeptInv'
  BY <1>0, <1>6 DEF Store, Stored, Return, KeptInv, BeforeMap, TypeOK, LoadedBeforeIsCached
<1>7. CASE UNCHANGED vars
  BY <1>0, <1>7 DEF vars, KeptInv, BeforeMap, TypeOK, LoadedBeforeIsCached
<1>. QED
  BY <1>1, <1>2, <1>3, <1>4, <1>5, <1>6, <1>7 DEF Next, Step, Finished

\* A file that has been loaded before is not loaded again, as long as a single
\* goroutine makes the map of the cache before the others share it.
THEOREM CachedCorrect == SingleFirst /\ CacheGiven /\ Spec => []LoadedBeforeIsCached
<1>. SUFFICES ASSUME SingleFirst, CacheGiven PROVE Spec => []LoadedBeforeIsCached
  OBVIOUS
<1>1. Init => KeptInv
  BY TypeInit DEF Init, KeptInv, BeforeMap, LoadedBeforeIsCached
<1>2. KeptInv /\ [Next]_vars => KeptInv'
  BY KeptStep
<1>3. KeptInv => LoadedBeforeIsCached
  BY DEF KeptInv
<1>. QED
  BY <1>1, <1>2, <1>3, PTL DEF Spec

(***************************************************************************)
(* Why the loads are counted by the goroutines: one that has loaded p is   *)
(* on its way to store the instance, or p has been answered, and then its  *)
(* later calls for p are late and find the instance in the map.            *)
(***************************************************************************)
Spent(c, p) ==
  \/ pc[c] \in {"test", "make", "store"} /\ path[c] = p
  \/ p \in answered /\ (pc[c] \in {"get", "load"} /\ path[c] = p => c \in late)

LoadsInv == KeptInv /\ \A p \in Path : loads[p] <= Cardinality({c \in Client : Spent(c, p)})

\* A goroutine that has loaded a file stays so, and a load adds one that had
\* not.
LEMMA SpentStep ==
  ASSUME SingleFirst, CacheGiven, KeptInv, KeptInv', [Next]_vars, NEW p \in Path
  PROVE  /\ \A c \in Client : Spent(c, p) => Spent(c, p)'
         /\ \/ loads'[p] = loads[p]
            \/ /\ loads'[p] = loads[p] + 1
               /\ \E c \in Client : ~Spent(c, p) /\ Spent(c, p)'
<1>. DEFINE Goal == /\ \A c \in Client : Spent(c, p) => Spent(c, p)'
                    /\ \/ loads'[p] = loads[p]
                       \/ /\ loads'[p] = loads[p] + 1
                          /\ \E c \in Client : ~Spent(c, p) /\ Spent(c, p)'
<1>0. TypeOK /\ TypeOK'
  BY DEF KeptInv
<1>1. ASSUME NEW c \in Client, Call(c) \/ CallFails(c) PROVE Goal
  BY <1>0, <1>1 DEF Call, CallFails, MayCall, TypeOK, Spent
<1>2. ASSUME NEW c \in Client, Get(c) PROVE Goal
  BY <1>0, <1>2 DEF Get, Return, TypeOK, Spent
<1>3. ASSUME NEW c \in Client, Load(c) PROVE Goal
  <2>1. pc[c] = "load" /\ pc' = [pc EXCEPT ![c] = "test"] /\ UNCHANGED <<path, answered, late>>
    BY <1>3 DEF Load
  <2>2. c \notin late
    BY <2>1 DEF KeptInv, LoadedBeforeIsCached
  <2>3. \A e \in Client : Spent(e, p) => Spent(e, p)'
    BY <1>0, <2>1 DEF TypeOK, Spent
  <2>4. CASE path[c] = p
    BY <1>0, <1>3, <2>1, <2>2, <2>3, <2>4 DEF Load, TypeOK, Spent
  <2>5. CASE path[c] # p
    BY <1>0, <1>3, <2>3, <2>5 DEF Load, TypeOK
  <2>. QED
    BY <2>4, <2>5
<1>4. ASSUME NEW c \in Client, TestMap(c) PROVE Goal
  BY <1>0, <1>4 DEF TestMap, TypeOK, Spent
<1>5. ASSUME NEW c \in Client, MakeMap(c) PROVE Goal
  BY <1>0, <1>5 DEF MakeMap, TypeOK, Spent
<1>6. ASSUME NEW c \in Client, Store(c) PROVE Goal
  BY <1>0, <1>6 DEF Store, Return, TypeOK, Spent
<1>7. CASE UNCHANGED vars
  BY <1>7 DEF vars, Spent
<1>. QED
  BY <1>1, <1>2, <1>3, <1>4, <1>5, <1>6, <1>7 DEF Next, Step, Finished

LEMMA LoadsStep == SingleFirst /\ CacheGiven /\ LoadsInv /\ [Next]_vars => LoadsInv'
<1>. SUFFICES ASSUME SingleFirst, CacheGiven, LoadsInv, [Next]_vars PROVE LoadsInv'
  OBVIOUS
<1>1. KeptInv /\ KeptInv'
  BY KeptStep DEF LoadsInv
<1>2. ASSUME NEW p \in Path
      PROVE  loads'[p] <= Cardinality({c \in Client : Spent(c, p)'})
  <2>. DEFINE S == {c \in Client : Spent(c, p)}
              T == {c \in Client : Spent(c, p)'}
  <2>1. /\ S \subseteq T
        /\ \/ loads'[p] = loads[p]
           \/ loads'[p] = loads[p] + 1 /\ S # T
    BY <1>1, SpentStep
  <2>2. IsFiniteSet(S) /\ IsFiniteSet(T)
    BY CacheAssumption, FS_Subset
  <2>3. /\ Cardinality(S) \in Nat /\ Cardinality(T) \in Nat
        /\ Cardinality(S) <= Cardinality(T)
        /\ Cardinality(S) = Cardinality(T) => S = T
    BY <2>1, <2>2, FS_Subset, FS_CardinalityType
  <2>4. loads[p] \in Nat /\ loads[p] <= Cardinality(S)
    BY <1>1 DEF LoadsInv, KeptInv, TypeOK
  <2>. HIDE DEF S, T
  <2>5. loads'[p] <= Cardinality(T)
    BY <2>1, <2>3, <2>4
  <2>. QED
    BY <2>5 DEF T
<1>. QED
  BY <1>1, <1>2 DEF LoadsInv

\* A file is loaded at most once for each goroutine, however often they ask, as
\* long as a single goroutine makes the map of the cache.
THEOREM LoadsBounded == SingleFirst /\ CacheGiven /\ Spec => []OneLoadPerClient
<1>. SUFFICES ASSUME SingleFirst, CacheGiven PROVE Spec => []OneLoadPerClient
  OBVIOUS
<1>1. Init => LoadsInv
  <2>. SUFFICES ASSUME Init PROVE LoadsInv
    OBVIOUS
  <2>1. KeptInv
    BY TypeInit DEF Init, KeptInv, BeforeMap, LoadedBeforeIsCached
  <2>2. ASSUME NEW p \in Path PROVE loads[p] <= Cardinality({c \in Client : Spent(c, p)})
    <3>1. Cardinality({c \in Client : Spent(c, p)}) \in Nat
      BY CacheAssumption, FS_Subset, FS_CardinalityType
    <3>2. loads[p] = 0
      BY DEF Init
    <3>. QED
      BY <3>1, <3>2
  <2>. QED
    BY <2>1, <2>2 DEF LoadsInv
<1>2. LoadsInv /\ [Next]_vars => LoadsInv'
  BY LoadsStep
<1>3. LoadsInv => OneLoadPerClient
  <2>. SUFFICES ASSUME LoadsInv, NEW p \in Path PROVE loads[p] <= Cardinality(Client)
    BY DEF OneLoadPerClient
  <2>. DEFINE S == {c \in Client : Spent(c, p)}
  <2>1. Cardinality(S) \in Nat /\ Cardinality(Client) \in Nat /\ Cardinality(S) <= Cardinality(Client)
    BY CacheAssumption, FS_Subset, FS_CardinalityType
  <2>2. loads[p] \in Nat /\ loads[p] <= Cardinality(S)
    BY DEF LoadsInv, KeptInv, TypeOK
  <2>. HIDE DEF S
  <2>. QED
    BY <2>1, <2>2
<1>. QED
  BY <1>1, <1>2, <1>3, PTL DEF Spec
=============================================================================
