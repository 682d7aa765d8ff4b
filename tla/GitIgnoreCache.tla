--------------------------- MODULE GitIgnoreCache ---------------------------
(***************************************************************************)
(* NewWithCache over the default cache (src/go-gitignore/gitignore.go and  *)
(* cache.go), called by several goroutines that match paths against one    *)
(* repository.  Get and the write of Set hold the lock; the test for the   *)
(* nil map and the assignment of a new one in Set do not, so they are      *)
(* steps of their own.                                                     *)
(***************************************************************************)
EXTENDS Integers, FiniteSets

CONSTANTS
  Client,      \* goroutines
  Path,        \* absolute paths of ignore files
  Readable,    \* those that can be opened
  CacheGiven,  \* FALSE when the cache handed to NewWithCache is nil
  First,       \* goroutines that may call before the map of the cache exists
  MaxCalls     \* bound: calls of one client

ASSUME CacheAssumption ==
  /\ IsFiniteSet(Client)
  /\ Readable \subseteq Path
  /\ First \subseteq Client
  /\ CacheGiven \in BOOLEAN
  /\ MaxCalls \in Nat \ {0}

VARIABLES
  pc,        \* [Client -> "idle", "get", "load", "test", "make", "store"]
  path,      \* [Client -> Path], the file asked for
  got,       \* [Client -> what the call has in hand]
  calls,     \* [Client -> 0..MaxCalls]
  defined,   \* the map of the cache has been made
  map,       \* [Path -> what the map holds]
  loads,     \* [Path -> Nat], how often the file has been loaded
  answered,  \* paths some call has returned for
  late       \* clients whose call began after one for the same path had returned

vars == <<pc, path, got, calls, defined, map, loads, answered, late>>

\* Nothing in the map; the shared instance without patterns that stands for a
\* file that could not be loaded; the instance of the n-th load of p.
Absent == <<>>
Empty == <<"empty">>
Loaded(p, n) == <<p, n>>
Instance == {Empty} \cup (Path \X (Nat \ {0}))

-----------------------------------------------------------------------------

\* The caller decides when its goroutines start: with First = Client all of
\* them may begin on a new cache, otherwise the others wait for its map.
MayCall(c) ==
  /\ pc[c] = "idle"
  /\ c \in First \/ defined
  /\ calls[c] < MaxCalls

\* There is no absolute path: the error handler is told, nothing is loaded.
CallFails(c) ==
  /\ MayCall(c)
  /\ calls' = [calls EXCEPT ![c] = @ + 1]
  /\ UNCHANGED <<pc, path, got, defined, map, loads, answered, late>>

\* NewWithCache is called for one of the files.
Call(c) ==
  /\ MayCall(c)
  /\ calls' = [calls EXCEPT ![c] = @ + 1]
  /\ \E p \in Path :
       /\ path' = [path EXCEPT ![c] = p]
       /\ late' = IF p \in answered THEN late \cup {c} ELSE late \ {c}
  /\ pc' = [pc EXCEPT ![c] = IF CacheGiven THEN "get" ELSE "load"]
  /\ got' = [got EXCEPT ![c] = Absent]
  /\ UNCHANGED <<defined, map, loads, answered>>

Return(c) == /\ pc' = [pc EXCEPT ![c] = "idle"]
             /\ answered' = answered \cup {path[c]}

Found(c) == map[path[c]] # Absent

\* cache.Get, under the lock.
Get(c) ==
  /\ pc[c] = "get"
  /\ IF Found(c)
     THEN /\ got' = [got EXCEPT ![c] = map[path[c]]]
          /\ Return(c)
     ELSE /\ pc' = [pc EXCEPT ![c] = "load"]
          /\ UNCHANGED <<got, answered>>
  /\ UNCHANGED <<path, calls, defined, map, loads, late>>

\* Broken variant: a failed load leaves nothing to remember.
OutcomeForgetful(p) == IF p \in Readable THEN Loaded(p, loads[p] + 1) ELSE Absent

\* NewWithErrors, with "empty" for a file that cannot be opened.
Outcome(p) == IF p \in Readable THEN Loaded(p, loads[p] + 1) ELSE Empty

Load(c) ==
  /\ pc[c] = "load"
  /\ loads' = [loads EXCEPT ![path[c]] = @ + 1]
  /\ got' = [got EXCEPT ![c] = Outcome(path[c])]
  /\ IF CacheGiven
     THEN pc' = [pc EXCEPT ![c] = "test"] /\ UNCHANGED answered
     ELSE Return(c)
  /\ UNCHANGED <<path, calls, defined, map, late>>

\* Broken variant: every Set makes a map.
TestMapNever(c) ==
  /\ pc[c] = "test"
  /\ pc' = [pc EXCEPT ![c] = "make"]
  /\ UNCHANGED <<path, got, calls, defined, map, loads, answered, late>>

\* cache.Set: "if c._i == nil", without the lock.
TestMap(c) ==
  /\ pc[c] = "test"
  /\ pc' = [pc EXCEPT ![c] = IF defined THEN "store" ELSE "make"]
  /\ UNCHANGED <<path, got, calls, defined, map, loads, answered, late>>

\* "c._i = make(...)", without the lock: a map made meanwhile is dropped.
MakeMap(c) ==
  /\ pc[c] = "make"
  /\ defined' = TRUE
  /\ map' = [p \in Path |-> Absent]
  /\ pc' = [pc EXCEPT ![c] = "store"]
  /\ UNCHANGED <<path, got, calls, loads, answered, late>>

\* Broken variant: only instances with patterns are kept.
StoredPatterns(c) == IF got[c] = Empty THEN map ELSE [map EXCEPT ![path[c]] = got[c]]

Stored(c) == [map EXCEPT ![path[c]] = got[c]]

\* "c._i[path] = ignore", under the lock.
Store(c) ==
  /\ pc[c] = "store"
  /\ map' = Stored(c)
  /\ Return(c)
  /\ UNCHANGED <<path, got, calls, defined, loads, late>>

\* All calls have been made, or nobody is left to make the map others wait for.
Finished ==
  /\ \A c \in Client : pc[c] = "idle" /\ ~MayCall(c)
  /\ UNCHANGED vars

Init ==
  /\ pc = [c \in Client |-> "idle"]
  /\ path \in [Client -> Path]
  /\ got = [c \in Client |-> Absent]
  /\ calls = [c \in Client |-> 0]
  /\ defined = FALSE
  /\ map = [p \in Path |-> Absent]
  /\ loads = [p \in Path |-> 0]
  /\ answered = {}
  /\ late = {}

Step(c) == Call(c) \/ CallFails(c) \/ Get(c) \/ Load(c) \/ TestMap(c) \/ MakeMap(c) \/ Store(c)

Next == (\E c \in Client : Step(c)) \/ Finished

Spec == Init /\ [][Next]_vars

-----------------------------------------------------------------------------
(* Properties                                                              *)

\* Every variable has its type; in particular a call never stores a nil
\* instance, for which Set would do nothing.
TypeOK ==
  /\ pc \in [Client -> {"idle", "get", "load", "test", "make", "store"}]
  /\ path \in [Client -> Path]
  /\ got \in [Client -> Instance \cup {Absent}]
  /\ \A c \in Client : pc[c] \in {"test", "make", "store"} => got[c] # Absent
  /\ calls \in [Client -> 0..MaxCalls]
  /\ defined \in BOOLEAN
  /\ map \in [Path -> Instance \cup {Absent}]
  /\ loads \in [Path -> Nat]
  /\ answered \subseteq Path
  /\ late \subseteq Client

\* "If the file has been loaded before, its GitIgnore instance will be returned
\* from the cache rather than being reloaded": a call that begins after one for
\* the same file has returned does not load it, loadable or not.
LoadedBeforeIsCached == \A c \in Client : pc[c] = "load" => c \notin late

\* Goroutines that miss at the same time load the file once each, and that is
\* all the loading there is.
OneLoadPerClient == \A p \in Path : loads[p] <= Cardinality(Client)
=============================================================================
