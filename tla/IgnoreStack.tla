---------------------------- MODULE IgnoreStack ----------------------------
(***************************************************************************)
(* One of the lists of ignore rules that walkDirectoryRecursive hands down *)
(* the tree (gitignores, ignores, moduleIgnores, customIgnores).  The list *)
(* is a Go slice: the header is passed by value, the backing array is      *)
(* shared, and append writes in place while the array has room.  The       *)
(* goroutines of depth 1 all start from the header of their root.          *)
(*                                                                         *)
(* A rule is named <<d, i>>, the i-th rule found in directory d; the array *)
(* that an append allocates is named by the rule it was allocated for.     *)
(* Writing one cell is one step: the racing writes store values of one     *)
(* dynamic type, so a reader sees one of them whole.                       *)
(***************************************************************************)
EXTENDS Integers, Sequences, FiniteSets

CONSTANTS
  Dir,     \* directories
  Parent,  \* [Dir -> Dir], a root is its own
  Depth,   \* [Dir -> Nat], a root has depth 0
  Adds     \* [Dir -> Nat], how many rules d's own ignore files hold

ASSUME StackAssumption ==
  /\ IsFiniteSet(Dir)
  /\ Depth \in [Dir -> Nat]
  /\ Parent \in [Dir -> Dir]
  /\ Adds \in [Dir -> Nat]
  /\ \A d \in Dir : IF Depth[d] = 0 THEN Parent[d] = d ELSE Depth[d] = Depth[Parent[d]] + 1

Rule == UNION {{d} \X (1..Adds[d]) : d \in Dir}
Nil == <<>>    \* the array of an empty slice, and an unwritten cell
Array == Rule \cup {Nil}

VARIABLES
  pc,     \* [Dir -> {"idle", "load", "match", "call", "done"}]
  added,  \* [Dir -> Nat], rules d has appended so far
  todo,   \* [Dir -> SUBSET Dir], subdirectories d has not come to
  slice,  \* [Dir -> [array : Array, len : Nat]], d's variable
  heap    \* [Array -> Seq(Rule \cup {Nil})], the cells of every array

vars == <<pc, added, todo, slice, heap>>

Subdirs(d) == {c \in Dir : Depth[c] > 0 /\ Parent[c] = d}
Live(d) == pc[d] \notin {"idle", "done"}

-----------------------------------------------------------------------------
(* The slice                                                               *)

List(d) == SubSeq(heap[slice[d].array], 1, slice[d].len)
Capacity(s) == Len(heap[s.array])

\* runtime.growslice, one element more than a full array of fewer than 256.
Grown(cap) == IF cap = 0 THEN 1 ELSE 2 * cap

HasRoom(s) == s.len < Capacity(s)

\* slice = append(slice, r)
AppendRule(d, r) ==
  LET s == slice[d] IN
  /\ IF HasRoom(s)
     THEN /\ heap' = [heap EXCEPT ![s.array] = [@ EXCEPT ![s.len + 1] = r]]
          /\ slice' = [slice EXCEPT ![d].len = @ + 1]
     ELSE /\ heap' = [heap EXCEPT
                        ![r] = [i \in 1..Grown(Capacity(s)) |->
                                  IF i <= s.len THEN List(d)[i]
                                  ELSE IF i = s.len + 1 THEN r ELSE Nil]]
          /\ slice' = [slice EXCEPT ![d] = [array |-> r, len |-> s.len + 1]]

-----------------------------------------------------------------------------
(* The walk, as far as the list is concerned                               *)

\* d's ignore files are read one by one, each adds a rule.
Load(d) ==
  /\ pc[d] = "load"
  /\ added[d] < Adds[d]
  /\ AppendRule(d, <<d, added[d] + 1>>)
  /\ added' = [added EXCEPT ![d] = @ + 1]
  /\ UNCHANGED <<pc, todo>>

LoadDone(d) ==
  /\ pc[d] = "load"
  /\ added[d] = Adds[d]
  /\ pc' = [pc EXCEPT ![d] = "match"]
  /\ todo' = [todo EXCEPT ![d] = Subdirs(d)]
  /\ UNCHANGED <<added, slice, heap>>

\* Broken variant: a goroutine for every directory of the walk.
ConcurrentEverywhere(d) == TRUE

\* A root starts a goroutine for each of its subdirectories, a deeper activation
\* calls itself and waits.
Concurrent(d) == Depth[d] = 0

\* The activation of c starts with a copy of d's slice header.
Descend(d) ==
  /\ pc[d] = "match"
  /\ \E c \in todo[d] :
       /\ todo' = [todo EXCEPT ![d] = @ \ {c}]
       /\ pc' = [pc EXCEPT ![c] = "load", ![d] = IF Concurrent(d) THEN "match" ELSE "call"]
       /\ slice' = [slice EXCEPT ![c] = slice[d]]
  /\ UNCHANGED <<added, heap>>

\* c is ignored.
Skip(d) ==
  /\ pc[d] = "match"
  /\ \E c \in todo[d] : todo' = [todo EXCEPT ![d] = @ \ {c}]
  /\ UNCHANGED <<pc, added, slice, heap>>

\* The end of an activation: after its directory loop and wg.Wait, or early on
\* an error or a termination.
Leave(d) ==
  /\ \/ pc[d] = "match" /\ todo[d] = {} /\ \A c \in Subdirs(d) : ~Live(c)
     \/ pc[d] = "load"
     \/ pc[d] = "match" /\ ~Concurrent(d)
  /\ pc' = [e \in Dir |-> IF e = d THEN "done"
                          ELSE IF e = Parent[d] /\ pc[e] = "call" THEN "match" ELSE pc[e]]
  /\ UNCHANGED <<added, todo, slice, heap>>

\* Every root has returned.
Finished ==
  /\ \A d \in Dir : ~Live(d)
  /\ UNCHANGED vars

Init ==
  /\ pc = [d \in Dir |-> IF Depth[d] = 0 THEN "load" ELSE "idle"]
  /\ added = [d \in Dir |-> 0]
  /\ todo = [d \in Dir |-> {}]
  /\ slice = [d \in Dir |-> [array |-> Nil, len |-> 0]]
  /\ heap = [a \in Array |-> <<>>]

Step(d) == Load(d) \/ LoadDone(d) \/ Descend(d) \/ Skip(d) \/ Leave(d)

Next == (\E d \in Dir : Step(d)) \/ Finished

Spec == Init /\ [][Next]_vars

-----------------------------------------------------------------------------
(* Properties                                                              *)

\* The types of the variables; the proofs rest on it.
TypeOK ==
  /\ pc \in [Dir -> {"idle", "load", "match", "call", "done"}]
  /\ added \in [Dir -> Nat]
  /\ \A d \in Dir : added[d] <= Adds[d]
  /\ todo \in [Dir -> SUBSET Dir]
  /\ slice \in [Dir -> [array : Array, len : Nat]]
  /\ heap \in [Array -> Seq(Rule \cup {Nil})]
  /\ \A d \in Dir : slice[d].len <= Capacity(slice[d])

\* The rules that should apply in d: those of its ancestors from the root down,
\* then its own, of which k have been read.
Own(d, k) == [i \in 1..k |-> <<d, i>>]
Chain[d \in Dir] == IF Depth[d] = 0 THEN Own(d, Adds[d])
                    ELSE Chain[Parent[d]] \o Own(d, Adds[d])
Above(d) == IF Depth[d] = 0 THEN <<>> ELSE Chain[Parent[d]]

\* An activation's list holds the rules of its ancestors and those it has read
\* itself, in that order, whatever the activations beside it append: they are
\* "applied for this pass and any subdirectories".
RulesInherited == \A d \in Dir : Live(d) => List(d) = Above(d) \o Own(d, added[d])

\* "Custom ignore patterns re-anchored at every directory": the rules d has
\* added itself are in force while it matches.
OwnRulesInForce ==
  \A d \in Dir : pc[d] = "match" =>
    \A i \in 1..Adds[d] : \E k \in 1..Len(List(d)) : List(d)[k] = <<d, i>>
=============================================================================
