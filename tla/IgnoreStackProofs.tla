------------------------- MODULE IgnoreStackProofs -------------------------
(***************************************************************************)
(* Theorems about IgnoreStack, for every tree of directories and whatever  *)
(* rules they hold: no slice reaches past its array, and where a root adds *)
(* at most two rules, no activation's list is disturbed by another's.      *)
(***************************************************************************)
EXTENDS IgnoreStack, Induction, SequenceTheorems

-----------------------------------------------------------------------------
(* The tree                                                                *)

\* What the assumption says, directory by directory.
LEMMA Tree ==
  /\ \A d \in Dir : Depth[d] \in Nat /\ Adds[d] \in Nat /\ Parent[d] \in Dir
  /\ \A d \in Dir : Depth[d] = 0 => Parent[d] = d
  /\ \A d \in Dir : Depth[d] # 0 => Depth[d] = Depth[Parent[d]] + 1
BY StackAssumption

\* A nonempty set of directories has one nearest to a root.
LEMMA Nearest ==
  ASSUME NEW X, X \subseteq Dir, X # {}
  PROVE  \E d \in X : \A e \in X : Depth[d] <= Depth[e]
<1>. DEFINE T == {Depth[d] : d \in X}
<1>1. T \subseteq Nat /\ T # {}
  BY Tree
<1>2. PICK n \in T : \A m \in T : n <= m
  BY <1>1, LeastNatural
<1>. QED
  BY <1>2

\* f is defined down the tree, as far as depth n: from at[d] in a root, and from
\* its value in the parent by step elsewhere.
Upto(n) == {d \in Dir : Depth[d] <= n}
Defines(f, at, step, n) ==
  \A d \in Upto(n) : f[d] = IF Depth[d] = 0 THEN at[d] ELSE step[<<d, f[Parent[d]]>>]

\* Two such functions agree where both are defined: induction on the depth.
LEMMA DefinedOnce ==
  ASSUME NEW at, NEW step, NEW f, NEW g, NEW m \in Nat, NEW n \in Nat,
         Defines(f, at, step, m), Defines(g, at, step, n)
  PROVE  \A d \in Upto(m) \cap Upto(n) : f[d] = g[d]
<1>. DEFINE X == {d \in Upto(m) \cap Upto(n) : f[d] # g[d]}
<1>1. SUFFICES ASSUME X # {} PROVE FALSE
  OBVIOUS
<1>2. PICK d \in X : \A e \in X : Depth[d] <= Depth[e]
  BY <1>1, Nearest DEF Upto
<1>3. Depth[d] # 0
  BY <1>2 DEF Defines
<1>4. Depth[d] = Depth[Parent[d]] + 1 /\ Depth[Parent[d]] \in Nat /\ Parent[d] \in Dir
  BY <1>2, <1>3, Tree DEF Upto
<1>5. Parent[d] \in Upto(m) \cap Upto(n)
  BY <1>2, <1>4 DEF Upto
<1>6. f[Parent[d]] # g[Parent[d]]
  BY <1>2, <1>3 DEF Defines
<1>. QED
  BY <1>2, <1>4, <1>5, <1>6

\* To every depth there is such a function.
LEMMA DefinedUpto ==
  ASSUME NEW at, NEW step, NEW n \in Nat
  PROVE  \E f : Defines(f, at, step, n)
<1>. DEFINE T == {k \in Nat : ~ \E f : Defines(f, at, step, k)}
<1>1. SUFFICES ASSUME T # {} PROVE FALSE
  OBVIOUS
<1>2. PICK k \in T : \A j \in T : k <= j
  BY <1>1, LeastNatural
<1>3. k # 0
  <2>. SUFFICES ASSUME k = 0 PROVE FALSE
    OBVIOUS
  <2>. DEFINE f == [d \in Dir |-> at[d]]
  <2>1. Defines(f, at, step, k)
    BY Tree DEF Defines, Upto
  <2>. QED
    BY <1>2, <2>1
<1>4. k - 1 \in Nat /\ k - 1 \notin T
  BY <1>2, <1>3
<1>5. PICK g : Defines(g, at, step, k - 1)
  BY <1>4
<1>. DEFINE f == [d \in Dir |-> IF Depth[d] = 0 THEN at[d]
                                ELSE IF Depth[d] <= k - 1 THEN g[d]
                                ELSE step[<<d, g[Parent[d]]>>]]
<1>6. ASSUME NEW d \in Upto(k), Depth[d] # 0
      PROVE  f[d] = step[<<d, f[Parent[d]]>>]
  <2>1. /\ d \in Dir /\ Parent[d] \in Dir
        /\ Depth[d] \in Nat /\ Depth[Parent[d]] \in Nat
        /\ Depth[d] = Depth[Parent[d]] + 1 /\ Depth[d] <= k
    BY <1>6, Tree DEF Upto
  <2>2. Parent[d] \in Upto(k - 1)
    BY <2>1, <1>4 DEF Upto
  <2>3. f[Parent[d]] = g[Parent[d]]
    BY <2>1, <2>2, <1>5 DEF Defines, Upto
  <2>4. f[d] = IF Depth[d] <= k - 1 THEN g[d] ELSE step[<<d, g[Parent[d]]>>]
    BY <2>1, <1>6
  <2>5. Depth[d] <= k - 1 => g[d] = step[<<d, g[Parent[d]]>>]
    BY <2>1, <1>5, <1>6 DEF Defines, Upto
  <2>. QED
    BY <2>3, <2>4, <2>5
<1>7. ASSUME NEW d \in Upto(k), Depth[d] = 0
      PROVE  f[d] = at[d]
  BY <1>7 DEF Upto
<1>. HIDE DEF f
<1>8. Defines(f, at, step, k)
  BY <1>6, <1>7 DEF Defines
<1>. QED
  BY <1>2, <1>8

\* So there is one on the whole tree.
DefinesAll(f, at, step) ==
  f = [d \in Dir |-> IF Depth[d] = 0 THEN at[d] ELSE step[<<d, f[Parent[d]]>>]]

LEMMA DefinedDown ==
  ASSUME NEW at, NEW step
  PROVE  \E f : DefinesAll(f, at, step)
<1>. DEFINE G(n) == CHOOSE g : Defines(g, at, step, n)
            f == [d \in Dir |-> G(Depth[d])[d]]
<1>1. \A n \in Nat : Defines(G(n), at, step, n)
  BY DefinedUpto
<1>. HIDE DEF G
<1>2. ASSUME NEW d \in Dir
      PROVE  f[d] = IF Depth[d] = 0 THEN at[d] ELSE step[<<d, f[Parent[d]]>>]
  <2>1. Depth[d] \in Nat /\ d \in Upto(Depth[d])
    BY Tree DEF Upto
  <2>2. G(Depth[d])[d] = IF Depth[d] = 0 THEN at[d]
                         ELSE step[<<d, G(Depth[d])[Parent[d]]>>]
    BY <1>1, <2>1 DEF Defines
  <2>3. ASSUME Depth[d] # 0
        PROVE  G(Depth[d])[Parent[d]] = G(Depth[Parent[d]])[Parent[d]]
    <3>1. /\ Parent[d] \in Dir /\ Depth[Parent[d]] \in Nat
          /\ Depth[d] = Depth[Parent[d]] + 1
      BY <2>3, Tree
    <3>2. Parent[d] \in Upto(Depth[d]) \cap Upto(Depth[Parent[d]])
      BY <3>1 DEF Upto
    <3>. QED
      BY <1>1, <2>1, <3>1, <3>2, DefinedOnce
  <2>. QED
    BY <2>2, <2>3, Tree
<1>3. f = [d \in Dir |-> f[d]]
  OBVIOUS
<1>. HIDE DEF f
<1>4. DefinesAll(f, at, step)
  BY <1>2, <1>3 DEF DefinesAll
<1>. QED
  BY <1>4

-----------------------------------------------------------------------------
(* The rules of a directory and those it inherits                          *)

\* The first k rules of d, as a sequence.
LEMMA OwnRules ==
  ASSUME NEW d \in Dir, NEW k \in Nat, k <= Adds[d]
  PROVE  /\ Own(d, k) \in Seq(Rule)
         /\ Len(Own(d, k)) = k
         /\ \A i \in 1..k : Own(d, k)[i] = <<d, i>>
<1>1. \A i \in 1..k : <<d, i>> \in Rule
  <2>. SUFFICES ASSUME NEW i \in 1..k PROVE <<d, i>> \in {d} \X (1..Adds[d])
    BY DEF Rule
  <2>. QED
    BY Tree
<1>2. Own(d, k) \in [1..k -> Rule]
  BY <1>1 DEF Own
<1>3. Own(d, k) \in Seq(Rule)
  BY <1>2, SeqDef
<1>4. DOMAIN Own(d, k) = 1..k /\ DOMAIN Own(d, k) = 1..Len(Own(d, k))
  BY <1>2, <1>3, LenProperties
<1>. QED
  BY <1>2, <1>3, <1>4, LenProperties DEF Own

\* The recursive definition of Chain has a solution, so Chain is one.
LEMMA ChainUnfolds ==
  Chain = [d \in Dir |-> IF Depth[d] = 0 THEN Own(d, Adds[d])
                         ELSE Chain[Parent[d]] \o Own(d, Adds[d])]
<1>. DEFINE S == Seq(Rule)
            at == [d \in Dir |-> Own(d, Adds[d])]
            step == [x \in Dir \X S |-> x[2] \o Own(x[1], Adds[x[1]])]
<1>. HIDE DEF at, step
<1>0. PICK f : DefinesAll(f, at, step)
  BY DefinedDown
<1>1. f = [d \in Dir |-> IF Depth[d] = 0 THEN at[d] ELSE step[<<d, f[Parent[d]]>>]]
  BY <1>0 DEF DefinesAll
<1>2. \A d \in Dir : Own(d, Adds[d]) \in S
  BY OwnRules, Tree
<1>3. \A d \in Dir : f[d] \in S
  <2>. DEFINE X == {d \in Dir : f[d] \notin S}
  <2>1. SUFFICES ASSUME X # {} PROVE FALSE
    OBVIOUS
  <2>2. PICK d \in X : \A e \in X : Depth[d] <= Depth[e]
    BY <2>1, Nearest
  <2>3. Depth[d] # 0
    BY <1>1, <1>2, <2>2 DEF at
  <2>4. Parent[d] \in Dir /\ Depth[d] = Depth[Parent[d]] + 1 /\ Depth[Parent[d]] \in Nat
    BY <2>2, <2>3, Tree
  <2>5. f[Parent[d]] \in S
    BY <2>2, <2>4
  <2>6. f[d] = f[Parent[d]] \o Own(d, Adds[d])
    BY <1>1, <2>2, <2>3, <2>4, <2>5 DEF step
  <2>. QED
    BY <1>2, <2>2, <2>5, <2>6, ConcatProperties
<1>4. f = [d \in Dir |-> IF Depth[d] = 0 THEN Own(d, Adds[d])
                         ELSE f[Parent[d]] \o Own(d, Adds[d])]
  BY <1>1, <1>3, Tree DEF at, step
<1>. QED
  BY <1>4 DEF Chain

\* What d inherits, and what it hands on, are sequences of rules.
LEMMA Inherited ==
  /\ \A d \in Dir : Chain[d] = Above(d) \o Own(d, Adds[d])
  /\ \A d \in Dir : Chain[d] \in Seq(Rule) /\ Above(d) \in Seq(Rule)
<1>1. \A d \in Dir : Own(d, Adds[d]) \in Seq(Rule)
  BY OwnRules, Tree
<1>2. \A d \in Dir : Chain[d] = Above(d) \o Own(d, Adds[d])
  BY <1>1, ChainUnfolds, ConcatEmptySeq DEF Above
<1>3. \A d \in Dir : Chain[d] \in Seq(Rule)
  <2>. DEFINE X == {d \in Dir : Chain[d] \notin Seq(Rule)}
  <2>1. SUFFICES ASSUME X # {} PROVE FALSE
    OBVIOUS
  <2>2. PICK d \in X : \A e \in X : Depth[d] <= Depth[e]
    BY <2>1, Nearest
  <2>3. Depth[d] # 0
    BY <1>1, <2>2, ChainUnfolds
  <2>4. Parent[d] \in Dir /\ Depth[d] = Depth[Parent[d]] + 1 /\ Depth[Parent[d]] \in Nat
    BY <2>2, <2>3, Tree
  <2>5. Chain[Parent[d]] \in Seq(Rule)
    BY <2>2, <2>4
  <2>. QED
    BY <1>1, <2>2, <2>3, <2>5, ChainUnfolds, ConcatProperties
<1>4. \A d \in Dir : Above(d) \in Seq(Rule)
  BY <1>3, Tree, EmptySeq DEF Above
<1>. QED
  BY <1>2, <1>3, <1>4

-----------------------------------------------------------------------------
(* Types                                                                   *)

\* The array a rule is named for is there only once the rule has been read.
Fresh ==
  \A e, x \in Dir : \A i \in Nat : slice[e].array = <<x, i>> => i <= added[x]

TypeInv == TypeOK /\ Fresh

Cells == Seq(Rule \cup {Nil})

\* Reading one rule more, d appends the rule after those it has.
NextRule(d) == <<d, added[d] + 1>>

LEMMA NextRuleIsFresh ==
  ASSUME TypeInv, NEW d \in Dir, added[d] < Adds[d]
  PROVE  /\ NextRule(d) \in Rule
         /\ \A e \in Dir : slice[e].array # NextRule(d)
<1>1. added[d] \in Nat /\ Adds[d] \in Nat
  BY Tree DEF TypeInv, TypeOK
<1>2. added[d] + 1 \in 1..Adds[d]
  BY <1>1
<1>3. NextRule(d) \in Rule
  BY <1>2 DEF NextRule, Rule
<1>4. \A e \in Dir : slice[e].array # NextRule(d)
  BY <1>1 DEF TypeInv, Fresh, NextRule
<1>. QED
  BY <1>3, <1>4

\* What every slice is.
LEMMA SliceFacts ==
  ASSUME TypeInv, NEW d \in Dir
  PROVE  /\ slice[d].array \in Array /\ slice[d].len \in Nat
         /\ heap[slice[d].array] \in Cells
         /\ Len(heap[slice[d].array]) \in Nat
         /\ slice[d].len <= Len(heap[slice[d].array])
<1>1. slice[d].array \in Array /\ slice[d].len \in Nat
  BY DEF TypeInv, TypeOK
<1>2. heap[slice[d].array] \in Cells
  BY <1>1 DEF TypeInv, TypeOK, Cells
<1>3. Len(heap[slice[d].array]) \in Nat
  BY <1>2, LenProperties DEF Cells
<1>. QED
  BY <1>1, <1>2, <1>3 DEF TypeInv, TypeOK, Capacity

\* append while the array has room: one cell of d's array is written, past the
\* end of d's list, and d's list is one longer.
LEMMA AppendInPlace ==
  ASSUME TypeInv, NEW d \in Dir, added[d] < Adds[d],
         HasRoom(slice[d]), AppendRule(d, NextRule(d))
  PROVE  /\ heap' \in [Array -> Cells]
         /\ slice' = [slice EXCEPT ![d] = [array |-> slice[d].array, len |-> slice[d].len + 1]]
         /\ \A x \in Array : Len(heap'[x]) = Len(heap[x])
         /\ \A x \in Array \ {slice[d].array} : heap'[x] = heap[x]
         /\ \A i \in 1..Len(heap[slice[d].array]) :
              heap'[slice[d].array][i] = IF i = slice[d].len + 1 THEN NextRule(d)
                                         ELSE heap[slice[d].array][i]
         /\ slice[d].len < Len(heap[slice[d].array])
<1>. DEFINE a == slice[d].array
            k == slice[d].len + 1
            r == NextRule(d)
            h == [heap[a] EXCEPT ![k] = r]
<1>1. a \in Array /\ slice[d].len \in Nat /\ heap[a] \in Cells /\ Len(heap[a]) \in Nat
  BY SliceFacts
<1>2. k \in 1..Len(heap[a]) /\ slice[d].len < Len(heap[a])
  BY <1>1 DEF HasRoom, Capacity
<1>3. r \in Rule \cup {Nil}
  BY NextRuleIsFresh
<1>4. /\ h \in Cells
      /\ Len(h) = Len(heap[a])
      /\ \A j \in 1..Len(heap[a]) : h[j] = IF j = k THEN r ELSE heap[a][j]
  BY <1>1, <1>2, <1>3, ExceptSeq DEF Cells
<1>5. heap' = [heap EXCEPT ![a] = h]
  BY DEF AppendRule
<1>6. slice' = [slice EXCEPT ![d].len = @ + 1]
  BY DEF AppendRule
<1>7. slice' = [slice EXCEPT ![d] = [array |-> a, len |-> k]]
  <2>1. slice \in [Dir -> [array : Array, len : Nat]]
    BY DEF TypeInv, TypeOK
  <2>2. [slice[d] EXCEPT !.len = @ + 1] = [array |-> a, len |-> k]
    BY <2>1
  <2>3. slice' = [slice EXCEPT ![d] = [slice[d] EXCEPT !.len = @ + 1]]
    BY <1>6
  <2>. QED
    BY <2>2, <2>3
<1>8. heap \in [Array -> Cells]
  BY DEF TypeInv, TypeOK, Cells
<1>. HIDE DEF h
<1>9. heap' \in [Array -> Cells] /\ heap'[a] = h /\ \A x \in Array \ {a} : heap'[x] = heap[x]
  BY <1>1, <1>4, <1>5, <1>8
<1>. QED
  BY <1>2, <1>4, <1>7, <1>9

\* append to a full array: the new array starts with d's list and the rule, and
\* nothing else changes.
LEMMA AppendGrown ==
  ASSUME TypeInv, NEW d \in Dir, added[d] < Adds[d],
         ~HasRoom(slice[d]), AppendRule(d, NextRule(d))
  PROVE  /\ heap' \in [Array -> Cells]
         /\ slice' = [slice EXCEPT ![d] = [array |-> NextRule(d), len |-> slice[d].len + 1]]
         /\ \A x \in Array \ {NextRule(d)} : heap'[x] = heap[x]
         /\ slice[d].len = Len(heap[slice[d].array])
         /\ Len(heap'[NextRule(d)]) = Grown(slice[d].len)
         /\ \A i \in 1..slice[d].len : heap'[NextRule(d)][i] = heap[slice[d].array][i]
         /\ heap'[NextRule(d)][slice[d].len + 1] = NextRule(d)
<1>. DEFINE a == slice[d].array
            n == slice[d].len
            r == NextRule(d)
            h == [i \in 1..Grown(n) |-> IF i <= n THEN List(d)[i] ELSE IF i = n + 1 THEN r ELSE Nil]
<1>1. a \in Array /\ n \in Nat /\ heap[a] \in Cells /\ Len(heap[a]) \in Nat /\ n <= Len(heap[a])
  BY SliceFacts
<1>2. n = Len(heap[a])
  BY <1>1 DEF HasRoom, Capacity
<1>3. r \in Rule /\ r \in Array
  BY NextRuleIsFresh DEF Array
<1>4. Grown(n) \in Nat /\ n + 1 <= Grown(n)
  BY <1>1 DEF Grown
<1>5. List(d) = heap[a]
  BY <1>1, <1>2, SubSeqFull DEF List, Cells
<1>6. \A i \in 1..n : List(d)[i] = heap[a][i] /\ heap[a][i] \in Rule \cup {Nil}
  BY <1>1, <1>2, <1>5, ElementOfSeq DEF Cells
<1>7. h \in [1..Grown(n) -> Rule \cup {Nil}]
  BY <1>1, <1>3, <1>4, <1>6
<1>8. h \in Cells
  BY <1>4, <1>7, SeqDef DEF Cells
<1>9. Len(h) = Grown(n)
  <2>1. DOMAIN h = 1..Grown(n) /\ DOMAIN h = 1..Len(h) /\ Len(h) \in Nat
    BY <1>7, <1>8, LenProperties DEF Cells
  <2>. QED
    BY <1>4, <2>1
<1>10. (\A i \in 1..n : h[i] = heap[a][i]) /\ h[n + 1] = r
  BY <1>1, <1>4, <1>6
<1>11. /\ heap' = [heap EXCEPT ![r] = h]
       /\ slice' = [slice EXCEPT ![d] = [array |-> r, len |-> n + 1]]
  BY <1>2 DEF AppendRule, Capacity
<1>12. heap \in [Array -> Cells]
  BY DEF TypeInv, TypeOK, Cells
<1>. HIDE DEF h
<1>13. heap' \in [Array -> Cells] /\ heap'[r] = h /\ \A x \in Array \ {r} : heap'[x] = heap[x]
  BY <1>3, <1>8, <1>11, <1>12
<1>. QED
  BY <1>2, <1>9, <1>10, <1>11, <1>13

\* A step of the walk that appends nothing.
LEMMA WalkType ==
  ASSUME TypeInv, NEW d \in Dir, LoadDone(d) \/ Descend(d) \/ Skip(d) \/ Leave(d)
  PROVE  TypeInv'
<1>. USE DEF TypeInv, TypeOK, Fresh, Capacity
<1>1. CASE LoadDone(d)
  BY <1>1 DEF LoadDone, Subdirs
<1>2. CASE Descend(d)
  <2>1. PICK c \in todo[d] :
          /\ todo' = [todo EXCEPT ![d] = @ \ {c}]
          /\ pc' = [pc EXCEPT ![c] = "load", ![d] = IF Concurrent(d) THEN "match" ELSE "call"]
          /\ slice' = [slice EXCEPT ![c] = slice[d]]
    BY <1>2 DEF Descend
  <2>2. c \in Dir
    BY <2>1
  <2>3. UNCHANGED <<added, heap>>
    BY <1>2 DEF Descend
  <2>. QED
    BY <2>1, <2>2, <2>3
<1>3. CASE Skip(d)
  <2>1. PICK c \in todo[d] : todo' = [todo EXCEPT ![d] = @ \ {c}]
    BY <1>3 DEF Skip
  <2>. QED
    BY <1>3, <2>1 DEF Skip
<1>4. CASE Leave(d)
  BY <1>4, Tree DEF Leave
<1>. QED
  BY <1>1, <1>2, <1>3, <1>4

LEMMA LoadType ==
  ASSUME TypeInv, NEW d \in Dir, Load(d)
  PROVE  TypeInv'
<1>1. /\ added[d] < Adds[d] /\ AppendRule(d, NextRule(d))
      /\ added' = [added EXCEPT ![d] = @ + 1] /\ UNCHANGED <<pc, todo>>
  BY DEF Load, NextRule
<1>2. added \in [Dir -> Nat] /\ \A e \in Dir : added[e] <= Adds[e]
  BY DEF TypeInv, TypeOK
<1>3. added' \in [Dir -> Nat] /\ \A e \in Dir : added'[e] <= Adds[e] /\ added[e] <= added'[e]
  BY <1>1, <1>2, Tree
<1>4. slice \in [Dir -> [array : Array, len : Nat]]
  BY DEF TypeInv, TypeOK
<1>5. \A e \in Dir : /\ slice[e].array \in Array /\ slice[e].len \in Nat
                     /\ Len(heap[slice[e].array]) \in Nat
                     /\ slice[e].len <= Len(heap[slice[e].array])
  BY SliceFacts
<1>6. CASE HasRoom(slice[d])
  <2>1. /\ heap' \in [Array -> Cells]
        /\ slice' = [slice EXCEPT ![d] = [array |-> slice[d].array, len |-> slice[d].len + 1]]
        /\ \A x \in Array : Len(heap'[x]) = Len(heap[x])
        /\ slice[d].len < Len(heap[slice[d].array])
    BY <1>1, <1>6, AppendInPlace
  <2>2. slice' \in [Dir -> [array : Array, len : Nat]]
    BY <1>4, <1>5, <2>1
  <2>3. \A e \in Dir : slice'[e].len <= Len(heap'[slice'[e].array])
    BY <1>4, <1>5, <2>1
  <2>4. \A e \in Dir : slice'[e].array = slice[e].array
    BY <1>4, <2>1
  <2>5. Fresh'
    <3>. SUFFICES ASSUME NEW e \in Dir, NEW x \in Dir, NEW i \in Nat, slice'[e].array = <<x, i>>
                  PROVE  i <= added'[x]
      BY DEF Fresh
    <3>1. i <= added[x]
      BY <2>4 DEF TypeInv, Fresh
    <3>. QED
      BY <1>2, <1>3, <3>1
  <2>. QED
    BY <1>1, <1>3, <2>1, <2>2, <2>3, <2>5 DEF TypeInv, TypeOK, Capacity, Cells
<1>7. CASE ~HasRoom(slice[d])
  <2>1. /\ heap' \in [Array -> Cells]
        /\ slice' = [slice EXCEPT ![d] = [array |-> NextRule(d), len |-> slice[d].len + 1]]
        /\ \A x \in Array \ {NextRule(d)} : heap'[x] = heap[x]
        /\ Len(heap'[NextRule(d)]) = Grown(slice[d].len)
    BY <1>1, <1>7, AppendGrown
  <2>2. NextRule(d) \in Array /\ \A e \in Dir : slice[e].array # NextRule(d)
    BY <1>1, NextRuleIsFresh DEF Array
  <2>3. slice' \in [Dir -> [array : Array, len : Nat]]
    BY <1>4, <1>5, <2>1, <2>2
  <2>4. \A e \in Dir : slice'[e].len <= Len(heap'[slice'[e].array])
    <3>. SUFFICES ASSUME NEW e \in Dir PROVE slice'[e].len <= Len(heap'[slice'[e].array])
      OBVIOUS
    <3>1. CASE e = d
      <4>1. slice'[e].array = NextRule(d) /\ slice'[e].len = slice[d].len + 1
        BY <1>4, <2>1, <3>1
      <4>2. slice[d].len + 1 <= Grown(slice[d].len)
        BY <1>5 DEF Grown
      <4>. QED
        BY <2>1, <4>1, <4>2
    <3>2. CASE e # d
      BY <1>4, <1>5, <2>1, <2>2, <3>2
    <3>. QED
      BY <3>1, <3>2
  <2>5. Fresh'
    <3>. SUFFICES ASSUME NEW e \in Dir, NEW x \in Dir, NEW i \in Nat, slice'[e].array = <<x, i>>
                  PROVE  i <= added'[x]
      BY DEF Fresh
    <3>1. CASE e = d
      <4>1. <<x, i>> = NextRule(d)
        BY <1>4, <2>1, <3>1
      <4>2. x = d /\ i = added[d] + 1
        BY <4>1 DEF NextRule
      <4>. QED
        BY <1>1, <1>2, <4>2
    <3>2. CASE e # d
      <4>1. slice[e].array = <<x, i>>
        BY <1>4, <2>1, <3>2
      <4>2. i <= added[x]
        BY <4>1 DEF TypeInv, Fresh
      <4>. QED
        BY <1>2, <1>3, <4>2
    <3>. QED
      BY <3>1, <3>2
  <2>. QED
    BY <1>1, <1>3, <2>1, <2>3, <2>4, <2>5 DEF TypeInv, TypeOK, Capacity, Cells
<1>. QED
  BY <1>6, <1>7

LEMMA TypeStep == TypeInv /\ [Next]_vars => TypeInv'
<1>. SUFFICES ASSUME TypeInv, [Next]_vars PROVE TypeInv'
  OBVIOUS
<1>1. ASSUME NEW d \in Dir, Step(d) PROVE TypeInv'
  BY <1>1, LoadType, WalkType DEF Step
<1>2. CASE UNCHANGED vars
  BY <1>2 DEF vars, TypeInv, TypeOK, Fresh, Capacity
<1>. QED
  BY <1>1, <1>2 DEF Next, Finished

LEMMA TypeInit == Init => TypeInv
<1>. SUFFICES ASSUME Init PROVE TypeInv
  OBVIOUS
<1>1. Nil \in Array /\ Nil \in Seq(Rule \cup {Nil}) /\ Len(Nil) = 0
  BY EmptySeq DEF Nil, Array
<1>2. \A x, i : Nil # <<x, i>>
  BY DEF Nil
<1>3. TypeOK
  BY <1>1, Tree DEF Init, TypeOK, Capacity, Nil
<1>. QED
  BY <1>2, <1>3 DEF TypeInv, Fresh, Init

-----------------------------------------------------------------------------
(* Who shares an array with whom                                           *)

\* The goroutine an activation runs in, named for the directory of depth 1 it was
\* started for; a root runs in one of its own.
Gor[d \in Dir] == IF Depth[d] <= 1 THEN d ELSE Gor[Parent[d]]

LEMMA GorUnfolds ==
  Gor = [d \in Dir |-> IF Depth[d] <= 1 THEN d ELSE Gor[Parent[d]]]
<1>. DEFINE at == [d \in Dir |-> d]
            step == [x \in Dir \X Dir |-> IF Depth[x[1]] <= 1 THEN x[1] ELSE x[2]]
<1>. HIDE DEF at, step
<1>1. PICK f : DefinesAll(f, at, step)
  BY DefinedDown
<1>2. f = [d \in Dir |-> IF Depth[d] = 0 THEN at[d] ELSE step[<<d, f[Parent[d]]>>]]
  BY <1>1 DEF DefinesAll
<1>3. \A d \in Dir : f[d] \in Dir
  <2>. DEFINE X == {d \in Dir : f[d] \notin Dir}
  <2>1. SUFFICES ASSUME X # {} PROVE FALSE
    OBVIOUS
  <2>2. PICK d \in X : \A e \in X : Depth[d] <= Depth[e]
    BY <2>1, Nearest
  <2>3. Depth[d] # 0
    BY <1>2, <2>2 DEF at
  <2>4. Parent[d] \in Dir /\ Depth[d] = Depth[Parent[d]] + 1 /\ Depth[Parent[d]] \in Nat
    BY <2>2, <2>3, Tree
  <2>5. f[Parent[d]] \in Dir
    BY <2>2, <2>4
  <2>6. f[d] = step[<<d, f[Parent[d]]>>]
    BY <1>2, <2>2, <2>3
  <2>. QED
    BY <2>2, <2>4, <2>5, <2>6 DEF step
<1>4. ASSUME NEW d \in Dir
      PROVE  f[d] = IF Depth[d] <= 1 THEN d ELSE f[Parent[d]]
  <2>1. CASE Depth[d] = 0
    BY <1>2, <2>1 DEF at
  <2>2. CASE Depth[d] # 0
    <3>1. f[d] = step[<<d, f[Parent[d]]>>]
      BY <1>2, <2>2
    <3>2. f[Parent[d]] \in Dir
      BY <1>3, Tree
    <3>. QED
      BY <3>1, <3>2 DEF step
  <2>. QED
    BY <2>1, <2>2
<1>5. f = [d \in Dir |-> f[d]]
  BY <1>2
<1>6. f = [d \in Dir |-> IF Depth[d] <= 1 THEN d ELSE f[Parent[d]]]
  BY <1>4, <1>5
<1>. QED
  BY <1>6 DEF Gor

\* A call stays in the goroutine of its caller; below a root each has its own.
LEMMA GorFacts ==
  /\ \A d \in Dir : Depth[d] <= 1 => Gor[d] = d
  /\ \A d \in Dir : ~(Depth[d] <= 1) => Gor[d] = Gor[Parent[d]]
  /\ \A d \in Dir : Gor[d] \in Dir /\ (Depth[Gor[d]] = 0 => Depth[d] = 0)
<1>1. \A d \in Dir : Gor[d] = IF Depth[d] <= 1 THEN d ELSE Gor[Parent[d]]
  BY GorUnfolds
<1>2. \A d \in Dir : Gor[d] \in Dir /\ (Depth[Gor[d]] = 0 => Depth[d] = 0)
  <2>. DEFINE X == {d \in Dir : ~(Gor[d] \in Dir /\ (Depth[Gor[d]] = 0 => Depth[d] = 0))}
  <2>1. SUFFICES ASSUME X # {} PROVE FALSE
    OBVIOUS
  <2>2. PICK d \in X : \A e \in X : Depth[d] <= Depth[e]
    BY <2>1, Nearest
  <2>3. ~(Depth[d] <= 1)
    BY <1>1, <2>2
  <2>4. Parent[d] \in Dir /\ Depth[d] = Depth[Parent[d]] + 1 /\ Depth[Parent[d]] \in Nat
    BY <2>2, <2>3, Tree
  <2>. QED
    BY <1>1, <2>2, <2>3, <2>4
<1>. QED
  BY <1>1, <1>2

\* gitignores and ignores: a root's files hold at most two rules.
RootAdds == \A d \in Dir : Depth[d] = 0 => Adds[d] <= 2

\* A directory is called once, by its parent, and in a goroutine that has begun.
CalledOnce ==
  /\ \A d \in Dir : pc[d] \in {"idle", "load"} => \A c \in Subdirs(d) : pc[c] = "idle"
  /\ \A d \in Dir : \A c \in todo[d] : c \in Subdirs(d) /\ pc[c] = "idle"
  /\ \A d \in Dir : pc[d] # "idle" => pc[Gor[d]] # "idle"

\* The activations of one goroutine are a chain of calls of which the deepest runs,
\* and where two of them share an array the deeper one has the longer list.
OneChain ==
  \A d, e \in Dir : Live(d) /\ Live(e) /\ Gor[d] = Gor[e] =>
    /\ Depth[d] = Depth[e] => d = e
    /\ pc[d] \in {"load", "match"} => Depth[e] <= Depth[d]
    /\ Depth[d] <= Depth[e] /\ slice[d].array = slice[e].array => slice[d].len <= slice[e].len

\* An array that two goroutines share has no room.
SharedIsFull ==
  \A d, e \in Dir : Live(d) /\ Live(e) /\ Gor[d] # Gor[e] /\ slice[d].array = slice[e].array =>
    slice[d].len = Len(heap[slice[d].array])

\* A root's array has no room: it holds zero, one or two rules in as many cells.
RootIsFull ==
  \A d \in Dir : Depth[d] = 0 => slice[d].len = added[d] /\ Len(heap[slice[d].array]) = added[d]

\* An activation matches after it has read all its rules.
Counted ==
  \A d \in Dir : /\ pc[d] = "idle" => added[d] = 0
                 /\ pc[d] \in {"match", "call"} => added[d] = Adds[d]

\* The list d should hold once it has read k rules of its own.
Due(d, k) == Above(d) \o Own(d, k)

\* The cells of d's list hold them.
Holds(d) ==
  /\ slice[d].len = Len(Due(d, added[d]))
  /\ \A i \in 1..slice[d].len : heap[slice[d].array][i] = Due(d, added[d])[i]

Lists == \A d \in Dir : Live(d) => Holds(d)

StackInv == TypeInv /\ CalledOnce /\ OneChain /\ SharedIsFull /\ RootIsFull /\ Counted /\ Lists

LEMMA DueCells ==
  ASSUME NEW d \in Dir, NEW k \in Nat, k <= Adds[d]
  PROVE  /\ Due(d, k) \in Seq(Rule)
         /\ Len(Above(d)) \in Nat
         /\ Len(Due(d, k)) = Len(Above(d)) + k
         /\ \A i \in 1..(Len(Above(d)) + k) :
              Due(d, k)[i] = IF i <= Len(Above(d)) THEN Above(d)[i] ELSE <<d, i - Len(Above(d))>>
<1>1. Above(d) \in Seq(Rule)
  BY Inherited
<1>2. Own(d, k) \in Seq(Rule) /\ Len(Own(d, k)) = k /\ \A i \in 1..k : Own(d, k)[i] = <<d, i>>
  BY OwnRules
<1>3. Len(Above(d)) \in Nat
  BY <1>1, LenProperties
<1>4. /\ Due(d, k) \in Seq(Rule)
      /\ Len(Due(d, k)) = Len(Above(d)) + k
      /\ \A i \in 1..(Len(Above(d)) + k) :
           Due(d, k)[i] = IF i <= Len(Above(d)) THEN Above(d)[i] ELSE Own(d, k)[i - Len(Above(d))]
  BY <1>1, <1>2, ConcatProperties DEF Due
<1>5. \A i \in 1..(Len(Above(d)) + k) : i <= Len(Above(d)) \/ i - Len(Above(d)) \in 1..k
  BY <1>3
<1>. QED
  BY <1>2, <1>3, <1>4, <1>5

\* One rule more.
LEMMA DueNext ==
  ASSUME NEW d \in Dir, NEW k \in Nat, k + 1 <= Adds[d]
  PROVE  /\ Len(Due(d, k)) \in Nat
         /\ Len(Due(d, k + 1)) = Len(Due(d, k)) + 1
         /\ \A i \in 1..Len(Due(d, k)) : Due(d, k + 1)[i] = Due(d, k)[i]
         /\ Due(d, k + 1)[Len(Due(d, k)) + 1] = <<d, k + 1>>
<1>1. Adds[d] \in Nat /\ k <= Adds[d] /\ k + 1 \in Nat
  BY Tree
<1>. DEFINE n == Len(Above(d))
<1>2. n \in Nat /\ Len(Due(d, k)) = n + k /\ Len(Due(d, k + 1)) = n + k + 1
  BY <1>1, DueCells
<1>3. \A i \in 1..(n + k) : Due(d, k + 1)[i] = Due(d, k)[i]
  <2>1. \A i \in 1..(n + k) : Due(d, k)[i] = IF i <= n THEN Above(d)[i] ELSE <<d, i - n>>
    BY <1>1, DueCells
  <2>2. \A i \in 1..(n + (k + 1)) : Due(d, k + 1)[i] = IF i <= n THEN Above(d)[i] ELSE <<d, i - n>>
    BY <1>1, DueCells
  <2>3. \A i \in 1..(n + k) : i \in 1..(n + (k + 1))
    BY <1>2
  <2>. QED
    BY <2>1, <2>2, <2>3
<1>4. Due(d, k + 1)[n + k + 1] = <<d, k + 1>>
  <2>1. \A i \in 1..(n + (k + 1)) : Due(d, k + 1)[i] = IF i <= n THEN Above(d)[i] ELSE <<d, i - n>>
    BY <1>1, DueCells
  <2>2. n + k + 1 \in 1..(n + (k + 1)) /\ ~(n + k + 1 <= n) /\ (n + k + 1) - n = k + 1
    BY <1>2
  <2>. QED
    BY <2>1, <2>2
<1>. QED
  BY <1>2, <1>3, <1>4

\* What a child is handed is what it should start with.
LEMMA DueHanded ==
  ASSUME NEW d \in Dir, NEW c \in Subdirs(d)
  PROVE  Due(c, 0) = Due(d, Adds[d])
<1>1. c \in Dir /\ Parent[c] = d /\ Depth[c] # 0
  BY Tree DEF Subdirs
<1>2. Above(c) = Due(d, Adds[d])
  BY <1>1, Inherited DEF Above, Due
<1>3. Own(c, 0) = <<>>
  <2>1. Own(c, 0) \in Seq(Rule) /\ Len(Own(c, 0)) = 0
    BY <1>1, OwnRules, Tree
  <2>. QED
    BY <2>1, EmptySeq
<1>4. Above(c) \in Seq(Rule)
  BY <1>1, Inherited
<1>. QED
  BY <1>2, <1>3, <1>4, ConcatEmptySeq DEF Due

-----------------------------------------------------------------------------
(* Reading a rule                                                          *)

\* What an append means to the other activations that are live: their arrays keep
\* their length, and the cells of their lists their rules.
LEMMA LoadOthers ==
  ASSUME StackInv, RootAdds, NEW d \in Dir, Load(d), NEW e \in Dir, e # d
  PROVE  /\ slice'[e] = slice[e]
         /\ Len(heap'[slice[e].array]) = Len(heap[slice[e].array])
         /\ Live(e) => \A i \in 1..slice[e].len : heap'[slice[e].array][i] = heap[slice[e].array][i]
<1>1. added[d] < Adds[d] /\ AppendRule(d, NextRule(d))
  BY DEF Load, NextRule
<1>2. TypeInv /\ slice \in [Dir -> [array : Array, len : Nat]]
  BY DEF StackInv, TypeInv, TypeOK
<1>3. /\ slice[e].array \in Array /\ slice[e].len \in Nat /\ slice[d].len \in Nat
      /\ Len(heap[slice[e].array]) \in Nat /\ slice[e].len <= Len(heap[slice[e].array])
      /\ Len(heap[slice[d].array]) \in Nat
  BY <1>2, SliceFacts
<1>4. CASE HasRoom(slice[d])
  <2>1. /\ slice' = [slice EXCEPT ![d] = [array |-> slice[d].array, len |-> slice[d].len + 1]]
        /\ \A x \in Array : Len(heap'[x]) = Len(heap[x])
        /\ \A x \in Array \ {slice[d].array} : heap'[x] = heap[x]
        /\ \A i \in 1..Len(heap[slice[d].array]) :
             heap'[slice[d].array][i] = IF i = slice[d].len + 1 THEN NextRule(d)
                                        ELSE heap[slice[d].array][i]
        /\ slice[d].len < Len(heap[slice[d].array])
    BY <1>1, <1>2, <1>4, AppendInPlace
  <2>2. ASSUME Live(e), slice[e].array = slice[d].array
        PROVE  slice[e].len <= slice[d].len
    <3>1. Live(d) /\ pc[d] \in {"load", "match"}
      BY DEF Load, Live
    <3>2. Gor[d] = Gor[e]
      BY <2>1, <2>2, <3>1, <1>3 DEF StackInv, SharedIsFull
    <3>3. Depth[e] <= Depth[d]
      BY <2>2, <3>1, <3>2 DEF StackInv, OneChain
    <3>. QED
      BY <2>2, <3>1, <3>2, <3>3 DEF StackInv, OneChain
  <2>3. ASSUME Live(e), NEW i \in 1..slice[e].len
        PROVE  heap'[slice[e].array][i] = heap[slice[e].array][i]
    <3>1. CASE slice[e].array = slice[d].array
      BY <1>3, <2>1, <2>2, <2>3, <3>1
    <3>2. CASE slice[e].array # slice[d].array
      BY <1>3, <2>1, <3>2
    <3>. QED
      BY <3>1, <3>2
  <2>. QED
    BY <1>2, <1>3, <2>1, <2>3
<1>5. CASE ~HasRoom(slice[d])
  <2>1. /\ slice' = [slice EXCEPT ![d] = [array |-> NextRule(d), len |-> slice[d].len + 1]]
        /\ \A x \in Array \ {NextRule(d)} : heap'[x] = heap[x]
    BY <1>1, <1>2, <1>5, AppendGrown
  <2>2. slice[e].array # NextRule(d)
    BY <1>1, <1>2, NextRuleIsFresh
  <2>. QED
    BY <1>2, <1>3, <2>1, <2>2
<1>. QED
  BY <1>4, <1>5

\* What it means to d: a list one longer that ends in the rule, and in a root an
\* array that is full again.
LEMMA LoadOwn ==
  ASSUME StackInv, RootAdds, NEW d \in Dir, Load(d)
  PROVE  /\ slice'[d].len = slice[d].len + 1
         /\ \A i \in 1..slice[d].len : heap'[slice'[d].array][i] = heap[slice[d].array][i]
         /\ heap'[slice'[d].array][slice[d].len + 1] = NextRule(d)
         /\ Depth[d] = 0 => Len(heap'[slice'[d].array]) = added[d] + 1
         /\ \A e \in Dir : Live(e) /\ e # d /\ slice'[d].array = slice[e].array =>
              slice'[d].array = slice[d].array /\ slice[d].len < Len(heap[slice[d].array])
<1>1. added[d] < Adds[d] /\ AppendRule(d, NextRule(d))
  BY DEF Load, NextRule
<1>2. TypeInv /\ slice \in [Dir -> [array : Array, len : Nat]]
  BY DEF StackInv, TypeInv, TypeOK
<1>3. /\ slice[d].array \in Array /\ slice[d].len \in Nat
      /\ Len(heap[slice[d].array]) \in Nat /\ slice[d].len <= Len(heap[slice[d].array])
      /\ added[d] \in Nat /\ Adds[d] \in Nat
  BY <1>2, SliceFacts, Tree DEF TypeInv, TypeOK
<1>4. CASE HasRoom(slice[d])
  <2>1. /\ slice' = [slice EXCEPT ![d] = [array |-> slice[d].array, len |-> slice[d].len + 1]]
        /\ \A i \in 1..Len(heap[slice[d].array]) :
             heap'[slice[d].array][i] = IF i = slice[d].len + 1 THEN NextRule(d)
                                        ELSE heap[slice[d].array][i]
        /\ slice[d].len < Len(heap[slice[d].array])
    BY <1>1, <1>2, <1>4, AppendInPlace
  <2>2. slice'[d].array = slice[d].array /\ slice'[d].len = slice[d].len + 1
    BY <1>2, <2>1
  <2>3. Depth[d] # 0
    BY <1>3, <2>1 DEF StackInv, RootIsFull
  <2>. QED
    BY <1>3, <2>1, <2>2, <2>3
<1>5. CASE ~HasRoom(slice[d])
  <2>1. /\ slice' = [slice EXCEPT ![d] = [array |-> NextRule(d), len |-> slice[d].len + 1]]
        /\ Len(heap'[NextRule(d)]) = Grown(slice[d].len)
        /\ \A i \in 1..slice[d].len : heap'[NextRule(d)][i] = heap[slice[d].array][i]
        /\ heap'[NextRule(d)][slice[d].len + 1] = NextRule(d)
    BY <1>1, <1>2, <1>5, AppendGrown
  <2>2. slice'[d].array = NextRule(d) /\ slice'[d].len = slice[d].len + 1
    BY <1>2, <2>1
  <2>3. \A e \in Dir : slice[e].array # NextRule(d)
    BY <1>1, <1>2, NextRuleIsFresh
  <2>4. ASSUME Depth[d] = 0
        PROVE  Grown(slice[d].len) = added[d] + 1
    <3>1. slice[d].len = added[d] /\ Adds[d] <= 2
      BY <2>4 DEF StackInv, RootIsFull, RootAdds
    <3>. QED
      BY <1>1, <1>3, <3>1 DEF Grown
  <2>. QED
    BY <2>1, <2>2, <2>3, <2>4
<1>. QED
  BY <1>4, <1>5

LEMMA LoadStep ==
  ASSUME StackInv, RootAdds, NEW d \in Dir, Load(d)
  PROVE  StackInv'
<1>1. TypeInv'
  BY LoadType DEF StackInv
<1>2. /\ pc[d] = "load" /\ added[d] < Adds[d] /\ pc' = pc /\ todo' = todo
      /\ added' = [added EXCEPT ![d] = @ + 1]
  BY DEF Load
<1>3. /\ added \in [Dir -> Nat]
      /\ \A e \in Dir : slice[e].len \in Nat /\ Len(heap[slice[e].array]) \in Nat
      /\ \A e \in Dir : slice[e].len <= Len(heap[slice[e].array])
  BY SliceFacts DEF StackInv, TypeInv, TypeOK
<1>4. \A e \in Dir : Live(e)' <=> Live(e)
  BY <1>2 DEF Live
<1>5. Live(d)
  BY <1>2 DEF Live
<1>6. CalledOnce'
  BY <1>2 DEF StackInv, CalledOnce, Subdirs
<1>7. Counted'
  BY <1>2, <1>3 DEF StackInv, Counted
<1>8. OneChain'
  <2>. SUFFICES ASSUME NEW e \in Dir, NEW f \in Dir, Live(e), Live(f), Gor[e] = Gor[f]
                PROVE  /\ Depth[e] = Depth[f] => e = f
                       /\ pc[e] \in {"load", "match"} => Depth[f] <= Depth[e]
                       /\ Depth[e] <= Depth[f] /\ slice'[e].array = slice'[f].array =>
                            slice'[e].len <= slice'[f].len
    BY <1>2, <1>4 DEF OneChain
  <2>1. /\ Depth[e] = Depth[f] => e = f
        /\ pc[e] \in {"load", "match"} => Depth[f] <= Depth[e]
        /\ Depth[e] <= Depth[f] /\ slice[e].array = slice[f].array => slice[e].len <= slice[f].len
    BY DEF StackInv, OneChain
  <2>2. CASE e # d /\ f # d
    BY <2>1, <2>2, LoadOthers
  <2>3. CASE e = d /\ f # d
    <3>1. Depth[f] <= Depth[d] /\ (Depth[d] = Depth[f] => f = d)
      BY <1>2, <2>1, <2>3
    <3>2. ~(Depth[d] <= Depth[f])
      BY <2>3, <3>1, Tree
    <3>. QED
      BY <2>1, <2>3, <3>2
  <2>4. CASE e # d /\ f = d
    <3>1. slice'[e] = slice[e] /\ slice'[d].len = slice[d].len + 1
      BY <2>4, LoadOthers, LoadOwn
    <3>2. slice'[e].array = slice'[d].array => slice'[d].array = slice[d].array
      BY <2>4, <3>1, LoadOwn
    <3>. QED
      BY <1>3, <2>1, <2>4, <3>1, <3>2
  <2>5. CASE e = d /\ f = d
    <3>1. slice'[d].len = slice[d].len + 1
      BY LoadOwn
    <3>. QED
      BY <1>3, <2>1, <2>5, <3>1
  <2>. QED
    BY <2>2, <2>3, <2>4, <2>5
<1>9. SharedIsFull'
  <2>. SUFFICES ASSUME NEW e \in Dir, NEW f \in Dir, Live(e), Live(f), Gor[e] # Gor[f],
                       slice'[e].array = slice'[f].array
                PROVE  slice'[e].len = Len(heap'[slice'[e].array])
    BY <1>4 DEF SharedIsFull
  <2>1. \A x \in Dir : Live(x) /\ Gor[x] # Gor[d] => slice'[d].array # slice'[x].array
    <3>. SUFFICES ASSUME NEW x \in Dir, Live(x), Gor[x] # Gor[d], slice'[d].array = slice'[x].array
                  PROVE  FALSE
      OBVIOUS
    <3>1. slice'[x] = slice[x]
      BY LoadOthers
    <3>2. slice[d].array = slice[x].array /\ slice[d].len < Len(heap[slice[d].array])
      BY <3>1, LoadOwn
    <3>3. slice[d].len = Len(heap[slice[d].array])
      BY <1>5, <3>2 DEF StackInv, SharedIsFull
    <3>. QED
      BY <1>3, <3>2, <3>3
  <2>2. e # d /\ f # d
    BY <2>1
  <2>. QED
    BY <2>2, LoadOthers DEF StackInv, SharedIsFull
<1>10. RootIsFull'
  <2>. SUFFICES ASSUME NEW e \in Dir, Depth[e] = 0
                PROVE  slice'[e].len = added'[e] /\ Len(heap'[slice'[e].array]) = added'[e]
    BY DEF RootIsFull
  <2>1. slice[e].len = added[e] /\ Len(heap[slice[e].array]) = added[e]
    BY DEF StackInv, RootIsFull
  <2>2. CASE e = d
    BY <1>2, <1>3, <2>1, <2>2, LoadOwn
  <2>3. CASE e # d
    BY <1>2, <1>3, <2>1, <2>3, LoadOthers
  <2>. QED
    BY <2>2, <2>3
<1>11. Lists'
  <2>. SUFFICES ASSUME NEW e \in Dir, Live(e)
                PROVE  /\ slice'[e].len = Len(Due(e, added'[e]))
                       /\ \A i \in 1..slice'[e].len :
                            heap'[slice'[e].array][i] = Due(e, added'[e])[i]
    BY <1>4 DEF Lists, Holds, Due, Above, Own
  <2>1. /\ slice[e].len = Len(Due(e, added[e]))
        /\ \A i \in 1..slice[e].len : heap[slice[e].array][i] = Due(e, added[e])[i]
    BY DEF StackInv, Lists, Holds
  <2>2. CASE e # d
    <3>1. added'[e] = added[e]
      BY <1>2, <1>3, <2>2
    <3>2. slice'[e] = slice[e] /\
          \A i \in 1..slice[e].len : heap'[slice[e].array][i] = heap[slice[e].array][i]
      BY <2>2, LoadOthers
    <3>. QED
      BY <2>1, <3>1, <3>2
  <2>3. CASE e = d
    <3>1. added'[d] = added[d] + 1 /\ added[d] \in Nat /\ added[d] + 1 <= Adds[d]
      BY <1>2, <1>3, Tree
    <3>2. /\ Len(Due(d, added[d] + 1)) = Len(Due(d, added[d])) + 1
          /\ \A i \in 1..Len(Due(d, added[d])) : Due(d, added[d] + 1)[i] = Due(d, added[d])[i]
          /\ Due(d, added[d] + 1)[Len(Due(d, added[d])) + 1] = NextRule(d)
      BY <3>1, DueNext DEF NextRule
    <3>3. /\ slice'[d].len = slice[d].len + 1
          /\ \A i \in 1..slice[d].len : heap'[slice'[d].array][i] = heap[slice[d].array][i]
          /\ heap'[slice'[d].array][slice[d].len + 1] = NextRule(d)
      BY LoadOwn
    <3>4. \A i \in 1..(slice[d].len + 1) : i \in 1..slice[d].len \/ i = slice[d].len + 1
      BY <1>3
    <3>. QED
      BY <2>1, <2>3, <3>1, <3>2, <3>3, <3>4
  <2>. QED
    BY <2>2, <2>3
<1>. QED
  BY <1>1, <1>6, <1>7, <1>8, <1>9, <1>10, <1>11 DEF StackInv

-----------------------------------------------------------------------------
(* The walk                                                                *)

LEMMA LoadDoneStep ==
  ASSUME StackInv, NEW d \in Dir, LoadDone(d)
  PROVE  StackInv'
<1>1. TypeInv'
  BY WalkType DEF StackInv
<1>2. /\ pc[d] = "load" /\ added[d] = Adds[d] /\ pc' = [pc EXCEPT ![d] = "match"]
      /\ todo' = [todo EXCEPT ![d] = Subdirs(d)] /\ added' = added /\ slice' = slice /\ heap' = heap
  BY DEF LoadDone
<1>3. pc \in [Dir -> {"idle", "load", "match", "call", "done"}] /\ todo \in [Dir -> SUBSET Dir]
  BY DEF StackInv, TypeInv, TypeOK
<1>4. \A e \in Dir : Live(e)' <=> Live(e)
  BY <1>2, <1>3 DEF Live
<1>5. \A e \in Dir : /\ pc'[e] \in {"load", "match"} <=> pc[e] \in {"load", "match"}
                     /\ pc'[e] = "idle" <=> pc[e] = "idle"
                     /\ pc'[e] = "load" => pc[e] = "load"
                     /\ pc'[e] = "call" <=> pc[e] = "call"
                     /\ e # d => pc'[e] = pc[e] /\ todo'[e] = todo[e]
  BY <1>2, <1>3
<1>6. CalledOnce'
  <2>1. \A e \in Dir : Subdirs(e) \subseteq Dir
    BY DEF Subdirs
  <2>2. \A e \in Dir : pc'[e] \in {"idle", "load"} => \A c \in Subdirs(e) : pc'[c] = "idle"
    BY <1>5, <2>1 DEF StackInv, CalledOnce
  <2>3. \A e \in Dir : \A c \in todo'[e] : c \in Subdirs(e) /\ pc'[c] = "idle"
    BY <1>2, <1>3, <1>5, <2>1 DEF StackInv, CalledOnce
  <2>4. \A e \in Dir : pc'[e] # "idle" => pc'[Gor[e]] # "idle"
    BY <1>5, GorFacts DEF StackInv, CalledOnce
  <2>. QED
    BY <2>2, <2>3, <2>4 DEF CalledOnce, Subdirs
<1>7. OneChain'
  BY <1>2, <1>4, <1>5 DEF StackInv, OneChain
<1>8. SharedIsFull' /\ RootIsFull'
  BY <1>2, <1>4 DEF StackInv, SharedIsFull, RootIsFull
<1>9. Counted'
  BY <1>2, <1>5, <1>3 DEF StackInv, Counted
<1>10. Lists'
  BY <1>2, <1>4 DEF StackInv, Lists, Holds, Due, Above, Own
<1>. QED
  BY <1>1, <1>6, <1>7, <1>8, <1>9, <1>10 DEF StackInv

LEMMA SkipStep ==
  ASSUME StackInv, NEW d \in Dir, Skip(d)
  PROVE  StackInv'
<1>1. TypeInv'
  BY WalkType DEF StackInv
<1>2. /\ pc' = pc /\ added' = added /\ slice' = slice /\ heap' = heap
      /\ \A e \in Dir : todo'[e] \subseteq todo[e]
  BY DEF Skip, StackInv, TypeInv, TypeOK
<1>3. \A e \in Dir : Live(e)' <=> Live(e)
  BY <1>2 DEF Live
<1>4. CalledOnce'
  BY <1>2 DEF StackInv, CalledOnce, Subdirs
<1>5. OneChain' /\ SharedIsFull' /\ RootIsFull' /\ Counted'
  BY <1>2, <1>3 DEF StackInv, OneChain, SharedIsFull, RootIsFull, Counted
<1>6. Lists'
  BY <1>2, <1>3 DEF StackInv, Lists, Holds, Due, Above, Own
<1>. QED
  BY <1>1, <1>4, <1>5, <1>6 DEF StackInv

\* Where the deepest activation of a goroutine returns, its caller is the deepest.
LEMMA LeaveStep ==
  ASSUME StackInv, NEW d \in Dir, Leave(d)
  PROVE  StackInv'
<1>1. TypeInv'
  BY WalkType DEF StackInv
<1>2. /\ pc[d] \in {"load", "match"} /\ added' = added /\ todo' = todo /\ slice' = slice /\ heap' = heap
      /\ pc' = [e \in Dir |-> IF e = d THEN "done"
                              ELSE IF e = Parent[d] /\ pc[e] = "call" THEN "match" ELSE pc[e]]
  BY DEF Leave
<1>3. \A e \in Dir : /\ Live(e)' <=> Live(e) /\ e # d
                     /\ pc'[e] = "idle" <=> pc[e] = "idle"
                     /\ pc'[e] \in {"idle", "load"} => pc[e] \in {"idle", "load"}
                     /\ pc'[e] \in {"match", "call"} => pc[e] \in {"match", "call"}
                     /\ pc'[e] \in {"load", "match"} =>
                          e # d /\ (pc[e] \in {"load", "match"} \/ e = Parent[d])
  BY <1>2 DEF Live
<1>4. CalledOnce'
  <2>1. \A e \in Dir : pc'[e] \in {"idle", "load"} => \A c \in Subdirs(e) : pc'[c] = "idle"
    BY <1>3 DEF StackInv, CalledOnce, Subdirs
  <2>2. \A e \in Dir : \A c \in todo'[e] : c \in Subdirs(e) /\ pc'[c] = "idle"
    BY <1>2, <1>3 DEF StackInv, CalledOnce, Subdirs
  <2>3. \A e \in Dir : pc'[e] # "idle" => pc'[Gor[e]] # "idle"
    BY <1>3, GorFacts DEF StackInv, CalledOnce
  <2>. QED
    BY <2>1, <2>2, <2>3 DEF CalledOnce, Subdirs
<1>5. OneChain'
  <2>. SUFFICES ASSUME NEW e \in Dir, NEW f \in Dir, Live(e), Live(f), e # d, f # d, Gor[e] = Gor[f]
                PROVE  /\ Depth[e] = Depth[f] => e = f
                       /\ pc'[e] \in {"load", "match"} => Depth[f] <= Depth[e]
                       /\ Depth[e] <= Depth[f] /\ slice[e].array = slice[f].array =>
                            slice[e].len <= slice[f].len
    BY <1>2, <1>3 DEF OneChain
  <2>1. /\ Depth[e] = Depth[f] => e = f
        /\ pc[e] \in {"load", "match"} => Depth[f] <= Depth[e]
        /\ Depth[e] <= Depth[f] /\ slice[e].array = slice[f].array => slice[e].len <= slice[f].len
    BY DEF StackInv, OneChain
  <2>2. Depth[e] \in Nat /\ Depth[f] \in Nat /\ Depth[d] \in Nat
    BY Tree
  <2>3. ASSUME e = Parent[d] PROVE Depth[f] <= Depth[e]
    <3>1. CASE Depth[d] = 0
      BY <2>3, <3>1, Tree
    <3>2. CASE Depth[d] = 1
      <4>1. Depth[e] = 0
        BY <2>2, <2>3, <3>2, Tree
      <4>2. Gor[f] = e
        BY <4>1, GorFacts
      <4>3. Depth[f] = 0
        BY <4>1, <4>2, GorFacts
      <4>. QED
        BY <4>1, <4>3
    <3>3. CASE ~(Depth[d] <= 1)
      <4>1. Gor[d] = Gor[f] /\ Depth[d] = Depth[e] + 1
        BY <2>2, <2>3, <3>3, GorFacts, Tree
      <4>2. Live(d) /\ pc[d] \in {"load", "match"}
        BY <1>2 DEF Live
      <4>3. Depth[f] <= Depth[d] /\ (Depth[d] = Depth[f] => d = f)
        BY <4>1, <4>2 DEF StackInv, OneChain
      <4>. QED
        BY <2>2, <4>1, <4>3
    <3>. QED
      BY <2>2, <3>1, <3>2, <3>3
  <2>. QED
    BY <1>3, <2>1, <2>3
<1>6. SharedIsFull' /\ RootIsFull' /\ Counted'
  BY <1>2, <1>3 DEF StackInv, SharedIsFull, RootIsFull, Counted
<1>7. Lists'
  BY <1>2, <1>3 DEF StackInv, Lists, Holds, Due, Above, Own
<1>. QED
  BY <1>1, <1>4, <1>5, <1>6, <1>7 DEF StackInv

\* The child's list is its caller's, the child is the deepest of its goroutine, and
\* a goroutine that begins shares its root's array, which is full.
LEMMA DescendStep ==
  ASSUME StackInv, NEW d \in Dir, Descend(d)
  PROVE  StackInv'
<1>1. TypeInv'
  BY WalkType DEF StackInv
<1>2. PICK c \in todo[d] :
        /\ todo' = [todo EXCEPT ![d] = @ \ {c}]
        /\ pc' = [pc EXCEPT ![c] = "load", ![d] = IF Concurrent(d) THEN "match" ELSE "call"]
        /\ slice' = [slice EXCEPT ![c] = slice[d]]
  BY DEF Descend
<1>3. pc[d] = "match" /\ added' = added /\ heap' = heap
  BY DEF Descend
<1>4. /\ pc \in [Dir -> {"idle", "load", "match", "call", "done"}]
      /\ todo \in [Dir -> SUBSET Dir]
      /\ slice \in [Dir -> [array : Array, len : Nat]]
  BY DEF StackInv, TypeInv, TypeOK
<1>5. \A e \in Dir : slice[e].len \in Nat /\ Depth[e] \in Nat
  BY <1>4, Tree
<1>6. c \in Dir /\ c \in Subdirs(d) /\ pc[c] = "idle" /\ c # d
  BY <1>2, <1>3, <1>4 DEF StackInv, CalledOnce
<1>7. Parent[c] = d /\ Depth[c] = Depth[d] + 1
  BY <1>6, Tree DEF Subdirs
<1>8. /\ pc'[c] = "load" /\ slice'[c] = slice[d]
      /\ pc'[d] = IF Depth[d] = 0 THEN "match" ELSE "call"
      /\ \A e \in Dir : e # c => slice'[e] = slice[e]
      /\ \A e \in Dir : e # c /\ e # d => pc'[e] = pc[e]
      /\ \A e \in Dir : todo'[e] \subseteq todo[e] /\ c \notin todo'[d]
  BY <1>2, <1>4, <1>6 DEF Concurrent
<1>9. /\ Live(d) /\ Live(c)' /\ ~Live(c) /\ \A e \in Dir : e # c => (Live(e)' <=> Live(e))
  BY <1>3, <1>6, <1>8 DEF Live
<1>10. CalledOnce'
  <2>1. \A e \in Dir : pc'[e] \in {"idle", "load"} => \A x \in Subdirs(e) : pc'[x] = "idle"
    <3>. SUFFICES ASSUME NEW e \in Dir, pc'[e] \in {"idle", "load"}, NEW x \in Subdirs(e)
                  PROVE  pc'[x] = "idle"
      OBVIOUS
    <3>1. e # d /\ pc[e] \in {"idle", "load"}
      BY <1>6, <1>8
    <3>2. x \in Dir /\ pc[x] = "idle" /\ x # c /\ x # d
      BY <1>3, <1>7, <3>1 DEF StackInv, CalledOnce, Subdirs
    <3>. QED
      BY <1>8, <3>2
  <2>2. \A e \in Dir : \A x \in todo'[e] : x \in Subdirs(e) /\ pc'[x] = "idle"
    <3>. SUFFICES ASSUME NEW e \in Dir, NEW x \in todo'[e] PROVE x \in Subdirs(e) /\ pc'[x] = "idle"
      OBVIOUS
    <3>1. x \in todo[e] /\ x \in Subdirs(e) /\ pc[x] = "idle" /\ x \in Dir /\ Parent[x] = e
      BY <1>8 DEF StackInv, CalledOnce, Subdirs
    <3>2. x # c
      BY <1>7, <1>8, <3>1
    <3>. QED
      BY <1>3, <1>8, <3>1, <3>2
  <2>3. \A e \in Dir : pc'[e] # "idle" => pc'[Gor[e]] # "idle"
    <3>. SUFFICES ASSUME NEW e \in Dir, pc'[e] # "idle" PROVE pc'[Gor[e]] # "idle"
      OBVIOUS
    <3>1. \A x \in Dir : pc[x] # "idle" => pc'[x] # "idle"
      BY <1>8
    <3>2. CASE e # c
      <4>1. pc[e] # "idle"
        BY <1>3, <1>8, <3>2
      <4>. QED
        BY <3>1, <4>1, GorFacts DEF StackInv, CalledOnce
    <3>3. CASE e = c
      <4>1. Gor[c] = c \/ Gor[c] = Gor[d]
        BY <1>6, <1>7, GorFacts
      <4>2. pc[Gor[d]] # "idle" /\ Gor[d] \in Dir
        BY <1>3, GorFacts DEF StackInv, CalledOnce
      <4>. QED
        BY <1>8, <3>1, <3>3, <4>1, <4>2
    <3>. QED
      BY <3>2, <3>3
  <2>. QED
    BY <2>1, <2>2, <2>3 DEF CalledOnce, Subdirs
\* Who is in the child's goroutine is above the child.
<1>11. ASSUME NEW e \in Dir, Live(e), Gor[e] = Gor[c]
       PROVE  /\ Depth[d] # 0 /\ Gor[d] = Gor[c]
              /\ Depth[e] <= Depth[d]
              /\ slice[e].array = slice[d].array => slice[e].len <= slice[d].len
  <2>1. Depth[d] # 0
    <3>. SUFFICES ASSUME Depth[d] = 0 PROVE FALSE
      OBVIOUS
    <3>1. Gor[e] = c
      BY <1>6, <1>7, <1>11, GorFacts
    <3>2. pc[c] # "idle"
      BY <1>11, <3>1 DEF StackInv, CalledOnce, Live
    <3>. QED
      BY <1>6, <3>2
  <2>2. Gor[d] = Gor[c]
    BY <1>5, <1>6, <1>7, <2>1, GorFacts
  <2>3. Depth[e] <= Depth[d]
    BY <1>3, <1>9, <1>11, <2>2 DEF StackInv, OneChain
  <2>4. slice[e].array = slice[d].array => slice[e].len <= slice[d].len
    BY <1>9, <1>11, <2>2, <2>3 DEF StackInv, OneChain
  <2>. QED
    BY <2>1, <2>2, <2>3, <2>4
<1>12. OneChain'
  <2>. SUFFICES ASSUME NEW e \in Dir, NEW f \in Dir, Live(e)', Live(f)', Gor[e] = Gor[f]
                PROVE  /\ Depth[e] = Depth[f] => e = f
                       /\ pc'[e] \in {"load", "match"} => Depth[f] <= Depth[e]
                       /\ Depth[e] <= Depth[f] /\ slice'[e].array = slice'[f].array =>
                            slice'[e].len <= slice'[f].len
    BY DEF OneChain
  <2>1. CASE e = c /\ f = c
    BY <1>5, <1>6, <1>8, <2>1
  <2>2. CASE e = c /\ f # c
    <3>1. Depth[f] <= Depth[d] /\ Depth[c] = Depth[d] + 1
      BY <1>7, <1>9, <1>11, <2>2
    <3>. QED
      BY <1>5, <2>2, <3>1
  <2>3. CASE e # c /\ f = c
    <3>1. /\ Live(e) /\ Depth[d] # 0 /\ Gor[d] = Gor[c] /\ Depth[e] <= Depth[d]
          /\ slice[e].array = slice[d].array => slice[e].len <= slice[d].len
      BY <1>9, <1>11, <2>3
    <3>2. pc'[e] \notin {"load", "match"}
      <4>1. CASE e = d
        BY <1>8, <3>1, <4>1
      <4>2. CASE e # d
        <5>. SUFFICES ASSUME pc[e] \in {"load", "match"} PROVE FALSE
          BY <1>8, <2>3, <4>2
        <5>1. Depth[d] <= Depth[e] /\ (Depth[d] = Depth[e] => d = e)
          BY <1>9, <2>3, <3>1 DEF StackInv, OneChain
        <5>. QED
          BY <1>5, <3>1, <4>2, <5>1
      <4>. QED
        BY <4>1, <4>2
    <3>3. Depth[e] # Depth[c]
      BY <1>5, <1>7, <3>1
    <3>. QED
      BY <1>8, <2>3, <3>1, <3>2, <3>3
  <2>4. CASE e # c /\ f # c
    <3>1. Live(e) /\ Live(f) /\ slice'[e] = slice[e] /\ slice'[f] = slice[f]
      BY <1>8, <1>9, <2>4
    <3>2. pc'[e] \in {"load", "match"} => pc[e] \in {"load", "match"}
      BY <1>3, <1>8, <2>4
    <3>. QED
      BY <3>1, <3>2 DEF StackInv, OneChain
  <2>. QED
    BY <2>1, <2>2, <2>3, <2>4
<1>13. SharedIsFull'
  <2>. SUFFICES ASSUME NEW e \in Dir, NEW f \in Dir, Live(e)', Live(f)', Gor[e] # Gor[f],
                       slice'[e].array = slice'[f].array
                PROVE  slice'[e].len = Len(heap[slice'[e].array])
    BY <1>3 DEF SharedIsFull
  \* An activation of another goroutine than the child's that has d's array.
  <2>1. ASSUME NEW x \in Dir, Live(x), Gor[x] # Gor[c], slice[x].array = slice[d].array
        PROVE  /\ slice[x].len = Len(heap[slice[x].array])
               /\ slice[d].len = Len(heap[slice[d].array])
    <3>1. CASE Gor[x] # Gor[d]
      BY <1>9, <2>1, <3>1 DEF StackInv, SharedIsFull
    <3>2. CASE Gor[x] = Gor[d]
      <4>1. Depth[d] = 0
        BY <1>5, <1>6, <1>7, <2>1, <3>2, GorFacts
      <4>2. Gor[d] = d
        BY <4>1, GorFacts
      <4>3. Depth[x] = 0
        BY <3>2, <4>1, <4>2, GorFacts
      <4>. QED
        BY <4>1, <4>3 DEF StackInv, RootIsFull
    <3>. QED
      BY <3>1, <3>2
  <2>2. CASE e = c /\ f # c
    BY <1>8, <1>9, <2>1, <2>2
  <2>3. CASE e # c /\ f = c
    BY <1>8, <1>9, <2>1, <2>3
  <2>4. CASE e # c /\ f # c
    BY <1>8, <1>9, <2>4 DEF StackInv, SharedIsFull
  <2>. QED
    BY <2>2, <2>3, <2>4
<1>14. RootIsFull'
  BY <1>3, <1>5, <1>7, <1>8 DEF StackInv, RootIsFull
<1>15. Counted'
  BY <1>3, <1>6, <1>8 DEF StackInv, Counted
<1>16. Lists'
  <2>. SUFFICES ASSUME NEW e \in Dir, Live(e)'
                PROVE  /\ slice'[e].len = Len(Due(e, added[e]))
                       /\ \A i \in 1..slice'[e].len :
                            heap[slice'[e].array][i] = Due(e, added[e])[i]
    BY <1>3 DEF Lists, Holds, Due, Above, Own
  <2>1. CASE e # c
    BY <1>8, <1>9, <2>1 DEF StackInv, Lists, Holds
  <2>2. CASE e = c
    <3>1. added[c] = 0 /\ added[d] = Adds[d]
      BY <1>3, <1>6 DEF StackInv, Counted
    <3>2. Due(c, 0) = Due(d, Adds[d])
      BY <1>6, DueHanded
    <3>3. Holds(d)
      BY <1>9 DEF StackInv, Lists
    <3>. QED
      BY <1>8, <2>2, <3>1, <3>2, <3>3 DEF Holds
  <2>. QED
    BY <2>1, <2>2
<1>. QED
  BY <1>1, <1>10, <1>12, <1>13, <1>14, <1>15, <1>16 DEF StackInv

-----------------------------------------------------------------------------
(* The list of rules                                                       *)

LEMMA StackInit == Init => StackInv
<1>. SUFFICES ASSUME Init PROVE StackInv
  OBVIOUS
<1>1. TypeInv
  BY TypeInit
<1>2. /\ \A d \in Dir : pc[d] = IF Depth[d] = 0 THEN "load" ELSE "idle"
      /\ \A d \in Dir : added[d] = 0 /\ todo[d] = {} /\ slice[d] = [array |-> Nil, len |-> 0]
      /\ heap[Nil] = <<>>
  BY DEF Init, Array
<1>3. \A d \in Dir : (Live(d) => Depth[d] = 0) /\ slice[d].len = 0 /\ slice[d].array = Nil
  BY <1>2 DEF Live
<1>4. Len(heap[Nil]) = 0
  BY <1>2, EmptySeq
<1>5. CalledOnce
  BY <1>2, GorFacts, Tree DEF CalledOnce, Subdirs
<1>6. OneChain /\ SharedIsFull /\ RootIsFull /\ Counted
  BY <1>2, <1>3, <1>4, GorFacts, Tree DEF OneChain, SharedIsFull, RootIsFull, Counted
<1>7. Lists
  <2>. SUFFICES ASSUME NEW d \in Dir, Depth[d] = 0 PROVE Holds(d)
    BY <1>3 DEF Lists
  <2>1. Len(Due(d, 0)) = Len(Above(d)) + 0 /\ Len(Above(d)) = 0
    BY DueCells, Tree, EmptySeq DEF Above
  <2>. QED
    BY <1>2, <1>3, <2>1 DEF Holds
<1>. QED
  BY <1>1, <1>5, <1>6, <1>7 DEF StackInv

LEMMA StackStep == RootAdds /\ StackInv /\ [Next]_vars => StackInv'
<1>. SUFFICES ASSUME RootAdds, StackInv, [Next]_vars PROVE StackInv'
  OBVIOUS
<1>1. ASSUME NEW d \in Dir, Step(d) PROVE StackInv'
  BY <1>1, LoadStep, LoadDoneStep, DescendStep, SkipStep, LeaveStep DEF Step
<1>2. CASE UNCHANGED vars
  <2>1. pc' = pc /\ added' = added /\ todo' = todo /\ slice' = slice /\ heap' = heap
    BY <1>2 DEF vars
  <2>2. TypeInv'
    BY TypeStep DEF StackInv
  <2>3. CalledOnce' /\ Counted'
    BY <2>1 DEF StackInv, CalledOnce, Counted, Subdirs
  <2>4. OneChain' /\ SharedIsFull' /\ RootIsFull'
    BY <2>1 DEF StackInv, OneChain, SharedIsFull, RootIsFull, Live
  <2>5. Lists'
    BY <2>1 DEF StackInv, Lists, Holds, Due, Above, Own, Live
  <2>. QED
    BY <2>2, <2>3, <2>4, <2>5 DEF StackInv
<1>. QED
  BY <1>1, <1>2 DEF Next, Finished

\* The cells are the list: what an activation holds is what it should hold.
LEMMA ListsAreInherited == StackInv => RulesInherited
<1>. SUFFICES ASSUME StackInv, NEW d \in Dir, Live(d)
              PROVE  List(d) = Above(d) \o Own(d, added[d])
  BY DEF RulesInherited
<1>. DEFINE q == Due(d, added[d])
            s == slice[d]
<1>1. added[d] \in Nat /\ added[d] <= Adds[d]
  BY DEF StackInv, TypeInv, TypeOK
<1>2. q \in Seq(Rule)
  BY <1>1, DueCells
<1>3. s.len \in Nat /\ heap[s.array] \in Seq(Rule \cup {Nil}) /\ s.len <= Len(heap[s.array])
      /\ Len(heap[s.array]) \in Nat
  BY SliceFacts DEF StackInv, Cells
<1>4. s.len = Len(q) /\ \A i \in 1..s.len : heap[s.array][i] = q[i]
  BY DEF StackInv, Lists, Holds
<1>5. \A i \in 1..s.len : q[i] \in Rule
  BY <1>2, <1>4, ElementOfSeq
<1>6. \A i \in 1..s.len : heap[s.array][i] \in Rule
  BY <1>4, <1>5
<1>7. /\ List(d) \in Seq(Rule)
      /\ Len(List(d)) = IF 1 <= s.len THEN s.len - 1 + 1 ELSE 0
      /\ \A i \in 1..(s.len - 1 + 1) : List(d)[i] = heap[s.array][1 + i - 1]
  BY <1>3, <1>6, SubSeqProperties DEF List
<1>8. Len(List(d)) = s.len /\ \A i \in 1..s.len : List(d)[i] = heap[s.array][i]
  BY <1>3, <1>7
<1>9. List(d) = q
  BY <1>2, <1>4, <1>7, <1>8, SeqEqual
<1>. QED
  BY <1>9 DEF Due

\* Where a root adds at most two rules, whatever the goroutines below it append and
\* in whatever order, an activation's list is that of its ancestors and its own.
THEOREM InheritedCorrect == RootAdds /\ Spec => []RulesInherited
<1>. SUFFICES ASSUME RootAdds PROVE Spec => []RulesInherited
  OBVIOUS
<1>1. StackInv /\ [Next]_vars => StackInv'
  BY StackStep
<1>. QED
  BY <1>1, StackInit, ListsAreInherited, PTL DEF Spec
=============================================================================
