-------------------------- MODULE RepositoryProofs --------------------------
(***************************************************************************)
(* Theorems about RepositoryMatch, for every hierarchy of directories and  *)
(* whatever the files of patterns say: the recursion of Relative and its   *)
(* loop up the directories come to what the rules say.                     *)
(***************************************************************************)
EXTENDS RepositoryMatch, Induction

-----------------------------------------------------------------------------
(* The hierarchy                                                           *)

UpClosed(X) == \A x \in X : x # Base => Up[x] \in X

\* The directories above p as the least set closed under Up.
Ancestors(p) ==
  IF p = Base THEN {}
  ELSE {d \in Dir : \A X \in SUBSET Dir : Up[p] \in X /\ UpClosed(X) => d \in X}

\* What the assumption says of Up and Depth, path by path.
LEMMA Hierarchy ==
  /\ Base \in Dir
  /\ Below = (Dir \cup File) \ {Base}
  /\ \A p \in Below : Up[p] \in Dir /\ p # Base /\ Depth[p] = Depth[Up[p]] + 1
  /\ \A p \in Dir \cup File : Depth[p] \in Nat
  /\ Depth[Base] = 0
BY RepositoryAssumption DEF Below

\* The recursive definition of Above has a solution, so Above is one.
LEMMA AboveUnfolds ==
  \A p \in Dir \cup File : Above[p] = IF p = Base THEN {} ELSE Above[Up[p]] \cup {Up[p]}
<1>. DEFINE g == [p \in Dir \cup File |-> Ancestors(p)]
<1>1. ASSUME NEW p \in Dir \cup File, p # Base
      PROVE  Ancestors(p) = Ancestors(Up[p]) \cup {Up[p]}
  <2>1. Up[p] \in Dir /\ \A q \in Dir \ {Base} : Up[q] \in Dir
    BY <1>1, RepositoryAssumption
  <2>2. Ancestors(Up[p]) \subseteq Ancestors(p)
    BY <1>1, <2>1 DEF Ancestors, UpClosed
  <2>3. Up[p] \in Ancestors(p)
    BY <1>1, <2>1 DEF Ancestors
  <2>4. UpClosed(Ancestors(Up[p]) \cup {Up[p]})
    BY <2>1 DEF Ancestors, UpClosed
  <2>5. Ancestors(Up[p]) \cup {Up[p]} \in SUBSET Dir
    BY <2>1 DEF Ancestors
  <2>6. Ancestors(p) \subseteq Ancestors(Up[p]) \cup {Up[p]}
    BY <1>1, <2>4, <2>5 DEF Ancestors
  <2>. QED
    BY <2>2, <2>3, <2>6
<1>2. g = [p \in Dir \cup File |-> IF p = Base THEN {} ELSE g[Up[p]] \cup {Up[p]}]
  <2>1. \A p \in Dir \cup File : p # Base => Up[p] \in Dir \cup File
    BY RepositoryAssumption
  <2>2. Ancestors(Base) = {}
    BY DEF Ancestors
  <2>. QED
    BY <1>1, <2>1, <2>2
<1>. HIDE DEF g
<1>3. Above = [p \in Dir \cup File |-> IF p = Base THEN {} ELSE Above[Up[p]] \cup {Up[p]}]
  BY <1>2 DEF Above
<1>. QED
  BY <1>3

\* The same as two facts.
LEMMA AboveStep ==
  /\ Above[Base] = {}
  /\ \A p \in Below : Above[p] = Above[Up[p]] \cup {Up[p]}
BY AboveUnfolds, Hierarchy

\* A property of directories that the parent of p has, and that passes from a
\* directory to its parent, holds above p: induction on the depth.
LEMMA AboveLeast ==
  ASSUME NEW p \in Below, NEW X, X \subseteq Dir, Up[p] \in X, UpClosed(X)
  PROVE  Above[p] \subseteq X
<1>. DEFINE Bad == {q \in Below : Up[q] \in X /\ ~(Above[q] \subseteq X)}
<1>1. SUFFICES ASSUME Bad # {} PROVE FALSE
  OBVIOUS
<1>2. PICK q \in Bad : \A r \in Bad : Depth[q] <= Depth[r]
  <2>. DEFINE T == {Depth[r] : r \in Bad}
  <2>1. T \subseteq Nat /\ T # {}
    BY <1>1, Hierarchy
  <2>2. PICK n \in T : \A m \in T : n <= m
    BY <2>1, LeastNatural
  <2>. QED
    BY <2>2
<1>3. Up[q] \in Dir /\ Depth[q] = Depth[Up[q]] + 1 /\ Above[q] = Above[Up[q]] \cup {Up[q]}
  BY Hierarchy, AboveStep
<1>4. CASE Up[q] = Base
  BY <1>3, <1>4, AboveStep
<1>5. CASE Up[q] # Base
  <2>1. Up[q] \in Below /\ Up[Up[q]] \in X
    BY <1>3, <1>5, Hierarchy DEF UpClosed
  <2>2. Up[q] \in Bad
    BY <1>3, <2>1
  <2>3. Depth[Up[q]] \in Nat /\ Depth[q] <= Depth[Up[q]]
    BY <1>2, <1>3, <2>2, Hierarchy
  <2>. QED
    BY <1>3, <2>3
<1>. QED
  BY <1>4, <1>5

\* What lies above a path are directories nearer to the root, and with one of
\* them come those above it.
LEMMA AboveFacts ==
  ASSUME NEW p \in Below
  PROVE  /\ Above[p] \subseteq Dir
         /\ UpClosed(Above[p])
         /\ \A d \in Above[p] : Depth[d] < Depth[p] /\ Above[d] \subseteq Above[p]
         /\ Up[p] \in Above[p]
<1>1. Up[p] \in Above[p] /\ Up[p] \in Dir
  BY AboveStep, Hierarchy
<1>2. Above[p] \subseteq Dir
  BY Hierarchy, AboveLeast DEF UpClosed
<1>3. \A d \in Above[p] : Depth[d] < Depth[p]
  <2>. DEFINE X == {d \in Dir : Depth[d] < Depth[p]}
  <2>1. Up[p] \in X
    BY Hierarchy
  <2>2. UpClosed(X)
    <3>. SUFFICES ASSUME NEW x \in X, x # Base PROVE Up[x] \in X
      BY DEF UpClosed
    <3>1. x \in Below /\ Up[x] \in Dir /\ Depth[x] = Depth[Up[x]] + 1 /\ Depth[Up[x]] \in Nat /\ Depth[p] \in Nat
      BY Hierarchy
    <3>. QED
      BY <3>1
  <2>3. Above[p] \subseteq X
    BY <2>1, <2>2, AboveLeast
  <2>. QED
    BY <2>3
<1>4. \A d \in Above[p] : Above[d] \subseteq Above[p]
  <2>. DEFINE X == {d \in Above[p] : Above[d] \subseteq Above[p]}
  <2>1. Up[p] \in X
    BY <1>1, AboveStep
  <2>2. UpClosed(X)
    BY <1>2, AboveStep, Hierarchy DEF UpClosed
  <2>3. Above[p] \subseteq X
    BY <1>2, <2>1, <2>2, AboveLeast
  <2>. QED
    BY <2>3
<1>5. UpClosed(Above[p])
  BY <1>2, <1>4, AboveStep, Hierarchy DEF UpClosed
<1>. QED
  BY <1>1, <1>2, <1>3, <1>4, <1>5

\* The directories above a path are a chain.
LEMMA AboveChain ==
  ASSUME NEW p \in Below, NEW x \in Above[p], NEW y \in Above[p]
  PROVE  x = y \/ x \in Above[y] \/ y \in Above[x]
<1>. DEFINE X == {z \in Above[p] : \A w \in Above[p] : z = w \/ z \in Above[w] \/ w \in Above[z]}
<1>1. Above[p] \subseteq Dir /\ UpClosed(Above[p]) /\ Up[p] \in Above[p]
  BY AboveFacts
<1>2. Up[p] \in X
  BY <1>1, AboveStep
<1>3. UpClosed(X)
  <2>. SUFFICES ASSUME NEW z \in X, z # Base PROVE Up[z] \in X
    BY DEF UpClosed
  <2>1. z \in Below /\ Up[z] \in Above[p] /\ Above[z] = Above[Up[z]] \cup {Up[z]}
    BY <1>1, Hierarchy, AboveStep DEF UpClosed
  <2>2. ASSUME NEW w \in Above[p] PROVE Up[z] = w \/ Up[z] \in Above[w] \/ w \in Above[Up[z]]
    <3>1. CASE w = z \/ w \in Above[z]
      BY <2>1, <3>1
    <3>2. CASE z \in Above[w]
      <4>1. w \in Below
        BY <1>1, <3>2, Hierarchy, AboveStep
      <4>2. Up[z] \in Above[w]
        BY <3>2, <4>1, AboveFacts DEF UpClosed
      <4>. QED
        BY <4>2
    <3>. QED
      BY <3>1, <3>2
  <2>. QED
    BY <2>1, <2>2
<1>4. Above[p] \subseteq X
  BY <1>1, <1>2, <1>3, AboveLeast
<1>. QED
  BY <1>4

\* Every directory above a path is the parent of the path or of another one
\* above it.
LEMMA AboveSuccessor ==
  ASSUME NEW p \in Below, NEW d \in Above[p]
  PROVE  \E r \in Prefixes(p) : Up[r] = d
<1>. DEFINE X == {x \in Above[p] : \E r \in Prefixes(p) : Up[r] = x}
<1>1. /\ Above[p] \subseteq Dir /\ UpClosed(Above[p]) /\ Up[p] \in Above[p]
      /\ Prefixes(p) = (Above[p] \cup {p}) \ {Base} /\ p # Base
  BY AboveFacts, Hierarchy DEF Prefixes
<1>2. Up[p] \in X
  BY <1>1
<1>3. UpClosed(X)
  BY <1>1 DEF UpClosed
<1>4. Above[p] \subseteq X
  BY <1>1, <1>2, <1>3, AboveLeast
<1>. QED
  BY <1>4

\* The root is above every other path.
LEMMA BaseAbove ==
  ASSUME NEW p \in Below
  PROVE  Base \in Above[p]
<1>1. Above[p] \subseteq Dir /\ UpClosed(Above[p]) /\ Up[p] \in Above[p]
  BY AboveFacts
<1>2. PICK d \in Above[p] : \A e \in Above[p] : Depth[d] <= Depth[e]
  <2>. DEFINE T == {Depth[e] : e \in Above[p]}
  <2>1. T \subseteq Nat /\ T # {}
    BY <1>1, Hierarchy
  <2>2. PICK n \in T : \A m \in T : n <= m
    BY <2>1, LeastNatural
  <2>. QED
    BY <2>2
<1>3. ASSUME d # Base PROVE FALSE
  <2>1. d \in Below /\ Up[d] \in Above[p] /\ Depth[d] = Depth[Up[d]] + 1 /\ Depth[Up[d]] \in Nat
    BY <1>1, <1>3, Hierarchy DEF UpClosed
  <2>. QED
    BY <1>2, <2>1
<1>. QED
  BY <1>2, <1>3

\* The prefixes of a path: itself and what is above it, without the root; one
\* lies above another exactly when it is less deep.
LEMMA PrefixFacts ==
  ASSUME NEW p \in Below
  PROVE  /\ Prefixes(p) = (Above[p] \cup {p}) \ {Base}
         /\ Prefixes(p) \subseteq Below /\ p \in Prefixes(p)
         /\ Prefixes(p) \ {p} = Above[p] \ {Base}
         /\ \A q \in Prefixes(p) : Above[q] \subseteq Above[p] /\ Depth[q] <= Depth[p]
         /\ \A q, r \in Prefixes(p) : q \in Above[r] <=> Depth[q] < Depth[r]
         /\ \A q, r \in Prefixes(p) : Depth[q] = Depth[r] => q = r
<1>1. Prefixes(p) = (Above[p] \cup {p}) \ {Base} /\ p # Base
  BY Hierarchy DEF Prefixes
<1>2. /\ Above[p] \subseteq Dir /\ p \notin Above[p]
      /\ \A d \in Above[p] : Depth[d] < Depth[p] /\ Above[d] \subseteq Above[p]
      /\ \A q \in Dir \cup File : Depth[q] \in Nat
  BY AboveFacts, Hierarchy
<1>3. Prefixes(p) \subseteq Below /\ p \in Prefixes(p)
  BY <1>1, <1>2, Hierarchy
<1>4. Prefixes(p) \ {p} = Above[p] \ {Base}
  BY <1>1, <1>2
<1>5. \A q \in Prefixes(p) : Above[q] \subseteq Above[p] /\ Depth[q] <= Depth[p]
  <2>. SUFFICES ASSUME NEW q \in Prefixes(p)
                PROVE  Above[q] \subseteq Above[p] /\ Depth[q] <= Depth[p]
    OBVIOUS
  <2>1. Depth[q] \in Nat /\ Depth[p] \in Nat
    BY <1>3, Hierarchy
  <2>2. q = p \/ q \in Above[p]
    BY <1>1
  <2>. QED
    BY <1>2, <2>1, <2>2
<1>6. \A q, r \in Prefixes(p) : q = r \/ q \in Above[r] \/ r \in Above[q]
  BY <1>1, AboveChain
<1>7. \A q, r \in Prefixes(p) : q \in Above[r] => Depth[q] < Depth[r]
  BY <1>3, AboveFacts
<1>8. \A q, r \in Prefixes(p) : Depth[q] \in Nat /\ Depth[r] \in Nat
  BY <1>3, <1>2, Hierarchy
<1>9. \A q, r \in Prefixes(p) : (q \in Above[r] <=> Depth[q] < Depth[r]) /\ (Depth[q] = Depth[r] => q = r)
  BY <1>6, <1>7, <1>8
<1>. QED
  BY <1>1, <1>3, <1>4, <1>5, <1>9

\* The search begins at the prefix right under the root.
LEMMA TopFacts ==
  ASSUME NEW p \in Below
  PROVE  Top(p) \in Prefixes(p) /\ Above[Top(p)] = {Base}
<1>1. PICK r \in Prefixes(p) : Up[r] = Base
  BY BaseAbove, AboveSuccessor
<1>2. Prefixes(p) \subseteq Below
  BY PrefixFacts
<1>3. Depth[r] = 1 /\ Above[r] = {Base}
  BY <1>1, <1>2, Hierarchy, AboveStep
<1>4. \E q \in Prefixes(p) : Depth[q] = 1
  BY <1>3
<1>5. Top(p) \in Prefixes(p) /\ Depth[Top(p)] = 1
  BY <1>4 DEF Top
<1>6. Top(p) = r
  BY <1>3, <1>5, PrefixFacts
<1>. QED
  BY <1>3, <1>6

\* It goes on with the prefix whose parent is the one that has been decided.
LEMMA NextFacts ==
  ASSUME NEW p \in Below, NEW q \in Prefixes(p) \ {p},
         NEW n, n = CHOOSE r \in Prefixes(p) : Depth[r] = Depth[q] + 1
  PROVE  n \in Prefixes(p) /\ Above[n] = Above[q] \cup {q}
<1>1. q \in Above[p]
  BY PrefixFacts
<1>2. PICK r \in Prefixes(p) : Up[r] = q
  BY <1>1, AboveSuccessor
<1>3. Depth[r] = Depth[q] + 1 /\ Above[r] = Above[q] \cup {q}
  BY <1>2, PrefixFacts, Hierarchy, AboveStep
<1>4. n \in Prefixes(p) /\ Depth[n] = Depth[q] + 1
  BY <1>2, <1>3
<1>5. n = r
  BY <1>2, <1>3, <1>4, PrefixFacts
<1>. QED
  BY <1>3, <1>4, <1>5

-----------------------------------------------------------------------------
(* What the files of patterns say                                          *)

\* The topics are the pairs of a directory and a path below it, and the two
\* forms in which the exclude file is asked about any path.
LEMMA TopicFacts ==
  ASSUME NEW p \in Below
  PROVE  /\ \A d \in Above[p] : <<d, p>> \in Topic /\ Match(d, p) \in Matches
         /\ \A ex \in {Exclude, Slashed} : <<ex, p>> \in Topic /\ Match(ex, p) \in Matches
         /\ Nil \in Matches
<1>1. \A d \in Above[p] : <<d, p>> \in Topic
  BY DEF Topic
<1>2. \A ex \in {Exclude, Slashed} : <<ex, p>> \in Topic
  BY DEF Topic
<1>3. \A a, b : <<a, b>> \in Topic => Match(a, b) \in Matches
  BY DEF Matches
<1>. QED
  BY <1>1, <1>2, <1>3 DEF Matches

\* The nearest of some directories above a path is one of them.
LEMMA NearestFacts ==
  ASSUME NEW p \in Below, NEW D, D \subseteq Above[p],
         NEW d \in D, \A e \in D : Depth[e] <= Depth[d]
  PROVE  Nearest(D) = d
<1>1. Nearest(D) \in D /\ \A e \in D : Depth[e] <= Depth[Nearest(D)]
  BY DEF Nearest
<1>2. Depth[Nearest(D)] = Depth[d]
  <2>1. \A e \in D : Depth[e] \in Nat
    BY AboveFacts, Hierarchy
  <2>. QED
    BY <1>1, <2>1
<1>3. Nearest(D) = d \/ Nearest(D) \in Above[d] \/ d \in Above[Nearest(D)]
  BY <1>1, AboveChain
<1>4. \A x, y \in D : x \in Above[y] => Depth[x] < Depth[y]
  <2>. SUFFICES ASSUME NEW x \in D, NEW y \in D, x \in Above[y] PROVE Depth[x] < Depth[y]
    OBVIOUS
  <2>1. y \in Below
    BY AboveFacts, AboveStep, Hierarchy
  <2>. QED
    BY <2>1, AboveFacts
<1>5. Depth[d] \in Nat
  BY AboveFacts, Hierarchy
<1>. QED
  BY <1>1, <1>2, <1>3, <1>4, <1>5

\* A .gitignore that can be read and has a match is in the domain of says, and
\* one that cannot be read has none.
LEMMA SaysFacts ==
  ASSUME world \in Worlds
  PROVE  /\ world.isdir \in BOOLEAN /\ world.file \in BOOLEAN
         /\ \A d, p : Says(d, p) # "none" => d \notin world.broken /\ Says(d, p) = says[<<d, p>>]
BY WorldsAssumption DEF Says

-----------------------------------------------------------------------------
(* Types                                                                   *)

LEMMA TypeInit == Init => TypeOK
BY RepositoryAssumption DEF Init, TypeOK, Path, Matches

\* The way on from a prefix that has been decided, from inside the search or
\* from the exclude file, keeps the types.
LEMMA NextPrefixType ==
  ASSUME TypeOK, target \in Below, cur \in Prefixes(target),
         NEW m \in Matches, NextPrefix(m)
  PROVE  /\ cur' \in Dir \cup File
         /\ pc' \in {"prefix", "answered"}
         /\ result' \in Matches
<1>1. cur \in Dir \cup File /\ Prefixes(target) \subseteq Dir \cup File
  BY PrefixFacts, Hierarchy
<1>2. CASE cur = target \/ Ignoring(m)
  BY <1>1, <1>2 DEF NextPrefix, Answer, TypeOK
<1>3. CASE ~(cur = target \/ Ignoring(m))
  <2>1. cur' \in Prefixes(target)
    BY <1>3, NextFacts DEF NextPrefix
  <2>. QED
    BY <1>1, <1>3, <2>1 DEF NextPrefix, TypeOK
<1>. QED
  BY <1>2, <1>3

-----------------------------------------------------------------------------
(* The inductive invariant                                                 *)

\* The repository looks at the exclude file exactly when there is one to look
\* at.
Made == pc \notin {"new", "refused"} => excluding = HasExclude

Going == pc \in {"prefix", "consult", "exclude"}

\* While a path is being decided, none of the prefixes above the one in hand
\* is ignored: otherwise the answer would have been given.
Open == Going => /\ target \in Below
                 /\ cur \in Prefixes(target)
                 /\ IgnoredAmong(Above[cur] \ {Base}, Slashed) = {}

\* The directories the loop has passed say nothing of the prefix in hand, and
\* when it is over none does.
Silent == pc = "consult" =>
            /\ dir \in Above[cur]
            /\ \A e \in Above[cur] : Depth[e] > Depth[dir] => Says(e, cur) = "none"
AllSilent == pc = "exclude" => Speakers(cur) = {}

RepInv == TypeOK /\ Made /\ Open /\ Silent /\ AllSilent /\ MatchFollowsRules /\ NoReadBelowIgnored

\* What only depends on the world stays as it is.
LEMMA SameWorld ==
  ASSUME UNCHANGED world
  PROVE  /\ HasExclude' = HasExclude
         /\ \A p : Speakers(p)' = Speakers(p)
         /\ \A p, ex : Decider(p, ex)' = Decider(p, ex)
         /\ \A P, ex : IgnoredAmong(P, ex)' = IgnoredAmong(P, ex)
         /\ \A p, ex : RuledBy(p, ex)' = RuledBy(p, ex)
<1>1. HasExclude' = HasExclude
  BY DEF HasExclude
<1>2. \A p : Speakers(p)' = Speakers(p)
  BY DEF Speakers, Says, says
<1>3. \A p, ex : Decider(p, ex)' = Decider(p, ex)
  BY <1>1, <1>2 DEF Decider, says
<1>4. \A P, ex : IgnoredAmong(P, ex)' = IgnoredAmong(P, ex)
  BY <1>3 DEF IgnoredAmong, Ignoring, says
<1>5. \A p, ex : RuledBy(p, ex)' = RuledBy(p, ex)
  BY <1>3, <1>4 DEF RuledBy
<1>. QED
  BY <1>1, <1>2, <1>3, <1>4, <1>5

\* A prefix is decided by what the rules say of it, in the form in which the
\* exclude file is asked, and the answer or the next prefix follow.
LEMMA Decide ==
  ASSUME RepInv, Going, UNCHANGED <<made, target>>, NextPrefix(Decider(cur, Form))
  PROVE  Open' /\ MatchFollowsRules' /\ pc' \in {"prefix", "answered"}
<1>. DEFINE m == Decider(cur, Form)
            above == IgnoredAmong(Prefixes(target) \ {target}, Slashed)
<1>1. /\ target \in Below /\ cur \in Prefixes(target)
      /\ IgnoredAmong(Above[cur] \ {Base}, Slashed) = {}
      /\ UNCHANGED world
  BY DEF RepInv, Open, made
<1>2. CASE cur = target
  <2>1. result' = Decider(target, Exclude) /\ pc' = "answered"
    BY <1>2 DEF NextPrefix, Answer, Form
  <2>2. above = {}
    BY <1>1, <1>2, PrefixFacts
  <2>3. RuledBy(target, Slashed) = Decider(target, Exclude)
    BY <2>2 DEF RuledBy
  <2>. QED
    BY <1>1, <2>1, <2>3, SameWorld DEF MatchFollowsRules, Open, Going
<1>3. CASE cur # target /\ Ignoring(m)
  <2>1. result' = Decider(cur, Slashed) /\ pc' = "answered"
    BY <1>3 DEF NextPrefix, Answer, Form
  <2>2. cur \in above
    BY <1>1, <1>3 DEF IgnoredAmong, Form
  <2>3. \A q \in above : Depth[cur] <= Depth[q]
    <3>. SUFFICES ASSUME NEW q \in above PROVE Depth[cur] <= Depth[q]
      OBVIOUS
    <3>1. q \in Prefixes(target) /\ q \in Below /\ cur \in Below
      BY <1>1, PrefixFacts DEF IgnoredAmong
    <3>2. q \notin Above[cur]
      BY <1>1, <3>1, Hierarchy DEF IgnoredAmong
    <3>3. Depth[cur] \in Nat /\ Depth[q] \in Nat
      BY <3>1, Hierarchy
    <3>. QED
      BY <1>1, <3>1, <3>2, <3>3, PrefixFacts
  <2>4. Topmost(above) = cur
    <3>1. Topmost(above) \in above /\ \A q \in above : Depth[Topmost(above)] <= Depth[q]
      BY <2>2, <2>3 DEF Topmost
    <3>2. Topmost(above) \in Prefixes(target) /\ Prefixes(target) \subseteq Below
      BY <1>1, <3>1, PrefixFacts DEF IgnoredAmong
    <3>3. Depth[Topmost(above)] \in Nat /\ Depth[cur] \in Nat
      BY <1>1, <3>2, Hierarchy
    <3>4. Depth[Topmost(above)] = Depth[cur]
      BY <2>2, <2>3, <3>1, <3>3
    <3>. QED
      BY <1>1, <3>2, <3>4, PrefixFacts
  <2>5. RuledBy(target, Slashed) = Decider(cur, Slashed)
    BY <2>2, <2>4 DEF RuledBy
  <2>. QED
    BY <1>1, <2>1, <2>5, SameWorld DEF MatchFollowsRules, Open, Going
<1>4. CASE cur # target /\ ~Ignoring(m)
  <2>1. cur' = (CHOOSE q \in Prefixes(target) : Depth[q] = Depth[cur] + 1) /\ pc' = "prefix"
    BY <1>4 DEF NextPrefix
  <2>2. cur' \in Prefixes(target) /\ Above[cur'] = Above[cur] \cup {cur}
    BY <1>1, <1>4, <2>1, NextFacts
  <2>3. IgnoredAmong(Above[cur'] \ {Base}, Slashed) = {}
    BY <1>1, <1>4, <2>2 DEF IgnoredAmong, Form
  <2>. QED
    BY <1>1, <2>1, <2>2, <2>3, SameWorld DEF MatchFollowsRules, Decided, Open, Going
<1>. QED
  BY <1>2, <1>3, <1>4

\* The file in hand is what the rules ask when those nearer say nothing.
LEMMA NearestDecides ==
  ASSUME NEW p \in Below, NEW d \in Above[p], NEW ex, Says(d, p) # "none",
         \A e \in Above[p] : Depth[e] > Depth[d] => Says(e, p) = "none"
  PROVE  Decider(p, ex) = Match(d, p)
<1>1. d \in Speakers(p) /\ Speakers(p) \subseteq Above[p]
  BY DEF Speakers
<1>2. \A e \in Speakers(p) : Depth[e] <= Depth[d]
  <2>1. \A e \in Above[p] : Depth[e] \in Nat
    BY AboveFacts, Hierarchy
  <2>. QED
    BY <1>1, <2>1 DEF Speakers
<1>. QED
  BY <1>1, <1>2, NearestFacts DEF Decider

\* One turn of the loop up the hierarchy keeps the invariant.
LEMMA ConsultStep == RepInv /\ Consult => RepInv'
<1>. SUFFICES ASSUME RepInv, Consult PROVE RepInv'
  OBVIOUS
<1>0. /\ TypeOK /\ pc = "consult" /\ UNCHANGED <<made, target>> /\ UNCHANGED world
      /\ cached' = cached \cup {dir}
      /\ target \in Below /\ cur \in Prefixes(target) /\ cur \in Below
      /\ IgnoredAmong(Above[cur] \ {Base}, Slashed) = {}
      /\ dir \in Above[cur] /\ dir \in Dir /\ Above[cur] \subseteq Dir
      /\ \A e \in Above[cur] : Depth[e] > Depth[dir] => Says(e, cur) = "none"
      /\ Going
  BY PrefixFacts, AboveFacts DEF RepInv, Open, Going, Silent, Consult, LoadFile, made, TypeOK
<1>1. NoReadBelowIgnored'
  <2>1. Prefixes(dir) \subseteq Above[cur] \ {Base}
    BY <1>0, AboveFacts DEF Prefixes
  <2>2. IgnoredAmong(Prefixes(dir), Slashed) = {}
    BY <1>0, <2>1 DEF IgnoredAmong
  <2>. QED
    BY <1>0, <2>2, SameWorld DEF NoReadBelowIgnored, RepInv
<1>2. CASE Says(dir, cur) # "none"
  <2>1. Match(dir, cur) \in Matches /\ NextPrefix(Match(dir, cur)) /\ UNCHANGED dir
    BY <1>0, <1>2, TopicFacts DEF Consult
  <2>2. Decider(cur, Form) = Match(dir, cur)
    BY <1>0, <1>2, NearestDecides
  <2>3. Open' /\ MatchFollowsRules' /\ pc' \in {"prefix", "answered"}
    BY <1>0, <2>1, <2>2, Decide
  <2>4. cur' \in Dir \cup File /\ result' \in Matches
    BY <1>0, <2>1, NextPrefixType
  <2>5. TypeOK'
    BY <1>0, <2>1, <2>3, <2>4 DEF TypeOK, made
  <2>6. Made' /\ Silent' /\ AllSilent'
    BY <1>0, <2>3, SameWorld DEF RepInv, Made, Silent, AllSilent, made
  <2>. QED
    BY <1>1, <2>3, <2>5, <2>6 DEF RepInv
<1>3. CASE Says(dir, cur) = "none" /\ dir = Base
  <2>1. pc' = "exclude" /\ UNCHANGED <<cur, dir, result>>
    BY <1>0, <1>3 DEF Consult, Ascend
  <2>2. Speakers(cur) = {}
    <3>1. ASSUME NEW e \in Above[cur] PROVE Says(e, cur) = "none"
      <4>1. e = Base \/ Depth[e] > Depth[Base]
        BY <1>0, Hierarchy
      <4>. QED
        BY <1>0, <1>3, <4>1
    <3>. QED
      BY <3>1 DEF Speakers
  <2>3. TypeOK'
    BY <1>0, <2>1 DEF TypeOK, made
  <2>4. Made' /\ Open' /\ Silent' /\ AllSilent' /\ MatchFollowsRules'
    BY <1>0, <2>1, <2>2, SameWorld
    DEF RepInv, Made, Open, Going, Silent, AllSilent, MatchFollowsRules, Decided, made
  <2>. QED
    BY <1>1, <2>3, <2>4 DEF RepInv
<1>4. CASE Says(dir, cur) = "none" /\ dir # Base
  <2>1. pc' = pc /\ dir' = Up[dir] /\ UNCHANGED <<cur, result>>
    BY <1>0, <1>4 DEF Consult, Ascend
  <2>2. dir \in Below /\ Up[dir] \in Above[cur] /\ Depth[dir] = Depth[Up[dir]] + 1
    BY <1>0, <1>4, AboveFacts, Hierarchy DEF UpClosed
  <2>3. ASSUME NEW e \in Above[cur], Depth[e] > Depth[Up[dir]] PROVE Says(e, cur) = "none"
    <3>1. e = dir \/ e \in Above[dir] \/ dir \in Above[e]
      BY <1>0, AboveChain
    <3>2. e \in Below /\ Up[dir] \in Dir /\ Depth[e] \in Nat /\ Depth[Up[dir]] \in Nat
      BY <1>0, <2>2, <2>3, Hierarchy
    <3>3. CASE e \in Above[dir]
      <4>1. e = Up[dir] \/ e \in Above[Up[dir]]
        BY <2>2, <3>3, AboveStep
      <4>2. ~(e \in Above[Up[dir]])
        BY <2>3, <3>2, AboveFacts, AboveStep, Hierarchy
      <4>. QED
        BY <2>3, <3>2, <4>1, <4>2
    <3>4. CASE dir \in Above[e]
      <4>1. Depth[dir] < Depth[e]
        BY <3>2, <3>4, AboveFacts
      <4>. QED
        BY <1>0, <2>2, <3>2, <4>1
    <3>. QED
      BY <1>4, <3>1, <3>3, <3>4
  <2>4. TypeOK'
    BY <1>0, <2>1, <2>2, Hierarchy DEF TypeOK, made
  <2>5. Silent'
    BY <1>0, <2>1, <2>2, <2>3 DEF Silent, Says, says
  <2>6. Made' /\ Open' /\ AllSilent' /\ MatchFollowsRules'
    BY <1>0, <2>1, SameWorld
    DEF RepInv, Made, Open, Going, AllSilent, MatchFollowsRules, Decided, made
  <2>. QED
    BY <1>1, <2>4, <2>5, <2>6 DEF RepInv
<1>. QED
  BY <1>2, <1>3, <1>4

LEMMA RepStep == RepInv /\ [Next]_vars => RepInv'
<1>. SUFFICES ASSUME RepInv, [Next]_vars PROVE RepInv'
  OBVIOUS
<1>0. TypeOK
  BY DEF RepInv
<1>1. CASE NewRepository
  <2>1. UNCHANGED <<world, target, cur, dir, result, cached>> /\ pc' \in {"idle", "refused"}
    BY <1>1 DEF NewRepository, Refuse
  <2>2. TypeOK' /\ Made'
    <3>1. CASE pc' = "refused"
      BY <1>0, <1>1, <2>1, <3>1 DEF NewRepository, Refuse, TypeOK, Made
    <3>2. CASE pc' = "idle"
      <4>1. excluding' = (world.file /\ world.gitdir = "file") /\ error' = error /\ pc = "new"
        BY <1>1, <3>2 DEF NewRepository, Refuse
      <4>2. excluding' = HasExclude' /\ excluding' \in BOOLEAN
        BY <2>1, <4>1 DEF HasExclude
      <4>3. error' = (pc' = "refused")
        BY <1>0, <3>2, <4>1 DEF TypeOK
      <4>. QED
        BY <1>0, <2>1, <3>2, <4>2, <4>3 DEF TypeOK, Made
    <3>. QED
      BY <2>1, <3>1, <3>2
  <2>. QED
    BY <2>1, <2>2, SameWorld
    DEF RepInv, Open, Going, Silent, AllSilent, MatchFollowsRules, Decided, NoReadBelowIgnored
<1>2. CASE CallMatch
  <2>1. PICK p \in Path :
          /\ target' = p
          /\ \/ p \in Missing /\ Answer(Nil) /\ UNCHANGED cur
             \/ p \in Outside \cup {Base} /\ Answer(Nil) /\ UNCHANGED cur
             \/ p \in Below /\ cur' = Top(p) /\ pc' = "prefix" /\ UNCHANGED result
    BY <1>2 DEF CallMatch
  <2>2. pc = "idle" /\ UNCHANGED <<made, dir, cached>> /\ UNCHANGED <<world, error, excluding>>
    BY <1>2 DEF CallMatch, made
  <2>3. Nil \in Matches
    BY DEF Matches
  <2>4. CASE Answer(Nil) /\ UNCHANGED cur /\ p \notin Below \ Missing
    <3>1. TypeOK'
      BY <1>0, <2>1, <2>2, <2>3, <2>4 DEF Answer, TypeOK
    <3>. QED
      BY <2>1, <2>2, <2>4, <3>1, SameWorld
      DEF Answer, RepInv, Made, Open, Going, Silent, AllSilent, MatchFollowsRules, Decided,
          NoReadBelowIgnored
  <2>5. CASE p \in Below /\ cur' = Top(p) /\ pc' = "prefix" /\ UNCHANGED result
    <3>1. Top(p) \in Prefixes(p) /\ Above[Top(p)] = {Base} /\ Top(p) \in Dir \cup File
      BY <2>5, TopFacts, PrefixFacts, Hierarchy
    <3>2. TypeOK'
      BY <1>0, <2>1, <2>2, <2>5, <3>1 DEF TypeOK
    <3>3. Open'
      BY <2>1, <2>5, <3>1 DEF Open, IgnoredAmong
    <3>. QED
      BY <2>2, <2>5, <3>2, <3>3, SameWorld
      DEF RepInv, Made, Silent, AllSilent, MatchFollowsRules, Decided, NoReadBelowIgnored
  <2>6. \A x \in Outside \cup {Base} : x \notin Below
    BY RepositoryAssumption, Hierarchy
  <2>. QED
    BY <2>1, <2>4, <2>5, <2>6
<1>3. CASE Prefix
  <2>1. /\ pc = "prefix" /\ pc' = "consult" /\ dir' = Up[cur]
        /\ UNCHANGED <<target, cur, result, cached>> /\ UNCHANGED <<world, error, excluding>>
    BY <1>3 DEF Prefix, StartOf, made
  <2>2. cur \in Below /\ Open
    BY <2>1, PrefixFacts DEF RepInv, Open, Going
  <2>3. Up[cur] \in Above[cur] /\ Up[cur] \in Dir /\ Above[cur] \subseteq Dir
    BY <2>2, AboveFacts
  <2>4. \A e \in Above[cur] : ~(Depth[e] > Depth[Up[cur]])
    <3>1. \A e \in Above[cur] : Depth[e] \in Nat /\ Depth[e] < Depth[cur]
      BY <2>2, AboveFacts, Hierarchy
    <3>. QED
      BY <2>2, <2>3, <3>1, Hierarchy
  <2>5. TypeOK'
    BY <1>0, <2>1, <2>3 DEF TypeOK
  <2>6. Silent'
    BY <2>1, <2>3, <2>4 DEF Silent
  <2>. QED
    BY <2>1, <2>2, <2>5, <2>6, SameWorld
    DEF RepInv, Made, Open, Going, AllSilent, MatchFollowsRules, Decided, NoReadBelowIgnored
<1>4. CASE Consult
  BY <1>4, ConsultStep
<1>5. CASE ConsultExclude
  <2>. DEFINE m == IF excluding /\ says[<<Form, cur>>] # "none" THEN Match(Form, cur) ELSE Nil
  <2>1. /\ pc = "exclude" /\ NextPrefix(m) /\ UNCHANGED <<made, target, dir, cached>>
        /\ UNCHANGED <<world, error, excluding>> /\ Going
    BY <1>5 DEF ConsultExclude, made, Going
  <2>2. cur \in Below /\ cur \in Prefixes(target) /\ target \in Below /\ Speakers(cur) = {}
        /\ excluding = HasExclude
    BY <2>1, PrefixFacts DEF RepInv, Open, AllSilent, Made
  <2>3. m = Decider(cur, Form)
    BY <2>2 DEF Decider
  <2>4. m \in Matches
    <3>1. Form \in {Exclude, Slashed}
      BY DEF Form
    <3>. QED
      BY <2>2, <3>1, TopicFacts
  <2>. HIDE DEF m
  <2>5. Open' /\ MatchFollowsRules' /\ pc' \in {"prefix", "answered"}
    BY <2>1, <2>3, Decide
  <2>6. cur' \in Dir \cup File /\ result' \in Matches
    BY <1>0, <2>1, <2>2, <2>4, NextPrefixType
  <2>7. TypeOK'
    BY <1>0, <2>1, <2>5, <2>6 DEF TypeOK
  <2>. QED
    BY <2>1, <2>5, <2>7, SameWorld DEF RepInv, Made, Silent, AllSilent, NoReadBelowIgnored
<1>6. CASE Taken
  <2>1. /\ pc = "answered" /\ pc' = "idle" /\ target' = Base /\ cur' = Base /\ dir' = Base
        /\ result' = Nil /\ UNCHANGED cached /\ UNCHANGED <<world, error, excluding>>
    BY <1>6 DEF Taken, made
  <2>2. TypeOK'
    BY <1>0, <2>1, RepositoryAssumption DEF TypeOK, Path, Matches
  <2>. QED
    BY <2>1, <2>2, SameWorld
    DEF RepInv, Made, Open, Going, Silent, AllSilent, MatchFollowsRules, Decided, NoReadBelowIgnored
<1>7. CASE UNCHANGED vars
  <2>1. /\ UNCHANGED <<pc, target, cur, dir, result, cached>>
        /\ UNCHANGED <<world, error, excluding>>
    BY <1>7 DEF vars, made
  <2>2. TypeOK'
    BY <1>0, <2>1 DEF TypeOK
  <2>3. Silent'
    BY <2>1 DEF RepInv, Silent, Says, says
  <2>. QED
    BY <2>1, <2>2, <2>3, SameWorld
    DEF RepInv, Made, Open, Going, AllSilent, MatchFollowsRules, Decided, NoReadBelowIgnored
<1>. QED
  BY <1>1, <1>2, <1>3, <1>4, <1>5, <1>6, <1>7 DEF Next, Refused

LEMMA RepInit == Init => RepInv
BY TypeInit DEF Init, RepInv, Made, Open, Going, Silent, AllSilent, MatchFollowsRules, Decided,
                NoReadBelowIgnored

LEMMA RepCorrect == Spec => []RepInv
BY RepInit, RepStep, PTL DEF Spec

-----------------------------------------------------------------------------

\* The types of a repository's state; dir is always a directory above cur.
THEOREM RepositoryTypeCorrect == Spec => []TypeOK
<1>1. RepInv => TypeOK
  BY DEF RepInv
<1>. QED
  BY <1>1, RepCorrect, PTL

\* What Match answers is what the rules of repository.go's comments say, for
\* every hierarchy and whatever the files hold.
THEOREM MatchCorrect == Spec => []MatchFollowsRules
<1>1. RepInv => MatchFollowsRules
  BY DEF RepInv
<1>. QED
  BY <1>1, RepCorrect, PTL

\* No .gitignore below an ignored directory is ever loaded.
THEOREM ReadsCorrect == Spec => []NoReadBelowIgnored
<1>1. RepInv => NoReadBelowIgnored
  BY DEF RepInv
<1>. QED
  BY <1>1, RepCorrect, PTL
=============================================================================
