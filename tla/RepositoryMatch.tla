-------------------------- MODULE RepositoryMatch --------------------------
(***************************************************************************)
(* A repository (src/go-gitignore/repository.go): NewRepository with the   *)
(* exclude file it looks for (exclude.go), Match, Absolute and the         *)
(* recursive Relative, and the cache that holds each .gitignore.           *)
(*                                                                         *)
(* Relative first calls itself for the parent directory, so the prefixes   *)
(* of the path are decided from the top: cur is the prefix in hand, dir    *)
(* the directory whose .gitignore is consulted about it.  What a .gitignore*)
(* says of a path is data.                                                 *)
(***************************************************************************)
EXTENDS Integers, FiniteSets

CONSTANTS
  Dir,       \* directories of the working copy
  File,      \* its files
  Base,      \* its root directory
  Up,        \* [(Dir \ {Base}) \cup File -> Dir]
  Depth,     \* [Dir \cup File -> Nat]
  Outside,   \* paths that are not under Base
  Missing,   \* paths that may not exist when they are asked for
  Worlds     \* [says, broken, gitdir, file, isdir]: what the files of patterns say,
             \* the directories whose .gitignore cannot be read, what exclude finds,
             \* whether the files are called ".gitignore", whether Base is a directory

ASSUME RepositoryAssumption ==
  /\ Base \in Dir
  /\ Dir \cap File = {} /\ Outside \cap (Dir \cup File) = {}
  /\ Up \in [(Dir \ {Base}) \cup File -> Dir]
  /\ Depth \in [Dir \cup File -> Nat]
  /\ Depth[Base] = 0
  /\ \A p \in DOMAIN Up : Depth[p] = Depth[Up[p]] + 1

Below == DOMAIN Up                 \* the paths a pattern can be about
Path == Dir \cup File \cup Outside

Above[p \in Dir \cup File] == IF p = Base THEN {} ELSE Above[Up[p]] \cup {Up[p]}
Prefixes(p) == IF p = Base THEN {} ELSE (Above[p] \cup {p}) \ {Base}

\* What a file of patterns says of a path below it: nothing, or what its last
\* matching pattern says.
Opinion == {"none", "ignore", "include"}

\* $GIT_DIR/info/exclude, asked about a path as Match was given it; and asked
\* about a parent, which comes with the separator at the end that
\* filepath.Split leaves there and is another path to its patterns.
Exclude == "exclude"
Slashed == "exclude, separator at the end"

Topic == (UNION {Above[p] \X {p} : p \in Below}) \cup ({Exclude, Slashed} \X Below)

\* What exclude() finds: no $GIT_DIR or something else in its place, no
\* info/exclude in it, a stat or an open that fails, or the file.
GitDirs == {"none", "no directory", "no file", "stat fails", "open fails", "file"}

ASSUME WorldsAssumption ==
  Worlds \subseteq [says : [Topic -> Opinion], broken : SUBSET Dir, gitdir : GitDirs,
                    file : BOOLEAN, isdir : BOOLEAN]

\* A match names the file of patterns and the path it spoke about.
Match(where, p) == [by |-> where, of |-> p]
Nil == [by |-> "nobody", of |-> "nothing"]

VARIABLES
  world,    \* the member of Worlds this is
  pc,       \* "new", "refused", "idle", "prefix", "consult", "exclude" or "answered"
  error,    \* an error with a zero position has come to the handler
  excluding, \* _exclude is not nil
  target,   \* the path asked for
  cur,      \* the prefix of it that is being decided
  dir,      \* the directory whose .gitignore comes next
  result,   \* what Match returns
  cached    \* directories whose .gitignore is in the cache

made == <<world, error, excluding>>
vars == <<made, pc, target, cur, dir, result, cached>>

says == world.says
Says(d, p) == IF d \in world.broken THEN "none" ELSE says[<<d, p>>]
Ignoring(m) == m # Nil /\ says[<<m.by, m.of>>] = "ignore"

-----------------------------------------------------------------------------

Refuse == error' = TRUE /\ pc' = "refused"

ExcludeLost == world.file /\ world.gitdir \in {"stat fails", "open fails"}

\* NewRepository and what it calls down to NewRepositoryWithCache: Base has to
\* be a directory, and the exclude file, which is looked for when the files are
\* called ".gitignore", readable if it is there.
NewRepository ==
  /\ pc = "new"
  /\ \/ (~world.isdir \/ ExcludeLost) /\ Refuse /\ UNCHANGED excluding
     \/ /\ world.isdir /\ ~ExcludeLost
        /\ excluding' = (world.file /\ world.gitdir = "file")
        /\ pc' = "idle"
        /\ UNCHANGED error
  /\ UNCHANGED <<world, target, cur, dir, result, cached>>

Answer(m) == result' = m /\ pc' = "answered"

\* The topmost prefix of p: Relative has called itself down to ".".
Top(p) == CHOOSE q \in Prefixes(p) : Depth[q] = 1

\* Match and Absolute: the path has to exist and to lie under Base.
CallMatch ==
  /\ pc = "idle"
  /\ \E p \in Path :
       /\ target' = p
       /\ \/ /\ p \in Missing
             /\ Answer(Nil)
             /\ UNCHANGED cur
          \/ /\ p \in Outside \cup {Base}
             /\ Answer(Nil)
             /\ UNCHANGED cur
          \/ /\ p \in Below
             /\ cur' = Top(p)
             /\ pc' = "prefix"
             /\ UNCHANGED result
  /\ UNCHANGED <<made, dir, cached>>

\* Broken variant: a directory's own .gitignore is asked about it.
StartInside(p) == IF p \in Dir THEN p ELSE Up[p]

\* The search for the prefix begins in its own directory.
StartOf(p) == Up[p]

Prefix ==
  /\ pc = "prefix"
  /\ dir' = StartOf(cur)
  /\ pc' = "consult"
  /\ UNCHANGED <<made, target, cur, result, cached>>

\* Broken variant: a decided prefix ends the search, ignored or not.
NextPrefixUnlessDecided(m) ==
  IF cur = target \/ m # Nil
  THEN Answer(m) /\ UNCHANGED cur
  ELSE /\ cur' = CHOOSE q \in Prefixes(target) : Depth[q] = Depth[cur] + 1
       /\ pc' = "prefix"
       /\ UNCHANGED result

\* Broken variant: the parent is not looked at.
NextPrefixOnly(m) ==
  IF cur = target
  THEN Answer(m) /\ UNCHANGED cur
  ELSE /\ cur' = CHOOSE q \in Prefixes(target) : Depth[q] = Depth[cur] + 1
       /\ pc' = "prefix"
       /\ UNCHANGED result

\* The prefix is decided by m: an ignored parent settles the whole path,
\* otherwise the search goes on with the next prefix.
NextPrefix(m) ==
  IF cur = target \/ Ignoring(m)
  THEN Answer(m) /\ UNCHANGED cur
  ELSE /\ cur' = CHOOSE q \in Prefixes(target) : Depth[q] = Depth[cur] + 1
       /\ pc' = "prefix"
       /\ UNCHANGED result

\* NewWithCache: a file is read at the first use.  A failure goes to the error
\* handler, whose answer nobody looks at, and leaves an instance without
\* patterns in the cache.
LoadFile == cached' = cached \cup {dir}

\* Broken variant: the loop does not end at the root.
AscendForever == IF dir = Base THEN UNCHANGED <<pc, dir>> ELSE dir' = Up[dir] /\ UNCHANGED pc

\* To the next directory up the path, or out of the loop at the root.
Ascend == IF dir = Base
          THEN pc' = "exclude" /\ UNCHANGED dir
          ELSE dir' = Up[dir] /\ UNCHANGED pc

\* One turn of the loop up the hierarchy.
Consult ==
  /\ pc = "consult"
  /\ LoadFile
  /\ IF Says(dir, cur) # "none"
     THEN NextPrefix(Match(dir, cur)) /\ UNCHANGED dir
     ELSE Ascend /\ UNCHANGED <<cur, result>>
  /\ UNCHANGED <<made, target>>

\* The path as Relative was given it, not as filepath.Clean makes it.
Form == IF cur = target THEN Exclude ELSE Slashed

\* No .gitignore has a match: $GIT_DIR/info/exclude is asked.
ConsultExclude ==
  /\ pc = "exclude"
  /\ NextPrefix(IF excluding /\ says[<<Form, cur>>] # "none" THEN Match(Form, cur) ELSE Nil)
  /\ UNCHANGED <<made, target, dir, cached>>

\* The caller has its answer and may call again.
Taken ==
  /\ pc = "answered"
  /\ pc' = "idle"
  /\ target' = Base
  /\ cur' = Base
  /\ dir' = Base
  /\ result' = Nil
  /\ UNCHANGED <<made, cached>>

Init ==
  /\ world \in Worlds
  /\ pc = "new"
  /\ error = FALSE /\ excluding = FALSE
  /\ target = Base /\ cur = Base /\ dir = Base
  /\ result = Nil
  /\ cached = {}

\* NewRepository has returned an error.
Refused == pc = "refused" /\ UNCHANGED vars

Next == NewRepository \/ Refused \/ CallMatch \/ Prefix \/ Consult \/ ConsultExclude \/ Taken

Spec == Init /\ [][Next]_vars

FairSpec == Spec /\ WF_vars(Prefix) /\ WF_vars(Consult) /\ WF_vars(ConsultExclude)

-----------------------------------------------------------------------------
(* Properties                                                              *)

Matches == {Match(t[1], t[2]) : t \in Topic} \cup {Nil}

\* Every variable has its type; dir is always a directory above cur, also at
\* the end of the loop up the hierarchy.
TypeOK ==
  /\ world \in Worlds
  /\ pc \in {"new", "refused", "idle", "prefix", "consult", "exclude", "answered"}
  /\ error = (pc = "refused") /\ excluding \in BOOLEAN
  /\ target \in Path
  /\ cur \in Dir \cup File
  /\ dir \in Dir
  /\ pc = "consult" => dir \in Above[cur]
  /\ result \in Matches
  /\ cached \subseteq Dir

(***************************************************************************)
(* The rules, from the comments of repository.go: a .gitignore in a lower  *)
(* directory overrides one in a higher directory, the exclude file comes   *)
(* last, and a child path cannot be considered if its parent is ignored.   *)
(* What the exclude file says of a path is under the topic ex.             *)
(***************************************************************************)
Speakers(p) == {d \in Above[p] : Says(d, p) # "none"}
Nearest(D) == CHOOSE d \in D : \A e \in D : Depth[e] <= Depth[d]
HasExclude == world.file /\ world.gitdir = "file"
Decider(p, ex) ==
  IF Speakers(p) # {} THEN Match(Nearest(Speakers(p)), p)
  ELSE IF HasExclude /\ says[<<ex, p>>] # "none" THEN Match(ex, p) ELSE Nil

IgnoredAmong(P, ex) == {q \in P : Ignoring(Decider(q, ex))}
Topmost(P) == CHOOSE q \in P : \A x \in P : Depth[q] <= Depth[x]
RuledBy(p, ex) ==
  LET above == IgnoredAmong(Prefixes(p) \ {p}, ex)
  IN IF above = {} THEN Decider(p, Exclude) ELSE Decider(Topmost(above), ex)

Decided == pc = "answered" /\ target \in Below \ Missing

\* The recursion and the loop of Relative come to what the rules say, whatever
\* the files hold and whichever of them cannot be read: the topmost ignored
\* prefix decides, otherwise the nearest file that has a match.  The exclude
\* file is heard on a parent in the form in which it is asked.
MatchFollowsRules == Decided => result = RuledBy(target, Slashed)

\* repository.go:215, "a child path cannot be considered if its parent is
\* ignored", also by the exclude file.
ExcludedParentIgnored == Decided => result = RuledBy(target, Exclude)

\* A .gitignore inside an ignored directory is never read.
NoReadBelowIgnored == \A d \in cached : IgnoredAmong(Prefixes(d), Slashed) = {}

\* Every call of Match ends: the loop up the hierarchy and the recursion down
\* to the path both come to their end.
CallsEnd == pc = "prefix" ~> pc = "answered"
=============================================================================
