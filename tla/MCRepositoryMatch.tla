------------------------- MODULE MCRepositoryMatch -------------------------
(***************************************************************************)
(* base/d/e/f: a file three levels down, so that two .gitignore files may  *)
(* overrule the one above them and two directories may be ignored over it. *)
(* The exclude file has no "!" about the directories, and what it says of  *)
(* one with a separator at the end is what it says without, or nothing:    *)
(* a pattern that matches only one of the two forms, or both.              *)
(***************************************************************************)
EXTENDS RepositoryMatch

CONSTANTS base, d, e, f, o

TreeUp == [p \in {d, e, f} |-> CASE p = d -> base [] p = e -> d [] p = f -> e]
TreeDepth == [p \in {base, d, e, f} |->
                CASE p = base -> 0 [] p = d -> 1 [] p = e -> 2 [] p = f -> 3]

Sayings ==
  {s \in [Topic -> Opinion] :
     /\ s[Slashed, f] = "none"
     /\ \A p \in {d, e} : s[Exclude, p] # "include" /\ s[Slashed, p] \in {"none", s[Exclude, p]}}

Open == [says : Sayings, broken : {{}, {d}}, gitdir : {"file"}, file : {TRUE}, isdir : {TRUE}]

\* The exclude file would ignore everything.
Ignored == [t \in Topic |-> IF t[1] = Exclude THEN "ignore" ELSE "none"]
Other == [says : {Ignored}, broken : {{}}, gitdir : GitDirs, file : BOOLEAN, isdir : BOOLEAN]

AllWorlds == Open \cup Other

\* The exclude file ignores the directory d, by a pattern that matches it without
\* a separator at its end, and says nothing of what is in it.
OnlyD == [t \in Topic |-> IF t = <<Exclude, d>> THEN "ignore" ELSE "none"]
ExcludeOnly == [says : {OnlyD}, broken : {{}}, gitdir : {"file"}, file : {TRUE}, isdir : {TRUE}]
=============================================================================
