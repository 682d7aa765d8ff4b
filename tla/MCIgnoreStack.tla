--------------------------- MODULE MCIgnoreStack ---------------------------
(***************************************************************************)
(* r with a and b below it, each with two subdirectories: two goroutines,  *)
(* and calls one after the other below each of them.                       *)
(***************************************************************************)
EXTENDS IgnoreStack

CONSTANTS r, a, b, ax, ay, bx

TreeDir == {r, a, b, ax, ay, bx}
TreeParent == [d \in TreeDir |-> CASE d \in {ax, ay} -> a [] d = bx -> b [] OTHER -> r]
TreeDepth == [d \in TreeDir |-> IF d = r THEN 0 ELSE IF d \in {a, b} THEN 1 ELSE 2]

\* gitignores: .gitignore and .git/info/exclude give a directory at most two
\* rules.  Below a the list has a spare cell that ax and ay use in turn.
GitAdds == [d \in TreeDir |-> IF d \in {r, b} THEN 2 ELSE 1]

\* moduleIgnores or customIgnores: three rules in the root, in an array of four.
CustomAdds == [d \in TreeDir |-> IF d = r THEN 3 ELSE 1]
=============================================================================
