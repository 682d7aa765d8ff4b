--------------------------- MODULE MCFileWalker ---------------------------
(***************************************************************************)
(* Trees and configurations on which TLC checks FileWalker.                *)
(*                                                                         *)
(*   r ---- fr          the root                                           *)
(*   r/a -- fa          depth 1, a goroutine that needs a slot             *)
(*   r/a/b - fb         depth 2, a call                                    *)
(*   r/c -- fc          depth 1                                            *)
(*   r/x -- fx          depth 1, ignored                                   *)
(***************************************************************************)
EXTENDS FileWalker

CONSTANTS r, a, b, c, x, q, fr, fa, fb, fc, fx, fq

TreeDir == {r, a, b, c, x}
TreeFile == {fr, fa, fb, fc, fx}
TreeParent == [d \in TreeDir |-> IF d = b THEN a ELSE r]
TreeDepth == [d \in TreeDir |-> IF d = r THEN 0 ELSE IF d = b THEN 2 ELSE 1]
TreeHome == [f \in TreeFile |-> CASE f = fr -> r [] f = fa -> a [] f = fb -> b
                                  [] f = fc -> c [] f = fx -> x]

\* One root: nothing is reached twice.
TreeOrigin == [d \in TreeDir |-> r]
TreePlace == [f \in TreeFile |-> f]

\* Two roots walked in parallel that overlap: r with a and a/b below it, and r/a
\* once more as the root q, where a/b is c.  MaxDepth 2 cuts off a/b below r and
\* not below q.
TwoDir == {r, a, b, q, c}
TwoFile == {fr, fa, fb, fq, fc}
TwoParent == [d \in TwoDir |-> CASE d = a -> r [] d = b -> a [] d = c -> q [] OTHER -> d]
TwoDepth == [d \in TwoDir |-> IF d \in {r, q} THEN 0 ELSE IF d = b THEN 2 ELSE 1]
TwoHome == [f \in TwoFile |-> CASE f = fr -> r [] f = fa -> a [] f = fb -> b
                                [] f = fq -> q [] f = fc -> c]
TwoOrigin == [d \in TwoDir |-> IF d \in {q, c} THEN q ELSE r]
TwoPlace == [f \in TwoFile |-> CASE f = fq -> fa [] f = fc -> fb [] OTHER -> f]

\* The smallest tree with two goroutines of depth 1.
SmallDir == {r, a, c}
SmallFile == {fa, fc}
SmallParent == [d \in SmallDir |-> r]
SmallDepth == [d \in SmallDir |-> IF d = r THEN 0 ELSE 1]
SmallHome == [f \in SmallFile |-> IF f = fa THEN a ELSE c]
SmallOrigin == [d \in SmallDir |-> r]
SmallPlace == [f \in SmallFile |-> f]

Unlimited == -1
=============================================================================
