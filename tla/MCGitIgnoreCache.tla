-------------------------- MODULE MCGitIgnoreCache --------------------------
EXTENDS GitIgnoreCache, TLC

CONSTANTS c1, c2, c3, p, q

\* The goroutines that wait for the map behave alike.
Waiting == Permutations({c2, c3})
=============================================================================
