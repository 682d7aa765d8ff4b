--------------------------- MODULE MCIgnoreParser ---------------------------
(***************************************************************************)
(* Every line of up to MaxLine runes, alone or followed by a line that     *)
(* holds a pattern: the recovery has something to lose.                    *)
(***************************************************************************)
EXTENDS IgnoreParser

CONSTANT MaxLine

Lines == UNION {[1..n -> Runes] : n \in 0..MaxLine}
TwoLines == Lines \cup {l \o <<"nl", "char">> : l \in Lines}
=============================================================================
