-------------------------- MODULE MCFilterPipeline --------------------------
(***************************************************************************)
(* Files and a subdirectory before the filter.  f has its null byte at the *)
(* edge of the two bytes the binary check looks at, g is as long as its    *)
(* buffer and has none.                                                    *)
(***************************************************************************)
EXTENDS FilterPipeline

CONSTANTS f, g, d

\* Every combination of the filters that decide both ways, all others on.
Others == StageNames \ (Decides \cup {"binary"})
AnyFilters == {Others \cup D : D \in SUBSET Decides}

\* The binary check behind stages that may have decided before it.
BinaryOn == {{"gitignore", "hidden", "binary"}, {"exclude_list_extension", "binary"}}

AllConfigs == AnyFilters \cup BinaryOn

LongSize == [x \in {f, g} |-> IF x = f THEN 3 ELSE 2]
LongNul == [x \in {f, g} |-> IF x = f THEN 2 ELSE 0]
=============================================================================
