--------------------------- MODULE MCBlockPipeline ---------------------------
(***************************************************************************)
(* Small instances of BlockPipeline: two children a and b of the genesis   *)
(* block g and a block c that merges them.                                 *)
(***************************************************************************)
EXTENDS BlockPipeline, TLC

CONSTANTS g, a, b, c, ta, ta2, tb, tc

MCBlock == {g, a, b, c}
MCParents == [h \in MCBlock |-> CASE h = g -> {} [] h \in {a, b} -> {g} [] h = c -> {a, b}]

\* b arrives as a trusted block.
MCHashOf == [t \in {ta, tb, tc} |-> CASE t = ta -> a [] t = tb -> b [] t = tc -> c]

\* A chain g <- a <- c in which a is requested twice.
MCChainParents == [h \in {g, a, c} |-> CASE h = g -> {} [] h = a -> {g} [] h = c -> {a}]
MCChainHashOf == [t \in {ta, ta2, tc} |-> IF t = tc THEN c ELSE a]
=============================================================================
