---------------------------- MODULE MCDepsManager ----------------------------
(***************************************************************************)
(* Small instances of DepsManager: a chain of blocks a, b and a block c    *)
(* with the parents a and b, all of which may be pending at once, and      *)
(* duplicated requests for the first parent and for the last child.        *)
(***************************************************************************)
EXTENDS DepsManager, TLC

CONSTANTS a, b, c, a1, a2, b1, c1, c2

MCBlock == {a, b, c}
MCParents == [h \in MCBlock |-> CASE h = a -> {} [] h = b -> {a} [] h = c -> {a, b}]
MCTask == {a1, a2, b1, c1, c2}
MCHashOf == [t \in MCTask |-> CASE t \in {a1, a2} -> a [] t = b1 -> b [] t \in {c1, c2} -> c]

=============================================================================
