------------------------- MODULE MCPruningProcessor -------------------------
(***************************************************************************)
(* Small trees for PruningProcessor: a main chain 0 - 1 - ... - MainLength *)
(* and one fork, whose blocks have the remaining numbers.  The blue score  *)
(* grows by two at the blocks of one of the sets of Jumps.                 *)
(***************************************************************************)
EXTENDS PruningProcessor

CONSTANTS MainLength, ForkLength, ForkPoints, Jumps

Numbers == 0..(MainLength + ForkLength)

ForkedAt(f) ==
    [b \in Numbers |-> IF b = 0 THEN 0 ELSE IF b = MainLength + 1 THEN f ELSE b - 1]

Scores(par, jumps) ==
    LET at[b \in Numbers] ==
            IF b = 0 THEN 0 ELSE at[par[b]] + (IF b \in jumps THEN 2 ELSE 1)
    IN  at

Trees ==
    {[parent |-> ForkedAt(f), score |-> Scores(ForkedAt(f), J)] :
        f \in ForkPoints, J \in Jumps}
=============================================================================
