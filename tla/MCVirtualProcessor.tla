------------------------- MODULE MCVirtualProcessor -------------------------
(***************************************************************************)
(* Small DAGs for VirtualProcessor.  A configuration chooses a set of      *)
(* blocks that contains the parents of its blocks.                         *)
(***************************************************************************)
EXTENDS VirtualProcessor, TLC

CONSTANTS g, a, b, k, d, e, f, m

\* Two branches a - b and k - d that e merges, and the single block f:
\* up to three tips.
Fork ==
    LET all == (g :> {}) @@ (a :> {g}) @@ (b :> {a}) @@ (k :> {g}) @@ (d :> {k}) @@ (e :> {b, d})
                 @@ (f :> {g})
    IN  [x \in Block |-> all[x]]

\* Two branches a - b - f and k - d, the block e that merges b and d, and the
\* sibling m of b.  The chain of e goes through d: a is below e, but not on
\* its chain.
Merge ==
    LET all == (g :> {}) @@ (a :> {g}) @@ (b :> {a}) @@ (k :> {g}) @@ (d :> {k}) @@ (e :> {b, d})
                 @@ (f :> {b}) @@ (m :> {a})
    IN  [x \in Block |-> all[x]]

\* A branch a - b - k, the sibling e of b, and the single block d.
Sibling ==
    LET all == (g :> {}) @@ (a :> {g}) @@ (b :> {a}) @@ (k :> {b}) @@ (d :> {g}) @@ (e :> {a})
    IN  [x \in Block |-> all[x]]

\* The order of the hashes; a is the heaviest child of genesis.
Hashes ==
    LET all == (g :> 0) @@ (a :> 7) @@ (b :> 2) @@ (k :> 3) @@ (d :> 4) @@ (e :> 1) @@ (f :> 6)
                 @@ (m :> 5)
    IN  [x \in Block |-> all[x]]
=============================================================================
