--------------------------- MODULE MCBlockChain ---------------------------
(***************************************************************************)
(* A tree of six blocks for TLC: two branches after g, each with a block   *)
(* that fails CheckBlock and so does not connect: a2 with a sound block    *)
(* after it, c2 at the end of the branch with more trust.                  *)
(*                                                                         *)
(*     g -- a1 -- a2 -- a3                                                 *)
(*       \- c1 -- c2                                                       *)
(***************************************************************************)
EXTENDS BlockChain

CONSTANTS g, a1, a2, a3, c1, c2

MCBlock == {g, a1, a2, a3, c1, c2}

MCPrev == [b \in MCBlock |-> CASE b = g -> NoBlock
                               [] b \in {a1, c1} -> g
                               [] b = a2 -> a1
                               [] b = a3 -> a2
                               [] b = c2 -> c1]

MCChain[b \in MCBlock] == IF b = g THEN <<g>> ELSE Append(MCChain[MCPrev[b]], b)

MCWork[b \in MCBlock] == IF b = g THEN 1
                         ELSE MCWork[MCPrev[b]] + (IF b = c1 THEN 3 ELSE 1)

MCCheckOk == MCBlock \ {a2, c2}
=============================================================================
