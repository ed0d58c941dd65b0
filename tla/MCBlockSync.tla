---------------------------- MODULE MCBlockSync ----------------------------
(***************************************************************************)
(* A network for TLC. Two blocks compete after g, one of them with a       *)
(* timestamp more than 1000 seconds late, b3 is refused by AcceptBlock,    *)
(* and f is so far ahead in time that the handler drops it.                *)
(*                                                                         *)
(*     g -- b1 -- b2 -- b3                                                 *)
(*       \- c1 -- f                                                        *)
(***************************************************************************)
EXTENDS BlockSync

CONSTANTS g, b1, b2, b3, c1, f

ForkBlock == {g, b1, b2, b3, c1, f}

MCPrevOf(b) == CASE b = g -> NoBlock
                 [] b \in {b1, c1} -> g
                 [] b = b2 -> b1
                 [] b = b3 -> b2
                 [] b = f -> c1

ForkPrev == [b \in ForkBlock |-> MCPrevOf(b)]

ForkChain[b \in ForkBlock] == IF b = g THEN <<g>> ELSE Append(ForkChain[MCPrevOf(b)], b)

ForkWork == [b \in ForkBlock |-> Len(ForkChain[b])]

ForkHeaderOk == ForkBlock \ {b3}

\* In units of 8 seconds. b2 is 1600 seconds older than b1: when b1 is the best
\* block the scan blanks it, when c1 is, it does not.
ForkTime == [b \in ForkBlock |-> CASE b = g -> 1000
                                   [] b = b1 -> 1300
                                   [] b = b2 -> 1310
                                   [] b = b3 -> 1100
                                   [] b = c1 -> 1010
                                   [] b = f -> 900000]

\* Every block is on time, so that both competing blocks stay in the buffer.
SiblingTime == [b \in ForkBlock |-> 1000 + 10 * Len(ForkChain[b])]
=============================================================================
