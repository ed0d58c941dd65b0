--------------------------- MODULE DurableChain ---------------------------
(***************************************************************************)
(* What the block store promises: a chain on disk that only ever grows by  *)
(* one block at its end, and a view of it in memory that is never ahead of *)
(* the disk, at most one block behind, and after a restart is the disk's.  *)
(***************************************************************************)
EXTENDS Integers, Sequences

CONSTANTS
    Block,      \* hashes of blocks
    Genesis,    \* the first block of every chain
    Prev        \* hashPrevBlock of every block

VARIABLES
    durable,    \* the chain that a restart would bring back
    view,       \* the chain that the running node works with
    up          \* the node has a view

vars == <<durable, view, up>>

Init ==
    /\ durable = <<>>
    /\ view = <<>>
    /\ up = FALSE

\* A block is committed on top of the view.
Commit(b) ==
    /\ up
    /\ view = durable
    /\ IF durable = <<>> THEN b = Genesis ELSE Prev[b] = durable[Len(durable)]
    /\ durable' = Append(durable, b)
    /\ UNCHANGED <<view, up>>

\* The view catches up with the commit.
Publish ==
    /\ up
    /\ view' = durable
    /\ UNCHANGED <<durable, up>>

Stop ==
    /\ up
    /\ up' = FALSE
    /\ view' = <<>>
    /\ UNCHANGED durable

Start ==
    /\ ~up
    /\ up' = TRUE
    /\ view' = durable
    /\ UNCHANGED durable

Next == (\E b \in Block : Commit(b)) \/ Publish \/ Stop \/ Start

Spec == Init /\ [][Next]_vars
=============================================================================
