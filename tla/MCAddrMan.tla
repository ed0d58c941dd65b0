----------------------------- MODULE MCAddrMan -----------------------------
(***************************************************************************)
(* Four addresses for TLC, one per host; two new buckets of one entry,     *)
(* which every host can reach through one of two sources, and one tried    *)
(* bucket of two entries, so that both kinds of bucket fill up.            *)
(***************************************************************************)
EXTENDS AddrMan, TLC

CONSTANTS h1, h2, h3, h4, p, q

MCService == {<<h1, 1>>, <<h2, 1>>, <<h3, 1>>, <<h4, 1>>}

MCSource == {p, q}

MCIp == [s \in MCService |-> s[1]]

MCNewBucketOf == [h \in {h1, h2, h3, h4} |-> [src \in MCSource |-> IF src = p THEN 1 ELSE 2]]

MCTriedBucketOf == [s \in MCService |-> 1]

MCSymmetry == Permutations({h1, h2, h3, h4})
=============================================================================
