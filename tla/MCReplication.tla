--------------------------- MODULE MCReplication ---------------------------
(* Small groups for TLC. *)
EXTENDS ReplicationRefinement

NoLinks   == {}
PairLinks == {<<1, 2>>, <<2, 1>>}

(* Nodes 1 and 3 never meet: what they know of each other comes from 2. *)
ChainLinks == {<<1, 2>>, <<2, 1>>, <<2, 3>>, <<3, 2>>}
=============================================================================
