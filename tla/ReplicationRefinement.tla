------------------------ MODULE ReplicationRefinement ------------------------
(***************************************************************************)
(* Replication implements CausalBroadcast.  What is created is what the    *)
(* authors' own counters say; what is pending is what some node stores and *)
(* some node has not executed.                                             *)
(***************************************************************************)
EXTENDS Replication

StoredSomewhere == UNION {messages[p] : p \in Nodes}

StillNeeded ==
  {m \in StoredSomewhere : \E q \in Nodes : command_to_exec[q][m.author] <= m.number}

Abstract == INSTANCE CausalBroadcast WITH
  created  <- [a \in Nodes |-> Created(a)],
  executed <- command_to_exec,
  pending  <- StillNeeded

(* Dependencies never block each other: if a node has not executed          *)
(* everything that was created, some command that is stored somewhere is    *)
(* executable there.                                                        *)
NoCausalDeadlock == Abstract!NoCausalDeadlock

(* All copies of a command are the same, and there is one as long as some   *)
(* node has not executed it.                                                *)
PendingIsExact == Abstract!PendingIsExact

(* Packets, sessions, copies, repairs and forgetting do not show: whatever  *)
(* the nodes do is, as far as execution is concerned, causal broadcast.     *)
ImplementsCausalBroadcast == Abstract!Spec
=============================================================================
