--------------------------- MODULE CausalBroadcast ---------------------------
(***************************************************************************)
(* What the replication promises, without saying how: every command is     *)
(* executed once by every node, the commands of one author in their order, *)
(* and no command before those it depends on.  A command is forgotten when *)
(* every node has executed it.  There are no matrices, packets, sessions   *)
(* or copies here: only the commands that somebody still has to execute.   *)
(***************************************************************************)
EXTENDS NodeData

CONSTANT Authors    \* bound: the nodes that create commands

VARIABLES
  created,    \* created[a]: how many commands a has created
  executed,   \* executed[p][a]: how many commands of a have been executed at p
  pending     \* the commands that some node has not executed yet

vars == <<created, executed, pending>>

TypeOK ==
  /\ created \in Row
  /\ executed \in [Nodes -> Row]
  /\ pending \subseteq Msg

Init ==
  /\ created = ZeroRow
  /\ executed = [p \in Nodes |-> ZeroRow]
  /\ pending = {}

Command(a, depends) ==
  [author |-> a, number |-> created[a], depends |-> depends, value |-> "command"]

Create(a, depends) ==
  /\ a \in Authors
  /\ created[a] < MaxCmd
  /\ depends \in {executed[a], ZeroRow}
  /\ created' = [created EXCEPT ![a] = @ + 1]
  /\ pending' = pending \cup {Command(a, depends)}
  /\ UNCHANGED executed

(* Node p may execute any commands at once that complete each other: each   *)
(* is the next one of its author after others among them, and depends on    *)
(* executed ones and others among them.                                     *)
CanReach(p, new) ==
  /\ executed[p] \preceq new
  /\ \A a \in Nodes, k \in Numbers : executed[p][a] <= k /\ k < new[a] =>
       \E m \in pending : m.author = a /\ m.number = k /\ m.depends \preceq new

(* The commands of S that some node has still to execute. *)
Unexecuted(S, counts) == {m \in S : \E q \in Nodes : counts[q][m.author] <= m.number}

Execute(p) ==
  \E new \in Row :
    /\ new # executed[p]
    /\ CanReach(p, new)
    /\ executed' = [executed EXCEPT ![p] = new]
    /\ pending' = Unexecuted(pending, executed')
    /\ UNCHANGED created

Next ==
  \E p \in Nodes :
    \/ \E depends \in {executed[p], ZeroRow} : Create(p, depends)
    \/ Execute(p)

Spec == Init /\ [][Next]_vars

-----------------------------------------------------------------------------
(* Dependencies never block each other: if a node has not executed          *)
(* everything, there is a command that is the next one of its author there  *)
(* and whose dependencies are all executed there.                           *)
NoCausalDeadlock ==
  \A p \in Nodes : executed[p] # created =>
    \E m \in pending : Executable(m, executed[p])

(* A command is kept as long as somebody needs it, and once.               *)
PendingIsExact ==
  \A a \in Nodes, k \in Numbers :
    LET copies == {m \in pending : m.author = a /\ m.number = k}
    IN  IF k < created[a] /\ \E p \in Nodes : executed[p][a] <= k
        THEN \E m \in pending : copies = {m}
        ELSE copies = {}

(* The inductive invariant.  What a command depends on was complete when it *)
(* was created: with a command, it has all that this one depends on.        *)
PastsComplete ==
  \A m \in pending :
    /\ m.depends \preceq created
    /\ m.depends[m.author] <= m.number
    /\ \A x \in pending : x.number < m.depends[x.author] => x.depends \preceq m.depends
    /\ \A p \in Nodes : m.number < executed[p][m.author] => m.depends \preceq executed[p]

BroadcastInv ==
  /\ TypeOK
  /\ \A p \in Nodes : executed[p] \preceq created
  /\ PendingIsExact
  /\ PastsComplete
=============================================================================
