------------------------------ MODULE NodeData ------------------------------
(***************************************************************************)
(* The data a node keeps about the commands of its group (src/core.h) and  *)
(* the pure parts of the operations of class Core on it (src/core.cpp).    *)
(*                                                                         *)
(* Every node numbers the commands it creates 0, 1, 2, ...  A row tells,   *)
(* for each author, how many commands are known; a matrix holds the row of *)
(* every node as far as its owner knows.  A UUID is modelled by its rank   *)
(* in UUID order, because the code iterates over maps ordered by UUID.     *)
(***************************************************************************)
EXTENDS Integers, FiniteSets, FiniteSetsExt

CONSTANTS
  Nodes,     \* the members of the group (ranks of their UUIDs)
  MaxCmd     \* bound: how many commands one node may create

ASSUME NodesAssumption  == Nodes \subseteq Nat /\ Nodes # {} /\ IsFiniteSet(Nodes)
ASSUME MaxCmdAssumption == MaxCmd \in Nat

Count   == 0 .. MaxCmd
Numbers == 0 .. MaxCmd - 1
Row    == [Nodes -> Count]     \* Node::matrix_row, and the vector of Node::command_to_exec
Matrix == [Nodes -> Row]       \* the rows of map<UUID, Node>

(* What a command carries that the replication can tell apart: a command   *)
(* of the group, or the placeholder check_matrix() makes up for a lost one. *)
Values == {"command", "BAD MESSAGE"}

Msg == [author : Nodes, number : Numbers, depends : Row, value : Values]

ZeroRow    == [a \in Nodes |-> 0]
ZeroMatrix == [n \in Nodes |-> ZeroRow]

(* A command without "depends" waits for nothing, like one that depends on *)
(* command number 0 of everybody.                                          *)
BadMessage(a, k) ==
  [author |-> a, number |-> k, depends |-> ZeroRow, value |-> "BAD MESSAGE"]

v \preceq w == \A a \in Nodes : v[a] <= w[a]

-----------------------------------------------------------------------------
(* set<Msg>: ordered by author, then by number; one message for each pair. *)

Stored(S, a, k) == \E m \in S : m.author = a /\ m.number = k

Before(x, m) ==
  \/ x.author < m.author
  \/ x.author = m.author /\ x.number < m.number

(* set::insert keeps the message that is already there. *)
Insert(S, T) == S \cup {m \in T : ~Stored(S, m.author, m.number)}

(* Slip: a message that cannot be dealt with is skipped, the loop goes on. *)
FilePrefixesSkipping(S) == SUBSET S

(* What a loop over the set has dealt with when it ends early. *)
FilePrefixes(S) == {T \in SUBSET S : \A m \in T : \A x \in S : Before(x, m) => x \in T}

(* Matrix::update(): the rows of both matrices, cell by cell the larger. *)
Update(M, src) ==
  [n \in Nodes |-> [a \in Nodes |->
     IF M[n][a] < src[n][a] THEN src[n][a] ELSE M[n][a]]]

(* The counters after add_cmd() for the messages of T, that are now in S:  *)
(* for their authors, up to the first message that is not stored.          *)
Advanced(row, S, T, new) ==
  \A a \in Nodes :
    IF \E m \in T : m.author = a
    THEN /\ row[a] <= new[a]
         /\ ~Stored(S, a, new[a])
         /\ \A k \in Numbers : row[a] <= k /\ k < new[a] => Stored(S, a, k)
    ELSE new[a] = row[a]

(* Core::check_matrix() of node p: known commands that are neither executed *)
(* nor stored.  One that somebody may still have is asked for again: the    *)
(* row goes back to it.  Of the others a placeholder is stored.             *)
Lost(row, exec, S, a) ==
  {k \in Numbers : exec[a] <= k /\ k < row[a] /\ ~Stored(S, a, k)}

Refetch(p, M, exec, S, a) ==
  {k \in Lost(M[p], exec, S, a) : a # p /\ \E n \in Nodes : M[n][a] <= k}

CheckedRow(p, M, exec, S) ==
  [a \in Nodes |-> IF Refetch(p, M, exec, S, a) = {}
                   THEN M[p][a] ELSE Min(Refetch(p, M, exec, S, a))]

CheckedMatrix(p, M, exec, S) ==
  [n \in Nodes |-> IF n = p THEN CheckedRow(p, M, exec, S) ELSE M[n]]

CheckedMessages(p, M, exec, S) ==
  S \cup UNION {{BadMessage(a, k) :
                   k \in {j \in Lost(M[p], exec, S, a) : j < CheckedRow(p, M, exec, S)[a]}}
                : a \in Nodes}

-----------------------------------------------------------------------------
(* Slip: the dependencies are not looked at. *)
ExecutableInAnyOrder(m, exec) == m.number = exec[m.author]

(* command_to_exec(): the next one of its author, all it depends on done. *)
Executable(m, exec) ==
  /\ m.number = exec[m.author]
  /\ m.depends \preceq exec

(* execute_pending_commands() picks any executable command, executes it and *)
(* counts it, until there is none.  Executing never disables another        *)
(* command, so that whatever the picks it stops in the same place: the      *)
(* least counters, not below the present ones, where nothing is executable. *)
Stopped(S, exec, new) ==
  /\ exec \preceq new
  /\ \A m \in S : ~Executable(m, new)

ExecutesTo(S, exec, new) ==
  /\ Stopped(S, exec, new)
  /\ \A other \in Row : Stopped(S, exec, other) => new \preceq other

(* Slip: a command is dropped as soon as it is executed. *)
OldWhenExecuted(m, M, exec) == m.number < exec[m.author]

(* remove_old_commands(): executed here and, as far as M tells, known to    *)
(* every node.                                                              *)
Old(m, M, exec) ==
  /\ m.number < exec[m.author]
  /\ \A n \in Nodes : m.number < M[n][m.author]
=============================================================================
