---------------------------- MODULE Replication ----------------------------
(***************************************************************************)
(* Replication of commands in a group whose members are fixed.  A node     *)
(* creates commands, stores every command it knows, executes them in an    *)
(* order that respects their dependencies, and forgets a command when it   *)
(* has executed it and believes that everybody knows it.                   *)
(*                                                                         *)
(* Nodes learn commands in two ways.  A packet file is a snapshot of a     *)
(* node's matrix and messages; files travel by hand, so they are read      *)
(* late, out of order, several times, in part, or never.  A TCP session    *)
(* transfers the matrix of the serving node and then one message at a      *)
(* time; the session may break at any step.                                *)
(***************************************************************************)
EXTENDS NodeData

CONSTANTS
  Links,        \* the pairs <<p, q>> such that p may download from q over TCP
  Authors,      \* bound: the nodes that create commands
  Inviters,     \* bound: the nodes that write offline invites
  MaxPackets,   \* bound: packet files written
  MaxFailures   \* bound: TCP sessions that break

ASSUME LinksAssumption ==
  /\ Links \subseteq Nodes \X Nodes
  /\ \A p \in Nodes : <<p, p>> \notin Links
ASSUME BoundsAssumption ==
  /\ Authors \subseteq Nodes
  /\ Inviters \subseteq Nodes
  /\ MaxPackets \in Nat
  /\ MaxFailures \in Nat

VARIABLES
  matrix,            \* matrix[p]: what p believes everybody knows; matrix[p][p] is its own row
  command_to_exec,   \* command_to_exec[p][a]: the next command of a that p will execute
  messages,          \* messages[p]: the commands p stores
  status,            \* status[p]: "work", or "inviter" while p waits for an offline invitation
  packets,           \* the packet files there are
  wire,              \* wire[<<p, q>>]: progress of the download of p from q
  failures           \* how many sessions broke

vars == <<matrix, command_to_exec, messages, status, packets, wire, failures>>

(* A download is waiting for the matrix, ready to ask, waiting for the      *)
(* message it asked for, or about to take the message that was sent.        *)
Idle        == [phase |-> "idle"]
Ready       == [phase |-> "ready"]
SendingM(M) == [phase |-> "matrix", matrix |-> M]
Asked(a, k) == [phase |-> "asked", author |-> a, number |-> k]
Reply(m)    == [phase |-> "reply", msg |-> m]

Wires == [phase : {"idle", "ready"}]
         \cup [phase : {"matrix"}, matrix : Matrix]
         \cup [phase : {"asked"}, author : Nodes, number : Numbers]
         \cup [phase : {"reply"}, msg : Msg]

Packet == [matrix : Matrix, messages : SUBSET Msg]

(* Type invariant. *)
TypeOK ==
  /\ matrix \in [Nodes -> Matrix]
  /\ command_to_exec \in [Nodes -> Row]
  /\ messages \in [Nodes -> SUBSET Msg]
  /\ status \in [Nodes -> {"work", "inviter"}]
  /\ packets \subseteq Packet
  /\ wire \in [Links -> Wires]
  /\ failures \in 0 .. MaxFailures

(* The members know each other and no command is under way. *)
Init ==
  /\ matrix = [p \in Nodes |-> ZeroMatrix]
  /\ command_to_exec = [p \in Nodes |-> ZeroRow]
  /\ messages = [p \in Nodes |-> {}]
  /\ status = [p \in Nodes |-> "work"]
  /\ packets = {}
  /\ wire = [l \in Links |-> Idle]
  /\ failures = 0

-----------------------------------------------------------------------------
(* The commands of one node *)

(* Slip: the command is counted before what it depends on is taken down.    *)
NewMsgAfterItself(p, depends) ==
  [author |-> p, number |-> matrix[p][p][p], value |-> "command",
   depends |-> [depends EXCEPT ![p] = matrix[p][p][p] + 1]]

NewMsg(p, depends) ==
  [author |-> p, number |-> matrix[p][p][p], depends |-> depends, value |-> "command"]

(* A command of the user depends on everything executed here so far; a      *)
(* command about the node itself (host name, last online, ...) on nothing.  *)
CreateCommand(p, depends) ==
  /\ p \in Authors
  /\ status[p] \in {"work", "inviter"}
  /\ matrix[p][p][p] < MaxCmd
  /\ depends \in {command_to_exec[p], ZeroRow}
  /\ matrix' = [matrix EXCEPT ![p][p][p] = @ + 1]
  /\ messages' = [messages EXCEPT ![p] = Insert(@, {NewMsg(p, depends)})]
  /\ UNCHANGED <<command_to_exec, status, packets, wire, failures>>

RemoveOldCommands(p, exec) ==
  IF status[p] = "inviter" THEN messages[p]
  ELSE {m \in messages[p] : ~Old(m, matrix[p], exec)}

PendingCommands(p) ==
  /\ \E exec \in Row :
       /\ ExecutesTo(messages[p], command_to_exec[p], exec)
       /\ command_to_exec' = [command_to_exec EXCEPT ![p] = exec]
       /\ messages' = [messages EXCEPT ![p] = RemoveOldCommands(p, exec)]
  /\ UNCHANGED <<matrix, status, packets, wire, failures>>

(* The invite file itself concerns new members and is not modelled here. *)
WriteOfflineInvite(p) ==
  /\ p \in Inviters
  /\ status' = [status EXCEPT ![p] = "inviter"]
  /\ UNCHANGED <<matrix, command_to_exec, messages, packets, wire, failures>>

(* finalize-invite of a file nobody joined with, or cancel-invite. *)
FinalizeInvitation(p) ==
  /\ status' = [status EXCEPT ![p] = "work"]
  /\ UNCHANGED <<matrix, command_to_exec, messages, packets, wire, failures>>

-----------------------------------------------------------------------------
(* Packet files *)

(* Writing stops early when the medium is full. *)
WritePacket(p) ==
  /\ Cardinality(packets) < MaxPackets
  /\ \E written \in FilePrefixes(messages[p]) :
       packets' = packets \cup {[matrix |-> matrix[p], messages |-> written]}
  /\ UNCHANGED <<matrix, command_to_exec, messages, status, wire, failures>>

(* Node p takes over the messages of T; M is its matrix before. *)
AddCmds(p, M, S, T) ==
  \E row \in Row :
    /\ Advanced(M[p], Insert(S, T), T, row)
    /\ matrix' = [matrix EXCEPT ![p] = [M EXCEPT ![p] = row]]
    /\ messages' = [messages EXCEPT ![p] = Insert(S, T)]

(* Reading stops early when the file turns out to be damaged; what was read *)
(* before that point stays.                                                 *)
ReadPacket(p, pkt) ==
  LET M == Update(matrix[p], pkt.matrix)
  IN  /\ \E T \in FilePrefixes(pkt.messages) :
           AddCmds(p, CheckedMatrix(p, M, command_to_exec[p], messages[p]),
                   CheckedMessages(p, M, command_to_exec[p], messages[p]), T)
      /\ UNCHANGED <<command_to_exec, status, packets, wire, failures>>

-----------------------------------------------------------------------------
(* TCP: node l[1] downloads from node l[2] *)

(* Slip: only the rows are compared. *)
NeedCommunicateRow(p, q) == matrix[p][q] # matrix[p][p]

(* The row, or the hash of the whole matrix, differs. *)
NeedCommunicate(p, q) ==
  \/ matrix[p][q] # matrix[p][p]
  \/ matrix[p] # matrix[q]

WriteMatrix(l) ==
  /\ wire[l].phase = "idle"
  /\ NeedCommunicate(l[1], l[2]) \/ NeedCommunicate(l[2], l[1])
  /\ wire' = [wire EXCEPT ![l] = SendingM(matrix[l[2]])]
  /\ UNCHANGED <<matrix, command_to_exec, messages, status, packets, failures>>

UpdateMatrix(l) ==
  /\ wire[l].phase = "matrix"
  /\ matrix' = [matrix EXCEPT ![l[1]] = Update(@, wire[l].matrix)]
  /\ wire' = [wire EXCEPT ![l] = Ready]
  /\ UNCHANGED <<command_to_exec, messages, status, packets, failures>>

BehindByTwo(p, q)   == {a \in Nodes : matrix[p][p][a] + 1 < matrix[p][q][a]}

(* The authors of which q knows commands that p does not know. *)
Behind(p, q) == {a \in Nodes : matrix[p][p][a] < matrix[p][q][a]}

RequestMessage(l) ==
  LET p == l[1]
      behind == Behind(p, l[2])
  IN  /\ wire[l].phase = "ready"
      /\ \/ /\ behind = {}
            /\ wire' = [wire EXCEPT ![l] = Idle]
         \/ \E a \in behind :
              /\ \A b \in behind : a <= b
              /\ wire' = [wire EXCEPT ![l] = Asked(a, matrix[p][p][a])]
      /\ UNCHANGED <<matrix, command_to_exec, messages, status, packets, failures>>

SendCommand(l) ==
  /\ wire[l].phase = "asked"
  /\ \E m \in messages[l[2]] :
       /\ m.author = wire[l].author /\ m.number = wire[l].number
       /\ wire' = [wire EXCEPT ![l] = Reply(m)]
  /\ UNCHANGED <<matrix, command_to_exec, messages, status, packets, failures>>

(* "Requested command not found": the server gives the session up. *)
CommandNotFound(l) ==
  /\ wire[l].phase = "asked"
  /\ ~Stored(messages[l[2]], wire[l].author, wire[l].number)
  /\ wire' = [wire EXCEPT ![l] = Idle]
  /\ UNCHANGED <<matrix, command_to_exec, messages, status, packets, failures>>

AddCmd(l) ==
  /\ wire[l].phase = "reply"
  /\ AddCmds(l[1], matrix[l[1]], messages[l[1]], {wire[l].msg})
  /\ wire' = [wire EXCEPT ![l] = Ready]
  /\ UNCHANGED <<command_to_exec, status, packets, failures>>

Disconnect(l) ==
  /\ wire[l].phase # "idle"
  /\ failures < MaxFailures
  /\ failures' = failures + 1
  /\ wire' = [wire EXCEPT ![l] = Idle]
  /\ UNCHANGED <<matrix, command_to_exec, messages, status, packets>>

-----------------------------------------------------------------------------
NodeStep(p) ==
  \/ \E depends \in {command_to_exec[p], ZeroRow} : CreateCommand(p, depends)
  \/ PendingCommands(p)
  \/ WriteOfflineInvite(p)
  \/ FinalizeInvitation(p)
  \/ WritePacket(p)
  \/ \E pkt \in packets : ReadPacket(p, pkt)

Transfer(l) ==
  \/ WriteMatrix(l)
  \/ UpdateMatrix(l)
  \/ RequestMessage(l)
  \/ SendCommand(l)
  \/ CommandNotFound(l)
  \/ AddCmd(l)

Next ==
  \/ \E p \in Nodes : NodeStep(p)
  \/ \E l \in Links : Transfer(l) \/ Disconnect(l)

Spec == Init /\ [][Next]_vars

(* The daemon executes pending commands after every session and every event *)
(* and keeps connecting to nodes that differ from it.                       *)
Fairness ==
  /\ \A p \in Nodes : WF_vars(PendingCommands(p))
  /\ \A l \in Links : WF_vars(Transfer(l))

FairSpec == Spec /\ Fairness

-----------------------------------------------------------------------------
(* Properties *)

(* How many commands a has created: its own count in its own row. *)
Created(a) == matrix[a][a][a]

(* No node, packet file or matrix under way credits a node with a command   *)
(* it does not know, or an author with one it did not create.  Matrix cells *)
(* reach a node through third parties, late and in any order, and           *)
(* remove_old_commands() relies on every one of them.                       *)
BeliefsSound ==
  \A n, a \in Nodes :
    /\ \A p \in Nodes : matrix[p][n][a] <= matrix[n][n][a]
    /\ \A pkt \in packets : pkt.matrix[n][a] <= matrix[n][n][a]
    /\ \A l \in Links : wire[l].phase = "matrix" => wire[l].matrix[n][a] <= matrix[n][n][a]
    /\ matrix[n][n][a] <= Created(a)

(* Nothing is forgotten too early: a command one node knows and another one *)
(* does not know is stored by every node that knows it, and a node stores   *)
(* whatever it knows and has not executed.                                  *)
NothingLost ==
  \A p, q, a \in Nodes : \A k \in Numbers :
    /\ matrix[p][p][a] <= k /\ k < matrix[q][q][a] => Stored(messages[q], a, k)
    /\ command_to_exec[q][a] <= k /\ k < matrix[q][q][a] => Stored(messages[q], a, k)

(* add_cmd() never leaves a gap: a stored command is a known one, although  *)
(* packets are truncated and messages come late or twice; and so the repair *)
(* of check_matrix() has nothing to do: no BAD MESSAGE replaces a command.  *)
NoGaps ==
  \A p \in Nodes : \A m \in messages[p] :
    /\ m.number < matrix[p][p][m.author]
    /\ m.value # "BAD MESSAGE"

(* A command is executed at a node only when everything its author had      *)
(* executed before creating it is executed there, whatever the ways on      *)
(* which the commands came.                                                 *)
CausalExecution ==
  \A p, q \in Nodes : \A m \in messages[q] :
    m.number < command_to_exec[p][m.author] => m.depends \preceq command_to_exec[p]

(* A server that cannot find the requested command has dropped it because   *)
(* the client got it meanwhile by another way: the broken session loses     *)
(* nothing.                                                                 *)
NotFoundIsHarmless ==
  \A l \in Links :
    wire[l].phase = "asked" /\ ~Stored(messages[l[2]], wire[l].author, wire[l].number)
      => wire[l].number < matrix[l[1]][l[1]][wire[l].author]

-----------------------------------------------------------------------------
(* The inductive invariant *)

(* Every message there is: stored, written to a packet file, or on its way. *)
AllMessages ==
  (UNION {messages[p] : p \in Nodes})
  \cup (UNION {pkt.messages : pkt \in packets})
  \cup {wire[l].msg : l \in {x \in Links : wire[x].phase = "reply"}}

(* Messages are commands that their authors created, and the same wherever  *)
(* they are; whoever executed one has executed what it depends on.          *)
MessagesSound ==
  \A m \in AllMessages :
    /\ m.value = "command"
    /\ m.number < Created(m.author)
    /\ \A x \in AllMessages : x.author = m.author /\ x.number = m.number => x = m
    /\ \A p \in Nodes : m.number < command_to_exec[p][m.author]
                         => m.depends \preceq command_to_exec[p]

(* Whoever takes over the messages of S can take over all of them: between  *)
(* the next command p needs and any command in S, S has them all.           *)
Contiguous(S) ==
  \A p \in Nodes, m \in S, k \in Numbers :
    matrix[p][p][m.author] <= k /\ k < m.number => Stored(S, m.author, k)

(* What a client asks for, or gets, is not beyond the next command it needs. *)
WireSound(l) ==
  /\ wire[l].phase = "asked" =>
       /\ wire[l].number <= matrix[l[1]][l[1]][wire[l].author]
       /\ wire[l].number < matrix[l[2]][l[2]][wire[l].author]
  /\ wire[l].phase = "reply" =>
       wire[l].msg.number <= matrix[l[1]][l[1]][wire[l].msg.author]

(* The safety properties above, and what makes them inductive. *)
IInv ==
  /\ TypeOK
  /\ BeliefsSound
  /\ NothingLost
  /\ NoGaps
  /\ MessagesSound
  /\ \A pkt \in packets : Contiguous(pkt.messages)
  /\ \A l \in Links : WireSound(l)
  /\ \A p \in Nodes : command_to_exec[p] \preceq matrix[p][p]

-----------------------------------------------------------------------------
(* Knowledge only grows: an old packet, a late matrix or the repair of      *)
(* check_matrix() never makes a node forget what it knew, what it executed, *)
(* or what others know.                                                     *)
KnowledgeGrows ==
  [][\A p, n, a \in Nodes :
       /\ matrix[p][n][a] <= matrix'[p][n][a]
       /\ command_to_exec[p][a] <= command_to_exec'[p][a]]_vars

(* Every command is at last executed by every node. *)
EventuallyExecuted ==
  \A p \in Nodes, a \in Authors, k \in Numbers :
    k < Created(a) ~> k < command_to_exec[p][a]

(* A node that does not stay an inviter gets rid of all commands again and  *)
(* again, also of those that came a second time.                            *)
EventuallyForgotten ==
  \A p \in Nodes : <>[](status[p] = "work") => []<>(messages[p] = {})
=============================================================================
