--------------------------- MODULE CrashRecovery ---------------------------
(***************************************************************************)
(* Replication among nodes that crash and restart.  What a node has saved  *)
(* last is what it starts with again, after check_matrix() has repaired    *)
(* it.  A node saves its state after each session, and when it finds that  *)
(* its matrix has changed; but a session tells the other side what the     *)
(* node knows before that.  Storage shows that the file itself survives.   *)
(* There are no inviters here, and sessions break only when a node crashes. *)
(***************************************************************************)
EXTENDS Replication

CONSTANT
  MaxCrashes     \* bound: crashes

VARIABLES
  saved,     \* saved[p]: the state p saved last
  broken,    \* history: a node crashed while others knew more of it than it had saved
  crashes

allvars == <<vars, saved, broken, crashes>>

State(p) ==
  [matrix |-> matrix[p], command_to_exec |-> command_to_exec[p],
   messages |-> messages[p], status |-> status[p]]

(* Slip: commands are executed only after the state was taken down. *)
StateBeforeExecution(p) ==
  [matrix |-> matrix'[p], command_to_exec |-> command_to_exec[p],
   messages |-> messages'[p], status |-> status'[p]]

StateAfterExecution(p) == State(p)'

CrashInit ==
  /\ Init
  /\ saved = [p \in Nodes |-> State(p)]
  /\ broken = FALSE
  /\ crashes = 0

-----------------------------------------------------------------------------
(* save() after a session, after the commands of a user, with a broadcast. *)
Save(p) ==
  /\ saved' = [saved EXCEPT ![p] = State(p)]
  /\ UNCHANGED <<vars, broken, crashes>>

(* pending_commands() and update_my_hash(): a matrix that changed is saved  *)
(* and announced; otherwise it depends on the save() that follows.          *)
ExecuteAndSave(p) ==
  /\ PendingCommands(p)
  /\ \/ saved' = [saved EXCEPT ![p] = StateAfterExecution(p)]
     \/ matrix[p] = saved[p].matrix /\ UNCHANGED saved
  /\ UNCHANGED <<broken, crashes>>

(* Others know, or will know, more of p than p has saved. *)
ToldMore(p) ==
  \/ \E q \in Nodes \ {p} : ~ (matrix[q][p] \preceq saved[p].matrix[p])
  \/ \E pkt \in packets : ~ (pkt.matrix[p] \preceq saved[p].matrix[p])
  \/ \E l \in Links : /\ l[1] # p
                      /\ wire[l].phase = "matrix"
                      /\ ~ (wire[l].matrix[p] \preceq saved[p].matrix[p])

(* Sessions of p break; p starts again with load(). *)
Restart(p) ==
  LET s == saved[p]
  IN  /\ crashes < MaxCrashes
      /\ crashes' = crashes + 1
      /\ broken' = (broken \/ ToldMore(p))
      /\ matrix' = [matrix EXCEPT ![p] = CheckedMatrix(p, s.matrix, s.command_to_exec, s.messages)]
      /\ messages' = [messages EXCEPT ![p] = CheckedMessages(p, s.matrix, s.command_to_exec, s.messages)]
      /\ command_to_exec' = [command_to_exec EXCEPT ![p] = s.command_to_exec]
      /\ status' = [status EXCEPT ![p] = s.status]
      /\ wire' = [l \in Links |-> IF p \in {l[1], l[2]} THEN Idle ELSE wire[l]]
      /\ UNCHANGED <<packets, failures, saved>>

Unsaved(A) == A /\ UNCHANGED <<saved, broken, crashes>>

CrashNext ==
  \/ \E p \in Nodes :
       \/ Unsaved(\E depends \in {command_to_exec[p], ZeroRow} : CreateCommand(p, depends))
       \/ Unsaved(WritePacket(p) \/ \E pkt \in packets : ReadPacket(p, pkt))
       \/ ExecuteAndSave(p)
       \/ Save(p)
       \/ Restart(p)
  \/ \E l \in Links : Unsaved(Transfer(l))

CrashSpec == CrashInit /\ [][CrashNext]_allvars

CrashFairness ==
  /\ \A p \in Nodes : WF_allvars(ExecuteAndSave(p))
  /\ \A l \in Links : WF_allvars(Unsaved(Transfer(l)))

FairCrashSpec == CrashSpec /\ CrashFairness

-----------------------------------------------------------------------------
(* Crashes alone lose nothing and leave no gap, whatever they take back of  *)
(* matrices, commands and executions, as long as nobody was told of it.     *)
CrashesAreHarmless == ~broken => NothingLost /\ NoGaps

(* The inductive invariant *)

(* What a node knows, executes and stores fits together, whatever others do: *)
(* it stores what it knows, unless it has executed it and believes that     *)
(* everybody knows it; and it credits nobody with a command that it does    *)
(* not credit its author with.                                              *)
Sound(p, M, exec, S) ==
  /\ exec \preceq M[p]
  /\ \A n, a \in Nodes : M[n][a] <= M[a][a]
  /\ \A m \in S : m.value = "command" /\ m.number < M[p][m.author]
  /\ \A a \in Nodes, k \in Numbers :
       k < M[p][a] /\ ~Stored(S, a, k) => k < exec[a] /\ \A n \in Nodes : k < M[n][a]

(* A packet file: what is missing before one of its messages was forgotten.  *)
PacketSound(pkt) ==
  /\ \A n, a \in Nodes : pkt.matrix[n][a] <= pkt.matrix[a][a]
  /\ \A m \in pkt.messages :
       /\ m.value = "command" /\ m.number < pkt.matrix[m.author][m.author]
       /\ \A k \in Numbers :
            k < m.number /\ ~Stored(pkt.messages, m.author, k) => \A n \in Nodes : k < pkt.matrix[n][m.author]

(* A download: what is asked for, or comes, is the next command at most, and *)
(* its author is known to have it.                                          *)
DownloadSound(l) ==
  LET M == matrix[l[1]]
  IN  /\ wire[l].phase = "matrix" => \A n, a \in Nodes : wire[l].matrix[n][a] <= wire[l].matrix[a][a]
      /\ wire[l].phase = "asked" =>
           /\ wire[l].number <= M[l[1]][wire[l].author]
           /\ wire[l].number < M[wire[l].author][wire[l].author]
      /\ wire[l].phase = "reply" =>
           /\ wire[l].msg.value = "command"
           /\ wire[l].msg.number <= M[l[1]][wire[l].msg.author]
           /\ wire[l].msg.number < M[wire[l].msg.author][wire[l].msg.author]

(* Nobody, no packet file and no matrix under way credits a node with more   *)
(* than it knows; what was saved is not ahead of what is known.             *)
NobodyAhead ==
  \A n \in Nodes :
    /\ \A p \in Nodes : matrix[p][n] \preceq matrix[n][n] /\ saved[p].matrix[n] \preceq matrix[p][n]
    /\ \A pkt \in packets : pkt.matrix[n] \preceq matrix[n][n]
    /\ \A l \in Links : wire[l].phase = "matrix" => wire[l].matrix[n] \preceq matrix[n][n]

States == [matrix : Matrix, command_to_exec : Row, messages : SUBSET Msg, status : {"work", "inviter"}]

CrashTypeOK ==
  /\ TypeOK
  /\ saved \in [Nodes -> States]
  /\ broken \in BOOLEAN

CrashInv ==
  /\ CrashTypeOK
  /\ ~broken =>
       /\ \A p \in Nodes :
            /\ Sound(p, matrix[p], command_to_exec[p], messages[p])
            /\ Sound(p, saved[p].matrix, saved[p].command_to_exec, saved[p].messages)
       /\ \A pkt \in packets : PacketSound(pkt)
       /\ \A l \in Links : DownloadSound(l)
       /\ NobodyAhead

(* Nor do they keep a command, once its author has saved it, from being     *)
(* executed by every node.                                                  *)
DeliveredUnlessBroken ==
  \A p \in Nodes, a \in Authors, k \in Numbers :
    k < saved[a].matrix[a][a] ~> broken \/ k < command_to_exec[p][a]

(* After a restart a node stores every command that it claims to know and   *)
(* has not executed, whatever it had saved: what was missing is asked for   *)
(* again or replaced, up to the count it claims.                            *)
RestartRepairs ==
  [][\A p \in Nodes : Restart(p) =>
       \A a \in Nodes, k \in Numbers :
         command_to_exec'[p][a] <= k /\ k < matrix'[p][p][a] => Stored(messages'[p], a, k)]_allvars

(* What the project's documentation says: every command is delivered to     *)
(* every computer; here once its author has saved it.                       *)
Delivered ==
  \A p \in Nodes, a \in Authors, k \in Numbers :
    k < saved[a].matrix[a][a] ~> k < command_to_exec[p][a]
=============================================================================
