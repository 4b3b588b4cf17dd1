------------------------ MODULE CrashRecovery_proofs ------------------------
(***************************************************************************)
(* Proofs about what crashes spare: CrashRecovery, for any group, any      *)
(* links and any bounds, and Users, for any accounts and commands.         *)
(***************************************************************************)
EXTENDS CrashRecovery, Users, Replication_proofs, SequenceTheorems, WellFoundedInduction

-----------------------------------------------------------------------------
(* Lemmas about check_matrix() *)

(* A set of numbers has a least one. *)
LEMMA MinLemma ==
  ASSUME NEW S \in SUBSET Nat, S # {}
  PROVE  Min(S) \in S /\ \A x \in S : Min(S) <= x
<1>1. OpToRel(<, Nat) = {ss \in Nat \X Nat : ss[1] < ss[2]}
  BY Zenon DEF OpToRel
<1>2. PICK x \in S : \A y \in S : ~(<<y, x>> \in {ss \in Nat \X Nat : ss[1] < ss[2]})
  BY <1>1, NatLessThanWellFounded, WFMin
<1>3. ASSUME NEW y \in S PROVE x <= y
  <2>1. <<y, x>> \in Nat \X Nat => ~(<<y, x>>[1] < <<y, x>>[2])
    BY <1>2
  <2>. QED BY <2>1
<1>. QED BY <1>3 DEF Min

(* check_matrix() leaves a state in which every command that the node claims *)
(* to know and has not executed is stored, whatever the state was before.   *)
LEMMA RepairLemma ==
  ASSUME NEW p \in Nodes, NEW M \in Matrix, NEW exec \in Row, NEW S \in SUBSET Msg
  PROVE  /\ CheckedMatrix(p, M, exec, S) \in Matrix
         /\ CheckedMessages(p, M, exec, S) \in SUBSET Msg
         /\ \A a \in Nodes, k \in Numbers :
              exec[a] <= k /\ k < CheckedMatrix(p, M, exec, S)[p][a]
                => Stored(CheckedMessages(p, M, exec, S), a, k)
<1>. USE MaxCmdAssumption DEF Count, Numbers
<1>. DEFINE row   == CheckedRow(p, M, exec, S)
            fetch(a) == Refetch(p, M, exec, S, a)
<1>1. ASSUME NEW a \in Nodes
      PROVE  /\ Lost(M[p], exec, S, a) \in SUBSET Numbers
             /\ row[a] \in 0 .. MaxCmd /\ row[a] <= M[p][a]
  <2>1. M[p][a] \in 0 .. MaxCmd
    BY DEF Matrix, Row
  <2>2. fetch(a) \subseteq Lost(M[p], exec, S, a) /\ Lost(M[p], exec, S, a) \in SUBSET Numbers
    BY DEF Refetch, Lost
  <2>3. CASE fetch(a) = {}
    BY <2>1, <2>2, <2>3 DEF CheckedRow
  <2>4. CASE fetch(a) # {}
    <3>1. fetch(a) \in SUBSET Nat
      BY <2>2
    <3>2. Min(fetch(a)) \in fetch(a)
      BY <2>4, <3>1, MinLemma
    <3>3. Min(fetch(a)) \in 0 .. MaxCmd - 1 /\ Min(fetch(a)) < M[p][a]
      BY <2>2, <3>2 DEF Lost
    <3>4. row[a] = Min(fetch(a))
      BY <2>4 DEF CheckedRow
    <3>. QED BY <2>1, <2>2, <3>3, <3>4
  <2>. QED BY <2>3, <2>4
<1>2. row \in Row
  BY <1>1 DEF CheckedRow, Row
<1>3. CheckedMatrix(p, M, exec, S) \in Matrix /\ CheckedMatrix(p, M, exec, S)[p] = row
  BY <1>2 DEF CheckedMatrix, Matrix
<1>4. ASSUME NEW a \in Nodes, NEW k \in Lost(M[p], exec, S, a), k < row[a]
      PROVE  BadMessage(a, k) \in CheckedMessages(p, M, exec, S)
  BY <1>4 DEF CheckedMessages
<1>5. ASSUME NEW a \in Nodes, NEW k \in Numbers PROVE BadMessage(a, k) \in Msg
  <2>1. ZeroRow \in Row
    BY DEF ZeroRow, Row
  <2>. QED BY <2>1 DEF BadMessage, Msg, Values
<1>6. CheckedMessages(p, M, exec, S) \in SUBSET Msg
  BY <1>1, <1>5 DEF CheckedMessages
<1>7. ASSUME NEW a \in Nodes, NEW k \in Numbers, exec[a] <= k, k < row[a]
      PROVE  Stored(CheckedMessages(p, M, exec, S), a, k)
  <2>1. CASE Stored(S, a, k)
    BY <2>1 DEF Stored, CheckedMessages
  <2>2. CASE ~Stored(S, a, k)
    <3>1. M[p][a] \in 0 .. MaxCmd
      BY DEF Matrix, Row
    <3>2. k \in Lost(M[p], exec, S, a)
      BY <1>1, <1>7, <2>2, <3>1 DEF Lost
    <3>. QED BY <1>4, <1>7, <3>2 DEF Stored, BadMessage
  <2>. QED BY <2>1, <2>2
<1>. QED BY <1>3, <1>6, <1>7

(* A sound state has nothing to be repaired, also when it has just learned  *)
(* that others know more.                                                   *)
LEMMA SoundGrows ==
  ASSUME NEW p \in Nodes, NEW M0 \in Matrix, NEW M \in Matrix,
         NEW exec \in Row, NEW S \in SUBSET Msg,
         Sound(p, M0, exec, S), M[p] = M0[p],
         \A n, a \in Nodes : M0[n][a] <= M[n][a] /\ M[n][a] <= M[a][a]
  PROVE  /\ Sound(p, M, exec, S)
         /\ CheckedMatrix(p, M, exec, S) = M
         /\ CheckedMessages(p, M, exec, S) = S
<1>. USE MaxCmdAssumption DEF Count, Numbers
<1>1. \A n, a \in Nodes : M0[n][a] \in 0 .. MaxCmd /\ M[n][a] \in 0 .. MaxCmd /\ exec[a] \in 0 .. MaxCmd
  BY DEF Matrix, Row
<1>2. ASSUME NEW a \in Nodes, NEW k \in Numbers, k < M[p][a], ~Stored(S, a, k)
      PROVE  k < exec[a] /\ \A n \in Nodes : k < M[n][a]
  <2>1. k < exec[a] /\ \A n \in Nodes : k < M0[n][a]
    BY <1>2 DEF Sound
  <2>. QED BY <1>1, <2>1
<1>3. Sound(p, M, exec, S)
  BY <1>2 DEF Sound
<1>4. ASSUME NEW a \in Nodes PROVE Lost(M[p], exec, S, a) = {}
  BY <1>1, <1>2 DEF Lost
<1>5. CheckedRow(p, M, exec, S) = M[p]
  BY <1>4 DEF CheckedRow, Refetch, Matrix, Row
<1>6. CheckedMatrix(p, M, exec, S) = M
  BY <1>5 DEF CheckedMatrix, Matrix
<1>7. CheckedMessages(p, M, exec, S) = S
  BY <1>4 DEF CheckedMessages
<1>. QED BY <1>3, <1>6, <1>7

(* add_cmd() keeps a state sound when the messages are not beyond what their *)
(* author is known to have, and none is missing before them.                *)
LEMMA SoundAdds ==
  ASSUME NEW p \in Nodes, NEW M \in Matrix, NEW exec \in Row,
         NEW S \in SUBSET Msg, NEW T \in SUBSET Msg, NEW row \in Row,
         Sound(p, M, exec, S),
         \A m \in T : m.value = "command" /\ m.number < M[m.author][m.author],
         \A m \in T, k \in Numbers :
           M[p][m.author] <= k /\ k < m.number => Stored(T, m.author, k),
         Advanced(M[p], Insert(S, T), T, row)
  PROVE  /\ M[p] \preceq row
         /\ [M EXCEPT ![p] = row] \in Matrix
         /\ Insert(S, T) \in SUBSET Msg
         /\ Sound(p, [M EXCEPT ![p] = row], exec, Insert(S, T))
<1>. USE MaxCmdAssumption DEF Count, Numbers
<1>. DEFINE N == [M EXCEPT ![p] = row]
            U == Insert(S, T)
<1>1. M[p] \in Row
  BY DEF Matrix
<1>2. /\ M[p] \preceq row
      /\ \A a \in Nodes, k \in Numbers : M[p][a] <= k /\ k < row[a] => Stored(U, a, k)
      /\ \A m \in T : m.number < row[m.author]
  BY <1>1, AdvancedLemma
<1>3. U \in SUBSET Msg /\ U \subseteq S \cup T /\ \A a, k : Stored(S, a, k) => Stored(U, a, k)
  BY InsertLemma
<1>4. N \in Matrix /\ N[p] = row /\ \A n \in Nodes \ {p} : N[n] = M[n]
  BY DEF Matrix
<1>5. \A n, a \in Nodes : /\ M[n][a] \in 0 .. MaxCmd /\ N[n][a] \in 0 .. MaxCmd
                          /\ row[a] \in 0 .. MaxCmd /\ exec[a] \in 0 .. MaxCmd
  BY <1>4 DEF Matrix, Row
<1>6. ASSUME NEW n \in Nodes, NEW a \in Nodes PROVE M[n][a] <= N[n][a]
  <2>1. CASE n = p
    BY <1>2, <1>4, <2>1 DEF \preceq
  <2>. QED BY <1>4, <1>5, <2>1
<1>7. exec \preceq N[p]
  BY <1>2, <1>4, <1>5 DEF Sound, \preceq
<1>8. ASSUME NEW a \in Nodes PROVE row[a] <= M[a][a]
  <2>1. M[p][a] <= M[a][a]
    BY DEF Sound
  <2>2. SUFFICES ASSUME M[p][a] < row[a] PROVE row[a] <= M[a][a]
    BY <1>5, <2>1
  <2>3. Stored(U, a, row[a] - 1)
    BY <1>2, <1>5, <2>2
  <2>4. PICK m \in U : m.author = a /\ m.number = row[a] - 1
    BY <2>3 DEF Stored
  <2>5. CASE m \in S
    BY <1>5, <2>2, <2>4, <2>5 DEF Sound
  <2>6. CASE m \in T
    BY <1>5, <2>4, <2>6
  <2>. QED BY <1>3, <2>5, <2>6
<1>9. ASSUME NEW n \in Nodes, NEW a \in Nodes PROVE N[n][a] <= N[a][a]
  <2>1. N[n][a] <= M[a][a]
    BY <1>4, <1>8 DEF Sound
  <2>. QED BY <1>5, <1>6, <2>1
<1>10. ASSUME NEW m \in U PROVE m.value = "command" /\ m.number < N[p][m.author]
  <2>1. m.author \in Nodes /\ m.number \in Numbers
    BY <1>3 DEF Msg
  <2>2. CASE m \in S
    BY <1>5, <1>6, <2>1, <2>2 DEF Sound
  <2>3. CASE m \in T
    BY <1>2, <1>4, <2>3
  <2>. QED BY <1>3, <2>2, <2>3
<1>11. ASSUME NEW a \in Nodes, NEW k \in Numbers, k < N[p][a], ~Stored(U, a, k)
       PROVE  k < exec[a] /\ \A n \in Nodes : k < N[n][a]
  <2>1. k < M[p][a] /\ ~Stored(S, a, k)
    BY <1>2, <1>3, <1>4, <1>5, <1>11
  <2>2. k < exec[a] /\ \A n \in Nodes : k < M[n][a]
    BY <2>1 DEF Sound
  <2>. QED BY <1>5, <1>6, <2>2
<1>. QED BY <1>2, <1>3, <1>4, <1>7, <1>9, <1>10, <1>11 DEF Sound

-----------------------------------------------------------------------------
(* Types *)

(* add_cmd() keeps types, whatever the state it starts from. *)
LEMMA AddCmdsTyped ==
  ASSUME TypeOK, NEW p \in Nodes, NEW M \in Matrix, NEW S \in SUBSET Msg, NEW T \in SUBSET Msg,
         AddCmds(p, M, S, T)
  PROVE  matrix' \in [Nodes -> Matrix] /\ messages' \in [Nodes -> SUBSET Msg]
<1>1. PICK row \in Row :
        /\ matrix' = [matrix EXCEPT ![p] = [M EXCEPT ![p] = row]]
        /\ messages' = [messages EXCEPT ![p] = Insert(S, T)]
  BY DEF AddCmds
<1>2. [M EXCEPT ![p] = row] \in Matrix /\ Insert(S, T) \in SUBSET Msg
  BY InsertLemma DEF Matrix
<1>. QED BY <1>1, <1>2 DEF TypeOK

LEMMA NodeStepTyped ==
  ASSUME TypeOK, NEW p \in Nodes,
         \/ \E depends \in {command_to_exec[p], ZeroRow} : CreateCommand(p, depends)
         \/ PendingCommands(p)
         \/ WritePacket(p)
         \/ \E pkt \in packets : ReadPacket(p, pkt)
  PROVE  TypeOK'
<1>. USE MaxCmdAssumption DEF Count, Numbers
<1>1. ASSUME NEW depends \in {command_to_exec[p], ZeroRow}, CreateCommand(p, depends)
      PROVE  TypeOK'
  <2>1. ZeroRow \in Row
    BY DEF ZeroRow, Row
  <2>2. depends \in Row /\ matrix[p][p][p] \in 0 .. MaxCmd - 1
    BY <1>1, <2>1 DEF CreateCommand, TypeOK, Matrix, Row
  <2>3. NewMsg(p, depends) \in Msg
    BY <2>2 DEF NewMsg, Msg, Values
  <2>4. Insert(messages[p], {NewMsg(p, depends)}) \in SUBSET Msg
    BY <2>3 DEF TypeOK, Insert
  <2>5. matrix' \in [Nodes -> [Nodes -> [Nodes -> 0 .. MaxCmd]]]
    BY <1>1, <2>2 DEF CreateCommand, TypeOK, Matrix, Row
  <2>6. messages' \in [Nodes -> SUBSET Msg]
    BY <1>1, <2>4 DEF CreateCommand, TypeOK
  <2>. QED BY <1>1, <2>5, <2>6 DEF CreateCommand, TypeOK, Matrix, Row
<1>2. CASE PendingCommands(p)
  <2>1. PICK exec \in Row :
          /\ command_to_exec' = [command_to_exec EXCEPT ![p] = exec]
          /\ messages' = [messages EXCEPT ![p] = RemoveOldCommands(p, exec)]
    BY <1>2 DEF PendingCommands
  <2>2. RemoveOldCommands(p, exec) \subseteq messages[p]
    BY DEF RemoveOldCommands
  <2>3. messages' \in [Nodes -> SUBSET Msg]
    BY <2>1, <2>2 DEF TypeOK
  <2>4. command_to_exec' \in [Nodes -> Row]
    BY <2>1 DEF TypeOK
  <2>. QED BY <1>2, <2>3, <2>4 DEF PendingCommands, TypeOK
<1>3. CASE WritePacket(p)
  <2>1. PICK written \in FilePrefixes(messages[p]) :
          packets' = packets \cup {[matrix |-> matrix[p], messages |-> written]}
    BY <1>3 DEF WritePacket
  <2>2. [matrix |-> matrix[p], messages |-> written] \in Packet
    BY <2>1 DEF FilePrefixes, TypeOK, Packet
  <2>. QED BY <1>3, <2>1, <2>2 DEF WritePacket, TypeOK
<1>4. ASSUME NEW pkt \in packets, ReadPacket(p, pkt) PROVE TypeOK'
  <2>. DEFINE M == Update(matrix[p], pkt.matrix)
              C == CheckedMatrix(p, M, command_to_exec[p], messages[p])
              S == CheckedMessages(p, M, command_to_exec[p], messages[p])
  <2>1. /\ matrix[p] \in Matrix /\ pkt.matrix \in Matrix /\ pkt.messages \in SUBSET Msg
        /\ command_to_exec[p] \in Row /\ messages[p] \in SUBSET Msg
    BY DEF TypeOK, Packet
  <2>2. M \in Matrix
    BY <2>1, UpdateLemma
  <2>3. C \in Matrix /\ S \in SUBSET Msg
    BY <2>1, <2>2, RepairLemma
  <2>4. PICK T \in FilePrefixes(pkt.messages) : AddCmds(p, C, S, T)
    BY <1>4 DEF ReadPacket
  <2>5. T \in SUBSET Msg
    BY <2>1 DEF FilePrefixes
  <2>6. matrix' \in [Nodes -> Matrix] /\ messages' \in [Nodes -> SUBSET Msg]
    BY <2>3, <2>4, <2>5, AddCmdsTyped
  <2>. QED BY <1>4, <2>6 DEF ReadPacket, TypeOK
<1>. QED BY <1>1, <1>2, <1>3, <1>4

LEMMA TransferTyped ==
  ASSUME TypeOK, NEW l \in Links, Transfer(l)
  PROVE  TypeOK'
<1>. USE MaxCmdAssumption DEF Count, Numbers
<1>1. /\ l[1] \in Nodes /\ l[2] \in Nodes
      /\ matrix[l[1]] \in Matrix /\ matrix[l[2]] \in Matrix
      /\ messages[l[1]] \in SUBSET Msg /\ messages[l[2]] \in SUBSET Msg
  BY LinksAssumption DEF TypeOK
<1>2. CASE WriteMatrix(l)
  <2>1. SendingM(matrix[l[2]]) \in Wires
    BY <1>1 DEF SendingM, Wires
  <2>. QED BY <1>2, <2>1 DEF WriteMatrix, TypeOK
<1>3. CASE UpdateMatrix(l)
  <2>1. wire[l].matrix \in Matrix
    BY <1>3 DEF UpdateMatrix, TypeOK, Wires
  <2>2. Update(matrix[l[1]], wire[l].matrix) \in Matrix
    BY <1>1, <2>1, UpdateLemma
  <2>3. Ready \in Wires
    BY DEF Ready, Wires
  <2>. QED BY <1>3, <2>2, <2>3 DEF UpdateMatrix, TypeOK
<1>4. CASE RequestMessage(l)
  <2>1. ASSUME NEW a \in Behind(l[1], l[2]) PROVE Asked(a, matrix[l[1]][l[1]][a]) \in Wires
    <3>1. /\ a \in Nodes /\ matrix[l[1]][l[1]][a] < matrix[l[1]][l[2]][a]
          /\ matrix[l[1]][l[1]][a] \in 0 .. MaxCmd /\ matrix[l[1]][l[2]][a] \in 0 .. MaxCmd
      BY <1>1 DEF Behind, Matrix, Row
    <3>2. matrix[l[1]][l[1]][a] \in Numbers
      BY <3>1
    <3>. QED BY <3>1, <3>2 DEF Asked, Wires
  <2>2. Idle \in Wires
    BY DEF Idle, Wires
  <2>. QED BY <1>4, <2>1, <2>2 DEF RequestMessage, TypeOK
<1>5. CASE SendCommand(l)
  <2>1. ASSUME NEW m \in messages[l[2]] PROVE Reply(m) \in Wires
    BY <1>1 DEF Reply, Wires
  <2>. QED BY <1>5, <2>1 DEF SendCommand, TypeOK
<1>6. CASE CommandNotFound(l)
  <2>1. Idle \in Wires
    BY DEF Idle, Wires
  <2>. QED BY <1>6, <2>1 DEF CommandNotFound, TypeOK
<1>7. CASE AddCmd(l)
  <2>1. {wire[l].msg} \in SUBSET Msg
    BY <1>7 DEF AddCmd, TypeOK, Wires
  <2>2. matrix' \in [Nodes -> Matrix] /\ messages' \in [Nodes -> SUBSET Msg]
    BY <1>1, <1>7, <2>1, AddCmdsTyped DEF AddCmd
  <2>3. Ready \in Wires
    BY DEF Ready, Wires
  <2>. QED BY <1>7, <2>2, <2>3 DEF AddCmd, TypeOK
<1>. QED BY <1>2, <1>3, <1>4, <1>5, <1>6, <1>7 DEF Transfer

LEMMA StateTyped ==
  ASSUME TypeOK, NEW p \in Nodes
  PROVE  State(p) \in States
BY DEF State, States, TypeOK

LEMMA TypesStep ==
  ASSUME CrashTypeOK, [CrashNext]_allvars
  PROVE  CrashTypeOK'
<1>. USE DEF CrashTypeOK
<1>1. ASSUME NEW p \in Nodes, Save(p) PROVE CrashTypeOK'
  <2>1. TypeOK'
    BY <1>1 DEF Save, vars, TypeOK
  <2>. QED BY <1>1, <2>1, StateTyped DEF Save
<1>2. ASSUME NEW p \in Nodes, ExecuteAndSave(p) PROVE CrashTypeOK'
  <2>1. TypeOK'
    BY <1>2, NodeStepTyped DEF ExecuteAndSave
  <2>2. State(p)' \in States
    BY <2>1 DEF State, States, TypeOK
  <2>. QED BY <1>2, <2>1, <2>2 DEF ExecuteAndSave, StateAfterExecution
<1>3. ASSUME NEW p \in Nodes, Restart(p) PROVE CrashTypeOK'
  <2>. DEFINE s == saved[p]
  <2>1. /\ s.matrix \in Matrix /\ s.command_to_exec \in Row /\ s.messages \in SUBSET Msg
        /\ s.status \in {"work", "inviter"}
    BY DEF States
  <2>2. /\ CheckedMatrix(p, s.matrix, s.command_to_exec, s.messages) \in Matrix
        /\ CheckedMessages(p, s.matrix, s.command_to_exec, s.messages) \in SUBSET Msg
    BY <2>1, RepairLemma
  <2>3. wire' \in [Links -> Wires]
    BY <1>3 DEF Restart, TypeOK, Wires, Idle
  <2>4. TypeOK'
    BY <1>3, <2>1, <2>2, <2>3 DEF Restart, TypeOK
  <2>. QED BY <1>3, <2>4 DEF Restart
<1>4. ASSUME NEW p \in Nodes,
             \/ Unsaved(\E depends \in {command_to_exec[p], ZeroRow} : CreateCommand(p, depends))
             \/ Unsaved(WritePacket(p) \/ \E pkt \in packets : ReadPacket(p, pkt))
      PROVE  CrashTypeOK'
  BY <1>4, NodeStepTyped DEF Unsaved
<1>5. ASSUME NEW l \in Links, Unsaved(Transfer(l)) PROVE CrashTypeOK'
  BY <1>5, TransferTyped DEF Unsaved
<1>6. CASE UNCHANGED allvars
  BY <1>6 DEF allvars, vars, TypeOK
<1>. QED BY <1>1, <1>2, <1>3, <1>4, <1>5, <1>6 DEF CrashNext

-----------------------------------------------------------------------------
(* The inductive invariant *)

(* The part of CrashInv that holds until a node crashes of which others knew *)
(* more than it had saved.                                                  *)
Unbroken ==
  /\ \A p \in Nodes :
       /\ Sound(p, matrix[p], command_to_exec[p], messages[p])
       /\ Sound(p, saved[p].matrix, saved[p].command_to_exec, saved[p].messages)
  /\ \A pkt \in packets : PacketSound(pkt)
  /\ \A l \in Links : DownloadSound(l)
  /\ NobodyAhead

LEMMA CrashInvIs == CrashInv <=> CrashTypeOK /\ (~broken => Unbroken)
BY DEF CrashInv, Unbroken

(* All cells are numbers. *)
LEMMA Cells ==
  ASSUME CrashTypeOK
  PROVE  /\ \A p, n, a \in Nodes : /\ matrix[p][n][a] \in 0 .. MaxCmd
                                  /\ saved[p].matrix[n][a] \in 0 .. MaxCmd
                                  /\ command_to_exec[p][a] \in 0 .. MaxCmd
         /\ \A pkt \in packets : \A n, a \in Nodes : pkt.matrix[n][a] \in 0 .. MaxCmd
         /\ \A l \in Links : wire[l].phase = "matrix" =>
              wire[l].matrix \in Matrix /\ \A n, a \in Nodes : wire[l].matrix[n][a] \in 0 .. MaxCmd
<1>1. \A M \in Matrix : \A n, a \in Nodes : M[n][a] \in 0 .. MaxCmd
  BY DEF Matrix, Row, Count
<1>2. \A p \in Nodes : matrix[p] \in Matrix /\ saved[p].matrix \in Matrix
  BY DEF CrashTypeOK, TypeOK, States
<1>3. \A pkt \in packets : pkt.matrix \in Matrix
  BY DEF CrashTypeOK, TypeOK, Packet
<1>4. \A l \in Links : wire[l].phase = "matrix" => wire[l].matrix \in Matrix
  BY DEF CrashTypeOK, TypeOK, Wires
<1>5. \A p, a \in Nodes : command_to_exec[p][a] \in 0 .. MaxCmd
  BY DEF CrashTypeOK, TypeOK, Row, Count
<1>. QED BY <1>1, <1>2, <1>3, <1>4, <1>5

(* A step in which one node learns, creates, executes or forgets commands,  *)
(* or saves its state, and downloads may come to rest: it is enough that    *)
(* the node stays sound, and is right about the others.                     *)
LEMMA NodeChanges ==
  ASSUME CrashTypeOK, CrashTypeOK', Unbroken, NEW p \in Nodes,
         \A q \in Nodes \ {p} : /\ matrix'[q] = matrix[q] /\ messages'[q] = messages[q]
                                /\ command_to_exec'[q] = command_to_exec[q],
         \A n, a \in Nodes : matrix[p][n][a] <= matrix'[p][n][a],
         \A n \in Nodes \ {p}, a \in Nodes : matrix'[p][n][a] <= matrix[n][n][a],
         Sound(p, matrix'[p], command_to_exec'[p], messages'[p]),
         saved' = saved \/ saved' = [saved EXCEPT ![p] = State(p)'],
         packets' = packets,
         \A l \in Links : wire'[l] = wire[l] \/ wire'[l].phase \in {"idle", "ready"}
  PROVE  Unbroken'
<1>. USE MaxCmdAssumption DEF Count, Numbers
<1>1. \A q, n, a \in Nodes : /\ matrix[q][n][a] \in 0 .. MaxCmd
                             /\ saved[q].matrix[n][a] \in 0 .. MaxCmd
                             /\ matrix'[q][n][a] \in 0 .. MaxCmd
                             /\ matrix[q][n][a] <= matrix'[q][n][a]
  <2>1. \A q, n, a \in Nodes : matrix'[q][n][a] \in 0 .. MaxCmd
    BY DEF CrashTypeOK, TypeOK, Matrix, Row
  <2>. QED BY <2>1, Cells
<1>2. ASSUME NEW q \in Nodes PROVE saved'[q] = saved[q] \/ (q = p /\ saved'[q] = State(p)')
  BY DEF CrashTypeOK
<1>3. ASSUME NEW q \in Nodes
      PROVE  /\ Sound(q, matrix'[q], command_to_exec'[q], messages'[q])
             /\ Sound(q, saved'[q].matrix, saved'[q].command_to_exec, saved'[q].messages)
  <2>1. Sound(q, matrix'[q], command_to_exec'[q], messages'[q])
    BY DEF Unbroken
  <2>2. CASE saved'[q] = saved[q]
    BY <2>1, <2>2 DEF Unbroken
  <2>3. CASE q = p /\ saved'[q] = State(p)'
    BY <2>1, <2>3 DEF State
  <2>. QED BY <1>2, <2>1, <2>2, <2>3
<1>4. \A pkt \in packets' : PacketSound(pkt)'
  BY DEF Unbroken, PacketSound
<1>5. ASSUME NEW l \in Links PROVE DownloadSound(l)'
  <2>. SUFFICES ASSUME wire'[l] = wire[l] PROVE DownloadSound(l)'
    BY DEF DownloadSound
  <2>1. DownloadSound(l) /\ l[1] \in Nodes
    BY LinksAssumption DEF Unbroken
  <2>2. CASE wire[l].phase = "asked"
    <3>1. wire[l].author \in Nodes /\ wire[l].number \in Numbers
      BY <2>2 DEF CrashTypeOK, TypeOK, Wires
    <3>. QED BY <1>1, <2>1, <2>2, <3>1 DEF DownloadSound
  <2>3. CASE wire[l].phase = "reply"
    <3>1. wire[l].msg.author \in Nodes /\ wire[l].msg.number \in Numbers
      BY <2>3 DEF CrashTypeOK, TypeOK, Wires, Msg
    <3>. QED BY <1>1, <2>1, <2>3, <3>1 DEF DownloadSound
  <2>. QED BY <2>1, <2>2, <2>3 DEF DownloadSound
<1>6. NobodyAhead'
  <2>. SUFFICES ASSUME NEW n \in Nodes, NEW a \in Nodes
                PROVE  /\ \A q \in Nodes : /\ matrix'[q][n][a] <= matrix'[n][n][a]
                                           /\ saved'[q].matrix[n][a] <= matrix'[q][n][a]
                       /\ \A pkt \in packets : pkt.matrix[n][a] <= matrix'[n][n][a]
                       /\ \A l \in Links : wire'[l].phase = "matrix" =>
                            wire'[l].matrix[n][a] <= matrix'[n][n][a]
    BY DEF NobodyAhead, \preceq
  <2>1. ASSUME NEW q \in Nodes
        PROVE  matrix'[q][n][a] <= matrix'[n][n][a] /\ saved'[q].matrix[n][a] <= matrix'[q][n][a]
    <3>1. matrix[q][n][a] <= matrix[n][n][a] /\ saved[q].matrix[n][a] <= matrix[q][n][a]
      BY DEF Unbroken, NobodyAhead, \preceq
    <3>2. matrix'[q][n][a] <= matrix'[n][n][a]
      BY <1>1, <3>1
    <3>3. saved'[q].matrix[n][a] <= matrix'[q][n][a]
      <4>1. CASE saved'[q] = saved[q]
        BY <1>1, <3>1, <4>1
      <4>2. CASE saved'[q] = State(q)'
        BY <1>1, <4>2 DEF State
      <4>. QED BY <1>2, <4>1, <4>2
    <3>. QED BY <3>2, <3>3
  <2>2. ASSUME NEW pkt \in packets PROVE pkt.matrix[n][a] <= matrix'[n][n][a]
    <3>1. pkt.matrix[n][a] <= matrix[n][n][a]
      BY DEF Unbroken, NobodyAhead, \preceq
    <3>. QED BY <1>1, <3>1, Cells
  <2>3. ASSUME NEW l \in Links, wire'[l].phase = "matrix"
        PROVE  wire'[l].matrix[n][a] <= matrix'[n][n][a]
    <3>1. wire'[l] = wire[l]
      BY <2>3
    <3>2. wire[l].matrix[n][a] <= matrix[n][n][a]
      BY <2>3, <3>1 DEF Unbroken, NobodyAhead, \preceq
    <3>. QED BY <1>1, <2>3, <3>1, <3>2, Cells
  <2>. QED BY <2>1, <2>2, <2>3
<1>. QED BY <1>3, <1>4, <1>5, <1>6 DEF Unbroken

-----------------------------------------------------------------------------
(* The steps that change a node *)

LEMMA CreateKeeps ==
  ASSUME CrashTypeOK, CrashTypeOK', Unbroken, NEW p \in Nodes,
         NEW depends, Unsaved(CreateCommand(p, depends))
  PROVE  Unbroken'
<1>. USE MaxCmdAssumption DEF Count, Numbers
<1>. DEFINE new == NewMsg(p, depends)
            c   == matrix[p][p][p]
<1>1. /\ matrix' = [matrix EXCEPT ![p][p][p] = @ + 1]
      /\ messages' = [messages EXCEPT ![p] = Insert(@, {new})]
      /\ UNCHANGED <<command_to_exec, packets, wire, saved>>
  BY DEF Unsaved, CreateCommand
<1>2. new.author = p /\ new.number = c /\ new.value = "command"
  BY DEF NewMsg
<1>3. /\ matrix'[p][p][p] = c + 1
      /\ \A q, n, a \in Nodes : ~(q = p /\ n = p /\ a = p) => matrix'[q][n][a] = matrix[q][n][a]
      /\ \A q \in Nodes \ {p} : matrix'[q] = matrix[q]
  BY <1>1 DEF CrashTypeOK, TypeOK, Matrix, Row
<1>4. \A q, n, a \in Nodes : matrix[q][n][a] \in 0 .. MaxCmd /\ command_to_exec[q][a] \in 0 .. MaxCmd
  BY Cells
<1>5. Sound(p, matrix[p], command_to_exec[p], messages[p])
  BY DEF Unbroken
<1>6. messages[p] \in SUBSET Msg
  BY DEF CrashTypeOK, TypeOK
<1>7. ~Stored(messages[p], p, c)
  BY <1>4, <1>5 DEF Stored, Sound
<1>8. /\ messages'[p] = messages[p] \cup {new}
      /\ \A q \in Nodes \ {p} : messages'[q] = messages[q]
  BY <1>1, <1>2, <1>7 DEF Insert, CrashTypeOK, TypeOK
<1>9. \A n, a \in Nodes : matrix[p][n][a] <= matrix'[p][n][a]
  BY <1>3, <1>4
<1>10. Sound(p, matrix'[p], command_to_exec'[p], messages'[p])
  <2>1. command_to_exec'[p] \preceq matrix'[p][p]
    BY <1>1, <1>3, <1>4, <1>5 DEF Sound, \preceq
  <2>2. ASSUME NEW n \in Nodes, NEW a \in Nodes PROVE matrix'[p][n][a] <= matrix'[p][a][a]
    BY <1>3, <1>4, <1>5 DEF Sound
  <2>3. ASSUME NEW m \in messages'[p] PROVE m.value = "command" /\ m.number < matrix'[p][p][m.author]
    <3>1. CASE m = new
      BY <1>2, <1>3, <1>4, <3>1
    <3>2. CASE m \in messages[p]
      <4>1. m.author \in Nodes /\ m.number \in Numbers
        BY <1>6, <3>2 DEF Msg
      <4>2. m.value = "command" /\ m.number < matrix[p][p][m.author]
        BY <1>5, <3>2 DEF Sound
      <4>. QED BY <1>3, <1>4, <4>1, <4>2
    <3>. QED BY <1>8, <3>1, <3>2
  <2>4. ASSUME NEW a \in Nodes, NEW k \in Numbers, k < matrix'[p][p][a], ~Stored(messages'[p], a, k)
        PROVE  k < command_to_exec'[p][a] /\ \A n \in Nodes : k < matrix'[p][n][a]
    <3>1. ~Stored(messages[p], a, k) /\ ~(a = p /\ k = c)
      BY <1>2, <1>8, <2>4 DEF Stored
    <3>2. k < matrix[p][p][a]
      BY <1>3, <1>4, <2>4, <3>1
    <3>3. k < command_to_exec[p][a] /\ \A n \in Nodes : k < matrix[p][n][a]
      BY <1>5, <3>1, <3>2 DEF Sound
    <3>. QED BY <1>1, <1>3, <1>4, <3>3
  <2>. QED BY <2>1, <2>2, <2>3, <2>4 DEF Sound
<1>11. ASSUME NEW n \in Nodes \ {p}, NEW a \in Nodes PROVE matrix'[p][n][a] <= matrix[n][n][a]
  BY <1>3 DEF Unbroken, NobodyAhead, \preceq
<1>. QED BY <1>1, <1>3, <1>8, <1>9, <1>10, <1>11, NodeChanges

LEMMA ExecuteKeeps ==
  ASSUME CrashTypeOK, CrashTypeOK', Unbroken, NEW p \in Nodes, ExecuteAndSave(p)
  PROVE  Unbroken'
<1>. USE MaxCmdAssumption DEF Count, Numbers
<1>1. PICK exec \in Row :
        /\ ExecutesTo(messages[p], command_to_exec[p], exec)
        /\ command_to_exec' = [command_to_exec EXCEPT ![p] = exec]
        /\ messages' = [messages EXCEPT ![p] = RemoveOldCommands(p, exec)]
  BY DEF ExecuteAndSave, PendingCommands
<1>2. /\ UNCHANGED <<matrix, packets, wire>>
      /\ saved' = saved \/ saved' = [saved EXCEPT ![p] = State(p)']
  BY DEF ExecuteAndSave, PendingCommands, StateAfterExecution
<1>3. \A n, a \in Nodes : /\ matrix[p][n][a] \in 0 .. MaxCmd /\ matrix[n][n][a] \in 0 .. MaxCmd
                          /\ command_to_exec[p][a] \in 0 .. MaxCmd /\ exec[a] \in 0 .. MaxCmd
  BY Cells DEF Row
<1>4. Sound(p, matrix[p], command_to_exec[p], messages[p])
  BY DEF Unbroken
<1>5. messages[p] \in SUBSET Msg /\ command_to_exec[p] \in Row
  BY DEF CrashTypeOK, TypeOK
<1>6. /\ command_to_exec'[p] = exec /\ messages'[p] = RemoveOldCommands(p, exec)
      /\ \A q \in Nodes \ {p} : command_to_exec'[q] = command_to_exec[q] /\ messages'[q] = messages[q]
  BY <1>1 DEF CrashTypeOK, TypeOK
<1>7. \A a \in Nodes : command_to_exec[p][a] <= exec[a]
  BY <1>1 DEF ExecutesTo, Stopped, \preceq
<1>8. ASSUME NEW a \in Nodes PROVE exec[a] <= matrix[p][p][a]
  <2>. DEFINE k == matrix[p][p][a]
  <2>1. SUFFICES ASSUME k < exec[a] PROVE FALSE
    BY <1>3
  <2>2. k \in Numbers /\ command_to_exec[p][a] <= k
    BY <1>3, <1>4, <2>1 DEF Sound, \preceq
  <2>3. \E m \in messages[p] : m.author = a /\ m.number = k /\ m.depends \preceq exec
    BY <1>1, <1>5, <2>1, <2>2, ExecutesToLemma
  <2>. QED BY <1>3, <1>4, <2>3 DEF Sound
<1>9. Sound(p, matrix[p], exec, RemoveOldCommands(p, exec))
  <2>1. exec \preceq matrix[p][p]
    BY <1>8 DEF \preceq
  <2>2. \A m \in RemoveOldCommands(p, exec) : m.value = "command" /\ m.number < matrix[p][p][m.author]
    BY <1>4 DEF RemoveOldCommands, Sound
  <2>3. ASSUME NEW a \in Nodes, NEW k \in Numbers, k < matrix[p][p][a],
               ~Stored(RemoveOldCommands(p, exec), a, k)
        PROVE  k < exec[a] /\ \A n \in Nodes : k < matrix[p][n][a]
    <3>1. CASE ~Stored(messages[p], a, k)
      <4>1. k < command_to_exec[p][a] /\ \A n \in Nodes : k < matrix[p][n][a]
        BY <1>4, <2>3, <3>1 DEF Sound
      <4>. QED BY <1>3, <1>7, <4>1
    <3>2. CASE Stored(messages[p], a, k)
      <4>1. PICK m \in messages[p] : m.author = a /\ m.number = k
        BY <3>2 DEF Stored
      <4>2. m \notin RemoveOldCommands(p, exec)
        BY <2>3, <4>1 DEF Stored
      <4>3. Old(m, matrix[p], exec)
        BY <4>1, <4>2 DEF RemoveOldCommands
      <4>. QED BY <4>1, <4>3 DEF Old
    <3>. QED BY <3>1, <3>2
  <2>. QED BY <1>4, <2>1, <2>2, <2>3 DEF Sound
<1>10. \A n \in Nodes \ {p}, a \in Nodes : matrix'[p][n][a] <= matrix[n][n][a]
  BY <1>2 DEF Unbroken, NobodyAhead, \preceq
<1>. QED BY <1>2, <1>3, <1>6, <1>9, <1>10, NodeChanges

(* Merging a matrix that is right about everybody. *)
LEMMA MergeLemma ==
  ASSUME CrashTypeOK, Unbroken, NEW p \in Nodes, NEW src \in Matrix,
         \A n, a \in Nodes : src[n][a] <= src[a][a] /\ src[n][a] <= matrix[n][n][a]
  PROVE  LET M == Update(matrix[p], src)
         IN  /\ M \in Matrix /\ M[p] = matrix[p][p]
             /\ \A n, a \in Nodes : /\ matrix[p][n][a] <= M[n][a]
                                    /\ M[n][a] <= M[a][a]
                                    /\ M[n][a] <= matrix[n][n][a]
             /\ \A n, a \in Nodes : src[n][a] <= M[n][a]
<1>. USE MaxCmdAssumption DEF Count, Numbers
<1>. DEFINE M == Update(matrix[p], src)
<1>1. \A n, a \in Nodes : /\ matrix[p][n][a] \in 0 .. MaxCmd /\ matrix[n][n][a] \in 0 .. MaxCmd
                          /\ src[n][a] \in 0 .. MaxCmd
  BY Cells DEF Matrix, Row
<1>2. matrix[p] \in Matrix
  BY DEF CrashTypeOK, TypeOK
<1>3. M \in Matrix
  BY <1>2, UpdateLemma
<1>4. \A n, a \in Nodes : M[n][a] = IF matrix[p][n][a] < src[n][a] THEN src[n][a] ELSE matrix[p][n][a]
  BY DEF Update
<1>5. ASSUME NEW n \in Nodes, NEW a \in Nodes
      PROVE  /\ matrix[p][n][a] <= matrix[p][a][a]
             /\ matrix[p][n][a] <= matrix[n][n][a]
  BY DEF Unbroken, Sound, NobodyAhead, \preceq
<1>6. ASSUME NEW n \in Nodes, NEW a \in Nodes
      PROVE  /\ matrix[p][n][a] <= M[n][a] /\ src[n][a] <= M[n][a]
             /\ M[n][a] <= M[a][a]
             /\ M[n][a] <= matrix[n][n][a]
  BY <1>1, <1>4, <1>5
<1>7. M[p] = matrix[p][p]
  <2>1. \A a \in Nodes : M[p][a] = matrix[p][p][a]
    BY <1>1, <1>4
  <2>2. M[p] \in Row /\ matrix[p][p] \in Row
    BY <1>2, <1>3 DEF Matrix
  <2>. QED BY <2>1, <2>2 DEF Row
<1>. QED BY <1>3, <1>6, <1>7

LEMMA ReadPacketKeeps ==
  ASSUME CrashTypeOK, CrashTypeOK', Unbroken, NEW p \in Nodes,
         NEW pkt \in packets, Unsaved(ReadPacket(p, pkt))
  PROVE  Unbroken'
<1>. USE MaxCmdAssumption DEF Count, Numbers
<1>. DEFINE M == Update(matrix[p], pkt.matrix)
            exec == command_to_exec[p]
<1>1. /\ pkt.matrix \in Matrix /\ pkt.messages \in SUBSET Msg
      /\ matrix[p] \in Matrix /\ exec \in Row /\ messages[p] \in SUBSET Msg
  BY DEF CrashTypeOK, TypeOK, Packet
<1>2. \A n, a \in Nodes : pkt.matrix[n][a] <= pkt.matrix[a][a] /\ pkt.matrix[n][a] <= matrix[n][n][a]
  BY DEF Unbroken, PacketSound, NobodyAhead, \preceq
<1>3. /\ M \in Matrix /\ M[p] = matrix[p][p]
      /\ \A n, a \in Nodes : /\ matrix[p][n][a] <= M[n][a] /\ M[n][a] <= M[a][a]
                             /\ M[n][a] <= matrix[n][n][a] /\ pkt.matrix[n][a] <= M[n][a]
  BY <1>1, <1>2, MergeLemma
<1>4. /\ Sound(p, M, exec, messages[p])
      /\ CheckedMatrix(p, M, exec, messages[p]) = M
      /\ CheckedMessages(p, M, exec, messages[p]) = messages[p]
  BY <1>1, <1>3, SoundGrows DEF Unbroken
<1>5. PICK T \in FilePrefixes(pkt.messages) : AddCmds(p, M, messages[p], T)
  BY <1>4 DEF Unsaved, ReadPacket
<1>6. T \in SUBSET Msg /\ T \subseteq pkt.messages
      /\ \A m \in T, x \in pkt.messages : Before(x, m) => x \in T
  BY <1>1, <1>5 DEF FilePrefixes
<1>7. \A n, a \in Nodes : /\ M[n][a] \in 0 .. MaxCmd /\ pkt.matrix[n][a] \in 0 .. MaxCmd
                          /\ matrix[p][n][a] \in 0 .. MaxCmd
  BY <1>1, <1>3 DEF Matrix, Row
<1>8. ASSUME NEW m \in T PROVE m.value = "command" /\ m.number < M[m.author][m.author]
  <2>1. m.author \in Nodes /\ m.number \in Numbers
    BY <1>6 DEF Msg
  <2>2. m.value = "command" /\ m.number < pkt.matrix[m.author][m.author]
    BY <1>6 DEF Unbroken, PacketSound
  <2>. QED BY <1>3, <1>7, <2>1, <2>2
<1>9. ASSUME NEW m \in T, NEW k \in Numbers, M[p][m.author] <= k, k < m.number
      PROVE  Stored(T, m.author, k)
  <2>1. m.author \in Nodes /\ m.number \in Numbers /\ m \in pkt.messages
    BY <1>6 DEF Msg
  <2>2. ~(k < pkt.matrix[p][m.author])
    BY <1>3, <1>7, <1>9, <2>1
  <2>3. Stored(pkt.messages, m.author, k)
    BY <1>9, <2>1, <2>2 DEF Unbroken, PacketSound
  <2>4. PICK x \in pkt.messages : x.author = m.author /\ x.number = k
    BY <2>3 DEF Stored
  <2>5. Before(x, m)
    BY <1>9, <2>4 DEF Before
  <2>. QED BY <1>6, <2>4, <2>5 DEF Stored
<1>10. PICK row \in Row :
         /\ Advanced(M[p], Insert(messages[p], T), T, row)
         /\ matrix' = [matrix EXCEPT ![p] = [M EXCEPT ![p] = row]]
         /\ messages' = [messages EXCEPT ![p] = Insert(messages[p], T)]
  BY <1>5 DEF AddCmds
<1>11. /\ M[p] \preceq row
       /\ Sound(p, [M EXCEPT ![p] = row], exec, Insert(messages[p], T))
  BY <1>1, <1>3, <1>4, <1>6, <1>8, <1>9, <1>10, SoundAdds
<1>12. /\ matrix'[p] = [M EXCEPT ![p] = row] /\ messages'[p] = Insert(messages[p], T)
       /\ \A q \in Nodes \ {p} : matrix'[q] = matrix[q] /\ messages'[q] = messages[q]
  BY <1>10 DEF CrashTypeOK, TypeOK
<1>13. \A n \in Nodes \ {p} : matrix'[p][n] = M[n]
  BY <1>3, <1>12 DEF Matrix
<1>14. matrix'[p][p] = row
  BY <1>3, <1>12 DEF Matrix
<1>15. ASSUME NEW n \in Nodes, NEW a \in Nodes PROVE matrix[p][n][a] <= matrix'[p][n][a]
  BY <1>3, <1>11, <1>13, <1>14 DEF \preceq
<1>16. UNCHANGED <<command_to_exec, packets, wire, saved>>
  BY DEF Unsaved, ReadPacket
<1>. QED BY <1>3, <1>11, <1>12, <1>13, <1>15, <1>16, NodeChanges

LEMMA UpdateMatrixKeeps ==
  ASSUME CrashTypeOK, CrashTypeOK', Unbroken, NEW l \in Links, Unsaved(UpdateMatrix(l))
  PROVE  Unbroken'
<1>. DEFINE p == l[1]
            M == Update(matrix[p], wire[l].matrix)
<1>1. p \in Nodes /\ wire[l].phase = "matrix"
  BY LinksAssumption DEF Unsaved, UpdateMatrix
<1>2. /\ wire[l].matrix \in Matrix
      /\ \A n, a \in Nodes : /\ wire[l].matrix[n][a] <= wire[l].matrix[a][a]
                             /\ wire[l].matrix[n][a] <= matrix[n][n][a]
  BY <1>1, Cells DEF Unbroken, DownloadSound, NobodyAhead, \preceq
<1>3. /\ M \in Matrix /\ M[p] = matrix[p][p]
      /\ \A n, a \in Nodes : /\ matrix[p][n][a] <= M[n][a] /\ M[n][a] <= M[a][a]
                             /\ M[n][a] <= matrix[n][n][a]
  BY <1>1, <1>2, MergeLemma
<1>4. matrix[p] \in Matrix /\ command_to_exec[p] \in Row /\ messages[p] \in SUBSET Msg
  BY <1>1 DEF CrashTypeOK, TypeOK
<1>5. Sound(p, M, command_to_exec[p], messages[p])
  BY <1>1, <1>3, <1>4, SoundGrows DEF Unbroken
<1>6. matrix'[p] = M /\ \A q \in Nodes \ {p} : matrix'[q] = matrix[q]
  BY <1>1 DEF Unsaved, UpdateMatrix, CrashTypeOK, TypeOK
<1>7. UNCHANGED <<command_to_exec, messages, packets, saved>>
  BY DEF Unsaved, UpdateMatrix
<1>8. \A x \in Links : wire'[x] = wire[x] \/ wire'[x].phase \in {"idle", "ready"}
  BY DEF Unsaved, UpdateMatrix, CrashTypeOK, TypeOK, Ready
<1>. QED BY <1>1, <1>3, <1>5, <1>6, <1>7, <1>8, NodeChanges

LEMMA AddCmdKeeps ==
  ASSUME CrashTypeOK, CrashTypeOK', Unbroken, NEW l \in Links, Unsaved(AddCmd(l))
  PROVE  Unbroken'
<1>. USE MaxCmdAssumption DEF Count, Numbers
<1>. DEFINE p == l[1]
            m == wire[l].msg
            T == {m}
<1>1. p \in Nodes /\ wire[l].phase = "reply" /\ m \in Msg
  BY LinksAssumption DEF Unsaved, AddCmd, CrashTypeOK, TypeOK, Wires
<1>2. matrix[p] \in Matrix /\ command_to_exec[p] \in Row /\ messages[p] \in SUBSET Msg
  BY <1>1 DEF CrashTypeOK, TypeOK
<1>3. Sound(p, matrix[p], command_to_exec[p], messages[p])
  BY <1>1 DEF Unbroken
<1>4. m.value = "command" /\ m.number <= matrix[p][p][m.author] /\ m.number < matrix[p][m.author][m.author]
  BY <1>1 DEF Unbroken, DownloadSound
<1>5. ASSUME NEW k \in Numbers, matrix[p][p][m.author] <= k, k < m.number PROVE FALSE
  <2>1. matrix[p][p][m.author] \in 0 .. MaxCmd /\ m.number \in Numbers
    BY <1>1, <1>2 DEF Matrix, Row, Msg
  <2>. QED BY <1>4, <1>5, <2>1
<1>6. PICK row \in Row :
        /\ Advanced(matrix[p][p], Insert(messages[p], T), T, row)
        /\ matrix' = [matrix EXCEPT ![p] = [matrix[p] EXCEPT ![p] = row]]
        /\ messages' = [messages EXCEPT ![p] = Insert(messages[p], T)]
  BY DEF Unsaved, AddCmd, AddCmds
<1>7. T \in SUBSET Msg
  BY <1>1
<1>8. /\ matrix[p][p] \preceq row
      /\ Sound(p, [matrix[p] EXCEPT ![p] = row], command_to_exec[p], Insert(messages[p], T))
  BY <1>1, <1>2, <1>3, <1>4, <1>5, <1>6, <1>7, SoundAdds
<1>9. /\ matrix'[p] = [matrix[p] EXCEPT ![p] = row] /\ messages'[p] = Insert(messages[p], T)
      /\ \A q \in Nodes \ {p} : matrix'[q] = matrix[q] /\ messages'[q] = messages[q]
  BY <1>1, <1>6 DEF CrashTypeOK, TypeOK
<1>10. matrix'[p][p] = row /\ \A n \in Nodes \ {p} : matrix'[p][n] = matrix[p][n]
  BY <1>1, <1>2, <1>9 DEF Matrix
<1>11. ASSUME NEW n \in Nodes, NEW a \in Nodes PROVE matrix[p][n][a] <= matrix'[p][n][a]
  <2>1. matrix[p][n][a] \in 0 .. MaxCmd
    BY <1>1, Cells
  <2>. QED BY <1>8, <1>10, <2>1 DEF \preceq
<1>12. \A n \in Nodes \ {p}, a \in Nodes : matrix'[p][n][a] <= matrix[n][n][a]
  BY <1>1, <1>10 DEF Unbroken, NobodyAhead, \preceq
<1>13. UNCHANGED <<command_to_exec, packets, saved>>
  BY DEF Unsaved, AddCmd
<1>14. \A x \in Links : wire'[x] = wire[x] \/ wire'[x].phase \in {"idle", "ready"}
  BY DEF Unsaved, AddCmd, CrashTypeOK, TypeOK, Ready
<1>. QED BY <1>1, <1>8, <1>9, <1>11, <1>12, <1>13, <1>14, NodeChanges

LEMMA SaveKeeps ==
  ASSUME CrashTypeOK, CrashTypeOK', Unbroken, NEW p \in Nodes, Save(p)
  PROVE  Unbroken'
<1>1. UNCHANGED <<matrix, command_to_exec, messages, status, packets, wire>>
  BY DEF Save, vars
<1>2. saved' = [saved EXCEPT ![p] = State(p)']
  BY <1>1 DEF Save, State
<1>3. \A n, a \in Nodes : matrix[p][n][a] <= matrix'[p][n][a]
  BY <1>1, Cells
<1>4. \A n \in Nodes \ {p}, a \in Nodes : matrix'[p][n][a] <= matrix[n][n][a]
  BY <1>1 DEF Unbroken, NobodyAhead, \preceq
<1>5. Sound(p, matrix'[p], command_to_exec'[p], messages'[p])
  BY <1>1 DEF Unbroken
<1>. QED BY <1>1, <1>2, <1>3, <1>4, <1>5, NodeChanges

-----------------------------------------------------------------------------
(* The steps that change a packet file or a download *)

LEMMA WritePacketKeeps ==
  ASSUME CrashTypeOK, Unbroken, NEW p \in Nodes, Unsaved(WritePacket(p))
  PROVE  Unbroken'
<1>. USE MaxCmdAssumption DEF Count, Numbers
<1>1. PICK written \in FilePrefixes(messages[p]) :
        packets' = packets \cup {[matrix |-> matrix[p], messages |-> written]}
  BY DEF Unsaved, WritePacket
<1>2. UNCHANGED <<matrix, command_to_exec, messages, wire, saved>>
  BY DEF Unsaved, WritePacket
<1>. DEFINE new == [matrix |-> matrix[p], messages |-> written]
<1>3. /\ written \subseteq messages[p]
      /\ \A m \in written, x \in messages[p] : Before(x, m) => x \in written
  BY <1>1 DEF FilePrefixes
<1>4. Sound(p, matrix[p], command_to_exec[p], messages[p]) /\ messages[p] \in SUBSET Msg
  BY DEF Unbroken, CrashTypeOK, TypeOK
<1>5. \A n, a \in Nodes : matrix[n][p][a] \in 0 .. MaxCmd /\ matrix[p][n][a] \in 0 .. MaxCmd
  BY Cells
<1>6. PacketSound(new)
  <2>1. ASSUME NEW m \in written
        PROVE  /\ m.value = "command" /\ m.number < matrix[p][m.author][m.author]
               /\ \A k \in Numbers : k < m.number /\ ~Stored(written, m.author, k)
                                      => \A n \in Nodes : k < matrix[p][n][m.author]
    <3>1. m \in messages[p] /\ m.author \in Nodes /\ m.number \in Numbers
      BY <1>3, <1>4 DEF Msg
    <3>2. /\ m.value = "command" /\ m.number < matrix[p][p][m.author]
          /\ matrix[p][p][m.author] <= matrix[p][m.author][m.author]
      BY <1>4, <3>1 DEF Sound
    <3>3. ASSUME NEW k \in Numbers, k < m.number, ~Stored(written, m.author, k)
          PROVE  \A n \in Nodes : k < matrix[p][n][m.author]
      <4>1. ~Stored(messages[p], m.author, k)
        BY <1>3, <3>3 DEF Stored, Before
      <4>2. k < matrix[p][p][m.author]
        BY <1>5, <3>1, <3>2, <3>3
      <4>. QED BY <1>4, <3>1, <4>1, <4>2 DEF Sound
    <3>. QED BY <1>5, <3>1, <3>2, <3>3
  <2>. QED BY <1>4, <2>1 DEF PacketSound, Sound
<1>7. \A pkt \in packets' : PacketSound(pkt)
  BY <1>1, <1>6 DEF Unbroken
<1>8. \A n \in Nodes : new.matrix[n] \preceq matrix[n][n]
  BY DEF Unbroken, NobodyAhead
<1>9. NobodyAhead'
  BY <1>1, <1>2, <1>8 DEF Unbroken, NobodyAhead, \preceq
<1>. QED BY <1>2, <1>7, <1>9 DEF Unbroken, DownloadSound, PacketSound, Stored

(* A download goes on: what it brings is what the other side knows. *)
LEMMA WireKeeps ==
  ASSUME CrashTypeOK, CrashTypeOK', Unbroken, NEW l \in Links,
         UNCHANGED <<matrix, command_to_exec, messages, packets, saved>>,
         \A x \in Links \ {l} : wire'[x] = wire[x],
         DownloadSound(l)',
         wire'[l].phase = "matrix" => \A n \in Nodes : wire'[l].matrix[n] \preceq matrix[n][n]
  PROVE  Unbroken'
<1>1. \A x \in Links : DownloadSound(x)'
  BY DEF Unbroken, DownloadSound
<1>2. NobodyAhead'
  BY DEF Unbroken, NobodyAhead, \preceq
<1>. QED BY <1>1, <1>2 DEF Unbroken, PacketSound

LEMMA DownloadKeeps ==
  ASSUME CrashTypeOK, CrashTypeOK', Unbroken, NEW l \in Links,
         Unsaved(WriteMatrix(l) \/ RequestMessage(l) \/ SendCommand(l) \/ CommandNotFound(l))
  PROVE  Unbroken'
<1>. USE MaxCmdAssumption DEF Count, Numbers
<1>1. l[1] \in Nodes /\ l[2] \in Nodes
  BY LinksAssumption
<1>2. UNCHANGED <<matrix, command_to_exec, messages, packets, saved>>
  BY DEF Unsaved, WriteMatrix, RequestMessage, SendCommand, CommandNotFound
<1>3. \A x \in Links \ {l} : wire'[x] = wire[x]
  BY DEF Unsaved, WriteMatrix, RequestMessage, SendCommand, CommandNotFound, CrashTypeOK, TypeOK
<1>4. \A q \in Nodes : Sound(q, matrix[q], command_to_exec[q], messages[q])
  BY DEF Unbroken
<1>5. \A q, n, a \in Nodes : matrix[q][n][a] \in 0 .. MaxCmd
  BY Cells
<1>6. CASE WriteMatrix(l)
  <2>1. wire'[l] = SendingM(matrix[l[2]])
    BY <1>6 DEF WriteMatrix, CrashTypeOK, TypeOK
  <2>2. DownloadSound(l)'
    BY <1>1, <1>2, <1>4, <2>1 DEF DownloadSound, SendingM, Sound
  <2>3. \A n \in Nodes : wire'[l].matrix[n] \preceq matrix[n][n]
    BY <1>1, <2>1 DEF SendingM, Unbroken, NobodyAhead
  <2>. QED BY <1>2, <1>3, <2>2, <2>3, WireKeeps
<1>7. CASE RequestMessage(l)
  <2>1. CASE wire' = [wire EXCEPT ![l] = Idle]
    <3>1. wire'[l].phase = "idle"
      BY <2>1 DEF CrashTypeOK, TypeOK, Idle
    <3>2. DownloadSound(l)'
      BY <3>1 DEF DownloadSound
    <3>. QED BY <1>2, <1>3, <3>1, <3>2, WireKeeps
  <2>2. ASSUME NEW a \in Behind(l[1], l[2]), wire' = [wire EXCEPT ![l] = Asked(a, matrix[l[1]][l[1]][a])]
        PROVE  Unbroken'
    <3>1. wire'[l] = Asked(a, matrix[l[1]][l[1]][a])
      BY <2>2 DEF CrashTypeOK, TypeOK
    <3>2. a \in Nodes /\ matrix[l[1]][l[1]][a] < matrix[l[1]][l[2]][a]
      BY <2>2 DEF Behind
    <3>3. matrix[l[1]][l[2]][a] <= matrix[l[1]][a][a]
      BY <1>1, <1>4, <3>2 DEF Sound
    <3>4. matrix[l[1]][l[1]][a] < matrix[l[1]][a][a] /\ matrix[l[1]][l[1]][a] <= matrix[l[1]][l[1]][a]
      BY <1>1, <1>5, <3>2, <3>3
    <3>5. DownloadSound(l)' /\ wire'[l].phase # "matrix"
      BY <1>2, <3>1, <3>4 DEF DownloadSound, Asked
    <3>. QED BY <1>2, <1>3, <3>5, WireKeeps
  <2>. QED BY <1>7, <2>1, <2>2 DEF RequestMessage
<1>8. CASE SendCommand(l)
  <2>1. PICK m \in messages[l[2]] :
          /\ m.author = wire[l].author /\ m.number = wire[l].number
          /\ wire' = [wire EXCEPT ![l] = Reply(m)]
    BY <1>8 DEF SendCommand
  <2>2. wire'[l] = Reply(m) /\ m.value = "command"
    BY <1>1, <1>4, <2>1 DEF CrashTypeOK, TypeOK, Sound
  <2>3. DownloadSound(l) /\ wire[l].phase = "asked"
    BY <1>8 DEF Unbroken, SendCommand
  <2>4. DownloadSound(l)' /\ wire'[l].phase # "matrix"
    BY <1>2, <2>1, <2>2, <2>3 DEF DownloadSound, Reply
  <2>. QED BY <1>2, <1>3, <2>4, WireKeeps
<1>9. CASE CommandNotFound(l)
  <2>1. wire'[l].phase = "idle"
    BY <1>9 DEF CommandNotFound, CrashTypeOK, TypeOK, Idle
  <2>2. DownloadSound(l)'
    BY <2>1 DEF DownloadSound
  <2>. QED BY <1>2, <1>3, <2>1, <2>2, WireKeeps
<1>. QED BY <1>6, <1>7, <1>8, <1>9 DEF Unsaved

-----------------------------------------------------------------------------
(* A crash *)

(* When nobody knows more of a node than it has saved, all is as if it had   *)
(* just saved that state and nothing had happened to it since.              *)
LEMMA RestartKeeps ==
  ASSUME CrashTypeOK, CrashTypeOK', Unbroken, NEW p \in Nodes, Restart(p), ~ToldMore(p)
  PROVE  Unbroken'
<1>. USE MaxCmdAssumption DEF Count, Numbers
<1>. DEFINE s == saved[p]
<1>1. /\ s.matrix \in Matrix /\ s.command_to_exec \in Row /\ s.messages \in SUBSET Msg
      /\ Sound(p, s.matrix, s.command_to_exec, s.messages)
  BY DEF CrashTypeOK, States, Unbroken
<1>2. \A n, a \in Nodes : s.matrix[n][a] <= s.matrix[n][a] /\ s.matrix[n][a] <= s.matrix[a][a]
  BY <1>1, Cells DEF Sound
<1>3. /\ CheckedMatrix(p, s.matrix, s.command_to_exec, s.messages) = s.matrix
      /\ CheckedMessages(p, s.matrix, s.command_to_exec, s.messages) = s.messages
  BY <1>1, <1>2, SoundGrows
<1>4. /\ matrix'[p] = s.matrix /\ messages'[p] = s.messages /\ command_to_exec'[p] = s.command_to_exec
      /\ \A q \in Nodes \ {p} : /\ matrix'[q] = matrix[q] /\ messages'[q] = messages[q]
                                 /\ command_to_exec'[q] = command_to_exec[q]
  BY <1>3 DEF Restart, CrashTypeOK, TypeOK
<1>5. /\ UNCHANGED <<packets, saved>>
      /\ \A l \in Links : wire'[l] = IF p \in {l[1], l[2]} THEN Idle ELSE wire[l]
  BY DEF Restart
<1>6. /\ \A q \in Nodes \ {p} : matrix[q][p] \preceq s.matrix[p]
      /\ \A pkt \in packets : pkt.matrix[p] \preceq s.matrix[p]
      /\ \A l \in Links : l[1] # p /\ wire[l].phase = "matrix" => wire[l].matrix[p] \preceq s.matrix[p]
  BY DEF ToldMore
<1>7. \A q, n, a \in Nodes : /\ matrix[q][n][a] \in 0 .. MaxCmd /\ matrix'[q][n][a] \in 0 .. MaxCmd
                             /\ saved[q].matrix[n][a] \in 0 .. MaxCmd
  <2>1. \A q, n, a \in Nodes : matrix'[q][n][a] \in 0 .. MaxCmd
    BY DEF CrashTypeOK, TypeOK, Matrix, Row
  <2>. QED BY <2>1, Cells
<1>8. ASSUME NEW q \in Nodes
      PROVE  /\ Sound(q, matrix'[q], command_to_exec'[q], messages'[q])
             /\ Sound(q, saved'[q].matrix, saved'[q].command_to_exec, saved'[q].messages)
  <2>1. CASE q = p
    BY <1>1, <1>4, <1>5, <2>1
  <2>2. CASE q # p
    BY <1>4, <1>5, <2>2 DEF Unbroken
  <2>. QED BY <2>1, <2>2
<1>9. ASSUME NEW l \in Links PROVE DownloadSound(l)'
  <2>1. CASE p \in {l[1], l[2]}
    BY <1>5, <2>1 DEF DownloadSound, Idle
  <2>2. CASE p \notin {l[1], l[2]}
    <3>1. l[1] \in Nodes \ {p} /\ wire'[l] = wire[l] /\ DownloadSound(l)
      BY <1>5, <2>2, LinksAssumption DEF Unbroken
    <3>. QED BY <1>4, <3>1 DEF DownloadSound
  <2>. QED BY <2>1, <2>2
<1>10. NobodyAhead'
  <2>. SUFFICES ASSUME NEW n \in Nodes, NEW a \in Nodes
                PROVE  /\ \A q \in Nodes : /\ matrix'[q][n][a] <= matrix'[n][n][a]
                                           /\ saved'[q].matrix[n][a] <= matrix'[q][n][a]
                       /\ \A pkt \in packets' : pkt.matrix[n][a] <= matrix'[n][n][a]
                       /\ \A l \in Links : wire'[l].phase = "matrix" =>
                            wire'[l].matrix[n][a] <= matrix'[n][n][a]
    BY DEF NobodyAhead, \preceq
  <2>1. ASSUME NEW q \in Nodes
        PROVE  matrix[q][n][a] <= matrix[n][n][a] /\ saved[q].matrix[n][a] <= matrix[q][n][a]
    BY DEF Unbroken, NobodyAhead, \preceq
  <2>2. ASSUME NEW q \in Nodes PROVE saved'[q].matrix[n][a] <= matrix'[q][n][a]
    <3>1. CASE q = p
      BY <1>4, <1>5, <1>7, <3>1
    <3>2. CASE q # p
      BY <1>4, <1>5, <2>1, <3>2
    <3>. QED BY <3>1, <3>2
  <2>3. ASSUME NEW q \in Nodes PROVE matrix'[q][n][a] <= matrix'[n][n][a]
    <3>1. CASE n = p
      <4>1. CASE q = p
        BY <1>7, <3>1, <4>1
      <4>2. CASE q # p
        BY <1>4, <1>6, <3>1, <4>2 DEF \preceq
      <4>. QED BY <4>1, <4>2
    <3>2. CASE n # p
      <4>1. matrix'[n] = matrix[n]
        BY <1>4, <3>2
      <4>2. matrix'[q][n][a] <= matrix[q][n][a]
        <5>1. CASE q = p
          BY <1>4, <2>1, <5>1
        <5>2. CASE q # p
          BY <1>4, <1>7, <5>2
        <5>. QED BY <5>1, <5>2
      <4>. QED BY <1>7, <2>1, <4>1, <4>2
    <3>. QED BY <3>1, <3>2
  <2>4. ASSUME NEW pkt \in packets' PROVE pkt.matrix[n][a] <= matrix'[n][n][a]
    <3>1. pkt \in packets /\ pkt.matrix[n][a] <= matrix[n][n][a]
      BY <1>5, <2>4 DEF Unbroken, NobodyAhead, \preceq
    <3>2. CASE n = p
      BY <1>4, <1>6, <3>1, <3>2 DEF \preceq
    <3>. QED BY <1>4, <3>1, <3>2
  <2>5. ASSUME NEW l \in Links, wire'[l].phase = "matrix"
        PROVE  wire'[l].matrix[n][a] <= matrix'[n][n][a]
    <3>1. l[1] # p /\ wire'[l] = wire[l]
      BY <1>5, <2>5 DEF Idle
    <3>2. wire[l].matrix[n][a] <= matrix[n][n][a]
      BY <2>5, <3>1 DEF Unbroken, NobodyAhead, \preceq
    <3>3. CASE n = p
      BY <1>4, <1>6, <2>5, <3>1, <3>3 DEF \preceq
    <3>. QED BY <1>4, <3>1, <3>2, <3>3
  <2>. QED BY <2>2, <2>3, <2>4, <2>5
<1>11. \A pkt \in packets' : PacketSound(pkt)'
  BY <1>5 DEF Unbroken, PacketSound
<1>. QED BY <1>8, <1>9, <1>10, <1>11 DEF Unbroken

-----------------------------------------------------------------------------
(* The theorems *)

LEMMA CrashInitInv == CrashInit => CrashInv
<1>. SUFFICES ASSUME CrashInit PROVE CrashInv
  OBVIOUS
<1>. USE MaxCmdAssumption DEF Count, Numbers
<1>1. IInv
  BY InitLemma DEF CrashInit
<1>2. /\ TypeOK
      /\ saved = [p \in Nodes |-> State(p)]
  BY <1>1 DEF CrashInit, IInv
<1>3. CrashTypeOK
  BY <1>2, StateTyped DEF CrashInit, CrashTypeOK
<1>4. /\ \A p, n, a \in Nodes : matrix[p][n][a] = 0 /\ command_to_exec[p][a] = 0
      /\ \A p \in Nodes : messages[p] = {} /\ State(p).matrix = matrix[p]
      /\ packets = {}
      /\ \A l \in Links : wire[l].phase = "idle"
  BY DEF CrashInit, Init, ZeroMatrix, ZeroRow, Idle, State
<1>5. \A p \in Nodes : Sound(p, matrix[p], command_to_exec[p], messages[p])
  BY <1>4 DEF Sound, \preceq
<1>6. \A p \in Nodes : Sound(p, saved[p].matrix, saved[p].command_to_exec, saved[p].messages)
  BY <1>2, <1>5 DEF State
<1>7. NobodyAhead
  BY <1>2, <1>4 DEF NobodyAhead, \preceq
<1>8. \A l \in Links : DownloadSound(l)
  BY <1>4 DEF DownloadSound
<1>. QED BY <1>3, <1>4, <1>5, <1>6, <1>7, <1>8 DEF CrashInv

LEMMA CrashStepInv == CrashInv /\ [CrashNext]_allvars => CrashInv'
<1>. SUFFICES ASSUME CrashInv, [CrashNext]_allvars, ~broken' PROVE CrashTypeOK' /\ Unbroken'
  <2>1. CrashInv /\ [CrashNext]_allvars => CrashTypeOK'
    BY TypesStep DEF CrashInv
  <2>. QED BY <2>1 DEF CrashInv, Unbroken
<1>1. CrashTypeOK /\ CrashTypeOK'
  BY TypesStep DEF CrashInv
<1>2. ~broken
  BY <1>1 DEF CrashNext, Unsaved, ExecuteAndSave, Save, Restart, allvars, CrashTypeOK
<1>3. Unbroken
  BY <1>2, CrashInvIs
<1>4. ASSUME NEW p \in Nodes,
             Unsaved(\E depends \in {command_to_exec[p], ZeroRow} : CreateCommand(p, depends))
      PROVE  Unbroken'
  BY <1>1, <1>3, <1>4, CreateKeeps DEF Unsaved
<1>5. ASSUME NEW p \in Nodes, Unsaved(WritePacket(p) \/ \E pkt \in packets : ReadPacket(p, pkt))
      PROVE  Unbroken'
  BY <1>1, <1>3, <1>5, WritePacketKeeps, ReadPacketKeeps DEF Unsaved
<1>6. ASSUME NEW p \in Nodes, ExecuteAndSave(p) PROVE Unbroken'
  BY <1>1, <1>3, <1>6, ExecuteKeeps
<1>7. ASSUME NEW p \in Nodes, Save(p) PROVE Unbroken'
  BY <1>1, <1>3, <1>7, SaveKeeps
<1>8. ASSUME NEW p \in Nodes, Restart(p) PROVE Unbroken'
  <2>1. ~ToldMore(p)
    BY <1>1, <1>8 DEF Restart, CrashTypeOK
  <2>. QED BY <1>1, <1>3, <1>8, <2>1, RestartKeeps
<1>9. ASSUME NEW l \in Links, Unsaved(Transfer(l)) PROVE Unbroken'
  BY <1>1, <1>3, <1>9, UpdateMatrixKeeps, AddCmdKeeps, DownloadKeeps DEF Unsaved, Transfer
<1>10. CASE UNCHANGED allvars
  <2>1. UNCHANGED <<matrix, command_to_exec, messages, packets, wire, saved>>
    BY <1>10 DEF allvars, vars
  <2>2. \A l \in Links : DownloadSound(l)'
    BY <1>3, <2>1 DEF Unbroken, DownloadSound
  <2>3. NobodyAhead'
    BY <1>3, <2>1 DEF Unbroken, NobodyAhead
  <2>. QED BY <1>1, <1>3, <2>1, <2>2, <2>3 DEF Unbroken
<1>. QED BY <1>1, <1>4, <1>5, <1>6, <1>7, <1>8, <1>9, <1>10 DEF CrashNext

THEOREM CrashInvariance == CrashSpec => []CrashInv
BY CrashInitInv, CrashStepInv, PTL DEF CrashSpec

(* Types: also those of a state that check_matrix() has repaired. *)
THEOREM CrashTypes == CrashSpec => []CrashTypeOK
<1>1. CrashInv => CrashTypeOK
  BY DEF CrashInv
<1>. QED BY <1>1, CrashInvariance, PTL

(* Crashes at any time, any number of them: as long as no node crashed of    *)
(* which others knew more than it had saved, remove_old_commands() has lost *)
(* no command that somebody needs, and add_cmd() has left no gap.           *)
THEOREM CrashesHarmNobody == CrashSpec => []CrashesAreHarmless
<1>1. CrashInv => CrashesAreHarmless
  <2>. SUFFICES ASSUME CrashInv, ~broken PROVE NothingLost /\ NoGaps
    BY DEF CrashesAreHarmless
  <2>. USE MaxCmdAssumption DEF Count, Numbers
  <2>1. Unbroken /\ CrashTypeOK
    BY CrashInvIs
  <2>2. \A q, n, a \in Nodes : matrix[q][n][a] \in 0 .. MaxCmd /\ command_to_exec[q][a] \in 0 .. MaxCmd
    BY <2>1, Cells
  <2>3. \A q \in Nodes : Sound(q, matrix[q], command_to_exec[q], messages[q])
    BY <2>1 DEF Unbroken
  <2>4. NothingLost
    <3>. SUFFICES ASSUME NEW p \in Nodes, NEW q \in Nodes, NEW a \in Nodes, NEW k \in Numbers,
                         k < matrix[q][q][a],
                         matrix[p][p][a] <= k \/ command_to_exec[q][a] <= k,
                         ~Stored(messages[q], a, k)
                  PROVE  FALSE
      BY DEF NothingLost
    <3>1. k < command_to_exec[q][a] /\ k < matrix[q][p][a]
      BY <2>3 DEF Sound
    <3>2. matrix[q][p][a] <= matrix[p][p][a]
      BY <2>1 DEF Unbroken, NobodyAhead, \preceq
    <3>. QED BY <2>2, <3>1, <3>2
  <2>5. NoGaps
    BY <2>3 DEF Sound, NoGaps
  <2>. QED BY <2>4, <2>5
<1>. QED BY <1>1, CrashInvariance, PTL

(* A node that starts again, even with a state that is not sound any more,   *)
(* stores every command that it claims to know and has not executed.        *)
THEOREM RestartRepairsAll == CrashSpec => RestartRepairs
<1>1. ASSUME CrashInv, [CrashNext]_allvars, NEW p \in Nodes, Restart(p),
             NEW a \in Nodes, NEW k \in Numbers,
             command_to_exec'[p][a] <= k, k < matrix'[p][p][a]
      PROVE  Stored(messages'[p], a, k)
  <2>. DEFINE s == saved[p]
  <2>1. /\ s.matrix \in Matrix /\ s.command_to_exec \in Row /\ s.messages \in SUBSET Msg
    BY <1>1 DEF CrashInv, CrashTypeOK, States
  <2>2. /\ matrix'[p] = CheckedMatrix(p, s.matrix, s.command_to_exec, s.messages)
        /\ messages'[p] = CheckedMessages(p, s.matrix, s.command_to_exec, s.messages)
        /\ command_to_exec'[p] = s.command_to_exec
    BY <1>1 DEF Restart, CrashInv, CrashTypeOK, TypeOK
  <2>. QED BY <1>1, <2>1, <2>2, RepairLemma
<1>. DEFINE Repairs ==
       \A p \in Nodes : Restart(p) =>
         \A a \in Nodes, k \in Numbers :
           command_to_exec'[p][a] <= k /\ k < matrix'[p][p][a] => Stored(messages'[p], a, k)
<1>2. CrashInv /\ [CrashNext]_allvars => [Repairs]_allvars
  BY <1>1
<1>3. CrashSpec => [][Repairs]_allvars
  BY <1>2, CrashInvariance, PTL DEF CrashSpec
<1>. QED BY <1>3 DEF RestartRepairs

-----------------------------------------------------------------------------
(* Users: for any accounts, commands and crashes, updating /etc/shadow keeps the *)
(* lines of accounts that are none of the group's, and the last command about a  *)
(* user counts.                                                                  *)

LEMMA LinesInit == UsersInit => LinesInv
BY SystemAssumption, LineAssumption DEF UsersInit, LinesInv, FilesTyped, Holds, line

(* A user appears: an account that is there already keeps its line.        *)
LEMMA AppearsLemma ==
  ASSUME FilesTyped, NEW n, NEW pw, Appears(n, pw)
  PROVE  /\ untouched' = untouched
         /\ untouched' \subseteq accounts'
         /\ shadow' = Gone \/ DOMAIN shadow' = Nicks
         /\ \A k \in untouched : line(shadow, k) # NoLine => line(shadow', k) # NoLine
<1>1. CASE n \in accounts
  BY <1>1 DEF Appears, FilesTyped
<1>2. CASE n \notin accounts
  BY <1>2 DEF Appears, FilesTyped, line
<1>. QED BY <1>1, <1>2

(* An account goes: the others keep their lines.                            *)
LEMMA DisappearsLemma ==
  ASSUME FilesTyped, NEW n, Disappears(n)
  PROVE  /\ untouched' \subseteq untouched
         /\ untouched' \subseteq accounts'
         /\ shadow' = Gone \/ DOMAIN shadow' = Nicks
         /\ \A k \in untouched' : line(shadow, k) # NoLine => line(shadow', k) # NoLine
BY DEF Disappears, FilesTyped, line

(* What is written has a line for each one in the copy.                     *)
LEMMA WrittenLemma ==
  ASSUME DOMAIN backup = Nicks
  PROVE  /\ DOMAIN Written = Nicks
         /\ \A n \in Nicks : line(backup, n) # NoLine => line(Written, n) # NoLine
BY DEF Written, line

LEMMA LinesStep == LinesInv /\ [UsersNext]_usersvars => LinesInv'
<1>. SUFFICES ASSUME LinesInv, [UsersNext]_usersvars PROVE LinesInv'
  OBVIOUS
<1>1. FilesTyped
  BY DEF LinesInv
<1>2. ASSUME NEW n \in Nicks, NEW pw, LocalAdduser(n, pw) PROVE LinesInv'
  <2>. USE <1>2 DEF LocalAdduser
  <2>1. CASE n \in accounts
    <3>1. Disappears(n)
      BY <2>1
    <3>. QED BY <1>1, <3>1, DisappearsLemma DEF LinesInv, FilesTyped, Holds
  <2>2. CASE n \notin accounts
    <3>1. Appears(n, pw)
      BY <2>2
    <3>. QED BY <1>1, <3>1, AppearsLemma DEF LinesInv, FilesTyped, Holds
  <2>. QED BY <2>1, <2>2
<1>3. ASSUME NEW n \in Nicks, NEW pw, NEW op, Arrive(op, n, pw) PROVE LinesInv'
  BY <1>3 DEF Arrive, LinesInv, FilesTyped, Holds
<1>4. ASSUME clear PROVE LinesInv'
  <2>1. \A k \in untouched' : line(shadow, k) # NoLine => line(shadow', k) # NoLine
    BY <1>1, <1>4 DEF clear, FilesTyped, line
  <2>2. FilesTyped'
    BY <1>1, <1>4 DEF clear, FilesTyped
  <2>3. untouched' \subseteq untouched /\ pc = "idle" /\ UNCHANGED <<pc, torn, backup>>
    BY <1>4 DEF clear
  <2>. QED BY <2>1, <2>2, <2>3 DEF LinesInv, Holds
<1>5. ASSUME add PROVE LinesInv'
  <2>1. pc = "idle" /\ pc' = "remove" /\ UNCHANGED <<torn, backup>>
    BY <1>5 DEF add, HasCommand
  <2>2. CASE Appears(Next1.nick, NoPassword)
    BY <1>1, <1>5, <2>1, <2>2, AppearsLemma DEF LinesInv, FilesTyped, Holds
  <2>3. CASE UNCHANGED <<accounts, untouched, shadow>>
    BY <1>1, <2>1, <2>3 DEF LinesInv, FilesTyped, Holds
  <2>. QED BY <1>5, <2>2, <2>3 DEF add
<1>6. ASSUME del PROVE LinesInv'
  <2>1. pc = "idle" /\ pc' = "remove" /\ UNCHANGED <<torn, backup>> /\ Disappears(Next1.nick)
    BY <1>6 DEF del, HasCommand
  <2>. QED BY <1>1, <1>6, <2>1, DisappearsLemma DEF LinesInv, FilesTyped, Holds
<1>7. CASE RemoveBackup
  BY <1>1, <1>7 DEF RemoveBackup, LinesInv, FilesTyped, Holds
<1>8. CASE Rename
  BY <1>1, <1>8 DEF Rename, LinesInv, FilesTyped, Holds, line, Gone
<1>9. CASE Write
  <2>1. DOMAIN backup = Nicks
    BY <1>9 DEF Write, LinesInv
  <2>. QED BY <1>1, <1>9, <2>1, WrittenLemma DEF Write, LinesInv, FilesTyped, Holds
<1>10. CASE save
  BY <1>1, <1>10 DEF save, LinesInv, FilesTyped, Holds
<1>11. CASE Crash
  <2>1. /\ UNCHANGED <<accounts, untouched, backup>>
        /\ pc' = "idle"
    BY <1>11 DEF Crash
  <2>2. CASE pc = "write"
    <3>1. shadow' = Gone \/ DOMAIN shadow' = Nicks
      BY <1>11, <2>2 DEF Crash
    <3>2. torn' = IF torn = "lost" THEN "lost" ELSE "torn"
      BY <1>11, <2>2 DEF Crash
    <3>. QED BY <1>1, <2>1, <2>2, <3>1, <3>2 DEF LinesInv, FilesTyped, Holds
  <2>3. CASE pc # "write"
    <3>1. UNCHANGED <<shadow, torn>>
      BY <1>11, <2>3 DEF Crash
    <3>. QED BY <1>1, <2>1, <2>3, <3>1 DEF LinesInv, FilesTyped, Holds
  <2>. QED BY <2>2, <2>3
<1>12. CASE UNCHANGED usersvars
  BY <1>1, <1>12 DEF usersvars, LinesInv, FilesTyped, Holds
<1>. QED BY <1>2, <1>3, <1>4, <1>5, <1>6, <1>7, <1>8, <1>9, <1>10, <1>11, <1>12 DEF UsersNext

LEMMA LinesInvariance == UsersSpec => []LinesInv
BY LinesInit, LinesStep, PTL DEF UsersSpec

(* Whatever updpwd() is doing when the program crashes, and however often:   *)
(* an account that the group has nothing to do with has its line in          *)
(* /etc/shadow or in the copy, until a second command follows a torn write.  *)
THEOREM LinesAreKept == UsersSpec => []OthersKeepTheirLines
<1>1. LinesInv => OthersKeepTheirLines
  BY DEF LinesInv, FilesTyped, Holds, OthersKeepTheirLines
<1>. QED BY <1>1, LinesInvariance, PTL

-----------------------------------------------------------------------------
(* The list of users                                                       *)

(* A set of natural numbers has a smallest one. *)
LEMMA SmallestLemma ==
  ASSUME NEW S \in SUBSET Nat, S # {}
  PROVE  \E n \in S : \A k \in S : n <= k
<1>1. OpToRel(<, Nat) = {ss \in Nat \X Nat : ss[1] < ss[2]}
  BY Zenon DEF OpToRel
<1>2. PICK n \in S : \A k \in S : ~(<<k, n>> \in {ss \in Nat \X Nat : ss[1] < ss[2]})
  BY <1>1, NatLessThanWellFounded, WFMin
<1>3. ASSUME NEW k \in S PROVE n <= k
  <2>1. <<k, n>> \in Nat \X Nat => ~(<<k, n>>[1] < <<k, n>>[2])
    BY <1>2
  <2>. QED BY <2>1
<1>. QED BY <1>3

LEMMA FirstLemma ==
  ASSUME NEW list \in Seq(UserLine), NEW n, positions(n, list) # {}
  PROVE  /\ first(n, list) \in 1 .. Len(list)
         /\ list[first(n, list)].nick = n
         /\ \A j \in positions(n, list) : first(n, list) <= j
         /\ find(n, list) = list[first(n, list)].pw
<1>1. positions(n, list) \in SUBSET Nat
  BY DEF positions
<1>2. \E i \in positions(n, list) : \A j \in positions(n, list) : i <= j
  BY <1>1, SmallestLemma
<1>3. /\ first(n, list) \in positions(n, list)
      /\ \A j \in positions(n, list) : first(n, list) <= j
  BY <1>2, Zenon DEF first
<1>. QED BY <1>3 DEF positions, find

(* The first line of a nick, wherever it is known to be, is what find() gives. *)
LEMMA FindLemma ==
  ASSUME NEW list \in Seq(UserLine), NEW n, NEW i \in 1 .. Len(list), list[i].nick = n,
         \A j \in 1 .. i - 1 : list[j].nick # n
  PROVE  find(n, list) = list[i].pw
<1>1. i \in positions(n, list)
  BY DEF positions
<1>2. first(n, list) \in 1 .. Len(list) /\ list[first(n, list)].nick = n
  BY <1>1, FirstLemma
<1>3. first(n, list) <= i
  BY <1>1, FirstLemma
<1>4. ~(first(n, list) < i)
  BY <1>2
<1>5. first(n, list) = i
  BY <1>2, <1>3, <1>4
<1>. QED BY <1>1, <1>5, FirstLemma

(* add_ns() makes the password of a short nick known, and leaves the others. *)
LEMMA AddLemma ==
  ASSUME users \in Seq(UserLine), NEW m \in Nicks, NEW pw \in Passwords
  PROVE  /\ add_ns(m, pw) \in Seq(UserLine)
         /\ m \notin LongNicks => find(m, add_ns(m, pw)) = pw
         /\ \A n \in Nicks \ {m} : find(n, users) # NoLine => find(n, add_ns(m, pw)) = find(n, users)
<1>. DEFINE new == add_ns(m, pw)
            known == Remembered(m) /\ positions(m, users) # {}
<1>0. Line(m, pw) \in UserLine /\ Line(m, pw).nick = m /\ Line(m, pw).pw = pw
  BY DEF Line, UserLine
<1>1. ASSUME NEW n \in Nicks, find(n, users) # NoLine
      PROVE  /\ positions(n, users) # {}
             /\ first(n, users) \in 1 .. Len(users)
             /\ users[first(n, users)].nick = n
             /\ find(n, users) = users[first(n, users)].pw
             /\ \A j \in 1 .. first(n, users) - 1 : users[j].nick # n
  <2>1. positions(n, users) # {}
    BY <1>1 DEF find
  <2>2. \A j \in positions(n, users) : first(n, users) <= j
    BY <2>1, FirstLemma
  <2>3. first(n, users) \in 1 .. Len(users)
    BY <2>1, FirstLemma
  <2>4. ASSUME NEW j \in 1 .. first(n, users) - 1 PROVE users[j].nick # n
    BY <2>2, <2>3 DEF positions
  <2>. QED BY <2>1, <2>3, <2>4, FirstLemma
<1>2. CASE known
  <2>. DEFINE f == first(m, users)
  <2>1. new = [users EXCEPT ![f] = Line(m, pw)]
    BY <1>2 DEF add_ns
  <2>2. /\ f \in 1 .. Len(users) /\ users[f].nick = m
        /\ \A j \in 1 .. f - 1 : users[j].nick # m
    <3>1. f \in 1 .. Len(users) /\ users[f].nick = m /\ \A j \in positions(m, users) : f <= j
      BY <1>2, FirstLemma
    <3>2. ASSUME NEW j \in 1 .. f - 1 PROVE users[j].nick # m
      BY <3>1 DEF positions
    <3>. QED BY <3>1, <3>2
  <2>. HIDE DEF f
  <2>3. /\ new \in Seq(UserLine) /\ Len(new) = Len(users)
        /\ new[f] = Line(m, pw)
        /\ \A j \in 1 .. Len(users) : j # f => new[j] = users[j]
    BY <1>0, <2>1, <2>2
  <2>. HIDE DEF new
  <2>4. find(m, new) = pw
    <3>1. \A j \in 1 .. f - 1 : new[j].nick # m
      BY <2>2, <2>3
    <3>. QED BY <1>0, <2>2, <2>3, <3>1, FindLemma
  <2>5. ASSUME NEW n \in Nicks \ {m}, find(n, users) # NoLine PROVE find(n, new) = find(n, users)
    <3>. DEFINE i == first(n, users)
    <3>1. /\ i \in 1 .. Len(users) /\ users[i].nick = n /\ find(n, users) = users[i].pw
          /\ \A j \in 1 .. i - 1 : users[j].nick # n
      BY <1>1, <2>5
    <3>. HIDE DEF i
    <3>2. new[i] = users[i] /\ \A j \in 1 .. i - 1 : new[j].nick # n
      BY <1>0, <2>2, <2>3, <3>1
    <3>. QED BY <2>3, <3>1, <3>2, FindLemma
  <2>. QED BY <2>3, <2>4, <2>5 DEF new
<1>3. CASE ~known
  <2>1. new = Append(users, Line(m, pw))
    BY <1>3 DEF add_ns
  <2>2. /\ new \in Seq(UserLine) /\ Len(new) = Len(users) + 1
        /\ new[Len(users) + 1] = Line(m, pw)
        /\ \A j \in 1 .. Len(users) : new[j] = users[j]
    BY <1>0, <2>1
  <2>. HIDE DEF new
  <2>3. ASSUME m \notin LongNicks PROVE find(m, new) = pw
    <3>1. \A j \in 1 .. Len(users) : users[j].nick # m
      BY <1>3, <2>3 DEF Remembered, positions
    <3>. QED BY <1>0, <2>2, <3>1, FindLemma
  <2>4. ASSUME NEW n \in Nicks \ {m}, find(n, users) # NoLine PROVE find(n, new) = find(n, users)
    <3>. DEFINE i == first(n, users)
    <3>1. /\ i \in 1 .. Len(users) /\ users[i].nick = n /\ find(n, users) = users[i].pw
          /\ \A j \in 1 .. i - 1 : users[j].nick # n
      BY <1>1, <2>4
    <3>. HIDE DEF i
    <3>2. i \in 1 .. Len(new) /\ new[i] = users[i] /\ \A j \in 1 .. i - 1 : new[j].nick # n
      BY <2>2, <3>1
    <3>. QED BY <2>2, <3>1, <3>2, FindLemma
  <2>. QED BY <2>2, <2>3, <2>4 DEF new
<1>. QED BY <1>2, <1>3

(* erase() leaves the passwords of others. *)
LEMMA EraseLemma ==
  ASSUME users \in Seq(UserLine), NEW m \in Nicks
  PROVE  /\ erase(m) \in Seq(UserLine)
         /\ \A n \in Nicks \ {m} : find(n, users) # NoLine => find(n, erase(m)) = find(n, users)
<1>. DEFINE new == erase(m)
            f == first(m, users)
<1>1. CASE positions(m, users) = {}
  BY <1>1 DEF erase
<1>2. CASE positions(m, users) # {}
  <2>1. new = SubSeq(users, 1, f - 1) \o SubSeq(users, f + 1, Len(users))
    BY <1>2 DEF erase, RemoveAt
  <2>2. f \in 1 .. Len(users) /\ users[f].nick = m
    BY <1>2, FirstLemma
  <2>. HIDE DEF f
  <2>3. /\ new \in Seq(UserLine) /\ Len(new) = Len(users) - 1
        /\ \A j \in 1 .. f - 1 : new[j] = users[j]
        /\ \A j \in f .. Len(users) - 1 : new[j] = users[j + 1]
    <3>. DEFINE a == SubSeq(users, 1, f - 1)
                b == SubSeq(users, f + 1, Len(users))
    <3>1. /\ a \in Seq(UserLine) /\ Len(a) = f - 1
          /\ \A j \in 1 .. f - 1 : a[j] = users[j]
      BY <2>2
    <3>2. /\ b \in Seq(UserLine) /\ Len(b) = Len(users) - f
          /\ \A j \in 1 .. Len(users) - f : b[j] = users[f + j]
      BY <2>2
    <3>3. new = a \o b
      BY <2>1
    <3>. HIDE DEF a, b, new
    <3>4. /\ new \in Seq(UserLine) /\ Len(new) = Len(a) + Len(b)
          /\ \A j \in 1 .. Len(a) + Len(b) : new[j] = IF j <= Len(a) THEN a[j] ELSE b[j - Len(a)]
      BY <3>1, <3>2, <3>3, ConcatProperties
    <3>5. ASSUME NEW j \in f .. Len(users) - 1 PROVE new[j] = users[j + 1]
      <4>0. Len(a) = f - 1 /\ Len(b) = Len(users) - f
        BY <3>1, <3>2
      <4>1. new[j] = b[j - (f - 1)] /\ j - (f - 1) \in 1 .. Len(users) - f
        <5>1. j \in 1 .. Len(a) + Len(b) /\ ~(j <= Len(a))
          BY <2>2, <4>0
        <5>2. new[j] = b[j - Len(a)]
          BY <3>4, <5>1
        <5>. QED BY <2>2, <4>0, <5>2
      <4>2. f + (j - (f - 1)) = j + 1
        BY <2>2
      <4>. QED BY <3>2, <4>1, <4>2
    <3>6. Len(new) = Len(users) - 1
      BY <2>2, <3>1, <3>2, <3>4
    <3>7. ASSUME NEW j \in 1 .. f - 1 PROVE new[j] = users[j]
      <4>1. j \in 1 .. Len(a) + Len(b) /\ j <= Len(a)
        BY <2>2, <3>1, <3>2
      <4>. QED BY <3>1, <3>4, <4>1
    <3>. QED BY <3>4, <3>5, <3>6, <3>7
  <2>. HIDE DEF new
  <2>4. ASSUME NEW n \in Nicks \ {m}, find(n, users) # NoLine PROVE find(n, new) = find(n, users)
    <3>. DEFINE i == first(n, users)
    <3>1. positions(n, users) # {}
      BY <2>4 DEF find
    <3>2. /\ i \in 1 .. Len(users) /\ users[i].nick = n /\ find(n, users) = users[i].pw
          /\ \A j \in positions(n, users) : i <= j
      BY <3>1, FirstLemma
    <3>. HIDE DEF i
    <3>3. \A j \in 1 .. i - 1 : users[j].nick # n
      BY <3>2 DEF positions
    <3>4. CASE i < f
      <4>1. i \in 1 .. Len(new) /\ new[i] = users[i] /\ \A j \in 1 .. i - 1 : new[j].nick # n
        BY <2>2, <2>3, <3>2, <3>3, <3>4
      <4>. QED BY <2>3, <3>2, <4>1, FindLemma
    <3>5. CASE f < i
      <4>1. i - 1 \in 1 .. Len(new) /\ new[i - 1] = users[i]
        BY <2>2, <2>3, <3>2, <3>5
      <4>2. ASSUME NEW j \in 1 .. (i - 1) - 1 PROVE new[j].nick # n
        <5>1. CASE j < f
          BY <2>2, <2>3, <3>2, <3>3, <3>5, <5>1
        <5>2. CASE f <= j
          <6>1. new[j] = users[j + 1]
            BY <2>2, <2>3, <3>2, <5>2
          <6>. QED BY <2>2, <3>2, <3>3, <5>2, <6>1
        <5>. QED BY <2>2, <3>2, <5>1, <5>2
      <4>. QED BY <2>3, <3>2, <4>1, <4>2, FindLemma
    <3>6. i # f
      BY <2>2, <2>4, <3>2
    <3>. QED BY <2>2, <3>2, <3>4, <3>5, <3>6
  <2>. QED BY <2>3, <2>4 DEF new
<1>. QED BY <1>1, <1>2

-----------------------------------------------------------------------------
(* The last command counts                                                 *)

LEMMA CountsInit == UsersInit => CountsInv
<1>. SUFFICES ASSUME UsersInit PROVE CountsInv
  OBVIOUS
<1>1. UsersTypeOK
  BY SystemAssumption DEF UsersInit, UsersTypeOK
<1>2. DOMAIN InForce = Nicks /\ \A n \in accounts : InForce[n] # NoLine
  BY SystemAssumption, LineAssumption DEF UsersInit, InForce
<1>3. /\ Counted(users, executed) /\ Counted(stored.users, stored.executed)
      /\ AccountsCounted /\ pc = "idle"
  BY DEF UsersInit, Counted, AccountsCounted
<1>. QED BY <1>1, <1>2, <1>3 DEF CountsInv

(* What one command more changes: nothing for what is executed, and nobody's *)
(* last command but its nick's.                                              *)
LEMMA AppendLemma ==
  ASSUME commands \in Seq(UserCommand), NEW c \in UserCommand, commands' = Append(commands, c)
  PROVE  /\ commands' \in Seq(UserCommand) /\ Len(commands') = Len(commands) + 1
         /\ \A j \in 1 .. Len(commands) : commands'[j] = commands[j]
         /\ \A list : \A k \in 0 .. Len(commands) : Counted(list, k) =>
              \A n \in Nicks \ LongNicks, i \in 1 .. k :
                  commands'[i].op = "adduser"
                  /\ commands'[i].nick = n /\ (\A j \in i + 1 .. k : commands'[j].nick # n)
                      => find(n, list) = commands'[i].pw
         /\ \A n : \A i \in 1 .. Len(commands) :
              LastAbout(n, i, Len(commands))' => n # c.nick /\ LastAbout(n, i, Len(commands))
<1>1. /\ commands' \in Seq(UserCommand) /\ Len(commands') = Len(commands) + 1
      /\ commands'[Len(commands) + 1] = c
      /\ \A j \in 1 .. Len(commands) : commands'[j] = commands[j]
  OBVIOUS
<1>2. ASSUME NEW list, NEW k \in 0 .. Len(commands), Counted(list, k),
             NEW n \in Nicks \ LongNicks, NEW i \in 1 .. k,
             commands'[i].op = "adduser", commands'[i].nick = n,
             \A j \in i + 1 .. k : commands'[j].nick # n
      PROVE  find(n, list) = commands'[i].pw
  <2>1. commands'[i] = commands[i] /\ \A j \in i + 1 .. k : commands'[j] = commands[j]
    BY <1>1, <1>2
  <2>2. LastAbout(n, i, k)
    BY <1>2, <2>1 DEF LastAbout
  <2>. QED BY <1>2, <2>1, <2>2 DEF Counted
<1>3. ASSUME NEW n, NEW i \in 1 .. Len(commands), LastAbout(n, i, Len(commands))'
      PROVE  n # c.nick /\ LastAbout(n, i, Len(commands))
  <2>1. commands'[i].nick = n /\ \A j \in i + 1 .. Len(commands) + 1 : commands'[j].nick # n
    BY <1>1, <1>3 DEF LastAbout
  <2>2. Len(commands) + 1 \in i + 1 .. Len(commands) + 1
    OBVIOUS
  <2>3. \A j \in i + 1 .. Len(commands) : commands[j].nick # n
    BY <1>1, <2>1
  <2>. QED BY <1>1, <2>1, <2>2, <2>3 DEF LastAbout
<1>. QED BY <1>1, <1>2, <1>3

(* A command comes: what the lists and files count stays counted, unless an  *)
(* account is about to get another password.                                 *)
LEMMA ArriveLemma ==
  ASSUME CountsInv, pc = "idle", NEW c \in UserCommand, commands' = Append(commands, c),
         UNCHANGED <<users, stored, executed, pc, torn>>,
         accounts' \subseteq Nicks,
         torn = "no" => /\ DOMAIN shadow' = Nicks /\ \A n \in accounts' : shadow'[n] # NoLine
                        /\ \A n \in accounts' \ {c.nick} : n \in accounts /\ shadow'[n] = shadow[n]
  PROVE  CountsInv'
<1>. DEFINE L == Len(commands)
<1>1. UsersTypeOK
  BY DEF CountsInv
<1>2. commands \in Seq(UserCommand) /\ executed \in 0 .. L /\ stored.executed \in 0 .. executed
  BY <1>1 DEF UsersTypeOK
<1>3. /\ commands' \in Seq(UserCommand) /\ Len(commands') = L + 1
      /\ \A j \in 1 .. L : commands'[j] = commands[j]
  BY <1>2, AppendLemma
<1>4. UsersTypeOK'
  BY <1>1, <1>2, <1>3 DEF UsersTypeOK
<1>5. ASSUME torn = "no", NEW list, NEW k \in 0 .. L, Counted(list, k)
      PROVE  \A n \in Nicks \ LongNicks, i \in 1 .. k :
                  commands'[i].op = "adduser"
                  /\ commands'[i].nick = n /\ (\A j \in i + 1 .. k : commands'[j].nick # n)
                      => find(n, list) = commands'[i].pw
  BY <1>2, <1>5, AppendLemma
<1>6. ASSUME torn = "no" PROVE Counted(users, executed)' /\ Counted(stored.users, stored.executed)'
  <2>1. Counted(users, executed) /\ Counted(stored.users, stored.executed)
    BY <1>6 DEF CountsInv
  <2>2. stored.executed \in 0 .. L
    BY <1>2
  <2>. DEFINE counted(list, k) ==
                \A n \in Nicks \ LongNicks, i \in 1 .. k :
                  commands'[i].op = "adduser"
                  /\ commands'[i].nick = n /\ (\A j \in i + 1 .. k : commands'[j].nick # n)
                      => find(n, list) = commands'[i].pw
  <2>3. counted(users, executed) /\ counted(stored.users, stored.executed)
    BY <1>2, <1>5, <1>6, <2>1, <2>2
  <2>4. counted(users', executed') /\ counted(stored'.users, stored'.executed)
    BY <2>3
  <2>5. Counted(users, executed)' /\ Counted(stored.users, stored.executed)'
    BY <2>4 DEF Counted, LastAbout
  <2>. QED BY <2>5
<1>7. ASSUME torn = "no" PROVE AccountsCounted'
  <2>. SUFFICES ASSUME NEW n \in accounts' \ LongNicks, NEW i \in 1 .. executed,
                       commands'[i].op = "adduser", LastAbout(n, i, Len(commands))'
                PROVE  shadow'[n] = commands'[i].pw
    BY DEF AccountsCounted, InForce
  <2>1. i \in 1 .. L /\ commands'[i] = commands[i]
    BY <1>2, <1>3
  <2>2. n # c.nick /\ LastAbout(n, i, L)
    BY <1>2, <2>1, AppendLemma
  <2>3. n \in accounts \ LongNicks /\ shadow'[n] = shadow[n]
    BY <1>7, <2>2
  <2>4. AccountsCounted /\ InForce = shadow
    BY <1>7 DEF CountsInv, InForce
  <2>. QED BY <2>1, <2>2, <2>3, <2>4 DEF AccountsCounted
<1>. QED BY <1>4, <1>6, <1>7 DEF CountsInv, InForce

(* Executing the next command: the lists are as it says.                     *)
LEMMA CountNextLemma ==
  ASSUME UsersTypeOK, Counted(users, executed), executed < Len(commands), NEW list,
         Next1.op = "adduser" /\ Next1.nick \notin LongNicks => find(Next1.nick, list) = Next1.pw,
         \A n \in Nicks \ {Next1.nick} : find(n, users) # NoLine => find(n, list) = find(n, users)
  PROVE  Counted(list, executed + 1)
<1>. SUFFICES ASSUME NEW n \in Nicks \ LongNicks, NEW i \in 1 .. executed + 1,
                     commands[i].op = "adduser", LastAbout(n, i, executed + 1)
              PROVE  find(n, list) = commands[i].pw
  BY DEF Counted
<1>1. executed \in Nat /\ Len(commands) \in Nat /\ commands \in Seq(UserCommand)
  BY DEF UsersTypeOK
<1>2. commands[i].nick = n /\ \A j \in i + 1 .. executed + 1 : commands[j].nick # n
  BY DEF LastAbout
<1>3. CASE i = executed + 1
  BY <1>2, <1>3 DEF Next1
<1>4. CASE i \in 1 .. executed
  <2>1. LastAbout(n, i, executed)
    BY <1>1, <1>2, <1>4 DEF LastAbout
  <2>2. find(n, users) = commands[i].pw
    BY <1>4, <2>1 DEF Counted
  <2>3. n # Next1.nick
    <3>1. executed + 1 \in i + 1 .. executed + 1
      BY <1>1, <1>4
    <3>. QED BY <1>2, <3>1 DEF Next1
  <2>4. commands[i] \in UserCommand /\ commands[i].op = "adduser"
    BY <1>1, <1>4
  <2>5. commands[i].pw \in Passwords
    BY <2>4 DEF UserCommand
  <2>. QED BY <2>2, <2>3, <2>5, LineAssumption
<1>. QED BY <1>1, <1>3, <1>4

(* add() and del(): the files count the accounts of which no command is to   *)
(* be executed; that of the next command is not one of these.                *)
LEMMA ExecuteLemma ==
  ASSUME CountsInv, pc = "idle", pc' = "remove", executed < Len(commands),
         UNCHANGED <<stored, commands, executed, torn>>,
         users' \in Seq(UserLine), accounts' \subseteq Nicks,
         Next1.op = "adduser" /\ Next1.nick \notin LongNicks => find(Next1.nick, users') = Next1.pw,
         \A n \in Nicks \ {Next1.nick} : find(n, users) # NoLine => find(n, users') = find(n, users),
         torn = "no" => /\ DOMAIN shadow' = Nicks /\ \A n \in accounts' : shadow'[n] # NoLine
                        /\ \A n \in accounts' \ {Next1.nick} : n \in accounts /\ shadow'[n] = shadow[n]
  PROVE  CountsInv'
<1>1. UsersTypeOK
  BY DEF CountsInv
<1>2. UsersTypeOK'
  BY <1>1 DEF UsersTypeOK
<1>3. ASSUME torn = "no" PROVE Counted(users, executed + 1)' /\ Counted(stored.users, stored.executed)'
  <2>1. Counted(users, executed) /\ Counted(stored.users, stored.executed)
    BY <1>3 DEF CountsInv
  <2>2. Counted(users', executed + 1)
    BY <1>1, <2>1, CountNextLemma
  <2>. QED BY <2>1, <2>2 DEF Counted, LastAbout
<1>4. ASSUME torn = "no" PROVE AccountsCounted'
  <2>. SUFFICES ASSUME NEW n \in accounts' \ LongNicks, NEW i \in 1 .. executed,
                       commands[i].op = "adduser", LastAbout(n, i, Len(commands))
                PROVE  shadow'[n] = commands[i].pw
    BY DEF AccountsCounted, InForce, LastAbout
  <2>1. executed + 1 \in i + 1 .. Len(commands)
    BY <1>1 DEF UsersTypeOK
  <2>2. n # Next1.nick
    BY <2>1 DEF LastAbout, Next1
  <2>3. AccountsCounted /\ InForce = shadow
    BY <1>4 DEF CountsInv, InForce
  <2>. QED BY <1>4, <2>2, <2>3 DEF AccountsCounted
<1>. QED BY <1>2, <1>3, <1>4 DEF CountsInv, InForce

LEMMA CountsAdd == CountsInv /\ add => CountsInv'
<1>. SUFFICES ASSUME CountsInv, add PROVE CountsInv'
  OBVIOUS
<1>1. UsersTypeOK
  BY DEF CountsInv
<1>2. /\ pc = "idle" /\ pc' = "remove" /\ executed < Len(commands) /\ Next1.op = "adduser"
      /\ users' = add_ns(Next1.nick, Next1.pw)
      /\ UNCHANGED <<stored, commands, executed, torn>>
      /\ \/ Appears(Next1.nick, NoPassword)
         \/ UNCHANGED <<accounts, untouched, shadow>>
  BY DEF add, HasCommand
<1>3. Next1.nick \in Nicks /\ Next1.pw \in Passwords
  <2>1. commands \in Seq(UserCommand) /\ executed + 1 \in 1 .. Len(commands)
    BY <1>1, <1>2 DEF UsersTypeOK
  <2>2. Next1 \in UserCommand
    BY <2>1 DEF Next1
  <2>. QED BY <1>2, <2>2 DEF UserCommand
<1>4. /\ users' \in Seq(UserLine)
      /\ Next1.nick \notin LongNicks => find(Next1.nick, users') = Next1.pw
      /\ \A n \in Nicks \ {Next1.nick} : find(n, users) # NoLine => find(n, users') = find(n, users)
  <2>1. users \in Seq(UserLine)
    BY <1>1 DEF UsersTypeOK
  <2>. QED BY <1>2, <1>3, <2>1, AddLemma
<1>5. accounts' \subseteq Nicks
  BY <1>1, <1>2, <1>3 DEF UsersTypeOK, Appears
<1>6. ASSUME torn = "no"
      PROVE  /\ DOMAIN shadow' = Nicks /\ \A n \in accounts' : shadow'[n] # NoLine
             /\ \A n \in accounts' \ {Next1.nick} : n \in accounts /\ shadow'[n] = shadow[n]
  <2>1. DOMAIN shadow = Nicks /\ \A n \in accounts : shadow[n] # NoLine
    BY <1>2, <1>6 DEF CountsInv, InForce
  <2>2. shadow # Gone
    BY <1>3, <2>1 DEF Gone
  <2>. QED BY <1>1, <1>2, <1>3, <2>1, <2>2, LineAssumption DEF Appears, UsersTypeOK
<1>. QED BY <1>2, <1>4, <1>5, <1>6, ExecuteLemma

LEMMA CountsDel == CountsInv /\ del => CountsInv'
<1>. SUFFICES ASSUME CountsInv, del PROVE CountsInv'
  OBVIOUS
<1>1. UsersTypeOK
  BY DEF CountsInv
<1>2. /\ pc = "idle" /\ pc' = "remove" /\ executed < Len(commands) /\ Next1.op = "deluser"
      /\ users' = erase(Next1.nick)
      /\ UNCHANGED <<stored, commands, executed, torn>>
      /\ Disappears(Next1.nick)
  BY DEF del, HasCommand
<1>3. Next1.nick \in Nicks
  <2>1. commands \in Seq(UserCommand) /\ executed + 1 \in 1 .. Len(commands)
    BY <1>1, <1>2 DEF UsersTypeOK
  <2>2. Next1 \in UserCommand
    BY <2>1 DEF Next1
  <2>. QED BY <1>2, <2>2 DEF UserCommand
<1>4. /\ users' \in Seq(UserLine)
      /\ \A n \in Nicks \ {Next1.nick} : find(n, users) # NoLine => find(n, users') = find(n, users)
  <2>1. users \in Seq(UserLine)
    BY <1>1 DEF UsersTypeOK
  <2>. QED BY <1>2, <1>3, <2>1, EraseLemma
<1>5. accounts' \subseteq Nicks
  BY <1>1, <1>2 DEF UsersTypeOK, Disappears
<1>6. ASSUME torn = "no"
      PROVE  /\ DOMAIN shadow' = Nicks /\ \A n \in accounts' : shadow'[n] # NoLine
             /\ \A n \in accounts' \ {Next1.nick} : n \in accounts /\ shadow'[n] = shadow[n]
  <2>1. DOMAIN shadow = Nicks /\ \A n \in accounts : shadow[n] # NoLine
    BY <1>2, <1>6 DEF CountsInv, InForce
  <2>2. shadow # Gone
    BY <1>3, <2>1 DEF Gone
  <2>. QED BY <1>1, <1>2, <2>1, <2>2 DEF Disappears, UsersTypeOK
<1>. QED BY <1>2, <1>4, <1>5, <1>6, ExecuteLemma

(* Write: the file that is written has, for each account, what users has.    *)
LEMMA CountsWrite == CountsInv /\ Write => CountsInv'
<1>. SUFFICES ASSUME CountsInv, Write PROVE CountsInv'
  OBVIOUS
<1>1. /\ pc = "write" /\ pc' = "idle" /\ shadow' = Written /\ executed' = executed + 1
      /\ UNCHANGED <<users, stored, commands, accounts, torn>>
  BY DEF Write
<1>2. /\ commands \in Seq(UserCommand) /\ executed \in Nat /\ executed < Len(commands)
      /\ Len(commands) \in Nat /\ accounts \subseteq Nicks
      /\ stored.executed \in 0 .. executed
  BY <1>1 DEF CountsInv, UsersTypeOK
<1>3. UsersTypeOK'
  BY <1>1, <1>2 DEF CountsInv, UsersTypeOK
<1>4. ASSUME torn = "no" PROVE Counted(users, executed)' /\ Counted(stored.users, stored.executed)'
  <2>1. Counted(users, executed + 1) /\ Counted(stored.users, stored.executed)
    BY <1>1, <1>4 DEF CountsInv
  <2>. QED BY <1>1, <2>1 DEF Counted, LastAbout
<1>5. ASSUME torn = "no"
      PROVE  DOMAIN shadow' = Nicks /\ \A n \in accounts' : shadow'[n] # NoLine
  <2>1. DOMAIN backup = Nicks /\ \A n \in accounts : backup[n] # NoLine
    BY <1>1, <1>5 DEF CountsInv, InForce
  <2>. QED BY <1>1, <1>2, <2>1 DEF Written
<1>6. ASSUME torn = "no" PROVE AccountsCounted'
  <2>. SUFFICES ASSUME NEW n \in accounts \ LongNicks, NEW i \in 1 .. executed + 1,
                       commands[i].op = "adduser", LastAbout(n, i, Len(commands))
                PROVE  Written[n] = commands[i].pw
    BY <1>1 DEF AccountsCounted, InForce, LastAbout
  <2>1. LastAbout(n, i, executed + 1)
    BY <1>2 DEF LastAbout
  <2>2. find(n, users) = commands[i].pw
    BY <1>1, <1>2, <1>6, <2>1 DEF CountsInv, Counted
  <2>3. commands[i] \in UserCommand
    BY <1>2
  <2>4. commands[i].pw # NoLine
    BY <2>3, LineAssumption DEF UserCommand
  <2>5. backup[n] # NoLine
    BY <1>1, <1>6 DEF CountsInv, InForce
  <2>. QED BY <1>2, <2>2, <2>4, <2>5 DEF Written
<1>. QED BY <1>1, <1>3, <1>4, <1>5, <1>6 DEF CountsInv, InForce

(* A crash, except while /etc/shadow is written: the accounts of which no    *)
(* command is to be executed again have had their last one executed.         *)
LEMMA CountsCrash == CountsInv /\ Crash => CountsInv'
<1>. SUFFICES ASSUME CountsInv, Crash PROVE CountsInv'
  OBVIOUS
<1>1. /\ users' = stored.users /\ executed' = stored.executed /\ pc' = "idle"
      /\ UNCHANGED <<stored, commands, accounts>>
  BY DEF Crash
<1>2. UsersTypeOK
  BY DEF CountsInv
<1>3. /\ stored.users \in Seq(UserLine) /\ stored.executed \in 0 .. executed
      /\ executed \in 0 .. Len(commands) /\ commands \in Seq(UserCommand)
  BY <1>2 DEF UsersTypeOK
<1>4. UsersTypeOK'
  BY <1>1, <1>2, <1>3 DEF UsersTypeOK
<1>5. CASE pc = "write"
  <2>1. torn' # "no"
    BY <1>5 DEF Crash
  <2>. QED BY <1>4, <2>1 DEF CountsInv
<1>6. CASE pc # "write"
  <2>1. UNCHANGED <<shadow, torn>>
    BY <1>6 DEF Crash
  <2>2. ASSUME torn = "no"
        PROVE  /\ Counted(users, executed)' /\ Counted(stored.users, stored.executed)'
               /\ DOMAIN shadow' = Nicks /\ \A n \in accounts' : shadow'[n] # NoLine
               /\ AccountsCounted'
    <3>1. /\ Counted(stored.users, stored.executed) /\ AccountsCounted
          /\ DOMAIN shadow = Nicks /\ \A n \in accounts : shadow[n] # NoLine
      BY <1>6, <2>2 DEF CountsInv, InForce
    <3>2. Counted(users, executed)' /\ Counted(stored.users, stored.executed)'
      BY <1>1, <3>1 DEF Counted, LastAbout
    <3>3. 1 .. executed' \subseteq 1 .. executed
      BY <1>1, <1>3
    <3>4. AccountsCounted'
      BY <1>1, <1>6, <2>1, <3>1, <3>3 DEF AccountsCounted, InForce, LastAbout
    <3>. QED BY <1>1, <2>1, <3>1, <3>2, <3>4
  <2>. QED BY <1>1, <1>4, <2>1, <2>2 DEF CountsInv, InForce
<1>. QED BY <1>5, <1>6

LEMMA CountsStep == CountsInv /\ [UsersNext]_usersvars => CountsInv'
<1>. SUFFICES ASSUME CountsInv, [UsersNext]_usersvars PROVE CountsInv'
  OBVIOUS
<1>1. /\ UsersTypeOK /\ commands \in Seq(UserCommand) /\ accounts \subseteq Nicks
      /\ pc = "idle" /\ torn = "no" => DOMAIN shadow = Nicks /\ \A n \in accounts : shadow[n] # NoLine
  BY DEF CountsInv, UsersTypeOK, InForce
<1>2. ASSUME NEW n \in Nicks, NEW pw \in Passwords, LocalAdduser(n, pw) PROVE CountsInv'
  <2>1. pc = "idle" /\ UNCHANGED <<users, stored, executed, backup, pc, torn>>
    BY <1>2 DEF LocalAdduser
  <2>2. CASE n \in accounts
    <3>1. Disappears(n) /\ UNCHANGED commands
      BY <1>2, <2>2 DEF LocalAdduser
    <3>2. accounts' = accounts \ {n} /\ UsersTypeOK'
      BY <1>1, <2>1, <3>1 DEF Disappears, UsersTypeOK
    <3>3. torn = "no" => /\ DOMAIN shadow' = Nicks
                         /\ \A k \in accounts' : shadow'[k] = shadow[k] /\ shadow'[k] # NoLine
      BY <1>1, <2>1, <3>1, <3>2 DEF Disappears, Gone
    <3>4. ASSUME torn = "no" PROVE AccountsCounted'
      BY <2>1, <3>1, <3>2, <3>3, <3>4 DEF CountsInv, AccountsCounted, InForce, LastAbout
    <3>5. ASSUME torn = "no" PROVE Counted(users, executed)' /\ Counted(stored.users, stored.executed)'
      BY <2>1, <3>1, <3>5 DEF CountsInv, Counted, LastAbout
    <3>. QED BY <2>1, <3>2, <3>3, <3>4, <3>5 DEF CountsInv, InForce
  <2>3. CASE n \notin accounts
    <3>. DEFINE c == [op |-> "adduser", nick |-> n, pw |-> pw]
    <3>1. c \in UserCommand /\ c.nick = n
      BY DEF UserCommand
    <3>2. /\ accounts' = accounts \cup {n}
          /\ shadow' = IF shadow = Gone THEN Gone ELSE [shadow EXCEPT ![n] = pw]
          /\ commands' = IF shadow = Gone THEN commands ELSE Append(commands, c)
      BY <1>2, <2>3 DEF LocalAdduser, Appears
    <3>3. CASE shadow # Gone
      <4>1. torn = "no" => /\ DOMAIN shadow' = Nicks /\ \A k \in accounts' : shadow'[k] # NoLine
                           /\ \A k \in accounts' \ {n} : k \in accounts /\ shadow'[k] = shadow[k]
        BY <1>1, <2>1, <3>2, <3>3, LineAssumption
      <4>2. commands' = Append(commands, c) /\ accounts' \subseteq Nicks
        BY <1>1, <3>2, <3>3
      <4>. HIDE DEF c
      <4>. QED BY <2>1, <3>1, <4>1, <4>2, ArriveLemma
    <3>4. CASE shadow = Gone
      <4>1. torn # "no"
        BY <1>1, <2>1, <3>4 DEF Gone
      <4>. QED BY <1>1, <2>1, <3>2, <3>4, <4>1 DEF CountsInv, UsersTypeOK
    <3>. QED BY <3>3, <3>4
  <2>. QED BY <2>2, <2>3
<1>3. ASSUME NEW c \in UserCommand, Arrive(c.op, c.nick, c.pw) PROVE CountsInv'
  <2>1. [op |-> c.op, nick |-> c.nick, pw |-> c.pw] = c
    BY DEF UserCommand
  <2>2. /\ pc = "idle" /\ commands' = Append(commands, c)
        /\ UNCHANGED <<users, stored, executed, accounts, shadow, pc, torn>>
    BY <1>3, <2>1 DEF Arrive
  <2>. QED BY <1>1, <2>2, ArriveLemma
<1>4. ASSUME clear PROVE CountsInv'
  <2>. DEFINE nicks == {users[i].nick : i \in DOMAIN users}
  <2>1. /\ pc = "idle" /\ accounts' = accounts \ nicks
        /\ shadow' = IF shadow = Gone THEN Gone
                     ELSE [n \in Nicks |-> IF n \in nicks THEN NoLine ELSE shadow[n]]
        /\ users' = <<>> /\ commands' = <<>> /\ executed' = 0
        /\ stored' = [users |-> <<>>, executed |-> 0] /\ UNCHANGED <<pc, torn>>
    BY <1>4 DEF clear
  <2>. HIDE DEF nicks
  <2>2. UsersTypeOK'
    BY <1>1, <2>1 DEF UsersTypeOK
  <2>3. torn = "no" => DOMAIN shadow' = Nicks /\ \A n \in accounts' : shadow'[n] # NoLine
    BY <1>1, <2>1 DEF Gone
  <2>4. Counted(users, executed)' /\ Counted(stored.users, stored.executed)' /\ AccountsCounted'
    BY <2>1 DEF Counted, AccountsCounted
  <2>. QED BY <2>1, <2>2, <2>3, <2>4 DEF CountsInv, InForce
<1>5. CASE RemoveBackup
  <2>1. /\ pc = "remove" /\ pc' = "rename" /\ torn' = IF torn = "torn" THEN "lost" ELSE torn
        /\ UNCHANGED <<users, stored, commands, executed, accounts, shadow>>
    BY <1>5 DEF RemoveBackup
  <2>. QED BY <2>1 DEF CountsInv, UsersTypeOK, Counted, LastAbout, AccountsCounted, InForce
<1>6. CASE Rename
  <2>1. pc = "rename" /\ UNCHANGED <<users, stored, commands, executed, accounts, torn>>
    BY <1>6 DEF Rename
  <2>2. CASE shadow = Gone
    <3>1. pc' = "idle" /\ UsersTypeOK'
      BY <1>1, <1>6, <2>1, <2>2 DEF Rename, UsersTypeOK
    <3>2. ASSUME torn = "no" PROVE FALSE
      <4>1. Nicks = {}
        BY <2>1, <2>2, <3>2 DEF CountsInv, InForce, Gone
      <4>2. commands[executed + 1] \in UserCommand
        BY <1>1, <2>1 DEF UsersTypeOK
      <4>. QED BY <4>1, <4>2 DEF UserCommand
    <3>. QED BY <2>1, <3>1, <3>2 DEF CountsInv
  <2>3. CASE shadow # Gone
    <3>1. pc' = "write" /\ backup' = shadow
      BY <1>6, <2>3 DEF Rename
    <3>. QED BY <2>1, <3>1 DEF CountsInv, UsersTypeOK, Counted, LastAbout, AccountsCounted, InForce
  <2>. QED BY <2>2, <2>3
<1>7. CASE save
  <2>1. /\ pc = "idle" /\ stored' = [users |-> users, executed |-> executed]
        /\ UNCHANGED <<users, commands, executed, accounts, shadow, backup, pc, torn>>
    BY <1>7 DEF save
  <2>2. stored'.users = users /\ stored'.executed = executed /\ UsersTypeOK'
    BY <1>1, <2>1 DEF UsersTypeOK
  <2>3. ASSUME torn = "no" PROVE Counted(users, executed)' /\ Counted(stored.users, stored.executed)'
    BY <2>1, <2>2, <2>3 DEF CountsInv, Counted, LastAbout
  <2>. QED BY <2>1, <2>2, <2>3 DEF CountsInv, LastAbout, AccountsCounted, InForce
<1>8. CASE UNCHANGED usersvars
  BY <1>8 DEF usersvars, CountsInv, UsersTypeOK, Counted, LastAbout, AccountsCounted, InForce
<1>9. ASSUME NEW n \in Nicks, NEW pw \in Passwords, Arrive("adduser", n, pw) PROVE CountsInv'
  <2>. DEFINE c == [op |-> "adduser", nick |-> n, pw |-> pw]
  <2>1. c \in UserCommand /\ c.op = "adduser" /\ c.nick = n /\ c.pw = pw
    BY DEF UserCommand
  <2>. HIDE DEF c
  <2>. QED BY <1>3, <1>9, <2>1
<1>10. ASSUME NEW n \in Nicks, Arrive("deluser", n, NoPassword) PROVE CountsInv'
  <2>. DEFINE c == [op |-> "deluser", nick |-> n, pw |-> NoPassword]
  <2>1. c \in UserCommand /\ c.op = "deluser" /\ c.nick = n /\ c.pw = NoPassword
    BY DEF UserCommand
  <2>. HIDE DEF c
  <2>. QED BY <1>3, <1>10, <2>1
<1>. QED BY <1>2, <1>4, <1>5, <1>6, <1>7, <1>8, <1>9, <1>10,
            CountsAdd, CountsDel, CountsWrite, CountsCrash DEF UsersNext

LEMMA CountsInvariance == UsersSpec => []CountsInv
BY CountsInit, CountsStep, PTL DEF UsersSpec

(* Whatever crash makes the node execute commands again: when all are        *)
(* executed and /etc/shadow was never torn, each account with a short nick   *)
(* has the password of the last "adduser" about it (usernames.cpp, updpwd()).*)
THEOREM TheLastCommandCounts == UsersSpec => []LastCommandCounts
<1>1. CountsInv => LastCommandCounts
  <2>. SUFFICES ASSUME CountsInv, pc = "idle", torn = "no", executed = Len(commands),
                       NEW n \in accounts \ LongNicks, NEW i \in DOMAIN commands,
                       commands[i].op = "adduser", LastAbout(n, i, Len(commands))
                PROVE  shadow[n] = commands[i].pw
    BY DEF LastCommandCounts
  <2>1. commands \in Seq(UserCommand)
    BY DEF CountsInv, UsersTypeOK
  <2>2. i \in 1 .. executed
    BY <2>1
  <2>. QED BY <2>2 DEF CountsInv, AccountsCounted, InForce
<1>. QED BY <1>1, CountsInvariance, PTL
=============================================================================
