------------------------- MODULE Replication_proofs -------------------------
(***************************************************************************)
(* Proofs about Replication, for any group, any links and any bounds; at    *)
(* the end, that it implements CausalBroadcast.                            *)
(***************************************************************************)
EXTENDS ReplicationRefinement, TLAPS

-----------------------------------------------------------------------------
(* Lemmas about the operators of NodeData *)

(* Update() takes every cell from one of its arguments, and the larger one. *)
LEMMA UpdateLemma ==
  ASSUME NEW M \in Matrix, NEW src \in Matrix
  PROVE  /\ Update(M, src) \in Matrix
         /\ \A n, a \in Nodes :
              /\ M[n][a] <= Update(M, src)[n][a]
              /\ Update(M, src)[n][a] \in {M[n][a], src[n][a]}
BY MaxCmdAssumption DEF Update, Matrix, Row, Count

(* Whatever execute_pending_commands() executes is stored, and what it      *)
(* depends on has been executed when it stops.                              *)
LEMMA ExecutesToLemma ==
  ASSUME NEW S \in SUBSET Msg, NEW exec \in Row, NEW new \in Row,
         ExecutesTo(S, exec, new),
         NEW a \in Nodes, NEW k \in Numbers, exec[a] <= k, k < new[a]
  PROVE  \E m \in S : m.author = a /\ m.number = k /\ m.depends \preceq new
<1>. SUFFICES ASSUME \A m \in S : ~(m.author = a /\ m.number = k /\ m.depends \preceq new)
              PROVE  FALSE
  OBVIOUS
<1>. DEFINE w == [new EXCEPT ![a] = k]
<1>1. w \in Row /\ exec \preceq w /\ w \preceq new
  BY MaxCmdAssumption DEF Row, Count, Numbers, \preceq, ExecutesTo, Stopped
<1>2. ASSUME NEW m \in S PROVE ~Executable(m, w)
  <2>. SUFFICES ASSUME m.number = w[m.author], m.depends \preceq w PROVE FALSE
    BY DEF Executable
  <2>1. m.author \in Nodes /\ m.depends \in Row /\ m.number \in Numbers
    BY DEF Msg
  <2>2. m.depends \preceq new
    BY <1>1, <2>1, MaxCmdAssumption DEF Row, Count, \preceq
  <2>3. CASE m.author = a
    BY <2>2, <2>3 DEF Row
  <2>4. CASE m.author # a
    BY <2>1, <2>2, <2>4 DEF ExecutesTo, Stopped, Executable, Row
  <2>. QED BY <2>3, <2>4
<1>3. new \preceq w
  BY <1>1, <1>2 DEF ExecutesTo, Stopped
<1>. QED BY <1>3, MaxCmdAssumption DEF \preceq, Row, Count, Numbers

(* add_cmd(): the row only grows, over stored commands; and when no command *)
(* is missing before one that is added, it grows beyond all that are added. *)
LEMMA AdvancedLemma ==
  ASSUME NEW S \in SUBSET Msg, NEW T \in SUBSET Msg, NEW row \in Row, NEW new \in Row,
         Advanced(row, Insert(S, T), T, new)
  PROVE  /\ row \preceq new
         /\ \A a \in Nodes, k \in Numbers :
              row[a] <= k /\ k < new[a] => Stored(Insert(S, T), a, k)
         /\ (\A m \in T, k \in Numbers :
               row[m.author] <= k /\ k < m.number => Stored(T, m.author, k))
            => \A m \in T : m.number < new[m.author]
<1>. USE MaxCmdAssumption DEF Row, Count, Numbers
<1>1. row \preceq new
  BY DEF Advanced, \preceq
<1>2. ASSUME NEW a \in Nodes, NEW k \in Numbers, row[a] <= k, k < new[a]
      PROVE  Stored(Insert(S, T), a, k)
  <2>1. \E m \in T : m.author = a
    BY <1>2 DEF Advanced
  <2>. QED BY <1>2, <2>1 DEF Advanced
<1>3. ASSUME \A m \in T, k \in Numbers :
               row[m.author] <= k /\ k < m.number => Stored(T, m.author, k),
             NEW m \in T
      PROVE  m.number < new[m.author]
  <2>1. /\ m.author \in Nodes /\ m.number \in Numbers
        /\ row[m.author] \in 0 .. MaxCmd /\ new[m.author] \in 0 .. MaxCmd
    BY DEF Msg
  <2>2. /\ row[m.author] <= new[m.author]
        /\ ~Stored(Insert(S, T), m.author, new[m.author])
    BY <2>1 DEF Advanced
  <2>3. SUFFICES ASSUME new[m.author] <= m.number PROVE FALSE
    BY <2>1
  <2>4. Stored(T, m.author, new[m.author])
    BY <1>3, <2>1, <2>2, <2>3 DEF Stored
  <2>5. ASSUME NEW a, NEW k, Stored(T, a, k) PROVE Stored(Insert(S, T), a, k)
    BY <2>5 DEF Stored, Insert
  <2>. QED BY <2>2, <2>4, <2>5
<1>. QED BY <1>1, <1>2, <1>3

(* set::insert loses nothing and adds nothing but what is inserted. *)
LEMMA InsertLemma ==
  ASSUME NEW S \in SUBSET Msg, NEW T \in SUBSET Msg
  PROVE  /\ Insert(S, T) \in SUBSET Msg
         /\ S \subseteq Insert(S, T)
         /\ Insert(S, T) \subseteq S \cup T
         /\ \A a, k : Stored(S, a, k) => Stored(Insert(S, T), a, k)
BY DEF Insert, Stored

(* In a state of IInv the repair of check_matrix() changes nothing. *)
LEMMA CheckMatrixLemma ==
  ASSUME IInv, NEW p \in Nodes, NEW M \in Matrix, M[p] = matrix[p][p]
  PROVE  /\ CheckedMatrix(p, M, command_to_exec[p], messages[p]) = M
         /\ CheckedMessages(p, M, command_to_exec[p], messages[p]) = messages[p]
<1>1. ASSUME NEW a \in Nodes PROVE Lost(M[p], command_to_exec[p], messages[p], a) = {}
  BY <1>1 DEF IInv, NothingLost, Lost
<1>2. CheckedRow(p, M, command_to_exec[p], messages[p]) = M[p]
  BY <1>1 DEF CheckedRow, Refetch, Matrix, Row
<1>3. CheckedMatrix(p, M, command_to_exec[p], messages[p]) = M
  BY <1>2 DEF CheckedMatrix, Matrix
<1>4. CheckedMessages(p, M, command_to_exec[p], messages[p]) = messages[p]
  BY <1>1 DEF CheckedMessages
<1>. QED BY <1>3, <1>4

-----------------------------------------------------------------------------
(* Lemmas about states *)

(* Where a message can be. *)
LEMMA AllMessagesLemma ==
  ASSUME NEW m
  PROVE  m \in AllMessages <=>
           \/ \E p \in Nodes : m \in messages[p]
           \/ \E pkt \in packets : m \in pkt.messages
           \/ \E l \in Links : wire[l].phase = "reply" /\ m = wire[l].msg
<1>1. m \in UNION {messages[p] : p \in Nodes} <=> \E p \in Nodes : m \in messages[p]
  OBVIOUS
<1>2. m \in UNION {pkt.messages : pkt \in packets} <=> \E pkt \in packets : m \in pkt.messages
  OBVIOUS
<1>3. m \in {wire[l].msg : l \in {x \in Links : wire[x].phase = "reply"}}
        <=> \E l \in Links : wire[l].phase = "reply" /\ m = wire[l].msg
  OBVIOUS
<1>. QED BY <1>1, <1>2, <1>3 DEF AllMessages

LEMMA MessagesTyped ==
  ASSUME TypeOK PROVE AllMessages \subseteq Msg
<1>1. \A l \in Links : wire[l].phase = "reply" => wire[l].msg \in Msg
  BY DEF TypeOK, Wires
<1>2. /\ \A p \in Nodes : messages[p] \subseteq Msg
      /\ \A pkt \in packets : pkt.messages \subseteq Msg
  BY DEF TypeOK, Packet
<1>. QED BY <1>1, <1>2, AllMessagesLemma

(* The heart of the proof: a node takes over messages T and a matrix M that *)
(* credits nobody with too much and the node itself with what it knows.     *)
(* Reading a packet and the steps of a download that change a node are of   *)
(* this form; downloads may come to rest in the same step.                  *)
LEMMA AbsorbLemma ==
  ASSUME IInv, NEW p \in Nodes, NEW M \in Matrix, NEW T \in SUBSET AllMessages,
         M[p] = matrix[p][p],
         \A n, a \in Nodes : M[n][a] <= matrix[n][n][a],
         \A m \in T, k \in Numbers :
           matrix[p][p][m.author] <= k /\ k < m.number => Stored(T, m.author, k),
         AddCmds(p, M, messages[p], T),
         UNCHANGED <<command_to_exec, status, packets>>,
         failures' \in 0 .. MaxFailures,
         wire' \in [Links -> Wires],
         \A l \in Links : wire'[l] = wire[l] \/ wire'[l].phase \in {"idle", "ready"}
  PROVE  IInv'
<1>. USE MaxCmdAssumption DEF Count, Numbers
<1>. DEFINE S == Insert(messages[p], T)
<1>1. PICK row \in Row :
        /\ Advanced(M[p], S, T, row)
        /\ matrix' = [matrix EXCEPT ![p] = [M EXCEPT ![p] = row]]
        /\ messages' = [messages EXCEPT ![p] = S]
  BY DEF AddCmds
<1>2. /\ TypeOK /\ BeliefsSound /\ NothingLost /\ NoGaps /\ MessagesSound
      /\ \A pkt \in packets : Contiguous(pkt.messages)
      /\ \A l \in Links : WireSound(l)
      /\ \A q \in Nodes : command_to_exec[q] \preceq matrix[q][q]
  BY DEF IInv
<1>3. /\ T \in SUBSET Msg /\ messages[p] \in SUBSET Msg
      /\ matrix[p][p] \in Row /\ matrix \in [Nodes -> Matrix]
  BY <1>2, MessagesTyped DEF TypeOK, Matrix
<1>4. /\ S \in SUBSET Msg /\ messages[p] \subseteq S /\ S \subseteq messages[p] \cup T
      /\ \A a, k : Stored(messages[p], a, k) => Stored(S, a, k)
  BY <1>3, InsertLemma
<1>5. /\ matrix[p][p] \preceq row
      /\ \A a \in Nodes, k \in Numbers :
           matrix[p][p][a] <= k /\ k < row[a] => Stored(S, a, k)
      /\ \A m \in T : m.number < row[m.author]
  BY <1>1, <1>3, AdvancedLemma
<1>6. /\ matrix'[p][p] = row
      /\ \A q \in Nodes \ {p} : matrix'[q] = matrix[q]
      /\ \A n \in Nodes \ {p} : matrix'[p][n] = M[n]
      /\ messages'[p] = S
      /\ \A q \in Nodes \ {p} : messages'[q] = messages[q]
  BY <1>1, <1>2 DEF TypeOK, Matrix
\* Every node knows at least as much as before.
<1>7. ASSUME NEW n \in Nodes, NEW a \in Nodes PROVE matrix[n][n][a] <= matrix'[n][n][a]
  <2>1. matrix[n][n][a] \in 0 .. MaxCmd
    BY <1>3 DEF Matrix, Row
  <2>2. CASE n = p
    BY <1>5, <1>6, <2>2 DEF \preceq
  <2>. QED BY <1>6, <2>1, <2>2
\* Nobody's stored commands, known or not, go beyond what was created.
<1>8. ASSUME NEW m \in AllMessages
      PROVE  /\ m \in Msg /\ m.author \in Nodes /\ m.number \in Numbers
             /\ m.number < matrix[m.author][m.author][m.author]
  BY <1>2, MessagesTyped DEF MessagesSound, Created, Msg
<1>9. S \subseteq AllMessages
  BY <1>4, AllMessagesLemma
<1>10. ASSUME NEW a \in Nodes PROVE row[a] <= matrix[a][a][a]
  <2>1. /\ row[a] \in 0 .. MaxCmd /\ matrix[a][a][a] \in 0 .. MaxCmd
        /\ matrix[p][p][a] \in 0 .. MaxCmd /\ matrix[p][p][a] <= matrix[a][a][a]
    BY <1>2, <1>3 DEF Row, Matrix, BeliefsSound, Created
  <2>2. SUFFICES ASSUME matrix[a][a][a] < row[a] PROVE FALSE
    BY <2>1
  <2>3. Stored(S, a, matrix[a][a][a])
    BY <1>5, <2>1, <2>2
  <2>. QED BY <1>8, <1>9, <2>1, <2>3 DEF Stored
\* In particular the node does not credit itself with commands of its own.
<1>11. ASSUME NEW a \in Nodes PROVE matrix'[a][a][a] = matrix[a][a][a]
  <2>1. matrix[a][a][a] \in 0 .. MaxCmd /\ row[a] \in 0 .. MaxCmd
    BY <1>3 DEF Matrix, Row
  <2>2. CASE a = p
    BY <1>6, <1>7, <1>10, <2>1, <2>2
  <2>. QED BY <1>6, <2>2
<1>12. ASSUME NEW m \in AllMessages' PROVE m \in AllMessages
  <2>1. CASE \E q \in Nodes : m \in messages'[q]
    BY <1>6, <1>9, <2>1, AllMessagesLemma
  <2>2. CASE \E pkt \in packets' : m \in pkt.messages
    BY <2>2, AllMessagesLemma
  <2>3. CASE \E l \in Links : wire'[l].phase = "reply" /\ m = wire'[l].msg
    BY <2>3, AllMessagesLemma
  <2>. QED BY <2>1, <2>2, <2>3 DEF AllMessages
<1>13. TypeOK'
  <2>1. matrix' \in [Nodes -> Matrix]
    BY <1>1, <1>3 DEF Matrix
  <2>2. messages' \in [Nodes -> SUBSET Msg]
    BY <1>1, <1>2, <1>4 DEF TypeOK
  <2>. QED BY <1>2, <2>1, <2>2 DEF TypeOK
<1>21. \A n, q, a \in Nodes : matrix[n][q][a] \in 0 .. MaxCmd /\ matrix'[n][q][a] \in 0 .. MaxCmd
  BY <1>3, <1>13 DEF TypeOK, Matrix, Row
<1>14. BeliefsSound'
  <2>. SUFFICES ASSUME NEW n \in Nodes, NEW a \in Nodes
                PROVE  /\ \A q \in Nodes : matrix'[q][n][a] <= matrix'[n][n][a]
                       /\ \A pkt \in packets : pkt.matrix[n][a] <= matrix'[n][n][a]
                       /\ \A l \in Links : wire'[l].phase = "matrix"
                             => wire'[l].matrix[n][a] <= matrix'[n][n][a]
                       /\ matrix'[n][n][a] <= matrix'[a][a][a]
    BY DEF BeliefsSound, Created
  <2>1. /\ matrix[n][n][a] \in 0 .. MaxCmd /\ matrix'[n][n][a] \in 0 .. MaxCmd
        /\ matrix[n][n][a] <= matrix'[n][n][a]
    BY <1>3, <1>7, <1>13 DEF TypeOK, Matrix, Row
  <2>2. ASSUME NEW q \in Nodes PROVE matrix'[q][n][a] <= matrix'[n][n][a]
    <3>1. CASE q # p
      <4>1. matrix'[q][n][a] \in 0 .. MaxCmd /\ matrix[q][n][a] <= matrix[n][n][a]
        BY <1>2, <1>13 DEF BeliefsSound, TypeOK, Matrix, Row
      <4>. QED BY <1>6, <2>1, <3>1, <4>1
    <3>2. CASE q = p /\ n # p
      <4>1. matrix'[q][n] = M[n] /\ M[n][a] \in 0 .. MaxCmd /\ M[n][a] <= matrix[n][n][a]
        BY <1>6, <3>2 DEF Matrix, Row
      <4>. QED BY <2>1, <4>1
    <3>. QED BY <2>1, <3>1, <3>2
  <2>3. ASSUME NEW pkt \in packets PROVE pkt.matrix[n][a] <= matrix'[n][n][a]
    BY <1>2, <2>1 DEF BeliefsSound, TypeOK, Packet, Matrix, Row
  <2>4. ASSUME NEW l \in Links, wire'[l].phase = "matrix"
        PROVE  wire'[l].matrix[n][a] <= matrix'[n][n][a]
    <3>1. wire'[l] = wire[l]
      BY <2>4
    <3>2. wire[l].matrix \in Matrix /\ wire[l].matrix[n][a] <= matrix[n][n][a]
      BY <1>2, <2>4, <3>1 DEF BeliefsSound, TypeOK, Wires
    <3>. QED BY <2>1, <3>1, <3>2 DEF Matrix, Row
  <2>5. matrix'[n][n][a] <= matrix'[a][a][a]
    BY <1>2, <1>6, <1>10, <1>11 DEF BeliefsSound, Created
  <2>. QED BY <2>2, <2>3, <2>4, <2>5
<1>15. NothingLost'
  <2>. SUFFICES ASSUME NEW r \in Nodes, NEW q \in Nodes, NEW a \in Nodes, NEW k \in Numbers,
                       k < matrix'[q][q][a],
                       matrix'[r][r][a] <= k \/ command_to_exec[q][a] <= k
                PROVE  Stored(messages'[q], a, k)
    BY DEF NothingLost
  <2>1. CASE q # p \/ k < matrix[q][q][a]
    <3>1. k < matrix[q][q][a]
      BY <1>6, <2>1
    <3>2. matrix[r][r][a] <= k \/ command_to_exec[q][a] <= k
      BY <1>3, <1>7, <1>13 DEF TypeOK, Matrix, Row
    <3>3. Stored(messages[q], a, k)
      BY <1>2, <3>1, <3>2 DEF NothingLost
    <3>. QED BY <1>4, <1>6, <3>3
  <2>2. CASE q = p /\ ~(k < matrix[q][q][a])
    BY <1>3, <1>5, <1>6, <2>2 DEF Matrix, Row
  <2>. QED BY <2>1, <2>2
<1>16. NoGaps'
  <2>. SUFFICES ASSUME NEW q \in Nodes, NEW m \in messages'[q]
                PROVE  m.number < matrix'[q][q][m.author] /\ m.value # "BAD MESSAGE"
    BY DEF NoGaps
  <2>0. m \in AllMessages
    BY <1>6, <1>9, AllMessagesLemma
  <2>1. m.author \in Nodes /\ m.number \in Numbers
    BY <1>8, <2>0
  <2>5. m.value # "BAD MESSAGE"
    BY <1>2, <2>0 DEF MessagesSound
  <2>2. CASE q = p /\ m \in T
    BY <1>5, <1>6, <2>2, <2>5
  <2>3. CASE m \in messages[q]
    <3>1. m.number < matrix[q][q][m.author]
      BY <1>2, <2>3 DEF NoGaps
    <3>2. matrix[q][q][m.author] <= matrix'[q][q][m.author]
      BY <1>7, <2>1
    <3>3. m.number < matrix'[q][q][m.author]
      BY <1>21, <2>1, <3>1, <3>2
    <3>. QED BY <2>5, <3>3
  <2>4. m \in messages[q] \/ (q = p /\ m \in T)
    <3>1. CASE q = p
      BY <1>4, <1>6, <3>1
    <3>. QED BY <1>6, <3>1
  <2>. QED BY <2>2, <2>3, <2>4
<1>17. MessagesSound'
  <2>. SUFFICES ASSUME NEW m \in AllMessages'
                PROVE  /\ m.value = "command"
                       /\ m.number < matrix'[m.author][m.author][m.author]
                       /\ \A x \in AllMessages' :
                            x.author = m.author /\ x.number = m.number => x = m
                       /\ \A q \in Nodes : m.number < command_to_exec[q][m.author]
                                            => m.depends \preceq command_to_exec[q]
    BY DEF MessagesSound, Created, \preceq
  <2>1. m \in AllMessages
    BY <1>12
  <2>. QED BY <1>2, <1>8, <1>11, <1>12, <2>1 DEF MessagesSound, Created
<1>18. ASSUME NEW pkt \in packets' PROVE Contiguous(pkt.messages)'
  <2>. SUFFICES ASSUME NEW q \in Nodes, NEW m \in pkt.messages, NEW k \in Numbers,
                       matrix'[q][q][m.author] <= k, k < m.number
                PROVE  Stored(pkt.messages, m.author, k)
    BY DEF Contiguous, Stored
  <2>1. m \in AllMessages
    BY AllMessagesLemma, <1>18
  <2>2. matrix[q][q][m.author] <= k
    BY <1>3, <1>7, <1>8, <1>13, <2>1 DEF TypeOK, Matrix, Row
  <2>. QED BY <1>2, <1>18, <2>2 DEF Contiguous
<1>19. ASSUME NEW l \in Links PROVE WireSound(l)'
  <2>. SUFFICES ASSUME wire'[l] = wire[l] PROVE WireSound(l)'
    BY DEF WireSound
  <2>1. l[1] \in Nodes /\ l[2] \in Nodes
    BY LinksAssumption
  <2>2. ASSUME wire[l].phase = "asked"
        PROVE  /\ wire[l].number <= matrix'[l[1]][l[1]][wire[l].author]
               /\ wire[l].number < matrix'[l[2]][l[2]][wire[l].author]
    <3>1. wire[l].author \in Nodes /\ wire[l].number \in Numbers
      BY <1>2, <2>2 DEF TypeOK, Wires
    <3>2. /\ wire[l].number <= matrix[l[1]][l[1]][wire[l].author]
          /\ wire[l].number < matrix[l[2]][l[2]][wire[l].author]
      BY <1>2, <2>2 DEF WireSound
    <3>. QED BY <1>3, <1>7, <1>13, <2>1, <3>1, <3>2 DEF TypeOK, Matrix, Row
  <2>3. ASSUME wire[l].phase = "reply"
        PROVE  wire[l].msg.number <= matrix'[l[1]][l[1]][wire[l].msg.author]
    <3>1. wire[l].msg \in AllMessages
      BY <2>3, AllMessagesLemma
    <3>2. wire[l].msg.number <= matrix[l[1]][l[1]][wire[l].msg.author]
      BY <1>2, <2>3 DEF WireSound
    <3>. QED BY <1>3, <1>7, <1>8, <1>13, <2>1, <3>1, <3>2 DEF TypeOK, Matrix, Row
  <2>. QED BY <2>2, <2>3 DEF WireSound
<1>20. ASSUME NEW q \in Nodes PROVE (command_to_exec[q] \preceq matrix[q][q])'
  BY <1>2, <1>3, <1>7, <1>13 DEF \preceq, TypeOK, Matrix, Row
<1>. QED BY <1>13, <1>14, <1>15, <1>16, <1>17, <1>18, <1>19, <1>20 DEF IInv

LEMMA InitLemma == Init => IInv
<1>. SUFFICES ASSUME Init PROVE IInv
  OBVIOUS
<1>. USE MaxCmdAssumption DEF Init, Count, Numbers
<1>1. ZeroRow \in Row /\ ZeroMatrix \in Matrix
  BY DEF ZeroRow, ZeroMatrix, Row, Matrix
<1>2. \A p, n, a \in Nodes : matrix[p][n][a] = 0 /\ command_to_exec[p][a] = 0
  BY DEF ZeroRow, ZeroMatrix
<1>3. AllMessages = {}
  <2>1. \A l \in Links : wire[l].phase # "reply"
    BY DEF Idle
  <2>. QED BY <2>1, AllMessagesLemma
<1>4. TypeOK
  <2>1. wire \in [Links -> Wires]
    BY DEF Idle, Wires
  <2>2. failures \in 0 .. MaxFailures
    BY BoundsAssumption
  <2>. QED BY <1>1, <2>1, <2>2 DEF TypeOK
<1>5. BeliefsSound
  <2>1. \A l \in Links : wire[l].phase # "matrix"
    BY DEF Idle
  <2>. QED BY <1>2, <2>1 DEF BeliefsSound, Created
<1>6. NothingLost
  BY <1>2 DEF NothingLost
<1>7. NoGaps
  BY DEF NoGaps
<1>8. MessagesSound
  BY <1>3 DEF MessagesSound
<1>9. \A l \in Links : WireSound(l)
  BY DEF WireSound, Idle
<1>10. \A p \in Nodes : command_to_exec[p] \preceq matrix[p][p]
  BY <1>2 DEF \preceq
<1>. QED BY <1>4, <1>5, <1>6, <1>7, <1>8, <1>9, <1>10 DEF IInv

(* A new command takes the first number its author has not used. *)
LEMMA CreateCommandLemma ==
  ASSUME IInv, NEW p \in Nodes, NEW depends, CreateCommand(p, depends)
  PROVE  IInv'
<1>. USE MaxCmdAssumption DEF Count, Numbers
<1>. DEFINE c   == matrix[p][p][p]
            new == NewMsg(p, depends)
<1>1. /\ TypeOK /\ BeliefsSound /\ NothingLost /\ NoGaps /\ MessagesSound
      /\ \A pkt \in packets : Contiguous(pkt.messages)
      /\ \A l \in Links : WireSound(l)
      /\ \A q \in Nodes : command_to_exec[q] \preceq matrix[q][q]
  BY DEF IInv
<1>2. /\ c < MaxCmd
      /\ depends \in {command_to_exec[p], ZeroRow}
      /\ matrix' = [matrix EXCEPT ![p][p][p] = @ + 1]
      /\ messages' = [messages EXCEPT ![p] = Insert(@, {new})]
      /\ UNCHANGED <<command_to_exec, status, packets, wire, failures>>
  BY DEF CreateCommand
<1>3. matrix \in [Nodes -> [Nodes -> [Nodes -> 0 .. MaxCmd]]]
  BY <1>1 DEF TypeOK, Matrix, Row
<1>4. /\ matrix'[p][p][p] = c + 1
      /\ \A q, n, a \in Nodes : ~(q = p /\ n = p /\ a = p) => matrix'[q][n][a] = matrix[q][n][a]
  BY <1>2, <1>3
<1>5. matrix' \in [Nodes -> [Nodes -> [Nodes -> 0 .. MaxCmd]]]
  BY <1>2, <1>3
<1>6. \A q, n, a \in Nodes : /\ matrix[q][n][a] \in 0 .. MaxCmd
                             /\ matrix'[q][n][a] \in 0 .. MaxCmd
                             /\ matrix[q][n][a] <= matrix'[q][n][a]
  <2>1. \A q, n, a \in Nodes : matrix[q][n][a] \in 0 .. MaxCmd /\ matrix'[q][n][a] \in 0 .. MaxCmd
    BY <1>3, <1>5
  <2>2. ASSUME NEW q \in Nodes, NEW n \in Nodes, NEW a \in Nodes
        PROVE  matrix[q][n][a] <= matrix'[q][n][a]
    <3>1. CASE q = p /\ n = p /\ a = p
      <4>1. c \in 0 .. MaxCmd
        BY <2>1
      <4>. QED BY <1>4, <3>1, <4>1
    <3>2. CASE ~(q = p /\ n = p /\ a = p)
      BY <1>4, <2>1, <3>2
    <3>. QED BY <3>1, <3>2
  <2>. QED BY <2>1, <2>2
<1>7. depends \in Row /\ new \in Msg /\ c \in Numbers
  <2>1. depends \in Row
    BY <1>1, <1>2 DEF ZeroRow, Row, TypeOK
  <2>2. c \in Numbers
    BY <1>2, <1>3
  <2>. QED BY <2>1, <2>2 DEF NewMsg, Msg, Values
<1>8. /\ new.author = p /\ new.number = c /\ new.depends = depends /\ new.value = "command"
  BY DEF NewMsg
<1>9. ASSUME NEW m \in AllMessages
      PROVE  /\ m \in Msg /\ m.author \in Nodes /\ m.number \in Numbers
             /\ m.number < matrix[m.author][m.author][m.author]
  BY <1>1, MessagesTyped DEF MessagesSound, Created, Msg
<1>10. ~Stored(messages[p], p, c)
  BY <1>9, AllMessagesLemma DEF Stored
<1>11. /\ messages'[p] = messages[p] \cup {new}
       /\ \A q \in Nodes \ {p} : messages'[q] = messages[q]
  BY <1>1, <1>2, <1>8, <1>10 DEF Insert, TypeOK
<1>12. ASSUME NEW m \in AllMessages' PROVE m \in AllMessages \/ m = new
  <2>1. CASE \E q \in Nodes : m \in messages'[q]
    BY <1>11, <2>1, AllMessagesLemma
  <2>2. CASE \E pkt \in packets' : m \in pkt.messages
    BY <1>2, <2>2, AllMessagesLemma
  <2>3. CASE \E l \in Links : wire'[l].phase = "reply" /\ m = wire'[l].msg
    BY <1>2, <2>3, AllMessagesLemma
  <2>. QED BY <2>1, <2>2, <2>3 DEF AllMessages
<1>13. TypeOK'
  <2>1. matrix' \in [Nodes -> Matrix]
    BY <1>5 DEF Matrix, Row
  <2>2. messages' \in [Nodes -> SUBSET Msg]
    <3>1. messages' \in [Nodes -> SUBSET Msg] <=> Insert(messages[p], {new}) \in SUBSET Msg
      BY <1>1, <1>2 DEF TypeOK
    <3>. QED BY <1>1, <1>7, <3>1 DEF Insert, TypeOK
  <2>. QED BY <1>1, <1>2, <2>1, <2>2 DEF TypeOK
<1>14. BeliefsSound'
  <2>. SUFFICES ASSUME NEW n \in Nodes, NEW a \in Nodes
                PROVE  /\ \A q \in Nodes : matrix'[q][n][a] <= matrix'[n][n][a]
                       /\ \A pkt \in packets : pkt.matrix[n][a] <= matrix'[n][n][a]
                       /\ \A l \in Links : wire[l].phase = "matrix"
                             => wire[l].matrix[n][a] <= matrix'[n][n][a]
                       /\ matrix'[n][n][a] <= matrix'[a][a][a]
    BY <1>2 DEF BeliefsSound, Created
  <2>1. ASSUME NEW q \in Nodes PROVE matrix'[q][n][a] <= matrix'[n][n][a]
    <3>1. matrix[q][n][a] <= matrix[n][n][a]
      BY <1>1 DEF BeliefsSound
    <3>. QED BY <1>4, <1>6, <3>1
  <2>2. ASSUME NEW pkt \in packets PROVE pkt.matrix[n][a] <= matrix'[n][n][a]
    <3>1. pkt.matrix[n][a] \in 0 .. MaxCmd /\ pkt.matrix[n][a] <= matrix[n][n][a]
      BY <1>1 DEF BeliefsSound, TypeOK, Packet, Matrix, Row
    <3>. QED BY <1>6, <3>1
  <2>3. ASSUME NEW l \in Links, wire[l].phase = "matrix"
        PROVE  wire[l].matrix[n][a] <= matrix'[n][n][a]
    <3>1. wire[l].matrix \in Matrix
      BY <1>1, <2>3 DEF TypeOK, Wires
    <3>2. wire[l].matrix[n][a] \in 0 .. MaxCmd /\ wire[l].matrix[n][a] <= matrix[n][n][a]
      BY <1>1, <2>3, <3>1 DEF BeliefsSound, Matrix, Row
    <3>. QED BY <1>6, <3>2
  <2>4. matrix'[n][n][a] <= matrix'[a][a][a]
    <3>1. matrix[n][n][a] <= matrix[a][a][a]
      BY <1>1 DEF BeliefsSound, Created
    <3>. QED BY <1>4, <1>6, <3>1
  <2>. QED BY <2>1, <2>2, <2>3, <2>4
<1>15. NothingLost'
  <2>. SUFFICES ASSUME NEW r \in Nodes, NEW q \in Nodes, NEW a \in Nodes, NEW k \in Numbers,
                       k < matrix'[q][q][a],
                       matrix'[r][r][a] <= k \/ command_to_exec[q][a] <= k
                PROVE  Stored(messages'[q], a, k)
    BY <1>2 DEF NothingLost
  <2>1. CASE k < matrix[q][q][a]
    <3>1. matrix[r][r][a] <= k \/ command_to_exec[q][a] <= k
      BY <1>6
    <3>2. Stored(messages[q], a, k)
      BY <1>1, <2>1, <3>1 DEF NothingLost
    <3>. QED BY <1>11, <3>2 DEF Stored
  <2>2. CASE ~(k < matrix[q][q][a])
    <3>1. q = p /\ a = p /\ k = c
      BY <1>4, <1>6, <2>2
    <3>. QED BY <1>8, <1>11, <3>1 DEF Stored
  <2>. QED BY <2>1, <2>2
<1>16. NoGaps'
  <2>. SUFFICES ASSUME NEW q \in Nodes, NEW m \in messages'[q]
                PROVE  m.number < matrix'[q][q][m.author] /\ m.value # "BAD MESSAGE"
    BY DEF NoGaps
  <2>1. CASE q = p /\ m = new
    <3>1. m.number < matrix'[q][q][m.author]
      <4>1. c \in 0 .. MaxCmd
        BY <1>6
      <4>2. m.number = c /\ matrix'[q][q][m.author] = c + 1
        BY <1>4, <1>8, <2>1
      <4>. QED BY <4>1, <4>2
    <3>2. m.value # "BAD MESSAGE"
      BY <1>8, <2>1
    <3>. QED BY <3>1, <3>2
  <2>2. CASE m \in messages[q]
    <3>1. m.number < matrix[q][q][m.author] /\ m.value # "BAD MESSAGE"
      BY <1>1, <2>2 DEF NoGaps
    <3>2. m.author \in Nodes /\ m.number \in Numbers
      BY <1>9, <2>2, AllMessagesLemma
    <3>3. m.number < matrix'[q][q][m.author]
      <4>1. /\ matrix[q][q][m.author] \in 0 .. MaxCmd /\ matrix'[q][q][m.author] \in 0 .. MaxCmd
            /\ matrix[q][q][m.author] <= matrix'[q][q][m.author]
        BY <1>6, <3>2
      <4>2. m.number \in 0 .. MaxCmd - 1 /\ m.number < matrix[q][q][m.author]
        BY <3>1, <3>2
      <4>. QED BY <4>1, <4>2
    <3>. QED BY <3>1, <3>3
  <2>. QED BY <1>11, <2>1, <2>2
<1>17. MessagesSound'
  <2>. SUFFICES ASSUME NEW m \in AllMessages'
                PROVE  /\ m.value = "command"
                       /\ m.number < matrix'[m.author][m.author][m.author]
                       /\ \A x \in AllMessages' :
                            x.author = m.author /\ x.number = m.number => x = m
                       /\ \A q \in Nodes : m.number < command_to_exec[q][m.author]
                                            => m.depends \preceq command_to_exec[q]
    BY <1>2 DEF MessagesSound, Created
  <2>1. CASE m = new
    <3>1. m.number < matrix'[m.author][m.author][m.author]
      BY <1>4, <1>6, <1>8, <2>1
    <3>2. ASSUME NEW x \in AllMessages', x.author = m.author, x.number = m.number
          PROVE  x = m
      <4>. SUFFICES ASSUME x \in AllMessages PROVE FALSE
        BY <1>12, <2>1
      <4>. QED BY <1>6, <1>8, <1>9, <2>1, <3>2
    <3>3. ASSUME NEW q \in Nodes PROVE ~(m.number < command_to_exec[q][m.author])
      <4>1. command_to_exec[q][p] \in 0 .. MaxCmd /\ command_to_exec[q][p] <= matrix[q][q][p]
        BY <1>1 DEF TypeOK, Row, \preceq
      <4>2. matrix[q][q][p] <= c
        BY <1>1 DEF BeliefsSound, Created
      <4>. QED BY <1>6, <1>8, <2>1, <4>1, <4>2
    <3>. QED BY <1>8, <2>1, <3>1, <3>2, <3>3
  <2>2. CASE m \in AllMessages
    <3>1. m.number < matrix'[m.author][m.author][m.author]
      BY <1>6, <1>9, <2>2
    <3>2. ASSUME NEW x \in AllMessages', x.author = m.author, x.number = m.number
          PROVE  x = m
      <4>1. x # new
        BY <1>6, <1>8, <1>9, <2>2, <3>2
      <4>. QED BY <1>1, <1>12, <2>2, <3>2, <4>1 DEF MessagesSound
    <3>. QED BY <1>1, <2>2, <3>1, <3>2 DEF MessagesSound
  <2>. QED BY <1>12, <2>1, <2>2
<1>18. ASSUME NEW pkt \in packets' PROVE Contiguous(pkt.messages)'
  <2>. SUFFICES ASSUME NEW q \in Nodes, NEW m \in pkt.messages, NEW k \in Numbers,
                       matrix'[q][q][m.author] <= k, k < m.number
                PROVE  Stored(pkt.messages, m.author, k)
    BY DEF Contiguous, Stored
  <2>1. pkt \in packets
    BY <1>2
  <2>2. m \in AllMessages
    BY <2>1, AllMessagesLemma
  <2>3. matrix[q][q][m.author] <= k
    BY <1>6, <1>9, <2>2
  <2>. QED BY <1>1, <2>1, <2>3 DEF Contiguous
<1>19. ASSUME NEW l \in Links PROVE WireSound(l)'
  <2>1. l[1] \in Nodes /\ l[2] \in Nodes /\ wire'[l] = wire[l]
    BY <1>2, LinksAssumption
  <2>2. ASSUME wire[l].phase = "asked"
        PROVE  /\ wire[l].number <= matrix'[l[1]][l[1]][wire[l].author]
               /\ wire[l].number < matrix'[l[2]][l[2]][wire[l].author]
    <3>1. wire[l].author \in Nodes /\ wire[l].number \in Numbers
      BY <1>1, <2>2 DEF TypeOK, Wires
    <3>2. /\ wire[l].number <= matrix[l[1]][l[1]][wire[l].author]
          /\ wire[l].number < matrix[l[2]][l[2]][wire[l].author]
      BY <1>1, <2>2 DEF WireSound
    <3>. QED BY <1>6, <2>1, <3>1, <3>2
  <2>3. ASSUME wire[l].phase = "reply"
        PROVE  wire[l].msg.number <= matrix'[l[1]][l[1]][wire[l].msg.author]
    <3>1. wire[l].msg \in AllMessages
      BY <2>3, AllMessagesLemma
    <3>2. wire[l].msg.number <= matrix[l[1]][l[1]][wire[l].msg.author]
      BY <1>1, <2>3 DEF WireSound
    <3>. QED BY <1>6, <1>9, <2>1, <3>1, <3>2
  <2>. QED BY <2>1, <2>2, <2>3 DEF WireSound
<1>20. ASSUME NEW q \in Nodes PROVE (command_to_exec[q] \preceq matrix[q][q])'
  <2>. SUFFICES ASSUME NEW a \in Nodes PROVE command_to_exec[q][a] <= matrix'[q][q][a]
    BY <1>2 DEF \preceq
  <2>1. command_to_exec[q][a] \in 0 .. MaxCmd /\ command_to_exec[q][a] <= matrix[q][q][a]
    BY <1>1 DEF TypeOK, Row, \preceq
  <2>. QED BY <1>6, <2>1
<1>. QED BY <1>13, <1>14, <1>15, <1>16, <1>17, <1>18, <1>19, <1>20 DEF IInv

(* Whatever is written, sent or lost by the transports, the nodes keep what *)
(* they know; it is enough that new files and new data on the wire say no   *)
(* more than the nodes do.                                                  *)
LEMMA TransportLemma ==
  ASSUME IInv,
         UNCHANGED <<matrix, command_to_exec, messages>>,
         status' \in [Nodes -> {"work", "inviter"}],
         packets' \subseteq Packet,
         wire' \in [Links -> Wires],
         failures' \in 0 .. MaxFailures,
         \A pkt \in packets' \ packets :
           /\ \A n, a \in Nodes : pkt.matrix[n][a] <= matrix[n][n][a]
           /\ pkt.messages \subseteq AllMessages
           /\ Contiguous(pkt.messages),
         \A l \in Links : wire'[l] # wire[l] =>
           /\ wire'[l].phase = "matrix" =>
                \A n, a \in Nodes : wire'[l].matrix[n][a] <= matrix[n][n][a]
           /\ wire'[l].phase = "reply" => wire'[l].msg \in AllMessages
           /\ WireSound(l)'
  PROVE  IInv'
<1>1. /\ TypeOK /\ BeliefsSound /\ NothingLost /\ NoGaps /\ MessagesSound
      /\ \A pkt \in packets : Contiguous(pkt.messages)
      /\ \A l \in Links : WireSound(l)
      /\ \A q \in Nodes : command_to_exec[q] \preceq matrix[q][q]
  BY DEF IInv
<1>2. TypeOK'
  BY <1>1 DEF TypeOK
<1>3. BeliefsSound'
  <2>. SUFFICES ASSUME NEW n \in Nodes, NEW a \in Nodes
                PROVE  /\ \A q \in Nodes : matrix[q][n][a] <= matrix[n][n][a]
                       /\ \A pkt \in packets' : pkt.matrix[n][a] <= matrix[n][n][a]
                       /\ \A l \in Links : wire'[l].phase = "matrix"
                             => wire'[l].matrix[n][a] <= matrix[n][n][a]
                       /\ matrix[n][n][a] <= matrix[a][a][a]
    BY DEF BeliefsSound, Created
  <2>1. ASSUME NEW pkt \in packets' PROVE pkt.matrix[n][a] <= matrix[n][n][a]
    BY <1>1 DEF BeliefsSound
  <2>2. ASSUME NEW l \in Links, wire'[l].phase = "matrix"
        PROVE  wire'[l].matrix[n][a] <= matrix[n][n][a]
    <3>1. CASE wire'[l] = wire[l]
      BY <1>1, <2>2, <3>1 DEF BeliefsSound
    <3>2. CASE wire'[l] # wire[l]
      BY <2>2, <3>2
    <3>. QED BY <3>1, <3>2
  <2>. QED BY <1>1, <2>1, <2>2 DEF BeliefsSound, Created
<1>4. NothingLost'
  BY <1>1 DEF NothingLost
<1>5. NoGaps'
  BY <1>1 DEF NoGaps
<1>6. ASSUME NEW m \in AllMessages' PROVE m \in AllMessages
  <2>1. CASE \E q \in Nodes : m \in messages'[q]
    BY <2>1, AllMessagesLemma
  <2>2. CASE \E pkt \in packets' : m \in pkt.messages
    <3>. PICK pkt \in packets' : m \in pkt.messages
      BY <2>2
    <3>1. CASE pkt \in packets
      BY <3>1, AllMessagesLemma
    <3>. QED BY <3>1
  <2>3. CASE \E l \in Links : wire'[l].phase = "reply" /\ m = wire'[l].msg
    <3>. PICK l \in Links : wire'[l].phase = "reply" /\ m = wire'[l].msg
      BY <2>3
    <3>1. CASE wire'[l] = wire[l]
      BY <3>1, AllMessagesLemma
    <3>. QED BY <3>1
  <2>. QED BY <2>1, <2>2, <2>3 DEF AllMessages
<1>7. MessagesSound'
  BY <1>1, <1>6 DEF MessagesSound, Created
<1>8. ASSUME NEW pkt \in packets' PROVE Contiguous(pkt.messages)'
  <2>1. Contiguous(pkt.messages)
    BY <1>1
  <2>. QED BY <2>1 DEF Contiguous
<1>9. ASSUME NEW l \in Links PROVE WireSound(l)'
  <2>1. CASE wire'[l] = wire[l]
    BY <1>1, <2>1 DEF WireSound
  <2>. QED BY <2>1
<1>10. \A q \in Nodes : (command_to_exec[q] \preceq matrix[q][q])'
  BY <1>1 DEF \preceq
<1>. QED BY <1>2, <1>3, <1>4, <1>5, <1>7, <1>8, <1>9, <1>10 DEF IInv

-----------------------------------------------------------------------------
(* The steps of one node *)

(* What is executed was stored, so that it has been created and depends on  *)
(* executed commands; what is dropped is known to everybody.                *)
LEMMA PendingCommandsLemma ==
  ASSUME IInv, NEW p \in Nodes, PendingCommands(p)
  PROVE  IInv'
<1>. USE MaxCmdAssumption DEF Count, Numbers
<1>1. /\ TypeOK /\ BeliefsSound /\ NothingLost /\ NoGaps /\ MessagesSound
      /\ \A pkt \in packets : Contiguous(pkt.messages)
      /\ \A l \in Links : WireSound(l)
      /\ \A q \in Nodes : command_to_exec[q] \preceq matrix[q][q]
  BY DEF IInv
<1>2. PICK exec \in Row :
        /\ ExecutesTo(messages[p], command_to_exec[p], exec)
        /\ command_to_exec' = [command_to_exec EXCEPT ![p] = exec]
        /\ messages' = [messages EXCEPT ![p] = RemoveOldCommands(p, exec)]
  BY DEF PendingCommands
<1>3. UNCHANGED <<matrix, status, packets, wire, failures>>
  BY DEF PendingCommands
<1>4. /\ \A q, n, a \in Nodes : matrix[q][n][a] \in 0 .. MaxCmd
      /\ \A q, a \in Nodes : command_to_exec[q][a] \in 0 .. MaxCmd
      /\ \A a \in Nodes : exec[a] \in 0 .. MaxCmd
      /\ command_to_exec[p] \in Row /\ messages[p] \in SUBSET Msg
  BY <1>1 DEF TypeOK, Matrix, Row
<1>5. /\ command_to_exec'[p] = exec
      /\ \A q \in Nodes \ {p} : command_to_exec'[q] = command_to_exec[q]
      /\ messages'[p] = RemoveOldCommands(p, exec)
      /\ \A q \in Nodes \ {p} : messages'[q] = messages[q]
  BY <1>1, <1>2 DEF TypeOK
<1>6. RemoveOldCommands(p, exec) \subseteq messages[p]
  BY DEF RemoveOldCommands
<1>7. command_to_exec[p] \preceq exec
  BY <1>2 DEF ExecutesTo, Stopped
<1>8. ASSUME NEW a \in Nodes, NEW k \in Numbers, command_to_exec[p][a] <= k, k < exec[a]
      PROVE  \E m \in messages[p] : m.author = a /\ m.number = k /\ m.depends \preceq exec
  BY <1>2, <1>4, <1>8, ExecutesToLemma
<1>9. ASSUME NEW a \in Nodes PROVE exec[a] <= matrix[p][p][a]
  <2>1. command_to_exec[p][a] <= matrix[p][p][a]
    BY <1>1 DEF \preceq
  <2>2. SUFFICES ASSUME matrix[p][p][a] < exec[a] PROVE FALSE
    BY <1>4
  <2>3. PICK m \in messages[p] : m.author = a /\ m.number = matrix[p][p][a]
    BY <1>4, <1>8, <2>1, <2>2
  <2>4. m.number < matrix[p][p][m.author]
    BY <1>1 DEF NoGaps
  <2>. QED BY <1>4, <2>3, <2>4
<1>10. ASSUME NEW m \in AllMessages' PROVE m \in AllMessages
  <2>1. CASE \E q \in Nodes : m \in messages'[q]
    BY <1>5, <1>6, <2>1, AllMessagesLemma
  <2>2. CASE \E pkt \in packets' : m \in pkt.messages
    BY <1>3, <2>2, AllMessagesLemma
  <2>3. CASE \E l \in Links : wire'[l].phase = "reply" /\ m = wire'[l].msg
    BY <1>3, <2>3, AllMessagesLemma
  <2>. QED BY <2>1, <2>2, <2>3 DEF AllMessages
<1>11. TypeOK'
  BY <1>1, <1>2, <1>3, <1>4, <1>6 DEF TypeOK
<1>12. BeliefsSound'
  BY <1>1, <1>3 DEF BeliefsSound, Created
<1>13. NothingLost'
  <2>. SUFFICES ASSUME NEW r \in Nodes, NEW q \in Nodes, NEW a \in Nodes, NEW k \in Numbers,
                       k < matrix[q][q][a],
                       matrix[r][r][a] <= k \/ command_to_exec'[q][a] <= k
                PROVE  Stored(messages'[q], a, k)
    BY <1>3 DEF NothingLost
  <2>1. CASE q # p
    BY <1>1, <1>5, <2>1 DEF NothingLost
  <2>2. CASE q = p
    <3>1. matrix[r][r][a] <= k \/ command_to_exec[p][a] <= k
      BY <1>4, <1>5, <1>7, <2>2 DEF \preceq
    <3>2. PICK m \in messages[p] : m.author = a /\ m.number = k
      BY <1>1, <2>2, <3>1 DEF NothingLost, Stored
    <3>3. ~Old(m, matrix[p], exec)
      <4>1. CASE exec[a] <= k
        BY <1>4, <3>2, <4>1 DEF Old
      <4>2. CASE matrix[r][r][a] <= k
        <5>1. matrix[p][r][a] <= matrix[r][r][a]
          BY <1>1 DEF BeliefsSound
        <5>. QED BY <1>4, <3>2, <4>2, <5>1 DEF Old
      <4>. QED BY <1>5, <2>2, <4>1, <4>2
    <3>4. m \in RemoveOldCommands(p, exec)
      BY <3>3 DEF RemoveOldCommands
    <3>. QED BY <1>5, <2>2, <3>2, <3>4 DEF Stored
  <2>. QED BY <2>1, <2>2
<1>14. NoGaps'
  BY <1>1, <1>3, <1>5, <1>6 DEF NoGaps
<1>15. MessagesSound'
  <2>. SUFFICES ASSUME NEW m \in AllMessages', NEW q \in Nodes,
                       m.number < command_to_exec'[q][m.author]
                PROVE  m.depends \preceq command_to_exec'[q]
    BY <1>1, <1>3, <1>10 DEF MessagesSound, Created
  <2>1. m \in AllMessages /\ m \in Msg
    BY <1>1, <1>10, MessagesTyped
  <2>2. CASE m.number < command_to_exec[q][m.author]
    <3>1. m.depends \preceq command_to_exec[q]
      BY <1>1, <2>1, <2>2 DEF MessagesSound
    <3>2. command_to_exec[q] \preceq command_to_exec'[q]
      BY <1>4, <1>5, <1>7 DEF \preceq
    <3>3. m.depends \in Row
      BY <2>1 DEF Msg
    <3>4. ASSUME NEW a \in Nodes PROVE m.depends[a] <= command_to_exec'[q][a]
      <4>1. /\ m.depends[a] \in 0 .. MaxCmd /\ command_to_exec[q][a] \in 0 .. MaxCmd
            /\ command_to_exec'[q][a] \in 0 .. MaxCmd
        BY <1>4, <1>5, <3>3 DEF Row
      <4>2. m.depends[a] <= command_to_exec[q][a] /\ command_to_exec[q][a] <= command_to_exec'[q][a]
        BY <3>1, <3>2 DEF \preceq
      <4>. QED BY <4>1, <4>2
    <3>. QED BY <3>4 DEF \preceq
  <2>3. CASE ~(m.number < command_to_exec[q][m.author])
    <3>1. m.author \in Nodes /\ m.number \in Numbers
      BY <2>1 DEF Msg
    <3>2. q = p /\ command_to_exec[p][m.author] <= m.number /\ m.number < exec[m.author]
      BY <1>4, <1>5, <2>3, <3>1
    <3>3. PICK x \in messages[p] :
            x.author = m.author /\ x.number = m.number /\ x.depends \preceq exec
      BY <1>8, <3>1, <3>2
    <3>4. x \in AllMessages
      BY AllMessagesLemma
    <3>5. x = m
      BY <1>1, <2>1, <3>3, <3>4 DEF MessagesSound
    <3>. QED BY <1>5, <3>2, <3>3, <3>5
  <2>. QED BY <2>2, <2>3
<1>16. \A pkt \in packets' : Contiguous(pkt.messages)'
  BY <1>1, <1>3 DEF Contiguous
<1>17. \A l \in Links : WireSound(l)'
  BY <1>1, <1>3 DEF WireSound
<1>18. ASSUME NEW q \in Nodes PROVE (command_to_exec[q] \preceq matrix[q][q])'
  BY <1>1, <1>3, <1>5, <1>9 DEF \preceq
<1>. QED BY <1>11, <1>12, <1>13, <1>14, <1>15, <1>16, <1>17, <1>18 DEF IInv

LEMMA StatusLemma ==
  ASSUME IInv, NEW p \in Nodes, WriteOfflineInvite(p) \/ FinalizeInvitation(p)
  PROVE  IInv'
<1>1. /\ status' \in [Nodes -> {"work", "inviter"}]
      /\ packets' \subseteq Packet /\ wire' \in [Links -> Wires] /\ failures' \in 0 .. MaxFailures
  BY DEF WriteOfflineInvite, FinalizeInvitation, IInv, TypeOK
<1>2. UNCHANGED <<matrix, command_to_exec, messages, packets, wire>>
  BY DEF WriteOfflineInvite, FinalizeInvitation
<1>. QED BY <1>1, <1>2, TransportLemma

(* The messages of a node are contiguous, because it stores what others     *)
(* still need; and what is written before the medium is full still is.      *)
LEMMA WritePacketLemma ==
  ASSUME IInv, NEW p \in Nodes, WritePacket(p)
  PROVE  IInv'
<1>. USE MaxCmdAssumption DEF Count, Numbers
<1>1. /\ TypeOK /\ BeliefsSound /\ NothingLost /\ NoGaps
  BY DEF IInv
<1>2. UNCHANGED <<matrix, command_to_exec, messages, status, wire, failures>>
  BY DEF WritePacket
<1>3. PICK written \in FilePrefixes(messages[p]) :
        packets' = packets \cup {[matrix |-> matrix[p], messages |-> written]}
  BY DEF WritePacket
<1>4. /\ written \subseteq messages[p]
      /\ \A m \in written, x \in messages[p] : Before(x, m) => x \in written
  BY DEF FilePrefixes
<1>5. matrix[p] \in Matrix /\ messages[p] \in SUBSET Msg
  BY <1>1 DEF TypeOK
<1>6. written \subseteq AllMessages /\ written \subseteq Msg
  BY <1>4, <1>5, AllMessagesLemma
<1>7. Contiguous(written)
  <2>. SUFFICES ASSUME NEW q \in Nodes, NEW m \in written, NEW k \in Numbers,
                       matrix[q][q][m.author] <= k, k < m.number
                PROVE  Stored(written, m.author, k)
    BY DEF Contiguous
  <2>1. m.author \in Nodes /\ m.number \in Numbers
    BY <1>6 DEF Msg
  <2>2. matrix[p][p][m.author] \in 0 .. MaxCmd
    BY <1>5, <2>1 DEF Matrix, Row
  <2>3. m.number < matrix[p][p][m.author]
    BY <1>1, <1>4 DEF NoGaps
  <2>4. k < matrix[p][p][m.author]
    BY <2>1, <2>2, <2>3
  <2>5. PICK x \in messages[p] : x.author = m.author /\ x.number = k
    BY <1>1, <2>1, <2>4 DEF NothingLost, Stored
  <2>6. x \in written
    BY <1>4, <2>5 DEF Before
  <2>. QED BY <2>5, <2>6 DEF Stored
<1>8. packets' \subseteq Packet
  BY <1>1, <1>3, <1>5, <1>6 DEF TypeOK, Packet
<1>9. ASSUME NEW pkt \in packets' \ packets
      PROVE  /\ \A n, a \in Nodes : pkt.matrix[n][a] <= matrix[n][n][a]
             /\ pkt.messages \subseteq AllMessages
             /\ Contiguous(pkt.messages)
  <2>1. pkt.matrix = matrix[p] /\ pkt.messages = written
    BY <1>3
  <2>. QED BY <1>1, <1>6, <1>7, <2>1 DEF BeliefsSound
<1>10. /\ status' \in [Nodes -> {"work", "inviter"}]
       /\ wire' \in [Links -> Wires] /\ failures' \in 0 .. MaxFailures
  BY <1>1, <1>2 DEF TypeOK
<1>. QED BY <1>2, <1>8, <1>9, <1>10, TransportLemma

(* A sound matrix never changes the row of the node that takes it over. *)
LEMMA OwnRowLemma ==
  ASSUME IInv, NEW p \in Nodes, NEW src \in Matrix,
         \A n, a \in Nodes : src[n][a] <= matrix[n][n][a]
  PROVE  /\ Update(matrix[p], src) \in Matrix
         /\ Update(matrix[p], src)[p] = matrix[p][p]
         /\ \A n, a \in Nodes : Update(matrix[p], src)[n][a] <= matrix[n][n][a]
<1>. USE MaxCmdAssumption DEF Count
<1>1. matrix[p] \in Matrix /\ \A q, n, a \in Nodes : matrix[q][n][a] \in 0 .. MaxCmd
  BY DEF IInv, TypeOK, Matrix, Row
<1>2. /\ Update(matrix[p], src) \in Matrix
      /\ \A n, a \in Nodes : /\ matrix[p][n][a] <= Update(matrix[p], src)[n][a]
                             /\ Update(matrix[p], src)[n][a] \in {matrix[p][n][a], src[n][a]}
  BY <1>1, UpdateLemma
<1>3. \A n, a \in Nodes : Update(matrix[p], src)[n][a] <= matrix[n][n][a]
  BY <1>2 DEF IInv, BeliefsSound
<1>4. \A a \in Nodes : Update(matrix[p], src)[p][a] = matrix[p][p][a]
  <2>. TAKE a \in Nodes
  <2>1. Update(matrix[p], src)[p][a] \in 0 .. MaxCmd
    BY <1>2 DEF Matrix, Row
  <2>. QED BY <1>1, <1>2, <1>3, <2>1
<1>5. Update(matrix[p], src)[p] = matrix[p][p]
  BY <1>1, <1>2, <1>4 DEF Matrix, Row
<1>. QED BY <1>2, <1>3, <1>5

(* An old, truncated or repeated packet is absorbed like a new one. *)
LEMMA ReadPacketLemma ==
  ASSUME IInv, NEW p \in Nodes, NEW pkt \in packets, ReadPacket(p, pkt)
  PROVE  IInv'
<1>. DEFINE M == Update(matrix[p], pkt.matrix)
<1>1. TypeOK /\ BeliefsSound /\ Contiguous(pkt.messages)
  BY DEF IInv
<1>2. pkt.matrix \in Matrix /\ \A n, a \in Nodes : pkt.matrix[n][a] <= matrix[n][n][a]
  BY <1>1 DEF TypeOK, Packet, BeliefsSound
<1>3. /\ M \in Matrix /\ M[p] = matrix[p][p]
      /\ \A n, a \in Nodes : M[n][a] <= matrix[n][n][a]
  BY <1>2, OwnRowLemma
<1>4. /\ CheckedMatrix(p, M, command_to_exec[p], messages[p]) = M
      /\ CheckedMessages(p, M, command_to_exec[p], messages[p]) = messages[p]
  BY <1>3, CheckMatrixLemma
<1>5. PICK T \in FilePrefixes(pkt.messages) : AddCmds(p, M, messages[p], T)
  BY <1>4 DEF ReadPacket
<1>6. UNCHANGED <<command_to_exec, status, packets, wire, failures>>
  BY DEF ReadPacket
<1>7. T \subseteq pkt.messages /\ \A m \in T, x \in pkt.messages : Before(x, m) => x \in T
  BY DEF FilePrefixes
<1>8. T \in SUBSET AllMessages
  BY <1>7, AllMessagesLemma
<1>9. ASSUME NEW m \in T, NEW k \in Numbers, matrix[p][p][m.author] <= k, k < m.number
      PROVE  Stored(T, m.author, k)
  <2>1. PICK x \in pkt.messages : x.author = m.author /\ x.number = k
    BY <1>1, <1>7, <1>9 DEF Contiguous, Stored
  <2>2. x \in T
    BY <1>7, <1>9, <2>1 DEF Before
  <2>. QED BY <2>1, <2>2 DEF Stored
<1>10. failures' \in 0 .. MaxFailures /\ wire' \in [Links -> Wires]
  BY <1>1, <1>6 DEF TypeOK
<1>. QED BY <1>3, <1>5, <1>6, <1>8, <1>9, <1>10, AbsorbLemma

-----------------------------------------------------------------------------
(* The steps of a download *)

LEMMA WriteMatrixLemma ==
  ASSUME IInv, NEW l \in Links, WriteMatrix(l)
  PROVE  IInv'
<1>1. TypeOK /\ BeliefsSound /\ l[2] \in Nodes
  BY LinksAssumption DEF IInv
<1>2. /\ wire' = [wire EXCEPT ![l] = SendingM(matrix[l[2]])]
      /\ UNCHANGED <<matrix, command_to_exec, messages, status, packets, failures>>
  BY DEF WriteMatrix
<1>3. SendingM(matrix[l[2]]) \in Wires
  BY <1>1 DEF TypeOK, Wires, SendingM
<1>4. /\ status' \in [Nodes -> {"work", "inviter"}] /\ failures' \in 0 .. MaxFailures
      /\ packets' \subseteq Packet /\ wire' \in [Links -> Wires]
  BY <1>1, <1>2, <1>3 DEF TypeOK
<1>5. ASSUME NEW x \in Links, wire'[x] # wire[x]
      PROVE  /\ wire'[x].phase = "matrix" =>
                  \A n, a \in Nodes : wire'[x].matrix[n][a] <= matrix[n][n][a]
             /\ wire'[x].phase = "reply" => wire'[x].msg \in AllMessages
             /\ WireSound(x)'
  <2>1. wire'[x] = SendingM(matrix[l[2]])
    BY <1>1, <1>2, <1>5 DEF TypeOK
  <2>2. \A n, a \in Nodes : matrix[l[2]][n][a] <= matrix[n][n][a]
    BY <1>1 DEF BeliefsSound
  <2>3. wire'[x].phase = "matrix" /\ wire'[x].matrix = matrix[l[2]]
    BY <2>1 DEF SendingM
  <2>. QED BY <2>2, <2>3 DEF WireSound
<1>. QED BY <1>2, <1>4, <1>5, TransportLemma

LEMMA UpdateMatrixLemma ==
  ASSUME IInv, NEW l \in Links, UpdateMatrix(l)
  PROVE  IInv'
<1>. DEFINE p == l[1]
            M == Update(matrix[p], wire[l].matrix)
<1>1. TypeOK /\ BeliefsSound /\ p \in Nodes
  BY LinksAssumption DEF IInv
<1>2. /\ wire[l].phase = "matrix"
      /\ matrix' = [matrix EXCEPT ![p] = M]
      /\ wire' = [wire EXCEPT ![l] = Ready]
      /\ UNCHANGED <<command_to_exec, messages, status, packets, failures>>
  BY <1>1 DEF UpdateMatrix, TypeOK
<1>3. wire[l].matrix \in Matrix /\ \A n, a \in Nodes : wire[l].matrix[n][a] <= matrix[n][n][a]
  BY <1>1, <1>2 DEF TypeOK, Wires, BeliefsSound
<1>4. /\ M \in Matrix /\ M[p] = matrix[p][p]
      /\ \A n, a \in Nodes : M[n][a] <= matrix[n][n][a]
  BY <1>1, <1>3, OwnRowLemma
<1>5. AddCmds(p, M, messages[p], {})
  <2>1. Advanced(M[p], Insert(messages[p], {}), {}, M[p])
    BY DEF Advanced
  <2>2. [M EXCEPT ![p] = M[p]] = M
    BY <1>4 DEF Matrix
  <2>3. messages' = [messages EXCEPT ![p] = Insert(messages[p], {})]
    BY <1>1, <1>2 DEF TypeOK, Insert
  <2>4. M[p] \in Row
    BY <1>1, <1>4 DEF Matrix
  <2>. QED BY <1>2, <2>1, <2>2, <2>3, <2>4 DEF AddCmds
<1>6. /\ failures' \in 0 .. MaxFailures /\ wire' \in [Links -> Wires]
      /\ \A x \in Links : wire'[x] = wire[x] \/ wire'[x].phase \in {"idle", "ready"}
  BY <1>1, <1>2 DEF TypeOK, Wires, Ready
<1>7. UNCHANGED <<command_to_exec, status, packets>>
  BY <1>2
<1>8. \A m \in {}, k \in Numbers :
        matrix[p][p][m.author] <= k /\ k < m.number => Stored({}, m.author, k)
  OBVIOUS
<1>9. {} \in SUBSET AllMessages
  OBVIOUS
<1>. HIDE DEF p, M
<1>. QED BY <1>1, <1>4, <1>5, <1>6, <1>7, <1>8, <1>9, AbsorbLemma

(* The client asks for a command that the server, as the client knows, has. *)
LEMMA RequestMessageLemma ==
  ASSUME IInv, NEW l \in Links, RequestMessage(l)
  PROVE  IInv'
<1>. USE MaxCmdAssumption DEF Count, Numbers
<1>. DEFINE p == l[1]
<1>1. TypeOK /\ BeliefsSound /\ p \in Nodes /\ l[2] \in Nodes
  BY LinksAssumption DEF IInv
<1>2. UNCHANGED <<matrix, command_to_exec, messages, status, packets, failures>>
  BY DEF RequestMessage
<1>3. CASE wire' = [wire EXCEPT ![l] = Idle]
  <2>1. /\ status' \in [Nodes -> {"work", "inviter"}] /\ failures' \in 0 .. MaxFailures
        /\ packets' \subseteq Packet /\ wire' \in [Links -> Wires]
    BY <1>1, <1>2, <1>3 DEF TypeOK, Wires, Idle
  <2>2. \A x \in Links : wire'[x] = wire[x] \/ wire'[x].phase = "idle"
    BY <1>1, <1>3 DEF TypeOK, Idle
  <2>. QED BY <1>2, <2>1, <2>2, TransportLemma DEF WireSound
<1>4. ASSUME NEW a \in Behind(p, l[2]), wire' = [wire EXCEPT ![l] = Asked(a, matrix[p][p][a])]
      PROVE  IInv'
  <2>1. /\ a \in Nodes /\ matrix[p][p][a] \in Numbers
        /\ matrix[p][p][a] < matrix[l[2]][l[2]][a]
    <3>1. a \in Nodes /\ matrix[p][p][a] < matrix[p][l[2]][a]
      BY DEF Behind
    <3>2. /\ matrix[p][p][a] \in 0 .. MaxCmd /\ matrix[p][l[2]][a] \in 0 .. MaxCmd
          /\ matrix[l[2]][l[2]][a] \in 0 .. MaxCmd
          /\ matrix[p][l[2]][a] <= matrix[l[2]][l[2]][a]
      BY <1>1, <3>1 DEF TypeOK, Matrix, Row, BeliefsSound
    <3>. QED BY <3>1, <3>2
  <2>2. Asked(a, matrix[p][p][a]) \in Wires
    BY <2>1 DEF Asked, Wires
  <2>3. /\ status' \in [Nodes -> {"work", "inviter"}] /\ failures' \in 0 .. MaxFailures
        /\ packets' \subseteq Packet /\ wire' \in [Links -> Wires]
    BY <1>1, <1>2, <1>4, <2>2 DEF TypeOK
  <2>4. ASSUME NEW x \in Links, wire'[x] # wire[x]
        PROVE  /\ wire'[x].phase \notin {"matrix", "reply"}
               /\ WireSound(x)'
    <3>1. x = l /\ wire'[x] = Asked(a, matrix[p][p][a])
      BY <1>1, <1>4, <2>4 DEF TypeOK
    <3>2. /\ wire'[x].phase = "asked" /\ wire'[x].author = a
          /\ wire'[x].number = matrix[p][p][a]
      BY <3>1 DEF Asked
    <3>. QED BY <1>2, <2>1, <3>1, <3>2 DEF WireSound
  <2>. QED BY <1>2, <2>3, <2>4, TransportLemma
<1>. QED BY <1>3, <1>4 DEF RequestMessage

LEMMA SendCommandLemma ==
  ASSUME IInv, NEW l \in Links, SendCommand(l)
  PROVE  IInv'
<1>1. TypeOK /\ WireSound(l) /\ l[2] \in Nodes
  BY LinksAssumption DEF IInv
<1>2. /\ wire[l].phase = "asked"
      /\ UNCHANGED <<matrix, command_to_exec, messages, status, packets, failures>>
  BY DEF SendCommand
<1>3. PICK m \in messages[l[2]] :
        /\ m.author = wire[l].author /\ m.number = wire[l].number
        /\ wire' = [wire EXCEPT ![l] = Reply(m)]
  BY DEF SendCommand
<1>4. m \in Msg /\ m \in AllMessages
  BY <1>1, AllMessagesLemma DEF TypeOK
<1>5. /\ status' \in [Nodes -> {"work", "inviter"}] /\ failures' \in 0 .. MaxFailures
      /\ packets' \subseteq Packet /\ wire' \in [Links -> Wires]
  BY <1>1, <1>2, <1>3, <1>4 DEF TypeOK, Wires, Reply
<1>6. ASSUME NEW x \in Links, wire'[x] # wire[x]
      PROVE  /\ wire'[x].phase = "reply" /\ wire'[x].msg \in AllMessages
             /\ WireSound(x)'
  <2>1. x = l /\ wire'[x] = Reply(m)
    BY <1>1, <1>3, <1>6 DEF TypeOK
  <2>2. wire'[x].phase = "reply" /\ wire'[x].msg = m
    BY <2>1 DEF Reply
  <2>. QED BY <1>1, <1>2, <1>3, <1>4, <2>1, <2>2 DEF WireSound
<1>. QED BY <1>2, <1>5, <1>6, TransportLemma

LEMMA GiveUpLemma ==
  ASSUME IInv, NEW l \in Links, CommandNotFound(l) \/ Disconnect(l)
  PROVE  IInv'
<1>1. TypeOK
  BY DEF IInv
<1>2. /\ wire' = [wire EXCEPT ![l] = Idle]
      /\ UNCHANGED <<matrix, command_to_exec, messages, status, packets>>
  BY DEF CommandNotFound, Disconnect
<1>3. failures' \in 0 .. MaxFailures
  BY <1>1, BoundsAssumption DEF CommandNotFound, Disconnect, TypeOK
<1>4. /\ status' \in [Nodes -> {"work", "inviter"}]
      /\ packets' \subseteq Packet /\ wire' \in [Links -> Wires]
  BY <1>1, <1>2 DEF TypeOK, Wires, Idle
<1>5. \A x \in Links : wire'[x] = wire[x] \/ wire'[x].phase = "idle"
  BY <1>1, <1>2 DEF TypeOK, Idle
<1>. QED BY <1>2, <1>3, <1>4, <1>5, TransportLemma DEF WireSound

(* The message that was asked for is not beyond the next one that is needed. *)
LEMMA AddCmdLemma ==
  ASSUME IInv, NEW l \in Links, AddCmd(l)
  PROVE  IInv'
<1>. USE MaxCmdAssumption DEF Count, Numbers
<1>. DEFINE p == l[1]
            m == wire[l].msg
<1>1. TypeOK /\ BeliefsSound /\ WireSound(l) /\ p \in Nodes
  BY LinksAssumption DEF IInv
<1>2. /\ wire[l].phase = "reply"
      /\ AddCmds(p, matrix[p], messages[p], {m})
      /\ wire' = [wire EXCEPT ![l] = Ready]
      /\ UNCHANGED <<command_to_exec, status, packets, failures>>
  BY DEF AddCmd
<1>3. m \in AllMessages /\ m \in Msg
  BY <1>1, <1>2, AllMessagesLemma, MessagesTyped
<1>4. /\ m.author \in Nodes /\ m.number \in Numbers
      /\ matrix[p][p][m.author] \in 0 .. MaxCmd
      /\ m.number <= matrix[p][p][m.author]
  BY <1>1, <1>2, <1>3 DEF Msg, TypeOK, Matrix, Row, WireSound
<1>5. \A x \in {m}, k \in Numbers :
        matrix[p][p][x.author] <= k /\ k < x.number => Stored({m}, x.author, k)
  BY <1>4
<1>6. /\ failures' \in 0 .. MaxFailures /\ wire' \in [Links -> Wires]
      /\ \A x \in Links : wire'[x] = wire[x] \/ wire'[x].phase \in {"idle", "ready"}
  BY <1>1, <1>2 DEF TypeOK, Wires, Ready
<1>7. matrix[p] \in Matrix /\ \A n, a \in Nodes : matrix[p][n][a] <= matrix[n][n][a]
  BY <1>1 DEF TypeOK, BeliefsSound
<1>8. {m} \in SUBSET AllMessages
  BY <1>3
<1>. HIDE DEF p, m
<1>. QED BY <1>1, <1>2, <1>5, <1>6, <1>7, <1>8, AbsorbLemma

-----------------------------------------------------------------------------
(* The theorems *)

LEMMA NextLemma == IInv /\ [Next]_vars => IInv'
<1>. SUFFICES ASSUME IInv, [Next]_vars PROVE IInv'
  OBVIOUS
<1>1. CASE UNCHANGED vars
  <2>1. TypeOK
    BY DEF IInv
  <2>2. UNCHANGED <<matrix, command_to_exec, messages, status, packets, wire, failures>>
    BY <1>1 DEF vars
  <2>. QED BY <2>1, <2>2, TransportLemma DEF TypeOK
<1>2. ASSUME NEW p \in Nodes, NodeStep(p) PROVE IInv'
  <2>1. ASSUME NEW depends, CreateCommand(p, depends) PROVE IInv'
    BY <2>1, CreateCommandLemma
  <2>2. CASE PendingCommands(p)
    BY <2>2, PendingCommandsLemma
  <2>3. CASE WriteOfflineInvite(p) \/ FinalizeInvitation(p)
    BY <2>3, StatusLemma
  <2>4. CASE WritePacket(p)
    BY <2>4, WritePacketLemma
  <2>5. ASSUME NEW pkt \in packets, ReadPacket(p, pkt) PROVE IInv'
    BY <2>5, ReadPacketLemma
  <2>. QED BY <1>2, <2>1, <2>2, <2>3, <2>4, <2>5 DEF NodeStep
<1>3. ASSUME NEW l \in Links, Transfer(l) \/ Disconnect(l) PROVE IInv'
  BY <1>3, WriteMatrixLemma, UpdateMatrixLemma, RequestMessageLemma, SendCommandLemma,
     GiveUpLemma, AddCmdLemma DEF Transfer
<1>. QED BY <1>1, <1>2, <1>3 DEF Next

(* The conjunction of the safety properties and of what makes them          *)
(* inductive holds in every reachable state, however many nodes, commands,  *)
(* packets and broken sessions there are, and whoever connects to whom.     *)
THEOREM Invariance == Spec => []IInv
BY InitLemma, NextLemma, PTL DEF Spec

(* Every variable keeps its type; in particular no author's counter passes  *)
(* the bound on commands that CreateCommand checks.                         *)
THEOREM TypeCorrectness == Spec => []TypeOK
<1>1. IInv => TypeOK
  BY DEF IInv
<1>. QED BY <1>1, Invariance, PTL

(* No matrix, wherever it is, credits a node with a command that it does    *)
(* not know: what remove_old_commands() reads in it may be out of date, but *)
(* it is never too optimistic.                                              *)
THEOREM BeliefsAreSound == Spec => []BeliefsSound
<1>1. IInv => BeliefsSound
  BY DEF IInv
<1>. QED BY <1>1, Invariance, PTL

(* remove_old_commands() never drops a command that a member still needs.   *)
THEOREM NothingIsLost == Spec => []NothingLost
<1>1. IInv => NothingLost
  BY DEF IInv
<1>. QED BY <1>1, Invariance, PTL

(* add_cmd() leaves no gaps and check_matrix() never has to make up a       *)
(* BAD MESSAGE.                                                             *)
THEOREM ThereAreNoGaps == Spec => []NoGaps
<1>1. IInv => NoGaps
  BY DEF IInv
<1>. QED BY <1>1, Invariance, PTL

(* command_to_exec() respects causality at every node.                      *)
THEOREM ExecutionIsCausal == Spec => []CausalExecution
<1>1. IInv => CausalExecution
  <2>. SUFFICES ASSUME IInv, NEW p \in Nodes, NEW q \in Nodes, NEW m \in messages[q],
                       m.number < command_to_exec[p][m.author]
                PROVE  m.depends \preceq command_to_exec[p]
    BY DEF CausalExecution
  <2>1. m \in AllMessages
    BY AllMessagesLemma
  <2>. QED BY <2>1 DEF IInv, MessagesSound
<1>. QED BY <1>1, Invariance, PTL

(* When get_message() fails on the server, the client already has what it   *)
(* asked for.                                                               *)
THEOREM NotFoundHarmsNobody == Spec => []NotFoundIsHarmless
<1>1. IInv => NotFoundIsHarmless
  <2>. SUFFICES ASSUME IInv, NEW l \in Links, wire[l].phase = "asked",
                       ~Stored(messages[l[2]], wire[l].author, wire[l].number)
                PROVE  wire[l].number < matrix[l[1]][l[1]][wire[l].author]
    BY DEF NotFoundIsHarmless
  <2>1. TypeOK /\ NothingLost /\ WireSound(l) /\ l[1] \in Nodes /\ l[2] \in Nodes
    BY LinksAssumption DEF IInv
  <2>2. wire[l].author \in Nodes /\ wire[l].number \in Numbers
    BY <2>1 DEF TypeOK, Wires
  <2>3. wire[l].number < matrix[l[2]][l[2]][wire[l].author]
    BY <2>1 DEF WireSound
  <2>4. ~(matrix[l[1]][l[1]][wire[l].author] <= wire[l].number)
    BY <2>1, <2>2, <2>3 DEF NothingLost
  <2>5. matrix[l[1]][l[1]][wire[l].author] \in 0 .. MaxCmd
    BY <2>1, <2>2 DEF TypeOK, Matrix, Row, Count
  <2>. QED BY <2>2, <2>4, <2>5, MaxCmdAssumption DEF Numbers
<1>. QED BY <1>1, Invariance, PTL

(* No step makes a node forget what it knew or executed, or what it knew    *)
(* that others know.                                                        *)
THEOREM KnowledgeOnlyGrows == Spec => KnowledgeGrows
<1>. DEFINE Grows == \A p, n, a \in Nodes :
                       /\ matrix[p][n][a] <= matrix'[p][n][a]
                       /\ command_to_exec[p][a] <= command_to_exec'[p][a]
<1>1. ASSUME IInv, [Next]_vars PROVE [Grows]_vars
  <2>1. /\ matrix \in [Nodes -> Matrix] /\ messages \in [Nodes -> SUBSET Msg]
        /\ command_to_exec \in [Nodes -> Row]
        /\ \A p, n, a \in Nodes : matrix[p][n][a] \in 0 .. MaxCmd
        /\ \A p, a \in Nodes : command_to_exec[p][a] \in 0 .. MaxCmd
    BY <1>1 DEF IInv, TypeOK, Matrix, Row, Count
  <2>. USE MaxCmdAssumption DEF Count
  <2>2. ASSUME UNCHANGED <<matrix, command_to_exec>> PROVE Grows
    BY <2>1, <2>2
  \* Absorbing a matrix and messages never lowers a cell.
  <2>3. ASSUME NEW p \in Nodes, NEW M \in Matrix, NEW T \in SUBSET AllMessages,
               \A n, a \in Nodes : matrix[p][n][a] <= M[n][a],
               AddCmds(p, M, messages[p], T), UNCHANGED command_to_exec
        PROVE  Grows
    <3>1. PICK row \in Row :
            /\ Advanced(M[p], Insert(messages[p], T), T, row)
            /\ matrix' = [matrix EXCEPT ![p] = [M EXCEPT ![p] = row]]
      BY <2>3 DEF AddCmds
    <3>2. T \in SUBSET Msg /\ M[p] \in Row /\ messages[p] \in SUBSET Msg
      BY <1>1, <2>1, MessagesTyped DEF IInv, Matrix
    <3>3. M[p] \preceq row
      BY <3>1, <3>2, AdvancedLemma
    <3>4. ASSUME NEW q \in Nodes, NEW n \in Nodes, NEW a \in Nodes
          PROVE  matrix[q][n][a] <= matrix'[q][n][a]
      <4>1. M[n][a] \in 0 .. MaxCmd /\ row[a] \in 0 .. MaxCmd
        BY DEF Matrix, Row
      <4>2. CASE q = p /\ n = p
        <5>1. matrix'[q][n] = row
          BY <2>1, <3>1, <4>2 DEF Matrix
        <5>. QED BY <2>1, <2>3, <3>3, <4>1, <4>2, <5>1 DEF \preceq
      <4>3. CASE q = p /\ n # p
        <5>1. matrix'[q][n] = M[n]
          BY <2>1, <3>1, <4>3 DEF Matrix
        <5>. QED BY <2>3, <4>3, <5>1
      <4>4. CASE q # p
        BY <2>1, <3>1, <4>4
      <4>. QED BY <4>2, <4>3, <4>4
    <3>. QED BY <2>1, <2>3, <3>4
  <2>4. ASSUME NEW p \in Nodes, NEW depends, CreateCommand(p, depends) PROVE Grows
    <3>1. /\ matrix' = [matrix EXCEPT ![p][p][p] = @ + 1]
          /\ UNCHANGED command_to_exec
      BY <2>4 DEF CreateCommand
    <3>2. ASSUME NEW q \in Nodes, NEW n \in Nodes, NEW a \in Nodes
          PROVE  matrix[q][n][a] <= matrix'[q][n][a]
      <4>1. matrix'[q][n][a] \in {matrix[q][n][a], matrix[q][n][a] + 1}
        BY <2>1, <3>1 DEF Matrix, Row
      <4>. QED BY <2>1, <4>1
    <3>. QED BY <2>1, <3>1, <3>2
  <2>5. ASSUME NEW p \in Nodes, PendingCommands(p) PROVE Grows
    <3>1. PICK exec \in Row :
            /\ ExecutesTo(messages[p], command_to_exec[p], exec)
            /\ command_to_exec' = [command_to_exec EXCEPT ![p] = exec]
      BY <2>5 DEF PendingCommands
    <3>2. command_to_exec[p] \preceq exec
      BY <3>1 DEF ExecutesTo, Stopped
    <3>3. UNCHANGED matrix
      BY <2>5 DEF PendingCommands
    <3>. QED BY <2>1, <3>1, <3>2, <3>3 DEF \preceq
  <2>6. ASSUME NEW p \in Nodes, NEW pkt \in packets, ReadPacket(p, pkt) PROVE Grows
    <3>. DEFINE M == Update(matrix[p], pkt.matrix)
    <3>1. pkt.matrix \in Matrix /\ \A n, a \in Nodes : pkt.matrix[n][a] <= matrix[n][n][a]
      BY <1>1 DEF IInv, TypeOK, Packet, BeliefsSound
    <3>2. M \in Matrix /\ M[p] = matrix[p][p]
      BY <1>1, <3>1, OwnRowLemma
    <3>3. \A n, a \in Nodes : matrix[p][n][a] <= M[n][a]
      BY <2>1, <3>1, UpdateLemma
    <3>4. PICK T \in FilePrefixes(pkt.messages) : AddCmds(p, M, messages[p], T)
      BY <1>1, <2>6, <3>2, CheckMatrixLemma DEF ReadPacket
    <3>5. T \in SUBSET AllMessages
      BY AllMessagesLemma DEF FilePrefixes
    <3>6. UNCHANGED command_to_exec
      BY <2>6 DEF ReadPacket
    <3>. QED BY <2>3, <3>2, <3>3, <3>4, <3>5, <3>6
  <2>7. ASSUME NEW l \in Links, UpdateMatrix(l) PROVE Grows
    <3>. DEFINE M == Update(matrix[l[1]], wire[l].matrix)
    <3>1. l[1] \in Nodes /\ wire[l].matrix \in Matrix
      BY <1>1, <2>7, LinksAssumption DEF UpdateMatrix, IInv, TypeOK, Wires
    <3>2. M \in Matrix /\ \A n, a \in Nodes : matrix[l[1]][n][a] <= M[n][a]
      BY <2>1, <3>1, UpdateLemma
    <3>3. matrix' = [matrix EXCEPT ![l[1]] = M] /\ UNCHANGED command_to_exec
      BY <2>1, <2>7, <3>1 DEF UpdateMatrix
    <3>4. ASSUME NEW q \in Nodes, NEW n \in Nodes, NEW a \in Nodes
          PROVE  matrix[q][n][a] <= matrix'[q][n][a]
      <4>1. CASE q = l[1]
        <5>1. matrix'[q] = M
          BY <2>1, <3>1, <3>3, <4>1
        <5>. QED BY <3>2, <4>1, <5>1
      <4>2. CASE q # l[1]
        BY <2>1, <3>3, <4>2
      <4>. QED BY <4>1, <4>2
    <3>. QED BY <2>1, <3>3, <3>4
  <2>8. ASSUME NEW l \in Links, AddCmd(l) PROVE Grows
    <3>1. l[1] \in Nodes /\ matrix[l[1]] \in Matrix
      BY <2>1, LinksAssumption
    <3>2. AddCmds(l[1], matrix[l[1]], messages[l[1]], {wire[l].msg}) /\ UNCHANGED command_to_exec
      BY <2>8 DEF AddCmd
    <3>3. {wire[l].msg} \in SUBSET AllMessages
      BY <2>8, AllMessagesLemma DEF AddCmd
    <3>4. \A n, a \in Nodes : matrix[l[1]][n][a] <= matrix[l[1]][n][a]
      BY <2>1, <3>1
    <3>. QED BY <2>3, <3>1, <3>2, <3>3, <3>4
  <2>9. ASSUME NEW p \in Nodes,
               WriteOfflineInvite(p) \/ FinalizeInvitation(p) \/ WritePacket(p)
        PROVE  Grows
    BY <2>2, <2>9 DEF WriteOfflineInvite, FinalizeInvitation, WritePacket
  <2>10. ASSUME NEW l \in Links,
                \/ WriteMatrix(l) \/ RequestMessage(l) \/ SendCommand(l)
                \/ CommandNotFound(l) \/ Disconnect(l)
         PROVE  Grows
    BY <2>2, <2>10 DEF WriteMatrix, RequestMessage, SendCommand, CommandNotFound, Disconnect
  <2>11. CASE UNCHANGED vars
    BY <2>11
  <2>. HIDE DEF Grows
  <2>12. ASSUME NEW p \in Nodes, NodeStep(p) PROVE Grows
    BY <2>4, <2>5, <2>6, <2>9, <2>12 DEF NodeStep
  <2>13. ASSUME NEW l \in Links, Transfer(l) \/ Disconnect(l) PROVE Grows
    BY <2>7, <2>8, <2>10, <2>13 DEF Transfer
  <2>. QED BY <1>1, <2>11, <2>12, <2>13 DEF Next
<1>2. Spec => [][Grows]_vars
  BY <1>1, Invariance, PTL DEF Spec
<1>. QED BY <1>2 DEF KnowledgeGrows

-----------------------------------------------------------------------------
(* Replication implements CausalBroadcast                                      *)

(* Wherever a copy of a command is, on paper, on the wire or on a node: if  *)
(* somebody still has to execute it, then some node stores it.              *)
LEMMA NeededIsStored ==
  ASSUME IInv, NEW m \in AllMessages, NEW q \in Nodes, command_to_exec[q][m.author] <= m.number
  PROVE  m \in StoredSomewhere
<1>. USE MaxCmdAssumption DEF Count, Numbers
<1>1. TypeOK /\ NothingLost /\ MessagesSound
  BY DEF IInv
<1>2. m.author \in Nodes /\ m.number \in Numbers
  BY <1>1, MessagesTyped DEF Msg
<1>3. m.number < matrix[m.author][m.author][m.author]
  BY <1>1 DEF MessagesSound, Created
<1>4. \A p \in Nodes : matrix[p][p][m.author] \in 0 .. MaxCmd
  BY <1>1, <1>2 DEF TypeOK, Matrix, Row
<1>5. \E p \in Nodes : Stored(messages[p], m.author, m.number)
  <2>1. CASE m.number < matrix[q][q][m.author]
    BY <1>1, <1>2, <2>1 DEF NothingLost
  <2>2. CASE ~(m.number < matrix[q][q][m.author])
    <3>1. matrix[q][q][m.author] <= m.number
      BY <1>2, <1>4, <2>2
    <3>. QED BY <1>1, <1>2, <1>3, <3>1 DEF NothingLost
  <2>. QED BY <2>1, <2>2
<1>6. PICK p \in Nodes : Stored(messages[p], m.author, m.number)
  BY <1>5
<1>7. PICK x \in messages[p] : x.author = m.author /\ x.number = m.number
  BY <1>6 DEF Stored
<1>8. x = m
  BY <1>1, <1>7, AllMessagesLemma DEF MessagesSound
<1>. QED BY <1>7, <1>8 DEF StoredSomewhere

(* Taking over messages does not show. *)
LEMMA AbsorbStutters ==
  ASSUME IInv, NEW p \in Nodes, NEW M \in Matrix, NEW T \in SUBSET AllMessages,
         M[p] = matrix[p][p], AddCmds(p, M, messages[p], T),
         UNCHANGED command_to_exec
  PROVE  UNCHANGED Abstract!vars
<1>. USE MaxCmdAssumption DEF Count, Numbers
<1>. DEFINE S == Insert(messages[p], T)
<1>1. PICK row \in Row :
        /\ Advanced(M[p], S, T, row)
        /\ matrix' = [matrix EXCEPT ![p] = [M EXCEPT ![p] = row]]
        /\ messages' = [messages EXCEPT ![p] = S]
  BY DEF AddCmds
<1>2. TypeOK /\ MessagesSound
  BY DEF IInv
<1>3. /\ T \in SUBSET Msg /\ messages \in [Nodes -> SUBSET Msg] /\ messages[p] \in SUBSET Msg
      /\ matrix \in [Nodes -> Matrix] /\ matrix[p][p] \in Row
  BY <1>2, MessagesTyped DEF TypeOK, Matrix
<1>4. /\ S \in SUBSET Msg /\ messages[p] \subseteq S /\ S \subseteq messages[p] \cup T
  BY <1>3, InsertLemma
<1>5. S \subseteq AllMessages
  BY <1>4, AllMessagesLemma
<1>6. /\ matrix[p][p] \preceq row
      /\ \A a \in Nodes, k \in Numbers :
           matrix[p][p][a] <= k /\ k < row[a] => Stored(S, a, k)
  BY <1>1, <1>3, AdvancedLemma
<1>7. ASSUME NEW a \in Nodes PROVE Created(a)' = Created(a)
  <2>1. CASE a # p
    BY <1>1, <1>3, <2>1 DEF Created
  <2>2. CASE a = p
    <3>1. row[p] \in 0 .. MaxCmd /\ matrix[p][p][p] \in 0 .. MaxCmd /\ matrix[p][p][p] <= row[p]
      BY <1>3, <1>6 DEF Row, \preceq
    <3>2. Created(p)' = row[p] /\ Created(p) = matrix[p][p][p]
      BY <1>1, <1>3 DEF Created, Matrix
    <3>3. SUFFICES ASSUME matrix[p][p][p] < row[p] PROVE FALSE
      BY <2>2, <3>1, <3>2
    <3>4. PICK m \in S : m.author = p /\ m.number = matrix[p][p][p]
      BY <1>6, <3>1, <3>3 DEF Stored
    <3>5. m.number < Created(m.author)
      BY <1>2, <1>5 DEF MessagesSound
    <3>. QED BY <3>1, <3>2, <3>4, <3>5
  <2>. QED BY <2>1, <2>2
<1>8. /\ messages'[p] = S
      /\ \A q \in Nodes \ {p} : messages'[q] = messages[q]
  BY <1>1, <1>3
<1>9. ASSUME NEW m \in StillNeeded' PROVE m \in StillNeeded
  <2>1. PICK q \in Nodes : m \in messages'[q]
    BY DEF StillNeeded, StoredSomewhere
  <2>2. m \in AllMessages
    BY <1>5, <1>8, <2>1, AllMessagesLemma
  <2>3. PICK r \in Nodes : command_to_exec[r][m.author] <= m.number
    BY DEF StillNeeded
  <2>. QED BY <2>2, <2>3, NeededIsStored DEF StillNeeded
<1>10. ASSUME NEW m \in StillNeeded PROVE m \in StillNeeded'
  BY <1>4, <1>8 DEF StillNeeded, StoredSomewhere
<1>11. StillNeeded' = StillNeeded
  BY <1>9, <1>10
<1>12. [a \in Nodes |-> Created(a)]' = [a \in Nodes |-> Created(a)]
  BY <1>7
<1>. QED BY <1>11, <1>12 DEF Abstract!vars

LEMMA CreateCommandCreates ==
  ASSUME IInv, NEW p \in Nodes, NEW depends, CreateCommand(p, depends)
  PROVE  Abstract!Create(p, depends)
<1>. USE MaxCmdAssumption DEF Count, Numbers
<1>. DEFINE c   == matrix[p][p][p]
            new == NewMsg(p, depends)
<1>1. TypeOK /\ MessagesSound /\ command_to_exec[p] \preceq matrix[p][p]
  BY DEF IInv
<1>2. /\ p \in Authors /\ c < MaxCmd
      /\ depends \in {command_to_exec[p], ZeroRow}
      /\ matrix' = [matrix EXCEPT ![p][p][p] = @ + 1]
      /\ messages' = [messages EXCEPT ![p] = Insert(@, {new})]
      /\ UNCHANGED command_to_exec
  BY DEF CreateCommand
<1>3. /\ matrix \in [Nodes -> [Nodes -> [Nodes -> 0 .. MaxCmd]]]
      /\ messages \in [Nodes -> SUBSET Msg]
      /\ command_to_exec[p][p] \in 0 .. MaxCmd
  BY <1>1 DEF TypeOK, Matrix, Row
<1>4. \A a \in Nodes : Created(a)' = IF a = p THEN Created(a) + 1 ELSE Created(a)
  BY <1>2, <1>3 DEF Created
<1>5. [a \in Nodes |-> Created(a)]' = [[a \in Nodes |-> Created(a)] EXCEPT ![p] = @ + 1]
  BY <1>4
<1>6. new.author = p /\ new.number = c /\ new = Abstract!Command(p, depends)
  BY DEF NewMsg, Abstract!Command, Created
<1>7. ~Stored(messages[p], p, c)
  <2>. SUFFICES ASSUME NEW m \in messages[p], m.author = p, m.number = c PROVE FALSE
    BY DEF Stored
  <2>1. m \in AllMessages
    BY AllMessagesLemma
  <2>2. m.number < c
    BY <1>1, <2>1 DEF MessagesSound, Created
  <2>. QED BY <1>3, <2>2
<1>8. /\ messages'[p] = messages[p] \cup {new}
      /\ \A q \in Nodes \ {p} : messages'[q] = messages[q]
  BY <1>2, <1>3, <1>6, <1>7 DEF Insert
<1>9. StoredSomewhere' = StoredSomewhere \cup {new}
  <2>1. ASSUME NEW m \in StoredSomewhere' PROVE m \in StoredSomewhere \cup {new}
    BY <1>8 DEF StoredSomewhere
  <2>2. ASSUME NEW m \in StoredSomewhere \cup {new} PROVE m \in StoredSomewhere'
    BY <1>8 DEF StoredSomewhere
  <2>. QED BY <2>1, <2>2
<1>10. command_to_exec[p][new.author] <= new.number
  BY <1>1, <1>3, <1>6 DEF \preceq
<1>11. StillNeeded' = StillNeeded \cup {new}
  BY <1>2, <1>9, <1>10 DEF StillNeeded
<1>12. [a \in Nodes |-> Created(a)][p] < MaxCmd
  BY <1>2 DEF Created
<1>. QED BY <1>2, <1>5, <1>6, <1>11, <1>12 DEF Abstract!Create, Abstract!ZeroRow, ZeroRow

(* Executing pending commands executes, unless there is nothing to execute; *)
(* what is forgotten at the same time was not needed any more.              *)
LEMMA PendingCommandsExecute ==
  ASSUME IInv, NEW p \in Nodes, PendingCommands(p)
  PROVE  Abstract!Execute(p) \/ UNCHANGED Abstract!vars
<1>. USE MaxCmdAssumption DEF Count, Numbers
<1>1. TypeOK /\ BeliefsSound /\ NothingLost /\ MessagesSound
      /\ \A q \in Nodes : command_to_exec[q] \preceq matrix[q][q]
  BY DEF IInv
<1>2. PICK exec \in Row :
        /\ ExecutesTo(messages[p], command_to_exec[p], exec)
        /\ command_to_exec' = [command_to_exec EXCEPT ![p] = exec]
        /\ messages' = [messages EXCEPT ![p] = RemoveOldCommands(p, exec)]
  BY DEF PendingCommands
<1>3. UNCHANGED matrix
  BY DEF PendingCommands
<1>4. /\ \A q, a \in Nodes : command_to_exec[q][a] \in 0 .. MaxCmd
      /\ \A q, n, a \in Nodes : matrix[q][n][a] \in 0 .. MaxCmd
      /\ command_to_exec \in [Nodes -> Row] /\ command_to_exec[p] \in Row
      /\ messages \in [Nodes -> SUBSET Msg] /\ messages[p] \in SUBSET Msg
  BY <1>1 DEF TypeOK, Matrix, Row
<1>5. /\ command_to_exec'[p] = exec
      /\ \A q \in Nodes \ {p} : command_to_exec'[q] = command_to_exec[q]
      /\ messages'[p] = RemoveOldCommands(p, exec)
      /\ \A q \in Nodes \ {p} : messages'[q] = messages[q]
  BY <1>2, <1>4
<1>6. command_to_exec[p] \preceq exec
  BY <1>2 DEF ExecutesTo, Stopped
<1>7. \A q, a \in Nodes : /\ command_to_exec'[q][a] \in 0 .. MaxCmd
                          /\ command_to_exec[q][a] <= command_to_exec'[q][a]
  <2>1. \A a \in Nodes : exec[a] \in 0 .. MaxCmd /\ command_to_exec[p][a] <= exec[a]
    BY <1>6 DEF Row, \preceq
  <2>. QED BY <1>4, <1>5, <2>1
<1>8. ASSUME NEW a \in Nodes, NEW k \in Numbers, command_to_exec[p][a] <= k, k < exec[a]
      PROVE  \E m \in StillNeeded : m.author = a /\ m.number = k /\ m.depends \preceq exec
  <2>1. command_to_exec[p] \in Row /\ messages[p] \in SUBSET Msg
    BY <1>4
  <2>2. ExecutesTo(messages[p], command_to_exec[p], exec)
    BY <1>2
  <2>. HIDE MaxCmdAssumption DEF Count, Numbers
  <2>3. PICK m \in messages[p] : m.author = a /\ m.number = k /\ m.depends \preceq exec
    BY <1>8, <2>1, <2>2, ExecutesToLemma
  <2>. QED BY <1>8, <2>3 DEF StillNeeded, StoredSomewhere
<1>9. \A m \in StoredSomewhere : m.author \in Nodes /\ m.number \in Numbers
  BY <1>4 DEF StoredSomewhere, Msg
<1>10. StillNeeded' = Abstract!Unexecuted(StillNeeded, command_to_exec')
  <2>1. ASSUME NEW m \in StillNeeded'
        PROVE  m \in StillNeeded /\ \E q \in Nodes : command_to_exec'[q][m.author] <= m.number
    <3>1. m \in StoredSomewhere
      BY <1>5 DEF StillNeeded, StoredSomewhere, RemoveOldCommands
    <3>2. PICK q \in Nodes : command_to_exec'[q][m.author] <= m.number
      BY DEF StillNeeded
    <3>3. command_to_exec[q][m.author] <= m.number
      BY <1>4, <1>7, <1>9, <3>1, <3>2
    <3>. QED BY <3>1, <3>2, <3>3 DEF StillNeeded
  <2>2. ASSUME NEW m \in StillNeeded, NEW q \in Nodes, command_to_exec'[q][m.author] <= m.number
        PROVE  m \in StillNeeded'
    \* If p drops it, then p has executed it and everybody knows it: q stores it.
    <3>1. PICK r \in Nodes : m \in messages[r]
      BY DEF StillNeeded, StoredSomewhere
    <3>2. m \in StoredSomewhere /\ m \in AllMessages
      BY <3>1, AllMessagesLemma DEF StoredSomewhere
    <3>3. CASE r = p /\ m \notin messages'[p]
      <4>1. Old(m, matrix[p], exec)
        BY <1>5, <3>1, <3>3 DEF RemoveOldCommands
      <4>2. q # p
        BY <1>5, <1>7, <1>9, <2>2, <3>2, <4>1 DEF Old
      <4>3. m.number < matrix[p][q][m.author] /\ matrix[p][q][m.author] <= matrix[q][q][m.author]
        BY <1>1, <1>9, <3>2, <4>1 DEF Old, BeliefsSound
      <4>4. Stored(messages[q], m.author, m.number)
        BY <1>1, <1>4, <1>5, <1>9, <2>2, <3>2, <4>2, <4>3 DEF NothingLost
      <4>5. PICK x \in messages[q] : x.author = m.author /\ x.number = m.number
        BY <4>4 DEF Stored
      <4>6. x = m
        BY <1>1, <3>2, <4>5, AllMessagesLemma DEF MessagesSound
      <4>. QED BY <1>5, <2>2, <4>2, <4>5, <4>6 DEF StillNeeded, StoredSomewhere
    <3>4. CASE ~(r = p /\ m \notin messages'[p])
      BY <1>5, <2>2, <3>1, <3>4 DEF StillNeeded, StoredSomewhere
    <3>. QED BY <3>3, <3>4
  <2>. QED BY <2>1, <2>2 DEF Abstract!Unexecuted
<1>11. [a \in Nodes |-> Created(a)]' = [a \in Nodes |-> Created(a)]
  BY <1>3 DEF Created
<1>12. CASE exec = command_to_exec[p]
  <2>1. command_to_exec' = command_to_exec
    BY <1>2, <1>4, <1>12
  <2>2. Abstract!Unexecuted(StillNeeded, command_to_exec) = StillNeeded
    BY DEF Abstract!Unexecuted, StillNeeded
  <2>. QED BY <1>10, <1>11, <2>1, <2>2 DEF Abstract!vars
<1>13. CASE exec # command_to_exec[p]
  <2>1. Abstract!CanReach(p, exec)
    BY <1>6, <1>8 DEF Abstract!CanReach, Abstract!\preceq, \preceq, Abstract!Numbers
  <2>. QED BY <1>2, <1>10, <1>11, <1>13, <2>1 DEF Abstract!Execute, Abstract!Row, Row, Abstract!Count
<1>. QED BY <1>12, <1>13

LEMMA InitAbstract == Init => Abstract!Init
<1>. SUFFICES ASSUME Init PROVE Abstract!Init
  OBVIOUS
<1>1. [a \in Nodes |-> Created(a)] = ZeroRow
  BY DEF Init, Created, ZeroMatrix, ZeroRow
<1>2. StillNeeded = {}
  BY DEF Init, StillNeeded, StoredSomewhere
<1>. QED BY <1>1, <1>2 DEF Init, Abstract!Init, Abstract!ZeroRow, ZeroRow

LEMMA NextAbstract == IInv /\ [Next]_vars => [Abstract!Next]_(Abstract!vars)
<1>. SUFFICES ASSUME IInv, [Next]_vars PROVE Abstract!Next \/ UNCHANGED Abstract!vars
  OBVIOUS
\* What does not touch the nodes does not show.
<1>1. ASSUME UNCHANGED <<matrix, command_to_exec, messages>> PROVE UNCHANGED Abstract!vars
  BY <1>1 DEF Abstract!vars, Created, StillNeeded, StoredSomewhere
<1>2. CASE UNCHANGED vars
  BY <1>1, <1>2 DEF vars
<1>3. ASSUME NEW p \in Nodes, NodeStep(p) PROVE Abstract!Next \/ UNCHANGED Abstract!vars
  <2>1. ASSUME NEW depends \in {command_to_exec[p], ZeroRow}, CreateCommand(p, depends)
        PROVE  Abstract!Next
    <3>1. Abstract!Create(p, depends)
      BY <2>1, CreateCommandCreates
    <3>2. depends \in {command_to_exec[p], Abstract!ZeroRow}
      BY DEF ZeroRow, Abstract!ZeroRow
    <3>. QED BY <3>1, <3>2 DEF Abstract!Next
  <2>2. CASE PendingCommands(p)
    BY <2>2, PendingCommandsExecute DEF Abstract!Next
  <2>3. CASE WriteOfflineInvite(p) \/ FinalizeInvitation(p) \/ WritePacket(p)
    BY <1>1, <2>3 DEF WriteOfflineInvite, FinalizeInvitation, WritePacket
  <2>4. ASSUME NEW pkt \in packets, ReadPacket(p, pkt) PROVE UNCHANGED Abstract!vars
    <3>. DEFINE M == Update(matrix[p], pkt.matrix)
    <3>1. pkt.matrix \in Matrix /\ \A n, a \in Nodes : pkt.matrix[n][a] <= matrix[n][n][a]
      BY DEF IInv, TypeOK, Packet, BeliefsSound
    <3>2. M \in Matrix /\ M[p] = matrix[p][p]
      BY <3>1, OwnRowLemma
    <3>3. PICK T \in FilePrefixes(pkt.messages) : AddCmds(p, M, messages[p], T)
      BY <2>4, <3>2, CheckMatrixLemma DEF ReadPacket
    <3>4. T \in SUBSET AllMessages
      BY AllMessagesLemma DEF FilePrefixes
    <3>5. UNCHANGED command_to_exec
      BY <2>4 DEF ReadPacket
    <3>. QED BY <3>2, <3>3, <3>4, <3>5, AbsorbStutters
  <2>. QED BY <1>3, <2>1, <2>2, <2>3, <2>4 DEF NodeStep
<1>4. ASSUME NEW l \in Links, Transfer(l) \/ Disconnect(l) PROVE UNCHANGED Abstract!vars
  <2>1. l[1] \in Nodes /\ TypeOK
    BY LinksAssumption DEF IInv
  <2>2. CASE UpdateMatrix(l)
    <3>. DEFINE p == l[1]
                M == Update(matrix[p], wire[l].matrix)
    <3>1. wire[l].phase = "matrix" /\ matrix' = [matrix EXCEPT ![p] = M]
          /\ UNCHANGED <<command_to_exec, messages>>
      BY <2>1, <2>2 DEF UpdateMatrix, TypeOK
    <3>2. /\ wire[l].matrix \in Matrix
          /\ \A n, a \in Nodes : wire[l].matrix[n][a] <= matrix[n][n][a]
      BY <2>1, <3>1 DEF IInv, TypeOK, Wires, BeliefsSound
    <3>3. M \in Matrix /\ M[p] = matrix[p][p]
      BY <2>1, <3>2, OwnRowLemma
    <3>4. \A a \in Nodes : Created(a)' = Created(a)
      BY <2>1, <3>1, <3>3 DEF Created, TypeOK
    <3>. QED BY <3>1, <3>4 DEF Abstract!vars, StillNeeded, StoredSomewhere
  <2>3. CASE AddCmd(l)
    <3>1. /\ matrix[l[1]] \in Matrix
          /\ {wire[l].msg} \in SUBSET AllMessages
          /\ AddCmds(l[1], matrix[l[1]], messages[l[1]], {wire[l].msg})
          /\ UNCHANGED command_to_exec
      BY <2>1, <2>3, AllMessagesLemma DEF AddCmd, TypeOK
    <3>. QED BY <2>1, <3>1, AbsorbStutters
  <2>4. CASE \/ WriteMatrix(l) \/ RequestMessage(l) \/ SendCommand(l)
             \/ CommandNotFound(l) \/ Disconnect(l)
    BY <1>1, <2>4 DEF WriteMatrix, RequestMessage, SendCommand, CommandNotFound, Disconnect
  <2>. QED BY <1>4, <2>2, <2>3, <2>4 DEF Transfer
<1>. QED BY <1>2, <1>3, <1>4 DEF Next

(* As far as execution is concerned, the nodes with their matrices, packets *)
(* and sessions behave like causal broadcast.                               *)
THEOREM Refinement == Spec => ImplementsCausalBroadcast
BY InitAbstract, NextAbstract, Invariance, PTL
   DEF Spec, ImplementsCausalBroadcast, Abstract!Spec

(* A command that some node has not executed is stored by some node: by the  *)
(* one that has not executed it, or else, if that one does not know it, by   *)
(* its author.                                                               *)
LEMMA CreatedIsStored ==
  ASSUME IInv, NEW a \in Nodes, NEW k \in Numbers, NEW p \in Nodes,
         k < Created(a), command_to_exec[p][a] <= k
  PROVE  \E m \in StillNeeded : m.author = a /\ m.number = k
<1>1. TypeOK /\ NothingLost
  BY DEF IInv
<1>2. matrix[p][p][a] \in Int /\ k \in Int
  BY <1>1, MaxCmdAssumption DEF TypeOK, Matrix, Row, Count, Numbers
<1>3. \E q \in Nodes : Stored(messages[q], a, k)
  <2>1. CASE k < matrix[p][p][a]
    BY <1>1, <2>1 DEF NothingLost
  <2>2. CASE matrix[p][p][a] <= k
    BY <1>1, <2>2 DEF NothingLost, Created
  <2>. QED BY <1>2, <2>1, <2>2
<1>4. PICK m \in StoredSomewhere : m.author = a /\ m.number = k
  BY <1>3 DEF Stored, StoredSomewhere
<1>. QED BY <1>4 DEF StillNeeded

(* All copies of a command that some node has not executed are the same, and *)
(* there is one; nobody keeps one that all nodes have executed               *)
(* (remove_old_commands(), add_cmd()).                                       *)
THEOREM PendingExact == Spec => []PendingIsExact
<1>1. ASSUME IInv PROVE PendingIsExact
  <2>. SUFFICES ASSUME NEW a \in Nodes, NEW k \in Numbers
                PROVE  LET copies == {m \in StillNeeded : m.author = a /\ m.number = k}
                       IN  IF k < Created(a) /\ \E p \in Nodes : command_to_exec[p][a] <= k
                           THEN \E m \in StillNeeded : copies = {m}
                           ELSE copies = {}
    BY DEF PendingIsExact, Abstract!PendingIsExact, Abstract!Numbers, Numbers
  <2>. DEFINE copies == {m \in StillNeeded : m.author = a /\ m.number = k}
  <2>1. MessagesSound /\ StillNeeded \subseteq AllMessages
    BY <1>1, AllMessagesLemma DEF IInv, StillNeeded, StoredSomewhere
  <2>2. CASE k < Created(a) /\ \E p \in Nodes : command_to_exec[p][a] <= k
    <3>1. PICK m \in StillNeeded : m.author = a /\ m.number = k
      BY <1>1, <2>2, CreatedIsStored
    <3>2. \A x \in copies : x = m
      BY <2>1, <3>1 DEF MessagesSound
    <3>3. copies = {m}
      BY <3>1, <3>2
    <3>. QED BY <2>2, <3>1, <3>3
  <2>3. CASE ~(k < Created(a) /\ \E p \in Nodes : command_to_exec[p][a] <= k)
    <3>1. \A m \in StillNeeded : m.number < Created(m.author)
      BY <2>1 DEF MessagesSound
    <3>2. copies = {}
      BY <2>3, <3>1 DEF StillNeeded
    <3>. QED BY <2>3, <3>2
  <2>. QED BY <2>2, <2>3
<1>. QED BY <1>1, Invariance, PTL

(* What is proved about CausalBroadcast holds of what Replication shows.     *)
Broadcast == INSTANCE CausalBroadcast_proofs WITH
  created  <- [a \in Nodes |-> Created(a)],
  executed <- command_to_exec,
  pending  <- StillNeeded

(* Dependencies never block each other: whatever was lost, repaired and      *)
(* forgotten, a node that has not executed every command finds one, stored   *)
(* somewhere, that execute_commands() could execute there at once.           *)
THEOREM NobodyBlocks == Spec => []NoCausalDeadlock
<1>1. Nodes \subseteq Nat /\ Nodes # {} /\ Broadcast!IsFiniteSet(Nodes) /\ MaxCmd \in Nat
  BY NodesAssumption, MaxCmdAssumption DEF IsFiniteSet, Broadcast!IsFiniteSet
<1>2. Broadcast!Spec => []Broadcast!NoCausalDeadlock
  BY <1>1, Broadcast!NobodyWaitsForEver
<1>3. Abstract!Init <=> Broadcast!Init
  BY DEF Abstract!Init, Broadcast!Init, Abstract!ZeroRow, Broadcast!ZeroRow
<1>4. [Abstract!Next]_(Abstract!vars) <=> [Broadcast!Next]_(Broadcast!vars)
  <2>1. UNCHANGED Abstract!vars <=> UNCHANGED Broadcast!vars
    BY DEF Abstract!vars, Broadcast!vars
  <2>2. Abstract!ZeroRow = Broadcast!ZeroRow
    BY DEF Abstract!ZeroRow, Broadcast!ZeroRow
  <2>3. ASSUME NEW a \in Nodes, NEW depends
        PROVE  Abstract!Create(a, depends) <=> Broadcast!Create(a, depends)
    BY <2>2 DEF Abstract!Create, Broadcast!Create, Abstract!Command, Broadcast!Command
  <2>4. ASSUME NEW p \in Nodes
        PROVE  Abstract!Execute(p) <=> Broadcast!Execute(p)
    BY DEF Abstract!Execute, Broadcast!Execute, Abstract!CanReach, Broadcast!CanReach,
           Abstract!Unexecuted, Broadcast!Unexecuted, Abstract!\preceq, Broadcast!\preceq,
           Abstract!Row, Broadcast!Row, Abstract!Count, Broadcast!Count,
           Abstract!Numbers, Broadcast!Numbers
  <2>5. Abstract!Next <=> Broadcast!Next
    BY <2>2, <2>3, <2>4, Zenon DEF Abstract!Next, Broadcast!Next
  <2>. QED BY <2>1, <2>5
<1>5. Broadcast!NoCausalDeadlock <=> NoCausalDeadlock
  BY DEF Broadcast!NoCausalDeadlock, NoCausalDeadlock, Abstract!NoCausalDeadlock,
         Broadcast!Executable, Abstract!Executable, Broadcast!\preceq, Abstract!\preceq
<1>. QED BY <1>2, <1>3, <1>4, <1>5, Refinement, PTL
         DEF ImplementsCausalBroadcast, Abstract!Spec, Broadcast!Spec
=============================================================================
