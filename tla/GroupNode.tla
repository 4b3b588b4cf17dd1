----------------------------- MODULE GroupNode ------------------------------
(* A node of a group whose members change: what it stores (core.h), and the   *)
(* pure parts of what class Core does with it.  A row is a function of the     *)
(* members, which module MatrixIndex shows the vectors of the code to be.      *)
(* The group has one file, in a directory of its own; its contents are 1, 2,   *)
(* ... in the order the user writes them, and 0 means that there is none.      *)
EXTENDS Integers, FiniteSets, FiniteSetsExt, Functions

CONSTANT NoId       \* a cleared UUID; a null pointer to a node

Members(n) == DOMAIN n.nodes
Row(n) == n.nodes[n.my_id].row
Number(n) == Row(n)[n.my_id]

Blank == [status |-> "uninitialized", my_id |-> NoId, nodes |-> <<>>, messages |-> {},
          state |-> {}, log |-> {}, disk |-> 0, filenames |-> FALSE,
          valid_node |-> FALSE, invite_id |-> 0]

need_initialize(n) == n.status \in {"uninitialized", "part_init"}

-----------------------------------------------------------------------------
(* Matrix::resize(), del() and update()                                       *)

\* A slip: a new node is thought to know what its welcomer has told of itself.
ResizeFull(nodes, id, from) ==
    LET all == DOMAIN nodes \cup {id}
        cell(i, j) == IF j \notin DOMAIN nodes THEN 0
                      ELSE IF i \in DOMAIN nodes THEN nodes[i].row[j]
                      ELSE nodes[j].row[j]
    IN  [i \in all |->
            [row |-> [j \in all |-> cell(i, j)],
             command_to_exec |->
                 IF i \in DOMAIN nodes THEN nodes[i].command_to_exec ELSE 0]]

Resize(nodes, id, from) ==
    LET all == DOMAIN nodes \cup {id}
        cell(i, j) == IF j \notin DOMAIN nodes THEN 0
                      ELSE IF i \in DOMAIN nodes THEN nodes[i].row[j]
                      ELSE IF from = NoId THEN 0 ELSE nodes[from].row[j]
    IN  [i \in all |->
            [row |-> [j \in all |-> cell(i, j)],
             command_to_exec |->
                 IF i \in DOMAIN nodes THEN nodes[i].command_to_exec ELSE 0]]

Del(nodes, id) ==
    [i \in DOMAIN nodes \ {id} |->
        [nodes[i] EXCEPT !.row = Restrict(@, DOMAIN nodes \ {id})]]

Update(nodes, src) ==
    [i \in DOMAIN nodes |->
        IF i \notin DOMAIN src THEN nodes[i]
        ELSE [nodes[i] EXCEPT !.row = [j \in DOMAIN @ |->
                 IF j \in DOMAIN src THEN Max({@[j], src[i].row[j]}) ELSE @[j]]]]

-----------------------------------------------------------------------------
(* Commands                                                                   *)

Stored(n, a, k) == \E m \in n.messages : m.author = a /\ m.number = k

Rank(S, x) == Cardinality({y \in S : y < x})

\* The i-th command that n will create, counted from 0, when the others do not change
\* what is executed.
new_command(n, name, val, i, add_depends) ==
    [author |-> n.my_id, number |-> Number(n) + i, name |-> name, val |-> val,
     depends |-> [j \in IF add_depends THEN Members(n) ELSE {} |-> n.nodes[j].command_to_exec]]

WithNew(n, cmds) == [n EXCEPT !.messages = @ \cup cmds,
                              !.nodes[n.my_id].row[n.my_id] = @ + Cardinality(cmds)]

create_command(n, name, val, add_depends) ==
    IF n.status \notin {"work", "inviter"} THEN n
    ELSE WithNew(n, {new_command(n, name, val, 0, add_depends)})

\* The loop at the end of add_cmd().
FirstMissing(S, a, c) ==
    Min({k \in c .. c + Cardinality(S) : ~\E x \in S : x.author = a /\ x.number = k})

\* add_cmd() for each of cmds.  Commands of an author that is no member are refused; the
\* counter of the others goes up to the first command that is missing.
add_cmd(n, cmds) ==
    LET known == {m \in cmds : m.author \in Members(n)}
        all == n.messages \cup {m \in known : ~Stored(n, m.author, m.number)}
    IN  [n EXCEPT !.messages = all,
                  !.nodes[n.my_id].row = [a \in DOMAIN @ |->
                      IF \E m \in known : m.author = a THEN FirstMissing(all, a, @[a]) ELSE @[a]]]

\* A file is written over whatever is there, also when its command is known.
after_read(n, cmds, content) ==
    IF \E m \in cmds : m.name = "addfile" THEN [n EXCEPT !.disk = content] ELSE n

\* What after_write() throws at: the file of the command is not there any more.
Unsendable(n, m) == m.name = "addfile" /\ n.disk = 0

command_to_exec(n) ==
    {m \in n.messages :
        /\ m.author \in Members(n)
        /\ n.nodes[m.author].command_to_exec = m.number
        /\ \A i \in DOMAIN m.depends \cap Members(n) :
               m.depends[i] <= n.nodes[i].command_to_exec}

del_self(n) == [n EXCEPT !.status = "deleted"]

exec_addnode(n, id) ==
    IF id \notin Members(n) THEN [n EXCEPT !.nodes = Resize(@, id, NoId)]
    ELSE IF id # n.my_id THEN n
    ELSE IF ~n.valid_node THEN [n EXCEPT !.valid_node = TRUE]
    ELSE [n EXCEPT !.status = "uninitialized"]      \* "Node UUID collision found"

exec_delnode(n, id) == IF id = n.my_id THEN [n EXCEPT !.status = "deleting"] ELSE n

\* The log says which nodes can be switched off; node_alive() looks there.
exec_delnoderecord(n, id) ==
    LET gone == IF id = n.my_id THEN del_self(n) ELSE [n EXCEPT !.nodes = Del(@, id)]
    IN  [gone EXCEPT !.log = @ \cup {id}]

exec_addfile(n) == [n EXCEPT !.filenames = TRUE]

exec(n, m) ==
    CASE m.name = "addnode" -> exec_addnode(n, m.val)
      [] m.name = "delnode" -> exec_delnode(n, m.val)
      [] m.name = "delnoderecord" -> exec_delnoderecord(n, m.val)
      [] m.name = "addfile" -> exec_addfile(n)
      [] m.name \in {"delfile", "deldir"} -> n      \* see before_delete_message()
      [] m.name = "other" -> [n EXCEPT !.state = @ \cup {<<m.author, m.number>>}]

mark_as_executed(n, m) ==
    IF m.author \notin Members(n) THEN n
    ELSE [n EXCEPT !.nodes[m.author].command_to_exec = @ + 1]

-----------------------------------------------------------------------------
(* Forgetting a command that everybody knows                                  *)

\* A slip: the other node with the last UUID is not asked.
LevelWithoutLast(n, a) ==
    Min({n.nodes[i].row[a] : i \in Members(n) \ {Max(Members(n) \ {n.my_id})}}
            \cup {n.nodes[a].command_to_exec})

Level(n, a) == Min({n.nodes[i].row[a] : i \in Members(n)} \cup {n.nodes[a].command_to_exec})

Forgettable(n) == {m \in n.messages : m.author \notin Members(n) \/ m.number < Level(n, m.author)}

Before(x, m) == \/ x.author < m.author
                \/ x.author = m.author /\ x.number < m.number

\* When a delnode is forgotten everybody knows it: now the record may go.
bdm_delnode(n, cmds) ==
    LET told == {m \in cmds : /\ m.name = "delnode"
                              /\ m.val = n.my_id => Cardinality(Members(n)) = 1}
    IN  WithNew(n, {new_command(n, "delnoderecord", m.val,
                       Cardinality({x \in told : Before(x, m)}), TRUE) : m \in told})

bdm_delfile(n, cmds) == IF \E m \in cmds : m.name = "delfile"
                        THEN [n EXCEPT !.disk = 0, !.filenames = FALSE] ELSE n
bdm_deldir(n, cmds) == IF \E m \in cmds : m.name = "deldir"
                       THEN [n EXCEPT !.disk = 0] ELSE n

\* A slip: only the node that has typed delfile removes the file.
before_delete_message_of_self(n, cmds) ==
    LET own == {m \in cmds : m.author = n.my_id}
    IN  bdm_deldir(bdm_delfile(bdm_delnode(n, cmds), own), own)

\* before_delete_message() for each of cmds, in their order; what is done for one does
\* not touch what another looks at.
before_delete_message(n, cmds) == bdm_deldir(bdm_delfile(bdm_delnode(n, cmds), cmds), cmds)

remove_old_commands(n) ==
    IF n.status = "inviter" THEN n
    ELSE [before_delete_message(n, Forgettable(n)) EXCEPT !.messages = @ \ Forgettable(n)]

-----------------------------------------------------------------------------
(* Joining and leaving                                                        *)

\* A slip: the new node takes over the matrix, but no command.
InitializedWithoutCommands(n, from, id) ==
    [n EXCEPT !.my_id = id, !.state = from.state,
              !.log = from.log, !.filenames = from.filenames,
              !.disk = IF from.filenames THEN from.disk ELSE 0,
              !.nodes = Resize(from.nodes, id, from.my_id)]

\* Core::read_initializer_v1(): everything but the identity is the inviter's; of
\* the files, those whose commands the inviter has executed.
Initialized(n, from, id) ==
    [n EXCEPT !.my_id = id, !.messages = from.messages, !.state = from.state,
              !.log = from.log, !.filenames = from.filenames,
              !.disk = IF from.filenames THEN from.disk ELSE 0,
              !.nodes = Resize(from.nodes, id, from.my_id)]

\* What write_initializer_v1() throws at: a file of the list is not there.
Complete(n) == n.filenames => n.disk # 0

node_alive(n, id) == id \notin n.log
=============================================================================
