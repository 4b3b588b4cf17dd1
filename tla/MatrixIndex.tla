---------------------------- MODULE MatrixIndex -----------------------------
(* The matrix as core.cpp stores it: the members sorted by UUID, and for each *)
(* a vector whose cell j belongs to the j-th member.  Two nodes seldom have   *)
(* the same members, so every operation must translate positions into        *)
(* positions; a mistake would credit a node with the commands of another.     *)
(* Positions count from 1, and 0 stands for -1UL.                             *)
EXTENDS Integers, Sequences, SequencesExt, FiniteSetsExt

CONSTANTS
    MatrixIds, Counts, NoNode,  \* as in KnowledgeTable
    MaxNews     \* bound: cells of a matrix that comes from another node and are not 0

\* A UUID has 128 bits, and UUID::operator< compares them like numbers.
ASSUME MatrixAssumption ==
    /\ MatrixIds \subseteq Nat /\ IsFiniteSet(MatrixIds)
    /\ Counts \subseteq Nat
    /\ NoNode \notin MatrixIds

NoCall == [op |-> "none"]

VARIABLES
    ids,        \* the keys of the map, in their order
    rows,       \* rows[i] is the matrix_row of ids[i]
    call,       \* the call that is being served
    updated     \* what the last update() returned
matrixvars == <<ids, rows, call, updated>>

Sorted(S) == CHOOSE s \in [1 .. Cardinality(S) -> S] :
                 \A i, j \in DOMAIN s : i < j => s[i] < s[j]
Positions == DOMAIN ids
PositionOf(s, id) == SelectInSeq(s, LAMBDA x : x = id)      \* 0: it is not there
AsTable(i, r) ==
    [a \in ToSet(i) |-> [b \in ToSet(i) |->
        r[CHOOSE x \in DOMAIN i : i[x] = a][CHOOSE y \in DOMAIN i : i[y] = b]]]
Table == INSTANCE KnowledgeTable WITH know <- AsTable(ids, rows), Ids <- MatrixIds

-----------------------------------------------------------------------------
(* Matrix::update()                                                          *)

\* A slip: the same position in both lists.
RIdxSamePosition(my, remote) ==
    [m \in DOMAIN my |-> IF m <= Len(remote) THEN m ELSE 0]

\* One of mine is served: the last remote position that is done with, from r on.
Pass(remote, r, id) ==
    LET k == Min({x \in r + 1 .. Len(remote) + 1 : x > Len(remote) \/ remote[x] >= id})
    IN  IF k <= Len(remote) /\ remote[k] = id THEN k ELSE k - 1
Used(my, remote) ==
    LET used[m \in 0 .. Len(my)] ==
            IF m = 0 THEN 0 ELSE Pass(remote, used[m - 1], my[m])
    IN  used

\* The two pointers that walk through both lists: for each of mine, the position
\* of the same member in the other list.
RIdx(my, remote) ==
    LET used == Used(my, remote)
    IN  [m \in DOMAIN my |->
            IF used[m] # 0 /\ remote[used[m]] = my[m] THEN used[m] ELSE 0]

MatrixUpdate(src) ==
    LET idx == RIdx(ids, src.ids)
        shared == {m \in Positions : idx[m] # 0}
    IN  /\ rows' = [i \in Positions |-> [j \in Positions |->
              IF {i, j} \subseteq shared
              THEN Max({rows[i][j], src.rows[idx[i]][idx[j]]}) ELSE rows[i][j]]]
        /\ updated' = \E i, j \in shared : rows[i][j] < src.rows[idx[i]][idx[j]]
        /\ UNCHANGED ids

-----------------------------------------------------------------------------
(* Matrix::resize() and Matrix::del()                                        *)

\* For each of the united members its position among mine.
Take(t, id) == IF t < Len(ids) /\ ids[t + 1] = id THEN t + 1 ELSE t
Taken(all) ==
    LET taken[i \in 0 .. Len(all)] ==
            IF i = 0 THEN 0 ELSE Take(taken[i - 1], all[i])
    IN  taken
MIdx(all) ==
    LET taken == Taken(all)
    IN  [i \in DOMAIN all |-> IF taken[i] > taken[i - 1] THEN taken[i] ELSE 0]

MatrixResize(new, from) ==
    LET all == Sorted(ToSet(ids) \cup new)
        idx == MIdx(all)
        pattern == IF from = NoNode THEN 0 ELSE PositionOf(ids, from)
        row(i) == IF idx[i] # 0 THEN idx[i] ELSE pattern
    IN  /\ ids' = all
        /\ rows' = [i \in DOMAIN all |-> [j \in DOMAIN all |->
               IF row(i) # 0 /\ idx[j] # 0 THEN rows[row(i)][idx[j]] ELSE 0]]
        /\ UNCHANGED updated

MatrixDel(id) ==
    LET d == PositionOf(ids, id)
    IN  /\ IF d = 0 THEN UNCHANGED <<ids, rows>>
           ELSE /\ ids' = RemoveAt(ids, d)
                /\ rows' = [i \in DOMAIN RemoveAt(ids, d) |->
                               RemoveAt(RemoveAt(rows, d)[i], d)]
        /\ UNCHANGED updated

-----------------------------------------------------------------------------
(* Matrix::write() and read(); Core::save_nodes() and Matrix::load_nodes()   *)

Write == [R |-> Len(ids), uuids |-> ids, mtx |-> FlattenSeq(rows)]

Read(f) == [ids |-> f.uuids,
            rows |-> [i \in 1 .. f.R |-> SubSeq(f.mtx, (i - 1) * f.R + 1, i * f.R)]]

SaveNodes == [id \in ToSet(ids) |-> rows[PositionOf(ids, id)]]

LoadNodes(json) ==
    LET order == Sorted(DOMAIN json)
    IN  [ids |-> order, rows |-> [i \in DOMAIN order |-> json[order[i]]]]

\* A node that gets the matrix of another, and one that starts again.
Become(m) == /\ ids' = m.ids
             /\ rows' = m.rows
             /\ UNCHANGED updated

-----------------------------------------------------------------------------
(* What is read from the rows by position                                    *)

\* Core::remove_old_commands(): the commands of the j-th member that have a lower
\* number are known to all and executed here.  The loop leaves out no node: a
\* delnode is never stored with "force".
LevelOfRows(exec) ==
    [j \in Positions |-> Min({rows[j][i] : i \in Positions} \cup {exec[ids[j]]})]
MatrixLevel(exec) ==
    [j \in Positions |-> Min({rows[i][j] : i \in Positions} \cup {exec[ids[j]]})]

\* CoreNet::request_message_from_node(): the first member of whose commands the
\* remote node knows more than this one.
RequestMessage(my, remote) ==
    LET m == PositionOf(ids, my)
        n == PositionOf(ids, remote)
        more == {j \in Positions : rows[n][j] > rows[m][j]}
    IN  IF more = {} THEN [node_id |-> NoNode, msg_number |-> 0]
        ELSE [node_id |-> ids[Min(more)], msg_number |-> rows[m][Min(more)]]

-----------------------------------------------------------------------------
MatrixInit == /\ \E id \in MatrixIds : ids = <<id>>
        /\ rows = <<<<0>>>>
        /\ call = NoCall
        /\ updated = FALSE

\* A matrix that comes from another node has any members.
Call ==
    /\ call = NoCall
    /\ \/ \E S \in SUBSET MatrixIds : \E src \in [S -> [S -> Counts]] :
             /\ Cardinality({c \in S \X S : src[c[1]][c[2]] # 0}) <= MaxNews
             /\ call' = [op |-> "update", src |-> src]
       \/ \E new \in SUBSET MatrixIds \ {{}}, from \in ToSet(ids) \cup {NoNode} :
             call' = [op |-> "resize", new |-> new, from |-> from]
       \/ \E id \in MatrixIds :         \* a node does not remove itself: somebody is left
             ids # <<id>> /\ call' = [op |-> "del", id |-> id]
       \/ call' = [op |-> "send"]
       \/ call' = [op |-> "restart"]
    /\ updated' = FALSE
    /\ UNCHANGED <<ids, rows>>

Indexed(t) ==
    LET order == Sorted(DOMAIN t)
    IN  [ids |-> order,
         rows |-> [i \in DOMAIN order |-> [j \in DOMAIN order |-> t[order[i]][order[j]]]]]

Return ==
    /\ call # NoCall
    /\ \/ call.op = "update" /\ MatrixUpdate(Indexed(call.src))
       \/ call.op = "resize" /\ MatrixResize(call.new, call.from)
       \/ call.op = "del" /\ MatrixDel(call.id)
       \/ call.op = "send" /\ Become(Read(Write))
       \/ call.op = "restart" /\ Become(LoadNodes(SaveNodes))
    /\ call' = NoCall

MatrixNext == Call \/ Return
MatrixSpec == MatrixInit /\ [][MatrixNext]_matrixvars

-----------------------------------------------------------------------------
(* Properties                                                                *)

\* The type of the state, and what positions rest on: the keys of the map are in
\* their order, and each vector has a cell for each of them.
CallOK ==
    \/ call \in {NoCall, [op |-> "send"], [op |-> "restart"]}
    \/ \E S \in SUBSET MatrixIds : call \in [op : {"update"}, src : [S -> [S -> Counts]]]
    \/ call \in [op : {"resize"}, new : SUBSET MatrixIds, from : ToSet(ids) \cup {NoNode}]
    \/ call \in [op : {"del"}, id : MatrixIds] /\ ids # <<call.id>>
MatrixInv ==
    /\ ids \in Seq(MatrixIds) /\ ids # <<>>
    /\ \A i, j \in Positions : i < j => ids[i] < ids[j]
    /\ rows \in [Positions -> [Positions -> Nat]]
    /\ CallOK
    /\ updated \in BOOLEAN

\* Whatever members come and go, and whatever members the other node has: the
\* vectors stand for the table of module KnowledgeTable, each call changes them
\* as the table changes, and sending or saving and loading changes nothing.
TableImplemented == Table!TableSpec

\* need_save |= nodes.update(): what update() returns is true exactly when the
\* matrix is no longer what was saved.
UpdateTellsChange ==
    [][call # NoCall /\ call.op = "update"
           => (updated' <=> AsTable(ids, rows)' # AsTable(ids, rows))]_matrixvars

\* What is read by position is what the table says of the member at that position:
\* a command is forgotten only if every member has it and it was executed, and
\* the command that is asked for is the first one that is missing, of an author
\* of whom the other node knows more.
PositionsMeanMembers ==
    call = NoCall => LET know == AsTable(ids, rows) IN
    /\ \A exec \in [ToSet(ids) -> Counts] : \A j \in Positions :
           LET author == ids[j] IN
           /\ \A i \in ToSet(ids) : MatrixLevel(exec)[j] <= know[i][author]
           /\ MatrixLevel(exec)[j] <= exec[author]
           /\ MatrixLevel(exec)[j] \in {exec[author]} \cup {know[i][author] : i \in ToSet(ids)}
    /\ \A my, remote \in ToSet(ids) :
           LET r == RequestMessage(my, remote)
               news == {a \in ToSet(ids) : know[remote][a] > know[my][a]}
           IN  IF news = {} THEN r.node_id = NoNode
               ELSE r.node_id \in news /\ r.msg_number = know[my][r.node_id]
=============================================================================
