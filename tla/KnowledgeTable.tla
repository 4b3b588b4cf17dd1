--------------------------- MODULE KnowledgeTable ---------------------------
(* What the matrix of a node promises (core.h, struct Matrix): a table that  *)
(* says for every pair of members i and j how many commands of j node i is   *)
(* known to have, whatever the order the members are stored in.  The table   *)
(* serves one call at a time; module MatrixIndex shows that the vectors of   *)
(* core.cpp implement it.                                                    *)
EXTENDS Integers, FiniteSets

CONSTANTS
    Ids,        \* the UUIDs of all nodes there can be
    Counts,     \* the numbers of commands that appear in calls
    NoNode,     \* a null pointer to a node
    NoCall

VARIABLES
    know,       \* know[i][j], for all members i and j
    call        \* the call that is being served, NoCall between calls
tvars == <<know, call>>

-----------------------------------------------------------------------------
Larger(a, b) == IF a < b THEN b ELSE a

\* Matrix::update(): each cell that both tables have becomes the larger of the two.
Updated(k, src) ==
    [i \in DOMAIN k |-> [j \in DOMAIN k |->
        IF {i, j} \subseteq DOMAIN src THEN Larger(k[i][j], src[i][j]) ELSE k[i][j]]]

\* Matrix::resize(): old cells stay, of a new node nobody knows a command, and a
\* new node knows what the node knows that has invited it.
Resized(k, new, from) ==
    [i \in DOMAIN k \cup new |-> [j \in DOMAIN k \cup new |->
        IF j \notin DOMAIN k THEN 0
        ELSE IF i \in DOMAIN k THEN k[i][j]
        ELSE IF from = NoNode THEN 0
        ELSE k[from][j]]]

\* Matrix::del(): the row and the column of the node go.
Without(k, id) ==
    [i \in DOMAIN k \ {id} |-> [j \in DOMAIN k \ {id} |-> k[i][j]]]

Result(k, c) ==
    CASE c.op = "update" -> Updated(k, c.src)
      [] c.op = "resize" -> Resized(k, c.new, c.from)
      [] c.op = "del" -> Without(k, c.id)
      [] OTHER -> k       \* writing and reading the table does not change it

-----------------------------------------------------------------------------
Init ==
    /\ \E id \in Ids : know = [i \in {id} |-> [j \in {id} |-> 0]]
    /\ call = NoCall

Request == /\ call = NoCall
           /\ call' # NoCall
           /\ UNCHANGED know

Serve == /\ call # NoCall
         /\ know' = Result(know, call)
         /\ call' = NoCall

TableSpec == Init /\ [][Request \/ Serve]_tvars
=============================================================================
