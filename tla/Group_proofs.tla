--------------------------------- MODULE Group_proofs ---------------------------------
(* Theorems of a group and its users.                                           *)
(*                                                                              *)
(* Membership: while members join, over the network and with invite files, no   *)
(* command is forgotten that one of them lacks.  MembersInv is the inductive    *)
(* invariant.  Every member but the founders has an inviter, with a smaller     *)
(* UUID, that stores whatever it knows and the member does not; a step may only *)
(* do to a node what Evolves says, and to a newcomer what Joins says, and such  *)
(* a step keeps the invariant (StepLemma).  From the same steps follows         *)
(* AgreeInv: who has become a member was told of by one command, which whoever  *)
(* has executed it knows, and no counter runs ahead of the author; so when      *)
(* nothing is left to tell, the members and what they have executed are the     *)
(* same.                                                                        *)
(*                                                                              *)
(* LocalSessions: for any number of local users and signals, as long as a       *)
(* thread is on the list, SIGALRM is under way, and no thread stays on the list *)
(* longer than it exists.  One lemma per action shows that it keeps SessionsInv.*)
EXTENDS Membership, LocalSessions, FiniteSetTheorems, WellFoundedInduction, TLAPS

-----------------------------------------------------------------------------
(* Membership                                                                 *)

(* A set of natural numbers has a smallest one.                             *)
LEMMA SmallestLemma ==
  ASSUME NEW S \in SUBSET Nat, S # {}
  PROVE  \E n \in S : \A k \in S : n <= k
<1>1. OpToRel(<, Nat) = {ss \in Nat \X Nat : ss[1] < ss[2]}
  BY Zenon DEF OpToRel
<1>2. PICK n \in S : \A k \in S : ~(<<k, n>> \in {ss \in Nat \X Nat : ss[1] < ss[2]})
  BY <1>1, NatLessThanWellFounded, WFMin
<1>3. ASSUME NEW k \in S PROVE n <= k
  <2>1. <<k, n>> \in Nat \X Nat => ~(<<k, n>>[1] < <<k, n>>[2])
    BY <1>2
  <2>. QED BY <2>1
<1>. QED BY <1>3

(* Min() of a set of natural numbers: its smallest element.                 *)
LEMMA MinLemma ==
  ASSUME NEW S \in SUBSET Nat, S # {}
  PROVE  Min(S) \in S /\ \A x \in S : Min(S) <= x
BY SmallestLemma DEF Min

(* Ranks number the elements of a finite set from 0.                        *)
LEMMA RankLemma ==
  ASSUME NEW S \in SUBSET Nat, IsFiniteSet(S)
  PROVE  /\ \A x \in S : Rank(S, x) \in 0 .. Cardinality(S) - 1
         /\ \A x, y \in S : Rank(S, x) = Rank(S, y) => x = y
         /\ \A k \in 0 .. Cardinality(S) - 1 : \E x \in S : Rank(S, x) = k
         /\ \A x, z \in S : x < z => Rank(S, x) < Rank(S, z)
<1>. DEFINE c == Cardinality(S)
            f == [x \in S |-> Rank(S, x)]
<1>0. c \in Nat
  BY FS_CardinalityType
<1>1. ASSUME NEW x \in S PROVE Rank(S, x) \in 0 .. c - 1
  <2>. DEFINE T == {y \in S : y < x}
  <2>1. IsFiniteSet(T) /\ Cardinality(T) <= c /\ (Cardinality(T) = c => T = S)
    <3>1. T \in SUBSET S
      OBVIOUS
    <3>. HIDE DEF T
    <3>. QED BY <3>1, FS_Subset
  <2>2. T # S
    BY <1>1
  <2>3. Cardinality(T) \in Nat
    BY <2>1, FS_CardinalityType
  <2>. QED BY <1>0, <2>1, <2>2, <2>3 DEF Rank
<1>2. ASSUME NEW x \in S, NEW z \in S, x < z PROVE Rank(S, x) < Rank(S, z)
  <2>. DEFINE T == {y \in S : y < x}
              U == {y \in S : y < z}
  <2>1. IsFiniteSet(U)
    <3>1. U \in SUBSET S
      OBVIOUS
    <3>. HIDE DEF U
    <3>. QED BY <3>1, FS_Subset
  <2>2. T \in SUBSET U /\ x \in U /\ x \notin T
    <3>1. \A y \in S : y \in Int
      OBVIOUS
    <3>2. \A y \in S : y < x => y < z
      BY <1>2, <3>1
    <3>3. T \subseteq U
      BY <3>2
    <3>4. x \in U /\ x \notin T
      BY <1>2, <3>1
    <3>. QED BY <3>3, <3>4
  <2>3. Cardinality(T) <= Cardinality(U) /\ (Cardinality(U) = Cardinality(T) => U = T)
    <3>. HIDE DEF T, U
    <3>. QED BY <2>1, <2>2, FS_Subset
  <2>4. Cardinality(T) \in Nat /\ Cardinality(U) \in Nat
    <3>. HIDE DEF T, U
    <3>. QED BY <2>1, <2>2, FS_Subset, FS_CardinalityType
  <2>. QED BY <2>2, <2>3, <2>4 DEF Rank
<1>3. \A x, y \in S : Rank(S, x) = Rank(S, y) => x = y
  <2>. SUFFICES ASSUME NEW x \in S, NEW y \in S, x # y PROVE Rank(S, x) # Rank(S, y)
    OBVIOUS
  <2>1. x < y \/ y < x
    OBVIOUS
  <2>2. Rank(S, x) \in Int /\ Rank(S, y) \in Int
    BY <1>0, <1>1
  <2>. QED BY <1>2, <2>1, <2>2
<1>4. f \in Injection(S, 0 .. c - 1)
  BY <1>1, <1>3 DEF Injection, IsInjective
<1>5. IsFiniteSet(0 .. c - 1) /\ Cardinality(0 .. c - 1) = c
  <2>. HIDE DEF c
  <2>1. c - 1 \in Int /\ (IF 0 > c - 1 THEN 0 ELSE c - 1 - 0 + 1) = c
    BY <1>0
  <2>. QED BY <2>1, FS_Interval
<1>6. f \in Surjection(S, 0 .. c - 1)
  <2>. HIDE DEF f, c
  <2>1. Cardinality(S) = Cardinality(0 .. c - 1) <=> f \in Surjection(S, 0 .. c - 1)
    BY <1>4, <1>5, FS_Injection
  <2>. QED BY <1>5, <2>1 DEF c
<1>7. \A k \in 0 .. c - 1 : \E x \in S : Rank(S, x) = k
  BY <1>6 DEF Surjection
<1>. QED BY <1>1, <1>2, <1>3, <1>7

(* The counter of add_cmd(): the first number that is missing.               *)
LEMMA NextLemma ==
  ASSUME NEW S, IsFiniteSet(S), NEW a, NEW c \in Nat
  PROVE  LET next == FirstMissing(S, a, c)
         IN
         /\ next \in Nat /\ c <= next
         /\ ~\E x \in S : x.author = a /\ x.number = next
         /\ \A k \in Nat : c <= k /\ k < next => \E x \in S : x.author = a /\ x.number = k
<1>. DEFINE next == FirstMissing(S, a, c)
            N == Cardinality(S)
            K == {k \in c .. c + N : ~\E x \in S : x.author = a /\ x.number = k}
<1>1. N \in Nat
  BY FS_CardinalityType
<1>2. K # {}
  <2>. SUFFICES ASSUME K = {} PROVE FALSE
    OBVIOUS
  <2>. DEFINE f == [k \in c .. c + N |-> CHOOSE x \in S : x.author = a /\ x.number = k]
  <2>1. \A k \in c .. c + N : f[k] \in S /\ f[k].number = k
    <3>. SUFFICES ASSUME NEW k \in c .. c + N PROVE f[k] \in S /\ f[k].number = k
      OBVIOUS
    <3>1. \E x \in S : x.author = a /\ x.number = k
      OBVIOUS
    <3>. QED BY <3>1
  <2>2. f \in Injection(c .. c + N, S)
    <3>1. f \in [c .. c + N -> S]
      BY <2>1
    <3>2. \A x, y \in c .. c + N : f[x] = f[y] => x = y
      <4>. HIDE DEF f
      <4>. QED BY <2>1
    <3>. HIDE DEF f
    <3>. QED BY <3>1, <3>2 DEF Injection, IsInjective
  <2>3. Cardinality(c .. c + N) = N + 1
    BY <1>1, FS_Interval
  <2>4. Cardinality(c .. c + N) <= N
    <3>. HIDE DEF f
    <3>. QED BY <2>2, FS_Injection
  <2>. QED BY <1>1, <2>3, <2>4
<1>3. K \in SUBSET Nat
  BY <1>1
<1>4. next \in K /\ \A x \in K : next <= x
  <2>1. next = Min(K)
    BY DEF FirstMissing
  <2>2. Min(K) \in K /\ \A x \in K : Min(K) <= x
    <3>. HIDE DEF K
    <3>. QED BY <1>2, <1>3, MinLemma
  <2>. HIDE DEF K
  <2>. QED BY <2>1, <2>2
<1>5. next \in c .. c + N /\ ~\E x \in S : x.author = a /\ x.number = next
  BY <1>4
<1>6. ASSUME NEW k \in Nat, c <= k, k < next
      PROVE  \E x \in S : x.author = a /\ x.number = k
  <2>1. k \in c .. c + N /\ k \notin K
    <3>. HIDE DEF K
    <3>. QED BY <1>1, <1>4, <1>5, <1>6
  <2>. QED BY <2>1
<1>. QED BY <1>1, <1>5, <1>6

(* One node *)
Kinds == {"other", "addnode", "addfile", "delfile", "deldir"}
IsMatrix(M) == /\ DOMAIN M \subseteq Ids
               /\ M \in [DOMAIN M -> [row : [DOMAIN M -> Nat], command_to_exec : Nat]]
Cell(M, i, j) == IF i \in DOMAIN M /\ j \in DOMAIN M THEN M[i].row[j] ELSE 0
Done(n, a) == IF a \in Members(n) THEN n.nodes[a].command_to_exec ELSE 0
Has(n, a) == Cell(n.nodes, n.my_id, a)
Single(S) == \A x, y \in S : x.author = y.author /\ x.number = y.number => x = y
IsCommand(m, S) == /\ m.author \in S /\ m.number \in Nat /\ m.name \in Kinds
                   /\ \A i \in DOMAIN m.depends : m.depends[i] \in Nat
Commands(h) == /\ IsFiniteSet(h.messages) /\ Single(h.messages)
               /\ \A m \in h.messages : IsCommand(m, DOMAIN h.nodes)
IsNode(n) == /\ DOMAIN n = DOMAIN Blank
             /\ n.status \in {"work", "inviter", "part_init"}
             /\ IsMatrix(n.nodes) /\ n.my_id \in Members(n)
             /\ Commands(n)

(* Every cell of a matrix is a number, also one outside of the matrix.      *)
LEMMA CellLemma ==
  ASSUME NEW M, IsMatrix(M)
  PROVE  /\ \A i, j : Cell(M, i, j) \in Nat
         /\ \A i \in DOMAIN M : M[i].row \in [DOMAIN M -> Nat] /\ M[i].command_to_exec \in Nat
BY DEF IsMatrix, Cell

(* A function of rows over the same members is a matrix.                    *)
LEMMA IsMatrixLemma ==
  ASSUME NEW M, NEW S \in SUBSET Ids, M = [i \in S |-> M[i]],
         \A i \in S : M[i] \in [row : [S -> Nat], command_to_exec : Nat]
  PROVE  IsMatrix(M) /\ DOMAIN M = S
BY DEF IsMatrix

(* Matrix::resize() adds one row and one column: the new member has the row *)
(* of from, and nobody has anything of it.                                  *)
LEMMA ResizeLemma ==
  ASSUME NEW M, IsMatrix(M), NEW id \in Ids, NEW from, from = NoId \/ from \in DOMAIN M,
         NoId \notin Ids
  PROVE  /\ IsMatrix(Resize(M, id, from))
         /\ DOMAIN Resize(M, id, from) = DOMAIN M \cup {id}
         /\ \A i, j : Cell(Resize(M, id, from), i, j) =
                IF i = id /\ id \notin DOMAIN M
                THEN IF from = NoId THEN 0 ELSE Cell(M, from, j)
                ELSE Cell(M, i, j)
         /\ \A i \in DOMAIN M \cup {id} : Resize(M, id, from)[i].command_to_exec =
                IF i \in DOMAIN M THEN M[i].command_to_exec ELSE 0
<1>. DEFINE S == DOMAIN M \cup {id}
            cell(i, j) == IF j \notin DOMAIN M THEN 0
                          ELSE IF i \in DOMAIN M THEN M[i].row[j]
                          ELSE IF from = NoId THEN 0 ELSE M[from].row[j]
            done(i) == IF i \in DOMAIN M THEN M[i].command_to_exec ELSE 0
            R == Resize(M, id, from)
<1>1. S \in SUBSET Ids /\ NoId \notin DOMAIN M
  BY DEF IsMatrix
<1>2. R = [i \in S |-> [row |-> [j \in S |-> cell(i, j)], command_to_exec |-> done(i)]]
  BY DEF Resize
<1>3. \A i, j : i \in S /\ j \in S => cell(i, j) \in Nat
  BY <1>1, CellLemma
<1>4. \A i \in S : done(i) \in Nat
  BY CellLemma
<1>5. \A i \in S : R[i].row = [j \in S |-> cell(i, j)] /\ R[i].command_to_exec = done(i)
  BY <1>2
<1>6. IsMatrix(R) /\ DOMAIN R = S
  <2>1. R = [i \in S |-> R[i]]
    BY <1>2
  <2>2. \A i \in S : R[i] \in [row : [S -> Nat], command_to_exec : Nat]
    <3>. HIDE DEF cell, done, R, S
    <3>. QED BY <1>2, <1>3, <1>4
  <2>. HIDE DEF R, S
  <2>. QED BY <1>1, <2>1, <2>2, IsMatrixLemma
<1>7. ASSUME NEW i, NEW j
      PROVE  Cell(R, i, j) = IF i = id /\ id \notin DOMAIN M
                             THEN IF from = NoId THEN 0 ELSE Cell(M, from, j)
                             ELSE Cell(M, i, j)
  <2>1. CASE i \in S /\ j \in S
    <3>1. Cell(R, i, j) = cell(i, j)
      BY <1>5, <1>6, <2>1 DEF Cell
    <3>. QED BY <1>1, <2>1, <3>1 DEF Cell
  <2>2. CASE ~(i \in S /\ j \in S)
    <3>1. Cell(R, i, j) = 0
      BY <1>6, <2>2 DEF Cell
    <3>. QED BY <2>2, <3>1 DEF Cell
  <2>. QED BY <2>1, <2>2
<1>. QED BY <1>5, <1>6, <1>7

(* Matrix::update() takes the larger one of two cells, for the members of the*)
(* first matrix.                                                            *)
LEMMA UpdateLemma ==
  ASSUME NEW M, IsMatrix(M), NEW N, IsMatrix(N)
  PROVE  /\ IsMatrix(Update(M, N)) /\ DOMAIN Update(M, N) = DOMAIN M
         /\ \A i, j : /\ Cell(M, i, j) <= Cell(Update(M, N), i, j)
                      /\ \/ Cell(Update(M, N), i, j) = Cell(M, i, j)
                         \/ Cell(Update(M, N), i, j) = Cell(N, i, j)
         /\ \A i \in DOMAIN M : Update(M, N)[i].command_to_exec = M[i].command_to_exec
<1>. DEFINE S == DOMAIN M
            U == Update(M, N)
            cell(i, j) == IF j \in DOMAIN N THEN Max({M[i].row[j], N[i].row[j]}) ELSE M[i].row[j]
<1>0. S \subseteq Ids
  BY DEF IsMatrix
<1>1. ASSUME NEW x \in Nat, NEW y \in Nat
      PROVE  Max({x, y}) = IF x >= y THEN x ELSE y
  BY DEF Max
<1>2. ASSUME NEW i \in S, NEW j \in S, i \in DOMAIN N
      PROVE  /\ cell(i, j) \in Nat /\ M[i].row[j] <= cell(i, j)
             /\ \/ cell(i, j) = M[i].row[j]
                \/ j \in DOMAIN N /\ cell(i, j) = N[i].row[j]
  <2>1. M[i].row[j] \in Nat /\ (j \in DOMAIN N => N[i].row[j] \in Nat)
    BY <1>2, CellLemma
  <2>. QED BY <1>1, <2>1
<1>3. \A i \in S : M[i].row \in [S -> Nat] /\ M[i].command_to_exec \in Nat
  BY CellLemma
<1>4. ASSUME NEW i \in S
      PROVE  /\ U[i].command_to_exec = M[i].command_to_exec
             /\ U[i] \in [row : [S -> Nat], command_to_exec : Nat]
             /\ i \in DOMAIN N => U[i].row = [j \in S |-> cell(i, j)]
             /\ i \notin DOMAIN N => U[i].row = M[i].row
  <2>0. M[i] \in [row : [S -> Nat], command_to_exec : Nat]
    BY DEF IsMatrix
  <2>1. CASE i \in DOMAIN N
    <3>1. U[i] = [M[i] EXCEPT !.row = [j \in DOMAIN M[i].row |-> cell(i, j)]]
      BY <2>1 DEF Update
    <3>2. DOMAIN M[i].row = S
      BY <1>3
    <3>3. [j \in S |-> cell(i, j)] \in [S -> Nat]
      BY <1>2, <2>1
    <3>. HIDE DEF cell
    <3>. QED BY <2>0, <2>1, <3>1, <3>2, <3>3
  <2>2. CASE i \notin DOMAIN N
    BY <2>0, <2>2 DEF Update
  <2>. QED BY <2>1, <2>2
<1>5. IsMatrix(U) /\ DOMAIN U = S
  <2>1. U = [i \in S |-> U[i]]
    BY DEF Update
  <2>. HIDE DEF U, S
  <2>. QED BY <1>0, <1>4, <2>1, IsMatrixLemma
<1>6. ASSUME NEW i, NEW j
      PROVE  /\ Cell(M, i, j) <= Cell(U, i, j)
             /\ Cell(U, i, j) = Cell(M, i, j) \/ Cell(U, i, j) = Cell(N, i, j)
  <2>1. CASE i \in S /\ j \in S /\ i \in DOMAIN N
    <3>1. Cell(M, i, j) = M[i].row[j] /\ Cell(U, i, j) = cell(i, j)
      BY <1>4, <1>5, <2>1 DEF Cell
    <3>2. j \in DOMAIN N => Cell(N, i, j) = N[i].row[j]
      BY <2>1 DEF Cell
    <3>. HIDE DEF cell
    <3>. QED BY <1>2, <2>1, <3>1, <3>2
  <2>2. CASE i \in S /\ j \in S /\ i \notin DOMAIN N
    <3>1. Cell(M, i, j) = Cell(U, i, j)
      BY <1>4, <1>5, <2>2 DEF Cell
    <3>. QED BY <3>1, CellLemma
  <2>3. CASE ~(i \in S /\ j \in S)
    <3>1. Cell(M, i, j) = 0 /\ Cell(U, i, j) = 0
      BY <1>5, <2>3 DEF Cell
    <3>. QED BY <3>1
  <2>. QED BY <2>1, <2>2, <2>3
<1>. QED BY <1>4, <1>5, <1>6

(* A node raises its own row, and nothing else of the matrix.                *)
LEMMA OwnRowLemma ==
  ASSUME NEW M, IsMatrix(M), NEW id \in DOMAIN M, NEW r \in [DOMAIN M -> Nat],
         NEW N, N = [M EXCEPT ![id].row = r]
  PROVE  /\ IsMatrix(N) /\ DOMAIN N = DOMAIN M
         /\ \A i, j : Cell(N, i, j) = IF i = id /\ j \in DOMAIN M THEN r[j] ELSE Cell(M, i, j)
         /\ \A i \in DOMAIN M : N[i].command_to_exec = M[i].command_to_exec
<1>1. \A i \in DOMAIN M : M[i] \in [row : [DOMAIN M -> Nat], command_to_exec : Nat]
  BY DEF IsMatrix
<1>2. \A i \in DOMAIN M : N[i] = IF i = id THEN [M[i] EXCEPT !.row = r] ELSE M[i]
  OBVIOUS
<1>3. N = [i \in DOMAIN M |-> N[i]]
  OBVIOUS
<1>4. \A i \in DOMAIN M : /\ N[i] \in [row : [DOMAIN M -> Nat], command_to_exec : Nat]
                          /\ N[i].command_to_exec = M[i].command_to_exec
                          /\ N[i].row = IF i = id THEN r ELSE M[i].row
  BY <1>1, <1>2
<1>5. IsMatrix(N) /\ DOMAIN N = DOMAIN M
  BY <1>3, <1>4 DEF IsMatrix
<1>. QED BY <1>4, <1>5 DEF Cell

SameNode(n, p) == /\ p.my_id = n.my_id /\ p.status = n.status
                  /\ p.valid_node = n.valid_node /\ p.invite_id = n.invite_id
                  /\ p.state = n.state /\ p.log = n.log

(* What IsNode says of the row and the counters of a node.                  *)
LEMMA NodeLemma ==
  ASSUME NEW n, IsNode(n)
  PROVE  /\ Row(n) \in [Members(n) -> Nat]
         /\ \A a \in Members(n) : Row(n)[a] = Has(n, a)
         /\ Number(n) = Has(n, n.my_id)
         /\ \A a : Has(n, a) \in Nat /\ Done(n, a) \in Nat
         /\ \A a : a \notin Members(n) => Has(n, a) = 0
         /\ IsMatrix(n.nodes) /\ n.my_id \in Members(n) /\ Members(n) \subseteq Ids
<1>1. IsMatrix(n.nodes) /\ n.my_id \in Members(n)
  BY DEF IsNode
<1>2. Members(n) = DOMAIN n.nodes
  BY DEF Members
<1>3. Row(n) \in [Members(n) -> Nat]
  BY <1>1, <1>2, CellLemma DEF Row
<1>4. \A a \in Members(n) : Row(n)[a] = Has(n, a)
  BY <1>1, <1>2 DEF Row, Has, Cell
<1>5. \A a : Done(n, a) \in Nat
  BY <1>1, <1>2, CellLemma DEF Done
<1>6. \A a : Has(n, a) \in Nat
  BY <1>1, CellLemma DEF Has
<1>7. \A a : a \notin Members(n) => Has(n, a) = 0
  BY <1>2 DEF Has, Cell
<1>8. Number(n) = Has(n, n.my_id)
  BY <1>1, <1>4 DEF Number
<1>. QED BY <1>1, <1>2, <1>3, <1>4, <1>5, <1>6, <1>7, <1>8 DEF IsMatrix

(* WithNew(): own commands are added.                                        *)
LEMMA NewLemma ==
  ASSUME NEW n, IsNode(n), NEW C, IsFiniteSet(C), Single(C),
         \A m \in C : /\ IsCommand(m, Members(n))
                      /\ m.author = n.my_id /\ m.number >= Has(n, n.my_id),
         \A m \in n.messages : m.author = n.my_id => m.number < Has(n, n.my_id),
         NEW p, p = WithNew(n, C)
  PROVE  /\ IsNode(p) /\ SameNode(n, p)
         /\ Members(p) = Members(n)
         /\ p.messages = n.messages \cup C
         /\ \A a : Done(p, a) = Done(n, a)
         /\ \A i, j : Cell(p.nodes, i, j) =
                IF i = n.my_id /\ j = n.my_id THEN Cell(n.nodes, i, j) + Cardinality(C)
                ELSE Cell(n.nodes, i, j)
         /\ \A a : Has(p, a) = IF a = n.my_id THEN Has(n, a) + Cardinality(C) ELSE Has(n, a)
<1>. DEFINE id == n.my_id
            c == Cardinality(C)
            r == [Row(n) EXCEPT ![id] = @ + c]
<1>1. c \in Nat
  BY FS_CardinalityType
<1>2. DOMAIN n = {"status", "my_id", "nodes", "messages", "state", "log", "disk", "filenames",
                  "valid_node", "invite_id"}
  BY DEF IsNode, Blank
<1>3. /\ p.nodes = [n.nodes EXCEPT ![id].row[id] = @ + c]
      /\ p.messages = n.messages \cup C
      /\ SameNode(n, p) /\ DOMAIN p = DOMAIN n
  BY <1>2 DEF WithNew, SameNode
<1>4. IsMatrix(n.nodes) /\ id \in DOMAIN n.nodes /\ Row(n) \in [DOMAIN n.nodes -> Nat]
  BY NodeLemma DEF Members
<1>5. p.nodes = [n.nodes EXCEPT ![id].row = r]
  BY <1>3 DEF Row
<1>6. r \in [DOMAIN n.nodes -> Nat]
  BY <1>1, <1>4
<1>7. /\ IsMatrix(p.nodes) /\ DOMAIN p.nodes = DOMAIN n.nodes
      /\ \A i, j : Cell(p.nodes, i, j) =
             IF i = id /\ j \in DOMAIN n.nodes THEN r[j] ELSE Cell(n.nodes, i, j)
      /\ \A i \in DOMAIN n.nodes : p.nodes[i].command_to_exec = n.nodes[i].command_to_exec
  <2>. HIDE DEF r, id
  <2>. QED BY <1>4, <1>5, <1>6, OwnRowLemma
<1>8. ASSUME NEW i, NEW j
      PROVE  Cell(p.nodes, i, j) = IF i = id /\ j = id THEN Cell(n.nodes, i, j) + c
                                   ELSE Cell(n.nodes, i, j)
  <2>1. j \in DOMAIN n.nodes => r[j] = IF j = id THEN Row(n)[j] + c ELSE Row(n)[j]
    BY <1>4
  <2>2. i = id /\ j \in DOMAIN n.nodes => Cell(n.nodes, i, j) = Row(n)[j]
    BY <1>4 DEF Cell, Row
  <2>3. Cell(p.nodes, i, j) = IF i = id /\ j \in DOMAIN n.nodes THEN r[j] ELSE Cell(n.nodes, i, j)
    BY <1>7
  <2>. HIDE DEF r, c
  <2>4. CASE i = id /\ j \in DOMAIN n.nodes
    BY <2>1, <2>2, <2>3, <2>4
  <2>5. CASE ~(i = id /\ j \in DOMAIN n.nodes)
    BY <1>4, <2>3, <2>5
  <2>. QED BY <2>4, <2>5
<1>9. \A a : Has(p, a) = IF a = n.my_id THEN Has(n, a) + c ELSE Has(n, a)
  BY <1>3, <1>8 DEF Has, SameNode
<1>10. \A a : Done(p, a) = Done(n, a)
  BY <1>7 DEF Done, Members
<1>11. Members(p) = Members(n)
  BY <1>7 DEF Members
<1>12. Commands(p)
  <2>1. IsFiniteSet(p.messages)
    <3>1. IsFiniteSet(n.messages)
      BY DEF IsNode, Commands
    <3>2. IsFiniteSet(n.messages \cup C)
      BY <3>1, FS_Union
    <3>. QED BY <1>3, <3>2
  <2>2. \A m \in p.messages : IsCommand(m, DOMAIN p.nodes)
    BY <1>3, <1>7 DEF IsNode, Commands, Members
  <2>3. Single(p.messages)
    <3>1. Has(n, id) \in Nat
      BY NodeLemma
    <3>2. \A m \in n.messages : m.number \in Nat
      BY DEF IsNode, Commands, IsCommand
    <3>3. \A m \in C : m.number \in Nat
      BY DEF IsCommand
    <3>4. \A x \in n.messages, y \in C : ~(x.author = y.author /\ x.number = y.number)
      BY <3>1, <3>2, <3>3
    <3>5. Single(n.messages)
      BY DEF IsNode, Commands
    <3>. QED BY <1>3, <3>4, <3>5 DEF Single
  <2>. QED BY <2>1, <2>2, <2>3 DEF Commands
<1>13. IsNode(p)
  <2>1. p.status \in {"work", "inviter", "part_init"} /\ p.my_id \in Members(p)
    BY <1>3, <1>4, <1>7 DEF IsNode, SameNode, Members
  <2>. QED BY <1>3, <1>7, <1>12, <2>1 DEF IsNode
<1>. QED BY <1>3, <1>8, <1>9, <1>10, <1>11, <1>13

(* What reading some of the commands of C does to a node.                    *)
Reads(n, p, C) ==
  /\ IsNode(p) /\ SameNode(n, p)
  /\ Members(p) = Members(n)
  /\ n.messages \subseteq p.messages /\ p.messages \subseteq n.messages \cup C
  /\ \A a : Done(p, a) = Done(n, a)
  /\ \A i, j : i # n.my_id => Cell(p.nodes, i, j) = Cell(n.nodes, i, j)
  /\ \A a : Has(n, a) <= Has(p, a)
  /\ \A a, k : k \in Nat /\ Has(n, a) <= k /\ k < Has(p, a) => Stored(p, a, k)

(* Reading nothing.                                                         *)
LEMMA ReadsRefl ==
  ASSUME NEW n, IsNode(n), NEW C
  PROVE  Reads(n, n, C)
<1>1. \A a : Has(n, a) \in Nat
  BY NodeLemma
<1>. QED BY <1>1 DEF Reads, SameNode

(* A node that keeps its commands keeps each of them.                       *)
LEMMA StoredGrows ==
  ASSUME NEW n, NEW p, n.messages \subseteq p.messages, NEW a, NEW k, Stored(n, a, k)
  PROVE  Stored(p, a, k)
BY DEF Stored

(* Reading twice.                                                           *)
LEMMA ReadsTrans ==
  ASSUME NEW n, IsNode(n), NEW p, NEW q, NEW C, Reads(n, p, C), Reads(p, q, C)
  PROVE  Reads(n, q, C)
<1>1. \A a : Has(n, a) \in Nat /\ Has(p, a) \in Nat /\ Has(q, a) \in Nat
  BY NodeLemma DEF Reads
<1>2. IsNode(q) /\ SameNode(n, q) /\ Members(q) = Members(n)
  BY DEF Reads, SameNode
<1>3. n.messages \subseteq q.messages /\ q.messages \subseteq n.messages \cup C
  BY DEF Reads
<1>4. \A a : Done(q, a) = Done(n, a)
  BY DEF Reads
<1>5. \A i, j : i # n.my_id => Cell(q.nodes, i, j) = Cell(n.nodes, i, j)
  BY DEF Reads, SameNode
<1>6. \A a : Has(n, a) <= Has(q, a)
  <2>1. \A a : Has(n, a) <= Has(p, a) /\ Has(p, a) <= Has(q, a)
    BY DEF Reads
  <2>. QED BY <1>1, <2>1
<1>7. ASSUME NEW a, NEW k \in Nat, Has(n, a) <= k, k < Has(q, a)
      PROVE  Stored(q, a, k)
  <2>1. CASE k < Has(p, a)
    <3>1. Stored(p, a, k) /\ p.messages \subseteq q.messages
      BY <1>7, <2>1 DEF Reads
    <3>. QED BY <3>1, StoredGrows
  <2>2. CASE Has(p, a) <= k
    BY <1>7, <2>2 DEF Reads
  <2>. QED BY <1>1, <2>1, <2>2
<1>. QED BY <1>2, <1>3, <1>4, <1>5, <1>6, <1>7 DEF Reads

(* add_cmd(): each row goes up to the first gap.                             *)
LEMMA AddLemma ==
  ASSUME NEW n, IsNode(n), NEW C, IsFiniteSet(C), Single(C), NEW S,
         \A m \in C : IsCommand(m, S),
         NEW p, p = add_cmd(n, C)
  PROVE  Reads(n, p, C)
<1>. DEFINE known == {m \in C : m.author \in Members(n)}
            new == {m \in known : ~Stored(n, m.author, m.number)}
            all == n.messages \cup new
            id == n.my_id
            next(a) == FirstMissing(all, a, n.nodes[id].row[a])
            row(a) == IF \E m \in known : m.author = a THEN next(a) ELSE n.nodes[id].row[a]
            r == [a \in DOMAIN n.nodes[id].row |-> row(a)]
<1>1. DOMAIN n = {"status", "my_id", "nodes", "messages", "state", "log", "disk", "filenames",
                  "valid_node", "invite_id"}
  BY DEF IsNode, Blank
<1>4. p = [n EXCEPT !.messages = all, !.nodes[id].row = r]
  BY DEF add_cmd
<1>. HIDE DEF new, known
<1>5. /\ p.messages = all /\ SameNode(n, p) /\ DOMAIN p = DOMAIN n
      /\ p.nodes = [n.nodes EXCEPT ![id].row = r]
  <2>. HIDE DEF r, row, all
  <2>. QED BY <1>1, <1>4 DEF SameNode
<1>6. /\ IsMatrix(n.nodes) /\ id \in DOMAIN n.nodes /\ Row(n) \in [DOMAIN n.nodes -> Nat]
      /\ Members(n) = DOMAIN n.nodes
  BY NodeLemma DEF Members
<1>7. IsFiniteSet(all)
  <2>1. IsFiniteSet(new)
    BY FS_Subset DEF new, known
  <2>2. IsFiniteSet(n.messages)
    BY DEF IsNode, Commands
  <2>. QED BY <2>1, <2>2, FS_Union
<1>. HIDE DEF all
<1>8. ASSUME NEW a \in DOMAIN n.nodes
      PROVE  /\ row(a) \in Nat /\ Row(n)[a] <= row(a)
             /\ \A k \in Nat : Row(n)[a] <= k /\ k < row(a) =>
                    \E x \in all : x.author = a /\ x.number = k
  <2>1. Row(n)[a] \in Nat
    BY <1>6
  <2>2. CASE \E m \in known : m.author = a
    <3>1. row(a) = next(a)
      BY <2>2
    <3>2. /\ next(a) \in Nat /\ Row(n)[a] <= next(a)
          /\ \A k \in Nat : Row(n)[a] <= k /\ k < next(a) =>
                    \E x \in all : x.author = a /\ x.number = k
      BY <1>7, <2>1, NextLemma DEF Row
    <3>. HIDE DEF row, next
    <3>. QED BY <3>1, <3>2
  <2>3. CASE ~\E m \in known : m.author = a
    <3>1. row(a) = Row(n)[a]
      BY <2>3 DEF Row
    <3>. HIDE DEF row
    <3>. QED BY <2>1, <3>1
  <2>. QED BY <2>2, <2>3
<1>9. r \in [DOMAIN n.nodes -> Nat] /\ \A a \in DOMAIN n.nodes : r[a] = row(a)
  <2>1. DOMAIN n.nodes[id].row = DOMAIN n.nodes
    BY <1>6 DEF Row
  <2>. HIDE DEF row
  <2>. QED BY <1>8, <2>1
<1>. HIDE DEF r, row
<1>10. /\ IsMatrix(p.nodes) /\ DOMAIN p.nodes = DOMAIN n.nodes
       /\ \A i, j : Cell(p.nodes, i, j) =
              IF i = id /\ j \in DOMAIN n.nodes THEN r[j] ELSE Cell(n.nodes, i, j)
       /\ \A i \in DOMAIN n.nodes : p.nodes[i].command_to_exec = n.nodes[i].command_to_exec
  <2>. HIDE DEF id
  <2>. QED BY <1>5, <1>6, <1>9, OwnRowLemma
<1>11. \A a : Done(p, a) = Done(n, a)
  BY <1>10 DEF Done, Members
<1>12. /\ \A a \in Members(n) : Has(p, a) = row(a) /\ Has(n, a) = Row(n)[a]
       /\ \A a : a \notin Members(n) => Has(p, a) = 0 /\ Has(n, a) = 0
  <2>1. p.my_id = id
    BY <1>5 DEF SameNode
  <2>. QED BY <1>6, <1>9, <1>10, <2>1, NodeLemma DEF Has, Cell
<1>13. Commands(p)
  <2>1. \A m \in p.messages : IsCommand(m, DOMAIN p.nodes)
    BY <1>5, <1>6, <1>10 DEF IsNode, Commands, IsCommand, new, known, all
  <2>2. Single(p.messages)
    <3>1. Single(n.messages) /\ Single(new)
      BY DEF IsNode, Commands, Single, new, known
    <3>2. \A x \in n.messages, y \in new : ~(x.author = y.author /\ x.number = y.number)
      BY DEF new, Stored
    <3>. QED BY <1>5, <3>1, <3>2 DEF Single, all
  <2>. QED BY <1>5, <1>7, <2>1, <2>2 DEF Commands
<1>14. IsNode(p)
  <2>1. p.status \in {"work", "inviter", "part_init"} /\ p.my_id \in Members(p)
    BY <1>5, <1>6, <1>10 DEF IsNode, SameNode, Members
  <2>. QED BY <1>5, <1>10, <1>13, <2>1 DEF IsNode
<1>15. n.messages \subseteq p.messages /\ p.messages \subseteq n.messages \cup C
  BY <1>5 DEF new, known, all
<1>16. \A a : Has(n, a) <= Has(p, a)
  BY <1>6, <1>8, <1>12
<1>17. \A a, k : k \in Nat /\ Has(n, a) <= k /\ k < Has(p, a) => Stored(p, a, k)
  <2>. SUFFICES ASSUME NEW a, NEW k \in Nat, Has(n, a) <= k, k < Has(p, a)
                PROVE  Stored(p, a, k)
    OBVIOUS
  <2>1. a \in DOMAIN n.nodes
    BY <1>6, <1>12
  <2>. QED BY <1>5, <1>6, <1>8, <1>12, <2>1 DEF Stored
<1>. QED BY <1>5, <1>6, <1>10, <1>11, <1>14, <1>15, <1>16, <1>17 DEF Reads, Members

(* after_read() writes a file only.                                          *)
LEMMA ReadLemma ==
  ASSUME NEW n, IsNode(n), NEW C, IsFiniteSet(C), Single(C), NEW S,
         \A m \in C : IsCommand(m, S),
         NEW d, NEW p, p = add_cmd(after_read(n, C, d), C)
  PROVE  Reads(n, p, C)
<1>. DEFINE q == after_read(n, C, d)
<1>1. DOMAIN n = {"status", "my_id", "nodes", "messages", "state", "log", "disk", "filenames",
                  "valid_node", "invite_id"}
  BY DEF IsNode, Blank
<1>2. /\ SameNode(n, q) /\ q.nodes = n.nodes /\ q.messages = n.messages
      /\ DOMAIN q = DOMAIN n
  BY <1>1 DEF after_read, SameNode
<1>. HIDE DEF q
<1>3. IsNode(q)
  BY <1>2 DEF IsNode, SameNode, Members, Commands
<1>4. Reads(n, q, C)
  <2>1. \A a : Has(n, a) \in Nat
    BY NodeLemma
  <2>. QED BY <1>2, <1>3, <2>1 DEF Reads, Has, Done, Members, SameNode
<1>5. Reads(q, p, C)
  BY <1>3, AddLemma DEF q
<1>. QED BY <1>4, <1>5, ReadsTrans

(* What executing the command m does to a node.                              *)
Executes(n, p, m) ==
  /\ IsNode(p) /\ p.my_id = n.my_id /\ p.status = n.status
  /\ p.invite_id = n.invite_id /\ p.messages = n.messages
  /\ p.valid_node # n.valid_node => m.name = "addnode" /\ m.val = n.my_id
  /\ Members(p) = IF m.name = "addnode" THEN Members(n) \cup {m.val} ELSE Members(n)
  /\ \A i, j : Cell(p.nodes, i, j) = Cell(n.nodes, i, j)
  /\ \A a : Done(p, a) = IF a = m.author THEN Done(n, a) + 1 ELSE Done(n, a)
  /\ m.author \in Members(n) /\ m.number = Done(n, m.author)
  /\ p.state = IF m.name = "other" THEN n.state \cup {<<m.author, m.number>>} ELSE n.state
  /\ p.log = n.log

(* Core::exec(), when a node does not meet its own addnode again.            *)
LEMMA ExecLemma ==
  ASSUME NoId \notin Ids, NEW n, IsNode(n), NEW m \in command_to_exec(n),
         m.name = "addnode" => m.val \in Ids /\ (m.val = n.my_id => n.valid_node = FALSE),
         NEW p, p = mark_as_executed(exec(n, m), m)
  PROVE  Executes(n, p, m)
<1>. DEFINE q == exec(n, m)
            M == q.nodes
<1>1. DOMAIN n = {"status", "my_id", "nodes", "messages", "state", "log", "disk", "filenames",
                  "valid_node", "invite_id"}
  BY DEF IsNode, Blank
<1>2. m \in n.messages /\ m.author \in Members(n) /\ m.number = Done(n, m.author)
  BY DEF command_to_exec, Done
<1>3. m.name \in Kinds
  BY <1>2 DEF IsNode, Commands, IsCommand
<1>4. IsMatrix(n.nodes) /\ n.my_id \in DOMAIN n.nodes /\ Members(n) = DOMAIN n.nodes
  BY NodeLemma DEF Members
<1>5. /\ DOMAIN q = DOMAIN n /\ q.my_id = n.my_id /\ q.status = n.status
      /\ q.invite_id = n.invite_id /\ q.messages = n.messages
      /\ q.state = (IF m.name = "other" THEN n.state \cup {<<m.author, m.number>>} ELSE n.state)
      /\ q.log = n.log
      /\ q.valid_node # n.valid_node => m.name = "addnode" /\ m.val = n.my_id
      /\ IsMatrix(M)
      /\ DOMAIN M = DOMAIN n.nodes \cup (IF m.name = "addnode" THEN {m.val} ELSE {})
      /\ \A i, j : Cell(M, i, j) = Cell(n.nodes, i, j)
      /\ \A i \in DOMAIN M : M[i].command_to_exec =
             IF i \in DOMAIN n.nodes THEN n.nodes[i].command_to_exec ELSE 0
  <2>1. CASE m.name = "other"
    <3>1. q = [n EXCEPT !.state = @ \cup {<<m.author, m.number>>}]
      BY <2>1 DEF exec
    <3>. HIDE DEF q
    <3>. QED BY <1>1, <1>4, <2>1, <3>1
  <2>2. CASE m.name = "addfile"
    <3>1. q = [n EXCEPT !.filenames = TRUE]
      BY <2>2 DEF exec, exec_addfile
    <3>. HIDE DEF q
    <3>. QED BY <1>1, <1>4, <2>2, <3>1
  <2>3. CASE m.name \in {"delfile", "deldir"}
    <3>1. q = n
      BY <2>3 DEF exec
    <3>. HIDE DEF q
    <3>. QED BY <1>1, <1>4, <2>3, <3>1
  <2>4. CASE m.name = "addnode" /\ m.val \notin Members(n)
    <3>1. q = [n EXCEPT !.nodes = Resize(n.nodes, m.val, NoId)]
      BY <2>4 DEF exec, exec_addnode
    <3>. DEFINE R == Resize(n.nodes, m.val, NoId)
    <3>2. /\ IsMatrix(R) /\ DOMAIN R = DOMAIN n.nodes \cup {m.val}
          /\ \A i, j : Cell(R, i, j) = IF i = m.val THEN 0 ELSE Cell(n.nodes, i, j)
          /\ \A i \in DOMAIN R : R[i].command_to_exec =
                 IF i \in DOMAIN n.nodes THEN n.nodes[i].command_to_exec ELSE 0
      <4>1. m.val \in Ids /\ m.val \notin DOMAIN n.nodes
        BY <1>4, <2>4
      <4>2. /\ IsMatrix(R) /\ DOMAIN R = DOMAIN n.nodes \cup {m.val}
            /\ \A i, j : Cell(R, i, j) = IF i = m.val /\ m.val \notin DOMAIN n.nodes
                                         THEN IF NoId = NoId THEN 0 ELSE Cell(n.nodes, NoId, j)
                                         ELSE Cell(n.nodes, i, j)
            /\ \A i \in DOMAIN n.nodes \cup {m.val} : R[i].command_to_exec =
                   IF i \in DOMAIN n.nodes THEN n.nodes[i].command_to_exec ELSE 0
        BY <1>4, <4>1, ResizeLemma
      <4>. HIDE DEF R
      <4>. QED BY <4>1, <4>2
    <3>3. \A j : Cell(n.nodes, m.val, j) = 0
      BY <1>4, <2>4 DEF Cell
    <3>4. \A i, j : Cell(R, i, j) = Cell(n.nodes, i, j)
      <4>. HIDE DEF R
      <4>. QED BY <3>2, <3>3
    <3>. HIDE DEF q, R
    <3>. QED BY <1>1, <1>4, <2>4, <3>1, <3>2, <3>4 DEF R
  <2>5. CASE m.name = "addnode" /\ m.val \in Members(n)
    <3>1. q = n \/ (q = [n EXCEPT !.valid_node = TRUE] /\ m.val = n.my_id)
      BY <2>5 DEF exec, exec_addnode
    <3>. HIDE DEF q
    <3>. QED BY <1>1, <1>4, <2>5, <3>1
  <2>. QED BY <1>3, <2>1, <2>2, <2>3, <2>4, <2>5 DEF Kinds
<1>. HIDE DEF q
<1>6. p = [q EXCEPT !.nodes[m.author].command_to_exec = @ + 1]
  BY <1>2, <1>4, <1>5 DEF mark_as_executed, Members, q
<1>7. p.nodes = [M EXCEPT ![m.author].command_to_exec = @ + 1]
      /\ DOMAIN p = DOMAIN q /\ p.my_id = q.my_id /\ p.status = q.status
      /\ p.invite_id = q.invite_id /\ p.messages = q.messages /\ p.valid_node = q.valid_node
      /\ p.state = q.state /\ p.log = q.log
  BY <1>1, <1>5, <1>6
<1>. HIDE DEF M
<1>8. m.author \in DOMAIN M
  BY <1>2, <1>4, <1>5
<1>9. \A i \in DOMAIN M : M[i] \in [row : [DOMAIN M -> Nat], command_to_exec : Nat]
  BY <1>5 DEF IsMatrix
<1>10. \A i \in DOMAIN M :
         /\ p.nodes[i] \in [row : [DOMAIN M -> Nat], command_to_exec : Nat]
         /\ p.nodes[i].row = M[i].row
         /\ p.nodes[i].command_to_exec =
                IF i = m.author THEN M[i].command_to_exec + 1 ELSE M[i].command_to_exec
  BY <1>7, <1>8, <1>9
<1>11. IsMatrix(p.nodes) /\ DOMAIN p.nodes = DOMAIN M
  BY <1>5, <1>7, <1>10 DEF IsMatrix
<1>12. \A i, j : Cell(p.nodes, i, j) = Cell(n.nodes, i, j)
  <2>1. \A i, j : Cell(p.nodes, i, j) = Cell(M, i, j)
    BY <1>10, <1>11 DEF Cell
  <2>. QED BY <1>5, <2>1
<1>13. ASSUME NEW a
       PROVE  Done(p, a) = IF a = m.author THEN Done(n, a) + 1 ELSE Done(n, a)
  <2>1. CASE a \in DOMAIN n.nodes
    BY <1>4, <1>5, <1>10, <1>11, <2>1 DEF Done, Members
  <2>2. CASE a \notin DOMAIN n.nodes
    <3>1. a # m.author /\ Done(n, a) = 0
      BY <1>2, <1>4, <2>2 DEF Done
    <3>2. Done(p, a) = 0
      BY <1>5, <1>10, <1>11, <2>2, <3>1 DEF Done, Members
    <3>. QED BY <3>1, <3>2
  <2>. QED BY <2>1, <2>2
<1>14. Members(p) = Members(n) \cup (IF m.name = "addnode" THEN {m.val} ELSE {})
  BY <1>4, <1>5, <1>11 DEF Members
<1>15. Commands(p)
  <2>1. DOMAIN n.nodes \subseteq DOMAIN p.nodes
    BY <1>5, <1>11
  <2>. QED BY <1>5, <1>7, <2>1 DEF IsNode, Commands, IsCommand
<1>16. IsNode(p)
  BY <1>1, <1>4, <1>5, <1>7, <1>11, <1>14, <1>15 DEF IsNode
<1>. QED BY <1>2, <1>5, <1>7, <1>12, <1>13, <1>14, <1>16 DEF Executes

(* Core::remove_old_commands(): what is forgotten is executed, and known to   *)
(* all members.                                                              *)
LEMMA ForgetLemma ==
  ASSUME NEW n, IsNode(n), NEW m \in Forgettable(n)
  PROVE  /\ m \in n.messages
         /\ \A i \in Members(n) : m.number < Cell(n.nodes, i, m.author)
         /\ m.number < Done(n, m.author)
<1>. DEFINE a == m.author
            rows == {n.nodes[i].row[a] : i \in Members(n)}
            all == rows \cup {n.nodes[a].command_to_exec}
<1>1. m \in n.messages /\ a \in Members(n) /\ m.number \in Nat
  BY DEF Forgettable, IsNode, Commands, IsCommand, Members
<1>2. m.number < Min(all)
  BY <1>1 DEF Forgettable, Level
<1>3. all \in SUBSET Nat /\ all # {}
  <2>1. Members(n) = DOMAIN n.nodes /\ IsMatrix(n.nodes)
    BY NodeLemma DEF Members
  <2>2. \A i \in DOMAIN n.nodes : n.nodes[i].row \in [DOMAIN n.nodes -> Nat]
                                  /\ n.nodes[i].command_to_exec \in Nat
    BY <2>1, CellLemma
  <2>. QED BY <1>1, <2>1, <2>2
<1>4. Min(all) \in Nat /\ \A x \in all : Min(all) <= x
  <2>. HIDE DEF all
  <2>. QED BY <1>3, MinLemma
<1>5. ASSUME NEW x \in all PROVE m.number < x
  <2>. HIDE DEF all
  <2>. QED BY <1>1, <1>2, <1>3, <1>4, <1>5
<1>6. ASSUME NEW i \in Members(n) PROVE m.number < Cell(n.nodes, i, a)
  <2>1. Cell(n.nodes, i, a) = n.nodes[i].row[a]
    BY <1>1, <1>6 DEF Cell, Members
  <2>. QED BY <1>5, <1>6, <2>1
<1>7. m.number < Done(n, a)
  BY <1>1, <1>5 DEF Done
<1>. QED BY <1>1, <1>6, <1>7

(* remove_old_commands() takes the forgettable commands and changes neither *)
(* what the node knows nor what it has executed.                            *)
LEMMA RemoveLemma ==
  ASSUME NEW n, IsNode(n), n.status # "inviter",
         \A m \in n.messages : m.author = n.my_id => m.number < Has(n, n.my_id),
         NEW p, p = remove_old_commands(n)
  PROVE  /\ IsNode(p) /\ SameNode(n, p)
         /\ Members(p) = Members(n)
         /\ p.messages = n.messages \ Forgettable(n)
         /\ \A a : Done(p, a) = Done(n, a) /\ Has(p, a) = Has(n, a)
         /\ \A i, j : Cell(p.nodes, i, j) = Cell(n.nodes, i, j)
<1>. DEFINE old == Forgettable(n)
            q == bdm_delnode(n, old)
            s == before_delete_message(n, old)
<1>1. DOMAIN n = {"status", "my_id", "nodes", "messages", "state", "log", "disk", "filenames",
                  "valid_node", "invite_id"}
  BY DEF IsNode, Blank
<1>2. \A m \in old : m.name # "delnode"
  BY DEF Forgettable, IsNode, Commands, IsCommand, Kinds
<1>3. q = WithNew(n, {})
  BY <1>2 DEF bdm_delnode
<1>. HIDE DEF q, old
<1>4. /\ IsNode(q) /\ SameNode(n, q) /\ Members(q) = Members(n) /\ q.messages = n.messages
      /\ \A a : Done(q, a) = Done(n, a) /\ Has(q, a) = Has(n, a)
      /\ \A i, j : Cell(q.nodes, i, j) = Cell(n.nodes, i, j)
  <2>1. IsFiniteSet({}) /\ Cardinality({}) = 0 /\ Single({})
    BY FS_EmptySet DEF Single
  <2>2. /\ IsNode(q) /\ SameNode(n, q) /\ Members(q) = Members(n)
        /\ q.messages = n.messages \cup {}
        /\ \A a : Done(q, a) = Done(n, a)
        /\ \A i, j : Cell(q.nodes, i, j) = IF i = n.my_id /\ j = n.my_id
                                           THEN Cell(n.nodes, i, j) + Cardinality({})
                                           ELSE Cell(n.nodes, i, j)
    BY <1>3, <2>1, NewLemma, SMTT(40)
  <2>3. \A i, j : Cell(n.nodes, i, j) \in Nat
    BY CellLemma DEF IsNode
  <2>4. \A i, j : Cell(q.nodes, i, j) = Cell(n.nodes, i, j)
    BY <2>1, <2>2, <2>3
  <2>. QED BY <2>2, <2>4 DEF Has, SameNode
<1>5. /\ DOMAIN s = DOMAIN q /\ s.nodes = q.nodes /\ s.messages = q.messages
      /\ s.my_id = q.my_id /\ s.status = q.status /\ s.valid_node = q.valid_node
      /\ s.invite_id = q.invite_id /\ s.state = q.state /\ s.log = q.log
  <2>1. DOMAIN q = DOMAIN n
    BY <1>4 DEF IsNode
  <2>2. s = bdm_deldir(bdm_delfile(q, old), old)
    BY DEF before_delete_message, q
  <2>. HIDE DEF s
  <2>. QED BY <1>1, <2>1, <2>2 DEF bdm_delfile, bdm_deldir
<1>6. p = [s EXCEPT !.messages = @ \ old]
  BY DEF remove_old_commands, old
<1>. HIDE DEF s
<1>7. /\ DOMAIN p = DOMAIN n /\ p.nodes = q.nodes /\ p.messages = n.messages \ old
      /\ p.my_id = q.my_id /\ p.status = q.status /\ p.valid_node = q.valid_node
      /\ p.invite_id = q.invite_id /\ p.state = q.state /\ p.log = q.log
  BY <1>1, <1>4, <1>5, <1>6 DEF IsNode
<1>8. Commands(p)
  <2>1. IsFiniteSet(n.messages)
    BY DEF IsNode, Commands
  <2>2. IsFiniteSet(n.messages \ old)
    BY <2>1, FS_Difference
  <2>3. DOMAIN p.nodes = DOMAIN n.nodes
    BY <1>4, <1>7 DEF Members
  <2>. QED BY <1>7, <2>2, <2>3 DEF IsNode, Commands, Single
<1>9. IsNode(p)
  BY <1>4, <1>7, <1>8 DEF IsNode, Members
<1>. QED BY <1>4, <1>7, <1>9 DEF SameNode, Members, Done, Has, old

(* What learning the matrix N does to a node.                                *)
Learns(n, p, N, st) ==
  /\ IsNode(p) /\ p.my_id = n.my_id /\ p.status = st
  /\ p.valid_node = n.valid_node /\ p.invite_id = n.invite_id
  /\ Members(p) = Members(n) /\ p.messages = n.messages
  /\ p.state = n.state /\ p.log = n.log
  /\ \A a : Done(p, a) = Done(n, a)
  /\ \A i, j : /\ Cell(n.nodes, i, j) <= Cell(p.nodes, i, j)
               /\ \/ Cell(p.nodes, i, j) = Cell(n.nodes, i, j)
                  \/ Cell(p.nodes, i, j) = Cell(N, i, j)

(* Update() from another matrix, which may tell a new node that it is a      *)
(* member.                                                                   *)
LEMMA LearnLemma ==
  ASSUME NEW n, IsNode(n), NEW N, IsMatrix(N), NEW st \in {"work", "inviter", "part_init"},
         NEW p, p = [n EXCEPT !.nodes = Update(@, N), !.status = st]
  PROVE  Learns(n, p, N, st)
<1>. DEFINE U == Update(n.nodes, N)
<1>1. DOMAIN n = {"status", "my_id", "nodes", "messages", "state", "log", "disk", "filenames",
                  "valid_node", "invite_id"}
  BY DEF IsNode, Blank
<1>2. IsMatrix(n.nodes)
  BY DEF IsNode
<1>3. /\ IsMatrix(U) /\ DOMAIN U = DOMAIN n.nodes
      /\ \A i, j : /\ Cell(n.nodes, i, j) <= Cell(U, i, j)
                   /\ \/ Cell(U, i, j) = Cell(n.nodes, i, j)
                      \/ Cell(U, i, j) = Cell(N, i, j)
      /\ \A i \in DOMAIN n.nodes : U[i].command_to_exec = n.nodes[i].command_to_exec
  BY <1>2, UpdateLemma
<1>. HIDE DEF U
<1>4. /\ DOMAIN p = DOMAIN n /\ p.nodes = U /\ p.my_id = n.my_id /\ p.status = st
      /\ p.valid_node = n.valid_node /\ p.invite_id = n.invite_id /\ p.messages = n.messages
      /\ p.state = n.state /\ p.log = n.log
  BY <1>1 DEF U
<1>5. Commands(p)
  BY <1>3, <1>4 DEF IsNode, Commands
<1>6. IsNode(p)
  BY <1>3, <1>4, <1>5 DEF IsNode, Members
<1>7. \A a : Done(p, a) = Done(n, a)
  BY <1>3, <1>4 DEF Done, Members
<1>. QED BY <1>3, <1>4, <1>6, <1>7 DEF Members, Learns

(* What the new node p with the UUID id is that was made from the node h.     *)
Enters(p, h, id, st) ==
  /\ IsNode(p) /\ p.my_id = id /\ p.status = st
  /\ p.valid_node = FALSE /\ p.invite_id = 0
  /\ Members(p) = Members(h) \cup {id} /\ p.messages = h.messages
  /\ p.state = h.state /\ p.log = h.log
  /\ \A a : Done(p, a) = Done(h, a) /\ Has(p, a) = Has(h, a)
  /\ \A i, j : i # id => Cell(p.nodes, i, j) = Cell(h.nodes, i, j)

(* Initialized(): the matrix of the inviter, and one more member that knows  *)
(* what the inviter knows.                                                   *)
LEMMA JoinLemma ==
  ASSUME NoId \notin Ids, NEW h, IsNode(h), NEW id \in Ids, id \notin Members(h),
         NEW st \in {"work", "part_init"},
         NEW p, p = [Initialized(Blank, h, id) EXCEPT !.status = st]
  PROVE  Enters(p, h, id, st)
<1>. DEFINE R == Resize(h.nodes, id, h.my_id)
<1>1. IsMatrix(h.nodes) /\ h.my_id \in DOMAIN h.nodes /\ Members(h) = DOMAIN h.nodes
      /\ h.my_id # NoId
  BY NodeLemma DEF Members
<1>2. /\ IsMatrix(R) /\ DOMAIN R = DOMAIN h.nodes \cup {id}
      /\ \A i, j : Cell(R, i, j) = IF i = id /\ id \notin DOMAIN h.nodes
                                   THEN IF h.my_id = NoId THEN 0 ELSE Cell(h.nodes, h.my_id, j)
                                   ELSE Cell(h.nodes, i, j)
      /\ \A i \in DOMAIN h.nodes \cup {id} : R[i].command_to_exec =
             IF i \in DOMAIN h.nodes THEN h.nodes[i].command_to_exec ELSE 0
  BY <1>1, ResizeLemma
<1>3. /\ DOMAIN p = DOMAIN Blank /\ p.nodes = R /\ p.my_id = id /\ p.status = st
      /\ p.valid_node = FALSE /\ p.invite_id = 0 /\ p.messages = h.messages
      /\ p.state = h.state /\ p.log = h.log
  BY DEF Initialized, Blank
<1>. HIDE DEF R
<1>4. Members(p) = Members(h) \cup {id}
  BY <1>1, <1>2, <1>3 DEF Members
<1>5. Commands(p)
  BY <1>2, <1>3 DEF IsNode, Commands, IsCommand
<1>6. IsNode(p)
  BY <1>2, <1>3, <1>4, <1>5 DEF IsNode
<1>7. ASSUME NEW i, NEW j
      PROVE  Cell(p.nodes, i, j) = IF i = id THEN Has(h, j) ELSE Cell(h.nodes, i, j)
  BY <1>1, <1>2, <1>3 DEF Has
<1>8. \A a : Has(p, a) = Has(h, a)
  BY <1>3, <1>7 DEF Has
<1>9. \A a : Done(p, a) = Done(h, a)
  BY <1>1, <1>2, <1>3, <1>4 DEF Done
<1>. QED BY <1>3, <1>4, <1>6, <1>7, <1>8, <1>9 DEF Enters

(* The plans in which nobody leaves, every new member hears that it is one,   *)
(* and no computer can join in two ways at once.                             *)
Joining == /\ left.leaving = {} /\ left.forced = {} /\ left.losses = 0
           /\ left.invites = 0 \/ left.network \subseteq left.founders

Present(c) == core[c].status # "uninitialized"
Id(c) == core[c].my_id
Known(c, a) == Has(core[c], a)

Snapshots == {core[c] : c \in {x \in Computers : Present(x)}} \cup {f.from : f \in invites}
Sources == Snapshots \cup packets
Spoken == {core[c] : c \in {x \in Computers : Working(x)}} \cup {f.from : f \in invites}
              \cup packets
Names(h) == DOMAIN h.nodes \cup {m.val : m \in {x \in h.messages : x.name = "addnode"}}

PlanOK == /\ left \in Plan
          /\ left.leaving = {} /\ left.forced = {} /\ left.losses = 0
          /\ \/ left.invites = 0 /\ invites = {}
             \/ left.network \subseteq left.founders
          /\ left.founders \subseteq Computers

CoreOK == /\ core = [c \in Computers |-> core[c]]
          /\ \A c \in Computers : \/ core[c] = Blank
                                  \/ IsNode(core[c]) /\ Id(c) \in drawn
          /\ \A c \in Computers : core[c].status = "part_init" => core[c].invite_id = 0
          /\ \A c, d \in Computers : Present(c) /\ Present(d) /\ Id(c) = Id(d) => c = d
          /\ \A c \in Computers : Present(c) => Done(core[c], Id(c)) <= Known(c, Id(c))
          /\ drawn \subseteq Ids /\ \A i \in drawn, j \in Ids \ drawn : i < j

RunningOK == /\ running.on \in Computers \cup {NoId}
             /\ running.on = NoId => running = NotRunning
             /\ running.on \in Computers => Present(running.on)
             /\ running.final \in BOOLEAN
             /\ running.final => running.on \in Computers /\ Working(running.on)

(* The commands between those that are executed and those that are known are  *)
(* stored.                                                                   *)
Unexecuted(n) ==
    \A a, k : k \in Nat /\ Done(n, a) <= k /\ k < Has(n, a) => Stored(n, a, k)

SourcesOK == /\ \A h \in Snapshots : IsNode(h) /\ Unexecuted(h)
             /\ \A h \in Sources : IsMatrix(h.nodes) /\ Commands(h) /\ Names(h) \subseteq drawn

(* No matrix credits a node with a command it does not know.                 *)
Sound == \A h \in Sources, c \in Computers : Present(c) =>
            \A y : Cell(h.nodes, Id(c), y) <= Known(c, y)

(* A node can execute its own commands in their order.                       *)
Own == \A h \in Sources, c \in Computers : Present(c) =>
          \A m \in h.messages : m.author = Id(c) =>
             /\ m.number < Known(c, Id(c))
             /\ DOMAIN m.depends \subseteq Members(core[c])
             /\ Done(core[c], Id(c)) <= m.number =>
                    \A i \in DOMAIN m.depends : m.depends[i] <= Done(core[c], i)

(* h stores what it knows and c does not.                                    *)
Kept(h, c) ==
    \A a, k : k \in Nat /\ Known(c, a) <= k /\ k < Has(h, a) => Stored(h, a, k)

(* Everybody keeps for a founder what it lacks.                              *)
Roots == \A c \in left.founders : Present(c) /\ \A h \in Snapshots :
            Id(c) \in Members(h) /\ Kept(h, c)

(* For every other member, the one that has invited it does.                 *)
Announced(c) == Working(c) \/ \E h \in Spoken : Id(c) \in Names(h)
Welcome(m, i, id) == /\ m \in core[i].messages
                     /\ m.author = Id(i) /\ m.name = "addnode" /\ m.val = id
                     /\ Done(core[i], Id(i)) <= m.number
Welcoming(i, c) == running.on = i /\ \E m \in core[i].messages : Welcome(m, i, Id(c))
Invited(i, c) == /\ Working(i) /\ Id(i) < Id(c) /\ Kept(core[i], c)
                 /\ Id(c) \in Members(core[i]) \/ Welcoming(i, c)
Chain == \A c \in Computers : Present(c) /\ c \notin left.founders /\ Announced(c) =>
             \E i \in Computers : Invited(i, c)

(* A computer that has read an offline invite knows only what is in it.      *)
PartInit == \A c \in Computers : core[c].status = "part_init" =>
                \E f \in invites : /\ Id(c) \in f.uuids
                                   /\ Names(core[c]) \subseteq Names(f.from) \cup {Id(c)}

(* There is one addnode for each new member, which executes it once.         *)
IsAddNode(m) == m.name = "addnode" /\ \E h \in Sources : m \in h.messages
AddNodes == \A m, x : IsAddNode(m) /\ IsAddNode(x) /\ x.val = m.val =>
                x.author = m.author /\ x.number = m.number
Valid == \A m, c : IsAddNode(m) /\ c \in Computers /\ Present(c) /\ Id(c) = m.val =>
            /\ c \notin left.founders
            /\ core[c].valid_node # FALSE => m.number < Done(core[c], m.author)

Writes(w, f) == w \in Computers /\ Working(w) /\ Id(w) = f.from.my_id
InvitesOK ==
  /\ \A f \in invites :
        /\ DOMAIN f = {"id", "from", "uuids"} /\ f.id \in Nat /\ f.id > left.invites
        /\ f.uuids \subseteq drawn
        /\ \A u \in f.uuids : f.from.my_id < u
        /\ \E w \in Computers : Writes(w, f)
        /\ \A c \in Computers : core[c].invite_id = f.id => Id(c) = f.from.my_id
        /\ \A c \in Computers : Present(c) /\ Id(c) \in f.uuids =>
               c \notin left.founders /\ \A a : Has(f.from, a) <= Known(c, a)
  /\ \A f, g \in invites : f.id = g.id \/ f.uuids \cap g.uuids # {} => f = g
  /\ \A c \in Computers : core[c].invite_id # 0 =>
         core[c].invite_id \in Nat /\ core[c].invite_id > left.invites

(* The inviter keeps for the computers that read its last invite what they   *)
(* lack, and nobody has heard of them yet.                                   *)
Open(w, f) == Writes(w, f) /\ core[w].status = "inviter" /\ core[w].invite_id = f.id
InvitesKept == \A f \in invites, w \in Computers : Open(w, f) =>
    /\ \A a, k : k \in Nat /\ Has(f.from, a) <= k /\ k < Known(w, a) => Stored(core[w], a, k)
    /\ running # [on |-> w, final |-> TRUE] =>
         /\ \A m : IsAddNode(m) => m.val \notin f.uuids
         /\ \A c \in Computers : Present(c) /\ Id(c) \in f.uuids => core[c].valid_node = FALSE

MembersInv == /\ PlanOK /\ CoreOK /\ RunningOK /\ SourcesOK /\ Sound /\ Own /\ Roots /\ Chain
              /\ PartInit /\ AddNodes /\ Valid /\ InvitesOK /\ InvitesKept

(* What one of two members lacks is stored by the first of those that have    *)
(* invited it, and the one that has invited that, and so on, who knows it; or,*)
(* if none of them does, by the other member.                                *)
LEMMA NeededLemma ==
  ASSUME MembershipAssumption, MembersInv
  PROVE  NeededIsKept
<1>. USE DEF MembersInv
<1>0. \A c \in Computers : Working(c) => /\ Present(c) /\ IsNode(core[c]) /\ Id(c) \in Nat
                                         /\ core[c] \in Snapshots
  BY DEF CoreOK, Working, Present, Snapshots, Blank, MembershipAssumption
<1>. SUFFICES ASSUME NEW c \in Computers, NEW d \in Computers, Working(c), Working(d),
                     NEW a, a \in Members(core[c]), a \in Members(core[d]),
                     NEW k \in Row(core[c])[a] .. Row(core[d])[a] - 1
              PROVE  \E e \in Computers : Up(e) /\ Stored(core[e], a, k)
  BY DEF NeededIsKept
<1>1. Known(c, a) \in Nat /\ Known(c, a) <= k /\ k < Known(d, a) /\ k \in Nat
  <2>1. Row(core[c])[a] = Known(c, a) /\ Row(core[d])[a] = Known(d, a)
        /\ Known(c, a) \in Nat /\ Known(d, a) \in Nat
    BY <1>0, NodeLemma DEF Known
  <2>. QED BY <2>1
<1>. DEFINE S == {Id(x) : x \in {y \in Computers : Working(y) /\ Known(y, a) <= k}}
<1>2. Id(c) \in S /\ S \subseteq Nat
  BY <1>0, <1>1
<1>3. PICK s \in S : \A t \in S : s <= t
  <2>. HIDE DEF S
  <2>. QED BY <1>2, SmallestLemma
<1>4. PICK e \in Computers : Working(e) /\ Known(e, a) <= k /\ Id(e) = s
  OBVIOUS
<1>5. CASE e \in left.founders
  <2>1. Kept(core[d], e)
    BY <1>0, <1>5 DEF Roots
  <2>2. Stored(core[d], a, k)
    BY <1>1, <1>4, <2>1 DEF Kept, Known
  <2>. QED BY <2>2 DEF Up, Working
<1>6. CASE e \notin left.founders
  <2>1. PICK i \in Computers : Invited(i, e)
    BY <1>0, <1>4, <1>6 DEF Chain, Announced
  <2>2. Working(i) /\ Id(i) < Id(e) /\ Kept(core[i], e)
    BY <2>1 DEF Invited
  <2>3. k < Known(i, a)
    <3>1. Id(i) \notin S
      BY <1>0, <1>3, <1>4, <2>2
    <3>2. ~(Known(i, a) <= k)
      BY <2>2, <3>1
    <3>3. Known(i, a) \in Nat
      BY <1>0, <2>2, NodeLemma DEF Known
    <3>. QED BY <1>1, <3>2, <3>3
  <2>4. Stored(core[i], a, k)
    BY <1>1, <1>4, <2>2, <2>3 DEF Kept, Known
  <2>. QED BY <2>2, <2>4 DEF Up, Working
<1>. QED BY <1>5, <1>6

(* p is the node n after at most one command was executed on it.              *)
Follows(n, p) ==
    /\ p.log = n.log
    /\ \/ p.state = n.state /\ \A a : Done(p, a) = Done(n, a)
       \/ \E m \in n.messages :
             /\ m.author \in Members(n) /\ m.number = Done(n, m.author)
             /\ \A a : Done(p, a) = IF a = m.author THEN Done(n, a) + 1 ELSE Done(n, a)
             /\ p.state = IF m.name = "other" THEN n.state \cup {<<m.author, m.number>>}
                          ELSE n.state
             /\ m.name = "addnode" => m.val \in Members(p)

(* What a step may do to a node: p is the node x afterwards, and V the new    *)
(* members that it tells of.                                                 *)
Created(m, x, p, V) ==
    /\ m.author = Id(x) /\ Has(core[x], Id(x)) <= m.number /\ m.number < Has(p, Id(x))
    /\ DOMAIN m.depends \subseteq Members(core[x])
    /\ \A i \in DOMAIN m.depends : m.depends[i] <= Done(core[x], i)
    /\ m.name = "addnode" => m.val \in V

Evolves(x, p, V) ==
    LET n == core[x]
    IN  /\ IsNode(p) /\ Unexecuted(p) /\ Follows(n, p)
        /\ p.my_id = n.my_id
        /\ \/ p.invite_id = n.invite_id /\ (p.status = "inviter" => n.status = "inviter")
           \/ p.status = "inviter" /\ \E f \in invites' : f \notin invites /\ f.id = p.invite_id
        /\ p.status = "part_init" => /\ n.status = "part_init" /\ Names(p) \subseteq Names(n)
                                     /\ \A a : Has(p, a) = Has(n, a)
        /\ n.status = "part_init" /\ p.status # "part_init" =>
               \E h \in packets : n.my_id \in Names(h)
        /\ Members(n) \subseteq Members(p)
        /\ \A a : Done(n, a) <= Done(p, a) /\ Has(n, a) <= Has(p, a)
        /\ Done(p, n.my_id) <= Has(p, n.my_id)
        /\ \A i, j : i # n.my_id => \E h \in Sources : Cell(p.nodes, i, j) <= Cell(h.nodes, i, j)
        /\ \A a, k : k \in Nat /\ Has(n, a) <= k /\ k < Has(p, a) => Stored(p, a, k)
        /\ \A m \in p.messages : \/ \E h \in Sources : m \in h.messages
                                 \/ Created(m, x, p, V)
        /\ \A m \in n.messages \ p.messages : /\ m \in Forgettable(n)
                                              /\ n.status # "inviter"
                                              /\ command_to_exec(n) = {}
        /\ \A y \in Names(p) : y \in Names(n) \/ y \in V \/ \E h \in Spoken : y \in Names(h)
        /\ p.valid_node # n.valid_node =>
               \E m \in n.messages : /\ m.name = "addnode" /\ m.val = n.my_id
                                     /\ m.number < Done(p, m.author)

(* q is a computer that has joined.                                          *)
Joins(q, V) ==
    /\ IsNode(q) /\ q.my_id \in Ids \ drawn
    /\ q.status \in {"work", "part_init"}
    /\ q.status = "work" => q.my_id \in V
    /\ q.valid_node = FALSE /\ q.invite_id = 0
    /\ \E h \in Snapshots \cap Spoken :
           /\ Members(q) = Members(h) \cup {q.my_id} /\ q.messages = h.messages
           /\ q.state = h.state /\ q.log = h.log
           /\ \A a : Done(q, a) = Done(h, a) /\ Has(q, a) = Has(h, a)
           /\ \A i, j : i # q.my_id => Cell(q.nodes, i, j) = Cell(h.nodes, i, j)
           /\ q.status = "part_init" =>
                \E f \in invites' : q.my_id \in f.uuids /\ Names(h) \subseteq Names(f.from)

Step(e, V) ==
    /\ core' = [x \in Computers |-> core'[x]]
    /\ \A x \in Computers : \/ core[x] = Blank /\ core'[x] = Blank
                            \/ Present(x) /\ Evolves(x, core'[x], V)
                            \/ x = e /\ core[x] = Blank /\ Joins(core'[x], V)
    /\ \A q \in packets' : \/ q \in packets
                           \/ \E c \in Computers : /\ Working(c) /\ q.nodes = core[c].nodes
                                                   /\ q.messages = core[c].messages
    /\ \A f \in invites' : f.from \in Snapshots \cap Spoken
    /\ \A f \in invites : \E g \in invites' : g.from = f.from /\ f.uuids \subseteq g.uuids
    /\ \A i \in drawn', j \in Ids \ drawn' : i < j
    /\ drawn' \subseteq Ids /\ drawn \subseteq drawn' /\ V \subseteq drawn'
    /\ \A i \in drawn' \ drawn : \E c \in Computers : core'[c].my_id = i
    /\ \A x \in Computers : core[x] = Blank /\ core'[x] # Blank => core'[x].my_id \in drawn'
    /\ left.founders = left'.founders
    /\ \A i, c \in Computers : Present(c) /\ Welcoming(i, c) =>
           Welcoming(i, c)' \/ Id(c) \in Members(core'[i])

(* What the invariant says of a computer that is in the group.              *)
LEMMA PresentLemma ==
  ASSUME MembersInv, NEW c \in Computers
  PROVE  /\ Present(c) <=> core[c] # Blank
         /\ Present(c) => /\ IsNode(core[c]) /\ Id(c) \in drawn /\ Id(c) \in Members(core[c])
                          /\ core[c] \in Snapshots /\ core[c] \in Sources /\ Unexecuted(core[c])
         /\ Working(c) => Present(c) /\ core[c] \in Spoken
         /\ Present(c) /\ ~Working(c) => core[c].status = "part_init"
<1>1. core[c] = Blank \/ (IsNode(core[c]) /\ Id(c) \in drawn)
  BY DEF MembersInv, CoreOK
<1>2. Blank.status = "uninitialized"
  BY DEF Blank
<1>3. IsNode(core[c]) => core[c].status \in {"work", "inviter", "part_init"} /\ Id(c) \in Members(core[c])
  BY DEF IsNode, Id
<1>4. Present(c) <=> core[c] # Blank
  BY <1>1, <1>2, <1>3 DEF Present
<1>5. Present(c) => core[c] \in Snapshots /\ core[c] \in Sources
  BY DEF Snapshots, Sources
<1>6. Present(c) => Unexecuted(core[c])
  BY <1>5 DEF MembersInv, SourcesOK
<1>7. Working(c) => Present(c) /\ core[c] \in Spoken
  BY DEF Working, Present, Spoken
<1>. QED BY <1>1, <1>3, <1>4, <1>5, <1>6, <1>7 DEF Present, Working

(* Nobody disappears, and whatever a node knows and has done, it knows and    *)
(* has done afterwards.                                                      *)
LEMMA GrowthLemma ==
  ASSUME MembersInv, NEW e, NEW V, Step(e, V), NEW c \in Computers, Present(c)
  PROVE  /\ Present(c)' /\ Id(c)' = Id(c) /\ Evolves(c, core'[c], V)
         /\ \A a : Known(c, a) <= Known(c, a)' /\ Known(c, a) \in Nat /\ Known(c, a)' \in Nat
         /\ \A a : Done(core[c], a) <= Done(core'[c], a)
         /\ Members(core[c]) \subseteq Members(core'[c])
         /\ Working(c) => Working(c)'
<1>1. core[c] # Blank /\ IsNode(core[c])
  BY PresentLemma
<1>2. Evolves(c, core'[c], V)
  BY <1>1 DEF Step
<1>3. IsNode(core'[c]) /\ core'[c].my_id = core[c].my_id
  BY <1>2 DEF Evolves
<1>4. Present(c)'
  BY <1>3 DEF Present, IsNode
<1>5. \A a : Has(core[c], a) \in Nat /\ Has(core'[c], a) \in Nat
  BY <1>1, <1>3, NodeLemma
<1>6. Working(c) => Working(c)'
  BY <1>2, <1>3 DEF Evolves, Working, IsNode
<1>. QED BY <1>2, <1>3, <1>4, <1>5, <1>6 DEF Evolves, Known, Id

(* Who is in the group after a step and was not before is the one computer  *)
(* that has joined in it.                                                   *)
LEMMA NewcomerLemma ==
  ASSUME MembersInv, NEW e, NEW V, Step(e, V), NEW c \in Computers, ~Present(c), Present(c)'
  PROVE  c = e /\ Joins(core'[c], V) /\ Id(c)' \notin drawn
<1>1. core[c] = Blank
  BY PresentLemma
<1>2. core'[c] # Blank
  BY DEF Present, Blank
<1>3. c = e /\ Joins(core'[c], V)
  BY <1>1, <1>2 DEF Step
<1>. QED BY <1>3 DEF Joins, Id

(* Where matrices and commands come from.                                    *)
LEMMA SourcesLemma ==
  ASSUME MembersInv, NEW e, NEW V, Step(e, V), NEW h \in Sources'
  PROVE  \/ \E g \in Sources : g.nodes = h.nodes /\ g.messages = h.messages
         \/ \E x \in Computers : Present(x) /\ h = core'[x] /\ Evolves(x, h, V)
         \/ \E x \in Computers : ~Present(x) /\ Present(x)' /\ h = core'[x] /\ Joins(h, V)
<1>1. CASE h \in packets'
  <2>1. h \in packets \/ \E c \in Computers : /\ Working(c) /\ h.nodes = core[c].nodes
                                              /\ h.messages = core[c].messages
    BY <1>1 DEF Step
  <2>2. \A c \in Computers : Working(c) => core[c] \in Sources
    BY PresentLemma
  <2>. QED BY <2>1, <2>2 DEF Sources
<1>2. CASE \E f \in invites' : h = f.from
  <2>1. h \in Snapshots
    BY <1>2 DEF Step
  <2>. QED BY <2>1 DEF Sources
<1>3. CASE \E x \in Computers : Present(x)' /\ h = core'[x]
  <2>1. PICK x \in Computers : Present(x)' /\ h = core'[x]
    BY <1>3
  <2>2. CASE Present(x)
    BY <2>1, <2>2, GrowthLemma
  <2>3. CASE ~Present(x)
    BY <2>1, <2>3, NewcomerLemma
  <2>. QED BY <2>2, <2>3
<1>. QED BY <1>1, <1>2, <1>3 DEF Sources, Snapshots

(* No two computers have the same UUID after a step.                        *)
LEMMA UniqueLemma ==
  ASSUME MembersInv, NEW e, NEW V, Step(e, V), NEW c \in Computers, NEW d \in Computers,
         Present(c)', Present(d)', Id(c)' = Id(d)'
  PROVE  c = d
<1>1. CASE Present(c) /\ Present(d)
  <2>1. Id(c) = Id(d)
    BY <1>1, GrowthLemma
  <2>. QED BY <1>1, <2>1 DEF MembersInv, CoreOK
<1>2. CASE ~Present(c) /\ ~Present(d)
  BY <1>2, NewcomerLemma
<1>3. CASE Present(c) /\ ~Present(d)
  <2>1. Id(c)' \in drawn
    BY <1>3, GrowthLemma, PresentLemma
  <2>2. Id(d)' \notin drawn
    BY <1>3, NewcomerLemma
  <2>. QED BY <2>1, <2>2
<1>4. CASE ~Present(c) /\ Present(d)
  <2>1. Id(d)' \in drawn
    BY <1>4, GrowthLemma, PresentLemma
  <2>2. Id(c)' \notin drawn
    BY <1>4, NewcomerLemma
  <2>. QED BY <2>1, <2>2
<1>. QED BY <1>1, <1>2, <1>3, <1>4

(* A source has the commands of earlier ones, and those that were created.    *)
LEMMA MessageLemma ==
  ASSUME MembersInv, NEW e, NEW V, Step(e, V), NEW h \in Sources', NEW m \in h.messages
  PROVE  \/ \E g \in Sources : m \in g.messages /\ m.author \in drawn
                               /\ (m.name = "addnode" => m.val \in drawn)
         \/ \E x \in Computers : Present(x) /\ Created(m, x, core'[x], V) /\ m \in core'[x].messages
<1>0. \A g \in Sources : m \in g.messages => m.author \in drawn /\ (m.name = "addnode" => m.val \in drawn)
  BY DEF MembersInv, SourcesOK, Commands, IsCommand, Names
<1>1. CASE \E g \in Sources : g.nodes = h.nodes /\ g.messages = h.messages
  BY <1>0, <1>1
<1>2. CASE \E x \in Computers : Present(x) /\ h = core'[x] /\ Evolves(x, h, V)
  BY <1>0, <1>2 DEF Evolves
<1>3. CASE \E x \in Computers : ~Present(x) /\ Present(x)' /\ h = core'[x] /\ Joins(h, V)
  <2>1. PICK g \in Snapshots : h.messages = g.messages
    BY <1>3 DEF Joins
  <2>2. g \in Sources
    BY DEF Sources
  <2>. QED BY <1>0, <2>1, <2>2
<1>. QED BY <1>1, <1>2, <1>3, SourcesLemma

(* A step keeps the nodes well formed, and their UUIDs different and drawn in*)
(* increasing order.                                                        *)
LEMMA CoreStep ==
  ASSUME MembersInv, NEW e, NEW V, Step(e, V)
  PROVE  CoreOK'
<1>1. core' = [x \in Computers |-> core'[x]] /\ drawn' \subseteq Ids
  BY DEF Step
<1>2. ASSUME NEW c \in Computers
      PROVE  /\ core'[c] = Blank \/ (IsNode(core'[c]) /\ Id(c)' \in drawn')
             /\ core'[c].status = "part_init" => core'[c].invite_id = 0
  <2>1. CASE Present(c)
    <3>1. Evolves(c, core'[c], V) /\ Id(c)' = Id(c) /\ Id(c) \in drawn
      BY <2>1, GrowthLemma, PresentLemma
    <3>2. IsNode(core'[c]) /\ Id(c)' \in drawn'
      BY <3>1 DEF Evolves, Step
    <3>3. core'[c].status = "part_init" => core'[c].invite_id = 0
      BY <3>1 DEF Evolves, MembersInv, CoreOK
    <3>. QED BY <3>2, <3>3
  <2>2. CASE ~Present(c) /\ Present(c)'
    <3>1. Joins(core'[c], V) /\ core[c] = Blank
      BY <2>2, NewcomerLemma, PresentLemma
    <3>2. core'[c] # Blank
      BY <2>2 DEF Present, Blank
    <3>. QED BY <3>1, <3>2 DEF Joins, Id, Step
  <2>3. CASE ~Present(c) /\ ~Present(c)'
    <3>1. core[c] = Blank
      BY <2>3, PresentLemma
    <3>2. core'[c] = Blank
      BY <2>3, <3>1 DEF Step, Joins, IsNode, Present
    <3>. QED BY <3>2 DEF Blank
  <2>. QED BY <2>1, <2>2, <2>3
<1>3. \A c, d \in Computers : Present(c)' /\ Present(d)' /\ Id(c)' = Id(d)' => c = d
  BY UniqueLemma
<1>4. ASSUME NEW c \in Computers, Present(c)'
      PROVE  Done(core'[c], Id(c)') <= Known(c, Id(c))'
  <2>1. CASE Present(c)
    BY <2>1, GrowthLemma DEF Evolves, Known, Id
  <2>2. CASE ~Present(c)
    <3>1. Joins(core'[c], V) /\ Id(c)' \notin drawn
      BY <1>4, <2>2, NewcomerLemma
    <3>2. PICK h \in Snapshots : \A a : Done(core'[c], a) = Done(h, a) /\ Has(core'[c], a) = Has(h, a)
      BY <3>1 DEF Joins
    <3>3. Members(h) \subseteq drawn /\ IsNode(h)
      BY DEF MembersInv, SourcesOK, Sources, Names, Members
    <3>4. Done(h, Id(c)') = 0 /\ Has(h, Id(c)') \in Nat
      BY <3>1, <3>3, NodeLemma DEF Done
    <3>5. Known(c, Id(c))' = Has(h, Id(c)')
      BY <3>2 DEF Known
    <3>. QED BY <3>2, <3>4, <3>5
  <2>. QED BY <2>1, <2>2
<1>5. \A i \in drawn', j \in Ids \ drawn' : i < j
  BY DEF Step
<1>. QED BY <1>1, <1>2, <1>3, <1>4, <1>5 DEF CoreOK

(* A step keeps what is in nodes, invite files and packets well formed.     *)
LEMMA SourcesStep ==
  ASSUME MembersInv, NEW e, NEW V, Step(e, V)
  PROVE  SourcesOK'
<1>0. drawn \subseteq drawn' /\ V \subseteq drawn'
  BY DEF Step
<1>1. ASSUME NEW h \in Snapshots, NEW q, Joins(q, V), q.messages = h.messages,
             \A a : Done(q, a) = Done(h, a) /\ Has(q, a) = Has(h, a)
      PROVE  Unexecuted(q)
  <2>1. Unexecuted(h)
    BY DEF MembersInv, SourcesOK
  <2>. QED BY <1>1, <2>1 DEF Unexecuted, Stored
<1>2. ASSUME NEW h \in Snapshots'
      PROVE  IsNode(h) /\ Unexecuted(h)
  <2>1. CASE h \in {f.from : f \in invites'}
    <3>1. h \in Snapshots
      BY <2>1 DEF Step
    <3>. QED BY <3>1 DEF MembersInv, SourcesOK
  <2>2. CASE \E x \in Computers : Present(x)' /\ h = core'[x]
    <3>1. PICK x \in Computers : Present(x)' /\ h = core'[x]
      BY <2>2
    <3>2. CASE Present(x)
      BY <3>1, <3>2, GrowthLemma DEF Evolves
    <3>3. CASE ~Present(x)
      <4>1. Joins(h, V)
        BY <3>1, <3>3, NewcomerLemma
      <4>2. IsNode(h) /\ \E g \in Snapshots : h.messages = g.messages
                             /\ \A a : Done(h, a) = Done(g, a) /\ Has(h, a) = Has(g, a)
        BY <4>1 DEF Joins
      <4>. QED BY <1>1, <4>1, <4>2
    <3>. QED BY <3>2, <3>3
  <2>. QED BY <2>1, <2>2 DEF Snapshots
<1>3. ASSUME NEW h \in Sources'
      PROVE  IsMatrix(h.nodes) /\ Commands(h) /\ Names(h) \subseteq drawn'
  <2>1. CASE \E g \in Sources : g.nodes = h.nodes /\ g.messages = h.messages
    BY <1>0, <2>1 DEF MembersInv, SourcesOK, Commands, Names
  <2>2. CASE \E x \in Computers : Present(x) /\ h = core'[x] /\ Evolves(x, h, V)
    <3>1. PICK x \in Computers : Present(x) /\ h = core'[x] /\ Evolves(x, h, V)
      BY <2>2
    <3>2. IsMatrix(h.nodes) /\ Commands(h)
      BY <3>1 DEF Evolves, IsNode
    <3>3. \A y \in Names(h) : y \in Names(core[x]) \/ y \in V \/ \E g \in Spoken : y \in Names(g)
      BY <3>1 DEF Evolves
    <3>4. core[x] \in Sources /\ Spoken \subseteq Sources
      <4>1. \A c \in Computers : Working(c) => core[c] \in Sources
        BY PresentLemma
      <4>. QED BY <3>1, <4>1, PresentLemma DEF Spoken, Sources, Snapshots
    <3>5. Names(h) \subseteq drawn'
      BY <1>0, <3>3, <3>4 DEF MembersInv, SourcesOK
    <3>. QED BY <3>2, <3>5
  <2>3. CASE \E x \in Computers : ~Present(x) /\ Present(x)' /\ h = core'[x] /\ Joins(h, V)
    <3>1. PICK x \in Computers : ~Present(x) /\ Present(x)' /\ h = core'[x] /\ Joins(h, V)
      BY <2>3
    <3>2. IsMatrix(h.nodes) /\ Commands(h)
      BY <3>1 DEF Joins, IsNode
    <3>3. PICK g \in Snapshots : Members(h) = Members(g) \cup {h.my_id} /\ h.messages = g.messages
      BY <3>1 DEF Joins
    <3>4. h.my_id \in drawn'
      <4>1. core[x] = Blank /\ core'[x] # Blank
        BY <3>1, PresentLemma DEF Present, Blank
      <4>. QED BY <3>1, <4>1 DEF Step
    <3>5. Names(g) \subseteq drawn
      BY DEF MembersInv, SourcesOK, Sources
    <3>. QED BY <1>0, <3>2, <3>3, <3>4, <3>5 DEF Names, Members
  <2>. QED BY <2>1, <2>2, <2>3, SourcesLemma
<1>. QED BY <1>2, <1>3 DEF SourcesOK

(* A step credits no node with a command that it does not know.             *)
LEMMA SoundStep ==
  ASSUME MembersInv, NEW e, NEW V, Step(e, V)
  PROVE  Sound'
<1>. SUFFICES ASSUME NEW h \in Sources', NEW c \in Computers, Present(c)', NEW y
              PROVE  Cell(h.nodes, Id(c)', y) <= Known(c, y)'
  BY DEF Sound
<1>1. IsNode(core'[c]) /\ Known(c, y)' \in Nat
  <2>1. core'[c] # Blank
    BY DEF Present, Blank
  <2>2. IsNode(core'[c])
    BY <2>1, CoreStep DEF CoreOK
  <2>. QED BY <2>2, NodeLemma DEF Known
(* What the old sources say. *)
<1>2. ASSUME NEW g \in Sources
      PROVE  Cell(g.nodes, Id(c)', y) <= Known(c, y)'
  <2>1. IsMatrix(g.nodes) /\ DOMAIN g.nodes \subseteq drawn
    BY DEF MembersInv, SourcesOK, Names
  <2>2. Cell(g.nodes, Id(c)', y) \in Nat
    BY <2>1, CellLemma
  <2>3. CASE Present(c)
    <3>1. /\ Id(c)' = Id(c) /\ Known(c, y) <= Known(c, y)'
          /\ Known(c, y) \in Nat
      BY <2>3, GrowthLemma
    <3>2. Cell(g.nodes, Id(c), y) <= Known(c, y)
      BY <2>3 DEF MembersInv, Sound
    <3>. QED BY <1>1, <2>2, <3>1, <3>2
  <2>4. CASE ~Present(c)
    <3>1. Id(c)' \notin drawn
      BY <2>4, NewcomerLemma
    <3>2. Cell(g.nodes, Id(c)', y) = 0
      BY <2>1, <3>1 DEF Cell
    <3>. QED BY <1>1, <3>2
  <2>. QED BY <2>3, <2>4
<1>3. CASE \E g \in Sources : g.nodes = h.nodes /\ g.messages = h.messages
  BY <1>2, <1>3
<1>4. CASE h = core'[c]
  <2>1. Cell(h.nodes, Id(c)', y) = Known(c, y)'
    BY <1>4 DEF Known, Has, Id
  <2>. QED BY <1>1, <2>1
<1>5. CASE \E x \in Computers : x # c /\ Present(x) /\ h = core'[x] /\ Evolves(x, h, V)
  <2>1. PICK x \in Computers : x # c /\ Present(x) /\ h = core'[x] /\ Evolves(x, h, V)
    BY <1>5
  <2>2. Id(c)' # core[x].my_id
    <3>1. Present(x)' /\ Id(x)' = Id(x)
      BY <2>1, GrowthLemma
    <3>. QED BY <2>1, <3>1, UniqueLemma DEF Id
  <2>3. PICK g \in Sources : Cell(h.nodes, Id(c)', y) <= Cell(g.nodes, Id(c)', y)
    BY <2>1, <2>2 DEF Evolves
  <2>4. IsMatrix(g.nodes) /\ IsMatrix(h.nodes)
    BY <2>1 DEF MembersInv, SourcesOK, Evolves, IsNode
  <2>5. Cell(h.nodes, Id(c)', y) \in Nat /\ Cell(g.nodes, Id(c)', y) \in Nat
    BY <2>4, CellLemma
  <2>6. Cell(g.nodes, Id(c)', y) <= Known(c, y)'
    BY <1>2
  <2>. QED BY <1>1, <2>3, <2>5, <2>6
<1>6. CASE \E x \in Computers : x # c /\ ~Present(x) /\ Present(x)' /\ h = core'[x] /\ Joins(h, V)
  <2>1. PICK x \in Computers : x # c /\ ~Present(x) /\ Present(x)' /\ h = core'[x] /\ Joins(h, V)
    BY <1>6
  <2>2. Id(c)' # h.my_id
    BY <2>1, UniqueLemma DEF Id
  <2>3. PICK g \in Snapshots : Cell(h.nodes, Id(c)', y) = Cell(g.nodes, Id(c)', y)
    BY <2>1, <2>2 DEF Joins
  <2>4. g \in Sources
    BY DEF Sources
  <2>. QED BY <1>2, <2>3, <2>4
<1>. QED BY <1>3, <1>4, <1>5, <1>6, SourcesLemma

(* A step leaves every node able to execute its own commands in their order.*)
LEMMA OwnStep ==
  ASSUME MembersInv, NEW e, NEW V, Step(e, V)
  PROVE  Own'
<1>. SUFFICES ASSUME NEW h \in Sources', NEW c \in Computers, Present(c)',
                     NEW m \in h.messages, m.author = Id(c)'
              PROVE  /\ m.number < Known(c, Id(c))'
                     /\ DOMAIN m.depends \subseteq Members(core'[c])
                     /\ Done(core'[c], Id(c)') <= m.number =>
                            \A i \in DOMAIN m.depends : m.depends[i] <= Done(core'[c], i)
  BY DEF Own
<1>1. IsCommand(m, DOMAIN h.nodes)
  BY SourcesStep DEF SourcesOK, Commands
<1>2. m.number \in Nat /\ \A i \in DOMAIN m.depends : m.depends[i] \in Nat
  BY <1>1 DEF IsCommand
<1>3. CASE \E g \in Sources : m \in g.messages /\ m.author \in drawn
  <2>1. PICK g \in Sources : m \in g.messages /\ m.author \in drawn
    BY <1>3
  <2>2. Present(c)
    BY <2>1, NewcomerLemma
  <2>3. /\ Id(c)' = Id(c) /\ Members(core[c]) \subseteq Members(core'[c])
        /\ Known(c, Id(c)) <= Known(c, Id(c))' /\ IsNode(core'[c]) /\ IsNode(core[c])
        /\ \A a : Done(core[c], a) <= Done(core'[c], a)
        /\ Known(c, Id(c)) \in Nat /\ Known(c, Id(c))' \in Nat
    BY <2>2, GrowthLemma, PresentLemma DEF Evolves
  <2>4. \A a : Done(core[c], a) \in Nat /\ Done(core'[c], a) \in Nat
    BY <2>3, NodeLemma
  <2>5. /\ m.number < Known(c, Id(c))
        /\ DOMAIN m.depends \subseteq Members(core[c])
        /\ Done(core[c], Id(c)) <= m.number =>
               \A i \in DOMAIN m.depends : m.depends[i] <= Done(core[c], i)
    BY <2>1, <2>2, <2>3 DEF MembersInv, Own
  <2>6. m.number < Known(c, Id(c))'
    BY <1>2, <2>3, <2>5
  <2>7. ASSUME Done(core'[c], Id(c)') <= m.number, NEW i \in DOMAIN m.depends
        PROVE  m.depends[i] <= Done(core'[c], i)
    <3>1. Done(core[c], Id(c)) <= m.number
      BY <1>2, <2>3, <2>4, <2>7
    <3>2. m.depends[i] <= Done(core[c], i) /\ Done(core[c], i) <= Done(core'[c], i)
      BY <2>3, <2>5, <3>1
    <3>. QED BY <1>2, <2>4, <3>2
  <2>. QED BY <2>3, <2>5, <2>6, <2>7
<1>4. CASE \E x \in Computers : Present(x) /\ Created(m, x, core'[x], V)
  <2>1. PICK x \in Computers : Present(x) /\ Created(m, x, core'[x], V)
    BY <1>4
  <2>2. x = c
    <3>1. Present(x)' /\ Id(x)' = Id(x) /\ m.author = Id(x)
      BY <2>1, GrowthLemma DEF Created
    <3>. QED BY <3>1, UniqueLemma
  <2>3. /\ Id(c)' = Id(c) /\ Members(core[c]) \subseteq Members(core'[c])
        /\ IsNode(core'[c]) /\ IsNode(core[c])
        /\ \A a : Done(core[c], a) <= Done(core'[c], a)
    BY <2>1, <2>2, GrowthLemma, PresentLemma DEF Evolves
  <2>4. \A a : Done(core[c], a) \in Nat /\ Done(core'[c], a) \in Nat
    BY <2>3, NodeLemma
  <2>5. /\ m.number < Has(core'[c], Id(c))
        /\ DOMAIN m.depends \subseteq Members(core[c])
        /\ \A i \in DOMAIN m.depends : m.depends[i] <= Done(core[c], i)
    BY <2>1, <2>2 DEF Created
  <2>6. \A i \in DOMAIN m.depends : m.depends[i] <= Done(core'[c], i)
    <3>. TAKE i \in DOMAIN m.depends
    <3>1. m.depends[i] <= Done(core[c], i) /\ Done(core[c], i) <= Done(core'[c], i)
      BY <2>3, <2>5
    <3>. QED BY <1>2, <2>4, <3>1
  <2>. QED BY <2>3, <2>5, <2>6 DEF Known
<1>. QED BY <1>3, <1>4, MessageLemma

(* A node that has invited another one does not forget before it has added it.*)
LEMMA WelcomeLemma ==
  ASSUME MembersInv, NEW i \in Computers, NEW c, Present(i), Welcoming(i, c)
  PROVE  command_to_exec(core[i]) # {}
<1>. DEFINE n == core[i]
            k == Done(n, Id(i))
<1>1. PICK w \in n.messages : w.author = Id(i) /\ k <= w.number
  BY DEF Welcoming, Welcome
<1>2. IsNode(n) /\ n \in Sources /\ Unexecuted(n) /\ Id(i) \in Members(n)
  BY PresentLemma
<1>3. w.number < Has(n, Id(i)) /\ w.number \in Nat
  BY <1>1, <1>2 DEF MembersInv, Own, Known, IsNode, Commands, IsCommand
<1>4. k \in Nat /\ Has(n, Id(i)) \in Nat
  BY <1>2, NodeLemma
<1>5. PICK m \in n.messages : m.author = Id(i) /\ m.number = k
  <2>. HIDE DEF k
  <2>1. k < Has(n, Id(i))
    BY <1>1, <1>3, <1>4
  <2>2. k <= k
    BY <1>4
  <2>. QED BY <1>2, <1>4, <2>1, <2>2 DEF Unexecuted, Stored, k
<1>6. \A j \in DOMAIN m.depends : m.depends[j] <= Done(n, j)
  <2>1. Done(n, Id(i)) <= m.number
    BY <1>4, <1>5
  <2>. QED BY <1>2, <1>5, <2>1 DEF MembersInv, Own
<1>7. n.nodes[m.author].command_to_exec = m.number
  BY <1>2, <1>5 DEF Done
<1>8. \A j \in DOMAIN m.depends \cap Members(n) : m.depends[j] <= n.nodes[j].command_to_exec
  BY <1>6 DEF Done
<1>9. m \in command_to_exec(n)
  BY <1>2, <1>5, <1>7, <1>8 DEF command_to_exec
<1>. QED BY <1>9

(* What c lacks is not forgotten by a node x that has c as a member, or that*)
(* is about to execute the command that makes it one: c itself has not said *)
(* that it has received it.                                                 *)
LEMMA KeptStep ==
  ASSUME MembersInv, NEW e, NEW V, Step(e, V),
         NEW x \in Computers, Present(x), NEW c \in Computers, Present(c),
         Kept(core[x], c), Id(c) \in Members(core[x]) \/ Welcoming(x, c)
  PROVE  Kept(core[x], c)'
<1>. DEFINE n == core[x]
            p == core'[x]
<1>1. SUFFICES ASSUME NEW a, NEW k \in Nat, Known(c, a)' <= k, k < Has(p, a)
               PROVE  Stored(p, a, k)
  BY DEF Kept
<1>2. /\ IsNode(n) /\ Evolves(x, p, V) /\ n \in Sources
      /\ Known(c, a) <= Known(c, a)' /\ Known(c, a) \in Nat /\ Known(c, a)' \in Nat
  BY GrowthLemma, PresentLemma
<1>3. Has(n, a) \in Nat
  BY <1>2, NodeLemma
<1>4. CASE Has(n, a) <= k
  BY <1>1, <1>2, <1>4 DEF Evolves
<1>5. CASE k < Has(n, a)
  <2>1. Known(c, a) <= k
    BY <1>1, <1>2
  <2>2. PICK m \in n.messages : m.author = a /\ m.number = k
    BY <1>5, <2>1 DEF Kept, Stored
  <2>3. m \in p.messages
    <3>. SUFFICES ASSUME m \notin p.messages PROVE FALSE
      OBVIOUS
    <3>1. m \in Forgettable(n) /\ command_to_exec(n) = {}
      BY <1>2, <2>2 DEF Evolves
    <3>2. Id(c) \in Members(n)
      BY <3>1, WelcomeLemma
    <3>3. k < Cell(n.nodes, Id(c), a)
      BY <1>2, <2>2, <3>1, <3>2, ForgetLemma
    <3>4. Cell(n.nodes, Id(c), a) <= Known(c, a)
      BY <1>2 DEF MembersInv, Sound
    <3>5. Cell(n.nodes, Id(c), a) \in Nat
      BY <1>2, CellLemma DEF IsNode
    <3>. QED BY <1>2, <2>1, <3>3, <3>4, <3>5
  <2>. QED BY <2>2, <2>3 DEF Stored
<1>. QED BY <1>3, <1>4, <1>5

(* What must hold of the new members that a step tells of.                   *)
Distinct(V) == \A x, y \in Computers :
    \A m \in core'[x].messages, k \in core'[y].messages :
        /\ Created(m, x, core'[x], V) /\ m.name = "addnode"
        /\ Created(k, y, core'[y], V) /\ k.name = "addnode"
        /\ m.val = k.val
        => m.author = k.author /\ m.number = k.number

Welcomed(V) ==
    /\ \A m : IsAddNode(m) => m.val \notin V
    /\ \A c \in Computers : Present(c)' /\ Id(c)' \in V =>
          /\ c \notin left.founders /\ core'[c].valid_node = FALSE
          /\ \E i \in Computers : Invited(i, c)' /\ Welcoming(i, c)'
    /\ Distinct(V)

(* After a step everybody keeps for a founder what it lacks.                *)
LEMMA RootsStep ==
  ASSUME MembersInv, NEW e, NEW V, Step(e, V)
  PROVE  Roots'
<1>. SUFFICES ASSUME NEW c \in left.founders
              PROVE  /\ Present(c)'
                     /\ \A h \in Snapshots' : Id(c)' \in Members(h) /\ Kept(h, c)'
  BY DEF Roots, Step
<1>1. c \in Computers /\ Present(c)
  BY DEF MembersInv, PlanOK, Roots
<1>2. /\ Present(c)' /\ Id(c)' = Id(c)
      /\ \A a : Known(c, a) <= Known(c, a)' /\ Known(c, a) \in Nat /\ Known(c, a)' \in Nat
  BY <1>1, GrowthLemma
<1>3. \A h \in Snapshots : Id(c) \in Members(h) /\ Kept(h, c)
  BY DEF MembersInv, Roots
<1>4. ASSUME NEW h \in Snapshots, NEW q, q.messages = h.messages, \A a : Has(q, a) = Has(h, a)
      PROVE  Kept(q, c)'
  <2>. SUFFICES ASSUME NEW a, NEW k \in Nat, Known(c, a)' <= k, k < Has(q, a)
                PROVE  Stored(q, a, k)
    BY DEF Kept
  <2>1. Known(c, a) <= k /\ k < Has(h, a)
    BY <1>2, <1>4
  <2>2. Stored(h, a, k)
    BY <1>3, <2>1 DEF Kept
  <2>. QED BY <1>4, <2>2 DEF Stored
<1>5. ASSUME NEW h \in Snapshots'
      PROVE  Id(c)' \in Members(h) /\ Kept(h, c)'
  <2>1. CASE h \in {f.from : f \in invites'}
    <3>1. h \in Snapshots
      BY <2>1 DEF Step
    <3>. QED BY <1>2, <1>3, <1>4, <3>1
  <2>2. CASE \E x \in Computers : Present(x) /\ h = core'[x]
    <3>1. PICK x \in Computers : Present(x) /\ h = core'[x]
      BY <2>2
    <3>2. core[x] \in Snapshots /\ Members(core[x]) \subseteq Members(core'[x])
      BY <3>1, PresentLemma, GrowthLemma
    <3>3. Id(c) \in Members(core[x]) /\ Kept(core[x], c)
      BY <1>3, <3>2
    <3>4. Kept(core[x], c)'
      BY <1>1, <3>1, <3>3, KeptStep
    <3>. QED BY <1>2, <3>1, <3>2, <3>3, <3>4
  <2>3. CASE \E x \in Computers : ~Present(x) /\ Present(x)' /\ h = core'[x]
    <3>1. Joins(h, V)
      BY <2>3, NewcomerLemma
    <3>2. PICK g \in Snapshots : /\ Members(h) = Members(g) \cup {h.my_id}
                                 /\ h.messages = g.messages /\ \A a : Has(h, a) = Has(g, a)
      BY <3>1 DEF Joins
    <3>. QED BY <1>2, <1>3, <1>4, <3>2
  <2>. QED BY <2>1, <2>2, <2>3 DEF Snapshots
<1>. QED BY <1>2, <1>5

(* After a step a computer that has read an offline invite knows only what is*)
(* in it.                                                                   *)
LEMMA PartInitStep ==
  ASSUME MembersInv, NEW e, NEW V, Step(e, V)
  PROVE  PartInit'
<1>. SUFFICES ASSUME NEW c \in Computers, core'[c].status = "part_init"
              PROVE  \E f \in invites' :
                         Id(c)' \in f.uuids /\ Names(core'[c]) \subseteq Names(f.from) \cup {Id(c)'}
  BY DEF PartInit
<1>1. Present(c)'
  BY DEF Present
<1>2. CASE Present(c)
  <2>1. Evolves(c, core'[c], V) /\ Id(c)' = Id(c)
    BY <1>2, GrowthLemma
  <2>2. core[c].status = "part_init" /\ Names(core'[c]) \subseteq Names(core[c])
    BY <2>1 DEF Evolves
  <2>3. PICK f \in invites : Id(c) \in f.uuids /\ Names(core[c]) \subseteq Names(f.from) \cup {Id(c)}
    BY <2>2 DEF MembersInv, PartInit
  <2>4. PICK g \in invites' : g.from = f.from /\ f.uuids \subseteq g.uuids
    BY DEF Step
  <2>. QED BY <2>1, <2>2, <2>3, <2>4
<1>3. CASE ~Present(c)
  <2>1. Joins(core'[c], V)
    BY <1>1, <1>3, NewcomerLemma
  <2>2. PICK h \in Snapshots, f \in invites' :
            /\ Members(core'[c]) = Members(h) \cup {core'[c].my_id} /\ core'[c].messages = h.messages
            /\ core'[c].my_id \in f.uuids /\ Names(h) \subseteq Names(f.from)
    BY <2>1 DEF Joins
  <2>. QED BY <2>2 DEF Names, Members, Id
<1>. QED BY <1>2, <1>3

(* Who has heard of a computer.                                              *)
LEMMA AnnouncedLemma ==
  ASSUME MembersInv, NEW e, NEW V, Step(e, V), NEW c \in Computers, Present(c)', Announced(c)',
         Id(c)' \notin V
  PROVE  Present(c) /\ Announced(c)
<1>1. ASSUME NEW h \in Spoken', Id(c)' \in Names(h)
      PROVE  \/ \E g \in Spoken : Id(c)' \in Names(g)
             \/ Present(c) /\ core[c].status = "part_init" /\ Working(c)'
  <2>1. CASE h \in {f.from : f \in invites'}
    BY <1>1, <2>1 DEF Step
  <2>2. CASE h \in packets'
    <3>1. h \in packets \/ \E x \in Computers : Working(x) /\ h.nodes = core[x].nodes
                                                /\ h.messages = core[x].messages
      BY <2>2 DEF Step
    <3>2. CASE h \in packets
      BY <1>1, <3>2 DEF Spoken
    <3>3. CASE \E x \in Computers : Working(x) /\ h.nodes = core[x].nodes
                                                /\ h.messages = core[x].messages
      <4>1. PICK x \in Computers : Working(x) /\ h.nodes = core[x].nodes
                                   /\ h.messages = core[x].messages
        BY <3>3
      <4>2. core[x] \in Spoken /\ Names(core[x]) = Names(h)
        BY <4>1, PresentLemma DEF Names
      <4>. QED BY <1>1, <4>2
    <3>. QED BY <3>1, <3>2, <3>3
  <2>3. CASE \E x \in Computers : Working(x)' /\ h = core'[x]
    <3>1. PICK x \in Computers : Working(x)' /\ h = core'[x]
      BY <2>3
    <3>2. Present(x)'
      BY <3>1 DEF Working, Present
    <3>3. CASE Present(x)
      <4>1. Evolves(x, h, V)
        BY <3>1, <3>3, GrowthLemma
      <4>2. Id(c)' \in Names(core[x]) \/ Id(c)' \in V \/ \E g \in Spoken : Id(c)' \in Names(g)
        BY <1>1, <4>1 DEF Evolves
      <4>3. CASE Working(x) /\ Id(c)' \in Names(core[x])
        BY <4>3, PresentLemma
      <4>4. CASE ~Working(x) /\ Id(c)' \in Names(core[x])
        <5>1. core[x].status = "part_init"
          BY <3>3, <4>4, PresentLemma
        <5>2. PICK f \in invites : Names(core[x]) \subseteq Names(f.from) \cup {Id(x)}
          BY <5>1 DEF MembersInv, PartInit
        <5>3. CASE Id(c)' \in Names(f.from)
          BY <5>3 DEF Spoken
        <5>4. CASE Id(c)' = Id(x)
          <6>1. Id(x)' = Id(x)
            BY <3>3, GrowthLemma
          <6>2. c = x
            BY <3>2, <5>4, <6>1, UniqueLemma
          <6>. QED BY <3>1, <3>3, <5>1, <6>2
        <5>. QED BY <4>4, <5>2, <5>3, <5>4
      <4>. QED BY <4>2, <4>3, <4>4
    <3>4. CASE ~Present(x)
      <4>1. Joins(h, V)
        BY <3>1, <3>2, <3>4, NewcomerLemma
      <4>2. PICK g \in Spoken : Members(h) = Members(g) \cup {h.my_id} /\ h.messages = g.messages
        BY <4>1 DEF Joins
      <4>3. h.my_id \in V
        BY <3>1, <4>1 DEF Joins, Working
      <4>. QED BY <1>1, <4>2, <4>3 DEF Names, Members
    <3>. QED BY <3>3, <3>4
  <2>. QED BY <2>1, <2>2, <2>3 DEF Spoken
<1>2. ASSUME Present(c)
      PROVE  Id(c)' = Id(c) /\ (Working(c)' /\ ~Working(c) => \E g \in Spoken : Id(c) \in Names(g))
  <2>1. Id(c)' = Id(c) /\ Evolves(c, core'[c], V)
    BY <1>2, GrowthLemma
  <2>2. ASSUME Working(c)', ~Working(c) PROVE \E g \in Spoken : Id(c) \in Names(g)
    <3>1. core[c].status = "part_init" /\ core'[c].status # "part_init"
      BY <1>2, <2>2, PresentLemma DEF Working
    <3>2. \E g \in packets : Id(c) \in Names(g)
      BY <2>1, <3>1 DEF Evolves, Id
    <3>. QED BY <3>2 DEF Spoken
  <2>. QED BY <2>1, <2>2
<1>3. CASE Present(c)
  BY <1>1, <1>2, <1>3 DEF Announced
<1>4. CASE ~Present(c)
  <2>1. Joins(core'[c], V) /\ Id(c)' \notin drawn
    BY <1>4, NewcomerLemma
  <2>2. ~Working(c)'
    BY <2>1 DEF Joins, Working, Id
  <2>3. PICK g \in Spoken : Id(c)' \in Names(g)
    BY <1>1, <1>4, <2>2 DEF Announced
  <2>4. g \in Sources
    <3>1. \A x \in Computers : Working(x) => core[x] \in Sources
      BY PresentLemma
    <3>. QED BY <3>1 DEF Spoken, Sources, Snapshots
  <2>5. Names(g) \subseteq drawn
    BY <2>4 DEF MembersInv, SourcesOK
  <2>. QED BY <2>1, <2>3, <2>5
<1>. QED BY <1>3, <1>4

(* After a step each member that is no founder has an inviter that keeps for*)
(* it what it lacks.                                                        *)
LEMMA ChainStep ==
  ASSUME MembersInv, NEW e, NEW V, Step(e, V), Welcomed(V)
  PROVE  Chain'
<1>. SUFFICES ASSUME NEW c \in Computers, Present(c)', c \notin left'.founders, Announced(c)'
              PROVE  \E i \in Computers : Invited(i, c)'
  BY DEF Chain
<1>1. CASE Id(c)' \in V
  BY <1>1 DEF Welcomed
<1>2. CASE Id(c)' \notin V
  <2>1. Present(c) /\ Announced(c) /\ c \notin left.founders
    <3>1. left'.founders = left.founders
      BY DEF Step
    <3>. QED BY <1>2, <3>1, AnnouncedLemma
  <2>2. PICK i \in Computers : Invited(i, c)
    BY <2>1 DEF MembersInv, Chain
  <2>3. /\ Working(i) /\ Id(i) < Id(c) /\ Kept(core[i], c)
        /\ Id(c) \in Members(core[i]) \/ Welcoming(i, c)
    BY <2>2 DEF Invited
  <2>4. Present(i)
    BY <2>3, PresentLemma
  <2>5. /\ Id(c)' = Id(c) /\ Id(i)' = Id(i) /\ Working(i)'
        /\ Members(core[i]) \subseteq Members(core'[i])
    BY <2>1, <2>3, <2>4, GrowthLemma
  <2>6. Kept(core[i], c)'
    BY <2>1, <2>3, <2>4, KeptStep
  <2>7. Id(c) \in Members(core'[i]) \/ Welcoming(i, c)'
    BY <2>1, <2>3, <2>5 DEF Step
  <2>8. Id(i)' < Id(c)'
    BY <2>3, <2>5
  <2>. QED BY <2>5, <2>6, <2>7, <2>8 DEF Invited
<1>. QED BY <1>1, <1>2

(* An addnode is an earlier one, or was created for a new member.             *)
LEMMA AddNodeLemma ==
  ASSUME MembersInv, NEW e, NEW V, Step(e, V), NEW m, IsAddNode(m)'
  PROVE  \/ IsAddNode(m) /\ m.val \in drawn
         \/ /\ m.val \in V
            /\ \E x \in Computers : Created(m, x, core'[x], V) /\ m \in core'[x].messages
<1>1. m.name = "addnode" /\ \E h \in Sources' : m \in h.messages
  BY DEF IsAddNode
<1>2. PICK h \in Sources' : m \in h.messages
  BY <1>1
<1>3. CASE \E g \in Sources : m \in g.messages /\ (m.name = "addnode" => m.val \in drawn)
  BY <1>1, <1>3 DEF IsAddNode
<1>4. CASE \E x \in Computers : Present(x) /\ Created(m, x, core'[x], V) /\ m \in core'[x].messages
  BY <1>1, <1>4 DEF Created
<1>. QED BY <1>2, <1>3, <1>4, MessageLemma

(* After a step there is still one addnode for each new member.             *)
LEMMA AddNodesStep ==
  ASSUME MembersInv, NEW e, NEW V, Step(e, V), Welcomed(V)
  PROVE  AddNodes'
<1>. SUFFICES ASSUME NEW m, NEW k, IsAddNode(m)', IsAddNode(k)', k.val = m.val
              PROVE  k.author = m.author /\ k.number = m.number
  BY DEF AddNodes
<1>0. m.name = "addnode" /\ k.name = "addnode"
  BY DEF IsAddNode
<1>1. CASE IsAddNode(m) /\ IsAddNode(k)
  BY <1>1 DEF MembersInv, AddNodes
<1>2. CASE ~IsAddNode(m) /\ ~IsAddNode(k)
  <2>1. PICK x \in Computers : Created(m, x, core'[x], V) /\ m \in core'[x].messages
    BY <1>2, AddNodeLemma
  <2>2. PICK y \in Computers : Created(k, y, core'[y], V) /\ k \in core'[y].messages
    BY <1>2, AddNodeLemma
  <2>. QED BY <1>0, <2>1, <2>2 DEF Welcomed, Distinct
<1>3. CASE IsAddNode(m) /\ ~IsAddNode(k)
  BY <1>3, AddNodeLemma DEF Welcomed
<1>4. CASE ~IsAddNode(m) /\ IsAddNode(k)
  BY <1>4, AddNodeLemma DEF Welcomed
<1>. QED BY <1>1, <1>2, <1>3, <1>4

(* A member is valid only after it has executed its own addnode, and a      *)
(* founder has none.                                                        *)
LEMMA ValidStep ==
  ASSUME MembersInv, NEW e, NEW V, Step(e, V), Welcomed(V)
  PROVE  Valid'
<1>. SUFFICES ASSUME NEW m, NEW c \in Computers, IsAddNode(m)', Present(c)', Id(c)' = m.val
              PROVE  /\ c \notin left.founders
                     /\ core'[c].valid_node # FALSE => m.number < Done(core'[c], m.author)
  <2>1. left'.founders = left.founders
    BY DEF Step
  <2>. QED BY <2>1 DEF Valid
<1>1. CASE m.val \in V
  BY <1>1 DEF Welcomed
<1>2. CASE m.val \notin V
  <2>1. IsAddNode(m) /\ m.val \in drawn
    BY <1>2, AddNodeLemma
  <2>2. Present(c)
    BY <2>1, NewcomerLemma
  <2>3. /\ Id(c) = m.val /\ Evolves(c, core'[c], V) /\ IsNode(core[c]) /\ core[c] \in Sources
        /\ \A a : Done(core[c], a) <= Done(core'[c], a)
    BY <2>2, GrowthLemma, PresentLemma
  <2>4. \A a : Done(core[c], a) \in Nat /\ Done(core'[c], a) \in Nat
    BY <2>3, NodeLemma DEF Evolves
  <2>5. c \notin left.founders /\ (core[c].valid_node # FALSE => m.number < Done(core[c], m.author))
    BY <2>1, <2>2, <2>3 DEF MembersInv, Valid
  <2>6. m.number \in Nat
    BY <2>1 DEF IsAddNode, MembersInv, SourcesOK, Commands, IsCommand
  <2>7. CASE core'[c].valid_node = core[c].valid_node
    <3>1. Done(core[c], m.author) <= Done(core'[c], m.author)
      BY <2>3
    <3>2. core'[c].valid_node # FALSE => core[c].valid_node # FALSE
      BY <2>7, Zenon
    <3>3. m.number < Done(core[c], m.author) => m.number < Done(core'[c], m.author)
      BY <2>4, <2>6, <3>1
    <3>. QED BY <2>5, <3>2, <3>3, Zenon
  <2>8. CASE core'[c].valid_node # core[c].valid_node
    <3>1. PICK k \in core[c].messages : /\ k.name = "addnode" /\ k.val = Id(c)
                                        /\ k.number < Done(core'[c], k.author)
      BY <2>3, <2>8 DEF Evolves, Id
    <3>2. IsAddNode(k)
      BY <2>3, <3>1 DEF IsAddNode
    <3>3. k.author = m.author /\ k.number = m.number
      BY <2>1, <2>3, <3>1, <3>2 DEF MembersInv, AddNodes
    <3>. QED BY <2>5, <3>1, <3>3
  <2>. QED BY <2>5, <2>7, <2>8
<1>. QED BY <1>1, <1>2

(* The offline invites, when no file is written or read.                     *)
InvitesStay(V) ==
    /\ invites' = invites /\ left'.invites = left.invites
    /\ \A f \in invites, w \in Computers :
          Open(w, f)' /\ running' # [on |-> w, final |-> TRUE] =>
              running # [on |-> w, final |-> TRUE] /\ f.uuids \cap V = {}

(* A step that neither writes nor reads an invite file keeps what is true of*)
(* the files.                                                               *)
LEMMA InvitesStep ==
  ASSUME MembersInv, NEW e, NEW V, Step(e, V), InvitesStay(V)
  PROVE  InvitesOK' /\ InvitesKept'
<1>0. left.invites \in Nat
  BY DEF MembersInv, PlanOK, Plan
<1>a. ASSUME NEW f \in invites
      PROVE  /\ f.id \in Nat /\ f.id > left.invites /\ f.uuids \subseteq drawn
             /\ f.from \in Snapshots
  BY DEF MembersInv, InvitesOK, Snapshots
<1>b. ASSUME NEW c \in Computers, ~Present(c)
      PROVE  core'[c].invite_id = 0 /\ core'[c].status # "inviter"
  <2>1. CASE Present(c)'
    BY <1>b, <2>1, NewcomerLemma DEF Joins
  <2>2. CASE ~Present(c)'
    <3>1. core'[c] = Blank
      <4>1. core'[c] = Blank \/ IsNode(core'[c])
        BY CoreStep DEF CoreOK
      <4>. QED BY <2>2, <4>1 DEF IsNode, Present
    <3>. QED BY <3>1 DEF Blank
  <2>. QED BY <2>1, <2>2
<1>c. ASSUME NEW c \in Computers, Present(c)
      PROVE  /\ core'[c].invite_id = core[c].invite_id /\ Id(c)' = Id(c)
             /\ core'[c].status = "inviter" => core[c].status = "inviter"
  <2>1. Evolves(c, core'[c], V) /\ Id(c)' = Id(c)
    BY <1>c, GrowthLemma
  <2>. QED BY <2>1 DEF Evolves, InvitesStay
<1>1. ASSUME NEW f \in invites
      PROVE  /\ DOMAIN f = {"id", "from", "uuids"} /\ f.id \in Nat /\ f.id > left'.invites
             /\ f.uuids \subseteq drawn'
             /\ \A u \in f.uuids : f.from.my_id < u
             /\ \E w \in Computers : Writes(w, f)'
             /\ \A c \in Computers : core'[c].invite_id = f.id => Id(c)' = f.from.my_id
             /\ \A c \in Computers : Present(c)' /\ Id(c)' \in f.uuids =>
                    c \notin left'.founders /\ \A a : Has(f.from, a) <= Known(c, a)'
  <2>0. DOMAIN f = {"id", "from", "uuids"}
    BY DEF MembersInv, InvitesOK
  <2>1. f.id > left'.invites /\ f.uuids \subseteq drawn' /\ f.id \in Nat
    BY <1>a DEF InvitesStay, Step
  <2>2. \A u \in f.uuids : f.from.my_id < u
    BY DEF MembersInv, InvitesOK
  <2>3. \E w \in Computers : Writes(w, f)'
    <3>1. PICK w \in Computers : Writes(w, f)
      BY DEF MembersInv, InvitesOK
    <3>2. Present(w)
      BY <3>1, PresentLemma DEF Writes
    <3>3. Working(w)' /\ Id(w)' = Id(w)
      BY <3>1, <3>2, GrowthLemma DEF Writes
    <3>. QED BY <3>1, <3>3 DEF Writes
  <2>4. ASSUME NEW c \in Computers, core'[c].invite_id = f.id
        PROVE  Id(c)' = f.from.my_id
    <3>1. Present(c)
      BY <1>0, <1>a, <1>b, <2>4
    <3>2. core[c].invite_id = f.id /\ Id(c)' = Id(c)
      BY <1>c, <2>4, <3>1
    <3>. QED BY <3>2 DEF MembersInv, InvitesOK
  <2>5. ASSUME NEW c \in Computers, Present(c)', Id(c)' \in f.uuids
        PROVE  c \notin left'.founders /\ \A a : Has(f.from, a) <= Known(c, a)'
    <3>1. Present(c)
      BY <1>a, <2>5, NewcomerLemma
    <3>2. /\ Id(c)' = Id(c)
          /\ \A a : Known(c, a) <= Known(c, a)' /\ Known(c, a) \in Nat /\ Known(c, a)' \in Nat
      BY <3>1, GrowthLemma
    <3>3. c \notin left.founders /\ \A a : Has(f.from, a) <= Known(c, a)
      BY <2>5, <3>1, <3>2 DEF MembersInv, InvitesOK
    <3>4. \A a : Has(f.from, a) \in Nat
      BY <1>a, NodeLemma DEF MembersInv, SourcesOK
    <3>5. \A a : Has(f.from, a) <= Known(c, a)'
      BY <3>2, <3>3, <3>4
    <3>. QED BY <3>3, <3>5 DEF Step
  <2>. QED BY <2>0, <2>1, <2>2, <2>3, <2>4, <2>5
<1>2. \A f, g \in invites : f.id = g.id \/ f.uuids \cap g.uuids # {} => f = g
  BY DEF MembersInv, InvitesOK
<1>3. ASSUME NEW c \in Computers, core'[c].invite_id # 0
      PROVE  core'[c].invite_id \in Nat /\ core'[c].invite_id > left'.invites
  <2>1. Present(c)
    BY <1>b, <1>3
  <2>. QED BY <1>c, <1>3, <2>1 DEF MembersInv, InvitesOK, InvitesStay
<1>4. InvitesOK'
  BY <1>1, <1>2, <1>3 DEF InvitesOK, InvitesStay
<1>5. ASSUME NEW f \in invites, NEW w \in Computers, Open(w, f)'
      PROVE  Open(w, f) /\ Present(w)
  <2>1. Present(w)
    BY <1>b, <1>5 DEF Open
  <2>2. core[w].status = "inviter" /\ core[w].invite_id = f.id /\ Id(w) = f.from.my_id
    BY <1>c, <1>5, <2>1 DEF Open, Writes
  <2>. QED BY <2>1, <2>2 DEF Open, Writes, Working
<1>6. ASSUME NEW f \in invites, NEW w \in Computers, Open(w, f)',
             NEW a, NEW k \in Nat, Has(f.from, a) <= k, k < Known(w, a)'
      PROVE  Stored(core'[w], a, k)
  <2>1. Open(w, f) /\ Present(w)
    BY <1>5, <1>6
  <2>2. Evolves(w, core'[w], V) /\ Known(w, a) \in Nat /\ core[w].status = "inviter"
    BY <2>1, GrowthLemma DEF Open
  <2>3. CASE Known(w, a) <= k
    BY <1>6, <2>2, <2>3 DEF Evolves, Known
  <2>4. CASE k < Known(w, a)
    <3>1. PICK m \in core[w].messages : m.author = a /\ m.number = k
      BY <1>6, <2>1, <2>4 DEF MembersInv, InvitesKept, Stored
    <3>2. m \in core'[w].messages
      BY <2>2 DEF Evolves
    <3>. QED BY <3>1, <3>2 DEF Stored
  <2>. QED BY <2>2, <2>3, <2>4
<1>7. ASSUME NEW f \in invites, NEW w \in Computers, Open(w, f)',
             running' # [on |-> w, final |-> TRUE]
      PROVE  /\ \A m : IsAddNode(m)' => m.val \notin f.uuids
             /\ \A c \in Computers : Present(c)' /\ Id(c)' \in f.uuids => core'[c].valid_node = FALSE
  <2>1. /\ Open(w, f) /\ running # [on |-> w, final |-> TRUE] /\ f.uuids \cap V = {}
    BY <1>5, <1>7 DEF InvitesStay
  <2>2. /\ \A m : IsAddNode(m) => m.val \notin f.uuids
        /\ \A c \in Computers : Present(c) /\ Id(c) \in f.uuids => core[c].valid_node = FALSE
    BY <2>1 DEF MembersInv, InvitesKept
  <2>3. \A m : IsAddNode(m)' => m.val \notin f.uuids
    BY <2>1, <2>2, AddNodeLemma
  <2>4. ASSUME NEW c \in Computers, Present(c)', Id(c)' \in f.uuids
        PROVE  core'[c].valid_node = FALSE
    <3>1. Present(c)
      BY <1>a, <2>4, NewcomerLemma
    <3>2. Id(c)' = Id(c) /\ Evolves(c, core'[c], V) /\ core[c] \in Sources
      BY <3>1, GrowthLemma, PresentLemma
    <3>3. core[c].valid_node = FALSE
      BY <2>2, <2>4, <3>1, <3>2
    <3>. SUFFICES ASSUME core'[c].valid_node # core[c].valid_node PROVE FALSE
      BY <3>3
    <3>4. PICK m \in core[c].messages : m.name = "addnode" /\ m.val = Id(c)
      BY <3>2 DEF Evolves, Id
    <3>. QED BY <2>2, <2>4, <3>2, <3>4 DEF IsAddNode
  <2>. QED BY <2>3, <2>4
<1>8. InvitesKept'
  BY <1>6, <1>7 DEF InvitesKept, InvitesStay
<1>. QED BY <1>4, <1>8

(* Every step of the group is of the kind Step.                               *)
Moves == \E e, V : Step(e, V) /\ Welcomed(V)

(* A step of the kind Step keeps the invariant, if the plan, the daemon that*)
(* runs and the invite files are all right.                                 *)
LEMMA StepLemma ==
  ASSUME MembersInv, NEW e, NEW V, Step(e, V), Welcomed(V), PlanOK', RunningOK',
         InvitesOK', InvitesKept'
  PROVE  MembersInv' /\ Moves
<1>1. CoreOK' /\ SourcesOK' /\ Sound' /\ Own' /\ Roots' /\ PartInit'
  BY CoreStep, SourcesStep, SoundStep, OwnStep, RootsStep, PartInitStep
<1>2. Chain' /\ AddNodes' /\ Valid'
  BY ChainStep, AddNodesStep, ValidStep
<1>. QED BY <1>1, <1>2 DEF MembersInv, Moves

(* A node that does nothing evolves.                                        *)
LEMMA EvolvesRefl ==
  ASSUME MembersInv, NEW x \in Computers, Present(x), NEW V
  PROVE  Evolves(x, core[x], V)
<1>1. IsNode(core[x]) /\ core[x] \in Sources /\ Unexecuted(core[x])
  BY PresentLemma
<1>2. \A a : Has(core[x], a) \in Nat /\ Done(core[x], a) \in Nat
  BY <1>1, NodeLemma
<1>3. \A i, j : Cell(core[x].nodes, i, j) \in Nat
  BY <1>1, CellLemma DEF IsNode
<1>4. Done(core[x], core[x].my_id) <= Has(core[x], core[x].my_id)
  BY DEF MembersInv, CoreOK, Known, Id
<1>5. Follows(core[x], core[x])
  BY DEF Follows
<1>. QED BY <1>1, <1>2, <1>3, <1>4, <1>5 DEF Evolves

(* A step of one node that changes its own state only.                       *)
Local(x, p) ==
    /\ core' = [core EXCEPT ![x] = p]
    /\ invites' = invites /\ drawn' = drawn
    /\ \A q \in packets' : \/ q \in packets
                           \/ \E c \in Computers : /\ Working(c) /\ q.nodes = core[c].nodes
                                                   /\ q.messages = core[c].messages
    /\ PlanOK' /\ RunningOK'
    /\ left'.founders = left.founders /\ left'.invites = left.invites
    /\ \A i, c \in Computers : Present(c) /\ Welcoming(i, c) =>
           Welcoming(i, c)' \/ Id(c) \in Members(core'[i])
    /\ \A f \in invites, w \in Computers :
          Open(w, f)' /\ running = [on |-> w, final |-> TRUE] =>
              running' = [on |-> w, final |-> TRUE]

(* A step that only changes one member keeps the invariant.                 *)
LEMMA LocalLemma ==
  ASSUME MembersInv, NEW x \in Computers, Present(x), NEW p, Evolves(x, p, {}), Local(x, p)
  PROVE  MembersInv' /\ Moves
<1>1. Step(x, {})
  <2>1. core = [c \in Computers |-> core[c]] /\ drawn \subseteq Ids
    BY DEF MembersInv, CoreOK
  <2>2. core' = [c \in Computers |-> IF c = x THEN p ELSE core[c]]
    BY <2>1 DEF Local
  <2>3. core' = [c \in Computers |-> core'[c]]
    BY <2>2
  <2>4. ASSUME NEW c \in Computers
        PROVE  \/ core[c] = Blank /\ core'[c] = Blank
               \/ Present(c) /\ Evolves(c, core'[c], {})
    <3>1. CASE c = x
      BY <2>2, <3>1
    <3>2. CASE c # x
      <4>1. core'[c] = core[c]
        BY <2>2, <3>2
      <4>2. Present(c) => Evolves(c, core[c], {})
        BY EvolvesRefl
      <4>3. ~Present(c) => core[c] = Blank
        BY PresentLemma
      <4>. QED BY <4>1, <4>2, <4>3
    <3>. QED BY <3>1, <3>2
  <2>5. \A f \in invites' : f.from \in Snapshots \cap Spoken
    BY DEF Local, Snapshots, Spoken
  <2>6. \A f \in invites : \E g \in invites' : g.from = f.from /\ f.uuids \subseteq g.uuids
    BY DEF Local
  <2>7. \A c \in Computers : core[c] = Blank /\ core'[c] # Blank => core'[c].my_id \in drawn'
    <3>1. core[x] # Blank
      BY PresentLemma
    <3>. QED BY <2>2, <3>1
  <2>8. /\ drawn' \subseteq Ids /\ drawn \subseteq drawn' /\ {} \subseteq drawn'
        /\ left.founders = left'.founders /\ \A i \in drawn', j \in Ids \ drawn' : i < j
    <3>1. \A i \in drawn, j \in Ids \ drawn : i < j
      BY DEF MembersInv, CoreOK
    <3>. QED BY <2>1, <3>1 DEF Local
  <2>10. drawn' \ drawn = {}
    BY DEF Local
  <2>9. /\ \A q \in packets' : \/ q \in packets
                           \/ \E c \in Computers : /\ Working(c) /\ q.nodes = core[c].nodes
                                                   /\ q.messages = core[c].messages
        /\ \A i, c \in Computers : Present(c) /\ Welcoming(i, c) =>
             Welcoming(i, c)' \/ Id(c) \in Members(core'[i])
    BY DEF Local
  <2>. QED BY <2>3, <2>4, <2>5, <2>6, <2>7, <2>8, <2>9, <2>10 DEF Step
<1>2. Welcomed({})
  <2>1. Distinct({})
    BY DEF Distinct, Created
  <2>. QED BY <2>1 DEF Welcomed
<1>3. InvitesStay({})
  BY DEF InvitesStay, Local
<1>4. InvitesOK' /\ InvitesKept'
  BY <1>1, <1>3, InvitesStep
<1>. QED BY <1>1, <1>2, <1>4, StepLemma DEF Local

(* At rest nobody is welcoming.                                              *)
LEMMA RestLemma ==
  ASSUME MembershipAssumption, AtRest
  PROVE  /\ \A c : \A i \in Computers : ~Welcoming(i, c)
         /\ \A w \in Computers : running # [on |-> w, final |-> TRUE]
<1>1. running.on = NoId
  BY DEF AtRest, NotRunning
<1>2. NoId \notin Computers
  BY DEF MembershipAssumption
<1>. QED BY <1>1, <1>2 DEF Welcoming

(* A step that uses up a part of the plan which is not about invites keeps  *)
(* the plan.                                                                *)
LEMMA SpendLemma ==
  ASSUME MembersInv, NEW what \in {"commands", "files", "removals", "packets", "reads", "failures"},
         left' = [left EXCEPT ![what] = @ - 1], left[what] > 0, invites' = invites
  PROVE  PlanOK' /\ left'.founders = left.founders /\ left'.invites = left.invites
<1>1. left \in Plan
  BY DEF MembersInv, PlanOK
<1>2. left' \in Plan
  BY <1>1 DEF Plan
<1>3. /\ left'.leaving = left.leaving /\ left'.forced = left.forced /\ left'.losses = left.losses
      /\ left'.invites = left.invites /\ left'.network = left.network
      /\ left'.founders = left.founders
  BY <1>1 DEF Plan
<1>. QED BY <1>2, <1>3 DEF MembersInv, PlanOK

(* PendingCommands() keeps the invariant.                                   *)
LEMMA PendingStep ==
  ASSUME MembershipAssumption, MembersInv, NEW c \in Computers, PendingCommands(c)
  PROVE  MembersInv' /\ Moves
<1>1. Present(c) /\ AtRest
  BY DEF PendingCommands, Present
<1>2. core = [core EXCEPT ![c] = core[c]]
  BY DEF MembersInv, CoreOK
<1>3. RunningOK'
  <2>1. running' = [on |-> c, final |-> FALSE] /\ core' = core
    BY DEF PendingCommands
  <2>2. c # NoId
    BY DEF MembershipAssumption
  <2>. QED BY <1>1, <2>1, <2>2 DEF RunningOK, Present
<1>4. PlanOK'
  BY DEF PendingCommands, PlanOK, MembersInv
<1>5. Local(c, core[c])
  BY <1>1, <1>2, <1>3, <1>4, RestLemma DEF Local, PendingCommands
<1>. QED BY <1>1, <1>5, EvolvesRefl, LocalLemma

(* WritePacket() keeps the invariant.                                       *)
LEMMA WritePacketStep ==
  ASSUME MembershipAssumption, MembersInv, NEW c \in Computers, WritePacket(c)
  PROVE  MembersInv' /\ Moves
<1>1. Present(c) /\ AtRest /\ Working(c)
  <2>1. Up(c) /\ ~need_initialize(core[c]) /\ AtRest
    BY DEF WritePacket
  <2>. QED BY <2>1, PresentLemma DEF need_initialize, Present
<1>2. core = [core EXCEPT ![c] = core[c]]
  BY DEF MembersInv, CoreOK
<1>3. RunningOK'
  BY DEF WritePacket, MembersInv, RunningOK, Present, Working
<1>4. PlanOK' /\ left'.founders = left.founders /\ left'.invites = left.invites
  <2>1. left' = [left EXCEPT !["packets"] = @ - 1] /\ left["packets"] > 0 /\ invites' = invites
    BY DEF WritePacket, Spend
  <2>. QED BY <2>1, SpendLemma
<1>5. Local(c, core[c])
  BY <1>1, <1>2, <1>3, <1>4, RestLemma DEF Local, WritePacket
<1>. QED BY <1>1, <1>5, EvolvesRefl, LocalLemma

(* What is true of the computer that executes its commands.                 *)
LEMMA RunningLemma ==
  ASSUME MembershipAssumption, MembersInv, NEW c \in Computers, running.on = c
  PROVE  /\ Present(c) /\ IsNode(core[c]) /\ core[c] \in Sources /\ Unexecuted(core[c])
         /\ core = [core EXCEPT ![c] = core[c]]
         /\ running.final \in BOOLEAN /\ (running.final => Working(c))
BY PresentLemma DEF MembersInv, RunningOK, CoreOK

(* ExecuteOne() keeps the invariant: what is executed is no longer needed to*)
(* welcome a member, for the member is one then.                            *)
LEMMA ExecuteStep ==
  ASSUME MembershipAssumption, MembersInv, NEW c \in Computers, ExecuteOne(c)
  PROVE  MembersInv' /\ Moves
<1>. DEFINE n == core[c]
<1>1. running.on = c
  BY DEF ExecuteOne
<1>2. PICK m \in command_to_exec(n) : core' = [core EXCEPT ![c] = mark_as_executed(exec(@, m), m)]
  BY DEF ExecuteOne
<1>. DEFINE p == mark_as_executed(exec(n, m), m)
<1>3. /\ Present(c) /\ IsNode(n) /\ n \in Sources /\ Unexecuted(n)
      /\ running.final \in BOOLEAN /\ (running.final => Working(c))
  BY <1>1, RunningLemma
<1>4. m \in n.messages /\ m.author \in Members(n) /\ m.number = Done(n, m.author)
      /\ m.number \in Nat
  BY <1>3 DEF command_to_exec, Done, IsNode, Commands, IsCommand
<1>5. m.name = "addnode" => m.val \in Ids /\ (m.val = n.my_id => n.valid_node = FALSE)
  <2>. SUFFICES ASSUME m.name = "addnode"
                PROVE  m.val \in Ids /\ (m.val = n.my_id => n.valid_node = FALSE)
    OBVIOUS
  <2>1. IsAddNode(m)
    BY <1>3, <1>4 DEF IsAddNode
  <2>2. m.val \in Names(n)
    BY <1>4 DEF Names
  <2>3. m.val \in Ids
    BY <1>3, <2>2 DEF MembersInv, SourcesOK, CoreOK
  <2>4. m.val = n.my_id /\ n.valid_node # FALSE => m.number < Done(n, m.author)
    BY <1>3, <2>1 DEF MembersInv, Valid, Id
  <2>5. ~(m.number < Done(n, m.author))
    BY <1>4
  <2>. QED BY <2>3, <2>4, <2>5
<1>6. NoId \notin Ids
  BY DEF MembershipAssumption
<1>7. core' = [core EXCEPT ![c] = p]
  BY <1>2
<1>. HIDE DEF p
<1>8. /\ IsNode(p) /\ p.my_id = n.my_id /\ p.status = n.status
      /\ p.invite_id = n.invite_id /\ p.messages = n.messages
      /\ p.valid_node # n.valid_node => m.name = "addnode" /\ m.val = n.my_id
      /\ Members(p) = IF m.name = "addnode" THEN Members(n) \cup {m.val} ELSE Members(n)
      /\ \A i, j : Cell(p.nodes, i, j) = Cell(n.nodes, i, j)
      /\ p.log = n.log
      /\ p.state = IF m.name = "other" THEN n.state \cup {<<m.author, m.number>>} ELSE n.state
      /\ \A a : Done(p, a) = IF a = m.author THEN Done(n, a) + 1 ELSE Done(n, a)
  <2>1. Executes(n, p, m)
    BY <1>3, <1>5, <1>6, ExecLemma DEF p
  <2>. QED BY <2>1 DEF Executes
<1>9. \A a : /\ Has(p, a) = Has(n, a) /\ Has(n, a) \in Nat /\ Done(n, a) \in Nat
             /\ Done(n, a) <= Done(p, a) /\ Done(p, a) \in Nat
  <2>1. \A a : Has(n, a) \in Nat /\ Done(n, a) \in Nat
    BY <1>3, NodeLemma
  <2>. QED BY <1>8, <2>1 DEF Has
<1>10. Names(p) \subseteq Names(n)
  BY <1>4, <1>8 DEF Names, Members
<1>11. Evolves(c, p, {})
  <2>1. Unexecuted(p)
    <3>. SUFFICES ASSUME NEW a, NEW k \in Nat, Done(p, a) <= k, k < Has(p, a)
                  PROVE  Stored(p, a, k)
      BY DEF Unexecuted
    <3>1. Done(n, a) <= k /\ k < Has(n, a)
      BY <1>9
    <3>2. Stored(n, a, k)
      BY <1>3, <3>1 DEF Unexecuted
    <3>. QED BY <1>8, <3>2 DEF Stored
  <2>2. \A i, j : i # n.my_id => \E h \in Sources : Cell(p.nodes, i, j) <= Cell(h.nodes, i, j)
    <3>1. \A i, j : Cell(p.nodes, i, j) = Cell(n.nodes, i, j) /\ Cell(n.nodes, i, j) \in Nat
      BY <1>3, <1>8, CellLemma DEF IsNode
    <3>2. \A i, j : Cell(p.nodes, i, j) <= Cell(n.nodes, i, j)
      BY <3>1
    <3>. QED BY <1>3, <3>2
  <2>3. p.valid_node # n.valid_node =>
            \E x \in n.messages : x.name = "addnode" /\ x.val = n.my_id /\ x.number < Done(p, x.author)
    <3>1. m.number < Done(p, m.author)
      BY <1>4, <1>8
    <3>. QED BY <1>4, <1>8, <3>1
  <2>4. \A a, k : k \in Nat /\ Has(n, a) <= k /\ k < Has(p, a) => Stored(p, a, k)
    BY <1>9
  <2>5. Members(n) \subseteq Members(p)
    BY <1>8
  <2>6. \A x \in p.messages : \E h \in Sources : x \in h.messages
    BY <1>3, <1>8
  <2>7. \A a : Done(n, a) <= Done(p, a) /\ Has(n, a) <= Has(p, a)
    BY <1>9
  <2>8. n.messages \ p.messages = {}
    BY <1>8
  <2>9. Done(p, n.my_id) <= Has(p, n.my_id)
    <3>1. Done(n, n.my_id) <= Has(n, n.my_id)
      BY <1>3 DEF MembersInv, CoreOK, Known, Id
    <3>2. CASE m.author = n.my_id
      <4>1. m.number < Has(n, n.my_id)
        BY <1>3, <1>4, <3>2 DEF MembersInv, Own, Known, Id
      <4>. QED BY <1>4, <1>8, <1>9, <3>2, <4>1
    <3>3. CASE m.author # n.my_id
      BY <1>8, <1>9, <3>1, <3>3
    <3>. QED BY <3>2, <3>3
  <2>10. Follows(n, p)
    BY <1>4, <1>8, <1>9 DEF Follows
  <2>. QED BY <2>9, <2>10, <1>8, <1>9, <1>10, <2>1, <2>2, <2>3, <2>4, <2>5, <2>6, <2>7, <2>8 DEF Evolves
<1>12. core'[c] = p /\ running' = running
  BY <1>7 DEF ExecuteOne, MembersInv, CoreOK
<1>13. RunningOK'
  <2>1. Present(c)' /\ (Working(c)' <=> Working(c))
    BY <1>3, <1>8, <1>12 DEF Present, Working
  <2>2. running.on \in Computers /\ running.on # NoId
    BY <1>1 DEF MembershipAssumption
  <2>. QED BY <1>1, <1>3, <1>12, <2>1, <2>2 DEF RunningOK
<1>14. PlanOK'
  BY DEF ExecuteOne, PlanOK, MembersInv
<1>15. ASSUME NEW i \in Computers, NEW x \in Computers, Present(x), Welcoming(i, x)
       PROVE  Welcoming(i, x)' \/ Id(x) \in Members(core'[i])
  <2>1. i = c
    BY <1>1, <1>15 DEF Welcoming
  <2>2. Present(x)' /\ Id(x)' = Id(x)
    <3>1. core'[x] = IF x = c THEN p ELSE core[x]
      BY <1>7 DEF MembersInv, CoreOK
    <3>. QED BY <1>3, <1>8, <1>15, <3>1 DEF Present, Id
  <2>3. PICK w : Welcome(w, c, Id(x))
    BY <1>15, <2>1 DEF Welcoming
  <2>4. /\ w \in n.messages /\ w.author = Id(c) /\ w.name = "addnode" /\ w.val = Id(x)
        /\ Done(n, Id(c)) <= w.number /\ w.number \in Nat
    BY <1>3, <2>3 DEF Welcome, IsNode, Commands, IsCommand
  <2>5. CASE w = m
    <3>1. Id(x) \in Members(p)
      BY <1>8, <2>4, <2>5
    <3>. QED BY <1>12, <2>1, <3>1
  <2>6. CASE w # m
    <3>1. Done(p, Id(c)) <= w.number
      <4>1. CASE m.author = Id(c)
        <5>1. w.number # m.number
          BY <1>3, <1>4, <2>4, <2>6, <4>1 DEF IsNode, Commands, Single
        <5>. QED BY <1>4, <1>8, <1>9, <2>4, <4>1, <5>1
      <4>2. CASE m.author # Id(c)
        BY <1>8, <2>4, <4>2
      <4>. QED BY <4>1, <4>2
    <3>2. Id(c)' = Id(c) /\ core'[c] = p
      BY <1>8, <1>12 DEF Id
    <3>3. Welcome(w, c, Id(x))'
      BY <1>8, <2>2, <2>4, <3>1, <3>2 DEF Welcome
    <3>4. w \in core'[c].messages
      BY <1>8, <1>12, <2>4
    <3>. QED BY <1>1, <1>12, <2>1, <2>2, <3>3, <3>4 DEF Welcoming
  <2>. QED BY <2>5, <2>6
<1>16. Local(c, p)
  BY <1>7, <1>12, <1>13, <1>14, <1>15 DEF Local, ExecuteOne
<1>. QED BY <1>3, <1>11, <1>16, LocalLemma

(* RemoveOldCommands() keeps the invariant: nothing that a member, or one   *)
(* that is invited, lacks is forgotten.                                     *)
LEMMA ForgetStep ==
  ASSUME MembershipAssumption, MembersInv, NEW c \in Computers, RemoveOldCommands(c)
  PROVE  MembersInv' /\ Moves
<1>. DEFINE n == core[c]
            q == remove_old_commands(n)
            p == core'[c]
<1>1. running.on = c /\ command_to_exec(n) = {}
  BY DEF RemoveOldCommands
<1>2. /\ Present(c) /\ IsNode(n) /\ n \in Sources /\ Unexecuted(n)
      /\ running.final \in BOOLEAN /\ (running.final => Working(c))
  BY <1>1, RunningLemma
<1>3. /\ IsNode(q) /\ SameNode(n, q)
      /\ Members(q) = Members(n) /\ q.messages \subseteq n.messages
      /\ \A m \in n.messages \ q.messages : m \in Forgettable(n) /\ n.status # "inviter"
      /\ \A a : Done(q, a) = Done(n, a) /\ Has(q, a) = Has(n, a)
      /\ \A i, j : Cell(q.nodes, i, j) = Cell(n.nodes, i, j)
  <2>1. CASE n.status = "inviter"
    <3>1. q = n
      BY <2>1 DEF remove_old_commands
    <3>. HIDE DEF q
    <3>. QED BY <1>2, <3>1 DEF SameNode
  <2>2. CASE n.status # "inviter"
    <3>1. \A m \in n.messages : m.author = n.my_id => m.number < Has(n, n.my_id)
      BY <1>2 DEF MembersInv, Own, Known, Id
    <3>2. /\ IsNode(q) /\ SameNode(n, q)
          /\ Members(q) = Members(n)
          /\ q.messages = n.messages \ Forgettable(n)
          /\ \A a : Done(q, a) = Done(n, a) /\ Has(q, a) = Has(n, a)
          /\ \A i, j : Cell(q.nodes, i, j) = Cell(n.nodes, i, j)
      <4>. HIDE DEF n
      <4>. QED BY <1>2, <2>2, <3>1, RemoveLemma
    <3>. QED BY <2>2, <3>2
  <2>. QED BY <2>1, <2>2
<1>. HIDE DEF q
<1>4. /\ core' = [core EXCEPT ![c] = p]
      /\ p = q \/ (p = [q EXCEPT !.status = "work"] /\ running.final)
      /\ \/ running' = running /\ p = q
         \/ running' = NotRunning /\ (running.final => p.status = "work")
  <2>1. core = [x \in Computers |-> core[x]]
    BY DEF MembersInv, CoreOK
  <2>2. q.status \in {"work", "inviter", "part_init"} /\ DOMAIN q = DOMAIN Blank
    BY <1>3 DEF IsNode
  <2>3. CASE command_to_exec(q) # {}
    <3>1. core' = [core EXCEPT ![c] = q] /\ running' = running
      BY <2>3 DEF RemoveOldCommands, q
    <3>. QED BY <2>1, <3>1
  <2>4. CASE command_to_exec(q) = {} /\ running.final
    <3>1. core' = [core EXCEPT ![c] = [q EXCEPT !.status = "work"]] /\ running' = NotRunning
      BY <2>4 DEF RemoveOldCommands, q
    <3>2. p = [q EXCEPT !.status = "work"]
      BY <2>1, <3>1
    <3>3. p.status = "work"
      BY <2>2, <3>2 DEF Blank
    <3>. QED BY <2>4, <3>1, <3>2, <3>3
  <2>5. CASE command_to_exec(q) = {} /\ ~running.final
    <3>1. core' = [core EXCEPT ![c] = q] /\ running' = NotRunning
      BY <2>5 DEF RemoveOldCommands, q
    <3>. QED BY <2>1, <2>5, <3>1
  <2>. QED BY <1>2, <2>3, <2>4, <2>5
<1>. HIDE DEF p
<1>5. /\ IsNode(p) /\ p.my_id = n.my_id /\ p.invite_id = n.invite_id /\ p.valid_node = n.valid_node
      /\ p.nodes = q.nodes /\ p.messages = q.messages /\ p.state = n.state /\ p.log = n.log
      /\ p.status = n.status \/ (p.status = "work" /\ Working(c))
  <2>1. CASE p = q
    BY <1>3, <2>1 DEF SameNode
  <2>2. CASE p = [q EXCEPT !.status = "work"] /\ running.final
    <3>1. DOMAIN q = {"status", "my_id", "nodes", "messages", "state", "log", "disk", "filenames",
                      "valid_node", "invite_id"}
      BY <1>3 DEF IsNode, Blank
    <3>2. /\ p.nodes = q.nodes /\ p.messages = q.messages /\ p.my_id = q.my_id
          /\ p.invite_id = q.invite_id /\ p.valid_node = q.valid_node /\ p.status = "work"
          /\ p.state = q.state /\ p.log = q.log /\ DOMAIN p = DOMAIN q
      BY <2>2, <3>1
    <3>3. IsNode(p)
      BY <1>3, <3>2 DEF IsNode, Members, Commands
    <3>. QED BY <1>2, <1>3, <2>2, <3>2, <3>3 DEF SameNode
  <2>. QED BY <1>4, <2>1, <2>2
<1>6. /\ Members(p) = Members(n)
      /\ \A a : Done(p, a) = Done(n, a) /\ Has(p, a) = Has(n, a)
      /\ \A i, j : Cell(p.nodes, i, j) = Cell(n.nodes, i, j)
  BY <1>3, <1>5 DEF Members, Done, Has, SameNode
<1>7. \A a : Done(n, a) \in Nat /\ Has(n, a) \in Nat
  BY <1>2, NodeLemma
<1>8. Names(p) \subseteq Names(n)
  BY <1>3, <1>5, <1>6 DEF Names, Members
<1>9. \A m \in n.messages \ p.messages : m \in Forgettable(n) /\ n.status # "inviter"
  BY <1>3, <1>5
<1>10. Evolves(c, p, {})
  <2>1. Unexecuted(p)
    <3>. SUFFICES ASSUME NEW a, NEW k \in Nat, Done(p, a) <= k, k < Has(p, a)
                  PROVE  Stored(p, a, k)
      BY DEF Unexecuted
    <3>1. Done(n, a) <= k /\ k < Has(n, a)
      BY <1>6
    <3>2. PICK m \in n.messages : m.author = a /\ m.number = k
      BY <1>2, <3>1 DEF Unexecuted, Stored
    <3>3. m \in p.messages
      <4>. SUFFICES ASSUME m \notin p.messages PROVE FALSE
        OBVIOUS
      <4>1. m.number < Done(n, m.author)
        BY <1>2, <1>9, ForgetLemma
      <4>. QED BY <1>7, <3>1, <3>2, <4>1
    <3>. QED BY <3>2, <3>3 DEF Stored
  <2>2. \A i, j : i # n.my_id => \E h \in Sources : Cell(p.nodes, i, j) <= Cell(h.nodes, i, j)
    <3>1. \A i, j : Cell(p.nodes, i, j) = Cell(n.nodes, i, j) /\ Cell(n.nodes, i, j) \in Nat
      BY <1>2, <1>6, CellLemma DEF IsNode
    <3>2. \A i, j : Cell(p.nodes, i, j) <= Cell(n.nodes, i, j)
      BY <3>1
    <3>. QED BY <1>2, <3>2
  <2>3. \A a, k : k \in Nat /\ Has(n, a) <= k /\ k < Has(p, a) => Stored(p, a, k)
    BY <1>6, <1>7
  <2>4. \A a : Done(n, a) <= Done(p, a) /\ Has(n, a) <= Has(p, a)
    BY <1>6, <1>7
  <2>5. \A x \in p.messages : \E h \in Sources : x \in h.messages
    BY <1>2, <1>3, <1>5
  <2>6. /\ p.status = "inviter" => n.status = "inviter"
        /\ p.status = "part_init" => n.status = "part_init"
        /\ ~(n.status = "part_init" /\ p.status # "part_init")
    BY <1>5 DEF Working
  <2>7. Done(p, n.my_id) <= Has(p, n.my_id)
    BY <1>2, <1>6 DEF MembersInv, CoreOK, Known, Id
  <2>8. Follows(n, p)
    BY <1>5, <1>6 DEF Follows
  <2>. QED BY <1>1, <1>5, <1>6, <1>8, <1>9, <2>8, <2>7, <2>1, <2>2, <2>3, <2>4, <2>5, <2>6
           DEF Evolves
<1>11. core'[c] = p
  BY <1>4 DEF MembersInv, CoreOK
<1>12. c # NoId /\ NotRunning.on = NoId /\ NotRunning.final = FALSE
  BY DEF MembershipAssumption, NotRunning
<1>13. RunningOK'
  <2>1. Present(c)' /\ (Working(c) => Working(c)')
    BY <1>2, <1>5, <1>11 DEF Present, Working, IsNode
  <2>2. CASE running' = running
    BY <1>1, <1>2, <1>12, <2>1, <2>2 DEF RunningOK
  <2>3. CASE running' = NotRunning
    BY <1>12, <2>3 DEF RunningOK, MembershipAssumption
  <2>. QED BY <1>4, <2>2, <2>3
<1>14. PlanOK'
  BY DEF RemoveOldCommands, PlanOK, MembersInv
<1>15. ASSUME NEW i \in Computers, NEW x \in Computers, Welcoming(i, x)
       PROVE  FALSE
  <2>1. i = c
    BY <1>1, <1>15 DEF Welcoming
  <2>. QED BY <1>1, <1>2, <1>15, <2>1, WelcomeLemma
<1>16. ASSUME NEW f \in invites, NEW w \in Computers, Open(w, f)',
              running = [on |-> w, final |-> TRUE]
       PROVE  running' = [on |-> w, final |-> TRUE]
  <2>1. w = c /\ running.final
    BY <1>1, <1>16
  <2>2. core'[w].status = "inviter"
    BY <1>16 DEF Open
  <2>. QED BY <1>4, <1>11, <1>16, <2>1, <2>2
<1>17. Local(c, p)
  BY <1>4, <1>13, <1>14, <1>15, <1>16 DEF Local, RemoveOldCommands
<1>. QED BY <1>2, <1>10, <1>17, LocalLemma

(* C: new commands of the node n, numbered from the next one on.             *)
New(C, n, V) ==
    /\ IsFiniteSet(C) /\ Single(C)
    /\ \A m \in C : /\ m.author = n.my_id /\ m.name \in Kinds
                    /\ m.number \in Nat
                    /\ Has(n, n.my_id) <= m.number /\ m.number < Has(n, n.my_id) + Cardinality(C)
                    /\ DOMAIN m.depends \subseteq Members(n)
                    /\ \A i \in DOMAIN m.depends : m.depends[i] = Done(n, i)
                    /\ m.name = "addnode" => m.val \in V
    /\ \A k \in Nat : Has(n, n.my_id) <= k /\ k < Has(n, n.my_id) + Cardinality(C) =>
           \E m \in C : m.number = k

(* The node x, when it is p with the new commands C.                         *)
Creates(x, p, C, V) ==
    /\ Evolves(x, p, V) /\ p.status = core[x].status
    /\ p.messages = core[x].messages \cup C /\ Members(p) = Members(core[x])
    /\ \A a : Done(p, a) = Done(core[x], a)

(* What a node does that creates commands.                                  *)
LEMMA CreateLemma ==
  ASSUME MembersInv, NEW x \in Computers, Working(x), NEW V, NEW C, New(C, core[x], V),
         NEW p, p = WithNew(core[x], C)
  PROVE  Creates(x, p, C, V)
<1>. DEFINE n == core[x]
            c == Cardinality(C)
<1>1. /\ IsNode(n) /\ n \in Sources /\ Unexecuted(n) /\ Present(x)
      /\ n.status \in {"work", "inviter"}
  BY PresentLemma DEF Working
<1>2. \A a : Has(n, a) \in Nat /\ Done(n, a) \in Nat
  BY <1>1, NodeLemma
<1>3. c \in Nat /\ IsFiniteSet(C) /\ Single(C)
  BY FS_CardinalityType DEF New
<1>4. \A m \in C : /\ IsCommand(m, Members(n))
                   /\ m.author = n.my_id /\ m.number >= Has(n, n.my_id)
  <2>. TAKE m \in C
  <2>1. n.my_id \in Members(n)
    BY <1>1 DEF IsNode
  <2>2. \A i \in DOMAIN m.depends : m.depends[i] \in Nat
    BY <1>2 DEF New
  <2>3. m.number \in Nat /\ Has(n, n.my_id) <= m.number
    BY DEF New
  <2>4. m.number >= Has(n, n.my_id)
    BY <1>2, <2>3
  <2>. QED BY <2>1, <2>2, <2>3, <2>4 DEF New, IsCommand
<1>5. \A m \in n.messages : m.author = n.my_id => m.number < Has(n, n.my_id)
  BY <1>1 DEF MembersInv, Own, Known, Id
<1>6. /\ IsNode(p) /\ SameNode(n, p)
      /\ Members(p) = Members(n)
      /\ p.messages = n.messages \cup C
      /\ \A a : Done(p, a) = Done(n, a)
      /\ \A i, j : Cell(p.nodes, i, j) =
             IF i = n.my_id /\ j = n.my_id THEN Cell(n.nodes, i, j) + Cardinality(C)
             ELSE Cell(n.nodes, i, j)
      /\ \A a : Has(p, a) = IF a = n.my_id THEN Has(n, a) + Cardinality(C) ELSE Has(n, a)
  <2>1. p = WithNew(n, C)
    OBVIOUS
  <2>. HIDE DEF n, c
  <2>. QED BY <1>1, <1>3, <1>4, <1>5, <2>1, NewLemma
<1>7. \A a : Has(n, a) <= Has(p, a) /\ Done(n, a) <= Done(p, a) /\ Has(p, a) \in Nat
  BY <1>2, <1>3, <1>6
<1>8. \A a, k : k \in Nat /\ Has(n, a) <= k /\ k < Has(p, a) => Stored(p, a, k)
  <2>. SUFFICES ASSUME NEW a, NEW k \in Nat, Has(n, a) <= k, k < Has(p, a)
                PROVE  Stored(p, a, k)
    OBVIOUS
  <2>1. a = n.my_id /\ k < Has(n, n.my_id) + Cardinality(C)
    BY <1>2, <1>6
  <2>2. PICK m \in C : m.number = k
    BY <2>1 DEF New
  <2>3. m.author = n.my_id /\ m \in p.messages
    BY <1>4, <1>6
  <2>. QED BY <2>1, <2>2, <2>3 DEF Stored
<1>9. Unexecuted(p)
  <2>. SUFFICES ASSUME NEW a, NEW k \in Nat, Done(p, a) <= k, k < Has(p, a)
                PROVE  Stored(p, a, k)
    BY DEF Unexecuted
  <2>1. CASE k < Has(n, a)
    <3>1. Stored(n, a, k)
      BY <1>1, <1>6, <2>1 DEF Unexecuted
    <3>. QED BY <1>6, <3>1, StoredGrows
  <2>2. CASE Has(n, a) <= k
    BY <1>8, <2>2
  <2>. QED BY <1>2, <2>1, <2>2
<1>10. \A i, j : i # n.my_id => \E h \in Sources : Cell(p.nodes, i, j) <= Cell(h.nodes, i, j)
  <2>1. \A i, j : Cell(n.nodes, i, j) \in Nat
    BY <1>1, CellLemma DEF IsNode
  <2>2. \A i, j : i # n.my_id => Cell(p.nodes, i, j) <= Cell(n.nodes, i, j)
    BY <1>6, <2>1
  <2>. QED BY <1>1, <2>2
<1>11. \A m \in p.messages : (\E h \in Sources : m \in h.messages) \/ Created(m, x, p, V)
  <2>. TAKE m \in p.messages
  <2>1. CASE m \in n.messages
    BY <1>1, <2>1
  <2>2. CASE m \in C
    <3>1. /\ m.author = Id(x) /\ Has(n, Id(x)) <= m.number
          /\ m.number < Has(n, n.my_id) + Cardinality(C)
          /\ DOMAIN m.depends \subseteq Members(n) /\ (m.name = "addnode" => m.val \in V)
      BY <2>2 DEF New, Id
    <3>2. \A i \in DOMAIN m.depends : m.depends[i] <= Done(n, i)
      <4>1. \A i \in DOMAIN m.depends : m.depends[i] = Done(n, i)
        BY <2>2 DEF New
      <4>. QED BY <1>2, <4>1
    <3>3. Has(p, Id(x)) = Has(n, n.my_id) + Cardinality(C)
      BY <1>6 DEF Id
    <3>. QED BY <3>1, <3>2, <3>3 DEF Created
  <2>. QED BY <1>6, <2>1, <2>2
<1>12. \A y \in Names(p) : y \in Names(n) \/ y \in V
  <2>1. \A m \in C : m.name = "addnode" => m.val \in V
    BY DEF New
  <2>. QED BY <1>6, <2>1 DEF Names, Members
<1>13. /\ p.my_id = n.my_id /\ p.invite_id = n.invite_id /\ p.status = n.status
       /\ p.valid_node = n.valid_node
  BY <1>6 DEF SameNode
<1>14. n.messages \ p.messages = {}
  BY <1>6
<1>15. n.status # "part_init" /\ p.status # "part_init"
  BY <1>1, <1>13
<1>17. Done(p, n.my_id) <= Has(p, n.my_id)
  <2>1. Done(n, n.my_id) <= Has(n, n.my_id)
    BY <1>1 DEF MembersInv, CoreOK, Known, Id
  <2>. QED BY <1>2, <1>3, <1>6, <2>1
<1>18. Follows(n, p)
  BY <1>6, <1>15 DEF Follows, SameNode
<1>16. Evolves(x, p, V)
  BY <1>17, <1>18, <1>6, <1>7, <1>8, <1>9, <1>10, <1>11, <1>12, <1>13, <1>14, <1>15 DEF Evolves
<1>. QED BY <1>6, <1>13, <1>16 DEF Creates

(* create_command()                                                          *)
LEMMA SingleLemma ==
  ASSUME MembersInv, NEW x \in Computers, Working(x), NEW name \in Kinds, NEW val,
         NEW add \in BOOLEAN, NEW V, name = "addnode" => val \in V
  PROVE  /\ New({new_command(core[x], name, val, 0, add)}, core[x], V)
         /\ create_command(core[x], name, val, add) =
                WithNew(core[x], {new_command(core[x], name, val, 0, add)})
<1>. DEFINE n == core[x]
            m == new_command(n, name, val, 0, add)
<1>1. IsNode(n) /\ n.status \in {"work", "inviter"}
  BY PresentLemma DEF Working
<1>2. Has(n, n.my_id) \in Nat /\ Number(n) = Has(n, n.my_id)
  BY <1>1, NodeLemma
<1>3. /\ m.author = n.my_id /\ m.number = Has(n, n.my_id) /\ m.name = name /\ m.val = val
      /\ DOMAIN m.depends \subseteq Members(n)
      /\ \A i \in DOMAIN m.depends : m.depends[i] = Done(n, i)
  BY <1>2 DEF new_command, Done
<1>. HIDE DEF m
<1>4. Cardinality({m}) = 1 /\ IsFiniteSet({m}) /\ Single({m})
  BY FS_Singleton DEF Single
<1>5. New({m}, n, V)
  <2>1. \A k \in Nat : Has(n, n.my_id) <= k /\ k < Has(n, n.my_id) + 1 => k = m.number
    BY <1>2, <1>3
  <2>2. Has(n, n.my_id) <= m.number /\ m.number < Has(n, n.my_id) + 1 /\ m.number \in Nat
    BY <1>2, <1>3
  <2>. HIDE DEF n
  <2>. QED BY <1>3, <1>4, <2>1, <2>2 DEF New
<1>6. create_command(n, name, val, add) = WithNew(n, {m})
  BY <1>1 DEF create_command, m
<1>. QED BY <1>5, <1>6 DEF m

(* The files and the state of the user's commands do not matter here.        *)
LEMMA DiskLemma ==
  ASSUME NEW x, NEW V, NEW p, Evolves(x, p, V), NEW q, DOMAIN q = DOMAIN p,
         SameNode(p, q), q.nodes = p.nodes, q.messages = p.messages
  PROVE  Evolves(x, q, V)
<1>1. \A a : Done(q, a) = Done(p, a) /\ Has(q, a) = Has(p, a)
  BY DEF Done, Has, Members, SameNode
<1>2. Members(q) = Members(p) /\ Names(q) = Names(p)
  BY DEF Members, Names
<1>3. \A a, k : Stored(p, a, k) => Stored(q, a, k)
  BY DEF Stored
<1>4. IsNode(q)
  BY DEF Evolves, IsNode, SameNode, Members, Commands
<1>5. Unexecuted(q)
  BY <1>1, <1>3 DEF Evolves, Unexecuted
<1>6. \A m : Created(m, x, p, V) => Created(m, x, q, V)
  BY <1>1 DEF Created
<1>7. \A a, k : k \in Nat /\ Has(core[x], a) <= k /\ k < Has(q, a) => Stored(q, a, k)
  BY <1>1, <1>3 DEF Evolves
<1>8. Follows(core[x], q)
  BY <1>1, <1>2 DEF Evolves, Follows, SameNode
<1>. QED BY <1>1, <1>2, <1>4, <1>5, <1>6, <1>7, <1>8 DEF Evolves, SameNode

(* What a user types at rest changes one node.                               *)
LEMMA TypedLemma ==
  ASSUME MembershipAssumption, MembersInv, NEW x \in Computers, Present(x), AtRest, NEW p,
         Evolves(x, p, {}), core' = [core EXCEPT ![x] = p],
         invites' = invites, drawn' = drawn, packets' = packets, running' = running,
         PlanOK', left'.founders = left.founders, left'.invites = left.invites
  PROVE  MembersInv' /\ Moves
<1>1. RunningOK'
  <2>1. running = NotRunning /\ NotRunning.on = NoId /\ NotRunning.final = FALSE
    BY DEF AtRest, NotRunning
  <2>2. NoId \notin Computers
    BY DEF MembershipAssumption
  <2>. QED BY <2>1, <2>2 DEF RunningOK
<1>2. Local(x, p)
  BY <1>1, RestLemma DEF Local
<1>. QED BY <1>2, LocalLemma

(* What a node does when its user gives a command that is about no member.  *)
LEMMA CommandLemma ==
  ASSUME MembershipAssumption, MembersInv, NEW c \in Computers, Accepts(c),
         NEW name \in {"other", "addfile", "delfile", "deldir"},
         NEW q, q = create_command(core[c], name, NoId, TRUE)
  PROVE  /\ Present(c) /\ AtRest /\ Evolves(c, q, {}) /\ IsNode(q)
<1>1. Working(c) /\ AtRest /\ Present(c)
  BY PresentLemma DEF Accepts, Working
<1>. DEFINE C == {new_command(core[c], name, NoId, 0, TRUE)}
<1>2. New(C, core[c], {}) /\ q = WithNew(core[c], C)
  <2>1. name \in Kinds /\ name # "addnode"
    BY DEF Kinds
  <2>. QED BY <1>1, <2>1, SingleLemma
<1>. HIDE DEF C
<1>3. Evolves(c, q, {})
  BY <1>1, <1>2, CreateLemma DEF Creates
<1>. QED BY <1>1, <1>3 DEF Evolves

(* Command(), incm_addfile() and RemoveFile() keep the invariant.           *)
LEMMA CommandStep ==
  ASSUME MembershipAssumption, MembersInv, NEW c \in Computers,
         Command(c) \/ incm_addfile(c) \/ (\E how \in {"delfile", "deldir"} : RemoveFile(c, how))
  PROVE  MembersInv' /\ Moves
<1>1. CASE Command(c)
  <2>. DEFINE q == create_command(core[c], "other", NoId, TRUE)
  <2>1. Accepts(c)
    BY <1>1 DEF Command
  <2>2. Present(c) /\ AtRest /\ Evolves(c, q, {})
    BY <2>1, CommandLemma
  <2>3. core' = [core EXCEPT ![c] = q]
    BY <1>1 DEF Command
  <2>4. PlanOK' /\ left'.founders = left.founders /\ left'.invites = left.invites
    <3>1. left' = [left EXCEPT !["commands"] = @ - 1] /\ left["commands"] > 0 /\ invites' = invites
      BY <1>1 DEF Command, Spend
    <3>. QED BY <3>1, SpendLemma
  <2>. HIDE DEF q
  <2>. QED BY <1>1, <2>2, <2>3, <2>4, TypedLemma DEF Command
<1>2. CASE incm_addfile(c)
  <2>. DEFINE q == create_command(core[c], "addfile", NoId, TRUE)
              p == [q EXCEPT !.disk = left.files]
  <2>1. Accepts(c)
    BY <1>2 DEF incm_addfile
  <2>2. Present(c) /\ AtRest /\ Evolves(c, q, {}) /\ IsNode(q)
    BY <2>1, CommandLemma
  <2>3. core' = [core EXCEPT ![c] = p]
    BY <1>2 DEF incm_addfile
  <2>4. PlanOK' /\ left'.founders = left.founders /\ left'.invites = left.invites
    <3>1. left' = [left EXCEPT !["files"] = @ - 1] /\ left["files"] > 0 /\ invites' = invites
      BY <1>2 DEF incm_addfile, Spend
    <3>. QED BY <3>1, SpendLemma
  <2>. HIDE DEF q
  <2>5. DOMAIN q = {"status", "my_id", "nodes", "messages", "state", "log", "disk", "filenames",
                    "valid_node", "invite_id"}
    BY <2>2 DEF IsNode, Blank
  <2>6. /\ DOMAIN p = DOMAIN q /\ SameNode(q, p) /\ p.nodes = q.nodes /\ p.messages = q.messages
    BY <2>5 DEF SameNode
  <2>. HIDE DEF p
  <2>7. Evolves(c, p, {})
    BY <2>2, <2>6, DiskLemma
  <2>. QED BY <1>2, <2>2, <2>3, <2>4, <2>7, TypedLemma DEF incm_addfile
<1>3. CASE \E how \in {"delfile", "deldir"} : RemoveFile(c, how)
  <2>0. PICK how \in {"delfile", "deldir"} : RemoveFile(c, how)
    BY <1>3
  <2>. DEFINE q == create_command(core[c], how, NoId, TRUE)
  <2>1. Accepts(c)
    BY <2>0 DEF RemoveFile
  <2>2. Present(c) /\ AtRest /\ Evolves(c, q, {})
    <3>1. how \in {"other", "addfile", "delfile", "deldir"}
      OBVIOUS
    <3>. QED BY <2>1, <3>1, CommandLemma
  <2>3. core' = [core EXCEPT ![c] = q]
    BY <2>0 DEF RemoveFile
  <2>4. PlanOK' /\ left'.founders = left.founders /\ left'.invites = left.invites
    <3>1. left' = [left EXCEPT !["removals"] = @ - 1] /\ left["removals"] > 0 /\ invites' = invites
      BY <2>0 DEF RemoveFile, Spend
    <3>. QED BY <3>1, SpendLemma
  <2>. HIDE DEF q
  <2>. QED BY <2>0, <2>2, <2>3, <2>4, TypedLemma DEF RemoveFile
<1>. QED BY <1>1, <1>2, <1>3

(* Nobody leaves.                                                            *)
LEMMA NobodyLeaves ==
  ASSUME MembersInv, NEW c \in Computers
  PROVE  /\ \A id, force : ~incm_delnode(c, id, force)
         /\ \A d \in Computers : ~LearnOfRemoval(c, d)
<1>1. left.leaving = {} /\ left.forced = {}
  BY DEF MembersInv, PlanOK
<1>2. core[c].status # "deleting"
  <2>1. Present(c) => core[c].status \in {"work", "inviter", "part_init"}
    BY PresentLemma DEF IsNode
  <2>. QED BY <2>1 DEF Present
<1>. QED BY <1>1, <1>2 DEF incm_delnode, LearnOfRemoval, Told

(* cancel_invite() keeps the invariant.                                     *)
LEMMA CancelStep ==
  ASSUME MembershipAssumption, MembersInv, NEW c \in Computers, cancel_invite(c)
  PROVE  MembersInv' /\ Moves
<1>. DEFINE n == core[c]
            p == [n EXCEPT !.status = "work"]
<1>1. AtRest /\ core' = [core EXCEPT ![c] = p] /\ n.invite_id # 0
  BY DEF cancel_invite
<1>2. Present(c) /\ n.status # "part_init"
  <2>1. core[c] # Blank
    BY <1>1 DEF Blank
  <2>2. Present(c)
    BY <2>1, PresentLemma
  <2>. QED BY <1>1, <2>2 DEF MembersInv, CoreOK
<1>3. IsNode(n) /\ Evolves(c, n, {})
  BY <1>2, PresentLemma, EvolvesRefl
<1>4. DOMAIN n = {"status", "my_id", "nodes", "messages", "state", "log", "disk", "filenames",
                  "valid_node", "invite_id"}
  BY <1>3 DEF IsNode, Blank
<1>5. /\ p.nodes = n.nodes /\ p.messages = n.messages /\ p.my_id = n.my_id
      /\ p.invite_id = n.invite_id /\ p.valid_node = n.valid_node /\ p.status = "work"
      /\ p.state = n.state /\ p.log = n.log /\ DOMAIN p = DOMAIN n
  BY <1>4
<1>. HIDE DEF p
<1>6. IsNode(p)
  BY <1>3, <1>5 DEF IsNode, Members, Commands
<1>7. Evolves(c, p, {})
  <2>1. \A a : Done(p, a) = Done(n, a) /\ Has(p, a) = Has(n, a)
    BY <1>5 DEF Done, Has, Members
  <2>2. Members(p) = Members(n) /\ Names(p) = Names(n)
    BY <1>5 DEF Members, Names
  <2>3. \A a, k : Stored(n, a, k) => Stored(p, a, k)
    BY <1>5 DEF Stored
  <2>4. Unexecuted(p)
    BY <1>3, <2>1, <2>3 DEF Evolves, Unexecuted
  <2>5. \A m : Created(m, c, n, {}) => Created(m, c, p, {})
    BY <2>1 DEF Created
  <2>6. \A a, k : k \in Nat /\ Has(n, a) <= k /\ k < Has(p, a) => Stored(p, a, k)
    BY <1>3, <2>1, <2>3 DEF Evolves
  <2>7. Follows(n, p)
    BY <1>5, <2>1 DEF Follows
  <2>. QED BY <1>2, <1>3, <1>5, <1>6, <2>1, <2>2, <2>4, <2>5, <2>6, <2>7 DEF Evolves
<1>8. PlanOK'
  BY DEF cancel_invite, PlanOK, MembersInv
<1>. QED BY <1>1, <1>2, <1>7, <1>8, TypedLemma DEF cancel_invite

(* Commands of a set are commands of a larger one.                          *)
LEMMA ReadsMore ==
  ASSUME NEW n, NEW p, NEW C, NEW D, C \subseteq D, Reads(n, p, C)
  PROVE  Reads(n, p, D)
BY DEF Reads

(* One reply of the other node is read.                                     *)
LEMMA FetchedLemma ==
  ASSUME NEW n, IsNode(n), NEW h, IsNode(h)
  PROVE  Reads(n, Fetched(n, h), h.messages)
<1>. DEFINE a == Min(Wanted(n, h))
            reply == {m \in h.messages :
                        m.author = a /\ m.number = Row(n)[a] /\ ~Unsendable(h, m)}
            p == add_cmd(after_read(n, reply, h.disk), reply)
<1>1. Fetched(n, h) = IF Wanted(n, h) = {} THEN n ELSE p
  BY DEF Fetched
<1>2. CASE Wanted(n, h) = {}
  BY <1>1, <1>2, ReadsRefl
<1>3. CASE Wanted(n, h) # {}
  <2>1. Fetched(n, h) = p /\ reply \subseteq h.messages
    BY <1>1, <1>3
  <2>2. p = add_cmd(after_read(n, reply, h.disk), reply)
    OBVIOUS
  <2>. HIDE DEF reply, p
  <2>3. IsFiniteSet(reply)
    BY <2>1, FS_Subset DEF IsNode, Commands
  <2>4. Single(reply) /\ \A m \in reply : IsCommand(m, DOMAIN h.nodes)
    BY <2>1 DEF IsNode, Commands, Single
  <2>5. Reads(n, p, reply)
    BY <2>2, <2>3, <2>4, ReadLemma
  <2>. QED BY <2>1, <2>5, ReadsMore
<1>. QED BY <1>2, <1>3

(* The replies one after the other.                                          *)
Fetching(g, n, h, i) == g = [j \in 0 .. i |-> IF j = 0 THEN n ELSE Fetched(g[j - 1], h)]

(* The function that Downloaded() defines exists.                           *)
LEMMA GotLemma ==
  ASSUME NEW n, NEW h, NEW i \in Nat
  PROVE  \E g : Fetching(g, n, h, i)
<1>. DEFINE Good(k) == \E g : Fetching(g, n, h, k)
            Bad == {k \in Nat : ~Good(k)}
<1>1. Good(0)
  <2>. DEFINE g == [j \in 0 .. 0 |-> n]
  <2>1. g = [j \in 0 .. 0 |-> IF j = 0 THEN n ELSE Fetched(g[j - 1], h)]
    OBVIOUS
  <2>. QED BY <2>1 DEF Fetching
<1>2. ASSUME NEW k \in Nat, k # 0, Good(k - 1)
      PROVE  Good(k)
  <2>1. PICK f : f = [j \in 0 .. k - 1 |-> IF j = 0 THEN n ELSE Fetched(f[j - 1], h)]
    BY <1>2 DEF Fetching
  <2>. DEFINE g == [j \in 0 .. k |-> IF j = k THEN Fetched(f[k - 1], h) ELSE f[j]]
  <2>2. \A j \in 0 .. k - 1 : g[j] = f[j]
    BY <1>2
  <2>3. ASSUME NEW j \in 0 .. k
        PROVE  g[j] = IF j = 0 THEN n ELSE Fetched(g[j - 1], h)
    <3>1. CASE j = k
      <4>1. g[j] = Fetched(f[k - 1], h) /\ g[k - 1] = f[k - 1]
        BY <1>2, <2>2, <3>1
      <4>. HIDE DEF g
      <4>. QED BY <1>2, <3>1, <4>1
    <3>2. CASE j # k /\ j # 0
      <4>1. g[j] = f[j] /\ g[j - 1] = f[j - 1] /\ j \in 0 .. k - 1
        BY <1>2, <2>2, <3>2
      <4>. HIDE DEF g
      <4>. QED BY <2>1, <3>2, <4>1
    <3>3. CASE j = 0
      <4>1. g[j] = f[j] /\ j \in 0 .. k - 1
        BY <1>2, <2>2, <3>3
      <4>. HIDE DEF g
      <4>. QED BY <2>1, <3>3, <4>1
    <3>. QED BY <3>1, <3>2, <3>3
  <2>4. g = [j \in 0 .. k |-> g[j]]
    OBVIOUS
  <2>. HIDE DEF g
  <2>5. g = [j \in 0 .. k |-> IF j = 0 THEN n ELSE Fetched(g[j - 1], h)]
    BY <2>3, <2>4
  <2>. QED BY <2>5 DEF Fetching
<1>. HIDE DEF Good
<1>3. Bad = {}
  <2>. SUFFICES ASSUME Bad # {} PROVE FALSE
    OBVIOUS
  <2>1. PICK k \in Bad : \A j \in Bad : k <= j
    <3>1. Bad \subseteq Nat
      OBVIOUS
    <3>. HIDE DEF Bad
    <3>. QED BY <3>1, SmallestLemma
  <2>2. k # 0 /\ k \in Nat
    BY <1>1
  <2>3. k - 1 \in Nat /\ ~(k <= k - 1)
    BY <2>2
  <2>4. Good(k - 1)
    BY <2>1, <2>3
  <2>. QED BY <1>2, <2>1, <2>2, <2>4
<1>. QED BY <1>3 DEF Good

(* All replies of a download are read.                                      *)
LEMMA DownloadedLemma ==
  ASSUME NEW n, IsNode(n), NEW h, IsNode(h), NEW i \in Nat
  PROVE  Reads(n, Downloaded(n, h, i), h.messages)
<1>. DEFINE got == CHOOSE g : Fetching(g, n, h, i)
<1>1. Downloaded(n, h, i) = got[i]
  BY DEF Downloaded, Fetching
<1>2. \E g : Fetching(g, n, h, i)
  BY GotLemma
<1>3. Fetching(got, n, h, i)
  BY <1>2
<1>4. \A j \in 0 .. i : got[j] = IF j = 0 THEN n ELSE Fetched(got[j - 1], h)
  <2>. HIDE DEF got
  <2>. QED BY <1>3 DEF Fetching
<1>. HIDE DEF got
<1>. DEFINE Bad == {k \in 0 .. i : ~Reads(n, got[k], h.messages)}
<1>5. Bad = {}
  <2>. SUFFICES ASSUME Bad # {} PROVE FALSE
    OBVIOUS
  <2>1. PICK k \in Bad : \A j \in Bad : k <= j
    <3>1. Bad \subseteq Nat
      OBVIOUS
    <3>. HIDE DEF Bad
    <3>. QED BY <3>1, SmallestLemma
  <2>2. k # 0
    <3>1. 0 \in 0 .. i
      OBVIOUS
    <3>2. got[0] = n
      BY <1>4, <3>1
    <3>. QED BY <3>2, ReadsRefl
  <2>3. k - 1 \in 0 .. i /\ ~(k <= k - 1) /\ k \in 0 .. i
    BY <2>2
  <2>4. Reads(n, got[k - 1], h.messages)
    BY <2>1, <2>3
  <2>5. Reads(got[k - 1], got[k], h.messages)
    <3>1. got[k] = Fetched(got[k - 1], h)
      BY <1>4, <2>2, <2>3
    <3>2. IsNode(got[k - 1])
      BY <2>4 DEF Reads
    <3>. QED BY <3>1, <3>2, FetchedLemma
  <2>6. Reads(n, got[k], h.messages)
    BY <2>4, <2>5, ReadsTrans
  <2>. QED BY <2>3, <2>6
<1>. QED BY <1>1, <1>5

(* A node that takes over a matrix and some commands of a source.            *)
LEMMA MergeLemma ==
  ASSUME MembersInv, NEW x \in Computers, Present(x), NEW h \in Sources \cap Spoken,
         NEW st \in {"work", "inviter"},
         st = core[x].status \/ ( /\ core[x].status = "part_init" /\ st = "work"
                                  /\ h \in packets /\ Id(x) \in Names(h) ),
         NEW q, q = [core[x] EXCEPT !.nodes = Update(@, h.nodes), !.status = st],
         NEW p, Reads(q, p, h.messages)
  PROVE  Evolves(x, p, {})
<1>. DEFINE n == core[x]
<1>1. /\ IsNode(n) /\ n \in Sources /\ Unexecuted(n)
      /\ IsMatrix(h.nodes)
  BY PresentLemma DEF MembersInv, SourcesOK
<1>2. /\ IsNode(q) /\ q.my_id = n.my_id /\ q.status = st
      /\ q.valid_node = n.valid_node /\ q.invite_id = n.invite_id
      /\ Members(q) = Members(n) /\ q.messages = n.messages
      /\ q.state = n.state /\ q.log = n.log
      /\ \A a : Done(q, a) = Done(n, a)
      /\ \A i, j : /\ Cell(n.nodes, i, j) <= Cell(q.nodes, i, j)
                   /\ \/ Cell(q.nodes, i, j) = Cell(n.nodes, i, j)
                      \/ Cell(q.nodes, i, j) = Cell(h.nodes, i, j)
  <2>1. Learns(n, q, h.nodes, st)
    BY <1>1, LearnLemma
  <2>. QED BY <2>1 DEF Learns
<1>3. \A a : /\ Has(q, a) = Has(n, a) /\ Has(n, a) \in Nat /\ Has(p, a) \in Nat
             /\ Done(n, a) \in Nat
  <2>1. \A a : Has(n, a) \in Nat /\ Has(q, a) \in Nat /\ Done(n, a) \in Nat /\ Has(p, a) \in Nat
    BY <1>1, <1>2, NodeLemma DEF Reads
  <2>2. \A a : Cell(h.nodes, n.my_id, a) <= Has(n, a)
    BY DEF MembersInv, Sound, Known, Id
  <2>3. \A a : Cell(h.nodes, n.my_id, a) \in Nat
    BY <1>1, CellLemma
  <2>4. \A a : Has(n, a) <= Has(q, a) /\ (Has(q, a) = Has(n, a) \/ Has(q, a) = Cell(h.nodes, n.my_id, a))
    BY <1>2 DEF Has
  <2>5. ASSUME NEW a PROVE Has(q, a) = Has(n, a)
    <3>1. /\ Has(n, a) \in Nat /\ Has(q, a) \in Nat /\ Cell(h.nodes, n.my_id, a) \in Nat
          /\ Cell(h.nodes, n.my_id, a) <= Has(n, a) /\ Has(n, a) <= Has(q, a)
          /\ Has(q, a) = Has(n, a) \/ Has(q, a) = Cell(h.nodes, n.my_id, a)
      BY <2>1, <2>2, <2>3, <2>4
    <3>. QED BY <3>1
  <2>. QED BY <2>1, <2>5
<1>4. /\ IsNode(p) /\ SameNode(q, p)
      /\ Members(p) = Members(q)
      /\ q.messages \subseteq p.messages /\ p.messages \subseteq q.messages \cup h.messages
      /\ \A a : Done(p, a) = Done(q, a)
      /\ \A i, j : i # q.my_id => Cell(p.nodes, i, j) = Cell(q.nodes, i, j)
      /\ \A a : Has(q, a) <= Has(p, a)
      /\ \A a, k : k \in Nat /\ Has(q, a) <= k /\ k < Has(p, a) => Stored(p, a, k)
  BY DEF Reads
<1>5. /\ p.my_id = n.my_id /\ p.status = st /\ p.valid_node = n.valid_node
      /\ p.invite_id = n.invite_id
  BY <1>2, <1>4 DEF SameNode
<1>6. \A a : Has(n, a) <= Has(p, a) /\ Done(n, a) <= Done(p, a) /\ Done(p, a) = Done(n, a)
  BY <1>2, <1>3, <1>4
<1>7. \A a, k : k \in Nat /\ Has(n, a) <= k /\ k < Has(p, a) => Stored(p, a, k)
  BY <1>3, <1>4
<1>8. Unexecuted(p)
  <2>. SUFFICES ASSUME NEW a, NEW k \in Nat, Done(p, a) <= k, k < Has(p, a)
                PROVE  Stored(p, a, k)
    BY DEF Unexecuted
  <2>1. CASE k < Has(n, a)
    <3>1. Stored(n, a, k)
      BY <1>1, <1>6, <2>1 DEF Unexecuted
    <3>2. n.messages \subseteq p.messages
      BY <1>2, <1>4
    <3>. QED BY <3>1, <3>2, StoredGrows
  <2>2. CASE Has(n, a) <= k
    BY <1>7, <2>2
  <2>. QED BY <1>3, <2>1, <2>2
<1>9. \A i, j : i # n.my_id => \E g \in Sources : Cell(p.nodes, i, j) <= Cell(g.nodes, i, j)
  <2>. SUFFICES ASSUME NEW i, NEW j, i # n.my_id
                PROVE  \E g \in Sources : Cell(p.nodes, i, j) <= Cell(g.nodes, i, j)
    OBVIOUS
  <2>1. Cell(p.nodes, i, j) = Cell(n.nodes, i, j) \/ Cell(p.nodes, i, j) = Cell(h.nodes, i, j)
    BY <1>2, <1>4
  <2>2. Cell(n.nodes, i, j) \in Nat /\ Cell(h.nodes, i, j) \in Nat
    BY <1>1, CellLemma DEF IsNode
  <2>3. Cell(p.nodes, i, j) <= Cell(n.nodes, i, j) \/ Cell(p.nodes, i, j) <= Cell(h.nodes, i, j)
    BY <2>1, <2>2
  <2>. QED BY <1>1, <2>3
<1>10. \A m \in p.messages : \E g \in Sources : m \in g.messages
  BY <1>1, <1>2, <1>4
<1>11. \A y \in Names(p) : y \in Names(n) \/ y \in Names(h)
  BY <1>2, <1>4 DEF Names, Members
<1>12. n.messages \ p.messages = {} /\ Members(n) \subseteq Members(p)
  BY <1>2, <1>4
<1>13. /\ p.status = "inviter" => n.status = "inviter"
       /\ p.status # "part_init"
       /\ n.status = "part_init" => \E g \in packets : n.my_id \in Names(g)
  BY <1>5 DEF Id
<1>14. Done(p, n.my_id) <= Has(p, n.my_id)
  <2>1. Done(n, n.my_id) <= Has(n, n.my_id)
    BY DEF MembersInv, CoreOK, Known, Id
  <2>. QED BY <1>3, <1>6, <2>1
<1>15. Follows(n, p)
  BY <1>2, <1>4, <1>6, <1>13 DEF Follows, SameNode
<1>. QED BY <1>14, <1>15, <1>4, <1>5, <1>6, <1>7, <1>8, <1>9, <1>10, <1>11, <1>12, <1>13
         DEF Evolves

(* Download() keeps the invariant, wherever it breaks off.                  *)
LEMMA DownloadStep ==
  ASSUME MembershipAssumption, MembersInv, NEW c \in Computers, NEW d \in Computers, Download(c, d)
  PROVE  MembersInv' /\ Moves
<1>. DEFINE n == core[c]
            q == [n EXCEPT !.nodes = Update(@, core[d].nodes)]
            r == [n EXCEPT !.nodes = Update(@, core[d].nodes), !.status = n.status]
<1>1. /\ AtRest /\ Up(c) /\ Up(d) /\ ~need_initialize(n) /\ ~need_initialize(core[d])
  BY DEF Download, Connected
<1>2. Present(c) /\ Working(c) /\ Present(d) /\ Working(d)
  BY <1>1, PresentLemma DEF need_initialize, Present
<1>3. /\ IsNode(n) /\ IsNode(core[d]) /\ core[d] \in Sources \cap Spoken
      /\ n.status \in {"work", "inviter"}
  BY <1>2, PresentLemma DEF Working
<1>4. q = r /\ IsNode(r)
  <2>1. DOMAIN n = {"status", "my_id", "nodes", "messages", "state", "log", "disk", "filenames",
                    "valid_node", "invite_id"}
    BY <1>3 DEF IsNode, Blank
  <2>2. q = r
    BY <2>1
  <2>3. IsMatrix(core[d].nodes)
    BY <1>3 DEF IsNode
  <2>4. IsNode(r)
    <3>1. Learns(n, r, core[d].nodes, n.status)
      BY <1>3, <2>3, LearnLemma
    <3>. QED BY <3>1 DEF Learns
  <2>. QED BY <2>2, <2>4
<1>. DEFINE all == Cardinality(core[d].messages)
<1>5. PICK i \in 0 .. all :
          /\ core' = [core EXCEPT ![c] = Downloaded(q, core[d], i)]
          /\ left' = left \/ Spend("failures")
  <2>. HIDE DEF q
  <2>1. \E i \in 0 .. all :
               /\ core' = [core EXCEPT ![c] = Downloaded(q, core[d], i)]
               /\ IF core'[c] = Downloaded(q, core[d], all) THEN UNCHANGED left
                  ELSE Spend("failures")
    BY DEF Download, q
  <2>. QED BY <2>1
<1>. DEFINE p == Downloaded(r, core[d], i)
<1>6. core' = [core EXCEPT ![c] = p]
  BY <1>4, <1>5
<1>7. i \in Nat
  <2>1. all \in Nat
    BY <1>3, FS_CardinalityType DEF IsNode, Commands
  <2>. HIDE DEF all
  <2>. QED BY <2>1
<1>8. Reads(r, p, core[d].messages)
  <2>. HIDE DEF r
  <2>. QED BY <1>3, <1>4, <1>7, DownloadedLemma
<1>9. Evolves(c, p, {})
  <2>1. r = [core[c] EXCEPT !.nodes = Update(@, core[d].nodes), !.status = core[c].status]
    OBVIOUS
  <2>. HIDE DEF r, p, n
  <2>. QED BY <1>2, <1>3, <1>8, <2>1, MergeLemma DEF n
<1>10. PlanOK' /\ left'.founders = left.founders /\ left'.invites = left.invites
  <2>0. invites' = invites
    BY DEF Download
  <2>1. CASE left' = left
    BY <2>0, <2>1 DEF MembersInv, PlanOK
  <2>2. CASE Spend("failures")
    <3>1. left' = [left EXCEPT !["failures"] = @ - 1] /\ left["failures"] > 0
      BY <2>2 DEF Spend
    <3>. QED BY <2>0, <3>1, SpendLemma
  <2>. QED BY <1>5, <2>1, <2>2
<1>. HIDE DEF p
<1>. QED BY <1>1, <1>2, <1>6, <1>9, <1>10, TypedLemma DEF Download

(* ReadPacket() keeps the invariant, also when it makes a computer with an  *)
(* offline invite a member.                                                 *)
LEMMA ReadPacketStep ==
  ASSUME MembershipAssumption, MembersInv, NEW c \in Computers, NEW h \in packets, ReadPacket(c, h)
  PROVE  MembersInv' /\ Moves
<1>. DEFINE n == core[c]
            st == IF n.status = "part_init" THEN "work" ELSE n.status
            q == [n EXCEPT !.nodes = Update(@, h.nodes), !.status = st]
            p == add_cmd(after_read(q, h.messages, h.disk), h.messages)
<1>1. /\ AtRest /\ Present(c) /\ (n.status = "part_init" => Id(c) \in DOMAIN h.nodes)
      /\ core' = [core EXCEPT ![c] = p]
  BY DEF ReadPacket, Present, Id
<1>2. IsNode(n) /\ n.status \in {"work", "inviter", "part_init"}
  BY <1>1, PresentLemma DEF IsNode
<1>3. h \in Sources \cap Spoken /\ IsMatrix(h.nodes) /\ Commands(h)
  BY DEF Sources, Spoken, MembersInv, SourcesOK
<1>4. st \in {"work", "inviter"} /\ (st = n.status \/ (n.status = "part_init" /\ st = "work"))
  BY <1>2
<1>. HIDE DEF st
<1>5. IsNode(q)
  <2>1. Learns(n, q, h.nodes, st)
    BY <1>2, <1>3, <1>4, LearnLemma
  <2>. QED BY <2>1 DEF Learns
<1>6. Reads(q, p, h.messages)
  <2>. HIDE DEF q
  <2>. QED BY <1>3, <1>5, ReadLemma DEF Commands
<1>7. Evolves(c, p, {})
  <2>1. q = [core[c] EXCEPT !.nodes = Update(@, h.nodes), !.status = st]
    OBVIOUS
  <2>2. st = core[c].status \/ ( /\ core[c].status = "part_init" /\ st = "work"
                                 /\ h \in packets /\ Id(c) \in Names(h) )
    BY <1>1, <1>4 DEF Names
  <2>. HIDE DEF q, p, n
  <2>. QED BY <1>1, <1>3, <1>4, <1>6, <2>1, <2>2, MergeLemma
<1>8. PlanOK' /\ left'.founders = left.founders /\ left'.invites = left.invites
  <2>1. left' = [left EXCEPT !["reads"] = @ - 1] /\ left["reads"] > 0 /\ invites' = invites
    BY DEF ReadPacket, Spend
  <2>. QED BY <2>1, SpendLemma
<1>. HIDE DEF p
<1>. QED BY <1>1, <1>7, <1>8, TypedLemma DEF ReadPacket

(* write_offline_invite() keeps the invariant: what the file does not have is*)
(* still stored by the one that has written it.                             *)
LEMMA WriteInviteStep ==
  ASSUME MembershipAssumption, MembersInv, NEW c \in Computers, write_offline_invite(c)
  PROVE  MembersInv' /\ Moves
<1>. DEFINE n == core[c]
            id == left.invites
            p == [n EXCEPT !.status = "inviter", !.invite_id = id]
            g == [id |-> id, from |-> n, uuids |-> {}]
<1>1. /\ AtRest /\ core' = [core EXCEPT ![c] = p] /\ invites' = invites \cup {g}
      /\ left' = [left EXCEPT !.invites = @ - 1] /\ left.invites > 0
      /\ running' = running /\ packets' = packets /\ drawn' = drawn
  BY DEF write_offline_invite, Accepts, Spend
<1>2. Working(c) /\ Present(c)
  BY PresentLemma DEF write_offline_invite, Accepts, Working
<1>3. /\ IsNode(n) /\ Evolves(c, n, {}) /\ n \in Snapshots \cap Spoken
      /\ n.status \in {"work", "inviter"}
  BY <1>2, PresentLemma, EvolvesRefl DEF Working
<1>4. DOMAIN n = {"status", "my_id", "nodes", "messages", "state", "log", "disk", "filenames",
                  "valid_node", "invite_id"}
  BY <1>3 DEF IsNode, Blank
<1>5. /\ p.nodes = n.nodes /\ p.messages = n.messages /\ p.my_id = n.my_id
      /\ p.invite_id = id /\ p.valid_node = n.valid_node /\ p.status = "inviter"
      /\ p.state = n.state /\ p.log = n.log /\ DOMAIN p = DOMAIN n
  BY <1>4
<1>6. g.id = id /\ g.from = n /\ g.uuids = {} /\ DOMAIN g = {"id", "from", "uuids"}
  OBVIOUS
<1>7. id \in Nat /\ left'.invites = id - 1 /\ left'.founders = left.founders
  BY <1>1 DEF MembersInv, PlanOK, Plan
<1>8. \A f \in invites : f.id \in Nat /\ f.id > id
  BY DEF MembersInv, InvitesOK
<1>9. g \notin invites
  BY <1>6, <1>7, <1>8
<1>. HIDE DEF p, g, n
<1>10. Evolves(c, p, {})
  <2>0. IsNode(p)
    BY <1>3, <1>5 DEF IsNode, Members, Commands
  <2>1. \A a : Done(p, a) = Done(n, a) /\ Has(p, a) = Has(n, a)
    BY <1>5 DEF Done, Has, Members
  <2>2. Members(p) = Members(n) /\ Names(p) = Names(n)
    BY <1>5 DEF Members, Names
  <2>3. \A a, k : Stored(n, a, k) => Stored(p, a, k)
    BY <1>5 DEF Stored
  <2>4. Unexecuted(p)
    BY <1>3, <2>1, <2>3 DEF Evolves, Unexecuted
  <2>5. \A m : Created(m, c, n, {}) => Created(m, c, p, {})
    BY <2>1 DEF Created
  <2>6. \A a, k : k \in Nat /\ Has(n, a) <= k /\ k < Has(p, a) => Stored(p, a, k)
    BY <1>3, <2>1, <2>3 DEF Evolves, n
  <2>7. p.status = "inviter" /\ \E f \in invites' : f \notin invites /\ f.id = p.invite_id
    BY <1>1, <1>5, <1>6, <1>9
  <2>8. Follows(n, p)
    BY <1>5, <2>1 DEF Follows
  <2>. QED BY <1>3, <1>5, <2>0, <2>1, <2>2, <2>4, <2>5, <2>6, <2>7, <2>8 DEF Evolves, n
<1>11. \A x \in Computers : core'[x] = IF x = c THEN p ELSE core[x]
  BY <1>1 DEF MembersInv, CoreOK
<1>12. Step(c, {})
  <2>1. core = [x \in Computers |-> core[x]] /\ drawn \subseteq Ids
        /\ \A i \in drawn, j \in Ids \ drawn : i < j
    BY DEF MembersInv, CoreOK
  <2>2. core' = [x \in Computers |-> core'[x]]
    BY <1>1, <2>1
  <2>3. ASSUME NEW x \in Computers
        PROVE  \/ core[x] = Blank /\ core'[x] = Blank
               \/ Present(x) /\ Evolves(x, core'[x], {})
    BY <1>2, <1>10, <1>11, EvolvesRefl, PresentLemma
  <2>4. \A f \in invites' : f.from \in Snapshots \cap Spoken
    BY <1>1, <1>3, <1>6 DEF Snapshots, Spoken
  <2>5. \A f \in invites : \E h \in invites' : h.from = f.from /\ f.uuids \subseteq h.uuids
    BY <1>1
  <2>6. \A x \in Computers : core[x] = Blank /\ core'[x] # Blank => core'[x].my_id \in drawn'
    <3>1. core[c] # Blank
      BY <1>2, PresentLemma
    <3>. QED BY <1>11, <3>1
  <2>. QED BY <1>1, <1>7, <2>1, <2>2, <2>3, <2>4, <2>5, <2>6, RestLemma DEF Step
<1>13. Welcomed({})
  BY DEF Welcomed, Distinct, Created
<1>14. \A x \in Computers : /\ Present(x)' <=> Present(x)
                            /\ Id(x)' = Id(x) /\ core'[x].valid_node = core[x].valid_node
                            /\ Working(x) => Working(x)'
                            /\ core'[x].messages = core[x].messages
                            /\ \A a : Known(x, a)' = Known(x, a)
                            /\ x # c => core'[x] = core[x]
                            /\ core'[x].invite_id = IF x = c THEN id ELSE core[x].invite_id
  <2>. TAKE x \in Computers
  <2>1. CASE x = c
    <3>1. core'[x] = p /\ core[x] = n
      BY <1>11, <2>1 DEF n
    <3>. QED BY <1>2, <1>5, <2>1, <3>1 DEF Present, Id, Working, Known, Has, n
  <2>2. CASE x # c
    <3>1. core'[x] = core[x]
      BY <1>11, <2>2
    <3>. QED BY <2>2, <3>1 DEF Present, Id, Working, Known, Has
  <2>. QED BY <2>1, <2>2
<1>15. PlanOK'
  <2>1. left' \in Plan
    BY <1>1, <1>7 DEF MembersInv, PlanOK, Plan
  <2>2. /\ left'.leaving = left.leaving /\ left'.forced = left.forced /\ left'.losses = left.losses
        /\ left'.network = left.network /\ left'.founders = left.founders
    BY <1>1 DEF MembersInv, PlanOK, Plan
  <2>. QED BY <1>1, <2>1, <2>2 DEF MembersInv, PlanOK
<1>16. RunningOK'
  BY <1>1, <1>14 DEF MembersInv, RunningOK
<1>17. InvitesOK'
  <2>1. ASSUME NEW f \in invites'
        PROVE  /\ DOMAIN f = {"id", "from", "uuids"} /\ f.id \in Nat /\ f.id > left'.invites
               /\ f.uuids \subseteq drawn'
               /\ \A u \in f.uuids : f.from.my_id < u
               /\ \E w \in Computers : Writes(w, f)'
               /\ \A x \in Computers : core'[x].invite_id = f.id => Id(x)' = f.from.my_id
               /\ \A x \in Computers : Present(x)' /\ Id(x)' \in f.uuids =>
                      x \notin left'.founders /\ \A a : Has(f.from, a) <= Known(x, a)'
    <3>1. CASE f \in invites
      <4>1. f.id \in Nat /\ f.id > id /\ f.id > left'.invites
        BY <1>7, <1>8, <3>1
      <4>2. \E w \in Computers : Writes(w, f)'
        BY <1>14, <3>1 DEF MembersInv, InvitesOK, Writes
      <4>3. \A x \in Computers : core'[x].invite_id = f.id => Id(x)' = f.from.my_id
        <5>. SUFFICES ASSUME NEW x \in Computers, core'[x].invite_id = f.id
                      PROVE  Id(x)' = f.from.my_id
          OBVIOUS
        <5>1. x # c
          BY <1>7, <1>14, <4>1
        <5>. QED BY <1>14, <3>1, <5>1 DEF MembersInv, InvitesOK
      <4>4. /\ DOMAIN f = {"id", "from", "uuids"} /\ f.uuids \subseteq drawn'
            /\ \A u \in f.uuids : f.from.my_id < u
        BY <1>1, <3>1 DEF MembersInv, InvitesOK
      <4>5. \A x \in Computers : Present(x)' /\ Id(x)' \in f.uuids =>
                x \notin left'.founders /\ \A a : Has(f.from, a) <= Known(x, a)'
        BY <1>7, <1>14, <3>1 DEF MembersInv, InvitesOK
      <4>. QED BY <4>1, <4>2, <4>3, <4>4, <4>5
    <3>2. CASE f = g
      <4>1. \E w \in Computers : Writes(w, f)'
        BY <1>2, <1>6, <1>14, <3>2 DEF Writes, Id, n
      <4>2. \A x \in Computers : core'[x].invite_id = f.id => Id(x)' = f.from.my_id
        <5>. SUFFICES ASSUME NEW x \in Computers, core'[x].invite_id = f.id
                      PROVE  Id(x)' = f.from.my_id
          OBVIOUS
        <5>1. CASE x = c
          BY <1>6, <1>14, <3>2, <5>1 DEF Id, n
        <5>2. CASE x # c
          <6>1. core[x].invite_id = id /\ id # 0 /\ ~(id > left.invites)
            BY <1>1, <1>6, <1>7, <1>14, <3>2, <5>2
          <6>. QED BY <6>1 DEF MembersInv, InvitesOK
        <5>. QED BY <5>1, <5>2
      <4>3. DOMAIN f = {"id", "from", "uuids"} /\ f.id \in Nat /\ f.id > left'.invites /\ f.uuids = {}
        BY <1>6, <1>7, <3>2
      <4>4. \A x \in Computers : Present(x)' /\ Id(x)' \in f.uuids =>
                x \notin left'.founders /\ \A a : Has(f.from, a) <= Known(x, a)'
        BY <4>3
      <4>. QED BY <4>1, <4>2, <4>3, <4>4
    <3>. QED BY <1>1, <3>1, <3>2
  <2>2. \A f, h \in invites' : f.id = h.id \/ f.uuids \cap h.uuids # {} => f = h
    <3>1. \A f, h \in invites : f.id = h.id \/ f.uuids \cap h.uuids # {} => f = h
      BY DEF MembersInv, InvitesOK
    <3>2. \A f \in invites : f.id # g.id
      BY <1>6, <1>7, <1>8
    <3>. QED BY <1>1, <1>6, <3>1, <3>2
  <2>3. ASSUME NEW x \in Computers, core'[x].invite_id # 0
        PROVE  core'[x].invite_id \in Nat /\ core'[x].invite_id > left'.invites
    <3>1. CASE x = c
      BY <1>7, <1>14, <3>1
    <3>2. CASE x # c
      <4>1. core[x].invite_id \in Nat /\ core[x].invite_id > left.invites
        BY <1>14, <2>3, <3>2 DEF MembersInv, InvitesOK
      <4>. QED BY <1>7, <1>14, <3>2, <4>1
    <3>. QED BY <3>1, <3>2
  <2>. QED BY <2>1, <2>2, <2>3 DEF InvitesOK
<1>18. InvitesKept'
  <2>. SUFFICES ASSUME NEW f \in invites', NEW w \in Computers, Open(w, f)'
                PROVE  /\ \A a, k : k \in Nat /\ Has(f.from, a) <= k /\ k < Known(w, a)' =>
                              Stored(core'[w], a, k)
                       /\ running' # [on |-> w, final |-> TRUE] =>
                            /\ \A m : IsAddNode(m)' => m.val \notin f.uuids
                            /\ \A x \in Computers : Present(x)' /\ Id(x)' \in f.uuids =>
                                   core'[x].valid_node = FALSE
    BY DEF InvitesKept
  <2>1. core'[w].status = "inviter" /\ core'[w].invite_id = f.id /\ Working(w)'
        /\ Id(w)' = f.from.my_id
    BY DEF Open, Writes
  <2>2. CASE f \in invites
    <3>1. w # c
      BY <1>7, <1>8, <1>14, <2>1, <2>2
    <3>2. core'[w] = core[w]
      BY <1>14, <3>1
    <3>3. Open(w, f)
      BY <2>1, <3>2 DEF Open, Writes, Working, Id
    <3>4. /\ \A a, k : k \in Nat /\ Has(f.from, a) <= k /\ k < Known(w, a) => Stored(core[w], a, k)
          /\ \A m : IsAddNode(m) => m.val \notin f.uuids
          /\ \A x \in Computers : Present(x) /\ Id(x) \in f.uuids => core[x].valid_node = FALSE
      BY <1>1, <2>2, <3>3, RestLemma DEF MembersInv, InvitesKept
    <3>5. \A m : IsAddNode(m)' => m.val \notin f.uuids
      BY <1>12, <3>4, AddNodeLemma
    <3>6. \A x \in Computers : Present(x)' /\ Id(x)' \in f.uuids => core'[x].valid_node = FALSE
      BY <1>14, <3>4
    <3>7. \A a, k : k \in Nat /\ Has(f.from, a) <= k /\ k < Known(w, a)' => Stored(core'[w], a, k)
      BY <1>14, <3>2, <3>4
    <3>. QED BY <3>5, <3>6, <3>7
  <2>3. CASE f = g
    <3>1. w = c
      <4>1. Id(w) = Id(c) /\ Present(w)
        BY <1>6, <1>14, <2>1, <2>3 DEF Id, n, Working, Present
      <4>. QED BY <1>2, <4>1 DEF MembersInv, CoreOK
    <3>2. \A a : Has(f.from, a) = Known(w, a)' /\ Has(f.from, a) \in Nat
      BY <1>3, <1>6, <1>14, <2>3, <3>1, NodeLemma DEF Known, n
    <3>3. \A a, k : ~(k \in Nat /\ Has(f.from, a) <= k /\ k < Known(w, a)')
      BY <3>2
    <3>. QED BY <1>6, <2>3, <3>3
  <2>. QED BY <1>1, <2>2, <2>3
<1>. QED BY <1>12, <1>13, <1>15, <1>16, <1>17, <1>18, StepLemma

(* What a computer is that takes the state of the node h.                   *)
LEMMA JoinsLemma ==
  ASSUME MembershipAssumption, MembersInv, NEW h \in Snapshots \cap Spoken, NEW id \in Ids \ drawn,
         NEW st \in {"work", "part_init"}, NEW V, st = "work" => id \in V,
         st = "part_init" => \E f \in invites' : id \in f.uuids /\ Names(h) \subseteq Names(f.from),
         NEW q, q = [Initialized(Blank, h, id) EXCEPT !.status = st]
  PROVE  Enters(q, h, id, st) /\ Joins(q, V)
<1>1. IsNode(h) /\ id \notin Members(h) /\ NoId \notin Ids
  <2>1. Names(h) \subseteq drawn /\ IsNode(h)
    BY DEF MembersInv, SourcesOK, Sources
  <2>. QED BY <2>1 DEF Names, Members, MembershipAssumption
<1>2. Enters(q, h, id, st)
  BY <1>1, JoinLemma
<1>. QED BY <1>2 DEF Joins, Enters

(* A new UUID is larger than all those that are in use.                     *)
LEMMA DrawLemma ==
  ASSUME MembershipAssumption, MembersInv, NEW id \in Ids, Draw(id)
  PROVE  /\ id \notin drawn /\ drawn' = drawn \cup {id} /\ drawn' \subseteq Ids
         /\ \A i \in drawn : i < id
         /\ \A i \in drawn', j \in Ids \ drawn' : i < j
<1>1. id \notin drawn /\ drawn' = drawn \cup {id} /\ id = Min(Ids \ drawn)
  BY DEF Draw
<1>2. drawn \subseteq Ids /\ Ids \subseteq Nat /\ \A i \in drawn, j \in Ids \ drawn : i < j
  BY DEF MembersInv, CoreOK, MembershipAssumption
<1>3. \A j \in Ids \ drawn : id <= j
  <2>. DEFINE S == Ids \ drawn
  <2>1. S \in SUBSET Nat /\ S # {}
    BY <1>1, <1>2
  <2>2. id = Min(S)
    BY <1>1
  <2>. HIDE DEF S
  <2>3. \A j \in S : id <= j
    BY <2>1, <2>2, MinLemma
  <2>. QED BY <2>3 DEF S
<1>4. ASSUME NEW i \in drawn', NEW j \in Ids \ drawn'
      PROVE  i < j
  <2>1. CASE i = id
    BY <1>1, <1>2, <1>3, <2>1
  <2>2. CASE i # id
    BY <1>1, <1>2, <2>2
  <2>. QED BY <2>1, <2>2
<1>. QED BY <1>1, <1>2, <1>4

(* read_offline_invite() keeps the invariant.                               *)
LEMMA ReadInviteStep ==
  ASSUME MembershipAssumption, MembersInv, NEW c \in Computers, NEW f \in invites,
         read_offline_invite(c, f)
  PROVE  MembersInv' /\ Moves
<1>1. AtRest /\ core[c] = Blank /\ ~Present(c)
  BY PresentLemma DEF read_offline_invite, Present
<1>2. PICK id \in Ids : /\ Draw(id)
          /\ core' = [core EXCEPT ![c] =
                        [Initialized(@, f.from, id) EXCEPT !.status = "part_init"]]
          /\ invites' = (invites \ {f}) \cup {[f EXCEPT !.uuids = @ \cup {id}]}
  BY DEF read_offline_invite
<1>3. running' = running /\ packets' = packets /\ left' = left
  BY DEF read_offline_invite
<1>4. /\ id \notin drawn /\ drawn' = drawn \cup {id} /\ drawn' \subseteq Ids
      /\ \A i \in drawn : i < id
      /\ \A i \in drawn', j \in Ids \ drawn' : i < j
  BY <1>2, DrawLemma
<1>. DEFINE q == [Initialized(Blank, f.from, id) EXCEPT !.status = "part_init"]
            g == [f EXCEPT !.uuids = @ \cup {id}]
<1>5. f.from \in Snapshots \cap Spoken
  BY DEF Snapshots, Spoken
(* The fields of the invite file. *)
<1>6. g.id = f.id /\ g.from = f.from /\ g.uuids = f.uuids \cup {id}
      /\ DOMAIN g = {"id", "from", "uuids"}
  BY DEF MembersInv, InvitesOK
<1>7. core' = [core EXCEPT ![c] = q] /\ invites' = (invites \ {f}) \cup {g}
  BY <1>1, <1>2
<1>8. q = [Initialized(Blank, f.from, id) EXCEPT !.status = "part_init"]
  OBVIOUS
<1>. HIDE DEF q, g
<1>9. /\ Joins(q, {}) /\ q.my_id = id /\ q.status = "part_init"
      /\ \A a : Has(q, a) = Has(f.from, a)
  <2>1. \E x \in invites' : id \in x.uuids /\ Names(f.from) \subseteq Names(x.from)
    BY <1>6, <1>7
  <2>2. id \in Ids \ drawn
    BY <1>4
  <2>3. "part_init" \in {"work", "part_init"} /\ "part_init" # "work"
    OBVIOUS
  <2>4. Enters(q, f.from, id, "part_init") /\ Joins(q, {})
    BY <1>5, <1>8, <2>1, <2>2, <2>3, JoinsLemma
  <2>. QED BY <2>4 DEF Enters
<1>10. \A x \in Computers : core'[x] = IF x = c THEN q ELSE core[x]
  BY <1>7 DEF MembersInv, CoreOK
<1>11. Step(c, {})
  <2>1. core = [x \in Computers |-> core[x]]
    BY DEF MembersInv, CoreOK
  <2>2. core' = [x \in Computers |-> core'[x]]
    BY <1>7, <2>1
  <2>3. ASSUME NEW x \in Computers
        PROVE  \/ core[x] = Blank /\ core'[x] = Blank
               \/ Present(x) /\ Evolves(x, core'[x], {})
               \/ x = c /\ core[x] = Blank /\ Joins(core'[x], {})
    BY <1>1, <1>9, <1>10, EvolvesRefl, PresentLemma
  <2>4. \A x \in invites' : x.from \in Snapshots \cap Spoken
    BY <1>5, <1>6, <1>7 DEF Snapshots, Spoken
  <2>5. \A x \in invites : \E y \in invites' : y.from = x.from /\ x.uuids \subseteq y.uuids
    BY <1>6, <1>7
  <2>6. \A x \in Computers : core[x] = Blank /\ core'[x] # Blank => core'[x].my_id \in drawn'
    BY <1>4, <1>9, <1>10
  <2>7. \A i \in drawn' \ drawn : \E x \in Computers : core'[x].my_id = i
    BY <1>4, <1>9, <1>10
  <2>. QED BY <1>1, <1>3, <1>4, <2>2, <2>3, <2>4, <2>5, <2>6, <2>7, RestLemma DEF Step
<1>12. Welcomed({})
  BY DEF Welcomed, Distinct, Created
<1>13. \A x \in Computers : x # c => /\ core'[x] = core[x] /\ (Present(x)' <=> Present(x))
                                     /\ Id(x)' = Id(x) /\ (Working(x)' <=> Working(x))
                                     /\ \A a : Known(x, a)' = Known(x, a)
  BY <1>10 DEF Present, Id, Working, Known
<1>14. /\ core'[c] = q /\ Id(c)' = id /\ core'[c].invite_id = 0 /\ ~Working(c)'
       /\ core'[c].valid_node = FALSE /\ \A a : Known(c, a)' = Has(f.from, a)
  BY <1>9, <1>10 DEF Id, Joins, Working, Known
<1>15. PlanOK'
  <2>1. invites' # {} => invites # {}
    OBVIOUS
  <2>. QED BY <1>3, <2>1 DEF MembersInv, PlanOK
<1>16. RunningOK'
  <2>1. running = NotRunning /\ NotRunning.on = NoId /\ NotRunning.final = FALSE
    BY <1>1 DEF AtRest, NotRunning
  <2>2. NoId \notin Computers
    BY DEF MembershipAssumption
  <2>. QED BY <1>3, <2>1, <2>2 DEF RunningOK
(* What an invite file was before. *)
<1>17. ASSUME NEW x \in invites'
       PROVE  \E y \in invites : /\ x.id = y.id /\ x.from = y.from /\ DOMAIN x = DOMAIN y
                                 /\ (x = y \/ (y = f /\ x = g))
                                 /\ x.uuids \subseteq y.uuids \cup {id}
                                 /\ id \in x.uuids => y = f /\ x = g
  <2>1. \A y \in invites : id \notin y.uuids /\ DOMAIN y = {"id", "from", "uuids"}
    BY <1>4 DEF MembersInv, InvitesOK
  <2>2. CASE x = g
    BY <1>6, <2>1, <2>2
  <2>3. CASE x \in invites
    BY <2>1, <2>3
  <2>. QED BY <1>7, <2>2, <2>3
<1>18. \A y \in invites : Id(c)' \notin y.uuids
  BY <1>4, <1>14 DEF MembersInv, InvitesOK
<1>19. InvitesOK'
  <2>1. ASSUME NEW x \in invites'
        PROVE  /\ DOMAIN x = {"id", "from", "uuids"} /\ x.id \in Nat /\ x.id > left'.invites
               /\ x.uuids \subseteq drawn'
               /\ \A u \in x.uuids : x.from.my_id < u
               /\ \E w \in Computers : Writes(w, x)'
               /\ \A w \in Computers : core'[w].invite_id = x.id => Id(w)' = x.from.my_id
               /\ \A w \in Computers : Present(w)' /\ Id(w)' \in x.uuids =>
                      w \notin left'.founders /\ \A a : Has(x.from, a) <= Known(w, a)'
    <3>1. PICK y \in invites : /\ x.id = y.id /\ x.from = y.from /\ DOMAIN x = DOMAIN y
                               /\ (x = y \/ (y = f /\ x = g))
                               /\ x.uuids \subseteq y.uuids \cup {id}
                               /\ id \in x.uuids => y = f /\ x = g
      BY <1>17
    <3>2. /\ DOMAIN y = {"id", "from", "uuids"} /\ y.id \in Nat /\ y.id > left.invites
          /\ y.uuids \subseteq drawn
          /\ \A u \in y.uuids : y.from.my_id < u
          /\ \A w \in Computers : core[w].invite_id = y.id => Id(w) = y.from.my_id
          /\ \A w \in Computers : Present(w) /\ Id(w) \in y.uuids =>
                 w \notin left.founders /\ \A a : Has(y.from, a) <= Known(w, a)
      BY DEF MembersInv, InvitesOK
    <3>3. PICK w \in Computers : Writes(w, y)
      BY DEF MembersInv, InvitesOK
    <3>4. w # c /\ Id(w) \in drawn /\ Id(w) = x.from.my_id /\ Working(w)
      BY <1>1, <3>1, <3>3, PresentLemma DEF Writes
    <3>5. Writes(w, x)'
      BY <1>13, <3>4 DEF Writes
    <3>6. \A u \in x.uuids : x.from.my_id < u
      BY <1>4, <3>1, <3>2, <3>4
    <3>7. x.id # 0
      BY <3>1, <3>2 DEF MembersInv, PlanOK, Plan
    <3>8. \A v \in Computers : core'[v].invite_id = x.id => Id(v)' = x.from.my_id
      BY <1>13, <1>14, <3>1, <3>2, <3>7
    <3>9. ASSUME NEW v \in Computers, Present(v)', Id(v)' \in x.uuids
          PROVE  v \notin left'.founders /\ \A a : Has(x.from, a) <= Known(v, a)'
      <4>1. CASE v = c
        <5>1. x = g /\ y = f
          BY <1>14, <3>1, <3>9, <4>1
        <5>2. \A a : Has(f.from, a) = Known(v, a)' /\ Has(f.from, a) \in Nat
          BY <1>5, <1>14, <4>1, NodeLemma DEF MembersInv, SourcesOK
        <5>3. \A a : Has(x.from, a) <= Known(v, a)'
          BY <3>1, <5>1, <5>2
        <5>4. v \notin left.founders
          BY <1>1, <4>1 DEF MembersInv, Roots
        <5>. QED BY <1>3, <5>3, <5>4
      <4>2. CASE v # c
        <5>1. Present(v) /\ Id(v)' = Id(v) /\ \A a : Known(v, a)' = Known(v, a)
          BY <1>13, <3>9, <4>2
        <5>2. Id(v) # id
          BY <1>4, <5>1, PresentLemma
        <5>3. Id(v) \in y.uuids
          BY <3>1, <3>9, <5>1, <5>2
        <5>. QED BY <1>3, <3>1, <3>2, <5>1, <5>3
      <4>. QED BY <4>1, <4>2
    <3>. QED BY <1>3, <1>4, <3>1, <3>2, <3>5, <3>6, <3>8, <3>9
  <2>2. \A x, z \in invites' : x.id = z.id \/ x.uuids \cap z.uuids # {} => x = z
    <3>. SUFFICES ASSUME NEW x \in invites', NEW z \in invites', x.id = z.id \/ x.uuids \cap z.uuids # {}
                  PROVE  x = z
      OBVIOUS
    <3>1. PICK y \in invites : /\ x.id = y.id /\ (x = y \/ (y = f /\ x = g))
                               /\ x.uuids \subseteq y.uuids \cup {id}
                               /\ id \in x.uuids => y = f /\ x = g
      BY <1>17
    <3>2. PICK u \in invites : /\ z.id = u.id /\ (z = u \/ (u = f /\ z = g))
                               /\ z.uuids \subseteq u.uuids \cup {id}
                               /\ id \in z.uuids => u = f /\ z = g
      BY <1>17
    <3>3. y = u
      <4>1. y.id = u.id \/ y.uuids \cap u.uuids # {} => y = u
        BY DEF MembersInv, InvitesOK
      <4>. QED BY <3>1, <3>2, <4>1
    <3>4. ~(f \in invites' /\ g # f)
      <4>1. id \in g.uuids /\ id \notin f.uuids
        BY <1>4, <1>6 DEF MembersInv, InvitesOK
      <4>. QED BY <1>7, <4>1
    <3>. QED BY <3>1, <3>2, <3>3, <3>4
  <2>3. ASSUME NEW x \in Computers, core'[x].invite_id # 0
        PROVE  core'[x].invite_id \in Nat /\ core'[x].invite_id > left'.invites
    BY <1>3, <1>13, <1>14, <2>3 DEF MembersInv, InvitesOK
  <2>. QED BY <2>1, <2>2, <2>3 DEF InvitesOK
<1>20. InvitesKept'
  <2>. SUFFICES ASSUME NEW x \in invites', NEW w \in Computers, Open(w, x)'
                PROVE  /\ \A a, k : k \in Nat /\ Has(x.from, a) <= k /\ k < Known(w, a)' =>
                              Stored(core'[w], a, k)
                       /\ running' # [on |-> w, final |-> TRUE] =>
                            /\ \A m : IsAddNode(m)' => m.val \notin x.uuids
                            /\ \A v \in Computers : Present(v)' /\ Id(v)' \in x.uuids =>
                                   core'[v].valid_node = FALSE
    BY DEF InvitesKept
  <2>1. w # c /\ core'[w] = core[w] /\ \A a : Known(w, a)' = Known(w, a)
    BY <1>13, <1>14 DEF Open, Writes
  <2>2. PICK y \in invites : /\ x.id = y.id /\ x.from = y.from
                             /\ x.uuids \subseteq y.uuids \cup {id}
    BY <1>17
  <2>3. Open(w, y)
    BY <2>1, <2>2 DEF Open, Writes, Working, Id
  <2>4. /\ \A a, k : k \in Nat /\ Has(y.from, a) <= k /\ k < Known(w, a) => Stored(core[w], a, k)
        /\ \A m : IsAddNode(m) => m.val \notin y.uuids
        /\ \A v \in Computers : Present(v) /\ Id(v) \in y.uuids => core[v].valid_node = FALSE
    BY <1>1, <2>3, RestLemma DEF MembersInv, InvitesKept
  <2>5. \A m : IsAddNode(m)' => m.val \notin x.uuids
    <3>. SUFFICES ASSUME NEW m, IsAddNode(m)' PROVE m.val \notin x.uuids
      OBVIOUS
    <3>1. IsAddNode(m) /\ m.val \in drawn
      BY <1>11, AddNodeLemma
    <3>. QED BY <1>4, <2>2, <2>4, <3>1
  <2>6. ASSUME NEW v \in Computers, Present(v)', Id(v)' \in x.uuids
        PROVE  core'[v].valid_node = FALSE
    <3>1. CASE v = c
      BY <1>14, <3>1
    <3>2. CASE v # c
      <4>1. Present(v) /\ Id(v)' = Id(v) /\ core'[v] = core[v]
        BY <1>13, <2>6, <3>2
      <4>2. Id(v) \in y.uuids
        BY <1>4, <2>2, <2>6, <4>1, PresentLemma
      <4>. QED BY <2>4, <4>1, <4>2
    <3>. QED BY <3>1, <3>2
  <2>. QED BY <2>1, <2>2, <2>4, <2>5, <2>6
<1>. QED BY <1>11, <1>12, <1>15, <1>16, <1>19, <1>20, StepLemma

(* The commands that welcome the new members U.                              *)
LEMMA NewcomersLemma ==
  ASSUME MembershipAssumption, MembersInv, NEW x \in Computers, Working(x), NEW U \in SUBSET Ids,
         NEW C, C = {new_command(core[x], "addnode", id, Rank(U, id), FALSE) : id \in U}
  PROVE  New(C, core[x], U)
<1>. DEFINE n == core[x]
            c(id) == new_command(n, "addnode", id, Rank(U, id), FALSE)
            f == [id \in U |-> c(id)]
            z == Cardinality(U)
            h == Has(n, n.my_id)
<1>1. IsFiniteSet(U) /\ U \in SUBSET Nat /\ z \in Nat
  <2>1. IsFiniteSet(Ids) /\ Ids \subseteq Nat
    BY DEF MembershipAssumption
  <2>2. IsFiniteSet(U)
    BY <2>1, FS_Subset
  <2>. QED BY <2>1, <2>2, FS_CardinalityType
<1>2. /\ \A id \in U : Rank(U, id) \in 0 .. z - 1
      /\ \A id, u \in U : Rank(U, id) = Rank(U, u) => id = u
      /\ \A k \in 0 .. z - 1 : \E id \in U : Rank(U, id) = k
  BY <1>1, RankLemma
<1>3. h \in Nat /\ Number(n) = h
  BY PresentLemma, NodeLemma
<1>4. \A id \in U : /\ c(id).author = n.my_id /\ c(id).name = "addnode" /\ c(id).val = id
                    /\ c(id).number = h + Rank(U, id) /\ DOMAIN c(id).depends = {}
  BY <1>3 DEF new_command
<1>5. C = {c(id) : id \in U}
  OBVIOUS
<1>6. IsFiniteSet(C) /\ Cardinality(C) = z
  <2>1. f \in [U -> C] /\ \A id \in U : f[id] = c(id)
    BY <1>5
  <2>2. \A id, u \in U : f[id] = f[u] => id = u
    BY <1>4, <2>1
  <2>3. \A m \in C : \E id \in U : f[id] = m
    BY <1>5, <2>1
  <2>. HIDE DEF f, c
  <2>4. f \in Surjection(U, C) /\ f \in Injection(U, C)
    BY <2>1, <2>2, <2>3 DEF Surjection, Injection, IsInjective
  <2>. QED BY <1>1, <2>4, FS_Surjection
<1>. HIDE DEF c, f, z, h
<1>7. ASSUME NEW m \in C
      PROVE  /\ m.author = n.my_id /\ m.name = "addnode" /\ m.number \in Nat
             /\ h <= m.number /\ m.number < h + z /\ DOMAIN m.depends = {} /\ m.val \in U
             /\ m.number = h + Rank(U, m.val) /\ m = c(m.val)
  <2>1. PICK id \in U : m = c(id)
    BY <1>5
  <2>2. Rank(U, id) \in 0 .. z - 1
    BY <1>2
  <2>. QED BY <1>1, <1>3, <1>4, <2>1, <2>2
<1>8. Single(C)
  <2>. SUFFICES ASSUME NEW m \in C, NEW k \in C, m.author = k.author, m.number = k.number
                PROVE  m = k
    BY DEF Single
  <2>1. m.number = h + Rank(U, m.val) /\ k.number = h + Rank(U, k.val) /\ m.val \in U /\ k.val \in U
        /\ m = c(m.val) /\ k = c(k.val)
    BY <1>7
  <2>2. ASSUME NEW id \in U
        PROVE  Rank(U, id) \in Int
    <3>1. Rank(U, id) \in 0 .. z - 1
      BY <1>2
    <3>. QED BY <1>1, <3>1
  <2>3. Rank(U, m.val) = Rank(U, k.val)
    <3>1. \A a, b \in Int : h + a = h + b => a = b
      BY <1>3
    <3>2. h + Rank(U, m.val) = h + Rank(U, k.val)
      BY <2>1
    <3>. QED BY <2>1, <2>2, <3>1, <3>2
  <2>4. m.val = k.val
    BY <1>2, <2>1, <2>3
  <2>. QED BY <2>1, <2>4
<1>9. ASSUME NEW k \in Nat, h <= k, k < h + z
      PROVE  \E m \in C : m.number = k
  <2>1. k - h \in 0 .. z - 1
    BY <1>1, <1>3, <1>9
  <2>2. PICK id \in U : Rank(U, id) = k - h
    BY <1>2, <2>1
  <2>3. c(id) \in C /\ c(id).number = h + (k - h)
    BY <1>4, <1>5, <2>2
  <2>4. h + (k - h) = k
    BY <1>3
  <2>. QED BY <2>3, <2>4
<1>. QED BY <1>6, <1>7, <1>8, <1>9 DEF New, Kinds, h, z

(* The node x that creates new commands C, and the newcomers V they welcome. *)
LEMMA WelcomedLemma ==
  ASSUME MembershipAssumption, MembersInv, NEW x \in Computers, Working(x),
         NEW V, NEW C, New(C, core[x], V), NEW p, p = WithNew(core[x], C), core'[x] = p, running'.on = x,
         NEW c \in Computers, Present(c)', Id(c)' \in V, c # x, Id(x) < Id(c)',
         \E m \in C : m.name = "addnode" /\ m.val = Id(c)',
         \A a : Has(core'[c], a) \in Nat,
         \A a, k : k \in Nat /\ Has(core'[c], a) <= k /\ k < Known(x, a) => Stored(core[x], a, k)
  PROVE  Invited(x, c)' /\ Welcoming(x, c)'
<1>. DEFINE n == core[x]
<1>1. /\ Evolves(x, p, V) /\ p.status = n.status /\ p.messages = n.messages \cup C
      /\ \A a : Done(p, a) = Done(n, a)
  <2>1. Creates(x, p, C, V)
    BY CreateLemma
  <2>. QED BY <2>1 DEF Creates
<1>2. /\ p.my_id = n.my_id /\ \A a, k : k \in Nat /\ Has(n, a) <= k /\ k < Has(p, a) => Stored(p, a, k)
  BY <1>1 DEF Evolves
<1>3. \A a : Has(n, a) \in Nat /\ Has(p, a) \in Nat
  BY <1>1, PresentLemma, NodeLemma DEF Evolves
<1>4. Kept(core[x], c)'
  <2>. SUFFICES ASSUME NEW a, NEW k \in Nat, Has(core'[c], a) <= k, k < Has(p, a)
                PROVE  Stored(p, a, k)
    BY DEF Kept, Known
  <2>1. CASE k < Has(n, a)
    <3>1. Stored(n, a, k)
      BY <2>1 DEF Known
    <3>. QED BY <1>1, <3>1, StoredGrows
  <2>2. CASE Has(n, a) <= k
    BY <1>2, <2>2
  <2>. QED BY <1>3, <2>1, <2>2
<1>5. Welcoming(x, c)'
  <2>1. PICK m \in C : m.name = "addnode" /\ m.val = Id(c)'
    OBVIOUS
  <2>2. m.author = n.my_id /\ m.number \in Nat /\ Has(n, n.my_id) <= m.number
    BY <2>1 DEF New
  <2>3. Done(n, n.my_id) <= Has(n, n.my_id) /\ Done(n, n.my_id) \in Nat
    BY PresentLemma, NodeLemma DEF MembersInv, CoreOK, Known, Id
  <2>4. Done(p, p.my_id) <= m.number
    BY <1>1, <1>2, <1>3, <2>2, <2>3
  <2>. QED BY <1>1, <1>2, <2>1, <2>2, <2>4 DEF Welcoming, Welcome, Id
<1>6. Working(x)' /\ Id(x)' = Id(x)
  BY <1>1, <1>2 DEF Working, Id
<1>. QED BY <1>4, <1>5, <1>6 DEF Invited

(* Only x creates commands.                                                  *)
LEMMA CreatorLemma ==
  ASSUME MembershipAssumption, MembersInv, NEW x \in Computers, Working(x),
         NEW V, NEW C, New(C, core[x], V), NEW p, p = WithNew(core[x], C), core'[x] = p, NEW e, Step(e, V),
         \A y \in Computers : y # x /\ Present(y) => core'[y] = core[y],
         NEW y \in Computers, NEW m \in core'[y].messages, Created(m, y, core'[y], V)
  PROVE  m \in C
<1>1. m.author = Id(y) /\ Has(core[y], Id(y)) <= m.number /\ m.number < Has(core'[y], Id(y))
  BY DEF Created
<1>2. Present(y)
  <2>. SUFFICES ASSUME ~Present(y) PROVE FALSE
    OBVIOUS
  <2>1. core[y] = Blank
    BY PresentLemma
  <2>2. core'[y] # Blank
    BY DEF Blank
  <2>3. Joins(core'[y], V)
    BY <2>1, <2>2 DEF Step
  <2>4. IsNode(core'[y])
    BY <2>3 DEF Joins
  <2>5. m.author \in Ids
    BY <2>4, NodeLemma DEF IsNode, Commands, IsCommand, Members
  <2>6. Id(y) = NoId
    BY <2>1 DEF Id, Blank
  <2>. QED BY <1>1, <2>5, <2>6 DEF MembershipAssumption
<1>3. IsNode(core[y]) /\ core[y] \in Sources
  BY <1>2, PresentLemma
<1>4. \A a : Has(core[y], a) \in Nat
  BY <1>3, NodeLemma
<1>5. m \notin core[y].messages
  <2>. SUFFICES ASSUME m \in core[y].messages PROVE FALSE
    OBVIOUS
  <2>1. m.number \in Nat
    BY <1>3 DEF IsNode, Commands, IsCommand
  <2>2. m.number < Has(core[y], Id(y))
    BY <1>1, <1>2, <1>3 DEF MembersInv, Own, Known
  <2>. QED BY <1>1, <1>4, <2>1, <2>2
<1>6. y = x
  BY <1>2, <1>5
<1>7. p.messages = core[x].messages \cup C
  <2>1. Creates(x, p, C, V)
    BY CreateLemma
  <2>. QED BY <2>1 DEF Creates
<1>. QED BY <1>5, <1>6, <1>7

(* finalize_offline_invitation() keeps the invariant: the one that has      *)
(* written the file is the inviter of all that have read it.                *)
LEMMA FinalizeStep ==
  ASSUME MembershipAssumption, MembersInv, NEW c \in Computers, NEW f \in invites,
         finalize_offline_invitation(c, f)
  PROVE  MembersInv' /\ Moves
<1>. DEFINE n == core[c]
            V == f.uuids
            C == {new_command(n, "addnode", id, Rank(V, id), FALSE) : id \in V}
            p == WithNew(n, C)
<1>1. /\ AtRest /\ core' = [core EXCEPT ![c] = p] /\ running' = [on |-> c, final |-> TRUE]
      /\ invites' = invites /\ packets' = packets /\ drawn' = drawn /\ left' = left
      /\ n.status = "inviter" /\ n.invite_id = f.id
  BY DEF finalize_offline_invitation
<1>2. Working(c) /\ Present(c) /\ IsNode(n) /\ Id(c) \in drawn /\ n \in Sources
  BY <1>1, PresentLemma DEF Working
<1>3. Id(c) = f.from.my_id /\ V \subseteq drawn /\ \A u \in V : Id(c) < u
  BY <1>1 DEF MembersInv, InvitesOK
<1>4. Open(c, f) /\ running # [on |-> c, final |-> TRUE]
  BY <1>1, <1>2, <1>3, RestLemma DEF Open, Writes
<1>5. V \in SUBSET Ids
  BY <1>3 DEF MembersInv, CoreOK
<1>6. New(C, n, V)
  BY <1>2, <1>5, NewcomersLemma
<1>7. /\ \A m, k \in C : m.val = k.val => m = k
      /\ \A id \in V : \E m \in C : m.name = "addnode" /\ m.val = id
  <2>. DEFINE command(id) == new_command(n, "addnode", id, Rank(V, id), FALSE)
  <2>1. \A id \in V : command(id).name = "addnode" /\ command(id).val = id
    BY DEF new_command
  <2>2. C = {command(id) : id \in V}
    OBVIOUS
  <2>. HIDE DEF command, C, V
  <2>. QED BY <2>1, <2>2
<1>. HIDE DEF C
<1>8. p = WithNew(n, C)
  OBVIOUS
<1>. HIDE DEF p
<1>9. Creates(c, p, C, V)
  BY <1>2, <1>6, <1>8, CreateLemma
<1>10. Evolves(c, p, V) /\ p.status = n.status
  BY <1>9 DEF Creates
<1>11. \A x \in Computers : core'[x] = IF x = c THEN p ELSE core[x]
  BY <1>1 DEF MembersInv, CoreOK
<1>12. Step(c, V)
  <2>1. core = [x \in Computers |-> core[x]] /\ drawn \subseteq Ids
        /\ \A i \in drawn, j \in Ids \ drawn : i < j
    BY DEF MembersInv, CoreOK
  <2>2. core' = [x \in Computers |-> core'[x]]
    BY <1>1, <2>1
  <2>3. ASSUME NEW x \in Computers
        PROVE  \/ core[x] = Blank /\ core'[x] = Blank
               \/ Present(x) /\ Evolves(x, core'[x], V)
    <3>1. CASE x = c
      BY <1>2, <1>10, <1>11, <3>1
    <3>2. CASE x # c
      <4>1. core'[x] = core[x]
        BY <1>11, <3>2
      <4>2. Present(x) => Evolves(x, core[x], V)
        BY EvolvesRefl
      <4>. QED BY <4>1, <4>2, PresentLemma
    <3>. QED BY <3>1, <3>2
  <2>4. \A g \in invites' : g.from \in Snapshots \cap Spoken
    BY <1>1 DEF Snapshots, Spoken
  <2>5. \A g \in invites : \E h \in invites' : h.from = g.from /\ g.uuids \subseteq h.uuids
    BY <1>1
  <2>6. \A x \in Computers : core[x] = Blank /\ core'[x] # Blank => core'[x].my_id \in drawn'
    <3>1. core[c] # Blank
      BY <1>2, PresentLemma
    <3>. QED BY <1>11, <3>1
  <2>. QED BY <1>1, <1>3, <2>1, <2>2, <2>3, <2>4, <2>5, <2>6, RestLemma DEF Step
<1>13. Welcomed(V)
  <2>1. \A m : IsAddNode(m) => m.val \notin V
    BY <1>4 DEF MembersInv, InvitesKept
  <2>2. ASSUME NEW x \in Computers, Present(x)', Id(x)' \in V
        PROVE  x \notin left.founders /\ core'[x].valid_node = FALSE
              /\ Invited(c, x)' /\ Welcoming(c, x)'
    <3>1. x # c
      <4>1. Id(c)' = Id(c)
        BY <1>10, <1>11 DEF Evolves, Id
      <4>2. Id(c) \notin V
        BY <1>2, <1>3 DEF MembersInv, CoreOK, MembershipAssumption
      <4>. QED BY <2>2, <4>1, <4>2
    <3>2. core'[x] = core[x] /\ Present(x) /\ Id(x)' = Id(x)
      BY <1>11, <2>2, <3>1 DEF Present, Id
    <3>3. x \notin left.founders /\ \A a : Has(f.from, a) <= Known(x, a)
      BY <2>2, <3>2 DEF MembersInv, InvitesOK
    <3>4. core[x].valid_node = FALSE
      BY <1>4, <2>2, <3>2 DEF MembersInv, InvitesKept
    <3>5. \A a : Has(f.from, a) \in Nat /\ Known(x, a) \in Nat /\ Known(c, a) \in Nat
      <4>1. IsNode(f.from)
        BY DEF MembersInv, SourcesOK, Snapshots
      <4>2. IsNode(core[x])
        BY <3>2, PresentLemma
      <4>. QED BY <1>2, <4>1, <4>2, NodeLemma DEF Known
    <3>6. \A a, k : k \in Nat /\ Has(core'[x], a) <= k /\ k < Known(c, a) => Stored(core[c], a, k)
      <4>. SUFFICES ASSUME NEW a, NEW k \in Nat, Has(core'[x], a) <= k, k < Known(c, a)
                    PROVE  Stored(core[c], a, k)
        OBVIOUS
      <4>1. Has(f.from, a) <= k
        BY <3>2, <3>3, <3>5 DEF Known
      <4>. QED BY <1>4, <4>1 DEF MembersInv, InvitesKept
    <3>7. core'[c] = p /\ running'.on = c
      BY <1>1, <1>11
    <3>8. Id(c) < Id(x)' /\ \E m \in C : m.name = "addnode" /\ m.val = Id(x)'
      BY <1>3, <1>7, <2>2
    <3>9. \A a : Has(core'[x], a) \in Nat
      BY <3>2, <3>5 DEF Known
    <3>10. Invited(c, x)' /\ Welcoming(c, x)'
      BY <1>2, <1>6, <1>8, <2>2, <3>1, <3>6, <3>7, <3>8, <3>9, WelcomedLemma
    <3>. QED BY <3>2, <3>3, <3>4, <3>10, Zenon
  <2>3. Distinct(V)
    <3>. SUFFICES ASSUME NEW x \in Computers, NEW y \in Computers,
                         NEW m \in core'[x].messages, NEW k \in core'[y].messages,
                         Created(m, x, core'[x], V), Created(k, y, core'[y], V), m.val = k.val
                  PROVE  m.author = k.author /\ m.number = k.number
      BY DEF Distinct
    <3>1. core'[c] = p /\ \A z \in Computers : z # c /\ Present(z) => core'[z] = core[z]
      BY <1>11
    <3>2. m \in C
      BY <1>2, <1>6, <1>8, <1>12, <3>1, CreatorLemma
    <3>3. k \in C
      BY <1>2, <1>6, <1>8, <1>12, <3>1, CreatorLemma
    <3>. QED BY <1>7, <3>2, <3>3
  <2>. QED BY <2>1, <2>2, <2>3 DEF Welcomed
<1>14. PlanOK'
  BY <1>1 DEF MembersInv, PlanOK
<1>15. RunningOK'
  <2>1. Working(c)' /\ Present(c)'
    BY <1>1, <1>10, <1>11 DEF Working, Present
  <2>2. NoId \notin Computers
    BY DEF MembershipAssumption
  <2>. QED BY <1>1, <2>1, <2>2 DEF RunningOK
<1>16. InvitesStay(V)
  <2>. SUFFICES ASSUME NEW g \in invites, NEW w \in Computers, Open(w, g)',
                       running' # [on |-> w, final |-> TRUE]
                PROVE  running # [on |-> w, final |-> TRUE] /\ g.uuids \cap V = {}
    BY <1>1 DEF InvitesStay
  <2>1. w # c
    BY <1>1
  <2>2. Present(w) /\ Id(w) = g.from.my_id
    BY <1>11, <2>1, PresentLemma DEF Open, Writes, Working, Present, Id
  <2>3. g # f
    BY <1>2, <1>3, <2>1, <2>2 DEF MembersInv, CoreOK
  <2>4. g.uuids \cap V = {}
    BY <2>3 DEF MembersInv, InvitesOK
  <2>. QED BY <1>1, <2>4, RestLemma
<1>17. InvitesOK' /\ InvitesKept'
  BY <1>12, <1>16, InvitesStep
<1>. QED BY <1>12, <1>13, <1>14, <1>15, <1>17, StepLemma

(* In these plans only a computer that knows of no group joins over the     *)
(* network, and the session does not break.                                 *)
LEMMA InitializeLemma ==
  ASSUME MembershipAssumption, MembersInv, NEW c \in Computers, NEW d \in Computers, Initialize(c, d)
  PROVE  /\ AtRest /\ c # d /\ core[c] = Blank /\ ~Present(c) /\ Working(d) /\ Present(d)
         /\ c \notin left.founders /\ invites = {}
         /\ \E id \in Ids :
               /\ Draw(id)
               /\ core' = [core EXCEPT
                       ![c] = [Initialized(Blank, core[d], id) EXCEPT !.status = "work"],
                       ![d] = create_command(core[d], "addnode", id, FALSE)]
         /\ left' = left /\ running' = [on |-> d, final |-> FALSE]
         /\ invites' = invites /\ packets' = packets
<1>1. /\ AtRest /\ c # d /\ need_initialize(core[c]) /\ ~need_initialize(core[d]) /\ c \in left.network
  BY DEF Initialize, Connected
<1>2. /\ running' = [on |-> d, final |-> FALSE] /\ invites' = invites /\ packets' = packets
  BY DEF Initialize
<1>3. Working(d) /\ Present(d)
  <2>1. core[d].status \notin {"uninitialized", "part_init"}
    BY <1>1 DEF need_initialize
  <2>2. Present(d)
    BY <2>1 DEF Present
  <2>. QED BY <2>1, <2>2, PresentLemma
<1>4. core[c].status # "part_init"
  <2>. SUFFICES ASSUME core[c].status = "part_init" PROVE FALSE
    OBVIOUS
  <2>1. PICK f \in invites : Id(c) \in f.uuids
    BY DEF MembersInv, PartInit
  <2>2. c \in left.founders
    BY <1>1, <2>1 DEF MembersInv, PlanOK
  <2>3. Present(c)
    BY DEF Present
  <2>. QED BY <2>1, <2>2, <2>3 DEF MembersInv, InvitesOK
<1>5. core[c] = Blank /\ ~Present(c)
  <2>1. core[c].status \in {"uninitialized", "part_init"}
    BY <1>1 DEF need_initialize
  <2>. QED BY <1>4, <2>1, PresentLemma DEF Present
<1>6. c \notin left.founders
  BY <1>5 DEF MembersInv, Roots
<1>7. invites = {}
  BY <1>1, <1>6 DEF MembersInv, PlanOK
<1>8. core[c].my_id = NoId /\ NoId \notin Ids
  BY <1>5 DEF Blank, MembershipAssumption
<1>9. ~Spend("losses")
  BY DEF MembersInv, PlanOK, Spend
<1>10. /\ \E id \in Ids :
             /\ Draw(id)
             /\ core' = [core EXCEPT
                     ![c] = [Initialized(core[c], core[d], id) EXCEPT !.status = "work"],
                     ![d] = create_command(core[d], "addnode", id, FALSE)]
       /\ left' = left
  BY <1>8, <1>9 DEF Initialize
<1>. QED BY <1>1, <1>2, <1>3, <1>5, <1>6, <1>7, <1>10

(* Initialize() keeps the invariant: the node at the other end of the session*)
(* is the inviter.                                                          *)
LEMMA InitializeStep ==
  ASSUME MembershipAssumption, MembersInv, NEW c \in Computers, NEW d \in Computers, Initialize(c, d)
  PROVE  MembersInv' /\ Moves
<1>. DEFINE n == core[d]
<1>1. /\ AtRest /\ c # d /\ core[c] = Blank /\ ~Present(c) /\ Working(d) /\ Present(d)
      /\ c \notin left.founders /\ invites = {}
      /\ left' = left /\ running' = [on |-> d, final |-> FALSE]
      /\ invites' = invites /\ packets' = packets
  BY InitializeLemma
<1>2. PICK id \in Ids :
          /\ Draw(id)
          /\ core' = [core EXCEPT ![c] = [Initialized(Blank, n, id) EXCEPT !.status = "work"],
                                  ![d] = create_command(n, "addnode", id, FALSE)]
  BY InitializeLemma
<1>3. /\ id \notin drawn /\ drawn' = drawn \cup {id} /\ drawn' \subseteq Ids
      /\ \A i \in drawn : i < id
      /\ \A i \in drawn', j \in Ids \ drawn' : i < j
  BY <1>2, DrawLemma
<1>. DEFINE V == {id}
            C == {new_command(n, "addnode", id, 0, FALSE)}
            q == [Initialized(Blank, n, id) EXCEPT !.status = "work"]
            p == create_command(n, "addnode", id, FALSE)
<1>4. New(C, n, V) /\ p = WithNew(n, C)
  <2>1. "addnode" \in Kinds /\ id \in V
    BY DEF Kinds
  <2>. QED BY <1>1, <2>1, SingleLemma
<1>5. \E m \in C : m.name = "addnode" /\ m.val = id
  BY DEF new_command
<1>6. \A m, k \in C : m = k
  OBVIOUS
<1>7. \A x \in Computers : core'[x] = IF x = c THEN q ELSE IF x = d THEN p ELSE core[x]
  BY <1>1, <1>2 DEF MembersInv, CoreOK
<1>8. n \in Snapshots \cap Spoken /\ IsNode(n) /\ Id(d) \in drawn
  BY <1>1, PresentLemma
<1>9. Enters(q, n, id, "work") /\ Joins(q, V)
  <2>1. id \in Ids \ drawn
    BY <1>3
  <2>2. "work" \in {"work", "part_init"} /\ "work" # "part_init"
    OBVIOUS
  <2>3. id \in V /\ q = [Initialized(Blank, n, id) EXCEPT !.status = "work"]
    OBVIOUS
  <2>. HIDE DEF q, n, V
  <2>. QED BY <1>8, <2>1, <2>2, <2>3, JoinsLemma
<1>10. V = {id}
  OBVIOUS
<1>11. core' = [core EXCEPT ![c] = q, ![d] = p]
  BY <1>2
<1>. HIDE DEF V, C, p, q
<1>12. Creates(d, p, C, V)
  BY <1>1, <1>4, CreateLemma
<1>13. Evolves(d, p, V)
  BY <1>12 DEF Creates
<1>14. Step(c, V)
  <2>1. core = [x \in Computers |-> core[x]]
    BY DEF MembersInv, CoreOK
  <2>2. core' = [x \in Computers |-> core'[x]]
    BY <1>11, <2>1
  <2>3. ASSUME NEW x \in Computers
        PROVE  \/ core[x] = Blank /\ core'[x] = Blank
               \/ Present(x) /\ Evolves(x, core'[x], V)
               \/ x = c /\ core[x] = Blank /\ Joins(core'[x], V)
    <3>1. CASE x = c
      BY <1>1, <1>7, <1>9, <3>1
    <3>2. CASE x = d
      BY <1>1, <1>7, <1>13, <3>2
    <3>3. CASE x # c /\ x # d
      <4>1. core'[x] = core[x]
        BY <1>7, <3>3
      <4>2. Present(x) => Evolves(x, core[x], V)
        BY EvolvesRefl
      <4>. QED BY <4>1, <4>2, PresentLemma
    <3>. QED BY <3>1, <3>2, <3>3
  <2>4. \A x \in Computers : core[x] = Blank /\ core'[x] # Blank => core'[x].my_id \in drawn'
    <3>1. core[d] # Blank
      BY <1>1, PresentLemma
    <3>. QED BY <1>3, <1>7, <1>9, <3>1 DEF Enters
  <2>5. \A i \in drawn' \ drawn : \E x \in Computers : core'[x].my_id = i
    BY <1>3, <1>7, <1>9 DEF Enters
  <2>. QED BY <1>1, <1>3, <1>10, <2>2, <2>3, <2>4, <2>5, RestLemma DEF Step
<1>15. Welcomed(V)
  <2>1. \A m : IsAddNode(m) => m.val \notin V
    <3>. SUFFICES ASSUME NEW m, IsAddNode(m) PROVE m.val \in drawn
      BY <1>3, <1>10
    <3>. QED BY DEF IsAddNode, MembersInv, SourcesOK, Names
  <2>2. ASSUME NEW x \in Computers, Present(x)', Id(x)' \in V
        PROVE  x \notin left.founders /\ core'[x].valid_node = FALSE
              /\ Invited(d, x)' /\ Welcoming(d, x)'
    <3>1. x = c
      <4>. SUFFICES ASSUME x # c PROVE FALSE
        OBVIOUS
      <4>1. Present(x)
        BY <1>1, <1>7, <2>2 DEF Present
      <4>2. Id(x)' = Id(x) /\ Id(x) \in drawn
        BY <1>14, <4>1, GrowthLemma, PresentLemma
      <4>. QED BY <1>3, <1>10, <2>2, <4>2
    <3>2. core'[x] = q
      BY <1>7, <3>1
    <3>3. \A a : Has(core'[x], a) = Known(d, a) /\ Known(d, a) \in Nat
      BY <1>8, <1>9, <3>2, NodeLemma DEF Enters, Known
    <3>4. \A a, k : k \in Nat /\ Has(core'[x], a) <= k /\ k < Known(d, a) => Stored(core[d], a, k)
      BY <3>3
    <3>5. core'[d] = p /\ running'.on = d /\ x # d
      BY <1>1, <1>7, <3>1
    <3>6. Id(x)' = id
      BY <1>10, <2>2
    <3>7. Id(d) < Id(x)' /\ \E m \in C : m.name = "addnode" /\ m.val = Id(x)'
      BY <1>3, <1>5, <1>8, <3>6
    <3>8. \A a : Has(core'[x], a) \in Nat
      BY <3>3
    <3>9. Invited(d, x)' /\ Welcoming(d, x)'
      BY <1>1, <1>4, <2>2, <3>4, <3>5, <3>7, <3>8, WelcomedLemma
    <3>10. core'[x].valid_node = FALSE
      BY <1>9, <3>2 DEF Enters
    <3>. QED BY <1>1, <3>1, <3>9, <3>10
  <2>3. Distinct(V)
    <3>. SUFFICES ASSUME NEW x \in Computers, NEW y \in Computers,
                         NEW m \in core'[x].messages, NEW k \in core'[y].messages,
                         Created(m, x, core'[x], V), Created(k, y, core'[y], V)
                  PROVE  m.author = k.author /\ m.number = k.number
      BY DEF Distinct
    <3>1. core'[d] = p /\ \A z \in Computers : z # d /\ Present(z) => core'[z] = core[z]
      BY <1>1, <1>7
    <3>2. m \in C
      BY <1>1, <1>4, <1>14, <3>1, CreatorLemma
    <3>3. k \in C
      BY <1>1, <1>4, <1>14, <3>1, CreatorLemma
    <3>. QED BY <1>6, <3>2, <3>3
  <2>. QED BY <2>1, <2>2, <2>3 DEF Welcomed
<1>16. PlanOK'
  BY <1>1 DEF MembersInv, PlanOK
<1>17. RunningOK'
  <2>1. Present(d)'
    BY <1>1, <1>14, GrowthLemma
  <2>2. NoId \notin Computers
    BY DEF MembershipAssumption
  <2>. QED BY <1>1, <2>1, <2>2 DEF RunningOK
<1>18. InvitesStay(V)
  BY <1>1 DEF InvitesStay
<1>19. InvitesOK' /\ InvitesKept'
  BY <1>14, <1>18, InvitesStep
<1>. QED BY <1>14, <1>15, <1>16, <1>17, <1>19, StepLemma

(* The UUIDs of the founders: the smallest ones, one for each.               *)
LEMMA FoundersLemma ==
  ASSUME MembershipAssumption, NEW p \in Plans
  PROVE  /\ p.founders \subseteq Computers
         /\ \A c \in p.founders : FounderId(p.founders, c) \in Ids
         /\ \A c, d \in p.founders : FounderId(p.founders, c) = FounderId(p.founders, d) => c = d
         /\ \A c \in p.founders, j \in Ids \ {FounderId(p.founders, d) : d \in p.founders} :
                FounderId(p.founders, c) < j
<1>. DEFINE S == p.founders
            F(c) == FounderId(S, c)
<1>1. S \in SUBSET Nat /\ IsFiniteSet(S) /\ S \subseteq Computers
      /\ Ids \in SUBSET Nat /\ IsFiniteSet(Ids) /\ Cardinality(S) <= Cardinality(Ids)
  BY DEF MembershipAssumption, Plan
<1>2. Cardinality(S) \in Nat /\ Cardinality(Ids) \in Nat
  BY <1>1, FS_CardinalityType
<1>. HIDE DEF S
<1>3. /\ \A x \in S : Rank(S, x) \in 0 .. Cardinality(S) - 1
      /\ \A x, y \in S : Rank(S, x) = Rank(S, y) => x = y
      /\ \A k \in 0 .. Cardinality(S) - 1 : \E x \in S : Rank(S, x) = k
  BY <1>1, RankLemma
<1>4. /\ \A x \in Ids : Rank(Ids, x) \in 0 .. Cardinality(Ids) - 1
      /\ \A x, y \in Ids : Rank(Ids, x) = Rank(Ids, y) => x = y
      /\ \A k \in 0 .. Cardinality(Ids) - 1 : \E x \in Ids : Rank(Ids, x) = k
      /\ \A x, z \in Ids : x < z => Rank(Ids, x) < Rank(Ids, z)
  BY <1>1, RankLemma
<1>5. ASSUME NEW c \in S
      PROVE  F(c) \in Ids /\ Rank(Ids, F(c)) = Rank(S, c)
  <2>1. Rank(S, c) \in 0 .. Cardinality(Ids) - 1
    BY <1>1, <1>2, <1>3
  <2>2. \E i \in Ids : Rank(Ids, i) = Rank(S, c)
    BY <1>4, <2>1
  <2>. QED BY <2>2 DEF FounderId
<1>. HIDE DEF F
<1>6. ASSUME NEW c \in S, NEW d \in S, F(c) = F(d)
      PROVE  c = d
  BY <1>3, <1>5, <1>6
<1>7. ASSUME NEW c \in S, NEW j \in Ids \ {F(d) : d \in S}
      PROVE  F(c) < j
  <2>. SUFFICES ASSUME j < F(c) PROVE FALSE
    <3>1. j # F(c) /\ j \in Nat /\ F(c) \in Nat
      BY <1>1, <1>5
    <3>. QED BY <3>1
  <2>1. Rank(Ids, j) < Rank(S, c)
    BY <1>4, <1>5
  <2>2. Rank(Ids, j) \in 0 .. Cardinality(Ids) - 1 /\ Rank(S, c) \in 0 .. Cardinality(S) - 1
    BY <1>3, <1>4
  <2>3. Rank(Ids, j) \in 0 .. Cardinality(S) - 1
    BY <1>2, <2>1, <2>2
  <2>4. PICK d \in S : Rank(S, d) = Rank(Ids, j)
    BY <1>3, <2>3
  <2>5. F(d) = j
    BY <1>4, <1>5, <2>4
  <2>. QED BY <2>5
<1>. QED BY <1>1, <1>5, <1>6, <1>7 DEF F, S

(* At the start nobody but the founders is in the group, and nothing has      *)
(* happened.                                                                 *)
Beginning == /\ \A c \in Computers : Present(c) => c \in left.founders
             /\ \A i \in drawn : \E c \in left.founders : Id(c) = i
             /\ \A h \in Sources : h.messages = {} /\ \A i, j : Cell(h.nodes, i, j) = 0
             /\ \A h \in Snapshots : h.state = {} /\ h.log = {} /\ \A a : Done(h, a) = 0

(* The invariant is true at the start.                                      *)
LEMMA InitLemma ==
  ASSUME MembershipAssumption, GroupInit, Joining
  PROVE  MembersInv /\ Beginning
<1>. DEFINE S == left.founders
            M == [i \in drawn |-> [row |-> [j \in drawn |-> 0], command_to_exec |-> 0]]
<1>1. left \in Plans /\ left \in Plan
  BY DEF GroupInit, MembershipAssumption
<1>2. /\ S \subseteq Computers /\ drawn = {FounderId(S, c) : c \in S}
      /\ \A c \in S : FounderId(S, c) \in drawn
      /\ \A c, d \in S : FounderId(S, c) = FounderId(S, d) => c = d
      /\ drawn \subseteq Ids /\ \A i \in drawn, j \in Ids \ drawn : i < j
  <2>1. drawn = {FounderId(S, c) : c \in S}
    BY DEF GroupInit
  <2>. QED BY <1>1, <2>1, FoundersLemma
<1>3. /\ core = [c \in Computers |-> core[c]] /\ running = NotRunning /\ invites = {} /\ packets = {}
      /\ \A c \in Computers : core[c] =
             IF c \in S THEN [Blank EXCEPT !.status = "work", !.my_id = FounderId(S, c),
                                           !.valid_node = TRUE, !.nodes = M]
             ELSE Blank
  BY DEF GroupInit
<1>4. NoId \notin Computers /\ NoId \notin Ids
  BY DEF MembershipAssumption
<1>. HIDE DEF M, S
<1>5. ASSUME NEW c \in S
      PROVE  /\ core[c].status = "work" /\ Id(c) = FounderId(S, c) /\ core[c].nodes = M
             /\ core[c].messages = {} /\ core[c].invite_id = 0 /\ DOMAIN core[c] = DOMAIN Blank
             /\ core[c].valid_node = TRUE /\ c \in Computers
  BY <1>2, <1>3 DEF Blank, Id
<1>6. \A c \in Computers : c \notin S => core[c] = Blank
  BY <1>3
<1>7. /\ IsMatrix(M) /\ DOMAIN M = drawn /\ \A i, j : Cell(M, i, j) = 0
      /\ \A i \in drawn : M[i].command_to_exec = 0
  BY <1>2 DEF IsMatrix, Cell, M
<1>8. ASSUME NEW c \in Computers, Present(c)
      PROVE  c \in S
  BY <1>6, <1>8 DEF Present, Blank
<1>9. ASSUME NEW c \in S
      PROVE  /\ IsNode(core[c]) /\ Id(c) \in drawn /\ Present(c) /\ Working(c)
             /\ Members(core[c]) = drawn /\ Names(core[c]) = drawn
             /\ \A a : Has(core[c], a) = 0 /\ Done(core[c], a) = 0 /\ Known(c, a) = 0
  <2>1. Id(c) \in drawn /\ Members(core[c]) = drawn
    BY <1>2, <1>5, <1>7 DEF Members
  <2>2. Commands(core[c])
    BY <1>5, FS_EmptySet DEF Commands, Single
  <2>3. IsNode(core[c])
    BY <1>5, <1>7, <2>1, <2>2 DEF IsNode, Id
  <2>4. \A a : Has(core[c], a) = 0 /\ Done(core[c], a) = 0
    <3>1. \A a : Has(core[c], a) = 0
      BY <1>5, <1>7 DEF Has
    <3>2. \A a : Done(core[c], a) = 0
      BY <1>5, <1>7, <2>1 DEF Done
    <3>. QED BY <3>1, <3>2
  <2>. QED BY <1>5, <1>7, <2>1, <2>3, <2>4 DEF Names, Present, Working, Known
<1>10. \A h \in Sources : \E c \in S : h = core[c]
  BY <1>3, <1>8 DEF Sources, Snapshots
<1>11. Snapshots \subseteq Sources
  BY DEF Sources
<1>25. ASSUME NEW c \in Computers
       PROVE  core[c].status \in {"work", "uninitialized"} /\ core[c].invite_id = 0
  <2>1. Blank.status = "uninitialized" /\ Blank.invite_id = 0
    BY DEF Blank
  <2>. QED BY <1>5, <1>6, <2>1
<1>12. PlanOK
  BY <1>1, <1>2, <1>3 DEF PlanOK, Joining, S
<1>13. CoreOK
  <2>1. \A c \in Computers : core[c] = Blank \/ (IsNode(core[c]) /\ Id(c) \in drawn)
    BY <1>6, <1>9
  <2>2. \A c \in Computers : core[c].status # "part_init"
    BY <1>25
  <2>3. \A c, d \in Computers : Present(c) /\ Present(d) /\ Id(c) = Id(d) => c = d
    BY <1>2, <1>5, <1>8
  <2>4. \A c \in Computers : Present(c) => Done(core[c], Id(c)) <= Known(c, Id(c))
    BY <1>8, <1>9
  <2>. QED BY <1>2, <1>3, <2>1, <2>2, <2>3, <2>4 DEF CoreOK
<1>14. RunningOK
  BY <1>3, <1>4 DEF RunningOK, NotRunning
<1>15. SourcesOK
  <2>1. \A h \in Snapshots : IsNode(h) /\ Unexecuted(h)
    BY <1>9, <1>10, <1>11 DEF Unexecuted
  <2>2. \A h \in Sources : IsMatrix(h.nodes) /\ Commands(h) /\ Names(h) \subseteq drawn
    BY <1>9, <1>10 DEF IsNode
  <2>. QED BY <2>1, <2>2 DEF SourcesOK
<1>16. Sound
  <2>. SUFFICES ASSUME NEW h \in Sources, NEW c \in Computers, Present(c), NEW y
                PROVE  Cell(h.nodes, Id(c), y) <= Known(c, y)
    BY DEF Sound
  <2>1. h.nodes = M
    <3>1. PICK d \in S : h = core[d]
      BY <1>10
    <3>. QED BY <1>5, <3>1
  <2>2. Known(c, y) = 0
    BY <1>8, <1>9
  <2>. QED BY <1>7, <2>1, <2>2
<1>17. \A h \in Sources : h.messages = {}
  BY <1>5, <1>10
<1>18. Own
  BY <1>17 DEF Own
<1>19. Roots
  <2>1. \A h \in Snapshots : Members(h) = drawn /\ \A a : Has(h, a) = 0
    BY <1>9, <1>10, <1>11
  <2>2. \A h \in Snapshots, c \in S : Kept(h, c)
    BY <1>9, <2>1 DEF Kept
  <2>. QED BY <1>9, <2>1, <2>2 DEF Roots, S
<1>20. Chain
  BY <1>8 DEF Chain, S
<1>21. PartInit
  BY <1>25 DEF PartInit
<1>22. AddNodes /\ Valid
  BY <1>17 DEF AddNodes, Valid, IsAddNode
<1>23. InvitesOK
  <2>1. \A c \in Computers : core[c].invite_id = 0
    BY <1>25
  <2>. QED BY <1>3, <2>1 DEF InvitesOK
<1>24. InvitesKept
  BY <1>3 DEF InvitesKept
<1>26. Beginning
  <2>1. \A c \in S : core[c].state = {} /\ core[c].log = {}
    BY <1>2, <1>3 DEF Blank
  <2>2. \A i \in drawn : \E c \in S : Id(c) = i
    BY <1>2, <1>5
  <2>3. ASSUME NEW h \in Sources PROVE h.messages = {} /\ h.nodes = M
    <3>1. PICK c \in S : h = core[c]
      BY <1>10
    <3>. QED BY <1>5, <3>1
  <2>4. \A h \in Snapshots : h.state = {} /\ h.log = {} /\ \A a : Done(h, a) = 0
    BY <1>9, <1>10, <1>11, <2>1
  <2>. QED BY <1>7, <1>8, <2>2, <2>3, <2>4 DEF Beginning, S
<1>. QED BY <1>12, <1>13, <1>14, <1>15, <1>16, <1>18, <1>19, <1>20, <1>21, <1>22, <1>23, <1>24, <1>26
         DEF MembersInv

(* Every action keeps the invariant.                                        *)
LEMMA StepsLemma ==
  ASSUME MembershipAssumption, MembersInv, [GroupNext]_gvars
  PROVE  MembersInv' /\ Moves
<1>1. CASE \E c \in Computers : Typed(c)
  <2>1. PICK c \in Computers : Typed(c)
    BY <1>1
  <2>2. CASE Command(c) \/ incm_addfile(c) \/ (\E how \in {"delfile", "deldir"} : RemoveFile(c, how))
    BY <2>2, CommandStep
  <2>3. CASE \E id \in Ids, force \in BOOLEAN : incm_delnode(c, id, force)
    BY <2>3, NobodyLeaves
  <2>4. CASE write_offline_invite(c)
    BY <2>4, WriteInviteStep
  <2>5. CASE \E f \in invites : read_offline_invite(c, f) \/ finalize_offline_invitation(c, f)
    BY <2>5, ReadInviteStep, FinalizeStep
  <2>6. CASE cancel_invite(c)
    BY <2>6, CancelStep
  <2>7. CASE WritePacket(c)
    BY <2>7, WritePacketStep
  <2>8. CASE \E p \in packets : ReadPacket(c, p)
    BY <2>8, ReadPacketStep
  <2>. QED BY <2>1, <2>2, <2>3, <2>4, <2>5, <2>6, <2>7, <2>8 DEF Typed
<1>2. CASE \E c \in Computers : Daemon(c)
  BY <1>2, PendingStep, ExecuteStep, ForgetStep DEF Daemon
<1>3. CASE \E c, d \in Computers : Exchange(c, d)
  BY <1>3, DownloadStep, NobodyLeaves, InitializeStep DEF Exchange
<1>4. CASE UNCHANGED gvars
  <2>. USE <1>4 DEF gvars
  <2>1. (Snapshots' = Snapshots) /\ (Spoken' = Spoken) /\ (Sources' = Sources)
    BY DEF Snapshots, Spoken, Sources, Present, Working
  <2>2. PlanOK' /\ CoreOK' /\ RunningOK' /\ SourcesOK' /\ Sound' /\ Own' /\ Roots'
    BY <2>1 DEF MembersInv, PlanOK, CoreOK, RunningOK, SourcesOK, Sound, Own, Roots, Present, Id,
                Known, Working, Kept
  <2>3. Chain'
    BY <2>1 DEF MembersInv, Chain, Announced, Invited, Welcoming, Welcome, Present, Id, Known,
                Working, Kept
  <2>4. PartInit' /\ AddNodes' /\ Valid'
    BY <2>1 DEF MembersInv, PartInit, AddNodes, Valid, IsAddNode, Present, Id
  <2>5. InvitesOK'
    BY DEF MembersInv, InvitesOK, Writes, Present, Id, Known, Working
  <2>6. InvitesKept'
    BY <2>1 DEF MembersInv, InvitesKept, IsAddNode, Open, Writes, Present, Id, Known, Working
  <2>7. Step(NoId, {}) /\ Welcomed({})
    <3>1. core = [x \in Computers |-> core[x]] /\ drawn \subseteq Ids
          /\ \A i \in drawn, j \in Ids \ drawn : i < j
      BY DEF MembersInv, CoreOK
    <3>2. \A x \in Computers : core[x] = Blank \/ (Present(x) /\ Evolves(x, core[x], {}))
      BY EvolvesRefl, PresentLemma
    <3>3. \A f \in invites : f.from \in Snapshots \cap Spoken
      BY DEF Snapshots, Spoken
    <3>4. \A i, c \in Computers : Welcoming(i, c) => Welcoming(i, c)'
      BY DEF Welcoming, Welcome, Id
    <3>5. Step(NoId, {})
      BY <3>1, <3>2, <3>3, <3>4 DEF Step
    <3>. QED BY <3>5 DEF Welcomed, Distinct, Created
  <2>. QED BY <2>2, <2>3, <2>4, <2>5, <2>6, <2>7 DEF MembersInv, Moves
<1>. QED BY <1>1, <1>2, <1>3, <1>4 DEF GroupNext

(* In every plan in which nobody leaves and no session of a newcomer breaks,*)
(* the invariant MembersInv is true in every state.                         *)
THEOREM MembersInvariance == GroupSpec /\ Joining => []MembersInv
<1>1. GroupInit /\ Joining => MembersInv
  BY MembershipAssumption, InitLemma
<1>2. MembersInv /\ [GroupNext]_gvars => MembersInv'
  BY MembershipAssumption, StepsLemma
<1>. QED BY <1>1, <1>2, PTL DEF GroupSpec

(* remove_old_commands() with members that come: in those plans a command   *)
(* that one member knows and another one lacks is always stored somewhere,  *)
(* although every node forgets by its own list of members, for any number of*)
(* computers, invites, packets and commands.                                *)
THEOREM NeededCommandsAreKept == GroupSpec /\ Joining => []NeededIsKept
<1>1. MembersInv => NeededIsKept
  BY MembershipAssumption, NeededLemma
<1>. QED BY <1>1, MembersInvariance, PTL

-----------------------------------------------------------------------------
(* What the counters, the states of the users' commands and the new members   *)
(* have to do with each other.                                               *)
NoLog == \A h \in Snapshots : h.log = {}
Everybody == \A i \in drawn : \E c \in Computers : Present(c) /\ Id(c) = i

(* Nobody knows or has executed a command of a node that this has not given.  *)
Counts == \A c \in Computers : Present(c) =>
             /\ \A h \in Sources : \A i : Cell(h.nodes, i, Id(c)) <= Known(c, Id(c))
             /\ \A h \in Snapshots : Done(h, Id(c)) <= Known(c, Id(c))

(* c has become a member by the command k of x: who has executed it has the   *)
(* member c, and c can only stop waiting for a packet when it knows it.       *)
Tells(x, k, c) ==
    /\ Working(x) /\ k \in Nat /\ k < Known(x, Id(x))
    /\ core[c].status = "part_init" => Known(c, Id(x)) <= k
    /\ \A h \in Snapshots : k < Done(h, Id(x)) => Id(c) \in Members(h)
    /\ \A h \in Sources : \A m \in h.messages :
           m.author = Id(x) /\ m.number = k => m.name = "addnode" /\ m.val = Id(c)
Heard == \A c \in Computers : Present(c) /\ c \notin left.founders /\ Announced(c) =>
            \E x \in Computers : \E k : Tells(x, k, c)

(* The state of a node is what it has executed.                              *)
Executed(g) == /\ \A s \in g.state : \E a, k : s = <<a, k>>
               /\ \A a, k : <<a, k>> \in g.state => k \in Nat /\ k < Done(g, a)
SameCommand == \A g, h \in Sources : \A m \in g.messages, x \in h.messages :
                   m.author = x.author /\ m.number = x.number => m = x
SameState(g, h) == \A a, k : <<a, k>> \in g.state /\ k < Done(h, a) => <<a, k>> \in h.state
Reflects(h, m) == m.number < Done(h, m.author) =>
                      (<<m.author, m.number>> \in h.state <=> m.name = "other")
States == /\ \A g \in Snapshots : Executed(g)
          /\ \A g, h \in Snapshots : SameState(g, h)
          /\ \A h \in Snapshots, g \in Sources : \A m \in g.messages : Reflects(h, m)

AgreeInv == NoLog /\ Everybody /\ Counts /\ Heard /\ SameCommand /\ States

-----------------------------------------------------------------------------
(* Each snapshot is an earlier one on which at most one command was executed. *)
LEMMA OriginLemma ==
  ASSUME MembersInv, NEW e, NEW V, Step(e, V), NEW p \in Snapshots'
  PROVE  \E h \in Snapshots : Follows(h, p) /\ Members(h) \subseteq Members(p)
<1>1. CASE \E f \in invites' : p = f.from
  <2>1. p \in Snapshots
    BY <1>1 DEF Step
  <2>. QED BY <2>1 DEF Follows
<1>2. CASE \E x \in Computers : Present(x)' /\ p = core'[x]
  <2>1. PICK x \in Computers : Present(x)' /\ p = core'[x]
    BY <1>2
  <2>2. CASE Present(x)
    <3>1. Evolves(x, p, V) /\ core[x] \in Snapshots
      BY <2>1, <2>2, GrowthLemma, PresentLemma
    <3>. QED BY <3>1 DEF Evolves
  <2>3. CASE ~Present(x)
    <3>1. Joins(p, V)
      BY <2>1, <2>3, NewcomerLemma
    <3>2. PICK h \in Snapshots : /\ Members(p) = Members(h) \cup {p.my_id}
                                 /\ p.state = h.state /\ p.log = h.log
                                 /\ \A a : Done(p, a) = Done(h, a)
      BY <3>1 DEF Joins
    <3>. QED BY <3>2 DEF Follows
  <2>. QED BY <2>2, <2>3
<1>. QED BY <1>1, <1>2 DEF Snapshots

(* What a snapshot says of the counters.                                     *)
LEMMA SnapshotLemma ==
  ASSUME MembersInv, NEW h \in Snapshots
  PROVE  /\ IsNode(h) /\ h \in Sources
         /\ \A a : Done(h, a) \in Nat /\ Has(h, a) \in Nat
         /\ Members(h) \subseteq drawn
         /\ \A m \in h.messages : m.number \in Nat /\ m.name \in Kinds /\ m.author \in drawn
<1>1. IsNode(h) /\ h \in Sources
  BY DEF MembersInv, SourcesOK, Sources
<1>2. Names(h) \subseteq drawn
  BY <1>1 DEF MembersInv, SourcesOK
<1>3. \A a : Done(h, a) \in Nat /\ Has(h, a) \in Nat
  BY <1>1, NodeLemma
<1>4. Members(h) \subseteq drawn
  BY <1>2 DEF Names, Members
<1>5. \A m \in h.messages : m.number \in Nat /\ m.name \in Kinds /\ m.author \in drawn
  BY <1>1, <1>4 DEF IsNode, Commands, IsCommand, Members
<1>. QED BY <1>1, <1>3, <1>4, <1>5

(* The same of a command of any source.                                      *)
LEMMA SourceLemma ==
  ASSUME MembersInv, NEW h \in Sources
  PROVE  /\ IsMatrix(h.nodes) /\ DOMAIN h.nodes \subseteq drawn
         /\ \A i, j : Cell(h.nodes, i, j) \in Nat
         /\ \A m \in h.messages : m.number \in Nat /\ m.name \in Kinds /\ m.author \in drawn
<1>1. IsMatrix(h.nodes) /\ Commands(h) /\ Names(h) \subseteq drawn
  BY DEF MembersInv, SourcesOK
<1>2. \A i, j : Cell(h.nodes, i, j) \in Nat
  BY <1>1, CellLemma
<1>3. DOMAIN h.nodes \subseteq drawn
  BY <1>1 DEF Names
<1>. QED BY <1>1, <1>2, <1>3 DEF Commands, IsCommand

(* A node has a command of an author only if it is one that the author knows. *)
LEMMA AuthorLemma ==
  ASSUME MembersInv, Everybody, NEW h \in Sources, NEW m \in h.messages
  PROVE  \E x \in Computers : Present(x) /\ Id(x) = m.author /\ m.number < Known(x, Id(x))
<1>1. m.author \in drawn
  BY SourceLemma
<1>2. PICK x \in Computers : Present(x) /\ Id(x) = m.author
  BY <1>1 DEF Everybody
<1>. QED BY <1>2 DEF MembersInv, Own

-----------------------------------------------------------------------------
(* A step adds no log and nobody who is nowhere.                             *)
LEMMA EverybodyStep ==
  ASSUME MembershipAssumption, MembersInv, AgreeInv, NEW e, NEW V, Step(e, V)
  PROVE  NoLog' /\ Everybody'
<1>1. NoLog'
  <2>. SUFFICES ASSUME NEW p \in Snapshots' PROVE p.log = {}
    BY DEF NoLog
  <2>1. PICK h \in Snapshots : Follows(h, p)
    BY OriginLemma
  <2>. QED BY <2>1 DEF Follows, AgreeInv, NoLog
<1>2. ASSUME NEW i \in drawn'
      PROVE  \E c \in Computers : Present(c)' /\ Id(c)' = i
  <2>1. CASE i \in drawn
    <3>1. PICK c \in Computers : Present(c) /\ Id(c) = i
      BY <2>1 DEF AgreeInv, Everybody
    <3>. QED BY <3>1, GrowthLemma
  <2>2. CASE i \notin drawn
    <3>1. PICK c \in Computers : core'[c].my_id = i
      BY <2>2 DEF Step
    <3>2. i # NoId
      BY DEF Step, MembershipAssumption
    <3>3. core'[c] # Blank
      BY <3>1, <3>2 DEF Blank
    <3>4. Present(c)'
      <4>1. CASE Present(c)
        BY <4>1, GrowthLemma
      <4>2. CASE ~Present(c)
        <5>1. Joins(core'[c], V)
          BY <3>3, <4>2 DEF Step
        <5>. QED BY <5>1 DEF Joins, Present
      <4>. QED BY <4>1, <4>2
    <3>. QED BY <3>1, <3>4 DEF Id
  <2>. QED BY <2>1, <2>2
<1>. QED BY <1>1, <1>2 DEF Everybody

(* What was known of the commands of c, before a step.                       *)
LEMMA CountsLemma ==
  ASSUME MembershipAssumption, MembersInv, MembersInv', AgreeInv, NEW e, NEW V, Step(e, V),
         NEW c \in Computers, Present(c)'
  PROVE  /\ Known(c, Id(c))' \in Nat
         /\ \A g \in Sources : \A i : Cell(g.nodes, i, Id(c)') <= Known(c, Id(c))'
         /\ \A g \in Snapshots : Done(g, Id(c)') <= Known(c, Id(c))'
         /\ \A g \in Sources : \A m \in g.messages : m.author = Id(c)' => m.number < Known(c, Id(c))'
<1>1. \A a : Known(c, a)' \in Nat
  <2>1. core'[c] \in Snapshots'
    BY DEF Snapshots
  <2>2. IsNode(core'[c])
    BY <2>1 DEF MembersInv, SourcesOK
  <2>. QED BY <2>2, NodeLemma DEF Known
<1>2. CASE Present(c)
  <2>1. Id(c)' = Id(c) /\ Known(c, Id(c)) \in Nat /\ Known(c, Id(c)) <= Known(c, Id(c))'
    <3>1. Id(c)' = Id(c) /\ \A a : Known(c, a) \in Nat /\ Known(c, a) <= Has(core'[c], a)
      BY <1>2, GrowthLemma DEF Known
    <3>2. Known(c, Id(c))' = Has(core'[c], Id(c)')
      BY DEF Known
    <3>. QED BY <3>1, <3>2
  <2>2. Known(c, Id(c))' \in Nat
    BY <1>1 DEF Known, Id
  <2>3. ASSUME NEW g \in Sources, NEW i PROVE Cell(g.nodes, i, Id(c)') <= Known(c, Id(c))'
    <3>1. Cell(g.nodes, i, Id(c)) <= Known(c, Id(c)) /\ Cell(g.nodes, i, Id(c)) \in Nat
      BY <1>2, SourceLemma DEF AgreeInv, Counts
    <3>. QED BY <2>1, <2>2, <3>1
  <2>4. ASSUME NEW g \in Snapshots PROVE Done(g, Id(c)') <= Known(c, Id(c))'
    <3>1. Done(g, Id(c)) <= Known(c, Id(c)) /\ Done(g, Id(c)) \in Nat
      BY <1>2, SnapshotLemma DEF AgreeInv, Counts
    <3>. QED BY <2>1, <2>2, <3>1
  <2>5. ASSUME NEW g \in Sources, NEW m \in g.messages, m.author = Id(c)'
        PROVE  m.number < Known(c, Id(c))'
    <3>1. m.number < Known(c, Id(c)) /\ m.number \in Nat
      BY <1>2, <2>1, <2>5, SourceLemma DEF MembersInv, Own
    <3>. QED BY <2>1, <2>2, <3>1
  <2>. QED BY <2>2, <2>3, <2>4, <2>5
<1>3. CASE ~Present(c)
  <2>1. Id(c)' \notin drawn
    BY <1>3, NewcomerLemma
  <2>2. \A g \in Sources : \A i : Cell(g.nodes, i, Id(c)') = 0
    BY <2>1, SourceLemma DEF Cell
  <2>3. \A g \in Snapshots : Done(g, Id(c)') = 0
    BY <2>1, SnapshotLemma DEF Done
  <2>4. \A g \in Sources : \A m \in g.messages : m.author # Id(c)'
    BY <2>1, SourceLemma
  <2>5. Known(c, Id(c))' \in Nat
    BY <1>1 DEF Known, Id
  <2>. QED BY <2>2, <2>3, <2>4, <2>5
<1>. QED BY <1>2, <1>3

(* The counters stay below what the author knows.                            *)
LEMMA CountsStep ==
  ASSUME MembershipAssumption, MembersInv, MembersInv', AgreeInv, NEW e, NEW V, Step(e, V)
  PROVE  Counts'
<1>. SUFFICES ASSUME NEW c \in Computers, Present(c)'
              PROVE  /\ \A h \in Sources' : \A i : Cell(h.nodes, i, Id(c)') <= Known(c, Id(c))'
                     /\ \A h \in Snapshots' : Done(h, Id(c)') <= Known(c, Id(c))'
  BY DEF Counts
<1>. DEFINE id == Id(c)'
            k == Known(c, Id(c))'
<1>1. /\ k \in Nat
      /\ \A g \in Sources : \A i : Cell(g.nodes, i, id) <= k
      /\ \A g \in Snapshots : Done(g, id) <= k
      /\ \A g \in Sources : \A m \in g.messages : m.author = id => m.number < k
  BY CountsLemma
<1>2. \A h \in Sources' : /\ \A m \in h.messages : m.author = id => m.number < k
                          /\ \A i : Cell(h.nodes, i, id) \in Nat
  <2>. TAKE h \in Sources'
  <2>1. \A m \in h.messages : m.author = id => m.number < k
    BY DEF MembersInv, Own
  <2>2. IsMatrix(h.nodes)
    BY DEF MembersInv, SourcesOK
  <2>. QED BY <2>1, <2>2, CellLemma
<1>3. core'[c].my_id = id
  BY DEF Id
<1>. HIDE DEF id, k
<1>4. ASSUME NEW p \in Snapshots'
      PROVE  Done(p, id) <= k
  <2>1. PICK h \in Snapshots : Follows(h, p)
    BY OriginLemma
  <2>2. Done(h, id) <= k /\ Done(h, id) \in Nat /\ h \in Sources
    BY <1>1, SnapshotLemma
  <2>3. CASE Done(p, id) = Done(h, id)
    BY <2>2, <2>3
  <2>4. CASE Done(p, id) # Done(h, id)
    <3>1. PICK m \in h.messages : /\ m.number = Done(h, m.author)
                 /\ \A a : Done(p, a) = IF a = m.author THEN Done(h, a) + 1 ELSE Done(h, a)
      BY <2>1, <2>4 DEF Follows
    <3>2. m.author = id /\ Done(p, id) = Done(h, id) + 1 /\ m.number = Done(h, id)
      BY <2>4, <3>1
    <3>3. m.number < k
      BY <1>1, <2>2, <3>2
    <3>. QED BY <1>1, <2>2, <3>2, <3>3
  <2>. QED BY <2>3, <2>4
<1>5. ASSUME NEW h \in Sources', NEW i
      PROVE  Cell(h.nodes, i, id) <= k
  <2>1. CASE \E g \in Sources : g.nodes = h.nodes
    BY <1>1, <2>1
  <2>2. CASE \E x \in Computers : Present(x) /\ h = core'[x] /\ Evolves(x, h, V)
    <3>1. PICK x \in Computers : Present(x) /\ h = core'[x] /\ Evolves(x, h, V)
      BY <2>2
    <3>2. CASE i # Id(x)
      <4>1. PICK g \in Sources : Cell(h.nodes, i, id) <= Cell(g.nodes, i, id)
        BY <3>1, <3>2 DEF Evolves, Id
      <4>2. Cell(g.nodes, i, id) <= k /\ Cell(g.nodes, i, id) \in Nat /\ Cell(h.nodes, i, id) \in Nat
        BY <1>1, <1>2, SourceLemma
      <4>. QED BY <1>1, <4>1, <4>2
    <3>3. CASE i = Id(x)
      <4>1. core[x] \in Sources /\ h.my_id = core[x].my_id
        BY <3>1, PresentLemma DEF Evolves
      <4>2. Cell(h.nodes, i, id) = Has(h, id) /\ Has(core[x], id) <= k /\ Has(core[x], id) \in Nat
        BY <1>1, <3>3, <4>1, SourceLemma DEF Has, Id
      <4>. SUFFICES ASSUME ~(Has(h, id) <= k) PROVE FALSE
        BY <4>2
      <4>3. Has(h, id) \in Nat
        BY <1>2, <4>2
      <4>4. k \in Nat /\ Has(core[x], id) <= k /\ k < Has(h, id)
        BY <1>1, <4>2, <4>3
      <4>5. Stored(h, id, k)
        BY <3>1, <4>4 DEF Evolves
      <4>6. PICK m \in h.messages : m.author = id /\ m.number = k
        BY <4>5 DEF Stored
      <4>. QED BY <1>1, <1>2, <4>6
    <3>. QED BY <3>2, <3>3
  <2>3. CASE \E x \in Computers : Joins(h, V)
    <3>1. PICK g \in Snapshots : /\ \A a : Has(h, a) = Has(g, a)
                                 /\ \A a, j : a # h.my_id => Cell(h.nodes, a, j) = Cell(g.nodes, a, j)
      BY <2>3 DEF Joins
    <3>2. g \in Sources
      BY DEF Sources
    <3>3. CASE i # h.my_id
      BY <1>1, <3>1, <3>2, <3>3
    <3>4. CASE i = h.my_id
      <4>1. Cell(h.nodes, i, id) = Cell(g.nodes, g.my_id, id)
        BY <3>1, <3>4 DEF Has
      <4>. QED BY <1>1, <3>2, <4>1
    <3>. QED BY <3>3, <3>4
  <2>. QED BY <2>1, <2>2, <2>3, SourcesLemma
<1>. QED BY <1>4, <1>5 DEF id, k

(* What a new command of x has to do with the others: nobody knows it.       *)
LEMMA CreatedLemma ==
  ASSUME MembershipAssumption, MembersInv, AgreeInv, NEW V,
         NEW x \in Computers, Present(x), NEW m, Created(m, x, core'[x], V), m.number \in Nat
  PROVE  /\ m.author = Id(x) /\ Known(x, Id(x)) <= m.number
         /\ \A g \in Sources : \A k \in g.messages : k.author = m.author => k.number < m.number
         /\ \A h \in Snapshots : Done(h, m.author) <= m.number
         /\ \A g \in Sources : \A i : Cell(g.nodes, i, m.author) <= m.number
<1>1. m.author = Id(x) /\ Known(x, Id(x)) <= m.number /\ Known(x, Id(x)) \in Nat
  BY PresentLemma, NodeLemma DEF Created, Known
<1>2. ASSUME NEW g \in Sources, NEW k \in g.messages, k.author = m.author
      PROVE  k.number < m.number
  <2>1. k.number < Known(x, Id(x)) /\ k.number \in Nat
    BY <1>1, <1>2, SourceLemma DEF MembersInv, Own
  <2>. QED BY <1>1, <2>1
<1>3. ASSUME NEW h \in Snapshots
      PROVE  Done(h, m.author) <= m.number
  <2>1. Done(h, Id(x)) <= Known(x, Id(x)) /\ Done(h, Id(x)) \in Nat
    BY SnapshotLemma DEF AgreeInv, Counts
  <2>. QED BY <1>1, <2>1
<1>4. ASSUME NEW g \in Sources, NEW i
      PROVE  Cell(g.nodes, i, m.author) <= m.number
  <2>1. Cell(g.nodes, i, Id(x)) <= Known(x, Id(x)) /\ Cell(g.nodes, i, Id(x)) \in Nat
    BY SourceLemma DEF AgreeInv, Counts
  <2>. QED BY <1>1, <2>1
<1>. QED BY <1>1, <1>2, <1>3, <1>4

(* An author and a number still mean one command.                            *)
LEMMA SameCommandStep ==
  ASSUME MembershipAssumption, MembersInv, MembersInv', AgreeInv, NEW e, NEW V, Step(e, V)
  PROVE  SameCommand'
<1>. SUFFICES ASSUME NEW g \in Sources', NEW h \in Sources', NEW m \in g.messages,
                     NEW n \in h.messages, m.author = n.author, m.number = n.number
              PROVE  m = n
  BY DEF SameCommand
<1>. DEFINE Old(k) == \E s \in Sources : k \in s.messages
            Made(k, x) == Present(x) /\ Created(k, x, core'[x], V) /\ k \in core'[x].messages
<1>1. /\ Old(m) \/ \E x \in Computers : Made(m, x)
      /\ Old(n) \/ \E x \in Computers : Made(n, x)
  BY MessageLemma
<1>2. m.number \in Nat /\ n.number \in Nat
  BY DEF MembersInv, SourcesOK, Commands, IsCommand
<1>3. CASE Old(m) /\ Old(n)
  BY <1>3 DEF AgreeInv, SameCommand
<1>4. CASE Old(m) /\ \E x \in Computers : Made(n, x)
  <2>1. m.number < n.number
    BY <1>2, <1>4, CreatedLemma
  <2>. QED BY <1>2, <2>1
<1>5. CASE Old(n) /\ \E x \in Computers : Made(m, x)
  <2>1. n.number < m.number
    BY <1>2, <1>5, CreatedLemma
  <2>. QED BY <1>2, <2>1
<1>6. CASE \E x, y \in Computers : Made(m, x) /\ Made(n, y)
  <2>1. PICK x \in Computers, y \in Computers : Made(m, x) /\ Made(n, y)
    BY <1>6
  <2>2. m.author = Id(x) /\ n.author = Id(y)
    BY <2>1 DEF Created
  <2>3. x = y
    BY <2>1, <2>2 DEF MembersInv, CoreOK
  <2>4. IsNode(core'[x])
    BY <2>1, GrowthLemma DEF Evolves
  <2>. QED BY <2>1, <2>3, <2>4 DEF IsNode, Commands, Single
<1>. QED BY <1>1, <1>3, <1>4, <1>5, <1>6

(* The node h, when it is p after it has executed the command m.              *)
Ran(h, p, m) ==
    /\ m.author \in Members(h) /\ m.number = Done(h, m.author)
    /\ \A a : Done(p, a) = IF a = m.author THEN Done(h, a) + 1 ELSE Done(h, a)
    /\ p.state = IF m.name = "other" THEN h.state \cup {<<m.author, m.number>>} ELSE h.state
    /\ m.name = "addnode" => m.val \in Members(p)

(* What of a snapshot is new is what the last command has done.               *)
LEMMA RanLemma ==
  ASSUME MembersInv, NEW h \in Snapshots, NEW p, Follows(h, p), NEW a, NEW k \in Nat,
         k < Done(p, a), ~(k < Done(h, a))
  PROVE  \E m \in h.messages : Ran(h, p, m) /\ m.author = a /\ m.number = k
<1>1. Done(h, a) \in Nat
  BY SnapshotLemma
<1>2. PICK m \in h.messages : Ran(h, p, m)
  BY DEF Follows, Ran
<1>3. m.author = a /\ Done(p, a) = Done(h, a) + 1 /\ m.number = Done(h, a)
  BY <1>1, <1>2 DEF Ran
<1>. QED BY <1>1, <1>2, <1>3

(* A snapshot has executed what it has counted, and nothing else.            *)
LEMMA ReflectsStep ==
  ASSUME MembershipAssumption, MembersInv, AgreeInv, NEW h \in Snapshots, NEW p, Follows(h, p),
         NEW g \in Sources, NEW m \in g.messages
  PROVE  Reflects(p, m)
<1>. SUFFICES ASSUME m.number < Done(p, m.author)
              PROVE  <<m.author, m.number>> \in p.state <=> m.name = "other"
  BY DEF Reflects
<1>. DEFINE a == m.author
            k == m.number
<1>1. k \in Nat /\ Done(h, a) \in Nat /\ h \in Sources
  BY SnapshotLemma, SourceLemma
<1>2. CASE k < Done(h, a)
  <2>1. <<a, k>> \in h.state <=> m.name = "other"
    BY <1>2 DEF AgreeInv, States, Reflects
  <2>2. CASE p.state = h.state
    BY <2>1, <2>2
  <2>3. CASE p.state # h.state
    <3>1. PICK n \in h.messages : Ran(h, p, n)
      BY <2>3 DEF Follows, Ran
    <3>2. n.author = a => n.number # k
      BY <1>1, <1>2, <3>1 DEF Ran
    <3>3. <<n.author, n.number>> # <<a, k>>
      BY <3>2
    <3>. QED BY <2>1, <3>1, <3>3 DEF Ran
  <2>. QED BY <2>2, <2>3
<1>3. CASE ~(k < Done(h, a))
  <2>1. PICK n \in h.messages : Ran(h, p, n) /\ n.author = a /\ n.number = k
    BY <1>1, <1>3, RanLemma
  <2>2. n = m
    BY <1>1, <2>1 DEF AgreeInv, SameCommand
  <2>3. <<a, k>> \notin h.state
    BY <1>3 DEF AgreeInv, States, Executed
  <2>. QED BY <2>1, <2>2, <2>3 DEF Ran
<1>. QED BY <1>2, <1>3

(* The states still say what was executed.                                   *)
LEMMA StatesStep ==
  ASSUME MembershipAssumption, MembersInv, MembersInv', AgreeInv, NEW e, NEW V, Step(e, V)
  PROVE  States'
<1>1. ASSUME NEW p \in Snapshots', NEW h \in Snapshots, Follows(h, p)
      PROVE  /\ Executed(p) /\ h.state \subseteq p.state
             /\ \A a : Done(h, a) <= Done(p, a)
             /\ \A s \in p.state \ h.state :
                  \E m \in h.messages : Ran(h, p, m) /\ m.name = "other" /\ s = <<m.author, m.number>>
  <2>1. /\ \A a : Done(h, a) \in Nat /\ \A m \in h.messages : m.number \in Nat
    BY SnapshotLemma
  <2>2. Executed(h)
    BY DEF AgreeInv, States
  <2>3. CASE p.state = h.state /\ \A a : Done(p, a) = Done(h, a)
    BY <2>1, <2>2, <2>3 DEF Executed
  <2>4. CASE \E m \in h.messages : Ran(h, p, m)
    <3>1. PICK m \in h.messages : Ran(h, p, m)
      BY <2>4
    <3>2. \A a : Done(h, a) <= Done(p, a)
      BY <2>1, <3>1 DEF Ran
    <3>3. /\ h.state \subseteq p.state
          /\ \A s \in p.state \ h.state : m.name = "other" /\ s = <<m.author, m.number>>
      BY <3>1 DEF Ran
    <3>4. Executed(p)
      <4>1. \A s \in p.state : \E a, k : s = <<a, k>>
        BY <2>2, <3>3 DEF Executed
      <4>2. ASSUME NEW a, NEW k, <<a, k>> \in p.state
            PROVE  k \in Nat /\ k < Done(p, a)
        <5>1. CASE <<a, k>> \in h.state
          <6>1. k \in Nat /\ k < Done(h, a)
            BY <2>2, <5>1 DEF Executed
          <6>2. Done(p, a) \in Nat
            BY <2>1, <3>1 DEF Ran
          <6>. QED BY <2>1, <3>2, <6>1, <6>2
        <5>2. CASE <<a, k>> \notin h.state
          <6>1. a = m.author /\ k = m.number
            BY <3>3, <4>2, <5>2
          <6>2. k = Done(h, a) /\ Done(p, a) = Done(h, a) + 1 /\ Done(h, a) \in Nat
            BY <2>1, <3>1, <6>1 DEF Ran
          <6>. QED BY <6>2
        <5>. QED BY <5>1, <5>2
      <4>. QED BY <4>1, <4>2 DEF Executed
    <3>. QED BY <3>1, <3>2, <3>3, <3>4, Zenon
  <2>5. \/ p.state = h.state /\ \A a : Done(p, a) = Done(h, a)
        \/ \E m \in h.messages : Ran(h, p, m)
    BY <1>1 DEF Follows, Ran
  <2>. QED BY <2>3, <2>4, <2>5
<1>2. \A p \in Snapshots' : Executed(p)
  BY <1>1, OriginLemma
<1>3. ASSUME NEW g \in Snapshots', NEW p \in Snapshots', NEW a, NEW k,
             <<a, k>> \in g.state, k < Done(p, a)
      PROVE  <<a, k>> \in p.state
  <2>1. PICK y \in Snapshots : Follows(y, g)
    BY OriginLemma
  <2>2. PICK h \in Snapshots : Follows(h, p)
    BY OriginLemma
  <2>3. k \in Nat /\ h \in Sources /\ y \in Sources
    BY <1>2, <1>3, SnapshotLemma DEF Executed
  <2>4. CASE <<a, k>> \in y.state
    <3>1. CASE k < Done(h, a)
      <4>1. <<a, k>> \in h.state
        BY <2>4, <3>1 DEF AgreeInv, States, SameState
      <4>. QED BY <1>1, <2>2, <4>1
    <3>2. CASE ~(k < Done(h, a))
      <4>1. PICK m \in h.messages : m.author = a /\ m.number = k
        BY <1>3, <2>2, <2>3, <3>2, RanLemma
      <4>2. k < Done(y, a)
        BY <2>4 DEF AgreeInv, States, Executed
      <4>3. m.name = "other"
        BY <2>3, <2>4, <4>1, <4>2 DEF AgreeInv, States, Reflects
      <4>4. Reflects(p, m)
        BY <2>2, <2>3, ReflectsStep
      <4>. QED BY <1>3, <4>1, <4>3, <4>4 DEF Reflects
    <3>. QED BY <3>1, <3>2
  <2>5. CASE <<a, k>> \notin y.state
    <3>1. PICK m \in y.messages : m.name = "other" /\ <<a, k>> = <<m.author, m.number>>
      BY <1>1, <1>3, <2>1, <2>5
    <3>2. a = m.author /\ k = m.number
      BY <3>1
    <3>3. Reflects(p, m)
      BY <2>2, <2>3, ReflectsStep
    <3>. QED BY <1>3, <3>1, <3>2, <3>3 DEF Reflects
  <2>. QED BY <2>4, <2>5
<1>4. ASSUME NEW p \in Snapshots', NEW g \in Sources', NEW m \in g.messages
      PROVE  Reflects(p, m)
  <2>1. PICK h \in Snapshots : Follows(h, p)
    BY OriginLemma
  <2>2. CASE \E y \in Sources : m \in y.messages
    BY <2>1, <2>2, ReflectsStep
  <2>3. CASE \E x \in Computers : Present(x) /\ Created(m, x, core'[x], V)
    <3>1. m.number \in Nat
      BY DEF MembersInv, SourcesOK, Commands, IsCommand
    <3>2. /\ Done(h, m.author) <= m.number /\ Done(h, m.author) \in Nat
          /\ \A k \in h.messages : k.author = m.author => k.number < m.number
      BY <2>3, <3>1, CreatedLemma, SnapshotLemma
    <3>3. ~(m.number < Done(p, m.author))
      <4>. SUFFICES ASSUME m.number < Done(p, m.author) PROVE FALSE
        OBVIOUS
      <4>1. PICK k \in h.messages : k.author = m.author /\ k.number = m.number
        BY <2>1, <3>1, <3>2, RanLemma
      <4>. QED BY <3>1, <3>2, <4>1
    <3>. QED BY <3>3 DEF Reflects
  <2>. QED BY <2>2, <2>3, MessageLemma
<1>. QED BY <1>2, <1>3, <1>4 DEF States, SameState

(* The command that has made somebody a member stays the one that has.        *)
LEMMA TellsStep ==
  ASSUME MembershipAssumption, MembersInv, MembersInv', AgreeInv, NEW e, NEW V, Step(e, V),
         NEW c \in Computers, Present(c), NEW x \in Computers, NEW k, Tells(x, k, c)
  PROVE  Tells(x, k, c)'
<1>1. /\ Working(x) /\ k \in Nat /\ k < Known(x, Id(x))
      /\ core[c].status = "part_init" => Known(c, Id(x)) <= k
      /\ \A h \in Snapshots : k < Done(h, Id(x)) => Id(c) \in Members(h)
      /\ \A h \in Sources : \A m \in h.messages :
             m.author = Id(x) /\ m.number = k => m.name = "addnode" /\ m.val = Id(c)
  BY DEF Tells
<1>2. Present(x)
  BY <1>1, PresentLemma
<1>3. /\ Id(c)' = Id(c) /\ Id(x)' = Id(x) /\ Working(x)'
  BY <1>1, <1>2, GrowthLemma
<1>4. k < Known(x, Id(x))'
  <2>1. \A a : Known(x, a) \in Nat /\ Has(core'[x], a) \in Nat /\ Known(x, a) <= Has(core'[x], a)
    BY <1>2, GrowthLemma DEF Known
  <2>2. Known(x, Id(x))' = Has(core'[x], Id(x))
    BY <1>3 DEF Known
  <2>. QED BY <1>1, <2>1, <2>2
<1>5. core'[c].status = "part_init" => Known(c, Id(x))' <= k
  <2>. SUFFICES ASSUME core'[c].status = "part_init" PROVE Known(c, Id(x))' <= k
    OBVIOUS
  <2>1. Evolves(c, core'[c], V)
    BY GrowthLemma
  <2>2. core[c].status = "part_init" /\ \A a : Has(core'[c], a) = Has(core[c], a)
    BY <2>1 DEF Evolves
  <2>. QED BY <1>1, <1>3, <2>2 DEF Known
<1>6. ASSUME NEW p \in Snapshots', k < Done(p, Id(x))
      PROVE  Id(c) \in Members(p)
  <2>1. PICK h \in Snapshots : Follows(h, p) /\ Members(h) \subseteq Members(p)
    BY OriginLemma
  <2>2. CASE k < Done(h, Id(x))
    BY <1>1, <2>1, <2>2
  <2>3. CASE ~(k < Done(h, Id(x)))
    <3>1. PICK m \in h.messages : Ran(h, p, m) /\ m.author = Id(x) /\ m.number = k
      BY <1>1, <1>6, <2>1, <2>3, RanLemma
    <3>2. m.name = "addnode" /\ m.val = Id(c)
      BY <1>1, <3>1, SnapshotLemma
    <3>. QED BY <3>1, <3>2 DEF Ran
  <2>. QED BY <2>2, <2>3
<1>7. ASSUME NEW h \in Sources', NEW m \in h.messages, m.author = Id(x), m.number = k
      PROVE  m.name = "addnode" /\ m.val = Id(c)
  <2>1. CASE \E g \in Sources : m \in g.messages
    BY <1>1, <1>7, <2>1
  <2>2. CASE \E y \in Computers : Present(y) /\ Created(m, y, core'[y], V)
    <3>1. PICK y \in Computers : Present(y) /\ Created(m, y, core'[y], V)
      BY <2>2
    <3>2. Id(y) = Id(x) /\ Known(y, Id(y)) <= k
      BY <1>1, <1>7, <3>1, CreatedLemma
    <3>3. y = x
      BY <1>2, <3>1, <3>2 DEF MembersInv, CoreOK
    <3>4. Known(x, Id(x)) \in Nat
      BY <1>2, GrowthLemma
    <3>. QED BY <1>1, <3>2, <3>3, <3>4
  <2>. QED BY <2>1, <2>2, MessageLemma
<1>. QED BY <1>1, <1>3, <1>4, <1>5, <1>6, <1>7 DEF Tells

(* The command that welcomes c makes it a member.                            *)
LEMMA WelcomingLemma ==
  ASSUME MembershipAssumption, MembersInv, MembersInv', AgreeInv, SameCommand',
         NEW e, NEW V, Step(e, V), \A m : IsAddNode(m) => m.val \notin V,
         NEW c \in Computers, Present(c)', Id(c)' \in V,
         NEW i \in Computers, Working(i)', Welcoming(i, c)'
  PROVE  \E x \in Computers : \E k : Tells(x, k, c)'
<1>1. PICK m \in core'[i].messages : m.author = Id(i)' /\ m.name = "addnode" /\ m.val = Id(c)'
  BY DEF Welcoming, Welcome
<1>2. Present(i)' /\ core'[i] \in Snapshots' /\ core'[i] \in Sources'
  BY DEF Working, Present, Snapshots, Sources
<1>3. IsAddNode(m)'
  BY <1>1, <1>2 DEF IsAddNode
<1>4. PICK x \in Computers : Created(m, x, core'[x], V)
  BY <1>1, <1>3, AddNodeLemma DEF IsAddNode
<1>5. m.number \in Nat /\ m.author \in Ids
  <2>1. IsNode(core'[i])
    BY <1>2 DEF MembersInv, SourcesOK
  <2>. QED BY <1>1, <2>1, NodeLemma DEF IsNode, Commands, IsCommand, Members
<1>6. m.author = Id(x) /\ Present(x)
  <2>1. m.author = Id(x)
    BY <1>4 DEF Created
  <2>2. Id(x) # NoId
    BY <1>5, <2>1 DEF MembershipAssumption
  <2>3. core[x] # Blank
    BY <2>2 DEF Id, Blank
  <2>. QED BY <2>1, <2>3, PresentLemma
<1>7. x = i /\ Id(x)' = Id(x)
  <2>1. Present(x)' /\ Id(x)' = Id(x)
    BY <1>6, GrowthLemma
  <2>. QED BY <1>1, <1>2, <1>6, <2>1 DEF MembersInv, CoreOK
<1>8. /\ \A h \in Snapshots : Done(h, m.author) <= m.number
      /\ \A g \in Sources : \A j : Cell(g.nodes, j, m.author) <= m.number
      /\ \A g \in Sources : \A k \in g.messages : k.author = m.author => k.number < m.number
  BY <1>4, <1>5, <1>6, CreatedLemma
<1>. DEFINE k == m.number
<1>9. k < Known(x, Id(x))'
  BY <1>1, <1>2, <1>7 DEF MembersInv, Own
<1>10. core'[c].status = "part_init" => Known(c, Id(x))' <= k
  <2>. SUFFICES ASSUME core'[c].status = "part_init" PROVE Has(core'[c], m.author) <= k
    BY <1>6, <1>7 DEF Known
  <2>1. CASE Present(c)
    <3>1. Evolves(c, core'[c], V) /\ core[c] \in Sources
      BY <2>1, GrowthLemma, PresentLemma
    <3>2. Has(core'[c], m.author) = Has(core[c], m.author)
      BY <3>1 DEF Evolves
    <3>. QED BY <1>8, <3>1, <3>2 DEF Has
  <2>2. CASE ~Present(c)
    <3>1. Joins(core'[c], V)
      BY <2>2, NewcomerLemma
    <3>2. PICK h \in Snapshots : \A a : Has(core'[c], a) = Has(h, a)
      BY <3>1 DEF Joins
    <3>. QED BY <1>8, <3>2, SnapshotLemma DEF Has
  <2>. QED BY <2>1, <2>2
<1>11. ASSUME NEW p \in Snapshots', k < Done(p, m.author)
       PROVE  FALSE
  <2>1. PICK h \in Snapshots : Follows(h, p)
    BY OriginLemma
  <2>2. Done(h, m.author) <= k /\ Done(h, m.author) \in Nat /\ h \in Sources
    BY <1>8, SnapshotLemma
  <2>3. ~(k < Done(h, m.author))
    BY <1>5, <2>2
  <2>4. PICK n \in h.messages : n.author = m.author /\ n.number = k
    BY <1>5, <1>11, <2>1, <2>3, RanLemma
  <2>. QED BY <1>5, <1>8, <2>2, <2>4
<1>12. \A h \in Sources' : \A n \in h.messages :
           n.author = m.author /\ n.number = k => n.name = "addnode" /\ n.val = Id(c)'
  BY <1>1, <1>2 DEF SameCommand
<1>13. Working(x)' /\ Id(x)' = m.author
  BY <1>6, <1>7
<1>. HIDE DEF k
<1>14. Tells(x, k, c)'
  BY <1>5, <1>9, <1>10, <1>11, <1>12, <1>13 DEF Tells, k
<1>. QED BY <1>14

(* Who is spoken of has become a member by a command.                        *)
LEMMA HeardStep ==
  ASSUME MembershipAssumption, MembersInv, MembersInv', AgreeInv, SameCommand',
         NEW e, NEW V, Step(e, V), Welcomed(V)
  PROVE  Heard'
<1>. SUFFICES ASSUME NEW c \in Computers, Present(c)', c \notin left'.founders, Announced(c)'
              PROVE  \E x \in Computers : \E k : Tells(x, k, c)'
  BY DEF Heard
<1>1. CASE Id(c)' \in V
  <2>1. PICK i \in Computers : Invited(i, c)' /\ Welcoming(i, c)'
    BY <1>1 DEF Welcomed
  <2>2. Working(i)' /\ \A m : IsAddNode(m) => m.val \notin V
    BY <2>1 DEF Invited, Welcomed
  <2>. QED BY <1>1, <2>1, <2>2, WelcomingLemma
<1>2. CASE Id(c)' \notin V
  <2>1. Present(c) /\ Announced(c) /\ c \notin left.founders
    <3>1. left'.founders = left.founders
      BY DEF Step
    <3>. QED BY <1>2, <3>1, AnnouncedLemma
  <2>2. PICK x \in Computers : \E k : Tells(x, k, c)
    BY <2>1 DEF AgreeInv, Heard
  <2>3. PICK k : Tells(x, k, c)
    BY <2>2
  <2>4. Tells(x, k, c)'
    BY <2>1, <2>3, TellsStep
  <2>. QED BY <2>4
<1>. QED BY <1>1, <1>2

(* The invariant of the counters and states is kept.                         *)
LEMMA AgreeStep ==
  ASSUME MembershipAssumption, MembersInv, MembersInv', AgreeInv, Moves
  PROVE  AgreeInv'
<1>1. PICK e, V : Step(e, V) /\ Welcomed(V)
  BY DEF Moves
<1>2. NoLog' /\ Everybody' /\ Counts' /\ SameCommand' /\ States'
  BY <1>1, EverybodyStep, CountsStep, SameCommandStep, StatesStep
<1>3. Heard'
  BY <1>1, <1>2, HeardStep
<1>. QED BY <1>2, <1>3 DEF AgreeInv

(* At the start the counters are 0 and the states empty.                     *)
LEMMA AgreeInitLemma ==
  ASSUME MembershipAssumption, MembersInv, Beginning
  PROVE  AgreeInv
<1>1. \A c \in Computers : Present(c) => \A a : Known(c, a) \in Nat
  BY PresentLemma, NodeLemma DEF Known
<1>2. NoLog
  BY DEF Beginning, NoLog
<1>3. Everybody
  BY DEF Beginning, Everybody, MembersInv, Roots, PlanOK
<1>4. Counts
  BY <1>1 DEF Beginning, Counts
<1>5. Heard
  BY DEF Beginning, Heard
<1>6. SameCommand
  BY DEF Beginning, SameCommand
<1>7. States
  <2>1. \A h \in Snapshots : h.state = {}
    BY DEF Beginning
  <2>2. \A h \in Sources : h.messages = {}
    BY DEF Beginning
  <2>. QED BY <2>1, <2>2 DEF States, Executed, SameState
<1>. QED BY <1>2, <1>3, <1>4, <1>5, <1>6, <1>7 DEF AgreeInv

(* Without commands all working nodes know of equally many.                  *)
LEMMA EqualLemma ==
  ASSUME MembershipAssumption, MembersInv,
         \A x \in Computers : Working(x) => core[x].messages = {},
         NEW c \in Computers, NEW d \in Computers, Working(c), Working(d), NEW a
  PROVE  Known(d, a) <= Known(c, a)
<1>0. \A x \in Computers : Working(x) => /\ Present(x) /\ IsNode(core[x]) /\ Id(x) \in Nat
                                         /\ core[x] \in Snapshots /\ Known(x, a) \in Nat
  BY PresentLemma, NodeLemma DEF Known, MembersInv, CoreOK, MembershipAssumption
<1>. SUFFICES ASSUME ~(Known(d, a) <= Known(c, a)) PROVE FALSE
  OBVIOUS
<1>. DEFINE k == Known(c, a)
<1>1. k \in Nat /\ k < Known(d, a)
  <2>1. Known(c, a) \in Nat /\ Known(d, a) \in Nat
    BY <1>0
  <2>. QED BY <2>1
<1>2. \A x \in Computers : Working(x) => ~Stored(core[x], a, k)
  BY DEF Stored
<1>. DEFINE S == {Id(x) : x \in {y \in Computers : Working(y) /\ Known(y, a) <= k}}
<1>3. Id(c) \in S /\ S \subseteq Nat
  BY <1>0, <1>1
<1>4. PICK s \in S : \A t \in S : s <= t
  <2>. HIDE DEF S
  <2>. QED BY <1>3, SmallestLemma
<1>5. PICK e \in Computers : Working(e) /\ Known(e, a) <= k /\ Id(e) = s
  OBVIOUS
<1>6. CASE e \in left.founders
  <2>1. Kept(core[d], e)
    BY <1>0, <1>6 DEF MembersInv, Roots
  <2>2. Stored(core[d], a, k)
    BY <1>1, <1>5, <2>1 DEF Kept, Known
  <2>. QED BY <1>2, <2>2
<1>7. CASE e \notin left.founders
  <2>1. PICK i \in Computers : Invited(i, e)
    BY <1>0, <1>5, <1>7 DEF MembersInv, Chain, Announced
  <2>2. Working(i) /\ Id(i) < Id(e) /\ Kept(core[i], e)
    BY <2>1 DEF Invited
  <2>3. k < Known(i, a)
    <3>1. Id(i) \notin S
      BY <1>0, <1>4, <1>5, <2>2
    <3>2. ~(Known(i, a) <= k)
      BY <2>2, <3>1
    <3>. QED BY <1>0, <1>1, <2>2, <3>2
  <2>4. Stored(core[i], a, k)
    BY <1>1, <1>5, <2>2, <2>3 DEF Kept, Known
  <2>. QED BY <1>2, <2>2, <2>4
<1>. QED BY <1>6, <1>7

(* When nothing is left to tell: the members of a node are those that work,   *)
(* and it has executed all commands of which any of them knows.              *)
LEMMA SilentLemma ==
  ASSUME MembershipAssumption, MembersInv, AgreeInv, Silent
  PROVE  /\ Peers = {x \in Computers : Working(x)}
         /\ \A c, d \in Peers : \A a : Known(c, a) = Known(d, a)
         /\ \A c \in Peers : /\ IsNode(core[c]) /\ core[c] \in Snapshots
                             /\ Members(core[c]) = PeerIds
                             /\ \A a \in PeerIds : Done(core[c], a) = Known(c, a)
<1>1. Peers = {x \in Computers : Working(x)}
  <2>1. \A d \in Computers : core[d].log = {}
    <3>. TAKE d \in Computers
    <3>1. Blank.log = {}
      BY DEF Blank
    <3>. QED BY <3>1, PresentLemma DEF AgreeInv, NoLog
  <2>. QED BY <2>1 DEF Peers, Removed
<1>2. \A x \in Computers : Working(x) => core[x].messages = {}
  BY <1>1 DEF Silent
<1>3. \A x \in Computers : Working(x) => /\ Present(x) /\ IsNode(core[x]) /\ core[x] \in Snapshots
                                         /\ core[x] \in Spoken /\ Unexecuted(core[x])
                                         /\ \A a : Known(x, a) \in Nat /\ Done(core[x], a) \in Nat
  BY PresentLemma, NodeLemma DEF Known
<1>4. ASSUME NEW c \in Computers, NEW d \in Computers, Working(c), Working(d), NEW a
      PROVE  Known(c, a) = Known(d, a)
  <2>1. Known(d, a) <= Known(c, a) /\ Known(c, a) <= Known(d, a)
    BY <1>2, <1>4, EqualLemma
  <2>. QED BY <1>3, <1>4, <2>1
<1>5. ASSUME NEW c \in Computers, Working(c), NEW a
      PROVE  Known(c, a) <= Done(core[c], a)
  <2>. SUFFICES ASSUME ~(Known(c, a) <= Done(core[c], a)) PROVE FALSE
    OBVIOUS
  <2>1. Stored(core[c], a, Done(core[c], a))
    BY <1>3, <1>5 DEF Unexecuted, Known
  <2>. QED BY <1>2, <1>5, <2>1 DEF Stored
(* Nobody is spoken of who still waits for a packet. *)
<1>6. ASSUME NEW c \in Computers, Present(c), Announced(c)
      PROVE  Working(c)
  <2>. SUFFICES ASSUME ~Working(c) PROVE FALSE
    OBVIOUS
  <2>1. core[c].status = "part_init"
    BY <1>6, PresentLemma
  <2>2. c \notin left.founders
    BY <1>6, <2>1 DEF MembersInv, PartInit, InvitesOK
  <2>3. PICK x \in Computers : \E k : Tells(x, k, c)
    BY <1>6, <2>2 DEF AgreeInv, Heard
  <2>4. PICK k : Tells(x, k, c)
    BY <2>3
  <2>5. Working(x) /\ k \in Nat /\ k < Known(x, Id(x)) /\ Known(c, Id(x)) <= k
    BY <2>1, <2>4 DEF Tells
  <2>6. PICK i \in Computers : Invited(i, c)
    BY <1>6, <2>2 DEF MembersInv, Chain
  <2>7. Working(i) /\ Kept(core[i], c)
    BY <2>6 DEF Invited
  <2>8. k < Has(core[i], Id(x))
    BY <1>4, <2>5, <2>7 DEF Known
  <2>9. Stored(core[i], Id(x), k)
    BY <2>5, <2>7, <2>8 DEF Kept
  <2>. QED BY <1>2, <2>7, <2>9 DEF Stored
<1>7. ASSUME NEW c \in Computers, Working(c)
      PROVE  Members(core[c]) \subseteq PeerIds
  <2>. SUFFICES ASSUME NEW a \in Members(core[c]) PROVE a \in PeerIds
    OBVIOUS
  <2>1. a \in drawn /\ a \in Names(core[c]) /\ core[c] \in Spoken
    BY <1>3, <1>7, SnapshotLemma DEF Names, Members
  <2>2. PICK x \in Computers : Present(x) /\ Id(x) = a
    BY <2>1 DEF AgreeInv, Everybody
  <2>3. Working(x)
    BY <1>6, <2>1, <2>2 DEF Announced
  <2>. QED BY <1>1, <2>2, <2>3 DEF PeerIds, Id
<1>8. ASSUME NEW c \in Computers, Working(c), NEW a \in PeerIds
      PROVE  Done(core[c], a) = Known(c, a)
  <2>1. PICK x \in Computers : Working(x) /\ Id(x) = a
    BY <1>1, <1>8 DEF PeerIds, Id
  <2>2. Done(core[c], a) <= Known(x, a)
    BY <1>3, <1>8, <2>1 DEF AgreeInv, Counts
  <2>3. Known(x, a) = Known(c, a) /\ Known(c, a) <= Done(core[c], a)
    BY <1>4, <1>5, <1>8, <2>1
  <2>4. Done(core[c], a) \in Nat /\ Known(c, a) \in Nat
    BY <1>3, <1>8
  <2>. QED BY <2>2, <2>3, <2>4
<1>9. ASSUME NEW c \in Computers, Working(c)
      PROVE  PeerIds \subseteq Members(core[c])
  <2>. SUFFICES ASSUME NEW d \in Computers, Working(d) PROVE Id(d) \in Members(core[c])
    BY <1>1 DEF PeerIds, Id
  <2>1. CASE d \in left.founders
    BY <1>3, <1>9, <2>1 DEF MembersInv, Roots
  <2>2. CASE d \notin left.founders
    <3>1. PICK x \in Computers : \E k : Tells(x, k, d)
      BY <1>3, <2>2 DEF AgreeInv, Heard, Announced
    <3>2. PICK k : Tells(x, k, d)
      BY <3>1
    <3>3. /\ Working(x) /\ k \in Nat /\ k < Known(x, Id(x))
          /\ k < Done(core[c], Id(x)) => Id(d) \in Members(core[c])
      BY <1>3, <1>9, <3>2 DEF Tells
    <3>4. Id(x) \in PeerIds
      BY <1>1, <3>3 DEF PeerIds, Id
    <3>5. Done(core[c], Id(x)) = Known(c, Id(x)) /\ Known(c, Id(x)) = Known(x, Id(x))
      BY <1>4, <1>8, <1>9, <3>3, <3>4
    <3>. QED BY <3>3, <3>5
  <2>. QED BY <2>1, <2>2
<1>. QED BY <1>1, <1>3, <1>4, <1>7, <1>8, <1>9

(* What the properties say of the end.                                       *)
LEMMA AgreeLemma ==
  ASSUME MembershipAssumption, MembersInv, AgreeInv
  PROVE  MembersAgree /\ CommandsExecuted
<1>. SUFFICES ASSUME Silent PROVE MembersAgree /\ CommandsExecuted
  BY DEF MembersAgree, CommandsExecuted
<1>1. /\ \A c, d \in Peers : \A a : Known(c, a) = Known(d, a)
      /\ \A c \in Peers : /\ IsNode(core[c]) /\ core[c] \in Snapshots
                          /\ Members(core[c]) = PeerIds
                          /\ \A a \in PeerIds : Done(core[c], a) = Known(c, a)
  BY SilentLemma
<1>2. \A c \in Peers : \A a \in PeerIds :
          /\ Row(core[c])[a] = Known(c, a)
          /\ core[c].nodes[a].command_to_exec = Done(core[c], a)
  BY <1>1, NodeLemma DEF Known, Done
<1>3. MembersAgree
  BY <1>1, <1>2 DEF MembersAgree
<1>4. CommandsExecuted
  <2>. SUFFICES ASSUME NEW c \in Peers, NEW d \in Peers, NEW m \in core[c].state, m[1] \in PeerIds
                PROVE  m \in core[d].state
    BY DEF CommandsExecuted
  <2>1. core[c] \in Snapshots /\ core[d] \in Snapshots
    BY <1>1
  <2>2. PICK a, k : m = <<a, k>>
    BY <2>1 DEF AgreeInv, States, Executed
  <2>3. a \in PeerIds
    BY <2>2
  <2>4. k < Done(core[c], a)
    BY <2>1, <2>2 DEF AgreeInv, States, Executed
  <2>5. Done(core[d], a) = Done(core[c], a)
    BY <1>1, <2>3
  <2>. QED BY <2>1, <2>2, <2>4, <2>5 DEF AgreeInv, States, SameState
<1>. QED BY <1>3, <1>4

(* In those plans the invariant AgreeInv is true in every state, too.        *)
THEOREM AgreeInvariance == GroupSpec /\ Joining => []AgreeInv
<1>1. GroupInit /\ Joining => AgreeInv
  BY MembershipAssumption, InitLemma, AgreeInitLemma
<1>2. MembersInv /\ AgreeInv /\ [GroupNext]_gvars => AgreeInv'
  BY MembershipAssumption, StepsLemma, AgreeStep
<1>. QED BY <1>1, <1>2, MembersInvariance, PTL DEF GroupSpec

(* The members of a group that has nothing left to tell: whoever has joined,  *)
(* over the network or with an invite file, is a member everywhere, nobody is *)
(* a member who does not work, and all know and have executed equally many    *)
(* commands of each.                                                         *)
THEOREM MembersEndUpTheSame == GroupSpec /\ Joining => []MembersAgree
<1>1. MembersInv /\ AgreeInv => MembersAgree
  BY MembershipAssumption, AgreeLemma
<1>. QED BY <1>1, MembersInvariance, AgreeInvariance, PTL

(* And what they have executed is the same, before or after they joined.      *)
THEOREM CommandsReachEverybody == GroupSpec /\ Joining => []CommandsExecuted
<1>1. MembersInv /\ AgreeInv => CommandsExecuted
  BY MembershipAssumption, AgreeLemma
<1>. QED BY <1>1, MembersInvariance, AgreeInvariance, PTL

-----------------------------------------------------------------------------
(* LocalSessions                                                              *)

(* At the start the list is empty and there is no session. *)
LEMMA InitInv == Init => SessionsInv
<1> SUFFICES ASSUME Init PROVE SessionsInv
  OBVIOUS
<1> USE ThreadsAssumption, SignalsAssumption DEF Init
<1>1. AlarmTypeOK
  BY DEF AlarmInit, AlarmTypeOK
<1>2. pc \in [Threads -> MainPlaces \cup SessionPlaces]
  BY DEF MainPlaces, SessionPlaces
<1>3. TypeOK
  <2>1. /\ stop \in [Sessions -> BOOLEAN] /\ errno \in [Sessions -> BOOLEAN]
        /\ interrupted \in [Sessions -> BOOLEAN]
        /\ thr_id \in [Sessions -> Threads \cup {NoThread}]
    OBVIOUS
  <2>2. /\ request \in [Sessions -> {"none", "line", "exit", "eof"}]
        /\ client \in [Sessions -> {"none", "idle", "waiting", "closed"}]
    OBVIOUS
  <2>3. usl \subseteq Sessions /\ signals \in 0 .. MaxSignals
    OBVIOUS
  <2> QED BY <1>1, <1>2, <2>3 DEF TypeOK
<1>4. AlarmGoesOn /\ AlarmedIsDestroyed
  BY DEF AlarmInit, AlarmGoesOn, AlarmedIsDestroyed, Destroying
<1>5. ThreadIds
  BY DEF ThreadIds
<1> QED BY <1>3, <1>4, <1>5 DEF SessionsInv

(* The main thread looks at prog_status. *)
LEMMA StepLoop ==
  ASSUME SessionsInv, Loop
  PROVE  SessionsInv'
<1> USE ThreadsAssumption, SignalsAssumption DEF Loop, At, GoTo, Sessions, alarmvars, mainvars, sessionvars
<1>1. TypeOK /\ AlarmGoesOn /\ ThreadIds /\ AlarmedIsDestroyed
  BY DEF SessionsInv
<1>2. TypeOK'
  BY <1>1 DEF TypeOK, AlarmTypeOK, MainPlaces, SessionPlaces
<1>3. AlarmGoesOn'
  BY <1>1 DEF AlarmGoesOn
<1>4. ThreadIds'
  BY <1>1 DEF ThreadIds
<1>5. AlarmedIsDestroyed'
  BY <1>1 DEF AlarmedIsDestroyed, Destroying
<1> QED BY <1>2, <1>3, <1>4, <1>5 DEF SessionsInv

(* It is about to wait. *)
LEMMA StepCallPoll ==
  ASSUME SessionsInv, Call(Main, "polling", "poll")
  PROVE  SessionsInv'
<1> USE ThreadsAssumption, SignalsAssumption DEF Call, At, GoTo, Sessions, alarmvars, mainvars, sessionvars
<1>1. TypeOK /\ AlarmGoesOn /\ ThreadIds /\ AlarmedIsDestroyed
  BY DEF SessionsInv
<1>2. TypeOK'
  BY <1>1 DEF TypeOK, AlarmTypeOK, MainPlaces, SessionPlaces
<1>3. AlarmGoesOn'
  BY <1>1 DEF AlarmGoesOn
<1>4. ThreadIds'
  BY <1>1 DEF ThreadIds
<1>5. AlarmedIsDestroyed'
  BY <1>1 DEF AlarmedIsDestroyed, Destroying
<1> QED BY <1>2, <1>3, <1>4, <1>5 DEF SessionsInv

(* A session is about to wait. *)
LEMMA StepCallRead ==
  ASSUME SessionsInv, NEW s \in Sessions, Call(s, "reading", "read")
  PROVE  SessionsInv'
<1> USE ThreadsAssumption, SignalsAssumption DEF Call, At, GoTo, Sessions, alarmvars, mainvars, sessionvars
<1>1. TypeOK /\ AlarmGoesOn /\ ThreadIds /\ AlarmedIsDestroyed
  BY DEF SessionsInv
<1>2. TypeOK'
  BY <1>1 DEF TypeOK, AlarmTypeOK, SessionPlaces
<1>3. AlarmGoesOn'
  BY <1>1 DEF AlarmGoesOn
<1>4. ThreadIds'
  BY <1>1 DEF ThreadIds
<1>5. AlarmedIsDestroyed'
  BY <1>1 DEF AlarmedIsDestroyed
<1> QED BY <1>2, <1>3, <1>4, <1>5 DEF SessionsInv

(* The main thread takes itself off the list, on which no session is while it polls. *)
LEMMA StepPollInterrupted ==
  ASSUME SessionsInv, PollInterrupted
  PROVE  SessionsInv'
<1> USE ThreadsAssumption, SignalsAssumption DEF PollInterrupted, At, GoTo, Sessions, alarmvars, mainvars, sessionvars, AlarmThread, AlarmThreadEnd, AlarmStop, AlarmStopEnd, Lock, Unlock, Interrupt, Blocked
<1>1. TypeOK /\ AlarmGoesOn /\ ThreadIds /\ AlarmedIsDestroyed
  BY DEF SessionsInv
<1>2. TypeOK'
  BY <1>1 DEF TypeOK, AlarmTypeOK, MainPlaces, SessionPlaces
<1>3. AlarmGoesOn'
  BY <1>1 DEF AlarmGoesOn, TypeOK, AlarmTypeOK
<1>4. ThreadIds'
  BY <1>1 DEF ThreadIds, TypeOK
<1>5. AlarmedIsDestroyed'
  <2>1. pc[Main] = "poll" /\ pc'[Main] \in {"loop", "alarm_stop self"}
    BY <1>1 DEF TypeOK
  <2>2. \A s \in Sessions : s \notin thrs'
    BY <1>1, <2>1 DEF AlarmedIsDestroyed, Destroying
  <2> QED BY <2>1, <2>2 DEF AlarmedIsDestroyed, Destroying
<1> QED BY <1>2, <1>3, <1>4, <1>5 DEF SessionsInv

(* alarm_stop() makes up for an alarm that was dropped. *)
LEMMA StepAlarmStopSelf ==
  ASSUME SessionsInv, AlarmStopSelf
  PROVE  SessionsInv'
<1> USE ThreadsAssumption, SignalsAssumption DEF AlarmStopSelf, At, GoTo, Sessions, alarmvars, mainvars, sessionvars, AlarmThread, AlarmThreadEnd, AlarmStop, AlarmStopEnd, Lock, Unlock, Interrupt, Blocked
<1>1. TypeOK /\ AlarmGoesOn /\ ThreadIds /\ AlarmedIsDestroyed
  BY DEF SessionsInv
<1>2. TypeOK'
  BY <1>1 DEF TypeOK, AlarmTypeOK, MainPlaces, SessionPlaces
<1>3. AlarmGoesOn'
  BY <1>1 DEF AlarmGoesOn, TypeOK, AlarmTypeOK
<1>4. ThreadIds'
  BY <1>1 DEF ThreadIds, TypeOK
<1>5. AlarmedIsDestroyed'
  BY <1>1 DEF AlarmedIsDestroyed, ThreadIds, Destroying, TypeOK, AlarmTypeOK
<1> QED BY <1>2, <1>3, <1>4, <1>5 DEF SessionsInv

(* alarm_thread() ends: the alarm is under way. *)
LEMMA StepAlarmSession ==
  ASSUME SessionsInv, AlarmSession
  PROVE  SessionsInv'
<1> USE ThreadsAssumption, SignalsAssumption DEF AlarmSession, At, GoTo, Sessions, alarmvars, mainvars, sessionvars, AlarmThread, AlarmThreadEnd, AlarmStop, AlarmStopEnd, Lock, Unlock, Interrupt, Blocked
<1>1. TypeOK /\ AlarmGoesOn /\ ThreadIds /\ AlarmedIsDestroyed
  BY DEF SessionsInv
<1>2. TypeOK'
  BY <1>1 DEF TypeOK, AlarmTypeOK, MainPlaces, SessionPlaces
<1>3. AlarmGoesOn'
  BY DEF AlarmGoesOn
<1>4. ThreadIds'
  BY <1>1 DEF ThreadIds
<1>5. AlarmedIsDestroyed'
  BY <1>1 DEF AlarmedIsDestroyed, Destroying
<1> QED BY <1>2, <1>3, <1>4, <1>5 DEF SessionsInv

(* The destructor has waited for its thread. *)
LEMMA StepJoin ==
  ASSUME SessionsInv, Join
  PROVE  SessionsInv'
<1> USE ThreadsAssumption, SignalsAssumption DEF Join, At, GoTo, Sessions, alarmvars, mainvars, sessionvars
<1>1. TypeOK /\ AlarmGoesOn /\ ThreadIds /\ AlarmedIsDestroyed
  BY DEF SessionsInv
<1>2. TypeOK'
  BY <1>1 DEF TypeOK, AlarmTypeOK, MainPlaces, SessionPlaces
<1>3. AlarmGoesOn'
  BY <1>1 DEF AlarmGoesOn
<1>4. ThreadIds'
  BY <1>1 DEF ThreadIds
<1>5. AlarmedIsDestroyed'
  BY <1>1 DEF AlarmedIsDestroyed, Destroying
<1> QED BY <1>2, <1>3, <1>4, <1>5 DEF SessionsInv

(* The thread that was joined is taken off the list: what the destructor put there. *)
LEMMA StepStopAlarm ==
  ASSUME SessionsInv, StopAlarm
  PROVE  SessionsInv'
<1> USE ThreadsAssumption, SignalsAssumption DEF StopAlarm, At, GoTo, Sessions, alarmvars, mainvars, sessionvars, AlarmThread, AlarmThreadEnd, AlarmStop, AlarmStopEnd, Lock, Unlock, Interrupt, Blocked
<1>1. TypeOK /\ AlarmGoesOn /\ ThreadIds /\ AlarmedIsDestroyed
  BY DEF SessionsInv
<1>2. TypeOK'
  BY <1>1 DEF TypeOK, AlarmTypeOK, MainPlaces, SessionPlaces
<1>3. AlarmGoesOn'
  BY <1>1 DEF AlarmGoesOn, TypeOK, AlarmTypeOK
<1>4. ThreadIds'
  BY <1>1 DEF ThreadIds, TypeOK
<1>5. AlarmedIsDestroyed'
  BY <1>1 DEF AlarmedIsDestroyed, ThreadIds, Destroying, TypeOK, AlarmTypeOK
<1> QED BY <1>2, <1>3, <1>4, <1>5 DEF SessionsInv

(* The session goes; it is not on the list any more. *)
LEMMA StepDestroyed ==
  ASSUME SessionsInv, Destroyed
  PROVE  SessionsInv'
<1> USE ThreadsAssumption, SignalsAssumption DEF Destroyed, At, GoTo, Sessions, alarmvars, mainvars, sessionvars, AlarmThread, AlarmThreadEnd, AlarmStop, AlarmStopEnd, Lock, Unlock, Interrupt, Blocked
<1>1. TypeOK /\ AlarmGoesOn /\ ThreadIds /\ AlarmedIsDestroyed
  BY DEF SessionsInv
<1>2. TypeOK'
  BY <1>1 DEF TypeOK, AlarmTypeOK, MainPlaces, SessionPlaces
<1>3. AlarmGoesOn'
  BY <1>1 DEF AlarmGoesOn, TypeOK, AlarmTypeOK
<1>4. ThreadIds'
  BY <1>1 DEF ThreadIds, TypeOK
<1>5. AlarmedIsDestroyed'
  BY <1>1 DEF AlarmedIsDestroyed, ThreadIds, Destroying, TypeOK, AlarmTypeOK
<1> QED BY <1>2, <1>3, <1>4, <1>5 DEF SessionsInv

(* No session is left to destroy. *)
LEMMA StepAllDestroyed ==
  ASSUME SessionsInv, AllDestroyed
  PROVE  SessionsInv'
<1> USE ThreadsAssumption, SignalsAssumption DEF AllDestroyed, At, GoTo, Sessions, alarmvars, mainvars, sessionvars
<1>1. TypeOK /\ AlarmGoesOn /\ ThreadIds /\ AlarmedIsDestroyed
  BY DEF SessionsInv
<1>2. TypeOK'
  BY <1>1 DEF TypeOK, AlarmTypeOK, MainPlaces, SessionPlaces
<1>3. AlarmGoesOn'
  BY <1>1 DEF AlarmGoesOn, TypeOK, AlarmTypeOK
<1>4. ThreadIds'
  BY <1>1 DEF ThreadIds, TypeOK
<1>5. AlarmedIsDestroyed'
  BY <1>1 DEF AlarmedIsDestroyed, ThreadIds, Destroying, TypeOK, AlarmTypeOK
<1> QED BY <1>2, <1>3, <1>4, <1>5 DEF SessionsInv

(* The main thread has reacted. *)
LEMMA StepMainPendingCommands ==
  ASSUME SessionsInv, MainPendingCommands
  PROVE  SessionsInv'
<1> USE ThreadsAssumption, SignalsAssumption DEF MainPendingCommands, At, GoTo, Sessions, alarmvars, mainvars, sessionvars
<1>1. TypeOK /\ AlarmGoesOn /\ ThreadIds /\ AlarmedIsDestroyed
  BY DEF SessionsInv
<1>2. TypeOK'
  BY <1>1 DEF TypeOK, AlarmTypeOK, MainPlaces, SessionPlaces
<1>3. AlarmGoesOn'
  BY <1>1 DEF AlarmGoesOn, TypeOK, AlarmTypeOK
<1>4. ThreadIds'
  BY <1>1 DEF ThreadIds, TypeOK
<1>5. AlarmedIsDestroyed'
  BY <1>1 DEF AlarmedIsDestroyed, ThreadIds, Destroying, TypeOK, AlarmTypeOK
<1> QED BY <1>2, <1>3, <1>4, <1>5 DEF SessionsInv

(* The destructor puts the thread on the list, if the thread has told its id. *)
LEMMA StepDestroy ==
  ASSUME SessionsInv, NEW s \in Sessions, Destroy(s)
  PROVE  SessionsInv'
<1> USE ThreadsAssumption, SignalsAssumption DEF Destroy, At, GoTo, Sessions, alarmvars, mainvars, sessionvars, AlarmThread, AlarmThreadEnd, AlarmStop, AlarmStopEnd, Lock, Unlock, Interrupt, Blocked
<1>1. TypeOK /\ AlarmGoesOn /\ ThreadIds /\ AlarmedIsDestroyed
  BY DEF SessionsInv
<1>2. TypeOK'
  BY <1>1 DEF TypeOK, AlarmTypeOK, MainPlaces, SessionPlaces
<1>3. AlarmGoesOn'
  BY <1>1 DEF AlarmGoesOn, TypeOK, AlarmTypeOK
<1>4. ThreadIds'
  BY <1>1 DEF ThreadIds, TypeOK
<1>5. AlarmedIsDestroyed'
  BY <1>1 DEF AlarmedIsDestroyed, ThreadIds, Destroying, TypeOK, AlarmTypeOK
<1> QED BY <1>2, <1>3, <1>4, <1>5 DEF SessionsInv

(* A new session, of a thread that was not there before. *)
LEMMA StepRecvUnix ==
  ASSUME SessionsInv, NEW s \in Sessions, RecvUnix(s)
  PROVE  SessionsInv'
<1> USE ThreadsAssumption, SignalsAssumption DEF RecvUnix, At, GoTo, Sessions, alarmvars, mainvars, sessionvars
<1>1. TypeOK /\ AlarmGoesOn /\ ThreadIds /\ AlarmedIsDestroyed
  BY DEF SessionsInv
<1>2. TypeOK'
  <2>1. /\ usl' \subseteq Sessions
        /\ client' \in [Sessions -> {"none", "idle", "waiting", "closed"}]
    BY <1>1 DEF TypeOK
  <2>2. pc \in [Threads -> MainPlaces \cup SessionPlaces]
    BY <1>1 DEF TypeOK
  <2>3. {"loop", "pending_commands", "started"} \subseteq MainPlaces \cup SessionPlaces
    BY DEF MainPlaces, SessionPlaces
  <2>4. pc' \in [Threads -> MainPlaces \cup SessionPlaces]
    BY <2>2, <2>3
  <2> QED BY <1>1, <2>1, <2>4 DEF TypeOK, AlarmTypeOK
<1>3. AlarmGoesOn'
  BY <1>1 DEF AlarmGoesOn, TypeOK, AlarmTypeOK
<1>4. ThreadIds'
  BY <1>1 DEF ThreadIds, TypeOK
<1>5. AlarmedIsDestroyed'
  BY <1>1 DEF AlarmedIsDestroyed, ThreadIds, Destroying, TypeOK, AlarmTypeOK
<1> QED BY <1>2, <1>3, <1>4, <1>5 DEF SessionsInv

(* The thread tells its id. *)
LEMMA StepStart ==
  ASSUME SessionsInv, NEW s \in Sessions, Start(s)
  PROVE  SessionsInv'
<1> USE ThreadsAssumption, SignalsAssumption DEF Start, At, GoTo, Sessions, alarmvars, mainvars, sessionvars
<1>1. TypeOK /\ AlarmGoesOn /\ ThreadIds /\ AlarmedIsDestroyed
  BY DEF SessionsInv
<1>2. TypeOK'
  BY <1>1 DEF TypeOK, AlarmTypeOK, MainPlaces, SessionPlaces
<1>3. AlarmGoesOn'
  BY <1>1 DEF AlarmGoesOn, TypeOK, AlarmTypeOK
<1>4. ThreadIds'
  BY <1>1 DEF ThreadIds, TypeOK
<1>5. AlarmedIsDestroyed'
  BY <1>1 DEF AlarmedIsDestroyed, ThreadIds, Destroying, TypeOK, AlarmTypeOK
<1> QED BY <1>2, <1>3, <1>4, <1>5 DEF SessionsInv

(* A session reads on, or not. *)
LEMMA StepGetline ==
  ASSUME SessionsInv, NEW s \in Sessions, Getline(s)
  PROVE  SessionsInv'
<1> USE ThreadsAssumption, SignalsAssumption DEF Getline, At, GoTo, Sessions, alarmvars, mainvars, sessionvars
<1>1. TypeOK /\ AlarmGoesOn /\ ThreadIds /\ AlarmedIsDestroyed
  BY DEF SessionsInv
<1>2. TypeOK'
  BY <1>1 DEF TypeOK, AlarmTypeOK, MainPlaces, SessionPlaces
<1>3. AlarmGoesOn'
  BY <1>1 DEF AlarmGoesOn, TypeOK, AlarmTypeOK
<1>4. ThreadIds'
  BY <1>1 DEF ThreadIds, TypeOK
<1>5. AlarmedIsDestroyed'
  BY <1>1 DEF AlarmedIsDestroyed, ThreadIds, Destroying, TypeOK, AlarmTypeOK
<1> QED BY <1>2, <1>3, <1>4, <1>5 DEF SessionsInv

(* A session is interrupted. *)
LEMMA StepReadInterrupted ==
  ASSUME SessionsInv, NEW s \in Sessions, ReadInterrupted(s)
  PROVE  SessionsInv'
<1> USE ThreadsAssumption, SignalsAssumption DEF ReadInterrupted, At, GoTo, Sessions, alarmvars, mainvars, sessionvars
<1>1. TypeOK /\ AlarmGoesOn /\ ThreadIds /\ AlarmedIsDestroyed
  BY DEF SessionsInv
<1>2. TypeOK'
  BY <1>1 DEF TypeOK, AlarmTypeOK, MainPlaces, SessionPlaces
<1>3. AlarmGoesOn'
  BY <1>1 DEF AlarmGoesOn, TypeOK, AlarmTypeOK
<1>4. ThreadIds'
  BY <1>1 DEF ThreadIds, TypeOK
<1>5. AlarmedIsDestroyed'
  BY <1>1 DEF AlarmedIsDestroyed, ThreadIds, Destroying, TypeOK, AlarmTypeOK
<1> QED BY <1>2, <1>3, <1>4, <1>5 DEF SessionsInv

(* A session reads. *)
LEMMA StepRead ==
  ASSUME SessionsInv, NEW s \in Sessions, Read(s)
  PROVE  SessionsInv'
<1> USE ThreadsAssumption, SignalsAssumption DEF Read, At, GoTo, Sessions, alarmvars, mainvars, sessionvars
<1>1. TypeOK /\ AlarmGoesOn /\ ThreadIds /\ AlarmedIsDestroyed
  BY DEF SessionsInv
<1>2. TypeOK'
  BY <1>1 DEF TypeOK, AlarmTypeOK, MainPlaces, SessionPlaces
<1>3. AlarmGoesOn'
  BY <1>1 DEF AlarmGoesOn, TypeOK, AlarmTypeOK
<1>4. ThreadIds'
  BY <1>1 DEF ThreadIds, TypeOK
<1>5. AlarmedIsDestroyed'
  BY <1>1 DEF AlarmedIsDestroyed, ThreadIds, Destroying, TypeOK, AlarmTypeOK
<1> QED BY <1>2, <1>3, <1>4, <1>5 DEF SessionsInv

(* A session has read. *)
LEMMA StepGot ==
  ASSUME SessionsInv, NEW s \in Sessions, Got(s)
  PROVE  SessionsInv'
<1> USE ThreadsAssumption, SignalsAssumption DEF Got, At, GoTo, Sessions, alarmvars, mainvars, sessionvars
<1>1. TypeOK /\ AlarmGoesOn /\ ThreadIds /\ AlarmedIsDestroyed
  BY DEF SessionsInv
<1>2. TypeOK'
  BY <1>1 DEF TypeOK, AlarmTypeOK, MainPlaces, SessionPlaces
<1>3. AlarmGoesOn'
  BY <1>1 DEF AlarmGoesOn, TypeOK, AlarmTypeOK
<1>4. ThreadIds'
  BY <1>1 DEF ThreadIds, TypeOK
<1>5. AlarmedIsDestroyed'
  BY <1>1 DEF AlarmedIsDestroyed, ThreadIds, Destroying, TypeOK, AlarmTypeOK
<1> QED BY <1>2, <1>3, <1>4, <1>5 DEF SessionsInv

(* The main thread is put on the list. *)
LEMMA StepInteractiveExec ==
  ASSUME SessionsInv, NEW s \in Sessions, InteractiveExec(s)
  PROVE  SessionsInv'
<1> USE ThreadsAssumption, SignalsAssumption DEF InteractiveExec, At, GoTo, Sessions, alarmvars, mainvars, sessionvars, AlarmThread, AlarmThreadEnd, AlarmStop, AlarmStopEnd, Lock, Unlock, Interrupt, Blocked
<1>1. TypeOK /\ AlarmGoesOn /\ ThreadIds /\ AlarmedIsDestroyed
  BY DEF SessionsInv
<1>2. TypeOK'
  BY <1>1 DEF TypeOK, AlarmTypeOK, MainPlaces, SessionPlaces
<1>3. AlarmGoesOn'
  BY <1>1 DEF AlarmGoesOn, TypeOK, AlarmTypeOK
<1>4. ThreadIds'
  BY <1>1 DEF ThreadIds, TypeOK
<1>5. AlarmedIsDestroyed'
  BY <1>1 DEF AlarmedIsDestroyed, ThreadIds, Destroying, TypeOK, AlarmTypeOK
<1> QED BY <1>2, <1>3, <1>4, <1>5 DEF SessionsInv

(* The alarm is under way. *)
LEMMA StepNotify ==
  ASSUME SessionsInv, NEW s \in Sessions, Notify(s)
  PROVE  SessionsInv'
<1> USE ThreadsAssumption, SignalsAssumption DEF Notify, At, GoTo, Sessions, alarmvars, mainvars, sessionvars, AlarmThread, AlarmThreadEnd, AlarmStop, AlarmStopEnd, Lock, Unlock, Interrupt, Blocked
<1>1. TypeOK /\ AlarmGoesOn /\ ThreadIds /\ AlarmedIsDestroyed
  BY DEF SessionsInv
<1>2. TypeOK'
  BY <1>1 DEF TypeOK, AlarmTypeOK, MainPlaces, SessionPlaces
<1>3. AlarmGoesOn'
  BY <1>1 DEF AlarmGoesOn, TypeOK, AlarmTypeOK
<1>4. ThreadIds'
  BY <1>1 DEF ThreadIds, TypeOK
<1>5. AlarmedIsDestroyed'
  BY <1>1 DEF AlarmedIsDestroyed, ThreadIds, Destroying, TypeOK, AlarmTypeOK
<1> QED BY <1>2, <1>3, <1>4, <1>5 DEF SessionsInv

(* The client gets its answer. *)
LEMMA StepReply ==
  ASSUME SessionsInv, NEW s \in Sessions, Reply(s)
  PROVE  SessionsInv'
<1> USE ThreadsAssumption, SignalsAssumption DEF Reply, At, GoTo, Sessions, alarmvars, mainvars, sessionvars
<1>1. TypeOK /\ AlarmGoesOn /\ ThreadIds /\ AlarmedIsDestroyed
  BY DEF SessionsInv
<1>2. TypeOK'
  BY <1>1 DEF TypeOK, AlarmTypeOK, MainPlaces, SessionPlaces
<1>3. AlarmGoesOn'
  BY <1>1 DEF AlarmGoesOn, TypeOK, AlarmTypeOK
<1>4. ThreadIds'
  BY <1>1 DEF ThreadIds, TypeOK
<1>5. AlarmedIsDestroyed'
  BY <1>1 DEF AlarmedIsDestroyed, ThreadIds, Destroying, TypeOK, AlarmTypeOK
<1> QED BY <1>2, <1>3, <1>4, <1>5 DEF SessionsInv

(* The session ends, but for its destructor. *)
LEMMA StepEnd ==
  ASSUME SessionsInv, NEW s \in Sessions, End(s)
  PROVE  SessionsInv'
<1> USE ThreadsAssumption, SignalsAssumption DEF End, At, GoTo, Sessions, alarmvars, mainvars, sessionvars
<1>1. TypeOK /\ AlarmGoesOn /\ ThreadIds /\ AlarmedIsDestroyed
  BY DEF SessionsInv
<1>2. TypeOK'
  BY <1>1 DEF TypeOK, AlarmTypeOK, MainPlaces, SessionPlaces
<1>3. AlarmGoesOn'
  BY <1>1 DEF AlarmGoesOn, TypeOK, AlarmTypeOK
<1>4. ThreadIds'
  BY <1>1 DEF ThreadIds, TypeOK
<1>5. AlarmedIsDestroyed'
  BY <1>1 DEF AlarmedIsDestroyed, ThreadIds, Destroying, TypeOK, AlarmTypeOK
<1> QED BY <1>2, <1>3, <1>4, <1>5 DEF SessionsInv

(* The client writes. *)
LEMMA StepSend ==
  ASSUME SessionsInv, NEW s \in Sessions, Send(s)
  PROVE  SessionsInv'
<1> USE ThreadsAssumption, SignalsAssumption DEF Send, At, GoTo, Sessions, alarmvars, mainvars, sessionvars
<1>1. TypeOK /\ AlarmGoesOn /\ ThreadIds /\ AlarmedIsDestroyed
  BY DEF SessionsInv
<1>2. TypeOK'
  <2>1. /\ request' \in [Sessions -> {"none", "line", "exit", "eof"}]
        /\ client' \in [Sessions -> {"none", "idle", "waiting", "closed"}]
    BY <1>1 DEF TypeOK
  <2> QED BY <1>1, <2>1 DEF TypeOK, AlarmTypeOK
<1>3. AlarmGoesOn'
  BY <1>1 DEF AlarmGoesOn, TypeOK, AlarmTypeOK
<1>4. ThreadIds'
  BY <1>1 DEF ThreadIds, TypeOK
<1>5. AlarmedIsDestroyed'
  BY <1>1 DEF AlarmedIsDestroyed, ThreadIds, Destroying, TypeOK, AlarmTypeOK
<1> QED BY <1>2, <1>3, <1>4, <1>5 DEF SessionsInv

(* A handler begins. *)
LEMMA StepSignal ==
  ASSUME SessionsInv, NEW t \in Threads, Signal(t)
  PROVE  SessionsInv'
<1> USE ThreadsAssumption, SignalsAssumption DEF Signal, At, GoTo, Sessions, alarmvars, mainvars, sessionvars, SigNotify, Interrupt, Blocked
<1>1. TypeOK /\ AlarmGoesOn /\ ThreadIds /\ AlarmedIsDestroyed
  BY DEF SessionsInv
<1>2. TypeOK'
  <2>1. signals' \in 0 .. MaxSignals /\ prog_status' \in {"work", "reload", "exit"}
    BY <1>1 DEF TypeOK
  <2>2. AlarmTypeOK'
    BY <1>1 DEF TypeOK, AlarmTypeOK
  <2> QED BY <1>1, <2>1, <2>2 DEF TypeOK
<1>3. AlarmGoesOn'
  BY <1>1 DEF AlarmGoesOn, TypeOK, AlarmTypeOK
<1>4. ThreadIds'
  BY <1>1 DEF ThreadIds, TypeOK
<1>5. AlarmedIsDestroyed'
  BY <1>1 DEF AlarmedIsDestroyed, ThreadIds, Destroying, TypeOK, AlarmTypeOK
<1> QED BY <1>2, <1>3, <1>4, <1>5 DEF SessionsInv

(* An alarm is used up while the mutex is held, or locks it. *)
LEMMA StepAlarm ==
  ASSUME SessionsInv, NEW t \in Threads, Alarm(t)
  PROVE  SessionsInv'
<1> USE ThreadsAssumption, SignalsAssumption DEF Alarm, At, GoTo, Sessions, alarmvars, mainvars, sessionvars, SigAlrm, Lock, Interrupt, Blocked
<1>1. TypeOK /\ AlarmGoesOn /\ ThreadIds /\ AlarmedIsDestroyed
  BY DEF SessionsInv
<1>2. TypeOK'
  <2>1. AlarmTypeOK'
    BY <1>1 DEF TypeOK, AlarmTypeOK
  <2> QED BY <1>1, <2>1 DEF TypeOK
<1>3. AlarmGoesOn'
  BY <1>1 DEF AlarmGoesOn, TypeOK, AlarmTypeOK
<1>4. ThreadIds'
  BY <1>1 DEF ThreadIds, TypeOK
<1>5. AlarmedIsDestroyed'
  BY <1>1 DEF AlarmedIsDestroyed, ThreadIds, Destroying, TypeOK, AlarmTypeOK
<1> QED BY <1>2, <1>3, <1>4, <1>5 DEF SessionsInv

(* A handler unlocks the mutex only after it has asked for an alarm, if one is needed. *)
LEMMA StepHandle ==
  ASSUME SessionsInv, NEW t \in Threads, Handle(t)
  PROVE  SessionsInv'
<1> USE ThreadsAssumption, SignalsAssumption DEF Handle, At, GoTo, Sessions, alarmvars, mainvars, sessionvars, HandlerStep, OnAlarmEnd, NotifyLock, NotifyEnd, AlarmThread, AlarmThreadEnd, Lock, Unlock, Interrupt, Blocked
<1>1. TypeOK /\ AlarmGoesOn /\ ThreadIds /\ AlarmedIsDestroyed
  BY DEF SessionsInv
<1>2. TypeOK'
  BY <1>1 DEF TypeOK, AlarmTypeOK, MainPlaces, SessionPlaces
<1>3. AlarmGoesOn'
  BY <1>1 DEF AlarmGoesOn, TypeOK, AlarmTypeOK
<1>4. ThreadIds'
  BY <1>1 DEF ThreadIds, TypeOK
<1>5. AlarmedIsDestroyed'
  BY <1>1 DEF AlarmedIsDestroyed, ThreadIds, Destroying, TypeOK, AlarmTypeOK
<1> QED BY <1>2, <1>3, <1>4, <1>5 DEF SessionsInv

(* Every step keeps the invariant. *)
LEMMA StepInv == SessionsInv /\ [Next]_vars => SessionsInv'
<1> SUFFICES ASSUME SessionsInv, [Next]_vars PROVE SessionsInv'
  OBVIOUS
<1>1. ASSUME MainStep PROVE SessionsInv'
  BY <1>1, StepLoop, StepCallPoll, StepPollInterrupted, StepAlarmStopSelf, StepAlarmSession,
     StepJoin, StepStopAlarm, StepDestroyed, StepAllDestroyed, StepMainPendingCommands,
     StepDestroy DEF MainStep
<1>2. ASSUME NEW s \in Sessions, SessionStep(s) PROVE SessionsInv'
  BY <1>2, StepStart, StepGetline, StepCallRead, StepReadInterrupted, StepRead, StepGot,
     StepInteractiveExec, StepNotify, StepReply, StepEnd DEF SessionStep
<1>3. ASSUME NEW s \in Sessions, RecvUnix(s) \/ Send(s) PROVE SessionsInv'
  BY <1>3, StepRecvUnix, StepSend
<1>4. ASSUME NEW t \in Threads, Signal(t) \/ Alarm(t) \/ Handle(t) PROVE SessionsInv'
  BY <1>4, StepSignal, StepAlarm, StepHandle
<1>5. CASE UNCHANGED vars
  BY <1>5 DEF vars, alarmvars, SessionsInv, TypeOK, AlarmTypeOK, AlarmGoesOn, ThreadIds,
              AlarmedIsDestroyed, Sessions
<1> QED BY <1>1, <1>2, <1>3, <1>4, <1>5 DEF Next

(* The invariant holds, for any number of threads and signals. *)
THEOREM InvHolds == Spec => []SessionsInv
<1> QED BY InitInv, StepInv, PTL DEF Spec

(* Handlers and threads share the list without a lost alarm: whoever finds the  *)
(* mutex taken drops the alarm, and whoever holds it asks for the next one      *)
(* (on_alarm(), alarm_stop()).                                                  *)
THEOREM AlarmsGoOn == Spec => []AlarmGoesOn
<1>1. SessionsInv => AlarmGoesOn
  BY DEF SessionsInv
<1> QED BY <1>1, InvHolds, PTL

(* No SIGINT is sent to a session after its destructor, although the thread may *)
(* tell its id while the destructor reads it (~UnixSession()).                  *)
THEOREM DeadAreNotAlarmed == Spec => []OnlyLiveThreadsAlarmed
<1>1. SessionsInv => OnlyLiveThreadsAlarmed
  BY DEF SessionsInv, AlarmedIsDestroyed, OnlyLiveThreadsAlarmed, Destroying
<1> QED BY <1>1, InvHolds, PTL
=============================================================================
