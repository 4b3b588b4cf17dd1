----------------------- MODULE CausalBroadcast_proofs -----------------------
(***************************************************************************)
(* Proofs about CausalBroadcast, for any group and any number of commands. *)
(***************************************************************************)
EXTENDS CausalBroadcast, FiniteSetTheorems, WellFoundedInduction, TLAPS

(* What TypeOK says of single numbers and messages. *)
LEMMA Typed ==
  ASSUME TypeOK
  PROVE  /\ \A a \in Nodes : created[a] \in 0 .. MaxCmd
         /\ \A p, a \in Nodes : executed[p][a] \in 0 .. MaxCmd
         /\ \A m \in pending : /\ m.author \in Nodes /\ m.number \in 0 .. MaxCmd - 1
                               /\ m.depends \in Row
                               /\ \A a \in Nodes : m.depends[a] \in 0 .. MaxCmd
BY DEF TypeOK, Row, Count, Numbers, Msg

(* PendingIsExact, piece by piece. *)
LEMMA PendingLemma ==
  ASSUME TypeOK, PendingIsExact
  PROVE  /\ \A m \in pending : /\ m.number < created[m.author]
                               /\ \E p \in Nodes : executed[p][m.author] <= m.number
         /\ \A m, x \in pending : x.author = m.author /\ x.number = m.number => x = m
         /\ \A p, a \in Nodes, k \in Numbers :
              executed[p][a] <= k /\ k < created[a] => \E m \in pending : m.author = a /\ m.number = k
<1>. DEFINE copies(a, k) == {m \in pending : m.author = a /\ m.number = k}
            needed(a, k) == k < created[a] /\ \E p \in Nodes : executed[p][a] <= k
<1>1. \A a \in Nodes, k \in Numbers :
        IF needed(a, k) THEN \E m \in pending : copies(a, k) = {m} ELSE copies(a, k) = {}
  BY DEF PendingIsExact
<1>2. ASSUME NEW m \in pending
      PROVE  /\ m.author \in Nodes /\ m.number \in Numbers
             /\ needed(m.author, m.number)
             /\ \A x \in pending : x.author = m.author /\ x.number = m.number => x = m
  <2>1. m.author \in Nodes /\ m.number \in Numbers
    BY DEF TypeOK, Msg
  <2>2. m \in copies(m.author, m.number)
    OBVIOUS
  <2>3. needed(m.author, m.number)
    BY <1>1, <2>1, <2>2
  <2>4. PICK y \in pending : copies(m.author, m.number) = {y}
    BY <1>1, <2>1, <2>3
  <2>. QED BY <2>1, <2>2, <2>3, <2>4
<1>3. ASSUME NEW p \in Nodes, NEW a \in Nodes, NEW k \in Numbers, executed[p][a] <= k, k < created[a]
      PROVE  \E m \in pending : m.author = a /\ m.number = k
  <2>1. needed(a, k)
    BY <1>3
  <2>2. PICK m \in pending : copies(a, k) = {m}
    BY <1>1, <2>1
  <2>. QED BY <2>2
<1>. QED BY <1>2, <1>3

LEMMA InitLemma == Init => BroadcastInv
<1>. SUFFICES ASSUME Init PROVE BroadcastInv
  OBVIOUS
<1>. USE MaxCmdAssumption DEF Init, Count, Numbers
<1>1. ZeroRow \in Row /\ \A a \in Nodes : ZeroRow[a] = 0
  BY DEF ZeroRow, Row
<1>2. TypeOK
  BY <1>1 DEF TypeOK
<1>3. PendingIsExact
  BY <1>1 DEF PendingIsExact
<1>4. \A p \in Nodes : executed[p] \preceq created
  BY <1>1 DEF \preceq
<1>. QED BY <1>2, <1>3, <1>4 DEF BroadcastInv, PastsComplete

(* A new command: its author has executed what it depends on, completely.   *)
LEMMA CreateLemma ==
  ASSUME BroadcastInv, NEW a \in Nodes, NEW depends \in {executed[a], ZeroRow}, Create(a, depends)
  PROVE  BroadcastInv'
<1>. USE MaxCmdAssumption DEF Count, Numbers
<1>. DEFINE new == Command(a, depends)
            c   == created[a]
<1>1. /\ TypeOK /\ PendingIsExact /\ PastsComplete
      /\ \A p \in Nodes : executed[p] \preceq created
  BY DEF BroadcastInv
<1>2. /\ c < MaxCmd
      /\ created' = [created EXCEPT ![a] = @ + 1]
      /\ pending' = pending \cup {new}
      /\ executed' = executed
  BY DEF Create
<1>3. /\ new.author = a /\ new.number = c /\ new.depends = depends
  BY DEF Command
<1>4. /\ \A b \in Nodes : created[b] \in 0 .. MaxCmd
      /\ \A p, b \in Nodes : executed[p][b] \in 0 .. MaxCmd /\ executed[p][b] <= created[b]
      /\ \A m \in pending : m.author \in Nodes /\ m.number \in 0 .. MaxCmd - 1
  BY <1>1, Typed DEF \preceq
<1>5. /\ created'[a] = c + 1
      /\ \A b \in Nodes \ {a} : created'[b] = created[b]
      /\ \A b \in Nodes : created[b] <= created'[b]
  BY <1>1, <1>2, <1>4 DEF TypeOK, Row
<1>6. depends \in Row /\ \A b \in Nodes : depends[b] \in 0 .. MaxCmd /\ depends[b] <= executed[a][b]
  <2>1. CASE depends = executed[a]
    BY <1>1, <1>4, <2>1 DEF TypeOK
  <2>2. CASE depends = ZeroRow
    BY <1>4, <2>2 DEF ZeroRow, Row
  <2>. QED BY <2>1, <2>2
<1>7. TypeOK'
  <2>1. created' \in Row
    BY <1>1, <1>2, <1>4 DEF TypeOK, Row
  <2>2. new \in Msg
    BY <1>2, <1>4, <1>6 DEF Command, Msg, Values
  <2>. QED BY <1>1, <1>2, <2>1, <2>2 DEF TypeOK
<1>8. \A p \in Nodes : (executed[p] \preceq created)'
  BY <1>2, <1>4, <1>5, <1>7, Typed DEF \preceq
<1>9. \A m \in pending : m.number < created[m.author]
  BY <1>1, PendingLemma
<1>10. PendingIsExact'
  <2>. SUFFICES ASSUME NEW b \in Nodes, NEW k \in Numbers
                PROVE  LET copies == {m \in pending' : m.author = b /\ m.number = k}
                       IN  IF k < created'[b] /\ \E p \in Nodes : executed[p][b] <= k
                           THEN \E m \in pending' : copies = {m}
                           ELSE copies = {}
    BY <1>2 DEF PendingIsExact
  <2>. DEFINE copies == {m \in pending : m.author = b /\ m.number = k}
              now == {m \in pending' : m.author = b /\ m.number = k}
  <2>1. CASE b = a /\ k = c
    <3>1. \A m \in pending : ~(m.author = b /\ m.number = k)
      BY <1>4, <1>9, <2>1
    <3>2. now = {new}
      BY <1>2, <1>3, <2>1, <3>1
    <3>3. k < created'[b] /\ executed[a][b] <= k
      BY <1>4, <1>5, <2>1
    <3>. QED BY <1>2, <3>2, <3>3
  <2>2. CASE ~(b = a /\ k = c)
    <3>1. now = copies
      BY <1>2, <1>3, <2>2
    <3>2. k < created'[b] <=> k < created[b]
      BY <1>4, <1>5, <2>2
    <3>3. IF k < created[b] /\ \E p \in Nodes : executed[p][b] <= k
          THEN \E m \in pending : copies = {m} ELSE copies = {}
      BY <1>1 DEF PendingIsExact
    <3>. QED BY <1>2, <3>1, <3>2, <3>3
  <2>. QED BY <2>1, <2>2
<1>11. PastsComplete'
  <2>. SUFFICES ASSUME NEW m \in pending'
                PROVE  /\ m.depends \preceq created'
                       /\ m.depends[m.author] <= m.number
                       /\ \A x \in pending' : x.number < m.depends[x.author] => x.depends \preceq m.depends
                       /\ \A p \in Nodes : m.number < executed[p][m.author] => m.depends \preceq executed[p]
    BY <1>2 DEF PastsComplete, \preceq
  <2>1. CASE m \in pending
    <3>1. /\ m.depends \preceq created /\ m.depends[m.author] <= m.number
          /\ \A x \in pending : x.number < m.depends[x.author] => x.depends \preceq m.depends
          /\ \A p \in Nodes : m.number < executed[p][m.author] => m.depends \preceq executed[p]
      BY <1>1, <2>1 DEF PastsComplete
    <3>2. \A b \in Nodes : m.depends[b] \in 0 .. MaxCmd
      BY <1>1, <2>1, Typed
    <3>3. m.depends \preceq created'
      BY <1>4, <1>5, <1>7, <3>1, <3>2, Typed DEF \preceq
    <3>4. ~(new.number < m.depends[new.author])
      BY <1>3, <1>4, <3>1, <3>2 DEF \preceq
    <3>. QED BY <1>2, <3>1, <3>3, <3>4
  <2>2. CASE m = new
    <3>1. m.depends = depends /\ m.author = a /\ m.number = c
      BY <1>3, <2>2
    <3>2. depends \preceq created'
      BY <1>4, <1>5, <1>6, <1>7, Typed DEF \preceq
    <3>3. depends[a] <= c
      BY <1>4, <1>6
    <3>4. ASSUME NEW x \in pending, x.number < depends[x.author] PROVE x.depends \preceq depends
      <4>1. x.author \in Nodes /\ x.number \in 0 .. MaxCmd - 1
        BY <1>4
      <4>2. depends = executed[a]
        BY <3>4, <4>1 DEF ZeroRow
      <4>. QED BY <1>1, <3>4, <4>2 DEF PastsComplete
    <3>5. ~(new.number < depends[new.author])
      BY <1>3, <1>4, <1>6, <3>3
    <3>6. \A p \in Nodes : ~(c < executed[p][a])
      BY <1>4
    <3>. QED BY <1>2, <3>1, <3>2, <3>3, <3>4, <3>5, <3>6
  <2>. QED BY <1>2, <2>1, <2>2
<1>. QED BY <1>7, <1>8, <1>10, <1>11 DEF BroadcastInv

(* Executed are only commands that are pending, each after what it depends on. *)
LEMMA ExecuteLemma ==
  ASSUME BroadcastInv, NEW p \in Nodes, Execute(p)
  PROVE  BroadcastInv'
<1>. USE MaxCmdAssumption DEF Count, Numbers
<1>1. /\ TypeOK /\ PendingIsExact /\ PastsComplete
      /\ \A q \in Nodes : executed[q] \preceq created
  BY DEF BroadcastInv
<1>2. PICK new \in Row :
        /\ CanReach(p, new)
        /\ executed' = [executed EXCEPT ![p] = new]
        /\ pending' = Unexecuted(pending, executed')
        /\ created' = created
  BY DEF Execute
<1>3. executed'[p] = new /\ \A q \in Nodes \ {p} : executed'[q] = executed[q]
  BY <1>1, <1>2 DEF TypeOK
<1>4. /\ \A b \in Nodes : created[b] \in 0 .. MaxCmd /\ new[b] \in 0 .. MaxCmd
      /\ \A q, b \in Nodes : executed[q][b] \in 0 .. MaxCmd /\ executed[q][b] <= created[b]
      /\ \A m \in pending : /\ m.author \in Nodes /\ m.number \in 0 .. MaxCmd - 1
                            /\ \A a \in Nodes : m.depends[a] \in 0 .. MaxCmd
  BY <1>1, Typed DEF \preceq, Row
<1>5. /\ \A a \in Nodes : executed[p][a] <= new[a]
      /\ \A a \in Nodes, k \in Numbers : executed[p][a] <= k /\ k < new[a] =>
           \E m \in pending : m.author = a /\ m.number = k /\ m.depends \preceq new
  BY <1>2 DEF CanReach, \preceq
<1>6. /\ \A m \in pending : m.number < created[m.author]
      /\ \A m, x \in pending : x.author = m.author /\ x.number = m.number => x = m
  BY <1>1, PendingLemma
<1>7. TypeOK'
  BY <1>1, <1>2 DEF TypeOK, Unexecuted
<1>8. ASSUME NEW a \in Nodes PROVE new[a] <= created[a]
  <2>1. SUFFICES ASSUME created[a] < new[a] PROVE FALSE
    BY <1>4
  <2>2. created[a] \in Numbers /\ executed[p][a] <= created[a]
    BY <1>4, <2>1
  <2>3. PICK m \in pending : m.author = a /\ m.number = created[a]
    BY <1>5, <2>1, <2>2
  <2>. QED BY <1>4, <1>6, <2>3
<1>9. \A q \in Nodes : (executed[q] \preceq created)'
  BY <1>1, <1>2, <1>3, <1>8 DEF \preceq
<1>10. \A m \in pending' : m \in pending /\ \E q \in Nodes : executed'[q][m.author] <= m.number
  BY <1>2 DEF Unexecuted
<1>11. \A q, b \in Nodes : executed'[q][b] \in 0 .. MaxCmd /\ executed[q][b] <= executed'[q][b]
  BY <1>3, <1>4, <1>5
<1>12. PendingIsExact'
  <2>. SUFFICES ASSUME NEW b \in Nodes, NEW k \in Numbers
                PROVE  LET copies == {m \in pending' : m.author = b /\ m.number = k}
                       IN  IF k < created[b] /\ \E q \in Nodes : executed'[q][b] <= k
                           THEN \E m \in pending' : copies = {m}
                           ELSE copies = {}
    BY <1>2 DEF PendingIsExact
  <2>. DEFINE now == {m \in pending' : m.author = b /\ m.number = k}
  <2>1. CASE k < created[b] /\ \E q \in Nodes : executed'[q][b] <= k
    <3>1. PICK q \in Nodes : executed'[q][b] <= k
      BY <2>1
    <3>2. executed[q][b] <= k
      BY <1>4, <1>11, <3>1
    <3>3. PICK m \in pending : m.author = b /\ m.number = k
      BY <1>1, <2>1, <3>2, PendingLemma
    <3>4. m \in pending'
      BY <1>2, <3>1, <3>3 DEF Unexecuted
    <3>5. now = {m}
      BY <1>6, <1>10, <3>3, <3>4
    <3>. QED BY <2>1, <3>4, <3>5
  <2>2. CASE ~(k < created[b] /\ \E q \in Nodes : executed'[q][b] <= k)
    <3>1. now = {}
      BY <1>6, <1>10, <2>2
    <3>. QED BY <2>2, <3>1
  <2>. QED BY <2>1, <2>2
<1>13. PastsComplete'
  <2>. SUFFICES ASSUME NEW m \in pending'
                PROVE  /\ m.depends \preceq created
                       /\ m.depends[m.author] <= m.number
                       /\ \A x \in pending' : x.number < m.depends[x.author] => x.depends \preceq m.depends
                       /\ \A q \in Nodes : m.number < executed'[q][m.author] => m.depends \preceq executed'[q]
    BY <1>2 DEF PastsComplete, \preceq
  <2>1. m \in pending
    BY <1>10
  <2>2. ASSUME NEW q \in Nodes, m.number < executed'[q][m.author] PROVE m.depends \preceq executed'[q]
    <3>1. CASE m.number < executed[q][m.author]
      <4>1. m.depends \preceq executed[q]
        BY <1>1, <2>1, <3>1 DEF PastsComplete
      <4>. QED BY <1>4, <1>11, <2>1, <4>1 DEF \preceq
    <3>2. CASE ~(m.number < executed[q][m.author])
      <4>1. q = p /\ executed[p][m.author] <= m.number /\ m.number < new[m.author]
        BY <1>3, <1>4, <2>1, <2>2, <3>2
      <4>2. PICK x \in pending : x.author = m.author /\ x.number = m.number /\ x.depends \preceq new
        BY <1>4, <1>5, <2>1, <4>1
      <4>. QED BY <1>3, <1>6, <2>1, <4>1, <4>2
    <3>. QED BY <3>1, <3>2
  <2>. QED BY <1>1, <1>10, <2>1, <2>2 DEF PastsComplete
<1>. QED BY <1>7, <1>9, <1>12, <1>13 DEF BroadcastInv

LEMMA StepLemma == BroadcastInv /\ [Next]_vars => BroadcastInv'
<1>. SUFFICES ASSUME BroadcastInv, [Next]_vars PROVE BroadcastInv'
  OBVIOUS
<1>1. CASE Next
  BY <1>1, CreateLemma, ExecuteLemma DEF Next
<1>2. CASE UNCHANGED vars
  BY <1>2 DEF vars, BroadcastInv, TypeOK, PendingIsExact, PastsComplete, \preceq
<1>. QED BY <1>1, <1>2

THEOREM BroadcastInvariance == Spec => []BroadcastInv
BY InitLemma, StepLemma, PTL DEF Spec

(* A set of natural numbers has a smallest one.                             *)
LEMMA SmallestLemma ==
  ASSUME NEW S \in SUBSET Nat, S # {}
  PROVE  \E n \in S : \A k \in S : n <= k
<1>1. OpToRel(<, Nat) = {ss \in Nat \X Nat : ss[1] < ss[2]}
  BY Zenon DEF OpToRel
<1>2. PICK n \in S : \A k \in S : ~(<<k, n>> \in {ss \in Nat \X Nat : ss[1] < ss[2]})
  BY <1>1, NatLessThanWellFounded, WFMin
<1>3. ASSUME NEW k \in S PROVE n <= k
  <2>1. <<k, n>> \in Nat \X Nat => ~(<<k, n>>[1] < <<k, n>>[2])
    BY <1>2
  <2>. QED BY <2>1
<1>. QED BY <1>3

(* Every author has a next command for node p, if not all of its commands    *)
(* are executed there.  Of these commands one depends on no other: whatever  *)
(* a command waits for, another one of them waits for less.                 *)
LEMMA NoDeadlockLemma == BroadcastInv => NoCausalDeadlock
<1>. SUFFICES ASSUME BroadcastInv, NEW p \in Nodes, executed[p] # created
              PROVE  \E m \in pending : Executable(m, executed[p])
  BY DEF NoCausalDeadlock
<1>. USE MaxCmdAssumption DEF Count, Numbers
<1>. DEFINE e == executed[p]
            behind == {a \in Nodes : e[a] < created[a]}
            next(a) == CHOOSE m \in pending : m.author = a /\ m.number = e[a]
            waitsFor(a) == {b \in behind : e[b] < next(a).depends[b]}
            size(a) == Cardinality(waitsFor(a))
            sizes == {size(a) : a \in behind}
<1>1. TypeOK /\ PendingIsExact /\ PastsComplete /\ e \preceq created
  BY DEF BroadcastInv
<1>2. /\ \A a \in Nodes : created[a] \in 0 .. MaxCmd /\ e[a] \in 0 .. MaxCmd /\ e[a] <= created[a]
      /\ \A m \in pending : \A a \in Nodes : m.depends[a] \in 0 .. MaxCmd
  BY <1>1, Typed DEF \preceq
<1>3. behind # {}
  <2>1. e \in Row /\ created \in Row
    BY <1>1 DEF TypeOK
  <2>2. PICK a \in Nodes : e[a] # created[a]
    BY <2>1 DEF Row
  <2>. QED BY <1>2, <2>2
<1>4. ASSUME NEW a \in behind
      PROVE  next(a) \in pending /\ next(a).author = a /\ next(a).number = e[a]
  <2>1. a \in Nodes /\ e[a] \in Numbers /\ e[a] < created[a]
    BY <1>2
  <2>2. \E m \in pending : m.author = a /\ m.number = e[a]
    BY <1>1, <1>2, <2>1, PendingLemma
  <2>. QED BY <2>2
<1>5. \A a \in behind : IsFiniteSet(waitsFor(a)) /\ Cardinality(waitsFor(a)) \in Nat
  BY NodesAssumption, FS_Subset, FS_CardinalityType
<1>6. PICK a \in behind : \A b \in behind : Cardinality(waitsFor(a)) <= Cardinality(waitsFor(b))
  <2>1. sizes \in SUBSET Nat /\ sizes # {}
    <3>. HIDE DEF behind, waitsFor
    <3>. QED BY <1>3, <1>5
  <2>2. PICK n \in sizes : \A k \in sizes : n <= k
    <3>. HIDE DEF sizes
    <3>. QED BY <2>1, SmallestLemma
  <2>. HIDE DEF behind, waitsFor
  <2>. QED BY <2>2
<1>. DEFINE m == next(a)
<1>7. m \in pending /\ m.author = a /\ m.number = e[a]
  BY <1>4
<1>8. m.depends \preceq e
  <2>. SUFFICES ASSUME NEW b \in Nodes, e[b] < m.depends[b] PROVE FALSE
    BY <1>2, <1>7 DEF \preceq
  <2>1. b \in waitsFor(a)
    <3>1. m.depends[b] <= created[b]
      BY <1>1, <1>7 DEF PastsComplete, \preceq
    <3>. QED BY <1>2, <1>7, <3>1
  <2>. DEFINE x == next(b)
  <2>2. x \in pending /\ x.author = b /\ x.number = e[b]
    BY <1>4, <2>1
  <2>3. x.depends \preceq m.depends /\ x.depends[b] <= e[b]
    BY <1>1, <1>7, <2>2 DEF PastsComplete
  <2>4. waitsFor(b) \subseteq waitsFor(a)
    <3>. SUFFICES ASSUME NEW d \in behind, e[d] < x.depends[d] PROVE e[d] < m.depends[d]
      OBVIOUS
    <3>1. x.depends[d] <= m.depends[d]
      BY <2>3 DEF \preceq
    <3>. QED BY <1>2, <1>7, <2>2, <3>1
  <2>5. b \notin waitsFor(b)
    BY <1>2, <2>2, <2>3
  <2>6. Cardinality(waitsFor(b)) # Cardinality(waitsFor(a))
    BY <1>5, <2>1, <2>4, <2>5, FS_Subset
  <2>7. Cardinality(waitsFor(b)) <= Cardinality(waitsFor(a))
    BY <1>5, <2>4, FS_Subset
  <2>8. b \in behind
    BY <2>1
  <2>. HIDE DEF waitsFor, behind
  <2>. QED BY <1>5, <1>6, <2>6, <2>7, <2>8
<1>. QED BY <1>7, <1>8 DEF Executable

(* However commands depend on each other: a node that has not executed all   *)
(* commands can execute the next one of some author.                        *)
THEOREM NobodyWaitsForEver == Spec => []NoCausalDeadlock
BY BroadcastInvariance, NoDeadlockLemma, PTL
=============================================================================
