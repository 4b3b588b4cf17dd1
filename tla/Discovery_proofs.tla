-------------------------- MODULE Discovery_proofs ---------------------------
(***************************************************************************)
(* Silence means agreement, for any number of nodes, commands, faults and  *)
(* stops.                                                                  *)
(***************************************************************************)
EXTENDS Discovery, SequenceTheorems, TLAPS

-----------------------------------------------------------------------------
(* Matrices and hashes                                                       *)

(* The empty matrix of a node that is not initialized is no other matrix. *)
LEMMA EmptyIsOther ==
  ASSUME NEW n \in Nodes, NEW S, NEW f \in [Nodes -> S]
  PROVE  f # <<>>
<1>1. DOMAIN f = Nodes
  OBVIOUS
<1>2. DOMAIN <<>> = {}
  OBVIOUS
<1> QED
  BY <1>1, <1>2

(* A node has a matrix of rows, or is not initialized. *)
LEMMA HasMatrix ==
  ASSUME DiscoveryTypeOK, Members, NEW n \in Nodes
  PROVE  /\ uninitialized(n) <=> matrix[n] = <<>>
         /\ ~uninitialized(n) <=> matrix[n] \in [Nodes -> SUBSET Commands]
         /\ ~uninitialized(n) => Row(n) \subseteq Commands
<1>1. matrix[n] = <<>> \/ matrix[n] \in [Nodes -> SUBSET Commands]
  BY DEF DiscoveryTypeOK
<1>2. n \in plan.founders => matrix[n] # <<>>
  BY DEF Members
<1> QED
  BY <1>1, <1>2, EmptyIsOther DEF uninitialized, Row

LEMMA PlanFacts ==
  ASSUME DiscoveryTypeOK
  PROVE  /\ plan \in Plans /\ plan.met \subseteq plan.founders /\ plan.founders \subseteq Nodes
         /\ plan.msgs \subseteq Commands
         /\ \A n \in Nodes : AddNode(n) \notin plan.msgs
         /\ \A n \in Nodes : AddNode(n) \in Commands
<1>1. plan \in Plans
  BY DEF DiscoveryTypeOK
<1>2. plan.msgs \subseteq Commands
  <2>1. plan.msgs \in {p.msgs : p \in Plans}
    BY <1>1
  <2> QED
    BY <2>1 DEF Commands
<1>3. \A n \in Nodes : AddNode(n) \in Commands
  <2> TAKE n \in Nodes
  <2>1. AddNode(n) \in {AddNode(m) : m \in Nodes}
    OBVIOUS
  <2> QED
    BY <2>1 DEF Commands
<1> QED
  BY <1>1, <1>2, <1>3, PlansAssumption

LEMMA HashesDiffer == NoHash = None /\ NoHash \notin Hashes /\ None \notin Nodes
BY NoneAssumption DEF NoHash, Hashes

(* A function over some of the nodes is a hash. *)
LEMMA IsHash ==
  ASSUME NEW K \in SUBSET Nodes, NEW f \in [K -> SUBSET Commands]
  PROVE  f \in Hashes
BY DEF Hashes

LEMMA KnownMembers ==
  ASSUME DiscoveryTypeOK, NEW n \in Nodes
  PROVE  /\ Known(n) \subseteq Nodes
         /\ ~uninitialized(n) => n \in Known(n)
         /\ uninitialized(n) => Known(n) = {}
         /\ \A row : Executed(n, row) \subseteq Nodes /\ n \in Executed(n, row)
BY PlanFacts DEF Known, Executed

LEMMA CalcHash ==
  ASSUME DiscoveryTypeOK, Members, NEW n \in Nodes
  PROVE  /\ calc_my_hash(n) \in Hashes
         /\ DOMAIN calc_my_hash(n) = Known(n)
         /\ ~uninitialized(n) => calc_my_hash(n)[n] = Row(n)
<1>1. Known(n) \in SUBSET Nodes
  BY KnownMembers
<1>2. \A m \in Known(n) : matrix[n][m] \in SUBSET Commands
  BY HasMatrix, KnownMembers
<1>3. calc_my_hash(n) \in [Known(n) -> SUBSET Commands]
  BY <1>2 DEF calc_my_hash
<1> QED
  BY <1>1, <1>3, IsHash, KnownMembers DEF calc_my_hash, Row

(* Who runs and has announced everything has a hash. *)
LEMMA StaleFacts ==
  ASSUME DiscoveryTypeOK, Members, NEW n \in Nodes
  PROVE  /\ Stale(n) => ~uninitialized(n)
         /\ ~uninitialized(n) /\ hash[n][n] = NoHash => Stale(n)
         /\ ~uninitialized(n) /\ ~Stale(n) => hash[n][n] = calc_my_hash(n) /\ hash[n][n] # NoHash
BY CalcHash, HashesDiffer DEF Stale

-----------------------------------------------------------------------------
(* What a step may do to the row and the hash of one node                    *)

(* What is not announced stays so, and a node of which the members change has *)
(* something to announce.                                                    *)
Steady(n) ==
  /\ Stale(n) => Stale(n)'
  /\ Stale(n)' \/ (Known(n)' = Known(n) /\ uninitialized(n)' = uninitialized(n))

Apart(m, n) == /\ chan'[m][n] = chan[m][n] /\ chan'[n][m] = chan[n][m]
               /\ hash'[m][n] = hash[m][n] /\ hash'[n][m] = hash[n][m]
               /\ hash'[m][m] = hash[m][m] /\ hash'[n][n] = hash[n][n]

LEMMA NodeKept ==
  ASSUME plan' = plan, NEW n \in Nodes,
         matrix'[n] = matrix[n], hash'[n][n] = hash[n][n]
  PROVE  Steady(n)
<1>1. uninitialized(n)' = uninitialized(n)
  BY DEF uninitialized
<1>2. Known(n)' = Known(n)
  BY <1>1 DEF Known, Executed, Row
<1>3. calc_my_hash(n)' = calc_my_hash(n)
  BY <1>2 DEF calc_my_hash
<1> QED
  BY <1>1, <1>2, <1>3 DEF Steady, Stale

(* The rows of an initialized node grow.                                      *)
RowsGrow(n) ==
  /\ plan' = plan
  /\ hash'[n][n] = hash[n][n]
  /\ matrix'[n] \in [Nodes -> SUBSET Commands]
  /\ Row(n) \subseteq Row(n)'
  /\ \A m \in Known(n) : matrix[n][m] \subseteq matrix'[n][m]

LEMMA GrowingIsSteady ==
  ASSUME DiscoveryTypeOK, Members, NEW n \in Nodes,
         ~uninitialized(n), Grown(n), RowsGrow(n)
  PROVE  /\ Steady(n) /\ ~uninitialized(n)'
         /\ Row(n)' # Row(n) => Stale(n)'
         /\ ~Stale(n)' => /\ hash[n][n] = calc_my_hash(n)' /\ Known(n)' = Known(n)
                          /\ \A m \in Known(n) : matrix'[n][m] = matrix[n][m]
<1> DEFINE h == hash[n][n]
<1>1. ~uninitialized(n)'
  BY EmptyIsOther DEF RowsGrow, uninitialized
<1>2. Known(n)' = Executed(n, Row(n)') /\ Known(n) = Executed(n, Row(n))
  BY <1>1 DEF Known, RowsGrow, Executed
<1>3. Known(n) \subseteq Nodes /\ Known(n)' \subseteq Nodes /\ n \in Known(n)
  BY KnownMembers, <1>2
<1>4. ASSUME ~Stale(n)'
      PROVE  /\ ~Stale(n) /\ Row(n)' = Row(n) /\ h = calc_my_hash(n)' /\ Known(n)' = Known(n)
             /\ \A m \in Known(n) : matrix'[n][m] = matrix[n][m]
  <2>1. h = calc_my_hash(n)'
    BY <1>1, <1>4 DEF Stale, RowsGrow
  <2>2. h = [m \in Known(n)' |-> matrix'[n][m]]
    BY <2>1 DEF calc_my_hash
  <2>3. h \in [Known(n)' -> SUBSET Commands]
    BY <1>3, <2>2 DEF RowsGrow
  <2>4. h # NoHash
    BY <1>3, <2>3, IsHash, HashesDiffer
  <2>5. /\ h[n] \subseteq Row(n) /\ DOMAIN h = Executed(n, h[n])
        /\ \A m \in Known(n) \cap DOMAIN h : h[m] \subseteq matrix[n][m]
    BY <2>4 DEF Grown
  <2>6. n \in Known(n)'
    BY <1>2, KnownMembers
  <2>7. h[n] = Row(n)'
    BY <2>2, <2>6 DEF Row
  <2>8. Row(n)' = Row(n)
    BY <2>5, <2>7 DEF RowsGrow
  <2>9. Known(n)' = Known(n)
    BY <1>2, <2>8
  <2>10. DOMAIN h = Known(n)
    BY <2>2, <2>9
  <2>11. \A m \in Known(n) : h[m] = matrix'[n][m] /\ matrix'[n][m] = matrix[n][m]
    BY <2>2, <2>5, <2>9, <2>10 DEF RowsGrow
  <2>12. h = calc_my_hash(n)
    BY <2>2, <2>9, <2>11 DEF calc_my_hash
  <2> QED
    BY <2>1, <2>8, <2>9, <2>11, <2>12 DEF Stale
<1>5. Stale(n) => Stale(n)'
  BY <1>4
<1>6. Stale(n)' \/ (Known(n)' = Known(n) /\ uninitialized(n)' = uninitialized(n))
  BY <1>1, <1>4 DEF uninitialized
<1>7. Steady(n)
  BY <1>5, <1>6 DEF Steady
<1>8. Row(n)' # Row(n) => Stale(n)'
  BY <1>4
<1> QED
  BY <1>1, <1>4, <1>7, <1>8

(* What has been announced remains a lower bound of what is known.            *)
LEMMA GrownStays ==
  ASSUME DiscoveryTypeOK, Members, NEW n \in Nodes,
         ~uninitialized(n), Grown(n), RowsGrow(n),
         \A m \in Nodes : matrix'[n][m] \subseteq Row(n)',
         \A m \in Nodes : AddNode(m) \in Row(n)' => ~uninitialized(m)'
  PROVE  Grown(n)'
<1>1. hash'[n][n] = hash[n][n]
  BY DEF RowsGrow
<1>2. SUFFICES ASSUME hash[n][n] # NoHash
      PROVE  /\ hash[n][n][n] \subseteq Row(n)'
             /\ DOMAIN hash[n][n] = Executed(n, hash[n][n][n])'
             /\ \A m \in Known(n)' \cap DOMAIN hash[n][n] : hash[n][n][m] \subseteq matrix'[n][m]
  BY <1>1 DEF Grown, NoHash
<1> DEFINE h == hash[n][n]
<1>3. /\ h[n] \subseteq Row(n) /\ DOMAIN h = Executed(n, h[n])
      /\ \A m \in Known(n) \cap DOMAIN h : h[m] \subseteq matrix[n][m]
  BY <1>2 DEF Grown
<1>4. Executed(n, h[n])' = Executed(n, h[n])
  <2>1. (h[n])' = h[n]
    BY <1>1
  <2> QED
    BY <2>1 DEF Executed, RowsGrow
<1>5. Known(n)' = Executed(n, Row(n)') /\ Known(n) = Executed(n, Row(n))
  <2>1. ~uninitialized(n)'
    BY GrowingIsSteady
  <2> QED
    BY <2>1 DEF Known, RowsGrow, Executed
<1>6. Known(n)' \cap DOMAIN h \subseteq Known(n)
  BY <1>3, <1>5 DEF Executed, RowsGrow
<1> QED
  BY <1>1, <1>3, <1>4, <1>6 DEF RowsGrow

-----------------------------------------------------------------------------
(* What a step may do to two nodes between which nothing is lost             *)

(* A step that neither sends nor delivers anything between them, and after    *)
(* which whoever was going to connect still is, keeps them agreeing.          *)
LEMMA PairKept ==
  ASSUME NEW m \in Nodes, NEW n \in Nodes, Steady(m), Steady(n), Apart(m, n),
         Busy(m, n) => Busy(m, n)', Busy(n, m) => Busy(n, m)',
         Awake(m, n) => Awake(m, n)', Agreeing(m, n)
  PROVE  Agreeing(m, n)'
<1>1. LastIsNews(m, n)'
  BY DEF Agreeing, LastIsNews, Apart, NoHash
<1>2. ASSUME Mutual(m, n)'
      PROVE  Stale(m)' \/ Stale(n)' \/ Heeded(m, n)' \/ Heeded(n, m)'
  <2>1. SUFFICES ASSUME ~Stale(m)', ~Stale(n)'
                 PROVE  Heeded(m, n)' \/ Heeded(n, m)'
    OBVIOUS
  <2>2. Mutual(m, n) /\ ~Stale(m) /\ ~Stale(n)
    BY <1>2, <2>1 DEF Mutual, Steady
  <2>3. Heeded(m, n) \/ Heeded(n, m)
    BY <2>2 DEF Agreeing
  <2> QED
    BY <2>3 DEF Heeded, Apart
<1>3. ASSUME uninitialized(n)', ~uninitialized(m)'
      PROVE  \/ Stale(m)' \/ chan'[m][n] # <<>> \/ chan'[n][m] # <<>>
             \/ Busy(n, m)' \/ Awake(m, n)'
  <2>1. SUFFICES ASSUME ~Stale(m)'
                 PROVE  \/ chan'[m][n] # <<>> \/ chan'[n][m] # <<>>
                        \/ Busy(n, m)' \/ Awake(m, n)'
    OBVIOUS
  <2>2. ~uninitialized(m) /\ ~Stale(m)
    BY <1>3, <2>1 DEF Steady
  <2>3. uninitialized(n)
    BY <1>3 DEF Steady, Stale
  <2> QED
    BY <2>2, <2>3 DEF Agreeing, Apart
<1> QED
  BY <1>1, <1>2, <1>3 DEF Agreeing

-----------------------------------------------------------------------------
(* The initial states                                                        *)

LEMMA InitInv == Init => DiscoveryInv
<1> SUFFICES ASSUME Init PROVE DiscoveryInv
  OBVIOUS
<1>1. plan \in Plans /\ plan.met \subseteq plan.founders /\ plan.founders \subseteq Nodes
  BY PlansAssumption DEF Init
<1>2. \A n \in Nodes : /\ n \in plan.founders => matrix[n] = Nothing
                       /\ n \notin plan.founders => matrix[n] = <<>>
  BY DEF Init
<1>3. Nothing \in [Nodes -> SUBSET Commands]
  BY DEF Nothing
<1>4. \A n \in Nodes : uninitialized(n) <=> n \notin plan.founders
  BY <1>2 DEF uninitialized
<1>5. \A n \in plan.founders : Row(n) = {} /\ Known(n) = plan.founders /\ Executed(n, {}) = plan.founders
  <2> TAKE n \in plan.founders
  <2>1. Row(n) = {}
    BY <1>1, <1>2 DEF Row, Nothing
  <2>2. Executed(n, {}) = plan.founders
    BY DEF Executed
  <2> QED
    BY <1>1, <1>4, <2>1, <2>2 DEF Known
<1>6. \A n \in plan.founders : calc_my_hash(n) = [m \in plan.founders |-> {}]
  BY <1>1, <1>2, <1>5 DEF calc_my_hash, Nothing
<1> DEFINE none == [m \in plan.founders |-> {}]
<1>7. none \in Hashes
  BY <1>1, IsHash
<1>8. \A n, m \in Nodes : hash[n][m] = IF n \in plan.met /\ m \in plan.met THEN none ELSE NoHash
  BY <1>1, <1>6 DEF Init, NoHashes
<1>9. DiscoveryTypeOK
  <2>1. hash \in [Nodes -> [Nodes -> Hashes \cup {NoHash}]]
    <3>1. hash = [n \in Nodes |-> IF n \notin plan.met THEN NoHashes
                       ELSE [m \in Nodes |-> IF m \in plan.met THEN calc_my_hash(n) ELSE NoHash]]
      BY DEF Init
    <3>2. \A n \in plan.met : calc_my_hash(n) \in Hashes
      BY <1>1, <1>6, <1>7
    <3> QED
      BY <3>1, <3>2 DEF NoHashes
  <2>2. matrix \in [Nodes -> {<<>>} \cup [Nodes -> SUBSET Commands]]
    BY <1>3 DEF Init
  <2>3. ips \in [Nodes -> [Nodes -> {"none", "nullptr", "node"}]]
    BY DEF Init
  <2>4. /\ client \in [Nodes -> {"waiting", "act", "leaving", "session", "ended"}]
        /\ target \in [Nodes -> Nodes \cup {None}] /\ server \in [Nodes -> Nodes \cup {None}]
        /\ chan \in [Nodes -> [Nodes -> Seq(Packet)]]
    BY DEF Init
  <2>5. TypeOK
    BY <1>1, <2>3 DEF Init, TypeOK
  <2> QED
    BY <1>1, <2>1, <2>2, <2>3, <2>4, <2>5 DEF DiscoveryTypeOK
<1>10. Members
  <2> SUFFICES ASSUME NEW n \in Nodes
      PROVE  /\ n \in plan.founders => matrix[n] # <<>>
             /\ ips[n][n] = "none" /\ chan[n][n] = <<>>
             /\ n \notin on => /\ hash[n] = NoHashes /\ client[n] = "waiting" /\ server[n] = None
                               /\ \A m \in Nodes : chan[m][n] = <<>>
             /\ uninitialized(n) => hash[n][n] = NoHash
             /\ \A m \in Nodes : ips[n][m] = "node" => ~uninitialized(n) /\ ~uninitialized(m)
    BY DEF Members
  <2>1. n \in plan.founders => matrix[n] # <<>>
    BY <1>2, <1>3, EmptyIsOther
  <2>2. ips[n][n] = "none" /\ \A m \in Nodes : ips[n][m] = "node" => n \in plan.met /\ m \in plan.met
    BY DEF Init
  <2>3. n \notin on => /\ hash[n] = NoHashes /\ client[n] = "waiting" /\ server[n] = None
                       /\ \A m \in Nodes : chan[m][n] = <<>>
    BY DEF Init
  <2>4. chan[n][n] = <<>>
    BY DEF Init
  <2> QED
    BY <1>1, <1>4, <1>8, <2>1, <2>2, <2>3, <2>4
<1>11. ASSUME NEW n \in Nodes, ~uninitialized(n)
       PROVE  Grown(n)
  <2>1. n \in plan.founders /\ Row(n) = {}
    BY <1>4, <1>5, <1>11
  <2>2. \A m \in Nodes : matrix[n][m] = {}
    BY <1>2, <2>1 DEF Nothing
  <2>3. hash[n][n] # NoHash => hash[n][n] = none
    BY <1>8
  <2> QED
    BY <1>5, <2>1, <2>2, <2>3 DEF Grown
<1>12. ASSUME NEW m \in on, NEW n \in on
       PROVE  Agreeing(m, n)
  <2>1. m \in plan.met /\ n \in plan.met /\ m \in Nodes /\ n \in Nodes
    BY <1>1 DEF Init
  <2>2. chan[m][n] = <<>> /\ ~uninitialized(n)
    BY <1>1, <1>4, <2>1 DEF Init
  <2>3. hash[n][m] = hash[m][m] /\ hash[n][n] = hash[m][m]
    BY <1>8, <2>1
  <2> QED
    BY <2>2, <2>3 DEF Agreeing, LastIsNews, Heeded
<1> QED
  BY <1>9, <1>10, <1>11, <1>12 DEF DiscoveryInv

-----------------------------------------------------------------------------
(* Steps that teach nobody anything                                          *)

LEMMA MatrixKept ==
  ASSUME plan' = plan, matrix' = matrix, NEW n \in Nodes
  PROVE  /\ uninitialized(n)' = uninitialized(n) /\ Row(n)' = Row(n) /\ Known(n)' = Known(n)
         /\ calc_my_hash(n)' = calc_my_hash(n)
         /\ hash'[n][n] = hash[n][n] => Steady(n) /\ (Grown(n) => Grown(n)')
<1>1. \A m \in Nodes : uninitialized(m)' = uninitialized(m)
  BY DEF uninitialized
<1>2. Row(n)' = Row(n) /\ \A row : Executed(n, row)' = Executed(n, row)
  BY DEF Row, Executed
<1>3. Known(n)' = Known(n)
  BY <1>1, <1>2 DEF Known, Executed, Row
<1>4. calc_my_hash(n)' = calc_my_hash(n)
  BY <1>3 DEF calc_my_hash
<1>5. ASSUME hash'[n][n] = hash[n][n], Grown(n)
      PROVE  Grown(n)'
  <2>1. Executed(n, hash[n][n][n])' = Executed(n, hash[n][n][n])
    BY <1>5 DEF Executed
  <2> QED
    BY <1>1, <1>2, <1>3, <1>5, <2>1 DEF Grown, NoHash
<1> QED
  BY <1>1, <1>2, <1>3, <1>4, <1>5, NodeKept

(* An announcement says what is known.                                        *)
LEMMA AnnouncedIsKnown ==
  ASSUME DiscoveryTypeOK, Members, plan' = plan, matrix' = matrix, NEW n \in Nodes,
         ~uninitialized(n), Grown(n), hash'[n][n] = calc_my_hash(n)
  PROVE  Grown(n)'
<1>1. Row(n)' = Row(n) /\ Known(n)' = Known(n) /\ \A m \in Nodes : uninitialized(m)' = uninitialized(m)
  BY MatrixKept
<1>2. calc_my_hash(n)[n] = Row(n) /\ DOMAIN calc_my_hash(n) = Known(n)
  BY CalcHash
<1>3. Known(n) = Executed(n, Row(n)) /\ Executed(n, hash[n][n][n])' = Executed(n, calc_my_hash(n)[n])
  BY DEF Known, Executed
<1>4. \A m \in Known(n) : calc_my_hash(n)[m] = matrix[n][m]
  BY DEF calc_my_hash
<1> QED
  BY <1>1, <1>2, <1>3, <1>4 DEF Grown, NoHash

(* If matrices stay, types, members and pairs are left to show.               *)
LEMMA NothingLearnt ==
  ASSUME DiscoveryInv, plan' = plan, matrix' = matrix,
         \A n \in Nodes : hash'[n][n] \in {hash[n][n], NoHash, calc_my_hash(n)},
         DiscoveryTypeOK', Members',
         \A m, n \in on' : m # n /\ {m, n} \in fresh' => Agreeing(m, n)'
  PROVE  DiscoveryInv'
<1>1. ASSUME NEW n \in Nodes, ~uninitialized(n)'
      PROVE  Grown(n)'
  <2>1. ~uninitialized(n) /\ Grown(n) /\ DiscoveryTypeOK /\ Members
    BY <1>1, MatrixKept DEF DiscoveryInv
  <2>2. CASE hash'[n][n] = NoHash
    <3>1. Row(n)' = Row(n) /\ \A m \in Nodes : uninitialized(m)' = uninitialized(m)
      BY MatrixKept
    <3> QED
      BY <2>1, <2>2, <3>1 DEF Grown, NoHash
  <2> QED
    BY <2>1, <2>2, MatrixKept, AnnouncedIsKnown
<1> QED
  BY <1>1 DEF DiscoveryInv

LEMMA WaitInv ==
  ASSUME DiscoveryInv, NEW a \in Nodes, Wait(a)
  PROVE  DiscoveryInv'
<1>1. DiscoveryTypeOK /\ TypeOK /\ Members
  BY DEF DiscoveryInv, DiscoveryTypeOK
<1>2. /\ plan' = plan /\ matrix' = matrix /\ hash' = hash /\ ips' = ips /\ target' = target
      /\ server' = server /\ chan' = chan /\ fresh' = fresh /\ on' = on
      /\ client[a] = "leaving" /\ client' = [client EXCEPT ![a] = "waiting"]
  BY DEF Wait, bounds
<1>3. DiscoveryTypeOK'
  BY <1>1, <1>2 DEF DiscoveryTypeOK, TypeOK, Hashes, NoHash, Packet
<1>4. Members'
  BY <1>1, <1>2, MatrixKept DEF Members, DiscoveryTypeOK, NoHash, NoHashes
<1>5. ASSUME NEW m \in on', NEW n \in on', m # n, {m, n} \in fresh'
      PROVE  Agreeing(m, n)'
  <2>1. m \in Nodes /\ n \in Nodes /\ Agreeing(m, n)
    BY <1>1, <1>2, <1>5 DEF TypeOK, DiscoveryInv
  <2>2. Apart(m, n)
    BY <1>2 DEF Apart
  <2>3. \A x, y \in Nodes : Awake(x, y) => Awake(x, y)'
    BY <1>1, <1>2 DEF Awake, DiscoveryTypeOK
  <2>4. \A x, y \in Nodes : InSession(x, y) => InSession(x, y)'
    BY <1>1, <1>2 DEF InSession, DiscoveryTypeOK
  <2> QED
    BY <1>2, <2>1, <2>2, <2>3, <2>4, MatrixKept, PairKept DEF Busy
<1> QED
  BY <1>2, <1>3, <1>4, <1>5, NothingLearnt

LEMMA TwoNodes ==
  ASSUME NEW m, NEW n, NEW a, NEW b, {m, n} # {a, b}
  PROVE  ~(m = a /\ n = b) /\ ~(m = b /\ n = a)
OBVIOUS

(* A packet that is lost or overtaken: of the two nodes nothing is claimed.   *)
LEMMA FaultInv ==
  ASSUME DiscoveryInv, NEW a \in Nodes, NEW b \in Nodes, NEW packets \in Seq(Packet),
         chan[a][b] # <<>>, chan' = [chan EXCEPT ![a][b] = packets],
         fresh' = fresh \ {{a, b}},
         UNCHANGED <<plan, on, matrix, hash, ips, threads, stops>>
  PROVE  DiscoveryInv'
<1>1. DiscoveryTypeOK /\ TypeOK /\ Members
  BY DEF DiscoveryInv, DiscoveryTypeOK
<1>2. /\ plan' = plan /\ matrix' = matrix /\ hash' = hash /\ ips' = ips /\ target' = target
      /\ server' = server /\ client' = client /\ on' = on
  BY DEF threads
<1>3. chan' \in [Nodes -> [Nodes -> Seq(Packet)]]
  BY <1>1 DEF DiscoveryTypeOK
<1>4. \A m, n \in Nodes : ~(m = a /\ n = b) => chan'[m][n] = chan[m][n]
  BY <1>1 DEF DiscoveryTypeOK
<1>5. DiscoveryTypeOK'
  BY <1>1, <1>2, <1>3 DEF DiscoveryTypeOK, TypeOK, Hashes, NoHash, Packet
<1>6. b \in on
  BY <1>1 DEF Members
<1>7. Members'
  BY <1>1, <1>2, <1>4, <1>6, MatrixKept DEF Members, NoHash, NoHashes
<1>8. ASSUME NEW m \in on', NEW n \in on', m # n, {m, n} \in fresh'
      PROVE  Agreeing(m, n)'
  <2>1. m \in Nodes /\ n \in Nodes /\ Agreeing(m, n)
    BY <1>1, <1>2, <1>8 DEF TypeOK, DiscoveryInv
  <2>2. Apart(m, n)
    BY <1>2, <1>4, <1>8, <2>1, TwoNodes DEF Apart
  <2>3. Awake(m, n)' = Awake(m, n) /\ Awake(n, m)' = Awake(n, m)
    BY <1>2 DEF Awake
  <2>4. InSession(m, n)' = InSession(m, n) /\ InSession(n, m)' = InSession(n, m)
    BY <1>2 DEF InSession
  <2> QED
    BY <1>2, <2>1, <2>2, <2>3, <2>4, MatrixKept, PairKept DEF Busy
<1> QED
  BY <1>2, <1>5, <1>7, <1>8, NothingLearnt

LEMMA LoseInv ==
  ASSUME DiscoveryInv, NEW a \in Nodes, NEW b \in Nodes, Lose(a, b) \/ Overtake(a, b)
  PROVE  DiscoveryInv'
<1> DEFINE old == chan[a][b]
<1>1. old \in Seq(Packet)
  BY DEF DiscoveryInv, DiscoveryTypeOK
<1>2. CASE Lose(a, b)
  <2>1. old # <<>> /\ chan' = [chan EXCEPT ![a][b] = Tail(old)]
    BY <1>2 DEF Lose
  <2>2. Tail(old) \in Seq(Packet)
    BY <1>1, <2>1
  <2> QED
    BY <1>2, <2>1, <2>2, FaultInv DEF Lose, Fault
<1>3. CASE Overtake(a, b)
  <2> DEFINE new == <<old[2], old[1]>> \o SubSeq(old, 3, Len(old))
  <2>1. Len(old) > 1 /\ chan' = [chan EXCEPT ![a][b] = new]
    BY <1>3 DEF Overtake
  <2>2. new \in Seq(Packet)
    <3>1. old[1] \in Packet /\ old[2] \in Packet
      BY <1>1, <2>1
    <3>2. SubSeq(old, 3, Len(old)) \in Seq(Packet)
      BY <1>1
    <3> QED
      BY <3>1, <3>2
  <2>3. old # <<>>
    BY <2>1
  <2> QED
    BY <1>3, <2>1, <2>2, <2>3, FaultInv DEF Overtake, Fault
<1> QED
  BY <1>2, <1>3

LEMMA NotThereInv ==
  ASSUME DiscoveryInv, NEW a \in Nodes, NEW b \in Nodes, NotThere(a, b)
  PROVE  DiscoveryInv'
<1>1. DiscoveryTypeOK /\ TypeOK /\ Members
  BY DEF DiscoveryInv, DiscoveryTypeOK
<1>2. /\ plan' = plan /\ matrix' = matrix /\ hash' = hash /\ target' = target /\ fresh' = fresh
      /\ server' = server /\ client' = client /\ on' = on /\ chan' = chan
      /\ b \notin on /\ ips' = [ips EXCEPT ![a] = [ips[a] EXCEPT ![b] = "none"]]
  BY DEF NotThere, threads, bounds, without
<1>3. ips' \in [Nodes -> [Nodes -> {"none", "nullptr", "node"}]]
  BY <1>1, <1>2 DEF DiscoveryTypeOK
<1>4. \A x, y \in Nodes : ips'[x][y] = IF x = a /\ y = b THEN "none" ELSE ips[x][y]
  BY <1>1, <1>2 DEF DiscoveryTypeOK
<1>5. DiscoveryTypeOK'
  BY <1>1, <1>2, <1>3 DEF DiscoveryTypeOK, TypeOK, Hashes, NoHash, Packet
<1>6. Members'
  BY <1>1, <1>2, <1>4, MatrixKept DEF Members, NoHash, NoHashes
<1>7. ASSUME NEW m \in on', NEW n \in on', m # n, {m, n} \in fresh'
      PROVE  Agreeing(m, n)'
  <2>1. m \in Nodes /\ n \in Nodes /\ Agreeing(m, n)
    BY <1>1, <1>2, <1>7 DEF TypeOK, DiscoveryInv
  <2>2. Apart(m, n)
    BY <1>2 DEF Apart
  <2>3. Awake(m, n)' = Awake(m, n) /\ Awake(n, m)' = Awake(n, m)
    BY <1>2, <1>4, <1>7, <2>1 DEF Awake
  <2>4. InSession(m, n)' = InSession(m, n) /\ InSession(n, m)' = InSession(n, m)
    BY <1>2 DEF InSession
  <2> QED
    BY <1>2, <2>1, <2>2, <2>3, <2>4, MatrixKept, PairKept DEF Busy
<1> QED
  BY <1>2, <1>5, <1>6, <1>7, NothingLearnt

(* A client that leaves has no address of a node that it should connect to.   *)
LEMMA NobodyIsLeft ==
  ASSUME DiscoveryInv, NEW a \in Nodes, NEW b \in on, a # b, Leave(a), {a, b} \in fresh',
         Awake(a, b)
  PROVE  /\ ips[a][b] = "node"
         /\ Mutual(a, b) /\ ~Stale(a) /\ ~Stale(b) /\ hash[a][b] = hash[b][b] =>
               hash[a][a] = hash[b][b] \/ InSession(b, a)
<1>1. DiscoveryTypeOK /\ TypeOK /\ Members /\ b \in Nodes
  BY DEF DiscoveryInv, DiscoveryTypeOK, TypeOK
<1>2. addr_to_connect(a) = {} /\ fresh' = IF LeftOut(a) THEN fresh \ {{a, server[a]}} ELSE fresh
  BY DEF Leave
<1>3. ips[a][b] \in {"nullptr", "node"}
  BY <1>1 DEF Awake, DiscoveryTypeOK
<1>4. ips[a][b] # "nullptr" /\ (ips[a][b] = "node" /\ b \in Known(a) /\ server[a] # b => ~need_communicate(a, b))
  BY <1>1, <1>2 DEF addr_to_connect
<1>5. ASSUME Mutual(a, b), ~Stale(a), ~Stale(b), hash[a][b] = hash[b][b], hash[a][a] # hash[b][b]
      PROVE  InSession(b, a)
  <2>1. ~uninitialized(a) /\ ~uninitialized(b) /\ b \in Known(a)
    BY <1>1, <1>5, KnownMembers DEF Mutual
  <2>2. hash[b][b] # NoHash
    BY <1>1, <1>5, <2>1, StaleFacts
  <2>3. need_communicate(a, b)
    BY <1>5, <2>1, <2>2 DEF need_communicate
  <2>4. server[a] = b
    BY <1>3, <1>4, <2>1, <2>3
  <2>5. b # None
    BY <1>1, HashesDiffer
  <2>6. LeftOut(a) \/ InSession(b, a)
    BY <1>3, <1>4, <2>1, <2>3, <2>4, <2>5 DEF LeftOut
  <2> QED
    BY <1>2, <2>4, <2>6
<1> QED
  BY <1>3, <1>4, <1>5

LEMMA LeaveInv ==
  ASSUME DiscoveryInv, NEW a \in Nodes, Leave(a)
  PROVE  DiscoveryInv'
<1>1. DiscoveryTypeOK /\ TypeOK /\ Members
  BY DEF DiscoveryInv, DiscoveryTypeOK
<1>2. /\ plan' = plan /\ matrix' = matrix /\ hash' = hash /\ ips' = ips /\ target' = target
      /\ server' = server /\ chan' = chan /\ on' = on /\ fresh' \subseteq fresh
      /\ client[a] = "act" /\ client' = [client EXCEPT ![a] = "leaving"]
  BY DEF Leave, bounds
<1>3. DiscoveryTypeOK'
  BY <1>1, <1>2 DEF DiscoveryTypeOK, TypeOK, Hashes, NoHash, Packet
<1>4. \A x \in Nodes : client'[x] = IF x = a THEN "leaving" ELSE client[x]
  BY <1>1, <1>2 DEF DiscoveryTypeOK
<1>5. Members'
  <2>1. a \in on
    BY <1>1, <1>2 DEF Members
  <2> QED
    BY <1>1, <1>2, <1>4, <2>1, MatrixKept DEF Members, NoHash, NoHashes
<1>6. \A x, y \in Nodes : InSession(x, y)' = InSession(x, y)
  BY <1>2, <1>4 DEF InSession
<1>7. \A x, y \in Nodes : x # a => Awake(x, y)' = Awake(x, y)
  BY <1>2, <1>4 DEF Awake
<1>8. ASSUME NEW b \in on, b # a, {a, b} \in fresh'
      PROVE  Agreeing(a, b)' /\ Agreeing(b, a)'
  <2>1. b \in Nodes /\ Agreeing(a, b) /\ Agreeing(b, a)
    <3>1. a \in on /\ {a, b} = {b, a}
      BY <1>1, <1>2 DEF Members
    <3> QED
      BY <1>1, <1>2, <1>8, <3>1 DEF TypeOK, DiscoveryInv
  <2>2. LastIsNews(a, b)' /\ LastIsNews(b, a)'
    BY <1>2, <2>1 DEF Agreeing, LastIsNews, NoHash
  <2>3. ASSUME Mutual(a, b)'
        PROVE  Stale(a)' \/ Stale(b)' \/ Heeded(a, b)' \/ Heeded(b, a)'
    <3>1. SUFFICES ASSUME ~Stale(a)', ~Stale(b)'
                   PROVE  Heeded(a, b)' \/ Heeded(b, a)'
      OBVIOUS
    <3>2. Mutual(a, b) /\ ~Stale(a) /\ ~Stale(b)
      BY <1>2, <2>1, <2>3, <3>1, MatrixKept DEF Mutual, Steady
    <3>3. CASE Heeded(a, b)
      <4>1. Busy(b, a)' = Busy(b, a)
        BY <1>6, <1>7, <1>8, <2>1 DEF Busy
      <4> QED
        BY <1>2, <3>3, <4>1 DEF Heeded
    <3>4. CASE Heeded(b, a)
      <4>1. CASE chan[b][a] # <<>>
        BY <1>2, <4>1 DEF Heeded
      <4>2. CASE hash[a][b] = hash[b][b] /\ hash[a][a] = hash[b][b]
        BY <1>2, <4>2 DEF Heeded
      <4>3. CASE hash[a][b] = hash[b][b] /\ Busy(a, b)
        <5>1. hash[a][a] = hash[b][b] \/ InSession(b, a) \/ InSession(a, b)
          BY <1>8, <3>2, <4>3, NobodyIsLeft DEF Busy
        <5>2. hash[a][a] = hash[b][b] \/ Busy(a, b)'
          BY <1>6, <2>1, <5>1 DEF Busy
        <5> QED
          BY <1>2, <4>3, <5>2 DEF Heeded
      <4> QED
        BY <3>4, <4>1, <4>2, <4>3 DEF Heeded
    <3>5. Heeded(a, b) \/ Heeded(b, a)
      BY <2>1, <3>2 DEF Agreeing
    <3> QED
      BY <3>3, <3>4, <3>5
  <2>4. uninitialized(a) \/ uninitialized(b) => ~Awake(a, b)
    BY <1>1, <1>8, <2>1, NobodyIsLeft DEF Members
  <2>5. /\ uninitialized(a)' = uninitialized(a) /\ uninitialized(b)' = uninitialized(b)
        /\ Stale(a)' = Stale(a) /\ Stale(b)' = Stale(b)
    BY <1>2, <2>1, MatrixKept DEF Stale
  <2>6. /\ Busy(a, b) => Awake(a, b) \/ Busy(a, b)'
        /\ Busy(b, a) => Busy(b, a)'
        /\ Awake(b, a)' = Awake(b, a)
    BY <1>6, <1>7, <1>8, <2>1 DEF Busy
  <2>7. Mutual(b, a)' = Mutual(a, b)'
    BY DEF Mutual
  <2>8. uninitialized(b)' /\ ~uninitialized(a)' =>
            \/ Stale(a)' \/ chan'[a][b] # <<>> \/ chan'[b][a] # <<>>
            \/ Busy(b, a)' \/ Awake(a, b)'
    <3> SUFFICES ASSUME uninitialized(b), ~uninitialized(a)
        PROVE \/ Stale(a)' \/ chan'[a][b] # <<>> \/ chan'[b][a] # <<>>
              \/ Busy(b, a)' \/ Awake(a, b)'
      BY <2>5
    <3>1. ~Awake(a, b)
      BY <2>4
    <3> QED
      BY <1>2, <2>1, <2>5, <2>6, <3>1 DEF Agreeing
  <2>9. uninitialized(a)' /\ ~uninitialized(b)' =>
            \/ Stale(b)' \/ chan'[b][a] # <<>> \/ chan'[a][b] # <<>>
            \/ Busy(a, b)' \/ Awake(b, a)'
    <3> SUFFICES ASSUME uninitialized(a), ~uninitialized(b)
        PROVE \/ Stale(b)' \/ chan'[b][a] # <<>> \/ chan'[a][b] # <<>>
              \/ Busy(a, b)' \/ Awake(b, a)'
      BY <2>5
    <3>1. ~Awake(a, b)
      BY <2>4
    <3>2. \/ Stale(b) \/ chan[b][a] # <<>> \/ chan[a][b] # <<>>
          \/ Busy(a, b) \/ Awake(b, a)
      BY <2>1 DEF Agreeing
    <3>3. Busy(a, b) => Busy(a, b)'
      BY <2>6, <3>1
    <3> QED
      BY <1>2, <2>5, <2>6, <3>2, <3>3
  <2> QED
    BY <2>2, <2>3, <2>7, <2>8, <2>9 DEF Agreeing
<1>9. ASSUME NEW m \in on', NEW n \in on', m # n, {m, n} \in fresh'
      PROVE  Agreeing(m, n)'
  <2>1. m \in Nodes /\ n \in Nodes /\ Agreeing(m, n)
    BY <1>1, <1>2, <1>9 DEF TypeOK, DiscoveryInv
  <2>2. CASE m = a
    BY <1>2, <1>8, <1>9, <2>2
  <2>3. CASE n = a
    <3>1. {a, m} = {m, n}
      BY <2>3
    <3> QED
      BY <1>2, <1>8, <1>9, <2>3, <3>1
  <2>4. CASE m # a /\ n # a
    <3>1. Apart(m, n)
      BY <1>2 DEF Apart
    <3> QED
      BY <1>2, <1>6, <1>7, <2>1, <2>4, <3>1, MatrixKept, PairKept DEF Busy
  <2> QED
    BY <2>2, <2>3, <2>4
<1> QED
  BY <1>2, <1>3, <1>5, <1>9, NothingLearnt

LEMMA EndsInv ==
  ASSUME DiscoveryInv, NEW a \in Nodes, Stop(a) \/ Exit(a)
  PROVE  DiscoveryInv'
<1>1. DiscoveryTypeOK /\ TypeOK /\ Members
  BY DEF DiscoveryInv, DiscoveryTypeOK
<1> DEFINE left == [m \in Nodes |-> [chan[m] EXCEPT ![a] = <<>>]]
           bye(x) == Append(left[a][x], [message |-> "bye", hash |-> NoHash])
           told == [left EXCEPT ![a] = [x \in Nodes |-> IF x \in on \ {a} THEN bye(x) ELSE @[x]]]
<1>2. /\ plan' = plan /\ matrix' = matrix /\ fresh' = fresh /\ on' = on \ {a}
      /\ hash' = [hash EXCEPT ![a] = NoHashes] /\ ips' = [ips EXCEPT ![a] = NoAddresses]
      /\ client' = [client EXCEPT ![a] = "waiting"] /\ target' = [target EXCEPT ![a] = None]
      /\ server' = [server EXCEPT ![a] = None]
      /\ chan' = left \/ chan' = told
  BY DEF Stop, Exit, Ends
<1>3. left \in [Nodes -> [Nodes -> Seq(Packet)]]
  BY <1>1 DEF DiscoveryTypeOK
<1>4. told \in [Nodes -> [Nodes -> Seq(Packet)]]
  <2>1. [message |-> "bye", hash |-> NoHash] \in Packet
    BY DEF Packet
  <2>2. \A x \in Nodes : bye(x) \in Seq(Packet)
    BY <1>3, <2>1
  <2> QED
    BY <1>3, <2>2
<1>5. \A m, x \in Nodes : /\ m # a /\ x # a => chan'[m][x] = chan[m][x]
                          /\ x = a => chan'[m][x] = <<>>
                          /\ x \notin on /\ chan[m][x] = <<>> => chan'[m][x] = <<>>
  <2> TAKE m \in Nodes, x \in Nodes
  <2>1. left[m][x] = IF x = a THEN <<>> ELSE chan[m][x]
    BY <1>1 DEF DiscoveryTypeOK
  <2>2. m # a \/ x \notin on \ {a} => told[m][x] = left[m][x]
    BY <1>3
  <2> QED
    BY <1>2, <2>1, <2>2
<1>6. DiscoveryTypeOK'
  <2>1. hash' \in [Nodes -> [Nodes -> Hashes \cup {NoHash}]]
    BY <1>1, <1>2 DEF DiscoveryTypeOK, NoHashes
  <2>2. ips' \in [Nodes -> [Nodes -> {"none", "nullptr", "node"}]]
    BY <1>1, <1>2 DEF DiscoveryTypeOK, NoAddresses
  <2>3. /\ client' \in [Nodes -> {"waiting", "act", "leaving", "session", "ended"}]
        /\ target' \in [Nodes -> Nodes \cup {None}] /\ server' \in [Nodes -> Nodes \cup {None}]
        /\ \A n \in Nodes : client'[n] = "session" <=> target'[n] # None
    BY <1>1, <1>2 DEF DiscoveryTypeOK, TypeOK
  <2>4. TypeOK'
    BY <1>1, <1>2, <2>2, <2>3 DEF TypeOK
  <2> QED
    BY <1>1, <1>2, <1>3, <1>4, <2>1, <2>2, <2>3, <2>4 DEF DiscoveryTypeOK, Hashes, NoHash, Packet
<1>7. /\ hash'[a] = NoHashes /\ ips'[a] = NoAddresses /\ client'[a] = "waiting" /\ server'[a] = None
      /\ \A x \in Nodes \ {a} : /\ hash'[x] = hash[x] /\ ips'[x] = ips[x] /\ client'[x] = client[x]
                                /\ server'[x] = server[x] /\ target'[x] = target[x]
  BY <1>1, <1>2 DEF DiscoveryTypeOK
<1>8. Members'
  <2> SUFFICES ASSUME NEW n \in Nodes
      PROVE  /\ n \in plan.founders => matrix[n] # <<>>
             /\ ips'[n][n] = "none" /\ chan'[n][n] = <<>>
             /\ n \notin on' => /\ hash'[n] = NoHashes /\ client'[n] = "waiting" /\ server'[n] = None
                                /\ \A m \in Nodes : chan'[m][n] = <<>>
             /\ uninitialized(n) => hash'[n][n] = NoHash
             /\ \A m \in Nodes : ips'[n][m] = "node" => ~uninitialized(n) /\ ~uninitialized(m)
    BY <1>2, MatrixKept DEF Members, NoHash, NoHashes
  <2>1. CASE n = a
    BY <1>1, <1>5, <1>7, <2>1 DEF Members, NoAddresses, NoHashes
  <2>2. CASE n # a
    BY <1>1, <1>2, <1>5, <1>7, <2>2 DEF Members
  <2> QED
    BY <2>1, <2>2
<1>9. ASSUME NEW m \in on', NEW n \in on', m # n, {m, n} \in fresh'
      PROVE  Agreeing(m, n)'
  <2>1. m \in Nodes \ {a} /\ n \in Nodes \ {a} /\ Agreeing(m, n)
    BY <1>1, <1>2, <1>9 DEF TypeOK, DiscoveryInv
  <2>2. Apart(m, n)
    BY <1>5, <1>7, <2>1 DEF Apart
  <2>3. Awake(m, n)' = Awake(m, n) /\ Awake(n, m)' = Awake(n, m)
    BY <1>7, <2>1 DEF Awake
  <2>4. InSession(m, n)' = InSession(m, n) /\ InSession(n, m)' = InSession(n, m)
    BY <1>2, <1>7, <2>1 DEF InSession
  <2> QED
    BY <1>2, <1>7, <2>1, <2>2, <2>3, <2>4, MatrixKept, PairKept DEF Busy
<1>10. \A n \in Nodes : hash'[n][n] \in {hash[n][n], NoHash, calc_my_hash(n)}
  BY <1>7 DEF NoHashes
<1> QED
  BY <1>2, <1>6, <1>8, <1>9, <1>10, NothingLearnt

-----------------------------------------------------------------------------
(* Broadcasts                                                                *)

LEMMA Broadcasts ==
  ASSUME DiscoveryTypeOK, NEW a \in Nodes, NEW message \in {"helo", "not_initialized", "bye"},
         NEW h \in Hashes \cup {NoHash}, broadcast(a, message, h)
  PROVE  /\ chan' \in [Nodes -> [Nodes -> Seq(Packet)]]
         /\ \A m, x \in Nodes : ~(m = a /\ x # a /\ x \in on) => chan'[m][x] = chan[m][x]
         /\ \A x \in on \cap Nodes : x # a => /\ chan'[a][x] # <<>>
                                 /\ Last(chan'[a][x]) = [message |-> message, hash |-> h]
<1> DEFINE p == [message |-> message, hash |-> h]
           row == [x \in Nodes |-> IF x \in on /\ x # a THEN Append(chan[a][x], p) ELSE chan[a][x]]
<1>1. p \in Packet
  BY DEF Packet
<1>2. \A m, x \in Nodes : chan[m][x] \in Seq(Packet)
  BY DEF DiscoveryTypeOK
<1>3. \A x \in Nodes : Append(chan[a][x], p) \in Seq(Packet) /\ Append(chan[a][x], p) # <<>>
                       /\ Last(Append(chan[a][x], p)) = p
  BY <1>1, <1>2 DEF Last
<1>4. row \in [Nodes -> Seq(Packet)]
  BY <1>2, <1>3
<1>5. chan' = [chan EXCEPT ![a] = row]
  BY DEF broadcast
<1>6. chan' \in [Nodes -> [Nodes -> Seq(Packet)]]
  BY <1>4, <1>5 DEF DiscoveryTypeOK
<1>7. \A m \in Nodes : chan'[m] = IF m = a THEN row ELSE chan[m]
  BY <1>5 DEF DiscoveryTypeOK
<1>8. \A x \in Nodes : chan'[a][x] = IF x \in on /\ x # a THEN Append(chan[a][x], p) ELSE chan[a][x]
  BY <1>7
<1> QED
  BY <1>3, <1>6, <1>7, <1>8

(* A node that has announced what it has, to another one with which it agrees *)
(* on the last packets.                                                      *)
LEMMA AnnouncedAgrees ==
  ASSUME NEW a \in Nodes, NEW b \in Nodes, ~uninitialized(a)', hash'[a][a] # NoHash,
         chan'[a][b] # <<>>, Last(chan'[a][b]) = [message |-> "helo", hash |-> hash'[a][a]],
         LastIsNews(b, a)'
  PROVE  Agreeing(a, b)' /\ Agreeing(b, a)'
<1>1. LastIsNews(a, b)' /\ Heeded(a, b)'
  BY DEF LastIsNews, Heeded, NoHash
<1> QED
  BY <1>1 DEF Agreeing

(* The threads go on, and no session or intention of theirs ends.             *)
ThreadsGoOn ==
  /\ client' \in [Nodes -> {"waiting", "act", "leaving", "session", "ended"}]
  /\ server' \in [Nodes -> Nodes \cup {None}]
  /\ \A n \in Nodes :
       /\ client'[n] = "session" <=> target'[n] # None
       /\ client[n] \in {"act", "session", "ended"} => client'[n] \in {"act", "session", "ended"}
       /\ n \notin on => client'[n] = "waiting" /\ server'[n] = None
       /\ \A m \in Nodes : InSession(n, m) => InSession(n, m)'

LEMMA UpdateInv ==
  ASSUME DiscoveryInv, NEW a \in on, update_my_hash(a), ThreadsGoOn,
         UNCHANGED <<on, matrix, ips, target, fresh, bounds>>
  PROVE  DiscoveryInv'
<1>1. DiscoveryTypeOK /\ TypeOK /\ Members /\ a \in Nodes
  BY DEF DiscoveryInv, DiscoveryTypeOK, TypeOK
<1>2. /\ plan' = plan /\ matrix' = matrix /\ fresh' = fresh /\ on' = on
      /\ ips' = ips /\ target' = target
  BY DEF bounds
<1> DEFINE h == calc_my_hash(a)
<1>3. /\ Stale(a) => /\ hash' = [hash EXCEPT ![a][a] = h]
                     /\ broadcast(a, "helo", h) /\ ~uninitialized(a)
      /\ ~Stale(a) => hash' = hash /\ chan' = chan
  BY <1>1, StaleFacts DEF update_my_hash
<1>4. h \in Hashes /\ h # NoHash
  BY <1>1, CalcHash, HashesDiffer
<1>5. /\ hash' \in [Nodes -> [Nodes -> Hashes \cup {NoHash}]]
      /\ \A m, x \in Nodes : hash'[m][x] = IF Stale(a) /\ m = a /\ x = a THEN h ELSE hash[m][x]
  <2>1. CASE Stale(a)
    <3>1. hash' = [hash EXCEPT ![a][a] = h]
      BY <1>3, <2>1
    <3>2. hash' \in [Nodes -> [Nodes -> Hashes \cup {NoHash}]]
      BY <1>1, <1>4, <3>1 DEF DiscoveryTypeOK
    <3>3. \A m, x \in Nodes : hash'[m][x] = IF m = a /\ x = a THEN h ELSE hash[m][x]
      BY <1>1, <3>1 DEF DiscoveryTypeOK
    <3> QED
      BY <2>1, <3>2, <3>3
  <2>2. CASE ~Stale(a)
    BY <1>1, <1>3, <2>2 DEF DiscoveryTypeOK
  <2> QED
    BY <2>1, <2>2
<1>6. /\ chan' \in [Nodes -> [Nodes -> Seq(Packet)]]
      /\ \A m, x \in Nodes : ~(Stale(a) /\ m = a /\ x # a /\ x \in on) => chan'[m][x] = chan[m][x]
      /\ Stale(a) => \A x \in on \cap Nodes : x # a => /\ chan'[a][x] # <<>>
                                 /\ Last(chan'[a][x]) = [message |-> "helo", hash |-> h]
  <2>1. CASE Stale(a)
    BY <1>1, <1>3, <1>4, <2>1, Broadcasts
  <2>2. CASE ~Stale(a)
    BY <1>1, <1>3, <2>2 DEF DiscoveryTypeOK
  <2> QED
    BY <2>1, <2>2
<1>7. DiscoveryTypeOK'
  BY <1>1, <1>2, <1>5, <1>6 DEF DiscoveryTypeOK, TypeOK, Hashes, NoHash, Packet, ThreadsGoOn
<1>8. Members'
  <2> SUFFICES ASSUME NEW n \in Nodes
      PROVE  /\ n \in plan.founders => matrix[n] # <<>>
             /\ ips[n][n] = "none" /\ chan'[n][n] = <<>>
             /\ n \notin on => /\ hash'[n] = NoHashes /\ client'[n] = "waiting" /\ server'[n] = None
                               /\ \A m \in Nodes : chan'[m][n] = <<>>
             /\ uninitialized(n) => hash'[n][n] = NoHash
             /\ \A m \in Nodes : ips[n][m] = "node" => ~uninitialized(n) /\ ~uninitialized(m)
    BY <1>2, MatrixKept DEF Members, NoHash, NoHashes
  <2>1. n \notin on => hash'[n] = hash[n]
    BY <1>1, <1>3 DEF DiscoveryTypeOK
  <2>2. uninitialized(n) => hash'[n][n] = hash[n][n]
    BY <1>1, <1>3, <1>5
  <2>3. n \notin on => \A m \in Nodes : chan'[m][n] = <<>>
    <3> SUFFICES ASSUME n \notin on, NEW m \in Nodes PROVE chan'[m][n] = <<>>
      OBVIOUS
    <3>1. chan'[m][n] = chan[m][n]
      BY <1>6
    <3>2. chan[m][n] = <<>>
      BY <1>1 DEF Members
    <3> QED
      BY <3>1, <3>2
  <2>4. n \notin on => client'[n] = "waiting" /\ server'[n] = None
    BY DEF ThreadsGoOn
  <2>5. chan'[n][n] = chan[n][n] /\ chan[n][n] = <<>>
    BY <1>1, <1>6 DEF Members
  <2> QED
    BY <1>1, <2>1, <2>2, <2>3, <2>4, <2>5 DEF Members
<1>9. ASSUME NEW m \in on', NEW n \in on', m # n, {m, n} \in fresh'
      PROVE  Agreeing(m, n)'
  <2>1. m \in Nodes /\ n \in Nodes /\ Agreeing(m, n) /\ Agreeing(n, m)
    <3>1. {m, n} = {n, m}
      OBVIOUS
    <3> QED
      BY <1>1, <1>2, <1>9, <3>1 DEF TypeOK, DiscoveryInv
  <2>2. CASE Stale(a) /\ (m = a \/ n = a)
    <3>1. PICK b \in {m, n} : b # a /\ ((m = a /\ n = b) \/ (m = b /\ n = a))
      BY <1>9, <2>2
    <3>2. b \in on /\ b \in Nodes /\ LastIsNews(b, a)
      BY <1>2, <1>9, <2>1, <3>1 DEF Agreeing
    <3>3. LastIsNews(b, a)'
      BY <1>1, <1>5, <1>6, <3>1, <3>2 DEF LastIsNews, NoHash
    <3>4. hash'[a][a] = h /\ ~uninitialized(a)'
      BY <1>1, <1>2, <1>3, <1>5, <2>2, MatrixKept
    <3> QED
      BY <1>1, <1>4, <1>6, <2>2, <3>1, <3>2, <3>3, <3>4, AnnouncedAgrees
  <2>3. CASE ~(Stale(a) /\ (m = a \/ n = a))
    <3>1. Apart(m, n)
      BY <1>5, <1>6, <2>1, <2>3 DEF Apart
    <3>2. \A x, y \in Nodes : Awake(x, y) => Awake(x, y)'
      BY <1>2 DEF Awake, ThreadsGoOn
    <3>3. \A x, y \in Nodes : InSession(x, y) => InSession(x, y)'
      BY DEF ThreadsGoOn
    <3> QED
      BY <1>2, <2>1, <3>1, <3>2, <3>3, MatrixKept, PairKept DEF Busy, Apart
  <2> QED
    BY <2>2, <2>3
<1>10. \A n \in Nodes : hash'[n][n] \in {hash[n][n], NoHash, calc_my_hash(n)}
  BY <1>5
<1> QED
  BY <1>2, <1>7, <1>8, <1>9, <1>10, NothingLearnt

LEMMA AnnouncesInv ==
  ASSUME DiscoveryInv, NEW a \in Nodes, PendingCommands(a) \/ ClientEnds(a) \/ ServerEnds(a)
  PROVE  DiscoveryInv'
<1>1. DiscoveryTypeOK /\ TypeOK /\ Members
  BY DEF DiscoveryInv, DiscoveryTypeOK
<1>2. \A n \in Nodes : n \notin on => client[n] = "waiting" /\ server[n] = None
  BY <1>1 DEF Members
<1>3. CASE PendingCommands(a)
  <2>1. ThreadsGoOn /\ a \in on
    BY <1>1, <1>2, <1>3 DEF PendingCommands, threads, ThreadsGoOn, InSession, DiscoveryTypeOK, TypeOK
  <2> QED
    BY <1>3, <2>1, UpdateInv DEF PendingCommands, threads
<1>4. CASE ClientEnds(a)
  <2>1. client[a] = "ended" /\ client' = [client EXCEPT ![a] = "act"] /\ server' = server /\ target' = target
        /\ on' = on
    BY <1>4 DEF ClientEnds
  <2>2. \A n, m \in Nodes : InSession(n, m) => InSession(n, m)'
    BY <1>1, <2>1 DEF InSession, DiscoveryTypeOK
  <2>3. ThreadsGoOn /\ a \in on
    BY <1>1, <1>2, <2>1, <2>2 DEF ThreadsGoOn, DiscoveryTypeOK, TypeOK
  <2> QED
    BY <1>4, <2>3, UpdateInv DEF ClientEnds
<1>5. CASE ServerEnds(a)
  <2>1. server[a] # None /\ server' = [server EXCEPT ![a] = None] /\ client' = client /\ target' = target
        /\ on' = on /\ ~InSession(server[a], a)
    BY <1>5 DEF ServerEnds
  <2>2. \A n, m \in Nodes : InSession(n, m) => InSession(n, m)'
    BY <1>1, <2>1 DEF InSession, DiscoveryTypeOK
  <2>3. ThreadsGoOn /\ a \in on
    BY <1>1, <1>2, <2>1, <2>2 DEF ThreadsGoOn, DiscoveryTypeOK, TypeOK
  <2> QED
    BY <1>5, <2>3, UpdateInv DEF ServerEnds
<1> QED
  BY <1>3, <1>4, <1>5

LEMMA StartInv ==
  ASSUME DiscoveryInv, NEW a \in Nodes, Start(a)
  PROVE  DiscoveryInv'
<1>1. DiscoveryTypeOK /\ TypeOK /\ Members
  BY DEF DiscoveryInv, DiscoveryTypeOK
<1>2. /\ plan' = plan /\ matrix' = matrix /\ fresh' = Anew(a) /\ on' = on \cup {a} /\ a \notin on
      /\ ips' = ips /\ client' = client /\ target' = target /\ server' = server
  BY DEF Start, bounds, threads
<1> DEFINE h == calc_my_hash(a)
           said == IF uninitialized(a) THEN NoHash ELSE h
           word == IF uninitialized(a) THEN "not_initialized" ELSE "helo"
<1>3. broadcast(a, word, said) /\ hash' = IF uninitialized(a) THEN hash
                                          ELSE [hash EXCEPT ![a] = [NoHashes EXCEPT ![a] = h]]
  BY DEF Start
<1>4. h \in Hashes /\ h # NoHash /\ word \in {"helo", "not_initialized", "bye"}
  BY <1>1, CalcHash, HashesDiffer
<1>5. /\ hash' \in [Nodes -> [Nodes -> Hashes \cup {NoHash}]]
      /\ hash'[a][a] = said /\ \A m \in Nodes : m # a => hash'[m] = hash[m]
  <2>1. [NoHashes EXCEPT ![a] = h] \in [Nodes -> Hashes \cup {NoHash}]
    BY <1>4 DEF NoHashes
  <2>2. hash[a] = NoHashes
    BY <1>1, <1>2 DEF Members
  <2> QED
    BY <1>1, <1>3, <2>1, <2>2 DEF DiscoveryTypeOK, NoHashes
<1>6. /\ chan' \in [Nodes -> [Nodes -> Seq(Packet)]]
      /\ \A m, x \in Nodes : ~(m = a /\ x # a /\ x \in on) => chan'[m][x] = chan[m][x]
      /\ \A x \in on \cap Nodes : x # a => /\ chan'[a][x] # <<>>
                                 /\ Last(chan'[a][x]) = [message |-> word, hash |-> said]
  BY <1>1, <1>3, <1>4, Broadcasts
<1>7. DiscoveryTypeOK'
  BY <1>1, <1>2, <1>5, <1>6 DEF DiscoveryTypeOK, TypeOK, Hashes, NoHash, Packet
<1>8. Members'
  <2> SUFFICES ASSUME NEW n \in Nodes
      PROVE  /\ n \in plan.founders => matrix[n] # <<>>
             /\ ips[n][n] = "none" /\ chan'[n][n] = <<>>
             /\ n \notin on' => /\ hash'[n] = NoHashes /\ client[n] = "waiting" /\ server[n] = None
                               /\ \A m \in Nodes : chan'[m][n] = <<>>
             /\ uninitialized(n) => hash'[n][n] = NoHash
             /\ \A m \in Nodes : ips[n][m] = "node" => ~uninitialized(n) /\ ~uninitialized(m)
    BY <1>2, MatrixKept DEF Members, NoHash, NoHashes
  <2>1. n \notin on' => n # a /\ n \notin on /\ hash'[n] = hash[n]
    BY <1>2, <1>5
  <2>2. uninitialized(n) => hash'[n][n] = NoHash
    BY <1>1, <1>5 DEF Members
  <2>3. n \notin on' => \A m \in Nodes : chan'[m][n] = <<>>
    <3> SUFFICES ASSUME n \notin on', NEW m \in Nodes PROVE chan'[m][n] = <<>>
      OBVIOUS
    <3>1. chan'[m][n] = chan[m][n]
      BY <1>6, <2>1
    <3>2. chan[m][n] = <<>>
      BY <1>1, <2>1 DEF Members
    <3> QED
      BY <3>1, <3>2
  <2>4. chan'[n][n] = chan[n][n] /\ chan[n][n] = <<>>
    BY <1>1, <1>6 DEF Members
  <2> QED
    BY <1>1, <2>1, <2>2, <2>3, <2>4 DEF Members
<1>9. \A x, y \in Nodes : Awake(x, y)' = Awake(x, y) /\ (InSession(x, y) => InSession(x, y)')
  BY <1>2 DEF Awake, InSession
<1>10. ASSUME NEW b \in on, b # a
       PROVE  Agreeing(a, b)' /\ Agreeing(b, a)'
  <2>1. b \in Nodes
    BY <1>1 DEF TypeOK
  <2>2. chan'[b][a] = <<>>
    <3>1. chan'[b][a] = chan[b][a]
      BY <1>6, <1>10, <2>1
    <3>2. chan[b][a] = <<>>
      BY <1>1, <1>2, <2>1 DEF Members
    <3> QED
      BY <3>1, <3>2
  <2>3. LastIsNews(b, a)'
    BY <2>2 DEF LastIsNews
  <2>4. chan'[a][b] # <<>> /\ Last(chan'[a][b]) = [message |-> word, hash |-> said]
    BY <1>6, <1>10, <2>1
  <2>5. uninitialized(a)' = uninitialized(a)
    BY <1>2, MatrixKept
  <2>6. CASE uninitialized(a)
    <3>1. LastIsNews(a, b)'
      BY <1>5, <2>4, <2>6 DEF LastIsNews, NoHash
    <3>2. Known(a)' = {}
      BY <2>5, <2>6 DEF Known
    <3> QED
      BY <2>3, <2>4, <2>5, <2>6, <3>1, <3>2 DEF Agreeing, Mutual
  <2>7. CASE ~uninitialized(a)
    BY <1>4, <1>5, <2>1, <2>3, <2>4, <2>5, <2>7, AnnouncedAgrees
  <2> QED
    BY <2>6, <2>7
<1>11. ASSUME NEW m \in on', NEW n \in on', m # n, {m, n} \in fresh'
       PROVE  Agreeing(m, n)'
  <2>1. CASE m = a \/ n = a
    BY <1>2, <1>10, <1>11, <2>1
  <2>2. CASE m # a /\ n # a
    <3>1. {m, n} \in fresh
      BY <1>2, <1>11, <2>2 DEF Anew
    <3>2. m \in Nodes /\ n \in Nodes /\ Agreeing(m, n)
      BY <1>1, <1>2, <1>11, <2>2, <3>1 DEF TypeOK, DiscoveryInv
    <3>3. Apart(m, n)
      BY <1>5, <1>6, <2>2, <3>2 DEF Apart
    <3> QED
      BY <1>2, <1>9, <3>2, <3>3, MatrixKept, PairKept DEF Busy, Apart
  <2> QED
    BY <2>1, <2>2
<1>12. \A n \in Nodes : hash'[n][n] \in {hash[n][n], NoHash, calc_my_hash(n)}
  BY <1>5
<1> QED
  BY <1>2, <1>7, <1>8, <1>11, <1>12, NothingLearnt

-----------------------------------------------------------------------------
(* What is heard                                                             *)

LEMMA KnownAreInitialized ==
  ASSUME DiscoveryInv, NEW n \in Nodes, NEW m \in Known(n)
  PROVE  m \in Nodes /\ ~uninitialized(m) /\ ~uninitialized(n)
<1>1. DiscoveryTypeOK /\ Members
  BY DEF DiscoveryInv
<1>2. ~uninitialized(n) /\ m \in Nodes
  BY <1>1, KnownMembers
<1>3. Grown(n) /\ (m = n \/ m \in plan.founders \/ AddNode(m) \in Row(n))
  BY <1>2 DEF DiscoveryInv, Known, Executed
<1> QED
  BY <1>2, <1>3 DEF Grown, uninitialized

LEMMA TailKeepsLast ==
  ASSUME NEW s \in Seq(Packet), s # <<>>
  PROVE  /\ Head(s) \in Packet /\ Tail(s) \in Seq(Packet)
         /\ Tail(s) # <<>> => Last(Tail(s)) = Last(s)
         /\ Tail(s) = <<>> => Last(s) = Head(s)
<1>1. Head(s) \in Packet /\ Tail(s) \in Seq(Packet) /\ Len(Tail(s)) = Len(s) - 1 /\ Len(s) \in Nat \ {0}
  OBVIOUS
<1>2. ASSUME Tail(s) # <<>> PROVE Last(Tail(s)) = Last(s)
  <2>1. Len(s) - 1 \in 1 .. Len(Tail(s))
    BY <1>1, <1>2
  <2>2. Tail(s)[Len(s) - 1] = s[Len(s)]
    BY <1>1, <2>1
  <2> QED
    BY <1>1, <2>2 DEF Last
<1>3. ASSUME Tail(s) = <<>> PROVE Last(s) = Head(s)
  <2> DEFINE k == Len(s)
             j == Len(Tail(s))
  <2>1. k \in Nat /\ j = k - 1
    BY <1>1
  <2>2. j = 0
    BY <1>1, <1>3, EmptySeq
  <2> HIDE DEF k, j
  <2>3. k = 1
    BY <2>1, <2>2
  <2> QED
    BY <2>3 DEF Last, k
<1> QED
  BY <1>1, <1>2, <1>3

(* Somebody is noticed: the client of b is going to look for addresses, or    *)
(* nothing is claimed of the two.                                            *)
LEMMA Notified ==
  ASSUME DiscoveryTypeOK, NEW a \in Nodes, NEW b \in Nodes, notify(b, a)
  PROVE  /\ client' \in [Nodes -> {"waiting", "act", "leaving", "session", "ended"}]
         /\ \A x \in Nodes : \/ client'[x] = client[x]
                             \/ x = b /\ client[x] = "waiting" /\ client'[x] = "act"
         /\ fresh' \subseteq fresh
         /\ client'[b] \in {"act", "session", "ended"} \/ {a, b} \notin fresh'
BY DEF notify, DiscoveryTypeOK

LEMMA ReceiveInv ==
  ASSUME DiscoveryInv, NEW a \in Nodes, NEW b \in Nodes, Receive(a, b)
  PROVE  DiscoveryInv'
<1>1. DiscoveryTypeOK /\ TypeOK /\ Members
  BY DEF DiscoveryInv, DiscoveryTypeOK
<1> DEFINE old == chan[a][b]
           p == Head(old)
           heard == p.message # "bye" /\ ~(p.message = "not_initialized" /\ uninitialized(b))
<1>2. /\ plan' = plan /\ matrix' = matrix /\ on' = on /\ target' = target /\ server' = server
      /\ b \in on /\ old # <<>> /\ chan' = [chan EXCEPT ![a][b] = Tail(old)]
  BY DEF Receive, bounds
<1>3. old \in Seq(Packet)
  BY <1>1 DEF DiscoveryTypeOK
<1>4. p \in Packet /\ p.hash \in Hashes \cup {NoHash}
  BY <1>2, <1>3, TailKeepsLast DEF Packet
<1>5. a # b
  BY <1>1, <1>2 DEF Members
<1>6. /\ chan' \in [Nodes -> [Nodes -> Seq(Packet)]]
      /\ \A m, x \in Nodes : chan'[m][x] = IF m = a /\ x = b THEN Tail(old) ELSE chan[m][x]
  <2>1. Tail(old) \in Seq(Packet)
    BY <1>2, <1>3
  <2> QED
    BY <1>1, <1>2, <2>1 DEF DiscoveryTypeOK
<1>7. /\ heard => add_node(b, a, p.hash) /\ notify(b, a)
      /\ ~heard => hash' = hash /\ client' = client /\ fresh' = fresh
      /\ ~heard => ips' = ips \/ ips' = [ips EXCEPT ![b][a] = "none"]
  BY DEF Receive
<1>8. /\ hash' \in [Nodes -> [Nodes -> Hashes \cup {NoHash}]]
      /\ \A x, y \in Nodes : ~(x = b /\ y = a) => hash'[x][y] = hash[x][y]
      /\ \A x \in Nodes : x # b => hash'[x] = hash[x]
      /\ heard /\ a \in Known(b) => hash'[b][a] = p.hash
  <2>1. /\ heard /\ a \in Known(b) => hash' = [hash EXCEPT ![b][a] = p.hash]
        /\ ~(heard /\ a \in Known(b)) => hash' = hash
    BY <1>7 DEF add_node
  <2>2. CASE hash' = hash
    BY <1>1, <2>1, <2>2 DEF DiscoveryTypeOK
  <2>3. CASE hash' = [hash EXCEPT ![b][a] = p.hash]
    BY <1>1, <1>4, <2>3 DEF DiscoveryTypeOK
  <2> QED
    BY <2>1, <2>2, <2>3
<1>9. /\ ips' \in [Nodes -> [Nodes -> {"none", "nullptr", "node"}]]
      /\ \A x, y \in Nodes : ~(x = b /\ y = a) => ips'[x][y] = ips[x][y]
      /\ ips'[b][a] = "node" => ips[b][a] = "node" \/ a \in Known(b)
      /\ heard => ips'[b][a] # "none"
  <2>1. PICK new \in {"none", "nullptr", "node", ips[b][a]} :
          /\ ips' = [ips EXCEPT ![b][a] = new]
          /\ heard => new # "none"
          /\ new = "node" => ips[b][a] = "node" \/ a \in Known(b)
    <3>1. ips = [ips EXCEPT ![b][a] = ips[b][a]]
      BY <1>1 DEF DiscoveryTypeOK
    <3>2. CASE heard
      BY <1>7, <3>2 DEF add_node
    <3>3. CASE ~heard
      BY <1>7, <3>1, <3>3
    <3> QED
      BY <3>2, <3>3
  <2> QED
    BY <1>1, <2>1 DEF DiscoveryTypeOK
<1>10. /\ client' \in [Nodes -> {"waiting", "act", "leaving", "session", "ended"}]
       /\ \A x \in Nodes : \/ client'[x] = client[x]
                           \/ x = b /\ client[x] = "waiting" /\ client'[x] = "act"
       /\ fresh' \subseteq fresh
       /\ heard => client'[b] \in {"act", "session", "ended"} \/ {a, b} \notin fresh'
  BY <1>1, <1>7, Notified DEF DiscoveryTypeOK
<1>11. DiscoveryTypeOK'
  <2>1. \A n \in Nodes : client'[n] = "session" <=> client[n] = "session"
    BY <1>10
  <2>2. TypeOK'
    BY <1>1, <1>2, <1>9, <1>10, <2>1 DEF TypeOK
  <2> QED
    BY <1>1, <1>2, <1>6, <1>8, <1>9, <1>10, <2>2 DEF DiscoveryTypeOK, Hashes, NoHash, Packet
<1>12. Members'
  <2> SUFFICES ASSUME NEW n \in Nodes
      PROVE  /\ n \in plan.founders => matrix[n] # <<>>
             /\ ips'[n][n] = "none" /\ chan'[n][n] = <<>>
             /\ n \notin on => /\ hash'[n] = NoHashes /\ client'[n] = "waiting" /\ server[n] = None
                               /\ \A m \in Nodes : chan'[m][n] = <<>>
             /\ uninitialized(n) => hash'[n][n] = NoHash
             /\ \A m \in Nodes : ips'[n][m] = "node" => ~uninitialized(n) /\ ~uninitialized(m)
    BY <1>2, MatrixKept DEF Members, NoHash, NoHashes
  <2>1. n \notin on => n # b /\ hash'[n] = hash[n] /\ client'[n] = client[n]
    BY <1>2, <1>8, <1>10
  <2>2. uninitialized(n) => hash'[n][n] = NoHash
    BY <1>1, <1>5, <1>8 DEF Members
  <2>3. n \notin on => \A m \in Nodes : chan'[m][n] = <<>>
    <3> SUFFICES ASSUME n \notin on, NEW m \in Nodes PROVE chan'[m][n] = <<>>
      OBVIOUS
    <3>1. chan'[m][n] = chan[m][n]
      BY <1>2, <1>6
    <3>2. chan[m][n] = <<>>
      BY <1>1 DEF Members
    <3> QED
      BY <3>1, <3>2
  <2>4. chan'[n][n] = <<>> /\ ips'[n][n] = "none"
    <3>1. chan'[n][n] = chan[n][n] /\ ips'[n][n] = ips[n][n]
      BY <1>5, <1>6, <1>9
    <3> QED
      BY <1>1, <3>1 DEF Members
  <2>5. ASSUME NEW m \in Nodes, ips'[n][m] = "node"
        PROVE  ~uninitialized(n) /\ ~uninitialized(m)
    BY <1>1, <1>9, <2>5, KnownAreInitialized DEF Members
  <2> QED
    BY <1>1, <2>1, <2>2, <2>3, <2>4, <2>5 DEF Members
<1>13. \A x, y \in Nodes : InSession(x, y)' = InSession(x, y)
  BY <1>2, <1>10 DEF InSession
<1>14. \A x, y \in Nodes : ~(x = b /\ y = a) /\ Awake(x, y) => Awake(x, y)'
  BY <1>9, <1>10 DEF Awake
<1>15. /\ uninitialized(a)' = uninitialized(a) /\ uninitialized(b)' = uninitialized(b)
       /\ Stale(a)' = Stale(a) /\ Stale(b)' = Stale(b)
       /\ Known(a)' = Known(a) /\ Known(b)' = Known(b)
  BY <1>2, <1>5, <1>8, MatrixKept DEF Stale
<1>16. ASSUME a \in on, {a, b} \in fresh'
       PROVE  Agreeing(a, b)' /\ Agreeing(b, a)'
  <2>1. Agreeing(a, b) /\ Agreeing(b, a)
    <3>1. {a, b} = {b, a}
      OBVIOUS
    <3> QED
      BY <1>2, <1>5, <1>10, <1>16, <3>1 DEF DiscoveryInv
  <2>2. LastIsNews(b, a)'
    BY <1>5, <1>6, <1>8, <2>1 DEF Agreeing, LastIsNews, NoHash
  <2>3. hash'[a][a] = hash[a][a] /\ chan'[a][b] = Tail(old)
    BY <1>5, <1>6, <1>8
  <2>4. CASE Tail(old) # <<>>
    <3>1. LastIsNews(a, b)'
      BY <1>2, <1>3, <2>1, <2>3, <2>4, TailKeepsLast DEF Agreeing, LastIsNews, NoHash
    <3> QED
      BY <2>2, <2>3, <2>4, <3>1 DEF Agreeing, Heeded
  <2>5. CASE Tail(old) = <<>>
    <3>1. LastIsNews(a, b)'
      BY <2>3, <2>5 DEF LastIsNews
    <3>2. p = [message |-> IF hash[a][a] = NoHash THEN "not_initialized" ELSE "helo", hash |-> hash[a][a]]
      BY <1>2, <1>3, <2>1, <2>5, TailKeepsLast DEF Agreeing, LastIsNews
    <3>3. p.message # "bye" /\ p.hash = hash[a][a] /\ (hash[a][a] # NoHash => p.message = "helo")
      BY <3>2
    <3>4. heard => Awake(b, a)'
      BY <1>9, <1>10, <1>16 DEF Awake
    <3>5. ASSUME Mutual(a, b)', ~Stale(a)', ~Stale(b)'
          PROVE  Heeded(a, b)'
      <4>1. a \in Known(b) /\ ~uninitialized(b)
        BY <1>1, <1>15, <3>5, KnownMembers DEF Mutual
      <4>2. heard
        BY <3>3, <4>1
      <4> QED
        BY <1>8, <2>3, <3>3, <3>4, <4>1, <4>2 DEF Heeded, Busy
    <3>6. ASSUME uninitialized(b), ~uninitialized(a), ~Stale(a)
          PROVE  Awake(b, a)'
      BY <1>1, <3>3, <3>4, <3>6, StaleFacts
    <3>7. ASSUME uninitialized(a), ~uninitialized(b)
          PROVE  Awake(b, a)'
      BY <3>3, <3>4, <3>7
    <3>8. Mutual(b, a)' = Mutual(a, b)'
      BY DEF Mutual
    <3> QED
      BY <1>15, <2>2, <3>1, <3>5, <3>6, <3>7, <3>8 DEF Agreeing, Busy
  <2> QED
    BY <2>4, <2>5
<1>17. ASSUME NEW m \in on', NEW n \in on', m # n, {m, n} \in fresh'
       PROVE  Agreeing(m, n)'
  <2>1. m \in Nodes /\ n \in Nodes /\ Agreeing(m, n)
    BY <1>1, <1>2, <1>10, <1>17 DEF TypeOK, DiscoveryInv
  <2>2. CASE {m, n} = {a, b}
    <3>1. (m = a /\ n = b) \/ (m = b /\ n = a)
      BY <1>5, <1>17, <2>2
    <3> QED
      BY <1>2, <1>16, <1>17, <2>2, <3>1
  <2>3. CASE {m, n} # {a, b}
    <3>1. ~(m = a /\ n = b) /\ ~(m = b /\ n = a)
      BY <2>3
    <3>2. Apart(m, n)
      BY <1>5, <1>6, <1>8, <2>1, <3>1 DEF Apart
    <3> QED
      BY <1>2, <1>13, <1>14, <2>1, <3>1, <3>2, MatrixKept, PairKept DEF Busy, Apart
  <2> QED
    BY <2>2, <2>3
<1>18. \A n \in Nodes : hash'[n][n] \in {hash[n][n], NoHash, calc_my_hash(n)}
  BY <1>5, <1>8
<1> QED
  BY <1>2, <1>11, <1>12, <1>17, <1>18, NothingLearnt

-----------------------------------------------------------------------------
(* Connections                                                               *)

(* What both learn from their greetings *)
LEMMA Greeting ==
  ASSUME DiscoveryTypeOK, NEW a \in Nodes, NEW b \in Nodes, a # b,
         hash' = [hash EXCEPT ![a] = greeted(a, b), ![b] = greeted(b, a)]
  PROVE  /\ hash' \in [Nodes -> [Nodes -> Hashes \cup {NoHash}]]
         /\ \A x, y \in Nodes : ~(x = a /\ y = b) /\ ~(x = b /\ y = a) => hash'[x][y] = hash[x][y]
         /\ \A x \in Nodes : x # a /\ x # b => hash'[x] = hash[x]
         /\ b \in Known(a) => hash'[a][b] = hash[b][b]
         /\ a \in Known(b) => hash'[b][a] = hash[a][a]
<1>1. \A x, y \in Nodes : hash[x] \in [Nodes -> Hashes \cup {NoHash}] /\ hash[x][y] \in Hashes \cup {NoHash}
  BY DEF DiscoveryTypeOK
<1>2. ASSUME NEW x \in Nodes, NEW y \in Nodes
      PROVE  /\ greeted(x, y) \in [Nodes -> Hashes \cup {NoHash}]
             /\ \A z \in Nodes : z # y => greeted(x, y)[z] = hash[x][z]
             /\ y \in Known(x) => greeted(x, y)[y] = hash[y][y]
  BY <1>1 DEF greeted
<1>3. /\ hash'[a] = greeted(a, b) /\ hash'[b] = greeted(b, a)
      /\ \A x \in Nodes : x # a /\ x # b => hash'[x] = hash[x]
      /\ hash' \in [Nodes -> [Nodes -> Hashes \cup {NoHash}]]
  BY <1>2 DEF DiscoveryTypeOK
<1>4. ASSUME NEW x \in Nodes, NEW y \in Nodes, ~(x = a /\ y = b), ~(x = b /\ y = a)
      PROVE  hash'[x][y] = hash[x][y]
  <2>1. CASE x = a
    <3>1. greeted(a, b)[y] = hash[a][y]
      BY <1>2, <1>4, <2>1
    <3> QED
      BY <1>3, <2>1, <3>1
  <2>2. CASE x = b
    <3>1. greeted(b, a)[y] = hash[b][y]
      BY <1>2, <1>4, <2>2
    <3> QED
      BY <1>3, <2>2, <3>1
  <2> QED
    BY <1>3, <2>1, <2>2
<1>5. b \in Known(a) => hash'[a][b] = hash[b][b]
  BY <1>2, <1>3
<1>6. a \in Known(b) => hash'[b][a] = hash[a][a]
  BY <1>2, <1>3
<1> QED
  BY <1>3, <1>4, <1>5, <1>6

(* Who is connected to has the address of the other one.                      *)
LEMMA Served ==
  ASSUME DiscoveryInv, NEW a \in Nodes, NEW b \in Nodes
  PROVE  /\ served(b, a) \in [Nodes -> {"none", "nullptr", "node"}]
         /\ served(b, a)[a] # "none"
         /\ served(b, a)[a] = "node" => ~uninitialized(b) /\ ~uninitialized(a)
         /\ \A x \in Nodes : x # a => served(b, a)[x] = ips[b][x]
         /\ without(a, b) \in [Nodes -> {"none", "nullptr", "node"}]
         /\ without(a, b)[b] = "none"
         /\ \A x \in Nodes : x # b => without(a, b)[x] = ips[a][x]
<1>1. DiscoveryTypeOK
  BY DEF DiscoveryInv
<1>2. ips[a] \in [Nodes -> {"none", "nullptr", "node"}] /\ ips[b] \in [Nodes -> {"none", "nullptr", "node"}]
  BY <1>1 DEF DiscoveryTypeOK
<1> QED
  BY <1>2, KnownAreInitialized DEF served, without

LEMMA ConnectInv ==
  ASSUME DiscoveryInv, NEW a \in Nodes, NEW b \in Nodes, Connect(a, b)
  PROVE  DiscoveryInv'
<1>1. DiscoveryTypeOK /\ TypeOK /\ Members
  BY DEF DiscoveryInv, DiscoveryTypeOK
<1>2. /\ plan' = plan /\ matrix' = matrix /\ on' = on /\ chan' = chan /\ fresh' = fresh
      /\ hash' = [hash EXCEPT ![a] = greeted(a, b), ![b] = greeted(b, a)]
      /\ ips' = [ips EXCEPT ![b] = served(b, a)]
      /\ server' = [server EXCEPT ![b] = a] /\ client' = [client EXCEPT ![a] = "session"]
      /\ target' = [target EXCEPT ![a] = b]
      /\ client[a] = "act" /\ b \in addr_to_connect(a) /\ b \in on /\ server[b] = None
  BY DEF Connect, bounds
<1>3. a # b /\ a \in on /\ None \notin Nodes
  BY <1>1, <1>2, HashesDiffer DEF addr_to_connect, Members
<1>4. /\ hash' \in [Nodes -> [Nodes -> Hashes \cup {NoHash}]]
      /\ \A x, y \in Nodes : ~(x = a /\ y = b) /\ ~(x = b /\ y = a) => hash'[x][y] = hash[x][y]
      /\ \A x \in Nodes : x # a /\ x # b => hash'[x] = hash[x]
      /\ b \in Known(a) => hash'[a][b] = hash[b][b]
  BY <1>1, <1>2, <1>3, Greeting
<1>5. /\ ips' \in [Nodes -> [Nodes -> {"none", "nullptr", "node"}]]
      /\ \A x, y \in Nodes : ~(x = b /\ y = a) => ips'[x][y] = ips[x][y]
      /\ ips'[b][a] # "none" /\ (ips'[b][a] = "node" => ~uninitialized(b) /\ ~uninitialized(a))
  BY <1>1, <1>2, Served DEF DiscoveryTypeOK
<1>6. /\ \A x \in Nodes : client'[x] = IF x = a THEN "session" ELSE client[x]
      /\ \A x \in Nodes : target'[x] = IF x = a THEN b ELSE target[x]
      /\ \A x \in Nodes : server'[x] = IF x = b THEN a ELSE server[x]
      /\ client' \in [Nodes -> {"waiting", "act", "leaving", "session", "ended"}]
      /\ target' \in [Nodes -> Nodes \cup {None}] /\ server' \in [Nodes -> Nodes \cup {None}]
  BY <1>1, <1>2 DEF DiscoveryTypeOK
<1>7. DiscoveryTypeOK'
  <2>1. TypeOK'
    BY <1>1, <1>2, <1>3, <1>5, <1>6 DEF TypeOK
  <2> QED
    BY <1>1, <1>2, <1>4, <1>5, <1>6, <2>1 DEF DiscoveryTypeOK, Hashes, NoHash, Packet
<1>8. Members'
  <2> SUFFICES ASSUME NEW n \in Nodes
      PROVE  /\ n \in plan.founders => matrix[n] # <<>>
             /\ ips'[n][n] = "none" /\ chan[n][n] = <<>>
             /\ n \notin on => /\ hash'[n] = NoHashes /\ client'[n] = "waiting" /\ server'[n] = None
                               /\ \A m \in Nodes : chan[m][n] = <<>>
             /\ uninitialized(n) => hash'[n][n] = NoHash
             /\ \A m \in Nodes : ips'[n][m] = "node" => ~uninitialized(n) /\ ~uninitialized(m)
    BY <1>2, MatrixKept DEF Members, NoHash, NoHashes
  <2>1. n \notin on => hash'[n] = hash[n] /\ client'[n] = client[n] /\ server'[n] = server[n]
    BY <1>2, <1>3, <1>4, <1>6
  <2>2. hash'[n][n] = hash[n][n] /\ ips'[n][n] = ips[n][n]
    BY <1>3, <1>4, <1>5
  <2>3. ASSUME NEW m \in Nodes, ips'[n][m] = "node"
        PROVE  ~uninitialized(n) /\ ~uninitialized(m)
    BY <1>1, <1>5, <2>3 DEF Members
  <2> QED
    BY <1>1, <2>1, <2>2, <2>3 DEF Members
<1>9. \A x, y \in Nodes : InSession(x, y) => InSession(x, y)'
  BY <1>2, <1>3, <1>6 DEF InSession
<1>10. \A x, y \in Nodes : Awake(x, y) => Awake(x, y)'
  BY <1>5, <1>6 DEF Awake
<1>11. InSession(a, b)'
  BY <1>2, <1>6 DEF InSession
<1>12. ASSUME NEW m \in on', NEW n \in on', m # n, {m, n} \in fresh'
       PROVE  Agreeing(m, n)'
  <2>1. m \in Nodes /\ n \in Nodes /\ Agreeing(m, n)
    BY <1>1, <1>2, <1>12 DEF TypeOK, DiscoveryInv
  <2>2. CASE (m = a /\ n = b) \/ (m = b /\ n = a)
    <3>1. LastIsNews(m, n)'
      BY <1>2, <1>3, <1>4, <2>1 DEF Agreeing, LastIsNews, NoHash
    <3>2. Busy(m, n)' /\ Busy(n, m)'
      BY <1>11, <2>2 DEF Busy
    <3>3. ASSUME Mutual(m, n)'
          PROVE  Heeded(b, a)'
      <4>1. b \in Known(a)
        BY <1>2, <2>2, <3>3, MatrixKept DEF Mutual
      <4>2. hash'[b][b] = hash[b][b] /\ hash'[a][b] = hash[b][b]
        BY <1>3, <1>4, <4>1
      <4> QED
        BY <2>2, <3>2, <4>2 DEF Heeded
    <3> QED
      BY <2>2, <3>1, <3>2, <3>3 DEF Agreeing
  <2>3. CASE ~(m = a /\ n = b) /\ ~(m = b /\ n = a)
    <3>1. Apart(m, n)
      BY <1>2, <1>3, <1>4, <2>1, <2>3 DEF Apart
    <3> QED
      BY <1>2, <1>9, <1>10, <2>1, <3>1, MatrixKept, PairKept DEF Busy, Apart
  <2> QED
    BY <2>2, <2>3
<1>13. \A n \in Nodes : hash'[n][n] \in {hash[n][n], NoHash, calc_my_hash(n)}
  BY <1>3, <1>4
<1> QED
  BY <1>2, <1>7, <1>8, <1>12, <1>13, NothingLearnt

LEMMA RefusedInv ==
  ASSUME DiscoveryInv, NEW a \in Nodes, NEW b \in Nodes, Refused(a, b)
  PROVE  DiscoveryInv'
<1>1. DiscoveryTypeOK /\ TypeOK /\ Members
  BY DEF DiscoveryInv, DiscoveryTypeOK
<1>2. /\ plan' = plan /\ matrix' = matrix /\ on' = on /\ chan' = chan
      /\ target' = target /\ server' = server
      /\ hash' = [hash EXCEPT ![a] = greeted(a, b), ![b] = greeted(b, a)]
      /\ ips' = [ips EXCEPT ![b] = served(b, a), ![a] = without(a, b)]
      /\ notify(b, a)
      /\ client[a] = "act" /\ b \in addr_to_connect(a) /\ b \in on /\ server[b] # None
  BY DEF Refused, bounds
<1>3. a # b /\ a \in on
  BY <1>1, <1>2 DEF addr_to_connect, Members
<1>4. /\ hash' \in [Nodes -> [Nodes -> Hashes \cup {NoHash}]]
      /\ \A x, y \in Nodes : ~(x = a /\ y = b) /\ ~(x = b /\ y = a) => hash'[x][y] = hash[x][y]
      /\ \A x \in Nodes : x # a /\ x # b => hash'[x] = hash[x]
      /\ a \in Known(b) => hash'[b][a] = hash[a][a]
  BY <1>1, <1>2, <1>3, Greeting
<1>5. ips'[a] = without(a, b) /\ ips'[b] = served(b, a) /\ \A x \in Nodes : x # a /\ x # b => ips'[x] = ips[x]
  BY <1>1, <1>2, <1>3 DEF DiscoveryTypeOK
<1>6. /\ ips' \in [Nodes -> [Nodes -> {"none", "nullptr", "node"}]]
      /\ ips'[a][b] = "none" /\ ips'[b][a] # "none"
      /\ ips'[b][a] = "node" => ~uninitialized(b) /\ ~uninitialized(a)
      /\ \A x, y \in Nodes : ~(x = b /\ y = a) /\ ~(x = a /\ y = b) => ips'[x][y] = ips[x][y]
  <2>1. /\ served(b, a) \in [Nodes -> {"none", "nullptr", "node"}]
        /\ served(b, a)[a] # "none"
        /\ served(b, a)[a] = "node" => ~uninitialized(b) /\ ~uninitialized(a)
        /\ \A x \in Nodes : x # a => served(b, a)[x] = ips[b][x]
        /\ without(a, b) \in [Nodes -> {"none", "nullptr", "node"}]
        /\ without(a, b)[b] = "none"
        /\ \A x \in Nodes : x # b => without(a, b)[x] = ips[a][x]
    BY Served
  <2>2. ips' \in [Nodes -> [Nodes -> {"none", "nullptr", "node"}]]
    BY <1>1, <1>2, <2>1 DEF DiscoveryTypeOK
  <2>3. ASSUME NEW x \in Nodes, NEW y \in Nodes, ~(x = b /\ y = a), ~(x = a /\ y = b)
        PROVE  ips'[x][y] = ips[x][y]
    <3>1. CASE x = a
      BY <1>5, <2>1, <2>3, <3>1
    <3>2. CASE x = b
      BY <1>5, <2>1, <2>3, <3>2
    <3> QED
      BY <1>5, <3>1, <3>2
  <2> QED
    BY <1>5, <2>1, <2>2, <2>3
<1>7. /\ client' \in [Nodes -> {"waiting", "act", "leaving", "session", "ended"}]
      /\ \A x \in Nodes : \/ client'[x] = client[x]
                          \/ x = b /\ client[x] = "waiting" /\ client'[x] = "act"
      /\ fresh' \subseteq fresh
      /\ client'[b] \in {"act", "session", "ended"} \/ {a, b} \notin fresh'
  BY <1>1, <1>2, Notified
<1>8. DiscoveryTypeOK'
  <2>1. \A n \in Nodes : client'[n] = "session" <=> client[n] = "session"
    BY <1>7
  <2>2. TypeOK'
    BY <1>1, <1>2, <1>6, <1>7, <2>1 DEF TypeOK
  <2> QED
    BY <1>1, <1>2, <1>4, <1>6, <1>7, <2>2 DEF DiscoveryTypeOK, Hashes, NoHash, Packet
<1>9. Members'
  <2> SUFFICES ASSUME NEW n \in Nodes
      PROVE  /\ n \in plan.founders => matrix[n] # <<>>
             /\ ips'[n][n] = "none" /\ chan[n][n] = <<>>
             /\ n \notin on => /\ hash'[n] = NoHashes /\ client'[n] = "waiting" /\ server[n] = None
                               /\ \A m \in Nodes : chan[m][n] = <<>>
             /\ uninitialized(n) => hash'[n][n] = NoHash
             /\ \A m \in Nodes : ips'[n][m] = "node" => ~uninitialized(n) /\ ~uninitialized(m)
    BY <1>2, MatrixKept DEF Members, NoHash, NoHashes
  <2>1. n \notin on => hash'[n] = hash[n] /\ client'[n] = client[n]
    BY <1>2, <1>3, <1>4, <1>7
  <2>2. hash'[n][n] = hash[n][n] /\ ips'[n][n] = ips[n][n]
    BY <1>3, <1>4, <1>6
  <2>3. ASSUME NEW m \in Nodes, ips'[n][m] = "node"
        PROVE  ~uninitialized(n) /\ ~uninitialized(m)
    BY <1>1, <1>6, <2>3 DEF Members
  <2> QED
    BY <1>1, <2>1, <2>2, <2>3 DEF Members
<1>10. \A x, y \in Nodes : InSession(x, y)' = InSession(x, y)
  BY <1>2, <1>7 DEF InSession
<1>11. \A x, y \in Nodes : ~(x = a /\ y = b) /\ ~(x = b /\ y = a) /\ Awake(x, y) => Awake(x, y)'
  BY <1>6, <1>7 DEF Awake
<1>12. ASSUME NEW m \in on', NEW n \in on', m # n, {m, n} \in fresh'
       PROVE  Agreeing(m, n)'
  <2>1. m \in Nodes /\ n \in Nodes /\ Agreeing(m, n)
    BY <1>1, <1>2, <1>7, <1>12 DEF TypeOK, DiscoveryInv
  <2>2. CASE (m = a /\ n = b) \/ (m = b /\ n = a)
    <3>1. LastIsNews(m, n)'
      BY <1>2, <1>3, <1>4, <2>1 DEF Agreeing, LastIsNews, NoHash
    <3>2. Awake(b, a)'
      <4>1. {a, b} \in fresh'
        BY <1>12, <2>2
      <4> QED
        BY <1>6, <1>7, <4>1 DEF Awake
    <3>3. ASSUME Mutual(m, n)'
          PROVE  Heeded(a, b)'
      <4>1. a \in Known(b)
        BY <1>2, <2>2, <3>3, MatrixKept DEF Mutual
      <4>2. hash'[a][a] = hash[a][a] /\ hash'[b][a] = hash[a][a]
        BY <1>3, <1>4, <4>1
      <4> QED
        BY <3>2, <4>2 DEF Heeded, Busy
    <3> QED
      BY <2>2, <3>1, <3>2, <3>3 DEF Agreeing, Busy
  <2>3. CASE ~(m = a /\ n = b) /\ ~(m = b /\ n = a)
    <3>1. Apart(m, n)
      BY <1>2, <1>3, <1>4, <2>1, <2>3 DEF Apart
    <3> QED
      BY <1>2, <1>10, <1>11, <2>1, <2>3, <3>1, MatrixKept, PairKept DEF Busy, Apart
  <2> QED
    BY <2>2, <2>3
<1>13. \A n \in Nodes : hash'[n][n] \in {hash[n][n], NoHash, calc_my_hash(n)}
  BY <1>3, <1>4
<1> QED
  BY <1>2, <1>8, <1>9, <1>12, <1>13, NothingLearnt

-----------------------------------------------------------------------------
(* The end of a session                                                      *)

(* The client of a has done with b.                                           *)
LEMMA AfterSession ==
  ASSUME DiscoveryInv, NEW a \in Nodes, NEW b \in Nodes,
         client[a] = "session", target[a] = b, SessionEnded(a)
  PROVE  /\ plan' = plan /\ on' = on /\ hash' = hash /\ server' = server /\ chan' = chan
         /\ a \in on
         /\ client' \in [Nodes -> {"waiting", "act", "leaving", "session", "ended"}]
         /\ target' \in [Nodes -> Nodes \cup {None}]
         /\ client'[a] = "ended" /\ \A x \in Nodes : x # a => client'[x] = client[x]
         /\ \A x \in Nodes : client'[x] = "session" <=> target'[x] # None
         /\ \A x, y \in Nodes : ~(x = a /\ y = b) /\ InSession(x, y) => InSession(x, y)'
<1>1. DiscoveryTypeOK /\ TypeOK /\ Members /\ None \notin Nodes
  BY HashesDiffer DEF DiscoveryInv, DiscoveryTypeOK
<1>2. /\ plan' = plan /\ on' = on /\ hash' = hash /\ server' = server /\ chan' = chan
      /\ client' = [client EXCEPT ![a] = "ended"] /\ target' = [target EXCEPT ![a] = None]
  BY DEF SessionEnded
<1>3. /\ client' \in [Nodes -> {"waiting", "act", "leaving", "session", "ended"}]
      /\ target' \in [Nodes -> Nodes \cup {None}]
      /\ client'[a] = "ended" /\ target'[a] = None
      /\ \A x \in Nodes : x # a => client'[x] = client[x] /\ target'[x] = target[x]
  BY <1>1, <1>2 DEF DiscoveryTypeOK
<1>4. a \in on
  BY <1>1 DEF Members
<1>5. \A x \in Nodes : client'[x] = "session" <=> target'[x] # None
  BY <1>1, <1>3 DEF TypeOK
<1>6. \A x, y \in Nodes : ~(x = a /\ y = b) /\ InSession(x, y) => InSession(x, y)'
  BY <1>2, <1>3 DEF InSession
<1> QED
  BY <1>2, <1>3, <1>4, <1>5, <1>6

(* A session in vain: something is lost, or the two do not both know each     *)
(* other.                                                                    *)
LEMMA InVainInv ==
  ASSUME DiscoveryInv, NEW a \in Nodes, NEW b \in Nodes,
         client[a] = "session", target[a] = b, SessionEnded(a),
         matrix' = matrix, fresh' \subseteq fresh, ips' = [ips EXCEPT ![a] = without(a, b)],
         \/ {a, b} \notin fresh'
         \/ ~uninitialized(a) /\ ~uninitialized(b) /\ ~Mutual(a, b)
  PROVE  DiscoveryInv'
<1>1. DiscoveryTypeOK /\ TypeOK /\ Members
  BY DEF DiscoveryInv, DiscoveryTypeOK
<1>2. /\ plan' = plan /\ on' = on /\ hash' = hash /\ server' = server /\ chan' = chan
      /\ a \in on
      /\ client' \in [Nodes -> {"waiting", "act", "leaving", "session", "ended"}]
      /\ target' \in [Nodes -> Nodes \cup {None}]
      /\ client'[a] = "ended" /\ \A x \in Nodes : x # a => client'[x] = client[x]
      /\ \A x \in Nodes : client'[x] = "session" <=> target'[x] # None
      /\ \A x, y \in Nodes : ~(x = a /\ y = b) /\ InSession(x, y) => InSession(x, y)'
  BY AfterSession
<1>3. /\ ips' \in [Nodes -> [Nodes -> {"none", "nullptr", "node"}]]
      /\ \A x, y \in Nodes : ips'[x][y] = IF x = a /\ y = b THEN "none" ELSE ips[x][y]
  <2>1. ips' = [ips EXCEPT ![a] = [ips[a] EXCEPT ![b] = "none"]]
    BY DEF without
  <2>2. ips' \in [Nodes -> [Nodes -> {"none", "nullptr", "node"}]]
    <3>1. without(a, b) \in [Nodes -> {"none", "nullptr", "node"}]
      BY Served
    <3> QED
      BY <1>1, <3>1 DEF DiscoveryTypeOK
  <2>3. \A x, y \in Nodes : ips'[x][y] = IF x = a /\ y = b THEN "none" ELSE ips[x][y]
    BY <1>1, <2>1 DEF DiscoveryTypeOK
  <2> QED
    BY <2>2, <2>3
<1>4. DiscoveryTypeOK'
  <2>1. TypeOK'
    BY <1>1, <1>2, <1>3 DEF TypeOK
  <2> QED
    BY <1>1, <1>2, <1>3, <2>1 DEF DiscoveryTypeOK, Hashes, NoHash, Packet
<1>5. Members'
  BY <1>1, <1>2, <1>3, MatrixKept DEF Members, NoHash, NoHashes
<1>6. \A x, y \in Nodes : ~(x = a /\ y = b) /\ Awake(x, y) => Awake(x, y)'
  BY <1>2, <1>3 DEF Awake
<1>7. ASSUME NEW m \in on', NEW n \in on', m # n, {m, n} \in fresh'
      PROVE  Agreeing(m, n)'
  <2>1. m \in Nodes /\ n \in Nodes /\ Agreeing(m, n)
    BY <1>1, <1>2, <1>7 DEF TypeOK, DiscoveryInv
  <2>2. CASE (m = a /\ n = b) \/ (m = b /\ n = a)
    <3>1. LastIsNews(m, n)'
      BY <1>2, <2>1 DEF Agreeing, LastIsNews, NoHash
    <3>2. {m, n} = {a, b}
      BY <2>2
    <3>3. ~uninitialized(a)' /\ ~uninitialized(b)' /\ ~Mutual(a, b)'
      BY <1>2, <1>7, <3>2, MatrixKept DEF Mutual
    <3> QED
      BY <2>2, <3>1, <3>3 DEF Agreeing, Mutual
  <2>3. CASE ~(m = a /\ n = b) /\ ~(m = b /\ n = a)
    <3>1. Apart(m, n)
      BY <1>2 DEF Apart
    <3> QED
      BY <1>2, <1>6, <2>1, <2>3, <3>1, MatrixKept, PairKept DEF Busy, Apart
  <2> QED
    BY <2>2, <2>3
<1> QED
  BY <1>2, <1>4, <1>5, <1>7, NothingLearnt

LEMMA UnknownInv ==
  ASSUME DiscoveryInv, NEW a \in Nodes, Unknown(a)
  PROVE  DiscoveryInv'
<1>1. PICK b \in Nodes :
        /\ InSession(a, b) /\ ~uninitialized(a) /\ ~uninitialized(b)
        /\ a \notin Known(b) \/ b \notin Known(a)
        /\ ips' = [ips EXCEPT ![a] = without(a, b)]
        /\ SessionEnded(a) /\ matrix' = matrix /\ fresh' = fresh
  BY DEF Unknown
<1>2. client[a] = "session" /\ target[a] = b /\ ~Mutual(a, b)
  BY <1>1 DEF InSession, Mutual
<1> QED
  BY <1>1, <1>2, InVainInv

LEMMA BrokenInv ==
  ASSUME DiscoveryInv, NEW a \in Nodes, Broken(a)
  PROVE  DiscoveryInv'
<1> DEFINE b == target[a]
<1>1. /\ client[a] = "session" /\ fresh' = fresh \ {{a, b}}
      /\ ips' = [ips EXCEPT ![a] = without(a, b)] /\ SessionEnded(a) /\ matrix' = matrix
  BY DEF Broken
<1>2. b \in Nodes
  BY <1>1 DEF DiscoveryInv, DiscoveryTypeOK, TypeOK
<1> QED
  BY <1>1, <1>2, InVainInv

-----------------------------------------------------------------------------
(* Steps in which commands arrive                                            *)

(* Nothing happens to n, or it becomes initialized, or its rows grow.         *)
Learns(n) ==
  \/ matrix'[n] = matrix[n]
  \/ /\ matrix'[n] \in [Nodes -> SUBSET Commands]
     /\ \A m \in Nodes : matrix'[n][m] \subseteq Row(n)'
     /\ \A m \in Nodes : AddNode(m) \in Row(n)' => ~uninitialized(m)'
     /\ ~uninitialized(n) => RowsGrow(n)

LEMMA InitializedStay ==
  ASSUME plan' = plan, NEW n \in Nodes, Learns(n), ~uninitialized(n)
  PROVE  ~uninitialized(n)'
BY EmptyIsOther DEF Learns, uninitialized

(* Who becomes initialized has not told anybody.                              *)
LEMMA BeginnersAreStale ==
  ASSUME DiscoveryInv, plan' = plan, hash' = hash, NEW n \in Nodes,
         uninitialized(n), matrix'[n] \in [Nodes -> SUBSET Commands]
  PROVE  ~uninitialized(n)' /\ Stale(n)' /\ hash'[n][n] = NoHash
<1>1. DiscoveryTypeOK /\ Members
  BY DEF DiscoveryInv
<1>2. ~uninitialized(n)'
  BY EmptyIsOther DEF uninitialized
<1>3. hash'[n][n] = NoHash
  BY <1>1 DEF Members
<1>4. Known(n)' \subseteq Nodes
  BY <1>1, <1>2, KnownMembers DEF Known, Executed
<1>5. calc_my_hash(n)' \in [Known(n)' -> SUBSET Commands]
  BY <1>4 DEF calc_my_hash
<1> QED
  BY <1>2, <1>3, <1>4, <1>5, IsHash, HashesDiffer DEF Stale, NoHash

LEMMA Learning ==
  ASSUME DiscoveryInv, plan' = plan, hash' = hash, \A x \in Nodes : Learns(x),
         NEW n \in Nodes
  PROVE  Steady(n) /\ (~uninitialized(n)' => Grown(n)')
<1>1. DiscoveryTypeOK /\ Members
  BY DEF DiscoveryInv
<1>2. \A m \in Nodes : ~uninitialized(m) => ~uninitialized(m)'
  BY InitializedStay
<1>3. CASE matrix'[n] = matrix[n]
  <2>1. Steady(n)
    BY <1>3, NodeKept
  <2>2. ASSUME ~uninitialized(n)' PROVE Grown(n)'
    <3>1. uninitialized(n)' = uninitialized(n) /\ Row(n)' = Row(n)
      BY <1>3 DEF uninitialized, Row
    <3>2. Known(n)' = Known(n) /\ Executed(n, hash[n][n][n])' = Executed(n, hash[n][n][n])
      BY <3>1 DEF Known, Executed
    <3>3. Grown(n)
      BY <2>2, <3>1 DEF DiscoveryInv
    <3> QED
      BY <1>2, <1>3, <3>1, <3>2, <3>3 DEF Grown, NoHash
  <2> QED
    BY <2>1, <2>2
<1>4. CASE uninitialized(n) /\ matrix'[n] # matrix[n]
  <2>1. ~uninitialized(n)' /\ Stale(n)' /\ hash'[n][n] = NoHash
    BY <1>4, BeginnersAreStale DEF Learns
  <2> QED
    BY <1>4, <2>1 DEF Steady, Grown, Learns, NoHash
<1>5. CASE ~uninitialized(n) /\ matrix'[n] # matrix[n]
  <2>1. RowsGrow(n) /\ Grown(n)
    BY <1>5 DEF Learns, DiscoveryInv
  <2> QED
    BY <1>1, <1>5, <2>1, GrowingIsSteady, GrownStays DEF Learns
<1> QED
  BY <1>3, <1>4, <1>5

(* Types, members and pairs are left to show.                                 *)
LEMMA Learnt ==
  ASSUME DiscoveryInv, plan' = plan, hash' = hash, \A x \in Nodes : Learns(x),
         DiscoveryTypeOK', Members',
         \A m, n \in on' : m # n /\ {m, n} \in fresh' => Agreeing(m, n)'
  PROVE  DiscoveryInv'
BY Learning DEF DiscoveryInv

LEMMA CommandInv ==
  ASSUME DiscoveryInv, NEW a \in Nodes, NEW c \in plan.msgs, Command(a, c)
  PROVE  DiscoveryInv'
<1>1. DiscoveryTypeOK /\ TypeOK /\ Members
  BY DEF DiscoveryInv, DiscoveryTypeOK
<1>2. /\ plan' = plan /\ on' = on /\ hash' = hash /\ ips' = ips /\ client' = client
      /\ target' = target /\ server' = server /\ chan' = chan /\ fresh' = Anew(a)
      /\ a \in on /\ ~uninitialized(a) /\ \A m \in Nodes : c \notin UNION Range(matrix[m])
      /\ matrix' = [matrix EXCEPT ![a][a] = @ \cup {c}]
  BY DEF Command, bounds, threads
<1>3. matrix[a] \in [Nodes -> SUBSET Commands] /\ c \in Commands /\ \A m \in Nodes : c # AddNode(m)
  BY <1>1, <1>2, HasMatrix, PlanFacts
<1>4. c \notin Row(a)
  <2>1. Row(a) \in Range(matrix[a])
    BY <1>3 DEF Row, Range
  <2> QED
    BY <1>2, <2>1
<1>5. /\ matrix'[a] \in [Nodes -> SUBSET Commands] /\ Row(a)' = Row(a) \cup {c}
      /\ \A m \in Nodes : m # a => matrix'[a][m] = matrix[a][m]
      /\ \A m \in Nodes : m # a => matrix'[m] = matrix[m]
  BY <1>1, <1>2, <1>3 DEF DiscoveryTypeOK, Row
<1>6. Grown(a) /\ RowsGrow(a)
  <2>1. \A m \in Nodes : matrix[a][m] \subseteq matrix'[a][m]
    BY <1>5 DEF Row
  <2> QED
    BY <1>1, <1>2, <1>5, <2>1, KnownMembers DEF RowsGrow, DiscoveryInv
<1>7. \A m \in Nodes : uninitialized(m)' = uninitialized(m)
  BY <1>1, <1>2, <1>5, <1>6, GrowingIsSteady DEF uninitialized
<1>8. \A x \in Nodes : Learns(x)
  <2>1. \A m \in Nodes : matrix'[a][m] \subseteq Row(a)'
    BY <1>5, <1>6 DEF Grown, Row
  <2>2. \A m \in Nodes : AddNode(m) \in Row(a)' => ~uninitialized(m)'
    BY <1>3, <1>5, <1>6, <1>7 DEF Grown
  <2> QED
    BY <1>5, <1>6, <2>1, <2>2 DEF Learns
<1>9. Stale(a)'
  <2>1. Row(a)' # Row(a)
    BY <1>4, <1>5
  <2> QED
    BY <1>1, <1>2, <1>6, <2>1, GrowingIsSteady
<1>10. DiscoveryTypeOK'
  <2>1. matrix' \in [Nodes -> {<<>>} \cup [Nodes -> SUBSET Commands]]
    <3>1. matrix' \in [Nodes -> {<<>>} \cup [Nodes -> SUBSET Commands] \cup {matrix'[a]}]
      BY <1>1, <1>2 DEF DiscoveryTypeOK
    <3> QED
      BY <1>5, <3>1
  <2>2. TypeOK'
    BY <1>1, <1>2 DEF TypeOK
  <2> QED
    BY <1>1, <1>2, <2>1, <2>2 DEF DiscoveryTypeOK, Hashes, NoHash, Packet
<1>11. Members'
  <2>1. \A n \in Nodes : n \in plan.founders => matrix'[n] # <<>>
    BY <1>1, <1>5, EmptyIsOther DEF Members
  <2> QED
    BY <1>1, <1>2, <1>7, <2>1 DEF Members, NoHash, NoHashes
<1>12. ASSUME NEW m \in on', NEW n \in on', m # n, {m, n} \in fresh'
       PROVE  Agreeing(m, n)'
  <2>1. m \in Nodes /\ n \in Nodes
    BY <1>1, <1>2, <1>12 DEF TypeOK
  <2>2. ASSUME {m, n} \in fresh PROVE Agreeing(m, n)
    BY <1>2, <1>12, <2>2 DEF DiscoveryInv
  <2>3. CASE m = a \/ n = a
    <3>1. \/ {m, n} \in fresh
          \/ chan[m][n] = <<>>
      BY <1>2, <1>12, <2>3 DEF Anew
    <3>2. LastIsNews(m, n)'
      BY <1>2, <2>2, <3>1 DEF Agreeing, LastIsNews, NoHash
    <3>3. uninitialized(n)' /\ ~uninitialized(m)' => m = a
      BY <1>2, <1>7, <2>3
    <3> QED
      BY <1>9, <2>3, <3>2, <3>3 DEF Agreeing
  <2>4. CASE m # a /\ n # a
    <3>1. {m, n} \in fresh
      BY <1>2, <1>12, <2>4 DEF Anew
    <3>2. Apart(m, n)
      BY <1>2 DEF Apart
    <3>3. Awake(m, n)' = Awake(m, n) /\ Awake(n, m)' = Awake(n, m)
      BY <1>2 DEF Awake
    <3>4. InSession(m, n)' = InSession(m, n) /\ InSession(n, m)' = InSession(n, m)
      BY <1>2 DEF InSession
    <3> QED
      BY <1>2, <1>8, <2>1, <2>2, <3>1, <3>2, <3>3, <3>4, Learning, PairKept DEF Busy
  <2> QED
    BY <2>3, <2>4
<1> QED
  BY <1>2, <1>8, <1>10, <1>11, <1>12, Learnt

(* A session in which commands go from one node to the other, or both ways.   *)
LEMMA TransferInv ==
  ASSUME DiscoveryInv, NEW a \in Nodes, NEW b \in Nodes, InSession(a, b), SessionEnded(a),
         ips' = ips, fresh' = fresh,
         matrix' \in [Nodes -> {<<>>} \cup [Nodes -> SUBSET Commands]],
         \A x \in Nodes : Learns(x),
         ~uninitialized(a)', ~uninitialized(b)',
         \/ a = b \/ Stale(a)' \/ Stale(b)'
         \/ Mutual(a, b) /\ hash[a][a] = hash[b][b]
  PROVE  DiscoveryInv'
<1>1. DiscoveryTypeOK /\ TypeOK /\ Members
  BY DEF DiscoveryInv, DiscoveryTypeOK
<1>2. /\ plan' = plan /\ on' = on /\ hash' = hash /\ server' = server /\ chan' = chan
      /\ a \in on
      /\ client' \in [Nodes -> {"waiting", "act", "leaving", "session", "ended"}]
      /\ target' \in [Nodes -> Nodes \cup {None}]
      /\ client[a] = "session" /\ client'[a] = "ended"
      /\ \A x \in Nodes : x # a => client'[x] = client[x]
      /\ \A x \in Nodes : client'[x] = "session" <=> target'[x] # None
      /\ \A x, y \in Nodes : ~(x = a /\ y = b) /\ InSession(x, y) => InSession(x, y)'
  BY AfterSession DEF InSession
<1>3. DiscoveryTypeOK'
  <2>1. TypeOK'
    BY <1>1, <1>2 DEF TypeOK
  <2> QED
    BY <1>1, <1>2, <2>1 DEF DiscoveryTypeOK, Hashes, NoHash, Packet
<1>4. \A n \in Nodes : ~uninitialized(n) => ~uninitialized(n)'
  BY <1>2, InitializedStay
<1>5. Members'
  <2>1. \A n \in Nodes : n \in plan.founders => matrix'[n] # <<>>
    BY <1>1, EmptyIsOther DEF Members, Learns
  <2> QED
    BY <1>1, <1>2, <1>4, <2>1 DEF Members, NoHash, NoHashes
<1>6. \A x, y \in Nodes : Awake(x, y) => Awake(x, y)'
  BY <1>2 DEF Awake
<1>7. ASSUME NEW m \in on', NEW n \in on', m # n, {m, n} \in fresh'
      PROVE  Agreeing(m, n)'
  <2>1. m \in Nodes /\ n \in Nodes /\ Agreeing(m, n)
    BY <1>1, <1>2, <1>7 DEF TypeOK, DiscoveryInv
  <2>2. Steady(m) /\ Steady(n)
    BY <1>2, <2>1, Learning
  <2>3. CASE (m = a /\ n = b) \/ (m = b /\ n = a)
    <3>1. LastIsNews(m, n)'
      BY <1>2, <2>1 DEF Agreeing, LastIsNews, NoHash
    <3>2. ASSUME Mutual(m, n), hash[m][m] = hash[n][n], ~Stale(m)', ~Stale(n)'
          PROVE  Heeded(m, n)' \/ Heeded(n, m)'
      <4>1. Heeded(m, n) \/ Heeded(n, m)
        BY <2>1, <2>2, <3>2 DEF Agreeing, Steady
      <4> QED
        BY <1>2, <3>2, <4>1 DEF Heeded
    <3>3. Mutual(a, b) => Mutual(m, n)
      BY <2>3 DEF Mutual
    <3> QED
      BY <1>7, <2>3, <3>1, <3>2, <3>3 DEF Agreeing
  <2>4. CASE ~(m = a /\ n = b) /\ ~(m = b /\ n = a)
    <3>1. Apart(m, n)
      BY <1>2 DEF Apart
    <3> QED
      BY <1>2, <1>6, <2>1, <2>2, <2>4, <3>1, PairKept DEF Busy
  <2> QED
    BY <2>3, <2>4
<1> QED
  BY <1>2, <1>3, <1>5, <1>7, Learnt

(* One side of an exchange                                                   *)
LEMMA MergedLearns ==
  ASSUME DiscoveryInv, plan' = plan, hash' = hash, NEW a \in Nodes, NEW b \in Nodes,
         a \in Known(b), b \in Known(a),
         \A m \in Nodes : ~uninitialized(m) => ~uninitialized(m)',
         matrix'[a] = merged(a, b)
  PROVE  /\ matrix'[a] \in [Nodes -> SUBSET Commands] /\ Row(a)' = Row(a) \cup Row(b)
         /\ RowsGrow(a) /\ Learns(a)
<1>1. DiscoveryTypeOK /\ Members /\ ~uninitialized(a) /\ ~uninitialized(b)
  BY KnownAreInitialized DEF DiscoveryInv
<1>2. /\ matrix[a] \in [Nodes -> SUBSET Commands] /\ matrix[b] \in [Nodes -> SUBSET Commands]
      /\ Grown(a) /\ Grown(b) /\ a \in Known(a) /\ Known(a) \subseteq Nodes
  BY <1>1, HasMatrix, KnownMembers DEF DiscoveryInv
<1> DEFINE all == Row(a) \cup Row(b)
<1>3. \A x \in Nodes : matrix[a][x] \subseteq Row(a) /\ matrix[b][x] \subseteq Row(b)
  BY <1>2 DEF Grown
<1>4. \A x \in Nodes : matrix'[a][x] = IF x \notin Known(a) THEN {}
                                       ELSE IF x \in {a, b} THEN all
                                       ELSE matrix[a][x] \cup matrix[b][x]
  BY DEF merged
<1>5. matrix'[a] \in [Nodes -> SUBSET Commands]
  <2>1. all \in SUBSET Commands
    BY <1>2 DEF Row
  <2>2. \A x \in Nodes : (IF x \notin Known(a) THEN {}
                          ELSE IF x \in {a, b} THEN all
                          ELSE matrix[a][x] \cup matrix[b][x]) \in SUBSET Commands
    BY <1>2, <2>1
  <2> QED
    BY <2>2 DEF merged
<1>6. Row(a)' = all
  BY <1>2, <1>4 DEF Row
<1>7. \A m \in Known(a) : matrix[a][m] \subseteq matrix'[a][m]
  BY <1>2, <1>3, <1>4
<1>8. RowsGrow(a)
  BY <1>5, <1>6, <1>7 DEF RowsGrow
<1>9. \A m \in Nodes : matrix'[a][m] \subseteq Row(a)'
  BY <1>3, <1>4, <1>6
<1>10. \A m \in Nodes : AddNode(m) \in Row(a)' => ~uninitialized(m)'
  BY <1>2, <1>6 DEF Grown
<1> QED
  BY <1>5, <1>6, <1>8, <1>9, <1>10 DEF Learns

(* If neither has anything to announce after an exchange they announced the   *)
(* same before it.                                                           *)
LEMMA ExchangeInv ==
  ASSUME DiscoveryInv, NEW a \in Nodes, Exchange(a)
  PROVE  DiscoveryInv'
<1>1. DiscoveryTypeOK /\ Members
  BY DEF DiscoveryInv
<1>2. PICK b \in Nodes :
        /\ InSession(a, b) /\ a \in Known(b) /\ b \in Known(a)
        /\ matrix' = [matrix EXCEPT ![a] = merged(a, b), ![b] = merged(b, a)]
        /\ SessionEnded(a) /\ ips' = ips /\ fresh' = fresh
  BY DEF Exchange
<1>3. plan' = plan /\ hash' = hash
  BY <1>2 DEF SessionEnded
<1>4. ~uninitialized(a) /\ ~uninitialized(b) /\ Mutual(a, b)
  BY <1>2, KnownAreInitialized DEF Mutual
<1>5. /\ matrix'[a] = merged(a, b) /\ matrix'[b] = merged(b, a)
      /\ \A x \in Nodes : x # a /\ x # b => matrix'[x] = matrix[x]
  BY <1>1, <1>2 DEF DiscoveryTypeOK
<1>6. \A m \in Nodes : ~uninitialized(m) => ~uninitialized(m)'
  <2>1. ASSUME NEW x \in Nodes, NEW y \in Nodes
        PROVE  merged(x, y) # <<>>
    <3>1. merged(x, y) \in [Nodes -> {merged(x, y)[z] : z \in Nodes}]
      BY DEF merged
    <3> QED
      BY <3>1, EmptyIsOther
  <2> QED
    BY <1>3, <1>5, <2>1 DEF uninitialized
<1>7. /\ matrix'[a] \in [Nodes -> SUBSET Commands] /\ Row(a)' = Row(a) \cup Row(b)
      /\ RowsGrow(a) /\ Learns(a)
  BY <1>2, <1>3, <1>5, <1>6, MergedLearns
<1>8. /\ matrix'[b] \in [Nodes -> SUBSET Commands] /\ Row(b)' = Row(b) \cup Row(a)
      /\ RowsGrow(b) /\ Learns(b)
  BY <1>2, <1>3, <1>5, <1>6, MergedLearns
<1>9. \A x \in Nodes : Learns(x)
  BY <1>5, <1>7, <1>8 DEF Learns
<1>10. matrix' \in [Nodes -> {<<>>} \cup [Nodes -> SUBSET Commands]]
  <2>1. matrix' \in [Nodes -> ({<<>>} \cup [Nodes -> SUBSET Commands]) \cup {matrix'[a], matrix'[b]}]
    BY <1>1, <1>2, <1>5 DEF DiscoveryTypeOK
  <2> QED
    BY <1>7, <1>8, <2>1
<1>11. Grown(a) /\ Grown(b)
  BY <1>4 DEF DiscoveryInv
<1>12. ASSUME a # b, ~Stale(a)', ~Stale(b)'
       PROVE  hash[a][a] = hash[b][b]
  <2>1. /\ hash[a][a] = calc_my_hash(a)' /\ Known(a)' = Known(a) /\ Row(a)' = Row(a)
        /\ hash[b][b] = calc_my_hash(b)' /\ Known(b)' = Known(b) /\ Row(b)' = Row(b)
    BY <1>1, <1>4, <1>7, <1>8, <1>11, <1>12, GrowingIsSteady
  <2>2. Row(a) = Row(b)
    BY <1>7, <1>8, <2>1
  <2>3. Known(a) = Executed(a, Row(a)) /\ Known(b) = Executed(b, Row(b))
    BY <1>4 DEF Known
  <2>4. Known(a) = Known(b)
    BY <1>2, <1>12, <2>2, <2>3 DEF Executed
  <2>5. \A m \in Known(a) : merged(a, b)[m] = merged(b, a)[m]
    <3> TAKE m \in Known(a)
    <3>1. m \in Nodes
      BY <1>2, KnownAreInitialized
    <3> QED
      BY <2>4, <3>1 DEF merged
  <2>6. calc_my_hash(a)' = calc_my_hash(b)'
    BY <1>5, <2>1, <2>4, <2>5 DEF calc_my_hash
  <2> QED
    BY <2>1, <2>6
<1>13. ~uninitialized(a)' /\ ~uninitialized(b)'
  BY <1>4, <1>6
<1> QED
  BY <1>2, <1>4, <1>9, <1>10, <1>12, <1>13, TransferInv

(* Who gets the first commands has to announce itself.                        *)
LEMMA WelcomeLearns ==
  ASSUME DiscoveryInv, plan' = plan, hash' = hash, NEW n \in Nodes, NEW m \in Nodes,
         uninitialized(n), ~uninitialized(m), Welcome(n, m)
  PROVE  /\ matrix' \in [Nodes -> {<<>>} \cup [Nodes -> SUBSET Commands]]
         /\ \A x \in Nodes : Learns(x)
         /\ ~uninitialized(n)' /\ ~uninitialized(m)' /\ Stale(n)'
<1>1. DiscoveryTypeOK /\ Members /\ m # n
  BY DEF DiscoveryInv
<1>2. /\ matrix[m] \in [Nodes -> SUBSET Commands] /\ Grown(m) /\ AddNode(n) \in Commands
      /\ m \in Known(m) /\ Known(m) \subseteq Nodes
  BY <1>1, HasMatrix, PlanFacts, KnownMembers DEF DiscoveryInv
<1> DEFINE more == [matrix[m] EXCEPT ![m] = Row(m) \cup {AddNode(n)}]
<1>3. matrix' = [matrix EXCEPT ![n] = welcomed(n, m), ![m] = more]
  BY <1>1 DEF Welcome, Row, DiscoveryTypeOK
<1>4. /\ matrix'[n] = welcomed(n, m) /\ matrix'[m] = more
      /\ \A x \in Nodes : x # n /\ x # m => matrix'[x] = matrix[x]
  BY <1>1, <1>3 DEF DiscoveryTypeOK
<1>5. Row(m) \in SUBSET Commands
  BY <1>2 DEF Row
<1>6. matrix'[n] \in [Nodes -> SUBSET Commands] /\ matrix'[m] \in [Nodes -> SUBSET Commands]
  <2>1. \A x \in Nodes : (IF x = n THEN Row(m) ELSE IF x \in Known(m) THEN matrix[m][x] ELSE {}) \in SUBSET Commands
    BY <1>2, <1>5
  <2>2. welcomed(n, m) \in [Nodes -> SUBSET Commands]
    BY <2>1 DEF welcomed
  <2>3. more \in [Nodes -> SUBSET Commands]
    BY <1>2, <1>5
  <2> QED
    BY <1>4, <2>2, <2>3
<1>7. matrix' \in [Nodes -> {<<>>} \cup [Nodes -> SUBSET Commands]]
  <2>1. matrix' \in [Nodes -> ({<<>>} \cup [Nodes -> SUBSET Commands]) \cup {matrix'[n], matrix'[m]}]
    BY <1>1, <1>3, <1>4 DEF DiscoveryTypeOK
  <2> QED
    BY <1>6, <2>1
<1>8. \A x \in Nodes : ~uninitialized(x) \/ x = n => ~uninitialized(x)'
  BY <1>4, <1>6, EmptyIsOther DEF uninitialized
<1>9. Learns(n)
  <2>1. Row(n)' = Row(m)
    BY <1>4 DEF Row, welcomed
  <2>2. \A x \in Nodes : matrix'[n][x] \subseteq Row(m)
    BY <1>2, <1>4 DEF welcomed, Grown
  <2> QED
    BY <1>2, <1>6, <1>8, <2>1, <2>2 DEF Learns, Grown
<1>10. Learns(m)
  <2>1. Row(m)' = Row(m) \cup {AddNode(n)}
    BY <1>2, <1>4 DEF Row
  <2>2. \A x \in Nodes : x # m => matrix'[m][x] = matrix[m][x]
    BY <1>2, <1>4
  <2>3. \A x \in Nodes : matrix'[m][x] \subseteq Row(m)' /\ matrix[m][x] \subseteq matrix'[m][x]
    BY <1>2, <2>1, <2>2 DEF Grown, Row
  <2>4. RowsGrow(m)
    BY <1>2, <1>6, <2>1, <2>3 DEF RowsGrow
  <2>5. \A x \in Nodes : AddNode(x) = AddNode(n) => x = n
    <3> TAKE x \in Nodes
    <3>1. AddNode(x).add = x /\ AddNode(n).add = n
      BY DEF AddNode
    <3> QED
      BY <3>1
  <2>6. \A x \in Nodes : AddNode(x) \in Row(m)' => ~uninitialized(x)'
    BY <1>2, <1>8, <2>1, <2>5 DEF Grown
  <2> QED
    BY <1>6, <2>3, <2>4, <2>6 DEF Learns
<1>11. \A x \in Nodes : Learns(x)
  BY <1>4, <1>9, <1>10 DEF Learns
<1>12. Stale(n)'
  BY <1>6, BeginnersAreStale
<1> QED
  BY <1>7, <1>8, <1>11, <1>12

LEMMA InitializeInv ==
  ASSUME DiscoveryInv, NEW a \in Nodes, Initialize(a)
  PROVE  DiscoveryInv'
<1>1. PICK b \in Nodes :
        /\ InSession(a, b)
        /\ \/ uninitialized(a) /\ ~uninitialized(b) /\ Welcome(a, b)
           \/ uninitialized(b) /\ ~uninitialized(a) /\ Welcome(b, a)
        /\ SessionEnded(a) /\ ips' = ips /\ fresh' = fresh
  BY DEF Initialize
<1>2. plan' = plan /\ hash' = hash
  BY <1>1 DEF SessionEnded
<1>3. /\ matrix' \in [Nodes -> {<<>>} \cup [Nodes -> SUBSET Commands]]
      /\ \A x \in Nodes : Learns(x)
      /\ ~uninitialized(a)' /\ ~uninitialized(b)' /\ (Stale(a)' \/ Stale(b)')
  BY <1>1, <1>2, WelcomeLearns
<1> QED
  BY <1>1, <1>3, TransferInv

-----------------------------------------------------------------------------
(* The theorems                                                              *)

LEMMA StutterInv == DiscoveryInv /\ UNCHANGED vars => DiscoveryInv'
<1> SUFFICES ASSUME DiscoveryInv, UNCHANGED vars PROVE DiscoveryInv'
  OBVIOUS
<1>1. DiscoveryTypeOK /\ TypeOK /\ Members
  BY DEF DiscoveryInv, DiscoveryTypeOK
<1>2. /\ plan' = plan /\ on' = on /\ matrix' = matrix /\ hash' = hash /\ ips' = ips
      /\ client' = client /\ target' = target /\ server' = server /\ chan' = chan /\ fresh' = fresh
  BY DEF vars
<1>3. DiscoveryTypeOK'
  BY <1>1, <1>2 DEF DiscoveryTypeOK, TypeOK, Hashes, NoHash, Packet
<1>4. Members'
  BY <1>1, <1>2, MatrixKept DEF Members, NoHash, NoHashes
<1>5. ASSUME NEW m \in on', NEW n \in on', m # n, {m, n} \in fresh'
      PROVE  Agreeing(m, n)'
  <2>1. m \in Nodes /\ n \in Nodes /\ Agreeing(m, n)
    BY <1>1, <1>2, <1>5 DEF TypeOK, DiscoveryInv
  <2>2. Apart(m, n)
    BY <1>2 DEF Apart
  <2>3. Awake(m, n)' = Awake(m, n) /\ Awake(n, m)' = Awake(n, m)
    BY <1>2 DEF Awake
  <2>4. InSession(m, n)' = InSession(m, n) /\ InSession(n, m)' = InSession(n, m)
    BY <1>2 DEF InSession
  <2> QED
    BY <1>2, <2>1, <2>2, <2>3, <2>4, MatrixKept, PairKept DEF Busy
<1> QED
  BY <1>2, <1>3, <1>4, <1>5, NothingLearnt

LEMMA StepInv == DiscoveryInv /\ [Next]_vars => DiscoveryInv'
<1> SUFFICES ASSUME DiscoveryInv, [Next]_vars PROVE DiscoveryInv'
  OBVIOUS
<1>1. ASSUME NEW n \in Nodes,
             \/ Start(n) \/ Stop(n) \/ Exit(n) \/ PendingCommands(n)
             \/ \E c \in plan.msgs : Command(n, c)
             \/ Wait(n) \/ Leave(n) \/ Act(n) \/ Session(n) \/ ClientEnds(n) \/ ServerEnds(n)
      PROVE  DiscoveryInv'
  <2>1. CASE Start(n)
    BY <2>1, StartInv
  <2>2. CASE Stop(n) \/ Exit(n)
    BY <2>2, EndsInv
  <2>3. CASE PendingCommands(n) \/ ClientEnds(n) \/ ServerEnds(n)
    BY <2>3, AnnouncesInv
  <2>4. CASE \E c \in plan.msgs : Command(n, c)
    BY <2>4, CommandInv
  <2>5. CASE Wait(n)
    BY <2>5, WaitInv
  <2>6. CASE Leave(n)
    BY <2>6, LeaveInv
  <2>7. CASE Act(n)
    BY <2>7, ConnectInv, RefusedInv, NotThereInv DEF Act
  <2>8. CASE Session(n)
    BY <2>8, ExchangeInv, InitializeInv, UnknownInv, BrokenInv DEF Session
  <2> QED
    BY <1>1, <2>1, <2>2, <2>3, <2>4, <2>5, <2>6, <2>7, <2>8
<1>2. ASSUME NEW m \in Nodes, NEW n \in Nodes, Receive(m, n) \/ Lose(m, n) \/ Overtake(m, n)
      PROVE  DiscoveryInv'
  BY <1>2, ReceiveInv, LoseInv
<1> QED
  BY <1>1, <1>2, StutterInv DEF Next

(* Two nodes between which nothing was lost since one of them had news always *)
(* know what the other one knows, or have something to say, or have been told *)
(* and are going to connect - whatever threads and packets overtake.          *)
THEOREM InvHolds == Spec => []DiscoveryInv
<1> QED BY InitInv, StepInv, PTL DEF Spec

(* Nothing is sent periodically and nothing is acknowledged (corenet.cpp), yet *)
(* a network that has fallen silent agrees: two nodes that run have executed   *)
(* the same commands, and both are members or none is, if nothing was lost     *)
(* between them since one of them was started or given a command.  What was    *)
(* lost before, and what is lost between other nodes, does not matter.         *)
THEOREM SilenceIsAgreement == Spec => []SilentMeansAgreed
<1>1. ASSUME DiscoveryInv, Quiet, NEW m \in on, NEW n \in on, {m, n} \in fresh, m # n
      PROVE  \/ uninitialized(m) /\ uninitialized(n)
             \/ ~uninitialized(m) /\ ~uninitialized(n)
                /\ (m \in Known(n) /\ n \in Known(m) => Row(n) = Row(m))
  <2>1. DiscoveryTypeOK /\ Members /\ m \in Nodes /\ n \in Nodes
    BY <1>1 DEF DiscoveryInv, DiscoveryTypeOK, TypeOK
  <2>2. Agreeing(m, n) /\ Agreeing(n, m)
    <3>1. {n, m} = {m, n}
      OBVIOUS
    <3> QED
      BY <1>1, <3>1 DEF DiscoveryInv
  <2>3. /\ chan[m][n] = <<>> /\ chan[n][m] = <<>> /\ ~Stale(m) /\ ~Stale(n)
        /\ client[m] = "waiting" /\ client[n] = "waiting"
    BY <1>1, <2>1 DEF Quiet
  <2>4. ~Awake(m, n) /\ ~Awake(n, m) /\ ~Busy(m, n) /\ ~Busy(n, m)
    BY <2>3 DEF Awake, Busy, InSession
  <2>5. uninitialized(m) <=> uninitialized(n)
    BY <2>2, <2>3, <2>4 DEF Agreeing
  <2>6. ASSUME ~uninitialized(m), ~uninitialized(n), m \in Known(n), n \in Known(m)
        PROVE  Row(n) = Row(m)
    <3>1. hash[m][m] = hash[n][n]
      BY <2>2, <2>3, <2>4, <2>6 DEF Agreeing, Mutual, Heeded
    <3>2. calc_my_hash(m) = calc_my_hash(n)
      BY <2>1, <2>3, <2>6, <3>1, StaleFacts
    <3>3. m \in Known(m) /\ n \in Known(n)
      BY <2>1, <2>6, KnownMembers
    <3>4. matrix[m][m] = matrix[n][m] /\ matrix[n][n] = matrix[m][n]
      <4>1. \A x \in Known(m) : calc_my_hash(m)[x] = matrix[m][x]
        BY DEF calc_my_hash
      <4>2. \A x \in Known(n) : calc_my_hash(n)[x] = matrix[n][x]
        BY DEF calc_my_hash
      <4> QED
        BY <2>6, <3>2, <3>3, <4>1, <4>2
    <3>5. Grown(m) /\ Grown(n)
      BY <1>1, <2>1, <2>6 DEF DiscoveryInv
    <3>6. Row(m) \subseteq Row(n) /\ Row(n) \subseteq Row(m)
      BY <2>1, <3>4, <3>5 DEF Grown, Row
    <3> QED
      BY <3>6
  <2> QED
    BY <2>5, <2>6
<1>2. DiscoveryInv => SilentMeansAgreed
  BY <1>1 DEF SilentMeansAgreed
<1> QED BY <1>2, InvHolds, PTL
=============================================================================
