--------------------------- MODULE Daemon_proofs ----------------------------
(***************************************************************************)
(* What the threads of the daemon share: the slot by which a connection is *)
(* handed over between the main thread and the server thread               *)
(* (DaemonThreads), for any number of connections; and the matrix of the   *)
(* core that counts who has which commands, as vectors (MatrixIndex), for  *)
(* any members that come and go.                                           *)
(***************************************************************************)
EXTENDS DaemonThreads, MatrixIndex, FiniteSetTheorems, SequenceTheorems,
        WellFoundedInduction, TLAPS

(* A notification moves a waiting thread and nothing else. *)
LEMMA NotifiedType ==
  ASSUME TypeOK, NEW t \in Threads
  PROVE  /\ Notified(t) \in [Threads -> {"none", "check", "waiting", "woken", "act", "session", "finished"}]
         /\ \A x \in Threads : Notified(t)[x] # thread[x] =>
              x = t /\ thread[x] = "waiting" /\ Notified(t)[x] = "woken"
  BY DEF Notified, TypeOK, Threads

(* The invariant holds initially. *)
LEMMA SlotInit == Init => SlotInv
<1> SUFFICES ASSUME Init PROVE SlotInv
  OBVIOUS
<1>1. TypeOK
  <2>1. signals \in 0 .. MaxSignals /\ faults \in 0 .. MaxFaults
    BY BoundsAssumption DEF Init
  <2>2. conn \in [Peers -> {"none", "open", "claimed", "handed", "session"}]
    BY DEF Init
  <2>3. QED
    BY <2>1, <2>2 DEF Init, TypeOK, Phases, Threads
<1>2. \A p \in Peers : conn[p] = "none"
  BY DEF Init
<1>3. thread["server"] = "none"
  BY DEF Init, Threads
<1>4. QED
  BY <1>1, <1>2, <1>3 DEF SlotInv, SlotGuarded, ServerHasWork

(* Every step preserves the invariant. *)
LEMMA SlotStep == SlotInv /\ [Next]_vars => SlotInv'
<1> SUFFICES ASSUME SlotInv, [Next]_vars PROVE SlotInv'
  OBVIOUS
<1> TypeOK /\ SlotGuarded /\ ServerHasWork
  BY DEF SlotInv
<1> USE PeersAssumption, BoundsAssumption
<1> USE DEF Working
<1> "server" \in Threads /\ "client" \in Threads
  BY DEF Threads
<1>1. CASE CheckExit
  <2>1. TypeOK'
    BY <1>1 DEF CheckExit, GoTo, Phases, network, counters, TypeOK
  <2>2. SlotGuarded' /\ ServerHasWork'
    BY <1>1 DEF CheckExit, GoTo, Phases, network, counters, TypeOK, SlotGuarded, ServerHasWork
  <2>3. QED
    BY <2>1, <2>2 DEF SlotInv
<1>2. CASE Run
  <2>1. TypeOK'
    BY <1>2 DEF Run, GoTo, Phases, network, counters, TypeOK
  <2>2. SlotGuarded' /\ ServerHasWork'
    BY <1>2 DEF Run, GoTo, Phases, network, counters, TypeOK, SlotGuarded, ServerHasWork
  <2>3. QED
    BY <2>1, <2>2 DEF SlotInv
<1>3. CASE StartThreads
  <2>1. TypeOK'
    BY <1>3, ZenonT(60) DEF StartThreads, StartThread, ResetDone, GoTo, Phases, Threads, network, counters, TypeOK
  <2>2. SlotGuarded' /\ ServerHasWork'
    BY <1>3 DEF StartThreads, StartThread, ResetDone, GoTo, Phases, Threads, network, counters, TypeOK, SlotGuarded, ServerHasWork
  <2>3. QED
    BY <2>1, <2>2 DEF SlotInv
<1>4. CASE LeavePoll
  <2>1. TypeOK'
    BY <1>4 DEF LeavePoll, GoTo, Phases, counters, TypeOK
  <2>2. SlotGuarded' /\ ServerHasWork'
    BY <1>4 DEF LeavePoll, GoTo, Phases, counters, TypeOK, SlotGuarded, ServerHasWork
  <2>3. QED
    BY <2>1, <2>2 DEF SlotInv
<1>5. CASE Throw
  <2>1. TypeOK'
    <3>1. faults' \in 0 .. MaxFaults
      <4>1. faults \in Nat /\ faults < MaxFaults /\ faults' = faults + 1
        <5>1. faults < MaxFaults /\ faults' = faults + 1
          BY <1>5 DEF Throw
        <5>2. faults \in Nat
          BY BoundsAssumption DEF TypeOK
        <5>3. QED
          BY <5>1, <5>2
      <4>2. QED
        BY <4>1, BoundsAssumption
    <3>2. main' \in Phases
      BY <1>5 DEF Throw, GoTo, Phases
    <3>3. QED
      BY <1>5, <3>1, <3>2 DEF Throw, network, TypeOK
  <2>2. SlotGuarded' /\ ServerHasWork'
    BY <1>5 DEF Throw, GoTo, Phases, network, TypeOK, SlotGuarded, ServerHasWork
  <2>3. QED
    BY <2>1, <2>2 DEF SlotInv
<1>6. CASE StopThreads
  <2>1. TypeOK'
    BY <1>6, NotifiedType, ZenonT(60) DEF StopThreads, NotifyAll, Join, GoTo, Phases, Threads, network, counters, TypeOK
  <2>2. SlotGuarded' /\ ServerHasWork'
    BY <1>6, NotifiedType DEF StopThreads, NotifyAll, Join, GoTo, Phases, Threads, network, counters, TypeOK, SlotGuarded, ServerHasWork
  <2>3. QED
    BY <2>1, <2>2 DEF SlotInv
<1>7. ASSUME NEW status \in {"reload", "exit"}, Signal(status) PROVE SlotInv'
  <2>1. TypeOK'
    BY <1>7 DEF Signal, network, TypeOK
  <2>2. SlotGuarded' /\ ServerHasWork'
    BY <1>7 DEF Signal, network, TypeOK, SlotGuarded, ServerHasWork
  <2>3. QED
    BY <2>1, <2>2 DEF SlotInv
<1>8. ASSUME NEW p \in Peers, Arrival(p) PROVE SlotInv'
  <2>1. CASE RecvHelo(p)
    <3>1. TypeOK'
      BY <2>1, NotifiedType DEF RecvHelo, counters, TypeOK
    <3>2. SlotGuarded' /\ ServerHasWork'
      BY <2>1, NotifiedType DEF RecvHelo, counters, TypeOK, SlotGuarded, ServerHasWork
    <3>3. QED
      BY <3>1, <3>2 DEF SlotInv
  <2>2. CASE RecvBye(p)
    <3>1. TypeOK'
      BY <2>2 DEF RecvBye, counters, TypeOK
    <3>2. SlotGuarded' /\ ServerHasWork'
      BY <2>2 DEF RecvBye, counters, TypeOK, SlotGuarded, ServerHasWork
    <3>3. QED
      BY <3>1, <3>2 DEF SlotInv
  <2>3. CASE Accept(p)
    <3>1. TypeOK'
      BY <2>3 DEF Accept, counters, TypeOK
    <3>2. SlotGuarded' /\ ServerHasWork'
      BY <2>3 DEF Accept, counters, TypeOK, SlotGuarded, ServerHasWork
    <3>3. QED
      BY <3>1, <3>2 DEF SlotInv
  <2>4. CASE HangUp(p)
    <3>1. TypeOK'
      BY <2>4 DEF HangUp, counters, TypeOK
    <3>2. SlotGuarded' /\ ServerHasWork'
      BY <2>4, ZenonT(60) DEF HangUp, counters, TypeOK, SlotGuarded, ServerHasWork
    <3>3. QED
      BY <3>1, <3>2 DEF SlotInv
  <2>5. CASE Differ(p)
    <3>1. TypeOK'
      BY <2>5 DEF Differ, counters, TypeOK
    <3>2. SlotGuarded' /\ ServerHasWork'
      BY <2>5 DEF Differ, counters, TypeOK, SlotGuarded, ServerHasWork
    <3>3. QED
      BY <3>1, <3>2 DEF SlotInv
  <2>6. CASE Serve(p) /\ server_busy
    <3>1. /\ conn' = [conn EXCEPT ![p] = "none"]
          /\ thread' = Notified("client")
          /\ ips' = ips \cup {p}
          /\ UNCHANGED <<server_busy, main, prog_status, done, slot, target, differing, signals, faults>>
      BY <2>6 DEF Serve, counters
    <3>2. thread'["server"] = thread["server"]
      BY <3>1, NotifiedType
    <3>3. TypeOK'
      BY <3>1, NotifiedType DEF TypeOK
    <3>4. SlotGuarded' /\ ServerHasWork'
      BY <3>1, <3>2 DEF TypeOK, SlotGuarded, ServerHasWork
    <3>5. QED
      BY <3>3, <3>4 DEF SlotInv
  <2>7. CASE Serve(p) /\ ~server_busy
    <3>1. /\ main = "poll" /\ main' = "handing over"
          /\ server_busy' = TRUE
          /\ conn' = [conn EXCEPT ![p] = "claimed"]
          /\ ips' = ips \cup {p}
          /\ UNCHANGED <<thread, prog_status, done, slot, target, differing, signals, faults>>
      BY <2>7 DEF Serve, GoTo, counters
    <3>2. TypeOK'
      BY <3>1 DEF TypeOK, Phases
    <3>3. \A q \in Peers : conn[q] \in {"none", "open"}
      BY <2>7 DEF TypeOK, SlotGuarded
    <3>4. thread["server"] \notin {"woken", "act", "session"}
      BY <2>7, <3>1 DEF ServerHasWork
    <3>5. SlotGuarded' /\ ServerHasWork'
      BY <3>1, <3>3, <3>4, ZenonT(60) DEF TypeOK, SlotGuarded, ServerHasWork
    <3>6. QED
      BY <3>2, <3>5 DEF SlotInv
  <2>8. QED
    BY <1>8, <2>1, <2>2, <2>3, <2>4, <2>5, <2>6, <2>7 DEF Arrival
<1>9. ASSUME NEW p \in Peers, HandOver(p) PROVE SlotInv'
  <2>1. TypeOK'
    BY <1>9, NotifiedType DEF HandOver, GoTo, Phases, counters, TypeOK
  <2>2. SlotGuarded' /\ ServerHasWork'
    <3>0. conn[p] = "claimed"
      BY <1>9 DEF HandOver
    <3>1. server_busy /\ \A q \in Peers \ {p} : conn[q] \in {"none", "open"}
      BY <3>0 DEF SlotGuarded
    <3>2. thread["server"] # "session"
      BY <3>0 DEF ServerHasWork
    <3>3. /\ thread' = Notified("server")
          /\ conn' = [conn EXCEPT ![p] = "handed"]
          /\ slot' = p
          /\ server_busy' = server_busy
      BY <1>9 DEF HandOver
    <3>4. thread'["server"] # "session"
      BY <3>2, <3>3, NotifiedType
    <3>5. \A q \in Peers : conn'[q] = IF q = p THEN "handed" ELSE conn[q]
      BY <3>3 DEF TypeOK
    <3>6. SlotGuarded'
      BY <3>1, <3>3, <3>5 DEF SlotGuarded
    <3>7. ServerHasWork'
      <4>1. server_busy'
        BY <3>1, <3>3
      <4>2. \A q \in Peers : conn'[q] # "claimed"
        BY <3>1, <3>5
      <4>3. QED
        BY <3>4, <4>1, <4>2 DEF ServerHasWork
    <3>8. QED
      BY <3>6, <3>7
  <2>3. QED
    BY <2>1, <2>2 DEF SlotInv
<1>10. ASSUME NEW t \in Threads, Loop(t) PROVE SlotInv'
  <2>1. TypeOK'
    BY <1>10, ZenonT(60) DEF Loop, Check, Wake, Threads, network, counters, TypeOK
  <2>2. SlotGuarded' /\ ServerHasWork'
    BY <1>10 DEF Loop, Check, Wake, Threads, network, counters, TypeOK, SlotGuarded, ServerHasWork
  <2>3. QED
    BY <2>1, <2>2 DEF SlotInv
<1>11. CASE ClientAct
  <2>1. TypeOK'
    BY <1>11 DEF ClientAct, counters, TypeOK
  <2>2. SlotGuarded' /\ ServerHasWork'
    BY <1>11 DEF ClientAct, counters, TypeOK, SlotGuarded, ServerHasWork
  <2>3. QED
    BY <2>1, <2>2 DEF SlotInv
<1>12. ASSUME NEW p \in Peers, NEW ok \in BOOLEAN, ClientSession(p, ok) PROVE SlotInv'
  <2>1. TypeOK'
    BY <1>12 DEF ClientSession, counters, TypeOK
  <2>2. SlotGuarded' /\ ServerHasWork'
    BY <1>12 DEF ClientSession, counters, TypeOK, SlotGuarded, ServerHasWork
  <2>3. QED
    BY <2>1, <2>2 DEF SlotInv
<1>13. CASE ServerAct
  <2>1. TypeOK'
    BY <1>13 DEF ServerAct, counters, TypeOK
  <2>2. SlotGuarded' /\ ServerHasWork'
    BY <1>13 DEF ServerAct, counters, TypeOK, SlotGuarded, ServerHasWork
  <2>3. QED
    BY <2>1, <2>2 DEF SlotInv
<1>14. ASSUME NEW ok \in BOOLEAN, ServerSession(ok) PROVE SlotInv'
  <2>1. TypeOK'
    BY <1>14 DEF ServerSession, counters, TypeOK
  <2>2. SlotGuarded' /\ ServerHasWork'
    BY <1>14 DEF ServerSession, counters, TypeOK, SlotGuarded, ServerHasWork
  <2>3. QED
    BY <2>1, <2>2 DEF SlotInv
<1>15. CASE UNCHANGED vars
  BY <1>15 DEF vars, SlotInv, TypeOK, SlotGuarded, ServerHasWork, Phases
<1>16. QED
  BY <1>1, <1>2, <1>3, <1>4, <1>5, <1>6, <1>7, <1>8, <1>9, <1>10, <1>11, <1>12, <1>13, <1>14, <1>15
  DEF Next, MainStep, ThreadStep

(* SlotInv is an invariant of the daemon's threads. *)
THEOREM SlotInvariance == Spec => []SlotInv
  BY SlotInit, SlotStep, PTL DEF Spec

(* The slot between the main thread and the server thread (src/daemon.cpp:  *)
(* serve() and server_act()) is never overwritten while it is in use,       *)
(* whatever signals and exceptions come, for any set of peers.              *)
THEOREM TheSlotIsGuarded == Spec => []SlotGuarded
<1>1. SlotInv => SlotGuarded
  BY DEF SlotInv
<1>2. QED
  BY <1>1, SlotInvariance, PTL

-----------------------------------------------------------------------------
(* The matrix *)

(* A set of numbers that is not empty has a smallest one. *)
LEMMA LeastLemma ==
  ASSUME NEW S \in SUBSET Nat, S # {}
  PROVE  /\ \E n \in S : \A k \in S : n <= k
         /\ Min(S) \in S
         /\ \A k \in S : Min(S) <= k
<1>1. OpToRel(<, Nat) = {ss \in Nat \X Nat : ss[1] < ss[2]}
  BY Zenon DEF OpToRel
<1>2. PICK n \in S : \A k \in S : ~(<<k, n>> \in {ss \in Nat \X Nat : ss[1] < ss[2]})
  BY <1>1, NatLessThanWellFounded, WFMin
<1>3. ASSUME NEW k \in S PROVE n <= k
  <2>1. <<k, n>> \in Nat \X Nat => ~(<<k, n>>[1] < <<k, n>>[2])
    BY <1>2
  <2>. QED BY <2>1
<1>4. Min(S) \in S /\ \A k \in S : Min(S) <= k
  BY <1>3, Zenon DEF Min
<1>. QED BY <1>3, <1>4

(* A function that is defined by recursion over 0 .. n exists. *)
Unfolds(f, n, z, G) == f[0] = z /\ \A k \in 1 .. n : f[k] = G[<<f[k - 1], k>>]

LEMMA RecursionLemma ==
  ASSUME NEW X, NEW z \in X, NEW n \in Nat, NEW G \in [X \X (1 .. n) -> X]
  PROVE  \E f \in [0 .. n -> X] : Unfolds(f, n, z, G)
<1>. DEFINE Is(f, m) == f \in [0 .. m -> X] /\ f[0] = z /\ \A k \in 1 .. m : f[k] = G[<<f[k - 1], k>>]
            Bad == {m \in 0 .. n : ~ \E f : Is(f, m)}
<1>. HIDE DEF Is
<1>. SUFFICES ASSUME Bad # {} PROVE FALSE
  <2>1. n \in 0 .. n /\ n \notin Bad
    OBVIOUS
  <2>2. PICK f : Is(f, n)
    BY <2>1
  <2>. QED BY <2>2 DEF Is, Unfolds
<1>1. PICK m \in Bad : \A k \in Bad : m <= k
  <2>. HIDE DEF Bad
  <2>1. Bad \in SUBSET Nat
    BY DEF Bad
  <2>. QED BY <2>1, LeastLemma
<1>2. CASE m = 0
  <2>1. Is([k \in 0 .. 0 |-> z], 0)
    BY DEF Is
  <2>. QED BY <2>1, <1>2
<1>3. CASE m # 0
  <2>1. m - 1 \in 0 .. n /\ m - 1 \notin Bad /\ m \in 1 .. n
    <3>1. m \in 1 .. n /\ m - 1 \in 0 .. n
      BY <1>1, <1>3 DEF Bad
    <3>. HIDE DEF Bad
    <3>. QED BY <3>1, <1>1
  <2>2. PICK f : Is(f, m - 1)
    BY <2>1
  <2>. HIDE DEF Bad
  <2>. DEFINE g == [k \in 0 .. m |-> IF k = m THEN G[<<f[m - 1], m>>] ELSE f[k]]
  <2>3. g \in [0 .. m -> X]
    <3>1. f \in [0 .. m - 1 -> X] /\ m - 1 \in 0 .. m - 1
      BY <2>1, <2>2 DEF Is
    <3>2. ASSUME NEW k \in 0 .. m PROVE g[k] \in X
      <4>1. CASE k = m
        <5>1. f[m - 1] \in X
          BY <3>1
        <5>. QED BY <4>1, <5>1, <2>1
      <4>2. CASE k # m
        <5>1. k \in 0 .. m - 1
          BY <2>1, <4>2
        <5>. QED BY <4>2, <5>1, <3>1
      <4>. QED BY <4>1, <4>2
    <3>. QED BY <3>2
  <2>4. g[0] = z
    BY <2>1, <2>2 DEF Is
  <2>5. ASSUME NEW k \in 1 .. m PROVE g[k] = G[<<g[k - 1], k>>]
    <3>1. k - 1 \in 0 .. m - 1 /\ g[k - 1] = f[k - 1]
      BY <2>1
    <3>. SUFFICES g[k] = G[<<f[k - 1], k>>]
      BY <3>1, Zenon
    <3>2. CASE k = m
      <4>1. g[m] = G[<<f[m - 1], m>>] /\ f[m - 1] = f[k - 1]
        BY <2>1, <3>2
      <4>. HIDE DEF g
      <4>. QED BY <4>1, <3>2, Zenon
    <3>3. CASE k # m
      <4>1. k \in 1 .. m - 1
        BY <2>1, <3>3
      <4>2. f[k] = G[<<f[k - 1], k>>]
        BY <4>1, <2>2 DEF Is
      <4>3. g[k] = f[k]
        BY <3>3
      <4>. HIDE DEF g
      <4>. QED BY <4>2, <4>3, Zenon
    <3>. QED BY <3>2, <3>3
  <2>. HIDE DEF g
  <2>6. Is(g, m)
    BY <2>3, <2>4, <2>5 DEF Is
  <2>. QED BY <2>6, <1>1 DEF Bad
<1>. QED BY <1>2, <1>3

-----------------------------------------------------------------------------
(* The members in their order *)

Increasing(s) == \A i, j \in DOMAIN s : i < j => s[i] < s[j]

(* Each number of the set has as its place how many are not larger. *)
LEMMA SortExists ==
  ASSUME NEW S \in SUBSET Nat, IsFiniteSet(S)
  PROVE  \E s \in [1 .. Cardinality(S) -> S] : Increasing(s)
<1>. DEFINE n == Cardinality(S)
            Upto(x) == {y \in S : y <= x}
            place == [x \in S |-> Cardinality(Upto(x))]
<1>1. n \in Nat
  BY FS_CardinalityType
<1>2. ASSUME NEW x \in S PROVE place[x] \in 1 .. n
  <2>1. IsFiniteSet(Upto(x)) /\ Cardinality(Upto(x)) <= n /\ Cardinality(Upto(x)) \in Nat
    BY FS_Subset, FS_CardinalityType
  <2>2. x \in Upto(x)
    OBVIOUS
  <2>3. Cardinality(Upto(x)) # 0
    BY <2>1, <2>2, FS_EmptySet
  <2>. QED BY <2>1, <2>3, <1>1
<1>3. ASSUME NEW x \in S, NEW y \in S, x < y PROVE place[x] < place[y]
  <2>1. IsFiniteSet(Upto(y)) /\ IsFiniteSet(Upto(x))
    BY FS_Subset
  <2>2. Upto(x) \subseteq Upto(y) /\ y \in Upto(y) /\ y \notin Upto(x)
    <3>1. y <= y /\ ~ (y <= x) /\ \A z \in S : z <= x => z <= y
      BY <1>3
    <3>. QED BY <3>1
  <2>3. Cardinality(Upto(x)) <= Cardinality(Upto(y))
    BY <2>1, <2>2, FS_Subset
  <2>4. Cardinality(Upto(x)) # Cardinality(Upto(y))
    BY <2>1, <2>2, FS_Subset
  <2>5. Cardinality(Upto(x)) \in Nat /\ Cardinality(Upto(y)) \in Nat
    BY <2>1, FS_CardinalityType
  <2>. QED BY <2>3, <2>4, <2>5
<1>. HIDE DEF place
<1>4. place \in [S -> 1 .. n]
  BY <1>2 DEF place
<1>5. place \in Injection(S, 1 .. n)
  <2>1. ASSUME NEW x \in S, NEW y \in S, x # y PROVE place[x] # place[y]
    <3>1. x < y \/ y < x
      BY <2>1
    <3>. QED BY <3>1, <1>2, <1>3, <1>1
  <2>. QED BY <2>1, <1>4 DEF Injection, IsInjective
<1>6. IsFiniteSet(1 .. n) /\ Cardinality(1 .. n) = n
  BY <1>1, FS_Interval
<1>7. place \in Surjection(S, 1 .. n)
  BY <1>5, <1>6, FS_Injection
<1>8. \A i \in 1 .. n : \E x \in S : place[x] = i
  BY <1>7 DEF Surjection
<1>. DEFINE s == [i \in 1 .. n |-> CHOOSE x \in S : place[x] = i]
<1>9. \A i \in 1 .. n : s[i] \in S /\ place[s[i]] = i
  BY <1>8
<1>. HIDE DEF s, n
<1>10. s \in [1 .. n -> S]
  BY <1>9 DEF s
<1>n. n \in Nat /\ place \in [S -> 1 .. n]
  BY <1>1, <1>4 DEF n
<1>11. ASSUME NEW i \in 1 .. n, NEW j \in 1 .. n, i < j PROVE s[i] < s[j]
  <2>1. s[i] \in S /\ s[j] \in S /\ place[s[i]] = i /\ place[s[j]] = j
    BY <1>9
  <2>2. i \in Nat /\ j \in Nat /\ i # j /\ ~ (j < i)
    BY <1>11, <1>n
  <2>3. s[i] # s[j] /\ ~ (s[j] < s[i])
    BY <2>1, <2>2, <1>3
  <2>4. s[i] \in Nat /\ s[j] \in Nat
    BY <2>1
  <2>. QED BY <2>3, <2>4
<1>12. Increasing(s)
  BY <1>10, <1>11 DEF Increasing
<1>. QED BY <1>10, <1>12 DEF n

(* An increasing list of all numbers of a set has each of them at one place. *)
Lists(s, S) ==
  /\ s \in [1 .. Cardinality(S) -> S]
  /\ Increasing(s)
  /\ \A x \in S : \E i \in DOMAIN s : s[i] = x

LEMMA IncreasingLemma ==
  ASSUME NEW n \in Nat, NEW s \in [1 .. n -> Nat], Increasing(s),
         NEW i \in 1 .. n, NEW j \in 1 .. n
  PROVE  /\ s[i] < s[j] <=> i < j
         /\ s[i] = s[j] <=> i = j
         /\ s[i] <= s[j] <=> i <= j
<1>1. s[i] \in Nat /\ s[j] \in Nat /\ i \in Nat /\ j \in Nat
  OBVIOUS
<1>2. (i < j => s[i] < s[j]) /\ (j < i => s[j] < s[i])
  BY DEF Increasing
<1>3. i = j => s[i] = s[j]
  OBVIOUS
<1>4. i < j \/ j < i \/ i = j
  BY <1>1
<1>. QED BY <1>1, <1>2, <1>3, <1>4

(* Sorted gives such a list. *)
LEMMA SortedLemma ==
  ASSUME NEW S \in SUBSET Nat, IsFiniteSet(S)
  PROVE  Cardinality(S) \in Nat /\ Lists(Sorted(S), S)
<1>. DEFINE n == Cardinality(S)
            s == Sorted(S)
<1>1. n \in Nat
  BY FS_CardinalityType
<1>2. s \in [1 .. n -> S] /\ Increasing(s)
  <2>1. \E t \in [1 .. n -> S] : \A i, j \in DOMAIN t : i < j => t[i] < t[j]
    BY SortExists, Zenon DEF Increasing
  <2>. QED BY <2>1, Zenon DEF Sorted, Increasing
<1>. HIDE DEF s, n
<1>3. s \in Injection(1 .. n, S)
  <2>1. s \in [1 .. n -> Nat]
    BY <1>2
  <2>2. \A i, j \in 1 .. n : s[i] = s[j] => i = j
    BY <2>1, <1>1, <1>2, IncreasingLemma
  <2>. QED BY <2>2, <1>2 DEF Injection, IsInjective
<1>4. Cardinality(1 .. n) = n
  BY <1>1, FS_Interval
<1>5. s \in Surjection(1 .. n, S)
  BY <1>3, <1>4, FS_Injection DEF n
<1>6. \A x \in S : \E i \in 1 .. n : s[i] = x
  BY <1>5 DEF Surjection
<1>. QED BY <1>1, <1>2, <1>6 DEF Lists, s, n

(* There is one increasing list of a set. *)
LEMMA SortedUnique ==
  ASSUME NEW n \in Nat, NEW s \in [1 .. n -> Nat], Increasing(s)
  PROVE  Sorted(ToSet(s)) = s
<1>. DEFINE S == ToSet(s)
            t == Sorted(S)
<1>1. S \in SUBSET Nat /\ s \in [1 .. n -> S] /\ \A x \in S : \E i \in 1 .. n : s[i] = x
  BY DEF ToSet
<1>2. s \in Injection(1 .. n, S)
  <2>1. \A i, j \in 1 .. n : s[i] = s[j] => i = j
    BY IncreasingLemma
  <2>. QED BY <2>1, <1>1 DEF Injection, IsInjective
<1>3. s \in Surjection(1 .. n, S)
  BY <1>1 DEF Surjection
<1>4. IsFiniteSet(S) /\ Cardinality(S) = n
  <2>1. IsFiniteSet(1 .. n) /\ Cardinality(1 .. n) = n
    BY FS_Interval
  <2>. QED BY <2>1, <1>2, <1>3, FS_Surjection
<1>5. Lists(t, S)
  BY <1>1, <1>4, SortedLemma
<1>. HIDE DEF S, t
<1>6. t \in [1 .. n -> S] /\ Increasing(t) /\ \A x \in S : \E i \in 1 .. n : t[i] = x
  BY <1>4, <1>5 DEF Lists
<1>7. t \in [1 .. n -> Nat]
  BY <1>1, <1>6
<1>8. t = s
  <2>. DEFINE Bad == {i \in 1 .. n : t[i] # s[i]}
  <2>. SUFFICES ASSUME Bad # {} PROVE FALSE
    <3>1. ASSUME Bad = {} PROVE t = s
      <4>1. \A i \in 1 .. n : t[i] = s[i]
        BY <3>1
      <4>. HIDE DEF Bad
      <4>. QED BY <4>1, <1>7
    <3>. QED BY <3>1
  <2>1. Bad \in SUBSET Nat
    OBVIOUS
  <2>2. PICK p \in Bad : \A k \in Bad : p <= k
    <3>. HIDE DEF Bad
    <3>. QED BY <2>1, LeastLemma
  <2>3. p \in 1 .. n /\ t[p] # s[p] /\ \A k \in 1 .. n : k < p => t[k] = s[k]
    BY <2>2
  <2>. HIDE DEF Bad
  <2>4. PICK q \in 1 .. n : t[q] = s[p]
    BY <1>1, <1>6, <2>3
  <2>5. PICK r \in 1 .. n : s[r] = t[p]
    BY <1>1, <1>6, <2>3
  <2>6. ~ (q < p) /\ ~ (r < p)
    <3>1. q < p => s[q] = s[p]
      BY <2>3, <2>4
    <3>2. r < p => t[r] = t[p]
      BY <2>3, <2>5
    <3>3. (s[q] = s[p] => q = p) /\ (t[r] = t[p] => r = p)
      BY <1>6, <1>7, <2>3, IncreasingLemma
    <3>. QED BY <3>1, <3>2, <3>3, <2>3
  <2>7. q # p /\ r # p
    BY <2>3, <2>4, <2>5
  <2>8. p < q /\ p < r
    BY <2>6, <2>7, <2>3
  <2>9. t[p] < t[q] /\ s[p] < s[r]
    BY <2>8, <2>3, <1>6, <1>7, IncreasingLemma
  <2>10. t[p] \in Nat /\ s[p] \in Nat
    BY <2>3, <1>7
  <2>. QED BY <2>9, <2>4, <2>5, <2>10
<1>. QED BY <1>8 DEF t, S

-----------------------------------------------------------------------------
(* The table that the vectors stand for *)

Vectors(i, r) ==
  /\ Len(i) \in Nat /\ i \in [1 .. Len(i) -> Nat]
  /\ Increasing(i)
  /\ r \in [DOMAIN i -> [DOMAIN i -> Nat]]

Shows(t, i, r) ==
  /\ t = [a \in ToSet(i) |-> [b \in ToSet(i) |-> t[a][b]]]
  /\ \A x, y \in 1 .. Len(i) : t[i[x]][i[y]] = r[x][y]
Members(i) ==
  /\ \A x \in 1 .. Len(i) : i[x] \in ToSet(i)
  /\ \A a \in ToSet(i) : \E x \in 1 .. Len(i) : i[x] = a
  /\ \A x, y \in 1 .. Len(i) : i[x] = i[y] => x = y

LEMMA TableLemma ==
  ASSUME NEW i, NEW r, Vectors(i, r)
  PROVE  Shows(AsTable(i, r), i, r) /\ Members(i)
<1>. DEFINE at(a) == CHOOSE x \in DOMAIN i : i[x] = a
            T == AsTable(i, r)
<1>1. DOMAIN i = 1 .. Len(i) /\ Len(i) \in Nat
  BY DEF Vectors
<1>2. ASSUME NEW x \in 1 .. Len(i), NEW y \in 1 .. Len(i), i[x] = i[y] PROVE x = y
  <2>1. i \in [1 .. Len(i) -> Nat] /\ Increasing(i)
    BY DEF Vectors
  <2>. QED BY <2>1, <1>1, <1>2, IncreasingLemma
<1>3. \A x \in 1 .. Len(i) : at(i[x]) = x
  BY <1>1, <1>2
<1>4. /\ \A x \in 1 .. Len(i) : i[x] \in ToSet(i)
      /\ \A a \in ToSet(i) : \E x \in 1 .. Len(i) : i[x] = a
  BY <1>1 DEF ToSet
<1>. HIDE DEF at
<1>5. T = [a \in ToSet(i) |-> [b \in ToSet(i) |-> r[at(a)][at(b)]]]
  BY Zenon DEF AsTable, at
<1>. HIDE DEF T
<1>6. \A x, y \in 1 .. Len(i) : T[i[x]][i[y]] = r[x][y]
  BY <1>3, <1>4, <1>5
<1>7. T = [a \in ToSet(i) |-> [b \in ToSet(i) |-> T[a][b]]]
  BY <1>5
<1>. QED BY <1>2, <1>4, <1>6, <1>7 DEF T, Shows, Members

(* A table with the same members and cells is the one the vectors stand for. *)
LEMMA SameTable ==
  ASSUME NEW i, NEW r, Vectors(i, r), NEW t,
         Shows(t, i, r)
  PROVE  t = AsTable(i, r)
<1>. DEFINE T == AsTable(i, r)
<1>1. /\ T = [a \in ToSet(i) |-> [b \in ToSet(i) |-> T[a][b]]]
      /\ \A x, y \in 1 .. Len(i) : T[i[x]][i[y]] = r[x][y]
      /\ \A a \in ToSet(i) : \E x \in 1 .. Len(i) : i[x] = a
  BY TableLemma DEF Shows, Members
<1>. HIDE DEF T
<1>2. ASSUME NEW a \in ToSet(i), NEW b \in ToSet(i) PROVE t[a][b] = T[a][b]
  <2>1. PICK x \in 1 .. Len(i) : i[x] = a
    BY <1>1
  <2>2. PICK y \in 1 .. Len(i) : i[y] = b
    BY <1>1
  <2>3. t[i[x]][i[y]] = r[x][y] /\ T[i[x]][i[y]] = r[x][y]
    BY <1>1 DEF Shows
  <2>. QED BY <2>1, <2>2, <2>3
<1>3. [a \in ToSet(i) |-> [b \in ToSet(i) |-> t[a][b]]]
        = [a \in ToSet(i) |-> [b \in ToSet(i) |-> T[a][b]]]
  BY <1>2
<1>. QED BY <1>1, <1>3, Zenon DEF T, Shows

(* The two pointers of update() *)

(* What is done with the other list when one of mine is served. *)
LEMMA PassLemma ==
  ASSUME NEW remote, Len(remote) \in Nat, remote \in [1 .. Len(remote) -> Nat],
         Increasing(remote), NEW r \in 0 .. Len(remote), NEW id \in Nat
  PROVE  /\ Pass(remote, r, id) \in r .. Len(remote)
         /\ \A x \in r + 1 .. Pass(remote, r, id) : remote[x] <= id
         /\ \A x \in Pass(remote, r, id) + 1 .. Len(remote) : remote[x] > id
<1>. DEFINE L == Len(remote)
            K == {x \in r + 1 .. L + 1 : x > L \/ remote[x] >= id}
            k == Min(K)
<1>1. L + 1 \in K /\ K \in SUBSET Nat
  OBVIOUS
<1>. HIDE DEF K
<1>2. k \in K /\ \A x \in K : k <= x
  BY <1>1, LeastLemma, Zenon
<1>3. Pass(remote, r, id) = IF k <= L /\ remote[k] = id THEN k ELSE k - 1
  BY DEF Pass, K
<1>. HIDE DEF k, L
<1>4. k \in r + 1 .. L + 1 /\ (k > L \/ remote[k] >= id)
  BY <1>2 DEF K
<1>5. \A x \in r + 1 .. k - 1 : remote[x] < id
  <2>. SUFFICES ASSUME NEW x \in r + 1 .. k - 1 PROVE remote[x] < id
    OBVIOUS
  <2>1. x \in r + 1 .. L /\ x \in 1 .. L /\ ~ (k <= x)
    BY <1>4 DEF L
  <2>2. x \notin K
    BY <1>2, <2>1
  <2>3. remote[x] \in Nat
    BY <2>1 DEF L
  <2>4. x \in r + 1 .. L + 1 /\ ~ (remote[x] >= id)
    BY <2>1, <2>2 DEF K, L
  <2>. QED BY <2>3, <2>4
<1>6. \A x \in k + 1 .. L : remote[k] < remote[x] /\ remote[x] \in Nat /\ remote[k] \in Nat /\ remote[k] >= id
  <2>. SUFFICES ASSUME NEW x \in k + 1 .. L
                PROVE  remote[k] < remote[x] /\ remote[x] \in Nat /\ remote[k] \in Nat /\ remote[k] >= id
    OBVIOUS
  <2>1. x \in 1 .. L /\ k \in 1 .. L /\ k < x
    BY <1>4 DEF L
  <2>. QED BY <2>1, <1>4 DEF L, Increasing
<1>7. CASE k <= L /\ remote[k] = id
  <2>1. Pass(remote, r, id) = k
    BY <1>3, <1>7
  <2>2. ASSUME NEW x \in r + 1 .. k PROVE remote[x] <= id
    <3>1. CASE x = k
      BY <1>7, <3>1
    <3>2. CASE x # k
      <4>1. x \in r + 1 .. k - 1 /\ x \in 1 .. L
        BY <3>2, <1>4, <1>7 DEF L
      <4>. QED BY <4>1, <1>5 DEF L
    <3>. QED BY <3>1, <3>2
  <2>. QED BY <2>1, <2>2, <1>4, <1>6, <1>7 DEF L
<1>8. CASE ~ (k <= L /\ remote[k] = id)
  <2>1. Pass(remote, r, id) = k - 1
    BY <1>3, <1>8
  <2>2. ASSUME NEW x \in k .. L PROVE remote[x] > id
    <3>1. CASE x = k
      <4>1. k \in 1 .. L /\ remote[k] >= id /\ remote[k] # id
        BY <3>1, <1>4, <1>8 DEF L
      <4>. QED BY <3>1, <4>1 DEF L
    <3>2. CASE x # k
      <4>1. x \in k + 1 .. L
        BY <3>2, <1>4 DEF L
      <4>. QED BY <4>1, <1>6
    <3>. QED BY <3>1, <3>2
  <2>3. ASSUME NEW x \in r + 1 .. k - 1 PROVE remote[x] <= id
    <3>1. x \in 1 .. L
      BY <1>4 DEF L
    <3>. QED BY <3>1, <1>5 DEF L
  <2>. QED BY <2>1, <2>2, <2>3, <1>4 DEF L
<1>. QED BY <1>7, <1>8

LEMMA UsedType ==
  ASSUME NEW my, Len(my) \in Nat, my \in [1 .. Len(my) -> Nat],
         NEW remote, Len(remote) \in Nat, remote \in [1 .. Len(remote) -> Nat], Increasing(remote)
  PROVE  /\ Used(my, remote) \in [0 .. Len(my) -> 0 .. Len(remote)]
         /\ Used(my, remote)[0] = 0
         /\ \A m \in 1 .. Len(my) :
                Used(my, remote)[m] = Pass(remote, Used(my, remote)[m - 1], my[m])
<1>. DEFINE L == Len(remote)
            n == Len(my)
            G == [u \in (0 .. L) \X (1 .. n) |-> Pass(remote, u[1], my[u[2]])]
            F(f) == [m \in 0 .. n |-> IF m = 0 THEN 0 ELSE Pass(remote, f[m - 1], my[m])]
<1>1. \A r \in 0 .. L, m \in 1 .. n : Pass(remote, r, my[m]) \in 0 .. L
  BY PassLemma
<1>2. G \in [(0 .. L) \X (1 .. n) -> 0 .. L]
  BY <1>1
<1>3. \A r \in 0 .. L, m \in 1 .. n : G[<<r, m>>] = Pass(remote, r, my[m])
  OBVIOUS
<1>. HIDE DEF G
<1>4. PICK f \in [0 .. n -> 0 .. L] : Unfolds(f, n, 0, G)
  <2>1. 0 \in 0 .. L /\ n \in Nat
    OBVIOUS
  <2>. QED BY <1>2, <2>1, RecursionLemma, Zenon
<1>5. \A k \in 1 .. n : f[k] = Pass(remote, f[k - 1], my[k])
  <2>. SUFFICES ASSUME NEW k \in 1 .. n PROVE f[k] = Pass(remote, f[k - 1], my[k])
    OBVIOUS
  <2>1. k - 1 \in 0 .. n
    OBVIOUS
  <2>2. f[k - 1] \in 0 .. L
    BY <2>1
  <2>3. f[k] = G[<<f[k - 1], k>>]
    BY <1>4 DEF Unfolds
  <2>. QED BY <2>2, <2>3, <1>3
<1>6. f = F(f)
  <2>1. \A m \in 0 .. n : f[m] = IF m = 0 THEN 0 ELSE Pass(remote, f[m - 1], my[m])
    BY <1>4, <1>5 DEF Unfolds
  <2>2. f = [m \in 0 .. n |-> f[m]]
    BY <1>4
  <2>. QED BY <2>1, <2>2, Zenon
<1>7. Used(my, remote) = CHOOSE g : g = F(g)
  BY Zenon DEF Used
<1>8. Used(my, remote) = F(Used(my, remote))
  BY <1>6, <1>7, Zenon
<1>. DEFINE U == Used(my, remote)
<1>. HIDE DEF U
<1>9. U = [m \in 0 .. n |-> IF m = 0 THEN 0 ELSE Pass(remote, U[m - 1], my[m])]
  BY <1>8, Zenon DEF U
<1>10. U[0] = 0 /\ \A m \in 1 .. n : U[m] = Pass(remote, U[m - 1], my[m])
  BY <1>9
<1>11. ASSUME NEW m \in 0 .. n PROVE U[m] \in 0 .. L
  <2>. DEFINE Bad == {x \in 0 .. n : U[x] \notin 0 .. L}
  <2>. SUFFICES ASSUME Bad # {} PROVE FALSE
    OBVIOUS
  <2>1. Bad \in SUBSET Nat
    OBVIOUS
  <2>2. PICK p \in Bad : \A k \in Bad : p <= k
    <3>. HIDE DEF Bad
    <3>. QED BY <2>1, LeastLemma
  <2>3. p \in 0 .. n /\ U[p] \notin 0 .. L /\ \A k \in 0 .. n : k < p => U[k] \in 0 .. L
    BY <2>2
  <2>. HIDE DEF Bad
  <2>4. p # 0
    BY <2>3, <1>10
  <2>5. p \in 1 .. n /\ p - 1 \in 0 .. n /\ p - 1 < p
    BY <2>3, <2>4
  <2>6. U[p - 1] \in 0 .. L
    BY <2>5, <2>3
  <2>. QED BY <2>3, <2>5, <2>6, <1>1, <1>10
<1>12. U \in [0 .. n -> 0 .. L]
  BY <1>9, <1>11
<1>. QED BY <1>10, <1>12 DEF U

(* What is done with is what is not behind the last of mine that was served. *)
LEMMA UsedLemma ==
  ASSUME NEW my, Len(my) \in Nat, my \in [1 .. Len(my) -> Nat], Increasing(my),
         NEW remote, Len(remote) \in Nat, remote \in [1 .. Len(remote) -> Nat], Increasing(remote),
         NEW m \in 1 .. Len(my)
  PROVE  /\ \A x \in 1 .. Used(my, remote)[m] : remote[x] <= my[m]
         /\ \A x \in Used(my, remote)[m] + 1 .. Len(remote) : remote[x] > my[m]
<1>. DEFINE U == Used(my, remote)
            n == Len(my)
            L == Len(remote)
            Low(k) == \A x \in 1 .. U[k] : remote[x] <= my[k]
            Bad == {k \in 1 .. n : ~ Low(k)}
<1>1. U \in [0 .. n -> 0 .. L] /\ U[0] = 0 /\ \A k \in 1 .. n : U[k] = Pass(remote, U[k - 1], my[k])
  BY UsedType
<1>. HIDE DEF U
<1>2. ASSUME NEW k \in 1 .. n
      PROVE  /\ U[k - 1] \in 0 .. L /\ U[k] \in U[k - 1] .. L
             /\ \A x \in U[k - 1] + 1 .. U[k] : remote[x] <= my[k]
             /\ \A x \in U[k] + 1 .. L : remote[x] > my[k]
  <2>1. U[k - 1] \in 0 .. L /\ my[k] \in Nat
    BY <1>1
  <2>. HIDE DEF L
  <2>. QED BY <2>1, <1>1, PassLemma DEF L
<1>3. Bad = {}
  <2>. SUFFICES ASSUME Bad # {} PROVE FALSE
    OBVIOUS
  <2>1. Bad \in SUBSET Nat
    OBVIOUS
  <2>2. PICK p \in Bad : \A k \in Bad : p <= k
    <3>. HIDE DEF Bad
    <3>. QED BY <2>1, LeastLemma
  <2>3. p \in 1 .. n /\ ~ Low(p) /\ \A k \in 1 .. n : k < p => Low(k)
    BY <2>2
  <2>. HIDE DEF Bad
  <2>4. PICK x \in 1 .. U[p] : ~ (remote[x] <= my[p])
    BY <2>3
  <2>5. U[p - 1] \in 0 .. L /\ U[p] \in 0 .. L /\ x \in 1 .. L /\ remote[x] \in Nat /\ my[p] \in Nat
    BY <2>3, <1>2, <2>4
  <2>6. x <= U[p - 1]
    BY <2>3, <1>2, <2>4, <2>5
  <2>7. p # 1
    BY <2>6, <2>5, <1>1
  <2>8. p - 1 \in 1 .. n /\ p - 1 < p
    BY <2>3, <2>7
  <2>9. remote[x] <= my[p - 1]
    BY <2>8, <2>3, <2>6, <2>5
  <2>10. my[p - 1] < my[p] /\ my[p - 1] \in Nat
    BY <2>8, <2>3 DEF Increasing
  <2>. QED BY <2>4, <2>5, <2>9, <2>10
<1>4. Low(m)
  BY <1>3
<1>. QED BY <1>2, <1>4 DEF U

(* The position of the same member in the other list, 0 when it has no such member. *)
LEMMA RIdxLemma ==
  ASSUME NEW my, Len(my) \in Nat, my \in [1 .. Len(my) -> Nat], Increasing(my),
         NEW remote, Len(remote) \in Nat, remote \in [1 .. Len(remote) -> Nat], Increasing(remote),
         NEW m \in 1 .. Len(my)
  PROVE  /\ RIdx(my, remote)[m] \in 0 .. Len(remote)
         /\ RIdx(my, remote)[m] # 0 <=> my[m] \in ToSet(remote)
         /\ RIdx(my, remote)[m] # 0 => remote[RIdx(my, remote)[m]] = my[m]
<1>. DEFINE u == Used(my, remote)[m]
            i == RIdx(my, remote)[m]
<1>1. u \in 0 .. Len(remote)
  BY UsedType
<1>2. /\ \A x \in 1 .. u : remote[x] <= my[m]
      /\ \A x \in u + 1 .. Len(remote) : remote[x] > my[m]
  BY UsedLemma
<1>3. i = IF u # 0 /\ remote[u] = my[m] THEN u ELSE 0
  BY DEF RIdx
<1>. HIDE DEF u, i
<1>4. i \in 0 .. Len(remote) /\ (i # 0 => remote[i] = my[m] /\ i \in 1 .. Len(remote))
  BY <1>1, <1>3
<1>5. i # 0 => my[m] \in ToSet(remote)
  BY <1>4 DEF ToSet
<1>6. ASSUME NEW x \in 1 .. Len(remote), remote[x] = my[m] PROVE i # 0
  <2>1. my[m] \in Nat /\ remote[x] \in Nat
    OBVIOUS
  <2>2. ~ (x > u)
    <3>1. x > u => x \in u + 1 .. Len(remote)
      BY <1>1
    <3>. QED BY <3>1, <2>1, <1>2, <1>6
  <2>3. u \in 1 .. Len(remote) /\ x <= u
    BY <2>2, <1>1
  <2>4. remote[u] <= my[m] /\ remote[u] \in Nat
    BY <2>3, <1>2
  <2>5. remote[x] <= remote[u]
    BY <2>3, IncreasingLemma
  <2>6. remote[u] = my[m]
    BY <2>1, <2>4, <2>5, <1>6
  <2>. QED BY <2>3, <2>6, <1>3
<1>7. my[m] \in ToSet(remote) => i # 0
  <2>1. DOMAIN remote = 1 .. Len(remote)
    OBVIOUS
  <2>. QED BY <1>6, <2>1 DEF ToSet
<1>. QED BY <1>4, <1>5, <1>7 DEF i

LEMMA OrderLemma ==
  ASSUME NEW s, Len(s) \in Nat, s \in [1 .. Len(s) -> Nat], Increasing(s)
  PROVE  \A i, j \in 1 .. Len(s) : /\ s[i] < s[j] <=> i < j
                                   /\ s[i] = s[j] <=> i = j
BY IncreasingLemma

(* The two pointers of resize(), where mine are among the united members *)

LEMMA TakenType ==
  ASSUME Len(ids) \in Nat, NEW all, Len(all) \in Nat
  PROVE  /\ Taken(all) \in [0 .. Len(all) -> 0 .. Len(ids)]
         /\ Taken(all)[0] = 0
         /\ \A m \in 1 .. Len(all) : Taken(all)[m] = Take(Taken(all)[m - 1], all[m])
<1>. DEFINE L == Len(ids)
            n == Len(all)
            G == [u \in (0 .. L) \X (1 .. n) |-> Take(u[1], all[u[2]])]
            F(f) == [m \in 0 .. n |-> IF m = 0 THEN 0 ELSE Take(f[m - 1], all[m])]
<1>1. \A r \in 0 .. L, m \in 1 .. n : Take(r, all[m]) \in 0 .. L
  BY DEF Take
<1>2. G \in [(0 .. L) \X (1 .. n) -> 0 .. L]
  BY <1>1
<1>3. \A r \in 0 .. L, m \in 1 .. n : G[<<r, m>>] = Take(r, all[m])
  OBVIOUS
<1>. HIDE DEF G
<1>4. PICK f \in [0 .. n -> 0 .. L] : Unfolds(f, n, 0, G)
  <2>1. 0 \in 0 .. L /\ n \in Nat
    OBVIOUS
  <2>. QED BY <1>2, <2>1, RecursionLemma, Zenon
<1>5. \A k \in 1 .. n : f[k] = Take(f[k - 1], all[k])
  <2>. SUFFICES ASSUME NEW k \in 1 .. n PROVE f[k] = Take(f[k - 1], all[k])
    OBVIOUS
  <2>1. k - 1 \in 0 .. n
    OBVIOUS
  <2>2. f[k - 1] \in 0 .. L
    BY <2>1
  <2>3. f[k] = G[<<f[k - 1], k>>]
    BY <1>4 DEF Unfolds
  <2>. QED BY <2>2, <2>3, <1>3
<1>6. f = F(f)
  <2>1. \A m \in 0 .. n : f[m] = IF m = 0 THEN 0 ELSE Take(f[m - 1], all[m])
    BY <1>4, <1>5 DEF Unfolds
  <2>2. f = [m \in 0 .. n |-> f[m]]
    BY <1>4
  <2>. QED BY <2>1, <2>2, Zenon
<1>7. Taken(all) = CHOOSE g : g = F(g)
  BY Zenon DEF Taken
<1>8. Taken(all) = F(Taken(all))
  BY <1>6, <1>7, Zenon
<1>. DEFINE U == Taken(all)
<1>. HIDE DEF U
<1>9. U = [m \in 0 .. n |-> IF m = 0 THEN 0 ELSE Take(U[m - 1], all[m])]
  BY <1>8, Zenon DEF U
<1>10. U[0] = 0 /\ \A m \in 1 .. n : U[m] = Take(U[m - 1], all[m])
  BY <1>9
<1>11. ASSUME NEW m \in 0 .. n PROVE U[m] \in 0 .. L
  <2>. DEFINE Bad == {x \in 0 .. n : U[x] \notin 0 .. L}
  <2>. SUFFICES ASSUME Bad # {} PROVE FALSE
    OBVIOUS
  <2>1. Bad \in SUBSET Nat
    OBVIOUS
  <2>2. PICK p \in Bad : \A k \in Bad : p <= k
    <3>. HIDE DEF Bad
    <3>. QED BY <2>1, LeastLemma
  <2>3. p \in 0 .. n /\ U[p] \notin 0 .. L /\ \A k \in 0 .. n : k < p => U[k] \in 0 .. L
    BY <2>2
  <2>. HIDE DEF Bad
  <2>4. p # 0
    BY <2>3, <1>10
  <2>5. p \in 1 .. n /\ p - 1 \in 0 .. n /\ p - 1 < p
    BY <2>3, <2>4
  <2>6. U[p - 1] \in 0 .. L
    BY <2>5, <2>3
  <2>. QED BY <2>3, <2>5, <2>6, <1>1, <1>10
<1>12. U \in [0 .. n -> 0 .. L]
  BY <1>9, <1>11
<1>. QED BY <1>10, <1>12 DEF U

(* Of mine are taken those that are among the first m of the united members. *)
LEMMA TakenLemma ==
  ASSUME Len(ids) \in Nat, ids \in [1 .. Len(ids) -> Nat], Increasing(ids),
         NEW all, Len(all) \in Nat, all \in [1 .. Len(all) -> Nat], Increasing(all),
         \A j \in 1 .. Len(ids) : \E p \in 1 .. Len(all) : ids[j] = all[p],
         NEW m \in 0 .. Len(all), NEW j \in 1 .. Len(ids)
  PROVE  j <= Taken(all)[m] <=> \E p \in 1 .. m : ids[j] = all[p]
<1>. DEFINE U == Taken(all)
            n == Len(all)
            L == Len(ids)
            Right(k) == \A x \in 1 .. L : x <= U[k] <=> \E p \in 1 .. k : ids[x] = all[p]
            Bad == {k \in 0 .. n : ~ Right(k)}
<1>1. U \in [0 .. n -> 0 .. L] /\ U[0] = 0 /\ \A k \in 1 .. n : U[k] = Take(U[k - 1], all[k])
  BY TakenType
<1>. HIDE DEF U
<1>2. Bad = {}
  <2>. SUFFICES ASSUME Bad # {} PROVE FALSE
    OBVIOUS
  <2>1. Bad \in SUBSET Nat
    OBVIOUS
  <2>2. PICK k \in Bad : \A q \in Bad : k <= q
    <3>. HIDE DEF Bad
    <3>. QED BY <2>1, LeastLemma
  <2>3. k \in 0 .. n /\ ~ Right(k) /\ \A q \in 0 .. n : q < k => Right(q)
    BY <2>2
  <2>. HIDE DEF Bad, Right
  <2>4. k # 0
    <3>1. Right(0)
      BY <1>1 DEF Right
    <3>. QED BY <3>1, <2>3
  <2>5. k \in 1 .. n /\ k - 1 \in 0 .. n /\ Right(k - 1)
    BY <2>3, <2>4
  <2>. DEFINE t == U[k - 1]
  <2>6. t \in 0 .. L /\ U[k] = IF t < L /\ ids[t + 1] = all[k] THEN t + 1 ELSE t
    BY <2>5, <1>1 DEF Take
  <2>. HIDE DEF t
  <2>7. \A x \in 1 .. L : x <= t <=> \E p \in 1 .. k - 1 : ids[x] = all[p]
    BY <2>5 DEF Right, t
  <2>8. \A p, q \in 1 .. n : /\ all[p] < all[q] <=> p < q
                             /\ all[p] = all[q] <=> p = q
    BY OrderLemma, Zenon
  <2>9. \A x, y \in 1 .. L : /\ ids[x] < ids[y] <=> x < y
                             /\ ids[x] = ids[y] <=> x = y
    BY OrderLemma, Zenon
  <2>10. ASSUME NEW x \in 1 .. L PROVE x <= U[k] <=> \E p \in 1 .. k : ids[x] = all[p]
    <3>1. (\E p \in 1 .. k : ids[x] = all[p]) <=> (\E p \in 1 .. k - 1 : ids[x] = all[p]) \/ ids[x] = all[k]
      <4>1. \A p : p \in 1 .. k <=> p \in 1 .. k - 1 \/ p = k
        BY <2>5
      <4>. QED BY <4>1
    <3>2. (\E p \in 1 .. k : ids[x] = all[p]) <=> x <= t \/ ids[x] = all[k]
      BY <3>1, <2>7
    <3>3. CASE t < L /\ ids[t + 1] = all[k]
      <4>1. t + 1 \in 1 .. L /\ U[k] = t + 1
        BY <2>6, <3>3
      <4>2. ids[x] = all[k] <=> x = t + 1
        BY <4>1, <2>9, <3>3
      <4>3. x <= t + 1 <=> x <= t \/ x = t + 1
        BY <2>6
      <4>. QED BY <3>2, <4>1, <4>2, <4>3
    <3>4. CASE ~ (t < L /\ ids[t + 1] = all[k])
      <4>1. U[k] = t
        BY <2>6, <3>4
      <4>2. ASSUME ids[x] = all[k] PROVE x <= t
        <5>. SUFFICES ASSUME ~ (x <= t) PROVE FALSE
          OBVIOUS
        <5>1. t + 1 \in 1 .. L /\ t + 1 <= x /\ t < L
          BY <2>6
        <5>2. PICK p \in 1 .. n : ids[t + 1] = all[p]
          BY <5>1
        <5>3. p # k
          BY <5>1, <5>2, <3>4
        <5>4. ~ (p \in 1 .. k - 1)
          <6>1. ~ (t + 1 <= t)
            BY <2>6
          <6>. QED BY <5>1, <5>2, <6>1, <2>7
        <5>5. k < p
          BY <5>3, <5>4, <2>5
        <5>6. all[k] < all[p] /\ all[k] \in Nat /\ all[p] \in Nat
          BY <5>5, <2>5, <2>8
        <5>7. ids[x] < ids[t + 1]
          BY <5>6, <5>2, <4>2
        <5>8. x < t + 1
          BY <5>7, <5>1, <2>9
        <5>. QED BY <5>8, <5>1, <2>6
      <4>. QED BY <3>2, <4>1, <4>2
    <3>. QED BY <3>3, <3>4
  <2>. QED BY <2>10, <2>3 DEF Right
<1>3. Right(m)
  BY <1>2
<1>. QED BY <1>3 DEF U

LEMMA MIdxLemma ==
  ASSUME Len(ids) \in Nat, ids \in [1 .. Len(ids) -> Nat], Increasing(ids),
         NEW all, Len(all) \in Nat, all \in [1 .. Len(all) -> Nat], Increasing(all),
         \A j \in 1 .. Len(ids) : \E p \in 1 .. Len(all) : ids[j] = all[p],
         NEW m \in 1 .. Len(all)
  PROVE  /\ MIdx(all)[m] \in 0 .. Len(ids)
         /\ MIdx(all)[m] # 0 <=> all[m] \in ToSet(ids)
         /\ MIdx(all)[m] # 0 => ids[MIdx(all)[m]] = all[m]
<1>. DEFINE U == Taken(all)
            i == MIdx(all)[m]
            L == Len(ids)
<1>1. U \in [0 .. Len(all) -> 0 .. L] /\ U[m] = Take(U[m - 1], all[m])
  BY TakenType
<1>2. m - 1 \in 0 .. Len(all) /\ m \in 0 .. Len(all)
  OBVIOUS
<1>3. i = IF U[m] > U[m - 1] THEN U[m] ELSE 0
  BY DEF MIdx
<1>n. ASSUME NEW k \in 0 .. Len(all), NEW x \in 1 .. L
      PROVE  x <= U[k] <=> \E p \in 1 .. k : ids[x] = all[p]
  BY TakenLemma
<1>. HIDE DEF U, i
<1>4. U[m - 1] \in 0 .. L /\ U[m] \in 0 .. L
  BY <1>1, <1>2
<1>5. i # 0 => i \in 1 .. L /\ ids[i] = all[m]
  BY <1>1, <1>3, <1>4 DEF Take
<1>6. i \in 0 .. L
  BY <1>3, <1>4
<1>7. i # 0 => all[m] \in ToSet(ids)
  BY <1>5 DEF ToSet
<1>8. ASSUME NEW x \in 1 .. L, ids[x] = all[m] PROVE i # 0
  <2>1. x <= U[m]
    <3>1. m \in 1 .. m
      OBVIOUS
    <3>. QED BY <1>2, <1>8, <1>n, <3>1
  <2>2. ~ (x <= U[m - 1])
    <3>1. ~ \E p \in 1 .. m - 1 : ids[x] = all[p]
      <4>. SUFFICES ASSUME NEW p \in 1 .. m - 1, ids[x] = all[p] PROVE FALSE
        OBVIOUS
      <4>1. p \in 1 .. Len(all) /\ p # m
        OBVIOUS
      <4>2. all[p] = all[m] <=> p = m
        BY <4>1, OrderLemma, Zenon
      <4>. QED BY <4>1, <4>2, <1>8
    <3>. QED BY <1>2, <1>n, <3>1
  <2>. QED BY <2>1, <2>2, <1>3, <1>4
<1>9. all[m] \in ToSet(ids) => i # 0
  <2>1. DOMAIN ids = 1 .. L
    OBVIOUS
  <2>. QED BY <1>8, <2>1 DEF ToSet
<1>. QED BY <1>5, <1>6, <1>7, <1>9 DEF i

(* Positions, and lists without one of them *)

LEMMA PositionLemma ==
  ASSUME NEW s, Len(s) \in Nat, DOMAIN s = 1 .. Len(s), NEW id
  PROVE  /\ PositionOf(s, id) \in 0 .. Len(s)
         /\ PositionOf(s, id) # 0 <=> id \in ToSet(s)
         /\ PositionOf(s, id) # 0 => s[PositionOf(s, id)] = id
<1>. DEFINE I == {x \in 1 .. Len(s) : s[x] = id}
<1>1. PositionOf(s, id) = IF I # {} THEN Min(I) ELSE 0
  BY DEF PositionOf, SelectInSeq
<1>2. I \in SUBSET Nat /\ (I # {} <=> id \in ToSet(s))
  BY DEF ToSet
<1>3. \A x \in I : x \in 1 .. Len(s) /\ s[x] = id
  OBVIOUS
<1>. HIDE DEF I
<1>4. I # {} => Min(I) \in I
  BY <1>2, LeastLemma
<1>5. CASE I = {}
  BY <1>1, <1>2, <1>5
<1>6. CASE I # {}
  <2>1. PositionOf(s, id) \in 1 .. Len(s) /\ s[PositionOf(s, id)] = id
    BY <1>1, <1>3, <1>4, <1>6
  <2>. QED BY <2>1, <1>2, <1>6
<1>. QED BY <1>5, <1>6

Skip(d, x) == IF x < d THEN x ELSE x + 1
LacksPlace(t, s, n, d, T) ==
  /\ t \in [1 .. n - 1 -> T] /\ Len(t) = n - 1
  /\ \A x \in 1 .. n - 1 : t[x] = s[Skip(d, x)]

LEMMA RemoveLemma ==
  ASSUME NEW T, NEW n \in Nat, NEW s \in [1 .. n -> T], NEW d \in 1 .. n
  PROVE  LacksPlace(RemoveAt(s, d), s, n, d, T)
<1>. DEFINE a == SubSeq(s, 1, d - 1)
            b == SubSeq(s, d + 1, n)
<1>1. Len(s) = n
  OBVIOUS
<1>2. \A i \in 1 .. d - 1 : s[i] \in T
  OBVIOUS
<1>3. \A i \in d + 1 .. n : s[i] \in T
  OBVIOUS
<1>4. a \in Seq(T) /\ Len(a) = d - 1 /\ \A i \in 1 .. d - 1 : a[i] = s[i]
  <2>1. 1 \in Int /\ d - 1 \in Int
    OBVIOUS
  <2>. QED BY <1>2, <2>1, SubSeqProperties
<1>5. b \in Seq(T) /\ Len(b) = n - d /\ \A i \in 1 .. n - d : b[i] = s[d + i]
  <2>1. d + 1 \in Int /\ n \in Int
    OBVIOUS
  <2>. QED BY <1>3, <2>1, SubSeqProperties
<1>6. RemoveAt(s, d) = a \o b
  BY <1>1, Zenon DEF RemoveAt
<1>. HIDE DEF a, b
<1>7. /\ a \o b \in Seq(T)
      /\ Len(a \o b) = Len(a) + Len(b)
      /\ \A i \in 1 .. Len(a) + Len(b) : (a \o b)[i] = IF i <= Len(a) THEN a[i] ELSE b[i - Len(a)]
  BY <1>4, <1>5, ConcatProperties, Zenon
<1>. DEFINE c == RemoveAt(s, d)
<1>8. /\ c \in Seq(T) /\ Len(c) = (d - 1) + (n - d)
      /\ \A i \in 1 .. (d - 1) + (n - d) : c[i] = IF i <= d - 1 THEN a[i] ELSE b[i - (d - 1)]
  BY <1>4, <1>5, <1>6, <1>7, Zenon
<1>. HIDE DEF c
<1>9. Len(c) = n - 1 /\ DOMAIN c = 1 .. n - 1
  BY <1>8
<1>10. c \in [1 .. n - 1 -> T]
  BY <1>8, <1>9, LenProperties, Zenon
<1>11. ASSUME NEW x \in 1 .. n - 1 PROVE c[x] = s[IF x < d THEN x ELSE x + 1]
  <2>1. c[x] = IF x <= d - 1 THEN a[x] ELSE b[x - (d - 1)]
    BY <1>8
  <2>2. CASE x < d
    <3>1. x <= d - 1 /\ x \in 1 .. d - 1
      BY <2>2
    <3>. QED BY <3>1, <2>1, <1>4, <2>2
  <2>3. CASE ~ (x < d)
    <3>1. ~ (x <= d - 1) /\ x - (d - 1) \in 1 .. n - d /\ d + (x - (d - 1)) = x + 1
      BY <2>3
    <3>. QED BY <3>1, <2>1, <1>5, <2>3
  <2>. QED BY <2>2, <2>3
<1>. QED BY <1>9, <1>10, <1>11 DEF c, LacksPlace, Skip

-----------------------------------------------------------------------------
(* All vectors, one behind the other *)

LEMMA TimesLemma ==
  ASSUME NEW n \in Nat, NEW k \in Nat, NEW p \in 1 .. k
  PROVE  /\ (p - 1) * n \in Nat /\ p * n \in Nat /\ k * n \in Nat
         /\ p * n = (p - 1) * n + n
         /\ p * n <= k * n
<1>1. (p - 1) * n \in Nat /\ p * n \in Nat /\ k * n \in Nat /\ (k - p) * n \in Nat
  OBVIOUS
<1>2. p * n = (p - 1) * n + n
  OBVIOUS
<1>3. k * n = p * n + (k - p) * n
  OBVIOUS
<1>. QED BY <1>1, <1>2, <1>3

FlatUpTo(r, n, k, s) ==
  /\ s \in Seq(Nat) /\ Len(s) = k * n
  /\ \A p \in 1 .. k, q \in 1 .. n : s[(p - 1) * n + q] = r[p][q]

LEMMA VectorLemma ==
  ASSUME NEW T, NEW n \in Nat, NEW v \in [1 .. n -> T]
  PROVE  v \in Seq(T) /\ Len(v) = n
OBVIOUS

LEMMA FlatStep ==
  ASSUME NEW n \in Nat, NEW r \in [1 .. n -> [1 .. n -> Nat]], NEW k \in 1 .. n,
         NEW s, FlatUpTo(r, n, k - 1, s)
  PROVE  FlatUpTo(r, n, k, s \o r[k])
<1>. DEFINE t == s \o r[k]
            v == r[k]
<1>1. v \in [1 .. n -> Nat]
  OBVIOUS
<1>. HIDE DEF v
<1>2. v \in Seq(Nat) /\ Len(v) = n
  BY <1>1, VectorLemma
<1>3. /\ t \in Seq(Nat) /\ Len(t) = Len(s) + Len(v)
      /\ \A i \in 1 .. Len(s) + Len(v) : t[i] = IF i <= Len(s) THEN s[i] ELSE v[i - Len(s)]
  BY <1>2, ConcatProperties, Zenon DEF FlatUpTo, v
<1>. HIDE DEF t
<1>. DEFINE a == (k - 1) * n
            b == k * n
<1>4. a \in Nat /\ b \in Nat /\ b = a + n /\ Len(s) = a
  BY TimesLemma DEF FlatUpTo
<1>5. ASSUME NEW p \in 1 .. k, NEW q \in 1 .. n PROVE t[(p - 1) * n + q] = r[p][q]
  <2>1. CASE p = k
    <3>. HIDE DEF a, b
    <3>1. a + q \in 1 .. a + n /\ ~ (a + q <= a) /\ (a + q) - a = q
      BY <1>4
    <3>2. t[a + q] = v[q]
      BY <3>1, <1>2, <1>3, <1>4
    <3>3. t[(k - 1) * n + q] = r[k][q]
      BY <3>2 DEF a, v
    <3>. QED BY <3>3, <2>1
  <2>2. CASE p # k
    <3>1. p \in 1 .. k - 1 /\ k - 1 \in Nat
      BY <2>2
    <3>. DEFINE e == (p - 1) * n
    <3>2. e \in Nat /\ p * n \in Nat /\ p * n = e + n /\ p * n <= a
      BY <3>1, TimesLemma
    <3>3. s[e + q] = r[p][q]
      BY <3>1 DEF FlatUpTo
    <3>. HIDE DEF a, b, e
    <3>4. e + q \in 1 .. a + n /\ e + q <= a
      BY <3>2, <1>4
    <3>5. t[e + q] = s[e + q]
      BY <3>4, <1>2, <1>3, <1>4
    <3>. QED BY <3>3, <3>5 DEF e
  <2>. QED BY <2>1, <2>2
<1>6. Len(t) = k * n
  <2>. HIDE DEF a, b
  <2>1. Len(t) = b
    BY <1>2, <1>3, <1>4
  <2>. QED BY <2>1 DEF b
<1>. QED BY <1>3, <1>5, <1>6 DEF FlatUpTo, t

LEMMA FlattenLemma ==
  ASSUME NEW n \in Nat, n # 0, NEW r \in [1 .. n -> [1 .. n -> Nat]]
  PROVE  FlatUpTo(r, n, n, FlattenSeq(r))
<1>. DEFINE G == [u \in Seq(Nat) \X (1 .. n) |-> u[1] \o r[u[2]]]
            F(f) == [i \in 1 .. n |-> IF i = 1 THEN r[i] ELSE f[i - 1] \o r[i]]
<1>1. \A k \in 1 .. n : r[k] \in Seq(Nat)
  OBVIOUS
<1>2. \A s \in Seq(Nat), k \in 1 .. n : s \o r[k] \in Seq(Nat)
  BY <1>1
<1>3. G \in [Seq(Nat) \X (1 .. n) -> Seq(Nat)]
  BY <1>2
<1>4. \A s \in Seq(Nat), k \in 1 .. n : G[<<s, k>>] = s \o r[k]
  OBVIOUS
<1>. HIDE DEF G
<1>5. PICK f \in [0 .. n -> Seq(Nat)] : Unfolds(f, n, <<>>, G)
  <2>1. <<>> \in Seq(Nat)
    OBVIOUS
  <2>. QED BY <1>3, <2>1, RecursionLemma, Zenon
<1>6. f[0] = <<>> /\ \A k \in 1 .. n : f[k] = f[k - 1] \o r[k]
  <2>1. ASSUME NEW k \in 1 .. n PROVE f[k] = f[k - 1] \o r[k]
    <3>1. k - 1 \in 0 .. n
      OBVIOUS
    <3>2. f[k - 1] \in Seq(Nat)
      BY <3>1
    <3>3. f[k] = G[<<f[k - 1], k>>]
      BY <1>5 DEF Unfolds
    <3>. QED BY <3>2, <3>3, <1>4
  <2>. QED BY <2>1, <1>5 DEF Unfolds
<1>. DEFINE h == [i \in 1 .. n |-> f[i]]
<1>7. h = F(h)
  <2>1. ASSUME NEW i \in 1 .. n PROVE f[i] = IF i = 1 THEN r[i] ELSE h[i - 1] \o r[i]
    <3>1. CASE i = 1
      <4>1. f[1] = <<>> \o r[1] /\ r[1] \in Seq(Nat)
        <5>1. 1 \in 1 .. n /\ 1 - 1 = 0
          BY <3>1
        <5>2. f[1] = f[0] \o r[1]
          BY <5>1, <1>6
        <5>. QED BY <5>1, <5>2, <1>1, <1>6
      <4>2. <<>> \o r[1] = r[1]
        BY <4>1, ConcatEmptySeq, Zenon
      <4>. QED BY <4>1, <4>2, <3>1, Zenon
    <3>2. CASE i # 1
      <4>1. i - 1 \in 1 .. n
        BY <3>2
      <4>2. h[i - 1] = f[i - 1]
        BY <4>1
      <4>. HIDE DEF h
      <4>. QED BY <4>2, <1>6, <3>2, Zenon
    <3>. QED BY <3>1, <3>2
  <2>. QED BY <2>1, Zenon
<1>. HIDE DEF h
<1>8. Len(r) = n
  OBVIOUS
<1>9. FlattenSeq(r) = (CHOOSE g : g = F(g))[n]
  BY <1>8, Zenon DEF FlattenSeq
<1>. DEFINE fl == CHOOSE g : g = F(g)
<1>10. fl = F(fl)
  BY <1>7, Zenon
<1>. HIDE DEF fl
<1>11. fl[1] = r[1] /\ \A i \in 1 .. n : i # 1 => fl[i] = fl[i - 1] \o r[i]
  <2>1. \A i \in 1 .. n : fl[i] = IF i = 1 THEN r[i] ELSE fl[i - 1] \o r[i]
    BY <1>10, Zenon
  <2>2. 1 \in 1 .. n
    OBVIOUS
  <2>. QED BY <2>1, <2>2, Zenon
<1>12. FlatUpTo(r, n, 0, <<>>)
  BY DEF FlatUpTo
<1>. DEFINE Bad == {i \in 1 .. n : ~ FlatUpTo(r, n, i, fl[i])}
<1>13. Bad = {}
  <2>. SUFFICES ASSUME Bad # {} PROVE FALSE
    OBVIOUS
  <2>1. Bad \in SUBSET Nat
    OBVIOUS
  <2>2. PICK p \in Bad : \A k \in Bad : p <= k
    <3>. HIDE DEF Bad
    <3>. QED BY <2>1, LeastLemma
  <2>3. p \in 1 .. n /\ ~ FlatUpTo(r, n, p, fl[p]) /\ \A k \in 1 .. n : k < p => FlatUpTo(r, n, k, fl[k])
    BY <2>2
  <2>. HIDE DEF Bad
  <2>4. CASE p = 1
    <3>1. 1 \in 1 .. n /\ 1 - 1 = 0 /\ r[1] \in Seq(Nat)
      BY <1>1
    <3>2. FlatUpTo(r, n, 1, <<>> \o r[1])
      BY <3>1, <1>12, FlatStep
    <3>3. <<>> \o r[1] = r[1]
      BY <3>1, ConcatEmptySeq, Zenon
    <3>. QED BY <3>2, <3>3, <2>3, <2>4, <1>11, Zenon
  <2>5. CASE p # 1
    <3>1. p - 1 \in 1 .. n /\ p - 1 < p
      BY <2>3, <2>5
    <3>2. FlatUpTo(r, n, p - 1, fl[p - 1])
      BY <3>1, <2>3
    <3>3. FlatUpTo(r, n, p, fl[p - 1] \o r[p])
      BY <3>2, <2>3, FlatStep
    <3>. QED BY <3>3, <2>3, <2>5, <1>11, Zenon
  <2>. QED BY <2>4, <2>5
<1>14. n \in 1 .. n
  OBVIOUS
<1>15. FlatUpTo(r, n, n, fl[n])
  BY <1>13, <1>14
<1>. QED BY <1>9, <1>15, Zenon DEF fl

(* The calls *)

LEMMA InvVectors ==
  ASSUME MatrixInv
  PROVE  /\ Vectors(ids, rows)
         /\ Len(ids) \in Nat /\ Len(ids) # 0 /\ ids \in [1 .. Len(ids) -> Nat] /\ Increasing(ids)
         /\ rows \in [1 .. Len(ids) -> [1 .. Len(ids) -> Nat]]
         /\ ToSet(ids) \subseteq MatrixIds
<1>1. Len(ids) \in Nat /\ ids \in [1 .. Len(ids) -> MatrixIds] /\ Len(ids) # 0
  BY DEF MatrixInv
<1>2. ids \in [1 .. Len(ids) -> Nat]
  BY <1>1, MatrixAssumption
<1>3. Increasing(ids)
  BY DEF MatrixInv, Increasing, Positions
<1>4. rows \in [1 .. Len(ids) -> [1 .. Len(ids) -> Nat]]
  BY <1>1 DEF MatrixInv, Positions
<1>5. ToSet(ids) \subseteq MatrixIds
  BY <1>1 DEF ToSet
<1>. QED BY <1>1, <1>2, <1>3, <1>4, <1>5 DEF Vectors

LEMMA IndexedLemma ==
  ASSUME NEW S \in SUBSET MatrixIds, NEW src \in [S -> [S -> Nat]]
  PROVE  /\ Len(Indexed(src).ids) \in Nat
         /\ Indexed(src).ids \in [1 .. Len(Indexed(src).ids) -> Nat]
         /\ Increasing(Indexed(src).ids)
         /\ ToSet(Indexed(src).ids) = S
         /\ \A x, y \in 1 .. Len(Indexed(src).ids) :
                Indexed(src).rows[x][y] = src[Indexed(src).ids[x]][Indexed(src).ids[y]]
<1>. DEFINE o == Sorted(S)
            n == Cardinality(S)
<1>1. S \in SUBSET Nat /\ IsFiniteSet(S) /\ DOMAIN src = S
  BY MatrixAssumption, FS_Subset
<1>2. n \in Nat /\ o \in [1 .. n -> S] /\ Increasing(o) /\ \A x \in S : \E i \in DOMAIN o : o[i] = x
  BY <1>1, SortedLemma DEF Lists
<1>. HIDE DEF o, n
<1>3. /\ Indexed(src).ids = o
      /\ Indexed(src).rows = [i \in DOMAIN o |-> [j \in DOMAIN o |-> src[o[i]][o[j]]]]
  BY <1>1 DEF Indexed, o
<1>4. Len(o) = n /\ DOMAIN o = 1 .. n /\ o \in [1 .. n -> Nat]
  <2>1. o \in [1 .. n -> Nat]
    BY <1>1, <1>2
  <2>. QED BY <1>2, <2>1, VectorLemma
<1>5. ToSet(o) = S
  BY <1>2 DEF ToSet
<1>. QED BY <1>2, <1>3, <1>4, <1>5

(* Matrix::update(): each cell becomes that of the table. *)
LEMMA UpdateStep ==
  ASSUME MatrixInv, NEW S \in SUBSET MatrixIds, NEW src \in [S -> [S -> Counts]],
         MatrixUpdate(Indexed(src))
  PROVE  /\ Vectors(ids', rows') /\ ids' = ids
         /\ AsTable(ids', rows') = Table!Updated(AsTable(ids, rows), src)
         /\ updated' <=> AsTable(ids', rows') # AsTable(ids, rows)
<1>. DEFINE t == Indexed(src)
            idx == RIdx(ids, t.ids)
            n == Len(ids)
            k == AsTable(ids, rows)
            u == Table!Updated(k, src)
            known(x) == ids[x] \in S
<1>1. src \in [S -> [S -> Nat]]
  BY MatrixAssumption
<1>2. /\ Len(t.ids) \in Nat /\ t.ids \in [1 .. Len(t.ids) -> Nat] /\ Increasing(t.ids)
      /\ ToSet(t.ids) = S
      /\ \A x, y \in 1 .. Len(t.ids) : t.rows[x][y] = src[t.ids[x]][t.ids[y]]
  BY <1>1, IndexedLemma
<1>. HIDE DEF t
<1>3. /\ Vectors(ids, rows) /\ n \in Nat /\ ids \in [1 .. n -> Nat] /\ Increasing(ids)
      /\ rows \in [1 .. n -> [1 .. n -> Nat]]
  BY InvVectors
<1>4. ASSUME NEW m \in 1 .. n
      PROVE  /\ idx[m] # 0 <=> known(m)
             /\ idx[m] # 0 => idx[m] \in 1 .. Len(t.ids) /\ t.ids[idx[m]] = ids[m]
  <2>1. /\ idx[m] \in 0 .. Len(t.ids)
        /\ idx[m] # 0 <=> ids[m] \in ToSet(t.ids)
        /\ idx[m] # 0 => t.ids[idx[m]] = ids[m]
    BY <1>2, <1>3, RIdxLemma
  <2>. HIDE DEF idx
  <2>. QED BY <2>1, <1>2
<1>. DEFINE shared == {m \in Positions : idx[m] # 0}
<1>5. /\ rows' = [i \in Positions |-> [j \in Positions |->
              IF {i, j} \subseteq shared
              THEN Max({rows[i][j], t.rows[idx[i]][idx[j]]}) ELSE rows[i][j]]]
      /\ updated' = \E i, j \in shared : rows[i][j] < t.rows[idx[i]][idx[j]]
      /\ ids' = ids
  BY Zenon DEF MatrixUpdate, t
<1>. HIDE DEF idx
<1>6. Positions = 1 .. n
  BY <1>3 DEF Positions
<1>7. ASSUME NEW x \in 1 .. n PROVE x \in shared <=> known(x)
  BY <1>4, <1>6
<1>8. ASSUME NEW x \in shared, NEW y \in shared
      PROVE  /\ t.rows[idx[x]][idx[y]] = src[ids[x]][ids[y]] /\ src[ids[x]][ids[y]] \in Nat
             /\ x \in 1 .. n /\ y \in 1 .. n
  <2>1. x \in 1 .. n /\ y \in 1 .. n /\ known(x) /\ known(y)
    BY <1>6, <1>7
  <2>2. idx[x] \in 1 .. Len(t.ids) /\ t.ids[idx[x]] = ids[x]
    BY <2>1, <1>4
  <2>3. idx[y] \in 1 .. Len(t.ids) /\ t.ids[idx[y]] = ids[y]
    BY <2>1, <1>4
  <2>4. t.rows[idx[x]][idx[y]] = src[ids[x]][ids[y]]
    BY <2>2, <2>3, <1>2
  <2>. QED BY <2>1, <2>4, <1>1
<1>9. ASSUME NEW a \in Nat, NEW b \in Nat PROVE Max({a, b}) = Table!Larger(a, b) /\ Max({a, b}) \in Nat
  <2>. DEFINE M == IF a < b THEN b ELSE a
  <2>1. M \in {a, b} /\ \A y \in {a, b} : M >= y
    OBVIOUS
  <2>2. \A z \in {a, b} : (\A y \in {a, b} : z >= y) => z = M
    OBVIOUS
  <2>. HIDE DEF M
  <2>3. Max({a, b}) = M
    BY <2>1, <2>2, Zenon DEF Max
  <2>. QED BY <2>3 DEF Table!Larger, M
<1>. HIDE DEF shared
<1>. DEFINE cell(x, y) == IF known(x) /\ known(y) THEN Table!Larger(rows[x][y], src[ids[x]][ids[y]])
                                                  ELSE rows[x][y]
<1>10. ASSUME NEW x \in 1 .. n, NEW y \in 1 .. n
       PROVE  rows'[x][y] = cell(x, y) /\ rows'[x][y] \in Nat
  <2>1. rows'[x][y] = IF {x, y} \subseteq shared
                      THEN Max({rows[x][y], t.rows[idx[x]][idx[y]]}) ELSE rows[x][y]
    BY <1>5, <1>6
  <2>2. rows[x][y] \in Nat
    BY <1>3
  <2>3. CASE x \in shared /\ y \in shared
    <3>1. known(x) /\ known(y)
      BY <2>3, <1>7
    <3>. HIDE DEF known
    <3>. QED BY <2>1, <2>2, <2>3, <3>1, <1>8, <1>9
  <2>4. CASE ~ (x \in shared /\ y \in shared)
    <3>1. ~ (known(x) /\ known(y))
      BY <2>4, <1>7
    <3>. HIDE DEF known
    <3>. QED BY <2>1, <2>2, <2>4, <3>1
  <2>. QED BY <2>3, <2>4
<1>11. rows' = [i \in 1 .. n |-> [j \in 1 .. n |-> rows'[i][j]]]
  BY <1>5, <1>6
<1>12. rows' \in [1 .. n -> [1 .. n -> Nat]]
  BY <1>10, <1>11
<1>13. Vectors(ids', rows')
  BY <1>3, <1>5, <1>12 DEF Vectors
<1>m. Shows(k, ids, rows) /\ Members(ids)
  BY <1>3, TableLemma
<1>. HIDE DEF k
<1>14. /\ k = [a \in ToSet(ids) |-> [b \in ToSet(ids) |-> k[a][b]]]
       /\ \A x, y \in 1 .. n : k[ids[x]][ids[y]] = rows[x][y]
       /\ \A x \in 1 .. n : ids[x] \in ToSet(ids)
       /\ \A a \in ToSet(ids) : \E x \in 1 .. n : ids[x] = a
  BY <1>m DEF Shows, Members
<1>15. u = [i \in ToSet(ids) |-> [j \in ToSet(ids) |->
              IF {i, j} \subseteq S THEN Table!Larger(k[i][j], src[i][j]) ELSE k[i][j]]]
  <2>1. DOMAIN src = S /\ DOMAIN k = ToSet(ids)
    BY <1>14
  <2>. QED BY <2>1, Zenon DEF Table!Updated
<1>. HIDE DEF u
<1>16. ASSUME NEW x \in 1 .. n, NEW y \in 1 .. n PROVE u[ids[x]][ids[y]] = rows'[x][y]
  <2>1. u[ids[x]][ids[y]] = IF {ids[x], ids[y]} \subseteq S
                            THEN Table!Larger(k[ids[x]][ids[y]], src[ids[x]][ids[y]])
                            ELSE k[ids[x]][ids[y]]
    BY <1>14, <1>15
  <2>2. {ids[x], ids[y]} \subseteq S <=> known(x) /\ known(y)
    OBVIOUS
  <2>3. k[ids[x]][ids[y]] = rows[x][y]
    BY <1>14
  <2>. QED BY <2>1, <2>2, <2>3, <1>10, Zenon
<1>17. u = [a \in ToSet(ids) |-> [b \in ToSet(ids) |-> u[a][b]]]
  BY <1>15
<1>18. u = AsTable(ids, rows')
  <2>1. Vectors(ids, rows')
    BY <1>13, <1>5
  <2>2. Shows(u, ids, rows')
    BY <1>16, <1>17 DEF Shows
  <2>. QED BY <2>1, <2>2, SameTable, Zenon
<1>19. ASSUME updated' PROVE u # k
  <2>1. PICK x \in shared, y \in shared : rows[x][y] < t.rows[idx[x]][idx[y]]
    BY <1>5, <1>19
  <2>2. x \in 1 .. n /\ y \in 1 .. n /\ known(x) /\ known(y) /\ rows[x][y] < src[ids[x]][ids[y]]
    BY <2>1, <1>8, <1>7
  <2>3. u[ids[x]][ids[y]] = src[ids[x]][ids[y]]
    BY <2>2, <1>10, <1>16 DEF Table!Larger
  <2>4. k[ids[x]][ids[y]] = rows[x][y] /\ rows[x][y] \in Nat
    BY <2>2, <1>3, <1>14
  <2>. QED BY <2>2, <2>3, <2>4
<1>20. ASSUME ~ updated' PROVE u = k
  <2>1. ASSUME NEW x \in 1 .. n, NEW y \in 1 .. n PROVE u[ids[x]][ids[y]] = k[ids[x]][ids[y]]
    <3>1. CASE known(x) /\ known(y)
      <4>1. x \in shared /\ y \in shared
        BY <3>1, <1>7
      <4>2. ~ (rows[x][y] < src[ids[x]][ids[y]])
        BY <4>1, <1>8, <1>5, <1>20
      <4>3. cell(x, y) = rows[x][y]
        BY <3>1, <4>2 DEF Table!Larger
      <4>4. rows'[x][y] = rows[x][y]
        BY <4>3, <1>10, Zenon
      <4>5. u[ids[x]][ids[y]] = rows'[x][y] /\ k[ids[x]][ids[y]] = rows[x][y]
        BY <1>14, <1>16
      <4>. QED BY <4>4, <4>5, Zenon
    <3>2. CASE ~ (known(x) /\ known(y))
      BY <3>2, <1>10, <1>14, <1>16
    <3>. QED BY <3>1, <3>2
  <2>2. ASSUME NEW a \in ToSet(ids), NEW b \in ToSet(ids) PROVE u[a][b] = k[a][b]
    <3>1. PICK x \in 1 .. n : ids[x] = a
      BY <1>14
    <3>2. PICK y \in 1 .. n : ids[y] = b
      BY <1>14
    <3>. QED BY <2>1, <3>1, <3>2
  <2>3. [a \in ToSet(ids) |-> [b \in ToSet(ids) |-> u[a][b]]]
          = [a \in ToSet(ids) |-> [b \in ToSet(ids) |-> k[a][b]]]
    BY <2>2
  <2>. QED BY <2>3, <1>14, <1>17, Zenon
<1>21. updated' <=> u # k
  BY <1>19, <1>20
<1>22. AsTable(ids', rows') = u
  BY <1>5, <1>18, Zenon
<1>. QED BY <1>5, <1>13, <1>21, <1>22 DEF u, k

(* Matrix::resize(): the cells of the members that were there stay, and a new *)
(* member knows what the one knows that has invited it.                       *)
LEMMA ResizeStep ==
  ASSUME MatrixInv, NEW new \in SUBSET MatrixIds, NEW from \in ToSet(ids) \cup {NoNode},
         MatrixResize(new, from)
  PROVE  /\ Vectors(ids', rows') /\ ToSet(ids') \subseteq MatrixIds /\ Len(ids') # 0
         /\ AsTable(ids', rows') = Table!Resized(AsTable(ids, rows), new, from)
<1>. DEFINE S == ToSet(ids) \cup new
            all == Sorted(S)
            idx == MIdx(all)
            n == Len(ids)
            N == Cardinality(S)
            k == AsTable(ids, rows)
            u == Table!Resized(k, new, from)
            pattern == IF from = NoNode THEN 0 ELSE PositionOf(ids, from)
            row(i) == IF idx[i] # 0 THEN idx[i] ELSE pattern
<1>1. /\ Vectors(ids, rows) /\ n \in Nat /\ n # 0 /\ ids \in [1 .. n -> Nat] /\ Increasing(ids)
      /\ rows \in [1 .. n -> [1 .. n -> Nat]] /\ ToSet(ids) \subseteq MatrixIds
  BY InvVectors
<1>2. S \subseteq MatrixIds /\ S \in SUBSET Nat /\ IsFiniteSet(S)
  BY <1>1, MatrixAssumption, FS_Subset
<1>3. N \in Nat /\ all \in [1 .. N -> S] /\ Increasing(all) /\ \A x \in S : \E i \in DOMAIN all : all[i] = x
  <2>. HIDE DEF S
  <2>. QED BY <1>2, SortedLemma DEF Lists
<1>4. /\ ids' = all
      /\ rows' = [i \in DOMAIN all |-> [j \in DOMAIN all |->
               IF row(i) # 0 /\ idx[j] # 0 THEN rows[row(i)][idx[j]] ELSE 0]]
  BY Zenon DEF MatrixResize
<1>. HIDE DEF N
<1>5. Shows(k, ids, rows) /\ Members(ids)
  BY <1>1, TableLemma
<1>. HIDE DEF k
<1>6. /\ k = [a \in ToSet(ids) |-> [b \in ToSet(ids) |-> k[a][b]]]
      /\ \A x, y \in 1 .. n : k[ids[x]][ids[y]] = rows[x][y]
      /\ \A x \in 1 .. n : ids[x] \in ToSet(ids)
  BY <1>5 DEF Shows, Members
<1>. HIDE DEF all
<1>7. Len(all) = N /\ DOMAIN all = 1 .. N /\ all \in [1 .. N -> Nat]
  <2>1. all \in [1 .. N -> Nat]
    BY <1>2, <1>3
  <2>. HIDE DEF S
  <2>. QED BY <1>3, <2>1, VectorLemma
<1>8. ToSet(all) = S
  <2>. HIDE DEF S
  <2>. QED BY <1>3 DEF ToSet
<1>9. \A j \in 1 .. Len(ids) : \E p \in 1 .. Len(all) : ids[j] = all[p]
  BY <1>3, <1>6, <1>7
<1>10. ASSUME NEW m \in 1 .. N
       PROVE  /\ all[m] \in S
              /\ idx[m] # 0 <=> all[m] \in ToSet(ids)
              /\ idx[m] # 0 => idx[m] \in 1 .. n /\ ids[idx[m]] = all[m]
  <2>1. /\ idx[m] \in 0 .. Len(ids)
        /\ idx[m] # 0 <=> all[m] \in ToSet(ids)
        /\ idx[m] # 0 => ids[idx[m]] = all[m]
    <3>. HIDE DEF S
    <3>. QED BY <1>1, <1>3, <1>7, <1>9, MIdxLemma
  <2>. HIDE DEF idx, S
  <2>. QED BY <2>1, <1>1, <1>3
<1>. HIDE DEF idx
<1>11. /\ from = NoNode => pattern = 0
       /\ from # NoNode => pattern \in 1 .. n /\ ids[pattern] = from
  <2>1. CASE from = NoNode
    BY <2>1
  <2>2. CASE from # NoNode
    <3>1. from \in ToSet(ids) /\ DOMAIN ids = 1 .. Len(ids)
      BY <2>2, <1>1
    <3>2. /\ PositionOf(ids, from) \in 0 .. Len(ids)
          /\ PositionOf(ids, from) # 0 <=> from \in ToSet(ids)
          /\ PositionOf(ids, from) # 0 => ids[PositionOf(ids, from)] = from
      BY <3>1, <1>1, PositionLemma
    <3>. QED BY <3>1, <3>2, <2>2, <1>1
  <2>. QED BY <2>1, <2>2
<1>12. NoNode \notin ToSet(ids)
  BY <1>1, MatrixAssumption
<1>. HIDE DEF pattern
<1>13. DOMAIN k = ToSet(ids) /\ DOMAIN k \cup new = S
  BY <1>6
<1>14. u = [i \in S |-> [j \in S |->
               IF j \notin ToSet(ids) THEN 0
               ELSE IF i \in ToSet(ids) THEN k[i][j]
               ELSE IF from = NoNode THEN 0
               ELSE k[from][j]]]
  BY <1>13, Zenon DEF Table!Resized
<1>. HIDE DEF S, u
<1>15. ASSUME NEW x \in 1 .. N, NEW y \in 1 .. N
       PROVE  u[all[x]][all[y]] = rows'[x][y] /\ rows'[x][y] \in Nat
  <2>1. rows'[x][y] = IF row(x) # 0 /\ idx[y] # 0 THEN rows[row(x)][idx[y]] ELSE 0
    BY <1>4, <1>7
  <2>2. u[all[x]][all[y]] = IF all[y] \notin ToSet(ids) THEN 0
                            ELSE IF all[x] \in ToSet(ids) THEN k[all[x]][all[y]]
                            ELSE IF from = NoNode THEN 0
                            ELSE k[from][all[y]]
    BY <1>10, <1>14
  <2>3. CASE idx[y] = 0
    BY <2>1, <2>2, <2>3, <1>10
  <2>4. CASE idx[y] # 0 /\ idx[x] # 0
    <3>1. idx[x] \in 1 .. n /\ idx[y] \in 1 .. n /\ ids[idx[x]] = all[x] /\ ids[idx[y]] = all[y]
      BY <2>4, <1>10
    <3>2. k[all[x]][all[y]] = rows[idx[x]][idx[y]]
      BY <3>1, <1>6
    <3>3. rows[idx[x]][idx[y]] \in Nat
      BY <3>1, <1>1
    <3>. QED BY <2>1, <2>2, <2>4, <3>2, <3>3, <1>10
  <2>5. CASE idx[y] # 0 /\ idx[x] = 0 /\ from = NoNode
    BY <2>1, <2>2, <2>5, <1>10, <1>11
  <2>6. CASE idx[y] # 0 /\ idx[x] = 0 /\ from # NoNode
    <3>1. idx[y] \in 1 .. n /\ ids[idx[y]] = all[y] /\ pattern \in 1 .. n /\ ids[pattern] = from
      BY <2>6, <1>10, <1>11
    <3>2. k[from][all[y]] = rows[pattern][idx[y]]
      BY <3>1, <1>6
    <3>3. rows[pattern][idx[y]] \in Nat
      BY <3>1, <1>1
    <3>. QED BY <2>1, <2>2, <2>6, <3>1, <3>2, <3>3, <1>10
  <2>. QED BY <2>3, <2>4, <2>5, <2>6
<1>. HIDE DEF row
<1>16. rows' \in [1 .. N -> [1 .. N -> Nat]]
  <2>1. rows' = [i \in 1 .. N |-> [j \in 1 .. N |-> rows'[i][j]]]
    BY <1>4, <1>7
  <2>. QED BY <2>1, <1>15
<1>17. Vectors(all, rows')
  BY <1>3, <1>7, <1>16 DEF Vectors
<1>18. u = [a \in S |-> [b \in S |-> u[a][b]]]
  BY <1>14
<1>19. Shows(u, all, rows')
  BY <1>7, <1>8, <1>15, <1>18 DEF Shows
<1>20. u = AsTable(all, rows')
  BY <1>17, <1>19, SameTable, Zenon
<1>21. N # 0
  <2>1. ids[1] \in S
    BY <1>1, <1>6 DEF S
  <2>2. PICK i \in 1 .. N : all[i] = ids[1]
    BY <2>1, <1>3, <1>7
  <2>. QED BY <2>2, <1>3
<1>. QED BY <1>2, <1>4, <1>7, <1>8, <1>17, <1>20, <1>21 DEF u, k

(* Matrix::del(): the row and the column of the node go. *)
LEMMA DelStep ==
  ASSUME MatrixInv, NEW id \in MatrixIds, ids # <<id>>, MatrixDel(id)
  PROVE  /\ Vectors(ids', rows') /\ ToSet(ids') \subseteq MatrixIds /\ Len(ids') # 0
         /\ AsTable(ids', rows') = Table!Without(AsTable(ids, rows), id)
<1>. DEFINE d == PositionOf(ids, id)
            n == Len(ids)
            k == AsTable(ids, rows)
            u == Table!Without(k, id)
<1>1. /\ Vectors(ids, rows) /\ n \in Nat /\ n # 0 /\ ids \in [1 .. n -> Nat] /\ Increasing(ids)
      /\ rows \in [1 .. n -> [1 .. n -> Nat]] /\ ToSet(ids) \subseteq MatrixIds
  BY InvVectors
<1>2. d \in 0 .. n /\ (d # 0 <=> id \in ToSet(ids)) /\ (d # 0 => ids[d] = id)
  BY <1>1, PositionLemma
<1>3. /\ d = 0 => ids' = ids /\ rows' = rows
      /\ d # 0 => /\ ids' = RemoveAt(ids, d)
                  /\ rows' = [i \in DOMAIN RemoveAt(ids, d) |-> RemoveAt(RemoveAt(rows, d)[i], d)]
  BY DEF MatrixDel
<1>. HIDE DEF d
<1>4. Shows(k, ids, rows) /\ Members(ids)
  BY <1>1, TableLemma
<1>. HIDE DEF k
<1>5. /\ k = [a \in ToSet(ids) |-> [b \in ToSet(ids) |-> k[a][b]]]
      /\ \A x, y \in 1 .. n : k[ids[x]][ids[y]] = rows[x][y]
      /\ \A x \in 1 .. n : ids[x] \in ToSet(ids)
      /\ \A a \in ToSet(ids) : \E x \in 1 .. n : ids[x] = a
      /\ \A x, y \in 1 .. n : ids[x] = ids[y] => x = y
  BY <1>4 DEF Shows, Members
<1>6. u = [i \in ToSet(ids) \ {id} |-> [j \in ToSet(ids) \ {id} |-> k[i][j]]]
  <2>1. DOMAIN k = ToSet(ids)
    BY <1>5
  <2>. QED BY <2>1, Zenon DEF Table!Without
<1>. HIDE DEF u
<1>7. CASE d = 0
  <2>1. ToSet(ids) \ {id} = ToSet(ids)
    BY <1>2, <1>7
  <2>2. u = k
    BY <1>5, <1>6, <2>1, Zenon
  <2>. QED BY <1>1, <1>3, <1>7, <2>2 DEF k, u
<1>8. CASE d # 0
  <2>. DEFINE i2 == RemoveAt(ids, d)
              skip(x) == Skip(d, x)
  <2>1. d \in 1 .. n /\ ids[d] = id
    BY <1>2, <1>8
  <2>2. i2 \in [1 .. n - 1 -> Nat] /\ Len(i2) = n - 1 /\ \A x \in 1 .. n - 1 : i2[x] = ids[skip(x)]
    <3>1. LacksPlace(i2, ids, n, d, Nat)
      BY <1>1, <2>1, RemoveLemma
    <3>. QED BY <3>1, Zenon DEF LacksPlace
  <2>3. \A x \in 1 .. n - 1 : RemoveAt(rows, d)[x] = rows[skip(x)]
    <3>. DEFINE T == [1 .. n -> Nat]
    <3>. HIDE DEF T
    <3>1. rows \in [1 .. n -> T]
      BY <1>1 DEF T
    <3>2. LacksPlace(RemoveAt(rows, d), rows, n, d, T)
      BY <3>1, <1>1, <2>1, RemoveLemma
    <3>. QED BY <3>2, Zenon DEF LacksPlace
  <2>4. ASSUME NEW v \in [1 .. n -> Nat]
        PROVE  /\ RemoveAt(v, d) \in [1 .. n - 1 -> Nat]
               /\ \A x \in 1 .. n - 1 : RemoveAt(v, d)[x] = v[skip(x)]
    <3>1. LacksPlace(RemoveAt(v, d), v, n, d, Nat)
      BY <1>1, <2>1, RemoveLemma
    <3>. QED BY <3>1, Zenon DEF LacksPlace
  <2>5. ids' = i2 /\ rows' = [i \in 1 .. n - 1 |-> RemoveAt(RemoveAt(rows, d)[i], d)]
    BY <1>3, <1>8, <2>2
  <2>. HIDE DEF i2
  <2>6. ASSUME NEW x \in 1 .. n - 1
        PROVE  /\ skip(x) \in 1 .. n /\ skip(x) # d
               /\ rows'[x] \in [1 .. n - 1 -> Nat]
               /\ \A y \in 1 .. n - 1 : rows'[x][y] = rows[skip(x)][skip(y)]
    <3>1. skip(x) \in 1 .. n /\ skip(x) # d
      BY <2>1 DEF Skip
    <3>2. rows'[x] = RemoveAt(RemoveAt(rows, d)[x], d) /\ RemoveAt(rows, d)[x] = rows[skip(x)]
      BY <2>3, <2>5
    <3>. DEFINE v == rows[skip(x)]
    <3>3. v \in [1 .. n -> Nat]
      BY <3>1, <1>1
    <3>. HIDE DEF v, skip
    <3>4. rows'[x] = RemoveAt(v, d)
      BY <3>2 DEF v
    <3>. QED BY <3>1, <3>3, <3>4, <2>4 DEF v
  <2>7. \A x \in 1 .. n - 1, y \in 1 .. n - 1 : x < y => skip(x) < skip(y)
    BY <2>1, <1>1 DEF Skip
  <2>8. Increasing(i2)
    <3>. SUFFICES ASSUME NEW x \in 1 .. n - 1, NEW y \in 1 .. n - 1, x < y PROVE i2[x] < i2[y]
      BY <2>2 DEF Increasing
    <3>1. skip(x) \in 1 .. n /\ skip(y) \in 1 .. n /\ skip(x) < skip(y)
      BY <2>6, <2>7
    <3>. HIDE DEF skip
    <3>2. ids[skip(x)] < ids[skip(y)]
      BY <3>1, <1>1, IncreasingLemma
    <3>. QED BY <3>2, <2>2
  <2>9. ToSet(i2) = ToSet(ids) \ {id}
    <3>1. ASSUME NEW a \in ToSet(i2) PROVE a \in ToSet(ids) \ {id}
      <4>1. PICK x \in 1 .. n - 1 : a = i2[x]
        BY <2>2 DEF ToSet
      <4>2. skip(x) \in 1 .. n /\ skip(x) # d /\ a = ids[skip(x)]
        BY <4>1, <2>2, <2>6
      <4>. HIDE DEF skip
      <4>. QED BY <4>2, <1>5, <2>1
    <3>2. ASSUME NEW a \in ToSet(ids) \ {id} PROVE a \in ToSet(i2)
      <4>1. PICK z \in 1 .. n : ids[z] = a
        BY <1>5
      <4>2. z # d
        BY <4>1, <2>1
      <4>3. \E x \in 1 .. n - 1 : skip(x) = z
        <5>1. CASE z < d
          <6>1. z \in 1 .. n - 1 /\ skip(z) = z
            BY <5>1, <2>1 DEF Skip
          <6>. QED BY <6>1
        <5>2. CASE ~ (z < d)
          <6>1. z - 1 \in 1 .. n - 1 /\ skip(z - 1) = z
            BY <5>2, <4>2, <2>1 DEF Skip
          <6>. QED BY <6>1
        <5>. QED BY <5>1, <5>2
      <4>4. PICK x \in 1 .. n - 1 : skip(x) = z
        BY <4>3
      <4>5. i2[x] = a /\ x \in DOMAIN i2
        BY <4>1, <4>4, <2>2
      <4>. QED BY <4>5 DEF ToSet
    <3>. QED BY <3>1, <3>2
  <2>10. rows' \in [1 .. n - 1 -> [1 .. n - 1 -> Nat]]
    BY <2>5, <2>6
  <2>11. Vectors(i2, rows')
    <3>1. n - 1 \in Nat /\ DOMAIN i2 = 1 .. n - 1
      BY <2>2, <1>1
    <3>. QED BY <2>2, <2>8, <2>10, <3>1, Zenon DEF Vectors
  <2>12. ASSUME NEW x \in 1 .. n - 1, NEW y \in 1 .. n - 1 PROVE u[i2[x]][i2[y]] = rows'[x][y]
    <3>1. skip(x) \in 1 .. n /\ skip(y) \in 1 .. n /\ skip(x) # d /\ skip(y) # d
      BY <2>6
    <3>2. rows'[x][y] = rows[skip(x)][skip(y)] /\ i2[x] = ids[skip(x)] /\ i2[y] = ids[skip(y)]
      BY <2>2, <2>6
    <3>. HIDE DEF skip
    <3>3. i2[x] \in ToSet(ids) \ {id} /\ i2[y] \in ToSet(ids) \ {id}
      BY <3>1, <3>2, <1>5, <2>1
    <3>4. u[i2[x]][i2[y]] = k[i2[x]][i2[y]]
      BY <3>3, <1>6
    <3>. QED BY <3>1, <3>2, <3>4, <1>5
  <2>13. Shows(u, i2, rows')
    <3>1. u = [a \in ToSet(i2) |-> [b \in ToSet(i2) |-> u[a][b]]]
      BY <1>6, <2>9
    <3>. QED BY <3>1, <2>2, <2>12 DEF Shows
  <2>14. u = AsTable(i2, rows')
    BY <2>11, <2>13, SameTable, Zenon
  <2>15. n # 1
    <3>1. ASSUME n = 1 PROVE ids = <<id>>
      <4>1. d = 1
        BY <3>1, <2>1
      <4>2. ids = [x \in 1 .. 1 |-> id]
        BY <4>1, <3>1, <2>1, <1>1
      <4>. QED BY <4>2
    <3>. QED BY <3>1
  <2>. QED BY <1>1, <2>2, <2>5, <2>9, <2>11, <2>14, <2>15 DEF u, k
<1>. QED BY <1>7, <1>8

(* Matrix::write() and read(): what arrives is what was sent. *)
LEMMA SendStep ==
  ASSUME MatrixInv, Become(Read(Write))
  PROVE  ids' = ids /\ rows' = rows
<1>. DEFINE n == Len(ids)
            mtx == FlattenSeq(rows)
<1>1. n \in Nat /\ n # 0 /\ rows \in [1 .. n -> [1 .. n -> Nat]]
  BY InvVectors
<1>2. FlatUpTo(rows, n, n, mtx)
  BY <1>1, FlattenLemma
<1>3. /\ ids' = ids
      /\ rows' = [i \in 1 .. n |-> SubSeq(mtx, (i - 1) * n + 1, i * n)]
  BY Zenon DEF Become, Read, Write
<1>. HIDE DEF n, mtx
<1>4. ASSUME NEW i \in 1 .. n PROVE SubSeq(mtx, (i - 1) * n + 1, i * n) = rows[i]
  <2>. DEFINE a == (i - 1) * n
              b == i * n
              L == n * n
              v == SubSeq(mtx, a + 1, b)
  <2>1. a \in Nat /\ b \in Nat /\ L \in Nat /\ b = a + n /\ b <= L
    BY <1>1, TimesLemma
  <2>2. mtx \in Seq(Nat) /\ Len(mtx) = L /\ \A q \in 1 .. n : mtx[a + q] = rows[i][q]
    BY <1>2 DEF FlatUpTo
  <2>3. rows[i] \in [1 .. n -> Nat]
    BY <1>1
  <2>4. rows[i] \in Seq(Nat) /\ Len(rows[i]) = n
    BY <2>3, <1>1, VectorLemma
  <2>. HIDE DEF a, b, L
  <2>5. \A k \in a + 1 .. b : mtx[k] \in Nat
    BY <2>1, <2>2
  <2>6. v \in Seq(Nat) /\ Len(v) = n /\ \A q \in 1 .. n : v[q] = mtx[a + q]
    BY <2>1, <2>5, <1>1, SubSeqProperties
  <2>. HIDE DEF v
  <2>7. v = rows[i]
    BY <2>2, <2>4, <2>6, SeqEqual
  <2>. QED BY <2>7 DEF v, a, b
<1>5. rows' = [i \in 1 .. n |-> rows[i]]
  BY <1>3, <1>4
<1>. QED BY <1>1, <1>3, <1>5

(* Core::save_nodes() and Matrix::load_nodes(): so does a start. *)
LEMMA RestartStep ==
  ASSUME MatrixInv, Become(LoadNodes(SaveNodes))
  PROVE  ids' = ids /\ rows' = rows
<1>. DEFINE n == Len(ids)
            json == SaveNodes
<1>1. /\ n \in Nat /\ ids \in [1 .. n -> Nat] /\ Increasing(ids)
      /\ rows \in [1 .. n -> [1 .. n -> Nat]] /\ DOMAIN ids = 1 .. Len(ids)
  BY InvVectors
<1>2. json = [id \in ToSet(ids) |-> rows[PositionOf(ids, id)]]
  BY DEF SaveNodes
<1>3. Sorted(ToSet(ids)) = ids
  BY <1>1, SortedUnique
<1>. HIDE DEF json
<1>4. ids' = ids /\ rows' = [i \in DOMAIN ids |-> json[ids[i]]]
  <2>1. DOMAIN json = ToSet(ids)
    BY <1>2
  <2>. QED BY <1>3, <2>1, Zenon DEF Become, LoadNodes, json
<1>5. ASSUME NEW i \in 1 .. n PROVE json[ids[i]] = rows[i]
  <2>1. ids[i] \in ToSet(ids)
    BY <1>1 DEF ToSet
  <2>. DEFINE p == PositionOf(ids, ids[i])
  <2>2. p \in 0 .. Len(ids) /\ p # 0 /\ ids[p] = ids[i]
    BY <2>1, <1>1, PositionLemma
  <2>. HIDE DEF p
  <2>3. p = i
    <3>1. p \in 1 .. Len(ids) /\ i \in 1 .. Len(ids)
      BY <2>2, <1>1
    <3>. QED BY <2>2, <3>1, <1>1, OrderLemma
  <2>. QED BY <1>2, <2>1, <2>3 DEF p
<1>6. rows' = [i \in 1 .. n |-> rows[i]]
  BY <1>1, <1>4, <1>5
<1>. QED BY <1>1, <1>4, <1>6

-----------------------------------------------------------------------------
(* The invariant, and what it is for *)

LEMMA StillVectors ==
  ASSUME Vectors(ids', rows'), ToSet(ids') \subseteq MatrixIds, Len(ids') # 0,
         CallOK', (updated \in BOOLEAN)'
  PROVE  MatrixInv'
<1>1. /\ Len(ids') \in Nat /\ ids' \in [1 .. Len(ids') -> Nat] /\ Increasing(ids')
      /\ rows' \in [DOMAIN ids' -> [DOMAIN ids' -> Nat]]
  BY DEF Vectors
<1>2. ids' \in [1 .. Len(ids') -> MatrixIds]
  <2>1. \A x \in 1 .. Len(ids') : ids'[x] \in MatrixIds
    BY <1>1 DEF ToSet
  <2>. QED BY <1>1, <2>1
<1>3. ids' \in Seq(MatrixIds) /\ ids' # <<>>
  BY <1>1, <1>2
<1>. QED BY <1>1, <1>3 DEF MatrixInv, Positions, Increasing

LEMMA MatrixInitInv == MatrixInit => MatrixInv
<1>. SUFFICES ASSUME MatrixInit PROVE MatrixInv
  OBVIOUS
<1>1. PICK id \in MatrixIds : ids = <<id>>
  BY DEF MatrixInit
<1>2. rows = <<<<0>>>> /\ call = NoCall /\ updated = FALSE
  BY DEF MatrixInit
<1>3. ids \in Seq(MatrixIds) /\ ids # <<>> /\ Positions = 1 .. 1
  BY <1>1 DEF Positions
<1>4. rows \in [1 .. 1 -> [1 .. 1 -> Nat]]
  <2>1. <<0>> \in [1 .. 1 -> Nat]
    OBVIOUS
  <2>. QED BY <1>2, <2>1
<1>5. \A i, j \in Positions : i < j => ids[i] < ids[j]
  BY <1>3
<1>. QED BY <1>2, <1>3, <1>4, <1>5 DEF MatrixInv, CallOK

(* Call leaves the vectors alone. *)
LEMMA CallStep ==
  ASSUME MatrixInv, Call
  PROVE  MatrixInv' /\ call = NoCall /\ call' # NoCall /\ ids' = ids /\ rows' = rows
<1>1. call = NoCall /\ updated' = FALSE /\ ids' = ids /\ rows' = rows
  BY DEF Call
<1>2. CallOK' /\ call' # NoCall
  <2>1. CASE \E S \in SUBSET MatrixIds : \E src \in [S -> [S -> Counts]] :
                 call' = [op |-> "update", src |-> src]
    <3>0. PICK S \in SUBSET MatrixIds : \E src \in [S -> [S -> Counts]] :
              call' = [op |-> "update", src |-> src]
      BY <2>1
    <3>1. PICK src \in [S -> [S -> Counts]] : call' = [op |-> "update", src |-> src]
      BY <3>0
    <3>2. call' \in [op : {"update"}, src : [S -> [S -> Counts]]] /\ call'.op = "update"
      BY <3>1
    <3>. QED BY <3>2 DEF CallOK, NoCall
  <2>2. CASE \E new \in SUBSET MatrixIds \ {{}}, from \in ToSet(ids) \cup {NoNode} :
                 call' = [op |-> "resize", new |-> new, from |-> from]
    <3>1. PICK new \in SUBSET MatrixIds, from \in ToSet(ids) \cup {NoNode} :
              call' = [op |-> "resize", new |-> new, from |-> from]
      BY <2>2
    <3>2. /\ call' \in [op : {"resize"}, new : SUBSET MatrixIds, from : ToSet(ids') \cup {NoNode}]
          /\ call'.op = "resize"
      BY <3>1, <1>1
    <3>. QED BY <3>2 DEF CallOK, NoCall
  <2>3. CASE \E id \in MatrixIds : ids # <<id>> /\ call' = [op |-> "del", id |-> id]
    <3>1. PICK id \in MatrixIds : ids # <<id>> /\ call' = [op |-> "del", id |-> id]
      BY <2>3
    <3>2. /\ call' \in [op : {"del"}, id : MatrixIds] /\ call'.op = "del" /\ call'.id = id
      BY <3>1
    <3>. QED BY <3>1, <3>2, <1>1 DEF CallOK, NoCall
  <2>4. CASE call' = [op |-> "send"] \/ call' = [op |-> "restart"]
    <3>1. call'.op # "none"
      BY <2>4
    <3>. QED BY <2>4, <3>1 DEF CallOK, NoCall
  <2>5. \/ \E S \in SUBSET MatrixIds : \E src \in [S -> [S -> Counts]] :
                 call' = [op |-> "update", src |-> src]
        \/ \E new \in SUBSET MatrixIds \ {{}}, from \in ToSet(ids) \cup {NoNode} :
                 call' = [op |-> "resize", new |-> new, from |-> from]
        \/ \E id \in MatrixIds : ids # <<id>> /\ call' = [op |-> "del", id |-> id]
        \/ call' = [op |-> "send"] \/ call' = [op |-> "restart"]
    BY Zenon DEF Call
  <2>. QED BY <2>1, <2>2, <2>3, <2>4, <2>5
<1>. QED BY <1>1, <1>2 DEF MatrixInv, Positions

(* Return does to the table what the call asks for. *)
LEMMA ReturnStep ==
  ASSUME MatrixInv, Return
  PROVE  /\ MatrixInv' /\ call # NoCall /\ call' = NoCall
         /\ AsTable(ids', rows') = Table!Result(AsTable(ids, rows), call)
         /\ call.op = "update" => (updated' <=> AsTable(ids', rows') # AsTable(ids, rows))
<1>1. call # NoCall /\ call' = NoCall
  BY DEF Return
<1>2. CallOK'
  BY <1>1 DEF CallOK
<1>3. /\ Vectors(ids, rows) /\ Len(ids) # 0 /\ ToSet(ids) \subseteq MatrixIds
      /\ updated \in BOOLEAN /\ CallOK
  BY InvVectors DEF MatrixInv
<1>4. CASE \E S \in SUBSET MatrixIds : call \in [op : {"update"}, src : [S -> [S -> Counts]]]
  <2>1. PICK S \in SUBSET MatrixIds : call \in [op : {"update"}, src : [S -> [S -> Counts]]]
    BY <1>4
  <2>2. call.op = "update" /\ call.src \in [S -> [S -> Counts]]
    BY <2>1
  <2>3. MatrixUpdate(Indexed(call.src))
    BY <2>2 DEF Return
  <2>4. /\ Vectors(ids', rows') /\ ids' = ids
        /\ AsTable(ids', rows') = Table!Updated(AsTable(ids, rows), call.src)
        /\ updated' <=> AsTable(ids', rows') # AsTable(ids, rows)
    BY <2>2, <2>3, UpdateStep
  <2>5. updated' \in BOOLEAN
    BY <2>3, Zenon DEF MatrixUpdate
  <2>6. MatrixInv'
    BY <2>4, <2>5, <1>2, <1>3, StillVectors
  <2>7. Table!Result(AsTable(ids, rows), call) = Table!Updated(AsTable(ids, rows), call.src)
    BY <2>2 DEF Table!Result
  <2>. QED BY <1>1, <2>4, <2>6, <2>7
<1>5. CASE call \in [op : {"resize"}, new : SUBSET MatrixIds, from : ToSet(ids) \cup {NoNode}]
  <2>2. call.op = "resize" /\ call.new \in SUBSET MatrixIds /\ call.from \in ToSet(ids) \cup {NoNode}
    BY <1>5
  <2>3. MatrixResize(call.new, call.from)
    BY <2>2 DEF Return
  <2>4. /\ Vectors(ids', rows') /\ ToSet(ids') \subseteq MatrixIds /\ Len(ids') # 0
        /\ AsTable(ids', rows') = Table!Resized(AsTable(ids, rows), call.new, call.from)
    BY <2>2, <2>3, ResizeStep
  <2>5. updated' = updated
    BY <2>3, Zenon DEF MatrixResize
  <2>6. MatrixInv'
    BY <2>4, <2>5, <1>2, <1>3, StillVectors
  <2>7. Table!Result(AsTable(ids, rows), call) = Table!Resized(AsTable(ids, rows), call.new, call.from)
    BY <2>2 DEF Table!Result
  <2>. QED BY <1>1, <2>2, <2>4, <2>6, <2>7
<1>6. CASE call \in [op : {"del"}, id : MatrixIds] /\ ids # <<call.id>>
  <2>2. call.op = "del" /\ call.id \in MatrixIds /\ ids # <<call.id>>
    BY <1>6
  <2>3. MatrixDel(call.id)
    BY <2>2 DEF Return
  <2>4. /\ Vectors(ids', rows') /\ ToSet(ids') \subseteq MatrixIds /\ Len(ids') # 0
        /\ AsTable(ids', rows') = Table!Without(AsTable(ids, rows), call.id)
    BY <2>2, <2>3, DelStep
  <2>5. updated' = updated
    BY <2>3, Zenon DEF MatrixDel
  <2>6. MatrixInv'
    BY <2>4, <2>5, <1>2, <1>3, StillVectors
  <2>7. Table!Result(AsTable(ids, rows), call) = Table!Without(AsTable(ids, rows), call.id)
    BY <2>2 DEF Table!Result
  <2>. QED BY <1>1, <2>2, <2>4, <2>6, <2>7
<1>7. CASE call = [op |-> "send"] \/ call = [op |-> "restart"]
  <2>1. Become(Read(Write)) \/ Become(LoadNodes(SaveNodes))
    BY <1>7 DEF Return
  <2>2. ids' = ids /\ rows' = rows
    BY <2>1, SendStep, RestartStep
  <2>3. updated' = updated
    BY <2>1, Zenon DEF Become
  <2>4. MatrixInv'
    BY <2>2, <2>3, <1>2, <1>3, StillVectors
  <2>5. call.op # "update" /\ call.op # "resize" /\ call.op # "del"
    BY <1>7
  <2>6. Table!Result(AsTable(ids, rows), call) = AsTable(ids, rows)
    BY <2>5 DEF Table!Result
  <2>. QED BY <1>1, <2>2, <2>4, <2>5, <2>6
<1>. QED BY <1>1, <1>3, <1>4, <1>5, <1>6, <1>7 DEF CallOK

LEMMA MatrixStepInv == MatrixInv /\ [MatrixNext]_matrixvars => MatrixInv'
<1>. SUFFICES ASSUME MatrixInv, [MatrixNext]_matrixvars PROVE MatrixInv'
  OBVIOUS
<1>1. CASE Call
  BY <1>1, CallStep
<1>2. CASE Return
  BY <1>2, ReturnStep
<1>3. CASE UNCHANGED matrixvars
  BY <1>3 DEF matrixvars, MatrixInv, CallOK, Positions
<1>. QED BY <1>1, <1>2, <1>3 DEF MatrixNext

(* The keys of the map stay in their order, and each vector has a cell for each. *)
THEOREM MatrixIsSorted == MatrixSpec => []MatrixInv
<1>. QED BY MatrixInitInv, MatrixStepInv, PTL DEF MatrixSpec

(* A level of remove_old_commands() is the smallest number in the member's column. *)
LEMMA LevelLemma ==
  ASSUME MatrixInv, NEW exec \in [ToSet(ids) -> Counts], NEW j \in Positions
  PROVE  LET know == AsTable(ids, rows)
             author == ids[j]
         IN  /\ \A i \in ToSet(ids) : MatrixLevel(exec)[j] <= know[i][author]
             /\ MatrixLevel(exec)[j] <= exec[author]
             /\ MatrixLevel(exec)[j] \in {exec[author]} \cup {know[i][author] : i \in ToSet(ids)}
<1>. DEFINE know == AsTable(ids, rows)
            author == ids[j]
            K == {rows[i][j] : i \in Positions} \cup {exec[author]}
            n == Len(ids)
<1>1. /\ Vectors(ids, rows) /\ n \in Nat /\ rows \in [1 .. n -> [1 .. n -> Nat]]
      /\ Positions = 1 .. n
  BY InvVectors DEF Positions
<1>2. Shows(know, ids, rows) /\ Members(ids)
  BY <1>1, TableLemma
<1>. HIDE DEF know
<1>3. /\ \A x, y \in 1 .. n : know[ids[x]][ids[y]] = rows[x][y]
      /\ \A x \in 1 .. n : ids[x] \in ToSet(ids)
      /\ \A a \in ToSet(ids) : \E x \in 1 .. n : ids[x] = a
  BY <1>2 DEF Shows, Members
<1>4. exec[author] \in Nat /\ j \in 1 .. n
  BY <1>1, <1>3, MatrixAssumption
<1>5. \A i \in 1 .. n : rows[i][j] \in Nat /\ know[ids[i]][author] = rows[i][j]
  BY <1>1, <1>3, <1>4
<1>6. K \in SUBSET Nat /\ K # {}
  BY <1>1, <1>4, <1>5
<1>7. MatrixLevel(exec)[j] = Min(K)
  BY DEF MatrixLevel
<1>. HIDE DEF author
<1>8. \A i \in 1 .. n : rows[i][j] \in K
  BY <1>1
<1>9. exec[author] \in K
  OBVIOUS
<1>10. \A x \in K : x = exec[author] \/ \E i \in 1 .. n : x = rows[i][j]
  BY <1>1
<1>. HIDE DEF K
<1>11. Min(K) \in K /\ \A x \in K : Min(K) <= x
  BY <1>6, LeastLemma
<1>12. ASSUME NEW i \in ToSet(ids) PROVE Min(K) <= know[i][author]
  <2>1. PICK x \in 1 .. n : ids[x] = i
    BY <1>3
  <2>2. rows[x][j] \in K /\ know[i][author] = rows[x][j]
    BY <2>1, <1>5, <1>8
  <2>. QED BY <2>2, <1>11
<1>13. Min(K) \in {exec[author]} \cup {know[i][author] : i \in ToSet(ids)}
  <2>1. CASE Min(K) = exec[author]
    BY <2>1
  <2>2. CASE \E i \in 1 .. n : Min(K) = rows[i][j]
    <3>1. PICK i \in 1 .. n : Min(K) = rows[i][j]
      BY <2>2
    <3>2. ids[i] \in ToSet(ids) /\ Min(K) = know[ids[i]][author]
      BY <3>1, <1>3, <1>5
    <3>. QED BY <3>2
  <2>. QED BY <2>1, <2>2, <1>10, <1>11
<1>. QED BY <1>7, <1>9, <1>11, <1>12, <1>13 DEF author, know

(* request_message_from_node() asks for a command that is missing. *)
LEMMA RequestLemma ==
  ASSUME MatrixInv, NEW my \in ToSet(ids), NEW remote \in ToSet(ids)
  PROVE  LET know == AsTable(ids, rows)
             r == RequestMessage(my, remote)
             news == {a \in ToSet(ids) : know[remote][a] > know[my][a]}
         IN  IF news = {} THEN r.node_id = NoNode
             ELSE r.node_id \in news /\ r.msg_number = know[my][r.node_id]
<1>. DEFINE know == AsTable(ids, rows)
            r == RequestMessage(my, remote)
            news == {a \in ToSet(ids) : know[remote][a] > know[my][a]}
            n == Len(ids)
            m == PositionOf(ids, my)
            o == PositionOf(ids, remote)
            more == {j \in Positions : rows[o][j] > rows[m][j]}
<1>1. /\ Vectors(ids, rows) /\ n \in Nat /\ rows \in [1 .. n -> [1 .. n -> Nat]]
      /\ Positions = 1 .. n /\ DOMAIN ids = 1 .. Len(ids)
  BY InvVectors DEF Positions
<1>2. Shows(know, ids, rows) /\ Members(ids)
  BY <1>1, TableLemma
<1>. HIDE DEF know
<1>3. /\ \A x, y \in 1 .. n : know[ids[x]][ids[y]] = rows[x][y]
      /\ \A x \in 1 .. n : ids[x] \in ToSet(ids)
      /\ \A a \in ToSet(ids) : \E x \in 1 .. n : ids[x] = a
  BY <1>2 DEF Shows, Members
<1>4. m \in 1 .. n /\ ids[m] = my
  <2>1. m \in 0 .. Len(ids) /\ m # 0 /\ ids[m] = my
    BY <1>1, PositionLemma
  <2>. HIDE DEF m
  <2>. QED BY <2>1, <1>1
<1>5. o \in 1 .. n /\ ids[o] = remote
  <2>1. o \in 0 .. Len(ids) /\ o # 0 /\ ids[o] = remote
    BY <1>1, PositionLemma
  <2>. HIDE DEF o
  <2>. QED BY <2>1, <1>1
<1>6. r = IF more = {} THEN [node_id |-> NoNode, msg_number |-> 0]
          ELSE [node_id |-> ids[Min(more)], msg_number |-> rows[m][Min(more)]]
  BY Zenon DEF RequestMessage
<1>. HIDE DEF m, o, r
<1>7. \A y \in 1 .. n : know[my][ids[y]] = rows[m][y] /\ know[remote][ids[y]] = rows[o][y]
  BY <1>3, <1>4, <1>5
<1>8. \A y \in 1 .. n : y \in more <=> ids[y] \in news
  BY <1>1, <1>3, <1>7
<1>9. more \in SUBSET Nat /\ \A y \in more : y \in 1 .. n
  BY <1>1
<1>10. news # {} => more # {}
  BY <1>3, <1>8
<1>11. more # {} => Min(more) \in more
  <2>. HIDE DEF more
  <2>. QED BY <1>9, LeastLemma
<1>. HIDE DEF more
<1>12. CASE news = {}
  <2>1. more = {}
    BY <1>8, <1>9, <1>12
  <2>2. r.node_id = NoNode
    BY <2>1, <1>6
  <2>. QED BY <2>2, <1>12 DEF r, know
<1>13. CASE news # {}
  <2>1. Min(more) \in 1 .. n /\ ids[Min(more)] \in news
    BY <1>8, <1>9, <1>10, <1>11, <1>13
  <2>2. r.node_id = ids[Min(more)] /\ r.msg_number = rows[m][Min(more)]
    BY <1>6, <1>10, <1>13
  <2>3. r.node_id \in news /\ r.msg_number = know[my][r.node_id]
    BY <2>1, <2>2, <1>7
  <2>. QED BY <2>3, <1>13 DEF r, know
<1>. QED BY <1>12, <1>13

LEMMA PositionsLemma == MatrixInv => PositionsMeanMembers
BY LevelLemma, RequestLemma DEF PositionsMeanMembers

(* What is read from the vectors by position is what the table says of the member. *)
THEOREM MatrixPositions == MatrixSpec => []PositionsMeanMembers
<1>. QED BY MatrixIsSorted, PositionsLemma, PTL

(* update() tells exactly when something was learned. *)
THEOREM MatrixUpdateTells == MatrixSpec => UpdateTellsChange
<1>1. MatrixInv /\ [MatrixNext]_matrixvars
        => [call # NoCall /\ call.op = "update"
              => (updated' <=> AsTable(ids, rows)' # AsTable(ids, rows))]_matrixvars
  <2>. SUFFICES ASSUME MatrixInv, MatrixNext, call # NoCall, call.op = "update"
                PROVE  updated' <=> AsTable(ids', rows') # AsTable(ids, rows)
    OBVIOUS
  <2>1. CASE Call
    BY <2>1, CallStep
  <2>2. CASE Return
    BY <2>2, ReturnStep
  <2>. QED BY <2>1, <2>2 DEF MatrixNext
<1>. QED BY <1>1, MatrixIsSorted, PTL DEF MatrixSpec, UpdateTellsChange

(* The vectors implement the table. *)
LEMMA TableInit == MatrixInit => Table!Init
<1>. SUFFICES ASSUME MatrixInit PROVE Table!Init
  OBVIOUS
<1>1. PICK id \in MatrixIds : ids = <<id>>
  BY DEF MatrixInit
<1>2. rows = <<<<0>>>> /\ call = NoCall
  BY DEF MatrixInit
<1>. DEFINE t == [i \in {id} |-> [j \in {id} |-> 0]]
<1>3. Vectors(ids, rows) /\ Len(ids) = 1
  BY <1>1, MatrixInitInv, InvVectors
<1>4. ToSet(ids) = {id} /\ ids[1] = id /\ rows[1][1] = 0
  BY <1>1, <1>2 DEF ToSet
<1>5. Shows(t, ids, rows)
  BY <1>3, <1>4 DEF Shows
<1>6. t = AsTable(ids, rows)
  BY <1>3, <1>5, SameTable, Zenon
<1>. QED BY <1>2, <1>6 DEF Table!Init

LEMMA TableStep ==
  MatrixInv /\ [MatrixNext]_matrixvars => [Table!Request \/ Table!Serve]_(Table!tvars)
<1>. SUFFICES ASSUME MatrixInv, [MatrixNext]_matrixvars
              PROVE  [Table!Request \/ Table!Serve]_(Table!tvars)
  OBVIOUS
<1>1. CASE Call
  BY <1>1, CallStep DEF Table!Request
<1>2. CASE Return
  BY <1>2, ReturnStep DEF Table!Serve
<1>3. CASE UNCHANGED matrixvars
  BY <1>3 DEF matrixvars, Table!tvars
<1>. QED BY <1>1, <1>2, <1>3 DEF MatrixNext

THEOREM MatrixImplementsTable == MatrixSpec => TableImplemented
<1>. QED BY MatrixIsSorted, TableInit, TableStep, PTL DEF MatrixSpec, TableImplemented, Table!TableSpec
=============================================================================
