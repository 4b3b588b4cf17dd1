------------------------------ MODULE Discovery ------------------------------
(* How nodes find each other (corenet.cpp, and recv_udp() and client_act() in  *)
(* daemon.cpp).  A node broadcasts a hash of what it knows when that changes,  *)
(* and nothing is sent periodically or acknowledged.  Who hears of a hash that *)
(* is not its own connects, as long as there is somebody to connect to.  Each  *)
(* node has one address, which is its own name here.  What a session transfers *)
(* is the business of other modules; here it is done at once.                  *)
EXTENDS Naturals, Sequences, FiniteSets, SequencesExt

CONSTANTS
    Nodes,
    None,
    Plans           \* bound: who is a member from the start - the others want to become
                    \* one -, whether these have met, the commands that users give,
                    \* how many packets are lost or overtaken and sessions broken, and how
                    \* many daemons stop or crash

AddNode(n) == [add |-> n]
DelNode(n) == [del |-> n]
Commands == (UNION {p.msgs : p \in Plans}) \cup {AddNode(n) : n \in Nodes}

ASSUME NoneAssumption ==
    None \notin Nodes /\ \A K \in SUBSET Nodes : None \notin [K -> SUBSET Commands]
ASSUME PlansAssumption ==
    \A p \in Plans : /\ p.met \subseteq p.founders /\ p.founders \subseteq Nodes
                     /\ \A n \in Nodes : AddNode(n) \notin p.msgs

VARIABLES
    plan,
    on,             \* where the daemon runs
    matrix,         \* matrix[n][m]: the commands that n knows m to have
    hash,           \* hash[n][m]: Node::hash of m
    ips,            \* ips[n][m]: the address of m, and whether it has a Node
    client,         \* where the client thread is
    target,         \* who it is connected to
    server,         \* who the server thread is busy with
    chan,           \* chan[m][n]: UDP packets
    fresh,          \* pairs of nodes between which nothing has been lost since one of
                    \* them had news
    faults, stops
vars == <<plan, on, matrix, hash, ips, client, target, server, chan, fresh, faults, stops>>
threads == <<client, target, server>>
bounds == <<plan, faults, stops>>

Row(n) == matrix[n][n]

\* Commands are executed as they come: who is a member for n
uninitialized(n) == n \notin plan.founders /\ matrix[n] = <<>>
\* (a node that is deleted keeps its own record).
Executed(n, row) ==
    {n} \cup ((plan.founders \cup {m \in Nodes : AddNode(m) \in row})
                  \ {m \in Nodes : DelNode(m) \in row})
deleted(n) == ~uninitialized(n) /\ DelNode(n) \in Row(n)
Known(n) == IF uninitialized(n) THEN {} ELSE Executed(n, Row(n))

NoHash == None
calc_my_hash(n) == [m \in Known(n) |-> matrix[n][m]]
Stale(n) == ~uninitialized(n) /\ hash[n][n] # calc_my_hash(n)

Nothing == [m \in Nodes |-> {}]
NoAddresses == [m \in Nodes |-> "none"]
NoHashes == [m \in Nodes |-> NoHash]

\* Some nodes know each other already.
Init ==
    /\ plan \in Plans
    /\ on = plan.met
    /\ matrix = [n \in Nodes |-> IF n \in plan.founders THEN Nothing ELSE <<>>]
    /\ hash = [n \in Nodes |-> IF n \notin plan.met THEN NoHashes
                              ELSE [m \in Nodes |-> IF m \in plan.met THEN calc_my_hash(n) ELSE NoHash]]
    /\ ips = [n \in Nodes |-> [m \in Nodes |->
                 IF {m, n} \subseteq plan.met /\ m # n THEN "node" ELSE "none"]]
    /\ client = [n \in Nodes |-> "waiting"]
    /\ target = [n \in Nodes |-> None]
    /\ server = [n \in Nodes |-> None]
    /\ chan = [m \in Nodes |-> [n \in Nodes |-> <<>>]]
    /\ fresh = {{m, n} : m, n \in Nodes}
    /\ faults = 0 /\ stops = 0

-----------------------------------------------------------------------------
(* Broadcasts                                                                  *)

broadcast(n, message, h) ==
    chan' = [chan EXCEPT ![n] =
                [m \in Nodes |-> IF m \in on /\ m # n
                                 THEN Append(@[m], [message |-> message, hash |-> h])
                                 ELSE @[m]]]

update_my_hash(n) ==
    IF Stale(n) THEN /\ hash' = [hash EXCEPT ![n][n] = calc_my_hash(n)]
                     /\ broadcast(n, "helo", calc_my_hash(n))
    ELSE UNCHANGED <<hash, chan>>

\* News of n, for nodes to or from which no packet is under way: what was lost between
\* them before does not matter any more.
Anew(n) == fresh \cup {{m, n} : m \in {m \in Nodes : chan[m][n] = <<>> /\ chan[n][m] = <<>>}}

\* The daemon starts: daemon_run() sleeps for a second before it broadcasts, and its
\* threads wait then.  It ends at once if the node has been deleted.
Start(n) ==
    /\ n \notin on /\ ~deleted(n)
    /\ on' = on \cup {n}
    /\ IF uninitialized(n)
       THEN broadcast(n, "not_initialized", NoHash) /\ UNCHANGED hash
       ELSE /\ hash' = [hash EXCEPT ![n] = [NoHashes EXCEPT ![n] = calc_my_hash(n)]]
            /\ broadcast(n, "helo", calc_my_hash(n))
    /\ fresh' = Anew(n)
    /\ UNCHANGED <<matrix, ips, threads, bounds>>

\* It ends, or crashes and says nothing.
Ends(n) ==
    /\ n \in on
    /\ on' = on \ {n}
    /\ LET left == [m \in Nodes |-> [chan[m] EXCEPT ![n] = <<>>]]
           bye(m) == Append(left[n][m], [message |-> "bye", hash |-> NoHash])
       IN  \/ chan' = left
           \/ chan' = [left EXCEPT ![n] = [m \in Nodes |-> IF m \in on \ {n} THEN bye(m) ELSE @[m]]]
    /\ hash' = [hash EXCEPT ![n] = NoHashes]
    /\ ips' = [ips EXCEPT ![n] = NoAddresses]
    /\ client' = [client EXCEPT ![n] = "waiting"]
    /\ target' = [target EXCEPT ![n] = None]
    /\ server' = [server EXCEPT ![n] = None]
    /\ UNCHANGED <<plan, matrix, fresh, faults>>

Stop(n) == Ends(n) /\ stops < plan.stops /\ stops' = stops + 1

\* del_self() ends the daemon.
Exit(n) == Ends(n) /\ deleted(n) /\ UNCHANGED stops

\* A user gives a command, and some thread calls pending_commands().
Command(n, c) ==
    /\ n \in on /\ ~uninitialized(n) /\ ~deleted(n)
    /\ \A m \in Nodes : c \notin UNION Range(matrix[m])
    /\ matrix' = [matrix EXCEPT ![n][n] = @ \cup {c}]
    /\ fresh' = Anew(n)
    /\ UNCHANGED <<on, hash, ips, threads, chan, bounds>>

PendingCommands(n) ==
    /\ n \in on /\ Stale(n)
    /\ update_my_hash(n)
    /\ UNCHANGED <<on, matrix, ips, threads, fresh, bounds>>

-----------------------------------------------------------------------------
(* What is heard of other nodes                                                *)

add_node(n, m, h) ==
    IF m \in Known(n)
    THEN /\ hash' = [hash EXCEPT ![n][m] = h]
         /\ ips' = [ips EXCEPT ![n][m] = "node"]
    ELSE /\ ips' = [ips EXCEPT ![n][m] = "nullptr"]
         /\ UNCHANGED hash

\* cv.notify_one() reaches a thread that waits; one that has just decided to wait does
\* not hear it, and one that is busy looks for addresses afterwards.
notify(n, m) ==
    /\ client' = IF client[n] = "waiting" THEN [client EXCEPT ![n] = "act"] ELSE client
    /\ fresh' = IF client[n] = "leaving" THEN fresh \ {{m, n}} ELSE fresh

Receive(m, n) ==
    /\ n \in on /\ chan[m][n] # <<>>
    /\ chan' = [chan EXCEPT ![m][n] = Tail(@)]
    /\ LET p == Head(chan[m][n])
       IN  CASE p.message = "bye" ->
                    /\ ips' = [ips EXCEPT ![n][m] = "none"]
                    /\ UNCHANGED <<hash, client, fresh>>
             [] p.message = "not_initialized" /\ uninitialized(n) ->
                    UNCHANGED <<hash, ips, client, fresh>>
             [] OTHER -> add_node(n, m, p.hash) /\ notify(n, m)
    /\ UNCHANGED <<on, matrix, target, server, bounds>>

\* What the network may do
Fault(m, n) ==
    /\ faults < plan.faults
    /\ faults' = faults + 1
    /\ fresh' = fresh \ {{m, n}}

Lose(m, n) ==
    /\ Fault(m, n)
    /\ chan[m][n] # <<>>
    /\ chan' = [chan EXCEPT ![m][n] = Tail(@)]
    /\ UNCHANGED <<plan, on, matrix, hash, ips, threads, stops>>

Overtake(m, n) ==
    /\ Fault(m, n)
    /\ Len(chan[m][n]) > 1
    /\ chan' = [chan EXCEPT ![m][n] = <<@[2], @[1]>> \o SubSeq(@, 3, Len(@))]
    /\ UNCHANGED <<plan, on, matrix, hash, ips, threads, stops>>

-----------------------------------------------------------------------------
(* The client thread                                                           *)

Wait(n) ==
    /\ client[n] = "leaving"
    /\ client' = [client EXCEPT ![n] = "waiting"]
    /\ UNCHANGED <<on, matrix, hash, ips, target, server, chan, fresh, bounds>>

\* A slip: what another one has told of itself in the last session is enough.
NeedCommunicateByRow(n, m) == matrix[n][m] # Row(n)

need_communicate(n, m) ==
    ~uninitialized(n) /\ (matrix[n][m] # Row(n) \/ hash[n][m] \notin {NoHash, hash[n][n]})

InSession(n, m) == client[n] = "session" /\ target[n] = m /\ m \in on /\ server[m] = n

\* A pointer to a node that is no member any more is not followed in this model.
addr_to_connect(n) ==
    {m \in Nodes : \/ ips[n][m] = "nullptr"
                   \/ /\ ips[n][m] = "node" /\ m \in Known(n)
                      /\ server[n] # m /\ need_communicate(n, m)}

\* The node whose session with the server has ended, though server_busy is still set
LeftOut(n) ==
    LET m == server[n]
    IN  /\ m # None /\ ~InSession(m, n)
        /\ ips[n][m] = "node" /\ m \in Known(n) /\ need_communicate(n, m)

Leave(n) ==
    /\ client[n] = "act"
    /\ addr_to_connect(n) = {}
    /\ client' = [client EXCEPT ![n] = "leaving"]
    /\ fresh' = IF LeftOut(n) THEN fresh \ {{n, server[n]}} ELSE fresh
    /\ UNCHANGED <<on, matrix, hash, ips, target, server, chan, bounds>>

\* A slip: the hash in the greeting is not kept.
GreetedUnread(n, m) == hash[n]

\* What a node learns from the greeting of the other one
greeted(n, m) == IF m \in Known(n) THEN [hash[n] EXCEPT ![m] = hash[m][m]] ELSE hash[n]
without(n, m) == [ips[n] EXCEPT ![m] = "none"]
served(m, n) == [ips[m] EXCEPT ![n] = IF n \in Known(m) THEN "node" ELSE "nullptr"]

Connect(n, m) ==
    /\ client[n] = "act"
    /\ m \in addr_to_connect(n) /\ m \in on /\ server[m] = None
    /\ hash' = [hash EXCEPT ![n] = greeted(n, m), ![m] = greeted(m, n)]
    /\ ips' = [ips EXCEPT ![m] = served(m, n)]
    /\ server' = [server EXCEPT ![m] = n]
    /\ client' = [client EXCEPT ![n] = "session"]
    /\ target' = [target EXCEPT ![n] = m]
    /\ UNCHANGED <<on, matrix, chan, fresh, bounds>>

\* The other one serves somebody else: it hangs up, and its own client is to connect.
Refused(n, m) ==
    /\ client[n] = "act"
    /\ m \in addr_to_connect(n) /\ m \in on /\ server[m] # None
    /\ hash' = [hash EXCEPT ![n] = greeted(n, m), ![m] = greeted(m, n)]
    /\ ips' = [ips EXCEPT ![m] = served(m, n), ![n] = without(n, m)]
    /\ notify(m, n)
    /\ UNCHANGED <<on, matrix, target, server, chan, bounds>>

NotThere(n, m) ==
    /\ client[n] = "act"
    /\ m \in addr_to_connect(n) \ on
    /\ ips' = [ips EXCEPT ![n] = without(n, m)]
    /\ UNCHANGED <<on, matrix, hash, threads, chan, fresh, bounds>>

SessionEnded(n) ==
    /\ client' = [client EXCEPT ![n] = "ended"]
    /\ target' = [target EXCEPT ![n] = None]
    /\ UNCHANGED <<plan, on, hash, server, chan, stops>>

\* Each side gets the other one's commands; of third nodes it believes the better.
merged(n, m) ==
    LET all == Row(n) \cup Row(m)
    IN  [x \in Nodes |-> IF x \notin Known(n) THEN {}
                         ELSE IF x \in {n, m} THEN all
                         ELSE matrix[n][x] \cup matrix[m][x]]

Exchange(n) ==
    \E m \in Nodes :
        /\ InSession(n, m) /\ n \in Known(m) /\ m \in Known(n)
        /\ matrix' = [matrix EXCEPT ![n] = merged(n, m), ![m] = merged(m, n)]
        /\ SessionEnded(n)
        /\ UNCHANGED <<ips, fresh, faults>>

\* write_net_initializer() at m, read_net_initializer() at n
welcomed(n, m) == [x \in Nodes |-> IF x = n THEN Row(m)
                                   ELSE IF x \in Known(m) THEN matrix[m][x] ELSE {}]
Welcome(n, m) ==
    matrix' = [matrix EXCEPT ![n] = welcomed(n, m), ![m][m] = @ \cup {AddNode(n)}]

Initialize(n) ==
    \E m \in Nodes :
        /\ InSession(n, m)
        /\ \/ uninitialized(n) /\ ~uninitialized(m) /\ Welcome(n, m)
           \/ uninitialized(m) /\ ~uninitialized(n) /\ Welcome(m, n)
        /\ SessionEnded(n)
        /\ UNCHANGED <<ips, fresh, faults>>

\* One of them does not know the other one.
Unknown(n) ==
    \E m \in Nodes :
        /\ InSession(n, m) /\ ~uninitialized(n) /\ ~uninitialized(m)
        /\ n \notin Known(m) \/ m \notin Known(n)
        /\ ips' = [ips EXCEPT ![n] = without(n, m)]
        /\ SessionEnded(n)
        /\ UNCHANGED <<matrix, fresh, faults>>

\* An exception
Broken(n) ==
    /\ client[n] = "session"
    /\ fresh' = fresh \ {{n, target[n]}}
    /\ IF InSession(n, target[n])
       THEN faults < plan.faults /\ faults' = faults + 1 ELSE UNCHANGED faults
    /\ ips' = [ips EXCEPT ![n] = without(n, target[n])]
    /\ SessionEnded(n)
    /\ UNCHANGED matrix

ClientEnds(n) ==
    /\ client[n] = "ended"
    /\ update_my_hash(n)
    /\ client' = [client EXCEPT ![n] = "act"]
    /\ UNCHANGED <<on, matrix, ips, target, server, fresh, bounds>>

ServerEnds(n) ==
    /\ server[n] # None
    /\ ~InSession(server[n], n)
    /\ update_my_hash(n)
    /\ server' = [server EXCEPT ![n] = None]
    /\ UNCHANGED <<on, matrix, ips, client, target, fresh, bounds>>

-----------------------------------------------------------------------------
Session(n) == Exchange(n) \/ Initialize(n) \/ Unknown(n) \/ Broken(n)

Act(n) == \E m \in Nodes : Connect(n, m) \/ Refused(n, m) \/ NotThere(n, m)

Next ==
    \/ \E n \in Nodes :
          \/ Start(n) \/ Stop(n) \/ Exit(n) \/ PendingCommands(n)
          \/ \E c \in plan.msgs : Command(n, c)
          \/ Wait(n) \/ Leave(n) \/ Act(n) \/ Session(n) \/ ClientEnds(n) \/ ServerEnds(n)
    \/ \E m, n \in Nodes : Receive(m, n) \/ Lose(m, n) \/ Overtake(m, n)

Spec == Init /\ [][Next]_vars

\* All threads run, a session ends because of its timeouts, packets that are not lost
\* arrive.
Fairness ==
    \A n \in Nodes :
        /\ WF_vars(Exit(n)) /\ WF_vars(PendingCommands(n))
        /\ WF_vars(Wait(n) \/ Leave(n) \/ Act(n) \/ Session(n) \/ ClientEnds(n))
        /\ WF_vars(ServerEnds(n))
        /\ \A m \in Nodes : WF_vars(Receive(m, n))
FairSpec == Spec /\ Fairness

-----------------------------------------------------------------------------
(* Properties                                                                  *)

TypeOK ==
    /\ on \subseteq Nodes
    /\ \A n \in Nodes :
           /\ ips[n] \in [Nodes -> {"none", "nullptr", "node"}]
           /\ client[n] \in {"waiting", "act", "leaving", "session", "ended"}
           /\ client[n] = "session" <=> target[n] # None
           /\ server[n] \in Nodes \cup {None}

Quiet ==
    \A n \in on :
        /\ client[n] = "waiting" /\ server[n] = None /\ ~Stale(n)
        /\ \A m \in Nodes : chan[m][n] = <<>>

\* When the network is silent two nodes that run know the same, and both are members,
\* unless something was lost between them - a packet, a session, a wake-up of a thread
\* that was about to wait - since one of them was started or given a command.  It does
\* not matter what was lost before, nor between other nodes.
SilentMeansAgreed ==
    Quiet =>
        \A m, n \in on : {m, n} \in fresh =>
            \/ uninitialized(m) /\ uninitialized(n)
            \/ ~uninitialized(m) /\ ~uninitialized(n)
               /\ (m \in Known(n) /\ n \in Known(m) => Row(n) = Row(m))

\* The inductive invariant of SilentMeansAgreed.  Types, and what a node that is not
\* initialized or does not run can have:
Hashes == UNION {[K -> SUBSET Commands] : K \in SUBSET Nodes}
Packet == [message : {"helo", "not_initialized", "bye"}, hash : Hashes \cup {NoHash}]

DiscoveryTypeOK ==
    /\ TypeOK
    /\ plan \in Plans
    /\ matrix \in [Nodes -> {<<>>} \cup [Nodes -> SUBSET Commands]]
    /\ hash \in [Nodes -> [Nodes -> Hashes \cup {NoHash}]]
    /\ ips \in [Nodes -> [Nodes -> {"none", "nullptr", "node"}]]
    /\ client \in [Nodes -> {"waiting", "act", "leaving", "session", "ended"}]
    /\ target \in [Nodes -> Nodes \cup {None}] /\ server \in [Nodes -> Nodes \cup {None}]
    /\ chan \in [Nodes -> [Nodes -> Seq(Packet)]]

Members ==
    \A n \in Nodes :
        /\ n \in plan.founders => matrix[n] # <<>>
        /\ ips[n][n] = "none" /\ chan[n][n] = <<>>
        /\ n \notin on => /\ hash[n] = NoHashes /\ client[n] = "waiting" /\ server[n] = None
                          /\ \A m \in Nodes : chan[m][n] = <<>>
        /\ uninitialized(n) => hash[n][n] = NoHash
        /\ \A m \in Nodes : ips[n][m] = "node" => ~uninitialized(n) /\ ~uninitialized(m)

\* What a node knows only grows, and of others it knows no more than of itself.
Grown(n) ==
    /\ \A m \in Nodes : matrix[n][m] \subseteq Row(n)
    /\ \A m \in Nodes : AddNode(m) \in Row(n) => ~uninitialized(m)
    /\ hash[n][n] # NoHash =>
           /\ hash[n][n][n] \subseteq Row(n)
           /\ DOMAIN hash[n][n] = Executed(n, hash[n][n][n])
           /\ \A m \in Known(n) \cap DOMAIN hash[n][n] : hash[n][n][m] \subseteq matrix[n][m]

\* The last packet under way brings the hash of its sender.
LastIsNews(m, n) ==
    chan[m][n] # <<>> => Last(chan[m][n]) =
        [message |-> IF hash[m][m] = NoHash THEN "not_initialized" ELSE "helo", hash |-> hash[m][m]]

\* The client of n is going to connect to m, or a session is under way.
Awake(n, m) == ips[n][m] # "none" /\ client[n] \in {"act", "session", "ended"}
Busy(n, m) == Awake(n, m) \/ InSession(n, m) \/ InSession(m, n)

\* n knows what m knows, or will be told and do something about it.
Heeded(m, n) ==
    \/ chan[m][n] # <<>>
    \/ hash[n][m] = hash[m][m] /\ (hash[n][n] = hash[m][m] \/ Busy(n, m))

Mutual(m, n) == m \in Known(n) /\ n \in Known(m)
Agreeing(m, n) ==
    /\ LastIsNews(m, n)
    /\ Mutual(m, n) => Stale(m) \/ Stale(n) \/ Heeded(m, n) \/ Heeded(n, m)
    /\ uninitialized(n) /\ ~uninitialized(m) =>
           \/ Stale(m) \/ chan[m][n] # <<>> \/ chan[n][m] # <<>>
           \/ Busy(n, m) \/ Awake(m, n)

DiscoveryInv ==
    /\ DiscoveryTypeOK
    /\ Members
    /\ \A n \in Nodes : ~uninitialized(n) => Grown(n)
    /\ \A m, n \in on : m # n /\ {m, n} \in fresh => Agreeing(m, n)

\* The network becomes silent, unless there is a node that runs though the other one has
\* deleted it, or the address of a node that became a member later has no Node: these
\* are connected to for ever.
FallsSilent ==
    <>[]Quiet \/ <>[](\E m, n \in on :
                        /\ ~uninitialized(m) /\ ~uninitialized(n)
                        /\ m \notin Known(n) \/ ips[n][m] = "nullptr")
=============================================================================
