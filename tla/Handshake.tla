------------------------------ MODULE Handshake ------------------------------
(***************************************************************************)
(* The poll loop of the daemon and the handshake of incoming connections   *)
(* (src/daemon.cpp).  The loop keeps one vector for poll() - unix sockets, *)
(* UDP sockets, listening TCP sockets, connections - and two more whose    *)
(* elements belong to a part of it by their index; it erases elements of   *)
(* all three while it goes through them.  A connection first exchanges a   *)
(* helo: a header that tells how much trash follows it.  Bytes are counted *)
(* in units; the network cuts them anywhere.  What serve() does then is in *)
(* DaemonThreads.                                                          *)
(***************************************************************************)
EXTENDS Naturals, Sequences, FiniteSets, SequencesExt

CONSTANTS
  Interfaces,     \* the interfaces with an UDP socket
  Listeners,      \* the listening TCP sockets
  Clients,        \* the connections of other nodes
  Header,         \* units of a header
  TheirTrash,     \* units of trash that other nodes send
  OwnTrash,       \* units of trash that this node sends
  MaxFailures     \* bound: sockets that fail

ASSUME SocketsAssumption == IsFiniteSet(Interfaces) /\ IsFiniteSet(Listeners)
ASSUME SizesAssumption == Header \in Nat \ {0} /\ TheirTrash \subseteq Nat /\ OwnTrash \subseteq Nat /\ MaxFailures \in Nat

VARIABLES
  pollfds,      \* the vector for poll(): file descriptor, events, revents
  udp_ifn,      \* the interfaces of the UDP sockets
  tcpnb,        \* the connections' TCPheloNB
  udp_idx,      \* where the UDP sockets end
  tcp_idx,      \* where the listening sockets end
  i,            \* the index of the loop; 0 outside
  remote,       \* the other side of each connection
  short,        \* history: connections of which a write() wrote only a part
  failures

handshakevars == <<pollfds, udp_ifn, tcpnb, udp_idx, tcp_idx, i, remote, short, failures>>

sys_idx == 2

Pollfd(fd, events) == [fd |-> fd, events |-> events, revents |-> {}]

(* TCPheloNB: for which connection, the trash of the own helo, progress.    *)
TCPheloNB(c, trash) ==
  [ad |-> c, size_to_write |-> Header + trash, written_size |-> 0,
   read_size |-> 0, decrypted_read |-> FALSE]

HandshakeInit ==
  /\ pollfds = <<Pollfd("unix", {"POLLIN"}), Pollfd("unix_lp", {"POLLIN"})>>
               \o [k \in 1 .. Len(SetToSeq(Interfaces)) |-> Pollfd(SetToSeq(Interfaces)[k], {"POLLIN"})]
               \o [k \in 1 .. Len(SetToSeq(Listeners)) |-> Pollfd(SetToSeq(Listeners)[k], {"POLLIN"})]
  /\ udp_ifn = SetToSeq(Interfaces)
  /\ tcpnb = <<>>
  /\ udp_idx = sys_idx + Len(udp_ifn)
  /\ tcp_idx = udp_idx + Len(SetToSeq(Listeners))
  /\ i = 0
  /\ remote = [c \in Clients |-> [state |-> "none", to |-> "none", trash |-> 0, sent |-> 0]]
  /\ short = {}
  /\ failures = 0

-----------------------------------------------------------------------------
(* The other side: client_connect() writes its helo, whose trash has a      *)
(* random size, and then waits for the answer; here for the first unit.     *)
ConnectTo(c) ==
  /\ remote[c].state = "none"
  /\ \E l \in Listeners, trash \in TheirTrash :
       remote' = [remote EXCEPT ![c] =
         [state |-> IF \E k \in 1 .. Len(pollfds) : pollfds[k].fd = l THEN "connecting" ELSE "gone",
          to |-> l, trash |-> trash, sent |-> 0]]
  /\ UNCHANGED <<pollfds, udp_ifn, tcpnb, udp_idx, tcp_idx, i, short, failures>>

(* A unit of the helo arrives. *)
Arrive(c) ==
  /\ remote[c].state \in {"connecting", "accepted"}
  /\ remote[c].sent < Header + remote[c].trash
  /\ remote' = [remote EXCEPT ![c].sent = @ + 1]
  /\ UNCHANGED <<pollfds, udp_ifn, tcpnb, udp_idx, tcp_idx, i, short, failures>>

(* Before it is accepted, this shows after it is. *)
HangUp(c) ==
  /\ remote[c].state = "accepted"
  /\ remote' = [remote EXCEPT ![c].state = "hung up"]
  /\ UNCHANGED <<pollfds, udp_ifn, tcpnb, udp_idx, tcp_idx, i, short, failures>>

-----------------------------------------------------------------------------
(* TCPheloNB::on_read(): what is missing of the header, or then of the trash. *)
ToRead(nb, trash) ==
  (IF nb.read_size >= Header THEN Header + trash ELSE Header) - nb.read_size

(* Slip: a second read() overwrites the first. *)
OnReadFromStart(nb, x) ==
  [nb EXCEPT !.read_size = x, !.decrypted_read = @ \/ x >= Header]

OnRead(nb, x) ==
  [nb EXCEPT !.read_size = @ + x,
             !.decrypted_read = @ \/ nb.read_size + x >= Header]

(* Slip: the trash is left to the session. *)
ReadCompleteEarly(nb, x, trash) == x = ToRead(nb, trash)

(* All is there: the hash is checked (it fits), and POLLIN is not waited    *)
(* for any more.                                                            *)
ReadComplete(nb, x, trash) ==
  /\ x = ToRead(nb, trash)
  /\ nb.decrypted_read \/ trash = 0

(* TCPheloNB::on_write() compares what has been written with what was left. *)
ToWrite(nb) == nb.size_to_write - nb.written_size

OnWrite(nb, x) == [nb EXCEPT !.written_size = @ + x]

WriteComplete(nb, x) == x > 0 /\ nb.written_size + x = ToWrite(nb)

-----------------------------------------------------------------------------
(* poll(): what is ready, and sockets that fail. *)
Readable(fd) ==
  \/ fd \in Listeners /\ \E c \in Clients : remote[c].state = "connecting" /\ remote[c].to = fd
  \/ /\ fd \in Clients
     /\ \/ remote[fd].state = "hung up"
        \/ \E k \in 1 .. Len(tcpnb) : tcpnb[k].ad = fd /\ remote[fd].sent > tcpnb[k].read_size

(* The loop goes through all entries and does nothing for one without events. *)
NextEntry(fds, k) ==
  Min({j \in k + 1 .. Len(fds) : fds[j].revents # {}} \cup {Max({k, Len(fds)}) + 1})

Ready(p) == {e \in p.events : e = "POLLIN" => Readable(p.fd)}

Poll ==
  /\ i = 0
  /\ \E failing \in SUBSET Interfaces :
       /\ failing # {} => failures < MaxFailures
       /\ failures' = IF failing = {} THEN failures ELSE failures + 1
       /\ pollfds' = [k \in 1 .. Len(pollfds) |-> [pollfds[k] EXCEPT !.revents =
            IF pollfds[k].fd \in failing THEN {"POLLERR"} ELSE Ready(pollfds[k])]]
  /\ i' = NextEntry(pollfds', 0)
  /\ i' <= Len(pollfds)
  /\ UNCHANGED <<udp_ifn, tcpnb, udp_idx, tcp_idx, remote, short>>

(* The body of the loop: each of the following deals with entry number i;   *)
(* an entry that moves into the place of an erased one is passed over.      *)
Visit(kind) == 0 < i /\ i <= Len(pollfds) /\ kind

Advance == i' = NextEntry(pollfds', i)

(* Slip: where the listening sockets end is not corrected. *)
VisitUdpForgetting ==
  /\ Visit(sys_idx < i /\ i <= udp_idx)
  /\ udp_ifn' = RemoveAt(udp_ifn, i - sys_idx)
  /\ pollfds' = RemoveAt(pollfds, i)
  /\ udp_idx' = udp_idx - 1
  /\ Advance
  /\ UNCHANGED <<tcp_idx, tcpnb, remote, short, failures>>

(* A socket for broadcasts that fails is closed; recv_udp() is in Discovery. *)
VisitUdp ==
  /\ Visit(sys_idx < i /\ i <= udp_idx)
  /\ udp_ifn' = RemoveAt(udp_ifn, i - sys_idx)
  /\ pollfds' = RemoveAt(pollfds, i)
  /\ udp_idx' = udp_idx - 1
  /\ tcp_idx' = tcp_idx - 1
  /\ Advance
  /\ UNCHANGED <<tcpnb, remote, short, failures>>

(* accept4(); when it fails, for want of memory or of file descriptors, the *)
(* listening socket is closed, and clients find the port closed.            *)
VisitListener ==
  /\ Visit(udp_idx < i /\ i <= tcp_idx)
  /\ \/ \E c \in Clients, trash \in OwnTrash :
          /\ remote[c].state = "connecting"
          /\ remote[c].to = pollfds[i].fd
          /\ remote' = [remote EXCEPT ![c].state = "accepted"]
          /\ pollfds' = Append(pollfds, Pollfd(c, {"POLLIN", "POLLOUT"}))
          /\ tcpnb' = Append(tcpnb, TCPheloNB(c, trash))
          /\ UNCHANGED <<tcp_idx, failures>>
     \/ /\ failures < MaxFailures
        /\ failures' = failures + 1
        /\ pollfds' = RemoveAt(pollfds, i)
        /\ tcp_idx' = tcp_idx - 1
        /\ remote' = [c \in Clients |->
             IF remote[c].state = "connecting" /\ remote[c].to = pollfds[i].fd
             THEN [remote[c] EXCEPT !.state = "gone"] ELSE remote[c]]
        /\ UNCHANGED tcpnb
  /\ Advance
  /\ UNCHANGED <<udp_ifn, udp_idx, short>>

(* on_read() and on_write() of the object whose index fits, in this order;  *)
(* read() and write() transfer a part, or the other side is gone.           *)
VisitConnection ==
  /\ Visit(tcp_idx < i)
  /\ LET k == i - tcp_idx
         nb == tcpnb[k]
         c == pollfds[i].fd
         trash == remote[c].trash
         reads == IF "POLLIN" \notin pollfds[i].revents THEN {0}
                  ELSE {x \in 1 .. ToRead(nb, trash) : nb.read_size + x <= remote[c].sent}
         writes == IF "POLLOUT" \in pollfds[i].revents /\ ToWrite(nb) > 0 THEN 1 .. ToWrite(nb) ELSE {0}
     IN \/ \* end of the input, nothing left to write, or nobody to write to
           /\ \/ remote[c].state = "hung up"
              \/ "POLLIN" \in pollfds[i].revents /\ reads = {}
              \/ "POLLOUT" \in pollfds[i].revents /\ ToWrite(nb) = 0
           /\ tcpnb' = RemoveAt(tcpnb, k)
           /\ pollfds' = RemoveAt(pollfds, i)
           /\ remote' = [remote EXCEPT ![c].state = "gone"]
           /\ UNCHANGED short
        \/ \E x \in reads, w \in writes :
             /\ "POLLOUT" \in pollfds[i].revents => w > 0
             /\ tcpnb' = [tcpnb EXCEPT ![k] = OnWrite(OnRead(nb, x), w)]
             /\ pollfds' = [pollfds EXCEPT
                  ![i] = [fd |-> c, revents |-> {},
                          events |-> pollfds[i].events
                                     \ (   (IF x > 0 /\ ReadComplete(nb, x, trash) THEN {"POLLIN"} ELSE {})
                                      \cup (IF WriteComplete(nb, w) THEN {"POLLOUT"} ELSE {}))]]
             /\ short' = IF w < ToWrite(nb) /\ "POLLOUT" \in pollfds[i].revents THEN short \cup {c} ELSE short
             /\ UNCHANGED remote
  /\ Advance
  /\ UNCHANGED <<udp_ifn, udp_idx, tcp_idx, failures>>

(* Then serve() gets the first connection that waits for nothing any more;   *)
(* it hands it over to the server thread, or closes it.                     *)
Whole == {k \in 1 .. Len(tcpnb) : pollfds[tcp_idx + k].events = {}}

Serve ==
  /\ i > Len(pollfds)
  /\ \E k \in Whole, state \in {"served", "gone"} :
       /\ \A j \in Whole : k <= j
       /\ remote' = [remote EXCEPT ![pollfds[tcp_idx + k].fd].state = state]
       /\ tcpnb' = RemoveAt(tcpnb, k)
       /\ pollfds' = RemoveAt(pollfds, tcp_idx + k)
  /\ UNCHANGED <<udp_ifn, udp_idx, tcp_idx, i, short, failures>>

RoundEnds ==
  /\ i > Len(pollfds)
  /\ Whole = {}
  /\ i' = 0
  /\ UNCHANGED <<pollfds, udp_ifn, tcpnb, udp_idx, tcp_idx, remote, short, failures>>

DaemonStep == Poll \/ VisitUdp \/ VisitListener \/ VisitConnection \/ Serve \/ RoundEnds

HandshakeNext ==
  \/ DaemonStep
  \/ \E c \in Clients : ConnectTo(c) \/ Arrive(c) \/ HangUp(c)

HandshakeSpec == HandshakeInit /\ [][HandshakeNext]_handshakevars

(* The loop goes on when poll() returns, and what was sent arrives. *)
FairHandshakeSpec == HandshakeSpec /\ WF_handshakevars(DaemonStep) /\ \A c \in Clients : WF_handshakevars(Arrive(c))

-----------------------------------------------------------------------------
Descriptors == {"unix", "unix_lp"} \cup Interfaces \cup Listeners \cup Clients
Events == {"POLLIN", "POLLOUT"}
Entry == [fd : Descriptors, events : SUBSET Events, revents : SUBSET (Events \cup {"POLLERR"})]
HeloNB == [ad : Clients, size_to_write : Nat, written_size : Nat, read_size : Nat, decrypted_read : BOOLEAN]
Remote == [state : {"none", "connecting", "accepted", "hung up", "served", "gone"},
           to : Listeners \cup {"none"}, trash : Nat, sent : Nat]

HandshakeTypeOK ==
  /\ pollfds \in Seq(Entry)
  /\ udp_ifn \in Seq(Interfaces)
  /\ tcpnb \in Seq(HeloNB)
  /\ udp_idx \in Nat /\ tcp_idx \in Nat /\ i \in Nat
  /\ sys_idx <= udp_idx /\ udp_idx <= tcp_idx
  /\ remote \in [Clients -> Remote]
  /\ short \subseteq Clients
  /\ failures \in 0 .. MaxFailures

(* However entries come and go while the loop runs, the same index means    *)
(* the same socket in all vectors: no helo is read into the object of       *)
(* another connection, no broadcast is taken for one of another interface.  *)
Aligned ==
  /\ udp_idx = sys_idx + Len(udp_ifn)
  /\ Len(pollfds) = tcp_idx + Len(tcpnb)
  /\ \A k \in 1 .. Len(udp_ifn) : pollfds[sys_idx + k].fd = udp_ifn[k]
  /\ \A k \in 1 .. Len(tcpnb) : pollfds[tcp_idx + k].fd = tcpnb[k].ad

(* A connection that goes to serve() has read the whole helo of the other   *)
(* side, trash included, and not more; and unless a write() was short it    *)
(* has written its own: the session begins at the same place on both sides. *)
CompleteMeansWhole ==
  \A k \in 1 .. Len(tcpnb) :
    LET nb == tcpnb[k] IN
    pollfds[tcp_idx + k].events = {} =>
      /\ nb.read_size = Header + remote[nb.ad].trash
      /\ nb.ad \notin short => nb.written_size = nb.size_to_write

(* The inductive invariant of both: what poll() reported was asked for, and *)
(* what each entry has stopped to ask for is done.                          *)
EventsAskedFor ==
  \A k \in 1 .. Len(pollfds) : pollfds[k].revents \subseteq pollfds[k].events \cup {"POLLERR"}

DoneMeansWhole(nb, events) ==
  /\ remote[nb.ad].state # "none"
  /\ nb.decrypted_read => Header <= nb.read_size
  /\ "POLLIN" \notin events => nb.read_size = Header + remote[nb.ad].trash
  /\ "POLLOUT" \notin events /\ nb.ad \notin short => nb.written_size = nb.size_to_write

HandshakeInv ==
  /\ HandshakeTypeOK
  /\ Aligned
  /\ EventsAskedFor
  /\ \A k \in 1 .. Len(tcpnb) : DoneMeansWhole(tcpnb[k], pollfds[tcp_idx + k].events)

(* Every connection is accepted, and then ends in a session, or is closed.  *)
HandshakeEnds ==
  \A c \in Clients : remote[c].state \in {"connecting", "accepted", "hung up"} ~>
                       remote[c].state \in {"served", "gone"}
=============================================================================
