--------------------------- MODULE DaemonThreads ---------------------------
(***************************************************************************)
(* The threads of the daemon (src/daemon.cpp).  The main thread polls the  *)
(* sockets.  It hands an incoming TCP connection over to the server thread *)
(* through a flag, a slot and a condition variable, and wakes the client   *)
(* thread when some node may have something new.  A signal makes the main  *)
(* thread stop both threads and start them again, or end.                  *)
(*                                                                         *)
(* The condition variables are waited for without a predicate and notified *)
(* without holding their mutex, so that a notification is lost when the    *)
(* thread is not waiting.  What a session transfers is the business of     *)
(* Replication; here it succeeds or fails.                                 *)
(***************************************************************************)
EXTENDS Naturals

CONSTANTS
  Peers,          \* the other nodes
  NoPeer,         \* the value of an empty slot
  Leaving,        \* the peers that may go offline
  SignalPhases,   \* bound: the phases of the main thread in which signals come
  MaxSignals,     \* bound: signals
  MaxFaults       \* bound: exceptions thrown inside daemon_run()

ASSUME PeersAssumption == NoPeer \notin Peers /\ Leaving \subseteq Peers
ASSUME BoundsAssumption == MaxSignals \in Nat /\ MaxFaults \in Nat

Threads == {"server", "client"}

VARIABLES
  prog_status,   \* the global of the same name
  main,          \* where the main thread is
  thread,        \* where the server thread and the client thread are
  done,          \* ThreadCV::done of each
  server_busy,   \* the flag that guards the slot
  slot,          \* pass_server_fd and serv_helo: the peer served last
  conn,          \* conn[p]: the connection that p opened to this daemon
  target,        \* the peer that the client thread is connected to
  ips,           \* the peers whose address is known
  differing,     \* the peers that do not know the same as this node
  signals, faults

vars == <<prog_status, main, thread, done, server_busy, slot, conn, target,
          ips, differing, signals, faults>>

network == <<conn, target, ips, differing>>
counters == <<signals, faults>>

Phases == {"check", "run", "start server", "reset server", "start client", "reset client",
           "poll", "handing over", "stop client", "stop server", "ended"}

TypeOK ==
  /\ prog_status \in {"work", "reload", "exit"}
  /\ main \in Phases
  /\ thread \in [Threads -> {"none", "check", "waiting", "woken", "act", "session", "finished"}]
  /\ done \in [Threads -> BOOLEAN]
  /\ server_busy \in BOOLEAN
  /\ slot \in Peers \cup {NoPeer}
  /\ conn \in [Peers -> {"none", "open", "claimed", "handed", "session"}]
  /\ target \in Peers \cup {NoPeer}
  /\ ips \subseteq Peers
  /\ differing \subseteq Peers
  /\ signals \in 0 .. MaxSignals
  /\ faults \in 0 .. MaxFaults

Init ==
  /\ prog_status = "work"
  /\ main = "check"
  /\ thread = [t \in Threads |-> "none"]
  /\ done = [t \in Threads |-> FALSE]
  /\ server_busy = FALSE
  /\ slot = NoPeer
  /\ conn = [p \in Peers |-> "none"]
  /\ target = NoPeer
  /\ ips = {}
  /\ differing = Peers
  /\ signals = 0
  /\ faults = 0

Working == prog_status = "work"

(* A notification reaches a waiting thread only. *)
Notified(t) ==
  IF thread[t] = "waiting" THEN [thread EXCEPT ![t] = "woken"] ELSE thread

-----------------------------------------------------------------------------
(* The main thread: daemon() and daemon_run() *)

GoTo(phase) == main' = phase

(* while (prog_status != exit) daemon_run(); broadcast_bye() *)
CheckExit ==
  /\ main = "check"
  /\ GoTo(IF prog_status = "exit" THEN "ended" ELSE "run")
  /\ UNCHANGED <<prog_status, thread, done, server_busy, slot, network, counters>>

Run ==
  /\ main = "run"
  /\ prog_status' = "work"
  /\ GoTo("start server")
  /\ UNCHANGED <<thread, done, server_busy, slot, network, counters>>

(* The constructor of ThreadCtrl starts the thread before it resets done. *)
StartThread(t, here, next) ==
  /\ main = here
  /\ thread' = [thread EXCEPT ![t] = "check"]
  /\ GoTo(next)
  /\ UNCHANGED <<prog_status, done, server_busy, slot, network, counters>>

ResetDone(t, here, next) ==
  /\ main = here
  /\ done' = [done EXCEPT ![t] = FALSE]
  /\ GoTo(next)
  /\ UNCHANGED <<prog_status, thread, server_busy, slot, network, counters>>

StartThreads ==
  \/ StartThread("server", "start server", "reset server")
  \/ ResetDone("server", "reset server", "start client")
  \/ StartThread("client", "start client", "reset client")
  \/ ResetDone("client", "reset client", "poll")

LeavePoll ==
  /\ main = "poll"
  /\ ~Working
  /\ GoTo("stop client")
  /\ conn' = [p \in Peers |-> IF conn[p] = "open" THEN "none" ELSE conn[p]]
  /\ UNCHANGED <<prog_status, thread, done, server_busy, slot, target, ips, differing, counters>>

(* An exception leaves daemon_run(), before or after the threads run; the   *)
(* status of the program is still "work".                                   *)
Throw ==
  /\ main \in {"start server", "poll"}
  /\ faults < MaxFaults
  /\ faults' = faults + 1
  /\ GoTo(IF main = "poll" THEN "stop client" ELSE "check")
  /\ UNCHANGED <<prog_status, thread, done, server_busy, slot, network, signals>>

(* The destructor of ThreadCtrl notifies until the thread is done, and joins it. *)
NotifyAll(t, here) ==
  /\ main = here
  /\ ~done[t]
  /\ thread' = Notified(t)
  /\ UNCHANGED <<prog_status, main, done, server_busy, slot, network, counters>>

Join(t, here, next) ==
  /\ main = here
  /\ done[t]
  /\ thread[t] = "finished"
  /\ thread' = [thread EXCEPT ![t] = "none"]
  /\ GoTo(next)
  /\ UNCHANGED <<prog_status, done, server_busy, slot, network, counters>>

StopThreads ==
  \/ NotifyAll("client", "stop client")
  \/ Join("client", "stop client", "stop server")
  \/ NotifyAll("server", "stop server")
  \/ Join("server", "stop server", "check")

(* sighandler() *)
Signal(status) ==
  /\ main \in SignalPhases
  /\ signals < MaxSignals
  /\ signals' = signals + 1
  /\ prog_status' = status
  /\ UNCHANGED <<main, thread, done, server_busy, slot, network, faults>>

-----------------------------------------------------------------------------
(* The main thread: what arrives while it polls *)

(* Slip: nobody wakes the client. *)
RecvHeloQuietly(p) ==
  /\ main = "poll"
  /\ ips' = ips \cup {p}
  /\ UNCHANGED <<prog_status, main, thread, done, server_busy, slot, conn, target, differing, counters>>

RecvHelo(p) ==
  /\ main = "poll"
  /\ ips' = ips \cup {p}
  /\ thread' = Notified("client")
  /\ UNCHANGED <<prog_status, main, done, server_busy, slot, conn, target, differing, counters>>

RecvBye(p) ==
  /\ main = "poll"
  /\ p \in Leaving
  /\ ips' = ips \ {p}
  /\ UNCHANGED <<prog_status, main, thread, done, server_busy, slot, conn, target, differing, counters>>

Accept(p) ==
  /\ main = "poll"
  /\ conn[p] = "none"
  /\ conn' = [conn EXCEPT ![p] = "open"]
  /\ UNCHANGED <<prog_status, main, thread, done, server_busy, slot, target, ips, differing, counters>>

HangUp(p) ==
  /\ conn[p] \in {"open", "handed"}
  /\ conn' = [conn EXCEPT ![p] = "none"]
  /\ UNCHANGED <<prog_status, main, thread, done, server_busy, slot, target, ips, differing, counters>>

(* Slip: the flag is not looked at. *)
ServeAnyway(p) ==
  /\ main = "poll"
  /\ conn[p] = "open"
  /\ ips' = ips \cup {p}
  /\ server_busy' = TRUE
  /\ conn' = [conn EXCEPT ![p] = "claimed"]
  /\ GoTo("handing over")
  /\ UNCHANGED <<thread, prog_status, done, slot, target, differing, counters>>

(* serve() after the greetings were exchanged. *)
Serve(p) ==
  /\ main = "poll"
  /\ conn[p] = "open"
  /\ ips' = ips \cup {p}
  /\ \/ /\ server_busy
        /\ conn' = [conn EXCEPT ![p] = "none"]
        /\ thread' = Notified("client")
        /\ UNCHANGED <<server_busy, main>>
     \/ /\ ~server_busy
        /\ server_busy' = TRUE
        /\ conn' = [conn EXCEPT ![p] = "claimed"]
        /\ GoTo("handing over")
        /\ UNCHANGED thread
  /\ UNCHANGED <<prog_status, done, slot, target, differing, counters>>

HandOver(p) ==
  /\ main = "handing over"
  /\ conn[p] = "claimed"
  /\ conn' = [conn EXCEPT ![p] = "handed"]
  /\ slot' = p
  /\ thread' = Notified("server")
  /\ GoTo("poll")
  /\ UNCHANGED <<prog_status, done, server_busy, target, ips, differing, counters>>

(* This node or p learns something. *)
Differ(p) ==
  /\ differing' = differing \cup {p}
  /\ UNCHANGED <<prog_status, main, thread, done, server_busy, slot, conn, target, ips, counters>>

-----------------------------------------------------------------------------
(* The server thread and the client thread *)

(* Slip: the thread that is woken to stop returns without a word. *)
WakeWithoutDone(t) ==
  /\ thread[t] = "woken"
  /\ thread' = [thread EXCEPT ![t] = IF Working THEN "act" ELSE "finished"]
  /\ UNCHANGED <<prog_status, main, done, server_busy, slot, network, counters>>

(* The loop of both threads: the test, cv.wait() and the test after it. *)
Check(t) ==
  /\ thread[t] = "check"
  /\ thread' = [thread EXCEPT ![t] = IF Working THEN "waiting" ELSE "finished"]
  /\ done' = [done EXCEPT ![t] = @ \/ ~Working]
  /\ UNCHANGED <<prog_status, main, server_busy, slot, network, counters>>

Wake(t) ==
  /\ thread[t] = "woken"
  /\ thread' = [thread EXCEPT ![t] = IF Working THEN "act" ELSE "finished"]
  /\ done' = [done EXCEPT ![t] = @ \/ ~Working]
  /\ UNCHANGED <<prog_status, main, server_busy, slot, network, counters>>

(* The peer that addr_to_connect() leaves out because the server is said to *)
(* be busy with it.  The slot is read while the main thread writes it.      *)
LeftOut ==
  CASE ~server_busy -> {{}}
    [] main = "handing over" -> {{}, {slot}} \cup {{p} : p \in {q \in Peers : conn[q] = "claimed"}}
    [] OTHER -> {{slot}}

(* client_act(): connect to some node, or stop when there is none. *)
ClientAct ==
  /\ thread["client"] = "act"
  /\ \E out \in LeftOut :
       LET addrs == (ips \cap differing) \ out
       IN  \/ /\ addrs = {} \/ ~Working
              /\ thread' = [thread EXCEPT !["client"] = "check"]
              /\ UNCHANGED target
           \/ /\ Working
              /\ target' \in addrs
              /\ thread' = [thread EXCEPT !["client"] = "session"]
  /\ UNCHANGED <<prog_status, main, done, server_busy, slot, conn, ips, differing, counters>>

ClientSession(p, ok) ==
  /\ thread["client"] = "session"
  /\ target = p
  /\ ok => Working
  /\ differing' = IF ok THEN differing \ {p} ELSE differing
  /\ ips' = IF ok THEN ips ELSE ips \ {p}
  /\ target' = NoPeer
  /\ thread' = [thread EXCEPT !["client"] = IF Working THEN "act" ELSE "check"]
  /\ UNCHANGED <<prog_status, main, done, server_busy, slot, conn, counters>>

(* server_act(): a session over the connection in the slot ... *)
ServerAct ==
  /\ thread["server"] = "act"
  /\ thread' = [thread EXCEPT !["server"] = "session"]
  /\ conn' = [p \in Peers |-> IF p = slot /\ conn[p] = "handed" THEN "session" ELSE conn[p]]
  /\ UNCHANGED <<prog_status, main, done, server_busy, slot, target, ips, differing, counters>>

(* ... and then the server is free again, unless the program is to stop. *)
ServerSession(ok) ==
  /\ thread["server"] = "session"
  /\ ok => slot \in Peers /\ conn[slot] = "session" /\ Working
  /\ differing' = IF ok THEN differing \ {slot} ELSE differing
  /\ conn' = [p \in Peers |-> IF conn[p] = "session" THEN "none" ELSE conn[p]]
  /\ server_busy' = IF Working THEN FALSE ELSE server_busy
  /\ thread' = [thread EXCEPT !["server"] = "check"]
  /\ UNCHANGED <<prog_status, main, done, slot, target, ips, counters>>

-----------------------------------------------------------------------------
MainStep == CheckExit \/ Run \/ StartThreads \/ LeavePoll \/ StopThreads \/ (\E p \in Peers : HandOver(p))

Arrival(p) == RecvHelo(p) \/ RecvBye(p) \/ Accept(p) \/ HangUp(p) \/ Serve(p) \/ Differ(p)

Loop(t) == Check(t) \/ Wake(t)

ThreadStep ==
  \/ \E t \in Threads : Loop(t)
  \/ ClientAct
  \/ \E p \in Peers, ok \in BOOLEAN : ClientSession(p, ok)
  \/ ServerAct
  \/ \E ok \in BOOLEAN : ServerSession(ok)

Next ==
  \/ MainStep
  \/ Throw
  \/ Signal("reload") \/ Signal("exit")
  \/ \E p \in Peers : Arrival(p)
  \/ ThreadStep

Spec == Init /\ [][Next]_vars

(* The threads run; sessions end, because sockets have timeouts; a peer     *)
(* that stays online keeps broadcasting, and is connected to, and a session *)
(* succeeds, if that is possible again and again.                           *)
Fairness ==
  /\ WF_vars(MainStep)
  /\ \A t \in Threads : WF_vars(Loop(t))
  /\ WF_vars(ClientAct)
  /\ WF_vars(\E p \in Peers, ok \in BOOLEAN : ClientSession(p, ok))
  /\ WF_vars(ServerAct)
  /\ WF_vars(\E ok \in BOOLEAN : ServerSession(ok))
  /\ \A p \in Peers \ Leaving :
       /\ SF_vars(RecvHelo(p))
       /\ SF_vars(ClientAct /\ target' = p)
       /\ SF_vars(ClientSession(p, TRUE))
       /\ SF_vars(ServerSession(TRUE) /\ slot = p)

FairSpec == Spec /\ Fairness

-----------------------------------------------------------------------------
(* The slot is not overwritten while it is in use: there is one connection  *)
(* at a time that is being handed over or served, it is the one in the      *)
(* slot, and the flag stays set all the time - also while the threads are   *)
(* stopped and started again.                                               *)
SlotGuarded ==
  \A p \in Peers : conn[p] \in {"claimed", "handed", "session"} =>
    /\ server_busy
    /\ conn[p] # "claimed" => slot = p
    /\ \A q \in Peers \ {p} : conn[q] \in {"none", "open"}

(* The server thread acts only on a connection it was given, or when it is  *)
(* being stopped and no connection can be given.                            *)
ServerHasWork ==
  /\ thread["server"] \in {"woken", "act", "session"} => server_busy \/ main = "stop server"
  /\ \A p \in Peers :
       /\ conn[p] = "claimed" =>
            main = "handing over" /\ thread["server"] \notin {"woken", "act", "session"}
       /\ conn[p] = "handed" => thread["server"] # "session"

(* The inductive invariant: SlotGuarded and what it rests on. *)
SlotInv == TypeOK /\ SlotGuarded /\ ServerHasWork

(* Threads are stopped one after the other although a notification may be   *)
(* lost: the main thread is not stuck in a destructor.                      *)
TeardownEnds ==
  main = "stop client" ~> main = "check"

(* The one thing that can keep the daemon from exchanging with a peer for   *)
(* ever, reloads included: the slot is taken by that peer and the server    *)
(* thread waits - because the connection was handed over while the thread   *)
(* was not waiting yet, or because a reload ended its session.              *)
HandOverLost(p) ==
  /\ server_busy
  /\ slot = p
  /\ thread["server"] = "waiting"

ReachedUnlessHandOverLost ==
  \A p \in Peers \ Leaving :
    p \in differing ~> p \notin differing \/ HandOverLost(p) \/ prog_status = "exit"

(* What the project's documentation says: as soon as a node comes online    *)
(* commands are copied to it.                                               *)
Reached ==
  \A p \in Peers \ Leaving : p \in differing ~> p \notin differing

(* What a comment says of the status "reload": the network server is run    *)
(* again; so there is a time when it can serve.                             *)
ServerRunsAgain ==
  main = "run" ~> ~server_busy

(* What a comment says of the status "exit": the program ends. *)
ExitEnds ==
  prog_status = "exit" ~> main = "ended"
=============================================================================
