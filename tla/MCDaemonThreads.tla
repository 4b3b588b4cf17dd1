---------------------------- MODULE MCDaemonThreads --------------------------
(* The threads of the daemon, for TLC: with signals, a failing accept4() and    *)
(* peers that leave at any time, for what is always so; and with fewer of them, *)
(* so that the exchange with a peer ends.  A behaviour is one of either.        *)
EXTENDS DaemonThreads

CONSTANTS CalmLeaving, CalmSignals
VARIABLE part

AllPhases == {"check", "run", "start server", "reset server", "start client", "reset client",
              "poll", "handing over", "stop client", "stop server"}
Calm == INSTANCE DaemonThreads
    WITH Leaving <- CalmLeaving, MaxSignals <- CalmSignals, MaxFaults <- 0,
         SignalPhases <- {"poll", "handing over", "stop client", "stop server"}

MCInit == Init /\ part \in {"rough", "calm"}
MCNext == /\ \/ part = "rough" /\ Next
             \/ part = "calm" /\ Calm!Next
          /\ UNCHANGED part
MCSpec == MCInit /\ [][MCNext]_<<part, vars>> /\ Calm!Fairness

\* Where no signal comes early, accept4() does not fail and one peer stays.
PeersAreReached == part = "calm" => Calm!ReachedUnlessHandOverLost
DaemonIsTornDown == part = "calm" => Calm!TeardownEnds
=============================================================================
