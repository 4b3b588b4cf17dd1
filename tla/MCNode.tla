------------------------------- MODULE MCNode --------------------------------
(* One node, for TLC: the steps of a program that saves the state (Storage),    *)
(* the programs that share the file, to whom saving is one step (Programs), and *)
(* the connections that its daemon accepts (Handshake).  They share no state,   *)
(* and a behaviour is one of either.                                            *)
EXTENDS Programs, Storage, Handshake

VARIABLE part

MCInit ==
    /\ Init /\ StorageInit /\ HandshakeInit
    /\ part \in {"programs", "storage", "connections"}

MCNext ==
    /\ \/ part = "programs" /\ Next /\ UNCHANGED <<storagevars, handshakevars>>
       \/ part = "storage" /\ StorageNext /\ UNCHANGED <<vars, handshakevars>>
       \/ part = "connections" /\ HandshakeNext /\ UNCHANGED <<vars, storagevars>>
    /\ UNCHANGED part

\* The fairness of FairHandshakeSpec, in its part
MCSpec ==
    /\ MCInit /\ [][MCNext]_<<part, vars, storagevars, handshakevars>>
    /\ WF_handshakevars(part = "connections" /\ DaemonStep)
    /\ \A c \in Clients : WF_handshakevars(part = "connections" /\ Arrive(c))
=============================================================================
