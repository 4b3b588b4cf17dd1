---------------------------- MODULE MCMembership ----------------------------
(* Small plans for module Membership: each puts one way of joining or leaving, *)
(* or the file, together with commands of other nodes.                         *)
(* The positions in the matrix (MatrixIndex), from which Membership abstracts, *)
(* are checked beside it: a behaviour is one of either.                        *)
EXTENDS Membership, MatrixIndex

VARIABLE part

memvars == <<core, running, invites, packets, drawn, left>>

NoPlan == [founders |-> {1, 2}, network |-> Computers, later |-> {}, authors |-> {},
           deleters |-> {}, inviters |-> {}, leaving |-> {}, forced |-> {}, hows |-> {},
           commands |-> 0, files |-> 0, removals |-> 0, packets |-> 0, reads |-> 0, invites |-> 0,
           failures |-> 0, losses |-> 0]

\* A member leaves while it, or another one, gives a command.
Leave == [NoPlan EXCEPT !.founders = {1, 2, 3}, !.authors = {2, 3}, !.deleters = {1},
                        !.leaving = {12}, !.commands = 1]

\* A computer that is broken, or was thought to be, is removed by force.
Force == [NoPlan EXCEPT !.founders = {1, 2, 3}, !.authors = {2}, !.deleters = {1},
                        !.forced = {13}, !.commands = 1]
ForceBroken == [Force EXCEPT !.network = {1, 2}]

\* A computer joins over the network, and one whose connection breaks.
JoinOnline == [NoPlan EXCEPT !.authors = {2}, !.commands = 1, !.failures = 1]
JoinBroken == [NoPlan EXCEPT !.failures = 1, !.losses = 1]

\* A computer without a network joins with an invite file.
JoinOffline == [NoPlan EXCEPT !.network = {1, 2}, !.later = {3}, !.authors = {2},
                              !.inviters = {1}, !.commands = 1, !.invites = 1,
                              !.packets = 1, !.reads = 1]

\* A file comes, and perhaps goes.
AFile == [NoPlan EXCEPT !.founders = {1, 2, 3}, !.authors = {1, 2}, !.files = 1,
                        !.hows = {"delfile", "deldir"}, !.removals = 1]

SafePlans == {Leave, Force, ForceBroken, JoinOnline, JoinBroken, JoinOffline, AFile}

LeavePlans == {Leave}

\* Two nodes, and a packet that is read late.
PacketPlans == {[NoPlan EXCEPT !.network = {1, 2}, !.authors = {1, 2}, !.files = 1,
                               !.hows = {"delfile"}, !.removals = 1, !.packets = 1,
                               !.reads = 1]}

MCInit ==
    /\ GroupInit /\ MatrixInit
    /\ \/ part = "members" /\ ids = <<Min(MatrixIds)>>
       \/ part = "matrix" /\ left = CHOOSE p \in Plans : TRUE
MCNext ==
    /\ \/ part = "members" /\ GroupNext /\ UNCHANGED matrixvars
       \/ part = "matrix" /\ MatrixNext /\ UNCHANGED memvars
    /\ UNCHANGED part
MCSpec == MCInit /\ [][MCNext]_<<part, memvars, matrixvars>>
=============================================================================
