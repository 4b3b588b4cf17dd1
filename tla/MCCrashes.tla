------------------------------ MODULE MCCrashes ------------------------------
(* What crashes do to the replication (CrashRecovery) and to the users of the   *)
(* group (Users), for TLC.  They share no state, and a behaviour is one of      *)
(* either.                                                                      *)
EXTENDS CrashRecovery, Users

VARIABLE part

PairLinks == {<<1, 2>>, <<2, 1>>}

MCInit ==
    /\ CrashInit /\ UsersInit
    /\ part \in {"replication", "users"}

MCNext ==
    /\ \/ part = "replication" /\ CrashNext /\ UNCHANGED usersvars
       \/ part = "users" /\ UsersNext /\ UNCHANGED allvars
    /\ UNCHANGED part

\* CrashFairness, in its part
MCSpec ==
    /\ MCInit /\ [][MCNext]_<<part, allvars, usersvars>>
    /\ \A p \in Nodes : WF_allvars(part = "replication" /\ ExecuteAndSave(p))
    /\ \A l \in Links : WF_allvars(part = "replication" /\ Unsaved(Transfer(l)))

\* DeliveredUnlessBroken, in its part: crashes keep no command, once its author has
\* saved it, from being executed by every node, unless others know more of a node than
\* it has saved.
DeliveredInTheEnd == part = "replication" => DeliveredUnlessBroken
=============================================================================
