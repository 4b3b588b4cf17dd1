---------------------------- MODULE MCStreams --------------------------------
(* Small transfers for the modules TcpSession and InviteFile, which one run     *)
(* checks side by side: a behaviour is one of either.                           *)
EXTENDS TcpSession, InviteFile

VARIABLE part

Small == [members |-> 1, state |-> 1, messages |-> <<>>, files |-> <<>>]
Joining(who, tries, n) ==
    [joins |-> who, tries |-> tries, group |-> Small, rounds |-> <<>>, faults |-> n]
Rounds(a, b, c, n) ==
    [joins |-> "nobody", tries |-> 0, group |-> Small, rounds |-> <<a, b, c>>, faults |-> n]
Msg(size, blocks) == <<[size |-> size, blocks |-> blocks]>>

\* The text of a command is longer than what zlib returns in one call.
LongPlans == {Rounds(Msg(9, 0), <<>>, <<>>, 0)}

\* Both have a command for the other, one with a file; and a new node on each side.
MCPlans ==
    {Rounds(Msg(1, 2), Msg(1, 0), <<>>, 0), Rounds(<<>>, Msg(2, 1), <<>>, 1),
     Rounds(<<>>, <<>>, Msg(5, 0), 0),
     Joining("client", 1, 1), Joining("server", 2, 0)} \cup LongPlans

\* Programs of other sizes can talk, too.
MoreMessages == {<<>>, Msg(2, 0), Msg(1, 2), <<[size |-> 1, blocks |-> 1], [size |-> 3, blocks |-> 0]>>}
MoreGroups == [members : {1, 3}, state : {2}, messages : {<<>>, <<1, 2>>}, files : {<<>>, <<2, 0>>}]
MorePlans ==
    [joins : {"nobody"}, tries : {0}, group : {Small, [Small EXCEPT !.members = 3]},
     rounds : MoreMessages \X MoreMessages \X MoreMessages, faults : {0}]
    \cup [joins : {"client", "server"}, tries : 0 .. 2, group : MoreGroups, rounds : {<<>>}, faults : {0}]
ASSUME MoreCanTalk == \A p \in MorePlans : CanTalk(Client(p), Server(p))
ASSUME MoreCanJoin == \A g \in MoreGroups : CanJoin(Invite(g))

MCGroups == {Small, [Small EXCEPT !.files = <<1>>]}

MCInit == /\ Init /\ InviteInit
          /\ \/ part = "session" /\ group = Small
             \/ part = "invite" /\ plan = Joining("server", 2, 0)
MCNext ==
    /\ \/ part = "session" /\ Next /\ UNCHANGED invitevars
       \/ part = "invite" /\ InviteNext /\ UNCHANGED svars
    /\ UNCHANGED part
MCSpec == /\ MCInit /\ [][MCNext]_<<part, svars, invitevars>>
          /\ part = "session" => Fairness

\* Every session ends on both sides, whatever happens to the connection or one side.
EverySessionEnds == part = "session" => SessionEnds
=============================================================================
