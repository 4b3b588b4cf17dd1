----------------------------- MODULE Membership -----------------------------
(* The members of a group change: computers join it by an online or an        *)
(* offline invite and leave it by delnode.  Both are commands that spread     *)
(* like all others, so for a while every node has members of its own; a node  *)
(* must not forget what a new member still needs, and a leaving one must not  *)
(* take its last commands with it.  The transfer of commands is module        *)
(* Replication's; here a download is one step that may stop early.            *)
EXTENDS GroupNode

CONSTANTS
    Computers,
    Ids,            \* the UUIDs that are drawn, in the order they are drawn
    Plans           \* bound: what the user may do; one plan is chosen at the start

(* A plan: the computers that found the group, those on the network, and     *)
(* those that get there once they work (until then they read packet files);  *)
(* where commands are typed, delnode, and offline invites; the UUIDs delnode *)
(* may be typed for, without and with "force"; how a file is removed; and    *)
(* how many commands, files, removals of files, packets, packets read,       *)
(* invites, broken downloads, and new members that do not hear that they     *)
(* are one.                                                                  *)
Plan ==
    [founders : SUBSET Computers, network : SUBSET Computers, later : SUBSET Computers,
     authors : SUBSET Computers, deleters : SUBSET Computers, inviters : SUBSET Computers,
     leaving : SUBSET Ids, forced : SUBSET Ids, hows : SUBSET {"delfile", "deldir"},
     commands : Nat, files : Nat, removals : Nat, packets : Nat, reads : Nat,
     invites : Nat, failures : Nat, losses : Nat]

ASSUME MembershipAssumption ==
    /\ Computers \subseteq Nat
    /\ Ids \subseteq Nat /\ IsFiniteSet(Ids)
    /\ NoId \notin Ids \cup Computers
    /\ Plans \subseteq Plan
    /\ \A p \in Plans : /\ IsFiniteSet(p.founders)
                        /\ Cardinality(p.founders) <= Cardinality(Ids)

VARIABLES
    core,           \* core[c]: the state of the program on computer c
    running,        \* the computer that is in pending_commands(), and whether it
                    \* is called by finalize_offline_invitation()
    invites,        \* the offline invite files
    packets,        \* the packet files
    drawn,          \* the UUIDs in use
    left            \* the plan, and how much of it is left to do
gvars == <<core, running, invites, packets, drawn, left>>

NotRunning == [on |-> NoId, final |-> FALSE]
AtRest == running = NotRunning
Up(c) == core[c].status # "deleted"
InGroup(c) == core[c].my_id # NoId
Spend(what) == /\ left[what] > 0
               /\ left' = [left EXCEPT ![what] = @ - 1]

-----------------------------------------------------------------------------
(* Core::pending_commands(), under the lock of the core: execute whatever is  *)
(* executable, in any order, then forget, and once more if that has created   *)
(* commands.  Nobody sees what is between, so the other computers wait.       *)

PendingCommands(c) ==
    /\ AtRest /\ Up(c) /\ core[c].status # "uninitialized"
    /\ command_to_exec(core[c]) \cup Forgettable(core[c]) # {}
    /\ running' = [on |-> c, final |-> FALSE]
    /\ UNCHANGED <<core, invites, packets, drawn, left>>

ExecuteOne(c) ==
    /\ running.on = c
    /\ \E m \in command_to_exec(core[c]) :
           core' = [core EXCEPT ![c] = mark_as_executed(exec(@, m), m)]
    /\ UNCHANGED <<running, invites, packets, drawn, left>>

RemoveOldCommands(c) ==
    /\ running.on = c
    /\ command_to_exec(core[c]) = {}
    /\ LET n == remove_old_commands(core[c])
       IN  IF command_to_exec(n) # {}
           THEN core' = [core EXCEPT ![c] = n] /\ UNCHANGED running
           ELSE /\ core' = [core EXCEPT ![c] =
                              IF running.final THEN [n EXCEPT !.status = "work"] ELSE n]
                /\ running' = NotRunning
    /\ UNCHANGED <<invites, packets, drawn, left>>

-----------------------------------------------------------------------------
(* What the user types                                                        *)

Accepts(c) == AtRest /\ core[c].status \in {"work", "inviter"}

Command(c) ==
    /\ Accepts(c) /\ c \in left.authors
    /\ Spend("commands")
    /\ core' = [core EXCEPT ![c] = create_command(@, "other", NoId, TRUE)]
    /\ UNCHANGED <<running, invites, packets, drawn>>

\* The user has put the file, or a new one of the same name, where addfile finds it.
incm_addfile(c) ==
    /\ Accepts(c) /\ c \in left.authors
    /\ Spend("files")
    /\ core' = [core EXCEPT ![c] = [create_command(@, "addfile", NoId, TRUE)
                                        EXCEPT !.disk = left.files]]
    /\ UNCHANGED <<running, invites, packets, drawn>>

\* incm_delfile() and incm_deldir(): the file goes when the command is forgotten.
RemoveFile(c, how) ==
    /\ Accepts(c) /\ c \in left.authors /\ how \in left.hows
    /\ Spend("removals")
    /\ core[c].filenames
    /\ core' = [core EXCEPT ![c] = create_command(@, how, NoId, TRUE)]
    /\ UNCHANGED <<running, invites, packets, drawn>>

incm_delnode(c, id, force) ==
    /\ Accepts(c) /\ c \in left.deleters
    /\ id \in Members(core[c])
    /\ id \in IF force THEN left.forced ELSE left.leaving
    /\ left' = [left EXCEPT !.forced = @ \ {id}, !.leaving = @ \ {id}]
    /\ LET told == create_command(core[c], "delnode", id, TRUE)
       IN  core' = [core EXCEPT ![c] =
                       IF force /\ id # core[c].my_id
                       THEN create_command(told, "delnoderecord", id, TRUE) ELSE told]
    /\ UNCHANGED <<running, invites, packets, drawn>>

write_offline_invite(c) ==
    /\ Accepts(c) /\ c \in left.inviters
    /\ Complete(core[c])
    /\ Spend("invites")
    /\ LET id == left.invites
       IN  /\ core' = [core EXCEPT ![c].status = "inviter", ![c].invite_id = id]
           /\ invites' = invites \cup {[id |-> id, from |-> core[c], uuids |-> {}]}
    /\ UNCHANGED <<running, packets, drawn>>

Draw(id) ==
    /\ id \notin drawn
    /\ id = Min(Ids \ drawn)
    /\ drawn' = drawn \cup {id}

read_offline_invite(c, f) ==
    /\ AtRest
    /\ core[c].status = "uninitialized" /\ ~InGroup(c)
    /\ \E id \in Ids :
          /\ Draw(id)
          /\ core' = [core EXCEPT ![c] =
                        [Initialized(@, f.from, id) EXCEPT !.status = "part_init"]]
          /\ invites' = (invites \ {f}) \cup {[f EXCEPT !.uuids = @ \cup {id}]}
    /\ UNCHANGED <<running, packets, left>>

\* The commands that welcome the new members are executed while the node is still
\* inviter; then it works again.
finalize_offline_invitation(c, f) ==
    /\ AtRest
    /\ core[c].status = "inviter"
    /\ f.id = core[c].invite_id
    /\ ~f.from.filenames            \* skip_file() reads on until it throws
    /\ f.uuids \cap Members(core[c]) = {}
    /\ core' = [core EXCEPT ![c] =
        WithNew(@, {new_command(@, "addnode", id, Rank(f.uuids, id), FALSE) : id \in f.uuids})]
    /\ running' = [on |-> c, final |-> TRUE]
    /\ UNCHANGED <<invites, packets, drawn, left>>

\* The other finalize_offline_invitation(): whatever the status is.  Only a user
\* who has written an invite has a reason to type it.
cancel_invite(c) ==
    /\ AtRest /\ Up(c)
    /\ core[c].invite_id # 0 /\ core[c].status # "work"
    /\ core' = [core EXCEPT ![c].status = "work"]
    /\ UNCHANGED <<running, invites, packets, drawn, left>>

-----------------------------------------------------------------------------
(* Sessions and packets                                                       *)

Knows(c, d) == core[d].my_id \in Members(core[c])
Told(c, d) == ~node_alive(core[d], core[c].my_id) /\ core[c].status = "deleting"
Connected(c, d) == /\ AtRest /\ c # d /\ Up(c) /\ Up(d)
                   /\ \A x \in {c, d} :
                          x \in IF need_initialize(core[x]) THEN left.network
                                ELSE left.network \cup left.later

\* One reply: the next command of the first author of whom the other node knows more,
\* or nothing if there is none, or if the other cannot send the file of the command.
Wanted(n, remote) == {a \in Members(n) : n.nodes[remote.my_id].row[a] > Row(n)[a]}
Fetched(n, remote) ==
    LET a == Min(Wanted(n, remote))
        reply == {m \in remote.messages :
                     m.author = a /\ m.number = Row(n)[a] /\ ~Unsendable(remote, m)}
    IN  IF Wanted(n, remote) = {} THEN n
        ELSE add_cmd(after_read(n, reply, remote.disk), reply)

\* What the client has after i replies.
Downloaded(n, remote, i) ==
    LET got[j \in 0 .. i] == IF j = 0 THEN n ELSE Fetched(got[j - 1], remote)
    IN  got[i]

\* client_main(): the matrix first, then one command after the other.
Download(c, d) ==
    /\ Connected(c, d)
    /\ ~need_initialize(core[c]) /\ ~need_initialize(core[d])
    /\ ~Told(c, d) /\ ~Told(d, c)
    /\ Knows(c, d) /\ Knows(d, c)
    /\ LET n == [core[c] EXCEPT !.nodes = Update(@, core[d].nodes)]
           all == Cardinality(core[d].messages)
       IN  \E i \in 0 .. all :
               /\ core' = [core EXCEPT ![c] = Downloaded(n, core[d], i)]
               /\ IF core'[c] = Downloaded(n, core[d], all) THEN UNCHANGED left
                  ELSE Spend("failures")
    /\ core' # core
    /\ UNCHANGED <<running, invites, packets, drawn>>

\* The other node says that this one is no member any more.
LearnOfRemoval(c, d) ==
    /\ Connected(c, d)
    /\ ~need_initialize(core[d])
    /\ Told(c, d)
    /\ core' = [core EXCEPT ![c] = del_self(@)]
    /\ UNCHANGED <<running, invites, packets, drawn, left>>

\* read_net_initializer() on c, write_net_initializer() on d: a UUID that d knows
\* already is drawn again.  d executes the command at once.  When the connection
\* breaks before its answer arrives, d has a member that c is not yet.
Initialize(c, d) ==
    /\ Connected(c, d)
    /\ need_initialize(core[c]) /\ ~need_initialize(core[d]) /\ Complete(core[d])
    /\ \E id \in Ids :
          /\ \/ id = core[c].my_id /\ id \notin Members(core[d]) /\ UNCHANGED drawn
             \/ core[c].my_id \in Members(core[d]) \cup {NoId} /\ Draw(id)
          /\ LET inviter == create_command(core[d], "addnode", id, FALSE)
                 joined == [Initialized(core[c], core[d], id) EXCEPT !.status = "work"]
             IN  \/ core' = [core EXCEPT ![c] = joined, ![d] = inviter] /\ UNCHANGED left
                 \/ core' = [core EXCEPT ![c].my_id = id, ![d] = inviter] /\ Spend("losses")
    /\ running' = [on |-> d, final |-> FALSE]
    /\ UNCHANGED <<invites, packets>>

\* Nothing is written when the file of a command is missing.
WritePacket(d) ==
    /\ AtRest /\ Up(d) /\ ~need_initialize(core[d])
    /\ \A m \in core[d].messages : ~Unsendable(core[d], m)
    /\ Spend("packets")
    /\ packets' = packets \cup {[from |-> d, nodes |-> core[d].nodes,
                                 messages |-> core[d].messages, disk |-> core[d].disk]}
    /\ UNCHANGED <<core, running, invites, drawn>>

\* Any number of times, at any time.  The first packet that names a computer which
\* has read an offline invite makes it a member.
ReadPacket(c, p) ==
    /\ AtRest /\ Up(c) /\ core[c].status # "uninitialized" /\ c # p.from
    /\ Spend("reads")
    /\ core[c].status = "part_init" => core[c].my_id \in DOMAIN p.nodes
    /\ LET n == [core[c] EXCEPT !.nodes = Update(@, p.nodes),
                               !.status = IF @ = "part_init" THEN "work" ELSE @]
       IN  core' = [core EXCEPT ![c] = add_cmd(after_read(n, p.messages, p.disk), p.messages)]
    /\ core' # core
    /\ UNCHANGED <<running, invites, packets, drawn>>

-----------------------------------------------------------------------------
FounderId(S, c) == CHOOSE i \in Ids : Rank(Ids, i) = Rank(S, c)

\* create_group() on one computer, and others that joined it long ago.
GroupInit ==
    /\ left \in Plans
    /\ drawn = {FounderId(left.founders, c) : c \in left.founders}
    /\ core = [c \in Computers |->
           IF c \in left.founders
           THEN [Blank EXCEPT !.status = "work", !.my_id = FounderId(left.founders, c),
                    !.valid_node = TRUE,
                    !.nodes = [i \in drawn |->
                        [row |-> [j \in drawn |-> 0], command_to_exec |-> 0]]]
           ELSE Blank]
    /\ running = NotRunning
    /\ invites = {}
    /\ packets = {}

Typed(c) ==
    \/ Command(c)
    \/ incm_addfile(c)
    \/ \E how \in {"delfile", "deldir"} : RemoveFile(c, how)
    \/ \E id \in Ids, force \in BOOLEAN : incm_delnode(c, id, force)
    \/ write_offline_invite(c)
    \/ \E f \in invites : read_offline_invite(c, f) \/ finalize_offline_invitation(c, f)
    \/ cancel_invite(c)
    \/ WritePacket(c)
    \/ \E p \in packets : ReadPacket(c, p)

Daemon(c) ==
    \/ PendingCommands(c)
    \/ ExecuteOne(c)
    \/ RemoveOldCommands(c)

Exchange(c, d) ==
    \/ Download(c, d)
    \/ LearnOfRemoval(c, d)
    \/ Initialize(c, d)

GroupNext ==
    \/ \E c \in Computers : Typed(c) \/ Daemon(c)
    \/ \E c, d \in Computers : Exchange(c, d)

GroupSpec == GroupInit /\ [][GroupNext]_gvars

-----------------------------------------------------------------------------
(* Properties                                                                 *)

Working(c) == core[c].status \in {"work", "inviter"}
Removed(c) == \E d \in Computers : core[c].my_id \in core[d].log
Peers == {c \in Computers : Working(c) /\ ~Removed(c)}
PeerIds == {core[c].my_id : c \in Peers}

\* Nothing is left to do: all that stay in the group have forgotten all commands,
\* and nobody that has a UUID has to join.
Silent == /\ AtRest
          /\ \A c \in Peers : core[c].messages = {}
          /\ \A c \in Computers : InGroup(c) => core[c].status # "uninitialized"

\* A command that one of two members knows and the other one lacks is still stored
\* somewhere, although every node decides by its own list of members when to forget
\* it: the new members, and those that leave, are waited for.
NeededIsKept ==
    AtRest => \A c, d \in {x \in Computers : Working(x)} :
        Knows(c, d) /\ Knows(d, c) => \A a \in Members(core[c]) \cap Members(core[d]) :
            \A k \in Row(core[c])[a] .. Row(core[d])[a] - 1 :
                \E e \in Computers : Up(e) /\ Stored(core[e], a, k)

\* When nothing is left to tell, the members of each node are the nodes that work:
\* nobody was lost on the way in, and nobody is left over; and all have received and
\* executed as many commands of each.
MembersAgree ==
    Silent => \A c \in Peers :
        /\ Members(core[c]) = PeerIds
        /\ \A d \in Peers, a \in PeerIds :
               /\ Row(core[c])[a] = Row(core[d])[a]
               /\ core[c].nodes[a].command_to_exec = core[d].nodes[a].command_to_exec

\* And all have executed the same commands of those that are still members, before
\* or after they joined.
CommandsExecuted ==
    Silent => \A c, d \in Peers : \A m \in core[c].state :
        m[1] \in PeerIds => m \in core[d].state

\* And the file is the same everywhere, or gone everywhere.
FilesAgree ==
    Silent => \A c, d \in Peers : /\ core[c].disk = core[d].disk
                                 /\ core[c].filenames = core[d].filenames

\* README.md: every command is delivered to every computer.  Those of a node that
\* was deleted without force, too.
LastCommandsDelivered ==
    Silent => \A c, d \in Peers : core[c].state = core[d].state
=============================================================================
