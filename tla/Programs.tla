------------------------------ MODULE Programs ------------------------------
(* Several programs share the work directory of a node: the daemon, consoles   *)
(* ("distadm <command>") and the program that makes the node a member of       *)
(* another group (main.cpp, core.cpp, interactive.cpp, network.cpp).  Each     *)
(* loads the whole state and writes the whole state, without a lock; only the  *)
(* socket of the daemon tells the others that it has the state.  That a save   *)
(* takes several steps is the business of Storage.                             *)
EXTENDS Naturals, Sequences, Functions

CONSTANTS
    Consoles,       \* each gives one command, which has its name
    Daemons,        \* one after the other, or started by hand a second time
    None,
    MaxRejoins,     \* bound: how often the group is changed
    MaxReloads,     \* bound: SIGHUPs
    MaxCrashes      \* bound: programs that crash

VARIABLES
    disk,           \* the files "group-id" (key) and "node" (of which group, commands given here)
    mem,            \* what each program has loaded
    pc,             \* where it is
    socket,         \* who listens at the path; None if there is no such file
    serving,        \* the daemon a console is connected to
    joining,        \* where the program that changes the group is
    saved,          \* commands of the present group that have been in the file
    overlap,        \* two programs have worked on the state at the same time
    seen,           \* consoles: another one had the state since it was loaded
    torn,           \* the group has been changed by halves
    rejoins, reloads, crashes
vars == <<disk, mem, pc, socket, serving, joining, saved, overlap, seen, torn,
          rejoins, reloads, crashes>>
history == <<saved, overlap, seen>>
bounds == <<rejoins, reloads, crashes>>

Programs == Consoles \cup Daemons
Disjoint == Consoles \cap Daemons = {} /\ "join" \notin Programs
Empty == [key |-> 1, group |-> 1, commands |-> <<>>]

Init ==
    /\ disk = Empty
    /\ mem = [p \in Programs |-> Empty]
    /\ pc = [p \in Programs |-> "off"]
    /\ socket = None
    /\ serving = [c \in Consoles |-> None]
    /\ joining = "no"
    /\ saved = {} /\ overlap = FALSE /\ torn = FALSE
    /\ seen = [c \in Consoles |-> FALSE]
    /\ rejoins = 0 /\ reloads = 0 /\ crashes = 0

(* Who will write what it has loaded or made *)
Holds(p) == IF p \in Daemons THEN pc[p] # "off" ELSE pc[p] = "offline"
Holders == {p \in Programs : Holds(p)} \cup (IF joining = "no" THEN {} ELSE {"join"})

\* p begins to work on the state.
Begins(p, apart) ==
    /\ overlap' = (overlap \/ apart \/ Holders # {})
    /\ seen' = [c \in Consoles |-> c # p /\ (seen[c] \/ pc[c] = "deciding")]

-----------------------------------------------------------------------------
(* The file                                                                    *)

\* The group-id file is never written again.
save(p) ==
    /\ disk' = [disk EXCEPT !.group = mem[p].group, !.commands = mem[p].commands]
    /\ saved' = saved \cup Range(mem[p].commands)

\* A console is used once.
Ended(p) ==
    /\ pc' = [pc EXCEPT ![p] = IF p \in Consoles THEN "ended" ELSE "off"]
    /\ mem' = [mem EXCEPT ![p] = Empty]

create_command(p, c) == mem' = [mem EXCEPT ![p].commands = Append(@, c)]

-----------------------------------------------------------------------------
(* A console                                                                   *)

ConsoleLoads(c) ==
    /\ pc[c] = "off"
    /\ mem' = [mem EXCEPT ![c] = disk]
    /\ pc' = [pc EXCEPT ![c] = "deciding"]
    /\ seen' = [seen EXCEPT ![c] = Holders # {}]
    /\ UNCHANGED <<disk, socket, serving, joining, saved, overlap, torn, bounds>>

\* interactive(): the socket is tried after the state was loaded.
Online(c) ==
    /\ pc[c] = "deciding" /\ socket \in Daemons
    /\ pc' = [pc EXCEPT ![c] = "online"]
    /\ serving' = [serving EXCEPT ![c] = socket]
    /\ seen' = [seen EXCEPT ![c] = FALSE]
    /\ UNCHANGED <<disk, mem, socket, joining, saved, overlap, torn, bounds>>

Offline(c) ==
    /\ pc[c] = "deciding" /\ socket \notin Daemons
    /\ pc' = [pc EXCEPT ![c] = "offline"]
    /\ Begins(c, seen[c])
    /\ UNCHANGED <<disk, mem, socket, serving, joining, saved, torn, bounds>>

\* interactive_offline_exec(): the command, pending_commands(), save()
OfflineCommand(c) ==
    /\ pc[c] = "offline" /\ c \notin Range(mem[c].commands)
    /\ create_command(c, c)
    /\ disk' = [disk EXCEPT !.group = mem[c].group, !.commands = mem'[c].commands]
    /\ saved' = saved \cup Range(mem'[c].commands)
    /\ UNCHANGED <<pc, socket, serving, joining, overlap, seen, torn, bounds>>

\* "join-group" as a command: read_invite() writes the key; the rest is saved if
\* update_info() had news when the console began, else need_save is not set.  No
\* commands are accepted then.
JoinCommand(c) ==
    /\ pc[c] = "offline" /\ rejoins < MaxRejoins
    /\ rejoins' = rejoins + 1
    /\ pc' = [pc EXCEPT ![c] = "joined"]
    /\ LET new == [key |-> disk.key + 1, group |-> disk.key + 1, commands |-> <<>>]
       IN  /\ mem' = [mem EXCEPT ![c] = new]
           /\ \/ disk' = new /\ saved' = {} /\ UNCHANGED torn
              \/ disk' = [disk EXCEPT !.key = new.key] /\ torn' = TRUE /\ UNCHANGED saved
    /\ UNCHANGED <<socket, serving, joining, overlap, seen, reloads, crashes>>

\* interactive_online_exec(): the daemon executes it, if it still looks at the socket.
OnlineCommand(c) ==
    /\ pc[c] = "online" /\ serving[c] # None
    /\ LET d == serving[c]
       IN  /\ pc[d] = "poll" /\ c \notin Range(mem[d].commands)
           /\ create_command(d, c)
    /\ UNCHANGED <<disk, pc, socket, serving, joining, history, torn, bounds>>

\* A slip: the console saves what it has loaded, as the daemon does.
ConsoleEndsSaving(c) ==
    /\ pc[c] \in {"online", "offline", "joined"}
    /\ save(c)
    /\ Ended(c)
    /\ serving' = [serving EXCEPT ![c] = None]
    /\ UNCHANGED <<socket, joining, overlap, seen, torn, bounds>>

\* core.save() does nothing: need_save is not set.
ConsoleEnds(c) ==
    /\ pc[c] \in {"online", "offline", "joined"}
    /\ Ended(c)
    /\ serving' = [serving EXCEPT ![c] = None]
    /\ UNCHANGED <<disk, socket, joining, history, torn, bounds>>

-----------------------------------------------------------------------------
(* A daemon                                                                    *)

DaemonLoads(d) ==
    /\ pc[d] = "off"
    /\ mem' = [mem EXCEPT ![d] = disk]
    /\ pc' = [pc EXCEPT ![d] = "run"]
    /\ Begins(d, FALSE)
    /\ UNCHANGED <<disk, socket, serving, joining, saved, torn, bounds>>

\* UnixServerSocket: the file of a daemon that crashed, or runs, is removed.
Listen(d) ==
    /\ pc[d] = "run"
    /\ socket' = d
    /\ pc' = [pc EXCEPT ![d] = "helo"]
    /\ UNCHANGED <<disk, mem, serving, joining, history, torn, bounds>>

\* broadcast_helo(): save(true)
Helo(d) ==
    /\ pc[d] = "helo"
    /\ save(d)
    /\ pc' = [pc EXCEPT ![d] = "poll"]
    /\ UNCHANGED <<mem, socket, serving, joining, overlap, seen, torn, bounds>>

\* After a session, and forced with every broadcast
DaemonSaves(d) ==
    /\ pc[d] = "poll"
    /\ save(d)
    /\ UNCHANGED <<mem, pc, socket, serving, joining, overlap, seen, torn, bounds>>

\* The destructors: whatever is at the path goes, and the sessions of consoles end.
SocketClosed(d) ==
    /\ socket' = None
    /\ serving' = [c \in Consoles |-> IF serving[c] = d THEN None ELSE serving[c]]

\* A slip: the new sockets are there before the old ones go.
ReloadSwapped(d) ==
    /\ pc[d] = "poll" /\ reloads < MaxReloads
    /\ reloads' = reloads + 1
    /\ pc' = [pc EXCEPT ![d] = "helo"]
    /\ SocketClosed(d)
    /\ UNCHANGED <<disk, mem, joining, history, torn, rejoins, crashes>>

\* daemon_run() again, without load()
Reload(d) ==
    /\ pc[d] = "poll" /\ reloads < MaxReloads
    /\ reloads' = reloads + 1
    /\ pc' = [pc EXCEPT ![d] = "run"]
    /\ SocketClosed(d)
    /\ UNCHANGED <<disk, mem, joining, history, torn, rejoins, crashes>>

Leave(d) ==
    /\ pc[d] = "poll"
    /\ pc' = [pc EXCEPT ![d] = "bye"]
    /\ SocketClosed(d)
    /\ UNCHANGED <<disk, mem, joining, history, torn, bounds>>

\* broadcast_bye(): save(true)
Bye(d) ==
    /\ pc[d] = "bye"
    /\ save(d)
    /\ Ended(d)
    /\ UNCHANGED <<socket, serving, joining, overlap, seen, torn, bounds>>

-----------------------------------------------------------------------------
(* "distadm -I" and "distadm -J": new_group(), join_group()                    *)

NewKey ==
    /\ joining = "no" /\ rejoins < MaxRejoins
    /\ rejoins' = rejoins + 1
    /\ disk' = [disk EXCEPT !.key = @ + 1]
    /\ joining' = "key"
    /\ Begins("join", FALSE)
    /\ UNCHANGED <<mem, pc, socket, serving, saved, torn, reloads, crashes>>

\* save(true): nothing of the old group remains.
NewNode ==
    /\ joining = "key"
    /\ disk' = [disk EXCEPT !.group = disk.key, !.commands = <<>>]
    /\ saved' = {}
    /\ joining' = "restart"
    /\ UNCHANGED <<mem, pc, socket, serving, overlap, seen, torn, bounds>>

\* "systemctl restart distadm": it returns when the old daemon, which polls, has ended.
Restarted ==
    /\ joining = "restart"
    /\ \A d \in Daemons : pc[d] = "off"
    /\ joining' = "no"
    /\ UNCHANGED <<disk, mem, pc, socket, serving, history, torn, bounds>>

-----------------------------------------------------------------------------
Crash(p) ==
    /\ crashes < MaxCrashes
    /\ crashes' = crashes + 1
    /\ pc[p] \notin {"off", "ended"}
    /\ Ended(p)
    /\ socket' = IF socket = p THEN "stale" ELSE socket
    /\ serving' = [c \in Consoles |-> IF p \in {c, serving[c]} THEN None ELSE serving[c]]
    /\ UNCHANGED <<disk, joining, history, torn, rejoins, reloads>>

JoinCrashes ==
    /\ crashes < MaxCrashes
    /\ crashes' = crashes + 1
    /\ joining = "key"
    /\ joining' = "no"
    /\ torn' = TRUE
    /\ UNCHANGED <<disk, mem, pc, socket, serving, history, rejoins, reloads>>

Console(c) ==
    ConsoleLoads(c) \/ Online(c) \/ Offline(c) \/ OfflineCommand(c)
    \/ JoinCommand(c) \/ OnlineCommand(c) \/ ConsoleEnds(c)

Daemon(d) ==
    DaemonLoads(d) \/ Listen(d) \/ Helo(d) \/ DaemonSaves(d) \/ Reload(d) \/ Leave(d) \/ Bye(d)

Next ==
    \/ \E c \in Consoles : Console(c)
    \/ \E d \in Daemons : Daemon(d)
    \/ NewKey \/ NewNode \/ Restarted
    \/ \E p \in Programs : Crash(p)
    \/ JoinCrashes

Spec == Init /\ [][Next]_vars

-----------------------------------------------------------------------------
State == [key : Nat, group : Nat, commands : Seq(Consoles)]

TypeOK ==
    /\ disk \in State
    /\ mem \in [Programs -> State]
    /\ pc \in [Programs -> {"off", "deciding", "online", "offline", "joined", "ended",
                            "run", "helo", "poll", "bye"}]
    /\ serving \in [Consoles -> Daemons \cup {None}]
    /\ joining \in {"no", "key", "restart"}
    /\ saved \subseteq Consoles
    /\ overlap \in BOOLEAN /\ torn \in BOOLEAN
    /\ seen \in [Consoles -> BOOLEAN]

(* At most one works on the state.                                             *)
Alone ==
    /\ \A p, q \in Programs : Holds(p) /\ Holds(q) => p = q
    /\ joining # "no" => \A p \in Programs : ~Holds(p)

(* Who works on the state has all of it, and so has a console that will do so. *)
HasAll(p) == mem[p].group = disk.key /\ saved \subseteq Range(mem[p].commands)

HoldersHaveAll ==
    /\ joining # "key" => disk.group = disk.key
    /\ saved \subseteq Range(disk.commands)
    /\ \A p \in Programs : Holds(p) => HasAll(p)

UnseenHaveAll ==
    \A c \in Consoles : pc[c] = "deciding" /\ ~seen[c] =>
        mem[c] = disk /\ joining = "no" /\ \A p \in Programs : ~Holds(p)

(* What was saved once stays in the file, as long as no two programs work on   *)
(* the state at the same time - a console that is connected to the daemon may  *)
(* be there all the time, with the old state in its memory -, and the group is *)
(* not changed by halves.                                                      *)
SavedStaysSaved == ~overlap /\ ~torn => saved \subseteq Range(disk.commands)

(* A console that starts while the daemon polls is connected to it, whatever   *)
(* crashed before; so it does not begin to work on the state by itself.        *)
DaemonIsFound ==
    ~overlap => \A d \in Daemons : pc[d] \in {"helo", "poll"} => socket = d

(* The files belong together: the node is in the group whose key it has, if    *)
(* "distadm -I" or "distadm -J" is not stopped half-way.                       *)
GroupIsWhole == ~overlap /\ ~torn /\ joining # "key" => disk.group = disk.key

(* The inductive invariant: the three above, and what they rest on.            *)
ApartInv == ~overlap => Alone /\ UnseenHaveAll
WholeInv == ~overlap /\ ~torn => HoldersHaveAll
ProgramsInv == TypeOK /\ DaemonIsFound /\ ApartInv /\ WholeInv

(* What the manual says of "join-group": the node has the state of the invite. *)
JoinTakesEffect == joining = "no" => disk.group = disk.key
=============================================================================
