-------------------------------- MODULE Users --------------------------------
(* Users of the group on one node: the list of them (usernames.cpp), the       *)
(* commands "adduser" and "deluser" (commands.cpp, incm.cpp, cmd_local.cpp),   *)
(* and the accounts and the password file of the system that they change.  The *)
(* program may crash in the middle; as a command is executed and marked before *)
(* the state is saved, it is executed again then.                              *)
EXTENDS Naturals, Sequences, FiniteSets, SequencesExt

CONSTANTS
    Nicks,
    LongNicks,      \* more than 15 characters
    System,         \* accounts that were there before
    Passwords,
    NoPassword,     \* an account without one
    NoLine,
    MaxCommands,    \* bound: commands
    MaxLines,       \* bound: lines in the list
    MaxRestarts     \* bound: crashes

ASSUME SystemAssumption == System \subseteq Nicks
ASSUME LineAssumption   == NoLine \notin Passwords \cup {NoPassword}

VARIABLES
    users,          \* Usernames::users: lines, each of a nick and its password
    stored,         \* the file "node": users, and how many commands are executed
    commands,       \* adduser and deluser of this node and others, in order of execution
    executed,
    accounts,       \* of the system
    untouched,      \* those of them that were there before and never deleted
    shadow, backup, \* /etc/shadow and /etc/shadow-, or Gone
    pc,             \* where updpwd() is
    restarts,
    torn            \* "torn": a crash left a part of /etc/shadow, "lost": of both files
usersvars == <<users, stored, commands, executed, accounts, untouched, shadow, backup, pc, restarts, torn>>

Gone == [n \in {} |-> NoLine]
line(file, n) == IF n \in DOMAIN file THEN file[n] ELSE NoLine
Line(n, pw) == [nick |-> n, pw |-> pw]

UsersInit ==
    /\ users = <<>> /\ stored = [users |-> <<>>, executed |-> 0]
    /\ commands = <<>> /\ executed = 0
    /\ accounts = System /\ untouched = System
    /\ shadow = [n \in Nicks |-> IF n \in System THEN NoPassword ELSE NoLine]
    /\ backup = Gone
    /\ pc = "idle" /\ restarts = 0 /\ torn = "no"

-----------------------------------------------------------------------------
(* The list                                                                    *)

\* The first line of a nick
positions(n, list) == {i \in DOMAIN list : list[i].nick = n}
first(n, list) == CHOOSE i \in positions(n, list) : \A j \in positions(n, list) : i <= j
find(n, list) == IF positions(n, list) = {} THEN NoLine ELSE list[first(n, list)].pw

\* The nick to look for is a string_view into a string that is destroyed; up to 15
\* characters lie in the string itself, where builds with gcc still find them.
Remembered(n) == n \notin LongNicks

\* A slip: a line that is there already stays as it is.
AddNsOnce(n, pw) ==
    IF Remembered(n) /\ positions(n, users) # {} THEN users ELSE Append(users, Line(n, pw))

add_ns(n, pw) ==
    IF Remembered(n) /\ positions(n, users) # {}
    THEN [users EXCEPT ![first(n, users)] = Line(n, pw)]
    ELSE Append(users, Line(n, pw))

erase(n) == IF positions(n, users) = {} THEN users ELSE RemoveAt(users, first(n, users))

-----------------------------------------------------------------------------
(* The system: adduser without a password, deluser                             *)

Appears(n, pw) ==
    IF n \in accounts THEN UNCHANGED <<accounts, untouched, shadow>>
    ELSE /\ accounts' = accounts \cup {n}
         /\ UNCHANGED untouched
         /\ shadow' = IF shadow = Gone THEN Gone ELSE [shadow EXCEPT ![n] = pw]
Disappears(n) ==
    /\ accounts' = accounts \ {n}
    /\ untouched' = untouched \ {n}
    /\ shadow' = IF shadow = Gone THEN Gone ELSE [shadow EXCEPT ![n] = NoLine]

-----------------------------------------------------------------------------
(* Commands of users                                                           *)

\* On this node: "adduser" runs interactively, and what fails is undone - also when
\* the account was there.  Then the daemon looks for the line of the account.
LocalAdduser(n, pw) ==
    /\ pc = "idle" /\ Len(commands) < MaxCommands
    /\ IF n \in accounts THEN Disappears(n) /\ UNCHANGED commands
       ELSE /\ Appears(n, pw)
            /\ commands' = IF shadow = Gone THEN commands
                           ELSE Append(commands, [op |-> "adduser", nick |-> n, pw |-> pw])
    /\ UNCHANGED <<users, stored, executed, backup, pc, restarts, torn>>

\* On another one, or "deluser" anywhere
Arrive(op, n, pw) ==
    /\ pc = "idle" /\ Len(commands) < MaxCommands
    /\ commands' = Append(commands, [op |-> op, nick |-> n, pw |-> pw])
    /\ UNCHANGED <<users, stored, executed, accounts, untouched, shadow, backup, pc, restarts, torn>>

\* An invitation to another group (read_online_invite(), saved at once): this group's
\* users go.  That group's come later, with the state of the member that initializes
\* the node: replace() adds each to the empty list, as "adduser" does.
clear ==
    /\ pc = "idle" /\ executed = Len(commands) /\ users # <<>>
    /\ LET nicks == {users[i].nick : i \in DOMAIN users}
       IN  /\ accounts' = accounts \ nicks
           /\ untouched' = untouched \ nicks
           /\ shadow' = IF shadow = Gone THEN Gone
                        ELSE [n \in Nicks |-> IF n \in nicks THEN NoLine ELSE shadow[n]]
    /\ users' = <<>> /\ commands' = <<>> /\ executed' = 0
    /\ stored' = [users |-> <<>>, executed |-> 0]
    /\ UNCHANGED <<backup, pc, restarts, torn>>

-----------------------------------------------------------------------------
(* Execution                                                                   *)

Next1 == commands[executed + 1]
HasCommand(op) == pc = "idle" /\ executed < Len(commands) /\ Next1.op = op

add ==
    /\ HasCommand("adduser") /\ Len(users) < MaxLines
    /\ users' = add_ns(Next1.nick, Next1.pw)
    /\ IF Len(users') > Len(users) THEN Appears(Next1.nick, NoPassword)
                                   ELSE UNCHANGED <<accounts, untouched, shadow>>
    /\ pc' = "remove"
    /\ UNCHANGED <<stored, commands, executed, backup, restarts, torn>>

\* Whether the user is in the list or not
del ==
    /\ HasCommand("deluser")
    /\ users' = erase(Next1.nick)
    /\ Disappears(Next1.nick)
    /\ pc' = "remove"
    /\ UNCHANGED <<stored, commands, executed, backup, restarts, torn>>

\* updpwd(), step by step; the rename throws if there is nothing to rename, and the
\* command stays to be executed.
RemoveBackup ==
    /\ pc = "remove"
    /\ backup' = Gone
    /\ torn' = IF torn = "torn" THEN "lost" ELSE torn
    /\ pc' = "rename"
    /\ UNCHANGED <<users, stored, commands, executed, accounts, untouched, shadow, restarts>>

Rename ==
    /\ pc = "rename"
    /\ IF shadow = Gone THEN pc' = "idle" /\ UNCHANGED <<shadow, backup>>
       ELSE /\ backup' = shadow /\ shadow' = Gone
            /\ pc' = "write"
    /\ UNCHANGED <<users, stored, commands, executed, accounts, untouched, restarts, torn>>

\* A slip: the lines of other accounts are not copied.
WrittenOwn == [n \in Nicks |-> IF backup[n] = NoLine THEN NoLine ELSE find(n, users)]

Written == [n \in Nicks |-> IF backup[n] = NoLine \/ find(n, users) = NoLine
                            THEN backup[n] ELSE find(n, users)]

Write ==
    /\ pc = "write"
    /\ shadow' = Written
    /\ executed' = executed + 1
    /\ pc' = "idle"
    /\ UNCHANGED <<users, stored, commands, accounts, untouched, backup, restarts, torn>>

save ==
    /\ pc = "idle" /\ executed # stored.executed
    /\ stored' = [users |-> users, executed |-> executed]
    /\ UNCHANGED <<users, commands, executed, accounts, untouched, shadow, backup, pc, restarts, torn>>

\* The file is created, and written line by line.
Crash ==
    /\ restarts < MaxRestarts
    /\ restarts' = restarts + 1
    /\ users' = stored.users
    /\ executed' = stored.executed
    /\ pc' = "idle"
    /\ IF pc = "write"
       THEN /\ torn' = IF torn = "lost" THEN "lost" ELSE "torn"
            /\ \E some \in SUBSET Nicks :
                   shadow' \in {Gone, [n \in Nicks |-> IF n \in some THEN Written[n] ELSE NoLine]}
       ELSE UNCHANGED <<shadow, torn>>
    /\ UNCHANGED <<stored, commands, accounts, untouched, backup>>

UsersNext ==
    \/ \E n \in Nicks : \/ \E pw \in Passwords : LocalAdduser(n, pw) \/ Arrive("adduser", n, pw)
                        \/ Arrive("deluser", n, NoPassword)
    \/ clear \/ add \/ del \/ RemoveBackup \/ Rename \/ Write \/ save
    \/ Crash

UsersSpec == UsersInit /\ [][UsersNext]_usersvars

-----------------------------------------------------------------------------
(* Properties                                                                  *)

\* Of the first k commands, i is the last one that concerns a nick.
LastAbout(n, i, k) ==
    commands[i].nick = n /\ \A j \in i + 1 .. k : commands[j].nick # n

\* When all is executed, whatever crash made the node execute something again, an account
\* has the password of the last "adduser" for it - if /etc/shadow was never torn, and the
\* nick is a short one.  A password that "adduser" on this node has just replaced counts
\* from when its command is executed.
LastCommandCounts ==
    pc = "idle" /\ torn = "no" /\ executed = Len(commands) =>
        \A n \in accounts \ LongNicks, i \in DOMAIN commands :
            commands[i].op = "adduser" /\ LastAbout(n, i, Len(commands))
                => shadow[n] = commands[i].pw

\* The line of an account that was there before and that nobody has deleted is in one of
\* the two files at any time, until a crash has torn the first and the next command
\* removes the second.
OthersKeepTheirLines ==
    torn # "lost" => \A n \in untouched : line(shadow, n) # NoLine \/ line(backup, n) # NoLine

\* What a comment says of add(): it adds a line, or updates the line with the same nick.
EachNickOnce == \A i, j \in DOMAIN users : users[i].nick = users[j].nick => i = j

\* What the manual says of "deluser": only users added by "adduser" can be deleted.
OnlyAddedAreDeleted == untouched = System

\* The inductive invariant of OthersKeepTheirLines: the file that has these lines is
\* /etc/shadow, but while it is written the copy, and the copy after a crash then, until
\* updpwd() removes it.
Holds(file) == \A n \in untouched : line(file, n) # NoLine

FilesTyped ==
    /\ untouched \subseteq accounts /\ untouched \subseteq Nicks
    /\ pc \in {"idle", "remove", "rename", "write"}
    /\ torn \in {"no", "torn", "lost"}
    /\ shadow = Gone \/ DOMAIN shadow = Nicks
    /\ backup = Gone \/ DOMAIN backup = Nicks

LinesInv ==
    /\ FilesTyped
    /\ pc = "write" => DOMAIN backup = Nicks
    /\ torn = "no" => Holds(IF pc = "write" THEN backup ELSE shadow)
    /\ torn = "torn" => pc \in {"idle", "remove"} /\ Holds(backup)

\* The inductive invariant of LastCommandCounts.  While nothing is torn, users is what the
\* executed commands make of it, and so is what is stored; every account has a line; and
\* an account of which no command is to be executed has the password of its last one.
UserLine == [nick : Nicks, pw : Passwords]
UserCommand == [op : {"adduser"}, nick : Nicks, pw : Passwords]
                   \cup [op : {"deluser"}, nick : Nicks, pw : {NoPassword}]

UsersTypeOK ==
    /\ users \in Seq(UserLine) /\ commands \in Seq(UserCommand)
    /\ executed \in 0 .. Len(commands)
    /\ stored \in [users : Seq(UserLine), executed : 0 .. executed]
    /\ accounts \subseteq Nicks
    /\ pc \in {"idle", "remove", "rename", "write"}
    /\ pc # "idle" => executed < Len(commands)

Counted(list, k) ==
    \A n \in Nicks \ LongNicks, i \in 1 .. k :
        commands[i].op = "adduser" /\ LastAbout(n, i, k) => find(n, list) = commands[i].pw

InForce == IF pc = "write" THEN backup ELSE shadow

AccountsCounted ==
    \A n \in accounts \ LongNicks, i \in 1 .. executed :
        commands[i].op = "adduser" /\ LastAbout(n, i, Len(commands))
            => InForce[n] = commands[i].pw

CountsInv ==
    /\ UsersTypeOK
    /\ torn = "no" =>
           /\ Counted(users, IF pc = "idle" THEN executed ELSE executed + 1)
           /\ Counted(stored.users, stored.executed)
           /\ DOMAIN InForce = Nicks /\ \A n \in accounts : InForce[n] # NoLine
           /\ AccountsCounted
=============================================================================
