----------------------------- MODULE InviteFile ------------------------------
(* The file of an offline invite (core.cpp): the inviter writes the group's id *)
(* and a compressed stream; each computer that joins reads it to its end and   *)
(* writes its UUID behind it; the inviter reads all UUIDs there.  Nothing in   *)
(* the file says where the stream ends: a reader must stop exactly there,      *)
(* though it reads through two caches.                                         *)
EXTENDS Streams, Transfers, FiniteSets

CONSTANTS
    Groups,         \* what is in the initializer
    Joiners,        \* the computers that join, one after the other
    Nobody,
    MaxCrashes      \* bound: crashes of a computer before it has saved

ASSUME JoinersAssumption ==
    /\ IsFiniteSet(Joiners) /\ MaxCrashes \in Nat
    /\ Nobody \notin Joiners \cup {"writer", "finalizer"}
    /\ Joiners \cap {"writer", "finalizer"} = {}

VARIABLES
    group,
    user,           \* who uses the file: the inviter writes or reads, or a joiner
    step,           \* the call it is in; 0 when it has come to the trailer
    file,           \* the output stream, and then what is in the file
    reader,         \* the input stream
    saved,          \* the joiners that have saved their state
    welcomed,       \* those that the inviter has welcomed when it finalizes
    crashes
invitevars == <<group, user, step, file, reader, saved, welcomed, crashes>>
NotYet == [done |-> FALSE, members |-> {}, invited |-> {}]
Header == <<Unit("raw", 0)>>
Ids(units) == {units[k].since : k \in {j \in DOMAIN units : units[j].kind = "uuid"}}

Invite(g) ==
    [writer |-> write_offline_invite(g),
     finalizer |-> finalize_offline_invitation(g),
     joiner |-> Call("raw", 0) \o read_offline_invite(g)]
InvitePrograms == [g \in Groups |-> Invite(g)]

\* Who reads the file to the end of its program has read what the inviter has written,
\* without the header or with it, and not the end of the stream.
CanJoin(P) ==
    LET Reading(p, n) ==
            /\ Len(p) \in Nat
            /\ \A k \in 1 .. Len(p) : p[k].do \in Reads \cup {"skip"}
            /\ (\A k \in 1 .. Len(p) : p[k].do # "skip") => Progress(p)[Len(p)].read = n
    IN  /\ Len(P.writer) \in Nat
        /\ \A k \in 1 .. Len(P.writer) :
               /\ P.writer[k].do \in Writes
               /\ P.writer[k].do = "write" => P.writer[k].n \in Nat \ {0}
        /\ Reading(P.joiner, Len(Header) + Len(Whole(P.writer)))
        /\ Reading(P.finalizer, Len(Whole(P.writer)))

ASSUME GroupsAssumption == \A g \in Groups : CanJoin(InvitePrograms[g])

ProgramFor(u) == InvitePrograms[group][IF u \in Joiners THEN "joiner" ELSE u]

InviteInit ==
    /\ group \in Groups
    /\ user = "writer" /\ step = 1
    /\ file = [Ostream(FALSE) EXCEPT !.text = Header, !.ready = 1, !.emitted = 1]
    /\ reader = Istream(0)
    /\ saved = {}
    /\ welcomed = NotYet
    /\ crashes = 0

Doing(do) == /\ user # Nobody
             /\ step \in 1 .. Len(ProgramFor(user))
             /\ ProgramFor(user)[step].do = do
Ended == user # Nobody /\ step = Len(ProgramFor(user)) + 1

-----------------------------------------------------------------------------
(* write_offline_invite()                                                      *)

WriteCall ==
    /\ \/ Doing("start") /\ file' = Start(file)
       \/ Doing("write") /\ file' \in Write(file, ProgramFor(user)[step].n)
       \/ Doing("write_hash") /\ file' \in WriteHash(file)
       \/ Doing("flush_net") /\ file' \in FlushNet(file)
    /\ step' = step + 1
    /\ UNCHANGED <<group, user, reader, saved, welcomed, crashes>>

\* The destructors of the streams
WriteEnds ==
    /\ Ended /\ user = "writer"
    /\ file' = CloseFile(Close(file))
    /\ user' = Nobody
    /\ UNCHANGED <<group, step, reader, saved, welcomed, crashes>>

-----------------------------------------------------------------------------
(* read_offline_invite() and finalize_offline_invitation(), which leaves out   *)
(* the header                                                                  *)

Use(u) ==
    /\ user = Nobody
    /\ IF u = "finalizer" THEN ~welcomed.done ELSE u \notin saved
    /\ user' = u
    /\ step' = 1
    /\ reader' = Istream(IF u = "finalizer" THEN Len(Header) ELSE 0)
    /\ UNCHANGED <<group, file, saved, welcomed, crashes>>

ReadCall ==
    /\ \/ Doing("raw") /\ reader' \in Raw(reader, file.sent)
       \/ \E i \in Filled(reader, file.sent) :
            \/ Doing("read") /\ file.text[i.got + 1].kind = "value" /\ reader' = Inflate(i)
            \/ Doing("check_hash") /\ Fits(i, file.text[i.got + 1]) /\ reader' = CheckHash(i)
    /\ step' = step + 1
    /\ UNCHANGED <<group, user, file, saved, welcomed, crashes>>

\* ICCstream::close() reads on to the end of the stream, and goes back to it.
ReadEnds ==
    /\ Ended /\ user # "writer"
    /\ \E i \in Filled(reader, file.sent) : reader' = Rewind(Inflate(i))
    /\ step' = 0
    /\ UNCHANGED <<group, user, file, saved, welcomed, crashes>>

\* skip_file(): the rest of the stream is read, and then an exception is thrown.
SkipFile ==
    /\ Doing("skip")
    /\ user' = Nobody
    /\ UNCHANGED <<group, step, file, reader, saved, welcomed, crashes>>

AtTrailer == user # Nobody /\ user # "writer" /\ step = 0

\* What is behind the end is a trailer: with a nonce, the UUIDs, and a hash.
read_trailer_uuids == Ids(SubSeq(file.text, Tell(reader) + 1, Len(file.text)))

write_trailer_uuids(ids) ==
    <<Unit("raw", 0)>> \o [k \in 1 .. Cardinality(ids) |-> Unit("uuid", SetToSeq(ids)[k])]
    \o <<Unit("hash", Cardinality(ids))>>

\* A slip: the UUIDs that are there already are not written again.
AppendUuidAlone ==
    /\ AtTrailer /\ user # "finalizer"
    /\ LET text == SubSeq(file.text, 1, Tell(reader)) \o write_trailer_uuids({user})
       IN  file' = [file EXCEPT !.text = text, !.ready = Len(text), !.emitted = Len(text),
                                !.sent = Len(text)]

\* The trailer that is there is read, and a longer one is written over it.
AppendUuid ==
    /\ AtTrailer /\ user # "finalizer"
    /\ LET ids == read_trailer_uuids \cup {user}
           text == SubSeq(file.text, 1, Tell(reader)) \o write_trailer_uuids(ids)
       IN  file' = [file EXCEPT !.text = text, !.ready = Len(text), !.emitted = Len(text),
                                !.sent = Len(text)]

\* Core::save() follows when the program ends; or the program is killed before.
JoinGroup ==
    /\ AppendUuid
    /\ \/ saved' = saved \cup {user} /\ UNCHANGED crashes
       \/ crashes < MaxCrashes /\ crashes' = crashes + 1 /\ UNCHANGED saved
    /\ user' = Nobody
    /\ UNCHANGED <<group, step, reader, welcomed>>

Finalize ==
    /\ AtTrailer /\ user = "finalizer"
    /\ welcomed' = [done |-> TRUE, members |-> read_trailer_uuids, invited |-> saved]
    /\ user' = Nobody
    /\ UNCHANGED <<group, step, file, reader, saved, crashes>>

InviteNext ==
    \/ WriteCall \/ WriteEnds
    \/ \E u \in Joiners \cup {"finalizer"} : Use(u)
    \/ ReadCall \/ ReadEnds \/ SkipFile \/ JoinGroup \/ Finalize

InviteSpec == InviteInit /\ [][InviteNext]_invitevars

-----------------------------------------------------------------------------
(* Properties                                                                  *)

\* A computer that joined before the inviter reads the file is welcomed.
InvitedAreWelcomed == welcomed.invited \subseteq welcomed.members
=============================================================================
