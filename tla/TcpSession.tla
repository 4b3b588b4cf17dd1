----------------------------- MODULE TcpSession ------------------------------
(* Two nodes talk over one connection (TCPsession_v1 in daemon.cpp): each runs *)
(* its program of module Transfers on the streams of module Streams, ends it   *)
(* when its last call returns or one of them throws, closes the stream that it *)
(* writes and reads the other one to its end.                                  *)
EXTENDS Streams, Transfers, FiniteSets

CONSTANT
    Plans           \* bound: what there is to transfer, and how many connections break,
                    \* answers are late and programs are told to stop

Sides == {"client", "server"}
Peer(s) == IF s = "client" THEN "server" ELSE "client"

Programs == [p \in Plans, s \in Sides |-> IF s = "client" THEN Client(p) ELSE Server(p)]

IsProgram(P) ==
    /\ Len(P) \in Nat \ {0} /\ P[1].do = "start"
    /\ \A k \in 1 .. Len(P) :
           /\ P[k].do \in Writes \cup Reads \cup {"mark"}
           /\ P[k].do = "write" => P[k].n \in Nat \ {0}
           /\ P[k].do = "raw" => Progress(P)[k - 1].read = 0

\* Each call that reads finds what it expects in the text of the other program, all that
\* was written before it has been flushed, and it does not need an answer that is only
\* given to what its own side writes later.
Understands(P, Q) ==
    LET mine == Progress(P)
        theirs == Progress(Q)
    IN  \A j \in {k \in 1 .. Len(P) : P[k].do \in Reads} :
            LET pos == mine[j - 1].read + 1 IN
            /\ pos <= Len(Whole(Q))
            /\ P[j].do = "read" => Whole(Q)[pos].kind = "value"
            /\ P[j].do = "check_hash" => Whole(Q)[pos] = Unit("hash", mine[j - 1].unchecked)
            /\ mine[j - 1].flushed
            /\ \A i \in 1 .. Len(Q) :
                   Q[i].do \in Reads =>
                       \/ pos <= Len(theirs[i - 1].text)
                       \/ theirs[i - 1].read < Len(mine[j - 1].text)

\* A new node works when it has read all that the other one writes, who then waits
\* for nothing and only has to announce it.
Welcomes(P, Q) ==
    \A j \in 1 .. Len(P) :
        P[j].do = "mark" /\ P[j].n = "work" =>
            /\ Progress(P)[j - 1].read = Len(Whole(Q))
            /\ \E k \in 1 .. Len(Q) : Q[k].do = "mark" /\ Q[k].n = "announced"
            /\ \A i \in 1 .. Len(Q) :
                   Progress(Q)[i - 1].text = Whole(Q) /\ Progress(Q)[i - 1].flushed =>
                       \A k \in i .. Len(Q) : Q[k].do = "mark"

CanTalk(P, Q) ==
    /\ IsProgram(P) /\ Understands(P, Q) /\ Welcomes(P, Q)
    /\ IsProgram(Q) /\ Understands(Q, P) /\ Welcomes(Q, P)

ASSUME ProgramsAssumption ==
    \A p \in Plans : CanTalk(Programs[p, "client"], Programs[p, "server"])

VARIABLES
    plan,
    at,             \* the call that each side is in
    out, in,        \* fcout and fcin
    phase,          \* of each side: it talks, drains the other stream, or has closed
    complete,       \* it has come to the end of its program
    damaged,        \* it has thrown "Damaged file", and not because the stream has ended
    marks,          \* what has happened to the node
    broken,         \* the connection is
    stopped,        \* the sides that were told to stop
    faults
svars == <<plan, at, out, in, phase, complete, damaged, marks, broken, stopped, faults>>

Program(s) == Programs[plan, s]
Running(s) == phase[s] = "talk" /\ at[s] <= Len(Program(s))
Now(s) == Program(s)[at[s]]
Calls(s, do) == Running(s) /\ Now(s).do = do
Return(s) == at' = [at EXCEPT ![s] = @ + 1]
There(s) == out[Peer(s)].sent

Init ==
    /\ plan \in Plans
    /\ at = [s \in Sides |-> 1]
    /\ out = [s \in Sides |-> Ostream(TRUE)]
    /\ in = [s \in Sides |-> Istream(0)]
    /\ phase = [s \in Sides |-> "talk"]
    /\ complete = [s \in Sides |-> FALSE]
    /\ damaged = [s \in Sides |-> FALSE]
    /\ marks = [s \in Sides |-> <<>>]
    /\ broken = FALSE
    /\ stopped = {}
    /\ faults = 0

-----------------------------------------------------------------------------
(* Writing                                                                     *)

Put(s, do, Result(_)) ==
    /\ Calls(s, do) /\ ~broken
    /\ \E o \in Result(out[s]) : out' = [out EXCEPT ![s] = o]
    /\ Return(s)
    /\ UNCHANGED <<plan, in, phase, complete, damaged, marks, broken, stopped, faults>>

PutStart(s) == Put(s, "start", LAMBDA o : {Start(o)})
PutValue(s) == Put(s, "write", LAMBDA o : Write(o, Now(s).n))
PutHash(s) == Put(s, "write_hash", WriteHash)
PutFlush(s) == Put(s, "flush_net", FlushNet)

MarkDone(s) ==
    /\ Calls(s, "mark")
    /\ marks' = [marks EXCEPT ![s] = Append(@, Now(s).n)]
    /\ Return(s)
    /\ UNCHANGED <<plan, out, in, phase, complete, damaged, broken, stopped, faults>>

-----------------------------------------------------------------------------
(* Reading                                                                     *)

GetRaw(s) ==
    /\ Calls(s, "raw")
    /\ \E i \in Raw(in[s], There(s)) : in' = [in EXCEPT ![s] = i]
    /\ Return(s)
    /\ UNCHANGED <<plan, out, phase, complete, damaged, marks, broken, stopped, faults>>

Get(s, do, Fine(_, _), Result(_)) ==
    /\ Calls(s, do)
    /\ \E i \in Filled(in[s], There(s)) :
           IF Fine(i, out[Peer(s)].text[i.got + 1])
           THEN /\ in' = [in EXCEPT ![s] = Result(i)]
                /\ Return(s)
                /\ UNCHANGED <<phase, damaged>>
           ELSE /\ damaged' = [damaged EXCEPT ![s] = out[Peer(s)].text[i.got + 1].kind # "end"]
                /\ phase' = [phase EXCEPT ![s] = "close"]
                /\ UNCHANGED <<in, at>>
    /\ UNCHANGED <<plan, out, complete, marks, broken, stopped, faults>>

GetValue(s) == Get(s, "read", LAMBDA i, u : u.kind = "value", Inflate)
GetHash(s) == Get(s, "check_hash", Fits, CheckHash)

\* A read that has nothing left to take
Waiting(s) ==
    LET nothing == in[s].end = There(s) /\ in[s].ptr = in[s].end
    IN  \/ Running(s) /\ Now(s).do = "raw" /\ nothing
        \/ Running(s) /\ Now(s).do \in {"read", "check_hash"} /\ nothing /\ in[s].got = in[s].ptr
        \/ phase[s] = "drain" /\ nothing /\ in[s].got = in[s].ptr

-----------------------------------------------------------------------------
(* The end                                                                     *)

\* Whatever was thrown, the destructor is called.
Throw(s) ==
    /\ phase' = [phase EXCEPT ![s] = IF @ = "talk" THEN "close" ELSE "closed"]
    /\ UNCHANGED <<plan, at, out, in, complete, damaged, marks>>

\* The other side has closed, or has not sent for five seconds because it waits, too.
NothingComes(s) ==
    /\ Waiting(s)
    /\ phase[Peer(s)] = "closed" \/ Waiting(Peer(s))
    /\ Throw(s)
    /\ UNCHANGED <<broken, stopped, faults>>

\* It is busy: nothing says that it answers within five seconds.
LateAnswer(s) ==
    /\ Waiting(s) /\ faults < plan.faults
    /\ faults' = faults + 1
    /\ Throw(s)
    /\ UNCHANGED <<broken, stopped>>

Break ==
    /\ faults < plan.faults
    /\ faults' = faults + 1
    /\ broken' = TRUE
    /\ UNCHANGED <<plan, at, out, in, phase, complete, damaged, marks, stopped>>

\* A slip: it looks at the connection also when it does not use it.
BrokenNoticed(s) ==
    /\ broken
    /\ Waiting(s) \/ Running(s)
    /\ Throw(s)
    /\ UNCHANGED <<broken, stopped, faults>>

Broken(s) ==
    /\ broken
    /\ Waiting(s) \/ (Running(s) /\ Now(s).do \in Writes)
    /\ Throw(s)
    /\ UNCHANGED <<broken, stopped, faults>>

\* SIGTERM or SIGHUP: reading and writing throw at once, in the destructor, too.
Stop(s) ==
    /\ faults < plan.faults /\ phase[s] # "closed"
    /\ faults' = faults + 1
    /\ phase' = [phase EXCEPT ![s] = "closed"]
    /\ stopped' = stopped \cup {s}
    /\ UNCHANGED <<plan, at, out, in, complete, damaged, marks, broken>>

ProgramEnds(s) ==
    /\ phase[s] = "talk" /\ at[s] > Len(Program(s))
    /\ complete' = [complete EXCEPT ![s] = TRUE]
    /\ phase' = [phase EXCEPT ![s] = "close"]
    /\ UNCHANGED <<plan, at, out, in, damaged, marks, broken, stopped, faults>>

\* A slip: what cannot be sent is tried again.
CloseOutRetrying(s) ==
    /\ phase[s] = "close" /\ ~broken
    /\ out' = [out EXCEPT ![s] = Close(@)]
    /\ phase' = [phase EXCEPT ![s] = "drain"]
    /\ UNCHANGED <<plan, at, in, complete, damaged, marks, broken, stopped, faults>>

CloseOut(s) ==
    /\ phase[s] = "close"
    /\ IF broken THEN UNCHANGED out ELSE out' = [out EXCEPT ![s] = Close(@)]
    /\ phase' = [phase EXCEPT ![s] = "drain"]
    /\ UNCHANGED <<plan, at, in, complete, damaged, marks, broken, stopped, faults>>

\* ICCstream::close(): what comes is decompressed and not looked at.
Drain(s) ==
    /\ phase[s] = "drain"
    /\ in[s].got < There(s)
    /\ in' = [in EXCEPT ![s] = Istream(There(s))]
    /\ phase' = IF out[Peer(s)].text[There(s)].kind = "end"
                THEN [phase EXCEPT ![s] = "closed"] ELSE phase
    /\ UNCHANGED <<plan, at, out, complete, damaged, marks, broken, stopped, faults>>

Step(s) ==
    \/ PutStart(s) \/ PutValue(s) \/ PutHash(s) \/ PutFlush(s) \/ MarkDone(s)
    \/ GetRaw(s) \/ GetValue(s) \/ GetHash(s)
    \/ NothingComes(s) \/ Broken(s)
    \/ ProgramEnds(s) \/ CloseOut(s) \/ Drain(s)

Next ==
    \/ \E s \in Sides : Step(s) \/ LateAnswer(s) \/ Stop(s)
    \/ Break

Spec == Init /\ [][Next]_svars

\* Both threads run, and a call that nobody answers ends after five seconds.
Fairness == \A s \in Sides : WF_svars(Step(s))
FairSpec == Spec /\ Fairness

-----------------------------------------------------------------------------
(* Properties                                                                  *)

TypeOK ==
    /\ plan \in Plans /\ faults \in 0 .. plan.faults
    /\ \A s \in Sides :
           /\ at[s] \in 1 .. Len(Program(s)) + 1
           /\ phase[s] \in {"talk", "close", "drain", "closed"}
           /\ out[s].sent <= out[s].emitted /\ out[s].emitted <= out[s].ready
           /\ out[s].ready <= Len(out[s].text)
           /\ in[s].start <= in[s].got /\ in[s].got <= in[s].ptr /\ in[s].ptr <= in[s].end
           /\ in[s].end <= There(s)

\* However the network and the buffers cut the streams, each side finds every hash
\* where it expects one, and it covers what was read.
NeverDamaged == \A s \in Sides : ~damaged[s]

\* If both wait for an answer of the other, zlib has kept back a part of what one of them has
\* flushed; there is no other reason for a session to hang.
StuckOnlyByZlib ==
    ~broken /\ (\A s \in Sides : phase[s] = "talk" /\ Waiting(s)) =>
        \E s \in Sides : out[s].emitted < Len(out[s].text)

\* Every session ends on both sides, whatever happens to the connection or one side.
SessionEnds == <>(\A s \in Sides : phase[s] = "closed")

\* A node that has got a UUID and works is welcomed by a command of the other node,
\* unless that one is stopped, also if the connection breaks in between.
Joiner == IF plan.joins = "client" THEN "client" ELSE "server"
Has(s, what) == \E k \in DOMAIN marks[s] : marks[s][k] = what
JoinerIsAnnounced ==
    Has(Joiner, "work") /\ phase[Peer(Joiner)] = "closed" =>
        Has(Peer(Joiner), "announced") \/ Peer(Joiner) \in stopped

\* ccstream.h: flush_net() drops all caches to the file.
FlushedIsSent ==
    \A s \in Sides :
        phase[s] = "talk" /\ at[s] > 1 /\ Program(s)[at[s] - 1].do = "flush_net"
            => out[s].sent = Len(out[s].text)
=============================================================================
