------------------------------ MODULE Transfers ------------------------------
(* What is written to a stream and what is read from it, call by call: each    *)
(* function that writes something and the one that reads it.  A program is a   *)
(* sequence of calls; what it means for the node that a call was reached is a  *)
(* call of its own ("mark").  The state of a group is a record of sizes.       *)
EXTENDS Naturals, Sequences, SequencesExt

Call(do, n) == <<[do |-> do, n |-> n]>>
W(n) == Call("write", n)
Repeated(p, n) == FlattenSeq([k \in 1 .. n |-> p])
R(n) == Repeated(Call("read", 1), n)        \* value by value
WHash == Call("write_hash", 0)
Flush == Call("flush_net", 0)
RHash == Call("check_hash", 0)
Mark(what) == Call("mark", what)
ForEach(s, F(_)) == FlattenSeq([k \in DOMAIN s |-> F(s[k])])

\* The constructors of OCCstream and ICCstream: the UUID is part of the first hash.
OpenOut == Call("start", 0) \o W(1) \o Flush
OpenIn == Call("raw", 0) \o R(1)

write_json(n) == W(1) \o WHash \o W(n) \o WHash
read_json(n) == R(1) \o RHash \o R(n) \o RHash

\* A file is sent in blocks; the number of its blocks comes first.
write_file(blocks) == W(1) \o WHash \o Repeated(W(1) \o Flush, blocks) \o WHash
read_to_file(blocks) == R(1) \o RHash \o R(blocks) \o RHash

\* Matrix::write() and read(), write_vld() and read_vld(), for R members
WriteMatrix(size) == W(1) \o WHash \o W(size) \o WHash
ReadMatrix(size) == R(1) \o RHash \o R(size) \o RHash
write_vld(size) == WriteMatrix(size) \o W(1) \o WHash
read_vld(size) == ReadMatrix(size) \o R(1) \o RHash

write_messages(sizes) == W(1) \o WHash \o ForEach(sizes, write_json) \o WHash
read_messages(sizes) == R(1) \o RHash \o ForEach(sizes, read_json) \o RHash

\* The members, state_nodes, the state, the commands, the users, the names of the
\* files, and the files.
write_initializer_v1(g) ==
    W(1) \o write_vld(g.members) \o write_json(1) \o write_json(g.state)
    \o write_messages(g.messages) \o write_json(1) \o write_json(1)
    \o ForEach(g.files, write_file)

read_initializer_v1(g) ==
    R(1) \o read_vld(g.members) \o read_json(1) \o read_json(g.state)
    \o read_messages(g.messages) \o read_json(1) \o read_json(1)
    \o ForEach(g.files, read_to_file)

-----------------------------------------------------------------------------
(* A session over the network (daemon.cpp)                                     *)

\* The new node asks for a UUID until the other one does not know it.
write_net_initializer(g, tries) ==
    write_initializer_v1(g) \o Flush
    \o Repeated(R(1) \o RHash \o W(1) \o WHash \o Flush, tries) \o Mark("announced")
read_net_initializer(g, tries) ==
    read_initializer_v1(g)
    \o Repeated(W(1) \o WHash \o Flush \o R(1) \o RHash, tries) \o Mark("work")

xchg_bool == W(1) \o WHash \o Flush \o R(1) \o RHash

\* after_write() and after_read(): the file of a command; none has blocks = 0.
after_write(m) == IF m.blocks = 0 THEN <<>> ELSE write_file(m.blocks)
after_read(m) == IF m.blocks = 0 THEN <<>>
                 ELSE Mark("truncate") \o read_to_file(m.blocks) \o Mark("stored")

Requested(m) ==
    W(1) \o WHash \o Flush \o read_json(m.size) \o RHash \o after_read(m) \o Mark("add_cmd")
Served(m) == R(1) \o RHash \o write_json(m.size) \o WHash \o after_write(m) \o Flush

\* The last request is empty.
client_main(size, messages) ==
    ReadMatrix(size) \o ForEach(messages, Requested) \o W(1) \o WHash \o Flush
server_main(size, messages) ==
    WriteMatrix(size) \o Flush \o ForEach(messages, Served) \o R(1) \o RHash

\* client_act() and server_act(): what each does, if one of them is not initialized, or
\* with the commands that each round transfers.
Client(p) ==
    OpenOut \o OpenIn \o
    CASE p.joins = "client" -> read_net_initializer(p.group, p.tries)
      [] p.joins = "server" -> write_net_initializer(p.group, p.tries)
      [] p.joins = "nobody" ->
             xchg_bool \o client_main(p.group.members, p.rounds[1])
             \o server_main(p.group.members, p.rounds[2])
             \o client_main(p.group.members, p.rounds[3])
Server(p) ==
    OpenOut \o OpenIn \o
    CASE p.joins = "client" -> write_net_initializer(p.group, p.tries)
      [] p.joins = "server" -> read_net_initializer(p.group, p.tries)
      [] p.joins = "nobody" ->
             xchg_bool \o server_main(p.group.members, p.rounds[1])
             \o client_main(p.group.members, p.rounds[2])
             \o server_main(p.group.members, p.rounds[3])

-----------------------------------------------------------------------------
(* An offline invite (core.cpp): what is appended to the group's id, and what  *)
(* the inviter later reads to find the end of it.                              *)

write_offline_invite(g) == OpenOut \o W(1) \o write_initializer_v1(g)
read_offline_invite(g) == OpenIn \o R(1) \o read_initializer_v1(g)

\* skip_file() reads the file for ever.
skip_file(blocks) == R(1) \o RHash \o Call("skip", blocks) \o RHash
finalize_offline_invitation(g) ==
    OpenIn \o R(1) \o R(1) \o read_vld(g.members) \o read_json(1) \o read_json(g.state)
    \o read_messages(g.messages) \o read_json(1) \o read_json(1)
    \o ForEach(g.files, skip_file)
=============================================================================
