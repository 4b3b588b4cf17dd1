------------------------------- MODULE Streams -------------------------------
(* The streams that nodes talk through and that invite and packet files are    *)
(* made of (ccstream.cpp): what is written is compressed, encrypted and        *)
(* collected in a buffer above the file descriptor, and each of the three      *)
(* layers keeps back what it likes; what is read is fetched, decrypted and     *)
(* decompressed through a buffer each.  A hash follows wherever the code asks  *)
(* for one.  A unit of the stream is a value that is written by one call (a    *)
(* long text has several); the size of a buffer is the number of units in it.  *)
(* A stream is a record here, and what a call does is an operator on it.       *)
EXTENDS Naturals, Sequences, SequencesExt, FiniteSetsExt

CONSTANTS
    OutBuf,         \* what one call of deflate() returns at most
    OutCache,       \* Ostream::cache
    InCache,        \* Istream::cache
    ZCache          \* ICCstream::cache

ASSUME SizesAssumption ==
    OutBuf \in Nat \ {0} /\ OutCache \in Nat \ {0} /\ InCache \in Nat \ {0} /\ ZCache \in Nat \ {0}

-----------------------------------------------------------------------------
(* Output: the text; how much of it zlib has compressed, how much of that was *)
(* taken from it, how much is in the file; the values since the last hash.     *)

Ostream(net) == [text |-> <<>>, ready |-> 0, emitted |-> 0, sent |-> 0, since |-> 0,
                 net |-> net]

Unit(kind, since) == [kind |-> kind, since |-> since]

\* Ostream::flush_cache() whenever the cache is full and more is to come
Collect(o, emitted) ==
    [o EXCEPT !.emitted = emitted,
              !.sent = IF emitted - @ <= OutCache THEN @
                       ELSE @ + OutCache * ((emitted - @ - 1) \div OutCache)]

\* The OCstream underneath: a nonce that is not encrypted, and a UUID.
Start(o) == LET n == Len(o.text) + 1 IN
    [o EXCEPT !.text = Append(@, Unit("raw", 0)), !.ready = n, !.emitted = n,
              !.sent = IF o.net THEN n ELSE @]

\* OCCstream::write_nc(): what zlib had ready is taken from it.  It may have compressed
\* more, and of that leaves at most what did not fit into a full buffer.
Deflated(o, units) ==
    LET text == o.text \o units
        results == [ready : {o.ready, Len(text)}, emitted : {o.ready, o.ready + OutBuf, Len(text)}]
    IN  {[Collect(o, r.emitted) EXCEPT !.text = text, !.ready = r.ready] :
            r \in {x \in results : /\ x.emitted <= x.ready
                                  /\ x.emitted \in {x.ready, o.ready + OutBuf}}}

Write(o, n) == {[x EXCEPT !.since = @ + n] :
                   x \in Deflated(o, [k \in 1 .. n |-> Unit("value", 0)])}

\* A slip: the next hash does not cover the values before this one.
WriteHashForgetting(o) == {[x EXCEPT !.since = 0] : x \in Deflated(o, <<Unit("hash", 0)>>)}

WriteHash(o) == {[x EXCEPT !.since = 0] : x \in Deflated(o, <<Unit("hash", o.since)>>)}

\* A slip: the cache of the Ostream is not written to the descriptor.
FlushNetKeeping(o) ==
    IF ~o.net THEN {o}
    ELSE LET e == Min({Len(o.text), o.emitted + OutBuf})
         IN  {[Collect(o, e) EXCEPT !.ready = r] : r \in {e, Len(o.text)}}

\* OCCstream::flush_net(): zlib is called once.
FlushNet(o) ==
    IF ~o.net THEN {o}
    ELSE LET e == Min({Len(o.text), o.emitted + OutBuf})
         IN  {[o EXCEPT !.emitted = e, !.sent = e, !.ready = r] : r \in {e, Len(o.text)}}

\* OCCstream::close(): until zlib has nothing left.
Close(o) == LET n == Len(o.text) + 1 IN
    [Collect(o, n) EXCEPT !.text = Append(@, Unit("end", 0)), !.ready = n,
                          !.sent = IF o.net THEN n ELSE @]

\* The destructor of the Ostream.
CloseFile(o) == [o EXCEPT !.sent = o.emitted]

-----------------------------------------------------------------------------
(* Input: positions in the text.  The Istream's cache holds what follows       *)
(* start up to end, and ptr is what was read of it; ICCstream's cache holds    *)
(* what follows got up to ptr; the values since the last hash.                 *)

Istream(at) == [start |-> at, ptr |-> at, end |-> at, got |-> at, since |-> 0]

\* Istream::fillcache(): one value, or all that are there
Fetch(i, there) ==
    {[i EXCEPT !.start = i.ptr, !.end = e] :
        e \in IF i.end < there THEN {i.end + 1, Min({there, i.ptr + InCache})} ELSE {}}

\* ICCstream::fillcache()
Take(i) == [i EXCEPT !.ptr = Min({i.end, i.ptr + ZCache})]

Filled(i, there) ==
    IF i.got < i.ptr THEN {i}
    ELSE {Take(f) : f \in IF i.ptr < i.end THEN {i} ELSE Fetch(i, there)}

\* Istream::read() and ICstream::read() of a value that is not compressed.
Raw(i, there) ==
    {[f EXCEPT !.ptr = @ + 1, !.got = @ + 1] :
        f \in IF i.ptr < i.end THEN {i} ELSE Fetch(i, there)}

\* One value, or a hash that should fit the values that were read.
Inflate(i) == [i EXCEPT !.got = @ + 1, !.since = @ + 1]
CheckHash(i) == [i EXCEPT !.got = @ + 1, !.since = 0]
Fits(i, unit) == unit = Unit("hash", i.since)

\* The end of ICCstream::close(): the Istream goes back to where the compressed text
\* ends.
Rewind(i) == [i EXCEPT !.ptr = i.got]
Tell(i) == i.ptr

-----------------------------------------------------------------------------
(* Programs that write and read: a sequence of calls                           *)

\* What a program has written and read after its first k calls: the text, the values
\* since the last hash of it, whether all of it was flushed, how many units were read,
\* and the values since the last of them that was a hash.
Nothing == [text |-> <<>>, since |-> 0, flushed |-> TRUE, read |-> 0, unchecked |-> 0]
After(a, call) ==
    CASE call.do = "start" ->
             [a EXCEPT !.text = Append(@, Unit("raw", 0)), !.flushed = TRUE]
      [] call.do = "write" ->
             [a EXCEPT !.text = @ \o [k \in 1 .. call.n |-> Unit("value", 0)],
                       !.since = @ + call.n, !.flushed = FALSE]
      [] call.do = "write_hash" ->
             [a EXCEPT !.text = Append(@, Unit("hash", a.since)),
                       !.since = 0, !.flushed = FALSE]
      [] call.do = "flush_net" -> [a EXCEPT !.flushed = TRUE]
      [] call.do = "raw" -> [a EXCEPT !.read = @ + 1]
      [] call.do = "read" -> [a EXCEPT !.read = @ + 1, !.unchecked = @ + 1]
      [] call.do = "check_hash" -> [a EXCEPT !.read = @ + 1, !.unchecked = 0]
      [] OTHER -> a
Progress(P) ==
    LET after[k \in 0 .. Len(P)] == IF k = 0 THEN Nothing ELSE After(after[k - 1], P[k])
    IN  after
Whole(P) == Progress(P)[Len(P)].text

Writes == {"start", "write", "write_hash", "flush_net"}
Reads == {"raw", "read", "check_hash"}
=============================================================================
