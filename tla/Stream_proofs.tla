--------------------------- MODULE Stream_proofs ---------------------------
(***************************************************************************)
(* Proofs about TcpSession and InviteFile, for buffers of any size: about  *)
(* any two programs that understand each other, and about any programs     *)
(* that write an invite file and read it.                                  *)
(***************************************************************************)
EXTENDS TcpSession, InviteFile, SequenceTheorems, FiniteSetTheorems, WellFoundedInduction, TLAPS

-----------------------------------------------------------------------------
(* Progress(): the recursive function is defined, and what it counts          *)

(* A set of natural numbers has a smallest one.                             *)
LEMMA SmallestLemma ==
  ASSUME NEW S \in SUBSET Nat, S # {}
  PROVE  \E n \in S : \A k \in S : n <= k
<1>1. OpToRel(<, Nat) = {ss \in Nat \X Nat : ss[1] < ss[2]}
  BY Zenon DEF OpToRel
<1>2. PICK n \in S : \A k \in S : ~(<<k, n>> \in {ss \in Nat \X Nat : ss[1] < ss[2]})
  BY <1>1, NatLessThanWellFounded, WFMin
<1>3. ASSUME NEW k \in S PROVE n <= k
  <2>1. <<k, n>> \in Nat \X Nat => ~(<<k, n>>[1] < <<k, n>>[2])
    BY <1>2
  <2>. QED BY <2>1
<1>. QED BY <1>3

(* f is what the first n calls of P amount to. *)
Counts(f, P, n) ==
  /\ f = [k \in 0 .. n |-> f[k]]
  /\ f[0] = Nothing
  /\ \A k \in 1 .. n : f[k] = After(f[k - 1], P[k])

(* There is such a function for any number of calls. *)
LEMMA CountsExists ==
  ASSUME NEW P, NEW n \in Nat
  PROVE  \E f : Counts(f, P, n)
<1>. DEFINE Bad == {m \in Nat : ~ \E f : Counts(f, P, m)}
<1>. SUFFICES ASSUME Bad # {} PROVE FALSE
  OBVIOUS
<1>1. PICK m \in Nat : m \in Bad /\ \A k \in Bad : m <= k
  BY SmallestLemma
<1>2. CASE m = 0
  <2>. DEFINE f == [k \in 0 .. 0 |-> Nothing]
  <2>1. Counts(f, P, 0)
    BY DEF Counts
  <2>. HIDE DEF f
  <2>. QED BY <2>1, <1>1, <1>2
<1>3. CASE m # 0
  <2>1. m - 1 \in Nat /\ m - 1 \notin Bad
    BY <1>1, <1>3
  <2>2. PICK f : Counts(f, P, m - 1)
    BY <2>1
  <2>. DEFINE g == [k \in 0 .. m |-> IF k = m THEN After(f[m - 1], P[m]) ELSE f[k]]
  <2>. HIDE DEF Bad
  <2>3. g[0] = Nothing
    BY <2>2, <2>1, <1>3 DEF Counts
  <2>4. ASSUME NEW k \in 1 .. m PROVE g[k] = After(g[k - 1], P[k])
    <3>1. k - 1 \in 0 .. m /\ k - 1 # m /\ g[k - 1] = f[k - 1]
      BY <2>1
    <3>2. CASE k = m
      BY <3>1, <3>2, <2>1
    <3>3. CASE k # m
      <4>1. k \in 1 .. m - 1
        BY <3>3, <2>1
      <4>2. f[k] = After(f[k - 1], P[k])
        BY <4>1, <2>2 DEF Counts
      <4>. QED BY <4>1, <4>2, <3>1, <3>3, <2>1
    <3>. QED BY <3>2, <3>3
  <2>5. g = [k \in 0 .. m |-> g[k]]
    OBVIOUS
  <2>. HIDE DEF g
  <2>6. Counts(g, P, m)
    BY <2>3, <2>4, <2>5 DEF Counts
  <2>. QED BY <2>6, <1>1 DEF Bad
<1>. QED BY <1>2, <1>3

LEMMA ProgressLemma ==
  ASSUME NEW P, Len(P) \in Nat
  PROVE  /\ Progress(P)[0] = Nothing
         /\ \A k \in 1 .. Len(P) : Progress(P)[k] = After(Progress(P)[k - 1], P[k])
<1>1. PICK f : Counts(f, P, Len(P))
  BY CountsExists
<1>2. f = [k \in 0 .. Len(P) |-> IF k = 0 THEN Nothing ELSE After(f[k - 1], P[k])]
  <2>1. \A k \in 0 .. Len(P) : f[k] = IF k = 0 THEN Nothing ELSE After(f[k - 1], P[k])
    BY <1>1 DEF Counts
  <2>2. f = [k \in 0 .. Len(P) |-> f[k]]
    BY <1>1 DEF Counts
  <2>. QED BY <2>1, <2>2, Zenon
<1>. DEFINE G(a) == [k \in 0 .. Len(P) |-> IF k = 0 THEN Nothing ELSE After(a[k - 1], P[k])]
<1>3. Progress(P) = CHOOSE a : a = G(a)
  BY Zenon DEF Progress
<1>4. Progress(P) = G(Progress(P))
  BY <1>2, <1>3, Zenon
<1>5. 0 \in 0 .. Len(P) /\ \A k \in 1 .. Len(P) : k \in 0 .. Len(P) /\ k # 0
  OBVIOUS
<1>. QED BY <1>4, <1>5, Zenon

Units == [kind : {"raw", "value", "hash", "end"}, since : Nat]
Tallies ==
  [text : Seq(Units), since : Nat, flushed : BOOLEAN, read : Nat, unchecked : Nat]
Prefix(t, u) == Len(t) <= Len(u) /\ \A k \in 1 .. Len(t) : t[k] = u[k]
IsCall(c) ==
  c.do \in Writes \cup Reads \cup {"mark", "skip"} /\ (c.do = "write" => c.n \in Nat \ {0})

LEMMA PrefixTransitive ==
  ASSUME NEW t \in Seq(Units), NEW u \in Seq(Units), NEW v \in Seq(Units),
         Prefix(t, u), Prefix(u, v)
  PROVE  Prefix(t, v)
<1>1. Len(t) \in Nat /\ Len(u) \in Nat /\ Len(v) \in Nat
  OBVIOUS
<1>2. ASSUME NEW k \in 1 .. Len(t) PROVE t[k] = v[k]
  BY <1>1 DEF Prefix
<1>. QED BY <1>1, <1>2 DEF Prefix

(* Each call counts what it writes or reads, and takes nothing back.        *)
LEMMA AfterLemma ==
  ASSUME NEW a \in Tallies, NEW c, IsCall(c)
  PROVE  After(a, c) \in Tallies /\ Prefix(a.text, After(a, c).text)
<1>. USE DEF Tallies
<1>0. Unit("raw", 0) \in Units /\ Unit("value", 0) \in Units /\ Unit("hash", a.since) \in Units
  BY DEF Unit, Units
<1>1. Prefix(a.text, a.text)
  BY DEF Prefix
<1>2. CASE c.do = "start"
  <2>1. After(a, c) = [text |-> Append(a.text, Unit("raw", 0)), since |-> a.since, flushed |-> TRUE,
                       read |-> a.read, unchecked |-> a.unchecked]
    BY <1>2 DEF After
  <2>2. Append(a.text, Unit("raw", 0)) \in Seq(Units) /\ Prefix(a.text, Append(a.text, Unit("raw", 0)))
    BY <1>0 DEF Prefix
  <2>. QED BY <2>1, <2>2
<1>3. CASE c.do = "write"
  <2>. DEFINE units == [k \in 1 .. c.n |-> Unit("value", 0)]
  <2>1. c.n \in Nat
    BY <1>3 DEF IsCall
  <2>2. units \in Seq(Units)
    BY <2>1, <1>0
  <2>3. After(a, c) = [text |-> a.text \o units, since |-> a.since + c.n, flushed |-> FALSE,
                       read |-> a.read, unchecked |-> a.unchecked]
    BY <1>3 DEF After
  <2>. HIDE DEF units
  <2>4. a.text \o units \in Seq(Units) /\ Prefix(a.text, a.text \o units)
    BY <2>2 DEF Prefix
  <2>. QED BY <2>1, <2>3, <2>4
<1>4. CASE c.do = "write_hash"
  <2>1. After(a, c) = [text |-> Append(a.text, Unit("hash", a.since)), since |-> 0, flushed |-> FALSE,
                       read |-> a.read, unchecked |-> a.unchecked]
    BY <1>4 DEF After
  <2>2. Append(a.text, Unit("hash", a.since)) \in Seq(Units) /\ Prefix(a.text, Append(a.text, Unit("hash", a.since)))
    BY <1>0 DEF Prefix
  <2>. QED BY <2>1, <2>2
<1>5. CASE c.do = "flush_net"
  <2>1. After(a, c) = [text |-> a.text, since |-> a.since, flushed |-> TRUE,
                       read |-> a.read, unchecked |-> a.unchecked]
    BY <1>5 DEF After
  <2>. QED BY <2>1, <1>1
<1>6. CASE c.do = "raw"
  <2>1. After(a, c) = [text |-> a.text, since |-> a.since, flushed |-> a.flushed,
                       read |-> a.read + 1, unchecked |-> a.unchecked]
    BY <1>6 DEF After
  <2>. QED BY <2>1, <1>1
<1>7. CASE c.do = "read"
  <2>1. After(a, c) = [text |-> a.text, since |-> a.since, flushed |-> a.flushed,
                       read |-> a.read + 1, unchecked |-> a.unchecked + 1]
    BY <1>7 DEF After
  <2>. QED BY <2>1, <1>1
<1>8. CASE c.do = "check_hash"
  <2>1. After(a, c) = [text |-> a.text, since |-> a.since, flushed |-> a.flushed,
                       read |-> a.read + 1, unchecked |-> 0]
    BY <1>8 DEF After
  <2>. QED BY <2>1, <1>1
<1>9. CASE c.do \in {"mark", "skip"}
  <2>1. After(a, c) = a
    BY <1>9 DEF After
  <2>. QED BY <2>1, <1>1
<1>. QED BY <1>2, <1>3, <1>4, <1>5, <1>6, <1>7, <1>8, <1>9 DEF IsCall, Writes, Reads

LEMMA TalliesLemma ==
  ASSUME NEW P, Len(P) \in Nat, \A k \in 1 .. Len(P) : IsCall(P[k])
  PROVE  \A k \in 0 .. Len(P) : Progress(P)[k] \in Tallies
<1>. DEFINE Bad == {k \in 0 .. Len(P) : Progress(P)[k] \notin Tallies}
<1>1. Len(P) \in Nat /\ \A k \in 1 .. Len(P) : IsCall(P[k])
  OBVIOUS
<1>. SUFFICES ASSUME Bad # {} PROVE FALSE
  OBVIOUS
<1>2. PICK k \in 0 .. Len(P) : k \in Bad /\ \A j \in Bad : k <= j
  <2>1. Bad \in SUBSET Nat
    BY <1>1
  <2>. QED BY <2>1, SmallestLemma
<1>3. k # 0
  <2>1. Nothing \in Tallies
    BY DEF Nothing, Tallies
  <2>. QED BY <2>1, <1>1, <1>2, ProgressLemma
<1>4. k \in 1 .. Len(P) /\ k - 1 \in 0 .. Len(P) /\ k - 1 \notin Bad
  BY <1>1, <1>2, <1>3
<1>5. Progress(P)[k - 1] \in Tallies
  BY <1>4
<1>6. Progress(P)[k] \in Tallies
  BY <1>1, <1>4, <1>5, AfterLemma, ProgressLemma
<1>. QED BY <1>2, <1>6

LEMMA ProgressType ==
  ASSUME NEW P, IsProgram(P)
  PROVE  \A k \in 0 .. Len(P) : Progress(P)[k] \in Tallies
BY TalliesLemma DEF IsProgram, IsCall

(* The text after some calls is the beginning of the whole text.            *)
LEMMA PrefixLemma ==
  ASSUME NEW P, IsProgram(P)
  PROVE  \A k \in 0 .. Len(P) : Prefix(Progress(P)[k].text, Whole(P))
<1>. DEFINE Bad == {d \in 0 .. Len(P) : ~Prefix(Progress(P)[Len(P) - d].text, Whole(P))}
<1>1. Len(P) \in Nat /\ \A k \in 1 .. Len(P) : IsCall(P[k])
  BY DEF IsProgram, IsCall
<1>2. Bad = {}
  <2>. SUFFICES ASSUME Bad # {} PROVE FALSE
    OBVIOUS
  <2>1. PICK d \in 0 .. Len(P) : d \in Bad /\ \A j \in Bad : d <= j
    <3>1. Bad \in SUBSET Nat
      BY <1>1
    <3>. QED BY <3>1, SmallestLemma
  <2>2. d # 0
    <3>1. Whole(P) \in Seq(Units) /\ Len(P) \in 0 .. Len(P)
      BY <1>1, ProgressType DEF Whole, Tallies
    <3>2. Prefix(Whole(P), Whole(P))
      BY <3>1 DEF Prefix
    <3>. QED BY <3>1, <3>2, <1>1, <2>1 DEF Whole
  <2>3. d - 1 \in 0 .. Len(P) /\ d - 1 \notin Bad
    BY <1>1, <2>1, <2>2
  <2>. DEFINE k == Len(P) - d
  <2>4. k \in 0 .. Len(P) /\ k + 1 \in 1 .. Len(P) /\ Len(P) - (d - 1) = k + 1 /\ (k + 1) - 1 = k
    BY <1>1, <2>1, <2>2
  <2>. HIDE DEF k
  <2>5. Prefix(Progress(P)[k + 1].text, Whole(P))
    BY <2>3, <2>4
  <2>6. Progress(P)[k] \in Tallies /\ Progress(P)[k + 1] = After(Progress(P)[k], P[k + 1])
    BY <1>1, <2>4, ProgressType, ProgressLemma
  <2>7. /\ Progress(P)[k + 1] \in Tallies
        /\ Prefix(Progress(P)[k].text, Progress(P)[k + 1].text)
    BY <1>1, <2>4, <2>6, AfterLemma
  <2>8. Prefix(Progress(P)[k].text, Whole(P))
    <3>1. /\ Progress(P)[k].text \in Seq(Units)
          /\ Progress(P)[k + 1].text \in Seq(Units)
          /\ Whole(P) \in Seq(Units)
      <4>1. Len(P) \in 0 .. Len(P)
        BY <1>1
      <4>. QED BY <4>1, <2>6, <2>7, ProgressType DEF Tallies, Whole
    <3>. QED BY <3>1, <2>5, <2>7, PrefixTransitive
  <2>. QED BY <2>1, <2>8 DEF k
<1>. QED
  <2>. SUFFICES ASSUME NEW k \in 0 .. Len(P) PROVE Prefix(Progress(P)[k].text, Whole(P))
    OBVIOUS
  <2>1. Len(P) - k \in 0 .. Len(P) /\ Len(P) - (Len(P) - k) = k
    BY <1>1
  <2>. QED BY <1>2, <2>1


-----------------------------------------------------------------------------
(* The streams: what each call leaves of what it was given                     *)

Ostreams == [text : Seq(Units), ready : Nat, emitted : Nat, sent : Nat, since : Nat,
             net : BOOLEAN]
Istreams == [start : Nat, ptr : Nat, end : Nat, got : Nat, since : Nat]

Ordered(o) == o.sent <= o.emitted /\ o.emitted <= o.ready /\ o.ready <= Len(o.text)

(* A stream that a program writes, which has come as far as a says.          *)
Open(o, a) ==
  /\ o \in Ostreams /\ Ordered(o) /\ o.net
  /\ o.text = a.text /\ o.since = a.since
  /\ a.flushed => o.sent = o.emitted
  /\ ~a.flushed => o.sent < Len(o.text)

LEMMA MinLemma ==
  ASSUME NEW m \in Nat, NEW n \in Nat
  PROVE  Min({m, n}) = IF m <= n THEN m ELSE n
BY DEF Min

(* Full caches are flushed, and what is left fits.                          *)
LEMMA WholeCaches ==
  ASSUME NEW c \in Nat \ {0}, NEW n \in Nat
  PROVE  c * (n \div c) \in 0 .. n
<1>1. n \div c \in Nat /\ n % c \in 0 .. c - 1 /\ n = c * (n \div c) + (n % c)
  OBVIOUS
<1>2. c * (n \div c) \in Nat
  BY <1>1
<1>. QED BY <1>1, <1>2

LEMMA CollectLemma ==
  ASSUME NEW o \in Ostreams, Ordered(o), NEW e \in Nat, o.emitted <= e
  PROVE  /\ Collect(o, e) = [o EXCEPT !.emitted = e, !.sent = Collect(o, e).sent]
         /\ Collect(o, e).sent \in o.sent .. e
         /\ Collect(o, e).sent = o.sent \/ Collect(o, e).sent < e
<1>. DEFINE more == OutCache * ((e - o.sent - 1) \div OutCache)
            sent == IF e - o.sent <= OutCache THEN o.sent ELSE o.sent + more
<1>1. Collect(o, e) = [o EXCEPT !.emitted = e, !.sent = sent]
  BY DEF Collect, Ostreams
<1>2. CASE e - o.sent <= OutCache
  BY <1>1, <1>2 DEF Ostreams, Ordered
<1>3. CASE ~(e - o.sent <= OutCache)
  <2>1. e - o.sent - 1 \in Nat
    BY <1>3, SizesAssumption DEF Ostreams
  <2>2. more \in 0 .. e - o.sent - 1
    BY <2>1, SizesAssumption, WholeCaches
  <2>. HIDE DEF more
  <2>3. sent \in o.sent .. e /\ sent < e
    BY <1>3, <2>2 DEF Ostreams
  <2>. QED BY <1>1, <2>3 DEF Ostreams
<1>. QED BY <1>2, <1>3


LEMMA StartOpens ==
  ASSUME NEW o, NEW a \in Tallies, Open(o, a), NEW c, c.do = "start"
  PROVE  Open(Start(o), After(a, c)) /\ o.sent <= Start(o).sent
<1>. DEFINE text == Append(a.text, Unit("raw", 0))
            n == Len(a.text) + 1
<1>1. After(a, c).text = text /\ After(a, c).since = a.since /\ After(a, c).flushed
  BY DEF After, Tallies
<1>2. text \in Seq(Units) /\ Len(text) = n /\ n \in Nat
  BY DEF Tallies, Unit, Units
<1>3. Start(o) = [text |-> text, ready |-> n, emitted |-> n, sent |-> n, since |-> o.since,
                  net |-> o.net]
  <2>1. o \in Ostreams /\ o.net /\ o.text = a.text
    BY DEF Open
  <2>. HIDE DEF text, n
  <2>2. Start(o) = [o EXCEPT !.text = text, !.ready = n, !.emitted = n, !.sent = n]
    BY <2>1 DEF Start, Ostreams, text, n
  <2>. QED BY <2>1, <2>2 DEF Ostreams
<1>4. o.since = a.since /\ o.since \in Nat /\ o.net /\ o.sent <= n
  BY DEF Open, Ostreams, Ordered, Tallies
<1>. HIDE DEF text, n
<1>5. Start(o) \in Ostreams
  BY <1>2, <1>3, <1>4 DEF Ostreams
<1>. QED BY <1>1, <1>2, <1>3, <1>4, <1>5 DEF Open, Ordered

(* Whatever zlib does with new units, some of them are not sent.             *)
LEMMA DeflatedOpens ==
  ASSUME NEW o, NEW a \in Tallies, Open(o, a), NEW units \in Seq(Units), units # <<>>,
         NEW since \in Nat, NEW x \in Deflated(o, units), NEW b,
         b.text = a.text \o units, b.since = since, ~b.flushed
  PROVE  Open([x EXCEPT !.since = since], b) /\ o.sent <= [x EXCEPT !.since = since].sent
<1>. DEFINE text == o.text \o units
<1>1. o \in Ostreams /\ Ordered(o) /\ o.net /\ o.text = a.text
  BY DEF Open
<1>2. text \in Seq(Units) /\ Len(text) \in Nat /\ Len(o.text) < Len(text)
  BY <1>1 DEF Ostreams
<1>3. PICK r \in [ready : {o.ready, Len(text)}, emitted : {o.ready, o.ready + OutBuf, Len(text)}] :
         /\ r.emitted <= r.ready
         /\ x = [Collect(o, r.emitted) EXCEPT !.text = text, !.ready = r.ready]
  BY DEF Deflated
<1>. HIDE DEF text
<1>4. /\ r.ready \in Nat /\ r.emitted \in Nat
      /\ o.emitted <= r.emitted /\ r.ready <= Len(text)
  BY <1>1, <1>2, <1>3, SizesAssumption DEF Ostreams, Ordered
<1>5. PICK sent \in o.sent .. r.emitted :
         /\ Collect(o, r.emitted) = [o EXCEPT !.emitted = r.emitted, !.sent = sent]
         /\ sent = o.sent \/ sent < r.emitted
  BY <1>1, <1>4, CollectLemma
<1>6. [x EXCEPT !.since = since] =
        [text |-> text, ready |-> r.ready, emitted |-> r.emitted, sent |-> sent,
         since |-> since, net |-> o.net]
  <2>1. x = [[o EXCEPT !.emitted = r.emitted, !.sent = sent]
               EXCEPT !.text = text, !.ready = r.ready]
    BY <1>3, <1>5
  <2>2. o = [text |-> o.text, ready |-> o.ready, emitted |-> o.emitted, sent |-> o.sent,
             since |-> o.since, net |-> o.net]
    BY <1>1 DEF Ostreams
  <2>3. x = [text |-> text, ready |-> r.ready, emitted |-> r.emitted, sent |-> sent,
             since |-> o.since, net |-> o.net]
    BY <2>1, <2>2
  <2>. QED BY <2>3
<1>7. sent \in Nat /\ sent < Len(text) /\ sent <= r.emitted /\ o.net
  <2>1. o.sent \in Nat /\ o.sent <= Len(o.text) /\ Len(o.text) \in Nat /\ o.net
    BY <1>1 DEF Ostreams, Ordered
  <2>. QED BY <1>2, <1>3, <1>4, <1>5, <2>1
<1>8. b.text = text
  BY <1>1 DEF text
<1>. DEFINE z == [x EXCEPT !.since = since]
<1>9. z \in Ostreams
  BY <1>2, <1>4, <1>6, <1>7 DEF Ostreams
<1>10. /\ z.text = text /\ z.ready = r.ready /\ z.emitted = r.emitted /\ z.sent = sent
       /\ z.since = since /\ z.net
  BY <1>6, <1>7
<1>. HIDE DEF z
<1>11. Open(z, b)
  BY <1>2, <1>3, <1>4, <1>5, <1>7, <1>8, <1>9, <1>10 DEF Open, Ordered
<1>12. o.sent <= sent
  BY <1>1, <1>5 DEF Ostreams
<1>. QED BY <1>10, <1>11, <1>12 DEF z

LEMMA WriteOpens ==
  ASSUME NEW o, NEW a \in Tallies, Open(o, a), NEW c, c.do = "write", c.n \in Nat \ {0},
         NEW x \in Write(o, c.n)
  PROVE  Open(x, After(a, c)) /\ o.sent <= x.sent
<1>. DEFINE units == [k \in 1 .. c.n |-> Unit("value", 0)]
<1>1. units \in Seq(Units) /\ units # <<>>
  <2>1. Unit("value", 0) \in Units
    BY DEF Unit, Units
  <2>2. units \in Seq(Units) /\ Len(units) = c.n
    BY <2>1
  <2>. QED BY <2>2
<1>2. PICK y \in Deflated(o, units) : x = [y EXCEPT !.since = y.since + c.n]
  BY DEF Write
<1>. DEFINE b == After(a, c)
<1>3. b.text = a.text \o units /\ b.since = a.since + c.n /\ ~b.flushed
  BY DEF After, Tallies
<1>. HIDE DEF units, b
<1>4. y.since = a.since
  <2>1. o \in Ostreams /\ o.since = a.since
    BY DEF Open
  <2>. QED BY <2>1, <1>2 DEF Deflated, Collect, Ostreams
<1>5. a.since + c.n \in Nat
  BY DEF Tallies
<1>. DEFINE z == [y EXCEPT !.since = a.since + c.n]
<1>6. Open(z, b) /\ o.sent <= z.sent
  BY <1>1, <1>2, <1>3, <1>5, DeflatedOpens
<1>. QED BY <1>2, <1>4, <1>6 DEF b

LEMMA WriteHashOpens ==
  ASSUME NEW o, NEW a \in Tallies, Open(o, a), NEW c, c.do = "write_hash",
         NEW x \in WriteHash(o)
  PROVE  Open(x, After(a, c)) /\ o.sent <= x.sent
<1>. DEFINE units == <<Unit("hash", a.since)>>
            b == After(a, c)
<1>1. units \in Seq(Units) /\ units # <<>>
  BY DEF Unit, Units, Tallies
<1>2. PICK y \in Deflated(o, units) : x = [y EXCEPT !.since = 0]
  BY DEF WriteHash, Open
<1>3. b.text = a.text \o units /\ b.since = 0 /\ ~b.flushed
  <2>1. b.text = Append(a.text, Unit("hash", a.since)) /\ b.since = 0 /\ ~b.flushed
    BY DEF After, Tallies
  <2>2. Append(a.text, Unit("hash", a.since)) = a.text \o units
    BY DEF Tallies
  <2>. QED BY <2>1, <2>2
<1>. HIDE DEF units, b
<1>. DEFINE z == [y EXCEPT !.since = 0]
<1>4. Open(z, b) /\ o.sent <= z.sent
  <2>1. 0 \in Nat
    OBVIOUS
  <2>. QED BY <1>1, <1>2, <1>3, <2>1, DeflatedOpens, Zenon
<1>. QED BY <1>2, <1>4 DEF b

LEMMA FlushNetOpens ==
  ASSUME NEW o, NEW a \in Tallies, Open(o, a), NEW c, c.do = "flush_net",
         NEW x \in FlushNet(o)
  PROVE  Open(x, After(a, c)) /\ o.sent <= x.sent
<1>1. o \in Ostreams /\ Ordered(o) /\ o.text = a.text /\ o.since = a.since /\ o.net
  BY DEF Open, Ostreams
<1>. DEFINE e == Min({Len(o.text), o.emitted + OutBuf})
<1>2. e \in Nat /\ o.emitted <= e /\ e <= Len(o.text)
  BY <1>1, SizesAssumption, MinLemma DEF Ostreams, Ordered
<1>3. PICK r \in {e, Len(o.text)} : x = [o EXCEPT !.emitted = e, !.sent = e, !.ready = r]
  BY <1>1 DEF FlushNet
<1>. HIDE DEF e
<1>4. x = [text |-> o.text, ready |-> r, emitted |-> e, sent |-> e, since |-> o.since,
           net |-> o.net]
  BY <1>1, <1>3 DEF Ostreams
<1>5. After(a, c).text = a.text /\ After(a, c).since = a.since /\ After(a, c).flushed
  BY DEF After, Tallies
<1>6. x \in Ostreams
  <2>1. r \in Nat
    BY <1>1, <1>2, <1>3 DEF Ostreams
  <2>. QED BY <1>1, <1>2, <1>4, <2>1 DEF Ostreams
<1>7. /\ x.text = o.text /\ x.ready = r /\ x.emitted = e /\ x.sent = e /\ x.since = o.since
      /\ x.net
  BY <1>1, <1>4
<1>8. Len(o.text) \in Nat
  BY <1>1 DEF Ostreams
<1>9. o.sent <= e
  BY <1>1, <1>2 DEF Ostreams, Ordered
<1>. QED BY <1>1, <1>2, <1>3, <1>5, <1>6, <1>7, <1>8, <1>9 DEF Open, Ordered


LEMMA CloseLemma ==
  ASSUME NEW o, NEW a \in Tallies, Open(o, a)
  PROVE  /\ Close(o) \in Ostreams /\ Ordered(Close(o))
         /\ Close(o).text = Append(a.text, Unit("end", 0))
         /\ o.sent <= Close(o).sent
<1>1. o \in Ostreams /\ Ordered(o) /\ o.net /\ o.text = a.text
  BY DEF Open
<1>. DEFINE n == Len(o.text) + 1
            text == Append(o.text, Unit("end", 0))
<1>2. text \in Seq(Units) /\ n \in Nat /\ Len(text) = n /\ o.emitted <= n
  BY <1>1 DEF Ostreams, Ordered, Unit, Units
<1>3. Collect(o, n) = [o EXCEPT !.emitted = n, !.sent = Collect(o, n).sent]
  BY <1>1, <1>2, CollectLemma
<1>4. Close(o) = [Collect(o, n) EXCEPT !.text = text, !.ready = n, !.sent = n]
  <2>1. Collect(o, n).text = o.text
    BY <1>1, <1>3 DEF Ostreams
  <2>. QED BY <1>1, <2>1 DEF Close
<1>5. o.text = a.text /\ o.sent \in Nat /\ o.sent <= n
  BY <1>1 DEF Ostreams, Ordered
<1>6. text = Append(a.text, Unit("end", 0))
  BY <1>1
<1>. HIDE DEF n, text
<1>7. Close(o) = [text |-> text, ready |-> n, emitted |-> n, sent |-> n, since |-> o.since,
                  net |-> o.net]
  <2>1. o = [text |-> o.text, ready |-> o.ready, emitted |-> o.emitted, sent |-> o.sent,
             since |-> o.since, net |-> o.net]
    BY <1>1 DEF Ostreams
  <2>2. PICK v : Collect(o, n) = [o EXCEPT !.emitted = n, !.sent = v]
    BY <1>3
  <2>3. Collect(o, n) = [text |-> o.text, ready |-> o.ready, emitted |-> n, sent |-> v,
                         since |-> o.since, net |-> o.net]
    BY <2>1, <2>2
  <2>4. Close(o) = [[text |-> o.text, ready |-> o.ready, emitted |-> n, sent |-> v,
                     since |-> o.since, net |-> o.net]
                       EXCEPT !.text = text, !.ready = n, !.sent = n]
    BY <1>4, <2>3
  <2>5. Close(o) = [text |-> text, ready |-> n, emitted |-> n, sent |-> n,
                    since |-> o.since, net |-> o.net]
    BY <2>4
  <2>. QED BY <1>1, <2>5
<1>8. Close(o) \in Ostreams
  BY <1>1, <1>2, <1>7 DEF Ostreams
<1>. QED BY <1>2, <1>5, <1>6, <1>7, <1>8 DEF Ordered

(* Positions in a stream of which there units have come.                     *)
InOrder(i, there) ==
  i \in Istreams /\ i.got <= i.ptr /\ i.ptr <= i.end /\ i.end <= there

LEMMA FetchLemma ==
  ASSUME NEW there \in Nat, NEW i, InOrder(i, there), i.ptr = i.end,
         NEW f \in Fetch(i, there)
  PROVE  InOrder(f, there) /\ f.got = i.got /\ f.since = i.since /\ f.ptr < f.end
<1>1. i \in Istreams /\ i.end < there
  BY DEF Fetch, InOrder
<1>2. PICK e \in {i.end + 1, Min({there, i.ptr + InCache})} :
         f = [i EXCEPT !.start = i.ptr, !.end = e]
  BY <1>1 DEF Fetch
<1>3. e \in Nat /\ i.end < e /\ e <= there
  <2>1. there \in Nat /\ i.ptr + InCache \in Nat /\ i.end + 1 <= there
        /\ i.end + 1 <= i.ptr + InCache /\ i.end \in Nat
    BY <1>1, SizesAssumption DEF Istreams
  <2>2. Min({there, i.ptr + InCache}) \in {there, i.ptr + InCache}
        /\ Min({there, i.ptr + InCache}) <= there
    BY <2>1, MinLemma
  <2>. QED BY <1>2, <2>1, <2>2
<1>4. f = [start |-> i.ptr, ptr |-> i.ptr, end |-> e, got |-> i.got, since |-> i.since]
  BY <1>1, <1>2 DEF Istreams
<1>. QED BY <1>1, <1>3, <1>4 DEF InOrder, Istreams

LEMMA FilledLemma ==
  ASSUME NEW there \in Nat, NEW i, InOrder(i, there), NEW f \in Filled(i, there)
  PROVE  InOrder(f, there) /\ f.got = i.got /\ f.since = i.since /\ f.got < f.ptr
<1>0. i \in Istreams /\ i.got <= i.ptr /\ i.ptr <= i.end /\ i.end <= there
  BY DEF InOrder
<1>1. CASE i.got < i.ptr
  BY <1>1 DEF Filled
<1>2. CASE ~(i.got < i.ptr)
  <2>1. PICK g \in IF i.ptr < i.end THEN {i} ELSE Fetch(i, there) : f = Take(g)
    BY <1>2 DEF Filled
  <2>2. InOrder(g, there) /\ g.got = i.got /\ g.since = i.since /\ g.ptr < g.end /\ g.got <= g.ptr
    <3>1. CASE i.ptr < i.end
      BY <2>1, <3>1, <1>0
    <3>2. CASE ~(i.ptr < i.end)
      <4>1. i.ptr = i.end
        BY <3>2, <1>0 DEF Istreams
      <4>. QED BY <2>1, <3>2, <4>1, FetchLemma DEF InOrder
    <3>. QED BY <3>1, <3>2
  <2>3. g \in Istreams /\ g.end <= there
    BY <2>2 DEF InOrder
  <2>4. f = [g EXCEPT !.ptr = Min({g.end, g.ptr + ZCache})]
    BY <2>1 DEF Take
  <2>. DEFINE p == Min({g.end, g.ptr + ZCache})
  <2>5. p \in Nat /\ g.ptr < p /\ p <= g.end
    BY <2>2, <2>3, SizesAssumption, MinLemma DEF Istreams
  <2>. HIDE DEF p
  <2>6. f = [start |-> g.start, ptr |-> p, end |-> g.end, got |-> g.got, since |-> g.since]
    BY <2>3, <2>4 DEF Istreams, p
  <2>. QED BY <2>2, <2>3, <2>5, <2>6 DEF InOrder, Istreams
<1>. QED BY <1>1, <1>2

LEMMA RawLemma ==
  ASSUME NEW there \in Nat, NEW i, InOrder(i, there), NEW f \in Raw(i, there)
  PROVE  InOrder(f, there) /\ f.got = i.got + 1 /\ f.since = i.since /\ i.got + 1 <= there
<1>0. i \in Istreams /\ i.got <= i.ptr /\ i.ptr <= i.end /\ i.end <= there
  BY DEF InOrder
<1>1. PICK g \in IF i.ptr < i.end THEN {i} ELSE Fetch(i, there) :
         f = [g EXCEPT !.ptr = g.ptr + 1, !.got = g.got + 1]
  BY DEF Raw
<1>2. InOrder(g, there) /\ g.got = i.got /\ g.since = i.since /\ g.ptr < g.end /\ g.got <= g.ptr
  <2>1. CASE i.ptr < i.end
    BY <1>1, <2>1, <1>0
  <2>2. CASE ~(i.ptr < i.end)
    <3>1. i.ptr = i.end
      BY <2>2, <1>0 DEF Istreams
    <3>. QED BY <1>1, <2>2, <3>1, FetchLemma DEF InOrder
  <2>. QED BY <2>1, <2>2
<1>3. g \in Istreams /\ g.end <= there
  BY <1>2 DEF InOrder
<1>4. f = [start |-> g.start, ptr |-> g.ptr + 1, end |-> g.end, got |-> g.got + 1,
           since |-> g.since]
  BY <1>1, <1>3 DEF Istreams
<1>. QED BY <1>2, <1>3, <1>4 DEF InOrder, Istreams


-----------------------------------------------------------------------------
(* The inductive invariant                                                     *)

Tally(s) == Progress(Program(s))[at[s] - 1]

TypeInv ==
  /\ plan \in Plans
  /\ at \in [Sides -> Nat]
  /\ out \in [Sides -> Ostreams]
  /\ in \in [Sides -> Istreams]
  /\ phase \in [Sides -> {"talk", "close", "drain", "closed"}]
  /\ damaged \in [Sides -> BOOLEAN]
  /\ marks = [s \in Sides |-> marks[s]]

(* A side leaves its program at the end or in a call; what it has written    *)
(* is ended properly if the connection is not broken there.                  *)
AtEnd(s) == at[s] = Len(Program(s)) + 1
LeftReading(s) == AtEnd(s) \/ Now(s).do \in Reads
Terminated(s) ==
  /\ phase[s] \in {"drain", "closed"} /\ LeftReading(s)
  /\ Ordered(out[s]) /\ out[s].text = Append(Tally(s).text, Unit("end", 0))

(* Nothing is decrypted before it is needed. *)
Fresh(i) == i.got = 0 => i.ptr = 0

(* Each stream is what its program has written so far, and what was read of  *)
(* it is what the other program has read so far, nothing of which is its end. *)
SideInv(s) ==
  /\ at[s] \in 1 .. Len(Program(s)) + 1
  /\ Open(out[s], Tally(s)) \/ Terminated(s)
  /\ InOrder(in[s], There(s)) /\ Fresh(in[s])
  /\ phase[s] = "talk" =>
       /\ in[s].got = Tally(s).read /\ in[s].since = Tally(s).unchecked
       /\ in[s].got <= Len(Tally(Peer(s)).text)
  /\ phase[s] # "talk" =>
       s \in stopped \/ LeftReading(s) \/ (broken /\ Now(s).do \in Writes)
  /\ s \in stopped => phase[s] = "closed"
  /\ ~damaged[s]

(* Every mark that a program has passed is there; when a node works, the     *)
(* other one has nothing left to do but to announce it.                      *)
OnlyMarksLeft(s) == \A k \in at[s] .. Len(Program(s)) : Program(s)[k].do = "mark"
Announces(s) ==
  \E k \in 1 .. Len(Program(s)) : Program(s)[k].do = "mark" /\ Program(s)[k].n = "announced"
MarkCalls(s) == {k \in 1 .. Len(Program(s)) : Program(s)[k].do = "mark"}
MarksInv(s) ==
  /\ marks[s] \in Seq({Program(s)[k].n : k \in MarkCalls(s)})
  /\ \A k \in 1 .. at[s] - 1 : Program(s)[k].do = "mark" => Has(s, Program(s)[k].n)
  /\ Has(s, "work") => OnlyMarksLeft(Peer(s)) /\ Announces(Peer(s))

SessionInv == TypeInv /\ \A s \in Sides : SideInv(s) /\ MarksInv(s)


LEMMA PeerLemma ==
  ASSUME NEW s \in Sides
  PROVE  /\ Peer(s) \in Sides /\ Peer(s) # s /\ Peer(Peer(s)) = s
         /\ \A t \in Sides : t = s \/ t = Peer(s)
BY DEF Sides, Peer

LEMMA ProgramLemma ==
  ASSUME TypeInv, NEW s \in Sides
  PROVE  /\ IsProgram(Program(s))
         /\ Len(Program(s)) \in Nat \ {0}
         /\ \A k \in 1 .. Len(Program(s)) : IsCall(Program(s)[k])
         /\ Understands(Program(s), Program(Peer(s)))
         /\ Welcomes(Program(s), Program(Peer(s)))
<1>1. plan \in Plans
  BY DEF TypeInv
<1>2. /\ IsProgram(Programs[plan, s])
      /\ Understands(Programs[plan, s], Programs[plan, Peer(s)])
      /\ Welcomes(Programs[plan, s], Programs[plan, Peer(s)])
  BY <1>1, ProgramsAssumption DEF CanTalk, Sides, Peer
<1>. QED BY <1>2 DEF Program, IsProgram, IsCall

LEMMA TallyLemma ==
  ASSUME TypeInv, NEW s \in Sides, at[s] \in 1 .. Len(Program(s)) + 1
  PROVE  /\ Tally(s) \in Tallies
         /\ Prefix(Tally(s).text, Whole(Program(s)))
         /\ Whole(Program(s)) \in Seq(Units)
<1>1. at[s] - 1 \in 0 .. Len(Program(s)) /\ Len(Program(s)) \in 0 .. Len(Program(s))
  BY ProgramLemma
<1>2. Whole(Program(s)) \in Seq(Units)
  BY <1>1, ProgramLemma, ProgressType DEF Whole, Tallies
<1>. QED BY <1>1, <1>2, ProgramLemma, ProgressType, PrefixLemma DEF Tally

(* Once a program has started, there is something in its text.               *)
LEMMA StartedLemma ==
  ASSUME TypeInv, NEW s \in Sides, at[s] \in 1 .. Len(Program(s)) + 1, at[s] # 1
  PROVE  Len(Tally(s).text) >= 1
<1>. DEFINE P == Program(s)
            Bad == {k \in 1 .. Len(P) : ~(Len(Progress(P)[k].text) >= 1)}
<1>1. Len(P) \in Nat \ {0} /\ P[1].do = "start" /\ \A k \in 1 .. Len(P) : IsCall(P[k])
  BY ProgramLemma DEF IsProgram
<1>2. \A k \in 0 .. Len(P) : Progress(P)[k] \in Tallies
  BY ProgramLemma, ProgressType
<1>3. \A k \in 1 .. Len(P) : /\ k - 1 \in 0 .. Len(P) /\ k \in 0 .. Len(P)
                             /\ Progress(P)[k] = After(Progress(P)[k - 1], P[k])
  BY <1>1, ProgressLemma
<1>. HIDE DEF P
<1>4. Bad = {}
  <2>. SUFFICES ASSUME Bad # {} PROVE FALSE
    OBVIOUS
  <2>1. PICK k \in 1 .. Len(P) : k \in Bad /\ \A j \in Bad : k <= j
    <3>1. Bad \in SUBSET Nat
      BY <1>1
    <3>. QED BY <3>1, SmallestLemma
  <2>2. CASE k = 1
    <3>1. Progress(P)[0] \in Tallies /\ Progress(P)[1] = After(Progress(P)[0], P[1])
      BY <1>1, <1>2, <1>3
    <3>2. Progress(P)[1].text = Append(Progress(P)[0].text, Unit("raw", 0))
      BY <1>1, <3>1 DEF After, Tallies
    <3>3. Unit("raw", 0) \in Units /\ Progress(P)[0].text \in Seq(Units)
      BY <3>1 DEF Unit, Units, Tallies
    <3>4. Len(Progress(P)[1].text) >= 1
      BY <3>2, <3>3
    <3>. QED BY <2>1, <2>2, <3>4
  <2>3. CASE k # 1
    <3>1. k - 1 \in 1 .. Len(P) /\ k - 1 \notin Bad
      BY <1>1, <2>1, <2>3
    <3>2. Prefix(Progress(P)[k - 1].text, Progress(P)[k].text)
      BY <1>1, <1>2, <1>3, <2>1, AfterLemma
    <3>3. Len(Progress(P)[k - 1].text) \in Nat /\ Len(Progress(P)[k].text) \in Nat
      <4>1. Progress(P)[k - 1] \in Tallies /\ Progress(P)[k] \in Tallies
        BY <1>2, <1>3, <2>1
      <4>. QED BY <4>1 DEF Tallies
    <3>4. Len(Progress(P)[k].text) >= 1
      BY <3>1, <3>2, <3>3 DEF Prefix
    <3>. QED BY <2>1, <3>4
  <2>. QED BY <2>2, <2>3
<1>5. at[s] - 1 \in 1 .. Len(P)
  BY <1>1 DEF P
<1>. QED BY <1>4, <1>5 DEF Tally, P


LEMMA InitLemma == Init => SessionInv
<1>. SUFFICES ASSUME Init PROVE SessionInv
  OBVIOUS
<1>1. Ostream(TRUE) \in Ostreams /\ Istream(0) \in Istreams
  BY DEF Ostream, Istream, Ostreams, Istreams
<1>2. TypeInv
  <2>1. plan \in Plans
    BY DEF Init
  <2>2. /\ at = [s \in Sides |-> 1]
        /\ phase = [s \in Sides |-> "talk"]
        /\ damaged = [s \in Sides |-> FALSE]
        /\ marks = [s \in Sides |-> <<>>]
    BY DEF Init
  <2>3. /\ out = [s \in Sides |-> Ostream(TRUE)]
        /\ in = [s \in Sides |-> Istream(0)]
    BY DEF Init
  <2>. QED BY <1>1, <2>1, <2>2, <2>3 DEF TypeInv
<1>3. ASSUME NEW s \in Sides PROVE SideInv(s) /\ MarksInv(s)
  <2>1. /\ at[s] = 1 /\ at[Peer(s)] = 1 /\ out[s] = Ostream(TRUE) /\ out[Peer(s)] = Ostream(TRUE)
        /\ in[s] = Istream(0) /\ phase[s] = "talk" /\ ~damaged[s] /\ marks[s] = <<>>
        /\ s \notin stopped
    BY PeerLemma DEF Init
  <2>2. Tally(s) = Nothing /\ Tally(Peer(s)) = Nothing
    BY <1>2, <2>1, PeerLemma, ProgramLemma, ProgressLemma DEF Tally
  <2>3. Open(out[s], Tally(s))
    BY <1>1, <2>1, <2>2 DEF Open, Ordered, Ostream, Nothing
  <2>4. InOrder(in[s], There(s)) /\ Fresh(in[s])
    BY <1>1, <2>1 DEF InOrder, Fresh, There, Ostream, Istream
  <2>5. /\ in[s].got = Tally(s).read /\ in[s].since = Tally(s).unchecked
        /\ in[s].got <= Len(Tally(Peer(s)).text)
    BY <2>1, <2>2 DEF Istream, Nothing
  <2>6. at[s] \in 1 .. Len(Program(s)) + 1
    BY <1>2, <2>1, ProgramLemma
  <2>7. SideInv(s)
    BY <2>1, <2>3, <2>4, <2>5, <2>6 DEF SideInv
  <2>8. MarksInv(s)
    BY <2>1 DEF MarksInv, Has
  <2>. QED BY <2>7, <2>8
<1>. QED BY <1>2, <1>3 DEF SessionInv

(* What one side does never takes back what the other relies on.             *)
Leaves(t) ==
  /\ plan' = plan
  /\ at'[t] = at[t] /\ out'[t] = out[t] /\ in'[t] = in[t] /\ phase'[t] = phase[t]
  /\ damaged'[t] = damaged[t] /\ marks'[t] = marks[t]
  /\ t \in stopped' <=> t \in stopped
  /\ broken => broken'

LEMMA OtherSideLemma ==
  ASSUME SessionInv, TypeInv', NEW t \in Sides, Leaves(t),
         out[Peer(t)].sent <= out'[Peer(t)].sent,
         Len(Tally(Peer(t)).text) <= Len(Tally(Peer(t))'.text),
         Len(Tally(Peer(t))'.text) \in Nat, Len(Tally(Peer(t)).text) \in Nat
  PROVE  SideInv(t)'
<1>1. SideInv(t) /\ Program(t)' = Program(t) /\ Tally(t)' = Tally(t)
  BY DEF SessionInv, Leaves, Tally, Program
<1>2. InOrder(in[t], There(t)')
  <2>1. out[Peer(t)].sent \in Nat /\ out'[Peer(t)].sent \in Nat
    BY PeerLemma DEF SessionInv, TypeInv, Ostreams
  <2>. QED BY <1>1, <2>1 DEF SideInv, InOrder, There, Istreams
<1>3. phase[t] = "talk" => in[t].got <= Len(Tally(Peer(t))'.text)
  <2>1. in[t].got \in Nat
    BY DEF SessionInv, TypeInv, Istreams
  <2>. QED BY <1>1, <2>1 DEF SideInv
<1>4. Terminated(t) => Terminated(t)'
  BY <1>1 DEF Terminated, LeftReading, AtEnd, Now, Leaves
<1>5. LeftReading(t)' = LeftReading(t) /\ Now(t)' = Now(t)
  BY <1>1 DEF LeftReading, AtEnd, Now, Leaves
<1>6. Peer(t)' = Peer(t)
  BY DEF Peer
<1>. QED BY <1>1, <1>2, <1>3, <1>4, <1>5, <1>6 DEF SideInv, Leaves


(* A step of one side that stays in its call, if it does not write more.     *)
LEMMA QuietLemma ==
  ASSUME SessionInv, TypeInv', NEW s \in Sides, Leaves(Peer(s)), at' = at,
         out[s].sent <= out'[s].sent
  PROVE  SideInv(Peer(s))'
<1>1. Tally(s)' = Tally(s) /\ Tally(s) \in Tallies
  BY TallyLemma DEF Leaves, Tally, Program, SessionInv, SideInv
<1>2. Len(Tally(s).text) \in Nat
  BY <1>1 DEF Tallies
<1>. QED BY <1>1, <1>2, PeerLemma, OtherSideLemma

(* The next call of a program.                                               *)
LEMMA ReturnLemma ==
  ASSUME SessionInv, NEW s \in Sides, Running(s), Return(s), plan' = plan
  PROVE  /\ at[s] \in 1 .. Len(Program(s)) /\ at'[s] = at[s] + 1
         /\ at'[s] \in 1 .. Len(Program(s)) + 1
         /\ IsCall(Now(s)) /\ Tally(s)' = After(Tally(s), Now(s))
         /\ Tally(s) \in Tallies /\ Tally(s)' \in Tallies
         /\ Prefix(Tally(s).text, Tally(s)'.text)
         /\ Len(Tally(s).text) \in Nat /\ Len(Tally(s)'.text) \in Nat
         /\ at'[Peer(s)] = at[Peer(s)]
         /\ at' \in [Sides -> Nat]
<1>1. TypeInv /\ SideInv(s)
  BY DEF SessionInv
<1>2. at[s] \in 1 .. Len(Program(s)) /\ at'[s] = at[s] + 1 /\ at' \in [Sides -> Nat]
      /\ at'[Peer(s)] = at[Peer(s)]
  BY <1>1, PeerLemma, ProgramLemma DEF Running, Return, SideInv, TypeInv
<1>3. IsCall(Now(s))
  BY <1>1, <1>2, ProgramLemma DEF Now
<1>4. Tally(s)' = After(Tally(s), Now(s))
  <2>1. Program(s)' = Program(s)
    BY DEF Program
  <2>2. Tally(s)' = Progress(Program(s))[at'[s] - 1]
    BY <2>1 DEF Tally
  <2>3. at'[s] - 1 = at[s]
    BY <1>2
  <2>. QED BY <1>1, <1>2, <2>2, <2>3, ProgramLemma, ProgressLemma DEF Tally, Now
<1>5. Tally(s) \in Tallies
  BY <1>1, TallyLemma DEF SideInv
<1>6. Tally(s)' \in Tallies /\ Prefix(Tally(s).text, Tally(s)'.text)
  BY <1>3, <1>4, <1>5, AfterLemma
<1>7. Len(Tally(s).text) \in Nat /\ Len(Tally(s)'.text) \in Nat
  BY <1>5, <1>6 DEF Tallies
<1>8. at'[s] \in 1 .. Len(Program(s)) + 1
  BY <1>1, <1>2, ProgramLemma
<1>. QED BY <1>2, <1>3, <1>4, <1>5, <1>6, <1>7, <1>8

(* Writing: one lemma for the four calls.                                    *)
LEMMA PutLemma ==
  ASSUME SessionInv, NEW s \in Sides, Running(s), Now(s).do \in Writes, Return(s),
         NEW o, Open(out[s], Tally(s)) => Open(o, After(Tally(s), Now(s))) /\ out[s].sent <= o.sent,
         out' = [out EXCEPT ![s] = o],
         UNCHANGED <<plan, in, phase, complete, damaged, marks, broken, stopped, faults>>
  PROVE  TypeInv' /\ SideInv(s)' /\ SideInv(Peer(s))'
<1>1. TypeInv /\ SideInv(s) /\ phase[s] = "talk"
  BY DEF SessionInv, Running
<1>2. Open(out[s], Tally(s))
  BY <1>1 DEF SideInv, Terminated
<1>3. Open(o, Tally(s)') /\ out[s].sent <= o.sent
  BY <1>2, ReturnLemma
<1>4. out'[s] = o /\ out'[Peer(s)] = out[Peer(s)] /\ out' \in [Sides -> Ostreams]
  BY <1>1, <1>3, PeerLemma DEF TypeInv, Open
<1>5. TypeInv'
  BY <1>1, <1>4, ReturnLemma DEF TypeInv
<1>6. SideInv(Peer(s))'
  <2>1. Leaves(Peer(s))
    BY <1>4, ReturnLemma DEF Leaves
  <2>2. Len(Tally(s).text) <= Len(Tally(s)'.text)
    BY ReturnLemma DEF Prefix
  <2>. QED BY <1>3, <1>4, <1>5, <2>1, <2>2, PeerLemma, ReturnLemma, OtherSideLemma
<1>7. SideInv(s)'
  <2>1. After(Tally(s), Now(s)).read = Tally(s).read
        /\ After(Tally(s), Now(s)).unchecked = Tally(s).unchecked
    BY ReturnLemma DEF After, Tallies, Writes
  <2>2. Tally(Peer(s))' = Tally(Peer(s)) /\ There(s)' = There(s) /\ Program(s)' = Program(s)
    BY <1>4, ReturnLemma DEF Tally, There, Program, Peer
  <2>3. Peer(s)' = Peer(s)
    BY DEF Peer
  <2>. QED BY <1>1, <1>3, <1>4, <2>1, <2>2, <2>3, ReturnLemma DEF SideInv
<1>. QED BY <1>5, <1>6, <1>7


LEMMA WritingLemma ==
  ASSUME SessionInv, NEW s \in Sides,
         PutStart(s) \/ PutValue(s) \/ PutHash(s) \/ PutFlush(s)
  PROVE  /\ TypeInv' /\ SideInv(s)' /\ SideInv(Peer(s))'
         /\ Running(s) /\ Return(s) /\ Now(s).do \in Writes /\ plan' = plan /\ marks' = marks
<1>. DEFINE Unchanged ==
              UNCHANGED <<plan, in, phase, complete, damaged, marks, broken, stopped, faults>>
            Outcome(o) == Open(out[s], Tally(s)) =>
                            Open(o, After(Tally(s), Now(s))) /\ out[s].sent <= o.sent
<1>1. SUFFICES /\ Running(s) /\ Return(s) /\ Now(s).do \in Writes /\ Unchanged
               /\ \E o : out' = [out EXCEPT ![s] = o] /\ Outcome(o)
  BY PutLemma
<1>0. Tally(s) \in Tallies /\ TypeInv /\ SideInv(s)
  BY TallyLemma DEF SessionInv, SideInv
<1>2. CASE PutStart(s)
  <2>1. /\ Running(s) /\ Now(s).do = "start" /\ Return(s) /\ Unchanged
        /\ out' = [out EXCEPT ![s] = Start(out[s])]
    BY <1>2 DEF PutStart, Put, Calls
  <2>2. Outcome(Start(out[s]))
    BY <1>0, <2>1, StartOpens
  <2>. HIDE DEF Outcome
  <2>. QED BY <2>1, <2>2 DEF Writes
<1>3. CASE PutValue(s)
  <2>1. /\ Running(s) /\ Now(s).do = "write" /\ Return(s) /\ Unchanged
        /\ \E o \in Write(out[s], Now(s).n) : out' = [out EXCEPT ![s] = o]
    BY <1>3 DEF PutValue, Put, Calls
  <2>2. PICK o \in Write(out[s], Now(s).n) : out' = [out EXCEPT ![s] = o]
    BY <2>1
  <2>3. Now(s).n \in Nat \ {0}
    BY <2>1, ReturnLemma DEF IsCall
  <2>4. Outcome(o)
    BY <1>0, <2>1, <2>2, <2>3, WriteOpens
  <2>. HIDE DEF Outcome
  <2>. QED BY <2>1, <2>2, <2>4 DEF Writes
<1>4. CASE PutHash(s)
  <2>1. /\ Running(s) /\ Now(s).do = "write_hash" /\ Return(s) /\ Unchanged
        /\ \E o \in WriteHash(out[s]) : out' = [out EXCEPT ![s] = o]
    BY <1>4 DEF PutHash, Put, Calls
  <2>2. PICK o \in WriteHash(out[s]) : out' = [out EXCEPT ![s] = o]
    BY <2>1
  <2>3. Outcome(o)
    BY <1>0, <2>1, <2>2, WriteHashOpens
  <2>. HIDE DEF Outcome
  <2>. QED BY <2>1, <2>2, <2>3 DEF Writes
<1>5. CASE PutFlush(s)
  <2>1. /\ Running(s) /\ Now(s).do = "flush_net" /\ Return(s) /\ Unchanged
        /\ \E o \in FlushNet(out[s]) : out' = [out EXCEPT ![s] = o]
    BY <1>5 DEF PutFlush, Put, Calls
  <2>2. PICK o \in FlushNet(out[s]) : out' = [out EXCEPT ![s] = o]
    BY <2>1
  <2>3. Outcome(o)
    BY <1>0, <2>1, <2>2, FlushNetOpens
  <2>. HIDE DEF Outcome
  <2>. QED BY <2>1, <2>2, <2>3 DEF Writes
<1>. QED BY <1>2, <1>3, <1>4, <1>5

(* Marks stay, whoever goes on.                                              *)
LEMMA MarksStay ==
  ASSUME SessionInv, NEW s \in Sides, plan' = plan, marks' = marks,
         at' = at \/ (Running(s) /\ Return(s) /\ Now(s).do # "mark"),
         NEW t \in Sides
  PROVE  MarksInv(t)'
<1>1. Program(t)' = Program(t) /\ Program(Peer(t))' = Program(Peer(t)) /\ Peer(t)' = Peer(t)
  BY DEF Program, Peer
<1>2. MarksInv(t) /\ \A x : Has(t, x)' <=> Has(t, x)
  BY DEF SessionInv, Has
<1>3. /\ at[t] \in Nat /\ at[Peer(t)] \in Nat
      /\ at'[t] \in Nat /\ at'[Peer(t)] \in Nat
      /\ at[Peer(t)] <= at'[Peer(t)]
      /\ at'[t] = at[t] \/ (at'[t] = at[t] + 1 /\ Now(t).do # "mark")
  <2>1. at[t] \in Nat /\ at[Peer(t)] \in Nat
    BY PeerLemma DEF SessionInv, TypeInv
  <2>2. CASE at' = at
    BY <2>1, <2>2
  <2>3. CASE Running(s) /\ Return(s) /\ Now(s).do # "mark"
    <3>1. at'[s] = at[s] + 1 /\ at'[Peer(s)] = at[Peer(s)]
      BY <2>3, ReturnLemma
    <3>2. t = s \/ (t = Peer(s) /\ Peer(t) = s)
      BY PeerLemma
    <3>. QED BY <2>1, <2>3, <3>1, <3>2
  <2>. QED BY <2>2, <2>3
<1>4. marks'[t] \in Seq({Program(t)[k].n : k \in MarkCalls(t)}) /\ MarkCalls(t)' = MarkCalls(t)
  BY <1>1, <1>2 DEF MarksInv, MarkCalls
<1>5. \A k \in 1 .. at'[t] - 1 : Program(t)[k].do = "mark" => Has(t, Program(t)[k].n)
  <2>. SUFFICES ASSUME NEW k \in 1 .. at'[t] - 1, Program(t)[k].do = "mark"
                PROVE  Has(t, Program(t)[k].n)
    OBVIOUS
  <2>1. k \in 1 .. at[t] - 1
    BY <1>3 DEF Now
  <2>. QED BY <1>2, <2>1 DEF MarksInv
<1>6. OnlyMarksLeft(Peer(t)) => OnlyMarksLeft(Peer(t))'
  <2>. SUFFICES ASSUME OnlyMarksLeft(Peer(t)),
                       NEW k \in at'[Peer(t)] .. Len(Program(Peer(t)))
                PROVE  Program(Peer(t))[k].do = "mark"
    BY <1>1 DEF OnlyMarksLeft
  <2>1. k \in at[Peer(t)] .. Len(Program(Peer(t)))
    BY <1>3, ProgramLemma, PeerLemma DEF SessionInv
  <2>. QED BY <2>1 DEF OnlyMarksLeft
<1>7. Announces(Peer(t))' <=> Announces(Peer(t))
  BY <1>1 DEF Announces
<1>. QED BY <1>1, <1>2, <1>4, <1>5, <1>6, <1>7 DEF MarksInv


(* A reader that has got the whole text of the other side: all of it was      *)
(* flushed, and nothing but marks comes behind.                              *)
LEMMA WholeTextLemma ==
  ASSUME SessionInv, NEW s \in Sides, Running(s), in[s].got = Len(Whole(Program(Peer(s)))),
         Welcomes(Program(s), Program(Peer(s))),
         Now(s).do = "mark", Now(s).n = "work"
  PROVE  OnlyMarksLeft(Peer(s)) /\ Announces(Peer(s))
<1>. DEFINE r == Peer(s)
            Q == Program(r)
<1>0. /\ r \in Sides /\ TypeInv /\ SideInv(s) /\ SideInv(r) /\ phase[s] = "talk"
      /\ at[s] \in 1 .. Len(Program(s))
  BY PeerLemma, ProgramLemma DEF SessionInv, Running, SideInv
<1>1. /\ Tally(r) \in Tallies /\ Prefix(Tally(r).text, Whole(Q)) /\ Whole(Q) \in Seq(Units)
      /\ at[r] \in 1 .. Len(Q) + 1 /\ Len(Q) \in Nat \ {0}
  BY <1>0, TallyLemma, ProgramLemma DEF SideInv
<1>. HIDE DEF r, Q
<1>2. in[s].got <= Len(Tally(r).text) /\ in[s].got <= out[r].sent /\ in[s].got = Len(Whole(Q))
  <2>1. InOrder(in[s], out[r].sent) /\ in[s].got <= Len(Tally(r).text)
    BY <1>0 DEF SideInv, There, r
  <2>2. out[r].sent \in Nat
    BY <1>0 DEF TypeInv, Ostreams
  <2>. QED BY <2>1, <2>2 DEF InOrder, Istreams, r, Q
<1>3. Tally(r).text = Whole(Q)
  <2>1. Tally(r).text \in Seq(Units)
    BY <1>1 DEF Tallies
  <2>2. Len(Tally(r).text) = Len(Whole(Q))
    BY <1>1, <1>2, <2>1 DEF Prefix
  <2>. QED BY <1>1, <2>1, <2>2 DEF Prefix
<1>4. Announces(r) /\ \A i \in 1 .. Len(Q) :
        Progress(Q)[i - 1].text = Whole(Q) /\ Progress(Q)[i - 1].flushed =>
          \A k \in i .. Len(Q) : Q[k].do = "mark"
  BY <1>0 DEF Welcomes, Now, Announces, r, Q
<1>5. CASE AtEnd(r)
  BY <1>1, <1>4, <1>5 DEF AtEnd, OnlyMarksLeft, r, Q
<1>6. CASE ~AtEnd(r)
  <2>1. at[r] \in 1 .. Len(Q)
    BY <1>1, <1>6 DEF AtEnd, Q
  <2>2. Tally(r).flushed
    <3>1. CASE Open(out[r], Tally(r))
      <4>1. out[r].sent \in Nat /\ Len(out[r].text) = Len(Whole(Q)) /\ Len(Whole(Q)) \in Nat
        BY <1>0, <1>1, <1>3, <3>1 DEF Open, TypeInv, Ostreams
      <4>. QED BY <1>2, <3>1, <4>1 DEF Open
    <3>2. CASE Terminated(r)
      <4>1. Q[at[r]].do \in Reads
        BY <1>6, <3>2 DEF Terminated, LeftReading, Now, Q
      <4>2. Understands(Q, Program(s))
        BY <1>0, PeerLemma, ProgramLemma DEF r, Q
      <4>. QED BY <2>1, <4>1, <4>2 DEF Understands, Tally, Q
    <3>. QED BY <1>0, <3>1, <3>2 DEF SideInv
  <2>3. \A k \in at[r] .. Len(Q) : Q[k].do = "mark"
    BY <1>3, <1>4, <2>1, <2>2 DEF Tally, Q
  <2>. QED BY <1>4, <2>3 DEF OnlyMarksLeft, r, Q
<1>. QED BY <1>5, <1>6


LEMMA MarkLemma ==
  ASSUME SessionInv, NEW s \in Sides, MarkDone(s)
  PROVE  SessionInv'
<1>1. /\ Running(s) /\ Return(s) /\ Now(s).do = "mark"
      /\ marks' = [marks EXCEPT ![s] = Append(marks[s], Now(s).n)]
      /\ UNCHANGED <<plan, out, in, phase, complete, damaged, broken, stopped, faults>>
  BY DEF MarkDone, Calls
<1>2. TypeInv /\ SideInv(s) /\ SideInv(Peer(s)) /\ MarksInv(s) /\ MarksInv(Peer(s))
      /\ phase[s] = "talk" /\ Peer(s) \in Sides
  BY <1>1, PeerLemma DEF SessionInv, Running
<1>3. marks'[s] = Append(marks[s], Now(s).n) /\ marks'[Peer(s)] = marks[Peer(s)]
  BY <1>1, <1>2, PeerLemma DEF TypeInv
<1>4. TypeInv'
  <2>1. marks' = [t \in Sides |-> marks'[t]]
    BY <1>1, <1>2 DEF TypeInv
  <2>. QED BY <1>1, <1>2, <2>1, ReturnLemma DEF TypeInv
<1>5. Tally(s)' = Tally(s)
  BY <1>1, ReturnLemma DEF After
<1>6. Program(s)' = Program(s) /\ Program(Peer(s))' = Program(Peer(s)) /\ Peer(s)' = Peer(s)
      /\ Tally(Peer(s))' = Tally(Peer(s)) /\ There(s)' = There(s)
  BY <1>1, ReturnLemma DEF Program, Peer, Tally, There
<1>7. SideInv(s)'
  <2>1. Open(out[s], Tally(s))
    BY <1>2 DEF SideInv, Terminated
  <2>. QED BY <1>1, <1>2, <1>5, <1>6, <2>1, ReturnLemma DEF SideInv
<1>8. SideInv(Peer(s))'
  <2>1. Leaves(Peer(s))
    BY <1>1, <1>3, ReturnLemma DEF Leaves
  <2>2. out[s].sent <= out'[s].sent /\ Len(Tally(s).text) <= Len(Tally(s)'.text)
    <3>1. out[s].sent \in Nat
      BY <1>2 DEF TypeInv, Ostreams
    <3>. QED BY <1>1, <1>5, <3>1, ReturnLemma
  <2>. QED BY <1>4, <2>1, <2>2, PeerLemma, ReturnLemma, OtherSideLemma
<1>9. \A x : Has(s, x)' <=> Has(s, x) \/ x = Now(s).n
  <2>1. marks[s] \in Seq({Program(s)[k].n : k \in MarkCalls(s)})
    BY <1>2 DEF MarksInv
  <2>2. /\ Len(marks[s]) \in Nat /\ DOMAIN marks[s] = 1 .. Len(marks[s])
        /\ DOMAIN marks'[s] = 1 .. Len(marks[s]) + 1
        /\ marks'[s][Len(marks[s]) + 1] = Now(s).n
        /\ \A k \in 1 .. Len(marks[s]) : marks'[s][k] = marks[s][k]
    BY <1>3, <2>1
  <2>. QED BY <2>2 DEF Has
<1>10. at[s] \in 1 .. Len(Program(s)) /\ at'[s] = at[s] + 1
  BY <1>1, ReturnLemma
<1>11. MarksInv(s)'
  <2>1. marks'[s] \in Seq({Program(s)[k].n : k \in MarkCalls(s)}) /\ MarkCalls(s)' = MarkCalls(s)
    <3>1. at[s] \in MarkCalls(s)
      BY <1>1, <1>10 DEF MarkCalls, Now
    <3>2. Now(s).n \in {Program(s)[k].n : k \in MarkCalls(s)}
      BY <3>1 DEF Now
    <3>3. MarkCalls(s)' = MarkCalls(s)
      BY <1>6 DEF MarkCalls
    <3>. HIDE DEF MarkCalls
    <3>. DEFINE names == {Program(s)[k].n : k \in MarkCalls(s)}
    <3>4. marks[s] \in Seq(names) /\ Now(s).n \in names
      BY <1>2, <3>2 DEF MarksInv
    <3>. HIDE DEF names
    <3>5. marks'[s] \in Seq(names)
      BY <1>3, <3>4
    <3>. QED BY <3>3, <3>5 DEF names
  <2>2. \A k \in 1 .. at'[s] - 1 : Program(s)[k].do = "mark" => Has(s, Program(s)[k].n)'
    <3>. SUFFICES ASSUME NEW k \in 1 .. at'[s] - 1, Program(s)[k].do = "mark"
                  PROVE  Has(s, Program(s)[k].n) \/ Program(s)[k].n = Now(s).n
      BY <1>6, <1>9
    <3>1. CASE k = at[s]
      BY <3>1 DEF Now
    <3>2. CASE k # at[s]
      <4>1. k \in 1 .. at[s] - 1
        BY <1>10, <3>2
      <4>. QED BY <1>2, <4>1 DEF MarksInv
    <3>. QED BY <3>1, <3>2
  <2>3. Has(s, "work")' => OnlyMarksLeft(Peer(s)) /\ Announces(Peer(s))
    <3>1. CASE Has(s, "work")
      BY <1>2, <3>1 DEF MarksInv
    <3>2. CASE Now(s).n = "work"
      <4>1. Welcomes(Program(s), Program(Peer(s)))
        BY <1>2, ProgramLemma
      <4>2. in[s].got = Len(Whole(Program(Peer(s))))
        BY <1>1, <1>2, <1>10, <3>2, <4>1 DEF Welcomes, Now, SideInv, Tally
      <4>. QED BY <1>1, <3>2, <4>1, <4>2, WholeTextLemma
    <3>. QED BY <1>9, <3>1, <3>2
  <2>4. (OnlyMarksLeft(Peer(s)) /\ Announces(Peer(s)))' <=> OnlyMarksLeft(Peer(s)) /\ Announces(Peer(s))
    BY <1>1, <1>6, ReturnLemma DEF OnlyMarksLeft, Announces
  <2>. QED BY <1>6, <2>1, <2>2, <2>3, <2>4 DEF MarksInv
<1>12. MarksInv(Peer(s))'
  <2>1. \A x : Has(Peer(s), x)' <=> Has(Peer(s), x)
    BY <1>3, <1>6 DEF Has
  <2>2. OnlyMarksLeft(s) => OnlyMarksLeft(s)'
    <3>1. \A k \in at'[s] .. Len(Program(s)) : k \in at[s] .. Len(Program(s))
      BY <1>2, <1>10, ProgramLemma
    <3>. QED BY <1>6, <3>1 DEF OnlyMarksLeft
  <2>3. Announces(s)' <=> Announces(s)
    BY <1>6 DEF Announces
  <2>4. Peer(Peer(s)) = s /\ Peer(Peer(s))' = s
    BY PeerLemma DEF Peer
  <2>5. at'[Peer(s)] = at[Peer(s)] /\ MarkCalls(Peer(s))' = MarkCalls(Peer(s))
    BY <1>1, <1>6, ReturnLemma DEF MarkCalls
  <2>. QED BY <1>2, <1>3, <1>6, <2>1, <2>2, <2>3, <2>4, <2>5 DEF MarksInv
<1>. QED BY <1>4, <1>7, <1>8, <1>11, <1>12, PeerLemma DEF SessionInv


(* What has come from the other side is a part of its text.                  *)
LEMMA ArrivedLemma ==
  ASSUME SessionInv, NEW s \in Sides
  PROVE  /\ out[Peer(s)].text \in Seq(Units)
         /\ There(s) \in Nat /\ There(s) <= Len(out[Peer(s)].text)
         /\ in[s] \in Istreams /\ InOrder(in[s], There(s))
         /\ Tally(Peer(s)) \in Tallies /\ Len(Tally(Peer(s)).text) \in Nat
         /\ Prefix(Tally(Peer(s)).text, out[Peer(s)].text)
         /\ Prefix(Tally(Peer(s)).text, Whole(Program(Peer(s))))
         /\ \A k \in 1 .. Len(out[Peer(s)].text) :
              k <= Len(Tally(Peer(s)).text) \/ out[Peer(s)].text[k].kind = "end"
<1>. DEFINE r == Peer(s)
            t == Tally(r).text
<1>1. r \in Sides /\ TypeInv /\ SideInv(s) /\ SideInv(r)
  BY PeerLemma DEF SessionInv
<1>2. Tally(r) \in Tallies /\ Prefix(t, Whole(Program(r)))
  BY <1>1, TallyLemma DEF SideInv
<1>3. t \in Seq(Units) /\ Len(t) \in Nat
  BY <1>2 DEF Tallies
<1>4. out[r] \in Ostreams /\ Ordered(out[r]) /\ in[s] \in Istreams
  BY <1>1 DEF SideInv, Open, Terminated, TypeInv
<1>5. out[r].text = t \/ out[r].text = Append(t, Unit("end", 0))
  BY <1>1 DEF SideInv, Open, Terminated
<1>6. There(s) \in Nat /\ There(s) <= Len(out[r].text) /\ out[r].text \in Seq(Units)
  BY <1>4 DEF There, Ordered, Ostreams
<1>7. InOrder(in[s], There(s))
  BY <1>1 DEF SideInv
<1>. HIDE DEF t, r
<1>8. Unit("end", 0) \in Units /\ Unit("end", 0).kind = "end"
  BY DEF Unit, Units
<1>9. /\ Prefix(t, out[r].text)
      /\ \A k \in 1 .. Len(out[r].text) : k <= Len(t) \/ out[r].text[k].kind = "end"
  BY <1>3, <1>5, <1>8 DEF Prefix
<1>. QED BY <1>2, <1>3, <1>4, <1>6, <1>7, <1>9 DEF t, r

(* What a call that reads finds there.                                       *)
LEMMA FoundLemma ==
  ASSUME SessionInv, NEW s \in Sides, Running(s), Now(s).do \in {"read", "check_hash"},
         NEW i \in Filled(in[s], There(s))
  PROVE  /\ InOrder(i, There(s)) /\ i.got < i.ptr
         /\ i.got = Tally(s).read /\ i.since = Tally(s).unchecked
         /\ \/ out[Peer(s)].text[i.got + 1].kind = "end"
            \/ /\ i.got + 1 <= Len(Tally(Peer(s)).text)
               /\ Now(s).do = "read" => out[Peer(s)].text[i.got + 1].kind = "value"
               /\ Now(s).do = "check_hash" =>
                    out[Peer(s)].text[i.got + 1] = Unit("hash", i.since)
<1>1. /\ InOrder(i, There(s)) /\ i.got < i.ptr
      /\ i.got = in[s].got /\ i.since = in[s].since
  BY ArrivedLemma, FilledLemma
<1>2. SideInv(s) /\ TypeInv /\ phase[s] = "talk" /\ at[s] \in 1 .. Len(Program(s))
  BY ProgramLemma DEF SessionInv, Running, SideInv
<1>3. i.got = Tally(s).read /\ i.since = Tally(s).unchecked
  BY <1>1, <1>2 DEF SideInv
<1>4. i.got \in Nat /\ i.got + 1 <= There(s)
  BY <1>1, ArrivedLemma DEF InOrder, Istreams
<1>5. i.got + 1 \in 1 .. Len(out[Peer(s)].text)
  BY <1>4, ArrivedLemma
<1>6. CASE out[Peer(s)].text[i.got + 1].kind = "end"
  BY <1>1, <1>3, <1>6
<1>7. CASE i.got + 1 <= Len(Tally(Peer(s)).text)
  <2>1. i.got + 1 \in 1 .. Len(Tally(Peer(s)).text)
    BY <1>4, <1>7, ArrivedLemma
  <2>2. out[Peer(s)].text[i.got + 1] = Whole(Program(Peer(s)))[i.got + 1]
    BY <2>1, ArrivedLemma DEF Prefix
  <2>3. Understands(Program(s), Program(Peer(s)))
    BY <1>2, ProgramLemma
  <2>4. /\ Now(s).do = "read" => Whole(Program(Peer(s)))[i.got + 1].kind = "value"
        /\ Now(s).do = "check_hash" =>
             Whole(Program(Peer(s)))[i.got + 1] = Unit("hash", i.since)
    <3>1. at[s] \in {k \in 1 .. Len(Program(s)) : Program(s)[k].do \in Reads}
      BY <1>2 DEF Now, Reads
    <3>. QED BY <1>3, <2>3, <3>1 DEF Understands, Now, Tally
  <2>. QED BY <1>1, <1>3, <1>7, <2>2, <2>4
<1>. QED BY <1>5, <1>6, <1>7, ArrivedLemma

LEMMA GotLemma ==
  ASSUME SessionInv, NEW s \in Sides, Running(s), Now(s).do \in Reads, Return(s),
         NEW i, InOrder(i, There(s)), i.got <= Len(Tally(Peer(s)).text),
         i.got = After(Tally(s), Now(s)).read, i.since = After(Tally(s), Now(s)).unchecked,
         in' = [in EXCEPT ![s] = i],
         UNCHANGED <<plan, out, phase, damaged, marks, broken, stopped>>
  PROVE  SessionInv'
<1>1. TypeInv /\ SideInv(s) /\ phase[s] = "talk" /\ Peer(s) \in Sides
  BY PeerLemma DEF SessionInv, Running
<1>2. in'[s] = i /\ in'[Peer(s)] = in[Peer(s)] /\ in' \in [Sides -> Istreams]
  BY <1>1, PeerLemma DEF TypeInv, InOrder
<1>3. TypeInv'
  BY <1>1, <1>2, ReturnLemma DEF TypeInv
<1>4. Tally(s)'.text = Tally(s).text /\ Tally(s)'.since = Tally(s).since
      /\ Tally(s)'.flushed = Tally(s).flushed
  BY ReturnLemma DEF After, Tallies, Reads
<1>5. Tally(Peer(s))' = Tally(Peer(s)) /\ There(s)' = There(s) /\ Program(s)' = Program(s)
      /\ Peer(s)' = Peer(s)
  BY ReturnLemma DEF Tally, There, Program, Peer
<1>6. SideInv(s)'
  <2>1. Open(out[s], Tally(s))
    BY <1>1 DEF SideInv, Terminated
  <2>2. Open(out[s], Tally(s)')
    BY <1>4, <2>1 DEF Open
  <2>3. Fresh(i)
    <3>1. i.got = Tally(s).read + 1 /\ Tally(s).read \in Nat
      BY ReturnLemma DEF After, Tallies, Reads
    <3>. QED BY <3>1 DEF Fresh
  <2>. QED BY <1>1, <1>2, <1>5, <2>2, <2>3, ReturnLemma DEF SideInv
<1>7. SideInv(Peer(s))'
  <2>1. Leaves(Peer(s))
    BY <1>2, ReturnLemma DEF Leaves
  <2>2. out[s].sent <= out'[s].sent /\ Len(Tally(s).text) <= Len(Tally(s)'.text)
    <3>1. out[s].sent \in Nat
      BY <1>1 DEF TypeInv, Ostreams
    <3>. QED BY <1>4, <3>1, ReturnLemma
  <2>. QED BY <1>3, <2>1, <2>2, PeerLemma, ReturnLemma, OtherSideLemma
<1>8. \A t \in Sides : MarksInv(t)'
  BY MarksStay DEF Reads
<1>. QED BY <1>3, <1>6, <1>7, <1>8, PeerLemma DEF SessionInv


(* A side leaves its program, or goes on with closing its streams.           *)
LEMMA LeaveLemma ==
  ASSUME SessionInv, NEW s \in Sides, NEW p \in {"close", "drain", "closed"},
         UNCHANGED <<plan, at, out, marks, broken>>,
         phase' = [phase EXCEPT ![s] = p],
         phase[s] \in {"drain", "closed"} => p \in {"drain", "closed"},
         phase[s] = "talk" =>
           s \in stopped' \/ LeftReading(s) \/ (broken /\ Now(s).do \in Writes),
         stopped \subseteq stopped', stopped' \subseteq stopped \cup {s},
         s \in stopped' => p = "closed",
         in' \in [Sides -> Istreams], in'[Peer(s)] = in[Peer(s)], InOrder(in'[s], There(s)),
         Fresh(in'[s]),
         damaged' \in [Sides -> BOOLEAN], damaged'[Peer(s)] = damaged[Peer(s)], ~damaged'[s]
  PROVE  SessionInv'
<1>1. TypeInv /\ SideInv(s) /\ Peer(s) \in Sides /\ Peer(s) # s
  BY PeerLemma DEF SessionInv
<1>2. phase'[s] = p /\ phase'[Peer(s)] = phase[Peer(s)]
      /\ phase' \in [Sides -> {"talk", "close", "drain", "closed"}]
  BY <1>1 DEF TypeInv
<1>3. TypeInv'
  BY <1>1, <1>2 DEF TypeInv
<1>4. SideInv(Peer(s))'
  <2>1. Leaves(Peer(s))
    BY <1>1, <1>2 DEF Leaves
  <2>2. out[s].sent <= out'[s].sent
    BY <1>1 DEF TypeInv, Ostreams
  <2>. QED BY <1>3, <2>1, <2>2, QuietLemma
<1>5. SideInv(s)'
  <2>1. /\ Tally(s)' = Tally(s) /\ There(s)' = There(s) /\ Program(s)' = Program(s)
        /\ LeftReading(s)' = LeftReading(s) /\ Now(s)' = Now(s)
    BY DEF Tally, There, Program, Peer, LeftReading, AtEnd, Now
  <2>2. Terminated(s) => Terminated(s)'
    BY <1>2, <2>1 DEF Terminated
  <2>. QED BY <1>1, <1>2, <2>1, <2>2 DEF SideInv
<1>6. \A t \in Sides : MarksInv(t)'
  BY MarksStay
<1>. QED BY <1>3, <1>4, <1>5, <1>6, PeerLemma DEF SessionInv

LEMMA ThrowLemma ==
  ASSUME SessionInv, NEW s \in Sides, Throw(s), UNCHANGED <<broken, stopped>>,
         Waiting(s) \/ (broken /\ Running(s) /\ Now(s).do \in Writes)
  PROVE  SessionInv'
<1>1. TypeInv /\ SideInv(s) /\ InOrder(in[s], There(s))
  BY DEF SessionInv, SideInv
<1>2. phase[s] \in {"talk", "drain"} /\ s \notin stopped
      /\ (phase[s] = "talk" => LeftReading(s) \/ (broken /\ Now(s).do \in Writes))
  BY <1>1 DEF Waiting, Running, LeftReading, Reads, SideInv
<1>. DEFINE p == IF phase[s] = "talk" THEN "close" ELSE "closed"
<1>3. phase' = [phase EXCEPT ![s] = p] /\ UNCHANGED <<plan, at, out, in, damaged, marks>>
  BY DEF Throw
<1>4. p \in {"close", "drain", "closed"} /\ (phase[s] \in {"drain", "closed"} => p \in {"drain", "closed"})
  OBVIOUS
<1>5. in' \in [Sides -> Istreams] /\ in'[Peer(s)] = in[Peer(s)] /\ InOrder(in'[s], There(s)) /\ Fresh(in'[s])
      /\ damaged' \in [Sides -> BOOLEAN] /\ damaged'[Peer(s)] = damaged[Peer(s)] /\ ~damaged'[s]
  BY <1>1, <1>3 DEF TypeInv, SideInv
<1>. HIDE DEF p
<1>. QED BY <1>2, <1>3, <1>4, <1>5, LeaveLemma

LEMMA GetRawLemma ==
  ASSUME SessionInv, NEW s \in Sides, GetRaw(s)
  PROVE  SessionInv'
<1>1. PICK i \in Raw(in[s], There(s)) : in' = [in EXCEPT ![s] = i]
  BY DEF GetRaw
<1>2. Running(s) /\ Now(s).do = "raw" /\ Return(s)
      /\ UNCHANGED <<plan, out, phase, damaged, marks, broken, stopped>>
  BY DEF GetRaw, Calls
<1>3. TypeInv /\ SideInv(s) /\ SideInv(Peer(s)) /\ phase[s] = "talk" /\ Peer(s) \in Sides
      /\ at[s] \in 1 .. Len(Program(s))
  BY <1>2, PeerLemma, ReturnLemma DEF SessionInv, Running
<1>4. in[s].got = 0 /\ Tally(s).read = 0 /\ in[s].since = Tally(s).unchecked
  BY <1>2, <1>3, ProgramLemma DEF IsProgram, SideInv, Now, Tally
<1>5. InOrder(i, There(s)) /\ i.got = 1 /\ i.since = in[s].since /\ 1 <= There(s)
  BY <1>1, <1>4, ArrivedLemma, RawLemma
<1>6. Len(Tally(Peer(s)).text) >= 1
  <2>1. CASE Open(out[Peer(s)], Tally(Peer(s)))
    BY <1>5, <2>1, ArrivedLemma DEF Open
  <2>2. CASE Terminated(Peer(s))
    <3>1. at[Peer(s)] # 1
      BY <1>3, <2>2, ProgramLemma DEF Terminated, LeftReading, AtEnd, Now, IsProgram, Reads
    <3>. QED BY <1>3, <3>1, StartedLemma DEF SideInv
  <2>. QED BY <1>3, <2>1, <2>2 DEF SideInv
<1>7. After(Tally(s), Now(s)).read = 1 /\ After(Tally(s), Now(s)).unchecked = Tally(s).unchecked
  <2>1. After(Tally(s), Now(s)) = [Tally(s) EXCEPT !.read = Tally(s).read + 1]
    BY <1>2 DEF After
  <2>2. Tally(s) \in Tallies
    BY <1>2, ReturnLemma
  <2>. QED BY <1>4, <2>1, <2>2 DEF Tallies
<1>8. Now(s).do \in Reads /\ i.got <= Len(Tally(Peer(s)).text)
  BY <1>2, <1>5, <1>6, ArrivedLemma DEF Reads
<1>. QED BY <1>1, <1>2, <1>4, <1>5, <1>7, <1>8, GotLemma


(* A value or a hash: there is the right one, or the end of the stream.       *)
LEMMA GetLemma ==
  ASSUME SessionInv, NEW s \in Sides, GetValue(s) \/ GetHash(s)
  PROVE  SessionInv'
<1>1. Running(s) /\ Now(s).do \in {"read", "check_hash"}
      /\ UNCHANGED <<plan, out, complete, marks, broken, stopped, faults>>
  BY DEF GetValue, GetHash, Get, Calls
<1>2. PICK i \in Filled(in[s], There(s)) :
         LET unit == out[Peer(s)].text[i.got + 1]
             fine == IF Now(s).do = "read" THEN unit.kind = "value" ELSE Fits(i, unit)
             next == IF Now(s).do = "read" THEN Inflate(i) ELSE CheckHash(i)
         IN  IF fine
             THEN in' = [in EXCEPT ![s] = next] /\ Return(s) /\ UNCHANGED <<phase, damaged>>
             ELSE /\ damaged' = [damaged EXCEPT ![s] = unit.kind # "end"]
                  /\ phase' = [phase EXCEPT ![s] = "close"]
                  /\ UNCHANGED <<in, at>>
  <2>1. CASE GetValue(s)
    BY <2>1 DEF GetValue, Get, Calls
  <2>2. CASE GetHash(s)
    BY <2>2 DEF GetHash, Get, Calls
  <2>. QED BY <2>1, <2>2
<1>. DEFINE unit == out[Peer(s)].text[i.got + 1]
            fine == IF Now(s).do = "read" THEN unit.kind = "value" ELSE Fits(i, unit)
            next == IF Now(s).do = "read" THEN Inflate(i) ELSE CheckHash(i)
<1>3. /\ InOrder(i, There(s)) /\ i.got < i.ptr
      /\ i.got = Tally(s).read /\ i.since = Tally(s).unchecked
      /\ unit.kind = "end" \/ (fine /\ i.got + 1 <= Len(Tally(Peer(s)).text))
  BY <1>1, FoundLemma DEF Fits
<1>4. TypeInv /\ SideInv(s) /\ phase[s] = "talk" /\ Peer(s) \in Sides /\ Peer(s) # s
  BY <1>1, PeerLemma DEF SessionInv, Running
<1>5. CASE fine
  <2>1. in' = [in EXCEPT ![s] = next] /\ Return(s) /\ UNCHANGED <<phase, damaged>>
    BY <1>2, <1>5
  <2>2. unit.kind # "end"
    BY <1>5 DEF Fits, Unit
  <2>3. next = [i EXCEPT !.got = i.got + 1, !.since = IF Now(s).do = "read" THEN i.since + 1 ELSE 0]
    BY DEF Inflate, CheckHash
  <2>. DEFINE since == IF Now(s).do = "read" THEN i.since + 1 ELSE 0
  <2>4. next = [start |-> i.start, ptr |-> i.ptr, end |-> i.end, got |-> i.got + 1, since |-> since]
        /\ since \in Nat
    <3>1. i \in Istreams
      BY <1>3 DEF InOrder
    <3>2. since \in Nat
      BY <3>1 DEF Istreams
    <3>3. next = [i EXCEPT !.got = i.got + 1, !.since = since]
      BY <2>3
    <3>. HIDE DEF next, since
    <3>. QED BY <3>1, <3>2, <3>3 DEF Istreams
  <2>5. InOrder(next, There(s)) /\ next.got = i.got + 1 /\ next.since = since
    <3>. HIDE DEF next, since
    <3>. QED BY <1>3, <2>4 DEF InOrder, Istreams
  <2>6. Tally(s) \in Tallies
    BY <1>4, TallyLemma DEF SideInv
  <2>7. After(Tally(s), Now(s)).read = i.got + 1 /\ After(Tally(s), Now(s)).unchecked = since
    <3>1. CASE Now(s).do = "read"
      <4>1. After(Tally(s), Now(s)) =
              [Tally(s) EXCEPT !.read = Tally(s).read + 1, !.unchecked = Tally(s).unchecked + 1]
        BY <3>1 DEF After
      <4>. QED BY <1>3, <2>6, <3>1, <4>1 DEF Tallies
    <3>2. CASE Now(s).do = "check_hash"
      <4>1. After(Tally(s), Now(s)) = [Tally(s) EXCEPT !.read = Tally(s).read + 1, !.unchecked = 0]
        BY <3>2 DEF After
      <4>. QED BY <1>3, <2>6, <3>2, <4>1 DEF Tallies
    <3>. QED BY <1>1, <3>1, <3>2
  <2>8. i.got + 1 <= Len(Tally(Peer(s)).text) /\ Now(s).do \in Reads
    BY <1>1, <1>3, <2>2 DEF Reads
  <2>. HIDE DEF next, since, unit, fine
  <2>. QED BY <1>1, <2>1, <2>5, <2>7, <2>8, GotLemma
<1>6. CASE ~fine
  <2>1. unit.kind = "end"
    BY <1>3, <1>6
  <2>2. /\ damaged' = [damaged EXCEPT ![s] = FALSE]
        /\ phase' = [phase EXCEPT ![s] = "close"]
        /\ UNCHANGED <<in, at>>
    BY <1>2, <1>6, <2>1
  <2>. HIDE DEF next, unit, fine
  <2>3. LeftReading(s) /\ InOrder(in[s], There(s)) /\ Fresh(in[s]) /\ s \notin stopped
    BY <1>1, <1>4 DEF LeftReading, Reads, SideInv
  <2>4. damaged' \in [Sides -> BOOLEAN] /\ damaged'[Peer(s)] = damaged[Peer(s)] /\ ~damaged'[s]
        /\ in' \in [Sides -> Istreams]
    BY <1>4, <2>2 DEF TypeInv
  <2>. QED BY <1>1, <1>4, <2>2, <2>3, <2>4, LeaveLemma
<1>. QED BY <1>5, <1>6


LEMMA CloseOutLemma ==
  ASSUME SessionInv, NEW s \in Sides, CloseOut(s)
  PROVE  SessionInv'
<1>1. /\ phase[s] = "close" /\ phase' = [phase EXCEPT ![s] = "drain"]
      /\ IF broken THEN UNCHANGED out ELSE out' = [out EXCEPT ![s] = Close(out[s])]
      /\ UNCHANGED <<plan, at, in, damaged, marks, broken, stopped>>
  BY DEF CloseOut
<1>2. TypeInv /\ SideInv(s) /\ Peer(s) \in Sides /\ Peer(s) # s
  BY PeerLemma DEF SessionInv
<1>3. s \notin stopped /\ (LeftReading(s) \/ (broken /\ Now(s).do \in Writes))
  BY <1>1, <1>2 DEF SideInv
<1>4. CASE broken
  <2>1. out' = out
    BY <1>1, <1>4
  <2>2. /\ in' \in [Sides -> Istreams] /\ in'[Peer(s)] = in[Peer(s)] /\ InOrder(in'[s], There(s)) /\ Fresh(in'[s])
        /\ damaged' \in [Sides -> BOOLEAN] /\ damaged'[Peer(s)] = damaged[Peer(s)] /\ ~damaged'[s]
    BY <1>1, <1>2 DEF TypeInv, SideInv
  <2>. QED BY <1>1, <1>3, <2>1, <2>2, LeaveLemma
<1>5. CASE ~broken
  <2>1. Open(out[s], Tally(s)) /\ LeftReading(s)
    BY <1>1, <1>2, <1>3, <1>5 DEF SideInv, Terminated
  <2>2. Tally(s) \in Tallies /\ Len(Tally(s).text) \in Nat
    BY <1>2, TallyLemma DEF SideInv, Tallies
  <2>3. /\ Close(out[s]) \in Ostreams /\ Ordered(Close(out[s]))
        /\ Close(out[s]).text = Append(Tally(s).text, Unit("end", 0))
        /\ out[s].sent <= Close(out[s]).sent
    BY <2>1, <2>2, CloseLemma
  <2>4. /\ out'[s] = Close(out[s]) /\ out'[Peer(s)] = out[Peer(s)]
        /\ out' \in [Sides -> Ostreams]
        /\ phase'[s] = "drain" /\ phase'[Peer(s)] = phase[Peer(s)]
        /\ phase' \in [Sides -> {"talk", "close", "drain", "closed"}]
    BY <1>1, <1>2, <1>5, <2>3 DEF TypeInv
  <2>5. TypeInv'
    BY <1>1, <1>2, <2>4 DEF TypeInv
  <2>6. SideInv(Peer(s))'
    <3>1. Leaves(Peer(s))
      BY <1>1, <2>4 DEF Leaves
    <3>. QED BY <1>1, <2>3, <2>4, <2>5, <3>1, QuietLemma
  <2>7. SideInv(s)'
    <3>1. /\ Tally(s)' = Tally(s) /\ There(s)' = There(s) /\ Program(s)' = Program(s)
          /\ LeftReading(s)' = LeftReading(s)
      BY <1>1, <2>4 DEF Tally, There, Program, Peer, LeftReading, AtEnd, Now
    <3>2. Terminated(s)'
      BY <2>1, <2>3, <2>4, <3>1 DEF Terminated
    <3>. QED BY <1>1, <1>2, <1>3, <2>1, <2>4, <3>1, <3>2 DEF SideInv
  <2>8. \A t \in Sides : MarksInv(t)'
    BY <1>1, MarksStay
  <2>. QED BY <2>5, <2>6, <2>7, <2>8, PeerLemma DEF SessionInv
<1>. QED BY <1>4, <1>5

LEMMA DrainLemma ==
  ASSUME SessionInv, NEW s \in Sides, Drain(s)
  PROVE  SessionInv'
<1>1. /\ phase[s] = "drain" /\ in' = [in EXCEPT ![s] = Istream(There(s))]
      /\ phase' = phase \/ phase' = [phase EXCEPT ![s] = "closed"]
      /\ UNCHANGED <<plan, at, out, complete, damaged, marks, broken, stopped>>
  BY DEF Drain
<1>2. TypeInv /\ SideInv(s) /\ Peer(s) \in Sides /\ Peer(s) # s /\ s \notin stopped
  BY <1>1, PeerLemma DEF SessionInv, SideInv
<1>3. There(s) \in Nat
  BY ArrivedLemma
<1>4. Istream(There(s)) \in Istreams /\ InOrder(Istream(There(s)), There(s))
      /\ Fresh(Istream(There(s)))
  BY <1>3 DEF Istream, Istreams, InOrder, Fresh
<1>5. /\ in' \in [Sides -> Istreams] /\ in'[Peer(s)] = in[Peer(s)] /\ InOrder(in'[s], There(s)) /\ Fresh(in'[s])
      /\ damaged' \in [Sides -> BOOLEAN] /\ damaged'[Peer(s)] = damaged[Peer(s)] /\ ~damaged'[s]
  BY <1>1, <1>2, <1>4 DEF TypeInv, SideInv
<1>6. \E p \in {"drain", "closed"} : phase' = [phase EXCEPT ![s] = p]
  BY <1>1, <1>2 DEF TypeInv
<1>7. PICK p \in {"drain", "closed"} : phase' = [phase EXCEPT ![s] = p]
  BY <1>6
<1>. QED BY <1>1, <1>2, <1>5, <1>7, LeaveLemma


LEMMA StopLemma ==
  ASSUME SessionInv, NEW s \in Sides, Stop(s)
  PROVE  SessionInv'
<1>1. /\ phase' = [phase EXCEPT ![s] = "closed"] /\ stopped' = stopped \cup {s}
      /\ UNCHANGED <<plan, at, out, in, complete, damaged, marks, broken>>
  BY DEF Stop
<1>2. /\ in' \in [Sides -> Istreams] /\ in'[Peer(s)] = in[Peer(s)] /\ InOrder(in'[s], There(s)) /\ Fresh(in'[s])
      /\ damaged' \in [Sides -> BOOLEAN] /\ damaged'[Peer(s)] = damaged[Peer(s)] /\ ~damaged'[s]
  BY <1>1 DEF SessionInv, TypeInv, SideInv
<1>. QED BY <1>1, <1>2, LeaveLemma

LEMMA ProgramEndsLemma ==
  ASSUME SessionInv, NEW s \in Sides, ProgramEnds(s)
  PROVE  SessionInv'
<1>1. /\ phase[s] = "talk" /\ at[s] > Len(Program(s))
      /\ phase' = [phase EXCEPT ![s] = "close"]
      /\ UNCHANGED <<plan, at, out, in, damaged, marks, broken, stopped>>
  BY DEF ProgramEnds
<1>2. /\ in' \in [Sides -> Istreams] /\ in'[Peer(s)] = in[Peer(s)] /\ InOrder(in'[s], There(s)) /\ Fresh(in'[s])
      /\ damaged' \in [Sides -> BOOLEAN] /\ damaged'[Peer(s)] = damaged[Peer(s)] /\ ~damaged'[s]
  BY <1>1 DEF SessionInv, TypeInv, SideInv
<1>3. LeftReading(s) /\ s \notin stopped
  BY <1>1, ProgramLemma DEF SessionInv, SideInv, LeftReading, AtEnd
<1>. QED BY <1>1, <1>2, <1>3, LeaveLemma

(* Nothing but broken changes.                                               *)
LEMMA BreakLemma ==
  ASSUME SessionInv, UNCHANGED <<plan, at, out, in, phase, damaged, marks, stopped>>,
         broken => broken'
  PROVE  SessionInv'
<1>1. TypeInv'
  BY DEF SessionInv, TypeInv
<1>2. ASSUME NEW s \in Sides PROVE SideInv(s)' /\ MarksInv(s)'
  <2>1. SideInv(Peer(Peer(s)))'
    <3>1. Leaves(Peer(Peer(s)))
      BY DEF Leaves
    <3>2. Peer(s) \in Sides /\ out[Peer(s)].sent <= out'[Peer(s)].sent
      BY PeerLemma DEF SessionInv, TypeInv, Ostreams
    <3>. QED BY <1>1, <3>1, <3>2, QuietLemma
  <2>2. MarksInv(s)'
    BY MarksStay
  <2>3. SideInv(s)'
    BY <2>1, PeerLemma, Zenon
  <2>. QED BY <2>2, <2>3
<1>. QED BY <1>1, <1>2 DEF SessionInv

LEMMA StepLemma == SessionInv /\ [Next]_svars => SessionInv'
<1>. SUFFICES ASSUME SessionInv, [Next]_svars PROVE SessionInv'
  OBVIOUS
<1>1. ASSUME NEW s \in Sides, Step(s) PROVE SessionInv'
  <2>1. CASE PutStart(s) \/ PutValue(s) \/ PutHash(s) \/ PutFlush(s)
    <3>1. /\ TypeInv' /\ SideInv(s)' /\ SideInv(Peer(s))'
          /\ Running(s) /\ Return(s) /\ Now(s).do \in Writes /\ plan' = plan /\ marks' = marks
      BY <2>1, WritingLemma
    <3>2. \A t \in Sides : MarksInv(t)'
      BY <3>1, MarksStay DEF Writes
    <3>. QED BY <3>1, <3>2, PeerLemma DEF SessionInv
  <2>2. CASE MarkDone(s)
    BY <2>2, MarkLemma
  <2>3. CASE GetRaw(s)
    BY <2>3, GetRawLemma
  <2>4. CASE GetValue(s) \/ GetHash(s)
    BY <2>4, GetLemma
  <2>5. CASE NothingComes(s)
    BY <2>5, ThrowLemma DEF NothingComes
  <2>6. CASE Broken(s)
    BY <2>6, ThrowLemma DEF Broken
  <2>7. CASE ProgramEnds(s)
    BY <2>7, ProgramEndsLemma
  <2>8. CASE CloseOut(s)
    BY <2>8, CloseOutLemma
  <2>9. CASE Drain(s)
    BY <2>9, DrainLemma
  <2>. QED BY <1>1, <2>1, <2>2, <2>3, <2>4, <2>5, <2>6, <2>7, <2>8, <2>9 DEF Step
<1>2. ASSUME NEW s \in Sides, LateAnswer(s) PROVE SessionInv'
  BY <1>2, ThrowLemma DEF LateAnswer
<1>3. ASSUME NEW s \in Sides, Stop(s) PROVE SessionInv'
  BY <1>3, StopLemma
<1>4. CASE Break
  BY <1>4, BreakLemma DEF Break
<1>5. CASE UNCHANGED svars
  BY <1>5, BreakLemma DEF svars
<1>. QED BY <1>1, <1>2, <1>3, <1>4, <1>5 DEF Next

THEOREM SessionInvHolds == Spec => []SessionInv
BY InitLemma, StepLemma, PTL DEF Spec


-----------------------------------------------------------------------------
(* Theorems                                                                    *)

(* However the streams are cut by buffers, by zlib or by the network, and     *)
(* wherever they break: no side takes a value for a hash, or finds a hash     *)
(* that does not cover what it has read (check_hash() never throws "Damaged   *)
(* file" for another reason than the end of the stream).                     *)
THEOREM HashesFit == Spec => []NeverDamaged
<1>1. SessionInv => NeverDamaged
  BY DEF SessionInv, SideInv, NeverDamaged
<1>. QED BY <1>1, SessionInvHolds, PTL

(* When both sides wait, there is a side whose zlib has kept back a part of   *)
(* what was flushed: the caches and the order of the calls are no reason.     *)
THEOREM OnlyZlibBlocks == Spec => []StuckOnlyByZlib
<1>1. ASSUME SessionInv, \A s \in Sides : phase[s] = "talk" /\ Waiting(s),
             \A s \in Sides : ~(out[s].emitted < Len(out[s].text))
      PROVE  FALSE
  <2>1. ASSUME NEW s \in Sides
        PROVE  /\ at[s] \in 1 .. Len(Program(s)) /\ Program(s)[at[s]].do \in Reads
               /\ in[s].got = There(s)
               /\ in[s].got = Progress(Program(s))[at[s] - 1].read
               /\ out[s].text = Progress(Program(s))[at[s] - 1].text
               /\ out[s].sent = Len(out[s].text)
               /\ There(s) = out[Peer(s)].sent
    <3>1. TypeInv /\ SideInv(s) /\ phase[s] = "talk" /\ Running(s) /\ Now(s).do \in Reads
      BY <1>1 DEF SessionInv, Waiting, Reads
    <3>2. at[s] \in 1 .. Len(Program(s)) /\ Open(out[s], Tally(s))
      BY <3>1, ProgramLemma DEF SideInv, Running, Terminated
    <3>3. Tally(s).flushed
      BY <3>1, <3>2, ProgramLemma DEF Understands, Now, Tally
    <3>4. out[s].sent = Len(out[s].text)
      <4>1. out[s] \in Ostreams /\ out[s].sent = out[s].emitted /\ out[s].emitted <= Len(out[s].text)
        BY <3>2, <3>3 DEF Open, Ordered, Ostreams
      <4>. QED BY <1>1, <4>1 DEF Ostreams
    <3>5. in[s].got = There(s)
      <4>1. in[s].ptr = There(s) /\ (Now(s).do = "raw" \/ in[s].got = in[s].ptr)
        BY <1>1, <3>1 DEF Waiting, Reads
      <4>2. Now(s).do = "raw" => in[s].got = 0
        BY <3>1, <3>2, ProgramLemma DEF IsProgram, SideInv, Now, Tally
      <4>. QED BY <3>1, <4>1, <4>2 DEF SideInv, Fresh
    <3>. QED BY <3>1, <3>2, <3>4, <3>5 DEF SideInv, Open, Now, Tally, There
  <2>2. PICK s \in Sides : TRUE
    BY DEF Sides
  <2>. DEFINE P == Program(s)
              Q == Program(Peer(s))
              j == at[s]
              i == at[Peer(s)]
  <2>3. Peer(s) \in Sides /\ Peer(Peer(s)) = s
    BY PeerLemma
  <2>4. /\ Progress(P)[j - 1].read = Len(Progress(Q)[i - 1].text)
        /\ Progress(Q)[i - 1].read = Len(Progress(P)[j - 1].text)
        /\ j \in {k \in 1 .. Len(P) : P[k].do \in Reads}
        /\ i \in 1 .. Len(Q) /\ Q[i].do \in Reads
    BY <2>1, <2>3
  <2>5. Understands(P, Q)
    BY <1>1, ProgramLemma DEF SessionInv
  <2>6. Progress(Q)[i - 1] \in Tallies /\ Progress(P)[j - 1] \in Tallies
    BY <1>1, <2>3, TallyLemma DEF SessionInv, SideInv, Tally
  <2>. HIDE DEF P, Q, i, j
  <2>7. \/ Progress(P)[j - 1].read + 1 <= Len(Progress(Q)[i - 1].text)
        \/ Progress(Q)[i - 1].read < Len(Progress(P)[j - 1].text)
    BY <2>4, <2>5 DEF Understands
  <2>8. Len(Progress(Q)[i - 1].text) \in Nat /\ Len(Progress(P)[j - 1].text) \in Nat
    BY <2>6 DEF Tallies
  <2>. QED BY <2>4, <2>7, <2>8
<1>2. SessionInv => StuckOnlyByZlib
  BY <1>1 DEF StuckOnlyByZlib
<1>. QED BY <1>2, SessionInvHolds, PTL

(* A node that has joined and works is announced by the node that it has      *)
(* talked to, when that one has ended the session and was not stopped,        *)
(* whether the connection breaks or an answer is late.                       *)
THEOREM JoinersAreAnnounced == Spec => []JoinerIsAnnounced
<1>1. ASSUME SessionInv, Has(Joiner, "work"), phase[Peer(Joiner)] = "closed",
             Peer(Joiner) \notin stopped
      PROVE  Has(Peer(Joiner), "announced")
  <2>. DEFINE r == Peer(Joiner)
  <2>1. Joiner \in Sides /\ r \in Sides
    BY DEF Joiner, Sides, Peer
  <2>2. TypeInv /\ SideInv(r) /\ MarksInv(r) /\ OnlyMarksLeft(r) /\ Announces(r)
    BY <1>1, <2>1 DEF SessionInv, MarksInv
  <2>. HIDE DEF r
  <2>3. LeftReading(r) \/ Now(r).do \in Writes
    BY <1>1, <2>2 DEF SideInv, r
  <2>4. AtEnd(r)
    <3>. SUFFICES ASSUME ~AtEnd(r) PROVE FALSE
      OBVIOUS
    <3>1. at[r] \in 1 .. Len(Program(r)) /\ at[r] \in at[r] .. Len(Program(r))
      BY <2>1, <2>2, ProgramLemma DEF SideInv, AtEnd
    <3>2. Now(r).do = "mark"
      BY <2>2, <3>1 DEF OnlyMarksLeft, Now
    <3>. QED BY <2>3, <3>2 DEF LeftReading, Reads, Writes
  <2>5. PICK k \in 1 .. Len(Program(r)) : Program(r)[k].do = "mark" /\ Program(r)[k].n = "announced"
    BY <2>2 DEF Announces
  <2>6. k \in 1 .. at[r] - 1
    BY <2>1, <2>2, <2>4, ProgramLemma DEF AtEnd
  <2>7. Has(r, "announced")
    BY <2>2, <2>5, <2>6 DEF MarksInv
  <2>. QED BY <2>7 DEF r
<1>2. SessionInv => JoinerIsAnnounced
  BY <1>1 DEF JoinerIsAnnounced
<1>. QED BY <1>2, SessionInvHolds, PTL

-----------------------------------------------------------------------------
(* The file of an invite: what is behind the end of the stream                 *)

FileUnits == [kind : {"raw", "value", "hash", "end", "uuid"}, since : Nat \cup Joiners]

LEMMA BehindLemma ==
  ASSUME NEW t \in Seq(FileUnits), NEW u \in Seq(FileUnits), NEW n \in 0 .. Len(t)
  PROVE  /\ SubSeq(t, 1, n) \o u \in Seq(FileUnits)
         /\ Len(SubSeq(t, 1, n) \o u) = n + Len(u)
         /\ SubSeq(SubSeq(t, 1, n) \o u, n + 1, Len(SubSeq(t, 1, n) \o u)) = u
<1>. DEFINE p == SubSeq(t, 1, n)
            s == p \o u
            b == SubSeq(s, n + 1, Len(s))
<1>0. Len(t) \in Nat /\ Len(u) \in Nat
  OBVIOUS
<1>1. p \in Seq(FileUnits) /\ Len(p) = n
  <2>1. \A k \in 1 .. n : t[k] \in FileUnits
    BY <1>0
  <2>. QED BY <1>0, <2>1, SubSeqProperties
<1>. HIDE DEF p
<1>2. s \in Seq(FileUnits) /\ Len(s) = n + Len(u) /\ \A k \in 1 .. Len(u) : s[n + k] = u[k]
  BY <1>0, <1>1
<1>. HIDE DEF s
<1>3. b \in Seq(FileUnits) /\ Len(b) = Len(u) /\ \A k \in 1 .. Len(u) : b[k] = s[n + k]
  <2>1. \A k \in n + 1 .. Len(s) : s[k] \in FileUnits
    BY <1>0, <1>2
  <2>2. Len(s) \in Nat /\ n + 1 \in 1 .. Len(s) + 1
    BY <1>0, <1>2
  <2>. QED BY <1>0, <1>2, <2>1, <2>2, SubSeqProperties
<1>. HIDE DEF b
<1>4. b = u
  BY <1>0, <1>2, <1>3, SeqEqual
<1>. QED BY <1>1, <1>2, <1>4 DEF p, s, b

(* A trailer holds the ids that were to be written, and nothing else.       *)
LEMMA TrailerLemma ==
  ASSUME NEW ids \in SUBSET Joiners
  PROVE  /\ write_trailer_uuids(ids) \in Seq(FileUnits)
         /\ Ids(write_trailer_uuids(ids)) = ids
<1>. DEFINE n == Cardinality(ids)
            order == SetToSeq(ids)
            list == [k \in 1 .. n |-> Unit("uuid", order[k])]
            first == <<Unit("raw", 0)>>
            last == <<Unit("hash", n)>>
<1>1. n \in Nat /\ IsFiniteSet(ids)
  BY JoinersAssumption, FS_Subset, FS_CardinalityType
<1>2. order \in [1 .. n -> ids] /\ \A x \in ids : \E k \in 1 .. n : order[k] = x
  <2>1. PICK g \in [1 .. n -> ids] : IsInjective(g)
    <3>1. ExistsBijection(1 .. n, ids)
      BY <1>1, FS_CardinalityType
    <3>. QED BY <3>1 DEF ExistsBijection, Bijection, Injection, Surjection, IsInjective
  <2>2. order = CHOOSE f \in [1 .. n -> ids] : IsInjective(f)
    BY DEF SetToSeq
  <2>3. order \in [1 .. n -> ids] /\ IsInjective(order)
    BY <2>1, <2>2
  <2>4. order \in Injection(1 .. n, ids)
    BY <2>3 DEF IsInjective, Injection
  <2>5. IsFiniteSet(1 .. n) /\ Cardinality(1 .. n) = n
    BY <1>1, FS_Interval
  <2>6. order \in Surjection(1 .. n, ids)
    BY <1>1, <2>4, <2>5, FS_Injection
  <2>. QED BY <2>3, <2>6 DEF Surjection
<1>. HIDE DEF order, n
<1>3. list \in Seq(FileUnits) /\ Len(list) = n /\ first \in Seq(FileUnits) /\ last \in Seq(FileUnits)
  BY <1>1, <1>2 DEF Unit, FileUnits
<1>4. \A k \in 1 .. n : list[k].kind = "uuid" /\ list[k].since = order[k]
  BY DEF Unit
<1>. DEFINE t == first \o list \o last
<1>. HIDE DEF list
<1>5. /\ t \in Seq(FileUnits) /\ Len(t) = n + 2
      /\ t[1].kind = "raw" /\ t[n + 2].kind = "hash"
      /\ \A k \in 1 .. n : t[k + 1] = list[k]
  BY <1>1, <1>3 DEF Unit
<1>6. write_trailer_uuids(ids) = t
  BY DEF write_trailer_uuids, list, order, n
<1>. HIDE DEF t
<1>7. ASSUME NEW x \in Ids(t) PROVE x \in ids
  <2>1. PICK k \in DOMAIN t : t[k].kind = "uuid" /\ x = t[k].since
    BY DEF Ids
  <2>2. k \in 1 .. n + 2 /\ k # 1 /\ k # n + 2
    BY <1>1, <1>5, <2>1
  <2>3. k - 1 \in 1 .. n /\ (k - 1) + 1 = k
    BY <1>1, <2>2
  <2>. QED BY <1>2, <1>4, <1>5, <2>1, <2>3
<1>8. ASSUME NEW x \in ids PROVE x \in Ids(t)
  <2>1. PICK k \in 1 .. n : order[k] = x
    BY <1>2
  <2>2. k + 1 \in DOMAIN t /\ t[k + 1].kind = "uuid" /\ t[k + 1].since = x
    BY <1>1, <1>4, <1>5, <2>1
  <2>. QED BY <2>2 DEF Ids
<1>. QED BY <1>5, <1>6, <1>7, <1>8

-----------------------------------------------------------------------------
(* The file while the inviter writes it                                        *)

FileStream(o) ==
  /\ o = [text |-> o.text, ready |-> o.ready, emitted |-> o.emitted, sent |-> o.sent,
          since |-> o.since, net |-> o.net]
  /\ o.text \in Seq(FileUnits) /\ o.since \in Nat /\ ~o.net

LEMMA CollectKeeps ==
  ASSUME NEW o, FileStream(o), NEW e
  PROVE  /\ FileStream(Collect(o, e))
         /\ Collect(o, e).text = o.text /\ Collect(o, e).since = o.since
<1>1. PICK s : Collect(o, e) = [o EXCEPT !.emitted = e, !.sent = s]
  BY DEF Collect
<1>. HIDE DEF Collect
<1>2. Collect(o, e) = [text |-> o.text, ready |-> o.ready, emitted |-> e, sent |-> s,
                       since |-> o.since, net |-> o.net]
  BY <1>1 DEF FileStream
<1>. QED BY <1>2 DEF FileStream

LEMMA DeflatedAppends ==
  ASSUME NEW o, FileStream(o), NEW units \in Seq(FileUnits), NEW x \in Deflated(o, units)
  PROVE  FileStream(x) /\ x.text = o.text \o units /\ x.since = o.since
<1>. DEFINE text == o.text \o units
<1>1. PICK e, r : x = [Collect(o, e) EXCEPT !.text = text, !.ready = r]
  BY DEF Deflated
<1>2. text \in Seq(FileUnits)
  BY DEF FileStream
<1>. HIDE DEF text
<1>. DEFINE c == Collect(o, e)
<1>3. FileStream(c) /\ c.since = o.since
  BY CollectKeeps
<1>. HIDE DEF c
<1>4. x = [text |-> text, ready |-> r, emitted |-> c.emitted, sent |-> c.sent,
           since |-> c.since, net |-> c.net]
  BY <1>1, <1>3 DEF FileStream, c
<1>. QED BY <1>2, <1>3, <1>4 DEF FileStream, text

\* The streams that a call may leave
Written(o, c) ==
  CASE c.do = "start" -> {Start(o)}
    [] c.do = "write" -> Write(o, c.n)
    [] c.do = "write_hash" -> WriteHash(o)
    [] c.do = "flush_net" -> FlushNet(o)

(* Each call adds what After() says to the file. *)
LEMMA WrittenLemma ==
  ASSUME NEW o, FileStream(o), NEW a \in Tallies, NEW n \in Nat, Len(o.text) = n + Len(a.text),
         NEW c, IsCall(c), c.do \in Writes, NEW x \in Written(o, c)
  PROVE  FileStream(x) /\ Len(x.text) = n + Len(After(a, c).text)
<1>0. o.text \in Seq(FileUnits) /\ o.since \in Nat /\ a.text \in Seq(Units) /\ Len(a.text) \in Nat
  BY DEF FileStream, Tallies
<1>1. CASE c.do = "start"
  <2>1. After(a, c).text = Append(a.text, Unit("raw", 0)) /\ x = Start(o)
    BY <1>1 DEF After, Written, Tallies
  <2>2. Unit("raw", 0) \in FileUnits /\ Unit("raw", 0) \in Units
    BY DEF Unit, FileUnits, Units
  <2>. DEFINE unit == Unit("raw", 0)
              text == Append(o.text, unit)
  <2>. HIDE DEF unit
  <2>3. /\ text \in Seq(FileUnits) /\ Len(text) = Len(o.text) + 1
        /\ Len(Append(a.text, unit)) = Len(a.text) + 1
    BY <1>0, <2>2 DEF unit
  <2>. HIDE DEF text
  <2>4. PICK m, s : Start(o) = [o EXCEPT !.text = text, !.ready = m, !.emitted = m, !.sent = s]
    BY DEF Start, text, unit
  <2>5. x = [text |-> text, ready |-> m, emitted |-> m, sent |-> s, since |-> o.since, net |-> o.net]
    BY <2>1, <2>4 DEF FileStream
  <2>6. FileStream(x) /\ x.text = text
    BY <1>0, <2>3, <2>5 DEF FileStream
  <2>. QED BY <1>0, <2>1, <2>3, <2>6 DEF unit
<1>2. CASE c.do = "write"
  <2>. DEFINE units == [k \in 1 .. c.n |-> Unit("value", 0)]
  <2>1. c.n \in Nat
    BY <1>2 DEF IsCall
  <2>2. units \in Seq(FileUnits) /\ units \in Seq(Units) /\ Len(units) = c.n
    <3>. DEFINE unit == Unit("value", 0)
    <3>1. unit \in FileUnits /\ unit \in Units
      BY DEF Unit, FileUnits, Units
    <3>. HIDE DEF unit
    <3>2. \A k \in 1 .. c.n : units[k] = unit
      BY DEF unit
    <3>3. units \in [1 .. c.n -> FileUnits] /\ units \in [1 .. c.n -> Units]
      BY <3>1, <3>2
    <3>. HIDE DEF units
    <3>. QED BY <2>1, <3>3
  <2>3. After(a, c).text = a.text \o units
    BY <1>2 DEF After, Tallies
  <2>4. PICK y \in Deflated(o, units) : x = [y EXCEPT !.since = @ + c.n]
    BY <1>2 DEF Written, Write, Writes
  <2>. HIDE DEF units
  <2>5. FileStream(y) /\ y.text = o.text \o units /\ y.since = o.since
    BY <2>2, <2>4, DeflatedAppends
  <2>6. x = [text |-> y.text, ready |-> y.ready, emitted |-> y.emitted, sent |-> y.sent,
             since |-> y.since + c.n, net |-> y.net]
    BY <2>4, <2>5 DEF FileStream
  <2>7. FileStream(x) /\ x.text = o.text \o units
    BY <2>1, <2>5, <2>6 DEF FileStream
  <2>8. Len(o.text \o units) = Len(o.text) + c.n /\ Len(a.text \o units) = Len(a.text) + c.n
    <3>1. Len(o.text \o units) = Len(o.text) + Len(units)
      BY <1>0, <2>2, ConcatProperties, Zenon
    <3>2. Len(a.text \o units) = Len(a.text) + Len(units)
      BY <1>0, <2>2, ConcatProperties, Zenon
    <3>. QED BY <2>2, <3>1, <3>2
  <2>. QED BY <1>0, <2>1, <2>3, <2>7, <2>8
<1>3. CASE c.do = "write_hash"
  <2>. DEFINE units == <<Unit("hash", o.since)>>
  <2>1. After(a, c).text = Append(a.text, Unit("hash", a.since)) /\ Unit("hash", a.since) \in Units
    BY <1>3 DEF After, Tallies, Unit, Units
  <2>2. units \in Seq(FileUnits) /\ Len(units) = 1
    BY <1>0 DEF Unit, FileUnits
  <2>3. PICK y \in Deflated(o, units) : x = [y EXCEPT !.since = 0]
    BY <1>3 DEF Written, WriteHash, Writes
  <2>. HIDE DEF units
  <2>4. FileStream(y) /\ y.text = o.text \o units
    BY <2>2, <2>3, DeflatedAppends
  <2>5. x = [text |-> y.text, ready |-> y.ready, emitted |-> y.emitted, sent |-> y.sent,
             since |-> 0, net |-> y.net]
    BY <2>3, <2>4 DEF FileStream
  <2>6. FileStream(x) /\ x.text = o.text \o units
    BY <2>4, <2>5 DEF FileStream
  <2>7. Len(After(a, c).text) = Len(a.text) + 1
    BY <1>0, <2>1
  <2>8. Len(o.text \o units) = Len(o.text) + Len(units)
    BY <1>0, <2>2, ConcatProperties, Zenon
  <2>9. Len(o.text) \in Nat
    BY <1>0
  <2>. QED BY <1>0, <2>2, <2>6, <2>7, <2>8, <2>9
<1>4. CASE c.do = "flush_net"
  <2>1. After(a, c).text = a.text /\ x = o
    BY <1>4 DEF After, Tallies, Written, FlushNet, FileStream
  <2>. QED BY <2>1
<1>5. c.do = "start" \/ c.do = "write" \/ c.do = "write_hash" \/ c.do = "flush_net"
  BY DEF Writes
<1>. QED BY <1>1, <1>2, <1>3, <1>4, <1>5

-----------------------------------------------------------------------------
(* Who reads the file comes to its end                                         *)

Writer == InvitePrograms[group].writer
Readers == Joiners \cup {"finalizer"}
Base(u) == IF u = "finalizer" THEN Len(Header) ELSE 0
EndOfStream == Len(Header) + Len(Whole(Writer)) + 1
Behind == Ids(SubSeq(file.text, EndOfStream + 1, Len(file.text)))

FileReader(i) ==
  i = [start |-> i.start, ptr |-> i.ptr, end |-> i.end, got |-> i.got, since |-> i.since]

\* The inviter has written as much as its program says, and nobody has joined.
Writing ==
  /\ saved = {} /\ step \in 1 .. Len(Writer) + 1
  /\ Len(file.text) = Len(Header) + Len(Progress(Writer)[step - 1].text)

\* The stream is complete, and behind it are all that have saved.
Trailing ==
  /\ EndOfStream <= Len(file.text)
  /\ Behind \subseteq Joiners /\ saved \subseteq Behind

\* A reader is where its program says, or at the end of the stream.
Reading ==
  LET P == ProgramFor(user) IN
  /\ FileReader(reader)
  /\ \/ step = 0 /\ reader.ptr = EndOfStream
     \/ /\ step \in 1 .. Len(P) + 1
        /\ reader.got = Base(user) + Progress(P)[step - 1].read
        /\ \A k \in 1 .. step - 1 : P[k].do # "skip"

InviteInv ==
  /\ group \in Groups /\ user \in Readers \cup {"writer", Nobody} /\ saved \subseteq Joiners
  /\ FileStream(file)
  /\ welcomed.invited \subseteq welcomed.members
  /\ user = "writer" => Writing
  /\ user # "writer" => Trailing
  /\ user \in Readers => Reading

LEMMA UsersDiffer ==
  /\ "writer" \notin Readers /\ Nobody \notin Readers /\ Nobody # "writer"
  /\ "finalizer" \notin Joiners
BY JoinersAssumption DEF Readers

LEMMA ProgramsLemma ==
  ASSUME group \in Groups
  PROVE  /\ ProgramFor("writer") = Writer
         /\ Len(Writer) \in Nat
         /\ \A k \in 1 .. Len(Writer) : IsCall(Writer[k]) /\ Writer[k].do \in Writes
         /\ \A u \in Readers :
              /\ Len(ProgramFor(u)) \in Nat
              /\ \A k \in 1 .. Len(ProgramFor(u)) :
                   IsCall(ProgramFor(u)[k]) /\ ProgramFor(u)[k].do \in Reads \cup {"skip"}
              /\ (\A k \in 1 .. Len(ProgramFor(u)) : ProgramFor(u)[k].do # "skip") =>
                    Base(u) + Progress(ProgramFor(u))[Len(ProgramFor(u))].read
                      = Len(Header) + Len(Whole(Writer))
<1>. DEFINE P == InvitePrograms[group]
<1>1. CanJoin(P)
  BY GroupsAssumption
<1>2. P.writer = Writer /\ ProgramFor("writer") = Writer
  BY JoinersAssumption DEF Writer, ProgramFor
<1>3. ProgramFor("finalizer") = P.finalizer /\ \A u \in Joiners : ProgramFor(u) = P.joiner
  BY JoinersAssumption DEF ProgramFor
<1>. HIDE DEF P
<1>4. \A c : c.do \in Reads \cup {"skip"} => IsCall(c)
  BY DEF IsCall, Reads, Writes
<1>5. /\ Len(Writer) \in Nat
      /\ \A k \in 1 .. Len(Writer) : IsCall(Writer[k]) /\ Writer[k].do \in Writes
  BY <1>1, <1>2 DEF CanJoin, IsCall
<1>6. /\ Len(P.finalizer) \in Nat
      /\ \A k \in 1 .. Len(P.finalizer) : P.finalizer[k].do \in Reads \cup {"skip"}
      /\ (\A k \in 1 .. Len(P.finalizer) : P.finalizer[k].do # "skip") =>
           Progress(P.finalizer)[Len(P.finalizer)].read = Len(Whole(Writer))
  BY <1>1, <1>2 DEF CanJoin
<1>7. /\ Len(P.joiner) \in Nat
      /\ \A k \in 1 .. Len(P.joiner) : P.joiner[k].do \in Reads \cup {"skip"}
      /\ (\A k \in 1 .. Len(P.joiner) : P.joiner[k].do # "skip") =>
           Progress(P.joiner)[Len(P.joiner)].read = Len(Header) + Len(Whole(Writer))
  BY <1>1, <1>2 DEF CanJoin
<1>8. Len(Header) = 1 /\ Len(Whole(Writer)) \in Nat
  <2>1. Progress(Writer)[Len(Writer)] \in Tallies
    BY <1>5, TalliesLemma
  <2>. QED BY <2>1 DEF Whole, Tallies, Header
<1>9. ASSUME NEW u \in Readers
      PROVE  /\ Len(ProgramFor(u)) \in Nat
             /\ \A k \in 1 .. Len(ProgramFor(u)) :
                  IsCall(ProgramFor(u)[k]) /\ ProgramFor(u)[k].do \in Reads \cup {"skip"}
             /\ (\A k \in 1 .. Len(ProgramFor(u)) : ProgramFor(u)[k].do # "skip") =>
                   Base(u) + Progress(ProgramFor(u))[Len(ProgramFor(u))].read
                     = Len(Header) + Len(Whole(Writer))
  <2>1. CASE u = "finalizer"
    BY <1>3, <1>4, <1>6, <1>8, <2>1 DEF Base
  <2>2. CASE u # "finalizer"
    <3>1. ProgramFor(u) = P.joiner /\ Base(u) = 0
      BY <1>3, <2>2 DEF Readers, Base
    <3>. QED BY <1>4, <1>7, <1>8, <3>1
  <2>. QED BY <2>1, <2>2
<1>. QED BY <1>2, <1>5, <1>9

LEMMA FilledKeeps ==
  ASSUME NEW r, FileReader(r), NEW there, NEW i \in Filled(r, there)
  PROVE  FileReader(i) /\ i.got = r.got /\ i.since = r.since
<1>1. i = r \/ \E f \in {r} \cup Fetch(r, there) : i = Take(f)
  BY DEF Filled
<1>2. ASSUME NEW f \in Fetch(r, there)
      PROVE  FileReader(f) /\ f.got = r.got /\ f.since = r.since
  <2>1. PICK s, e : f = [r EXCEPT !.start = s, !.end = e]
    BY DEF Fetch
  <2>2. f = [start |-> s, ptr |-> r.ptr, end |-> e, got |-> r.got, since |-> r.since]
    BY <2>1 DEF FileReader
  <2>. QED BY <2>2 DEF FileReader
<1>3. ASSUME NEW f, FileReader(f), i = Take(f)
      PROVE  FileReader(i) /\ i.got = f.got /\ i.since = f.since
  <2>1. PICK p : i = [f EXCEPT !.ptr = p]
    BY <1>3 DEF Take
  <2>2. i = [start |-> f.start, ptr |-> p, end |-> f.end, got |-> f.got, since |-> f.since]
    BY <1>3, <2>1 DEF FileReader
  <2>. QED BY <2>2 DEF FileReader
<1>. QED BY <1>1, <1>2, <1>3

(* Each call that reads takes one unit. *)
LEMMA ReadLemma ==
  ASSUME NEW r, FileReader(r), NEW there, r.got \in Nat,
         NEW x, \/ x \in Raw(r, there)
                \/ \E i \in Filled(r, there) : x = Inflate(i) \/ x = CheckHash(i)
  PROVE  FileReader(x) /\ x.got = r.got + 1
<1>1. ASSUME NEW i \in Filled(r, there), x = Inflate(i) PROVE FileReader(x) /\ x.got = r.got + 1
  <2>1. FileReader(i) /\ i.got = r.got
    BY FilledKeeps
  <2>2. x = [start |-> i.start, ptr |-> i.ptr, end |-> i.end, got |-> i.got + 1, since |-> i.since + 1]
    BY <1>1, <2>1 DEF FileReader, Inflate
  <2>. QED BY <2>1, <2>2 DEF FileReader
<1>2. ASSUME NEW i \in Filled(r, there), x = CheckHash(i) PROVE FileReader(x) /\ x.got = r.got + 1
  <2>1. FileReader(i) /\ i.got = r.got
    BY FilledKeeps
  <2>2. x = [start |-> i.start, ptr |-> i.ptr, end |-> i.end, got |-> i.got + 1, since |-> 0]
    BY <1>2, <2>1 DEF FileReader, CheckHash
  <2>. QED BY <2>1, <2>2 DEF FileReader
<1>3. ASSUME x \in Raw(r, there) PROVE FileReader(x) /\ x.got = r.got + 1
  <2>1. PICK f \in {r} \cup Fetch(r, there) : x = [f EXCEPT !.ptr = @ + 1, !.got = @ + 1]
    BY <1>3 DEF Raw
  <2>2. FileReader(f) /\ f.got = r.got
    <3>1. CASE f = r
      BY <3>1
    <3>2. CASE f \in Fetch(r, there)
      <4>1. PICK s, e : f = [r EXCEPT !.start = s, !.end = e]
        BY <3>2 DEF Fetch
      <4>2. f = [start |-> s, ptr |-> r.ptr, end |-> e, got |-> r.got, since |-> r.since]
        BY <4>1 DEF FileReader
      <4>. QED BY <4>2 DEF FileReader
    <3>. QED BY <3>1, <3>2
  <2>3. x = [start |-> f.start, ptr |-> f.ptr + 1, end |-> f.end, got |-> f.got + 1, since |-> f.since]
    BY <2>1, <2>2 DEF FileReader
  <2>. QED BY <2>2, <2>3 DEF FileReader
<1>. QED BY <1>1, <1>2, <1>3

LEMMA InviteInit_Inv == InviteInit => InviteInv
<1>. SUFFICES ASSUME InviteInit PROVE InviteInv
  OBVIOUS
<1>1. group \in Groups /\ user = "writer" /\ step = 1 /\ saved = {} /\ welcomed = NotYet
  BY DEF InviteInit
<1>2. /\ file = [text |-> Header, ready |-> 1, emitted |-> 1, sent |-> 0, since |-> 0, net |-> FALSE]
      /\ Header \in Seq(FileUnits) /\ Len(Header) = 1
  <2>1. file = [text |-> Header, ready |-> 1, emitted |-> 1, sent |-> 0, since |-> 0, net |-> FALSE]
    BY DEF InviteInit, Ostream
  <2>2. Unit("raw", 0) \in FileUnits
    BY DEF Unit, FileUnits
  <2>3. Header \in Seq(FileUnits) /\ Len(Header) = 1
    BY <2>2 DEF Header
  <2>. QED BY <2>1, <2>3
<1>3. FileStream(file)
  BY <1>2 DEF FileStream
<1>4. Writing
  <2>1. Len(Writer) \in Nat
    BY <1>1, ProgramsLemma
  <2>2. Progress(Writer)[step - 1] = Nothing
    BY <1>1, <2>1, ProgressLemma
  <2>. QED BY <1>1, <1>2, <2>1, <2>2 DEF Writing, Nothing
<1>. QED BY <1>1, <1>3, <1>4, UsersDiffer DEF InviteInv, NotYet

(* What the ids behind the stream depend on *)
LEMMA SameBehind ==
  ASSUME group' = group, file' = file
  PROVE  /\ EndOfStream' = EndOfStream /\ Behind' = Behind /\ Writer' = Writer
         /\ FileStream(file) => FileStream(file')
         /\ \A u : ProgramFor(u)' = ProgramFor(u)
BY DEF EndOfStream, Behind, Writer, ProgramFor

LEMMA WriteCallInv == InviteInv /\ WriteCall => InviteInv'
<1>. SUFFICES ASSUME InviteInv, WriteCall PROVE InviteInv'
  OBVIOUS
<1>1. /\ step' = step + 1
      /\ group' = group /\ user' = user /\ saved' = saved /\ welcomed' = welcomed
  BY DEF WriteCall
<1>. DEFINE P == ProgramFor(user)
            c == P[step]
<1>2. /\ user # Nobody /\ step \in 1 .. Len(P)
      /\ c.do \in Writes /\ file' \in Written(file, c)
  BY DEF WriteCall, Doing, Written, Writes
<1>3. group \in Groups /\ user \in Readers \cup {"writer"} /\ FileStream(file)
  BY <1>2 DEF InviteInv
<1>4. user = "writer" /\ P = Writer
  <2>1. CASE user \in Readers
    BY <1>2, <1>3, <2>1, ProgramsLemma DEF Reads, Writes
  <2>. QED BY <1>3, <2>1, ProgramsLemma
<1>5. /\ Writing /\ Writer' = Writer /\ Len(Writer) \in Nat
      /\ \A k \in 1 .. Len(Writer) : IsCall(Writer[k])
  BY <1>1, <1>3, <1>4, ProgramsLemma DEF InviteInv, Writer
<1>. HIDE DEF P
<1>6. /\ step \in 1 .. Len(Writer) /\ IsCall(c)
      /\ Progress(Writer)[step - 1] \in Tallies
      /\ Progress(Writer)[step] = After(Progress(Writer)[step - 1], c)
  <2>1. step \in 1 .. Len(Writer) /\ step - 1 \in 0 .. Len(Writer)
    BY <1>2, <1>4, <1>5
  <2>. QED BY <1>4, <1>5, <2>1, TalliesLemma, ProgressLemma
<1>. HIDE DEF c
<1>7. Len(Header) = 1
  BY DEF Header
<1>8. FileStream(file') /\ Len(file'.text) = Len(Header) + Len(Progress(Writer)[step].text)
  <2>1. Len(file.text) = Len(Header) + Len(Progress(Writer)[step - 1].text)
    BY <1>5 DEF Writing
  <2>. QED BY <1>2, <1>3, <1>6, <1>7, <2>1, WrittenLemma
<1>9. Writing'
  <2>1. step' - 1 = step /\ step' \in 1 .. Len(Writer) + 1
    BY <1>1, <1>5, <1>6
  <2>. QED BY <1>1, <1>5, <1>8, <2>1 DEF Writing
<1>. QED BY <1>1, <1>4, <1>8, <1>9, UsersDiffer DEF InviteInv

LEMMA WriteEndsInv == InviteInv /\ WriteEnds => InviteInv'
<1>. SUFFICES ASSUME InviteInv, WriteEnds PROVE InviteInv'
  OBVIOUS
<1>1. /\ user = "writer" /\ step = Len(ProgramFor(user)) + 1 /\ user' = Nobody
      /\ file' = CloseFile(Close(file))
      /\ group' = group /\ saved' = saved /\ welcomed' = welcomed
  BY DEF WriteEnds, Ended
<1>2. group \in Groups /\ FileStream(file) /\ Writing
  BY <1>1 DEF InviteInv
<1>3. /\ Len(Writer) \in Nat /\ step = Len(Writer) + 1 /\ Writer' = Writer
      /\ \A k \in 1 .. Len(Writer) : IsCall(Writer[k])
  BY <1>1, <1>2, ProgramsLemma DEF Writer
<1>4. Len(file.text) = Len(Header) + Len(Whole(Writer)) /\ saved = {}
  BY <1>2, <1>3 DEF Writing, Whole
<1>5. Len(Header) = 1 /\ Len(Whole(Writer)) \in Nat
  <2>1. Progress(Writer)[Len(Writer)] \in Tallies
    BY <1>3, TalliesLemma
  <2>. QED BY <2>1 DEF Whole, Tallies, Header
<1>. DEFINE unit == Unit("end", 0)
            text == Append(file.text, unit)
            n == Len(file.text) + 1
<1>6. unit \in FileUnits
  BY DEF Unit, FileUnits
<1>. HIDE DEF unit
<1>7. text \in Seq(FileUnits) /\ Len(text) = n
  BY <1>2, <1>6 DEF FileStream
<1>. DEFINE c == Collect(file, n)
<1>8. FileStream(c) /\ c.since = file.since /\ c.text = file.text
  BY <1>2, CollectKeeps
<1>. HIDE DEF c, text
<1>9. PICK s : Close(file) = [c EXCEPT !.text = text, !.ready = n, !.sent = s]
  <2>1. Close(file) = [c EXCEPT !.text = Append(c.text, unit), !.ready = n,
                                !.sent = IF file.net THEN n ELSE c.sent]
    BY DEF Close, c, unit
  <2>. QED BY <1>8, <2>1 DEF text
<1>10. Close(file) = [text |-> text, ready |-> n, emitted |-> c.emitted, sent |-> s,
                      since |-> c.since, net |-> c.net]
  BY <1>8, <1>9 DEF FileStream
<1>11. file' = [text |-> text, ready |-> n, emitted |-> c.emitted, sent |-> c.emitted,
                since |-> c.since, net |-> c.net]
  BY <1>1, <1>10 DEF CloseFile
<1>12. FileStream(file') /\ file'.text = text
  BY <1>7, <1>8, <1>11 DEF FileStream
<1>13. Len(file'.text) = EndOfStream /\ EndOfStream' = EndOfStream /\ EndOfStream \in Nat
  BY <1>3, <1>4, <1>5, <1>7, <1>12 DEF EndOfStream
<1>14. Behind' = {}
  <2>1. Behind' = Ids(SubSeq(file'.text, EndOfStream + 1, EndOfStream))
    BY <1>13 DEF Behind
  <2>2. SubSeq(file'.text, EndOfStream + 1, EndOfStream) = <<>>
    BY <1>13, SubSeqEmpty
  <2>3. Ids(<<>>) = {}
    <3>1. DOMAIN <<>> = {}
      OBVIOUS
    <3>. QED BY <3>1, Zenon DEF Ids
  <2>. QED BY <2>1, <2>2, <2>3
<1>15. Trailing'
  BY <1>1, <1>4, <1>13, <1>14 DEF Trailing
<1>. QED BY <1>1, <1>12, <1>15, UsersDiffer DEF InviteInv

LEMMA UseInv == ASSUME InviteInv, NEW u \in Readers, Use(u) PROVE InviteInv'
<1>1. /\ user = Nobody /\ user' = u /\ step' = 1
      /\ reader' = Istream(IF u = "finalizer" THEN Len(Header) ELSE 0)
      /\ group' = group /\ file' = file /\ saved' = saved /\ welcomed' = welcomed
  BY DEF Use
<1>2. group \in Groups /\ FileStream(file) /\ Trailing
  BY <1>1, UsersDiffer DEF InviteInv
<1>3. Trailing' /\ FileStream(file')
  BY <1>1, <1>2, SameBehind DEF Trailing
<1>4. reader' = Istream(Base(u)) /\ Base(u) \in Nat
  BY <1>1 DEF Base, Header
<1>5. FileReader(reader') /\ reader'.got = Base(u)
  BY <1>4 DEF FileReader, Istream
<1>. DEFINE P == ProgramFor(u)
<1>6. Len(P) \in Nat /\ P' = P
  BY <1>1, <1>2, ProgramsLemma DEF ProgramFor
<1>7. Progress(P)[step' - 1].read = 0
  BY <1>1, <1>6, ProgressLemma DEF Nothing
<1>. HIDE DEF P
<1>8. Reading'
  <2>1. ProgramFor(user)' = P /\ Base(user)' = Base(u)
    BY <1>1, <1>6 DEF P, Base, ProgramFor
  <2>2. step' \in 1 .. Len(P) + 1 /\ reader'.got = Base(u) + Progress(P)[step' - 1].read
    BY <1>1, <1>4, <1>5, <1>6, <1>7
  <2>3. 1 .. step' - 1 = {}
    BY <1>1
  <2>. QED BY <1>1, <1>5, <2>1, <2>2, <2>3 DEF Reading, Base
<1>. QED BY <1>1, <1>3, <1>8, UsersDiffer DEF InviteInv

LEMMA ReadCallInv == InviteInv /\ ReadCall => InviteInv'
<1>. SUFFICES ASSUME InviteInv, ReadCall PROVE InviteInv'
  OBVIOUS
<1>. DEFINE P == ProgramFor(user)
            c == P[step]
<1>1. /\ step' = step + 1
      /\ group' = group /\ user' = user /\ file' = file /\ saved' = saved /\ welcomed' = welcomed
  BY DEF ReadCall
<1>2. /\ user # Nobody /\ step \in 1 .. Len(P) /\ c.do \in Reads
      /\ \/ reader' \in Raw(reader, file.sent)
         \/ \E i \in Filled(reader, file.sent) : reader' = Inflate(i) \/ reader' = CheckHash(i)
  BY DEF ReadCall, Doing, Reads
<1>3. group \in Groups /\ user \in Readers \cup {"writer"} /\ FileStream(file)
  BY <1>2 DEF InviteInv
<1>4. user \in Readers
  <2>1. CASE user = "writer"
    BY <1>2, <1>3, <2>1, ProgramsLemma DEF Reads, Writes
  <2>. QED BY <1>3, <2>1
<1>5. Trailing /\ Reading
  BY <1>4, UsersDiffer DEF InviteInv
<1>6. Trailing' /\ FileStream(file')
  BY <1>1, <1>3, <1>5, SameBehind DEF Trailing
<1>7. Len(P) \in Nat /\ \A k \in 1 .. Len(P) : IsCall(P[k])
  BY <1>3, <1>4, ProgramsLemma
<1>8. P' = P
  BY <1>1 DEF ProgramFor
<1>9. /\ FileReader(reader)
      /\ reader.got = Base(user) + Progress(P)[step - 1].read
      /\ \A k \in 1 .. step - 1 : P[k].do # "skip"
  BY <1>2, <1>5 DEF Reading
<1>. HIDE DEF P
<1>10. /\ Progress(P)[step - 1] \in Tallies
       /\ Progress(P)[step] = After(Progress(P)[step - 1], c)
  <2>1. step \in 1 .. Len(P) /\ step - 1 \in 0 .. Len(P)
    BY <1>2, <1>7
  <2>. QED BY <1>7, <2>1, TalliesLemma, ProgressLemma
<1>11. Progress(P)[step].read = Progress(P)[step - 1].read + 1 /\ Progress(P)[step - 1].read \in Nat
  <2>. HIDE DEF c
  <2>. QED BY <1>2, <1>10 DEF After, Tallies, Reads
<1>12. Base(user) \in Nat
  BY DEF Base, Header
<1>13. FileReader(reader') /\ reader'.got = Base(user) + Progress(P)[step].read
  <2>1. reader.got \in Nat
    BY <1>9, <1>11, <1>12
  <2>2. FileReader(reader') /\ reader'.got = reader.got + 1
    BY <1>2, <1>9, <2>1, ReadLemma
  <2>. QED BY <1>9, <1>11, <1>12, <2>2
<1>14. Reading'
  <2>1. step' - 1 = step /\ step' \in 1 .. Len(P) + 1
    BY <1>1, <1>2, <1>7
  <2>2. \A k \in 1 .. step' - 1 : P[k].do # "skip"
    <3>1. c.do # "skip"
      BY <1>2 DEF Reads
    <3>2. ASSUME NEW k \in 1 .. step' - 1 PROVE k = step \/ k \in 1 .. step - 1
      BY <1>1, <1>2, <1>7
    <3>. QED BY <1>9, <3>1, <3>2
  <2>3. ProgramFor(user)' = P /\ Base(user)' = Base(user)
    BY <1>1, <1>8 DEF P, Base
  <2>. QED BY <1>13, <2>1, <2>2, <2>3 DEF Reading
<1>. QED BY <1>1, <1>4, <1>6, <1>14, UsersDiffer DEF InviteInv

(* A reader at the end of its program is at the end of the stream.            *)
LEMMA ReadEndsInv == InviteInv /\ ReadEnds => InviteInv'
<1>. SUFFICES ASSUME InviteInv, ReadEnds PROVE InviteInv'
  OBVIOUS
<1>. DEFINE P == ProgramFor(user)
<1>1. /\ user # Nobody /\ user # "writer" /\ step = Len(P) + 1 /\ step' = 0
      /\ group' = group /\ user' = user /\ file' = file /\ saved' = saved /\ welcomed' = welcomed
  BY DEF ReadEnds, Ended
<1>2. PICK i \in Filled(reader, file.sent) : reader' = Rewind(Inflate(i))
  BY DEF ReadEnds
<1>3. group \in Groups /\ user \in Readers /\ FileStream(file)
  BY <1>1 DEF InviteInv
<1>4. Trailing /\ Reading
  BY <1>3, UsersDiffer DEF InviteInv
<1>5. Trailing' /\ FileStream(file') /\ EndOfStream' = EndOfStream
  BY <1>1, <1>3, <1>4, SameBehind DEF Trailing
<1>6. /\ Len(P) \in Nat
      /\ (\A k \in 1 .. Len(P) : P[k].do # "skip") =>
            Base(user) + Progress(P)[Len(P)].read = Len(Header) + Len(Whole(Writer))
  BY <1>3, ProgramsLemma
<1>7. /\ FileReader(reader)
      /\ reader.got = Base(user) + Progress(P)[step - 1].read
      /\ \A k \in 1 .. step - 1 : P[k].do # "skip"
  BY <1>1, <1>4, <1>6 DEF Reading
<1>. HIDE DEF P
<1>8. reader.got + 1 = EndOfStream
  <2>1. step - 1 = Len(P)
    BY <1>1, <1>6
  <2>. QED BY <1>6, <1>7, <2>1 DEF EndOfStream
<1>9. FileReader(i) /\ i.got = reader.got
  BY <1>2, <1>7, FilledKeeps
<1>10. reader' = [start |-> i.start, ptr |-> i.got + 1, end |-> i.end, got |-> i.got + 1,
                  since |-> i.since + 1]
  BY <1>2, <1>9 DEF FileReader, Inflate, Rewind
<1>11. FileReader(reader') /\ reader'.ptr = EndOfStream
  BY <1>8, <1>9, <1>10 DEF FileReader
<1>12. Reading'
  BY <1>1, <1>5, <1>11 DEF Reading
<1>. QED BY <1>1, <1>3, <1>5, <1>12, UsersDiffer DEF InviteInv

LEMMA SkipFileInv == InviteInv /\ SkipFile => InviteInv'
<1>. SUFFICES ASSUME InviteInv, SkipFile PROVE InviteInv'
  OBVIOUS
<1>. DEFINE c == ProgramFor(user)[step]
<1>1. /\ user' = Nobody /\ user # Nobody /\ step \in 1 .. Len(ProgramFor(user)) /\ c.do = "skip"
      /\ group' = group /\ file' = file /\ saved' = saved /\ welcomed' = welcomed
  BY DEF SkipFile, Doing
<1>2. group \in Groups /\ user \in Readers \cup {"writer"} /\ FileStream(file)
  BY <1>1 DEF InviteInv
<1>3. user # "writer"
  BY <1>1, <1>2, ProgramsLemma DEF Writes
<1>4. Trailing
  BY <1>3 DEF InviteInv
<1>5. Trailing' /\ FileStream(file')
  BY <1>1, <1>2, <1>4, SameBehind DEF Trailing
<1>. QED BY <1>1, <1>5, UsersDiffer DEF InviteInv

(* Who joins finds the ids of the others, and writes them again with its own. *)
LEMMA JoinGroupInv == InviteInv /\ JoinGroup => InviteInv'
<1>. SUFFICES ASSUME InviteInv, JoinGroup PROVE InviteInv'
  OBVIOUS
<1>1. /\ user \notin {Nobody, "writer", "finalizer"} /\ step = 0 /\ user' = Nobody
      /\ saved' = saved \cup {user} \/ saved' = saved
      /\ group' = group /\ welcomed' = welcomed
  BY DEF JoinGroup, AppendUuid, AtTrailer
<1>2. /\ group \in Groups /\ user \in Joiners /\ user \in Readers /\ FileStream(file)
      /\ Trailing /\ Reading /\ saved \subseteq Joiners
  BY <1>1 DEF InviteInv, Readers
<1>3. Tell(reader) = EndOfStream
  BY <1>1, <1>2 DEF Reading, Tell
<1>. DEFINE ids == Behind \cup {user}
            trailer == write_trailer_uuids(ids)
            text == SubSeq(file.text, 1, EndOfStream) \o trailer
<1>4. file' = [file EXCEPT !.text = text, !.ready = Len(text), !.emitted = Len(text),
                           !.sent = Len(text)]
  BY <1>3 DEF JoinGroup, AppendUuid, read_trailer_uuids, Behind
<1>5. ids \subseteq Joiners /\ saved' \subseteq ids
  BY <1>1, <1>2 DEF Trailing
<1>6. trailer \in Seq(FileUnits) /\ Ids(trailer) = ids
  BY <1>5, TrailerLemma
<1>7. EndOfStream \in 0 .. Len(file.text)
  <2>1. Len(Header) = 1 /\ Len(Whole(Writer)) \in Nat
    <3>1. Progress(Writer)[Len(Writer)] \in Tallies /\ Len(Writer) \in Nat
      BY <1>2, ProgramsLemma, TalliesLemma
    <3>. QED BY <3>1 DEF Whole, Tallies, Header
  <2>2. Len(file.text) \in Nat
    BY <1>2 DEF FileStream
  <2>. QED BY <1>2, <2>1, <2>2 DEF Trailing, EndOfStream
<1>. HIDE DEF ids, trailer
<1>8. /\ text \in Seq(FileUnits) /\ Len(text) = EndOfStream + Len(trailer)
      /\ SubSeq(text, EndOfStream + 1, Len(text)) = trailer
  BY <1>2, <1>6, <1>7, BehindLemma DEF FileStream
<1>. HIDE DEF text
<1>9. FileStream(file') /\ file'.text = text
  <2>1. file' = [text |-> text, ready |-> Len(text), emitted |-> Len(text), sent |-> Len(text),
                 since |-> file.since, net |-> file.net]
    BY <1>2, <1>4 DEF FileStream
  <2>. QED BY <1>2, <1>8, <2>1 DEF FileStream
<1>10. EndOfStream' = EndOfStream
  BY <1>1 DEF EndOfStream, Writer
<1>11. Behind' = ids
  BY <1>6, <1>8, <1>9, <1>10 DEF Behind
<1>12. EndOfStream <= Len(text)
  <2>1. Len(trailer) \in Nat
    BY <1>6
  <2>. QED BY <1>7, <1>8, <2>1
<1>13. Trailing'
  BY <1>5, <1>9, <1>10, <1>11, <1>12 DEF Trailing
<1>. QED BY <1>1, <1>2, <1>5, <1>9, <1>13, UsersDiffer DEF InviteInv

(* The inviter reads the ids of all that have saved. *)
LEMMA FinalizeInv == InviteInv /\ Finalize => InviteInv'
<1>. SUFFICES ASSUME InviteInv, Finalize PROVE InviteInv'
  OBVIOUS
<1>1. /\ user = "finalizer" /\ step = 0 /\ user' = Nobody
      /\ welcomed' = [done |-> TRUE, members |-> read_trailer_uuids, invited |-> saved]
      /\ group' = group /\ file' = file /\ saved' = saved
  BY DEF Finalize, AtTrailer
<1>2. group \in Groups /\ user \in Readers /\ FileStream(file) /\ Trailing /\ Reading
  BY <1>1, UsersDiffer DEF InviteInv, Readers
<1>3. Tell(reader) = EndOfStream
  BY <1>1, <1>2 DEF Reading, Tell
<1>4. read_trailer_uuids = Behind
  BY <1>3 DEF read_trailer_uuids, Behind
<1>5. welcomed'.invited \subseteq welcomed'.members
  BY <1>1, <1>2, <1>4 DEF Trailing
<1>6. Trailing' /\ FileStream(file')
  BY <1>1, <1>2, SameBehind DEF Trailing
<1>. QED BY <1>1, <1>5, <1>6, UsersDiffer DEF InviteInv

LEMMA InviteStepInv == InviteInv /\ [InviteNext]_invitevars => InviteInv'
<1>. SUFFICES ASSUME InviteInv, [InviteNext]_invitevars PROVE InviteInv'
  OBVIOUS
<1>1. CASE UNCHANGED invitevars
  <2>1. /\ group' = group /\ user' = user /\ step' = step /\ file' = file /\ reader' = reader
        /\ saved' = saved /\ welcomed' = welcomed
    BY <1>1 DEF invitevars
  <2>2. Writing' = Writing /\ Trailing' = Trailing /\ Reading' = Reading
    BY <2>1, SameBehind DEF Writing, Trailing, Reading, Base, ProgramFor, Writer
  <2>. QED BY <2>1, <2>2 DEF InviteInv
<1>2. ASSUME NEW u \in Joiners \cup {"finalizer"}, Use(u) PROVE InviteInv'
  BY <1>2, UseInv DEF Readers
<1>. QED BY <1>1, <1>2, WriteCallInv, WriteEndsInv, ReadCallInv, ReadEndsInv, SkipFileInv,
            JoinGroupInv, FinalizeInv DEF InviteNext

(* The invariant of an invite file: the stream that the inviter has written   *)
(* stays as long as it was, every reader that comes to its end stops there,   *)
(* and behind it are the ids of all that have saved.                          *)
THEOREM InviteInvHolds == InviteSpec => []InviteInv
BY InviteInit_Inv, InviteStepInv, PTL DEF InviteSpec

(* For any group, sizes of the buffers and computers that join, in any order  *)
(* and with crashes between the file and the state: who has joined and saved  *)
(* before the inviter finalizes the invitation is welcomed.                   *)
THEOREM AllAreWelcomed == InviteSpec => []InvitedAreWelcomed
<1>1. InviteInv => InvitedAreWelcomed
  BY DEF InviteInv, InvitedAreWelcomed
<1>. QED BY <1>1, InviteInvHolds, PTL
=============================================================================
