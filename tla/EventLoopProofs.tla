-------------------------- MODULE EventLoopProofs --------------------------
(***************************************************************************)
(* Proofs about EventLoop: for any number of connections, socket and       *)
(* buffer sizes, a client receives its replies in order, whole and once,   *)
(* and a connection that is not being served holds a bounded buffer.       *)
(***************************************************************************)
EXTENDS EventLoop, SequenceTheorems, TLAPS

\* The part of the buffer behind the write cursor.
UnsentOf(x) == SubSeq(x.write_buf, x.write_pos + 1, Len(x.write_buf))

\* What has left the server on this connection.
Out(x) == x.received \o x.tx

Exact(x) ==
    IF x.status = "closed" /\ Forfeited(x)
    THEN Len(Out(x)) <= Len(x.owed) /\ Out(x) = SubSeq(x.owed, 1, Len(Out(x)))
    ELSE Out(x) \o UnsentOf(x) = x.owed

\* One connection: the counts are in order, a connection that is not open has no
\* buffer, one that has not been accepted no replies, and the replies are exact.
ConnInv(x) ==
    /\ x.parsed <= x.read /\ x.read <= x.sent
    /\ x.sent <= Size * Len(x.kinds) /\ Len(x.kinds) <= MaxCmds
    /\ x.write_pos <= Len(x.write_buf)
    /\ x.status # "open" => x.write_buf = <<>> /\ x.write_pos = 0
    /\ x.status = "backlog" => x.received = <<>> /\ x.tx = <<>> /\ x.owed = <<>>
    /\ Exact(x)

\* A connection the thread has turned away from: both limits hold.
Idle(x) == Len(UnsentOf(x)) <= MaxPending /\ Len(x.write_buf) < MaxPending + Reclaim

\* The connection being served is open; its buffer may grow between the read and
\* the limit, is back under MaxPending in flush and reclaimed in reconcile.
ServerInv ==
    /\ server \in [phase : Phase, conn : Conns \cup {None}]
    /\ server.conn = None <=> server.phase = "poll"
    /\ ~At("poll") => Self.status = "open"
    /\ \A c \in Conns : server.conn # c => Idle(conns[c])
    /\ At("flush") => Len(UnsentOf(Self)) <= MaxPending
    /\ At("reconcile") => Idle(Self)

IndInv ==
    /\ conns \in [Conns -> Conn] /\ connects \in 0..MaxConnects
    /\ \A c \in Conns : ConnInv(conns[c])
    /\ ServerInv

USE LoopAssumption

-----------------------------------------------------------------------------
(***************************************************************************)
(* Sequences.                                                              *)
(***************************************************************************)
\* A slice of a sequence, its length and its elements.
LEMMA Slice ==
    ASSUME NEW S, NEW q \in Seq(S), NEW m \in 1..(Len(q) + 1), NEW n \in (m - 1)..Len(q)
    PROVE  /\ SubSeq(q, m, n) \in Seq(S) /\ Len(SubSeq(q, m, n)) = n - m + 1
           /\ \A i \in 1..(n - m + 1) : SubSeq(q, m, n)[i] = q[m + i - 1]
<1>1. Len(q) \in Nat /\ m \in Int /\ n \in Int /\ n - m + 1 \in Nat  BY LenProperties
<1>2. \A i \in m..n : q[i] \in S  BY <1>1, ElementOfSeq
<1> QED  BY <1>1, <1>2, SubSeqProperties

\* The rest of a sequence behind a position.
LEMMA Rest ==
    ASSUME NEW S, NEW q \in Seq(S), NEW p \in 0..Len(q)
    PROVE  /\ SubSeq(q, p + 1, Len(q)) \in Seq(S)
           /\ Len(SubSeq(q, p + 1, Len(q))) = Len(q) - p
           /\ \A i \in 1..(Len(q) - p) : SubSeq(q, p + 1, Len(q))[i] = q[p + i]
<1>1. Len(q) \in Nat  BY LenProperties
<1>2. p + 1 \in 1..(Len(q) + 1) /\ Len(q) \in (p + 1 - 1)..Len(q)  BY <1>1
<1> DEFINE u == SubSeq(q, p + 1, Len(q))
<1>3. /\ u \in Seq(S) /\ Len(u) = Len(q) - (p + 1) + 1
      /\ \A i \in 1..(Len(q) - (p + 1) + 1) : u[i] = q[p + 1 + i - 1]
  BY <1>2, Slice
<1>4. Len(q) - (p + 1) + 1 = Len(q) - p /\ \A i \in Int : p + 1 + i - 1 = p + i  BY <1>1
<1> HIDE DEF u
<1>5. \A i \in 1..(Len(q) - p) : u[i] = q[p + i]  BY <1>1, <1>3, <1>4
<1> QED  BY <1>3, <1>4, <1>5 DEF u

\* A sequence is its first n elements followed by the rest.
LEMMA Split ==
    ASSUME NEW S, NEW q \in Seq(S), NEW n \in 0..Len(q)
    PROVE  SubSeq(q, 1, n) \in Seq(S) /\ SubSeq(q, 1, n) \o SubSeq(q, n + 1, Len(q)) = q
<1>1. Len(q) \in Nat  BY LenProperties
<1>2. 1 \in 1..(Len(q) + 1) /\ n \in (1 - 1)..Len(q) /\ Len(q) \in n..Len(q)  BY <1>1
<1>3. SubSeq(q, 1, n) \o SubSeq(q, n + 1, Len(q)) = SubSeq(q, 1, Len(q))
  BY <1>2, ConcatAdjacentSubSeq
<1> QED  BY <1>2, <1>3, Slice, SubSeqFull

\* Advancing the cursor by n takes n elements off the rest.
LEMMA RestOfRest ==
    ASSUME NEW S, NEW q \in Seq(S), NEW p \in 0..Len(q), NEW n \in 0..(Len(q) - p)
    PROVE  LET u == SubSeq(q, p + 1, Len(q))
           IN  SubSeq(q, p + n + 1, Len(q)) = SubSeq(u, n + 1, Len(u))
<1> DEFINE u == SubSeq(q, p + 1, Len(q))
           a == SubSeq(q, p + n + 1, Len(q))
           b == SubSeq(u, n + 1, Len(u))
<1>0. Len(q) \in Nat  BY LenProperties
<1>1. u \in Seq(S) /\ Len(u) = Len(q) - p /\ \A i \in 1..(Len(q) - p) : u[i] = q[p + i]
  BY Rest
<1>2. a \in Seq(S) /\ Len(a) = Len(q) - (p + n)
      /\ \A i \in 1..(Len(q) - (p + n)) : a[i] = q[p + n + i]
  <2>1. p + n \in 0..Len(q)  BY <1>0
  <2> QED  BY <2>1, Rest
<1> HIDE DEF u
<1>3. n \in 0..Len(u)  BY <1>0, <1>1
<1>4. b \in Seq(S) /\ Len(b) = Len(u) - n /\ \A i \in 1..(Len(u) - n) : b[i] = u[n + i]
  BY <1>1, <1>3, Rest
<1> HIDE DEF a, b
<1>5. ASSUME NEW i \in 1..Len(a) PROVE a[i] = b[i]
  <2>1. i \in 1..(Len(q) - (p + n)) /\ i \in 1..(Len(u) - n) /\ n + i \in 1..(Len(q) - p)
    BY <1>0, <1>1, <1>2
  <2>2. a[i] = q[p + n + i] /\ b[i] = u[n + i]  BY <1>2, <1>4, <2>1
  <2>3. u[n + i] = q[p + (n + i)] /\ p + (n + i) = p + n + i  BY <1>0, <1>1, <2>1
  <2> QED  BY <2>2, <2>3
<1>6. Len(a) = Len(b)  BY <1>0, <1>1, <1>2, <1>4
<1>7. a = b  BY <1>2, <1>4, <1>5, <1>6, SeqEqual
<1> QED  BY <1>7 DEF a, b, u

\* What is appended to a sequence is appended to its rest.
LEMMA RestOfConcat ==
    ASSUME NEW S, NEW q \in Seq(S), NEW r \in Seq(S), NEW p \in 0..Len(q)
    PROVE  SubSeq(q \o r, p + 1, Len(q \o r)) = SubSeq(q, p + 1, Len(q)) \o r
<1> DEFINE qr == q \o r
           u == SubSeq(q, p + 1, Len(q))
           a == SubSeq(qr, p + 1, Len(qr))
           b == u \o r
<1>0. Len(q) \in Nat /\ Len(r) \in Nat  BY LenProperties
<1>1. /\ qr \in Seq(S) /\ Len(qr) = Len(q) + Len(r)
      /\ \A i \in 1..(Len(q) + Len(r)) : qr[i] = IF i <= Len(q) THEN q[i] ELSE r[i - Len(q)]
  BY ConcatProperties
<1>2. u \in Seq(S) /\ Len(u) = Len(q) - p /\ \A i \in 1..(Len(q) - p) : u[i] = q[p + i]
  BY Rest
<1> HIDE DEF qr, u
<1>3. p \in 0..Len(qr)  BY <1>0, <1>1
<1>4. a \in Seq(S) /\ Len(a) = Len(qr) - p /\ \A i \in 1..(Len(qr) - p) : a[i] = qr[p + i]
  BY <1>1, <1>3, Rest
<1>5. /\ b \in Seq(S) /\ Len(b) = Len(u) + Len(r)
      /\ \A i \in 1..(Len(u) + Len(r)) : b[i] = IF i <= Len(u) THEN u[i] ELSE r[i - Len(u)]
  BY <1>2, ConcatProperties
<1> HIDE DEF a, b
<1>6. ASSUME NEW i \in 1..Len(a) PROVE a[i] = b[i]
  <2>1. /\ i \in 1..(Len(qr) - p) /\ i \in 1..(Len(u) + Len(r))
        /\ p + i \in 1..(Len(q) + Len(r))
    BY <1>0, <1>1, <1>2, <1>4
  <2>2. a[i] = qr[p + i]  BY <1>4, <2>1
  <2>3. CASE i <= Len(u)
    <3>1. i \in 1..(Len(q) - p) /\ p + i <= Len(q)  BY <1>0, <1>2, <2>1, <2>3
    <3>2. b[i] = q[p + i]  BY <1>2, <1>5, <2>1, <2>3, <3>1
    <3>3. qr[p + i] = q[p + i]  BY <1>1, <2>1, <3>1
    <3> QED  BY <2>2, <3>2, <3>3
  <2>4. CASE ~(i <= Len(u))
    <3>1. ~(p + i <= Len(q)) /\ p + i - Len(q) = i - Len(u)  BY <1>0, <1>2, <2>1, <2>4
    <3>2. b[i] = r[i - Len(u)]  BY <1>5, <2>1, <2>4
    <3>3. qr[p + i] = r[p + i - Len(q)]  BY <1>1, <2>1, <3>1
    <3> QED  BY <2>2, <3>1, <3>2, <3>3
  <2> QED  BY <2>3, <2>4
<1>7. Len(a) = Len(b)  BY <1>0, <1>1, <1>2, <1>4, <1>5
<1>8. a = b  BY <1>4, <1>5, <1>6, <1>7, SeqEqual
<1> QED  BY <1>8 DEF a, b, u, qr

\* The first part of a concatenation is a prefix of it.
LEMMA PrefixOfConcat ==
    ASSUME NEW S, NEW s \in Seq(S), NEW t \in Seq(S)
    PROVE  Len(s) <= Len(s \o t) /\ s = SubSeq(s \o t, 1, Len(s))
<1>0. Len(s) \in Nat /\ Len(t) \in Nat  BY LenProperties
<1>1. /\ s \o t \in Seq(S) /\ Len(s \o t) = Len(s) + Len(t)
      /\ \A i \in 1..(Len(s) + Len(t)) : (s \o t)[i] = IF i <= Len(s) THEN s[i] ELSE t[i - Len(s)]
  BY ConcatProperties
<1> DEFINE st == s \o t
           a == SubSeq(st, 1, Len(s))
<1>2. st \in Seq(S) /\ Len(st) = Len(s) + Len(t) /\ \A i \in 1..Len(s) : st[i] = s[i]
  BY <1>0, <1>1
<1> HIDE DEF st
<1>3. 1 \in 1..(Len(st) + 1) /\ Len(s) \in (1 - 1)..Len(st)  BY <1>0, <1>2
<1>4. a \in Seq(S) /\ Len(a) = Len(s) - 1 + 1 /\ \A i \in 1..(Len(s) - 1 + 1) : a[i] = st[1 + i - 1]
  BY <1>2, <1>3, Slice
<1>5. Len(s) - 1 + 1 = Len(s) /\ \A i \in Int : 1 + i - 1 = i  BY <1>0
<1> HIDE DEF a
<1>6. Len(a) = Len(s) /\ \A i \in 1..Len(s) : a[i] = s[i]  BY <1>0, <1>2, <1>4, <1>5
<1>7. a = s  BY <1>4, <1>6, SeqEqual
<1>8. Len(s) <= Len(st)  BY <1>0, <1>2
<1> QED  BY <1>7, <1>8 DEF a, st

\* Moving a prefix of what follows t to the end of t changes nothing in all.
LEMMA MovePrefix ==
    \A s, t, a, b \in Seq(Byte) : (s \o (t \o a)) \o b = (s \o t) \o (a \o b)
<1> TAKE s, t, a, b \in Seq(Byte)
<1>1. PICK st \in Seq(Byte) : st = s \o t  BY ConcatProperties
<1>2. st \o a = s \o (t \o a)  BY <1>1, ConcatAssociative
<1>3. (st \o a) \o b = st \o (a \o b)  BY ConcatAssociative
<1> QED  BY <1>1, <1>2, <1>3

\* Moving the head of t to the end of s changes nothing in all.
LEMMA MoveHead ==
    ASSUME NEW S, NEW s \in Seq(S), NEW t \in Seq(S), t # <<>>
    PROVE  Append(s, Head(t)) \o Tail(t) = s \o t
<1>1. Head(t) \in S /\ Tail(t) \in Seq(S)  BY HeadTailProperties
<1>2. Append(s, Head(t)) = s \o <<Head(t)>>  BY <1>1, AppendIsConcat
<1>3. <<Head(t)>> \in Seq(S)  BY <1>1
<1>4. (s \o <<Head(t)>>) \o Tail(t) = s \o (<<Head(t)>> \o Tail(t))
  BY <1>1, <1>3, ConcatAssociative
<1>5. <<Head(t)>> \o Tail(t) = t
  <2>1. Len(t) \in Nat \ {0}  BY EmptySeq
  <2>2. 1 \in 1..Len(t) /\ Len(t) \in 1..Len(t)  BY <2>1
  <2>3. SubSeq(t, 1, Len(t)) = <<t[1]>> \o SubSeq(t, 1 + 1, Len(t))
    BY <2>2, SubSeqRecursiveFirst
  <2>4. SubSeq(t, 1, Len(t)) = t /\ Tail(t) = SubSeq(t, 2, Len(t))  BY SubSeqFull, TailIsSubSeq
  <2>5. t[1] = Head(t)  OBVIOUS
  <2> QED  BY <2>3, <2>4, <2>5
<1> QED  BY <1>2, <1>4, <1>5

-----------------------------------------------------------------------------
(***************************************************************************)
(* One connection.                                                         *)
(***************************************************************************)
\* The lengths and types behind the definitions above.
LEMMA ConnFacts ==
    ASSUME NEW x \in Conn, ConnInv(x)
    PROVE  /\ x.write_buf \in Seq(Byte) /\ x.write_pos \in 0..Len(x.write_buf)
           /\ Len(x.write_buf) \in Nat
           /\ UnsentOf(x) \in Seq(Byte) /\ Len(UnsentOf(x)) = Len(x.write_buf) - x.write_pos
           /\ x.received \in Seq(Byte) /\ x.tx \in Seq(Byte) /\ x.owed \in Seq(Byte)
           /\ Out(x) \in Seq(Byte)
<1>1. x.write_buf \in Seq(Byte) /\ x.write_pos \in Nat /\ x.received \in Seq(Byte)
      /\ x.tx \in Seq(Byte) /\ x.owed \in Seq(Byte)
  BY DEF Conn
<1>2. x.write_pos <= Len(x.write_buf)  BY DEF ConnInv
<1>3. Len(x.write_buf) \in Nat  BY <1>1, LenProperties
<1>4. x.write_pos \in 0..Len(x.write_buf)  BY <1>1, <1>2, <1>3
<1>5. UnsentOf(x) \in Seq(Byte) /\ Len(UnsentOf(x)) = Len(x.write_buf) - x.write_pos
  BY <1>1, <1>4, Rest DEF UnsentOf
<1>6. Out(x) \in Seq(Byte)  BY <1>1, ConcatProperties DEF Out
<1> QED  BY <1>1, <1>3, <1>4, <1>5, <1>6

\* y is x with its reply stream untouched.
SameStream(x, y) ==
    /\ y.status = x.status /\ y.write_buf = x.write_buf /\ y.write_pos = x.write_pos
    /\ y.tx = x.tx /\ y.received = x.received /\ y.owed = x.owed

SameCounts(x, y) ==
    y.parsed = x.parsed /\ y.read = x.read /\ y.sent = x.sent /\ y.kinds = x.kinds

CountsInv(x) ==
    /\ x.parsed <= x.read /\ x.read <= x.sent
    /\ x.sent <= Size * Len(x.kinds) /\ Len(x.kinds) <= MaxCmds

LEMMA SameStreamInv ==
    ASSUME NEW x, NEW y, ConnInv(x), x.status # "closed", SameStream(x, y), CountsInv(y)
    PROVE  ConnInv(y) /\ UnsentOf(y) = UnsentOf(x) /\ (Idle(x) => Idle(y))
BY DEF ConnInv, SameStream, CountsInv, Exact, Out, UnsentOf, Idle

\* A connection dropped with nothing unsent has served its client in full, one
\* whose replies are forfeited has served a prefix of them.
LEMMA DroppedInv ==
    ASSUME NEW x \in Conn, ConnInv(x), x.status # "closed", Forfeited(x) \/ UnsentOf(x) = <<>>
    PROVE  /\ Dropped(x) \in Conn /\ ConnInv(Dropped(x)) /\ Idle(Dropped(x))
<1> DEFINE y == Dropped(x)
<1>1. y \in Conn
  <2>1. <<>> \in Seq(Byte) /\ FALSE \in BOOLEAN /\ 0 \in Nat  BY EmptySeq
  <2> QED  BY <2>1 DEF Dropped, Conn
<1>2. /\ y.status = "closed" /\ y.write_buf = <<>> /\ y.write_pos = 0
      /\ y.tx = x.tx /\ y.received = x.received /\ y.owed = x.owed /\ SameCounts(x, y)
      /\ y.fin = x.fin /\ y.forced = x.forced
  BY DEF Dropped, Conn, SameCounts
<1> HIDE DEF y
<1>3. Len(y.write_buf) = 0 /\ UnsentOf(y) = <<>>
  BY <1>2, SubSeqEmpty DEF UnsentOf
<1>4. Exact(y)
  <2>1. Out(y) = Out(x) /\ (Forfeited(y) <=> Forfeited(x))  BY <1>2 DEF Out, Forfeited
  <2>2. Out(x) \o UnsentOf(x) = x.owed  BY DEF ConnInv, Exact
  <2>3. CASE Forfeited(x)
    <3>1. Len(Out(x)) <= Len(x.owed) /\ Out(x) = SubSeq(x.owed, 1, Len(Out(x)))
      BY <2>2, ConnFacts, PrefixOfConcat
    <3> QED  BY <1>2, <2>1, <2>3, <3>1 DEF Exact
  <2>4. CASE ~Forfeited(x)  BY <1>2, <1>3, <2>1, <2>2, <2>4 DEF Exact
  <2> QED  BY <2>3, <2>4
<1>5. ConnInv(y)  BY <1>2, <1>3, <1>4 DEF ConnInv, SameCounts
<1>6. Idle(y)  BY <1>3 DEF Idle
<1> QED  BY <1>1, <1>5, <1>6 DEF y

LEMMA NewInv ==
    ASSUME NEW status \in {"backlog", "closed"}
    PROVE  New(status) \in Conn /\ ConnInv(New(status)) /\ Idle(New(status))
<1> DEFINE y == New(status)
<1>1. y \in Conn
  <2>1. <<>> \in Seq(Byte) /\ <<>> \in Seq(Kind) /\ FALSE \in BOOLEAN /\ 0 \in Nat  BY EmptySeq
  <2> QED  BY <2>1 DEF New, Conn
<1>2. /\ y.status = status /\ y.write_buf = <<>> /\ y.write_pos = 0 /\ y.tx = <<>>
      /\ y.received = <<>> /\ y.owed = <<>> /\ y.parsed = 0 /\ y.read = 0 /\ y.sent = 0
      /\ y.kinds = <<>>
  BY DEF New
<1> HIDE DEF y
<1>3. UnsentOf(y) = <<>> /\ Out(y) = <<>>
  <2>1. UnsentOf(y) = <<>>  BY <1>2, SubSeqEmpty DEF UnsentOf
  <2>2. <<>> \in Seq(Byte)  OBVIOUS
  <2>3. <<>> \o <<>> = <<>>  BY <2>2, ConcatEmptySeq
  <2> QED  BY <1>2, <2>1, <2>3 DEF Out
<1>4. Exact(y)
  <2>1. <<>> \in Seq(Byte)  OBVIOUS
  <2>2. <<>> \o <<>> = <<>> /\ SubSeq(<<>>, 1, Len(<<>>)) = <<>>
    BY <2>1, ConcatEmptySeq, SubSeqEmpty
  <2> QED  BY <1>2, <1>3, <2>2 DEF Exact
<1>5. ConnInv(y)  BY <1>2, <1>4 DEF ConnInv, Size
<1>6. Idle(y)  BY <1>2, <1>3 DEF Idle
<1> QED  BY <1>1, <1>5, <1>6 DEF y

-----------------------------------------------------------------------------
(***************************************************************************)
(* One connection among the others.                                        *)
(***************************************************************************)
LEMMA OneChanges ==
    ASSUME IndInv, NEW c \in Conns, NEW y \in Conn, ConnInv(y),
           conns' = [conns EXCEPT ![c] = y]
    PROVE  /\ conns' \in [Conns -> Conn] /\ conns'[c] = y
           /\ \A d \in Conns \ {c} : conns'[d] = conns[d]
           /\ \A d \in Conns : ConnInv(conns'[d])
<1>1. conns \in [Conns -> Conn] /\ \A d \in Conns : ConnInv(conns[d])  BY DEF IndInv
<1>2. /\ conns' \in [Conns -> Conn] /\ conns'[c] = y
      /\ \A d \in Conns \ {c} : conns'[d] = conns[d]
  BY <1>1
<1> QED  BY <1>1, <1>2

\* Somebody else than the thread changes a connection: either its buffer is as
\* before, or the thread is not serving it.
LEMMA OutsideStep ==
    ASSUME IndInv, NEW c \in Conns, NEW y \in Conn, ConnInv(y),
           conns' = [conns EXCEPT ![c] = y], UNCHANGED server, connects' \in 0..MaxConnects,
           \/ /\ y.status = conns[c].status /\ y.write_buf = conns[c].write_buf
              /\ y.write_pos = conns[c].write_pos
           \/ server.conn # c /\ Idle(y)
    PROVE  IndInv'
<1>1. /\ conns' \in [Conns -> Conn] /\ conns'[c] = y
      /\ \A d \in Conns \ {c} : conns'[d] = conns[d]
      /\ \A d \in Conns : ConnInv(conns'[d])
  BY OneChanges
<1>2. ServerInv  BY DEF IndInv
<1>3. ASSUME NEW d \in Conns, server.conn # d PROVE Idle(conns'[d])
  <2>1. Idle(conns[d])  BY <1>2, <1>3 DEF ServerInv
  <2>2. CASE d = c  BY <1>1, <2>1, <2>2 DEF Idle, UnsentOf
  <2>3. CASE d # c  BY <1>1, <2>1, <2>3
  <2> QED  BY <2>2, <2>3
<1>4. ASSUME server.conn \in Conns
      PROVE  LET x == conns[server.conn]
                 z == conns'[server.conn]
             IN  z.status = x.status /\ z.write_buf = x.write_buf /\ z.write_pos = x.write_pos
  BY <1>1, <1>4
<1>5. ~At("poll") => server.conn \in Conns  BY <1>2 DEF ServerInv, At
<1>6. ServerInv'
  <2>1. ~At("poll") => Self'.status = "open"
    BY <1>2, <1>4, <1>5 DEF ServerInv, At, Self
  <2>2. ~At("poll") => UnsentOf(Self)' = UnsentOf(Self) /\ Self'.write_buf = Self.write_buf
    BY <1>4, <1>5 DEF Self, UnsentOf
  <2>3. At("flush") => Len(UnsentOf(Self)') <= MaxPending
    BY <1>2, <2>2 DEF ServerInv, At
  <2>4. At("reconcile") => Idle(Self)'
    <3>1. At("reconcile") => Idle(Self) /\ ~At("poll")  BY <1>2 DEF ServerInv, At
    <3> QED  BY <2>2, <3>1 DEF Idle
  <2> QED  BY <1>2, <1>3, <2>1, <2>3, <2>4 DEF ServerInv, At
<1> QED  BY <1>1, <1>6 DEF IndInv

\* The thread goes on with a connection, the one it serves or one it has picked.
LEMMA ServingStep ==
    ASSUME IndInv, NEW c \in Conns, NEW y \in Conn, ConnInv(y),
           conns' = [conns EXCEPT ![c] = y], UNCHANGED connects,
           server.conn \in {c, None},
           NEW p \in Phase \ {"poll"}, server' = [phase |-> p, conn |-> c],
           y.status = "open",
           p = "flush" => Len(UnsentOf(y)) <= MaxPending,
           p = "reconcile" => Idle(y)
    PROVE  IndInv'
<1>1. /\ conns' \in [Conns -> Conn] /\ conns'[c] = y
      /\ \A d \in Conns \ {c} : conns'[d] = conns[d]
      /\ \A d \in Conns : ConnInv(conns'[d])
  BY OneChanges
<1>2. server'.conn = c /\ server'.phase = p /\ server' \in [phase : Phase, conn : Conns \cup {None}]
  OBVIOUS
<1>3. \A d \in Conns : server'.conn # d => Idle(conns'[d])
  BY <1>1, <1>2 DEF IndInv, ServerInv
<1>4. Self' = y  BY <1>1, <1>2 DEF Self
<1>5. ServerInv'  BY <1>2, <1>3, <1>4 DEF ServerInv, At
<1> QED  BY <1>1, <1>5 DEF IndInv

\* The thread turns away from its connection.
LEMMA DoneStep ==
    ASSUME IndInv, NEW c \in Conns, NEW y \in Conn, ConnInv(y), Idle(y),
           conns' = [conns EXCEPT ![c] = y], UNCHANGED connects,
           server.conn = c, server' = Polling
    PROVE  IndInv'
<1>1. /\ conns' \in [Conns -> Conn] /\ conns'[c] = y
      /\ \A d \in Conns \ {c} : conns'[d] = conns[d]
      /\ \A d \in Conns : ConnInv(conns'[d])
  BY OneChanges
<1>2. server'.conn = None /\ server'.phase = "poll"
      /\ server' \in [phase : Phase, conn : Conns \cup {None}]
  BY DEF Polling, Phase
<1>3. \A d \in Conns : Idle(conns'[d])  BY <1>1 DEF IndInv, ServerInv
<1>4. ServerInv'  BY <1>2, <1>3 DEF ServerInv, At
<1> QED  BY <1>1, <1>4 DEF IndInv

\* The connection being served, in every phase but poll.
LEMMA ServedConn ==
    ASSUME IndInv, ~At("poll")
    PROVE  /\ server.conn \in Conns /\ Self \in Conn /\ ConnInv(Self) /\ Self.status = "open"
           /\ Self = conns[server.conn] /\ Unsent(server.conn) = UnsentOf(Self)
           /\ server = [phase |-> server.phase, conn |-> server.conn]
<1>1. server.conn \in Conns /\ Self.status = "open"  BY DEF IndInv, ServerInv, At
<1>2. server = [phase |-> server.phase, conn |-> server.conn]  BY DEF IndInv, ServerInv
<1> QED  BY <1>1, <1>2 DEF IndInv, Self, Unsent, UnsentOf

LEMMA CloseStep ==
    ASSUME IndInv, ~At("poll"), Close, Self.fin # "no" \/ Unsent(server.conn) = <<>>
    PROVE  IndInv'
<1>1. PICK c \in Conns : c = server.conn  BY ServedConn
<1>2. PICK y \in Conn : y = Dropped(Self) /\ ConnInv(y) /\ Idle(y)
  <2>1. PICK x \in Conn : x = Self /\ ConnInv(x) /\ x.status = "open"
                          /\ UnsentOf(x) = Unsent(server.conn)
    BY ServedConn
  <2>2. Forfeited(x) \/ UnsentOf(x) = <<>>  BY <2>1 DEF Forfeited
  <2> QED  BY <2>1, <2>2, DroppedInv
<1>3. conns' = [conns EXCEPT ![c] = y] /\ server' = Polling /\ UNCHANGED connects
  BY <1>1, <1>2 DEF Close, Set, Done
<1> QED  BY <1>1, <1>2, <1>3, DoneStep

LEMMA ForceCloseStep ==
    ASSUME IndInv, ~At("poll"), ForceClose PROVE IndInv'
<1>1. PICK c \in Conns : c = server.conn  BY ServedConn
<1>2. PICK x \in Conn : x = Self /\ ConnInv(x) /\ x.status = "open"  BY ServedConn
<1>3. PICK z : z = [x EXCEPT !.forced = TRUE]  OBVIOUS
<1>4. z \in Conn
  <2>1. TRUE \in BOOLEAN  OBVIOUS
  <2> QED  BY <1>3, <2>1 DEF Conn
<1>5. SameStream(x, z) /\ SameCounts(x, z) /\ z.forced
  BY <1>3 DEF Conn, SameStream, SameCounts
<1>6. ConnInv(z) /\ z.status = "open"
  BY <1>2, <1>5, SameStreamInv DEF SameCounts, SameStream, CountsInv, ConnInv
<1>7. PICK y \in Conn : y = Dropped(z) /\ ConnInv(y) /\ Idle(y)
  BY <1>4, <1>5, <1>6, DroppedInv DEF Forfeited
<1>8. conns' = [conns EXCEPT ![c] = y] /\ server' = Polling /\ UNCHANGED connects
  BY <1>1, <1>2, <1>3, <1>7 DEF ForceClose, Set, Done
<1> QED  BY <1>1, <1>7, <1>8, DoneStep

-----------------------------------------------------------------------------
(***************************************************************************)
(* Clients and the listener.                                               *)
(***************************************************************************)
LEMMA SendStep == ASSUME IndInv, NEW c \in Conns, Send(c) PROVE IndInv'
<1>1. PICK x \in Conn : x = conns[c] /\ ConnInv(x) /\ x.status # "closed"
  BY DEF IndInv, Send, Connected
<1>2. x.sent \in Nat /\ Len(x.kinds) \in Nat /\ x.kinds \in Seq(Kind)
  BY LenProperties DEF Conn
<1>3. UNCHANGED <<connects, server>>  BY DEF Send
<1>4. CASE /\ x.sent < Size * Len(x.kinds)
           /\ conns' = [conns EXCEPT ![c].sent = @ + 1, ![c].event = TRUE]
  <2>1. PICK y : y = [x EXCEPT !.sent = x.sent + 1, !.event = TRUE]  OBVIOUS
  <2>2. conns' = [conns EXCEPT ![c] = y]  BY <1>1, <1>4, <2>1 DEF IndInv
  <2>3. y \in Conn
    <3>1. x.sent + 1 \in Nat /\ TRUE \in BOOLEAN  BY <1>2
    <3> QED  BY <2>1, <3>1 DEF Conn
  <2>4. SameStream(x, y) /\ y.sent = x.sent + 1 /\ y.read = x.read /\ y.parsed = x.parsed
        /\ y.kinds = x.kinds
    BY <2>1 DEF Conn, SameStream
  <2>5. CountsInv(y)  BY <1>1, <1>2, <1>4, <2>4 DEF CountsInv, ConnInv, Conn, Size
  <2>6. ConnInv(y)  BY <1>1, <2>4, <2>5, SameStreamInv
  <2> QED  BY <1>1, <1>3, <2>2, <2>3, <2>4, <2>6, OutsideStep DEF SameStream, IndInv
<1>5. ASSUME x.sent = Size * Len(x.kinds), Len(x.kinds) < MaxCmds, NEW k \in Kind,
             conns' = [conns EXCEPT ![c].kinds = Append(@, k), ![c].sent = @ + 1, ![c].event = TRUE]
      PROVE  IndInv'
  <2>1. PICK y : y = [x EXCEPT !.kinds = Append(x.kinds, k), !.sent = x.sent + 1, !.event = TRUE]
    OBVIOUS
  <2>2. conns' = [conns EXCEPT ![c] = y]  BY <1>1, <1>5, <2>1 DEF IndInv
  <2>3. Append(x.kinds, k) \in Seq(Kind) /\ Len(Append(x.kinds, k)) = Len(x.kinds) + 1
    BY <1>2, <1>5, AppendProperties
  <2>4. y \in Conn
    <3>1. x.sent + 1 \in Nat /\ TRUE \in BOOLEAN  BY <1>2
    <3> QED  BY <2>1, <2>3, <3>1 DEF Conn
  <2>5. SameStream(x, y) /\ y.sent = x.sent + 1 /\ y.read = x.read /\ y.parsed = x.parsed
        /\ y.kinds = Append(x.kinds, k)
    BY <2>1 DEF Conn, SameStream
  <2>6. CountsInv(y)
    <3>1. /\ x.parsed <= x.read /\ x.read <= x.sent
          /\ x.parsed \in Nat /\ x.read \in Nat
      BY <1>1 DEF ConnInv, Conn
    <3>2. PICK n \in Nat : n = Len(x.kinds)  BY <1>2
    <3>3. Len(y.kinds) = n + 1 /\ y.sent = 2 * n + 1  BY <1>5, <2>3, <2>5, <3>2 DEF Size
    <3>4. y.parsed <= y.read /\ y.read <= y.sent  BY <1>2, <2>5, <3>1
    <3>5. y.sent <= Size * Len(y.kinds) /\ Len(y.kinds) <= MaxCmds  BY <1>5, <3>2, <3>3 DEF Size
    <3> QED  BY <3>4, <3>5 DEF CountsInv
  <2>7. ConnInv(y)  BY <1>1, <2>5, <2>6, SameStreamInv
  <2> QED  BY <1>1, <1>3, <2>2, <2>4, <2>5, <2>7, OutsideStep DEF SameStream, IndInv
<1> QED  BY <1>1, <1>4, <1>5 DEF Send

LEMMA FinishStep == ASSUME IndInv, NEW c \in Conns, Finish(c) PROVE IndInv'
<1>1. PICK x \in Conn : x = conns[c] /\ ConnInv(x) /\ x.status # "closed"
  BY DEF IndInv, Finish, Connected
<1>2. PICK how \in {"half", "full"} : conns' = [conns EXCEPT ![c].fin = how, ![c].event = TRUE]
  BY DEF Finish
<1>3. PICK y : y = [x EXCEPT !.fin = how, !.event = TRUE]  OBVIOUS
<1>4. conns' = [conns EXCEPT ![c] = y]  BY <1>1, <1>2, <1>3 DEF IndInv
<1>5. y \in Conn
  <2>1. TRUE \in BOOLEAN  OBVIOUS
  <2> QED  BY <1>3, <2>1 DEF Conn
<1>6. SameStream(x, y) /\ SameCounts(x, y)  BY <1>3 DEF Conn, SameStream, SameCounts
<1>7. ConnInv(y)  BY <1>1, <1>6, SameStreamInv DEF SameCounts, CountsInv, ConnInv
<1>8. UNCHANGED <<connects, server>>  BY DEF Finish
<1> QED  BY <1>1, <1>4, <1>5, <1>6, <1>7, <1>8, OutsideStep DEF SameStream, IndInv

\* The client takes a byte off the socket: what has left the server is the same.
LEMMA ReceiveStep == ASSUME IndInv, NEW c \in Conns, Receive(c) PROVE IndInv'
<1>1. PICK x \in Conn : x = conns[c] /\ ConnInv(x)  BY DEF IndInv
<1>2. x.tx # <<>> /\ UNCHANGED <<connects, server>>  BY <1>1 DEF Receive
<1>3. PICK y : y = [x EXCEPT !.tx = Tail(x.tx), !.received = Append(x.received, Head(x.tx)),
                             !.event = x.event \/ x.want_write]
  OBVIOUS
<1>4. conns' = [conns EXCEPT ![c] = y]  BY <1>1, <1>3 DEF Receive, IndInv
<1>5. x.tx \in Seq(Byte) /\ x.received \in Seq(Byte)  BY <1>1, ConnFacts
<1>6. Head(x.tx) \in Byte /\ Tail(x.tx) \in Seq(Byte)  BY <1>2, <1>5, HeadTailProperties
<1>7. Append(x.received, Head(x.tx)) \in Seq(Byte)  BY <1>5, <1>6, AppendProperties
<1>8. y \in Conn
  <2>1. (x.event \/ x.want_write) \in BOOLEAN  OBVIOUS
  <2> QED  BY <1>3, <1>6, <1>7, <2>1 DEF Conn
<1>9. /\ y.status = x.status /\ y.write_buf = x.write_buf /\ y.write_pos = x.write_pos
      /\ y.owed = x.owed /\ y.tx = Tail(x.tx) /\ y.received = Append(x.received, Head(x.tx))
      /\ y.fin = x.fin /\ y.forced = x.forced /\ SameCounts(x, y)
  BY <1>3 DEF Conn, SameCounts
<1>10. Out(y) = Out(x)  BY <1>2, <1>5, <1>9, MoveHead DEF Out
<1>11. Exact(y)  BY <1>1, <1>9, <1>10 DEF ConnInv, Exact, UnsentOf, Forfeited
<1>12. ConnInv(y)  BY <1>1, <1>2, <1>9, <1>11 DEF ConnInv, SameCounts
<1> QED  BY <1>1, <1>2, <1>4, <1>8, <1>9, <1>12, OutsideStep DEF IndInv

LEMMA ConnectStep == ASSUME IndInv, NEW c \in Conns, Connect(c) PROVE IndInv'
<1>1. PICK y \in Conn : y = New("backlog") /\ ConnInv(y) /\ Idle(y)  BY NewInv
<1>2. conns' = [conns EXCEPT ![c] = y] /\ UNCHANGED server /\ connects' \in 0..MaxConnects
  BY <1>1 DEF Connect, IndInv
<1>3. server.conn # c  BY DEF Connect, IndInv, ServerInv, At, Self
<1> QED  BY <1>1, <1>2, <1>3, OutsideStep

LEMMA AcceptStep == ASSUME IndInv, NEW c \in Conns, Accept(c) PROVE IndInv'
<1>1. PICK x \in Conn : x = conns[c] /\ ConnInv(x) /\ x.status = "backlog"  BY DEF IndInv, Accept
<1>2. server.conn = None /\ server.conn # c /\ UNCHANGED <<connects, server>>
  BY DEF Accept, IndInv, ServerInv, At, Stay
<1>3. CASE conns' = [conns EXCEPT ![c].status = "open", ![c].unarmed = FALSE,
                                  ![c].event = Readable(conns[c])]
  <2>1. PICK y : y = [x EXCEPT !.status = "open", !.unarmed = FALSE, !.event = Readable(x)]
    OBVIOUS
  <2>2. conns' = [conns EXCEPT ![c] = y]  BY <1>1, <1>3, <2>1 DEF IndInv
  <2>3. y \in Conn
    <3>1. Readable(x) \in BOOLEAN /\ FALSE \in BOOLEAN  BY DEF Readable
    <3> QED  BY <2>1, <3>1 DEF Conn
  <2>4. /\ y.status = "open" /\ y.write_buf = x.write_buf /\ y.write_pos = x.write_pos
        /\ y.owed = x.owed /\ y.tx = x.tx /\ y.received = x.received /\ SameCounts(x, y)
    BY <2>1 DEF Conn, SameCounts
  <2>5. /\ x.write_buf = <<>> /\ x.write_pos = 0 /\ x.received = <<>> /\ x.tx = <<>>
        /\ x.owed = <<>>
    BY <1>1 DEF ConnInv
  <2>6. UnsentOf(y) = <<>> /\ Out(y) = <<>> /\ <<>> \o <<>> = <<>>
    <3>1. UnsentOf(y) = <<>>  BY <2>4, <2>5, SubSeqEmpty DEF UnsentOf
    <3>2. <<>> \in Seq(Byte)  OBVIOUS
    <3>3. <<>> \o <<>> = <<>>  BY <3>2, ConcatEmptySeq
    <3> QED  BY <2>4, <2>5, <3>1, <3>3 DEF Out
  <2>7. Exact(y)  BY <2>4, <2>5, <2>6 DEF Exact
  <2>8. ConnInv(y)  BY <1>1, <2>4, <2>5, <2>7 DEF ConnInv, SameCounts
  <2>9. Idle(y)  BY <2>4, <2>5, <2>6 DEF Idle
  <2> QED  BY <1>2, <2>2, <2>3, <2>8, <2>9, OutsideStep DEF IndInv
<1>4. CASE conns' = [conns EXCEPT ![c] = Dropped(@)]
  <2>0. UnsentOf(x) = <<>>
    <3>1. x.write_buf = <<>> /\ x.write_pos = 0 /\ Len(<<>>) = 0  BY <1>1 DEF ConnInv
    <3> QED  BY <3>1, SubSeqEmpty DEF UnsentOf
  <2>1. PICK y \in Conn : y = Dropped(x) /\ ConnInv(y) /\ Idle(y)  BY <1>1, <2>0, DroppedInv
  <2>2. conns' = [conns EXCEPT ![c] = y]  BY <1>1, <1>4, <2>1
  <2> QED  BY <1>2, <2>1, <2>2, OutsideStep DEF IndInv
<1>5. CASE conns' = [conns EXCEPT ![c].unarmed = TRUE]
  <2>1. PICK y : y = [x EXCEPT !.unarmed = TRUE]  OBVIOUS
  <2>2. conns' = [conns EXCEPT ![c] = y]  BY <1>1, <1>5, <2>1 DEF IndInv
  <2>3. y \in Conn
    <3>1. TRUE \in BOOLEAN  OBVIOUS
    <3> QED  BY <2>1, <3>1 DEF Conn
  <2>4. SameStream(x, y) /\ SameCounts(x, y)  BY <2>1 DEF Conn, SameStream, SameCounts
  <2>5. ConnInv(y)  BY <1>1, <2>4, SameStreamInv DEF SameCounts, CountsInv, ConnInv
  <2> QED  BY <1>1, <1>2, <2>2, <2>3, <2>4, <2>5, OutsideStep DEF SameStream, IndInv
<1> QED  BY <1>3, <1>4, <1>5 DEF Accept

LEMMA PollStep == ASSUME IndInv, NEW c \in Conns, Poll(c) PROVE IndInv'
<1>1. PICK x \in Conn : x = conns[c] /\ ConnInv(x) /\ x.status = "open"  BY DEF IndInv, Poll
<1>2. server.conn = None /\ server.conn # c /\ UNCHANGED connects
  BY DEF Poll, IndInv, ServerInv, At
<1>3. PICK y : y = [x EXCEPT !.event = FALSE]  OBVIOUS
<1>4. conns' = [conns EXCEPT ![c] = y]  BY <1>1, <1>3 DEF IndInv, Poll
<1>5. y \in Conn
  <2>1. FALSE \in BOOLEAN  OBVIOUS
  <2> QED  BY <1>3, <2>1 DEF Conn
<1>6. SameStream(x, y) /\ SameCounts(x, y)  BY <1>3 DEF Conn, SameStream, SameCounts
<1>7. Idle(x)  BY <1>1, <1>2 DEF IndInv, ServerInv
<1>8. ConnInv(y) /\ Idle(y) /\ y.status = "open"
  BY <1>1, <1>6, <1>7, SameStreamInv DEF SameCounts, SameStream, CountsInv, ConnInv
<1>9. CASE server' = [phase |-> "read", conn |-> c]
  BY <1>2, <1>4, <1>5, <1>8, <1>9, ServingStep DEF Phase
<1>10. CASE server' = [phase |-> "flush", conn |-> c]
  <2>1. Len(UnsentOf(y)) <= MaxPending  BY <1>8 DEF Idle
  <2> QED  BY <1>2, <1>4, <1>5, <1>8, <1>10, <2>1, ServingStep DEF Phase
<1>11. CASE server' = server
  BY <1>2, <1>4, <1>5, <1>8, <1>11, OutsideStep DEF IndInv
<1> QED  BY <1>9, <1>10, <1>11 DEF Poll

-----------------------------------------------------------------------------
(***************************************************************************)
(* The thread: reading and parsing.                                        *)
(***************************************************************************)
\* The thread changes the connection it serves and goes on with it.
LEMMA KeepServing ==
    ASSUME IndInv, ~At("poll"), NEW y \in Conn, ConnInv(y), y.status = "open",
           Set(y), UNCHANGED connects,
           NEW p \in Phase \ {"poll"}, server' = [server EXCEPT !.phase = p],
           p = "flush" => Len(UnsentOf(y)) <= MaxPending,
           p = "reconcile" => Idle(y)
    PROVE  IndInv'
<1>1. PICK c \in Conns : c = server.conn  BY ServedConn
<1>2. conns' = [conns EXCEPT ![c] = y]  BY <1>1 DEF Set
<1>3. server = [phase |-> server.phase, conn |-> server.conn]  BY ServedConn
<1>4. server' = [phase |-> p, conn |-> c]  BY <1>1, <1>3
<1> QED  BY <1>1, <1>2, <1>4, ServingStep

\* A step that leaves the connections alone sets the one being served to itself.
LEMMA SetSelf ==
    ASSUME IndInv, ~At("poll"), UNCHANGED conns PROVE Set(Self)
<1>1. server.conn \in Conns /\ Self = conns[server.conn]  BY ServedConn
<1> QED  BY <1>1 DEF Set, IndInv

LEMMA ReadStep == ASSUME IndInv, Read PROVE IndInv'
<1>1. At("read") /\ ~At("poll")  BY DEF Read, At
<1>2. PICK x \in Conn : x = Self /\ ConnInv(x) /\ x.status = "open"  BY <1>1, ServedConn
<1>3. CASE Set([Self EXCEPT !.read = Self.sent]) /\ Goto("parse")
  <2>1. PICK y : y = [x EXCEPT !.read = x.sent]  OBVIOUS
  <2>2. y \in Conn  BY <2>1 DEF Conn
  <2>3. SameStream(x, y) /\ y.read = x.sent /\ y.sent = x.sent /\ y.parsed = x.parsed
        /\ y.kinds = x.kinds
    BY <2>1 DEF Conn, SameStream
  <2>4. x.parsed \in Nat /\ x.read \in Nat /\ x.sent \in Nat  BY DEF Conn
  <2>5. CountsInv(y)  BY <1>2, <2>3, <2>4 DEF CountsInv, ConnInv
  <2>6. ConnInv(y) /\ y.status = "open"  BY <1>2, <2>3, <2>5, SameStreamInv DEF SameStream
  <2>7. Set(y) /\ UNCHANGED connects /\ server' = [server EXCEPT !.phase = "parse"]
    BY <1>2, <1>3, <2>1 DEF Goto
  <2>8. "parse" \in Phase \ {"poll"}  BY DEF Phase
  <2> QED  BY <1>1, <2>2, <2>6, <2>7, <2>8, KeepServing
<1>4. CASE Self.fin # "no" /\ Close  BY <1>1, <1>4, CloseStep
<1> QED  BY <1>3, <1>4 DEF Read

\* The command at the front of read_buf is one the client has sent.
LEMMA IndexRange ==
    ASSUME NEW x \in Conn, ConnInv(x), x.parsed < x.read
    PROVE  x.parsed \div Size + 1 \in 1..MaxCmds
<1>1. PICK p \in Nat, r \in Nat, s \in Nat, n \in Nat :
         p = x.parsed /\ r = x.read /\ s = x.sent /\ n = Len(x.kinds)
  BY LenProperties DEF Conn
<1>2. p < r /\ r <= s /\ s <= 2 * n /\ n <= MaxCmds  BY <1>1 DEF ConnInv, Size
<1>3. PICK d \in Nat, m \in Nat : d = p \div 2 /\ m = p % 2 /\ p = 2 * d + m /\ m < 2
  OBVIOUS
<1>4. d + 1 \in 1..MaxCmds  BY <1>2, <1>3
<1> QED  BY <1>1, <1>3, <1>4 DEF Size

LEMMA ReplyType == ASSUME NEW i \in 1..MaxCmds PROVE Reply(i) \in Seq(Byte)
<1>1. \A n \in 1..Size : [cmd |-> i, part |-> n] \in Byte  BY DEF Byte
<1>2. Reply(i) \in [1..Size -> Byte] /\ Size \in Nat  BY <1>1 DEF Reply, Size
<1> QED  BY <1>2, SeqDef

\* A reply at the end of the buffer and of what is owed keeps the stream exact.
LEMMA AnsweredInv ==
    ASSUME NEW x \in Conn, ConnInv(x), x.status = "open", NEW i \in 1..MaxCmds
    PROVE  /\ Answered(x, i) \in Conn /\ ConnInv(Answered(x, i))
           /\ Answered(x, i).status = "open" /\ SameCounts(x, Answered(x, i))
           /\ Answered(x, i).close_after_flush = x.close_after_flush
<1>1. PICK y : y = Answered(x, i)  OBVIOUS
<1>2. PICK r \in Seq(Byte) : r = Reply(i)  BY ReplyType
<1>3. /\ x.write_buf \in Seq(Byte) /\ x.write_pos \in 0..Len(x.write_buf)
      /\ Len(x.write_buf) \in Nat /\ x.owed \in Seq(Byte) /\ Out(x) \in Seq(Byte)
      /\ UnsentOf(x) \in Seq(Byte)
  BY ConnFacts
<1>4. x.write_buf \o r \in Seq(Byte) /\ x.owed \o r \in Seq(Byte)
      /\ Len(x.write_buf \o r) = Len(x.write_buf) + Len(r) /\ Len(r) \in Nat
  BY <1>3, ConcatProperties, LenProperties
<1>5. y \in Conn  BY <1>1, <1>2, <1>4 DEF Answered, Conn
<1>6. /\ y.status = "open" /\ y.write_buf = x.write_buf \o r /\ y.owed = x.owed \o r
      /\ y.write_pos = x.write_pos /\ y.tx = x.tx /\ y.received = x.received
      /\ SameCounts(x, y) /\ y.close_after_flush = x.close_after_flush
  BY <1>1, <1>2 DEF Answered, Conn, SameCounts
<1>7. UnsentOf(y) = UnsentOf(x) \o r  BY <1>3, <1>6, RestOfConcat DEF UnsentOf
<1>8. Out(y) = Out(x)  BY <1>6 DEF Out
<1>9. Out(x) \o UnsentOf(x) = x.owed  BY DEF ConnInv, Exact
<1>10. (Out(x) \o UnsentOf(x)) \o r = Out(x) \o (UnsentOf(x) \o r)
  BY <1>3, ConcatAssociative
<1>11. Exact(y)  BY <1>6, <1>7, <1>8, <1>9, <1>10 DEF Exact
<1>12. y.write_pos <= Len(y.write_buf)  BY <1>3, <1>4, <1>6
<1>13. ConnInv(y)  BY <1>6, <1>11, <1>12 DEF ConnInv, SameCounts
<1> QED  BY <1>1, <1>5, <1>6, <1>13

\* A whole command taken off read_buf.
LEMMA ConsumedInv ==
    ASSUME NEW x \in Conn, ConnInv(x), x.status = "open", x.read >= x.parsed + Size
    PROVE  /\ Consumed(x) \in Conn /\ ConnInv(Consumed(x)) /\ SameStream(x, Consumed(x))
           /\ Consumed(x).status = x.status
<1>1. PICK y : y = Consumed(x)  OBVIOUS
<1>2. x.parsed \in Nat /\ x.read \in Nat /\ x.parsed + Size \in Nat  BY DEF Conn, Size
<1>3. y \in Conn  BY <1>1, <1>2 DEF Consumed, Conn
<1>4. SameStream(x, y) /\ y.parsed = x.parsed + Size /\ y.read = x.read /\ y.sent = x.sent
      /\ y.kinds = x.kinds
  BY <1>1 DEF Consumed, Conn, SameStream
<1>5. CountsInv(y)  BY <1>2, <1>4 DEF CountsInv, ConnInv
<1> QED  BY <1>1, <1>3, <1>4, <1>5, SameStreamInv DEF SameStream

\* close_after_flush is a flag of its own.
LEMMA ClosingInv ==
    ASSUME NEW x \in Conn, ConnInv(x), x.status = "open"
    PROVE  LET y == [x EXCEPT !.close_after_flush = TRUE]
           IN  y \in Conn /\ ConnInv(y) /\ y.status = x.status
<1>1. PICK y : y = [x EXCEPT !.close_after_flush = TRUE]  OBVIOUS
<1>2. y \in Conn
  <2>1. TRUE \in BOOLEAN  OBVIOUS
  <2> QED  BY <1>1, <2>1 DEF Conn
<1>3. SameStream(x, y) /\ SameCounts(x, y)  BY <1>1 DEF Conn, SameStream, SameCounts
<1>4. ConnInv(y)  BY <1>3, SameStreamInv DEF SameCounts, CountsInv, ConnInv
<1> QED  BY <1>1, <1>2, <1>3, <1>4 DEF SameStream

LEMMA ExecuteStep == ASSUME IndInv, Execute PROVE IndInv'
<1>1. At("parse") /\ ~At("poll")  BY DEF Execute, At
<1>2. PICK x \in Conn : x = Self /\ ConnInv(x) /\ x.status = "open"  BY <1>1, ServedConn
<1>3. x.read >= x.parsed + Size  BY <1>2 DEF Execute, Complete
<1>4. x.parsed \div Size + 1 \in 1..MaxCmds
  <2>1. x.parsed < x.read  BY <1>3 DEF Conn, Size
  <2> QED  BY <1>2, <2>1, IndexRange
<1>5. PICK i \in 1..MaxCmds : i = Index  BY <1>2, <1>4 DEF Index
<1>6. PICK a \in Conn : a = Answered(x, i) /\ ConnInv(a) /\ a.status = "open" /\ SameCounts(x, a)
  BY <1>2, AnsweredInv
<1>7. PICK y \in Conn : y = Consumed(a) /\ ConnInv(y) /\ y.status = "open"
  BY <1>3, <1>6, ConsumedInv DEF SameCounts
<1>8. Set(y) /\ UNCHANGED <<connects, server>>
  BY <1>2, <1>5, <1>6, <1>7 DEF Execute, Stay
<1>9. server' = [server EXCEPT !.phase = "parse"]
  BY <1>1, <1>8, ServedConn DEF At
<1> QED  BY <1>1, <1>7, <1>8, <1>9, KeepServing DEF Phase

LEMMA SkipStep == ASSUME IndInv, Skip PROVE IndInv'
<1>1. At("parse") /\ ~At("poll")  BY DEF Skip, At
<1>2. PICK x \in Conn : x = Self /\ ConnInv(x) /\ x.status = "open"  BY <1>1, ServedConn
<1>3. x.read >= x.parsed + Size  BY <1>2 DEF Skip, Complete
<1>4. PICK y \in Conn : y = Consumed(x) /\ ConnInv(y) /\ y.status = "open"
  BY <1>2, <1>3, ConsumedInv
<1>5. Set(y) /\ UNCHANGED <<connects, server>>  BY <1>2, <1>4 DEF Skip, Stay
<1>6. server' = [server EXCEPT !.phase = "parse"]
  BY <1>1, <1>5, ServedConn DEF At
<1> QED  BY <1>1, <1>4, <1>5, <1>6, KeepServing DEF Phase

LEMMA QuitStep == ASSUME IndInv, Quit PROVE IndInv'
<1>1. At("parse") /\ ~At("poll")  BY DEF Quit, At
<1>2. PICK x \in Conn : x = Self /\ ConnInv(x) /\ x.status = "open"  BY <1>1, ServedConn
<1>3. x.read >= x.parsed + Size  BY <1>2 DEF Quit, Complete
<1>4. x.parsed \div Size + 1 \in 1..MaxCmds
  <2>1. x.parsed < x.read  BY <1>3 DEF Conn, Size
  <2> QED  BY <1>2, <2>1, IndexRange
<1>5. PICK i \in 1..MaxCmds : i = Index  BY <1>2, <1>4 DEF Index
<1>6. PICK a \in Conn : a = Answered(x, i) /\ ConnInv(a) /\ a.status = "open" /\ SameCounts(x, a)
  BY <1>2, AnsweredInv
<1>7. PICK b \in Conn : b = Consumed(a) /\ ConnInv(b) /\ b.status = "open"
  BY <1>3, <1>6, ConsumedInv DEF SameCounts
<1>8. PICK y \in Conn : y = [b EXCEPT !.close_after_flush = TRUE] /\ ConnInv(y) /\ y.status = "open"
  BY <1>7, ClosingInv
<1>9. Set(y) /\ UNCHANGED connects /\ server' = [server EXCEPT !.phase = "limit"]
  BY <1>2, <1>5, <1>6, <1>7, <1>8 DEF Quit, Goto
<1> QED  BY <1>1, <1>8, <1>9, KeepServing DEF Phase

LEMMA ProtocolErrorStep == ASSUME IndInv, ProtocolError PROVE IndInv'
<1>1. At("parse") /\ ~At("poll")  BY DEF ProtocolError, At
<1>2. PICK x \in Conn : x = Self /\ ConnInv(x) /\ x.status = "open"  BY <1>1, ServedConn
<1>3. x.parsed < x.read  BY <1>2 DEF ProtocolError, Invalid, Conn
<1>4. x.parsed \div Size + 1 \in 1..MaxCmds  BY <1>2, <1>3, IndexRange
<1>5. PICK i \in 1..MaxCmds : i = Index  BY <1>2, <1>4 DEF Index
<1>6. PICK a \in Conn : a = Answered(x, i) /\ ConnInv(a) /\ a.status = "open"
  BY <1>2, AnsweredInv
<1>7. PICK y \in Conn : y = [a EXCEPT !.close_after_flush = TRUE] /\ ConnInv(y) /\ y.status = "open"
  BY <1>6, ClosingInv
<1>8. Set(y) /\ UNCHANGED connects /\ server' = [server EXCEPT !.phase = "limit"]
  BY <1>2, <1>5, <1>6, <1>7 DEF ProtocolError, Goto
<1> QED  BY <1>1, <1>7, <1>8, KeepServing DEF Phase

LEMMA ParseEndStep == ASSUME IndInv, ParseEnd PROVE IndInv'
<1>1. ~At("poll") /\ UNCHANGED conns /\ Goto("limit")  BY DEF ParseEnd, At
<1>2. PICK x \in Conn : x = Self /\ ConnInv(x) /\ x.status = "open"  BY <1>1, ServedConn
<1>3. Set(x) /\ UNCHANGED connects /\ server' = [server EXCEPT !.phase = "limit"]
  BY <1>1, <1>2, SetSelf DEF Goto
<1> QED  BY <1>1, <1>2, <1>3, KeepServing DEF Phase

LEMMA PanicStep == ASSUME IndInv, Panic PROVE IndInv'
<1>1. ~At("poll") /\ ForceClose  BY DEF Panic, At
<1> QED  BY <1>1, ForceCloseStep

LEMMA LimitStep == ASSUME IndInv, Limit PROVE IndInv'
<1>1. ~At("poll")  BY DEF Limit, At
<1>2. CASE ForceClose  BY <1>1, <1>2, ForceCloseStep
<1>3. CASE Len(Unsent(server.conn)) <= MaxPending /\ UNCHANGED conns /\ Goto("flush")
  <2>1. PICK x \in Conn : x = Self /\ ConnInv(x) /\ x.status = "open"
                          /\ UnsentOf(x) = Unsent(server.conn)
    BY <1>1, ServedConn
  <2>2. Set(x) /\ UNCHANGED connects /\ server' = [server EXCEPT !.phase = "flush"]
    BY <1>1, <1>3, <2>1, SetSelf DEF Goto
  <2>3. Len(UnsentOf(x)) <= MaxPending /\ "flush" \in Phase \ {"poll"}  BY <1>3, <2>1 DEF Phase
  <2> QED  BY <1>1, <2>1, <2>2, <2>3, KeepServing
<1> QED  BY <1>2, <1>3 DEF Limit

-----------------------------------------------------------------------------
(***************************************************************************)
(* The thread: flush_writes and reconcile_interest.                        *)
(***************************************************************************)
\* n bytes of the unsent part move to the socket and the cursor moves by n: what
\* has left the server and what is unsent are the same stream as before.
LEMMA WrittenInv ==
    ASSUME NEW x \in Conn, ConnInv(x), x.status = "open", NEW n \in 1..Len(UnsentOf(x))
    PROVE  LET y == [x EXCEPT !.tx = x.tx \o SubSeq(UnsentOf(x), 1, n),
                              !.write_pos = x.write_pos + n]
           IN  y \in Conn /\ ConnInv(y) /\ y.status = "open"
               /\ Len(UnsentOf(y)) <= Len(UnsentOf(x))
<1>1. PICK u \in Seq(Byte) : u = UnsentOf(x)  BY ConnFacts
<1>2. PICK len \in Nat, pos \in Nat : len = Len(x.write_buf) /\ pos = x.write_pos /\ pos <= len
  BY ConnFacts
<1>3. Len(u) = len - pos /\ n \in 0..Len(u) /\ n \in Nat  BY <1>1, <1>2, ConnFacts
<1>4. PICK s \in Seq(Byte), r \in Seq(Byte) :
         s = SubSeq(u, 1, n) /\ r = SubSeq(u, n + 1, Len(u)) /\ s \o r = u /\ Len(r) = Len(u) - n
  <2>1. SubSeq(u, 1, n) \in Seq(Byte) /\ SubSeq(u, 1, n) \o SubSeq(u, n + 1, Len(u)) = u
    BY <1>3, Split
  <2>2. SubSeq(u, n + 1, Len(u)) \in Seq(Byte) /\ Len(SubSeq(u, n + 1, Len(u))) = Len(u) - n
    BY <1>3, Rest
  <2> QED  BY <2>1, <2>2
<1>5. x.tx \in Seq(Byte) /\ x.received \in Seq(Byte) /\ Out(x) \in Seq(Byte)
      /\ x.write_buf \in Seq(Byte)
  BY ConnFacts
<1>6. x.tx \o s \in Seq(Byte) /\ x.write_pos + n \in Nat
  <2>1. x.tx \o s \in Seq(Byte)  BY <1>5, ConcatProperties
  <2>2. x.write_pos + n \in Nat  BY <1>2, <1>3
  <2> QED  BY <2>1, <2>2
<1>7. PICK y : y = [x EXCEPT !.tx = x.tx \o s, !.write_pos = x.write_pos + n]  OBVIOUS
<1>8. y \in Conn  BY <1>6, <1>7 DEF Conn
<1>9. /\ y.status = "open" /\ y.write_buf = x.write_buf /\ y.write_pos = x.write_pos + n
      /\ y.tx = x.tx \o s /\ y.received = x.received /\ y.owed = x.owed /\ SameCounts(x, y)
  BY <1>7 DEF Conn, SameCounts
<1>10. UnsentOf(y) = r
  <2>1. x.write_pos \in 0..Len(x.write_buf) /\ n \in 0..(Len(x.write_buf) - x.write_pos)
    BY <1>2, <1>3
  <2>2. SubSeq(x.write_buf, x.write_pos + n + 1, Len(x.write_buf)) = SubSeq(u, n + 1, Len(u))
    BY <1>1, <1>5, <2>1, RestOfRest DEF UnsentOf
  <2> QED  BY <1>4, <1>9, <2>2 DEF UnsentOf
<1>11. (x.received \o (x.tx \o s)) \o r = (x.received \o x.tx) \o u
  <2>1. PICK q \in Seq(Byte), v \in Seq(Byte) : q = x.received /\ v = x.tx  BY <1>5
  <2>2. \A w, z \in Seq(Byte) : (q \o (v \o w)) \o z = (q \o v) \o (w \o z)  BY MovePrefix
  <2>3. (q \o (v \o s)) \o r = (q \o v) \o (s \o r)  BY <2>2
  <2> QED  BY <1>4, <2>1, <2>3
<1>12. Out(y) \o UnsentOf(y) = Out(x) \o UnsentOf(x)  BY <1>1, <1>9, <1>10, <1>11 DEF Out
<1>13. Out(x) \o UnsentOf(x) = x.owed  BY DEF ConnInv, Exact
<1>14. Exact(y)  BY <1>9, <1>12, <1>13 DEF Exact
<1>15. y.write_pos <= Len(y.write_buf)
  <2>1. pos + n <= len  BY <1>2, <1>3
  <2> QED  BY <1>2, <1>9, <2>1
<1>16. ConnInv(y)  BY <1>9, <1>14, <1>15 DEF ConnInv, SameCounts
<1>17. Len(UnsentOf(y)) <= Len(UnsentOf(x))  BY <1>1, <1>2, <1>3, <1>4, <1>10
<1> QED  BY <1>1, <1>4, <1>7, <1>8, <1>9, <1>16, <1>17

LEMMA WriteStep == ASSUME IndInv, Write PROVE IndInv'
<1>1. At("flush") /\ ~At("poll")  BY DEF Write, At
<1>2. PICK x \in Conn : x = Self /\ ConnInv(x) /\ x.status = "open"
                        /\ UnsentOf(x) = Unsent(server.conn)
  BY <1>1, ServedConn
<1>3. PICK n \in 1..Len(UnsentOf(x)) :
         Set([Self EXCEPT !.tx = @ \o SubSeq(Unsent(server.conn), 1, n), !.write_pos = @ + n])
  BY <1>2 DEF Write
<1>4. PICK y : y = [x EXCEPT !.tx = x.tx \o SubSeq(UnsentOf(x), 1, n),
                             !.write_pos = x.write_pos + n]
  OBVIOUS
<1>5. y \in Conn /\ ConnInv(y) /\ y.status = "open" /\ Len(UnsentOf(y)) <= Len(UnsentOf(x))
  BY <1>2, <1>4, WrittenInv
<1>6. Set(y)  BY <1>2, <1>3, <1>4
<1>7. UNCHANGED connects /\ server' = [server EXCEPT !.phase = "flush"]
  BY <1>1, ServedConn DEF Write, Stay, At
<1>8. Len(UnsentOf(x)) <= MaxPending  BY <1>1, <1>2 DEF IndInv, ServerInv
<1>9. Len(UnsentOf(y)) <= MaxPending
  <2>1. UnsentOf(x) \in Seq(Byte) /\ UnsentOf(y) \in Seq(Byte)  BY <1>2, <1>5, ConnFacts
  <2>2. Len(UnsentOf(x)) \in Nat /\ Len(UnsentOf(y)) \in Nat  BY <2>1, LenProperties
  <2> QED  BY <1>5, <1>8, <2>2
<1>10. "flush" \in Phase \ {"poll"}  BY DEF Phase
<1> QED  BY <1>1, <1>5, <1>6, <1>7, <1>9, <1>10, KeepServing

\* Reclaiming keeps the unsent part and leaves a buffer within both limits.
LEMMA ReclaimedInv ==
    ASSUME NEW x \in Conn, ConnInv(x), x.status = "open", Len(UnsentOf(x)) <= MaxPending
    PROVE  LET y == Reclaimed(x)
           IN  y \in Conn /\ ConnInv(y) /\ y.status = "open" /\ Idle(y)
<1>1. PICK y : y = Reclaimed(x)  OBVIOUS
<1>2. PICK len \in Nat, pos \in Nat : len = Len(x.write_buf) /\ pos = x.write_pos /\ pos <= len
  BY ConnFacts
<1>3. PICK u \in Seq(Byte) : u = UnsentOf(x)  BY ConnFacts
<1>4. Len(u) = len - pos /\ Len(u) <= MaxPending  BY <1>2, <1>3, ConnFacts
<1>5. CASE x.write_pos < Reclaim
  <2>1. y = x  BY <1>1, <1>5 DEF Reclaimed
  <2>2. len < MaxPending + Reclaim  BY <1>2, <1>4, <1>5
  <2>3. Idle(x)  BY <1>2, <2>2 DEF Idle
  <2> QED  BY <1>1, <2>1, <2>3
<1>6. CASE ~(x.write_pos < Reclaim)
  <2>1. y = [x EXCEPT !.write_buf = u, !.write_pos = 0]
    BY <1>1, <1>3, <1>6 DEF Reclaimed, UnsentOf
  <2>2. y \in Conn  BY <2>1 DEF Conn
  <2>3. /\ y.status = "open" /\ y.write_buf = u /\ y.write_pos = 0
        /\ y.tx = x.tx /\ y.received = x.received /\ y.owed = x.owed /\ SameCounts(x, y)
    BY <2>1 DEF Conn, SameCounts
  <2>4. UnsentOf(y) = u  BY <2>3, SubSeqFull DEF UnsentOf
  <2>5. Out(y) = Out(x)  BY <2>3 DEF Out
  <2>6. Exact(y)  BY <1>3, <2>3, <2>4, <2>5 DEF ConnInv, Exact
  <2>7. Len(u) \in Nat  BY LenProperties
  <2>8. ConnInv(y)  BY <2>3, <2>6, <2>7 DEF ConnInv, SameCounts
  <2>9. Idle(y)  BY <1>4, <2>3, <2>4, <2>7 DEF Idle
  <2> QED  BY <1>1, <2>2, <2>3, <2>8, <2>9
<1> QED  BY <1>5, <1>6

LEMMA WouldBlockStep == ASSUME IndInv, WouldBlock PROVE IndInv'
<1>1. At("flush") /\ ~At("poll")  BY DEF WouldBlock, At
<1>2. PICK x \in Conn : x = Self /\ ConnInv(x) /\ x.status = "open"  BY <1>1, ServedConn
<1>3. Len(UnsentOf(x)) <= MaxPending  BY <1>1, <1>2 DEF IndInv, ServerInv
<1>4. PICK y \in Conn : y = Reclaimed(x) /\ ConnInv(y) /\ y.status = "open" /\ Idle(y)
  BY <1>2, <1>3, ReclaimedInv
<1>5. Set(y) /\ UNCHANGED connects /\ server' = [server EXCEPT !.phase = "reconcile"]
  BY <1>2, <1>4 DEF WouldBlock, Goto
<1>6. "reconcile" \in Phase \ {"poll"}  BY DEF Phase
<1> QED  BY <1>1, <1>4, <1>5, <1>6, KeepServing

LEMMA WriteFailsStep == ASSUME IndInv, WriteFails PROVE IndInv'
<1>1. ~At("poll") /\ Close /\ Self.fin # "no"  BY DEF WriteFails, At
<1> QED  BY <1>1, CloseStep

LEMMA DrainedStep == ASSUME IndInv, Drained PROVE IndInv'
<1>1. At("flush") /\ ~At("poll") /\ Unsent(server.conn) = <<>>  BY DEF Drained, At
<1>2. CASE Close  BY <1>1, <1>2, CloseStep
<1>3. CASE Set([Self EXCEPT !.write_buf = <<>>, !.write_pos = 0]) /\ Goto("reconcile")
  <2>1. PICK x \in Conn : x = Self /\ ConnInv(x) /\ x.status = "open"
                          /\ UnsentOf(x) = Unsent(server.conn)
    BY <1>1, ServedConn
  <2>2. PICK y : y = [x EXCEPT !.write_buf = <<>>, !.write_pos = 0]  OBVIOUS
  <2>3. y \in Conn
    <3>1. <<>> \in Seq(Byte) /\ 0 \in Nat  BY EmptySeq
    <3> QED  BY <2>2, <3>1 DEF Conn
  <2>4. /\ y.status = "open" /\ y.write_buf = <<>> /\ y.write_pos = 0
        /\ y.tx = x.tx /\ y.received = x.received /\ y.owed = x.owed /\ SameCounts(x, y)
    BY <2>1, <2>2 DEF Conn, SameCounts
  <2>5. UnsentOf(y) = <<>> /\ Len(y.write_buf) = 0  BY <2>4, SubSeqEmpty DEF UnsentOf
  <2>6. UnsentOf(x) = <<>>  BY <2>1 DEF Drained
  <2>7. Out(y) = Out(x)  BY <2>4 DEF Out
  <2>8. Exact(y)  BY <2>1, <2>4, <2>5, <2>6, <2>7 DEF ConnInv, Exact
  <2>9. ConnInv(y)  BY <2>1, <2>4, <2>5, <2>8 DEF ConnInv, SameCounts
  <2>10. Idle(y)  BY <2>5 DEF Idle
  <2>11. Set(y) /\ UNCHANGED connects /\ server' = [server EXCEPT !.phase = "reconcile"]
    BY <1>3, <2>1, <2>2 DEF Goto
  <2>12. "reconcile" \in Phase \ {"poll"}  BY DEF Phase
  <2> QED  BY <1>1, <2>3, <2>4, <2>9, <2>10, <2>11, <2>12, KeepServing
<1> QED  BY <1>2, <1>3 DEF Drained

\* Registrations and flags change, the stream and the buffer do not.
LEMMA ReconcileStep == ASSUME IndInv, Reconcile PROVE IndInv'
<1>1. At("reconcile") /\ ~At("poll")  BY DEF Reconcile, At
<1>2. PICK x \in Conn : x = Self /\ ConnInv(x) /\ x.status = "open"  BY <1>1, ServedConn
<1>3. Idle(x)  BY <1>1, <1>2 DEF IndInv, ServerInv
<1>4. PICK c \in Conns : c = server.conn  BY <1>1, ServedConn
<1>5. UNCHANGED connects /\ server' = Polling  BY DEF Reconcile, Done
<1>6. ASSUME NEW y \in Conn, SameStream(x, y), SameCounts(x, y), Set(y) PROVE IndInv'
  <2>1. ConnInv(y) /\ Idle(y)
    BY <1>2, <1>3, <1>6, SameStreamInv DEF SameCounts, CountsInv, ConnInv
  <2>2. conns' = [conns EXCEPT ![c] = y]  BY <1>4, <1>6 DEF Set
  <2> QED  BY <1>4, <1>5, <2>1, <2>2, DoneStep
<1>7. CASE UNCHANGED conns
  BY <1>1, <1>2, <1>6, <1>7, SetSelf DEF SameStream, SameCounts
<1>8. CASE Set(Reregistered)
  <2>1. PICK w \in BOOLEAN, e \in BOOLEAN :
           Reregistered = [x EXCEPT !.want_write = w, !.unarmed = FALSE, !.event = e]
    BY <1>2, Zenon DEF Reregistered, NeedsWrite
  <2>2. PICK y : y = Reregistered  OBVIOUS
  <2>3. y \in Conn
    <3>1. FALSE \in BOOLEAN  OBVIOUS
    <3> QED  BY <2>1, <2>2, <3>1 DEF Conn
  <2>4. SameStream(x, y) /\ SameCounts(x, y)
    BY <2>1, <2>2 DEF Conn, SameStream, SameCounts
  <2> QED  BY <1>6, <1>8, <2>2, <2>3, <2>4
<1>9. CASE Set([Self EXCEPT !.unarmed = TRUE])
  <2>1. PICK y : y = [x EXCEPT !.unarmed = TRUE]  OBVIOUS
  <2>2. y \in Conn
    <3>1. TRUE \in BOOLEAN  OBVIOUS
    <3> QED  BY <2>1, <3>1 DEF Conn
  <2>3. SameStream(x, y) /\ SameCounts(x, y)  BY <2>1 DEF Conn, SameStream, SameCounts
  <2> QED  BY <1>2, <1>6, <1>9, <2>1, <2>2, <2>3
<1> QED  BY <1>7, <1>8, <1>9 DEF Reconcile

-----------------------------------------------------------------------------
(***************************************************************************)
(* The theorems.                                                           *)
(***************************************************************************)
LEMMA InitInv == Init => IndInv
<1> SUFFICES ASSUME Init PROVE IndInv
  OBVIOUS
<1>1. PICK y \in Conn : y = New("closed") /\ ConnInv(y) /\ Idle(y)  BY NewInv
<1>2. conns = [c \in Conns |-> y] /\ connects = 0 /\ server = Polling  BY <1>1 DEF Init
<1>3. \A c \in Conns : conns[c] = y  BY <1>2
<1>4. conns \in [Conns -> Conn] /\ connects \in 0..MaxConnects  BY <1>2
<1>5. ServerInv  BY <1>1, <1>2, <1>3 DEF ServerInv, Polling, Phase, At
<1> QED  BY <1>1, <1>3, <1>4, <1>5 DEF IndInv

LEMMA UnchangedInv == ASSUME IndInv, UNCHANGED vars PROVE IndInv'
<1>1. conns' = conns /\ connects' = connects /\ server' = server  BY DEF vars
<1> QED  BY <1>1 DEF IndInv, ServerInv, At, Self

LEMMA NextInv == IndInv /\ [Next]_vars => IndInv'
<1> SUFFICES ASSUME IndInv, [Next]_vars PROVE IndInv'
  OBVIOUS
<1>1. CASE UNCHANGED vars  BY <1>1, UnchangedInv
<1>2. ASSUME NEW c \in Conns,
             Connect(c) \/ Send(c) \/ Receive(c) \/ Finish(c) \/ Accept(c) \/ Poll(c)
      PROVE  IndInv'
  BY <1>2, ConnectStep, SendStep, ReceiveStep, FinishStep, AcceptStep, PollStep
<1>3. CASE PollTimeout  BY <1>3, UnchangedInv DEF PollTimeout
<1>4. CASE Step
  BY <1>4, ReadStep, ExecuteStep, SkipStep, QuitStep, ProtocolErrorStep, PanicStep,
     ParseEndStep, LimitStep, WriteStep, WouldBlockStep, WriteFailsStep, DrainedStep,
     ReconcileStep
     DEF Step
<1> QED  BY <1>1, <1>2, <1>3, <1>4 DEF Next

LEMMA Invariance == Spec => []IndInv
BY InitInv, NextInv, PTL DEF Spec

\* The thread's states: counts stay in order (nothing is parsed that was not read,
\* nothing read that was not sent), the write cursor stays within the buffer, and
\* the thread has a connection exactly when it is not polling.
THEOREM LoopTypes == Spec => []TypeOK
<1>1. IndInv => TypeOK  BY DEF IndInv, ConnInv, ServerInv, TypeOK
<1> QED  BY <1>1, Invariance, PTL

\* For every socket and buffer size and any number of connections and commands,
\* flush_writes and the reclaiming of its buffer neither lose, repeat nor reorder
\* a byte of a reply: received, in flight and unsent are together what is owed,
\* and a connection is closed with nothing unsent unless its client is leaving
\* or it is dropped by force.
THEOREM RepliesExactHolds == Spec => []RepliesExact
<1>1. IndInv => RepliesExact
  <2> SUFFICES ASSUME IndInv, NEW c \in Conns
               PROVE  LET x == conns[c]
                          out == x.received \o x.tx
                      IN  IF x.status = "closed" /\ Forfeited(x)
                          THEN Len(out) <= Len(x.owed) /\ out = SubSeq(x.owed, 1, Len(out))
                          ELSE out \o Unsent(c) = x.owed
    BY DEF RepliesExact
  <2>1. Exact(conns[c])  BY DEF IndInv, ConnInv
  <2> QED  BY <2>1 DEF Exact, Out, UnsentOf, Unsent
<1> QED  BY <1>1, Invariance, PTL

\* MAX_PENDING_WRITE_BYTES and WRITE_PREFIX_RECLAIM_BYTES together bound the
\* buffer of every connection the thread is not serving at the moment.
THEOREM BufferBoundedHolds == Spec => []BufferBounded
<1>1. IndInv => BufferBounded  BY DEF IndInv, ServerInv, BufferBounded, Idle
<1> QED  BY <1>1, Invariance, PTL
=============================================================================
