----------------------------- MODULE WireProofs -----------------------------
(***************************************************************************)
(* Proofs about the wire: the parsers and encoders of RespProto, the       *)
(* dispatch of commands and the sessions built from them.                  *)
(***************************************************************************)
EXTENDS MCWire, SequenceTheorems, WellFoundedInduction, TLAPS

-----------------------------------------------------------------------------
(***************************************************************************)
(* Natural numbers: least elements and induction, over sets.               *)
(***************************************************************************)
\* A non-empty set of natural numbers has a least element.
LEMMA LeastNat ==
    ASSUME NEW T, T \subseteq Nat, T # {} PROVE \E m \in T : \A n \in T : m <= n
<1>1. PICK m \in T : \A n \in T : <<n, m>> \notin OpToRel(<, Nat)
  BY NatLessThanWellFounded, WFMin
<1>2. \A n \in T : m <= n
  <2> SUFFICES ASSUME NEW n \in T PROVE m <= n  OBVIOUS
  <2>1. m \in Nat /\ n \in Nat  OBVIOUS
  <2>2. n < m => <<n, m>> \in OpToRel(<, Nat)  BY <2>1 DEF OpToRel
  <2>3. ~(n < m)  BY <1>1, <2>2, Zenon
  <2> QED  BY <2>1, <2>3
<1> QED  BY <1>2

\* A set with 0 and with the successor of each of its numbers has them all.
LEMMA SetInduction ==
    ASSUME NEW T, 0 \in T, \A n \in Nat : n \in T => n + 1 \in T
    PROVE  \A n \in Nat : n \in T
<1> DEFINE Bad == {n \in Nat : n \notin T}
<1> SUFFICES ASSUME Bad # {} PROVE FALSE  OBVIOUS
<1>1. PICK m \in Bad : \A n \in Bad : m <= n
  <2>1. Bad \subseteq Nat  OBVIOUS
  <2> HIDE DEF Bad
  <2> QED  BY <2>1, LeastNat
<1>2. m \in Nat /\ m # 0 /\ m \notin T  OBVIOUS
<1>3. m - 1 \in Nat /\ (m - 1) + 1 = m /\ ~(m <= m - 1)  BY <1>2
<1>4. m - 1 \in T  BY <1>1, <1>3
<1> QED  BY <1>2, <1>3, <1>4

-----------------------------------------------------------------------------
(***************************************************************************)
(* The loops.                                                              *)
(***************************************************************************)
\* The recursive function of Collect exists, so Collect satisfies its equations.
LEMMA CollectEquations ==
    ASSUME NEW elements, NEW start
    PROVE  /\ Collect(elements, start, 0) = Done(<<>>, start)
           /\ \A n \in Nat : Collect(elements, start, n + 1)
                                = CollectNext(elements, Collect(elements, start, n))
<1> DEFINE A == Done(<<>>, start)
           S(x) == CollectNext(elements, x)
           Upto(f, n) == f[0] = A /\ \A i \in 0..(n - 1) : f[i + 1] = S(f[i])
<1>1. \A n \in Nat : \E f : Upto(f, n)
  <2> DEFINE T == {n \in Nat : \E f : Upto(f, n)}
  <2>1. 0 \in T
    <3>1. Upto([i \in Nat |-> A], 0)  OBVIOUS
    <3> QED  BY <3>1
  <2>2. ASSUME NEW n \in Nat, n \in T PROVE n + 1 \in T
    <3>1. PICK f : Upto(f, n)  BY <2>2
    <3> DEFINE g == [i \in Nat |-> IF i <= n THEN f[i] ELSE S(f[n])]
    <3>2. g[0] = A  BY <3>1
    <3>3. ASSUME NEW i \in 0..n PROVE g[i + 1] = S(g[i])
      <4>1. i + 1 \in Nat /\ i \in Nat /\ g[i] = f[i]  OBVIOUS
      <4>2. CASE i = n  BY <4>1, <4>2
      <4>3. CASE i < n
        <5>1. i \in 0..(n - 1) /\ i + 1 <= n  BY <4>3
        <5> QED  BY <3>1, <4>1, <5>1
      <4> QED  BY <4>2, <4>3
    <3>4. Upto(g, n + 1)
      <4> HIDE DEF g, S, A
      <4> QED  BY <3>2, <3>3
    <3>5. \E f1 : Upto(f1, n + 1)
      <4> HIDE DEF g, Upto
      <4> QED  BY <3>4
    <3> HIDE DEF Upto
    <3> QED  BY <3>5
  <2> HIDE DEF Upto
  <2>3. \A n \in Nat : n \in T
    <3> HIDE DEF T
    <3> QED  BY <2>1, <2>2, SetInduction
  <2> QED  BY <2>3
<1>2. ASSUME NEW f, NEW g, NEW n \in Nat, NEW m \in Nat, Upto(f, n), Upto(g, m)
      PROVE  \A i \in Nat : i <= n /\ i <= m => f[i] = g[i]
  <2> DEFINE T == {i \in Nat : i <= n /\ i <= m => f[i] = g[i]}
  <2>1. 0 \in T  BY <1>2
  <2>2. ASSUME NEW i \in Nat, i \in T PROVE i + 1 \in T
    <3> SUFFICES ASSUME i + 1 <= n /\ i + 1 <= m PROVE f[i + 1] = g[i + 1]  OBVIOUS
    <3>1. i \in 0..(n - 1) /\ i \in 0..(m - 1) /\ i <= n /\ i <= m  OBVIOUS
    <3> QED  BY <1>2, <2>2, <3>1
  <2>3. \A i \in Nat : i \in T
    <3> HIDE DEF T
    <3> QED  BY <2>1, <2>2, SetInduction
  <2> QED  BY <2>3
<1> DEFINE chosen(n) == CHOOSE f : Upto(f, n)
           G == [n \in Nat |-> chosen(n)[n]]
<1>3. \A n \in Nat : Upto(chosen(n), n)
  <2> HIDE DEF Upto
  <2> QED  BY <1>1
<1>4. G[0] = A  BY <1>3
<1>5. ASSUME NEW n \in Nat PROVE G[n + 1] = S(G[n])
  <2>1. n + 1 \in Nat /\ n <= n /\ n <= n + 1 /\ n \in 0..((n + 1) - 1)  OBVIOUS
  <2>2. chosen(n + 1)[n + 1] = S(chosen(n + 1)[n])  BY <1>3, <2>1
  <2>3. chosen(n + 1)[n] = chosen(n)[n]
    <3> HIDE DEF Upto, chosen
    <3> QED  BY <1>2, <1>3, <2>1
  <2> HIDE DEF chosen, S
  <2> QED  BY <2>1, <2>2, <2>3
<1> DEFINE Recursive(f) == f = [n \in Nat |-> IF n = 0 THEN A ELSE S(f[n - 1])]
           after == CHOOSE f : Recursive(f)
<1>6. Recursive(G)
  <2> DEFINE H == [n \in Nat |-> IF n = 0 THEN A ELSE S(G[n - 1])]
  <2>1. ASSUME NEW n \in Nat PROVE G[n] = H[n]
    <3>1. CASE n = 0  BY <1>4, <3>1
    <3>2. CASE n # 0
      <4>1. n - 1 \in Nat /\ (n - 1) + 1 = n  BY <3>2
      <4>2. G[n] = S(G[n - 1])  BY ONLY <1>5, <4>1
      <4> HIDE DEF G, S
      <4> QED  BY <3>2, <4>2
    <3> QED  BY <3>1, <3>2
  <2>2. G = [n \in Nat |-> G[n]] /\ H = [n \in Nat |-> H[n]]  OBVIOUS
  <2>3. G = H
    <3> HIDE DEF G, H
    <3> QED  BY <2>1, <2>2
  <2> QED  BY <2>3
<1>7. Recursive(after)
  <2> HIDE DEF Recursive
  <2> QED  BY <1>6
<1>8. \A n : Collect(elements, start, n) = after[n]  BY DEF Collect
<1>9. after[0] = A  BY <1>7
<1>10. ASSUME NEW n \in Nat PROVE after[n + 1] = S(after[n])
  <2>1. n + 1 \in Nat /\ n + 1 # 0 /\ (n + 1) - 1 = n  OBVIOUS
  <2> HIDE DEF S, after
  <2> QED  BY <1>7, <2>1
<1> QED
  <2> HIDE DEF after
  <2> QED  BY <1>8, <1>9, <1>10

-----------------------------------------------------------------------------
(***************************************************************************)
(* Outcomes, and buffers that grow.                                        *)
(***************************************************************************)
Pos == Nat \ {0}
Text == Seq(Byte)

\* What a parser of values in V returns.
IsOutcome(o, V) ==
    \/ o = Incomplete \/ o = Malformed \/ o = TooLong
    \/ \E x \in V, n \in Pos : o = Done(x, n)

\* after begins with before.
Grown(before, after) ==
    Len(before) <= Len(after) /\ \A i \in 1..Len(before) : after[i] = before[i]

\* The fields of the outcomes of a parser.
LEMMA OutcomeFields ==
    /\ Incomplete.out = "Incomplete"
    /\ Malformed.out = "Invalid" /\ Malformed.why = "malformed"
    /\ TooLong.out = "Invalid" /\ TooLong.why = "too long"
    /\ \A x, n : Done(x, n).out = "Complete" /\ Done(x, n).value = x /\ Done(x, n).next = n
  BY DEF Incomplete, Malformed, TooLong, Done

\* A complete outcome is its value and the position behind it.
LEMMA CompleteOutcome ==
    ASSUME NEW V, NEW o, IsOutcome(o, V)
    PROVE  /\ o.out = "Complete" => o.value \in V /\ o.next \in Pos /\ o = Done(o.value, o.next)
           /\ o.out # "Complete" => o = Incomplete \/ o = Malformed \/ o = TooLong
<1>1. CASE o = Incomplete \/ o = Malformed \/ o = TooLong
  <2>1. o.out # "Complete"  BY <1>1, OutcomeFields
  <2> QED  BY <1>1, <2>1
<1>2. CASE \E x \in V, n \in Pos : o = Done(x, n)
  <2>1. PICK x \in V, n \in Pos : o = Done(x, n)  BY <1>2
  <2>2. o.out = "Complete" /\ o.value = x /\ o.next = n  BY <2>1, OutcomeFields
  <2> QED  BY <2>1, <2>2
<1> QED  BY <1>1, <1>2 DEF IsOutcome

\* An outcome that stays as it is has settled.
LEMMA SettlesSame == \A o : Settles(o, o)  BY DEF Settles

\* What a settled outcome has become.
LEMMA SettledOutcome ==
    ASSUME NEW V, NEW o, IsOutcome(o, V), NEW p, Settles(o, p)
    PROVE  o = Incomplete \/ o = TooLong \/ o = p
<1>1. CASE o = Malformed
  <2>1. o.out = "Invalid" /\ o.why = "malformed"  BY <1>1, OutcomeFields
  <2> QED  BY <2>1 DEF Settles
<1>2. CASE \E x \in V, n \in Pos : o = Done(x, n)
  <2>1. PICK x \in V, n \in Pos : o = Done(x, n)  BY <1>2
  <2>2. o.out = "Complete"  BY <2>1, OutcomeFields
  <2> QED  BY <2>2 DEF Settles
<1> QED  BY <1>1, <1>2 DEF IsOutcome

\* More bytes may turn these two into any outcome.
LEMMA UnsettledOutcomes == \A o : Settles(Incomplete, o) /\ Settles(TooLong, o)
  BY OutcomeFields DEF Settles

\* A line ends where a carriage return comes before a line feed.
LEMMA CrlfAt ==
    ASSUME NEW buf \in Text, NEW i \in Pos, i + 1 <= Len(buf)
    PROVE  SubSeq(buf, i, i + 1) = CRLF <=> buf[i] = "CR" /\ buf[i + 1] = "LF"
<1>1. \A j \in i..(i + 1) : buf[j] \in Byte  BY DEF Text, Pos
<1>2. PICK s : s = SubSeq(buf, i, i + 1)  OBVIOUS
<1>3. s \in Seq(Byte) /\ Len(s) = 2 /\ s[1] = buf[i] /\ s[2] = buf[i + 1]
  <2>1. i \in Int /\ i + 1 \in Int /\ i <= i + 1 /\ (i + 1) - i + 1 = 2
        /\ 1 \in 1..2 /\ 2 \in 1..2 /\ i + 1 - 1 = i /\ i + 2 - 1 = i + 1  BY DEF Pos
  <2>2. SubSeq(buf, i, i + 1) \in Seq(Byte) /\ Len(SubSeq(buf, i, i + 1)) = 2
        /\ \A j \in 1..2 : SubSeq(buf, i, i + 1)[j] = buf[i + j - 1]
    BY <1>1, <2>1, SubSeqProperties
  <2> QED  BY <1>2, <2>1, <2>2
<1>4. CRLF \in Seq(Byte) /\ Len(CRLF) = 2 /\ CRLF[1] = "CR" /\ CRLF[2] = "LF"
  <2>1. "CR" \in Byte /\ "LF" \in Byte  BY ProtoAssumption
  <2> QED  BY <2>1 DEF CRLF
<1>5. s[1] = "CR" /\ s[2] = "LF" => s = CRLF
  <2> SUFFICES ASSUME s[1] = "CR", s[2] = "LF" PROVE s = CRLF  OBVIOUS
  <2>1. \A j \in 1..Len(s) : s[j] = CRLF[j]  BY <1>3, <1>4
  <2> QED  BY <1>3, <1>4, <2>1, SeqEqual
<1> QED  BY <1>2, <1>3, <1>4, <1>5

\* Where a line ends.
Ends(buf, i) == buf[i] = "CR" /\ buf[i + 1] = "LF"

\* find_crlf finds the first line end of the buffer, if there is one.
LEMMA FindCrlf ==
    ASSUME NEW buf \in Text, NEW from \in Pos
    PROVE  \/ /\ find_crlf(buf, from) = {}
              /\ \A i \in from..(Len(buf) - 1) : ~Ends(buf, i)
           \/ \E m \in from..(Len(buf) - 1) :
                 /\ find_crlf(buf, from) = {m} /\ Ends(buf, m)
                 /\ \A i \in from..(m - 1) : ~Ends(buf, i)
<1> DEFINE at == {i \in from..(Len(buf) - 1) : SubSeq(buf, i, i + 1) = CRLF}
<1>1. Len(buf) \in Nat  BY DEF Text
<1>2. \A i \in from..(Len(buf) - 1) : i \in at <=> Ends(buf, i)
  <2> SUFFICES ASSUME NEW i \in from..(Len(buf) - 1) PROVE i \in at <=> Ends(buf, i)  OBVIOUS
  <2>1. i \in Pos /\ i + 1 <= Len(buf)  BY <1>1 DEF Pos
  <2> QED  BY <2>1, CrlfAt DEF Ends
<1>3. at \subseteq from..(Len(buf) - 1)  OBVIOUS
<1>4. find_crlf(buf, from) = IF at = {} THEN {} ELSE {Min(at)}  BY DEF find_crlf
<1> HIDE DEF at
<1>5. CASE at = {}  BY <1>2, <1>4, <1>5
<1>6. CASE at # {}
  <2>1. at \subseteq Nat  BY <1>1, <1>3 DEF Pos
  <2>2. \E m \in at : \A n \in at : m <= n  BY <1>6, <2>1, LeastNat
  <2>3. PICK m : m = Min(at)  OBVIOUS
  <2>4. m \in at /\ \A n \in at : m <= n  BY <2>2, <2>3 DEF Min
  <2>5. m \in from..(Len(buf) - 1) /\ Ends(buf, m)  BY <1>2, <1>3, <2>4
  <2>6. ASSUME NEW i \in from..(m - 1) PROVE ~Ends(buf, i)
    <3>1. i \in from..(Len(buf) - 1) /\ ~(m <= i)  BY <1>1, <2>5 DEF Pos
    <3> QED  BY <1>2, <2>4, <3>1
  <2> QED  BY <1>4, <1>6, <2>3, <2>5, <2>6
<1> QED  BY <1>5, <1>6

\* The member of a set of one.
LEMMA TheOne == \A x : The({x}) = x  BY DEF The

\* A piece of a buffer is in the buffer that has grown from it too.
LEMMA PieceOfGrown ==
    ASSUME NEW buf \in Text, NEW more \in Text, Grown(buf, more),
           NEW i \in Pos, NEW j \in Int, j <= Len(buf)
    PROVE  SubSeq(buf, i, j) \in Text /\ SubSeq(more, i, j) = SubSeq(buf, i, j)
<1>1. i \in Int /\ Len(buf) \in Nat /\ Len(more) \in Nat  BY DEF Pos, Text
<1>2. \A n \in i..j : buf[n] \in Byte /\ more[n] \in Byte /\ more[n] = buf[n]
  <2> SUFFICES ASSUME NEW n \in i..j
               PROVE  buf[n] \in Byte /\ more[n] \in Byte /\ more[n] = buf[n]
    OBVIOUS
  <2>1. n \in 1..Len(buf) /\ n \in 1..Len(more)  BY <1>1 DEF Grown, Pos
  <2> QED  BY <2>1, ElementOfSeq DEF Grown, Text
<1>3. PICK s : s = SubSeq(buf, i, j)  OBVIOUS
<1>4. PICK t : t = SubSeq(more, i, j)  OBVIOUS
<1>5. s \in Seq(Byte) /\ Len(s) = (IF i <= j THEN j - i + 1 ELSE 0)
      /\ \A n \in 1..(j - i + 1) : s[n] = buf[i + n - 1]
  BY <1>1, <1>2, <1>3, SubSeqProperties
<1>6. t \in Seq(Byte) /\ Len(t) = (IF i <= j THEN j - i + 1 ELSE 0)
      /\ \A n \in 1..(j - i + 1) : t[n] = more[i + n - 1]
  BY <1>1, <1>2, <1>4, SubSeqProperties
<1>7. \A n \in 1..Len(s) : s[n] = t[n]
  <2> SUFFICES ASSUME NEW n \in 1..Len(s) PROVE s[n] = t[n]  OBVIOUS
  <2>1. n \in 1..(j - i + 1) /\ i + n - 1 \in i..j  BY <1>1, <1>5
  <2> QED  BY <1>2, <1>5, <1>6, <2>1
<1>8. s = t  BY <1>5, <1>6, <1>7, SeqEqual
<1> QED  BY <1>3, <1>4, <1>5, <1>8 DEF Text

\* Every buffer has grown from itself by nothing.
LEMMA GrownSelf == \A buf : Len(buf) \in Nat => Grown(buf, buf)  BY DEF Grown

\* A piece of a buffer is a text.
LEMMA Piece ==
    ASSUME NEW buf \in Text, NEW i \in Pos, NEW j \in Int, j <= Len(buf)
    PROVE  SubSeq(buf, i, j) \in Text
<1>1. Grown(buf, buf)  BY GrownSelf DEF Text
<1> QED  BY <1>1, PieceOfGrown

\* A line ends at its first CRLF, or has not ended.
LEMMA ReadLine ==
    ASSUME NEW buf \in Text, NEW from \in Pos, NEW start \in Int
    PROVE  \/ \E m \in from..(Len(buf) - 1) :
                 /\ Ends(buf, m) /\ \A i \in from..(m - 1) : ~Ends(buf, i)
                 /\ read_line(buf, from, start) = Done(SubSeq(buf, from, m - 1), m + 2)
           \/ /\ \A i \in from..(Len(buf) - 1) : ~Ends(buf, i)
              /\ read_line(buf, from, start) =
                    IF Len(buf) - start + 1 > MAX_INLINE_LEN THEN TooLong ELSE Incomplete
<1>1. CASE find_crlf(buf, from) = {} /\ \A i \in from..(Len(buf) - 1) : ~Ends(buf, i)
  BY <1>1 DEF read_line
<1>2. CASE \E m \in from..(Len(buf) - 1) :
              /\ find_crlf(buf, from) = {m} /\ Ends(buf, m)
              /\ \A i \in from..(m - 1) : ~Ends(buf, i)
  <2>1. PICK m \in from..(Len(buf) - 1) :
              /\ find_crlf(buf, from) = {m} /\ Ends(buf, m)
              /\ \A i \in from..(m - 1) : ~Ends(buf, i)
    BY <1>2
  <2>2. find_crlf(buf, from) # {} /\ The(find_crlf(buf, from)) = m  BY <2>1, TheOne
  <2>3. read_line(buf, from, start) = Done(SubSeq(buf, from, m - 1), m + 2)
    BY <2>2 DEF read_line
  <2> QED  BY <2>1, <2>3
<1> QED  BY <1>1, <1>2, FindCrlf

\* read_line returns a line, waits, or refuses.
LEMMA ReadLineType ==
    ASSUME NEW buf \in Text, NEW from \in Pos, NEW start \in Int
    PROVE  IsOutcome(read_line(buf, from, start), Text)
<1>1. Len(buf) \in Nat  BY DEF Text
<1>2. ASSUME NEW m \in from..(Len(buf) - 1),
             read_line(buf, from, start) = Done(SubSeq(buf, from, m - 1), m + 2)
      PROVE  IsOutcome(read_line(buf, from, start), Text)
  <2>1. m - 1 \in Int /\ m - 1 <= Len(buf) /\ m + 2 \in Pos  BY <1>1 DEF Pos
  <2>2. SubSeq(buf, from, m - 1) \in Text  BY <2>1, Piece
  <2> QED  BY <1>2, <2>1, <2>2 DEF IsOutcome
<1> QED  BY <1>2, ReadLine DEF IsOutcome

\* What read_line has found stays found when bytes arrive.
LEMMA ReadLineSettles ==
    ASSUME NEW buf \in Text, NEW more \in Text, Grown(buf, more),
           NEW from \in Pos, NEW start \in Int
    PROVE  Settles(read_line(buf, from, start), read_line(more, from, start))
<1>1. Len(buf) \in Nat /\ Len(more) \in Nat /\ Len(buf) <= Len(more)  BY DEF Text, Grown
<1>2. \A i \in from..(Len(buf) - 1) : Ends(buf, i) <=> Ends(more, i)
  <2> SUFFICES ASSUME NEW i \in from..(Len(buf) - 1) PROVE Ends(buf, i) <=> Ends(more, i)
    OBVIOUS
  <2>1. i \in 1..Len(buf) /\ i + 1 \in 1..Len(buf)  BY <1>1 DEF Pos
  <2> QED  BY <2>1 DEF Grown, Ends
<1>3. ASSUME NEW m \in from..(Len(buf) - 1),
             Ends(buf, m), \A i \in from..(m - 1) : ~Ends(buf, i),
             read_line(buf, from, start) = Done(SubSeq(buf, from, m - 1), m + 2)
      PROVE  read_line(more, from, start) = Done(SubSeq(buf, from, m - 1), m + 2)
  <2>1. from \in Nat /\ m \in from..(Len(more) - 1) /\ Ends(more, m)  BY <1>1, <1>2, <1>3 DEF Pos
  <2>2. \A i \in from..(m - 1) : ~Ends(more, i)  BY <1>1, <1>2, <1>3, <2>1
  <2>3. PICK n \in from..(Len(more) - 1) :
              /\ Ends(more, n) /\ \A i \in from..(n - 1) : ~Ends(more, i)
              /\ read_line(more, from, start) = Done(SubSeq(more, from, n - 1), n + 2)
    BY <2>1, ReadLine
  <2>4. ~(m < n) /\ ~(n < m)
    <3>1. m < n => m \in from..(n - 1)  BY <2>1, <1>1
    <3>2. n < m => n \in from..(m - 1)  BY <2>1, <1>1
    <3> QED  BY <2>1, <2>2, <2>3, <3>1, <3>2
  <2>5. m = n  BY <1>1, <2>1, <2>4
  <2>6. m - 1 \in Int /\ m - 1 <= Len(buf)  BY <1>1, <2>1
  <2>7. SubSeq(more, from, m - 1) = SubSeq(buf, from, m - 1)  BY <2>6, PieceOfGrown
  <2> QED  BY <2>3, <2>5, <2>7
<1>4. CASE \/ read_line(buf, from, start) = TooLong
           \/ read_line(buf, from, start) = Incomplete
  BY <1>4, UnsettledOutcomes
<1>5. CASE \E m \in from..(Len(buf) - 1) :
                 /\ Ends(buf, m) /\ \A i \in from..(m - 1) : ~Ends(buf, i)
                 /\ read_line(buf, from, start) = Done(SubSeq(buf, from, m - 1), m + 2)
  <2>1. read_line(more, from, start) = read_line(buf, from, start)  BY <1>3, <1>5
  <2> QED  BY <2>1 DEF Settles
<1> QED  BY <1>4, <1>5, ReadLine

\* The payload of a bulk string is a text.
LEMMA PayloadType ==
    ASSUME NEW buf \in Text, NEW start \in Pos, NEW len \in Nat
    PROVE  IsOutcome(Payload(buf, start, len), Text)
<1>1. CASE start + len + 1 > Len(buf)
  <2>1. Payload(buf, start, len) = Incomplete
    <3>1. ~(start + len + 1 <= Len(buf))  BY <1>1 DEF Pos, Text
    <3> QED  BY <1>1, <3>1 DEF Payload
  <2> QED  BY <2>1 DEF IsOutcome
<1>2. CASE start + len + 1 <= Len(buf)
  <2>1. start + len - 1 \in Int /\ start + len - 1 <= Len(buf) /\ start + len + 2 \in Pos
        /\ ~(start + len + 1 > Len(buf))
    BY <1>2 DEF Pos, Text
  <2>2. SubSeq(buf, start, start + len - 1) \in Text  BY <2>1, Piece
  <2>3. Payload(buf, start, len) \in
          {Malformed, Done(SubSeq(buf, start, start + len - 1), start + len + 2)}
    BY <1>2, <2>1 DEF Payload
  <2> QED  BY <2>1, <2>2, <2>3 DEF IsOutcome
<1> QED  BY <1>1, <1>2 DEF Pos, Text

\* What has been found of a payload stays found when bytes arrive.
LEMMA PayloadSettles ==
    ASSUME NEW buf \in Text, NEW more \in Text, Grown(buf, more),
           NEW start \in Pos, NEW len \in Nat
    PROVE  Settles(Payload(buf, start, len), Payload(more, start, len))
<1>1. Len(buf) \in Nat /\ Len(more) \in Nat /\ Len(buf) <= Len(more)  BY DEF Text, Grown
<1>2. CASE start + len + 1 > Len(buf)
  <2>1. Payload(buf, start, len) = Incomplete
    <3>1. ~(start + len + 1 <= Len(buf))  BY <1>1, <1>2 DEF Pos
    <3> QED  BY <1>2, <3>1 DEF Payload
  <2> QED  BY <2>1, UnsettledOutcomes
<1>3. CASE start + len + 1 <= Len(buf)
  <2>1. start + len - 1 \in Int /\ start + len - 1 <= Len(buf)
        /\ start + len \in Pos /\ start + len + 1 \in Int
        /\ start + len + 1 <= Len(more) /\ ~(start + len + 1 > Len(buf))
        /\ ~(start + len + 1 > Len(more))
    BY <1>1, <1>3 DEF Pos
  <2>2. SubSeq(more, start, start + len - 1) = SubSeq(buf, start, start + len - 1)
    BY <2>1, PieceOfGrown
  <2>3. SubSeq(more, start + len, start + len + 1) = SubSeq(buf, start + len, start + len + 1)
    BY <1>3, <2>1, PieceOfGrown
  <2>4. Payload(more, start, len) = Payload(buf, start, len)
    BY <1>3, <2>1, <2>2, <2>3 DEF Payload
  <2> QED  BY <2>4 DEF Settles
<1> QED  BY <1>1, <1>2, <1>3 DEF Pos

-----------------------------------------------------------------------------
(***************************************************************************)
(* Commands are parsed to the same outcome whole or in pieces.             *)
(***************************************************************************)
LEMMA Limits ==
    /\ MAX_BULK_LEN \in Nat /\ MAX_ARRAY_LEN \in Nat /\ MAX_INLINE_LEN \in Nat
    /\ MAX_REPLY_DEPTH \in Nat /\ I64Max \in Nat
  BY ProtoAssumption

\* An Option of a number, cut to a range, is {} or that number.
LEMMA ParseRange ==
    ASSUME NEW bytes, NEW lo \in Int, NEW hi \in Int,
           NEW n, n = parse_i64_strict(bytes) \cap lo..hi, n # {}
    PROVE  The(n) \in lo..hi /\ n = {The(n)}
<1>1. PICK x : parse_i64_strict(bytes) \subseteq {x}  BY DEF parse_i64_strict, parse
<1>2. n = {x} /\ x \in lo..hi  BY <1>1
<1> QED  BY <1>2, TheOne

\* A bulk string of a command is a text.
LEMMA BulkAtType ==
    ASSUME NEW buf \in Text, NEW pos \in Pos
    PROVE  IsOutcome(bulk_at(buf, pos), Text)
<1>1. PICK line : line = read_line(buf, pos + 1, pos)  OBVIOUS
<1>2. IsOutcome(line, Text)  BY <1>1, ReadLineType DEF Pos
<1>3. PICK len : len = parse_i64_strict(line.value) \cap 0..MAX_BULK_LEN  OBVIOUS
<1>4. bulk_at(buf, pos) \in {Incomplete, Malformed} \/
      (bulk_at(buf, pos) = line /\ line.out # "Complete") \/
      (line.out = "Complete" /\ len # {} /\ bulk_at(buf, pos) = Payload(buf, line.next, The(len)))
  BY <1>1, <1>3 DEF bulk_at, Pos, Text
<1>5. CASE line.out = "Complete" /\ len # {} /\ bulk_at(buf, pos) = Payload(buf, line.next, The(len))
  <2>1. line.next \in Pos  BY <1>2, <1>5, CompleteOutcome
  <2>2. The(len) \in 0..MAX_BULK_LEN
    <3>1. len # {} /\ 0 \in Int /\ MAX_BULK_LEN \in Int  BY <1>5, Limits
    <3> QED  BY <1>3, <3>1, ParseRange
  <2>3. The(len) \in Nat  BY <2>2, Limits
  <2> QED  BY <1>5, <2>1, <2>3, PayloadType
<1> QED  BY <1>2, <1>4, <1>5 DEF IsOutcome

\* What has been found of a bulk string stays found when bytes arrive.
LEMMA BulkAtSettles ==
    ASSUME NEW buf \in Text, NEW more \in Text, Grown(buf, more), NEW pos \in Pos
    PROVE  Settles(bulk_at(buf, pos), bulk_at(more, pos))
<1>1. PICK line : line = read_line(buf, pos + 1, pos)  OBVIOUS
<1>2. PICK line2 : line2 = read_line(more, pos + 1, pos)  OBVIOUS
<1>3. IsOutcome(line, Text) /\ Settles(line, line2)
  BY <1>1, <1>2, ReadLineType, ReadLineSettles DEF Pos
<1>4. line = Incomplete \/ line = TooLong \/ line = line2  BY <1>3, SettledOutcome
<1>5. PICK len : len = parse_i64_strict(line.value) \cap 0..MAX_BULK_LEN  OBVIOUS
<1>6. CASE pos > Len(buf)
  <2>1. bulk_at(buf, pos) = Incomplete
    <3>1. ~(pos <= Len(buf))  BY <1>6 DEF Pos, Text
    <3> QED  BY <1>6, <3>1 DEF bulk_at
  <2> QED  BY <2>1, UnsettledOutcomes
<1>7. CASE pos <= Len(buf)
  <2>1. pos <= Len(more) /\ ~(pos > Len(buf)) /\ ~(pos > Len(more)) /\ more[pos] = buf[pos]
    BY <1>7 DEF Grown, Text, Pos
  <2>2. CASE buf[pos] # "$"
    <3>1. bulk_at(buf, pos) = Malformed /\ bulk_at(more, pos) = Malformed
      BY <1>7, <2>1, <2>2 DEF bulk_at
    <3> QED  BY <3>1 DEF Settles
  <2>3. CASE buf[pos] = "$" /\ line.out # "Complete"
    <3>1. bulk_at(buf, pos) = line  BY <1>1, <1>7, <2>1, <2>3 DEF bulk_at
    <3>2. line = line2 => bulk_at(more, pos) = line  BY <1>2, <1>7, <2>1, <2>3 DEF bulk_at
    <3> QED  BY <1>4, <3>1, <3>2, UnsettledOutcomes DEF Settles
  <2>4. CASE buf[pos] = "$" /\ line.out = "Complete"
    <3>1. line = line2  BY <1>4, <2>4, OutcomeFields
    <3>2. CASE len = {}
      <4>1. bulk_at(buf, pos) = Malformed /\ bulk_at(more, pos) = Malformed
        BY <1>1, <1>2, <1>5, <1>7, <2>1, <2>4, <3>1, <3>2 DEF bulk_at
      <4> QED  BY <4>1 DEF Settles
    <3>3. CASE len # {}
      <4>1. /\ bulk_at(buf, pos) = Payload(buf, line.next, The(len))
            /\ bulk_at(more, pos) = Payload(more, line.next, The(len))
        BY <1>1, <1>2, <1>5, <1>7, <2>1, <2>4, <3>1, <3>3 DEF bulk_at
      <4>2. line.next \in Pos  BY <1>3, <2>4, CompleteOutcome
      <4>3. The(len) \in 0..MAX_BULK_LEN  BY <1>5, <3>3, ParseRange, Limits
      <4>4. The(len) \in Nat  BY <4>3, Limits
      <4> QED  BY <4>1, <4>2, <4>4, PayloadSettles
    <3> QED  BY <3>2, <3>3
  <2> QED  BY <2>2, <2>3, <2>4
<1> QED  BY <1>6, <1>7 DEF Text, Pos

\* Elements of V are collected into a sequence of them.
LEMMA CollectType ==
    ASSUME NEW V, NEW elements, \A pos \in Pos : IsOutcome(elements[pos], V), NEW start \in Pos
    PROVE  \A n \in Nat : /\ IsOutcome(Collect(elements, start, n), Seq(V))
                          /\ Collect(elements, start, n).out = "Complete" =>
                                Len(Collect(elements, start, n).value) = n
<1> DEFINE T == {n \in Nat : /\ IsOutcome(Collect(elements, start, n), Seq(V))
                             /\ Collect(elements, start, n).out = "Complete" =>
                                   Len(Collect(elements, start, n).value) = n}
<1>1. 0 \in T
  <2>1. Collect(elements, start, 0) = Done(<<>>, start)  BY CollectEquations
  <2>2. <<>> \in Seq(V) /\ Len(<<>>) = 0  OBVIOUS
  <2>3. IsOutcome(Done(<<>>, start), Seq(V))  BY <2>2 DEF IsOutcome
  <2>4. Done(<<>>, start).value = <<>>  BY OutcomeFields
  <2> QED  BY <2>1, <2>2, <2>3, <2>4
<1>2. ASSUME NEW n \in Nat, n \in T PROVE n + 1 \in T
  <2>1. PICK before : before = Collect(elements, start, n)  OBVIOUS
  <2>2. PICK after : after = Collect(elements, start, n + 1)  OBVIOUS
  <2>3. after = CollectNext(elements, before)  BY <2>1, <2>2, CollectEquations
  <2>4. IsOutcome(before, Seq(V)) /\ (before.out = "Complete" => Len(before.value) = n)
    BY <1>2, <2>1
  <2>5. CASE before.out # "Complete"
    <3>1. after = before  BY <2>3, <2>5 DEF CollectNext
    <3>2. IsOutcome(after, Seq(V)) /\ after.out # "Complete"  BY <2>4, <2>5, <3>1
    <3> QED  BY <2>2, <3>2
  <2>6. CASE before.out = "Complete"
    <3>1. before.value \in Seq(V) /\ before.next \in Pos  BY <2>4, <2>6, CompleteOutcome
    <3>2. PICK item : item = elements[before.next]  OBVIOUS
    <3>3. IsOutcome(item, V)  BY <3>1, <3>2
    <3>4. CASE item.out # "Complete"
      <4>1. after = item  BY <2>3, <2>6, <3>2, <3>4 DEF CollectNext
      <4>2. IsOutcome(after, Seq(V)) /\ after.out # "Complete"
        BY <3>3, <3>4, <4>1, CompleteOutcome DEF IsOutcome
      <4> QED  BY <2>2, <4>2
    <3>5. CASE item.out = "Complete"
      <4>1. after = Done(Append(before.value, item.value), item.next)
        BY <2>3, <2>6, <3>2, <3>5 DEF CollectNext
      <4>2. item.value \in V /\ item.next \in Pos  BY <3>3, <3>5, CompleteOutcome
      <4>3. Append(before.value, item.value) \in Seq(V)
            /\ Len(Append(before.value, item.value)) = n + 1
        BY <2>4, <2>6, <3>1, <4>2, AppendProperties
      <4>4. after.value = Append(before.value, item.value)  BY <4>1, OutcomeFields
      <4>5. IsOutcome(after, Seq(V)) /\ Len(after.value) = n + 1
        BY <4>1, <4>2, <4>3, <4>4 DEF IsOutcome
      <4> QED  BY <2>2, <4>5
    <3> QED  BY <3>4, <3>5
  <2> QED  BY <2>5, <2>6
<1>3. \A n \in Nat : n \in T
  <2> HIDE DEF T
  <2> QED  BY <1>1, <1>2, SetInduction
<1> QED  BY <1>3

\* The loops are as stable as their elements.
LEMMA CollectSettles ==
    ASSUME NEW V, NEW elements, \A pos \in Pos : IsOutcome(elements[pos], V), NEW start \in Pos,
           NEW elements2, \A pos \in Pos : Settles(elements[pos], elements2[pos])
    PROVE  \A n \in Nat : Settles(Collect(elements, start, n), Collect(elements2, start, n))
<1> DEFINE T == {n \in Nat : Settles(Collect(elements, start, n), Collect(elements2, start, n))}
<1>1. 0 \in T
  <2>1. Collect(elements, start, 0) = Collect(elements2, start, 0)
    BY CollectEquations
  <2> QED  BY <2>1 DEF Settles
<1>2. ASSUME NEW n \in Nat, n \in T PROVE n + 1 \in T
  <2>1. PICK before : before = Collect(elements, start, n)  OBVIOUS
  <2>2. PICK before2 : before2 = Collect(elements2, start, n)  OBVIOUS
  <2>3. PICK after : after = Collect(elements, start, n + 1)  OBVIOUS
  <2>4. PICK after2 : after2 = Collect(elements2, start, n + 1)  OBVIOUS
  <2>5. after = CollectNext(elements, before) /\ after2 = CollectNext(elements2, before2)
    BY <2>1, <2>2, <2>3, <2>4, CollectEquations
  <2>6. IsOutcome(before, Seq(V))  BY <2>1, CollectType
  <2>7. before = Incomplete \/ before = TooLong \/ before = before2
    BY <1>2, <2>1, <2>2, <2>6, SettledOutcome
  <2>8. Settles(after, after2)
    <3>1. CASE before.out # "Complete"
      <4>1. after = before  BY <2>5, <3>1 DEF CollectNext
      <4>2. before = before2 => after2 = before  BY <2>5, <3>1 DEF CollectNext
      <4> QED  BY <2>7, <4>1, <4>2, UnsettledOutcomes, SettlesSame
    <3>2. CASE before.out = "Complete"
      <4>1. before = before2  BY <2>7, <3>2, OutcomeFields
      <4>2. before.next \in Pos  BY <2>6, <3>2, CompleteOutcome
      <4>3. PICK item : item = elements[before.next]  OBVIOUS
      <4>4. PICK item2 : item2 = elements2[before.next]  OBVIOUS
      <4>5. IsOutcome(item, V) /\ Settles(item, item2)  BY <4>2, <4>3, <4>4
      <4>6. item = Incomplete \/ item = TooLong \/ item = item2  BY <4>5, SettledOutcome
      <4>7. CASE item = item2
        <5>1. after = after2  BY <2>5, <4>1, <4>3, <4>4, <4>7 DEF CollectNext
        <5> QED  BY <5>1, SettlesSame
      <4>8. CASE item = Incomplete \/ item = TooLong
        <5>1. item.out # "Complete"  BY <4>8, OutcomeFields
        <5>2. after = item  BY <2>5, <3>2, <4>3, <5>1 DEF CollectNext
        <5> QED  BY <4>8, <5>2, UnsettledOutcomes
      <4> QED  BY <4>6, <4>7, <4>8
    <3> QED  BY <3>1, <3>2
  <2> QED  BY <2>3, <2>4, <2>8
<1>3. \A n \in Nat : n \in T
  <2> HIDE DEF T
  <2> QED  BY <1>1, <1>2, SetInduction
<1> QED  BY <1>3

-----------------------------------------------------------------------------
(***************************************************************************)
(* The words of a line.                                                    *)
(***************************************************************************)
\* What the first n bytes of a line add to the words of the first n - 1.
NextWords(line, n, before) ==
    CASE line[n] = "SP" -> before
      [] line[n] # "SP" /\ (n = 1 \/ line[n - 1] = "SP") -> Append(before, <<line[n]>>)
      [] OTHER -> [before EXCEPT ![Len(before)] = Append(@, line[n])]

\* A function of Nat defined by its value at 0 and a step to each next number,
\* the steps being functions.
Iterates(f, X, A, Step) ==
    f \in [Nat -> X] /\ f[0] = A /\ \A n \in Nat : f[n + 1] = Step[n + 1][f[n]]

\* A function on numbers exists that starts at A and is taken on by Step.
LEMMA Recursion ==
    ASSUME NEW X, NEW A \in X, NEW Step \in [Nat -> [X -> X]]
    PROVE  \E f : Iterates(f, X, A, Step)
<1> DEFINE Upto(f, n) == f[0] = A /\ \A i \in 0..(n - 1) : f[i + 1] = Step[i + 1][f[i]]
<1>1. \A n \in Nat : \E f \in [Nat -> X] : Upto(f, n)
  <2> DEFINE T == {n \in Nat : \E f \in [Nat -> X] : Upto(f, n)}
  <2>1. 0 \in T
    <3>1. Upto([i \in Nat |-> A], 0) /\ [i \in Nat |-> A] \in [Nat -> X]  OBVIOUS
    <3> QED  BY <3>1
  <2>2. ASSUME NEW n \in Nat, n \in T PROVE n + 1 \in T
    <3>1. PICK f \in [Nat -> X] : Upto(f, n)  BY <2>2
    <3> DEFINE g == [i \in Nat |-> IF i <= n THEN f[i] ELSE Step[n + 1][f[n]]]
    <3>2. g[0] = A /\ g \in [Nat -> X]  BY <3>1
    <3>3. ASSUME NEW i \in 0..n PROVE g[i + 1] = Step[i + 1][g[i]]
      <4>1. i + 1 \in Nat /\ i \in Nat /\ g[i] = f[i]  OBVIOUS
      <4>2. CASE i = n  BY <4>1, <4>2
      <4>3. CASE i < n
        <5>1. i \in 0..(n - 1) /\ i + 1 <= n  BY <4>3
        <5> QED  BY <3>1, <4>1, <5>1
      <4> QED  BY <4>2, <4>3
    <3>4. Upto(g, n + 1)
      <4> HIDE DEF g
      <4> QED  BY <3>2, <3>3
    <3>5. \E f1 \in [Nat -> X] : Upto(f1, n + 1)
      <4> HIDE DEF g, Upto
      <4> QED  BY <3>2, <3>4
    <3> HIDE DEF Upto
    <3> QED  BY <3>5
  <2> HIDE DEF Upto
  <2>3. \A n \in Nat : n \in T
    <3> HIDE DEF T
    <3> QED  BY <2>1, <2>2, SetInduction
  <2> QED  BY <2>3
<1>2. ASSUME NEW f, NEW g, NEW n \in Nat, NEW m \in Nat, Upto(f, n), Upto(g, m)
      PROVE  \A i \in Nat : i <= n /\ i <= m => f[i] = g[i]
  <2> DEFINE T == {i \in Nat : i <= n /\ i <= m => f[i] = g[i]}
  <2>1. 0 \in T  BY <1>2
  <2>2. ASSUME NEW i \in Nat, i \in T PROVE i + 1 \in T
    <3> SUFFICES ASSUME i + 1 <= n /\ i + 1 <= m PROVE f[i + 1] = g[i + 1]  OBVIOUS
    <3>1. i \in 0..(n - 1) /\ i \in 0..(m - 1) /\ i <= n /\ i <= m  OBVIOUS
    <3> QED  BY <1>2, <2>2, <3>1
  <2>3. \A i \in Nat : i \in T
    <3> HIDE DEF T
    <3> QED  BY <2>1, <2>2, SetInduction
  <2> QED  BY <2>3
<1> DEFINE chosen(n) == CHOOSE f \in [Nat -> X] : Upto(f, n)
           G == [n \in Nat |-> chosen(n)[n]]
<1>3. \A n \in Nat : chosen(n) \in [Nat -> X] /\ Upto(chosen(n), n)
  <2> HIDE DEF Upto
  <2> QED  BY <1>1
<1>4. G[0] = A  BY <1>3
<1>5. ASSUME NEW n \in Nat PROVE G[n + 1] = Step[n + 1][G[n]]
  <2>1. n + 1 \in Nat /\ n <= n /\ n <= n + 1 /\ n \in 0..((n + 1) - 1)  OBVIOUS
  <2>2. chosen(n + 1)[n + 1] = Step[n + 1][chosen(n + 1)[n]]  BY <1>3, <2>1
  <2>3. chosen(n + 1)[n] = chosen(n)[n]
    <3> HIDE DEF Upto, chosen
    <3> QED  BY <1>2, <1>3, <2>1
  <2> HIDE DEF chosen
  <2> QED  BY <2>1, <2>2, <2>3
<1>6. G \in [Nat -> X]
  <2> HIDE DEF chosen, Upto
  <2> QED  BY <1>3
<1> HIDE DEF G
<1> QED  BY <1>4, <1>5, <1>6 DEF Iterates

\* Splitting one more byte of an inline line leaves words that are texts.
LEMMA NextWordsType ==
    ASSUME NEW line \in Text, NEW n \in 1..Len(line), NEW before \in Seq(Text)
    PROVE  NextWords(line, n, before) \in Seq(Text)
<1>1. line[n] \in Byte  BY DEF Text
<1>2. <<line[n]>> \in Text  BY <1>1 DEF Text
<1>3. Append(before, <<line[n]>>) \in Seq(Text)  BY <1>2, AppendProperties
<1>4. [before EXCEPT ![Len(before)] = Append(@, line[n])] \in Seq(Text)
  <2>1. CASE before = <<>>
    <3>1. [before EXCEPT ![Len(before)] = Append(@, line[n])] = before  BY <2>1
    <3> QED  BY <3>1
  <2>2. CASE before # <<>>
    <3>1. Len(before) \in 1..Len(before)  BY <2>2, EmptySeq
    <3>2. before[Len(before)] \in Text  BY <3>1, ElementOfSeq
    <3>3. Append(before[Len(before)], line[n]) \in Text  BY <1>1, <3>2, AppendProperties DEF Text
    <3> QED  BY <3>1, <3>3, ExceptSeq
  <2> QED  BY <2>1, <2>2
<1> QED  BY <1>3, <1>4 DEF NextWords

\* The words of an inline line are texts.
LEMMA WordsType == ASSUME NEW line \in Text PROVE Words(line) \in Seq(Text)
<1> DEFINE D == 0..Len(line)
           Recursive(f) == f = [n \in D |-> IF n = 0 THEN <<>> ELSE NextWords(line, n, f[n - 1])]
           words == CHOOSE f : Recursive(f)
           Step == [n \in Nat |-> [x \in Seq(Text) |->
                      IF n \in 1..Len(line) THEN NextWords(line, n, x) ELSE x]]
<1>1. Len(line) \in Nat /\ <<>> \in Seq(Text)  BY DEF Text
<1>2. Step \in [Nat -> [Seq(Text) -> Seq(Text)]]  BY NextWordsType
<1>3. PICK f : Iterates(f, Seq(Text), <<>>, Step)
  <2> HIDE DEF Step
  <2> QED  BY <1>1, <1>2, Recursion
<1>4. \A n \in 1..Len(line) : f[n] = NextWords(line, n, f[n - 1])
  <2> SUFFICES ASSUME NEW n \in 1..Len(line) PROVE f[n] = NextWords(line, n, f[n - 1])  OBVIOUS
  <2>1. n - 1 \in Nat /\ (n - 1) + 1 = n /\ n \in Nat  BY <1>1
  <2>2. f[n] = Step[n][f[n - 1]] /\ f[n - 1] \in Seq(Text)
    <3> HIDE DEF Step
    <3> QED  BY <1>3, <2>1 DEF Iterates
  <2> QED  BY <2>1, <2>2
<1> DEFINE g == [n \in D |-> f[n]]
<1>5. Recursive(g)
  <2>1. ASSUME NEW n \in D PROVE g[n] = IF n = 0 THEN <<>> ELSE NextWords(line, n, g[n - 1])
    <3>1. CASE n = 0  BY <1>1, <1>3, <3>1 DEF Iterates
    <3>2. CASE n # 0
      <4>1. n \in 1..Len(line) /\ n - 1 \in D  BY <1>1, <3>2
      <4>2. g[n] = f[n] /\ g[n - 1] = f[n - 1]  BY <4>1
      <4> QED  BY <1>4, <3>2, <4>1, <4>2
    <3> QED  BY <3>1, <3>2
  <2> DEFINE h == [n \in D |-> IF n = 0 THEN <<>> ELSE NextWords(line, n, g[n - 1])]
  <2>2. g = [n \in D |-> g[n]] /\ h = [n \in D |-> h[n]]  OBVIOUS
  <2>3. \A n \in D : g[n] = h[n]
    <3> HIDE DEF g
    <3> QED  BY <2>1
  <2>4. g = h
    <3> HIDE DEF g, h, D
    <3> QED  BY <2>2, <2>3
  <2> QED  BY <2>4
<1>6. Recursive(words)
  <2> HIDE DEF Recursive, g
  <2> QED  BY <1>5
<1>7. Words(line) = words[Len(line)]  BY DEF Words, NextWords
<1> HIDE DEF words
<1> DEFINE T == {n \in Nat : n \in D => words[n] \in Seq(Text)}
<1>8. 0 \in T  BY <1>1, <1>6
<1>9. ASSUME NEW n \in Nat, n \in T PROVE n + 1 \in T
  <2> SUFFICES ASSUME n + 1 \in D PROVE words[n + 1] \in Seq(Text)  OBVIOUS
  <2>1. n \in D /\ n + 1 \in 1..Len(line) /\ n + 1 # 0 /\ (n + 1) - 1 = n  BY <1>1
  <2>2. words[n + 1] = NextWords(line, n + 1, words[n])  BY <1>6, <2>1
  <2>3. words[n] \in Seq(Text)  BY <1>9, <2>1
  <2> QED  BY <2>1, <2>2, <2>3, NextWordsType
<1>10. \A n \in Nat : n \in T
  <2> HIDE DEF T
  <2> QED  BY <1>8, <1>9, SetInduction
<1> QED  BY <1>1, <1>7, <1>10

-----------------------------------------------------------------------------
(***************************************************************************)
(* parse_command.                                                          *)
(***************************************************************************)
Args == Seq(Text)

\* parse_array_command returns arguments, waits, or refuses.
LEMMA ArrayCommandType ==
    ASSUME NEW buf \in Text PROVE IsOutcome(parse_array_command(buf), Args)
<1>1. PICK line : line = read_line(buf, 2, 1)  OBVIOUS
<1>2. IsOutcome(line, Text)  BY <1>1, ReadLineType DEF Pos
<1>3. PICK count : count = parse_i64_strict(line.value) \cap 0..MAX_ARRAY_LEN  OBVIOUS
<1>4. PICK bulks : bulks = [pos \in Nat |-> bulk_at(buf, pos)]  OBVIOUS
<1>5. CASE line.out # "Complete"
  <2>1. parse_array_command(buf) = line  BY <1>1, <1>5 DEF parse_array_command
  <2> QED  BY <1>2, <1>5, <2>1, CompleteOutcome DEF IsOutcome
<1>6. CASE line.out = "Complete" /\ count = {}
  <2>1. parse_array_command(buf) = Malformed  BY <1>1, <1>3, <1>6 DEF parse_array_command
  <2> QED  BY <2>1 DEF IsOutcome
<1>7. CASE line.out = "Complete" /\ count # {}
  <2>1. parse_array_command(buf) = Collect(bulks, line.next, The(count))
    BY <1>1, <1>3, <1>4, <1>7 DEF parse_array_command
  <2>2. line.next \in Pos  BY <1>2, <1>7, CompleteOutcome
  <2>3. The(count) \in 0..MAX_ARRAY_LEN
    <3>1. count # {} /\ 0 \in Int /\ MAX_ARRAY_LEN \in Int  BY <1>7, Limits
    <3> QED  BY <1>3, <3>1, ParseRange
  <2>4. The(count) \in Nat  BY <2>3, Limits
  <2>5. \A pos \in Pos : IsOutcome(bulks[pos], Text)  BY <1>4, BulkAtType DEF Pos
  <2> QED  BY <2>1, <2>2, <2>4, <2>5, CollectType DEF Args
<1> QED  BY <1>5, <1>6, <1>7

\* What parse_array_command has found stays found when bytes arrive.
LEMMA ArrayCommandSettles ==
    ASSUME NEW buf \in Text, NEW more \in Text, Grown(buf, more)
    PROVE  Settles(parse_array_command(buf), parse_array_command(more))
<1>1. PICK line : line = read_line(buf, 2, 1)  OBVIOUS
<1>2. PICK line2 : line2 = read_line(more, 2, 1)  OBVIOUS
<1>3. IsOutcome(line, Text) /\ Settles(line, line2)
  BY <1>1, <1>2, ReadLineType, ReadLineSettles DEF Pos
<1>4. line = Incomplete \/ line = TooLong \/ line = line2  BY <1>3, SettledOutcome
<1>5. PICK count : count = parse_i64_strict(line.value) \cap 0..MAX_ARRAY_LEN  OBVIOUS
<1>6. CASE line.out # "Complete"
  <2>1. parse_array_command(buf) = line  BY <1>1, <1>6 DEF parse_array_command
  <2>2. line = line2 => parse_array_command(more) = line  BY <1>2, <1>6 DEF parse_array_command
  <2> QED  BY <1>4, <2>1, <2>2, UnsettledOutcomes, SettlesSame
<1>7. CASE line.out = "Complete"
  <2>1. line = line2  BY <1>4, <1>7, OutcomeFields
  <2>2. CASE count = {}
    <3>1. parse_array_command(buf) = Malformed /\ parse_array_command(more) = Malformed
      BY <1>1, <1>2, <1>5, <1>7, <2>1, <2>2 DEF parse_array_command
    <3> QED  BY <3>1, SettlesSame
  <2>3. CASE count # {}
    <3>1. PICK bulks : bulks = [pos \in Nat |-> bulk_at(buf, pos)]  OBVIOUS
    <3>2. PICK bulks2 : bulks2 = [pos \in Nat |-> bulk_at(more, pos)]  OBVIOUS
    <3>3. /\ parse_array_command(buf) = Collect(bulks, line.next, The(count))
          /\ parse_array_command(more) = Collect(bulks2, line.next, The(count))
      BY <1>1, <1>2, <1>5, <1>7, <2>1, <2>3, <3>1, <3>2 DEF parse_array_command
    <3>4. line.next \in Pos  BY <1>3, <1>7, CompleteOutcome
    <3>5. The(count) \in 0..MAX_ARRAY_LEN
      <4>1. 0 \in Int /\ MAX_ARRAY_LEN \in Int  BY Limits
      <4> QED  BY <1>5, <2>3, <4>1, ParseRange
    <3>6. The(count) \in Nat  BY <3>5, Limits
    <3>7. \A pos \in Pos : IsOutcome(bulks[pos], Text) /\ Settles(bulks[pos], bulks2[pos])
      BY <3>1, <3>2, BulkAtType, BulkAtSettles DEF Pos
    <3> QED  BY <3>3, <3>4, <3>6, <3>7, CollectSettles
  <2> QED  BY <2>2, <2>3
<1> QED  BY <1>6, <1>7

\* parse_command returns arguments, waits, or refuses.
LEMMA ParseCommandType ==
    ASSUME NEW buf \in Text PROVE IsOutcome(parse_command(buf), Args)
<1>1. CASE buf = <<>>
  <2>1. parse_command(buf) = Incomplete  BY <1>1 DEF parse_command
  <2> QED  BY <2>1 DEF IsOutcome
<1>2. CASE buf # <<>> /\ buf[1] = "*"
  <2>1. parse_command(buf) = parse_array_command(buf)  BY <1>2 DEF parse_command
  <2> QED  BY <2>1, ArrayCommandType
<1>3. CASE buf # <<>> /\ buf[1] # "*"
  <2>1. PICK line : line = read_line(buf, 1, 1)  OBVIOUS
  <2>2. IsOutcome(line, Text)  BY <2>1, ReadLineType DEF Pos
  <2>3. parse_command(buf) = IF line.out # "Complete" THEN line ELSE Done(Words(line.value), line.next)
    BY <1>3, <2>1 DEF parse_command, parse_inline_command
  <2>4. CASE line.out # "Complete"  BY <2>2, <2>3, <2>4, CompleteOutcome DEF IsOutcome
  <2>5. CASE line.out = "Complete"
    <3>1. Words(line.value) \in Args /\ line.next \in Pos
      BY <2>2, <2>5, CompleteOutcome, WordsType DEF Args
    <3> QED  BY <2>3, <2>5, <3>1 DEF IsOutcome
  <2> QED  BY <2>4, <2>5
<1> QED  BY <1>1, <1>2, <1>3

\* What parse_command has found stays found when bytes arrive.
LEMMA ParseCommandSettles ==
    ASSUME NEW buf \in Text, NEW more \in Text, Grown(buf, more)
    PROVE  Settles(parse_command(buf), parse_command(more))
<1>1. CASE buf = <<>>
  <2>1. parse_command(buf) = Incomplete  BY <1>1 DEF parse_command
  <2> QED  BY <2>1, UnsettledOutcomes
<1>2. CASE buf # <<>>
  <2>1. more # <<>> /\ more[1] = buf[1]
    <3>1. Len(buf) \in Nat \ {0}  BY <1>2, EmptySeq DEF Text
    <3>2. 1 \in 1..Len(buf) /\ Len(more) # 0  BY <3>1 DEF Grown, Text
    <3> QED  BY <3>2 DEF Grown
  <2>2. CASE buf[1] = "*"
    <3>1. parse_command(buf) = parse_array_command(buf) /\ parse_command(more) = parse_array_command(more)
      BY <1>2, <2>1, <2>2 DEF parse_command
    <3> QED  BY <3>1, ArrayCommandSettles
  <2>3. CASE buf[1] # "*"
    <3>1. PICK line : line = read_line(buf, 1, 1)  OBVIOUS
    <3>2. PICK line2 : line2 = read_line(more, 1, 1)  OBVIOUS
    <3>3. IsOutcome(line, Text) /\ Settles(line, line2)
      BY <3>1, <3>2, ReadLineType, ReadLineSettles DEF Pos
    <3>4. line = Incomplete \/ line = TooLong \/ line = line2  BY <3>3, SettledOutcome
    <3>5. parse_command(buf) = IF line.out # "Complete" THEN line ELSE Done(Words(line.value), line.next)
      BY <1>2, <2>3, <3>1 DEF parse_command, parse_inline_command
    <3>6. line = line2 => parse_command(more) = parse_command(buf)
      BY <2>1, <2>3, <3>2, <3>5 DEF parse_command, parse_inline_command
    <3>7. CASE line = line2  BY <3>6, <3>7, SettlesSame
    <3>8. CASE line = Incomplete \/ line = TooLong
      <4>1. line.out # "Complete"  BY <3>8, OutcomeFields
      <4> QED  BY <3>5, <3>8, <4>1, UnsettledOutcomes
    <3> QED  BY <3>4, <3>7, <3>8
  <2> QED  BY <2>2, <2>3
<1> QED  BY <1>1, <1>2

-----------------------------------------------------------------------------
(***************************************************************************)
(* parse_reply.                                                            *)
(***************************************************************************)
\* at[left] are the replies at each position with left more levels allowed.
Levels(at, buf) ==
    /\ \A pos \in Nat : at[0][pos] = Malformed
    /\ \A n \in Nat : \A pos \in Nat : at[n + 1][pos] = parse_reply_at(buf, pos, at[n])

\* parse_reply is the outermost of the levels it descends.
LEMMA ReplyLevels ==
    ASSUME NEW buf
    PROVE  \E at : Levels(at, buf) /\ parse_reply(buf) = at[MAX_REPLY_DEPTH + 1][1]
<1> DEFINE A == [pos \in Nat |-> Malformed]
           S(x) == [pos \in Nat |-> parse_reply_at(buf, pos, x)]
           Upto(f, n) == f[0] = A /\ \A i \in 0..(n - 1) : f[i + 1] = S(f[i])
<1>1. \A n \in Nat : \E f : Upto(f, n)
  <2> DEFINE T == {n \in Nat : \E f : Upto(f, n)}
  <2>1. 0 \in T
    <3>1. Upto([i \in Nat |-> A], 0)  OBVIOUS
    <3> QED  BY <3>1
  <2>2. ASSUME NEW n \in Nat, n \in T PROVE n + 1 \in T
    <3>1. PICK f : Upto(f, n)  BY <2>2
    <3> DEFINE g == [i \in Nat |-> IF i <= n THEN f[i] ELSE S(f[n])]
    <3>2. g[0] = A  BY <3>1
    <3>3. ASSUME NEW i \in 0..n PROVE g[i + 1] = S(g[i])
      <4>1. i + 1 \in Nat /\ i \in Nat /\ g[i] = f[i]  OBVIOUS
      <4>2. CASE i = n
        <5>1. ~(i + 1 <= n)  BY <4>2
        <5>2. g[i + 1] = S(f[n])  BY <4>1, <5>1
        <5> HIDE DEF S, g
        <5> QED  BY <4>1, <4>2, <5>2
      <4>3. CASE i < n
        <5>1. i \in 0..(n - 1) /\ i + 1 <= n  BY <4>3
        <5>2. g[i + 1] = f[i + 1]  BY <4>1, <5>1
        <5> HIDE DEF S, g
        <5> QED  BY <3>1, <4>1, <5>1, <5>2
      <4> QED  BY <4>2, <4>3
    <3>4. Upto(g, n + 1)
      <4> HIDE DEF g, S, A
      <4> QED  BY <3>2, <3>3
    <3>5. \E f1 : Upto(f1, n + 1)
      <4> HIDE DEF g, Upto
      <4> QED  BY <3>4
    <3> HIDE DEF Upto
    <3> QED  BY <3>5
  <2> HIDE DEF Upto
  <2>3. \A n \in Nat : n \in T
    <3> HIDE DEF T
    <3> QED  BY <2>1, <2>2, SetInduction
  <2> QED  BY <2>3
<1>2. ASSUME NEW f, NEW g, NEW n \in Nat, NEW m \in Nat, Upto(f, n), Upto(g, m)
      PROVE  \A i \in Nat : i <= n /\ i <= m => f[i] = g[i]
  <2> DEFINE T == {i \in Nat : i <= n /\ i <= m => f[i] = g[i]}
  <2>1. 0 \in T  BY <1>2
  <2>2. ASSUME NEW i \in Nat, i \in T PROVE i + 1 \in T
    <3> SUFFICES ASSUME i + 1 <= n /\ i + 1 <= m PROVE f[i + 1] = g[i + 1]  OBVIOUS
    <3>1. i \in 0..(n - 1) /\ i \in 0..(m - 1) /\ i <= n /\ i <= m  OBVIOUS
    <3>2. f[i] = g[i]  BY <2>2, <3>1
    <3>3. f[i + 1] = S(f[i]) /\ g[i + 1] = S(g[i])  BY <1>2, <3>1
    <3> HIDE DEF S
    <3> QED  BY <3>2, <3>3
  <2>3. \A i \in Nat : i \in T
    <3> HIDE DEF T
    <3> QED  BY <2>1, <2>2, SetInduction
  <2> QED  BY <2>3
<1> DEFINE chosen(n) == CHOOSE f : Upto(f, n)
           G == [n \in Nat |-> chosen(n)[n]]
<1>3. \A n \in Nat : Upto(chosen(n), n)
  <2> HIDE DEF Upto
  <2> QED  BY <1>1
<1>4. G[0] = A  BY <1>3
<1>5. ASSUME NEW n \in Nat PROVE G[n + 1] = S(G[n])
  <2>1. n + 1 \in Nat /\ n <= n /\ n <= n + 1 /\ n \in 0..((n + 1) - 1)  OBVIOUS
  <2>2. chosen(n + 1)[n + 1] = S(chosen(n + 1)[n])  BY <1>3, <2>1
  <2>3. chosen(n + 1)[n] = chosen(n)[n]
    <3> HIDE DEF Upto, chosen
    <3> QED  BY <1>2, <1>3, <2>1
  <2> HIDE DEF chosen, S
  <2> QED  BY <2>1, <2>2, <2>3
<1> DEFINE Body(f, left, pos) ==
               IF left = 0 THEN Malformed ELSE parse_reply_at(buf, pos, f[left - 1])
           Recursive(f) == f = [left \in Nat |-> [pos \in Nat |-> Body(f, left, pos)]]
           at == CHOOSE f : Recursive(f)
<1>6. Recursive(G)
  <2> DEFINE H == [n \in Nat |-> [pos \in Nat |-> Body(G, n, pos)]]
  <2>1. ASSUME NEW n \in Nat PROVE G[n] = H[n]
    <3>1. CASE n = 0
      <4>1. H[0] = A  OBVIOUS
      <4> QED  BY <1>4, <3>1, <4>1
    <3>2. CASE n # 0
      <4>1. n - 1 \in Nat /\ (n - 1) + 1 = n  BY <3>2
      <4>2. G[n] = S(G[n - 1])  BY ONLY <1>5, <4>1
      <4> HIDE DEF G
      <4>3. H[n] = S(G[n - 1])  BY <3>2
      <4> QED  BY <4>2, <4>3
    <3> QED  BY <3>1, <3>2
  <2>2. G = [n \in Nat |-> G[n]] /\ H = [n \in Nat |-> H[n]]  OBVIOUS
  <2>3. G = H
    <3> HIDE DEF G, H
    <3> QED  BY <2>1, <2>2
  <2> QED  BY <2>3
<1>7. Recursive(at)
  <2> HIDE DEF Recursive
  <2> QED  BY <1>6
<1>8. parse_reply(buf) = at[MAX_REPLY_DEPTH + 1][1]  BY DEF parse_reply
<1>9. \A n \in Nat, pos \in Nat : at[n][pos] = Body(at, n, pos)
  <2> HIDE DEF at, Body
  <2> QED  BY <1>7
<1>10. Levels(at, buf)
  <2> HIDE DEF at
  <2>1. \A pos \in Nat : at[0][pos] = Malformed  BY <1>9
  <2>2. ASSUME NEW n \in Nat, NEW pos \in Nat
        PROVE  at[n + 1][pos] = parse_reply_at(buf, pos, at[n])
    <3>1. n + 1 \in Nat /\ n + 1 # 0 /\ (n + 1) - 1 = n  OBVIOUS
    <3> QED  BY <1>9, <3>1
  <2> QED  BY <2>1, <2>2 DEF Levels
<1> HIDE DEF at
<1> QED  BY <1>8, <1>10

\* The replies with elements in V, if they have any.
RepliesOf(V) ==
    {Simple(t) : t \in Text} \cup {Error(t) : t \in Text} \cup {Integer(i) : i \in Int}
    \cup {Bulk(t) : t \in Text} \cup {Nil, NullArray} \cup {Array(t) : t \in Seq(V)}

\* A number that was parsed is an integer.
LEMMA ParsedNumber ==
    ASSUME NEW bytes, parse_i64_strict(bytes) # {} PROVE The(parse_i64_strict(bytes)) \in Int
<1>1. PICK x : parse_i64_strict(bytes) = {x} \cap (-(I64Max + 1))..I64Max
  BY DEF parse_i64_strict, parse
<1>2. PICK range : range = (-(I64Max + 1))..I64Max  OBVIOUS
<1>3. range \subseteq Int  BY <1>2, Limits
<1>4. parse_i64_strict(bytes) = {x} /\ x \in range  BY <1>1, <1>2
<1> QED  BY <1>3, <1>4, TheOne

\* A length that is neither refused nor null is a natural number.
LEMMA SizedNumber ==
    ASSUME NEW line, NEW max \in Nat, NEW n, n = Sized(line, max), n # {}, n # {-1}
    PROVE  The(n) \in Nat
<1>1. PICK x : parse_i64_strict(line.value) \subseteq {x}  BY DEF parse_i64_strict, parse
<1>2. PICK range : range = (-1)..max  OBVIOUS
<1>3. n = parse_i64_strict(line.value) \cap range  BY <1>2 DEF Sized
<1>4. n = {x} /\ x \in range  BY <1>1, <1>3
<1>5. x # -1  BY <1>4
<1>6. x \in Nat  BY <1>2, <1>4, <1>5
<1> QED  BY <1>4, <1>6, TheOne

\* bulk_reply returns a reply, waits, or refuses.
LEMMA BulkReplyType ==
    ASSUME NEW V, NEW buf \in Text, NEW line, line.next \in Pos
    PROVE  IsOutcome(bulk_reply(buf, line), RepliesOf(V))
<1>1. PICK len : len = Sized(line, MAX_BULK_LEN)  OBVIOUS
<1>2. CASE len = {}
  <2>1. bulk_reply(buf, line) = Malformed  BY <1>1, <1>2 DEF bulk_reply
  <2> QED  BY <2>1 DEF IsOutcome
<1>3. CASE len = {-1}
  <2>1. bulk_reply(buf, line) = Done(Nil, line.next)  BY <1>1, <1>3 DEF bulk_reply
  <2> QED  BY <2>1 DEF IsOutcome, RepliesOf
<1>4. CASE len # {} /\ len # {-1}
  <2>1. PICK data : data = Payload(buf, line.next, The(len))  OBVIOUS
  <2>2. The(len) \in Nat  BY <1>1, <1>4, SizedNumber, Limits
  <2>3. IsOutcome(data, Text)  BY <2>1, <2>2, PayloadType
  <2>4. CASE data.out # "Complete"
    <3>1. bulk_reply(buf, line) = data  BY <1>1, <1>4, <2>1, <2>4 DEF bulk_reply
    <3> QED  BY <2>3, <2>4, <3>1, CompleteOutcome DEF IsOutcome
  <2>5. CASE data.out = "Complete"
    <3>1. bulk_reply(buf, line) = Done(Bulk(data.value), data.next)
      BY <1>1, <1>4, <2>1, <2>5 DEF bulk_reply
    <3>2. data.value \in Text /\ data.next \in Pos  BY <2>3, <2>5, CompleteOutcome
    <3>3. Bulk(data.value) \in RepliesOf(V)  BY <3>2 DEF RepliesOf
    <3> QED  BY <3>1, <3>2, <3>3 DEF IsOutcome
  <2> QED  BY <2>4, <2>5
<1> QED  BY <1>2, <1>3, <1>4

\* What bulk_reply has found stays found when bytes arrive.
LEMMA BulkReplySettles ==
    ASSUME NEW buf \in Text, NEW more \in Text, Grown(buf, more), NEW line, line.next \in Pos
    PROVE  Settles(bulk_reply(buf, line), bulk_reply(more, line))
<1>1. PICK len : len = Sized(line, MAX_BULK_LEN)  OBVIOUS
<1>2. CASE len = {} \/ len = {-1}
  <2>1. bulk_reply(buf, line) = bulk_reply(more, line)  BY <1>1, <1>2 DEF bulk_reply
  <2> QED  BY <2>1, SettlesSame
<1>3. CASE len # {} /\ len # {-1}
  <2>1. PICK data : data = Payload(buf, line.next, The(len))  OBVIOUS
  <2>2. PICK data2 : data2 = Payload(more, line.next, The(len))  OBVIOUS
  <2>3. The(len) \in Nat  BY <1>1, <1>3, SizedNumber, Limits
  <2>4. IsOutcome(data, Text) /\ Settles(data, data2)
    BY <2>1, <2>2, <2>3, PayloadType, PayloadSettles
  <2>5. data = Incomplete \/ data = TooLong \/ data = data2  BY <2>4, SettledOutcome
  <2>6. CASE data = data2
    <3>1. bulk_reply(buf, line) = bulk_reply(more, line)
      BY <1>1, <1>3, <2>1, <2>2, <2>6 DEF bulk_reply
    <3> QED  BY <3>1, SettlesSame
  <2>7. CASE data = Incomplete \/ data = TooLong
    <3>1. data.out # "Complete"  BY <2>7, OutcomeFields
    <3>2. bulk_reply(buf, line) = data  BY <1>1, <1>3, <2>1, <3>1 DEF bulk_reply
    <3> QED  BY <2>7, <3>2, UnsettledOutcomes
  <2> QED  BY <2>5, <2>6, <2>7
<1> QED  BY <1>2, <1>3

\* array_reply returns a reply, waits, or refuses, if its elements do.
LEMMA ArrayReplyType ==
    ASSUME NEW V, NEW buf \in Text, NEW line, line.next \in Pos,
           NEW nested, \A pos \in Pos : IsOutcome(nested[pos], V)
    PROVE  IsOutcome(array_reply(buf, line, nested), RepliesOf(V))
<1>1. PICK count : count = Sized(line, MAX_ARRAY_LEN)  OBVIOUS
<1>2. CASE count = {}
  <2>1. array_reply(buf, line, nested) = Malformed  BY <1>1, <1>2 DEF array_reply
  <2> QED  BY <2>1 DEF IsOutcome
<1>3. CASE count = {-1}
  <2>1. array_reply(buf, line, nested) = Done(NullArray, line.next)  BY <1>1, <1>3 DEF array_reply
  <2> QED  BY <2>1 DEF IsOutcome, RepliesOf
<1>4. CASE count # {} /\ count # {-1}
  <2>1. PICK items : items = Collect(nested, line.next, The(count))  OBVIOUS
  <2>2. The(count) \in Nat  BY <1>1, <1>4, SizedNumber, Limits
  <2>3. IsOutcome(items, Seq(V))  BY <2>1, <2>2, CollectType
  <2>4. CASE items.out # "Complete"
    <3>1. array_reply(buf, line, nested) = items  BY <1>1, <1>4, <2>1, <2>4 DEF array_reply
    <3> QED  BY <2>3, <2>4, <3>1, CompleteOutcome DEF IsOutcome
  <2>5. CASE items.out = "Complete"
    <3>1. array_reply(buf, line, nested) = Done(Array(items.value), items.next)
      BY <1>1, <1>4, <2>1, <2>5 DEF array_reply
    <3>2. items.value \in Seq(V) /\ items.next \in Pos  BY <2>3, <2>5, CompleteOutcome
    <3>3. Array(items.value) \in RepliesOf(V)  BY <3>2 DEF RepliesOf
    <3> QED  BY <3>1, <3>2, <3>3 DEF IsOutcome
  <2> QED  BY <2>4, <2>5
<1> QED  BY <1>2, <1>3, <1>4

\* What array_reply has found stays found, if what its elements have does.
LEMMA ArrayReplySettles ==
    ASSUME NEW V, NEW buf, NEW more, NEW line, line.next \in Pos,
           NEW nested, \A pos \in Pos : IsOutcome(nested[pos], V),
           NEW nested2, \A pos \in Pos : Settles(nested[pos], nested2[pos])
    PROVE  Settles(array_reply(buf, line, nested), array_reply(more, line, nested2))
<1>1. PICK count : count = Sized(line, MAX_ARRAY_LEN)  OBVIOUS
<1>2. CASE count = {} \/ count = {-1}
  <2>1. array_reply(buf, line, nested) = array_reply(more, line, nested2)
    BY <1>1, <1>2 DEF array_reply
  <2> QED  BY <2>1, SettlesSame
<1>3. CASE count # {} /\ count # {-1}
  <2>1. PICK items : items = Collect(nested, line.next, The(count))  OBVIOUS
  <2>2. PICK items2 : items2 = Collect(nested2, line.next, The(count))  OBVIOUS
  <2>3. The(count) \in Nat  BY <1>1, <1>3, SizedNumber, Limits
  <2>4. IsOutcome(items, Seq(V)) /\ Settles(items, items2)
    BY <2>1, <2>2, <2>3, CollectType, CollectSettles
  <2>5. items = Incomplete \/ items = TooLong \/ items = items2  BY <2>4, SettledOutcome
  <2>6. CASE items = items2
    <3>1. array_reply(buf, line, nested) = array_reply(more, line, nested2)
      BY <1>1, <1>3, <2>1, <2>2, <2>6 DEF array_reply
    <3> QED  BY <3>1, SettlesSame
  <2>7. CASE items = Incomplete \/ items = TooLong
    <3>1. items.out # "Complete"  BY <2>7, OutcomeFields
    <3>2. array_reply(buf, line, nested) = items  BY <1>1, <1>3, <2>1, <3>1 DEF array_reply
    <3> QED  BY <2>7, <3>2, UnsettledOutcomes
  <2> QED  BY <2>5, <2>6, <2>7
<1> QED  BY <1>2, <1>3

Sigils == {"+", "-", ":", "$", "*"}

\* parse_reply_at returns a reply, waits, or refuses, if the level below does.
LEMMA ReplyAtType ==
    ASSUME NEW V, NEW buf \in Text, NEW pos \in Pos,
           NEW nested, \A p \in Pos : IsOutcome(nested[p], V)
    PROVE  IsOutcome(parse_reply_at(buf, pos, nested), RepliesOf(V))
<1>1. PICK line : line = read_line(buf, pos + 1, pos + 1)  OBVIOUS
<1>2. IsOutcome(line, Text)  BY <1>1, ReadLineType DEF Pos
<1>3. CASE pos > Len(buf)
  <2>1. parse_reply_at(buf, pos, nested) = Incomplete  BY <1>3 DEF parse_reply_at
  <2> QED  BY <2>1 DEF IsOutcome
<1>4. CASE ~(pos > Len(buf)) /\ buf[pos] \notin Sigils
  <2>1. parse_reply_at(buf, pos, nested) = Malformed  BY <1>4 DEF parse_reply_at, Sigils
  <2> QED  BY <2>1 DEF IsOutcome
<1>5. CASE ~(pos > Len(buf)) /\ buf[pos] \in Sigils /\ line.out # "Complete"
  <2>1. parse_reply_at(buf, pos, nested) = line  BY <1>1, <1>5 DEF parse_reply_at, Sigils
  <2> QED  BY <1>2, <1>5, <2>1, CompleteOutcome DEF IsOutcome
<1>6. CASE ~(pos > Len(buf)) /\ buf[pos] \in Sigils /\ line.out = "Complete"
  <2>1. line.value \in Text /\ line.next \in Pos  BY <1>2, <1>6, CompleteOutcome
  <2>2. CASE buf[pos] = "+"
    <3>1. parse_reply_at(buf, pos, nested) = Done(Simple(line.value), line.next)
      BY <1>1, <1>6, <2>2 DEF parse_reply_at
    <3>2. Simple(line.value) \in RepliesOf(V)  BY <2>1 DEF RepliesOf
    <3> QED  BY <2>1, <3>1, <3>2 DEF IsOutcome
  <2>3. CASE buf[pos] = "-"
    <3>1. parse_reply_at(buf, pos, nested) = Done(Error(line.value), line.next)
      BY <1>1, <1>6, <2>3 DEF parse_reply_at
    <3>2. Error(line.value) \in RepliesOf(V)  BY <2>1 DEF RepliesOf
    <3> QED  BY <2>1, <3>1, <3>2 DEF IsOutcome
  <2>4. CASE buf[pos] = ":"
    <3>1. PICK n : n = parse_i64_strict(line.value)  OBVIOUS
    <3>2. parse_reply_at(buf, pos, nested) =
            IF n = {} THEN Malformed ELSE Done(Integer(The(n)), line.next)
      BY <1>1, <1>6, <2>4, <3>1 DEF parse_reply_at
    <3>3. CASE n = {}  BY <3>2, <3>3 DEF IsOutcome
    <3>4. CASE n # {}
      <4>1. Integer(The(n)) \in RepliesOf(V)  BY <3>1, <3>4, ParsedNumber DEF RepliesOf
      <4> QED  BY <2>1, <3>2, <3>4, <4>1 DEF IsOutcome
    <3> QED  BY <3>3, <3>4
  <2>5. CASE buf[pos] = "$"
    <3>1. parse_reply_at(buf, pos, nested) = bulk_reply(buf, line)
      BY <1>1, <1>6, <2>5 DEF parse_reply_at
    <3> QED  BY <2>1, <3>1, BulkReplyType
  <2>6. CASE buf[pos] = "*"
    <3>1. parse_reply_at(buf, pos, nested) = array_reply(buf, line, nested)
      BY <1>1, <1>6, <2>6 DEF parse_reply_at
    <3> QED  BY <2>1, <3>1, ArrayReplyType
  <2> QED  BY <1>6, <2>2, <2>3, <2>4, <2>5, <2>6 DEF Sigils
<1> QED  BY <1>3, <1>4, <1>5, <1>6

\* What parse_reply_at has found stays found, if what the level below has does.
LEMMA ReplyAtSettles ==
    ASSUME NEW V, NEW buf \in Text, NEW more \in Text, Grown(buf, more), NEW pos \in Pos,
           NEW nested, \A p \in Pos : IsOutcome(nested[p], V),
           NEW nested2, \A p \in Pos : Settles(nested[p], nested2[p])
    PROVE  Settles(parse_reply_at(buf, pos, nested), parse_reply_at(more, pos, nested2))
<1>1. PICK line : line = read_line(buf, pos + 1, pos + 1)  OBVIOUS
<1>2. PICK line2 : line2 = read_line(more, pos + 1, pos + 1)  OBVIOUS
<1>3. IsOutcome(line, Text) /\ Settles(line, line2)
  BY <1>1, <1>2, ReadLineType, ReadLineSettles DEF Pos
<1>4. line = Incomplete \/ line = TooLong \/ line = line2  BY <1>3, SettledOutcome
<1>5. CASE pos > Len(buf)
  <2>1. parse_reply_at(buf, pos, nested) = Incomplete  BY <1>5 DEF parse_reply_at
  <2> QED  BY <2>1, UnsettledOutcomes
<1>6. CASE ~(pos > Len(buf))
  <2>1. ~(pos > Len(more)) /\ more[pos] = buf[pos]  BY <1>6 DEF Grown, Text, Pos
  <2>2. CASE buf[pos] \notin Sigils
    <3>1. parse_reply_at(buf, pos, nested) = Malformed /\ parse_reply_at(more, pos, nested2) = Malformed
      BY <1>6, <2>1, <2>2 DEF parse_reply_at, Sigils
    <3> QED  BY <3>1, SettlesSame
  <2>3. CASE buf[pos] \in Sigils /\ line.out # "Complete"
    <3>1. parse_reply_at(buf, pos, nested) = line  BY <1>1, <1>6, <2>3 DEF parse_reply_at, Sigils
    <3>2. line = line2 => parse_reply_at(more, pos, nested2) = line
      BY <1>2, <2>1, <2>3 DEF parse_reply_at, Sigils
    <3> QED  BY <1>4, <3>1, <3>2, UnsettledOutcomes, SettlesSame
  <2>4. CASE buf[pos] \in Sigils /\ line.out = "Complete"
    <3>1. line = line2  BY <1>4, <2>4, OutcomeFields
    <3>2. line.next \in Pos  BY <1>3, <2>4, CompleteOutcome
    <3>3. CASE buf[pos] \in {"+", "-", ":"}
      <4>1. parse_reply_at(buf, pos, nested) = parse_reply_at(more, pos, nested2)
        BY <1>1, <1>2, <1>6, <2>1, <2>4, <3>1, <3>3 DEF parse_reply_at
      <4> QED  BY <4>1, SettlesSame
    <3>4. CASE buf[pos] = "$"
      <4>1. parse_reply_at(buf, pos, nested) = bulk_reply(buf, line)
            /\ parse_reply_at(more, pos, nested2) = bulk_reply(more, line)
        BY <1>1, <1>2, <1>6, <2>1, <2>4, <3>1, <3>4 DEF parse_reply_at
      <4> QED  BY <3>2, <4>1, BulkReplySettles
    <3>5. CASE buf[pos] = "*"
      <4>1. parse_reply_at(buf, pos, nested) = array_reply(buf, line, nested)
            /\ parse_reply_at(more, pos, nested2) = array_reply(more, line, nested2)
        BY <1>1, <1>2, <1>6, <2>1, <2>4, <3>1, <3>5 DEF parse_reply_at
      <4> QED  BY <3>2, <4>1, ArrayReplySettles
    <3> QED  BY <2>4, <3>3, <3>4, <3>5 DEF Sigils
  <2> QED  BY <2>2, <2>3, <2>4
<1> QED  BY <1>5, <1>6

\* What parse_reply has found stays found when bytes arrive.
LEMMA ParseReplySettles ==
    ASSUME NEW buf \in Text, NEW more \in Text, Grown(buf, more)
    PROVE  /\ \E V : IsOutcome(parse_reply(buf), V)
           /\ Settles(parse_reply(buf), parse_reply(more))
<1>1. PICK at : Levels(at, buf) /\ parse_reply(buf) = at[MAX_REPLY_DEPTH + 1][1]  BY ReplyLevels
<1>2. PICK at2 : Levels(at2, more) /\ parse_reply(more) = at2[MAX_REPLY_DEPTH + 1][1]  BY ReplyLevels
<1> DEFINE Good(n) == /\ \E V : \A pos \in Pos : IsOutcome(at[n][pos], V)
                      /\ \A pos \in Pos : Settles(at[n][pos], at2[n][pos])
           T == {n \in Nat : Good(n)}
<1>3. 0 \in T
  <2>1. \A pos \in Pos : at[0][pos] = Malformed /\ at2[0][pos] = Malformed
    BY <1>1, <1>2 DEF Levels, Pos
  <2>2. \A pos \in Pos : IsOutcome(at[0][pos], {})  BY <2>1 DEF IsOutcome
  <2>3. \A pos \in Pos : Settles(at[0][pos], at2[0][pos])  BY <2>1, SettlesSame
  <2> QED  BY <2>2, <2>3
<1>4. ASSUME NEW n \in Nat, n \in T PROVE n + 1 \in T
  <2>1. PICK V : \A pos \in Pos : IsOutcome(at[n][pos], V)  BY <1>4
  <2>2. \A pos \in Pos : Settles(at[n][pos], at2[n][pos])  BY <1>4
  <2>3. PICK a : a = at[n]  OBVIOUS
  <2>4. PICK a2 : a2 = at2[n]  OBVIOUS
  <2>5. \A pos \in Pos : IsOutcome(a[pos], V) /\ Settles(a[pos], a2[pos])
    BY <2>1, <2>2, <2>3, <2>4
  <2>6. \A pos \in Pos : /\ at[n + 1][pos] = parse_reply_at(buf, pos, a)
                         /\ at2[n + 1][pos] = parse_reply_at(more, pos, a2)
    BY <1>1, <1>2, <2>3, <2>4 DEF Levels, Pos
  <2>7. \A pos \in Pos : IsOutcome(parse_reply_at(buf, pos, a), RepliesOf(V))
    BY <2>5, ReplyAtType
  <2>8. \A pos \in Pos : Settles(parse_reply_at(buf, pos, a), parse_reply_at(more, pos, a2))
    BY <2>5, ReplyAtSettles
  <2>9. \A pos \in Pos : IsOutcome(at[n + 1][pos], RepliesOf(V))  BY <2>6, <2>7
  <2>10. \A pos \in Pos : Settles(at[n + 1][pos], at2[n + 1][pos])  BY <2>6, <2>8
  <2>11. Good(n + 1)  BY <2>9, <2>10
  <2> QED  BY <2>11
<1>5. \A n \in Nat : n \in T
  <2> HIDE DEF T
  <2> QED  BY <1>3, <1>4, SetInduction
<1>6. MAX_REPLY_DEPTH + 1 \in Nat /\ 1 \in Pos  BY Limits DEF Pos
<1>7. Good(MAX_REPLY_DEPTH + 1)  BY <1>5, <1>6
<1> QED  BY <1>1, <1>2, <1>6, <1>7

-----------------------------------------------------------------------------
(***************************************************************************)
(* Numbers in decimal.                                                     *)
(***************************************************************************)
LEMMA DivTen ==
    ASSUME NEW n \in Nat, n >= 10
    PROVE  n \div 10 \in Nat /\ n \div 10 < n /\ n % 10 \in 0..9
           /\ n = 10 * (n \div 10) + (n % 10)
  OBVIOUS

DecimalBody(f, n) ==
    IF n < 10 THEN <<Digit[n + 1]>> ELSE Append(f[n \div 10], Digit[(n % 10) + 1])

\* The recursive function decimal exists, so it satisfies its equation.
LEMMA DecimalEquation == \A n \in Nat : decimal[n] = DecimalBody(decimal, n)
<1> DEFINE Upto(f, n) == \A i \in 0..n : f[i] = DecimalBody(f, i)
<1>1. \A n \in Nat : \E f : Upto(f, n)
  <2> DEFINE T == {n \in Nat : \E f : Upto(f, n)}
  <2>1. 0 \in T
    <3> DEFINE g == [i \in Nat |-> <<Digit[i + 1]>>]
    <3>1. Upto(g, 0)  BY DEF DecimalBody
    <3>2. \E f : Upto(f, 0)
      <4> HIDE DEF g, Upto
      <4> QED  BY <3>1
    <3> HIDE DEF Upto
    <3> QED  BY <3>2
  <2>2. ASSUME NEW n \in Nat, n \in T PROVE n + 1 \in T
    <3>1. PICK f : Upto(f, n)  BY <2>2
    <3> DEFINE g == [i \in Nat |-> IF i <= n THEN f[i] ELSE DecimalBody(f, n + 1)]
    <3>2. ASSUME NEW i \in 0..(n + 1) PROVE g[i] = DecimalBody(g, i)
      <4>1. i \in Nat /\ g[i] = DecimalBody(f, i)
        <5>1. CASE i <= n  BY <3>1, <5>1
        <5>2. CASE ~(i <= n)
          <6>1. i = n + 1  BY <5>2
          <6> QED  BY <5>2, <6>1
        <5> QED  BY <5>1, <5>2
      <4>2. CASE i < 10  BY <4>1, <4>2 DEF DecimalBody
      <4>3. CASE ~(i < 10)
        <5>1. i \div 10 \in Nat /\ i \div 10 <= n  BY <4>3, DivTen
        <5>2. PICK d : d = i \div 10  OBVIOUS
        <5>3. g[d] = f[d]  BY <5>1, <5>2
        <5>4. DecimalBody(f, i) = Append(f[d], Digit[(i % 10) + 1])  BY <4>3, <5>2 DEF DecimalBody
        <5>5. DecimalBody(g, i) = Append(g[d], Digit[(i % 10) + 1])
          <6> HIDE DEF g
          <6> QED  BY <4>3, <5>2 DEF DecimalBody
        <5> HIDE DEF g
        <5> QED  BY <4>1, <5>3, <5>4, <5>5
      <4> QED  BY <4>2, <4>3
    <3>3. Upto(g, n + 1)
      <4> HIDE DEF g
      <4> QED  BY <3>2
    <3>4. \E f1 : Upto(f1, n + 1)
      <4> HIDE DEF g, Upto
      <4> QED  BY <3>3
    <3> HIDE DEF Upto
    <3> QED  BY <3>4
  <2> HIDE DEF Upto
  <2>3. \A n \in Nat : n \in T
    <3> HIDE DEF T
    <3> QED  BY <2>1, <2>2, SetInduction
  <2> QED  BY <2>3
<1>2. ASSUME NEW f, NEW g, NEW n \in Nat, NEW m \in Nat, Upto(f, n), Upto(g, m)
      PROVE  \A i \in Nat : i <= n /\ i <= m => f[i] = g[i]
  <2> DEFINE T == {j \in Nat : \A i \in 0..j : i <= n /\ i <= m => f[i] = g[i]}
  <2>1. ASSUME NEW i \in Nat, i <= n, i <= m, \A j \in Nat : j < i => f[j] = g[j]
        PROVE  f[i] = g[i]
    <3>1. f[i] = DecimalBody(f, i) /\ g[i] = DecimalBody(g, i)  BY <1>2, <2>1
    <3>2. CASE i < 10  BY <3>1, <3>2 DEF DecimalBody
    <3>3. CASE ~(i < 10)
      <4>1. f[i \div 10] = g[i \div 10]  BY <2>1, <3>3, DivTen
      <4> QED  BY <3>1, <3>3, <4>1 DEF DecimalBody
    <3> QED  BY <3>2, <3>3
  <2>2. 0 \in T
    <3>1. 0 <= n /\ 0 <= m /\ \A j \in Nat : ~(j < 0)  OBVIOUS
    <3>2. f[0] = g[0]  BY <2>1, <3>1
    <3> QED  BY <3>2
  <2>3. ASSUME NEW j \in Nat, j \in T PROVE j + 1 \in T
    <3> SUFFICES ASSUME NEW i \in 0..(j + 1), i <= n, i <= m PROVE f[i] = g[i]  OBVIOUS
    <3>1. CASE i <= j  BY <2>3, <3>1
    <3>2. CASE ~(i <= j)
      <4>1. \A h \in Nat : h < i => h \in 0..j /\ h <= n /\ h <= m  BY <3>2
      <4> QED  BY <2>1, <2>3, <4>1
    <3> QED  BY <3>1, <3>2
  <2>4. \A j \in Nat : j \in T
    <3> HIDE DEF T
    <3> QED  BY <2>2, <2>3, SetInduction
  <2> QED  BY <2>4
<1> DEFINE chosen(n) == CHOOSE f : Upto(f, n)
           G == [n \in Nat |-> chosen(n)[n]]
<1>3. \A n \in Nat : Upto(chosen(n), n)
  <2> HIDE DEF Upto
  <2> QED  BY <1>1
<1>4. ASSUME NEW n \in Nat PROVE G[n] = DecimalBody(G, n)
  <2>1. G[n] = DecimalBody(chosen(n), n)
    <3> HIDE DEF chosen
    <3> QED  BY <1>3
  <2>2. CASE n < 10  BY <2>1, <2>2 DEF DecimalBody
  <2>3. CASE ~(n < 10)
    <3>1. PICK d : d = n \div 10  OBVIOUS
    <3>2. d \in Nat /\ d <= d /\ d <= n  BY <2>3, <3>1, DivTen
    <3>3. chosen(n)[d] = chosen(d)[d]
      <4> HIDE DEF Upto, chosen
      <4> QED  BY <1>2, <1>3, <3>2
    <3>4. DecimalBody(chosen(n), n) = Append(chosen(n)[d], Digit[(n % 10) + 1])
      <4> HIDE DEF chosen
      <4> QED  BY <2>3, <3>1 DEF DecimalBody
    <3>5. G[d] = chosen(d)[d]  BY <3>2
    <3> HIDE DEF G, chosen
    <3>6. DecimalBody(G, n) = Append(G[d], Digit[(n % 10) + 1])  BY <2>3, <3>1 DEF DecimalBody
    <3> QED  BY <2>1, <3>3, <3>4, <3>5, <3>6
  <2> QED  BY <2>2, <2>3
<1> DEFINE Recursive(f) == f = [n \in Nat |-> DecimalBody(f, n)]
<1>5. Recursive(G)
  <2>1. G = [n \in Nat |-> G[n]]  OBVIOUS
  <2> HIDE DEF G
  <2> QED  BY <1>4, <2>1
<1>6. decimal = CHOOSE f : Recursive(f)  BY DEF decimal, DecimalBody
<1>7. Recursive(decimal)
  <2> HIDE DEF Recursive
  <2> QED  BY <1>5, <1>6
<1> QED  BY <1>7

\* A set that has a number whenever it has all smaller ones has every number.
LEMMA StrongInduction ==
    ASSUME NEW T, \A n \in Nat : (\A m \in 0..(n - 1) : m \in T) => n \in T
    PROVE  \A n \in Nat : n \in T
<1> DEFINE B == {n \in Nat : \A m \in 0..n : m \in T}
<1>1. 0 \in B
  <2>1. \A m \in 0..(0 - 1) : m \in T  OBVIOUS
  <2>2. 0 \in T  BY <2>1
  <2> QED  BY <2>2
<1>2. ASSUME NEW n \in Nat, n \in B PROVE n + 1 \in B
  <2>1. \A m \in 0..n : m \in T /\ m \in 0..((n + 1) - 1)  BY <1>2
  <2>2. n + 1 \in T  BY <2>1
  <2>3. \A m \in 0..(n + 1) : m \in 0..n \/ m = n + 1  OBVIOUS
  <2> QED  BY <2>1, <2>2, <2>3
<1>3. \A n \in Nat : n \in B
  <2> HIDE DEF B
  <2> QED  BY <1>1, <1>2, SetInduction
<1> QED  BY <1>3

Digits == {Digit[i] : i \in 1..10}

\* A number in decimal is one digit or more.
LEMMA DecimalType ==
    \A n \in Nat : decimal[n] \in Text /\ decimal[n] # <<>>
                   /\ \A i \in 1..Len(decimal[n]) : decimal[n][i] \in Digits
<1> DEFINE Ok1(s) == s \in Text /\ s # <<>> /\ \A i \in 1..Len(s) : s[i] \in Digits
           T == {n \in Nat : Ok1(decimal[n])}
<1>1. ASSUME NEW n \in Nat, \A m \in 0..(n - 1) : m \in T PROVE n \in T
  <2>1. CASE n < 10
    <3>1. n + 1 \in 1..10 /\ decimal[n] = <<Digit[n + 1]>>
      <4>1. n + 1 \in 1..10  BY <2>1
      <4>2. decimal[n] = DecimalBody(decimal, n)  BY DecimalEquation
      <4> QED  BY <2>1, <4>1, <4>2 DEF DecimalBody
    <3>2. PICK d : d = Digit[n + 1]  OBVIOUS
    <3>3. d \in Digits /\ d \in Byte  BY <3>1, <3>2, ProtoAssumption DEF Digits
    <3>4. Ok1(<<d>>)  BY <3>3 DEF Text
    <3> QED  BY <3>1, <3>2, <3>4
  <2>2. CASE ~(n < 10)
    <3>1. n \div 10 \in 0..(n - 1) /\ n % 10 \in 0..9  BY <2>2, DivTen
    <3>2. PICK s : s = decimal[n \div 10]  OBVIOUS
    <3>3. Ok1(s)  BY <1>1, <3>1, <3>2
    <3>4. PICK d : d = Digit[(n % 10) + 1]  OBVIOUS
    <3>5. d \in Digits /\ d \in Byte
      <4>1. (n % 10) + 1 \in 1..10  BY <3>1
      <4> QED  BY <3>4, <4>1, ProtoAssumption DEF Digits
    <3>6. decimal[n] = Append(s, d)  BY <2>2, <3>2, <3>4, DecimalEquation DEF DecimalBody
    <3>7. Append(s, d) \in Text /\ Append(s, d) # <<>> /\ Len(Append(s, d)) = Len(s) + 1
          /\ \A i \in 1..Len(s) : Append(s, d)[i] = s[i]
          /\ Append(s, d)[Len(s) + 1] = d
      BY <3>3, <3>5, AppendProperties DEF Text
    <3>8. \A i \in 1..Len(Append(s, d)) : Append(s, d)[i] \in Digits
      <4>1. \A i \in 1..(Len(s) + 1) : i \in 1..Len(s) \/ i = Len(s) + 1  BY <3>3 DEF Text
      <4> QED  BY <3>3, <3>5, <3>7, <4>1
    <3> QED  BY <3>6, <3>7, <3>8
  <2> QED  BY <2>1, <2>2
<1>2. \A n \in Nat : n \in T
  <2> HIDE DEF T
  <2> QED  BY <1>1, StrongInduction
<1> QED  BY <1>2

\* A number is written as a text.
LEMMA ToStringType == ASSUME NEW n \in Int PROVE to_string(n) \in Text
<1>1. "-" \in Byte  BY ProtoAssumption
<1>2. CASE n < 0
  <2>1. -n \in Nat  BY <1>2
  <2>2. decimal[-n] \in Text  BY <2>1, DecimalType
  <2> QED  BY <1>1, <1>2, <2>2 DEF to_string, Text
<1>3. CASE ~(n < 0)  BY <1>3, DecimalType DEF to_string
<1> QED  BY <1>2, <1>3

\* f[n] are the first n elements of s, joined.
Joins(f, s) ==
    /\ f \in [Nat -> Text] /\ f[0] = <<>>
    /\ \A n \in 1..Len(s) : f[n] = f[n - 1] \o s[n]
    /\ FlattenSeq(s) = f[Len(s)]

Joined(s) == CHOOSE f : Joins(f, s)

\* Concatenating a sequence of texts exists, part after part.
LEMMA FlattenJoins == ASSUME NEW s \in Seq(Text) PROVE Joins(Joined(s), s)
<1>1. Len(s) \in Nat /\ <<>> \in Text  BY DEF Text
<1> DEFINE Step == [n \in Nat |-> [x \in Text |-> IF n \in 1..Len(s) THEN x \o s[n] ELSE x]]
<1>2. Step \in [Nat -> [Text -> Text]]
  <2>1. ASSUME NEW x \in Text, NEW n \in 1..Len(s) PROVE x \o s[n] \in Text
    <3>1. s[n] \in Text  BY ElementOfSeq
    <3> QED  BY <3>1 DEF Text
  <2> QED  BY <2>1
<1>3. PICK f : Iterates(f, Text, <<>>, Step)
  <2> HIDE DEF Step
  <2> QED  BY <1>1, <1>2, Recursion
<1>4. \A n \in 1..Len(s) : f[n] = f[n - 1] \o s[n]
  <2> SUFFICES ASSUME NEW n \in 1..Len(s) PROVE f[n] = f[n - 1] \o s[n]  OBVIOUS
  <2>1. n - 1 \in Nat /\ (n - 1) + 1 = n /\ n \in Nat  BY <1>1
  <2>2. f[n] = Step[n][f[n - 1]] /\ f[n - 1] \in Text
    <3> HIDE DEF Step
    <3> QED  BY <1>3, <2>1 DEF Iterates
  <2> QED  BY <2>1, <2>2
<1>5. f \in [Nat -> Text] /\ f[0] = <<>>
  <2> HIDE DEF Step
  <2> QED  BY <1>3 DEF Iterates
<1> HIDE DEF Step
<1>6. CASE Len(s) = 0
  <2>1. s = <<>>  BY <1>6, EmptySeq
  <2>2. FlattenSeq(s) = s  BY <1>6 DEF FlattenSeq
  <2> QED  BY <1>4, <1>5, <1>6, <2>1, <2>2 DEF Joins, Joined
<1>7. CASE Len(s) # 0
  <2> DEFINE D == 1..Len(s)
             Recursive(g) == g = [i \in D |-> IF i = 1 THEN s[i] ELSE g[i - 1] \o s[i]]
             flatten == CHOOSE g : Recursive(g)
             g1 == [i \in D |-> f[i]]
  <2>1. Recursive(g1)
    <3> DEFINE h == [i \in D |-> IF i = 1 THEN s[i] ELSE g1[i - 1] \o s[i]]
    <3>1. ASSUME NEW i \in D PROVE g1[i] = h[i]
      <4>1. f[i] = f[i - 1] \o s[i] /\ s[i] \in Text  BY <1>4, ElementOfSeq
      <4>2. CASE i = 1
        <5>1. f[i - 1] = <<>>  BY <1>5, <4>2
        <5>2. f[i] = s[i]  BY <4>1, <5>1, ConcatEmptySeq DEF Text
        <5> QED  BY <4>2, <5>2
      <4>3. CASE i # 1
        <5>1. i - 1 \in D  BY <1>1, <4>3
        <5>2. g1[i - 1] = f[i - 1]  BY <5>1
        <5> QED  BY <4>1, <4>3, <5>2
      <4> QED  BY <4>2, <4>3
    <3>2. g1 = [i \in D |-> g1[i]] /\ h = [i \in D |-> h[i]]  OBVIOUS
    <3>3. g1 = h
      <4> HIDE DEF g1, h, D
      <4> QED  BY <3>1, <3>2
    <3> QED  BY <3>3
  <2>2. Recursive(flatten)
    <3> HIDE DEF Recursive, g1
    <3> QED  BY <2>1
  <2>3. FlattenSeq(s) = flatten[Len(s)]  BY <1>7 DEF FlattenSeq
  <2> HIDE DEF flatten
  <2> DEFINE T == {n \in Nat : n \in D => flatten[n] = f[n]}
  <2>4. 0 \in T  OBVIOUS
  <2>5. ASSUME NEW n \in Nat, n \in T PROVE n + 1 \in T
    <3> SUFFICES ASSUME n + 1 \in D PROVE flatten[n + 1] = f[n + 1]  OBVIOUS
    <3>1. f[n + 1] = f[n] \o s[n + 1] /\ s[n + 1] \in Text
      <4>1. (n + 1) - 1 = n  OBVIOUS
      <4> QED  BY <1>4, <4>1, ElementOfSeq
    <3>2. CASE n = 0
      <4>1. flatten[n + 1] = s[n + 1]  BY <2>2, <3>2
      <4>2. f[n] = <<>>  BY <1>5, <3>2
      <4> QED  BY <3>1, <4>1, <4>2, ConcatEmptySeq DEF Text
    <3>3. CASE n # 0
      <4>1. n \in D /\ n + 1 # 1 /\ (n + 1) - 1 = n  BY <3>3
      <4>2. flatten[n + 1] = flatten[n] \o s[n + 1]  BY <2>2, <4>1
      <4> QED  BY <2>5, <3>1, <4>1, <4>2
    <3> QED  BY <3>2, <3>3
  <2>6. \A n \in Nat : n \in T
    <3> HIDE DEF T
    <3> QED  BY <2>4, <2>5, SetInduction
  <2>7. Len(s) \in D /\ Len(s) \in Nat  BY <1>1, <1>7
  <2>8. FlattenSeq(s) = f[Len(s)]  BY <2>3, <2>6, <2>7
  <2>9. Joins(f, s)
    <3> HIDE DEF T, Recursive, g1, D
    <3> QED  BY <1>4, <1>5, <2>8 DEF Joins
  <2> QED  BY <2>9 DEF Joined
<1> QED  BY <1>6, <1>7

\* Texts concatenated are a text.
LEMMA FlattenType == ASSUME NEW s \in Seq(Text) PROVE FlattenSeq(s) \in Text
<1>1. PICK f : Joins(f, s)  BY FlattenJoins
<1> QED  BY <1>1 DEF Joins

\* The bytes of the framing are texts.
LEMMA Framing == CRLF \in Text /\ <<"*">> \in Text /\ <<"$">> \in Text /\ <<"+">> \in Text
                 /\ <<"-">> \in Text /\ <<":">> \in Text
<1>1. {"CR", "LF", "*", "$", "+", "-", ":"} \subseteq Byte  BY ProtoAssumption
<1> QED  BY <1>1 DEF CRLF, Text

\* A bulk string is written as a text.
LEMMA EncodeBulkType == ASSUME NEW bytes \in Text PROVE encode_bulk(bytes) \in Text
<1>1. to_string(Len(bytes)) \in Text  BY ToStringType DEF Text
<1> QED  BY <1>1, Framing DEF encode_bulk, Text

\* The arguments of a command are written as texts.
LEMMA BulksType ==
    ASSUME NEW args \in Args PROVE [i \in 1..Len(args) |-> encode_bulk(args[i])] \in Seq(Text)
<1>1. Len(args) \in Nat /\ \A i \in 1..Len(args) : args[i] \in Text  BY ElementOfSeq DEF Args
<1>2. \A i \in 1..Len(args) : encode_bulk(args[i]) \in Text  BY <1>1, EncodeBulkType
<1> QED  BY <1>1, <1>2

\* A command is written as a text.
LEMMA EncodeCommandType == ASSUME NEW args \in Args PROVE encode_command(args) \in Text
<1>1. PICK body : body = FlattenSeq([i \in 1..Len(args) |-> encode_bulk(args[i])])  OBVIOUS
<1>2. body \in Text  BY <1>1, BulksType, FlattenType
<1>3. to_string(Len(args)) \in Text  BY ToStringType DEF Args
<1> QED  BY <1>1, <1>2, <1>3, Framing DEF encode_command, Text

-----------------------------------------------------------------------------
(***************************************************************************)
(* Replies are written as bytes.                                           *)
(***************************************************************************)
FlatReplies ==
    [type : {"Simple", "Error"}, text : Text] \cup [type : {"Integer"}, n : Int]
    \cup [type : {"Bulk"}, data : Text] \cup {Nil, NullArray}
Arrays(items) == [type : {"Array"}, items : Seq(items)]
Replies1 == FlatReplies \cup Arrays(FlatReplies)
Replies2 == FlatReplies \cup Arrays(Replies1)

\* The recursive function ReplyType exists.
LEMMA ReplyTypes ==
    ReplyType[0] = FlatReplies /\ ReplyType[1] = Replies1 /\ ReplyType[2] = Replies2
<1> DEFINE Recursive(f) == f = [depth \in 0..Nesting |->
              FlatReplies \cup IF depth = 0 THEN {} ELSE Arrays(f[depth - 1])]
           g == [depth \in 0..Nesting |-> IF depth = 0 THEN FlatReplies
                                          ELSE IF depth = 1 THEN Replies1 ELSE Replies2]
           h == [depth \in 0..Nesting |->
              FlatReplies \cup IF depth = 0 THEN {} ELSE Arrays(g[depth - 1])]
<1>1. ASSUME NEW d \in 0..Nesting PROVE g[d] = h[d]
  <2>1. d \in {0, 1, 2}  BY DEF Nesting
  <2>2. CASE d = 0  BY <2>2
  <2>3. CASE d = 1
    <3>1. g[d] = Replies1 /\ g[d - 1] = FlatReplies  BY <2>3 DEF Nesting
    <3>2. h[d] = FlatReplies \cup Arrays(FlatReplies)
      <4> HIDE DEF g
      <4> QED  BY <2>3, <3>1
    <3> QED  BY <3>1, <3>2 DEF Replies1
  <2>4. CASE d = 2
    <3>1. g[d] = Replies2 /\ g[d - 1] = Replies1  BY <2>4 DEF Nesting
    <3>2. h[d] = FlatReplies \cup Arrays(Replies1)
      <4> HIDE DEF g
      <4> QED  BY <2>4, <3>1
    <3> QED  BY <3>1, <3>2 DEF Replies2
  <2> QED  BY <2>1, <2>2, <2>3, <2>4
<1>2. g = [d \in 0..Nesting |-> g[d]] /\ h = [d \in 0..Nesting |-> h[d]]  OBVIOUS
<1>3. g = h
  <2> HIDE DEF g, h
  <2> QED  BY <1>1, <1>2
<1>4. Recursive(g)  BY <1>3
<1>5. ReplyType = CHOOSE f : Recursive(f)  BY DEF ReplyType, FlatReplies, Arrays, Text
<1>6. Recursive(ReplyType)
  <2> HIDE DEF Recursive, g
  <2> QED  BY <1>4, <1>5
<1>7. ReplyType[0] = FlatReplies  BY <1>6 DEF Nesting
<1>8. ReplyType[1] = FlatReplies \cup Arrays(ReplyType[0])  BY <1>6 DEF Nesting
<1>9. ReplyType[2] = FlatReplies \cup Arrays(ReplyType[1])  BY <1>6 DEF Nesting
<1> QED  BY <1>7, <1>8, <1>9 DEF Replies1, Replies2

\* A reply with no elements is written as a text.
LEMMA FlatWritten ==
    ASSUME NEW r \in FlatReplies, NEW nested PROVE Written(r, nested) \in Text
<1>1. {"1", "-", "*", "$"} \subseteq Byte
  <2>1. Digit[2] = "1" /\ 2 \in 1..10  BY DEF Digit
  <2>2. Digit[2] \in Byte  BY <2>1, ProtoAssumption
  <2> QED  BY <2>1, <2>2, ProtoAssumption
<1>2. CASE r \in [type : {"Simple", "Error"}, text : Text]
  <2>1. r.type \in {"Simple", "Error"} /\ r.text \in Text  BY <1>2
  <2> QED  BY <2>1, Framing DEF Written, Text
<1>3. CASE r \in [type : {"Integer"}, n : Int]
  <2>1. r.type = "Integer" /\ to_string(r.n) \in Text  BY <1>3, ToStringType
  <2> QED  BY <2>1, Framing DEF Written, Text
<1>4. CASE r \in [type : {"Bulk"}, data : Text]
  <2>1. r.type = "Bulk" /\ encode_bulk(r.data) \in Text  BY <1>4, EncodeBulkType
  <2> QED  BY <2>1 DEF Written
<1>5. CASE r = Nil
  <2>1. r.type = "NullBulk"  BY <1>5 DEF Nil
  <2>2. null_bulk \in Text  BY <1>1, Framing DEF null_bulk, Text
  <2> QED  BY <2>1, <2>2 DEF Written
<1>6. CASE r = NullArray
  <2>1. r.type = "NullArray"  BY <1>6 DEF NullArray
  <2> QED  BY <1>1, <2>1, Framing DEF Written, Text
<1> QED  BY <1>2, <1>3, <1>4, <1>5, <1>6 DEF FlatReplies

\* An array is written as a text if its elements are.
LEMMA ArrayWritten ==
    ASSUME NEW R, NEW r \in Arrays(R), NEW nested, \A x \in R : nested[x] \in Text
    PROVE  Written(r, nested) \in Text
<1>1. r.type = "Array" /\ r.items \in Seq(R)  BY DEF Arrays
<1>2. PICK items : items = r.items  OBVIOUS
<1>3. Len(items) \in Nat /\ \A i \in 1..Len(items) : items[i] \in R  BY <1>1, <1>2, ElementOfSeq
<1>4. PICK parts : parts = [i \in 1..Len(items) |-> nested[items[i]]]  OBVIOUS
<1>5. parts \in Seq(Text)  BY <1>3, <1>4
<1>6. FlattenSeq(parts) \in Text /\ to_string(Len(items)) \in Text
  BY <1>3, <1>5, FlattenType, ToStringType
<1>7. Written(r, nested) = <<"*">> \o to_string(Len(items)) \o CRLF \o FlattenSeq(parts)
  BY <1>1, <1>2, <1>4 DEF Written
<1> QED  BY <1>6, <1>7, Framing DEF Text

\* write_to writes each level of a reply with the level below.
LEMMA WriteTo ==
    \E nested0, nested1, nested2 :
        /\ nested1 = [r \in Replies1 |-> Written(r, nested0)]
        /\ nested0 = [r \in FlatReplies |-> Written(r, nested2)]
        /\ \A reply \in Replies2 : write_to(reply) = Written(reply, nested1)
<1> DEFINE Recursive(f) == f = [depth \in 0..Nesting |->
                                   [r \in ReplyType[depth] |-> Written(r, f[depth - 1])]]
           bytes == CHOOSE f : Recursive(f)
           b0 == [r \in FlatReplies |-> Written(r, <<>>)]
           b1 == [r \in Replies1 |-> Written(r, b0)]
           b2 == [r \in Replies2 |-> Written(r, b1)]
           g == [depth \in 0..Nesting |-> IF depth = 0 THEN b0 ELSE IF depth = 1 THEN b1 ELSE b2]
           h == [depth \in 0..Nesting |-> [r \in ReplyType[depth] |-> Written(r, g[depth - 1])]]
<1>1. \A r \in FlatReplies : \A x, y : Written(r, x) = Written(r, y)
  <2> SUFFICES ASSUME NEW r \in FlatReplies, NEW x, NEW y PROVE Written(r, x) = Written(r, y)
    OBVIOUS
  <2>1. r.type \in {"Simple", "Error", "Integer", "Bulk", "NullBulk", "NullArray"}
    BY DEF FlatReplies, Nil, NullArray
  <2> QED  BY <2>1 DEF Written
<1>2. ASSUME NEW d \in 0..Nesting PROVE g[d] = h[d]
  <2>1. d \in {0, 1, 2}  BY DEF Nesting
  <2>2. CASE d = 0
    <3>1. g[d] = b0 /\ ReplyType[d] = FlatReplies  BY <2>2, ReplyTypes
    <3>2. PICK x : x = g[d - 1]  OBVIOUS
    <3>3. h[d] = [r \in FlatReplies |-> Written(r, x)]
      <4> HIDE DEF g
      <4> QED  BY <3>1, <3>2
    <3>4. [r \in FlatReplies |-> Written(r, x)] = [r \in FlatReplies |-> Written(r, <<>>)]
      BY <1>1
    <3> QED  BY <3>1, <3>3, <3>4
  <2>3. CASE d = 1
    <3>1. g[d] = b1 /\ g[d - 1] = b0 /\ ReplyType[d] = Replies1  BY <2>3, ReplyTypes DEF Nesting
    <3> HIDE DEF g, b0
    <3> QED  BY <3>1
  <2>4. CASE d = 2
    <3>1. g[d] = b2 /\ g[d - 1] = b1 /\ ReplyType[d] = Replies2  BY <2>4, ReplyTypes DEF Nesting
    <3> HIDE DEF g, b1
    <3> QED  BY <3>1
  <2> QED  BY <2>1, <2>2, <2>3, <2>4
<1>3. g = [d \in 0..Nesting |-> g[d]] /\ h = [d \in 0..Nesting |-> h[d]]  OBVIOUS
<1>4. g = h
  <2> HIDE DEF g, h
  <2> QED  BY <1>2, <1>3
<1>5. Recursive(g)  BY <1>4
<1>6. Recursive(bytes)
  <2> HIDE DEF Recursive, g
  <2> QED  BY <1>5
<1>7. \A reply : write_to(reply) = bytes[2][reply]  BY DEF write_to, Nesting
<1> HIDE DEF bytes
<1>8. bytes[2] = [r \in Replies2 |-> Written(r, bytes[1])]  BY <1>6, ReplyTypes DEF Nesting
<1>9. bytes[1] = [r \in Replies1 |-> Written(r, bytes[0])]  BY <1>6, ReplyTypes DEF Nesting
<1>10. bytes[0] = [r \in FlatReplies |-> Written(r, bytes[0 - 1])]  BY <1>6, ReplyTypes DEF Nesting
<1> HIDE DEF Recursive
<1> QED  BY <1>7, <1>8, <1>9, <1>10

\* Every reply of the server is written as a text.
LEMMA WriteToType == ASSUME NEW reply \in Replies2 PROVE write_to(reply) \in Text
<1>1. PICK nested0, nested1, nested2 :
        /\ nested1 = [r \in Replies1 |-> Written(r, nested0)]
        /\ nested0 = [r \in FlatReplies |-> Written(r, nested2)]
        /\ \A x \in Replies2 : write_to(x) = Written(x, nested1)
  BY WriteTo
<1>2. \A r \in FlatReplies : nested0[r] \in Text  BY <1>1, FlatWritten
<1>3. \A r \in Replies1 : nested1[r] \in Text
  <2> SUFFICES ASSUME NEW r \in Replies1 PROVE nested1[r] \in Text  OBVIOUS
  <2>1. nested1[r] = Written(r, nested0)  BY <1>1
  <2>2. CASE r \in FlatReplies  BY <2>1, <2>2, FlatWritten
  <2>3. CASE r \in Arrays(FlatReplies)  BY <1>2, <2>1, <2>3, ArrayWritten
  <2> QED  BY <2>2, <2>3 DEF Replies1
<1>4. CASE reply \in FlatReplies  BY <1>1, <1>4, FlatWritten
<1>5. CASE reply \in Arrays(Replies1)  BY <1>1, <1>3, <1>5, ArrayWritten
<1> QED  BY <1>4, <1>5 DEF Replies2

-----------------------------------------------------------------------------
(***************************************************************************)
(* Numbers are read as they are written.                                   *)
(***************************************************************************)
DigitValue(d) == CHOOSE i \in 0..9 : Digit[i + 1] = d

\* Each digit stands for its value.
LEMMA DigitValues == \A i \in 0..9 : DigitValue(Digit[i + 1]) = i
<1>1. \A i \in 0..9, j \in 0..9 : Digit[i + 1] = Digit[j + 1] => i = j
  <2> SUFFICES ASSUME NEW i \in 0..9, NEW j \in 0..9, Digit[i + 1] = Digit[j + 1] PROVE i = j
    OBVIOUS
  <2>1. Digit[1] = "0" /\ Digit[2] = "1" /\ Digit[3] = "2" /\ Digit[4] = "3" /\ Digit[5] = "4"
        /\ Digit[6] = "5" /\ Digit[7] = "6" /\ Digit[8] = "7" /\ Digit[9] = "8" /\ Digit[10] = "9"
    BY DEF Digit
  <2>2. i \in {0, 1, 2, 3, 4, 5, 6, 7, 8, 9} /\ j \in {0, 1, 2, 3, 4, 5, 6, 7, 8, 9}  OBVIOUS
  <2> QED  BY <2>1, <2>2
<1>2. ASSUME NEW i \in 0..9 PROVE DigitValue(Digit[i + 1]) = i
  <2>1. PICK d : d = Digit[i + 1]  OBVIOUS
  <2>2. Digit[DigitValue(d) + 1] = d /\ DigitValue(d) \in 0..9  BY <2>1 DEF DigitValue
  <2> QED  BY <1>1, <2>1, <2>2
<1> QED  BY <1>2

\* f[n] is the number that the first n digits are.
Counts(f, digits) ==
    f[0] = 0 /\ \A n \in 1..Len(digits) : f[n] = 10 * f[n - 1] + DigitValue(digits[n])

\* The recursive function of Number exists and is the only one.
LEMMA NumberCounts ==
    ASSUME NEW digits \in Text, NEW f, Counts(f, digits)
    PROVE  Number(digits) = f[Len(digits)]
<1> DEFINE D == 0..Len(digits)
           Recursive(g) == g = [n \in D |-> IF n = 0 THEN 0
                                            ELSE 10 * g[n - 1] + DigitValue(digits[n])]
           value == CHOOSE g : Recursive(g)
           g1 == [n \in D |-> f[n]]
           h == [n \in D |-> IF n = 0 THEN 0 ELSE 10 * g1[n - 1] + DigitValue(digits[n])]
<1>1. Len(digits) \in Nat  BY DEF Text
<1>2. ASSUME NEW n \in D PROVE g1[n] = h[n]
  <2>1. CASE n = 0  BY <2>1 DEF Counts
  <2>2. CASE n # 0
    <3>1. n - 1 \in D /\ n \in 1..Len(digits)  BY <1>1, <2>2
    <3>2. g1[n - 1] = f[n - 1]  BY <3>1
    <3>3. f[n] = 10 * f[n - 1] + DigitValue(digits[n])  BY <3>1 DEF Counts
    <3>4. h[n] = 10 * g1[n - 1] + DigitValue(digits[n])
      <4> HIDE DEF g1
      <4> QED  BY <2>2
    <3> QED  BY <3>2, <3>3, <3>4
  <2> QED  BY <2>1, <2>2
<1>3. g1 = [n \in D |-> g1[n]] /\ h = [n \in D |-> h[n]]  OBVIOUS
<1>4. g1 = h
  <2> HIDE DEF g1, h, D
  <2> QED  BY <1>2, <1>3
<1>5. Recursive(g1)  BY <1>4
<1>6. Recursive(value)
  <2> HIDE DEF Recursive, g1
  <2> QED  BY <1>5
<1>7. Number(digits) = value[Len(digits)]  BY DEF Number, DigitValue
<1> HIDE DEF value
<1> DEFINE T == {n \in Nat : n \in D => value[n] = f[n]}
<1>8. 0 \in T  BY <1>1, <1>6 DEF Counts
<1>9. ASSUME NEW n \in Nat, n \in T PROVE n + 1 \in T
  <2> SUFFICES ASSUME n + 1 \in D PROVE value[n + 1] = f[n + 1]  OBVIOUS
  <2>1. n \in D /\ n + 1 \in 1..Len(digits) /\ n + 1 # 0 /\ (n + 1) - 1 = n  BY <1>1
  <2>2. value[n + 1] = 10 * value[n] + DigitValue(digits[n + 1])  BY <1>6, <2>1
  <2>3. f[n + 1] = 10 * f[n] + DigitValue(digits[n + 1])  BY <2>1 DEF Counts
  <2> QED  BY <1>9, <2>1, <2>2, <2>3
<1>10. \A n \in Nat : n \in T
  <2> HIDE DEF T
  <2> QED  BY <1>8, <1>9, SetInduction
<1> QED  BY <1>1, <1>7, <1>10

\* A number in decimal is read as that number.
LEMMA NumberDecimal ==
    \A n \in Nat : \E f : Counts(f, decimal[n]) /\ f[Len(decimal[n])] = n
<1> DEFINE T == {n \in Nat : \E f : Counts(f, decimal[n]) /\ f[Len(decimal[n])] = n}
<1>1. ASSUME NEW n \in Nat, \A m \in 0..(n - 1) : m \in T PROVE n \in T
  <2>1. decimal[n] = DecimalBody(decimal, n)  BY DecimalEquation
  <2>2. CASE n < 10
    <3>1. n \in 0..9  BY <2>2
    <3>2. PICK d : d = Digit[n + 1]  OBVIOUS
    <3>3. DigitValue(d) = n /\ decimal[n] = <<d>>
      BY <2>1, <2>2, <3>1, <3>2, DigitValues DEF DecimalBody
    <3> DEFINE f == [i \in 0..1 |-> IF i = 0 THEN 0 ELSE n]
    <3>4. Counts(f, <<d>>) /\ f[Len(<<d>>)] = n
      <4>1. Len(<<d>>) = 1 /\ <<d>>[1] = d  OBVIOUS
      <4>2. f[0] = 0 /\ f[1] = 10 * f[0] + n /\ f[1] = n  OBVIOUS
      <4>3. \A i \in 1..1 : i = 1 /\ i - 1 = 0  OBVIOUS
      <4> HIDE DEF f
      <4> QED  BY <3>3, <4>1, <4>2, <4>3 DEF Counts
    <3>5. \E g : Counts(g, decimal[n]) /\ g[Len(decimal[n])] = n
      <4> HIDE DEF f
      <4> QED  BY <3>3, <3>4
    <3> QED  BY <3>5
  <2>3. CASE ~(n < 10)
    <3>1. PICK m \in 0..(n - 1), r \in 0..9 : m = n \div 10 /\ r = n % 10 /\ n = 10 * m + r
      BY <2>3, DivTen
    <3>2. PICK s : s = decimal[m]  OBVIOUS
    <3>3. PICK d : d = Digit[r + 1]  OBVIOUS
    <3>4. DigitValue(d) = r  BY <3>3, DigitValues
    <3>5. decimal[n] = Append(s, d)  BY <2>1, <2>3, <3>1, <3>2, <3>3 DEF DecimalBody
    <3>6. PICK f : Counts(f, s) /\ f[Len(s)] = m  BY <1>1, <3>1, <3>2
    <3>7. s \in Text /\ Len(s) \in Nat  BY <3>1, <3>2, DecimalType DEF Text
    <3>8. PICK len \in Nat : len = Len(s)  BY <3>7
    <3>9. d \in Byte
      <4>1. r + 1 \in 1..10  OBVIOUS
      <4> QED  BY <3>3, <4>1, ProtoAssumption
    <3>10. Len(Append(s, d)) = len + 1 /\ Append(s, d)[len + 1] = d
           /\ \A i \in 1..len : Append(s, d)[i] = s[i]
      BY <3>7, <3>8, <3>9, AppendProperties DEF Text
    <3>11. PICK s1 : s1 = Append(s, d)  OBVIOUS
    <3> DEFINE g == [i \in Nat |-> IF i <= len THEN f[i] ELSE n]
    <3>12. \A i \in 0..len : g[i] = f[i]  OBVIOUS
    <3>13. g[len + 1] = n  OBVIOUS
    <3>14. Counts(g, s1) /\ g[Len(s1)] = n
      <4> HIDE DEF g
      <4>1. g[0] = 0  BY <3>6, <3>12 DEF Counts
      <4>2. ASSUME NEW i \in 1..(len + 1) PROVE g[i] = 10 * g[i - 1] + DigitValue(s1[i])
        <5>1. CASE i <= len
          <6>1. i \in 0..len /\ i - 1 \in 0..len /\ i \in 1..len  BY <5>1
          <6>2. f[i] = 10 * f[i - 1] + DigitValue(s[i])  BY <3>6, <3>8, <6>1 DEF Counts
          <6> QED  BY <3>10, <3>11, <3>12, <6>1, <6>2
        <5>2. CASE ~(i <= len)
          <6>1. i = len + 1 /\ i - 1 = len /\ len \in 0..len  BY <5>2
          <6>2. g[i - 1] = m /\ s1[i] = d  BY <3>6, <3>8, <3>10, <3>11, <3>12, <6>1
          <6>3. g[i] = n  BY <3>13, <6>1
          <6> QED  BY <3>1, <3>4, <6>2, <6>3
        <5> QED  BY <5>1, <5>2
      <4> QED  BY <3>10, <3>11, <3>13, <4>1, <4>2 DEF Counts
    <3>15. \E g2 : Counts(g2, decimal[n]) /\ g2[Len(decimal[n])] = n
      <4> HIDE DEF g
      <4> QED  BY <3>5, <3>11, <3>14
    <3> QED  BY <3>15
  <2> QED  BY <2>2, <2>3
<1>2. \A n \in Nat : n \in T
  <2> HIDE DEF T
  <2> QED  BY <1>1, StrongInduction
<1> QED  BY <1>2

\* A digit is neither a sign nor part of a line end.
LEMMA DigitsPlain == \A d \in Digits : d \notin {"+", "-", "CR"} /\ d \in Range(Digit)
<1>1. Digits = {"0", "1", "2", "3", "4", "5", "6", "7", "8", "9"}
  <2>1. Digit[1] = "0" /\ Digit[2] = "1" /\ Digit[3] = "2" /\ Digit[4] = "3" /\ Digit[5] = "4"
        /\ Digit[6] = "5" /\ Digit[7] = "6" /\ Digit[8] = "7" /\ Digit[9] = "8" /\ Digit[10] = "9"
    BY DEF Digit
  <2>2. \A i \in 1..10 : i \in {1, 2, 3, 4, 5, 6, 7, 8, 9, 10}  OBVIOUS
  <2>3. \A i \in {1, 2, 3, 4, 5, 6, 7, 8, 9, 10} : i \in 1..10  OBVIOUS
  <2> QED  BY <2>1, <2>2, <2>3 DEF Digits
<1>2. DOMAIN Digit = 1..10  BY DEF Digit
<1>3. Range(Digit) = Digits  BY <1>2 DEF Range, Digits
<1> QED  BY <1>1, <1>3

\* A decimal number is parsed as the number it was written from.
LEMMA ParseDecimal ==
    ASSUME NEW n \in Nat, NEW signs, signs \subseteq {"+", "-"}, NEW lo \in Int, NEW hi \in Int,
           n \in lo..hi
    PROVE  parse(decimal[n], signs, lo, hi) = {n}
<1>1. PICK s : s = decimal[n]  OBVIOUS
<1>2. s \in Text /\ s # <<>> /\ \A i \in 1..Len(s) : s[i] \in Digits  BY <1>1, DecimalType
<1>3. Len(s) \in Nat /\ Len(s) # 0  BY <1>2, EmptySeq DEF Text
<1>4. 1 \in 1..Len(s)  BY <1>3
<1>5. s[1] \notin signs  BY <1>2, <1>4, DigitsPlain
<1>6. Number(s) = n  BY <1>1, <1>2, NumberDecimal, NumberCounts
<1>7. \A i \in 1..Len(s) : s[i] \in Range(Digit)  BY <1>2, DigitsPlain
<1>8. parse(s, signs, lo, hi) = {Number(s)} \cap lo..hi
  BY <1>2, <1>5, <1>7 DEF parse
<1> QED  BY <1>1, <1>6, <1>8

\* The constructors make replies of their level.
LEMMA ReplyForms ==
    /\ \A t \in Text : Simple(t) \in FlatReplies /\ Error(t) \in FlatReplies /\ Bulk(t) \in FlatReplies
    /\ \A n \in Int : Integer(n) \in FlatReplies
    /\ Nil \in FlatReplies /\ NullArray \in FlatReplies
    /\ \A s \in Seq(FlatReplies) : Array(s) \in Replies1
    /\ \A s \in Seq(Replies1) : Array(s) \in Replies2
    /\ FlatReplies \subseteq Replies1 /\ Replies1 \subseteq Replies2
<1>1. \A t \in Text : Simple(t) \in FlatReplies /\ Error(t) \in FlatReplies /\ Bulk(t) \in FlatReplies
  BY DEF Simple, Error, Bulk, FlatReplies
<1>2. (\A n \in Int : Integer(n) \in FlatReplies) /\ Nil \in FlatReplies /\ NullArray \in FlatReplies
  BY DEF Integer, FlatReplies
<1>3. \A R : \A s \in Seq(R) : Array(s) \in Arrays(R)  BY DEF Array, Arrays
<1>4. FlatReplies \subseteq Replies1  BY DEF Replies1
<1>5. Arrays(FlatReplies) \subseteq Arrays(Replies1)
  <2> SUFFICES ASSUME NEW r \in Arrays(FlatReplies) PROVE r \in Arrays(Replies1)  OBVIOUS
  <2>1. PICK s \in Seq(FlatReplies) : r = [type |-> "Array", items |-> s]  BY DEF Arrays
  <2>2. s \in Seq(Replies1)
    <3>1. Len(s) \in Nat /\ \A i \in 1..Len(s) : s[i] \in Replies1  BY <1>4, ElementOfSeq
    <3>2. s = [i \in 1..Len(s) |-> s[i]]  OBVIOUS
    <3> QED  BY <3>1, <3>2, IsASeq
  <2> QED  BY <2>1, <2>2 DEF Arrays
<1>6. Replies1 \subseteq Replies2  BY <1>5 DEF Replies1, Replies2
<1>7. (\A s \in Seq(FlatReplies) : Array(s) \in Replies1) /\ \A s \in Seq(Replies1) : Array(s) \in Replies2
  BY <1>3 DEF Replies1, Replies2
<1> QED  BY <1>1, <1>2, <1>4, <1>6, <1>7

\* Two texts concatenated, and their length.
LEMMA ConcatText ==
    ASSUME NEW s \in Text, NEW t \in Text
    PROVE  s \o t \in Text /\ Len(s \o t) = Len(s) + Len(t) /\ Len(s) \in Nat /\ Len(t) \in Nat
  BY ConcatProperties DEF Text

\* Two texts concatenated are a text.
LEMMA TextConcat == \A s \in Text, t \in Text : s \o t \in Text  BY DEF Text

-----------------------------------------------------------------------------
(***************************************************************************)
(* Replies that the client can take.                                       *)
(***************************************************************************)
\* Texts of one line, numbers that are read as they are written, and payloads.
Lines == {t \in Text : Len(t) + 1 <= MAX_INLINE_LEN /\ \A i \in 1..(Len(t) - 1) : ~Ends(t, i)}
Numbers == {n \in Int : to_string(n) \in Lines /\ parse_i64_strict(to_string(n)) = {n}}
Payloads == {t \in Text : Len(t) <= MAX_BULK_LEN}

FramedFlat ==
    {Simple(t) : t \in Lines} \cup {Error(t) : t \in Lines} \cup {Integer(n) : n \in Numbers}
    \cup {Bulk(t) : t \in Payloads} \cup {Nil}
FramedArrays(R) == {Array(s) : s \in {x \in Seq(R) : Len(x) <= MAX_ARRAY_LEN}}
Framed1 == FramedFlat \cup FramedArrays(FramedFlat)
Framed2 == FramedFlat \cup FramedArrays(Framed1)

\* A sequence over a set is one over any larger set.
LEMMA SeqSubset == ASSUME NEW R, NEW S, R \subseteq S, NEW s \in Seq(R) PROVE s \in Seq(S)
<1>1. Len(s) \in Nat /\ \A i \in 1..Len(s) : s[i] \in S  BY ElementOfSeq
<1>2. s = [i \in 1..Len(s) |-> s[i]]  OBVIOUS
<1> QED  BY <1>1, <1>2, IsASeq

\* Replies that the client can take are replies, level by level.
LEMMA FramedForms ==
    /\ FramedFlat \subseteq FlatReplies /\ Framed1 \subseteq Replies1 /\ Framed2 \subseteq Replies2
    /\ FramedFlat \subseteq Framed1 /\ Framed1 \subseteq Framed2
<1>1. FramedFlat \subseteq FlatReplies
  BY ReplyForms DEF FramedFlat, Lines, Numbers, Payloads
<1>2. ASSUME NEW R, NEW S, R \subseteq S PROVE FramedArrays(R) \subseteq FramedArrays(S)
  BY <1>2, SeqSubset DEF FramedArrays
<1>3. ASSUME NEW R PROVE FramedArrays(R) \subseteq Arrays(R)
  BY DEF FramedArrays, Arrays, Array
<1>4. FramedFlat \subseteq Framed1  BY DEF Framed1
<1>5. Framed1 \subseteq Framed2  BY <1>2, <1>4 DEF Framed1, Framed2
<1>6. ASSUME NEW R, NEW S, R \subseteq S PROVE Arrays(R) \subseteq Arrays(S)
  BY <1>6, SeqSubset DEF Arrays
<1>7. Framed1 \subseteq Replies1
  <2>1. FramedArrays(FramedFlat) \subseteq Arrays(FlatReplies)  BY <1>1, <1>3, <1>6
  <2> QED  BY <1>1, <2>1 DEF Framed1, Replies1
<1>8. Framed2 \subseteq Replies2
  <2>1. FramedArrays(Framed1) \subseteq Arrays(Replies1)  BY <1>3, <1>6, <1>7
  <2> QED  BY <1>1, <2>1 DEF Framed2, Replies2
<1> QED  BY <1>1, <1>4, <1>5, <1>7, <1>8

\* The constructors make replies that the client can take.
LEMMA FramedMakes ==
    /\ \A t \in Lines : Simple(t) \in FramedFlat /\ Error(t) \in FramedFlat
                        /\ Simple(t) \in Framed2 /\ Error(t) \in Framed2
    /\ \A n \in Numbers : Integer(n) \in FramedFlat /\ Integer(n) \in Framed1 /\ Integer(n) \in Framed2
    /\ \A t \in Payloads : Bulk(t) \in FramedFlat /\ Bulk(t) \in Framed1 /\ Bulk(t) \in Framed2
    /\ Nil \in FramedFlat
    /\ \A s \in Seq(FramedFlat) : Len(s) <= MAX_ARRAY_LEN => Array(s) \in Framed1
    /\ \A s \in Seq(Framed1) : Len(s) <= MAX_ARRAY_LEN => Array(s) \in Framed2
<1>1. \A t \in Lines : Simple(t) \in FramedFlat /\ Error(t) \in FramedFlat  BY DEF FramedFlat
<1>2. \A n \in Numbers : Integer(n) \in FramedFlat  BY DEF FramedFlat
<1>3. \A t \in Payloads : Bulk(t) \in FramedFlat  BY DEF FramedFlat
<1>4. Nil \in FramedFlat  BY DEF FramedFlat
<1>5. ASSUME NEW R, NEW s \in Seq(R), Len(s) <= MAX_ARRAY_LEN PROVE Array(s) \in FramedArrays(R)
  BY <1>5 DEF FramedArrays
<1>6. \A s \in Seq(FramedFlat) : Len(s) <= MAX_ARRAY_LEN => Array(s) \in Framed1
  BY <1>5 DEF Framed1
<1>7. \A s \in Seq(Framed1) : Len(s) <= MAX_ARRAY_LEN => Array(s) \in Framed2
  BY <1>5 DEF Framed2
<1> QED  BY <1>1, <1>2, <1>3, <1>4, <1>6, <1>7, FramedForms

\* The limits leave room for the fixed replies.
LEMMA LeastLimits ==
    /\ 3 <= MAX_INLINE_LEN /\ 3 <= MAX_ARRAY_LEN /\ 6 <= MAX_BULK_LEN /\ 12 <= I64Max
    /\ 2 <= MAX_REPLY_DEPTH
<1>1. 0 \in 0..MAX_BULK_LEN \cup 0..MAX_ARRAY_LEN  BY Limits
<1>2. Len(to_string(0)) + 2 <= MAX_INLINE_LEN  BY <1>1, LimitsAssumption
<1>3. PICK zero : zero = decimal[0]  OBVIOUS
<1>4. zero \in Text /\ zero # <<>>  BY <1>3, DecimalType
<1>5. Len(zero) \in Nat /\ Len(zero) # 0  BY <1>4, EmptySeq DEF Text
<1>6. to_string(0) = zero  BY <1>3 DEF to_string
<1>7. 3 <= MAX_INLINE_LEN  BY <1>2, <1>5, <1>6, Limits
<1> QED  BY <1>7, RepliesAssumption DEF Nesting

\* One byte is a line, and so is an error behind it that repeats a text which
\* does not break the line.
LEMMA ShortLine ==
    ASSUME NEW b \in Byte PROVE <<b>> \in Lines /\ <<b>> \in Payloads
<1>1. PICK t : t = <<b>>  OBVIOUS
<1>2. t \in Text /\ Len(t) = 1  BY <1>1 DEF Text
<1>3. Len(t) + 1 <= MAX_INLINE_LEN /\ Len(t) <= MAX_BULK_LEN  BY <1>2, LeastLimits, Limits
<1>4. 1..(Len(t) - 1) = {}  BY <1>2
<1>5. t \in Lines /\ t \in Payloads  BY <1>2, <1>3, <1>4 DEF Lines, Payloads
<1> QED  BY <1>1, <1>5

\* An error that repeats a name is one line if the name does not break it.
LEMMA RepeatedLine ==
    ASSUME NEW b \in Byte, b # "CR", NEW name \in Text, ~BreaksLine(name)
    PROVE  <<b>> \o name \in Lines
<1>1. find_crlf(name, 1) = {} /\ ~(Len(name) + 2 > MAX_INLINE_LEN)  BY DEF BreaksLine
<1>2. Len(name) \in Nat /\ 1 \in Pos  BY DEF Text, Pos
<1>3. \A i \in 1..(Len(name) - 1) : ~Ends(name, i)
  <2>1. \A m : {m} # {}  OBVIOUS
  <2> QED  BY <1>1, <1>2, <2>1, FindCrlf
<1>4. PICK s : s = <<b>>  OBVIOUS
<1>5. s \in Text /\ Len(s) = 1 /\ s[1] = b  BY <1>4 DEF Text
<1>6. PICK t : t = s \o name  OBVIOUS
<1>7. t \in Text /\ Len(t) = 1 + Len(name)  BY <1>5, <1>6, ConcatText
<1>8. t[1] = b /\ \A i \in 1..Len(name) : t[i + 1] = name[i]
  <2>1. /\ \A i \in 1..Len(s) : (s \o name)[i] = s[i]
        /\ \A i \in 1..Len(name) : (s \o name)[Len(s) + i] = name[i]
    BY <1>5, ConcatProperties DEF Text
  <2>2. 1 \in 1..Len(s) /\ \A i \in 1..Len(name) : Len(s) + i = i + 1  BY <1>2, <1>5
  <2> QED  BY <1>5, <1>6, <2>1, <2>2
<1>9. ASSUME NEW i \in 1..(Len(t) - 1) PROVE ~Ends(t, i)
  <2>1. CASE i = 1  BY <1>8, <2>1 DEF Ends
  <2>2. CASE i # 1
    <3>1. PICK j \in 1..(Len(name) - 1) : i = j + 1
      <4>1. i - 1 \in 1..(Len(name) - 1) /\ i = (i - 1) + 1  BY <1>2, <1>7, <2>2
      <4> QED  BY <4>1
    <3>2. j \in 1..Len(name) /\ j + 1 \in 1..Len(name) /\ i + 1 = (j + 1) + 1  BY <1>2, <3>1
    <3>3. t[i] = name[j] /\ t[i + 1] = name[j + 1]  BY <1>8, <3>1, <3>2
    <3> QED  BY <1>3, <3>3 DEF Ends
  <2> QED  BY <2>1, <2>2
<1>10. Len(t) + 1 <= MAX_INLINE_LEN  BY <1>1, <1>2, <1>7, Limits
<1>11. t \in Lines  BY <1>7, <1>9, <1>10 DEF Lines
<1> QED  BY <1>4, <1>6, <1>11

\* Where the bytes of two texts are in their concatenation.
LEMMA ConcatAt ==
    ASSUME NEW s \in Text, NEW t \in Text
    PROVE  /\ \A i \in 1..Len(s) : (s \o t)[i] = s[i]
           /\ \A i \in 1..Len(t) : (s \o t)[Len(s) + i] = t[i]
  BY ConcatProperties DEF Text

\* A negative number is read as it is written too.
LEMMA ParseNegative ==
    ASSUME NEW n \in Nat, NEW s, s = <<"-">> \o decimal[n], NEW lo \in Int, NEW hi \in Int,
           -n \in lo..hi
    PROVE  parse(s, {"+", "-"}, lo, hi) = {-n}
<1>1. PICK text : text = decimal[n]  OBVIOUS
<1>2. text \in Text /\ text # <<>> /\ \A i \in 1..Len(text) : text[i] \in Digits
  BY <1>1, DecimalType
<1>3. PICK sign : sign = <<"-">>  OBVIOUS
<1>4. sign \in Text /\ Len(sign) = 1 /\ sign[1] = "-"  BY <1>3, Framing
<1>5. s = sign \o text  BY <1>1, <1>3
<1>6. s \in Text /\ Len(s) = 1 + Len(text) /\ Len(text) \in Nat  BY <1>2, <1>4, <1>5, ConcatText
<1>7. s[1] = "-" /\ \A i \in 1..Len(text) : s[i + 1] = text[i]
  <2>1. /\ \A i \in 1..Len(sign) : (sign \o text)[i] = sign[i]
        /\ \A i \in 1..Len(text) : (sign \o text)[Len(sign) + i] = text[i]
    BY <1>2, <1>4, ConcatAt
  <2>2. 1 \in 1..Len(sign) /\ \A i \in 1..Len(text) : Len(sign) + i = i + 1  BY <1>4, <1>6
  <2> QED  BY <1>4, <1>5, <2>1, <2>2
<1>8. s # <<>>  BY <1>6, EmptySeq DEF Text
<1>9. Tail(s) = text
  <2>1. PICK rest : rest = Tail(s)  OBVIOUS
  <2>2. rest \in Text /\ Len(rest) = Len(s) - 1 /\ \A i \in 1..Len(rest) : rest[i] = s[i + 1]
    BY <1>6, <1>8, <2>1, HeadTailProperties DEF Text
  <2>3. Len(rest) = Len(text)  BY <1>6, <2>2
  <2>4. \A i \in 1..Len(text) : rest[i] = text[i]  BY <1>7, <2>2, <2>3
  <2>5. rest = text  BY <1>2, <2>2, <2>3, <2>4, SeqEqual DEF Text
  <2> QED  BY <2>1, <2>5
<1>10. Number(text) = n
  <2>1. PICK f : Counts(f, text) /\ f[Len(text)] = n  BY <1>1, NumberDecimal
  <2> QED  BY <1>2, <2>1, NumberCounts
<1>11. \A i \in 1..Len(text) : text[i] \in Range(Digit)  BY <1>2, DigitsPlain
<1>12. parse(s, {"+", "-"}, lo, hi) = {-Number(text)} \cap lo..hi
  BY <1>2, <1>7, <1>8, <1>9, <1>11 DEF parse
<1>13. -Number(text) = -n  BY <1>10
<1> QED  BY <1>12, <1>13

\* The length of short decimal numbers.
LEMMA SmallDecimal ==
    /\ \A n \in 0..9 : Len(decimal[n]) = 1
    /\ \A n \in 10..99 : Len(decimal[n]) = 2
<1>1. \A n \in 0..9 : Len(decimal[n]) = 1
  <2> SUFFICES ASSUME NEW n \in 0..9 PROVE Len(decimal[n]) = 1  OBVIOUS
  <2>1. n \in Nat /\ n < 10  OBVIOUS
  <2>2. decimal[n] = <<Digit[n + 1]>>  BY <2>1, DecimalEquation DEF DecimalBody
  <2> QED  BY <2>2
<1>2. ASSUME NEW n \in 10..99 PROVE Len(decimal[n]) = 2
  <2>1. n \in Nat /\ ~(n < 10) /\ n \div 10 \in 0..9 /\ n % 10 \in 0..9  OBVIOUS
  <2>2. PICK d : d = decimal[n \div 10]  OBVIOUS
  <2>3. PICK e : e = Digit[(n % 10) + 1]  OBVIOUS
  <2>4. decimal[n] = Append(d, e)  BY <2>1, <2>2, <2>3, DecimalEquation DEF DecimalBody
  <2>5. d \in Text /\ Len(d) = 1 /\ e \in Byte
    <3>1. d \in Text /\ Len(d) = 1  BY <1>1, <2>1, <2>2, DecimalType
    <3>2. (n % 10) + 1 \in 1..10  BY <2>1
    <3>3. e \in Byte  BY <2>3, <3>2, ProtoAssumption
    <3> QED  BY <3>1, <3>3
  <2>6. Len(Append(d, e)) = Len(d) + 1  BY <2>5, AppendProperties DEF Text
  <2> QED  BY <2>4, <2>5, <2>6
<1> QED  BY <1>1, <1>2

\* The numbers that are replied with are read as they are written.
LEMMA SmallNumbers == -2 \in Numbers /\ -1 \in Numbers /\ 0..12 \cup 0..MAX_ARRAY_LEN \subseteq Numbers
<1>0. I64Max \in Int /\ -(I64Max + 1) \in Int /\ 12 <= I64Max /\ MAX_ARRAY_LEN <= I64Max
  BY Limits, LeastLimits, LimitsAssumption
<1>1. ASSUME NEW n \in Nat PROVE \A i \in 1..(Len(decimal[n]) - 1) : ~Ends(decimal[n], i)
  <2>1. Len(decimal[n]) \in Nat  BY DecimalType DEF Text
  <2>2. \A i \in 1..(Len(decimal[n]) - 1) : i \in 1..Len(decimal[n])  BY <2>1
  <2> QED  BY <2>2, DecimalType, DigitsPlain DEF Ends
<1>2. ASSUME NEW n \in 0..12 \cup 0..MAX_ARRAY_LEN PROVE n \in Numbers
  <2>1. n \in Nat /\ n \in (-(I64Max + 1))..I64Max  BY <1>0, <1>2, Limits
  <2>2. PICK s : s = decimal[n]  OBVIOUS
  <2>3. to_string(n) = s  BY <2>1, <2>2 DEF to_string
  <2>4. parse_i64_strict(s) = {n}  BY <1>0, <2>1, <2>2, ParseDecimal DEF parse_i64_strict
  <2>5. s \in Text /\ Len(s) \in Nat  BY <2>1, <2>2, DecimalType DEF Text
  <2>6. Len(s) + 1 <= MAX_INLINE_LEN
    <3>1. CASE n \in 0..12
      <4>1. n \in 0..9 \/ n \in 10..99  BY <3>1
      <4>2. Len(s) = 1 \/ Len(s) = 2  BY <2>2, <4>1, SmallDecimal
      <4>3. 3 <= MAX_INLINE_LEN /\ MAX_INLINE_LEN \in Nat  BY LeastLimits, Limits
      <4>4. PICK m \in Nat : m = Len(s)  BY <2>5
      <4>5. m = 1 \/ m = 2  BY <4>2, <4>4
      <4>6. m + 1 <= MAX_INLINE_LEN  BY <4>3, <4>5
      <4> QED  BY <4>4, <4>6
    <3>2. CASE n \in 0..MAX_ARRAY_LEN
      <4>1. Len(to_string(n)) + 2 <= MAX_INLINE_LEN  BY <3>2, LimitsAssumption
      <4> QED  BY <2>3, <2>5, <4>1, Limits
    <3> QED  BY <1>2, <3>1, <3>2
  <2>7. s \in Lines  BY <1>1, <2>1, <2>2, <2>5, <2>6 DEF Lines
  <2> QED  BY <2>1, <2>3, <2>4, <2>7 DEF Numbers
<1>3. ASSUME NEW n \in 1..2 PROVE -n \in Numbers
  <2>1. n \in Nat /\ n \in 0..9 /\ -n < 0 /\ -(-n) = n /\ -n \in Int /\ -n \in (-(I64Max + 1))..I64Max
    BY <1>0, Limits
  <2>2. PICK d : d = decimal[n]  OBVIOUS
  <2>3. d \in Text /\ Len(d) = 1  BY <2>1, <2>2, DecimalType, SmallDecimal
  <2>4. PICK s : s = <<"-">> \o d  OBVIOUS
  <2>5. to_string(-n) = s  BY <2>1, <2>2, <2>4 DEF to_string
  <2>6. parse_i64_strict(s) = {-n}
    <3>1. PICK lo \in Int : lo = -(I64Max + 1)  BY <1>0
    <3>2. PICK hi \in Int : hi = I64Max  BY <1>0
    <3>3. -n \in lo..hi  BY <2>1, <3>1, <3>2
    <3>4. s = <<"-">> \o decimal[n] /\ n \in Nat  BY <2>1, <2>2, <2>4
    <3>5. parse(s, {"+", "-"}, lo, hi) = {-n}  BY <3>3, <3>4, ParseNegative
    <3> QED  BY <3>1, <3>2, <3>5 DEF parse_i64_strict
  <2>7. PICK m : m = <<"-">>  OBVIOUS
  <2>8. m \in Text /\ Len(m) = 1 /\ m[1] = "-"  BY <2>7, Framing
  <2>9. s \in Text /\ Len(s) = 2 /\ s[1] = "-"
    <3>1. s = m \o d  BY <2>4, <2>7
    <3>2. s \in Text /\ Len(s) = Len(m) + Len(d)  BY <2>3, <2>8, <3>1, ConcatText
    <3>3. 1 \in 1..Len(m)  BY <2>8
    <3>4. s[1] = m[1]  BY <2>3, <2>8, <3>1, <3>3, ConcatAt
    <3> QED  BY <2>3, <2>8, <3>2, <3>4
  <2>10. s \in Lines
    <3>1. Len(s) + 1 <= MAX_INLINE_LEN  BY <2>9, LeastLimits, Limits
    <3>2. \A i \in 1..(Len(s) - 1) : i = 1  BY <2>9
    <3>3. ~Ends(s, 1)  BY <2>9 DEF Ends
    <3> QED  BY <2>9, <3>1, <3>2, <3>3 DEF Lines
  <2> QED  BY <2>1, <2>5, <2>6, <2>10 DEF Numbers
<1> QED  BY <1>2, <1>3

-----------------------------------------------------------------------------
(***************************************************************************)
(* What dispatch returns.                                                  *)
(***************************************************************************)
\* The texts of replies.
LEMMA ReplyTexts ==
    /\ <<"OK">> \in Lines /\ <<"PONG">> \in Lines /\ <<"server">> \in Payloads
    /\ <<"string">> \in Lines /\ <<"none">> \in Lines /\ <<"0">> \in Payloads
    /\ <<"ERR not an integer">> \in Lines /\ <<"ERR would overflow">> \in Lines
    /\ <<"ERR Protocol error">> \in Lines /\ <<>> \in Payloads
    /\ <<"# Server", "CR", "LF", "used_memory", "CR", "LF">> \in Payloads
<1>1. "OK" \in Byte /\ "PONG" \in Byte /\ "server" \in Byte /\ "string" \in Byte /\ "none" \in Byte
      /\ "ERR not an integer" \in Byte /\ "ERR would overflow" \in Byte
      /\ "ERR Protocol error" \in Byte /\ "# Server" \in Byte /\ "used_memory" \in Byte
  BY DispatchAssumption
<1>2. "CR" \in Byte /\ "LF" \in Byte  BY ProtoAssumption
<1>3. "0" \in Byte
  <2>1. Digit[1] = "0" /\ 1 \in 1..10  BY DEF Digit
  <2> QED  BY <2>1, ProtoAssumption
<1>4. <<"# Server", "CR", "LF", "used_memory", "CR", "LF">> \in Payloads
  <2>1. ASSUME NEW a \in Byte, NEW b \in Byte, NEW c \in Byte, NEW d \in Byte
        PROVE  <<a, b, c, d, b, c>> \in Payloads
    <3>1. PICK t : t = <<a, b, c, d, b, c>>  OBVIOUS
    <3>2. t \in Text /\ Len(t) = 6  BY <3>1 DEF Text
    <3>3. t \in Payloads  BY <3>2, LeastLimits DEF Payloads
    <3> QED  BY <3>1, <3>3
  <2> QED  BY <1>1, <1>2, <2>1, Zenon
<1>5. <<>> \in Payloads
  <2>1. <<>> \in Text /\ Len(<<>>) = 0 /\ 0 <= MAX_BULK_LEN  BY Limits DEF Text
  <2> QED  BY <2>1 DEF Payloads
<1> QED  BY <1>1, <1>3, <1>4, <1>5, ShortLine, Zenon

\* The replies to args: ones the client can take, unless args are too large or
\* break the line of an error.
Sound(args) == IF Fits(args) /\ ~BreaksLine(Repeated(args)) THEN Framed2 ELSE Replies2

\* A reply that the client can take is sound for every command.
LEMMA SoundReplies ==
    \A args : Framed2 \subseteq Sound(args) /\ Sound(args) \subseteq Replies2
  BY FramedForms DEF Sound

\* An outcome without a store call and without authentication.
Plain(o, args) == o.reply \in Sound(args) /\ o.call = "none" /\ o.auth = FALSE

\* An answer with a sound reply neither authenticates nor calls the store.
LEMMA AnswerPlain == \A args : \A r \in Sound(args) : Plain(Answer(r), args)  BY DEF Plain, Answer

\* The same for a reply that the client can take.
LEMMA FramedPlain == \A args : \A r \in Framed2 : Plain(Answer(r), args)
  BY SoundReplies, AnswerPlain

\* An error outcome is plain.
LEMMA FailsPlain == ASSUME NEW args, NEW t \in Byte PROVE \A o \in Fails(t) : Plain(o, args)
<1>1. <<t>> \in Lines  BY ShortLine
<1>2. Error(<<t>>) \in Framed2  BY <1>1, FramedMakes
<1> QED  BY <1>2, FramedPlain DEF Fails

\* An error that repeats name, the bytes of args that may break its line.
LEMMA RepeatingPlain ==
    ASSUME NEW args, NEW b \in Byte, b # "CR", NEW name \in Text, name = Repeated(args)
    PROVE  Plain(Answer(Error(<<b>> \o name)), args)
<1>1. PICK s : s = <<b>>  OBVIOUS
<1>2. s \in Text  BY <1>1 DEF Text
<1>3. PICK text : text = s \o name  OBVIOUS
<1>4. text \in Text  BY <1>2, <1>3, TextConcat
<1>5. Error(text) \in Replies2  BY <1>4, ReplyForms
<1>6. CASE ~BreaksLine(name)
  <2>1. text \in Lines  BY <1>1, <1>3, <1>6, RepeatedLine
  <2>2. Error(text) \in Framed2  BY <2>1, FramedMakes
  <2> QED  BY <1>1, <1>3, <2>2, FramedPlain
<1>7. CASE BreaksLine(name)
  <2>1. Sound(args) = Replies2  BY <1>7 DEF Sound
  <2> QED  BY <1>1, <1>3, <1>5, <2>1, AnswerPlain
<1> QED  BY <1>6, <1>7

\* The answer to an unknown command is plain.
LEMMA UnknownPlain ==
    ASSUME NEW args \in Args, args # <<>>, Word(args[1]) # "CLIENT"
    PROVE  \A o \in UnknownCommand(args[1]) : Plain(o, args)
<1>1. args[1] \in Text  BY EmptySeq, ElementOfSeq DEF Args
<1>2. "ERR unknown command" \in Byte /\ "ERR unknown command" # "CR"  BY DispatchAssumption
<1>3. args[1] = Repeated(args)  BY DEF Repeated
<1>4. Plain(Answer(Error(<<"ERR unknown command">> \o args[1])), args)
  BY <1>1, <1>2, <1>3, RepeatingPlain
<1> QED  BY <1>4 DEF UnknownCommand

\* OK is a reply that the client can take.
LEMMA OkReply == Ok \in FramedFlat
<1>1. <<"OK">> \in Lines  BY ReplyTexts
<1> QED  BY <1>1, FramedMakes DEF Ok

\* An argument that is replied as it is.
LEMMA ArgumentReply ==
    ASSUME NEW args \in Args, NEW i \in 1..Len(args) PROVE Bulk(args[i]) \in Sound(args)
<1>1. args[i] \in Text  BY ElementOfSeq DEF Args
<1>2. Bulk(args[i]) \in Replies2  BY <1>1, ReplyForms
<1>3. CASE Fits(args)
  <2>1. args[i] \in Payloads  BY <1>1, <1>3 DEF Fits, Payloads
  <2>2. Bulk(args[i]) \in Framed2  BY <2>1, FramedMakes
  <2> QED  BY <2>2, SoundReplies
<1>4. CASE ~Fits(args)  BY <1>2, <1>4 DEF Sound
<1> QED  BY <1>3, <1>4

\* The arguments of a command behind its name.
LEMMA RestOf ==
    ASSUME NEW args \in Args, args # <<>>, NEW rest, rest = Tail(args)
    PROVE  /\ rest \in Args /\ Len(args) \in Nat /\ Len(args) # 0 /\ Len(rest) \in Nat
           /\ Len(args) = Len(rest) + 1 /\ \A i \in 1..Len(rest) : rest[i] = args[i + 1]
<1>1. rest \in Args /\ Len(args) \in Nat /\ Len(args) # 0 /\ Len(rest) = Len(args) - 1
      /\ \A i \in 1..Len(rest) : rest[i] = args[i + 1]
  BY EmptySeq, HeadTailProperties DEF Args
<1>2. Len(rest) \in Nat  BY <1>1 DEF Args
<1>3. Len(args) = Len(rest) + 1  BY <1>1, <1>2
<1> QED  BY <1>1, <1>2, <1>3

\* The handshake commands answer plainly.
LEMMA HandshakePlain ==
    ASSUME NEW args \in Args, args # <<>>, NEW rest, rest = Tail(args), Word(args[1]) \in Handshake
    PROVE  \A o \in HandshakeReplies(args, rest) : Plain(o, args)
<1>1. rest # <<>> => Bulk(rest[1]) \in Sound(args)
  <2> SUFFICES ASSUME rest # <<>> PROVE Bulk(rest[1]) \in Sound(args)  OBVIOUS
  <2>1. rest \in Args /\ Len(rest) \in Nat /\ Len(args) = Len(rest) + 1
        /\ \A i \in 1..Len(rest) : rest[i] = args[i + 1]
    BY RestOf
  <2>2. Len(rest) # 0  BY <2>1, EmptySeq DEF Args
  <2>3. 1 \in 1..Len(rest) /\ 2 \in 1..Len(args) /\ 1 + 1 = 2  BY <2>1, <2>2
  <2>4. rest[1] = args[2]  BY <2>1, <2>3
  <2> QED  BY <2>3, <2>4, ArgumentReply
<1>2. Simple(<<"PONG">>) \in Framed2
  <2>1. <<"PONG">> \in Lines  BY ReplyTexts
  <2> QED  BY <2>1, FramedMakes
<1>3. Array(<<Bulk(<<"server">>), Integer(2), Array(<<>>)>>) \in Framed2
  <2>1. <<"server">> \in Payloads  BY ReplyTexts
  <2>2. 2 \in Numbers  BY SmallNumbers
  <2>3. PICK b \in Framed1 : b = Bulk(<<"server">>)  BY <2>1, FramedMakes
  <2>4. PICK n \in Framed1 : n = Integer(2)  BY <2>2, FramedMakes
  <2>5. PICK e \in Framed1 : e = Array(<<>>)
    <3>1. <<>> \in Seq(FramedFlat) /\ Len(<<>>) = 0 /\ 0 <= MAX_ARRAY_LEN  BY Limits
    <3> QED  BY <3>1, FramedMakes
  <2>6. PICK s : s = <<b, n, e>>  OBVIOUS
  <2>7. s \in Seq(Framed1) /\ Len(s) = 3  BY <2>6
  <2>8. Array(s) \in Framed2  BY <2>7, FramedMakes, LeastLimits
  <2> QED  BY <2>3, <2>4, <2>5, <2>6, <2>8
<1>4. Word(args[1]) # "CLIENT"  BY DEF Handshake
<1>5. \/ HandshakeReplies(args, rest) = {Answer(Simple(<<"PONG">>))}
      \/ rest # <<>> /\ HandshakeReplies(args, rest) = {Answer(Bulk(rest[1]))}
      \/ HandshakeReplies(args, rest)
            = {Answer(Array(<<Bulk(<<"server">>), Integer(2), Array(<<>>)>>))}
      \/ HandshakeReplies(args, rest) = UnknownCommand(args[1])
  BY DEF HandshakeReplies
<1> QED  BY <1>1, <1>2, <1>3, <1>4, <1>5, AnswerPlain, FramedPlain, UnknownPlain

\* The subcommands of CLIENT answer plainly.
LEMMA ClientPlain ==
    ASSUME NEW args \in Args, NEW arg \in Text, arg = Repeated(args)
    PROVE  \A o \in client_subcommand(arg) : Plain(o, args)
<1>1. "ERR Unknown CLIENT subcommand" \in Byte /\ "ERR Unknown CLIENT subcommand" # "CR"
  BY DispatchAssumption
<1>2. PICK text : text = <<"ERR Unknown CLIENT subcommand">> \o arg  OBVIOUS
<1>3. Plain(Answer(Error(text)), args)  BY <1>1, <1>2, RepeatingPlain
<1>4. Bulk(<<>>) \in Framed2 /\ Ok \in Framed2  BY ReplyTexts, FramedMakes, FramedForms, OkReply
<1>5. \/ client_subcommand(arg) = {Answer(Ok)}
      \/ client_subcommand(arg) = {Answer(Bulk(<<>>))}
      \/ client_subcommand(arg) = {Answer(Error(text))}
  BY <1>2 DEF client_subcommand
<1> QED  BY <1>3, <1>4, <1>5, FramedPlain

\* The only outcome that authenticates is that of AUTH with the password.
LEMMA AuthOutcome ==
    ASSUME NEW args, NEW arg \in Text, NEW o \in auth(arg)
    PROVE  Plain(o, args) \/ /\ o = [Answer(Ok) EXCEPT !.auth = TRUE]
                             /\ Password # {} /\ arg = The(Password)
<1>1. {"ERR no password is set", "WRONGPASS"} \subseteq Byte  BY DispatchAssumption
<1>2. CASE Password = {}  BY <1>1, <1>2, FailsPlain DEF auth
<1>3. CASE Password # {} /\ ~constant_time_eq(The(Password), arg)
  BY <1>1, <1>3, FailsPlain DEF auth
<1>4. CASE Password # {} /\ constant_time_eq(The(Password), arg)
  <2>1. o = [Answer(Ok) EXCEPT !.auth = TRUE]  BY <1>4 DEF auth
  <2>2. PICK p : p = The(Password)  OBVIOUS
  <2>3. p \in Text  BY <1>4, <2>2, DispatchAssumption DEF The, Text
  <2>4. p = arg  BY <1>4, <2>2, <2>3, SeqEqual DEF constant_time_eq, Text
  <2> QED  BY <1>4, <2>1, <2>2, <2>4
<1> QED  BY <1>2, <1>3, <1>4

\* A command that needs no store answers plainly, or is AUTH with the password.
LEMMA PlainOutcomes ==
    ASSUME NEW args \in Args, args # <<>>, NEW rest, rest = Tail(args),
           ArityOk(Word(args[1]), Len(rest)), NEW o \in PlainReplies(args, rest)
    PROVE  Plain(o, args) \/ /\ o = [Answer(Ok) EXCEPT !.auth = TRUE] /\ Word(args[1]) = "AUTH"
                             /\ Password # {} /\ rest[1] = The(Password)
<1>1. PICK cmd : cmd = Word(args[1])  OBVIOUS
<1>2. rest \in Args /\ Len(rest) \in Nat /\ Len(args) = Len(rest) + 1
      /\ \A i \in 1..Len(rest) : rest[i] = args[i + 1]
  BY RestOf
<1>3. Len(rest) >= 1 => rest[1] \in Text /\ rest[1] = args[2] /\ Len(args) > 1
  <2> SUFFICES ASSUME Len(rest) >= 1 PROVE rest[1] \in Text /\ rest[1] = args[2] /\ Len(args) > 1
    OBVIOUS
  <2>1. 1 \in 1..Len(rest) /\ 1 + 1 = 2 /\ Len(args) > 1  BY <1>2
  <2> QED  BY <1>2, <2>1, ElementOfSeq DEF Args
<1>4. cmd \in {"AUTH", "SELECT", "CLIENT"} => Len(rest) >= 1  BY <1>1, <1>2 DEF ArityOk, Flush
<1>5. Ok \in Framed2 /\ Integer(0) \in Framed2 /\ Array(<<>>) \in Framed2
  <2>1. <<>> \in Seq(Framed1) /\ Len(<<>>) = 0 /\ 0 <= MAX_ARRAY_LEN  BY Limits
  <2>2. Array(<<>>) \in Framed2  BY <2>1, FramedMakes
  <2>3. 0 \in Numbers  BY SmallNumbers
  <2>4. Integer(0) \in Framed2  BY <2>3, FramedMakes
  <2> QED  BY <2>2, <2>4, OkReply, FramedForms
<1>6. CASE cmd \in Handshake
  <2>1. PlainReplies(args, rest) = HandshakeReplies(args, rest)
    BY <1>1, <1>6 DEF PlainReplies, Handshake
  <2> QED  BY <1>1, <1>6, <2>1, HandshakePlain
<1>7. CASE cmd = "AUTH"
  <2>1. PlainReplies(args, rest) = auth(rest[1])
    BY <1>1, <1>7 DEF PlainReplies, Handshake
  <2> QED  BY <1>1, <1>3, <1>4, <1>7, <2>1, AuthOutcome
<1>8. CASE cmd = "SELECT"
  <2>1. PlainReplies(args, rest) = {Answer(Ok)} \/ PlainReplies(args, rest) = Fails("ERR DB index")
    BY <1>1, <1>8 DEF PlainReplies, Handshake
  <2>2. "ERR DB index" \in Byte  BY DispatchAssumption
  <2>3. \A x \in Fails("ERR DB index") : Plain(x, args)  BY <2>2, FailsPlain
  <2>4. Plain(Answer(Ok), args)  BY <1>5, FramedPlain
  <2> QED  BY <2>1, <2>3, <2>4
<1>9. CASE cmd = "CLIENT"
  <2>1. PlainReplies(args, rest) = client_subcommand(rest[1])
    BY <1>1, <1>9 DEF PlainReplies, Handshake
  <2>2. rest[1] = Repeated(args) /\ rest[1] \in Text  BY <1>1, <1>3, <1>4, <1>9 DEF Repeated
  <2> QED  BY <2>1, <2>2, ClientPlain
<1>10. CASE cmd \in {"COMMAND", "QUIT"}
  <2>1. PlainReplies(args, rest) \in {{Answer(Ok)}, {Answer(Integer(0))}, {Answer(Array(<<>>))}}
    BY <1>1, <1>10 DEF PlainReplies, Handshake
  <2> QED  BY <1>5, <2>1, FramedPlain
<1>11. CASE cmd \notin Handshake \cup {"AUTH", "SELECT", "CLIENT", "COMMAND", "QUIT"}
  <2>1. PlainReplies(args, rest) = UnknownCommand(args[1])
    BY <1>1, <1>11 DEF PlainReplies
  <2> QED  BY <1>1, <1>11, <2>1, UnknownPlain
<1> QED  BY <1>6, <1>7, <1>8, <1>9, <1>10, <1>11

\* Every reply of the store is sound.
LEMMA StoreReplyTypes ==
    ASSUME NEW args \in Args, args # <<>>, NEW rest, rest = Tail(args), NEW cmd \in T0 \cup T1 \cup T2
    PROVE  StoreReplies(cmd, rest) \subseteq Sound(args)
<1>1. /\ rest \in Args /\ Len(rest) \in Nat /\ (Fits(args) => Len(rest) <= MAX_ARRAY_LEN)
      /\ ~Fits(args) => Sound(args) = Replies2
  <2>1. rest \in Args /\ Len(rest) \in Nat /\ Len(args) = Len(rest) + 1  BY RestOf
  <2>2. Fits(args) => Len(rest) <= MAX_ARRAY_LEN  BY <2>1, Limits DEF Fits
  <2> QED  BY <2>1, <2>2 DEF Sound
<1>2. \A x \in Values : Bulk(x) \in FramedFlat
  BY DispatchAssumption, FramedMakes DEF Payloads, Text
<1>3. ValueOrNil \subseteq FramedFlat  BY <1>2, FramedMakes DEF ValueOrNil
<1>4. FramedFlat \subseteq Sound(args) /\ Framed2 \subseteq Sound(args)  BY FramedForms, SoundReplies
<1>5. Count(1) \subseteq FramedFlat /\ Count(2) \subseteq FramedFlat
  BY SmallNumbers, FramedMakes DEF Count
<1>6. Count(Len(rest)) \subseteq Sound(args)
  <2>1. CASE Fits(args)
    <3>1. \A n \in 0..Len(rest) : n \in 0..MAX_ARRAY_LEN  BY <1>1, <2>1, Limits
    <3> QED  BY <1>4, <3>1, SmallNumbers, FramedMakes DEF Count
  <2>2. CASE ~Fits(args)
    <3>1. Count(Len(rest)) \subseteq Replies2  BY ReplyForms DEF Count
    <3> QED  BY <1>1, <2>2, <3>1
  <2> QED  BY <2>1, <2>2
<1>7. {Ok, Nil} \subseteq FramedFlat  BY OkReply, FramedMakes
<1>8. Array(<<>>) \in Framed2
      /\ \A r \in FramedFlat : Array(<<r>>) \in Framed1 /\ Array(<<r>>) \in Framed2
  <2>1. <<>> \in Seq(FramedFlat) /\ Len(<<>>) <= MAX_ARRAY_LEN  BY Limits
  <2>2. ASSUME NEW r \in FramedFlat PROVE <<r>> \in Seq(FramedFlat) /\ Len(<<r>>) <= MAX_ARRAY_LEN
    BY LeastLimits, Limits
  <2> QED  BY <2>1, <2>2, FramedMakes, FramedForms
<1>9. CASE cmd \in T0
  <2>1. StoreReplies(cmd, rest) = T0Replies(cmd, rest)  BY <1>9 DEF StoreReplies, T0, T1, T2, Flush
  <2>2. CASE cmd \in {"GET", "SET", "DEL", "EXISTS", "EXPIRE", "MSET"}
    <3>1. T0Replies(cmd, rest) \in {ValueOrNil, {Ok, Nil}, {Ok}, Count(Len(rest)), Count(1)}
      BY <2>2 DEF T0Replies
    <3> QED  BY <1>3, <1>4, <1>5, <1>6, <1>7, <2>1, <3>1
  <2>3. CASE cmd \in {"TTL", "PTTL"}
    <3>1. T0Replies(cmd, rest) = {Integer(-2), Integer(-1), Integer(5)}  BY <2>3 DEF T0Replies
    <3>2. 5 \in Numbers  BY SmallNumbers
    <3>3. Integer(-2) \in FramedFlat /\ Integer(-1) \in FramedFlat /\ Integer(5) \in FramedFlat
      BY <3>2, SmallNumbers, FramedMakes
    <3> QED  BY <1>4, <2>1, <3>1, <3>3
  <2>4. CASE cmd \in {"INCR", "DECR", "INCRBY", "DECRBY"}
    <3>1. T0Replies(cmd, rest) =
            {Integer(12), Error(<<"ERR not an integer">>), Error(<<"ERR would overflow">>)}
      BY <2>4 DEF T0Replies
    <3>2. <<"ERR not an integer">> \in Lines /\ <<"ERR would overflow">> \in Lines  BY ReplyTexts
    <3>3. Error(<<"ERR not an integer">>) \in FramedFlat
          /\ Error(<<"ERR would overflow">>) \in FramedFlat
      BY <3>2, FramedMakes, Zenon
    <3>4. 12 \in Numbers  BY SmallNumbers
    <3>5. Integer(12) \in FramedFlat  BY <3>4, FramedMakes
    <3> QED  BY <1>4, <2>1, <3>1, <3>3, <3>5
  <2>5. CASE cmd = "MGET"
    <3>1. T0Replies(cmd, rest) = {Array(x) : x \in [1..Len(rest) -> ValueOrNil]}
      BY <2>5 DEF T0Replies
    <3>2. ASSUME NEW x \in [1..Len(rest) -> ValueOrNil] PROVE Array(x) \in Sound(args)
      <4>1. x = [i \in 1..Len(rest) |-> x[i]] /\ \A i \in 1..Len(rest) : x[i] \in FramedFlat
        BY <1>3
      <4>2. x \in Seq(FramedFlat) /\ Len(x) = Len(rest)  BY <1>1, <4>1, IsASeq
      <4>3. CASE Fits(args)
        <5>1. Array(x) \in Framed1  BY <1>1, <4>2, <4>3, FramedMakes
        <5> QED  BY <1>4, <5>1, FramedForms
      <4>4. CASE ~Fits(args)
        <5>1. x \in Seq(FlatReplies)  BY <4>2, FramedForms, SeqSubset
        <5>2. Array(x) \in Replies2  BY <5>1, ReplyForms
        <5> QED  BY <1>1, <4>4, <5>2
      <4> QED  BY <4>3, <4>4
    <3> QED  BY <2>1, <3>1, <3>2
  <2> QED  BY <1>9, <2>2, <2>3, <2>4, <2>5 DEF T0
<1>10. CASE cmd \in T1
  <2>1. StoreReplies(cmd, rest) = T1Replies(cmd)  BY <1>10 DEF StoreReplies, T0, T1, T2, Flush
  <2>2. CASE cmd \in {"DBSIZE"} \cup Flush
    <3>1. T1Replies(cmd) = {Ok} \/ T1Replies(cmd) = Count(2)
      BY <2>2 DEF T1Replies, Flush
    <3> QED  BY <1>4, <1>5, <1>7, <2>1, <3>1
  <2>3. CASE cmd = "INFO"
    <3>1. T1Replies(cmd) = {Bulk(<<"# Server", "CR", "LF", "used_memory", "CR", "LF">>)}
      BY <2>3 DEF T1Replies, Flush
    <3>2. <<"# Server", "CR", "LF", "used_memory", "CR", "LF">> \in Payloads  BY ReplyTexts
    <3>3. Bulk(<<"# Server", "CR", "LF", "used_memory", "CR", "LF">>) \in Framed2
      BY <3>2, FramedMakes, Zenon
    <3> QED  BY <1>4, <2>1, <3>1, <3>3
  <2>4. CASE cmd = "SCAN"
    <3>1. T1Replies(cmd) = {Array(<<Bulk(<<"0">>), Array(<<Bulk(x)>>)>>) : x \in Values}
      BY <2>4 DEF T1Replies, Flush
    <3>2. Bulk(<<"0">>) \in Framed1
      <4>1. <<"0">> \in Payloads  BY ReplyTexts
      <4> QED  BY <4>1, FramedMakes
    <3>3. ASSUME NEW x \in Values PROVE Array(<<Bulk(<<"0">>), Array(<<Bulk(x)>>)>>) \in Framed2
      <4>1. PICK a \in Framed1 : a = Array(<<Bulk(x)>>)  BY <1>2, <1>8
      <4>2. PICK b \in Framed1 : b = Bulk(<<"0">>)  BY <3>2
      <4>3. PICK p : p = <<b, a>>  OBVIOUS
      <4>4. p \in Seq(Framed1) /\ Len(p) = 2  BY <4>3
      <4>5. Len(p) <= MAX_ARRAY_LEN  BY <4>4, LeastLimits, Limits
      <4>6. Array(p) \in Framed2  BY <4>4, <4>5, FramedMakes
      <4> QED  BY <4>1, <4>2, <4>3, <4>6
    <3> QED  BY <1>4, <2>1, <3>1, <3>3
  <2> QED  BY <1>10, <2>2, <2>3, <2>4 DEF T1
<1>11. CASE cmd \in T2
  <2>1. StoreReplies(cmd, rest) = T2Replies(cmd)  BY <1>11 DEF StoreReplies, T0, T1, T2, Flush
  <2>2. CASE cmd \in {"SETEX", "SETNX", "PERSIST", "GETDEL", "GETEX", "RANDOMKEY"}
    <3>1. T2Replies(cmd) \in {{Ok}, ValueOrNil, Count(1)}  BY <2>2 DEF T2Replies
    <3> QED  BY <1>3, <1>4, <1>5, <1>7, <2>1, <3>1
  <2>3. CASE cmd = "TYPE"
    <3>1. T2Replies(cmd) = {Simple(<<"string">>), Simple(<<"none">>)}  BY <2>3 DEF T2Replies
    <3>2. <<"string">> \in Lines /\ <<"none">> \in Lines  BY ReplyTexts
    <3> QED  BY <1>4, <2>1, <3>1, <3>2, FramedMakes
  <2>4. CASE cmd = "KEYS"
    <3>1. T2Replies(cmd) = {Array(<<>>)} \cup {Array(<<Bulk(x)>>) : x \in Values}
      BY <2>4 DEF T2Replies
    <3> QED  BY <1>2, <1>4, <1>8, <2>1, <3>1
  <2> QED  BY <1>11, <2>2, <2>3, <2>4 DEF T2
<1> QED  BY <1>9, <1>10, <1>11

\* Without authentication no command calls the store, and what authenticates is
\* AUTH with the password.
LEMMA DispatchOutcome ==
    ASSUME NEW args \in Args, args # <<>>, NEW a \in BOOLEAN, NEW o \in dispatch(args, a)
    PROVE  /\ o.reply \in Sound(args) /\ o.reply \in Replies2 /\ o.auth \in BOOLEAN
           /\ Password # {} /\ ~a => o.call = "none"
           /\ o.auth => Password # {} /\ args = <<<<"AUTH">>, The(Password)>>
<1>1. PICK cmd : cmd = Word(args[1])  OBVIOUS
<1>2. PICK rest : rest = Tail(args)  OBVIOUS
<1>3. rest \in Args /\ Len(args) \in Nat /\ Len(rest) \in Nat /\ Len(args) = Len(rest) + 1
      /\ \A i \in 1..Len(rest) : rest[i] = args[i + 1]
  BY <1>2, RestOf
<1>4. PICK error : error = ArgumentError(cmd, rest)  OBVIOUS
<1> DEFINE Gated == Password # {} /\ ~a /\ cmd \notin {"AUTH", "HELLO", "QUIT"}
<1>5. \A x : Plain(x, args) => x.reply \in Sound(args) /\ x.reply \in Replies2
                              /\ x.auth \in BOOLEAN /\ x.call = "none" /\ ~x.auth
  BY SoundReplies DEF Plain
<1>6. CASE Gated
  <2>1. dispatch(args, a) = Fails("NOAUTH")  BY <1>1, <1>6 DEF dispatch
  <2>2. "NOAUTH" \in Byte  BY DispatchAssumption
  <2>3. Plain(o, args)  BY <2>1, <2>2, FailsPlain
  <2> QED  BY <1>5, <2>3
<1>7. CASE ~Gated /\ ~ArityOk(cmd, Len(rest))
  <2>1. dispatch(args, a) = Fails("ERR wrong number of arguments")  BY <1>1, <1>2, <1>7 DEF dispatch
  <2>2. "ERR wrong number of arguments" \in Byte  BY DispatchAssumption
  <2>3. Plain(o, args)  BY <2>1, <2>2, FailsPlain
  <2> QED  BY <1>5, <2>3
<1>8. CASE ~Gated /\ ArityOk(cmd, Len(rest)) /\ cmd \notin T0 \cup T1 \cup T2
  <2>1. dispatch(args, a) = PlainReplies(args, rest)  BY <1>1, <1>2, <1>8 DEF dispatch
  <2>2. Plain(o, args) \/ /\ o = [Answer(Ok) EXCEPT !.auth = TRUE] /\ cmd = "AUTH"
                          /\ Password # {} /\ rest[1] = The(Password)
    <3>1. ArityOk(Word(args[1]), Len(rest)) /\ o \in PlainReplies(args, rest)  BY <1>1, <1>8, <2>1
    <3>2. Plain(o, args) \/ /\ o = [Answer(Ok) EXCEPT !.auth = TRUE] /\ Word(args[1]) = "AUTH"
                            /\ Password # {} /\ rest[1] = The(Password)
      BY <1>2, <3>1, PlainOutcomes, Zenon
    <3> QED  BY <1>1, <3>2
  <2>3. CASE o = [Answer(Ok) EXCEPT !.auth = TRUE] /\ cmd = "AUTH"
             /\ Password # {} /\ rest[1] = The(Password)
    <3>1. o.reply \in Sound(args) /\ o.reply \in Replies2 /\ o.auth \in BOOLEAN /\ o.call = "none"
      <4>1. o = [reply |-> Ok, call |-> "none", auth |-> TRUE]  BY <2>3 DEF Answer
      <4> QED  BY <4>1, OkReply, FramedForms, SoundReplies
    <3>2. Len(rest) = 1  BY <1>8, <2>3 DEF ArityOk, Flush
    <3>3. Len(args) = 2 /\ args[1] \in Text /\ args[2] = The(Password)
      <4>1. Len(args) = 2 /\ 1 \in 1..Len(rest) /\ 1 \in 1..Len(args)
        <5>1. Len(args) \in Int /\ Len(rest) \in Int  BY <1>3 DEF Args
        <5>2. Len(args) = Len(rest) + 1  BY <1>3, <5>1
        <5> QED  BY <3>2, <5>1, <5>2
      <4>2. args[2] = rest[1]  BY <1>3, <4>1
      <4> QED  BY <2>3, <4>1, <4>2, ElementOfSeq DEF Args
    <3>4. args[1] = <<"AUTH">>
      <4>1. Len(args[1]) = 1 /\ args[1][1] = "AUTH"  BY <1>1, <2>3 DEF Word
      <4> QED  BY <3>3, <4>1 DEF Text
    <3>5. args = <<args[1], args[2]>>  BY <3>3 DEF Args
    <3> QED  BY <2>3, <3>1, <3>3, <3>4, <3>5
  <2> QED  BY <1>5, <2>2, <2>3
<1>9. CASE ~Gated /\ ArityOk(cmd, Len(rest)) /\ cmd \in T0 \cup T1 \cup T2
  <2>1. cmd \notin {"AUTH", "HELLO", "QUIT"}  BY <1>9 DEF T0, T1, T2, Flush
  <2>2. ~(Password # {} /\ ~a)  BY <1>9, <2>1
  <2>3. \/ dispatch(args, a) = Called(cmd, StoreReplies(cmd, rest))
        \/ dispatch(args, a) = {} \/ dispatch(args, a) = Fails("ERR")
    BY <1>1, <1>2, <1>4, <1>9, <2>1 DEF dispatch
  <2>4. CASE dispatch(args, a) = Called(cmd, StoreReplies(cmd, rest))
    <3>1. PICK r \in StoreReplies(cmd, rest) : o = [reply |-> r, call |-> cmd, auth |-> FALSE]
      BY <2>4 DEF Called
    <3>2. r \in Sound(args) /\ r \in Replies2  BY <1>2, <1>9, <3>1, StoreReplyTypes, SoundReplies
    <3> QED  BY <2>2, <3>1, <3>2
  <2>5. CASE dispatch(args, a) = Fails("ERR")
    <3>1. "ERR" \in Byte  BY DispatchAssumption
    <3>2. Plain(o, args)  BY <2>5, <3>1, FailsPlain
    <3> QED  BY <1>5, <3>2
  <2> QED  BY <2>3, <2>4, <2>5
<1> QED  BY <1>6, <1>7, <1>8, <1>9

-----------------------------------------------------------------------------
(***************************************************************************)
(* The session.                                                            *)
(***************************************************************************)
SessionType ==
    /\ read_buf \in Text /\ input \in Text /\ output \in Text /\ client_buf \in Text
    /\ executed \in Seq(Args) /\ authenticated \in BOOLEAN

AuthCommand == <<<<"AUTH">>, The(Password)>>

\* With a password, a connection that has authenticated has executed AUTH with it.
AuthBehind ==
    Password # {} =>
        /\ authenticated => \E j \in 1..Len(executed) : executed[j] = AuthCommand
        /\ \A i \in calls : /\ i \in 1..Len(executed)
                            /\ \E j \in 1..(i - 1) : executed[j] = AuthCommand

SessionInv == SessionType /\ AuthBehind

\* A new session satisfies the session invariant.
LEMMA SessionInit == Init => SessionInv
<1> SUFFICES ASSUME Init PROVE SessionInv  OBVIOUS
<1>1. <<>> \in Text /\ <<>> \in Seq(Args)  BY DEF Text
<1>2. input \in Text
  <2>1. CASE sent \in Conversations
             /\ input = FlattenSeq([i \in 1..Len(sent) |-> encode_command(sent[i])])
    <3>1. sent \in Seq(Args)  BY <2>1, SessionAssumption DEF Args, Text
    <3>2. Len(sent) \in Nat /\ \A i \in 1..Len(sent) : encode_command(sent[i]) \in Text
      BY <3>1, ElementOfSeq, EncodeCommandType
    <3>3. [i \in 1..Len(sent) |-> encode_command(sent[i])] \in Seq(Text)  BY <3>2
    <3> QED  BY <2>1, <3>3, FlattenType
  <2>2. CASE input \in Openings  BY <2>2, SessionAssumption DEF Text
  <2> QED  BY <2>1, <2>2 DEF Init
<1> QED  BY <1>1, <1>2 DEF Init, SessionInv, SessionType, AuthBehind

\* What the server executes has been parsed from what it has read.
LEMMA ParsedType ==
    ASSUME read_buf \in Text, Parsed.out = "Complete"
    PROVE  Parsed.value \in Args /\ Consumed \in Text
<1>1. IsOutcome(Parsed, Args)  BY ParseCommandType DEF Parsed
<1>2. Parsed.value \in Args /\ Parsed.next \in Pos  BY <1>1, CompleteOutcome
<1>3. Len(read_buf) \in Int /\ Len(read_buf) <= Len(read_buf)  BY DEF Text
<1> QED  BY <1>2, <1>3, Piece DEF Consumed

\* The first byte of a text and the rest.
LEMMA TextHeadTail ==
    ASSUME NEW s \in Text, s # <<>>
    PROVE  Head(s) \in Byte /\ Tail(s) \in Text
  BY HeadTailProperties DEF Text

\* A text with one more byte.
LEMMA TextAppend == ASSUME NEW s \in Text, NEW b \in Byte PROVE Append(s, b) \in Text  BY DEF Text

\* Every step of a session keeps the session invariant.
LEMMA SessionStep == SessionInv /\ [Next]_vars => SessionInv'
<1> SUFFICES ASSUME SessionInv, [Next]_vars PROVE SessionInv'  OBVIOUS
<1> USE DEF SessionInv
<1>0. SessionType /\ AuthBehind  OBVIOUS
<1>1. CASE Arrive
  <2>1. read_buf' \in Text /\ input' \in Text
    BY <1>0, <1>1, TextHeadTail, TextAppend DEF Arrive, SessionType
  <2> QED  BY <1>0, <1>1, <2>1 DEF Arrive, SessionType, AuthBehind, clientVars
<1>2. ASSUME NEW b \in Keyboard, Type(b) PROVE SessionInv'
  <2>1. read_buf' \in Text  BY <1>0, <1>2, TextAppend, SessionAssumption DEF Type, SessionType
  <2> QED  BY <1>0, <1>2, <2>1 DEF Type, SessionType, AuthBehind
<1>3. CASE Execute
  <2>1. PICK args : args = Parsed.value  OBVIOUS
  <2>2. args \in Args /\ args # <<>> /\ read_buf' \in Text
    BY <1>0, <1>3, <2>1, ParsedType DEF Execute, SessionType
  <2>3. PICK o \in dispatch(args, authenticated) :
          /\ output' = output \o write_to(o.reply)
          /\ calls' = IF o.call = "none" THEN calls ELSE calls \cup {Len(executed) + 1}
          /\ authenticated' = (authenticated \/ o.auth)
    BY <1>3, <2>1 DEF Execute
  <2>4. authenticated \in BOOLEAN /\ executed \in Seq(Args) /\ input' = input
        /\ client_buf' = client_buf /\ executed' = Append(executed, args)
    BY <1>0, <1>3, <2>1 DEF Execute, SessionType, clientVars
  <2>5. /\ o.reply \in Replies2 /\ o.auth \in BOOLEAN
        /\ Password # {} /\ ~authenticated => o.call = "none"
        /\ o.auth => Password # {} /\ args = AuthCommand
    BY <2>2, <2>3, <2>4, DispatchOutcome DEF AuthCommand
  <2>6. output' \in Text
    <3>1. write_to(o.reply) \in Text  BY <2>5, WriteToType
    <3> QED  BY <1>0, <2>3, <3>1, TextConcat DEF SessionType
  <2>7. /\ executed' \in Seq(Args) /\ Len(executed') = Len(executed) + 1 /\ Len(executed) \in Nat
        /\ executed'[Len(executed) + 1] = args
        /\ \A i \in 1..Len(executed) : executed'[i] = executed[i]
    BY <2>2, <2>4, AppendProperties
  <2>8. authenticated' \in BOOLEAN  BY <2>3, <2>4, <2>5
  <2>9. SessionType'  BY <1>0, <2>2, <2>4, <2>6, <2>7, <2>8 DEF SessionType
  <2>10. AuthBehind'
    <3> SUFFICES ASSUME Password # {}
                 PROVE  /\ authenticated' => \E j \in 1..Len(executed') : executed'[j] = AuthCommand
                        /\ \A i \in calls' : /\ i \in 1..Len(executed')
                                             /\ \E j \in 1..(i - 1) : executed'[j] = AuthCommand
      BY DEF AuthBehind, AuthCommand
    <3>1. \A i \in 1..Len(executed) : i \in 1..Len(executed')  BY <2>7
    <3>2. authenticated => \E j \in 1..Len(executed) : executed'[j] = AuthCommand
      BY <1>0, <2>7 DEF AuthBehind
    <3>3. o.auth => executed'[Len(executed) + 1] = AuthCommand /\ Len(executed) + 1 \in 1..Len(executed')
      BY <2>5, <2>7
    <3>4. authenticated' => \E j \in 1..Len(executed') : executed'[j] = AuthCommand
      BY <2>3, <3>1, <3>2, <3>3
    <3>5. ASSUME NEW i \in calls' PROVE /\ i \in 1..Len(executed')
                                       /\ \E j \in 1..(i - 1) : executed'[j] = AuthCommand
      <4>1. CASE i \in calls
        <5>1. i \in 1..Len(executed)  BY <1>0, <4>1 DEF AuthBehind
        <5>2. PICK j \in 1..(i - 1) : executed[j] = AuthCommand  BY <1>0, <4>1 DEF AuthBehind
        <5>3. j \in 1..Len(executed)  BY <2>7, <5>1
        <5> QED  BY <2>7, <3>1, <5>1, <5>2, <5>3
      <4>2. CASE i \notin calls
        <5>1. i = Len(executed) + 1 /\ o.call # "none"  BY <2>3, <4>2
        <5>2. authenticated  BY <2>5, <5>1
        <5>3. i - 1 = Len(executed) /\ i \in 1..Len(executed')  BY <2>7, <5>1
        <5> QED  BY <3>2, <5>2, <5>3
      <4> QED  BY <4>1, <4>2
    <3> QED  BY <3>4, <3>5
  <2> QED  BY <2>9, <2>10
<1>4. CASE Skip
  <2>1. read_buf' \in Text  BY <1>0, <1>4, ParsedType DEF Skip, SessionType
  <2> QED  BY <1>0, <1>4, <2>1 DEF Skip, SessionType, AuthBehind, clientVars
<1>5. CASE Panic  BY <1>0, <1>5 DEF Panic, SessionType, AuthBehind, clientVars
<1>6. CASE Reject
  <2>1. PICK r : r = Error(<<"ERR Protocol error">>)  OBVIOUS
  <2>2. r \in Replies2  BY <2>1, ReplyTexts, FramedMakes, FramedForms, Zenon
  <2>3. write_to(r) \in Text  BY <2>2, WriteToType
  <2>4. output' = output \o write_to(r)  BY <1>6, <2>1 DEF Reject
  <2>5. output' \in Text  BY <1>0, <2>3, <2>4, TextConcat DEF SessionType
  <2> QED  BY <1>0, <1>6, <2>5 DEF Reject, SessionType, AuthBehind, clientVars
<1>7. CASE Return
  <2>1. client_buf' \in Text /\ output' \in Text
    BY <1>0, <1>7, TextHeadTail, TextAppend DEF Return, SessionType
  <2> QED  BY <1>0, <1>7, <2>1 DEF Return, SessionType, AuthBehind, serverVars
<1>8. CASE Take
  <2>1. client_buf \in Text  BY <1>0 DEF SessionType
  <2>2. Grown(client_buf, client_buf)  BY <2>1, GrownSelf DEF Text
  <2>3. PICK V : IsOutcome(parse_reply(client_buf), V)  BY <2>1, <2>2, ParseReplySettles
  <2>4. parse_reply(client_buf).next \in Pos  BY <1>8, <2>3, CompleteOutcome DEF Take
  <2>5. Len(client_buf) \in Int /\ Len(client_buf) <= Len(client_buf)  BY <2>1 DEF Text
  <2>6. client_buf' \in Text  BY <1>8, <2>1, <2>4, <2>5, Piece DEF Take
  <2> QED  BY <1>0, <1>8, <2>6 DEF Take, SessionType, AuthBehind, serverVars
<1>9. CASE UNCHANGED vars
  BY <1>0, <1>9 DEF SessionType, AuthBehind, vars, serverVars, clientVars
<1> QED  BY <1>1, <1>2, <1>3, <1>4, <1>5, <1>6, <1>7, <1>8, <1>9 DEF Next

\* The session invariant holds in every reachable state: buffers hold bytes, and
\* behind an authenticated connection and behind every call of the store is an AUTH
\* command with the password (dispatch, service_connection).
THEOREM SessionInvariant == Spec => []SessionInv
  BY SessionInit, SessionStep, PTL DEF Spec

\* With a password set, no command reaches the store before an AUTH with that
\* password has been executed on the connection, whatever the client sends and
\* however it is cut (the authenticated flag, set by AUTH and tested by dispatch).
THEOREM NothingBeforeAuthHolds == Spec => []NothingBeforeAuth
<1>1. SessionInv => NothingBeforeAuth
  BY DEF SessionInv, AuthBehind, AuthCommand, NothingBeforeAuth
<1> QED  BY <1>1, SessionInvariant, PTL

\* A buffer that extends another has grown from it.
LEMMA ExtendsGrown ==
    ASSUME NEW s \in Text, NEW t \in Text, Extends(s, t) PROVE Grown(s, t)
<1>1. Len(s) \in Nat /\ Len(t) \in Nat /\ Len(s) <= Len(t)  BY DEF Extends, Text
<1>2. PICK n \in Nat : n = Len(s)  BY <1>1
<1>3. SubSeq(s, 1, n) = SubSeq(t, 1, n)  BY <1>2 DEF Extends, IsPrefix
<1>4. ASSUME NEW u \in Text, n <= Len(u) PROVE \A i \in 1..n : SubSeq(u, 1, n)[i] = u[i]
  <2>1. 1 \in Int /\ n \in Int /\ n - 1 + 1 = n /\ \A i \in 1..n : u[i] \in Byte /\ 1 + i - 1 = i
    <3>1. \A i \in 1..n : i \in 1..Len(u)  BY <1>4 DEF Text
    <3> QED  BY <3>1, ElementOfSeq DEF Text
  <2>2. \A i \in 1..(n - 1 + 1) : SubSeq(u, 1, n)[i] = u[1 + i - 1]  BY <2>1, SubSeqProperties
  <2> QED  BY <2>1, <2>2
<1>5. \A i \in 1..n : SubSeq(s, 1, n)[i] = s[i] /\ SubSeq(t, 1, n)[i] = t[i]
  BY <1>1, <1>2, <1>4
<1>6. \A i \in 1..n : t[i] = s[i]  BY <1>3, <1>5
<1> QED  BY <1>1, <1>2, <1>6 DEF Grown

\* What parse_command and parse_reply have found is never taken back: a command or
\* reply that was complete, and an error that was found, stay what they are when
\* more bytes arrive; only a line that is too long may turn out complete, when its
\* end arrives with the bytes that made it too long (read_line).
THEOREM OutcomeStableHolds == Spec => OutcomeStable
<1> DEFINE Stable ==
      /\ Extends(read_buf, read_buf') => Settles(parse_command(read_buf), parse_command(read_buf'))
      /\ Extends(client_buf, client_buf') => Settles(parse_reply(client_buf), parse_reply(client_buf'))
<1>1. SessionInv /\ SessionInv' => Stable
  <2> SUFFICES ASSUME SessionInv, SessionInv' PROVE Stable  OBVIOUS
  <2>1. read_buf \in Text /\ read_buf' \in Text /\ client_buf \in Text /\ client_buf' \in Text
    BY DEF SessionInv, SessionType
  <2>2. ASSUME NEW s \in Text, NEW t \in Text, Extends(s, t)
        PROVE  Settles(parse_command(s), parse_command(t)) /\ Settles(parse_reply(s), parse_reply(t))
    BY <2>2, ExtendsGrown, ParseCommandSettles, ParseReplySettles
  <2> QED  BY <2>1, <2>2
<1>2. SessionInv /\ SessionInv' /\ [Next]_vars => [Stable]_vars  BY <1>1
<1> QED  BY <1>2, SessionInvariant, PTL DEF Spec, OutcomeStable

-----------------------------------------------------------------------------
(***************************************************************************)
(* Commands are read as they are written.                                  *)
(***************************************************************************)
\* As far as buf goes, it has bytes from position from on.
Holds(buf, from, bytes) ==
    \A i \in 1..Len(bytes) : from + i - 1 <= Len(buf) => buf[from + i - 1] = bytes[i]

\* x is read from bytes at position from of buf, once buf has all of them.
Reads(o, x, from, bytes, buf) ==
    o = IF Len(buf) >= from + Len(bytes) - 1 THEN Done(x, from + Len(bytes)) ELSE Incomplete

\* A buffer that holds two texts one after the other holds each in its place.
LEMMA HoldsParts ==
    ASSUME NEW buf, NEW from \in Pos, NEW s \in Text, NEW t \in Text, Holds(buf, from, s \o t)
    PROVE  /\ Holds(buf, from, s) /\ Holds(buf, from + Len(s), t)
           /\ s \o t \in Text /\ Len(s \o t) = Len(s) + Len(t) /\ from + Len(s) \in Pos
<1>1. Len(s) \in Nat /\ Len(t) \in Nat /\ from \in Nat  BY DEF Text, Pos
<1>2. PICK u : u = s \o t  OBVIOUS
<1>3. u \in Text /\ Len(u) = Len(s) + Len(t)
      /\ (\A i \in 1..Len(s) : u[i] = s[i]) /\ \A i \in 1..Len(t) : u[Len(s) + i] = t[i]
  BY <1>2, ConcatProperties DEF Text
<1>4. Holds(buf, from, u)  BY <1>2
<1>5. \A i \in 1..Len(s) : i \in 1..Len(u)  BY <1>1, <1>3
<1>6. Holds(buf, from, s)  BY <1>3, <1>4, <1>5 DEF Holds
<1>7. ASSUME NEW i \in 1..Len(t), from + Len(s) + i - 1 <= Len(buf)
      PROVE  buf[from + Len(s) + i - 1] = t[i]
  <2>1. PICK j : j = Len(s) + i  OBVIOUS
  <2>2. j \in 1..Len(u) /\ from + j - 1 = from + Len(s) + i - 1  BY <1>1, <1>3, <2>1
  <2>3. buf[from + j - 1] = u[j]  BY <1>4, <1>7, <2>2 DEF Holds
  <2> QED  BY <1>3, <2>1, <2>2, <2>3
<1>8. Holds(buf, from + Len(s), t)  BY <1>7 DEF Holds
<1>9. from + Len(s) \in Pos  BY <1>1 DEF Pos
<1> QED  BY <1>2, <1>3, <1>6, <1>8, <1>9

\* The line end, byte by byte.
LEMMA CrlfText == CRLF \in Text /\ Len(CRLF) = 2 /\ CRLF[1] = "CR" /\ CRLF[2] = "LF"
<1>1. CRLF \in Text  BY Framing
<1> QED  BY <1>1 DEF CRLF

\* A piece of buf that holds bytes is bytes.
LEMMA HeldPiece ==
    ASSUME NEW buf \in Text, NEW from \in Pos, NEW bytes \in Text, Holds(buf, from, bytes),
           NEW to \in Int, to = from + Len(bytes) - 1, to <= Len(buf)
    PROVE  SubSeq(buf, from, to) = bytes
<1>1. from \in Nat /\ from # 0 /\ Len(buf) \in Nat /\ Len(bytes) \in Nat  BY DEF Text, Pos
<1>2. PICK s : s = SubSeq(buf, from, to)  OBVIOUS
<1>3. \A i \in from..to : buf[i] \in Byte
  <2>1. \A i \in from..to : i \in 1..Len(buf)  BY <1>1
  <2> QED  BY <2>1, ElementOfSeq DEF Text
<1>4. s \in Seq(Byte) /\ Len(s) = (IF from <= to THEN to - from + 1 ELSE 0)
      /\ \A i \in 1..(to - from + 1) : s[i] = buf[from + i - 1]
  BY <1>1, <1>2, <1>3, SubSeqProperties
<1>5. Len(s) = Len(bytes) /\ to - from + 1 = Len(bytes)  BY <1>1, <1>4
<1>6. \A i \in 1..Len(bytes) : from + i - 1 <= Len(buf)  BY <1>1
<1>7. \A i \in 1..Len(s) : s[i] = bytes[i]  BY <1>4, <1>5, <1>6 DEF Holds
<1> QED  BY <1>2, <1>4, <1>5, <1>7, SeqEqual DEF Text

\* text and then a CRLF are read as the line text, if text has no CRLF and a line
\* may be that long.
LEMMA LineRead ==
    ASSUME NEW buf \in Text, NEW from \in Pos, NEW start \in Int, NEW text \in Text,
           Holds(buf, from, text), Holds(buf, from + Len(text), CRLF),
           \A i \in 1..(Len(text) - 1) : ~Ends(text, i),
           from + Len(text) - start + 1 <= MAX_INLINE_LEN
    PROVE  read_line(buf, from, start) = IF Len(buf) >= from + Len(text) + 1
                                         THEN Done(text, from + Len(text) + 2) ELSE Incomplete
<1>1. PICK len \in Nat : len = Len(text)  BY DEF Text
<1>2. from \in Nat /\ from # 0 /\ Len(buf) \in Nat  BY DEF Pos, Text
<1>3. ASSUME NEW i \in from..(from + len - 1), i + 1 <= Len(buf) PROVE ~Ends(buf, i)
  <2>1. PICK j \in 1..len : j = i - from + 1
    <3>1. i - from + 1 \in 1..len  BY <1>1, <1>2
    <3> QED  BY <3>1
  <2>2. i = from + j - 1 /\ i <= Len(buf)  BY <1>2, <1>3, <2>1
  <2>3. buf[i] = text[j]  BY <1>1, <2>1, <2>2 DEF Holds
  <2>4. CASE j < len
    <3>1. j + 1 \in 1..len /\ i + 1 = from + (j + 1) - 1 /\ j \in 1..(len - 1)  BY <1>2, <2>1, <2>2, <2>4
    <3>2. buf[i + 1] = text[j + 1]  BY <1>1, <1>3, <3>1 DEF Holds
    <3> QED  BY <1>1, <2>3, <3>1, <3>2 DEF Ends
  <2>5. CASE j = len
    <3>1. i + 1 = from + len + 1 - 1 /\ 1 \in 1..2  BY <1>2, <2>2, <2>5
    <3>2. buf[i + 1] = CRLF[1]
      <4>1. Holds(buf, from + len, CRLF)  BY <1>1
      <4> QED  BY <1>3, <3>1, <4>1, CrlfText DEF Holds
    <3> QED  BY <3>2, CrlfText DEF Ends
  <2> QED  BY <2>4, <2>5
<1>4. \/ \E m \in from..(Len(buf) - 1) :
            /\ Ends(buf, m) /\ \A i \in from..(m - 1) : ~Ends(buf, i)
            /\ read_line(buf, from, start) = Done(SubSeq(buf, from, m - 1), m + 2)
      \/ /\ \A i \in from..(Len(buf) - 1) : ~Ends(buf, i)
         /\ read_line(buf, from, start) =
               IF Len(buf) - start + 1 > MAX_INLINE_LEN THEN TooLong ELSE Incomplete
  BY ReadLine
<1>5. CASE Len(buf) >= from + len + 1
  <2>1. Ends(buf, from + len)
    <3>1. PICK p \in Nat : p = from + len  BY <1>2
    <3>2. p + 1 - 1 = p /\ p + 2 - 1 = p + 1 /\ p <= Len(buf) /\ p + 1 <= Len(buf)  BY <1>2, <1>5, <3>1
    <3>3. Holds(buf, p, CRLF)  BY <1>1, <3>1
    <3>4. \A i \in 1..2 : p + i - 1 <= Len(buf) => buf[p + i - 1] = CRLF[i]
      BY <3>3, CrlfText DEF Holds
    <3>5. buf[p] = "CR" /\ buf[p + 1] = "LF"  BY <3>2, <3>4, CrlfText
    <3> QED  BY <3>1, <3>5 DEF Ends
  <2>2. from + len \in from..(Len(buf) - 1)  BY <1>2, <1>5
  <2>3. PICK m \in from..(Len(buf) - 1) :
            /\ Ends(buf, m) /\ \A i \in from..(m - 1) : ~Ends(buf, i)
            /\ read_line(buf, from, start) = Done(SubSeq(buf, from, m - 1), m + 2)
    BY <1>4, <2>1, <2>2
  <2>4. m = from + len
    <3>1. CASE m < from + len
      <4>1. m \in from..(from + len - 1) /\ m + 1 <= Len(buf)  BY <1>2, <3>1
      <4> QED  BY <1>3, <2>3, <4>1
    <3>2. CASE m > from + len
      <4>1. from + len \in from..(m - 1)  BY <1>2, <3>2
      <4> QED  BY <2>1, <2>3, <4>1
    <3> QED  BY <1>2, <3>1, <3>2
  <2>5. m - 1 = from + Len(text) - 1 /\ m - 1 <= Len(buf) /\ m - 1 \in Int  BY <1>1, <1>2, <2>4
  <2>6. SubSeq(buf, from, m - 1) = text  BY <2>5, HeldPiece
  <2> QED  BY <1>1, <1>5, <2>3, <2>4, <2>6
<1>6. CASE ~(Len(buf) >= from + len + 1)
  <2>1. \A i \in from..(Len(buf) - 1) : i \in from..(from + len - 1) /\ i + 1 <= Len(buf)
    BY <1>2, <1>6
  <2>2. \A i \in from..(Len(buf) - 1) : ~Ends(buf, i)  BY <1>3, <2>1
  <2>3. ~(Len(buf) - start + 1 > MAX_INLINE_LEN)  BY <1>1, <1>2, <1>6, Limits
  <2> QED  BY <1>1, <1>4, <1>6, <2>2, <2>3
<1> QED  BY <1>5, <1>6

\* A number in decimal is a line that is read whole.
LEMMA HeaderRead ==
    ASSUME NEW buf \in Text, NEW pos \in Pos, NEW n \in 0..MAX_BULK_LEN \cup 0..MAX_ARRAY_LEN,
           NEW start \in {pos, pos + 1}, NEW len, len = Len(decimal[n]),
           Holds(buf, pos + 1, decimal[n]), Holds(buf, pos + 1 + len, CRLF)
    PROVE  /\ n \in Nat /\ len \in Nat /\ parse_i64_strict(decimal[n]) = {n}
           /\ read_line(buf, pos + 1, start) = IF Len(buf) >= pos + len + 2
                                               THEN Done(decimal[n], pos + len + 3) ELSE Incomplete
<1>1. n \in Nat /\ n <= I64Max
  <2>1. MAX_BULK_LEN <= I64Max /\ MAX_ARRAY_LEN <= I64Max  BY LimitsAssumption
  <2> QED  BY <2>1, Limits
<1>2. PICK text : text = decimal[n]  OBVIOUS
<1>3. text \in Text /\ (\A i \in 1..Len(text) : text[i] \in Digits) /\ Len(text) \in Nat /\ len = Len(text)
  BY <1>1, <1>2, DecimalType DEF Text
<1>4. to_string(n) = text  BY <1>1, <1>2 DEF to_string
<1>5. len + 2 <= MAX_INLINE_LEN
  <2>1. Len(to_string(n)) + 2 <= MAX_INLINE_LEN  BY LimitsAssumption
  <2> QED  BY <1>3, <1>4, <2>1
<1>6. \A i \in 1..(Len(text) - 1) : ~Ends(text, i)
  <2>1. \A i \in 1..(Len(text) - 1) : i \in 1..Len(text)  BY <1>3
  <2> QED  BY <1>3, <2>1, DigitsPlain DEF Ends
<1>7. pos \in Nat /\ pos + 1 \in Pos /\ start \in Int /\ (pos + 1) + len - start + 1 <= MAX_INLINE_LEN
  BY <1>3, <1>5, Limits DEF Pos
<1>8. read_line(buf, pos + 1, start) = IF Len(buf) >= (pos + 1) + len + 1
                                       THEN Done(text, (pos + 1) + len + 2) ELSE Incomplete
  BY <1>2, <1>3, <1>6, <1>7, LineRead
<1>9. parse_i64_strict(text) = {n}
  <2>1. -(I64Max + 1) \in Int /\ I64Max \in Int /\ n \in (-(I64Max + 1))..I64Max  BY <1>1, Limits
  <2> QED  BY <1>1, <1>2, <2>1, ParseDecimal DEF parse_i64_strict
<1>10. (pos + 1) + len + 1 = pos + len + 2 /\ (pos + 1) + len + 2 = pos + len + 3  BY <1>3, <1>7
<1> QED  BY <1>1, <1>2, <1>3, <1>8, <1>9, <1>10

\* The payload of a bulk string is read whole.
LEMMA PayloadRead ==
    ASSUME NEW buf \in Text, NEW pos \in Pos, NEW data \in Text,
           Holds(buf, pos, data), Holds(buf, pos + Len(data), CRLF)
    PROVE  Payload(buf, pos, Len(data)) = IF Len(buf) >= pos + Len(data) + 1
                                          THEN Done(data, pos + Len(data) + 2) ELSE Incomplete
<1>1. PICK len \in Nat : len = Len(data)  BY DEF Text
<1>2. pos \in Nat /\ pos # 0 /\ Len(buf) \in Nat  BY DEF Pos, Text
<1>3. CASE ~(Len(buf) >= pos + len + 1)
  <2>1. pos + len + 1 > Len(buf) /\ ~(pos + len + 1 <= Len(buf))  BY <1>2, <1>3
  <2>2. Payload(buf, pos, len) = Incomplete  BY <2>1 DEF Payload
  <2> QED  BY <1>1, <1>3, <2>2
<1>4. CASE Len(buf) >= pos + len + 1
  <2>1. ~(pos + len + 1 > Len(buf)) /\ pos + len + 1 <= Len(buf)  BY <1>2, <1>4
  <2>2. SubSeq(buf, pos, pos + len - 1) = data
    <3>1. pos + len - 1 \in Int /\ pos + len - 1 <= Len(buf)  BY <1>2, <1>4
    <3> QED  BY <1>1, <3>1, HeldPiece
  <2>3. SubSeq(buf, pos + len, pos + len + 1) = CRLF
    <3>1. PICK p : p = pos + len  OBVIOUS
    <3>2. p \in Pos /\ p + 1 = p + 2 - 1 /\ p + 1 \in Int /\ p + 1 <= Len(buf)
      BY <1>2, <1>4, <3>1 DEF Pos
    <3>3. Holds(buf, p, CRLF) /\ CRLF \in Text /\ p + 1 = p + Len(CRLF) - 1  BY <1>1, <3>1, <3>2, CrlfText
    <3>4. SubSeq(buf, p, p + 1) = CRLF  BY <3>2, <3>3, HeldPiece
    <3> QED  BY <3>1, <3>4
  <2>4. Payload(buf, pos, len) = Done(data, pos + len + 2)  BY <2>1, <2>2, <2>3 DEF Payload
  <2> QED  BY <1>1, <1>4, <2>4
<1> QED  BY <1>3, <1>4

\* What a buffer holds when it holds a bulk string.
LEMMA HoldsBulk ==
    ASSUME NEW buf, NEW pos \in Pos, NEW data \in Text, Holds(buf, pos, encode_bulk(data)),
           NEW len, len = Len(decimal[Len(data)])
    PROVE  /\ Holds(buf, pos, <<"$">>) /\ Holds(buf, pos + 1, decimal[Len(data)])
           /\ Holds(buf, pos + 1 + len, CRLF) /\ Holds(buf, pos + len + 3, data)
           /\ Holds(buf, pos + len + 3 + Len(data), CRLF)
           /\ len \in Nat /\ Len(encode_bulk(data)) = len + Len(data) + 5
<1>1. PICK s : s = decimal[Len(data)]  OBVIOUS
<1>2. s \in Text /\ len \in Nat /\ len = Len(s) /\ Len(data) \in Nat /\ pos \in Nat
  BY <1>1, DecimalType DEF Text, Pos
<1>3. to_string(Len(data)) = s  BY <1>1, <1>2 DEF to_string
<1>4. PICK sigil : sigil = <<"$">>  OBVIOUS
<1>5. sigil \in Text /\ Len(sigil) = 1  BY <1>4, Framing
<1>6. PICK b2 : b2 = sigil \o s  OBVIOUS
<1>7. PICK b3 : b3 = b2 \o CRLF  OBVIOUS
<1>8. PICK b4 : b4 = b3 \o data  OBVIOUS
<1>9. encode_bulk(data) = b4 \o CRLF  BY <1>3, <1>4, <1>6, <1>7, <1>8 DEF encode_bulk
<1>10. b2 \in Text /\ Len(b2) = 1 + len /\ b3 \in Text /\ Len(b3) = len + 3 /\ b4 \in Text
       /\ Len(b4) = len + 3 + Len(data) /\ Len(encode_bulk(data)) = len + Len(data) + 5
  <2>1. b2 \in Text /\ Len(b2) = Len(sigil) + Len(s)  BY <1>2, <1>5, <1>6, ConcatText
  <2>2. b3 \in Text /\ Len(b3) = Len(b2) + Len(CRLF)  BY <1>7, <2>1, CrlfText, ConcatText
  <2>3. b4 \in Text /\ Len(b4) = Len(b3) + Len(data)  BY <1>8, <2>2, ConcatText
  <2>4. Len(encode_bulk(data)) = Len(b4) + Len(CRLF)  BY <1>9, <2>3, CrlfText, ConcatText
  <2> QED  BY <1>2, <1>5, <2>1, <2>2, <2>3, <2>4, CrlfText
<1>11. Holds(buf, pos, b4) /\ Holds(buf, pos + Len(b4), CRLF)
  <2>1. Holds(buf, pos, b4 \o CRLF)  BY <1>9
  <2> QED  BY <1>10, <2>1, CrlfText, HoldsParts
<1>12. Holds(buf, pos, b3) /\ Holds(buf, pos + Len(b3), data)
  BY <1>8, <1>10, <1>11, HoldsParts
<1>13. Holds(buf, pos, b2) /\ Holds(buf, pos + Len(b2), CRLF)
  BY <1>7, <1>10, <1>12, CrlfText, HoldsParts
<1>14. Holds(buf, pos, sigil) /\ Holds(buf, pos + Len(sigil), s)
  BY <1>2, <1>5, <1>6, <1>13, HoldsParts
<1>15. /\ pos + Len(b4) = pos + len + 3 + Len(data) /\ pos + Len(b3) = pos + len + 3
       /\ pos + Len(b2) = pos + 1 + len /\ pos + Len(sigil) = pos + 1
  BY <1>2, <1>5, <1>10
<1> QED  BY <1>1, <1>2, <1>4, <1>10, <1>11, <1>12, <1>13, <1>14, <1>15

\* The byte that tells what comes.
LEMMA HoldsSigil ==
    ASSUME NEW buf \in Text, NEW pos \in Pos, NEW b, Holds(buf, pos, <<b>>), pos <= Len(buf)
    PROVE  buf[pos] = b
<1>1. PICK s : s = <<b>>  OBVIOUS
<1>2. Len(s) = 1 /\ s[1] = b /\ 1 \in 1..1 /\ pos + 1 - 1 = pos  BY <1>1 DEF Pos
<1>3. Holds(buf, pos, s)  BY <1>1
<1> QED  BY <1>2, <1>3 DEF Holds

\* A bulk string is read as it was written, or waited for.
LEMMA BulkRead ==
    ASSUME NEW buf \in Text, NEW pos \in Pos, NEW arg \in Text, Len(arg) <= MAX_BULK_LEN,
           Holds(buf, pos, encode_bulk(arg))
    PROVE  Reads(bulk_at(buf, pos), arg, pos, encode_bulk(arg), buf)
<1>1. PICK n \in Nat : n = Len(arg)  BY DEF Text
<1>2. PICK len : len = Len(decimal[n])  OBVIOUS
<1>3. /\ Holds(buf, pos, <<"$">>) /\ Holds(buf, pos + 1, decimal[n])
      /\ Holds(buf, pos + 1 + len, CRLF) /\ Holds(buf, pos + len + 3, arg)
      /\ Holds(buf, pos + len + 3 + n, CRLF)
      /\ len \in Nat /\ Len(encode_bulk(arg)) = len + n + 5
  <2>1. len = Len(decimal[Len(arg)])  BY <1>1, <1>2
  <2>2. /\ Holds(buf, pos, <<"$">>) /\ Holds(buf, pos + 1, decimal[Len(arg)])
        /\ Holds(buf, pos + 1 + len, CRLF) /\ Holds(buf, pos + len + 3, arg)
        /\ Holds(buf, pos + len + 3 + Len(arg), CRLF)
        /\ len \in Nat /\ Len(encode_bulk(arg)) = len + Len(arg) + 5
    BY <2>1, HoldsBulk, Zenon
  <2> QED  BY <1>1, <2>2, Zenon
<1>4. pos \in Nat /\ pos # 0 /\ Len(buf) \in Nat /\ n \in 0..MAX_BULK_LEN
  BY <1>1, Limits DEF Pos, Text
<1>5. PICK line : line = read_line(buf, pos + 1, pos)  OBVIOUS
<1>6. parse_i64_strict(decimal[n]) = {n}
      /\ line = IF Len(buf) >= pos + len + 2 THEN Done(decimal[n], pos + len + 3) ELSE Incomplete
  BY <1>2, <1>3, <1>4, <1>5, HeaderRead
<1>7. CASE pos > Len(buf)
  <2>3. ~(pos <= Len(buf))  BY <1>4, <1>7
  <2>1. bulk_at(buf, pos) = Incomplete  BY <1>7, <2>3 DEF bulk_at
  <2>2. ~(Len(buf) >= pos + (len + n + 5) - 1)  BY <1>3, <1>4, <1>7
  <2> QED  BY <1>3, <2>1, <2>2 DEF Reads
<1>8. CASE ~(pos > Len(buf))
  <2>1. pos <= Len(buf)  BY <1>4, <1>8
  <2>2. buf[pos] = "$"  BY <1>3, <2>1, HoldsSigil
  <2>3. CASE ~(Len(buf) >= pos + len + 2)
    <3>1. line = Incomplete /\ line.out # "Complete"  BY <1>6, <2>3, OutcomeFields
    <3>2. bulk_at(buf, pos) = line  BY <1>5, <1>8, <2>1, <2>2, <3>1 DEF bulk_at
    <3>3. ~(Len(buf) >= pos + (len + n + 5) - 1)  BY <1>3, <1>4, <2>3
    <3> QED  BY <1>3, <3>1, <3>2, <3>3 DEF Reads
  <2>4. CASE Len(buf) >= pos + len + 2
    <3>1. line.out = "Complete" /\ line.value = decimal[n] /\ line.next = pos + len + 3
      BY <1>6, <2>4, OutcomeFields
    <3>2. parse_i64_strict(line.value) \cap 0..MAX_BULK_LEN = {n}  BY <1>4, <1>6, <3>1
    <3>3. bulk_at(buf, pos) = Payload(buf, pos + len + 3, n)
      <4>1. PICK opt : opt = parse_i64_strict(line.value) \cap 0..MAX_BULK_LEN  OBVIOUS
      <4>2. opt # {} /\ The(opt) = n  BY <3>2, <4>1, TheOne
      <4>3. bulk_at(buf, pos) = Payload(buf, line.next, The(opt))
        BY <1>5, <1>8, <2>1, <2>2, <3>1, <4>1, <4>2 DEF bulk_at
      <4> QED  BY <3>1, <4>2, <4>3
    <3>4. PICK p : p = pos + len + 3  OBVIOUS
    <3>5. p \in Pos  BY <1>3, <1>4, <3>4 DEF Pos
    <3>6. Payload(buf, p, n) = IF Len(buf) >= p + n + 1 THEN Done(arg, p + n + 2) ELSE Incomplete
      BY <1>1, <1>3, <3>4, <3>5, PayloadRead
    <3>7. p + n + 1 = pos + (len + n + 5) - 1 /\ p + n + 2 = pos + (len + n + 5)
      BY <1>3, <1>4, <3>4
    <3> QED  BY <1>3, <3>3, <3>4, <3>6, <3>7 DEF Reads
  <2> QED  BY <2>3, <2>4
<1> QED  BY <1>7, <1>8

\* f[n] are the first n parts, joined.
Chain(f, parts) ==
    /\ f \in [Nat -> Text] /\ f[0] = <<>>
    /\ \A n \in 1..Len(parts) : f[n] = f[n - 1] \o parts[n]

\* A buffer that holds parts joined holds each of them at its place.
LEMMA HoldsChained ==
    ASSUME NEW buf, NEW pos \in Pos, NEW parts \in Seq(Text), NEW f, Chain(f, parts),
           Holds(buf, pos, f[Len(parts)])
    PROVE  \A n \in 1..Len(parts) :
               /\ Holds(buf, pos + Len(f[n - 1]), parts[n]) /\ parts[n] \in Text
               /\ Len(f[n]) = Len(f[n - 1]) + Len(parts[n]) /\ Len(f[n - 1]) \in Nat
<1>1. PICK len \in Nat : len = Len(parts)  OBVIOUS
<1> DEFINE T == {n \in Nat : n <= len => Holds(buf, pos, f[len - n])}
<1>2. ASSUME NEW n \in 1..len
      PROVE  f[n] = f[n - 1] \o parts[n] /\ f[n - 1] \in Text /\ parts[n] \in Text
  <2>1. n - 1 \in Nat  OBVIOUS
  <2> QED  BY <1>1, <2>1, ElementOfSeq DEF Chain
<1>3. 0 \in T
  <2>1. len - 0 = len  OBVIOUS
  <2> QED  BY <1>1, <2>1 DEF Chain
<1>4. ASSUME NEW n \in Nat, n \in T PROVE n + 1 \in T
  <2> SUFFICES ASSUME n + 1 <= len PROVE Holds(buf, pos, f[len - (n + 1)])  OBVIOUS
  <2>1. PICK m \in 1..len : m = len - n
    <3>1. len - n \in 1..len  OBVIOUS
    <3> QED  BY <3>1
  <2>2. Holds(buf, pos, f[m])  BY <1>4, <2>1
  <2>3. m - 1 = len - (n + 1)  BY <2>1
  <2>4. Holds(buf, pos, f[m - 1] \o parts[m])  BY <1>2, <2>2
  <2>5. Holds(buf, pos, f[m - 1])  BY <1>2, <2>4, HoldsParts
  <2> QED  BY <2>3, <2>5
<1>5. \A n \in Nat : n \in T
  <2> HIDE DEF T
  <2> QED  BY <1>3, <1>4, SetInduction
<1>6. ASSUME NEW n \in 1..len
      PROVE  /\ Holds(buf, pos + Len(f[n - 1]), parts[n]) /\ parts[n] \in Text
             /\ Len(f[n]) = Len(f[n - 1]) + Len(parts[n]) /\ Len(f[n - 1]) \in Nat
  <2>1. len - n \in Nat /\ len - n <= len /\ len - (len - n) = n  OBVIOUS
  <2>2. Holds(buf, pos, f[n])  BY <1>5, <2>1
  <2>3. PICK g : g = f[n - 1]  OBVIOUS
  <2>4. PICK t : t = parts[n]  OBVIOUS
  <2>5. g \in Text /\ t \in Text /\ f[n] = g \o t  BY <1>2, <2>3, <2>4
  <2>6. Holds(buf, pos + Len(g), t) /\ Len(g \o t) = Len(g) + Len(t)  BY <2>2, <2>5, HoldsParts
  <2> QED  BY <2>3, <2>4, <2>5, <2>6 DEF Text
<1> QED  BY <1>1, <1>6

\* A buffer that holds texts concatenated holds each of them in its place.
LEMMA HoldsJoined ==
    ASSUME NEW buf, NEW pos \in Pos, NEW parts \in Seq(Text), NEW f, Joins(f, parts),
           Holds(buf, pos, FlattenSeq(parts))
    PROVE  \A n \in 1..Len(parts) :
               /\ Holds(buf, pos + Len(f[n - 1]), parts[n]) /\ parts[n] \in Text
               /\ Len(f[n]) = Len(f[n - 1]) + Len(parts[n]) /\ Len(f[n - 1]) \in Nat
<1>1. Chain(f, parts) /\ FlattenSeq(parts) = f[Len(parts)]  BY DEF Joins, Chain
<1>2. Holds(buf, pos, f[Len(parts)])  BY <1>1
<1> QED  BY <1>1, <1>2, HoldsChained

\* Elements that are each read whole are collected whole.
LEMMA CollectReads ==
    ASSUME NEW buf \in Text, NEW pos \in Pos, pos <= Len(buf) + 1,
           NEW X, NEW vals \in Seq(X), NEW parts \in Seq(Text), Len(parts) = Len(vals),
           NEW f, Joins(f, parts), NEW elements,
           \A n \in 1..Len(vals) :
               Reads(elements[pos + Len(f[n - 1])], vals[n], pos + Len(f[n - 1]), parts[n], buf)
    PROVE  Reads(Collect(elements, pos, Len(vals)), vals, pos, FlattenSeq(parts), buf)
<1>1. PICK size \in Nat : size = Len(vals)  OBVIOUS
<1>2. pos \in Nat /\ pos # 0 /\ Len(buf) \in Nat /\ f \in [Nat -> Text]
  <2>1. f \in [Nat -> Text]  BY DEF Joins
  <2>2. pos \in Nat /\ pos # 0 /\ Len(buf) \in Nat  BY DEF Pos, Text
  <2> QED  BY <2>1, <2>2
<1> DEFINE P(n) == Reads(Collect(elements, pos, n), SubSeq(vals, 1, n), pos, f[n], buf)
           T == {n \in Nat : n <= size => P(n)}
<1>3. 0 \in T
  <2>1. Collect(elements, pos, 0) = Done(<<>>, pos)  BY CollectEquations
  <2>2. SubSeq(vals, 1, 0) = <<>>  BY SubSeqEmpty
  <2>3. Len(f[0]) = 0  BY DEF Joins
  <2>4. pos + 0 = pos /\ Len(buf) >= pos + 0 - 1  BY <1>2
  <2> QED  BY <2>1, <2>2, <2>3, <2>4 DEF Reads
<1>4. ASSUME NEW n \in Nat, n \in T PROVE n + 1 \in T
  <2> SUFFICES ASSUME n + 1 <= size PROVE P(n + 1)  OBVIOUS
  <2>1. P(n) /\ n + 1 \in 1..size /\ (n + 1) - 1 = n  BY <1>4
  <2>2. PICK before : before = Collect(elements, pos, n)  OBVIOUS
  <2>3. Collect(elements, pos, n + 1) = CollectNext(elements, before)  BY <2>2, CollectEquations
  <2>4. PICK done : done = SubSeq(vals, 1, n)  OBVIOUS
  <2>5. SubSeq(vals, 1, n + 1) = Append(done, vals[n + 1])
    <3>1. n + 1 \in 1..Len(vals) /\ 1 \in 1..Len(vals) /\ done \in Seq(X)
      <4>1. n + 1 \in 1..Len(vals) /\ 1 \in 1..Len(vals)  BY <1>1, <2>1
      <4>2. \A i \in 1..n : vals[i] \in X
        <5>1. \A i \in 1..n : i \in 1..Len(vals)  BY <4>1
        <5> QED  BY <5>1, ElementOfSeq
      <4>3. 1 \in Int /\ n \in Int  OBVIOUS
      <4> QED  BY <2>4, <4>1, <4>2, <4>3, SubSeqProperties
    <3>2. SubSeq(vals, 1, n + 1) = SubSeq(vals, 1, (n + 1) - 1) \o <<vals[n + 1]>>
      <4>1. n + 1 \in 1..Len(vals)  BY <3>1
      <4> QED  BY <3>1, <4>1, SubSeqRecursiveSecond
    <3>3. SubSeq(vals, 1, n + 1) = done \o <<vals[n + 1]>>  BY <2>1, <2>4, <3>2
    <3>4. vals[n + 1] \in X  BY <3>1, ElementOfSeq
    <3> QED  BY <3>1, <3>3, <3>4, AppendIsConcat
  <2>6. PICK g \in Nat : g = Len(f[n])  BY <1>2 DEF Text
  <2>7. PICK t \in Nat : t = Len(parts[n + 1])
    <3>1. parts[n + 1] \in Text  BY <1>1, <2>1, ElementOfSeq
    <3> QED  BY <3>1 DEF Text
  <2>8. Len(f[n + 1]) = g + t
    <3>1. parts[n + 1] \in Text  BY <1>1, <2>1, ElementOfSeq
    <3>2. f[n + 1] = f[n] \o parts[n + 1] /\ f[n] \in Text  BY <1>1, <1>2, <2>1 DEF Joins
    <3> QED  BY <2>6, <2>7, <3>1, <3>2, ConcatText
  <2>9. before = IF Len(buf) >= pos + g - 1 THEN Done(done, pos + g) ELSE Incomplete
    BY <2>1, <2>2, <2>4, <2>6 DEF Reads
  <2>10. CASE ~(Len(buf) >= pos + g - 1)
    <3>1. before = Incomplete /\ before.out # "Complete"  BY <2>9, <2>10, OutcomeFields
    <3>2. CollectNext(elements, before) = before  BY <3>1 DEF CollectNext
    <3>3. ~(Len(buf) >= pos + (g + t) - 1)  BY <1>2, <2>10
    <3> QED  BY <2>3, <2>8, <3>1, <3>2, <3>3 DEF Reads
  <2>11. CASE Len(buf) >= pos + g - 1
    <3>1. before.out = "Complete" /\ before.value = done /\ before.next = pos + g
      BY <2>9, <2>11, OutcomeFields
    <3>2. PICK item : item = elements[pos + g]  OBVIOUS
    <3>3. Reads(item, vals[n + 1], pos + g, parts[n + 1], buf)  BY <1>1, <2>1, <2>6, <3>2
    <3>4. item = IF Len(buf) >= (pos + g) + t - 1 THEN Done(vals[n + 1], (pos + g) + t) ELSE Incomplete
      BY <2>7, <3>3 DEF Reads
    <3>5. (pos + g) + t = pos + (g + t)  BY <1>2
    <3>6. CASE ~(Len(buf) >= (pos + g) + t - 1)
      <4>1. item = Incomplete /\ item.out # "Complete"  BY <3>4, <3>6, OutcomeFields
      <4>2. CollectNext(elements, before) = item  BY <3>1, <3>2, <4>1 DEF CollectNext
      <4>3. ~(Len(buf) >= pos + (g + t) - 1)  BY <1>2, <3>5, <3>6
      <4> QED  BY <2>3, <2>8, <4>1, <4>2, <4>3 DEF Reads
    <3>7. CASE Len(buf) >= (pos + g) + t - 1
      <4>1. item.out = "Complete" /\ item.value = vals[n + 1] /\ item.next = (pos + g) + t
        BY <3>4, <3>7, OutcomeFields
      <4>2. CollectNext(elements, before) = Done(Append(done, vals[n + 1]), (pos + g) + t)
        BY <3>1, <3>2, <4>1 DEF CollectNext
      <4>3. Len(buf) >= pos + (g + t) - 1  BY <1>2, <3>5, <3>7
      <4>4. Collect(elements, pos, n + 1) = Done(SubSeq(vals, 1, n + 1), pos + (g + t))
        BY <2>3, <2>5, <3>5, <4>2
      <4> QED  BY <2>8, <4>3, <4>4 DEF Reads
    <3> QED  BY <3>6, <3>7
  <2> QED  BY <2>10, <2>11
<1>5. \A n \in Nat : n \in T
  <2> HIDE DEF T
  <2> QED  BY <1>3, <1>4, SetInduction
<1>6. P(size)  BY <1>5
<1>7. SubSeq(vals, 1, size) = vals  BY <1>1, SubSeqFull
<1>8. FlattenSeq(parts) = f[size]  BY <1>1 DEF Joins
<1> QED  BY <1>1, <1>6, <1>7, <1>8

\* What a buffer holds when it holds a header and more.
HeaderHeld(buf, pos, sigil, n, len, body, bytes) ==
    /\ Holds(buf, pos, sigil) /\ Holds(buf, pos + 1, decimal[n])
    /\ Holds(buf, pos + 1 + len, CRLF) /\ Holds(buf, pos + len + 3, body)
    /\ len \in Nat /\ Len(bytes) = len + Len(body) + 3 /\ bytes \in Text

\* A buffer that holds a sigil, a length and a body, piece by piece.
LEMMA HoldsHeader ==
    ASSUME NEW buf, NEW pos \in Pos, NEW sigil \in Text, Len(sigil) = 1,
           NEW n \in Nat, NEW body \in Text,
           NEW bytes, bytes = sigil \o to_string(n) \o CRLF \o body, Holds(buf, pos, bytes),
           NEW len, len = Len(decimal[n])
    PROVE  HeaderHeld(buf, pos, sigil, n, len, body, bytes)
<1>1. PICK s : s = decimal[n]  OBVIOUS
<1>2. s \in Text /\ len \in Nat /\ len = Len(s) /\ Len(body) \in Nat /\ pos \in Nat
  BY <1>1, DecimalType DEF Text, Pos
<1>3. to_string(n) = s  BY <1>1 DEF to_string
<1>5. sigil \in Text /\ Len(sigil) = 1  OBVIOUS
<1>6. PICK b2 : b2 = sigil \o s  OBVIOUS
<1>7. PICK b3 : b3 = b2 \o CRLF  OBVIOUS
<1>8. bytes = b3 \o body  BY <1>3, <1>6, <1>7
<1>9. b2 \in Text /\ Len(b2) = 1 + len /\ b3 \in Text /\ Len(b3) = len + 3
      /\ bytes \in Text /\ Len(bytes) = len + Len(body) + 3
  <2>1. b2 \in Text /\ Len(b2) = Len(sigil) + Len(s)  BY <1>2, <1>5, <1>6, ConcatText
  <2>2. b3 \in Text /\ Len(b3) = Len(b2) + Len(CRLF)  BY <1>7, <2>1, CrlfText, ConcatText
  <2>3. bytes \in Text /\ Len(bytes) = Len(b3) + Len(body)  BY <1>8, <2>2, ConcatText
  <2> QED  BY <1>2, <1>5, <2>1, <2>2, <2>3, CrlfText
<1>10. Holds(buf, pos, b3) /\ Holds(buf, pos + Len(b3), body)
  <2>1. Holds(buf, pos, b3 \o body)  BY <1>8
  <2> QED  BY <1>9, <2>1, HoldsParts
<1>11. Holds(buf, pos, b2) /\ Holds(buf, pos + Len(b2), CRLF)
  BY <1>7, <1>9, <1>10, CrlfText, HoldsParts
<1>12. Holds(buf, pos, sigil) /\ Holds(buf, pos + Len(sigil), s)
  BY <1>2, <1>5, <1>6, <1>11, HoldsParts
<1>13. pos + Len(b3) = pos + len + 3 /\ pos + Len(b2) = pos + 1 + len /\ pos + Len(sigil) = pos + 1
  BY <1>2, <1>5, <1>9
<1> QED  BY <1>1, <1>2, <1>9, <1>10, <1>11, <1>12, <1>13 DEF HeaderHeld

\* What encode_command writes is what parse_command reads, and nothing before it
\* has all arrived.
LEMMA CommandRead ==
    ASSUME NEW buf \in Text, NEW args \in Args, Fits(args), Holds(buf, 1, encode_command(args))
    PROVE  Reads(parse_command(buf), args, 1, encode_command(args), buf)
<1>1. PICK n \in Nat : n = Len(args)  BY DEF Args
<1>2. PICK parts : parts = [i \in 1..n |-> encode_bulk(args[i])]  OBVIOUS
<1>3. parts \in Seq(Text) /\ Len(parts) = n  BY <1>1, <1>2, BulksType
<1>4. PICK f : Joins(f, parts)  BY <1>3, FlattenJoins
<1>5. PICK body : body = FlattenSeq(parts)  OBVIOUS
<1>6. body \in Text /\ Len(body) \in Nat /\ Len(buf) \in Nat  BY <1>3, <1>5, FlattenType DEF Text
<1>7. PICK bytes : bytes = encode_command(args)  OBVIOUS
<1>8. bytes = <<"*">> \o to_string(n) \o CRLF \o body
  BY <1>1, <1>2, <1>5, <1>7 DEF encode_command
<1>9. PICK len : len = Len(decimal[n])  OBVIOUS
<1>10. 1 \in Pos /\ "*" \in Byte /\ n \in 0..MAX_ARRAY_LEN
  BY <1>1, ProtoAssumption, Limits DEF Pos, Fits
<1>11. Holds(buf, 1, bytes)  BY <1>7
<1>12. /\ Holds(buf, 1, <<"*">>) /\ Holds(buf, 1 + 1, decimal[n])
       /\ Holds(buf, 1 + 1 + len, CRLF) /\ Holds(buf, 1 + len + 3, body)
       /\ len \in Nat /\ Len(bytes) = len + Len(body) + 3
  <2>1. PICK sigil \in Text : sigil = <<"*">> /\ Len(sigil) = 1  BY Framing
  <2>2. bytes = sigil \o to_string(n) \o CRLF \o body  BY <1>8, <2>1
  <2>3. PICK pos \in Pos : pos = 1  BY <1>10
  <2>4. Holds(buf, pos, bytes)  BY <1>11, <2>3
  <2>5. Len(sigil) = 1  BY <2>1
  <2>6. HeaderHeld(buf, pos, sigil, n, len, body, bytes)
    BY <1>6, <1>9, <2>2, <2>4, <2>5, HoldsHeader
  <2> QED  BY <2>1, <2>3, <2>6, Zenon DEF HeaderHeld
<1>13. PICK line : line = read_line(buf, 2, 1)  OBVIOUS
<1>14. parse_i64_strict(decimal[n]) = {n}
       /\ line = IF Len(buf) >= 1 + len + 2 THEN Done(decimal[n], 1 + len + 3) ELSE Incomplete
  <2>1. 1 \in {1, 1 + 1} /\ n \in 0..MAX_BULK_LEN \cup 0..MAX_ARRAY_LEN  BY <1>10
  <2>2. parse_i64_strict(decimal[n]) = {n}
        /\ read_line(buf, 1 + 1, 1) = IF Len(buf) >= 1 + len + 2
                                      THEN Done(decimal[n], 1 + len + 3) ELSE Incomplete
    BY <1>9, <1>10, <1>12, <2>1, HeaderRead, Zenon
  <2>3. 1 + 1 = 2  OBVIOUS
  <2> QED  BY <1>13, <2>2, <2>3, Zenon
<1>15. CASE buf = <<>>
  <2>1. parse_command(buf) = Incomplete  BY <1>15 DEF parse_command
  <2>2. ~(Len(buf) >= 1 + (len + Len(body) + 3) - 1)  BY <1>6, <1>12, <1>15
  <2> QED  BY <1>7, <1>12, <2>1, <2>2 DEF Reads
<1>16. CASE buf # <<>>
  <2>1. Len(buf) # 0 /\ 1 <= Len(buf)  BY <1>6, <1>16, EmptySeq DEF Text
  <2>2. buf[1] = "*"  BY <1>10, <1>12, <2>1, HoldsSigil
  <2>3. parse_command(buf) = parse_array_command(buf)  BY <1>16, <2>2 DEF parse_command
  <2>4. CASE ~(Len(buf) >= 1 + len + 2)
    <3>1. line = Incomplete /\ line.out # "Complete"  BY <1>14, <2>4, OutcomeFields
    <3>2. parse_array_command(buf) = line  BY <1>13, <3>1 DEF parse_array_command
    <3>3. ~(Len(buf) >= 1 + (len + Len(body) + 3) - 1)  BY <1>6, <1>12, <2>4
    <3> QED  BY <1>7, <1>12, <2>3, <3>1, <3>2, <3>3 DEF Reads
  <2>5. CASE Len(buf) >= 1 + len + 2
    <3>1. line.out = "Complete" /\ line.value = decimal[n] /\ line.next = 1 + len + 3
      BY <1>14, <2>5, OutcomeFields
    <3>2. PICK count : count = parse_i64_strict(line.value) \cap 0..MAX_ARRAY_LEN  OBVIOUS
    <3>3. count # {} /\ The(count) = n
      <4>1. count = {n}  BY <1>10, <1>14, <3>1, <3>2
      <4> QED  BY <4>1, TheOne
    <3>4. PICK bulks : bulks = [pos \in Nat |-> bulk_at(buf, pos)]  OBVIOUS
    <3>5. PICK p : p = 1 + len + 3  OBVIOUS
    <3>6. parse_array_command(buf) = Collect(bulks, p, n)
      BY <1>13, <3>1, <3>2, <3>3, <3>4, <3>5 DEF parse_array_command
    <3>7. p \in Pos /\ p <= Len(buf) + 1 /\ p \in Nat  BY <1>6, <1>12, <2>5, <3>5 DEF Pos
    <3>8. Holds(buf, p, FlattenSeq(parts))  BY <1>5, <1>12, <3>5
    <3>9. ASSUME NEW i \in 1..n
          PROVE  Reads(bulks[p + Len(f[i - 1])], args[i], p + Len(f[i - 1]), parts[i], buf)
      <4>1. Holds(buf, p + Len(f[i - 1]), parts[i]) /\ Len(f[i - 1]) \in Nat
        BY <1>3, <1>4, <3>7, <3>8, HoldsJoined
      <4>2. PICK q : q = p + Len(f[i - 1])  OBVIOUS
      <4>3. q \in Pos /\ q \in Nat  BY <3>7, <4>1, <4>2 DEF Pos
      <4>4. parts[i] = encode_bulk(args[i]) /\ args[i] \in Text /\ Len(args[i]) <= MAX_BULK_LEN
        BY <1>1, <1>2, ElementOfSeq DEF Args, Fits
      <4>5. Reads(bulk_at(buf, q), args[i], q, parts[i], buf)  BY <4>1, <4>2, <4>3, <4>4, BulkRead
      <4>6. bulks[q] = bulk_at(buf, q)  BY <3>4, <4>3
      <4> QED  BY <4>2, <4>5, <4>6
    <3>10. Reads(Collect(bulks, p, n), args, p, body, buf)
      <4>1. Len(parts) = Len(args) /\ args \in Seq(Text)  BY <1>1, <1>3 DEF Args
      <4>2. \A i \in 1..Len(args) :
              Reads(bulks[p + Len(f[i - 1])], args[i], p + Len(f[i - 1]), parts[i], buf)
        BY <1>1, <3>9
      <4>3. Reads(Collect(bulks, p, Len(args)), args, p, FlattenSeq(parts), buf)
        BY <1>3, <1>4, <3>7, <4>1, <4>2, CollectReads
      <4> QED  BY <1>1, <1>5, <4>3
    <3>11. p + Len(body) - 1 = 1 + (len + Len(body) + 3) - 1 /\ p + Len(body) = 1 + (len + Len(body) + 3)
      BY <1>6, <1>12, <3>5
    <3> QED  BY <1>7, <1>12, <2>3, <3>6, <3>10, <3>11 DEF Reads
  <2> QED  BY <2>4, <2>5
<1> QED  BY <1>15, <1>16

-----------------------------------------------------------------------------
(***************************************************************************)
(* Replies are read as they are written.                                   *)
(***************************************************************************)
\* What a buffer holds, and which line is read from it, when it holds a sigil, a
\* line and more.
LineHeld(buf, pos, sigil, text, len, body, bytes) ==
    /\ Holds(buf, pos, sigil) /\ Holds(buf, pos + len + 3, body)
    /\ len \in Nat /\ Len(body) \in Nat /\ Len(bytes) = len + Len(body) + 3 /\ bytes \in Text
    /\ read_line(buf, pos + 1, pos + 1) = IF Len(buf) >= pos + len + 2
                                          THEN Done(text, pos + len + 3) ELSE Incomplete

\* A buffer that holds a sigil, a line and a body, piece by piece.
LEMMA HoldsLine ==
    ASSUME NEW buf \in Text, NEW pos \in Pos, NEW sigil \in Text, Len(sigil) = 1,
           NEW text \in Lines, NEW body \in Text,
           NEW bytes, bytes = sigil \o text \o CRLF \o body, Holds(buf, pos, bytes),
           NEW len, len = Len(text)
    PROVE  LineHeld(buf, pos, sigil, text, len, body, bytes)
<1>1. /\ text \in Text /\ len \in Nat /\ Len(body) \in Nat /\ pos \in Nat
      /\ len + 1 <= MAX_INLINE_LEN /\ \A i \in 1..(Len(text) - 1) : ~Ends(text, i)
  BY DEF Lines, Text, Pos
<1>2. PICK b2 : b2 = sigil \o text  OBVIOUS
<1>3. PICK b3 : b3 = b2 \o CRLF  OBVIOUS
<1>4. bytes = b3 \o body  BY <1>2, <1>3
<1>5. b2 \in Text /\ Len(b2) = 1 + len /\ b3 \in Text /\ Len(b3) = len + 3
      /\ bytes \in Text /\ Len(bytes) = len + Len(body) + 3
  <2>1. b2 \in Text /\ Len(b2) = Len(sigil) + Len(text)  BY <1>1, <1>2, ConcatText
  <2>2. b3 \in Text /\ Len(b3) = Len(b2) + Len(CRLF)  BY <1>3, <2>1, CrlfText, ConcatText
  <2>3. bytes \in Text /\ Len(bytes) = Len(b3) + Len(body)  BY <1>4, <2>2, ConcatText
  <2> QED  BY <1>1, <2>1, <2>2, <2>3, CrlfText
<1>6. Holds(buf, pos, b3) /\ Holds(buf, pos + Len(b3), body)
  <2>1. Holds(buf, pos, b3 \o body)  BY <1>4
  <2> QED  BY <1>5, <2>1, HoldsParts
<1>7. Holds(buf, pos, b2) /\ Holds(buf, pos + Len(b2), CRLF)
  BY <1>3, <1>5, <1>6, CrlfText, HoldsParts
<1>8. Holds(buf, pos, sigil) /\ Holds(buf, pos + Len(sigil), text)
  BY <1>1, <1>2, <1>7, HoldsParts
<1>9. pos + Len(b3) = pos + len + 3 /\ pos + Len(b2) = (pos + 1) + len /\ pos + Len(sigil) = pos + 1
  BY <1>1, <1>5
<1>10. PICK from : from = pos + 1  OBVIOUS
<1>11. from \in Pos /\ from \in Int /\ from + len - from + 1 <= MAX_INLINE_LEN
  BY <1>1, <1>10, Limits DEF Pos
<1>12. Holds(buf, from, text) /\ Holds(buf, from + len, CRLF)  BY <1>7, <1>8, <1>9, <1>10
<1>13. read_line(buf, from, from) = IF Len(buf) >= from + len + 1
                                    THEN Done(text, from + len + 2) ELSE Incomplete
  BY <1>1, <1>11, <1>12, LineRead
<1>14. from + len + 1 = pos + len + 2 /\ from + len + 2 = pos + len + 3  BY <1>1, <1>10
<1>15. read_line(buf, pos + 1, pos + 1) = IF Len(buf) >= pos + len + 2
                                          THEN Done(text, pos + len + 3) ELSE Incomplete
  BY <1>10, <1>13, <1>14
<1> QED  BY <1>1, <1>5, <1>6, <1>8, <1>9, <1>15 DEF LineHeld

\* Once the line has arrived, the reply is what comes of it.
LEMMA ReplyRead ==
    ASSUME NEW buf \in Text, NEW pos \in Pos, NEW b \in Sigils, NEW text, NEW len, NEW body,
           NEW bytes, LineHeld(buf, pos, <<b>>, text, len, body, bytes), NEW nested, NEW r,
           buf[pos] = b /\ read_line(buf, pos + 1, pos + 1) = Done(text, pos + len + 3)
               /\ pos <= Len(buf) /\ Len(buf) >= pos + len + 2
             => Reads(parse_reply_at(buf, pos, nested), r, pos, bytes, buf)
    PROVE  Reads(parse_reply_at(buf, pos, nested), r, pos, bytes, buf)
<1>1. Len(buf) \in Nat /\ pos \in Nat /\ pos # 0  BY DEF Text, Pos
<1>2. /\ Holds(buf, pos, <<b>>) /\ len \in Nat /\ Len(body) \in Nat
      /\ Len(bytes) = len + Len(body) + 3
      /\ read_line(buf, pos + 1, pos + 1) = IF Len(buf) >= pos + len + 2
                                            THEN Done(text, pos + len + 3) ELSE Incomplete
  BY DEF LineHeld
<1>3. CASE pos > Len(buf)
  <2>1. parse_reply_at(buf, pos, nested) = Incomplete  BY <1>3 DEF parse_reply_at
  <2>2. ~(Len(buf) >= pos + (len + Len(body) + 3) - 1)  BY <1>1, <1>2, <1>3
  <2> QED  BY <1>2, <2>1, <2>2 DEF Reads
<1>4. CASE ~(pos > Len(buf)) /\ ~(Len(buf) >= pos + len + 2)
  <2>1. pos <= Len(buf)  BY <1>1, <1>4
  <2>2. buf[pos] = b  BY <1>2, <2>1, HoldsSigil
  <2>3. PICK line : line = read_line(buf, pos + 1, pos + 1)  OBVIOUS
  <2>4. line = Incomplete /\ line.out # "Complete"  BY <1>2, <1>4, <2>3, OutcomeFields
  <2>5. parse_reply_at(buf, pos, nested) = line
    BY <1>4, <2>2, <2>3, <2>4 DEF parse_reply_at, Sigils
  <2>6. ~(Len(buf) >= pos + (len + Len(body) + 3) - 1)  BY <1>1, <1>2, <1>4
  <2> QED  BY <1>2, <2>4, <2>5, <2>6 DEF Reads
<1>5. CASE ~(pos > Len(buf)) /\ Len(buf) >= pos + len + 2
  <2>1. pos <= Len(buf)  BY <1>1, <1>5
  <2>2. buf[pos] = b  BY <1>2, <2>1, HoldsSigil
  <2>3. read_line(buf, pos + 1, pos + 1) = Done(text, pos + len + 3)  BY <1>2, <1>5
  <2> QED  BY <1>5, <2>1, <2>2, <2>3
<1> QED  BY <1>3, <1>4, <1>5

\* Short texts, byte by byte.
LEMMA ByteConcat ==
    ASSUME NEW a \in Byte, NEW b \in Byte, NEW c \in Byte
    PROVE  <<a>> \o <<b>> = <<a, b>> /\ <<a>> \o <<b, c>> = <<a, b, c>>
<1>1. PICK x : x = <<a>>  OBVIOUS
<1>2. x \in Text /\ Len(x) = 1 /\ x[1] = a  BY <1>1 DEF Text
<1>3. <<a>> \o <<b>> = <<a, b>>
  <2>1. PICK y : y = <<b>>  OBVIOUS
  <2>2. y \in Text /\ Len(y) = 1 /\ y[1] = b  BY <2>1 DEF Text
  <2>3. PICK t : t = x \o y  OBVIOUS
  <2>4. t \in Text /\ Len(t) = Len(x) + Len(y)  BY <1>2, <2>2, <2>3, ConcatText
  <2>5. 1 \in 1..Len(x) /\ 1 \in 1..Len(y) /\ Len(x) + 1 = 2  BY <1>2, <2>2
  <2>6. t[1] = a /\ t[2] = b  BY <1>2, <2>2, <2>3, <2>5, ConcatAt
  <2>7. Len(t) = 2  BY <1>2, <2>2, <2>4
  <2>8. PICK z : z = <<a, b>>  OBVIOUS
  <2>9. z \in Text /\ Len(z) = 2 /\ z[1] = a /\ z[2] = b  BY <2>8 DEF Text
  <2>10. \A i \in 1..2 : i = 1 \/ i = 2  OBVIOUS
  <2>11. \A i \in 1..Len(t) : t[i] = z[i]  BY <2>6, <2>7, <2>9, <2>10
  <2>12. t = z  BY <2>4, <2>7, <2>9, <2>11, SeqEqual DEF Text
  <2> QED  BY <1>1, <2>1, <2>3, <2>8, <2>12
<1>4. <<a>> \o <<b, c>> = <<a, b, c>>
  <2>1. PICK y : y = <<b, c>>  OBVIOUS
  <2>2. y \in Text /\ Len(y) = 2 /\ y[1] = b /\ y[2] = c  BY <2>1 DEF Text
  <2>3. PICK t : t = x \o y  OBVIOUS
  <2>4. t \in Text /\ Len(t) = Len(x) + Len(y)  BY <1>2, <2>2, <2>3, ConcatText
  <2>5. 1 \in 1..Len(x) /\ 1 \in 1..Len(y) /\ 2 \in 1..Len(y) /\ Len(x) + 1 = 2 /\ Len(x) + 2 = 3
    BY <1>2, <2>2
  <2>6. \A i \in 1..Len(x) : (x \o y)[i] = x[i]  BY <1>2, <2>2, ConcatAt
  <2>7. \A i \in 1..Len(y) : (x \o y)[Len(x) + i] = y[i]  BY <1>2, <2>2, ConcatAt
  <2>8. t[1] = a  BY <1>2, <2>3, <2>5, <2>6
  <2>9. t[2] = b  BY <2>2, <2>3, <2>5, <2>7
  <2>10. t[3] = c  BY <2>2, <2>3, <2>5, <2>7
  <2>11. Len(t) = 3  BY <1>2, <2>2, <2>4
  <2>12. PICK z : z = <<a, b, c>>  OBVIOUS
  <2>13. z \in Text /\ Len(z) = 3 /\ z[1] = a /\ z[2] = b /\ z[3] = c  BY <2>12 DEF Text
  <2>14. \A i \in 1..3 : i = 1 \/ i = 2 \/ i = 3  OBVIOUS
  <2>15. \A i \in 1..Len(t) : t[i] = z[i]  BY <2>8, <2>9, <2>10, <2>11, <2>13, <2>14
  <2>16. t = z  BY <2>4, <2>11, <2>13, <2>15, SeqEqual DEF Text
  <2> QED  BY <1>1, <2>1, <2>3, <2>12, <2>16
<1> QED  BY <1>3, <1>4

\* The fields of a complete outcome.
LEMMA DoneFields ==
    ASSUME NEW o, NEW x, NEW n, o = Done(x, n)
    PROVE  o.out = "Complete" /\ o.value = x /\ o.next = n
  BY DEF Done

\* A reply of one line is read when that line comes to it.
LEMMA LineReply ==
    ASSUME NEW buf \in Text, NEW pos \in Pos, NEW b \in Sigils, NEW text \in Lines,
           NEW bytes, bytes = <<b>> \o text \o CRLF, Holds(buf, pos, bytes), NEW nested, NEW r,
           NEW next, next = pos + Len(text) + 3,
           buf[pos] = b /\ read_line(buf, pos + 1, pos + 1) = Done(text, next) /\ pos <= Len(buf)
             => parse_reply_at(buf, pos, nested) = Done(r, next)
    PROVE  Reads(parse_reply_at(buf, pos, nested), r, pos, bytes, buf)
<1>1. PICK sigil : sigil = <<b>>  OBVIOUS
<1>2. sigil \in Text /\ Len(sigil) = 1  BY <1>1, Framing DEF Sigils
<1>3. PICK len : len = Len(text)  OBVIOUS
<1>4. PICK body : body = <<>>  OBVIOUS
<1>5. text \in Text /\ body \in Text /\ Len(body) = 0 /\ len \in Nat  BY <1>3, <1>4 DEF Lines, Text
<1>6. bytes = sigil \o text \o CRLF \o body
  <2>1. PICK s : s = sigil \o text \o CRLF  OBVIOUS
  <2>2. s \in Text  BY <1>2, <1>5, <2>1, CrlfText, TextConcat
  <2>3. s \o <<>> = s  BY <2>2, ConcatEmptySeq DEF Text
  <2> QED  BY <1>1, <1>4, <2>1, <2>3
<1>7. LineHeld(buf, pos, sigil, text, len, body, bytes)  BY <1>2, <1>3, <1>5, <1>6, HoldsLine
<1>8. Len(bytes) = len + 3
  <2>1. Len(bytes) = len + Len(body) + 3  BY <1>7 DEF LineHeld
  <2> QED  BY <1>5, <2>1
<1>9. ASSUME buf[pos] = b, read_line(buf, pos + 1, pos + 1) = Done(text, pos + len + 3),
             pos <= Len(buf), Len(buf) >= pos + len + 2
      PROVE  Reads(parse_reply_at(buf, pos, nested), r, pos, bytes, buf)
  <2>1. parse_reply_at(buf, pos, nested) = Done(r, pos + len + 3)  BY <1>3, <1>9
  <2>2. pos + (len + 3) - 1 = pos + len + 2 /\ pos + (len + 3) = pos + len + 3  BY <1>5 DEF Pos
  <2> QED  BY <1>8, <1>9, <2>1, <2>2 DEF Reads
<1> QED  BY <1>1, <1>7, <1>9, ReplyRead

\* A simple string and an error are read as they were written, or waited for.
LEMMA TextReplyRead ==
    ASSUME NEW buf \in Text, NEW pos \in Pos, NEW text \in Lines, NEW nested, NEW deeper
    PROVE  /\ Holds(buf, pos, Written(Simple(text), deeper)) =>
                Reads(parse_reply_at(buf, pos, nested), Simple(text), pos,
                      Written(Simple(text), deeper), buf)
           /\ Holds(buf, pos, Written(Error(text), deeper)) =>
                Reads(parse_reply_at(buf, pos, nested), Error(text), pos,
                      Written(Error(text), deeper), buf)
<1>1. PICK next : next = pos + Len(text) + 3  OBVIOUS
<1>2. "+" \in Sigils /\ "-" \in Sigils  BY DEF Sigils
<1>3. pos \in Nat /\ Len(buf) \in Nat  BY DEF Pos, Text
<1>4. ASSUME Holds(buf, pos, Written(Simple(text), deeper))
      PROVE  Reads(parse_reply_at(buf, pos, nested), Simple(text), pos,
                   Written(Simple(text), deeper), buf)
  <2>1. PICK r : r = Simple(text)  OBVIOUS
  <2>2. r.type = "Simple" /\ r.text = text  BY <2>1 DEF Simple
  <2>3. PICK bytes : bytes = Written(r, deeper)  OBVIOUS
  <2>4. bytes = <<"+">> \o text \o CRLF  BY <2>2, <2>3 DEF Written
  <2>5. ASSUME buf[pos] = "+", read_line(buf, pos + 1, pos + 1) = Done(text, next), pos <= Len(buf)
        PROVE  parse_reply_at(buf, pos, nested) = Done(r, next)
    <3>1. PICK line : line = read_line(buf, pos + 1, pos + 1)  OBVIOUS
    <3>2. line.out = "Complete" /\ line.value = text /\ line.next = next
      BY <2>5, <3>1, DoneFields
    <3>3. ~(pos > Len(buf))  BY <1>3, <2>5
    <3>4. parse_reply_at(buf, pos, nested) = Done(Simple(line.value), line.next)
      BY <2>5, <3>1, <3>2, <3>3 DEF parse_reply_at
    <3> QED  BY <2>1, <3>2, <3>4
  <2>6. Holds(buf, pos, bytes)  BY <1>4, <2>1, <2>3
  <2>7. Reads(parse_reply_at(buf, pos, nested), r, pos, bytes, buf)
    BY <1>1, <1>2, <2>4, <2>5, <2>6, LineReply
  <2> QED  BY <2>1, <2>3, <2>7
<1>5. ASSUME Holds(buf, pos, Written(Error(text), deeper))
      PROVE  Reads(parse_reply_at(buf, pos, nested), Error(text), pos,
                   Written(Error(text), deeper), buf)
  <2>1. PICK r : r = Error(text)  OBVIOUS
  <2>2. r.type = "Error" /\ r.text = text  BY <2>1 DEF Error
  <2>3. PICK bytes : bytes = Written(r, deeper)  OBVIOUS
  <2>4. bytes = <<"-">> \o text \o CRLF  BY <2>2, <2>3 DEF Written
  <2>5. ASSUME buf[pos] = "-", read_line(buf, pos + 1, pos + 1) = Done(text, next), pos <= Len(buf)
        PROVE  parse_reply_at(buf, pos, nested) = Done(r, next)
    <3>1. PICK line : line = read_line(buf, pos + 1, pos + 1)  OBVIOUS
    <3>2. line.out = "Complete" /\ line.value = text /\ line.next = next
      BY <2>5, <3>1, DoneFields
    <3>3. ~(pos > Len(buf))  BY <1>3, <2>5
    <3>4. parse_reply_at(buf, pos, nested) = Done(Error(line.value), line.next)
      BY <2>5, <3>1, <3>2, <3>3 DEF parse_reply_at
    <3> QED  BY <2>1, <3>2, <3>4
  <2>6. Holds(buf, pos, bytes)  BY <1>5, <2>1, <2>3
  <2>7. Reads(parse_reply_at(buf, pos, nested), r, pos, bytes, buf)
    BY <1>1, <1>2, <2>4, <2>5, <2>6, LineReply
  <2> QED  BY <2>1, <2>3, <2>7
<1> QED  BY <1>4, <1>5

\* An integer is read as it was written, or waited for.
LEMMA IntegerReplyRead ==
    ASSUME NEW buf \in Text, NEW pos \in Pos, NEW n \in Numbers, NEW nested, NEW deeper,
           Holds(buf, pos, Written(Integer(n), deeper))
    PROVE  Reads(parse_reply_at(buf, pos, nested), Integer(n), pos, Written(Integer(n), deeper), buf)
<1>1. PICK text : text = to_string(n)  OBVIOUS
<1>2. text \in Lines /\ parse_i64_strict(text) = {n}  BY <1>1 DEF Numbers
<1>3. PICK next : next = pos + Len(text) + 3  OBVIOUS
<1>4. pos \in Nat /\ Len(buf) \in Nat /\ ":" \in Sigils  BY DEF Pos, Text, Sigils
<1>5. PICK r : r = Integer(n)  OBVIOUS
<1>6. r.type = "Integer" /\ r.n = n  BY <1>5 DEF Integer
<1>7. PICK bytes : bytes = Written(r, deeper)  OBVIOUS
<1>8. bytes = <<":">> \o text \o CRLF  BY <1>1, <1>6, <1>7 DEF Written
<1>9. ASSUME buf[pos] = ":", read_line(buf, pos + 1, pos + 1) = Done(text, next), pos <= Len(buf)
      PROVE  parse_reply_at(buf, pos, nested) = Done(r, next)
  <2>1. PICK line : line = read_line(buf, pos + 1, pos + 1)  OBVIOUS
  <2>2. line.out = "Complete" /\ line.value = text /\ line.next = next
    BY <1>9, <2>1, DoneFields
  <2>3. ~(pos > Len(buf))  BY <1>4, <1>9
  <2>4. PICK opt : opt = parse_i64_strict(line.value)  OBVIOUS
  <2>5. opt # {} /\ The(opt) = n  BY <1>2, <2>2, <2>4, TheOne
  <2>6. parse_reply_at(buf, pos, nested) = Done(Integer(The(opt)), line.next)
    BY <1>9, <2>1, <2>2, <2>3, <2>4, <2>5 DEF parse_reply_at
  <2> QED  BY <1>5, <2>2, <2>5, <2>6
<1>10. Holds(buf, pos, bytes)  BY <1>5, <1>7
<1>11. Reads(parse_reply_at(buf, pos, nested), r, pos, bytes, buf)
  BY <1>2, <1>3, <1>4, <1>8, <1>9, <1>10, LineReply
<1> QED  BY <1>5, <1>7, <1>11

\* A null bulk string is read as it was written, or waited for.
LEMMA NilRead ==
    ASSUME NEW buf \in Text, NEW pos \in Pos, NEW nested, NEW deeper,
           Holds(buf, pos, Written(Nil, deeper))
    PROVE  Reads(parse_reply_at(buf, pos, nested), Nil, pos, Written(Nil, deeper), buf)
<1>1. PICK text : text = to_string(-1)  OBVIOUS
<1>2. text \in Lines /\ parse_i64_strict(text) = {-1}  BY <1>1, SmallNumbers DEF Numbers
<1>3. PICK next : next = pos + Len(text) + 3  OBVIOUS
<1>4. pos \in Nat /\ Len(buf) \in Nat /\ "$" \in Sigils  BY DEF Pos, Text, Sigils
<1>5. Nil.type = "NullBulk"  BY DEF Nil
<1>6. PICK bytes : bytes = Written(Nil, deeper)  OBVIOUS
<1>7. bytes = <<"$">> \o text \o CRLF
  <2>1. PICK n \in Nat : n = 1  OBVIOUS
  <2>9. \A x \in Nat : -(-x) = x  OBVIOUS
  <2>2. -n < 0 /\ n < 10 /\ n + 1 = 2 /\ -(-n) = n /\ -1 = -n
    <3>1. -(-n) = n  BY <2>9
    <3>2. -n < 0 /\ n < 10 /\ n + 1 = 2  BY <2>1
    <3>3. -1 = -n  BY <2>1
    <3> QED  BY <3>1, <3>2, <3>3
  <2>3. decimal[n] = <<Digit[2]>>  BY <2>2, DecimalEquation DEF DecimalBody
  <2>4. Digit[2] = "1" /\ 2 \in 1..10  BY DEF Digit
  <2>5. text = <<"-">> \o <<"1">>  BY <1>1, <2>2, <2>3, <2>4 DEF to_string
  <2>6. "-" \in Byte /\ "$" \in Byte /\ "1" \in Byte  BY <2>4, ProtoAssumption
  <2>8. text = <<"-", "1">> /\ <<"$">> \o <<"-", "1">> = <<"$", "-", "1">>
    BY <2>5, <2>6, ByteConcat, Zenon
  <2>7. bytes = <<"$", "-", "1">> \o CRLF  BY <1>5, <1>6 DEF Written, null_bulk
  <2> QED  BY <2>7, <2>8
<1>8. ASSUME buf[pos] = "$", read_line(buf, pos + 1, pos + 1) = Done(text, next), pos <= Len(buf)
      PROVE  parse_reply_at(buf, pos, nested) = Done(Nil, next)
  <2>1. PICK line : line = read_line(buf, pos + 1, pos + 1)  OBVIOUS
  <2>2. line.out = "Complete" /\ line.value = text /\ line.next = next
    BY <1>8, <2>1, DoneFields
  <2>3. ~(pos > Len(buf))  BY <1>4, <1>8
  <2>4. Sized(line, MAX_BULK_LEN) = {-1}
    <3>1. -1 \in -1..MAX_BULK_LEN  BY Limits
    <3> QED  BY <1>2, <2>2, <3>1 DEF Sized
  <2>5. bulk_reply(buf, line) = Done(Nil, line.next)  BY <2>4 DEF bulk_reply
  <2>6. parse_reply_at(buf, pos, nested) = bulk_reply(buf, line)
    BY <1>8, <2>1, <2>2, <2>3 DEF parse_reply_at
  <2> QED  BY <2>2, <2>5, <2>6
<1>9. Holds(buf, pos, bytes)  BY <1>6
<1>10. Reads(parse_reply_at(buf, pos, nested), Nil, pos, bytes, buf)
  BY <1>2, <1>3, <1>4, <1>7, <1>8, <1>9, LineReply
<1> QED  BY <1>6, <1>10

\* A length in its limit is written as a number that is read.
LEMMA LengthNumber ==
    ASSUME NEW n \in 0..MAX_BULK_LEN \cup 0..MAX_ARRAY_LEN
    PROVE  n \in Nat /\ to_string(n) \in Lines /\ parse_i64_strict(to_string(n)) = {n}
<1>1. n \in Nat /\ n <= I64Max
  <2>1. MAX_BULK_LEN <= I64Max /\ MAX_ARRAY_LEN <= I64Max  BY LimitsAssumption
  <2> QED  BY <2>1, Limits
<1>2. PICK text : text = decimal[n]  OBVIOUS
<1>3. text \in Text /\ (\A i \in 1..Len(text) : text[i] \in Digits) /\ Len(text) \in Nat
  BY <1>1, <1>2, DecimalType DEF Text
<1>4. to_string(n) = text  BY <1>1, <1>2 DEF to_string
<1>5. Len(text) + 1 <= MAX_INLINE_LEN
  <2>1. Len(to_string(n)) + 2 <= MAX_INLINE_LEN  BY LimitsAssumption
  <2> QED  BY <1>3, <1>4, <2>1, Limits
<1>6. \A i \in 1..(Len(text) - 1) : ~Ends(text, i)
  <2>1. \A i \in 1..(Len(text) - 1) : i \in 1..Len(text)  BY <1>3
  <2> QED  BY <1>3, <2>1, DigitsPlain DEF Ends
<1>7. parse_i64_strict(text) = {n}
  <2>1. -(I64Max + 1) \in Int /\ I64Max \in Int /\ n \in (-(I64Max + 1))..I64Max  BY <1>1, Limits
  <2> QED  BY <1>1, <1>2, <2>1, ParseDecimal DEF parse_i64_strict
<1> QED  BY <1>1, <1>3, <1>4, <1>5, <1>6, <1>7 DEF Lines

\* A bulk string in a reply is read as it was written, or waited for.
LEMMA BulkReplyRead ==
    ASSUME NEW buf \in Text, NEW pos \in Pos, NEW data \in Payloads, NEW nested, NEW deeper,
           Holds(buf, pos, Written(Bulk(data), deeper))
    PROVE  Reads(parse_reply_at(buf, pos, nested), Bulk(data), pos, Written(Bulk(data), deeper), buf)
<1>1. PICK r : r = Bulk(data)  OBVIOUS
<1>2. r.type = "Bulk" /\ r.data = data  BY <1>1 DEF Bulk
<1>3. PICK bytes : bytes = Written(r, deeper)  OBVIOUS
<1>4. bytes = encode_bulk(data)  BY <1>2, <1>3 DEF Written
<1>5. PICK n \in Nat : n = Len(data) /\ data \in Text /\ n \in 0..MAX_BULK_LEN
  BY Limits DEF Payloads, Text
<1>6. PICK text : text = to_string(n)  OBVIOUS
<1>7. text \in Lines /\ parse_i64_strict(text) = {n}  BY <1>5, <1>6, LengthNumber
<1>8. PICK body : body = data \o CRLF  OBVIOUS
<1>9. body \in Text /\ Len(body) = n + 2
  <2>1. body \in Text /\ Len(body) = Len(data) + Len(CRLF)  BY <1>5, <1>8, CrlfText, ConcatText
  <2> QED  BY <1>5, <2>1, CrlfText
<1>10. PICK sigil : sigil = <<"$">>  OBVIOUS
<1>11. sigil \in Text /\ Len(sigil) = 1 /\ "$" \in Sigils  BY <1>10, Framing DEF Sigils
<1>12. bytes = sigil \o text \o CRLF \o body
  <2>1. PICK s : s = sigil \o text \o CRLF  OBVIOUS
  <2>2. s \in Text
    <3>1. text \in Text  BY <1>7 DEF Lines
    <3> QED  BY <1>11, <2>1, <3>1, CrlfText, TextConcat
  <2>3. bytes = s \o data \o CRLF  BY <1>4, <1>5, <1>6, <1>10, <2>1 DEF encode_bulk
  <2>4. s \o data \o CRLF = s \o (data \o CRLF)  BY <1>5, <2>2, CrlfText, ConcatAssociative DEF Text
  <2> QED  BY <1>8, <2>1, <2>3, <2>4
<1>13. PICK len : len = Len(text)  OBVIOUS
<1>14. Holds(buf, pos, bytes)  BY <1>1, <1>3
<1>15. LineHeld(buf, pos, sigil, text, len, body, bytes)
  BY <1>7, <1>9, <1>11, <1>12, <1>13, <1>14, HoldsLine
<1>16. len \in Nat /\ Len(bytes) = len + n + 5 /\ Holds(buf, pos + len + 3, body)
  <2>1. len \in Nat /\ Len(bytes) = len + Len(body) + 3 /\ Holds(buf, pos + len + 3, body)
    BY <1>15 DEF LineHeld
  <2> QED  BY <1>5, <1>9, <2>1
<1>17. PICK p : p = pos + len + 3  OBVIOUS
<1>18. p \in Pos /\ p \in Nat /\ Len(buf) \in Nat /\ pos \in Nat  BY <1>16, <1>17 DEF Pos, Text
<1>19. Holds(buf, p, data) /\ Holds(buf, p + n, CRLF)
  BY <1>5, <1>8, <1>16, <1>17, <1>18, CrlfText, HoldsParts
<1>20. PICK load : load = Payload(buf, p, n)  OBVIOUS
<1>21. load = IF Len(buf) >= p + n + 1 THEN Done(data, p + n + 2) ELSE Incomplete
  BY <1>5, <1>18, <1>19, <1>20, PayloadRead
<1>22. p + n + 1 = pos + (len + n + 5) - 1 /\ p + n + 2 = pos + (len + n + 5)
  BY <1>16, <1>17, <1>18
<1>23. ASSUME buf[pos] = "$", read_line(buf, pos + 1, pos + 1) = Done(text, pos + len + 3),
              pos <= Len(buf), Len(buf) >= pos + len + 2
       PROVE  Reads(parse_reply_at(buf, pos, nested), r, pos, bytes, buf)
  <2>1. PICK line : line = read_line(buf, pos + 1, pos + 1)  OBVIOUS
  <2>2. line.out = "Complete" /\ line.value = text /\ line.next = p
    BY <1>17, <1>23, <2>1, DoneFields
  <2>3. ~(pos > Len(buf))  BY <1>18, <1>23
  <2>4. PICK opt : opt = Sized(line, MAX_BULK_LEN)  OBVIOUS
  <2>5. opt = {n}
    <3>1. n \in -1..MAX_BULK_LEN  BY <1>5, Limits
    <3> QED  BY <1>7, <2>2, <2>4, <3>1 DEF Sized
  <2>6. opt # {} /\ opt # {-1} /\ The(opt) = n
    <3>1. n # -1  OBVIOUS
    <3> QED  BY <2>5, <3>1, TheOne
  <2>7. parse_reply_at(buf, pos, nested) = bulk_reply(buf, line)
    BY <1>23, <2>1, <2>2, <2>3 DEF parse_reply_at
  <2>8. CASE Len(buf) >= p + n + 1
    <3>1. load.out = "Complete" /\ load.value = data /\ load.next = p + n + 2
      BY <1>21, <2>8, DoneFields
    <3>2. bulk_reply(buf, line) = Done(Bulk(load.value), load.next)
      BY <1>20, <2>2, <2>4, <2>6, <3>1 DEF bulk_reply
    <3>3. bulk_reply(buf, line) = Done(r, pos + (len + n + 5))  BY <1>1, <1>22, <3>1, <3>2
    <3> QED  BY <1>16, <1>22, <2>7, <2>8, <3>3 DEF Reads
  <2>9. CASE ~(Len(buf) >= p + n + 1)
    <3>1. load = Incomplete /\ load.out # "Complete"  BY <1>21, <2>9, OutcomeFields
    <3>2. bulk_reply(buf, line) = load
      BY <1>20, <2>2, <2>4, <2>6, <3>1 DEF bulk_reply
    <3> QED  BY <1>16, <1>22, <2>7, <2>9, <3>1, <3>2 DEF Reads
  <2> QED  BY <2>8, <2>9
<1>24. Reads(parse_reply_at(buf, pos, nested), r, pos, bytes, buf)
  BY <1>10, <1>11, <1>15, <1>23, ReplyRead
<1> QED  BY <1>1, <1>3, <1>24

\* A reply that is not an array is read as it is written.
LEMMA FlatRead ==
    ASSUME NEW buf \in Text, NEW pos \in Pos, NEW r \in FramedFlat, NEW nested, NEW deeper,
           Holds(buf, pos, Written(r, deeper))
    PROVE  Reads(parse_reply_at(buf, pos, nested), r, pos, Written(r, deeper), buf)
<1>1. ASSUME NEW t \in Lines, r = Simple(t) \/ r = Error(t)
      PROVE  Reads(parse_reply_at(buf, pos, nested), r, pos, Written(r, deeper), buf)
  BY <1>1, TextReplyRead
<1>2. ASSUME NEW n \in Numbers, r = Integer(n)
      PROVE  Reads(parse_reply_at(buf, pos, nested), r, pos, Written(r, deeper), buf)
  BY <1>2, IntegerReplyRead
<1>3. ASSUME NEW t \in Payloads, r = Bulk(t)
      PROVE  Reads(parse_reply_at(buf, pos, nested), r, pos, Written(r, deeper), buf)
  BY <1>3, BulkReplyRead
<1>4. CASE r = Nil  BY <1>4, NilRead
<1> QED  BY <1>1, <1>2, <1>3, <1>4 DEF FramedFlat

\* An array is read as it is written when its elements are.
LEMMA ArrayRead ==
    ASSUME NEW buf \in Text, NEW pos \in Pos, NEW R, NEW s \in Seq(R), Len(s) <= MAX_ARRAY_LEN,
           NEW nested, NEW deeper, \A x \in R : deeper[x] \in Text,
           \A q \in Pos : \A x \in R :
               Holds(buf, q, deeper[x]) => Reads(nested[q], x, q, deeper[x], buf),
           Holds(buf, pos, Written(Array(s), deeper))
    PROVE  Reads(parse_reply_at(buf, pos, nested), Array(s), pos, Written(Array(s), deeper), buf)
<1>1. PICK r : r = Array(s)  OBVIOUS
<1>2. r.type = "Array" /\ r.items = s  BY <1>1 DEF Array
<1>3. PICK bytes : bytes = Written(r, deeper)  OBVIOUS
<1>4. PICK n \in Nat : n = Len(s) /\ n \in 0..MAX_ARRAY_LEN  BY Limits
<1>5. PICK parts : parts = [i \in 1..n |-> deeper[s[i]]]  OBVIOUS
<1>6. parts \in Seq(Text) /\ Len(parts) = n
  <2>1. \A i \in 1..n : deeper[s[i]] \in Text  BY <1>4, ElementOfSeq
  <2> QED  BY <1>5, <2>1
<1>7. PICK f : Joins(f, parts)  BY <1>6, FlattenJoins
<1>8. PICK body : body = FlattenSeq(parts)  OBVIOUS
<1>9. body \in Text /\ Len(body) \in Nat /\ Len(buf) \in Nat  BY <1>6, <1>8, FlattenType DEF Text
<1>10. PICK text : text = to_string(n)  OBVIOUS
<1>11. text \in Lines /\ parse_i64_strict(text) = {n}  BY <1>4, <1>10, LengthNumber
<1>12. PICK sigil : sigil = <<"*">>  OBVIOUS
<1>13. sigil \in Text /\ Len(sigil) = 1 /\ "*" \in Sigils  BY <1>12, Framing DEF Sigils
<1>14. bytes = sigil \o text \o CRLF \o body
  BY <1>2, <1>3, <1>4, <1>5, <1>8, <1>10, <1>12 DEF Written
<1>15. PICK len : len = Len(text)  OBVIOUS
<1>16. Holds(buf, pos, bytes)  BY <1>1, <1>3
<1>17. LineHeld(buf, pos, sigil, text, len, body, bytes)
  BY <1>9, <1>11, <1>13, <1>14, <1>15, <1>16, HoldsLine
<1>18. len \in Nat /\ Len(bytes) = len + Len(body) + 3 /\ Holds(buf, pos + len + 3, body)
  BY <1>17 DEF LineHeld
<1>19. PICK p : p = pos + len + 3  OBVIOUS
<1>20. p \in Pos /\ p \in Nat /\ pos \in Nat  BY <1>18, <1>19 DEF Pos
<1>21. Holds(buf, p, FlattenSeq(parts))  BY <1>8, <1>18, <1>19
<1>22. ASSUME NEW i \in 1..n
       PROVE  Reads(nested[p + Len(f[i - 1])], s[i], p + Len(f[i - 1]), parts[i], buf)
  <2>1. Holds(buf, p + Len(f[i - 1]), parts[i]) /\ Len(f[i - 1]) \in Nat
    BY <1>6, <1>7, <1>20, <1>21, HoldsJoined
  <2>2. PICK q : q = p + Len(f[i - 1])  OBVIOUS
  <2>3. q \in Pos  BY <1>20, <2>1, <2>2 DEF Pos
  <2>4. PICK x : x = s[i]  OBVIOUS
  <2>5. x \in R /\ parts[i] = deeper[x]  BY <1>4, <1>5, <2>4, ElementOfSeq
  <2>6. Reads(nested[q], x, q, deeper[x], buf)  BY <2>1, <2>2, <2>3, <2>5
  <2> QED  BY <2>2, <2>4, <2>5, <2>6
<1>23. PICK items : items = Collect(nested, p, n)  OBVIOUS
<1>24. ASSUME p <= Len(buf) + 1 PROVE Reads(items, s, p, body, buf)
  <2>1. Len(parts) = Len(s)  BY <1>4, <1>6
  <2>2. \A i \in 1..Len(s) :
          Reads(nested[p + Len(f[i - 1])], s[i], p + Len(f[i - 1]), parts[i], buf)
    BY <1>4, <1>22
  <2>3. Reads(Collect(nested, p, Len(s)), s, p, FlattenSeq(parts), buf)
    BY <1>6, <1>7, <1>20, <1>24, <2>1, <2>2, CollectReads
  <2> QED  BY <1>4, <1>8, <1>23, <2>3
<1>25. p + Len(body) - 1 = pos + (len + Len(body) + 3) - 1
       /\ p + Len(body) = pos + (len + Len(body) + 3)
  BY <1>9, <1>18, <1>19, <1>20
<1>26. ASSUME buf[pos] = "*", read_line(buf, pos + 1, pos + 1) = Done(text, pos + len + 3),
              pos <= Len(buf), Len(buf) >= pos + len + 2
       PROVE  Reads(parse_reply_at(buf, pos, nested), r, pos, bytes, buf)
  <2>1. PICK line : line = read_line(buf, pos + 1, pos + 1)  OBVIOUS
  <2>2. line.out = "Complete" /\ line.value = text /\ line.next = p
    BY <1>19, <1>26, <2>1, DoneFields
  <2>3. ~(pos > Len(buf)) /\ p <= Len(buf) + 1  BY <1>9, <1>18, <1>19, <1>20, <1>26
  <2>4. PICK opt : opt = Sized(line, MAX_ARRAY_LEN)  OBVIOUS
  <2>5. opt = {n}
    <3>1. n \in -1..MAX_ARRAY_LEN  BY <1>4, Limits
    <3> QED  BY <1>11, <2>2, <2>4, <3>1 DEF Sized
  <2>6. opt # {} /\ opt # {-1} /\ The(opt) = n
    <3>1. n # -1  OBVIOUS
    <3> QED  BY <2>5, <3>1, TheOne
  <2>7. parse_reply_at(buf, pos, nested) = array_reply(buf, line, nested)
    BY <1>26, <2>1, <2>2, <2>3 DEF parse_reply_at
  <2>8. items = IF Len(buf) >= p + Len(body) - 1 THEN Done(s, p + Len(body)) ELSE Incomplete
    BY <1>24, <2>3 DEF Reads
  <2>9. CASE Len(buf) >= p + Len(body) - 1
    <3>1. items.out = "Complete" /\ items.value = s /\ items.next = p + Len(body)
      BY <2>8, <2>9, DoneFields
    <3>2. array_reply(buf, line, nested) = Done(Array(items.value), items.next)
      BY <1>23, <2>2, <2>4, <2>6, <3>1 DEF array_reply
    <3>3. array_reply(buf, line, nested) = Done(r, pos + (len + Len(body) + 3))
      BY <1>1, <1>25, <3>1, <3>2
    <3> QED  BY <1>18, <1>25, <2>7, <2>9, <3>3 DEF Reads
  <2>10. CASE ~(Len(buf) >= p + Len(body) - 1)
    <3>1. items = Incomplete /\ items.out # "Complete"  BY <2>8, <2>10, OutcomeFields
    <3>2. array_reply(buf, line, nested) = items
      BY <1>23, <2>2, <2>4, <2>6, <3>1 DEF array_reply
    <3> QED  BY <1>18, <1>25, <2>7, <2>10, <3>1, <3>2 DEF Reads
  <2> QED  BY <2>9, <2>10
<1>27. Reads(parse_reply_at(buf, pos, nested), r, pos, bytes, buf)
  BY <1>12, <1>13, <1>17, <1>26, ReplyRead
<1> QED  BY <1>1, <1>3, <1>27

\* What write_to writes is what parse_reply reads, and nothing before it has all
\* arrived.
LEMMA WrittenRead ==
    ASSUME NEW buf \in Text, NEW r \in Framed2, Holds(buf, 1, write_to(r))
    PROVE  Reads(parse_reply(buf), r, 1, write_to(r), buf)
<1>1. PICK nested0, nested1, nested2 :
        /\ nested1 = [x \in Replies1 |-> Written(x, nested0)]
        /\ nested0 = [x \in FlatReplies |-> Written(x, nested2)]
        /\ \A x \in Replies2 : write_to(x) = Written(x, nested1)
  BY WriteTo
<1>2. PICK at : Levels(at, buf) /\ parse_reply(buf) = at[MAX_REPLY_DEPTH + 1][1]  BY ReplyLevels
<1>3. PICK n \in Nat : n + 1 + 1 = MAX_REPLY_DEPTH
  <2>1. 2 <= MAX_REPLY_DEPTH /\ MAX_REPLY_DEPTH \in Nat
    BY RepliesAssumption, ProtoAssumption DEF Nesting
  <2>2. MAX_REPLY_DEPTH - 2 \in Nat /\ (MAX_REPLY_DEPTH - 2) + 1 + 1 = MAX_REPLY_DEPTH  BY <2>1
  <2> QED  BY <2>2
<1>4. ASSUME NEW m \in Nat, NEW q \in Pos PROVE at[m + 1][q] = parse_reply_at(buf, q, at[m])
  BY <1>2 DEF Levels, Pos
<1>5. ASSUME NEW m \in Nat, NEW x \in FramedFlat, NEW q \in Pos, NEW deeper,
             Holds(buf, q, Written(x, deeper))
      PROVE  Reads(at[m + 1][q], x, q, Written(x, deeper), buf)
  BY <1>4, <1>5, FlatRead
<1>6. ASSUME NEW R, NEW deeper, NEW m \in Nat, \A x \in R : deeper[x] \in Text,
             \A q \in Pos : \A x \in R :
                 Holds(buf, q, deeper[x]) => Reads(at[m][q], x, q, deeper[x], buf)
      PROVE  \A x \in FramedArrays(R) : \A q \in Pos :
                 Holds(buf, q, Written(x, deeper)) =>
                     Reads(at[m + 1][q], x, q, Written(x, deeper), buf)
  <2> SUFFICES ASSUME NEW x \in FramedArrays(R), NEW q \in Pos, Holds(buf, q, Written(x, deeper))
               PROVE  Reads(at[m + 1][q], x, q, Written(x, deeper), buf)
    OBVIOUS
  <2>1. PICK s \in Seq(R) : Len(s) <= MAX_ARRAY_LEN /\ x = Array(s)  BY DEF FramedArrays
  <2>2. PICK nested : nested = at[m]  OBVIOUS
  <2>3. Reads(parse_reply_at(buf, q, nested), x, q, Written(x, deeper), buf)
    BY <1>6, <2>1, <2>2, ArrayRead
  <2> QED  BY <1>4, <2>2, <2>3
<1>7. \A x \in FramedFlat : nested0[x] = Written(x, nested2) /\ nested0[x] \in Text
  BY <1>1, FramedForms, FlatWritten
<1>8. \A q \in Pos : \A x \in FramedFlat :
          Holds(buf, q, nested0[x]) => Reads(at[n + 1][q], x, q, nested0[x], buf)
  BY <1>5, <1>7
<1>9. \A x \in FramedArrays(FramedFlat) : \A q \in Pos :
          Holds(buf, q, Written(x, nested0)) =>
              Reads(at[n + 1 + 1][q], x, q, Written(x, nested0), buf)
  <2>1. n + 1 \in Nat  OBVIOUS
  <2> QED  BY <1>6, <1>7, <1>8, <2>1
<1>10. \A x \in Framed1 : nested1[x] = Written(x, nested0) /\ nested1[x] \in Text
  <2>1. \A x \in Framed1 : nested1[x] = Written(x, nested0)  BY <1>1, FramedForms
  <2>2. \A x \in FramedFlat : Written(x, nested0) \in Text  BY FramedForms, FlatWritten
  <2>3. \A x \in FramedArrays(FramedFlat) : Written(x, nested0) \in Text
    <3>1. FramedArrays(FramedFlat) \subseteq Arrays(FramedFlat)
      BY DEF FramedArrays, Arrays, Array
    <3> QED  BY <1>7, <3>1, ArrayWritten
  <2> QED  BY <2>1, <2>2, <2>3 DEF Framed1
<1>11. \A q \in Pos : \A x \in Framed1 :
          Holds(buf, q, nested1[x]) => Reads(at[n + 1 + 1][q], x, q, nested1[x], buf)
  <2> SUFFICES ASSUME NEW q \in Pos, NEW x \in Framed1, Holds(buf, q, nested1[x])
               PROVE  Reads(at[n + 1 + 1][q], x, q, nested1[x], buf)
    OBVIOUS
  <2>1. n + 1 \in Nat /\ nested1[x] = Written(x, nested0)  BY <1>10
  <2>2. CASE x \in FramedFlat  BY <1>5, <2>1, <2>2
  <2>3. CASE x \in FramedArrays(FramedFlat)  BY <1>9, <2>1, <2>3
  <2> QED  BY <2>2, <2>3 DEF Framed1
<1>12. write_to(r) = Written(r, nested1)  BY <1>1, FramedForms
<1>13. n + 1 + 1 \in Nat /\ 1 \in Pos  BY DEF Pos
<1>14. PICK one \in Pos : one = 1  BY <1>13
<1>15. Reads(at[n + 1 + 1 + 1][one], r, one, Written(r, nested1), buf)
  <2>1. Holds(buf, one, Written(r, nested1))  BY <1>12, <1>14
  <2>2. CASE r \in FramedFlat  BY <1>5, <1>13, <2>1, <2>2
  <2>3. CASE r \in FramedArrays(Framed1)  BY <1>6, <1>10, <1>11, <1>13, <2>1, <2>3
  <2> QED  BY <2>2, <2>3 DEF Framed2
<1> QED  BY <1>2, <1>3, <1>12, <1>14, <1>15

-----------------------------------------------------------------------------
(***************************************************************************)
(* A stream, of which some has been consumed, some has arrived and the     *)
(* rest is under way.                                                      *)
(***************************************************************************)
\* buf is what follows offset in whole.
Follows(buf, whole, offset) == \A i \in 1..Len(buf) : buf[i] = whole[offset + i]

Split(whole, past, buf, under) ==
    /\ past + Len(buf) + Len(under) = Len(whole)
    /\ Follows(buf, whole, past) /\ Follows(under, whole, past + Len(buf))

\* A byte arrives.
LEMMA SplitArrives ==
    ASSUME NEW whole, NEW past \in Nat, NEW buf \in Text, NEW under \in Text,
           Split(whole, past, buf, under), under # <<>>
    PROVE  Split(whole, past, Append(buf, Head(under)), Tail(under))
<1>3. PICK b : b = Head(under)  OBVIOUS
<1>4. PICK rest : rest = Tail(under)  OBVIOUS
<1>5. PICK more : more = Append(buf, b)  OBVIOUS
<1>6. Len(buf) \in Nat /\ Len(under) \in Nat /\ Len(under) # 0 /\ b = under[1] /\ b \in Byte
  BY <1>3, EmptySeq DEF Text
<1>7. rest \in Text /\ Len(rest) = Len(under) - 1 /\ \A i \in 1..Len(rest) : rest[i] = under[i + 1]
  BY <1>4, HeadTailProperties DEF Text
<1>8. Len(more) = Len(buf) + 1 /\ (\A i \in 1..Len(buf) : more[i] = buf[i]) /\ more[Len(buf) + 1] = b
  BY <1>5, <1>6, AppendProperties DEF Text
<1>9. /\ past + Len(buf) + Len(under) = Len(whole) /\ Follows(buf, whole, past)
      /\ Follows(under, whole, past + Len(buf))
  BY DEF Split
<1>10. past + Len(more) + Len(rest) = Len(whole)
  <2>1. PICK m \in Nat : m = Len(buf)  BY <1>6
  <2>2. PICK u \in Nat : u = Len(under)  BY <1>6
  <2>3. Len(more) = m + 1 /\ Len(rest) = u - 1 /\ past + m + u = Len(whole)
    BY <1>7, <1>8, <1>9, <2>1, <2>2
  <2>4. past + (m + 1) + (u - 1) = past + m + u  OBVIOUS
  <2> QED  BY <2>3, <2>4
<1>11. Follows(more, whole, past)
  <2> SUFFICES ASSUME NEW i \in 1..Len(more) PROVE more[i] = whole[past + i]  BY DEF Follows
  <2>1. CASE i \in 1..Len(buf)  BY <1>8, <1>9, <2>1 DEF Follows
  <2>2. CASE i \notin 1..Len(buf)
    <3>1. i = Len(buf) + 1 /\ 1 \in 1..Len(under) /\ past + i = past + Len(buf) + 1
      BY <1>6, <1>8, <2>2
    <3>2. under[1] = whole[past + Len(buf) + 1]  BY <1>9, <3>1 DEF Follows
    <3> QED  BY <1>6, <1>8, <3>1, <3>2
  <2> QED  BY <2>1, <2>2
<1>12. Follows(rest, whole, past + Len(more))
  <2> SUFFICES ASSUME NEW i \in 1..Len(rest) PROVE rest[i] = whole[past + Len(more) + i]
    BY DEF Follows
  <2>1. i + 1 \in 1..Len(under) /\ past + Len(buf) + (i + 1) = past + Len(more) + i
    BY <1>6, <1>7, <1>8
  <2>2. under[i + 1] = whole[past + Len(buf) + (i + 1)]  BY <1>9, <2>1 DEF Follows
  <2> QED  BY <1>7, <2>1, <2>2
<1> QED  BY <1>3, <1>4, <1>5, <1>10, <1>11, <1>12 DEF Split

\* size bytes are consumed.
LEMMA SplitConsumed ==
    ASSUME NEW whole, NEW past \in Nat, NEW buf \in Text, NEW under \in Text,
           Split(whole, past, buf, under), NEW size \in Nat, size <= Len(buf)
    PROVE  Split(whole, past + size, SubSeq(buf, 1 + size, Len(buf)), under)
<1>1. Len(buf) \in Nat /\ Len(under) \in Nat  BY DEF Text
<1>2. /\ past + Len(buf) + Len(under) = Len(whole) /\ Follows(buf, whole, past)
      /\ Follows(under, whole, past + Len(buf))
  BY DEF Split
<1>3. PICK left : left = SubSeq(buf, 1 + size, Len(buf))  OBVIOUS
<1>4. /\ Len(left) = Len(buf) - size
      /\ \A i \in 1..Len(left) : left[i] = buf[size + i]
  <2>1. \A i \in (1 + size)..Len(buf) : buf[i] \in Byte
    <3>1. \A i \in (1 + size)..Len(buf) : i \in 1..Len(buf)  BY <1>1
    <3> QED  BY <3>1, ElementOfSeq DEF Text
  <2>2. 1 + size \in Int /\ Len(buf) \in Int  BY <1>1
  <2>3. /\ Len(left) = (IF 1 + size <= Len(buf) THEN Len(buf) - (1 + size) + 1 ELSE 0)
        /\ \A i \in 1..(Len(buf) - (1 + size) + 1) : left[i] = buf[(1 + size) + i - 1]
    BY <1>3, <2>1, <2>2, SubSeqProperties
  <2>4. Len(left) = Len(buf) - size  BY <1>1, <2>3
  <2>5. \A i \in 1..Len(left) : i \in 1..(Len(buf) - (1 + size) + 1) /\ (1 + size) + i - 1 = size + i
    BY <1>1, <2>4
  <2> QED  BY <2>3, <2>4, <2>5
<1>5. PICK p \in Nat : p = past + size  OBVIOUS
<1>6. p + Len(left) + Len(under) = Len(whole)
  <2>1. PICK m \in Nat, u \in Nat : m = Len(buf) /\ u = Len(under)  BY <1>1
  <2>2. (past + size) + (m - size) + u = past + m + u  OBVIOUS
  <2> QED  BY <1>2, <1>4, <1>5, <2>1, <2>2
<1>7. Follows(left, whole, p)
  <2> SUFFICES ASSUME NEW i \in 1..Len(left) PROVE left[i] = whole[p + i]  BY DEF Follows
  <2>1. size + i \in 1..Len(buf) /\ past + (size + i) = p + i  BY <1>1, <1>4, <1>5
  <2>2. buf[size + i] = whole[past + (size + i)]  BY <1>2, <2>1 DEF Follows
  <2> QED  BY <1>4, <2>1, <2>2
<1>8. Follows(under, whole, p + Len(left))
  <2>1. p + Len(left) = past + Len(buf)  BY <1>1, <1>4, <1>5
  <2> QED  BY <1>2, <2>1
<1> QED  BY <1>3, <1>5, <1>6, <1>7, <1>8 DEF Split

\* The stream goes on.
LEMMA SplitSent ==
    ASSUME NEW whole \in Text, NEW past \in Nat, NEW buf \in Text, NEW under \in Text,
           Split(whole, past, buf, under), NEW bytes \in Text
    PROVE  Split(whole \o bytes, past, buf, under \o bytes)
<1>1. PICK longer : longer = whole \o bytes  OBVIOUS
<1>2. PICK more : more = under \o bytes  OBVIOUS
<1>3. PICK m \in Nat, u \in Nat, s \in Nat, all \in Nat :
        m = Len(buf) /\ u = Len(under) /\ s = Len(bytes) /\ all = Len(whole)
  BY DEF Text
<1>4. Len(longer) = all + s /\ Len(more) = u + s  BY <1>1, <1>2, <1>3, ConcatText
<1>5. /\ past + m + u = all /\ Follows(buf, whole, past) /\ Follows(under, whole, past + m)
  BY <1>3 DEF Split
<1>6. \A i \in 1..all : longer[i] = whole[i]  BY <1>1, <1>3, ConcatAt
<1>7. \A i \in 1..s : longer[all + i] = bytes[i]  BY <1>1, <1>3, ConcatAt
<1>8. \A i \in 1..u : more[i] = under[i]  BY <1>2, <1>3, ConcatAt
<1>9. \A i \in 1..s : more[u + i] = bytes[i]  BY <1>2, <1>3, ConcatAt
<1>10. Follows(buf, longer, past)
  <2> SUFFICES ASSUME NEW i \in 1..m PROVE buf[i] = longer[past + i]  BY <1>3 DEF Follows
  <2>1. past + i \in 1..all  BY <1>5
  <2> QED  BY <1>3, <1>5, <1>6, <2>1 DEF Follows
<1>11. Follows(more, longer, past + m)
  <2> SUFFICES ASSUME NEW i \in 1..(u + s) PROVE more[i] = longer[past + m + i]
    BY <1>4 DEF Follows
  <2>1. CASE i <= u
    <3>1. i \in 1..u /\ past + m + i \in 1..all  BY <1>5, <2>1
    <3> QED  BY <1>3, <1>5, <1>6, <1>8, <3>1 DEF Follows
  <2>2. CASE ~(i <= u)
    <3>1. PICK j : j = i - u  OBVIOUS
    <3>2. j \in 1..s /\ i = u + j /\ past + m + i = all + j  BY <1>5, <2>2, <3>1
    <3> QED  BY <1>7, <1>9, <3>2
  <2> QED  BY <2>1, <2>2
<1>12. past + m + (u + s) = all + s  BY <1>5
<1> QED  BY <1>1, <1>2, <1>3, <1>4, <1>10, <1>11, <1>12 DEF Split

\* What has arrived holds what the stream holds behind what has been consumed.
LEMMA SplitHolds ==
    ASSUME NEW whole \in Text, NEW past \in Nat, NEW buf \in Text, NEW under \in Text,
           Split(whole, past, buf, under), NEW bytes \in Text, Holds(whole, 1 + past, bytes)
    PROVE  Holds(buf, 1, bytes)
<1> SUFFICES ASSUME NEW i \in 1..Len(bytes), 1 + i - 1 <= Len(buf) PROVE buf[1 + i - 1] = bytes[i]
  BY DEF Holds
<1>1. Len(buf) \in Nat /\ Len(under) \in Nat /\ Len(whole) \in Nat /\ Len(bytes) \in Nat  BY DEF Text
<1>2. i \in Nat /\ 1 + i - 1 = i /\ i \in 1..Len(buf)  BY <1>1
<1>3. buf[i] = whole[past + i]  BY <1>2 DEF Split, Follows
<1>4. (1 + past) + i - 1 = past + i /\ past + i <= Len(whole)
  <2>1. past + Len(buf) + Len(under) = Len(whole)  BY DEF Split
  <2> QED  BY <1>1, <1>2, <2>1
<1>5. whole[(1 + past) + i - 1] = bytes[i]  BY <1>4 DEF Holds
<1> QED  BY <1>2, <1>3, <1>4, <1>5

\* Behind the first n parts, what has arrived is the beginning of the next one.
LEMMA NextPart ==
    ASSUME NEW parts \in Seq(Text), NEW f, Chain(f, parts), NEW n \in Nat, n <= Len(parts),
           NEW buf \in Text, NEW under \in Text, Split(f[Len(parts)], Len(f[n]), buf, under)
    PROVE  \/ n = Len(parts) /\ buf = <<>>
           \/ /\ n + 1 \in 1..Len(parts) /\ parts[n + 1] \in Text /\ Holds(buf, 1, parts[n + 1])
              /\ Len(f[n + 1]) = Len(f[n]) + Len(parts[n + 1])
<1>1. PICK whole : whole = f[Len(parts)]  OBVIOUS
<1>2. Len(parts) \in Nat /\ \A m \in Nat : f[m] \in Text  BY DEF Chain
<1>3. whole \in Text  BY <1>1, <1>2
<1>4. PICK past \in Nat : past = Len(f[n])  BY <1>2 DEF Text
<1>5. Split(whole, past, buf, under)  BY <1>1, <1>4
<1>6. Len(buf) \in Nat /\ Len(under) \in Nat  BY DEF Text
<1>7. CASE n = Len(parts)
  <2>1. past + Len(buf) + Len(under) = past  BY <1>1, <1>4, <1>5, <1>7 DEF Split
  <2>2. Len(buf) = 0  BY <1>6, <2>1
  <2> QED  BY <1>7, <2>2, EmptySeq DEF Text
<1>8. CASE n # Len(parts)
  <2>1. n + 1 \in 1..Len(parts) /\ (n + 1) - 1 = n /\ 1 \in Pos  BY <1>2, <1>8 DEF Pos
  <2>2. Holds(whole, 1, whole)
    <3>1. \A i \in 1..Len(whole) : 1 + i - 1 = i  BY <1>3 DEF Text
    <3> QED  BY <3>1 DEF Holds
  <2>3. /\ Holds(whole, 1 + Len(f[(n + 1) - 1]), parts[n + 1]) /\ parts[n + 1] \in Text
        /\ Len(f[n + 1]) = Len(f[(n + 1) - 1]) + Len(parts[n + 1])
    <3>1. PICK one \in Pos : one = 1  BY <2>1
    <3>2. Holds(whole, one, f[Len(parts)])  BY <1>1, <2>2, <3>1
    <3>3. \A m \in 1..Len(parts) :
             /\ Holds(whole, one + Len(f[m - 1]), parts[m]) /\ parts[m] \in Text
             /\ Len(f[m]) = Len(f[m - 1]) + Len(parts[m]) /\ Len(f[m - 1]) \in Nat
      BY <3>2, HoldsChained
    <3> QED  BY <2>1, <3>1, <3>3
  <2>4. Holds(buf, 1, parts[n + 1])  BY <1>3, <1>4, <1>5, <2>1, <2>3, SplitHolds
  <2> QED  BY <2>1, <2>3, <2>4
<1> QED  BY <1>7, <1>8

-----------------------------------------------------------------------------
(***************************************************************************)
(* The server executes what the client has encoded.                        *)
(***************************************************************************)
Encoded(c) == [i \in 1..Len(c) |-> encode_command(c[i])]
Stream(c) == FlattenSeq(Encoded(c))

\* Where the commands behind the first n begin in the stream.
Offset(c, n) == Len(Joined(Encoded(c))[n])

\* Of the conversation c the commands done are behind, and what has arrived but
\* not been consumed and what is under way are the rest of the stream.
InStep(c, done, buf, under) ==
    /\ Len(done) <= Len(c) /\ \A i \in 1..Len(done) : done[i] = c[i]
    /\ Split(Stream(c), Offset(c, Len(done)), buf, under)

\* A conversation and the stream of bytes it is sent as.
LEMMA ConversationType ==
    ASSUME NEW c \in Conversations
    PROVE  /\ c \in Seq(Args) /\ Len(c) \in Nat
           /\ \A i \in 1..Len(c) : c[i] \in Args /\ c[i] # <<>> /\ Fits(c[i])
           /\ Encoded(c) \in Seq(Text) /\ Len(Encoded(c)) = Len(c)
           /\ Stream(c) \in Text /\ Joins(Joined(Encoded(c)), Encoded(c))
           /\ \A n \in Nat : Offset(c, n) \in Nat
<1>1. c \in Seq(Args)  BY SessionAssumption DEF Args, Text
<1>2. Len(c) \in Nat /\ \A i \in 1..Len(c) : c[i] \in Args  BY <1>1, ElementOfSeq
<1>3. \A i \in 1..Len(c) : c[i] # <<>> /\ Fits(c[i])  BY SessionAssumption
<1>4. \A i \in 1..Len(c) : encode_command(c[i]) \in Text  BY <1>2, EncodeCommandType
<1>5. Encoded(c) \in Seq(Text) /\ Len(Encoded(c)) = Len(c)  BY <1>2, <1>4 DEF Encoded
<1>6. Stream(c) \in Text /\ Joins(Joined(Encoded(c)), Encoded(c))
  BY <1>5, FlattenType, FlattenJoins DEF Stream
<1>7. \A n \in Nat : Offset(c, n) \in Nat
  <2>1. PICK f : f = Joined(Encoded(c))  OBVIOUS
  <2>2. f \in [Nat -> Text]  BY <1>6, <2>1 DEF Joins
  <2>3. \A n \in Nat : Len(f[n]) \in Nat  BY <2>2 DEF Text
  <2> QED  BY <2>1, <2>3 DEF Offset
<1> QED  BY <1>1, <1>2, <1>3, <1>5, <1>6, <1>7

\* A byte that arrives moves the cut between what is read and what is under way.
LEMMA StepArrive ==
    ASSUME NEW c \in Conversations, NEW done \in Seq(Args), NEW buf \in Text, NEW under \in Text,
           InStep(c, done, buf, under), under # <<>>
    PROVE  InStep(c, done, Append(buf, Head(under)), Tail(under))
<1>1. PICK past \in Nat : past = Offset(c, Len(done))  BY ConversationType
<1>2. PICK whole : whole = Stream(c)  OBVIOUS
<1>3. Split(whole, past, buf, under)  BY <1>1, <1>2 DEF InStep
<1>4. Split(whole, past, Append(buf, Head(under)), Tail(under))  BY <1>3, SplitArrives
<1> QED  BY <1>1, <1>2, <1>4 DEF InStep

\* What the parser finds in step is the next command of the conversation, and
\* never an error.
LEMMA StepParsed ==
    ASSUME NEW c \in Conversations, NEW done \in Seq(Args), NEW buf \in Text, NEW under \in Text,
           InStep(c, done, buf, under)
    PROVE  \/ parse_command(buf) = Incomplete
           \/ \E args \in Args, size \in Nat :
                 /\ parse_command(buf) = Done(args, 1 + size) /\ args # <<>>
                 /\ InStep(c, Append(done, args), SubSeq(buf, 1 + size, Len(buf)), under)
<1>1. PICK n \in Nat : n = Len(done)  OBVIOUS
<1>2. PICK f : f = Joined(Encoded(c))  OBVIOUS
<1>3. PICK parts : parts = Encoded(c)  OBVIOUS
<1>4. PICK whole : whole = Stream(c)  OBVIOUS
<1>5. Joins(f, parts) /\ parts \in Seq(Text) /\ Len(parts) = Len(c) /\ Len(c) \in Nat
  BY <1>2, <1>3, ConversationType
<1>6. Chain(f, parts) /\ whole = f[Len(parts)]  BY <1>3, <1>4, <1>5 DEF Joins, Chain, Stream
<1>7. \A m \in Nat : Offset(c, m) = Len(f[m])  BY <1>2 DEF Offset
<1>8. PICK past \in Nat : past = Len(f[n])  BY <1>7, ConversationType
<1>9. /\ n <= Len(c) /\ (\A i \in 1..n : done[i] = c[i]) /\ Split(whole, past, buf, under)
  BY <1>1, <1>4, <1>7, <1>8 DEF InStep
<1>10. \/ n = Len(parts) /\ buf = <<>>
       \/ /\ n + 1 \in 1..Len(parts) /\ parts[n + 1] \in Text /\ Holds(buf, 1, parts[n + 1])
          /\ Len(f[n + 1]) = Len(f[n]) + Len(parts[n + 1])
  <2>1. Split(f[Len(parts)], Len(f[n]), buf, under) /\ n <= Len(parts)  BY <1>5, <1>6, <1>8, <1>9
  <2> QED  BY <1>5, <1>6, <2>1, NextPart
<1>11. CASE buf = <<>>  BY <1>11 DEF parse_command
<1>12. CASE /\ n + 1 \in 1..Len(parts) /\ parts[n + 1] \in Text /\ Holds(buf, 1, parts[n + 1])
            /\ Len(f[n + 1]) = Len(f[n]) + Len(parts[n + 1])
  <2>1. PICK args : args = c[n + 1]  OBVIOUS
  <2>2. PICK bytes : bytes = parts[n + 1]  OBVIOUS
  <2>3. /\ args \in Args /\ args # <<>> /\ Fits(args) /\ bytes = encode_command(args)
        /\ bytes \in Text /\ Holds(buf, 1, bytes)
    BY <1>3, <1>5, <1>12, <2>1, <2>2, ConversationType DEF Encoded
  <2>4. Reads(parse_command(buf), args, 1, bytes, buf)  BY <2>3, CommandRead
  <2>5. PICK size \in Nat : size = Len(bytes)  BY <2>3 DEF Text
  <2>6. Len(buf) \in Nat  BY DEF Text
  <2>7. CASE Len(buf) >= 1 + size - 1
    <3>1. parse_command(buf) = Done(args, 1 + size)  BY <2>4, <2>5, <2>7 DEF Reads
    <3>2. size <= Len(buf)  BY <2>6, <2>7
    <3>3. PICK left : left = SubSeq(buf, 1 + size, Len(buf))  OBVIOUS
    <3>4. Split(whole, past + size, left, under)  BY <1>9, <3>2, <3>3, SplitConsumed
    <3>5. Offset(c, n + 1) = past + size
      <4>1. Offset(c, n + 1) = Len(f[n + 1])  BY <1>2 DEF Offset
      <4> QED  BY <1>8, <1>12, <2>2, <2>5, <4>1
    <3>6. PICK next : next = Append(done, args)  OBVIOUS
    <3>7. Len(next) = n + 1 /\ (\A i \in 1..n : next[i] = done[i]) /\ next[n + 1] = args
      BY <1>1, <2>3, <3>6, AppendProperties
    <3>8. n + 1 <= Len(c) /\ \A i \in 1..(n + 1) : next[i] = c[i]
      <4>1. \A i \in 1..(n + 1) : i \in 1..n \/ i = n + 1  OBVIOUS
      <4> QED  BY <1>5, <1>9, <1>12, <2>1, <3>7, <4>1
    <3>9. InStep(c, next, left, under)  BY <1>4, <3>4, <3>5, <3>7, <3>8 DEF InStep
    <3> QED  BY <2>3, <3>1, <3>3, <3>6, <3>9
  <2>8. CASE ~(Len(buf) >= 1 + size - 1)  BY <2>4, <2>5, <2>8 DEF Reads
  <2> QED  BY <2>7, <2>8
<1> QED  BY <1>10, <1>11, <1>12

\* An encoding client's session stays in step.
StreamInv ==
    sent # <<>> => /\ sent \in Conversations /\ typed = MaxTyped
                   /\ InStep(sent, executed, read_buf, input)

\* A new session satisfies the stream invariant.
LEMMA StreamInit == Init => StreamInv
<1> SUFFICES ASSUME Init, sent # <<>> PROVE StreamInv  BY DEF StreamInv
<1>1. /\ sent \in Conversations /\ typed = MaxTyped /\ input = Stream(sent)
      /\ read_buf = <<>> /\ executed = <<>>
  BY DEF Init, Stream, Encoded
<1>2. PICK f : f = Joined(Encoded(sent))  OBVIOUS
<1>3. f[0] = <<>>  BY <1>1, <1>2, ConversationType DEF Joins
<1>4. Offset(sent, 0) = 0  BY <1>2, <1>3 DEF Offset
<1>5. Len(input) \in Nat /\ Len(sent) \in Nat  BY <1>1, ConversationType DEF Text
<1>6. Len(executed) = 0 /\ Len(read_buf) = 0  BY <1>1
<1>7. Follows(input, Stream(sent), 0 + 0)
  <2>1. \A i \in 1..Len(input) : 0 + 0 + i = i  BY <1>5
  <2> QED  BY <1>1, <2>1 DEF Follows
<1>8. Follows(read_buf, Stream(sent), 0)  BY <1>6 DEF Follows
<1>9. 0 + 0 + Len(input) = Len(Stream(sent))  BY <1>1, <1>5
<1>10. Len(executed) <= Len(sent) /\ \A i \in 1..Len(executed) : executed[i] = sent[i]
  BY <1>5, <1>6
<1>11. InStep(sent, executed, read_buf, input)
  BY <1>4, <1>6, <1>7, <1>8, <1>9, <1>10 DEF InStep, Split
<1> QED  BY <1>1, <1>11 DEF StreamInv

\* What the server sees of an outcome of parse_command.
LEMMA ReadOutcome ==
    /\ parse_command(read_buf) = Incomplete => Parsed.out # "Invalid"
    /\ \A x, n : parse_command(read_buf) = Done(x, n) =>
          Parsed.out # "Invalid" /\ Parsed.value = x /\ Parsed.next = n
<1>1. PICK o : o = parse_command(read_buf)  OBVIOUS
<1>2. Parsed = o  BY <1>1 DEF Parsed
<1>3. o = Incomplete => o.out # "Invalid"  BY OutcomeFields
<1>4. ASSUME NEW x, NEW n, o = Done(x, n) PROVE o.out # "Invalid" /\ o.value = x /\ o.next = n
  BY <1>4, OutcomeFields
<1> QED  BY <1>1, <1>2, <1>3, <1>4

\* Every step of a session keeps the stream invariant.
LEMMA StreamStep == SessionInv /\ StreamInv /\ [Next]_vars => StreamInv'
<1> SUFFICES ASSUME SessionInv, StreamInv, [Next]_vars, sent' # <<>> PROVE StreamInv'
  BY DEF StreamInv
<1>0. read_buf \in Text /\ input \in Text /\ executed \in Seq(Args)  BY DEF SessionInv, SessionType
<1>1. sent' = sent
  BY DEF Next, Arrive, Type, Execute, Skip, Panic, Reject, Return, Take, vars, clientVars
<1>2. sent \in Conversations /\ typed = MaxTyped /\ InStep(sent, executed, read_buf, input)
  BY <1>1 DEF StreamInv
<1>3. \/ parse_command(read_buf) = Incomplete
      \/ \E args \in Args, size \in Nat :
            /\ parse_command(read_buf) = Done(args, 1 + size) /\ args # <<>>
            /\ InStep(sent, Append(executed, args),
                      SubSeq(read_buf, 1 + size, Len(read_buf)), input)
  BY <1>0, <1>2, StepParsed
<1>4. CASE Arrive
  <2>1. InStep(sent, executed, Append(read_buf, Head(input)), Tail(input))
    BY <1>0, <1>2, <1>4, StepArrive DEF Arrive
  <2> QED  BY <1>1, <1>2, <1>4, <2>1 DEF Arrive, StreamInv, clientVars
<1>5. ASSUME NEW b \in Keyboard, Type(b) PROVE FALSE
  <2>1. typed < MaxTyped  BY <1>5 DEF Type
  <2> QED  BY <1>2, <2>1, SessionAssumption
<1>6. ASSUME Parsed.out = "Complete"
      PROVE  Parsed.value # <<>> /\ InStep(sent, Append(executed, Parsed.value), Consumed, input)
  <2>1. parse_command(read_buf) # Incomplete  BY <1>6, OutcomeFields DEF Parsed
  <2>2. PICK args \in Args, size \in Nat :
            /\ parse_command(read_buf) = Done(args, 1 + size) /\ args # <<>>
            /\ InStep(sent, Append(executed, args),
                      SubSeq(read_buf, 1 + size, Len(read_buf)), input)
    BY <1>3, <2>1
  <2>3. Parsed.value = args /\ Parsed.next = 1 + size  BY <2>2, ReadOutcome
  <2> QED  BY <2>2, <2>3 DEF Consumed
<1>7. CASE Execute
  <2>1. InStep(sent, executed', read_buf', input)  BY <1>6, <1>7 DEF Execute
  <2>2. typed' = typed /\ input' = input  BY <1>7 DEF Execute, clientVars
  <2> QED  BY <1>1, <1>2, <2>1, <2>2 DEF StreamInv
<1>8. CASE Skip  BY <1>6, <1>8 DEF Skip
<1>9. CASE Reject
  <2>1. Parsed.out = "Invalid"  BY <1>9 DEF Reject
  <2>2. Parsed.out # "Invalid"  BY <1>3, ReadOutcome
  <2> QED  BY <2>1, <2>2
<1>10. CASE Panic  BY <1>1, <1>2, <1>10 DEF Panic, StreamInv, clientVars
<1>11. CASE Return  BY <1>1, <1>2, <1>11 DEF Return, StreamInv, serverVars
<1>12. CASE Take  BY <1>1, <1>2, <1>12 DEF Take, StreamInv, serverVars
<1>13. CASE UNCHANGED vars
  BY <1>1, <1>2, <1>13 DEF StreamInv, vars, serverVars, clientVars
<1> QED  BY <1>4, <1>5, <1>7, <1>8, <1>9, <1>10, <1>11, <1>12, <1>13 DEF Next

\* A sequence that agrees with the beginning of another is a prefix of it.
LEMMA PrefixOf ==
    ASSUME NEW S, NEW s \in Seq(S), NEW t \in Seq(S), Len(s) <= Len(t),
           \A i \in 1..Len(s) : s[i] = t[i]
    PROVE  IsPrefix(s, t)
<1>1. PICK n \in Nat : n = Len(s)  OBVIOUS
<1>2. SubSeq(s, 1, n) = [i \in 1..n |-> s[i]] /\ SubSeq(t, 1, n) = [i \in 1..n |-> t[i]]
  <2>1. ASSUME NEW u \in Seq(S), n <= Len(u) PROVE SubSeq(u, 1, n) = [i \in 1..n |-> u[i]]
    <3>1. 1 \in Int /\ n \in Int /\ n - 1 + 1 = n /\ \A i \in 1..n : u[i] \in S /\ 1 + i - 1 = i
      <4>1. \A i \in 1..n : i \in 1..Len(u)  BY <2>1
      <4> QED  BY <4>1, ElementOfSeq
    <3>2. PICK p : p = SubSeq(u, 1, n)  OBVIOUS
    <3>3. /\ p \in Seq(S) /\ Len(p) = (IF 1 <= n THEN n - 1 + 1 ELSE 0)
          /\ \A i \in 1..(n - 1 + 1) : p[i] = u[1 + i - 1]
      BY <3>1, <3>2, SubSeqProperties
    <3>4. Len(p) = n  BY <3>3
    <3>5. \A i \in 1..n : p[i] = u[i]  BY <3>1, <3>3
    <3>6. p = [i \in 1..n |-> p[i]]  BY <3>3, <3>4
    <3> QED  BY <3>2, <3>5, <3>6
  <2> QED  BY <1>1, <2>1
<1>3. [i \in 1..n |-> s[i]] = [i \in 1..n |-> t[i]]  BY <1>1
<1> QED  BY <1>1, <1>2, <1>3 DEF IsPrefix

\* Under the stream invariant the commands executed are the commands sent.
LEMMA StreamExact == SessionInv /\ StreamInv => CommandsExact
<1> SUFFICES ASSUME SessionInv, StreamInv, sent # <<>>
             PROVE  IsPrefix(executed, sent) /\ Parsed.out # "Invalid"
  BY DEF CommandsExact
<1>1. read_buf \in Text /\ input \in Text /\ executed \in Seq(Args)  BY DEF SessionInv, SessionType
<1>2. sent \in Conversations /\ InStep(sent, executed, read_buf, input)  BY DEF StreamInv
<1>3. sent \in Seq(Args)  BY <1>2, ConversationType
<1>4. Len(executed) <= Len(sent) /\ \A i \in 1..Len(executed) : executed[i] = sent[i]
  BY <1>2 DEF InStep
<1>5. IsPrefix(executed, sent)  BY <1>1, <1>3, <1>4, PrefixOf
<1>6. \/ parse_command(read_buf) = Incomplete
      \/ \E args \in Args, size \in Nat : parse_command(read_buf) = Done(args, 1 + size)
  BY <1>1, <1>2, StepParsed
<1>7. Parsed.out # "Invalid"  BY <1>6, ReadOutcome
<1> QED  BY <1>5, <1>7

\* What the server executes is what the client has encoded: for every
\* conversation, password and store, every limit and every cut of the stream, no
\* byte of an argument is lost, added or taken for framing, and no protocol error
\* is found (encode_command_into, parse_command and the loop of
\* service_connection).
THEOREM CommandsExactHolds == Spec => []CommandsExact
  BY SessionInvariant, StreamInit, StreamStep, StreamExact, SessionInvariant, PTL DEF Spec

-----------------------------------------------------------------------------
(***************************************************************************)
(* The client takes what the server has written.                           *)
(***************************************************************************)
Answers(rs) == [i \in 1..Len(rs) |-> write_to(rs[i])]

\* Of the replies rs the client has taken gs, and what has reached it but not
\* been taken and what is under way are the rest of what the server has written;
\* f[n] is what it had written of the first n.
InTouch(f, rs, gs, buf, under) ==
    /\ Chain(f, Answers(rs)) /\ Len(gs) <= Len(rs) /\ \A i \in 1..Len(gs) : gs[i] = rs[i]
    /\ Split(f[Len(rs)], Len(f[Len(gs)]), buf, under)

\* Replies that the client can take are written as texts.
LEMMA AnswersType ==
    ASSUME NEW rs \in Seq(Framed2)
    PROVE  /\ Answers(rs) \in Seq(Text) /\ Len(Answers(rs)) = Len(rs) /\ Len(rs) \in Nat
           /\ \A i \in 1..Len(rs) : Answers(rs)[i] = write_to(rs[i]) /\ rs[i] \in Framed2
<1>1. Len(rs) \in Nat /\ \A i \in 1..Len(rs) : rs[i] \in Framed2  BY ElementOfSeq
<1>2. \A i \in 1..Len(rs) : write_to(rs[i]) \in Text  BY <1>1, FramedForms, WriteToType
<1> QED  BY <1>1, <1>2 DEF Answers

\* The server writes one more reply.
LEMMA TouchSent ==
    ASSUME NEW rs \in Seq(Framed2), NEW gs \in Seq(Framed2), NEW buf \in Text, NEW under \in Text,
           NEW f, InTouch(f, rs, gs, buf, under), NEW r \in Framed2
    PROVE  \E g : InTouch(g, Append(rs, r), gs, buf, under \o write_to(r))
<1>1. PICK n \in Nat : n = Len(rs)  OBVIOUS
<1>2. PICK m \in Nat : m = Len(gs)  OBVIOUS
<1>3. PICK bytes \in Text : bytes = write_to(r)  BY FramedForms, WriteToType
<1>4. PICK more : more = Append(rs, r)  OBVIOUS
<1>5. /\ more \in Seq(Framed2) /\ Len(more) = n + 1 /\ more[n + 1] = r
      /\ \A i \in 1..n : more[i] = rs[i]
  BY <1>1, <1>4, AppendProperties
<1>6. /\ f \in [Nat -> Text] /\ f[0] = <<>> /\ \A i \in 1..n : f[i] = f[i - 1] \o Answers(rs)[i]
  BY <1>1, AnswersType DEF InTouch, Chain
<1>7. m <= n /\ (\A i \in 1..m : gs[i] = rs[i]) /\ Split(f[n], Len(f[m]), buf, under)
  BY <1>1, <1>2 DEF InTouch
<1>8. PICK g : g = [f EXCEPT ![n + 1] = f[n] \o bytes]  OBVIOUS
<1>9. g \in [Nat -> Text] /\ g[n + 1] = f[n] \o bytes /\ \A i \in Nat : i # n + 1 => g[i] = f[i]
  <2>1. f[n] \o bytes \in Text  BY <1>6, TextConcat
  <2> QED  BY <1>6, <1>8, <2>1
<1>10. Chain(g, Answers(more))
  <2>1. g[0] = <<>>  BY <1>6, <1>9
  <2>2. ASSUME NEW i \in 1..(n + 1) PROVE g[i] = g[i - 1] \o Answers(more)[i]
    <3>1. i - 1 \in Nat /\ i - 1 # n + 1 /\ g[i - 1] = f[i - 1]
      <4>1. i - 1 \in Nat /\ i - 1 # n + 1  OBVIOUS
      <4> QED  BY <1>9, <4>1
    <3>2. Answers(more)[i] = write_to(more[i])  BY <1>5, AnswersType
    <3>3. CASE i = n + 1
      <4>1. i - 1 = n  BY <3>3
      <4>2. Answers(more)[i] = bytes  BY <1>3, <1>5, <3>2, <3>3
      <4>3. g[i] = f[i - 1] \o bytes  BY <1>9, <3>3, <4>1
      <4> QED  BY <3>1, <4>2, <4>3
    <3>4. CASE i # n + 1
      <4>1. i \in 1..n /\ i \in Nat  BY <3>4
      <4>2. Answers(rs)[i] = write_to(rs[i])  BY <1>1, <4>1, AnswersType
      <4>3. Answers(more)[i] = Answers(rs)[i]  BY <1>5, <3>2, <4>1, <4>2
      <4>4. g[i] = f[i]  BY <1>9, <3>4, <4>1
      <4> QED  BY <1>6, <3>1, <4>1, <4>3, <4>4
    <3> QED  BY <3>3, <3>4
  <2>3. Len(Answers(more)) = n + 1  BY <1>5, AnswersType
  <2> QED  BY <1>9, <2>1, <2>2, <2>3 DEF Chain
<1>11. Split(g[n + 1], Len(g[m]), buf, under \o bytes)
  <2>1. m \in Nat /\ m # n + 1 /\ g[m] = f[m]
    <3>1. m # n + 1  BY <1>7
    <3> QED  BY <1>9, <3>1
  <2>2. PICK past \in Nat : past = Len(f[m])  BY <1>6 DEF Text
  <2>3. PICK whole \in Text : whole = f[n]  BY <1>6
  <2>4. Split(whole \o bytes, past, buf, under \o bytes)  BY <1>7, <2>2, <2>3, SplitSent
  <2> QED  BY <1>9, <2>1, <2>2, <2>3, <2>4
<1>12. m <= n + 1 /\ \A i \in 1..m : gs[i] = more[i]
  <2>1. \A i \in 1..m : i \in 1..n  BY <1>7
  <2> QED  BY <1>5, <1>7, <2>1
<1>13. InTouch(g, more, gs, buf, under \o bytes)
  BY <1>2, <1>5, <1>10, <1>11, <1>12 DEF InTouch
<1> QED  BY <1>3, <1>4, <1>13

\* Nothing is read from an empty buffer.
LEMMA NothingRead == parse_reply(<<>>) = Incomplete
<1>1. PICK buf : buf = <<>>  OBVIOUS
<1>2. PICK at : Levels(at, buf) /\ parse_reply(buf) = at[MAX_REPLY_DEPTH + 1][1]  BY ReplyLevels
<1>3. at[MAX_REPLY_DEPTH + 1][1] = parse_reply_at(buf, 1, at[MAX_REPLY_DEPTH])
  BY <1>2, ProtoAssumption DEF Levels
<1>4. 1 > Len(buf)  BY <1>1
<1>5. parse_reply_at(buf, 1, at[MAX_REPLY_DEPTH]) = Incomplete  BY <1>4 DEF parse_reply_at
<1> QED  BY <1>1, <1>2, <1>3, <1>5

\* What the client finds is the next reply, and never an error.
LEMMA TouchTaken ==
    ASSUME NEW rs \in Seq(Framed2), NEW gs \in Seq(Framed2), NEW buf \in Text, NEW under \in Text,
           NEW f, InTouch(f, rs, gs, buf, under)
    PROVE  \/ parse_reply(buf) = Incomplete
           \/ \E r \in Framed2, size \in Nat :
                 /\ parse_reply(buf) = Done(r, 1 + size)
                 /\ InTouch(f, rs, Append(gs, r), SubSeq(buf, 1 + size, Len(buf)), under)
<1>1. PICK n \in Nat : n = Len(rs)  OBVIOUS
<1>2. PICK m \in Nat : m = Len(gs)  OBVIOUS
<1>3. PICK parts : parts = Answers(rs)  OBVIOUS
<1>4. /\ parts \in Seq(Text) /\ Len(parts) = n
      /\ \A i \in 1..n : parts[i] = write_to(rs[i]) /\ rs[i] \in Framed2
  BY <1>1, <1>3, AnswersType
<1>5. /\ Chain(f, parts) /\ m <= n /\ (\A i \in 1..m : gs[i] = rs[i])
      /\ Split(f[n], Len(f[m]), buf, under)
  BY <1>1, <1>2, <1>3 DEF InTouch
<1>6. \/ m = n /\ buf = <<>>
      \/ /\ m + 1 \in 1..n /\ parts[m + 1] \in Text /\ Holds(buf, 1, parts[m + 1])
         /\ Len(f[m + 1]) = Len(f[m]) + Len(parts[m + 1])
  <2>1. Split(f[Len(parts)], Len(f[m]), buf, under) /\ m <= Len(parts)  BY <1>4, <1>5
  <2>2. \/ m = Len(parts) /\ buf = <<>>
        \/ /\ m + 1 \in 1..Len(parts) /\ parts[m + 1] \in Text /\ Holds(buf, 1, parts[m + 1])
           /\ Len(f[m + 1]) = Len(f[m]) + Len(parts[m + 1])
    BY <1>4, <1>5, <2>1, NextPart
  <2> QED  BY <1>4, <2>2
<1>7. CASE buf = <<>>  BY <1>7, NothingRead
<1>8. CASE /\ m + 1 \in 1..n /\ parts[m + 1] \in Text /\ Holds(buf, 1, parts[m + 1])
           /\ Len(f[m + 1]) = Len(f[m]) + Len(parts[m + 1])
  <2>1. PICK r : r = rs[m + 1]  OBVIOUS
  <2>2. PICK bytes : bytes = parts[m + 1]  OBVIOUS
  <2>3. r \in Framed2 /\ bytes = write_to(r) /\ bytes \in Text /\ Holds(buf, 1, bytes)
    BY <1>4, <1>8, <2>1, <2>2
  <2>4. Reads(parse_reply(buf), r, 1, bytes, buf)  BY <2>3, WrittenRead
  <2>5. PICK size \in Nat : size = Len(bytes)  BY <2>3 DEF Text
  <2>6. Len(buf) \in Nat  BY DEF Text
  <2>7. CASE Len(buf) >= 1 + size - 1
    <3>1. parse_reply(buf) = Done(r, 1 + size)  BY <2>4, <2>5, <2>7 DEF Reads
    <3>2. size <= Len(buf)  BY <2>6, <2>7
    <3>3. PICK past \in Nat : past = Len(f[m])  BY <1>5 DEF Chain, Text
    <3>4. PICK left : left = SubSeq(buf, 1 + size, Len(buf))  OBVIOUS
    <3>5. Split(f[n], past + size, left, under)  BY <1>5, <3>2, <3>3, <3>4, SplitConsumed
    <3>6. Len(f[m + 1]) = past + size  BY <1>8, <2>2, <2>5, <3>3
    <3>7. PICK next : next = Append(gs, r)  OBVIOUS
    <3>8. Len(next) = m + 1 /\ (\A i \in 1..m : next[i] = gs[i]) /\ next[m + 1] = r
      BY <1>2, <2>3, <3>7, AppendProperties
    <3>9. m + 1 <= n /\ \A i \in 1..(m + 1) : next[i] = rs[i]
      <4>1. \A i \in 1..(m + 1) : i \in 1..m \/ i = m + 1  OBVIOUS
      <4> QED  BY <1>5, <1>8, <2>1, <3>8, <4>1
    <3>10. InTouch(f, rs, next, left, under)
      BY <1>1, <1>3, <1>5, <3>5, <3>6, <3>8, <3>9 DEF InTouch
    <3> QED  BY <2>3, <3>1, <3>4, <3>7, <3>10
  <2>8. CASE ~(Len(buf) >= 1 + size - 1)  BY <2>4, <2>5, <2>8 DEF Reads
  <2> QED  BY <2>7, <2>8
<1> QED  BY <1>6, <1>7, <1>8

\* Some command has had a reply that the client cannot take.
Unframed ==
    \E i \in 1..Len(executed) : BreaksLine(Repeated(executed[i])) \/ ~Fits(executed[i])

\* Without one, the client stays in touch.
TouchInv ==
    \/ Unframed
    \/ /\ replies \in Seq(Framed2) /\ got \in Seq(Framed2)
       /\ \E f : InTouch(f, replies, got, client_buf, output)

\* A new session satisfies the invariant of the reply stream.
LEMMA TouchInit == Init => TouchInv
<1> SUFFICES ASSUME Init PROVE TouchInv  OBVIOUS
<1>1. replies = <<>> /\ got = <<>> /\ client_buf = <<>> /\ output = <<>>  BY DEF Init
<1>2. replies \in Seq(Framed2) /\ got \in Seq(Framed2)  BY <1>1
<1>3. PICK f : f = [n \in Nat |-> <<>>]  OBVIOUS
<1>4. <<>> \in Text  BY DEF Text
<1>5. Len(replies) = 0 /\ Len(got) = 0 /\ Len(client_buf) = 0 /\ Len(output) = 0  BY <1>1
<1>6. f \in [Nat -> Text] /\ f[0] = <<>> /\ Len(f[0]) = 0  BY <1>3, <1>4
<1>7. Len(Answers(replies)) = 0  BY <1>2, <1>5, AnswersType
<1>8. Chain(f, Answers(replies))  BY <1>6, <1>7 DEF Chain
<1>9. Split(f[0], Len(f[0]), client_buf, output)  BY <1>5, <1>6 DEF Split, Follows
<1>10. InTouch(f, replies, got, client_buf, output)  BY <1>5, <1>8, <1>9 DEF InTouch
<1> QED  BY <1>2, <1>10 DEF TouchInv

\* A reply that no client can take is not taken back.
LEMMA UnframedStays ==
    ASSUME SessionInv, [Next]_vars, Unframed PROVE Unframed'
<1>1. executed \in Seq(Args)  BY DEF SessionInv, SessionType
<1>2. executed' = executed \/ Execute
  BY DEF Next, Arrive, Type, Skip, Panic, Reject, Return, Take, vars, serverVars
<1>3. CASE executed' = executed  BY <1>3 DEF Unframed
<1>4. CASE Execute
  <2>1. PICK args : args = Parsed.value  OBVIOUS
  <2>2. args \in Args /\ executed' = Append(executed, args)
    BY <1>4, <2>1, ParsedType DEF Execute, SessionInv, SessionType
  <2>3. /\ Len(executed') = Len(executed) + 1 /\ Len(executed) \in Nat
        /\ \A i \in 1..Len(executed) : executed'[i] = executed[i]
    BY <1>1, <2>2, AppendProperties
  <2>4. PICK i \in 1..Len(executed) : BreaksLine(Repeated(executed[i])) \/ ~Fits(executed[i])
    BY DEF Unframed
  <2>5. i \in 1..Len(executed') /\ executed'[i] = executed[i]  BY <2>3
  <2>6. BreaksLine(Repeated(executed'[i])) \/ ~Fits(executed'[i])  BY <2>4, <2>5
  <2> QED  BY <2>5, <2>6 DEF Unframed
<1> QED  BY <1>2, <1>3, <1>4

\* Every step of a session keeps the invariant of the reply stream.
LEMMA TouchStep == SessionInv /\ TouchInv /\ [Next]_vars => TouchInv'
<1> SUFFICES ASSUME SessionInv, TouchInv, [Next]_vars, ~Unframed PROVE TouchInv'
  BY UnframedStays DEF TouchInv
<1>1. /\ client_buf \in Text /\ output \in Text /\ read_buf \in Text
      /\ executed \in Seq(Args) /\ authenticated \in BOOLEAN
  BY DEF SessionInv, SessionType
<1>2. replies \in Seq(Framed2) /\ got \in Seq(Framed2)  BY DEF TouchInv
<1>3. PICK f : InTouch(f, replies, got, client_buf, output)  BY DEF TouchInv
<1>4. ASSUME NEW r \in Framed2, replies' = Append(replies, r), output' = output \o write_to(r),
             got' = got, client_buf' = client_buf
      PROVE  TouchInv'
  <2>1. PICK g : InTouch(g, Append(replies, r), got, client_buf, output \o write_to(r))
    BY <1>1, <1>2, <1>3, TouchSent
  <2>2. replies' \in Seq(Framed2)  BY <1>2, <1>4
  <2>3. InTouch(g, replies', got', client_buf', output')  BY <1>4, <2>1
  <2> QED  BY <1>2, <1>4, <2>2, <2>3 DEF TouchInv
<1>5. CASE Execute
  <2>1. PICK args : args = Parsed.value  OBVIOUS
  <2>2. args \in Args /\ args # <<>> /\ executed' = Append(executed, args)
    BY <1>1, <1>5, <2>1, ParsedType DEF Execute
  <2>3. PICK o \in dispatch(args, authenticated) :
          replies' = Append(replies, o.reply) /\ output' = output \o write_to(o.reply)
    BY <1>5, <2>1 DEF Execute
  <2>4. o.reply \in Sound(args)  BY <1>1, <2>2, <2>3, DispatchOutcome
  <2>5. CASE Fits(args) /\ ~BreaksLine(Repeated(args))
    <3>1. o.reply \in Framed2  BY <2>4, <2>5 DEF Sound
    <3>2. got' = got /\ client_buf' = client_buf  BY <1>5 DEF Execute, clientVars
    <3> QED  BY <1>4, <2>3, <3>1, <3>2
  <2>6. CASE ~Fits(args) \/ BreaksLine(Repeated(args))
    <3>1. PICK n \in Nat : n = Len(executed)  BY <1>1
    <3>2. Len(executed') = n + 1 /\ executed'[n + 1] = args  BY <1>1, <2>2, <3>1, AppendProperties
    <3>3. n + 1 \in 1..Len(executed')  BY <3>2
    <3>4. BreaksLine(Repeated(executed'[n + 1])) \/ ~Fits(executed'[n + 1])  BY <2>6, <3>2
    <3>5. Unframed'  BY <3>3, <3>4 DEF Unframed
    <3> QED  BY <3>5 DEF TouchInv
  <2> QED  BY <2>5, <2>6
<1>6. CASE Reject
  <2>1. PICK r : r = Error(<<"ERR Protocol error">>)  OBVIOUS
  <2>2. r \in Framed2  BY <2>1, ReplyTexts, FramedMakes, Zenon
  <2>3. replies' = Append(replies, r) /\ output' = output \o write_to(r)  BY <1>6, <2>1 DEF Reject
  <2>4. got' = got /\ client_buf' = client_buf  BY <1>6 DEF Reject, clientVars
  <2> QED  BY <1>4, <2>2, <2>3, <2>4
<1>7. CASE Return
  <2>1. PICK n \in Nat : n = Len(got)  BY <1>2
  <2>2. PICK whole : whole = f[Len(replies)]  OBVIOUS
  <2>3. PICK past \in Nat : past = Len(f[n])  BY <1>3, <2>1 DEF InTouch, Chain, Text
  <2>4. Split(whole, past, client_buf, output)  BY <1>3, <2>1, <2>2, <2>3 DEF InTouch
  <2>5. output # <<>>  BY <1>7 DEF Return
  <2>6. Split(whole, past, Append(client_buf, Head(output)), Tail(output))
    BY <1>1, <2>4, <2>5, SplitArrives
  <2>7. replies' = replies /\ got' = got /\ client_buf' = Append(client_buf, Head(output))
        /\ output' = Tail(output)
    BY <1>7 DEF Return, serverVars
  <2>8. InTouch(f, replies', got', client_buf', output')
    BY <1>3, <2>1, <2>2, <2>3, <2>6, <2>7 DEF InTouch
  <2> QED  BY <1>2, <2>7, <2>8 DEF TouchInv
<1>8. CASE Take
  <2>1. PICK o : o = parse_reply(client_buf)  OBVIOUS
  <2>2. o.out = "Complete" /\ got' = Append(got, o.value) /\ replies' = replies
        /\ client_buf' = SubSeq(client_buf, o.next, Len(client_buf)) /\ output' = output
    BY <1>8, <2>1 DEF Take, serverVars
  <2>3. o # Incomplete  BY <2>2, OutcomeFields
  <2>4. PICK r \in Framed2, size \in Nat :
          /\ o = Done(r, 1 + size)
          /\ InTouch(f, replies, Append(got, r),
                     SubSeq(client_buf, 1 + size, Len(client_buf)), output)
    BY <1>1, <1>2, <1>3, <2>1, <2>3, TouchTaken
  <2>5. o.value = r /\ o.next = 1 + size  BY <2>4, DoneFields
  <2>6. InTouch(f, replies', got', client_buf', output')  BY <2>2, <2>4, <2>5
  <2>7. got' \in Seq(Framed2)  BY <1>2, <2>2, <2>5
  <2> QED  BY <1>2, <2>2, <2>6, <2>7 DEF TouchInv
<1>9. ASSUME UNCHANGED <<replies, got, client_buf, output>> PROVE TouchInv'
  BY <1>2, <1>3, <1>9 DEF TouchInv
<1>10. CASE Arrive  BY <1>9, <1>10 DEF Arrive, clientVars
<1>11. ASSUME NEW b \in Keyboard, Type(b) PROVE TouchInv'  BY <1>9, <1>11 DEF Type
<1>12. CASE Skip  BY <1>9, <1>12 DEF Skip, clientVars
<1>13. CASE Panic  BY <1>9, <1>13 DEF Panic, clientVars
<1>14. CASE UNCHANGED vars  BY <1>9, <1>14 DEF vars, serverVars, clientVars
<1> QED
  BY <1>5, <1>6, <1>7, <1>8, <1>10, <1>11, <1>12, <1>13, <1>14 DEF Next

\* Under that invariant the replies taken are the replies written.
LEMMA TouchFramed == SessionInv /\ TouchInv => RepliesFramed
<1> SUFFICES ASSUME SessionInv, TouchInv, ~Unframed
             PROVE  IsPrefix(got, replies) /\ parse_reply(client_buf).out # "Invalid"
  BY DEF RepliesFramed, Unframed
<1>1. client_buf \in Text /\ output \in Text  BY DEF SessionInv, SessionType
<1>2. replies \in Seq(Framed2) /\ got \in Seq(Framed2)  BY DEF TouchInv
<1>3. PICK f : InTouch(f, replies, got, client_buf, output)  BY DEF TouchInv
<1>4. Len(got) <= Len(replies) /\ \A i \in 1..Len(got) : got[i] = replies[i]  BY <1>3 DEF InTouch
<1>5. IsPrefix(got, replies)  BY <1>2, <1>4, PrefixOf
<1>6. PICK o : o = parse_reply(client_buf)  OBVIOUS
<1>7. o = Incomplete \/ \E r \in Framed2, size \in Nat : o = Done(r, 1 + size)
  BY <1>1, <1>2, <1>3, <1>6, TouchTaken
<1>8. o.out # "Invalid"  BY <1>7, OutcomeFields, DoneFields
<1> QED  BY <1>5, <1>6, <1>8

\* The client takes the replies the server has written: for every conversation,
\* everything a client may type, every password and store, every limit and every
\* cut of the stream, each reply is taken as it was written, in order, and the
\* client finds no malformed one, unless an error reply has repeated bytes that
\* break its line or a typed line held more than a reply may (Reply::write_to,
\* dispatch and parse_reply).
THEOREM RepliesFramedHolds == Spec => []RepliesFramed
  BY SessionInvariant, TouchInit, TouchStep, TouchFramed, PTL DEF Spec

=============================================================================
