-------------------------- MODULE AlgorithmProofs --------------------------
(***************************************************************************)
(* Proofs about the pure algorithms, which runs compare with a reference   *)
(* on samples: the deadlines of SET and EXPIRE, the options of SET, and    *)
(* the pattern matching of KEYS and SCAN.  Here they are compared for      *)
(* every list of options and for every pattern and text.                   *)
(***************************************************************************)
EXTENDS WireProofs, FiniteSetTheorems

-----------------------------------------------------------------------------
(***************************************************************************)
(* Deadlines.                                                              *)
(***************************************************************************)
\* A second has milliseconds.
LEMMA MilliNat == Milli \in Nat /\ Milli >= 1
<1>1. Milli \in Nat \ {0}  BY DispatchAssumption, Zenon
<1> QED  BY <1>1

\* Adding to an Instant gives the sum, or nothing beyond what an Instant holds.
LEMMA PlusOption ==
    ASSUME NEW now \in Nat, NEW ms \in Nat
    PROVE  \/ Plus(now, ms) = {} /\ now + ms > I64Max * Milli
           \/ Plus(now, ms) = {now + ms}
<1>1. PICK last \in Nat : last = I64Max * Milli  BY Limits, MilliNat
<1>2. Plus(now, ms) = {now + ms} \cap 0..(last + Milli - 1)  BY <1>1 DEF Plus
<1>3. CASE now + ms \in 0..(last + Milli - 1)  BY <1>2, <1>3
<1>4. CASE now + ms \notin 0..(last + Milli - 1)
  <2>1. now + ms > last  BY <1>4, MilliNat
  <2> QED  BY <1>1, <1>2, <1>4, <2>1
<1> QED  BY <1>3, <1>4

\* How far the deadline d is the one meant, for a time given that is p in
\* milliseconds.
Exact(d, ideal, now, p) ==
    CASE d = {} -> ideal > I64Max * Milli
      [] d # {} /\ ideal <= now -> d = {now}
      [] OTHER -> now < The(d) /\ The(d) <= ideal /\ (p <= I64Max => The(d) = ideal)

\* A time ms from now, for a time of at least ms that is ms if it fits.
LEMMA PlusExact ==
    ASSUME NEW now \in Nat, NEW ms \in Nat \ {0}, NEW ideal \in Int, now + ms <= ideal,
           NEW p \in Nat, p <= I64Max => now + ms = ideal
    PROVE  Exact(Plus(now, ms), ideal, now, p)
<1>1. PICK last \in Nat : last = I64Max * Milli  BY Limits, MilliNat
<1>2. ~(ideal <= now)  OBVIOUS
<1>3. CASE Plus(now, ms) = {} /\ now + ms > last
  <2>1. ideal > last  BY <1>3
  <2> QED  BY <1>1, <1>3, <2>1 DEF Exact
<1>4. CASE Plus(now, ms) = {now + ms}
  <2>1. The(Plus(now, ms)) = now + ms /\ Plus(now, ms) # {}  BY <1>4, TheOne
  <2>2. now < now + ms  OBVIOUS
  <2> QED  BY <1>2, <2>1, <2>2 DEF Exact
<1> QED  BY <1>1, <1>3, <1>4, PlusOption

\* An absolute deadline resolves to the Instant it means.
LEMMA ResolveExact ==
    ASSUME NEW wall \in Nat, NEW now \in Nat, NEW target \in Nat, NEW meant \in Nat,
           target <= meant, meant # target => wall < target,
           NEW p \in Nat, p <= I64Max => target = meant
    PROVE  Exact(resolve_absolute_deadline(wall, now, target), now + meant - wall, now, p)
<1>1. CASE target <= wall
  <2>1. now + meant - wall <= now  BY <1>1
  <2>2. resolve_absolute_deadline(wall, now, target) = {now}
    BY <1>1 DEF resolve_absolute_deadline
  <2> QED  BY <2>1, <2>2 DEF Exact
<1>2. CASE ~(target <= wall)
  <2>1. target - wall \in Nat \ {0} /\ now + meant - wall \in Int
        /\ now + (target - wall) <= now + meant - wall
        /\ (p <= I64Max => now + (target - wall) = now + meant - wall)
    BY <1>2
  <2>2. resolve_absolute_deadline(wall, now, target) = Plus(now, target - wall)
    BY <1>2 DEF resolve_absolute_deadline
  <2>3. Exact(Plus(now, target - wall), now + meant - wall, now, p)  BY <2>1, PlusExact
  <2> QED  BY <2>2, <2>3
<1> QED  BY <1>1, <1>2

\* Each expiry option gives the deadline it means.
LEMMA DeadlineMeant ==
    ASSUME NEW word \in Timed, NEW n \in 1..I64Max, NEW wall \in Clocks, NEW now \in Clocks
    PROVE  Exact(Deadline(word, n, wall, now), Ideal(word, n, wall, now), now, n * Milli)
<1>1. wall \in Nat /\ now \in Nat /\ wall < I64Max /\ n \in Nat \ {0} /\ I64Max \in Nat
  BY ClocksAssumption, Limits
<1>2. PICK p \in Nat \ {0} : p = n * Milli
  <2>1. PICK q \in Nat \ {0} : q = Milli  BY MilliNat
  <2>2. n * q \in Nat \ {0}  BY <1>1, <2>1
  <2> QED  BY <2>1, <2>2
<1>3. n <= p
  <2>1. PICK q \in Nat \ {0} : q = Milli  BY MilliNat
  <2>2. n <= n * q  BY <1>1, <2>1
  <2> QED  BY <1>2, <2>1, <2>2
<1>4. CASE word = "EX"
  <2>1. Deadline(word, n, wall, now) = Plus(now, p) /\ Ideal(word, n, wall, now) = now + p
    BY <1>2, <1>4 DEF Deadline, Ideal
  <2>2. Exact(Plus(now, p), now + p, now, p)  BY <1>1, <1>2, <1>3, PlusExact
  <2> QED  BY <1>2, <2>1, <2>2
<1>5. CASE word = "PX"
  <2>1. Deadline(word, n, wall, now) = Plus(now, n) /\ Ideal(word, n, wall, now) = now + n
    BY <1>5 DEF Deadline, Ideal
  <2>2. Exact(Plus(now, n), now + n, now, p)  BY <1>1, <1>2, <1>3, PlusExact
  <2> QED  BY <1>2, <2>1, <2>2
<1>6. CASE word = "EXAT"
  <2>1. PICK target : target = saturating_mul(n)  OBVIOUS
  <2>2. target = IF p > I64Max THEN I64Max ELSE p  BY <1>2, <2>1 DEF saturating_mul
  <2>3. target \in Nat /\ target <= p /\ (p # target => wall < target) /\ (p <= I64Max => target = p)
    BY <1>1, <1>2, <2>2
  <2>4. Deadline(word, n, wall, now) = resolve_absolute_deadline(wall, now, target)
        /\ Ideal(word, n, wall, now) = now + p - wall
    BY <1>2, <1>6, <2>1 DEF Deadline, Ideal
  <2>5. Exact(resolve_absolute_deadline(wall, now, target), now + p - wall, now, p)
    BY <1>1, <1>2, <1>3, <2>3, ResolveExact
  <2> QED  BY <1>2, <2>4, <2>5
<1>7. CASE word = "PXAT"
  <2>1. Deadline(word, n, wall, now) = resolve_absolute_deadline(wall, now, n)
        /\ Ideal(word, n, wall, now) = now + n - wall
    BY <1>7 DEF Deadline, Ideal
  <2>2. Exact(resolve_absolute_deadline(wall, now, n), now + n - wall, now, p)
    <3>1. n \in Nat /\ p \in Nat /\ n <= n /\ (n # n => wall < n) /\ (p <= I64Max => n = n)
      BY <1>1, <1>2
    <3> QED  BY <1>1, <3>1, ResolveExact
  <2> QED  BY <1>2, <2>1, <2>2
<1> QED  BY <1>4, <1>5, <1>6, <1>7 DEF Timed

SampleType == sample = NoSample \/ sample \in Samples

\* The sample a behaviour starts with, one of those the algorithms are given, stays
\* what it is.
THEOREM SampleInvariant == WireSpec => []SampleType
<1>1. WireInit => SampleType  BY DEF WireInit, SampleType
<1>2. SampleType /\ [WireNext]_<<vars, sample>> => SampleType'  BY DEF SampleType, WireNext
<1> QED  BY <1>1, <1>2, PTL DEF WireSpec

\* EX, PX, EXAT and PXAT become the deadline they mean, for every amount, every
\* pair of clock readings and every width of the integers (saturating_mul,
\* resolve_absolute_deadline).
THEOREM DeadlineExactHolds == WireSpec => []DeadlineExact
<1>1. SampleType => DeadlineExact
  <2> SUFFICES ASSUME SampleType, sample.kind = "deadline", NEW wall \in Clocks, NEW now \in Clocks
               PROVE  Exact(Deadline(sample.word, sample.n, wall, now),
                            Ideal(sample.word, sample.n, wall, now), now, sample.n * Milli)
    BY DEF DeadlineExact, Exact
  <2>1. sample.word \in Timed /\ sample.n \in 1..I64Max
    <3>1. sample # NoSample  BY DEF NoSample
    <3>2. \/ \E p \in Patterns : sample = [kind |-> "pattern", pattern |-> p]
          \/ \E o \in OptionLists : sample = [kind |-> "options", opts |-> o]
          \/ \E t \in Timed, n \in 1..I64Max : sample = [kind |-> "deadline", word |-> t, n |-> n]
      BY <3>1 DEF SampleType, Samples
    <3> QED  BY <3>2
  <2> QED  BY <2>1, DeadlineMeant
<1> QED  BY <1>1, SampleInvariant, PTL

-----------------------------------------------------------------------------
(***************************************************************************)
(* The options of SET.                                                     *)
(***************************************************************************)
ExpiryWords == Timed \cup {"KEEPTTL"}
Conditions == {"NX", "XX"}
OptionErrors == {"none", "syntax", "not an integer", "invalid expire", "panic"}
OptionsType ==
    [expiry : {"unset"} \cup ExpiryWords, condition : {"None"} \cup Conditions, get : BOOLEAN,
     error : OptionErrors]
LoopType == [i : Nat, options : OptionsType]

\* The errors of an expiry option.
LEMMA ExpiryErrors == \A word, n : expiry_error(word, n) \in OptionErrors
  BY DEF expiry_error, OptionErrors

\* The fields of options when one of them is set.
LEMMA OptionFields ==
    ASSUME NEW o \in OptionsType
    PROVE  /\ o.expiry \in {"unset"} \cup ExpiryWords /\ o.condition \in {"None"} \cup Conditions
           /\ o.get \in BOOLEAN /\ o.error \in OptionErrors
           /\ \A x \in {"unset"} \cup ExpiryWords :
                 /\ [o EXCEPT !.expiry = x] \in OptionsType
                 /\ [o EXCEPT !.expiry = x].expiry = x
                 /\ [o EXCEPT !.expiry = x].condition = o.condition
                 /\ [o EXCEPT !.expiry = x].get = o.get
                 /\ [o EXCEPT !.expiry = x].error = o.error
           /\ \A x \in {"None"} \cup Conditions :
                 /\ [o EXCEPT !.condition = x] \in OptionsType
                 /\ [o EXCEPT !.condition = x].expiry = o.expiry
                 /\ [o EXCEPT !.condition = x].condition = x
                 /\ [o EXCEPT !.condition = x].get = o.get
                 /\ [o EXCEPT !.condition = x].error = o.error
           /\ \A x \in BOOLEAN :
                 /\ [o EXCEPT !.get = x] \in OptionsType
                 /\ [o EXCEPT !.get = x].expiry = o.expiry
                 /\ [o EXCEPT !.get = x].condition = o.condition
                 /\ [o EXCEPT !.get = x].get = x
                 /\ [o EXCEPT !.get = x].error = o.error
           /\ \A x \in OptionErrors :
                 Refused(o, x) \in OptionsType /\ Refused(o, x).error = x
  BY DEF OptionsType, Refused

\* One turn, by the word at its position.
LEMMA SetOptionCases ==
    ASSUME NEW opts, NEW i, NEW o \in OptionsType, NEW word, word = Word(opts[i]),
           NEW next, next = set_option(opts, i, o)
    PROVE  /\ word \in Conditions => next = IF o.condition = "None" THEN [o EXCEPT !.condition = word]
                                            ELSE Refused(o, "syntax")
           /\ word \in {"GET"} => next = [o EXCEPT !.get = TRUE]
           /\ word \in {"KEEPTTL"} => next = IF o.expiry = "unset" THEN [o EXCEPT !.expiry = word]
                                         ELSE Refused(o, "syntax")
           /\ word \in Timed => next = expiry_option(opts, i, o)
           /\ word \notin Conditions \cup {"GET"} \cup ExpiryWords => next = Refused(o, "syntax")
<1>1. word \in Conditions => word \notin Timed \cup {"GET", "KEEPTTL"}  BY DEF Conditions, Timed
<1>2. word = "GET" => word \notin Timed \cup Conditions \cup {"KEEPTTL"}  BY DEF Conditions, Timed
<1>3. word = "KEEPTTL" => word \notin Timed \cup Conditions \cup {"GET"}  BY DEF Conditions, Timed
<1>4. word \in Timed => word \notin Conditions \cup {"GET", "KEEPTTL"}  BY DEF Conditions, Timed
<1>5. next = CASE word \in Conditions /\ o.condition = "None" -> [o EXCEPT !.condition = word]
               [] word = "GET" -> [o EXCEPT !.get = TRUE]
               [] word = "KEEPTTL" /\ o.expiry = "unset" -> [o EXCEPT !.expiry = word]
               [] word \in Timed -> expiry_option(opts, i, o)
               [] OTHER -> Refused(o, "syntax")
  BY DEF set_option, Conditions
<1>6. CASE word \in Conditions  BY <1>1, <1>5, <1>6 DEF ExpiryWords
<1>7. CASE word \in {"GET"}  BY <1>2, <1>5, <1>7 DEF ExpiryWords
<1>8. CASE word \in {"KEEPTTL"}  BY <1>3, <1>5, <1>8 DEF ExpiryWords
<1>9. CASE word \in Timed  BY <1>4, <1>5, <1>9 DEF ExpiryWords
<1>10. CASE word \notin Conditions \cup {"GET"} \cup ExpiryWords
  BY <1>5, <1>10 DEF ExpiryWords
<1> QED  BY <1>6, <1>7, <1>8, <1>9, <1>10 DEF ExpiryWords

\* An expiry option is taken, or refused for one of its three reasons.
LEMMA ExpiryOptionCases ==
    ASSUME NEW opts, NEW i, NEW o \in OptionsType, NEW word \in Timed, word = Word(opts[i]),
           NEW next, next = expiry_option(opts, i, o)
    PROVE  \/ /\ next = [o EXCEPT !.expiry = word] /\ o.expiry = "unset" /\ i # Len(opts)
              /\ expiry_error(word, Amount(opts, i)) = "none"
           \/ /\ \E x \in OptionErrors : x # "none" /\ next = Refused(o, x)
              /\ \/ o.expiry # "unset" \/ i = Len(opts)
                 \/ expiry_error(word, Amount(opts, i)) # "none"
<1>1. PICK error : error = IF o.expiry # "unset" \/ i = Len(opts) THEN "syntax"
                           ELSE expiry_error(word, Amount(opts, i))
  OBVIOUS
<1>2. next = IF error # "none" THEN Refused(o, error) ELSE [o EXCEPT !.expiry = word]
  BY <1>1 DEF expiry_option
<1>3. error \in OptionErrors  BY <1>1, ExpiryErrors DEF OptionErrors
<1> QED  BY <1>1, <1>2, <1>3

\* Reading an option leaves options.
LEMMA SetOptionType ==
    ASSUME NEW opts, NEW i, NEW o \in OptionsType PROVE set_option(opts, i, o) \in OptionsType
<1>1. PICK word : word = Word(opts[i])  OBVIOUS
<1>2. PICK next : next = set_option(opts, i, o)  OBVIOUS
<1>3. "syntax" \in OptionErrors  BY DEF OptionErrors
<1>4. CASE word \in Conditions  BY <1>1, <1>2, <1>3, <1>4, SetOptionCases, OptionFields
<1>5. CASE word \in {"GET"}
  <2>1. next = [o EXCEPT !.get = TRUE]  BY <1>1, <1>2, <1>5, SetOptionCases
  <2>2. [o EXCEPT !.get = TRUE] \in OptionsType  BY DEF OptionsType
  <2> QED  BY <1>2, <2>1, <2>2
<1>6. CASE word \in {"KEEPTTL"}
  <2>1. next = [o EXCEPT !.expiry = word] \/ next = Refused(o, "syntax")
    BY <1>1, <1>2, <1>6, SetOptionCases
  <2>2. word \in {"unset"} \cup ExpiryWords  BY <1>6 DEF ExpiryWords
  <2>3. [o EXCEPT !.expiry = word] \in OptionsType  BY <2>2, OptionFields
  <2>4. Refused(o, "syntax") \in OptionsType  BY <1>3, OptionFields
  <2> QED  BY <1>2, <2>1, <2>3, <2>4
<1>7. CASE word \in Timed
  <2>1. next = expiry_option(opts, i, o)  BY <1>1, <1>2, <1>7, SetOptionCases
  <2>2. \/ next = [o EXCEPT !.expiry = word]
        \/ \E x \in OptionErrors : next = Refused(o, x)
    BY <1>1, <1>7, <2>1, ExpiryOptionCases
  <2> QED  BY <1>2, <1>7, <2>2, OptionFields DEF ExpiryWords
<1>8. CASE word \notin Conditions \cup {"GET"} \cup ExpiryWords
  BY <1>1, <1>2, <1>3, <1>8, SetOptionCases, OptionFields
<1> QED  BY <1>4, <1>5, <1>6, <1>7, <1>8 DEF ExpiryWords

\* A turn of the loop leaves a state of the loop.
LEMMA SetTurnType ==
    ASSUME NEW opts, NEW loop \in LoopType PROVE SetTurn(opts, loop) \in LoopType
<1>1. loop.i \in Nat /\ loop.options \in OptionsType  BY DEF LoopType
<1>2. set_option(opts, loop.i, loop.options) \in OptionsType  BY <1>1, SetOptionType
<1> QED  BY <1>1, <1>2 DEF SetTurn, LoopType

\* The recursive function of parse_set_options exists.
LEMMA OptionsLoop ==
    ASSUME NEW opts
    PROVE  \E after : /\ after \in [Nat -> LoopType]
                      /\ after[0] = [i |-> 1, options |-> NoOptions]
                      /\ \A n \in Nat : after[n + 1] = SetTurn(opts, after[n])
                      /\ parse_set_options(opts) = after[Len(opts)].options
<1> DEFINE A == [i |-> 1, options |-> NoOptions]
           Recursive(f) == f = [n \in Nat |-> IF n = 0 THEN A ELSE SetTurn(opts, f[n - 1])]
           after == CHOOSE f : Recursive(f)
           Step == [n \in Nat |-> [x \in LoopType |-> SetTurn(opts, x)]]
<1>1. A \in LoopType
  <2>1. NoOptions \in OptionsType  BY DEF NoOptions, OptionsType, OptionErrors
  <2> QED  BY <2>1 DEF LoopType
<1>2. Step \in [Nat -> [LoopType -> LoopType]]  BY SetTurnType
<1> HIDE DEF A
<1>3. PICK f : Iterates(f, LoopType, A, Step)
  <2> HIDE DEF Step
  <2> QED  BY <1>1, <1>2, Recursion
<1>4. f \in [Nat -> LoopType] /\ f[0] = A /\ \A n \in Nat : f[n + 1] = Step[n + 1][f[n]]
  BY <1>3 DEF Iterates
<1>5. \A n \in Nat : f[n + 1] = SetTurn(opts, f[n])
  <2> SUFFICES ASSUME NEW n \in Nat PROVE f[n + 1] = SetTurn(opts, f[n])  OBVIOUS
  <2>1. n + 1 \in Nat /\ f[n] \in LoopType  BY <1>4
  <2>2. Step[n + 1][f[n]] = SetTurn(opts, f[n])  BY <2>1
  <2> HIDE DEF Step
  <2> QED  BY <1>4, <2>2
<1>6. Recursive(f)
  <2> DEFINE h == [n \in Nat |-> IF n = 0 THEN A ELSE SetTurn(opts, f[n - 1])]
  <2>1. ASSUME NEW n \in Nat PROVE f[n] = h[n]
    <3>1. CASE n = 0  BY <1>4, <3>1
    <3>2. CASE n # 0
      <4>1. n - 1 \in Nat /\ (n - 1) + 1 = n  BY <3>2
      <4> QED  BY <1>5, <3>2, <4>1
    <3> QED  BY <3>1, <3>2
  <2>2. f = [n \in Nat |-> f[n]] /\ h = [n \in Nat |-> h[n]]  BY <1>4
  <2>3. f = h
    <3> HIDE DEF h
    <3> QED  BY <2>1, <2>2
  <2> QED  BY <2>3
<1>7. Recursive(after)
  <2> HIDE DEF Recursive
  <2> QED  BY <1>6
<1>8. parse_set_options(opts) = after[Len(opts)].options  BY DEF parse_set_options, A
<1> HIDE DEF after
<1>9. after[0] = A  BY <1>7
<1>10. \A n \in Nat : after[n + 1] = SetTurn(opts, after[n])
  <2> SUFFICES ASSUME NEW n \in Nat PROVE after[n + 1] = SetTurn(opts, after[n])  OBVIOUS
  <2>1. n + 1 \in Nat /\ n + 1 # 0 /\ (n + 1) - 1 = n  OBVIOUS
  <2> QED  BY <1>7, <2>1
<1>11. \A n \in Nat : after[n] = f[n]
  <2> DEFINE T == {n \in Nat : after[n] = f[n]}
  <2>1. 0 \in T  BY <1>4, <1>9
  <2>2. ASSUME NEW n \in Nat, n \in T PROVE n + 1 \in T  BY <1>5, <1>10, <2>2
  <2>3. \A n \in Nat : n \in T
    <3> HIDE DEF T
    <3> QED  BY <2>1, <2>2, SetInduction
  <2> QED  BY <2>3
<1>12. after \in [Nat -> LoopType]
  <2>1. after = [n \in Nat |-> after[n]]  BY <1>7
  <2>2. \A n \in Nat : after[n] \in LoopType  BY <1>4, <1>11
  <2> QED  BY <2>1, <2>2
<1> QED  BY <1>8, <1>9, <1>10, <1>12 DEF A

\* A finite set with at most one element.
LEMMA AtMostOne ==
    ASSUME NEW n \in Nat, NEW S, S \subseteq 1..n
    PROVE  Cardinality(S) <= 1 <=> \A x, y \in S : x = y
<1>1. IsFiniteSet(S) /\ Cardinality(S) \in Nat
  <2>1. IsFiniteSet(1..n)  BY FS_Interval
  <2>2. IsFiniteSet(S)  BY <2>1, FS_Subset
  <2> QED  BY <2>2, FS_CardinalityType
<1>2. ASSUME Cardinality(S) <= 1, NEW x \in S, NEW y \in S, x # y PROVE FALSE
  <2>1. IsFiniteSet({x}) /\ Cardinality({x}) = 1  BY FS_Singleton
  <2>2. PICK T : T = {x} \cup {y}  OBVIOUS
  <2>3. IsFiniteSet(T) /\ Cardinality(T) = Cardinality({x}) + 1
    BY <1>2, <2>1, <2>2, FS_AddElement
  <2>4. T \subseteq S  BY <2>2
  <2>5. Cardinality(T) <= Cardinality(S)  BY <1>1, <2>4, FS_Subset
  <2> QED  BY <1>1, <1>2, <2>1, <2>3, <2>5
<1>3. ASSUME \A x, y \in S : x = y PROVE Cardinality(S) <= 1
  <2>1. CASE S = {}
    <3>1. Cardinality(S) = 0  BY <2>1, FS_EmptySet
    <3> QED  BY <3>1
  <2>2. CASE S # {}
    <3>1. PICK x \in S : TRUE  BY <2>2
    <3>2. S = {x}  BY <1>3, <3>1
    <3>3. Cardinality({x}) = 1  BY FS_Singleton
    <3> QED  BY <3>2, <3>3
  <2> QED  BY <2>1, <2>2
<1> QED  BY <1>2, <1>3

\* The positions of certain words, when b are the amounts.
At(opts, b, words) == {i \in 1..Len(opts) \ b : Word(opts[i]) \in words}

\* The options can be read with b as amounts.
Readable(opts, b) ==
    /\ \A i \in 1..Len(opts) \ b : Word(opts[i]) \in ExpiryWords \cup Conditions \cup {"GET"}
    /\ b = {i + 1 : i \in At(opts, b, Timed)}
    /\ \A i, j \in At(opts, b, ExpiryWords) : i = j
    /\ \A i, j \in At(opts, b, Conditions) : i = j
    /\ \A i \in b : expiry_error(Word(opts[i - 1]), parse_i64(opts[i])) = "none"

Meaning(opts, b) ==
    [expiry |-> IF At(opts, b, ExpiryWords) = {} THEN "unset"
                ELSE Word(opts[The(At(opts, b, ExpiryWords))]),
     condition |-> IF At(opts, b, Conditions) = {} THEN "None"
                   ELSE Word(opts[The(At(opts, b, Conditions))]),
     get |-> \E i \in 1..Len(opts) \ b : Word(opts[i]) = "GET",
     error |-> "none"]

\* A reading of the options, in parts.
LEMMA ReadingFields ==
    ASSUME NEW opts, Len(opts) \in Nat, NEW b
    PROVE  (Reading(opts, b).ok <=> Readable(opts, b)) /\ Reading(opts, b).meaning = Meaning(opts, b)
<1>1. /\ Cardinality(At(opts, b, ExpiryWords)) <= 1
             <=> \A i, j \in At(opts, b, ExpiryWords) : i = j
      /\ Cardinality(At(opts, b, Conditions)) <= 1
             <=> \A i, j \in At(opts, b, Conditions) : i = j
  <2>1. At(opts, b, ExpiryWords) \subseteq 1..Len(opts) /\ At(opts, b, Conditions) \subseteq 1..Len(opts)
    BY DEF At
  <2> QED  BY <2>1, AtMostOne
<1>2. Reading(opts, b).meaning = Meaning(opts, b)
  BY DEF Reading, Meaning, At, ExpiryWords, Conditions
<1> DEFINE Right ==
             /\ \A i \in 1..Len(opts) \ b : Word(opts[i]) \in Timed \cup {"KEEPTTL", "NX", "XX", "GET"}
             /\ b = {i + 1 : i \in At(opts, b, Timed)}
             /\ Cardinality(At(opts, b, ExpiryWords)) <= 1
             /\ Cardinality(At(opts, b, Conditions)) <= 1
             /\ \A i \in b : expiry_error(Word(opts[i - 1]), parse_i64(opts[i])) = "none"
<1>3. Reading(opts, b).ok <=> Right
  BY DEF Reading, At, ExpiryWords, Conditions
<1>4. Timed \cup {"KEEPTTL", "NX", "XX", "GET"} = ExpiryWords \cup Conditions \cup {"GET"}
  BY DEF ExpiryWords, Conditions
<1>5. Right <=> Readable(opts, b)  BY <1>1, <1>4 DEF Readable
<1> QED  BY <1>2, <1>3, <1>5

Known == ExpiryWords \cup Conditions \cup {"GET"}

\* Of the words at the positions W at most one is among words, and it is x.
Chosen(opts, W, words, none, x) ==
    \/ x = none /\ \A i \in W : Word(opts[i]) \notin words
    \/ \E e \in W : /\ x = Word(opts[e]) /\ x \in words
                    /\ \A i \in W : Word(opts[i]) \in words => i = e

\* a are the amounts among the first p positions.
AmountsTo(opts, p, a) ==
    /\ a \subseteq 1..p
    /\ \A i \in 1..p : i \in a <=> i - 1 \in 1..p \ a /\ Word(opts[i - 1]) \in Timed
    /\ p \in 1..p \ a => Word(opts[p]) \notin Timed
    /\ \A i \in a : expiry_error(Word(opts[i - 1]), parse_i64(opts[i])) = "none"

\* The words at the positions W say o.
Says(opts, W, o) ==
    /\ \A i \in W : Word(opts[i]) \in Known
    /\ Chosen(opts, W, ExpiryWords, "unset", o.expiry)
    /\ Chosen(opts, W, Conditions, "None", o.condition)
    /\ o.get = TRUE <=> \E i \in W : Word(opts[i]) \in {"GET"}
    /\ o.error = "none"

\* Whoever reads the options finds the same amounts.
LEMMA SameAmounts ==
    ASSUME NEW opts, NEW n \in Nat, n = Len(opts), NEW p \in 0..n, NEW a, AmountsTo(opts, p, a),
           NEW b, b \subseteq 1..n, Readable(opts, b)
    PROVE  (\A i \in 1..p : i \in a <=> i \in b) /\ p + 1 \notin b
<1>1. \A i \in Int : i \in b => i - 1 \in 1..n \ b /\ Word(opts[i - 1]) \in Timed
  <2> SUFFICES ASSUME NEW i \in Int, i \in b PROVE i - 1 \in 1..n \ b /\ Word(opts[i - 1]) \in Timed
    OBVIOUS
  <2>1. PICK j \in At(opts, b, Timed) : i = j + 1  BY DEF Readable
  <2>2. j \in 1..n \ b /\ Word(opts[j]) \in Timed /\ j = i - 1  BY <2>1 DEF At
  <2> QED  BY <2>2
<1>2. \A i \in Int : i - 1 \in 1..n \ b /\ Word(opts[i - 1]) \in Timed => i \in b
  <2> SUFFICES ASSUME NEW i \in Int, i - 1 \in 1..n \ b, Word(opts[i - 1]) \in Timed PROVE i \in b
    OBVIOUS
  <2>1. i - 1 \in At(opts, b, Timed) /\ (i - 1) + 1 = i  BY DEF At
  <2> QED  BY <2>1 DEF Readable
<1> DEFINE T == {i \in 1..p : ~(i \in a <=> i \in b)}
<1>3. T = {}
  <2> SUFFICES ASSUME T # {} PROVE FALSE  OBVIOUS
  <2>1. PICK m \in T : \A i \in T : m <= i
    <3>1. T \subseteq Nat  OBVIOUS
    <3> HIDE DEF T
    <3> QED  BY <3>1, LeastNat
  <2>2. m \in 1..p /\ ~(m \in a <=> m \in b) /\ m \in Int  OBVIOUS
  <2>3. m \in a <=> m - 1 \in 1..p \ a /\ Word(opts[m - 1]) \in Timed  BY <2>2 DEF AmountsTo
  <2>4. m \in b <=> m - 1 \in 1..n \ b /\ Word(opts[m - 1]) \in Timed  BY <1>1, <1>2, <2>2
  <2>5. CASE m = 1
    <3>1. m - 1 \notin 1..p /\ m - 1 \notin 1..n  BY <2>5
    <3> QED  BY <2>2, <2>3, <2>4, <3>1
  <2>6. CASE m # 1
    <3>1. m - 1 \in 1..p /\ m - 1 \in 1..n /\ ~(m <= m - 1)  BY <2>2, <2>6
    <3>2. m - 1 \in a <=> m - 1 \in b
      <4>1. m - 1 \notin T  BY <2>1, <3>1
      <4> QED  BY <3>1, <4>1
    <3> QED  BY <2>2, <2>3, <2>4, <3>1, <3>2
  <2> QED  BY <2>5, <2>6
<1>4. \A i \in 1..p : i \in a <=> i \in b  BY <1>3
<1>5. p + 1 \notin b
  <2> SUFFICES ASSUME p + 1 \in b PROVE FALSE  OBVIOUS
  <2>1. (p + 1) - 1 = p /\ p + 1 \in Int  OBVIOUS
  <2>2. p \in 1..n \ b /\ Word(opts[p]) \in Timed  BY <1>1, <2>1
  <2>3. p \in 1..p  BY <2>2
  <2>4. p \notin a  BY <1>4, <2>2, <2>3
  <2> QED  BY <2>2, <2>3, <2>4 DEF AmountsTo
<1> QED  BY <1>4, <1>5

\* One more word, which is not a timed expiry.
LEMMA AmountsWord ==
    ASSUME NEW opts, NEW p \in Nat, NEW a, AmountsTo(opts, p, a), Word(opts[p + 1]) \notin Timed
    PROVE  AmountsTo(opts, p + 1, a)
<1>1. a \subseteq 1..p /\ a \subseteq 1..(p + 1) /\ p + 1 \notin a  BY DEF AmountsTo
<1>2. ASSUME NEW i \in 1..(p + 1)
      PROVE  i \in a <=> i - 1 \in 1..(p + 1) \ a /\ Word(opts[i - 1]) \in Timed
  <2>1. CASE i = p + 1
    <3>1. i - 1 = p /\ i \notin a  BY <1>1, <2>1
    <3>2. p \in 1..(p + 1) \ a => p \in 1..p \ a  OBVIOUS
    <3> QED  BY <3>1, <3>2 DEF AmountsTo
  <2>2. CASE i # p + 1
    <3>1. i \in 1..p /\ (i - 1 \in 1..(p + 1) \ a <=> i - 1 \in 1..p \ a)  BY <2>2
    <3> QED  BY <3>1 DEF AmountsTo
  <2> QED  BY <2>1, <2>2
<1> QED  BY <1>1, <1>2 DEF AmountsTo

\* A timed expiry and its amount.
LEMMA AmountsTimed ==
    ASSUME NEW opts, NEW p \in Nat, NEW a, AmountsTo(opts, p, a), Word(opts[p + 1]) \in Timed,
           expiry_error(Word(opts[p + 1]), parse_i64(opts[p + 2])) = "none"
    PROVE  AmountsTo(opts, p + 2, a \cup {p + 2}) /\ 1..(p + 2) \ (a \cup {p + 2}) = (1..p \ a) \cup {p + 1}
<1>1. a \subseteq 1..p /\ p + 1 \notin a /\ p + 2 \notin a  BY DEF AmountsTo
<1>2. PICK c : c = a \cup {p + 2}  OBVIOUS
<1>3. 1..(p + 2) \ c = (1..p \ a) \cup {p + 1}  BY <1>1, <1>2
<1>4. c \subseteq 1..(p + 2)  BY <1>1, <1>2
<1>5. ASSUME NEW i \in 1..(p + 2)
      PROVE  i \in c <=> i - 1 \in (1..p \ a) \cup {p + 1} /\ Word(opts[i - 1]) \in Timed
  <2>1. CASE i = p + 2
    <3>1. i - 1 = p + 1 /\ i \in c  BY <1>2, <2>1
    <3> QED  BY <3>1
  <2>2. CASE i = p + 1
    <3>1. i - 1 = p /\ i \notin c /\ p # p + 1  BY <1>1, <1>2, <2>2
    <3> QED  BY <3>1 DEF AmountsTo
  <2>3. CASE i \in 1..p
    <3>1. (i \in c <=> i \in a) /\ i - 1 # p + 1  BY <1>2, <2>3
    <3> QED  BY <2>3, <3>1 DEF AmountsTo
  <2> QED  BY <2>1, <2>2, <2>3
<1>6. p + 2 \in c  BY <1>2
<1>7. \A i \in c : expiry_error(Word(opts[i - 1]), parse_i64(opts[i])) = "none"
  <2>1. (p + 2) - 1 = p + 1  OBVIOUS
  <2> QED  BY <1>2, <2>1 DEF AmountsTo
<1>8. AmountsTo(opts, p + 2, c)  BY <1>3, <1>4, <1>5, <1>6, <1>7 DEF AmountsTo
<1> QED  BY <1>2, <1>3, <1>8

\* One more option, of these words or of others.
LEMMA ChosenMore ==
    ASSUME NEW opts, NEW W, NEW q, q \notin W, NEW words, NEW none, NEW x,
           Chosen(opts, W, words, none, x)
    PROVE  /\ Word(opts[q]) \notin words => Chosen(opts, W \cup {q}, words, none, x)
           /\ Word(opts[q]) \in words /\ x = none /\ none \notin words =>
                 Chosen(opts, W \cup {q}, words, none, Word(opts[q]))
           /\ x # none => \E e \in W : Word(opts[e]) \in words
           /\ none \notin words /\ x = none => \A i \in W : Word(opts[i]) \notin words
  BY DEF Chosen

\* The words of the options are told apart.
LEMMA WordSets ==
    /\ "unset" \notin ExpiryWords /\ "None" \notin Conditions
    /\ \A x : /\ x \in Conditions => x \notin ExpiryWords \cup {"GET"} /\ x \in Known
              /\ x \in ExpiryWords => x \notin Conditions \cup {"GET"} /\ x \in Known
              /\ x \in {"GET"} => x \notin ExpiryWords \cup Conditions /\ x \in Known
              /\ x \in ExpiryWords <=> x \in Timed \/ x \in {"KEEPTTL"}
              /\ x \in {"KEEPTTL"} => x \notin Timed
              /\ x \in Known <=> x \in ExpiryWords \cup Conditions \cup {"GET"}
  BY DEF ExpiryWords, Conditions, Timed, Known

\* The first option of these words.
LEMMA ChosenNew ==
    ASSUME NEW opts, NEW W, NEW q, q \notin W, NEW words, NEW none, none \notin words,
           NEW x, x = none, NEW y, y = Word(opts[q]), y \in words, NEW z, z = y,
           Chosen(opts, W, words, none, x)
    PROVE  Chosen(opts, W \cup {q}, words, none, z)
  BY DEF Chosen

\* An option that is accepted adds what it says.
LEMMA OptionAccepted ==
    ASSUME NEW opts, NEW W, NEW q, q \notin W, NEW o \in OptionsType, Says(opts, W, o),
           NEW next, next = set_option(opts, q, o), next.error = "none"
    PROVE  /\ Says(opts, W \cup {q}, next)
           /\ Word(opts[q]) \in Timed =>
                 q # Len(opts) /\ expiry_error(Word(opts[q]), Amount(opts, q)) = "none"
<1>1. PICK word : word = Word(opts[q])  OBVIOUS
<1>2. /\ \A i \in W : Word(opts[i]) \in Known
      /\ Chosen(opts, W, ExpiryWords, "unset", o.expiry)
      /\ Chosen(opts, W, Conditions, "None", o.condition)
      /\ o.get = TRUE <=> \E i \in W : Word(opts[i]) \in {"GET"}
      /\ o.error = "none"
  BY DEF Says
<1>3. \A x \in OptionErrors : x # "none" => next # Refused(o, x)
  <2>1. \A x \in OptionErrors : Refused(o, x).error = x  BY OptionFields
  <2> QED  BY <2>1
<1>4. "syntax" \in OptionErrors /\ "syntax" # "none"  BY DEF OptionErrors
<1>5. next # Refused(o, "syntax")  BY <1>3, <1>4
<1>6. ASSUME word \in ExpiryWords, o.expiry = "unset", next = [o EXCEPT !.expiry = word]
      PROVE  Says(opts, W \cup {q}, next)
  <2>1. next.expiry = word /\ next.condition = o.condition /\ next.get = o.get /\ next.error = o.error
    BY <1>6, OptionFields
  <2>2. Chosen(opts, W \cup {q}, ExpiryWords, "unset", next.expiry)
    <3>1. "unset" \notin ExpiryWords  BY WordSets
    <3> QED  BY <1>1, <1>2, <1>6, <2>1, <3>1, ChosenNew
  <2>3. Chosen(opts, W \cup {q}, Conditions, "None", next.condition)
    BY <1>1, <1>2, <1>6, <2>1, ChosenMore, WordSets
  <2>4. next.get = TRUE <=> \E i \in W \cup {q} : Word(opts[i]) \in {"GET"}
    BY <1>1, <1>2, <1>6, <2>1, WordSets
  <2> QED  BY <1>1, <1>2, <1>6, <2>1, <2>2, <2>3, <2>4, WordSets DEF Says
<1>7. CASE word \in Conditions
  <2>1. next = [o EXCEPT !.condition = word] /\ o.condition = "None"
    BY <1>1, <1>5, <1>7, SetOptionCases
  <2>2. next.expiry = o.expiry /\ next.condition = word /\ next.get = o.get /\ next.error = o.error
    BY <1>7, <2>1, OptionFields
  <2>3. Chosen(opts, W \cup {q}, ExpiryWords, "unset", next.expiry)
    BY <1>1, <1>2, <1>7, <2>2, ChosenMore, WordSets
  <2>4. Chosen(opts, W \cup {q}, Conditions, "None", next.condition)
    <3>1. "None" \notin Conditions  BY WordSets
    <3> QED  BY <1>1, <1>2, <1>7, <2>1, <2>2, <3>1, ChosenNew
  <2>5. next.get = TRUE <=> \E i \in W \cup {q} : Word(opts[i]) \in {"GET"}
    BY <1>1, <1>2, <1>7, <2>2, WordSets
  <2>6. word \notin Timed  BY <1>7, WordSets
  <2> QED  BY <1>1, <1>2, <1>7, <2>2, <2>3, <2>4, <2>5, <2>6, WordSets DEF Says
<1>8. CASE word \in {"GET"}
  <2>1. next = [o EXCEPT !.get = TRUE]  BY <1>1, <1>8, SetOptionCases
  <2>2. next.expiry = o.expiry /\ next.condition = o.condition /\ next.get = TRUE /\ next.error = o.error
    BY <2>1 DEF OptionsType
  <2>3. Chosen(opts, W \cup {q}, ExpiryWords, "unset", next.expiry)
    BY <1>1, <1>2, <1>8, <2>2, ChosenMore, WordSets
  <2>4. Chosen(opts, W \cup {q}, Conditions, "None", next.condition)
    BY <1>1, <1>2, <1>8, <2>2, ChosenMore, WordSets
  <2>5. next.get = TRUE <=> \E i \in W \cup {q} : Word(opts[i]) \in {"GET"}
    BY <1>1, <1>8, <2>2
  <2>6. word \notin Timed  BY <1>8, WordSets
  <2> QED  BY <1>1, <1>2, <1>8, <2>2, <2>3, <2>4, <2>5, <2>6, WordSets DEF Says
<1>9. CASE word \in {"KEEPTTL"}
  <2>1. next = [o EXCEPT !.expiry = word] /\ o.expiry = "unset"
    BY <1>1, <1>5, <1>9, SetOptionCases
  <2>2. word \in ExpiryWords /\ word \notin Timed  BY <1>9, WordSets
  <2> QED  BY <1>1, <1>6, <2>1, <2>2
<1>10. CASE word \in Timed
  <2>1. next = expiry_option(opts, q, o)  BY <1>1, <1>10, SetOptionCases
  <2>2. /\ next = [o EXCEPT !.expiry = word] /\ o.expiry = "unset" /\ q # Len(opts)
        /\ expiry_error(word, Amount(opts, q)) = "none"
    BY <1>1, <1>3, <1>10, <2>1, ExpiryOptionCases
  <2>3. word \in ExpiryWords  BY <1>10, WordSets
  <2> QED  BY <1>1, <1>6, <2>2, <2>3
<1>11. CASE word \notin Conditions \cup {"GET"} \cup ExpiryWords
  BY <1>1, <1>5, <1>11, SetOptionCases
<1> QED  BY <1>7, <1>8, <1>9, <1>10, <1>11, WordSets

\* When an option is refused, nobody can read the options.
LEMMA OptionRefused ==
    ASSUME NEW opts, NEW n \in Nat, n = Len(opts), NEW p \in 0..n, p + 1 \in 1..n,
           NEW a, AmountsTo(opts, p, a), NEW o \in OptionsType, Says(opts, 1..p \ a, o),
           NEW next, next = set_option(opts, p + 1, o), next.error # "none",
           NEW b, b \subseteq 1..n, Readable(opts, b)
    PROVE  FALSE
<1>1. PICK q \in Nat : q = p + 1  OBVIOUS
<1>2. PICK word : word = Word(opts[q])  OBVIOUS
<1>3. PICK W : W = 1..p \ a  OBVIOUS
<1>4. q \notin b /\ q \in 1..n \ b /\ \A i \in W : i \in 1..n \ b /\ i # q
  <2>1. (\A i \in 1..p : i \in a <=> i \in b) /\ p + 1 \notin b  BY SameAmounts
  <2> QED  BY <1>1, <1>3, <2>1
<1>5. /\ Chosen(opts, W, ExpiryWords, "unset", o.expiry)
      /\ Chosen(opts, W, Conditions, "None", o.condition) /\ o.error = "none"
  BY <1>3 DEF Says
<1>6. /\ [o EXCEPT !.get = TRUE].error = "none"
      /\ \A x \in ExpiryWords : [o EXCEPT !.expiry = x].error = "none"
      /\ \A x \in Conditions : [o EXCEPT !.condition = x].error = "none"
  BY <1>5 DEF OptionsType
<1>7. ASSUME NEW words, word \in words, \E e \in W : Word(opts[e]) \in words,
             \A i, j \in At(opts, b, words) : i = j
      PROVE  FALSE
  <2>1. PICK e \in W : Word(opts[e]) \in words  BY <1>7
  <2>2. e \in At(opts, b, words) /\ q \in At(opts, b, words) /\ e # q
    BY <1>2, <1>4, <1>7, <2>1 DEF At
  <2> QED  BY <1>7, <2>2
<1>8. ASSUME word \in ExpiryWords, o.expiry # "unset" PROVE FALSE
  <2>1. \E e \in W : Word(opts[e]) \in ExpiryWords  BY <1>5, <1>8 DEF Chosen
  <2> QED  BY <1>7, <1>8, <2>1 DEF Readable
<1>9. CASE word \in Conditions
  <2>1. o.condition # "None"
    <3>1. next = IF o.condition = "None" THEN [o EXCEPT !.condition = word] ELSE Refused(o, "syntax")
      BY <1>1, <1>2, <1>9, SetOptionCases
    <3> QED  BY <1>6, <1>9, <3>1
  <2>2. \E e \in W : Word(opts[e]) \in Conditions  BY <1>5, <2>1 DEF Chosen
  <2> QED  BY <1>7, <1>9, <2>2 DEF Readable
<1>10. CASE word \in {"GET"}
  <2>1. next = set_option(opts, q, o)  BY <1>1
  <2>2. next = [o EXCEPT !.get = TRUE]  BY <1>2, <1>10, <2>1, SetOptionCases
  <2> QED  BY <1>6, <2>2
<1>11. CASE word \in {"KEEPTTL"}
  <2>1. next = IF o.expiry = "unset" THEN [o EXCEPT !.expiry = word] ELSE Refused(o, "syntax")
    BY <1>1, <1>2, <1>11, SetOptionCases
  <2>2. word \in ExpiryWords  BY <1>11, WordSets
  <2>3. o.expiry # "unset"  BY <1>6, <2>1, <2>2
  <2> QED  BY <1>8, <2>2, <2>3
<1>12. CASE word \in Timed
  <2>1. next = expiry_option(opts, q, o)  BY <1>1, <1>2, <1>12, SetOptionCases
  <2>2. word \in ExpiryWords  BY <1>12, WordSets
  <2>3. \/ o.expiry # "unset" \/ q = Len(opts) \/ expiry_error(word, Amount(opts, q)) # "none"
    <3>1. next # [o EXCEPT !.expiry = word]  BY <1>6, <2>2
    <3> QED  BY <1>2, <1>12, <2>1, <3>1, ExpiryOptionCases
  <2>4. q + 1 \in b
    <3>1. q \in At(opts, b, Timed)  BY <1>2, <1>4, <1>12 DEF At
    <3> QED  BY <3>1 DEF Readable
  <2>5. q + 1 \in 1..n /\ (q + 1) - 1 = q  BY <1>1, <2>4
  <2>6. q # Len(opts) /\ ~(q + 1 > Len(opts))  BY <1>1, <2>5
  <2>7. Amount(opts, q) = parse_i64(opts[q + 1])  BY <2>6 DEF Amount
  <2>8. expiry_error(word, parse_i64(opts[q + 1])) = "none"
    BY <1>2, <2>4, <2>5 DEF Readable
  <2> QED  BY <1>8, <2>2, <2>3, <2>6, <2>7, <2>8
<1>13. CASE word \notin Conditions \cup {"GET"} \cup ExpiryWords
  BY <1>2, <1>4, <1>13 DEF Readable
<1> QED  BY <1>9, <1>10, <1>11, <1>12, <1>13, WordSets

\* The options have been read to their end.
LEMMA OptionsRead ==
    ASSUME NEW opts, NEW n \in Nat, n = Len(opts), NEW a, AmountsTo(opts, n, a),
           NEW o \in OptionsType, Says(opts, 1..n \ a, o)
    PROVE  /\ a \subseteq 1..n /\ Readable(opts, a) /\ Meaning(opts, a) = o
           /\ \A b \in SUBSET (1..n) : Readable(opts, b) => b = a
<1>1. a \subseteq 1..n  BY DEF AmountsTo
<1>2. PICK W : W = 1..n \ a  OBVIOUS
<1>3. /\ \A i \in W : Word(opts[i]) \in Known
      /\ Chosen(opts, W, ExpiryWords, "unset", o.expiry)
      /\ Chosen(opts, W, Conditions, "None", o.condition)
      /\ o.get = TRUE <=> \E i \in W : Word(opts[i]) \in {"GET"}
      /\ o.error = "none"
  BY <1>2 DEF Says
<1>4. \A words : At(opts, a, words) = {i \in W : Word(opts[i]) \in words}  BY <1>2 DEF At
<1>5. a = {i + 1 : i \in At(opts, a, Timed)}
  <2>1. ASSUME NEW j \in a PROVE j \in {i + 1 : i \in At(opts, a, Timed)}
    <3>1. j \in 1..n /\ j - 1 \in 1..n \ a /\ Word(opts[j - 1]) \in Timed  BY <1>1 DEF AmountsTo
    <3>2. j - 1 \in At(opts, a, Timed) /\ (j - 1) + 1 = j  BY <1>2, <1>4, <3>1
    <3> QED  BY <3>2
  <2>2. ASSUME NEW i \in At(opts, a, Timed) PROVE i + 1 \in a
    <3>1. i \in 1..n \ a /\ Word(opts[i]) \in Timed  BY <1>2, <1>4
    <3>2. i # n  BY <3>1 DEF AmountsTo
    <3>3. i + 1 \in 1..n /\ (i + 1) - 1 = i  BY <3>1, <3>2
    <3> QED  BY <3>1, <3>3 DEF AmountsTo
  <2> QED  BY <2>1, <2>2
<1>6. ASSUME NEW words, NEW none, none \notin words, NEW x, Chosen(opts, W, words, none, x)
      PROVE  /\ \A i, j \in At(opts, a, words) : i = j
             /\ x = IF At(opts, a, words) = {} THEN none ELSE Word(opts[The(At(opts, a, words))])
  <2>1. PICK S : S = At(opts, a, words)  OBVIOUS
  <2>2. S = {i \in W : Word(opts[i]) \in words}  BY <1>4, <2>1
  <2>3. CASE x = none /\ \A i \in W : Word(opts[i]) \notin words
    <3>1. S = {}  BY <2>2, <2>3
    <3> QED  BY <2>1, <2>3, <3>1
  <2>4. CASE \E e \in W : /\ x = Word(opts[e]) /\ x \in words
                          /\ \A i \in W : Word(opts[i]) \in words => i = e
    <3>1. PICK e \in W : /\ x = Word(opts[e]) /\ x \in words
                         /\ \A i \in W : Word(opts[i]) \in words => i = e
      BY <2>4
    <3>2. S = {e}  BY <2>2, <3>1
    <3>3. The(S) = e  BY <3>2, TheOne
    <3> QED  BY <2>1, <3>1, <3>2, <3>3
  <2> QED  BY <1>6, <2>3, <2>4 DEF Chosen
<1>7. /\ \A i, j \in At(opts, a, ExpiryWords) : i = j
      /\ o.expiry = IF At(opts, a, ExpiryWords) = {} THEN "unset"
                    ELSE Word(opts[The(At(opts, a, ExpiryWords))])
  BY <1>3, <1>6, WordSets
<1>8. /\ \A i, j \in At(opts, a, Conditions) : i = j
      /\ o.condition = IF At(opts, a, Conditions) = {} THEN "None"
                       ELSE Word(opts[The(At(opts, a, Conditions))])
  BY <1>3, <1>6, WordSets
<1>9. Readable(opts, a)
  BY <1>2, <1>3, <1>5, <1>7, <1>8 DEF Readable, AmountsTo, Known
<1>10. Meaning(opts, a) = o
  <2>1. o = [expiry |-> o.expiry, condition |-> o.condition, get |-> o.get, error |-> o.error]
    BY DEF OptionsType
  <2>2. o.get = \E i \in W : Word(opts[i]) = "GET"
    <3>1. o.get \in BOOLEAN  BY DEF OptionsType
    <3>2. \A i : Word(opts[i]) \in {"GET"} <=> Word(opts[i]) = "GET"  OBVIOUS
    <3>3. (\E i \in W : Word(opts[i]) = "GET") <=> o.get = TRUE  BY <1>3, <3>2
    <3> QED  BY <3>1, <3>3, Zenon
  <2> QED  BY <1>2, <1>3, <1>7, <1>8, <2>1, <2>2, Zenon DEF Meaning
<1>11. ASSUME NEW b \in SUBSET (1..n), Readable(opts, b) PROVE b = a
  <2>1. n \in 0..n  OBVIOUS
  <2>2. \A i \in 1..n : i \in a <=> i \in b  BY <1>11, <2>1, SameAmounts
  <2> QED  BY <1>1, <2>2
<1> QED  BY <1>1, <1>9, <1>10, <1>11

\* The loop of parse_set_options between two turns: the first p arguments have been
\* read and say what it has, or nobody can read the options.
Reached(opts, m, loop) ==
    \/ \E p \in 0..Len(opts) : \E a :
          /\ loop.i = p + 1 /\ (p >= m \/ p = Len(opts))
          /\ AmountsTo(opts, p, a) /\ Says(opts, 1..p \ a, loop.options)
    \/ /\ loop.options.error # "none"
       /\ \A b \in SUBSET (1..Len(opts)) : ~Readable(opts, b)

\* The loop starts with nothing read.
LEMMA ReachedFirst ==
    ASSUME NEW opts, Len(opts) \in Nat
    PROVE  Reached(opts, 0, [i |-> 1, options |-> NoOptions])
<1>1. 0 \in 0..Len(opts) /\ 0 >= 0 /\ 1 = 0 + 1 /\ 1..0 = {}  OBVIOUS
<1>2. AmountsTo(opts, 0, {})  BY <1>1 DEF AmountsTo
<1>3. NoOptions.expiry = "unset" /\ NoOptions.condition = "None" /\ NoOptions.get = FALSE
      /\ NoOptions.error = "none"
  BY DEF NoOptions
<1>4. Says(opts, {}, NoOptions)  BY <1>3 DEF Says, Chosen
<1>5. PICK loop : loop = [i |-> 1, options |-> NoOptions]  OBVIOUS
<1>6. loop.i = 1 /\ loop.options = NoOptions  BY <1>5
<1>7. 1..0 \ {} = {}  OBVIOUS
<1>8. Says(opts, 1..0 \ {}, loop.options)  BY <1>4, <1>6, <1>7
<1>9. Reached(opts, 0, loop)  BY <1>1, <1>2, <1>6, <1>8 DEF Reached
<1> QED  BY <1>5, <1>9

\* A turn of the loop has read one option more, or has refused.
LEMMA ReachedNext ==
    ASSUME NEW opts, NEW n \in Nat, n = Len(opts), NEW m \in Nat, NEW loop \in LoopType,
           Reached(opts, m, loop), NEW next, next = SetTurn(opts, loop)
    PROVE  Reached(opts, m + 1, next)
<1>1. loop.i \in Nat /\ loop.options \in OptionsType  BY DEF LoopType
<1>2. CASE loop.options.error # "none" /\ \A b \in SUBSET (1..Len(opts)) : ~Readable(opts, b)
  <2>1. next = loop  BY <1>2 DEF SetTurn
  <2> QED  BY <1>2, <2>1 DEF Reached
<1>3. CASE \E p \in 0..Len(opts) : \E a :
              /\ loop.i = p + 1 /\ (p >= m \/ p = Len(opts))
              /\ AmountsTo(opts, p, a) /\ Says(opts, 1..p \ a, loop.options)
  <2>a. PICK p \in 0..n :
           \E a : /\ loop.i = p + 1 /\ (p >= m \/ p = n)
                  /\ AmountsTo(opts, p, a) /\ Says(opts, 1..p \ a, loop.options)
    BY <1>3
  <2>1. PICK a : /\ loop.i = p + 1 /\ (p >= m \/ p = n)
                 /\ AmountsTo(opts, p, a) /\ Says(opts, 1..p \ a, loop.options)
    BY <2>a
  <2>2. loop.options.error = "none"  BY <2>1 DEF Says
  <2>3. PICK o \in OptionsType : o = loop.options  BY <1>1
  <2>4. CASE p = n
    <3>1. loop.i > Len(opts)  BY <2>1, <2>4
    <3>2. next = loop  BY <3>1 DEF SetTurn
    <3> QED  BY <2>1, <2>4, <3>2 DEF Reached
  <2>5. CASE p # n
    <3>1. PICK q \in Nat : q = p + 1  OBVIOUS
    <3>2. q \in 1..n /\ loop.i = q /\ ~(loop.i > Len(opts)) /\ p >= m  BY <2>1, <2>5, <3>1
    <3>3. PICK s : s = set_option(opts, q, o)  OBVIOUS
    <3>4. next = [i |-> IF Word(opts[q]) \in Timed THEN q + 2 ELSE q + 1, options |-> s]
      BY <2>2, <2>3, <3>2, <3>3 DEF SetTurn
    <3>5. next.options = s /\ next.i = IF Word(opts[q]) \in Timed THEN q + 2 ELSE q + 1
      BY <3>4
    <3>6. CASE s.error # "none"
      <4>1. \A b \in SUBSET (1..n) : ~Readable(opts, b)
        <5> SUFFICES ASSUME NEW b \in SUBSET (1..n), Readable(opts, b) PROVE FALSE  OBVIOUS
        <5>1. p + 1 \in 1..n /\ s = set_option(opts, p + 1, o)  BY <3>1, <3>2, <3>3
        <5>2. Says(opts, 1..p \ a, o) /\ AmountsTo(opts, p, a)  BY <2>1, <2>3
        <5> QED  BY <3>6, <5>1, <5>2, OptionRefused
      <4> QED  BY <3>5, <3>6, <4>1 DEF Reached
    <3>7. CASE s.error = "none"
      <4>1. PICK W : W = 1..p \ a  OBVIOUS
      <4>2. q \notin W /\ Says(opts, W, o)  BY <2>1, <2>3, <3>1, <4>1
      <4>3. Says(opts, W \cup {q}, s)  BY <3>3, <3>7, <4>2, OptionAccepted
      <4>4. CASE Word(opts[q]) \notin Timed
        <5>1. AmountsTo(opts, q, a)  BY <2>1, <3>1, <4>4, AmountsWord
        <5>2. 1..q \ a = W \cup {q}
          <6>1. a \subseteq 1..p  BY <2>1 DEF AmountsTo
          <6> QED  BY <3>1, <4>1, <6>1
        <5>3. Says(opts, 1..q \ a, next.options)  BY <3>5, <4>3, <5>2
        <5>4. next.i = q + 1 /\ q >= m + 1 /\ q \in 0..n  BY <3>1, <3>2, <3>5, <4>4
        <5> QED  BY <5>1, <5>3, <5>4 DEF Reached
      <4>5. CASE Word(opts[q]) \in Timed
        <5>1. q # Len(opts) /\ expiry_error(Word(opts[q]), Amount(opts, q)) = "none"
          BY <3>3, <3>7, <4>2, <4>5, OptionAccepted
        <5>2. PICK r \in Nat : r = q + 1  OBVIOUS
        <5>3. r \in 0..n /\ ~(q + 1 > Len(opts)) /\ r = p + 2 /\ r >= m + 1 /\ q + 2 = r + 1
          BY <3>1, <3>2, <5>1, <5>2
        <5>4. Amount(opts, q) = parse_i64(opts[r])  BY <5>2, <5>3 DEF Amount
        <5>5. /\ Word(opts[p + 1]) \in Timed
              /\ expiry_error(Word(opts[p + 1]), parse_i64(opts[p + 2])) = "none"
          BY <3>1, <4>5, <5>1, <5>3, <5>4
        <5>6. /\ AmountsTo(opts, p + 2, a \cup {p + 2})
              /\ 1..(p + 2) \ (a \cup {p + 2}) = (1..p \ a) \cup {p + 1}
          <6>1. p \in Nat /\ AmountsTo(opts, p, a)  BY <2>1
          <6> QED  BY <5>5, <6>1, AmountsTimed
        <5>7. PICK c : c = a \cup {r}  OBVIOUS
        <5>8. AmountsTo(opts, r, c) /\ 1..r \ c = W \cup {q}
          BY <3>1, <4>1, <5>3, <5>6, <5>7
        <5>9. Says(opts, 1..r \ c, next.options)  BY <3>5, <4>3, <5>8
        <5>10. next.i = r + 1  BY <3>5, <4>5, <5>3
        <5> QED  BY <5>3, <5>8, <5>9, <5>10 DEF Reached
      <4> QED  BY <4>4, <4>5
    <3> QED  BY <3>6, <3>7
  <2> QED  BY <2>4, <2>5
<1> QED  BY <1>2, <1>3 DEF Reached

\* What parse_set_options returns.
LEMMA OptionsParsed ==
    ASSUME NEW opts, NEW n \in Nat, n = Len(opts), NEW parsed, parsed = parse_set_options(opts)
    PROVE  \/ /\ parsed.error = "none"
              /\ \E a \in SUBSET (1..n) : /\ Readable(opts, a) /\ Meaning(opts, a) = parsed
                                          /\ \A b \in SUBSET (1..n) : Readable(opts, b) => b = a
           \/ /\ parsed.error # "none"
              /\ \A b \in SUBSET (1..n) : ~Readable(opts, b)
<1>1. PICK after : /\ after \in [Nat -> LoopType]
                   /\ after[0] = [i |-> 1, options |-> NoOptions]
                   /\ \A m \in Nat : after[m + 1] = SetTurn(opts, after[m])
                   /\ parse_set_options(opts) = after[Len(opts)].options
  BY OptionsLoop
<1> DEFINE T == {m \in Nat : Reached(opts, m, after[m])}
<1>2. 0 \in T  BY <1>1, ReachedFirst
<1>3. ASSUME NEW m \in Nat, m \in T PROVE m + 1 \in T
  <2>1. Reached(opts, m, after[m]) /\ after[m] \in LoopType  BY <1>1, <1>3
  <2>2. Reached(opts, m + 1, after[m + 1])  BY <1>1, <2>1, ReachedNext
  <2> QED  BY <2>2
<1>4. \A m \in Nat : m \in T
  <2> HIDE DEF T
  <2> QED  BY <1>2, <1>3, SetInduction
<1>5. PICK loop \in LoopType : loop = after[n]  BY <1>1
<1>6. Reached(opts, n, loop) /\ parsed = loop.options /\ parsed \in OptionsType
  BY <1>1, <1>4, <1>5 DEF LoopType
<1>7. CASE parsed.error # "none" /\ \A b \in SUBSET (1..n) : ~Readable(opts, b)
  BY <1>7
<1>8. CASE \E p \in 0..n : \E a :
              /\ loop.i = p + 1 /\ (p >= n \/ p = n)
              /\ AmountsTo(opts, p, a) /\ Says(opts, 1..p \ a, loop.options)
  <2>a. PICK p \in 0..n : \E a : /\ (p >= n \/ p = n)
                                 /\ AmountsTo(opts, p, a) /\ Says(opts, 1..p \ a, loop.options)
    BY <1>8
  <2>1. PICK a : (p >= n \/ p = n) /\ AmountsTo(opts, p, a) /\ Says(opts, 1..p \ a, loop.options)
    BY <2>a
  <2>2. p = n  BY <2>1
  <2>3. AmountsTo(opts, n, a) /\ Says(opts, 1..n \ a, parsed)  BY <1>6, <2>1, <2>2
  <2>4. /\ a \subseteq 1..n /\ Readable(opts, a) /\ Meaning(opts, a) = parsed
        /\ \A b \in SUBSET (1..n) : Readable(opts, b) => b = a
    BY <1>6, <2>3, OptionsRead
  <2>5. parsed.error = "none"  BY <2>3 DEF Says
  <2> QED  BY <2>4, <2>5
<1> QED  BY <1>6, <1>7, <1>8 DEF Reached

\* SET accepts exactly the lists of options that can be read without an order, of
\* any length and of any arguments, and takes from them what they say; a list that
\* cannot be read is refused (parse_set_options).
THEOREM OptionsAgree ==
    ASSUME NEW opts, NEW n \in Nat, n = Len(opts)
    PROVE  LET parsed == parse_set_options(opts)
               readings == {Reading(opts, a) : a \in SUBSET (1..Len(opts))}
               accepted == {r.meaning : r \in {x \in readings : x.ok}}
           IN  IF parsed.error = "none" THEN accepted = {parsed} ELSE accepted = {}
<1>1. PICK parsed : parsed = parse_set_options(opts)  OBVIOUS
<1> DEFINE readings == {Reading(opts, a) : a \in SUBSET (1..Len(opts))}
           accepted == {r.meaning : r \in {x \in readings : x.ok}}
<1>2. \A b : (Reading(opts, b).ok <=> Readable(opts, b)) /\ Reading(opts, b).meaning = Meaning(opts, b)
  BY ReadingFields
<1>3. ASSUME \A b \in SUBSET (1..n) : ~Readable(opts, b) PROVE accepted = {}
  BY <1>2, <1>3
<1>4. ASSUME parsed.error = "none",
             NEW a \in SUBSET (1..n), Readable(opts, a), Meaning(opts, a) = parsed,
             \A b \in SUBSET (1..n) : Readable(opts, b) => b = a
      PROVE  accepted = {parsed}
  <2>1. ASSUME NEW y \in accepted PROVE y = parsed
    <3>1. PICK r \in readings : r.ok /\ y = r.meaning  OBVIOUS
    <3>2. PICK b \in SUBSET (1..n) : r = Reading(opts, b)  OBVIOUS
    <3>3. b = a  BY <1>2, <1>4, <3>1, <3>2
    <3> QED  BY <1>2, <1>4, <3>1, <3>2, <3>3
  <2>2. parsed \in accepted
    <3>1. PICK r : r = Reading(opts, a)  OBVIOUS
    <3>2. r \in readings /\ r.ok /\ r.meaning = parsed  BY <1>2, <1>4, <3>1
    <3> HIDE DEF readings
    <3> QED  BY <3>2
  <2> QED
    <3> HIDE DEF accepted
    <3> QED  BY <2>1, <2>2
<1>5. IF parsed.error = "none" THEN accepted = {parsed} ELSE accepted = {}
  <2> HIDE DEF accepted
  <2> QED  BY <1>1, <1>3, <1>4, OptionsParsed
<1> QED  BY <1>1, <1>5, Zenon

\* The same of the lists that the runs enumerate, for every bound on their length
\* (parse_set_options).
THEOREM SetOptionsAgreeHolds == WireSpec => []SetOptionsAgree
<1>1. SampleType => SetOptionsAgree
  <2> SUFFICES ASSUME SampleType, sample.kind = "options" PROVE SetOptionsAgree
    BY DEF SetOptionsAgree
  <2>1. PICK n \in Nat : Len(sample.opts) = n
    <3>1. sample # NoSample  BY DEF NoSample
    <3>2. \/ \E p \in Patterns : sample = [kind |-> "pattern", pattern |-> p]
          \/ \E o \in OptionLists : sample = [kind |-> "options", opts |-> o]
          \/ \E t \in Timed, n \in 1..I64Max : sample = [kind |-> "deadline", word |-> t, n |-> n]
      BY <3>1 DEF SampleType, Samples
    <3>3. sample.opts \in OptionLists  BY <3>2
    <3>4. PICK n \in 0..MaxOptions : sample.opts \in [1..n -> OptionArgs]  BY <3>3 DEF OptionLists
    <3> QED  BY <3>4
  <2>2. PICK opts : opts = sample.opts  OBVIOUS
  <2> QED  BY <2>1, OptionsAgree DEF SetOptionsAgree
<1> QED  BY <1>1, SampleInvariant, PTL

-----------------------------------------------------------------------------
(***************************************************************************)
(* Patterns.                                                               *)
(***************************************************************************)
GlobText == Seq(AnyByte)
Size == [p \in GlobText |-> Len(p)]

\* Induction over a set with a size.
LEMMA SizeInduction ==
    ASSUME NEW D, NEW size \in [D -> Nat], NEW T,
           \A p \in D : (\A q \in D : size[q] < size[p] => q \in T) => p \in T
    PROVE  \A p \in D : p \in T
<1> DEFINE Bad == {n \in Nat : \E p \in D : size[p] = n /\ p \notin T}
<1> SUFFICES ASSUME NEW x \in D, x \notin T PROVE FALSE  OBVIOUS
<1>1. size[x] \in Bad  OBVIOUS
<1>2. PICK m \in Bad : \A n \in Bad : m <= n
  <2>1. Bad \subseteq Nat /\ Bad # {}  BY <1>1
  <2> HIDE DEF Bad
  <2> QED  BY <2>1, LeastNat
<1>3. PICK p \in D : size[p] = m /\ p \notin T  OBVIOUS
<1>4. PICK q \in D : size[q] < size[p] /\ q \notin T  BY <1>3
<1>5. size[q] \in Nat /\ size[p] \in Nat /\ size[q] \in Bad  BY <1>4
<1>6. m <= size[q]  BY <1>2, <1>5
<1> QED  BY <1>3, <1>4, <1>5, <1>6

\* B takes what it gives at p from what is smaller than p.
Descends(B, D, R, size) ==
    /\ R # {} /\ size \in [D -> Nat] /\ B \in [[D -> R] -> [D -> R]]
    /\ \A g, h \in [D -> R] : \A p \in D :
          (\A q \in D : size[q] < size[p] => g[q] = h[q]) => B[g][p] = B[h][p]

\* A function defined from its values at what is smaller exists.
LEMMA Fixpoint ==
    ASSUME NEW D, NEW R, NEW size, NEW B, Descends(B, D, R, size)
    PROVE  \E f \in [D -> R] : f = B[f]
<1> USE DEF Descends
<1> PICK r \in R : TRUE  OBVIOUS
<1>a. size \in [D -> Nat] /\ B \in [[D -> R] -> [D -> R]]  OBVIOUS
<1>b. ASSUME NEW g \in [D -> R], NEW h \in [D -> R], NEW p \in D,
             \A q \in D : size[q] < size[p] => g[q] = h[q]
      PROVE  B[g][p] = B[h][p]
  BY <1>b
<1> USE <1>a
<1> HIDE DEF Descends
<1> DEFINE W == [D -> R]
           A == [p \in D |-> r]
           Step == [n \in Nat |-> B]
<1>1. A \in W /\ Step \in [Nat -> [W -> W]]  OBVIOUS
<1>2. PICK F : Iterates(F, W, A, Step)
  <2> HIDE DEF A, Step, W
  <2> QED  BY <1>1, Recursion
<1>3. F \in [Nat -> W] /\ \A n \in Nat : F[n + 1] = B[F[n]]
  <2>1. F \in [Nat -> W] /\ \A n \in Nat : F[n + 1] = Step[n + 1][F[n]]
    <3> HIDE DEF A, Step, W
    <3> QED  BY <1>2 DEF Iterates
  <2> QED  BY <2>1
<1> HIDE DEF A, Step
<1>4. \A n \in Nat : \A p \in D : size[p] < n => F[n + 1][p] = F[n][p]
  <2> DEFINE T == {n \in Nat : \A p \in D : size[p] < n => F[n + 1][p] = F[n][p]}
  <2>1. 0 \in T  OBVIOUS
  <2>2. ASSUME NEW n \in Nat, n \in T PROVE n + 1 \in T
    <3> SUFFICES ASSUME NEW p \in D, size[p] < n + 1 PROVE F[(n + 1) + 1][p] = F[n + 1][p]
      OBVIOUS
    <3>1. F[n] \in W /\ F[n + 1] \in W /\ F[(n + 1) + 1] = B[F[n + 1]] /\ F[n + 1] = B[F[n]]
      BY <1>3
    <3>2. \A q \in D : size[q] < size[p] => F[n + 1][q] = F[n][q]
      <4> SUFFICES ASSUME NEW q \in D, size[q] < size[p] PROVE F[n + 1][q] = F[n][q]  OBVIOUS
      <4>1. size[q] \in Nat /\ size[p] \in Nat  OBVIOUS
      <4>2. size[q] < n  BY <4>1
      <4> QED  BY <2>2, <4>2
    <3>3. B[F[n + 1]][p] = B[F[n]][p]  BY <1>b, <3>1, <3>2 
    <3> QED  BY <3>1, <3>3
  <2>3. \A n \in Nat : n \in T
    <3> HIDE DEF T
    <3> QED  BY <2>1, <2>2, SetInduction
  <2> QED  BY <2>3
<1>5. ASSUME NEW p \in D PROVE \A n \in Nat : F[size[p] + 1 + n][p] = F[size[p] + 1][p]
  <2>1. PICK s \in Nat : s = size[p]  OBVIOUS
  <2> DEFINE T == {n \in Nat : F[s + 1 + n][p] = F[s + 1][p]}
  <2>2. 0 \in T  BY <2>1
  <2>3. ASSUME NEW n \in Nat, n \in T PROVE n + 1 \in T
    <3>1. PICK m \in Nat : m = s + 1 + n  BY <2>1
    <3>2. s < m /\ m + 1 = s + 1 + (n + 1)  BY <3>1
    <3>3. F[m + 1][p] = F[m][p]  BY <1>4, <2>1, <3>2
    <3> QED  BY <2>3, <3>1, <3>2, <3>3
  <2>4. \A n \in Nat : n \in T
    <3> HIDE DEF T
    <3> QED  BY <2>2, <2>3, SetInduction
  <2> QED  BY <2>1, <2>4
<1> DEFINE f == [p \in D |-> F[size[p] + 1][p]]
<1>6. \A p \in D : size[p] \in Nat /\ size[p] + 1 \in Nat  OBVIOUS
<1>7. f \in W  BY <1>3, <1>6
<1>8. ASSUME NEW p \in D PROVE f[p] = B[f][p]
  <2>1. PICK s \in Nat : s = size[p]  OBVIOUS
  <2>2. f[p] = B[F[s]][p]  BY <1>3, <2>1
  <2>3. \A q \in D : size[q] < size[p] => F[s][q] = f[q]
    <3> SUFFICES ASSUME NEW q \in D, size[q] < size[p] PROVE F[s][q] = f[q]  OBVIOUS
    <3>1. PICK t \in Nat : t = size[q]  OBVIOUS
    <3>2. PICK n \in Nat : s = t + 1 + n
      <4>1. t + 1 <= s  BY <2>1, <3>1
      <4>2. s - (t + 1) \in Nat /\ s = t + 1 + (s - (t + 1))  BY <4>1
      <4> QED  BY <4>2
    <3>3. F[t + 1 + n][q] = F[t + 1][q]  BY <1>5, <3>1
    <3> QED  BY <3>1, <3>2, <3>3
  <2>4. F[s] \in W  BY <1>3
  <2> HIDE DEF f
  <2>5. B[F[s]][p] = B[f][p]  BY <1>b, <1>7, <2>3, <2>4
  <2> QED  BY <2>2, <2>5
<1>9. f = B[f]
  <2> HIDE DEF f
  <2>1. B[f] \in W  BY <1>7
  <2>2. f = [p \in D |-> f[p]] /\ B[f] = [p \in D |-> B[f][p]]  BY <1>7, <2>1
  <2>3. PICK g : g = B[f]  OBVIOUS
  <2> QED  BY <1>8, <2>2, <2>3
<1> QED
  <2> HIDE DEF f
  <2> QED  BY <1>7, <1>9

\* The slice behind the first n bytes of p.
LEMMA DropText ==
    ASSUME NEW p \in GlobText, NEW n \in Nat, n <= Len(p)
    PROVE  /\ Drop(p, n) \in GlobText /\ Len(Drop(p, n)) = Len(p) - n
           /\ \A i \in 1..(Len(p) - n) : Drop(p, n)[i] = p[n + i]
<1>1. PICK m \in Nat : m = Len(p)  BY DEF GlobText
<1>2. \A i \in (n + 1)..m : p[i] \in AnyByte  BY <1>1 DEF GlobText
<1>3. SubSeq(p, n + 1, m) = [i \in 1..(m - n) |-> p[i + n]]
  <2>1. m - (n + 1) + 1 = m - n  BY <1>1
  <2> QED  BY <1>1, <1>2, <2>1, SubSeqProperties DEF GlobText
<1> QED  BY <1>1, <1>2, <1>3 DEF GlobText, Drop

\* The size of a text is its length.
LEMMA SizeType == Size \in [GlobText -> Nat] /\ \A p \in GlobText : Size[p] = Len(p)
  BY DEF Size, GlobText

\* The bytes of a text.
LEMMA TextFacts ==
    ASSUME NEW p \in GlobText
    PROVE  /\ Len(p) \in Nat /\ (p = <<>> <=> Len(p) = 0) /\ \A i \in 1..Len(p) : p[i] \in AnyByte
           /\ p # <<>> => Tail(p) = Drop(p, 1)
<1>1. Len(p) \in Nat /\ (p = <<>> <=> Len(p) = 0) /\ \A i \in 1..Len(p) : p[i] \in AnyByte
  BY DEF GlobText
<1>2. p # <<>> => Tail(p) = SubSeq(p, 2, Len(p))  BY TailIsSubSeq DEF GlobText
<1>3. 1 + 1 = 2  OBVIOUS
<1> QED  BY <1>1, <1>2, <1>3 DEF Drop

\* What is left behind an item of a class.
LEMMA ItemFacts ==
    ASSUME NEW p \in GlobText, p # <<>>, NEW n, n = ItemLen(p)
    PROVE  /\ n \in Nat /\ n <= Len(p) /\ n >= 1 /\ Item(p) \subseteq AnyByte
           /\ Drop(p, n) \in GlobText /\ Len(Drop(p, n)) < Len(p)
<1>1. Len(p) \in Nat /\ Len(p) # 0 /\ \A i \in 1..Len(p) : p[i] \in AnyByte  BY TextFacts
<1>2. n \in Nat /\ n <= Len(p) /\ n >= 1  BY <1>1 DEF ItemLen, IsEscape, IsRange
<1>3. Item(p) \subseteq AnyByte
  <2>1. CASE IsEscape(p)
    <3>1. p[2] \in AnyByte  BY <1>1, <2>1 DEF IsEscape
    <3> QED  BY <2>1, <3>1 DEF Item, IsRange
  <2>2. CASE ~IsEscape(p) /\ IsRange(p)  BY <2>2 DEF Item
  <2>3. CASE ~IsEscape(p) /\ ~IsRange(p)
    <3>1. p[1] \in AnyByte  BY <1>1
    <3> QED  BY <2>3, <3>1 DEF Item
  <2> QED  BY <2>1, <2>2, <2>3
<1>4. Drop(p, n) \in GlobText /\ Len(Drop(p, n)) = Len(p) - n  BY <1>2, DropText
<1>5. Len(p) - n < Len(p)  BY <1>1, <1>2
<1> QED  BY <1>2, <1>3, <1>4, <1>5

\* A text without its first byte.
LEMMA DropFirst ==
    ASSUME NEW p \in GlobText
    PROVE  Drop(p, 1) \in GlobText /\ Len(Drop(p, 1)) <= Len(p) /\ (p # <<>> => Len(Drop(p, 1)) < Len(p))
<1>1. CASE p = <<>>
  <2>1. Drop(p, 1) = <<>>  BY <1>1, SubSeqEmpty DEF Drop
  <2> QED  BY <1>1, <2>1
<1>2. CASE p # <<>>
  <2>1. Len(p) \in Nat /\ Len(p) # 0  BY <1>2, TextFacts
  <2>2. Drop(p, 1) \in GlobText /\ Len(Drop(p, 1)) = Len(p) - 1  BY <2>1, DropText
  <2> QED  BY <2>1, <2>2
<1> QED  BY <1>1, <1>2

ClassType == [of : SUBSET AnyByte, rest : GlobText]
Closes(p) == p = <<>> \/ p[1] = "]"
NoClass(p) == [of |-> {}, rest |-> Drop(p, 1)]

\* Class satisfies its equation.
LEMMA ClassEquation ==
    /\ Class \in [GlobText -> ClassType]
    /\ \A p \in GlobText :
          Class[p] = IF Closes(p) THEN NoClass(p)
                     ELSE [Class[Drop(p, ItemLen(p))] EXCEPT !.of = @ \cup Item(p)]
<1> DEFINE Body(f, p) == IF Closes(p) THEN NoClass(p)
                         ELSE [f[Drop(p, ItemLen(p))] EXCEPT !.of = @ \cup Item(p)]
           Recursive(f) == f = [p \in GlobText |-> Body(f, p)]
           B == [g \in [GlobText -> ClassType] |-> [p \in GlobText |-> Body(g, p)]]
<1>1. ASSUME NEW p \in GlobText PROVE NoClass(p) \in ClassType  BY DropFirst DEF NoClass, ClassType
<1>2. ASSUME NEW g \in [GlobText -> ClassType], NEW p \in GlobText PROVE Body(g, p) \in ClassType
  <2>1. CASE Closes(p)  BY <1>1, <2>1
  <2>2. CASE ~Closes(p)
    <3>1. Item(p) \subseteq AnyByte /\ Drop(p, ItemLen(p)) \in GlobText  BY <2>2, ItemFacts DEF Closes
    <3>2. PICK c \in ClassType : c = g[Drop(p, ItemLen(p))]  BY <3>1
    <3>3. [c EXCEPT !.of = @ \cup Item(p)] \in ClassType  BY <3>1 DEF ClassType
    <3> QED  BY <2>2, <3>2, <3>3
  <2> QED  BY <2>1, <2>2
<1>3. ASSUME NEW g, NEW h, NEW p \in GlobText, \A q \in GlobText : Len(q) < Len(p) => g[q] = h[q]
      PROVE  Body(g, p) = Body(h, p)
  <2>1. CASE Closes(p)  BY <2>1
  <2>2. CASE ~Closes(p)
    <3>1. Drop(p, ItemLen(p)) \in GlobText /\ Len(Drop(p, ItemLen(p))) < Len(p)
      BY <2>2, ItemFacts DEF Closes
    <3>2. g[Drop(p, ItemLen(p))] = h[Drop(p, ItemLen(p))]  BY <1>3, <3>1
    <3> QED  BY <3>2
  <2> QED  BY <2>1, <2>2
<1> HIDE DEF Body
<1>4. B \in [[GlobText -> ClassType] -> [GlobText -> ClassType]]  BY <1>2
<1>5. Descends(B, GlobText, ClassType, Size)
  <2>1. ASSUME NEW g \in [GlobText -> ClassType], NEW h \in [GlobText -> ClassType],
               NEW p \in GlobText, \A q \in GlobText : Size[q] < Size[p] => g[q] = h[q]
        PROVE  B[g][p] = B[h][p]
    <3>1. \A q \in GlobText : Len(q) < Len(p) => g[q] = h[q]  BY <2>1, SizeType
    <3>2. Body(g, p) = Body(h, p)  BY <1>3, <3>1
    <3> QED  BY <3>2
  <2>2. ClassType # {}
    <3>1. <<>> \in GlobText  BY DEF GlobText
    <3> QED  BY <1>1, <3>1
  <2>3. Size \in [GlobText -> Nat]  BY SizeType
  <2> HIDE DEF B
  <2> QED  BY <1>4, <2>1, <2>2, <2>3 DEF Descends
<1>6. PICK f \in [GlobText -> ClassType] : f = B[f]
  <2> HIDE DEF B
  <2> QED  BY <1>5, Fixpoint
<1>7. Recursive(f)  BY <1>6
<1>8. Class = CHOOSE g : Recursive(g)  BY DEF Class, Body, Closes, NoClass, GlobText
<1>9. Recursive(Class)
  <2> HIDE DEF Recursive
  <2> QED  BY <1>7, <1>8
<1>10. \A p \in GlobText : f[p] = Body(f, p) /\ Class[p] = Body(Class, p)
  <2>1. PICK g : g = Class  OBVIOUS
  <2>2. g = [p \in GlobText |-> Body(g, p)]  BY <1>9, <2>1
  <2> QED  BY <1>7, <2>1, <2>2
<1>11. \A p \in GlobText : Class[p] = f[p]
  <2> DEFINE T == {p \in GlobText : Class[p] = f[p]}
  <2>1. ASSUME NEW p \in GlobText, \A q \in GlobText : Size[q] < Size[p] => q \in T PROVE p \in T
    <3>1. \A q \in GlobText : Len(q) < Len(p) => Class[q] = f[q]  BY <2>1, SizeType
    <3>2. Body(Class, p) = Body(f, p)  BY <1>3, <3>1
    <3> QED  BY <1>10, <3>2
  <2>2. \A p \in GlobText : p \in T
    <3> HIDE DEF T
    <3> QED  BY <2>1, SizeType, SizeInduction
  <2> QED  BY <2>2
<1>12. Class \in [GlobText -> ClassType]
  <2>1. PICK g : g = Class  OBVIOUS
  <2>2. g = [p \in GlobText |-> Body(g, p)]  BY <1>9, <2>1
  <2>3. \A p \in GlobText : g[p] \in ClassType  BY <1>11, <2>1
  <2> QED  BY <2>1, <2>2, <2>3
<1> QED  BY <1>10, <1>12 DEF Body

\* The pattern behind a class is no longer than the class.
LEMMA ClassRest == \A p \in GlobText : Len(Class[p].rest) <= Len(p)
<1> DEFINE T == {p \in GlobText : Len(Class[p].rest) <= Len(p)}
<1>1. ASSUME NEW p \in GlobText, \A q \in GlobText : Size[q] < Size[p] => q \in T PROVE p \in T
  <2>1. CASE Closes(p)
    <3>1. Class[p].rest = Drop(p, 1)  BY <2>1, ClassEquation DEF NoClass
    <3> QED  BY <3>1, DropFirst
  <2>2. CASE ~Closes(p)
    <3>1. PICK q \in GlobText : q = Drop(p, ItemLen(p)) /\ Len(q) < Len(p)  BY <2>2, ItemFacts DEF Closes
    <3>2. PICK c \in ClassType : c = Class[q]  BY ClassEquation
    <3>3. Class[p] = [c EXCEPT !.of = @ \cup Item(p)]  BY <2>2, <3>1, <3>2, ClassEquation
    <3>4. Class[p].rest = c.rest /\ c.rest \in GlobText  BY <3>3 DEF ClassType
    <3>5. Len(c.rest) <= Len(q)
      <4>1. q \in T  BY <1>1, <3>1, SizeType
      <4> QED  BY <3>2, <4>1
    <3>6. Len(c.rest) \in Nat /\ Len(q) \in Nat /\ Len(p) \in Nat  BY <3>4, TextFacts
    <3> QED  BY <3>1, <3>4, <3>5, <3>6
  <2> QED  BY <2>1, <2>2
<1>2. \A p \in GlobText : p \in T
  <2> HIDE DEF T
  <2> QED  BY <1>1, SizeType, SizeInduction
<1> QED  BY <1>2

ElementType == [any : BOOLEAN, of : SUBSET AnyByte]

\* The elements of a pattern.
LEMMA OneOfType == AnyText \in ElementType /\ \A S \in SUBSET AnyByte : OneOf(S) \in ElementType
  BY DEF AnyText, OneOf, ElementType

\* The class behind "[".
LEMMA ClassOfFacts ==
    ASSUME NEW p \in GlobText, p # <<>>
    PROVE  ClassOf(p) \in ClassType /\ Len(ClassOf(p).rest) < Len(p)
<1>1. PICK n \in Nat : n = IF Negated(p) THEN 2 ELSE 1  OBVIOUS
<1>2. Len(p) \in Nat /\ Len(p) # 0  BY TextFacts
<1>3. n <= Len(p) /\ n >= 1  BY <1>1, <1>2 DEF Negated
<1>4. PICK q \in GlobText : q = Drop(p, n) /\ Len(q) = Len(p) - n  BY <1>3, DropText
<1>5. PICK c \in ClassType : c = Class[q] /\ Len(c.rest) <= Len(q)  BY ClassEquation, ClassRest
<1>6. ClassOf(p) = c  BY <1>1, <1>4, <1>5 DEF ClassOf
<1>7. Len(q) \in Nat /\ Len(c.rest) \in Nat
  <2>1. c.rest \in GlobText  BY DEF ClassType
  <2> QED  BY <2>1, TextFacts
<1> QED  BY <1>2, <1>3, <1>4, <1>5, <1>6, <1>7

\* The first element of a pattern, and a shorter pattern behind it.
LEMMA ElementFacts ==
    ASSUME NEW p \in GlobText, p # <<>>
    PROVE  /\ Element(p) \in ElementType
           /\ Behind(p) \in GlobText /\ Len(Behind(p)) < Len(p)
<1>1. Len(p) \in Nat /\ Len(p) # 0 /\ \A i \in 1..Len(p) : p[i] \in AnyByte  BY TextFacts
<1>2. PICK c \in ClassType : c = ClassOf(p) /\ Len(c.rest) < Len(p)  BY ClassOfFacts
<1>3. Element(p) \in ElementType
  <2>1. p[1] \in AnyByte /\ (IsEscape(p) => p[2] \in AnyByte)  BY <1>1 DEF IsEscape
  <2>2. /\ {p[1]} \in SUBSET AnyByte /\ (IsEscape(p) => {p[2]} \in SUBSET AnyByte)
        /\ AnyByte \in SUBSET AnyByte /\ c.of \in SUBSET AnyByte /\ AnyByte \ c.of \in SUBSET AnyByte
    BY <2>1 DEF ClassType
  <2>8. p[1] \in {"*", "?", "["} => ~IsEscape(p)  BY DEF IsEscape
  <2>3. CASE p[1] = "*"
    <3>1. Element(p) = AnyText  BY <2>3, <2>8 DEF Element
    <3> QED  BY <3>1, OneOfType
  <2>4. CASE p[1] = "?"
    <3>1. Element(p) = OneOf(AnyByte)  BY <2>4, <2>8 DEF Element
    <3> QED  BY <2>2, <3>1, OneOfType
  <2>5. CASE p[1] = "["
    <3>1. Element(p) = OneOf(IF Negated(p) THEN AnyByte \ c.of ELSE c.of)
      BY <1>2, <2>5, <2>8 DEF Element
    <3> QED  BY <2>2, <3>1, OneOfType
  <2>6. CASE p[1] \notin {"*", "?", "["} /\ IsEscape(p)
    <3>1. Element(p) = OneOf({p[2]})  BY <2>6 DEF Element
    <3> QED  BY <2>2, <2>6, <3>1, OneOfType
  <2>7. CASE p[1] \notin {"*", "?", "["} /\ ~IsEscape(p)
    <3>1. Element(p) = OneOf({p[1]})  BY <2>7 DEF Element
    <3> QED  BY <2>2, <3>1, OneOfType
  <2> QED  BY <2>3, <2>4, <2>5, <2>6, <2>7
<1>4. Behind(p) \in GlobText /\ Len(Behind(p)) < Len(p)
  <2>1. CASE p[1] = "["
    <3>1. Behind(p) = c.rest  BY <1>2, <2>1 DEF Behind
    <3> QED  BY <1>2, <3>1 DEF ClassType
  <2>2. CASE p[1] # "["
    <3>1. PICK n \in Nat : n = IF IsEscape(p) THEN 2 ELSE 1  OBVIOUS
    <3>2. n <= Len(p) /\ n >= 1  BY <1>1, <3>1 DEF IsEscape
    <3>3. Drop(p, n) \in GlobText /\ Len(Drop(p, n)) = Len(p) - n  BY <3>2, DropText
    <3>4. Behind(p) = Drop(p, n)  BY <2>2, <3>1 DEF Behind
    <3>5. Len(p) - n < Len(p)  BY <1>1, <3>2
    <3> QED  BY <3>3, <3>4, <3>5
  <2> QED  BY <2>1, <2>2
<1> QED  BY <1>3, <1>4

\* Elements satisfies its equation.
LEMMA ElementsEquation ==
    /\ Elements \in [GlobText -> Seq(ElementType)]
    /\ \A p \in GlobText : Elements[p] = IF p = <<>> THEN <<>> ELSE <<Element(p)>> \o Elements[Behind(p)]
<1> DEFINE R == Seq(ElementType)
           Body(f, p) == IF p = <<>> THEN <<>> ELSE <<Element(p)>> \o f[Behind(p)]
           Recursive(f) == f = [p \in GlobText |-> Body(f, p)]
           B == [g \in [GlobText -> R] |-> [p \in GlobText |-> Body(g, p)]]
<1>2. ASSUME NEW g \in [GlobText -> R], NEW p \in GlobText PROVE Body(g, p) \in R
  <2>1. CASE p = <<>>  BY <2>1
  <2>2. CASE p # <<>>
    <3>1. PICK x \in ElementType : x = Element(p)  BY <2>2, ElementFacts
    <3>2. PICK y \in Seq(ElementType) : y = g[Behind(p)]  BY <2>2, ElementFacts
    <3>3. <<x>> \o y \in Seq(ElementType)  OBVIOUS
    <3> QED  BY <2>2, <3>1, <3>2, <3>3
  <2> QED  BY <2>1, <2>2
<1>3. ASSUME NEW g, NEW h, NEW p \in GlobText, \A q \in GlobText : Len(q) < Len(p) => g[q] = h[q]
      PROVE  Body(g, p) = Body(h, p)
  <2>1. CASE p = <<>>  BY <2>1
  <2>2. CASE p # <<>>
    <3>1. g[Behind(p)] = h[Behind(p)]  BY <1>3, <2>2, ElementFacts
    <3> QED  BY <3>1
  <2> QED  BY <2>1, <2>2
<1>1. R # {}
  <2>1. <<>> \in Seq(ElementType)  OBVIOUS
  <2> QED  BY <2>1
<1> HIDE DEF Body, R
<1>4. B \in [[GlobText -> R] -> [GlobText -> R]]  BY <1>2
<1>5. Descends(B, GlobText, R, Size)
  <2>1. ASSUME NEW g \in [GlobText -> R], NEW h \in [GlobText -> R],
               NEW p \in GlobText, \A q \in GlobText : Size[q] < Size[p] => g[q] = h[q]
        PROVE  B[g][p] = B[h][p]
    <3>1. \A q \in GlobText : Len(q) < Len(p) => g[q] = h[q]  BY <2>1, SizeType
    <3>2. Body(g, p) = Body(h, p)  BY <1>3, <3>1
    <3> QED  BY <3>2
  <2>3. Size \in [GlobText -> Nat]  BY SizeType
  <2> HIDE DEF B
  <2> QED  BY <1>1, <1>4, <2>1, <2>3 DEF Descends
<1>6. PICK f \in [GlobText -> R] : f = B[f]
  <2> HIDE DEF B
  <2> QED  BY <1>5, Fixpoint
<1>7. Recursive(f)  BY <1>6
<1>8. Elements = CHOOSE g : Recursive(g)  BY DEF Elements, Body, GlobText
<1>9. Recursive(Elements)
  <2> HIDE DEF Recursive
  <2> QED  BY <1>7, <1>8
<1>10. \A p \in GlobText : f[p] = Body(f, p) /\ Elements[p] = Body(Elements, p)
  <2>1. PICK g : g = Elements  OBVIOUS
  <2>2. g = [p \in GlobText |-> Body(g, p)]  BY <1>9, <2>1
  <2> QED  BY <1>7, <2>1, <2>2
<1>11. \A p \in GlobText : Elements[p] = f[p]
  <2> DEFINE T == {p \in GlobText : Elements[p] = f[p]}
  <2>1. ASSUME NEW p \in GlobText, \A q \in GlobText : Size[q] < Size[p] => q \in T PROVE p \in T
    <3>1. \A q \in GlobText : Len(q) < Len(p) => Elements[q] = f[q]  BY <2>1, SizeType
    <3>2. Body(Elements, p) = Body(f, p)  BY <1>3, <3>1
    <3> QED  BY <1>10, <3>2
  <2>2. \A p \in GlobText : p \in T
    <3> HIDE DEF T
    <3> QED  BY <2>1, SizeType, SizeInduction
  <2> QED  BY <2>2
<1>12. Elements \in [GlobText -> R]
  <2>1. PICK g : g = Elements  OBVIOUS
  <2>2. g = [p \in GlobText |-> Body(g, p)]  BY <1>9, <2>1
  <2>3. \A p \in GlobText : g[p] \in R  BY <1>11, <2>1
  <2> QED  BY <2>1, <2>2, <2>3
<1> QED  BY <1>10, <1>12 DEF Body, R

\* One turn of the loop of match_class, and what the loop comes to.
ClassTurn(c, f, p, m) ==
    CASE p = <<>> -> [matched |-> m, rest |-> p]
      [] p # <<>> /\ p[1] = "]" -> [matched |-> m, rest |-> Tail(p)]
      [] IsEscape(p) -> f[Drop(p, 2)][m \/ c = p[2]]
      [] p # <<>> /\ p[1] # "]" /\ IsRange(p) -> f[Drop(p, 3)][m \/ Between(c, p[1], p[3])]
      [] OTHER -> f[Tail(p)][m \/ c = p[1]]
LoopMeans(c) ==
    [p \in GlobText |-> [m \in BOOLEAN |->
        [matched |-> m \/ c \in Class[p].of, rest |-> Class[p].rest]]]

\* What is found behind an item is added to what the item says.
LEMMA ItemTurn ==
    ASSUME NEW c \in AnyByte, NEW F, F = LoopMeans(c), NEW p \in GlobText, ~Closes(p),
           NEW m \in BOOLEAN, NEW n, n = ItemLen(p), NEW b \in BOOLEAN, b <=> m \/ c \in Item(p)
    PROVE  F[Drop(p, n)][b] = F[p][m]
<1>1. PICK q \in GlobText : q = Drop(p, n)  BY ItemFacts DEF Closes
<1>2. PICK d \in ClassType : d = Class[q]  BY ClassEquation
<1>3. Class[p] = [d EXCEPT !.of = @ \cup Item(p)]  BY <1>1, <1>2, ClassEquation
<1>4. Class[p].of = d.of \cup Item(p) /\ Class[p].rest = d.rest  BY <1>3 DEF ClassType
<1>5. F[q][b] = [matched |-> b \/ c \in d.of, rest |-> d.rest]  BY <1>2 DEF LoopMeans
<1>6. F[p][m] = [matched |-> m \/ c \in d.of \cup Item(p), rest |-> d.rest]  BY <1>4 DEF LoopMeans
<1>7. (b \/ c \in d.of) <=> (m \/ c \in d.of \cup Item(p))  OBVIOUS
<1> QED  BY <1>1, <1>5, <1>6, <1>7

\* One turn of the class loop finds what the class means, if the next ones do.
LEMMA ClassTurnMeans ==
    ASSUME NEW c \in AnyByte, NEW F, F = LoopMeans(c), NEW p \in GlobText, NEW m \in BOOLEAN,
           NEW f, \A q \in GlobText : Len(q) < Len(p) => f[q] = F[q]
    PROVE  ClassTurn(c, f, p, m) = F[p][m]
<1>1. CASE Closes(p)
  <2>1. ClassTurn(c, f, p, m) = [matched |-> m, rest |-> Drop(p, 1)]
    <3>1. CASE p = <<>>
      <4>1. Drop(p, 1) = p  BY <3>1, SubSeqEmpty DEF Drop
      <4>2. ~IsEscape(p)  BY <3>1 DEF IsEscape
      <4> QED  BY <3>1, <4>1, <4>2 DEF ClassTurn
    <3>2. CASE p # <<>> /\ p[1] = "]"
      <4>1. Tail(p) = Drop(p, 1) /\ ~IsEscape(p)  BY <3>2, TextFacts DEF IsEscape
      <4> QED  BY <3>2, <4>1 DEF ClassTurn
    <3> QED  BY <1>1, <3>1, <3>2 DEF Closes
  <2>2. Class[p] = NoClass(p)  BY <1>1, ClassEquation
  <2>3. Class[p].of = {} /\ Class[p].rest = Drop(p, 1)  BY <2>2 DEF NoClass
  <2>4. F[p][m] = [matched |-> m \/ c \in Class[p].of, rest |-> Class[p].rest]  BY DEF LoopMeans
  <2>5. (m \/ c \in Class[p].of) <=> m  BY <2>3
  <2>6. PICK b \in BOOLEAN : b = (m \/ c \in Class[p].of)  OBVIOUS
  <2>7. b = m  BY <2>5, <2>6
  <2> QED  BY <2>1, <2>3, <2>4, <2>6, <2>7
<1>2. CASE ~Closes(p)
  <2>1. p # <<>> /\ p[1] # "]"  BY <1>2 DEF Closes
  <2>2. PICK n \in Nat : n = ItemLen(p)  BY <2>1, ItemFacts
  <2>3. PICK q \in GlobText : q = Drop(p, n) /\ f[q] = F[q]  BY <2>1, <2>2, ItemFacts
  <2>4. ASSUME NEW b \in BOOLEAN, b <=> m \/ c \in Item(p) PROVE F[q][b] = F[p][m]
    BY <1>2, <2>2, <2>3, <2>4, ItemTurn
  <2>5. CASE IsEscape(p)
    <3>1. ClassTurn(c, f, p, m) = f[Drop(p, 2)][m \/ c = p[2]]  BY <2>1, <2>5 DEF ClassTurn, IsRange
    <3>2. n = 2 /\ Item(p) = {p[2]}  BY <2>2, <2>5 DEF ItemLen, Item, IsRange
    <3>3. PICK b \in BOOLEAN : b = (m \/ c = p[2])  OBVIOUS
    <3>4. b <=> m \/ c \in Item(p)  BY <3>2, <3>3
    <3> QED  BY <2>3, <2>4, <3>1, <3>2, <3>3, <3>4
  <2>6. CASE ~IsEscape(p) /\ IsRange(p)
    <3>1. ClassTurn(c, f, p, m) = f[Drop(p, 3)][m \/ Between(c, p[1], p[3])]
      BY <2>1, <2>6 DEF ClassTurn
    <3>2. n = 3 /\ Item(p) = {x \in AnyByte : Between(x, p[1], p[3])}
      BY <2>2, <2>6 DEF ItemLen, Item
    <3>3. PICK b \in BOOLEAN : b = (m \/ Between(c, p[1], p[3]))  OBVIOUS
    <3>4. b <=> m \/ c \in Item(p)  BY <3>2, <3>3
    <3> QED  BY <2>3, <2>4, <3>1, <3>2, <3>3, <3>4
  <2>7. CASE ~IsEscape(p) /\ ~IsRange(p)
    <3>1. ClassTurn(c, f, p, m) = f[Tail(p)][m \/ c = p[1]]  BY <2>1, <2>7 DEF ClassTurn
    <3>2. n = 1 /\ Item(p) = {p[1]} /\ Tail(p) = Drop(p, 1)
      BY <2>1, <2>2, <2>7, TextFacts DEF ItemLen, Item
    <3>3. PICK b \in BOOLEAN : b = (m \/ c = p[1])  OBVIOUS
    <3>4. b <=> m \/ c \in Item(p)  BY <3>2, <3>3
    <3> QED  BY <2>3, <2>4, <3>1, <3>2, <3>3, <3>4
  <2> QED  BY <2>5, <2>6, <2>7
<1> QED  BY <1>1, <1>2

\* The loop of match_class finds the bytes of the class.
LEMMA ClassLoop == ASSUME NEW c \in AnyByte PROVE class_loop(c) = LoopMeans(c)
<1> DEFINE Recursive(f) == f = [p \in GlobText |-> [m \in BOOLEAN |-> ClassTurn(c, f, p, m)]]
<1>1. PICK F : F = LoopMeans(c)  OBVIOUS
<1>2. Recursive(F)
  <2>1. \A p \in GlobText : \A m \in BOOLEAN : F[p][m] = ClassTurn(c, F, p, m)
    BY <1>1, ClassTurnMeans
  <2>2. /\ F = [p \in GlobText |-> F[p]]
        /\ \A p \in GlobText : F[p] = [m \in BOOLEAN |-> F[p][m]]
    BY <1>1 DEF LoopMeans
  <2>3. \A p \in GlobText : F[p] = [m \in BOOLEAN |-> ClassTurn(c, F, p, m)]  BY <2>1, <2>2
  <2> QED  BY <2>2, <2>3
<1>3. PICK f : f = class_loop(c)  OBVIOUS
<1>4. class_loop(c) = CHOOSE g : Recursive(g)  BY DEF class_loop, ClassTurn, GlobText
<1>5. Recursive(f)
  <2> HIDE DEF Recursive
  <2> QED  BY <1>2, <1>3, <1>4
<1>6. \A p \in GlobText : f[p] = F[p]
  <2> DEFINE T == {p \in GlobText : f[p] = F[p]}
  <2>1. ASSUME NEW p \in GlobText, \A q \in GlobText : Size[q] < Size[p] => q \in T PROVE p \in T
    <3>1. \A q \in GlobText : Len(q) < Len(p) => f[q] = F[q]  BY <2>1, SizeType
    <3>2. \A m \in BOOLEAN : ClassTurn(c, f, p, m) = F[p][m]  BY <1>1, <3>1, ClassTurnMeans
    <3>3. f[p] = [m \in BOOLEAN |-> ClassTurn(c, f, p, m)]  BY <1>5
    <3>4. F[p] = [m \in BOOLEAN |-> F[p][m]]  BY <1>1 DEF LoopMeans
    <3> QED  BY <3>2, <3>3, <3>4
  <2>2. \A p \in GlobText : p \in T
    <3> HIDE DEF T
    <3> QED  BY <2>1, SizeType, SizeInduction
  <2> QED  BY <2>2
<1>7. f = [p \in GlobText |-> f[p]]  BY <1>5
<1>8. F = [p \in GlobText |-> F[p]]  BY <1>1 DEF LoopMeans
<1> HIDE DEF Recursive
<1> QED  BY <1>1, <1>3, <1>6, <1>7, <1>8

\* What match_class returns.
LEMMA MatchClass ==
    ASSUME NEW p \in GlobText, p # <<>>, NEW c \in AnyByte
    PROVE  /\ match_class(Tail(p), c).matched \in BOOLEAN
           /\ match_class(Tail(p), c).matched <=>
                 c \in IF Negated(p) THEN AnyByte \ ClassOf(p).of ELSE ClassOf(p).of
           /\ match_class(Tail(p), c).rest = ClassOf(p).rest
<1>1. Len(p) \in Nat /\ Len(p) # 0 /\ Tail(p) = Drop(p, 1)  BY TextFacts
<1>2. PICK t \in GlobText : /\ t = Tail(p) /\ Len(t) = Len(p) - 1
                            /\ \A i \in 1..(Len(p) - 1) : t[i] = p[1 + i]
  <2>1. PICK n \in Nat : n = 1 /\ n <= Len(p)  BY <1>1
  <2> QED  BY <1>1, <2>1, DropText
<1>3. (t # <<>> /\ t[1] = "^") <=> Negated(p)
  <2>1. t = <<>> <=> Len(t) = 0  BY TextFacts
  <2>2. CASE Len(p) = 1  BY <1>2, <2>1, <2>2 DEF Negated
  <2>3. CASE Len(p) >= 2
    <3>1. 1 \in 1..(Len(p) - 1) /\ 1 + 1 = 2  BY <1>1, <2>3
    <3>2. t[1] = p[2]  BY <1>2, <3>1
    <3>3. t # <<>>  BY <1>1, <1>2, <2>1, <2>3
    <3> QED  BY <2>3, <3>2, <3>3 DEF Negated
  <2>4. \A i \in Nat : i # 0 => i = 1 \/ i >= 2  OBVIOUS
  <2>5. Len(p) = 1 \/ Len(p) >= 2  BY <1>1, <2>4
  <2> QED  BY <2>2, <2>3, <2>5
<1>4. Negated(p) => Tail(t) = Drop(p, 2)
  <2> SUFFICES ASSUME Negated(p) PROVE Tail(t) = Drop(p, 2)  OBVIOUS
  <2>1. t # <<>> /\ Len(p) >= 2  BY <1>3 DEF Negated
  <2>2. Tail(t) = Drop(t, 1)  BY <2>1, TextFacts
  <2>3. PICK x \in GlobText : /\ x = Drop(t, 1) /\ Len(x) = Len(t) - 1
                              /\ \A i \in 1..(Len(t) - 1) : x[i] = t[1 + i]
    <3>1. 1 \in Nat /\ 1 <= Len(t)  BY <1>1, <1>2, <2>1
    <3> QED  BY <3>1, DropText
  <2>4. PICK y \in GlobText : /\ y = Drop(p, 2) /\ Len(y) = Len(p) - 2
                              /\ \A i \in 1..(Len(p) - 2) : y[i] = p[2 + i]
    BY <2>1, DropText
  <2>5. Len(x) = Len(y)  BY <1>1, <1>2, <2>3, <2>4
  <2>6. ASSUME NEW i \in 1..Len(y) PROVE x[i] = y[i]
    <3>1. i \in 1..(Len(t) - 1) /\ i \in 1..(Len(p) - 2)  BY <1>1, <1>2, <2>4
    <3>2. 1 + i \in 1..(Len(p) - 1) /\ 1 + (1 + i) = 2 + i  BY <1>1, <3>1
    <3> QED  BY <1>2, <2>3, <2>4, <3>1, <3>2
  <2>7. x = y  BY <2>5, <2>6 DEF GlobText
  <2> QED  BY <2>2, <2>3, <2>4, <2>7
<1>5. PICK q \in GlobText : /\ q = Drop(p, IF Negated(p) THEN 2 ELSE 1)
                            /\ q = IF t # <<>> /\ t[1] = "^" THEN Tail(t) ELSE t
  <2>1. (IF Negated(p) THEN 2 ELSE 1) \in Nat /\ (IF Negated(p) THEN 2 ELSE 1) <= Len(p)
    BY <1>1 DEF Negated
  <2>2. Drop(p, IF Negated(p) THEN 2 ELSE 1) \in GlobText  BY <2>1, DropText
  <2> QED  BY <1>1, <1>2, <1>3, <1>4, <2>2
<1>6. PICK d \in ClassType : d = Class[q] /\ d = ClassOf(p)  BY <1>5, ClassEquation DEF ClassOf
<1>7. PICK l : l = class_loop(c)[q][FALSE]  OBVIOUS
<1>8. l = [matched |-> FALSE \/ c \in d.of, rest |-> d.rest]
  <2>1. PICK m \in BOOLEAN : m = FALSE  OBVIOUS
  <2>2. LoopMeans(c)[q][m] = [matched |-> m \/ c \in d.of, rest |-> d.rest]
    BY <1>6 DEF LoopMeans
  <2>3. l = LoopMeans(c)[q][m]  BY <1>7, <2>1, ClassLoop
  <2> QED  BY <2>1, <2>2, <2>3
<1>9. l.matched \in BOOLEAN /\ (l.matched <=> c \in d.of) /\ l.rest = d.rest  BY <1>8
<1>10. PICK negate \in BOOLEAN : negate = (t # <<>> /\ t[1] = "^")  OBVIOUS
<1>11. match_class(t, c) = [matched |-> l.matched # negate, rest |-> l.rest]
  BY <1>5, <1>7, <1>10 DEF match_class
<1>12. /\ match_class(t, c).matched = (l.matched # negate) /\ match_class(t, c).rest = d.rest
  BY <1>9, <1>11
<1>13. (l.matched # negate) <=> c \in IF Negated(p) THEN AnyByte \ d.of ELSE d.of
  BY <1>3, <1>9, <1>10
<1> QED  BY <1>2, <1>6, <1>12, <1>13

\* Dropping nothing.
LEMMA DropZero == ASSUME NEW s \in GlobText PROVE Drop(s, 0) = s
<1>1. 0 \in Nat /\ 0 <= Len(s) /\ 0 + 1 = 1  BY TextFacts
<1> QED  BY <1>1, SubSeqFull DEF Drop, GlobText

\* A text without its first bytes.
LEMMA DropSlice ==
    ASSUME NEW s \in GlobText, NEW n \in Nat, n = Len(s), NEW i \in 0..n
    PROVE  /\ Drop(s, i) \in GlobText /\ Len(Drop(s, i)) = n - i
           /\ \A l \in 1..(n - i) : Drop(s, i)[l] = s[i + l]
<1>1. i \in Nat /\ i <= Len(s)  OBVIOUS
<1> QED  BY <1>1, DropText

\* Dropping twice.
LEMMA DropDrop ==
    ASSUME NEW s \in GlobText, NEW i \in 0..Len(s), NEW j \in 0..(Len(s) - i)
    PROVE  Drop(Drop(s, i), j) = Drop(s, i + j) /\ i + j \in 0..Len(s)
<1>1. PICK n \in Nat : n = Len(s)  BY TextFacts
<1>2. PICK t \in GlobText : t = Drop(s, i) /\ Len(t) = n - i /\ \A l \in 1..(n - i) : t[l] = s[i + l]
  BY <1>1, DropSlice
<1>3. PICK x \in GlobText : x = Drop(t, j) /\ Len(x) = (n - i) - j /\ \A l \in 1..((n - i) - j) : x[l] = t[j + l]
  <2>1. n - i \in Nat /\ j \in 0..(n - i)  BY <1>1
  <2> QED  BY <1>2, <2>1, DropSlice
<1>4. i + j \in 0..n  BY <1>1
<1>5. PICK y \in GlobText : y = Drop(s, i + j) /\ Len(y) = n - (i + j)
                            /\ \A l \in 1..(n - (i + j)) : y[l] = s[i + j + l]
  BY <1>1, <1>4, DropSlice
<1>6. Len(x) = Len(y)
  <2>1. (n - i) - j = n - (i + j)  BY <1>1
  <2> QED  BY <1>3, <1>5, <2>1
<1>7. ASSUME NEW l \in 1..Len(y) PROVE x[l] = y[l]
  <2>1. l \in 1..((n - i) - j) /\ l \in 1..(n - (i + j)) /\ j + l \in 1..(n - i) /\ i + (j + l) = i + j + l
    BY <1>1, <1>5
  <2> QED  BY <1>2, <1>3, <1>5, <2>1
<1>8. x = y  BY <1>6, <1>7 DEF GlobText
<1> QED  BY <1>1, <1>2, <1>3, <1>4, <1>5, <1>8

\* A pattern without elements means the empty text.
LEMMA CutsNone == ASSUME NEW s \in GlobText PROVE Cuts(<<>>, s) <=> s = <<>>
<1>1. PICK n \in Nat : n = Len(s)  BY TextFacts
<1>2. PICK e : e = <<>>  OBVIOUS
<1>3. Len(e) = 0 /\ 1..0 = {}  BY <1>2
<1>4. ASSUME s = <<>> PROVE Cuts(e, s)
  <2>1. PICK cut : cut = [i \in 0..0 |-> 0]  OBVIOUS
  <2>2. n = 0  BY <1>1, <1>4
  <2>3. cut \in [0..Len(e) -> 0..Len(s)] /\ cut[0] = 0 /\ cut[Len(e)] = Len(s)  BY <1>1, <1>3, <2>1, <2>2
  <2> QED  BY <1>3, <2>3 DEF Cuts
<1>5. ASSUME Cuts(e, s) PROVE s = <<>>
  <2>1. 0 = Len(s)  BY <1>3, <1>5 DEF Cuts
  <2> QED  BY <2>1, TextFacts
<1> QED  BY <1>2, <1>4, <1>5

\* A piece of a slice.
LEMMA PieceShift ==
    ASSUME NEW x, NEW s \in GlobText, NEW n \in Nat, n = Len(s), NEW j \in 0..n,
           NEW t, t = Drop(s, j), NEW a \in 0..(n - j), NEW b \in 0..(n - j)
    PROVE  IsPiece(x, t, a, b) <=> IsPiece(x, s, a + j, b + j)
<1>1. n = Len(s)  OBVIOUS
<1>2. t \in GlobText /\ Len(t) = n - j /\ \A l \in 1..(n - j) : t[l] = s[j + l]
  BY <1>1, DropSlice
<1>3. a <= b <=> a + j <= b + j  BY <1>1
<1>4. b = a + 1 <=> b + j = (a + j) + 1  BY <1>1
<1>5. ASSUME b = a + 1 PROVE t[b] = s[b + j]
  <2>1. b \in 1..(n - j) /\ b + j = j + b  BY <1>1, <1>5
  <2> QED  BY <1>2, <2>1
<1> QED  BY <1>3, <1>4, <1>5 DEF IsPiece

\* The first element takes some of the text and the others take the rest.
LEMMA CutsMore ==
    ASSUME NEW x \in ElementType, NEW e \in Seq(ElementType), NEW s \in GlobText,
           NEW E, E = <<x>> \o e
    PROVE  Cuts(E, s) <=> \E j \in 0..Len(s) : IsPiece(x, s, 0, j) /\ Cuts(e, Drop(s, j))
<1>1. PICK m \in Nat : m = Len(s)  BY TextFacts
<1>2. PICK n \in Nat : n = Len(e)  OBVIOUS
<1>3. Len(E) = n + 1 /\ E[1] = x /\ \A i \in 1..n : E[i + 1] = e[i]
  BY <1>2
<1>5. ASSUME Cuts(E, s) PROVE \E j \in 0..Len(s) : IsPiece(x, s, 0, j) /\ Cuts(e, Drop(s, j))
  <2>1. PICK cut \in [0..(n + 1) -> 0..m] :
           /\ cut[0] = 0 /\ cut[n + 1] = m
           /\ \A i \in 1..(n + 1) : IsPiece(E[i], s, cut[i - 1], cut[i])
    BY <1>1, <1>3, <1>5 DEF Cuts
  <2>2. PICK j \in 0..m : j = cut[1]  BY <2>1
  <2>3. IsPiece(x, s, 0, j)
    <3>1. 1 \in 1..(n + 1) /\ 1 - 1 = 0  OBVIOUS
    <3> QED  BY <1>3, <2>1, <2>2, <3>1
  <2>4. \A i \in Nat : i <= n => cut[i + 1] >= j
    <3> DEFINE T == {i \in Nat : i <= n => cut[i + 1] >= j}
    <3>1. 0 \in T  BY <2>2
    <3>2. ASSUME NEW i \in Nat, i \in T PROVE i + 1 \in T
      <4> SUFFICES ASSUME i + 1 <= n PROVE cut[(i + 1) + 1] >= j  OBVIOUS
      <4>1. PICK a \in 0..m : a = cut[i + 1]  BY <2>1
      <4>2. PICK b \in 0..m : b = cut[(i + 1) + 1]  BY <2>1
      <4>3. (i + 1) + 1 \in 1..(n + 1) /\ ((i + 1) + 1) - 1 = i + 1 /\ i + 1 \in 1..n  OBVIOUS
      <4>4. IsPiece(e[i + 1], s, a, b)  BY <1>3, <2>1, <4>1, <4>2, <4>3
      <4>5. a <= b  BY <4>4 DEF IsPiece
      <4>6. a >= j  BY <3>2, <4>1
      <4> QED  BY <4>2, <4>5, <4>6
    <3>3. \A i \in Nat : i \in T
      <4> HIDE DEF T
      <4> QED  BY <3>1, <3>2, SetInduction
    <3> QED  BY <3>3
  <2>5. PICK t \in GlobText : t = Drop(s, j) /\ Len(t) = m - j  BY <1>1, DropSlice
  <2>6. PICK new : new = [i \in 0..n |-> cut[i + 1] - j]  OBVIOUS
  <2>7. \A i \in 0..n : cut[i + 1] \in j..m /\ new[i] = cut[i + 1] - j /\ new[i] \in 0..(m - j)
                        /\ new[i] + j = cut[i + 1]
    <3> SUFFICES ASSUME NEW i \in 0..n
                 PROVE  cut[i + 1] \in j..m /\ new[i] = cut[i + 1] - j /\ new[i] \in 0..(m - j)
                        /\ new[i] + j = cut[i + 1]
      OBVIOUS
    <3>1. PICK a \in 0..m : a = cut[i + 1]  BY <2>1
    <3>2. a >= j  BY <2>4, <3>1
    <3>3. new[i] = a - j  BY <2>6, <3>1
    <3> QED  BY <3>1, <3>2, <3>3
  <2>8. new \in [0..n -> 0..(m - j)]  BY <2>6, <2>7
  <2>9. new[0] = 0 /\ new[n] = m - j  BY <2>1, <2>2, <2>6
  <2>10. ASSUME NEW i \in 1..n PROVE IsPiece(e[i], t, new[i - 1], new[i])
    <3>1. i \in 0..n /\ i - 1 \in 0..n /\ i + 1 \in 1..(n + 1) /\ (i + 1) - 1 = i /\ (i - 1) + 1 = i
      OBVIOUS
    <3>2. IsPiece(e[i], s, cut[i], cut[i + 1])  BY <1>3, <2>1, <3>1
    <3>3. PICK a \in 0..(m - j) : a = new[i - 1] /\ a + j = cut[i]  BY <2>7, <3>1
    <3>4. PICK b \in 0..(m - j) : b = new[i] /\ b + j = cut[i + 1]  BY <2>7, <3>1
    <3>5. IsPiece(e[i], s, a + j, b + j)  BY <3>2, <3>3, <3>4
    <3>6. IsPiece(e[i], t, a, b)  BY <1>1, <2>5, <3>5, PieceShift
    <3> QED  BY <3>3, <3>4, <3>6
  <2>11. Cuts(e, t)  BY <1>2, <2>5, <2>8, <2>9, <2>10 DEF Cuts
  <2> QED  BY <1>1, <2>3, <2>5, <2>11
<1>6. ASSUME NEW j \in 0..m, IsPiece(x, s, 0, j), Cuts(e, Drop(s, j)) PROVE Cuts(E, s)
  <2>1. PICK t \in GlobText : t = Drop(s, j) /\ Len(t) = m - j  BY <1>1, DropSlice
  <2>2. PICK cut \in [0..n -> 0..(m - j)] :
           /\ cut[0] = 0 /\ cut[n] = m - j
           /\ \A i \in 1..n : IsPiece(e[i], t, cut[i - 1], cut[i])
    BY <1>2, <1>6, <2>1 DEF Cuts
  <2>3. PICK new : new = [i \in 0..(n + 1) |-> IF i = 0 THEN 0 ELSE cut[i - 1] + j]  OBVIOUS
  <2>4. new[0] = 0 /\ \A i \in 0..n : new[i + 1] = cut[i] + j
    <3>1. \A i \in 0..n : i + 1 \in 0..(n + 1) /\ i + 1 # 0 /\ (i + 1) - 1 = i  OBVIOUS
    <3> QED  BY <2>3, <3>1
  <2>5. \A i \in 0..n : cut[i] + j \in 0..m
    <3> SUFFICES ASSUME NEW i \in 0..n PROVE cut[i] + j \in 0..m  OBVIOUS
    <3>1. PICK a \in 0..(m - j) : a = cut[i]  BY <2>2
    <3> QED  BY <3>1
  <2>6. new \in [0..(n + 1) -> 0..m]
    <3>1. ASSUME NEW i \in 0..(n + 1) PROVE new[i] \in 0..m
      <4>1. CASE i = 0  BY <2>4, <4>1
      <4>2. CASE i # 0
        <5>1. i - 1 \in 0..n /\ (i - 1) + 1 = i  BY <4>2
        <5> QED  BY <2>4, <2>5, <5>1
      <4> QED  BY <4>1, <4>2
    <3> QED  BY <2>3, <3>1
  <2>7. new[n + 1] = m
    <3>1. n \in 0..n /\ (m - j) + j = m  OBVIOUS
    <3> QED  BY <2>2, <2>4, <3>1
  <2>8. ASSUME NEW i \in 1..(n + 1) PROVE IsPiece(E[i], s, new[i - 1], new[i])
    <3>1. CASE i = 1
      <4>1. new[1] = j /\ i - 1 = 0
        <5>1. 0 \in 0..n /\ 0 + 1 = 1 /\ 0 + j = j  OBVIOUS
        <5> QED  BY <2>2, <2>4, <3>1, <5>1
      <4> QED  BY <1>3, <1>6, <2>4, <3>1, <4>1
    <3>2. CASE i # 1
      <4>1. PICK l \in 1..n : l + 1 = i
        <5>1. i - 1 \in 1..n /\ (i - 1) + 1 = i  BY <3>2
        <5> QED  BY <5>1
      <4>2. l \in 0..n /\ l - 1 \in 0..n /\ (l - 1) + 1 = l /\ i - 1 = l  BY <4>1
      <4>3. PICK a \in 0..(m - j) : a = cut[l - 1] /\ new[l] = a + j  BY <2>2, <2>4, <4>2
      <4>4. PICK b \in 0..(m - j) : b = cut[l] /\ new[i] = b + j  BY <2>2, <2>4, <4>1, <4>2
      <4>5. IsPiece(e[l], t, a, b)  BY <2>2, <4>3, <4>4
      <4>6. IsPiece(e[l], s, a + j, b + j)  BY <1>1, <2>1, <4>5, PieceShift
      <4> QED  BY <1>3, <4>1, <4>2, <4>3, <4>4, <4>6
    <3> QED  BY <3>1, <3>2
  <2> QED  BY <1>1, <1>3, <2>4, <2>6, <2>7, <2>8 DEF Cuts
<1> QED  BY <1>1, <1>5, <1>6

\* One turn of glob_match, and what a pattern means.
GlobTurn(f, p, s) ==
    CASE p = <<>> -> s = <<>>
      [] p # <<>> /\ p[1] = "*" ->
            IF Len(p) > 1 /\ p[2] = "*" THEN f[Tail(p)][s] ELSE star(Tail(p), s, f)
      [] p # <<>> /\ p[1] = "?" -> s # <<>> /\ f[Tail(p)][Tail(s)]
      [] p # <<>> /\ p[1] = "[" ->
            /\ s # <<>>
            /\ LET class == match_class(Tail(p), s[1])
               IN  class.matched /\ f[class.rest][Tail(s)]
      [] IsEscape(p) -> s # <<>> /\ p[2] = s[1] /\ f[Drop(p, 2)][Tail(s)]
      [] OTHER -> s # <<>> /\ p[1] = s[1] /\ f[Tail(p)][Tail(s)]
GlobMeans == [p \in GlobText |-> [s \in GlobText |-> Cuts(Elements[p], s)]]

\* A text is meant or is not.
LEMMA CutsBoolean == \A e, s : Cuts(e, s) \in BOOLEAN
  BY DEF Cuts

\* An element of one byte takes the first byte of the text.
LEMMA CutsByte ==
    ASSUME NEW p \in GlobText, p # <<>>, NEW S, Element(p) = OneOf(S), NEW s \in GlobText
    PROVE  Cuts(Elements[p], s) <=> s # <<>> /\ s[1] \in S /\ Cuts(Elements[Behind(p)], Tail(s))
<1>1. PICK x \in ElementType : x = Element(p)  BY ElementFacts
<1>2. PICK e \in Seq(ElementType) : e = Elements[Behind(p)]  BY ElementFacts, ElementsEquation
<1>3. Elements[p] = <<x>> \o e  BY <1>1, <1>2, ElementsEquation
<1>4. Cuts(Elements[p], s) <=> \E j \in 0..Len(s) : IsPiece(x, s, 0, j) /\ Cuts(e, Drop(s, j))
  BY <1>3, CutsMore
<1>5. ~x.any /\ x.of = S  BY <1>1 DEF OneOf
<1>6. \A j \in 0..Len(s) : IsPiece(x, s, 0, j) <=> j = 1 /\ s[1] \in S
  <2> SUFFICES ASSUME NEW j \in 0..Len(s) PROVE IsPiece(x, s, 0, j) <=> j = 1 /\ s[1] \in S
    OBVIOUS
  <2>1. 0 + 1 = 1  OBVIOUS
  <2> QED  BY <1>5, <2>1 DEF IsPiece
<1>7. Len(s) \in Nat /\ (s = <<>> <=> Len(s) = 0) /\ (s # <<>> => Tail(s) = Drop(s, 1))  BY TextFacts
<1>8. 1 \in 0..Len(s) <=> s # <<>>  BY <1>7
<1> QED  BY <1>2, <1>4, <1>6, <1>7, <1>8

\* A star takes any part of the text.
LEMMA CutsText ==
    ASSUME NEW p \in GlobText, p # <<>>, p[1] = "*", NEW s \in GlobText
    PROVE  Cuts(Elements[p], s) <=> \E j \in 0..Len(s) : Cuts(Elements[Tail(p)], Drop(s, j))
<1>1. PICK x \in ElementType : x = Element(p)  BY ElementFacts
<1>2. ~IsEscape(p)  BY DEF IsEscape
<1>3. x = AnyText  BY <1>1, <1>2 DEF Element
<1>4. Behind(p) = Tail(p)  BY <1>2, TextFacts DEF Behind
<1>5. PICK e \in Seq(ElementType) : e = Elements[Tail(p)]  BY <1>4, ElementFacts, ElementsEquation
<1>6. Elements[p] = <<x>> \o e  BY <1>1, <1>4, <1>5, ElementsEquation
<1>7. Cuts(Elements[p], s) <=> \E j \in 0..Len(s) : IsPiece(x, s, 0, j) /\ Cuts(e, Drop(s, j))
  BY <1>6, CutsMore
<1>8. \A j \in 0..Len(s) : IsPiece(x, s, 0, j)  BY <1>3 DEF AnyText, IsPiece
<1> QED  BY <1>5, <1>7, <1>8

\* "**" means what "*" does.
LEMMA StarStar ==
    ASSUME NEW p \in GlobText, p # <<>>, p[1] = "*", NEW s \in GlobText
    PROVE  Cuts(Elements[p], s) <=> \E j \in 0..Len(s) : Cuts(Elements[p], Drop(s, j))
<1>1. PICK n \in Nat : n = Len(s)  BY TextFacts
<1>2. ASSUME Cuts(Elements[p], s) PROVE \E j \in 0..Len(s) : Cuts(Elements[p], Drop(s, j))
  <2>1. 0 \in 0..Len(s) /\ Drop(s, 0) = s  BY <1>1, DropZero
  <2> QED  BY <1>2, <2>1
<1>3. ASSUME NEW j \in 0..n, Cuts(Elements[p], Drop(s, j)) PROVE Cuts(Elements[p], s)
  <2>1. PICK t \in GlobText : t = Drop(s, j) /\ Len(t) = n - j  BY <1>1, DropSlice
  <2>2. PICK l \in 0..(n - j) : Cuts(Elements[Tail(p)], Drop(t, l))  BY <1>3, <2>1, CutsText
  <2>3. Drop(t, l) = Drop(s, j + l) /\ j + l \in 0..Len(s)  BY <1>1, <2>1, DropDrop
  <2> QED  BY <2>2, <2>3, CutsText
<1> QED  BY <1>1, <1>2, <1>3

\* One turn of glob_match finds what the pattern means, if the turns behind it do.
LEMMA GlobTurnMeans ==
    ASSUME NEW p \in GlobText, NEW s \in GlobText,
           NEW f, \A q \in GlobText : Len(q) < Len(p) => f[q] = GlobMeans[q]
    PROVE  GlobTurn(f, p, s) = Cuts(Elements[p], s)
<1>1. ASSUME NEW q \in GlobText, Len(q) < Len(p), NEW t \in GlobText
      PROVE  f[q][t] = Cuts(Elements[q], t)
  <2>1. f[q] = GlobMeans[q]  BY <1>1
  <2>2. GlobMeans[q][t] = Cuts(Elements[q], t)  BY DEF GlobMeans
  <2> QED  BY <2>1, <2>2
<1>2. CASE p = <<>>
  <2>1. Elements[p] = <<>> /\ ~IsEscape(p)
    <3>1. ~IsEscape(p)  BY <1>2 DEF IsEscape
    <3>2. Elements[p] = <<>>  BY <1>2, ElementsEquation
    <3> QED  BY <3>1, <3>2
  <2>2. GlobTurn(f, p, s) = (s = <<>>)  BY <1>2, <2>1 DEF GlobTurn
  <2>3. Cuts(Elements[p], s) <=> s = <<>>  BY <2>1, CutsNone
  <2> QED  BY <2>2, <2>3, CutsBoolean
<1>3. CASE p # <<>>
  <2>1. Tail(p) \in GlobText /\ Len(Tail(p)) < Len(p) /\ Tail(p) = Drop(p, 1)
    BY <1>3, TextFacts, DropFirst
  <2>2. Behind(p) \in GlobText /\ Len(Behind(p)) < Len(p)  BY <1>3, ElementFacts
  <2>3. s # <<>> => Tail(s) \in GlobText /\ s[1] \in AnyByte
    <3> SUFFICES ASSUME s # <<>> PROVE Tail(s) \in GlobText /\ s[1] \in AnyByte  OBVIOUS
    <3>1. Tail(s) = Drop(s, 1) /\ 1 \in 1..Len(s)  BY TextFacts
    <3> QED  BY <3>1, TextFacts, DropFirst
  <2>4. s # <<>> => f[Behind(p)][Tail(s)] = Cuts(Elements[Behind(p)], Tail(s))  BY <1>1, <2>2, <2>3
  <2>5. p[1] \in {"*", "?", "["} => ~IsEscape(p)  BY DEF IsEscape
  <2>6. CASE p[1] = "*" /\ Len(p) > 1 /\ p[2] = "*"
    <3>1. GlobTurn(f, p, s) = f[Tail(p)][s]  BY <1>3, <2>5, <2>6 DEF GlobTurn
    <3>2. GlobTurn(f, p, s) = Cuts(Elements[Tail(p)], s)  BY <1>1, <2>1, <3>1
    <3>3. Tail(p) # <<>> /\ Tail(p)[1] = "*"
      <4>1. PICK n \in Nat : n = Len(p)  BY TextFacts
      <4>2. 1 \in 0..n /\ 1 \in 1..(n - 1) /\ 1 + 1 = 2 /\ n - 1 # 0  BY <2>6, <4>1
      <4>3. PICK i \in 0..n : i = 1  BY <4>2
      <4>4. Len(Drop(p, i)) = n - i /\ \A l \in 1..(n - i) : Drop(p, i)[l] = p[i + l]  BY <4>1, DropSlice
      <4>5. Len(Tail(p)) = n - 1 /\ Tail(p)[1] = p[2]  BY <2>1, <4>2, <4>3, <4>4
      <4> QED  BY <2>1, <2>6, <4>2, <4>5, TextFacts
    <3>4. Cuts(Elements[Tail(p)], s) <=> Cuts(Elements[p], s)
      <4>1. Cuts(Elements[Tail(p)], s) <=> \E j \in 0..Len(s) : Cuts(Elements[Tail(p)], Drop(s, j))
        BY <2>1, <3>3, StarStar
      <4>2. Cuts(Elements[p], s) <=> \E j \in 0..Len(s) : Cuts(Elements[Tail(p)], Drop(s, j))
        BY <1>3, <2>6, CutsText
      <4> QED  BY <4>1, <4>2
    <3> QED  BY <3>2, <3>4, CutsBoolean
  <2>7. CASE p[1] = "*" /\ ~(Len(p) > 1 /\ p[2] = "*")
    <3>1. GlobTurn(f, p, s) = star(Tail(p), s, f)  BY <1>3, <2>5, <2>7 DEF GlobTurn
    <3>2. \A j \in 0..Len(s) : f[Tail(p)][Drop(s, j)] = Cuts(Elements[Tail(p)], Drop(s, j))
      <4>1. PICK n \in Nat : n = Len(s)  BY TextFacts
      <4>2. \A j \in 0..n : Drop(s, j) \in GlobText  BY <4>1, DropSlice
      <4> QED  BY <1>1, <2>1, <4>1, <4>2
    <3>3. GlobTurn(f, p, s) =
             (Tail(p) = <<>> \/ \E j \in 0..Len(s) : Cuts(Elements[Tail(p)], Drop(s, j)))
      BY <3>1, <3>2 DEF star
    <3>4. ASSUME Tail(p) = <<>> PROVE \E j \in 0..Len(s) : Cuts(Elements[Tail(p)], Drop(s, j))
      <4>1. PICK n \in Nat : n = Len(s)  BY TextFacts
      <4>2. n \in 0..n /\ n - n = 0  OBVIOUS
      <4>3. Drop(s, n) \in GlobText /\ Len(Drop(s, n)) = 0  BY <4>1, <4>2, DropSlice
      <4>4. Drop(s, n) = <<>>  BY <4>3, TextFacts
      <4>5. Elements[Tail(p)] = <<>>  BY <2>1, <3>4, ElementsEquation
      <4>6. Cuts(Elements[Tail(p)], Drop(s, n))  BY <4>3, <4>4, <4>5, CutsNone
      <4> QED  BY <4>1, <4>2, <4>6
    <3>5. (Tail(p) = <<>> \/ \E j \in 0..Len(s) : Cuts(Elements[Tail(p)], Drop(s, j)))
             <=> Cuts(Elements[p], s)
      BY <1>3, <2>7, <3>4, CutsText
    <3> QED  BY <3>3, <3>5, CutsBoolean
  <2>8. ASSUME NEW S, Element(p) = OneOf(S),
               GlobTurn(f, p, s) = (s # <<>> /\ s[1] \in S /\ f[Behind(p)][Tail(s)])
        PROVE  GlobTurn(f, p, s) = Cuts(Elements[p], s)
    <3>1. GlobTurn(f, p, s) = (s # <<>> /\ s[1] \in S /\ Cuts(Elements[Behind(p)], Tail(s)))
      BY <2>4, <2>8
    <3>2. (s # <<>> /\ s[1] \in S /\ Cuts(Elements[Behind(p)], Tail(s))) <=> Cuts(Elements[p], s)
      BY <1>3, <2>8, CutsByte
    <3> QED  BY <3>1, <3>2, CutsBoolean
  <2>9. CASE p[1] = "?"
    <3>1. Element(p) = OneOf(AnyByte) /\ Behind(p) = Tail(p)  BY <2>1, <2>5, <2>9 DEF Element, Behind
    <3>2. GlobTurn(f, p, s) = (s # <<>> /\ f[Tail(p)][Tail(s)])  BY <1>3, <2>5, <2>9 DEF GlobTurn
    <3>3. GlobTurn(f, p, s) = (s # <<>> /\ s[1] \in AnyByte /\ f[Behind(p)][Tail(s)])
      BY <2>3, <3>1, <3>2
    <3> QED  BY <2>8, <3>1, <3>3
  <2>10. CASE p[1] = "["
    <3>1. PICK S : S = IF Negated(p) THEN AnyByte \ ClassOf(p).of ELSE ClassOf(p).of  OBVIOUS
    <3>2. Element(p) = OneOf(S) /\ Behind(p) = ClassOf(p).rest
      BY <2>5, <2>10, <3>1 DEF Element, Behind
    <3>3. PICK c : c = match_class(Tail(p), s[1])  OBVIOUS
    <3>4. GlobTurn(f, p, s) = (s # <<>> /\ c.matched /\ f[c.rest][Tail(s)])
      BY <1>3, <2>5, <2>10, <3>3 DEF GlobTurn
    <3>5. s # <<>> => (c.matched <=> s[1] \in S) /\ c.rest = Behind(p)
      BY <1>3, <2>3, <3>1, <3>2, <3>3, MatchClass
    <3>6. GlobTurn(f, p, s) = (s # <<>> /\ s[1] \in S /\ f[Behind(p)][Tail(s)])  BY <3>4, <3>5
    <3> QED  BY <2>8, <3>2, <3>6
  <2>11. CASE p[1] \notin {"*", "?", "["} /\ IsEscape(p)
    <3>1. Element(p) = OneOf({p[2]}) /\ Behind(p) = Drop(p, 2)  BY <2>11 DEF Element, Behind
    <3>2. GlobTurn(f, p, s) = (s # <<>> /\ p[2] = s[1] /\ f[Drop(p, 2)][Tail(s)])
      BY <1>3, <2>11 DEF GlobTurn
    <3>3. GlobTurn(f, p, s) = (s # <<>> /\ s[1] \in {p[2]} /\ f[Behind(p)][Tail(s)])  BY <3>1, <3>2
    <3> QED  BY <2>8, <3>1, <3>3
  <2>12. CASE p[1] \notin {"*", "?", "["} /\ ~IsEscape(p)
    <3>1. Element(p) = OneOf({p[1]}) /\ Behind(p) = Tail(p)  BY <2>1, <2>12 DEF Element, Behind
    <3>2. GlobTurn(f, p, s) = (s # <<>> /\ p[1] = s[1] /\ f[Tail(p)][Tail(s)])
      BY <1>3, <2>12 DEF GlobTurn
    <3>3. GlobTurn(f, p, s) = (s # <<>> /\ s[1] \in {p[1]} /\ f[Behind(p)][Tail(s)])  BY <3>1, <3>2
    <3> QED  BY <2>8, <3>1, <3>3
  <2> QED  BY <2>6, <2>7, <2>9, <2>10, <2>11, <2>12
<1> QED  BY <1>2, <1>3

\* glob_match finds what the pattern means.
LEMMA GlobMatch == glob_match = GlobMeans
<1> DEFINE Recursive(f) == f = [p \in GlobText |-> [s \in GlobText |-> GlobTurn(f, p, s)]]
<1>1. PICK F : F = GlobMeans  OBVIOUS
<1>2. /\ F = [p \in GlobText |-> F[p]]
      /\ \A p \in GlobText : F[p] = [s \in GlobText |-> F[p][s]]
      /\ \A p, s \in GlobText : F[p][s] = Cuts(Elements[p], s)
  BY <1>1 DEF GlobMeans
<1>3. Recursive(F)
  <2>1. \A p \in GlobText : \A s \in GlobText : F[p][s] = GlobTurn(F, p, s)
    BY <1>1, <1>2, GlobTurnMeans
  <2>2. \A p \in GlobText : F[p] = [s \in GlobText |-> GlobTurn(F, p, s)]  BY <1>2, <2>1
  <2> QED  BY <1>2, <2>2
<1>4. PICK f : f = glob_match  OBVIOUS
<1>5. glob_match = CHOOSE g : Recursive(g)  BY DEF glob_match, GlobTurn, GlobText
<1>6. Recursive(f)
  <2> HIDE DEF Recursive
  <2> QED  BY <1>3, <1>4, <1>5
<1>7. \A p \in GlobText : f[p] = F[p]
  <2> DEFINE T == {p \in GlobText : f[p] = F[p]}
  <2>1. ASSUME NEW p \in GlobText, \A q \in GlobText : Size[q] < Size[p] => q \in T PROVE p \in T
    <3>1. \A q \in GlobText : Len(q) < Len(p) => f[q] = GlobMeans[q]  BY <1>1, <2>1, SizeType
    <3>2. \A s \in GlobText : GlobTurn(f, p, s) = F[p][s]  BY <1>2, <3>1, GlobTurnMeans
    <3>3. f[p] = [s \in GlobText |-> GlobTurn(f, p, s)]  BY <1>6
    <3>4. F[p] = [s \in GlobText |-> F[p][s]]  BY <1>2
    <3> QED  BY <3>2, <3>3, <3>4
  <2>2. \A p \in GlobText : p \in T
    <3> HIDE DEF T
    <3> QED  BY <2>1, SizeType, SizeInduction
  <2> QED  BY <2>2
<1>8. f = [p \in GlobText |-> f[p]]  BY <1>6
<1> HIDE DEF Recursive
<1> QED  BY <1>1, <1>2, <1>4, <1>7, <1>8

\* KEYS and SCAN MATCH select exactly the keys their pattern means, for every
\* pattern and every key: the pattern's elements cut the key into pieces, a byte
\* for each byte, ? and class, any text for each star (glob_match, match_class).
THEOREM GlobExact == \A p, s \in Seq(AnyByte) : glob_match[p][s] = Means(p, s)
<1> SUFFICES ASSUME NEW p \in Seq(AnyByte), NEW s \in Seq(AnyByte)
             PROVE  glob_match[p][s] = Means(p, s)
  OBVIOUS
<1> QED  BY GlobMatch DEF GlobMeans, GlobText, Means

\* The same of the patterns and keys that the runs enumerate, for every bound on
\* the length of a pattern (glob_match).
THEOREM GlobAgreesHolds == WireSpec => []GlobAgrees
<1>1. SampleType => GlobAgrees
  <2> SUFFICES ASSUME SampleType, sample.kind = "pattern", NEW s \in MCTexts
               PROVE  glob_match[sample.pattern][s] = Means(sample.pattern, s)
    BY DEF GlobAgrees
  <2>1. sample.pattern \in GlobText
    <3>1. sample # NoSample  BY DEF NoSample
    <3>2. \/ \E p \in Patterns : sample = [kind |-> "pattern", pattern |-> p]
          \/ \E o \in OptionLists : sample = [kind |-> "options", opts |-> o]
          \/ \E t \in Timed, n \in 1..I64Max : sample = [kind |-> "deadline", word |-> t, n |-> n]
      BY <3>1 DEF SampleType, Samples
    <3>3. sample.pattern \in Patterns  BY <3>2
    <3>4. PICK n \in 0..MaxPattern : sample.pattern \in [1..n -> AnyByte]  BY <3>3 DEF Patterns
    <3> QED  BY <3>4 DEF GlobText
  <2>2. s \in GlobText
    <3>1. PICK S : S = {"a", "b", "-", "]"}  OBVIOUS
    <3>2. (\E n \in 0..2 : s \in [1..n -> S]) \/ s \in [1..3 -> {"a", "b"}]
      <4>1. s \in (UNION {[1..n -> S] : n \in 0..2}) \cup [1..3 -> {"a", "b"}]  BY <3>1 DEF MCTexts
      <4> QED  BY <4>1
    <3>3. PICK n \in Nat : s \in [1..n -> S]
      <4>1. CASE \E n \in 0..2 : s \in [1..n -> S]  BY <4>1
      <4>2. CASE s \in [1..3 -> {"a", "b"}]
        <5>1. s \in [1..3 -> S] /\ 3 \in Nat  BY <3>1, <4>2
        <5> QED  BY <5>1
      <4> QED  BY <3>2, <4>1, <4>2
    <3> QED  BY <3>1, <3>3, TextsAssumption DEF GlobText
  <2> QED  BY <2>1, <2>2, GlobExact DEF GlobText
<1> QED  BY <1>1, SampleInvariant, PTL

=============================================================================
