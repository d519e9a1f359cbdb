------------------------------- MODULE MCWire -------------------------------
(***************************************************************************)
(* The byte-level model for TLC: sessions over the wire, and samples on    *)
(* which the pure algorithms (glob matching, SET's options, deadlines) are *)
(* compared with a reference.  A sample is a behaviour of one state.       *)
(***************************************************************************)
EXTENDS Session, Glob, FiniteSets

CONSTANTS
    MaxPattern, MaxOptions, \* bounds: lengths of the patterns and option lists sampled
    Clocks                  \* readings of the clocks sampled

\* Neither clock has come to the last millisecond an i64 holds.
ASSUME ClocksAssumption == Clocks \subseteq 0..(I64Max - 1)

\* The texts sampled for a pattern are made of the bytes used.
ASSUME TextsAssumption == {"a", "b", "-", "]"} \subseteq AnyByte

VARIABLE sample

-----------------------------------------------------------------------------
(***************************************************************************)
(* Sessions.                                                               *)
(***************************************************************************)
w(word) == <<word>>
k == w("k")
v == <<"v", "CR", "LF", "$">>   \* a value that looks like framing

MCByte == STRING
MCPassword == {w("pw")}
MCValues == {<<>>, v}
MCBytes == <<"*", "-", "?", "[", "\\", "]", "^", "a", "b">>
MCTexts == (UNION {[1..n -> {"a", "b", "-", "]"}] : n \in 0..2}) \cup [1..3 -> {"a", "b"}]

\* Every command, with its right and wrong forms and with arguments at the
\* limits of i64.
Commands ==
    {<<w(c)>> : c \in {"PING", "HELLO", "COMMAND", "QUIT", "INFO", "DBSIZE", "RANDOMKEY",
                       "FLUSHDB", "GET", "SET", "MSET", "CLIENT"}}
    \cup {<<w(c), k>> : c \in {"ECHO", "GET", "DEL", "EXISTS", "TTL", "PTTL", "INCR", "DECR",
                               "GETDEL", "PERSIST", "TYPE", "KEYS", "GETEX", "FLUSHALL",
                               "AUTH", "SELECT", "HELLO", "SCAN"}}
    \cup {<<w("PING"), v>>, <<w("MGET"), k, v>>, <<w("MSET"), k, v>>, <<w("DEL"), k, v>>,
          <<w("SETNX"), k, v>>, <<w("SELECT"), w("0")>>, <<w("FLUSHALL"), w("ASYNC")>>,
          <<w("HELLO"), w("2")>>, <<w("COMMAND"), w("COUNT")>>,
          <<w("CLIENT"), w("SETNAME"), k>>, <<w("CLIENT"), w("GETNAME")>>,
          <<w("CLIENT"), v>>, <<v>>, <<<<>>>>, <<w("nosuch"), k>>}
    \cup {<<w("SET"), k, v>> \o o :
             o \in {<<>>, <<w("NX")>>, <<w("GET")>>, <<w("EX"), <<"9", "9">>>>,
                    <<w("PX"), <<"-", "1">>>>, <<w("EXAT"), <<"9", "9">>>>, <<w("EX"), k>>, <<w("NX"), w("XX")>>}}
    \cup {<<w("SETEX"), k, n, v>> : n \in {w("5"), w("0"), <<"9", "9">>, <<"1", "0", "0">>}}
    \cup {<<w("EXPIRE"), k, n>> : n \in {<<"-", "1">>, <<"9", "9">>, k}}
    \cup {<<w(c), k, n>> : c \in {"INCRBY", "DECRBY"}, n \in {<<"-", "1", "0", "0">>, k}}
    \cup {<<w("GETEX"), k>> \o o :
             o \in {<<w("PERSIST")>>, <<w("EX"), <<"9", "9">>>>, <<w("PXAT"), w("5")>>, <<w("NX")>>}}
    \cup {<<w("SCAN")>> \o o : o \in {<<w("0")>>, <<<<"1", "9", "9">>, w("MATCH"), v>>,
                                      <<w("0"), w("COUNT"), w("0")>>, <<w("0"), w("COUNT")>>,
                                      <<w("0"), w("COUNT"), w("5")>>, <<w("0"), w("MATCH")>>}}

\* With the right, a wrong and an empty password, and with a command behind.
MCConversations ==
    {<<<<w("AUTH"), p>>, c, <<w("PING")>>>> : p \in {w("pw"), k, <<>>}, c \in Commands}

MCOpenings ==
    {<<>>, <<"*">>, <<"SP", "PING">>, <<"*", "0">> \o CRLF, <<"*", "1">> \o CRLF \o <<"$">>,
     encode_command(<<w("AUTH"), w("pw")>>)}
MCKeyboard == {"*", "$", "1", "-", "CR", "LF", "SP", "PING"}

-----------------------------------------------------------------------------
(***************************************************************************)
(* Samples.                                                                *)
(***************************************************************************)
NoSample == [kind |-> "none"]
Patterns == UNION {[1..n -> AnyByte] : n \in 0..MaxPattern}
OptionArgs == {w(o) : o \in {"NX", "XX", "GET", "KEEPTTL", "EX", "PXAT", "5", "0", "z"}}
                 \cup {<<"9", "9">>}
OptionLists == UNION {[1..n -> OptionArgs] : n \in 0..MaxOptions}

Samples ==
    {[kind |-> "pattern", pattern |-> p] : p \in Patterns}
    \cup {[kind |-> "options", opts |-> o] : o \in OptionLists}
    \cup {[kind |-> "deadline", word |-> t, n |-> n] : t \in Timed, n \in 1..I64Max}

WireInit ==
    \/ Init /\ sample = NoSample
    \/ /\ sample \in Samples
       /\ sent = <<>> /\ typed = MaxTyped /\ input = <<>>
       /\ read_buf = <<>> /\ authenticated = FALSE /\ open = FALSE
       /\ output = <<>> /\ client_buf = <<>>
       /\ executed = <<>> /\ replies = <<>> /\ got = <<>> /\ calls = {}

WireNext == Next /\ UNCHANGED sample

WireSpec == WireInit /\ [][WireNext]_<<vars, sample>>

-----------------------------------------------------------------------------
(***************************************************************************)
(* Properties.                                                             *)
(***************************************************************************)
\* KEYS and SCAN MATCH select exactly the keys their pattern means, unterminated
\* classes, reversed ranges and escapes included (glob_match, match_class).
GlobAgrees ==
    sample.kind = "pattern" =>
        \A s \in MCTexts : glob_match[sample.pattern][s] = Means(sample.pattern, s)

\* What SET's options say, without reading them in order: some of them are
\* amounts, each behind a timed expiry, and of what is left at most one is an
\* expiry and at most one a condition.
Reading(opts, amounts) ==
    LET words == 1..Len(opts) \ amounts
        word(i) == Word(opts[i])
        expiries == {i \in words : word(i) \in Timed \cup {"KEEPTTL"}}
        conditions == {i \in words : word(i) \in {"NX", "XX"}}
    IN  [ok |-> /\ \A i \in words : word(i) \in Timed \cup {"KEEPTTL", "NX", "XX", "GET"}
                /\ amounts = {i + 1 : i \in {j \in words : word(j) \in Timed}}
                /\ Cardinality(expiries) <= 1 /\ Cardinality(conditions) <= 1
                /\ \A i \in amounts : expiry_error(word(i - 1), parse_i64(opts[i])) = "none",
         meaning |-> [expiry |-> IF expiries = {} THEN "unset" ELSE word(The(expiries)),
                      condition |-> IF conditions = {} THEN "None" ELSE word(The(conditions)),
                      get |-> \E i \in words : word(i) = "GET",
                      error |-> "none"]]

\* SET accepts the lists of options that can be read that way, in any order, and
\* takes from them what they say; it refuses the others ("EX/PX/EXAT/PXAT/KEEPTTL
\* mutually exclusive; NX/XX mutually exclusive; GET independent of both",
\* parse_set_options).
SetOptionsAgree ==
    sample.kind = "options" =>
        LET parsed == parse_set_options(sample.opts)
            readings == {Reading(sample.opts, a) : a \in SUBSET (1..Len(sample.opts))}
            accepted == {r.meaning : r \in {x \in readings : x.ok}}
        IN  IF parsed.error = "none" THEN accepted = {parsed} ELSE accepted = {}

\* The deadline meant, on the monotonic clock.
Ideal(word, n, wall, now) ==
    CASE word = "EX" -> now + n * Milli
      [] word = "PX" -> now + n
      [] word = "EXAT" -> now + n * Milli - wall
      [] word = "PXAT" -> now + n - wall

\* A relative or absolute expiry becomes the deadline it means, on whatever pair
\* of clock readings: a time that has passed expires at once, a time to come
\* neither at once nor late, and saturation only shortens a time beyond what
\* milliseconds hold (saturating_mul, resolve_absolute_deadline).  A panic means
\* a deadline no Instant holds.
DeadlineExact ==
    sample.kind = "deadline" =>
        \A wall \in Clocks, now \in Clocks :
            LET d == Deadline(sample.word, sample.n, wall, now)
                ideal == Ideal(sample.word, sample.n, wall, now)
            IN  CASE d = {} -> ideal > I64Max * Milli
                  [] d # {} /\ ideal <= now -> d = {now}
                  [] OTHER -> /\ now < The(d) /\ The(d) <= ideal
                              /\ sample.n * Milli <= I64Max => The(d) = ideal
=============================================================================
