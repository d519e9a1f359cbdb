------------------------------ MODULE Dispatch ------------------------------
(***************************************************************************)
(* Command dispatch, crates/pg_resp/src/dispatch.rs: what the arguments of *)
(* a command mean, which call of the store they become and which reply     *)
(* they get.  What the store does is in RespStore and ScanRegistry; here a *)
(* call of it returns anything of its type.                                *)
(*                                                                         *)
(* An argument is a sequence of bytes as in RespProto; a command or option *)
(* word is one byte.  Texts are one byte too, except where the code puts   *)
(* bytes of the request into them.  Times are milliseconds.                *)
(***************************************************************************)
EXTENDS RespProto

CONSTANTS
    Password,  \* Option: pg_resp.password
    Milli,     \* milliseconds in a second
    Wall, Now, \* the two clocks when a command is dispatched
    Values     \* values the store may hold

ASSUME DispatchAssumption ==
    /\ Milli \in Nat \ {0} /\ {Wall, Now} \subseteq Nat
    /\ Password \subseteq Seq(Byte) /\ \A p, q \in Password : p = q
    /\ Values \subseteq Seq(Byte) /\ \A x \in Values : Len(x) <= MAX_BULK_LEN
    /\ {"OK", "PONG", "server", "string", "none", "# Server", "used_memory", "WRONGPASS", "NOAUTH",
        "ERR", "ERR no password is set", "ERR DB index", "ERR wrong number of arguments",
        "ERR unknown command", "ERR Unknown CLIENT subcommand", "ERR not an integer",
        "ERR would overflow", "ERR Protocol error"} \subseteq Byte

\* The limits are not below what dispatch replies with of its own: numbers up to
\* 12, the fields of INFO, the elements of HELLO's array, and arrays in arrays.
ASSUME RepliesAssumption ==
    12 <= I64Max /\ 6 <= MAX_BULK_LEN /\ 3 <= MAX_ARRAY_LEN /\ Nesting <= MAX_REPLY_DEPTH

Word(arg) == IF Len(arg) = 1 THEN arg[1] ELSE "-"
parse_i64(arg) == parse_i64_strict(arg)
parse_u64(arg) == parse(arg, {"+"}, 0, 2 * I64Max + 1)
Flush == {"FLUSHDB", "FLUSHALL"}
Ok == Simple(<<"OK">>)

-----------------------------------------------------------------------------
(***************************************************************************)
(* Deadlines.  A deadline is an Option: {} is the panic of an Instant that *)
(* its seconds, an i64, cannot hold.                                       *)
(***************************************************************************)
Timed == {"EX", "PX", "EXAT", "PXAT"}

Plus(now, ms) == {now + ms} \cap 0..(I64Max * Milli + Milli - 1)

\* Faulty variant of saturating_mul: the product wraps around.
wrapping_mul(n) == ((n * Milli + I64Max + 1) % (2 * (I64Max + 1))) - (I64Max + 1)

saturating_mul(n) == IF n * Milli > I64Max THEN I64Max ELSE n * Milli

resolve_absolute_deadline(wall, now, target) ==
    IF target <= wall THEN {now} ELSE Plus(now, target - wall)

Deadline(word, n, wall, now) ==
    CASE word = "EX" -> Plus(now, n * Milli)
      [] word = "PX" -> Plus(now, n)
      [] word = "EXAT" -> resolve_absolute_deadline(wall, now, saturating_mul(n))
      [] word = "PXAT" -> resolve_absolute_deadline(wall, now, n)

\* What is wrong with n as the amount of a timed expiry.
expiry_error(word, n) ==
    CASE n = {} -> "not an integer"
      [] n # {} /\ The(n) <= 0 -> "invalid expire"
      [] n # {} /\ The(n) > 0 /\ Deadline(word, The(n), Wall, Now) = {} -> "panic"
      [] OTHER -> "none"

-----------------------------------------------------------------------------
(***************************************************************************)
(* SET's options.                                                          *)
(***************************************************************************)
NoOptions == [expiry |-> "unset", condition |-> "None", get |-> FALSE, error |-> "none"]
Refused(options, error) == [options EXCEPT !.error = error]

Amount(opts, i) == IF i + 1 > Len(opts) THEN {} ELSE parse_i64(opts[i + 1])

\* Faulty variant of expiry_option: a later expiry replaces an earlier one.
expiry_replaced(opts, i, options) ==
    LET error == IF i = Len(opts) THEN "syntax" ELSE expiry_error(Word(opts[i]), Amount(opts, i))
    IN  IF error # "none" THEN Refused(options, error)
        ELSE [options EXCEPT !.expiry = Word(opts[i])]

\* EX, PX, EXAT or PXAT at position i.
expiry_option(opts, i, options) ==
    LET error == IF options.expiry # "unset" \/ i = Len(opts) THEN "syntax"
                 ELSE expiry_error(Word(opts[i]), Amount(opts, i))
    IN  IF error # "none" THEN Refused(options, error)
        ELSE [options EXCEPT !.expiry = Word(opts[i])]

\* What the option at position i adds to the options before it.
set_option(opts, i, options) ==
    LET word == Word(opts[i])
    IN  CASE word \in {"NX", "XX"} /\ options.condition = "None" ->
                [options EXCEPT !.condition = word]
          [] word = "GET" -> [options EXCEPT !.get = TRUE]
          [] word = "KEEPTTL" /\ options.expiry = "unset" -> [options EXCEPT !.expiry = word]
          [] word \in Timed -> expiry_option(opts, i, options)
          [] OTHER -> Refused(options, "syntax")

\* One turn of the loop of parse_set_options, which ends at the first error.
SetTurn(opts, loop) ==
    IF loop.i > Len(opts) \/ loop.options.error # "none" THEN loop
    ELSE [i |-> IF Word(opts[loop.i]) \in Timed THEN loop.i + 2 ELSE loop.i + 1,
          options |-> set_option(opts, loop.i, loop.options)]

parse_set_options(opts) ==
    LET after[n \in Nat] ==
            IF n = 0 THEN [i |-> 1, options |-> NoOptions] ELSE SetTurn(opts, after[n - 1])
    IN  after[Len(opts)].options

-----------------------------------------------------------------------------
(***************************************************************************)
(* Commands.  An outcome is a reply, the store call made for it, and       *)
(* whether the connection has authenticated with it.                       *)
(***************************************************************************)
Answer(reply) == [reply |-> reply, call |-> "none", auth |-> FALSE]
Called(call, replies) == {[reply |-> r, call |-> call, auth |-> FALSE] : r \in replies}
Fails(text) == {Answer(Error(<<text>>))}

ValueOrNil == {Bulk(v) : v \in Values} \cup {Nil}
Count(max) == {Integer(n) : n \in 0..max}

\* The numbers of arguments a command accepts before it looks at them.
ArityOk(cmd, n) ==
    CASE cmd \in {"ECHO", "GET", "TTL", "PTTL", "INCR", "DECR", "AUTH", "SELECT", "GETDEL",
                  "PERSIST", "TYPE", "KEYS"} -> n = 1
      [] cmd = "PING" -> n <= 1
      [] cmd \in {"EXPIRE", "INCRBY", "DECRBY", "SETNX"} -> n = 2
      [] cmd = "SETEX" -> n = 3
      [] cmd = "SET" -> n >= 2
      [] cmd \in {"DEL", "EXISTS", "MGET", "SCAN", "CLIENT", "GETEX"} -> n >= 1
      [] cmd = "MSET" -> n >= 2 /\ n % 2 = 0
      [] cmd \in {"DBSIZE", "RANDOMKEY"} -> n = 0
      [] cmd \in Flush -> n <= 1
      [] OTHER -> TRUE

\* The first error among SCAN's options, which begin at position 2.
ScanOptionsError(rest) ==
    LET error[i \in Nat] ==
            CASE i > Len(rest) -> "none"
              [] i < Len(rest) /\ Word(rest[i]) = "MATCH" -> error[i + 2]
              [] i <= Len(rest) /\ Word(rest[i]) = "COUNT" ->
                    IF Amount(rest, i) = {} THEN "not an integer"
                    ELSE IF The(Amount(rest, i)) > 0 THEN error[i + 2] ELSE "syntax"
              [] OTHER -> "syntax"
    IN  error[2]

\* GETEX: nothing, PERSIST, or one timed expiry.
getex_error(rest) ==
    CASE Len(rest) = 1 \/ (Len(rest) = 2 /\ Word(rest[2]) = "PERSIST") -> "none"
      [] Len(rest) = 3 /\ Word(rest[2]) \in Timed -> expiry_error(Word(rest[2]), parse_i64(rest[3]))
      [] OTHER -> "syntax"

\* EXPIRE: an amount that is not positive is a deadline that has passed.
expire_error(n) == IF n # {} /\ The(n) <= 0 THEN "none" ELSE expiry_error("EX", n)

\* INCRBY, and DECRBY, which negates with checked_neg.
delta_error(cmd, n) ==
    CASE n = {} -> "not an integer"
      [] cmd = "DECRBY" /\ n = {-(I64Max + 1)} -> "overflow"
      [] OTHER -> "none"

ArgumentError(cmd, rest) ==
    CASE cmd = "SET" -> parse_set_options(SubSeq(rest, 3, Len(rest))).error
      [] cmd = "GETEX" -> getex_error(rest)
      [] cmd = "SETEX" -> expiry_error("EX", parse_i64(rest[2]))
      [] cmd = "EXPIRE" -> expire_error(parse_i64(rest[2]))
      [] cmd \in {"INCRBY", "DECRBY"} -> delta_error(cmd, parse_i64(rest[2]))
      [] cmd = "SCAN" ->
            IF parse_u64(rest[1]) = {} THEN "invalid cursor"
            ELSE ScanOptionsError(rest)
      [] cmd \in Flush -> IF rest # <<>> /\ Word(rest[1]) \notin {"ASYNC", "SYNC"}
                            THEN "wrong number of arguments" ELSE "none"
      [] OTHER -> "none"

\* The replies a command can get from the store, by the tiers of the code.
T0Replies(cmd, rest) ==
    CASE cmd = "GET" -> ValueOrNil
      [] cmd = "SET" ->
            IF parse_set_options(SubSeq(rest, 3, Len(rest))).get THEN ValueOrNil ELSE {Ok, Nil}
      [] cmd \in {"DEL", "EXISTS"} -> Count(Len(rest))
      [] cmd \in {"TTL", "PTTL"} -> {Integer(-2), Integer(-1), Integer(5)}
      [] cmd = "EXPIRE" -> Count(1)
      [] cmd \in {"INCR", "DECR", "INCRBY", "DECRBY"} ->
            {Integer(12), Error(<<"ERR not an integer">>), Error(<<"ERR would overflow">>)}
      [] cmd = "MGET" -> {Array(v) : v \in [1..Len(rest) -> ValueOrNil]}
      [] cmd = "MSET" -> {Ok}

T1Replies(cmd) ==
    CASE cmd = "DBSIZE" -> Count(2)
      [] cmd \in Flush -> {Ok}
      [] cmd = "INFO" -> {Bulk(<<"# Server", "CR", "LF", "used_memory", "CR", "LF">>)}
      [] cmd = "SCAN" -> {Array(<<Bulk(<<"0">>), Array(<<Bulk(v)>>)>>) : v \in Values}

T2Replies(cmd) ==
    CASE cmd = "SETEX" -> {Ok}
      [] cmd \in {"SETNX", "PERSIST"} -> Count(1)
      [] cmd \in {"GETDEL", "GETEX", "RANDOMKEY"} -> ValueOrNil
      [] cmd = "TYPE" -> {Simple(<<"string">>), Simple(<<"none">>)}
      [] cmd = "KEYS" -> {Array(<<>>)} \cup {Array(<<Bulk(v)>>) : v \in Values}

T0 == {"GET", "SET", "DEL", "EXISTS", "TTL", "PTTL", "EXPIRE", "INCR", "DECR", "INCRBY", "DECRBY",
       "MGET", "MSET"}
T1 == {"DBSIZE", "INFO", "SCAN"} \cup Flush
T2 == {"SETEX", "SETNX", "GETDEL", "GETEX", "PERSIST", "TYPE", "RANDOMKEY", "KEYS"}

StoreReplies(cmd, rest) ==
    CASE cmd \in T0 -> T0Replies(cmd, rest)
      [] cmd \in T1 -> T1Replies(cmd)
      [] cmd \in T2 -> T2Replies(cmd)

\* Faulty variant of constant_time_eq: without the test of the lengths.
eq_common(a, b) == \A i \in DOMAIN a \cap DOMAIN b : a[i] = b[i]

constant_time_eq(a, b) == Len(a) = Len(b) /\ \A i \in 1..Len(a) : a[i] = b[i]

auth(arg) ==
    CASE Password = {} -> Fails("ERR no password is set")
      [] Password # {} /\ constant_time_eq(The(Password), arg) ->
            {[Answer(Ok) EXCEPT !.auth = TRUE]}
      [] OTHER -> Fails("WRONGPASS")

\* Commands answered without the store: of the handshake, and the others.
Handshake == {"PING", "ECHO", "HELLO"}
UnknownCommand(name) == {Answer(Error(<<"ERR unknown command">> \o name))}

HandshakeReplies(args, rest) ==
    LET cmd == Word(args[1])
    IN  CASE cmd = "PING" /\ rest = <<>> -> {Answer(Simple(<<"PONG">>))}
          [] cmd \in {"PING", "ECHO"} /\ rest # <<>> -> {Answer(Bulk(rest[1]))}
          [] cmd = "HELLO" /\ (rest = <<>> \/ parse_i64(rest[1]) = {2}) ->
                {Answer(Array(<<Bulk(<<"server">>), Integer(2), Array(<<>>)>>))}
          [] OTHER -> UnknownCommand(args[1])

client_subcommand(arg) ==
    CASE Word(arg) \in {"SETINFO", "SETNAME"} -> {Answer(Ok)}
      [] Word(arg) = "GETNAME" -> {Answer(Bulk(<<>>))}
      [] OTHER -> {Answer(Error(<<"ERR Unknown CLIENT subcommand">> \o arg))}

PlainReplies(args, rest) ==
    LET cmd == Word(args[1])
    IN  CASE cmd \in Handshake -> HandshakeReplies(args, rest)
          [] cmd = "AUTH" -> auth(rest[1])
          [] cmd = "SELECT" -> IF rest[1] = <<"0">> THEN {Answer(Ok)} ELSE Fails("ERR DB index")
          [] cmd = "CLIENT" -> client_subcommand(rest[1])
          [] cmd = "COMMAND" -> IF rest # <<>> /\ Word(rest[1]) = "COUNT"
                                THEN {Answer(Integer(0))} ELSE {Answer(Array(<<>>))}
          [] cmd = "QUIT" -> {Answer(Ok)}
          [] OTHER -> UnknownCommand(args[1])

\* What a connection that has or has not authenticated gets; {} is a panic.
dispatch(args, authenticated) ==
    LET cmd == Word(args[1])
        rest == Tail(args)
        error == ArgumentError(cmd, rest)
    IN  IF Password # {} /\ ~authenticated /\ cmd \notin {"AUTH", "HELLO", "QUIT"}
        THEN Fails("NOAUTH")
        ELSE CASE ~ArityOk(cmd, Len(rest)) -> Fails("ERR wrong number of arguments")
               [] ArityOk(cmd, Len(rest)) /\ cmd \notin T0 \cup T1 \cup T2 -> PlainReplies(args, rest)
               [] ArityOk(cmd, Len(rest)) /\ cmd \in T0 \cup T1 \cup T2 ->
                     CASE error = "none" -> Called(cmd, StoreReplies(cmd, rest))
                       [] error = "panic" -> {}
                       [] OTHER -> Fails("ERR")
=============================================================================
