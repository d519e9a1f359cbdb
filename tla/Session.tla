------------------------------ MODULE Session ------------------------------
(***************************************************************************)
(* One connection end to end, in bytes: a client sends commands, encoded   *)
(* or typed; they reach the server in pieces of any size; the server       *)
(* parses, dispatches and replies (crates/resp-proto, dispatch.rs and the  *)
(* parse loop of service_connection in crates/pg_resp/src/lib.rs); and the *)
(* replies reach the client in pieces, where parse_reply takes them.       *)
(* Buffers and sockets with their limits, and what a full socket does to   *)
(* the end of a connection, are in EventLoop; the client's timeouts and    *)
(* retries in RespClient.                                                  *)
(***************************************************************************)
EXTENDS Dispatch

CONSTANTS
    Conversations, \* what the encoding client may send: sequences of commands
    Openings,      \* what a typing client may begin with
    Keyboard,      \* bytes it may go on with
    MaxTyped       \* bound: how many of them

\* A command within the limits of an array and of its bulk strings.
Fits(args) == Len(args) <= MAX_ARRAY_LEN /\ \A i \in 1..Len(args) : Len(args[i]) <= MAX_BULK_LEN

ASSUME SessionAssumption ==
    /\ Conversations \subseteq Seq(Seq(Seq(Byte)))
    /\ \A c \in Conversations : \A i \in 1..Len(c) : c[i] # <<>> /\ Fits(c[i])
    /\ Openings \subseteq Seq(Byte) /\ Keyboard \subseteq Byte /\ MaxTyped \in Nat

VARIABLES
    sent,          \* commands the client has encoded
    input,         \* bytes on their way to the server
    typed,         \* bytes typed so far, or MaxTyped for an encoding client
    read_buf,      \* the server's buffer
    authenticated, \* ConnState.authenticated
    open,          \* the server still reads
    output,        \* bytes on their way to the client
    client_buf     \* the client's buffer

VARIABLES
    executed,      \* commands the server has dispatched
    replies,       \* replies it has written
    got,           \* replies the client has taken
    calls          \* which of the commands executed have called the store

serverVars == <<read_buf, authenticated, open, executed, replies, calls>>
clientVars == <<sent, typed, client_buf, got>>
vars == <<serverVars, clientVars, input, output>>

-----------------------------------------------------------------------------
(***************************************************************************)
(* The wire.  Any number of bytes may arrive between two steps of the      *)
(* server or of the client.                                                *)
(***************************************************************************)
Arrive ==
    /\ input # <<>>
    /\ read_buf' = Append(read_buf, Head(input))
    /\ input' = Tail(input)
    /\ UNCHANGED <<authenticated, open, executed, replies, calls, clientVars, output>>

Type(b) ==
    /\ open /\ typed < MaxTyped /\ input = <<>>
    /\ typed' = typed + 1
    /\ read_buf' = Append(read_buf, b)
    /\ UNCHANGED <<authenticated, open, executed, replies, calls, sent, client_buf, got,
                   input, output>>

Return ==
    /\ output # <<>>
    /\ client_buf' = Append(client_buf, Head(output))
    /\ output' = Tail(output)
    /\ UNCHANGED <<serverVars, sent, typed, got, input>>

-----------------------------------------------------------------------------
(***************************************************************************)
(* The server: the loop of service_connection.                             *)
(***************************************************************************)
Parsed == parse_command(read_buf)
Consumed == SubSeq(read_buf, Parsed.next, Len(read_buf))
IsQuit(args) == Word(args[1]) = "QUIT"

\* ParseOutcome::Complete with arguments: dispatch and reply.
Execute ==
    /\ open /\ Parsed.out = "Complete" /\ Parsed.value # <<>>
    /\ \E outcome \in dispatch(Parsed.value, authenticated) :
          /\ replies' = Append(replies, outcome.reply)
          /\ output' = output \o write_to(outcome.reply)
          /\ calls' = IF outcome.call = "none" THEN calls ELSE calls \cup {Len(executed) + 1}
          /\ authenticated' = (authenticated \/ outcome.auth)
    /\ executed' = Append(executed, Parsed.value)
    /\ read_buf' = Consumed
    /\ open' = ~IsQuit(Parsed.value)
    /\ UNCHANGED <<clientVars, input>>

\* A blank line or `*0`: consumed and not answered.
Skip ==
    /\ open /\ Parsed.out = "Complete" /\ Parsed.value = <<>>
    /\ read_buf' = Consumed
    /\ UNCHANGED <<authenticated, open, executed, replies, calls, clientVars, input, output>>

\* dispatch panics: the fence drops the connection.
Panic ==
    /\ open /\ Parsed.out = "Complete" /\ Parsed.value # <<>>
    /\ dispatch(Parsed.value, authenticated) = {}
    /\ open' = FALSE
    /\ UNCHANGED <<read_buf, authenticated, executed, replies, calls, clientVars, input, output>>

\* ParseOutcome::Invalid: an error reply, and the end.
Reject ==
    /\ open /\ Parsed.out = "Invalid"
    /\ replies' = Append(replies, Error(<<"ERR Protocol error">>))
    /\ output' = output \o write_to(Error(<<"ERR Protocol error">>))
    /\ open' = FALSE
    /\ UNCHANGED <<read_buf, authenticated, executed, calls, clientVars, input>>

-----------------------------------------------------------------------------
\* The client takes a complete reply.
Take ==
    /\ parse_reply(client_buf).out = "Complete"
    /\ got' = Append(got, parse_reply(client_buf).value)
    /\ client_buf' = SubSeq(client_buf, parse_reply(client_buf).next, Len(client_buf))
    /\ UNCHANGED <<serverVars, sent, typed, input, output>>

-----------------------------------------------------------------------------
Init ==
    /\ \/ /\ sent \in Conversations /\ typed = MaxTyped
          /\ input = FlattenSeq([i \in 1..Len(sent) |-> encode_command(sent[i])])
       \/ sent = <<>> /\ typed = 0 /\ input \in Openings
    /\ read_buf = <<>> /\ authenticated = FALSE /\ open = TRUE
    /\ output = <<>> /\ client_buf = <<>>
    /\ executed = <<>> /\ replies = <<>> /\ got = <<>> /\ calls = {}

Next ==
    \/ Arrive
    \/ \E b \in Keyboard : Type(b)
    \/ Execute \/ Skip \/ Panic \/ Reject
    \/ Return \/ Take

Spec == Init /\ [][Next]_vars

-----------------------------------------------------------------------------
(***************************************************************************)
(* Properties.                                                             *)
(***************************************************************************)
\* What the server executes is what the client has encoded, argument by
\* argument and byte by byte, and it never finds a protocol error in it, however
\* the stream was cut and whatever bytes the arguments hold
\* (encode_command_into, parse_command).
CommandsExact == sent # <<>> => IsPrefix(executed, sent) /\ Parsed.out # "Invalid"

\* The bytes of the request that the error reply of an unknown command or CLIENT
\* subcommand repeats, and when they break its line: a CRLF of their own, or a
\* text longer than a line may be.
Repeated(args) == IF Word(args[1]) = "CLIENT" /\ Len(args) > 1 THEN args[2] ELSE args[1]
BreaksLine(bytes) == find_crlf(bytes, 1) # {} \/ Len(bytes) + 2 > MAX_INLINE_LEN

\* The client takes the replies the server has written, one for each command,
\* in order and without ever finding the stream malformed, unless an error
\* reply has repeated bytes that break its line, or a typed line, which is not
\* measured once it has ended, held more than a reply may (Reply::write_to,
\* parse_reply, parse_inline_command).
RepliesFramed ==
    \/ \E i \in 1..Len(executed) : BreaksLine(Repeated(executed[i])) \/ ~Fits(executed[i])
    \/ IsPrefix(got, replies) /\ parse_reply(client_buf).out # "Invalid"

\* With a password, a command calls the store only behind an AUTH with that
\* password on the same connection (the NOAUTH gate of dispatch).
NothingBeforeAuth ==
    Password # {} =>
        \A i \in calls : \E j \in 1..(i - 1) : executed[j] = <<<<"AUTH">>, The(Password)>>

\* What more bytes can do to an outcome: nothing, once it is Complete or
\* Invalid, except to end a line that was too long without its CRLF.
Settles(before, after) ==
    \/ before.out = "Incomplete"
    \/ before.out = "Invalid" /\ before.why = "too long"
    \/ before = after
Extends(before, after) == Len(before) < Len(after) /\ IsPrefix(before, after)

\* Both parsers answer the same whether a message arrives whole or in pieces
\* ("Malformed input that can never become valid by reading more bytes").
OutcomeStable ==
    [][/\ Extends(read_buf, read_buf') =>
             Settles(parse_command(read_buf), parse_command(read_buf'))
       /\ Extends(client_buf, client_buf') =>
             Settles(parse_reply(client_buf), parse_reply(client_buf'))]_vars
=============================================================================
