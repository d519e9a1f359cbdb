----------------------------- MODULE RespClient -----------------------------
(***************************************************************************)
(* The blocking RESP client of crates/resp-client/src/lib.rs, which every  *)
(* backend and the watchdog use: at most one connection, connected lazily, *)
(* one command at a time, a timeout on every socket call, and one retry on *)
(* a fresh connection when a connection held from an earlier command turns *)
(* out to be dead.                                                         *)
(*                                                                         *)
(* A reply is two tokens, its head and its tail, so that a reply can       *)
(* arrive in part; a read returns any non-empty prefix of what the socket  *)
(* holds.  Command 0 is the AUTH of a new connection.  The server executes *)
(* what it has received whether or not the client still waits for it, may  *)
(* be silent for any time, may close the connection and may restart.       *)
(***************************************************************************)
EXTENDS Integers, Sequences

CONSTANTS
    MaxCmds,  \* bound: commands issued in a behaviour
    Password  \* whether the client has to AUTH

ASSUME ClientAssumption == MaxCmds \in Nat /\ Password \in BOOLEAN

Cmds == 1..MaxCmds
Auth == 0
Token == [cmd : 0..MaxCmds, part : {"head", "tail"}]
Reply(c) == <<[cmd |-> c, part |-> "head"], [cmd |-> c, part |-> "tail"]>>

VARIABLES
    held,     \* conn.is_some()
    read_buf, \* bytes read and not yet consumed
    call,     \* the command being executed, and how far it is
    result    \* result[c]: what the call of c returned

VARIABLES
    alive,    \* the server still has its end of the held connection
    wire,     \* commands sent on it and not yet executed
    socket,   \* reply bytes on their way to the client
    up,       \* the server is running
    orphans   \* orphans[c]: copies of c left on connections the client has dropped

VARIABLES
    execs,    \* how often the server has executed each command
    answer,   \* answer[c]: the command whose reply the call of c returned
    single,   \* commands issued with command_no_retry
    heard,    \* bytes of a reply have arrived in the first attempt
    kept      \* the held connection has outlived a failed attempt

clientVars == <<held, read_buf, call, result>>
netVars == <<alive, wire, socket, up, orphans>>
ghostVars == <<execs, answer, single, heard, kept>>
vars == <<clientVars, netVars, ghostVars>>

Phase == {"idle", "dial", "auth", "auth_wait", "send", "wait"}
InCall == call.phase # "idle"
Waiting == call.phase \in {"auth_wait", "wait"}
Outcome == {"none", "Ok", "Server", "Io", "Closed", "Connect", "Timeout", "Protocol", "Auth"}
NoOrphans == [c \in Cmds |-> 0]
OnWire(c) == \E i \in 1..Len(wire) : wire[i] = c
Pending == IF call.phase \in {"auth", "auth_wait"} THEN Auth ELSE call.cmd

-----------------------------------------------------------------------------
(***************************************************************************)
(* The ends of a call.                                                     *)
(***************************************************************************)
\* Faulty variant of Drop: bytes already read stay in the client's buffer.
DropSocket ==
    /\ held' = FALSE /\ kept' = FALSE
    /\ wire' = <<>> /\ socket' = <<>>
    /\ alive' = FALSE
    /\ UNCHANGED <<read_buf, orphans>>

\* `self.conn = None`: the server may still execute what it has received, which
\* is each command at most once.
Drop ==
    /\ held' = FALSE /\ kept' = FALSE
    /\ read_buf' = <<>> /\ wire' = <<>> /\ socket' = <<>>
    /\ alive' = FALSE
    /\ orphans' = [c \in Cmds |-> orphans[c] + IF alive /\ OnWire(c) THEN 1 ELSE 0]

Keep ==
    /\ kept' = TRUE
    /\ UNCHANGED <<held, read_buf, wire, socket, alive, orphans>>

Return(outcome, of) ==
    /\ call' = [call EXCEPT !.phase = "idle"]
    /\ result' = [result EXCEPT ![call.cmd] = outcome]
    /\ answer' = [answer EXCEPT ![call.cmd] = of]
    /\ heard' = FALSE

\* Faulty variant of Retryable: command_no_retry retries too.
RetryAny(err) == call.attempt = 1 /\ call.reused /\ err \in {"Io", "Closed", "Connect"}

\* The retry rule of Client::command.
Retryable(err) ==
    /\ call.retry /\ call.attempt = 1
    /\ call.reused
    /\ err \in {"Io", "Closed", "Connect"}

\* Faulty variant of AttemptFails: a timeout is not taken as fatal.
AttemptFailsKeeping(err) ==
    /\ \/ err = "Timeout" /\ UNCHANGED <<held, read_buf, wire, socket, alive, orphans, kept>>
       \/ err # "Timeout" /\ Drop
    /\ \/ /\ Retryable(err)
          /\ call' = [call EXCEPT !.attempt = 2, !.phase = "dial"]
          /\ UNCHANGED <<result, answer, heard>>
       \/ ~Retryable(err) /\ Return(err, Auth)
    /\ UNCHANGED <<up, execs, single>>

\* An attempt fails with anything but an error reply.  ensure_connected drops
\* the connection itself; command drops it after the first attempt, and returns
\* the error of the second one as it is.
AttemptFails(err) ==
    /\ \/ (call.attempt = 1 \/ call.phase \in {"dial", "auth", "auth_wait"}) /\ Drop
       \/ ~(call.attempt = 1 \/ call.phase \in {"dial", "auth", "auth_wait"}) /\ Keep
    /\ \/ /\ Retryable(err)
          /\ call' = [call EXCEPT !.attempt = 2, !.phase = "dial"]
          /\ UNCHANGED <<result, answer, heard>>
       \/ ~Retryable(err) /\ Return(err, Auth)
    /\ UNCHANGED <<up, execs, single>>

-----------------------------------------------------------------------------
(***************************************************************************)
(* The client.                                                             *)
(***************************************************************************)
\* command (retry) or command_no_retry.
Call(retry) ==
    /\ ~InCall /\ call.cmd < MaxCmds
    /\ call' = [cmd |-> call.cmd + 1, retry |-> retry, attempt |-> 1, reused |-> held,
                phase |-> IF held THEN "send" ELSE "dial"]
    /\ single' = IF retry THEN single ELSE single \cup {call.cmd + 1}
    /\ UNCHANGED <<held, read_buf, result, netVars, execs, answer, heard, kept>>

disconnect ==
    /\ ~InCall /\ held
    /\ Drop
    /\ UNCHANGED <<call, result, up, execs, answer, single, heard>>

DialOk ==
    /\ call.phase = "dial" /\ up
    /\ held' = TRUE /\ alive' = TRUE
    /\ call' = [call EXCEPT !.phase = IF Password THEN "auth" ELSE "send"]
    /\ UNCHANGED <<read_buf, result, wire, socket, up, orphans, ghostVars>>

DialFails == call.phase = "dial" /\ AttemptFails("Connect")

\* round_trip up to the end of its write.  On a dead connection the write may
\* still land in a buffer.
Send ==
    /\ call.phase \in {"auth", "send"}
    /\ read_buf = <<>>
    /\ wire' = IF alive THEN Append(wire, Pending) ELSE wire
    /\ call' = [call EXCEPT !.phase = IF @ = "auth" THEN "auth_wait" ELSE "wait"]
    /\ UNCHANGED <<held, read_buf, result, alive, socket, up, orphans, ghostVars>>

SendFails ==
    /\ call.phase \in {"auth", "send"}
    /\ \/ read_buf # <<>> /\ AttemptFails("Protocol")
       \/ read_buf = <<>> /\ ~alive /\ AttemptFails("Io")
       \/ read_buf = <<>> /\ alive /\ AttemptFails("Timeout")

\* parse_reply finds a complete reply at the front of the buffer.
Parsed == Len(read_buf) >= 2

Read ==
    /\ Waiting /\ ~Parsed
    /\ \E n \in 1..Len(socket) :
          /\ read_buf' = read_buf \o SubSeq(socket, 1, n)
          /\ socket' = SubSeq(socket, n + 1, Len(socket))
    /\ heard' = (heard \/ call.attempt = 1)
    /\ UNCHANGED <<held, call, result, alive, wire, up, orphans, execs, answer, single, kept>>

\* A complete reply, an error reply ("Server") included.
Complete ==
    /\ call.phase = "wait" /\ Parsed
    /\ read_buf' = SubSeq(read_buf, 3, Len(read_buf))
    /\ \E outcome \in {"Ok", "Server"} : Return(outcome, read_buf[1].cmd)
    /\ UNCHANGED <<held, netVars, execs, single, kept>>

AuthComplete ==
    /\ call.phase = "auth_wait" /\ Parsed
    /\ read_buf' = SubSeq(read_buf, 3, Len(read_buf))
    /\ call' = [call EXCEPT !.phase = "send"]
    /\ UNCHANGED <<held, result, netVars, ghostVars>>

AuthRefused == call.phase = "auth_wait" /\ Parsed /\ AttemptFails("Auth")

\* Faulty variants of ReadFails: no read timeout ...
ReadFailsUntimed ==
    /\ Waiting /\ ~Parsed /\ socket = <<>>
    /\ \/ read_buf # <<>> /\ ~alive /\ AttemptFails("Protocol")
       \/ read_buf = <<>> /\ ~alive /\ AttemptFails("Closed")
       \/ read_buf = <<>> /\ ~alive /\ AttemptFails("Io")
\* ... and a connection that ends in the middle of a reply taken
\* for one that ended before it.
ReadFailsUnclassified ==
    /\ Waiting /\ ~Parsed /\ socket = <<>>
    /\ \/ alive /\ AttemptFails("Timeout")
       \/ ~alive /\ AttemptFails("Closed")
       \/ AttemptFails("Io")

\* EOF, a reset, the timeout, or a signal (EINTR: a socket with a timeout is not
\* restarted) whatever the server does; Closed and Io mean that no byte had
\* arrived.
ReadFails ==
    /\ Waiting /\ ~Parsed /\ socket = <<>>
    /\ \/ alive /\ AttemptFails("Timeout")
       \/ read_buf # <<>> /\ AttemptFails("Protocol")
       \/ read_buf = <<>> /\ ~alive /\ AttemptFails("Closed")
       \/ read_buf = <<>> /\ AttemptFails("Io")

-----------------------------------------------------------------------------
(***************************************************************************)
(* The server.                                                             *)
(***************************************************************************)
Executed(c) == execs' = IF c = Auth THEN execs ELSE [execs EXCEPT ![c] = @ + 1]

Execute ==
    /\ alive /\ wire # <<>>
    /\ Executed(Head(wire))
    /\ wire' = Tail(wire)
    /\ socket' = socket \o Reply(Head(wire))
    /\ UNCHANGED <<clientVars, alive, up, orphans, answer, single, heard, kept>>

ExecuteOrphan ==
    /\ up
    /\ \E c \in Cmds :
          orphans[c] > 0 /\ Executed(c) /\ orphans' = [orphans EXCEPT ![c] = @ - 1]
    /\ UNCHANGED <<clientVars, alive, wire, socket, up, answer, single, heard, kept>>

\* The connection ends, for whatever reason, with part of the replies sent.
Disconnected ==
    /\ alive' = FALSE /\ wire' = <<>>
    /\ \E n \in 0..Len(socket) : socket' = SubSeq(socket, 1, n)

ServerCloses ==
    /\ alive /\ Disconnected
    /\ UNCHANGED <<clientVars, up, orphans, ghostVars>>

ServerDown ==
    /\ up /\ up' = FALSE
    /\ Disconnected
    /\ orphans' = NoOrphans
    /\ UNCHANGED <<clientVars, ghostVars>>

ServerUp ==
    /\ ~up /\ up' = TRUE
    /\ UNCHANGED <<clientVars, alive, wire, socket, orphans, ghostVars>>

-----------------------------------------------------------------------------
Init ==
    /\ held = FALSE /\ read_buf = <<>>
    /\ call = [cmd |-> 0, retry |-> FALSE, attempt |-> 1, reused |-> FALSE, phase |-> "idle"]
    /\ result = [c \in Cmds |-> "none"]
    /\ alive = FALSE /\ wire = <<>> /\ socket = <<>> /\ up = TRUE /\ orphans = NoOrphans
    /\ execs = [c \in Cmds |-> 0]
    /\ answer = [c \in Cmds |-> Auth]
    /\ single = {} /\ heard = FALSE /\ kept = FALSE

ClientStep ==
    \/ DialOk \/ DialFails \/ Send \/ SendFails
    \/ Read \/ Complete \/ AuthComplete \/ AuthRefused \/ ReadFails

Next ==
    \/ \E retry \in BOOLEAN : Call(retry)
    \/ disconnect
    \/ ClientStep
    \/ Execute \/ ExecuteOrphan \/ ServerCloses \/ ServerDown \/ ServerUp

\* Every socket call of the client returns, at the latest when it times out.
\* Nothing is assumed of the server.
Spec == Init /\ [][Next]_vars /\ WF_vars(ClientStep)

-----------------------------------------------------------------------------
(***************************************************************************)
(* Properties.                                                             *)
(***************************************************************************)
\* Every variable has its type; a connection that is not held has no state.
TypeOK ==
    /\ held \in BOOLEAN /\ alive \in BOOLEAN /\ up \in BOOLEAN
    /\ heard \in BOOLEAN /\ kept \in BOOLEAN
    /\ call \in [cmd : 0..MaxCmds, retry : BOOLEAN, attempt : {1, 2}, reused : BOOLEAN,
                 phase : Phase]
    /\ result \in [Cmds -> Outcome]
    /\ read_buf \in Seq(Token) /\ socket \in Seq(Token) /\ wire \in Seq(0..MaxCmds)
    /\ orphans \in [Cmds -> Nat] /\ single \subseteq Cmds
    /\ execs \in [Cmds -> Nat] /\ answer \in [Cmds -> 0..MaxCmds]
    /\ ~held => read_buf = <<>> /\ socket = <<>> /\ wire = <<>> /\ ~alive /\ ~kept

\* The server executes a command at most twice, and one sent with
\* command_no_retry at most once, the executions after the client has given up
\* included.
AtMostTwice ==
    \A c \in Cmds : execs[c] <= IF c \in single THEN 1 ELSE 2

\* A command is only sent a second time when not one byte of a reply to the
\* first attempt has arrived (condition (b) of Client::command's retry rule;
\* Closed and Io against Protocol in round_trip).
RetryOnlyUnanswered == call.attempt = 2 => ~heard

\* Unless the connection has outlived a failed second attempt, all that is on
\* it belongs to the command being executed: no reply of an earlier command
\* can be on its way or in the buffer.
Synchronized ==
    held /\ ~kept =>
        LET Own(c) == InCall /\ (c = Pending \/ c = Auth)
        IN  /\ \A i \in 1..Len(wire) : Own(wire[i])
            /\ \A i \in 1..Len(socket) : Own(socket[i].cmd)
            /\ \A i \in 1..Len(read_buf) : Own(read_buf[i].cmd)

\* Every call returns, however the server behaves: a backend never hangs on the
\* cache (DEFAULT_TIMEOUT).
CommandReturns == InCall ~> ~InCall

\* A call returns the reply of its own command ("guessing where the next reply
\* starts is how a client returns one key's value for another key's GET").
ReplyMatchesCommand == \A c \in Cmds : answer[c] \in {Auth, c}
=============================================================================
