----------------------------- MODULE EventLoop -----------------------------
(***************************************************************************)
(* The server thread of crates/pg_resp/src/lib.rs: server_loop,            *)
(* service_connection, flush_writes and reconcile_interest.  One thread    *)
(* serves all connections, on non-blocking sockets with edge-triggered     *)
(* events; a reply that does not fit into the socket is finished when the  *)
(* socket has room again.                                                  *)
(*                                                                         *)
(* A command is two bytes and so is a reply, so either can arrive or be    *)
(* written in part.  What a client sends is the list of its commands, by   *)
(* kind; how much of it was sent, read and parsed are byte counts.  The    *)
(* kinds: a command with a reply, a blank line or *0, QUIT, bytes that do  *)
(* not parse, and a command whose handler panics.                          *)
(***************************************************************************)
EXTENDS Integers, Sequences

CONSTANTS
    Conns,       \* connections at a time
    MaxConnects, \* bound: connections in a behaviour
    SocketRoom,  \* bytes the socket's send buffer takes
    MaxPending,  \* MAX_PENDING_WRITE_BYTES
    Reclaim,     \* WRITE_PREFIX_RECLAIM_BYTES
    MaxCmds,     \* bound: commands a client sends on a connection
    None

ASSUME LoopAssumption ==
    /\ SocketRoom \in Nat \ {0} /\ Reclaim \in Nat \ {0}
    /\ MaxPending \in Nat /\ MaxCmds \in Nat /\ MaxConnects \in Nat
    /\ None \notin Conns

Kind == {"command", "blank", "quit", "bad", "panic"}
Size == 2  \* bytes of a command and of a reply

VARIABLES
    conns,     \* each connection: the server's Conn, the socket and the client
    connects,  \* connections made so far
    server     \* what the thread is doing, and for which connection

vars == <<conns, connects, server>>

Byte == [cmd : 1..MaxCmds, part : 1..Size]
Reply(i) == [n \in 1..Size |-> [cmd |-> i, part |-> n]]

Conn == [
    status : {"backlog", "open", "closed"},
    \* Conn of the code; read_buf is what was read and not yet parsed
    read : Nat, parsed : Nat,
    write_buf : Seq(Byte), write_pos : Nat,
    want_write : BOOLEAN, close_after_flush : BOOLEAN,
    \* the socket: bytes on their way to the client, an event to report
    tx : Seq(Byte), event : BOOLEAN,
    \* the client
    kinds : Seq(Kind), sent : Nat, fin : {"no", "half", "full"}, received : Seq(Byte),
    \* for the properties: replies produced; accept or reregister has failed;
    \* dropped by the panic fence or for too many unsent bytes
    owed : Seq(Byte), unarmed : BOOLEAN, forced : BOOLEAN]

Unsent(c) == SubSeq(conns[c].write_buf, conns[c].write_pos + 1, Len(conns[c].write_buf))

-----------------------------------------------------------------------------
(***************************************************************************)
(* Clients and sockets.                                                    *)
(***************************************************************************)
Readable(x) == x.read < x.sent \/ x.fin # "no"
Writable(x) == Len(x.tx) < SocketRoom \/ x.fin = "full"

New(status) ==
    [status |-> status, read |-> 0, parsed |-> 0, write_buf |-> <<>>, write_pos |-> 0,
     want_write |-> FALSE, close_after_flush |-> FALSE, tx |-> <<>>, event |-> FALSE,
     kinds |-> <<>>, sent |-> 0, fin |-> "no", received |-> <<>>,
     owed |-> <<>>, unarmed |-> FALSE, forced |-> FALSE]

\* A connection is over when the server has closed it and its client has read
\* what was sent, or has gone.
Connect(c) ==
    /\ conns[c].status = "closed" /\ connects < MaxConnects
    /\ conns[c].tx = <<>> \/ conns[c].fin = "full"
    /\ connects' = connects + 1
    /\ conns' = [conns EXCEPT ![c] = New("backlog")]
    /\ UNCHANGED server

Connected(c) == conns[c].status \in {"backlog", "open"}

\* One more byte of a command, the first one of a new command included.
Send(c) ==
    /\ Connected(c) /\ conns[c].fin = "no"
    /\ \/ /\ conns[c].sent < Size * Len(conns[c].kinds)
          /\ conns' = [conns EXCEPT ![c].sent = @ + 1, ![c].event = TRUE]
       \/ /\ conns[c].sent = Size * Len(conns[c].kinds) /\ Len(conns[c].kinds) < MaxCmds
          /\ \E k \in Kind :
                conns' = [conns EXCEPT ![c].kinds = Append(@, k), ![c].sent = @ + 1,
                                       ![c].event = TRUE]
    /\ UNCHANGED <<connects, server>>

\* The client takes a byte; room in the socket is an event if it was asked for.
Receive(c) ==
    /\ conns[c].fin # "full" /\ conns[c].tx # <<>>
    /\ conns' = [conns EXCEPT ![c].tx = Tail(@),
                              ![c].received = Append(@, Head(conns[c].tx)),
                              ![c].event = @ \/ conns[c].want_write]
    /\ UNCHANGED <<connects, server>>

\* shutdown of the sending side, or the end of the client.
Finish(c) ==
    /\ Connected(c) /\ conns[c].fin # "full"
    /\ \E how \in {"half", "full"} \ {conns[c].fin} :
          conns' = [conns EXCEPT ![c].fin = how, ![c].event = TRUE]
    /\ UNCHANGED <<connects, server>>

-----------------------------------------------------------------------------
(***************************************************************************)
(* The thread.                                                             *)
(***************************************************************************)
At(phase) == server.phase = phase
Goto(phase) == server' = [server EXCEPT !.phase = phase] /\ UNCHANGED connects
Polling == [phase |-> "poll", conn |-> None]
Done == server' = Polling /\ UNCHANGED connects
Stay == UNCHANGED <<connects, server>>
Set(x) == conns' = [conns EXCEPT ![server.conn] = x]
Self == conns[server.conn]

\* conns.remove(&token): buffers are gone, what the socket holds is still sent.
Dropped(x) == [x EXCEPT !.status = "closed", !.write_buf = <<>>, !.write_pos = 0,
                        !.want_write = FALSE, !.event = FALSE]
Close == Set(Dropped(Self)) /\ Done
ForceClose == Set(Dropped([Self EXCEPT !.forced = TRUE])) /\ Done

\* The listener's event.  A connection that cannot be registered is dropped; an
\* error of accept leaves it waiting for the listener's next event.
Accept(c) ==
    /\ At("poll")
    /\ conns[c].status = "backlog"
    /\ \/ conns' = [conns EXCEPT ![c].status = "open", ![c].unarmed = FALSE,
                                 ![c].event = Readable(conns[c])]
       \/ conns' = [conns EXCEPT ![c] = Dropped(@)]
       \/ conns' = [conns EXCEPT ![c].unarmed = TRUE]
    /\ Stay

\* A wakeup that is only WRITABLE goes to flush_writes, any other to
\* service_connection.
Poll(c) ==
    /\ At("poll")
    /\ conns[c].status = "open" /\ conns[c].event
    /\ conns' = [conns EXCEPT ![c].event = FALSE]
    /\ server' = IF Readable(conns[c]) THEN [phase |-> "read", conn |-> c]
                 ELSE IF conns[c].want_write /\ Writable(conns[c])
                      THEN [phase |-> "flush", conn |-> c]
                      ELSE server
    /\ UNCHANGED connects

\* No event within SHUTDOWN_CHECK_INTERVAL: the loop turns, sweeps, polls again.
PollTimeout == At("poll") /\ UNCHANGED vars

\* Faulty variant of Read: one read per event.
ReadOnce ==
    /\ At("read")
    /\ \/ Self.read < Self.sent /\ Set([Self EXCEPT !.read = @ + 1]) /\ Goto("parse")
       \/ Self.read = Self.sent /\ Self.fin = "no" /\ UNCHANGED conns /\ Goto("parse")
       \/ Self.read = Self.sent /\ Self.fin # "no" /\ Close

\* Reads until the socket is empty; at the end of the stream the connection
\* goes, with all that is in its buffers.
Read ==
    /\ At("read")
    /\ \/ Self.fin = "no" /\ Set([Self EXCEPT !.read = Self.sent]) /\ Goto("parse")
       \/ Self.fin # "no" /\ Close

\* parse_command at the front of read_buf.
Index == Self.parsed \div Size + 1
Complete(k) == Self.read >= Self.parsed + Size /\ Self.kinds[Index] = k
Invalid == Self.read > Self.parsed /\ Self.kinds[Index] = "bad"
Incomplete == Self.read < Self.parsed + Size /\ ~Invalid

Answered(x, i) == [x EXCEPT !.write_buf = @ \o Reply(i), !.owed = @ \o Reply(i)]
Consumed(x) == [x EXCEPT !.parsed = @ + Size]

Execute ==
    /\ At("parse") /\ Complete("command")
    /\ Set(Consumed(Answered(Self, Index)))
    /\ Stay

Skip ==
    /\ At("parse") /\ Complete("blank")
    /\ Set(Consumed(Self))
    /\ Stay

Quit ==
    /\ At("parse") /\ Complete("quit")
    /\ Set([Consumed(Answered(Self, Index)) EXCEPT !.close_after_flush = TRUE])
    /\ Goto("limit")

\* read_buf keeps the bytes that do not parse.
ProtocolError ==
    /\ At("parse") /\ Invalid
    /\ Set([Answered(Self, Index) EXCEPT !.close_after_flush = TRUE])
    /\ Goto("limit")

\* The fence around service_connection drops this connection only.
Panic ==
    /\ At("parse") /\ Complete("panic")
    /\ ForceClose

ParseEnd == At("parse") /\ Incomplete /\ UNCHANGED conns /\ Goto("limit")

\* Faulty variant of Limit: no cap.
LimitNone == At("limit") /\ UNCHANGED conns /\ Goto("flush")

\* MAX_PENDING_WRITE_BYTES.
Limit ==
    /\ At("limit")
    /\ \/ Len(Unsent(server.conn)) > MaxPending /\ ForceClose
       \/ Len(Unsent(server.conn)) <= MaxPending /\ UNCHANGED conns /\ Goto("flush")

-----------------------------------------------------------------------------
(***************************************************************************)
(* flush_writes and reconcile_interest.                                    *)
(***************************************************************************)
Write ==
    /\ At("flush") /\ Unsent(server.conn) # <<>> /\ Self.fin # "full"
    /\ \E n \in 1..Len(Unsent(server.conn)) :
          /\ Len(Self.tx) + n <= SocketRoom
          /\ Set([Self EXCEPT !.tx = @ \o SubSeq(Unsent(server.conn), 1, n),
                              !.write_pos = @ + n])
    /\ Stay

\* Faulty variant of Reclaimed: the cursor is not reset.
ReclaimKeepingPos(x) ==
    IF x.write_pos < Reclaim THEN x
    ELSE [x EXCEPT !.write_buf = SubSeq(@, x.write_pos + 1, Len(@))]

Reclaimed(x) ==
    IF x.write_pos < Reclaim THEN x
    ELSE [x EXCEPT !.write_buf = SubSeq(@, x.write_pos + 1, Len(@)), !.write_pos = 0]

\* Faulty variant of WouldBlock: a connection whose reply does not fit is given up.
WouldBlockClosing ==
    /\ At("flush") /\ Unsent(server.conn) # <<>> /\ Self.fin # "full"
    /\ Len(Self.tx) = SocketRoom
    /\ Close

\* FlushOutcome::Pending
WouldBlock ==
    /\ At("flush") /\ Unsent(server.conn) # <<>> /\ Self.fin # "full"
    /\ Len(Self.tx) = SocketRoom
    /\ Set(Reclaimed(Self))
    /\ Goto("reconcile")

\* FlushOutcome::Failed
WriteFails ==
    /\ At("flush") /\ Unsent(server.conn) # <<>> /\ Self.fin = "full"
    /\ Close

\* FlushOutcome::Drained
Drained ==
    /\ At("flush") /\ Unsent(server.conn) = <<>>
    /\ \/ Self.close_after_flush /\ Close
       \/ /\ ~Self.close_after_flush
          /\ Set([Self EXCEPT !.write_buf = <<>>, !.write_pos = 0])
          /\ Goto("reconcile")

NeedsWrite == Unsent(server.conn) # <<>>

\* Faulty variant of Reregistered: the flag alone.
FlagOnly == [Self EXCEPT !.want_write = NeedsWrite, !.unarmed = FALSE]

\* A new registration reports at once what is ready.
Reregistered ==
    [Self EXCEPT !.want_write = NeedsWrite, !.unarmed = FALSE,
                 !.event = @ \/ Readable(Self) \/ (NeedsWrite /\ Writable(Self))]

Reconcile ==
    /\ At("reconcile")
    /\ \/ NeedsWrite = Self.want_write /\ UNCHANGED conns
       \/ NeedsWrite # Self.want_write /\ Set(Reregistered)
       \/ NeedsWrite # Self.want_write /\ Set([Self EXCEPT !.unarmed = TRUE])
    /\ Done

-----------------------------------------------------------------------------
Init ==
    /\ conns = [c \in Conns |-> New("closed")]
    /\ connects = 0
    /\ server = Polling

Step ==
    \/ Read \/ Execute \/ Skip \/ Quit \/ ProtocolError \/ Panic \/ ParseEnd \/ Limit
    \/ Write \/ WouldBlock \/ WriteFails \/ Drained \/ Reconcile

Next ==
    \/ \E c \in Conns :
          Connect(c) \/ Send(c) \/ Receive(c) \/ Finish(c) \/ Accept(c) \/ Poll(c)
    \/ PollTimeout \/ Step

Fairness ==
    /\ WF_vars(Step)
    /\ \A c \in Conns : /\ SF_vars(Accept(c)) /\ SF_vars(Poll(c))
                      /\ WF_vars(Receive(c))

\* The thread does its work, every connection with an event gets its turn, and
\* clients that are still there read what they are sent.
Spec == Init /\ [][Next]_vars /\ Fairness

-----------------------------------------------------------------------------
(***************************************************************************)
(* Properties.                                                             *)
(***************************************************************************)
Phase == {"poll", "read", "parse", "limit", "flush", "reconcile"}

\* Every variable has its type, and what was parsed was read, and what was read
\* was sent.
TypeOK ==
    /\ conns \in [Conns -> Conn] /\ connects \in 0..MaxConnects
    /\ \A c \in Conns : /\ conns[c].parsed <= conns[c].read /\ conns[c].read <= conns[c].sent
                       /\ conns[c].write_pos <= Len(conns[c].write_buf)
    /\ server \in [phase : Phase, conn : Conns \cup {None}]
    /\ server.conn = None <=> server.phase = "poll"

\* The server gives up replies: its client has gone or has only finished sending
\* (Ok(0) closes at once, "or the client loses the answer it is still waiting
\* for"), or the panic fence or the limit on unsent bytes dropped the connection.
Forfeited(x) == x.fin # "no" \/ x.forced

\* A client receives the replies to its commands in order, whole and once,
\* however they are cut by full sockets, reclaimed prefixes and further
\* commands.  A connection is closed with every reply sent, those of QUIT and
\* of a protocol error included, unless its replies are forfeited: the client
\* then has the first part of them (flush_writes, close_after_flush).
RepliesExact ==
    \A c \in Conns :
        LET x == conns[c]
            out == x.received \o x.tx
        IN  IF x.status = "closed" /\ Forfeited(x)
            THEN Len(out) <= Len(x.owed) /\ out = SubSeq(x.owed, 1, Len(out))
            ELSE out \o Unsent(c) = x.owed

\* A connection whose client does not read holds a bounded buffer, the part
\* already sent included (MAX_PENDING_WRITE_BYTES, WRITE_PREFIX_RECLAIM_BYTES).
BufferBounded ==
    \A c \in Conns :
        server.conn # c => Len(conns[c].write_buf) < MaxPending + Reclaim

\* Every byte of a reply reaches its client, also when the socket drains between
\* the write that found it full and the registration for WRITABLE, and a
\* connection that is to be closed is closed.  The exceptions are replies that
\* are forfeited and a registration that fails.
RepliesFlushed ==
    \A c \in Conns :
        LET closing == conns[c].status = "open" /\ conns[c].close_after_flush
            owing(n) == Len(conns[c].owed) >= n /\ Len(conns[c].received) < n
        IN  /\ closing ~> ~closing \/ conns[c].unarmed
            /\ \A n \in 1..(Size * MaxCmds) :
                  owing(n) ~> ~owing(n) \/ Forfeited(conns[c]) \/ conns[c].unarmed

\* Every complete command that reaches the server is taken up, or its connection
\* is closed, whatever became of earlier connections, panics in their handlers
\* included; an accept or a registration that fails is the exception.
CommandsTaken ==
    \A c \in Conns, n \in 1..MaxCmds :
        LET waiting == /\ Connected(c)
                       /\ conns[c].sent >= n * Size /\ conns[c].parsed < n * Size
        IN  waiting ~> ~waiting \/ conns[c].unarmed

\* No command behind a QUIT is executed ("stop processing any further pipelined
\* commands").
NothingAfterQuit ==
    \A c \in Conns : \A i \in 1..Len(conns[c].kinds) :
        conns[c].kinds[i] = "quit" => conns[c].parsed <= i * Size
=============================================================================
