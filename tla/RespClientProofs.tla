-------------------------- MODULE RespClientProofs --------------------------
(***************************************************************************)
(* Proofs about RespClient: for any number of commands, with or without a  *)
(* password, the client sends a command at most twice, a second time only  *)
(* if nothing has been heard of the first, and never mixes two exchanges   *)
(* on a connection that has not outlived a failed attempt.                 *)
(***************************************************************************)
EXTENDS RespClient, SequenceTheorems, TLAPS

\* The command of the call is not yet on its way in the current attempt.
Unsent == call.phase \in {"dial", "auth", "auth_wait", "send"}

\* How often the server may still execute c, for the client or for nobody.
InFlight(c) == orphans[c] + IF OnWire(c) THEN 1 ELSE 0

\* Executions of c that have happened or may still happen without the client.
Copies(c) == execs[c] + InFlight(c)

\* Outside of dial a call has its connection; a dead one holds no commands.
ConnectionInv ==
    /\ InCall => call.cmd \in Cmds /\ (held <=> call.phase # "dial")
    /\ ~alive => wire = <<>>
    /\ InCall => (call.retry <=> call.cmd \notin single)
    /\ call.attempt = 2 => call.retry

\* On a reused connection, bytes heard in the first attempt stay in the buffer
\* until the call ends, which is how Io and Closed tell that there were none.
HeardInv ==
    /\ ~InCall => ~heard
    /\ InCall /\ call.attempt = 1 /\ call.reused => call.phase \in {"send", "wait"}
    /\ call.attempt = 1 /\ call.reused /\ heard => call.phase = "wait" /\ read_buf # <<>>
    /\ RetryOnlyUnanswered

\* A connection carries a command once, and there are no more copies of it than
\* its attempts allow; a command not yet issued has none.
CopiesInv ==
    /\ \A i, j \in 1..Len(wire) : wire[i] = wire[j] /\ wire[i] # Auth => i = j
    /\ \A c \in Cmds : Copies(c) <= IF c \in single THEN 1 ELSE 2
    /\ \A c \in Cmds : c > call.cmd => Copies(c) = 0 /\ c \notin single

\* Before the command is sent in an attempt, it is not on the connection, and
\* earlier attempts have left fewer copies than there are attempts.
AttemptInv ==
    InCall =>
        /\ Unsent => ~OnWire(call.cmd) /\ Copies(call.cmd) < call.attempt
        /\ call.attempt = 1 => Copies(call.cmd) <= 1

\* The exchange on a connection that has not outlived a failed attempt: nothing
\* between exchanges, one command or at most one reply to it during one.
ExchangeInv ==
    held /\ ~kept =>
        /\ wire # <<>> \/ read_buf # <<>> \/ socket # <<>> => Waiting
        /\ wire # <<>> => wire = <<Pending>> /\ read_buf = <<>> /\ socket = <<>>
        /\ Len(read_buf) + Len(socket) <= 2
        /\ \A i \in 1..Len(socket) : socket[i].cmd = Pending
        /\ \A i \in 1..Len(read_buf) : read_buf[i].cmd = Pending

IndInv == TypeOK /\ ConnectionInv /\ HeardInv /\ CopiesInv /\ AttemptInv /\ ExchangeInv

USE ClientAssumption DEF clientVars, netVars, ghostVars, InCall, Auth

-----------------------------------------------------------------------------
(***************************************************************************)
(* Types.                                                                  *)
(***************************************************************************)
CallType ==
    [cmd : 0..MaxCmds, retry : BOOLEAN, attempt : {1, 2}, reused : BOOLEAN, phase : Phase]

LEMMA DropTypes ==
    ASSUME IndInv, Drop
    PROVE  /\ held' \in BOOLEAN /\ alive' \in BOOLEAN /\ kept' \in BOOLEAN
           /\ read_buf' \in Seq(Token) /\ socket' \in Seq(Token) /\ wire' \in Seq(0..MaxCmds)
           /\ orphans' \in [Cmds -> Nat]
           /\ ~held' /\ read_buf' = <<>> /\ socket' = <<>> /\ wire' = <<>> /\ ~alive' /\ ~kept'
<1>1. orphans' \in [Cmds -> Nat]
  <2>1. \A c \in Cmds : orphans[c] + (IF alive /\ OnWire(c) THEN 1 ELSE 0) \in Nat
    BY DEF IndInv, TypeOK
  <2> QED  BY <2>1 DEF Drop
<1>2. held' \in BOOLEAN /\ alive' \in BOOLEAN /\ kept' \in BOOLEAN  BY Zenon DEF Drop
<1> QED  BY <1>1, <1>2 DEF Drop

LEMMA ReturnTypes ==
    ASSUME IndInv, NEW outcome \in Outcome, NEW of \in 0..MaxCmds, Return(outcome, of)
    PROVE  /\ call' \in CallType /\ call'.cmd = call.cmd /\ call'.retry = call.retry
           /\ call'.attempt = call.attempt /\ call'.reused = call.reused /\ call'.phase = "idle"
           /\ result' \in [Cmds -> Outcome] /\ answer' \in [Cmds -> 0..MaxCmds]
           /\ heard' \in BOOLEAN /\ ~heard'
<1>1. call \in CallType /\ "idle" \in Phase  BY DEF IndInv, TypeOK, CallType, Phase
<1>2. /\ call' \in CallType /\ call'.cmd = call.cmd /\ call'.retry = call.retry
      /\ call'.attempt = call.attempt /\ call'.reused = call.reused /\ call'.phase = "idle"
  BY <1>1 DEF Return, CallType
<1>3. result' \in [Cmds -> Outcome] /\ answer' \in [Cmds -> 0..MaxCmds]
  BY DEF IndInv, TypeOK, Return
<1>4. heard' \in BOOLEAN /\ ~heard'  BY Zenon DEF Return
<1> QED  BY <1>2, <1>3, <1>4

-----------------------------------------------------------------------------
(***************************************************************************)
(* Counting copies.                                                        *)
(***************************************************************************)
LEMMA CopiesType ==
    ASSUME TypeOK, NEW c \in Cmds
    PROVE  /\ execs[c] \in Nat /\ orphans[c] \in Nat /\ InFlight(c) \in Nat
           /\ Copies(c) \in Nat /\ execs[c] <= Copies(c)
<1>1. execs[c] \in Nat /\ orphans[c] \in Nat  BY DEF TypeOK
<1>2. InFlight(c) \in Nat  BY <1>1 DEF InFlight
<1> QED  BY <1>1, <1>2 DEF Copies

LEMMA CopiesTypeNext == ASSUME TypeOK', NEW c \in Cmds PROVE Copies(c)' \in Nat
<1>1. execs'[c] \in Nat /\ orphans'[c] \in Nat  BY DEF TypeOK
<1>2. InFlight(c)' \in Nat  BY <1>1 DEF InFlight
<1> QED  BY <1>1, <1>2 DEF Copies

\* As long as nothing is sent there are no more copies than before.
LEMMA FewerCopies ==
    ASSUME IndInv, TypeOK', UNCHANGED single, call'.cmd = call.cmd,
           \A c \in Cmds : Copies(c)' <= Copies(c),
           \A i, j \in 1..Len(wire') : wire'[i] = wire'[j] /\ wire'[i] # Auth => i = j
    PROVE  CopiesInv'
<1>1. ASSUME NEW c \in Cmds PROVE Copies(c)' \in Nat /\ Copies(c) \in Nat
  BY CopiesType, CopiesTypeNext DEF IndInv
<1>2. ASSUME NEW c \in Cmds PROVE Copies(c)' <= IF c \in single' THEN 1 ELSE 2
  BY <1>1 DEF IndInv, CopiesInv
<1>3. ASSUME NEW c \in Cmds, c > call'.cmd PROVE Copies(c)' = 0 /\ c \notin single'
  <2>1. Copies(c) = 0 /\ c \notin single  BY <1>3 DEF IndInv, CopiesInv
  <2> QED  BY <1>1, <2>1
<1> QED  BY <1>2, <1>3 DEF CopiesInv

\* A step of the client alone changes no copy.
LEMMA QuietCopies ==
    ASSUME IndInv, UNCHANGED <<execs, single, wire, orphans>>, call'.cmd = call.cmd
    PROVE  CopiesInv' /\ \A c \in Cmds : Copies(c)' = Copies(c) /\ (OnWire(c)' <=> OnWire(c))
<1>1. \A c \in Cmds : Copies(c)' = Copies(c) /\ (OnWire(c)' <=> OnWire(c))
  BY DEF Copies, InFlight, OnWire
<1> QED  BY <1>1 DEF IndInv, CopiesInv

\* Nor does the call then see more of its own.
LEMMA FewerInAttempt ==
    ASSUME IndInv, TypeOK', UNCHANGED call,
           \A c \in Cmds : Copies(c)' <= Copies(c),
           \A c \in Cmds : OnWire(c)' => OnWire(c)
    PROVE  AttemptInv'
<1> SUFFICES ASSUME InCall PROVE AttemptInv'  BY DEF AttemptInv
<1>1. PICK c \in Cmds : c = call.cmd /\ c = call'.cmd  BY DEF IndInv, ConnectionInv
<1>2. Copies(c)' <= Copies(c) /\ Copies(c) \in Nat /\ Copies(c)' \in Nat
  BY CopiesType, CopiesTypeNext DEF IndInv
<1>3. call.attempt \in {1, 2}  BY DEF IndInv, TypeOK
<1>4. Unsent => ~OnWire(c)' /\ Copies(c)' < call.attempt
  BY <1>1, <1>2, <1>3 DEF IndInv, AttemptInv
<1>5. call.attempt = 1 => Copies(c)' <= 1  BY <1>1, <1>2 DEF IndInv, AttemptInv
<1> QED  BY <1>1, <1>4, <1>5 DEF AttemptInv, Unsent

-----------------------------------------------------------------------------
(***************************************************************************)
(* The ends of an attempt.                                                 *)
(***************************************************************************)
\* A dropped connection leaves no state, and no copy that was not there.
LEMMA DropStep ==
    ASSUME IndInv, Drop, UNCHANGED execs
    PROVE  /\ ExchangeInv'
           /\ \A c \in Cmds : Copies(c)' <= Copies(c) /\ ~OnWire(c)'
           /\ \A i, j \in 1..Len(wire') : wire'[i] = wire'[j] /\ wire'[i] # Auth => i = j
<1>1. wire' = <<>> /\ ~held'  BY DropTypes
<1>2. ASSUME NEW c \in Cmds PROVE ~OnWire(c)'  BY <1>1 DEF OnWire
<1>3. ASSUME NEW c \in Cmds PROVE Copies(c)' <= Copies(c)
  <2>1. execs[c] \in Nat /\ orphans[c] \in Nat  BY CopiesType DEF IndInv
  <2>2. orphans'[c] = orphans[c] + IF alive /\ OnWire(c) THEN 1 ELSE 0  BY DEF Drop
  <2>3. Copies(c)' = execs[c] + orphans'[c]  BY <1>2, <2>1, <2>2 DEF Copies, InFlight
  <2> QED  BY <2>1, <2>2, <2>3 DEF Copies, InFlight
<1>4. ExchangeInv'  BY <1>1 DEF ExchangeInv
<1> QED  BY <1>1, <1>2, <1>3, <1>4

\* The first attempt ends and a second one begins: nothing was heard of the
\* first, of which the server may still have one copy.
LEMMA RetryStep ==
    ASSUME IndInv, InCall, NEW err, Retryable(err), Drop,
           call' = [call EXCEPT !.attempt = 2, !.phase = "dial"],
           UNCHANGED <<result, answer, heard, up, execs, single>>,
           err \in {"Io", "Closed"} => read_buf = <<>>,
           err = "Connect" => call.phase = "dial"
    PROVE  IndInv'
<1>1. /\ call' \in CallType /\ call'.cmd = call.cmd /\ call'.retry = call.retry
      /\ call'.attempt = 2 /\ call'.reused = call.reused /\ call'.phase = "dial"
  BY DEF IndInv, TypeOK, CallType, Phase
<1>2. call.attempt = 1 /\ call.reused /\ call.retry  BY DEF Retryable
<1>3. err # "Connect"  BY <1>2 DEF IndInv, HeardInv
<1>4. read_buf = <<>>  BY <1>3 DEF Retryable
<1>5. ~heard  BY <1>2, <1>4 DEF IndInv, HeardInv
<1>6. TypeOK'  BY <1>1, DropTypes DEF IndInv, TypeOK, CallType
<1>7. call.cmd \in Cmds /\ (call.retry <=> call.cmd \notin single)  BY DEF IndInv, ConnectionInv
<1>8. ConnectionInv'  BY <1>1, <1>2, <1>7, DropTypes DEF ConnectionInv
<1>9. HeardInv'  BY <1>1, <1>5 DEF HeardInv, RetryOnlyUnanswered
<1>10. CopiesInv'  BY <1>1, <1>6, DropStep, FewerCopies
<1>11. AttemptInv'
  <2>1. PICK c \in Cmds : c = call.cmd /\ c = call'.cmd  BY <1>1, <1>7
  <2>2. Copies(c) <= 1 /\ Copies(c)' <= Copies(c) /\ ~OnWire(c)'
    BY <1>2, <2>1, DropStep DEF IndInv, AttemptInv
  <2>3. Copies(c) \in Nat /\ Copies(c)' \in Nat
    BY <1>6, CopiesType, CopiesTypeNext DEF IndInv
  <2>4. Copies(c)' < 2  BY <2>2, <2>3
  <2> QED  BY <1>1, <2>1, <2>2, <2>4 DEF AttemptInv
<1> QED  BY <1>1, <1>6, <1>8, <1>9, <1>10, <1>11, DropStep DEF IndInv

\* A call ends: nothing is promised about it any more but its copies.
LEMMA ReturnStep ==
    ASSUME IndInv, InCall, NEW outcome \in Outcome, NEW of \in 0..MaxCmds, Return(outcome, of),
           UNCHANGED single, ~alive' => wire' = <<>>
    PROVE  ConnectionInv' /\ HeardInv' /\ AttemptInv'
<1>1. ConnectionInv'  BY ReturnTypes DEF IndInv, ConnectionInv
<1>2. HeardInv'  BY ReturnTypes DEF HeardInv, RetryOnlyUnanswered
<1>3. AttemptInv'  BY ReturnTypes DEF AttemptInv
<1> QED  BY <1>1, <1>2, <1>3

LEMMA FailStep ==
    ASSUME IndInv, InCall, NEW err \in Outcome, AttemptFails(err),
           err \in {"Io", "Closed"} => read_buf = <<>>,
           err = "Connect" => call.phase = "dial"
    PROVE  IndInv'
<1>1. UNCHANGED <<up, execs, single>>  BY DEF AttemptFails
<1>2. CASE Retryable(err)
  <2>1. Drop  BY <1>2 DEF AttemptFails, Retryable
  <2>2. call' = [call EXCEPT !.attempt = 2, !.phase = "dial"] /\ UNCHANGED <<result, answer, heard>>
    BY <1>2 DEF AttemptFails
  <2> QED  BY <1>1, <1>2, <2>1, <2>2, RetryStep
<1>3. CASE ~Retryable(err)
  <2>1. Return(err, Auth) /\ Auth \in 0..MaxCmds  BY <1>3 DEF AttemptFails
  <2>2. CASE Drop
    <3>1. TypeOK'  BY <1>1, <2>1, <2>2, DropTypes, ReturnTypes DEF IndInv, TypeOK, CallType
    <3>2. CopiesInv' /\ ExchangeInv'
      BY <1>1, <2>1, <2>2, <3>1, ReturnTypes, DropStep, FewerCopies
    <3>3. ConnectionInv' /\ HeardInv' /\ AttemptInv'
      BY <1>1, <2>1, <2>2, DropTypes, ReturnStep
    <3> QED  BY <3>1, <3>2, <3>3 DEF IndInv
  <2>3. CASE Keep /\ ~(call.attempt = 1 \/ call.phase \in {"dial", "auth", "auth_wait"})
    <3>1. UNCHANGED <<held, read_buf, wire, socket, alive, orphans>> /\ kept'
          /\ kept' \in BOOLEAN
      BY <2>3, Zenon DEF Keep
    <3>2. held  BY <2>3 DEF IndInv, ConnectionInv
    <3>3. TypeOK'  BY <1>1, <2>1, <3>1, <3>2, ReturnTypes DEF IndInv, TypeOK, CallType
    <3>4. CopiesInv'  BY <1>1, <2>1, <3>1, ReturnTypes, QuietCopies
    <3>5. ExchangeInv'  BY <3>1 DEF ExchangeInv
    <3>6. ConnectionInv' /\ HeardInv' /\ AttemptInv'
      BY <1>1, <2>1, <3>1, ReturnStep DEF IndInv, ConnectionInv
    <3> QED  BY <3>3, <3>4, <3>5, <3>6 DEF IndInv
  <2> QED  BY <2>2, <2>3 DEF AttemptFails
<1> QED  BY <1>2, <1>3

-----------------------------------------------------------------------------
(***************************************************************************)
(* The steps of the client.                                                *)
(***************************************************************************)
\* Which error an action reports: Io and Closed mean an
\* empty buffer, Connect that there is none.
LEMMA FailureStep ==
    ASSUME IndInv, DialFails \/ SendFails \/ AuthRefused \/ ReadFails PROVE IndInv'
<1> USE DEF Outcome
<1>1. CASE DialFails  BY <1>1, FailStep DEF DialFails
<1>2. CASE SendFails
  <2>1. InCall  BY <1>2 DEF SendFails
  <2> QED  BY <1>2, <2>1, FailStep DEF SendFails
<1>3. CASE AuthRefused  BY <1>3, FailStep DEF AuthRefused
<1>4. CASE ReadFails
  <2>1. InCall  BY <1>4 DEF ReadFails, Waiting
  <2> QED  BY <1>4, <2>1, FailStep DEF ReadFails
<1> QED  BY <1>1, <1>2, <1>3, <1>4

\* A new command starts with no copies, between two exchanges.
LEMMA CallStep == ASSUME IndInv, NEW retry \in BOOLEAN, Call(retry) PROVE IndInv'
<1>0. call \in CallType /\ call.cmd < MaxCmds  BY DEF IndInv, TypeOK, CallType, Call
<1>1. PICK n \in Cmds : n = call.cmd + 1 /\ n > call.cmd /\ call.cmd \in 0..MaxCmds
  BY <1>0 DEF Cmds, CallType
<1>2. UNCHANGED <<held, read_buf, result, netVars, execs, answer, heard, kept>> /\ ~InCall
  BY DEF Call
<1>3. /\ call'.cmd = n /\ call'.retry = retry /\ call'.attempt = 1 /\ call'.reused = held
      /\ call'.phase = IF held THEN "send" ELSE "dial"
  BY <1>1 DEF Call
<1>4. call' \in CallType  BY <1>1 DEF IndInv, TypeOK, Call, CallType, Phase, Cmds
<1>5. single' = (IF retry THEN single ELSE single \cup {n})  BY <1>1 DEF Call
<1>6. Copies(n) = 0 /\ n \notin single  BY <1>1 DEF IndInv, CopiesInv
<1>7. TypeOK'
  <2>1. single' \subseteq Cmds  BY <1>1, <1>5 DEF IndInv, TypeOK
  <2> QED  BY <1>2, <1>4, <2>1 DEF IndInv, TypeOK, CallType
<1>8. ConnectionInv'
  BY <1>1, <1>2, <1>3, <1>5, <1>6 DEF IndInv, ConnectionInv, TypeOK
<1>9. HeardInv'
  BY <1>2, <1>3 DEF IndInv, HeardInv, RetryOnlyUnanswered, TypeOK
<1>10. \A c \in Cmds : Copies(c)' = Copies(c)  BY <1>2 DEF Copies, InFlight, OnWire
<1>11. CopiesInv'
  <2>1. ASSUME NEW c \in Cmds PROVE Copies(c)' <= IF c \in single' THEN 1 ELSE 2
    <3>1. CASE c = n  BY <1>6, <1>10, <3>1
    <3>2. CASE c # n  BY <1>5, <1>10, <3>2 DEF IndInv, CopiesInv
    <3> QED  BY <3>1, <3>2
  <2>2. ASSUME NEW c \in Cmds, c > call'.cmd PROVE Copies(c)' = 0 /\ c \notin single'
    <3>1. c > call.cmd /\ c # n  BY <1>1, <1>3, <2>2 DEF Cmds
    <3> QED  BY <1>5, <1>10, <3>1 DEF IndInv, CopiesInv
  <2> QED  BY <1>2, <2>1, <2>2 DEF IndInv, CopiesInv
<1>12. AttemptInv'
  <2>1. ~OnWire(n)
    <3>1. execs[n] \in Nat /\ orphans[n] \in Nat  BY <1>1, CopiesType DEF IndInv
    <3> QED  BY <1>6, <3>1 DEF Copies, InFlight
  <2>2. ~OnWire(n)' /\ Copies(n)' = 0  BY <1>1, <1>2, <1>6, <1>10, <2>1 DEF OnWire
  <2> QED  BY <1>3, <2>2 DEF AttemptInv
<1>13. ExchangeInv'
  <2>1. held /\ ~kept => wire = <<>> /\ read_buf = <<>> /\ socket = <<>>
    BY <1>2 DEF IndInv, ExchangeInv, Waiting
  <2> QED  BY <1>2, <2>1 DEF ExchangeInv
<1> QED  BY <1>7, <1>8, <1>9, <1>11, <1>12, <1>13 DEF IndInv

LEMMA DisconnectStep == ASSUME IndInv, disconnect PROVE IndInv'
<1>1. Drop /\ UNCHANGED <<call, result, up, execs, answer, single, heard>> /\ ~InCall
  BY DEF disconnect
<1>2. TypeOK'  BY <1>1, DropTypes DEF IndInv, TypeOK
<1>3. ConnectionInv' /\ HeardInv' /\ AttemptInv'
  BY <1>1, DropTypes DEF IndInv, ConnectionInv, HeardInv, AttemptInv, RetryOnlyUnanswered
<1>4. CopiesInv'  BY <1>1, <1>2, DropStep, FewerCopies
<1> QED  BY <1>1, <1>2, <1>3, <1>4, DropStep DEF IndInv

LEMMA DialStep == ASSUME IndInv, DialOk PROVE IndInv'
<1> DEFINE p == IF Password THEN "auth" ELSE "send"
<1>1. /\ call.phase = "dial" /\ UNCHANGED <<read_buf, result, wire, socket, up, orphans, ghostVars>>
      /\ held' /\ alive'
  BY DEF DialOk
<1>2. held' \in BOOLEAN /\ alive' \in BOOLEAN  BY Zenon DEF DialOk
<1>3. /\ call' \in CallType /\ call'.cmd = call.cmd /\ call'.retry = call.retry
      /\ call'.attempt = call.attempt /\ call'.reused = call.reused /\ call'.phase = p
  BY DEF DialOk, IndInv, TypeOK, CallType, Phase
<1>4. ~held /\ read_buf = <<>> /\ socket = <<>> /\ wire = <<>>
  BY <1>1 DEF IndInv, ConnectionInv, TypeOK
<1>5. TypeOK'  BY <1>1, <1>2, <1>3 DEF IndInv, TypeOK, CallType
<1>6. ConnectionInv'  BY <1>1, <1>3, <1>4 DEF IndInv, ConnectionInv
<1>7. HeardInv'  BY <1>1, <1>3 DEF IndInv, HeardInv, RetryOnlyUnanswered
<1>8. CopiesInv'  BY <1>1, <1>3, QuietCopies
<1>9. AttemptInv'
  BY <1>1, <1>3 DEF IndInv, AttemptInv, Copies, InFlight, OnWire, Unsent
<1>10. ExchangeInv'  BY <1>1, <1>4 DEF ExchangeInv
<1> QED  BY <1>5, <1>6, <1>7, <1>8, <1>9, <1>10 DEF IndInv

\* The command is put on the wire once per attempt, after whatever an earlier
\* attempt had sent is known to be gone.
LEMMA SendStep == ASSUME IndInv, Send PROVE IndInv'
<1>0. call \in CallType /\ wire \in Seq(0..MaxCmds)  BY DEF IndInv, TypeOK, CallType
<1>1. /\ call.phase \in {"auth", "send"} /\ read_buf = <<>>
      /\ UNCHANGED <<held, read_buf, result, alive, socket, up, orphans, ghostVars>>
  BY DEF Send
<1>2. held /\ call.cmd \in Cmds /\ ~OnWire(call.cmd) /\ Copies(call.cmd) < call.attempt
  BY <1>1 DEF IndInv, ConnectionInv, AttemptInv, Unsent
<1>3. PICK p \in 0..MaxCmds : p = Pending
  BY <1>0 DEF CallType, Pending
<1>4. /\ call' \in CallType /\ call'.cmd = call.cmd /\ call'.retry = call.retry
      /\ call'.attempt = call.attempt /\ call'.reused = call.reused
      /\ call'.phase = IF call.phase = "auth" THEN "auth_wait" ELSE "wait"
  BY <1>0 DEF Send, CallType, Phase
<1>5. p = IF call.phase = "auth" THEN Auth ELSE call.cmd  BY <1>1, <1>3 DEF Pending
<1>6. wire' = IF alive THEN Append(wire, p) ELSE wire  BY <1>3 DEF Send
<1>7. /\ wire' \in Seq(0..MaxCmds)
      /\ alive => /\ Len(wire') = Len(wire) + 1
                  /\ \A i \in 1..Len(wire) : wire'[i] = wire[i]
                  /\ wire'[Len(wire) + 1] = p
  <2>1. /\ Append(wire, p) \in Seq(0..MaxCmds)
        /\ Len(Append(wire, p)) = Len(wire) + 1
        /\ \A i \in 1..Len(wire) : Append(wire, p)[i] = wire[i]
        /\ Append(wire, p)[Len(wire) + 1] = p
    BY <1>0, <1>3, AppendProperties
  <2>2. CASE alive
    <3>1. wire' = Append(wire, p)  BY <1>6, <2>2
    <3> QED  BY <2>1, <3>1
  <2>3. CASE ~alive  BY <1>0, <1>6, <2>3
  <2> QED  BY <2>2, <2>3
<1>8. Len(wire) \in Nat  BY <1>0, LenProperties
<1>9. p # Auth => \A i \in 1..Len(wire) : wire[i] # p  BY <1>2, <1>5 DEF OnWire
<1>10. ASSUME NEW c \in Cmds
       PROVE  /\ c # p => (OnWire(c)' <=> OnWire(c)) /\ Copies(c)' = Copies(c)
              /\ Copies(c)' <= Copies(c) + 1
  <2>1. (c # p \/ ~alive) => (OnWire(c)' <=> OnWire(c))
    BY <1>1, <1>6, <1>7, <1>8 DEF OnWire
  <2>2. execs[c] \in Nat /\ orphans[c] \in Nat /\ UNCHANGED <<execs, orphans>>
    BY <1>1, CopiesType DEF IndInv
  <2> HIDE DEF OnWire
  <2>3. /\ c # p => Copies(c)' = Copies(c)
        /\ Copies(c)' <= Copies(c) + 1
    BY <2>1, <2>2 DEF Copies, InFlight
  <2> QED  BY <2>1, <2>3
<1>11. TypeOK'  BY <1>1, <1>2, <1>4, <1>7 DEF IndInv, TypeOK, CallType
<1>12. ConnectionInv'  BY <1>1, <1>2, <1>4, <1>6 DEF IndInv, ConnectionInv
<1>13. HeardInv'
  BY <1>1, <1>4 DEF IndInv, HeardInv, RetryOnlyUnanswered
<1>14. CopiesInv'
  <2>1. \A i, j \in 1..Len(wire') : wire'[i] = wire'[j] /\ wire'[i] # Auth => i = j
    <3>1. CASE ~alive  BY <1>6, <3>1 DEF IndInv, CopiesInv
    <3>2. CASE alive
      <4>1. \A i \in 1..Len(wire') : i \in 1..Len(wire) \/ i = Len(wire) + 1
        BY <1>7, <1>8, <3>2
      <4> QED  BY <1>7, <1>9, <3>2, <4>1 DEF IndInv, CopiesInv
    <3> QED  BY <3>1, <3>2
  <2>3. ASSUME NEW c \in Cmds PROVE Copies(c)' <= IF c \in single' THEN 1 ELSE 2
    <3>1. CASE c # p  BY <1>1, <1>10, <3>1 DEF IndInv, CopiesInv
    <3>2. CASE c = p
      <4>1. c = call.cmd  BY <1>5, <3>2 DEF Cmds
      <4>2. Copies(c)' \in Nat /\ Copies(c) \in Nat
        BY <1>11, CopiesType, CopiesTypeNext DEF IndInv
      <4>3. Copies(c) < call.attempt  BY <1>2, <4>1
      <4>4. call.attempt = 2 => c \notin single
        BY <1>1, <4>1 DEF IndInv, ConnectionInv
      <4>5. call.attempt \in {1, 2}  BY <1>0 DEF CallType
      <4> QED  BY <1>1, <1>10, <3>2, <4>2, <4>3, <4>4, <4>5
    <3> QED  BY <3>1, <3>2
  <2>4. ASSUME NEW c \in Cmds, c > call'.cmd PROVE Copies(c)' = 0 /\ c \notin single'
    <3>1. c # p /\ c > call.cmd  BY <1>2, <1>4, <1>5, <2>4 DEF Cmds
    <3> QED  BY <1>1, <1>10, <3>1 DEF IndInv, CopiesInv
  <2> QED  BY <2>1, <2>3, <2>4 DEF CopiesInv
<1>15. AttemptInv'
  <2>1. PICK c \in Cmds : c = call.cmd  BY <1>2
  <2>2. Copies(c) \in Nat /\ Copies(c)' \in Nat /\ call.attempt \in {1, 2}
    BY <1>0, <1>11, CopiesType, CopiesTypeNext DEF IndInv, CallType
  <2>3. CASE call.phase = "auth"
    <3>1. c # p  BY <1>5, <2>3 DEF Cmds
    <3>2. ~OnWire(c)' /\ Copies(c)' = Copies(c) /\ Copies(c) < call.attempt
      BY <1>2, <1>10, <2>1, <3>1
    <3>3. call.attempt = 1 => Copies(c)' <= 1  BY <2>2, <3>2
    <3> QED  BY <1>4, <2>1, <3>2, <3>3 DEF AttemptInv
  <2>4. CASE call.phase = "send"
    <3>1. Copies(c)' <= Copies(c) + 1 /\ Copies(c) < call.attempt  BY <1>2, <1>10, <2>1
    <3>2. call.attempt = 1 => Copies(c)' <= 1  BY <2>2, <3>1
    <3> QED  BY <1>4, <2>1, <2>4, <3>2 DEF AttemptInv, Unsent
  <2> QED  BY <1>1, <2>3, <2>4
<1>16. ExchangeInv'
  <2> SUFFICES ASSUME held, ~kept PROVE ExchangeInv'  BY <1>1 DEF ExchangeInv
  <2>1. wire = <<>> /\ socket = <<>>  BY <1>1 DEF IndInv, ExchangeInv, Waiting
  <2>2. Waiting' /\ Pending' = p  BY <1>1, <1>4, <1>5 DEF Waiting, Pending
  <2>3. wire' = <<p>> \/ wire' = <<>>  BY <1>6, <2>1
  <2> QED  BY <1>1, <2>1, <2>2, <2>3 DEF ExchangeInv
<1> QED  BY <1>11, <1>12, <1>13, <1>14, <1>15, <1>16 DEF IndInv

\* Part of a token sequence is a token sequence, with tokens of the same commands.
LEMMA SubTokens ==
    ASSUME NEW q \in Seq(Token), NEW m \in 1..(Len(q) + 1), NEW n \in (m - 1)..Len(q)
    PROVE  /\ SubSeq(q, m, n) \in Seq(Token) /\ Len(SubSeq(q, m, n)) = n - m + 1
           /\ \A i \in 1..(n - m + 1) : SubSeq(q, m, n)[i] = q[m + i - 1]
<1>1. Len(q) \in Nat /\ m \in Int /\ n \in Int /\ n - m + 1 \in Nat  BY LenProperties
<1>2. \A i \in m..n : q[i] \in Token  BY <1>1, ElementOfSeq
<1> QED  BY <1>1, <1>2, SubSeqProperties

\* Bytes move from the socket to the buffer; in the first attempt they count as
\* heard.
LEMMA ReadStep == ASSUME IndInv, Read PROVE IndInv'
<1>0. read_buf \in Seq(Token) /\ socket \in Seq(Token) /\ Len(socket) \in Nat /\ Len(read_buf) \in Nat
  BY LenProperties DEF IndInv, TypeOK
<1>1. /\ call.phase \in {"auth_wait", "wait"}
      /\ UNCHANGED <<held, call, result, alive, wire, up, orphans, execs, answer, single, kept>>
  BY DEF Read, Waiting
<1>2. PICK n \in 1..Len(socket) : /\ read_buf' = read_buf \o SubSeq(socket, 1, n)
                                  /\ socket' = SubSeq(socket, n + 1, Len(socket))
  BY DEF Read
<1>3. held  BY <1>1 DEF IndInv, ConnectionInv
<1> DEFINE got == SubSeq(socket, 1, n)
<1>4. got \in Seq(Token) /\ Len(got) = n /\ \A i \in 1..n : got[i] = socket[i]
  <2>1. 1 \in 1..(Len(socket) + 1) /\ n \in (1 - 1)..Len(socket)  BY <1>0
  <2>2. /\ SubSeq(socket, 1, n) \in Seq(Token) /\ Len(SubSeq(socket, 1, n)) = n - 1 + 1
        /\ \A i \in 1..(n - 1 + 1) : SubSeq(socket, 1, n)[i] = socket[1 + i - 1]
    BY <1>0, <2>1, SubTokens
  <2>3. n - 1 + 1 = n /\ \A i \in Int : 1 + i - 1 = i  BY <1>0
  <2> QED  BY <1>0, <2>2, <2>3
<1> HIDE DEF got
<1>5. /\ socket' \in Seq(Token) /\ Len(socket') = Len(socket) - n
      /\ \A i \in 1..(Len(socket) - n) : socket'[i] = socket[n + i]
  <2>1. n + 1 \in 1..(Len(socket) + 1) /\ Len(socket) \in (n + 1 - 1)..Len(socket)  BY <1>0
  <2>2. /\ socket' \in Seq(Token) /\ Len(socket') = Len(socket) - (n + 1) + 1
        /\ \A i \in 1..(Len(socket) - (n + 1) + 1) : socket'[i] = socket[n + 1 + i - 1]
    BY <1>0, <1>2, <2>1, SubTokens
  <2>3. \A i \in Int : n + 1 + i - 1 = n + i  OBVIOUS
  <2> QED  BY <1>0, <2>2, <2>3
<1>6. /\ read_buf' \in Seq(Token) /\ Len(read_buf') = Len(read_buf) + n
      /\ \A i \in 1..(Len(read_buf) + n) :
            read_buf'[i] = IF i <= Len(read_buf) THEN read_buf[i] ELSE got[i - Len(read_buf)]
  BY <1>0, <1>2, <1>4, ConcatProperties DEF got
<1>7. heard' \in BOOLEAN /\ heard' = (heard \/ call.attempt = 1)  BY DEF Read
<1>8. read_buf' # <<>>  BY <1>0, <1>6
<1>9. TypeOK'  BY <1>1, <1>3, <1>5, <1>6, <1>7 DEF IndInv, TypeOK
<1>10. ConnectionInv'  BY <1>1 DEF IndInv, ConnectionInv
<1>11. HeardInv'
  BY <1>1, <1>7, <1>8 DEF IndInv, HeardInv, RetryOnlyUnanswered, TypeOK
<1>12. CopiesInv' /\ AttemptInv'
  BY <1>1 DEF IndInv, CopiesInv, AttemptInv, Copies, InFlight, OnWire, Unsent
<1>13. ExchangeInv'
  <2> SUFFICES ASSUME held, ~kept PROVE ExchangeInv'  BY <1>1 DEF ExchangeInv
  <2>1. Waiting' /\ Pending' = Pending  BY <1>1 DEF Waiting, Pending
  <2>2. socket # <<>>  BY <1>2
  <2>3. wire' = <<>>  BY <1>1, <2>2 DEF IndInv, ExchangeInv
  <2>4. Len(read_buf') + Len(socket') <= 2
    BY <1>0, <1>5, <1>6 DEF IndInv, ExchangeInv
  <2>5. \A i \in 1..Len(socket') : socket'[i].cmd = Pending
    <3> SUFFICES ASSUME NEW i \in 1..Len(socket') PROVE socket'[i].cmd = Pending  OBVIOUS
    <3>1. n + i \in 1..Len(socket) /\ socket'[i] = socket[n + i]  BY <1>0, <1>5
    <3> QED  BY <3>1 DEF IndInv, ExchangeInv
  <2>6. \A i \in 1..Len(read_buf') : read_buf'[i].cmd = Pending
    <3> SUFFICES ASSUME NEW i \in 1..Len(read_buf') PROVE read_buf'[i].cmd = Pending  OBVIOUS
    <3>1. CASE i <= Len(read_buf)
      <4>1. i \in 1..Len(read_buf) /\ read_buf'[i] = read_buf[i]  BY <1>0, <1>6, <3>1
      <4> QED  BY <4>1 DEF IndInv, ExchangeInv
    <3>2. CASE ~(i <= Len(read_buf))
      <4>1. i \in 1..(Len(read_buf) + n)  BY <1>6
      <4>2. read_buf'[i] = got[i - Len(read_buf)]  BY <1>6, <3>2, <4>1
      <4>3. i - Len(read_buf) \in 1..n /\ i - Len(read_buf) \in 1..Len(socket)
        BY <1>0, <3>2, <4>1
      <4>4. read_buf'[i] = socket[i - Len(read_buf)]  BY <1>4, <4>2, <4>3
      <4> QED  BY <4>3, <4>4 DEF IndInv, ExchangeInv
    <3> QED  BY <3>1, <3>2
  <2> QED  BY <2>1, <2>3, <2>4, <2>5, <2>6 DEF ExchangeInv
<1> QED  BY <1>9, <1>10, <1>11, <1>12, <1>13 DEF IndInv

\* A complete reply is taken off the buffer; on a connection in good standing it
\* was the only thing on it.
LEMMA ParsedBuffer ==
    ASSUME IndInv, Parsed, read_buf' = SubSeq(read_buf, 3, Len(read_buf))
    PROVE  /\ read_buf' \in Seq(Token) /\ read_buf[1] \in Token
           /\ held /\ ~kept => read_buf' = <<>> /\ socket = <<>> /\ wire = <<>>
<1>0. read_buf \in Seq(Token) /\ socket \in Seq(Token) /\ Len(socket) \in Nat
      /\ Len(read_buf) \in Nat /\ Len(read_buf) >= 2
  BY LenProperties DEF IndInv, TypeOK, Parsed
<1>1. read_buf' \in Seq(Token)
  <2>1. 3 \in 1..(Len(read_buf) + 1) /\ Len(read_buf) \in (3 - 1)..Len(read_buf)  BY <1>0
  <2> QED  BY <1>0, <2>1, SubTokens
<1>2. read_buf[1] \in Token  BY <1>0
<1>3. ASSUME held, ~kept PROVE read_buf' = <<>> /\ socket = <<>> /\ wire = <<>>
  <2>1. Len(read_buf) = 2 /\ Len(socket) = 0
    <3>1. Len(read_buf) + Len(socket) <= 2  BY <1>3 DEF IndInv, ExchangeInv
    <3>2. \A m, n \in Nat : m >= 2 /\ m + n <= 2 => m = 2 /\ n = 0  OBVIOUS
    <3> QED  BY <1>0, <3>1, <3>2, Zenon
  <2>2. read_buf' = <<>>  BY <2>1, SubSeqEmpty
  <2>3. socket = <<>>  BY <1>0, <2>1
  <2>4. read_buf # <<>>  BY <1>0
  <2>5. wire = <<>>  BY <1>3, <2>4 DEF IndInv, ExchangeInv
  <2> QED  BY <2>2, <2>3, <2>5
<1> QED  BY <1>1, <1>2, <1>3

LEMMA CompleteStep == ASSUME IndInv, Complete PROVE IndInv'
<1>1. /\ call.phase = "wait" /\ Parsed /\ read_buf' = SubSeq(read_buf, 3, Len(read_buf))
      /\ UNCHANGED <<held, netVars, execs, single, kept>>
  BY DEF Complete
<1>2. PICK outcome \in {"Ok", "Server"} : Return(outcome, read_buf[1].cmd)  BY DEF Complete
<1>3. outcome \in Outcome /\ read_buf[1].cmd \in 0..MaxCmds
  BY <1>1, ParsedBuffer DEF Outcome, Token
<1>4. held  BY <1>1 DEF IndInv, ConnectionInv
<1>5. TypeOK'  BY <1>1, <1>2, <1>3, <1>4, ParsedBuffer, ReturnTypes DEF IndInv, TypeOK, CallType
<1>6. ConnectionInv' /\ HeardInv' /\ AttemptInv'
  BY <1>1, <1>2, <1>3, ReturnStep DEF IndInv, ConnectionInv
<1>7. CopiesInv'  BY <1>1, <1>2, <1>3, ReturnTypes, QuietCopies
<1>8. ExchangeInv'
  <2> SUFFICES ASSUME held, ~kept PROVE ExchangeInv'  BY <1>1 DEF ExchangeInv
  <2>1. read_buf' = <<>> /\ socket' = <<>> /\ wire' = <<>>  BY <1>1, ParsedBuffer
  <2> QED  BY <2>1 DEF ExchangeInv
<1> QED  BY <1>5, <1>6, <1>7, <1>8 DEF IndInv

LEMMA AuthStep == ASSUME IndInv, AuthComplete PROVE IndInv'
<1>1. /\ call.phase = "auth_wait" /\ Parsed /\ read_buf' = SubSeq(read_buf, 3, Len(read_buf))
      /\ UNCHANGED <<held, result, netVars, ghostVars>>
  BY DEF AuthComplete
<1>2. /\ call' \in CallType /\ call'.cmd = call.cmd /\ call'.retry = call.retry
      /\ call'.attempt = call.attempt /\ call'.reused = call.reused /\ call'.phase = "send"
  BY DEF AuthComplete, IndInv, TypeOK, CallType, Phase
<1>3. held  BY <1>1 DEF IndInv, ConnectionInv
<1>4. TypeOK'  BY <1>1, <1>2, <1>3, ParsedBuffer DEF IndInv, TypeOK, CallType
<1>5. ConnectionInv'  BY <1>1, <1>2 DEF IndInv, ConnectionInv
<1>6. HeardInv'  BY <1>1, <1>2 DEF IndInv, HeardInv, RetryOnlyUnanswered
<1>7. CopiesInv'  BY <1>1, <1>2, QuietCopies
<1>8. AttemptInv'  BY <1>1, <1>2 DEF IndInv, AttemptInv, Copies, InFlight, OnWire, Unsent
<1>9. ExchangeInv'
  <2> SUFFICES ASSUME held, ~kept PROVE ExchangeInv'  BY <1>1 DEF ExchangeInv
  <2>1. read_buf' = <<>> /\ socket' = <<>> /\ wire' = <<>>  BY <1>1, ParsedBuffer
  <2> QED  BY <2>1 DEF ExchangeInv
<1> QED  BY <1>4, <1>5, <1>6, <1>7, <1>8, <1>9 DEF IndInv

-----------------------------------------------------------------------------
(***************************************************************************)
(* The steps of the server.                                                *)
(***************************************************************************)
\* An execution turns a copy in flight into an execution.
LEMMA ExecutedCopies ==
    ASSUME IndInv, NEW c \in Cmds, Executed(c), InFlight(c)' = InFlight(c) - 1,
           \A d \in Cmds \ {c} : InFlight(d)' = InFlight(d)
    PROVE  execs' \in [Cmds -> Nat] /\ \A d \in Cmds : Copies(d)' <= Copies(d)
<1>1. execs \in [Cmds -> Nat] /\ c # Auth  BY DEF IndInv, TypeOK, Cmds
<1>2. execs' = [execs EXCEPT ![c] = execs[c] + 1]  BY <1>1 DEF Executed
<1>3. execs' \in [Cmds -> Nat] /\ execs'[c] = execs[c] + 1
      /\ \A d \in Cmds \ {c} : execs'[d] = execs[d]
  BY <1>1, <1>2
<1>4. ASSUME NEW d \in Cmds PROVE Copies(d)' <= Copies(d)
  <2>1. InFlight(d) \in Nat /\ execs[d] \in Nat  BY CopiesType DEF IndInv
  <2>2. CASE d = c  BY <1>3, <2>1, <2>2 DEF Copies
  <2>3. CASE d # c
    <3>1. InFlight(d)' = InFlight(d) /\ execs'[d] = execs[d]  BY <1>3, <2>3
    <3> QED  BY <2>1, <3>1 DEF Copies
  <2> QED  BY <2>2, <2>3
<1> QED  BY <1>3, <1>4

LEMMA ExecuteStep == ASSUME IndInv, Execute PROVE IndInv'
<1>0. wire \in Seq(0..MaxCmds) /\ wire # <<>> /\ socket \in Seq(Token)
  BY DEF IndInv, TypeOK, Execute
<1>1. PICK c \in 0..MaxCmds : c = Head(wire)  BY <1>0, HeadTailProperties
<1>2. /\ Executed(c) /\ wire' = Tail(wire) /\ socket' = socket \o Reply(c) /\ alive
      /\ UNCHANGED <<clientVars, alive, up, orphans, answer, single, heard, kept>>
  BY <1>1 DEF Execute
<1>3. /\ wire' \in Seq(0..MaxCmds) /\ Len(wire') = Len(wire) - 1 /\ Len(wire) \in Nat \ {0}
      /\ \A i \in 1..Len(wire') : wire'[i] = wire[i + 1]
  BY <1>0, <1>2, HeadTailProperties, EmptySeq
<1>4. wire[1] = c  BY <1>0, <1>1
<1>5. /\ Reply(c) \in Seq(Token) /\ Len(Reply(c)) = 2
      /\ \A i \in 1..2 : Reply(c)[i].cmd = c
  <2>1. [cmd |-> c, part |-> "head"] \in Token /\ [cmd |-> c, part |-> "tail"] \in Token
    BY DEF Token
  <2>2. Reply(c) \in Seq(Token)
    <3> HIDE DEF Token
    <3> QED  BY <2>1 DEF Reply
  <2>3. Len(Reply(c)) = 2 /\ Reply(c)[1].cmd = c /\ Reply(c)[2].cmd = c  BY DEF Reply
  <2>4. \A i \in 1..2 : i = 1 \/ i = 2  OBVIOUS
  <2> QED  BY <2>2, <2>3, <2>4
<1>6. socket' \in Seq(Token)  BY <1>0, <1>2, <1>5, ConcatProperties
<1>7. held  BY <1>2 DEF IndInv, TypeOK
<1>8. \A d \in Cmds \ {c} : OnWire(d)' <=> OnWire(d)
  <2> SUFFICES ASSUME NEW d \in Cmds \ {c}
               PROVE  (\E i \in 1..Len(wire') : wire'[i] = d)
                        <=> (\E i \in 1..Len(wire) : wire[i] = d)
    BY DEF OnWire
  <2>1. ASSUME NEW i \in 1..Len(wire') PROVE i + 1 \in 1..Len(wire) /\ wire'[i] = wire[i + 1]
    BY <1>3
  <2>2. ASSUME NEW i \in 1..Len(wire), wire[i] = d
        PROVE  i - 1 \in 1..Len(wire') /\ wire'[i - 1] = d
    <3>1. i # 1  BY <1>4, <2>2
    <3>2. i - 1 \in 1..Len(wire') /\ (i - 1) + 1 = i  BY <1>3, <3>1
    <3> QED  BY <1>3, <2>2, <3>2
  <2> QED  BY <2>1, <2>2
<1>9. c # Auth => OnWire(c) /\ ~OnWire(c)'
  <2> SUFFICES ASSUME c # Auth PROVE OnWire(c) /\ ~OnWire(c)'  OBVIOUS
  <2>1. 1 \in 1..Len(wire)  BY <1>3
  <2>2. ASSUME NEW i \in 1..Len(wire'), wire'[i] = c PROVE FALSE
    <3>1. i + 1 \in 1..Len(wire) /\ wire[i + 1] = c /\ i + 1 # 1  BY <1>3, <2>2
    <3> QED  BY <1>4, <2>1, <3>1 DEF IndInv, CopiesInv
  <2> QED  BY <1>4, <2>1, <2>2 DEF OnWire
<1>10. execs' \in [Cmds -> Nat] /\ \A d \in Cmds : Copies(d)' <= Copies(d)
  <2>0. \A d \in Cmds : orphans'[d] = orphans[d] /\ orphans[d] \in Nat
    BY <1>2, CopiesType DEF IndInv
  <2>1. \A d \in Cmds \ {c} : InFlight(d)' = InFlight(d)  BY <1>8, <2>0 DEF InFlight
  <2>2. CASE c = Auth
    <3>1. execs' = execs /\ c \notin Cmds  BY <1>2, <2>2 DEF Executed, Cmds
    <3>2. \A d \in Cmds : Copies(d)' = Copies(d) /\ Copies(d) \in Nat
      BY <2>1, <3>1, CopiesType DEF IndInv, Copies
    <3> QED  BY <3>1, <3>2 DEF IndInv, TypeOK
  <2>3. CASE c # Auth
    <3>1. c \in Cmds  BY <2>3 DEF Cmds
    <3>2. InFlight(c)' = InFlight(c) - 1  BY <1>9, <2>0, <2>3, <3>1 DEF InFlight
    <3> QED  BY <1>2, <2>1, <3>1, <3>2, ExecutedCopies
  <2> QED  BY <2>2, <2>3
<1>11. TypeOK'  BY <1>2, <1>3, <1>6, <1>7, <1>10 DEF IndInv, TypeOK
<1>12. ConnectionInv' /\ HeardInv'
  BY <1>2 DEF IndInv, ConnectionInv, HeardInv, RetryOnlyUnanswered
<1>13. CopiesInv' /\ AttemptInv'
  <2>1. \A d \in Cmds : OnWire(d)' => OnWire(d)
    <3>1. \A d \in Cmds : d = c => d # Auth  BY DEF Cmds
    <3> QED  BY <1>8, <1>9, <3>1
  <2>2. ASSUME NEW i \in 1..Len(wire'), NEW j \in 1..Len(wire'),
               wire'[i] = wire'[j], wire'[i] # Auth
        PROVE  i = j
    <3>1. /\ i + 1 \in 1..Len(wire) /\ wire'[i] = wire[i + 1]
          /\ j + 1 \in 1..Len(wire) /\ wire'[j] = wire[j + 1]
      BY <1>3
    <3>2. i + 1 = j + 1  BY <2>2, <3>1 DEF IndInv, CopiesInv
    <3> QED  BY <3>2
  <2>3. UNCHANGED <<call, single>>  BY <1>2
  <2> QED  BY <1>10, <1>11, <2>1, <2>2, <2>3, FewerCopies, FewerInAttempt
<1>14. ExchangeInv'
  <2> SUFFICES ASSUME held, ~kept PROVE ExchangeInv'  BY <1>2 DEF ExchangeInv
  <2>1. wire = <<Pending>> /\ read_buf = <<>> /\ socket = <<>> /\ Waiting
    BY <1>0 DEF IndInv, ExchangeInv
  <2>2. c = Pending /\ Len(wire') = 0  BY <1>3, <1>4, <2>1
  <2>3. wire' = <<>>  BY <1>3, <2>2, EmptySeq
  <2>4. socket' = Reply(c)  BY <1>2, <1>5, <2>1, ConcatEmptySeq
  <2>5. Waiting' /\ Pending' = c /\ read_buf' = <<>>  BY <1>2, <2>1, <2>2 DEF Waiting, Pending
  <2>6. Len(read_buf') + Len(socket') <= 2 /\ \A i \in 1..Len(socket') : socket'[i].cmd = c
    <3>1. Len(socket') = 2  BY <1>5, <2>4
    <3>2. Len(read_buf') = 0  BY <2>5
    <3>3. \A i \in 1..Len(socket') : socket'[i].cmd = c  BY <1>5, <2>4, <3>1
    <3> QED  BY <3>1, <3>2, <3>3
  <2>7. \A i \in 1..Len(read_buf') : read_buf'[i].cmd = c  BY <2>5
  <2> QED  BY <2>3, <2>5, <2>6, <2>7 DEF ExchangeInv
<1> QED  BY <1>11, <1>12, <1>13, <1>14 DEF IndInv

LEMMA OrphanStep == ASSUME IndInv, ExecuteOrphan PROVE IndInv'
<1>1. PICK c \in Cmds : /\ orphans[c] > 0 /\ Executed(c)
                        /\ orphans' = [orphans EXCEPT ![c] = orphans[c] - 1]
  BY DEF ExecuteOrphan
<1>2. UNCHANGED <<clientVars, alive, wire, socket, up, answer, single, heard, kept>>
  BY DEF ExecuteOrphan
<1>3. orphans \in [Cmds -> Nat]  BY DEF IndInv, TypeOK
<1>4. /\ orphans' \in [Cmds -> Nat] /\ orphans'[c] = orphans[c] - 1
      /\ \A d \in Cmds \ {c} : orphans'[d] = orphans[d]
  <2>1. orphans[c] - 1 \in Nat  BY <1>1, <1>3
  <2> QED  BY <1>1, <1>3, <2>1
<1>5. \A d \in Cmds : OnWire(d)' <=> OnWire(d)  BY <1>2 DEF OnWire
<1>6. execs' \in [Cmds -> Nat] /\ \A d \in Cmds : Copies(d)' <= Copies(d)
  <2>1. InFlight(c)' = InFlight(c) - 1  BY <1>3, <1>4, <1>5 DEF InFlight
  <2>2. \A d \in Cmds \ {c} : InFlight(d)' = InFlight(d)  BY <1>4, <1>5 DEF InFlight
  <2> QED  BY <1>1, <2>1, <2>2, ExecutedCopies
<1>7. TypeOK'  BY <1>2, <1>4, <1>6 DEF IndInv, TypeOK
<1>8. ConnectionInv' /\ HeardInv' /\ ExchangeInv'
  BY <1>2 DEF IndInv, ConnectionInv, HeardInv, RetryOnlyUnanswered, ExchangeInv, Waiting, Pending
<1>9. CopiesInv' /\ AttemptInv'
  <2>1. \A i, j \in 1..Len(wire') : wire'[i] = wire'[j] /\ wire'[i] # Auth => i = j
    BY <1>2 DEF IndInv, CopiesInv
  <2> QED  BY <1>2, <1>5, <1>6, <1>7, <2>1, FewerCopies, FewerInAttempt
<1> QED  BY <1>7, <1>8, <1>9 DEF IndInv

\* A connection that ends takes its commands and some of its replies with it.
LEMMA DisconnectedStep ==
    ASSUME IndInv, ServerCloses \/ ServerDown PROVE IndInv'
<1>1. /\ Disconnected /\ UNCHANGED <<clientVars, ghostVars>> /\ orphans' \in {orphans, NoOrphans}
      /\ up' \in BOOLEAN
  <2>1. CASE ServerCloses  BY <2>1 DEF ServerCloses, IndInv, TypeOK
  <2>2. CASE ServerDown
    <3>1. up' \in BOOLEAN  BY <2>2, Zenon DEF ServerDown
    <3> QED  BY <2>2, <3>1 DEF ServerDown
  <2> QED  BY <2>1, <2>2
<1>2. ~alive' /\ alive' \in BOOLEAN /\ wire' = <<>>  BY <1>1, Zenon DEF Disconnected
<1>3. socket \in Seq(Token) /\ Len(socket) \in Nat  BY LenProperties DEF IndInv, TypeOK
<1>4. PICK n \in 0..Len(socket) : socket' = SubSeq(socket, 1, n)  BY <1>1 DEF Disconnected
<1>5. /\ socket' \in Seq(Token) /\ Len(socket') = n
      /\ \A i \in 1..n : socket'[i] = socket[i]
  <2>1. 1 \in 1..(Len(socket) + 1) /\ n \in (1 - 1)..Len(socket)  BY <1>3
  <2>2. /\ socket' \in Seq(Token) /\ Len(socket') = n - 1 + 1
        /\ \A i \in 1..(n - 1 + 1) : socket'[i] = socket[1 + i - 1]
    BY <1>3, <1>4, <2>1, SubTokens
  <2>3. n - 1 + 1 = n /\ \A i \in Int : 1 + i - 1 = i  BY <1>3
  <2> QED  BY <1>3, <2>2, <2>3
<1>6. socket = <<>> => socket' = <<>>
  <2>1. socket = <<>> => n = 0  OBVIOUS
  <2> QED  BY <1>5, <2>1, EmptySeq
<1>7. TypeOK'
  <2>1. orphans' \in [Cmds -> Nat] /\ wire' \in Seq(0..MaxCmds)
    BY <1>1, <1>2 DEF IndInv, TypeOK, NoOrphans
  <2> QED  BY <1>1, <1>2, <1>5, <1>6, <2>1 DEF IndInv, TypeOK
<1>8. ConnectionInv' /\ HeardInv'
  BY <1>1, <1>2 DEF IndInv, ConnectionInv, HeardInv, RetryOnlyUnanswered
<1>9. \A c \in Cmds : ~OnWire(c)'  BY <1>2 DEF OnWire
<1>10. ASSUME NEW c \in Cmds PROVE Copies(c)' <= Copies(c)
  <2>1. execs[c] \in Nat /\ orphans[c] \in Nat /\ execs' = execs  BY <1>1, CopiesType DEF IndInv
  <2>2. orphans'[c] \in {orphans[c], 0}  BY <1>1 DEF NoOrphans
  <2>3. Copies(c)' = execs[c] + orphans'[c]  BY <1>9, <2>1, <2>2 DEF Copies, InFlight
  <2> QED  BY <2>1, <2>2, <2>3 DEF Copies, InFlight
<1>11. CopiesInv' /\ AttemptInv'
  <2>1. UNCHANGED <<call, single>>  BY <1>1
  <2>2. \A i, j \in 1..Len(wire') : wire'[i] = wire'[j] /\ wire'[i] # Auth => i = j  BY <1>2
  <2> QED  BY <1>7, <1>9, <1>10, <2>1, <2>2, FewerCopies, FewerInAttempt
<1>12. ExchangeInv'
  <2> SUFFICES ASSUME held, ~kept PROVE ExchangeInv'  BY <1>1 DEF ExchangeInv
  <2>1. Waiting' = Waiting /\ Pending' = Pending /\ read_buf' = read_buf  BY <1>1 DEF Waiting, Pending
  <2>2. Len(read_buf') + Len(socket') <= 2
    <3>1. Len(read_buf) + Len(socket) <= 2 /\ Len(read_buf) \in Nat
      BY LenProperties DEF IndInv, ExchangeInv, TypeOK
    <3> QED  BY <1>3, <1>5, <2>1, <3>1
  <2>3. \A i \in 1..Len(socket') : socket'[i].cmd = Pending
    <3> SUFFICES ASSUME NEW i \in 1..Len(socket') PROVE socket'[i].cmd = Pending  OBVIOUS
    <3>1. i \in 1..Len(socket) /\ socket'[i] = socket[i]  BY <1>3, <1>5
    <3> QED  BY <3>1 DEF IndInv, ExchangeInv
  <2> QED  BY <1>2, <1>6, <2>1, <2>2, <2>3 DEF IndInv, ExchangeInv
<1> QED  BY <1>7, <1>8, <1>11, <1>12 DEF IndInv

LEMMA UpStep == ASSUME IndInv, ServerUp \/ UNCHANGED vars PROVE IndInv'
<1>1. /\ UNCHANGED <<clientVars, alive, wire, socket, orphans, ghostVars>> /\ up' \in BOOLEAN
  <2>1. CASE ServerUp
    <3>1. up' \in BOOLEAN  BY <2>1, Zenon DEF ServerUp
    <3> QED  BY <2>1, <3>1 DEF ServerUp
  <2>2. CASE UNCHANGED vars  BY <2>2 DEF vars, IndInv, TypeOK
  <2> QED  BY <2>1, <2>2
<1>2. TypeOK'  BY <1>1 DEF IndInv, TypeOK
<1>3. ConnectionInv' /\ HeardInv' /\ ExchangeInv'
  BY <1>1 DEF IndInv, ConnectionInv, HeardInv, RetryOnlyUnanswered, ExchangeInv, Waiting, Pending
<1>4. CopiesInv' /\ AttemptInv'
  BY <1>1 DEF IndInv, CopiesInv, AttemptInv, Copies, InFlight, OnWire, Unsent
<1> QED  BY <1>2, <1>3, <1>4 DEF IndInv

-----------------------------------------------------------------------------
LEMMA InitInv == Init => IndInv
<1> SUFFICES ASSUME Init PROVE IndInv  OBVIOUS
<1>1. held = FALSE /\ alive = FALSE /\ up = TRUE /\ heard = FALSE /\ kept = FALSE  BY DEF Init
<1>2. held \in BOOLEAN /\ alive \in BOOLEAN /\ up \in BOOLEAN /\ heard \in BOOLEAN
      /\ kept \in BOOLEAN
  BY <1>1, Zenon
<1>3. call \in CallType  BY DEF Init, CallType, Phase
<1>4. /\ result \in [Cmds -> Outcome] /\ execs \in [Cmds -> Nat]
      /\ answer \in [Cmds -> 0..MaxCmds] /\ orphans \in [Cmds -> Nat]
  BY DEF Init, Outcome, NoOrphans
<1>5. TypeOK  BY <1>1, <1>2, <1>3, <1>4 DEF Init, TypeOK, CallType
<1>6. ConnectionInv /\ HeardInv /\ AttemptInv /\ ExchangeInv
  BY <1>1 DEF Init, ConnectionInv, HeardInv, RetryOnlyUnanswered, AttemptInv, ExchangeInv
<1>7. CopiesInv  BY DEF Init, CopiesInv, Copies, InFlight, OnWire, NoOrphans
<1> QED  BY <1>5, <1>6, <1>7 DEF IndInv

LEMMA NextInv == IndInv /\ [Next]_vars => IndInv'
BY CallStep, DisconnectStep, DialStep, FailureStep, SendStep, ReadStep, CompleteStep, AuthStep,
   ExecuteStep, OrphanStep, DisconnectedStep, UpStep
DEF Next, ClientStep

LEMMA Invariance == Spec => []IndInv
BY InitInv, NextInv, PTL DEF Spec

\* Every variable of the client and of its connection keeps its type, and a
\* connection that is not held has no state (Client, Conn).
THEOREM ClientTypes == Spec => []TypeOK
<1>1. IndInv => TypeOK  BY DEF IndInv
<1> QED  BY <1>1, Invariance, PTL

\* However often connections die, whatever the server still does with commands
\* the client has given up: no command is executed more than twice, and none
\* sent with command_no_retry more than once (the retry rule of Client::command).
THEOREM AtMostTwiceHolds == Spec => []AtMostTwice
<1>1. IndInv => AtMostTwice
  <2> SUFFICES ASSUME IndInv, NEW c \in Cmds PROVE execs[c] <= IF c \in single THEN 1 ELSE 2
    BY DEF AtMostTwice
  <2>1. Copies(c) <= IF c \in single THEN 1 ELSE 2  BY DEF IndInv, CopiesInv
  <2> QED  BY <2>1, CopiesType DEF IndInv
<1> QED  BY <1>1, Invariance, PTL

\* A second attempt is made only when no byte of a reply to the first has come:
\* Io and Closed are reported for an empty buffer only (round_trip), and on a
\* reused connection the buffer holds all that came.
THEOREM RetryOnlyUnansweredHolds == Spec => []RetryOnlyUnanswered
<1>1. IndInv => RetryOnlyUnanswered  BY DEF IndInv, HeardInv
<1> QED  BY <1>1, Invariance, PTL

\* On a connection that has not outlived a failed second attempt there is
\* nothing that belongs to another command than the one being executed.
THEOREM SynchronizedHolds == Spec => []Synchronized
<1>1. IndInv => Synchronized
  <2> SUFFICES ASSUME IndInv, held, ~kept PROVE Synchronized  BY DEF Synchronized
  <2>1. CASE wire = <<>> /\ read_buf = <<>> /\ socket = <<>>  BY <2>1 DEF Synchronized
  <2>2. CASE ~(wire = <<>> /\ read_buf = <<>> /\ socket = <<>>)
    <3>1. InCall  BY <2>2 DEF IndInv, ExchangeInv, Waiting
    <3>2. \A i \in 1..Len(wire) : wire[i] = Pending
      <4>1. CASE wire = <<>>  BY <4>1
      <4>2. CASE wire = <<Pending>>  BY <4>2
      <4> QED  BY <4>1, <4>2 DEF IndInv, ExchangeInv
    <3> QED  BY <3>1, <3>2 DEF IndInv, ExchangeInv, Synchronized
  <2> QED  BY <2>1, <2>2
<1> QED  BY <1>1, Invariance, PTL

\* A call that returns a reply, good or bad, over a connection in good standing
\* returns the reply to its own command.
OwnReply ==
    ~kept /\ InCall /\ ~InCall' /\ result'[call.cmd] \in {"Ok", "Server"}
        => answer'[call.cmd] = call.cmd

\* ReplyMatchesCommand holds as long as no second attempt has failed with its
\* connection left in place: the one way in which a call gets another command's
\* reply is the one the run client_retry shows (Client::command).
THEOREM OwnReplyReturned == Spec => [][OwnReply]_vars
<1>1. IndInv /\ [Next]_vars => [OwnReply]_vars
  <2> SUFFICES ASSUME IndInv, Next, ~kept, InCall, ~InCall',
                      result'[call.cmd] \in {"Ok", "Server"}
               PROVE  answer'[call.cmd] = call.cmd
    BY DEF OwnReply
  <2>0. call.cmd \in Cmds /\ result \in [Cmds -> Outcome] /\ answer \in [Cmds -> 0..MaxCmds]
        /\ call \in CallType
    BY DEF IndInv, ConnectionInv, TypeOK, CallType
  <2>1. ASSUME NEW err \in {"Io", "Closed", "Connect", "Timeout", "Protocol", "Auth"},
               AttemptFails(err)
        PROVE  FALSE
    <3>1. CASE Return(err, Auth)
      <4>1. result'[call.cmd] = err  BY <2>0, <3>1 DEF Return
      <4> QED  BY <4>1
    <3>2. CASE call' = [call EXCEPT !.attempt = 2, !.phase = "dial"]
      BY <2>0, <3>2 DEF CallType
    <3> QED  BY <2>1, <3>1, <3>2 DEF AttemptFails
  <2>2. Complete
    <3>1. ~(DialFails \/ SendFails \/ AuthRefused \/ ReadFails)
      BY <2>1 DEF DialFails, SendFails, AuthRefused, ReadFails
    <3>2. ~(DialOk \/ Send \/ Read \/ AuthComplete)
      BY <2>0 DEF DialOk, Send, Read, AuthComplete, CallType, Waiting
    <3>3. ~(disconnect \/ \E retry \in BOOLEAN : Call(retry))  BY DEF disconnect, Call
    <3>4. ~(Execute \/ ExecuteOrphan \/ ServerCloses \/ ServerDown \/ ServerUp)
      BY DEF Execute, ExecuteOrphan, ServerCloses, ServerDown, ServerUp
    <3> QED  BY <3>1, <3>2, <3>3, <3>4 DEF Next, ClientStep
  <2>3. answer'[call.cmd] = read_buf[1].cmd  BY <2>0, <2>2 DEF Complete, Return
  <2>4. held /\ Pending = call.cmd  BY <2>2 DEF Complete, IndInv, ConnectionInv, Pending
  <2>5. 1 \in 1..Len(read_buf)
    <3>1. Len(read_buf) >= 2 /\ Len(read_buf) \in Nat
      BY <2>2, LenProperties DEF Complete, Parsed, IndInv, TypeOK
    <3> QED  BY <3>1
  <2> QED  BY <2>3, <2>4, <2>5 DEF IndInv, ExchangeInv
<1> QED  BY <1>1, Invariance, PTL DEF Spec
=============================================================================
