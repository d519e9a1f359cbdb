------------------------------- MODULE Worker -------------------------------
(***************************************************************************)
(* The background worker of crates/pg_resp/src/lib.rs: a main thread that  *)
(* binds the listener, spawns the server thread and then watches it, and   *)
(* the postmaster, which restarts the worker after an exit with status 1,  *)
(* forgets it after status 0, and restarts the whole cluster when it dies  *)
(* of a signal.                                                            *)
(*                                                                         *)
(* The main thread wakes every WATCHDOG_INTERVAL, ends the process when    *)
(* the server thread has flagged its death, and otherwise sends PING over  *)
(* TCP, as any client would.  The server thread is serving, busy with a    *)
(* command longer than the probe's timeout, wedged for ever, or ended.     *)
(* While it serves the connections it has, new ones may fail: no file      *)
(* descriptor is left, the backlog is full, or accept returns an error.    *)
(***************************************************************************)
EXTENDS Integers

CONSTANTS
    WATCHDOG_STRIKES, \* failed probes in a row before the worker restarts
    MaxFaults         \* bound: faults, long commands and signals in a behaviour

ASSUME WorkerAssumption ==
    /\ WATCHDOG_STRIKES \in Nat \ {0}
    /\ MaxFaults \in Nat

VARIABLES
    main,        \* where the main thread, or the postmaster's entry for it, is
    thread,      \* what the server thread does
    server_died, \* set by the server thread when its loop is over
    shutdown,    \* set by the main thread to end that loop
    sigterm,     \* SIGTERM received
    strikes,     \* the watchdog's count
    conn,        \* the probe's connection, as Client::command leaves it
    attempt,     \* the attempt of Client::command the probe is in
    reachable,   \* a thread that serves accepts new connections
    faults,      \* faults so far
    \* for the properties:
    silence,     \* probes begun since the server thread last served
    clean,       \* the server could answer the running probe all the time
    disturbed    \* probes in a row that were not clean, as far as strikes count

threadVars == <<server_died, shutdown>>
ghosts == <<silence, clean, disturbed>>
watchVars == <<strikes, conn, attempt, ghosts>>
processVars == <<main, thread, threadVars, sigterm, watchVars, reachable>>
workerVars == <<processVars, faults>>

\* "backoff": exited with status 1, restarted after bgw_restart_time;
\* "stopped": exited with status 0, which the postmaster takes for done.
Phase == {"bind", "latch", "probe", "join", "backoff", "stopped"}
Activity == {"none", "serving", "busy", "wedged", "ended"}

\* "dead": the server has closed it.  No connection with a PING unanswered is
\* left: a first attempt that fails drops it, and after a second one, which would
\* keep it, the watchdog calls probe.disconnect().
Connection == {"none", "live", "dead"}

Process == main \in Phase \ {"backoff", "stopped"}
Watching == main \in {"latch", "probe"}
Serving == thread = "serving"
Silent == thread \in {"busy", "wedged"}

\* A PING on the probe's connection, or on a new one if it has none, is answered.
Answering == Serving /\ (conn = "live" \/ reachable)

-----------------------------------------------------------------------------
(***************************************************************************)
(* The end of the process, and its start.                                  *)
(***************************************************************************)
\* All threads go, and with them the listener, the store and every connection.
Gone(then) ==
    /\ main' = then
    /\ thread' = "none"
    /\ server_died' = FALSE /\ shutdown' = FALSE /\ sigterm' = FALSE
    /\ strikes' = 0 /\ conn' = "none" /\ attempt' = 1 /\ reachable' = TRUE
    /\ silence' = 0 /\ clean' = FALSE /\ disturbed' = 0

\* ereport!(FATAL): proc_exit(1).
fatal_restart == Gone("backoff")

Fault == faults < MaxFaults /\ faults' = faults + 1

\* bgw_restart_time has passed.
Restart ==
    /\ main = "backoff"
    /\ main' = "bind"
    /\ UNCHANGED <<thread, threadVars, sigterm, watchVars, reachable, faults>>

\* The listener is bound and the server thread spawned.
Start ==
    /\ main = "bind"
    /\ main' = "latch" /\ thread' = "serving"
    /\ UNCHANGED <<threadVars, sigterm, watchVars, reachable, faults>>

\* TcpListener::bind fails: log and return, which is an exit with status 0.
BindFails ==
    /\ main = "bind" /\ Fault
    /\ Gone("stopped")

\* set_nonblocking or the spawn of the thread fails: a panic, an exit with 1.
StartPanics ==
    /\ main = "bind" /\ Fault
    /\ Gone("backoff")

\* The process dies of a signal: the cluster restarts.
Crash ==
    /\ Process /\ Fault
    /\ Gone("bind")

-----------------------------------------------------------------------------
(***************************************************************************)
(* The server thread.                                                      *)
(***************************************************************************)
\* What a fault on the server's side does to the probe's record.
Disturb == clean' = FALSE /\ UNCHANGED <<silence, disturbed>>

\* A command that takes longer than the probe's timeout.
LongCommand ==
    /\ Serving /\ Fault
    /\ thread' = "busy"
    /\ Disturb
    /\ UNCHANGED <<main, threadVars, sigterm, strikes, conn, attempt, reachable>>

\* It is over: the loop goes on with what has arrived since.
LongCommandEnds ==
    /\ thread = "busy"
    /\ thread' = "serving"
    /\ silence' = 0
    /\ UNCHANGED <<main, threadVars, sigterm, strikes, conn, attempt, reachable, clean, disturbed>>
    /\ UNCHANGED faults

Wedge ==
    /\ thread \in {"serving", "busy"} /\ Fault
    /\ thread' = "wedged" /\ reachable' = TRUE
    /\ Disturb
    /\ UNCHANGED <<main, threadVars, sigterm, strikes, conn, attempt>>

\* server_loop is over: its sockets are closed, and the flag is still to be set.
ThreadEnds ==
    /\ thread' = "ended" /\ reachable' = TRUE
    /\ conn' = IF conn = "none" THEN "none" ELSE "dead"
    /\ Disturb

\* A panic outside the per-connection fence, or no Poll.
Panic ==
    /\ Serving /\ Fault
    /\ ThreadEnds
    /\ UNCHANGED <<main, threadVars, sigterm, strikes, attempt>>

\* `while !shutdown.load(..)`, seen within SHUTDOWN_CHECK_INTERVAL.
ThreadStops ==
    /\ Serving /\ shutdown
    /\ ThreadEnds
    /\ UNCHANGED <<main, threadVars, sigterm, strikes, attempt, faults>>

\* The last statement of the thread.
FlagDeath ==
    /\ thread = "ended" /\ ~server_died
    /\ server_died' = TRUE
    /\ UNCHANGED <<main, thread, shutdown, sigterm, watchVars, reachable, faults>>

\* The server drops the probe's connection alone (a panic inside the fence, an
\* error on its socket), while a probe runs or between two.
ConnectionLost ==
    /\ conn = "live" /\ Serving /\ Fault
    /\ conn' = "dead"
    /\ Disturb
    /\ UNCHANGED <<main, thread, threadVars, sigterm, strikes, attempt, reachable>>

\* New connections fail or wait: EMFILE in the server's accept, which breaks off
\* the accept loop, or in the client's socket, or a full backlog.
Clog ==
    /\ Serving /\ reachable /\ Fault
    /\ reachable' = FALSE
    /\ Disturb
    /\ UNCHANGED <<main, thread, threadVars, sigterm, strikes, conn, attempt>>

\* Descriptors are free again, or the listener's next event empties the backlog.
Unclog ==
    /\ ~reachable
    /\ reachable' = TRUE
    /\ UNCHANGED <<main, thread, threadVars, sigterm, watchVars, faults>>

-----------------------------------------------------------------------------
(***************************************************************************)
(* The main thread.                                                        *)
(***************************************************************************)
Sigterm ==
    /\ Process /\ ~sigterm /\ Fault
    /\ sigterm' = TRUE
    /\ UNCHANGED <<main, thread, threadVars, watchVars, reachable>>

\* Faulty variant of Tick: only the flag is looked at.
TickFlagOnly ==
    /\ main = "latch" /\ ~sigterm /\ server_died
    /\ fatal_restart
    /\ UNCHANGED faults

\* wait_latch returns true: the flag first, then a probe.
Tick ==
    /\ main = "latch" /\ ~sigterm
    /\ \/ server_died /\ fatal_restart
       \/ /\ ~server_died /\ main' = "probe"
          /\ clean' = Answering
          /\ silence' = IF Serving THEN 0 ELSE silence + 1
          /\ UNCHANGED <<thread, threadVars, sigterm, strikes, conn, attempt, disturbed, reachable>>
    /\ UNCHANGED faults

\* The probe is over and leaves this connection and this count.
ProbeEnds(kept, count) ==
    /\ main' = "latch" /\ attempt' = 1
    /\ conn' = kept /\ strikes' = count
    /\ clean' = FALSE
    /\ disturbed' = IF clean THEN 0
                    ELSE IF disturbed + 1 < WATCHDOG_STRIKES THEN disturbed + 1 ELSE disturbed
    /\ UNCHANGED <<thread, threadVars, sigterm, silence, reachable>>

\* Faulty variant of ProbeOk: strikes are counted, in a row or not.
ProbeOkKeeping ==
    /\ main = "probe" /\ conn # "dead"
    /\ Answering
    /\ ProbeEnds("live", strikes)
    /\ UNCHANGED faults

\* A reply to PING, an error reply included: `Ok(()) => strikes = 0`.
ProbeOk ==
    /\ main = "probe" /\ conn # "dead"
    /\ Answering
    /\ ProbeEnds("live", 0)
    /\ UNCHANGED faults

\* The held connection turns out to be dead: Client::command dials again.
ProbeRetries ==
    /\ main = "probe" /\ conn = "dead" /\ attempt = 1
    /\ attempt' = 2 /\ conn' = "none"
    /\ UNCHANGED <<main, thread, threadVars, sigterm, strikes, ghosts, reachable, faults>>

\* Faulty variant of Strike: one failure more than the limit is let pass.
StrikeMore ==
    \/ strikes < WATCHDOG_STRIKES /\ ProbeEnds("none", strikes + 1)
    \/ strikes >= WATCHDOG_STRIKES /\ fatal_restart

\* A failed probe, which leaves no connection.
Strike ==
    \/ strikes + 1 < WATCHDOG_STRIKES /\ ProbeEnds("none", strikes + 1)
    \/ strikes + 1 >= WATCHDOG_STRIKES /\ fatal_restart

\* No reply within the timeout, which is never retried, no one listening, or a
\* server that serves and cannot be reached.
Failed == Silent \/ thread = "ended" \/ (Serving /\ conn = "none" /\ ~reachable)

\* Faulty variant of ProbeFails: only a timeout is a strike.
ProbeFailsTimed ==
    /\ main = "probe" /\ conn # "dead"
    /\ Failed
    /\ IF Silent THEN Strike ELSE ProbeEnds("none", strikes)
    /\ UNCHANGED faults

\* `strikes += 1; probe.disconnect(); if strikes >= WATCHDOG_STRIKES ..`
ProbeFails ==
    /\ main = "probe" /\ conn # "dead"
    /\ Failed
    /\ Strike
    /\ UNCHANGED faults

\* Faulty variant of Stop: the flag is not set before the join.
StopUnsignalled ==
    /\ main = "latch" /\ sigterm
    /\ main' = "join"
    /\ UNCHANGED <<thread, threadVars, sigterm, watchVars, reachable, faults>>

\* wait_latch returns false: `shutdown.store(true)`, then join.
Stop ==
    /\ main = "latch" /\ sigterm
    /\ main' = "join" /\ shutdown' = TRUE
    /\ UNCHANGED <<thread, server_died, sigterm, watchVars, reachable, faults>>

\* The thread has set its flag and is gone: return, an exit with status 0.
Joined ==
    /\ main = "join" /\ server_died
    /\ Gone("stopped")
    /\ UNCHANGED faults

-----------------------------------------------------------------------------
WorkerInit ==
    /\ main = "bind" /\ thread = "none"
    /\ server_died = FALSE /\ shutdown = FALSE /\ sigterm = FALSE
    /\ strikes = 0 /\ conn = "none" /\ attempt = 1
    /\ faults = 0 /\ reachable = TRUE
    /\ silence = 0 /\ clean = FALSE /\ disturbed = 0

MainStep ==
    Restart \/ Start \/ Tick \/ ProbeOk \/ ProbeRetries \/ ProbeFails \/ Stop \/ Joined

ThreadStep == LongCommandEnds \/ ThreadStops \/ FlagDeath

WorkerFault ==
    BindFails \/ StartPanics \/ LongCommand \/ Wedge \/ Panic \/ ConnectionLost \/ Clog

\* A fault that another client meets: the worker's own state is as before.
OtherFault == Fault /\ UNCHANGED processVars

WorkerNext ==
    MainStep \/ ThreadStep \/ WorkerFault \/ OtherFault \/ Unclog \/ Sigterm \/ Crash

-----------------------------------------------------------------------------
(***************************************************************************)
(* Properties.                                                             *)
(***************************************************************************)
WorkerTypeOK ==
    /\ main \in Phase /\ thread \in Activity
    /\ server_died \in BOOLEAN /\ shutdown \in BOOLEAN /\ sigterm \in BOOLEAN
    /\ strikes \in 0..(WATCHDOG_STRIKES - 1)
    /\ conn \in Connection /\ attempt \in {1, 2}
    /\ faults \in 0..MaxFaults /\ reachable \in BOOLEAN
    /\ silence \in Nat /\ clean \in BOOLEAN /\ disturbed \in 0..(WATCHDOG_STRIKES - 1)

\* A server thread that does not serve is not there for more than
\* WATCHDOG_STRIKES probes: no connection refused, dead connection or retry
\* excuses it (background_worker_main's match on probe.probe(),
\* probe.disconnect(); "short enough to matter").
SilenceNoticed ==
    silence <= IF main = "probe" THEN WATCHDOG_STRIKES ELSE WATCHDOG_STRIKES - 1

\* The watchdog takes the process down only at the last of WATCHDOG_STRIKES
\* probes in a row during each of which the server was silent, gone, out of
\* reach or lost the connection: a hiccup, a connection lost between two probes
\* or failures with a good probe among them cost no cache (WATCHDOG_STRIKES:
\* "long enough not to restart a healthy worker over a hiccup").
SparedStep ==
    main = "probe" /\ main' = "backoff" => ~clean /\ disturbed >= WATCHDOG_STRIKES - 1
HealthySpared == [][SparedStep]_workerVars

\* Whatever happens to the server thread, a panic of its loop or a wedge that
\* sets no flag, the service comes back, unless the worker has been told to stop
\* or has exited with status 0 on a failed bind (background_worker_main's two
\* tests, fatal_restart).
ServiceReturns == []<>(Serving \/ main \in {"stopped", "join"})

\* A process that has received SIGTERM ends, and its flag with it, unless its
\* server thread is wedged: join has no timeout.
StopCompletes == []<>(~sigterm \/ thread = "wedged")
=============================================================================
