---------------------------- MODULE SystemProofs ----------------------------
(***************************************************************************)
(* Proofs about Worker and System: for any number of strikes, faults,      *)
(* keys, sessions and readers the watchdog notices a silent server in time *)
(* and spares one that could answer, and an entry goes stale only while a  *)
(* callback has still to tell the cache or after a failure was counted.    *)
(***************************************************************************)
EXTENDS System, SequenceTheorems, TLAPS

USE DEF threadVars, ghosts, watchVars, processVars, workerVars, tableVars, backendVars, cacheVars

-----------------------------------------------------------------------------
(***************************************************************************)
(* The watchdog.                                                           *)
(***************************************************************************)
\* Each probe begun in a silence is a strike once it is over, because only a
\* thread that serves resets them.  In the other direction a probe that stays
\* clean finds a connection or gets a new one, so that only disturbed probes are
\* counted.
WatchInv ==
    /\ WorkerTypeOK
    /\ Serving \/ main \in {"bind", "backoff"} => silence = 0
    /\ silence <= IF main = "probe" THEN strikes + 1 ELSE strikes
    /\ strikes <= disturbed
    /\ clean => main = "probe" /\ Answering

USE WorkerAssumption DEF WatchInv, WorkerTypeOK, Phase, Activity,
    Connection, Process, Serving, Silent, Fault, Answering, Disturb

LEMMA GoneWatch ==
    ASSUME NEW then \in Phase, Gone(then), faults' \in 0..MaxFaults PROVE WatchInv'
<1>1. /\ server_died' \in BOOLEAN /\ shutdown' \in BOOLEAN /\ sigterm' \in BOOLEAN
      /\ reachable' \in BOOLEAN /\ clean' \in BOOLEAN
  BY Zenon DEF Gone
<1>2. /\ strikes' = 0 /\ silence' = 0 /\ disturbed' = 0 /\ ~clean'
      /\ 0 \in 0..(WATCHDOG_STRIKES - 1)
  BY DEF Gone
<1> QED  BY <1>1, <1>2 DEF Gone

\* The end of a probe that leaves no PING behind.
LEMMA EndsWatch ==
    ASSUME WatchInv, main = "probe", NEW kept \in {"none", "live"},
           NEW count \in 0..(WATCHDOG_STRIKES - 1),
           silence <= count, IF clean THEN count = 0 ELSE count <= strikes + 1,
           ProbeEnds(kept, count), UNCHANGED faults
    PROVE  WatchInv'
<1>1. clean' \in BOOLEAN /\ ~clean'  BY Zenon DEF ProbeEnds
<1>2. disturbed' \in 0..(WATCHDOG_STRIKES - 1) /\ count <= disturbed'  BY DEF ProbeEnds
<1> QED  BY <1>1, <1>2 DEF ProbeEnds

LEMMA MainStepWatch == ASSUME WatchInv, MainStep PROVE WatchInv'
<1>1. CASE Restart  BY <1>1 DEF Restart
<1>2. CASE Start  BY <1>2 DEF Start
<1>3. CASE Tick
  <2>1. CASE server_died  BY <1>3, <2>1, GoneWatch DEF Tick, fatal_restart
  <2>2. CASE ~server_died
    <3>1. clean' \in BOOLEAN  BY <1>3, <2>2, Zenon DEF Tick
    <3>2. silence' \in Nat /\ silence' <= strikes + 1 /\ (Serving => silence' = 0)
      BY <1>3, <2>2 DEF Tick
    <3> QED  BY <1>3, <2>2, <3>1, <3>2 DEF Tick
  <2> QED  BY <2>1, <2>2
<1>4. CASE ProbeOk
  <2>1. Serving /\ silence = 0 /\ main = "probe"  BY <1>4 DEF ProbeOk
  <2>2. ProbeEnds("live", 0) /\ UNCHANGED faults  BY <1>4 DEF ProbeOk
  <2>3. 0 \in 0..(WATCHDOG_STRIKES - 1) /\ 0 <= strikes + 1  OBVIOUS
  <2> QED  BY <2>1, <2>2, <2>3, EndsWatch
<1>5. CASE ProbeRetries  BY <1>5 DEF ProbeRetries
<1>6. CASE ProbeFails
  <2>1. main = "probe" /\ Strike /\ UNCHANGED faults  BY <1>6 DEF ProbeFails
  <2>2. ~clean  BY <1>6 DEF ProbeFails, Failed
  <2>3. CASE strikes + 1 < WATCHDOG_STRIKES
    <3>1. ProbeEnds("none", strikes + 1)  BY <2>1, <2>3 DEF Strike
    <3>2. strikes + 1 \in 0..(WATCHDOG_STRIKES - 1) /\ silence <= strikes + 1  BY <2>1, <2>3
    <3> QED  BY <2>1, <2>2, <3>1, <3>2, EndsWatch
  <2>4. CASE ~(strikes + 1 < WATCHDOG_STRIKES)
    <3>1. Gone("backoff")  BY <2>1, <2>4 DEF Strike, fatal_restart
    <3> QED  BY <2>1, <3>1, GoneWatch
  <2> QED  BY <2>3, <2>4
<1>7. CASE Stop  BY <1>7 DEF Stop
<1>8. CASE Joined  BY <1>8, GoneWatch DEF Joined
<1> QED  BY <1>1, <1>2, <1>3, <1>4, <1>5, <1>6, <1>7, <1>8 DEF MainStep

LEMMA ThreadStepWatch == ASSUME WatchInv, ThreadStep PROVE WatchInv'
<1>1. CASE LongCommandEnds  BY <1>1 DEF LongCommandEnds
<1>2. CASE ThreadStops  BY <1>2 DEF ThreadStops, ThreadEnds
<1>3. CASE FlagDeath  BY <1>3 DEF FlagDeath
<1> QED  BY <1>1, <1>2, <1>3 DEF ThreadStep

LEMMA FaultWatch ==
    ASSUME WatchInv, WorkerFault \/ OtherFault \/ Unclog \/ Sigterm \/ Crash PROVE WatchInv'
<1>1. CASE BindFails  BY <1>1, GoneWatch DEF BindFails
<1>2. CASE StartPanics  BY <1>2, GoneWatch DEF StartPanics
<1>3. CASE LongCommand
  <2>1. clean' \in BOOLEAN /\ reachable' \in BOOLEAN /\ ~clean'  BY <1>3, Zenon DEF LongCommand
  <2>2. faults' \in 0..MaxFaults  BY <1>3 DEF LongCommand
  <2> QED  BY <1>3, <2>1, <2>2 DEF LongCommand
<1>4. CASE Wedge
  <2>1. clean' \in BOOLEAN /\ reachable' \in BOOLEAN /\ ~clean'  BY <1>4, Zenon DEF Wedge
  <2>2. faults' \in 0..MaxFaults  BY <1>4 DEF Wedge
  <2> QED  BY <1>4, <2>1, <2>2 DEF Wedge
<1>5. CASE Panic
  <2>1. clean' \in BOOLEAN /\ reachable' \in BOOLEAN /\ ~clean'  BY <1>5, Zenon DEF Panic, ThreadEnds
  <2>2. faults' \in 0..MaxFaults  BY <1>5 DEF Panic
  <2> QED  BY <1>5, <2>1, <2>2 DEF Panic, ThreadEnds
<1>6. CASE ConnectionLost
  <2>1. clean' \in BOOLEAN /\ reachable' \in BOOLEAN /\ ~clean'  BY <1>6, Zenon DEF ConnectionLost
  <2>2. faults' \in 0..MaxFaults  BY <1>6 DEF ConnectionLost
  <2> QED  BY <1>6, <2>1, <2>2 DEF ConnectionLost
<1>7. CASE Clog
  <2>1. clean' \in BOOLEAN /\ reachable' \in BOOLEAN /\ ~clean'  BY <1>7, Zenon DEF Clog
  <2>2. faults' \in 0..MaxFaults  BY <1>7 DEF Clog
  <2> QED  BY <1>7, <2>1, <2>2 DEF Clog
<1>8. CASE OtherFault  BY <1>8 DEF OtherFault
<1>9. CASE Unclog  BY <1>9 DEF Unclog
<1>10. CASE Sigterm  BY <1>10 DEF Sigterm
<1>11. CASE Crash  BY <1>11, GoneWatch DEF Crash
<1> QED
  BY <1>1, <1>2, <1>3, <1>4, <1>5, <1>6, <1>7, <1>8, <1>9, <1>10, <1>11 DEF WorkerFault

LEMMA WatchStep == ASSUME WatchInv, [WorkerNext]_workerVars PROVE WatchInv'
<1>1. CASE UNCHANGED workerVars  BY <1>1
<1> QED  BY <1>1, MainStepWatch, ThreadStepWatch, FaultWatch DEF WorkerNext

LEMMA InitWatch == WorkerInit => WatchInv
<1> SUFFICES ASSUME WorkerInit PROVE WatchInv  OBVIOUS
<1>1. /\ server_died \in BOOLEAN /\ shutdown \in BOOLEAN /\ sigterm \in BOOLEAN
      /\ reachable \in BOOLEAN /\ clean \in BOOLEAN
  BY Zenon DEF WorkerInit
<1> QED  BY <1>1 DEF WorkerInit

\* Only the last strike leads from a probe to an exit.
LEMMA SparedAlways == ASSUME WatchInv, [WorkerNext]_workerVars PROVE [SparedStep]_workerVars
<1> SUFFICES ASSUME WorkerNext, main = "probe", main' = "backoff"
             PROVE  ~clean /\ disturbed >= WATCHDOG_STRIKES - 1
  BY DEF SparedStep
<1>1. ProbeFails /\ Gone("backoff")
  <2>1. ~(WorkerFault \/ ThreadStep \/ Crash \/ Sigterm \/ Unclog \/ OtherFault)
    BY DEF WorkerFault, ThreadStep, BindFails, StartPanics, LongCommand, Wedge, Panic, Clog,
           ConnectionLost, LongCommandEnds, ThreadStops, FlagDeath, Crash, Gone, Sigterm,
           Unclog, OtherFault
  <2>2. MainStep  BY <2>1 DEF WorkerNext
  <2>3. ProbeFails
    BY <2>2 DEF MainStep, Restart, Start, Tick, ProbeOk, ProbeEnds, ProbeRetries, Stop, Joined
  <2> QED  BY <2>3 DEF ProbeFails, Strike, ProbeEnds, fatal_restart
<1>2. ~clean  BY <1>1 DEF ProbeFails, Failed
<1>3. strikes + 1 >= WATCHDOG_STRIKES
  BY <1>1 DEF ProbeFails, Strike, ProbeEnds
<1> QED  BY <1>2, <1>3

\* Transactions, clients and the store leave the worker's process alone; at most
\* they meet a fault on the way.
LEMMA WorkerMoves == ASSUME [Next]_vars PROVE [WorkerNext]_workerVars
<1>1. ASSUME NEW b \in Backends, NEW old, NEW new, Change(b, old, new)
      PROVE  UNCHANGED workerVars
  BY <1>1 DEF Change, Commit
<1>2. ASSUME NEW b \in Backends, NEW k \in Keys, ChangeAndSet(b, k)
      PROVE  UNCHANGED workerVars
  BY <1>2 DEF ChangeAndSet, Commit
<1>3. ASSUME NEW b \in Backends, ApplyOk(b) PROVE UNCHANGED workerVars
  BY <1>3 DEF ApplyOk
<1>4. ASSUME NEW b \in Backends, ApplyErr(b) PROVE OtherFault \/ UNCHANGED workerVars
  BY <1>4 DEF ApplyErr, OtherFault
<1>5. CASE ExecuteLate  BY <1>5 DEF ExecuteLate
<1>6. ASSUME NEW k \in Keys, Forget(k) PROVE UNCHANGED workerVars
  BY <1>6 DEF Forget
<1>7. ASSUME NEW r \in Readers, NEW k \in Keys, Miss(r, k) PROVE UNCHANGED workerVars
  BY <1>7 DEF Miss
<1>8. ASSUME NEW r \in Readers, Refill(r) PROVE UNCHANGED workerVars
  BY <1>8 DEF Refill
<1>9. CASE MainStepS \/ ThreadStepS \/ WorkerFaultS \/ ClusterRestart
  BY <1>9 DEF MainStepS, ThreadStepS, WorkerFaultS, ClusterRestart, WorkerNext
<1>10. CASE UNCHANGED vars  BY <1>10 DEF vars
<1> HIDE DEF workerVars
<1> QED
  BY <1>1, <1>2, <1>3, <1>4, <1>5, <1>6, <1>7, <1>8, <1>9, <1>10 DEF Next, Apply, WorkerNext

\* The composition runs the worker of module Worker: backends, readers and the
\* cache make it take no step it could not take alone, so what holds of the
\* worker's steps holds of the worker among its clients.
THEOREM SystemRunsWorker == Spec => WorkerInit /\ [][WorkerNext]_workerVars
<1>1. Init => WorkerInit  BY DEF Init
<1>2. [Next]_vars => [WorkerNext]_workerVars  BY WorkerMoves
<1> QED  BY <1>1, <1>2, PTL DEF Spec

\* A server thread that does not serve has been probed at most WATCHDOG_STRIKES
\* times before the process is taken down, for any number of strikes and faults,
\* with long commands, lost connections, failed accepts and retries in any order
\* (background_worker_main's match on probe.probe(), probe.disconnect()).
THEOREM WatchdogNotices == Spec => []SilenceNoticed
<1>1. WatchInv /\ [WorkerNext]_workerVars => WatchInv'  BY WatchStep
<1>2. WatchInv => SilenceNoticed  BY DEF SilenceNoticed
<1> QED  BY InitWatch, <1>1, <1>2, SystemRunsWorker, PTL

\* The watchdog costs the cache only after WATCHDOG_STRIKES probes in a row that
\* the server was at some moment not able to answer, failed accepts of a serving
\* thread included: for any number of strikes and faults no retry, lost
\* connection or earlier failure adds a strike to a healthy server
\* (background_worker_main, Client::command).
THEOREM WatchdogSpares == Spec => HealthySpared
<1>1. WatchInv /\ [WorkerNext]_workerVars => WatchInv'  BY WatchStep
<1>2. WatchInv /\ [WorkerNext]_workerVars => [SparedStep]_workerVars  BY SparedAlways
<1> QED  BY InitWatch, <1>1, <1>2, SystemRunsWorker, PTL DEF HealthySpared

-----------------------------------------------------------------------------
(***************************************************************************)
(* Types of the composition.                                               *)
(***************************************************************************)
USE SystemAssumption DEF Versions, None, Operation, Empty

\* What the evict trigger queues tells the cache of both keys of the row.
LEMMA EvictTells ==
    ASSUME NEW old \in Keys \cup {NullKey}, NEW new \in Keys \cup {NullKey}
    PROVE  /\ evict(old, new) \in Seq(Operation)
           /\ \A k \in {old, new} \cap Keys :
                 \E i \in 1..Len(evict(old, new)) : evict(old, new)[i].key = k
<1> DEFINE first == IF old \in Keys THEN <<Del(old)>> ELSE <<>>
           second == IF new \in Keys \ {old} THEN <<Del(new)>> ELSE <<>>
<1>1. \A k \in Keys : Del(k) \in Operation /\ Del(k).key = k  BY DEF Del
<1> HIDE DEF Operation
<1>2. first \in Seq(Operation) /\ second \in Seq(Operation)  BY <1>1
<1>3. old \in Keys => Len(first) = 1 /\ first[1].key = old  BY <1>1
<1>4. new \in Keys \ {old} => Len(second) = 1 /\ second[1].key = new  BY <1>1
<1>5. evict(old, new) = first \o second  BY DEF evict
<1> HIDE DEF first, second
<1> DEFINE queue == evict(old, new)
<1>6. /\ queue \in Seq(Operation)
      /\ Len(queue) = Len(first) + Len(second)
      /\ \A i \in 1..(Len(first) + Len(second)) :
            queue[i] = IF i <= Len(first) THEN first[i] ELSE second[i - Len(first)]
  BY <1>2, <1>5, ConcatProperties
<1>7. Len(first) \in Nat /\ Len(second) \in Nat  BY <1>2, LenProperties
<1> HIDE DEF queue
<1>8. ASSUME old \in Keys PROVE \E i \in 1..Len(queue) : queue[i].key = old
  <2>0. PICK m \in Nat : m = Len(second)  BY <1>7
  <2>1. Len(first) = 1  BY <1>3, <1>8
  <2>2. 1 \in 1..(1 + m)  BY <2>0
  <2>3. Len(queue) = 1 + m /\ queue[1] = first[1]  BY <1>6, <2>0, <2>1, <2>2
  <2> QED  BY <1>3, <1>8, <2>2, <2>3
<1>9. ASSUME new \in Keys \ {old} PROVE \E i \in 1..Len(queue) : queue[i].key = new
  <2> DEFINE n == Len(first) + 1
  <2>1. n \in 1..(Len(first) + Len(second)) /\ ~(n <= Len(first)) /\ n - Len(first) = 1
    BY <1>4, <1>7, <1>9
  <2>2. queue[n] = second[1]  BY <1>6, <2>1
  <2> QED  BY <1>4, <1>6, <1>9, <2>1, <2>2
<1> QED  BY <1>6, <1>8, <1>9 DEF queue

LEMMA CommitTypes ==
    ASSUME TypeOK, WatchInv', NEW b \in Backends, NEW old, NEW new,
           NEW queue \in Seq(Operation), Commit(b, old, new, queue)
    PROVE  TypeOK'
<1>1. version' \in Versions  BY DEF Commit, TypeOK
<1>2. db' \in [Keys -> {None} \cup Versions]  BY <1>1 DEF Commit, TypeOK
<1> QED  BY <1>1, <1>2 DEF Commit, TypeOK

LEMMA ExecutedTypes ==
    ASSUME TypeOK, NEW op, op.key \in Keys, op.value \in {None} \cup Versions, Executed(op)
    PROVE  cache' \in [Keys -> {None} \cup Versions] /\ current' \in [Keys -> BOOLEAN]
<1>1. cache' \in [Keys -> {None} \cup Versions]  BY DEF TypeOK, Executed
<1>2. current' \in [Keys -> BOOLEAN]
  <2> DEFINE agrees == op.value \in {None, db[op.key]}
  <2>1. agrees \in BOOLEAN  OBVIOUS
  <2>2. current' = [current EXCEPT ![op.key] = agrees]  BY DEF Executed
  <2>3. current \in [Keys -> BOOLEAN]  BY DEF TypeOK
  <2> HIDE DEF agrees
  <2> QED  BY <2>1, <2>2, <2>3
<1> QED  BY <1>1, <1>2

LEMMA SentTypes ==
    ASSUME TypeOK, NEW b \in Backends, ops[b] # <<>>, NEW errors \in Nat, Sent(b, errors)
    PROVE  /\ ops' \in [Backends -> Seq(Operation)]
           /\ failed' \in [Backends -> Nat] /\ lost' \in Nat
<1>1. Tail(ops[b]) \in Seq(Operation)  BY HeadTailProperties DEF TypeOK
<1>2. failed' \in [Backends -> Nat] /\ lost' \in Nat  BY DEF TypeOK, Sent
<1>3. ops' \in [Backends -> Seq(Operation)]  BY <1>1 DEF TypeOK, Sent
<1> QED  BY <1>2, <1>3

LEMMA CacheTypes == ASSUME TypeOK, CacheFollows \/ CacheLost PROVE
    cache' \in [Keys -> {None} \cup Versions] /\ late' \subseteq Operation
        /\ current' \in [Keys -> BOOLEAN]
<1>1. CASE UNCHANGED cacheVars  BY <1>1 DEF TypeOK
<1>2. CASE CacheLost
  <2>1. cache' \in [Keys -> {None} \cup Versions] /\ late' \subseteq Operation
    BY <1>2 DEF CacheLost
  <2>2. current' \in [Keys -> BOOLEAN]  BY <1>2, Zenon DEF CacheLost
  <2> QED  BY <2>1, <2>2
<1> QED  BY <1>1, <1>2 DEF CacheFollows

LEMMA TypeStep == ASSUME TypeOK, WatchInv', [Next]_vars PROVE TypeOK'
<1>1. ASSUME NEW b \in Backends, NEW old \in Keys \cup {NullKey},
             NEW new \in Keys \cup {NullKey}, Change(b, old, new)
      PROVE  TypeOK'
  BY <1>1, EvictTells, CommitTypes DEF Change
<1>2. ASSUME NEW b \in Backends, NEW k \in Keys, ChangeAndSet(b, k) PROVE TypeOK'
  <2>1. version + 1 \in Versions  BY <1>2 DEF ChangeAndSet, Commit, TypeOK
  <2>2. Set(k, version + 1) \in Operation  BY <2>1 DEF Set
  <2>3. <<Set(k, version + 1)>> \in Seq(Operation)
    <3> HIDE DEF Operation
    <3> QED  BY <2>2
  <2> QED  BY <1>2, <2>3, CommitTypes DEF ChangeAndSet
<1>3. ASSUME NEW b \in Backends, ApplyOk(b) PROVE TypeOK'
  <2>1. Head(ops[b]) \in Operation  BY <1>3, HeadTailProperties DEF ApplyOk, TypeOK
  <2>2. failed[b] \in Nat  BY DEF TypeOK
  <2> QED  BY <1>3, <2>1, <2>2, ExecutedTypes, SentTypes DEF ApplyOk, TypeOK
<1>4. ASSUME NEW b \in Backends, ApplyErr(b) PROVE TypeOK'
  <2>1. Head(ops[b]) \in Operation  BY <1>4, HeadTailProperties DEF ApplyErr, TypeOK
  <2>2. failed[b] + 1 \in Nat  BY DEF TypeOK
  <2>3. /\ ops' \in [Backends -> Seq(Operation)]
        /\ failed' \in [Backends -> Nat] /\ lost' \in Nat
    BY <1>4, <2>2, SentTypes DEF ApplyErr
  <2>4. /\ cache' \in [Keys -> {None} \cup Versions] /\ late' \subseteq Operation
        /\ current' \in [Keys -> BOOLEAN]
    <3>1. CASE Executed(Head(ops[b])) /\ late' = late
      BY <2>1, <3>1, ExecutedTypes DEF TypeOK
    <3>2. CASE late' = late \cup {Head(ops[b])} /\ UNCHANGED <<cache, current>>
      BY <2>1, <3>2 DEF TypeOK
    <3>3. CASE UNCHANGED cacheVars  BY <3>3 DEF TypeOK
    <3>4. \/ Executed(Head(ops[b])) /\ late' = late
          \/ late' = late \cup {Head(ops[b])} /\ UNCHANGED <<cache, current>>
          \/ UNCHANGED cacheVars
      BY <1>4 DEF ApplyErr
    <3> QED  BY <3>1, <3>2, <3>3, <3>4
  <2> QED  BY <1>4, <2>3, <2>4 DEF ApplyErr, TypeOK
<1>5. CASE ExecuteLate
  <2>1. PICK op \in late : Executed(op) /\ late' = late \ {op}  BY <1>5 DEF ExecuteLate
  <2>2. op \in Operation  BY DEF TypeOK
  <2> QED  BY <1>5, <2>1, <2>2, ExecutedTypes DEF ExecuteLate, TypeOK
<1>6. ASSUME NEW k \in Keys, Forget(k) PROVE TypeOK'
  <2>1. Del(k).key \in Keys /\ Del(k).value \in {None} \cup Versions  BY DEF Del
  <2> QED  BY <1>6, <2>1, ExecutedTypes DEF Forget, TypeOK
<1>7. ASSUME NEW r \in Readers, NEW k \in Keys, Miss(r, k) PROVE TypeOK'
  BY <1>7 DEF Miss, TypeOK
<1>8. ASSUME NEW r \in Readers, Refill(r) PROVE TypeOK'
  <2>1. refill' \in [Readers -> [key : Keys \cup {NullKey}, value : {None} \cup Versions]]
    BY <1>8 DEF Refill, TypeOK, Del
  <2>2. cache' \in [Keys -> {None} \cup Versions] /\ current' \in [Keys -> BOOLEAN]
    <3>1. CASE Executed(refill[r])  BY <1>8, <3>1, ExecutedTypes DEF Refill, TypeOK
    <3>2. CASE UNCHANGED <<cache, current>>  BY <3>2 DEF TypeOK
    <3> QED  BY <1>8, <3>1, <3>2 DEF Refill
  <2> QED  BY <1>8, <2>1, <2>2 DEF Refill, TypeOK
<1>9. CASE MainStepS \/ ThreadStepS \/ WorkerFaultS
  <2>1. CacheFollows /\ UNCHANGED <<tableVars, backendVars, refill>>
    BY <1>9 DEF MainStepS, ThreadStepS, WorkerFaultS
  <2> QED  BY <2>1, CacheTypes DEF TypeOK
<1>10. CASE ClusterRestart
  <2>1. CacheLost /\ UNCHANGED <<tableVars, refill>>  BY <1>10 DEF ClusterRestart
  <2>2. ops' \in [Backends -> Seq(Operation)] /\ failed' \in [Backends -> Nat] /\ lost' \in Nat
    BY <1>10 DEF ClusterRestart
  <2> QED  BY <2>1, <2>2, CacheTypes DEF TypeOK
<1>11. CASE UNCHANGED vars  BY <1>11 DEF vars, TypeOK
<1> QED
  BY <1>1, <1>2, <1>3, <1>4, <1>5, <1>6, <1>7, <1>8, <1>9, <1>10, <1>11 DEF Next, Apply

-----------------------------------------------------------------------------
(***************************************************************************)
(* Staleness.                                                              *)
(***************************************************************************)
\* The obligation of one key; with the types it is inductive.
Told(k) == Stale(k) /\ current[k] => Pending(k) \/ lost > 0

\* An entry that has just been stored agrees with the table, or is one of those
\* that were outdated when they were stored; other entries are as before.
LEMMA ExecutedTold ==
    ASSUME TypeOK, NEW op, op.key \in Keys, Executed(op), UNCHANGED db
    PROVE  /\ ~(Stale(op.key)' /\ current'[op.key])
           /\ \A k \in Keys \ {op.key} : Stale(k)' = Stale(k) /\ current'[k] = current[k]
<1>1. cache'[op.key] = op.value /\ current'[op.key] = (op.value \in {None, db[op.key]})
  BY DEF TypeOK, Executed
<1>2. \A k \in Keys \ {op.key} : cache'[k] = cache[k] /\ current'[k] = current[k]
  BY DEF TypeOK, Executed
<1> QED  BY <1>1, <1>2 DEF Stale

\* A command that is over leaves the other keys' obligations in place.
LEMMA SentPending ==
    ASSUME TypeOK, NEW b \in Backends, ops[b] # <<>>, NEW errors \in Nat,
           errors >= failed[b], Sent(b, errors),
           NEW k \in Keys, Head(ops[b]).key # k \/ errors > 0, Pending(k) \/ errors > 0
    PROVE  Pending(k)' \/ lost' > 0
<1>1. /\ ops[b] \in Seq(Operation) /\ Len(ops[b]) \in Nat \ {0}
      /\ ops'[b] = Tail(ops[b]) /\ Len(ops'[b]) = Len(ops[b]) - 1
      /\ \A i \in 1..Len(ops'[b]) : ops'[b][i] = ops[b][i + 1]
      /\ ops[b][1] = Head(ops[b])
  <2>1. ops[b] \in Seq(Operation) /\ ops'[b] = Tail(ops[b])  BY DEF TypeOK, Sent
  <2> HIDE DEF Operation
  <2>2. Len(ops[b]) \in Nat \ {0}  BY <2>1, EmptySeq
  <2>3. Len(ops'[b]) = Len(ops[b]) - 1
        /\ \A i \in 1..Len(ops'[b]) : ops'[b][i] = ops[b][i + 1]
    BY <2>1, HeadTailProperties
  <2>4. ops[b][1] = Head(ops[b])  BY <2>1
  <2> QED  BY <2>1, <2>2, <2>3, <2>4
<1>2. /\ failed'[b] = IF Len(ops[b]) = 1 THEN 0 ELSE errors
      /\ lost' = lost + IF Len(ops[b]) = 1 THEN errors ELSE 0
      /\ failed[b] \in Nat /\ lost \in Nat
  BY DEF TypeOK, Sent
<1>3. \A c \in Backends \ {b} : ops'[c] = ops[c] /\ failed'[c] = failed[c]
  BY DEF TypeOK, Sent
<1>4. CASE errors > 0
  <2>1. CASE Len(ops[b]) = 1  BY <1>2, <1>4, <2>1
  <2>2. CASE Len(ops[b]) # 1
    <3>1. failed'[b] > 0  BY <1>2, <1>4, <2>2
    <3> QED  BY <3>1 DEF Pending
  <2> QED  BY <2>1, <2>2
<1>5. CASE errors = 0
  <2>1. PICK c \in Backends : failed[c] > 0 \/ \E i \in 1..Len(ops[c]) : ops[c][i].key = k
    BY <1>5 DEF Pending
  <2>2. CASE c # b
    <3>1. failed'[c] = failed[c] /\ ops'[c] = ops[c]  BY <1>3, <2>2
    <3> QED  BY <2>1, <3>1 DEF Pending
  <2>3. CASE c = b
    <3>1. PICK i \in 1..Len(ops[b]) : ops[b][i].key = k  BY <1>2, <1>5, <2>1, <2>3
    <3>2. i # 1  BY <1>1, <1>5, <3>1
    <3>3. i - 1 \in 1..Len(ops'[b]) /\ ops'[b][i - 1] = ops[b][i]  BY <1>1, <3>2
    <3> QED  BY <3>1, <3>3 DEF Pending
  <2> QED  BY <2>2, <2>3
<1> QED  BY <1>4, <1>5

\* A commit leaves the obligation to tell the cache of every key it touches.
LEMMA CommitTold ==
    ASSUME TypeOK, NEW b \in Backends, NEW old, NEW new, NEW queue \in Seq(Operation),
           Commit(b, old, new, queue),
           \A k \in {old, new} \cap Keys : \E i \in 1..Len(queue) : queue[i].key = k,
           NEW k \in Keys, Told(k)
    PROVE  Told(k)'
<1>1. ops'[b] = queue /\ ops[b] = <<>> /\ UNCHANGED <<failed, lost, cache, current>>
  BY DEF Commit, Ready, TypeOK
<1>2. CASE k \in {old, new}
  <2>1. Pending(k)'  BY <1>1, <1>2 DEF Pending
  <2> QED  BY <2>1 DEF Told
<1>3. CASE k \notin {old, new}
  <2>1. db'[k] = db[k]  BY <1>3 DEF Commit
  <2>2. Stale(k)' = Stale(k)  BY <1>1, <2>1 DEF Stale
  <2>3. Pending(k) => Pending(k)'
    <3> SUFFICES ASSUME NEW c \in Backends,
                        failed[c] > 0 \/ \E i \in 1..Len(ops[c]) : ops[c][i].key = k
                 PROVE  Pending(k)'
      BY DEF Pending
    <3>1. CASE failed[c] > 0  BY <1>1, <3>1 DEF Pending
    <3>2. CASE \E i \in 1..Len(ops[c]) : ops[c][i].key = k
      <4>1. c # b  BY <1>1, <3>2
      <4>2. ops'[c] = ops[c]  BY <4>1 DEF Commit, TypeOK
      <4> QED  BY <3>2, <4>2 DEF Pending
    <3> QED  BY <3>1, <3>2
  <2> QED  BY <1>1, <2>2, <2>3 DEF Told
<1> QED  BY <1>2, <1>3

\* A cache that is lost is empty, and nothing in it is stale.
LEMMA LostTold == ASSUME CacheLost, NEW k \in Keys PROVE Told(k)'
<1>1. cache'[k] = None  BY DEF CacheLost
<1> QED  BY <1>1 DEF Told, Stale

LEMMA ToldStep == ASSUME TypeOK, [Next]_vars, NEW k \in Keys, Told(k) PROVE Told(k)'
<1>1. ASSUME NEW b \in Backends, NEW old \in Keys \cup {NullKey},
             NEW new \in Keys \cup {NullKey}, Change(b, old, new)
      PROVE  Told(k)'
  <2> DEFINE queue == evict(old, new)
  <2>1. queue \in Seq(Operation)
        /\ \A j \in {old, new} \cap Keys : \E i \in 1..Len(queue) : queue[i].key = j
    BY EvictTells
  <2>2. Commit(b, old, new, queue)  BY <1>1 DEF Change
  <2> HIDE DEF queue, Operation
  <2> QED  BY <2>1, <2>2, CommitTold
<1>2. ASSUME NEW b \in Backends, NEW c \in Keys, ChangeAndSet(b, c) PROVE Told(k)'
  <2> DEFINE op == Set(c, version + 1)
  <2>1. op \in Operation /\ op.key = c  BY <1>2 DEF ChangeAndSet, Commit, TypeOK, Set
  <2> HIDE DEF op, Operation
  <2>2. <<op>> \in Seq(Operation) /\ 1 \in 1..Len(<<op>>) /\ <<op>>[1].key = c  BY <2>1
  <2>3. Commit(b, c, c, <<op>>)  BY <1>2 DEF ChangeAndSet, op
  <2> QED  BY <2>2, <2>3, CommitTold
<1>3. ASSUME NEW b \in Backends, ApplyOk(b) PROVE Told(k)'
  <2> DEFINE op == Head(ops[b])
  <2>1. op \in Operation  BY <1>3, HeadTailProperties DEF ApplyOk, TypeOK
  <2>2. failed[b] \in Nat  BY DEF TypeOK
  <2>3. CASE op.key = k  BY <1>3, <2>1, <2>3, ExecutedTold DEF ApplyOk, Told
  <2>4. CASE op.key # k
    <3>1. Stale(k)' = Stale(k) /\ current'[k] = current[k]
      BY <1>3, <2>1, <2>4, ExecutedTold DEF ApplyOk
    <3>2. Pending(k) => Pending(k)' \/ lost' > 0
      BY <1>3, <2>2, <2>4, SentPending DEF ApplyOk
    <3>3. lost' >= lost  BY <1>3, <2>2 DEF ApplyOk, Sent, TypeOK
    <3>4. lost > 0 => lost' > 0
      <4>1. lost \in Nat /\ lost' \in Nat  BY <1>3, <2>2 DEF ApplyOk, Sent, TypeOK
      <4> QED  BY <3>3, <4>1
    <3> QED  BY <3>1, <3>2, <3>4 DEF Told
  <2> QED  BY <2>3, <2>4
<1>4. ASSUME NEW b \in Backends, ApplyErr(b) PROVE Told(k)'
  <2>1. failed[b] \in Nat /\ failed[b] + 1 \in Nat /\ failed[b] + 1 >= failed[b] /\ failed[b] + 1 > 0
    BY DEF TypeOK
  <2>2. Pending(k)' \/ lost' > 0  BY <1>4, <2>1, SentPending DEF ApplyErr
  <2> QED  BY <2>2 DEF Told
<1>5. CASE ExecuteLate
  <2>1. PICK op \in late : Executed(op)  BY <1>5 DEF ExecuteLate
  <2>2. op.key \in Keys  BY DEF TypeOK
  <2>3. UNCHANGED <<db, ops, failed, lost>>  BY <1>5 DEF ExecuteLate
  <2> QED  BY <2>1, <2>2, <2>3, ExecutedTold DEF Told, Pending
<1>6. ASSUME NEW c \in Keys, Forget(c) PROVE Told(k)'
  <2>1. Del(c).key \in Keys  BY DEF Del
  <2>2. Executed(Del(c)) /\ UNCHANGED <<db, ops, failed, lost>>  BY <1>6 DEF Forget
  <2> QED  BY <2>1, <2>2, ExecutedTold DEF Told, Pending
<1>7. ASSUME NEW r \in Readers, NEW c \in Keys, Miss(r, c) PROVE Told(k)'
  BY <1>7 DEF Miss, Told, Stale, Pending
<1>8. ASSUME NEW r \in Readers, Refill(r) PROVE Told(k)'
  <2>1. UNCHANGED <<db, ops, failed, lost>> /\ refill[r].key \in Keys  BY <1>8 DEF Refill
  <2>2. CASE Executed(refill[r])  BY <2>1, <2>2, ExecutedTold DEF Told, Pending
  <2>3. CASE UNCHANGED <<cache, current>>  BY <2>1, <2>3 DEF Told, Stale, Pending
  <2> QED  BY <1>8, <2>2, <2>3 DEF Refill
<1>9. CASE MainStepS \/ ThreadStepS \/ WorkerFaultS
  <2>1. CacheFollows /\ UNCHANGED <<tableVars, backendVars>>
    BY <1>9 DEF MainStepS, ThreadStepS, WorkerFaultS
  <2>2. CASE UNCHANGED cacheVars  BY <2>1, <2>2 DEF Told, Stale, Pending
  <2> QED  BY <2>1, <2>2, LostTold DEF CacheFollows
<1>10. CASE ClusterRestart  BY <1>10, LostTold DEF ClusterRestart
<1>11. CASE UNCHANGED vars  BY <1>11 DEF vars, Told, Stale, Pending
<1> QED
  BY <1>1, <1>2, <1>3, <1>4, <1>5, <1>6, <1>7, <1>8, <1>9, <1>10, <1>11 DEF Next, Apply

LEMMA InitSystem == Init => TypeOK /\ StaleOnlyIfCounted
<1> SUFFICES ASSUME Init PROVE TypeOK /\ StaleOnlyIfCounted  OBVIOUS
<1>1. db \in [Keys -> {None} \cup Versions] /\ version \in Versions
  <2> DEFINE first == CHOOSE k \in Keys : TRUE
  <2>1. version \in Versions /\ db = [Empty EXCEPT ![first] = 1]  BY DEF Init
  <2>2. 1 \in {None} \cup Versions /\ Empty \in [Keys -> {None} \cup Versions]  OBVIOUS
  <2> HIDE DEF first, Versions, Empty, None
  <2> QED  BY <2>1, <2>2
<1>2. ops \in [Backends -> Seq(Operation)] /\ failed \in [Backends -> Nat] /\ lost \in Nat
  BY DEF Init
<1>3. cache \in [Keys -> {None} \cup Versions] /\ late \subseteq Operation  BY DEF Init
<1>4. current \in [Keys -> BOOLEAN]  BY Zenon DEF Init
<1>5. refill \in [Readers -> [key : Keys \cup {NullKey}, value : {None} \cup Versions]]
  BY DEF Init, Del
<1>6. TypeOK  BY InitWatch, <1>1, <1>2, <1>3, <1>4, <1>5 DEF TypeOK, Init
<1>7. StaleOnlyIfCounted  BY DEF Init, StaleOnlyIfCounted, Stale
<1> QED  BY <1>6, <1>7

\* The worker, the table, the callbacks, the cache and the readers keep their
\* types, with any number of sessions, readers and keys.
THEOREM SystemTypes == Spec => []TypeOK
<1>1. TypeOK /\ WatchInv /\ [Next]_vars => TypeOK' /\ WatchInv'
  BY WorkerMoves, WatchStep, TypeStep
<1>2. Init => TypeOK /\ WatchInv  BY InitSystem, InitWatch DEF Init
<1> QED  BY <1>1, <1>2, PTL DEF Spec

\* An entry that agreed with the table when it was stored can disagree with it
\* only while the callback of a committed transaction has still to tell the
\* cache, or after a failed command was counted in INVALIDATIONS_LOST: whatever
\* the number of sessions, through worker and cluster restarts, commands executed
\* late and changes of the key column (resp.evict, apply_queue,
\* count_lost_invalidations).
THEOREM StalenessCounted == Spec => []StaleOnlyIfCounted
<1>1. TypeOK /\ StaleOnlyIfCounted /\ [Next]_vars => StaleOnlyIfCounted'
  <2> SUFFICES ASSUME TypeOK, \A k \in Keys : Told(k), [Next]_vars
               PROVE  \A k \in Keys : Told(k)'
    BY DEF StaleOnlyIfCounted, Told
  <2> QED  BY ToldStep
<1> QED  BY InitSystem, <1>1, SystemTypes, PTL DEF Spec
=============================================================================
