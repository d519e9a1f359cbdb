------------------------------- MODULE System -------------------------------
(***************************************************************************)
(* The whole of pg_resp around one cached table: backends that change rows *)
(* and tell the cache after commit (crates/pg_resp/src/sql.rs), the worker *)
(* that holds the cache (module Worker), and clients that read through the *)
(* cache and fill it on a miss, as the applications of demos/ do.          *)
(*                                                                         *)
(* A row is the value of its key column and a version number.  The cache   *)
(* maps keys to versions.  CommitQueue has the queue of one backend before *)
(* the commit, with rollbacks and savepoints; here a transaction starts    *)
(* with its commit, before which nobody else sees any of it, changes one   *)
(* row, and has a queue of at most two operations.  RespClient has the     *)
(* client in full; here a command succeeds, or fails with its execution    *)
(* left open, now or when the server gets to it.                           *)
(***************************************************************************)
EXTENDS Worker, Sequences

CONSTANTS
    Keys,       \* values of the key column, each with its cache key
    NullKey,    \* a NULL in the key column, or no row
    Backends,   \* Postgres sessions
    Readers,    \* cache-aside clients
    MaxVersion  \* bound: row changes in a behaviour

ASSUME SystemAssumption == NullKey \notin Keys /\ MaxVersion \in Nat \ {0}

VARIABLES
    db,       \* db[k]: version of the committed row with key k
    version,  \* versions committed so far
    ops,      \* ops[b]: what the callback of backend b has still to send
    failed,   \* failed[b]: how many of its commands have failed
    lost,     \* INVALIDATIONS_LOST, in shared memory
    cache,    \* cache[k]: version stored under the cache key of k
    late,     \* operations received and not yet executed, their client gone
    refill,   \* refill[r]: the row a reader is about to store
    current   \* current[k]: the entry of k agreed with db when it was stored

tableVars == <<db, version>>
backendVars == <<ops, failed, lost>>
cacheVars == <<cache, late, current>>
vars == <<workerVars, tableVars, backendVars, cacheVars, refill>>

Versions == 1..MaxVersion
None == 0
Del(k) == [key |-> k, value |-> None]
Set(k, v) == [key |-> k, value |-> v]
Operation == [key : Keys, value : {None} \cup Versions]

Empty == [k \in Keys |-> None]

\* Between statements: a backend does nothing else while its callback runs.
Ready(b) == ops[b] = <<>>

-----------------------------------------------------------------------------
(***************************************************************************)
(* Transactions.                                                           *)
(***************************************************************************)
\* Faulty variant of evict: only the key of the row as it is now.
evict_new(old, new) == IF new \in Keys THEN <<Del(new)>> ELSE <<>>

\* resp.evict: the keys of OLD and NEW, without NULLs, each once.
evict(old, new) ==
    (IF old \in Keys THEN <<Del(old)>> ELSE <<>>)
        \o (IF new \in Keys \ {old} THEN <<Del(new)>> ELSE <<>>)

\* The row with key old becomes a row with key new, visible to everyone, and
\* then the Commit callback takes the queue.
Commit(b, old, new, queue) ==
    /\ Ready(b) /\ version < MaxVersion
    /\ version' = version + 1
    /\ db' = [k \in Keys |-> IF k = new THEN version' ELSE IF k = old THEN None ELSE db[k]]
    /\ ops' = [ops EXCEPT ![b] = queue]
    /\ UNCHANGED <<workerVars, failed, lost, cacheVars, refill>>

\* INSERT, UPDATE (of the key column too) or DELETE under the evict trigger.
Change(b, old, new) ==
    /\ old # NullKey \/ new # NullKey
    /\ old \in Keys => db[old] # None
    /\ new \in Keys \ {old} => db[new] = None
    /\ Commit(b, old, new, evict(old, new))

\* UPDATE of a row and resp.set of its new value in one transaction.
ChangeAndSet(b, k) ==
    /\ db[k] # None
    /\ Commit(b, k, k, <<Set(k, version + 1)>>)

-----------------------------------------------------------------------------
(***************************************************************************)
(* The cache's side of a command.                                          *)
(***************************************************************************)
Executed(op) ==
    /\ cache' = [cache EXCEPT ![op.key] = op.value]
    /\ current' = [current EXCEPT ![op.key] = op.value \in {None, db[op.key]}]

\* Faulty variant of Sent: a failure is a warning only.
SentUncounted(b, errors) ==
    /\ ops' = [ops EXCEPT ![b] = Tail(@)]
    /\ failed' = [failed EXCEPT ![b] = IF Len(ops[b]) = 1 THEN 0 ELSE errors]
    /\ lost' = lost

\* One command of apply_queue is over, with this many errors so far; after the
\* last one `if failed > 0 { count_lost_invalidations(failed) .. }`.
Sent(b, errors) ==
    /\ ops' = [ops EXCEPT ![b] = Tail(@)]
    /\ failed' = [failed EXCEPT ![b] = IF Len(ops[b]) = 1 THEN 0 ELSE errors]
    /\ lost' = lost + IF Len(ops[b]) = 1 THEN errors ELSE 0

ApplyOk(b) ==
    /\ ops[b] # <<>> /\ Serving
    /\ Executed(Head(ops[b]))
    /\ Sent(b, failed[b])
    /\ UNCHANGED <<workerVars, tableVars, late, refill>>

\* The command fails: its connection is lost, with the command executed or not;
\* or the server is silent and has received it; or it cannot be reached, with the
\* command refused or waiting in the backlog; or no one listens.
ApplyErr(b) ==
    /\ ops[b] # <<>>
    /\ \/ Serving /\ Fault /\ Executed(Head(ops[b])) /\ late' = late
       \/ Serving /\ Fault /\ UNCHANGED cacheVars
       \/ Silent /\ late' = late \cup {Head(ops[b])} /\ UNCHANGED <<faults, cache, current>>
       \/ /\ Serving /\ ~reachable /\ late' \in {late, late \cup {Head(ops[b])}}
          /\ UNCHANGED <<faults, cache, current>>
       \/ thread \in {"none", "ended"} /\ UNCHANGED <<faults, cacheVars>>
    /\ Sent(b, failed[b] + 1)
    /\ UNCHANGED <<processVars, tableVars, refill>>

ExecuteLate ==
    /\ Serving
    /\ \E op \in late : Executed(op) /\ late' = late \ {op}
    /\ UNCHANGED <<workerVars, tableVars, backendVars, refill>>

\* An entry's TTL ends or the store evicts it.
Forget(k) ==
    /\ Serving /\ cache[k] # None
    /\ Executed(Del(k))
    /\ UNCHANGED <<workerVars, tableVars, backendVars, late, refill>>

-----------------------------------------------------------------------------
(***************************************************************************)
(* A cache-aside client: GET, and on a miss SELECT and SET.                *)
(***************************************************************************)
Miss(r, k) ==
    /\ Serving /\ cache[k] = None /\ db[k] # None
    /\ refill[r].key = NullKey
    /\ refill' = [refill EXCEPT ![r] = [key |-> k, value |-> db[k]]]
    /\ UNCHANGED <<workerVars, tableVars, backendVars, cacheVars>>

Refill(r) ==
    /\ refill[r].key \in Keys
    /\ \/ Serving /\ Executed(refill[r])
       \/ ~(Serving /\ reachable) /\ UNCHANGED <<cache, current>>
    /\ refill' = [refill EXCEPT ![r] = Del(NullKey)]
    /\ UNCHANGED <<workerVars, tableVars, backendVars, late>>

-----------------------------------------------------------------------------
(***************************************************************************)
(* The worker: the cache lives and dies with the server thread, the        *)
(* counter and the sessions with the cluster.                              *)
(***************************************************************************)
CacheLost ==
    /\ cache' = Empty /\ late' = {}
    /\ current' = [k \in Keys |-> TRUE]

CacheFollows ==
    \/ thread' \notin {"none", "ended"} /\ UNCHANGED cacheVars
    \/ thread' \in {"none", "ended"} /\ CacheLost

MainStepS == MainStep /\ CacheFollows /\ UNCHANGED <<tableVars, backendVars, refill>>
ThreadStepS == ThreadStep /\ CacheFollows /\ UNCHANGED <<tableVars, backendVars, refill>>

WorkerFaultS ==
    /\ WorkerFault \/ Unclog \/ Sigterm
    /\ CacheFollows
    /\ UNCHANGED <<tableVars, backendVars, refill>>

\* Postgres restarts all of it: sessions end, shared memory starts from zero.
ClusterRestart ==
    /\ Crash /\ CacheLost
    /\ ops' = [b \in Backends |-> <<>>] /\ failed' = [b \in Backends |-> 0]
    /\ lost' = 0
    /\ UNCHANGED <<tableVars, refill>>

-----------------------------------------------------------------------------
Init ==
    /\ WorkerInit
    /\ db = [Empty EXCEPT ![CHOOSE k \in Keys : TRUE] = 1]
    /\ version = 1
    /\ ops = [b \in Backends |-> <<>>] /\ failed = [b \in Backends |-> 0] /\ lost = 0
    /\ cache = Empty /\ late = {} /\ current = [k \in Keys |-> TRUE]
    /\ refill = [r \in Readers |-> Del(NullKey)]

Apply == \E b \in Backends : ApplyOk(b) \/ ApplyErr(b)

Next ==
    \/ \E b \in Backends, old, new \in Keys \cup {NullKey} : Change(b, old, new)
    \/ \E b \in Backends, k \in Keys : ChangeAndSet(b, k)
    \/ Apply
    \/ ExecuteLate
    \/ \E k \in Keys : Forget(k)
    \/ \E r \in Readers, k \in Keys : Miss(r, k)
    \/ \E r \in Readers : Refill(r)
    \/ MainStepS \/ ThreadStepS \/ WorkerFaultS \/ ClusterRestart

\* The scheduler runs both threads of the worker; a long command ends.  Nothing
\* is assumed of backends and clients.
Spec ==
    /\ Init /\ [][Next]_vars
    /\ WF_vars(MainStepS) /\ WF_vars(ThreadStepS)

-----------------------------------------------------------------------------
(***************************************************************************)
(* Properties.                                                             *)
(***************************************************************************)
TypeOK ==
    /\ WorkerTypeOK
    /\ db \in [Keys -> {None} \cup Versions] /\ version \in Versions
    /\ ops \in [Backends -> Seq(Operation)] /\ failed \in [Backends -> Nat] /\ lost \in Nat
    /\ cache \in [Keys -> {None} \cup Versions] /\ late \subseteq Operation
    /\ current \in [Keys -> BOOLEAN]
    /\ refill \in [Readers -> [key : Keys \cup {NullKey}, value : {None} \cup Versions]]

Stale(k) == cache[k] \notin {None, db[k]}

\* A callback has still to tell the cache of k, or to count a failure.
Pending(k) ==
    \E b \in Backends : failed[b] > 0 \/ \E i \in 1..Len(ops[b]) : ops[b][i].key = k

\* An entry that agreed with the table when it was stored agrees with it
\* whenever no committed transaction still has to tell the cache, through
\* changes of the key column, worker restarts and long commands, unless
\* invalidations_lost says otherwise (docs/semantics.md, 3.2 and 3.3).  The
\* entries left out are those already outdated when they were stored: by a
\* reader that read before a commit, or by the later of two callbacks.
StaleOnlyIfCounted ==
    \A k \in Keys : Stale(k) /\ current[k] => Pending(k) \/ lost > 0
=============================================================================
