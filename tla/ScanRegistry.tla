---------------------------- MODULE ScanRegistry ----------------------------
(***************************************************************************)
(* SCAN, crates/resp-store/src/scan.rs: a scan works through a snapshot of *)
(* the live keys taken at its start, kept in a registry of at most         *)
(* MaxCursors snapshots.  A cursor that is unknown, idle for too long or   *)
(* pushed out by newer ones makes the call start over with a fresh         *)
(* snapshot and a new cursor.                                              *)
(*                                                                         *)
(* A snapshot is the set of its keys that are still to be returned,        *)
(* snapshot[position..]; as nobody sees its order, a page is any part of   *)
(* it of the right size.  Instead of last_used a cursor has its age, which *)
(* is capped at the idle expiry.                                           *)
(*                                                                         *)
(* Clients iterate: they start with cursor 0, send back the cursor they    *)
(* received and stop when they receive 0.  They may give up at any time    *)
(* and start over.  `seen` and `stable` record, for the properties, what a *)
(* client has received and which keys were live since its scan began.      *)
(***************************************************************************)
EXTENDS Integers, FiniteSets, Functions

CONSTANTS
    Keys,
    Clients,
    MaxCursors, \* MAX_LIVE_CURSORS
    IdleExpiry, \* CURSOR_IDLE_EXPIRY, in ticks
    MaxCount,   \* bound: the largest COUNT a client asks for
    MaxId       \* bound: cursor ids handed out, u64 in the code

ASSUME RegistryAssumption ==
    /\ IsFiniteSet(Keys)
    /\ MaxCursors \in Nat \ {0}
    /\ IdleExpiry \in Nat \ {0}
    /\ MaxCount \in Nat \ {0}
    /\ MaxId \in Nat

Ids == 1..MaxId
Age == 0..IdleExpiry
ScanState == [rest : SUBSET Keys, age : Age]

VARIABLES
    live,     \* the live keys of the store
    cursors,  \* the registry: id -> ScanState
    next_id,  \* the last id handed out
    scans     \* what each client knows of its scan

vars == <<live, cursors, next_id, scans>>

Scan == [phase : {"none", "running", "done"}, cursor : 0..MaxId,
         seen : SUBSET Keys, stable : SUBSET Keys]

Running(c) == scans[c].phase = "running"

-----------------------------------------------------------------------------
(***************************************************************************)
(* The registry.                                                           *)
(***************************************************************************)
Fresh(i) == cursors[i].age < IdleExpiry

\* `if let Some(state) ... now.duration_since(state.last_used) < CURSOR_IDLE_EXPIRY`
Hit(id) == id \in DOMAIN cursors /\ Fresh(id)

\* The pages take_page can return for COUNT n out of the keys left.
Page(rest, n) ==
    {P \in SUBSET rest :
        Cardinality(P) = IF n < Cardinality(rest) THEN n ELSE Cardinality(rest)}

\* Faulty variant of Kept: stale cursors go, but there is no capacity limit.
KeptFresh(K) == K = {i \in DOMAIN cursors : Fresh(i)}

\* evict_stale_and_over_capacity leaves the ids in K: no stale one, room for
\* one more, and of the fresh ones the most recently used.
Kept(K) ==
    LET fresh == {i \in DOMAIN cursors : Fresh(i)}
    IN  /\ K \subseteq fresh
        /\ \/ K = fresh /\ Cardinality(K) < MaxCursors
           \/ Cardinality(fresh) >= MaxCursors /\ Cardinality(K) = MaxCursors - 1
        /\ \A i \in K, j \in fresh \ K : cursors[i].age <= cursors[j].age

\* start with page P of a fresh snapshot; next is the cursor of the reply.
start(P, next) ==
    /\ next_id < MaxId
    /\ next_id' = next_id + 1
    /\ next = IF live \ P = {} THEN 0 ELSE next_id'
    /\ \E K \in SUBSET DOMAIN cursors :
          /\ Kept(K)
          /\ cursors' = IF next = 0 THEN Restrict(cursors, K)
                        ELSE [i \in K \cup {next} |->
                                IF i = next THEN [rest |-> live \ P, age |-> 0]
                                ELSE cursors[i]]

\* Faulty variant of continue_scan: position is not moved.
continue_in_place(id, P, next) ==
    /\ next = id
    /\ cursors' = [cursors EXCEPT ![id].age = 0]
    /\ UNCHANGED next_id

\* Another one: an exhausted snapshot is not dropped.
continue_keeping(id, P, next) ==
    LET left == cursors[id].rest \ P
    IN  /\ next = IF left = {} THEN 0 ELSE id
        /\ cursors' = [cursors EXCEPT ![id] = [rest |-> left, age |-> 0]]
        /\ UNCHANGED next_id

\* A third: the cursor carries on with the keys that are live now.
continue_refilling(id, P, next) ==
    LET left == live \ P
    IN  /\ next = IF left = {} THEN 0 ELSE id
        /\ cursors' = IF left = {} THEN Restrict(cursors, DOMAIN cursors \ {id})
                      ELSE [cursors EXCEPT ![id] = [rest |-> left, age |-> 0]]
        /\ UNCHANGED next_id

\* The hit: page P of the cursor's snapshot, which is dropped when exhausted.
continue_scan(id, P, next) ==
    LET left == cursors[id].rest \ P
    IN  /\ next = IF left = {} THEN 0 ELSE id
        /\ cursors' = IF left = {} THEN Restrict(cursors, DOMAIN cursors \ {id})
                      ELSE [cursors EXCEPT ![id] = [rest |-> left, age |-> 0]]
        /\ UNCHANGED next_id

-----------------------------------------------------------------------------
(***************************************************************************)
(* Clients.                                                                *)
(***************************************************************************)
Received(next, seen, stable) ==
    [phase |-> IF next = 0 THEN "done" ELSE "running", cursor |-> next,
     seen |-> seen, stable |-> stable]

\* SCAN 0, also in the middle of a scan, which is then abandoned.
Begin(c) ==
    /\ \E n \in 1..MaxCount : \E P \in Page(live, n), next \in 0..MaxId :
          /\ start(P, next)
          /\ scans' = [scans EXCEPT ![c] = Received(next, P, live)]
    /\ UNCHANGED live

ContinueHit(c) ==
    /\ Running(c) /\ Hit(scans[c].cursor)
    /\ \E n \in 1..MaxCount : \E P \in Page(cursors[scans[c].cursor].rest, n), next \in 0..MaxId :
          /\ continue_scan(scans[c].cursor, P, next)
          /\ scans' = [scans EXCEPT ![c] = Received(next, @.seen \cup P, @.stable)]
    /\ UNCHANGED live

\* Faulty variant of ContinueMiss: an unknown cursor ends the scan.
EndOnMiss(c) ==
    /\ Running(c) /\ ~Hit(scans[c].cursor)
    /\ scans' = [scans EXCEPT ![c] = Received(0, @.seen, @.stable)]
    /\ UNCHANGED <<live, cursors, next_id>>

\* "Miss (unknown id) or expired": the scan starts over.
ContinueMiss(c) ==
    /\ Running(c) /\ ~Hit(scans[c].cursor)
    /\ \E n \in 1..MaxCount : \E P \in Page(live, n), next \in 0..MaxId :
          /\ start(P, next)
          /\ scans' = [scans EXCEPT ![c] = Received(next, @.seen \cup P, @.stable)]
    /\ UNCHANGED live

-----------------------------------------------------------------------------
(***************************************************************************)
(* The rest of the system: keys come and go, time passes.                  *)
(***************************************************************************)
KeyAppears(k) ==
    /\ live' = live \cup {k}
    /\ UNCHANGED <<cursors, next_id, scans>>

\* DEL, expiry, eviction.  The key is no longer stable for a running scan.
KeyGoes(k) ==
    /\ live' = live \ {k}
    /\ scans' = [c \in Clients |-> IF Running(c) THEN [scans[c] EXCEPT !.stable = @ \ {k}]
                                   ELSE scans[c]]
    /\ UNCHANGED <<cursors, next_id>>

Tick ==
    /\ cursors' = [i \in DOMAIN cursors |->
                     IF Fresh(i) THEN [cursors[i] EXCEPT !.age = @ + 1] ELSE cursors[i]]
    /\ UNCHANGED <<live, next_id, scans>>

Init ==
    /\ live \in SUBSET Keys
    /\ cursors = [i \in {} |-> {}]
    /\ next_id = 0
    /\ scans = [c \in Clients |-> [phase |-> "none", cursor |-> 0, seen |-> {}, stable |-> {}]]

Next ==
    \/ \E c \in Clients : Begin(c) \/ ContinueHit(c) \/ ContinueMiss(c)
    \/ \E k \in Keys : KeyAppears(k) \/ KeyGoes(k)
    \/ Tick

\* A client in the middle of an iteration asks for the next page.
Fairness == \A c \in Clients : WF_vars(ContinueHit(c))

Spec == Init /\ [][Next]_vars /\ Fairness

-----------------------------------------------------------------------------
(***************************************************************************)
(* An unreliable connection and a worker that restarts.                    *)
(***************************************************************************)
\* The server has executed the call and the connection broke before the reply:
\* the client, or its library, sends the same cursor again.
LoseReply(c) ==
    /\ Running(c) /\ Hit(scans[c].cursor)
    /\ \E n \in 1..MaxCount : \E P \in Page(cursors[scans[c].cursor].rest, n), next \in 0..MaxId :
          continue_scan(scans[c].cursor, P, next)
    /\ UNCHANGED <<live, scans>>

\* Postgres restarts the worker: an empty store, and ids start again at 1.
WorkerRestart ==
    /\ live' = {} /\ cursors' = [i \in {} |-> {}] /\ next_id' = 0
    /\ scans' = [c \in Clients |-> IF Running(c) THEN [scans[c] EXCEPT !.stable = {}]
                                   ELSE scans[c]]

NextUnreliable == Next \/ WorkerRestart \/ \E c \in Clients : LoseReply(c)
SpecUnreliable == Init /\ [][NextUnreliable]_vars /\ Fairness

-----------------------------------------------------------------------------
(***************************************************************************)
(* Properties.                                                             *)
(***************************************************************************)
\* Every variable has its type, and no live cursor is exhausted.
TypeOK ==
    /\ live \subseteq Keys
    /\ DOMAIN cursors \subseteq Ids
    /\ \A i \in DOMAIN cursors : cursors[i] \in ScanState /\ cursors[i].rest # {}
    /\ next_id \in 0..MaxId
    /\ scans \in [Clients -> Scan]

\* A scan that has ended has returned every key that was live from its first
\* call to its last, through any number of restarts, evicted or expired cursors
\* and scans of other clients (the guarantee of ScanRegistry: "no misses of
\* stable keys, dups possible").
NoStableKeyMissed ==
    \A c \in Clients : scans[c].phase = "done" => scans[c].stable \subseteq scans[c].seen

\* The registry never holds more than MAX_LIVE_CURSORS snapshots, however many
\* clients start scans and abandon them.
RegistryBounded == Cardinality(DOMAIN cursors) <= MaxCursors

\* A scan whose cursor is not dropped comes to its end: every page makes
\* progress (take_page).
CachedScanEnds ==
    \A c \in Clients :
        Running(c) /\ Hit(scans[c].cursor) ~> ~(Running(c) /\ Hit(scans[c].cursor))

\* A page taken from a snapshot is received by the client that holds its cursor
\* and gone from the snapshot, which is dropped with its last key.
PageTaken(c) ==
    LET id == scans[c].cursor
        left == IF id \in DOMAIN cursors' THEN cursors'[id].rest ELSE {}
    IN  /\ left \subseteq cursors[id].rest /\ left # cursors[id].rest
        /\ cursors[id].rest \ left \subseteq scans'[c].seen
        /\ scans'[c].cursor = IF left = {} THEN 0 ELSE id

\* Every call with a cursor that is found takes a page of at least one key, and
\* no call of another client, no write and no eviction puts a key back: the
\* number of calls a snapshot lasts is bounded by its size (continue_scan).
SnapshotsShrinkStep ==
    /\ \A c \in Clients : ContinueHit(c) => PageTaken(c)
    /\ \A i \in DOMAIN cursors \cap DOMAIN cursors' : cursors'[i].rest \subseteq cursors[i].rest
SnapshotsShrink == [][SnapshotsShrinkStep]_vars

-----------------------------------------------------------------------------
(***************************************************************************)
(* The inductive invariant behind NoStableKeyMissed.                       *)
(***************************************************************************)
\* Cursor ids are handed out once, so no two clients hold the same one.
OwnershipInv ==
    /\ DOMAIN cursors \subseteq 1..next_id
    /\ \A c \in Clients : Running(c) => scans[c].cursor \in 1..next_id
    /\ \A c, d \in Clients :
          Running(c) /\ Running(d) /\ scans[c].cursor = scans[d].cursor => c = d

\* What a running scan has not seen of its stable keys is still to come in its
\* snapshot, or, if that was dropped, in the next one: the keys are live.
CoverageInv ==
    \A c \in Clients : Running(c) =>
        /\ scans[c].stable \subseteq live
        /\ scans[c].cursor \in DOMAIN cursors =>
              scans[c].stable \subseteq scans[c].seen \cup cursors[scans[c].cursor].rest

IndInv == TypeOK /\ OwnershipInv /\ CoverageInv /\ NoStableKeyMissed
=============================================================================
