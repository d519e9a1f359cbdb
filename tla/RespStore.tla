----------------------------- MODULE RespStore -----------------------------
(***************************************************************************)
(* The in-memory store of crates/resp-store/src/lib.rs: one HashMap of     *)
(* entries with an optional expiry deadline and a CLOCK bit, an exact byte *)
(* account, lazy expiry on access, an active expiry sweep and an eviction  *)
(* loop that runs at the end of every write.                               *)
(*                                                                         *)
(* The store belongs to the event loop's single thread, so a command is    *)
(* atomic.  Two loops inside a command are nevertheless written as one     *)
(* step per iteration, with every other action blocked until the loop has  *)
(* ended: the `while` of evict_to_budget (protect # Nil) and the removals  *)
(* of active_expire_sweep (doomed # {}).  That keeps each step a change of *)
(* one key.  The multi-key commands DEL, EXISTS, MGET and MSET iterate a   *)
(* body that is, key by key, the single-key command; the model has that    *)
(* body, and a multi-key command is a run of it.                           *)
(*                                                                         *)
(* Time is relative: an entry holds the ticks left until its deadline      *)
(* instead of the deadline, and Tick lowers them together.  `now <         *)
(* deadline` is then `ticks left > 0`.                                     *)
(***************************************************************************)
EXTENDS Integers, FiniteSets, FiniteSetsExt

CONSTANTS
    Keys,           \* the keys clients use
    Value,          \* the byte strings clients store
    IntMin, IntMax, \* the range of i64
    Parse,          \* Parse[v]: the i64 that v spells, or NotInt
    Render,         \* Render[n]: the byte string that spells n
    KeyLen,         \* KeyLen[k]: bytes of k
    ValueLen,       \* ValueLen[v]: bytes of v
    Overhead,       \* PER_ENTRY_OVERHEAD_BYTES
    Budget,         \* max_memory_bytes: a number of bytes, or Unlimited
    SampleSize,     \* DEFAULT_SAMPLE_SIZE, keys an eviction pass looks at
    SweepSize,      \* ACTIVE_EXPIRE_SAMPLE_SIZE, keys a sweep looks at
    TicksPerSecond, \* resolution of the clock
    MaxTtl,         \* bound: the furthest deadline, in ticks from now
    Slots,          \* bound: positions in the HashMap's iteration order
    NoEntry, NoTtl, NotInt, Unlimited, Nil

Ints == IntMin..IntMax
Ttl == (0..MaxTtl) \cup {NoTtl}
Entry == [value : Value, expires_in : Ttl, clock_bit : BOOLEAN]

ASSUME IntAssumption ==
    /\ IntMin \in Int /\ IntMax \in Int
    /\ 0 \in Ints
    /\ NotInt \notin Ints
    /\ Render \in [Ints -> Value]
    /\ Parse \in [Value -> Ints \cup {NotInt}]
    /\ \A n \in Ints : Parse[Render[n]] = n

ASSUME SizeAssumption ==
    /\ KeyLen \in [Keys -> Nat]
    /\ ValueLen \in [Value -> Nat]
    /\ Overhead \in Nat
    /\ Unlimited \notin Nat
    /\ Budget \in Nat \cup {Unlimited}
    /\ IsFiniteSet(Keys)

\* With a sample of one the loop could look at the protected key alone and
\* stop with other keys left to evict; the code samples 20.
ASSUME SampleAssumption ==
    /\ SampleSize \in Nat /\ SampleSize >= 2
    /\ SweepSize \in Nat
    /\ Slots \in Nat

ASSUME TimeAssumption ==
    /\ MaxTtl \in Nat
    /\ TicksPerSecond \in Nat \ {0}
    /\ NoTtl \notin Int

ASSUME SentinelAssumption ==
    /\ NoEntry \notin Entry
    /\ Nil \notin Keys /\ Nil \notin Value /\ Nil \notin [value : Value, ttl : Ttl]

VARIABLES
    map,        \* key -> entry or NoEntry
    used_bytes, \* the byte account
    slot,       \* position of each key in the HashMap's iteration order
    hits, misses, evictions,
    protect,    \* the key whose write is evicting, Nil outside the loop
    doomed,     \* keys the running sweep has still to remove
    reply       \* what the last command returned

vars == <<map, used_bytes, slot, hits, misses, evictions, protect, doomed, reply>>

-----------------------------------------------------------------------------

(***************************************************************************)
(* Helpers.                                                                *)
(***************************************************************************)
entry_bytes(k, v) == KeyLen[k] + ValueLen[v] + Overhead

is_live(e) == e.expires_in # NoTtl => e.expires_in > 0

Present == {k \in Keys : map[k] # NoEntry}
Live(k) == map[k] # NoEntry /\ is_live(map[k])
Expired(k) == map[k] # NoEntry /\ ~is_live(map[k])

\* Iteration orders of the table.  An insertion of a new key may land
\* anywhere, and may grow the table and reorder it.
Layouts == {f \in [Keys -> 1..Slots] : \A a, b \in Keys : f[a] = f[b] => a = b}

\* The first n keys of `self.map.iter()`.
FirstKeys(n) ==
    {k \in Present : Cardinality({j \in Present : slot[j] < slot[k]}) < n}

Idle == protect = Nil /\ doomed = {}

OverBudget == Budget # Unlimited /\ used_bytes > Budget

\* remove_accounted, as the two assignments it makes when k is present.
remove_accounted(k) ==
    /\ map' = [map EXCEPT ![k] = NoEntry]
    /\ used_bytes' = used_bytes - entry_bytes(k, map[k].value)

\* Lazy expiry on access.
expire_if_needed(k) ==
    \/ Expired(k) /\ remove_accounted(k)
    \/ ~Expired(k) /\ UNCHANGED <<map, used_bytes>>

Hit == hits' = hits + 1 /\ UNCHANGED misses
Miss == misses' = misses + 1 /\ UNCHANGED hits

\* Faulty variant of insert_accounted: an overwritten entry stays on the account.
insert_without_replacing(k, v, t) ==
    /\ map' = [map EXCEPT ![k] = [value |-> v, expires_in |-> t, clock_bit |-> TRUE]]
    /\ used_bytes' = used_bytes + entry_bytes(k, v)
    /\ slot' \in IF Live(k) THEN {slot} ELSE Layouts
    /\ protect' = IF OverBudget' THEN k ELSE Nil

\* insert_accounted up to its call of evict_to_budget, which the loop steps
\* below carry out whenever the write has left the store over budget.
insert_accounted(k, v, t) ==
    /\ map' = [map EXCEPT ![k] = [value |-> v, expires_in |-> t, clock_bit |-> TRUE]]
    /\ used_bytes' = used_bytes + entry_bytes(k, v)
          - (IF map[k] = NoEntry THEN 0 ELSE entry_bytes(k, map[k].value))
    /\ slot' \in IF Live(k) THEN {slot} ELSE Layouts
    /\ protect' = IF OverBudget' THEN k ELSE Nil

-----------------------------------------------------------------------------
(***************************************************************************)
(* evict_to_budget: one iteration of its while loop per step.              *)
(***************************************************************************)
Candidates == FirstKeys(SampleSize) \ {protect}
Unused == {k \in Candidates : ~map[k].clock_bit}

Earliest(k, S) == k \in S /\ \A j \in S : slot[k] <= slot[j]

\* Faulty variant of Victim: the pass takes the first candidate it meets.
VictimFirst(v) == Earliest(v, Candidates)

\* The first candidate with a clear bit, or else the first candidate.
Victim(v) == Earliest(v, IF Unused # {} THEN Unused ELSE Candidates)

\* The candidates whose bit the pass clears before it stops at v.
Passed(v) ==
    IF Unused # {} THEN {k \in Candidates : slot[k] < slot[v]} ELSE Candidates

Evict(v) ==
    /\ map' = [k \in Keys |-> IF k = v THEN NoEntry
                              ELSE IF k \in Passed(v)
                                   THEN [map[k] EXCEPT !.clock_bit = FALSE]
                                   ELSE map[k]]
    /\ used_bytes' = used_bytes - entry_bytes(v, map[v].value)
    /\ evictions' = evictions + 1

\* Faulty variants of EvictOne: an `if` where the code has a `while` ...
EvictOnce ==
    /\ protect # Nil
    /\ \E v \in Candidates : Victim(v) /\ Evict(v)
    /\ protect' = Nil
    /\ UNCHANGED <<slot, hits, misses, doomed, reply>>
\* ... and a loop that does not skip the key just written.
EvictAny ==
    /\ protect # Nil
    /\ \E v \in FirstKeys(SampleSize) : Evict(v)
    /\ protect' = IF OverBudget' THEN protect ELSE Nil
    /\ UNCHANGED <<slot, hits, misses, doomed, reply>>

\* One turn of the loop, which goes on while the store is over budget.
EvictOne ==
    /\ protect # Nil
    /\ \E v \in Candidates : Victim(v) /\ Evict(v)
    /\ protect' = IF OverBudget' THEN protect ELSE Nil
    /\ UNCHANGED <<slot, hits, misses, doomed, reply>>

\* Faulty variant of EvictNone: no `break`.
EvictNoneContinue ==
    /\ protect # Nil
    /\ Candidates = {}
    /\ UNCHANGED vars

\* No candidate: `None => break`, the written key stays although it is over
\* budget on its own.
EvictNone ==
    /\ protect # Nil
    /\ Candidates = {}
    /\ protect' = Nil
    /\ UNCHANGED <<map, used_bytes, slot, hits, misses, evictions, doomed, reply>>

-----------------------------------------------------------------------------
(***************************************************************************)
(* active_expire_sweep and the passage of time.                            *)
(***************************************************************************)
active_expire_sweep ==
    /\ Idle
    /\ doomed' = {k \in FirstKeys(SweepSize) : ~is_live(map[k])}
    /\ UNCHANGED <<map, used_bytes, slot, hits, misses, evictions, protect, reply>>

SweepRemove ==
    /\ \E k \in doomed :
          /\ remove_accounted(k)
          /\ doomed' = doomed \ {k}
    /\ UNCHANGED <<slot, hits, misses, evictions, protect, reply>>

Tick ==
    /\ Idle
    /\ map' = [k \in Keys |-> IF Live(k) /\ map[k].expires_in # NoTtl
                              THEN [map[k] EXCEPT !.expires_in = @ - 1]
                              ELSE map[k]]
    /\ UNCHANGED <<used_bytes, slot, hits, misses, evictions, protect, doomed, reply>>

-----------------------------------------------------------------------------
(***************************************************************************)
(* Commands.  ValueOf(k) and TtlOf(k) are what a command finds at k once   *)
(* expire_if_needed(k) has run.                                            *)
(***************************************************************************)
ValueOf(k) == IF Live(k) THEN map[k].value ELSE Nil
TtlOf(k) == IF Live(k) THEN map[k].expires_in ELSE NoTtl
Flag(b) == IF b THEN 1 ELSE 0

\* Faulty variant of NewTtl: a deadline one tick too late.
NewTtlLate(k, expiry) ==
    CASE expiry.kind = "None" -> NoTtl
      [] expiry.kind = "KeepTtl" -> TtlOf(k)
      [] expiry.kind = "At" -> expiry.at + 1

\* Expiry: None clears the deadline, KeepTtl carries it over, At(d) sets it.
\* d = 0 is a deadline that has passed already (EXAT in the past, EXPIRE 0).
Expiry == [kind : {"None", "KeepTtl"}, at : {0}] \cup [kind : {"At"}, at : 0..MaxTtl]
NewTtl(k, expiry) ==
    CASE expiry.kind = "None" -> NoTtl
      [] expiry.kind = "KeepTtl" -> TtlOf(k)
      [] expiry.kind = "At" -> expiry.at

Condition == {"None", "IfExists", "IfNotExists"}
condition_ok(k, condition) ==
    CASE condition = "None" -> TRUE
      [] condition = "IfExists" -> Live(k)
      [] condition = "IfNotExists" -> ~Live(k)

\* What a command leaves alone unless it inserts.
NoInsert == UNCHANGED <<slot, evictions, protect, doomed>>

\* Faulty variant of get: no lazy expiry.
get_unexpired(k) ==
    /\ Idle
    /\ \/ /\ map[k] # NoEntry
          /\ map' = [map EXCEPT ![k].clock_bit = TRUE]
          /\ reply' = <<"value", map[k].value>>
          /\ Hit
       \/ /\ map[k] = NoEntry
          /\ reply' = <<"value", Nil>>
          /\ Miss
          /\ UNCHANGED map
    /\ UNCHANGED used_bytes
    /\ NoInsert

\* get, and the body of mget.
get(k) ==
    /\ Idle
    /\ \/ /\ Live(k)
          /\ map' = [map EXCEPT ![k].clock_bit = TRUE]
          /\ Hit
          /\ UNCHANGED used_bytes
       \/ ~Live(k) /\ expire_if_needed(k) /\ Miss
    /\ reply' = <<"value", ValueOf(k)>>
    /\ NoInsert

get_del(k) ==
    /\ Idle
    /\ \/ Live(k) /\ remove_accounted(k) /\ Hit
       \/ ~Live(k) /\ expire_if_needed(k) /\ Miss
    /\ reply' = <<"value", ValueOf(k)>>
    /\ NoInsert

\* get_ex without an option leaves the deadline as it is, which is KeepTtl
\* here.  The clock bit is not touched.
get_ex(k, expiry) ==
    /\ Idle
    /\ \/ /\ Live(k)
          /\ map' = [map EXCEPT ![k].expires_in = NewTtl(k, expiry)]
          /\ Hit
          /\ UNCHANGED used_bytes
       \/ ~Live(k) /\ expire_if_needed(k) /\ Miss
    /\ reply' = <<"value", ValueOf(k)>>
    /\ NoInsert

set(k, v, expiry, condition, want_old) ==
    /\ Idle
    /\ \/ /\ condition_ok(k, condition)
          /\ insert_accounted(k, v, NewTtl(k, expiry))
       \/ /\ ~condition_ok(k, condition)
          /\ expire_if_needed(k)
          /\ UNCHANGED <<slot, protect>>
    /\ reply' = <<"set", condition_ok(k, condition),
                  IF want_old THEN ValueOf(k) ELSE Nil>>
    /\ UNCHANGED <<hits, misses, evictions, doomed>>

\* The body of mset: no lazy expiry, the deadline is always cleared.
mset(k, v) ==
    /\ Idle
    /\ insert_accounted(k, v, NoTtl)
    /\ reply' = <<"set", TRUE, Nil>>
    /\ UNCHANGED <<hits, misses, evictions, doomed>>

\* incr_by: a missing key counts as 0 and the deadline is kept.  A value that
\* does not parse, or a sum outside i64, is an error after lazy expiry.
Current(k) == IF Live(k) THEN Parse[map[k].value] ELSE 0
Overflows(k, delta) == Current(k) + delta \notin Ints

incr_by(k, delta) ==
    /\ Idle
    /\ \/ /\ Current(k) # NotInt /\ ~Overflows(k, delta)
          /\ insert_accounted(k, Render[Current(k) + delta], TtlOf(k))
          /\ reply' = <<"int", Current(k) + delta>>
       \/ /\ \/ Current(k) = NotInt /\ reply' = <<"error", "NotAnInteger">>
             \/ /\ Current(k) # NotInt /\ Overflows(k, delta)
                /\ reply' = <<"error", "Overflow">>
          /\ expire_if_needed(k)
          /\ UNCHANGED <<slot, protect>>
    /\ UNCHANGED <<hits, misses, evictions, doomed>>

\* The body of del for one key, and what it adds to the count.
del(k) ==
    /\ Idle
    /\ \/ Live(k) /\ remove_accounted(k)
       \/ ~Live(k) /\ expire_if_needed(k)
    /\ reply' = <<"int", Flag(Live(k))>>
    /\ UNCHANGED <<hits, misses>>
    /\ NoInsert

\* A command that changes at most the deadline of a live k.
Retime(k, t) ==
    /\ Idle
    /\ \/ /\ Live(k)
          /\ map' = [map EXCEPT ![k].expires_in = t]
          /\ UNCHANGED used_bytes
       \/ ~Live(k) /\ expire_if_needed(k)
    /\ UNCHANGED <<hits, misses>>
    /\ NoInsert

exists(k) == Retime(k, TtlOf(k)) /\ reply' = <<"int", Flag(Live(k))>>

expire(k, t) == Retime(k, t) /\ reply' = <<"int", Flag(Live(k))>>

persist(k) == Retime(k, NoTtl) /\ reply' = <<"int", Flag(TtlOf(k) # NoTtl)>>

\* -2 missing, -1 no deadline, else the ticks left.
pttl_millis(k) ==
    /\ Retime(k, TtlOf(k))
    /\ reply' = <<"int", IF ~Live(k) THEN -2
                         ELSE IF TtlOf(k) = NoTtl THEN -1 ELSE TtlOf(k)>>

\* Whole seconds, a half rounded up.
ttl_seconds(k) ==
    /\ Retime(k, TtlOf(k))
    /\ reply' = <<"int", IF ~Live(k) THEN -2
                         ELSE IF TtlOf(k) = NoTtl THEN -1
                         ELSE (TtlOf(k) + TicksPerSecond \div 2) \div TicksPerSecond>>

all_keys ==
    /\ Idle
    /\ reply' = <<"keys", {k \in Keys : Live(k)}>>
    /\ UNCHANGED <<map, used_bytes, hits, misses>>
    /\ NoInsert

\* random_key removes the first entry if it has expired and returns the first
\* key of what is left, which it does not look at again.
random_key ==
    LET stale == {k \in FirstKeys(1) : Expired(k)}
        left == Present \ stale
    IN  /\ Idle
        /\ \/ \E k \in stale : remove_accounted(k)
           \/ stale = {} /\ UNCHANGED <<map, used_bytes>>
        /\ \/ left = {} /\ reply' = <<"key", Nil>>
           \/ \E k \in left : Earliest(k, left) /\ reply' = <<"key", k>>
        /\ UNCHANGED <<hits, misses>>
        /\ NoInsert

\* clear empties the map and the account and keeps the counters.
clear ==
    /\ Idle
    /\ map' = [k \in Keys |-> NoEntry]
    /\ used_bytes' = 0
    /\ reply' = <<"ok">>
    /\ UNCHANGED <<hits, misses>>
    /\ NoInsert

-----------------------------------------------------------------------------
Init ==
    /\ map = [k \in Keys |-> NoEntry]
    /\ used_bytes = 0
    /\ slot \in Layouts
    /\ hits = 0 /\ misses = 0 /\ evictions = 0
    /\ protect = Nil
    /\ doomed = {}
    /\ reply = <<"ok">>

Deltas == {-1, 1}

Command(k) ==
    \/ get(k) \/ get_del(k) \/ del(k) \/ exists(k) \/ persist(k)
    \/ ttl_seconds(k) \/ pttl_millis(k)
    \/ \E t \in 0..MaxTtl : expire(k, t)
    \/ \E expiry \in Expiry : get_ex(k, expiry)
    \/ \E delta \in Deltas : incr_by(k, delta)
    \/ \E v \in Value :
          \/ mset(k, v)
          \/ \E expiry \in Expiry, condition \in Condition, want_old \in BOOLEAN :
                set(k, v, expiry, condition, want_old)

Next ==
    \/ \E k \in Keys : Command(k)
    \/ all_keys \/ random_key \/ clear
    \/ EvictOne \/ EvictNone
    \/ active_expire_sweep \/ SweepRemove
    \/ Tick

\* The thread that runs a command finishes it, the event loop calls the sweep
\* on every turn, with or without client traffic, and time passes.
Fairness ==
    /\ WF_vars(EvictOne) /\ WF_vars(EvictNone)
    /\ WF_vars(active_expire_sweep) /\ WF_vars(SweepRemove)
    /\ WF_vars(Tick)

Spec == Init /\ [][Next]_vars /\ Fairness

-----------------------------------------------------------------------------
(***************************************************************************)
(* Properties.                                                             *)
(***************************************************************************)
Reply ==
    ({"value"} \X (Value \cup {Nil}))
    \cup ({"set"} \X BOOLEAN \X (Value \cup {Nil}))
    \cup ({"int"} \X Int)
    \cup ({"error"} \X {"NotAnInteger", "Overflow"})
    \cup ({"key"} \X (Keys \cup {Nil}))
    \cup ({"keys"} \X SUBSET Keys)
    \cup {<<"ok">>}

\* Every variable has its type; the byte account, a usize, never goes below 0
\* only if UsedBytesExact holds, so its type here is Int.
TypeOK ==
    /\ map \in [Keys -> Entry \cup {NoEntry}]
    /\ used_bytes \in Int
    /\ slot \in Layouts
    /\ hits \in Nat /\ misses \in Nat /\ evictions \in Nat
    /\ protect \in Keys \cup {Nil}
    /\ doomed \subseteq Keys
    /\ reply \in Reply

\* used_bytes is the sum of entry_bytes over the entries of the map, in every
\* state: after overwrites, lazy and active expiry, eviction passes and
\* FLUSHALL.  A drift would make the eviction loop work against a wrong total
\* for the rest of the worker's life (insert_accounted, remove_accounted).
UsedBytesExact ==
    used_bytes = MapThenSumSet(LAMBDA k : entry_bytes(k, map[k].value), Present)

\* Between commands the store is within max_memory, unless all it holds is
\* one key, too large on its own (evict_to_budget's `None => break`).
BudgetHeld ==
    Idle /\ OverBudget => \A j, k \in Present : j = k

\* The eviction loop of a write never takes, nor alters, the entry that the
\* write has just stored (evict_to_budget's `protect`).
WriteKept == protect # Nil => map'[protect] = map[protect]
WriteSurvivesEviction == [][WriteKept]_vars

\* An eviction takes an entry whose clock bit is set only when every sampled
\* entry but the protected one was marked as used, and it then leaves all of
\* them unmarked (evict_to_budget's second chance).
EvictsUnusedFirst ==
    evictions' # evictions =>
        \A v \in Keys :
            map[v] # NoEntry /\ map'[v] = NoEntry /\ map[v].clock_bit
            => \A k \in FirstKeys(SampleSize) \ {protect, v} :
                  map[k].clock_bit /\ ~map'[k].clock_bit
SecondChance == [][EvictsUnusedFirst]_vars

\* The eviction loop ends (evict_to_budget's while).
EvictionEnds == protect # Nil ~> protect = Nil

\* Once clients have gone quiet, the sweeps of the event loop remove every
\* entry whose deadline has passed (active_expire_sweep: "so memory is actually
\* reclaimed without a read").
Housekeeping == active_expire_sweep \/ SweepRemove \/ Tick
ExpiredReclaimed ==
    <>[][Housekeeping]_vars => \A k \in Keys : Expired(k) ~> ~Expired(k)

\* The store as its clients see it: entries that have expired are not there,
\* whether or not a read or a sweep has removed them yet.
Cache == [k \in Keys |-> IF Live(k)
                         THEN [value |-> map[k].value, ttl |-> map[k].expires_in]
                         ELSE Nil]
Abstract == INSTANCE AbstractCache WITH cache <- Cache

\* The exception to the contract: RANDOMKEY names an entry that is still in
\* the map although its deadline has passed (random_key looks at the first
\* entry only and returns the next unchecked, where its comment says that it
\* "takes the first live entry").
ExpiredKeyNamed ==
    /\ \E k \in Keys : Expired(k) /\ map'[k] = map[k] /\ reply' = <<"key", k>>
    /\ UNCHANGED <<Cache, hits, misses, evictions>>

\* The store implements the abstract cache but for what RANDOMKEY may name: no
\* value, count, deadline or key list shows an expired entry, a missing entry
\* was removed, expired or counted as evicted, KEEPTTL and INCR keep the
\* deadline, and hits and misses count the values and nils returned.
CacheContract ==
    /\ Abstract!Init
    /\ [][Abstract!Next \/ ExpiredKeyNamed]_(Abstract!vars)

-----------------------------------------------------------------------------
(***************************************************************************)
(* The inductive invariant behind BudgetHeld.                              *)
(***************************************************************************)
\* The loops run one at a time, on entries that are in the map.
LoopInv ==
    /\ protect # Nil => protect \in Present /\ doomed = {}
    /\ doomed \subseteq Present

\* BudgetHeld, during sweeps too.
BudgetInv ==
    protect = Nil /\ OverBudget => \A j, k \in Present : j = k

IndInv == TypeOK /\ LoopInv /\ BudgetInv
=============================================================================
