-------------------------- MODULE RespStoreProofs --------------------------
(***************************************************************************)
(* Proofs about RespStore, for every set of keys, every value set and every*)
(* budget: types, the memory budget, the protection of the key just        *)
(* written, the second chance of the eviction pass, the byte account, and  *)
(* the implementation of AbstractCache.                                    *)
(***************************************************************************)
EXTENDS RespStore, FiniteSetTheorems, WellFoundedInduction, TLAPS

\* A non-empty set of numbers has a least one.
LEMMA LeastNat ==
    ASSUME NEW T, T \subseteq Nat, T # {} PROVE \E m \in T : \A n \in T : m <= n
<1>1. PICK m \in T : \A n \in T : <<n, m>> \notin OpToRel(<, Nat)
  BY NatLessThanWellFounded, WFMin
<1>2. \A n \in T : m <= n
  <2> SUFFICES ASSUME NEW n \in T PROVE m <= n  OBVIOUS
  <2>1. m \in Nat /\ n \in Nat  OBVIOUS
  <2>2. n < m => <<n, m>> \in OpToRel(<, Nat)  BY <2>1 DEF OpToRel
  <2>3. ~(n < m)  BY <1>1, <2>2, Zenon
  <2> QED  BY <2>1, <2>3
<1> QED  BY <1>2

\* A non-empty set of keys has one that comes first in the iteration order.
LEMMA FirstExists ==
    ASSUME slot \in Layouts, NEW S, S \subseteq Keys, S # {}
    PROVE  \E x \in S : \A y \in S : slot[x] <= slot[y]
<1> DEFINE T == {slot[x] : x \in S}
<1>1. slot \in [Keys -> Nat]
  BY SampleAssumption DEF Layouts
<1>2. T \subseteq Nat /\ T # {}  BY <1>1
<1>3. PICK m \in T : \A n \in T : m <= n
  <2> HIDE DEF T
  <2> QED  BY <1>2, LeastNat
<1>4. PICK x \in S : m = slot[x]  OBVIOUS
<1> QED  BY <1>3, <1>4

\* If the eviction pass finds no candidate, at most one entry is left: two
\* entries would put the first two of the iteration order into the sample, and
\* only one of them can be the protected one.
LEMMA NoCandidate ==
    ASSUME TypeOK, Candidates = {}
    PROVE  \A j, k \in Present : j = k
<1> SUFFICES ASSUME NEW j \in Present, NEW k \in Present, j # k PROVE FALSE
  OBVIOUS
<1>t. slot \in Layouts /\ Present \subseteq Keys  BY DEF TypeOK, Present
<1>n. \A x \in Keys : slot[x] \in Nat  BY <1>t, SampleAssumption DEF Layouts
<1>1. PICK x \in Present : \A z \in Present : slot[x] <= slot[z]
  BY <1>t, FirstExists
<1>2. x \in FirstKeys(SampleSize)
  <2>1. {z \in Present : slot[z] < slot[x]} = {}  BY <1>1, <1>t, <1>n
  <2> QED  BY <2>1, FS_EmptySet, SampleAssumption DEF FirstKeys
<1>3. PICK y \in Present \ {x} : \A z \in Present \ {x} : slot[y] <= slot[z]
  <2>1. Present \ {x} # {} /\ Present \ {x} \subseteq Keys  BY <1>t
  <2> QED  BY <2>1, <1>t, FirstExists
<1>4. y \in FirstKeys(SampleSize)
  <2> DEFINE B == {z \in Present : slot[z] < slot[y]}
  <2>1. B \subseteq {x}  BY <1>3, <1>t, <1>n
  <2>2. IsFiniteSet({x}) /\ Cardinality({x}) = 1  BY FS_Singleton
  <2>3. Cardinality(B) <= 1 /\ Cardinality(B) \in Nat
    <3> HIDE DEF B
    <3> QED  BY <2>1, <2>2, FS_Subset, FS_CardinalityType
  <2> QED  BY <2>3, SampleAssumption DEF FirstKeys
<1> QED  BY <1>2, <1>3, <1>4 DEF Candidates

-----------------------------------------------------------------------------
(***************************************************************************)
(* What the building blocks of the commands do to the map and the account. *)
(***************************************************************************)
\* Every reply the commands build is a Reply.
LEMMA ReplyTypes ==
    /\ \A v \in Value \cup {Nil} : <<"value", v>> \in Reply
    /\ \A b \in BOOLEAN, v \in Value \cup {Nil} : <<"set", b, v>> \in Reply
    /\ \A n \in Int : <<"int", n>> \in Reply
    /\ <<"error", "NotAnInteger">> \in Reply /\ <<"error", "Overflow">> \in Reply
    /\ \A k \in Keys \cup {Nil} : <<"key", k>> \in Reply
    /\ \A S \in SUBSET Keys : <<"keys", S>> \in Reply
    /\ <<"ok">> \in Reply
BY DEF Reply

\* Entries have a size, and the values and deadlines a command reads have a type.
LEMMA SizeType ==
    ASSUME NEW k \in Keys, NEW v \in Value
    PROVE  entry_bytes(k, v) \in Nat
BY SizeAssumption DEF entry_bytes

LEMMA EntryFacts ==
    ASSUME TypeOK, NEW k \in Keys
    PROVE  /\ map[k] # NoEntry => map[k] \in Entry
           /\ ValueOf(k) \in Value \cup {Nil}
           /\ TtlOf(k) \in Ttl
           /\ Flag(Live(k)) \in {0, 1}
BY DEF TypeOK, ValueOf, TtlOf, Flag, Live, Entry, Ttl

LEMMA NewTtlType ==
    ASSUME TypeOK, NEW k \in Keys, NEW expiry \in Expiry
    PROVE  NewTtl(k, expiry) \in Ttl
<1>1. TtlOf(k) \in Ttl  BY EntryFacts
<1> QED  BY <1>1 DEF NewTtl, Expiry, Ttl

\* The part of a step that the invariant reads when it inserts nothing: entries
\* may change or go, none comes, and the account does not grow.
Shrinks ==
    /\ map' \in [Keys -> Entry \cup {NoEntry}]
    /\ used_bytes' \in Int /\ used_bytes' <= used_bytes
    /\ Present' \subseteq Present

LEMMA RemoveShrinks ==
    ASSUME TypeOK, NEW k \in Keys, map[k] # NoEntry, remove_accounted(k)
    PROVE  Shrinks
<1>1. map[k] \in Entry  BY EntryFacts
<1>2. entry_bytes(k, map[k].value) \in Nat  BY <1>1, SizeType DEF Entry
<1> QED  BY <1>2 DEF TypeOK, remove_accounted, Shrinks, Present

LEMMA ExpireShrinks ==
    ASSUME TypeOK, NEW k \in Keys, expire_if_needed(k)
    PROVE  Shrinks
<1>1. CASE Expired(k)  BY <1>1, RemoveShrinks DEF expire_if_needed, Expired
<1>2. CASE ~Expired(k)  BY <1>2 DEF expire_if_needed, TypeOK, Shrinks, Present
<1> QED  BY <1>1, <1>2

\* An entry that is only marked or retimed.
LEMMA MarkShrinks ==
    ASSUME TypeOK, NEW k \in Keys, map[k] # NoEntry, UNCHANGED used_bytes,
           NEW t \in Ttl,
           \/ map' = [map EXCEPT ![k].clock_bit = TRUE]
           \/ map' = [map EXCEPT ![k].expires_in = t]
    PROVE  Shrinks
<1>1. map[k] \in Entry  BY EntryFacts
<1>2. /\ [map[k] EXCEPT !.clock_bit = TRUE] \in Entry
      /\ [map[k] EXCEPT !.expires_in = t] \in Entry
  BY <1>1 DEF Entry
<1>3. \E e \in Entry : map' = [map EXCEPT ![k] = e]  BY <1>2
<1> QED  BY <1>3 DEF TypeOK, Shrinks, Present

\* An insertion leaves the loop variable at the key if the store is now over
\* budget, and at Nil otherwise.
LEMMA InsertFacts ==
    ASSUME TypeOK, NEW k \in Keys, NEW v \in Value, NEW t \in Ttl, insert_accounted(k, v, t)
    PROVE  /\ map' \in [Keys -> Entry \cup {NoEntry}]
           /\ used_bytes' \in Int
           /\ slot' \in Layouts
           /\ protect' \in {k, Nil}
           /\ k \in Present'
           /\ BudgetInv'
<1> DEFINE e == [value |-> v, expires_in |-> t, clock_bit |-> TRUE]
<1>1. e \in Entry  BY DEF Entry
<1>2. map' = [map EXCEPT ![k] = e]  BY DEF insert_accounted
<1>3. map' \in [Keys -> Entry \cup {NoEntry}] /\ map'[k] = e
  <2> HIDE DEF e
  <2> QED  BY <1>1, <1>2 DEF TypeOK
<1>4. used_bytes' \in Int
  <2>1. entry_bytes(k, v) \in Nat  BY SizeType
  <2>2. CASE map[k] = NoEntry  BY <2>1, <2>2 DEF insert_accounted, TypeOK
  <2>3. CASE map[k] # NoEntry
    <3>1. map[k] \in Entry  BY <2>3, EntryFacts
    <3>2. entry_bytes(k, map[k].value) \in Nat  BY <3>1, SizeType DEF Entry
    <3> QED  BY <2>1, <2>3, <3>2 DEF insert_accounted, TypeOK
  <2> QED  BY <2>2, <2>3
<1>5. slot' \in Layouts  BY DEF insert_accounted, TypeOK
<1>6. protect' = IF OverBudget' THEN k ELSE Nil  BY DEF insert_accounted
<1>7. e # NoEntry  BY <1>1, SentinelAssumption
<1>8. k \in Present'
  <2> HIDE DEF e
  <2> QED  BY <1>3, <1>7 DEF Present
<1>9. BudgetInv'  BY <1>6, SentinelAssumption DEF BudgetInv
<1> QED  BY <1>3, <1>4, <1>5, <1>6, <1>8, <1>9

-----------------------------------------------------------------------------
(***************************************************************************)
(* Every command either shrinks the store or inserts one entry.            *)
(***************************************************************************)
\* What all commands on k have in common.
Outcome(k) ==
    /\ Idle
    /\ reply' \in Reply
    /\ hits' \in Nat /\ misses' \in Nat
    /\ UNCHANGED <<evictions, doomed>>
    /\ \/ Shrinks /\ UNCHANGED <<slot, protect>>
       \/ \E v \in Value, t \in Ttl : insert_accounted(k, v, t)

LEMMA ReadOutcome ==
    ASSUME TypeOK, NEW k \in Keys,
           \/ get(k) \/ get_del(k) \/ \E expiry \in Expiry : get_ex(k, expiry)
    PROVE  Outcome(k)
<1>t. hits \in Nat /\ misses \in Nat  BY DEF TypeOK
<1>v. <<"value", ValueOf(k)>> \in Reply  BY EntryFacts, ReplyTypes
<1>1. CASE get(k)
  <2>1. Shrinks
    <3>1. CASE Live(k)
      <4>1. NoTtl \in Ttl  BY DEF Ttl
      <4> QED  BY <1>1, <3>1, <4>1, MarkShrinks DEF get, Live
    <3>2. CASE ~Live(k)  BY <1>1, <3>2, ExpireShrinks DEF get
    <3> QED  BY <3>1, <3>2
  <2> QED  BY <1>1, <1>t, <1>v, <2>1 DEF get, Outcome, NoInsert, Hit, Miss
<1>2. CASE get_del(k)
  <2>1. Shrinks
    <3>1. CASE Live(k)  BY <1>2, <3>1, RemoveShrinks DEF get_del, Live
    <3>2. CASE ~Live(k)  BY <1>2, <3>2, ExpireShrinks DEF get_del
    <3> QED  BY <3>1, <3>2
  <2> QED  BY <1>2, <1>t, <1>v, <2>1 DEF get_del, Outcome, NoInsert, Hit, Miss
<1>3. ASSUME NEW expiry \in Expiry, get_ex(k, expiry) PROVE Outcome(k)
  <2>1. Shrinks
    <3>1. CASE Live(k)
      <4>1. NewTtl(k, expiry) \in Ttl  BY NewTtlType
      <4> QED  BY <1>3, <3>1, <4>1, MarkShrinks DEF get_ex, Live
    <3>2. CASE ~Live(k)  BY <1>3, <3>2, ExpireShrinks DEF get_ex
    <3> QED  BY <3>1, <3>2
  <2> QED  BY <1>3, <1>t, <1>v, <2>1 DEF get_ex, Outcome, NoInsert, Hit, Miss
<1> QED  BY <1>1, <1>2, <1>3

LEMMA RetimeOutcome ==
    ASSUME TypeOK, NEW k \in Keys, NEW t \in Ttl, Retime(k, t), reply' \in Reply
    PROVE  Outcome(k)
<1>t. hits \in Nat /\ misses \in Nat  BY DEF TypeOK
<1>1. Shrinks
  <2>1. CASE Live(k)  BY <2>1, MarkShrinks DEF Retime, Live
  <2>2. CASE ~Live(k)  BY <2>2, ExpireShrinks DEF Retime
  <2> QED  BY <2>1, <2>2
<1> QED  BY <1>1, <1>t DEF Retime, Outcome, NoInsert

LEMMA DeadlineOutcome ==
    ASSUME TypeOK, NEW k \in Keys,
           \/ exists(k) \/ persist(k) \/ ttl_seconds(k) \/ pttl_millis(k)
           \/ \E t \in 0..MaxTtl : expire(k, t)
    PROVE  Outcome(k)
<1>t. TtlOf(k) \in Ttl /\ NoTtl \in Ttl /\ 0..MaxTtl \subseteq Ttl
  BY EntryFacts DEF Ttl
<1>f. \A b \in BOOLEAN : <<"int", Flag(b)>> \in Reply
  <2>1. \A b \in BOOLEAN : Flag(b) \in Int  BY DEF Flag
  <2> QED  BY <2>1, ReplyTypes
<1>b. Live(k) \in BOOLEAN
  BY DEF Live, is_live
<1>1. CASE exists(k)  BY <1>1, <1>t, <1>f, <1>b, RetimeOutcome DEF exists
<1>2. CASE persist(k)  BY <1>2, <1>t, <1>f, RetimeOutcome DEF persist
<1>3. CASE ttl_seconds(k)
  <2>1. TtlOf(k) # NoTtl => (TtlOf(k) + TicksPerSecond \div 2) \div TicksPerSecond \in Int
    BY <1>t, TimeAssumption DEF Ttl
  <2>2. reply' \in Reply  BY <1>3, <2>1, ReplyTypes DEF ttl_seconds
  <2> QED  BY <1>3, <1>t, <2>2, RetimeOutcome DEF ttl_seconds
<1>4. CASE pttl_millis(k)
  <2>1. TtlOf(k) # NoTtl => TtlOf(k) \in Int  BY <1>t DEF Ttl
  <2>2. reply' \in Reply  BY <1>4, <2>1, ReplyTypes DEF pttl_millis
  <2> QED  BY <1>4, <1>t, <2>2, RetimeOutcome DEF pttl_millis
<1>5. ASSUME NEW t \in 0..MaxTtl, expire(k, t) PROVE Outcome(k)
  BY <1>5, <1>t, <1>f, <1>b, RetimeOutcome DEF expire
<1> QED  BY <1>1, <1>2, <1>3, <1>4, <1>5

LEMMA WriteOutcome ==
    ASSUME TypeOK, NEW k \in Keys,
           \/ del(k)
           \/ \E delta \in Deltas : incr_by(k, delta)
           \/ \E v \in Value : mset(k, v)
           \/ \E v \in Value, expiry \in Expiry, condition \in Condition, want_old \in BOOLEAN :
                 set(k, v, expiry, condition, want_old)
    PROVE  Outcome(k)
<1>t. hits \in Nat /\ misses \in Nat  BY DEF TypeOK
<1>k. TtlOf(k) \in Ttl /\ NoTtl \in Ttl  BY EntryFacts DEF Ttl
<1>1. CASE del(k)
  <2>1. Shrinks
    <3>1. CASE Live(k)  BY <1>1, <3>1, RemoveShrinks DEF del, Live
    <3>2. CASE ~Live(k)  BY <1>1, <3>2, ExpireShrinks DEF del
    <3> QED  BY <3>1, <3>2
  <2>2. reply' \in Reply
    <3>1. Flag(Live(k)) \in Int  BY DEF Flag
    <3> QED  BY <1>1, <3>1, ReplyTypes DEF del
  <2> QED  BY <1>1, <1>t, <2>1, <2>2 DEF del, Outcome, NoInsert
<1>2. ASSUME NEW delta \in Deltas, incr_by(k, delta) PROVE Outcome(k)
  <2>1. CASE Current(k) # NotInt /\ ~Overflows(k, delta)
    <3>1. Current(k) + delta \in Ints  BY <2>1 DEF Overflows
    <3>2. Render[Current(k) + delta] \in Value  BY <3>1, IntAssumption
    <3>3. Current(k) + delta \in Int  BY <3>1, IntAssumption DEF Ints
    <3>4. reply' \in Reply  BY <1>2, <2>1, <3>3, ReplyTypes DEF incr_by
    <3> QED  BY <1>2, <2>1, <1>t, <1>k, <3>2, <3>4 DEF incr_by, Outcome
  <2>2. CASE ~(Current(k) # NotInt /\ ~Overflows(k, delta))
    <3>1. Shrinks  BY <1>2, <2>2, ExpireShrinks DEF incr_by
    <3>2. reply' \in Reply  BY <1>2, <2>2, ReplyTypes DEF incr_by
    <3> QED  BY <1>2, <2>2, <1>t, <3>1, <3>2 DEF incr_by, Outcome
  <2> QED  BY <2>1, <2>2
<1>3. ASSUME NEW v \in Value, mset(k, v) PROVE Outcome(k)
  <2>1. reply' \in Reply  BY <1>3, ReplyTypes DEF mset
  <2> QED  BY <1>3, <1>t, <1>k, <2>1 DEF mset, Outcome
<1>4. ASSUME NEW v \in Value, NEW expiry \in Expiry, NEW condition \in Condition,
             NEW want_old \in BOOLEAN, set(k, v, expiry, condition, want_old)
      PROVE  Outcome(k)
  <2>1. NewTtl(k, expiry) \in Ttl  BY NewTtlType
  <2>2. reply' \in Reply
    <3>1. condition_ok(k, condition) \in BOOLEAN  BY DEF condition_ok, Condition, Live, is_live
    <3>2. (IF want_old THEN ValueOf(k) ELSE Nil) \in Value \cup {Nil}  BY EntryFacts
    <3> QED  BY <1>4, <3>1, <3>2, ReplyTypes DEF set
  <2>3. CASE condition_ok(k, condition)
    BY <1>4, <2>3, <1>t, <2>1, <2>2 DEF set, Outcome
  <2>4. CASE ~condition_ok(k, condition)
    <3>1. Shrinks  BY <1>4, <2>4, ExpireShrinks DEF set
    <3> QED  BY <1>4, <2>4, <1>t, <3>1, <2>2 DEF set, Outcome
  <2> QED  BY <2>3, <2>4
<1> QED  BY <1>1, <1>2, <1>3, <1>4

LEMMA CommandOutcome ==
    ASSUME TypeOK, NEW k \in Keys, Command(k) PROVE Outcome(k)
BY ReadOutcome, DeadlineOutcome, WriteOutcome DEF Command

\* Commands keep the invariant.
LEMMA OutcomeStep ==
    ASSUME IndInv, NEW k \in Keys, Outcome(k) PROVE IndInv'
<1>t. TypeOK /\ LoopInv /\ BudgetInv  BY DEF IndInv
<1>i. protect = Nil /\ doomed = {}  BY DEF Outcome, Idle
<1>1. CASE Shrinks /\ UNCHANGED <<slot, protect>>
  <2>1. TypeOK'  BY <1>1, <1>t DEF TypeOK, Outcome, Shrinks
  <2>2. LoopInv'  BY <1>1, <1>i DEF LoopInv, Outcome
  <2>3. BudgetInv'
    <3>1. OverBudget' => OverBudget
      BY <1>1, <1>t, SizeAssumption DEF OverBudget, Shrinks, TypeOK
    <3> QED  BY <1>1, <1>t, <1>i, <3>1 DEF BudgetInv, Shrinks
  <2> QED  BY <2>1, <2>2, <2>3 DEF IndInv
<1>2. ASSUME NEW v \in Value, NEW t \in Ttl, insert_accounted(k, v, t) PROVE IndInv'
  <2>1. /\ map' \in [Keys -> Entry \cup {NoEntry}] /\ used_bytes' \in Int
        /\ slot' \in Layouts /\ protect' \in {k, Nil} /\ k \in Present' /\ BudgetInv'
    BY <1>2, <1>t, InsertFacts
  <2>2. TypeOK'  BY <2>1, <1>t DEF TypeOK, Outcome
  <2>3. LoopInv'  BY <2>1, <1>i DEF LoopInv, Outcome
  <2> QED  BY <2>1, <2>2, <2>3 DEF IndInv
<1> QED  BY <1>1, <1>2 DEF Outcome

-----------------------------------------------------------------------------
(***************************************************************************)
(* The steps that are not commands on one key.                             *)
(***************************************************************************)
LEMMA InitInv == Init => IndInv
<1> SUFFICES ASSUME Init PROVE IndInv  OBVIOUS
<1>1. Present = {}  BY DEF Init, Present
<1>2. TypeOK
  <2>1. map \in [Keys -> Entry \cup {NoEntry}]  BY DEF Init
  <2> QED  BY <2>1, ReplyTypes DEF Init, TypeOK
<1>3. LoopInv /\ BudgetInv  BY <1>1 DEF Init, LoopInv, BudgetInv
<1> QED  BY <1>2, <1>3 DEF IndInv

\* KEYS and RANDOMKEY shrink the store or leave it.
LEMMA WholeStoreStep ==
    ASSUME IndInv, all_keys \/ random_key PROVE IndInv'
<1>t. TypeOK /\ LoopInv /\ BudgetInv  BY DEF IndInv
<1>1. /\ Idle /\ Shrinks /\ reply' \in Reply
      /\ UNCHANGED <<hits, misses, evictions, slot, protect, doomed>>
  <2>1. CASE all_keys
    <3>1. Shrinks  BY <2>1, <1>t DEF all_keys, Shrinks, TypeOK, Present
    <3>2. {k \in Keys : Live(k)} \in SUBSET Keys  OBVIOUS
    <3> QED  BY <2>1, <3>1, <3>2, ReplyTypes DEF all_keys, NoInsert
  <2>2. CASE random_key
    <3> DEFINE stale == {k \in FirstKeys(1) : Expired(k)}
               left == Present \ stale
    <3>0. stale \subseteq Keys /\ left \subseteq Keys  BY DEF FirstKeys, Present
    <3>1. Shrinks
      <4>1. ASSUME NEW k \in stale, remove_accounted(k) PROVE Shrinks
        BY <4>1, <3>0, <1>t, RemoveShrinks DEF Expired
      <4>2. CASE UNCHANGED <<map, used_bytes>>
        BY <4>2, <1>t DEF Shrinks, TypeOK, Present
      <4> QED  BY <2>2, <4>1, <4>2 DEF random_key
    <3>2. reply' \in Reply
      <4>1. \E k \in Keys \cup {Nil} : reply' = <<"key", k>>
        BY <2>2, <3>0 DEF random_key
      <4> QED  BY <4>1, ReplyTypes
    <3> QED  BY <2>2, <3>1, <3>2 DEF random_key, NoInsert
  <2> QED  BY <2>1, <2>2
<1>2. TypeOK'  BY <1>1, <1>t DEF TypeOK, Shrinks
<1>3. LoopInv'  BY <1>1 DEF LoopInv, Idle
<1>4. BudgetInv'
  <2>1. OverBudget' => OverBudget
    BY <1>1, <1>t, SizeAssumption DEF OverBudget, Shrinks, TypeOK
  <2> QED  BY <1>1, <1>t, <2>1 DEF BudgetInv, Shrinks
<1> QED  BY <1>2, <1>3, <1>4 DEF IndInv

LEMMA ClearStep == ASSUME IndInv, clear PROVE IndInv'
<1>1. UNCHANGED <<hits, misses, evictions, slot, protect, doomed>> /\ Idle
  BY DEF clear, NoInsert
<1>2. Present' = {} /\ map' \in [Keys -> Entry \cup {NoEntry}]
  BY DEF clear, Present
<1>3. TypeOK'  BY <1>1, <1>2, ReplyTypes DEF clear, IndInv, TypeOK
<1>4. LoopInv' /\ BudgetInv'  BY <1>1, <1>2 DEF LoopInv, BudgetInv, Idle
<1> QED  BY <1>3, <1>4 DEF IndInv

\* The loop leaves the written key in place and stops within the budget or with
\* nothing else to take.
LEMMA EvictStep ==
    ASSUME IndInv, EvictOne \/ EvictNone PROVE IndInv'
<1>t. TypeOK /\ LoopInv /\ BudgetInv  BY DEF IndInv
<1>1. CASE EvictOne
  <2>1. PICK v \in Candidates : Victim(v) /\ Evict(v)  BY <1>1 DEF EvictOne
  <2>2. v \in Present \ {protect} /\ protect \in Keys /\ protect \in Present /\ doomed = {}
    BY <1>1, <1>t, SentinelAssumption
       DEF Candidates, FirstKeys, EvictOne, TypeOK, LoopInv
  <2>3. v \in Keys /\ map[v] \in Entry /\ Passed(v) \subseteq Present \ {protect}
    BY <2>2, <1>t, EntryFacts DEF Present, Passed, Candidates, FirstKeys
  <2>4. \A k \in Present : [map[k] EXCEPT !.clock_bit = FALSE] \in Entry
    <3> SUFFICES ASSUME NEW k \in Present PROVE [map[k] EXCEPT !.clock_bit = FALSE] \in Entry
      OBVIOUS
    <3>1. map[k] \in Entry  BY <1>t, EntryFacts DEF Present
    <3> QED  BY <3>1 DEF Entry
  <2>5. map' \in [Keys -> Entry \cup {NoEntry}]
    BY <2>1, <2>3, <2>4, <1>t DEF Evict, TypeOK
  <2>6. map'[protect] = map[protect]  BY <2>1, <2>2, <2>3 DEF Evict
  <2>7. used_bytes' \in Int
    <3>1. entry_bytes(v, map[v].value) \in Nat  BY <2>3, SizeType DEF Entry
    <3> QED  BY <2>1, <3>1, <1>t DEF Evict, TypeOK
  <2>8. protect' = IF OverBudget' THEN protect ELSE Nil
    BY <1>1 DEF EvictOne
  <2>9. evictions' \in Nat /\ UNCHANGED <<slot, hits, misses, doomed, reply>>
    BY <1>1, <2>1, <1>t DEF EvictOne, Evict, TypeOK
  <2>10. TypeOK'  BY <2>2, <2>5, <2>7, <2>8, <2>9, <1>t DEF TypeOK
  <2>11. LoopInv'  BY <2>2, <2>6, <2>8, <2>9 DEF LoopInv, Present
  <2>12. BudgetInv'  BY <1>1, <2>8 DEF BudgetInv, EvictOne
  <2> QED  BY <2>10, <2>11, <2>12 DEF IndInv
<1>2. CASE EvictNone
  <2>1. \A j, k \in Present : j = k  BY <1>2, <1>t, NoCandidate DEF EvictNone
  <2>2. TypeOK'  BY <1>2, <1>t DEF EvictNone, TypeOK
  <2>3. LoopInv'  BY <1>2, <1>t DEF EvictNone, LoopInv, Present
  <2>4. BudgetInv'  BY <1>2, <2>1 DEF EvictNone, BudgetInv, Present
  <2> QED  BY <2>2, <2>3, <2>4 DEF IndInv
<1> QED  BY <1>1, <1>2

LEMMA SweepStep ==
    ASSUME IndInv, active_expire_sweep \/ SweepRemove PROVE IndInv'
<1>t. TypeOK /\ LoopInv /\ BudgetInv  BY DEF IndInv
<1>1. CASE active_expire_sweep
  <2>1. doomed' \subseteq Present /\ Present \subseteq Keys
    BY <1>1 DEF active_expire_sweep, FirstKeys, Present
  <2>2. TypeOK'  BY <1>1, <2>1, <1>t DEF active_expire_sweep, TypeOK
  <2>3. LoopInv'  BY <1>1, <2>1 DEF active_expire_sweep, LoopInv, Present, Idle
  <2>4. BudgetInv'  BY <1>1, <1>t DEF active_expire_sweep, BudgetInv, OverBudget, Present
  <2> QED  BY <2>2, <2>3, <2>4 DEF IndInv
<1>2. CASE SweepRemove
  <2>1. PICK k \in doomed : remove_accounted(k) /\ doomed' = doomed \ {k}
    BY <1>2 DEF SweepRemove
  <2>2. k \in Keys /\ map[k] # NoEntry  BY <1>t DEF LoopInv, Present
  <2>3. Shrinks  BY <2>1, <2>2, <1>t, RemoveShrinks
  <2>4. UNCHANGED <<slot, hits, misses, evictions, protect, reply>>
    BY <1>2 DEF SweepRemove
  <2>5. TypeOK'  BY <2>1, <2>3, <2>4, <1>t DEF Shrinks, TypeOK
  <2>6. Present' = Present \ {k}
    BY <2>1, <2>2, <1>t DEF remove_accounted, Present, TypeOK
  <2>7. LoopInv'  BY <2>1, <2>4, <2>6, <1>t DEF LoopInv
  <2>8. BudgetInv'
    <3>1. OverBudget' => OverBudget
      BY <2>3, <1>t, SizeAssumption DEF OverBudget, Shrinks, TypeOK
    <3> QED  BY <2>4, <2>6, <1>t, <3>1 DEF BudgetInv
  <2> QED  BY <2>5, <2>7, <2>8 DEF IndInv
<1> QED  BY <1>1, <1>2

LEMMA TickStep == ASSUME IndInv, Tick PROVE IndInv'
<1>t. TypeOK /\ LoopInv /\ BudgetInv  BY DEF IndInv
<1>1. \A k \in Keys : map'[k] \in Entry \cup {NoEntry} /\ (map'[k] = NoEntry <=> map[k] = NoEntry)
  <2> SUFFICES ASSUME NEW k \in Keys
               PROVE  map'[k] \in Entry \cup {NoEntry} /\ (map'[k] = NoEntry <=> map[k] = NoEntry)
    OBVIOUS
  <2>1. CASE Live(k) /\ map[k].expires_in # NoTtl
    <3>1. map[k] \in Entry /\ map[k].expires_in \in 1..MaxTtl
      BY <2>1, <1>t, EntryFacts, TimeAssumption DEF Live, is_live, Entry, Ttl
    <3>2. map'[k] = [map[k] EXCEPT !.expires_in = map[k].expires_in - 1]
      BY <2>1 DEF Tick
    <3>3. map[k].expires_in - 1 \in Ttl  BY <3>1, TimeAssumption DEF Ttl
    <3>4. map'[k] \in Entry  BY <3>1, <3>2, <3>3 DEF Entry
    <3> QED  BY <2>1, <3>4, SentinelAssumption DEF Live
  <2>2. CASE ~(Live(k) /\ map[k].expires_in # NoTtl)
    BY <2>2, <1>t DEF Tick, TypeOK
  <2> QED  BY <2>1, <2>2
<1>2. Present' = Present  BY <1>1 DEF Present
<1>3. UNCHANGED <<used_bytes, slot, hits, misses, evictions, protect, doomed, reply>>
  BY DEF Tick
<1>4. map' \in [Keys -> Entry \cup {NoEntry}]
  <2>1. map' = [k \in Keys |-> map'[k]]  BY DEF Tick
  <2> QED  BY <1>1, <2>1
<1>5. TypeOK'  BY <1>3, <1>4, <1>t DEF TypeOK
<1>6. LoopInv'  BY <1>2, <1>3, <1>t DEF LoopInv
<1>7. BudgetInv'  BY <1>2, <1>3, <1>t DEF BudgetInv, OverBudget
<1> QED  BY <1>5, <1>6, <1>7 DEF IndInv

-----------------------------------------------------------------------------
LEMMA InductiveStep == IndInv /\ [Next]_vars => IndInv'
<1> SUFFICES ASSUME IndInv, [Next]_vars PROVE IndInv'  OBVIOUS
<1>1. ASSUME NEW k \in Keys, Command(k) PROVE IndInv'
  <2>1. Outcome(k)  BY <1>1, CommandOutcome DEF IndInv
  <2> QED  BY <2>1, OutcomeStep
<1>2. CASE all_keys \/ random_key \/ clear  BY <1>2, WholeStoreStep, ClearStep
<1>3. CASE EvictOne \/ EvictNone  BY <1>3, EvictStep
<1>4. CASE active_expire_sweep \/ SweepRemove  BY <1>4, SweepStep
<1>5. CASE Tick  BY <1>5, TickStep
<1>6. CASE UNCHANGED vars
  BY <1>6 DEF vars, IndInv, TypeOK, LoopInv, BudgetInv, OverBudget, Present
<1> QED  BY <1>1, <1>2, <1>3, <1>4, <1>5, <1>6 DEF Next

\* The inductive invariant holds in every reachable state.
THEOREM Invariance == Spec => []IndInv
BY InitInv, InductiveStep, PTL DEF Spec

\* Every variable keeps its type, whatever the clients send.
THEOREM TypeCorrect == Spec => []TypeOK
<1>1. IndInv => TypeOK  BY DEF IndInv
<1> QED  BY Invariance, <1>1, PTL

\* Between commands the store is within max_memory or holds a single entry:
\* a pass that samples at least two keys never gives up while a second entry
\* is left (evict_to_budget).
THEOREM BudgetRespected == Spec => []BudgetHeld
<1>1. IndInv => BudgetHeld  BY DEF IndInv, BudgetInv, BudgetHeld, Idle
<1> QED  BY Invariance, <1>1, PTL

\* While the eviction loop of a write runs, the entry it stored is neither
\* taken nor changed.
THEOREM ProtectedWrite == Spec => WriteSurvivesEviction
<1>1. IndInv /\ [Next]_vars => [WriteKept]_vars
  <2> SUFFICES ASSUME IndInv, Next, protect # Nil PROVE map'[protect] = map[protect]
    BY DEF WriteKept
  <2>t. protect \in Keys /\ ~Idle /\ doomed = {}
    BY DEF IndInv, TypeOK, LoopInv, Idle
  <2>1. CASE EvictOne
    <3>1. PICK v \in Candidates : Evict(v)  BY <2>1 DEF EvictOne
    <3>2. v # protect /\ protect \notin Passed(v)  BY DEF Passed, Candidates
    <3> QED  BY <2>t, <3>1, <3>2 DEF Evict
  <2>2. CASE EvictNone  BY <2>2 DEF EvictNone
  <2>3. ASSUME NEW k \in Keys, Command(k) PROVE FALSE
    BY <2>3, <2>t, CommandOutcome DEF IndInv, Outcome
  <2>4. CASE all_keys \/ random_key \/ clear \/ active_expire_sweep \/ SweepRemove \/ Tick
    BY <2>4, <2>t DEF all_keys, random_key, clear, active_expire_sweep, SweepRemove, Tick
  <2> QED  BY <2>1, <2>2, <2>3, <2>4 DEF Next
<1> QED  BY Invariance, <1>1, PTL DEF Spec, WriteSurvivesEviction

\* An entry marked as used is evicted only when every other sampled entry but
\* the protected one is marked too, and the pass unmarks them all.
THEOREM SecondChanceGiven == Spec => SecondChance
<1>1. IndInv /\ [Next]_vars => [EvictsUnusedFirst]_vars
  <2> SUFFICES ASSUME IndInv, Next, evictions' # evictions,
                      NEW w \in Keys, map[w] # NoEntry, map'[w] = NoEntry, map[w].clock_bit,
                      NEW k \in FirstKeys(SampleSize) \ {protect, w}
               PROVE  map[k].clock_bit /\ ~map'[k].clock_bit
    BY DEF EvictsUnusedFirst
  <2>1. EvictOne
    <3>1. ASSUME NEW j \in Keys, Command(j) PROVE FALSE
      BY <3>1, CommandOutcome DEF IndInv, Outcome
    <3> QED  BY <3>1 DEF Next, all_keys, random_key, clear, NoInsert, EvictNone,
                         active_expire_sweep, SweepRemove, Tick
  <2>2. PICK v \in Candidates : Victim(v) /\ Evict(v)  BY <2>1 DEF EvictOne
  <2>3. \A j \in Present : map[j] \in Entry  BY EntryFacts DEF IndInv, Present
  <2>4. k \in Candidates /\ k \in Keys /\ k \in Present
    BY DEF Candidates, FirstKeys, Present
  <2>5. w = v
    <3>1. \A j \in Present : [map[j] EXCEPT !.clock_bit = FALSE] \in Entry
      BY <2>3 DEF Entry
    <3>2. Passed(v) \subseteq Present  BY DEF Passed, Candidates, FirstKeys
    <3>3. w # v => map'[w] \in Entry
      <4>1. CASE w \in Passed(v)  BY <2>2, <3>1, <3>2, <4>1 DEF Evict
      <4>2. CASE w \notin Passed(v)  BY <2>2, <2>3, <4>2 DEF Evict, Present
      <4> QED  BY <4>1, <4>2
    <3> QED  BY <3>3, SentinelAssumption
  <2>6. Unused = {}  BY <2>2, <2>5 DEF Victim, Earliest, Unused
  <2>7. map[k].clock_bit  BY <2>4, <2>6 DEF Unused
  <2>8. map'[k] = [map[k] EXCEPT !.clock_bit = FALSE]
    BY <2>2, <2>4, <2>5, <2>6 DEF Evict, Passed
  <2> QED  BY <2>3, <2>4, <2>7, <2>8 DEF Entry
<1> QED  BY Invariance, <1>1, PTL DEF Spec, SecondChance

-----------------------------------------------------------------------------
(***************************************************************************)
(* The byte account of RespStore is exact: used_bytes is the sum of the    *)
(* sizes of the entries, for every set of keys and every history.          *)
(*                                                                         *)
(* A sum over a finite set is characterised as the function on its subsets *)
(* that is 0 for the empty set and grows by the weight of any element that *)
(* is added.  Such a function exists, the recursive definition of the sum  *)
(* yields it, and from its defining equation every step follows.           *)
(***************************************************************************)
IsSum(F, w, S) ==
    /\ F \in [SUBSET S -> Int]
    /\ F[{}] = 0
    /\ \A s \in SUBSET S : \A x \in s : F[s] = w[x] + F[s \ {x}]

Choice(s) == CHOOSE x \in s : TRUE
Bytes(k) == entry_bytes(k, map[k].value)
Weight == [k \in Keys |-> IF map[k] = NoEntry THEN 0 ELSE Bytes(k)]

-----------------------------------------------------------------------------
(***************************************************************************)
(* Sums over finite sets.                                                  *)
(***************************************************************************)
\* Induction over the subsets of a finite set: the smallest subset outside Good
\* would have one element more than a subset in Good.
LEMMA SubsetInduction ==
    ASSUME NEW S, IsFiniteSet(S), NEW Good, {} \in Good,
           \A s \in SUBSET S : s # {} => \E x \in s : s \ {x} \in Good => s \in Good
    PROVE  SUBSET S \subseteq Good
<1> DEFINE Bad == {s \in SUBSET S : s \notin Good}
           T == {Cardinality(s) : s \in Bad}
<1> SUFFICES ASSUME Bad # {} PROVE FALSE
  OBVIOUS
<1>1. \A s \in SUBSET S : IsFiniteSet(s) /\ Cardinality(s) \in Nat
  BY FS_Subset, FS_CardinalityType
<1>2. T \subseteq Nat /\ T # {}  BY <1>1
<1>3. PICK m \in T : \A n \in T : m <= n
  <2> HIDE DEF T
  <2> QED  BY <1>2, LeastNat
<1>4. PICK s \in Bad : m = Cardinality(s)  OBVIOUS
<1>5. s \in SUBSET S /\ s \notin Good /\ s # {}  OBVIOUS
<1>6. PICK x \in s : s \ {x} \in Good => s \in Good  BY <1>5
<1>7. s \ {x} \in Bad  BY <1>5, <1>6
<1>8. Cardinality(s \ {x}) = Cardinality(s) - 1
  BY <1>1, <1>5, FS_RemoveElement
<1>9. Cardinality(s \ {x}) \in T /\ Cardinality(s) \in Nat  BY <1>1, <1>5, <1>7
<1> QED
  <2>1. PICK n : n = Cardinality(s)  OBVIOUS
  <2>2. PICK q : q = Cardinality(s \ {x})  OBVIOUS
  <2>3. n \in Nat /\ q = n - 1  BY <1>8, <1>9, <2>1, <2>2
  <2>4. n <= q
    <3> HIDE DEF T, Bad
    <3> QED  BY <1>3, <1>4, <1>9, <2>1, <2>2
  <2> QED
    <3> HIDE DEF T, Bad
    <3> QED  BY ONLY <2>3, <2>4

\* One more element.
LEMMA SumExtends ==
    ASSUME NEW S, NEW w, \A x \in S : w[x] \in Int, NEW y \in S, NEW F, IsSum(F, w, S \ {y})
    PROVE  \E G : IsSum(G, w, S)
<1>1. PICK G : G = [s \in SUBSET S |-> IF y \in s THEN w[y] + F[s \ {y}] ELSE F[s]]  OBVIOUS
<1>2. \A s \in SUBSET (S \ {y}) : F[s] \in Int  BY DEF IsSum
<1>3. \A s \in SUBSET S : /\ s \ {y} \in SUBSET (S \ {y})
                          /\ y \notin s => s \in SUBSET (S \ {y})
  OBVIOUS
<1>4. G \in [SUBSET S -> Int]
  <2>1. \A s \in SUBSET S : (IF y \in s THEN w[y] + F[s \ {y}] ELSE F[s]) \in Int
    BY <1>2, <1>3
  <2> QED  BY <1>1, <2>1
<1>5. G[{}] = 0  BY <1>1 DEF IsSum
<1>6. ASSUME NEW s \in SUBSET S, NEW x \in s PROVE G[s] = w[x] + G[s \ {x}]
  <2>0. s \ {x} \in SUBSET S  OBVIOUS
  <2>1. CASE x = y
    <3>1. G[s] = w[y] + F[s \ {y}] /\ G[s \ {x}] = F[s \ {y}]  BY <1>1, <2>0, <2>1
    <3> QED  BY <2>1, <3>1
  <2>2. CASE x # y /\ y \in s
    <3>1. G[s] = w[y] + F[s \ {y}]  BY <1>1, <2>2
    <3>2. G[s \ {x}] = w[y] + F[(s \ {x}) \ {y}]  BY <1>1, <2>0, <2>2
    <3>3. s \ {y} \in SUBSET (S \ {y}) /\ x \in s \ {y} /\ (s \ {y}) \ {x} = (s \ {x}) \ {y}
      BY <2>2
    <3>4. F[s \ {y}] = w[x] + F[(s \ {x}) \ {y}]
      <4>1. PICK p : p = s \ {y}  OBVIOUS
      <4>2. p \in SUBSET (S \ {y}) /\ x \in p  BY <3>3, <4>1
      <4>3. F[p] = w[x] + F[p \ {x}]  BY <4>2 DEF IsSum
      <4>4. p \ {x} = (s \ {x}) \ {y}  BY <3>3, <4>1
      <4> QED  BY <4>1, <4>3, <4>4
    <3>5. F[s \ {y}] \in Int /\ F[(s \ {x}) \ {y}] \in Int  BY <1>2, <1>3, <2>0
    <3>6. PICK a \in Int, b \in Int, c \in Int :
             a = w[y] /\ b = F[s \ {y}] /\ c = F[(s \ {x}) \ {y}]
      BY <3>5
    <3>7. b = w[x] + c /\ G[s] = a + b /\ G[s \ {x}] = a + c  BY <3>1, <3>2, <3>4, <3>6
    <3>8. PICK d \in Int : d = w[x]  OBVIOUS
    <3> QED  BY <3>7, <3>8
  <2>3. CASE y \notin s
    <3>1. G[s] = F[s] /\ G[s \ {x}] = F[s \ {x}]  BY <1>1, <2>0, <2>3
    <3>2. F[s] = w[x] + F[s \ {x}]  BY <1>3, <2>3 DEF IsSum
    <3> QED  BY <3>1, <3>2
  <2> QED  BY <2>1, <2>2, <2>3
<1> QED  BY <1>4, <1>5, <1>6 DEF IsSum

\* Every finite set has a sum.
LEMMA SumExists ==
    ASSUME NEW K, IsFiniteSet(K), NEW w \in [K -> Int] PROVE \E F : IsSum(F, w, K)
<1> DEFINE Good == {S \in SUBSET K : \E F : IsSum(F, w, S)}
<1>1. {} \in Good
  <2>1. PICK F : F = [s \in SUBSET {} |-> 0]  OBVIOUS
  <2>2. IsSum(F, w, {})  BY <2>1 DEF IsSum
  <2> QED  BY <2>2
<1>2. ASSUME NEW s \in SUBSET K, s # {} PROVE \E x \in s : s \ {x} \in Good => s \in Good
  <2>1. PICK x \in s : TRUE  BY <1>2
  <2>2. \A y \in s : w[y] \in Int  OBVIOUS
  <2>3. s \ {x} \in Good => s \in Good  BY <2>2, SumExtends
  <2> QED  BY <2>3
<1>3. SUBSET K \subseteq Good
  <2> HIDE DEF Good
  <2> QED  BY <1>1, <1>2, SubsetInduction
<1> QED  BY <1>3

\* Sums of weights that agree on S agree on S.
LEMMA SumsAgree ==
    ASSUME NEW K, NEW S \in SUBSET K, IsFiniteSet(S), NEW w, NEW v, NEW F, NEW G,
           IsSum(F, w, K), IsSum(G, v, K), \A x \in S : w[x] = v[x]
    PROVE  F[S] = G[S]
<1> DEFINE Good == {s \in SUBSET S : F[s] = G[s]}
<1>1. {} \in Good  BY DEF IsSum
<1>2. ASSUME NEW s \in SUBSET S, s # {} PROVE \E x \in s : s \ {x} \in Good => s \in Good
  <2>1. PICK x \in s : TRUE  BY <1>2
  <2>2. s \in SUBSET K /\ w[x] = v[x]  OBVIOUS
  <2>3. F[s] = w[x] + F[s \ {x}] /\ G[s] = v[x] + G[s \ {x}]  BY <2>2 DEF IsSum
  <2>4. s \ {x} \in Good => s \in Good  BY <2>2, <2>3
  <2> QED  BY <2>4
<1>3. SUBSET S \subseteq Good
  <2> HIDE DEF Good
  <2> QED  BY <1>1, <1>2, SubsetInduction
<1> QED  BY <1>3

\* The recursive definition of a sum, which takes some element at a time, has the
\* sum as its only solution.
LEMMA RecursiveSum ==
    ASSUME NEW S, IsFiniteSet(S), NEW w, NEW F, IsSum(F, w, S)
    PROVE  \A g : g = [s \in SUBSET S |-> IF s = {} THEN 0
                                          ELSE w[Choice(s)] + g[s \ {Choice(s)}]]
                  <=> g = F
<1>c. \A s \in SUBSET S : s # {} => Choice(s) \in s  BY DEF Choice
<1>1. ASSUME NEW g, g = [s \in SUBSET S |-> IF s = {} THEN 0
                                            ELSE w[Choice(s)] + g[s \ {Choice(s)}]]
      PROVE  g = F
  <2> DEFINE Good == {s \in SUBSET S : g[s] = F[s]}
  <2>1. {} \in Good  BY <1>1 DEF IsSum
  <2>2. ASSUME NEW s \in SUBSET S, s # {} PROVE \E x \in s : s \ {x} \in Good => s \in Good
    <3>1. PICK x \in s : x = Choice(s)  BY <1>c, <2>2
    <3>2. g[s] = w[x] + g[s \ {x}]  BY <1>1, <2>2, <3>1
    <3>3. F[s] = w[x] + F[s \ {x}]  BY DEF IsSum
    <3>4. s \ {x} \in Good => s \in Good  BY <3>2, <3>3
    <3> QED  BY <3>4
  <2>3. SUBSET S \subseteq Good
    <3> HIDE DEF Good
    <3> QED  BY <2>1, <2>2, SubsetInduction
  <2>4. \A s \in SUBSET S : g[s] = F[s]  BY <2>3
  <2>5. g = [s \in SUBSET S |-> g[s]]  BY <1>1
  <2>6. F = [s \in SUBSET S |-> F[s]]  BY DEF IsSum
  <2> QED  BY <2>4, <2>5, <2>6
<1>2. F = [s \in SUBSET S |-> IF s = {} THEN 0 ELSE w[Choice(s)] + F[s \ {Choice(s)}]]
  <2>1. \A s \in SUBSET S : F[s] = IF s = {} THEN 0 ELSE w[Choice(s)] + F[s \ {Choice(s)}]
    BY <1>c DEF IsSum
  <2>2. F = [s \in SUBSET S |-> F[s]]  BY DEF IsSum
  <2> QED  BY <2>1, <2>2
<1> QED  BY <1>1, <1>2

-----------------------------------------------------------------------------
(***************************************************************************)
(* The account of a map.                                                   *)
(***************************************************************************)
\* What UsedBytesExact says, with the sum of the library unfolded.
LEMMA SumUnfolded ==
    ASSUME NEW g, g = CHOOSE iter : iter = [s \in SUBSET Present |->
                            IF s = {} THEN 0 ELSE Bytes(Choice(s)) + iter[s \ {Choice(s)}]]
    PROVE  UsedBytesExact <=> used_bytes = g[Present]
BY DEF UsedBytesExact, MapThenSumSet, MapThenFoldSet, Choice, Bytes

\* Entries weigh their size and missing keys nothing.
LEMMA WeightFacts ==
    ASSUME TypeOK
    PROVE  /\ Weight \in [Keys -> Int]
           /\ \A k \in Keys : k \notin Present => Weight[k] = 0
           /\ \A k \in Present : Weight[k] = Bytes(k)
<1>1. ASSUME NEW k \in Keys, map[k] # NoEntry PROVE Bytes(k) \in Nat
  BY <1>1, EntryFacts, SizeType DEF Bytes, Entry
<1> QED  BY <1>1 DEF Weight, Present

\* The account is exact if it is the sum of the weights of all keys.
LEMMA SumOfBytes ==
    ASSUME TypeOK, NEW F, IsSum(F, Weight, Keys)
    PROVE  UsedBytesExact <=> used_bytes = F[Keys]
<1>f. IsFiniteSet(Keys) /\ Present \subseteq Keys /\ IsFiniteSet(Present)
  BY SizeAssumption, FS_Subset DEF Present
<1>1. PICK P : P = [s \in SUBSET Present |-> F[s]]  OBVIOUS
<1>2. IsSum(P, Weight, Present)
  <2>1. \A s \in SUBSET Present : F[s] \in Int  BY <1>f DEF IsSum
  <2>2. \A s \in SUBSET Present : \A x \in s :
           s \ {x} \in SUBSET Present /\ F[s] = Weight[x] + F[s \ {x}]
    BY <1>f DEF IsSum
  <2> QED  BY <1>1, <2>1, <2>2 DEF IsSum
<1>3. PICK g : g = CHOOSE iter : iter = [s \in SUBSET Present |->
                      IF s = {} THEN 0 ELSE Bytes(Choice(s)) + iter[s \ {Choice(s)}]]
  OBVIOUS
<1>4. \A h : h = [s \in SUBSET Present |->
                     IF s = {} THEN 0 ELSE Bytes(Choice(s)) + h[s \ {Choice(s)}]]
             <=> h = P
  <2>1. \A s \in SUBSET Present : s # {} => Weight[Choice(s)] = Bytes(Choice(s))
    <3> SUFFICES ASSUME NEW s \in SUBSET Present, s # {}
                 PROVE  Weight[Choice(s)] = Bytes(Choice(s))
      OBVIOUS
    <3>1. Choice(s) \in Present  BY DEF Choice
    <3> QED  BY <3>1, WeightFacts
  <2> SUFFICES ASSUME NEW h
               PROVE  h = [s \in SUBSET Present |->
                             IF s = {} THEN 0 ELSE Bytes(Choice(s)) + h[s \ {Choice(s)}]]
                      <=> h = P
    OBVIOUS
  <2>2. [s \in SUBSET Present |->
            IF s = {} THEN 0 ELSE Bytes(Choice(s)) + h[s \ {Choice(s)}]]
        = [s \in SUBSET Present |->
            IF s = {} THEN 0 ELSE Weight[Choice(s)] + h[s \ {Choice(s)}]]
    BY <2>1
  <2>3. h = [s \in SUBSET Present |->
            IF s = {} THEN 0 ELSE Weight[Choice(s)] + h[s \ {Choice(s)}]] <=> h = P
    BY <1>f, <1>2, RecursiveSum
  <2> QED  BY <2>2, <2>3
<1>5. g = P  BY <1>3, <1>4
<1>6. UsedBytesExact <=> used_bytes = F[Present]
  BY <1>1, <1>3, <1>5, SumUnfolded
<1>7. F[Present] = F[Keys]
  <2> DEFINE Rest == Keys \ Present
             Good == {s \in SUBSET Rest : F[Present \cup s] = F[Present]}
  <2>1. {} \in Good  OBVIOUS
  <2>2. ASSUME NEW s \in SUBSET Rest, s # {}
        PROVE  \E x \in s : s \ {x} \in Good => s \in Good
    <3>1. PICK x \in s : TRUE  BY <2>2
    <3>2. Weight[x] = 0 /\ Present \cup s \in SUBSET Keys /\ x \in Present \cup s
      BY <1>f, WeightFacts
    <3>3. (Present \cup s) \ {x} = Present \cup (s \ {x})  OBVIOUS
    <3>4. F[Present \cup s] = Weight[x] + F[Present \cup (s \ {x})]
      BY <3>2, <3>3 DEF IsSum
    <3>5. F[Present \cup (s \ {x})] \in Int  BY <1>f DEF IsSum
    <3>6. F[Present \cup s] = F[Present \cup (s \ {x})]  BY <3>2, <3>4, <3>5
    <3>7. s \ {x} \in Good => s \in Good  BY <3>6
    <3> QED  BY <3>7
  <2>3. IsFiniteSet(Rest)  BY <1>f, FS_Subset
  <2>4. SUBSET Rest \subseteq Good
    <3> HIDE DEF Good, Rest
    <3> QED  BY <2>1, <2>2, <2>3, SubsetInduction
  <2>5. Rest \in SUBSET Rest  OBVIOUS
  <2>6. F[Present \cup Rest] = F[Present]  BY <2>4, <2>5
  <2>7. PICK U : U = Present \cup Rest  OBVIOUS
  <2>8. U = Keys  BY <1>f, <2>7
  <2> QED  BY <2>6, <2>7, <2>8
<1> QED  BY <1>6, <1>7

LEMMA AccountAsSum ==
    TypeOK => \A F : IsSum(F, Weight, Keys) => (UsedBytesExact <=> used_bytes = F[Keys])
BY SumOfBytes

LEMMA WeightType == TypeOK => Weight \in [Keys -> Int]
BY WeightFacts

\* The same in the next state.
LEMMA NextAccount ==
    ASSUME TypeOK'
    PROVE  /\ \A F : IsSum(F, Weight', Keys) => (UsedBytesExact' <=> used_bytes' = F[Keys])
           /\ Weight' \in [Keys -> Int]
<1>1. (TypeOK => \A F : IsSum(F, Weight, Keys) => (UsedBytesExact <=> used_bytes = F[Keys]))'
  BY AccountAsSum, PTL
<1>2. (TypeOK => Weight \in [Keys -> Int])'  BY WeightType, PTL
<1> QED  BY <1>1, <1>2

-----------------------------------------------------------------------------
(***************************************************************************)
(* Steps that keep the account exact.                                      *)
(***************************************************************************)
\* The step changes the weight of k alone and books the difference ...
Books(k) ==
    /\ \A j \in Keys \ {k} : Weight'[j] = Weight[j]
    /\ used_bytes' = used_bytes - Weight[k] + Weight'[k]
\* ... or no weight and books nothing.
Keeps ==
    /\ \A j \in Keys : Weight'[j] = Weight[j]
    /\ used_bytes' = used_bytes

LEMMA BooksStep ==
    ASSUME TypeOK, TypeOK', UsedBytesExact, NEW k \in Keys, Books(k)
    PROVE  UsedBytesExact'
<1>f. IsFiniteSet(Keys) /\ Keys \ {k} \in SUBSET Keys /\ IsFiniteSet(Keys \ {k})
  BY SizeAssumption, FS_Subset
<1>w. Weight \in [Keys -> Int] /\ Weight' \in [Keys -> Int]
  BY WeightType, NextAccount
<1>1. PICK w \in [Keys -> Int] : w = Weight  BY <1>w
<1>2. PICK v \in [Keys -> Int] : v = Weight'  BY <1>w
<1>3. PICK F : IsSum(F, w, Keys)  BY <1>f, SumExists
<1>4. PICK G : IsSum(G, v, Keys)  BY <1>f, SumExists
<1>5. F[Keys \ {k}] = G[Keys \ {k}]
  <2>1. \A j \in Keys \ {k} : w[j] = v[j]  BY <1>1, <1>2 DEF Books
  <2> QED  BY <1>f, <1>3, <1>4, <2>1, SumsAgree
<1>6. F[Keys] = w[k] + F[Keys \ {k}] /\ F[Keys \ {k}] \in Int  BY <1>f, <1>3 DEF IsSum
<1>7. G[Keys] = v[k] + G[Keys \ {k}]  BY <1>f, <1>4 DEF IsSum
<1>8. used_bytes = F[Keys]  BY <1>1, <1>3, AccountAsSum
<1>9. used_bytes' = used_bytes - w[k] + v[k]  BY <1>1, <1>2 DEF Books
<1>10. used_bytes' = G[Keys]
  <2>1. PICK c \in Int : c = F[Keys \ {k}]  BY <1>6
  <2>2. w[k] \in Int /\ v[k] \in Int  OBVIOUS
  <2>3. used_bytes = w[k] + c /\ G[Keys] = v[k] + c  BY <1>5, <1>6, <1>7, <1>8, <2>1
  <2> QED  BY <1>9, <2>2, <2>3
<1> QED  BY <1>2, <1>4, <1>10, NextAccount

LEMMA KeepsStep ==
    ASSUME TypeOK, TypeOK', UsedBytesExact, Keeps PROVE UsedBytesExact'
<1>w. Weight \in [Keys -> Int] /\ Weight' \in [Keys -> Int]
  BY WeightType, NextAccount
<1>1. PICK w \in [Keys -> Int] : w = Weight  BY <1>w
<1>2. PICK v \in [Keys -> Int] : v = Weight'  BY <1>w
<1>3. w = v  BY <1>1, <1>2 DEF Keeps
<1>4. PICK F : IsSum(F, w, Keys)  BY SizeAssumption, SumExists
<1>5. used_bytes = F[Keys]  BY <1>1, <1>4, AccountAsSum
<1> QED  BY <1>2, <1>3, <1>4, <1>5, NextAccount DEF Keeps

\* An empty store has an empty account.
LEMMA EmptyAccount ==
    ASSUME Present = {}, used_bytes = 0 PROVE UsedBytesExact
<1>1. PICK g : g = CHOOSE iter : iter = [s \in SUBSET Present |->
                      IF s = {} THEN 0 ELSE Bytes(Choice(s)) + iter[s \ {Choice(s)}]]
  OBVIOUS
<1>2. PICK P : P = [s \in SUBSET {} |-> 0]  OBVIOUS
<1>3. \A h : h = [s \in SUBSET Present |->
                     IF s = {} THEN 0 ELSE Bytes(Choice(s)) + h[s \ {Choice(s)}]]
             <=> h = P
  <2> SUFFICES ASSUME NEW h
               PROVE  h = [s \in SUBSET Present |->
                             IF s = {} THEN 0 ELSE Bytes(Choice(s)) + h[s \ {Choice(s)}]]
                      <=> h = P
    OBVIOUS
  <2>1. \A s \in SUBSET {} : s = {}  OBVIOUS
  <2>2. [s \in SUBSET Present |->
            IF s = {} THEN 0 ELSE Bytes(Choice(s)) + h[s \ {Choice(s)}]] = P
    BY <1>2, <2>1
  <2> QED  BY <2>2
<1>4. g = P  BY <1>1, <1>3
<1>5. g[Present] = 0  BY <1>2, <1>4
<1> QED  BY <1>1, <1>5, SumUnfolded

LEMMA EmptyNext == Present' = {} /\ used_bytes' = 0 => UsedBytesExact'
<1>1. Present = {} /\ used_bytes = 0 => UsedBytesExact  BY EmptyAccount
<1>2. (Present = {} /\ used_bytes = 0 => UsedBytesExact)'  BY <1>1, PTL
<1> QED  BY <1>2

\* The building blocks of the commands.
LEMMA RemoveBooks ==
    ASSUME TypeOK, NEW k \in Keys, map[k] # NoEntry, remove_accounted(k) PROVE Books(k)
<1>1. Weight[k] = Bytes(k) /\ Weight[k] \in Int  BY WeightFacts DEF Weight, Present
<1>2. map'[k] = NoEntry /\ \A j \in Keys \ {k} : map'[j] = map[j]
  BY DEF TypeOK, remove_accounted
<1>3. Weight'[k] = 0 /\ \A j \in Keys \ {k} : Weight'[j] = Weight[j]
  BY <1>2 DEF Weight, Bytes
<1>4. used_bytes' = used_bytes - Weight[k]  BY <1>1 DEF remove_accounted, Bytes
<1>5. used_bytes - Weight[k] = used_bytes - Weight[k] + 0  BY <1>1 DEF TypeOK
<1> QED  BY <1>3, <1>4, <1>5 DEF Books

LEMMA SameKeeps ==
    ASSUME UNCHANGED <<map, used_bytes>> PROVE Keeps
BY DEF Keeps, Weight, Bytes

LEMMA ExpireBooks ==
    ASSUME TypeOK, NEW k \in Keys, expire_if_needed(k) PROVE Books(k) \/ Keeps
BY RemoveBooks, SameKeeps DEF expire_if_needed, Expired

\* Marking or retiming an entry does not change its size.
LEMMA MarkKeeps ==
    ASSUME TypeOK, NEW k \in Keys, map[k] # NoEntry, UNCHANGED used_bytes, NEW t \in Ttl,
           \/ map' = [map EXCEPT ![k].clock_bit = TRUE]
           \/ map' = [map EXCEPT ![k].expires_in = t]
    PROVE  Keeps
<1>1. map[k] \in Entry  BY EntryFacts
<1>2. PICK e \in Entry : e.value = map[k].value /\ map' = [map EXCEPT ![k] = e]
  <2>1. /\ [map[k] EXCEPT !.clock_bit = TRUE] \in Entry
        /\ [map[k] EXCEPT !.clock_bit = TRUE].value = map[k].value
        /\ [map[k] EXCEPT !.expires_in = t] \in Entry
        /\ [map[k] EXCEPT !.expires_in = t].value = map[k].value
    BY <1>1 DEF Entry
  <2> QED  BY <2>1
<1>3. e # NoEntry  BY SentinelAssumption
<1>4. map'[k] = e /\ \A j \in Keys \ {k} : map'[j] = map[j]  BY <1>2 DEF TypeOK
<1> QED  BY <1>2, <1>3, <1>4 DEF Keeps, Weight, Bytes

\* An insertion books the new entry and takes the one it replaces off.
LEMMA InsertBooks ==
    ASSUME TypeOK, NEW k \in Keys, NEW v \in Value, NEW t \in Ttl, insert_accounted(k, v, t)
    PROVE  Books(k)
<1>1. PICK e : e = [value |-> v, expires_in |-> t, clock_bit |-> TRUE]  OBVIOUS
<1>2. e \in Entry /\ e.value = v  BY <1>1 DEF Entry
<1>3. e # NoEntry  BY <1>2, SentinelAssumption
<1>4. map' = [map EXCEPT ![k] = e]  BY <1>1 DEF insert_accounted
<1>5. map'[k] = e /\ \A j \in Keys \ {k} : map'[j] = map[j]  BY <1>4 DEF TypeOK
<1>6. Weight'[k] = entry_bytes(k, v)  BY <1>2, <1>3, <1>5 DEF Weight, Bytes
<1>7. \A j \in Keys \ {k} : Weight'[j] = Weight[j]  BY <1>5 DEF Weight, Bytes
<1>8. Weight[k] = IF map[k] = NoEntry THEN 0 ELSE entry_bytes(k, map[k].value)
  BY DEF Weight, Bytes
<1>9. used_bytes' = used_bytes + entry_bytes(k, v) - Weight[k]  BY <1>8 DEF insert_accounted
<1>10. Weight[k] \in Int /\ used_bytes \in Int /\ entry_bytes(k, v) \in Nat
  BY WeightType, SizeType DEF TypeOK
<1>11. used_bytes' = used_bytes - Weight[k] + Weight'[k]  BY <1>6, <1>9, <1>10
<1> QED  BY <1>7, <1>11 DEF Books

-----------------------------------------------------------------------------
(***************************************************************************)
(* The actions.                                                            *)
(***************************************************************************)
LEMMA ReadBooks ==
    ASSUME TypeOK, NEW k \in Keys,
           \/ get(k) \/ get_del(k) \/ del(k)
           \/ \E expiry \in Expiry : get_ex(k, expiry)
           \/ \E t \in Ttl : Retime(k, t)
    PROVE  Books(k) \/ Keeps
<1>t. NoTtl \in Ttl /\ \A expiry \in Expiry : NewTtl(k, expiry) \in Ttl
  BY NewTtlType DEF Ttl
<1>1. CASE ~Live(k)
  <2>1. expire_if_needed(k)  BY <1>1 DEF get, get_del, del, get_ex, Retime
  <2> QED  BY <2>1, ExpireBooks
<1>2. CASE Live(k)
  <2>e. map[k] # NoEntry  BY <1>2 DEF Live
  <2>1. CASE get(k)
    BY <1>2, <1>t, <2>e, <2>1, MarkKeeps DEF get
  <2>2. CASE get_del(k) \/ del(k)
    BY <1>2, <2>e, <2>2, RemoveBooks DEF get_del, del
  <2>3. ASSUME NEW expiry \in Expiry, get_ex(k, expiry) PROVE Keeps
    BY <1>2, <1>t, <2>e, <2>3, MarkKeeps DEF get_ex
  <2>4. ASSUME NEW t \in Ttl, Retime(k, t) PROVE Keeps
    BY <1>2, <2>e, <2>4, MarkKeeps DEF Retime
  <2> QED  BY <2>1, <2>2, <2>3, <2>4
<1> QED  BY <1>1, <1>2

LEMMA WriteBooks ==
    ASSUME TypeOK, NEW k \in Keys,
           \/ \E delta \in Deltas : incr_by(k, delta)
           \/ \E v \in Value : mset(k, v)
           \/ \E v \in Value, expiry \in Expiry, condition \in Condition, want_old \in BOOLEAN :
                 set(k, v, expiry, condition, want_old)
    PROVE  Books(k) \/ Keeps
<1>t. TtlOf(k) \in Ttl /\ NoTtl \in Ttl  BY EntryFacts DEF Ttl
<1>1. ASSUME NEW delta \in Deltas, incr_by(k, delta) PROVE Books(k) \/ Keeps
  <2>1. CASE Current(k) # NotInt /\ ~Overflows(k, delta)
    <3>1. Render[Current(k) + delta] \in Value  BY <2>1, IntAssumption DEF Overflows
    <3> QED  BY <1>1, <1>t, <2>1, <3>1, InsertBooks DEF incr_by
  <2>2. CASE ~(Current(k) # NotInt /\ ~Overflows(k, delta))
    BY <1>1, <2>2, ExpireBooks DEF incr_by
  <2> QED  BY <2>1, <2>2
<1>2. ASSUME NEW v \in Value, mset(k, v) PROVE Books(k)
  BY <1>2, <1>t, InsertBooks DEF mset
<1>3. ASSUME NEW v \in Value, NEW expiry \in Expiry, NEW condition \in Condition,
             NEW want_old \in BOOLEAN, set(k, v, expiry, condition, want_old)
      PROVE  Books(k) \/ Keeps
  <2>1. NewTtl(k, expiry) \in Ttl  BY NewTtlType
  <2> QED  BY <1>3, <2>1, InsertBooks, ExpireBooks DEF set
<1> QED  BY <1>1, <1>2, <1>3

LEMMA CommandBooks ==
    ASSUME TypeOK, NEW k \in Keys, Command(k) PROVE Books(k) \/ Keeps
<1>1. TtlOf(k) \in Ttl /\ NoTtl \in Ttl /\ 0..MaxTtl \subseteq Ttl  BY EntryFacts DEF Ttl
<1>2. CASE \/ exists(k) \/ persist(k) \/ ttl_seconds(k) \/ pttl_millis(k)
           \/ \E t \in 0..MaxTtl : expire(k, t)
  <2>1. \E t \in Ttl : Retime(k, t)
    BY <1>1, <1>2 DEF exists, persist, ttl_seconds, pttl_millis, expire
  <2> QED  BY <2>1, ReadBooks
<1>3. CASE get(k) \/ get_del(k) \/ del(k) \/ \E expiry \in Expiry : get_ex(k, expiry)
  BY <1>3, ReadBooks
<1>4. CASE \/ \E delta \in Deltas : incr_by(k, delta)
           \/ \E v \in Value : mset(k, v)
           \/ \E v \in Value, expiry \in Expiry, condition \in Condition, want_old \in BOOLEAN :
                 set(k, v, expiry, condition, want_old)
  BY <1>4, WriteBooks
<1> QED  BY <1>2, <1>3, <1>4 DEF Command

\* An eviction books the victim; the entries whose bit it clears keep their size.
LEMMA EvictBooks ==
    ASSUME TypeOK, EvictOne PROVE \E v \in Keys : Books(v)
<1>1. PICK v \in Candidates : Evict(v)  BY DEF EvictOne
<1>2. v \in Keys /\ map[v] # NoEntry /\ Passed(v) \subseteq Present
  BY DEF Candidates, FirstKeys, Present, Passed
<1>3. map'[v] = NoEntry  BY <1>1, <1>2 DEF Evict
<1>4. ASSUME NEW j \in Keys, j # v PROVE Weight'[j] = Weight[j]
  <2>1. CASE j \in Passed(v)
    <3>1. map[j] \in Entry /\ map[j] # NoEntry  BY <1>2, <2>1, EntryFacts DEF Present
    <3>2. PICK e : e = [map[j] EXCEPT !.clock_bit = FALSE]  OBVIOUS
    <3>3. e \in Entry /\ e.value = map[j].value  BY <3>1, <3>2 DEF Entry
    <3>4. e # NoEntry  BY <3>3, SentinelAssumption
    <3>5. map'[j] = e  BY <1>1, <1>4, <2>1, <3>2 DEF Evict
    <3> QED  BY <3>1, <3>3, <3>4, <3>5 DEF Weight, Bytes
  <2>2. CASE j \notin Passed(v)
    <3>1. map'[j] = map[j]  BY <1>1, <1>4, <2>2 DEF Evict
    <3> QED  BY <3>1 DEF Weight, Bytes
  <2> QED  BY <2>1, <2>2
<1>5. Weight[v] = Bytes(v) /\ Weight'[v] = 0  BY <1>2, <1>3 DEF Weight
<1>6. Weight[v] \in Int /\ used_bytes \in Int  BY <1>2, WeightType DEF TypeOK
<1>7. used_bytes' = used_bytes - Weight[v]  BY <1>1, <1>5 DEF Evict, Bytes
<1>8. used_bytes' = used_bytes - Weight[v] + Weight'[v]  BY <1>5, <1>6, <1>7
<1> QED  BY <1>2, <1>4, <1>8 DEF Books

LEMMA TickKeeps == ASSUME TypeOK, Tick PROVE Keeps
<1>1. ASSUME NEW j \in Keys PROVE Weight'[j] = Weight[j]
  <2>1. CASE Live(j) /\ map[j].expires_in # NoTtl
    <3>1. map[j] \in Entry /\ map[j] # NoEntry /\ map[j].expires_in \in 1..MaxTtl
      BY <2>1, EntryFacts, TimeAssumption DEF Live, is_live, Entry, Ttl
    <3>2. PICK e : e = [map[j] EXCEPT !.expires_in = map[j].expires_in - 1]  OBVIOUS
    <3>3. map[j].expires_in - 1 \in Ttl  BY <3>1, TimeAssumption DEF Ttl
    <3>4. e \in Entry /\ e.value = map[j].value  BY <3>1, <3>2, <3>3 DEF Entry
    <3>5. e # NoEntry  BY <3>4, SentinelAssumption
    <3>6. map'[j] = e  BY <2>1, <3>2 DEF Tick
    <3> QED  BY <3>1, <3>4, <3>5, <3>6 DEF Weight, Bytes
  <2>2. CASE ~(Live(j) /\ map[j].expires_in # NoTtl)
    <3>1. map'[j] = map[j]  BY <2>2 DEF Tick
    <3> QED  BY <3>1 DEF Weight, Bytes
  <2> QED  BY <2>1, <2>2
<1> QED  BY <1>1 DEF Keeps, Tick

LEMMA AccountStep ==
    ASSUME IndInv, IndInv', UsedBytesExact, [Next]_vars PROVE UsedBytesExact'
<1>t. TypeOK /\ TypeOK' /\ LoopInv  BY DEF IndInv
<1>1. ASSUME (\E k \in Keys : Books(k)) \/ Keeps PROVE UsedBytesExact'
  BY <1>1, <1>t, BooksStep, KeepsStep
<1>2. ASSUME NEW k \in Keys, Command(k) PROVE UsedBytesExact'
  BY <1>1, <1>2, <1>t, CommandBooks
<1>3. CASE all_keys  BY <1>1, <1>3, SameKeeps DEF all_keys
<1>4. CASE random_key
  <2>1. \/ \E k \in Keys : map[k] # NoEntry /\ remove_accounted(k)
        \/ UNCHANGED <<map, used_bytes>>
    BY <1>4 DEF random_key, Expired, FirstKeys, Present
  <2> QED  BY <1>1, <1>t, <2>1, RemoveBooks, SameKeeps
<1>5. CASE clear
  <2>1. (Present = {})' /\ (used_bytes = 0)'  BY <1>5 DEF clear, Present
  <2> QED  BY <2>1, EmptyNext
<1>6. CASE EvictOne  BY <1>1, <1>6, <1>t, EvictBooks
<1>7. CASE EvictNone  BY <1>1, <1>7, SameKeeps DEF EvictNone
<1>8. CASE active_expire_sweep  BY <1>1, <1>8, SameKeeps DEF active_expire_sweep
<1>9. CASE SweepRemove
  <2>1. PICK k \in doomed : remove_accounted(k)  BY <1>9 DEF SweepRemove
  <2>2. k \in Keys /\ map[k] # NoEntry  BY <1>t DEF LoopInv, Present
  <2> QED  BY <1>1, <1>t, <2>1, <2>2, RemoveBooks
<1>10. CASE Tick  BY <1>1, <1>10, <1>t, TickKeeps
<1>11. CASE UNCHANGED vars  BY <1>1, <1>11, SameKeeps DEF vars
<1> QED  BY <1>2, <1>3, <1>4, <1>5, <1>6, <1>7, <1>8, <1>9, <1>10, <1>11 DEF Next

\* In every reachable state used_bytes is the sum of entry_bytes over the entries
\* of the map: no overwrite, expiry, eviction pass, sweep or FLUSHALL lets the
\* account drift (insert_accounted, remove_accounted, clear).
THEOREM AccountExact == Spec => []UsedBytesExact
<1>1. Init => UsedBytesExact
  <2>1. Init => Present = {} /\ used_bytes = 0  BY DEF Init, Present
  <2> QED  BY <2>1, EmptyAccount
<1>2. IndInv /\ IndInv' /\ UsedBytesExact /\ [Next]_vars => UsedBytesExact'
  BY AccountStep
<1> QED  BY Invariance, <1>1, <1>2, PTL DEF Spec

\* The account covers the entry that any step could take off it: the unchecked
\* `-=` on a usize in remove_accounted and insert_accounted cannot underflow.
NoUnderflow ==
    /\ used_bytes \in Nat
    /\ \A k \in Present : entry_bytes(k, map[k].value) <= used_bytes

\* No subtraction of the byte account ever goes below zero, whichever entry of the
\* map is removed or overwritten (remove_accounted, insert_accounted).
THEOREM AccountCovers == Spec => []NoUnderflow
<1>1. ASSUME TypeOK, UsedBytesExact PROVE NoUnderflow
  <2>f. IsFiniteSet(Keys)  BY SizeAssumption
  <2>w. \A k \in Keys : Weight[k] \in Nat
    <3>1. ASSUME NEW k \in Keys, map[k] # NoEntry PROVE Bytes(k) \in Nat
      BY <1>1, <3>1, EntryFacts, SizeType DEF Bytes, Entry
    <3> QED  BY <3>1 DEF Weight
  <2>1. PICK F : IsSum(F, Weight, Keys)
    <3>1. PICK w \in [Keys -> Int] : w = Weight  BY <1>1, WeightType
    <3> QED  BY <2>f, <3>1, SumExists
  <2> DEFINE Good == {s \in SUBSET Keys : F[s] \in Nat}
  <2>2. {} \in Good  BY <2>1 DEF IsSum
  <2>3. ASSUME NEW s \in SUBSET Keys, s # {} PROVE \E x \in s : s \ {x} \in Good => s \in Good
    <3>1. PICK x \in s : TRUE  BY <2>3
    <3>2. F[s] = Weight[x] + F[s \ {x}]  BY <2>1 DEF IsSum
    <3>3. Weight[x] \in Nat  BY <2>w
    <3>4. s \ {x} \in Good => s \in Good  BY <3>2, <3>3
    <3> QED  BY <3>4
  <2>4. SUBSET Keys \subseteq Good
    <3> HIDE DEF Good
    <3> QED  BY <2>f, <2>2, <2>3, SubsetInduction
  <2>5. used_bytes = F[Keys]  BY <1>1, <2>1, AccountAsSum
  <2>6. used_bytes \in Nat  BY <2>4, <2>5
  <2>7. ASSUME NEW k \in Present PROVE entry_bytes(k, map[k].value) <= used_bytes
    <3>1. k \in Keys /\ Keys \ {k} \in SUBSET Keys  BY DEF Present
    <3>2. PICK rest \in Nat : rest = F[Keys \ {k}]  BY <2>4, <3>1
    <3>3. used_bytes = Weight[k] + rest  BY <2>1, <2>5, <3>1, <3>2 DEF IsSum
    <3>4. Weight[k] = entry_bytes(k, map[k].value)  BY <1>1, WeightFacts DEF Bytes
    <3>5. Weight[k] \in Nat  BY <2>w, <3>1
    <3>6. Weight[k] <= used_bytes  BY <3>3, <3>5
    <3> QED  BY <3>4, <3>6
  <2> QED  BY <2>6, <2>7 DEF NoUnderflow
<1>2. TypeOK /\ UsedBytesExact => NoUnderflow  BY <1>1
<1> QED  BY TypeCorrect, AccountExact, <1>2, PTL

-----------------------------------------------------------------------------
(***************************************************************************)
(* RespStore implements AbstractCache, step by step: every command of the  *)
(* store is the command of the cache, an eviction is an eviction, a tick a *)
(* tick, and lazy and active expiry are steps that no client can see.      *)
(***************************************************************************)
\* The refinement mapping of Abstract, for one entry.
Shown(e) ==
    IF e # NoEntry /\ is_live(e) THEN [value |-> e.value, ttl |-> e.expires_in] ELSE Nil

\* A sweep removes what has expired and nothing else.
DoomedInv == \A k \in doomed : Expired(k)

LEMMA CacheAt == \A k \in Keys : Cache[k] = Shown(map[k])
BY DEF Cache, Shown, Live

\* Nothing a client sees changes.
LEMMA SameCache ==
    ASSUME \A j \in Keys : Shown(map'[j]) = Shown(map[j]) PROVE Cache' = Cache
<1>1. \A j \in Keys : Cache'[j] = Shown(map'[j]) /\ Cache[j] = Shown(map[j])
  BY DEF Cache, Shown, Live
<1>2. Cache' = [j \in Keys |-> Cache'[j]] /\ Cache = [j \in Keys |-> Cache[j]]
  BY DEF Cache
<1> QED  BY <1>1, <1>2

\* The entry of one key changes.
LEMMA OneCached ==
    ASSUME NEW k \in Keys, \A j \in Keys \ {k} : Shown(map'[j]) = Shown(map[j])
    PROVE  Cache' = [Cache EXCEPT ![k] = Shown(map'[k])]
<1>1. \A j \in Keys : Cache'[j] = Shown(map'[j]) /\ Cache[j] = Shown(map[j])
  BY DEF Cache, Shown, Live
<1>2. Cache' = [j \in Keys |-> Cache'[j]] /\ Cache = [j \in Keys |-> Cache[j]]
  BY DEF Cache
<1> HIDE DEF Cache
<1> QED  BY <1>1, <1>2

\* What the cache finds at a key is what the store finds there.
LEMMA Lookup ==
    ASSUME TypeOK, NEW k \in Keys
    PROVE  /\ Abstract!Has(k) <=> Live(k)
           /\ Abstract!ValueAt(k) = ValueOf(k)
           /\ Abstract!TtlAt(k) = TtlOf(k)
<1>1. CASE Live(k)
  <2>1. map[k] \in Entry  BY <1>1, EntryFacts DEF Live
  <2>2. [value |-> map[k].value, ttl |-> map[k].expires_in] \in [value : Value, ttl : Ttl]
    BY <2>1 DEF Entry
  <2> QED  BY <1>1, <2>2, SentinelAssumption
           DEF Abstract!Has, Abstract!ValueAt, Abstract!TtlAt, Cache, ValueOf, TtlOf
<1>2. CASE ~Live(k)
  BY <1>2 DEF Abstract!Has, Abstract!ValueAt, Abstract!TtlAt, Cache, ValueOf, TtlOf
<1> QED  BY <1>1, <1>2

\* Storing an entry whose deadline has passed is storing nothing.
LEMMA ShownStored ==
    ASSUME NEW e \in Entry PROVE Shown(e) = Abstract!Stored(e.value, e.expires_in)
<1>1. e # NoEntry  BY SentinelAssumption
<1>2. is_live(e) <=> e.expires_in # 0
  BY TimeAssumption DEF Entry, Ttl, is_live
<1> QED  BY <1>1, <1>2 DEF Shown, Abstract!Stored

LEMMA CacheSelf ==
    ASSUME NEW k \in Keys
    PROVE  /\ [Cache EXCEPT ![k] = Cache[k]] = Cache
           /\ ~Live(k) => Cache[k] = Nil
<1>1. Cache = [j \in Keys |-> Cache[j]]  BY DEF Cache
<1>2. ~Live(k) => Cache[k] = Nil  BY DEF Cache
<1> HIDE DEF Cache
<1> QED  BY <1>1, <1>2

\* An entry removed.
LEMMA RemoveCached ==
    ASSUME TypeOK, NEW k \in Keys, remove_accounted(k)
    PROVE  Cache' = [Cache EXCEPT ![k] = Nil]
<1>1. map' = [map EXCEPT ![k] = NoEntry] /\ map \in [Keys -> Entry \cup {NoEntry}]
  BY DEF remove_accounted, TypeOK
<1>2. map'[k] = NoEntry /\ \A j \in Keys \ {k} : map'[j] = map[j]  BY <1>1
<1>3. Shown(map'[k]) = Nil  BY <1>2 DEF Shown
<1>4. Cache' = [Cache EXCEPT ![k] = Shown(map'[k])]  BY <1>2, OneCached
<1> QED  BY <1>3, <1>4

\* Lazy expiry cannot be seen.
LEMMA ExpireCached ==
    ASSUME TypeOK, NEW k \in Keys, ~Live(k), expire_if_needed(k)
    PROVE  Cache' = Cache /\ Cache[k] = Nil
<1>1. Cache[k] = Nil /\ [Cache EXCEPT ![k] = Cache[k]] = Cache  BY CacheSelf
<1>2. CASE remove_accounted(k)
  <2>1. Cache' = [Cache EXCEPT ![k] = Nil]  BY <1>2, RemoveCached
  <2> QED  BY <1>1, <2>1
<1>3. CASE UNCHANGED map
  <2>1. Cache' = Cache  BY <1>3, SameCache
  <2> QED  BY <1>1, <2>1
<1> QED  BY <1>2, <1>3 DEF expire_if_needed

\* An entry written or changed.
LEMMA StoreCached ==
    ASSUME TypeOK, NEW k \in Keys, NEW e \in Entry, map' = [map EXCEPT ![k] = e]
    PROVE  Cache' = [Cache EXCEPT ![k] = Abstract!Stored(e.value, e.expires_in)]
<1>1. map \in [Keys -> Entry \cup {NoEntry}]  BY DEF TypeOK
<1>2. map'[k] = e /\ \A j \in Keys \ {k} : map'[j] = map[j]  BY <1>1
<1>3. Shown(map'[k]) = Abstract!Stored(e.value, e.expires_in)  BY <1>2, ShownStored
<1>4. Cache' = [Cache EXCEPT ![k] = Shown(map'[k])]  BY <1>2, OneCached
<1> QED  BY <1>3, <1>4

\* The clock bit cannot be seen, a deadline can.
LEMMA MarkCached ==
    ASSUME TypeOK, NEW k \in Keys, Live(k), map' = [map EXCEPT ![k].clock_bit = TRUE]
    PROVE  Cache' = Cache
<1>1. map[k] \in Entry /\ map \in [Keys -> Entry \cup {NoEntry}]  BY EntryFacts DEF Live, TypeOK
<1>2. PICK e \in Entry : e = [map[k] EXCEPT !.clock_bit = TRUE] /\ e.value = map[k].value
                         /\ e.expires_in = map[k].expires_in
  <2>1. PICK e : e = [map[k] EXCEPT !.clock_bit = TRUE]  OBVIOUS
  <2>2. TRUE \in BOOLEAN  OBVIOUS
  <2>3. e \in Entry  BY <1>1, <2>1, <2>2 DEF Entry
  <2>4. e.value = map[k].value /\ e.expires_in = map[k].expires_in  BY <1>1, <2>1 DEF Entry
  <2> QED  BY <2>1, <2>3, <2>4
<1>3. map'[k] = e /\ \A j \in Keys \ {k} : map'[j] = map[j]  BY <1>1, <1>2
<1>4. Shown(map'[k]) = Shown(map[k])  BY <1>1, <1>2, <1>3, ShownStored
<1> QED  BY <1>3, <1>4, SameCache

LEMMA RetimeCached ==
    ASSUME TypeOK, NEW k \in Keys, Live(k), NEW t \in Ttl, map' = [map EXCEPT ![k].expires_in = t]
    PROVE  Cache' = [Cache EXCEPT ![k] = Abstract!Stored(map[k].value, t)]
<1>1. map[k] \in Entry /\ map \in [Keys -> Entry \cup {NoEntry}]  BY EntryFacts DEF Live, TypeOK
<1>2. PICK e \in Entry : e = [map[k] EXCEPT !.expires_in = t] /\ e.value = map[k].value
                         /\ e.expires_in = t
  <2>1. PICK e : e = [map[k] EXCEPT !.expires_in = t]  OBVIOUS
  <2>2. e \in Entry  BY <1>1, <2>1 DEF Entry
  <2>3. e.value = map[k].value /\ e.expires_in = t  BY <1>1, <2>1 DEF Entry
  <2> QED  BY <2>1, <2>2, <2>3
<1>3. map' = [map EXCEPT ![k] = e]  BY <1>1, <1>2
<1>4. Cache' = [Cache EXCEPT ![k] = Abstract!Stored(e.value, e.expires_in)]
  BY <1>3, StoreCached
<1>5. Abstract!Stored(e.value, e.expires_in) = Abstract!Stored(map[k].value, t)  BY <1>2
<1> QED  BY ONLY <1>4, <1>5

LEMMA InsertCached ==
    ASSUME TypeOK, NEW k \in Keys, NEW v \in Value, NEW t \in Ttl, insert_accounted(k, v, t)
    PROVE  Cache' = [Cache EXCEPT ![k] = Abstract!Stored(v, t)]
<1>1. PICK e \in Entry : e = [value |-> v, expires_in |-> t, clock_bit |-> TRUE]
                         /\ e.value = v /\ e.expires_in = t
  <2>1. PICK e : e = [value |-> v, expires_in |-> t, clock_bit |-> TRUE]  OBVIOUS
  <2>2. TRUE \in BOOLEAN  OBVIOUS
  <2>3. e \in Entry  BY <2>1, <2>2 DEF Entry
  <2> QED  BY <2>1, <2>3
<1>2. map' = [map EXCEPT ![k] = e]  BY <1>1 DEF insert_accounted
<1> QED  BY <1>1, <1>2, StoreCached

-----------------------------------------------------------------------------
(***************************************************************************)
(* Reads.                                                                  *)
(***************************************************************************)
LEMMA ReadStep ==
    ASSUME TypeOK, NEW k \in Keys, NEW e, Cache' = [Cache EXCEPT ![k] = e],
           reply' = <<"value", ValueOf(k)>>, UNCHANGED evictions,
           (Live(k) /\ Hit) \/ (~Live(k) /\ Miss)
    PROVE  Abstract!Read(k, e)
<1>1. (Abstract!Has(k) <=> Live(k)) /\ Abstract!ValueAt(k) = ValueOf(k)  BY Lookup
<1>2. hits \in Nat /\ misses \in Nat  BY DEF TypeOK
<1>3. Abstract!Counted(k)  BY <1>1, <1>2 DEF Abstract!Counted, Hit, Miss
<1> QED  BY <1>1, <1>3 DEF Abstract!Read, Cache

LEMMA GetStep == ASSUME TypeOK, NEW k \in Keys, get(k) PROVE Abstract!Get(k)
<1>1. reply' = <<"value", ValueOf(k)>> /\ UNCHANGED evictions  BY DEF get, NoInsert
<1>2. Cache' = Cache /\ ((Live(k) /\ Hit) \/ (~Live(k) /\ Miss))
  <2>1. CASE Live(k)  BY <2>1, MarkCached DEF get
  <2>2. CASE ~Live(k)  BY <2>2, ExpireCached DEF get
  <2> QED  BY <2>1, <2>2
<1>3. PICK e : e = Cache[k]  OBVIOUS
<1>4. Cache' = [Cache EXCEPT ![k] = e]  BY <1>2, <1>3, CacheSelf
<1>5. Abstract!Read(k, e)  BY <1>1, <1>2, <1>4, ReadStep
<1> QED  BY <1>3, <1>5 DEF Abstract!Get, Abstract!Read, Cache

LEMMA GetDelStep == ASSUME TypeOK, NEW k \in Keys, get_del(k) PROVE Abstract!GetDel(k)
<1>1. reply' = <<"value", ValueOf(k)>> /\ UNCHANGED evictions  BY DEF get_del, NoInsert
<1>2. CASE Live(k) /\ remove_accounted(k) /\ Hit
  <2>1. Cache' = [Cache EXCEPT ![k] = Nil]  BY <1>2, RemoveCached
  <2> QED  BY <1>1, <1>2, <2>1, ReadStep DEF Abstract!GetDel
<1>3. CASE ~Live(k) /\ expire_if_needed(k) /\ Miss
  <2>1. Cache' = [Cache EXCEPT ![k] = Nil]  BY <1>3, ExpireCached, CacheSelf
  <2> QED  BY <1>1, <1>3, <2>1, ReadStep DEF Abstract!GetDel
<1> QED  BY <1>2, <1>3 DEF get_del

\* The deadline an option asks for.
LEMMA NewTtlSame ==
    ASSUME TypeOK, NEW k \in Keys, NEW expiry \in Expiry
    PROVE  Abstract!NewTtl(k, expiry) = NewTtl(k, expiry)
<1>1. Abstract!TtlAt(k) = TtlOf(k)  BY Lookup
<1> QED  BY <1>1 DEF Abstract!NewTtl, NewTtl

LEMMA GetExStep ==
    ASSUME TypeOK, NEW k \in Keys, NEW expiry \in Expiry, get_ex(k, expiry)
    PROVE  Abstract!GetEx(k, expiry) \/ Abstract!GetExMissing(k)
<1>1. reply' = <<"value", ValueOf(k)>> /\ UNCHANGED evictions  BY DEF get_ex, NoInsert
<1>2. Abstract!Has(k) <=> Live(k)  BY Lookup
<1>3. CASE Live(k) /\ map' = [map EXCEPT ![k].expires_in = NewTtl(k, expiry)] /\ Hit
  <2>1. PICK t \in Ttl : t = NewTtl(k, expiry) /\ t = Abstract!NewTtl(k, expiry)
    BY NewTtlType, NewTtlSame
  <2>2. PICK e : e = Abstract!Stored(map[k].value, t)  OBVIOUS
  <2>3. Cache' = [Cache EXCEPT ![k] = e]  BY <1>3, <2>1, <2>2, RetimeCached
  <2>4. Abstract!Read(k, e)  BY <1>1, <1>3, <2>3, ReadStep
  <2>5. Cache[k].value = map[k].value  BY <1>3 DEF Cache
  <2>6. e = Abstract!Stored(Cache[k].value, Abstract!NewTtl(k, expiry))  BY <2>1, <2>2, <2>5
  <2> QED  BY <1>2, <1>3, <2>4, <2>6 DEF Abstract!GetEx, Abstract!Read, Cache
<1>4. CASE ~Live(k) /\ expire_if_needed(k) /\ Miss
  <2>1. Cache' = [Cache EXCEPT ![k] = Nil]  BY <1>4, ExpireCached, CacheSelf
  <2> QED  BY <1>1, <1>2, <1>4, <2>1, ReadStep DEF Abstract!GetExMissing
<1> QED  BY <1>3, <1>4 DEF get_ex

-----------------------------------------------------------------------------
(***************************************************************************)
(* Writes.                                                                 *)
(***************************************************************************)
LEMMA AllowedSame ==
    ASSUME TypeOK, NEW k \in Keys, NEW condition \in Condition
    PROVE  /\ condition_ok(k, condition) \in BOOLEAN
           /\ Abstract!Allowed(k, condition) = condition_ok(k, condition)
<1>1. Abstract!Has(k) <=> Live(k)  BY Lookup
<1>2. Live(k) \in BOOLEAN  BY DEF Live
<1>3. CASE condition = "None"
  BY <1>3 DEF Abstract!Allowed, condition_ok
<1>4. CASE condition = "IfExists"
  BY <1>1, <1>2, <1>4 DEF Abstract!Allowed, condition_ok
<1>5. CASE condition = "IfNotExists"
  BY <1>1, <1>2, <1>5 DEF Abstract!Allowed, condition_ok
<1> QED  BY <1>3, <1>4, <1>5 DEF Condition

LEMMA SetStep ==
    ASSUME TypeOK, NEW k \in Keys, NEW v \in Value, NEW expiry \in Expiry,
           NEW condition \in Condition, NEW want_old \in BOOLEAN,
           set(k, v, expiry, condition, want_old)
    PROVE  Abstract!Set(k, condition, want_old)
<1>1. Abstract!Allowed(k, condition) = condition_ok(k, condition)
      /\ condition_ok(k, condition) \in BOOLEAN
  BY AllowedSame
<1>2. Abstract!ValueAt(k) = ValueOf(k)  BY Lookup
<1>3. reply' = <<"set", condition_ok(k, condition), IF want_old THEN ValueOf(k) ELSE Nil>>
      /\ UNCHANGED <<hits, misses, evictions>>
  BY DEF set
<1>4. reply' = <<"set", Abstract!Allowed(k, condition),
                 IF want_old THEN Abstract!ValueAt(k) ELSE Nil>>
  BY <1>1, <1>2, <1>3
<1>5. CASE condition_ok(k, condition) /\ insert_accounted(k, v, NewTtl(k, expiry))
  <2>1. PICK t \in Ttl : t = NewTtl(k, expiry) /\ t = Abstract!NewTtl(k, expiry)
    BY NewTtlType, NewTtlSame
  <2>2. Cache' = [Cache EXCEPT ![k] = Abstract!Stored(v, t)]  BY <1>5, <2>1, InsertCached
  <2>3. Abstract!Put(k, v, Abstract!NewTtl(k, expiry))  BY <2>1, <2>2 DEF Abstract!Put, Cache
  <2> QED  BY <1>1, <1>3, <1>4, <1>5, <2>3 DEF Abstract!Set, Abstract!Uncounted
<1>6. CASE ~condition_ok(k, condition) /\ expire_if_needed(k)
  <2>1. Cache' = Cache
    <3>1. CASE Live(k)
      <4>1. UNCHANGED map  BY <1>6, <3>1 DEF expire_if_needed, Expired, Live
      <4> QED  BY <4>1, SameCache
    <3>2. CASE ~Live(k)  BY <1>6, <3>2, ExpireCached
    <3> QED  BY <3>1, <3>2
  <2> QED  BY <1>1, <1>3, <1>4, <1>6, <2>1 DEF Abstract!Set, Abstract!Uncounted, Cache
<1> QED  BY <1>5, <1>6 DEF set

\* MSET is a SET without options.
LEMMA MsetStep ==
    ASSUME TypeOK, NEW k \in Keys, NEW v \in Value, mset(k, v)
    PROVE  Abstract!Set(k, "None", FALSE)
<1>1. PICK expiry \in Expiry : expiry = [kind |-> "None", at |-> 0]  BY DEF Expiry
<1>2. Abstract!NewTtl(k, expiry) = NoTtl /\ NoTtl \in Ttl  BY <1>1 DEF Abstract!NewTtl, Ttl
<1>3. Abstract!Allowed(k, "None") = TRUE  BY DEF Abstract!Allowed
<1>4. /\ reply' = <<"set", TRUE, Nil>> /\ UNCHANGED <<hits, misses, evictions>>
      /\ insert_accounted(k, v, NoTtl)
  BY DEF mset
<1>5. Cache' = [Cache EXCEPT ![k] = Abstract!Stored(v, NoTtl)]  BY <1>2, <1>4, InsertCached
<1>6. Abstract!Put(k, v, Abstract!NewTtl(k, expiry))  BY <1>2, <1>5 DEF Abstract!Put, Cache
<1> QED  BY <1>3, <1>4, <1>6 DEF Abstract!Set, Abstract!Uncounted

LEMMA IncrStep ==
    ASSUME TypeOK, NEW k \in Keys, NEW delta \in Deltas, incr_by(k, delta)
    PROVE  Abstract!Incr(k, delta)
<1>1. (Abstract!Has(k) <=> Live(k)) /\ Abstract!TtlAt(k) = TtlOf(k)  BY Lookup
<1>2. Abstract!Number(k) = Current(k)
  <2>1. Live(k) => Cache[k].value = map[k].value  BY DEF Cache
  <2> QED  BY <1>1, <2>1 DEF Abstract!Number, Current, Cache
<1>3. UNCHANGED <<hits, misses, evictions>>  BY DEF incr_by
<1>4. CASE /\ Current(k) # NotInt /\ ~Overflows(k, delta)
           /\ insert_accounted(k, Render[Current(k) + delta], TtlOf(k))
           /\ reply' = <<"int", Current(k) + delta>>
  <2>1. PICK t \in Ttl : t = TtlOf(k)  BY EntryFacts
  <2>2. PICK n \in Ints : n = Current(k) + delta  BY <1>4 DEF Overflows
  <2>3. PICK v \in Value : v = Render[n]  BY IntAssumption
  <2>4. Cache' = [Cache EXCEPT ![k] = Abstract!Stored(v, t)]
    BY <1>4, <2>1, <2>2, <2>3, InsertCached
  <2>5. Abstract!Put(k, Render[Abstract!Number(k) + delta], Abstract!TtlAt(k))
    BY <1>1, <1>2, <2>1, <2>2, <2>3, <2>4 DEF Abstract!Put, Cache
  <2> QED  BY <1>2, <1>3, <1>4, <2>2, <2>5 DEF Abstract!Incr, Abstract!Uncounted
<1>5. CASE /\ \/ Current(k) = NotInt /\ reply' = <<"error", "NotAnInteger">>
              \/ /\ Current(k) # NotInt /\ Overflows(k, delta)
                 /\ reply' = <<"error", "Overflow">>
           /\ expire_if_needed(k)
  <2>1. Cache' = Cache
    <3>1. CASE Live(k)
      <4>1. UNCHANGED map  BY <1>5, <3>1 DEF expire_if_needed, Expired, Live
      <4> QED  BY <4>1, SameCache
    <3>2. CASE ~Live(k)  BY <1>5, <3>2, ExpireCached
    <3> QED  BY <3>1, <3>2
  <2> QED  BY <1>2, <1>3, <1>5, <2>1 DEF Abstract!Incr, Abstract!Uncounted, Overflows, Cache
<1> QED  BY <1>4, <1>5 DEF incr_by

-----------------------------------------------------------------------------
(***************************************************************************)
(* Commands that answer with a number.                                     *)
(***************************************************************************)
LEMMA AnswerStep ==
    ASSUME NEW k \in Keys, NEW e, NEW n, Cache' = [Cache EXCEPT ![k] = e],
           reply' = <<"int", n>>, UNCHANGED <<hits, misses, evictions>>
    PROVE  Abstract!Answer(k, e, n)
BY DEF Abstract!Answer, Abstract!Uncounted, Cache

LEMMA PresentSame ==
    ASSUME TypeOK, NEW k \in Keys PROVE Abstract!Present(k) = Flag(Live(k))
<1>1. Abstract!Has(k) <=> Live(k)  BY Lookup
<1> QED  BY <1>1 DEF Abstract!Present, Flag

LEMMA DelStep == ASSUME TypeOK, NEW k \in Keys, del(k) PROVE Abstract!Del(k)
<1>1. PICK n : n = Flag(Live(k)) /\ n = Abstract!Present(k)  BY PresentSame
<1>2. reply' = <<"int", n>> /\ UNCHANGED <<hits, misses, evictions>>  BY <1>1 DEF del, NoInsert
<1>3. Cache' = [Cache EXCEPT ![k] = Nil]
  <2>1. CASE remove_accounted(k)  BY <2>1, RemoveCached
  <2>2. CASE ~Live(k) /\ expire_if_needed(k)  BY <2>2, ExpireCached, CacheSelf
  <2> QED  BY <2>1, <2>2 DEF del
<1>4. Abstract!Answer(k, Nil, n)  BY <1>2, <1>3, AnswerStep
<1> QED  BY <1>1, <1>4 DEF Abstract!Del, Abstract!Answer

\* The entry after Retime(k, t).
LEMMA RetimeStep ==
    ASSUME TypeOK, NEW k \in Keys, NEW t \in Ttl, Retime(k, t)
    PROVE  /\ Cache' = [Cache EXCEPT ![k] = Abstract!Retimed(k, t)]
           /\ UNCHANGED <<hits, misses, evictions>>
<1>1. UNCHANGED <<hits, misses, evictions>>  BY DEF Retime, NoInsert
<1>2. Abstract!Has(k) <=> Live(k)  BY Lookup
<1>3. CASE Live(k) /\ map' = [map EXCEPT ![k].expires_in = t]
  <2>1. Cache[k].value = map[k].value  BY <1>3 DEF Cache
  <2>2. Abstract!Retimed(k, t) = Abstract!Stored(Cache[k].value, t)
    BY <1>2, <1>3 DEF Abstract!Retimed, Cache
  <2>3. Cache' = [Cache EXCEPT ![k] = Abstract!Stored(map[k].value, t)]  BY <1>3, RetimeCached
  <2> QED  BY <1>1, <2>1, <2>2, <2>3
<1>4. CASE ~Live(k) /\ expire_if_needed(k)
  <2>1. Cache' = [Cache EXCEPT ![k] = Nil]  BY <1>4, ExpireCached, CacheSelf
  <2>2. Abstract!Retimed(k, t) = Nil  BY <1>2, <1>4 DEF Abstract!Retimed
  <2> QED  BY <1>1, <2>1, <2>2
<1> QED  BY <1>3, <1>4 DEF Retime

\* With the deadline it has, the entry stays as it is.
LEMMA RetimedSame ==
    ASSUME TypeOK, NEW k \in Keys PROVE Abstract!Retimed(k, TtlOf(k)) = Cache[k]
<1>1. Abstract!Has(k) <=> Live(k)  BY Lookup
<1>2. CASE Live(k)
  <2>1. map[k] \in Entry  BY <1>2, EntryFacts DEF Live
  <2>2. Cache[k] = Shown(map[k]) /\ Cache[k].value = map[k].value /\ TtlOf(k) = map[k].expires_in
    BY <1>2 DEF Cache, Shown, Live, TtlOf
  <2>3. Cache[k] = Abstract!Stored(map[k].value, TtlOf(k))  BY <2>1, <2>2, ShownStored
  <2>4. Abstract!Retimed(k, TtlOf(k)) = Abstract!Stored(Cache[k].value, TtlOf(k))
    BY <1>1, <1>2 DEF Abstract!Retimed, Cache
  <2> QED  BY <2>2, <2>3, <2>4
<1>3. CASE ~Live(k)  BY <1>1, <1>3, CacheSelf DEF Abstract!Retimed
<1> QED  BY <1>2, <1>3

LEMMA ExpireStep ==
    ASSUME TypeOK, NEW k \in Keys, NEW t \in 0..MaxTtl, expire(k, t) PROVE Abstract!Expire(k, t)
<1>1. PICK n : n = Flag(Live(k)) /\ n = Abstract!Present(k)  BY PresentSame
<1>2. PICK e : e = Abstract!Retimed(k, t)  OBVIOUS
<1>3. t \in Ttl  BY DEF Ttl
<1>4. Cache' = [Cache EXCEPT ![k] = e] /\ UNCHANGED <<hits, misses, evictions>>
  BY <1>2, <1>3, RetimeStep DEF expire
<1>5. Abstract!Answer(k, e, n)  BY <1>1, <1>4, AnswerStep DEF expire
<1> QED  BY <1>1, <1>2, <1>5 DEF Abstract!Expire, Abstract!Answer

LEMMA PersistStep == ASSUME TypeOK, NEW k \in Keys, persist(k) PROVE Abstract!Persist(k)
<1>1. Abstract!TtlAt(k) = TtlOf(k)  BY Lookup
<1>2. PICK n : n = Flag(TtlOf(k) # NoTtl)  OBVIOUS
<1>3. n = IF Abstract!TtlAt(k) = NoTtl THEN 0 ELSE 1  BY <1>1, <1>2 DEF Flag
<1>4. PICK e : e = Abstract!Retimed(k, NoTtl)  OBVIOUS
<1>5. NoTtl \in Ttl  BY DEF Ttl
<1>6. Cache' = [Cache EXCEPT ![k] = e] /\ UNCHANGED <<hits, misses, evictions>>
  BY <1>4, <1>5, RetimeStep DEF persist
<1>7. Abstract!Answer(k, e, n)  BY <1>2, <1>6, AnswerStep DEF persist
<1> QED  BY <1>3, <1>4, <1>7 DEF Abstract!Persist, Abstract!Answer

\* EXISTS, TTL and PTTL look at an entry.
LEMMA LookStep ==
    ASSUME TypeOK, NEW k \in Keys, NEW n, Retime(k, TtlOf(k)), reply' = <<"int", n>>
    PROVE  \E e : e = Cache[k] /\ Abstract!Answer(k, e, n)
<1>1. PICK t \in Ttl : t = TtlOf(k)  BY EntryFacts
<1>2. PICK e : e = Cache[k]  OBVIOUS
<1>3. Cache' = [Cache EXCEPT ![k] = e] /\ UNCHANGED <<hits, misses, evictions>>
  BY <1>1, <1>2, RetimeStep, RetimedSame
<1>4. Abstract!Answer(k, e, n)  BY <1>3, AnswerStep
<1> QED  BY <1>2, <1>4

LEMMA ExistsStep == ASSUME TypeOK, NEW k \in Keys, exists(k) PROVE Abstract!Exists(k)
<1>1. PICK n : n = Flag(Live(k)) /\ n = Abstract!Present(k)  BY PresentSame
<1>2. PICK e : e = Cache[k] /\ Abstract!Answer(k, e, n)  BY <1>1, LookStep DEF exists
<1> QED  BY <1>1, <1>2 DEF Abstract!Exists, Abstract!Answer, Cache

LEMMA PttlStep == ASSUME TypeOK, NEW k \in Keys, pttl_millis(k) PROVE Abstract!Remaining(k, 1)
<1>1. (Abstract!Has(k) <=> Live(k)) /\ Abstract!TtlAt(k) = TtlOf(k)  BY Lookup
<1>2. PICK n : n = IF ~Live(k) THEN -2 ELSE IF TtlOf(k) = NoTtl THEN -1 ELSE TtlOf(k)  OBVIOUS
<1>3. TtlOf(k) # NoTtl => (TtlOf(k) + 1 \div 2) \div 1 = TtlOf(k)
  <2>1. TtlOf(k) \in Ttl  BY EntryFacts
  <2>2. TtlOf(k) # NoTtl => TtlOf(k) \in Nat  BY <2>1, TimeAssumption DEF Ttl
  <2>3. 1 \div 2 = 0 /\ \A m \in Nat : m \div 1 = m /\ m + 0 = m  OBVIOUS
  <2> QED  BY <2>2, <2>3
<1>4. n = IF ~Abstract!Has(k) THEN -2 ELSE IF Abstract!TtlAt(k) = NoTtl THEN -1
          ELSE (Abstract!TtlAt(k) + 1 \div 2) \div 1
  BY <1>1, <1>2, <1>3
<1>5. PICK e : e = Cache[k] /\ Abstract!Answer(k, e, n)  BY <1>2, LookStep DEF pttl_millis
<1> QED  BY <1>4, <1>5 DEF Abstract!Remaining, Abstract!Answer, Cache

LEMMA TtlStep ==
    ASSUME TypeOK, NEW k \in Keys, ttl_seconds(k) PROVE Abstract!Remaining(k, TicksPerSecond)
<1>1. (Abstract!Has(k) <=> Live(k)) /\ Abstract!TtlAt(k) = TtlOf(k)  BY Lookup
<1>2. PICK n : n = IF ~Live(k) THEN -2 ELSE IF TtlOf(k) = NoTtl THEN -1
                   ELSE (TtlOf(k) + TicksPerSecond \div 2) \div TicksPerSecond
  OBVIOUS
<1>3. n = IF ~Abstract!Has(k) THEN -2 ELSE IF Abstract!TtlAt(k) = NoTtl THEN -1
          ELSE (Abstract!TtlAt(k) + TicksPerSecond \div 2) \div TicksPerSecond
  BY <1>1, <1>2
<1>4. PICK e : e = Cache[k] /\ Abstract!Answer(k, e, n)  BY <1>2, LookStep DEF ttl_seconds
<1> QED  BY <1>3, <1>4 DEF Abstract!Remaining, Abstract!Answer, Cache

LEMMA CommandStep == ASSUME TypeOK, NEW k \in Keys, Command(k) PROVE Abstract!Next
<1>1. CASE get(k) \/ get_del(k) \/ del(k) \/ exists(k) \/ persist(k)
  BY <1>1, GetStep, GetDelStep, DelStep, ExistsStep, PersistStep DEF Abstract!Next
<1>2. CASE ttl_seconds(k) \/ pttl_millis(k)  BY <1>2, TtlStep, PttlStep DEF Abstract!Next
<1>3. ASSUME NEW t \in 0..MaxTtl, expire(k, t) PROVE Abstract!Next
  BY <1>3, ExpireStep DEF Abstract!Next
<1>4. ASSUME NEW expiry \in Expiry, get_ex(k, expiry) PROVE Abstract!Next
  BY <1>4, GetExStep DEF Abstract!Next
<1>5. ASSUME NEW delta \in Deltas, incr_by(k, delta) PROVE Abstract!Next
  BY <1>5, IncrStep DEF Abstract!Next
<1>6. ASSUME NEW v \in Value, mset(k, v) PROVE Abstract!Next
  <2>1. "None" \in Condition /\ FALSE \in BOOLEAN  BY DEF Condition
  <2> QED  BY <1>6, <2>1, MsetStep DEF Abstract!Next
<1>7. ASSUME NEW v \in Value, NEW expiry \in Expiry, NEW condition \in Condition,
             NEW want_old \in BOOLEAN, set(k, v, expiry, condition, want_old)
      PROVE  Abstract!Next
  BY <1>7, SetStep DEF Abstract!Next
<1> QED  BY <1>1, <1>2, <1>3, <1>4, <1>5, <1>6, <1>7 DEF Command

-----------------------------------------------------------------------------
(***************************************************************************)
(* Commands on the whole store, evictions, sweeps and time.                *)
(***************************************************************************)
LEMMA AllKeysStep == ASSUME TypeOK, all_keys PROVE Abstract!AllKeys
<1>1. /\ reply' = <<"keys", {k \in Keys : Live(k)}>>
      /\ UNCHANGED <<map, hits, misses, evictions>>
  BY DEF all_keys, NoInsert
<1>2. Cache' = Cache  BY <1>1, SameCache
<1>3. {k \in Keys : Abstract!Has(k)} = {k \in Keys : Live(k)}  BY Lookup
<1>4. reply' = <<"keys", {k \in Keys : Abstract!Has(k)}>>  BY <1>1, <1>3
<1> QED  BY <1>1, <1>2, <1>4 DEF Abstract!AllKeys, Cache

\* The key named is in the cache, or it is an expired entry that stays behind.
LEMMA RandomKeyStep ==
    ASSUME TypeOK, random_key PROVE Abstract!RandomKey \/ ExpiredKeyNamed
<1> DEFINE stale == {k \in FirstKeys(1) : Expired(k)}
           left == Present \ stale
<1>1. stale \subseteq Keys /\ left \subseteq Keys  BY DEF FirstKeys, Present
<1>2. UNCHANGED <<hits, misses, evictions>>  BY DEF random_key, NoInsert
<1>3. Cache' = Cache
  <2>1. ASSUME NEW k \in stale, remove_accounted(k) PROVE Cache' = Cache
    <3>1. ~Live(k) /\ expire_if_needed(k) /\ k \in Keys
      BY <1>1, <2>1 DEF Expired, Live, expire_if_needed
    <3> QED  BY <3>1, ExpireCached
  <2>2. CASE UNCHANGED map  BY <2>2, SameCache
  <2> QED  BY <2>1, <2>2 DEF random_key
<1>4. CASE left = {} /\ reply' = <<"key", Nil>>
  <2>1. \A k \in Keys : ~Live(k)  BY <1>4 DEF Live, Present, Expired
  <2>2. \A k \in Keys : ~Abstract!Has(k)  BY <2>1, Lookup
  <2> QED  BY <1>2, <1>3, <1>4, <2>2 DEF Abstract!RandomKey, Cache
<1>5. ASSUME NEW k \in left, reply' = <<"key", k>> PROVE Abstract!RandomKey \/ ExpiredKeyNamed
  <2>1. k \in Keys /\ k \notin stale /\ map[k] # NoEntry  BY <1>1 DEF Present
  <2>2. CASE Live(k)
    <3>1. Abstract!Has(k)  BY <2>1, <2>2, Lookup
    <3> QED  BY <1>2, <1>3, <1>5, <2>1, <3>1 DEF Abstract!RandomKey, Cache
  <2>3. CASE ~Live(k)
    <3>1. Expired(k)  BY <2>1, <2>3 DEF Live, Expired
    <3>2. map'[k] = map[k]
      <4>1. ASSUME NEW j \in stale, remove_accounted(j) PROVE map'[k] = map[k]
        BY <2>1, <4>1 DEF remove_accounted, TypeOK
      <4>2. CASE UNCHANGED map  BY <4>2
      <4> QED  BY <4>1, <4>2 DEF random_key
    <3> QED  BY <1>2, <1>3, <1>5, <2>1, <3>1, <3>2 DEF ExpiredKeyNamed
  <2> QED  BY <2>2, <2>3
<1> QED  BY <1>4, <1>5 DEF random_key

LEMMA ClearCached == ASSUME TypeOK, clear PROVE Abstract!Clear
<1>1. reply' = <<"ok">> /\ UNCHANGED <<hits, misses, evictions>>  BY DEF clear, NoInsert
<1>2. \A k \in Keys : map'[k] = NoEntry  BY DEF clear
<1>3. Cache' = [k \in Keys |-> Nil]  BY <1>2 DEF Cache, Live
<1> QED  BY <1>1, <1>3 DEF Abstract!Clear, Abstract!Uncounted, Cache

\* The victim goes; of the entries passed over only the clock bit changes.
LEMMA EvictCached ==
    ASSUME TypeOK, NEW v \in Candidates, Evict(v), UNCHANGED <<hits, misses, reply>>
    PROVE  Abstract!Evict(v)
<1>1. v \in Keys /\ Passed(v) \subseteq Present /\ Present \subseteq Keys
  BY DEF Candidates, FirstKeys, Present, Passed
<1>2. Shown(map'[v]) = Nil  BY <1>1 DEF Evict, Shown
<1>3. ASSUME NEW j \in Keys \ {v} PROVE Shown(map'[j]) = Shown(map[j])
  <2>1. CASE j \in Passed(v)
    <3>1. map[j] \in Entry  BY <1>1, <2>1, EntryFacts DEF Present
    <3>2. map'[j] = [map[j] EXCEPT !.clock_bit = FALSE]  BY <2>1 DEF Evict
    <3>3. PICK e : e = [map[j] EXCEPT !.clock_bit = FALSE]  OBVIOUS
    <3>4. e \in Entry /\ e.value = map[j].value /\ e.expires_in = map[j].expires_in
      <4>1. FALSE \in BOOLEAN  OBVIOUS
      <4>2. e \in Entry  BY <3>1, <3>3, <4>1 DEF Entry
      <4> QED  BY <3>1, <3>3, <4>2 DEF Entry
    <3> QED  BY <3>1, <3>2, <3>3, <3>4, ShownStored
  <2>2. CASE j \notin Passed(v)  BY <2>2 DEF Evict
  <2> QED  BY <2>1, <2>2
<1>4. Cache' = [Cache EXCEPT ![v] = Shown(map'[v])]  BY <1>1, <1>3, OneCached
<1>5. Cache' = [Cache EXCEPT ![v] = Nil] /\ evictions' = evictions + 1  BY <1>2, <1>4 DEF Evict
<1> QED  BY <1>5 DEF Abstract!Evict, Abstract!Uncounted, Cache

\* Deadlines come nearer for the store and the cache alike, and the entry whose
\* deadline is reached is gone from the cache.
LEMMA TickCached == ASSUME TypeOK, Tick PROVE Abstract!Tick
<1>1. ASSUME NEW k \in Keys
      PROVE  Cache'[k] = IF Abstract!TtlAt(k) = NoTtl THEN Cache[k]
                         ELSE Abstract!Stored(Cache[k].value, Cache[k].ttl - 1)
  <2>1. Abstract!TtlAt(k) = TtlOf(k)  BY Lookup
  <2>2. Cache'[k] = Shown(map'[k]) /\ Cache[k] = Shown(map[k])
    BY DEF Cache, Shown, Live
  <2>3. CASE Live(k) /\ map[k].expires_in # NoTtl
    <3>1. map[k] \in Entry /\ map[k].expires_in \in 1..MaxTtl
      BY <2>3, EntryFacts, TimeAssumption DEF Live, is_live, Entry, Ttl
    <3>2. map'[k] = [map[k] EXCEPT !.expires_in = map[k].expires_in - 1]  BY <2>3 DEF Tick
    <3>3. map[k].expires_in - 1 \in Ttl  BY <3>1, TimeAssumption DEF Ttl
    <3>4. PICK e : e = [map[k] EXCEPT !.expires_in = map[k].expires_in - 1]  OBVIOUS
    <3>5. e \in Entry /\ e.value = map[k].value /\ e.expires_in = map[k].expires_in - 1
      BY <3>1, <3>3, <3>4 DEF Entry
    <3>6. Cache[k].value = map[k].value /\ Cache[k].ttl = map[k].expires_in
      BY <2>3 DEF Cache
    <3>7. Shown(e) = Abstract!Stored(map[k].value, map[k].expires_in - 1)  BY <3>5, ShownStored
    <3>8. TtlOf(k) # NoTtl  BY <2>3 DEF TtlOf
    <3> QED  BY <2>1, <2>2, <3>2, <3>4, <3>6, <3>7, <3>8
  <2>4. CASE ~(Live(k) /\ map[k].expires_in # NoTtl)
    <3>1. map'[k] = map[k] /\ TtlOf(k) = NoTtl  BY <2>4 DEF Tick, TtlOf
    <3> QED  BY <2>1, <2>2, <3>1
  <2> QED  BY <2>3, <2>4
<1>2. Cache' = [k \in Keys |-> Cache'[k]]  BY DEF Cache
<1>3. Cache' = [k \in Keys |-> IF Abstract!TtlAt(k) = NoTtl THEN Cache[k]
                               ELSE Abstract!Stored(Cache[k].value, Cache[k].ttl - 1)]
  <2> HIDE DEF Cache
  <2> QED  BY <1>1, <1>2
<1>4. UNCHANGED <<reply, hits, misses, evictions>>  BY DEF Tick
<1> QED  BY <1>3, <1>4 DEF Abstract!Tick, Cache

-----------------------------------------------------------------------------
LEMMA DoomedStep == IndInv /\ DoomedInv /\ [Next]_vars => DoomedInv'
<1> SUFFICES ASSUME IndInv, DoomedInv, [Next]_vars PROVE DoomedInv'  OBVIOUS
<1>t. TypeOK /\ LoopInv  BY DEF IndInv
<1>1. ASSUME doomed' = {} PROVE DoomedInv'  BY <1>1 DEF DoomedInv
<1>2. ASSUME NEW k \in Keys, Command(k) PROVE DoomedInv'
  <2>1. doomed' = {}  BY <1>2, <1>t, CommandOutcome DEF Outcome, Idle
  <2> QED  BY <1>1, <2>1
<1>3. CASE all_keys \/ random_key \/ clear \/ Tick
  <2>1. doomed' = {}  BY <1>3 DEF all_keys, random_key, clear, Tick, Idle, NoInsert
  <2> QED  BY <1>1, <2>1
<1>4. CASE EvictOne \/ EvictNone
  <2>1. doomed' = {}  BY <1>4, <1>t DEF EvictOne, EvictNone, LoopInv
  <2> QED  BY <1>1, <2>1
<1>5. CASE active_expire_sweep
  <2>1. UNCHANGED map /\ \A k \in doomed' : k \in Keys /\ Expired(k)
    BY <1>5 DEF active_expire_sweep, FirstKeys, Present, Expired
  <2> QED  BY <2>1 DEF DoomedInv, Expired
<1>6. CASE SweepRemove
  <2>1. PICK k \in doomed : remove_accounted(k) /\ doomed' = doomed \ {k}  BY <1>6 DEF SweepRemove
  <2>2. doomed \subseteq Keys /\ map \in [Keys -> Entry \cup {NoEntry}]  BY <1>t DEF TypeOK
  <2>3. \A j \in doomed' : j \in doomed /\ map'[j] = map[j]
    BY <2>1, <2>2 DEF remove_accounted
  <2> QED  BY <2>3 DEF DoomedInv, Expired
<1>7. CASE UNCHANGED vars  BY <1>7 DEF vars, DoomedInv, Expired
<1> QED  BY <1>2, <1>3, <1>4, <1>5, <1>6, <1>7 DEF Next

\* Every step of the store is a step of the cache, the exception of RANDOMKEY or
\* one the cache does not see.
LEMMA RefinedStep ==
    IndInv /\ DoomedInv /\ [Next]_vars
    => [Abstract!Next \/ ExpiredKeyNamed]_(Abstract!vars)
<1> SUFFICES ASSUME IndInv, DoomedInv, [Next]_vars
             PROVE  Abstract!Next \/ ExpiredKeyNamed \/ UNCHANGED Abstract!vars
  OBVIOUS
<1>t. TypeOK  BY DEF IndInv
<1>s. ASSUME Cache' = Cache, UNCHANGED <<reply, hits, misses, evictions>>
      PROVE  UNCHANGED Abstract!vars
  BY <1>s DEF Abstract!vars, Cache
<1>1. ASSUME NEW k \in Keys, Command(k) PROVE Abstract!Next  BY <1>1, <1>t, CommandStep
<1>2. CASE all_keys \/ random_key \/ clear
  BY <1>2, <1>t, AllKeysStep, RandomKeyStep, ClearCached DEF Abstract!Next
<1>3. CASE EvictOne
  <2>1. PICK v \in Candidates : Evict(v)  BY <1>3 DEF EvictOne
  <2>2. v \in Keys  BY DEF Candidates, FirstKeys, Present
  <2>3. Abstract!Evict(v)  BY <1>3, <1>t, <2>1, EvictCached DEF EvictOne
  <2> QED  BY <2>2, <2>3 DEF Abstract!Next
<1>4. CASE EvictNone \/ active_expire_sweep
  <2>1. UNCHANGED <<map, reply, hits, misses, evictions>>
    BY <1>4 DEF EvictNone, active_expire_sweep
  <2>2. Cache' = Cache  BY <2>1, SameCache
  <2> QED  BY <1>s, <2>1, <2>2
<1>5. CASE SweepRemove
  <2>1. PICK k \in doomed : remove_accounted(k)  BY <1>5 DEF SweepRemove
  <2>2. k \in Keys /\ ~Live(k) /\ expire_if_needed(k)
    BY <1>t, <2>1 DEF TypeOK, DoomedInv, Expired, Live, expire_if_needed
  <2>3. Cache' = Cache  BY <1>t, <2>2, ExpireCached
  <2> QED  BY <1>s, <1>5, <2>3 DEF SweepRemove
<1>6. CASE Tick  BY <1>6, <1>t, TickCached DEF Abstract!Next
<1>7. CASE UNCHANGED vars
  <2>1. UNCHANGED <<map, reply, hits, misses, evictions>>  BY <1>7 DEF vars
  <2>2. Cache' = Cache  BY <2>1, SameCache
  <2> QED  BY <1>s, <2>1, <2>2
<1> QED  BY <1>1, <1>2, <1>3, <1>4, <1>5, <1>6, <1>7 DEF Next

\* The store implements the abstract cache, for every set of keys and values,
\* every budget, sample size and iteration order of the table: but for the key
\* RANDOMKEY names, a reply never shows an entry whose deadline has passed, and
\* an entry that is missing was removed by a client, reached its deadline or is
\* counted as evicted.
THEOREM CacheImplemented == Spec => CacheContract
<1>1. Init => Abstract!Init /\ DoomedInv
  <2> SUFFICES ASSUME Init PROVE Abstract!Init /\ DoomedInv  OBVIOUS
  <2>1. \A k \in Keys : ~Live(k)  BY DEF Init, Live
  <2>2. Cache = [k \in Keys |-> Nil]  BY <2>1 DEF Cache
  <2> QED  BY <2>2 DEF Init, Abstract!Init, DoomedInv, Cache
<1> QED  BY Invariance, DoomedStep, RefinedStep, <1>1, PTL DEF Spec, CacheContract
=============================================================================
