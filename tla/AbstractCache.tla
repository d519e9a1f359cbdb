--------------------------- MODULE AbstractCache ---------------------------
(***************************************************************************)
(* What the store promises its clients, with no bytes, no clock bits, no   *)
(* table order and no lazy or swept expiry: a map in which an entry is     *)
(* gone the moment its deadline passes, and from which an entry disappears *)
(* otherwise only because a client removed it or because an eviction,      *)
(* which the `evictions` counter shows, dropped it.                        *)
(***************************************************************************)
EXTENDS Integers

CONSTANTS Keys, Value, Ints, Parse, Render, NotInt,
          Expiry, Condition, Deltas, MaxTtl, TicksPerSecond, NoTtl, Nil

VARIABLES cache, reply, hits, misses, evictions

vars == <<cache, reply, hits, misses, evictions>>

Has(k) == cache[k] # Nil
ValueAt(k) == IF Has(k) THEN cache[k].value ELSE Nil
TtlAt(k) == IF Has(k) THEN cache[k].ttl ELSE NoTtl

\* An entry whose deadline has been reached does not exist.
Stored(v, t) == IF t = 0 THEN Nil ELSE [value |-> v, ttl |-> t]

NewTtl(k, expiry) ==
    CASE expiry.kind = "None" -> NoTtl
      [] expiry.kind = "KeepTtl" -> TtlAt(k)
      [] expiry.kind = "At" -> expiry.at

Allowed(k, condition) ==
    \/ condition = "None"
    \/ condition = "IfExists" /\ Has(k)
    \/ condition = "IfNotExists" /\ ~Has(k)

\* Every value read is a hit, every nil read a miss.
Counted(k) == /\ hits' = hits + (IF Has(k) THEN 1 ELSE 0)
              /\ misses' = misses + (IF Has(k) THEN 0 ELSE 1)
Uncounted == UNCHANGED <<hits, misses>>

Read(k, e) ==
    /\ reply' = <<"value", ValueAt(k)>>
    /\ cache' = [cache EXCEPT ![k] = e]
    /\ Counted(k)
    /\ UNCHANGED evictions

Get(k) == Read(k, cache[k])
GetDel(k) == Read(k, Nil)
GetEx(k, expiry) == Has(k) /\ Read(k, Stored(cache[k].value, NewTtl(k, expiry)))
GetExMissing(k) == ~Has(k) /\ Read(k, Nil)

Put(k, v, t) == cache' = [cache EXCEPT ![k] = Stored(v, t)]

Set(k, condition, want_old) ==
    /\ reply' = <<"set", Allowed(k, condition), IF want_old THEN ValueAt(k) ELSE Nil>>
    /\ \/ /\ Allowed(k, condition)
          /\ \E v \in Value, expiry \in Expiry : Put(k, v, NewTtl(k, expiry))
       \/ ~Allowed(k, condition) /\ UNCHANGED cache
    /\ Uncounted /\ UNCHANGED evictions

\* A missing key counts as zero; a value that is no integer is refused, and
\* so is a result outside the range.  The deadline stays.
Number(k) == IF Has(k) THEN Parse[cache[k].value] ELSE 0
Incr(k, delta) ==
    /\ \/ /\ Number(k) # NotInt /\ Number(k) + delta \in Ints
          /\ reply' = <<"int", Number(k) + delta>>
          /\ Put(k, Render[Number(k) + delta], TtlAt(k))
       \/ /\ Number(k) # NotInt /\ Number(k) + delta \notin Ints
          /\ reply' = <<"error", "Overflow">>
          /\ UNCHANGED cache
       \/ /\ Number(k) = NotInt
          /\ reply' = <<"error", "NotAnInteger">>
          /\ UNCHANGED cache
    /\ Uncounted /\ UNCHANGED evictions

\* DEL, EXISTS, EXPIRE, PERSIST: the new entry and the integer returned.
Answer(k, e, n) ==
    /\ reply' = <<"int", n>>
    /\ cache' = [cache EXCEPT ![k] = e]
    /\ Uncounted /\ UNCHANGED evictions

Present(k) == IF Has(k) THEN 1 ELSE 0
Retimed(k, t) == IF Has(k) THEN Stored(cache[k].value, t) ELSE Nil

Del(k) == Answer(k, Nil, Present(k))
Exists(k) == Answer(k, cache[k], Present(k))
Expire(k, t) == Answer(k, Retimed(k, t), Present(k))
Persist(k) == Answer(k, Retimed(k, NoTtl), IF TtlAt(k) = NoTtl THEN 0 ELSE 1)

\* TTL in seconds (rounded to the nearest) or in ticks.
Remaining(k, scale) ==
    Answer(k, cache[k], IF ~Has(k) THEN -2
                        ELSE IF TtlAt(k) = NoTtl THEN -1
                        ELSE (TtlAt(k) + scale \div 2) \div scale)

AllKeys ==
    /\ reply' = <<"keys", {k \in Keys : Has(k)}>>
    /\ UNCHANGED <<cache, hits, misses, evictions>>

\* A key of the cache, or nil when it is empty.
RandomKey ==
    /\ \/ \E k \in Keys : Has(k) /\ reply' = <<"key", k>>
       \/ (\A k \in Keys : ~Has(k)) /\ reply' = <<"key", Nil>>
    /\ UNCHANGED <<cache, hits, misses, evictions>>

Clear ==
    /\ reply' = <<"ok">>
    /\ cache' = [k \in Keys |-> Nil]
    /\ Uncounted /\ UNCHANGED evictions

\* Memory pressure: one key is dropped, and counted.
Evict(k) ==
    /\ evictions' = evictions + 1
    /\ cache' = [cache EXCEPT ![k] = Nil]
    /\ Uncounted /\ UNCHANGED reply

Tick ==
    /\ cache' = [k \in Keys |-> IF TtlAt(k) = NoTtl THEN cache[k]
                                ELSE Stored(cache[k].value, cache[k].ttl - 1)]
    /\ UNCHANGED <<reply, hits, misses, evictions>>

Init ==
    /\ cache = [k \in Keys |-> Nil]
    /\ reply = <<"ok">>
    /\ hits = 0 /\ misses = 0 /\ evictions = 0

Next ==
    \/ \E k \in Keys :
          \/ Get(k) \/ GetDel(k) \/ GetExMissing(k)
          \/ Del(k) \/ Exists(k) \/ Persist(k) \/ Evict(k)
          \/ Remaining(k, 1) \/ Remaining(k, TicksPerSecond)
          \/ \E t \in 0..MaxTtl : Expire(k, t)
          \/ \E expiry \in Expiry : GetEx(k, expiry)
          \/ \E delta \in Deltas : Incr(k, delta)
          \/ \E condition \in Condition, want_old \in BOOLEAN : Set(k, condition, want_old)
    \/ AllKeys \/ RandomKey \/ Clear \/ Tick

Spec == Init /\ [][Next]_vars
=============================================================================
