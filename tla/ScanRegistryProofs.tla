------------------------- MODULE ScanRegistryProofs -------------------------
(***************************************************************************)
(* Proofs about ScanRegistry: for any keys, clients and limits, no stable  *)
(* key is missed and the registry stays within its capacity.               *)
(***************************************************************************)
EXTENDS ScanRegistry, FiniteSetTheorems, TLAPS

USE DEF Ids, Age, Running

\* A page is part of what is left.
LEMMA PageSubset ==
    ASSUME NEW rest, NEW n, NEW P \in Page(rest, n) PROVE P \subseteq rest
BY DEF Page

\* start: the new cursor's snapshot and the page together are the live keys, the
\* id is new, and the cursors kept are as they were.
LEMMA StartFacts ==
    ASSUME TypeOK, NEW P \in SUBSET live, NEW next \in 0..MaxId, start(P, next)
    PROVE  /\ next_id' = next_id + 1 /\ next_id' \in 0..MaxId
           /\ next \in {0, next_id'}
           /\ next = 0 => live \subseteq P
           /\ next # 0 => next \in DOMAIN cursors' /\ cursors'[next].rest = live \ P
           /\ DOMAIN cursors' \subseteq DOMAIN cursors \cup ({next} \ {0})
           /\ \A i \in DOMAIN cursors' : i # next => i \in DOMAIN cursors /\ cursors'[i] = cursors[i]
           /\ \A i \in DOMAIN cursors' : cursors'[i] \in ScanState /\ cursors'[i].rest # {}
<1>1. PICK K \in SUBSET DOMAIN cursors :
         cursors' = IF next = 0 THEN Restrict(cursors, K)
                    ELSE [i \in K \cup {next} |->
                            IF i = next THEN [rest |-> live \ P, age |-> 0] ELSE cursors[i]]
  BY DEF start
<1>2. next_id' = next_id + 1 /\ next_id' \in 0..MaxId /\ next \in {0, next_id'}
      /\ (next = 0 <=> live \ P = {})
  BY RegistryAssumption DEF start, TypeOK
<1>3. live \subseteq Keys /\ \A i \in DOMAIN cursors : cursors[i] \in ScanState /\ cursors[i].rest # {}
  BY DEF TypeOK
<1>4. CASE next = 0
  <2>1. DOMAIN cursors' = K /\ \A i \in K : cursors'[i] = cursors[i]
    BY <1>1, <1>4 DEF Restrict
  <2>2. 0 \notin DOMAIN cursors  BY DEF TypeOK
  <2> QED  BY <1>2, <1>3, <1>4, <2>1, <2>2
<1>5. CASE next # 0
  <2>1. DOMAIN cursors' = K \cup {next} /\ cursors'[next] = [rest |-> live \ P, age |-> 0]
        /\ \A i \in K : i # next => cursors'[i] = cursors[i]
    BY <1>1, <1>5
  <2>2. [rest |-> live \ P, age |-> 0] \in ScanState
    BY <1>3, RegistryAssumption DEF ScanState
  <2>3. cursors'[next].rest = live \ P /\ live \ P # {}  BY <1>2, <1>5, <2>1
  <2>4. \A i \in DOMAIN cursors' : i # next => i \in DOMAIN cursors /\ cursors'[i] = cursors[i]
    BY <2>1
  <2>5. \A i \in DOMAIN cursors' : cursors'[i] \in ScanState /\ cursors'[i].rest # {}
    <3> SUFFICES ASSUME NEW i \in DOMAIN cursors'
                 PROVE  cursors'[i] \in ScanState /\ cursors'[i].rest # {}
      OBVIOUS
    <3>1. CASE i = next  BY <3>1, <2>1, <2>2, <2>3
    <3>2. CASE i # next  BY <3>2, <2>4, <1>3
    <3> QED  BY <3>1, <3>2
  <2>6. DOMAIN cursors' \subseteq DOMAIN cursors \cup ({next} \ {0}) /\ next \in DOMAIN cursors'
    BY <1>5, <2>1
  <2> QED  BY <1>2, <1>5, <2>3, <2>4, <2>5, <2>6
<1> QED  BY <1>4, <1>5

\* A scan that starts or starts over receives the page P of a snapshot of live.
LEMMA StartStep ==
    ASSUME IndInv, NEW c \in Clients, NEW P \in SUBSET live, NEW next \in 0..MaxId,
           NEW seen \in SUBSET Keys, NEW stable \in SUBSET live, P \subseteq seen,
           start(P, next), UNCHANGED live,
           scans' = [scans EXCEPT ![c] = Received(next, seen, stable)]
    PROVE  IndInv'
<1>t. /\ scans \in [Clients -> Scan] /\ live \subseteq Keys /\ next_id \in 0..MaxId
      /\ DOMAIN cursors \subseteq 1..next_id
  BY DEF IndInv, TypeOK, OwnershipInv
<1>s. /\ next_id' = next_id + 1 /\ next_id' \in 0..MaxId
      /\ next \in {0, next_id'}
      /\ next = 0 => live \subseteq P
      /\ next # 0 => next \in DOMAIN cursors' /\ cursors'[next].rest = live \ P
      /\ DOMAIN cursors' \subseteq DOMAIN cursors \cup ({next} \ {0})
      /\ \A i \in DOMAIN cursors' : i # next => i \in DOMAIN cursors /\ cursors'[i] = cursors[i]
      /\ \A i \in DOMAIN cursors' : cursors'[i] \in ScanState /\ cursors'[i].rest # {}
  BY StartFacts DEF IndInv
<1>c. /\ scans'[c].phase = IF next = 0 THEN "done" ELSE "running"
      /\ scans'[c].cursor = next /\ scans'[c].seen = seen /\ scans'[c].stable = stable
      /\ \A d \in Clients : d # c => scans'[d] = scans[d]
  BY <1>t DEF Received
<1>1. TypeOK'
  <2>1. Received(next, seen, stable) \in Scan
    BY <1>t DEF Received, Scan
  <2>2. scans' \in [Clients -> Scan]  BY <1>t, <2>1
  <2>3. DOMAIN cursors' \subseteq 1..MaxId
    BY <1>t, <1>s, RegistryAssumption
  <2> QED  BY <1>t, <1>s, <2>2, <2>3 DEF TypeOK
<1>2. OwnershipInv'
  <2>1. DOMAIN cursors' \subseteq 1..next_id'  BY <1>t, <1>s
  <2>2. \A d \in Clients : scans'[d].phase = "running" =>
           /\ scans'[d].cursor \in 1..next_id'
           /\ d # c => scans'[d].cursor # next_id'
    <3> SUFFICES ASSUME NEW d \in Clients, scans'[d].phase = "running"
                 PROVE  /\ scans'[d].cursor \in 1..next_id'
                        /\ d # c => scans'[d].cursor # next_id'
      OBVIOUS
    <3>1. CASE d = c  BY <3>1, <1>c, <1>s, <1>t
    <3>2. CASE d # c
      <4>1. scans[d].cursor \in 1..next_id  BY <3>2, <1>c DEF IndInv, OwnershipInv
      <4> QED  BY <3>2, <4>1, <1>c, <1>s, <1>t
    <3> QED  BY <3>1, <3>2
  <2>3. \A d, e \in Clients :
           scans'[d].phase = "running" /\ scans'[e].phase = "running"
           /\ scans'[d].cursor = scans'[e].cursor => d = e
    <3> SUFFICES ASSUME NEW d \in Clients, NEW e \in Clients, d # e,
                        scans'[d].phase = "running", scans'[e].phase = "running",
                        scans'[d].cursor = scans'[e].cursor
                 PROVE  FALSE
      OBVIOUS
    <3>1. CASE d # c /\ e # c  BY <3>1, <1>c DEF IndInv, OwnershipInv
    <3>2. CASE d = c \/ e = c  BY <3>2, <2>2, <1>c, <1>s
    <3> QED  BY <3>1, <3>2
  <2> QED  BY <2>1, <2>2, <2>3 DEF OwnershipInv
<1>3. CoverageInv'
  <2> SUFFICES ASSUME NEW d \in Clients, scans'[d].phase = "running"
               PROVE  /\ scans'[d].stable \subseteq live
                      /\ scans'[d].cursor \in DOMAIN cursors' =>
                            scans'[d].stable \subseteq scans'[d].seen \cup cursors'[scans'[d].cursor].rest
    BY DEF CoverageInv
  <2>1. CASE d = c  BY <2>1, <1>c, <1>s
  <2>2. CASE d # c
    <3>1. scans'[d] = scans[d] /\ scans[d].cursor \in 1..next_id
      BY <2>2, <1>c DEF IndInv, OwnershipInv
    <3>2. scans[d].cursor # next  BY <3>1, <1>s, <1>t
    <3> QED  BY <3>1, <3>2, <1>s DEF IndInv, CoverageInv
  <2> QED  BY <2>1, <2>2
<1>4. NoStableKeyMissed'
  <2> SUFFICES ASSUME NEW d \in Clients, scans'[d].phase = "done"
               PROVE  scans'[d].stable \subseteq scans'[d].seen
    BY DEF NoStableKeyMissed
  <2>1. CASE d = c  BY <2>1, <1>c, <1>s
  <2>2. CASE d # c  BY <2>2, <1>c DEF IndInv, NoStableKeyMissed
  <2> QED  BY <2>1, <2>2
<1> QED  BY <1>1, <1>2, <1>3, <1>4 DEF IndInv

LEMMA BeginStep == ASSUME IndInv, NEW c \in Clients, Begin(c) PROVE IndInv'
<1>1. PICK n \in 1..MaxCount : \E P \in Page(live, n), next \in 0..MaxId :
         start(P, next) /\ scans' = [scans EXCEPT ![c] = Received(next, P, live)]
  BY DEF Begin
<1>2. PICK P \in Page(live, n), next \in 0..MaxId :
         start(P, next) /\ scans' = [scans EXCEPT ![c] = Received(next, P, live)]
  BY <1>1
<1>3. P \subseteq live /\ live \subseteq Keys /\ UNCHANGED live
  BY PageSubset DEF IndInv, TypeOK, Begin
<1> QED  BY <1>2, <1>3, StartStep

LEMMA MissStep == ASSUME IndInv, NEW c \in Clients, ContinueMiss(c) PROVE IndInv'
<1> DEFINE seen(P) == scans[c].seen \cup P
<1>1. PICK n \in 1..MaxCount : \E P \in Page(live, n), next \in 0..MaxId :
         /\ start(P, next)
         /\ scans' = [scans EXCEPT ![c] = Received(next, seen(P), scans[c].stable)]
  BY DEF ContinueMiss, IndInv, TypeOK
<1>2. PICK P \in Page(live, n), next \in 0..MaxId :
         /\ start(P, next)
         /\ scans' = [scans EXCEPT ![c] = Received(next, seen(P), scans[c].stable)]
  BY <1>1
<1>3. /\ P \subseteq live /\ live \subseteq Keys /\ UNCHANGED live
      /\ scans[c] \in Scan /\ scans[c].stable \subseteq live
  BY PageSubset DEF IndInv, TypeOK, ContinueMiss, CoverageInv
<1>4. seen(P) \in SUBSET Keys /\ P \subseteq seen(P)  BY <1>3 DEF Scan
<1> HIDE DEF seen
<1> QED  BY <1>2, <1>3, <1>4, StartStep

\* A hit moves keys from the scan's own snapshot to what it has seen.
LEMMA HitStep == ASSUME IndInv, NEW c \in Clients, ContinueHit(c) PROVE IndInv'
<1> DEFINE id == scans[c].cursor
<1>t. /\ scans \in [Clients -> Scan] /\ scans[c] \in Scan /\ live \subseteq Keys
      /\ next_id \in 0..MaxId /\ id \in 1..next_id /\ id \in DOMAIN cursors /\ Running(c)
      /\ DOMAIN cursors \subseteq 1..next_id /\ DOMAIN cursors \subseteq Ids
      /\ \A i \in DOMAIN cursors : cursors[i] \in ScanState /\ cursors[i].rest # {}
  BY DEF IndInv, TypeOK, OwnershipInv, ContinueHit, Hit
<1> HIDE DEF id
<1>1. PICK n \in 1..MaxCount : \E P \in Page(cursors[id].rest, n), next \in 0..MaxId :
         /\ continue_scan(id, P, next)
         /\ scans' = [scans EXCEPT ![c] = Received(next, scans[c].seen \cup P, scans[c].stable)]
  BY <1>t DEF ContinueHit, id
<1>2. PICK P \in Page(cursors[id].rest, n), next \in 0..MaxId :
         /\ continue_scan(id, P, next)
         /\ scans' = [scans EXCEPT ![c] = Received(next, scans[c].seen \cup P, scans[c].stable)]
  BY <1>1
<1>p. P \subseteq cursors[id].rest /\ cursors[id].rest \subseteq Keys /\ UNCHANGED live
  BY <1>t, PageSubset DEF ContinueHit, ScanState
<1> DEFINE left == cursors[id].rest \ P
<1>s. /\ next = IF left = {} THEN 0 ELSE id
      /\ next_id' = next_id
      /\ DOMAIN cursors' \subseteq DOMAIN cursors
      /\ left = {} => id \notin DOMAIN cursors'
      /\ left # {} => id \in DOMAIN cursors' /\ cursors'[id] = [rest |-> left, age |-> 0]
      /\ \A i \in DOMAIN cursors' : i # id => cursors'[i] = cursors[i]
  BY <1>2, <1>t DEF continue_scan, Restrict
<1>c. /\ scans'[c].phase = IF next = 0 THEN "done" ELSE "running"
      /\ scans'[c].cursor = next /\ scans'[c].seen = scans[c].seen \cup P
      /\ scans'[c].stable = scans[c].stable
      /\ \A d \in Clients : d # c => scans'[d] = scans[d]
  BY <1>2, <1>t DEF Received
<1>v. scans[c].stable \subseteq live /\ scans[c].stable \subseteq scans[c].seen \cup cursors[id].rest
  BY <1>t DEF IndInv, CoverageInv, id
<1>o. \A d \in Clients : d # c /\ Running(d) => scans[d].cursor # id
  BY <1>t DEF IndInv, OwnershipInv, id
<1>l. left \subseteq Keys /\ (left = {} => cursors[id].rest \subseteq P)  BY <1>p
<1>1a. TypeOK'
  <2>1. Received(next, scans[c].seen \cup P, scans[c].stable) \in Scan
    BY <1>t, <1>p DEF Received, Scan
  <2>2. scans' \in [Clients -> Scan]  BY <1>t, <1>2, <2>1
  <2>3. [rest |-> left, age |-> 0] \in ScanState
    <3> HIDE DEF left
    <3> QED  BY <1>l, RegistryAssumption DEF ScanState
  <2>4. \A i \in DOMAIN cursors' : cursors'[i] \in ScanState /\ cursors'[i].rest # {}
    <3> HIDE DEF left
    <3> QED  BY <1>s, <1>t, <2>3
  <2> QED  BY <1>t, <1>s, <1>p, <2>2, <2>4 DEF TypeOK
<1> HIDE DEF left
<1>2a. OwnershipInv'
  <2>1. \A d \in Clients : scans'[d].phase = "running" =>
           scans[d].phase = "running" /\ scans'[d].cursor = scans[d].cursor
    BY <1>c, <1>s, <1>t DEF id
  <2> QED  BY <2>1, <1>s, <1>t DEF IndInv, OwnershipInv
<1>3a. CoverageInv'
  <2> SUFFICES ASSUME NEW d \in Clients, scans'[d].phase = "running"
               PROVE  /\ scans'[d].stable \subseteq live
                      /\ scans'[d].cursor \in DOMAIN cursors' =>
                            scans'[d].stable \subseteq scans'[d].seen \cup cursors'[scans'[d].cursor].rest
    BY <1>p DEF CoverageInv
  <2>1. CASE d = c
    <3>1. next = id /\ left # {}  BY <2>1, <1>c, <1>s
    <3>2. cursors'[id].rest = left  BY <3>1, <1>s
    <3>3. scans[c].stable \subseteq scans[c].seen \cup P \cup left  BY <1>v DEF left
    <3> QED  BY <2>1, <3>1, <3>2, <3>3, <1>c, <1>v
  <2>2. CASE d # c
    BY <2>2, <1>c, <1>s, <1>o DEF IndInv, CoverageInv
  <2> QED  BY <2>1, <2>2
<1>4a. NoStableKeyMissed'
  <2> SUFFICES ASSUME NEW d \in Clients, scans'[d].phase = "done"
               PROVE  scans'[d].stable \subseteq scans'[d].seen
    BY DEF NoStableKeyMissed
  <2>1. CASE d = c
    <3>1. left = {}
      <4>1. id # 0  BY <1>t
      <4> QED  BY <2>1, <4>1, <1>c, <1>s
    <3> QED  BY <2>1, <3>1, <1>c, <1>v, <1>l
  <2>2. CASE d # c  BY <2>2, <1>c DEF IndInv, NoStableKeyMissed
  <2> QED  BY <2>1, <2>2
<1> QED  BY <1>1a, <1>2a, <1>3a, <1>4a DEF IndInv

\* A tick makes a snapshot older and leaves its keys.
LEMMA AgedState ==
    ASSUME TypeOK, Tick
    PROVE  \A i \in DOMAIN cursors : cursors'[i] \in ScanState /\ cursors'[i].rest = cursors[i].rest
<1> SUFFICES ASSUME NEW i \in DOMAIN cursors
             PROVE  cursors'[i] \in ScanState /\ cursors'[i].rest = cursors[i].rest
  OBVIOUS
<1>1. cursors[i] \in ScanState  BY DEF TypeOK
<1>2. CASE Fresh(i)
  <2>1. cursors[i].age + 1 \in Age
    BY <1>1, <1>2, RegistryAssumption DEF Fresh, ScanState
  <2>2. cursors'[i] = [cursors[i] EXCEPT !.age = cursors[i].age + 1]  BY <1>2 DEF Tick
  <2> HIDE DEF Age
  <2> QED  BY <1>1, <2>1, <2>2 DEF ScanState
<1>3. CASE ~Fresh(i)  BY <1>1, <1>3 DEF Tick
<1> QED  BY <1>2, <1>3

\* A key that goes is no longer stable; a key that comes and the clock change
\* no snapshot and no stable set.
LEMMA EnvironmentStep ==
    ASSUME IndInv, Tick \/ \E k \in Keys : KeyAppears(k) \/ KeyGoes(k) PROVE IndInv'
<1>t. TypeOK /\ OwnershipInv /\ CoverageInv /\ NoStableKeyMissed  BY DEF IndInv
<1>1. ASSUME NEW k \in Keys, KeyAppears(k) PROVE IndInv'
  <2>1. TypeOK'  BY <1>1, <1>t DEF KeyAppears, TypeOK
  <2>2. OwnershipInv' /\ CoverageInv' /\ NoStableKeyMissed'
    BY <1>1, <1>t DEF KeyAppears, OwnershipInv, CoverageInv, NoStableKeyMissed
  <2> QED  BY <2>1, <2>2 DEF IndInv
<1>2. ASSUME NEW k \in Keys, KeyGoes(k) PROVE IndInv'
  <2>1. ASSUME NEW c \in Clients
        PROVE  /\ scans'[c] \in Scan /\ scans'[c].phase = scans[c].phase
               /\ scans'[c].cursor = scans[c].cursor /\ scans'[c].seen = scans[c].seen
               /\ scans'[c].stable = IF Running(c) THEN scans[c].stable \ {k} ELSE scans[c].stable
    <3>1. scans[c] \in Scan  BY <1>t DEF TypeOK
    <3>2. scans'[c] = IF Running(c) THEN [scans[c] EXCEPT !.stable = scans[c].stable \ {k}]
                      ELSE scans[c]
      BY <1>2 DEF KeyGoes
    <3> QED  BY <3>1, <3>2 DEF Scan
  <2>2. live' = live \ {k} /\ UNCHANGED <<cursors, next_id>>  BY <1>2 DEF KeyGoes
  <2>3. scans' \in [Clients -> Scan]
    <3>1. scans' = [c \in Clients |-> scans'[c]]  BY <1>2 DEF KeyGoes
    <3> QED  BY <2>1, <3>1
  <2>4. TypeOK'  BY <2>2, <2>3, <1>t DEF TypeOK
  <2>5. OwnershipInv'  BY <2>1, <2>2, <1>t DEF OwnershipInv
  <2>6. CoverageInv'  BY <2>1, <2>2, <1>t DEF CoverageInv
  <2>7. NoStableKeyMissed'  BY <2>1, <1>t DEF NoStableKeyMissed
  <2> QED  BY <2>4, <2>5, <2>6, <2>7 DEF IndInv
<1>3. CASE Tick
  <2>1. DOMAIN cursors' = DOMAIN cursors /\ UNCHANGED <<live, next_id, scans>>
    BY <1>3 DEF Tick
  <2>2. \A i \in DOMAIN cursors : cursors'[i] \in ScanState /\ cursors'[i].rest = cursors[i].rest
    BY <1>3, <1>t, AgedState DEF TypeOK
  <2>3. TypeOK'  BY <2>1, <2>2, <1>t DEF TypeOK
  <2>4. OwnershipInv' /\ NoStableKeyMissed'
    BY <2>1, <1>t DEF OwnershipInv, NoStableKeyMissed
  <2>5. CoverageInv'  BY <2>1, <2>2, <1>t DEF CoverageInv
  <2> QED  BY <2>3, <2>4, <2>5 DEF IndInv
<1> QED  BY <1>1, <1>2, <1>3

-----------------------------------------------------------------------------
LEMMA InitInv == Init => IndInv
<1> SUFFICES ASSUME Init PROVE IndInv  OBVIOUS
<1>1. DOMAIN cursors = {}  BY DEF Init
<1>2. [phase |-> "none", cursor |-> 0, seen |-> {}, stable |-> {}] \in Scan
  BY RegistryAssumption DEF Scan
<1>3. TypeOK  BY <1>1, <1>2, RegistryAssumption DEF Init, TypeOK
<1>4. \A c \in Clients : scans[c].phase = "none"  BY DEF Init
<1> QED  BY <1>1, <1>3, <1>4 DEF IndInv, OwnershipInv, CoverageInv, NoStableKeyMissed

LEMMA InductiveStep == IndInv /\ [Next]_vars => IndInv'
<1> SUFFICES ASSUME IndInv, [Next]_vars PROVE IndInv'  OBVIOUS
<1>1. ASSUME NEW c \in Clients, Begin(c) \/ ContinueHit(c) \/ ContinueMiss(c) PROVE IndInv'
  BY <1>1, BeginStep, HitStep, MissStep
<1>2. CASE Tick \/ \E k \in Keys : KeyAppears(k) \/ KeyGoes(k)
  BY <1>2, EnvironmentStep
<1>3. CASE UNCHANGED vars
  BY <1>3 DEF vars, IndInv, TypeOK, OwnershipInv, CoverageInv, NoStableKeyMissed
<1> QED  BY <1>1, <1>2, <1>3 DEF Next

\* The inductive invariant holds in every reachable state.
THEOREM Invariance == Spec => []IndInv
BY InitInv, InductiveStep, PTL DEF Spec

\* Every variable keeps its type, and no exhausted snapshot stays in the registry.
THEOREM RegistryTypes == Spec => []TypeOK
<1>1. IndInv => TypeOK  BY DEF IndInv
<1> QED  BY Invariance, <1>1, PTL

\* A scan that has ended returned every key that was live throughout, for any
\* number of clients, cursors and keys, through evicted and expired cursors.
THEOREM StableKeysReturned == Spec => []NoStableKeyMissed
<1>1. IndInv => NoStableKeyMissed  BY DEF IndInv
<1> QED  BY Invariance, <1>1, PTL

-----------------------------------------------------------------------------
\* A page of a finite, non-empty rest has a key in it.
LEMMA PageNonEmpty ==
    ASSUME NEW rest \in SUBSET Keys, rest # {}, NEW n \in 1..MaxCount, NEW P \in Page(rest, n)
    PROVE  P # {}
<1>1. IsFiniteSet(rest)  BY RegistryAssumption, FS_Subset
<1>2. Cardinality(rest) \in Nat /\ Cardinality(rest) # 0
  BY <1>1, FS_CardinalityType, FS_EmptySet
<1>3. Cardinality(P) # 0  BY <1>2, RegistryAssumption DEF Page
<1> QED  BY <1>3, FS_EmptySet

\* The page a hit takes is received and leaves the snapshot.
LEMMA HitShrinks ==
    ASSUME IndInv, NEW c \in Clients, ContinueHit(c)
    PROVE  /\ PageTaken(c)
           /\ \A i \in DOMAIN cursors \cap DOMAIN cursors' :
                 cursors'[i].rest \subseteq cursors[i].rest
<1> DEFINE id == scans[c].cursor
<1>t. /\ scans \in [Clients -> Scan] /\ id \in DOMAIN cursors
      /\ \A i \in DOMAIN cursors : cursors[i] \in ScanState /\ cursors[i].rest # {}
  BY DEF IndInv, TypeOK, ContinueHit, Hit
<1>1. PICK n \in 1..MaxCount : \E P \in Page(cursors[id].rest, n), next \in 0..MaxId :
         /\ continue_scan(id, P, next)
         /\ scans' = [scans EXCEPT ![c] = Received(next, scans[c].seen \cup P, scans[c].stable)]
  BY <1>t DEF ContinueHit
<1>2. PICK P \in Page(cursors[id].rest, n), next \in 0..MaxId :
         /\ continue_scan(id, P, next)
         /\ scans' = [scans EXCEPT ![c] = Received(next, scans[c].seen \cup P, scans[c].stable)]
  BY <1>1
<1>3. cursors[id].rest \in SUBSET Keys /\ cursors[id].rest # {}  BY <1>t DEF ScanState
<1>4. P \subseteq cursors[id].rest /\ P # {}  BY <1>3, PageSubset, PageNonEmpty
<1>5. scans'[c].cursor = next /\ P \subseteq scans'[c].seen  BY <1>2, <1>t DEF Received
<1> HIDE DEF id
<1>6. PICK left : left = cursors[id].rest \ P  OBVIOUS
<1>7. /\ next = IF left = {} THEN 0 ELSE id
      /\ left = {} => id \notin DOMAIN cursors'
      /\ left # {} => id \in DOMAIN cursors' /\ cursors'[id] = [rest |-> left, age |-> 0]
      /\ \A i \in DOMAIN cursors' : i # id => cursors'[i] = cursors[i]
  BY <1>2, <1>6, <1>t DEF continue_scan, Restrict
<1>8. /\ left \subseteq cursors[id].rest /\ left # cursors[id].rest
      /\ cursors[id].rest \ left \subseteq scans'[c].seen
  BY <1>4, <1>5, <1>6
<1>9. left = IF id \in DOMAIN cursors' THEN cursors'[id].rest ELSE {}  BY <1>7
<1>10. PageTaken(c)  BY <1>5, <1>7, <1>8, <1>9 DEF PageTaken, id
<1>11. \A i \in DOMAIN cursors \cap DOMAIN cursors' : cursors'[i].rest \subseteq cursors[i].rest
  BY <1>7, <1>8, <1>9
<1> QED  BY <1>10, <1>11

\* No other step gives a snapshot a key: start takes an id nobody holds.
LEMMA OthersKeep ==
    ASSUME IndInv, [Next]_vars, \A c \in Clients : ~ContinueHit(c)
    PROVE  \A i \in DOMAIN cursors \cap DOMAIN cursors' : cursors'[i].rest \subseteq cursors[i].rest
<1>1. ASSUME NEW P \in SUBSET live, NEW next \in 0..MaxId, start(P, next),
             NEW i \in DOMAIN cursors \cap DOMAIN cursors'
      PROVE  cursors'[i] = cursors[i]
  <2>1. /\ next \in {0, next_id + 1}
        /\ \A j \in DOMAIN cursors' : j # next => cursors'[j] = cursors[j]
    BY <1>1, StartFacts DEF IndInv
  <2>2. i \in 1..next_id /\ next_id \in Nat
    BY <1>1, RegistryAssumption DEF IndInv, OwnershipInv, TypeOK
  <2> QED  BY <2>1, <2>2
<1>2. ASSUME NEW c \in Clients, Begin(c) \/ ContinueMiss(c),
             NEW i \in DOMAIN cursors \cap DOMAIN cursors'
      PROVE  cursors'[i] = cursors[i]
  <2>1. PICK n \in 1..MaxCount : \E P \in Page(live, n), next \in 0..MaxId : start(P, next)
    BY <1>2 DEF Begin, ContinueMiss
  <2>2. PICK P \in Page(live, n), next \in 0..MaxId : start(P, next)  BY <2>1
  <2>3. P \in SUBSET live  BY PageSubset
  <2> QED  BY <1>1, <2>2, <2>3
<1>3. CASE Tick
  <2>1. ASSUME NEW i \in DOMAIN cursors PROVE cursors'[i].rest = cursors[i].rest
    <3>1. cursors[i] \in ScanState  BY DEF IndInv, TypeOK
    <3>2. cursors'[i] \in {cursors[i], [cursors[i] EXCEPT !.age = @ + 1]}  BY <1>3 DEF Tick
    <3> QED  BY <3>1, <3>2 DEF ScanState
  <2> QED  BY <2>1
<1>4. CASE UNCHANGED vars \/ \E k \in Keys : KeyAppears(k) \/ KeyGoes(k)
  <2>1. UNCHANGED cursors  BY <1>4 DEF vars, KeyAppears, KeyGoes
  <2> QED  BY <2>1
<1> QED  BY <1>2, <1>3, <1>4 DEF Next

\* A snapshot lasts for at most as many hits as it has keys: every hit takes at
\* least one, hands it to the client, and nothing puts a key back.
THEOREM PagesProgress == Spec => SnapshotsShrink
<1>1. IndInv /\ [Next]_vars => SnapshotsShrinkStep \/ UNCHANGED vars
  <2> SUFFICES ASSUME IndInv, [Next]_vars PROVE SnapshotsShrinkStep  OBVIOUS
  <2>1. CASE \E c \in Clients : ContinueHit(c)  BY <2>1, HitShrinks DEF SnapshotsShrinkStep
  <2>2. CASE \A c \in Clients : ~ContinueHit(c)  BY <2>2, OthersKeep DEF SnapshotsShrinkStep
  <2> QED  BY <2>1, <2>2
<1> QED  BY Invariance, <1>1, PTL DEF Spec, SnapshotsShrink

-----------------------------------------------------------------------------
\* start makes room before it inserts, and nothing else inserts.
LEMMA BoundStep ==
    ASSUME TypeOK, RegistryBounded, [NextUnreliable]_vars PROVE RegistryBounded'
<1>d. DOMAIN cursors \subseteq 1..MaxId  BY DEF TypeOK
<1>f. IsFiniteSet(1..MaxId)  BY RegistryAssumption, FS_Interval
<1>g. \A S \in SUBSET (1..MaxId) : IsFiniteSet(S) /\ Cardinality(S) \in Nat
  BY <1>f, FS_Subset, FS_CardinalityType
<1>1. ASSUME NEW P, NEW next \in 0..MaxId, start(P, next) PROVE RegistryBounded'
  <2>1. PICK K \in SUBSET DOMAIN cursors :
           /\ Kept(K)
           /\ DOMAIN cursors' \subseteq K \cup {next}
    BY <1>1 DEF start, Restrict
  <2>2. IsFiniteSet(K) /\ Cardinality(K) \in Nat  BY <1>d, <1>g
  <2>3. Cardinality(K) < MaxCursors
    BY <2>1, <2>2, RegistryAssumption DEF Kept
  <2>4. IsFiniteSet(K \cup {next}) /\ Cardinality(K \cup {next}) <= Cardinality(K) + 1
    BY <2>2, FS_AddElement
  <2>5. /\ Cardinality(DOMAIN cursors') <= Cardinality(K \cup {next})
        /\ Cardinality(DOMAIN cursors') \in Nat /\ Cardinality(K \cup {next}) \in Nat
    BY <2>1, <2>4, FS_Subset, FS_CardinalityType
  <2> QED  BY <2>2, <2>3, <2>4, <2>5, RegistryAssumption DEF RegistryBounded
<1>2. ASSUME DOMAIN cursors' \subseteq DOMAIN cursors PROVE RegistryBounded'
  <2>1. IsFiniteSet(DOMAIN cursors) /\ Cardinality(DOMAIN cursors) \in Nat  BY <1>d, <1>g
  <2>2. Cardinality(DOMAIN cursors') <= Cardinality(DOMAIN cursors)
        /\ Cardinality(DOMAIN cursors') \in Nat
    BY <1>2, <2>1, FS_Subset, FS_CardinalityType
  <2> QED  BY <2>1, <2>2, RegistryAssumption DEF RegistryBounded
<1>3. ASSUME NEW c \in Clients, Begin(c) \/ ContinueMiss(c) PROVE RegistryBounded'
  <2>1. \E P : \E next \in 0..MaxId : start(P, next)  BY <1>3 DEF Begin, ContinueMiss
  <2> QED  BY <2>1, <1>1
<1>4. ASSUME NEW c \in Clients, ContinueHit(c) PROVE RegistryBounded'
  <2>1. DOMAIN cursors' \subseteq DOMAIN cursors
    BY <1>4 DEF ContinueHit, continue_scan, Restrict
  <2> QED  BY <2>1, <1>2
<1>5. CASE Tick \/ UNCHANGED vars \/ \E k \in Keys : KeyAppears(k) \/ KeyGoes(k)
  <2>1. DOMAIN cursors' = DOMAIN cursors  BY <1>5 DEF Tick, vars, KeyAppears, KeyGoes
  <2> QED  BY <2>1, <1>2
<1>6. ASSUME NEW c \in Clients, LoseReply(c) PROVE RegistryBounded'
  <2>1. DOMAIN cursors' \subseteq DOMAIN cursors
    BY <1>6 DEF LoseReply, continue_scan, Restrict
  <2> QED  BY <2>1, <1>2
<1>7. CASE WorkerRestart
  <2>1. DOMAIN cursors' \subseteq DOMAIN cursors  BY <1>7 DEF WorkerRestart
  <2> QED  BY <2>1, <1>2
<1> QED  BY <1>3, <1>4, <1>5, <1>6, <1>7 DEF Next, NextUnreliable

LEMMA InitBounded == Init => RegistryBounded
<1> SUFFICES ASSUME Init PROVE RegistryBounded  OBVIOUS
<1>1. DOMAIN cursors = {}  BY DEF Init
<1> QED  BY <1>1, FS_EmptySet, RegistryAssumption DEF RegistryBounded

\* The registry holds at most MAX_LIVE_CURSORS snapshots.
THEOREM RegistryWithinCapacity == Spec => []RegistryBounded
<1>1. IndInv /\ RegistryBounded /\ [Next]_vars => RegistryBounded'
  BY BoundStep DEF IndInv, NextUnreliable
<1> QED  BY Invariance, InitBounded, <1>1, PTL DEF Spec
-----------------------------------------------------------------------------
(***************************************************************************)
(* With lost replies and restarts of the worker.  Ids are then handed out  *)
(* twice, so OwnershipInv and NoStableKeyMissed do not survive; the types  *)
(* and the capacity of the registry do, by themselves.                     *)
(***************************************************************************)
\* A page taken off cursor id of the registry.
LEMMA ContinueTypes ==
    ASSUME TypeOK, NEW id \in DOMAIN cursors, NEW n, NEW P \in Page(cursors[id].rest, n),
           NEW next \in 0..MaxId, continue_scan(id, P, next)
    PROVE  /\ DOMAIN cursors' \subseteq Ids /\ next_id' \in 0..MaxId /\ P \subseteq Keys
           /\ \A i \in DOMAIN cursors' : cursors'[i] \in ScanState /\ cursors'[i].rest # {}
<1>1. PICK left : left = cursors[id].rest \ P  OBVIOUS
<1>2. P \subseteq cursors[id].rest /\ cursors[id].rest \subseteq Keys /\ left \subseteq Keys
  BY <1>1, PageSubset DEF TypeOK, ScanState
<1>3. /\ UNCHANGED next_id /\ DOMAIN cursors' \subseteq DOMAIN cursors
      /\ left = {} => id \notin DOMAIN cursors'
      /\ left # {} => cursors'[id] = [rest |-> left, age |-> 0]
      /\ \A i \in DOMAIN cursors' : i # id => cursors'[i] = cursors[i]
  BY <1>1 DEF continue_scan, Restrict
<1>4. [rest |-> left, age |-> 0] \in ScanState  BY <1>2, RegistryAssumption DEF ScanState
<1> QED  BY <1>2, <1>3, <1>4 DEF TypeOK

LEMMA TypeStep == ASSUME TypeOK, [NextUnreliable]_vars PROVE TypeOK'
<1>t. /\ live \subseteq Keys /\ DOMAIN cursors \subseteq Ids /\ next_id \in 0..MaxId
      /\ scans \in [Clients -> Scan]
      /\ \A i \in DOMAIN cursors : cursors[i] \in ScanState /\ cursors[i].rest # {}
  BY DEF TypeOK
<1>1. ASSUME NEW c \in Clients, NEW n, NEW P \in Page(live, n), NEW next \in 0..MaxId,
             NEW seen \in SUBSET Keys, NEW stable \in SUBSET Keys,
             start(P, next), UNCHANGED live,
             scans' = [scans EXCEPT ![c] = Received(next, seen, stable)]
      PROVE  TypeOK'
  <2>1. P \in SUBSET live  BY PageSubset
  <2>2. /\ next_id' \in 0..MaxId /\ next \in {0, next_id'}
        /\ DOMAIN cursors' \subseteq DOMAIN cursors \cup ({next} \ {0})
        /\ \A i \in DOMAIN cursors' : cursors'[i] \in ScanState /\ cursors'[i].rest # {}
    BY <1>1, <2>1, StartFacts
  <2>3. Received(next, seen, stable) \in Scan  BY DEF Received, Scan
  <2>4. scans' \in [Clients -> Scan]  BY <1>t, <1>1, <2>3
  <2>5. DOMAIN cursors' \subseteq Ids  BY <1>t, <2>2, RegistryAssumption
  <2> QED  BY <1>t, <1>1, <2>2, <2>4, <2>5 DEF TypeOK
<1>2. ASSUME NEW c \in Clients, Begin(c) PROVE TypeOK'
  <2>1. PICK n \in 1..MaxCount : \E P \in Page(live, n), next \in 0..MaxId :
           start(P, next) /\ scans' = [scans EXCEPT ![c] = Received(next, P, live)]
    BY <1>2 DEF Begin
  <2>2. PICK P \in Page(live, n), next \in 0..MaxId :
           start(P, next) /\ scans' = [scans EXCEPT ![c] = Received(next, P, live)]
    BY <2>1
  <2>3. P \in SUBSET Keys /\ UNCHANGED live  BY <1>t, <1>2, PageSubset DEF Begin
  <2> QED  BY <1>1, <1>t, <2>2, <2>3
<1>3. ASSUME NEW c \in Clients, ContinueMiss(c) PROVE TypeOK'
  <2>1. PICK old \in Scan : old = scans[c]  BY <1>t
  <2>2. PICK n \in 1..MaxCount : \E P \in Page(live, n), next \in 0..MaxId :
           /\ start(P, next)
           /\ scans' = [scans EXCEPT ![c] = Received(next, old.seen \cup P, old.stable)]
    BY <1>3, <1>t, <2>1 DEF ContinueMiss
  <2>3. PICK P \in Page(live, n), next \in 0..MaxId :
           /\ start(P, next)
           /\ scans' = [scans EXCEPT ![c] = Received(next, old.seen \cup P, old.stable)]
    BY <2>2
  <2>4. old.seen \cup P \in SUBSET Keys /\ old.stable \in SUBSET Keys /\ UNCHANGED live
    BY <1>t, <1>3, PageSubset DEF ContinueMiss, Scan
  <2> QED  BY <1>1, <2>3, <2>4
<1>4. ASSUME NEW c \in Clients, ContinueHit(c) PROVE TypeOK'
  <2>1. PICK old \in Scan : old = scans[c]  BY <1>t
  <2>2. PICK id \in DOMAIN cursors : id = old.cursor  BY <1>4, <2>1 DEF ContinueHit, Hit
  <2>3. PICK n \in 1..MaxCount : \E P \in Page(cursors[id].rest, n), next \in 0..MaxId :
           /\ continue_scan(id, P, next)
           /\ scans' = [scans EXCEPT ![c] = Received(next, old.seen \cup P, old.stable)]
    BY <1>4, <1>t, <2>1, <2>2 DEF ContinueHit
  <2>4. PICK P \in Page(cursors[id].rest, n), next \in 0..MaxId :
           /\ continue_scan(id, P, next)
           /\ scans' = [scans EXCEPT ![c] = Received(next, old.seen \cup P, old.stable)]
    BY <2>3
  <2>5. /\ DOMAIN cursors' \subseteq Ids /\ next_id' \in 0..MaxId /\ P \subseteq Keys
        /\ \A i \in DOMAIN cursors' : cursors'[i] \in ScanState /\ cursors'[i].rest # {}
    BY <2>4, ContinueTypes
  <2>6. Received(next, old.seen \cup P, old.stable) \in Scan  BY <2>5 DEF Received, Scan
  <2>7. scans' \in [Clients -> Scan] /\ UNCHANGED live  BY <1>t, <1>4, <2>4, <2>6 DEF ContinueHit
  <2> QED  BY <1>t, <2>5, <2>7 DEF TypeOK
<1>5. ASSUME NEW c \in Clients, LoseReply(c) PROVE TypeOK'
  <2>1. PICK id \in DOMAIN cursors : id = scans[c].cursor  BY <1>5 DEF LoseReply, Hit
  <2>2. PICK n \in 1..MaxCount : \E P \in Page(cursors[id].rest, n), next \in 0..MaxId :
           continue_scan(id, P, next)
    BY <1>5, <2>1 DEF LoseReply
  <2>3. /\ DOMAIN cursors' \subseteq Ids /\ next_id' \in 0..MaxId
        /\ \A i \in DOMAIN cursors' : cursors'[i] \in ScanState /\ cursors'[i].rest # {}
    BY <2>2, ContinueTypes
  <2> QED  BY <1>t, <1>5, <2>3 DEF LoseReply, TypeOK
<1>6. CASE WorkerRestart
  <2>1. \A c \in Clients : (IF Running(c) THEN [scans[c] EXCEPT !.stable = {}] ELSE scans[c]) \in Scan
    BY <1>t DEF Scan
  <2>2. scans' \in [Clients -> Scan]  BY <1>6, <2>1 DEF WorkerRestart
  <2> QED  BY <1>6, <2>2, RegistryAssumption DEF WorkerRestart, TypeOK
<1>7. ASSUME NEW k \in Keys, KeyAppears(k) PROVE TypeOK'  BY <1>7, <1>t DEF KeyAppears, TypeOK
<1>8. ASSUME NEW k \in Keys, KeyGoes(k) PROVE TypeOK'
  <2>1. \A c \in Clients : (IF Running(c) THEN [scans[c] EXCEPT !.stable = @ \ {k}] ELSE scans[c]) \in Scan
    BY <1>t DEF Scan
  <2>2. scans' \in [Clients -> Scan]  BY <1>8, <2>1 DEF KeyGoes
  <2> QED  BY <1>8, <1>t, <2>2 DEF KeyGoes, TypeOK
<1>9. CASE Tick
  <2>1. DOMAIN cursors' = DOMAIN cursors /\ UNCHANGED <<live, next_id, scans>>  BY <1>9 DEF Tick
  <2>2. \A i \in DOMAIN cursors : cursors'[i] \in ScanState /\ cursors'[i].rest = cursors[i].rest
    BY <1>9, AgedState
  <2> QED  BY <1>t, <2>1, <2>2 DEF TypeOK
<1>10. CASE UNCHANGED vars  BY <1>10, <1>t DEF vars, TypeOK
<1> QED  BY <1>2, <1>3, <1>4, <1>5, <1>6, <1>7, <1>8, <1>9, <1>10 DEF Next, NextUnreliable

\* Lost replies, repeated calls and restarts of the worker leave the registry
\* within MAX_LIVE_CURSORS, without exhausted snapshots and with ids in range.
THEOREM UnreliableRegistry == SpecUnreliable => [](TypeOK /\ RegistryBounded)
<1>1. Init => TypeOK  BY InitInv DEF IndInv
<1>2. TypeOK /\ [NextUnreliable]_vars => TypeOK'  BY TypeStep
<1>3. TypeOK /\ RegistryBounded /\ [NextUnreliable]_vars => RegistryBounded'  BY BoundStep
<1> QED  BY InitBounded, <1>1, <1>2, <1>3, PTL DEF SpecUnreliable
=============================================================================
