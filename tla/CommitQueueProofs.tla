------------------------- MODULE CommitQueueProofs -------------------------
(***************************************************************************)
(* Proofs about CommitQueue: for every number of operations and savepoints *)
(* the queue is exact, a rolled-back operation never reaches the cache and *)
(* operations are applied after commit, in order.                          *)
(***************************************************************************)
EXTENDS CommitQueue, FiniteSetTheorems, TLAPS

USE DEF Top, Ops, SubIds, Item, queueVars, applyVars, truthVars

\* The sets counted by apply_queue are finite, so their size is a number.
LEMMA OpsCardinality ==
    ASSUME NEW S, S \subseteq Ops
    PROVE  IsFiniteSet(S) /\ Cardinality(S) \in Nat
<1>1. IsFiniteSet(Ops)
  BY BoundAssumption, FS_Interval
<1> QED  BY <1>1, FS_Subset, FS_CardinalityType

\* Initially nothing is queued, open, applied or counted.
LEMMA InitInv == Init => IndInv
<1> SUFFICES ASSUME Init PROVE IndInv  OBVIOUS
<1> USE BoundAssumption DEF Init
<1>1. TypeOK
  <2>1. path \in [Ops -> SUBSET SubIds]  OBVIOUS
  <2>2. hooks \in BOOLEAN /\ armed \in BOOLEAN  OBVIOUS
  <2>3. next_sub \in SubIds /\ lost \in Nat /\ count \in 0..MaxOps  OBVIOUS
  <2> QED  BY <2>1, <2>2, <2>3 DEF TypeOK
<1>2. HooksInv /\ NestingInv /\ EnclosureInv
  BY DEF HooksInv, NestingInv, EnclosureInv, InTransaction
<1>3. OrderInv /\ FateInv  BY DEF OrderInv, FateInv, InTransaction
<1>4. QueueExact  BY DEF QueueExact, Positions
<1> QED  BY <1>1, <1>2, <1>3, <1>4 DEF IndInv

LEMMA TypeStep ==
    ASSUME IndInv, [Next]_vars PROVE TypeOK'
<1> USE BoundAssumption DEF IndInv, TypeOK
<1>1. CASE Begin  BY <1>1 DEF Begin
<1>2. CASE Savepoint  BY <1>2 DEF Savepoint
<1>3. CASE enqueue  BY <1>3 DEF enqueue
<1>4. CASE AbortSub  BY <1>4 DEF AbortSub, on_abort_sub
<1>5. CASE CommitSub  BY <1>5 DEF CommitSub, on_commit_sub
<1>6. CASE Commit  BY <1>6 DEF Commit, Positions
<1>7. CASE Abort  BY <1>7 DEF Abort
<1>8. CASE ApplyOk  BY <1>8 DEF ApplyOk
<1>9. CASE ApplyErr  BY <1>9 DEF ApplyErr
<1>10. CASE ApplyEnd
  <2>1. Cardinality(failed) \in Nat  BY OpsCardinality
  <2> QED  BY <1>10, <2>1 DEF ApplyEnd
<1>11. CASE ApplyPanic
  <2>1. Cardinality(batch) \in Nat  BY OpsCardinality
  <2> QED  BY <1>11, <2>1 DEF ApplyPanic
<1>12. CASE UNCHANGED vars  BY <1>12 DEF vars
<1> QED  BY <1>1, <1>2, <1>3, <1>4, <1>5, <1>6, <1>7, <1>8, <1>9, <1>10, <1>11, <1>12 DEF Next

-----------------------------------------------------------------------------
(***************************************************************************)
(* The steps that touch the queue or the nesting, one lemma each.          *)
(***************************************************************************)
Rest == HooksInv /\ NestingInv /\ EnclosureInv /\ OrderInv /\ FateInv /\ QueueExact

\* Between transactions the queue is empty, so a new one starts with nothing.
LEMMA BeginStep == ASSUME IndInv, Begin PROVE Rest'
<1> USE DEF IndInv, Begin, Ready, InTransaction
<1>1. queue = {}
  BY DEF NestingInv, QueueExact, Positions
<1>2. HooksInv'  BY DEF HooksInv
<1>3. NestingInv'  BY DEF NestingInv
<1>4. EnclosureInv'  BY <1>1 DEF EnclosureInv
<1>5. OrderInv'  BY DEF OrderInv, NestingInv
<1>6. FateInv'  BY DEF FateInv
<1>7. QueueExact'  BY <1>1 DEF QueueExact, Positions
<1> QED  BY <1>2, <1>3, <1>4, <1>5, <1>6, <1>7 DEF Rest

\* The new id is larger than every id in use.
LEMMA SavepointStep == ASSUME IndInv, Savepoint PROVE Rest'
<1> USE BoundAssumption DEF IndInv, Savepoint, InTransaction
<1>1. HooksInv'  BY DEF HooksInv
<1>2. NestingInv'  BY DEF NestingInv, TypeOK
<1>3. EnclosureInv'
  <2> SUFFICES ASSUME NEW i \in queue, NEW o \in open'
               PROVE  i.subxid <= next_sub' /\ (o \in path[i.pos] <=> o <= i.subxid)
    BY DEF EnclosureInv
  <2>1. i.pos \in current /\ i \in Item
    BY DEF QueueExact, Positions, TypeOK
  <2>2. i.subxid <= next_sub /\ \A q \in path[i.pos] : q <= next_sub
    BY <2>1 DEF EnclosureInv, NestingInv
  <2>3. CASE o \in open  BY <2>1, <2>2, <2>3 DEF EnclosureInv, TypeOK
  <2>4. CASE o = next_sub + 1  BY <2>1, <2>2, <2>4 DEF TypeOK
  <2> QED  BY <2>3, <2>4
<1>4. OrderInv'  BY DEF OrderInv
<1>5. FateInv'  BY DEF FateInv
<1>6. QueueExact'  BY DEF QueueExact, Positions
<1> QED  BY <1>1, <1>2, <1>3, <1>4, <1>5, <1>6 DEF Rest

\* The new item carries the innermost id, so all open ids enclose it.
LEMMA EnqueueStep == ASSUME IndInv, enqueue PROVE Rest'
<1> USE BoundAssumption DEF IndInv, InTransaction
<1> DEFINE n == count + 1
<1>0. PICK s \in open : Innermost(s) /\ queue' = queue \cup {[pos |-> n, subxid |-> s]}
  BY DEF enqueue
<1>1. n \in Ops /\ n \notin current /\ n \notin undone /\ n \notin committed
  BY DEF enqueue, OrderInv, TypeOK
<1>2. path' = [path EXCEPT ![n] = open]  BY DEF enqueue
<1>3. HooksInv'  BY DEF HooksInv, enqueue
<1>4. NestingInv'  BY <1>1, <1>2 DEF NestingInv, enqueue, TypeOK
<1>5. EnclosureInv'
  <2> SUFFICES ASSUME NEW i \in queue', NEW o \in open
               PROVE  i.subxid <= next_sub /\ (o \in path'[i.pos] <=> o <= i.subxid)
    BY DEF EnclosureInv, enqueue
  <2>1. CASE i \in queue
    <3>1. i.pos \in current /\ i \in Item  BY <2>1 DEF QueueExact, Positions, TypeOK
    <3>2. path'[i.pos] = path[i.pos]  BY <1>1, <1>2, <3>1 DEF TypeOK
    <3> QED  BY <2>1, <3>2 DEF EnclosureInv
  <2>2. CASE i = [pos |-> n, subxid |-> s]
    <3>1. path'[i.pos] = open  BY <1>1, <1>2, <2>2 DEF TypeOK
    <3> QED  BY <1>0, <2>2, <3>1 DEF Innermost, NestingInv
  <2> QED  BY <1>0, <2>1, <2>2
<1>6. OrderInv'
  <2>1. current' = current \cup {n} /\ count' = n
        /\ UNCHANGED <<undone, committed, applied, applying>>
    BY DEF enqueue
  <2> QED  BY <1>1, <2>1 DEF OrderInv, TypeOK
<1>7. FateInv'  BY DEF FateInv, enqueue
<1>8. QueueExact'
  <2>1. [pos |-> n, subxid |-> s] \in queue' /\ queue \subseteq queue'  BY <1>0
  <2>3. ASSUME NEW p \in Positions' PROVE p \in Positions \cup {n}
    <3>1. PICK i \in queue' : p = i.pos  BY DEF Positions
    <3>2. CASE i \in queue  BY <3>1, <3>2 DEF Positions
    <3>3. CASE i = [pos |-> n, subxid |-> s]  BY <3>1, <3>3
    <3> QED  BY <1>0, <3>2, <3>3
  <2>4. n \in Positions'
    <3>1. [pos |-> n, subxid |-> s].pos = n  OBVIOUS
    <3> QED  BY <2>1, <3>1 DEF Positions
  <2>5. Positions \subseteq Positions'  BY <2>1 DEF Positions
  <2>a. Positions' = Positions \cup {n}  BY <2>3, <2>4, <2>5
  <2>2. current' = current \cup {n} /\ undone' = undone  BY DEF enqueue
  <2> QED  BY <1>1, <2>a, <2>2 DEF QueueExact
<1> QED  BY <1>3, <1>4, <1>5, <1>6, <1>7, <1>8 DEF Rest

\* An item is kept exactly when the aborted subtransaction does not enclose it.
LEMMA AbortSubStep == ASSUME IndInv, AbortSub PROVE Rest'
<1> USE BoundAssumption DEF IndInv, InTransaction
<1>0. PICK s \in open \ {Top} :
        /\ Innermost(s)
        /\ queue' = IF armed THEN on_abort_sub(s) ELSE queue
        /\ open' = open \ {s}
        /\ undone' = undone \cup {p \in current : s \in path[p]}
  BY DEF AbortSub
<1>1. queue' = {i \in queue : i.subxid < s}
  BY <1>0 DEF on_abort_sub, HooksInv
<1>2. \A i \in queue : i.subxid < s <=> s \notin path[i.pos]
  BY <1>0 DEF EnclosureInv, TypeOK
<1>u. UNCHANGED <<hooks, armed, next_sub, applyVars, count, path, current, prepared, committed>>
  BY DEF AbortSub
<1>3. HooksInv'  BY <1>1, <1>u DEF HooksInv
<1>4. NestingInv'  BY <1>0, <1>u DEF NestingInv
<1>5. EnclosureInv'  BY <1>0, <1>1, <1>u DEF EnclosureInv
<1>6. OrderInv'  BY <1>0, <1>u DEF OrderInv
<1>7. FateInv'
  <2>1. committed \cap current = {}  BY DEF OrderInv, TypeOK
  <2> QED  BY <1>0, <1>u, <2>1 DEF FateInv
<1>8. QueueExact'
  <2>1. Positions' = {p \in Positions : s \notin path[p]}
    BY <1>1, <1>2 DEF Positions
  <2> QED  BY <1>0, <1>u, <2>1 DEF QueueExact
<1> QED  BY <1>3, <1>4, <1>5, <1>6, <1>7, <1>8 DEF Rest

\* Re-parenting changes no position, and the ids still open lie below both the
\* released id and its parent.
LEMMA CommitSubStep == ASSUME IndInv, CommitSub PROVE Rest'
<1> USE BoundAssumption DEF IndInv, InTransaction
<1>p. PICK s \in open \ {Top} : \E parent \in open \ {s} :
        /\ Innermost(s) /\ Parent(parent, s)
        /\ queue' = IF armed THEN on_commit_sub(s, parent) ELSE queue
        /\ open' = open \ {s}
  BY DEF CommitSub
<1>0. PICK parent \in open \ {s} :
        /\ Innermost(s) /\ Parent(parent, s)
        /\ queue' = IF armed THEN on_commit_sub(s, parent) ELSE queue
        /\ open' = open \ {s}
  BY <1>p
<1>1. queue' = {IF i.subxid = s THEN [i EXCEPT !.subxid = parent] ELSE i : i \in queue}
  BY <1>0 DEF on_commit_sub, HooksInv
<1>u. UNCHANGED <<hooks, armed, next_sub, applyVars, truthVars>>
  BY DEF CommitSub
<1>2. \A j \in queue' : \E i \in queue :
        /\ j.pos = i.pos
        /\ j.subxid = IF i.subxid = s THEN parent ELSE i.subxid
  BY <1>1 DEF TypeOK
<1>3. HooksInv'  BY <1>1, <1>u DEF HooksInv
<1>4. NestingInv'  BY <1>0, <1>u DEF NestingInv
<1>5. EnclosureInv'
  <2> SUFFICES ASSUME NEW j \in queue', NEW o \in open \ {s}
               PROVE  j.subxid <= next_sub /\ (o \in path[j.pos] <=> o <= j.subxid)
    BY <1>0, <1>u DEF EnclosureInv
  <2>1. PICK i \in queue : /\ j.pos = i.pos
                           /\ j.subxid = IF i.subxid = s THEN parent ELSE i.subxid
    BY <1>2
  <2>2. i.subxid <= next_sub /\ (o \in path[i.pos] <=> o <= i.subxid)
    BY DEF EnclosureInv
  <2>3. o <= parent /\ o <= s /\ parent <= s
    BY <1>0 DEF Parent, Innermost
  <2>4. i \in Item /\ o \in SubIds /\ s \in SubIds /\ parent \in SubIds
    BY DEF TypeOK
  <2> QED  BY <2>1, <2>2, <2>3, <2>4 DEF NestingInv
<1>6. OrderInv'  BY <1>u DEF OrderInv
<1>7. FateInv'  BY <1>0, <1>u DEF FateInv
<1>8. QueueExact'
  <2>1. Positions' \subseteq Positions  BY <1>2 DEF Positions
  <2>2. ASSUME NEW i \in queue PROVE i.pos \in Positions'
    <3> DEFINE j == IF i.subxid = s THEN [i EXCEPT !.subxid = parent] ELSE i
    <3>1. j \in queue'  BY <1>1
    <3>2. i \in Item  BY DEF TypeOK
    <3>3. j.pos = i.pos  BY <3>2 DEF Item
    <3> QED  BY <3>1, <3>3 DEF Positions
  <2>3. Positions \subseteq Positions'  BY <2>2 DEF Positions
  <2> QED  BY <1>u, <2>1, <2>3 DEF QueueExact
<1> QED  BY <1>3, <1>4, <1>5, <1>6, <1>7, <1>8 DEF Rest

\* The batch taken is the surviving operations, which are committed.
LEMMA CommitStep == ASSUME IndInv, Commit PROVE Rest'
<1> USE BoundAssumption DEF IndInv, InTransaction
<1>0. /\ open = {Top} /\ open' = {} /\ current' = {}
      /\ committed' = committed \cup (current \ undone)
      /\ UNCHANGED <<next_sub, failed, lost, applied, count, path, undone, prepared>>
  BY DEF Commit
<1>1. /\ queue' = {} /\ hooks' = FALSE /\ armed' = FALSE
      /\ batch' \subseteq Positions /\ applying' = batch'
  BY DEF Commit, HooksInv, FateInv
<1>2. batch' \subseteq current \ undone  BY <1>1 DEF QueueExact
<1>3. HooksInv'  BY <1>0, <1>1 DEF HooksInv
<1>4. NestingInv' /\ EnclosureInv'  BY <1>0, <1>1 DEF NestingInv, EnclosureInv
<1>5. OrderInv'  BY <1>0, <1>1, <1>2 DEF OrderInv, FateInv
<1>6. FateInv'  BY <1>0, <1>1, <1>2 DEF FateInv
<1>7. QueueExact'  BY <1>0, <1>1 DEF QueueExact, Positions
<1> QED  BY <1>3, <1>4, <1>5, <1>6, <1>7 DEF Rest

\* The queue is dropped and its operations are rolled back.
LEMMA AbortStep == ASSUME IndInv, Abort PROVE Rest'
<1> USE BoundAssumption DEF IndInv, InTransaction
<1>0. /\ open' = {} /\ current' = {} /\ undone' = undone \cup current
      /\ UNCHANGED <<next_sub, applyVars, count, path, prepared, committed>>
  BY DEF Abort
<1>1. queue' = {} /\ hooks' = FALSE /\ armed' = FALSE
  BY DEF Abort, HooksInv
<1>2. HooksInv'  BY <1>0, <1>1 DEF HooksInv
<1>3. NestingInv' /\ EnclosureInv'  BY <1>0, <1>1 DEF NestingInv, EnclosureInv
<1>4. OrderInv'  BY <1>0 DEF OrderInv
<1>5. FateInv'
  <2>1. committed \cap current = {}  BY DEF OrderInv, TypeOK
  <2> QED  BY <1>0, <2>1 DEF FateInv
<1>6. QueueExact'  BY <1>0, <1>1 DEF QueueExact, Positions
<1> QED  BY <1>2, <1>3, <1>4, <1>5, <1>6 DEF Rest

\* The steps of apply_queue move operations from applying to applied or failed.
LEMMA ApplyStep ==
    ASSUME IndInv, ApplyOk \/ ApplyErr \/ ApplyEnd \/ ApplyPanic
    PROVE  Rest'
<1> USE BoundAssumption DEF IndInv, InTransaction
<1>0. UNCHANGED <<queueVars, open, next_sub, truthVars>>
  BY DEF ApplyOk, ApplyErr, ApplyEnd, ApplyPanic
<1>1. HooksInv' /\ NestingInv' /\ EnclosureInv'
  BY <1>0 DEF HooksInv, NestingInv, EnclosureInv
<1>2. OrderInv'
  <2>1. CASE ApplyOk \/ ApplyErr
    <3>1. PICK p \in applying : /\ First(p)
                                /\ applying' = applying \ {p}
                                /\ applied' \in {applied, applied \cup {p}}
      BY <2>1 DEF ApplyOk, ApplyErr
    <3> QED  BY <1>0, <3>1 DEF OrderInv, First, TypeOK
  <2>2. CASE ApplyEnd \/ ApplyPanic
    BY <1>0, <2>2 DEF ApplyEnd, ApplyPanic, OrderInv
  <2> QED  BY <2>1, <2>2
<1>3. FateInv'
  <2>1. CASE ApplyOk  BY <1>0, <2>1 DEF ApplyOk, FateInv
  <2>2. CASE ApplyErr  BY <1>0, <2>2 DEF ApplyErr, FateInv
  <2>3. CASE ApplyEnd \/ ApplyPanic
    BY <1>0, <2>3 DEF ApplyEnd, ApplyPanic, FateInv
  <2> QED  BY <2>1, <2>2, <2>3
<1>4. QueueExact'  BY <1>0 DEF QueueExact, Positions
<1> QED  BY <1>1, <1>2, <1>3, <1>4 DEF Rest

-----------------------------------------------------------------------------
\* The invariant is inductive: transactions, savepoints, enqueues and the
\* applier's steps all preserve it.
LEMMA InductiveStep == IndInv /\ [Next]_vars => IndInv'
<1> SUFFICES ASSUME IndInv, [Next]_vars PROVE IndInv'  OBVIOUS
<1>1. TypeOK'  BY TypeStep
<1>2. CASE UNCHANGED vars
  <2>1. Rest'
    BY <1>2 DEF vars, Rest, IndInv, HooksInv, NestingInv, EnclosureInv, OrderInv, FateInv,
                QueueExact, Positions, InTransaction
  <2> QED  BY <1>1, <2>1 DEF IndInv, Rest
<1>3. CASE Next
  <2>1. Rest'
    BY <1>3, BeginStep, SavepointStep, EnqueueStep, AbortSubStep, CommitSubStep,
       CommitStep, AbortStep, ApplyStep DEF Next
  <2> QED  BY <1>1, <2>1 DEF IndInv, Rest
<1> QED  BY <1>2, <1>3

\* The invariant holds in every reachable state.
THEOREM Invariance == Spec => []IndInv
BY InitInv, InductiveStep, PTL DEF Spec

\* Every variable keeps its type.
THEOREM TypeCorrect == Spec => []TypeOK
<1>1. IndInv => TypeOK  BY DEF IndInv
<1> QED  BY Invariance, <1>1, PTL

\* At every point the queue holds exactly the surviving operations of the
\* running transaction, for any nesting of savepoints.
THEOREM QueueIsExact == Spec => []QueueExact
<1>1. IndInv => QueueExact  BY DEF IndInv
<1> QED  BY Invariance, <1>1, PTL

\* A rolled-back operation never reaches the cache.
THEOREM RollbackSafe == Spec => []RollbackNeverApplied
<1>1. IndInv => RollbackNeverApplied
  BY DEF IndInv, FateInv, RollbackNeverApplied
<1> QED  BY Invariance, <1>1, PTL

\* Operations reach the cache after their commit and in the order issued.
THEOREM CommitOrder == Spec => AppliedInCommitOrder
<1>1. IndInv /\ [Next]_vars => [AppliesInOrder]_vars
  <2> SUFFICES ASSUME IndInv, Next PROVE AppliesInOrder  BY DEF AppliesInOrder, vars
  <2>1. CASE ApplyOk \/ ApplyErr
    <3>1. PICK p \in applying : applied' \in {applied, applied \cup {p}}
      BY <2>1 DEF ApplyOk, ApplyErr
    <3>2. p \in committed /\ \A q \in applied : q < p
      BY DEF IndInv, FateInv, OrderInv
    <3> QED  BY <3>1, <3>2 DEF AppliesInOrder
  <2>2. CASE ~(ApplyOk \/ ApplyErr)
    <3>1. applied' = applied
      BY <2>2 DEF Next, Begin, Savepoint, enqueue, AbortSub, CommitSub, Commit, Abort,
                  ApplyEnd, ApplyPanic
    <3> QED  BY <3>1 DEF AppliesInOrder
  <2> QED  BY <2>1, <2>2
<1> QED  BY Invariance, <1>1, PTL DEF Spec, AppliedInCommitOrder

-----------------------------------------------------------------------------
\* Adding the members of a finite set adds at most as many as it has.
LEMMA UnionBound ==
    ASSUME NEW S, NEW T, NEW U, S \subseteq Ops, T \subseteq Ops, U \subseteq S \cup T
    PROVE  Cardinality(U) <= Cardinality(S) + Cardinality(T)
<1>1. IsFiniteSet(S) /\ IsFiniteSet(T)  BY OpsCardinality
<1>2. S \cup T \subseteq Ops  OBVIOUS
<1>3. /\ IsFiniteSet(S \cup T)
      /\ Cardinality(S \cup T) = Cardinality(S) + Cardinality(T) - Cardinality(S \cap T)
  BY <1>1, FS_Union
<1>4. Cardinality(U) <= Cardinality(S \cup T)  BY <1>3, FS_Subset
<1>5. S \cap T \subseteq Ops /\ U \subseteq Ops  OBVIOUS
<1>6. /\ Cardinality(S) \in Nat /\ Cardinality(T) \in Nat /\ Cardinality(U) \in Nat
      /\ Cardinality(S \cap T) \in Nat
  BY <1>5, OpsCardinality
<1> QED  BY <1>3, <1>4, <1>6

\* A step that reports n losses leaves at most n more operations unreported.
LEMMA LossStep ==
    ASSUME IndInv, LossInv, NEW T, T \subseteq Ops,
           Unreported' \subseteq Unreported \cup T, lost' = lost + Cardinality(T)
    PROVE  LossInv'
<1>1. Unreported \subseteq Ops  BY DEF IndInv, TypeOK, Unreported
<1>2. Cardinality(Unreported') <= Cardinality(Unreported) + Cardinality(T)
  BY <1>1, UnionBound
<1>3. Unreported' \subseteq Ops  BY <1>1
<1>4. Cardinality(Unreported) \in Nat /\ Cardinality(Unreported') \in Nat /\ Cardinality(T) \in Nat
  BY <1>1, <1>3, OpsCardinality
<1>5. lost \in Nat  BY DEF IndInv, TypeOK
<1> QED  BY <1>2, <1>4, <1>5 DEF LossInv

LEMMA LossInvStep == IndInv /\ LossInv /\ [Next]_vars => LossInv'
<1> SUFFICES ASSUME IndInv, LossInv, [Next]_vars PROVE LossInv'  OBVIOUS
<1>t. TypeOK /\ FateInv /\ QueueExact /\ HooksInv  BY DEF IndInv
<1>1. CASE ApplyEnd
  <2>1. Unreported' \subseteq Unreported \cup failed /\ failed \subseteq Ops
    BY <1>1, <1>t DEF ApplyEnd, Unreported, TypeOK
  <2> QED  BY <1>1, <2>1, LossStep DEF ApplyEnd
<1>2. CASE ApplyPanic
  <2>1. Unreported' \subseteq Unreported \cup batch /\ batch \subseteq Ops
    BY <1>2, <1>t DEF ApplyPanic, Unreported, TypeOK, FateInv
  <2> QED  BY <1>2, <2>1, LossStep DEF ApplyPanic
<1>3. CASE ~ApplyEnd /\ ~ApplyPanic
  <2>1. Unreported' \subseteq Unreported /\ lost' = lost
    <3>1. CASE ApplyOk  BY <3>1 DEF ApplyOk, Unreported
    <3>2. CASE ApplyErr  BY <3>2 DEF ApplyErr, Unreported
    <3>3. CASE Commit
      <4>1. committed' \ committed \subseteq Positions
        BY <3>3, <1>t DEF Commit, QueueExact
      <4>2. Positions \subseteq applying' /\ applying \subseteq applying'
        BY <3>3, <1>t DEF Commit, HooksInv, Positions, FateInv, InTransaction
      <4> QED  BY <3>3, <4>1, <4>2 DEF Commit, Unreported
    <3>4. CASE ~(ApplyOk \/ ApplyErr \/ Commit)
      BY <1>3, <3>4 DEF Next, vars, Begin, Savepoint, enqueue, AbortSub, CommitSub, Abort, Unreported
    <3> QED  BY <3>1, <3>2, <3>3, <3>4
  <2>2. Unreported' \subseteq Unreported \cup {} /\ lost' = lost + Cardinality({})
    BY <2>1, <1>t, FS_EmptySet DEF TypeOK
  <2> QED  BY <2>2, LossStep
<1> QED  BY <1>1, <1>2, <1>3

\* No invalidation is lost without being counted: outside the Commit callback
\* invalidations_lost bounds the committed operations the cache has not seen.
THEOREM NoSilentLoss == Spec => []LossCounted
<1>1. Init => LossInv
  <2> SUFFICES ASSUME Init PROVE LossInv  OBVIOUS
  <2>1. Unreported = {} /\ lost = 0  BY DEF Init, Unreported
  <2> QED  BY <2>1, FS_EmptySet DEF LossInv
<1>2. IndInv /\ LossInv => LossCounted
  <2> SUFFICES ASSUME IndInv, LossInv, Ready PROVE Cardinality(committed \ applied) <= lost
    BY DEF LossCounted
  <2>1. Unreported = committed \ applied
    BY DEF IndInv, FateInv, Ready, Unreported
  <2> QED  BY <2>1 DEF LossInv
<1>3. Spec => []LossInv
  BY Invariance, LossInvStep, <1>1, PTL DEF Spec
<1> QED  BY Invariance, <1>2, <1>3, PTL
=============================================================================
