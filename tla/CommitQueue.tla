---------------------------- MODULE CommitQueue ----------------------------
(***************************************************************************)
(* The post-commit queue of one Postgres backend, crates/pg_resp/src/      *)
(* sql.rs: resp.set, resp.del and the resp.evict trigger only append to a  *)
(* thread-local queue; the Commit callback applies it to the cache through *)
(* the backend's client, the Abort callback drops it, and the savepoint    *)
(* callbacks drop or re-parent the items of the subtransaction that ends.  *)
(*                                                                         *)
(* The queue is a set of items numbered in the order of their enqueue, so  *)
(* retain and iteration keep their order by construction of the numbers.   *)
(* Subtransaction ids grow within a transaction and start again at         *)
(* TopSubTransactionId = 1 in the next one, so the ids of open             *)
(* subtransactions grow with the nesting depth and the innermost one is    *)
(* the largest.                                                            *)
(*                                                                         *)
(* The variables of the second group record what Postgres, not pg_resp,    *)
(* knows of each operation; the properties are stated with them.           *)
(***************************************************************************)
EXTENDS Integers, FiniteSets

CONSTANTS
    MaxOps,  \* bound: operations enqueued in a behaviour
    MaxSub   \* bound: subtransaction ids used in one transaction

ASSUME BoundAssumption == MaxOps \in Nat /\ MaxSub \in Nat \ {0}

Ops == 1..MaxOps
SubIds == 1..MaxSub
Top == 1  \* TopSubTransactionId

VARIABLES
    queue,     \* QUEUE: items [pos, subxid]
    hooks,     \* HOOKS_REGISTERED
    armed,     \* whether pgrx's callback map holds this module's callbacks
    open,      \* ids of the open (sub)transactions, {} outside a transaction
    next_sub,  \* last subtransaction id handed out
    applying,  \* positions apply_queue has still to send
    batch,     \* positions of the batch apply_queue was called with
    failed,    \* positions of it whose command returned an error
    lost       \* INVALIDATIONS_LOST

VARIABLES
    count,     \* operations enqueued so far
    path,      \* path[p]: (sub)transactions that enclosed the enqueue of p
    current,   \* operations of the running transaction
    undone,    \* operations rolled back with a transaction or a savepoint
    prepared,  \* operations of a transaction that was PREPAREd
    committed, \* operations of committed transactions that were not undone
    applied    \* operations the cache has executed

queueVars == <<queue, hooks, armed>>
applyVars == <<applying, batch, failed, lost, applied>>
truthVars == <<count, path, current, undone, prepared, committed>>
vars == <<queueVars, open, next_sub, applyVars, truthVars>>

Item == [pos : Ops, subxid : SubIds]

Positions == {i.pos : i \in queue}

InTransaction == open # {}
Innermost(s) == s \in open /\ \A o \in open : o <= s
Parent(p, s) == p \in open \ {s} /\ \A o \in open \ {s} : o <= p

\* apply_queue runs inside the Commit callback: the backend does nothing else.
Ready == applying = {} /\ batch = {}

-----------------------------------------------------------------------------
(***************************************************************************)
(* Postgres: transactions and savepoints.  Each event calls the callbacks  *)
(* that are armed.                                                         *)
(***************************************************************************)
Begin ==
    /\ Ready /\ ~InTransaction
    /\ open' = {Top}
    /\ next_sub' = Top
    /\ current' = {}
    /\ UNCHANGED <<queueVars, applyVars, count, path, undone, prepared, committed>>

Savepoint ==
    /\ InTransaction /\ next_sub < MaxSub
    /\ next_sub' = next_sub + 1
    /\ open' = open \cup {next_sub'}
    /\ UNCHANGED <<queueVars, applyVars, truthVars>>

\* resp.set, resp.del and resp.evict: register_hooks if this transaction has
\* not, then push.
enqueue ==
    /\ InTransaction /\ count < MaxOps
    /\ hooks' = TRUE
    /\ armed' = (armed \/ ~hooks)
    /\ \E s \in open :
          /\ Innermost(s)
          /\ queue' = queue \cup {[pos |-> count + 1, subxid |-> s]}
    /\ count' = count + 1
    /\ path' = [path EXCEPT ![count + 1] = open]
    /\ current' = current \cup {count + 1}
    /\ UNCHANGED <<open, next_sub, applyVars, undone, prepared, committed>>

\* Faulty variant of on_abort_sub: no callback for a rolled-back savepoint.
KeepAll(s) == queue

\* `retain(|item| item.subxid < my_subid)`
on_abort_sub(s) == {i \in queue : i.subxid < s}

AbortSub ==
    /\ \E s \in open \ {Top} :
          /\ Innermost(s)
          /\ queue' = IF armed THEN on_abort_sub(s) ELSE queue
          /\ open' = open \ {s}
          /\ undone' = undone \cup {p \in current : s \in path[p]}
    /\ UNCHANGED <<hooks, armed, next_sub, applyVars, count, path, current, prepared, committed>>

\* Faulty variant of on_commit_sub: one level too far.
ReparentBelow(s, parent) ==
    {IF i.subxid = s THEN [i EXCEPT !.subxid = parent - 1] ELSE i : i \in queue}

\* Items of the released savepoint become the parent's.
on_commit_sub(s, parent) ==
    {IF i.subxid = s THEN [i EXCEPT !.subxid = parent] ELSE i : i \in queue}

CommitSub ==
    /\ \E s \in open \ {Top} : \E parent \in open \ {s} :
          /\ Innermost(s) /\ Parent(parent, s)
          /\ queue' = IF armed THEN on_commit_sub(s, parent) ELSE queue
          /\ open' = open \ {s}
    /\ UNCHANGED <<hooks, armed, next_sub, applyVars, truthVars>>

\* Faulty variant of Commit: the flag that says the callbacks are registered
\* is not reset.
CommitKeepingHooks ==
    /\ open = {Top}
    /\ open' = {}
    /\ \/ /\ armed
          /\ armed' = FALSE
          /\ batch' = Positions /\ applying' = Positions
          /\ queue' = {}
       \/ ~armed /\ UNCHANGED <<queue, armed, batch, applying>>
    /\ committed' = committed \cup (current \ undone)
    /\ current' = {}
    /\ UNCHANGED <<hooks, next_sub, failed, lost, applied, count, path, undone, prepared>>

\* The transaction is durable, then the callback takes the queue.  pgrx drops
\* its callback map.
Commit ==
    /\ open = {Top}
    /\ open' = {}
    /\ \/ /\ armed
          /\ hooks' = FALSE /\ armed' = FALSE
          /\ batch' = Positions /\ applying' = Positions
          /\ queue' = {}
       \/ ~armed /\ UNCHANGED <<queueVars, batch, applying>>
    /\ committed' = committed \cup (current \ undone)
    /\ current' = {}
    /\ UNCHANGED <<next_sub, failed, lost, applied, count, path, undone, prepared>>

\* Faulty variant of Abort: no Abort callback clears the queue.
AbortKeepingQueue ==
    /\ InTransaction
    /\ open' = {}
    /\ hooks' = FALSE /\ armed' = FALSE
    /\ undone' = undone \cup current
    /\ current' = {}
    /\ UNCHANGED <<queue, next_sub, applyVars, count, path, prepared, committed>>

\* ROLLBACK, an error, or the end of the session, at any nesting depth.
Abort ==
    /\ InTransaction
    /\ open' = {}
    /\ \/ armed /\ hooks' = FALSE /\ armed' = FALSE /\ queue' = {}
       \/ ~armed /\ UNCHANGED queueVars
    /\ undone' = undone \cup current
    /\ current' = {}
    /\ UNCHANGED <<next_sub, applyVars, count, path, prepared, committed>>

-----------------------------------------------------------------------------
(***************************************************************************)
(* apply_queue: one command per step, in queue order.  Client::command     *)
(* returns Ok only for a command the server executed, as long as a reply   *)
(* is the reply to its command (Synchronized in RespClient); an error      *)
(* leaves open whether the server executed it.                             *)
(***************************************************************************)
\* Faulty variant of First: any order.
AnyOf(p) == p \in applying

First(p) == p \in applying /\ \A q \in applying : p <= q

ApplyOk ==
    /\ \E p \in applying :
          /\ First(p)
          /\ applying' = applying \ {p}
          /\ applied' = applied \cup {p}
    /\ UNCHANGED <<queueVars, open, next_sub, batch, failed, lost, truthVars>>

ApplyErr ==
    /\ \E p \in applying :
          /\ First(p)
          /\ applying' = applying \ {p}
          /\ failed' = failed \cup {p}
          /\ applied' \in {applied, applied \cup {p}}
    /\ UNCHANGED <<queueVars, open, next_sub, batch, lost, truthVars>>

\* Faulty variant of ApplyEnd: a failed batch is one lost invalidation.
ApplyEndOnce ==
    /\ batch # {} /\ applying = {}
    /\ lost' = lost + (IF failed = {} THEN 0 ELSE 1)
    /\ batch' = {} /\ failed' = {}
    /\ UNCHANGED <<queueVars, open, next_sub, applying, applied, truthVars>>

\* The loop is over: count_lost_invalidations(failed).
ApplyEnd ==
    /\ batch # {} /\ applying = {}
    /\ lost' = lost + Cardinality(failed)
    /\ batch' = {} /\ failed' = {}
    /\ UNCHANGED <<queueVars, open, next_sub, applying, applied, truthVars>>

\* A panic in the applier is caught: the whole batch counts as lost.
ApplyPanic ==
    /\ applying # {}
    /\ lost' = lost + Cardinality(batch)
    /\ applying' = {} /\ batch' = {} /\ failed' = {}
    /\ UNCHANGED <<queueVars, open, next_sub, applied, truthVars>>

-----------------------------------------------------------------------------
(***************************************************************************)
(* Two-phase commit.  PREPARE TRANSACTION ends the transaction in this     *)
(* backend with the Prepare event, for which nothing is registered: neither*)
(* Commit nor Abort fires, now or when the transaction is resolved, in any *)
(* session, by COMMIT PREPARED or ROLLBACK PREPARED.                       *)
(***************************************************************************)
PrepareTransaction ==
    /\ open = {Top}
    /\ open' = {}
    /\ prepared' = prepared \cup (current \ undone)
    /\ current' = {}
    /\ UNCHANGED <<queueVars, next_sub, applyVars, count, path, undone, committed>>

CommitPrepared ==
    /\ prepared # {}
    /\ committed' = committed \cup prepared
    /\ prepared' = {}
    /\ UNCHANGED <<queueVars, open, next_sub, applyVars, count, path, current, undone>>

RollbackPrepared ==
    /\ prepared # {}
    /\ undone' = undone \cup prepared
    /\ prepared' = {}
    /\ UNCHANGED <<queueVars, open, next_sub, applyVars, count, path, current, committed>>

-----------------------------------------------------------------------------
Init ==
    /\ queue = {} /\ hooks = FALSE /\ armed = FALSE
    /\ open = {} /\ next_sub = Top
    /\ applying = {} /\ batch = {} /\ failed = {} /\ lost = 0
    /\ count = 0 /\ path = [p \in Ops |-> {}]
    /\ current = {} /\ undone = {} /\ prepared = {} /\ committed = {}
    /\ applied = {}

Next ==
    \/ Begin \/ Savepoint \/ enqueue
    \/ AbortSub \/ CommitSub \/ Commit \/ Abort
    \/ ApplyOk \/ ApplyErr \/ ApplyEnd \/ ApplyPanic

Spec == Init /\ [][Next]_vars

\* The same with max_prepared_transactions > 0.
NextPrepared ==
    Next \/ PrepareTransaction \/ CommitPrepared \/ RollbackPrepared

SpecPrepared == Init /\ [][NextPrepared]_vars

-----------------------------------------------------------------------------
(***************************************************************************)
(* Properties.                                                             *)
(***************************************************************************)
\* Every variable has its type.
TypeOK ==
    /\ queue \subseteq Item
    /\ hooks \in BOOLEAN /\ armed \in BOOLEAN
    /\ open \subseteq SubIds /\ next_sub \in SubIds
    /\ applying \subseteq Ops /\ batch \subseteq Ops /\ failed \subseteq Ops
    /\ lost \in Nat
    /\ count \in 0..MaxOps
    /\ path \in [Ops -> SUBSET SubIds]
    /\ current \subseteq Ops /\ undone \subseteq Ops /\ prepared \subseteq Ops
    /\ committed \subseteq Ops /\ applied \subseteq Ops

\* The cache never executes an operation that was rolled back, with its
\* transaction or with a savepoint at any depth, released savepoints of
\* rolled-back ones included (register_hooks' four callbacks).
RollbackNeverApplied == applied \cap undone = {}

\* At every point of a transaction the queue holds exactly the operations that
\* would survive if it committed now: nothing rolled back, nothing missing,
\* nothing left over from an earlier transaction (HOOKS_REGISTERED re-armed
\* once per transaction).
QueueExact == Positions = current \ undone

\* An operation is applied only after its transaction has committed, and the
\* operations of the session reach the cache in the order they were issued.
AppliesInOrder ==
    \A p \in applied' \ applied :
        /\ p \in committed
        /\ \A q \in applied : q < p
AppliedInCommitOrder == [][AppliesInOrder]_vars

\* invalidations_lost is never below the number of committed operations that
\* the cache has not executed once the callback has returned: no invalidation
\* is lost silently (apply_queue, count_lost_invalidations).
LossCounted ==
    Ready => Cardinality(committed \ applied) <= lost

-----------------------------------------------------------------------------
(***************************************************************************)
(* The inductive invariant behind RollbackNeverApplied, QueueExact and     *)
(* AppliedInCommitOrder, by parts.                                         *)
(***************************************************************************)
\* The flag agrees with pgrx's callback map; without callbacks no queue.
HooksInv ==
    /\ hooks = armed
    /\ ~armed => queue = {}
    /\ prepared = {}

\* Ids of open subtransactions were handed out in this transaction, and the
\* outermost of them is the transaction itself.
NestingInv ==
    /\ InTransaction => Top \in open
    /\ ~InTransaction => current = {}
    /\ \A o \in open : o <= next_sub
    /\ \A p \in current : \A o \in path[p] : o <= next_sub

\* The id of an item tells which open subtransactions enclose it: those up to
\* it.  This is why comparing ids in on_abort_sub is right.
EnclosureInv ==
    \A i \in queue :
        /\ i.subxid <= next_sub
        /\ \A o \in open : o \in path[i.pos] <=> o <= i.subxid

\* Operations are numbered as they come, and a transaction's operations all
\* come after those of the transactions before it.
OrderInv ==
    /\ \A p \in current \cup undone \cup committed : p <= count
    /\ \A p \in committed : \A q \in current : p < q
    /\ \A p \in applied : \A q \in applying : p < q

\* What is applied or about to be was committed; nothing is both committed and
\* rolled back.
FateInv ==
    /\ applied \subseteq committed
    /\ applying \subseteq batch /\ failed \subseteq batch
    /\ batch \subseteq committed
    /\ InTransaction => batch = {}
    /\ committed \cap undone = {}

\* LossCounted, strengthened to the middle of a batch: operations neither in
\* the cache, nor waiting, nor among the failures to be counted at its end.
Unreported == (committed \ applied) \ (applying \cup failed)
LossInv == Cardinality(Unreported) <= lost

IndInv ==
    /\ TypeOK /\ HooksInv /\ NestingInv /\ EnclosureInv /\ OrderInv /\ FateInv
    /\ QueueExact
=============================================================================
