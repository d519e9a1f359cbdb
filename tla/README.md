# A TLA+ verification project for pg_resp

pg_resp is a Postgres extension with a Redis-compatible cache inside a
background worker: RESP clients talk to it over TCP, and SQL sessions reach the
same cache through functions and a trigger. This directory holds TLA+ models of
its parts, TLC configurations for small instances, and TLAPS proofs.

## 1. The system

| part | source (under `crates/`) | state | operations |
|---|---|---|---|
| store | `resp-store/src/lib.rs` | map of entries (value, deadline, clock bit), byte account, counters | GET, SET and its options, MSET, INCR, DEL, EXISTS, EXPIRE, PERSIST, TTL, GETDEL, GETEX, RANDOMKEY, KEYS, FLUSHALL; lazy expiry, sweep, eviction |
| SCAN cursors | `resp-store/src/scan.rs` | registry of snapshots | start, continue, expire, evict |
| protocol | `resp-proto/src/lib.rs` | none | parse and encode commands and replies |
| dispatch | `pg_resp/src/dispatch.rs` | authenticated flag per connection | one branch per command |
| event loop | `pg_resp/src/lib.rs` `server_loop` | connections with read and write buffers, poll registrations | accept, read, execute, flush, close |
| worker | `pg_resp/src/lib.rs` `background_worker_main` | server thread, watchdog strikes, shutdown flag | start, watch, stop, exit for a restart |
| client | `resp-client/src/lib.rs` | at most one connection, its read buffer | command, command_no_retry, probe, disconnect |
| SQL side | `pg_resp/src/sql.rs` | per backend: queue, callback flag, client; shared: lost-invalidation counter | resp.set, resp.del, resp.evict enqueue; resp.get and others read |

How they interact: one server thread owns the store and runs every command, so
commands are atomic and the hard parts are the loops inside a command, the
clock, and the order of events on sockets. A Postgres backend has its own
client and talks to the worker over loopback TCP. Writes from SQL are queued
and sent in the Commit callback, when the transaction can no longer fail; an
Abort or the rollback of a savepoint drops them. The worker's main thread
probes its own server with the same client and exits for a restart when it is
dead. A restart loses the cache and the cursors.

What is hard: time (deadlines pass between any two steps), nesting
(savepoints), two copies of one fact (`HOOKS_REGISTERED` and pgrx's callback
map; `want_write` and the poll registration), partial failure (a batch whose
third command fails after the commit), replies that come late, in part or never,
and retries of commands that were executed. `PROJECT.json` lists these hazards
line by line with the property for each.

What makes each part correct:

- store: the byte account is exact, the budget holds, eviction ends and spares
  the entry just written, and clients see a plain map with deadlines;
- cursors: a scan returns every key that was there throughout, within a bounded
  registry;
- client: a call returns, with the reply of its own command, and a command is
  executed at most as often as its mode allows;
- queue: the cache sees exactly the committed operations, in order, or the loss
  is counted;
- event loop: every reply is sent whole and in order, and a connection is closed
  only behind its replies, unless its client leaves, its handler panics or it has
  too many unsent bytes;
- worker: a dead or silent server thread leads to a restart within a fixed number
  of probes, a hiccup of a healthy one does not, and a shutdown ends;
- protocol and dispatch: a stream means the same however it is cut, both ends
  read what the other wrote, arguments mean what they say at every limit, and
  nothing reaches the store before AUTH;
- all of it together: a cache entry that no longer agrees with the table is
  about to be corrected, or `invalidations_lost` tells of it.

## 2. Modules

| module | models | TLC | proofs |
|---|---|---|---|
| `AbstractCache` | what the store promises: no bytes, no table order, entries gone at their deadline | as `CacheContract` | in `RespStoreProofs` |
| `RespStore`, `MCRespStore` | the store | `store`, `store_sweep` | `RespStoreProofs` |
| `ScanRegistry` | SCAN cursors and the clients that iterate | `scan`, `scan_unreliable` | `ScanRegistryProofs` |
| `CommitQueue` | one backend's queue, the transaction callbacks, `apply_queue` | `commit_queue`, `commit_queue_prepared` | `CommitQueueProofs` |
| `RespClient` | the client against an unreliable server | `client`, `client_retry` | `RespClientProofs` |
| `EventLoop` | the server thread and its connections | `loop`, `loop_quit` | `EventLoopProofs` |
| `Worker` | the main thread, its watchdog, the life of the server thread, the postmaster | in `system` | in `SystemProofs` |
| `System` | `Worker` composed with two backends, the cache and cache-aside readers | `system` | `SystemProofs` |
| `RespProto` | parsers and encoders of commands and replies | in `MCWire` | `WireProofs` |
| `Dispatch` | arguments, options, deadlines, the AUTH gate, replies | in `MCWire` | `WireProofs`, `AlgorithmProofs` |
| `Glob` | KEYS and SCAN patterns, and what they mean | in `MCWire` | `AlgorithmProofs` |
| `Session`, `MCWire` | a connection end to end in bytes; samples of the pure algorithms | `wire` | `WireProofs`, `AlgorithmProofs` |

Definitions keep the names of the code; `PROJECT.json` `map` gives the lines.
Definitions commented as "Faulty variant of" are mutations that the project uses
to check that its properties can fail; no specification refers to them.

**RespStore.** `map`, `used_bytes` and the three counters are the fields of
`Store`; `slot` is the iteration order of the HashMap, which decides what a
sample contains and may change whenever a key is inserted. A command is one
action. `evict_to_budget` is one step per turn of its `while`, with `protect`
set for as long as it runs, and `active_expire_sweep` collects `doomed` and
removes it key by key; nothing else is enabled meanwhile, as in the
single-threaded code. Deadlines are kept as ticks left. Sizes and number
formats are constants (`KeyLen`, `ValueLen`, `Parse`, `Render`). `AbstractCache`
is implemented under the mapping that hides entries whose deadline has passed.
Its `RandomKey` names an entry it has, as the code's comment promises; the code
may name an expired one, so `CacheContract` excepts exactly that step
(`ExpiredKeyNamed`).

**ScanRegistry.** A cursor is the set of keys not yet returned and its age. A
page is any subset of the right size, because the order of a snapshot is not
visible. `scans` records what each client has received (`seen`) and which keys
were live throughout (`stable`).

**CommitQueue.** Operations are numbered as they are enqueued; `path`, `undone`
and `committed` record what Postgres knows of them. `hooks` is the flag and
`armed` is pgrx's callback map: the two are separate variables because keeping
them equal is the code's job. `apply_queue` is one step per command; an error
leaves open whether the server executed the command. `lost` is the shared
counter, which exists when the library is preloaded. An observation: only the
AbortSub test (`subxid < my_subid`) matters for correctness: ids grow, so the
re-parenting in CommitSub never changes which items a later rollback drops
(`EnclosureInv` would hold without it), and the case its comment describes,
RELEASE followed by ROLLBACK of the whole transaction, is handled by the Abort
callback.

**RespClient.** A reply is two tokens so that it can arrive in part. `wire` and
`socket` are the two directions of the held connection, `orphans` counts the
copies of each command left on dropped ones, which the server may still execute.
A read may fail with the server alive: a signal interrupts it (EINTR), the error
is Io on an empty buffer and is retried, so a copy may be under way when the
second is sent. `kept` marks a connection that outlived a failed second attempt.

**EventLoop.** `conns` holds for each slot the server's `Conn`, the socket
between the two and the client; `server` is what the thread is doing and for
which connection. A step is a system call, a turn of the parse loop or a test,
so that clients act between any two of them. Commands and replies are two bytes
each, told apart by the number of the command, and a command is known by its
kind only: what it does to the cache is in `RespStore`. `event` is the
edge-triggered readiness epoll has still to report: new data, an end of stream
or room that was asked for sets it, `Poll` clears it, and a registration reports
at once what is already ready. `unarmed` marks a connection whose `accept` or
`reregister` failed; nothing in the code tries again. A slot is used for
connections one after the other, so a panic that outlives its own connection
shows in the next one. Events of several connections in one `poll` are turns in
any order. `received` and `owed` are for the properties, and so is `forced`: the
server closed the connection because its handler panicked or it had too many
unsent bytes, and not because it had finished with it.

**Worker.** `main` is where the main thread is, or what the postmaster does with
it: `backoff` after an exit with status 1, `stopped` after status 0. `thread` is
what the server thread does as its clients see it: serving, busy with a command
longer than the probe's timeout, wedged, or ended with its flag still to be set.
The probe is the client of `RespClient` reduced to what a PING can meet: `conn`
is the connection it holds and `attempt` the attempt it is in. `reachable` is
FALSE while new connections fail although the thread serves those it has: no file
descriptor is left, the backlog is full, or `accept` returns an error (`Clog`,
`Unclog`). A probe that dials then fails against a live server. `strikes` is
compared with a record kept from the server's side: `silence` counts the probes
begun since the thread last served, `clean` says that it could have answered the
running probe all the time, and `disturbed` counts the probes in a row of which
that is not true. An observation: the probe keeps its connection as long as it
is answered, so a server that answers it and accepts nobody new stays unnoticed.

**System.** A table row is a key and a version; `cache` maps keys to versions. A
transaction appears with its commit, because nothing before it is visible
(`CommitQueue` has that part), and changes one row under the `resp.evict`
trigger or together with a `resp.set`. Its callback then sends up to two
commands, one step each, while everyone else goes on. A command fails with its
execution left open: `late` holds those a busy server executes after their
client has given up. The cache dies with the server thread, the counter with
the cluster. `current` says whether an entry agreed with the table when it was
stored. Readers follow the cache-aside pattern of the demos and are external.

**RespProto, Dispatch, Session.** A byte is a string such as `"CR"` or `"$"`; a
word that contains none of the bytes the parsers look at counts as one byte, so
a command name is one byte and the lengths count these. Case folding is left
out. `Byte` is the set of bytes, of which the proofs know only that it holds the
framing and the texts of the replies. Loops are recursive functions: `Collect` is
the loop over the elements of an array, in a command as in a reply, and
`parse_reply` one function per level down to `MAX_REPLY_DEPTH`. `write_to` is
defined for arrays nested as deep as `dispatch` nests them (`Nesting`).
`read_line` and `Payload` stand for the code that parser and parser of
replies repeat. `dispatch` returns the set of possible outcomes, each a reply
and whether the store was called; the empty set is a panic (the addition of a
`Duration` that an `Instant` cannot hold). In `Session` an encoding client sends
a conversation, or a typing client sends arbitrary bytes; bytes arrive one by
one, and any number of them between two steps of the other side.
The assumptions on the constants are what the code's own limits satisfy: a length
within its limit fits an i64 and its header fits a line (`LimitsAssumption`), the
replies `dispatch` makes of its own are within them (`RepliesAssumption`), and an
encoding client stays within the limits (`SessionAssumption`).

**Glob.** `glob_match` and `match_class` follow the code, as functions of the
pattern that return a function of the key (of the match so far, in the loop over
a class). `Means` cuts a pattern into `Elements`, each a set of bytes or any text,
and asks whether the key can be cut into one piece for each (`Cuts`).

## 3. Runs

| run | instance | result |
|---|---|---|
| `store` | 3 keys; values "0", "1" and a long word; integers 0..1; budget 7, where a small entry takes 3 and a large one 8; samples of 2; deadlines up to 1 tick; 2 ticks per second | all properties hold |
| `store_sweep` | no budget, one value, sweeps of 2 out of 3 keys | `ExpiredReclaimed` is violated |
| `commit_queue` | 3 operations, 4 subtransaction ids | all hold |
| `commit_queue_prepared` | 2 operations, 2 ids, PREPARE TRANSACTION | `RollbackNeverApplied` is violated |
| `scan` | 3 keys, 2 clients, capacity 1, 3 ids, idle expiry 1 tick, COUNT up to 2 | all hold |
| `scan_unreliable` | 3 keys, lost replies, worker restarts | `NoStableKeyMissed` is violated |
| `client` | 3 commands, with AUTH | all hold |
| `client_retry` | 3 commands, no AUTH | `ReplyMatchesCommand` is violated |
| `loop` | 2 connections in turn, 2 commands each of any kind, a socket of 1 byte, at most 3 pending bytes, prefixes reclaimed from 2 bytes | all hold |
| `loop_quit` | the same with 1 connection | `NothingAfterQuit` is violated |
| `system` | 2 keys, 2 backends, 1 reader, 3 versions, 2 strikes, 2 faults | all hold |
| `wire` | 74 commands after a right, a wrong and an empty password; 4 bytes typed out of 8, after 6 openings; patterns of up to 4 bytes out of 9; up to 4 options out of 10 words; every amount up to i64's limit, here 99 | all hold |

Why the bounds are enough. *store*: two small entries fit and a third one
starts the eviction loop; a large entry is over budget on its own, which is the
`break`; a sample of two out of three keys leaves one unseen; integers 0..1 make
both overflows and both results reachable; one tick is enough for an entry to be
live, then expired and still in the map. The statistics and the last reply grow
without bound and nothing reads them, so `View` hides them; the action properties
that mention them are evaluated on every step. *commit_queue*: three operations
in up to four subtransactions give release inside rollback, rollback inside
release, siblings that reuse a level, and three transactions in a row. *scan*:
with three keys a snapshot has two left after its first page, so a continued
cursor is kept and continued again before its last page; with room for one cursor
and two clients that may abandon scans every scan can push out a running one;
idle expiry 1 gives fresh and stale cursors. *client*: a
held connection needs a first command, the retry a second, and a late reply a
third. *loop*: a reply of two bytes never fits into a socket of one, two unsent
replies exceed the limit of three, one sent reply in front of another reaches
the reclaim size, and the second connection follows every end of the first.
*system*: two keys let a row change its key, two backends cross, three versions
give an entry that is replaced twice; two strikes are one that is forgiven and
one that is not; two faults are a fault and another during the recovery from it.
*wire*: every arm of `dispatch` is reached in its right and its wrong forms, with
values that contain framing, a command behind it to show that the stream is
still in step, and amounts of which some overflow `Instant` and some saturate;
lines longer than the limit of four bytes can be typed and then ended; four
bytes of pattern hold a negated class, a range in either order or an escape
inside a class. A sample is a behaviour of one state beside the sessions.

Fairness. The thread that runs a command finishes it and the event loop calls
the sweep on every turn, with or without traffic (`RespStore`). A client in the
middle of an iteration asks for the next page (`ScanRegistry`). Every socket
call of the client returns, at the latest when it times out, and nothing is
assumed of the server (`RespClient`). The server thread goes on with what it
does, every accepted or waiting connection with an event gets its turn, because
`poll` returns all of them and the loop goes through the list, and a client that
has not gone away reads what reached it (`EventLoop`; a client that never reads
rightly keeps its reply pending). `CommitQueue` has no liveness property. In
`Worker` the main thread (the latch times out, socket calls of the probe time
out, the postmaster restarts after `bgw_restart_time`) and the server thread
unless wedged (its poll times out, a long command ends) go on; nothing is assumed
of when a server can be reached again, nor of backends and readers.

Deadlock is checked in every run except `system`, where faults and versions are
used up and a worker may have stopped, and `wire`, where a session ends and a
sample takes no step.

## 4. What the violations show

1. `store_sweep`: a sweep always looks at the first entries of the table. With
   enough live ones in front, an expired entry is never reclaimed without a
   read, a write or a delete.
2. `commit_queue_prepared`: PREPARE TRANSACTION fires neither callback. The next
   transaction of the session applies the queue, even if the prepared one is
   rolled back.
3. `scan_unreliable`: a SCAN whose reply is lost has moved the cursor, so the
   same call made again skips a page. The client library treats SCAN as
   idempotent and repeats it. After a worker restart ids start at 1 again, so an
   old cursor can also hit another scan's snapshot.
4. `client_retry`: the error of a second attempt does not discard the
   connection, and a late reply is taken for that of the next command.
5. `loop_quit`: when the reply of a QUIT has to wait for room in the socket, the
   next readable event parses on behind it. The commands there are executed.

Each has an entry in `PROJECT.json` `findings` with the lines that say otherwise.

The properties of `store`, `loop`, `system` and `wire` hold with exceptions that
they name. What the exceptions are:

- RANDOMKEY removes the first entry of the table if it has expired and returns the
  next without a look at its deadline, so that it can name a key that GET, EXISTS
  and KEYS say is not there. resp-store/src/lib.rs:396-397 says it "takes the
  first live entry". Strictly, then, the store does not implement `AbstractCache`
  (`CacheContract`, whose exception is `ExpiredKeyNamed`).
- An end of stream closes the connection at once (pg_resp/src/lib.rs:730), although
  it says only that the client has finished sending. A client that reads on loses
  the replies still pending, that of a QUIT among them, and commands that arrive
  in the same event as the end of stream are read and never executed. Lines
  475-477 say of a closing connection "close as soon as the pending reply has been
  flushed, never before, or the client loses the answer it is still waiting for",
  and 793-794 that the tail of a reply must never be abandoned (`RepliesExact`,
  `RepliesFlushed`, whose exception is `Forfeited`). Every other close, but for a
  panic or too many pending bytes, is shown to come behind the replies.
- Two backends can apply their SETs in the opposite order of their commits, and a
  reader can store a row it read before a commit. The entry is then outdated with
  `invalidations_lost = 0` until it is evicted, expires or changes again, while
  docs/semantics.md 3.2 speaks of staleness bounded by the commit. Deletes, which
  is all `resp.evict` queues, cannot cross in this way (`StaleOnlyIfCounted`).
- A worker whose bind fails exits with status 0 and is not restarted; a SIGTERM
  that arrives during the last failing probe is lost, because the process exits
  with FATAL and is restarted; the join at shutdown has no timeout, so a wedged
  thread keeps the process (`ServiceReturns`, `StopCompletes`).
- A live server is restarted, and its cache lost, when for that many probes in a
  row it was in a long command, could not accept, or lost the probe's connection.
  No other live server is (`HealthySpared`), and a thread that does not serve is
  gone after at most that many probes (`SilenceNoticed`).
- The error replies for an unknown command and an unknown CLIENT subcommand
  repeat bytes of the request. A CRLF in them, or more bytes than a line may
  have, breaks the framing of the reply, although resp-proto/src/lib.rs:33-35
  says of such texts "callers only ever construct these from static strings,
  never wire-derived data" (`RepliesFramed`).
- The length of an inline line is tested only while its CRLF is missing. A line
  that arrives whole is taken at any length, so ECHO can be asked for a reply
  longer than the client's parser accepts (`RepliesFramed`).
- "Malformed input that can never become valid by reading more bytes"
  (resp-proto/src/lib.rs:127) is not true of a line that is too long without its
  CRLF: with the CRLF it is parsed. The server closes either way
  (`OutcomeStable`).
- An expiry in seconds near the limit of i64 panics in `dispatch`, which the fence
  turns into a closed connection; dispatch.rs:8 says the function must never
  panic. `DeadlineExact` shows that nothing smaller does.

## 5. Proofs

Checked by TLAPS for every value of the constants that satisfies the named
assumptions; no theorem is about particular values of them.

- **RespStoreProofs.** `IndInv` is the type invariant, `LoopInv` (a running loop
  works on entries that are in the map, and only one loop runs) and `BudgetInv`
  (the budget property in every state outside the eviction loop, during sweeps
  too). `BudgetHeld` alone is not inductive because a sweep or a loop step starts
  from a state it says nothing about. The argument for the loop: if a pass finds
  no candidate then, because it samples at least two entries
  (`SampleAssumption`), the table holds the protected key only. From the
  invariant follow `TypeCorrect` and `BudgetRespected`, and the action properties
  `ProtectedWrite` and `SecondChanceGiven`.
  `AccountExact` says that `used_bytes` is the library's sum over the map, and
  `AccountCovers` that the unchecked `-=` of the code never underflow. A sum is
  characterised by its equation (`IsSum`: 0 for the empty set, and any element may
  be split off); induction over the subsets of a finite set, by a smallest
  counterexample (`SubsetInduction`), gives that it exists, that weights which
  agree have the same sum, and that the recursion behind `MapThenSumSet` computes
  it whatever element it takes first. Every step then either changes the weight of
  one key and books the difference (`Books`) or no weight at all (`Keeps`). The set
  of keys is finite (`SizeAssumption`).
  `CacheImplemented` is the refinement: under the mapping that hides expired
  entries every step of the store is a step of `AbstractCache` or a stutter, or a
  RANDOMKEY that names an expired entry, for every table order and sample. A command, with the lazy removal in it, is the
  abstract command; a turn of a sweep and the end of an eviction loop are stutters;
  an eviction is the abstract eviction, and a tick the abstract tick. The proof
  rests on `IndInv` and on `DoomedInv`: what a running sweep has still to remove
  has expired, because nothing else runs in between. `SentinelAssumption` keeps the
  markers for "nothing" apart from keys, values and abstract entries.
- **CommitQueueProofs.** The centre of `IndInv` is `EnclosureInv`: the id of a
  queued item tells which of the open subtransactions enclose it, namely those up
  to it. That makes `subxid < my_subid` the right test and gives `QueueExact`;
  with `FateInv` (what is applied was committed) it gives `RollbackSafe`, with
  `OrderInv` it gives `CommitOrder`. `NoSilentLoss` needs in addition `LossInv`,
  the counting property in the middle of a batch.
- **ScanRegistryProofs.** `OwnershipInv` (ids are handed out once, so no two
  running scans share a cursor) and `CoverageInv` (the stable keys a scan has not
  returned are still in its snapshot, or live if the snapshot was dropped) give
  `StableKeysReturned`. `PagesProgress` is the action property `SnapshotsShrink`:
  a page returned to a client takes at least one key off its snapshot
  (`PageNonEmpty`, from COUNT being at least 1 and a snapshot never being kept
  empty; `HitShrinks`), and no other step touches a snapshot except to drop it
  (`OthersKeep`). `RegistryTypes` and `RegistryWithinCapacity` need neither:
  the capacity follows from the test before an insertion, so both also hold of
  the specification with lost replies and restarts (`UnreliableRegistry`), where
  `NoStableKeyMissed` does not.
- **RespClientProofs.** `AtMostTwice` counts executions, so the invariant also
  counts what can still be executed: `Copies(c)` is the executions of `c`, the
  copies of it left behind on dropped connections, and one if it is on the
  connection. `CopiesInv` bounds it by the mode of the command, `AttemptInv` says that a
  first attempt has left no copy before it sends and at most one after, and
  that an unsent command is not in flight. `HeardInv` ties a retry to the empty
  read buffer, `ConnectionInv` the phases to the connection. `ExchangeInv` says
  what is on a connection between two steps: at most the request or at most the
  two tokens of the reply, both of the pending command; it excepts `kept`, a
  connection that outlived a failed second attempt. It gives `Synchronized` and
  `OwnReplyReturned`: a call that returns a reply returns its own, except on a
  `kept` connection. The run `client_retry` shows that exception, so it is the
  only way to another command's reply.
- **EventLoopProofs.** `ConnInv` holds of each connection: nothing is parsed that
  was not read nor read that was not sent, a closed connection has no buffer,
  and `Exact`: received, in flight and unsent bytes are together what is owed, and
  a prefix of it only once the connection has ended with its replies forfeited
  (its client has left or finished sending, or the server had to close it). `ServerInv` says where the
  buffer limits hold while the thread works: for every connection it is not
  serving, after the test of the limit, and again from the reclaiming of the sent
  prefix on. `BufferBounded` is not inductive by itself because the buffer grows
  beyond the limit between the parse loop and that test.
- **SystemProofs.** The worker first. `WatchInv` ties the count to the server's
  record from both sides: the probes begun in a silence are counted as strikes
  but for the running one, and every strike is a disturbed probe. For the second
  it needs that a probe that is still clean finds its connection or gets a new
  one. `WatchdogNotices` and `WatchdogSpares` follow, and
  `SystemRunsWorker`: every step of the composed system is a step of the worker
  or leaves it alone, so that they hold there as well. `StaleOnlyIfCounted` is inductive key by key (`Told`) with the types: a
  commit that makes an entry stale leaves a pending delete or set of that key in
  its callback (for a changed key column, of both keys), and that command is
  executed, counted, or lost together with the cache.
- **WireProofs.** The wire in bytes, for every set of bytes, limits and cuts of the
  streams. The functions that parse and write are first shown to exist
  (`Recursion` for those defined along the numbers) and typed. Then, level by
  level from `read_line` to `parse_reply`, what a parser has found in a buffer
  it finds in every longer one (`...Settles`), which is `OutcomeStableHolds`. A
  number is read as it was written, by induction over its size, and from that,
  again level by level, an encoded command or a reply is: on a buffer that holds
  a part of it the parser waits, and with all of it returns it and stops behind
  it (`Reads`). `NothingBeforeAuthHolds` needs `AuthBehind`: an authenticated
  connection, too, has an AUTH with the password behind it. The invariant of the
  command stream (`InStep`) says that what the server holds and what is under way
  are together the encoding of the commands not yet executed; it gives
  `CommandsExactHolds`. For `RepliesFramedHolds` the same is said of the replies, as
  long as every one of them is of a form the client can take (`Framed2`), and
  every arm of `dispatch` is shown to make such a reply unless it repeats bytes
  that break a line or the command did not fit the limits.
- **AlgorithmProofs.** The pure algorithms against their references.
  `DeadlineExactHolds` follows the arithmetic, saturation included, by cases.
  `OptionsAgree` holds of every list of arguments, of any length: the loop of
  `parse_set_options` has, after each turn, either refused a list that no reading
  fits or found the only set of positions that can be amounts (`AmountsTo`) and
  what the others say (`Says`); `Reached` is that invariant. `GlobExact` holds of every
  pattern and key: functions that are defined from their values at shorter texts
  exist and are unique (`Descends`, `Fixpoint`, `SizeInduction`), the loop over a
  class finds what the class means (`LoopMeans`), one more element cuts one more
  piece off the key (`CutsByte`, `CutsText`), so `glob_match` satisfies the
  equation that what patterns mean satisfies (`GlobMeans`). `SetOptionsAgreeHolds`
  and `GlobAgreesHolds` are their instances at the samples of the run.

Induction in these proofs is over sets of numbers: the set of those for which a
statement holds, or fails, is named, and a non-empty set of naturals has a least
member (`LeastNat`, from the library's well-foundedness of `<`). The library's
induction theorems take the statement as an operator, which the provers cannot
instantiate.

Only model-checked: the liveness properties (`EvictionEnds`, `CachedScanEnds`,
`CommandReturns`, `RepliesFlushed`, `CommandsTaken`, `ServiceReturns`,
`StopCompletes`), because fairness and ENABLED are out of the prover's reach.
Every other property of a passing run has a theorem. The counterexamples of
section 4 are TLC's.

## 6. Plan

All components are modelled and all safety properties of the passing runs are
proved. Worth doing next:

1. The strengthening of `OwnReplyReturned` into a refinement of an abstract
   client that sends a command at most twice and returns its reply.
2. A composition of `EventLoop` with `Session`, so that the buffers and partial
   writes of the one carry the bytes of the other; each is proved on its own.

## 7. Not modelled

GUC declarations and the extension's SQL, the text of column values, INFO and
error messages, log output, the DEBUG command of test builds, the demos, the
benchmark harness and the tests. A write of the client that times out in the
middle of a command is taken as not sent. What differs is a connection kept by a
failed second attempt, where the server would read the next command as the rest
of that one; `Synchronized` and `OwnReplyReturned` except such a connection.
Multi-key commands are runs of their single-key
body, and hash-table growth is any reordering at an insertion. The wrap-around
of the 64-bit cursor id and of `used_bytes` is beyond any run.
