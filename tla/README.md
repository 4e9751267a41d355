# tangle in TLA+

tangle is a Nostr relay with NIP-29 groups (Rust, crates `tangle_groups`,
`tangle_protocol`, `tangle_store_pocket`, `tangle_runtime`, `tangle`).  This
directory models its group service, live delivery, message handling, admission,
limits, host and backups, checks the models with TLC on small instances and proves
the safety properties of each of these parts with TLAPS, for instances of any size.

Paths below are relative to the repository; `groups.rs`, `session.rs`, `runtime.rs`,
`host.rs`, `config.rs` and the other files without a directory are in
`crates/tangle_runtime/src`; `projection.rs`, `policy.rs`, `read_gate.rs`,
`outbox.rs`, `signing.rs` and `metadata.rs` in `crates/tangle_groups/src`.

    tlc -workers 2 -config Recovery.cfg MCGroupService
    tlc -workers 2 -config Host.cfg MCHost
    tlapm LiveDeliveryProofs.tla

`PROJECT.json` maps every definition to the lines it models and lists components,
runs, mutants, findings, hazards and theorems.

## 1. The system

| component | state | operations | modelled in |
|---|---|---|---|
| group projection (`projection.rs`) | group, members, tombstones, deletions, each with the tuple (created_at, id, offset) that last set it | apply an event, rebuild from a log | GroupProjection |
| write policy (`policy.rs`), read gate (`read_gate.rs`) | none; they read the projection and the configured owners and admins | accept a client's event, show an event to a reader | GroupPolicy |
| group outbox (`outbox.rs`, `signing.rs`) | records keyed by source event and effect, with status and payload | plan, merge, replay order, mark | GroupOutbox |
| group service (`groups.rs`) | projection and outbox in memory behind one lock; log, projection rows, checkpoint, outbox table in the store | store a client's event, materialize effects, open | GroupService |
| Pocket store (`crates/tangle_store_pocket`, external database) | event map, id index, extra tables | store, look up, scan, put and delete rows, sync | inside GroupService, Query, Backup, Host |
| event bus (`event_bus.rs`) | a broadcast channel of store offsets | publish, receive | LiveDelivery |
| sessions (`session.rs`, `relay/live.rs`) | subscriptions, permits, authenticated keys, outbound queue, place in the bus | EVENT, REQ, CLOSE, AUTH, COUNT, fan-out, send, end | LiveDelivery |
| formats (`crates/tangle_protocol`, `client_message.rs`, `pocket_conversion.rs`, `metadata.rs`) | none | two parsers of messages, JSON, conversions, metadata tags | Protocol, Messages |
| queries (`relay/core.rs`, `relay/filter.rs`, `runtime.rs`) | none; they read store and projection | REQ, COUNT, hooks of an embedding program | Query |
| admission and metrics (`runtime.rs`, `relay/core.rs`) | counters | charge limits, check, look up, store, count | Admission |
| authentication (`relay/auth.rs`) | challenge, keys of a connection | challenge, AUTH | Admission, LiveDelivery |
| rate limits (`rate_limits.rs`) | hits per key and window, shared | record | RateLimits, Admission |
| resource limits (`resource_limits.rs`) | counters of connections and subscriptions of the host | take and drop permits | ResourceLimits, Host, LiveDelivery |
| host and tenants (`host.rs`, `tenant.rs`, `server.rs`) | opened tenants, shutdown signal, connections | load, open, bind, route, upgrade, shut down | Host |
| configuration (`config.rs`, `tenant.rs`) | documents | parse and validate | HostConfig |
| NIP-11 and operations (`nip11.rs`, `ops.rs`) | none | document, readiness, inventory, metrics | Host |
| backups (`backup.rs`, `portable_backup.rs`, `export.rs`) | files | create, verify, restore, copy, export | Backup, GroupService |
| command line, logging, cryptography, benchmarks, test support | none that other parts decide by | | no |

How they work together.  The host loads its documents, opens the active tenants and
binds.  A request is routed to a tenant by host name; an upgrade takes a permit and
starts a session task.  The session parses a message and hands it to the runtime,
which charges the rate limits, checks the event and stores it.  A group event goes to
the group service, which under its write lock
checks it against the projection, stores it, applies it, writes the projection
rows that changed, plans the relay-signed events it calls for as outbox records
(39000 metadata, 39001 admins, 39002 members, 9000/9001 for join and leave
requests), writes the records, stores and applies the generated events, and marks
the records.  Every write is a transaction of its own.  With the lock released the
runtime publishes the new offsets on the bus and the session queues the OK.  Every
other session takes the offsets from the bus, matches them against its
subscriptions and asks the read gate under the lock.  A REQ is answered from the
store and subscribes afterwards.

On opening, the service loads rows and checkpoint and replays the events after the
checkpoint (or rebuilds from the whole log in tuple order), rewrites the table and
the checkpoint, loads the outbox table, plans the records of *all* client events
again, merges them, and works off what is not stored.

What is hard here:

* the process may end, or one write may fail, between any two transactions of an
  operation or of the opening;
* created_at is the client's and ids are hashes, so events arrive in another order
  than the tuples by which the projection decides;
* effects are planned twice, live and on opening, from projections that saw the
  events in different orders;
* connections charge one limiter, take permits of one counter and look an event up
  before they store it, with nothing held in between, by a clock that may go back;
* one text is read by two parsers, and limits, redaction and hooks each touch the
  result of a query;
* backups run beside a relay that writes, and may be killed between two files;
* offsets are published after the lock is released, REQ queries before it
  subscribes, membership changes between storing and delivery, and the bus and
  the queues are bounded.

## 2. Modules

**GroupProjection** - events, order tuples, `Apply` (apply_canonical_event with one
operator per kind), `Rebuild` (rebuild_group_projection, as a recursive function
over the events sorted by tuple).  One group: nothing in the code relates two
groups.  An id is a rank among hashes; `GenId` gives the rank of a generated event
from its content and is a constant, so no fact depends on a particular hash.

**GroupPolicy** - `CheckEvent` (check_event and the runtime's constraint on delete
targets) and `Visible` (screen_event), for every client kind and any set of keys.

**GroupOutbox** - effects, keys, `Plan`, `Clashes` (merge_idempotent's error),
replay order.

**GroupService** - the state machine.  One action is one store transaction with the
in-memory work up to the next.

| action | code |
|---|---|
| `Submit` | check, store, apply, plan (groups.rs:251-333) |
| `SubmitFails` | the sync after storing fails: stored, not applied (groups.rs:268) |
| `Duplicate` | sent again: answered OK true as it is (groups.rs:260, relay/core.rs:1190) |
| `PutRow` | one row of persist_group_projection |
| `MergeRecord`, `RecordsMerged` | merge and persist each record |
| `StoreGenerated` | next record of the replay plan; store and apply its event, or find it stored |
| `MarkStored`, `MarkFailed`, `Finish` | the record's new status; the OK |
| `Open`, `ReplayEvent`, `StartClearing` | from_config: checkpoint, rebuild or replay |
| `ClearRow`, `TableCleared`, `PutCheckpoint` | persist_group_projection_snapshot |
| `DeriveEvent`, `RecordsDerived` | derive_missing_outbox_records |
| `...Fails` | the same write returning an error, without effect or (FlushOnWrite) after it, with the code's error path |
| `MergeRecordClashes` | the opening fails: pc = "broken" |
| `Crash`, `Shutdown`, `Upgrade` | the process ends; a new version refuses the checkpoint |
| `RestorePortable` | the store is replaced by its restored portable backup (in `MovedSpec`) |

Operations hold the write lock from check to result, so they are sequential in the
model; what interleaves is the end of the process and single failed writes.  Memory
and control are reset when the process ends.  The adapter writes and then syncs
(`tangle_store_pocket/src/lib.rs:197`), so under flush_on_write a write may return an
error and have taken effect: every `...Fails` has both outcomes.  Three variables are
history: `acked`, the events answered OK, by `Finish` or as a `Duplicate`; `errored`,
those answered with an error since the service opened; and `missed`, the offsets that an
event was stored at without being applied, which end with the process.

**LiveDelivery** - sessions as parallel tasks, each doing one thing at a time
(`phase`).  The group service is one atomic `Store` with the membership it leaves,
because of its lock; `Publish` is one offset at a time after it.  `StoreFails` is
the error after the source event was stored: its offset is never published (and the
client's retry is a duplicate, which publishes nothing).  `Query` and `AnswerReq`
are the two halves of handle_req around its await.  `CloseLagging`, `CloseFull`,
`Disconnect` end a session; a queue takes all messages of an answer or the session
is closed.  `Readers` are the sessions whose clients go on reading; the task of any other
may be held up in a write to its socket, for ever.  `Reply` is every message that changes nothing but the queue.
`seen`, `withheld`, `lost` and `told` are history.

**Protocol** - scalars, tags, addresses, events, filters and messages of
`tangle_protocol`, their JSON and what its parsers accept.  A text is its name, its
length and its classes of characters; a JSON value is tagged with its type, and the
values nested in one are gathered depth by depth (to `JsonDepth`, at which the parser
gives up).  No module declares a RECURSIVE operator: recursion is a recursive function
or a fold.

**Messages** - the runtime's own parser (`client_message.rs`) with its representation
of absent bounds, `BaseRelayLimits`, the classifier of broad queries, the class and
structure of group events, group metadata and its tags, and the conversions between
the two representations.

**Query** - from a text to its answer: `Parse`, `HandleReq`, `HandleCount`,
`HandleNegentropy`, and `Fanout` to the subscription a REQ leaves.  The store does not
change; the embedding program's hooks may plan, suppress, replace or add.  A scan is a
set of offsets, cut by `LimitOf` to those with fewer than limit better ones; what the
code keeps in sorted vectors and hash sets (`SortAndDedupe`, `EachOnce`) is described by
the result: in the order of created_at and id, each event once.

**RateLimits** - `Record` of one key (`Hit`, `Reject`).  The time is the caller's.

**ResourceLimits** and **PermitPool** - the compare-and-exchange loop, a step per
access to the counter, and what it promises: at most Limit permits, and a refusal only
at a moment when all are out.  The refinement mapping takes the decision to refuse to
be made when the counter is read (`RefusedCallers`), since permits may come back before
the caller acts on it.

**Admission** - connections whose messages interleave at each access to the limiter
(`Charge`, `Limited`) and the store (`LookUp`, then `StoreEvent`); `Authenticate`,
`AuthFails` and `AuthRefused` are the three ends of an AUTH; the counters of
`TangleRuntimeMetrics` change where the code changes them.  It extends Messages and
RateLimits; the group policy's verdict is a choice here, being GroupService's subject.

**HostConfig** - every check of the documents, of names and of the constructors that
run when a tenant opens.

**Host** - the main task (`LoadConfig`, `OpenTenant`, `Register`, `Bind`,
`ServeReturns`, `FlushTenant`, `Stop` and the failures), handlers (`Request`,
`TakePermit`, `TooMany`, `OpenSession`, `Upgrade`) and sessions (`StoreEvent`,
`PeerGone`, `SessionSeesShutdown`), with `Readers` as in LiveDelivery.  It composes HostConfig and ResourceLimits.  axum
is external: it accepts requests until the signal is set, serve returns when no
handler is at work, and it does not wait for upgraded connections.  Tenants are the
positions of their documents, opened and flushed in this order.

**Backup** - portable backup and restore, directory backup and restore, and export, a
step per file or line, each command a process beside the relay, whose own write is two
steps (map, then index).  An export checks its path, scans, creates (and empties) the
file and writes, each a step, at a position of its own in the file (`WriteAt`).  Nothing
keeps two commands that write in place from one path; `damaged` records that a second
one began while another of its kind was at work (`Races`).  A file is copied in one step:
a copy of the index torn by a write of the relay is not represented, the copies of map
and index being two.  `Fail` is a failed operation or a killed process.
`LosePortableTail`, `AlterPortable` and `DamageBundle` damage finished files; the
first also between the verification and the reading of a restore.

**MCGroupService**, **MCLiveDelivery**, **MCQuery**, **MCAdmission**, **MCHost**,
**MCBackup** - the constants of the runs.

**GroupServiceProofs**, **GroupAccessProofs**, **GroupOutboxProofs**,
**LiveDeliveryProofs**, **QueryProofs**, **AdmissionProofs** (with RateLimits),
**HostProofs** (with ResourceLimits), **BackupProofs** - theorems, section 4.

Definitions marked "Mutation:", and those whose comment describes a mistake, are wrong
variants of the definition that follows, kept to show that each property notices a
plausible mistake in it.

## 3. Runs

| run | instance | checks |
|---|---|---|
| recovery | in order, 3 client events and duplicates, all kinds but notes, 2 crashes and 1 failed write anywhere, without effect or by its sync, stops, upgrades | AckedIsComplete, LiveMatchesRebuild, MembershipFollowsRequests |
| disorder | any order of 2 times, ids below and above generated ones, 3 events, notes, deletions, 1 crash, no failed write | NoWriteAfterTombstone, DeletedStaysHidden, MembersAreLatest, StoredOnce, OutboxNeverRegresses |
| restart | fairness, in order, 3 events, 1 crash or move to another store | TypeOK, ReopenSucceeds, EffectsEventuallyStored, Reopens |
| live | a private group, one publisher, one subscriber, bus of 1, queue of 2, 3 events, 1 failed operation | NoGap, OnlyReaders |
| sessions | fairness for clients that read, one publisher, two subscribers, one subscription per connection and for the host, 2 ids | TypeOK, PermitsMatch, CatchesUp |
| host | fairness for clients that read, 43 configurations at the edges of the checks, 2 active tenants, 2 connections for 1 permit, 8 requests | HostTypeOK, PermitsAreConnections, ReadyServes, FlushedAtStop, ImplementsPool, RoutedByName, Drains |
| messages | a language of filters, pairs of filters, events and metadata around every limit; 11 stored events, 4 readers, 3 sets of hooks | ParsersAgree, WrittenReadsBack, AnswerIsNewest, CountIsExact, HooksCannotLeak, AnswerBounded |
| admission | 2 connections, 2 messages of 17, 2 readings of the clock in any order, 1 fault | BurstBound, NoBorrowedIdentity, OnlyAuthorsStore, AcceptedIsStored, MetricsAddUp |
| backup | 2 processes, 2 commands, 3 writes, 2 faults, events that replace each other, limits that some logs exceed | PortableIsWhole, RestoredIsBackup, UnpackedIsUsable, ExportIsWhole, FinishedStays |

What the newer runs show, beyond the old ones:

* **host** - a connection's permit is returned on every path, and the limiter refines
  PermitPool.  No accepted configuration starts a host that is ready and cannot serve,
  with one exception the invariant names: a challenge_ttl_seconds of zero passes
  `config.rs` and is refused by `BaseAuthState::new` in every session, so all
  connections of that tenant are answered 500.  (Ready means that connections are
  served.  A default_limit above u32::MAX is accepted too; sessions then open, and their
  queries that leave the limit out fail.)  A shutdown ends, sessions that are just being
  opened included where their clients read, and everything stored before it was requested is synced when
  the host says it stopped.
* **messages** - for every text of the language, both parsers agree with a direct
  reading of the JSON (`Says`), REQ answers the newest readable events, COUNT is exact
  and its estimate covers public events only, whatever hooks do nothing unreadable
  leaves the relay, and the answer of a REQ stays within max_query_complexity (what is
fanned out later is not counted by the code, and a hook may add to it).
* **admission** - the limits hold as a bound on bursts under any clock, an
  authentication replayed on another connection gives no key, an event sent by two
  connections at once is stored once (one sender gets a NOTICE), and the counters add
  up at every moment.
* **backup** - what a portable command publishes is whole and stays, also when two race
  for one path.  A restore from a directory backup that reports success is usable unless
  the relay wrote while the files were copied; this, and that finished bundles and
  exports stay, is excepted where two commands of one kind began at once: without the
  exception TLC finds that the second empties the export the first has finished.

Two facts about failures bound what *recovery* claims.  AckedIsComplete and
MembershipFollowsRequests except the events in `errored`: a client that was answered
with an error may send the event again and hear OK while its effects are missing.
LiveMatchesRebuild excepts a service with `missed` events.  Both end with the next
opening, and the run shows that they do.  MembersAreLatest, StoredOnce and the others of
*disorder* are run with crashes only; that failed writes do not break them is shown by
their theorems.

Three runs show where the code does not do what its own tests or names say:

* **backdated_reopen** (ReopenSucceeds).  Accepted client events whose created_at
  is earlier than one already stored make the next opening fail.  Records are
  planned again in tuple order; a member list comes out differently and
  merge_idempotent refuses it.  Nothing repairs the store afterwards: every further
  opening fails alike.  With events in order, one failed write of a generated put-user
  or remove-user does the same (groups.rs:433): it is stored by a later retry, with
  its source's created_at, after other records were planned without it.
* **interrupted_snapshot** (RebuildAssertion).  The projection table is cleared and
  filled while the previous checkpoint vouches for it.  If the process ends in
  between, the next opening takes the rows left and the events after the old
  checkpoint, and what the lost rows said is gone.
* **repeated_req** (ClosedIsClosed).  A REQ that is refused under the id of an open
  subscription is answered CLOSED, and the old subscription goes on delivering.

Because of these, *recovery* and *restart* submit in order, *recovery*, which has a
failed write, does not claim ReopenSucceeds, and all passing runs and the access
theorems set `SnapshotInterrupted` to FALSE: neither a crash nor a failed write happens
while the table is rewritten over an older checkpoint.  (A rewrite without a
checkpoint, on the first opening, after an upgrade or a move, is interrupted in all of
them.)

Observations without a run.

* A delete-group event older than the creation leaves lifecycle "deleted" in memory
  and "active" after a rebuild; access does not depend on it, since every check also
  looks at the tombstone (run disorder, theorems TombstoneFinal and DeletedHidden),
  which is why LiveMatchesRebuild is only claimed in order.
* A create-group or edit-metadata event whose metadata does not parse (a name over 128
  bytes, two supported_kinds tags) passes `check_event` and is stored (groups.rs:268)
  before `apply_canonical_event` fails on it (projection.rs:693); rebuild and replay
  then fail on it at every later opening.  GroupService submits only metadata that
  parses.
* An event whose first try failed is answered "duplicate", OK true, when it is sent again
  (groups.rs:260, relay/core.rs:1190); a join is then acknowledged and the user no member
  until a later operation of the group or the next opening works its record off (only the
  next opening, if no record was planned).
* Under flush_on_write a failed sync leaves the event stored and memory without it
  (groups.rs:268, 473).  Sent again it is a duplicate, a generated one is found stored and
  marked without being applied (groups.rs:470), and the policy decides by a projection that
  lacks it until the next opening.
* Two exports, or two directory backups or restores, that find their output free at once
  overwrite each other (export.rs:64-86, backup.rs:317): the manifest of the first then
  stands beside a file that is no longer the one it describes.
* The host's sessions have no keepalive (server.rs:132), so a write to a socket has no
  timeout (session.rs:614).  A client that stops reading blocks its session for ever: it
  keeps its permits, is neither caught up nor closed, and does not see the shutdown.
* A store error after the source event was stored means that no live subscriber ever
  hears of that event; NoGap excepts exactly these (`lost`).
* All replies of a REQ are queued before any is sent, so an answer longer than the
  outbound queue closes the session: config/tangle.example.json has max_limit 500 and
  a queue of 256.
* `tangle run` never requests a shutdown, so flush_on_shutdown is only reached by a
  program that embeds the host.  A tenant whose sync fails ends the loop over the
  others (FlushFails).
* The limiter's entries are only dropped by retain_active, which a test alone calls.
  With a clock that goes back, calling it would break BurstBound: an entry dropped as
  expired opens a new window at an earlier time.
* A challenge is issued once per session; after its ttl a session can no longer
  authenticate.
* The gauge event_bus_receivers is a load and then a store; two sessions that end at
  once can leave it too high.
* An event the relay appended and did not index before it ended is in every scan.  Sent
  again, it is twice in the log, and the portable backup is refused as a duplicate; an
  older version after the newer one gives a backup that verifies and cannot be
  restored.
* A portable restore verifies the file and reads it again: lost lines are caught by the
  count, an alteration in between that keeps the number of valid lines is not.

**Bounds.**  Three client events are a creation and two that race, which is what
every clash, reordering and replacement here needs; two users are the acting one
and another; three times give an order before, between and after; two id ranks put
a client's event before or after the generated ones of the same second.  A member
cap of 1 makes lists below, at and over the cap.  Two crashes allow one while
serving and one during the recovery from it; with one failed write a crash may also
follow the error path; flush_on_write is on, which has both outcomes of a failure.  In
LiveDelivery a bus of one offset lags after
two publications, a queue of two overflows by an answer with one event and EOSE
behind another message, limits of one make every second subscription meet them, and
three events suffice for one in the answer of a REQ, one between query and
subscription and one live; a join request and the put-user event generated from it
are one operation with two offsets.

In Host one permit for two connections makes the loop lose its exchange, read a stale
count and refuse; two requests per slot let a permit be taken again; three tenants, two
of them active, give an order of flushing and one that must not be routed to.  In Query
the limits are small enough that every check has texts below, at and above it; the
store has a pair of events of one second, events under every kind of redaction and
more of them than a default limit.  In Admission two messages are what a race or a
replay needs; max_hits of 1 makes the second hit meet a limit, a window as long as the
distance of the two readings puts them on its edge.  In Backup two commands are a race,
or a backup and its restore; two faults allow damage after an interrupted command.
The two processes are interchangeable (SYMMETRY; no liveness is checked there).

**Fairness.**  GroupService: weak fairness of `Serve` and `Recover`, nothing for
clients, crashes or failures.  Both are straight-line code in a task that holds the
lock and waits for nobody; crashes are bounded, which is the assumption that the
process stays up long enough in the end.  LiveDelivery: weak fairness of
`Proceed \/ Receive` for the sessions in `Readers`, and of `Publish` for all.  A session
waits for nothing but its own socket: a message once begun is handled to its end without
waiting for another session, and `tokio::select!` picks among its ready branches at
random.  A write to the socket has no timeout in the host's sessions (server.rs:132 leaves
keepalive None, session.rs:614), so it ends only if the client reads, which is what
`Readers` promises; publication writes to no socket.  Bounded commands are a client that
stops sending at some point.  CatchesUp is about subscribers that read, and counts a closed
session as caught up: the code's answer to a session that is too slow is to close it.  In
*sessions* one of the two subscribers does not read.  Host: weak
fairness of the main task, of every connection's handler up to its answer, and for
`Readers` of the upgrade, which completes a handshake with the client, and of the reaction
to the signal; nothing for clients or for the request of a shutdown.  Drains is that the
main task ends whatever the sessions do, as the code does not wait for them, and that
the sessions of `Readers` end.  The compare-and-exchange loop
can only repeat when another connection succeeded.

## 4. Proofs

Each theorem holds for all values of the constants that meet the assumptions at the
top of the modules: any users, keys, groups, clocks, ids, sets of sessions, callers and
tenants, any texts, stores, hooks and configurations, and all bounds of the runs.

| theorem | states | module |
|---|---|---|
| TypeCorrect | every reachable state of the group service is well typed | GroupServiceProofs |
| MembersLatest | members are what the last tuple says | GroupAccessProofs |
| DeletedHidden | deleted groups and events stay hidden | |
| TombstoneFinal | no client event after a delete-group event | |
| OutboxMonotone | records keep payload and final status | GroupOutboxProofs |
| StoredJustOnce | no event is in the log twice | |
| AnsweredIsComplete | all effects of an answered event are stored and marked | |
| RequestsFollowed | members are what the answered requests ask for | |
| LiveIsRebuilt | the projection in memory is the one the sorted log gives | |
| RestartSucceeds | every opening after a crash, a stop or a move derives the records it finds | |
| LiveTypeCorrect | bus, queues and places in the bus keep within bounds | LiveDeliveryProofs |
| PermitsExact | permits are the open subscriptions | |
| NoGapEver | no matching event is missed by an open subscription | |
| OnlyReadersHear | events of a private group reach members only | |
| NothingLeaks | HooksCannotLeak | QueryProofs |
| CountsAreExact | CountIsExact | |
| AnswersAreNewest | AnswerIsNewest | |
| AnswersAreBounded | no answer is longer than max_query_complexity | |
| LimiterBound | BurstBound of the limiter, under any clock | AdmissionProofs |
| AdmissionKeepsLimits | BurstBound of the limiter as connections use it | |
| IdentityIsOwn | no key by another's answer to a challenge | |
| AuthorsStore | protected and group events come from their authors | |
| AcceptedMeansStored | OK means stored, and once | |
| CountersAddUp | counters balance with the messages at work | |
| CounterExact, LimiterIsPool | the counter is the permits out; the loop refines PermitPool | HostProofs |
| HostTypeCorrect, PermitsAreTasks, HostUsesPool | the same of the host and its connections | |
| ReadyMeansServing | a ready host serves, but for one named gap | |
| StopFlushes | what was stored before the shutdown is synced | |
| RoutedToNamed | connections reach the tenant they name | |
| PublishedBackupIsWhole, RestoreIsFaithful | portable backup and restore | BackupProofs |
| UnpackedStoreIsUsable, ExportIsComplete, FinishedIsFinal | directory restore, export, finished files | |

What is assumed of constants: limits and windows are positive where the code refuses
zero (RuleAssumption, LimiterAssumption, LiveAssumption, LimitsAssumption,
AdmissionAssumption, BackupAssumption); the documents' numbers are natural and Limit is
the one of the accepted document (HostAssumption); connections,
sessions, callers and users are finitely many; ids of the relay's events differ from
those of clients and, where their content differs, from each other, and ids of stored events
likewise, being hashes (NoCollision, StoreAssumption); a challenge is random, and only the holder of a key signs with it
(AdmissionAssumption, SignerAssumption); what is in the store at first was put there by
the same rules (InitialLogAssumption, StoreAssumption); a store holds no more events
than a u32 counts, which is the largest limit of a query (StoreAssumption); the items of
a JSON array and the fields of an object are a sequence (InputsAssumption); and hooks return what their types allow
(HooksAssumption).  TLC evaluates all of them on the instances.  MembersLatest,
DeletedHidden, TombstoneFinal, RequestsFollowed and LiveIsRebuilt take
~SnapshotInterrupted besides, without which they are false (run interrupted_snapshot).
RequestsFollowed and LiveIsRebuilt also take InOrder: a request that is stored after one
with a later created_at is superseded before it is answered, and for LiveIsRebuilt see the
observations above.  LiveIsRebuilt is about the behaviours in which no storing of an event
fails by its sync ([]NothingMissed); other failed writes, with or without effect, are
covered.  That an opening takes missed events in is model-checked by *recovery*, and part of
what MembersLatest and its companions prove, which speak of the events known to memory.
RestartSucceeds takes ~SnapshotInterrupted, InOrder and that no write
of the store fails (MaxFaults = 0, whatever the number of crashes and moves): without
InOrder it is false (run backdated_reopen), and so it is after a single failed write, as
said with that run.

**Group service.**  *TypeCorrect* uses TypeInv: TypeOK, that rows are left to put only
in the phases that put rows (so that a new projection never leaves rows of the old one
to put), and that a record being marked is one of the outbox.  The lemmas on operators
are in the same module: tuples are totally ordered, every `Apply` keeps the type, and
what each kind of event does to members, tombstone and deletions.

*MembersLatest, DeletedHidden, TombstoneFinal* rest on one inductive invariant,
AccessInv = TypeInv /\ RowsCover /\ ProjectionCovers.  "p covers the offsets S of the
log" says that p's members are at least as recent as every member event in S and
come from one of the log, that a delete-group event in S has its tombstone and that
a delete-event in S has its deletion.  Covering is kept by applying events in *any*
order, which is why the result does not depend on clocks or on order of arrival;
equality with Rebuild would not be.  ProjectionCovers says what memory covers in
each phase (all of the log but the missed offsets, or all but those left to replay); RowsCover that
the rows cover the offsets the checkpoint vouches for and, while they are written
again, that those already put are the projection's, so that the new checkpoint is
justified when it is put.  The rows cover nothing while the table is cleared under an
older checkpoint, hence the assumption.  TombstoneFinal adds that Submit is refused
by the tombstone.

*OutboxMonotone* uses OutboxInv = TypeInv /\ NotBehind /\ MarkingRetryable: memory is
never behind the table, so a merge that finds no record in memory finds none in the
table, and only a retryable record is ever marked.  Without NotBehind a write of a
fresh pending record could set a stored one back.

*StoredJustOnce* adds LogFromBoth: whatever is in the log is the relay's event or a
client's of a kind nothing replaces, so that a client's event of the same id can only
be a duplicate, and a generated one the payload `StoreGenerated` finds.  Storing an
event in map and index is one step in GroupService; that a crash between the two lets an
event sent again be stored twice is in Backup (`RelayCrash`) and the observations.

*AnsweredIsComplete* adds RecordsGood and ServingGood.  A record is good when its source
is in the store and its status tells the truth (stored: so is its payload), which holds
in the table, in memory and of the records still to merge.  While an operation serves,
the records of its source are the same in memory and table, and every effect the source
promises is in the outbox or still planned.  AnswersGood says that, while the
service runs, this is settled of every client's event but the one being served and those
answered with an error, which is what lets `Duplicate` answer the others; and that an
opening derives, or finds, the records of all of them.  So when nothing of it is left to work off,
everything promised is stored and marked in the table, where OutboxMonotone's invariant
and the log keep it through any crash.  No assumption on clocks or snapshots is needed.

*RequestsFollowed* adds RequestInv.  LogAnswers: each event of the relay has a client's
event of the same second that called for it, and a put or remove of the relay a join or
leave of its user.  ClaimsAnswer says the same of every record that is planned, merged or
in the table, because that is where the next event of the log comes from.
SourcesIncrease: clients' events come second by second.  By AnsweredIsComplete's invariant
the put or remove of the last request is in the log; by RequestInv none of a later second
is; and by MembersLatest the member is what the last one says.  Two events of one second
are the same one, since their contents are (NoCollision), so ties cannot decide otherwise.

*LiveIsRebuilt* compares memory with `Rebuild`, the same `Apply` over the sorted log.
It says nothing of how either was computed.  "p is the sum of l" says that each part of p
is as some event of l left it and that p accounts for all of l's.  A sum is unique
(SumsUnique), because in tuple order there is one last event for every part; memory is one
(SumInv, over the cover of AccessInv) and Rebuild is one (RebuildSums).  Members, tombstone
and deletions are a sum in any order of arrival.  The group's record is one only since the
creation comes first and starts the record anew, and edits and the deletion belong to
later seconds (Opened).  SumInv keeps this in each phase of a rewrite or replay,
for rows and memory.

*RestartSucceeds* is about MovedSpec, where the outbox table may also be lost.  What an
event calls for (`Calls`) is given by the log alone: by its own metadata, by the members as
of its second and, for a put or remove, by those as of the second before.  Members as of
an offset set are unique (MembersUnique), so an event calls for one claim under each key
(CallsOnce), and a record that is derived again clashes with none if every claim that is
planned, merged or in the table was called for (ClaimsCalled).  That is inductive only
because what is stored later changes nothing of what was called for (CallsKept): a client's
event is of a later second, and an event of the relay, whose second is that of its source,
answers the newest client event, since whatever an older one called for is stored already
(OthersStored).  This is where failed writes have to be excluded.  Awaited carries it
through operations and openings; ScratchSums says what the projection of
derive_missing_outbox_records has taken in, from which it plans the same lists (DeriveAsOf)
although events of the relay that were stored after the plan was made come before the
next source in tuple order: a join's put is of the join's second, which holds no source of
lists (AloneInSecond).

**Live delivery.**  TypeInv says, beyond types, that an offset is published once (in the
bus, or waiting with the one session that stored it), that a receiver stands in the bus
or at its end, and what a session holds in each phase.  *NoGapEver*: for an open
subscription the matching events of the log are those seen, withheld or lost and those
that are `Coming`: still waiting with a session to be published, or in the bus from the
receiver's place on.  GapInv says the same of a REQ between its query and its
subscription (ReqNoGap), with what the query found in place of what was seen; this is
what makes subscribing after the query harmless, as the receiver was there before.
*OnlyReadersHear* adds that the memberships in memory are those of the log's end
(MembersLogged) and that what a REQ found was readable at some time since it was stored
(ReqReaders); since the past of a log does not change, it stays so.  *PermitsExact* is
inductive with TypeInv; the host's total follows by counting the finite sets of the
sessions' subscriptions.

**Queries.**  The step from data to property is that the code's sorted, deduplicated
vectors exist and are unique.  Events are strictly ordered by created_at and id, so each
of n has a rank among them; the map to ranks is an injection of n events into
0..n-1, hence onto, and its inverse is the sorted sequence (lemmas Ranks, Sorted).  The
operators defined by CHOOSE then have one value with the properties one expects.
CountsAreExact adds that the limit the code gives a COUNT is above any store's size.
MessageInv ties the message to its text, so that its filters are those the parsers
accept, with limits in range.  `Fanout` needs no more than that it asks the read gate
for what a hook names.

*AnswersAreBounded* does not count the events of the answer in one go.  The complexity of
a filter is at least its limit (GoodFilter, FilterBounds: what passes the parsers has
natural fields); the part of the answer a filter brings is cut to its limit; the union of
the parts has at most the sum of the limits (PartsBounded), which validation bounds; and
neither projection nor removing duplicates adds to it (ReportBounded).  SumSeq is a
recursive function over the positions of a sequence, and a statement about all its values
is proved from the least position at which it would fail (LeastNumber).  RebuildSums is
proved in the same way.

**Admission.**  *LimiterBound* uses a history of the hits let through and LimiterInv =
type /\ EntryOf /\ Windows /\ Spacing: the entry describes the window of the last hit, a
window has at most max_hits hits, and a window opens no earlier than the end of the one
before it.  Of 2 * max_hits hits in a row, the last one's window opened after the first
max_hits of them and the window before that no earlier than the first hit; the two hits
that opened them are a window apart.  The proof never orders two times of one window, so
the clock may do anything.  Every step of Admission is a step of the limiter or leaves
it alone (*AdmissionKeepsLimits*).

The rest has one inductive invariant, WorkInv /\ StoreInv /\ MetricsInv.  WorkInv says of
the message a connection handles which charges and which call are left, and that one
about to be stored has passed the checks of authors under keys the connection still has
(`Clear`; keys are never taken away).  StoreInv has the three properties of log and
answers, which need each other.  MetricsInv adds to each balance the number of messages
at work that are yet to be counted, and a step of one connection changes this number by
what it changes the counters (lemma CountChange).

**Host.**  *CounterExact* and *LimiterIsPool* use LimiterInv = type /\ CounterIsHolders,
without which an exchange could not be shown to find a free permit.  Load maps to a
refusal of the pool if what it read is at the limit and to a stutter otherwise, a
successful Exchange to Grant, a lost one to a refusal or a stutter, GiveUp to a stutter.

The host's invariant is LimiterInv /\ MainInv /\ DataInv /\ ConnInv.  MainInv: tenants are
opened only from an accepted configuration, each one does open, and a stopped process has
flushed all of them.  DataInv: a flushed tenant is synced up to what is owed, that is what
was stored when the shutdown was requested.  ConnInv couples each connection's stage with
its step in the limiter's loop, so that every step of the host is one of the loop or leaves
it alone, and says that an internal error has only the cause ReadyServes names.  That no
two active tenants share a name or a relay key is a lemma about the checks of HostConfig
(TenantsDiffer).
`NextOpened` and `NextFlushed` are least elements, which exist by the library's theorem on
well-founded orders of the naturals.

**Backups.**  The invariant is a conjunction with one part per command, over a notion of
prefix (`Pre`).  An export or a portable backup at work has written and left to write,
together, a prefix of the log; a finished one is a prefix and has a manifest that
describes it; a restore has read the first lines the manifest names and indexed them.
The relay only appends, so prefixes stay prefixes.  SourceInv says that the index is what no later event replaces (`Shown`), unless
a write was cut short.  For a directory backup, whose two files are copied at different
times, `Sound` keeps that the index names events of the map unless the relay wrote in
between.  The lemma Effects says for each step which files it touches and which commands
it leaves as they are, so that a part is only looked at for the steps that concern it.
The parts about what is written in place hold as long as no two commands of one kind were
at work at once (`Unraced`): then there is one that writes, and a finished file is left
alone because every command finds it.  What is published by rename needs no such condition.

**Only model-checked**

* ParsersAgree, WrittenReadsBack (Query): what a conversion makes of any JSON value needs
  induction over its structure.  The library's theorems for it take an operator as a
  parameter, which no installed prover instantiates, and the detour through the least
  position of a counterexample, which serves for sums and for Rebuild, would be needed for
  each of the parsers' functions.
* EffectsEventuallyStored, Reopens, CatchesUp, Drains: liveness, beyond the prover.

## 5. What the models leave out

* created_by and the ids of the last snapshots in the projection (written, never
  read), the role map (never written by an event), the two unsupported effects, invites
  (the configuration refuses invites_enabled).
* The Pocket database is external.  A write is atomic, and durable once it returns; one
  that returns an error had no effect, or, under flush_on_write, its effect and no sync.
  That an effect without its sync is lost with the power is not in the models.  GroupService takes the storing of an addressable event older
  than the indexed one to succeed in the map; a refusal, as in Backup, is the same as a
  failed write.
* In LiveDelivery: a query reads and screens in one step, although the code takes the
  lock per event (later screening can only use a newer membership, which OnlyReaders
  allows); an offset that cannot be read back, which sends a NOTICE; the keys of a
  session are one key.  Ephemeral events are answered and not stored, so they are a
  `Reply`.  Filters, limits and hooks are in Query.
* In Query a filter that names a group id longer than a lowered max_group_id_bytes, and
  in Admission liveness (a message once begun is answered) and the queries' own metrics.
* In Host: sockets, keepalive, the contents of sessions (LiveDelivery), and data
  directories that are one through a symbolic link, which the check of paths by their
  text cannot see.
* In Backup: what two commands that began on one path at once leave there (the properties
  except it, for all but portable backup and restore); a file copied while it is written;
  damage while a directory is copied.
* Logging, wording and formatting (Prometheus text, reports of the command line, row
  codecs), cryptography, benchmarks and test support: no state that others decide by.

## 6. Plan

1. An abstract specification of group membership that GroupService implements, the
   refinement checked as a property and then proved step by step, in order of tuples.
2. RestartSucceeds without MaxFaults = 0, once a failed write of a generated event keeps
   later events from being planned before it is retried.
3. Metadata that does not parse as an input of GroupService, once it is decided whether
   the policy or the projection is to refuse it.
