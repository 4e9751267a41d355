---------------------------- MODULE GroupService ----------------------------
(***************************************************************************)
(* The group service of crates/tangle_runtime/src/groups.rs: how an        *)
(* accepted client event is stored, projected and answered with            *)
(* relay-generated events, one store transaction at a time, and how a      *)
(* restart recovers from whatever transactions had been committed.         *)
(*                                                                         *)
(* An operation holds the service's write lock from its check to its       *)
(* result, so operations are sequential; what interleaves with them is     *)
(* the end of the process and the failure of a single store write, which   *)
(* under flush_on_write may have taken effect before its sync failed.      *)
(***************************************************************************)
EXTENDS GroupOutbox

CONSTANTS
  Kinds,               \* kinds of client events a run submits
  InOrder,             \* clients submit events with increasing created_at
  FlushOnWrite,        \* PocketSyncPolicy: every store write is synced at once
  SnapshotInterrupted, \* whether rewriting the projection table over an older
                       \* checkpoint may be interrupted
  MaxSources,          \* bound on client events
  MaxCrashes,          \* bound on crashes
  MaxFaults            \* bound on failed store writes

ASSUME ServiceAssumption ==
  /\ Kinds \subseteq SourceKinds
  /\ InOrder \in BOOLEAN
  /\ FlushOnWrite \in BOOLEAN
  /\ SnapshotInterrupted \in BOOLEAN
  /\ MaxSources \in Nat
  /\ MaxCrashes \in Nat
  /\ MaxFaults \in Nat

VARIABLES
  \* in the store
  log,       \* canonical events, in store order
  rows,      \* table of projection rows
  ckpt,      \* checkpoint: the last offset the rows cover, or NoCheckpoint
  table,     \* table of outbox records
  \* in memory
  proj,      \* GroupServiceState.projection
  outbox,    \* GroupServiceState.outbox
  \* control
  pc,        \* what the service is doing
  opening,   \* it is opening (from_config), not serving a client's event
  src,       \* key of the client event being served
  todo,      \* offsets left to apply, during recovery
  scratch,   \* the projection derive_missing_outbox_records computes
  rowsLeft,  \* projection rows left to put
  recs,      \* planned records left to merge
  cur,       \* key of the record being materialized
  \* history and bounds
  acked,     \* keys of the events answered OK true
  errored,   \* keys of the stored events whose operation was answered with an
             \* error, since the service last opened
  missed,    \* offsets that were stored and not applied to the projection in memory
  crashes, faults

store == <<log, rows, ckpt, table>>
control == <<opening, src, todo, scratch, rowsLeft, recs, cur>>
history == <<acked, errored, missed>>
vars == <<store, proj, outbox, pc, control, history, crashes, faults>>

NoCheckpoint == -1
NoKey == [src |-> NoRef, effect |-> "metadata_snapshot"]

Phases == {"down", "replay", "clear", "checkpoint", "derive", "broken",
           "idle", "records", "materialize", "mark", "mark_failed"}

-----------------------------------------------------------------------------
(* The Pocket store (external): an append-only map of events, an index by id *)
(* in which a newer addressable event (kinds 39000-39002) of the same group  *)
(* replaces an older one, and tables of which each write is a transaction.   *)

StoredKeys == {Key(log[i]) : i \in DOMAIN log}

IndexedKeys ==
  {Key(log[i]) : i \in {i \in DOMAIN log :
     ~ \E j \in DOMAIN log : /\ log[i].kind \in SnapshotKinds
                             /\ log[j].kind = log[i].kind
                             /\ log[j].at > log[i].at}}

\* Mutation: the index alone is asked.
AlreadyIndexed(e) == Key(e) \in IndexedKeys

\* generated_event_already_stored: by the index, then by scanning the map
AlreadyStored(e) == Key(e) \in IndexedKeys \/ Key(e) \in StoredKeys

-----------------------------------------------------------------------------
(* Projection rows *)

RowKeys(p) ==
  {<<"group">> : q \in {q \in {p} : q.group.life # "none"}}
    \cup {<<"member", u>> : u \in {u \in Users : p.members[u].status # "none"}}
    \cup {<<"tombstone">> : q \in {q \in {p} : q.tomb # NoTuple}}
    \cup {<<"deletion", k>> : k \in p.dels}

\* persist_group_projection writes the group, its members, its tombstone and
\* its deletions, in this order.
RowRank(k) ==
  CASE k[1] = "group" -> 1 [] k[1] = "member" -> 2
    [] k[1] = "tombstone" -> 3 [] k[1] = "deletion" -> 4

IsFirstRow(S, k) == \A j \in S : RowRank(k) <= RowRank(j)

\* The rows r with the row k set to what the projection p says.
WithRow(r, p, k) ==
  CASE k[1] = "group"     -> [r EXCEPT !.group = p.group]
    [] k[1] = "member"    -> [r EXCEPT !.members[k[2]] = p.members[k[2]]]
    [] k[1] = "tombstone" -> [r EXCEPT !.tomb = p.tomb]
    [] k[1] = "deletion"  -> [r EXCEPT !.dels = @ \cup {k[2]}]

WithoutRow(r, k) ==
  IF k[1] = "deletion" THEN [r EXCEPT !.dels = @ \ {k[2]}]
  ELSE WithRow(r, EmptyProjection, k)

-----------------------------------------------------------------------------
(* The end of an operation.  Nothing in memory outlives the process; memory  *)
(* and control are given their initial values when it ends.                  *)

ResetControl ==
  /\ opening' = FALSE /\ src' = NoRef /\ todo' = {} /\ scratch' = EmptyProjection
  /\ rowsLeft' = {} /\ recs' = <<>> /\ cur' = NoKey

GoDown ==
  /\ pc' = "down" /\ proj' = EmptyProjection /\ outbox' = <<>> /\ missed' = {}
  /\ ResetControl

Init ==
  /\ log = <<>> /\ rows = EmptyProjection /\ ckpt = NoCheckpoint /\ table = <<>>
  /\ proj = EmptyProjection /\ outbox = <<>>
  /\ pc = "down" /\ opening = FALSE /\ src = NoRef /\ todo = {}
  /\ scratch = EmptyProjection /\ rowsLeft = {} /\ recs = <<>> /\ cur = NoKey
  /\ acked = {} /\ errored = {} /\ missed = {} /\ crashes = 0 /\ faults = 0

\* The projection table is being rewritten while an older checkpoint still
\* vouches for its rows.
RewritingUnderCheckpoint == pc \in {"clear", "checkpoint"} /\ ckpt # NoCheckpoint

MayBeInterrupted == RewritingUnderCheckpoint => SnapshotInterrupted

\* A store write fails.  The adapter commits and then, under flush_on_write,
\* syncs: an error of the sync is returned although the write has taken effect.
Fault == faults < MaxFaults /\ MayBeInterrupted /\ faults' = faults + 1

\* An error while opening ends the opening: the tenant is not served and the
\* process goes away.  An error while serving is reported to the client and leaves
\* memory as it is at that point.
ReturnError(o) ==
  IF opening THEN GoDown /\ UNCHANGED errored
  ELSE /\ pc' = "idle" /\ outbox' = o /\ ResetControl
       /\ errored' = errored \cup {src}
       /\ UNCHANGED <<proj, missed>>

-----------------------------------------------------------------------------
(* Serving a client's event: store_group_pocket_event and                    *)
(* after_source_event_stored.                                                *)

IsNewest(e) == \A i \in DOMAIN log : log[i].at < e.at

Sources == {i \in DOMAIN log : log[i].by # Relay}

\* A client sends an event the store does not have, and it passes check_event.
Fresh(e) ==
  /\ Cardinality(Sources) < MaxSources
  /\ InOrder => IsNewest(e)
  /\ CheckEvent(proj, IndexedKeys, e)
  /\ Key(e) \notin IndexedKeys

\* It is stored and projected, and the records it calls for are planned.
Submit(e) ==
  /\ Fresh(e)
  /\ log' = Append(log, e)
  /\ proj' = Apply(proj, e, Len(log) + 1)
  /\ rowsLeft' = RowKeys(proj')
  /\ recs' = Plan(e, proj', WasOverrideAdmin(e, proj))
  /\ src' = Key(e)
  /\ pc' = "records"
  /\ UNCHANGED <<rows, ckpt, table, outbox, opening, todo, scratch, cur,
                 history, crashes, faults>>

\* The sync after storing it fails: the event is in the store, is not applied and
\* no record is planned.  (A store_event without effect changes nothing.)
SubmitFails(e) ==
  /\ FlushOnWrite
  /\ Fresh(e)
  /\ Fault
  /\ log' = Append(log, e)
  /\ errored' = errored \cup {Key(e)}
  /\ missed' = missed \cup {Len(log) + 1}
  /\ UNCHANGED <<rows, ckpt, table, proj, outbox, pc, control, acked, crashes>>

\* The client sends an event again that is stored and still passes check_event:
\* it is answered OK true, whatever became of the effects of the first try.
Duplicate(e) ==
  /\ e \in {log[i] : i \in DOMAIN log} /\ Key(e) \in IndexedKeys
  /\ CheckEvent(proj, IndexedKeys, e)
  /\ acked' = acked \cup {Key(e)}
  /\ UNCHANGED <<store, proj, outbox, pc, control, errored, missed, crashes, faults>>

\* put_extra_record of one projection row, before records are merged, before a
\* generated event is marked stored, or before a checkpoint.
PutRow ==
  /\ pc \in {"records", "mark", "checkpoint"}
  /\ \E k \in rowsLeft :
       /\ IsFirstRow(rowsLeft, k)
       /\ rows' = WithRow(rows, proj, k)
       /\ rowsLeft' = rowsLeft \ {k}
  /\ UNCHANGED <<log, ckpt, table, proj, outbox, pc, opening, src, todo, scratch,
                 recs, cur, history, crashes, faults>>

PutRowFails ==
  /\ pc \in {"records", "mark", "checkpoint"}
  /\ rowsLeft # {}
  /\ Fault
  /\ \/ /\ pc = "mark"
        /\ pc' = "mark_failed" /\ rowsLeft' = {}
        /\ UNCHANGED <<proj, outbox, opening, src, todo, scratch, recs, cur,
                       errored, missed>>
     \/ pc # "mark" /\ ReturnError(outbox)
  /\ \/ UNCHANGED rows
     \/ /\ FlushOnWrite
        /\ \E k \in rowsLeft : IsFirstRow(rowsLeft, k) /\ rows' = WithRow(rows, proj, k)
  /\ UNCHANGED <<log, ckpt, table, acked, crashes>>

\* Mutation: a record that is already there is written again.
MergeRecordAgain ==
  /\ pc = "records" /\ rowsLeft = {} /\ recs # <<>>
  /\ ~Clashes(outbox, Head(recs))
  /\ outbox' = Update(outbox, Head(recs).key, Head(recs).rec)
  /\ table' = Update(table, Head(recs).key, Head(recs).rec)
  /\ recs' = Tail(recs)
  /\ UNCHANGED <<log, rows, ckpt, proj, pc, opening, src, todo, scratch, rowsLeft,
                 cur, history, crashes, faults>>

\* merge_idempotent and persist_outbox_record of the next planned record, for a
\* client's event or for an event of the log while opening.
MergeRecord ==
  /\ pc = "records" /\ rowsLeft = {} /\ recs # <<>>
  /\ ~Clashes(outbox, Head(recs))
  /\ IF Head(recs).key \in DOMAIN outbox
     THEN UNCHANGED <<outbox, table>>
     ELSE /\ outbox' = Update(outbox, Head(recs).key, Head(recs).rec)
          /\ table' = Update(table, Head(recs).key, Head(recs).rec)
  /\ recs' = Tail(recs)
  /\ UNCHANGED <<log, rows, ckpt, proj, pc, opening, src, todo, scratch, rowsLeft,
                 cur, history, crashes, faults>>

MergeRecordFails ==
  /\ pc = "records" /\ rowsLeft = {} /\ recs # <<>>
  /\ Head(recs).key \notin DOMAIN outbox
  /\ Fault
  /\ ReturnError(Update(outbox, Head(recs).key, Head(recs).rec))
  /\ \/ UNCHANGED table
     \/ FlushOnWrite /\ table' = Update(table, Head(recs).key, Head(recs).rec)
  /\ UNCHANGED <<log, rows, ckpt, acked, crashes>>

\* "outbox record key already exists with different payload"
MergeRecordClashes ==
  /\ pc = "records" /\ rowsLeft = {} /\ recs # <<>>
  /\ Clashes(outbox, Head(recs))
  /\ IF opening THEN pc' = "broken" /\ UNCHANGED <<proj, outbox, control, errored, missed>>
     ELSE ReturnError(outbox)
  /\ UNCHANGED <<store, acked, crashes, faults>>

RecordsMerged ==
  /\ pc = "records" /\ rowsLeft = {} /\ recs = <<>>
  /\ pc' = IF opening THEN "derive" ELSE "materialize"
  /\ UNCHANGED <<store, proj, outbox, control, history, crashes, faults>>

-----------------------------------------------------------------------------
(* materialize_outbox and materialize_outbox_for_group.  A batch is a prefix *)
(* of the replay plan and no record becomes retryable while it is worked     *)
(* off, so the batches amount to taking the next record until none is left.  *)

\* store_generated_event
StoreGenerated ==
  /\ pc = "materialize"
  /\ \E k \in DOMAIN outbox :
       /\ IsNextRecord(outbox, k)
       /\ cur' = k
       /\ IF AlreadyStored(outbox[k].payload)
          THEN UNCHANGED <<log, proj, rowsLeft>>
          ELSE /\ log' = Append(log, outbox[k].payload)
               /\ proj' = Apply(proj, outbox[k].payload, Len(log) + 1)
               /\ rowsLeft' = RowKeys(proj')
  /\ pc' = "mark"
  /\ UNCHANGED <<rows, ckpt, table, outbox, opening, src, todo, scratch, recs,
                 history, crashes, faults>>

\* If it was the sync that failed, the event is stored without being applied, and
\* the retry of its record will find it stored and not apply it either.
StoreGeneratedFails ==
  /\ pc = "materialize"
  /\ \E k \in DOMAIN outbox :
       /\ IsNextRecord(outbox, k)
       /\ ~AlreadyStored(outbox[k].payload)
       /\ cur' = k
       /\ \/ UNCHANGED <<log, missed>>
          \/ /\ FlushOnWrite
             /\ log' = Append(log, outbox[k].payload)
             /\ missed' = missed \cup {Len(log) + 1}
  /\ Fault
  /\ pc' = "mark_failed"
  /\ UNCHANGED <<rows, ckpt, table, proj, outbox, opening, src, todo, scratch, rowsLeft,
                 recs, acked, errored, crashes>>

WithStatus(o, k, s) == Update(o, k, [o[k] EXCEPT !.status = s])

\* Mutations: the mark is not persisted; the mark is not set in memory.
MarkStoredInMemory ==
  /\ pc = "mark" /\ rowsLeft = {}
  /\ outbox' = WithStatus(outbox, cur, "stored")
  /\ cur' = NoKey
  /\ pc' = "materialize"
  /\ UNCHANGED <<store, proj, opening, src, todo, scratch, rowsLeft, recs,
                 history, crashes, faults>>

MarkStoredInTable ==
  /\ pc = "mark" /\ rowsLeft = {}
  /\ table' = Update(table, cur, [outbox[cur] EXCEPT !.status = "stored"])
  /\ cur' = NoKey
  /\ pc' = "materialize"
  /\ UNCHANGED <<log, rows, ckpt, proj, outbox, opening, src, todo, scratch, rowsLeft,
                 recs, history, crashes, faults>>

\* mark_stored and persist_outbox_record; the record in memory is written whole.
MarkStored ==
  /\ pc = "mark" /\ rowsLeft = {}
  /\ outbox' = WithStatus(outbox, cur, "stored")
  /\ table' = Update(table, cur, outbox'[cur])
  /\ cur' = NoKey
  /\ pc' = "materialize"
  /\ UNCHANGED <<log, rows, ckpt, proj, opening, src, todo, scratch, rowsLeft, recs,
                 history, crashes, faults>>

MarkStoredFails ==
  /\ pc = "mark" /\ rowsLeft = {}
  /\ Fault
  /\ LET o == WithStatus(outbox, cur, "stored") IN
       /\ ReturnError(o)
       /\ \/ UNCHANGED table
          \/ FlushOnWrite /\ table' = Update(table, cur, o[cur])
  /\ UNCHANGED <<log, rows, ckpt, acked, crashes>>

\* mark_failed: the operation ends with the error of the failed store write,
\* whether or not the mark itself is stored.
MarkFailed ==
  /\ pc = "mark_failed"
  /\ LET o == WithStatus(outbox, cur, "failed") IN
       /\ ReturnError(o)
       /\ \/ table' = Update(table, cur, o[cur]) /\ UNCHANGED faults
          \/ Fault /\ UNCHANGED table
  /\ UNCHANGED <<log, rows, ckpt, acked, crashes>>

\* Nothing is left to materialize: the client is answered, or the service opens.
Finish ==
  /\ pc = "materialize" /\ Retryable(outbox) = {}
  /\ IF opening THEN errored' = {} /\ UNCHANGED acked
     ELSE acked' = acked \cup {src} /\ UNCHANGED errored
  /\ pc' = "idle"
  /\ ResetControl
  /\ UNCHANGED <<store, proj, outbox, missed, crashes, faults>>

-----------------------------------------------------------------------------
(* Opening: from_config with load_group_storage and                          *)
(* derive_missing_outbox_records.                                            *)

StartDeriving ==
  /\ pc' = "derive" /\ todo' = DOMAIN log /\ scratch' = EmptyProjection

\* GroupCheckpointStatus::requires_rebuild: the checkpoint is missing, or is of
\* other versions than this program's (Upgrade).
RequiresRebuild == ckpt = NoCheckpoint

\* Mutation: the first event after the checkpoint is skipped.
OpenSkipping ==
  /\ pc = "down"
  /\ outbox' = table
  /\ opening' = TRUE
  /\ proj' = IF RequiresRebuild THEN EmptyProjection ELSE rows
  /\ pc' = "replay"
  /\ todo' = {i \in DOMAIN log : RequiresRebuild \/ i > ckpt + 1}
  /\ UNCHANGED <<store, src, scratch, rowsLeft, recs, cur, history, crashes, faults>>

\* Without a current checkpoint the projection is rebuilt from every event;
\* with one, the rows are loaded and the events after it are applied.
Open ==
  /\ pc = "down"
  /\ outbox' = table
  /\ opening' = TRUE
  /\ proj' = IF RequiresRebuild THEN EmptyProjection ELSE rows
  /\ IF ~RequiresRebuild /\ Len(log) <= ckpt
     THEN StartDeriving
     ELSE /\ pc' = "replay"
          /\ todo' = {i \in DOMAIN log : RequiresRebuild \/ i > ckpt}
          /\ UNCHANGED scratch
  /\ UNCHANGED <<store, src, rowsLeft, recs, cur, history, crashes, faults>>

\* One event of rebuild_group_projection, or of
\* apply_canonical_events_after_checkpoint, in tuple order.
ReplayEvent ==
  /\ pc = "replay"
  /\ \E i \in todo :
       /\ IsFirst(log, todo, i)
       /\ proj' = Apply(proj, log[i], i)
       /\ todo' = todo \ {i}
  /\ UNCHANGED <<store, outbox, pc, opening, src, scratch, rowsLeft, recs, cur,
                 history, crashes, faults>>

\* persist_group_projection_snapshot: the table is cleared row by row ...
StartClearing ==
  /\ pc = "replay" /\ todo = {}
  /\ pc' = "clear"
  /\ UNCHANGED <<store, proj, outbox, control, history, crashes, faults>>

ClearRow ==
  /\ pc = "clear"
  /\ \E k \in RowKeys(rows) :
       /\ IsFirstRow(RowKeys(rows), k)
       /\ rows' = WithoutRow(rows, k)
  /\ UNCHANGED <<log, ckpt, table, proj, outbox, pc, control, history, crashes, faults>>

TableCleared ==
  /\ pc = "clear" /\ RowKeys(rows) = {}
  /\ rowsLeft' = RowKeys(proj)
  /\ pc' = "checkpoint"
  /\ UNCHANGED <<store, proj, outbox, opening, src, todo, scratch, recs, cur,
                 history, crashes, faults>>

\* Mutation: the checkpoint names the offset of the next event.
PutCheckpointAhead ==
  /\ pc = "checkpoint" /\ rowsLeft = {}
  /\ ckpt' = Len(log) + 1
  /\ StartDeriving
  /\ UNCHANGED <<log, rows, table, proj, outbox, opening, src, rowsLeft, recs, cur,
                 history, crashes, faults>>

\* ... filled again (PutRow), and the checkpoint is put last.
PutCheckpoint ==
  /\ pc = "checkpoint" /\ rowsLeft = {}
  /\ ckpt' = Len(log)
  /\ StartDeriving
  /\ UNCHANGED <<log, rows, table, proj, outbox, opening, src, rowsLeft, recs, cur,
                 history, crashes, faults>>

RewriteFails ==
  /\ \/ /\ pc = "clear" /\ RowKeys(rows) # {}
        /\ \/ UNCHANGED rows
           \/ /\ FlushOnWrite
              /\ \E k \in RowKeys(rows) :
                   IsFirstRow(RowKeys(rows), k) /\ rows' = WithoutRow(rows, k)
        /\ UNCHANGED ckpt
     \/ /\ pc = "checkpoint" /\ rowsLeft = {}
        /\ \/ UNCHANGED ckpt
           \/ FlushOnWrite /\ ckpt' = Len(log)
        /\ UNCHANGED rows
  /\ Fault
  /\ GoDown
  /\ UNCHANGED <<log, table, acked, errored, crashes>>

\* Mutation: records are planned from the current projection.
DeriveEventFromCurrent ==
  /\ pc = "derive"
  /\ \E i \in todo :
       /\ IsFirst(log, todo, i)
       /\ todo' = todo \ {i}
       /\ \/ log[i].by = Relay /\ UNCHANGED <<pc, recs>>
          \/ /\ log[i].by # Relay
             /\ pc' = "records"
             /\ recs' = Plan(log[i], proj, WasOverrideAdmin(log[i], proj))
  /\ UNCHANGED <<store, proj, outbox, opening, src, scratch, rowsLeft, cur,
                 history, crashes, faults>>

\* One event of derive_missing_outbox_records: events are taken in tuple order
\* into a fresh projection, from which the records of client events are planned.
DeriveEvent ==
  /\ pc = "derive"
  /\ \E i \in todo :
       /\ IsFirst(log, todo, i)
       /\ scratch' = Apply(scratch, log[i], i)
       /\ todo' = todo \ {i}
       /\ \/ log[i].by = Relay /\ UNCHANGED <<pc, recs>>
          \/ /\ log[i].by # Relay /\ PlanFails(log[i], scratch')
             /\ pc' = "broken" /\ UNCHANGED recs
          \/ /\ log[i].by # Relay /\ ~PlanFails(log[i], scratch')
             /\ pc' = "records"
             /\ recs' = Plan(log[i], scratch', WasOverrideAdmin(log[i], scratch))
  /\ UNCHANGED <<store, proj, outbox, opening, src, rowsLeft, cur,
                 history, crashes, faults>>

RecordsDerived ==
  /\ pc = "derive" /\ todo = {}
  /\ pc' = "materialize"
  /\ scratch' = EmptyProjection
  /\ UNCHANGED <<store, proj, outbox, opening, src, todo, rowsLeft, recs, cur,
                 history, crashes, faults>>

-----------------------------------------------------------------------------
(* The environment *)

\* A clean stop, between operations, or the end of a process that failed to open.
Shutdown ==
  /\ pc \in {"idle", "broken"}
  /\ GoDown
  /\ UNCHANGED <<store, acked, errored, crashes, faults>>

\* The process ends between two store transactions.
Crash ==
  /\ pc \notin {"down", "idle", "broken"}
  /\ crashes < MaxCrashes
  /\ MayBeInterrupted
  /\ crashes' = crashes + 1
  /\ GoDown
  /\ UNCHANGED <<store, acked, errored, faults>>

\* The software is upgraded to other projection versions: the checkpoint is stale,
\* which is handled as if it were missing.
Upgrade ==
  /\ pc = "down" /\ ckpt # NoCheckpoint
  /\ ckpt' = NoCheckpoint
  /\ UNCHANGED <<log, rows, table, proj, outbox, pc, control, history, crashes, faults>>

\* The store is replaced by a portable backup of it, restored: the events come
\* back in their order, without rows, checkpoint and outbox table.
RestorePortable ==
  /\ pc = "down" /\ crashes < MaxCrashes
  /\ crashes' = crashes + 1
  /\ rows' = EmptyProjection /\ ckpt' = NoCheckpoint /\ table' = <<>>
  /\ UNCHANGED <<log, proj, outbox, pc, control, history, faults>>

Serve ==
  \/ PutRow \/ MergeRecord \/ MergeRecordClashes \/ RecordsMerged
  \/ StoreGenerated \/ MarkStored \/ MarkFailed \/ Finish

Recover ==
  \/ Open \/ ReplayEvent \/ StartClearing \/ ClearRow \/ TableCleared
  \/ PutCheckpoint \/ DeriveEvent \/ RecordsDerived

Fail ==
  \/ PutRowFails \/ MergeRecordFails \/ StoreGeneratedFails \/ MarkStoredFails
  \/ RewriteFails

\* Tags an event of its kind does not carry have their defaults.
Clients ==
  /\ pc = "idle"
  /\ \E kind \in Kinds, by \in Users, at \in Times, id \in SourceIds :
       \E user  \in IF kind \in {"put", "remove"} THEN Users ELSE {by},
          roles \in IF kind = "put" THEN SUBSET Roles ELSE {{}},
          meta  \in IF kind \in {"create", "edit"} THEN Metas ELSE {EmptyMetadata},
          ref   \in IF kind = "delete_event" THEN StoredKeys ELSE {NoRef} :
         LET e == [kind |-> kind, by |-> by, at |-> at, id |-> id, user |-> user,
                   roles |-> roles, meta |-> meta, users |-> {}, ref |-> ref] IN
         Submit(e) \/ SubmitFails(e) \/ Duplicate(e)

Next == Clients \/ Serve \/ Recover \/ Fail \/ Crash \/ Shutdown \/ Upgrade

Spec == Init /\ [][Next]_vars

\* The service runs straight-line code: once started, an operation or an opening
\* takes its next step unless the process ends.
FairSpec == Spec /\ WF_vars(Serve) /\ WF_vars(Recover)

\* The same for a tenant that may also be moved by portable backup and restore.
MovedSpec ==
  Init /\ [][Next \/ RestorePortable]_vars /\ WF_vars(Serve) /\ WF_vars(Recover)

-----------------------------------------------------------------------------
(* Properties *)

TypeOK ==
  /\ log \in Seq(Events)
  /\ rows \in Projections
  /\ ckpt \in (0..Len(log)) \cup {NoCheckpoint}
  /\ DOMAIN table \subseteq RecordKeys /\ table \in [DOMAIN table -> Records]
  /\ proj \in Projections
  /\ DOMAIN outbox \subseteq RecordKeys /\ outbox \in [DOMAIN outbox -> Records]
  /\ pc \in Phases
  /\ opening \in BOOLEAN
  /\ src \in Nat \X Nat
  /\ todo \subseteq DOMAIN log
  /\ scratch \in Projections
  /\ rowsLeft \subseteq RowKeys(proj)
  /\ recs \in Seq(PlannedRecords)
  /\ cur \in RecordKeys
  /\ acked \subseteq Nat \X Nat
  /\ errored \subseteq Nat \X Nat
  /\ missed \subseteq DOMAIN log
  /\ crashes \in 0..MaxCrashes
  /\ faults \in 0..MaxFaults

\* A restart succeeds: derive_missing_outbox_records, which plans the records of
\* every client event again, never finds one that is in the table with another
\* payload, whatever the process was doing when it ended.
ReopenSucceeds == pc # "broken"

\* The events memory knows of: all of the log but those whose storing was answered
\* with the error of a sync since the process started.
Known == DOMAIN log \ missed

\* Between operations the projection in memory, updated event by event in store
\* order and recovered from rows, checkpoint and replay, is the one that
\* rebuild_group_projection computes from all events in tuple order, unless it
\* missed one.
LiveMatchesRebuild == pc = "idle" /\ missed = {} => proj = Rebuild(log)

\* What the tests' assert_live_projection_matches_rebuild compares.
Asserted(p) ==
  [life |-> p.group.life, meta |-> p.group.meta, deleted |-> p.group.deleted,
   tomb |-> p.tomb, members |-> [u \in Users |-> p.members[u].status]]

\* The same as far as the tests of the runtime assert it after events that race.
RebuildAssertion == pc = "idle" => Asserted(proj) = Asserted(Rebuild(log))

\* The service has finished computing its projection.
Projected == pc \notin {"down", "replay"}

MemberEvents(u) ==
  {i \in Known : log[i].kind \in {"put", "remove"} /\ log[i].user = u}

\* Once the service has its projection, every member is what the last put-user or
\* remove-user event it knows of in tuple order says: put_member loses no event to the
\* order of arrival, a crash or a checkpoint.  (The run has no failed writes, the
\* theorem MembersLatest has: an event that was missed is back after a restart.)
MembersAreLatest ==
  Projected =>
    \A u \in Users :
      \/ MemberEvents(u) = {} /\ proj.members[u] = NoMember
      \/ \E i \in MemberEvents(u) :
           /\ proj.members[u] = MemberOf(log[i], TupleOf(log[i], i))
           /\ \A j \in MemberEvents(u) :
                TupleLE(TupleOf(log[j], j), TupleOf(log[i], i))

\* Nothing is stored twice: a retry finds its event, and
\* generated_event_already_stored an event whose record was not marked stored before a
\* crash or a failed write, also when a newer snapshot has replaced it in the index.
\* (A store_event is one step here: an append that is not indexed is in Backup.)
StoredOnce ==
  \A i, j \in DOMAIN log : Key(log[i]) = Key(log[j]) => i = j

\* The effects the client of event e was promised, from plan_group_outbox_records.
Promised(e) ==
  CASE e.kind = "create" -> {"metadata_snapshot", "admin_list_snapshot"}
    [] e.kind = "edit"   -> {"metadata_snapshot"}
    [] e.kind \in {"put", "remove"} -> {"member_list_snapshot"}
    [] e.kind = "join"   -> {"join_accepted"}
    [] e.kind = "leave"  -> {"leave_accepted"}
    [] OTHER -> {}

EffectsOf(e) == {[src |-> Key(e), effect |-> f] : f \in Promised(e)}

\* Record k is in the table as stored, with its event in the log, or, for a member
\* list over the cap, as skipped.
Settled(k) ==
  /\ k \in DOMAIN table
  /\ \/ table[k].status = "stored" /\ Key(table[k].payload) \in StoredKeys
     \/ table[k].status = "skipped" /\ k.effect = "member_list_snapshot"

\* A client is answered OK, at the first try or as a duplicate, only when every
\* generated event its event calls for is in the store and recorded as such, so that no
\* crash afterwards can take it back.  Only a duplicate of an event whose first try was
\* answered with an error may lack them, until the service has opened again.
AckedIsComplete ==
  \A i \in DOMAIN log :
    Key(log[i]) \in acked \ errored => \A k \in EffectsOf(log[i]) : Settled(k)

MembershipRequests(u) ==
  {i \in Sources : log[i].kind \in {"put", "remove", "join", "leave"}
                     /\ log[i].user = u}

\* Between operations, a user whose last join, leave, put-user or remove-user was
\* answered OK is a member exactly if it asked for that, also after a crash and also
\* when an earlier request failed and its effect was only stored later.  Excepted is
\* again a request answered with an error first, until the service has opened again.
MembershipFollowsRequests ==
  pc = "idle" =>
    \A u \in Users : \A i \in MembershipRequests(u) :
      (Key(log[i]) \in acked \ errored /\ \A j \in MembershipRequests(u) : j <= i)
        => (IsMember(proj, u) <=> log[i].kind \in {"put", "join"})

\* The tombstone of a deleted group outlives every restart: once the service knows of
\* a delete-group event no client's event is stored, not even a create-group.
NoWriteAfterTombstone ==
  [][\A j \in DOMAIN log' \ DOMAIN log :
       log'[j].by # Relay => \A i \in Known : log[i].kind # "delete_group"]_vars

\* Between operations readers see nothing of a group known to be deleted but the
\* deletion marker, and never an event known to be deleted.
DeletedStaysHidden ==
  pc = "idle" =>
    \A i \in Known, j \in DOMAIN log :
      /\ log[i].kind = "delete_group" /\ Visible(proj, log[j], Users)
           => log[j].kind = "delete_group"
      /\ log[i].kind = "delete_event" /\ log[i].ref = Key(log[j])
           => ~Visible(proj, log[j], Users)

\* A record in the outbox table keeps its payload for good, and once the event was
\* stored or the effect skipped it is never retried.
OutboxNeverRegresses ==
  [][\A k \in DOMAIN table :
       /\ k \in DOMAIN table'
       /\ table'[k].payload = table[k].payload
       /\ table[k].status \in {"stored", "skipped"}
            => table'[k].status = table[k].status]_vars

Unstored(i) ==
  \E k \in EffectsOf(log[i]) :
    k \notin DOMAIN table \/ table[k].status \in {"pending", "failed"}

\* A stored event whose generated events are missing, because the process ended
\* before they were stored or even planned, gets them: derive_missing_outbox_records
\* and materialize_outbox find it after the restart.
EffectsEventuallyStored ==
  (\E i \in Sources : Unstored(i)) ~> ~(\E i \in Sources : Unstored(i))

\* An opening that is not interrupted for ever ends with the service running.
Reopens == (pc = "down") ~> (pc = "idle")

=============================================================================
