------------------------- MODULE GroupOutboxProofs -------------------------
(***************************************************************************)
(* The outbox table only moves forward.  merge_idempotent and the marks    *)
(* work on the outbox in memory and write whole records to the table, so   *)
(* the table is safe only because memory never falls behind it: the        *)
(* inductive invariant says that memory holds every record of the table,   *)
(* with its payload and, once it is final, its status, and that a record   *)
(* being marked was retryable.                                             *)
(*                                                                         *)
(* From this follow what an answer promises, that members follow the       *)
(* answered requests, that the projection in memory, which was kept event  *)
(* by event, is the one rebuilding the log computes, and that deriving the *)
(* records again when the service opens finds the ones in the table.       *)
(***************************************************************************)
EXTENDS GroupAccessProofs

Final == {"stored", "skipped"}

\* Memory o is not behind the table t.
Agrees(t, o) ==
  /\ DOMAIN t \subseteq DOMAIN o
  /\ \A k \in DOMAIN t :
       /\ o[k].payload = t[k].payload
       /\ t[k].status \in Final => o[k].status = t[k].status

\* The table u keeps what the table t says.
Keeps(t, u) ==
  \A k \in DOMAIN t :
    /\ k \in DOMAIN u
    /\ u[k].payload = t[k].payload
    /\ t[k].status \in Final => u[k].status = t[k].status

\* A table is not behind itself, and keeps what it says.
LEMMA SameKept == ASSUME NEW t PROVE Agrees(t, t) /\ Keeps(t, t)
  BY DEF Agrees, Keeps

\* A record that is not in memory is in neither.
LEMMA NewRecord ==
  ASSUME NEW t \in Tables, NEW o \in Tables, Agrees(t, o),
         NEW k \in RecordKeys \ DOMAIN o, NEW r \in Records
  PROVE  /\ Agrees(t, Update(o, k, r))
         /\ Agrees(Update(t, k, r), Update(o, k, r))
         /\ Keeps(t, Update(t, k, r))
  <1> DEFINE a == Update(o, k, r)
             b == Update(t, k, r)
  <1>1. DOMAIN a = DOMAIN o \cup {k} /\ a[k] = r /\ \A x \in DOMAIN o : x # k => a[x] = o[x]
    BY UpdateFacts
  <1>2. DOMAIN b = DOMAIN t \cup {k} /\ b[k] = r /\ \A x \in DOMAIN t : x # k => b[x] = t[x]
    BY UpdateFacts
  <1>3. k \notin DOMAIN t
    BY DEF Agrees
  <1> HIDE DEF a, b
  <1>4. Agrees(t, a) /\ Agrees(b, a) /\ Keeps(t, b)
    BY <1>1, <1>2, <1>3 DEF Agrees, Keeps
  <1> QED BY <1>4 DEF a, b

\* A retryable record of memory is not final in the table either.
LEMMA Marked ==
  ASSUME NEW t \in Tables, NEW o \in Tables, Agrees(t, o),
         NEW k \in DOMAIN o, IsRetryable(o[k]), NEW s \in Statuses
  PROVE  /\ Agrees(t, WithStatus(o, k, s))
         /\ Agrees(Update(t, k, WithStatus(o, k, s)[k]), WithStatus(o, k, s))
         /\ Keeps(t, Update(t, k, WithStatus(o, k, s)[k]))
  <1> DEFINE r == [o[k] EXCEPT !.status = s]
             a == WithStatus(o, k, s)
             b == Update(t, k, a[k])
  <1>1. k \in RecordKeys /\ r \in Records /\ r.payload = o[k].payload /\ r.status = s
    BY WithStatusType
  <1>2. a = Update(o, k, r)
    BY DEF WithStatus
  <1> HIDE DEF r, a, b
  <1>3. DOMAIN a = DOMAIN o \cup {k} /\ a[k] = r /\ \A x \in DOMAIN o : x # k => a[x] = o[x]
    BY <1>1, <1>2, UpdateFacts
  <1>4. DOMAIN b = DOMAIN t \cup {k} /\ b[k] = r /\ \A x \in DOMAIN t : x # k => b[x] = t[x]
    BY <1>1, <1>3, UpdateFacts DEF b
  <1>5. k \in DOMAIN t => t[k].status \notin Final
    BY DEF Agrees, IsRetryable, Final
  <1>6. Agrees(t, a)
    BY <1>1, <1>3, <1>5 DEF Agrees
  <1>7. Agrees(b, a) /\ Keeps(t, b)
    BY <1>1, <1>3, <1>4, <1>5 DEF Agrees, Keeps
  <1> QED BY <1>6, <1>7 DEF a, b

-----------------------------------------------------------------------------
(* The inductive invariant *)

NotBehind == pc # "down" => Agrees(table, outbox)
MarkingRetryable == pc \in {"mark", "mark_failed"} => IsRetryable(outbox[cur])

OutboxInv == TypeInv /\ NotBehind /\ MarkingRetryable

\* What a step has to establish.
Forward == NotBehind' /\ MarkingRetryable' /\ Keeps(table, table')

\* What the proofs below use of the type invariant.
LEMMA OutboxTypes ==
  ASSUME TypeInv
  PROVE  /\ table \in Tables /\ outbox \in Tables
         /\ recs \in Seq(PlannedRecords)
         /\ pc \in {"mark", "mark_failed"} => cur \in DOMAIN outbox
  BY TypeParts DEF StoreTyped, MemoryTyped, ControlTyped

\* Steps that leave the outbox and its table alone.
LEMMA KeepForward ==
  ASSUME NotBehind, pc # "down", UNCHANGED <<table, outbox>>,
         pc' \notin {"mark", "mark_failed"}
  PROVE  Forward
  BY SameKept DEF Forward, NotBehind, MarkingRetryable

\* Steps within a mark.
LEMMA MarkForward ==
  ASSUME NotBehind, MarkingRetryable, pc # "down", UNCHANGED <<table, outbox, cur>>,
         pc' = pc \/ pc = "mark"
  PROVE  Forward
  BY SameKept DEF Forward, NotBehind, MarkingRetryable

\* The end of the process.
LEMMA DownForward ==
  ASSUME GoDown, UNCHANGED table PROVE Forward
  BY SameKept DEF Forward, NotBehind, MarkingRetryable, GoDown

\* The end of an operation with an error.
LEMMA ErrorForward ==
  ASSUME NEW o, ReturnError(o), Agrees(table', o), Keeps(table, table')
  PROVE  Forward
  BY DEF Forward, NotBehind, MarkingRetryable, ReturnError, GoDown

\* The record a planned record is written as.
LEMMA HeadType ==
  ASSUME TypeInv, recs # <<>>
  PROVE  Head(recs).key \in RecordKeys /\ Head(recs).rec \in Records
  <1>1. Head(recs) \in PlannedRecords
    BY OutboxTypes
  <1> QED BY <1>1 DEF PlannedRecords

\* The steps of an operation.
LEMMA ServeForward == OutboxInv /\ Serve => Forward
  <1> SUFFICES ASSUME OutboxInv, Serve PROVE Forward
    OBVIOUS
  <1>0. /\ TypeInv /\ NotBehind /\ MarkingRetryable
        /\ table \in Tables /\ outbox \in Tables
        /\ pc \in {"mark", "mark_failed"} => cur \in DOMAIN outbox
    BY OutboxTypes DEF OutboxInv
  <1>1. CASE PutRow
    BY <1>0, <1>1, MarkForward DEF PutRow
  <1>2. CASE MergeRecord
    <2>1. /\ pc = "records" /\ pc' = pc /\ Agrees(table, outbox)
          /\ Head(recs).key \in RecordKeys /\ Head(recs).rec \in Records
      BY <1>0, <1>2, HeadType DEF MergeRecord, NotBehind
    <2>2. CASE Head(recs).key \in DOMAIN outbox
      BY <1>0, <1>2, <2>1, <2>2, KeepForward DEF MergeRecord
    <2>3. CASE Head(recs).key \notin DOMAIN outbox
      <3>1. /\ outbox' = Update(outbox, Head(recs).key, Head(recs).rec)
            /\ table' = Update(table, Head(recs).key, Head(recs).rec)
        BY <1>2, <2>3 DEF MergeRecord
      <3>2. Agrees(table', outbox') /\ Keeps(table, table')
        BY <1>0, <2>1, <2>3, <3>1, NewRecord
      <3> QED BY <2>1, <3>2 DEF Forward, NotBehind, MarkingRetryable
    <2> QED BY <2>2, <2>3
  <1>3. CASE MergeRecordClashes
    <2>1. pc = "records" /\ UNCHANGED table /\ Agrees(table, outbox)
      BY <1>0, <1>3 DEF MergeRecordClashes, store, NotBehind
    <2>2. CASE opening
      BY <1>0, <1>3, <2>1, <2>2, KeepForward DEF MergeRecordClashes
    <2>3. CASE ~opening
      BY <1>3, <2>1, <2>3, SameKept, ErrorForward DEF MergeRecordClashes
    <2> QED BY <2>2, <2>3
  <1>4. CASE RecordsMerged
    BY <1>0, <1>4, KeepForward DEF RecordsMerged, store
  <1>5. CASE StoreGenerated
    <2>1. pc = "materialize" /\ pc' = "mark" /\ UNCHANGED <<table, outbox>>
          /\ cur' \in Retryable(outbox)
      BY <1>5 DEF StoreGenerated, IsNextRecord
    <2> QED BY <1>0, <2>1, SameKept
            DEF Forward, NotBehind, MarkingRetryable, Retryable
  <1>6. CASE MarkStored
    <2>1. /\ pc = "mark" /\ pc' = "materialize"
          /\ Agrees(table, outbox) /\ cur \in DOMAIN outbox /\ IsRetryable(outbox[cur])
      BY <1>0, <1>6 DEF MarkStored, NotBehind, MarkingRetryable
    <2> DEFINE o == WithStatus(outbox, cur, "stored")
    <2>2. outbox' = o /\ table' = Update(table, cur, o[cur])
      BY <1>6 DEF MarkStored
    <2>3. Agrees(Update(table, cur, o[cur]), o) /\ Keeps(table, Update(table, cur, o[cur]))
      BY <1>0, <2>1, StatusNames, Marked
    <2> HIDE DEF o
    <2> QED BY <2>1, <2>2, <2>3 DEF Forward, NotBehind, MarkingRetryable
  <1>7. CASE MarkFailed
    <2> DEFINE o == WithStatus(outbox, cur, "failed")
    <2>1. /\ Agrees(table, outbox) /\ cur \in DOMAIN outbox /\ IsRetryable(outbox[cur])
      BY <1>0, <1>7 DEF MarkFailed, NotBehind, MarkingRetryable
    <2>2. ReturnError(o) /\ (table' = Update(table, cur, o[cur]) \/ table' = table)
      BY <1>7 DEF MarkFailed
    <2>3. Agrees(table, o) /\ Agrees(Update(table, cur, o[cur]), o)
          /\ Keeps(table, Update(table, cur, o[cur]))
      BY <1>0, <2>1, StatusNames, Marked
    <2> HIDE DEF o
    <2> QED BY <2>2, <2>3, SameKept, ErrorForward
  <1>8. CASE Finish
    BY <1>0, <1>8, KeepForward DEF Finish, store
  <1> QED BY <1>1, <1>2, <1>3, <1>4, <1>5, <1>6, <1>7, <1>8 DEF Serve

\* The steps of an opening.
LEMMA RecoverForward == OutboxInv /\ Recover => Forward
  <1> SUFFICES ASSUME OutboxInv, Recover PROVE Forward
    OBVIOUS
  <1>0. NotBehind
    BY DEF OutboxInv
  <1>1. CASE Open
    <2>1. outbox' = table /\ table' = table /\ pc' \in {"derive", "replay"}
      BY <1>1 DEF Open, RequiresRebuild, StartDeriving, store
    <2> QED BY <2>1, SameKept DEF Forward, NotBehind, MarkingRetryable
  <1>2. CASE ReplayEvent
    BY <1>0, <1>2, KeepForward DEF ReplayEvent, store
  <1>3. CASE StartClearing
    BY <1>0, <1>3, KeepForward DEF StartClearing, store
  <1>4. CASE ClearRow
    BY <1>0, <1>4, KeepForward DEF ClearRow
  <1>5. CASE TableCleared
    BY <1>0, <1>5, KeepForward DEF TableCleared, store
  <1>6. CASE PutCheckpoint
    BY <1>0, <1>6, KeepForward DEF PutCheckpoint, StartDeriving
  <1>7. CASE DeriveEvent
    <2>1. pc = "derive" /\ pc' \in {"derive", "broken", "records"}
          /\ UNCHANGED <<table, outbox>>
      BY <1>7 DEF DeriveEvent, store
    <2> QED BY <1>0, <2>1, KeepForward
  <1>8. CASE RecordsDerived
    BY <1>0, <1>8, KeepForward DEF RecordsDerived, store
  <1> QED BY <1>1, <1>2, <1>3, <1>4, <1>5, <1>6, <1>7, <1>8 DEF Recover

\* Failed writes.
LEMMA FailForward == OutboxInv /\ Fail => Forward
  <1> SUFFICES ASSUME OutboxInv, Fail PROVE Forward
    OBVIOUS
  <1>0. /\ TypeInv /\ NotBehind /\ MarkingRetryable
        /\ table \in Tables /\ outbox \in Tables
        /\ pc \in {"mark", "mark_failed"} => cur \in DOMAIN outbox
    BY OutboxTypes DEF OutboxInv
  <1>1. CASE PutRowFails
    <2>1. CASE pc = "mark"
      <3>1. UNCHANGED <<table, outbox, cur>>
        BY <1>1, <2>1 DEF PutRowFails, store
      <3> QED BY <1>0, <2>1, <3>1, MarkForward
    <2>2. CASE pc # "mark"
      <3>1. ReturnError(outbox) /\ UNCHANGED table /\ pc # "down"
        BY <1>1, <2>2 DEF PutRowFails, store
      <3> QED BY <1>0, <3>1, SameKept, ErrorForward DEF NotBehind
    <2> QED BY <2>1, <2>2
  <1>2. CASE MergeRecordFails
    <2> DEFINE o == Update(outbox, Head(recs).key, Head(recs).rec)
    <2>1. /\ Agrees(table, outbox) /\ Head(recs).rec \in Records
          /\ Head(recs).key \in RecordKeys \ DOMAIN outbox
      BY <1>0, <1>2, HeadType DEF MergeRecordFails, NotBehind
    <2> DEFINE t == Update(table, Head(recs).key, Head(recs).rec)
    <2>2. ReturnError(o) /\ (table' = table \/ table' = t)
      BY <1>2 DEF MergeRecordFails
    <2>3. Agrees(table, o) /\ Agrees(t, o) /\ Keeps(table, t)
      BY <1>0, <2>1, NewRecord
    <2> HIDE DEF o, t
    <2> QED BY <2>2, <2>3, SameKept, ErrorForward
  <1>3. CASE StoreGeneratedFails
    <2>1. pc = "materialize" /\ UNCHANGED <<table, outbox>> /\ cur' \in Retryable(outbox)
      BY <1>3 DEF StoreGeneratedFails, IsNextRecord
    <2> QED BY <1>0, <2>1, SameKept
            DEF Forward, NotBehind, MarkingRetryable, Retryable
  <1>4. CASE MarkStoredFails
    <2> DEFINE o == WithStatus(outbox, cur, "stored")
    <2>1. /\ Agrees(table, outbox) /\ cur \in DOMAIN outbox /\ IsRetryable(outbox[cur])
      BY <1>0, <1>4 DEF MarkStoredFails, NotBehind, MarkingRetryable
    <2> DEFINE t == Update(table, cur, o[cur])
    <2>2. ReturnError(o) /\ (table' = table \/ table' = t)
      BY <1>4 DEF MarkStoredFails
    <2>3. Agrees(table, o) /\ Agrees(t, o) /\ Keeps(table, t)
      BY <1>0, <2>1, StatusNames, Marked
    <2> HIDE DEF o, t
    <2> QED BY <2>2, <2>3, SameKept, ErrorForward
  <1>5. CASE RewriteFails
    BY <1>5, DownForward DEF RewriteFails
  <1> QED BY <1>1, <1>2, <1>3, <1>4, <1>5 DEF Fail

\* Every step moves the table forward.
LEMMA NextForward == OutboxInv /\ [Next]_vars => Forward
  <1> SUFFICES ASSUME OutboxInv, [Next]_vars PROVE Forward
    OBVIOUS
  <1>0. TypeInv /\ NotBehind /\ MarkingRetryable
    BY DEF OutboxInv
  <1>1. CASE Clients
    <2>1. pc = "idle"
      BY <1>1 DEF Clients
    <2> PICK e \in ClientEvents : Submit(e) \/ SubmitFails(e) \/ Duplicate(e)
      BY <1>0, <1>1, ClientsSubmit
    <2>2. pc' \in {pc, "records"} /\ UNCHANGED <<table, outbox>>
      BY DEF Submit, SubmitFails, Duplicate, store
    <2> QED BY <1>0, <2>1, <2>2, KeepForward
  <1>2. CASE Crash \/ Shutdown
    BY <1>2, DownForward DEF Crash, Shutdown, store
  <1>3. CASE Upgrade
    <2>1. pc = "down" /\ pc' = "down" /\ UNCHANGED table
      BY <1>3 DEF Upgrade
    <2> QED BY <2>1, SameKept DEF Forward, NotBehind, MarkingRetryable
  <1>4. CASE UNCHANGED vars
    BY <1>0, <1>4, SameKept DEF Forward, NotBehind, MarkingRetryable, vars, store, control
  <1> QED BY <1>1, <1>2, <1>3, <1>4, ServeForward, RecoverForward, FailForward DEF Next

\* A record in the outbox table keeps its payload for good and, once its event was
\* stored or its effect skipped, its status: neither the re-derivation of records
\* at every opening nor a failed or interrupted mark sends it back.
THEOREM OutboxMonotone == Spec => OutboxNeverRegresses
  <1>1. Init => OutboxInv
    BY InitTypeInv DEF OutboxInv, Init, NotBehind, MarkingRetryable
  <1>2. OutboxInv /\ [Next]_vars => OutboxInv'
    BY NextTypeInv, NextForward DEF OutboxInv, Forward
  <1>3. OutboxInv /\ [Next]_vars =>
          [\A k \in DOMAIN table :
             /\ k \in DOMAIN table'
             /\ table'[k].payload = table[k].payload
             /\ table[k].status \in {"stored", "skipped"}
                  => table'[k].status = table[k].status]_vars
    BY NextForward DEF Forward, Keeps, Final
  <1> QED BY <1>1, <1>2, <1>3, PTL DEF Spec, OutboxNeverRegresses

-----------------------------------------------------------------------------
(* Nothing is stored twice, and what was answered is complete.  A record is  *)
(* good in a store with the keys K if its source is there and its status     *)
(* tells the truth.                                                          *)

RecordGood(K, k, r) ==
  /\ k.src \in K
  /\ r.status = "stored" => Key(r.payload) \in K
  /\ r.status = "skipped" => k.effect = "member_list_snapshot"

TableGood(K, t) == \A k \in DOMAIN t : RecordGood(K, k, t[k])
PlanGood(K, s) == \A j \in DOMAIN s : RecordGood(K, s[j].key, s[j].rec)

\* A client's event is being served.
Serving == ~opening /\ pc \in {"records", "materialize", "mark", "mark_failed"}

FromClient(e) == e.id \in SourceIds /\ e.kind \in SourceKinds

\* Every event is the relay's or of a kind that no other event replaces.
LogFromBoth == \A i \in DOMAIN log : log[i] \in Payloads \/ FromClient(log[i])

RecordsGood ==
  /\ TableGood(StoredKeys, table)
  /\ TableGood(StoredKeys, outbox)
  /\ PlanGood(StoredKeys, recs)
  /\ pc \notin {"records", "broken"} => recs = <<>>
  /\ pc = "mark" => Key(outbox[cur].payload) \in StoredKeys

\* The records of the source s are the same in memory and in the table.
InStep(s, t, o) ==
  \A k \in DOMAIN o : k.src = s => k \in DOMAIN t /\ t[k] = o[k]

\* Every promised record of the event e is in the outbox o or still planned in q.
Covered(e, o, q) ==
  \A f \in Promised(e) :
    LET k == [src |-> Key(e), effect |-> f] IN
    k \in DOMAIN o \/ \E j \in DOMAIN q : q[j].key = k

ServingGood ==
  /\ acked \subseteq StoredKeys
  /\ pc \in {"replay", "clear", "checkpoint", "derive"} => opening
  /\ Serving =>
       /\ src \in StoredKeys
       /\ InStep(src, table, outbox)
       /\ \A i \in DOMAIN log : Key(log[i]) = src => Covered(log[i], outbox, recs)

LogInv == OutboxInv /\ LogFromBoth /\ StoredOnce

\* A step leaves the log alone or appends one event that is not there yet.
LogStep ==
  \/ log' = log
  \/ \E e \in Events : /\ log' = Append(log, e)
                       /\ Key(e) \notin StoredKeys
                       /\ e \in Payloads \/ FromClient(e)

\* A client's event is new if the index does not have it: only snapshots, which
\* are the relay's, drop out of the index.
LEMMA UnindexedIsNew ==
  ASSUME LogFromBoth, NEW e \in Events, FromClient(e), Key(e) \notin IndexedKeys
  PROVE  Key(e) \notin StoredKeys
  <1> SUFFICES ASSUME NEW i \in DOMAIN log, Key(log[i]) = Key(e) PROVE FALSE
    BY DEF StoredKeys
  <1>1. log[i].id \in SourceIds
    BY DEF Key, FromClient
  <1>2. log[i] \notin Payloads
    BY <1>1, NoCollision DEF Payloads
  <1>3. log[i].kind \notin SnapshotKinds
    BY <1>2 DEF LogFromBoth, FromClient, SourceKinds, ModerationKinds, UserRequestKinds,
                SnapshotKinds
  <1>4. Key(log[i]) \in IndexedKeys
    BY <1>3 DEF IndexedKeys
  <1> QED BY <1>4

\* The payload of a record is an event of the relay.
LEMMA PayloadType ==
  ASSUME TypeInv, NEW k \in DOMAIN outbox
  PROVE  outbox[k].payload \in Payloads /\ outbox[k].payload \in Events
  <1>1. outbox[k] \in Records
    BY OutboxTypes, TablesMeaning
  <1> QED BY <1>1 DEF Records, Payloads

\* Only a client's new event and a generated one are added to the log, each after
\* looking there, whether or not the sync after adding it fails.
LEMMA NextLogStep ==
  ASSUME LogInv, [Next]_vars PROVE LogStep
  <1>0. TypeInv /\ LogFromBoth
    BY DEF LogInv, OutboxInv
  <1>1. CASE Clients
    <2> PICK e \in ClientEvents :
          FromClient(e) /\ (Submit(e) \/ SubmitFails(e) \/ Duplicate(e))
      BY <1>0, <1>1, ClientsSubmit DEF FromClient
    <2>1. e \in Events
      BY DEF ClientEvents
    <2>2. log' = log \/ (log' = Append(log, e) /\ Key(e) \notin IndexedKeys)
      BY DEF Submit, SubmitFails, Duplicate, Fresh, store
    <2> QED BY <1>0, <2>1, <2>2, UnindexedIsNew DEF LogStep
  <1>2. CASE StoreGenerated
    <2> PICK k \in DOMAIN outbox :
          IF AlreadyStored(outbox[k].payload) THEN log' = log
          ELSE log' = Append(log, outbox[k].payload)
      BY <1>2 DEF StoreGenerated
    <2>1. ~AlreadyStored(outbox[k].payload) => Key(outbox[k].payload) \notin StoredKeys
      BY DEF AlreadyStored
    <2>2. outbox[k].payload \in Payloads /\ outbox[k].payload \in Events
      BY <1>0, PayloadType
    <2> QED BY <2>1, <2>2 DEF LogStep
  <1>3. CASE Serve /\ ~StoreGenerated
    BY <1>3 DEF Serve, LogStep, PutRow, MergeRecord, MergeRecordClashes, RecordsMerged,
                MarkStored, MarkFailed, Finish, store
  <1>4. CASE Recover
    BY <1>4 DEF Recover, LogStep, Open, ReplayEvent, StartClearing, ClearRow, TableCleared,
                PutCheckpoint, DeriveEvent, RecordsDerived, store
  <1>5. CASE StoreGeneratedFails
    <2> PICK k \in DOMAIN outbox :
          /\ ~AlreadyStored(outbox[k].payload)
          /\ log' = log \/ log' = Append(log, outbox[k].payload)
      BY <1>5 DEF StoreGeneratedFails
    <2>1. Key(outbox[k].payload) \notin StoredKeys
      BY DEF AlreadyStored
    <2>2. outbox[k].payload \in Payloads /\ outbox[k].payload \in Events
      BY <1>0, PayloadType
    <2> QED BY <2>1, <2>2 DEF LogStep
  <1>6. CASE Fail /\ ~StoreGeneratedFails
    BY <1>6 DEF Fail, LogStep, PutRowFails, MergeRecordFails, MarkStoredFails, RewriteFails
  <1>7. CASE Crash \/ Shutdown \/ Upgrade \/ UNCHANGED vars
    BY <1>7 DEF LogStep, Crash, Shutdown, Upgrade, vars, store
  <1> QED BY <1>1, <1>2, <1>3, <1>4, <1>5, <1>6, <1>7 DEF Next

\* What the store has it keeps, and what is added to it is new.
Grown ==
  /\ StoredKeys \subseteq StoredKeys'
  /\ \A i \in DOMAIN log : i \in DOMAIN log' /\ log'[i] = log[i]
  /\ \A i \in DOMAIN log' : i \in DOMAIN log \/ Key(log'[i]) \notin StoredKeys

\* An append of a new event keeps the log free of duplicates.
LEMMA LogGrows ==
  ASSUME TypeInv, LogFromBoth, StoredOnce, LogStep
  PROVE  LogFromBoth' /\ StoredOnce' /\ Grown
  <1>0. log \in Seq(Events)
    BY DEF TypeInv, TypeOK
  <1>1. CASE log' = log
    BY <1>1 DEF LogFromBoth, StoredOnce, Grown, StoredKeys
  <1>2. CASE log' # log
    <2> PICK e \in Events : /\ log' = Append(log, e)
                            /\ Key(e) \notin StoredKeys
                            /\ e \in Payloads \/ FromClient(e)
      BY <1>2 DEF LogStep
    <2> DEFINE n == Len(log) + 1
    <2>1. /\ DOMAIN log' = DOMAIN log \cup {n} /\ log'[n] = e /\ n \notin DOMAIN log
          /\ \A i \in DOMAIN log : log'[i] = log[i]
      BY <1>0, AppendType
    <2> HIDE DEF n
    <2>2. \A i \in DOMAIN log : Key(log[i]) # Key(e)
      BY DEF StoredKeys
    <2>3. LogFromBoth'
      BY <2>1 DEF LogFromBoth
    <2>4. StoredOnce'
      BY <2>1, <2>2 DEF StoredOnce
    <2>5. Grown
      BY <2>1 DEF Grown, StoredKeys
    <2> QED BY <2>3, <2>4, <2>5
  <1> QED BY <1>1, <1>2

\* The invariant of the outbox holds initially,
LEMMA InitOutboxInv == Init => OutboxInv
  BY InitTypeInv DEF OutboxInv, Init, NotBehind, MarkingRetryable

\* and is inductive.
LEMMA NextOutboxInv == OutboxInv /\ [Next]_vars => OutboxInv'
  BY NextTypeInv, NextForward DEF OutboxInv, Forward

\* The invariant of the log holds initially,
LEMMA InitLogInv == Init => LogInv
  BY InitOutboxInv DEF LogInv, LogFromBoth, StoredOnce, Init

\* and is inductive.
LEMMA NextLogInv == LogInv /\ [Next]_vars => LogInv' /\ Grown
  BY NextOutboxInv, NextLogStep, LogGrows DEF LogInv, OutboxInv

\* Nothing is stored twice: not a client's event that is sent again, whatever became
\* of its first try, and not a generated event when the process ends, or a write or
\* its sync fails, between the storing of it and its mark, whichever newer snapshots
\* have replaced it in the index meanwhile.  (A store_event is one step.)
THEOREM StoredJustOnce == Spec => []StoredOnce
  <1>1. LogInv => StoredOnce
    BY DEF LogInv
  <1> QED BY InitLogInv, NextLogInv, <1>1, PTL DEF Spec

-----------------------------------------------------------------------------
(* What was answered is complete *)

\* A good record stays good when the store grows.
LEMMA GoodGrows ==
  ASSUME NEW K, NEW L, K \subseteq L
  PROVE  /\ \A t : TableGood(K, t) => TableGood(L, t)
         /\ \A s : PlanGood(K, s) => PlanGood(L, s)
  BY DEF TableGood, PlanGood, RecordGood

\* A good record is added to good ones.
LEMMA UpdateGood ==
  ASSUME NEW K, NEW o \in Tables, TableGood(K, o),
         NEW k \in RecordKeys, NEW r \in Records, RecordGood(K, k, r)
  PROVE  TableGood(K, Update(o, k, r))
  <1>1. /\ DOMAIN Update(o, k, r) = DOMAIN o \cup {k} /\ Update(o, k, r)[k] = r
        /\ \A x \in DOMAIN o : x # k => Update(o, k, r)[x] = o[x]
    BY UpdateFacts
  <1> QED BY <1>1 DEF TableGood

\* A mark tells the truth if the event it calls stored is in the store.
LEMMA MarkGood ==
  ASSUME NEW K, NEW o \in Tables, TableGood(K, o), NEW k \in DOMAIN o,
         NEW s \in {"stored", "failed"}, s = "stored" => Key(o[k].payload) \in K
  PROVE  /\ TableGood(K, WithStatus(o, k, s))
         /\ RecordGood(K, k, WithStatus(o, k, s)[k])
         /\ WithStatus(o, k, s)[k] \in Records
  <1> DEFINE r == [o[k] EXCEPT !.status = s]
  <1>1. /\ k \in RecordKeys /\ r \in Records
        /\ r.payload = o[k].payload /\ r.status = s
    BY WithStatusType, StatusNames
  <1>2. WithStatus(o, k, s) = Update(o, k, r)
    BY DEF WithStatus
  <1> HIDE DEF r
  <1>3. RecordGood(K, k, r)
    BY <1>1 DEF TableGood, RecordGood
  <1>4. Update(o, k, r)[k] = r
    BY <1>1, UpdateFacts
  <1> QED BY <1>1, <1>2, <1>3, <1>4, UpdateGood

\* The records an event calls for: they name it as their source, only a member
\* list is planned as skipped, and what the client is promised is among them.
LEMMA PlanFacts ==
  ASSUME NEW e, NEW p, NEW before
  PROVE  /\ \A j \in DOMAIN Plan(e, p, before) :
              LET x == Plan(e, p, before)[j] IN
              /\ x.key.src = Key(e)
              /\ x.rec.status # "stored"
              /\ x.rec.status = "skipped" => x.key.effect = "member_list_snapshot"
         /\ \A f \in Promised(e) :
              \E j \in DOMAIN Plan(e, p, before) :
                Plan(e, p, before)[j].key = [src |-> Key(e), effect |-> f]
  <1> DEFINE Fits(x) == /\ x.key.src = Key(e)
                        /\ x.rec.status # "stored"
                        /\ x.rec.status = "skipped" => x.key.effect = "member_list_snapshot"
             k(f) == [src |-> Key(e), effect |-> f]
             m == MetadataRecord(e, p)
             a == AdminListRecord(e, p)
             l == MemberListRecord(e, p)
             join == Rec(e, "join_accepted", MembershipPayload("put", e.by, e.at), "pending")
             leave == Rec(e, "leave_accepted", MembershipPayload("remove", e.by, e.at), "pending")
  <1>1. /\ Fits(m) /\ Fits(a) /\ Fits(l) /\ Fits(join) /\ Fits(leave)
    BY DEF MetadataRecord, AdminListRecord, MemberListRecord, Rec
  <1>2. /\ m.key = k("metadata_snapshot") /\ a.key = k("admin_list_snapshot")
        /\ l.key = k("member_list_snapshot") /\ join.key = k("join_accepted")
        /\ leave.key = k("leave_accepted")
    BY DEF MetadataRecord, AdminListRecord, MemberListRecord, Rec
  <1>3. Plan(e, p, before) =
          CASE e.kind = "create" -> <<m, a>>
            [] e.kind = "edit" -> <<m>>
            [] e.kind \in {"put", "remove"} ->
                 IF before # IsOverrideAdmin(p, e.user) THEN <<l, a>> ELSE <<l>>
            [] e.kind = "join" -> <<join>>
            [] e.kind = "leave" -> <<leave>>
            [] OTHER -> <<>>
    BY DEF Plan, MemberSnapshotRecords
  <1> HIDE DEF Fits, m, a, l, join, leave
  <1>4. \A j \in DOMAIN Plan(e, p, before) : Fits(Plan(e, p, before)[j])
    BY <1>1, <1>3
  <1>5. \A f \in Promised(e) : \E j \in DOMAIN Plan(e, p, before) :
          Plan(e, p, before)[j].key = k(f)
    <2>1. CASE e.kind = "create"
      BY <1>2, <1>3, <2>1 DEF Promised
    <2>2. CASE e.kind = "edit"
      BY <1>2, <1>3, <2>2 DEF Promised
    <2>3. CASE e.kind \in {"put", "remove"}
      BY <1>2, <1>3, <2>3 DEF Promised
    <2>4. CASE e.kind = "join"
      BY <1>2, <1>3, <2>4 DEF Promised
    <2>5. CASE e.kind = "leave"
      BY <1>2, <1>3, <2>5 DEF Promised
    <2>6. CASE e.kind \notin {"create", "edit", "put", "remove", "join", "leave"}
      BY <2>6 DEF Promised
    <2> QED BY <2>1, <2>2, <2>3, <2>4, <2>5, <2>6
  <1> QED BY <1>4, <1>5 DEF Fits

\* Planning for an event that is stored gives good records, which cover it.
LEMMA PlanIsGood ==
  ASSUME NEW K, NEW e, NEW p, NEW before, Key(e) \in K, NEW o
  PROVE  PlanGood(K, Plan(e, p, before)) /\ Covered(e, o, Plan(e, p, before))
  BY PlanFacts DEF PlanGood, RecordGood, Covered

\* A sequence is its head and its tail.
LEMMA TailFacts ==
  ASSUME NEW s \in Seq(PlannedRecords), s # <<>>
  PROVE  /\ 1 \in DOMAIN s /\ Head(s) = s[1]
         /\ \A j \in DOMAIN Tail(s) : j + 1 \in DOMAIN s /\ Tail(s)[j] = s[j + 1]
         /\ \A j \in DOMAIN s : j = 1 \/ (j - 1 \in DOMAIN Tail(s) /\ Tail(s)[j - 1] = s[j])
  OBVIOUS

\* The promises made for the event e are kept, in a store with the keys K and the
\* table t.
Complete(K, t, e) ==
  \A f \in Promised(e) :
    LET k == [src |-> Key(e), effect |-> f] IN
    /\ k \in DOMAIN t
    /\ \/ t[k].status = "stored" /\ Key(t[k].payload) \in K
       \/ t[k].status = "skipped" /\ f = "member_list_snapshot"

\* AckedIsComplete says that every event answered OK is complete.
LEMMA CompleteMeaning ==
  /\ AckedIsComplete <=>
       \A i \in DOMAIN log :
         Key(log[i]) \in acked \ errored => Complete(StoredKeys, table, log[i])
  /\ AckedIsComplete' <=>
       \A i \in DOMAIN log' :
         Key(log'[i]) \in acked' \ errored' => Complete(StoredKeys', table', log'[i])
  BY DEF AckedIsComplete, Complete, EffectsOf, Settled

\* An event that is complete stays so.
LEMMA CompleteKept ==
  ASSUME NEW K, NEW L, K \subseteq L, NEW t, NEW u, Keeps(t, u), NEW e, Complete(K, t, e)
  PROVE  Complete(L, u, e)
  BY DEF Complete, Keeps, Final

\* What was complete stays complete: events appended later are other events, and
\* the table keeps final records.
LEMMA AckedKept ==
  ASSUME AckedIsComplete, acked \subseteq StoredKeys, Grown, Keeps(table, table'),
         acked' \ errored' \subseteq acked \ errored
  PROVE  AckedIsComplete'
  <1> SUFFICES ASSUME NEW i \in DOMAIN log', Key(log'[i]) \in acked' \ errored'
               PROVE  Complete(StoredKeys', table', log'[i])
    BY CompleteMeaning
  <1>1. i \in DOMAIN log /\ log'[i] = log[i]
    BY DEF Grown
  <1>2. Complete(StoredKeys, table, log[i])
    BY <1>1, CompleteMeaning
  <1>3. StoredKeys \subseteq StoredKeys'
    BY DEF Grown
  <1>4. \A K, L, t, u, e : K \subseteq L /\ Keeps(t, u) /\ Complete(K, t, e)
                             => Complete(L, u, e)
    BY CompleteKept
  <1> QED BY <1>1, <1>2, <1>3, <1>4

GoodInv == LogInv /\ RecordsGood /\ ServingGood
Good == RecordsGood' /\ ServingGood'

\* The end of the process.
LEMMA DownGood ==
  ASSUME GoodInv, GoDown, UNCHANGED <<log, table, acked>>
  PROVE  Good
  <1>1. /\ pc' = "down" /\ outbox' = <<>> /\ recs' = <<>> /\ StoredKeys' = StoredKeys
        /\ table' = table /\ acked' = acked
    BY DEF GoDown, ResetControl, StoredKeys
  <1>2. RecordsGood'
    BY <1>1 DEF GoodInv, RecordsGood, TableGood, PlanGood
  <1>3. ServingGood'
    BY <1>1 DEF GoodInv, ServingGood, Serving
  <1> QED BY <1>2, <1>3 DEF Good

\* The end of an operation with an error, which leaves the outbox o behind.
LEMMA ErrorGood ==
  ASSUME GoodInv, NEW o, ReturnError(o), UNCHANGED <<log, acked>>,
         TableGood(StoredKeys, o), TableGood(StoredKeys, table')
  PROVE  Good
  <1>1. /\ pc' \in {"idle", "down"} /\ recs' = <<>> /\ StoredKeys' = StoredKeys
        /\ outbox' \in {o, <<>>} /\ acked' = acked
    BY DEF ReturnError, GoDown, ResetControl, StoredKeys
  <1>2. RecordsGood'
    BY <1>1 DEF RecordsGood, TableGood, PlanGood
  <1>3. ServingGood'
    BY <1>1 DEF GoodInv, ServingGood, Serving
  <1> QED BY <1>2, <1>3 DEF Good

\* Steps that leave the records alone.
LEMMA QuietGood ==
  ASSUME GoodInv, Grown, UNCHANGED <<table, outbox, recs, acked, opening, src>>,
         pc' \notin {"records", "broken"} => recs = <<>>,
         pc' = "mark" => Key(outbox[cur'].payload) \in StoredKeys',
         pc' \in {"replay", "clear", "checkpoint", "derive"} => opening,
         Serving' => Serving
  PROVE  Good
  <1>1. StoredKeys \subseteq StoredKeys'
    BY DEF Grown
  <1>2. /\ TableGood(StoredKeys, table) /\ TableGood(StoredKeys, outbox)
        /\ PlanGood(StoredKeys, recs)
    BY DEF GoodInv, RecordsGood
  <1>3. /\ TableGood(StoredKeys', table) /\ TableGood(StoredKeys', outbox)
        /\ PlanGood(StoredKeys', recs)
    BY <1>1, <1>2, GoodGrows
  <1>4. RecordsGood'
    BY <1>3 DEF RecordsGood
  <1>5. ASSUME Serving'
        PROVE  /\ src \in StoredKeys' /\ InStep(src, table, outbox)
               /\ \A i \in DOMAIN log' : Key(log'[i]) = src => Covered(log'[i], outbox, recs)
    <2>1. /\ src \in StoredKeys /\ InStep(src, table, outbox)
          /\ \A i \in DOMAIN log : Key(log[i]) = src => Covered(log[i], outbox, recs)
      BY <1>5 DEF GoodInv, ServingGood
    <2>2. \A i \in DOMAIN log' : Key(log'[i]) = src => i \in DOMAIN log /\ log'[i] = log[i]
      BY <2>1 DEF Grown
    <2> QED BY <1>1, <2>1, <2>2
  <1>6. ServingGood'
    BY <1>1, <1>5 DEF GoodInv, ServingGood
  <1> QED BY <1>4, <1>6 DEF Good

\* A record that is added to memory and table keeps them in step.
LEMMA InStepMerged ==
  ASSUME NEW t \in Tables, NEW o \in Tables, NEW k \in RecordKeys \ DOMAIN o,
         NEW r \in Records
  PROVE  /\ k \in DOMAIN Update(o, k, r) /\ DOMAIN o \subseteq DOMAIN Update(o, k, r)
         /\ \A s : InStep(s, t, o) => InStep(s, Update(t, k, r), Update(o, k, r))
  <1> DEFINE a == Update(o, k, r)
             b == Update(t, k, r)
  <1>1. DOMAIN a = DOMAIN o \cup {k} /\ a[k] = r /\ \A x \in DOMAIN o : x # k => a[x] = o[x]
    BY UpdateFacts
  <1>2. DOMAIN b = DOMAIN t \cup {k} /\ b[k] = r /\ \A x \in DOMAIN t : x # k => b[x] = t[x]
    BY UpdateFacts
  <1> HIDE DEF a, b
  <1>3. k \in DOMAIN a /\ DOMAIN o \subseteq DOMAIN a
        /\ \A s : InStep(s, t, o) => InStep(s, b, a)
    BY <1>1, <1>2 DEF InStep
  <1> QED BY <1>3 DEF a, b

\* So does a record that is marked in both.
LEMMA InStepMarked ==
  ASSUME NEW t \in Tables, NEW o \in Tables, NEW k \in DOMAIN o, NEW m \in Statuses
  PROVE  \A s : InStep(s, t, o) =>
                InStep(s, Update(t, k, WithStatus(o, k, m)[k]), WithStatus(o, k, m))
  <1> DEFINE r == [o[k] EXCEPT !.status = m]
             a == WithStatus(o, k, m)
             b == Update(t, k, a[k])
  <1>1. k \in RecordKeys /\ r \in Records
    BY WithStatusType
  <1>2. a = Update(o, k, r)
    BY DEF WithStatus
  <1> HIDE DEF r, a, b
  <1>3. DOMAIN a = DOMAIN o \cup {k} /\ a[k] = r /\ \A x \in DOMAIN o : x # k => a[x] = o[x]
    BY <1>1, <1>2, UpdateFacts
  <1>4. DOMAIN b = DOMAIN t \cup {k} /\ b[k] = r /\ \A x \in DOMAIN t : x # k => b[x] = t[x]
    BY <1>1, <1>3, UpdateFacts DEF b
  <1>5. \A s : InStep(s, t, o) => InStep(s, b, a)
    BY <1>3, <1>4 DEF InStep
  <1> QED BY <1>5 DEF a, b

\* A client's event comes in: it is new, so nothing is recorded for it yet.
LEMMA SubmitGood ==
  ASSUME GoodInv, Grown, NEW e \in ClientEvents, Submit(e), pc = "idle"
  PROVE  Good
  <1> DEFINE n == Len(log) + 1
             q == Plan(e, proj', WasOverrideAdmin(e, proj))
  <1>0. log \in Seq(Events) /\ e \in Events
    BY DEF GoodInv, LogInv, OutboxInv, TypeInv, TypeOK, ClientEvents
  <1>1. /\ log' = Append(log, e) /\ recs' = q /\ src' = Key(e) /\ pc' = "records"
        /\ UNCHANGED <<table, outbox, opening, acked>>
    BY DEF Submit, history
  <1>2. /\ DOMAIN log' = DOMAIN log \cup {n} /\ log'[n] = e /\ n \notin DOMAIN log
    BY <1>0, <1>1, AppendType
  <1> HIDE DEF n
  <1>3. Key(e) \notin StoredKeys /\ Key(e) \in StoredKeys'
    BY <1>2 DEF Grown, StoredKeys
  <1>4. StoredKeys \subseteq StoredKeys'
    BY DEF Grown
  <1>5. PlanGood(StoredKeys', q) /\ Covered(e, outbox, q)
    BY <1>3, PlanIsGood
  <1> HIDE DEF q
  <1>6. TableGood(StoredKeys, table) /\ TableGood(StoredKeys, outbox)
    BY DEF GoodInv, RecordsGood
  <1>7. TableGood(StoredKeys', table) /\ TableGood(StoredKeys', outbox)
    BY <1>4, <1>6, GoodGrows
  <1>8. RecordsGood'
    BY <1>1, <1>5, <1>7 DEF RecordsGood
  <1>9. InStep(Key(e), table, outbox)
    BY <1>3, <1>6 DEF InStep, TableGood, RecordGood
  <1>10. \A i \in DOMAIN log' : Key(log'[i]) = Key(e) => log'[i] = e
    BY <1>2, <1>3 DEF Grown, StoredKeys
  <1>11. ServingGood'
    BY <1>1, <1>3, <1>4, <1>5, <1>9, <1>10 DEF GoodInv, ServingGood
  <1> QED BY <1>8, <1>11 DEF Good

\* A client's event is sent again, or the sync after storing it fails.
LEMMA UnservedGood ==
  ASSUME GoodInv, Grown, NEW e, SubmitFails(e) \/ Duplicate(e), pc = "idle"
  PROVE  Good
  <1>1. UNCHANGED <<table, outbox, recs, opening, src, pc>>
    BY DEF SubmitFails, Duplicate, store, control
  <1>2. StoredKeys \subseteq StoredKeys' /\ acked' \subseteq StoredKeys'
    <2>1. acked \subseteq StoredKeys /\ StoredKeys \subseteq StoredKeys'
      BY DEF GoodInv, ServingGood, Grown
    <2>2. CASE SubmitFails(e)
      BY <2>1, <2>2 DEF SubmitFails
    <2>3. CASE Duplicate(e)
      <3>1. Key(e) \in StoredKeys /\ acked' = acked \cup {Key(e)}
        BY <2>3 DEF Duplicate, StoredKeys
      <3> QED BY <2>1, <3>1
    <2> QED BY <2>2, <2>3
  <1>3. TableGood(StoredKeys', table) /\ TableGood(StoredKeys', outbox) /\ recs = <<>>
    BY <1>2, GoodGrows DEF GoodInv, RecordsGood
  <1>4. RecordsGood'
    BY <1>1, <1>3 DEF RecordsGood, PlanGood
  <1>5. ServingGood'
    BY <1>1, <1>2 DEF ServingGood, Serving
  <1> QED BY <1>4, <1>5 DEF Good

\* A planned record is merged.
LEMMA MergeGood ==
  ASSUME GoodInv, Grown, MergeRecord PROVE Good
  <1>0. /\ TypeInv /\ table \in Tables /\ outbox \in Tables /\ recs \in Seq(PlannedRecords)
        /\ recs # <<>>
    BY OutboxTypes DEF GoodInv, LogInv, OutboxInv, MergeRecord
  <1> DEFINE h == Head(recs)
             K == StoredKeys
  <1>1. h.key \in RecordKeys /\ h.rec \in Records
    BY <1>0, HeadType
  <1>2. /\ recs' = Tail(recs) /\ pc = "records" /\ pc' = pc
        /\ UNCHANGED <<log, opening, src, acked>>
        /\ \/ h.key \in DOMAIN outbox /\ outbox' = outbox /\ table' = table
           \/ /\ h.key \notin DOMAIN outbox
              /\ outbox' = Update(outbox, h.key, h.rec)
              /\ table' = Update(table, h.key, h.rec)
    BY DEF MergeRecord, history
  <1>3. /\ 1 \in DOMAIN recs /\ h = recs[1]
        /\ \A j \in DOMAIN recs' : j + 1 \in DOMAIN recs /\ recs'[j] = recs[j + 1]
        /\ \A j \in DOMAIN recs : j = 1 \/ (j - 1 \in DOMAIN recs' /\ recs'[j - 1] = recs[j])
    BY <1>0, <1>2, TailFacts
  <1> HIDE DEF h
  <1>4. K' = K
    BY <1>2 DEF StoredKeys
  <1>5. TableGood(K, table) /\ TableGood(K, outbox) /\ PlanGood(K, recs)
    BY DEF GoodInv, RecordsGood
  <1> HIDE DEF K
  <1>6. RecordGood(K, h.key, h.rec) /\ PlanGood(K, recs')
    BY <1>3, <1>5 DEF PlanGood
  <1>7. TableGood(K, table') /\ TableGood(K, outbox')
    BY <1>0, <1>1, <1>2, <1>5, <1>6, UpdateGood
  <1>8. RecordsGood'
    BY <1>2, <1>4, <1>6, <1>7 DEF RecordsGood, K
  <1>9. h.key \in DOMAIN outbox' /\ DOMAIN outbox \subseteq DOMAIN outbox'
    BY <1>0, <1>1, <1>2, InStepMerged
  <1>10. \A s : InStep(s, table, outbox) => InStep(s, table', outbox')
    BY <1>0, <1>1, <1>2, InStepMerged
  <1>11. \A e : Covered(e, outbox, recs) => Covered(e, outbox', recs')
    BY <1>3, <1>9 DEF Covered
  <1>12. ServingGood'
    BY <1>2, <1>4, <1>10, <1>11 DEF GoodInv, ServingGood, Serving, K
  <1> QED BY <1>8, <1>12 DEF Good

\* A generated event is marked stored, in memory and in the table.
LEMMA MarkStoredGood ==
  ASSUME GoodInv, Grown, MarkStored PROVE Good
  <1> DEFINE o == WithStatus(outbox, cur, "stored")
             K == StoredKeys
  <1>0. /\ TypeInv /\ table \in Tables /\ outbox \in Tables /\ cur \in DOMAIN outbox
        /\ cur \in RecordKeys
    BY OutboxTypes, TablesMeaning DEF GoodInv, LogInv, OutboxInv, MarkStored
  <1>1. /\ pc = "mark" /\ pc' = "materialize" /\ outbox' = o
        /\ table' = Update(table, cur, o[cur])
        /\ UNCHANGED <<log, opening, src, recs, acked>>
    BY DEF MarkStored, history
  <1>2. /\ TableGood(K, table) /\ TableGood(K, outbox) /\ PlanGood(K, recs) /\ recs = <<>>
        /\ Key(outbox[cur].payload) \in K
    BY <1>1 DEF GoodInv, RecordsGood
  <1>3. K' = K
    BY <1>1 DEF StoredKeys
  <1> HIDE DEF K
  <1>4. TableGood(K, o) /\ RecordGood(K, cur, o[cur]) /\ o[cur] \in Records
    BY <1>0, <1>2, MarkGood
  <1>5. DOMAIN o = DOMAIN outbox
    BY <1>0, WithStatusType, StatusNames
  <1>6. \A s : InStep(s, table, outbox) => InStep(s, Update(table, cur, o[cur]), o)
    BY <1>0, InStepMarked, StatusNames
  <1> HIDE DEF o
  <1>7. TableGood(K, table')
    BY <1>0, <1>1, <1>2, <1>4, UpdateGood
  <1>8. RecordsGood'
    BY <1>1, <1>2, <1>3, <1>4, <1>7 DEF RecordsGood, K
  <1>9. \A s : InStep(s, table, outbox) => InStep(s, table', outbox')
    BY <1>1, <1>6
  <1>10. \A e : Covered(e, outbox, recs) => Covered(e, outbox', recs')
    BY <1>1, <1>5 DEF Covered
  <1>11. ServingGood'
    BY <1>1, <1>3, <1>9, <1>10 DEF GoodInv, ServingGood, Serving, K
  <1> QED BY <1>8, <1>11 DEF Good

\* Nothing is left to retry.
LEMMA FinishGood ==
  ASSUME GoodInv, Finish PROVE Good
  <1>0. /\ outbox \in Tables /\ pc = "materialize"
        /\ pc' = "idle" /\ recs' = <<>> /\ opening' = FALSE
        /\ UNCHANGED <<log, table, outbox>>
        /\ acked' = IF opening THEN acked ELSE acked \cup {src}
    BY OutboxTypes DEF GoodInv, LogInv, OutboxInv, Finish, ResetControl, store
  <1>1. StoredKeys' = StoredKeys
    BY <1>0 DEF StoredKeys
  <1>2. TableGood(StoredKeys, table) /\ TableGood(StoredKeys, outbox)
    BY DEF GoodInv, RecordsGood
  <1>3. RecordsGood'
    BY <1>0, <1>1, <1>2 DEF RecordsGood, PlanGood
  <1>4. acked' \subseteq StoredKeys
    BY <1>0 DEF GoodInv, ServingGood, Serving
  <1>5. ServingGood'
    BY <1>0, <1>1, <1>4 DEF ServingGood, Serving
  <1> QED BY <1>3, <1>5 DEF Good

\* Once nothing is left to retry, an event whose records are covered and in step is
\* complete.
LEMMA CoveredComplete ==
  ASSUME GoodInv, Retryable(outbox) = {}, NEW e, Covered(e, outbox, <<>>),
         InStep(Key(e), table, outbox)
  PROVE  Complete(StoredKeys, table, e)
  <1>0. outbox \in Tables /\ TableGood(StoredKeys, outbox)
    BY OutboxTypes DEF GoodInv, LogInv, OutboxInv, RecordsGood
  <1> SUFFICES ASSUME NEW f \in Promised(e), NEW k, k = [src |-> Key(e), effect |-> f]
               PROVE  /\ k \in DOMAIN table
                      /\ \/ table[k].status = "stored" /\ Key(table[k].payload) \in StoredKeys
                         \/ table[k].status = "skipped" /\ f = "member_list_snapshot"
    BY DEF Complete
  <1>1. k \in DOMAIN outbox
    BY DEF Covered
  <1>2. k.src = Key(e) /\ k.effect = f
    OBVIOUS
  <1>3. k \in DOMAIN table /\ table[k] = outbox[k]
    BY <1>1, <1>2 DEF InStep
  <1>4. outbox[k].status \in {"stored", "skipped"}
    <2>1. outbox[k] \in Records
      BY <1>0, <1>1, TablesMeaning
    <2> QED BY <1>1, <2>1 DEF Records, Statuses, Retryable, IsRetryable
  <1>5. RecordGood(StoredKeys, k, outbox[k])
    BY <1>0, <1>1 DEF TableGood
  <1> QED BY <1>2, <1>3, <1>4, <1>5 DEF RecordGood

\* The steps of an operation but its last.
LEMMA ServeGood == GoodInv /\ Grown /\ Serve /\ ~Finish => Good
  <1> SUFFICES ASSUME GoodInv, Grown, Serve, ~Finish PROVE Good
    OBVIOUS
  <1>0. /\ TypeInv /\ RecordsGood /\ ServingGood
        /\ table \in Tables /\ outbox \in Tables
        /\ TableGood(StoredKeys, table) /\ TableGood(StoredKeys, outbox)
        /\ pc \in {"mark", "mark_failed"} => cur \in DOMAIN outbox
    BY OutboxTypes DEF GoodInv, LogInv, OutboxInv, RecordsGood
  <1>1. CASE PutRow
    <2>1. /\ pc \in {"records", "mark", "checkpoint"} /\ pc' = pc
          /\ UNCHANGED <<log, table, outbox, recs, acked, opening, src, cur>>
      BY <1>1 DEF PutRow, history
    <2>2. pc' = "mark" => Key(outbox[cur'].payload) \in StoredKeys'
      BY <1>0, <2>1 DEF RecordsGood, Grown
    <2> QED BY <1>0, <2>1, <2>2, QuietGood DEF RecordsGood, ServingGood, Serving
  <1>2. CASE MergeRecord
    BY <1>2, MergeGood
  <1>3. CASE MergeRecordClashes
    <2>1. pc = "records" /\ UNCHANGED <<log, table, acked>>
      BY <1>3 DEF MergeRecordClashes, store
    <2>2. CASE opening
      <3>1. pc' = "broken" /\ UNCHANGED <<outbox, recs, opening, src>>
        BY <1>3, <2>2 DEF MergeRecordClashes, control
      <3> QED BY <2>1, <3>1, QuietGood DEF Serving
    <2>3. CASE ~opening
      BY <1>0, <1>3, <2>1, <2>3, ErrorGood DEF MergeRecordClashes
    <2> QED BY <2>2, <2>3
  <1>4. CASE RecordsMerged
    <2>1. /\ pc = "records" /\ recs = <<>> /\ pc' = IF opening THEN "derive" ELSE "materialize"
          /\ UNCHANGED <<table, outbox, recs, acked, opening, src>>
      BY <1>4 DEF RecordsMerged, store, control, history
    <2> QED BY <2>1, QuietGood DEF Serving
  <1>5. CASE StoreGenerated
    <2>1. /\ pc = "materialize" /\ pc' = "mark"
          /\ UNCHANGED <<table, outbox, recs, acked, opening, src>>
      BY <1>5 DEF StoreGenerated, history
    <2>2. recs = <<>>
      BY <1>0, <2>1 DEF RecordsGood
    <2>3. Key(outbox[cur'].payload) \in StoredKeys'
      <3>1. /\ cur' \in DOMAIN outbox
            /\ \/ AlreadyStored(outbox[cur'].payload)
               \/ log' = Append(log, outbox[cur'].payload)
        BY <1>5 DEF StoreGenerated
      <3> PICK x : x = outbox[cur'].payload
        OBVIOUS
      <3>2. x \in Events
        <4>1. \A k \in DOMAIN outbox : outbox[k].payload \in Events
          BY <1>0, PayloadType
        <4> QED BY <3>1, <4>1
      <3>3. CASE AlreadyStored(x)
        <4>1. Key(x) \in StoredKeys
          BY <3>3 DEF AlreadyStored, IndexedKeys, StoredKeys
        <4> QED BY <4>1 DEF Grown
      <3>4. CASE log' = Append(log, x)
        <4>1. log \in Seq(Events)
          BY <1>0 DEF TypeInv, TypeOK
        <4>2. Len(log) + 1 \in DOMAIN log' /\ log'[Len(log) + 1] = x
          BY <3>2, <3>4, <4>1, AppendType
        <4> QED BY <4>2 DEF StoredKeys
      <3> QED BY <3>1, <3>3, <3>4
    <2> QED BY <2>1, <2>2, <2>3, QuietGood DEF Serving
  <1>6. CASE MarkStored
    BY <1>6, MarkStoredGood
  <1>7. CASE MarkFailed
    <2> DEFINE o == WithStatus(outbox, cur, "failed")
    <2>1. cur \in DOMAIN outbox /\ cur \in RecordKeys
      BY <1>0, <1>7, TablesMeaning DEF MarkFailed
    <2>2. /\ ReturnError(o) /\ (table' = Update(table, cur, o[cur]) \/ table' = table)
          /\ UNCHANGED <<log, acked>>
      BY <1>7 DEF MarkFailed
    <2>3. TableGood(StoredKeys, o) /\ RecordGood(StoredKeys, cur, o[cur]) /\ o[cur] \in Records
      BY <1>0, <2>1, MarkGood
    <2> HIDE DEF o
    <2>4. TableGood(StoredKeys, table')
      BY <1>0, <2>1, <2>2, <2>3, UpdateGood
    <2> QED BY <2>2, <2>3, <2>4, ErrorGood
  <1> QED BY <1>1, <1>2, <1>3, <1>4, <1>5, <1>6, <1>7 DEF Serve

\* The steps of an opening.
LEMMA RecoverGood == GoodInv /\ Grown /\ Recover => Good
  <1> SUFFICES ASSUME GoodInv, Grown, Recover PROVE Good
    OBVIOUS
  <1>0. TypeInv /\ RecordsGood /\ ServingGood
    BY DEF GoodInv, LogInv, OutboxInv
  <1>1. CASE Open
    <2>1. /\ pc = "down" /\ outbox' = table /\ opening' = TRUE /\ pc' \in {"derive", "replay"}
          /\ UNCHANGED <<log, table, recs, acked>>
      BY <1>1 DEF Open, StartDeriving, store, history
    <2>2. StoredKeys' = StoredKeys
      BY <2>1 DEF StoredKeys
    <2>3. RecordsGood'
      BY <1>0, <2>1, <2>2 DEF RecordsGood
    <2>4. ServingGood'
      BY <1>0, <2>1, <2>2 DEF ServingGood, Serving
    <2> QED BY <2>3, <2>4 DEF Good
  <1>2. CASE ReplayEvent \/ StartClearing \/ ClearRow \/ TableCleared \/ PutCheckpoint
             \/ RecordsDerived
    <2>1. /\ pc \in {"replay", "clear", "checkpoint", "derive"}
          /\ pc' \in {"replay", "clear", "checkpoint", "derive", "materialize"}
          /\ UNCHANGED <<table, outbox, recs, acked, opening, src>>
      BY <1>2 DEF ReplayEvent, StartClearing, ClearRow, TableCleared, PutCheckpoint,
                  RecordsDerived, StartDeriving, store, control, history
    <2>2. opening /\ recs = <<>>
      BY <1>0, <2>1 DEF RecordsGood, ServingGood
    <2> QED BY <2>1, <2>2, QuietGood DEF Serving
  <1>3. CASE DeriveEvent
    <2> PICK i \in todo :
          \/ UNCHANGED <<pc, recs>>
          \/ pc' = "broken" /\ UNCHANGED recs
          \/ /\ pc' = "records"
             /\ recs' = Plan(log[i], scratch', WasOverrideAdmin(log[i], scratch))
      BY <1>3 DEF DeriveEvent
    <2>1. pc = "derive" /\ UNCHANGED <<log, table, outbox, acked, opening, src>>
      BY <1>3 DEF DeriveEvent, store, history
    <2>2. opening /\ recs = <<>>
      BY <1>0, <2>1 DEF RecordsGood, ServingGood
    <2>3. CASE UNCHANGED recs /\ pc' \in {"derive", "broken"}
      BY <2>1, <2>2, <2>3, QuietGood DEF Serving
    <2>4. CASE pc' = "records" /\ recs' = Plan(log[i], scratch', WasOverrideAdmin(log[i], scratch))
      <3>1. Key(log[i]) \in StoredKeys /\ StoredKeys' = StoredKeys
        BY <1>0, <2>1 DEF TypeInv, TypeOK, StoredKeys
      <3>2. PlanGood(StoredKeys, recs')
        BY <2>4, <3>1, PlanIsGood
      <3>3. RecordsGood'
        BY <1>0, <2>1, <2>4, <3>1, <3>2 DEF RecordsGood
      <3>4. ServingGood'
        BY <1>0, <2>1, <2>2, <2>4, <3>1 DEF ServingGood, Serving
      <3> QED BY <3>3, <3>4 DEF Good
    <2> QED BY <2>1, <2>3, <2>4
  <1> QED BY <1>1, <1>2, <1>3 DEF Recover

\* Failed writes.
LEMMA FailGood == GoodInv /\ Grown /\ Fail => Good
  <1> SUFFICES ASSUME GoodInv, Grown, Fail PROVE Good
    OBVIOUS
  <1>0. /\ TypeInv /\ RecordsGood /\ ServingGood
        /\ table \in Tables /\ outbox \in Tables
        /\ TableGood(StoredKeys, table) /\ TableGood(StoredKeys, outbox)
        /\ pc \in {"mark", "mark_failed"} => cur \in DOMAIN outbox
    BY OutboxTypes DEF GoodInv, LogInv, OutboxInv, RecordsGood
  <1>1. CASE PutRowFails
    <2>0. UNCHANGED <<log, table, acked>>
      BY <1>1 DEF PutRowFails
    <2>1. CASE pc = "mark"
      <3>1. pc' = "mark_failed" /\ UNCHANGED <<outbox, recs, opening, src>> /\ recs = <<>>
        BY <1>0, <1>1, <2>1 DEF PutRowFails, RecordsGood
      <3> QED BY <1>0, <2>0, <2>1, <3>1, QuietGood DEF Serving
    <2>2. CASE pc # "mark"
      BY <1>0, <1>1, <2>0, <2>2, ErrorGood DEF PutRowFails
    <2> QED BY <2>1, <2>2
  <1>2. CASE MergeRecordFails
    <2> DEFINE o == Update(outbox, Head(recs).key, Head(recs).rec)
               t == Update(table, Head(recs).key, Head(recs).rec)
    <2>1. recs # <<>> /\ recs \in Seq(PlannedRecords) /\ PlanGood(StoredKeys, recs)
      BY <1>0, <1>2, OutboxTypes DEF MergeRecordFails, RecordsGood
    <2>2. Head(recs).key \in RecordKeys /\ Head(recs).rec \in Records
      BY <1>0, <2>1, HeadType
    <2>3. RecordGood(StoredKeys, Head(recs).key, Head(recs).rec)
      BY <2>1, TailFacts DEF PlanGood
    <2>4. TableGood(StoredKeys, o) /\ TableGood(StoredKeys, t)
      BY <1>0, <2>2, <2>3, UpdateGood
    <2>5. ReturnError(o) /\ table' \in {table, t} /\ UNCHANGED <<log, acked>>
      BY <1>2 DEF MergeRecordFails
    <2> HIDE DEF o, t
    <2> QED BY <1>0, <2>4, <2>5, ErrorGood
  <1>3. CASE StoreGeneratedFails
    <2>1. /\ pc = "materialize" /\ pc' = "mark_failed"
          /\ UNCHANGED <<table, acked, outbox, recs, opening, src>> /\ recs = <<>>
      BY <1>0, <1>3 DEF StoreGeneratedFails, RecordsGood
    <2> QED BY <1>0, <2>1, QuietGood DEF Serving
  <1>4. CASE MarkStoredFails
    <2> DEFINE o == WithStatus(outbox, cur, "stored")
               t == Update(table, cur, o[cur])
    <2>1. /\ cur \in DOMAIN outbox /\ cur \in RecordKeys
          /\ Key(outbox[cur].payload) \in StoredKeys
      BY <1>0, <1>4, TablesMeaning DEF MarkStoredFails, RecordsGood
    <2>2. TableGood(StoredKeys, o) /\ RecordGood(StoredKeys, cur, o[cur]) /\ o[cur] \in Records
      BY <1>0, <2>1, MarkGood
    <2>3. ReturnError(o) /\ table' \in {table, t} /\ UNCHANGED <<log, acked>>
      BY <1>4 DEF MarkStoredFails
    <2>4. TableGood(StoredKeys, t)
      BY <1>0, <2>1, <2>2, UpdateGood
    <2> HIDE DEF o, t
    <2> QED BY <1>0, <2>2, <2>3, <2>4, ErrorGood
  <1>5. CASE RewriteFails
    BY <1>0, <1>5, DownGood DEF RewriteFails
  <1> QED BY <1>1, <1>2, <1>3, <1>4, <1>5 DEF Fail

\* The records and the service stay good.
LEMMA NextGood ==
  ASSUME GoodInv, [Next]_vars PROVE Good
  <1>0. GoodInv /\ Grown /\ TypeInv
    BY NextLogInv DEF GoodInv, LogInv, OutboxInv
  <1>1. CASE Clients
    <2> PICK e \in ClientEvents : Submit(e) \/ SubmitFails(e) \/ Duplicate(e)
      BY <1>0, <1>1, ClientsSubmit
    <2> QED BY <1>0, <1>1, SubmitGood, UnservedGood DEF Clients
  <1>2. CASE Crash \/ Shutdown
    BY <1>0, <1>2, DownGood DEF Crash, Shutdown, store
  <1>3. CASE Upgrade \/ UNCHANGED vars
    <2>1. pc' = pc /\ cur' = cur /\ UNCHANGED <<table, outbox, recs, acked, opening, src>>
      BY <1>3 DEF Upgrade, vars, store, control, history
    <2>2. /\ pc = "mark" => Key(outbox[cur].payload) \in StoredKeys'
          /\ pc \notin {"records", "broken"} => recs = <<>>
          /\ pc \in {"replay", "clear", "checkpoint", "derive"} => opening
      BY <1>0 DEF GoodInv, RecordsGood, ServingGood, Grown
    <2> QED BY <1>0, <2>1, <2>2, QuietGood DEF Serving
  <1> QED BY <1>0, <1>1, <1>2, <1>3, FinishGood, ServeGood, RecoverGood, FailGood DEF Next

-----------------------------------------------------------------------------
(* An answer.  While the service runs, the records of every client's event    *)
(* are settled but those of the event being served and of the events that     *)
(* were answered with an error; those the opening derives, or finds, and      *)
(* settles before the service runs again.                                     *)

Running == ~opening /\ pc # "down"
Deriving == pc \in {"derive", "records", "materialize", "mark", "mark_failed"}
Materializing == pc \in {"materialize", "mark", "mark_failed"}

\* Keys of the events that were not answered OK.
Unanswered == errored \cup {k \in {src} : Serving}

AllInStep(t, o) == \A s : InStep(s, t, o)

AnsweredClients ==
  /\ \A i \in DOMAIN log : Key(log[i]) \in acked => log[i].by # Relay
  /\ Serving => \A i \in DOMAIN log : Key(log[i]) = src => log[i].by # Relay
AnsweredSettled ==
  Running =>
    \A i \in Sources : Key(log[i]) \notin Unanswered => Complete(StoredKeys, table, log[i])
OpeningDerives ==
  /\ pc \in {"down", "idle"} => ~opening
  /\ opening => AllInStep(table, outbox)
  /\ opening /\ Deriving => \A i \in Sources \ todo : Covered(log[i], outbox, recs)
  /\ opening /\ Materializing => todo = {}

AnswersGood == AnsweredClients /\ AnsweredSettled /\ OpeningDerives
CompleteInv == LogInv /\ RecordsGood /\ ServingGood /\ AckedIsComplete /\ AnswersGood

\* Events that are added are the relay's.
RelayGrown == \A i \in DOMAIN log' : i \in DOMAIN log \/ log'[i].by = Relay

\* The clients' events then stay the same.
LEMMA SameSources ==
  ASSUME Grown, RelayGrown
  PROVE  /\ Sources' = Sources
         /\ \A i \in Sources : i \in DOMAIN log /\ log'[i] = log[i]
  BY DEF Grown, RelayGrown, Sources

\* What client events are answered for.
LEMMA SameClients ==
  ASSUME AnsweredClients, Grown, acked \subseteq StoredKeys, acked' = acked,
         Serving' => \/ Serving /\ src' = src /\ src \in StoredKeys
                     \/ \A i \in DOMAIN log' : Key(log'[i]) = src' => log'[i].by # Relay
  PROVE  AnsweredClients'
  <1>1. ASSUME NEW i \in DOMAIN log', Key(log'[i]) \in acked' PROVE log'[i].by # Relay
    BY <1>1 DEF Grown, AnsweredClients
  <1>2. ASSUME Serving', NEW i \in DOMAIN log', Key(log'[i]) = src' PROVE log'[i].by # Relay
    BY <1>2 DEF Grown, AnsweredClients
  <1> QED BY <1>1, <1>2 DEF AnsweredClients

\* The process ends, or has ended.
LEMMA DownAnswers ==
  ASSUME AnsweredClients, UNCHANGED <<log, acked>>, pc' = "down", opening' = FALSE
  PROVE  AnswersGood'
  BY DEF AnswersGood, AnsweredClients, AnsweredSettled, OpeningDerives, Running, Serving

\* The service is running and goes on with its operation, or ends it with an error.
LEMMA RunningAnswers ==
  ASSUME CompleteInv, Running, Grown, RelayGrown, Keeps(table, table'),
         UNCHANGED <<acked, opening>>, errored \subseteq errored',
         Serving => (Serving' /\ src' = src) \/ src \in errored',
         Serving' => Serving /\ src' = src
  PROVE  AnswersGood'
  <1>0. ~opening /\ ~opening' /\ AnswersGood /\ ServingGood
    BY DEF Running, CompleteInv
  <1>1. AnsweredClients'
    <2>1. Serving => src \in StoredKeys
      BY <1>0 DEF ServingGood
    <2> QED BY <1>0, <2>1, SameClients DEF AnswersGood, ServingGood
  <1>2. ASSUME NEW i \in Sources', Key(log'[i]) \notin Unanswered'
        PROVE  Complete(StoredKeys', table', log'[i])
    <2>1. i \in Sources /\ log'[i] = log[i]
      BY <1>2, SameSources
    <2>2. Key(log[i]) \notin Unanswered
      BY <1>2, <2>1 DEF Unanswered
    <2>3. Complete(StoredKeys, table, log[i])
      BY <1>0, <2>1, <2>2 DEF AnswersGood, AnsweredSettled
    <2>4. StoredKeys \subseteq StoredKeys'
      BY DEF Grown
    <2>5. \A K, L, t, u, e : K \subseteq L /\ Keeps(t, u) /\ Complete(K, t, e)
                               => Complete(L, u, e)
      BY CompleteKept
    <2> QED BY <2>1, <2>3, <2>4, <2>5
  <1> QED BY <1>0, <1>1, <1>2 DEF AnswersGood, AnsweredSettled, OpeningDerives

\* The service is opening and goes on with it.
LEMMA OpeningAnswers ==
  ASSUME CompleteInv, Grown, RelayGrown, acked' = acked, opening',
         pc' \notin {"down", "idle"}, AllInStep(table', outbox'),
         Deriving' => \A i \in Sources \ todo' : Covered(log[i], outbox', recs'),
         Materializing' => todo' = {}
  PROVE  AnswersGood'
  <1>1. AnsweredClients'
    BY SameClients DEF CompleteInv, AnswersGood, ServingGood, Serving
  <1>2. OpeningDerives'
    <2>1. Deriving' => \A i \in Sources' \ todo' : Covered(log'[i], outbox', recs')
      BY SameSources
    <2> QED BY <2>1 DEF OpeningDerives
  <1> QED BY <1>1, <1>2 DEF AnswersGood, AnsweredSettled, Running

\* A step of the opening that leaves the records alone.
LEMMA QuietOpening ==
  ASSUME CompleteInv, Grown, RelayGrown, opening,
         UNCHANGED <<acked, opening, table, outbox, recs, todo>>,
         pc' \notin {"down", "idle"}, Deriving' => Deriving,
         Materializing' => Materializing \/ todo = {}
  PROVE  AnswersGood'
  <1>1. AllInStep(table', outbox')
    BY DEF CompleteInv, AnswersGood, OpeningDerives
  <1>2. Deriving' => \A i \in Sources \ todo' : Covered(log[i], outbox', recs')
    BY DEF CompleteInv, AnswersGood, OpeningDerives
  <1>3. Materializing' => todo' = {}
    BY DEF CompleteInv, AnswersGood, OpeningDerives
  <1> QED BY <1>1, <1>2, <1>3, OpeningAnswers

\* A client's event comes in, or comes in again.
LEMMA ClientAnswers ==
  ASSUME CompleteInv, Grown, pc = "idle", NEW e \in ClientEvents,
         Submit(e) \/ SubmitFails(e) \/ Duplicate(e)
  PROVE  AnswersGood' /\ AckedIsComplete'
  <1>0. /\ log \in Seq(Events) /\ e \in Events /\ e.by # Relay /\ ~opening /\ Running
        /\ AnswersGood /\ AckedIsComplete /\ StoredOnce /\ acked \subseteq StoredKeys
    BY ProjectionAssumption
       DEF CompleteInv, LogInv, OutboxInv, TypeInv, TypeOK, ClientEvents, AnswersGood,
           OpeningDerives, Running, ServingGood
  <1>1. CASE Submit(e) \/ SubmitFails(e)
    <2> DEFINE n == Len(log) + 1
    <2>1. /\ log' = Append(log, e) /\ UNCHANGED <<table, acked, opening>>
          /\ errored \subseteq errored'
          /\ \/ pc' = "records" /\ src' = Key(e)
             \/ pc' = "idle" /\ Key(e) \in errored'
      BY <1>0, <1>1 DEF Submit, SubmitFails, history, control
    <2>2. /\ DOMAIN log' = DOMAIN log \cup {n} /\ log'[n] = e /\ n \notin DOMAIN log
      BY <1>0, <2>1, AppendType
    <2> HIDE DEF n
    <2>3. \A i \in DOMAIN log : log'[i] = log[i]
      BY DEF Grown
    <2>4. \A i \in DOMAIN log' : Key(log'[i]) = Key(e) => log'[i] = e
      BY <2>2, <2>3 DEF Grown, StoredKeys
    <2>5. AnsweredClients'
      <3>1. Serving' => \A i \in DOMAIN log' : Key(log'[i]) = src' => log'[i].by # Relay
        BY <1>0, <2>1, <2>4 DEF Serving
      <3> QED BY <1>0, <2>1, <3>1, SameClients DEF AnswersGood
    <2>6. ASSUME NEW i \in Sources', Key(log'[i]) \notin Unanswered'
          PROVE  Complete(StoredKeys', table', log'[i])
      <3>1. Key(log'[i]) # Key(e)
        BY <1>0, <2>1, <2>6 DEF Unanswered, Serving
      <3>2. i \in DOMAIN log' /\ log'[i].by # Relay
        BY <2>6 DEF Sources
      <3>3. i \in Sources /\ log'[i] = log[i]
        BY <2>2, <2>3, <3>1, <3>2 DEF Sources
      <3>4. Key(log[i]) \notin errored /\ ~Serving
        BY <1>0, <2>1, <2>6, <3>3 DEF Unanswered, Serving
      <3>5. Complete(StoredKeys, table, log[i])
        BY <1>0, <3>3, <3>4 DEF AnswersGood, AnsweredSettled, Unanswered
      <3>6. StoredKeys \subseteq StoredKeys' /\ Keeps(table, table')
        BY <2>1, SameKept DEF Grown
      <3>7. \A K, L, t, u, x : K \subseteq L /\ Keeps(t, u) /\ Complete(K, t, x)
                                 => Complete(L, u, x)
        BY CompleteKept
      <3> QED BY <3>3, <3>5, <3>6, <3>7
    <2>7. AnswersGood'
      BY <1>0, <2>1, <2>5, <2>6 DEF AnswersGood, AnsweredSettled, OpeningDerives
    <2>8. Keeps(table, table') /\ acked' \ errored' \subseteq acked \ errored
      BY <2>1, SameKept
    <2> QED BY <1>0, <2>7, <2>8, AckedKept
  <1>2. CASE Duplicate(e)
    <2>1. /\ acked' = acked \cup {Key(e)} /\ UNCHANGED <<log, table, opening, pc, errored, src>>
          /\ UNCHANGED <<outbox, recs, todo>>
      BY <1>2 DEF Duplicate, store, control
    <2> PICK j \in DOMAIN log : log[j] = e
      BY <1>2 DEF Duplicate
    <2>2. \A i \in DOMAIN log : Key(log[i]) = Key(e) => log[i] = e
      BY <1>0 DEF StoredOnce
    <2>3. AnsweredClients'
      BY <1>0, <2>1, <2>2 DEF AnswersGood, AnsweredClients, Serving
    <2>4. StoredKeys' = StoredKeys /\ Sources' = Sources /\ Serving' = Serving /\ ~Serving
      BY <2>1 DEF StoredKeys, Sources, Serving
    <2>5. AnsweredSettled'
      BY <1>0, <2>1, <2>4 DEF AnswersGood, AnsweredSettled, Running, Unanswered
    <2>6. OpeningDerives'
      BY <1>0, <2>1 DEF OpeningDerives
    <2>7. ASSUME NEW i \in DOMAIN log, Key(log[i]) \in acked' \ errored'
          PROVE  Complete(StoredKeys, table, log[i])
      <3>1. CASE Key(log[i]) \in acked
        BY <1>0, <2>1, <2>7, <3>1, CompleteMeaning
      <3>2. CASE Key(log[i]) = Key(e)
        <4>1. i \in Sources /\ Key(log[i]) \notin Unanswered
          BY <1>0, <2>1, <2>2, <2>4, <2>7, <3>2 DEF Sources, Unanswered
        <4> QED BY <1>0, <4>1 DEF AnswersGood, AnsweredSettled
      <3> QED BY <2>1, <2>7, <3>1, <3>2
    <2>8. AckedIsComplete'
      BY <2>1, <2>4, <2>7, CompleteMeaning
    <2> QED BY <2>3, <2>5, <2>6, <2>8 DEF AnswersGood
  <1> QED BY <1>1, <1>2

\* Nothing is left to retry: the client is answered, or the service has opened.
LEMMA FinishAnswers ==
  ASSUME CompleteInv, Finish PROVE AnswersGood' /\ AckedIsComplete'
  <1>0. /\ pc = "materialize" /\ Retryable(outbox) = {} /\ recs = <<>>
        /\ pc' = "idle" /\ opening' = FALSE /\ UNCHANGED <<log, table, outbox>>
        /\ opening => errored' = {} /\ acked' = acked
        /\ ~opening => errored' = errored /\ acked' = acked \cup {src}
        /\ GoodInv /\ AnswersGood /\ AckedIsComplete
    BY DEF CompleteInv, GoodInv, RecordsGood, Finish, ResetControl, store
  <1>1. StoredKeys' = StoredKeys /\ Sources' = Sources /\ ~Serving'
    BY <1>0 DEF StoredKeys, Sources, Serving
  <1>2. ASSUME opening, NEW i \in Sources PROVE Complete(StoredKeys, table, log[i])
    <2>1. Covered(log[i], outbox, <<>>) /\ InStep(Key(log[i]), table, outbox)
      BY <1>0, <1>2 DEF AnswersGood, OpeningDerives, Deriving, Materializing, AllInStep
    <2> QED BY <1>0, <2>1, CoveredComplete
  <1>3. ASSUME ~opening, NEW i \in DOMAIN log, Key(log[i]) = src
        PROVE  Complete(StoredKeys, table, log[i])
    <2>1. InStep(Key(log[i]), table, outbox) /\ Covered(log[i], outbox, <<>>)
      BY <1>0, <1>3 DEF CompleteInv, ServingGood, Serving
    <2> QED BY <1>0, <2>1, CoveredComplete
  <1>4. AnsweredClients'
    BY <1>0, <1>1 DEF AnswersGood, AnsweredClients, Serving
  <1>5. ASSUME NEW i \in Sources, Key(log[i]) \notin errored'
        PROVE  Complete(StoredKeys, table, log[i])
    <2>1. CASE opening
      BY <1>2, <2>1
    <2>2. CASE ~opening
      <3>1. CASE Key(log[i]) = src
        BY <1>3, <2>2, <3>1 DEF Sources
      <3>2. CASE Key(log[i]) # src
        BY <1>0, <1>5, <2>2, <3>2 DEF AnswersGood, AnsweredSettled, Running, Unanswered
      <3> QED BY <3>1, <3>2
    <2> QED BY <2>1, <2>2
  <1>6. AnswersGood'
    BY <1>0, <1>1, <1>4, <1>5 DEF AnswersGood, AnsweredSettled, Unanswered, OpeningDerives
  <1>7. ASSUME NEW i \in DOMAIN log, Key(log[i]) \in acked' \ errored'
        PROVE  Complete(StoredKeys, table, log[i])
    <2>1. CASE opening
      <3>1. i \in Sources
        BY <1>0, <1>7, <2>1 DEF AnswersGood, AnsweredClients, Sources
      <3> QED BY <1>2, <2>1, <3>1
    <2>2. CASE ~opening
      <3>1. CASE Key(log[i]) = src
        BY <1>3, <2>2, <3>1
      <3>2. CASE Key(log[i]) # src
        BY <1>0, <1>7, <2>2, <3>2, CompleteMeaning
      <3> QED BY <3>1, <3>2
    <2> QED BY <2>1, <2>2
  <1>8. AckedIsComplete'
    BY <1>0, <1>1, <1>7, CompleteMeaning
  <1> QED BY <1>6, <1>8

\* An operation of the running service ends with an error, or its opening does.
LEMMA ErrorAnswers ==
  ASSUME CompleteInv, Grown, RelayGrown, Keeps(table, table'), NEW o, ReturnError(o),
         UNCHANGED <<log, acked>>, pc # "down"
  PROVE  AnswersGood'
  <1>1. CASE opening
    BY <1>1, DownAnswers DEF ReturnError, GoDown, ResetControl, CompleteInv, AnswersGood
  <1>2. CASE ~opening
    <2>1. /\ pc' = "idle" /\ opening' = FALSE /\ errored' = errored \cup {src}
      BY <1>2 DEF ReturnError, ResetControl
    <2>2. opening = FALSE
      BY <1>2 DEF CompleteInv, LogInv, OutboxInv, TypeInv, TypeOK
    <2> QED BY <2>1, <2>2, RunningAnswers DEF Running, Serving
  <1> QED BY <1>1, <1>2

\* Only clients and the end of an operation change what was answered OK.
LEMMA NextAnswered ==
  ASSUME [Next]_vars, ~Finish, ~Clients PROVE acked' = acked /\ errored \subseteq errored'
  <1>1. CASE Serve
    BY <1>1 DEF Serve, PutRow, MergeRecord, MergeRecordClashes, RecordsMerged,
                StoreGenerated, MarkStored, MarkFailed, ReturnError, history
  <1>2. CASE Recover
    BY <1>2 DEF Recover, Open, ReplayEvent, StartClearing, ClearRow, TableCleared,
                PutCheckpoint, DeriveEvent, RecordsDerived, history
  <1>3. CASE Fail
    BY <1>3 DEF Fail, PutRowFails, MergeRecordFails, StoreGeneratedFails,
                MarkStoredFails, RewriteFails, ReturnError
  <1>4. CASE Crash \/ Shutdown \/ Upgrade \/ UNCHANGED vars
    BY <1>4 DEF Crash, Shutdown, Upgrade, vars, history
  <1> QED BY <1>1, <1>2, <1>3, <1>4 DEF Next

\* What the relay adds is its own.
LEMMA NextRelayGrown ==
  ASSUME TypeInv, [Next]_vars, ~Clients PROVE RelayGrown
  <1>0. log \in Seq(Events)
    BY DEF TypeInv, TypeOK
  <1>1. CASE StoreGenerated \/ StoreGeneratedFails
    <2> PICK k \in DOMAIN outbox : log' = log \/ log' = Append(log, outbox[k].payload)
      BY <1>1 DEF StoreGenerated, StoreGeneratedFails
    <2> PICK x : x = outbox[k].payload
      OBVIOUS
    <2>1. x \in Events /\ x.by = Relay
      BY PayloadType DEF Payloads
    <2>2. CASE log' = Append(log, x)
      <3>1. DOMAIN log' = DOMAIN log \cup {Len(log) + 1} /\ log'[Len(log) + 1] = x
        BY <1>0, <2>1, <2>2, AppendType
      <3> QED BY <2>1, <3>1 DEF RelayGrown
    <2> QED BY <2>2 DEF RelayGrown
  <1>2. CASE Serve /\ ~StoreGenerated
    BY <1>2 DEF Serve, RelayGrown, PutRow, MergeRecord, MergeRecordClashes, RecordsMerged,
                MarkStored, MarkFailed, Finish, store
  <1>3. CASE Recover
    BY <1>3 DEF Recover, RelayGrown, Open, ReplayEvent, StartClearing, ClearRow, TableCleared,
                PutCheckpoint, DeriveEvent, RecordsDerived, store
  <1>4. CASE Fail /\ ~StoreGeneratedFails
    BY <1>4 DEF Fail, RelayGrown, PutRowFails, MergeRecordFails, MarkStoredFails, RewriteFails
  <1>5. CASE Crash \/ Shutdown \/ Upgrade \/ UNCHANGED vars
    BY <1>5 DEF RelayGrown, Crash, Shutdown, Upgrade, vars, store
  <1> QED BY <1>1, <1>2, <1>3, <1>4, <1>5 DEF Next

\* The steps of an operation but its last.
LEMMA ServeAnswers ==
  ASSUME CompleteInv, Grown, RelayGrown, Keeps(table, table'), Serve, ~Finish
  PROVE  AnswersGood'
  <1>0. /\ TypeInv /\ GoodInv /\ AnswersGood
        /\ table \in Tables /\ outbox \in Tables /\ recs \in Seq(PlannedRecords)
        /\ pc \in {"mark", "mark_failed"} => cur \in DOMAIN outbox
        /\ opening => AllInStep(table, outbox)
    BY OutboxTypes DEF CompleteInv, GoodInv, LogInv, OutboxInv, AnswersGood, OpeningDerives
  <1>1. CASE PutRow \/ RecordsMerged \/ StoreGenerated
    <2>1. /\ \/ pc' = pc /\ pc \in {"records", "mark", "checkpoint"}
             \/ pc = "records" /\ pc' = IF opening THEN "derive" ELSE "materialize"
             \/ pc = "materialize" /\ pc' = "mark"
          /\ UNCHANGED <<table, outbox, recs, todo, acked, opening, src, errored>>
      BY <1>1 DEF PutRow, RecordsMerged, StoreGenerated, store, control, history
    <2>2. CASE opening
      BY <2>1, <2>2, QuietOpening DEF Deriving, Materializing
    <2>3. CASE ~opening
      <3>1. Running /\ Serving' = Serving
        BY <1>0, <2>1, <2>3 DEF Running, Serving
      <3> QED BY <2>1, <3>1, RunningAnswers
    <2> QED BY <2>2, <2>3
  <1>2. CASE MergeRecord
    <2>1. /\ pc = "records" /\ pc' = pc /\ recs # <<>> /\ recs' = Tail(recs)
          /\ UNCHANGED <<log, todo, acked, opening, src, errored>>
          /\ \/ Head(recs).key \in DOMAIN outbox /\ outbox' = outbox /\ table' = table
             \/ /\ Head(recs).key \notin DOMAIN outbox
                /\ outbox' = Update(outbox, Head(recs).key, Head(recs).rec)
                /\ table' = Update(table, Head(recs).key, Head(recs).rec)
      BY <1>2 DEF MergeRecord, history
    <2>2. Head(recs).key \in RecordKeys /\ Head(recs).rec \in Records
      BY <1>0, <2>1, HeadType
    <2>3. CASE opening
      <3>1. \A s : InStep(s, table, outbox) => InStep(s, table', outbox')
        BY <1>0, <2>1, <2>2, InStepMerged
      <3>2. AllInStep(table', outbox')
        BY <1>0, <2>3, <3>1 DEF AllInStep
      <3>3. Head(recs).key \in DOMAIN outbox' /\ DOMAIN outbox \subseteq DOMAIN outbox'
        BY <1>0, <2>1, <2>2, InStepMerged
      <3>4. /\ 1 \in DOMAIN recs /\ Head(recs) = recs[1]
            /\ \A j \in DOMAIN recs : j = 1 \/ (j - 1 \in DOMAIN recs' /\ recs'[j - 1] = recs[j])
        BY <1>0, <2>1, TailFacts
      <3>5. \A e : Covered(e, outbox, recs) => Covered(e, outbox', recs')
        BY <3>3, <3>4 DEF Covered
      <3>6. \A i \in Sources \ todo' : Covered(log[i], outbox', recs')
        BY <1>0, <2>1, <2>3, <3>5 DEF AnswersGood, OpeningDerives, Deriving
      <3> QED BY <2>1, <2>3, <3>2, <3>6, OpeningAnswers DEF Materializing
    <2>4. CASE ~opening
      BY <2>1, <2>4, RunningAnswers DEF Running, Serving
    <2> QED BY <2>3, <2>4
  <1>3. CASE MergeRecordClashes
    <2>1. pc = "records" /\ UNCHANGED <<log, table, acked>>
      BY <1>3 DEF MergeRecordClashes, store
    <2>2. CASE opening
      <3>1. pc' = "broken" /\ UNCHANGED <<outbox, recs, todo, opening>>
        BY <1>3, <2>2 DEF MergeRecordClashes, control
      <3> QED BY <2>1, <2>2, <3>1, QuietOpening DEF Deriving, Materializing
    <2>3. CASE ~opening
      BY <1>3, <2>1, <2>3, ErrorAnswers DEF MergeRecordClashes
    <2> QED BY <2>2, <2>3
  <1>4. CASE MarkStored
    <2> DEFINE o == WithStatus(outbox, cur, "stored")
    <2>1. /\ pc = "mark" /\ pc' = "materialize" /\ outbox' = o
          /\ table' = Update(table, cur, o[cur])
          /\ UNCHANGED <<log, todo, opening, src, recs, acked, errored>>
      BY <1>4 DEF MarkStored, history
    <2>2. CASE opening
      <3>1. \A s : InStep(s, table, outbox) => InStep(s, Update(table, cur, o[cur]), o)
        BY <1>0, <2>1, InStepMarked, StatusNames
      <3>2. DOMAIN o = DOMAIN outbox
        BY <1>0, <2>1, WithStatusType, StatusNames
      <3> HIDE DEF o
      <3>3. AllInStep(table', outbox')
        BY <1>0, <2>1, <2>2, <3>1 DEF AllInStep
      <3>4. \A i \in Sources \ todo' : Covered(log[i], outbox', recs')
        BY <1>0, <2>1, <2>2, <3>2 DEF AnswersGood, OpeningDerives, Deriving, Covered
      <3>5. todo' = {}
        BY <1>0, <2>1, <2>2 DEF AnswersGood, OpeningDerives, Materializing
      <3> QED BY <2>1, <2>2, <3>3, <3>4, <3>5, OpeningAnswers
    <2>3. CASE ~opening
      BY <2>1, <2>3, RunningAnswers DEF Running, Serving
    <2> QED BY <2>2, <2>3
  <1>5. CASE MarkFailed
    <2>1. /\ ReturnError(WithStatus(outbox, cur, "failed")) /\ UNCHANGED <<log, acked>>
          /\ pc = "mark_failed"
      BY <1>5 DEF MarkFailed
    <2> QED BY <2>1, ErrorAnswers
  <1> QED BY <1>1, <1>2, <1>3, <1>4, <1>5 DEF Serve

\* The steps of an opening: every client's event is derived before todo is empty.
LEMMA RecoverAnswers ==
  ASSUME CompleteInv, Grown, RelayGrown, Recover PROVE AnswersGood'
  <1>0. /\ TypeInv /\ RecordsGood /\ ServingGood /\ AnswersGood /\ OpeningDerives
    BY DEF CompleteInv, LogInv, OutboxInv, AnswersGood
  <1>1. CASE Open
    <2>1. /\ outbox' = table /\ opening' = TRUE /\ UNCHANGED <<log, table, recs, acked>>
          /\ pc' = "replay" \/ (pc' = "derive" /\ todo' = DOMAIN log)
      BY <1>1 DEF Open, StartDeriving, store, history
    <2>2. AllInStep(table', outbox')
      BY <2>1 DEF AllInStep, InStep
    <2>3. Deriving' => \A i \in Sources \ todo' : Covered(log[i], outbox', recs')
      BY <2>1 DEF Deriving, Sources
    <2> QED BY <2>1, <2>2, <2>3, OpeningAnswers DEF Materializing
  <1>2. CASE ReplayEvent \/ StartClearing \/ ClearRow \/ TableCleared \/ PutCheckpoint
    <2>1. /\ pc \in {"replay", "clear", "checkpoint"}
          /\ \/ pc' \in {"replay", "clear", "checkpoint"}
             \/ pc' = "derive" /\ todo' = DOMAIN log
          /\ UNCHANGED <<log, table, outbox, recs, acked, opening>>
      BY <1>2 DEF ReplayEvent, StartClearing, ClearRow, TableCleared, PutCheckpoint,
                  StartDeriving, store, control, history
    <2>2. opening /\ AllInStep(table', outbox')
      BY <1>0, <2>1 DEF ServingGood, OpeningDerives
    <2>3. Deriving' => \A i \in Sources \ todo' : Covered(log[i], outbox', recs')
      BY <2>1 DEF Deriving, Sources
    <2> QED BY <2>1, <2>2, <2>3, OpeningAnswers DEF Materializing
  <1>3. CASE RecordsDerived
    <2>1. /\ pc = "derive" /\ todo = {} /\ pc' = "materialize"
          /\ UNCHANGED <<table, outbox, recs, acked, opening, todo>>
      BY <1>3 DEF RecordsDerived, store, history
    <2>2. opening
      BY <1>0, <2>1 DEF ServingGood
    <2> QED BY <2>1, <2>2, QuietOpening DEF Deriving, Materializing
  <1>4. CASE DeriveEvent
    <2> PICK i \in todo :
          /\ todo' = todo \ {i}
          /\ \/ log[i].by = Relay /\ UNCHANGED <<pc, recs>>
             \/ pc' = "broken" /\ UNCHANGED recs
             \/ /\ pc' = "records"
                /\ recs' = Plan(log[i], scratch', WasOverrideAdmin(log[i], scratch))
      BY <1>4 DEF DeriveEvent
    <2>1. pc = "derive" /\ UNCHANGED <<log, table, outbox, acked, opening>>
      BY <1>4 DEF DeriveEvent, store, history
    <2>2. opening /\ recs = <<>> /\ AllInStep(table', outbox')
          /\ \A j \in Sources \ todo : Covered(log[j], outbox, <<>>)
      BY <1>0, <2>1 DEF RecordsGood, ServingGood, OpeningDerives, Deriving
    <2>3. CASE log[i].by = Relay /\ UNCHANGED <<pc, recs>>
      <3>1. \A j \in Sources \ todo' : Covered(log[j], outbox', recs')
        BY <2>1, <2>2, <2>3 DEF Sources
      <3> QED BY <2>1, <2>2, <2>3, <3>1, OpeningAnswers DEF Deriving, Materializing
    <2>4. CASE pc' = "broken"
      BY <2>1, <2>2, <2>4, OpeningAnswers DEF Deriving, Materializing
    <2>5. CASE pc' = "records" /\ recs' = Plan(log[i], scratch', WasOverrideAdmin(log[i], scratch))
      <3>1. Covered(log[i], outbox, recs')
        BY <2>5, PlanFacts DEF Covered
      <3>2. \A e : Covered(e, outbox, <<>>) => Covered(e, outbox, recs')
        BY DEF Covered
      <3>3. \A j \in Sources \ todo' : Covered(log[j], outbox', recs')
        BY <2>1, <2>2, <3>1, <3>2
      <3> QED BY <2>1, <2>2, <2>5, <3>3, OpeningAnswers DEF Materializing
    <2> QED BY <2>3, <2>4, <2>5
  <1> QED BY <1>1, <1>2, <1>3, <1>4 DEF Recover

\* Failed writes.
LEMMA FailAnswers ==
  ASSUME CompleteInv, Grown, RelayGrown, Keeps(table, table'), Fail
  PROVE  AnswersGood'
  <1>0. AnswersGood
    BY DEF CompleteInv
  <1>1. CASE (PutRowFails /\ pc = "mark") \/ StoreGeneratedFails
    <2>1. /\ pc' = "mark_failed" /\ pc \in {"mark", "materialize"}
          /\ UNCHANGED <<table, outbox, recs, todo, acked, opening, src, errored>>
      BY <1>1 DEF PutRowFails, StoreGeneratedFails
    <2>2. CASE opening
      BY <2>1, <2>2, QuietOpening DEF Deriving, Materializing
    <2>3. CASE ~opening
      BY <2>1, <2>3, RunningAnswers DEF Running, Serving
    <2> QED BY <2>2, <2>3
  <1>2. CASE PutRowFails /\ pc # "mark"
    <2>1. ReturnError(outbox) /\ UNCHANGED <<log, acked>> /\ pc # "down"
      BY <1>2 DEF PutRowFails
    <2> QED BY <2>1, ErrorAnswers
  <1>3. CASE MergeRecordFails
    <2>1. /\ ReturnError(Update(outbox, Head(recs).key, Head(recs).rec))
          /\ UNCHANGED <<log, acked>> /\ pc # "down"
      BY <1>3 DEF MergeRecordFails
    <2> QED BY <2>1, ErrorAnswers
  <1>4. CASE MarkStoredFails
    <2>1. /\ ReturnError(WithStatus(outbox, cur, "stored"))
          /\ UNCHANGED <<log, acked>> /\ pc # "down"
      BY <1>4 DEF MarkStoredFails
    <2> QED BY <2>1, ErrorAnswers
  <1>5. CASE RewriteFails
    BY <1>0, <1>5, DownAnswers DEF RewriteFails, GoDown, ResetControl, AnswersGood
  <1> QED BY <1>1, <1>2, <1>3, <1>4, <1>5 DEF Fail

\* The steps of the relay.
LEMMA NextAnswers ==
  ASSUME CompleteInv, [Next]_vars, ~Finish, ~Clients PROVE AnswersGood'
  <1>0. /\ Grown /\ RelayGrown /\ Keeps(table, table') /\ AnswersGood /\ OutboxInv
    BY NextLogInv, NextForward, NextRelayGrown
       DEF CompleteInv, LogInv, OutboxInv, Forward
  <1>1. CASE Crash \/ Shutdown
    BY <1>0, <1>1, DownAnswers DEF Crash, Shutdown, GoDown, ResetControl, AnswersGood, store
  <1>2. CASE Upgrade
    <2>1. pc' = "down" /\ pc = "down" /\ UNCHANGED <<log, acked, opening>>
      BY <1>2 DEF Upgrade, control, history
    <2>2. opening' = FALSE
      BY <1>0, <2>1 DEF AnswersGood, OpeningDerives
    <2> QED BY <1>0, <2>1, <2>2, DownAnswers DEF AnswersGood
  <1>3. CASE UNCHANGED vars
    <2>1. /\ UNCHANGED <<log, table, outbox, pc, opening, src, todo, recs, acked, errored>>
      BY <1>3 DEF vars, store, control, history
    <2>2. StoredKeys' = StoredKeys /\ Sources' = Sources /\ Serving' = Serving
          /\ Running' = Running /\ Deriving' = Deriving /\ Materializing' = Materializing
      BY <2>1 DEF StoredKeys, Sources, Serving, Running, Deriving, Materializing
    <2> QED BY <1>0, <2>1, <2>2
            DEF AnswersGood, AnsweredClients, AnsweredSettled, OpeningDerives, Unanswered
  <1> QED BY <1>0, <1>1, <1>2, <1>3, ServeAnswers, RecoverAnswers, FailAnswers DEF Next

\* The invariant of the answers holds initially,
LEMMA InitComplete == Init => CompleteInv
  <1> SUFFICES ASSUME Init PROVE CompleteInv
    OBVIOUS
  <1>1. LogInv
    BY InitLogInv
  <1>2. RecordsGood /\ ServingGood
    BY DEF Init, RecordsGood, ServingGood, TableGood, PlanGood, Serving
  <1>3. AckedIsComplete
    BY DEF Init, AckedIsComplete
  <1>4. AnswersGood
    BY DEF Init, AnswersGood, AnsweredClients, AnsweredSettled, OpeningDerives, Running, Serving
  <1> QED BY <1>1, <1>2, <1>3, <1>4 DEF CompleteInv

\* and is inductive.
LEMMA NextComplete == CompleteInv /\ [Next]_vars => CompleteInv'
  <1> SUFFICES ASSUME CompleteInv, [Next]_vars PROVE CompleteInv'
    OBVIOUS
  <1>0. /\ GoodInv /\ AckedIsComplete /\ LogInv' /\ Grown /\ TypeInv
        /\ acked \subseteq StoredKeys /\ Keeps(table, table')
    BY NextLogInv, NextForward
       DEF CompleteInv, GoodInv, LogInv, OutboxInv, ServingGood, Forward
  <1>1. Good
    BY <1>0, NextGood
  <1>2. CASE Finish
    BY <1>0, <1>1, <1>2, FinishAnswers DEF CompleteInv, Good
  <1>3. CASE Clients
    <2> PICK e \in ClientEvents : Submit(e) \/ SubmitFails(e) \/ Duplicate(e)
      BY <1>0, <1>3, ClientsSubmit
    <2>1. AnswersGood' /\ AckedIsComplete'
      BY <1>0, <1>3, ClientAnswers DEF Clients
    <2> QED BY <1>0, <1>1, <2>1 DEF CompleteInv, Good
  <1>4. CASE ~Finish /\ ~Clients
    <2>1. acked' = acked /\ errored \subseteq errored'
      BY <1>4, NextAnswered
    <2>2. AckedIsComplete'
      BY <1>0, <2>1, AckedKept
    <2>3. AnswersGood'
      BY <1>0, <1>4, NextAnswers
    <2> QED BY <1>0, <1>1, <2>2, <2>3 DEF CompleteInv, Good
  <1> QED BY <1>2, <1>3, <1>4

\* A client is answered OK, at the first try or as a duplicate, only when every
\* generated event its event calls for is in the store and recorded as stored (or
\* skipped, for a member list over the cap), and no crash, failed write or later event
\* takes that back.  Excepted are duplicates of events whose first try was answered
\* with an error, and those only until the service opens again: the opening ends only
\* when every client's event of the log is complete.
THEOREM AnsweredIsComplete == Spec => []AckedIsComplete
  <1>1. CompleteInv => AckedIsComplete
    BY DEF CompleteInv
  <1> QED BY InitComplete, NextComplete, <1>1, PTL DEF Spec

-----------------------------------------------------------------------------
(* Whatever the relay stores was called for by a client's event: a claim is  *)
(* what of a record that is in memory, in the table or planned never         *)
(* changes, its key, its payload and whether it was skipped.                 *)

Claim(k, r) == [key |-> k, payload |-> r.payload,
                planned |-> IF r.status = "skipped" THEN "skipped" ELSE "pending"]
ClaimsOf(t) == {Claim(k, t[k]) : k \in DOMAIN t}
PlannedClaims(q) == {Claim(q[j].key, q[j].rec) : j \in DOMAIN q}
Claims == ClaimsOf(table) \cup ClaimsOf(outbox) \cup PlannedClaims(recs)

\* A record that is written is the only new claim.
LEMMA UpdateClaims ==
  ASSUME NEW o \in Tables, NEW k \in RecordKeys, NEW r \in Records
  PROVE  ClaimsOf(Update(o, k, r)) \subseteq ClaimsOf(o) \cup {Claim(k, r)}
  <1>1. /\ DOMAIN Update(o, k, r) = DOMAIN o \cup {k} /\ Update(o, k, r)[k] = r
        /\ \A x \in DOMAIN o : x # k => Update(o, k, r)[x] = o[x]
    BY UpdateFacts
  <1> HIDE DEF Claim
  <1> QED BY <1>1 DEF ClaimsOf

\* A mark claims nothing new.
LEMMA MarkClaims ==
  ASSUME NEW o \in Tables, NEW k \in DOMAIN o, IsRetryable(o[k]), NEW s \in {"stored", "failed"}
  PROVE  /\ ClaimsOf(WithStatus(o, k, s)) \subseteq ClaimsOf(o)
         /\ Claim(k, WithStatus(o, k, s)[k]) \in ClaimsOf(o)
         /\ WithStatus(o, k, s)[k] \in Records /\ k \in RecordKeys
         /\ WithStatus(o, k, s) \in Tables
  <1> DEFINE r == [o[k] EXCEPT !.status = s]
  <1>1. /\ k \in RecordKeys /\ r \in Records /\ r.payload = o[k].payload
        /\ r.status # "skipped" /\ o[k].status # "skipped"
    <2>1. o[k] \in Records
      BY TablesMeaning
    <2> QED BY <2>1, WithStatusType, StatusNames DEF IsRetryable, Records
  <1>2. WithStatus(o, k, s) = Update(o, k, r)
    BY DEF WithStatus
  <1> HIDE DEF r
  <1>3. Update(o, k, r)[k] = r /\ Update(o, k, r) \in Tables
    BY <1>1, UpdateFacts
  <1>4. Claim(k, r) \in ClaimsOf(o)
    <2>1. Claim(k, r) = Claim(k, o[k])
      BY <1>1 DEF Claim
    <2> QED BY <2>1 DEF ClaimsOf
  <1> QED BY <1>1, <1>2, <1>3, <1>4, UpdateClaims

\* Nothing is claimed by what is planned next but what was planned.
LEMMA TailClaims ==
  ASSUME NEW q \in Seq(PlannedRecords), q # <<>>
  PROVE  /\ PlannedClaims(Tail(q)) \subseteq PlannedClaims(q)
         /\ Claim(Head(q).key, Head(q).rec) \in PlannedClaims(q)
  <1> HIDE DEF Claim
  <1> QED BY TailFacts DEF PlannedClaims

\* Memory is lost, or an operation ends with an error.
LEMMA ErrorClaims ==
  ASSUME NEW o, ReturnError(o), ClaimsOf(o) \subseteq Claims, ClaimsOf(table') \subseteq Claims
  PROVE  Claims' \subseteq Claims
  <1>1. outbox' \in {o, <<>>} /\ recs' = <<>>
    BY DEF ReturnError, GoDown, ResetControl
  <1>2. ClaimsOf(<<>>) = {} /\ PlannedClaims(<<>>) = {}
    BY DEF ClaimsOf, PlannedClaims
  <1>3. ClaimsOf(outbox') \subseteq Claims /\ PlannedClaims(recs') = {}
    BY <1>1, <1>2
  <1> QED BY <1>3 DEF Claims

\* Steps that leave the records alone.
LEMMA QuietClaims ==
  ASSUME UNCHANGED <<table, outbox, recs>> PROVE Claims' = Claims
  BY DEF Claims

\* The steps of an operation claim nothing new.
LEMMA ServeClaims == OutboxInv /\ Serve => Claims' \subseteq Claims
  <1> SUFFICES ASSUME OutboxInv, Serve PROVE Claims' \subseteq Claims
    OBVIOUS
  <1>0. /\ table \in Tables /\ outbox \in Tables /\ recs \in Seq(PlannedRecords)
        /\ pc \in {"mark", "mark_failed"} => cur \in DOMAIN outbox /\ IsRetryable(outbox[cur])
    BY OutboxTypes DEF OutboxInv, MarkingRetryable
  <1>1. CASE PutRow \/ RecordsMerged \/ StoreGenerated
    BY <1>1, QuietClaims DEF PutRow, RecordsMerged, StoreGenerated, store, control
  <1>2. CASE MergeRecord
    <2>1. recs # <<>> /\ recs' = Tail(recs)
      BY <1>2 DEF MergeRecord
    <2>2. /\ PlannedClaims(recs') \subseteq PlannedClaims(recs)
          /\ Claim(Head(recs).key, Head(recs).rec) \in PlannedClaims(recs)
      BY <1>0, <2>1, TailClaims
    <2>3. Head(recs).key \in RecordKeys /\ Head(recs).rec \in Records
      BY <2>1, HeadType DEF OutboxInv
    <2>4. \/ UNCHANGED <<outbox, table>>
          \/ /\ outbox' = Update(outbox, Head(recs).key, Head(recs).rec)
             /\ table' = Update(table, Head(recs).key, Head(recs).rec)
      BY <1>2 DEF MergeRecord
    <2>5. ClaimsOf(outbox') \subseteq Claims /\ ClaimsOf(table') \subseteq Claims
      BY <1>0, <2>2, <2>3, <2>4, UpdateClaims DEF Claims
    <2> QED BY <2>2, <2>5 DEF Claims
  <1>3. CASE MergeRecordClashes
    <2>1. CASE opening
      BY <1>3, <2>1, QuietClaims DEF MergeRecordClashes, store, control
    <2>2. CASE ~opening
      <3>1. ReturnError(outbox) /\ table' = table
        BY <1>3, <2>2 DEF MergeRecordClashes, store
      <3> QED BY <3>1, ErrorClaims DEF Claims
    <2> QED BY <2>1, <2>2
  <1>4. CASE MarkStored
    <2> DEFINE o == WithStatus(outbox, cur, "stored")
    <2>1. cur \in DOMAIN outbox /\ IsRetryable(outbox[cur])
      BY <1>0, <1>4 DEF MarkStored
    <2>2. outbox' = o /\ table' = Update(table, cur, o[cur]) /\ recs' = recs
      BY <1>4 DEF MarkStored
    <2>3. /\ ClaimsOf(o) \subseteq ClaimsOf(outbox)
          /\ Claim(cur, o[cur]) \in ClaimsOf(outbox)
          /\ o[cur] \in Records /\ cur \in RecordKeys
      BY <1>0, <2>1, MarkClaims
    <2> HIDE DEF o
    <2>4. ClaimsOf(table') \subseteq Claims /\ ClaimsOf(outbox') \subseteq Claims
      BY <1>0, <2>2, <2>3, UpdateClaims DEF Claims
    <2> QED BY <2>2, <2>4 DEF Claims
  <1>5. CASE MarkFailed
    <2> DEFINE o == WithStatus(outbox, cur, "failed")
    <2>1. cur \in DOMAIN outbox /\ IsRetryable(outbox[cur])
      BY <1>0, <1>5 DEF MarkFailed
    <2>2. ReturnError(o) /\ (table' = Update(table, cur, o[cur]) \/ table' = table)
      BY <1>5 DEF MarkFailed
    <2>3. /\ ClaimsOf(o) \subseteq ClaimsOf(outbox)
          /\ Claim(cur, o[cur]) \in ClaimsOf(outbox)
          /\ o[cur] \in Records /\ cur \in RecordKeys
      BY <1>0, <2>1, MarkClaims
    <2> HIDE DEF o
    <2>4. ClaimsOf(table') \subseteq Claims /\ ClaimsOf(o) \subseteq Claims
      BY <1>0, <2>2, <2>3, UpdateClaims DEF Claims
    <2> QED BY <2>2, <2>4, ErrorClaims
  <1>6. CASE Finish
    <2>1. UNCHANGED <<table, outbox>> /\ recs' = <<>>
      BY <1>6 DEF Finish, ResetControl, store
    <2>2. PlannedClaims(<<>>) = {}
      BY DEF PlannedClaims
    <2> QED BY <2>1, <2>2 DEF Claims
  <1> QED BY <1>1, <1>2, <1>3, <1>4, <1>5, <1>6 DEF Serve

\* Neither do failures,
LEMMA FailClaims == OutboxInv /\ Fail => Claims' \subseteq Claims
  <1> SUFFICES ASSUME OutboxInv, Fail PROVE Claims' \subseteq Claims
    OBVIOUS
  <1>0. /\ table \in Tables /\ outbox \in Tables /\ recs \in Seq(PlannedRecords)
        /\ pc \in {"mark", "mark_failed"} => cur \in DOMAIN outbox /\ IsRetryable(outbox[cur])
    BY OutboxTypes DEF OutboxInv, MarkingRetryable
  <1>1. CASE PutRowFails
    <2>1. CASE pc = "mark"
      BY <1>1, <2>1, QuietClaims DEF PutRowFails, store
    <2>2. CASE pc # "mark"
      <3>1. ReturnError(outbox) /\ table' = table
        BY <1>1, <2>2 DEF PutRowFails, store
      <3> QED BY <3>1, ErrorClaims DEF Claims
    <2> QED BY <2>1, <2>2
  <1>2. CASE MergeRecordFails
    <2> DEFINE o == Update(outbox, Head(recs).key, Head(recs).rec)
    <2> DEFINE u == Update(table, Head(recs).key, Head(recs).rec)
    <2>1. recs # <<>> /\ ReturnError(o) /\ table' \in {table, u}
      BY <1>2 DEF MergeRecordFails
    <2>2. Claim(Head(recs).key, Head(recs).rec) \in PlannedClaims(recs)
      BY <1>0, <2>1, TailClaims
    <2>3. Head(recs).key \in RecordKeys /\ Head(recs).rec \in Records
      BY <2>1, HeadType DEF OutboxInv
    <2>4. ClaimsOf(o) \subseteq Claims /\ ClaimsOf(u) \subseteq Claims
      BY <1>0, <2>2, <2>3, UpdateClaims DEF Claims
    <2> HIDE DEF o, u
    <2>5. ClaimsOf(table') \subseteq Claims
      BY <2>1, <2>4 DEF Claims
    <2> QED BY <2>1, <2>4, <2>5, ErrorClaims
  <1>3. CASE StoreGeneratedFails
    BY <1>3, QuietClaims DEF StoreGeneratedFails, store
  <1>4. CASE MarkStoredFails
    <2> DEFINE o == WithStatus(outbox, cur, "stored")
    <2> DEFINE u == Update(table, cur, o[cur])
    <2>1. /\ cur \in DOMAIN outbox /\ IsRetryable(outbox[cur])
          /\ ReturnError(o) /\ table' \in {table, u}
      BY <1>0, <1>4 DEF MarkStoredFails
    <2>2. /\ ClaimsOf(o) \subseteq ClaimsOf(outbox) /\ Claim(cur, o[cur]) \in ClaimsOf(outbox)
          /\ o[cur] \in Records /\ cur \in RecordKeys
      BY <1>0, <2>1, MarkClaims
    <2> HIDE DEF o
    <2>3. ClaimsOf(u) \subseteq Claims /\ ClaimsOf(o) \subseteq Claims
      BY <1>0, <2>2, UpdateClaims DEF Claims
    <2> HIDE DEF u
    <2>4. ClaimsOf(table') \subseteq Claims
      BY <2>1, <2>3 DEF Claims
    <2> QED BY <2>1, <2>3, <2>4, ErrorClaims
  <1>5. CASE RewriteFails
    <2>1. outbox' = <<>> /\ recs' = <<>> /\ table' = table
      BY <1>5 DEF RewriteFails, GoDown, ResetControl, store
    <2>2. ClaimsOf(<<>>) = {} /\ PlannedClaims(<<>>) = {}
      BY DEF ClaimsOf, PlannedClaims
    <2> QED BY <2>1, <2>2 DEF Claims
  <1> QED BY <1>1, <1>2, <1>3, <1>4, <1>5 DEF Fail

\* the end of the process and an upgrade,
LEMMA EnvironmentClaims == Crash \/ Shutdown \/ Upgrade \/ UNCHANGED vars => Claims' \subseteq Claims
  <1>1. CASE Crash \/ Shutdown
    <2>1. outbox' = <<>> /\ recs' = <<>> /\ table' = table
      BY <1>1 DEF Crash, Shutdown, GoDown, ResetControl, store
    <2>2. ClaimsOf(<<>>) = {} /\ PlannedClaims(<<>>) = {}
      BY DEF ClaimsOf, PlannedClaims
    <2> QED BY <2>1, <2>2 DEF Claims
  <1>2. CASE Upgrade \/ UNCHANGED vars
    BY <1>2, QuietClaims DEF Upgrade, vars, store, control
  <1> QED BY <1>1, <1>2

\* and the steps of an opening that plan nothing.
LEMMA RecoverClaims == Recover /\ ~DeriveEvent => Claims' \subseteq Claims
  <1> SUFFICES ASSUME Recover, ~DeriveEvent PROVE Claims' \subseteq Claims
    OBVIOUS
  <1>1. CASE Open
    BY <1>1 DEF Open, StartDeriving, Claims, store
  <1>2. CASE ReplayEvent \/ StartClearing \/ ClearRow \/ TableCleared \/ PutCheckpoint
             \/ RecordsDerived
    BY <1>2, QuietClaims DEF ReplayEvent, StartClearing, ClearRow, TableCleared, PutCheckpoint,
                  RecordsDerived, StartDeriving, store, control
  <1> QED BY <1>1, <1>2 DEF Recover

-----------------------------------------------------------------------------
(* Members follow the requests that were answered *)

\* The client's event s calls for the relay's event e.
Caused(s, e) ==
  /\ s.by # Relay /\ e.at = s.at
  /\ \E c \in Contents : e.id = GenId(c) /\ e.kind = c.kind /\ e.user = c.user
  /\ e.kind = "put" => s.kind = "join" /\ s.user = e.user
  /\ e.kind = "remove" => s.kind = "leave" /\ s.user = e.user

\* So does the record with the key k whose payload is x, a member's new status under
\* the effect that is named after it.
Answers(s, k, x) ==
  /\ k.src = Key(s)
  /\ Caused(s, x)
  /\ k.effect = "join_accepted" => x.kind = "put"
  /\ k.effect = "leave_accepted" => x.kind = "remove"

\* A client's event is about its author, unless it is a moderator's about a member.
AboutAuthor(e) == e.kind \in {"put", "remove"} \/ e.user = e.by

LogAnswers ==
  \A i \in DOMAIN log :
    IF log[i].by = Relay THEN \E s \in DOMAIN log : Caused(log[s], log[i])
    ELSE FromClient(log[i]) /\ AboutAuthor(log[i])

ClaimsAnswer == \A c \in Claims : \E s \in DOMAIN log : Answers(log[s], c.key, c.payload)

\* Clients' events come in the order of their seconds.
SourcesIncrease ==
  \A i, j \in DOMAIN log :
    log[i].by # Relay /\ log[j].by # Relay /\ i < j => log[i].at < log[j].at

RequestInv == LogAnswers /\ ClaimsAnswer /\ (InOrder => SourcesIncrease)

\* plan_group_outbox_records plans what its event calls for.
LEMMA PlanAnswers ==
  ASSUME NEW e \in ClientEvents, AboutAuthor(e), NEW p \in Projections, NEW before
  PROVE  \A c \in PlannedClaims(Plan(e, p, before)) : Answers(e, c.key, c.payload)
  <1> DEFINE Fits(x) == Answers(e, x.key, x.rec.payload)
             m == MetadataRecord(e, p)
             a == AdminListRecord(e, p)
             l == MemberListRecord(e, p)
             join == Rec(e, "join_accepted", MembershipPayload("put", e.by, e.at), "pending")
             leave == Rec(e, "leave_accepted", MembershipPayload("remove", e.by, e.at), "pending")
  <1>0. e.by \in Users /\ e.by # Relay
    BY ProjectionAssumption DEF ClientEvents
  <1>1. Fits(m)
    <2> DEFINE c == [kind |-> "metadata", user |-> Relay, meta |-> p.group.meta, users |-> {}]
               x == MetadataSnapshotPayload(p, e.at)
    <2>1. c \in Contents
      BY DEF Contents, Projections, Groups
    <2>2. x.at = e.at /\ x.id = GenId(c) /\ x.kind = c.kind /\ x.user = c.user
          /\ x.kind = "metadata"
      BY DEF MetadataSnapshotPayload, Generated
    <2>3. /\ m.key.src = Key(e) /\ m.key.effect = "metadata_snapshot" /\ m.rec.payload = x
      BY DEF MetadataRecord, Rec
    <2> HIDE DEF c, x, m
    <2> QED BY <1>0, <2>1, <2>2, <2>3 DEF Answers, Caused
  <1>2. Fits(a)
    <2> DEFINE U == Owners \cup Admins \cup {u \in Users : IsOverrideAdmin(p, u)}
               c == [kind |-> "admins", user |-> Relay, meta |-> EmptyMetadata, users |-> U]
               x == AdminListPayload(p, e.at)
    <2>1. c \in Contents
      BY PolicyAssumption DEF Contents
    <2>2. x.at = e.at /\ x.id = GenId(c) /\ x.kind = c.kind /\ x.user = c.user
          /\ x.kind = "admins"
      BY DEF AdminListPayload, Generated
    <2>3. /\ a.key.src = Key(e) /\ a.key.effect = "admin_list_snapshot" /\ a.rec.payload = x
      BY DEF AdminListRecord, Rec
    <2> HIDE DEF c, x, a
    <2> QED BY <1>0, <2>1, <2>2, <2>3 DEF Answers, Caused
  <1>3. Fits(l)
    <2> DEFINE U == IF OverCap(p) THEN {} ELSE CurrentMembers(p)
               c == [kind |-> "members", user |-> Relay, meta |-> EmptyMetadata, users |-> U]
               x == MemberListPayload(p, e.at)
    <2>1. c \in Contents
      BY DEF Contents, CurrentMembers
    <2>2. x.at = e.at /\ x.id = GenId(c) /\ x.kind = c.kind /\ x.user = c.user
          /\ x.kind = "members"
      BY DEF MemberListPayload, Generated
    <2>3. /\ l.key.src = Key(e) /\ l.key.effect = "member_list_snapshot" /\ l.rec.payload = x
      BY DEF MemberListRecord, Rec
    <2> HIDE DEF c, x, l
    <2> QED BY <1>0, <2>1, <2>2, <2>3 DEF Answers, Caused
  <1>4. ASSUME e.kind = "join" PROVE Fits(join)
    <2> DEFINE c == [kind |-> "put", user |-> e.by, meta |-> EmptyMetadata, users |-> {}]
               x == MembershipPayload("put", e.by, e.at)
    <2>1. c \in Contents
      BY <1>0 DEF Contents
    <2>2. x.at = e.at /\ x.id = GenId(c) /\ x.kind = c.kind /\ x.user = c.user
          /\ x.kind = "put" /\ x.user = e.user
      BY <1>4 DEF MembershipPayload, Generated, AboutAuthor
    <2>3. /\ join.key.src = Key(e) /\ join.key.effect = "join_accepted"
          /\ join.rec.payload = x
      BY DEF Rec
    <2> HIDE DEF c, x, join
    <2> QED BY <1>0, <1>4, <2>1, <2>2, <2>3 DEF Answers, Caused
  <1>5. ASSUME e.kind = "leave" PROVE Fits(leave)
    <2> DEFINE c == [kind |-> "remove", user |-> e.by, meta |-> EmptyMetadata, users |-> {}]
               x == MembershipPayload("remove", e.by, e.at)
    <2>1. c \in Contents
      BY <1>0 DEF Contents
    <2>2. x.at = e.at /\ x.id = GenId(c) /\ x.kind = c.kind /\ x.user = c.user
          /\ x.kind = "remove" /\ x.user = e.user
      BY <1>5 DEF MembershipPayload, Generated, AboutAuthor
    <2>3. /\ leave.key.src = Key(e) /\ leave.key.effect = "leave_accepted"
          /\ leave.rec.payload = x
      BY DEF Rec
    <2> HIDE DEF c, x, leave
    <2> QED BY <1>0, <1>5, <2>1, <2>2, <2>3 DEF Answers, Caused
  <1>6. Plan(e, p, before) =
          CASE e.kind = "create" -> <<m, a>>
            [] e.kind = "edit" -> <<m>>
            [] e.kind \in {"put", "remove"} ->
                 IF before # IsOverrideAdmin(p, e.user) THEN <<l, a>> ELSE <<l>>
            [] e.kind = "join" -> <<join>>
            [] e.kind = "leave" -> <<leave>>
            [] OTHER -> <<>>
    BY DEF Plan, MemberSnapshotRecords
  <1> HIDE DEF Fits, m, a, l, join, leave
  <1>7. \A j \in DOMAIN Plan(e, p, before) : Fits(Plan(e, p, before)[j])
    BY <1>1, <1>2, <1>3, <1>4, <1>5, <1>6
  <1> QED BY <1>7 DEF PlannedClaims, Claim, Fits

\* A step keeps what it does not claim or store.
LEMMA QuietRequests ==
  ASSUME RequestInv, log' = log, Claims' \subseteq Claims PROVE RequestInv'
  BY DEF RequestInv, LogAnswers, ClaimsAnswer, SourcesIncrease

\* One event more.
LEMMA AppendRequests ==
  ASSUME TypeInv, RequestInv, NEW e \in Events, log' = Append(log, e),
         IF e.by = Relay THEN \E s \in DOMAIN log : Caused(log[s], e)
         ELSE /\ FromClient(e) /\ AboutAuthor(e)
              /\ InOrder => IsNewest(e)
  PROVE  /\ LogAnswers' /\ (InOrder => SourcesIncrease')
         /\ \A c \in Claims : \E s \in DOMAIN log' : Answers(log'[s], c.key, c.payload)
         /\ \E s \in DOMAIN log' : log'[s] = e
  <1> DEFINE n == Len(log) + 1
  <1>1. /\ DOMAIN log' = DOMAIN log \cup {n} /\ log'[n] = e
        /\ \A i \in DOMAIN log : log'[i] = log[i] /\ i \in Nat /\ i < n
    <2>1. log \in Seq(Events)
      BY DEF TypeInv, TypeOK
    <2> QED BY <2>1, AppendType
  <1>2. \A i, j \in DOMAIN log' : i < j => i \in DOMAIN log
    BY <1>1
  <1> HIDE DEF n
  <1>3. LogAnswers'
    <2> SUFFICES ASSUME NEW i \in DOMAIN log'
                 PROVE  IF log'[i].by = Relay
                        THEN \E s \in DOMAIN log' : Caused(log'[s], log'[i])
                        ELSE FromClient(log'[i]) /\ AboutAuthor(log'[i])
      BY DEF LogAnswers
    <2>1. CASE i \in DOMAIN log
      <3>1. IF log[i].by = Relay THEN \E s \in DOMAIN log : Caused(log[s], log[i])
            ELSE FromClient(log[i]) /\ AboutAuthor(log[i])
        BY <2>1 DEF RequestInv, LogAnswers
      <3> QED BY <1>1, <2>1, <3>1
    <2>2. CASE i = n
      BY <1>1, <2>2
    <2> QED BY <1>1, <2>1, <2>2
  <1>4. ASSUME InOrder PROVE SourcesIncrease'
    <2> SUFFICES ASSUME NEW i \in DOMAIN log', NEW j \in DOMAIN log', i < j,
                        log'[i].by # Relay, log'[j].by # Relay
                 PROVE  log'[i].at < log'[j].at
      BY DEF SourcesIncrease
    <2>1. i \in DOMAIN log
      BY <1>2
    <2>2. CASE j \in DOMAIN log
      BY <1>1, <1>4, <2>1, <2>2 DEF RequestInv, SourcesIncrease
    <2>3. CASE j = n
      BY <1>1, <1>4, <2>1, <2>3 DEF IsNewest
    <2> QED BY <1>1, <2>2, <2>3
  <1>5. \A c \in Claims : \E s \in DOMAIN log' : Answers(log'[s], c.key, c.payload)
    BY <1>1 DEF RequestInv, ClaimsAnswer
  <1> QED BY <1>1, <1>3, <1>4, <1>5

\* The requests are followed initially,
LEMMA InitRequests == Init => RequestInv
  BY DEF Init, RequestInv, LogAnswers, ClaimsAnswer, SourcesIncrease, Claims, ClaimsOf,
         PlannedClaims

\* and by every step.
LEMMA NextRequests ==
  ASSUME OutboxInv, LogFromBoth, RequestInv, [Next]_vars PROVE RequestInv'
  <1>0. TypeInv
    BY DEF OutboxInv
  <1>1. CASE Clients
    <2> PICK e \in ClientEvents :
          FromClient(e) /\ AboutAuthor(e) /\ (Submit(e) \/ SubmitFails(e) \/ Duplicate(e))
      BY <1>0, <1>1, ClientsSubmit DEF FromClient, AboutAuthor
    <2>0. e \in Events /\ e.by # Relay
      BY ProjectionAssumption DEF ClientEvents
    <2>1. CASE Submit(e)
      <3> DEFINE q == Plan(e, proj', WasOverrideAdmin(e, proj))
      <3>1. /\ log' = Append(log, e) /\ recs' = q /\ UNCHANGED <<table, outbox>>
            /\ InOrder => IsNewest(e)
            /\ proj' = Apply(proj, e, Len(log) + 1)
        BY <2>1 DEF Submit, Fresh
      <3>2. proj' \in Projections
        <4>1. proj \in Projections /\ Len(log) + 1 \in Nat \ {0}
          BY <1>0 DEF TypeInv, TypeOK
        <4> QED BY <2>0, <3>1, <4>1, ApplyFacts DEF Applied
      <3>3. \A c \in PlannedClaims(q) : Answers(e, c.key, c.payload)
        BY <3>2, PlanAnswers
      <3> HIDE DEF q
      <3>4. Claims' \subseteq Claims \cup PlannedClaims(q)
        BY <3>1 DEF Claims
      <3> QED BY <2>0, <3>1, <3>3, <3>4, <1>0, AppendRequests DEF RequestInv, ClaimsAnswer
    <2>2. CASE SubmitFails(e)
      <3>1. Claims' = Claims /\ log' = Append(log, e)
        BY <2>2, QuietClaims DEF SubmitFails, control
      <3>2. InOrder => IsNewest(e)
        BY <2>2 DEF SubmitFails, Fresh
      <3> QED BY <2>0, <3>1, <3>2, <1>0, AppendRequests DEF RequestInv, ClaimsAnswer
    <2>3. CASE Duplicate(e)
      BY <2>3, QuietClaims, QuietRequests DEF Duplicate, store, control
    <2> QED BY <2>1, <2>2, <2>3
  <1>2. CASE StoreGenerated \/ StoreGeneratedFails
    <2> PICK k \in DOMAIN outbox : log' = log \/ log' = Append(log, outbox[k].payload)
      BY <1>2 DEF StoreGenerated, StoreGeneratedFails
    <2>1. Claims' = Claims
      BY <1>2, QuietClaims DEF StoreGenerated, StoreGeneratedFails
    <2> PICK x : x = outbox[k].payload
      OBVIOUS
    <2>2. x \in Events /\ x.by = Relay
      BY <1>0, PayloadType DEF Payloads
    <2>3. \E s \in DOMAIN log : Caused(log[s], x)
      <3>1. Claim(k, outbox[k]) \in Claims
        BY DEF Claims, ClaimsOf
      <3>2. Claim(k, outbox[k]).payload = x
        BY DEF Claim
      <3> QED BY <3>1, <3>2 DEF RequestInv, ClaimsAnswer, Answers
    <2>4. CASE log' = log
      BY <2>1, <2>4, QuietRequests
    <2>5. CASE log' = Append(log, x)
      BY <2>1, <2>2, <2>3, <2>5, <1>0, AppendRequests DEF RequestInv, ClaimsAnswer
    <2> QED BY <2>4, <2>5
  <1>3. CASE Serve /\ ~StoreGenerated
    <2>1. log' = log
      BY <1>3 DEF Serve, PutRow, MergeRecord, MergeRecordClashes, RecordsMerged,
                  MarkStored, MarkFailed, Finish, store
    <2> QED BY <1>3, <2>1, ServeClaims, QuietRequests
  <1>4. CASE DeriveEvent
    <2> PICK i \in todo :
          /\ scratch' = Apply(scratch, log[i], i)
          /\ \/ recs' = recs
             \/ /\ log[i].by # Relay
                /\ recs' = Plan(log[i], scratch', WasOverrideAdmin(log[i], scratch))
      BY <1>4 DEF DeriveEvent
    <2> DEFINE q == Plan(log[i], scratch', WasOverrideAdmin(log[i], scratch))
    <2>1. log' = log /\ UNCHANGED <<table, outbox>>
      BY <1>4 DEF DeriveEvent, store
    <2>2. /\ i \in DOMAIN log /\ log[i] \in Events /\ i \in Nat \ {0}
          /\ scratch \in Projections
      BY <1>0 DEF TypeInv, TypeOK
    <2>3. scratch' \in Projections
      BY <2>2, ApplyFacts DEF Applied
    <2>4. CASE recs' = recs
      BY <2>1, <2>4, QuietClaims, QuietRequests
    <2>5. CASE log[i].by # Relay /\ recs' = q
      <3>1. log[i] \in ClientEvents
        BY <2>2, <2>5 DEF Events, ClientEvents
      <3>2. AboutAuthor(log[i])
        BY <2>2, <2>5 DEF RequestInv, LogAnswers
      <3>3. \A c \in PlannedClaims(q) : Answers(log[i], c.key, c.payload)
        BY <2>3, <3>1, <3>2, PlanAnswers
      <3> HIDE DEF q
      <3>4. Claims' \subseteq Claims \cup PlannedClaims(q)
        BY <2>1, <2>5 DEF Claims
      <3> QED BY <2>1, <2>2, <3>3, <3>4
              DEF RequestInv, ClaimsAnswer, LogAnswers, SourcesIncrease
    <2> QED BY <2>4, <2>5
  <1>5. CASE Recover /\ ~DeriveEvent
    <2>1. log' = log
      BY <1>5 DEF Recover, Open, ReplayEvent, StartClearing, ClearRow, TableCleared,
                  PutCheckpoint, RecordsDerived, store
    <2> QED BY <1>5, <2>1, RecoverClaims, QuietRequests
  <1>6. CASE Fail /\ ~StoreGeneratedFails
    <2>1. log' = log
      BY <1>6 DEF Fail, PutRowFails, MergeRecordFails, MarkStoredFails, RewriteFails
    <2> QED BY <1>6, <2>1, FailClaims, QuietRequests
  <1>7. CASE Crash \/ Shutdown \/ Upgrade \/ UNCHANGED vars
    <2>1. log' = log
      BY <1>7 DEF Crash, Shutdown, Upgrade, vars, store
    <2> QED BY <1>7, <2>1, EnvironmentClaims, QuietRequests
  <1> QED BY <1>1, <1>2, <1>3, <1>4, <1>5, <1>6, <1>7 DEF Next

-----------------------------------------------------------------------------
(* What memory missed.  While the service runs, an event it missed belongs to *)
(* a request that was answered with an error, or is about to be: records are  *)
(* left to retry only for such requests.                                      *)

\* Keys of the requests that failed, or are failing.
Blamed == errored \cup {k \in {src} : pc = "mark_failed"}

MissedEvents ==
  /\ pc = "down" \/ (opening /\ pc # "mark_failed") => missed = {}
  /\ Running =>
       \A j \in missed :
         IF log[j].by # Relay THEN Key(log[j]) \in errored
         ELSE \E s \in DOMAIN log : Caused(log[s], log[j]) /\ Key(log[s]) \in Blamed
LeftToRetry ==
  /\ Running => \A k \in Retryable(outbox) : k.src \in Unanswered
  /\ Serving => \A j \in DOMAIN recs : recs[j].key.src = src

MissedGood == MissedEvents /\ LeftToRetry

\* The process ends.
LEMMA DownMissed ==
  ASSUME pc' = "down", missed' = {} PROVE MissedGood'
  BY DEF MissedGood, MissedEvents, LeftToRetry, Running, Serving

\* The service is opening and goes on with it.
LEMMA OpeningMissed ==
  ASSUME opening', missed' = {} \/ pc' = "mark_failed", pc' # "down" PROVE MissedGood'
  BY DEF MissedGood, MissedEvents, LeftToRetry, Running, Serving

\* The running service goes on, or ends its operation with an error, and leaves no
\* other records to retry.
LEMMA RunningMissed ==
  ASSUME MissedGood, TypeInv, Running, ~opening', pc' # "down", Grown, Blamed \subseteq Blamed',
         \A j \in missed' : \/ j \in missed
                            \/ /\ j \in DOMAIN log' /\ log'[j].by = Relay
                               /\ \E s \in DOMAIN log : /\ Caused(log[s], log'[j])
                                                        /\ Key(log[s]) \in Blamed'
                            \/ log'[j].by # Relay /\ Key(log'[j]) \in errored',
         errored \subseteq errored',
         \A k \in Retryable(outbox') : k.src \in Unanswered',
         Serving' => \A j \in DOMAIN recs' : recs'[j].key.src = src'
  PROVE  MissedGood'
  <1>1. ASSUME NEW j \in missed'
        PROVE  IF log'[j].by # Relay THEN Key(log'[j]) \in errored'
               ELSE \E s \in DOMAIN log' :
                      Caused(log'[s], log'[j]) /\ Key(log'[s]) \in Blamed'
    <2>1. CASE j \in missed
      <3>1. j \in DOMAIN log /\ log'[j] = log[j]
        BY <2>1 DEF TypeInv, TypeOK, Grown
      <3>2. IF log[j].by # Relay THEN Key(log[j]) \in errored
            ELSE \E s \in DOMAIN log : Caused(log[s], log[j]) /\ Key(log[s]) \in Blamed
        BY <2>1 DEF MissedGood, MissedEvents
      <3>3. CASE log[j].by # Relay
        BY <3>1, <3>2, <3>3
      <3>4. CASE log[j].by = Relay
        <4> PICK s \in DOMAIN log : Caused(log[s], log[j]) /\ Key(log[s]) \in Blamed
          BY <3>2, <3>4
        <4>1. s \in DOMAIN log' /\ log'[s] = log[s]
          BY DEF Grown
        <4> QED BY <3>1, <3>4, <4>1
      <3> QED BY <3>3, <3>4
    <2>2. CASE log'[j].by # Relay /\ Key(log'[j]) \in errored'
      BY <2>2
    <2>3. CASE /\ log'[j].by = Relay
               /\ \E s \in DOMAIN log : Caused(log[s], log'[j]) /\ Key(log[s]) \in Blamed'
      <3> PICK s \in DOMAIN log : Caused(log[s], log'[j]) /\ Key(log[s]) \in Blamed'
        BY <2>3
      <3>1. s \in DOMAIN log' /\ log'[s] = log[s]
        BY DEF Grown
      <3> QED BY <2>3, <3>1
    <2> QED BY <2>1, <2>2, <2>3
  <1> QED BY <1>1 DEF MissedGood, MissedEvents, LeftToRetry, Running

\* A record that is written leaves only itself to retry.
LEMMA UpdateRetryable ==
  ASSUME NEW o \in Tables, NEW k \in RecordKeys, NEW r \in Records
  PROVE  \A x \in Retryable(Update(o, k, r)) : x \in Retryable(o) \/ x = k
  <1> PICK a : a = Update(o, k, r)
    OBVIOUS
  <1>1. DOMAIN a = DOMAIN o \cup {k} /\ \A x \in DOMAIN o : x # k => a[x] = o[x]
    BY UpdateFacts
  <1>2. \A x \in Retryable(a) : x \in Retryable(o) \/ x = k
    BY <1>1 DEF Retryable
  <1> QED BY <1>2

\* A mark leaves only records to retry that were.
LEMMA MarkRetryable ==
  ASSUME NEW o \in Tables, NEW k \in DOMAIN o, IsRetryable(o[k]), NEW s \in Statuses
  PROVE  Retryable(WithStatus(o, k, s)) \subseteq Retryable(o)
  <1> DEFINE r == [o[k] EXCEPT !.status = s]
  <1>1. k \in RecordKeys /\ r \in Records
    BY WithStatusType
  <1>2. WithStatus(o, k, s) = Update(o, k, r)
    BY DEF WithStatus
  <1> HIDE DEF r
  <1>3. k \in Retryable(o)
    BY DEF Retryable
  <1> QED BY <1>1, <1>2, <1>3, UpdateRetryable

\* An operation of the running service ends with an error, or its opening does.
LEMMA ErrorMissed ==
  ASSUME CompleteInv, MissedGood, Grown, NEW o, ReturnError(o), pc # "down",
         ~opening => /\ Serving
                     /\ \A k \in Retryable(o) : k \in Retryable(outbox) \/ k.src = src
  PROVE  MissedGood'
  <1>1. CASE opening
    BY <1>1, DownMissed DEF ReturnError, GoDown
  <1>2. CASE ~opening
    <2>1. /\ pc' = "idle" /\ opening' = FALSE /\ errored' = errored \cup {src}
          /\ missed' = missed /\ outbox' = o /\ TypeInv
      BY <1>2 DEF ReturnError, ResetControl, CompleteInv, LogInv, OutboxInv
    <2>2. /\ Running /\ ~Serving' /\ Unanswered \subseteq Unanswered' /\ src \in Unanswered'
          /\ Blamed \subseteq Blamed'
      BY <1>2, <2>1 DEF Running, Serving, Unanswered, Blamed
    <2>3. \A k \in Retryable(outbox') : k.src \in Unanswered'
      BY <1>2, <2>1, <2>2 DEF MissedGood, LeftToRetry
    <2> QED BY <2>1, <2>2, <2>3, RunningMissed
  <1> QED BY <1>1, <1>2

\* A client's event comes in: what it calls for names it.
LEMMA ClientMissed ==
  ASSUME CompleteInv, MissedGood, Grown, pc = "idle", NEW e \in ClientEvents,
         Submit(e) \/ SubmitFails(e) \/ Duplicate(e)
  PROVE  MissedGood'
  <1>0. TypeInv /\ log \in Seq(Events) /\ e \in Events /\ e.by # Relay /\ ~opening /\ Running
        /\ ~Serving /\ \A k \in Retryable(outbox) : k.src \in Unanswered
    BY ProjectionAssumption
       DEF CompleteInv, LogInv, OutboxInv, TypeInv, TypeOK, ClientEvents, AnswersGood,
           OpeningDerives, Running, Serving, MissedGood, LeftToRetry
  <1>1. CASE Submit(e)
    <2>1. /\ pc' = "records" /\ src' = Key(e) /\ UNCHANGED <<outbox, opening, missed, errored>>
          /\ recs' = Plan(e, proj', WasOverrideAdmin(e, proj))
      BY <1>1 DEF Submit, history
    <2>2. \A j \in DOMAIN recs' : recs'[j].key.src = src'
      BY <2>1, PlanFacts
    <2>3. Unanswered \subseteq Unanswered' /\ Blamed \subseteq Blamed'
      BY <1>0, <2>1 DEF Unanswered, Blamed
    <2> QED BY <1>0, <2>1, <2>2, <2>3, RunningMissed
  <1>2. CASE SubmitFails(e)
    <2>1. /\ log' = Append(log, e) /\ errored' = errored \cup {Key(e)}
          /\ missed' = missed \cup {Len(log) + 1}
          /\ UNCHANGED <<pc, outbox, opening, src, recs>>
      BY <1>2 DEF SubmitFails, control
    <2>2. log'[Len(log) + 1] = e /\ ~Serving'
          /\ Unanswered \subseteq Unanswered' /\ Blamed \subseteq Blamed'
      BY <1>0, <2>1, AppendType DEF Unanswered, Serving, Blamed
    <2> QED BY <1>0, <2>1, <2>2, RunningMissed
  <1>3. CASE Duplicate(e)
    <2>1. UNCHANGED <<log, pc, outbox, opening, src, recs, missed, errored>>
      BY <1>3 DEF Duplicate, store, control
    <2>2. ~Serving' /\ Unanswered \subseteq Unanswered' /\ Blamed \subseteq Blamed'
      BY <1>0, <2>1 DEF Unanswered, Serving, Blamed
    <2> QED BY <1>0, <2>1, <2>2, RunningMissed
  <1> QED BY <1>1, <1>2, <1>3

\* A quiet step of an operation or of an opening.
LEMMA QuietMissed ==
  ASSUME CompleteInv, MissedGood, Grown, UNCHANGED <<opening, src, errored, missed>>,
         pc \notin {"down", "mark_failed"}, pc' # "down",
         ~opening => Serving /\ Serving',
         ~opening => \A k \in Retryable(outbox') : k \in Retryable(outbox) \/ k.src = src,
         ~opening => \A j \in DOMAIN recs' : recs'[j].key.src = src
  PROVE  MissedGood'
  <1>0. TypeInv
    BY DEF CompleteInv, LogInv, OutboxInv
  <1>1. CASE opening
    BY <1>1, OpeningMissed DEF MissedGood, MissedEvents
  <1>2. CASE ~opening
    <2>1. /\ Running /\ Unanswered' = Unanswered /\ src \in Unanswered /\ ~opening'
          /\ Blamed \subseteq Blamed'
      BY <1>0, <1>2 DEF Running, Unanswered, Blamed, TypeInv, TypeOK
    <2>2. \A k \in Retryable(outbox') : k.src \in Unanswered'
      BY <1>2, <2>1 DEF MissedGood, LeftToRetry
    <2> QED BY <1>0, <1>2, <2>1, <2>2, RunningMissed
  <1> QED BY <1>1, <1>2

\* The steps of an operation, or of an opening that merges and materializes.
LEMMA ServeMissed ==
  ASSUME CompleteInv, MissedGood, Grown, Serve PROVE MissedGood'
  <1>0. /\ TypeInv /\ table \in Tables /\ outbox \in Tables /\ recs \in Seq(PlannedRecords)
        /\ pc \in {"mark", "mark_failed"} => cur \in DOMAIN outbox /\ IsRetryable(outbox[cur])
        /\ ServingGood
        /\ ~opening /\ Serving => \A j \in DOMAIN recs : recs[j].key.src = src
    BY OutboxTypes
       DEF CompleteInv, LogInv, OutboxInv, MarkingRetryable, MissedGood, LeftToRetry
  <1>1. CASE PutRow \/ RecordsMerged \/ StoreGenerated
    <2>1. /\ \/ pc' = pc /\ pc \in {"records", "mark", "checkpoint"}
             \/ pc = "records" /\ pc' = IF opening THEN "derive" ELSE "materialize"
             \/ pc = "materialize" /\ pc' = "mark"
          /\ UNCHANGED <<outbox, recs, opening, src, errored, missed>>
      BY <1>1 DEF PutRow, RecordsMerged, StoreGenerated, control, history
    <2>2. ~opening => Serving /\ Serving'
      BY <1>0, <2>1 DEF Serving, ServingGood
    <2> QED BY <1>0, <2>1, <2>2, QuietMissed
  <1>2. CASE MergeRecord
    <2>1. /\ pc = "records" /\ pc' = pc /\ recs # <<>> /\ recs' = Tail(recs)
          /\ UNCHANGED <<opening, src, errored, missed>>
          /\ outbox' = outbox \/ outbox' = Update(outbox, Head(recs).key, Head(recs).rec)
      BY <1>2 DEF MergeRecord, history
    <2>2. Head(recs).key \in RecordKeys /\ Head(recs).rec \in Records
      BY <1>0, <2>1, HeadType
    <2>3. \A k \in Retryable(outbox') : k \in Retryable(outbox) \/ k = Head(recs).key
      BY <1>0, <2>1, <2>2, UpdateRetryable
    <2>4. /\ 1 \in DOMAIN recs /\ Head(recs) = recs[1]
          /\ \A j \in DOMAIN recs' : j + 1 \in DOMAIN recs /\ recs'[j] = recs[j + 1]
      BY <1>0, <2>1, TailFacts
    <2>5. ~opening => /\ Serving /\ Serving' /\ Head(recs).key.src = src
                      /\ \A j \in DOMAIN recs' : recs'[j].key.src = src
      BY <1>0, <2>1, <2>4 DEF Serving
    <2> QED BY <2>1, <2>3, <2>5, QuietMissed
  <1>3. CASE MergeRecordClashes
    <2>1. CASE opening
      <3>1. UNCHANGED <<opening, missed>> /\ pc = "records" /\ pc' = "broken"
        BY <1>3, <2>1 DEF MergeRecordClashes, control
      <3> QED BY <2>1, <3>1, OpeningMissed DEF MissedGood, MissedEvents
    <2>2. CASE ~opening
      <3>1. ReturnError(outbox) /\ pc = "records"
        BY <1>3, <2>2 DEF MergeRecordClashes
      <3> QED BY <2>2, <3>1, ErrorMissed DEF Serving
    <2> QED BY <2>1, <2>2
  <1>4. CASE MarkStored
    <2>1. /\ pc = "mark" /\ pc' = "materialize" /\ outbox' = WithStatus(outbox, cur, "stored")
          /\ UNCHANGED <<recs, opening, src, errored, missed>>
      BY <1>4 DEF MarkStored, history
    <2>2. Retryable(outbox') \subseteq Retryable(outbox)
      BY <1>0, <2>1, MarkRetryable, StatusNames
    <2>3. ~opening => Serving /\ Serving'
      BY <2>1 DEF Serving
    <2> QED BY <1>0, <2>1, <2>2, <2>3, QuietMissed
  <1>5. CASE MarkFailed
    <2>1. ReturnError(WithStatus(outbox, cur, "failed")) /\ pc = "mark_failed"
      BY <1>5 DEF MarkFailed
    <2>2. Retryable(WithStatus(outbox, cur, "failed")) \subseteq Retryable(outbox)
      BY <1>0, <2>1, MarkRetryable, StatusNames
    <2>3. ~opening => Serving
      BY <2>1 DEF Serving
    <2> QED BY <2>1, <2>2, <2>3, ErrorMissed
  <1>6. CASE Finish
    <2>1. /\ pc = "materialize" /\ Retryable(outbox) = {} /\ pc' = "idle" /\ opening' = FALSE
          /\ UNCHANGED <<log, outbox, missed>> /\ ~Serving'
          /\ ~opening => errored' = errored
      BY <1>6 DEF Finish, ResetControl, Serving, store
    <2>2. CASE opening
      <3>1. missed' = {}
        BY <2>1, <2>2 DEF MissedGood, MissedEvents
      <3> QED BY <2>1, <3>1 DEF MissedGood, MissedEvents, LeftToRetry, Running
    <2>3. CASE ~opening
      <3>1. Blamed \subseteq Blamed' /\ Running
        BY <2>1, <2>3 DEF Blamed, Running
      <3> QED BY <1>0, <2>1, <2>3, <3>1, RunningMissed
    <2> QED BY <2>2, <2>3
  <1> QED BY <1>1, <1>2, <1>3, <1>4, <1>5, <1>6 DEF Serve

\* The steps of an opening.
LEMMA RecoverMissed ==
  ASSUME CompleteInv, MissedGood, Recover PROVE MissedGood'
  <1>0. ServingGood
    BY DEF CompleteInv
  <1>1. CASE Open
    BY <1>1, OpeningMissed DEF Open, StartDeriving, MissedGood, MissedEvents, history
  <1>2. CASE Recover /\ ~Open
    <2>1. /\ pc \in {"replay", "clear", "checkpoint", "derive"} /\ pc' # "down"
          /\ UNCHANGED <<opening, missed>>
      BY <1>2 DEF Recover, ReplayEvent, StartClearing, ClearRow, TableCleared, PutCheckpoint,
                  DeriveEvent, RecordsDerived, StartDeriving, control, history
    <2>2. opening
      BY <1>0, <2>1 DEF ServingGood
    <2> QED BY <2>1, <2>2, OpeningMissed DEF MissedGood, MissedEvents
  <1> QED BY <1>1, <1>2

\* Failed writes.
LEMMA FailMissed ==
  ASSUME CompleteInv, RequestInv, MissedGood, Grown, Fail PROVE MissedGood'
  <1>0. /\ TypeInv /\ table \in Tables /\ outbox \in Tables /\ recs \in Seq(PlannedRecords)
        /\ pc \in {"mark", "mark_failed"} => cur \in DOMAIN outbox /\ IsRetryable(outbox[cur])
        /\ ServingGood
        /\ ~opening /\ Serving => \A j \in DOMAIN recs : recs[j].key.src = src
    BY OutboxTypes
       DEF CompleteInv, LogInv, OutboxInv, MarkingRetryable, MissedGood, LeftToRetry
  <1>1. CASE PutRowFails /\ pc = "mark"
    <2>1. /\ pc' = "mark_failed" /\ UNCHANGED <<outbox, recs, opening, src, errored, missed>>
      BY <1>1 DEF PutRowFails
    <2>2. ~opening => Serving /\ Serving'
      BY <1>1, <2>1 DEF Serving
    <2> QED BY <1>0, <1>1, <2>1, <2>2, QuietMissed
  <1>2. CASE PutRowFails /\ pc # "mark"
    <2>1. ReturnError(outbox) /\ pc \in {"records", "checkpoint"}
      BY <1>2 DEF PutRowFails
    <2>2. ~opening => Serving
      BY <1>0, <2>1 DEF Serving, ServingGood
    <2> QED BY <2>1, <2>2, ErrorMissed
  <1>3. CASE MergeRecordFails
    <2>1. /\ ReturnError(Update(outbox, Head(recs).key, Head(recs).rec)) /\ pc = "records"
          /\ recs # <<>>
      BY <1>3 DEF MergeRecordFails
    <2>2. Head(recs).key \in RecordKeys /\ Head(recs).rec \in Records
      BY <1>0, <2>1, HeadType
    <2>3. \A k \in Retryable(Update(outbox, Head(recs).key, Head(recs).rec)) :
            k \in Retryable(outbox) \/ k = Head(recs).key
      BY <1>0, <2>2, UpdateRetryable
    <2>4. 1 \in DOMAIN recs /\ Head(recs) = recs[1]
      BY <1>0, <2>1, TailFacts
    <2>5. ~opening => Serving /\ Head(recs).key.src = src
      BY <1>0, <2>1, <2>4 DEF Serving
    <2> QED BY <2>1, <2>3, <2>5, ErrorMissed
  <1>4. CASE MarkStoredFails
    <2>1. ReturnError(WithStatus(outbox, cur, "stored")) /\ pc = "mark"
      BY <1>4 DEF MarkStoredFails
    <2>2. Retryable(WithStatus(outbox, cur, "stored")) \subseteq Retryable(outbox)
      BY <1>0, <2>1, MarkRetryable, StatusNames
    <2>3. ~opening => Serving
      BY <2>1 DEF Serving
    <2> QED BY <2>1, <2>2, <2>3, ErrorMissed
  <1>5. CASE StoreGeneratedFails
    <2> PICK k \in Retryable(outbox) :
          \/ UNCHANGED <<log, missed>>
          \/ log' = Append(log, outbox[k].payload) /\ missed' = missed \cup {Len(log) + 1}
      BY <1>5 DEF StoreGeneratedFails, IsNextRecord
    <2>1. /\ pc = "materialize" /\ pc' = "mark_failed"
          /\ UNCHANGED <<outbox, recs, opening, src, errored>>
      BY <1>5 DEF StoreGeneratedFails
    <2>2. CASE opening
      BY <2>1, <2>2, OpeningMissed
    <2>3. CASE ~opening
      <3> PICK x : x = outbox[k].payload
        OBVIOUS
      <3>1. k \in DOMAIN outbox /\ x \in Events /\ x.by = Relay
        BY <1>0, PayloadType DEF Payloads, Retryable
      <3>2. Claim(k, outbox[k]) \in Claims
        BY <3>1 DEF Claims, ClaimsOf
      <3>3. Claim(k, outbox[k]).payload = x /\ Claim(k, outbox[k]).key = k
        BY DEF Claim
      <3> PICK s \in DOMAIN log : Answers(log[s], k, x)
        BY <3>2, <3>3 DEF RequestInv, ClaimsAnswer
      <3>4. /\ Running /\ Serving /\ Serving' /\ ~opening' /\ Unanswered' = Unanswered
            /\ Blamed \subseteq Blamed' /\ Unanswered \subseteq Blamed'
        BY <1>0, <2>1, <2>3 DEF Running, Serving, Unanswered, Blamed, TypeInv, TypeOK
      <3>5. Key(log[s]) \in Blamed' /\ Caused(log[s], x)
        BY <3>4 DEF Answers, MissedGood, LeftToRetry
      <3>6. \A j \in missed' :
              j \in missed \/ (/\ j \in DOMAIN log' /\ log'[j].by = Relay
                              /\ \E z \in DOMAIN log : Caused(log[z], log'[j])
                                                      /\ Key(log[z]) \in Blamed')
        <4>1. CASE UNCHANGED <<log, missed>>
          BY <4>1
        <4>2. CASE log' = Append(log, x) /\ missed' = missed \cup {Len(log) + 1}
          <5>1. log \in Seq(Events)
            BY <1>0 DEF TypeInv, TypeOK
          <5>2. Len(log) + 1 \in DOMAIN log' /\ log'[Len(log) + 1] = x
            BY <3>1, <4>2, <5>1, AppendType
          <5> QED BY <3>1, <3>5, <4>2, <5>2
        <4> QED BY <4>1, <4>2
      <3>7. /\ \A z \in Retryable(outbox') : z.src \in Unanswered'
            /\ \A j \in DOMAIN recs' : recs'[j].key.src = src'
        BY <1>0, <2>1, <2>3, <3>4 DEF MissedGood, LeftToRetry
      <3> QED BY <1>0, <2>1, <3>4, <3>6, <3>7, RunningMissed
    <2> QED BY <2>2, <2>3
  <1>6. CASE RewriteFails
    BY <1>6, DownMissed DEF RewriteFails, GoDown
  <1> QED BY <1>1, <1>2, <1>3, <1>4, <1>5, <1>6 DEF Fail

\* Nothing is missed initially,
LEMMA InitMissed == Init => MissedGood
  BY DEF Init, MissedGood, MissedEvents, LeftToRetry, Running, Serving

\* and what is belongs to a failed request after every step.
LEMMA NextMissed ==
  ASSUME CompleteInv, RequestInv, MissedGood, [Next]_vars PROVE MissedGood'
  <1>0. Grown /\ TypeInv
    BY NextLogInv DEF CompleteInv, LogInv, OutboxInv
  <1>1. CASE Clients
    <2> PICK e \in ClientEvents : Submit(e) \/ SubmitFails(e) \/ Duplicate(e)
      BY <1>0, <1>1, ClientsSubmit
    <2> QED BY <1>0, <1>1, ClientMissed DEF Clients
  <1>2. CASE Crash \/ Shutdown
    BY <1>2, DownMissed DEF Crash, Shutdown, GoDown
  <1>3. CASE Upgrade
    BY <1>3, DownMissed DEF Upgrade, history, MissedGood, MissedEvents
  <1>4. CASE UNCHANGED vars
    <2>1. UNCHANGED <<log, outbox, pc, opening, src, recs, errored, missed>>
      BY <1>4 DEF vars, store, control, history
    <2>2. Running' = Running /\ Serving' = Serving
      BY <2>1 DEF Running, Serving
    <2>3. Unanswered' = Unanswered /\ Blamed' = Blamed
      BY <2>1, <2>2 DEF Unanswered, Blamed
    <2> QED BY <2>1, <2>2, <2>3 DEF MissedGood, MissedEvents, LeftToRetry
  <1> QED BY <1>0, <1>1, <1>2, <1>3, <1>4, ServeMissed, RecoverMissed, FailMissed DEF Next

\* Requests that were answered are complete and members are the latest, so that the
\* last request of a user decides.
LEMMA FollowsFromInv ==
  ASSUME InOrder, AccessInv, CompleteInv, RequestInv, MissedGood
  PROVE  MembershipFollowsRequests
  <1> SUFFICES ASSUME pc = "idle", NEW u \in Users, NEW i \in MembershipRequests(u),
                      Key(log[i]) \in acked, Key(log[i]) \notin errored,
                      \A j \in MembershipRequests(u) : j <= i
               PROVE  IsMember(proj, u) <=> log[i].kind \in {"put", "join"}
    BY DEF MembershipFollowsRequests
  <1>0. /\ i \in DOMAIN log /\ log[i].by # Relay /\ log[i].user = u
        /\ log[i].kind \in {"put", "remove", "join", "leave"}
        /\ \A j \in DOMAIN log : j \in Nat /\ log[j] \in Events
        /\ LogFromBoth /\ StoredOnce
    BY AccessTypes DEF MembershipRequests, Sources, CompleteInv, LogInv, AccessInv
  <1>1. \A j \in MembershipRequests(u) : j = i \/ log[j].at < log[i].at
    <2> TAKE j \in MembershipRequests(u)
    <2>1. j \in DOMAIN log /\ log[j].by # Relay /\ j <= i
      BY DEF MembershipRequests, Sources
    <2> QED BY <1>0, <2>1 DEF RequestInv, SourcesIncrease
  <1>9. ASSUME NEW j \in DOMAIN log, log[j].kind \in {"put", "remove"}, log[j].user = u,
                log[j].at = log[i].at
         PROVE  j \in MemberEvents(u)
    <2> SUFFICES ASSUME j \in missed PROVE FALSE
      BY <1>9 DEF MemberEvents, Known
    <2>1. Running /\ Blamed = errored
      BY DEF CompleteInv, AnswersGood, OpeningDerives, Running, Blamed
    <2>2. IF log[j].by # Relay THEN Key(log[j]) \in errored
          ELSE \E s \in DOMAIN log : Caused(log[s], log[j]) /\ Key(log[s]) \in errored
      BY <2>1 DEF MissedGood, MissedEvents
    <2>3. CASE log[j].by # Relay
      <3>1. j \in MembershipRequests(u)
        BY <1>9, <2>3 DEF MembershipRequests, Sources
      <3>2. j # i
        BY <2>2, <2>3
      <3> QED BY <1>0, <1>1, <1>9, <3>1, <3>2 DEF Events
    <2>4. CASE log[j].by = Relay
      <3> PICK s \in DOMAIN log : Caused(log[s], log[j]) /\ Key(log[s]) \in errored
        BY <2>2, <2>4
      <3>1. s \in MembershipRequests(u) /\ log[s].at = log[i].at
        BY <1>9 DEF Caused, MembershipRequests, Sources
      <3>2. s # i
        OBVIOUS
      <3> QED BY <1>0, <1>1, <3>1, <3>2 DEF Events
    <2> QED BY <2>3, <2>4
  <1>2. ASSUME NEW j \in MemberEvents(u)
        PROVE  \/ log[j].at < log[i].at
               \/ log[j].at = log[i].at /\ j = i
               \/ /\ log[j].at = log[i].at /\ log[j].by = Relay
                  /\ log[j].kind = "put" => log[i].kind = "join"
                  /\ log[j].kind = "remove" => log[i].kind = "leave"
    <2>1. j \in DOMAIN log /\ log[j].kind \in {"put", "remove"} /\ log[j].user = u
      BY DEF MemberEvents, Known
    <2>2. CASE log[j].by # Relay
      <3>1. j \in MembershipRequests(u)
        BY <2>1, <2>2 DEF MembershipRequests, Sources
      <3> QED BY <1>1, <3>1
    <2>3. CASE log[j].by = Relay
      <3> PICK s \in DOMAIN log : Caused(log[s], log[j])
        BY <2>1, <2>3 DEF RequestInv, LogAnswers
      <3>1. s \in MembershipRequests(u)
        BY <2>1 DEF Caused, MembershipRequests, Sources
      <3> QED BY <1>1, <2>1, <2>3, <3>1 DEF Caused
    <2> QED BY <2>2, <2>3
  <1>3. \E j \in MemberEvents(u) : log[j].at = log[i].at
    <2>1. CASE log[i].kind \in {"put", "remove"}
      BY <1>0, <1>9, <2>1
    <2>2. CASE log[i].kind \in {"join", "leave"}
      <3> DEFINE f == IF log[i].kind = "join" THEN "join_accepted" ELSE "leave_accepted"
                 k == [src |-> Key(log[i]), effect |-> f]
                 x == table[k].payload
      <3>1. f \in Promised(log[i]) /\ f # "member_list_snapshot"
        BY <2>2 DEF Promised
      <3>2. k \in DOMAIN table /\ Key(x) \in StoredKeys
        <4>1. Complete(StoredKeys, table, log[i])
          BY <1>0, CompleteMeaning DEF CompleteInv
        <4> QED BY <3>1, <4>1 DEF Complete
      <3>3. Claim(k, table[k]) \in Claims
        BY <3>2 DEF Claims, ClaimsOf
      <3>4. /\ Claim(k, table[k]).key = k /\ Claim(k, table[k]).payload = x
            /\ k.src = Key(log[i]) /\ k.effect = f
        BY DEF Claim
      <3> HIDE DEF k, x
      <3> PICK s \in DOMAIN log : Answers(log[s], k, x)
        BY <3>3, <3>4 DEF RequestInv, ClaimsAnswer
      <3>5. s = i
        BY <1>0, <3>4 DEF Answers, StoredOnce
      <3>6. /\ x.at = log[i].at /\ x.kind \in {"put", "remove"} /\ x.user = u
            /\ \E c \in Contents : x.id = GenId(c) /\ x.kind = c.kind /\ x.user = c.user
        BY <1>0, <2>2, <3>4, <3>5 DEF Answers, Caused
      <3> PICK j \in DOMAIN log : Key(log[j]) = Key(x)
        BY <3>2 DEF StoredKeys
      <3>7. log[j].id = x.id /\ log[j].at = x.at
        BY DEF Key
      <3> PICK c \in Contents : x.id = GenId(c) /\ x.kind = c.kind /\ x.user = c.user
        BY <3>6
      <3>8. x.id \notin SourceIds
        BY NoCollision DEF GeneratedIds
      <3>9. log[j].by = Relay
        BY <1>0, <3>7, <3>8 DEF LogFromBoth, FromClient, Payloads
      <3> PICK r \in DOMAIN log : Caused(log[r], log[j])
        BY <3>9 DEF RequestInv, LogAnswers
      <3> PICK d \in Contents :
            log[j].id = GenId(d) /\ log[j].kind = d.kind /\ log[j].user = d.user
        BY DEF Caused
      <3>10. c = d
        BY <3>7, NoCollision
      <3> QED BY <1>9, <3>6, <3>7, <3>10
    <2> QED BY <1>0, <2>1, <2>2
  <1>4. MembersAreLatest /\ Projected
    BY MembersFromInv DEF Projected
  <1> PICK m \in MemberEvents(u) :
        /\ proj.members[u] = MemberOf(log[m], TupleOf(log[m], m))
        /\ \A j \in MemberEvents(u) : TupleLE(TupleOf(log[j], j), TupleOf(log[m], m))
    BY <1>3, <1>4 DEF MembersAreLatest
  <1>5. log[i].at <= log[m].at /\ m \in DOMAIN log /\ log[m].kind \in {"put", "remove"}
    <2> PICK j \in MemberEvents(u) : log[j].at = log[i].at
      BY <1>3
    <2>1. TupleLE(TupleOf(log[j], j), TupleOf(log[m], m))
      OBVIOUS
    <2>2. j \in DOMAIN log /\ m \in DOMAIN log
      BY DEF MemberEvents, Known
    <2>3. log[j].at \in Nat /\ log[m].at \in Nat
      BY <1>0, <2>2 DEF Events
    <2>4. log[j].at <= log[m].at
      BY <2>1, <2>3 DEF TupleLE, TupleOf
    <2> QED BY <2>2, <2>4 DEF MemberEvents
  <1>6. log[i].at \in Nat /\ log[m].at \in Nat
    BY <1>0, <1>5 DEF Events
  <1>7. \/ m = i
        \/ /\ log[m].kind = "put" => log[i].kind = "join"
           /\ log[m].kind = "remove" => log[i].kind = "leave"
    BY <1>2, <1>5, <1>6
  <1>8. proj.members[u].status = IF log[m].kind = "put" THEN "member" ELSE "removed"
    BY DEF MemberOf
  <1> QED BY <1>0, <1>5, <1>7, <1>8 DEF IsMember

\* When clients' events come in the order of their seconds, a user whose last request
\* was answered OK is a member exactly if it asked for that, through crashes, writes
\* and syncs that fail, restarts and requests that are sent again: the event the relay
\* answered it with is in the store and was not missed by memory, no event of an
\* earlier request can be later in tuple order, however late it was stored, and the
\* projection accounts for it.  A request that was answered with an error before it
\* was answered OK as a duplicate is excepted until the service opens again.
THEOREM RequestsFollowed ==
  ASSUME InOrder, ~SnapshotInterrupted PROVE Spec => []MembershipFollowsRequests
  <1> DEFINE IInv == AccessInv /\ CompleteInv /\ RequestInv /\ MissedGood
  <1>1. Init => IInv
    BY InitTypeInv, InitAccessInv, InitComplete, InitRequests, InitMissed DEF AccessInv
  <1>2. IInv /\ [Next]_vars => IInv'
    BY NextAccessInv, NextComplete, NextRequests, NextMissed DEF CompleteInv, LogInv
  <1>3. IInv => MembershipFollowsRequests
    BY FollowsFromInv
  <1> HIDE DEF IInv
  <1> QED BY <1>1, <1>2, <1>3, PTL DEF Spec

-----------------------------------------------------------------------------
(* The projection in memory is the one rebuilding computes.  The first event *)
(* in store order creates the group; the rows and the projection hold what   *)
(* events of the log left, and account for the events they are said to.      *)

RowsSum ==
  /\ DeletesFrom(log, rows)
  /\ rows.group = NoGroup \/ GroupFrom(log, rows.group)
  /\ ckpt # NoCheckpoint /\ pc \notin {"clear", "checkpoint"} /\ 1 \in Checkpointed
       => GroupFrom(log, rows.group) /\ GroupCovers(log, rows.group, Checkpointed)
  /\ pc = "checkpoint" /\ proj.group.life # "none" /\ <<"group">> \notin rowsLeft
       => rows.group = proj.group

ProjectionSums ==
  /\ DeletesFrom(log, proj)
  /\ pc \notin {"down", "replay"} => GroupUpTo(log, proj.group, DOMAIN log)
  /\ pc = "replay" => GroupUpTo(log, proj.group, DOMAIN log \ todo)

SumInv == Opened(log) /\ RowsSum /\ ProjectionSums

\* Memory knows of every event of the log.
NothingMissed == missed = {}

\* The group record before it counts.
LEMMA GroupStart ==
  ASSUME NEW l \in Seq(Events), NEW g, g = NoGroup \/ GroupFrom(l, g)
  PROVE  GroupUpTo(l, g, {})
  <1>1. CASE 1 \in DOMAIN l
    <2>1. At(l, 1) \in Tuples /\ TupleLE(NoTuple, At(l, 1))
      BY <1>1, NoTupleBelow, LogFacts DEF At
    <2>2. TupleLE(g.created, At(l, 1))
      BY <2>1, TupleReflexive DEF NoGroup, GroupFrom
    <2> QED BY <1>1, <2>2 DEF GroupUpTo
  <1>2. CASE 1 \notin DOMAIN l
    BY <1>2 DEF GroupUpTo, GroupFrom
  <1> QED BY <1>1, <1>2

\* All the events are accounted for: the group is unknown only if there are none.
LEMMA GroupWhole ==
  ASSUME NEW l \in Seq(Events), NEW g, GroupUpTo(l, g, DOMAIN l)
  PROVE  IF 1 \in DOMAIN l THEN GroupFrom(l, g) /\ GroupCovers(l, g, DOMAIN l) /\ g.life # "none"
         ELSE g = NoGroup
  BY DEF GroupUpTo, GroupFrom

\* A projection of nothing.
LEMMA EmptyFromLog ==
  ASSUME NEW l \in Seq(Events)
  PROVE  DeletesFrom(l, EmptyProjection) /\ GroupUpTo(l, EmptyProjection.group, {})
         /\ EmptyProjection.group = NoGroup
  BY EmptySums DEF Sums, EmptyProjection

\* The invariant holds initially.
LEMMA InitSums == Init => SumInv
  <1> SUFFICES ASSUME Init PROVE SumInv
    OBVIOUS
  <1>1. /\ log = <<>> /\ rows = EmptyProjection /\ ckpt = NoCheckpoint
        /\ proj = EmptyProjection /\ pc = "down" /\ log \in Seq(Events)
    BY DEF Init
  <1>2. Opened(log)
    BY <1>1 DEF Opened
  <1>3. DeletesFrom(log, EmptyProjection) /\ EmptyProjection.group = NoGroup
    BY <1>1, EmptyFromLog
  <1> HIDE DEF EmptyProjection
  <1> QED BY <1>1, <1>2, <1>3 DEF SumInv, RowsSum, ProjectionSums

\* The rows r come from events of the log; their group accounts for the events of S.
RowsFrom(r) == DeletesFrom(log, r) /\ (r.group = NoGroup \/ GroupFrom(log, r.group))

RowsGroup(r, S) == GroupFrom(log, r.group) /\ GroupCovers(log, r.group, S)

\* Steps that leave the log, the rows and the projection alone.
LEMMA KeepSums ==
  ASSUME SumInv, UNCHANGED <<log, rows, ckpt, proj>>,
         pc \notin {"down", "replay", "clear", "checkpoint"},
         pc' \notin {"down", "replay", "clear", "checkpoint"}
  PROVE  SumInv'
  BY DEF SumInv, RowsSum, ProjectionSums, Checkpointed

\* The process ends, with rows that come from the log and a checkpoint that vouches for
\* no more than they account for.
LEMMA EndRowsSums ==
  ASSUME Opened(log), log \in Seq(Events), UNCHANGED log, GoDown, RowsFrom(rows'),
         ckpt' # NoCheckpoint /\ 1 \in Checkpointed' => RowsGroup(rows', Checkpointed')
  PROVE  SumInv'
  <1>1. pc' = "down" /\ proj' = EmptyProjection
    BY DEF GoDown
  <1>2. RowsSum'
    BY <1>1 DEF RowsSum, RowsFrom, RowsGroup
  <1>3. DeletesFrom(log, EmptyProjection)
    BY EmptyFromLog
  <1> QED BY <1>1, <1>2, <1>3 DEF SumInv, ProjectionSums

LEMMA EndSums ==
  ASSUME SumInv, log \in Seq(Events), UNCHANGED <<log, rows, ckpt>>, GoDown,
         pc \in {"clear", "checkpoint"} => ckpt = NoCheckpoint
  PROVE  SumInv'
  BY EndRowsSums DEF SumInv, RowsSum, RowsFrom, RowsGroup, Checkpointed

\* An operation or the opening ends with an error, with one row put or none.
LEMMA ErrorRowsSums ==
  ASSUME SumInv, log \in Seq(Events), NEW o, ReturnError(o), UNCHANGED <<log, ckpt>>,
         pc \notin {"down", "replay"}, RowsFrom(rows'),
         ckpt # NoCheckpoint /\ 1 \in Checkpointed => RowsGroup(rows', Checkpointed)
  PROVE  SumInv'
  <1>0. Checkpointed' = Checkpointed
    BY DEF Checkpointed
  <1>1. CASE opening
    BY <1>0, <1>1, EndRowsSums DEF ReturnError, SumInv
  <1>2. CASE ~opening
    <2>1. pc' = "idle" /\ proj' = proj
      BY <1>2 DEF ReturnError
    <2> QED BY <1>0, <2>1 DEF SumInv, RowsSum, ProjectionSums, RowsFrom, RowsGroup
  <1> QED BY <1>1, <1>2

LEMMA ErrorSums ==
  ASSUME SumInv, log \in Seq(Events), NEW o, ReturnError(o), UNCHANGED <<log, rows, ckpt>>,
         pc \notin {"down", "replay"},
         pc \in {"clear", "checkpoint"} => ckpt = NoCheckpoint
  PROVE  SumInv'
  <1>1. RowsFrom(rows)
    BY DEF SumInv, RowsSum, RowsFrom
  <1>2. ckpt # NoCheckpoint /\ 1 \in Checkpointed => RowsGroup(rows, Checkpointed)
    BY DEF SumInv, RowsSum, RowsGroup
  <1> QED BY <1>1, <1>2, ErrorRowsSums

\* Memory accounts for all of the log when it missed nothing.
LEMMA AccessSums ==
  ASSUME AccessInv, SumInv, missed = {}, pc \notin {"down", "replay"}
  PROVE  Sums(log, proj, DOMAIN log)
  <1>1. Known = DOMAIN log
    BY DEF Known
  <1>2. MembersFrom(log, proj, DOMAIN log) /\ Covers(log, proj, DOMAIN log)
    BY <1>1, AccessFacts DEF ProjectionCovers
  <1> QED BY <1>2, AccessFacts, AccessTypes DEF SumInv, ProjectionSums, Sums

\* An event is stored and applied.
LEMMA StoreSums ==
  ASSUME AccessInv, SumInv, missed = {}, NEW e \in Events, Opened(Append(log, e)),
         pc \notin {"down", "replay", "clear", "checkpoint"},
         pc' \notin {"down", "replay", "clear", "checkpoint"},
         log' = Append(log, e), proj' = Apply(proj, e, Len(log) + 1),
         UNCHANGED <<rows, ckpt>>
  PROVE  SumInv'
  <1>0. /\ log \in Seq(Events) /\ rows \in Projections /\ proj \in Projections
        /\ ckpt \in Nat \cup {NoCheckpoint} /\ Len(log) \in Nat /\ DOMAIN log = 1..Len(log)
    BY AccessTypes DEF AccessInv
  <1>1. Sums(log, proj, DOMAIN log)
    BY <1>0, AccessSums
  <1>2. Sums(log', proj', DOMAIN log')
    BY <1>0, <1>1, AppendSums
  <1>3. ProjectionSums'
    BY <1>2 DEF ProjectionSums, Sums
  <1>4. DeletesFrom(log', rows) /\ (rows.group = NoGroup \/ GroupFrom(log', rows.group))
    BY <1>0, AppendGroup DEF SumInv, RowsSum
  <1>5. ASSUME ckpt # NoCheckpoint, 1 \in Checkpointed'
        PROVE  GroupFrom(log', rows.group) /\ GroupCovers(log', rows.group, Checkpointed')
    <2>1. ckpt <= Len(log) /\ ckpt \in Nat
      BY <1>0, <1>5, AccessFacts DEF RowsCover
    <2>2. DOMAIN log' = 1..(Len(log) + 1)
      BY <1>0, AppendType
    <2>3. Checkpointed' = Checkpointed
      BY <1>0, <2>1, <2>2 DEF Checkpointed
    <2>4. Checkpointed \in SUBSET DOMAIN log
      BY DEF Checkpointed
    <2>5. GroupFrom(log, rows.group) /\ GroupCovers(log, rows.group, Checkpointed)
      BY <1>5, <2>3 DEF SumInv, RowsSum
    <2> QED BY <1>0, <2>3, <2>4, <2>5, AppendGroup
  <1>6. RowsSum'
    BY <1>4, <1>5 DEF RowsSum
  <1> QED BY <1>3, <1>6 DEF SumInv

\* The log opens with the creation of the group and goes on in later seconds.
LEMMA AppendOpened ==
  ASSUME NEW l \in Seq(Events), NEW e \in Events, Opened(l),
         IF l = <<>> THEN e.kind = "create"
         ELSE /\ e.kind # "create"
              /\ e.kind \in {"edit", "delete_group"} => l[1].at < e.at
  PROVE  Opened(Append(l, e))
  <1> DEFINE m == Append(l, e)
             n == Len(l) + 1
  <1>1. /\ DOMAIN m = DOMAIN l \cup {n} /\ m[n] = e /\ n \notin DOMAIN l
        /\ l = <<>> => DOMAIN l = {} /\ n = 1
        /\ l # <<>> => 1 \in DOMAIN l
        /\ \A i \in DOMAIN l : m[i] = l[i]
    BY AppendType
  <1> HIDE DEF m, n
  <1>2. Opened(m)
    <2>1. CASE l = <<>>
      BY <1>1, <2>1 DEF Opened
    <2>2. CASE l # <<>>
      BY <1>1, <2>2 DEF Opened
    <2> QED BY <2>1, <2>2
  <1> QED BY <1>2 DEF m

\* The relay's events create, edit and delete no group, and answer one of the log.
LEMMA CausedOpened ==
  ASSUME NEW l \in Seq(Events), NEW e \in Events, Opened(l),
         \E s \in DOMAIN l : Caused(l[s], e)
  PROVE  Opened(Append(l, e))
  <1>1. e.kind \in {"metadata", "admins", "members", "put", "remove"}
    BY DEF Caused, Contents
  <1>2. l # <<>>
    OBVIOUS
  <1> QED BY <1>1, <1>2, AppendOpened

\* A client's event is stored.
LEMMA SubmitSums ==
  ASSUME InOrder, AccessInv, SumInv, missed = {}, NEW e \in ClientEvents, pc = "idle",
         Submit(e)
  PROVE  SumInv'
  <1>0. log \in Seq(Events) /\ e \in Events
    BY AccessTypes DEF AccessInv, ClientEvents
  <1>1. /\ log' = Append(log, e) /\ proj' = Apply(proj, e, Len(log) + 1) /\ pc' = "records"
        /\ UNCHANGED <<rows, ckpt>> /\ IsNewest(e) /\ CheckEvent(proj, IndexedKeys, e)
    BY DEF Submit, Fresh
  <1>2. IF 1 \in DOMAIN log THEN proj.group.life # "none" ELSE proj.group = NoGroup
    BY <1>0, GroupWhole DEF SumInv, ProjectionSums
  <1>3. IF log = <<>> THEN e.kind = "create" ELSE e.kind # "create"
    <2>1. CASE log = <<>>
      <3>1. proj.group.life = "none"
        BY <1>2, <2>1 DEF NoGroup
      <3> QED BY <1>1, <2>1, <3>1 DEF CheckEvent, CheckModeration, CheckNormal, IsActive
    <2>2. CASE log # <<>>
      <3>1. 1 \in DOMAIN log
        BY <1>0, <2>2
      <3>2. ~CheckCreateGroup(proj, e)
        BY <1>2, <3>1 DEF CheckCreateGroup
      <3> QED BY <1>1, <2>2, <3>2
              DEF CheckEvent, CheckNormal, ModerationKinds, UserRequestKinds
    <2> QED BY <2>1, <2>2
  <1>4. log # <<>> => log[1].at < e.at
    <2>1. log # <<>> => 1 \in DOMAIN log
      BY <1>0
    <2> QED BY <1>1, <2>1 DEF IsNewest
  <1>5. Opened(Append(log, e))
    BY <1>0, <1>3, <1>4, AppendOpened DEF SumInv
  <1> QED BY <1>0, <1>1, <1>5, StoreSums

\* Putting a row: the tombstone and the deletions.
LEMMA RowAccess ==
  ASSUME NEW r \in Projections, NEW p \in Projections, NEW k \in RowKeys(p)
  PROVE  /\ WithRow(r, p, k).tomb = IF k[1] = "tombstone" THEN p.tomb ELSE r.tomb
         /\ WithRow(r, p, k).dels = IF k[1] = "deletion" THEN r.dels \cup {k[2]} ELSE r.dels
  <1> DEFINE q == WithRow(r, p, k)
  <1> HIDE DEF q
  <1>1. q.tomb = IF k[1] = "tombstone" THEN p.tomb ELSE r.tomb
    BY WithRowFacts DEF q
  <1>2. q.dels = IF k[1] = "deletion" THEN r.dels \cup {k[2]} ELSE r.dels
    BY WithRowFacts DEF q
  <1> QED BY <1>1, <1>2 DEF q

\* A row put is a row of the projection.
LEMMA OneRowSums ==
  ASSUME AccessInv, SumInv, NEW k \in rowsLeft, rows' = WithRow(rows, proj, k),
         pc \in {"records", "mark", "checkpoint"}
  PROVE  /\ RowsFrom(rows')
         /\ rows'.group = IF k = <<"group">> THEN proj.group ELSE rows.group
         /\ ckpt # NoCheckpoint /\ pc # "checkpoint" /\ 1 \in Checkpointed
              => RowsGroup(rows', Checkpointed)
  <1>0. /\ log \in Seq(Events) /\ rows \in Projections /\ proj \in Projections
        /\ k \in RowKeys(proj)
    BY AccessTypes DEF AccessInv
  <1> DEFINE q == WithRow(rows, proj, k)
  <1>1. /\ q.tomb = IF k[1] = "tombstone" THEN proj.tomb ELSE rows.tomb
        /\ q.dels = IF k[1] = "deletion" THEN rows.dels \cup {k[2]} ELSE rows.dels
        /\ q.group = IF k[1] = "group" THEN proj.group ELSE rows.group
    <2>1. /\ q.tomb = IF k[1] = "tombstone" THEN proj.tomb ELSE rows.tomb
          /\ q.dels = IF k[1] = "deletion" THEN rows.dels \cup {k[2]} ELSE rows.dels
      BY <1>0, RowAccess
    <2>2. q.group = IF k[1] = "group" THEN proj.group ELSE rows.group
      BY <1>0, RowGroup
    <2> HIDE DEF q
    <2> QED BY <2>1, <2>2
  <1>2. k[1] = "deletion" => k[2] \in proj.dels
    BY <1>0, RowKeyFacts
  <1>3. rows' = q
    OBVIOUS
  <1>4. k[1] = "group" <=> k = <<"group">>
    <2>1. k[1] = "group" => k = <<"group">>
      BY <1>0 DEF RowKeys
    <2>2. k = <<"group">> => k[1] = "group"
      OBVIOUS
    <2> QED BY <2>1, <2>2
  <1> HIDE DEF q
  <1>5. /\ rows'.tomb \in {proj.tomb, rows.tomb}
        /\ rows'.dels \subseteq rows.dels \cup proj.dels
        /\ rows'.group = IF k = <<"group">> THEN proj.group ELSE rows.group
    BY <1>1, <1>2, <1>3, <1>4
  <1>6. DeletesFrom(log, rows')
    <2>1. DeletesFrom(log, rows) /\ DeletesFrom(log, proj)
      BY DEF SumInv, RowsSum, ProjectionSums
    <2> QED BY <1>5, <2>1 DEF DeletesFrom
  <1>7. GroupUpTo(log, proj.group, DOMAIN log)
    BY DEF SumInv, ProjectionSums
  <1>8. rows'.group = NoGroup \/ GroupFrom(log, rows'.group)
    BY <1>0, <1>5, <1>7, GroupWhole DEF SumInv, RowsSum
  <1>9. ASSUME ckpt # NoCheckpoint, pc # "checkpoint", 1 \in Checkpointed
        PROVE  RowsGroup(rows', Checkpointed)
    <2>1. GroupFrom(log, rows.group) /\ GroupCovers(log, rows.group, Checkpointed)
      BY <1>9 DEF SumInv, RowsSum
    <2>2. 1 \in DOMAIN log /\ Checkpointed \subseteq DOMAIN log
      BY <1>9 DEF Checkpointed
    <2>3. GroupFrom(log, proj.group) /\ GroupCovers(log, proj.group, Checkpointed)
      BY <1>0, <1>7, <2>2, GroupWhole DEF GroupCovers
    <2> QED BY <1>5, <2>1, <2>3 DEF RowsGroup
  <1> QED BY <1>5, <1>6, <1>8, <1>9 DEF RowsFrom

LEMMA PutRowSums ==
  ASSUME AccessInv, SumInv, PutRow
  PROVE  SumInv'
  <1> PICK k \in rowsLeft : rows' = WithRow(rows, proj, k) /\ rowsLeft' = rowsLeft \ {k}
    BY DEF PutRow
  <1>1. /\ UNCHANGED <<log, ckpt, proj, pc, todo>>
        /\ pc \in {"records", "mark", "checkpoint"}
    BY DEF PutRow
  <1>2. /\ RowsFrom(rows')
        /\ rows'.group = IF k = <<"group">> THEN proj.group ELSE rows.group
        /\ ckpt # NoCheckpoint /\ pc # "checkpoint" /\ 1 \in Checkpointed
             => RowsGroup(rows', Checkpointed)
    BY <1>1, OneRowSums
  <1>3. ASSUME pc = "checkpoint", proj.group.life # "none", <<"group">> \notin rowsLeft \ {k}
        PROVE  rows'.group = proj.group
    <2>1. CASE k = <<"group">>
      BY <1>2, <2>1
    <2>2. CASE k # <<"group">>
      BY <1>2, <1>3, <2>2 DEF SumInv, RowsSum
    <2> QED BY <2>1, <2>2
  <1>4. Checkpointed' = Checkpointed
    BY <1>1 DEF Checkpointed
  <1>5. RowsSum'
    BY <1>1, <1>2, <1>3, <1>4 DEF RowsSum, RowsFrom, RowsGroup
  <1>6. ProjectionSums' /\ Opened(log')
    BY <1>1 DEF SumInv, ProjectionSums
  <1> QED BY <1>5, <1>6 DEF SumInv

\* The steps of an operation.
LEMMA ServeSums ==
  ASSUME AccessInv, RequestInv, SumInv, missed = {}, Serve
  PROVE  SumInv'
  <1>0. TypeInv /\ log \in Seq(Events)
    BY AccessTypes DEF AccessInv
  <1>1. CASE PutRow
    BY <1>1, PutRowSums
  <1>2. CASE MergeRecord
    BY <1>2, KeepSums DEF MergeRecord
  <1>3. CASE MergeRecordClashes
    <2>1. CASE opening
      BY <1>3, <2>1, KeepSums DEF MergeRecordClashes, store
    <2>2. CASE ~opening
      <3>1. ReturnError(outbox) /\ UNCHANGED <<log, rows, ckpt>> /\ pc = "records"
        BY <1>3, <2>2 DEF MergeRecordClashes, store
      <3> QED BY <1>0, <3>1, ErrorSums
    <2> QED BY <2>1, <2>2
  <1>4. CASE RecordsMerged
    <2>1. pc' \in {"derive", "materialize"} /\ pc = "records"
      BY <1>4 DEF RecordsMerged
    <2> QED BY <1>4, <2>1, KeepSums DEF RecordsMerged, store
  <1>5. CASE StoreGenerated
    <2> PICK k \in DOMAIN outbox :
          IF AlreadyStored(outbox[k].payload)
          THEN UNCHANGED <<log, proj, rowsLeft>>
          ELSE /\ log' = Append(log, outbox[k].payload)
               /\ proj' = Apply(proj, outbox[k].payload, Len(log) + 1)
               /\ rowsLeft' = RowKeys(proj')
      BY <1>5 DEF StoreGenerated
    <2> PICK x : x = outbox[k].payload
      OBVIOUS
    <2>1. x \in Events
      BY <1>0, PayloadType
    <2>2. pc = "materialize" /\ pc' = "mark" /\ UNCHANGED <<rows, ckpt>>
      BY <1>5 DEF StoreGenerated
    <2>3. CASE UNCHANGED <<log, proj>>
      BY <2>2, <2>3, KeepSums
    <2>4. CASE log' = Append(log, x) /\ proj' = Apply(proj, x, Len(log) + 1)
      <3>1. \E s \in DOMAIN log : Caused(log[s], x)
        <4>1. Claim(k, outbox[k]) \in Claims
          <5> HIDE DEF Claim
          <5> QED BY DEF Claims, ClaimsOf
        <4>2. Claim(k, outbox[k]).payload = x
          BY DEF Claim
        <4> QED BY <4>1, <4>2 DEF RequestInv, ClaimsAnswer, Answers
      <3>2. Opened(Append(log, x))
        BY <1>0, <2>1, <3>1, CausedOpened DEF SumInv
      <3> QED BY <2>1, <2>2, <2>4, <3>2, StoreSums
    <2> QED BY <2>3, <2>4
  <1>6. CASE MarkStored
    BY <1>6, KeepSums DEF MarkStored
  <1>7. CASE MarkFailed
    <2> PICK o : ReturnError(o)
      BY <1>7 DEF MarkFailed
    <2>1. UNCHANGED <<log, rows, ckpt>> /\ pc = "mark_failed"
      BY <1>7 DEF MarkFailed
    <2> QED BY <1>0, <2>1, ErrorSums
  <1>8. CASE Finish
    BY <1>8, KeepSums DEF Finish, store
  <1> QED BY <1>1, <1>2, <1>3, <1>4, <1>5, <1>6, <1>7, <1>8 DEF Serve

\* Clearing leaves rows that still come from the log.
LEMMA WithoutRowSums ==
  ASSUME AccessInv, SumInv, NEW k \in RowKeys(rows), rows' = WithoutRow(rows, k)
  PROVE  RowsFrom(rows')
  <1>0. rows \in Projections
    BY AccessTypes DEF AccessInv
  <1>1. /\ rows'.group \in {NoGroup, rows.group} /\ rows'.tomb \in {NoTuple, rows.tomb}
        /\ rows'.dels \subseteq rows.dels
    BY <1>0, WithoutRowParts
  <1>2. DeletesFrom(log, rows) /\ (rows.group = NoGroup \/ GroupFrom(log, rows.group))
    BY DEF SumInv, RowsSum
  <1> QED BY <1>1, <1>2 DEF RowsFrom, DeletesFrom

LEMMA ClearRowSums ==
  ASSUME AccessInv, SumInv, ClearRow
  PROVE  SumInv'
  <1>1. pc = "clear" /\ UNCHANGED <<log, ckpt, proj, pc>>
    BY DEF ClearRow
  <1>2. RowsFrom(rows')
    BY WithoutRowSums DEF ClearRow
  <1> QED BY <1>1, <1>2 DEF SumInv, RowsSum, ProjectionSums, RowsFrom

\* The checkpoint vouches for a table that holds the projection.
LEMMA AllRowsSums ==
  ASSUME AccessInv, SumInv, pc = "checkpoint", rowsLeft = {}, 1 \in DOMAIN log
  PROVE  RowsGroup(rows, DOMAIN log)
  <1>1. log \in Seq(Events) /\ GroupUpTo(log, proj.group, DOMAIN log)
    BY AccessTypes DEF AccessInv, SumInv, ProjectionSums
  <1>2. /\ GroupFrom(log, proj.group) /\ GroupCovers(log, proj.group, DOMAIN log)
        /\ proj.group.life # "none"
    BY <1>1, GroupWhole
  <1>3. rows.group = proj.group
    BY <1>2 DEF SumInv, RowsSum
  <1> QED BY <1>2, <1>3 DEF RowsGroup

LEMMA PutCheckpointSums ==
  ASSUME AccessInv, SumInv, PutCheckpoint
  PROVE  SumInv'
  <1>1. /\ pc = "checkpoint" /\ rowsLeft = {} /\ pc' = "derive"
        /\ UNCHANGED <<log, rows, proj>>
    BY DEF PutCheckpoint, StartDeriving
  <1>2. ASSUME 1 \in Checkpointed'
        PROVE  GroupFrom(log, rows.group) /\ GroupCovers(log, rows.group, Checkpointed')
    <2>1. 1 \in DOMAIN log /\ Checkpointed' \subseteq DOMAIN log
      BY <1>1, <1>2 DEF Checkpointed
    <2> QED BY <1>1, <2>1, AllRowsSums DEF RowsGroup, GroupCovers
  <1>3. RowsSum'
    BY <1>1, <1>2 DEF SumInv, RowsSum
  <1> QED BY <1>1, <1>3 DEF SumInv, ProjectionSums

\* The projection loaded accounts for what need not be replayed.
LEMMA OpenSums ==
  ASSUME AccessInv, SumInv, Open
  PROVE  SumInv'
  <1>0. /\ log \in Seq(Events) /\ ckpt \in Nat \cup {NoCheckpoint}
        /\ DOMAIN log = 1..Len(log) /\ Len(log) \in Nat
    BY AccessTypes DEF AccessInv
  <1>1. pc = "down" /\ pc' \in {"derive", "replay"} /\ UNCHANGED <<log, rows, ckpt>>
    BY DEF Open, RequiresRebuild, StartDeriving, store
  <1>2. RowsSum' /\ Opened(log')
    BY <1>1 DEF SumInv, RowsSum, Checkpointed
  <1>3. CASE ckpt = NoCheckpoint
    <2>1. pc' = "replay" /\ proj' = EmptyProjection /\ DOMAIN log' \ todo' = {}
      BY <1>1, <1>3 DEF Open, RequiresRebuild
    <2>2. DeletesFrom(log, EmptyProjection) /\ GroupUpTo(log, EmptyProjection.group, {})
      BY <1>0, EmptyFromLog
    <2> HIDE DEF EmptyProjection
    <2> QED BY <1>1, <1>2, <2>1, <2>2 DEF SumInv, ProjectionSums
  <1>4. CASE ckpt # NoCheckpoint
    <2>1. proj' = rows
      BY <1>4 DEF Open, RequiresRebuild
    <2>2. GroupUpTo(log, rows.group, Checkpointed)
      <3>1. CASE 1 \in Checkpointed
        BY <1>1, <1>4, <3>1 DEF SumInv, RowsSum, GroupUpTo
      <3>2. CASE 1 \notin Checkpointed
        <4>1. Checkpointed = {}
          BY <1>0, <1>4, <3>2 DEF Checkpointed
        <4> QED BY <1>0, <4>1, GroupStart DEF SumInv, RowsSum
      <3> QED BY <3>1, <3>2
    <2>3. DeletesFrom(log, rows)
      BY DEF SumInv, RowsSum
    <2>4. CASE Len(log) <= ckpt
      <3>1. pc' = "derive"
        BY <1>4, <2>4 DEF Open, RequiresRebuild, StartDeriving
      <3>2. Checkpointed = DOMAIN log
        BY <1>0, <1>4, <2>4 DEF Checkpointed, NoCheckpoint
      <3> QED BY <1>1, <1>2, <2>1, <2>2, <2>3, <3>1, <3>2 DEF SumInv, ProjectionSums
    <2>5. CASE ~(Len(log) <= ckpt)
      <3>1. pc' = "replay" /\ todo' = {i \in DOMAIN log : i > ckpt}
        BY <1>4, <2>5 DEF Open, RequiresRebuild
      <3>2. DOMAIN log \ todo' = Checkpointed
        BY <1>0, <1>4, <3>1 DEF Checkpointed, NoCheckpoint
      <3> QED BY <1>1, <1>2, <2>1, <2>2, <2>3, <3>1, <3>2 DEF SumInv, ProjectionSums
    <2> QED BY <2>4, <2>5
  <1> QED BY <1>3, <1>4

\* Replaying: one event more is accounted for, the first of those left in tuple order.
LEMMA ReplaySums ==
  ASSUME AccessInv, SumInv, ReplayEvent
  PROVE  SumInv'
  <1>0. /\ log \in Seq(Events) /\ proj \in Projections /\ todo \subseteq DOMAIN log
        /\ DOMAIN log = 1..Len(log) /\ Len(log) \in Nat
    BY AccessTypes DEF AccessInv
  <1>1. pc = "replay" /\ UNCHANGED <<log, rows, ckpt, pc>>
    BY DEF ReplayEvent, store
  <1> PICK i \in todo : /\ IsFirst(log, todo, i)
                        /\ proj' = Apply(proj, log[i], i) /\ todo' = todo \ {i}
    BY DEF ReplayEvent
  <1> DEFINE S == DOMAIN log \ todo
  <1>2. i \in DOMAIN log /\ S \in SUBSET DOMAIN log /\ S \cup {i} = DOMAIN log \ todo'
        /\ i \notin S /\ 1 \in DOMAIN log
    BY <1>0
  <1>3. 1 \notin S => TupleLE(At(log, i), At(log, 1))
    BY <1>2 DEF IsFirst, At
  <1>4. DeletesFrom(log, proj) /\ GroupUpTo(log, proj.group, S) /\ Opened(log)
    BY <1>1 DEF SumInv, ProjectionSums
  <1> HIDE DEF S
  <1>5. DeletesFrom(log, proj') /\ GroupUpTo(log, proj'.group, S \cup {i})
    BY <1>0, <1>2, <1>3, <1>4, ApplyDeletesFrom, ApplyGroupUpTo
  <1>6. RowsSum'
    BY <1>1 DEF SumInv, RowsSum, Checkpointed
  <1> QED BY <1>1, <1>2, <1>4, <1>5, <1>6 DEF SumInv, ProjectionSums

\* The steps of an opening.
LEMMA RecoverSums ==
  ASSUME AccessInv, SumInv, Recover
  PROVE  SumInv'
  <1>1. CASE StartClearing
    <2>1. /\ pc = "replay" /\ todo = {} /\ pc' = "clear"
          /\ UNCHANGED <<log, rows, ckpt, proj>>
      BY <1>1 DEF StartClearing, store
    <2>2. GroupUpTo(log, proj.group, DOMAIN log)
      BY <2>1 DEF SumInv, ProjectionSums
    <2> QED BY <2>1, <2>2 DEF SumInv, RowsSum, ProjectionSums, Checkpointed
  <1>2. CASE TableCleared
    <2>1. /\ pc = "clear" /\ pc' = "checkpoint" /\ rowsLeft' = RowKeys(proj)
          /\ UNCHANGED <<log, rows, ckpt, proj>>
      BY <1>2 DEF TableCleared, store
    <2>2. proj.group.life # "none" => <<"group">> \in RowKeys(proj)
      BY DEF RowKeys
    <2> HIDE DEF RowKeys
    <2> QED BY <2>1, <2>2 DEF SumInv, RowsSum, ProjectionSums, Checkpointed
  <1>3. CASE DeriveEvent
    <2>1. /\ pc = "derive" /\ pc' \in {"derive", "broken", "records"}
          /\ UNCHANGED <<log, rows, ckpt, proj>>
      BY <1>3 DEF DeriveEvent, store
    <2> QED BY <2>1, KeepSums
  <1>4. CASE RecordsDerived
    BY <1>4, KeepSums DEF RecordsDerived, store
  <1> QED BY <1>1, <1>2, <1>3, <1>4, OpenSums, ReplaySums, ClearRowSums,
             PutCheckpointSums DEF Recover

\* Failed writes, with and without effect.
LEMMA RewriteFailsSums ==
  ASSUME AccessInv, SumInv, RewriteFails, pc \in {"clear", "checkpoint"} => ckpt = NoCheckpoint
  PROVE  SumInv'
  <1>0. log \in Seq(Events) /\ Opened(log) /\ RowsFrom(rows)
    BY AccessTypes DEF AccessInv, SumInv, RowsSum, RowsFrom
  <1>1. GoDown /\ UNCHANGED log /\ pc \in {"clear", "checkpoint"} /\ ckpt = NoCheckpoint
    BY DEF RewriteFails
  <1>2. CASE pc = "clear"
    <2>1. UNCHANGED ckpt /\ (UNCHANGED rows \/ \E k \in RowKeys(rows) : rows' = WithoutRow(rows, k))
      BY <1>2 DEF RewriteFails
    <2>2. RowsFrom(rows')
      BY <1>0, <2>1, WithoutRowSums
    <2> QED BY <1>0, <1>1, <2>1, <2>2, EndRowsSums
  <1>3. CASE pc = "checkpoint"
    <2>1. rowsLeft = {} /\ UNCHANGED rows
      BY <1>3 DEF RewriteFails
    <2>2. ASSUME 1 \in Checkpointed' PROVE RowsGroup(rows, Checkpointed')
      <3>1. 1 \in DOMAIN log /\ Checkpointed' \subseteq DOMAIN log
        BY <1>1, <2>2 DEF Checkpointed
      <3> QED BY <1>3, <2>1, <3>1, AllRowsSums DEF RowsGroup, GroupCovers
    <2> QED BY <1>0, <1>1, <2>1, <2>2, EndRowsSums
  <1> QED BY <1>1, <1>2, <1>3

LEMMA FailSums ==
  ASSUME AccessInv, SumInv, missed' = {}, ~SnapshotInterrupted, Fail
  PROVE  SumInv'
  <1>0. log \in Seq(Events) /\ Opened(log) /\ RowsFrom(rows)
    BY AccessTypes DEF AccessInv, SumInv, RowsSum, RowsFrom
  <1>1. Fault => (pc \in {"clear", "checkpoint"} => ckpt = NoCheckpoint)
    BY InterruptedAccess DEF Fault
  <1>2. CASE PutRowFails
    <2>1. /\ pc \in {"records", "mark", "checkpoint"} /\ UNCHANGED <<log, ckpt>> /\ Fault
          /\ UNCHANGED rows \/ \E k \in rowsLeft : rows' = WithRow(rows, proj, k)
      BY <1>2 DEF PutRowFails
    <2>2. /\ RowsFrom(rows')
          /\ ckpt # NoCheckpoint /\ pc # "checkpoint" /\ 1 \in Checkpointed
               => RowsGroup(rows', Checkpointed)
      <3>1. CASE UNCHANGED rows
        BY <1>0, <2>1, <3>1 DEF SumInv, RowsSum, RowsGroup
      <3>2. ASSUME NEW k \in rowsLeft, rows' = WithRow(rows, proj, k)
            PROVE  /\ RowsFrom(rows')
                   /\ ckpt # NoCheckpoint /\ pc # "checkpoint" /\ 1 \in Checkpointed
                        => RowsGroup(rows', Checkpointed)
        BY <2>1, <3>2, OneRowSums
      <3> QED BY <2>1, <3>1, <3>2
    <2>3. CASE pc = "mark"
      <3>1. pc' = "mark_failed" /\ proj' = proj
        BY <1>2, <2>3 DEF PutRowFails
      <3>2. Checkpointed' = Checkpointed
        BY <2>1 DEF Checkpointed
      <3> QED BY <2>1, <2>2, <2>3, <3>1, <3>2
              DEF SumInv, RowsSum, ProjectionSums, RowsFrom, RowsGroup
    <2>4. CASE pc # "mark"
      <3>1. ReturnError(outbox)
        BY <1>2, <2>4 DEF PutRowFails
      <3> QED BY <1>0, <1>1, <2>1, <2>2, <3>1, ErrorRowsSums
    <2> QED BY <2>3, <2>4
  <1>3. CASE MergeRecordFails
    <2> PICK o : ReturnError(o)
      BY <1>3 DEF MergeRecordFails
    <2>1. UNCHANGED <<log, rows, ckpt>> /\ pc = "records"
      BY <1>3 DEF MergeRecordFails
    <2> QED BY <1>0, <2>1, ErrorSums
  <1>4. CASE StoreGeneratedFails
    <2>1. UNCHANGED <<log, rows, ckpt, proj>> /\ pc = "materialize" /\ pc' = "mark_failed"
      BY <1>4 DEF StoreGeneratedFails
    <2> QED BY <2>1, KeepSums
  <1>5. CASE MarkStoredFails
    <2> PICK o : ReturnError(o)
      BY <1>5 DEF MarkStoredFails
    <2>1. UNCHANGED <<log, rows, ckpt>> /\ pc = "mark"
      BY <1>5 DEF MarkStoredFails
    <2> QED BY <1>0, <2>1, ErrorSums
  <1>6. CASE RewriteFails
    BY <1>1, <1>6, RewriteFailsSums DEF RewriteFails
  <1> QED BY <1>2, <1>3, <1>4, <1>5, <1>6 DEF Fail

\* The end of the process, a clean stop and an upgrade.
LEMMA EnvironmentSums ==
  ASSUME AccessInv, SumInv, ~SnapshotInterrupted, Crash \/ Shutdown \/ Upgrade
  PROVE  SumInv'
  <1>0. log \in Seq(Events)
    BY AccessTypes DEF AccessInv
  <1>1. CASE Crash
    BY <1>0, <1>1, InterruptedAccess, EndSums DEF Crash, store
  <1>2. CASE Shutdown
    BY <1>0, <1>2, EndSums DEF Shutdown, store
  <1>3. CASE Upgrade
    <2>1. pc = "down" /\ ckpt' = NoCheckpoint /\ UNCHANGED <<log, rows, proj, pc>>
      BY <1>3 DEF Upgrade
    <2> QED BY <2>1 DEF SumInv, RowsSum, ProjectionSums
  <1> QED BY <1>1, <1>2, <1>3

\* The invariant is inductive.
LEMMA NextSums ==
  ASSUME InOrder, ~SnapshotInterrupted, AccessInv, RequestInv, SumInv, NothingMissed,
         NothingMissed', [Next]_vars
  PROVE  SumInv'
  <1>0. missed = {} /\ missed' = {}
    BY DEF NothingMissed
  <1>1. CASE Clients
    <2>1. pc = "idle" /\ TypeInv
      BY <1>1 DEF Clients, AccessInv
    <2> PICK e \in ClientEvents : Submit(e) \/ SubmitFails(e) \/ Duplicate(e)
      BY <1>1, <2>1, ClientsSubmit
    <2>2. CASE Submit(e)
      BY <1>0, <2>1, <2>2, SubmitSums
    <2>3. CASE SubmitFails(e)
      BY <1>0, <2>3 DEF SubmitFails
    <2>4. CASE Duplicate(e)
      BY <2>1, <2>4, KeepSums DEF Duplicate, store
    <2> QED BY <2>2, <2>3, <2>4
  <1>2. CASE UNCHANGED vars
    BY <1>2 DEF vars, store, control, SumInv, RowsSum, ProjectionSums, Checkpointed
  <1> QED BY <1>0, <1>1, <1>2, ServeSums, RecoverSums, FailSums, EnvironmentSums DEF Next

\* When clients' events come in the order of their seconds, the projection the service
\* decides by, updated in the order of the store and carried through crashes, failed
\* writes and restarts in rows and a checkpoint, is between operations exactly the one
\* that rebuild_group_projection computes from the whole store in tuple order.  Writes
\* may fail with and without effect; only a sync that fails after an event was stored, by
\* which memory misses the event, is excluded: the group may then be created twice.
THEOREM LiveIsRebuilt ==
  ASSUME InOrder, ~SnapshotInterrupted
  PROVE  Spec /\ []NothingMissed => []LiveMatchesRebuild
  <1> DEFINE IInv == AccessInv /\ LogInv /\ RequestInv /\ SumInv
  <1>1. Init => IInv
    BY InitTypeInv, InitAccessInv, InitLogInv, InitRequests, InitSums DEF AccessInv
  <1>2. IInv /\ NothingMissed /\ NothingMissed' /\ [Next]_vars => IInv'
    BY NextAccessInv, NextLogInv, NextRequests, NextSums DEF LogInv
  <1>3. IInv => LiveMatchesRebuild
    <2> SUFFICES ASSUME IInv, pc = "idle", missed = {} PROVE proj = Rebuild(log)
      BY DEF LiveMatchesRebuild
    <2>1. log \in Seq(Events) /\ proj \in Projections /\ Opened(log)
      BY AccessTypes DEF AccessInv, SumInv
    <2>2. Sums(log, proj, DOMAIN log)
      BY AccessSums
    <2> QED BY <2>1, <2>2, SumsRebuild
  <1> HIDE DEF IInv
  <1> QED BY <1>1, <1>2, <1>3, PTL DEF Spec

-----------------------------------------------------------------------------
(* A restart succeeds.  What an event calls for depends on the members as of *)
(* its second and the second before, and on nothing that is stored later:    *)
(* so what is planned again is what was planned.                             *)

ForMember(e, u) == IsMemberEvent(e) /\ e.user = u

\* m is the member u as the last event about u among those of l at S left it.
LastOf(l, S, u, m) ==
  /\ m = NoMember \/ \E i \in S : ForMember(l[i], u) /\ m = MemberOf(l[i], At(l, i))
  /\ \A j \in S : ForMember(l[j], u) => TupleLE(At(l, j), m.last)

MembersOf(l, S, p) == \A u \in Users : LastOf(l, S, u, p.members[u])

\* One member is the last.
LEMMA LastUnique ==
  ASSUME NEW l \in Seq(Events), NEW S \in SUBSET DOMAIN l, NEW u, NEW m, NEW n,
         LastOf(l, S, u, m), LastOf(l, S, u, n)
  PROVE  m = n
  <1>1. \A i \in S : i \in DOMAIN l /\ At(l, i) \in Tuples /\ ~TupleLE(At(l, i), NoTuple)
    BY LogFacts, TupleOfEvent DEF At
  <1>2. \A i \in S : MemberOf(l[i], At(l, i)).last = At(l, i)
    BY DEF MemberOf
  <1>3. NoMember.last = NoTuple
    BY DEF NoMember
  <1>4. CASE m = NoMember \/ n = NoMember
    BY <1>1, <1>3, <1>4 DEF LastOf
  <1>5. CASE m # NoMember /\ n # NoMember
    <2> PICK i \in S : ForMember(l[i], u) /\ m = MemberOf(l[i], At(l, i))
      BY <1>5 DEF LastOf
    <2> PICK j \in S : ForMember(l[j], u) /\ n = MemberOf(l[j], At(l, j))
      BY <1>5 DEF LastOf
    <2>1. TupleLE(At(l, j), At(l, i)) /\ TupleLE(At(l, i), At(l, j))
      BY <1>2 DEF LastOf
    <2> QED BY <1>1, <2>1, AtInjective
  <1> QED BY <1>4, <1>5

LEMMA MembersUnique ==
  ASSUME NEW l \in Seq(Events), NEW S \in SUBSET DOMAIN l, NEW p \in Projections,
         NEW q \in Projections, MembersOf(l, S, p), MembersOf(l, S, q)
  PROVE  p.members = q.members
  <1>1. p.members \in [Users -> Members] /\ q.members \in [Users -> Members]
    BY DEF Projections
  <1>2. \A u \in Users : p.members[u] = q.members[u]
    BY LastUnique DEF MembersOf
  <1> QED BY <1>1, <1>2

\* Members depend on the events about members only.
LEMMA MembersSame ==
  ASSUME NEW l, NEW k, NEW S, NEW T, NEW p, MembersOf(l, S, p),
         \A i \in S : IsMemberEvent(l[i]) => i \in T /\ k[i] = l[i],
         \A i \in T : IsMemberEvent(k[i]) => i \in S /\ k[i] = l[i]
  PROVE  MembersOf(k, T, p)
  <1> SUFFICES ASSUME NEW u \in Users PROVE LastOf(k, T, u, p.members[u])
    BY DEF MembersOf
  <1>1. LastOf(l, S, u, p.members[u])
    BY DEF MembersOf
  <1>2. \A i \in S : ForMember(l[i], u) => i \in T /\ ForMember(k[i], u) /\ k[i] = l[i]
                                          /\ At(k, i) = At(l, i)
    BY DEF ForMember, At
  <1>3. \A i \in T : ForMember(k[i], u) => i \in S /\ ForMember(l[i], u) /\ k[i] = l[i]
                                          /\ At(k, i) = At(l, i)
    BY DEF ForMember, At
  <1> QED BY <1>1, <1>2, <1>3 DEF LastOf

\* One event is applied.
LEMMA MembersApplied ==
  ASSUME NEW l \in Seq(Events), NEW S \in SUBSET DOMAIN l, NEW i \in DOMAIN l,
         NEW p \in Projections, MembersOf(l, S, p)
  PROVE  MembersOf(l, S \cup {i}, Apply(p, l[i], i))
  <1> DEFINE q == Apply(p, l[i], i)
             e == l[i]
             t == At(l, i)
  <1>1. e \in Events /\ i \in Nat \ {0} /\ t \in Tuples
    BY LogFacts DEF At
  <1>2. Applied(p, q, e, t)
    BY <1>1, ApplyFacts DEF At
  <1>3. \A u \in Users : p.members[u].last \in Tuples /\ q.members[u].last \in Tuples
    BY <1>2 DEF Applied, Projections, Members
  <1> HIDE DEF q
  <1> SUFFICES ASSUME NEW u \in Users PROVE LastOf(l, S \cup {i}, u, q.members[u])
    BY DEF MembersOf, q
  <1>4. LastOf(l, S, u, p.members[u])
    BY DEF MembersOf
  <1>5. \A j \in S : At(l, j) \in Tuples
    BY LogFacts DEF At
  <1>6. \/ q.members[u] = p.members[u]
        \/ ForMember(e, u) /\ q.members[u] = MemberOf(e, t)
    BY <1>2 DEF Applied, ForMember
  <1>7. ForMember(e, u) => TupleLE(t, q.members[u].last)
    BY <1>2 DEF Applied, ForMember
  <1>8. \A j \in S : ForMember(l[j], u) => TupleLE(At(l, j), q.members[u].last)
    BY <1>2, <1>3, <1>4, <1>5, TupleTransitive DEF LastOf, Applied
  <1> QED BY <1>4, <1>6, <1>7, <1>8 DEF LastOf

Until(l, t) == {i \in DOMAIN l : l[i].at <= t}
Before(l, t) == {i \in DOMAIN l : l[i].at < t}

\* What is planned for the event of l at s is planned from p, with q before it.
AsOf(l, s, q, p) ==
  /\ l[s].kind \in {"create", "edit"} => p.group.meta = l[s].meta
  /\ l[s].kind \in {"create", "put", "remove"} => MembersOf(l, Until(l, l[s].at), p)
  /\ l[s].kind \in {"put", "remove"} => MembersOf(l, Before(l, l[s].at), q)

PlanOf(e, q, p) == Plan(e, p, WasOverrideAdmin(e, q))

\* The event of l at s calls for the claim c.
Calls(l, s, c) ==
  \E q, p \in Projections : AsOf(l, s, q, p) /\ c \in PlannedClaims(PlanOf(l[s], q, p))

\* The same is planned from the same members and the same metadata.
LEMMA PlanSame ==
  ASSUME NEW l \in Seq(Events), NEW s \in DOMAIN l,
         NEW q \in Projections, NEW p \in Projections, AsOf(l, s, q, p),
         NEW r \in Projections, NEW o \in Projections, AsOf(l, s, r, o)
  PROVE  PlanOf(l[s], q, p) = PlanOf(l[s], r, o)
  <1> DEFINE e == l[s]
  <1>1. e.kind \in {"create", "put", "remove"} => p.members = o.members
    BY MembersUnique DEF AsOf, Until
  <1>2. e.kind \in {"put", "remove"} => q.members = r.members
    BY MembersUnique DEF AsOf, Before
  <1>3. e.kind \in {"create", "edit"} => p.group.meta = o.group.meta
    BY DEF AsOf
  <1> SUFFICES PlanOf(e, q, p) = PlanOf(e, r, o)
    OBVIOUS
  <1> HIDE DEF e
  <1>4. p.group.meta = o.group.meta => MetadataRecord(e, p) = MetadataRecord(e, o)
    BY DEF MetadataRecord, MetadataSnapshotPayload
  <1>5. ASSUME p.members = o.members
        PROVE  /\ AdminListRecord(e, p) = AdminListRecord(e, o)
               /\ MemberListRecord(e, p) = MemberListRecord(e, o)
               /\ IsOverrideAdmin(p, e.user) <=> IsOverrideAdmin(o, e.user)
    <2>1. \A u : /\ IsMember(p, u) <=> IsMember(o, u)
                 /\ IsOverrideAdmin(p, u) <=> IsOverrideAdmin(o, u)
      BY <1>5 DEF IsMember, IsOverrideAdmin
    <2>2. {u \in Users : IsOverrideAdmin(p, u)} = {u \in Users : IsOverrideAdmin(o, u)}
      BY <2>1
    <2>3. CurrentMembers(p) = CurrentMembers(o)
      BY <2>1 DEF CurrentMembers
    <2>4. AdminListPayload(p, e.at) = AdminListPayload(o, e.at)
      BY <2>2 DEF AdminListPayload
    <2>5. (OverCap(p) <=> OverCap(o)) /\ MemberListPayload(p, e.at) = MemberListPayload(o, e.at)
      BY <2>3 DEF OverCap, MemberListPayload
    <2>6. MemberListRecord(e, p) = MemberListRecord(e, o)
      BY <2>5 DEF MemberListRecord
    <2> QED BY <2>1, <2>4, <2>6 DEF AdminListRecord
  <1>6. ASSUME NEW v, NEW w
        PROVE  /\ e.kind = "create" => PlanOf(e, v, w) = <<MetadataRecord(e, w), AdminListRecord(e, w)>>
               /\ e.kind = "edit" => PlanOf(e, v, w) = <<MetadataRecord(e, w)>>
               /\ e.kind \in {"put", "remove"} =>
                    PlanOf(e, v, w) = MemberSnapshotRecords(e, w, WasOverrideAdmin(e, v))
    BY DEF PlanOf, Plan
  <1>7. CASE e.kind = "create"
    BY <1>1, <1>3, <1>4, <1>5, <1>6, <1>7
  <1>8. CASE e.kind = "edit"
    BY <1>3, <1>4, <1>6, <1>8
  <1>9. CASE e.kind \in {"put", "remove"}
    <2>1. WasOverrideAdmin(e, q) = WasOverrideAdmin(e, r)
      <3>1. IsMember(q, e.user) = IsMember(r, e.user)
        BY <1>2, <1>9 DEF IsMember
      <3>2. IsOverrideAdmin(q, e.user) = IsOverrideAdmin(r, e.user)
        BY <1>2, <1>9, <3>1 DEF IsOverrideAdmin
      <3> QED BY <3>2 DEF WasOverrideAdmin
    <2>2. MemberSnapshotRecords(e, p, WasOverrideAdmin(e, q)) =
            MemberSnapshotRecords(e, o, WasOverrideAdmin(e, r))
      <3>1. p.members = o.members
        BY <1>1, <1>9
      <3>2. /\ AdminListRecord(e, p) = AdminListRecord(e, o)
            /\ MemberListRecord(e, p) = MemberListRecord(e, o)
        BY <1>5, <3>1
      <3>3. IsMember(p, e.user) = IsMember(o, e.user)
        BY <3>1 DEF IsMember
      <3>4. IsOverrideAdmin(p, e.user) = IsOverrideAdmin(o, e.user)
        BY <3>1, <3>3 DEF IsOverrideAdmin
      <3> QED BY <2>1, <3>2, <3>4, Zenon DEF MemberSnapshotRecords
    <2> QED BY <1>6, <1>9, <2>2
  <1>10. CASE e.kind \notin {"create", "edit", "put", "remove"}
    BY <1>10 DEF PlanOf, Plan
  <1> QED BY <1>7, <1>8, <1>9, <1>10

\* No effect is planned twice.
LEMMA PlanOnce ==
  ASSUME NEW e, NEW p, NEW before, NEW c \in PlannedClaims(Plan(e, p, before)),
         NEW d \in PlannedClaims(Plan(e, p, before)), c.key = d.key
  PROVE  c = d
  <1> DEFINE m == MetadataRecord(e, p)
             a == AdminListRecord(e, p)
             l == MemberListRecord(e, p)
             join == Rec(e, "join_accepted", MembershipPayload("put", e.by, e.at), "pending")
             leave == Rec(e, "leave_accepted", MembershipPayload("remove", e.by, e.at), "pending")
             q == Plan(e, p, before)
  <1>1. /\ m.key.effect = "metadata_snapshot" /\ a.key.effect = "admin_list_snapshot"
        /\ l.key.effect = "member_list_snapshot"
    BY DEF MetadataRecord, AdminListRecord, MemberListRecord, Rec
  <1>2. q \in {<<>>, <<m>>, <<l>>, <<join>>, <<leave>>, <<m, a>>, <<l, a>>}
    BY DEF Plan, MemberSnapshotRecords
  <1> HIDE DEF m, a, l, join, leave
  <1>3. \A i, j \in DOMAIN q : q[i].key = q[j].key => i = j
    BY <1>1, <1>2
  <1> HIDE DEF q
  <1> PICK i \in DOMAIN q : c = Claim(q[i].key, q[i].rec)
    BY DEF PlannedClaims, q
  <1> PICK j \in DOMAIN q : d = Claim(q[j].key, q[j].rec)
    BY DEF PlannedClaims, q
  <1>4. c.key = q[i].key /\ d.key = q[j].key
    BY DEF Claim
  <1> QED BY <1>3, <1>4

\* A claim is known by its key, and names the event that calls for it.
LEMMA CallsOnce ==
  ASSUME NEW l \in Seq(Events), \A i, j \in DOMAIN l : Key(l[i]) = Key(l[j]) => i = j,
         NEW s \in DOMAIN l, NEW r \in DOMAIN l, NEW c, NEW d,
         Calls(l, s, c), Calls(l, r, d), c.key = d.key
  PROVE  c = d
  <1> PICK q \in Projections, p \in Projections :
        AsOf(l, s, q, p) /\ c \in PlannedClaims(PlanOf(l[s], q, p))
    BY DEF Calls
  <1> PICK t \in Projections, o \in Projections :
        AsOf(l, r, t, o) /\ d \in PlannedClaims(PlanOf(l[r], t, o))
    BY DEF Calls
  <1>1. \A i \in DOMAIN l : \A v, w, x : x \in PlannedClaims(PlanOf(l[i], v, w)) => x.key.src = Key(l[i])
    BY PlanFacts DEF PlannedClaims, PlanOf, Claim
  <1>2. s = r
    BY <1>1
  <1>3. PlanOf(l[s], q, p) = PlanOf(l[r], t, o)
    BY <1>2, PlanSame
  <1> QED BY <1>2, <1>3, PlanOnce DEF PlanOf

\* What an event calls for is not changed by one that is stored later, if that is of
\* no earlier second, and of a later one if it is about a member.
LEMMA CallsKept ==
  ASSUME NEW l \in Seq(Events), NEW e \in Events, NEW s \in DOMAIN l,
         l[s].kind \in {"create", "put", "remove"}
           => l[s].at <= e.at /\ (l[s].at = e.at => ~IsMemberEvent(e))
  PROVE  \A c : Calls(Append(l, e), s, c) <=> Calls(l, s, c)
  <1> DEFINE m == Append(l, e)
             n == Len(l) + 1
             t == l[s].at
  <1>0. \A i \in DOMAIN l : l[i].at \in Nat
    BY LogFacts DEF Events
  <1>1. /\ DOMAIN m = DOMAIN l \cup {n} /\ m[n] = e /\ n \notin DOMAIN l
        /\ \A i \in DOMAIN l : m[i] = l[i] /\ l[i].at \in Nat
    BY <1>0, AppendType
  <1>2. e.at \in Nat /\ t \in Nat
    BY DEF Events
  <1> HIDE DEF m, n
  <1>3. m[s] = l[s]
    BY <1>1
  <1>4. ASSUME l[s].kind \in {"create", "put", "remove"}, NEW p
        PROVE  /\ MembersOf(m, Until(m, t), p) <=> MembersOf(l, Until(l, t), p)
               /\ MembersOf(m, Before(m, t), p) <=> MembersOf(l, Before(l, t), p)
    <2>1. t <= e.at /\ (t = e.at => ~IsMemberEvent(e))
      BY <1>4
    <2>2. \A i \in Until(l, t) : i \in Until(m, t) /\ m[i] = l[i]
      BY <1>1 DEF Until
    <2>3. \A i \in Until(m, t) : IsMemberEvent(m[i]) => i \in Until(l, t) /\ m[i] = l[i]
      BY <1>1, <1>2, <2>1 DEF Until
    <2>4. \A i \in Before(l, t) : i \in Before(m, t) /\ m[i] = l[i]
      BY <1>1 DEF Before
    <2>5. \A i \in Before(m, t) : i \in Before(l, t) /\ m[i] = l[i]
      BY <1>1, <1>2, <2>1 DEF Before
    <2>6. MembersOf(m, Until(m, t), p) <=> MembersOf(l, Until(l, t), p)
      <3>1. ASSUME MembersOf(m, Until(m, t), p) PROVE MembersOf(l, Until(l, t), p)
        BY <2>2, <2>3, <3>1, MembersSame
      <3>2. ASSUME MembersOf(l, Until(l, t), p) PROVE MembersOf(m, Until(m, t), p)
        BY <2>2, <2>3, <3>2, MembersSame
      <3> QED BY <3>1, <3>2
    <2>7. MembersOf(m, Before(m, t), p) <=> MembersOf(l, Before(l, t), p)
      <3>1. ASSUME MembersOf(m, Before(m, t), p) PROVE MembersOf(l, Before(l, t), p)
        BY <2>4, <2>5, <3>1, MembersSame
      <3>2. ASSUME MembersOf(l, Before(l, t), p) PROVE MembersOf(m, Before(m, t), p)
        BY <2>4, <2>5, <3>2, MembersSame
      <3> QED BY <3>1, <3>2
    <2> QED BY <2>6, <2>7
  <1>5. \A q, p : AsOf(m, s, q, p) <=> AsOf(l, s, q, p)
    BY <1>3, <1>4 DEF AsOf
  <1>6. \A c : Calls(m, s, c) <=> Calls(l, s, c)
    BY <1>3, <1>5 DEF Calls
  <1> QED BY <1>6 DEF m

\* All that is planned for an event is all that it calls for.
LEMMA CallsAll ==
  ASSUME NEW l \in Seq(Events), NEW s \in DOMAIN l,
         NEW q \in Projections, NEW p \in Projections, AsOf(l, s, q, p)
  PROVE  \A c : Calls(l, s, c) <=> c \in PlannedClaims(PlanOf(l[s], q, p))
  BY PlanSame DEF Calls

\* Members that come from the log and account for all of it are the last.
LEMMA MembersCovered ==
  ASSUME NEW l \in Seq(Events), NEW p, MembersFrom(l, p, DOMAIN l),
         Covers(l, p, DOMAIN l)
  PROVE  MembersOf(l, DOMAIN l, p)
  BY DEF MembersFrom, Covers, MembersOf, LastOf, ForMember, At

\* No other event of its second is about a member, when one was made by a client and
\* calls for lists.
LEMMA AloneInSecond ==
  ASSUME log \in Seq(Events), LogAnswers, SourcesIncrease, NEW s \in Sources,
         log[s].kind \in {"create", "put", "remove"},
         NEW j \in DOMAIN log, log[j].at = log[s].at, IsMemberEvent(log[j])
  PROVE  j = s
  <1>0. s \in DOMAIN log /\ log[s].by # Relay /\ log[s].at \in Nat
    BY DEF Sources, Events
  <1>1. \A i \in DOMAIN log : log[i].by # Relay /\ log[i].at = log[s].at => i = s
    <2> SUFFICES ASSUME NEW i \in DOMAIN log, log[i].by # Relay, log[i].at = log[s].at
                 PROVE  i = s
      OBVIOUS
    <2>1. ~(i < s) /\ ~(s < i)
      BY <1>0 DEF SourcesIncrease
    <2> QED BY <1>0, <2>1
  <1>2. CASE log[j].by # Relay
    BY <1>1, <1>2
  <1>3. CASE log[j].by = Relay
    <2> PICK r \in DOMAIN log : Caused(log[r], log[j])
      BY <1>3 DEF LogAnswers
    <2>1. r = s
      BY <1>1 DEF Caused
    <2> QED BY <2>1 DEF Caused, IsMemberEvent
  <1> QED BY <1>2, <1>3

-----------------------------------------------------------------------------
(* While it serves, the service is behind with the newest event of a client  *)
(* only: whatever any other calls for is stored.                             *)

\* Whatever the event of the log at s calls for is stored,
StoredFor(s) ==
  \A c : Calls(log, s, c) /\ c.planned = "pending" => Key(c.payload) \in StoredKeys

\* or at least planned.
PlannedFor(s) ==
  \A c : Calls(log, s, c) => c \in ClaimsOf(outbox) \cup PlannedClaims(recs)

NoneAfter(s) == \A i \in DOMAIN log : log[i].at <= log[s].at

\* Every record was called for.
ClaimsCalled == \A c \in Claims : \E s \in Sources : Calls(log, s, c)

OthersStored == \A s \in Sources : StoredFor(s) \/ NoneAfter(s)

Awaited ==
  /\ pc = "idle" => \A s \in Sources : StoredFor(s)
  /\ pc \in {"derive", "records", "materialize", "mark"}
       => \A s \in Sources \ todo : StoredFor(s) \/ PlannedFor(s)

InControl ==
  /\ pc \notin {"mark_failed", "broken"}
  /\ pc = "idle" => ~opening
  /\ pc \in {"idle", "materialize", "mark"} \/ (pc = "records" /\ ~opening) => todo = {}

Rederiving == pc = "derive" \/ (pc = "records" /\ opening)

\* The projection records are derived from: it accounts for the first events in
\* tuple order, which created the group.
ScratchSums(S, p) ==
  /\ MembersOf(log, DOMAIN log \ S, p)
  /\ \A i \in DOMAIN log \ S : \A j \in S : TupleLE(At(log, i), At(log, j))
  /\ 1 \in DOMAIN log \ S => p.group.life # "none"
  /\ \A j \in S : /\ TupleLE(p.group.created, At(log, j))
                  /\ TupleLE(p.group.edited, At(log, j))

ScratchAsOf == Rederiving => ScratchSums(todo, scratch)

RestartInv == ClaimsCalled /\ OthersStored /\ Awaited /\ InControl /\ ScratchAsOf

\* What the proofs below use of the other invariants.
LEMMA RestartTypes ==
  ASSUME GoodInv
  PROVE  /\ log \in Seq(Events) /\ proj \in Projections /\ scratch \in Projections
         /\ table \in Tables /\ outbox \in Tables /\ recs \in Seq(PlannedRecords)
         /\ todo \subseteq DOMAIN log /\ TypeInv /\ OutboxInv
         /\ Sources \subseteq DOMAIN log
         /\ \A i, j \in DOMAIN log : Key(log[i]) = Key(log[j]) => i = j
  <1>1. TypeInv /\ OutboxInv /\ StoredOnce
    BY DEF GoodInv, LogInv, OutboxInv
  <1>2. scratch \in Projections
    BY <1>1 DEF TypeInv, TypeOK
  <1>3. Sources \subseteq DOMAIN log
    BY DEF Sources
  <1> QED BY <1>1, <1>2, <1>3, OutboxTypes, AccessTypes DEF StoredOnce

\* What is under one key is one claim.
LEMMA ClaimedOnce ==
  ASSUME GoodInv, ClaimsCalled, NEW c \in Claims, NEW d \in Claims, c.key = d.key
  PROVE  c = d
  <1> PICK s \in Sources : Calls(log, s, c)
    BY DEF ClaimsCalled
  <1> PICK r \in Sources : Calls(log, r, d)
    BY DEF ClaimsCalled
  <1> QED BY RestartTypes, CallsOnce

\* The next planned record is the one under its key, if there is one.
LEMMA NoClash ==
  ASSUME GoodInv, ClaimsCalled, recs # <<>>, NEW k, k = Head(recs).key, k \in DOMAIN outbox
  PROVE  Claim(k, Head(recs).rec) = Claim(k, outbox[k]) /\ ~Clashes(outbox, Head(recs))
  <1>1. Claim(k, Head(recs).rec) \in Claims /\ Claim(k, outbox[k]) \in Claims
    <2> HIDE DEF Claim
    <2>1. Claim(k, Head(recs).rec) \in PlannedClaims(recs)
      BY RestartTypes, TailClaims
    <2> QED BY <2>1 DEF Claims, ClaimsOf
  <1>2. Claim(k, Head(recs).rec).key = k /\ Claim(k, outbox[k]).key = k
    BY DEF Claim
  <1>3. Claim(k, Head(recs).rec) = Claim(k, outbox[k])
    <2> HIDE DEF Claim
    <2> QED BY <1>1, <1>2, ClaimedOnce
  <1>4. Head(recs).rec.payload = outbox[k].payload
    BY <1>3 DEF Claim
  <1> QED BY <1>3, <1>4 DEF Clashes

\* A step that leaves the log alone and claims nothing new.
LEMMA QuietCalled ==
  ASSUME ClaimsCalled, OthersStored, log' = log, Claims' \subseteq Claims
  PROVE  /\ ClaimsCalled' /\ OthersStored' /\ Sources' = Sources
         /\ \A s \in Sources : StoredFor(s)' <=> StoredFor(s)
  <1>1. Sources' = Sources /\ StoredKeys' = StoredKeys
    BY DEF Sources, StoredKeys
  <1>2. ASSUME NEW s PROVE StoredFor(s)' <=> StoredFor(s)
    BY <1>1 DEF StoredFor
  <1>3. ASSUME NEW s PROVE NoneAfter(s)' <=> NoneAfter(s)
    BY DEF NoneAfter
  <1>4. ClaimsCalled'
    BY <1>1 DEF ClaimsCalled
  <1> QED BY <1>1, <1>2, <1>3, <1>4 DEF OthersStored

\* A record that is written or marked loses no claim, nor does one that is merged.
LEMMA ClaimsLast ==
  ASSUME NEW o \in Tables
  PROVE  /\ \A k \in RecordKeys \ DOMAIN o : \A r \in Records :
              ClaimsOf(o) \cup {Claim(k, r)} \subseteq ClaimsOf(Update(o, k, r))
         /\ \A k \in DOMAIN o : \A s \in {"stored", "failed"} :
              IsRetryable(o[k]) => ClaimsOf(o) \subseteq ClaimsOf(WithStatus(o, k, s))
         /\ \A q \in Seq(PlannedRecords) : q # <<>> =>
              PlannedClaims(q) \subseteq PlannedClaims(Tail(q)) \cup {Claim(Head(q).key, Head(q).rec)}
  <1>1. ASSUME NEW k \in RecordKeys \ DOMAIN o, NEW r \in Records
        PROVE  ClaimsOf(o) \cup {Claim(k, r)} \subseteq ClaimsOf(Update(o, k, r))
    <2>1. /\ DOMAIN Update(o, k, r) = DOMAIN o \cup {k} /\ Update(o, k, r)[k] = r
          /\ \A x \in DOMAIN o : x # k => Update(o, k, r)[x] = o[x]
      BY UpdateFacts
    <2> HIDE DEF Claim
    <2> QED BY <2>1 DEF ClaimsOf
  <1>2. ASSUME NEW k \in DOMAIN o, NEW s \in {"stored", "failed"}, IsRetryable(o[k])
        PROVE  ClaimsOf(o) \subseteq ClaimsOf(WithStatus(o, k, s))
    <2> DEFINE r == [o[k] EXCEPT !.status = s]
    <2>1. /\ k \in RecordKeys /\ r \in Records /\ r.payload = o[k].payload
          /\ r.status # "skipped" /\ o[k].status # "skipped"
      <3>1. o[k] \in Records
        BY TablesMeaning
      <3> QED BY <1>2, <3>1, WithStatusType, StatusNames DEF IsRetryable, Records
    <2>2. WithStatus(o, k, s) = Update(o, k, r)
      BY DEF WithStatus
    <2> HIDE DEF r
    <2>3. Claim(k, r) = Claim(k, o[k])
      BY <2>1 DEF Claim
    <2>4. /\ DOMAIN Update(o, k, r) = DOMAIN o \cup {k} /\ Update(o, k, r)[k] = r
          /\ \A x \in DOMAIN o : x # k => Update(o, k, r)[x] = o[x]
      BY <2>1, UpdateFacts
    <2> HIDE DEF Claim
    <2> QED BY <2>2, <2>3, <2>4 DEF ClaimsOf
  <1>3. ASSUME NEW q \in Seq(PlannedRecords), q # <<>>
        PROVE  PlannedClaims(q) \subseteq
                 PlannedClaims(Tail(q)) \cup {Claim(Head(q).key, Head(q).rec)}
    <2>1. /\ Head(q) = q[1]
          /\ \A j \in DOMAIN q : j = 1 \/ (j - 1 \in DOMAIN Tail(q) /\ Tail(q)[j - 1] = q[j])
      BY <1>3, TailFacts
    <2> HIDE DEF Claim
    <2>2. ASSUME NEW j \in DOMAIN q
          PROVE  Claim(q[j].key, q[j].rec) \in
                   PlannedClaims(Tail(q)) \cup {Claim(Head(q).key, Head(q).rec)}
      <3>1. CASE j = 1
        BY <2>1, <3>1
      <3>2. CASE j # 1
        BY <2>1, <3>2 DEF PlannedClaims
      <3> QED BY <3>1, <3>2
    <2> QED BY <2>2 DEF PlannedClaims
  <1> QED BY <1>1, <1>2, <1>3

\* A planned record is merged.
LEMMA MergeRestart ==
  ASSUME GoodInv, RestartInv, MergeRecord PROVE RestartInv'
  <1> DEFINE h == Head(recs)
  <1>0. /\ pc = "records" /\ recs # <<>> /\ recs' = Tail(recs)
        /\ UNCHANGED <<log, pc, opening, todo, scratch>>
        /\ \/ h.key \in DOMAIN outbox /\ outbox' = outbox
           \/ h.key \notin DOMAIN outbox /\ outbox' = Update(outbox, h.key, h.rec)
    BY DEF MergeRecord
  <1>1. /\ outbox \in Tables /\ recs \in Seq(PlannedRecords)
        /\ h.key \in RecordKeys /\ h.rec \in Records
    BY <1>0, RestartTypes, HeadType
  <1>2. Claims' \subseteq Claims
    BY RestartTypes, ServeClaims DEF Serve
  <1>3. /\ ClaimsCalled' /\ OthersStored' /\ Sources' = Sources
        /\ \A s \in Sources : StoredFor(s)' <=> StoredFor(s)
    BY <1>0, <1>2, QuietCalled DEF RestartInv
  <1>4. /\ ClaimsOf(outbox) \subseteq ClaimsOf(outbox')
        /\ Claim(h.key, h.rec) \in ClaimsOf(outbox')
    <2>1. CASE h.key \in DOMAIN outbox
      <3>1. Claim(h.key, h.rec) = Claim(h.key, outbox[h.key])
        BY <1>0, <2>1, NoClash DEF RestartInv
      <3> HIDE DEF Claim, h
      <3> QED BY <1>0, <2>1, <3>1 DEF ClaimsOf
    <2>2. CASE h.key \notin DOMAIN outbox
      <3> HIDE DEF Claim, h
      <3> QED BY <1>0, <1>1, <2>2, ClaimsLast
    <2> QED BY <2>1, <2>2
  <1>5. PlannedClaims(recs) \subseteq PlannedClaims(recs') \cup {Claim(h.key, h.rec)}
    BY <1>0, <1>1, ClaimsLast
  <1> HIDE DEF h, Claim
  <1>6. \A s \in Sources : PlannedFor(s) => PlannedFor(s)'
    BY <1>0, <1>4, <1>5 DEF PlannedFor
  <1>7. Awaited'
    BY <1>0, <1>3, <1>6 DEF RestartInv, Awaited
  <1>8. InControl'
    BY <1>0 DEF RestartInv, InControl
  <1>9. ScratchAsOf'
    BY <1>0 DEF RestartInv, ScratchAsOf, Rederiving, ScratchSums
  <1> QED BY <1>3, <1>7, <1>8, <1>9 DEF RestartInv

\* A generated event is marked.
LEMMA MarkRestart ==
  ASSUME GoodInv, RestartInv, MarkStored PROVE RestartInv'
  <1>0. /\ pc = "mark" /\ pc' = "materialize" /\ outbox' = WithStatus(outbox, cur, "stored")
        /\ UNCHANGED <<log, opening, todo, scratch, recs>>
    BY DEF MarkStored
  <1>1. outbox \in Tables /\ cur \in DOMAIN outbox /\ IsRetryable(outbox[cur])
    BY <1>0, RestartTypes, OutboxTypes DEF OutboxInv, MarkingRetryable
  <1>2. Claims' \subseteq Claims
    BY RestartTypes, ServeClaims DEF Serve
  <1>3. /\ ClaimsCalled' /\ OthersStored' /\ Sources' = Sources
        /\ \A s \in Sources : StoredFor(s)' <=> StoredFor(s)
    BY <1>0, <1>2, QuietCalled DEF RestartInv
  <1>4. ClaimsOf(outbox) \subseteq ClaimsOf(outbox')
    BY <1>0, <1>1, ClaimsLast
  <1>5. \A s \in Sources : PlannedFor(s) => PlannedFor(s)'
    BY <1>0, <1>4 DEF PlannedFor
  <1>6. Awaited'
    BY <1>0, <1>3, <1>5 DEF RestartInv, Awaited
  <1>7. InControl'
    BY <1>0 DEF RestartInv, InControl
  <1>8. ScratchAsOf'
    BY <1>0 DEF ScratchAsOf, Rederiving
  <1> QED BY <1>3, <1>6, <1>7, <1>8 DEF RestartInv

\* The event a client submits is planned for from the members and the metadata as of
\* its second.
LEMMA SubmitAsOf ==
  ASSUME AccessInv, SumInv, missed = {}, NEW e \in ClientEvents, pc = "idle", Submit(e),
         IsNewest(e)
  PROVE  AsOf(Append(log, e), Len(log) + 1, proj, Apply(proj, e, Len(log) + 1))
  <1> DEFINE l == Append(log, e)
             n == Len(log) + 1
             q == Apply(proj, e, n)
  <1>0. log \in Seq(Events) /\ e \in Events /\ proj \in Projections
    BY AccessTypes DEF AccessInv, ClientEvents
  <1>1. /\ l \in Seq(Events) /\ DOMAIN l = DOMAIN log \cup {n} /\ l[n] = e
        /\ n \notin DOMAIN log /\ n \in Nat \ {0}
        /\ \A i \in DOMAIN log : l[i] = log[i]
    BY <1>0, AppendType
  <1>2. \A i \in DOMAIN log : log[i].at \in Nat /\ log[i].at < e.at
    BY <1>0, LogFacts DEF Events, IsNewest
  <1>3. e.at \in Nat
    BY <1>0 DEF Events
  <1>4. CheckEvent(proj, IndexedKeys, e)
    BY DEF Submit, Fresh
  <1> HIDE DEF l, n
  <1>5. Until(l, e.at) = DOMAIN log \cup {n} /\ Before(l, e.at) = DOMAIN log
    <2>1. \A i \in DOMAIN log : l[i].at \in Nat /\ l[i].at < e.at /\ l[i].at <= e.at
      BY <1>1, <1>2, <1>3
    <2>2. l[n].at <= e.at /\ ~(l[n].at < e.at)
      BY <1>1, <1>3
    <2> QED BY <1>1, <2>1, <2>2 DEF Until, Before
  <1>6. MembersOf(l, DOMAIN log, proj)
    <2>1. MembersOf(log, DOMAIN log, proj)
      BY <1>0, AccessSums, MembersCovered DEF Sums
    <2> QED BY <1>1, <2>1, MembersSame
  <1>7. q = Apply(proj, l[n], n)
    BY <1>1
  <1>8. MembersOf(l, DOMAIN log \cup {n}, q)
    BY <1>0, <1>1, <1>6, <1>7, MembersApplied
  <1>9. q.group = CASE e.kind = "create" ->
                         IF TupleLE(proj.group.created, At(l, n))
                         THEN NewGroup(e.meta, At(l, n)) ELSE proj.group
                    [] e.kind = "edit" ->
                         IF proj.group.life = "none" THEN proj.group
                         ELSE UpdateMetadata(proj.group, e.meta, At(l, n))
                    [] e.kind = "metadata" ->
                         IF proj.group.life = "none" THEN NewGroup(e.meta, At(l, n))
                         ELSE UpdateMetadata(proj.group, e.meta, At(l, n))
                    [] e.kind = "delete_group" ->
                         IF proj.group.life = "none" THEN proj.group
                         ELSE MarkDeleted(proj.group, At(l, n))
                    [] OTHER -> proj.group
    BY <1>0, <1>1, ApplyParts DEF At
  <1>10. IF 1 \in DOMAIN log THEN GroupFrom(log, proj.group) ELSE proj.group = NoGroup
    BY <1>0, GroupWhole DEF SumInv, ProjectionSums
  <1> HIDE DEF q
  <1>11. ASSUME e.kind = "create" PROVE q.group.meta = e.meta
    <2>1. proj.group.life = "none"
      BY <1>4, <1>11 DEF CheckEvent, CheckCreateGroup, UserRequestKinds
    <2>2. proj.group = NoGroup
      BY <1>10, <2>1 DEF GroupFrom
    <2>3. TupleLE(NoTuple, At(l, n)) /\ NoGroup.created = NoTuple
      <3>1. At(l, n) \in Tuples
        BY <1>1, LogFacts DEF At
      <3> QED BY <3>1 DEF Tuples, TupleLE, NoTuple, NoGroup
    <2>4. q.group = NewGroup(e.meta, At(l, n))
      BY <1>9, <1>11, <2>2, <2>3
    <2> QED BY <2>4 DEF NewGroup
  <1>12. ASSUME e.kind = "edit" PROVE q.group.meta = e.meta
    <2>1. proj.group.life = "active"
      BY <1>4, <1>12 DEF CheckEvent, CheckModeration, IsActive, UserRequestKinds
    <2>2. GroupFrom(log, proj.group)
      BY <1>10, <2>1 DEF NoGroup
    <2> PICK i \in DOMAIN log : proj.group.edited = At(log, i)
      BY <2>2 DEF GroupFrom
    <2>3. TupleLE(At(log, i), At(l, n))
      BY <1>1, <1>2 DEF At, TupleOf, TupleLE
    <2>4. q.group = UpdateMetadata(proj.group, e.meta, At(l, n))
      BY <1>9, <1>12, <2>1
    <2>5. proj.group \in Groups
      BY <1>0 DEF Projections
    <2> QED BY <2>3, <2>4, <2>5 DEF UpdateMetadata, Groups
  <1>13. AsOf(l, n, proj, q)
    BY <1>1, <1>5, <1>6, <1>8, <1>11, <1>12 DEF AsOf
  <1> QED BY <1>13 DEF l, n, q

\* A client's event comes in: everything that was called for before is stored.
LEMMA SubmitRestart ==
  ASSUME AccessInv, GoodInv, SumInv, RestartInv, GoodInv', Grown, missed = {},
         NEW e \in ClientEvents, pc = "idle", Submit(e), IsNewest(e)
  PROVE  RestartInv'
  <1> PICK n : n = Len(log) + 1
    OBVIOUS
  <1>0. /\ log \in Seq(Events) /\ e \in Events /\ proj \in Projections /\ recs = <<>>
        /\ Sources \subseteq DOMAIN log /\ e.by # Relay
    BY RestartTypes, ProjectionAssumption DEF ClientEvents, GoodInv, RecordsGood
  <1>1. /\ log' = Append(log, e) /\ proj' = Apply(proj, e, n) /\ pc' = "records"
        /\ recs' = PlanOf(e, proj, proj')
        /\ UNCHANGED <<table, outbox, opening, todo, scratch>>
    BY DEF Submit, PlanOf
  <1>2. log' \in Seq(Events) /\ proj' \in Projections
    BY DEF GoodInv, LogInv, OutboxInv, TypeInv, TypeOK
  <1>3. /\ DOMAIN log' = DOMAIN log \cup {n} /\ log'[n] = e /\ n \notin DOMAIN log
        /\ \A i \in DOMAIN log : log'[i] = log[i]
    BY <1>0, <1>1, AppendType
  <1>4. \A i \in DOMAIN log : log[i].at \in Nat /\ log[i].at < e.at
    BY <1>0, LogFacts DEF Events, IsNewest
  <1>5. e.at \in Nat /\ StoredKeys \subseteq StoredKeys'
    BY <1>0 DEF Events, Grown
  <1>6. AsOf(log', n, proj, proj')
    BY <1>1, SubmitAsOf
  <1>7. \A c : Calls(log', n, c) <=> c \in PlannedClaims(recs')
    <2>1. \A c : Calls(log', n, c) <=> c \in PlannedClaims(PlanOf(log'[n], proj, proj'))
      BY <1>0, <1>2, <1>3, <1>6, CallsAll
    <2> QED BY <1>1, <1>3, <2>1
  <1>8. \A s \in DOMAIN log : \A c : Calls(log', s, c) <=> Calls(log, s, c)
    BY <1>0, <1>1, <1>4, <1>5, CallsKept
  <1>9. Sources' = Sources \cup {n}
    BY <1>0, <1>3 DEF Sources
  <1>10. \A s \in Sources : StoredFor(s)'
    <2>1. \A s \in Sources : s \in DOMAIN log /\ StoredFor(s)
      BY <1>0 DEF RestartInv, Awaited
    <2> QED BY <1>5, <1>8, <2>1 DEF StoredFor
  <1>11. NoneAfter(n)'
    BY <1>3, <1>4, <1>5 DEF NoneAfter
  <1>12. ClaimsCalled'
    <2>1. Claims' = ClaimsOf(table) \cup ClaimsOf(outbox) \cup PlannedClaims(recs')
      BY <1>1 DEF Claims
    <2>2. \A c \in ClaimsOf(table) \cup ClaimsOf(outbox) : \E s \in Sources : Calls(log', s, c)
      BY <1>0, <1>8 DEF RestartInv, ClaimsCalled, Claims
    <2> QED BY <1>7, <1>9, <2>1, <2>2 DEF ClaimsCalled
  <1>13. PlannedFor(n)'
    BY <1>7 DEF PlannedFor
  <1>14. Awaited'
    BY <1>1, <1>9, <1>10, <1>13 DEF Awaited
  <1>15. OthersStored'
    BY <1>9, <1>10, <1>11 DEF OthersStored
  <1>16. InControl' /\ ScratchAsOf'
    BY <1>1 DEF RestartInv, InControl, ScratchAsOf, Rederiving
  <1> QED BY <1>12, <1>14, <1>15, <1>16 DEF RestartInv

\* A generated event is stored: it was called for by the newest of the clients' events,
\* whatever else is called for depends on nothing so late.
LEMMA StoreRestart ==
  ASSUME InOrder, GoodInv, Grown, RequestInv, RestartInv, StoreGenerated
  PROVE  RestartInv'
  <1>0. /\ pc = "materialize" /\ pc' = "mark"
        /\ UNCHANGED <<table, outbox, recs, opening, todo, scratch>>
    BY DEF StoreGenerated
  <1> PICK k \in DOMAIN outbox :
        /\ IsRetryable(outbox[k])
        /\ \/ log' = log
           \/ Key(outbox[k].payload) \notin StoredKeys /\ log' = Append(log, outbox[k].payload)
    BY DEF StoreGenerated, IsNextRecord, Retryable, AlreadyStored
  <1>1. Claims' = Claims
    BY <1>0, QuietClaims
  <1>2. InControl' /\ ScratchAsOf'
    BY <1>0 DEF RestartInv, InControl, ScratchAsOf, Rederiving
  <1>3. CASE log' = log
    <2>1. /\ ClaimsCalled' /\ OthersStored' /\ Sources' = Sources
          /\ \A s \in Sources : StoredFor(s)' <=> StoredFor(s)
      BY <1>1, <1>3, QuietCalled DEF RestartInv
    <2>2. \A s \in Sources : PlannedFor(s) => PlannedFor(s)'
      BY <1>0, <1>3 DEF PlannedFor
    <2>3. Awaited'
      BY <1>0, <2>1, <2>2 DEF RestartInv, Awaited
    <2> QED BY <1>2, <2>1, <2>3 DEF RestartInv
  <1>4. CASE log' # log
    <2> PICK x : x = outbox[k].payload
      OBVIOUS
    <2> PICK n : n = Len(log) + 1
      OBVIOUS
    <2>1. /\ log \in Seq(Events) /\ x \in Events /\ x.by = Relay
          /\ Sources \subseteq DOMAIN log
      BY RestartTypes, PayloadType DEF Payloads
    <2>2. log' = Append(log, x) /\ Key(x) \notin StoredKeys /\ StoredKeys \subseteq StoredKeys'
      BY <1>4 DEF Grown
    <2>3. /\ DOMAIN log' = DOMAIN log \cup {n} /\ log'[n] = x /\ n \notin DOMAIN log
          /\ \A i \in DOMAIN log : log'[i] = log[i]
      BY <2>1, <2>2, AppendType
    <2>4. \A i \in DOMAIN log : log[i] \in Events /\ log[i].at \in Nat /\ i \in Nat
      BY <2>1, LogFacts DEF Events
    <2> PICK c : c = Claim(k, outbox[k])
      OBVIOUS
    <2>5. c \in Claims /\ c.payload = x /\ c.planned = "pending"
      <3>1. outbox[k].status # "skipped"
        BY DEF IsRetryable
      <3>2. c.payload = x /\ c.planned = "pending"
        BY <3>1 DEF Claim
      <3> HIDE DEF Claim
      <3> QED BY <3>2 DEF Claims, ClaimsOf
    <2> PICK s \in Sources : Calls(log, s, c)
      BY <2>5 DEF RestartInv, ClaimsCalled
    <2>6. NoneAfter(s)
      <3>1. ~StoredFor(s)
        BY <2>2, <2>5 DEF StoredFor
      <3> QED BY <3>1 DEF RestartInv, OthersStored
    <2>7. Caused(log[s], x)
      <3> PICK q \in Projections, p \in Projections : c \in PlannedClaims(PlanOf(log[s], q, p))
        BY DEF Calls
      <3>1. log[s] \in ClientEvents /\ AboutAuthor(log[s])
        <4>1. s \in DOMAIN log /\ log[s].by # Relay
          BY DEF Sources
        <4>2. AboutAuthor(log[s])
          BY <4>1 DEF RequestInv, LogAnswers
        <4> QED BY <2>4, <4>1, <4>2 DEF Events, ClientEvents
      <3>2. Answers(log[s], c.key, c.payload)
        BY <3>1, PlanAnswers DEF PlanOf
      <3> QED BY <2>5, <3>2 DEF Answers
    <2>8. x.at = log[s].at /\ (IsMemberEvent(x) => log[s].kind \in {"join", "leave"})
      BY <2>7 DEF Caused, IsMemberEvent
    <2>9. \A r \in Sources : log[r].at <= x.at /\ (log[r].at = x.at => r = s)
      <3> TAKE r \in Sources
      <3>1. log[r].at <= x.at
        BY <2>1, <2>6, <2>8 DEF NoneAfter
      <3>2. log[r].at = x.at => ~(r < s) /\ ~(s < r)
        <4>1. /\ r \in DOMAIN log /\ log[r].by # Relay
              /\ s \in DOMAIN log /\ log[s].by # Relay
          BY DEF Sources
        <4> QED BY <2>4, <2>8, <4>1 DEF RequestInv, SourcesIncrease
      <3> QED BY <2>1, <2>4, <3>1, <3>2
    <2>10. \A r \in Sources : \A d : Calls(log', r, d) <=> Calls(log, r, d)
      <3> TAKE r \in Sources
      <3>1. log[r].kind \in {"create", "put", "remove"}
              => log[r].at <= x.at /\ (log[r].at = x.at => ~IsMemberEvent(x))
        BY <2>8, <2>9
      <3>2. r \in DOMAIN log
        BY <2>1
      <3> QED BY <2>1, <2>2, <3>1, <3>2, CallsKept
    <2>11. Sources' = Sources
      BY <2>1, <2>3 DEF Sources
    <2>12. \A r \in Sources : StoredFor(r) => StoredFor(r)'
      BY <2>2, <2>10 DEF StoredFor
    <2>13. \A r \in Sources : PlannedFor(r) => PlannedFor(r)'
      BY <1>0, <2>10 DEF PlannedFor
    <2>14. \A r \in Sources : NoneAfter(r) => NoneAfter(r)'
      <3> SUFFICES ASSUME NEW r \in Sources, NoneAfter(r), NEW i \in DOMAIN log'
                   PROVE  log'[i].at <= log'[r].at
        BY DEF NoneAfter
      <3>1. r \in DOMAIN log /\ log'[r] = log[r] /\ log[s].at <= log[r].at
        BY <2>1, <2>3 DEF NoneAfter
      <3> QED BY <2>3, <2>8, <3>1 DEF NoneAfter
    <2>15. ClaimsCalled'
      BY <1>1, <2>10, <2>11 DEF RestartInv, ClaimsCalled
    <2>16. OthersStored'
      BY <2>11, <2>12, <2>14 DEF RestartInv, OthersStored
    <2>17. Awaited'
      BY <1>0, <2>11, <2>12, <2>13 DEF RestartInv, Awaited
    <2> QED BY <1>2, <2>15, <2>16, <2>17 DEF RestartInv
  <1> QED BY <1>3, <1>4

\* Nothing is left to retry: all that was planned is stored.
LEMMA FinishRestart ==
  ASSUME GoodInv, RestartInv, Finish PROVE RestartInv'
  <1>0. /\ pc = "materialize" /\ pc' = "idle" /\ Retryable(outbox) = {}
        /\ log' = log /\ opening' = FALSE /\ todo' = {} /\ recs = <<>>
    BY DEF Finish, ResetControl, store, GoodInv, RecordsGood
  <1>1. Claims' \subseteq Claims
    BY RestartTypes, ServeClaims DEF Serve
  <1>2. /\ ClaimsCalled' /\ OthersStored' /\ Sources' = Sources
        /\ \A s \in Sources : StoredFor(s)' <=> StoredFor(s)
    BY <1>0, <1>1, QuietCalled DEF RestartInv
  <1>3. ASSUME NEW s \in Sources PROVE StoredFor(s)
    <2>1. StoredFor(s) \/ PlannedFor(s)
      BY <1>0 DEF RestartInv, Awaited, InControl
    <2> SUFFICES ASSUME PlannedFor(s), NEW c, Calls(log, s, c), c.planned = "pending"
                 PROVE  Key(c.payload) \in StoredKeys
      BY <2>1 DEF StoredFor
    <2>2. c \in ClaimsOf(outbox)
      BY <1>0 DEF PlannedFor, PlannedClaims
    <2> PICK k \in DOMAIN outbox : c = Claim(k, outbox[k])
      BY <2>2 DEF ClaimsOf
    <2>3. c.payload = outbox[k].payload /\ outbox[k].status # "skipped"
      BY DEF Claim
    <2>4. outbox[k] \in Records
      BY RestartTypes, TablesMeaning
    <2>5. outbox[k].status = "stored"
      BY <1>0, <2>3, <2>4 DEF Records, Statuses, Retryable, IsRetryable
    <2>6. RecordGood(StoredKeys, k, outbox[k])
      BY DEF GoodInv, RecordsGood, TableGood
    <2> QED BY <2>3, <2>5, <2>6 DEF RecordGood
  <1>4. Awaited' /\ InControl' /\ ScratchAsOf'
    BY <1>0, <1>2, <1>3 DEF Awaited, InControl, ScratchAsOf, Rederiving
  <1> QED BY <1>2, <1>4 DEF RestartInv

\* Applying the first event in tuple order of those that are left.
LEMMA ScratchApplied ==
  ASSUME log \in Seq(Events), Opened(log), NEW S \in SUBSET DOMAIN log,
         NEW p \in Projections, ScratchSums(S, p), NEW i \in S, IsFirst(log, S, i),
         NEW q, q = Apply(p, log[i], i)
  PROVE  /\ ScratchSums(S \ {i}, q) /\ q \in Projections
         /\ log[i].kind \in {"create", "edit"}
              => q.group.meta = log[i].meta /\ q.group.life # "none"
  <1> DEFINE e == log[i]
             t == At(log, i)
             g == p.group
             h == q.group
  <1>1. /\ i \in DOMAIN log /\ e \in Events /\ i \in Nat \ {0} /\ t \in Tuples
        /\ \A j \in DOMAIN log : At(log, j) \in Tuples
    BY LogFacts DEF At
  <1>2. Applied(p, q, e, t)
    BY <1>1, ApplyFacts DEF At
  <1>3. h = CASE e.kind = "create" -> IF TupleLE(g.created, t) THEN NewGroup(e.meta, t) ELSE g
              [] e.kind = "edit" ->
                   IF g.life = "none" THEN g ELSE UpdateMetadata(g, e.meta, t)
              [] e.kind = "metadata" ->
                   IF g.life = "none" THEN NewGroup(e.meta, t) ELSE UpdateMetadata(g, e.meta, t)
              [] e.kind = "delete_group" -> IF g.life = "none" THEN g ELSE MarkDeleted(g, t)
              [] OTHER -> g
    BY <1>1, ApplyParts DEF At
  <1>4. g \in Groups /\ h \in Groups /\ q \in Projections
    BY <1>2 DEF Applied, Projections
  <1>5. /\ TupleLE(g.created, t) /\ TupleLE(g.edited, t)
        /\ \A j \in S : TupleLE(t, At(log, j))
        /\ \A j \in DOMAIN log \ S : TupleLE(At(log, j), t)
        /\ 1 \in DOMAIN log \ S => g.life # "none"
    BY DEF ScratchSums, IsFirst, At
  <1>6. \/ h = g
        \/ h = NewGroup(e.meta, t)
        \/ h = UpdateMetadata(g, e.meta, t) /\ g.life # "none"
        \/ h = MarkDeleted(g, t) /\ g.life # "none"
    <2> HIDE DEF e, t, g, h
    <2> QED BY <1>3
  <1> HIDE DEF h, e, t
  <1>7. /\ h.created \in {g.created, t} /\ h.edited \in {g.edited, t}
        /\ g.life # "none" => h.life # "none"
    <2>1. CASE h = g \/ h = NewGroup(e.meta, t)
      BY <2>1 DEF NewGroup
    <2>2. CASE h = UpdateMetadata(g, e.meta, t)
      BY <1>4, <2>2 DEF UpdateMetadata, Groups
    <2>3. CASE h = MarkDeleted(g, t)
      BY <1>4, <2>3 DEF MarkDeleted, Groups
    <2> QED BY <1>6, <2>1, <2>2, <2>3
  <1>8. i = 1 => e.kind = "create"
    BY <1>1 DEF Opened, e
  <1>9. e.kind = "create" => h = NewGroup(e.meta, t)
    BY <1>3, <1>5
  <1>10. ASSUME e.kind = "edit" PROVE h = UpdateMetadata(g, e.meta, t) /\ g.life # "none"
    <2>1. i # 1 /\ log[1].at < e.at /\ 1 \in DOMAIN log
      <3>1. i # 1
        BY <1>8, <1>10
      <3>2. log[1].at < e.at
        BY <1>1, <1>10, <3>1 DEF Opened, e
      <3> QED BY <1>1, <3>1, <3>2
    <2>2. ~TupleLE(t, At(log, 1))
      <3>1. log[1].at \in Nat /\ e.at \in Nat
        BY <1>1, <2>1, LogFacts DEF Events
      <3> QED BY <2>1, <3>1 DEF t, e, At, TupleOf, TupleLE
    <2>3. g.life # "none"
      BY <1>5, <2>1, <2>2
    <2> QED BY <1>3, <1>10, <2>3
  <1>11. e.kind \in {"create", "edit"} => h.meta = e.meta /\ h.life # "none"
    <2>1. e.kind = "create" => h.meta = e.meta /\ h.life # "none"
      BY <1>9 DEF NewGroup
    <2>2. e.kind = "edit" => h.meta = e.meta /\ h.life # "none"
      BY <1>4, <1>5, <1>10 DEF UpdateMetadata, Groups
    <2> QED BY <2>1, <2>2
  <1>12. DOMAIN log \ (S \ {i}) = (DOMAIN log \ S) \cup {i}
    BY <1>1
  <1>13. MembersOf(log, DOMAIN log \ (S \ {i}), q)
    <2>1. MembersOf(log, DOMAIN log \ S, p)
      BY DEF ScratchSums
    <2> QED BY <1>1, <1>12, <2>1, MembersApplied
  <1>14. 1 \in DOMAIN log \ (S \ {i}) => h.life # "none"
    BY <1>5, <1>7, <1>8, <1>11, <1>12
  <1>15. \A j \in S \ {i} : TupleLE(h.created, At(log, j)) /\ TupleLE(h.edited, At(log, j))
    BY <1>5, <1>7 DEF ScratchSums
  <1>16. \A j \in DOMAIN log \ (S \ {i}) : \A k \in S \ {i} : TupleLE(At(log, j), At(log, k))
    BY <1>5, <1>12 DEF ScratchSums, t
  <1> HIDE DEF g
  <1>17. ScratchSums(S \ {i}, q)
    BY <1>13, <1>14, <1>15, <1>16 DEF ScratchSums, h
  <1> QED BY <1>4, <1>11, <1>17 DEF h, e

\* The event of a client is planned for, when the records are derived again, from the
\* members and the metadata as of its second.
LEMMA DeriveAsOf ==
  ASSUME log \in Seq(Events), Opened(log), LogAnswers, SourcesIncrease,
         ScratchSums(todo, scratch), todo \subseteq DOMAIN log, scratch \in Projections,
         NEW i \in todo, IsFirst(log, todo, i), i \in Sources,
         NEW q, q = Apply(scratch, log[i], i)
  PROVE  AsOf(log, i, scratch, q)
  <1> DEFINE S == DOMAIN log \ todo
             t == log[i].at
  <1>0. \A j \in DOMAIN log : log[j] \in Events /\ log[j].at \in Nat
    BY LogFacts DEF Events
  <1>1. /\ ScratchSums(todo \ {i}, q)
        /\ log[i].kind \in {"create", "edit"} => q.group.meta = log[i].meta
    <2>1. todo \in SUBSET DOMAIN log
      OBVIOUS
    <2> QED BY <2>1, ScratchApplied
  <1>2. /\ MembersOf(log, S, scratch) /\ MembersOf(log, S \cup {i}, q)
        /\ i \in DOMAIN log /\ i \notin S
    <2>1. DOMAIN log \ (todo \ {i}) = S \cup {i}
      OBVIOUS
    <2> QED BY <1>1, <2>1 DEF ScratchSums
  <1>3. \A j \in S : log[j].at <= t
    <2> TAKE j \in S
    <2>1. TupleLE(At(log, j), At(log, i))
      BY DEF ScratchSums
    <2> QED BY <1>0, <1>2, <2>1 DEF At, TupleOf, TupleLE
  <1>4. \A j \in DOMAIN log : log[j].at < t => j \in S
    <2> SUFFICES ASSUME NEW j \in todo, log[j].at < t PROVE FALSE
      BY <1>0
    <2>1. TupleLE(At(log, i), At(log, j))
      BY DEF IsFirst, At
    <2> QED BY <1>0, <1>2, <2>1 DEF At, TupleOf, TupleLE
  <1>5. ASSUME log[i].kind \in {"create", "put", "remove"}, NEW j \in DOMAIN log,
               IsMemberEvent(log[j]), log[j].at = t
        PROVE  j = i
    BY <1>5, AloneInSecond
  <1> HIDE DEF S, t
  <1>6. ASSUME log[i].kind \in {"create", "put", "remove"}
        PROVE  MembersOf(log, Until(log, t), q)
    <2>1. \A j \in S \cup {i} : IsMemberEvent(log[j]) => j \in Until(log, t)
      <3>1. t <= t
        BY <1>0, <1>2 DEF t
      <3> QED BY <1>2, <1>3, <3>1 DEF Until, S, t
    <2>2. \A j \in Until(log, t) : IsMemberEvent(log[j]) => j \in S \cup {i}
      <3> SUFFICES ASSUME NEW j \in Until(log, t), IsMemberEvent(log[j])
                   PROVE  j \in S \cup {i}
        OBVIOUS
      <3>1. j \in DOMAIN log /\ (log[j].at < t \/ log[j].at = t)
        BY <1>0, <1>2 DEF Until, t
      <3> QED BY <1>4, <1>5, <1>6, <3>1
    <2> QED BY <1>2, <2>1, <2>2, MembersSame
  <1>7. ASSUME log[i].kind \in {"put", "remove"}
        PROVE  MembersOf(log, Before(log, t), scratch)
    <2>1. \A j \in S : IsMemberEvent(log[j]) => j \in Before(log, t)
      <3> SUFFICES ASSUME NEW j \in S, IsMemberEvent(log[j]) PROVE j \in Before(log, t)
        OBVIOUS
      <3>1. j \in DOMAIN log /\ j # i
        BY <1>2 DEF S
      <3>2. log[j].at # t
        BY <1>5, <1>7, <3>1
      <3> QED BY <1>0, <1>2, <1>3, <3>1, <3>2 DEF Before, t
    <2>2. \A j \in Before(log, t) : j \in S
      BY <1>4 DEF Before
    <2> QED BY <1>2, <2>1, <2>2, MembersSame
  <1> QED BY <1>1, <1>6, <1>7 DEF AsOf, t

\* An event is taken into the projection and planned for: deriving does not fail, and
\* plans what the event calls for.
LEMMA DeriveRestart ==
  ASSUME InOrder, GoodInv, RequestInv, SumInv, RestartInv, DeriveEvent
  PROVE  RestartInv'
  <1> PICK i \in todo :
        /\ IsFirst(log, todo, i)
        /\ scratch' = Apply(scratch, log[i], i) /\ todo' = todo \ {i}
        /\ \/ log[i].by = Relay /\ UNCHANGED <<pc, recs>>
           \/ log[i].by # Relay /\ PlanFails(log[i], scratch')
           \/ /\ log[i].by # Relay /\ pc' = "records"
              /\ recs' = PlanOf(log[i], scratch, scratch')
    BY DEF DeriveEvent, PlanOf
  <1>0. /\ pc = "derive" /\ opening /\ recs = <<>>
        /\ UNCHANGED <<log, table, outbox, opening>>
    BY DEF DeriveEvent, store, GoodInv, ServingGood, RecordsGood
  <1>1. /\ log \in Seq(Events) /\ Opened(log) /\ LogAnswers /\ SourcesIncrease
        /\ scratch \in Projections /\ todo \subseteq DOMAIN log /\ i \in DOMAIN log
        /\ ScratchSums(todo, scratch)
    BY <1>0, RestartTypes DEF SumInv, RequestInv, RestartInv, ScratchAsOf, Rederiving
  <1>2. /\ ScratchSums(todo \ {i}, scratch') /\ scratch' \in Projections
        /\ log[i].kind \in {"create", "edit"} => scratch'.group.life # "none"
    <2>1. todo \in SUBSET DOMAIN log
      BY <1>1
    <2> PICK q : q = Apply(scratch, log[i], i)
      OBVIOUS
    <2>2. /\ ScratchSums(todo \ {i}, q) /\ q \in Projections
          /\ log[i].kind \in {"create", "edit"} => q.group.life # "none"
      BY <1>1, <2>1, ScratchApplied
    <2> QED BY <2>2
  <1>3. ScratchAsOf'
    BY <1>0, <1>2 DEF ScratchAsOf, ScratchSums
  <1>4. Sources' = Sources /\ \A s \in Sources : StoredFor(s) => StoredFor(s)'
    BY <1>0 DEF Sources, StoredFor, StoredKeys
  <1>5. OthersStored'
    BY <1>0, <1>4 DEF RestartInv, OthersStored, NoneAfter
  <1>6. CASE log[i].by = Relay
    <2>1. UNCHANGED <<pc, recs>> /\ i \notin Sources
      BY <1>6 DEF Sources
    <2>2. ClaimsCalled'
      BY <1>0, <1>4, <2>1, QuietClaims DEF RestartInv, ClaimsCalled
    <2>3. \A s \in Sources : PlannedFor(s) => PlannedFor(s)'
      BY <1>0, <2>1 DEF PlannedFor
    <2>4. Sources \ (todo \ {i}) = Sources \ todo
      BY <2>1
    <2>5. Awaited' /\ InControl'
      BY <1>0, <1>4, <2>1, <2>3, <2>4 DEF RestartInv, Awaited, InControl
    <2> QED BY <1>3, <1>5, <2>2, <2>5 DEF RestartInv
  <1>7. CASE log[i].by # Relay
    <2>1. i \in Sources /\ ~PlanFails(log[i], scratch')
      BY <1>1, <1>2, <1>7 DEF Sources, PlanFails
    <2>2. pc' = "records" /\ recs' = PlanOf(log[i], scratch, scratch')
      BY <1>7, <2>1
    <2>3. AsOf(log, i, scratch, scratch')
      BY <1>1, <2>1, DeriveAsOf
    <2>4. \A c : Calls(log, i, c) <=> c \in PlannedClaims(recs')
      BY <1>1, <1>2, <2>2, <2>3, CallsAll
    <2>5. Claims' = ClaimsOf(table) \cup ClaimsOf(outbox) \cup PlannedClaims(recs')
      BY <1>0 DEF Claims
    <2>6. ClaimsCalled'
      <3>1. \A c \in ClaimsOf(table) \cup ClaimsOf(outbox) : \E s \in Sources : Calls(log, s, c)
        BY DEF RestartInv, ClaimsCalled, Claims
      <3> QED BY <1>0, <1>4, <2>1, <2>4, <2>5, <3>1 DEF ClaimsCalled
    <2>7. PlannedFor(i)'
      BY <1>0, <2>4 DEF PlannedFor
    <2>8. \A s \in Sources : PlannedFor(s) => PlannedFor(s)'
      BY <1>0 DEF PlannedFor, PlannedClaims
    <2>9. Awaited'
      BY <1>0, <1>4, <2>2, <2>7, <2>8 DEF RestartInv, Awaited
    <2>10. InControl'
      BY <1>0, <2>2 DEF InControl
    <2> QED BY <1>3, <1>5, <2>6, <2>9, <2>10 DEF RestartInv
  <1> QED BY <1>6, <1>7

\* The process ends, or the projection is being recovered.
LEMMA QuietRestart ==
  ASSUME RestartInv, log' = log, Claims' \subseteq Claims,
         pc' \in {"down", "replay", "clear", "checkpoint"}
  PROVE  RestartInv'
  <1>1. ClaimsCalled' /\ OthersStored'
    BY QuietCalled DEF RestartInv
  <1>2. Awaited' /\ InControl' /\ ScratchAsOf'
    BY DEF Awaited, InControl, ScratchAsOf, Rederiving
  <1> QED BY <1>1, <1>2 DEF RestartInv

\* Only rows and the checkpoint are written, if anything.
LEMMA SameRestart ==
  ASSUME RestartInv, UNCHANGED <<log, table, outbox, recs, pc, opening, todo, scratch>>
  PROVE  RestartInv'
  <1>1. /\ ClaimsCalled' /\ OthersStored' /\ Sources' = Sources
        /\ \A s \in Sources : StoredFor(s)' <=> StoredFor(s)
    BY QuietClaims, QuietCalled DEF RestartInv
  <1>2. \A s \in Sources : PlannedFor(s) => PlannedFor(s)'
    BY DEF PlannedFor
  <1>3. Awaited'
    BY <1>1, <1>2 DEF RestartInv, Awaited
  <1>4. InControl' /\ ScratchAsOf'
    BY DEF RestartInv, InControl, ScratchAsOf, Rederiving, ScratchSums
  <1> QED BY <1>1, <1>3, <1>4 DEF RestartInv

\* The planned records are merged: the next event is planned for, or the events that are
\* called for are stored.
LEMMA MergedRestart ==
  ASSUME RestartInv, RecordsMerged PROVE RestartInv'
  <1>0. /\ pc = "records" /\ pc' = IF opening THEN "derive" ELSE "materialize"
        /\ UNCHANGED <<log, table, outbox, recs, opening, todo, scratch>>
    BY DEF RecordsMerged, store, control
  <1>1. /\ ClaimsCalled' /\ OthersStored' /\ Sources' = Sources
        /\ \A s \in Sources : StoredFor(s)' <=> StoredFor(s)
    BY <1>0, QuietClaims, QuietCalled DEF RestartInv
  <1>2. \A s \in Sources : PlannedFor(s) => PlannedFor(s)'
    BY <1>0 DEF PlannedFor
  <1>3. Awaited'
    BY <1>0, <1>1, <1>2 DEF RestartInv, Awaited
  <1>4. InControl' /\ ScratchAsOf'
    BY <1>0 DEF RestartInv, InControl, ScratchAsOf, Rederiving, ScratchSums
  <1> QED BY <1>1, <1>3, <1>4 DEF RestartInv

\* Every event is taken in.
LEMMA DerivedRestart ==
  ASSUME RestartInv, RecordsDerived PROVE RestartInv'
  <1>0. /\ pc = "derive" /\ todo = {} /\ pc' = "materialize"
        /\ UNCHANGED <<log, table, outbox, recs, opening, todo>>
    BY DEF RecordsDerived, store
  <1>1. /\ ClaimsCalled' /\ OthersStored' /\ Sources' = Sources
        /\ \A s \in Sources : StoredFor(s)' <=> StoredFor(s)
    BY <1>0, QuietClaims, QuietCalled DEF RestartInv
  <1>2. \A s \in Sources : PlannedFor(s) => PlannedFor(s)'
    BY <1>0 DEF PlannedFor
  <1>3. Awaited'
    BY <1>0, <1>1, <1>2 DEF RestartInv, Awaited
  <1>4. InControl' /\ ScratchAsOf'
    BY <1>0 DEF RestartInv, InControl, ScratchAsOf, Rederiving
  <1> QED BY <1>1, <1>3, <1>4 DEF RestartInv

\* The records are about to be derived, from nothing.
LEMMA StartRestart ==
  ASSUME GoodInv, RestartInv, StartDeriving, log' = log, Claims' \subseteq Claims
  PROVE  RestartInv'
  <1>0. pc' = "derive" /\ todo' = DOMAIN log /\ scratch' = EmptyProjection
    BY DEF StartDeriving
  <1>1. ClaimsCalled' /\ OthersStored' /\ Sources' = Sources
    BY QuietCalled DEF RestartInv
  <1>2. Awaited' /\ InControl'
    BY <1>0, <1>1, RestartTypes DEF Awaited, InControl
  <1>3. MembersOf(log, {}, EmptyProjection)
    BY DEF MembersOf, LastOf, EmptyProjection
  <1>4. \A j \in DOMAIN log : /\ TupleLE(EmptyProjection.group.created, At(log, j))
                              /\ TupleLE(EmptyProjection.group.edited, At(log, j))
    <2> TAKE j \in DOMAIN log
    <2>1. At(log, j) \in Tuples
      BY RestartTypes, LogFacts DEF At
    <2>2. TupleLE(NoTuple, At(log, j))
      BY <2>1 DEF Tuples, TupleLE, NoTuple
    <2> QED BY <2>2 DEF EmptyProjection, NoGroup
  <1>5. DOMAIN log \ DOMAIN log = {}
    OBVIOUS
  <1> HIDE DEF EmptyProjection
  <1>6. ScratchSums(DOMAIN log, EmptyProjection)
    BY <1>3, <1>4, <1>5 DEF ScratchSums
  <1>7. ScratchAsOf'
    BY <1>0, <1>6 DEF ScratchAsOf, ScratchSums
  <1> QED BY <1>1, <1>2, <1>7 DEF RestartInv

\* The steps of an operation.
LEMMA ServeRestart ==
  ASSUME InOrder, GoodInv, Grown, RequestInv, RestartInv, Serve
  PROVE  RestartInv'
  <1>1. CASE PutRow
    BY <1>1, SameRestart DEF PutRow
  <1>2. CASE MergeRecordClashes
    <2>1. recs # <<>> /\ Clashes(outbox, Head(recs)) /\ Head(recs).key \in DOMAIN outbox
      BY <1>2 DEF MergeRecordClashes, Clashes
    <2> QED BY <2>1, NoClash DEF RestartInv
  <1>3. CASE MarkFailed
    BY <1>3 DEF MarkFailed, RestartInv, InControl
  <1> QED BY <1>1, <1>2, <1>3, MergeRestart, MergedRestart, StoreRestart, MarkRestart,
             FinishRestart DEF Serve

\* The steps of an opening.
LEMMA RecoverRestart ==
  ASSUME InOrder, GoodInv, RequestInv, SumInv, RestartInv, Recover
  PROVE  RestartInv'
  <1>1. CASE DeriveEvent
    BY <1>1, DeriveRestart
  <1>2. CASE ~DeriveEvent
    <2>0. Claims' \subseteq Claims
      BY <1>2, RecoverClaims
    <2>1. CASE Open
      <3>1. log' = log /\ (StartDeriving \/ pc' = "replay")
        BY <2>1 DEF Open, store
      <3> QED BY <2>0, <3>1, StartRestart, QuietRestart
    <2>2. CASE PutCheckpoint
      BY <2>0, <2>2, StartRestart DEF PutCheckpoint
    <2>3. CASE ReplayEvent \/ StartClearing \/ ClearRow \/ TableCleared
      <3>1. log' = log /\ pc' \in {"replay", "clear", "checkpoint"}
        BY <2>3 DEF ReplayEvent, StartClearing, ClearRow, TableCleared, store
      <3> QED BY <2>0, <3>1, QuietRestart
    <2> QED BY <1>2, <2>1, <2>2, <2>3, DerivedRestart DEF Recover
  <1> QED BY <1>1, <1>2

\* The invariant holds initially.
LEMMA InitRestart == Init => RestartInv
  <1> SUFFICES ASSUME Init PROVE RestartInv
    OBVIOUS
  <1>1. /\ log = <<>> /\ table = <<>> /\ outbox = <<>> /\ recs = <<>> /\ pc = "down"
    BY DEF Init
  <1>2. Claims = {} /\ Sources = {}
    BY <1>1 DEF Claims, ClaimsOf, PlannedClaims, Sources
  <1> QED BY <1>1, <1>2 DEF RestartInv, ClaimsCalled, OthersStored, Awaited, InControl,
                            ScratchAsOf, Rederiving

\* No write of the store fails, and so memory misses no event.
LEMMA NoFault == MaxFaults = 0 /\ TypeInv => ~Fault
  BY DEF Fault, TypeInv, TypeOK

LEMMA NextNothingMissed ==
  ASSUME MaxFaults = 0, TypeInv, NothingMissed, [Next]_vars
  PROVE  NothingMissed'
  <1>1. CASE Clients
    <2> PICK e \in ClientEvents : Submit(e) \/ SubmitFails(e) \/ Duplicate(e)
      BY <1>1, ClientsSubmit
    <2> QED BY NoFault DEF Submit, SubmitFails, Duplicate, NothingMissed, history
  <1>2. CASE Serve
    BY <1>2 DEF Serve, PutRow, MergeRecord, MergeRecordClashes, RecordsMerged,
                StoreGenerated, MarkStored, MarkFailed, Finish, ReturnError, GoDown,
                NothingMissed, history
  <1>3. CASE Recover
    BY <1>3 DEF Recover, Open, ReplayEvent, StartClearing, ClearRow, TableCleared,
                PutCheckpoint, DeriveEvent, RecordsDerived, NothingMissed, history
  <1>4. CASE Fail
    BY <1>4, NoFault DEF Fail, PutRowFails, MergeRecordFails, StoreGeneratedFails,
                         MarkStoredFails, RewriteFails
  <1>5. CASE Crash \/ Shutdown \/ Upgrade \/ UNCHANGED vars
    BY <1>5 DEF Crash, Shutdown, Upgrade, GoDown, NothingMissed, vars, history
  <1> QED BY <1>1, <1>2, <1>3, <1>4, <1>5 DEF Next

\* The invariant is kept, as long as no write of the store fails.
LEMMA NextRestart ==
  ASSUME InOrder, MaxFaults = 0, AccessInv, GoodInv, GoodInv', Grown, RequestInv, SumInv,
         NothingMissed, RestartInv, [Next]_vars
  PROVE  RestartInv'
  <1>1. CASE Clients
    <2>1. pc = "idle" /\ TypeInv
      BY <1>1 DEF Clients, AccessInv
    <2> PICK e \in ClientEvents : Submit(e) \/ SubmitFails(e) \/ Duplicate(e)
      BY <1>1, <2>1, ClientsSubmit
    <2>2. CASE Submit(e)
      <3>1. IsNewest(e)
        BY <2>2 DEF Submit, Fresh
      <3> QED BY <2>1, <2>2, <3>1, SubmitRestart DEF NothingMissed
    <2>3. CASE SubmitFails(e)
      BY <2>1, <2>3, NoFault DEF SubmitFails
    <2>4. CASE Duplicate(e)
      BY <2>4, SameRestart DEF Duplicate, store, control
    <2> QED BY <2>2, <2>3, <2>4
  <1>2. CASE Fail
    BY <1>2, NoFault DEF Fail, PutRowFails, MergeRecordFails, StoreGeneratedFails,
                         MarkStoredFails, RewriteFails, AccessInv
  <1>3. CASE Crash \/ Shutdown \/ Upgrade
    <2>1. Claims' \subseteq Claims
      BY <1>3, EnvironmentClaims
    <2>2. log' = log /\ pc' = "down"
      BY <1>3 DEF Crash, Shutdown, Upgrade, GoDown, store
    <2> QED BY <2>1, <2>2, QuietRestart
  <1>4. CASE UNCHANGED vars
    BY <1>4, SameRestart DEF vars, store, control
  <1> QED BY <1>1, <1>2, <1>3, <1>4, ServeRestart, RecoverRestart DEF Next

\* A tenant that is moved: the rows, the checkpoint and the outbox table are lost, all of
\* which its next opening computes again.
LEMMA MoveRestart ==
  ASSUME AccessInv, GoodInv, RequestInv, SumInv, RestartInv, NothingMissed, RestorePortable
  PROVE  (AccessInv /\ GoodInv /\ RequestInv /\ SumInv /\ RestartInv /\ NothingMissed)'
  <1>0. /\ pc = "down" /\ crashes < MaxCrashes /\ crashes' = crashes + 1
        /\ rows' = EmptyProjection /\ ckpt' = NoCheckpoint /\ table' = <<>>
        /\ UNCHANGED <<log, proj, outbox, pc, acked, errored, missed, faults>>
        /\ UNCHANGED <<opening, src, todo, scratch, rowsLeft, recs, cur>>
    BY DEF RestorePortable, control, history
  <1>1. TypeOK'
    <2>1. EmptyProjection \in Projections
      BY EmptyProjectionType
    <2>2. DOMAIN <<>> \subseteq RecordKeys /\ <<>> \in [DOMAIN <<>> -> Records]
      BY EmptyTable, TablesMeaning
    <2>3. crashes' \in 0..MaxCrashes
      BY <1>0, ServiceAssumption DEF AccessInv, TypeInv, TypeOK
    <2>4. TypeOK
      BY DEF AccessInv, TypeInv
    <2> HIDE DEF EmptyProjection, RowKeys
    <2>5. /\ rows' \in Projections /\ ckpt' \in (0..Len(log')) \cup {NoCheckpoint}
          /\ DOMAIN table' \subseteq RecordKeys /\ table' \in [DOMAIN table' -> Records]
      BY <1>0, <2>1, <2>2
    <2>6. RowKeys(proj)' = RowKeys(proj)
      BY <1>0 DEF RowKeys
    <2> QED BY <1>0, <2>3, <2>4, <2>5, <2>6 DEF TypeOK
  <1>2. TypeInv'
    BY <1>0, <1>1 DEF AccessInv, TypeInv
  <1>3. AccessInv'
    <2>1. RowsCover' /\ ProjectionCovers'
      <3>1. MembersFrom(log, EmptyProjection, Known)
        BY EmptyFrom
      <3>2. ProjectionCovers /\ missed = {} /\ Known' = Known
        BY <1>0 DEF AccessInv, NothingMissed, Known
      <3> HIDE DEF EmptyProjection
      <3> QED BY <1>0, <3>1, <3>2 DEF RowsCover, ProjectionCovers
    <2> QED BY <1>2, <2>1 DEF AccessInv
  <1>4. StoredKeys' = StoredKeys
    BY <1>0 DEF StoredKeys
  <1>5. LogInv'
    BY <1>0, <1>2 DEF GoodInv, LogInv, OutboxInv, NotBehind, MarkingRetryable,
                      LogFromBoth, StoredOnce
  <1>6. RecordsGood' /\ ServingGood'
    BY <1>0, <1>4 DEF GoodInv, RecordsGood, ServingGood, TableGood, Serving
  <1>7. GoodInv'
    BY <1>5, <1>6 DEF GoodInv
  <1>8. Claims' \subseteq Claims
    BY <1>0 DEF Claims, ClaimsOf
  <1>9. RequestInv'
    BY <1>0, <1>8 DEF RequestInv, LogAnswers, ClaimsAnswer, SourcesIncrease
  <1>10. SumInv'
    <2>1. log \in Seq(Events)
      BY RestartTypes
    <2>2. DeletesFrom(log, EmptyProjection) /\ EmptyProjection.group = NoGroup
      BY <2>1, EmptyFromLog
    <2> HIDE DEF EmptyProjection
    <2> QED BY <1>0, <2>2 DEF SumInv, RowsSum, ProjectionSums
  <1>11. RestartInv'
    BY <1>0, <1>8, QuietRestart
  <1> QED BY <1>0, <1>3, <1>7, <1>9, <1>10, <1>11 DEF NothingMissed

\* A restart succeeds, whatever the process was doing when it ended, and also when the
\* tenant was moved by portable backup: derive_missing_outbox_records never finds a record
\* under the key of another payload.  Clients' events come in the order of their seconds
\* and no write of the store fails; without the one or the other it may.
THEOREM RestartSucceeds ==
  ASSUME InOrder, MaxFaults = 0, ~SnapshotInterrupted PROVE MovedSpec => []ReopenSucceeds
  <1> DEFINE IInv == AccessInv /\ GoodInv /\ RequestInv /\ SumInv /\ RestartInv /\ NothingMissed
  <1>1. Init => IInv
    <2>1. Init => NothingMissed
      BY DEF Init, NothingMissed
    <2> QED BY <2>1, InitTypeInv, InitAccessInv, InitComplete, InitRequests, InitSums,
               InitRestart DEF AccessInv, CompleteInv, GoodInv
  <1>2. IInv /\ [Next \/ RestorePortable]_vars => IInv'
    <2>1. CASE [Next]_vars
      <3> SUFFICES ASSUME IInv PROVE IInv'
        OBVIOUS
      <3>0. NothingMissed'
        BY <2>1, NextNothingMissed DEF AccessInv
      <3>1. AccessInv' /\ SumInv'
        BY <2>1, <3>0, NextAccessInv, NextSums
      <3>2. LogInv' /\ Grown /\ Good
        BY <2>1, NextLogInv, NextGood DEF GoodInv
      <3>3. GoodInv'
        BY <3>2 DEF Good, GoodInv
      <3>4. RequestInv'
        BY <2>1, NextRequests DEF GoodInv, LogInv
      <3>5. RestartInv'
        BY <2>1, <3>2, <3>3, NextRestart
      <3> QED BY <3>0, <3>1, <3>3, <3>4, <3>5
    <2>2. CASE RestorePortable
      BY <2>2, MoveRestart
    <2> QED BY <2>1, <2>2
  <1>3. IInv => ReopenSucceeds
    BY DEF RestartInv, InControl, ReopenSucceeds
  <1> HIDE DEF IInv
  <1> QED BY <1>1, <1>2, <1>3, PTL DEF MovedSpec
=============================================================================
