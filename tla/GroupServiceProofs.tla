------------------------- MODULE GroupServiceProofs -------------------------
(***************************************************************************)
(* Theorems about GroupService, for every set of users, roles, metadata    *)
(* and times, every configuration and every number of events, crashes and  *)
(* failed writes.  First what applying events does to a projection: types  *)
(* are kept, and the members, the tombstone and the deletions only move up *)
(* in tuple order, so that what a projection covers stays covered whatever *)
(* is applied to it and in which order.  Then type correctness.            *)
(***************************************************************************)
EXTENDS GroupService, TLAPS

-----------------------------------------------------------------------------
(* Tuple order *)

\* TupleLE is reflexive.
LEMMA TupleReflexive == \A t \in Tuples : TupleLE(t, t)
  BY DEF Tuples, TupleLE

\* TupleLE is transitive.
LEMMA TupleTransitive ==
  ASSUME NEW r \in Tuples, NEW s \in Tuples, NEW t \in Tuples,
         TupleLE(r, s), TupleLE(s, t)
  PROVE  TupleLE(r, t)
  BY DEF Tuples, TupleLE

\* TupleLE is total, so that "not newer" in put_member means "older".
LEMMA TupleTotal ==
  ASSUME NEW s \in Tuples, NEW t \in Tuples, ~TupleLE(s, t)
  PROVE  TupleLE(t, s)
  BY DEF Tuples, TupleLE

\* The tuple of a stored event is a tuple above NoTuple.
LEMMA TupleOfEvent ==
  ASSUME NEW e \in Events, NEW i \in Nat \ {0}
  PROVE  TupleOf(e, i) \in Tuples /\ ~TupleLE(TupleOf(e, i), NoTuple)
  <1>1. e.at \in Nat /\ e.id \in Nat
    BY DEF Events
  <1> QED BY <1>1 DEF TupleOf, Tuples, TupleLE, NoTuple

\* NoTuple is a tuple.
LEMMA NoTupleType == NoTuple \in Tuples
  BY DEF NoTuple, Tuples

-----------------------------------------------------------------------------
(* Types *)

\* A put-user or remove-user event makes a member record.
LEMMA MemberOfType ==
  ASSUME NEW e \in Events, NEW t \in Tuples
  PROVE  MemberOf(e, t) \in Members
  <1>1. e.roles \in SUBSET Roles
    BY DEF Events
  <1> QED BY <1>1 DEF MemberOf, Members, MemberStatuses

\* The empty projection is a projection.
LEMMA EmptyProjectionType == EmptyProjection \in Projections
  <1>1. NoGroup \in Groups
    BY NoTupleType DEF NoGroup, Groups, Lifecycles, EmptyMetadata, Metadata
  <1>2. NoMember \in Members
    BY NoTupleType DEF NoMember, Members, MemberStatuses
  <1> QED BY <1>1, <1>2, NoTupleType DEF EmptyProjection, Projections, Tombstones, Deletions

\* Each operation on the group record returns one.
LEMMA GroupTypes ==
  ASSUME NEW g \in Groups, NEW m \in Metadata, NEW t \in Tuples
  PROVE  /\ NewGroup(m, t) \in Groups
         /\ UpdateMetadata(g, m, t) \in Groups
         /\ MarkDeleted(g, t) \in Groups
  BY NoTupleType DEF NewGroup, UpdateMetadata, MarkDeleted, Groups, Lifecycles

\* Changing the group record alone keeps a projection a projection.
LEMMA WithGroup ==
  ASSUME NEW p \in Projections, NEW g \in Groups
  PROVE  /\ [p EXCEPT !.group = g] \in Projections
         /\ [p EXCEPT !.group = g].members = p.members
         /\ [p EXCEPT !.group = g].tomb = p.tomb
         /\ [p EXCEPT !.group = g].dels = p.dels
  BY DEF Projections, Tombstones, Deletions

-----------------------------------------------------------------------------
(* put_member, put_tombstone and put_event_deletion *)

\* put_member keeps the newer of two records and touches nothing else.
LEMMA PutMemberFacts ==
  ASSUME NEW p \in Projections, NEW u \in Users, NEW m \in Members
  PROVE  /\ PutMember(p, u, m) \in Projections
         /\ PutMember(p, u, m).tomb = p.tomb
         /\ PutMember(p, u, m).dels = p.dels
         /\ \A v \in Users : v # u => PutMember(p, u, m).members[v] = p.members[v]
         /\ PutMember(p, u, m).members[u] \in {p.members[u], m}
         /\ TupleLE(p.members[u].last, PutMember(p, u, m).members[u].last)
         /\ TupleLE(m.last, PutMember(p, u, m).members[u].last)
  <1>1. p.members \in [Users -> Members] /\ p.members[u] \in Members
    BY DEF Projections, Tombstones, Deletions
  <1>2. p.members[u].last \in Tuples /\ m.last \in Tuples
    BY <1>1 DEF Members
  <1>3. CASE TupleLE(p.members[u].last, m.last)
    <2>1. PutMember(p, u, m) = [p EXCEPT !.members[u] = m]
      BY <1>3 DEF PutMember
    <2>2. [p EXCEPT !.members[u] = m] \in Projections
      BY <1>1 DEF Projections, Tombstones, Deletions
    <2>3. [p EXCEPT !.members[u] = m].members = [p.members EXCEPT ![u] = m]
      BY DEF Projections, Tombstones, Deletions
    <2> QED BY <1>1, <1>2, <1>3, <2>1, <2>2, <2>3, TupleReflexive DEF Projections, Tombstones, Deletions
  <1>4. CASE ~TupleLE(p.members[u].last, m.last)
    <2>1. PutMember(p, u, m) = p
      BY <1>4 DEF PutMember
    <2> QED BY <1>2, <1>4, <2>1, TupleReflexive, TupleTotal
  <1> QED BY <1>3, <1>4

\* put_tombstone keeps the newer of two tombstones and touches nothing else.
LEMMA PutTombstoneFacts ==
  ASSUME NEW p \in Projections, NEW t \in Tuples
  PROVE  /\ PutTombstone(p, t) \in Projections
         /\ PutTombstone(p, t).members = p.members
         /\ PutTombstone(p, t).dels = p.dels
         /\ TupleLE(p.tomb, PutTombstone(p, t).tomb)
         /\ TupleLE(t, PutTombstone(p, t).tomb)
  BY TupleReflexive, TupleTotal DEF PutTombstone, Projections, Tombstones, Deletions

-----------------------------------------------------------------------------
(* apply_canonical_event *)

IsMemberEvent(e) == e.kind \in {"put", "remove"}

\* What every application preserves and what it adds.
Applied(p, q, e, t) ==
  /\ q \in Projections
  /\ \A u \in Users :
       /\ TupleLE(p.members[u].last, q.members[u].last)
       /\ \/ q.members[u] = p.members[u]
          \/ IsMemberEvent(e) /\ e.user = u /\ q.members[u] = MemberOf(e, t)
  /\ TupleLE(p.tomb, q.tomb)
  /\ p.dels \subseteq q.dels
  /\ IsMemberEvent(e) => TupleLE(t, q.members[e.user].last)
  /\ e.kind = "delete_group" => TupleLE(t, q.tomb)
  /\ e.kind = "delete_event" => e.ref \in q.dels

\* A projection whose access state is kept satisfies the order conditions.
LEMMA AppliedSame ==
  ASSUME NEW p \in Projections, NEW q \in Projections,
         NEW e \in Events, NEW t \in Tuples,
         q.members = p.members, q.tomb = p.tomb, q.dels = p.dels,
         ~IsMemberEvent(e), e.kind \notin {"delete_group", "delete_event"}
  PROVE  Applied(p, q, e, t)
  <1>1. \A u \in Users : p.members[u].last \in Tuples
    BY DEF Projections, Tombstones, Deletions, Members
  <1>2. p.tomb \in Tuples
    BY DEF Projections, Tombstones, Deletions
  <1> QED BY <1>1, <1>2, TupleReflexive DEF Applied

\* Changing at most the group record does.
LEMMA AppliedGroup ==
  ASSUME NEW p \in Projections, NEW g \in Groups, NEW q,
         q = p \/ q = [p EXCEPT !.group = g],
         NEW e \in Events, NEW t \in Tuples,
         ~IsMemberEvent(e), e.kind \notin {"delete_group", "delete_event"}
  PROVE  Applied(p, q, e, t)
  <1>1. q \in Projections /\ q.members = p.members /\ q.tomb = p.tomb /\ q.dels = p.dels
    BY WithGroup
  <1> QED BY <1>1, AppliedSame

\* Whatever event is applied, to whatever projection.
LEMMA ApplyFacts ==
  ASSUME NEW p \in Projections, NEW e \in Events, NEW i \in Nat \ {0}
  PROVE  Applied(p, Apply(p, e, i), e, TupleOf(e, i))
  <1> DEFINE t == TupleOf(e, i)
  <1>1. /\ t \in Tuples
        /\ e.kind \in SourceKinds \cup SnapshotKinds
        /\ e.meta \in Metadata
        /\ e.ref \in Nat \X Nat
        /\ IsMemberEvent(e) => e.user \in Users
    BY TupleOfEvent DEF Events, IsMemberEvent
  <1>2. /\ p.group \in Groups /\ p.tomb \in Tuples
        /\ \A u \in Users : p.members[u] \in Members /\ p.members[u].last \in Tuples
    BY DEF Projections, Tombstones, Deletions, Members
  <1>3. CASE e.kind = "create"
    <2>1. Apply(p, e, i) = ApplyCreate(p, e, t)
      BY <1>3 DEF Apply
    <2>2. NewGroup(e.meta, t) \in Groups
      BY <1>1, <1>2, GroupTypes
    <2>3. \/ ApplyCreate(p, e, t) = p
          \/ ApplyCreate(p, e, t) = [p EXCEPT !.group = NewGroup(e.meta, t)]
      BY DEF ApplyCreate
    <2>4. ~IsMemberEvent(e) /\ e.kind \notin {"delete_group", "delete_event"}
      BY <1>3 DEF IsMemberEvent
    <2> HIDE DEF t
    <2>5. Applied(p, ApplyCreate(p, e, t), e, t)
      BY <1>1, <2>2, <2>3, <2>4, AppliedGroup
    <2> QED BY <2>1, <2>5 DEF t
  <1>4. CASE e.kind = "edit"
    <2>1. Apply(p, e, i) = ApplyEdit(p, e, t)
      BY <1>4 DEF Apply
    <2>2. UpdateMetadata(p.group, e.meta, t) \in Groups
      BY <1>1, <1>2, GroupTypes
    <2>3. \/ ApplyEdit(p, e, t) = p
          \/ ApplyEdit(p, e, t) = [p EXCEPT !.group = UpdateMetadata(p.group, e.meta, t)]
      BY DEF ApplyEdit
    <2>4. ~IsMemberEvent(e) /\ e.kind \notin {"delete_group", "delete_event"}
      BY <1>4 DEF IsMemberEvent
    <2> HIDE DEF t
    <2>5. Applied(p, ApplyEdit(p, e, t), e, t)
      BY <1>1, <2>2, <2>3, <2>4, AppliedGroup
    <2> QED BY <2>1, <2>5 DEF t
  <1>5. CASE e.kind = "metadata"
    <2>1. Apply(p, e, i) = ApplyMetadataSnapshot(p, e, t)
      BY <1>5 DEF Apply
    <2>2. NewGroup(e.meta, t) \in Groups /\ UpdateMetadata(p.group, e.meta, t) \in Groups
      BY <1>1, <1>2, GroupTypes
    <2>3. \/ ApplyMetadataSnapshot(p, e, t) = [p EXCEPT !.group = NewGroup(e.meta, t)]
          \/ ApplyMetadataSnapshot(p, e, t)
               = [p EXCEPT !.group = UpdateMetadata(p.group, e.meta, t)]
      BY DEF ApplyMetadataSnapshot
    <2>4. ~IsMemberEvent(e) /\ e.kind \notin {"delete_group", "delete_event"}
      BY <1>5 DEF IsMemberEvent
    <2> HIDE DEF t
    <2>5. Applied(p, ApplyMetadataSnapshot(p, e, t), e, t)
      BY <1>1, <2>2, <2>3, <2>4, AppliedGroup
    <2> QED BY <2>1, <2>5 DEF t
  <1>6. CASE IsMemberEvent(e)
    <2>1. Apply(p, e, i) = PutMember(p, e.user, MemberOf(e, t))
      BY <1>6 DEF Apply, ApplyMemberStatus, IsMemberEvent
    <2>2. MemberOf(e, t) \in Members /\ MemberOf(e, t).last = t
      BY <1>1, MemberOfType DEF MemberOf
    <2>3. e.user \in Users
      BY <1>1, <1>6
    <2> DEFINE q == PutMember(p, e.user, MemberOf(e, t))
    <2>4. /\ q \in Projections /\ q.tomb = p.tomb /\ q.dels = p.dels
          /\ \A v \in Users : v # e.user => q.members[v] = p.members[v]
          /\ q.members[e.user] \in {p.members[e.user], MemberOf(e, t)}
          /\ TupleLE(p.members[e.user].last, q.members[e.user].last)
          /\ TupleLE(t, q.members[e.user].last)
      BY <2>2, <2>3, PutMemberFacts
    <2> HIDE DEF q, t
    <2>5. \A u \in Users :
            /\ TupleLE(p.members[u].last, q.members[u].last)
            /\ \/ q.members[u] = p.members[u]
               \/ e.user = u /\ q.members[u] = MemberOf(e, t)
      BY <1>2, <2>4, TupleReflexive
    <2>6. TupleLE(p.tomb, q.tomb) /\ p.dels \subseteq q.dels
      BY <1>2, <2>4, TupleReflexive
    <2>7. Applied(p, q, e, t)
      BY <1>6, <2>4, <2>5, <2>6 DEF Applied, IsMemberEvent
    <2> QED BY <2>1, <2>7 DEF q, t
  <1>7. CASE e.kind = "delete_event"
    <2>1. Apply(p, e, i) = [p EXCEPT !.dels = p.dels \cup {e.ref}]
      BY <1>7 DEF Apply, ApplyDeleteEvent
    <2> DEFINE q == [p EXCEPT !.dels = p.dels \cup {e.ref}]
    <2>2. /\ q \in Projections /\ q.tomb = p.tomb /\ q.members = p.members
          /\ q.dels = p.dels \cup {e.ref}
      BY <1>1 DEF Projections, Tombstones, Deletions
    <2> HIDE DEF q, t
    <2>3. Applied(p, q, e, t)
      BY <1>2, <1>7, <2>2, TupleReflexive DEF Applied, IsMemberEvent
    <2> QED BY <2>1, <2>3 DEF q, t
  <1>8. CASE e.kind = "delete_group"
    <2> DEFINE r == IF p.group.life = "none" THEN p
                    ELSE [p EXCEPT !.group = MarkDeleted(p.group, t)]
    <2>1. Apply(p, e, i) = PutTombstone(r, t)
      BY <1>8 DEF Apply, ApplyDeleteGroup
    <2>2. MarkDeleted(p.group, t) \in Groups
      BY <1>1, <1>2, GroupTypes
    <2>3. r \in Projections /\ r.members = p.members /\ r.tomb = p.tomb /\ r.dels = p.dels
      BY <2>2, WithGroup
    <2> DEFINE q == PutTombstone(r, t)
    <2>4. /\ q \in Projections /\ q.members = p.members /\ q.dels = p.dels
          /\ TupleLE(p.tomb, q.tomb) /\ TupleLE(t, q.tomb)
      <3> HIDE DEF r, t
      <3> QED BY <1>1, <2>3, PutTombstoneFacts
    <2> HIDE DEF q, t
    <2>5. Applied(p, q, e, t)
      BY <1>2, <1>8, <2>4, TupleReflexive DEF Applied, IsMemberEvent
    <2> QED BY <2>1, <2>5 DEF q, t
  <1>9. CASE e.kind \notin {"create", "edit", "metadata", "put", "remove",
                            "delete_event", "delete_group"}
    <2>1. Apply(p, e, i) = p
      BY <1>9 DEF Apply
    <2> QED BY <1>1, <1>9, <2>1, AppliedSame DEF IsMemberEvent
  <1> QED BY <1>3, <1>4, <1>5, <1>6, <1>7, <1>8, <1>9 DEF IsMemberEvent

-----------------------------------------------------------------------------
(* Types of what the outbox is made of *)

\* The empty metadata are metadata.
LEMMA EmptyMetadataType == EmptyMetadata \in Metadata
  BY DEF EmptyMetadata, Metadata

\* A generated event is a payload.
LEMMA GeneratedType ==
  ASSUME NEW kind, NEW at \in Nat, NEW user, NEW meta, NEW users,
         [kind |-> kind, user |-> user, meta |-> meta, users |-> users] \in Contents
  PROVE  Generated(kind, at, user, meta, users) \in Payloads
  <1> DEFINE c == [kind |-> kind, user |-> user, meta |-> meta, users |-> users]
  <1>0. /\ kind \in GeneratedKinds /\ user \in Users \cup {Relay} /\ meta \in Metadata
        /\ users \in SUBSET Users /\ (kind \in {"put", "remove"} => user \in Users)
    BY EmptyMetadataType DEF Contents, GeneratedKinds, SnapshotKinds
  <1>1. c \in Contents
    OBVIOUS
  <1>2. GenId(c) \in Nat /\ GenId(c) \in GeneratedIds
    BY <1>1, GenIdType DEF GeneratedIds
  <1>3. kind \in SourceKinds \cup SnapshotKinds
    BY <1>0 DEF GeneratedKinds, SourceKinds, ModerationKinds, SnapshotKinds
  <1> HIDE DEF c
  <1>4. Generated(kind, at, user, meta, users)
          = [kind |-> kind, by |-> Relay, at |-> at, id |-> GenId(c), user |-> user,
             roles |-> {}, meta |-> meta, users |-> users, ref |-> NoRef]
    BY DEF Generated, c
  <1> QED BY <1>0, <1>2, <1>3, <1>4 DEF Payloads, Events, NoRef

\* An event of a client: not signed by the relay.
ClientEvents == {e \in Events : e.by \in Users}

\* A planned record has its type.
LEMMA RecType ==
  ASSUME NEW e \in Events, NEW f \in Effects, NEW x \in Payloads, NEW s \in Statuses
  PROVE  Rec(e, f, x, s) \in PlannedRecords
  BY DEF Rec, PlannedRecords, RecordKeys, Records, Events, Key

\* The effects by name.
LEMMA EffectNames ==
  Effects = {"metadata_snapshot", "admin_list_snapshot", "member_list_snapshot",
             "join_accepted", "leave_accepted"}
  BY DEF Effects, EffectOrder

\* plan_group_outbox_records plans records of the outbox.
LEMMA PlanType ==
  ASSUME NEW e \in ClientEvents, NEW p \in Projections, NEW before \in BOOLEAN
  PROVE  Plan(e, p, before) \in Seq(PlannedRecords)
  <1>1. /\ e \in Events /\ e.by \in Users /\ e.at \in Nat
        /\ e.kind \in SourceKinds \cup SnapshotKinds
    BY DEF ClientEvents, Events
  <1>2. p.group.meta \in Metadata
    BY DEF Projections, Tombstones, Deletions, Groups
  <1>3. Owners \cup Admins \cup {u \in Users : IsOverrideAdmin(p, u)} \in SUBSET Users
    BY PolicyAssumption
  <1>4. (IF OverCap(p) THEN {} ELSE CurrentMembers(p)) \in SUBSET Users
    BY DEF CurrentMembers
  <1>5. MetadataRecord(e, p) \in PlannedRecords
    <2>1. MetadataSnapshotPayload(p, e.at) \in Payloads
      BY <1>1, <1>2, GeneratedType DEF MetadataSnapshotPayload, Contents
    <2> QED BY <1>1, <2>1, RecType, EffectNames DEF MetadataRecord, Statuses
  <1>6. AdminListRecord(e, p) \in PlannedRecords
    <2>1. AdminListPayload(p, e.at) \in Payloads
      BY <1>1, <1>3, GeneratedType DEF AdminListPayload, Contents
    <2> QED BY <1>1, <2>1, RecType, EffectNames DEF AdminListRecord, Statuses
  <1>7. MemberListRecord(e, p) \in PlannedRecords
    <2>1. MemberListPayload(p, e.at) \in Payloads
      BY <1>1, <1>4, GeneratedType DEF MemberListPayload, Contents
    <2> QED BY <1>1, <2>1, RecType, EffectNames DEF MemberListRecord, Statuses
  <1>8. \A kind \in {"put", "remove"} : MembershipPayload(kind, e.by, e.at) \in Payloads
    BY <1>1, GeneratedType DEF MembershipPayload, Contents
  <1>9. /\ Rec(e, "join_accepted", MembershipPayload("put", e.by, e.at), "pending")
             \in PlannedRecords
        /\ Rec(e, "leave_accepted", MembershipPayload("remove", e.by, e.at), "pending")
             \in PlannedRecords
    BY <1>1, <1>8, RecType, EffectNames DEF Statuses
  <1>10. MemberSnapshotRecords(e, p, before) \in Seq(PlannedRecords)
    BY <1>6, <1>7 DEF MemberSnapshotRecords
  <1> QED BY <1>5, <1>6, <1>9, <1>10 DEF Plan

\* The outbox and its table are functions from record keys to records.
Tables == UNION {[K -> Records] : K \in SUBSET RecordKeys}

\* Tables in the terms of TypeOK.
LEMMA TablesMeaning ==
  ASSUME NEW o
  PROVE  o \in Tables <=> DOMAIN o \subseteq RecordKeys /\ o \in [DOMAIN o -> Records]
  BY DEF Tables

\* Update sets one record and keeps the others.
LEMMA UpdateFacts ==
  ASSUME NEW o \in Tables, NEW k \in RecordKeys, NEW r \in Records
  PROVE  /\ Update(o, k, r) \in Tables
         /\ DOMAIN Update(o, k, r) = DOMAIN o \cup {k}
         /\ Update(o, k, r)[k] = r
         /\ \A x \in DOMAIN o : x # k => Update(o, k, r)[x] = o[x]
  <1>1. DOMAIN o \in SUBSET RecordKeys /\ o \in [DOMAIN o -> Records]
    BY TablesMeaning
  <1>2. Update(o, k, r) \in [DOMAIN o \cup {k} -> Records]
    BY <1>1 DEF Update
  <1>3. DOMAIN o \cup {k} \in SUBSET RecordKeys
    BY <1>1
  <1>4. Update(o, k, r) \in Tables
    BY <1>2, <1>3 DEF Tables
  <1> QED BY <1>1, <1>4 DEF Update

\* Update makes a table of a table.
LEMMA UpdateType ==
  \A o \in Tables, k \in RecordKeys, r \in Records : Update(o, k, r) \in Tables
  BY UpdateFacts

\* The marks are statuses.
LEMMA StatusNames == "stored" \in Statuses /\ "failed" \in Statuses
  BY DEF Statuses

\* A mark changes the status of one record and nothing else.
LEMMA WithStatusType ==
  ASSUME NEW o \in Tables, NEW k \in DOMAIN o, NEW s \in Statuses
  PROVE  /\ k \in RecordKeys
         /\ [o[k] EXCEPT !.status = s] \in Records
         /\ [o[k] EXCEPT !.status = s].payload = o[k].payload
         /\ [o[k] EXCEPT !.status = s].status = s
         /\ WithStatus(o, k, s) \in Tables
         /\ DOMAIN WithStatus(o, k, s) = DOMAIN o
  <1>1. k \in RecordKeys /\ o[k] \in Records
    BY TablesMeaning
  <1>2. /\ [o[k] EXCEPT !.status = s] \in Records
        /\ [o[k] EXCEPT !.status = s].payload = o[k].payload
        /\ [o[k] EXCEPT !.status = s].status = s
    BY <1>1 DEF Records
  <1>3. WithStatus(o, k, s) = Update(o, k, [o[k] EXCEPT !.status = s])
    BY DEF WithStatus
  <1> HIDE DEF WithStatus
  <1> QED BY <1>1, <1>2, <1>3, UpdateFacts

-----------------------------------------------------------------------------
(* Rows *)

\* The rows of a projection are of four sorts.
LEMMA RowKeyFacts ==
  ASSUME NEW p \in Projections, NEW k \in RowKeys(p)
  PROVE  /\ k[1] \in {"group", "member", "tombstone", "deletion"}
         /\ k[1] = "member" => k[2] \in Users
         /\ k[1] = "deletion" => k[2] \in p.dels
  BY DEF RowKeys

\* WithRow sets one row to that of another projection.
LEMMA WithRowFacts ==
  ASSUME NEW r \in Projections, NEW p \in Projections,
         NEW q \in Projections, NEW k \in RowKeys(q)
  PROVE  /\ WithRow(r, p, k) \in Projections
         /\ \A u \in Users : WithRow(r, p, k).members[u] =
              IF k[1] = "member" /\ k[2] = u THEN p.members[u] ELSE r.members[u]
         /\ WithRow(r, p, k).tomb = IF k[1] = "tombstone" THEN p.tomb ELSE r.tomb
         /\ WithRow(r, p, k).dels =
              IF k[1] = "deletion" THEN r.dels \cup {k[2]} ELSE r.dels
  <1>0. /\ k[1] \in {"group", "member", "tombstone", "deletion"}
        /\ k[1] = "member" => k[2] \in Users
        /\ k[1] = "deletion" => k[2] \in Nat \X Nat
    BY RowKeyFacts DEF Projections, Tombstones, Deletions
  <1>1. CASE k[1] = "group"
    <2>1. WithRow(r, p, k) = [r EXCEPT !.group = p.group]
      BY <1>1 DEF WithRow
    <2> QED BY <1>1, <2>1 DEF Projections, Tombstones, Deletions
  <1>2. CASE k[1] = "member"
    <2>1. WithRow(r, p, k) = [r EXCEPT !.members = [r.members EXCEPT ![k[2]] = p.members[k[2]]]]
      BY <1>2 DEF WithRow
    <2>2. p.members[k[2]] \in Members /\ r.members \in [Users -> Members]
      BY <1>0, <1>2 DEF Projections, Tombstones, Deletions
    <2>3. [r.members EXCEPT ![k[2]] = p.members[k[2]]] \in [Users -> Members]
      BY <1>0, <1>2, <2>2
    <2> QED BY <1>0, <1>2, <2>1, <2>2, <2>3 DEF Projections, Tombstones, Deletions
  <1>3. CASE k[1] = "tombstone"
    <2>1. WithRow(r, p, k) = [r EXCEPT !.tomb = p.tomb]
      BY <1>3 DEF WithRow
    <2> QED BY <1>3, <2>1 DEF Projections, Tombstones, Deletions
  <1>4. CASE k[1] = "deletion"
    <2>1. WithRow(r, p, k) = [r EXCEPT !.dels = r.dels \cup {k[2]}]
      BY <1>4 DEF WithRow
    <2> QED BY <1>0, <1>4, <2>1 DEF Projections, Tombstones, Deletions
  <1> QED BY <1>0, <1>1, <1>2, <1>3, <1>4

\* Clearing a row leaves of it what an empty projection has.
LEMMA WithoutRowFacts ==
  ASSUME NEW r \in Projections, NEW k \in RowKeys(r)
  PROVE  /\ WithoutRow(r, k) \in Projections
         /\ \A u \in Users : WithoutRow(r, k).members[u] \in {NoMember, r.members[u]}
  <1>2. CASE k[1] = "deletion"
    <2>1. WithoutRow(r, k) = [r EXCEPT !.dels = r.dels \ {k[2]}]
      BY <1>2 DEF WithoutRow
    <2> QED BY <2>1 DEF Projections, Tombstones, Deletions
  <1>3. CASE k[1] # "deletion"
    <2>1. WithoutRow(r, k) = WithRow(r, EmptyProjection, k)
      BY <1>3 DEF WithoutRow
    <2>2. \A u \in Users : EmptyProjection.members[u] = NoMember
      BY DEF EmptyProjection
    <2>3. /\ WithRow(r, EmptyProjection, k) \in Projections
          /\ \A u \in Users : WithRow(r, EmptyProjection, k).members[u] =
               IF k[1] = "member" /\ k[2] = u THEN EmptyProjection.members[u]
               ELSE r.members[u]
      <3> HIDE DEF EmptyProjection, WithRow
      <3> QED BY EmptyProjectionType, WithRowFacts
    <2> QED BY <2>1, <2>2, <2>3
  <1> QED BY <1>2, <1>3

\* The group's row, and what else clearing a row leaves.
LEMMA RowGroup ==
  ASSUME NEW r \in Projections, NEW p \in Projections,
         NEW q \in Projections, NEW k \in RowKeys(q)
  PROVE  WithRow(r, p, k).group = IF k[1] = "group" THEN p.group ELSE r.group
  <1>0. k[1] \in {"group", "member", "tombstone", "deletion"}
    BY RowKeyFacts DEF Projections, Tombstones, Deletions
  <1>1. CASE k[1] = "group"
    <2>1. WithRow(r, p, k) = [r EXCEPT !.group = p.group]
      BY <1>1 DEF WithRow
    <2> QED BY <1>1, <2>1 DEF Projections
  <1>2. CASE k[1] = "member"
    <2>1. WithRow(r, p, k) = [r EXCEPT !.members = [r.members EXCEPT ![k[2]] = p.members[k[2]]]]
      BY <1>2 DEF WithRow
    <2> QED BY <1>2, <2>1 DEF Projections
  <1>3. CASE k[1] = "tombstone"
    <2>1. WithRow(r, p, k) = [r EXCEPT !.tomb = p.tomb]
      BY <1>3 DEF WithRow
    <2> QED BY <1>3, <2>1 DEF Projections
  <1>4. CASE k[1] = "deletion"
    <2>1. WithRow(r, p, k) = [r EXCEPT !.dels = r.dels \cup {k[2]}]
      BY <1>4 DEF WithRow
    <2> QED BY <1>4, <2>1 DEF Projections
  <1> QED BY <1>0, <1>1, <1>2, <1>3, <1>4

LEMMA WithoutRowParts ==
  ASSUME NEW r \in Projections, NEW k \in RowKeys(r)
  PROVE  /\ WithoutRow(r, k).group \in {NoGroup, r.group}
         /\ WithoutRow(r, k).tomb \in {NoTuple, r.tomb}
         /\ WithoutRow(r, k).dels \subseteq r.dels
  <1>1. CASE k[1] = "deletion"
    <2>1. WithoutRow(r, k) = [r EXCEPT !.dels = r.dels \ {k[2]}]
      BY <1>1 DEF WithoutRow
    <2> QED BY <2>1 DEF Projections
  <1>2. CASE k[1] # "deletion"
    <2>1. WithoutRow(r, k) = WithRow(r, EmptyProjection, k)
      BY <1>2 DEF WithoutRow
    <2>2. EmptyProjection.group = NoGroup /\ EmptyProjection.tomb = NoTuple
      BY DEF EmptyProjection
    <2>3. LET q == WithRow(r, EmptyProjection, k) IN
          /\ q.group = IF k[1] = "group" THEN EmptyProjection.group ELSE r.group
          /\ q.tomb = IF k[1] = "tombstone" THEN EmptyProjection.tomb ELSE r.tomb
          /\ q.dels = IF k[1] = "deletion" THEN r.dels \cup {k[2]} ELSE r.dels
      <3> HIDE DEF EmptyProjection, WithRow
      <3> QED BY EmptyProjectionType, WithRowFacts, RowGroup
    <2> QED BY <1>2, <2>1, <2>2, <2>3
  <1> QED BY <1>1, <1>2

-----------------------------------------------------------------------------
(* Type correctness *)

\* Rows are left to put only while rows are put, and a record that is being
\* marked is one of the outbox.
TypeInv ==
  /\ TypeOK
  /\ pc \notin {"records", "mark", "checkpoint"} => rowsLeft = {}
  /\ pc \in {"mark", "mark_failed"} => cur \in DOMAIN outbox

\* NoKey has the type of a record key.
LEMMA NoKeyType == NoKey \in RecordKeys
  BY EffectNames DEF NoKey, NoRef, RecordKeys

\* The empty table is a table.
LEMMA EmptyTable == <<>> \in Tables
  BY DEF Tables

\* The type invariant holds initially.
LEMMA InitTypeInv == Init => TypeInv
  <1> SUFFICES ASSUME Init PROVE TypeInv
    OBVIOUS
  <1>1. /\ log \in Seq(Events) /\ rows \in Projections /\ proj \in Projections
        /\ scratch \in Projections /\ todo \subseteq DOMAIN log
        /\ rowsLeft \subseteq RowKeys(proj) /\ recs \in Seq(PlannedRecords)
        /\ cur \in RecordKeys
    BY EmptyProjectionType, NoKeyType DEF Init
  <1>2. table \in Tables /\ outbox \in Tables
    BY EmptyTable DEF Init
  <1>3. /\ DOMAIN table \subseteq RecordKeys /\ table \in [DOMAIN table -> Records]
        /\ DOMAIN outbox \subseteq RecordKeys /\ outbox \in [DOMAIN outbox -> Records]
    BY <1>2, TablesMeaning
  <1>4. /\ ckpt = NoCheckpoint /\ pc \in Phases /\ opening \in BOOLEAN
        /\ src \in Nat \X Nat /\ acked \subseteq Nat \X Nat
        /\ errored \subseteq Nat \X Nat /\ missed \subseteq DOMAIN log
        /\ crashes \in 0..MaxCrashes /\ faults \in 0..MaxFaults
    <2>1. 0 \in 0..MaxCrashes /\ 0 \in 0..MaxFaults
      BY ServiceAssumption
    <2> QED BY <2>1 DEF Init, NoCheckpoint, Phases, NoRef
  <1>5. rowsLeft = {} /\ pc \notin {"mark", "mark_failed"}
    BY DEF Init
  <1> QED BY <1>1, <1>3, <1>4, <1>5 DEF TypeInv, TypeOK

\* The same in parts, as the steps change them.
StoreTyped ==
  /\ log \in Seq(Events) /\ rows \in Projections
  /\ ckpt \in (0..Len(log)) \cup {NoCheckpoint} /\ table \in Tables

MemoryTyped ==
  /\ proj \in Projections /\ outbox \in Tables
  /\ pc \in {"mark", "mark_failed"} => cur \in DOMAIN outbox

ControlTyped ==
  /\ pc \in Phases /\ opening \in BOOLEAN /\ src \in Nat \X Nat
  /\ todo \subseteq DOMAIN log /\ scratch \in Projections
  /\ rowsLeft \subseteq RowKeys(proj)
  /\ pc \notin {"records", "mark", "checkpoint"} => rowsLeft = {}
  /\ recs \in Seq(PlannedRecords) /\ cur \in RecordKeys

HistoryTyped ==
  /\ acked \subseteq Nat \X Nat /\ errored \subseteq Nat \X Nat
  /\ missed \subseteq DOMAIN log
  /\ crashes \in 0..MaxCrashes /\ faults \in 0..MaxFaults

\* The type invariant is the conjunction of its parts.
LEMMA TypeParts ==
  TypeInv <=> StoreTyped /\ MemoryTyped /\ ControlTyped /\ HistoryTyped
  BY TablesMeaning
     DEF TypeInv, TypeOK, StoreTyped, MemoryTyped, ControlTyped, HistoryTyped

\* NoRef has the type of an event key, and nothing planned that of a plan.
LEMMA NoRefType == NoRef \in Nat \X Nat /\ <<>> \in Seq(PlannedRecords)
  BY DEF NoRef

\* The parts after a step make up the type invariant after it.
LEMMA TypePartsNext ==
  StoreTyped' /\ MemoryTyped' /\ ControlTyped' /\ HistoryTyped' => TypeInv'
  BY TypeParts, PTL

\* The end of an operation or of the process leaves well-typed memory behind.
LEMMA GoDownType ==
  ASSUME GoDown PROVE MemoryTyped' /\ ControlTyped' /\ missed' = {}
  <1>1. proj' \in Projections /\ outbox' \in Tables /\ scratch' \in Projections
    BY EmptyProjectionType, EmptyTable DEF GoDown, ResetControl
  <1>2. cur' \in RecordKeys
    BY NoKeyType DEF GoDown, ResetControl
  <1>3. /\ pc' = "down" /\ opening' = FALSE /\ src' = NoRef /\ todo' = {}
        /\ rowsLeft' = {} /\ recs' = <<>>
    BY DEF GoDown, ResetControl
  <1>4. MemoryTyped'
    BY <1>1, <1>3 DEF MemoryTyped
  <1>5. ControlTyped'
    BY <1>1, <1>2, <1>3, NoRefType DEF ControlTyped, Phases
  <1>6. missed' = {}
    BY DEF GoDown
  <1> QED BY <1>4, <1>5, <1>6

\* So does the end of an operation with an error.
LEMMA ReturnErrorType ==
  ASSUME TypeInv, NEW o \in Tables, ReturnError(o)
  PROVE  /\ MemoryTyped' /\ ControlTyped'
         /\ errored' \subseteq Nat \X Nat /\ missed' \in {missed, {}}
  <1>0. errored \subseteq Nat \X Nat /\ src \in Nat \X Nat
    BY TypeParts DEF HistoryTyped, ControlTyped
  <1>1. CASE opening
    BY <1>0, <1>1, GoDownType DEF ReturnError
  <1>2. CASE ~opening
    <2>1. pc' = "idle" /\ outbox' = o /\ ResetControl /\ proj' = proj
      BY <1>2 DEF ReturnError
    <2>2. proj \in Projections
      BY TypeParts DEF MemoryTyped
    <2>3. /\ opening' = FALSE /\ src' = NoRef /\ todo' = {}
          /\ rowsLeft' = {} /\ recs' = <<>>
      BY <2>1 DEF ResetControl
    <2>4. scratch' \in Projections /\ cur' \in RecordKeys
      BY <2>1, NoKeyType, EmptyProjectionType DEF ResetControl
    <2>5. MemoryTyped'
      BY <2>1, <2>2 DEF MemoryTyped
    <2>6. ControlTyped'
      BY <2>1, <2>3, <2>4, NoRefType DEF ControlTyped, Phases
    <2>7. errored' \subseteq Nat \X Nat /\ missed' = missed
      BY <1>0, <1>2 DEF ReturnError
    <2> QED BY <2>5, <2>6, <2>7
  <1> QED BY <1>1, <1>2

\* Failed writes are bounded.
LEMMA FaultType ==
  ASSUME TypeInv, Fault PROVE faults' \in 0..MaxFaults
  BY ServiceAssumption DEF TypeInv, TypeOK, Fault

\* Appending an event to the log keeps every part that refers to it.
LEMMA AppendType ==
  ASSUME NEW l \in Seq(Events), NEW e \in Events
  PROVE  /\ Append(l, e) \in Seq(Events)
         /\ DOMAIN l = 1..Len(l) /\ Len(l) \in Nat
         /\ DOMAIN Append(l, e) = 1..(Len(l) + 1)
         /\ Append(l, e)[Len(l) + 1] = e
         /\ \A i \in DOMAIN l : i \in DOMAIN Append(l, e) /\ Append(l, e)[i] = l[i]
                                /\ l[i] \in Events /\ i \in Nat \ {0} /\ i <= Len(l)
  OBVIOUS

\* A client's event.
LEMMA SubmitType ==
  ASSUME TypeInv, NEW e \in ClientEvents, Submit(e)
  PROVE  TypeInv'
  <1>1. StoreTyped /\ MemoryTyped /\ ControlTyped /\ HistoryTyped
    BY TypeParts
  <1>2. e \in Events /\ Key(e) \in Nat \X Nat
    BY DEF ClientEvents, Events, Key
  <1>3. /\ log' \in Seq(Events) /\ DOMAIN log \subseteq DOMAIN log'
        /\ Len(log) <= Len(log') /\ Len(log) + 1 \in Nat \ {0}
    BY <1>1, <1>2, AppendType DEF Submit, StoreTyped
  <1>4. proj' \in Projections
    BY <1>1, <1>2, <1>3, ApplyFacts DEF Submit, MemoryTyped, Applied
  <1>5. recs' \in Seq(PlannedRecords)
    <2>1. WasOverrideAdmin(e, proj) \in BOOLEAN
      BY DEF WasOverrideAdmin, IsOverrideAdmin, IsMember
    <2> QED BY <1>4, <2>1, PlanType DEF Submit
  <1>6. StoreTyped'
    BY <1>1, <1>3 DEF Submit, StoreTyped
  <1>7. MemoryTyped'
    BY <1>1, <1>4 DEF Submit, MemoryTyped
  <1>8. ControlTyped'
    BY <1>1, <1>2, <1>3, <1>5 DEF Submit, ControlTyped, Phases
  <1>9. HistoryTyped'
    BY <1>1 DEF Submit, history, HistoryTyped
  <1> QED BY <1>6, <1>7, <1>8, <1>9, TypePartsNext

\* A client's event whose sync fails, and one that is sent again.
LEMMA SubmitFailsType ==
  ASSUME TypeInv, NEW e \in ClientEvents, SubmitFails(e)
  PROVE  TypeInv'
  <1>1. StoreTyped /\ MemoryTyped /\ ControlTyped /\ HistoryTyped
    BY TypeParts
  <1>2. e \in Events /\ Key(e) \in Nat \X Nat
    BY DEF ClientEvents, Events, Key
  <1>3. /\ log' \in Seq(Events) /\ DOMAIN log \subseteq DOMAIN log'
        /\ Len(log) <= Len(log') /\ Len(log) + 1 \in DOMAIN log'
    BY <1>1, <1>2, AppendType DEF SubmitFails, StoreTyped
  <1>4. faults' \in 0..MaxFaults
    BY FaultType DEF SubmitFails
  <1>5. StoreTyped'
    BY <1>1, <1>3 DEF SubmitFails, StoreTyped
  <1>6. MemoryTyped'
    BY <1>1 DEF SubmitFails, control, MemoryTyped
  <1>7. ControlTyped'
    BY <1>1, <1>3 DEF SubmitFails, control, ControlTyped
  <1>8. HistoryTyped'
    BY <1>1, <1>2, <1>3, <1>4 DEF SubmitFails, HistoryTyped
  <1> QED BY <1>5, <1>6, <1>7, <1>8, TypePartsNext

LEMMA DuplicateType ==
  ASSUME TypeInv, NEW e \in ClientEvents, Duplicate(e)
  PROVE  TypeInv'
  <1>1. StoreTyped /\ MemoryTyped /\ ControlTyped /\ HistoryTyped
    BY TypeParts
  <1>2. Key(e) \in Nat \X Nat
    BY DEF ClientEvents, Events, Key
  <1>3. StoreTyped' /\ MemoryTyped'
    BY <1>1 DEF Duplicate, store, control, StoreTyped, MemoryTyped
  <1>4. ControlTyped'
    BY <1>1 DEF Duplicate, store, control, ControlTyped
  <1>5. HistoryTyped'
    BY <1>1, <1>2 DEF Duplicate, store, HistoryTyped
  <1> QED BY <1>3, <1>4, <1>5, TypePartsNext

\* The steps of an operation: putting rows, merging records, materializing.
LEMMA ServeType == TypeInv /\ Serve => TypeInv'
  <1> SUFFICES ASSUME TypeInv, Serve PROVE TypeInv'
    OBVIOUS
  <1>0. StoreTyped /\ MemoryTyped /\ ControlTyped /\ HistoryTyped
    BY TypeParts
  <1>1. CASE PutRow
    <2> PICK k \in rowsLeft : rows' = WithRow(rows, proj, k) /\ rowsLeft' = rowsLeft \ {k}
      BY <1>1 DEF PutRow
    <2>1. rows' \in Projections
      BY <1>0, WithRowFacts DEF StoreTyped, MemoryTyped, ControlTyped
    <2>p. StoreTyped' /\ HistoryTyped'
      BY <1>0, <1>1, <2>1 DEF PutRow, StoreTyped, history, HistoryTyped
    <2>q. MemoryTyped'
      BY <1>0, <1>1, <2>1 DEF PutRow, MemoryTyped
    <2>r. ControlTyped'
      BY <1>0, <1>1, <2>1 DEF PutRow, ControlTyped
    <2> QED BY <2>p, <2>q, <2>r, TypePartsNext
  <1>2. CASE MergeRecord
    <2>1. Head(recs) \in PlannedRecords /\ recs' \in Seq(PlannedRecords)
      BY <1>0, <1>2 DEF MergeRecord, ControlTyped
    <2>2. outbox' \in Tables /\ table' \in Tables
      <3>1. Head(recs).key \in RecordKeys /\ Head(recs).rec \in Records
        BY <2>1 DEF PlannedRecords
      <3>2. outbox \in Tables /\ table \in Tables
        BY <1>0 DEF StoreTyped, MemoryTyped
      <3>3. \/ outbox' = outbox /\ table' = table
            \/ /\ outbox' = Update(outbox, Head(recs).key, Head(recs).rec)
               /\ table' = Update(table, Head(recs).key, Head(recs).rec)
        BY <1>2 DEF MergeRecord
      <3> QED BY <3>1, <3>2, <3>3, UpdateType
    <2>p. StoreTyped' /\ HistoryTyped'
      BY <1>0, <1>2, <2>1, <2>2 DEF MergeRecord, StoreTyped, history, HistoryTyped
    <2>q. MemoryTyped'
      BY <1>0, <1>2, <2>1, <2>2 DEF MergeRecord, MemoryTyped
    <2>r. ControlTyped'
      BY <1>0, <1>2, <2>1, <2>2 DEF MergeRecord, ControlTyped
    <2> QED BY <2>p, <2>q, <2>r, TypePartsNext
  <1>3. CASE MergeRecordClashes
    <2>1. StoreTyped'
      BY <1>0, <1>3 DEF MergeRecordClashes, store, StoreTyped
    <2>2. /\ MemoryTyped' /\ ControlTyped'
          /\ errored' \subseteq Nat \X Nat /\ missed' \in {missed, {}}
      <3>1. CASE opening
        <4>1. /\ pc' = "broken" /\ UNCHANGED <<proj, outbox, control, errored, missed>>
              /\ pc = "records" /\ rowsLeft = {} /\ UNCHANGED log
          BY <1>3, <3>1 DEF MergeRecordClashes, store
        <4>2. MemoryTyped'
          BY <1>0, <4>1 DEF MemoryTyped
        <4>3. ControlTyped'
          BY <1>0, <4>1 DEF control, ControlTyped, Phases
        <4>4. errored' \subseteq Nat \X Nat /\ missed' = missed
          BY <1>0, <4>1 DEF HistoryTyped
        <4> QED BY <4>2, <4>3, <4>4
      <3>2. CASE ~opening
        <4>1. ReturnError(outbox) /\ outbox \in Tables
          BY <1>0, <1>3, <3>2 DEF MergeRecordClashes, MemoryTyped
        <4> QED BY <4>1, ReturnErrorType
      <3> QED BY <3>1, <3>2
    <2>3. HistoryTyped'
      BY <1>0, <1>3, <2>2 DEF MergeRecordClashes, store, HistoryTyped
    <2> QED BY <2>1, <2>2, <2>3, TypePartsNext
  <1>4. CASE RecordsMerged
    <2>p. StoreTyped' /\ HistoryTyped'
      BY <1>0, <1>4 DEF RecordsMerged, store, control, StoreTyped, history, HistoryTyped
    <2>q. MemoryTyped'
      BY <1>0, <1>4 DEF RecordsMerged, store, control, MemoryTyped
    <2>r. ControlTyped'
      BY <1>0, <1>4 DEF RecordsMerged, store, control, ControlTyped, Phases
    <2> QED BY <2>p, <2>q, <2>r, TypePartsNext
  <1>5. CASE StoreGenerated
    <2> PICK k \in DOMAIN outbox :
          /\ cur' = k
          /\ IF AlreadyStored(outbox[k].payload)
             THEN UNCHANGED <<log, proj, rowsLeft>>
             ELSE /\ log' = Append(log, outbox[k].payload)
                  /\ proj' = Apply(proj, outbox[k].payload, Len(log) + 1)
                  /\ rowsLeft' = RowKeys(proj')
      BY <1>5 DEF StoreGenerated
    <2>1. k \in RecordKeys /\ outbox[k].payload \in Events
      BY <1>0, TablesMeaning DEF MemoryTyped, Records, Payloads
    <2>2. Len(log) + 1 \in Nat \ {0}
      BY <1>0, <2>1, AppendType DEF StoreTyped
    <2>3. log' \in Seq(Events) /\ DOMAIN log \subseteq DOMAIN log' /\ Len(log) <= Len(log')
      BY <1>0, <2>1, AppendType DEF StoreTyped
    <2>4. proj' \in Projections
      BY <1>0, <2>1, <2>2, ApplyFacts DEF MemoryTyped, Applied
    <2>5. rowsLeft' \subseteq RowKeys(proj')
      BY <1>0 DEF ControlTyped
    <2>p. StoreTyped' /\ HistoryTyped'
      BY <1>0, <1>5, <2>1, <2>3, <2>4, <2>5 DEF StoreGenerated, StoreTyped, history, HistoryTyped
    <2>q. MemoryTyped'
      BY <1>0, <1>5, <2>1, <2>3, <2>4, <2>5 DEF StoreGenerated, MemoryTyped
    <2>r. ControlTyped'
      BY <1>0, <1>5, <2>1, <2>3, <2>4, <2>5 DEF StoreGenerated, ControlTyped, Phases
    <2> QED BY <2>p, <2>q, <2>r, TypePartsNext
  <1>6. CASE MarkStored
    <2>1. cur \in DOMAIN outbox /\ cur \in RecordKeys
      BY <1>0, <1>6 DEF MarkStored, MemoryTyped, ControlTyped
    <2>2. outbox' \in Tables /\ cur \in DOMAIN outbox'
      <3>1. outbox' = WithStatus(outbox, cur, "stored") /\ outbox \in Tables
        BY <1>0, <1>6 DEF MarkStored, MemoryTyped
      <3>2. /\ WithStatus(outbox, cur, "stored") \in Tables
              /\ DOMAIN WithStatus(outbox, cur, "stored") = DOMAIN outbox
          BY <2>1, <3>1, StatusNames, WithStatusType
      <3> QED BY <2>1, <3>1, <3>2
    <2>3. outbox'[cur] \in Records
      BY <2>2, TablesMeaning
    <2>4. table' \in Tables
      BY <1>0, <1>6, <2>1, <2>3, UpdateFacts DEF MarkStored, StoreTyped
    <2>p. StoreTyped' /\ HistoryTyped'
      BY <1>0, <1>6, <2>2, <2>4, NoKeyType DEF MarkStored, StoreTyped, history, HistoryTyped
    <2>q. MemoryTyped'
      BY <1>0, <1>6, <2>2, <2>4, NoKeyType DEF MarkStored, MemoryTyped
    <2>r. ControlTyped'
      BY <1>0, <1>6, <2>2, <2>4, NoKeyType DEF MarkStored, ControlTyped, Phases
    <2> QED BY <2>p, <2>q, <2>r, TypePartsNext
  <1>7. CASE MarkFailed
    <2> DEFINE o == WithStatus(outbox, cur, "failed")
    <2>1. cur \in DOMAIN outbox /\ cur \in RecordKeys
      BY <1>0, <1>7 DEF MarkFailed, MemoryTyped, ControlTyped
    <2>2. o \in Tables /\ cur \in DOMAIN o
      <3>1. outbox \in Tables
        BY <1>0 DEF MemoryTyped
      <3> QED BY <2>1, <3>1, StatusNames, WithStatusType
    <2>3. o[cur] \in Records
      BY <2>2, TablesMeaning
    <2>4. table' \in {table, Update(table, cur, o[cur])} /\ faults' \in 0..MaxFaults
      BY <1>0, <1>7, FaultType DEF MarkFailed, history, HistoryTyped
    <2>5. table' \in Tables
      <3>1. table \in Tables
        BY <1>0 DEF StoreTyped
      <3> HIDE DEF o
      <3> QED BY <2>1, <2>3, <2>4, <3>1, UpdateType
    <2>6. ReturnError(o)
      BY <1>7 DEF MarkFailed
    <2>7. /\ MemoryTyped' /\ ControlTyped'
          /\ errored' \subseteq Nat \X Nat /\ missed' \in {missed, {}}
      <3> HIDE DEF o
      <3> QED BY <2>2, <2>6, ReturnErrorType
    <2>8. StoreTyped'
      BY <1>0, <1>7, <2>5 DEF MarkFailed, StoreTyped
    <2>9. HistoryTyped'
      BY <1>0, <1>7, <2>4, <2>7 DEF MarkFailed, HistoryTyped
    <2> QED BY <2>7, <2>8, <2>9, TypePartsNext
  <1>8. CASE Finish
    <2>1. StoreTyped' /\ HistoryTyped'
      BY <1>0, <1>8 DEF Finish, store, StoreTyped, history, HistoryTyped, ControlTyped
    <2>2. /\ pc' = "idle" /\ opening' = FALSE /\ src' = NoRef /\ todo' = {}
          /\ rowsLeft' = {} /\ recs' = <<>> /\ cur' = NoKey
          /\ scratch' = EmptyProjection /\ proj' = proj /\ outbox' = outbox
      BY <1>8 DEF Finish, ResetControl
    <2>3. MemoryTyped'
      BY <1>0, <2>2 DEF MemoryTyped
    <2>4. ControlTyped'
      BY <2>2, NoRefType, NoKeyType, EmptyProjectionType DEF ControlTyped, Phases
    <2> QED BY <2>1, <2>3, <2>4, TypePartsNext
  <1> QED BY <1>1, <1>2, <1>3, <1>4, <1>5, <1>6, <1>7, <1>8 DEF Serve

\* The steps of an opening: loading, replaying, rewriting the table, deriving.
LEMMA RecoverType == TypeInv /\ Recover => TypeInv'
  <1> SUFFICES ASSUME TypeInv, Recover PROVE TypeInv'
    OBVIOUS
  <1>0. StoreTyped /\ MemoryTyped /\ ControlTyped /\ HistoryTyped
    BY TypeParts
  <1>e. \A i \in DOMAIN log : log[i] \in Events /\ i \in Nat \ {0}
    BY <1>0 DEF StoreTyped
  <1>1. CASE Open
    <2>1. /\ proj' \in {EmptyProjection, rows} /\ outbox' = table
          /\ rowsLeft' = rowsLeft /\ recs' = recs /\ cur' = cur /\ src' = src
          /\ opening' = TRUE /\ scratch' \in {EmptyProjection, scratch}
          /\ log' = log /\ todo' \subseteq DOMAIN log /\ pc' \in {"derive", "replay"}
      BY <1>1 DEF Open, RequiresRebuild, StartDeriving, store
    <2>2. proj' \in Projections /\ scratch' \in Projections
      BY <1>0, <2>1, EmptyProjectionType DEF StoreTyped, ControlTyped
    <2>3. rowsLeft = {}
      BY <1>0, <1>1 DEF Open, RequiresRebuild, ControlTyped
    <2>7. StoreTyped' /\ HistoryTyped'
      BY <1>0, <1>1 DEF Open, RequiresRebuild, store, StoreTyped, history, HistoryTyped
    <2>8. MemoryTyped'
      BY <1>0, <2>1, <2>2 DEF StoreTyped, MemoryTyped
    <2>9. ControlTyped'
      BY <1>0, <2>1, <2>2, <2>3 DEF ControlTyped, Phases
    <2> QED BY <2>7, <2>8, <2>9, TypePartsNext
  <1>2. CASE ReplayEvent
    <2> PICK i \in todo : proj' = Apply(proj, log[i], i) /\ todo' = todo \ {i}
      BY <1>2 DEF ReplayEvent
    <2>1. proj' \in Projections
      <3>1. log[i] \in Events /\ i \in Nat \ {0} /\ proj \in Projections
        BY <1>0, <1>e DEF MemoryTyped, ControlTyped
      <3> QED BY <3>1, ApplyFacts DEF Applied
    <2>2. rowsLeft = {} /\ rowsLeft' = {} /\ pc' = pc /\ pc = "replay"
      BY <1>0, <1>2 DEF ReplayEvent, ControlTyped
    <2>7. StoreTyped' /\ HistoryTyped'
      BY <1>0, <1>2, <2>1, <2>2 DEF ReplayEvent, store, StoreTyped, history, HistoryTyped
    <2>8. MemoryTyped'
      BY <1>0, <1>2, <2>1, <2>2 DEF ReplayEvent, store, MemoryTyped
    <2>9. ControlTyped'
      BY <1>0, <1>2, <2>1, <2>2 DEF ReplayEvent, store, ControlTyped, Phases
    <2> QED BY <2>7, <2>8, <2>9, TypePartsNext
  <1>3. CASE StartClearing
    <2>7. StoreTyped' /\ HistoryTyped'
      BY <1>0, <1>3 DEF StartClearing, store, control, StoreTyped, history, HistoryTyped
    <2>8. MemoryTyped'
      BY <1>0, <1>3 DEF StartClearing, store, control, MemoryTyped
    <2>9. ControlTyped'
      BY <1>0, <1>3 DEF StartClearing, store, control, ControlTyped, Phases
    <2> QED BY <2>7, <2>8, <2>9, TypePartsNext
  <1>4. CASE ClearRow
    <2>1. rows' \in Projections
      BY <1>0, <1>4, WithoutRowFacts DEF ClearRow, StoreTyped
    <2>7. StoreTyped' /\ HistoryTyped'
      BY <1>0, <1>4, <2>1 DEF ClearRow, control, StoreTyped, history, HistoryTyped
    <2>8. MemoryTyped'
      BY <1>0, <1>4, <2>1 DEF ClearRow, control, MemoryTyped
    <2>9. ControlTyped'
      BY <1>0, <1>4, <2>1 DEF ClearRow, control, ControlTyped, Phases
    <2> QED BY <2>7, <2>8, <2>9, TypePartsNext
  <1>5. CASE TableCleared
    <2>7. StoreTyped' /\ HistoryTyped'
      BY <1>0, <1>5 DEF TableCleared, store, StoreTyped, history, HistoryTyped
    <2>8. MemoryTyped'
      BY <1>0, <1>5 DEF TableCleared, store, MemoryTyped
    <2>9. ControlTyped'
      BY <1>0, <1>5 DEF TableCleared, store, ControlTyped, Phases
    <2> QED BY <2>7, <2>8, <2>9, TypePartsNext
  <1>6. CASE PutCheckpoint
    <2>1. Len(log) \in Nat
      BY <1>0 DEF StoreTyped
    <2>2. rowsLeft = {} /\ rowsLeft' = {}
      BY <1>6 DEF PutCheckpoint
    <2>7. StoreTyped' /\ HistoryTyped'
      BY <1>0, <1>6, <2>1, <2>2, EmptyProjectionType DEF PutCheckpoint, StartDeriving, StoreTyped, history, HistoryTyped
    <2>8. MemoryTyped'
      BY <1>0, <1>6, <2>1, <2>2, EmptyProjectionType DEF PutCheckpoint, StartDeriving, MemoryTyped
    <2>9. ControlTyped'
      BY <1>0, <1>6, <2>1, <2>2, EmptyProjectionType DEF PutCheckpoint, StartDeriving, ControlTyped, Phases
    <2> QED BY <2>7, <2>8, <2>9, TypePartsNext
  <1>7. CASE DeriveEvent
    <2> PICK i \in todo :
          /\ scratch' = Apply(scratch, log[i], i)
          /\ todo' = todo \ {i}
          /\ \/ UNCHANGED <<pc, recs>>
             \/ pc' = "broken" /\ UNCHANGED recs
             \/ /\ log[i].by # Relay /\ pc' = "records"
                /\ recs' = Plan(log[i], scratch', WasOverrideAdmin(log[i], scratch))
      BY <1>7 DEF DeriveEvent
    <2>1. log[i] \in Events /\ i \in Nat \ {0} /\ scratch \in Projections
      BY <1>0, <1>e DEF ControlTyped
    <2>2. scratch' \in Projections
      BY <2>1, ApplyFacts DEF Applied
    <2>3. WasOverrideAdmin(log[i], scratch) \in BOOLEAN
      BY DEF WasOverrideAdmin, IsOverrideAdmin, IsMember
    <2>4. log[i].by # Relay => log[i] \in ClientEvents
      BY <2>1 DEF Events, ClientEvents
    <2>5. recs' \in Seq(PlannedRecords)
      BY <1>0, <2>2, <2>3, <2>4, PlanType DEF ControlTyped
    <2>6. rowsLeft = {} /\ rowsLeft' = {} /\ pc' \in {"derive", "broken", "records"}
      BY <1>0, <1>7 DEF DeriveEvent, ControlTyped
    <2>7. StoreTyped' /\ HistoryTyped'
      BY <1>0, <1>7, <2>2, <2>5, <2>6 DEF DeriveEvent, store, StoreTyped, history, HistoryTyped
    <2>8. MemoryTyped'
      BY <1>0, <1>7, <2>2, <2>5, <2>6 DEF DeriveEvent, store, MemoryTyped
    <2>9. ControlTyped'
      BY <1>0, <1>7, <2>2, <2>5, <2>6 DEF DeriveEvent, store, ControlTyped, Phases
    <2> QED BY <2>7, <2>8, <2>9, TypePartsNext
  <1>8. CASE RecordsDerived
    <2>7. StoreTyped' /\ HistoryTyped'
      BY <1>0, <1>8, EmptyProjectionType DEF RecordsDerived, store, StoreTyped, history, HistoryTyped
    <2>8. MemoryTyped'
      BY <1>0, <1>8, EmptyProjectionType DEF RecordsDerived, store, MemoryTyped
    <2>9. ControlTyped'
      BY <1>0, <1>8, EmptyProjectionType DEF RecordsDerived, store, ControlTyped, Phases
    <2> QED BY <2>7, <2>8, <2>9, TypePartsNext
  <1> QED BY <1>1, <1>2, <1>3, <1>4, <1>5, <1>6, <1>7, <1>8 DEF Recover

\* Failed writes.
LEMMA FailType == TypeInv /\ Fail => TypeInv'
  <1> SUFFICES ASSUME TypeInv, Fail PROVE TypeInv'
    OBVIOUS
  <1>0. /\ StoreTyped /\ MemoryTyped /\ ControlTyped /\ HistoryTyped
        /\ outbox \in Tables
    BY TypeParts DEF MemoryTyped
  <1>f. Fault => faults' \in 0..MaxFaults
    BY FaultType
  <1>1. CASE PutRowFails
    <2>1. rows' \in Projections
      <3>1. rows' = rows \/ \E k \in rowsLeft : rows' = WithRow(rows, proj, k)
        BY <1>1 DEF PutRowFails
      <3>2. \A k \in rowsLeft : WithRow(rows, proj, k) \in Projections
        BY <1>0, WithRowFacts DEF StoreTyped, MemoryTyped, ControlTyped
      <3> QED BY <1>0, <3>1, <3>2 DEF StoreTyped
    <2>2. StoreTyped'
      BY <1>0, <1>1, <2>1 DEF PutRowFails, StoreTyped
    <2>3. /\ MemoryTyped' /\ ControlTyped'
          /\ errored' \subseteq Nat \X Nat /\ missed' \in {missed, {}}
      <3>1. CASE pc # "mark"
        <4>1. ReturnError(outbox)
          BY <1>1, <3>1 DEF PutRowFails
        <4> QED BY <1>0, <4>1, ReturnErrorType
      <3>2. CASE pc = "mark"
        <4>1. /\ pc' = "mark_failed" /\ rowsLeft' = {} /\ UNCHANGED log
              /\ UNCHANGED <<proj, outbox, opening, src, todo, scratch, recs, cur,
                             errored, missed>>
          BY <1>1, <3>2 DEF PutRowFails
        <4>2. MemoryTyped'
          BY <1>0, <3>2, <4>1 DEF MemoryTyped
        <4>3. ControlTyped'
          BY <1>0, <4>1 DEF ControlTyped, Phases
        <4> QED BY <1>0, <4>1, <4>2, <4>3 DEF HistoryTyped
      <3> QED BY <3>1, <3>2
    <2>4. HistoryTyped'
      BY <1>0, <1>f, <1>1, <2>3 DEF PutRowFails, HistoryTyped
    <2> QED BY <2>2, <2>3, <2>4, TypePartsNext
  <1>2. CASE MergeRecordFails
    <2> DEFINE o == Update(outbox, Head(recs).key, Head(recs).rec)
    <2>1. Head(recs).key \in RecordKeys /\ Head(recs).rec \in Records
      <3>1. Head(recs) \in PlannedRecords
        BY <1>0, <1>2 DEF MergeRecordFails, ControlTyped
      <3> QED BY <3>1 DEF PlannedRecords
    <2>2. o \in Tables
      BY <1>0, <2>1, UpdateType
    <2>3. ReturnError(o)
      BY <1>2 DEF MergeRecordFails
    <2>4. /\ MemoryTyped' /\ ControlTyped'
          /\ errored' \subseteq Nat \X Nat /\ missed' \in {missed, {}}
      <3> HIDE DEF o
      <3> QED BY <2>2, <2>3, ReturnErrorType
    <2>5. table' \in Tables
      <3>1. table' \in {table, Update(table, Head(recs).key, Head(recs).rec)}
        BY <1>2 DEF MergeRecordFails
      <3>2. table \in Tables
        BY <1>0 DEF StoreTyped
      <3> QED BY <2>1, <3>1, <3>2, UpdateType
    <2>6. StoreTyped'
      BY <1>0, <1>2, <2>5 DEF MergeRecordFails, StoreTyped
    <2>7. HistoryTyped'
      BY <1>0, <1>f, <1>2, <2>4 DEF MergeRecordFails, HistoryTyped
    <2> QED BY <2>4, <2>6, <2>7, TypePartsNext
  <1>3. CASE StoreGeneratedFails
    <2> PICK k \in DOMAIN outbox :
          /\ cur' = k
          /\ \/ UNCHANGED <<log, missed>>
             \/ /\ log' = Append(log, outbox[k].payload)
                /\ missed' = missed \cup {Len(log) + 1}
      BY <1>3 DEF StoreGeneratedFails
    <2>1. k \in RecordKeys /\ outbox[k].payload \in Events
      BY <1>0, TablesMeaning DEF Records, Payloads
    <2>2. /\ log' \in Seq(Events) /\ DOMAIN log \subseteq DOMAIN log'
          /\ Len(log) <= Len(log') /\ missed' \subseteq DOMAIN log'
      <3>1. CASE UNCHANGED <<log, missed>>
        BY <1>0, <3>1 DEF StoreTyped, HistoryTyped
      <3>2. CASE log' = Append(log, outbox[k].payload) /\ missed' = missed \cup {Len(log) + 1}
        BY <1>0, <2>1, <3>2, AppendType DEF StoreTyped, HistoryTyped
      <3> QED BY <3>1, <3>2
    <2>3. StoreTyped'
      BY <1>0, <1>3, <2>2 DEF StoreGeneratedFails, StoreTyped
    <2>4. MemoryTyped'
      BY <1>0, <1>3 DEF StoreGeneratedFails, MemoryTyped
    <2>5. ControlTyped'
      BY <1>0, <1>3, <2>1, <2>2 DEF StoreGeneratedFails, ControlTyped, Phases
    <2>6. HistoryTyped'
      BY <1>0, <1>f, <1>3, <2>2 DEF StoreGeneratedFails, HistoryTyped
    <2> QED BY <2>3, <2>4, <2>5, <2>6, TypePartsNext
  <1>4. CASE MarkStoredFails
    <2> DEFINE o == WithStatus(outbox, cur, "stored")
    <2>1. cur \in DOMAIN outbox /\ cur \in RecordKeys
      BY <1>0, <1>4 DEF MarkStoredFails, MemoryTyped, ControlTyped
    <2>2. o \in Tables /\ cur \in DOMAIN o
      BY <1>0, <2>1, StatusNames, WithStatusType
    <2>3. o[cur] \in Records
      BY <2>2, TablesMeaning
    <2>4. ReturnError(o) /\ table' \in {table, Update(table, cur, o[cur])}
      BY <1>4 DEF MarkStoredFails
    <2> HIDE DEF o
    <2>5. /\ MemoryTyped' /\ ControlTyped'
          /\ errored' \subseteq Nat \X Nat /\ missed' \in {missed, {}}
      BY <2>2, <2>4, ReturnErrorType
    <2>6. table' \in Tables
      <3>1. table \in Tables
        BY <1>0 DEF StoreTyped
      <3> QED BY <2>1, <2>3, <2>4, <3>1, UpdateType
    <2>7. StoreTyped'
      BY <1>0, <1>4, <2>6 DEF MarkStoredFails, StoreTyped
    <2>8. HistoryTyped'
      BY <1>0, <1>f, <1>4, <2>5 DEF MarkStoredFails, HistoryTyped
    <2> QED BY <2>5, <2>7, <2>8, TypePartsNext
  <1>5. CASE RewriteFails
    <2>1. rows' \in Projections
      <3>1. rows' = rows \/ \E k \in RowKeys(rows) : rows' = WithoutRow(rows, k)
        BY <1>5 DEF RewriteFails
      <3> QED BY <1>0, <3>1, WithoutRowFacts DEF StoreTyped
    <2>2. ckpt' \in {ckpt, Len(log)} /\ Len(log) \in Nat
      BY <1>0, <1>5 DEF RewriteFails, StoreTyped
    <2>3. StoreTyped'
      BY <1>0, <1>5, <2>1, <2>2 DEF RewriteFails, StoreTyped
    <2>4. MemoryTyped' /\ ControlTyped' /\ missed' = {}
      BY <1>5, GoDownType DEF RewriteFails
    <2>5. HistoryTyped'
      BY <1>0, <1>f, <1>5, <2>4 DEF RewriteFails, HistoryTyped
    <2> QED BY <2>3, <2>4, <2>5, TypePartsNext
  <1> QED BY <1>1, <1>2, <1>3, <1>4, <1>5 DEF Fail

\* A client's event, as Clients enumerates them, is an event of a client.
LEMMA ClientsSubmit ==
  ASSUME TypeInv, Clients
  PROVE  \E e \in ClientEvents :
           /\ e.id \in SourceIds /\ e.kind \in SourceKinds
           /\ e.kind \notin {"put", "remove"} => e.user = e.by
           /\ Submit(e) \/ SubmitFails(e) \/ Duplicate(e)
  <1> DEFINE Sent(e) == Submit(e) \/ SubmitFails(e) \/ Duplicate(e)
  <1> PICK kind \in Kinds, by \in Users, at \in Times, id \in SourceIds :
         \E user \in IF kind \in {"put", "remove"} THEN Users ELSE {by},
            roles \in IF kind = "put" THEN SUBSET Roles ELSE {{}},
            meta \in IF kind \in {"create", "edit"} THEN Metas ELSE {EmptyMetadata},
            ref \in IF kind = "delete_event" THEN StoredKeys ELSE {NoRef} :
           Sent([kind |-> kind, by |-> by, at |-> at, id |-> id, user |-> user,
                   roles |-> roles, meta |-> meta, users |-> {}, ref |-> ref])
    BY DEF Clients
  <1> PICK user \in IF kind \in {"put", "remove"} THEN Users ELSE {by},
            roles \in IF kind = "put" THEN SUBSET Roles ELSE {{}},
            meta \in IF kind \in {"create", "edit"} THEN Metas ELSE {EmptyMetadata},
            ref \in IF kind = "delete_event" THEN StoredKeys ELSE {NoRef} :
         Sent([kind |-> kind, by |-> by, at |-> at, id |-> id, user |-> user,
                   roles |-> roles, meta |-> meta, users |-> {}, ref |-> ref])
    OBVIOUS
  <1> HIDE DEF Sent
  <1>1. kind \in SourceKinds /\ at \in Nat /\ id \in Nat
    BY ServiceAssumption, ProjectionAssumption
  <1>2. user \in Users /\ roles \in SUBSET Roles
    OBVIOUS
  <1>3. meta \in Metadata
    BY ProjectionAssumption, EmptyMetadataType
  <1>4. StoredKeys \subseteq Nat \X Nat
    <2>1. \A i \in DOMAIN log : log[i] \in Events
      BY DEF TypeInv, TypeOK
    <2>2. \A i \in DOMAIN log : Key(log[i]) \in Nat \X Nat
      BY <2>1 DEF Key, Events
    <2> QED BY <2>2 DEF StoredKeys
  <1>5. ref \in Nat \X Nat
    BY <1>4, NoRefType
  <1> DEFINE e == [kind |-> kind, by |-> by, at |-> at, id |-> id, user |-> user,
                   roles |-> roles, meta |-> meta, users |-> {}, ref |-> ref]
  <1>6. e \in ClientEvents /\ e.id \in SourceIds /\ e.kind \in SourceKinds
    BY <1>1, <1>2, <1>3, <1>5 DEF ClientEvents, Events
  <1>7. e.kind \notin {"put", "remove"} => e.user = e.by
    OBVIOUS
  <1> HIDE DEF e
  <1>8. Sent(e)
    BY DEF e
  <1> QED BY <1>6, <1>7, <1>8 DEF Sent

\* The environment.
LEMMA EnvironmentType ==
  TypeInv /\ (Crash \/ Shutdown \/ Upgrade) => TypeInv'
  <1> SUFFICES ASSUME TypeInv, Crash \/ Shutdown \/ Upgrade PROVE TypeInv'
    OBVIOUS
  <1>0. StoreTyped /\ MemoryTyped /\ ControlTyped /\ HistoryTyped
    BY TypeParts
  <1>1. CASE Crash
    <2>1. StoreTyped' /\ HistoryTyped'
      BY <1>0, <1>1, ServiceAssumption, GoDownType DEF Crash, store, StoreTyped, HistoryTyped
    <2> QED BY <1>1, <2>1, GoDownType, TypePartsNext DEF Crash
  <1>2. CASE Shutdown
    <2>1. StoreTyped' /\ HistoryTyped'
      BY <1>0, <1>2, GoDownType DEF Shutdown, store, StoreTyped, HistoryTyped
    <2> QED BY <1>2, <2>1, GoDownType, TypePartsNext DEF Shutdown
  <1>3. CASE Upgrade
    <2>7. StoreTyped' /\ HistoryTyped'
      BY <1>0, <1>3 DEF Upgrade, control, StoreTyped, history, HistoryTyped
    <2>8. MemoryTyped'
      BY <1>0, <1>3 DEF Upgrade, control, MemoryTyped
    <2>9. ControlTyped'
      BY <1>0, <1>3 DEF Upgrade, control, ControlTyped, Phases
    <2> QED BY <2>7, <2>8, <2>9, TypePartsNext
  <1> QED BY <1>1, <1>2, <1>3

\* A step that changes nothing.
LEMMA StutterType == TypeInv /\ UNCHANGED vars => TypeInv'
  <1> SUFFICES ASSUME TypeInv, UNCHANGED vars PROVE TypeInv'
    OBVIOUS
  <1>0. StoreTyped /\ MemoryTyped /\ ControlTyped /\ HistoryTyped
    BY TypeParts
  <1>1. StoreTyped' /\ HistoryTyped'
    BY <1>0 DEF vars, store, control, StoreTyped, history, HistoryTyped
  <1>2. MemoryTyped'
    BY <1>0 DEF vars, store, control, MemoryTyped
  <1>3. ControlTyped'
    BY <1>0 DEF vars, store, control, ControlTyped
  <1> QED BY <1>1, <1>2, <1>3, TypePartsNext

\* The type invariant is inductive.
LEMMA NextTypeInv == TypeInv /\ [Next]_vars => TypeInv'
  BY ServeType, RecoverType, FailType, ClientsSubmit, SubmitType, SubmitFailsType,
     DuplicateType, EnvironmentType, StutterType DEF Next

\* Every state of every behaviour is well typed, whatever crashes, fails or is
\* interrupted: in particular every record being materialized is in the outbox
\* and every row being put belongs to the current projection.
THEOREM TypeCorrect == Spec => []TypeOK
  <1>1. TypeInv => TypeOK
    BY DEF TypeInv
  <1> QED BY InitTypeInv, NextTypeInv, <1>1, PTL DEF Spec

=============================================================================
