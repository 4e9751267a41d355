--------------------------- MODULE GroupProjection ---------------------------
(***************************************************************************)
(* The NIP-29 group projection of crates/tangle_groups/src/projection.rs:  *)
(* the current state of a group computed from the canonical events in the  *)
(* store.  All of the projection's maps are keyed by group, so the module  *)
(* describes the projection of one group.                                  *)
(*                                                                         *)
(* An event's identity is the pair <<at, id>>: "at" is created_at (whole   *)
(* seconds) and "id" is the rank of its hash among the events of the same  *)
(* second, which is all the order of hashes is ever used for.              *)
(***************************************************************************)
EXTENDS Integers, Sequences, FiniteSets

CONSTANTS
  Users,      \* public keys of clients
  Relay,      \* public key the relay signs generated events with
  Roles,      \* role names that put-user events may carry
  Metas,      \* group metadata that events may carry
  Times,      \* values of created_at
  SourceIds,  \* hash ranks of client events
  GenId(_)    \* hash rank of a relay-generated event, from its content

-----------------------------------------------------------------------------
(* Events *)

RelayOwner == "relay_owner"     \* PERMANENT_RELAY_OVERRIDE_ROLE

\* GroupMetadata, with the texts abstracted to "name" and supported_kinds to
\* whether the kind of an ordinary note is accepted.
Metadata ==
  [name : {"", "a", "b"}, private : BOOLEAN, restricted : BOOLEAN,
   hidden : BOOLEAN, closed : BOOLEAN, notes : BOOLEAN]

EmptyMetadata ==
  [name |-> "", private |-> FALSE, restricted |-> FALSE,
   hidden |-> FALSE, closed |-> FALSE, notes |-> TRUE]

ModerationKinds == {"create", "edit", "put", "remove", "delete_event",
                    "delete_group", "invite"}
UserRequestKinds == {"join", "leave"}
SnapshotKinds == {"metadata", "admins", "members"}
SourceKinds == ModerationKinds \cup UserRequestKinds \cup {"note"}
GeneratedKinds == SnapshotKinds \cup {"put", "remove"}

\* What distinguishes two generated events of the same second: a metadata snapshot
\* carries metadata, a list keys and a member's event its target.
Contents ==
  [kind : {"metadata"}, user : {Relay}, meta : Metadata, users : {{}}]
    \cup [kind : {"admins", "members"}, user : {Relay}, meta : {EmptyMetadata},
          users : SUBSET Users]
    \cup [kind : {"put", "remove"}, user : Users, meta : {EmptyMetadata}, users : {{}}]

\* "user" is the p tag (the author where there is none), "roles" the role tags,
\* "ref" the e tag, "users" the p tags of a generated list.
Events ==
  {e \in [kind : SourceKinds \cup SnapshotKinds, by : Users \cup {Relay},
          at : Nat, id : Nat, user : Users \cup {Relay}, roles : SUBSET Roles,
          meta : Metadata, users : SUBSET Users, ref : Nat \X Nat] :
     e.kind \in {"put", "remove"} => e.user \in Users}

Key(e) == <<e.at, e.id>>

NoRef == <<0, 0>>

ASSUME ProjectionAssumption ==
  /\ Relay \notin Users
  /\ IsFiniteSet(Users)
  /\ Metas \subseteq Metadata
  /\ Times \subseteq Nat \ {0}
  /\ SourceIds \subseteq Nat \ {0}

GeneratedIds == {GenId(c) : c \in Contents}

\* Hash ranks are positive naturals.
ASSUME GenIdType == GeneratedIds \subseteq Nat \ {0}

\* Events that differ have different hashes: generated ones in their content, a
\* client's and a generated one in their author.
ASSUME NoCollision ==
  /\ GeneratedIds \cap SourceIds = {}
  /\ \A c, d \in Contents : GenId(c) = GenId(d) => c = d

-----------------------------------------------------------------------------
(* ProjectionOrderTuple: (created_at, event id, store offset), compared      *)
(* lexicographically.  NoTuple stands for "no such record" and is below      *)
(* every tuple, because store offsets start at 1.                            *)

TupleOf(e, offset) == <<e.at, e.id, offset>>

NoTuple == <<0, 0, 0>>

TupleLE(s, t) ==
  \/ s[1] < t[1]
  \/ s[1] = t[1] /\ s[2] < t[2]
  \/ s[1] = t[1] /\ s[2] = t[2] /\ s[3] <= t[3]

Tuples == Nat \X Nat \X Nat

-----------------------------------------------------------------------------
(* GroupProjection: the group, its members, its tombstone and the ids of    *)
(* its deleted events.  The ids of the last snapshots and created_by are    *)
(* written and never read; the role map is only ever read.                  *)

Lifecycles == {"none", "active", "deleted"}
MemberStatuses == {"none", "member", "removed"}

Groups == [life : Lifecycles, meta : Metadata, created : Tuples,
           edited : Tuples, deleted : Tuples]
Members == [status : MemberStatuses, roles : SUBSET Roles, last : Tuples]

NoGroup == [life |-> "none", meta |-> EmptyMetadata, created |-> NoTuple,
            edited |-> NoTuple, deleted |-> NoTuple]
NoMember == [status |-> "none", roles |-> {}, last |-> NoTuple]

\* GroupTombstone, of which the tuple is read, and the GroupEventDeletions, of
\* which the keys are.
Tombstones == Tuples
Deletions == SUBSET (Nat \X Nat)

Projections == [group : Groups, members : [Users -> Members], tomb : Tombstones,
                dels : Deletions]

EmptyProjection == [group |-> NoGroup, members |-> [u \in Users |-> NoMember],
                    tomb |-> NoTuple, dels |-> {}]

\* GroupState::new
NewGroup(meta, t) == [life |-> "active", meta |-> meta, created |-> t,
                      edited |-> t, deleted |-> NoTuple]

UpdateMetadata(g, meta, t) ==
  IF TupleLE(g.edited, t) THEN [g EXCEPT !.meta = meta, !.edited = t] ELSE g

MarkDeleted(g, t) ==
  IF TupleLE(g.deleted, t) THEN [g EXCEPT !.life = "deleted", !.deleted = t] ELSE g

\* Mutations of put_member: the last to arrive wins; the first to arrive wins.
PutMemberUnordered(p, u, m) == [p EXCEPT !.members[u] = m]
PutMemberOnce(p, u, m) ==
  IF p.members[u].last = NoTuple THEN [p EXCEPT !.members[u] = m] ELSE p

\* put_member: the last tuple wins.
PutMember(p, u, m) ==
  IF TupleLE(p.members[u].last, m.last) THEN [p EXCEPT !.members[u] = m] ELSE p

\* put_tombstone
PutTombstone(p, t) == IF TupleLE(p.tomb, t) THEN [p EXCEPT !.tomb = t] ELSE p

\* MemberState::new for the event e
MemberOf(e, t) ==
  [status |-> IF e.kind = "put" THEN "member" ELSE "removed",
   roles  |-> e.roles, last |-> t]

ApplyCreate(p, e, t) ==
  IF TupleLE(p.group.created, t) THEN [p EXCEPT !.group = NewGroup(e.meta, t)] ELSE p

ApplyEdit(p, e, t) ==
  IF p.group.life = "none" THEN p
  ELSE [p EXCEPT !.group = UpdateMetadata(@, e.meta, t)]

ApplyMemberStatus(p, e, t) == PutMember(p, e.user, MemberOf(e, t))

ApplyDeleteEvent(p, e) == [p EXCEPT !.dels = @ \cup {e.ref}]

ApplyDeleteGroup(p, t) ==
  PutTombstone(IF p.group.life = "none" THEN p
               ELSE [p EXCEPT !.group = MarkDeleted(@, t)], t)

\* A metadata snapshot of an unknown group creates it.
ApplyMetadataSnapshot(p, e, t) ==
  IF p.group.life = "none" THEN [p EXCEPT !.group = NewGroup(e.meta, t)]
  ELSE [p EXCEPT !.group = UpdateMetadata(@, e.meta, t)]

\* apply_canonical_event: ordinary events, invites and the other snapshots
\* leave the projection as it is.
Apply(p, e, offset) ==
  LET t == TupleOf(e, offset) IN
  CASE e.kind = "create"            -> ApplyCreate(p, e, t)
    [] e.kind = "edit"              -> ApplyEdit(p, e, t)
    [] e.kind \in {"put", "remove"} -> ApplyMemberStatus(p, e, t)
    [] e.kind = "delete_event"      -> ApplyDeleteEvent(p, e)
    [] e.kind = "delete_group"      -> ApplyDeleteGroup(p, t)
    [] e.kind = "metadata"          -> ApplyMetadataSnapshot(p, e, t)
    [] OTHER                        -> p

-----------------------------------------------------------------------------
(* Rebuilding from a log of events, whose offsets are its indices. *)

\* Whether the event at offset i comes first in tuple order among those in S.
IsFirst(log, S, i) ==
  \A j \in S : TupleLE(TupleOf(log[i], i), TupleOf(log[j], j))

\* The offset with exactly n - 1 predecessors in tuple order.
NthOffset(log, n) ==
  CHOOSE i \in DOMAIN log :
    Cardinality({j \in DOMAIN log :
                   TupleLE(TupleOf(log[j], j), TupleOf(log[i], i))}) = n

\* rebuild_group_projection: sort by tuple, then apply everything.
Rebuild(log) ==
  LET step[n \in 0..Len(log)] ==
        IF n = 0 THEN EmptyProjection
        ELSE LET i == NthOffset(log, n) IN Apply(step[n - 1], log[i], i)
  IN  step[Len(log)]

IsMember(p, u) == p.members[u].status = "member"

\* member_is_relay_override_admin
IsOverrideAdmin(p, u) == IsMember(p, u) /\ RelayOwner \in p.members[u].roles
=============================================================================
