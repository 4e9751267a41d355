---------------------------- MODULE GroupPolicy ----------------------------
(***************************************************************************)
(* Who may write to and read from a group: GroupWritePolicy of             *)
(* crates/tangle_groups/src/policy.rs, the runtime's constraint on delete  *)
(* targets (crates/tangle_runtime/src/groups.rs) and GroupReadGate of      *)
(* crates/tangle_groups/src/read_gate.rs, as predicates on a projection.   *)
(***************************************************************************)
EXTENDS GroupProjection

CONSTANTS
  Owners,         \* GroupAuthority.owner_pubkeys
  Admins,         \* GroupAuthority.admin_pubkeys
  PublicJoin,     \* GroupPolicyConfig.public_join
  InvitesEnabled  \* GroupPolicyConfig.invites_enabled

ASSUME PolicyAssumption ==
  /\ Owners \subseteq Users
  /\ Admins \subseteq Users
  /\ PublicJoin \in BOOLEAN
  /\ InvitesEnabled \in BOOLEAN

IsAdmin(u) == u \in Owners \cup Admins

HasTombstone(p) == p.tomb # NoTuple

\* Mutation: only the lifecycle is looked at.
IsActiveByLifecycle(p) == p.group.life = "active"

\* require_active_group
IsActive(p) == p.group.life = "active" /\ ~HasTombstone(p)

CanReadGroup(p, u) == IsAdmin(u) \/ IsMember(p, u)

HasRelayOverride(p, u) == IsAdmin(u) \/ IsOverrideAdmin(p, u)

\* require_capability with resolve_capabilities: no event defines a role, so the
\* only role a group knows is relay_owner, which grants every capability, and a
\* member holding any other role is refused as soon as that role is resolved.
HasCapability(p, u) ==
  \/ IsAdmin(u)
  \/ IsMember(p, u) /\ p.members[u].roles = {RelayOwner}

CheckCreateGroup(p, e) ==
  e.by \in Owners /\ ~HasTombstone(p) /\ p.group.life = "none"

CheckRemoveUser(p, e) == ~HasRelayOverride(p, e.user)

CheckEditMetadata(p, e) == p.group.meta.hidden => CanReadGroup(p, e.by)

CheckJoin(p, e) ==
  ~IsMember(p, e.by) /\ ~p.group.meta.closed /\ PublicJoin

CheckLeave(p, e) == IsMember(p, e.by)

CheckNote(p, e) ==
  /\ p.group.meta.restricted => CanReadGroup(p, e.by)
  /\ p.group.meta.notes

\* check_moderation_event for the kinds that need an active group
CheckModeration(p, e) ==
  /\ IsActive(p)
  /\ e.kind = "invite" => InvitesEnabled
  /\ HasCapability(p, e.by)
  /\ e.kind = "remove" => CheckRemoveUser(p, e)
  /\ e.kind = "edit" => CheckEditMetadata(p, e)

\* check_normal_event
CheckNormal(p, e) ==
  /\ IsActive(p)
  /\ \/ e.kind = "join"  /\ CheckJoin(p, e)
     \/ e.kind = "leave" /\ CheckLeave(p, e)
     \/ e.kind = "note"  /\ CheckNote(p, e)

\* check_event for an event of a client that authenticated as its author;
\* "stored" are the keys of the events that event_by_id finds in this group.
CheckEvent(p, stored, e) ==
  \/ e.kind = "create" /\ CheckCreateGroup(p, e)
  \/ /\ e.kind \in ModerationKinds \ {"create"}
     /\ CheckModeration(p, e)
     /\ e.kind = "delete_event" => e.ref \in stored
  \/ e.kind \in UserRequestKinds \cup {"note"} /\ CheckNormal(p, e)

-----------------------------------------------------------------------------
(* GroupReadGate::screen_event, for a reader authenticated with the keys in *)
(* "auth" (event_visible_to_auth of groups.rs: one key that may read it is  *)
(* enough, and an anonymous reader may read no private group).              *)

CanRead(p, auth) == \E u \in auth : CanReadGroup(p, u)

\* Mutation: the tombstone is not looked at.
ScreenNormalUnlessPrivate(p, auth) ==
  /\ p.group.life # "none"
  /\ p.group.meta.hidden \/ p.group.meta.private => CanRead(p, auth)

ScreenNormal(p, auth) ==
  /\ p.group.life # "none"
  /\ ~HasTombstone(p)
  /\ p.group.meta.hidden \/ p.group.meta.private => CanRead(p, auth)

ScreenSnapshot(p, e, auth) ==
  /\ p.group.life # "none"
  /\ ~HasTombstone(p)
  /\ p.group.meta.hidden => CanRead(p, auth)
  /\ p.group.meta.private /\ e.kind = "members" => CanRead(p, auth)

\* The event the tombstone came from stays readable, as the deletion marker.
ScreenDeleteGroup(p, e, auth) ==
  IF HasTombstone(p) /\ Key(e) = <<p.tomb[1], p.tomb[2]>>
  THEN /\ p.group.life # "none"
       /\ p.group.meta.hidden \/ p.group.meta.private => CanRead(p, auth)
  ELSE ScreenNormal(p, auth)

Visible(p, e, auth) ==
  /\ Key(e) \notin p.dels
  /\ CASE e.kind = "delete_group"     -> ScreenDeleteGroup(p, e, auth)
       [] e.kind \in SnapshotKinds    -> ScreenSnapshot(p, e, auth)
       [] OTHER                       -> ScreenNormal(p, auth)
=============================================================================
