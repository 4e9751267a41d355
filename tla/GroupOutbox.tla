---------------------------- MODULE GroupOutbox ----------------------------
(***************************************************************************)
(* The outbox of relay-generated events: the records an accepted event     *)
(* calls for (plan_group_outbox_records of                                 *)
(* crates/tangle_runtime/src/groups.rs, payloads of                        *)
(* crates/tangle_groups/src/signing.rs) and the idempotent table of        *)
(* records with its replay order (crates/tangle_groups/src/outbox.rs).     *)
(***************************************************************************)
EXTENDS GroupPolicy

CONSTANT MemberCap  \* max_member_list_pubkeys

ASSUME MemberCapAssumption == MemberCap \in Nat

\* GroupOutboxEffect, in its derived order; the two effects no event calls for
\* (role list and state 39004) are left out.
EffectOrder == <<"metadata_snapshot", "admin_list_snapshot",
                 "member_list_snapshot", "join_accepted", "leave_accepted">>
Effects == {EffectOrder[i] : i \in 1..5}
EffectRank(f) == CHOOSE i \in 1..5 : EffectOrder[i] = f

\* GroupOutboxKey: the source event and the effect (group and target follow).
RecordKeys == [src : Nat \X Nat, effect : Effects]
Statuses == {"pending", "stored", "skipped", "failed"}
Payloads == {e \in Events : e.by = Relay /\ e.id \in GeneratedIds}
Records == [payload : Payloads, status : Statuses]
PlannedRecords == [key : RecordKeys, rec : Records]

-----------------------------------------------------------------------------
(* Payloads.  A payload is represented by the event it is signed into: the   *)
(* signature and the id are functions of the payload.                        *)

Generated(kind, at, user, meta, users) ==
  [kind |-> kind, by |-> Relay, at |-> at,
   id |-> GenId([kind |-> kind, user |-> user, meta |-> meta, users |-> users]),
   user |-> user, roles |-> {}, meta |-> meta, users |-> users, ref |-> NoRef]

MetadataSnapshotPayload(p, at) ==
  Generated("metadata", at, Relay, p.group.meta, {})

AdminListPayload(p, at) ==
  Generated("admins", at, Relay, EmptyMetadata,
            Owners \cup Admins \cup {u \in Users : IsOverrideAdmin(p, u)})

CurrentMembers(p) == {u \in Users : IsMember(p, u)}

OverCap(p) == Cardinality(CurrentMembers(p)) > MemberCap

\* A list over the cap is recorded with an empty payload, as skipped.
MemberListPayload(p, at) ==
  Generated("members", at, Relay, EmptyMetadata,
            IF OverCap(p) THEN {} ELSE CurrentMembers(p))

MembershipPayload(kind, u, at) == Generated(kind, at, u, EmptyMetadata, {})

Rec(e, effect, payload, status) ==
  [key |-> [src |-> Key(e), effect |-> effect],
   rec |-> [payload |-> payload, status |-> status]]

-----------------------------------------------------------------------------
(* plan_group_outbox_records: "p" is the projection after the event and      *)
(* "before" whether the target of a put or remove was an override admin      *)
(* before it.                                                                *)

MetadataRecord(e, p) ==
  Rec(e, "metadata_snapshot", MetadataSnapshotPayload(p, e.at), "pending")

AdminListRecord(e, p) ==
  Rec(e, "admin_list_snapshot", AdminListPayload(p, e.at), "pending")

MemberListRecord(e, p) ==
  Rec(e, "member_list_snapshot", MemberListPayload(p, e.at),
      IF OverCap(p) THEN "skipped" ELSE "pending")

MemberSnapshotRecords(e, p, before) ==
  IF before # IsOverrideAdmin(p, e.user)
  THEN <<MemberListRecord(e, p), AdminListRecord(e, p)>>
  ELSE <<MemberListRecord(e, p)>>

Plan(e, p, before) ==
  CASE e.kind = "create" -> <<MetadataRecord(e, p), AdminListRecord(e, p)>>
    [] e.kind = "edit"   -> <<MetadataRecord(e, p)>>
    [] e.kind \in {"put", "remove"} -> MemberSnapshotRecords(e, p, before)
    [] e.kind = "join" ->
         <<Rec(e, "join_accepted", MembershipPayload("put", e.by, e.at), "pending")>>
    [] e.kind = "leave" ->
         <<Rec(e, "leave_accepted", MembershipPayload("remove", e.by, e.at), "pending")>>
    [] OTHER -> <<>>

\* require_projected_group: without it planning ends in an internal error.
PlanFails(e, p) == e.kind \in {"create", "edit"} /\ p.group.life = "none"

\* membership_admin_snapshot_state
WasOverrideAdmin(e, p) ==
  e.kind \in {"put", "remove"} /\ IsOverrideAdmin(p, e.user)

-----------------------------------------------------------------------------
(* GroupOutbox: a map from keys to records. *)

Update(outbox, k, r) ==
  [x \in DOMAIN outbox \cup {k} |-> IF x = k THEN r ELSE outbox[x]]

\* merge_idempotent: whether a planned record clashes with the one under its key
Clashes(outbox, item) ==
  item.key \in DOMAIN outbox /\ outbox[item.key].payload # item.rec.payload

\* Mutation: only failures are retried.
IsFailed(r) == r.status = "failed"

IsRetryable(r) == r.status \in {"pending", "failed"}

Retryable(outbox) == {k \in DOMAIN outbox : IsRetryable(outbox[k])}

\* The order of the replay plan: creation time, source id, effect.
ReplayBefore(j, k) ==
  \/ j.src[1] < k.src[1]
  \/ j.src[1] = k.src[1] /\ j.src[2] < k.src[2]
  \/ j.src = k.src /\ EffectRank(j.effect) <= EffectRank(k.effect)

IsNextRecord(outbox, k) ==
  k \in Retryable(outbox) /\ \A j \in Retryable(outbox) : ReplayBefore(k, j)
=============================================================================
