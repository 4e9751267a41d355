--------------------------- MODULE MCGroupService ---------------------------
(***************************************************************************)
(* Small instances of GroupService for TLC: an owner "o" and another user  *)
(* "u1", a public and a private group metadata, and an injective rank for  *)
(* the hashes of generated events.  Ranks of generated events are even and *)
(* lie between the two ranks a client's event can have, so that a client's *)
(* event may come before or after the events generated from it in the same *)
(* second.                                                                 *)
(***************************************************************************)
EXTENDS GroupService

TwoUsers == {"o", "u1"}
MCRelay == "relay"
MCOwners == {"o"}
NoAdmins == {}
NoRoles == {}
OwnerRole == {RelayOwner}

Public == [EmptyMetadata EXCEPT !.name = "a"]
Private == [EmptyMetadata EXCEPT !.name = "b", !.private = TRUE, !.hidden = TRUE]
OneMeta == {Public}
TwoMetas == {Public, Private}

Index(x, seq) == CHOOSE i \in DOMAIN seq : seq[i] = x
Bit(b) == IF b THEN 1 ELSE 0
KindRank(k) == Index(k, <<"metadata", "admins", "members", "put", "remove">>)
UserRank(u) == Index(u, <<MCRelay, "o", "u1">>)
SetRank(S) == Bit("o" \in S) + 2 * Bit("u1" \in S)
MetaRank(m) ==
  Bit(m.private) + 2 * Bit(m.restricted) + 4 * Bit(m.hidden) + 8 * Bit(m.closed)
    + 16 * Bit(m.notes) + 32 * Index(m.name, <<"", "a", "b">>)

MCGenId(c) ==
  2 * (KindRank(c.kind) + 6 * (UserRank(c.user) + 4 * (SetRank(c.users)
         + 4 * MetaRank(c.meta))))

Low == 1
High == 99999
BothIds == {Low, High}
LowId == {Low}
HighId == {High}

RecoveryKinds == {"create", "edit", "put", "remove", "join", "leave", "delete_group"}
MembershipKinds == {"create", "put", "remove", "join", "leave"}
DisorderKinds ==
  {"create", "put", "remove", "note", "invite", "delete_event", "delete_group"}
=============================================================================
