---------------------------- MODULE MCAdmission ----------------------------
(* Two connections of two clients, one of which hides its address; events   *)
(* that are plain, protected, of a group, ephemeral and forged, and the     *)
(* answers to both challenges, which either client may send.                *)
EXTENDS Admission

Hash(name) == Text(name, 64, TRUE, FALSE)
Letter(name) == Text(name, 1, FALSE, TRUE)
A == Hash("alice")
B == Hash("bob")
Group == Word("group")
Url == Text("url", 9, FALSE, FALSE)
Sig(name) == Text(name, 128, TRUE, FALSE)

E(id, key, kind, tags) == Event(Hash(id), key, 1, kind, tags, Word("text"), Sig("valid"))
AuthEvent(id, key, c) ==
  E(id, key, 22242, <<<<Word("relay"), Url>>, <<Word("challenge"), Hash(c)>>>>)
Forge(e) == [e EXCEPT !.sig = Sig("forged")]

MCDecimal == <<Text("1", 1, TRUE, FALSE)>>
MCConnections == {"c1", "c2"}
MCIpOf == [c1 |-> Some("ip"), c2 |-> None]
MCKeysOf == [c1 |-> {A}, c2 |-> {B}]
MCChallengeOf == [c1 |-> Hash("c1"), c2 |-> Hash("c2")]

Note == E("note", A, 1, <<>>)
Protected == E("protected", A, 1, <<<<Letter("-")>>>>)
Join == E("join", A, 9021, <<<<Letter("h"), Group>>>>)
OldJoin == E("old", A, 9021, <<<<Letter("h"), Group>>>>)
Unwanted == E("unwanted", A, 1, <<<<Letter("t"), Group>>>>)
Ephemeral == E("ephemeral", A, 20001, <<>>)
AuthA == AuthEvent("auth_a", A, "c1")
AuthB == AuthEvent("auth_b", B, "c2")
Long == E("long", A, 22242, <<<<Letter("t")>>, <<Letter("t")>>, <<Letter("t")>>>>)

Filter(kinds, tags) ==
  [ids |-> <<>>, authors |-> <<>>, kinds |-> kinds, tags |-> tags, since |-> TimeMin,
   until |-> TimeMax, limit |-> NoLimit]
Kinds == [Filter(<<1>>, <<>>) EXCEPT !.limit = 4]
InGroup == Filter(<<>>, <<<<Letter("h"), Group>>>>)
All == Filter(<<>>, <<>>)
Query(type, filter, search) ==
  [type |-> type, sub |-> Word("sub"), filters |-> <<filter>>, search |-> search]
Events(type, s) == {[type |-> type, event |-> e] : e \in s}

MCInputs ==
  Events("EVENT", {Note, Protected, Join, OldJoin, Unwanted, Ephemeral, Forge(Note)})
  \union Events("AUTH", {AuthA, AuthB, Forge(AuthA), Long})
  \union {Query("REQ", Kinds, FALSE), Query("REQ", Kinds, TRUE), Query("COUNT", All, FALSE),
          Query("COUNT", InGroup, FALSE), Query("COUNT", Kinds, TRUE),
          [type |-> "CLOSE", sub |-> Word("sub")]}
MCInitialLog == <<[event |-> OldJoin, by |-> "c1"]>>
MCSigned == {Note, Protected, Join, OldJoin, Unwanted, Ephemeral, AuthA, AuthB, Long}
MCHookRejects == {Unwanted}

MCLimits ==
  [max_subid_length |-> 4, max_filters |-> 2, max_tag_values |-> 2, max_limit |-> 4,
   default_limit |-> 2, max_complexity |-> 6, max_event_tags |-> 2, max_content_length |-> 8]
MCAuth == [relay_urls |-> {Url}, challenge_ttl |-> 1, created_at_skew |-> 1]

Scopes == {"event", "auth", "group", "req", "count"}
MCKeys ==
  {IpKey(s, "ip") : s \in Scopes}
  \union {PubkeyKey(s, k) : s \in Scopes, k \in {A, B}}
  \union {KindKey("event", k) : k \in {1, 9021, 20001}}
  \union {KindKey("group", 9021), KindKey("req", 1)}
  \union {GroupKey("group", Group), GroupKey("count", Group)}
  \union {AuthFailureIp("ip"), JoinFlowIp(Group, "ip"), JoinFlow(Group, A)}
  \union {AuthFailurePubkey(k) : k \in {A, B}}
  \union {ConnectionKey(s, c) : s \in {"req", "count"}, c \in MCConnections}
  \union {BroadKey("req")}
MCRuleOf ==
  [k \in MCKeys |-> [max_hits |-> IF k[1] \in {"kind", "pubkey", "group"} THEN 2 ELSE 1,
                     window_seconds |-> 2]]
=============================================================================
