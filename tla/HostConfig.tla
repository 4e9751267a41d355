----------------------------- MODULE HostConfig -----------------------------
(***************************************************************************)
(* The host's and the tenants' configuration documents: what               *)
(* parse_tangle_host_runtime_config_json, parse_tenant_runtime_config_json *)
(* and TangleHostRuntimeConfigSet::new (config.rs), the names of tenants   *)
(* (tenant.rs), the group section (tangle_groups) and the constructors     *)
(* that run when a tenant is opened accept.  A text is what the checks can *)
(* tell about it; numbers are numbers.                                     *)
(***************************************************************************)
EXTENDS Naturals, Sequences, FiniteSets, SequencesExt

\* An optional value is a sequence of at most one element, and so is the result
\* of a constructor that may refuse.
None == <<>>
Some(x) == <<x>>

\* `value.trim().is_empty() || value.trim() != value` is refused.
Texts == {"text", "empty", "padded"}
ValidText(t) == t = "text"
ValidOptionalText(t) == \A i \in DOMAIN t : ValidText(t[i])

RequirePositive(doc, fields) == \A f \in fields : doc[f] > 0

-----------------------------------------------------------------------------
(* Names of tenants (tenant.rs).                                           *)

\* An identifier is its length in bytes, whether white space surrounds it, the
\* class of its first byte and the classes of all of them.
IdentifierMax == 64
ValidIdentifier(id, separators) ==
  /\ id.length > 0
  /\ id.length <= IdentifierMax
  /\ ~id.padded
  /\ id.first = "lower"
  /\ id.classes \subseteq {"lower", "digit"} \union separators

ValidTenantId(id) == ValidIdentifier(id, {"_", "-"})
ValidTenantSchema(id) == ValidIdentifier(id, {"_"})

\* A host text is a list of labels and the texts after its colons.  `forbidden`
\* says that it holds a scheme, white space, a path, a bracket or credentials.
Blank(h) == h.labels = <<>> /\ h.ports = <<>>

SplitHostPort(h) ==
  /\ Len(h.ports) <= 1
  /\ Len(h.ports) = 1 => h.labels # <<>> /\ h.ports[1].text # ""

ValidHostName(labels) ==
  /\ labels # <<>>
  /\ \A i \in DOMAIN labels :
       labels[i].text # "" /\ ~labels[i].edge_hyphen /\ labels[i].ldh

ValidPort(p) == p.digits /\ p.value \in 1..65535

Lowercase(labels) == [i \in DOMAIN labels |-> labels[i].text]

\* CanonicalHost::new: the lower case of the text, or an error.
CanonicalHost(h) ==
  IF /\ ~Blank(h) /\ ~h.padded /\ ~h.forbidden
     /\ SplitHostPort(h)
     /\ ValidHostName(h.labels)
     /\ \A i \in DOMAIN h.ports : ValidPort(h.ports[i])
  THEN Some([labels |-> Lowercase(h.labels), port |-> [i \in DOMAIN h.ports |-> h.ports[i].text]])
  ELSE None

\* TenantRelayUrl::new: the scheme and the path stay, the host is made canonical.
TenantRelayUrl(u) ==
  IF u.padded \/ u.spaces \/ u.scheme \notin {"ws", "wss"} \/ CanonicalHost(u.host) = None
  THEN None
  ELSE Some([scheme |-> u.scheme, host |-> CanonicalHost(u.host)[1], path |-> u.path])

\* The text g is the text of the canonical form of u.
SameUrlText(g, u) ==
  /\ TenantRelayUrl(g) = TenantRelayUrl(u)
  /\ \A i \in DOMAIN g.host.labels : ~g.host.labels[i].upper

-----------------------------------------------------------------------------
(* The group section (tangle_groups/src/lib.rs).                           *)

GroupLimitFields ==
  {"max_group_id_bytes", "max_group_tags_per_event", "max_supported_kinds",
   "max_member_list_pubkeys", "max_outbox_replay_batch"}

GroupLimitsValid(l) == RequirePositive(l, GroupLimitFields)

\* GroupPolicyConfig::validate: invites cannot be switched on.
GroupPolicyValid(p) == ~p.invites_enabled

\* RelaySecret::from_hex and the signer made of it; every key is checked alike.
ValidKeyText(k) == k.hex /\ k.length = 64

CanonicalRelayUrl(u) == ~u.padded /\ u.scheme \in {"ws", "wss"}

GroupsValid(g) ==
  /\ \A i \in DOMAIN g.canonical_relay_url : CanonicalRelayUrl(g.canonical_relay_url[i])
  /\ \A i \in DOMAIN g.relay_secret : ValidKeyText(g.relay_secret[i])
  /\ \A i \in DOMAIN g.pubkeys : ValidKeyText(g.pubkeys[i])
  /\ GroupPolicyValid(g.policy)
  /\ GroupLimitsValid(g.limits)
  /\ g.enabled => g.canonical_relay_url # None /\ g.relay_secret # None

-----------------------------------------------------------------------------
(* Limits of a tenant (config.rs, relay/core.rs, runtime.rs).              *)

SubscriptionIdMax == 64
ScrapeWindowMax == 86400

LimitFields ==
  {"max_message_length", "max_subid_length", "max_subscriptions_per_connection",
   "max_filters_per_request", "max_tag_values_per_filter", "max_query_complexity",
   "max_limit", "default_limit", "max_event_tags", "max_content_length",
   "broadcast_channel_capacity", "per_connection_outbound_queue"}

LimitsValid(l) ==
  /\ RequirePositive(l, LimitFields)
  /\ l.max_subid_length <= SubscriptionIdMax
  /\ l.default_limit <= l.max_limit

PocketQueryValid(q, l) ==
  /\ q.allow_scrape_if_limited_to <= l.max_limit
  /\ q.allow_scrape_if_max_seconds <= ScrapeWindowMax

AuthRules == {"per_ip", "per_pubkey", "failures", "failures_per_ip"}
EventRules == {"per_ip", "per_pubkey", "per_kind"}
GroupRules == {"write_per_ip", "write_per_pubkey", "write_per_group", "write_per_kind",
               "join_flow", "join_flow_per_ip"}
QueryRules == {"per_ip", "per_connection", "per_pubkey", "per_group", "per_kind", "broad"}

RuleFields == [auth |-> AuthRules, event |-> EventRules, group |-> GroupRules,
               req |-> QueryRules, count |-> QueryRules]

RuleValid(r) == r.window_seconds > 0 /\ r.max_hits > 0

RateLimitsValid(rl) ==
  \A section \in DOMAIN RuleFields : \A f \in RuleFields[section] : RuleValid(rl[section][f])

\* BaseRelayLimits::new, run when the tenant's store is opened: the names change
\* and one more relation is checked.
BaseRelayLimitsValid(l) ==
  /\ RequirePositive(l, LimitFields \ {"max_message_length", "broadcast_channel_capacity"})
  /\ l.default_limit <= l.max_limit
  /\ l.default_limit <= l.max_query_complexity

\* TangleRuntimeLimits::from_config, run when the tenant's runtime is opened.
RuntimeLimitsValid(l) ==
  /\ BaseRelayLimitsValid(l)
  /\ RequirePositive(l, {"max_message_length", "broadcast_channel_capacity",
                         "per_connection_outbound_queue"})

\* BaseAuthState::new, run for every connection.
AuthStateValid(t) == t.auth.challenge_ttl_seconds > 0 /\ t.auth.created_at_skew_seconds > 0

-----------------------------------------------------------------------------
(* The documents.                                                          *)

InfoValid(info) ==
  /\ ValidText(info.name)
  /\ \A f \in {"description", "contact", "icon"} : ValidOptionalText(info[f])

\* PocketStoreConfig::validate
PocketStoreValid(pocket) == pocket.data_directory # <<>>

\* parse_tenant_runtime_config_json.  challenge_ttl_seconds is not looked at.
TenantValid(t) ==
  /\ t.legacy_server = FALSE
  /\ ValidTenantId(t.tenant_id)
  /\ ValidTenantSchema(t.tenant_schema)
  /\ CanonicalHost(t.host) # None
  /\ TenantRelayUrl(t.relay_url) # None
  /\ PocketStoreValid(t.pocket)
  /\ GroupsValid(t.groups)
  /\ \A i \in DOMAIN t.groups.canonical_relay_url :
       SameUrlText(t.groups.canonical_relay_url[i], t.relay_url)
  /\ LimitsValid(t.limits)
  /\ PocketQueryValid(t.pocket_query, t.limits)
  /\ t.auth.created_at_skew_seconds > 0
  /\ InfoValid(t.info)
  /\ RateLimitsValid(t.rate_limits)

HostLimitFields ==
  {"max_total_connections", "max_total_subscriptions", "tenant_startup_concurrency"}

\* TangleHostLimitsConfig::new without its last check.
HostLimitsValidButConcurrency(l) ==
  RequirePositive(l, HostLimitFields \ {"tenant_startup_concurrency"})

\* TangleHostLimitsConfig::new.
HostLimitsValid(l) == RequirePositive(l, HostLimitFields)

TrustedProxyValid(p) == \A i \in DOMAIN p.trusted_peers : p.trusted_peers[i].form = "text"

\* BaseRelayTracingConfig::new trims the filter and takes a default for none.
TracingValid(tr) == tr.filter # "empty"

\* parse_tangle_host_runtime_config_json.
HostValid(h) ==
  /\ h.legacy_server = FALSE
  /\ h.listen_addr = "address"
  /\ ValidText(h.tenant_config_dir)
  /\ HostLimitsValid(h.limits)
  /\ TrustedProxyValid(h.trusted_proxy)
  /\ TracingValid(h.tracing)

\* canonical_path_key: "." is dropped and ".." takes the last component away.
\* The first component of an absolute path is "/", which stays.
PathStep(path, part) ==
  CASE part = "." -> path
    [] part = ".." -> IF path = <<>> \/ path = <<"/">> THEN path ELSE Front(path)
    [] OTHER -> Append(path, part)

CanonicalPathKey(path) == FoldLeft(PathStep, <<>>, path)

Distinct(seq) == \A i, j \in DOMAIN seq : seq[i] = seq[j] => i = j

\* The relay keys of the tenants that have one.
RelaySelfPubkeysDistinct(tenants) ==
  \A i, j \in DOMAIN tenants :
    /\ tenants[i].groups.relay_secret # None
    /\ tenants[i].groups.relay_secret = tenants[j].groups.relay_secret
    => i = j

\* The signer accepts every secret but the ones outside the curve's order.
SecretsUsable(tenants) ==
  \A i \in DOMAIN tenants :
    \A j \in DOMAIN tenants[i].groups.relay_secret : tenants[i].groups.relay_secret[j].in_order

\* validate_tenant_config_set: one active tenant, and nothing shared between two
\* tenants, active or not.
TenantSetValid(tenants) ==
  /\ \E i \in DOMAIN tenants : ~tenants[i].inactive
  /\ Distinct([i \in DOMAIN tenants |-> tenants[i].tenant_id])
  /\ Distinct([i \in DOMAIN tenants |-> tenants[i].tenant_schema])
  /\ Distinct([i \in DOMAIN tenants |-> CanonicalHost(tenants[i].host)])
  /\ Distinct([i \in DOMAIN tenants |-> TenantRelayUrl(tenants[i].relay_url)])
  /\ SecretsUsable(tenants)
  /\ RelaySelfPubkeysDistinct(tenants)
  /\ Distinct([i \in DOMAIN tenants |-> CanonicalPathKey(tenants[i].pocket.data_directory)])

\* load_tangle_host_runtime_config: the host document, the tenant documents of
\* its directory in the order of their paths, then the set.
ConfigAccepted(c) ==
  /\ HostValid(c.host)
  /\ \A i \in DOMAIN c.tenants : TenantValid(c.tenants[i])
  /\ TenantSetValid(c.tenants)

\* Tenants are known by their position among the documents.
ActiveTenants(c) == {i \in DOMAIN c.tenants : ~c.tenants[i].inactive}
=============================================================================
