------------------------------- MODULE MCHost -------------------------------
(***************************************************************************)
(* Small instances of Host for TLC: two active tenants and an inactive     *)
(* one, a configuration in which everything is valid and others that       *)
(* differ from it in one field, at the edge of what is accepted, and       *)
(* requests that name a tenant directly, through a proxy, or not at all.   *)
(***************************************************************************)
EXTENDS Host

TwoConns == {"c1", "c2"}
ReadingConns == {"c1"}

Label(text, upper) == [text |-> text, upper |-> upper, edge_hyphen |-> FALSE, ldh |-> TRUE]
Port(n) == [text |-> "p", digits |-> TRUE, value |-> n]
Name(text, upper) ==
  [padded |-> FALSE, forbidden |-> FALSE, labels |-> <<Label(text, upper)>>, ports |-> <<>>]
NoName == [Name("a", FALSE) EXCEPT !.labels = <<>>]
Url(text) ==
  [padded |-> FALSE, spaces |-> FALSE, scheme |-> "wss", host |-> Name(text, FALSE), path |-> ""]
Id(text) ==
  [length |-> 4, padded |-> FALSE, first |-> "lower", classes |-> {"lower"}, text |-> text]
Key(text) == [hex |-> TRUE, length |-> 64, in_order |-> TRUE, text |-> text]
Rule == [window_seconds |-> 1, max_hits |-> 1]

MCHostRank(h) == CHOOSE i \in 1..3 : <<"a", "b", "c">>[i] = h.labels[1]

Tenant(text, policy, inactive) ==
  [legacy_server |-> FALSE, tenant_id |-> Id(text), tenant_schema |-> Id(text),
   host |-> Name(text, FALSE), relay_url |-> Url(text), inactive |-> inactive,
   info |-> [name |-> "text", description |-> None, contact |-> Some("text"), icon |-> None],
   pocket |-> [data_directory |-> <<"/", text>>, sync_policy |-> policy],
   pocket_query |-> [allow_scrape_if_limited_to |-> 1, allow_scrape_if_max_seconds |-> 1],
   groups |-> [enabled |-> TRUE, canonical_relay_url |-> Some(Url(text)),
               relay_secret |-> Some(Key(text)),
               pubkeys |-> <<Key("owner")>>,
               policy |-> [public_join |-> TRUE, invites_enabled |-> FALSE],
               limits |-> [f \in GroupLimitFields |-> 1]],
   auth |-> [challenge_ttl_seconds |-> 1, created_at_skew_seconds |-> 1],
   limits |-> [f \in LimitFields |-> 2],
   rate_limits |-> [s \in DOMAIN RuleFields |-> [f \in RuleFields[s] |-> Rule]]]

BaseConfig ==
  [host |-> [legacy_server |-> FALSE, listen_addr |-> "address", tenant_config_dir |-> "text",
             limits |-> [f \in HostLimitFields |-> Limit],
             ops |-> [enabled |-> TRUE, expose_tenant_inventory |-> TRUE],
             trusted_proxy |-> [enabled |-> TRUE,
                                trusted_peers |-> <<[name |-> "proxy", form |-> "text"]>>],
             tracing |-> [filter |-> "text"]],
   tenants |-> <<Tenant("b", "flush_on_shutdown", FALSE), Tenant("c", "flush_on_write", TRUE),
                 Tenant("a", "flush_on_write", FALSE)>>]

\* One field of the host, or of the first tenant, at the edge of its range.
HostVariants ==
  {[BaseConfig EXCEPT !.host.limits[f] = 0] : f \in HostLimitFields}
    \union {[BaseConfig EXCEPT !.host.trusted_proxy.enabled = FALSE, !.host.ops.enabled = FALSE],
            [BaseConfig EXCEPT !.host.legacy_server = TRUE],
            [BaseConfig EXCEPT !.host.tenant_config_dir = "padded"],
            [BaseConfig EXCEPT !.host.tracing.filter = "empty"]}

TenantVariants ==
  {[BaseConfig EXCEPT !.tenants[1].limits[f] = 0] : f \in LimitFields}
    \union {[BaseConfig EXCEPT !.tenants[1].limits["default_limit"] = 3],
            [BaseConfig EXCEPT !.tenants[1].limits["max_query_complexity"] = 1],
            [BaseConfig EXCEPT !.tenants[1].limits["max_subid_length"] = 65],
            [BaseConfig EXCEPT !.tenants[1].rate_limits["event"]["per_ip"].max_hits = 0],
            [BaseConfig EXCEPT !.tenants[1].host = Name("a", TRUE)],
            [BaseConfig EXCEPT !.tenants[1].host = NoName],
            [BaseConfig EXCEPT !.tenants[1].host.ports = <<Port(0)>>],
            [BaseConfig EXCEPT !.tenants[1].host.ports = <<Port(1), Port(1)>>],
            [BaseConfig EXCEPT !.tenants[1].tenant_id = Id("c")],
            [BaseConfig EXCEPT !.tenants[1].tenant_id.classes = {"lower", "upper"}],
            [BaseConfig EXCEPT !.tenants[1].relay_url.host = Name("b", TRUE)],
            [BaseConfig EXCEPT !.tenants[1].groups.canonical_relay_url[1].host = Name("b", TRUE)],
            [BaseConfig EXCEPT !.tenants[1].groups.relay_secret = None],
            [BaseConfig EXCEPT !.tenants[1].groups.relay_secret = None,
                               !.tenants[1].groups.enabled = FALSE],
            [BaseConfig EXCEPT !.tenants[1].groups.relay_secret = Some(Key("a"))],
            [BaseConfig EXCEPT !.tenants[1].groups.policy.invites_enabled = TRUE],
            [BaseConfig EXCEPT !.tenants[1].groups.limits["max_member_list_pubkeys"] = 0],
            [BaseConfig EXCEPT !.tenants[1].pocket.data_directory = <<"/", ".", "b", "..", "a">>],
            [BaseConfig EXCEPT !.tenants[1].pocket_query.allow_scrape_if_limited_to = 3],
            [BaseConfig EXCEPT !.tenants[1].auth.created_at_skew_seconds = 0],
            [BaseConfig EXCEPT !.tenants[1].auth.challenge_ttl_seconds = 0, !.tenants[3].inactive = TRUE],
            [BaseConfig EXCEPT !.tenants[1].info.name = "padded"],
            [BaseConfig EXCEPT !.tenants[1].inactive = TRUE, !.tenants[3].inactive = TRUE]}

MCConfigs == {BaseConfig} \union HostVariants \union TenantVariants

Plain(name) ==
  [ip |-> "1.1.1.1", addr |-> "1.1.1.1:1", host |-> <<name>>, x_forwarded_host |-> None,
   forwarded |-> None, upgrade |-> TRUE, accept |-> <<"text/html">>]
Proxied(name) ==
  [Plain(Name("a", FALSE)) EXCEPT !.ip = "proxy", !.x_forwarded_host = <<name>>]

MCRequests ==
  {Plain(Name("b", TRUE)), Plain(Name("c", FALSE)),
   [Plain(Name("a", FALSE)) EXCEPT !.upgrade = FALSE],
   [Plain(Name("a", FALSE)) EXCEPT !.upgrade = FALSE, !.accept = <<"text/html", "*/*">>],
   [Plain(Name("a", FALSE)) EXCEPT !.x_forwarded_host = <<Name("b", FALSE)>>],
   [Plain(Name("a", FALSE)) EXCEPT !.host = None],
   Proxied(Name("b", FALSE)), Proxied(NoName)}
=============================================================================
