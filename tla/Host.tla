-------------------------------- MODULE Host --------------------------------
(***************************************************************************)
(* The host process: it loads its configuration, opens the active tenants  *)
(* one after another, binds, routes requests to tenants by host name,      *)
(* takes a permit for every WebSocket connection, runs one session task    *)
(* per connection and drains when a shutdown is requested (host.rs,        *)
(* server.rs, ops.rs, the frame of session.rs).  What sessions say to      *)
(* clients is in LiveDelivery and Admission; here they store events.       *)
(*                                                                         *)
(* axum is external: it accepts requests until the shutdown signal is set, *)
(* serve returns when no handler is running, and it does not wait for      *)
(* upgraded connections.                                                   *)
(***************************************************************************)
EXTENDS HostConfig, ResourceLimits

CONSTANTS
  Configs,        \* configurations the process may be started with
  Requests,       \* requests clients send
  HostRank(_),    \* the order of canonical hosts, as BTreeMap keeps them
  Readers,        \* connections whose clients keep reading what is sent to them
  MaxEvents,      \* bound on events stored per tenant
  MaxRequests     \* bound on requests of one connection slot

\* Tenants are numbered from one, the numbers of a document are natural, hosts are
\* ordered, and Limit is the max_total_connections of what is accepted.
ASSUME HostAssumption ==
  /\ Readers \subseteq Callers
  /\ \A c \in Configs :
       /\ DOMAIN c.tenants \subseteq Nat \ {0}
       /\ c.host.limits.max_total_connections \in Nat
       /\ ConfigAccepted(c) => c.host.limits.max_total_connections = Limit
       /\ \A i \in DOMAIN c.tenants :
            /\ c.tenants[i].auth.challenge_ttl_seconds \in Nat
            /\ CanonicalHost(c.tenants[i].host) # None
                 => HostRank(CanonicalHost(c.tenants[i].host)[1]) \in Nat
  /\ {MaxEvents, MaxRequests} \subseteq Nat

VARIABLES
  config,    \* the configuration the process was started with
  phase,     \* what the main task does
  opened,    \* tenants opened so far: TenantRegistry's entries
  bound,     \* tenants whose server_bind check is Ready
  shutdown,  \* TangleShutdownSignal
  conn,      \* conn[c]: the connection in slot c
  status,    \* status[c]: the last HTTP status slot c was answered
  sent,      \* sent[c]: requests made by slot c
  stored,    \* stored[t]: events in the store of tenant t
  synced,    \* synced[t]: how many of them are on disk
  owed,      \* owed[t]: stored[t] when shutdown was requested
  flushed    \* tenants whose shutdown has been awaited

mainVars == <<config, phase, opened, bound, shutdown, owed, flushed>>
connVars == <<conn, status, sent>>
dataVars == <<stored, synced>>
hostVars == <<limiterVars, mainVars, connVars, dataVars>>

Phases == {"load", "open", "bind", "serve", "drain", "stopped", "failed", "panicked"}
Stages == {"free", "permit", "session", "upgrade", "run"}

NoConn == [stage |-> "free", tenant |-> 0]

Tenants == DOMAIN config.tenants
Active == ActiveTenants(config)
ActiveHost(i) == CanonicalHost(config.tenants[i].host)[1]

HostInit ==
  /\ LimiterInit
  /\ config \in Configs
  /\ phase = "load"
  /\ opened = {}
  /\ bound = {}
  /\ shutdown = FALSE
  /\ conn = [c \in Callers |-> NoConn]
  /\ status = [c \in Callers |-> 0]
  /\ sent = [c \in Callers |-> 0]
  /\ stored = [t \in Tenants |-> 0]
  /\ synced = [t \in Tenants |-> 0]
  /\ owed = [t \in Tenants |-> 0]
  /\ flushed = {}

-----------------------------------------------------------------------------
(* Starting.                                                               *)

\* run_with_config reads and validates the documents.
LoadConfig ==
  /\ phase = "load"
  /\ phase' = IF ConfigAccepted(config) THEN "open" ELSE "failed"
  /\ UNCHANGED <<limiterVars, connVars, dataVars, config, opened, bound, shutdown, owed, flushed>>

\* RelayRuntime::open_with_hooks: the limits, then the store and the group
\* service, then the event bus.
TenantOpens(t) == RuntimeLimitsValid(t.limits)

\* TenantRegistry::open: active tenants in the order of the documents, in chunks
\* that do not run in parallel.  slice::chunks panics for a size of zero.
NextOpened == CHOOSE i \in Active \ opened : \A j \in Active \ opened : i <= j

OpenTenant ==
  /\ phase = "open"
  /\ opened # Active
  /\ IF config.host.limits.tenant_startup_concurrency = 0
     THEN phase' = "panicked" /\ UNCHANGED opened
     ELSE IF TenantOpens(config.tenants[NextOpened])
          THEN opened' = opened \union {NextOpened} /\ UNCHANGED phase
          ELSE phase' = "failed" /\ UNCHANGED opened
  /\ UNCHANGED <<limiterVars, connVars, dataVars, config, bound, shutdown, owed, flushed>>

\* A store or a projection that cannot be opened ends the start.
OpenFails ==
  /\ phase = "open"
  /\ opened # Active
  /\ phase' = "failed"
  /\ UNCHANGED <<limiterVars, connVars, dataVars, config, opened, bound, shutdown, owed, flushed>>

\* TenantRegistry::new refuses two entries for one host or one tenant id.
RegistryAccepts ==
  /\ Distinct([i \in Active |-> ActiveHost(i)])
  /\ Distinct([i \in Active |-> config.tenants[i].tenant_id])

Register ==
  /\ phase = "open"
  /\ opened = Active
  /\ phase' = IF RegistryAccepts THEN "bind" ELSE "failed"
  /\ UNCHANGED <<limiterVars, connVars, dataVars, config, opened, bound, shutdown, owed, flushed>>

\* serve_until_shutdown: TcpListener::bind, then every tenant's server_bind.
Bind ==
  /\ phase = "bind"
  /\ \/ phase' = "serve" /\ bound' = Active
     \/ phase' = "failed" /\ UNCHANGED bound
  /\ UNCHANGED <<limiterVars, connVars, dataVars, config, opened, shutdown, owed, flushed>>

-----------------------------------------------------------------------------
(* Readiness and the operations endpoints.                                 *)

\* BaseRelayReadinessState::is_ready; an opened tenant lacks only server_bind.
TenantReady(i) == i \in opened /\ i \in bound

RegistryReady == Active # {}
ActiveTenantsReady == \A i \in Active : TenantReady(i)

\* TangleHostReadinessState::is_ready; its config check is always Ready.
HostReady == ~shutdown /\ RegistryReady /\ ActiveTenantsReady

\* GET /.well-known/tangle/ready
ReadyStatus ==
  IF ~config.host.ops.enabled THEN 404 ELSE IF HostReady THEN 200 ELSE 503

\* TangleHostTenantInventoryItem; an inactive tenant has no runtime to be ready.
InventoryItem(i) ==
  [host |-> CanonicalHost(config.tenants[i].host)[1], active |-> i \in Active,
   ready |-> i \in Active /\ TenantReady(i)]

\* TangleHostRuntime::tenant_inventory, what /tenants answers when it is exposed.
Inventory ==
  IF ~config.host.ops.enabled \/ ~config.host.ops.expose_tenant_inventory
  THEN {}
  ELSE {InventoryItem(i) : i \in Tenants}

\* The sessions the metrics of the active tenants count, each at one tenant.
TenantSessions == {c \in Callers : conn[c].stage = "run" /\ conn[c].tenant \in Active}

\* TangleHostRuntime::metrics_snapshot and, as /metrics answers them, the gauges
\* of the active tenants added up.
HostMetrics ==
  [configured |-> Cardinality(Tenants), active |-> Cardinality(Active),
   inactive |-> Cardinality(Tenants \ Active),
   connections |-> active, limit |-> config.host.limits.max_total_connections,
   sessions |-> Cardinality(TenantSessions)]

-----------------------------------------------------------------------------
(* The NIP-11 document of a tenant (nip11.rs).                             *)

SupportedNips(enabled) == {1, 11, 42, 45, 70} \union (IF enabled THEN {29} ELSE {})

InfoDocument(t) ==
  [name |-> t.info.name, relay_self |-> t.groups.relay_secret,
   supported_nips |-> SupportedNips(t.groups.enabled), limitation |-> t.limits]

\* An Accept header is its list of media ranges.
AcceptsNostrJson(accept) ==
  \E i \in DOMAIN accept : accept[i] \in {"*/*", "application/nostr+json"}

InfoStatus(r) == IF AcceptsNostrJson(r.accept) THEN 200 ELSE 404

-----------------------------------------------------------------------------
(* Routing.                                                                *)

\* trusted_proxy_peer_enabled; a peer is trusted by address or address and port.
TrustsEveryone(r) == config.host.trusted_proxy.enabled

TrustedPeer(r) ==
  /\ config.host.trusted_proxy.enabled
  /\ \E i \in DOMAIN config.host.trusted_proxy.trusted_peers :
       config.host.trusted_proxy.trusted_peers[i].name \in {r.ip, r.addr}

\* A header is the list of host texts between its commas, empty when the header
\* is absent or no text.
ForwardedHost(r) ==
  IF r.x_forwarded_host # None THEN r.x_forwarded_host ELSE r.forwarded

Trim(h) == [h EXCEPT !.padded = FALSE]

\* The header resolve_request_host goes by.
HostHeader(r) ==
  IF TrustedPeer(r) /\ ForwardedHost(r) # None THEN ForwardedHost(r) ELSE r.host

\* resolve_request_host: the first name of the header, made canonical.
ResolveRequestHost(r) ==
  IF HostHeader(r) = None THEN None ELSE CanonicalHost(Trim(Head(HostHeader(r))))

\* TangleHostRuntime::tenant_for_request: the active tenant of that host, or 0.
TenantForRequest(r) ==
  LET named == {i \in Active : Some(ActiveHost(i)) = ResolveRequestHost(r)}
  IN  IF named = {} THEN 0 ELSE CHOOSE i \in named : TRUE

\* 400 for a missing or malformed name, 404 for one of no active tenant.
ResolutionStatus(r) == IF ResolveRequestHost(r) = None THEN 400 ELSE 404

-----------------------------------------------------------------------------
(* tangle_root, one step per access to something shared.                   *)

Serving == phase = "serve" /\ ~shutdown

Answered(c, code) ==
  /\ conn' = [conn EXCEPT ![c] = NoConn]
  /\ status' = [status EXCEPT ![c] = code]

\* A request is routed, and an upgrade goes on to the permit.
Request(c, r) ==
  /\ Serving
  /\ conn[c] = NoConn
  /\ sent[c] < MaxRequests
  /\ sent' = [sent EXCEPT ![c] = @ + 1]
  /\ CASE TenantForRequest(r) = 0 -> Answered(c, ResolutionStatus(r))
       [] TenantForRequest(r) # 0 /\ ~r.upgrade -> Answered(c, InfoStatus(r))
       [] OTHER -> /\ conn' = [conn EXCEPT ![c] = [stage |-> "permit",
                                                   tenant |-> TenantForRequest(r)]]
                   /\ UNCHANGED status
  /\ UNCHANGED <<limiterVars, mainVars, dataVars>>

\* try_open_connection, in the steps of its loop.
TakePermit(c) ==
  /\ conn[c].stage = "permit"
  /\ Load(c) \/ Exchange(c) \/ GiveUp(c)
  /\ conn' = IF step'[c] = "held" THEN [conn EXCEPT ![c].stage = "session"] ELSE conn
  /\ UNCHANGED <<mainVars, dataVars, status, sent>>

\* An error path that returns a permit it was not given.
TooManyReleasing(c) ==
  /\ conn[c].stage = "permit"
  /\ step[c] = "refused"
  /\ active' = active - 1
  /\ step' = [step EXCEPT ![c] = "idle"]
  /\ Answered(c, 429)
  /\ UNCHANGED <<seen, mainVars, dataVars, sent>>

\* 429 Too Many Requests.
TooMany(c) ==
  /\ conn[c].stage = "permit"
  /\ Refused(c)
  /\ Answered(c, 429)
  /\ UNCHANGED <<mainVars, dataVars, sent>>

\* auth_state, a receiver of the event bus and one of the shutdown signal; an
\* error is answered 500 and drops the permit.
OpenSession(c) ==
  /\ conn[c].stage = "session"
  /\ \/ /\ AuthStateValid(config.tenants[conn[c].tenant])
        /\ conn' = [conn EXCEPT ![c].stage = "upgrade"]
        /\ status' = [status EXCEPT ![c] = 101]
        /\ UNCHANGED limiterVars
     \/ /\ ~AuthStateValid(config.tenants[conn[c].tenant])
        /\ Release(c)
        /\ Answered(c, 500)
  /\ UNCHANGED <<mainVars, dataVars, sent>>

\* A permit that is not part of the closure.
UpgradeLosingPermit(c) ==
  /\ conn[c].stage = "upgrade"
  /\ \E next \in {NoConn, [conn[c] EXCEPT !.stage = "run"]} : conn' = [conn EXCEPT ![c] = next]
  /\ UNCHANGED <<limiterVars, mainVars, dataVars, status, sent>>

\* The handshake is done and the session task runs; or the client is gone, the
\* closure is dropped and the permit with it.
Upgrade(c) ==
  /\ conn[c].stage = "upgrade"
  /\ \/ conn' = [conn EXCEPT ![c].stage = "run"] /\ UNCHANGED limiterVars
     \/ conn' = [conn EXCEPT ![c] = NoConn] /\ Release(c)
  /\ UNCHANGED <<mainVars, dataVars, status, sent>>

-----------------------------------------------------------------------------
(* Sessions.                                                               *)

\* sync_after_write: with flush_on_write every write is on disk when it returns.
SyncAfterWrite(t, n) ==
  IF config.tenants[t].pocket.sync_policy = "flush_on_write" THEN n ELSE synced[t]

\* A message of the client makes the session store an event.
StoreEvent(c) ==
  LET t == conn[c].tenant
  IN  /\ conn[c].stage = "run"
      /\ stored[t] < MaxEvents
      /\ stored' = [stored EXCEPT ![t] = @ + 1]
      /\ synced' = [synced EXCEPT ![t] = SyncAfterWrite(t, stored[t] + 1)]
      /\ UNCHANGED <<limiterVars, mainVars, connVars>>

\* The task ends: the permit is dropped after session.run has returned.
EndSession(c) ==
  /\ conn[c].stage = "run"
  /\ conn' = [conn EXCEPT ![c] = NoConn]
  /\ Release(c)
  /\ UNCHANGED <<mainVars, dataVars, status, sent>>

\* The client closes, the socket fails, or the session is closed for its limits.
PeerGone(c) == EndSession(c)

\* A session that waits for the main task to be done.
SessionSeesStop(c) == phase = "stopped" /\ EndSession(c)

\* The top of the loop, and shutdown.changed in its select.
SessionSeesShutdown(c) == shutdown /\ EndSession(c)

-----------------------------------------------------------------------------
(* Shutdown.                                                               *)

\* Whoever holds the signal requests it (`tangle run` itself never does).
RequestShutdown ==
  /\ phase = "serve"
  /\ ~shutdown
  /\ shutdown' = TRUE
  /\ owed' = stored
  /\ UNCHANGED <<limiterVars, connVars, dataVars, config, phase, opened, bound, flushed>>

\* axum's serve returns once no handler is at work; sessions may still run.
HandlersDone == \A c \in Callers : conn[c].stage \notin {"permit", "session"}

ServeReturns ==
  /\ phase = "serve"
  /\ shutdown
  /\ HandlersDone
  /\ phase' = "drain"
  /\ UNCHANGED <<limiterVars, connVars, dataVars, config, opened, bound, shutdown, owed, flushed>>

NextFlushed ==
  CHOOSE i \in Active \ flushed :
    \A j \in Active \ flushed : HostRank(ActiveHost(i)) <= HostRank(ActiveHost(j))

\* A shutdown that takes the signal for enough.
FlushNothing ==
  /\ phase = "drain"
  /\ flushed # Active
  /\ flushed' = Active
  /\ UNCHANGED <<limiterVars, connVars, dataVars, config, phase, opened, bound, shutdown, owed>>

\* TangleHostRuntime::shutdown: the tenants in the order of their hosts, each
\* syncs its store.
FlushTenant ==
  /\ phase = "drain"
  /\ flushed # Active
  /\ flushed' = flushed \union {NextFlushed}
  /\ synced' = [synced EXCEPT ![NextFlushed] = stored[NextFlushed]]
  /\ UNCHANGED <<limiterVars, connVars, config, phase, opened, bound, shutdown, stored, owed>>

\* The first error ends the loop: the tenants after it are not synced.
FlushFails ==
  /\ phase = "drain"
  /\ flushed # Active
  /\ phase' = "failed"
  /\ UNCHANGED <<limiterVars, connVars, dataVars, config, opened, bound, shutdown, owed, flushed>>

Stop ==
  /\ phase = "drain"
  /\ flushed = Active
  /\ phase' = "stopped"
  /\ UNCHANGED <<limiterVars, connVars, dataVars, config, opened, bound, shutdown, owed, flushed>>

-----------------------------------------------------------------------------
Handle(c) == TakePermit(c) \/ TooMany(c) \/ OpenSession(c)
HandlerStep(c) == Handle(c) \/ Upgrade(c)
Main ==
  \/ LoadConfig \/ OpenTenant \/ OpenFails \/ Register \/ Bind
  \/ ServeReturns \/ FlushTenant \/ FlushFails \/ Stop

HostNext ==
  \/ Main
  \/ RequestShutdown
  \/ \E c \in Callers :
       \/ \E r \in Requests : Request(c, r)
       \/ HandlerStep(c)
       \/ StoreEvent(c)
       \/ PeerGone(c)
       \/ SessionSeesShutdown(c)

\* The main task, every handler and every session are tasks of one executor; a
\* client's closing, its requests and the request for shutdown are not.  Handshakes and
\* sessions write to their sockets without a timeout, the last time for the Close frame
\* of a shutdown, and look at the signal only between writes: they go on for clients that
\* keep reading.  The main task and the handlers wait for no socket.
HostFairness ==
  /\ WF_hostVars(Main)
  /\ \A c \in Callers : WF_hostVars(Handle(c))
  /\ \A c \in Readers : WF_hostVars(Upgrade(c)) /\ WF_hostVars(SessionSeesShutdown(c))

HostSpec == HostInit /\ [][HostNext]_hostVars /\ HostFairness

-----------------------------------------------------------------------------
(* Properties.                                                             *)

\* The host's state is well typed: no more tenants are open than are active, only
\* statuses of the code are answered, and no more is on disk than was stored.
HostTypeOK ==
  /\ LimiterTypeOK
  /\ phase \in Phases
  /\ opened \subseteq Active
  /\ bound \subseteq Active
  /\ shutdown \in BOOLEAN
  /\ conn \in [Callers -> [stage : Stages, tenant : Active \union {0}]]
  /\ status \in [Callers -> {0, 101, 200, 400, 404, 429, 500}]
  /\ \A t \in Tenants : synced[t] <= stored[t]
  /\ flushed \subseteq Active

\* The permits out are those of connections whose task is alive, at every step of
\* every handler and session, whatever error or end it meets (tangle_root and the
\* permit's Drop).
PermitsAreConnections ==
  /\ active = Cardinality({c \in Callers : conn[c].stage \in {"session", "upgrade", "run"}})
  /\ HostMetrics.sessions <= HostMetrics.connections
  /\ HostMetrics.connections <= HostMetrics.limit

\* A session belongs to the active tenant the client named: of the request's own
\* Host header unless a trusted proxy forwarded it, and up to letter case.
ClientNames(r, t) ==
  LET named(value) == /\ value # None
                      /\ CanonicalHost(Trim(Head(value))) = Some(ActiveHost(t))
      proxied == /\ config.host.trusted_proxy.enabled
                 /\ \E i \in DOMAIN config.host.trusted_proxy.trusted_peers :
                      config.host.trusted_proxy.trusted_peers[i].name \in {r.ip, r.addr}
  IN  \/ named(r.host)
      \/ proxied /\ (named(r.x_forwarded_host) \/ named(r.forwarded))

\* A connection is only ever routed to an active tenant that its request names
\* (tenant_for_request).
RoutedByName ==
  [][\A c \in Callers :
       conn[c] = NoConn /\ conn'[c] # NoConn
         => \A r \in Requests : Request(c, r) => ClientNames(r, conn'[c].tenant)]_hostVars

\* A host that answers ready serves: every active tenant is open under a host of
\* its own, limits that would make a channel or a permit impossible are not in
\* use, no document offers a query whose default limit is too complex or groups
\* that no key of this tenant's own signs, and no connection is turned away with
\* an internal error (config validation, readiness, nip11.rs and tangle_root).  The
\* exception is a challenge_ttl_seconds of zero, which only the session refuses.
ReadyServes ==
  /\ phase # "panicked"
  /\ ReadyStatus = 200 =>
       /\ \A i, j \in Active : ActiveHost(i) = ActiveHost(j) => i = j
       /\ \A i \in Active :
            /\ config.tenants[i].limits.broadcast_channel_capacity > 0
            /\ config.tenants[i].limits.per_connection_outbound_queue > 0
            /\ LET doc == InfoDocument(config.tenants[i])
               IN  /\ doc.limitation.default_limit <= doc.limitation.max_query_complexity
                   /\ 29 \in doc.supported_nips =>
                        /\ doc.relay_self # None
                        /\ \A j \in Active \ {i} :
                             InfoDocument(config.tenants[j]).relay_self # doc.relay_self
       /\ \A item \in Inventory : item.active <=> item.ready
  /\ \A c \in Callers :
       status[c] = 500 => \E i \in Active : config.tenants[i].auth.challenge_ttl_seconds = 0

\* When the host reports that it has stopped, every event stored before the
\* shutdown was requested is on disk, for every tenant and either sync policy,
\* although sessions may go on storing until they see the signal
\* (TangleHostRuntime::shutdown, serve_listener_until_shutdown).
FlushedAtStop ==
  phase = "stopped" => \A t \in Active : synced[t] >= owed[t]

\* A requested shutdown ends: the main task returns, whatever clients do, and no session
\* whose client keeps reading outlives the signal, also one that was being opened when it
\* was sent.
Drains ==
  /\ shutdown ~> phase \in {"stopped", "failed"}
  /\ \A c \in Readers : shutdown ~> conn[c] = NoConn
=============================================================================
