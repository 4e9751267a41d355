------------------------------ MODULE Admission ------------------------------
(***************************************************************************)
(* What the runtime does with the messages of many connections at once:    *)
(* rate limits, authentication, admission and storing of events            *)
(* (crates/tangle_runtime/src: runtime.rs, relay/core.rs, relay/auth.rs,   *)
(* session.rs), and the counters it keeps.                                 *)
(*                                                                         *)
(* A connection handles one message at a time and reads the clock once for *)
(* each; the clock may stand still, jump or go back.  Between two          *)
(* connections every access to the limiter and to the store interleaves.   *)
(* What REQ and COUNT return is the subject of Query, what the group       *)
(* service does under its lock that of GroupService.                       *)
(***************************************************************************)
EXTENDS Messages, RateLimits

CONSTANTS
  Connections,
  IpOf,         \* the address of a connection's peer, when it is known
  KeysOf,       \* the keys whose secrets the client of a connection holds
  ChallengeOf,  \* the random text a connection's challenge would be
  Inputs,       \* messages clients send
  Signed,       \* events whose id and signature verify
  HookRejects,  \* events the embedder's hook does not admit
  Auth,         \* relay URLs, challenge_ttl and created_at_skew
  GroupsEnabled,
  InitialLog,   \* what the store holds when the relay starts
  MaxMessages,  \* bound on messages
  MaxFaults     \* bound on failures of the random source and of the disk

\* BaseAuthState::new refuses zeros; challenges of 32 random bytes differ.
ASSUME AdmissionAssumption ==
  /\ IsFiniteSet(Connections)
  /\ Auth.challenge_ttl \in Nat \ {0} /\ Auth.created_at_skew \in Nat \ {0}
  /\ \A c, d \in Connections : ChallengeOf[c] = ChallengeOf[d] => c = d
  /\ GroupsEnabled \in BOOLEAN
  /\ MaxMessages \in Nat /\ MaxFaults \in Nat

VARIABLES
  conn,       \* "new", "open" or "closed"
  challenge,  \* when the challenge of a connection was issued, if it was
  authed,     \* authenticated_pubkeys
  work,       \* the message a connection is handling, if any
  log,        \* stored events and the connections that sent them
  metrics,    \* TangleRuntimeMetrics
  \* history and bounds
  accepted,   \* events that were answered with OK true
  noticed,    \* EVENT messages that were answered with an error
  messages, faults

serverVars == <<conn, challenge, authed, log, accepted, noticed, messages, faults>>
vars == <<limiterVars, serverVars, work, metrics>>

-----------------------------------------------------------------------------
(* Counters.                                                               *)

MetricNames ==
  {"active_sessions", "total_sessions", "client_messages", "event_messages", "req_messages",
   "count_messages", "auth_messages", "close_messages", "stored_event_offsets",
   "rate_limit_rejections", "auth_successes", "auth_failures", "event_admissions",
   "event_rejections", "group_write_denials", "count_refusals", "broad_query_rejections"}

NoMetrics == [n \in MetricNames |-> 0]

\* record_client_message
KindCounter(type) ==
  CASE type = "EVENT" -> {"event_messages"}
    [] type = "REQ" -> {"req_messages"}
    [] type = "COUNT" -> {"count_messages"}
    [] type = "AUTH" -> {"auth_messages"}
    [] type = "CLOSE" -> {"close_messages"}
    [] OTHER -> {}

Counted(names) == [n \in MetricNames |-> IF n \in names THEN metrics[n] + 1 ELSE metrics[n]]
Bump(names) == metrics' = Counted(names)

\* record_session_closed stops at zero.
SessionClosed == metrics' = [metrics EXCEPT !.active_sessions = IF @ = 0 THEN 0 ELSE @ - 1]

Init ==
  /\ LimiterInit
  /\ conn = [c \in Connections |-> "new"]
  /\ challenge = [c \in Connections |-> None]
  /\ authed = [c \in Connections |-> {}]
  /\ work = [c \in Connections |-> None]
  /\ log = InitialLog /\ accepted = {}
  /\ metrics = NoMetrics
  /\ noticed = 0 /\ messages = 0 /\ faults = 0

-----------------------------------------------------------------------------
(* What is decided about an event elsewhere.                               *)

\* verify_pocket_event_signature: the id is the hash and the signature is its author's.
Verifies(e) == e \in Signed

\* RelayRuntimeHooks::admit_event; without a hook every event is admitted.
AdmitEvent(e) == e \notin HookRejects

-----------------------------------------------------------------------------
(* The keys a message is counted under, in order.                          *)

IpKey(scope, ip) == <<"ip", scope, ip>>
PubkeyKey(scope, pubkey) == <<"pubkey", scope, pubkey>>
GroupKey(scope, g) == <<"group", scope, g>>
KindKey(scope, kind) == <<"kind", scope, kind>>
AuthFailureIp(ip) == <<"failure_ip", ip>>
AuthFailurePubkey(pubkey) == <<"failure", pubkey>>
JoinFlowIp(g, ip) == <<"join_ip", g, ip>>
JoinFlow(g, pubkey) == <<"join", g, pubkey>>
ConnectionKey(scope, c) == <<"connection", scope, c>>
BroadKey(scope) == <<"broad", scope>>

WithIp(c, K(_)) == IF IpOf[c] = None THEN <<>> ELSE <<K(IpOf[c][1])>>

EventCharges(c, e) ==
  WithIp(c, LAMBDA ip : IpKey("event", ip)) \o <<PubkeyKey("event", e.pubkey), KindKey("event", e.kind)>>

AuthAttemptCharges(c, e) ==
  WithIp(c, LAMBDA ip : IpKey("auth", ip)) \o <<PubkeyKey("auth", e.pubkey)>>

AuthFailureCharges(c, e) == WithIp(c, AuthFailureIp) \o <<AuthFailurePubkey(e.pubkey)>>

IsGroupEvent(e) == GroupsEnabled /\ ClientGroupStructure(e) /\ ClassifyGroupEvent(e) # NonGroup

GroupWriteCharges(c, e) ==
  IF ~IsGroupEvent(e) THEN <<>>
  ELSE LET g == ClassifyGroupEvent(e)[2]
       IN (IF e.kind # 9021 THEN <<>>
           ELSE WithIp(c, LAMBDA ip : JoinFlowIp(g, ip)) \o <<JoinFlow(g, e.pubkey)>>)
          \o WithIp(c, LAMBDA ip : IpKey("group", ip))
          \o <<PubkeyKey("group", e.pubkey), GroupKey("group", g), KindKey("group", e.kind)>>

\* pocket_filter_group_ids, pocket_filter_kinds
MaxGroupIdBytes == 128
FilterGroups(filters) ==
  UNION {UNION {{t \in ToSet(Tail(tag)) : GroupIdNew(t, MaxGroupIdBytes) # None} :
                tag \in {x \in ToSet(f.tags) : x[1].name \in {"h", "d"}}} : f \in ToSet(filters)}
FilterKinds(filters) == UNION {ToSet(f.kinds) : f \in ToSet(filters)}

KeysFor(values, K(_)) == LET s == SetToSeq(values) IN [i \in DOMAIN s |-> K(s[i])]

\* rate_limit_pocket_query
QueryCharges(c, scope, filters, broad) ==
  WithIp(c, LAMBDA ip : IpKey(scope, ip))
  \o <<ConnectionKey(scope, c)>>
  \o KeysFor(authed[c], LAMBDA pubkey : PubkeyKey(scope, pubkey))
  \o KeysFor(FilterGroups(filters), LAMBDA g : GroupKey(scope, g))
  \o KeysFor(FilterKinds(filters), LAMBDA kind : KindKey(scope, kind))
  \o (IF broad THEN <<BroadKey(scope)>> ELSE <<>>)

-----------------------------------------------------------------------------
(* Connections and their messages.                                         *)

Working(m, now, charges, then) ==
  Some([msg |-> m, now |-> now, charges |-> charges, then |-> then])

\* run and issue_auth_challenge; a failing random source leaves the connection without
\* a challenge.
Connect(c, now) ==
  /\ conn[c] = "new"
  /\ conn' = [conn EXCEPT ![c] = "open"]
  /\ \/ challenge' = [challenge EXCEPT ![c] = Some(now)] /\ UNCHANGED faults
     \/ faults < MaxFaults /\ faults' = faults + 1 /\ UNCHANGED challenge
  /\ Bump({"active_sessions", "total_sessions"})
  /\ UNCHANGED <<limiterVars, authed, work, log, accepted, noticed, messages>>

Disconnect(c) ==
  /\ conn[c] = "open" /\ work[c] = None
  /\ conn' = [conn EXCEPT ![c] = "closed"]
  /\ challenge' = [challenge EXCEPT ![c] = None]
  /\ authed' = [authed EXCEPT ![c] = {}]
  /\ SessionClosed
  /\ UNCHANGED <<limiterVars, work, log, accepted, noticed, messages, faults>>

\* A message reaches the runtime and is counted.
Message(c) ==
  /\ conn[c] = "open" /\ work[c] = None
  /\ messages < MaxMessages /\ messages' = messages + 1
  /\ UNCHANGED <<limiterVars, conn, challenge, authed, log, accepted, noticed, faults>>

Begin(c, m, now, charges, then) ==
  /\ work' = [work EXCEPT ![c] = Working(m, now, charges, then)]
  /\ Bump({"client_messages"} \union KindCounter(m.type))

\* The message is answered at once, or needs no answer.
AnswerAtOnce(m, names) ==
  /\ Bump({"client_messages"} \union KindCounter(m.type) \union names)
  /\ UNCHANGED work

ReceiveEvent(c, m, now) ==
  /\ m.type = "EVENT" /\ Message(c)
  /\ Begin(c, m, now, EventCharges(c, m.event) \o GroupWriteCharges(c, m.event), "admit")

ReceiveAuth(c, m, now) ==
  /\ m.type = "AUTH" /\ Message(c)
  /\ IF ValidatePocketEventShape(m.event)
     THEN Begin(c, m, now, AuthAttemptCharges(c, m.event), "authenticate")
     ELSE AnswerAtOnce(m, {"auth_failures"})

ValidQuery(m) == ValidateSubscriptionId(m.sub) /\ ValidateFilters(m.filters)

\* handle_req up to the query; an invalid one is a NOTICE, search is CLOSED.
ReceiveReq(c, m, now) ==
  /\ m.type = "REQ" /\ Message(c)
  /\ IF ValidQuery(m) /\ ~m.search
     THEN Begin(c, m, now, QueryCharges(c, "req", m.filters, QueryBroad(m.filters)), "query")
     ELSE AnswerAtOnce(m, {})

\* refuse_broad_count comes before the limits, which never see a broad COUNT.
ReceiveCount(c, m, now) ==
  /\ m.type = "COUNT" /\ Message(c)
  /\ IF ~ValidQuery(m) \/ m.search THEN AnswerAtOnce(m, {})
     ELSE IF CountBroad(m.filters) THEN AnswerAtOnce(m, {"count_refusals", "broad_query_rejections"})
     ELSE Begin(c, m, now, QueryCharges(c, "count", m.filters, FALSE), "query")

ReceiveOther(c, m) ==
  /\ m.type \in {"CLOSE", "NEG-OPEN", "NEG-MSG", "NEG-CLOSE"} /\ Message(c)
  /\ AnswerAtOnce(m, {})

-----------------------------------------------------------------------------
(* Handling: one access to the limiter or to the store at a time.          *)

Handling(c, step) == work[c] # None /\ work[c][1].charges = <<>> /\ work[c][1].then = step

Answer(c, names) == work' = [work EXCEPT ![c] = None] /\ Bump(names)

\* record_event_metrics of an OK false
RejectionMetrics(e) == {"event_rejections"} \union (IF IsGroupEvent(e) THEN {"group_write_denials"} ELSE {})

\* rate_limit_ok_pocket and rate_limit_closed: the next key has room ...
Charge(c) ==
  /\ work[c] # None /\ work[c][1].charges # <<>>
  /\ Hit(work[c][1].charges[1], work[c][1].now)
  /\ work' = [work EXCEPT ![c][1].charges = Tail(@)]
  /\ UNCHANGED <<serverVars, metrics>>

\* Mutation: a failure over its limit is counted as another failed attempt.
LimitMetricsAgain(w) ==
  {"rate_limit_rejections"} \union
  CASE w.then = "admit" -> RejectionMetrics(w.msg.event)
    [] w.then \in {"authenticate", "refuse"} -> {"auth_failures"}
    [] OTHER -> IF w.charges[1] = BroadKey("req") THEN {"broad_query_rejections"} ELSE {}

\* What a rejection counts as; an AUTH that failed was counted when it failed.
LimitMetrics(w) ==
  {"rate_limit_rejections"} \union
  CASE w.then = "admit" -> RejectionMetrics(w.msg.event)
    [] w.then = "authenticate" -> {"auth_failures"}
    [] w.then = "refuse" -> {}
    [] OTHER -> IF w.charges[1] = BroadKey("req") THEN {"broad_query_rejections"} ELSE {}

\* ... or the message is refused: OK false, or CLOSED.
Limited(c) ==
  /\ work[c] # None /\ work[c][1].charges # <<>>
  /\ Reject(work[c][1].charges[1], work[c][1].now)
  /\ Answer(c, LimitMetrics(work[c][1]))
  /\ UNCHANGED serverVars

AnswerQuery(c) ==
  /\ Handling(c, "query")
  /\ Answer(c, {})
  /\ UNCHANGED <<limiterVars, serverVars>>

-----------------------------------------------------------------------------
(* Authentication.                                                         *)

\* required_single_pocket_tag_value
SingleTagValue(e, name) ==
  LET named == SelectSeq(e.tags, LAMBDA tag : tag[1].name = name)
  IN IF Len(named) = 1 /\ Len(named[1]) > 1 THEN Some(named[1][2]) ELSE None

\* parse_base_relay_pocket_auth_event
ParseAuthEvent(e) ==
  LET relay == SingleTagValue(e, "relay")
      answer == SingleTagValue(e, "challenge")
  IN IF e.kind = 22242 /\ AllSome(<<relay, answer>>) /\ relay[1].length > 0 /\ answer[1].length > 0
     THEN Some([relay |-> relay[1], challenge |-> answer[1]]) ELSE None

\* Only the holder of a key signs with it, and a client answers for no connection but
\* its own: the challenge of another is random and is not sent to it.
ASSUME SignerAssumption ==
  \A e \in Signed, c \in Connections :
    /\ ParseAuthEvent(e) # None
    /\ ParseAuthEvent(e)[1].challenge = ChallengeOf[c]
    => e.pubkey \in KeysOf[c]

\* Mutation: a challenge of this relay will do.
AuthenticatesAnyChallenge(c, e, now) ==
  LET auth == ParseAuthEvent(e) IN
  /\ Verifies(e) /\ auth # None /\ challenge[c] # None
  /\ auth[1].relay \in Auth.relay_urls
  /\ \E d \in Connections : auth[1].challenge = ChallengeOf[d]
  /\ now <= challenge[c][1] + Auth.challenge_ttl
  /\ e.created_at + Auth.created_at_skew >= now
  /\ e.created_at <= now + Auth.created_at_skew

\* authenticate_pocket
Authenticates(c, e, now) ==
  LET auth == ParseAuthEvent(e) IN
  /\ Verifies(e) /\ auth # None /\ challenge[c] # None
  /\ auth[1].relay \in Auth.relay_urls
  /\ auth[1].challenge = ChallengeOf[c]
  /\ now <= challenge[c][1] + Auth.challenge_ttl
  /\ e.created_at + Auth.created_at_skew >= now
  /\ e.created_at <= now + Auth.created_at_skew

Authenticate(c) ==
  /\ Handling(c, "authenticate")
  /\ LET e == work[c][1].msg.event IN
     /\ Authenticates(c, e, work[c][1].now)
     /\ authed' = [authed EXCEPT ![c] = @ \union {e.pubkey}]
     /\ Answer(c, {"auth_successes"})
  /\ UNCHANGED <<limiterVars, conn, challenge, log, accepted, noticed, messages, faults>>

\* A failure has limits of its own, and is refused whether or not they are reached.
AuthFails(c) ==
  /\ Handling(c, "authenticate")
  /\ LET w == work[c][1] IN
     /\ ~Authenticates(c, w.msg.event, w.now)
     /\ work' = [work EXCEPT ![c] =
                   Working(w.msg, w.now, AuthFailureCharges(c, w.msg.event), "refuse")]
  /\ Bump({"auth_failures"})
  /\ UNCHANGED <<limiterVars, serverVars>>

AuthRefused(c) ==
  /\ Handling(c, "refuse")
  /\ Answer(c, {})
  /\ UNCHANGED <<limiterVars, serverVars>>

-----------------------------------------------------------------------------
(* Events.                                                                 *)

Stored(e) == \E i \in DOMAIN log : log[i].event.id = e.id

\* What the store holds at first was stored by the same rules.
ASSUME InitialLogAssumption ==
  /\ InitialLog \in Seq({InitialLog[i] : i \in DOMAIN InitialLog})
  /\ \A i, j \in DOMAIN InitialLog : InitialLog[i].event.id = InitialLog[j].event.id => i = j
  /\ \A i \in DOMAIN InitialLog :
       IsProtected(InitialLog[i].event) \/ ClassifyGroupEvent(InitialLog[i].event) # NonGroup
         => InitialLog[i].event.pubkey \in KeysOf[InitialLog[i].by]

\* Mutation: NIP-70 holds for connections that did not authenticate at all.
RejectedIfAnonymous(c, e) ==
  \/ ~AdmitEvent(e)
  \/ ~ValidatePocketEventShape(e)
  \/ ~Verifies(e)
  \/ IsProtected(e) /\ authed[c] = {}
  \/ ~ClientGroupStructure(e)
  \/ ClassifyGroupEvent(e) # NonGroup /\ ~GroupsEnabled

\* The checks of admit_event and of handle_pocket_event before the store is asked.
Rejected(c, e) ==
  \/ ~AdmitEvent(e)
  \/ ~ValidatePocketEventShape(e)
  \/ ~Verifies(e)
  \/ IsProtected(e) /\ e.pubkey \notin authed[c]
  \/ ~ClientGroupStructure(e)
  \/ ClassifyGroupEvent(e) # NonGroup /\ ~GroupsEnabled

RejectEvent(c) ==
  /\ Handling(c, "admit")
  /\ Rejected(c, work[c][1].msg.event)
  /\ Answer(c, RejectionMetrics(work[c][1].msg.event))
  /\ UNCHANGED <<limiterVars, serverVars>>

\* OK true, for an event that was not stored now: ephemeral, or a duplicate.
AcceptUnstored(c, e) ==
  /\ accepted' = accepted \union {e}
  /\ Answer(c, {"event_admissions"})
  /\ UNCHANGED <<limiterVars, conn, challenge, authed, log, noticed, messages, faults>>

\* The event is appended, its offset published (with those of the events the group service
\* generates from it, which are left out here) and its sender answered, ...
AppendEvent(c, e) ==
  /\ log' = Append(log, [event |-> e, by |-> c])
  /\ accepted' = accepted \union {e}
  /\ Answer(c, {"stored_event_offsets", "event_admissions"})
  /\ UNCHANGED <<limiterVars, conn, challenge, authed, noticed, messages, faults>>

\* ... or the disk fails after it was appended: an error, which is a NOTICE.
AppendFails(c, e) ==
  /\ faults < MaxFaults /\ faults' = faults + 1
  /\ log' = Append(log, [event |-> e, by |-> c])
  /\ noticed' = noticed + 1
  /\ Answer(c, {})
  /\ UNCHANGED <<limiterVars, conn, challenge, authed, accepted, messages>>

\* store_group_pocket_event, under the lock of the group service.  The policy may refuse
\* an event of an authenticated author.
GroupEvent(c) ==
  /\ Handling(c, "admit")
  /\ LET e == work[c][1].msg.event IN
     /\ ~Rejected(c, e) /\ ClassifyGroupEvent(e) # NonGroup
     /\ \/ Answer(c, RejectionMetrics(e)) /\ UNCHANGED <<limiterVars, serverVars>>
        \/ e.pubkey \in authed[c] /\ Stored(e) /\ AcceptUnstored(c, e)
        \/ e.pubkey \in authed[c] /\ ~Stored(e) /\ (AppendEvent(c, e) \/ AppendFails(c, e))

\* An ephemeral event is accepted and goes nowhere.
EphemeralEvent(c) ==
  /\ Handling(c, "admit")
  /\ LET e == work[c][1].msg.event IN
     /\ ~Rejected(c, e) /\ ClassifyGroupEvent(e) = NonGroup
     /\ KindClass(e.kind) = "ephemeral"
     /\ AcceptUnstored(c, e)

\* event_by_id, without a lock ...
LookUp(c) ==
  /\ Handling(c, "admit")
  /\ LET e == work[c][1].msg.event IN
     /\ ~Rejected(c, e) /\ ClassifyGroupEvent(e) = NonGroup
     /\ KindClass(e.kind) # "ephemeral"
     /\ IF Stored(e) THEN AcceptUnstored(c, e)
        ELSE /\ work' = [work EXCEPT ![c][1].then = "store"]
             /\ UNCHANGED <<limiterVars, serverVars, metrics>>

\* Mutation: the store takes an event it holds.
StoreAgain(c) ==
  /\ Handling(c, "store")
  /\ LET e == work[c][1].msg.event IN AppendEvent(c, e) \/ AppendFails(c, e)

\* ... and store_event, which refuses an event that was stored in between: a NOTICE.
StoreEvent(c) ==
  /\ Handling(c, "store")
  /\ LET e == work[c][1].msg.event IN
     \/ ~Stored(e) /\ (AppendEvent(c, e) \/ AppendFails(c, e))
     \/ /\ Stored(e)
        /\ noticed' = noticed + 1
        /\ Answer(c, {})
        /\ UNCHANGED <<limiterVars, conn, challenge, authed, log, accepted, messages, faults>>

-----------------------------------------------------------------------------
Receive(c) ==
  \E m \in Inputs, now \in Readings :
    \/ ReceiveEvent(c, m, now) \/ ReceiveAuth(c, m, now)
    \/ ReceiveReq(c, m, now) \/ ReceiveCount(c, m, now) \/ ReceiveOther(c, m)

Handle(c) ==
  \/ Charge(c) \/ Limited(c) \/ AnswerQuery(c)
  \/ Authenticate(c) \/ AuthFails(c) \/ AuthRefused(c)
  \/ RejectEvent(c) \/ GroupEvent(c) \/ EphemeralEvent(c) \/ LookUp(c) \/ StoreEvent(c)

Next ==
  \E c \in Connections :
    \/ \E now \in Readings : Connect(c, now)
    \/ Disconnect(c) \/ Receive(c) \/ Handle(c)

Spec == Init /\ [][Next]_vars

-----------------------------------------------------------------------------
(* Properties *)

\* A connection has only the keys of its own client, although the events that
\* authenticate others may be replayed on it (relay/auth.rs, authenticate_pocket).
NoBorrowedIdentity == \A c \in Connections : authed[c] \subseteq KeysOf[c]

\* Protected events and events of groups are stored only when their author sent them
\* (NIP-70 in relay/core.rs, require_group_auth_as_author in the group service).
OnlyAuthorsStore ==
  \A i \in DOMAIN log :
    IsProtected(log[i].event) \/ ClassifyGroupEvent(log[i].event) # NonGroup
      => log[i].event.pubkey \in KeysOf[log[i].by]

\* An event whose sender was told OK is stored, unless it is ephemeral, and no event is
\* stored twice, however many connections send it at once (relay/core.rs:1221).
AcceptedIsStored ==
  /\ \A e \in accepted : Stored(e) \/ KindClass(e.kind) = "ephemeral"
  /\ \A i, j \in DOMAIN log : log[i].event.id = log[j].event.id => i = j

\* The counters agree with each other at every moment: each EVENT was admitted, rejected
\* or failed, each AUTH succeeded or failed once, and the sessions are those open.
MetricsAddUp ==
  LET InWork(type, steps) ==
        Cardinality({c \in Connections :
          work[c] # None /\ work[c][1].msg.type = type /\ work[c][1].then \in steps})
  IN
  /\ metrics.event_messages = metrics.event_admissions + metrics.event_rejections + noticed
                              + InWork("EVENT", {"admit", "store"})
  /\ metrics.auth_messages = metrics.auth_successes + metrics.auth_failures
                             + InWork("AUTH", {"authenticate"})
  /\ metrics.active_sessions = Cardinality({c \in Connections : conn[c] = "open"})
  /\ metrics.group_write_denials <= metrics.event_rejections
  /\ metrics.stored_event_offsets <= Len(log) - Len(InitialLog)
=============================================================================
