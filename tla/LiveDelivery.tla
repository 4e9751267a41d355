---------------------------- MODULE LiveDelivery ----------------------------
(***************************************************************************)
(* Live delivery of stored events: the event bus                           *)
(* (crates/tangle_runtime/src/event_bus.rs, a tokio broadcast channel),    *)
(* the WebSocket sessions (session.rs) with their subscriptions            *)
(* (relay/live.rs) and bounded outbound queues, and the part of the        *)
(* runtime that stores an event and publishes its offsets (runtime.rs).    *)
(*                                                                         *)
(* Sessions are tasks that run in parallel.  A session handles one message *)
(* or one offset of the bus at a time; while it does, other sessions store *)
(* and publish.  The client of session s authenticates with a key of its   *)
(* own; whether that key may read the private group is decided by the      *)
(* group's members, which group events change.                             *)
(***************************************************************************)
EXTENDS Integers, Sequences, FiniteSets

CONSTANTS
  Sessions,
  Publishers,     \* sessions whose clients send EVENT messages
  Subscribers,    \* sessions whose clients send REQ, CLOSE and AUTH messages
  Readers,        \* sessions whose clients keep reading what is sent to them
  Topics,         \* what events are about: "public", "group" (the private group)
  SubIds,         \* subscription ids, of each connection
  BusCapacity,    \* broadcast_channel_capacity (tokio rounds it up to a power of 2)
  QueueCapacity,  \* per_connection_outbound_queue
  MaxSubs,        \* max_subscriptions_per_connection
  MaxHostSubs,    \* host total of subscriptions
  MaxEvents,      \* bound on stored events
  MaxCommands,    \* bound on REQ and CLOSE messages
  MaxFaults       \* bound on failed store operations

ASSUME LiveAssumption ==
  /\ {BusCapacity, QueueCapacity, MaxSubs, MaxHostSubs} \subseteq Nat \ {0}
  /\ {MaxEvents, MaxCommands, MaxFaults} \subseteq Nat
  /\ Topics \subseteq {"public", "group"}
  /\ Publishers \subseteq Sessions /\ Subscribers \subseteq Sessions
  /\ Readers \subseteq Sessions
  /\ IsFiniteSet(Sessions) /\ IsFiniteSet(SubIds) /\ SubIds # {}

VARIABLES
  log,       \* stored events, by offset
  members,   \* sessions whose keys are members of the private group
  bus,       \* published offsets, oldest first
  phase,     \* what the task of a session is doing
  next,      \* place in the bus of a session's receiver
  queued,    \* length of a session's outbound queue
  authed,    \* sessions that authenticated
  toPublish, \* offsets a session has stored and not published
  req,       \* a REQ that was queried and not answered yet
  subs,      \* a session's subscriptions
  permits,   \* subscriptions a session holds a permit of the host for
  \* history and bounds
  lost,      \* offsets whose operation failed after they were stored
  told,      \* what the client was last told of a subscription id
  commands, faults

relay == <<log, members, bus, lost, faults>>
tasks == <<phase, next, queued, authed, toPublish, req>>
vars == <<relay, tasks, subs, permits, told, commands>>

Changes == {"none", "put", "remove"}

\* "change" is what the event does to the membership of the keys of "who".
LogEvents == [topic : Topics, change : Changes, who : SUBSET Sessions]

\* A subscription: its filters, as the topics they match, the offsets sent under it
\* since it was opened and the offsets the read gate withheld.
NoSub == [filter |-> {}, seen |-> {}, withheld |-> {}]
NoSubs == [x \in SubIds |-> NoSub]

Active(s) == {x \in SubIds : subs[s][x].filter # {}}

NoReq == [sub |-> CHOOSE x \in SubIds : TRUE, filter |-> {}, complete |-> FALSE,
          hits |-> {}, denied |-> FALSE]

Init ==
  /\ log = <<>> /\ members = {} /\ bus = <<>> /\ lost = {} /\ faults = 0
  /\ phase = [s \in Sessions |-> "none"]
  /\ next = [s \in Sessions |-> 1]
  /\ queued = [s \in Sessions |-> 0]
  /\ authed = {}
  /\ toPublish = [s \in Sessions |-> <<>>]
  /\ req = [s \in Sessions |-> NoReq]
  /\ subs = [s \in Sessions |-> NoSubs]
  /\ permits = [s \in Sessions |-> {}]
  /\ told = [s \in Sessions |-> [x \in SubIds |-> "none"]]
  /\ commands = 0

-----------------------------------------------------------------------------
(* Reading *)

\* Mutation: a session that authenticated at all may read the group.
ReadableAuthed(s, o) == log[o].topic = "public" \/ s \in authed

\* group_read_gate_visible_to_auth, with what the session and the group are now
Readable(s, o) == log[o].topic = "public" \/ (s \in authed /\ s \in members)

Matching(f) == {o \in DOMAIN log : log[o].topic \in f}

HostSubs == {h \in Sessions \X SubIds : h[2] \in permits[h[1]]}

-----------------------------------------------------------------------------
(* The end of a session: everything it holds is dropped. *)

End(s) ==
  /\ phase' = [phase EXCEPT ![s] = "none"]
  /\ next' = [next EXCEPT ![s] = 1]
  /\ queued' = [queued EXCEPT ![s] = 0]
  /\ authed' = authed \ {s}
  /\ req' = [req EXCEPT ![s] = NoReq]
  /\ subs' = [subs EXCEPT ![s] = NoSubs]
  /\ permits' = [permits EXCEPT ![s] = {}]
  /\ told' = [told EXCEPT ![s] = [x \in SubIds |-> "none"]]
  /\ UNCHANGED toPublish

\* n messages are put into the outbound queue with try_send; a session whose queue
\* is full is closed.
Fits(s, n) == queued[s] + n <= QueueCapacity

\* Mutation: one message is always taken.
EnqueueUnbounded(s, n) ==
  /\ n = 1 \/ Fits(s, n)
  /\ queued' = [queued EXCEPT ![s] = @ + n]

Enqueue(s, n) ==
  /\ Fits(s, n)
  /\ queued' = [queued EXCEPT ![s] = @ + n]

CloseFull(s, n) == ~Fits(s, n) /\ End(s)

Command(s) ==
  /\ s \in Subscribers /\ phase[s] = "ready"
  /\ commands < MaxCommands /\ commands' = commands + 1

-----------------------------------------------------------------------------
(* Sessions *)

\* tangle_root: the receiver of the bus exists before the session runs, and the
\* first message is the authentication challenge.
Connect(s) ==
  /\ phase[s] = "none"
  /\ phase' = [phase EXCEPT ![s] = "ready"]
  /\ next' = [next EXCEPT ![s] = Len(bus) + 1]
  /\ Enqueue(s, 1)
  /\ UNCHANGED <<relay, authed, toPublish, req, subs, permits, told, commands>>

\* The peer goes away, the socket fails, or the relay shuts down.
Disconnect(s) ==
  /\ phase[s] = "ready"
  /\ End(s)
  /\ UNCHANGED <<relay, commands>>

\* AUTH with a valid answer to the challenge; sessions only gain keys.
Authenticate(s) ==
  /\ s \in Subscribers /\ phase[s] = "ready"
  /\ \/ /\ Enqueue(s, 1)
        /\ authed' = authed \cup {s}
        /\ UNCHANGED <<phase, next, toPublish, req, subs, permits, told>>
     \/ CloseFull(s, 1)
  /\ UNCHANGED <<relay, commands>>

\* A message that changes nothing is answered with one: COUNT, an EVENT that is
\* refused or was stored before, and what is malformed or too long.
Reply(s) ==
  /\ phase[s] = "ready"
  /\ \/ /\ Enqueue(s, 1)
        /\ UNCHANGED <<phase, next, authed, toPublish, req, subs, permits, told>>
     \/ CloseFull(s, 1)
  /\ UNCHANGED <<relay, commands>>

\* An EVENT that is accepted is stored, with the events generated from it, and the
\* group is updated, under the lock of the group service ...
Store(s, events) ==
  /\ s \in Publishers /\ phase[s] = "ready"
  /\ Len(log) + Len(events) <= MaxEvents
  /\ log' = log \o events
  /\ members' = LET c == events[Len(events)] IN
                CASE c.change = "put" -> members \cup c.who
                  [] c.change = "remove" -> members \ c.who
                  [] OTHER -> members
  /\ toPublish' = [toPublish EXCEPT ![s] = [i \in 1..Len(events) |-> Len(log) + i]]
  /\ phase' = [phase EXCEPT ![s] = "publishing"]
  /\ UNCHANGED <<bus, lost, faults, next, queued, authed, req, subs, permits, told,
                 commands>>

\* ... and its offsets are published one by one after the lock was released.
Publish(s) ==
  /\ phase[s] = "publishing" /\ toPublish[s] # <<>>
  /\ bus' = Append(bus, Head(toPublish[s]))
  /\ toPublish' = [toPublish EXCEPT ![s] = Tail(@)]
  /\ UNCHANGED <<log, members, lost, faults, phase, next, queued, authed, req, subs,
                 permits, told, commands>>

AnswerEvent(s) ==
  /\ phase[s] = "publishing" /\ toPublish[s] = <<>>
  /\ \/ /\ Enqueue(s, 1)
        /\ phase' = [phase EXCEPT ![s] = "ready"]
        /\ UNCHANGED <<next, authed, toPublish, req, subs, permits, told>>
     \/ CloseFull(s, 1)
  /\ UNCHANGED <<relay, commands>>

\* The store operation fails after the event itself was stored: the error is
\* returned before any offset is published.
StoreFails(s, e) ==
  /\ s \in Publishers /\ phase[s] = "ready"
  /\ faults < MaxFaults /\ faults' = faults + 1
  /\ Len(log) < MaxEvents
  /\ log' = Append(log, e)
  /\ lost' = lost \cup {Len(log) + 1}
  /\ \/ /\ Enqueue(s, 1)
        /\ UNCHANGED <<phase, next, authed, toPublish, req, subs, permits, told>>
     \/ CloseFull(s, 1)
  /\ UNCHANGED <<members, bus, commands>>

\* A REQ that is refused before the query: rate limits and search answer CLOSED,
\* a connection with too many subscriptions is sent a NOTICE.
RefuseReq(s, x) ==
  /\ Command(s)
  /\ \/ /\ Enqueue(s, 1)
        /\ told' = [told EXCEPT ![s][x] = "closed"]
        /\ UNCHANGED <<phase, next, authed, toPublish, req, subs, permits>>
     \/ CloseFull(s, 1)
  /\ UNCHANGED relay

RejectReq(s, x) ==
  /\ Command(s)
  /\ x \notin Active(s) /\ Cardinality(Active(s)) >= MaxSubs
  /\ \/ /\ Enqueue(s, 1)
        /\ UNCHANGED <<phase, next, authed, toPublish, req, subs, permits, told>>
     \/ CloseFull(s, 1)
  /\ UNCHANGED relay

\* handle_req up to the query.  "complete" filters ask for events by id and open no
\* subscription.
Query(s, x, f, complete) ==
  /\ Command(s)
  /\ complete \/ x \in Active(s) \/ Cardinality(Active(s)) < MaxSubs
  /\ req' = [req EXCEPT ![s] =
       [sub |-> x, filter |-> f, complete |-> complete,
        hits |-> {o \in Matching(f) : Readable(s, o)},
        denied |-> \E o \in Matching(f) : ~Readable(s, o)]]
  /\ phase' = [phase EXCEPT ![s] = "subscribing"]
  /\ UNCHANGED <<relay, next, queued, authed, toPublish, subs, permits, told>>

Subscribes(r) == ~r.complete /\ ~r.denied

NeedsPermit(s, r) == Subscribes(r) /\ r.sub \notin Active(s)

\* The answer of a REQ: the events and EOSE, or CLOSED where some may not be read.
AnswerReq(s) ==
  LET r == req[s]
      n == Cardinality(r.hits) + 1
  IN
  /\ phase[s] = "subscribing"
  /\ NeedsPermit(s, r) => Cardinality(HostSubs) < MaxHostSubs
  /\ \/ /\ Enqueue(s, n)
        /\ IF Subscribes(r)
           THEN /\ subs' = [subs EXCEPT ![s][r.sub] =
                     [filter |-> r.filter, seen |-> r.hits, withheld |-> {}]]
                /\ permits' = [permits EXCEPT ![s] = @ \cup {r.sub}]
           ELSE UNCHANGED <<subs, permits>>
        /\ told' = IF r.denied THEN [told EXCEPT ![s][r.sub] = "closed"]
                   ELSE IF r.complete THEN told
                   ELSE [told EXCEPT ![s][r.sub] = "open"]
        /\ req' = [req EXCEPT ![s] = NoReq]
        /\ phase' = [phase EXCEPT ![s] = "ready"]
        /\ UNCHANGED <<next, authed, toPublish>>
     \/ CloseFull(s, n)
  /\ UNCHANGED <<relay, commands>>

\* "host total subscription limit exceeded": a NOTICE takes the place of the answer.
RefusePermit(s) ==
  /\ phase[s] = "subscribing"
  /\ NeedsPermit(s, req[s]) /\ Cardinality(HostSubs) >= MaxHostSubs
  /\ \/ /\ Enqueue(s, 1)
        /\ req' = [req EXCEPT ![s] = NoReq]
        /\ phase' = [phase EXCEPT ![s] = "ready"]
        /\ UNCHANGED <<next, authed, toPublish, subs, permits, told>>
     \/ CloseFull(s, 1)
  /\ UNCHANGED <<relay, commands>>

\* Mutation: the permit is kept.
CloseSubKeepingPermit(s, x) ==
  /\ Command(s)
  /\ x \in Active(s)
  /\ subs' = [subs EXCEPT ![s][x] = NoSub]
  /\ told' = [told EXCEPT ![s][x] = "none"]
  /\ UNCHANGED <<relay, tasks, permits>>

\* CLOSE
CloseSub(s, x) ==
  /\ Command(s)
  /\ x \in Active(s)
  /\ subs' = [subs EXCEPT ![s][x] = NoSub]
  /\ permits' = [permits EXCEPT ![s] = @ \ {x}]
  /\ told' = [told EXCEPT ![s][x] = "none"]
  /\ UNCHANGED <<relay, tasks>>

-----------------------------------------------------------------------------
(* The receiver of the bus *)

\* Mutation: the newest offset is left in the channel.
HasNextButOne(s) == phase[s] = "ready" /\ next[s] < Len(bus)

HasNext(s) == phase[s] = "ready" /\ next[s] <= Len(bus)

\* The channel keeps the last BusCapacity offsets.
Lags(s) == Len(bus) - next[s] + 1 > BusCapacity

\* Mutation: the receiver goes on with what is left in the channel.
SkipLagging(s) ==
  /\ HasNext(s) /\ Lags(s)
  /\ next' = [next EXCEPT ![s] = Len(bus) - BusCapacity + 1]
  /\ UNCHANGED <<relay, phase, queued, authed, toPublish, req, subs, permits, told,
                 commands>>

\* A receiver that lags behind loses its session.
CloseLagging(s) ==
  /\ HasNext(s) /\ Lags(s)
  /\ End(s)
  /\ UNCHANGED <<relay, commands>>

\* handle_event_offset: every subscription that matches gets the event if the
\* session may read it now.
Fanout(s) ==
  LET o == bus[next[s]]
      hit == {x \in Active(s) : log[o].topic \in subs[s][x].filter}
      sent == {x \in hit : Readable(s, o)}
  IN
  /\ HasNext(s) /\ ~Lags(s)
  /\ \/ /\ Enqueue(s, Cardinality(sent))
        /\ subs' = [subs EXCEPT ![s] = [x \in SubIds |->
             CASE x \in sent -> [subs[s][x] EXCEPT !.seen = @ \cup {o}]
               [] x \in hit \ sent -> [subs[s][x] EXCEPT !.withheld = @ \cup {o}]
               [] OTHER -> subs[s][x]]]
        /\ next' = [next EXCEPT ![s] = @ + 1]
        /\ UNCHANGED <<phase, authed, toPublish, req, permits, told>>
     \/ CloseFull(s, Cardinality(sent))
  /\ UNCHANGED <<relay, commands>>

\* The session takes a message out of its queue and sends it.
Send(s) ==
  /\ phase[s] = "ready" /\ queued[s] > 0
  /\ queued' = [queued EXCEPT ![s] = @ - 1]
  /\ UNCHANGED <<relay, phase, next, authed, toPublish, req, subs, permits, told,
                 commands>>

-----------------------------------------------------------------------------

\* Events of the group change its members, alone or with an event generated from
\* them (a join request and the put-user event that accepts it).
Note(topic) == [topic |-> topic, change |-> "none", who |-> {}]
Change(c, s) == [topic |-> "group", change |-> c, who |-> {s}]

MemberChanges ==
  {<<Change(c, s)>> : c \in {"put", "remove"}, s \in Subscribers}
    \cup {<<Note("group"), Change("put", s)>> : s \in Subscribers}

Operations ==
  {<<Note(t)>> : t \in Topics}
    \cup {events \in MemberChanges : "group" \in Topics}

Client(s) ==
  \/ Connect(s) \/ Disconnect(s) \/ Authenticate(s) \/ Reply(s)
  \/ \E events \in Operations : Store(s, events)
  \/ \E t \in Topics : StoreFails(s, Note(t))
  \/ \E x \in SubIds : RefuseReq(s, x) \/ RejectReq(s, x) \/ CloseSub(s, x)
  \/ \E x \in SubIds, f \in (SUBSET Topics) \ {{}}, complete \in BOOLEAN :
       Query(s, x, f, complete)

Proceed(s) == Publish(s) \/ AnswerEvent(s) \/ AnswerReq(s) \/ RefusePermit(s)

Receive(s) == CloseLagging(s) \/ Fanout(s)

Next == \E s \in Sessions : Client(s) \/ Proceed(s) \/ Receive(s) \/ Send(s)

Spec == Init /\ [][Next]_vars

\* A task that has begun to handle a message goes on, and select! does not pass over a
\* receiver that has something for ever.  A write to the socket has no timeout in the
\* sessions of the host, and while it lasts the task does nothing else: so this holds of
\* sessions whose clients keep reading.  Any other may stop wherever it is about to
\* answer, deliver or close; but what it has stored it publishes, which writes to no
\* socket.
FairSpec ==
  /\ Spec
  /\ \A s \in Readers : WF_vars(Proceed(s) \/ Receive(s))
  /\ \A s \in Sessions : WF_vars(Publish(s))

-----------------------------------------------------------------------------
(* Properties *)

TypeOK ==
  /\ log \in Seq(LogEvents) /\ Len(log) <= MaxEvents
  /\ members \subseteq Sessions /\ authed \subseteq Sessions
  /\ bus \in Seq(DOMAIN log)
  /\ phase \in [Sessions -> {"none", "ready", "publishing", "subscribing"}]
  /\ next \in [Sessions -> 1..(MaxEvents + 1)]
  /\ queued \in [Sessions -> 0..QueueCapacity]
  /\ toPublish \in [Sessions -> Seq(DOMAIN log)]
  /\ req \in [Sessions -> [sub : SubIds, filter : SUBSET Topics, complete : BOOLEAN,
                          hits : SUBSET DOMAIN log, denied : BOOLEAN]]
  /\ subs \in [Sessions -> [SubIds -> [filter : SUBSET Topics,
                                      seen : SUBSET DOMAIN log,
                                      withheld : SUBSET DOMAIN log]]]
  /\ permits \in [Sessions -> SUBSET SubIds]
  /\ lost \subseteq DOMAIN log
  /\ told \in [Sessions -> [SubIds -> {"none", "open", "closed"}]]
  /\ commands \in 0..MaxCommands /\ faults \in 0..MaxFaults

\* What a session will still be offered: what its receiver has not taken and what
\* some session has not published.
Coming(s) ==
  {bus[i] : i \in next[s]..Len(bus)}
    \cup {o \in DOMAIN log : \E t \in Sessions : \E i \in DOMAIN toPublish[t] :
                               toPublish[t][i] = o}

\* No gap between the events a REQ is answered with and those delivered live, nor
\* later: an event that matches an open subscription was sent under it, was withheld
\* by the read gate or is still to come, whatever was stored and published while the
\* REQ was handled; unless the operation that stored it failed.
NoGap ==
  \A s \in Sessions : \A x \in Active(s) :
    Matching(subs[s][x].filter) \subseteq
      subs[s][x].seen \cup subs[s][x].withheld \cup Coming(s) \cup lost

\* A session holds a permit of the host for exactly its open subscriptions, and the
\* host's total is kept, also when a REQ replaces a subscription or a session ends.
PermitsMatch ==
  /\ \A s \in Sessions : permits[s] = Active(s)
  /\ Cardinality(HostSubs) <= MaxHostSubs

\* Whether the key of s was a member once event i was stored.
MemberAt(s, i) ==
  \E j \in 1..i : /\ log[j].change = "put" /\ s \in log[j].who
                  /\ \A k \in (j + 1)..i : ~(log[k].change = "remove" /\ s \in log[k].who)

\* An event of the private group is sent only to a session that authenticated and
\* that was a member at some time since the event was stored: a member removed
\* before it hears of it neither live, however late the offset is taken from the
\* bus, nor in answer to a REQ.
OnlyReaders ==
  \A s \in Sessions : \A x \in SubIds : \A o \in subs[s][x].seen :
    log[o].topic = "group" =>
      s \in authed /\ \E i \in o..Len(log) : MemberAt(s, i)

Behind(s) ==
  \E x \in Active(s) : \E o \in Matching(subs[s][x].filter) :
    o \notin subs[s][x].seen \cup subs[s][x].withheld \cup lost

\* A subscriber that keeps reading and is behind what is stored catches up, unless its
\* subscriptions or the session end: every offset is published, and taken from the bus
\* in time or with the consequence of being closed, also while other sessions are held
\* up for ever by clients that do not read.
CatchesUp == \A s \in Subscribers \cap Readers : Behind(s) ~> ~Behind(s)

\* handle_req calls a denied REQ one that closes the subscription: a client that was
\* last told that a subscription is closed has none.
ClosedIsClosed ==
  \A s \in Sessions, x \in SubIds : told[s][x] = "closed" => x \notin Active(s)
=============================================================================
