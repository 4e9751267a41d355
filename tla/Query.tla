-------------------------------- MODULE Query --------------------------------
(***************************************************************************)
(* How a session answers REQ and COUNT over a store that does not change   *)
(* meanwhile (crates/tangle_runtime/src: session.rs, runtime.rs,           *)
(* relay/core.rs), with the read gate of the groups applied to every       *)
(* candidate, and how it delivers an event to the subscription a REQ       *)
(* leaves.  The embedder's hooks may plan a query, suppress an event,      *)
(* replace it by another stored one or add live candidates.                *)
(***************************************************************************)
EXTENDS Messages

CONSTANTS
  Inputs,        \* JSON values of the texts clients may send
  Store,         \* the stored events in the order of their offsets
  HashRank,      \* the order of event ids
  Groups,        \* group id -> what the projection knows of the group
  DeletedEvents, \* ids of events deleted by a moderator
  Admins,        \* keys the relay gives every right
  Auths,         \* the sets of keys a connection may have authenticated with
  HookSets,      \* what the embedder's hooks may do
  QueryConfig    \* PocketQueryConfig

\* A query cannot ask for more events than a u32 counts; every stored event was
\* classified when it was accepted, and ids, being hashes, tell the stored events apart.
ASSUME StoreAssumption ==
  /\ DOMAIN Store = 1..Len(Store) /\ Len(Store) \in 0..MaxU32
  /\ \A i \in DOMAIN Store : Store[i].created_at \in Nat /\ HashRank[Store[i].id] \in Nat
  /\ \A i \in DOMAIN Store : ClassifyGroupEvent(Store[i]) # Unclassified
  /\ \A i, j \in DOMAIN Store : HashRank[Store[i].id] = HashRank[Store[j].id] => i = j

\* The items of an array and the fields of an object are a sequence: in the text, in its
\* filters and in their fields.
Sequenced(v, type) == v[1] = type => v[2] \in Seq(ToSet(v[2]))
ASSUME InputsAssumption ==
  \A v \in Inputs :
    /\ Sequenced(v, "array")
    /\ v[1] = "array" =>
         \A i \in DOMAIN v[2] :
           /\ Sequenced(v[2][i], "object")
           /\ v[2][i][1] = "object" => \A k \in DOMAIN v[2][i][2] : Sequenced(v[2][i][2][k][2], "array")

\* RelayEventProjectionDecision; a hook may name an event that does not exist.
Decision(d) ==
  \/ d \in {<<"emit">>, <<"suppress">>}
  \/ d[1] = "replace" /\ d[2] \in Nat

\* RelayRuntimeHooks: a limit planned for a query, the decision on each stored
\* event and the candidates that take its place when it is published.
Hooks(h) ==
  /\ Len(h.plan) <= 1
  /\ \A i \in DOMAIN h.plan : h.plan[i] \in 1..MaxU32
  /\ \A i \in DOMAIN Store :
       Decision(h.decide[i]) /\ h.live[i] \in Seq(Nat)

ASSUME HooksAssumption == \A h \in HookSets : Hooks(h)

VARIABLES text, auth, hooks, message, answer, subscribed
vars == <<text, auth, hooks, message, answer, subscribed>>

Offsets == DOMAIN Store
EventsOf(s) == {m.event : m \in {x \in ToSet(s) : x.type = "EVENT"}}

-----------------------------------------------------------------------------
(* The read gate.                                                          *)

CanReadGroup(g) == auth \intersect (Admins \union Groups[g].members) # {}

\* GroupReadGate::screen_event, for an event of the group g
Screen(e, g) ==
  /\ g \in DOMAIN Groups
  /\ Groups[g].tombstone \in {None, Some(e.id)}
  /\ \/ ~Groups[g].hidden /\ (Groups[g].private => e.kind \in {39000, 39001})
     \/ CanReadGroup(g)

\* event_visible_to_auth
VisibleAs(e, class) == e.id \notin DeletedEvents /\ (class = NonGroup \/ Screen(e, class[2]))
Readable(e) == VisibleAs(e, ClassifyGroupEvent(e))

-----------------------------------------------------------------------------
(* The store's search: candidates newest first, until as many match as the *)
(* filter asks for.                                                        *)

NewerFirst(e, f) ==
  \/ e.created_at > f.created_at
  \/ e.created_at = f.created_at /\ HashRank[e.id] < HashRank[f.id]

SortAndDedupe(events) ==
  [i \in 1..Cardinality(events) |->
     CHOOSE e \in events : Cardinality({x \in events : NewerFirst(x, e)}) = i - 1]

\* A filter with neither ids, authors nor tags scans by time alone.
Scrapes(f) == f.ids = <<>> /\ f.authors = <<>> /\ f.tags = <<>>
ScrapeAllowed(f, limit, scraping) ==
  \/ scraping
  \/ limit <= QueryConfig.limited_to
  \/ f.until - f.since < QueryConfig.max_seconds

Candidates(f) == SortAndDedupe({e \in ToSet(Store) : PocketMatches(f, e)})

\* The candidates that are looked at: fewer than the limit were readable before.
Scanned(s, limit) ==
  {s[i] : i \in {i \in DOMAIN s : Cardinality({j \in 1..(i - 1) : Readable(s[j])}) < limit}}

\* pocket_filter_with_limit_mode, for the modes "default", "count" and a number.
LimitOf(f, mode) ==
  CASE mode[1] = "default" -> EffectiveLimit(f)
    [] mode[1] = "count" -> NoLimit
    [] mode[1] = "override" -> mode[2]

\* BaseRelayEventQueryReport: what may be read, and whether anything was withheld.
EventReport(seen) == [events |-> {e \in seen : Readable(e)}, denied |-> \E e \in seen : ~Readable(e)]

\* The first n of a sequence.
Truncated(s, n) == {s[i] : i \in {i \in DOMAIN s : i <= n}}

\* Mutation: the limit counts what the reader may not see.
QueryFilterBlind(f, mode, scraping) ==
  IF Scrapes(f) /\ ~ScrapeAllowed(f, LimitOf(f, mode), scraping) THEN None
  ELSE Some(EventReport(Truncated(Candidates(f), LimitOf(f, mode))))

\* query_filter_events_report_with_services with find_events_with_screen
QueryFilter(f, mode, scraping) ==
  IF Scrapes(f) /\ ~ScrapeAllowed(f, LimitOf(f, mode), scraping) THEN None
  ELSE Some(EventReport(Scanned(Candidates(f), LimitOf(f, mode))))

-----------------------------------------------------------------------------
(* Hooks.                                                                  *)

OffsetOf(e) == CHOOSE i \in Offsets : Store[i] = e
MatchesAny(filters, e) == \E i \in DOMAIN filters : PocketMatches(filters[i], e)
MatchedFilters(filters, e) == {f \in ToSet(filters) : PocketMatches(f, e)}

\* Mutation: the replacement is not put through the read gate.
ProjectUngated(matched, e) ==
  LET decision == hooks.decide[OffsetOf(e)] IN
  CASE decision[1] = "emit" -> Some(e)
    [] decision[1] = "suppress" -> None
    [] decision[1] = "replace" ->
         IF decision[2] \in Offsets /\ \E f \in matched : PocketMatches(f, Store[decision[2]])
         THEN Some(Store[decision[2]]) ELSE None

\* project_event_output
ProjectEventOutput(matched, e) ==
  LET decision == hooks.decide[OffsetOf(e)] IN
  CASE decision[1] = "emit" -> Some(e)
    [] decision[1] = "suppress" -> None
    [] decision[1] = "replace" ->
         IF /\ decision[2] \in Offsets
            /\ Readable(Store[decision[2]])
            /\ \E f \in matched : PocketMatches(f, Store[decision[2]])
         THEN Some(Store[decision[2]]) ELSE None

Projected(filters, e) == ProjectEventOutput(MatchedFilters(filters, e), e)
ProjectedSet(filters, events) == UNION {ToSet(Projected(filters, e)) : e \in events}

\* The results there are in their order, each once.
EachOnce(results) ==
  LET first == {i \in DOMAIN results :
                  results[i] # None /\ \A j \in 1..(i - 1) : results[j] # results[i]}
      kept == ItemsAt(results, first)
  IN [n \in DOMAIN kept |-> kept[n][1]]

\* project_runtime_messages
ProjectSequence(filters, s) == EachOnce([i \in DOMAIN s |-> Projected(filters, s[i])])

-----------------------------------------------------------------------------
(* Answers.                                                                *)

EventMessages(sub, s) == [i \in DOMAIN s |-> [type |-> "EVENT", sub |-> sub, event |-> s[i]]]
Notice == <<[type |-> "NOTICE", message |-> Word("invalid")]>>
Closed(sub, why) == <<[type |-> "CLOSED", sub |-> sub, message |-> Word(why)]>>
Eose(sub) == <<[type |-> "EOSE", sub |-> sub]>>

\* redacted_req_closed
RedactedClosed(sub) == Closed(sub, IF auth = {} THEN "auth-required" ELSE "restricted")
Ending(sub, denied) == IF denied THEN RedactedClosed(sub) ELSE Eose(sub)

\* query_events_report_with_services, projected afterwards (BeforeProjection)
QueryThenProject(m, reports) ==
  LET parts == [i \in DOMAIN m.filters |->
                  Truncated(SortAndDedupe(reports[i].events), EffectiveLimit(m.filters[i]))]
      events == SortAndDedupe(UNION {parts[i] : i \in DOMAIN parts})
      denied == \E i \in DOMAIN reports : reports[i].denied
  IN [events |-> ProjectSequence(m.filters, events), denied |-> denied]

\* query_projected_req_with_auth_report (AfterProjection)
ProjectThenLimit(m, reports) ==
  LET parts == [i \in DOMAIN m.filters |->
                  Truncated(SortAndDedupe(ProjectedSet(m.filters, reports[i].events)),
                            EffectiveLimit(m.filters[i]))]
      denied == \E i \in DOMAIN reports : reports[i].denied
  IN [events |-> SortAndDedupe(UNION {parts[i] : i \in DOMAIN parts}), denied |-> denied]

QueryReports(m) ==
  TryAll([i \in DOMAIN m.filters |->
    QueryFilter(m.filters[i],
                IF hooks.plan = None THEN <<"default">> ELSE <<"override", hooks.plan[1]>>,
                QueryConfig.allow_scraping)])

QueryReport(m) ==
  Then(QueryReports(m), LAMBDA reports :
    Some(IF hooks.plan = None THEN QueryThenProject(m, reports) ELSE ProjectThenLimit(m, reports)))

-----------------------------------------------------------------------------
(* The estimate of a COUNT: the authors counted, or nothing at all.        *)

DTagMode(f) ==
  CASE f.kinds = <<>> -> "suppress"
    [] ToSet(f.kinds) \intersect RelayGeneratedKindValues # {} -> "target"
    [] OTHER -> "ignore"

IsPublic(g) ==
  g \in DOMAIN Groups /\ Groups[g].tombstone = None /\ ~Groups[g].private /\ ~Groups[g].hidden

\* count_hll_filter_target_policy with count_hll_group_targets
TargetsEligible(f) ==
  \A i \in DOMAIN f.tags :
    \/ f.tags[i][1].name \notin {"h", "d"}
    \/ f.tags[i][1].name = "d" /\ DTagMode(f) = "ignore"
    \/ /\ f.tags[i][1].name = "d" => DTagMode(f) = "target"
       /\ Len(f.tags[i]) > 1
       /\ \A j \in 2..Len(f.tags[i]) :
            GroupIdNew(f.tags[i][j], GroupIdMax) # None /\ IsPublic(f.tags[i][j])

\* Mutation: a member's count of a private group keeps its estimate.
SuppressesHllIfDeleted(e) ==
  LET class == ClassifyGroupEvent(e) IN
  class # NonGroup /\ (class[2] \notin DOMAIN Groups \/ Groups[class[2]].tombstone # None)

\* event_suppresses_count_hll
SuppressesHll(e) == LET class == ClassifyGroupEvent(e) IN class # NonGroup /\ ~IsPublic(class[2])

CountReports(m) ==
  TryAll([i \in DOMAIN m.filters |-> QueryFilter(m.filters[i], <<"count">>, TRUE)])

Hll(m, reports) ==
  LET counted == UNION {reports[i].events : i \in DOMAIN reports}
  IN IF /\ Len(m.filters) = 1
        /\ HyperloglogOffset(m.filters[1])
        /\ TargetsEligible(m.filters[1])
        /\ ~reports[1].denied
        /\ \A e \in counted : ~SuppressesHll(e)
     THEN Some({e.pubkey : e \in counted}) ELSE None

CountMessage(m, reports) ==
  [type |-> "COUNT", sub |-> m.sub,
   count |-> Cardinality({e.id : e \in UNION {reports[i].events : i \in DOMAIN reports}}),
   hll |-> Hll(m, reports)]

-----------------------------------------------------------------------------
Init ==
  /\ text \in Inputs
  /\ auth \in Auths
  /\ hooks \in HookSets
  /\ message = None
  /\ answer = <<>>
  /\ subscribed = FALSE

\* dispatch_text
Parse ==
  /\ message = None /\ answer = <<>>
  /\ message' = ParseRuntimeClientMessage(text)
  /\ answer' = IF message' = None THEN Notice ELSE <<>>
  /\ UNCHANGED <<text, auth, hooks, subscribed>>

Pending(type) == message # None /\ message[1].type = type /\ answer = <<>>
Respond(reply) == answer' = reply /\ UNCHANGED <<text, auth, hooks, message>>

\* The checks REQ and COUNT share; a failed one is answered with a NOTICE.
Refused(m) == ~ValidateSubscriptionId(m.sub) \/ ~ValidateFilters(m.filters)
SearchClosed(m) == Closed(m.sub, "unsupported")

FiltersComplete(filters) == \A i \in DOMAIN filters : filters[i].ids # <<>>

\* The events and EOSE, or CLOSED for what was withheld; a query that fails is a NOTICE.
AnswerReq(m, report) ==
  IF report = None THEN Respond(Notice) /\ UNCHANGED subscribed
  ELSE /\ Respond(EventMessages(m.sub, report[1].events) \o Ending(m.sub, report[1].denied))
       /\ subscribed' = (~FiltersComplete(m.filters) /\ ~report[1].denied)

\* handle_req of the session, once the rate limits let it pass.
HandleReq ==
  /\ Pending("REQ")
  /\ LET m == message[1]
     IN IF Refused(m) THEN Respond(Notice) /\ UNCHANGED subscribed
        ELSE IF m.search THEN Respond(SearchClosed(m)) /\ UNCHANGED subscribed
        ELSE AnswerReq(m, QueryReport(m))

AnswerCount(m, reports) ==
  IF reports = None THEN Respond(Notice) ELSE Respond(<<CountMessage(m, reports[1])>>)

\* RuntimeClientMessage::Count
HandleCount ==
  /\ Pending("COUNT")
  /\ UNCHANGED subscribed
  /\ LET m == message[1]
     IN IF Refused(m) THEN Respond(Notice)
        ELSE IF m.search THEN Respond(SearchClosed(m))
        ELSE IF CountBroad(m.filters) THEN Respond(Closed(m.sub, "restricted"))
        ELSE AnswerCount(m, CountReports(m))

\* NEG-OPEN and NEG-MSG are answered that negentropy is disabled; CLOSE and NEG-CLOSE
\* are not answered.
HandleNegentropy ==
  /\ \E type \in {"NEG-OPEN", "NEG-MSG"} : Pending(type)
  /\ UNCHANGED subscribed
  /\ Respond(IF ValidateSubscriptionId(message[1].sub)
             THEN <<[type |-> "NEG-ERR", sub |-> message[1].sub, message |-> Word("blocked")]>>
             ELSE Notice)

\* What a subscription gets for a candidate, which may not exist.
LiveOutput(filters, offset) ==
  IF /\ offset \in Offsets
     /\ MatchesAny(filters, Store[offset])
     /\ Readable(Store[offset])
  THEN Projected(filters, Store[offset]) ELSE None

\* The event published and the ones the hook adds to it.
LiveCandidates(offset) == <<offset>> \o hooks.live[offset]

\* fanout_event_offset_with_projection_context, for the subscription the REQ left.
Fanout(offset) ==
  /\ subscribed
  /\ UNCHANGED subscribed
  /\ LET m == message[1]
         candidates == LiveCandidates(offset)
         outputs == [i \in DOMAIN candidates |-> LiveOutput(m.filters, candidates[i])]
     IN Respond(EventMessages(m.sub, EachOnce(outputs)))

Next ==
  \/ Parse
  \/ HandleReq
  \/ HandleCount
  \/ HandleNegentropy
  \/ \E offset \in Offsets : Fanout(offset)

Spec == Init /\ [][Next]_vars

-----------------------------------------------------------------------------
(* Properties.                                                             *)

\* What a field of a filter's JSON says of an event, read off the JSON itself.
Says(f, e) ==
  LET v == f[2]
      Holds(x) == \E i \in DOMAIN v[2] : v[2][i] = x
  IN CASE f[1] = Key("ids") -> Holds(Str(e.id))
       [] f[1] = Key("authors") -> Holds(Str(e.pubkey))
       [] f[1] = Key("kinds") -> Holds(Num(e.kind))
       [] f[1] = Key("since") -> e.created_at >= v[2]
       [] f[1] = Key("until") -> e.created_at <= v[2]
       [] f[1].tag -> \E j \in DOMAIN e.tags :
                        Len(e.tags[j]) > 1 /\ e.tags[j][1] = f[1].text /\ Holds(Str(e.tags[j][2]))
       [] OTHER -> TRUE

\* The two parsers of the repository (client_message.rs and tangle_protocol) read a
\* text alike: what the runtime accepts the protocol accepts too, each filter selects
\* exactly the events every field of its JSON selects, written out again it is read
\* back as the same filter, and converted it is the filter the runtime read.  Only the
\* values of `#e` and `#p` are ids and keys for the protocol and any texts for the
\* runtime.
NamesHashes(m) ==
  \A i \in DOMAIN m.filters : \A k \in DOMAIN m.filters[i].tags :
    m.filters[i].tags[k][1].name \in {"e", "p"} =>
      \A j \in 2..Len(m.filters[i].tags[k]) : RequireLowercaseHex(m.filters[i].tags[k][j], HexLength)
ParsersAgree ==
  message # None /\ message[1].type \in {"REQ", "COUNT"} /\ NamesHashes(message[1]) =>
    LET m == message[1]
        p == ParseClientMessage(text)
    IN /\ p # None
       /\ p[1].sub = m.sub
       /\ \A i \in DOMAIN m.filters :
            LET fields == text[2][i + 2][2]
                filter == p[1].filters[i]
            IN /\ \A e \in ToSet(Store) :
                    /\ PocketMatches(m.filters[i], e) <=> \A k \in DOMAIN fields : Says(fields[k], e)
                    /\ Matches(filter, e) <=> PocketMatches(m.filters[i], e)
               /\ FilterFromValue(FilterToValue(filter)) = Some(filter)
               /\ TangleFilterToPocket(filter) = Some(m.filters[i])

\* What is written is read back: the event of a text from its own JSON by either parser,
\* an address from its text even where its identifier holds a separator, the metadata
\* of a group from the tags of the snapshot the relay would sign, and no two different
\* events have one canonical form to hash; the messages of an answer are told apart by
\* their encodings.
Pieces(t) == IF t.letters \/ t.hex THEN <<t.name>> ELSE <<t.name, t.name>>
WrittenReadsBack ==
  /\ message # None /\ message[1].type \in {"EVENT", "AUTH"} =>
       LET e == message[1].event
           address == AddressFromEvent(e, Pieces)
           class == ClassifyGroupEvent(e)
           metadata == ParseGroupMetadata(e)
       IN /\ ParseEventJson(EventToValue(e)) = Some(e)
          /\ ParseClientMessage(text) = Some(message[1])
          /\ TangleEventToPocket(e) = Some(e) /\ PocketEventToTangle(e) = Some(e)
          /\ class[1] = "moderation" /\ metadata # None =>
               ParseGroupMetadata([e EXCEPT !.tags = MetadataTags(class[2], metadata[1])]) = metadata
          /\ address # None => AddressFromPieces(AddressPieces(address[1])) = address
          /\ \A x \in ToSet(Store) :
               CanonicalJson(x) = CanonicalJson(e) => [x EXCEPT !.id = e.id, !.sig = e.sig] = e
  /\ \A i, j \in DOMAIN answer :
       RelayMessageToValue(answer[i]) = RelayMessageToValue(answer[j]) => answer[i] = answer[j]

\* Without hooks, REQ answers for each filter its newest readable events, as many as
\* the filter's limit, all of them newest first and none twice; it ends with EOSE only
\* if no event it had to pass over was withheld.
Newest(f, e) ==
  /\ PocketMatches(f, e) /\ Readable(e)
  /\ Cardinality({x \in ToSet(Store) : PocketMatches(f, x) /\ Readable(x) /\ NewerFirst(x, e)})
       < EffectiveLimit(f)
PassedOver(f, e) ==
  /\ PocketMatches(f, e) /\ ~Readable(e)
  /\ Cardinality({x \in ToSet(Store) : PocketMatches(f, x) /\ Readable(x) /\ NewerFirst(x, e)})
       < EffectiveLimit(f)
AnswerIsNewest ==
  /\ message # None /\ message[1].type = "REQ" /\ hooks.plan = None
  /\ \A i \in Offsets : hooks.decide[i] = <<"emit">>
  /\ answer # <<>> /\ Last(answer).type \in {"EOSE", "CLOSED"} /\ ~message[1].search
  => LET filters == message[1].filters
         events == [i \in 1..(Len(answer) - 1) |-> answer[i].event]
     IN /\ ToSet(events) = {e \in ToSet(Store) : \E i \in DOMAIN filters : Newest(filters[i], e)}
        /\ \A i, j \in DOMAIN events : i < j => NewerFirst(events[i], events[j])
        /\ Last(answer).type = "CLOSED" <=>
             \E i \in DOMAIN filters : \E e \in ToSet(Store) : PassedOver(filters[i], e)

\* COUNT answers how many readable events match, each counted once whatever the limits
\* of the filters, and gives an estimate of the authors only if everything that
\* matches, readable or not, is public.
CountIsExact ==
  answer # <<>> /\ answer[1].type = "COUNT" =>
    LET filters == message[1].filters
        matching == {e \in ToSet(Store) : MatchesAny(filters, e)}
    IN /\ answer[1].count = Cardinality({e \in matching : Readable(e)})
       /\ answer[1].hll # None =>
            /\ answer[1].hll[1] = {e.pubkey : e \in matching}
            /\ \A e \in matching : ClassifyGroupEvent(e) = NonGroup \/ IsPublic(ClassifyGroupEvent(e)[2])

\* Whatever the hooks plan, suppress, replace or add, no event reaches a client, from
\* the store or live, that it may not read, that no filter of its matches, or twice in
\* one answer.
HooksCannotLeak ==
  \A i \in DOMAIN answer : answer[i].type = "EVENT" =>
    /\ Readable(answer[i].event)
    /\ MatchesAny(message[1].filters, answer[i].event)
    /\ \A j \in DOMAIN answer : answer[j].type = "EVENT" /\ answer[j].event = answer[i].event => i = j

\* max_query_complexity bounds the events a REQ is answered with, whatever limits its
\* filters ask for and the hooks plan.
AnswerBounded ==
  answer # <<>> /\ Last(answer).type \in {"EOSE", "CLOSED"}
    => Cardinality(EventsOf(answer)) <= Limits.max_complexity
=============================================================================
