------------------------------ MODULE Messages ------------------------------
(***************************************************************************)
(* What a session makes of the text of a client: the runtime's parser      *)
(* (crates/tangle_runtime/src/client_message.rs), the limits of the relay  *)
(* (relay/core.rs), the classifier of queries (runtime.rs) and the class   *)
(* of a group event (crates/tangle_groups: classification.rs, tags.rs,     *)
(* write_gate.rs, ids.rs).                                                 *)
(*                                                                         *)
(* The runtime keeps the events and filters of the Pocket store.  A Pocket *)
(* filter has no absent bounds: it holds the least and greatest time and   *)
(* the greatest u32 in their place.                                        *)
(***************************************************************************)
EXTENDS Protocol

CONSTANTS
  Limits,        \* BaseRelayLimits
  GroupIdMax,    \* GroupLimitsConfig.max_group_id_bytes
  GroupTagsMax,  \* GroupLimitsConfig.max_group_tags_per_event
  KindsMax,      \* GroupLimitsConfig.max_supported_kinds
  Decimal        \* the decimal texts of numbers

LimitNames == {"max_subid_length", "max_filters", "max_tag_values", "max_limit",
               "default_limit", "max_complexity", "max_event_tags", "max_content_length"}

\* TangleRuntimeLimits::base_relay_limits: all positive, the default at most the maximum.
ASSUME LimitsAssumption ==
  /\ Limits \in [LimitNames -> Nat \ {0}]
  /\ Limits.default_limit <= Limits.max_limit
  /\ Limits.default_limit <= MaxU32
  /\ Limits.default_limit <= Limits.max_complexity
  /\ GroupIdMax \in Nat \ {0}
  /\ GroupTagsMax \in Nat \ {0}
  /\ KindsMax \in Nat \ {0}
  /\ \A m, n \in DOMAIN Decimal : m \in Nat /\ (Decimal[m] = Decimal[n] => m = n)

-----------------------------------------------------------------------------
(* Pocket's own types.                                                     *)

MaxKind == 65535
TimeMin == 0
TimeMax == MaxU64
NoLimit == MaxU32

PocketEvent(v) == Then(EventFromValue(v), LAMBDA e : IF e.kind <= MaxKind THEN Some(e) ELSE None)

PocketKinds(v) ==
  Then(ParseKinds(v), LAMBDA s : IF \A i \in DOMAIN s : s[i] <= MaxKind THEN Some(s) ELSE None)

PocketTags(fields) ==
  LET tagFields == ItemsAt(fields, {i \in DOMAIN fields : fields[i][1].tag})
  IN TryAll([i \in DOMAIN tagFields |->
               Then(ParseItems(tagFields[i][2], AsStr),
                    LAMBDA s : Some(<<tagFields[i][1].text>> \o s))])

PocketFilter(fields) ==
  LET tags == PocketTags(fields)
      ids == Parsed(fields, "ids", ParseEventIds, <<>>)
      authors == Parsed(fields, "authors", ParsePubkeys, <<>>)
      kinds == Parsed(fields, "kinds", PocketKinds, <<>>)
      since == Parsed(fields, "since", AsU64, TimeMin)
      until == Parsed(fields, "until", AsU64, TimeMax)
      limit == Parsed(fields, "limit", AsU64, NoLimit)
  IN IF AllSome(<<tags, ids, authors, kinds, since, until, limit>>)
     THEN Some([ids |-> ids[1], authors |-> authors[1], kinds |-> kinds[1], tags |-> tags[1],
                since |-> since[1], until |-> until[1], limit |-> limit[1]])
     ELSE None

\* event_matches
PocketMatches(f, e) ==
  /\ f.ids # <<>> => Contains(f.ids, e.id)
  /\ f.authors # <<>> => Contains(f.authors, e.pubkey)
  /\ f.kinds # <<>> => Contains(f.kinds, e.kind)
  /\ e.created_at \in f.since..f.until
  /\ \A i \in DOMAIN f.tags : \E j \in DOMAIN e.tags :
       /\ Len(e.tags[j]) > 1
       /\ e.tags[j][1] = f.tags[i][1]
       /\ Contains(Tail(f.tags[i]), e.tags[j][2])

\* tangle_filter_to_pocket and tangle_event_to_pocket: kinds and limits that Pocket's
\* types cannot hold are refused (and so are sizes over those of its sections).
PocketKindsOf(kinds) == TryAll([i \in DOMAIN kinds |-> IF kinds[i] <= MaxKind THEN Some(kinds[i]) ELSE None])
TangleFilterToPocket(f) ==
  LET tag(t) == <<t[1]>> \o t[2]
      named == SetToSeq(f.tag_filters)
      orElse(o, default) == IF o = None THEN default ELSE o[1]
  IN IF f.limit # None /\ f.limit[1] > MaxU32 THEN None
     ELSE Then(PocketKindsOf(f.kinds), LAMBDA kinds :
            Some([ids |-> f.ids, authors |-> f.authors, kinds |-> kinds,
                  tags |-> [i \in DOMAIN named |-> tag(named[i])],
                  since |-> orElse(f.since, TimeMin), until |-> orElse(f.until, TimeMax),
                  limit |-> orElse(f.limit, NoLimit)]))
TangleEventToPocket(e) == Then(PocketKindsOf(<<e.kind>>), LAMBDA kinds : Some(e))
\* pocket_event_to_tangle: every scalar and tag goes through its constructor again.
PocketEventToTangle(e) ==
  IF AllSome(<<EventIdNew(e.id), PublicKeyNew(e.pubkey), KindNew(e.kind), SignatureNew(e.sig),
               TryAll([i \in DOMAIN e.tags |-> TagNew(e.tags[i])])>>)
  THEN Some(e) ELSE None

\* hyperloglog_offset: a single tag filter with a single value has an estimate.
HyperloglogOffset(f) ==
  /\ f.ids = <<>> /\ f.authors = <<>> /\ Len(f.tags) = 1 /\ Len(f.tags[1]) = 2

-----------------------------------------------------------------------------
(* parse_runtime_client_message.                                           *)

ValidateNonEmptyArray(v) == v[1] = "array" /\ v[2] # <<>>
ValidateU64Field(v) == AsU64(v) # None
ValidateLimitField(v) == ValidateU64Field(v) /\ v[2] <= MaxU32
ValidateTagFilterField(t, v) ==
  TagNameNew(t) # None /\ IsIndexable(t) /\ ValidateNonEmptyArray(v)

FilterFieldAccepted(f) ==
  LET v == f[2] IN
  \/ f[1] \in {Key("ids"), Key("authors"), Key("kinds")} /\ ValidateNonEmptyArray(v)
  \/ f[1] \in {Key("since"), Key("until")} /\ ValidateU64Field(v)
  \/ f[1] = Key("limit") /\ ValidateLimitField(v)
  \/ f[1] = Key("search") /\ AsStr(v) # None
  \/ f[1].tag /\ ValidateTagFilterField(f[1].text, v)

\* Mutation: the first of two fields of one name wins.
InspectFilterShapeFirst(v) ==
  IF v[1] # "object" \/ \E i \in DOMAIN v[2] : ~FilterFieldAccepted(v[2][i]) THEN None
  ELSE Some([search |-> FieldValue(v[2], "search") # None,
             pocket_fields |-> ItemsAt(v[2], {i \in DOMAIN v[2] : v[2][i][1] # Key("search")})])

\* RuntimeFilterShapeVisitor::visit_map: `search` is noticed and not passed on.
InspectFilterShape(v) ==
  IF \/ v[1] # "object"
     \/ \E i \in DOMAIN v[2] : ~FilterFieldAccepted(v[2][i])
     \/ \E i, j \in DOMAIN v[2] : i # j /\ v[2][i][1] = v[2][j][1]
  THEN None
  ELSE Some([search |-> FieldValue(v[2], "search") # None,
             pocket_fields |-> ItemsAt(v[2], {i \in DOMAIN v[2] : v[2][i][1] # Key("search")})])

ParseFilter(v) ==
  Then(InspectFilterShape(v), LAMBDA shape :
    Then(PocketFilter(shape.pocket_fields), LAMBDA f : Some([filter |-> f, search |-> shape.search])))

ParseSubscriptionId(v) == Then(AsStr(v), SubscriptionIdNew)
ParseNegentropyMessage(v) ==
  Then(AsStr(v), LAMBDA t : IF t.length % 2 = 0 /\ t.hex THEN Some(t) ELSE None)

ParseEventOrAuth(s, type) ==
  IF Len(s) # 2 THEN None
  ELSE Then(PocketEvent(s[2]), LAMBDA e : Some([type |-> type, event |-> e]))

QueryMessage(type, sub, parsed) ==
  [type |-> type, sub |-> sub,
   filters |-> [i \in DOMAIN parsed |-> parsed[i].filter],
   search |-> \E i \in DOMAIN parsed : parsed[i].search]

ParseReqOrCount(s, type) ==
  IF Len(s) < 3 THEN None
  ELSE Then(ParseSubscriptionId(s[2]), LAMBDA sub :
         Then(TryAll([i \in 1..(Len(s) - 2) |-> ParseFilter(s[i + 2])]), LAMBDA parsed :
           Some(QueryMessage(type, sub, parsed))))

\* CLOSE and NEG-CLOSE
ParseClose(s, type) ==
  IF Len(s) # 2 THEN None
  ELSE Then(ParseSubscriptionId(s[2]), LAMBDA sub : Some([type |-> type, sub |-> sub]))

ParseNegOpen(s) ==
  IF Len(s) # 4 THEN None
  ELSE LET sub == ParseSubscriptionId(s[2])
           parsed == ParseFilter(s[3])
           message == ParseNegentropyMessage(s[4])
       IN IF ~AllSome(<<sub, parsed, message>>) THEN None
          ELSE Some([type |-> "NEG-OPEN", sub |-> sub[1], filter |-> parsed[1].filter,
                     message |-> message[1]])

ParseNegMsg(s) ==
  IF Len(s) # 3 THEN None
  ELSE LET sub == ParseSubscriptionId(s[2])
           message == ParseNegentropyMessage(s[3])
       IN IF ~AllSome(<<sub, message>>) THEN None
          ELSE Some([type |-> "NEG-MSG", sub |-> sub[1], message |-> message[1]])

ParseRuntimeClientMessage(v) ==
  IF v[1] # "array" \/ v[2] = <<>> THEN None
  ELSE Then(AsStr(v[2][1]), LAMBDA command :
    CASE command.name \in {"EVENT", "AUTH"} -> ParseEventOrAuth(v[2], command.name)
      [] command.name \in {"REQ", "COUNT"} -> ParseReqOrCount(v[2], command.name)
      [] command.name \in {"CLOSE", "NEG-CLOSE"} -> ParseClose(v[2], command.name)
      [] command.name = "NEG-OPEN" -> ParseNegOpen(v[2])
      [] command.name = "NEG-MSG" -> ParseNegMsg(v[2])
      [] OTHER -> None)

-----------------------------------------------------------------------------
(* BaseRelayLimits.                                                        *)

ValidatePocketEventShape(e) ==
  Len(e.tags) <= Limits.max_event_tags /\ e.content.length <= Limits.max_content_length

ValidateSubscriptionId(sub) == sub.length <= Limits.max_subid_length

SumSeq(s) ==
  LET sum[n \in 0..Len(s)] == IF n = 0 THEN 0 ELSE sum[n - 1] + s[n] IN sum[Len(s)]
TagValues(f) == SumSeq([i \in DOMAIN f.tags |-> Len(f.tags[i]) - 1])

EffectiveLimit(f) == IF f.limit = NoLimit THEN Limits.default_limit ELSE f.limit

FilterComplexity(f) ==
  1 + Len(f.ids) + Len(f.authors) + Len(f.kinds) + SumSeq([i \in DOMAIN f.tags |-> Len(f.tags[i])])
    + (IF f.since # TimeMin THEN 1 ELSE 0) + (IF f.until # TimeMax THEN 1 ELSE 0) + EffectiveLimit(f)

\* Mutation: each filter is held against the limit on its own.
ValidateComplexityEach(filters) ==
  \A i \in DOMAIN filters : FilterComplexity(filters[i]) <= Limits.max_complexity

ValidateComplexity(filters) ==
  SumSeq([i \in DOMAIN filters |-> FilterComplexity(filters[i])]) <= Limits.max_complexity

ValidateFilters(filters) ==
  /\ Len(filters) \in 1..Limits.max_filters
  /\ \A i \in DOMAIN filters :
       /\ TagValues(filters[i]) <= Limits.max_tag_values
       /\ filters[i].limit # NoLimit => filters[i].limit <= Limits.max_limit
  /\ ValidateComplexity(filters)

-----------------------------------------------------------------------------
(* TangleQueryClassifier.                                                  *)

BroadWindow == 31 * 24 * 60 * 60

HasGroupConstraint(f) ==
  \E i \in DOMAIN f.tags : f.tags[i][1].name \in {"h", "d"} /\ Len(f.tags[i]) > 1
HasStrongConstraint(f) == f.ids # <<>> \/ f.authors # <<>> \/ HasGroupConstraint(f)
HasPrimaryConstraint(f) == HasStrongConstraint(f) \/ f.kinds # <<>>
HasHighLimit(f) == EffectiveLimit(f) >= Limits.max_limit
HasWindow(f) == f.since # TimeMin /\ f.until # TimeMax
HasBroadWindow(f) == HasWindow(f) /\ f.until - f.since > BroadWindow
HasBoundedWindow(f) == HasWindow(f) /\ f.until - f.since <= BroadWindow
HasCountSelector(f) ==
  \/ HasStrongConstraint(f)
  \/ f.kinds # <<>> /\ HasBoundedWindow(f)
  \/ HyperloglogOffset(f)

QueryFilterBroad(f) ==
  \/ ~HasPrimaryConstraint(f)
  \/ HasHighLimit(f)
  \/ HasBroadWindow(f) /\ ~HasStrongConstraint(f)
CountFilterBroad(f) ==
  ~HasPrimaryConstraint(f) \/ HasHighLimit(f) \/ HasBroadWindow(f) \/ ~HasCountSelector(f)

QueryBroad(filters) == filters = <<>> \/ \E i \in DOMAIN filters : QueryFilterBroad(filters[i])
CountBroad(filters) == filters = <<>> \/ \E i \in DOMAIN filters : CountFilterBroad(filters[i])

-----------------------------------------------------------------------------
(* The class of a group event.  A text that is neither letters nor hex     *)
(* holds a separator or a control character.                               *)

ModerationKindValues == {9000, 9001, 9002, 9005, 9007, 9008, 9009}
UserRequestKindValues == {9021, 9022}
RelayGeneratedKindValues == 39000..39004

GroupIdNew(t, max) == IF t.length \in 1..max /\ (t.letters \/ t.hex) THEN Some(t) ELSE None

Unclassified == <<"error">>
NonGroup == <<"none">>
GroupTag(t) == <<"group", t>>

IdentityTags(e) == {i \in DOMAIN e.tags : e.tags[i][1].name \in {"h", "d"}}
EnsureGroupTagLimit(e) == Cardinality(IdentityTags(e)) <= GroupTagsMax

\* extract_group_tag: every tag of the name must hold one and the same valid id.
ExtractGroupTag(e, name) ==
  LET named == {i \in DOMAIN e.tags : e.tags[i][1].name = name}
      ids == {IF Len(e.tags[i]) > 1 THEN GroupIdNew(e.tags[i][2], GroupIdMax) ELSE None : i \in named}
  IN IF named = {} THEN NonGroup
     ELSE IF None \in ids \/ Cardinality(ids) > 1 THEN Unclassified
     ELSE GroupTag((CHOOSE id \in ids : TRUE)[1])

RequireGroupTag(e, name) ==
  LET tag == ExtractGroupTag(e, name) IN IF tag = NonGroup THEN Unclassified ELSE tag

As(class, tag) == IF tag[1] = "group" THEN <<class, tag[2]>> ELSE tag

ClassifyGroupEvent(e) ==
  CASE e.kind \in RelayGeneratedKindValues -> As("snapshot", RequireGroupTag(e, "d"))
    [] e.kind \in ModerationKindValues -> As("moderation", RequireGroupTag(e, "h"))
    [] e.kind \in UserRequestKindValues -> As("normal", RequireGroupTag(e, "h"))
    [] OTHER -> IF IdentityTags(e) = {} THEN NonGroup ELSE As("normal", ExtractGroupTag(e, "h"))

\* require_indexed_tag_value: every tag of the name has a value; the last is taken.
RequireIndexedTagValue(e, name) ==
  LET named == SelectSeq(e.tags, LAMBDA tag : tag[1].name = name)
  IN IF named = <<>> \/ \E i \in DOMAIN named : Len(named[i]) < 2 THEN None
     ELSE Some(Last(named)[2])

ValidateModerationTargets(e) ==
  /\ e.kind \in {9000, 9001} => Then(RequireIndexedTagValue(e, "p"), PublicKeyNew) # None
  /\ e.kind = 9005 => RequireIndexedTagValue(e, "e") # None

\* validate_client_group_event_structure
ClientGroupStructure(e) ==
  /\ EnsureGroupTagLimit(e)
  /\ LET class == ClassifyGroupEvent(e)
     IN /\ class # Unclassified
        /\ class[1] # "snapshot"
        /\ class[1] = "moderation" => ValidateModerationTargets(e)

-----------------------------------------------------------------------------
(* The metadata of a group, as a client's event gives it                   *)
(* (crates/tangle_groups: metadata.rs) and the relay's snapshot shows it   *)
(* (signing.rs).                                                           *)

MetadataTextMax == [name |-> 128, picture |-> 2048, about |-> 4096]
MetadataFlags == {"private", "restricted", "hidden", "closed"}

ParseTextTag(tag, max) ==
  IF Len(tag) < 2 THEN Some(None) ELSE IF tag[2].length > max THEN None ELSE Some(Some(tag[2]))

ParseNumber(t) ==
  LET read == {n \in DOMAIN Decimal : Decimal[n] = t}
  IN IF read = {} THEN None ELSE Some(CHOOSE n \in read : TRUE)

ParseSupportedKindsTag(tag) ==
  IF Len(tag) = 1 THEN Some(<<"none">>)
  ELSE IF Len(tag) - 1 > KindsMax THEN None
  ELSE Then(TryAll([i \in 1..(Len(tag) - 1) |-> Then(ParseNumber(tag[i + 1]), KindNew)]),
            LAMBDA kinds : Some(<<"only", ToSet(kinds)>>))

\* Of several texts of one name the last is taken, also if it has no value; a
\* second supported_kinds is refused.
ParseGroupMetadata(e) ==
  LET Named(name) == SelectSeq(e.tags, LAMBDA tag : tag[1].name = name)
      TextOf(name) ==
        Then(TryAll([i \in DOMAIN Named(name) |-> ParseTextTag(Named(name)[i], MetadataTextMax[name])]),
             LAMBDA texts : Some(IF texts = <<>> THEN None ELSE Last(texts)))
      kinds == Named("supported_kinds")
      supported == IF kinds = <<>> THEN Some(<<"all">>)
                   ELSE IF Len(kinds) > 1 THEN None ELSE ParseSupportedKindsTag(kinds[1])
  IN IF ~AllSome(<<TextOf("name"), TextOf("picture"), TextOf("about"), supported>>) THEN None
     ELSE Some([text |-> [name \in DOMAIN MetadataTextMax |-> TextOf(name)[1]],
                flags |-> {f \in MetadataFlags : Named(f) # <<>>}, supported |-> supported[1]])

\* metadata_tags
MetadataTags(group, m) ==
  LET texts(name) == IF m.text[name] = None THEN <<>> ELSE <<<<Word(name), m.text[name][1]>>>>
      flags(name) == IF name \in m.flags THEN <<<<Word(name)>>>> ELSE <<>>
      kinds == IF m.supported[1] # "only" THEN <<>>
               ELSE LET ks == SetToSortSeq(m.supported[2], <)
                    IN [i \in DOMAIN ks |-> Decimal[ks[i]]]
  IN <<<<Text("d", 1, FALSE, TRUE), group>>>> \o texts("name") \o texts("picture") \o texts("about")
       \o flags("private") \o flags("restricted") \o flags("hidden") \o flags("closed")
       \o IF m.supported = <<"all">> THEN <<>> ELSE <<<<Word("supported_kinds")>> \o kinds>>

\* is_pocket_nip70_protected_event
IsProtected(e) == \E i \in DOMAIN e.tags : e.tags[i][1].name = "-"
=============================================================================
