------------------------------ MODULE Protocol ------------------------------
(***************************************************************************)
(* The values and messages of the Nostr protocol (crates/tangle_protocol): *)
(* scalars, tags, addresses, events and filters, their JSON and what the   *)
(* parsers accept.                                                         *)
(*                                                                         *)
(* A text is what the code can tell about it: its name, its length in      *)
(* characters, whether it is lower case hex and whether it is made of      *)
(* ASCII letters.  A JSON value is tagged with its type; an object is the  *)
(* sequence of its fields as they are read.  The largest values of u32 and *)
(* u64 are parameters.                                                     *)
(***************************************************************************)
EXTENDS Integers, Sequences, FiniteSets, SequencesExt

CONSTANTS MaxU32, MaxU64

ASSUME WidthAssumption == MaxU32 \in Nat /\ MaxU64 \in Nat /\ 39999 < MaxU32 /\ MaxU32 < MaxU64

\* Optional values and results are sequences of at most one element.
None == <<>>
Some(x) == <<x>>
Then(o, F(_)) == IF o = None THEN None ELSE F(o[1])
AllSome(s) == \A i \in DOMAIN s : s[i] # None
\* collect::<Result<Vec<_>, _>>
TryAll(s) == IF AllSome(s) THEN Some([i \in DOMAIN s |-> s[i][1]]) ELSE None

\* The items of a sequence at some positions, in their order.
ItemsAt(s, at) ==
  [n \in 1..Cardinality(at) |-> s[CHOOSE i \in at : Cardinality({j \in at : j < i}) = n - 1]]

Text(name, length, hex, letters) == [name |-> name, length |-> length, hex |-> hex, letters |-> letters]
Word(name) == Text(name, 4, FALSE, TRUE)

Str(t) == <<"string", t>>
Num(n) == <<"number", n>>
Arr(s) == <<"array", s>>
Obj(fields) == <<"object", fields>>

AsStr(v) == IF v[1] = "string" THEN Some(v[2]) ELSE None
AsU64(v) == IF v[1] = "number" /\ v[2] \in 0..MaxU64 THEN Some(v[2]) ELSE None
AsArray(v) == IF v[1] = "array" THEN Some(v[2]) ELSE None

\* The key of a field: a plain word, or `#` and the name of a tag.
Key(name) == [tag |-> FALSE, text |-> Word(name)]
TagKey(t) == [tag |-> TRUE, text |-> t]
Field(name, v) == <<Key(name), v>>
FieldValues(o, name) == ItemsAt(o, {i \in DOMAIN o : o[i][1] = Key(name)})
FieldValue(o, name) ==
  LET found == FieldValues(o, name) IN IF found = <<>> THEN None ELSE Some(found[1][2])

-----------------------------------------------------------------------------
(* Scalars.                                                                *)

HexLength == 64
SubscriptionIdMax == 64

RequireLowercaseHex(t, n) == t.length = n /\ t.hex

EventIdNew(t) == IF RequireLowercaseHex(t, HexLength) THEN Some(t) ELSE None
PublicKeyNew(t) == IF RequireLowercaseHex(t, HexLength) THEN Some(t) ELSE None
SignatureNew(t) == IF RequireLowercaseHex(t, 2 * HexLength) THEN Some(t) ELSE None
SubscriptionIdNew(t) == IF t.length \in 1..SubscriptionIdMax THEN Some(t) ELSE None

KindNew(n) == IF n <= MaxU32 THEN Some(n) ELSE None
KindClass(k) ==
  CASE k \in {0, 3} \union 10000..19999 -> "replaceable"
    [] k \in 20000..29999 -> "ephemeral"
    [] k \in 30000..39999 -> "addressable"
    [] OTHER -> "regular"

-----------------------------------------------------------------------------
(* Tags and addresses.                                                     *)

TagNameNew(t) == IF t.length > 0 THEN Some(t) ELSE None
IsIndexable(t) == t.length = 1 /\ t.letters

\* A tag is the sequence of its texts.
TagNew(values) ==
  IF values = <<>> THEN None ELSE Then(TagNameNew(values[1]), LAMBDA t : Some(values))

\* Tag::indexed_pair
IndexedPair(tag) ==
  IF IsIndexable(tag[1]) /\ Len(tag) > 1 THEN Some(<<tag[1], tag[2]>>) ELSE None

AddressNew(kind, pubkey, d) ==
  IF KindClass(kind) = "addressable" THEN Some([kind |-> kind, pubkey |-> pubkey, d |-> d]) ELSE None

\* AddressCoordinate::from_event: the first `d` tag with a value.  A tag value is
\* here the sequence of its pieces between colons.
DTags(event) == SelectSeq(event.tags, LAMBDA tag : IndexedPair(tag) # None /\ tag[1].name = "d")
AddressFromEvent(event, PiecesOf(_)) ==
  IF DTags(event) = <<>> THEN None
  ELSE AddressNew(event.kind, event.pubkey, PiecesOf(DTags(event)[1][2]))

\* The text of an address is `kind:pubkey:d`; splitn(3, ':') leaves the colons of d.
AddressPieces(a) == <<a.kind, a.pubkey>> \o a.d

\* Mutation: the identifier ends at the next colon.
AddressFromThree(pieces) ==
  IF Len(pieces) < 3 THEN None
  ELSE Then(KindNew(pieces[1]), LAMBDA k :
         Then(PublicKeyNew(pieces[2]), LAMBDA p : AddressNew(k, p, <<pieces[3]>>)))

AddressFromPieces(pieces) ==
  IF Len(pieces) < 3 THEN None
  ELSE Then(KindNew(pieces[1]), LAMBDA k :
         Then(PublicKeyNew(pieces[2]), LAMBDA p : AddressNew(k, p, SubSeq(pieces, 3, Len(pieces)))))

-----------------------------------------------------------------------------
(* Events and their JSON.                                                  *)

Event(id, pubkey, created_at, kind, tags, content, sig) ==
  [id |-> id, pubkey |-> pubkey, created_at |-> created_at, kind |-> kind,
   tags |-> tags, content |-> content, sig |-> sig]

TagsValue(tags) == Arr([i \in DOMAIN tags |-> Arr([j \in DOMAIN tags[i] |-> Str(tags[i][j])])])

\* canonical_event_json: what the id of an event is the hash of.
CanonicalJson(e) ==
  Arr(<<Num(0), Str(e.pubkey), Num(e.created_at), Num(e.kind), TagsValue(e.tags), Str(e.content)>>)

EventToValue(e) ==
  Obj(<<Field("id", Str(e.id)), Field("pubkey", Str(e.pubkey)), Field("created_at", Num(e.created_at)),
        Field("kind", Num(e.kind)), Field("tags", TagsValue(e.tags)), Field("content", Str(e.content)),
        Field("sig", Str(e.sig))>>)

FieldString(o, name) == Then(FieldValue(o, name), AsStr)
FieldU64(o, name) == Then(FieldValue(o, name), AsU64)

TagFromValue(v) ==
  Then(AsArray(v), LAMBDA parts :
    Then(TryAll([i \in DOMAIN parts |-> AsStr(parts[i])]), TagNew))
TagsFromValue(v) ==
  Then(AsArray(v), LAMBDA tags : TryAll([i \in DOMAIN tags |-> TagFromValue(tags[i])]))

EventFromValue(v) ==
  IF v[1] # "object" THEN None
  ELSE LET o == v[2]
           id == Then(FieldString(o, "id"), EventIdNew)
           pubkey == Then(FieldString(o, "pubkey"), PublicKeyNew)
           created_at == FieldU64(o, "created_at")
           kind == Then(FieldU64(o, "kind"), KindNew)
           tags == Then(FieldValue(o, "tags"), TagsFromValue)
           content == FieldString(o, "content")
           sig == Then(FieldString(o, "sig"), SignatureNew)
       IN IF AllSome(<<id, pubkey, created_at, kind, tags, content, sig>>)
          THEN Some(Event(id[1], pubkey[1], created_at[1], kind[1], tags[1], content[1], sig[1]))
          ELSE None

\* serde_json refuses a text that is nested deeper.
JsonDepth == 128

\* The values of a value's fields or items.
Parts(v) ==
  CASE v[1] = "object" -> {v[2][i][2] : i \in DOMAIN v[2]}
    [] v[1] = "array" -> {v[2][i] : i \in DOMAIN v[2]}
    [] OTHER -> {}

\* A value and what is in it, at any depth.
Nested(v) ==
  LET within[d \in 0..JsonDepth] ==
        IF d = 0 THEN {v}
        ELSE LET above == within[d - 1] IN above \union UNION {Parts(x) : x \in above}
  IN  within[JsonDepth]

\* UniqueJsonValue: no object, at any depth, has two fields of one name.
UniqueFields(v) ==
  \A x \in Nested(v) :
    x[1] = "object" => \A i, j \in DOMAIN x[2] : x[2][i][1] = x[2][j][1] => i = j

ParseEventJson(v) == IF UniqueFields(v) THEN EventFromValue(v) ELSE None

-----------------------------------------------------------------------------
(* Filters.                                                                *)

\* tag_filters is a map: a set of names with their values.
EmptyFilter ==
  [ids |-> <<>>, authors |-> <<>>, kinds |-> <<>>, tag_filters |-> {},
   since |-> None, until |-> None, limit |-> None, search |-> None]

\* Filter::from_parts
FilterFromParts(f) ==
  IF \A t \in f.tag_filters : IsIndexable(t[1]) /\ t[2] # <<>> THEN Some(f) ELSE None

WithLimit(f, limit) == [f EXCEPT !.limit = limit]
IsComplete(f) == f.ids # <<>>

Matches(f, e) ==
  /\ f.ids # <<>> => Contains(f.ids, e.id)
  /\ f.authors # <<>> => Contains(f.authors, e.pubkey)
  /\ f.kinds # <<>> => Contains(f.kinds, e.kind)
  /\ f.since # None => e.created_at >= f.since[1]
  /\ f.until # None => e.created_at <= f.until[1]
  /\ \A t \in f.tag_filters :
       \E i \in DOMAIN e.tags :
         /\ IndexedPair(e.tags[i]) # None
         /\ e.tags[i][1] = t[1]
         /\ Contains(t[2], e.tags[i][2])

Strings(s) == Arr([i \in DOMAIN s |-> Str(s[i])])
When(condition, field) == IF condition THEN <<field>> ELSE <<>>
OptionalField(name, o, Value(_)) == IF o = None THEN <<>> ELSE <<Field(name, Value(o[1]))>>

FilterToValue(f) ==
  Obj(When(f.ids # <<>>, Field("ids", Strings(f.ids)))
      \o When(f.authors # <<>>, Field("authors", Strings(f.authors)))
      \o When(f.kinds # <<>>, Field("kinds", Arr([i \in DOMAIN f.kinds |-> Num(f.kinds[i])])))
      \o [i \in 1..Cardinality(f.tag_filters) |->
            LET t == SetToSeq(f.tag_filters)[i] IN <<TagKey(t[1]), Strings(t[2])>>]
      \o OptionalField("since", f.since, Num)
      \o OptionalField("until", f.until, Num)
      \o OptionalField("limit", f.limit, Num)
      \o OptionalField("search", f.search, Str))

\* parse_string_filter_array, parse_u64_filter_array: a non-empty array of items.
ParseItems(v, Item(_)) ==
  Then(AsArray(v), LAMBDA s :
    IF s = <<>> THEN None ELSE TryAll([i \in DOMAIN s |-> Item(s[i])]))
ParseEventIds(v) == ParseItems(v, LAMBDA x : Then(AsStr(x), EventIdNew))
ParsePubkeys(v) == ParseItems(v, LAMBDA x : Then(AsStr(x), PublicKeyNew))
ParseKinds(v) == ParseItems(v, LAMBDA x : Then(AsU64(x), KindNew))

\* parse_tag_filter_field: values of `#e` and `#p` are ids and keys.
ParseTagFilterField(t, v) ==
  IF TagNameNew(t) = None \/ ~IsIndexable(t) THEN None
  ELSE Then(ParseItems(v, LAMBDA x : Then(AsStr(x), LAMBDA s :
              CASE t.name = "e" -> EventIdNew(s) [] t.name = "p" -> PublicKeyNew(s) [] OTHER -> Some(s))),
            LAMBDA values : Some(<<t, values>>))

FilterFields == {"ids", "authors", "kinds", "since", "until", "limit", "search"}
Supported(key) == key.tag \/ \E name \in FilterFields : key = Key(name)

\* A field that is absent keeps the value of the empty filter.
Parsed(o, name, Parse(_), absent) ==
  LET v == FieldValue(o, name) IN IF v = None THEN Some(absent) ELSE Parse(v[1])
ParsedOption(o, name, Parse(_)) ==
  Parsed(o, name, LAMBDA v : Then(Parse(v), LAMBDA x : Some(Some(x))), None)

FilterFromValue(v) ==
  IF v[1] # "object" \/ \E i \in DOMAIN v[2] : ~Supported(v[2][i][1]) THEN None
  ELSE LET o == v[2]
           tagFields == SelectSeq(o, LAMBDA f : f[1].tag)
           tags == TryAll([i \in DOMAIN tagFields |->
                             ParseTagFilterField(tagFields[i][1].text, tagFields[i][2])])
           ids == Parsed(o, "ids", ParseEventIds, <<>>)
           authors == Parsed(o, "authors", ParsePubkeys, <<>>)
           kinds == Parsed(o, "kinds", ParseKinds, <<>>)
           since == ParsedOption(o, "since", AsU64)
           until == ParsedOption(o, "until", AsU64)
           limit == ParsedOption(o, "limit", AsU64)
           search == ParsedOption(o, "search", AsStr)
       IN IF AllSome(<<tags, ids, authors, kinds, since, until, limit, search>>)
          THEN Some([ids |-> ids[1], authors |-> authors[1], kinds |-> kinds[1],
                     tag_filters |-> ToSet(tags[1]), since |-> since[1], until |-> until[1],
                     limit |-> limit[1], search |-> search[1]])
          ELSE None

-----------------------------------------------------------------------------
(* Messages.                                                               *)

ParseEventMessage(s, type) ==
  IF Len(s) # 2 THEN None
  ELSE Then(EventFromValue(s[2]), LAMBDA e : Some([type |-> type, event |-> e]))

ParseQueryMessage(s, type) ==
  IF Len(s) < 3 THEN None
  ELSE LET sub == Then(AsStr(s[2]), SubscriptionIdNew)
           filters == TryAll([i \in 1..(Len(s) - 2) |-> FilterFromValue(s[i + 2])])
       IN IF AllSome(<<sub, filters>>)
          THEN Some([type |-> type, sub |-> sub[1], filters |-> filters[1]]) ELSE None

ParseCloseMessage(s) ==
  IF Len(s) # 2 THEN None
  ELSE Then(Then(AsStr(s[2]), SubscriptionIdNew), LAMBDA x : Some([type |-> "CLOSE", sub |-> x]))

ParseClientMessage(v) ==
  IF ~UniqueFields(v) \/ v[1] # "array" \/ v[2] = <<>> THEN None
  ELSE Then(AsStr(v[2][1]), LAMBDA command :
    CASE command.name \in {"EVENT", "AUTH"} -> ParseEventMessage(v[2], command.name)
      [] command.name \in {"REQ", "COUNT"} -> ParseQueryMessage(v[2], command.name)
      [] command.name = "CLOSE" -> ParseCloseMessage(v[2])
      [] OTHER -> None)

\* relay_message_to_value
RelayMessageToValue(m) ==
  Arr(<<Str(Word(m.type))>> \o
    CASE m.type = "EVENT" -> <<Str(m.sub), EventToValue(m.event)>>
      [] m.type = "OK" -> <<Str(m.id), <<"bool", m.accepted>>, Str(m.message)>>
      [] m.type = "EOSE" -> <<Str(m.sub)>>
      [] m.type = "COUNT" -> <<Str(m.sub), Obj(<<Field("count", Num(m.count))>>
                                               \o OptionalField("hll", m.hll, Str))>>
      [] m.type \in {"NOTICE", "AUTH"} -> <<Str(m.message)>>
      [] m.type \in {"CLOSED", "NEG-ERR", "NEG-MSG"} -> <<Str(m.sub), Str(m.message)>>)
=============================================================================
