------------------------------- MODULE MCQuery -------------------------------
(* A store of a few events in public, private and deleted groups and outside *)
(* of groups, and the texts of clients around the limits of the relay.       *)
EXTENDS Query

Hash(name) == Text(name, 64, TRUE, FALSE)
A == Hash("alice")
B == Hash("bob")
Root == Hash("root")
Letter(name) == Text(name, 1, FALSE, TRUE)
Pub == Word("public")
Priv == Word("private")
Gone == Word("gone")
Long == Text("long", 6, FALSE, TRUE)

E(id, key, at, kind, tags) == Event(Hash(id), key, at, kind, tags, Word("text"), Text("sig", 128, TRUE, FALSE))
H(g) == <<Letter("h"), g>>

MCStore ==
  <<E("n1", A, 1, 1, <<>>), E("p1", A, 2, 9, <<H(Priv), <<Letter("p"), A>>>>), E("u1", B, 2, 1, <<H(Pub)>>),
    E("m1", B, 3, 39000, <<<<Letter("d"), Priv>>>>), E("d1", A, 3, 9008, <<H(Gone)>>),
    E("g1", A, 1, 1, <<H(Gone)>>), E("x1", B, 3, 1, <<H(Pub)>>), E("n2", B, 3, 1, <<<<Letter("p"), A>>>>),
    E("k1", A, 3, 7, <<>>), E("n3", B, 2, 1, <<>>), E("k2", A, 1, 7, <<>>)>>

MCHashRank == [id \in {MCStore[i].id : i \in DOMAIN MCStore} |->
                 CHOOSE i \in DOMAIN MCStore : MCStore[i].id = id]
Group(private, members, tombstone) ==
  [private |-> private, hidden |-> FALSE, members |-> members, tombstone |-> tombstone]
MCGroups == (Pub :> Group(FALSE, {A}, None)) @@ (Priv :> Group(TRUE, {A}, None))
            @@ (Gone :> Group(TRUE, {A}, Some(Hash("d1"))))
MCDeleted == {Hash("x1")}
MCAdmins == {Root}
MCAuths == {{}, {A}, {B}, {A, B}}

Emit == [i \in DOMAIN MCStore |-> <<"emit">>]
NoLive == [i \in DOMAIN MCStore |-> <<>>]
MCHookSets ==
  {[plan |-> None, decide |-> Emit, live |-> NoLive],
   [plan |-> None, decide |-> [Emit EXCEPT ![1] = <<"replace", 2>>, ![3] = <<"suppress">>,
                                           ![8] = <<"replace", 1>>],
    live |-> [NoLive EXCEPT ![1] = <<2, 8>>, ![3] = <<12, 1>>]],
   [plan |-> Some(3), decide |-> [Emit EXCEPT ![8] = <<"replace", 3>>, ![1] = <<"replace", 12>>,
                                              ![3] = <<"replace", 2>>], live |-> NoLive]}

MCLimits ==
  [max_subid_length |-> 4, max_filters |-> 2, max_tag_values |-> 2, max_limit |-> 4,
   default_limit |-> 2, max_complexity |-> 6, max_event_tags |-> 2, max_content_length |-> 8]
MCQueryConfig == [allow_scraping |-> FALSE, limited_to |-> 2, max_seconds |-> 3]

Option(fields) == {<<>>} \union {<<f>> : f \in fields}
HashArray(names) == Arr([i \in DOMAIN names |-> Str(Hash(names[i]))])
Kinds == {Field("kinds", Arr(<<Num(1)>>)), Field("kinds", Arr(<<Num(39000), Num(1)>>)),
          Field("kinds", Arr(<<Num(9)>>)), Field("kinds", Arr(<<Num(MaxKind + 1)>>))}
Selectors == {Field("ids", HashArray(<<"n1", "p1">>)), Field("ids", Arr(<<>>)),
              Field("authors", Arr(<<Str(A)>>)),
              <<TagKey(Letter("h")), Arr(<<Str(Priv)>>)>>,
              <<TagKey(Letter("h")), Arr(<<Str(Pub)>>)>>,
              <<TagKey(Letter("h")), Arr(<<Str(Pub), Str(Gone)>>)>>,
              <<TagKey(Letter("d")), Arr(<<Str(Priv)>>)>>,
              <<TagKey(Letter("p")), Arr(<<Str(A)>>)>>,
              <<TagKey(Letter("p")), Arr(<<Str(Word("none"))>>)>>,
              <<TagKey(Word("long")), Arr(<<Str(A)>>)>>,
              Field("search", Str(Word("text"))), Field("other", Num(1))}
Bounds == {<<Field("limit", Num(0))>>, <<Field("limit", Num(1))>>, <<Field("limit", Num(3))>>, <<Field("limit", Num(4))>>,
           <<Field("limit", Num(MaxU32))>>, <<Field("limit", Num(MaxU32 + 1))>>,
           <<Field("until", Num(2)), Field("limit", Num(4))>>,
           <<Field("since", Num(2)), Field("until", Num(2))>>,
           <<Field("until", Num(1)), Field("until", Num(3))>>,
           <<Field("since", Num(1)), Field("until", Num(BroadWindow + 2))>>, <<>>}
Filters == {Obj(k \o s \o b) : k \in Option(Kinds), s \in Option(Selectors), b \in Bounds}
Pairs == {Obj(<<Field("ids", HashArray(<<"n1", "p1">>)), Field("limit", Num(0))>>),
          Obj(<<Field("kinds", Arr(<<Num(1)>>)), Field("limit", Num(1))>>),
          Obj(<<Field("authors", Arr(<<Str(A)>>)), Field("limit", Num(1))>>),
          Obj(<<Field("authors", Arr(<<Str(B)>>)), Field("limit", Num(4))>>),
          Obj(<<Field("authors", Arr(<<Str(A)>>)), Field("limit", Num(4))>>)}
\* Texts of each name, absent, without a value, at and over their limit and given twice;
\* kinds that are none, one, the same twice, too many and not a number.
MCDecimal == (0 :> Text("0", 1, TRUE, FALSE)) @@ (9 :> Text("9", 1, TRUE, FALSE))
             @@ (11 :> Text("11", 2, TRUE, FALSE))
Title(n) == <<Word("name"), Text("title", n, FALSE, TRUE)>>
KindsTag(ks) == <<Word("supported_kinds")>> \o ks
Titles == {<<>>, <<<<Word("name")>>>>, <<Title(128)>>, <<Title(129)>>, <<Title(1), <<Word("name")>>>>,
           <<Title(1), <<Word("about"), Word("text")>>, Title(2)>>}
Flags == {<<>>, <<<<Word("private")>>, <<Word("closed"), Word("text")>>, <<Word("private")>>>>}
KindLists == {<<>>, <<KindsTag(<<>>)>>, <<KindsTag(<<MCDecimal[11], MCDecimal[9]>>)>>,
              <<KindsTag(<<MCDecimal[9], MCDecimal[9]>>)>>, <<KindsTag(<<Word("text")>>)>>,
              <<KindsTag(<<MCDecimal[0], MCDecimal[9], MCDecimal[11]>>)>>,
              <<KindsTag(<<>>), KindsTag(<<MCDecimal[9]>>)>>}
Edits == {E("e1", A, 1, 9002, <<H(Pub)>> \o t \o f \o k) : t \in Titles, f \in Flags, k \in KindLists}
Command(name, rest) == Arr(<<Str(Word(name))>> \o rest)
Sub == Str(Word("s"))
MCInputs ==
  {Command(c, <<Sub, f>>) : c \in {"REQ", "COUNT"}, f \in Filters}
  \union {Command(c, <<Sub, f, g>>) : c \in {"REQ", "COUNT"}, f \in Pairs, g \in Pairs}
  \union {Command("REQ", <<Str(Long), Obj(<<>>)>>), Command("REQ", <<Sub>>), Command("OTHER", <<>>),
          Command("NEG-OPEN", <<Sub, Obj(<<>>), Str(Hash("m"))>>), Command("NEG-MSG", <<Str(Long), Str(Hash("m"))>>),
          Command("NEG-MSG", <<Sub, Str(Word("m"))>>), Command("NEG-CLOSE", <<Sub>>), Command("CLOSE", <<Sub>>),
          Command("EVENT", <<Num(1)>>)}
  \union {Command(c, <<EventToValue(e)>>) : c \in {"EVENT", "AUTH"}, e \in ToSet(MCStore) \union Edits \union
             {E("a1", A, 1, 30023, <<<<Letter("d"), Text("x:y", 3, FALSE, FALSE)>>>>),
              E("a2", A, 1, 30023, <<<<Letter("d")>>>>), E("a3", A, 1, MaxKind + 1, <<>>),
              [E("a4", A, 1, 1, <<<<>>>>) EXCEPT !.sig = A]}}
=============================================================================
