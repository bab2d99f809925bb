-------------------------- MODULE MCArgumentRoute ---------------------------
(* The tools, and the answers a model may give, of the argument runs.       *)
EXTENDS ArgumentRoute, Naturals, TLC

T(t) == [type |-> <<t>>]
Nullable(t) == [type |-> <<t, "null">>]
Regex(strings) == [compiles |-> TRUE, language |-> strings]
MCDateFormat == [compiles |-> TRUE, language |-> {"day"}]
DateString == [type |-> <<"string">>, format |-> MCDateFormat]
Root(props, needs) == [type |-> <<"object">>, properties |-> props, required |-> needs]
Payload == Root([n |-> T("string"), m |-> T("integer")], {"m"})
One(prop) == Root([p |-> prop], {"p"})
Optional(prop) == Root([p |-> prop], {})

MCImported ==
    [ optional_choice |-> Optional([type |-> <<"string">>, enum |-> <<Str("a"), Str("1")>>]),
      null_choice |-> Optional([enum |-> <<Str("a"), Null>>]),
      wide_enum |-> Optional([type |-> <<"string", "null">>, enum |-> <<Str("a")>>]),
      nested |-> One(Payload),
      optional_nested |-> Optional([anyOf |-> <<Payload, T("null")>>]),
      nested_list |-> Optional([type |-> <<"array">>, items |-> Payload]),
      pair |-> Optional([type |-> <<"array">>, prefixItems |-> <<Payload, T("integer")>>,
                         items |-> Nothing]),
      bounds |-> One([type |-> <<"integer">>, minimum |-> Whole(1), exclusiveMinimum |-> Bool(TRUE),
                      multipleOf |-> Whole(2)]),
      mixed_literal |-> One([enum |-> <<Whole(1), Float(3)>>]),
      typed_const |-> One([type |-> <<"integer">>, const |-> Str("a")]),
      exclusive |-> One([oneOf |-> <<T("number"), T("integer")>>]),
      intersected |-> Optional([allOf |-> <<[type |-> <<"integer">>, minimum |-> Whole(1)],
                                           [maximum |-> Whole(1)]>>]),
      typed_union |-> Optional([type |-> <<"integer">>,
                                anyOf |-> <<[minimum |-> Whole(2)], [maximum |-> Whole(0)],
                                            T("string")>>]),
      root_branch |-> With(Root([p |-> T("integer")], {"p"}), "allOf",
                           <<[properties |-> [q |-> T("string")], required |-> {"q"}]>>),
      patterns |-> One([patternProperties |-> (Regex({"n", "m"}) :> T("integer")
                                                @@ Regex({"m"}) :> T("number")),
                        additionalProperties |-> T("boolean")]),
      untyped_object |-> One([properties |-> [n |-> T("string")], required |-> {"n"}]),
      typed_map |-> Optional([type |-> <<"object">>,
                              additionalProperties |-> [type |-> <<"integer">>, minimum |-> Whole(1)]]),
      closed |-> Optional([type |-> <<"object">>, additionalProperties |-> Nothing]),
      unique |-> Optional([type |-> <<"array">>, uniqueItems |-> TRUE, minItems |-> 1]),
      dates |-> Optional([anyOf |-> <<[type |-> <<"array">>, items |-> DateString], T("null")>>]),
      day |-> Optional(DateString),
      dated |-> One([type |-> <<"object">>, properties |-> [n |-> T("string")], required |-> {"n"},
                     patternProperties |-> (Regex({"n"}) :> DateString)]),
      forbidden |-> Root([p |-> T("integer"), q |-> Nothing], {}),
      open |-> With(One(T("boolean")), "additionalProperties", T("integer")),
      anything |-> NoFields,
      pointer |-> With(One([ref |-> "R"]), "defs", [R |-> [const |-> Whole(1)]]) ]

Needed(type) == [type |-> type, default |-> {}]
Defaulted(type, v) == [type |-> type, default |-> {v}]
Is(t) == [is |-> t]
Of(t, member) == [is |-> t, of |-> member]
Each(t, members) == [is |-> t, each |-> members]
Maybe(U) == Each("union", <<U, NoneType>>)
Mode == [is |-> "enum", members |-> <<Null, Str("a")>>]
Point == [is |-> "enum", members |-> <<List(<<Whole(1), Whole(1)>>), List(<<Whole(1)>>)>>]
Item == [is |-> "model", fields |-> [n |-> Maybe(Is("str")), m |-> Is("int")], needs |-> {"m"}]

MCHandler ==
    [ h_day |-> [p |-> Defaulted(Maybe(Is("date")), Null)],
      h_days |-> [p |-> Needed(Of("list", Is("date")))],
      h_level |-> [p |-> Defaulted(Maybe(Is("int")), Whole(1))],
      h_set |-> [p |-> Needed(Of("set", Maybe(Is("int"))))],
      h_pair |-> [p |-> Needed(Each("tuple", <<Is("int"), Is("str")>>))],
      h_same |-> [p |-> Defaulted(Each("tuple", <<Is("int"), Is("int")>>), Null)],
      h_mode |-> [p |-> Needed(Mode)],
      h_point |-> [p |-> Defaulted(Maybe(Point), Null)],
      h_pick |-> [p |-> Needed(Maybe([is |-> "enum", members |-> <<Str("a"), Str("1")>>]))],
      h_item |-> [p |-> Needed(Item), q |-> Defaulted(Is("str"), Str("a"))],
      h_items |-> [p |-> Defaulted(Of("list", Item), Null)],
      h_either |-> [p |-> Needed(Each("union", <<Is("int"), Is("date")>>))],
      h_counts |-> [p |-> Needed(Of("dict", Is("int")))],
      h_keyed |-> [p |-> Needed(Of("intdict", Is("date")))] ]

MCTools == DOMAIN MCHandler \cup DOMAIN MCImported

MCScalars == {Null, Bool(TRUE), Whole(0), Whole(1), Float(2), Whole(2), Float(3),
              Str("a"), Str("1"), Str("day")}
Inner == {Null, Bool(TRUE), Whole(1), Float(2), Str("1"), Str("day")}
Objects == { Obj(f) : f \in UNION { [K -> Inner] : K \in SUBSET {"n", "m"} } }
Items == {Obj([n |-> Null, m |-> Whole(1)]), Obj([m |-> Whole(1)])}
Lists == { List(l) : l \in {<<>>} \cup [1..1 -> Inner] \cup [1..2 -> Inner] }
            \cup { List(<<o>>) : o \in Items \cup {Obj([n |-> Str("a"), m |-> Whole(1)]),
                                                   Obj([m |-> Str("1")])} }
            \cup { List(<<o, v>>) : o \in Items, v \in {Null, Whole(1)} }
Values == MCScalars \cup Objects \cup Lists \cup {Obj("1" :> Str("day")), Obj("n" :> Str("day"))}

MCAnswers ==
    {NoFields} \cup { [p |-> v] : v \in Values } \cup { [q |-> v] : v \in {Null, Str("a")} }
      \cup { [p |-> v, q |-> w] : v \in {Null, Whole(1), Bool(TRUE)} \cup Objects,
                                  w \in {Null, Whole(1), Str("a")} }
=============================================================================
