---------------------------- MODULE SchemaBridge ----------------------------
(***************************************************************************)
(* The args model a framework adapter builds of a tool's JSON schema        *)
(* (pydantic_model_from_schema), read as the validation it performs: each   *)
(* operator gives the values the model hands on for a value, none when it   *)
(* rejects it.  Pydantic itself is external: lax mode coerces scalars,      *)
(* strict mode does not, a strict model takes no mapping, and a union takes *)
(* an exact match before a coerced one.                                     *)
(*                                                                         *)
(* The memo of built models, names no model field can have and the bound on *)
(* nesting are left out: they only decide that there is no model.           *)
(***************************************************************************)
EXTENDS JsonSchemas
LOCAL INSTANCE Naturals
LOCAL INSTANCE FiniteSets
LOCAL INSTANCE Sequences
LOCAL INSTANCE SequencesExt

Numeral == [s \in {"0", "1"} |-> IF s = "1" THEN 2 ELSE 0]

(* Pydantic's reading of a scalar (external). *)
AsNumber(v) ==
    CASE IsNumber(v) -> {v[2]}
      [] Kind(v) = "boolean" -> {IF v[2] THEN 2 ELSE 0}
      [] Kind(v) = "string" /\ v[2] \in DOMAIN Numeral -> {Numeral[v[2]]}
      [] OTHER -> {}

Scalar(t, v, strict) ==
    IF Kind(v) = t THEN {v}
    ELSE CASE t = "integer" ->
                { <<"integer", n>> : n \in {m \in AsNumber(v) : ~ strict /\ m % 2 = 0} }
           [] t = "number" ->
                { <<"float", n>> : n \in {m \in AsNumber(v) : ~ strict \/ IsNumber(v)} }
           [] t = "boolean" ->
                { Bool(n = 2) : n \in {m \in AsNumber(v) : ~ strict /\ m \in {0, 2}} }
           [] OTHER -> {}

(* The one type of a property besides null, if it has one. *)
_effective_type(s) ==
    LET kinds == SelectSeq(Get(s, "type", <<>>), LAMBDA t : t # "null")
    IN  IF Len(kinds) = 1 THEN {kinds[1]} ELSE {}

(* Slip: the combinator's own types are the whole story. *)
DeclaredTypeDropped(v, s) == TRUE

(* A type beside an enum, a const or a combinator still applies, strictly. *)
_intersect_declared_type(v, s) ==
    \A t \in _effective_type(s) :
        \/ Scalar(t, v, TRUE) # {}
        \/ v = Null /\ schema_declares_null(s)

_with_constraints(taken, s) == { w \in taken : check_json_constraints(w, s) }

(* An enum or a const: a scalar choice is handed on as the member it equals, *)
(* a list of choices that holds a container only checks the value.          *)
MembersOf(s) == IF "const" \in DOMAIN s THEN <<s.const>> ELSE Get(s, "enum", <<>>)

_literal_annotation(v, members) ==
    LET same == { m \in ToSet(members) : SameJson(m, v) }
    IN  IF \E m \in ToSet(members) : IsList(m) \/ IsObj(m)
          THEN {w \in {v} : same # {}} ELSE same

(* Keys that belong to no declared property and no pattern are allowed. *)
_admits_undeclared(s) ==
    IF "additionalProperties" \in DOMAIN s THEN s.additionalProperties # Nothing
    ELSE Properties(s) = NoFields
-----------------------------------------------------------------------------
RECURSIVE _annotation(_, _, _)

Taken(v, s, strict) ==
    IF IsBoolean(s) THEN IF s.bool THEN {v} ELSE {}
    ELSE _with_constraints(_annotation(v, s, strict), s)

(* One choice of an outcome for every element of a sequence or a mapping. *)
EachTaken(taken) ==
    { g \in [DOMAIN taken -> UNION {taken[k] : k \in DOMAIN taken}] :
        \A k \in DOMAIN taken : g[k] \in taken[k] }

(* A branch checked on its own: strictly, save for a bare model. *)
BareModel(s) ==
    /\ Get(s, "type", <<>>) = <<"object">>
    /\ Properties(s) # NoFields \/ Get(s, "additionalProperties", Anything) = Nothing
    /\ DOMAIN s \cap {"enum", "const", "anyOf", "oneOf", "allOf",
                      "minProperties", "maxProperties"} = {}

(* The branches of a combinator, given the type they inherit. *)
_combinator_parts(s, k) ==
    LET typed == SelectSeq(Branches(s, k), LAMBDA b : Len(Get(b, "type", <<>>)) = 1)
        inherited == IF _effective_type(s) # {} THEN _effective_type(s)
                     ELSE IF k = "allOf" /\ typed # <<>> THEN {typed[1].type[1]} ELSE {}
        Part(b) == IF DOMAIN b \in {{}, {"bool"}} \/ "type" \in DOMAIN b \/ inherited = {} THEN b
                   ELSE With(b, "type", <<CHOOSE t \in inherited : TRUE>>)
    IN  [i \in DOMAIN Branches(s, k) |-> Part(Branches(s, k)[i])]

(* Exact matches go before coerced ones, where both may be taken. *)
ExactFirst(taken, strict, choice) == taken[strict \/ (choice /\ taken[TRUE] # {})]

(* The values a combinator hands on, given what each branch takes: the union *)
(* of the alternatives' (of the first of allOf's when there are none).      *)
UnionTaken(v, parts, taken, strict) ==
    IF parts = <<>> \/ \E b \in ToSet(parts) : DOMAIN b = {} \/ b = Anything THEN {v}
    ELSE ExactFirst([exactly \in BOOLEAN |-> UNION {taken[b][exactly] : b \in ToSet(parts)}],
                    strict, TRUE)

BaseParts(any, one, all) ==
    IF any # <<>> THEN any ELSE IF one # <<>> THEN one
    ELSE SelectSeq(all, LAMBDA b : DOMAIN b # {} /\ b # Anything)

Combined(v, any, one, all, taken, strict) ==
    LET Matches(b) == taken[b][~ BareModel(b)] # {}
        first == IF any = <<>> /\ one = <<>> THEN 1 ELSE Len(any) + Len(one)
    IN  IF (Len(one) > 1 => CountWhere(one, Matches) = 1) /\ (\A b \in ToSet(all) : Matches(b))
          THEN UnionTaken(v, SubSeq(BaseParts(any, one, all), 1, first), taken, strict)
        ELSE {}

Combination(v, any, one, all, strict) ==
    Combined(v, any, one, all,
             [b \in ToSet(any \o one \o all) |-> [exactly \in BOOLEAN |-> Taken(v, b, exactly)]],
             strict)

(* anyOf gives the union, oneOf adds "exactly one", allOf "every one". *)
_union_annotation(v, s, strict) ==
    Combination(v, _combinator_parts(s, "anyOf"), _combinator_parts(s, "oneOf"),
                _combinator_parts(s, "allOf"), strict)

(* A list: its items as they are typed, its leading ones by their place. *)
_array_annotation(v, s, strict) ==
    LET Entry(i) == IF i <= Len(Prefix(s)) THEN Prefix(s)[i] ELSE Get(s, "items", Anything)
        exactly == strict /\ Prefix(s) = <<>>
    IN  IF ~ IsList(v) THEN {}
        ELSE { List(items) : items \in
                 EachTaken([i \in DOMAIN v[2] |-> Taken(v[2][i], Entry(i), exactly)]) }

(* A key several patterns match: the value itself, or a converted one, that *)
(* every one of them takes as it stands.                                    *)
_reconciled(v, taken) ==
    LET Itself(fitting) == IF v \in fitting THEN {v} ELSE fitting
    IN  IF \E s \in DOMAIN taken : taken[s] = {} THEN {}
        ELSE Itself({ w \in {v} \cup UNION {taken[s] : s \in DOMAIN taken} :
                        \A s \in DOMAIN taken : Taken(w, s, TRUE) # {} })

(* What a mapping's keys matched by a pattern are checked by, before the    *)
(* fields are; a key that belongs nowhere is refused.                       *)
_pattern_key_validator(f, s) ==
    LET Matching(k) == { Patterns(s)[p] : p \in {q \in DOMAIN Patterns(s) :
                                                   q.compiles /\ k \in q.language} }
        Take(k) ==
            IF Matching(k) = {} /\ k \notin DOMAIN Properties(s) /\ ~ _admits_undeclared(s)
              THEN {} ELSE _reconciled(f[k], [m \in Matching(k) |-> Taken(f[k], m, FALSE)])
    IN  EachTaken([k \in DOMAIN f |-> Take(k)])

(* Slip: a field may be null only when its schema declares null. *)
FieldAdmitsDeclaredNull(s, k) == schema_declares_null(Properties(s)[k])

(* A field may be null when it is optional or its schema declares null. *)
FieldAdmitsNull(s, k) == k \notin Required(s) \/ schema_declares_null(Properties(s)[k])

(* A model's fields, and the extra keys it takes when it takes any. *)
FieldsTaken(f, s, strict) ==
    LET Matched(k) == \E p \in DOMAIN Patterns(s) : p.compiles /\ k \in p.language
        FieldSchema(k) == IF k \in DOMAIN Properties(s) THEN Properties(s)[k]
                          ELSE IF Matched(k) THEN Anything
                          ELSE IF _admits_undeclared(s)
                            THEN Get(s, "additionalProperties", Anything)
                          ELSE Nothing
        Take(k) ==
            IF k \in DOMAIN Properties(s) /\ f[k] = Null /\ FieldAdmitsNull(s, k) THEN {Null}
            ELSE Taken(f[k], FieldSchema(k), strict /\ Patterns(s) = NoFields)
    IN  EachTaken([k \in DOMAIN f |-> Take(k)])

_build_model(f, s, strict) ==
    IF Required(s) \cap DOMAIN Properties(s) \subseteq DOMAIN f
      THEN UNION { FieldsTaken(g, s, strict) : g \in _pattern_key_validator(f, s) }
    ELSE {}

(* A model for an object of declared fields, a closed one included, a       *)
(* checked mapping otherwise; a model is never taken strictly.              *)
_object_annotation(v, s, strict) ==
    LET model == Properties(s) # NoFields
                 \/ (Patterns(s) = NoFields /\ Get(s, "additionalProperties", Anything) = Nothing)
    IN  IF ~ IsObj(v) \/ (strict /\ model) THEN {}
        ELSE { Obj(g) : g \in _build_model(v[2], s, strict) }

(* Keywords of a kind bind the values of that kind, type or no type. *)
_by_instance_kind(v, s) ==
    CASE IsObj(v) /\ DOMAIN s \cap {"properties", "required", "patternProperties",
                                    "additionalProperties"} # {} -> "object"
      [] IsList(v) /\ DOMAIN s \cap {"items", "prefixItems"} # {} -> "array"
      [] OTHER -> "any"

_annotation(v, s, strict) ==
    LET types == IF "type" \in DOMAIN s THEN ToSet(s.type) ELSE {_by_instance_kind(v, s)}
        several == Cardinality(types) > 1
        OfType(t, exactly) ==
            CASE t = "array" -> _array_annotation(v, s, exactly)
              [] t = "object" -> _object_annotation(v, s, exactly)
              [] t = "null" -> {w \in {v} : w = Null}
              [] t = "any" -> {v}
              [] OTHER -> Scalar(t, v, exactly)
        taken == [exactly \in BOOLEAN |->
                    UNION { OfType(t, exactly) : t \in IF several THEN types \ {"null"} ELSE types }]
    IN  IF MembersOf(s) # <<>> \/ DOMAIN s \cap {"anyOf", "oneOf", "allOf"} # {}
          THEN IF ~ _intersect_declared_type(v, s) THEN {}
               ELSE IF MembersOf(s) # <<>> THEN _literal_annotation(v, MembersOf(s))
               ELSE _union_annotation(v, s, strict)
        ELSE IF several /\ v = Null /\ schema_declares_null(s) THEN {Null}
        ELSE ExactFirst(taken, strict /\ "type" \in DOMAIN s, several)

(* The model's word on a call, and what it hands on: LlamaIndex sends the   *)
(* fields the caller set, CrewAI every field, a missing one as its default. *)
pydantic_model_from_schema(s, args) == _build_model(args, s, FALSE)

Materialized(s, args) ==
    [ k \in DOMAIN args \cup DOMAIN Properties(s) |->
        IF k \in DOMAIN args THEN args[k] ELSE Get(Properties(s)[k], "default", Null) ]
=============================================================================
