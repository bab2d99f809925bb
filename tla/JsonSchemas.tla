---------------------------- MODULE JsonSchemas ----------------------------
(***************************************************************************)
(* The argument validator of the execution engine, as operators: what a    *)
(* tool's JSON schema accepts (_validate_arguments), which explicit nulls   *)
(* are dropped first (_normalize_arguments), and the constraint keywords    *)
(* both share with the framework bridge (schema/base.py).                   *)
(*                                                                         *)
(* A JSON value is a pair of its kind and its content.  A number counts     *)
(* halves, so that 1, 1.0 and 1.5 are apart.  A schema is a record of the   *)
(* keywords it carries, a boolean schema [bool |-> b]; its type is the      *)
(* sequence of the kinds it names (one, for a scalar `type`), a regex and a *)
(* string format are the strings they accept, and `ref` stands for every    *)
(* keyword the validator does not evaluate.  Messages are left out: a       *)
(* rejection is FALSE whichever check made it.                              *)
(***************************************************************************)
LOCAL INSTANCE Integers
LOCAL INSTANCE FiniteSets
LOCAL INSTANCE Sequences
LOCAL INSTANCE SequencesExt

Null == <<"null">>
Bool(b) == <<"boolean", b>>
Whole(n) == <<"integer", 2 * n>>
Float(halves) == <<"float", halves>>
Str(s) == <<"string", s>>
List(items) == <<"array", items>>
Obj(f) == <<"object", f>>

Kind(v) == v[1]
IsNumber(v) == Kind(v) \in {"integer", "float"}
IsList(v) == Kind(v) = "array"
IsObj(v) == Kind(v) = "object"

NoFields == [k \in {} |-> Null]
Anything == [bool |-> TRUE]
Nothing == [bool |-> FALSE]
IsBoolean(s) == "bool" \in DOMAIN s

(* A keyword of a schema, or what stands for its absence. *)
Get(s, k, absent) == IF k \in DOMAIN s THEN s[k] ELSE absent
Properties(s) == Get(s, "properties", NoFields)
Required(s) == Get(s, "required", {})
Patterns(s) == Get(s, "patternProperties", NoFields)
Prefix(s) == Get(s, "prefixItems", <<>>)
Branches(s, k) == Get(s, k, <<>>)

Restricted(f, keys) == [k \in DOMAIN f \cap keys |-> f[k]]
With(f, k, v) == [x \in DOMAIN f \cup {k} |-> IF x = k THEN v ELSE f[x]]
Without(f, k) == Restricted(f, DOMAIN f \ {k})
CountWhere(seq, Test(_)) == Cardinality({i \in DOMAIN seq : Test(seq[i])})
-----------------------------------------------------------------------------
(* Values JSON Schema calls equal: kinds first, then values, 1 being 1.0.   *)

RECURSIVE json_identity_key(_)
json_identity_key(v) ==
    CASE IsNumber(v) -> <<"number", v[2]>>
      [] IsList(v) -> <<"array", [i \in DOMAIN v[2] |-> json_identity_key(v[2][i])]>>
      [] IsObj(v) -> <<"object", [k \in DOMAIN v[2] |-> json_identity_key(v[2][k])]>>
      [] OTHER -> v

SameJson(v, w) == json_identity_key(v) = json_identity_key(w)

(* The four bounds that apply: draft 04 turns a bound exclusive by a        *)
(* boolean, later drafts give the exclusive bound itself.                   *)
resolve_numeric_bounds(s) ==
    LET Bounds(plain, exclusive) ==
            LET own == IF plain \in DOMAIN s THEN {s[plain][2]} ELSE {}
            IN  IF exclusive \notin DOMAIN s
                  THEN [within |-> own, beyond |-> {}]
                ELSE IF Kind(s[exclusive]) = "boolean"
                  THEN IF s[exclusive][2] THEN [within |-> {}, beyond |-> own]
                                          ELSE [within |-> own, beyond |-> {}]
                ELSE [within |-> own, beyond |-> {s[exclusive][2]}]
    IN  [lower |-> Bounds("minimum", "exclusiveMinimum"),
         upper |-> Bounds("maximum", "exclusiveMaximum")]

InBounds(s, n) ==
    LET b == resolve_numeric_bounds(s)
    IN  /\ \A m \in b.lower.within : n >= m
        /\ \A m \in b.lower.beyond : n > m
        /\ \A m \in b.upper.within : n <= m
        /\ \A m \in b.upper.beyond : n < m

SizeWithin(n, s, least, most) ==
    /\ least \in DOMAIN s => n >= s[least]
    /\ most \in DOMAIN s => n <= s[most]

(* Each family of constraints speaks of one kind of value only. *)
check_json_constraints(v, s) ==
    CASE IsNumber(v) ->
            /\ InBounds(s, v[2])
            /\ "multipleOf" \in DOMAIN s => v[2] % s.multipleOf[2] = 0
      [] Kind(v) = "string" ->
            /\ SizeWithin(Len(v[2]), s, "minLength", "maxLength")
            /\ "pattern" \in DOMAIN s /\ s.pattern.compiles => v[2] \in s.pattern.language
            /\ "format" \in DOMAIN s /\ s.format.compiles => v[2] \in s.format.language
      [] IsList(v) ->
            /\ SizeWithin(Len(v[2]), s, "minItems", "maxItems")
            /\ Get(s, "uniqueItems", FALSE) =>
                 \A i, j \in DOMAIN v[2] : SameJson(v[2][i], v[2][j]) => i = j
      [] IsObj(v) ->
            SizeWithin(Cardinality(DOMAIN v[2]), s, "minProperties", "maxProperties")
      [] OTHER -> TRUE

(* Whether null satisfies a schema; callers ask it whether an explicit null *)
(* is a value to keep.                                                      *)
RECURSIVE null_validates_against(_)
null_validates_against(s) ==
    IF IsBoolean(s) THEN s.bool
    ELSE IF "const" \in DOMAIN s THEN s.const = Null
    ELSE IF "enum" \in DOMAIN s THEN Contains(s.enum, Null)
    ELSE /\ "type" \in DOMAIN s => Contains(s.type, "null")
         /\ "anyOf" \in DOMAIN s => \E b \in ToSet(s.anyOf) : null_validates_against(b)
         /\ "oneOf" \in DOMAIN s => CountWhere(s.oneOf, null_validates_against) = 1
         /\ "allOf" \in DOMAIN s => \A b \in ToSet(s.allOf) : null_validates_against(b)

schema_declares_null(s) == null_validates_against(s)
-----------------------------------------------------------------------------
(* Which schemas the validator understands whole.                           *)

RECURSIVE _fully_evaluable(_)
_fully_evaluable(s) ==
    /\ "ref" \notin DOMAIN s
    /\ "pattern" \in DOMAIN s => s.pattern.compiles
    /\ "format" \in DOMAIN s => s.format.compiles
    /\ \A p \in DOMAIN Patterns(s) : p.compiles /\ _fully_evaluable(Patterns(s)[p])
    /\ \A n \in DOMAIN Properties(s) : _fully_evaluable(Properties(s)[n])
    /\ \A k \in {"anyOf", "oneOf", "allOf", "prefixItems"} :
         \A b \in ToSet(Branches(s, k)) : _fully_evaluable(b)
    /\ \A k \in {"items", "additionalProperties", "not"} \cap DOMAIN s :
         _fully_evaluable(s[k])

RECURSIVE _branch_declared_names(_)
_branch_declared_names(s) ==
    UNION { DOMAIN Properties(b) \cup _branch_declared_names(b) :
              b \in UNION { ToSet(Branches(s, k)) : k \in {"allOf", "anyOf", "oneOf"} } }
-----------------------------------------------------------------------------
MatchesType(v, t) ==
    CASE t = "number" -> IsNumber(v)
      [] OTHER -> Kind(v) = t

(* The keys a compilable pattern finds are declared, and bound to it. *)
MatchedKeys(s, keys) ==
    { k \in keys : \E p \in DOMAIN Patterns(s) : p.compiles /\ k \in p.language }

(* An object schema's word on the keys it does not declare.  A schema that  *)
(* describes its object is closed unless it says otherwise, one that only   *)
(* constrains it (a combinator's branch) or declares no key at all is open. *)
ExtraKeys(s, partial, free_form) ==
    IF "additionalProperties" \in DOMAIN s THEN s.additionalProperties
    ELSE IF partial \/ free_form THEN Anything ELSE Nothing

RECURSIVE _validate_value(_, _, _)
ObjectValid(f, s, partial, free_form) ==
    LET keys == DOMAIN f
        declared == DOMAIN Properties(s)
        extra == keys \ (declared \cup MatchedKeys(s, keys)
                           \cup (IF free_form THEN {} ELSE _branch_declared_names(s)))
    IN  /\ Required(s) \subseteq keys
        /\ \A p \in DOMAIN Patterns(s) :
             p.compiles => \A k \in keys \cap p.language :
                             _validate_value(f[k], Patterns(s)[p], partial)
        /\ \A k \in keys \cap declared : _validate_value(f[k], Properties(s)[k], partial)
        /\ \A k \in extra :
             _validate_value(f[k], ExtraKeys(s, partial, free_form), partial)

ListValid(items, s, partial) ==
    \A i \in DOMAIN items :
        IF i <= Len(Prefix(s)) THEN _validate_value(items[i], Prefix(s)[i], partial)
        ELSE _validate_value(items[i], Get(s, "items", Anything), partial)

(* A combinator is enforced only when each of its branches is understood:   *)
(* a branch that is not would count as a match.                             *)
Enforced(branches) == branches # <<>> /\ \A b \in ToSet(branches) : _fully_evaluable(b)

CombinatorsHold(v, s) ==
    LET Accepts(b) == _validate_value(v, b, TRUE)
    IN  /\ Enforced(Branches(s, "anyOf")) => CountWhere(s.anyOf, Accepts) > 0
        /\ Enforced(Branches(s, "oneOf")) => CountWhere(s.oneOf, Accepts) = 1
        /\ "not" \in DOMAIN s /\ _fully_evaluable(s["not"]) => ~ Accepts(s["not"])
        /\ \A b \in ToSet(Branches(s, "allOf")) : Accepts(b)

_validate_value(v, s, partial) ==
    IF IsBoolean(s) THEN s.bool
    ELSE /\ CombinatorsHold(v, s)
         /\ "type" \in DOMAIN s => \E t \in ToSet(s.type) : MatchesType(v, t)
         /\ "enum" \in DOMAIN s => \E m \in ToSet(s.enum) : SameJson(v, m)
         /\ "const" \in DOMAIN s => SameJson(v, s.const)
         /\ check_json_constraints(v, s)
         /\ IsList(v) => ListValid(v[2], s, partial)
         /\ IsObj(v) => ObjectValid(v[2], s, partial, Properties(s) = NoFields)

_ROOT_ASSERTIONS ==
    {"allOf", "anyOf", "oneOf", "not", "const", "enum", "minProperties", "maxProperties"}

(* What the engine accepts as a call's arguments (an object's fields): the  *)
(* root describes its object whatever it declares.                          *)
_validate_arguments(s, args) ==
    /\ _validate_value(Obj(args), Restricted(s, _ROOT_ASSERTIONS), FALSE)
    /\ ObjectValid(args, s, FALSE, FALSE)

(* The same schema read as a provider's grammar or a JSON Schema validator  *)
(* reads it: an object is open unless it says it is closed.                 *)
Conforms(v, s) == _validate_value(v, s, TRUE)
-----------------------------------------------------------------------------
(* Explicit nulls: dropped where they say "not provided".                   *)

(* Slip: only the schema's own keywords are looked at. *)
OwnSubschema(s, k) == IF k \in DOMAIN s THEN {s} ELSE {}

(* The one subschema that carries keyword k, the schema itself or a branch  *)
(* of its combinators; none when several do.                                *)
_declaring_subschema(s, k) ==
    LET Carries(b) == k \in DOMAIN b /\ DOMAIN b[k] \notin {{}, {"bool"}}
        found == SelectSeq(Branches(s, "anyOf") \o Branches(s, "oneOf")
                             \o Branches(s, "allOf"), Carries)
    IN  IF Carries(s) THEN {s} ELSE IF Len(found) = 1 THEN {found[1]} ELSE {}

RECURSIVE _normalize_child(_, _)
(* Slip: every optional null is dropped. *)
NotProvidedSlip(s, k, v) == v = Null /\ k \in DOMAIN Properties(s) \ Required(s)

NotProvided(s, k, v) ==
    /\ v = Null
    /\ k \in DOMAIN Properties(s) \ Required(s)
    /\ ~ schema_declares_null(Properties(s)[k])

_normalize_object(f, s) ==
    [ k \in { x \in DOMAIN f : ~ NotProvided(s, x, f[x]) } |->
        _normalize_child(f[k], Get(Properties(s), k, Anything)) ]

_normalize_child(v, s) ==
    IF IsBoolean(s) THEN v
    ELSE IF IsObj(v)
      THEN LET target == _declaring_subschema(s, "properties")
           IN  IF target = {} THEN v
               ELSE Obj(_normalize_object(v[2], CHOOSE t \in target : TRUE))
    ELSE IF IsList(v)
      THEN LET prefix == UNION { {t.prefixItems} : t \in _declaring_subschema(s, "prefixItems") }
               tail == { t.items : t \in _declaring_subschema(s, "items") }
               ItemSchema(i) ==
                   IF \E p \in prefix : i <= Len(p) THEN (CHOOSE p \in prefix : TRUE)[i]
                   ELSE IF tail = {} THEN Anything ELSE CHOOSE t \in tail : TRUE
           IN  List([i \in DOMAIN v[2] |-> _normalize_child(v[2][i], ItemSchema(i))])
    ELSE v

_normalize_arguments(s, args) == _normalize_object(args, s)
=============================================================================
