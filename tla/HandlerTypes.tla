---------------------------- MODULE HandlerTypes ----------------------------
(***************************************************************************)
(* Introspection of a handler's signature: the JSON schema its annotations  *)
(* give a tool (build_parameters_schema), which arguments have to be rebuilt *)
(* from their JSON form, and the rebuilding the engine does just before the  *)
(* handler runs.                                                             *)
(*                                                                         *)
(* An annotation is a record: `is` names it, `of` is its member type, `each` *)
(* the types of a fixed tuple or of a union.  Docstrings, descriptions and   *)
(* the inlining of a model's references are left out; the schema of a model  *)
(* and the rebuilding itself are Pydantic's (external).                      *)
(***************************************************************************)
EXTENDS ToolSignatures
LOCAL INSTANCE Naturals
LOCAL INSTANCE FiniteSets
LOCAL INSTANCE Sequences
LOCAL INSTANCE SequencesExt

CONSTANT DateFormat   \* the reconstructed string format: the strings that parse

Member(v) == <<"member", v>>
PySet(items) == <<"set", items>>
Model(f) == <<"model", f>>
IntKeys(f) == <<"intkeys", f>>

NoneType == [is |-> "None"]
IsUnion(T) == T.is = "union"
_admits_none(T) == IsUnion(T) /\ Contains(T.each, NoneType)
Real(T) == SelectSeq(T.each, LAMBDA U : U # NoneType)
IntegerKey == {"0", "1"}

ScalarName(t) == CASE t = "int" -> "integer" [] t = "float" -> "number"
                   [] t = "bool" -> "boolean" [] t = "None" -> "null" [] OTHER -> "string"
-----------------------------------------------------------------------------
(* One type is declared beside an enum's members when they share it. *)
_enum_schema(members) ==
    LET kinds == { IF Kind(m) = "float" THEN "number" ELSE Kind(m) : m \in ToSet(members) }
        scalar == kinds \subseteq {"boolean", "integer", "number", "string"}
    IN  IF members = <<>> THEN [type |-> <<"string">>]
        ELSE IF Cardinality(kinds) = 1 /\ scalar
          THEN [type |-> SetToSeq(kinds), enum |-> members]
        ELSE [enum |-> members]

_admit_null(s) ==
    [ k \in DOMAIN s |->
        CASE k = "type" /\ ~ Contains(s.type, "null") -> Append(s.type, "null")
          [] k = "enum" /\ ~ Contains(s.enum, Null) -> Append(s.enum, Null)
          [] OTHER -> s[k] ]

RECURSIVE _type_to_json_schema(_, _), _needs_reconstruction(_)
(* Slip: the members are typed, their number is not. *)
UnboundedTuple(T) ==
    [type |-> <<"array">>,
     prefixItems |-> [i \in DOMAIN T.each |-> _type_to_json_schema(T.each[i], TRUE)]]

(* The number of members is part of a fixed tuple's type; each is declared   *)
(* in its place, or once when all are of one type.                           *)
FixedTuple(T) ==
    LET each == [i \in DOMAIN T.each |-> _type_to_json_schema(T.each[i], TRUE)]
        bounds == [type |-> <<"array">>, minItems |-> Len(each), maxItems |-> Len(each)]
    IN  IF T.each = <<>> THEN bounds
        ELSE IF Cardinality(ToSet(T.each)) = 1 THEN With(bounds, "items", each[1])
        ELSE With(bounds, "prefixItems", each)

(* What Pydantic emits for a model (external): a field that admits None is a *)
(* union of two schemas.                                                    *)
ModelSchema(T) ==
    LET Field(U) ==
            IF _admits_none(U)
              THEN [anyOf |-> <<_type_to_json_schema(U, FALSE), [type |-> <<"null">>]>>]
            ELSE _type_to_json_schema(U, TRUE)
    IN  [type |-> <<"object">>,
         properties |-> [n \in DOMAIN T.fields |-> Field(T.fields[n])],
         required |-> T.needs]

(* The schema of an annotation; a member of a container spells its null out, *)
(* and a union is advertised as its first member.                           *)
_type_to_json_schema(T, in_container) ==
    CASE T.is \in {"int", "float", "bool", "str", "None"} -> [type |-> <<ScalarName(T.is)>>]
      [] T.is = "date" -> [type |-> <<"string">>, format |-> DateFormat]
      [] T.is = "enum" -> _enum_schema(T.members)
      [] T.is = "model" -> ModelSchema(T)
      [] T.is \in {"list", "variadic"} ->
           [type |-> <<"array">>, items |-> _type_to_json_schema(T.of, TRUE)]
      [] T.is = "set" -> [type |-> <<"array">>, uniqueItems |-> TRUE,
                          items |-> _type_to_json_schema(T.of, TRUE)]
      [] T.is = "tuple" -> FixedTuple(T)
      [] T.is \in {"dict", "intdict"} ->
           [type |-> <<"object">>, additionalProperties |-> _type_to_json_schema(T.of, TRUE)]
      [] IsUnion(T) ->
           LET first == _type_to_json_schema(Real(T)[1], in_container)
           IN  IF in_container /\ _admits_none(T) THEN _admit_null(first) ELSE first

(* A parameter: its annotation and its default, if it has one. *)
build_parameters_schema(params) ==
    LET Prop(p) ==
            LET s == _type_to_json_schema(p.type, FALSE)
                nullable == IF _admits_none(p.type) /\ p.default # {Null} THEN _admit_null(s) ELSE s
            IN  IF p.default \in {{}, {Null}} THEN nullable
                ELSE With(nullable, "default", CHOOSE d \in p.default : TRUE)
    IN  [type |-> <<"object">>,
         properties |-> [n \in DOMAIN params |-> Prop(params[n])],
         required |-> {n \in DOMAIN params : params[n].default = {}}]
-----------------------------------------------------------------------------
(* Slip: containers arrive as themselves, whatever they hold. *)
ShallowNeed(T) == T.is \in {"date", "enum", "model", "set", "tuple", "variadic", "intdict"}

(* Whether an annotation's JSON form differs from its Python form. *)
_needs_reconstruction(T) ==
    \/ T.is \in {"date", "enum", "model", "set", "tuple", "variadic", "intdict"}
    \/ T.is \in {"list", "dict"} /\ _needs_reconstruction(T.of)
    \/ IsUnion(T) /\ \E U \in ToSet(Real(T)) : _needs_reconstruction(U)

RECURSIVE validate_python(_, _)
EachRebuilt(f, TypeOf(_)) ==
    IF \E k \in DOMAIN f : validate_python(f[k], TypeOf(k)) = {} THEN {}
    ELSE {[k \in DOMAIN f |-> CHOOSE w \in validate_python(f[k], TypeOf(k)) : TRUE]}

(* Rebuilding (external): the Python value of a JSON one, none on failure.  *)
(* An enum's member is found by JSON identity.                              *)
validate_python(v, T) ==
    LET Of(k) == T.of
        Wrap(Made(_), values) == { Made(x) : x \in values }
    IN  CASE T.is \in {"int", "float", "bool", "str", "None"} ->
               {w \in {v} : MatchesType(w, ScalarName(T.is))}
          [] T.is = "date" -> { Date(v[2]) : w \in {x \in {v} : Kind(x) = "string"
                                                     /\ x[2] \in DateFormat.language} }
          [] T.is = "enum" -> { Member(m) : m \in {n \in ToSet(T.members) : SameJson(n, v)} }
          [] T.is = "list" -> IF IsList(v) THEN Wrap(List, EachRebuilt(v[2], Of)) ELSE {}
          [] T.is = "set" -> IF IsList(v) THEN Wrap(PySet, EachRebuilt(v[2], Of)) ELSE {}
          [] T.is = "variadic" -> IF IsList(v) THEN Wrap(Tuple, EachRebuilt(v[2], Of)) ELSE {}
          [] T.is = "tuple" ->
               IF IsList(v) /\ Len(v[2]) = Len(T.each)
                 THEN Wrap(Tuple, EachRebuilt(v[2], LAMBDA i : T.each[i])) ELSE {}
          [] T.is = "dict" -> IF IsObj(v) THEN Wrap(Obj, EachRebuilt(v[2], Of)) ELSE {}
          [] T.is = "intdict" ->
               IF IsObj(v) /\ DOMAIN v[2] \subseteq IntegerKey
                 THEN Wrap(IntKeys, EachRebuilt(v[2], Of)) ELSE {}
          [] T.is = "model" ->
               IF IsObj(v) /\ T.needs \subseteq DOMAIN v[2]
                 THEN Wrap(Model, EachRebuilt(Restricted(v[2], DOMAIN T.fields),
                                              LAMBDA n : T.fields[n]))
               ELSE {}
          [] IsUnion(T) ->
               LET takes == SelectSeq(T.each, LAMBDA U : validate_python(v, U) # {})
               IN  IF takes = <<>> THEN {} ELSE validate_python(v, takes[1])

(* The arguments the handler is called with; none when one cannot be rebuilt *)
(* (ArgumentReconstructionError: the call fails as invalid).                 *)
_reconstructed(params, args) ==
    LET coerced == { n \in DOMAIN args \cap DOMAIN params : _needs_reconstruction(params[n].type) }
        Outcome(n) == IF n \in coerced THEN validate_python(args[n], params[n].type) ELSE {args[n]}
    IN  IF \E n \in DOMAIN args : Outcome(n) = {} THEN {}
        ELSE {[n \in DOMAIN args |-> CHOOSE w \in Outcome(n) : TRUE]}
-----------------------------------------------------------------------------
(* A Python value of an annotated type. *)
RECURSIVE IsA(_, _)
IsA(v, T) ==
    LET All == \A k \in DOMAIN v[2] : IsA(v[2][k], T.of)
    IN  CASE T.is \in {"int", "float", "bool", "str", "None"} -> MatchesType(v, ScalarName(T.is))
          [] T.is = "date" -> Kind(v) = "date"
          [] T.is = "enum" -> Kind(v) = "member"
          [] T.is = "list" -> IsList(v) /\ All
          [] T.is = "set" -> Kind(v) = "set" /\ All
          [] T.is = "variadic" -> Kind(v) = "tuple" /\ All
          [] T.is = "tuple" -> Kind(v) = "tuple" /\ Len(v[2]) = Len(T.each)
                               /\ \A i \in DOMAIN T.each : IsA(v[2][i], T.each[i])
          [] T.is = "dict" -> IsObj(v) /\ All
          [] T.is = "intdict" -> Kind(v) = "intkeys" /\ All
          [] T.is = "model" -> Kind(v) = "model" /\ \A n \in DOMAIN v[2] : IsA(v[2][n], T.fields[n])
          [] IsUnion(T) -> \E U \in ToSet(T.each) : IsA(v, U)
=============================================================================
