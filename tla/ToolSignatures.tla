--------------------------- MODULE ToolSignatures ---------------------------
(***************************************************************************)
(* ToolSpec, the handle every framework adapter wraps: the Python signature *)
(* it advertises of a tool's JSON schema (python_signature), and what its    *)
(* ainvoke makes of the arguments a framework hands back before the engine   *)
(* sees them.                                                                *)
(*                                                                         *)
(* A framework that reads the signature parses the model's answer by it      *)
(* (external): SignatureValue is the value it makes, a tuple or a date being *)
(* no JSON value.                                                           *)
(***************************************************************************)
EXTENDS JsonSchemas
LOCAL INSTANCE Naturals
LOCAL INSTANCE Sequences
LOCAL INSTANCE SequencesExt

Date(s) == <<"date", s>>
Tuple(items) == <<"tuple", items>>

Scalars == {"string", "integer", "number", "boolean"}

(* The type a signature reads off a schema: the first that is not null. *)
_json_type_to_python(s) ==
    LET named == SelectSeq(Get(s, "type", <<>>), LAMBDA t : t # "null")
    IN  IF named = <<>> THEN "string" ELSE named[1]

(* Values a Literal can hold. *)
_literal_members(s) ==
    LET members == IF "const" \in DOMAIN s THEN <<s.const>> ELSE Get(s, "enum", <<>>)
    IN  IF \E m \in ToSet(members) : IsList(m) \/ IsObj(m) THEN <<>> ELSE members

(* The container every member of a choice is. *)
_composite_choice_type(s) ==
    LET members == IF "const" \in DOMAIN s THEN <<s.const>> ELSE Get(s, "enum", <<>>)
    IN  { t \in {"array", "object"} :
            /\ members # <<>> /\ "type" \notin DOMAIN s
            /\ \A m \in ToSet(members) : Kind(m) = t }

(* The branch a schema without a type of its own is read by. *)
_choice_branch(s) ==
    LET Real(b) == DOMAIN b \notin {{}, {"bool"}} /\ Get(b, "type", <<>>) # <<"null">>
        real == SelectSeq(Branches(s, "anyOf") \o Branches(s, "oneOf"), Real)
    IN  IF "type" \in DOMAIN s \/ real = <<>> THEN {} ELSE {real[1]}
-----------------------------------------------------------------------------
RECURSIVE SignatureValue(_, _), Typed(_)

(* Whether a subschema names a type a container annotation can carry: str   *)
(* is also the fallback for none.                                           *)
Typed(s) == DOMAIN s \notin {{}, {"bool"}}
            /\ (_literal_members(s) # <<>> \/ _composite_choice_type(s) # {}
                \/ _choice_branch(s) # {} \/ "type" \in DOMAIN s)

(* A tuple, for an array whose length and positions are all pinned. *)
_positional_annotation(s) ==
    LET low == Get(s, "minItems", 0)
        Entry(i) == IF i <= Len(Prefix(s)) THEN Prefix(s)[i] ELSE Get(s, "items", Anything)
    IN  IF /\ {"minItems", "maxItems"} \subseteq DOMAIN s /\ low = s.maxItems
           /\ \A i \in 1..low : Typed(Entry(i))
          THEN {[i \in 1..low |-> Entry(i)]} ELSE {}

AllTaken(f, Take(_)) ==
    IF \E k \in DOMAIN f : Take(k) = {} THEN {}
    ELSE {[k \in DOMAIN f |-> CHOOSE w \in Take(k) : TRUE]}

ListValue(v, s) ==
    LET items == Get(s, "items", Anything)
        Item(i) == SignatureValue(v[2][i], items)
    IN  IF _positional_annotation(s) # {}
          THEN LET entries == CHOOSE e \in _positional_annotation(s) : TRUE
                   Entry(i) == SignatureValue(v[2][i], entries[i])
               IN  IF Len(v[2]) # Len(entries) THEN {}
                   ELSE { Tuple(t) : t \in AllTaken(v[2], Entry) }
        ELSE IF Typed(items) THEN { List(t) : t \in AllTaken(v[2], Item) }
        ELSE {v}

ObjectValue(v, s) ==
    LET additional == Get(s, "additionalProperties", Anything)
        Value(k) == SignatureValue(v[2][k], additional)
    IN  IF Properties(s) = NoFields /\ DOMAIN additional \notin {{}, {"bool"}}
          THEN { Obj(f) : f \in AllTaken(v[2], Value) }
        ELSE {v}

(* The value of the annotation (_annotation_for_prop) a JSON answer parses  *)
(* to; none when the annotation refuses it.                                 *)
SignatureValue(v, s) ==
    LET t == _json_type_to_python(s)
    IN  IF _literal_members(s) # <<>>
          THEN { m \in ToSet(_literal_members(s)) : SameJson(m, v) }
        ELSE IF _composite_choice_type(s) # {}
          THEN { w \in {v} : Kind(v) \in _composite_choice_type(s) }
        ELSE IF _choice_branch(s) # {}
          THEN SignatureValue(v, CHOOSE b \in _choice_branch(s) : TRUE)
        ELSE IF Get(s, "type", <<>>) = <<"null">> THEN { w \in {v} : w = Null }
        ELSE IF ~ MatchesType(v, t) THEN {}
        ELSE IF t = "array" THEN ListValue(v, s)
        ELSE IF t = "object" THEN ObjectValue(v, s)
        ELSE IF Get(s, "type", <<>>) = <<"string">> /\ "format" \in DOMAIN s /\ s.format.compiles
          THEN { Date(v[2]) : w \in {x \in {v} : x[2] \in s.format.language} }
        ELSE {v}

(* A keyword argument: a required parameter takes null when its schema      *)
(* does, an optional one may be left null.                                  *)
ParameterValue(v, s, required) ==
    IF v = Null /\ (required => schema_declares_null(s)) THEN {Null} ELSE SignatureValue(v, s)

_default(s) ==
    IF "default" \in DOMAIN s /\ s.default # Null
        /\ ("type" \in DOMAIN s => MatchesType(s.default, _json_type_to_python(s)))
      THEN s.default ELSE Null

-----------------------------------------------------------------------------
(* Back to JSON: dates to strings, tuples to arrays, at every depth.        *)

RECURSIVE _json_native(_, _)
(* Slip: a combinator's branches are not looked into. *)
OwnKeywordsOnly(v, s) == v

(* The first branch of a combinator that changes the value. *)
_json_native_via_branches(v, s) ==
    LET changes == SelectSeq(Branches(s, "anyOf") \o Branches(s, "oneOf") \o Branches(s, "allOf"),
                             LAMBDA b : _json_native(v, b) # v)
    IN  IF changes = <<>> THEN v ELSE _json_native(v, changes[1])

(* Every schema a key is under is applied to its value, in turn. *)
KeySchemas(k, s) ==
    LET matched == { Patterns(s)[p] : p \in {q \in DOMAIN Patterns(s) :
                                               q.compiles /\ k \in q.language} }
        own == { Properties(s)[n] : n \in DOMAIN Properties(s) \cap {k} }
    IN  IF own \cup matched # {} THEN SetToSeq(own) \o SetToSeq(matched)
        ELSE <<Get(s, "additionalProperties", Anything)>>

_json_native(v, s) ==
    IF IsBoolean(s) THEN v
    ELSE CASE Kind(v) = "date" ->
                IF "format" \in DOMAIN s /\ s.format.compiles THEN Str(v[2])
                ELSE _json_native_via_branches(v, s)
           [] Kind(v) \in {"array", "tuple"} ->
                LET Entry(i) == IF i <= Len(Prefix(s)) THEN Prefix(s)[i]
                                ELSE Get(s, "items", Anything)
                    native == List([i \in DOMAIN v[2] |-> _json_native(v[2][i], Entry(i))])
                IN  IF native # v THEN native ELSE _json_native_via_branches(v, s)
           [] IsObj(v) ->
                LET native == Obj([k \in DOMAIN v[2] |->
                                     FoldLeft(LAMBDA w, sub : _json_native(w, sub),
                                              v[2][k], KeySchemas(k, s))])
                IN  IF native # v THEN native ELSE _json_native_via_branches(v, s)
           [] OTHER -> v

(* What ainvoke sends the engine: no null an optional parameter's schema    *)
(* does not declare (an undeclared key admits none), and JSON values only.  *)
SentNulls(s, k) ==
    k \in Required(s) \/ schema_declares_null(Get(Properties(s), k, Nothing))

ainvoke(s, args) ==
    [ k \in { x \in DOMAIN args : args[x] # Null \/ SentNulls(s, x) } |->
        _json_native(args[k], Get(Properties(s), k, Anything)) ]
=============================================================================
