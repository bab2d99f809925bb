--------------------------- MODULE SchemaDialects ---------------------------
(***************************************************************************)
(* What the providers' dialects make of a JSON schema: the strict spelling   *)
(* of OpenAI, the schemas that have none, and the keywords Gemini accepts.   *)
(*                                                                         *)
(* The description that is lifted out of a wrapped schema is left out, as   *)
(* are the paths reported: a schema has a strict spelling or it has none.   *)
(***************************************************************************)
EXTENDS JsonSchemas
LOCAL INSTANCE Naturals
LOCAL INSTANCE Sequences
LOCAL INSTANCE SequencesExt

Annotations == {"default"}
OneSchema == {"items", "not"}
SeveralSchemas == {"anyOf", "oneOf", "allOf", "prefixItems"}
NullOnly == [type |-> <<"null">>]

(* A schema with every subschema under key k replaced by Change of it. *)
Within(s, k, Change(_)) ==
    IF k \in OneSchema THEN Change(s[k])
    ELSE IF k \in SeveralSchemas THEN [i \in DOMAIN s[k] |-> Change(s[k][i])]
    ELSE s[k]
-----------------------------------------------------------------------------
(* OpenAI's strict mode: every property required, the optional ones made to *)
(* admit null.                                                              *)

(* Slip: the type is widened, the enum is not. *)
EnumKept(s) == s

_admit_null_in_enum(s) ==
    IF "enum" \in DOMAIN s /\ ~ Contains(s.enum, Null)
      THEN [s EXCEPT !.enum = Append(@, Null)] ELSE s

_wrap_in_nullable_anyof(s) ==
    IF DOMAIN s = {} THEN s ELSE [anyOf |-> <<s, NullOnly>>]

_make_nullable(s) ==
    LET keys == DOMAIN s
    IN  IF "anyOf" \in keys
          THEN IF keys \ ({"anyOf"} \cup Annotations) # {} THEN _wrap_in_nullable_anyof(s)
               ELSE IF \E b \in ToSet(s.anyOf) : Get(b, "type", <<>>) = <<"null">> THEN s
               ELSE [s EXCEPT !.anyOf = Append(@, NullOnly)]
        ELSE IF keys \cap {"oneOf", "allOf", "const"} # {} \/ "type" \notin keys
          THEN _wrap_in_nullable_anyof(s)
        ELSE _admit_null_in_enum(
               IF Contains(s.type, "null") THEN s ELSE [s EXCEPT !.type = Append(@, "null")])

RECURSIVE _strict_in_place(_)
_strict_in_place(s) ==
    IF IsBoolean(s) THEN s
    ELSE LET widened ==
                 [ n \in DOMAIN Properties(s) |->
                     LET sub == _strict_in_place(Properties(s)[n])
                     IN  IF n \in Required(s) \/ IsBoolean(sub) THEN sub
                         ELSE _make_nullable(sub) ]
             inner == [k \in DOMAIN s |-> Within(s, k, _strict_in_place)]
         IN  IF "properties" \notin DOMAIN s THEN inner
             ELSE With(With(With(inner, "properties", widened),
                            "required", DOMAIN widened),
                       "additionalProperties", Nothing)

strict_json_schema(s) ==
    IF DOMAIN s = {}
      THEN [type |-> <<"object">>, properties |-> NoFields, required |-> {},
            additionalProperties |-> Nothing]
    ELSE _strict_in_place(s)
-----------------------------------------------------------------------------
(* Which schemas have no strict spelling: an object of keys it does not     *)
(* list, an enum without a type, a property no value satisfies.             *)

_is_open_map(s, at_root) ==
    LET additional == Get(s, "additionalProperties", NoFields)
    IN  \/ Patterns(s) # NoFields
        \/ /\ Properties(s) # NoFields
           /\ DOMAIN additional \notin {{}, {"bool"}}
        \/ /\ Properties(s) = NoFields
           /\ additional # Nothing
           /\ at_root /\ "properties" \in DOMAIN s => "additionalProperties" \in DOMAIN s

_is_typeless_enum(s) == "type" \notin DOMAIN s /\ "enum" \in DOMAIN s

DescribesObject(s) ==
    \/ Contains(Get(s, "type", <<>>), "object")
    \/ "properties" \in DOMAIN s
    \/ Patterns(s) # NoFields
    \/ "additionalProperties" \in DOMAIN s /\ "type" \notin DOMAIN s

RECURSIVE _collect_open_maps(_, _)
_collect_open_maps(s, at_root) ==
    /\ ~ IsBoolean(s)
    /\ \/ DescribesObject(s) /\ _is_open_map(s, at_root)
       \/ _is_typeless_enum(s)
       \/ \E n \in DOMAIN Properties(s) :
            \/ Properties(s)[n] = Nothing
            \/ _collect_open_maps(Properties(s)[n], FALSE)
       \/ \E k \in {"items", "not", "additionalProperties"} \cap DOMAIN s :
            _collect_open_maps(s[k], FALSE)
       \/ \E k \in SeveralSchemas \cap DOMAIN s :
            \E b \in ToSet(s[k]) : _collect_open_maps(b, FALSE)

unsupported_strict_paths(s) == DOMAIN s # {} /\ _collect_open_maps(s, TRUE)

-----------------------------------------------------------------------------
(* Gemini: references inlined (a reference names one of the root's defs),   *)
(* the keywords its API rejects dropped, const spelled as an enum.          *)

_GEMINI_UNSUPPORTED ==
    {"additionalProperties", "patternProperties", "default",
     "exclusiveMinimum", "exclusiveMaximum"}
_MAX_INLINE_DEPTH == 2      \* 12 in the code

RECURSIVE _inline_local_refs(_, _, _)
_inline_local_refs(s, defs, depth) ==
    LET Inline(x) == _inline_local_refs(x, defs, depth)
        Below(x) == [k \in DOMAIN x |->
                       IF k \in {"properties", "patternProperties"}
                         THEN [n \in DOMAIN x[k] |-> Inline(x[k][n])]
                       ELSE IF k = "additionalProperties" THEN Inline(x[k])
                       ELSE Within(x, k, Inline)]
    IN  IF IsBoolean(s) THEN s
        ELSE IF "ref" \in DOMAIN s /\ s.ref \in DOMAIN defs /\ depth < _MAX_INLINE_DEPTH
          THEN LET target == _inline_local_refs(defs[s.ref], defs, depth + 1)
                   own == Without(s, "ref")
               IN  [k \in DOMAIN target \cup DOMAIN own |->
                      IF k \in DOMAIN own THEN own[k] ELSE target[k]]
        ELSE Below(s)

RECURSIVE _sanitize_gemini_in_place(_)
_sanitize_gemini_in_place(s) ==
    IF IsBoolean(s) THEN s
    ELSE LET kept == Restricted(s, DOMAIN s \ _GEMINI_UNSUPPORTED)
             enumerated == IF "const" \in DOMAIN kept
                             THEN With(Without(kept, "const"), "enum", <<kept.const>>)
                             ELSE kept
         IN  [k \in DOMAIN enumerated |->
                IF k = "properties"
                  THEN [n \in DOMAIN s.properties |-> _sanitize_gemini_in_place(s.properties[n])]
                ELSE Within(enumerated, k, _sanitize_gemini_in_place)]

sanitize_gemini_schema(s) ==
    IF DOMAIN s = {} THEN [type |-> <<"object">>, properties |-> NoFields]
    ELSE _sanitize_gemini_in_place(
           _inline_local_refs(Without(s, "defs"), Get(s, "defs", NoFields), 0))
=============================================================================
