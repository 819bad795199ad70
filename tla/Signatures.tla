------------------------------ MODULE Signatures ------------------------------
(* The types of dbus-glib: the GType that stands for a D-Bus type and back     *)
(* (dbus-gsignature.c, dbus-gvalue.c, dbus-gvalue-utils.c).  A D-Bus type is    *)
(* <<code>>, <<"array", element>>, <<"dict", key, value>> or                    *)
(* <<"struct", member, ...>>; a GType is written in the same way.               *)
EXTENDS Naturals, Sequences, SequencesExt

CONSTANT DBusTypes   \* the D-Bus types that occur in the documents and messages

\* ... with the types they are made of: a signature nests to a bounded depth, so
\* that the recursion over it ends.
ASSUME TypesAreClosed == \A t \in DBusTypes : \A k \in 2..Len(t) : t[k] \in DBusTypes

INVALID == <<"INVALID">>

\* typecode_to_gtype.
Basic == [b |-> "BOOLEAN", y |-> "UCHAR", n |-> "INT", i |-> "INT", q |-> "UINT",
          u |-> "UINT", x |-> "INT64", t |-> "UINT64", d |-> "DOUBLE", s |-> "STRING"]

\* hash_func_from_gtype.
HashKey(g) == g[1] \in {"UCHAR", "BOOLEAN", "INT", "UINT", "STRING", "OBJECT_PATH", "SIGNATURE"}

\* fixed_type_get_size.
Fixed(g) == g[1] \in {"UCHAR", "BOOLEAN", "INT", "UINT", "INT64", "UINT64", "DOUBLE"}

\* G_TYPE_FUNDAMENTAL: what is not basic is boxed.
Fundamental(g) == IF g = INVALID \/ g[1] \in {Basic[c] : c \in DOMAIN Basic} THEN g[1] ELSE "BOXED"

\* _dbus_gtype_is_valid_hash_value.
HashValue(g) == Fundamental(g) \in {"BOOLEAN", "UCHAR", "INT", "UINT", "DOUBLE", "STRING", "BOXED"}

\* signature_iter_to_g_type_array, of the elements' type.
ArrayOf(g) == IF g = INVALID THEN INVALID
              ELSE IF g = <<"STRING">> THEN <<"STRV">>
              ELSE IF Fixed(g) THEN <<"GArray", g>>
              ELSE IF Fundamental(g) = "BOXED" THEN <<"GPtrArray", g>>
              ELSE INVALID

\* signature_iter_to_g_type_dict, of the types of key and value.
MapOf(k, v) == IF INVALID \notin {k, v} /\ HashKey(k) /\ HashValue(v) THEN <<"GHashTable", k, v>>
               ELSE INVALID

\* _dbus_gtype_from_signature; INVALID for a Unix descriptor.
gtype[t \in DBusTypes] ==
  CASE t[1] \in DOMAIN Basic -> <<Basic[t[1]]>>
    [] t[1] = "o"      -> <<"OBJECT_PATH">>
    [] t[1] = "g"      -> <<"SIGNATURE">>
    [] t[1] = "v"      -> <<"VALUE">>
    [] t[1] = "array"  -> ArrayOf(gtype[t[2]])
    [] t[1] = "dict"   -> MapOf(gtype[t[2]], gtype[t[3]])
    [] t[1] = "struct" -> [k \in DOMAIN t |-> IF k = 1 THEN "GValueArray" ELSE gtype[t[k]]]
    [] OTHER -> INVALID
GType(t) == gtype[t]

GTypes == {GType(t) : t \in DBusTypes}

\* The D-Bus types the marshallers of the basic GTypes write.
Written == [BOOLEAN |-> "b", UCHAR |-> "y", INT |-> "i", UINT |-> "u", INT64 |-> "x",
            UINT64 |-> "t", DOUBLE |-> "d", STRING |-> "s", OBJECT_PATH |-> "o",
            SIGNATURE |-> "g", VALUE |-> "v"]

\* _dbus_gtype_to_signature.
signatureOf[g \in GTypes] ==
  CASE g[1] \in {"GArray", "GPtrArray"} -> <<"array", signatureOf[g[2]]>>
    [] g[1] = "GHashTable"  -> <<"dict", signatureOf[g[2]], signatureOf[g[3]]>>
    [] g[1] = "GValueArray" -> [k \in DOMAIN g |-> IF k = 1 THEN "struct" ELSE signatureOf[g[k]]]
    [] g[1] = "STRV"        -> <<"array", <<"s">>>>
    [] OTHER -> <<Written[g[1]]>>
ToSignature(g) == signatureOf[g]

\* _dbus_gtype_can_signal_error: the boxed types with a name of their own cannot.
CanSignalError(g) == g[1] \in {"BOOLEAN", "INT", "UINT", "STRING"}

--------------------------------------------------------------------------------
(* Values.  t is the type on the wire and d the data, a tuple; of is the type   *)
(* inside a variant.  fault is None, or what makes the value a hard one:        *)
(* "unwritable" as a C value that has no place in a message (a string that is   *)
(* not UTF-8, a NULL array), "foreign" for a variant that holds a type without  *)
(* a GType, and "deep" for variants nested beyond                               *)
(* DBUS_GLIB_MAX_VARIANT_RECURSION, which only reading checks.                  *)
CONSTANT None   \* no type, no fault, no error, no answer...
Value(t, d)     == [t |-> t, d |-> d, of |-> None, fault |-> None]
Variant(v)      == [t |-> <<"v">>, d |-> v.d, of |-> ToSignature(GType(v.t)), fault |-> None]
Spoilt(vs, k, f) == [vs EXCEPT ![k].fault = f]

holdsVariant[t \in DBusTypes] == t[1] = "v" \/ \E k \in 2..Len(t) : holdsVariant[t[k]]
HoldsVariant(t) == holdsVariant[t]

\* What becomes of a value of type t that is read as a g: "read", the code of the
\* error that refuses it, or "aborted" for a failed assertion of the library or of
\* libdbus that ends the process.  of[t, g] says so of the members; an array has at
\* least one element.  Members are read in order, up to the first that is not read.
FirstFailure(outcomes) ==
  LET bad == {k \in DOMAIN outcomes : outcomes[k] # "read"}
  IN  IF bad = {} THEN "read" ELSE outcomes[Min(bad)]

IsBasic(t) == t[1] \in DOMAIN Basic \cup {"o", "g", "h"}   \* dbus_type_is_basic

demarshal_basic(t, g) ==
  IF ~IsBasic(t) THEN "aborted"
  ELSE IF t[1] \in DOMAIN Basic /\ Basic[t[1]] = g[1] THEN "read" ELSE "INVALID_ARGS"

\* What is no variant is read as its first element or member, or not at all.
demarshal_variant(t) ==
  CASE t[1] = "v" -> "read"
    [] t[1] \in {"array", "struct"} -> IF GType(t[2]) = INVALID THEN "INVALID_SIGNATURE" ELSE "read"
    [] t[1] = "dict" -> "INVALID_SIGNATURE"
    [] OTHER -> "aborted"

\* demarshal_object_path, demarshal_signature, demarshal_strv.
Expects(matches) == IF matches THEN "read" ELSE "INVALID_ARGS"

demarshal_map(of, t, g) ==
  IF t[1] # "dict" THEN "INVALID_ARGS" ELSE FirstFailure(<<of[t[2], g[2]], of[t[3], g[3]]>>)

\* Any demarshaller, when no member is left.
AtEnd(g) == IF g[1] \in {"VALUE", "GArray"} \/ g[1] \in Range(Basic) THEN "aborted" ELSE "INVALID_ARGS"

demarshal_struct(of, t, g) ==
  LET members == [k \in 1 .. Len(g) - 1 |-> IF k + 1 \in DOMAIN t THEN of[t[k + 1], g[k + 1]]
                                            ELSE AtEnd(g[k + 1])]
      outcome == FirstFailure(members)
  IN  IF t[1] # "struct" THEN "INVALID_ARGS"
      ELSE IF outcome = "read" /\ Len(t) > Len(g) THEN "aborted" ELSE outcome

demarshal_collection_array(t) ==
  IF t[1] = "array" /\ t[2][1] \in DOMAIN Basic \ {"s"} THEN "read" ELSE "aborted"

\* The elements of a dictionary are entries, of which only a variant reads the key.
demarshal_collection_ptrarray(of, t, g) ==
  CASE t[1] = "array" -> of[t[2], g[2]]
    [] t[1] = "dict"  -> CASE g[2] = <<"VALUE">> -> "read"
                           [] g[2][1] = "GArray" -> "aborted"
                           [] OTHER -> "INVALID_ARGS"
    [] OTHER -> "INVALID_ARGS"

\* get_type_demarshaller, _dbus_gvalue_demarshal.
demarshals[t \in DBusTypes, g \in GTypes] ==
  CASE g = INVALID          -> "INVALID_ARGS"
    [] g[1] = "OBJECT_PATH" -> Expects(t[1] = "o")
    [] g[1] = "SIGNATURE"   -> Expects(t[1] = "g")
    [] g[1] = "STRV"        -> Expects(t[1] = "array" /\ t[2][1] = "s")
    [] g[1] = "VALUE"       -> demarshal_variant(t)
    [] g[1] = "GHashTable"  -> demarshal_map(demarshals, t, g)
    [] g[1] = "GValueArray" -> demarshal_struct(demarshals, t, g)
    [] g[1] = "GArray"      -> demarshal_collection_array(t)
    [] g[1] = "GPtrArray"   -> demarshal_collection_ptrarray(demarshals, t, g)
    [] OTHER -> demarshal_basic(t, g)
Demarshals(t, g) == demarshals[t, g] = "read"

\* The same of a value; types that do not match are met before a variant that is
\* nested too deep, or that holds an unknown type (demarshal_static_variant).
Outcome(value, g) ==
  IF ~Demarshals(value.t, g) THEN demarshals[value.t, g]
  ELSE CASE value.fault = "foreign" -> "INVALID_SIGNATURE"
         [] value.fault = "deep"    -> "NO_MEMORY"
         [] OTHER                   -> "read"

\* demarshal_collection_array copies elements of the size of the GType, which is
\* twice that of a 16-bit integer on the wire.
Demarshalled(value) == IF value.t[1] = "array" /\ value.t[2][1] \in {"n", "q"}
                       THEN [value EXCEPT !.d = <<"misread">>] ELSE value

\* The types of which a C value may be one that cannot be marshalled.
MayFailBasic(g)  == g[1] \in {"BOOLEAN", "STRING"}
MayFailText(g)   == g[1] \in {"OBJECT_PATH", "SIGNATURE"}
MayFailMember(of, g) == \E k \in 2..Len(g) : of[g[k]]
mayFail[g \in GTypes] == \/ MayFailBasic(g) \/ MayFailText(g)
                         \/ g[1] \in {"STRV", "GArray", "VALUE"}
                         \/ MayFailMember(mayFail, g)
MarshalMayFail(g) == mayFail[g]

\* _dbus_gvalue_marshal: a C value, of the GType for t, as it goes on the wire.
Marshalled(value, t) == [value EXCEPT !.t = ToSignature(GType(t))]
===============================================================================
