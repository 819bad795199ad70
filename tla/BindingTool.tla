----------------------------- MODULE BindingTool -----------------------------
(* What dbus-binding-tool makes of an introspection document                    *)
(* (dbus-binding-tool-glib.c): the object info and the marshallers of a         *)
(* service, and the wrappers of its callers.  A document is a sequence of       *)
(* interfaces, as the parser orders them:                                       *)
(*   interface  [name, methods, signals, properties]                            *)
(*   method     [name, async, noreply, args]                                    *)
(*   arg        [name, in, type, const, ret]   ret: None or the annotation      *)
(*   property   [name, type, access]           access: SUBSET {"read", "write"} *)
(* The C text around these data is left out, and so is genmarshal, which turns  *)
(* each line it is given into a function.                                       *)
EXTENDS ObjectInfo

Ins(method)  == SelectSeq(method.args, LAMBDA arg : arg.in)
Outs(method) == SelectSeq(method.args, LAMBDA arg : ~arg.in)
Returned(method) == SelectSeq(method.args, LAMBDA arg : arg.ret # None)
ForEach(op(_), s) == [k \in DOMAIN s |-> op(s[k])]
Kind(arg) == Fundamental(GType(arg.type))
Pointer(x) == "POINTER"

--------------------------------------------------------------------------------
(* The server side. *)

\* Mutant: the final GError is forgotten.
compute_gsignature_noError(method) ==
  LET ret   == Returned(method)
      plain == SelectSeq(Outs(method), LAMBDA arg : arg.ret = None)
  IN  IF method.async
      THEN [ret |-> "NONE", params |-> ForEach(Kind, Ins(method)) \o <<"POINTER">>]
      ELSE [ret |-> IF ret = <<>> THEN "BOOLEAN" ELSE Kind(ret[1]),
            params |-> ForEach(Kind, Ins(method)) \o ForEach(Pointer, plain)]

\* compute_gsignature: the C type of the method, without the object.
compute_gsignature(method) ==
  LET ret     == Returned(method)
      plain   == SelectSeq(Outs(method), LAMBDA arg : arg.ret = None)
      signals == ret = <<>> \/ ret[1].ret = "error"
  IN  IF method.async
      THEN [ret |-> "NONE", params |-> ForEach(Kind, Ins(method)) \o <<"POINTER">>]
      ELSE [ret |-> IF ret = <<>> THEN "BOOLEAN" ELSE Kind(ret[1]),
            params |-> ForEach(Kind, Ins(method)) \o ForEach(Pointer, plain)
                         \o (IF signals THEN <<"POINTER">> ELSE <<>>)]

\* Its failure: a type that has no GType.
Computes(method) ==
  LET used == IF method.async THEN Ins(method) ELSE method.args
  IN  \A k \in DOMAIN used : GType(used[k].type) # INVALID

\* The branches of generate_glue that refuse an annotation.
Refuses(method, k) ==
  LET arg == method.args[k]
      annotated == arg.ret # None
      earlier == SubSeq(method.args, 1, k - 1)
  IN  \/ arg.const /\ arg.in
      \/ annotated /\ arg.in
      \/ annotated /\ \E j \in DOMAIN earlier : ~earlier[j].in
      \/ annotated /\ arg.ret \notin {"", "error"}
      \/ arg.ret = "error" /\ ~CanSignalError(GType(arg.type))

\* What generate_glue appends for an argument.
ArgEntry(arg) ==
  IF arg.in THEN <<arg.name, "I", arg.type>>
  ELSE <<arg.name, "O", IF arg.const THEN "C" ELSE "F",
         CASE arg.ret = "" -> "R" [] arg.ret = "error" -> "E" [] OTHER -> "N", arg.type>>

\* What generate_glue appends for a method.
MethodEntry(iface, method) ==
  <<iface.name, method.name, IF method.async THEN "A" ELSE "S">>
    \o FlattenSeq(ForEach(ArgEntry, method.args)) \o <<"">>

\* ... for a property, unless it cannot be read or written ...
PropertyEntry(iface, p) ==
  IF p.access = {} THEN <<>>
  ELSE <<iface.name, p.name, wincaps_to_uscore(p.name),
         IF p.access = {"read", "write"} THEN "readwrite"
         ELSE IF p.access = {"read"} THEN "read" ELSE "write">>

\* ... and for a signal.
SignalEntry(iface, s) == <<iface.name, s.name>>

\* The methods of a document with their interfaces, in the order they are written.
MethodsOf(document) ==
  FlattenSeq([i \in DOMAIN document |->
                [j \in DOMAIN document[i].methods |-> <<document[i], document[i].methods[j]>>]])

\* gather_marshallers: those glib-genmarshal is asked for.
Gathered(document) == {compute_gsignature(m[2]) : m \in ToSet(MethodsOf(document))}

\* generate_glue_toplevel, dbus_binding_tool_output_glib_server: the object info.
ServerGlue(document) ==
  LET ms == MethodsOf(document)
      entry[k \in DOMAIN ms] == MethodEntry(ms[k][1], ms[k][2])
      offset[k \in DOMAIN ms] == IF k = 1 THEN 1 ELSE offset[k - 1] + Len(entry[k - 1])
      all(part(_)) == FlattenSeq([i \in DOMAIN document |-> part(document[i])])
  IN  [version |-> 1,
       methods |-> [k \in DOMAIN ms |-> [function   |-> <<ms[k][1].name, ms[k][2].name>>,
                                         marshaller |-> compute_gsignature(ms[k][2]),
                                         offset     |-> offset[k]]],
       marshallers |-> Gathered(document),
       data    |-> FlattenSeq(entry) \o <<"", "">>,
       signals |-> all(LAMBDA i : FlattenSeq(ForEach(LAMBDA s : SignalEntry(i, s), i.signals))),
       properties |-> all(LAMBDA i : FlattenSeq(ForEach(LAMBDA p : PropertyEntry(i, p), i.properties)))]

\* The tool writes the glue, or fails.
ToolSucceeds(document) ==
  \A k \in DOMAIN MethodsOf(document) :
    LET method == MethodsOf(document)[k][2]
    IN  Computes(method) /\ ~\E j \in DOMAIN method.args : Refuses(method, j)

--------------------------------------------------------------------------------
(* The client side. *)

\* check_supported_parameters, the failure of write_formal_parameters.
Supported(method) == \A k \in DOMAIN method.args : GType(method.args[k].type) # INVALID

\* write_args_for_direction: the values sent, or the locations for those returned.
ArgsForDirection(method, in) == SelectSeq(method.args, LAMBDA arg : arg.in = in)

\* generate_client_glue, of a method.  The order of arguments in C is that of the
\* document; that of the call is the inputs, then the outputs.
Wrapper(iface, method) ==
  [iface |-> iface.name, member |-> method.name, noreply |-> method.noreply,
   ins |-> ArgsForDirection(method, TRUE), outs |-> ArgsForDirection(method, FALSE)]

\* write_async_method_client, which does not ask for the NoReply annotation.
AsyncWrapper(iface, method) == [Wrapper(iface, method) EXCEPT !.noreply = FALSE]

\* dbus_binding_tool_output_glib_client, with --ignore-unsupported.
ClientGlue(document) ==
  LET supported == {m \in ToSet(MethodsOf(document)) : Supported(m[2])}
  IN  UNION {{Wrapper(m[1], m[2]), AsyncWrapper(m[1], m[2])} : m \in supported}
===============================================================================
