------------------------------ MODULE MethodCalls ------------------------------
(* Method calls from the generated wrapper of a caller to the method of an      *)
(* exported GObject and back (dbus-gobject.c, dbus-gproxy.c), with the object   *)
(* info and the wrappers that dbus-binding-tool made of the documents of the    *)
(* object's types.  One object, one caller, a connection that keeps the order   *)
(* of messages.  Either process ends when an assertion of the library fails: no *)
(* call is made after that, and what nobody answers is left to the timeout of   *)
(* the caller or to the bus.                                                    *)
EXTENDS BindingTool

CONSTANTS
  Calls,        \* the calls made, which are also the serials of their messages
  Interfaces,   \* the object's GInterfaces, as g_type_interfaces lists them
  Classes,      \* its class, then the classes it inherits from
  Worlds,       \* the documents its types may have: [world -> [type -> document]]
  GProperties,  \* the object's GObject properties: [name -> [type, readable, writable,
                \* marshals: what it holds at first can be marshalled]]
  Shadows,      \* the <<type, D-Bus name, GObject name>> that may be registered
  ErrorDomains, \* those that may be registered: [domain -> [iface, codes]]
  Errors,       \* the GErrors methods raise: [domain, code, name, utf8]
  RawMessages,  \* messages sent without a wrapper: [iface, member, args, noreply]
  IntrospectableIface, PropertiesIface   \* the names of the two standard interfaces

VARIABLES
  world,        \* which documents the types have
  infos,        \* [type -> the object info installed for it, or None]
  wrappers,     \* [type -> the wrappers generated from its document]
  shadow,       \* the shadow properties registered so far
  legacy,       \* any property may be read
  domains,      \* the error domains registered so far
  property,     \* [GObject property -> its value]
  call,         \* [call -> its state, wrapper, message and result at the caller]
  requests,     \* messages on their way to the object
  replies,      \* messages on their way to the caller
  context,      \* the DBusGMethodInvocations handed out, by call
  seen,         \* history: what the method was called with, by call
  given,        \* history: what the method gave back, by call
  answers,      \* history: [call -> the number of replies sent]
  aborted       \* the processes that a failed assertion has ended

glue    == <<world, infos, wrappers>>
setup   == <<glue, shadow, legacy, domains>>
traffic == <<property, call, requests, replies, context, seen, given, answers, aborted>>
vars    == <<setup, traffic>>

Types == ToSet(Interfaces \o Classes)

\* The types are listed; so are the interfaces of a document and their properties,
\* which can be read, written, both or neither (property_info_new).
ASSUME DocumentsAssumption ==
  /\ Interfaces \in Seq(ToSet(Interfaces)) /\ Classes \in Seq(ToSet(Classes))
  /\ \A w \in DOMAIN Worlds : \A t \in Types :
       /\ Worlds[w][t] \in Seq(ToSet(Worlds[w][t]))
       /\ \A i \in ToSet(Worlds[w][t]) :
            /\ i.properties \in Seq(ToSet(i.properties))
            /\ \A p \in ToSet(i.properties) : p.access \subseteq {"read", "write"}

\* The glue is made when the types are built, if there is a document.
Build(d) == IF d # <<>> /\ ToolSucceeds(d) THEN ServerGlue(d) ELSE None

\* Of no call yet.
Nothing == [c \in {} |-> None]
With(f, c, x) == [d \in DOMAIN f \cup {c} |-> IF d = c THEN x ELSE f[d]]
Without(f, c) == [d \in DOMAIN f \ {c} |-> f[d]]
Unmade == [state |-> "idle", wrapper |-> None, message |-> None, result |-> None]
Quiet  == \A c \in Calls : call[c].state = "idle"

Init ==
  /\ world \in DOMAIN Worlds
  /\ infos = [t \in Types |-> Build(Worlds[world][t])]   \* dbus_g_object_type_install_info
  /\ wrappers = [t \in Types |-> ClientGlue(Worlds[world][t])]
  /\ InfoList(Interfaces, Classes, infos) # <<>>
  /\ shadow = {} /\ legacy = TRUE /\ domains = {}
  /\ property = [p \in DOMAIN GProperties |-> <<"initial">>]
  /\ call = [c \in Calls |-> Unmade]
  /\ requests = <<>> /\ replies = <<>>
  /\ context = Nothing /\ seen = Nothing /\ given = Nothing
  /\ answers = [c \in Calls |-> 0]
  /\ aborted = {}

--------------------------------------------------------------------------------
\* What the caller and the methods put into arguments: a token of call and name.
Tokens(c, args) == [k \in DOMAIN args |-> Value(args[k].type, <<c, args[k].name>>)]

--------------------------------------------------------------------------------
(* Errors. *)

Codes == {"FAILED", "NO_MEMORY", "SERVICE_UNKNOWN", "NAME_HAS_NO_OWNER", "NO_REPLY", "IO_ERROR",
  "BAD_ADDRESS", "NOT_SUPPORTED", "LIMITS_EXCEEDED", "ACCESS_DENIED", "AUTH_FAILED", "NO_SERVER",
  "TIMEOUT", "NO_NETWORK", "ADDRESS_IN_USE", "DISCONNECTED", "INVALID_ARGS", "FILE_NOT_FOUND",
  "FILE_EXISTS", "UNKNOWN_METHOD", "TIMED_OUT", "MATCH_RULE_NOT_FOUND", "MATCH_RULE_INVALID",
  "SPAWN_EXEC_FAILED", "SPAWN_FORK_FAILED", "SPAWN_CHILD_EXITED", "SPAWN_CHILD_SIGNALED",
  "SPAWN_FAILED", "UNIX_PROCESS_ID_UNKNOWN", "INVALID_SIGNATURE", "INVALID_FILE_CONTENT",
  "SELINUX_SECURITY_CONTEXT_UNKNOWN"}

GError(code) == [domain |-> "DBUS_GERROR", code |-> code, name |-> None, utf8 |-> TRUE]

\* gerror_domaincode_to_dbus_error_name; a name is <<prefix, rest>>.
DomainErrorName(iface, gerror) ==
  LET known  == gerror.domain \in domains
      d      == ErrorDomains[gerror.domain]
      prefix == IF known /\ d.iface # None THEN d.iface ELSE iface
  IN  IF prefix = None \/ ~known \/ gerror.code \notin d.codes
      THEN <<"UnmappedError", <<gerror.domain, gerror.code>>>>
      ELSE <<prefix, gerror.code>>

\* The switch of gerror_to_dbus_error_message.
StandardErrorName(gerror) ==
  IF gerror.code = "REMOTE_EXCEPTION" THEN gerror.name
  ELSE <<"std", IF gerror.code \in Codes THEN gerror.code ELSE "FAILED">>

\* Mutant: the reply is made without the serial of the request.
Return_unset(m, args) == <<[serial |-> None, error |-> None, args |-> args]>>

\* reply_or_die, error_or_die: no error is made of a text that is not UTF-8.
Return(m, args) == <<[serial |-> m.serial, error |-> None, args |-> args]>>
Error(m, name)  == <<[serial |-> m.serial, error |-> name, args |-> <<>>]>>

\* Mutant: a method that fails without an error is not answered.
GErrorReply_null(m, gerror) ==
  IF gerror = None \/ ~gerror.utf8 THEN <<>>
  ELSE Error(m, IF gerror.domain = "DBUS_GERROR" THEN StandardErrorName(gerror)
                ELSE DomainErrorName(m.iface, gerror))

\* gerror_to_dbus_error_message.
GErrorReply(m, gerror) ==
  IF gerror = None THEN Error(m, <<"GLib", "ErrorError">>)
  ELSE IF ~gerror.utf8 THEN <<>>
  ELSE Error(m, IF gerror.domain = "DBUS_GERROR" THEN StandardErrorName(gerror)
                ELSE DomainErrorName(m.iface, gerror))

\* dbus_error_to_gerror_code, dbus_set_g_error.
dbus_set_g_error(name) ==
  IF name[1] = "std" /\ name[2] \in Codes THEN GError(name[2])
  ELSE [GError("REMOTE_EXCEPTION") EXCEPT !.name = name]

--------------------------------------------------------------------------------
(* Properties. *)

\* g_object_class_find_property, which takes - for _.
Find(s) == {p \in DOMAIN GProperties : SameName(p, s)}

\* lookup_property_name: a shadow is found under the name it was registered for.
lookup_property_name(iface, asked) ==
  LET t == TypeByIface(Interfaces, Classes, infos, iface, FALSE)
      ours == {s \in shadow : s[1] = t /\ s[2] = asked}
  IN  IF ours # {} THEN (CHOOSE s \in ours : TRUE)[3] ELSE wincaps_to_uscore(asked)

\* Mutant: the access of the property is not asked for.
check_property_access_any(iface, asked, s, isSet) ==
  LET t    == TypeByIface(Interfaces, Classes, infos, iface, TRUE)
      of(n) == PropertyAccess(infos[t], iface, n)
  IN  \/ ~isSet /\ legacy
      \/ t # None /\ (of(asked) # None \/ of(s) # None)

\* check_property_access.
check_property_access(iface, asked, s, isSet) ==
  LET t    == TypeByIface(Interfaces, Classes, infos, iface, TRUE)
      of(n) == PropertyAccess(infos[t], iface, n)
      access == IF of(asked) # None THEN of(asked) ELSE of(s)
  IN  \/ ~isSet /\ legacy
      \/ t # None /\ access # None /\ access # IF isSet THEN "read" ELSE "write"

\* get_object_property; GObject gives the default of a property it cannot read.
Got(p) == Variant(Value(GProperties[p].type,
                        IF GProperties[p].readable THEN property[p] ELSE <<"default">>))

\* There is no signature for the type; the value, a first one, cannot be marshalled.
Typed(p)    == GType(GProperties[p].type) # INVALID
Marshals(p) == ~GProperties[p].readable \/ GProperties[p].marshals \/ property[p] # <<"initial">>

\* get_all_object_properties: all those of the info, of whatever interface, but for
\* those without a signature, as <<name, GObject property>>.
AllProperties(t, iface) ==
  LET found(p) == LET named == Find(lookup_property_name(iface, p.name))
                  IN  IF named = {} THEN {} ELSE {<<p.name, CHOOSE g \in named : TRUE>>}
  IN  {x \in UNION {found(p) : p \in ToSet(Properties(infos[t]))} : Typed(x[2])}

\* set_object_property; GObject refuses to write what is not writable.
Set(p, v) == IF GProperties[p].writable THEN [property EXCEPT ![p] = v.d] ELSE property

Text(m, k)     == m.args[k].d[1]
IsString(m, k) == k \in DOMAIN m.args /\ m.args[k].t = <<"s">>
Handled(reply) == [reply |-> reply, property |-> property]
AccessDenied(m) == Handled(Error(m, <<"std", "ACCESS_DENIED">>))
InvalidArgs(m)  == Handled(Error(m, <<"std", "INVALID_ARGS">>))
Failed(m)       == Handled(Error(m, <<"std", "FAILED">>))
\* The reply of libdbus to what no handler takes.
NotHandled(m)   == Handled(Error(m, <<"std", "UNKNOWN_METHOD">>))
\* The process has ended.
Aborted == Handled(None)

\* The value inside of a variant, as the demarshaller of g finds it.
Inside(variant, g) == Outcome([t |-> variant.of, fault |-> variant.fault], g)

\* object_registration_message, of Get and Set.
GetOrSet(m) ==
  LET iface == Text(m, 1)
      asked == Text(m, 2)
      s     == lookup_property_name(iface, asked)
      isSet == m.member = "Set"
      p     == CHOOSE g \in Find(s) : TRUE
      outcome == Inside(m.args[3], GType(GProperties[p].type))
  IN  IF ~IsString(m, 1) \/ ~IsString(m, 2) THEN InvalidArgs(m)
      ELSE IF ~check_property_access(iface, asked, s, isSet) THEN AccessDenied(m)
      ELSE IF Find(s) = {} THEN InvalidArgs(m)
      ELSE IF ~isSet THEN IF Typed(p) /\ Marshals(p) THEN Handled(Return(m, <<Got(p)>>)) ELSE Failed(m)
      ELSE IF 3 \notin DOMAIN m.args THEN InvalidArgs(m)
      ELSE IF m.args[3].t # <<"v">> THEN InvalidArgs(m)
      ELSE IF outcome = "aborted" THEN Aborted
      ELSE IF outcome # "read" THEN InvalidArgs(m)
      ELSE [reply |-> Return(m, <<>>), property |-> Set(p, m.args[3])]

\* ... and of GetAll.
GetAll(m) ==
  LET t == TypeByIface(Interfaces, Classes, infos, Text(m, 1), TRUE)
  IN  IF ~IsString(m, 1) THEN InvalidArgs(m)
      ELSE IF t = None THEN NotHandled(m)
      ELSE LET all == AllProperties(t, Text(m, 1))
               got == {<<x[1], Got(x[2])>> : x \in all}
           IN  IF \E x \in all : ~Marshals(x[2]) THEN Failed(m)
               ELSE Handled(Return(m, <<Value(<<"dict", <<"s">>, <<"v">>>>, <<"all", got>>)>>))

--------------------------------------------------------------------------------
(* Introspection. *)

\* write_interface, of one interface of an info.
InterfaceElement(info, iface) ==
  LET ms == {m \in ToSet(info.methods) : MethodInterface(info, m) = iface}
      arg(a) == [name |-> a.name, type |-> a.type, in |-> a.in]
      access(p) ==
        LET g == CHOOSE q \in Find(lookup_property_name(iface, p.name)) : TRUE
        IN  (IF p.access = "readwrite" /\ GProperties[g].writable THEN {"write"} ELSE {})
              \cup (IF GProperties[g].readable THEN {"read"} ELSE {})
      ps == {<<p.name, access(p)>> : p \in {q \in ToSet(Properties(info)) : q.iface = iface}}
  IN  [name |-> iface,
       methods |-> {<<MethodName(info, m), ForEach(arg, MethodArgs(info, m))>> : m \in ms},
       signals |-> {s.name : s \in {x \in ToSet(Signals(info)) : x.iface = iface}},
       properties |-> {p \in ps : p[2] # {}}]

\* introspect_interfaces: of each info, the interfaces that lookup_values collects.
Introspected ==
  UNION {LET info == infos[t]
             names == {MethodInterface(info, m) : m \in ToSet(info.methods)}
                        \cup {s.iface : s \in ToSet(Signals(info))}
                        \cup {p.iface : p \in ToSet(Properties(info))}
         IN  {InterfaceElement(info, n) : n \in names} :
         t \in ToSet(InfoList(Interfaces, Classes, infos))}

\* handle_introspect.
Introspect(m) == Handled(Return(m, <<Value(<<"s">>, <<"introspected", Introspected>>)>>))

--------------------------------------------------------------------------------
(* Methods. *)

\* lookup_object_and_method: the methods that fit, the one found first.
lookup_object_and_method(m) ==
  LET list == InfoList(Interfaces, Classes, infos)
      signature == [k \in DOMAIN m.args |-> m.args[k].t]
      fits(info, x) == /\ m.iface \in {None, MethodInterface(info, x)}
                       /\ MethodName(info, x) = m.member
                       /\ DirSignature(info, x, TRUE) = signature
      found == FlattenSeq([k \in DOMAIN list |->
                 LET info == infos[list[k]]
                     ms   == SelectSeq(info.methods, LAMBDA x : fits(info, x))
                 IN  [j \in DOMAIN ms |-> [type |-> list[k], method |-> ms[j]]]])
  IN  IF found = <<>> THEN None ELSE found[1]

\* _dbus_gvalue_demarshal_message.
demarshal_message(at, m) ==
  LET types == DirSignature(infos[at.type], at.method, TRUE)
  IN  FirstFailure([k \in DOMAIN m.args |-> Outcome(m.args[k], GType(types[k]))])

OutArgs(at)   == SelectSeq(MethodArgs(infos[at.type], at.method), LAMBDA arg : ~arg.in)
IsReturn(arg) == arg.retval # "N"

\* The loop that looks for a return value; there is at most one.
ReturnArgs(at)    == SelectSeq(OutArgs(at), IsReturn)
PlainOuts(at)     == SelectSeq(OutArgs(at), LAMBDA arg : ~IsReturn(arg))
SignalsError(at)  == ReturnArgs(at) = <<>> \/ ReturnArgs(at)[1].retval = "E"

\* What invoke_object_method gives the marshaller after the object.
Passed(at, m) ==
  LET types == DirSignature(infos[at.type], at.method, TRUE)
      ins   == [k \in DOMAIN types |-> Fundamental(GType(types[k]))]
  IN  [function |-> at.method.function,
       values   |-> ForEach(Demarshalled, m.args),
       linked   |-> at.method.marshaller \in infos[at.type].marshallers,
       wanted   |-> at.method.marshaller,
       gets     |-> IF IsAsync(infos[at.type], at.method)
                    THEN [ret |-> "NONE", params |-> ins \o <<"POINTER">>]
                    ELSE [ret |-> IF ReturnArgs(at) = <<>> THEN "BOOLEAN"
                                  ELSE Fundamental(GType(ReturnArgs(at)[1].type)),
                          params |-> ins \o ForEach(Pointer, PlainOuts(at))
                                       \o (IF SignalsError(at) THEN <<"POINTER">> ELSE <<>>)]]

\* What a method may give back: an error, or its output arguments, of which one
\* may be a value that is hard to marshal or to read.
Failures(at) == IF SignalsError(at) THEN {[error |-> e] : e \in Errors \cup {None}} ELSE {}
Results(c, at) ==
  LET vs == Tokens(c, OutArgs(at))
      fragile == {k \in DOMAIN vs : MarshalMayFail(GType(vs[k].t))}
      nested  == {k \in DOMAIN vs : HoldsVariant(vs[k].t)}
  IN  {[outs |-> x] : x \in {vs} \cup {Spoilt(vs, k, "unwritable") : k \in fragile}
                              \cup {Spoilt(vs, k, "deep") : k \in nested}}

\* The output arguments with what the method gave for them.
Paired(at, result) == LET outs == OutArgs(at) IN [k \in DOMAIN outs |-> <<outs[k], result.outs[k]>>]
ReturnOf(m, pairs) == Return(m, [k \in DOMAIN pairs |-> Marshalled(pairs[k][2], pairs[k][1].type)])

\* Mutant: the return value is appended after the output arguments.
ReplyOrder_last(pairs) ==
  LET isReturn(p) == IsReturn(p[1])
  IN  SelectSeq(pairs, LAMBDA p : ~isReturn(p)) \o SelectSeq(pairs, isReturn)

\* What invoke_object_method appends: the return value, then the others in order.
ReplyOrder(pairs) ==
  LET isReturn(p) == IsReturn(p[1])
  IN  SelectSeq(pairs, isReturn) \o SelectSeq(pairs, LAMBDA p : ~isReturn(p))

\* The reply of invoke_object_method.  What cannot be marshalled makes the reply
\* unusable, and there is none.
SyncReply(at, m, result) ==
  IF m.noreply THEN <<>>
  ELSE IF "error" \in DOMAIN result THEN GErrorReply(m, result.error)
  ELSE IF \E k \in DOMAIN result.outs : result.outs[k].fault = "unwritable" THEN <<>>
  ELSE ReturnOf(m, ReplyOrder(Paired(at, result)))

\* The reply of dbus_g_method_return, which leaves out what cannot be marshalled.
AsyncReply(at, m, result) ==
  ReturnOf(m, SelectSeq(Paired(at, result), LAMBDA p : p[2].fault # "unwritable"))

--------------------------------------------------------------------------------
(* Steps of the application that sets up the service. *)

RegisterShadow(s) ==   \* dbus_g_object_type_register_shadow_property
  /\ Quiet /\ s \notin shadow
  /\ shadow' = shadow \cup {s}
  /\ UNCHANGED <<glue, legacy, domains, traffic>>

DisableLegacy ==       \* dbus_glib_global_set_disable_legacy_property_access
  /\ Quiet /\ legacy
  /\ legacy' = FALSE
  /\ UNCHANGED <<glue, shadow, domains, traffic>>

RegisterDomain(d) ==   \* dbus_g_error_domain_register
  /\ Quiet /\ d \notin domains
  /\ domains' = domains \cup {d}
  /\ UNCHANGED <<glue, shadow, legacy, traffic>>

--------------------------------------------------------------------------------
(* Steps of the caller. *)

Made(c, wrapper, m) ==
  /\ aborted = {} /\ call[c].state = "idle"
  /\ call' = [call EXCEPT ![c] = [state |-> IF m.noreply THEN "oneway" ELSE "waiting",
                                  wrapper |-> wrapper, message |-> m, result |-> None]]
  /\ requests' = Append(requests, m)
  /\ UNCHANGED <<setup, property, replies, context, seen, given, answers, aborted>>

\* dbus_g_proxy_call, dbus_g_proxy_begin_call and dbus_g_proxy_call_no_reply, from a
\* wrapper: dbus_g_proxy_marshal_args_to_message.
Call(c) ==
  \E t \in {x \in Types : infos[x] # None} : \E w \in wrappers[t] :
    LET plain == Tokens(c, w.ins)
        nested == {k \in DOMAIN w.ins : HoldsVariant(w.ins[k].type)}
        sent(vs) == [k \in DOMAIN vs |-> Marshalled(vs[k], w.ins[k].type)]
    IN  \E vs \in {plain} \cup {Spoilt(plain, k, "deep") : k \in nested} :
          Made(c, w, [serial |-> c, iface |-> w.iface, member |-> w.member,
                      args |-> sent(vs), noreply |-> w.noreply])

\* A message that is put together by hand.
SendRaw(c) ==
  \E r \in RawMessages :
    Made(c, None, [serial |-> c, iface |-> r.iface, member |-> r.member,
                   args |-> r.args, noreply |-> r.noreply])

\* dbus_g_proxy_end_call_internal, the collection of the values: what the wrapper
\* is given, or None when the process ends.
Collected(outs, args) ==
  LET outcome(k) ==
        LET g == GType(outs[k].type) IN
        IF k > Len(args) THEN "INVALID_ARGS"
        ELSE IF g = <<"VALUE">> /\ args[k].t = <<"v">> /\ Outcome(args[k], g) # "read" THEN "INVALID_ARGS"
        ELSE Outcome(args[k], g)
      first == FirstFailure([k \in DOMAIN outs |-> outcome(k)])
      error(code) == [error |-> GError(code)]
  IN  IF first = "aborted" THEN None
      ELSE IF first # "read" THEN error(first)
      ELSE IF Len(args) > Len(outs) THEN error("INVALID_ARGS") ELSE [outs |-> args]

\* What becomes of a reply at the caller.
Result(r) ==
  LET w == call[r.serial].wrapper
  IN  IF r.error # None THEN [error |-> dbus_set_g_error(r.error)]
      ELSE IF w = None THEN [outs |-> r.args] ELSE Collected(w.outs, r.args)

\* A reply arrives; libdbus drops one that no call waits for.
Receive ==
  /\ "caller" \notin aborted
  /\ replies # <<>>
  /\ replies' = Tail(replies)
  /\ LET r == Head(replies)
         c == r.serial
     IN  IF call[c].state # "waiting" THEN UNCHANGED <<call, aborted>>
         ELSE IF Result(r) = None THEN aborted' = aborted \cup {"caller"} /\ UNCHANGED call
         ELSE /\ call' = [call EXCEPT ![c].state = "done", ![c].result = Result(r)]
              /\ UNCHANGED aborted
  /\ UNCHANGED <<setup, property, requests, context, seen, given, answers>>

--------------------------------------------------------------------------------
(* Steps of the service. *)

Sends(c, reply) ==
  /\ replies' = replies \o reply
  /\ answers' = [answers EXCEPT ![c] = @ + Len(reply)]

\* An assertion fails, and the contexts are gone with the process.
Ends ==
  /\ aborted' = aborted \cup {"service"}
  /\ context' = Nothing
  /\ UNCHANGED <<property, replies, seen, given, answers>>

\* invoke_object_method, when the arguments cannot be read: an error in any case.
RefusesArguments(m, error) ==
  /\ Sends(m.serial, GErrorReply(m, error))
  /\ UNCHANGED <<property, context, seen, given, aborted>>

\* ... of a synchronous method: it has answered when it returns.
InvokesSync(at, m) ==
  LET c == m.serial IN
  /\ ~IsAsync(infos[at.type], at.method)
  /\ seen' = With(seen, c, Passed(at, m))
  /\ \E result \in Failures(at) \cup Results(c, at) :
       /\ given' = With(given, c, result)
       /\ Sends(c, SyncReply(at, m, result))
  /\ UNCHANGED <<property, context, aborted>>

\* ... and of an asynchronous one, which is handed a context.
InvokesAsync(at, m) ==
  LET c == m.serial IN
  /\ IsAsync(infos[at.type], at.method)
  /\ seen' = With(seen, c, Passed(at, m))
  /\ context' = With(context, c, [at |-> at, send_reply |-> ~m.noreply])
  /\ UNCHANGED <<property, replies, given, answers, aborted>>

\* invoke_object_method.
Invokes(at, m) ==
  LET outcome == demarshal_message(at, m)
  IN  CASE outcome = "aborted" -> Ends
        [] outcome = "read"    -> InvokesSync(at, m) \/ InvokesAsync(at, m)
        [] OTHER               -> RefusesArguments(m, GError(outcome))

\* object_registration_message, for all that is not a method of the object.
Standard(m) ==
  LET is(iface, member) == m.iface = iface /\ m.member = member
      h == IF is(IntrospectableIface, "Introspect") THEN Introspect(m)
           ELSE IF is(PropertiesIface, "Get") \/ is(PropertiesIface, "Set") THEN GetOrSet(m)
           ELSE IF is(PropertiesIface, "GetAll") THEN GetAll(m)
           ELSE NotHandled(m)
  IN  IF h.reply = None THEN Ends
      ELSE /\ Sends(m.serial, h.reply)
           /\ property' = h.property
           /\ UNCHANGED <<context, seen, given, aborted>>

Dispatch ==
  /\ "service" \notin aborted
  /\ requests # <<>>
  /\ requests' = Tail(requests)
  /\ LET m  == Head(requests)
         at == lookup_object_and_method(m)
         introspects == m.iface = IntrospectableIface /\ m.member = "Introspect"
     IN  IF introspects \/ at = None THEN Standard(m) ELSE Invokes(at, m)
  /\ UNCHANGED <<setup, call>>

\* The context is used up by an answer.
Answers(c, result, reply) ==
  /\ c \in DOMAIN context
  /\ context' = Without(context, c)
  /\ given' = With(given, c, result)
  /\ Sends(c, reply)
  /\ UNCHANGED <<setup, property, call, requests, seen, aborted>>

MethodReturn(c) ==      \* dbus_g_method_return
  /\ c \in DOMAIN context
  /\ \E result \in Results(c, context[c].at) :
       Answers(c, result, IF context[c].send_reply
                          THEN AsyncReply(context[c].at, call[c].message, result) ELSE <<>>)

MethodReturnError(c) == \* dbus_g_method_return_error
  /\ c \in DOMAIN context
  /\ \E e \in Errors :
       Answers(c, [error |-> e], IF context[c].send_reply
                                 THEN GErrorReply(call[c].message, e) ELSE <<>>)

MethodSendReply(c) ==   \* dbus_g_method_get_reply, dbus_g_method_send_reply
  /\ c \in DOMAIN context
  /\ LET outs == OutArgs(context[c].at)
         vs   == Tokens(c, outs)
     IN  Answers(c, [outs |-> vs], Return(call[c].message, vs))

--------------------------------------------------------------------------------
Done ==   \* nothing is left to do
  /\ DOMAIN context = {}
  /\ aborted # {} \/ \A c \in Calls : call[c].state # "idle"
  /\ requests = <<>> \/ "service" \in aborted
  /\ replies = <<>> \/ "caller" \in aborted
  /\ UNCHANGED vars

Next ==
  \/ \E s \in Shadows : RegisterShadow(s)
  \/ DisableLegacy
  \/ \E d \in DOMAIN ErrorDomains : RegisterDomain(d)
  \/ \E c \in Calls : Call(c) \/ SendRaw(c)
  \/ Dispatch
  \/ Receive
  \/ \E c \in Calls : MethodReturn(c) \/ MethodReturnError(c) \/ MethodSendReply(c)
  \/ Done

Spec == Init /\ [][Next]_vars

\* The main loop of a process that has not ended dispatches every message that waits
\* (Dispatch and Receive), and a method that was handed a context answers in the end.
Advances(queue) == queue # <<>> /\ queue' = Tail(queue)
Used(c)         == c \in DOMAIN context /\ context' = Without(context, c)

Fairness ==
  /\ WF_requests(Advances(requests))
  /\ WF_replies(Advances(replies))
  /\ \A c \in Calls : WF_context(Used(c))

FairSpec == Spec /\ Fairness
===============================================================================
