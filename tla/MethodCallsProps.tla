--------------------------- MODULE MethodCallsProps ---------------------------
(* What a caller and the methods of an object may rely on.                      *)
EXTENDS MethodCalls

\* Every variable has the shape the comments of MethodCalls give it.
TypeOK ==
  /\ world \in DOMAIN Worlds
  /\ shadow \subseteq Shadows /\ legacy \in BOOLEAN /\ domains \subseteq DOMAIN ErrorDomains
  /\ DOMAIN property = DOMAIN GProperties
  /\ DOMAIN call = Calls /\ answers \in [Calls -> Nat]
  /\ \A c \in Calls :
       /\ call[c].state \in {"idle", "waiting", "oneway", "done"}
       /\ IF call[c].state = "idle" THEN call[c].message = None
          ELSE DOMAIN call[c].message = {"serial", "iface", "member", "args", "noreply"}
       /\ IF call[c].state = "done" THEN DOMAIN call[c].result \in {{"outs"}, {"error"}}
          ELSE call[c].result = None
  /\ aborted \subseteq {"caller", "service"}
  /\ DOMAIN context \cup DOMAIN given \cup DOMAIN seen \subseteq Calls
  /\ \A k \in DOMAIN requests : requests[k].serial \in Calls
  /\ \A k \in DOMAIN replies : /\ replies[k].serial \in Calls
                               /\ DOMAIN replies[k] = {"serial", "error", "args"}

\* A request names a property of a document under the document's name or its form
\* without capitals, by a name of its own, that without capitals, or the name of the
\* GObject property of a shadow that was registered for it; - stands for _.
Names(asked, p) ==
  \E n \in {asked, wincaps_to_uscore(asked)} \cup {s[3] : s \in {x \in shadow : x[2] = asked}} :
    \E own \in {p.name, wincaps_to_uscore(p.name)} : SameName(n, own)

\* A document lets the property that a Set names be written.
LetsWrite(m) ==
  \E t \in Types : \E i \in ToSet(Worlds[world][t]) : \E p \in ToSet(i.properties) :
    infos[t] # None /\ i.name = Text(m, 1) /\ Names(Text(m, 2), p) /\ "write" \in p.access

\* The message at which an assertion ended the service is a Set of a property that
\* may be written: it was taken and neither answered nor given to a method.
EndedBySet ==
  \E c \in Calls :
    LET m == call[c].message IN
    /\ call[c].state # "idle" /\ answers[c] = 0
    /\ c \notin DOMAIN seen \cup {requests[k].serial : k \in DOMAIN requests}
    /\ m.iface = PropertiesIface /\ m.member = "Set" /\ LetsWrite(m)

\* A method is called with what its generated marshaller takes, type by type, and
\* that marshaller was generated; a call made through a wrapper reaches the method
\* the wrapper is named for, with the caller's arguments in the order of the
\* document (compute_gsignature, generate_glue, arg_iterate, invoke_object_method).
\* No message but a Set that is let through meets an assertion of the demarshallers.
ArgumentsArrive ==
  /\ \A c \in DOMAIN seen :
       /\ seen[c].linked /\ seen[c].wanted = seen[c].gets
       /\ LET w == call[c].wrapper IN
          w # None => /\ seen[c].function = <<w.iface, w.member>>
                      /\ Len(seen[c].values) = Len(w.ins)
                      /\ \A k \in DOMAIN w.ins : seen[c].values[k].d = <<c, w.ins[k].name>>
  /\ "service" \in aborted => EndedBySet

\* What becomes of an error: a code of DBUS_GERROR survives the way, a remote
\* exception and a code of a registered domain keep their names.
SameError(raised, got, iface) ==
  IF raised = None THEN got.name = <<"GLib", "ErrorError">>
  ELSE IF raised.domain = "DBUS_GERROR"
  THEN IF raised.code \in Codes THEN got = GError(raised.code)
       ELSE got.name = raised.name
  ELSE IF raised.domain \in domains /\ raised.code \in ErrorDomains[raised.domain].codes
  THEN LET own == ErrorDomains[raised.domain].iface
       IN  got.name = <<IF own = None THEN iface ELSE own, raised.code>>
  ELSE got.name = <<"UnmappedError", <<raised.domain, raised.code>>>>

\* The types a wrapper cannot send: it writes 16-bit integers as 32-bit ones, and
\* the library asks for the exact signature.
Narrow(w) == \E k \in DOMAIN w.ins : w.ins[k].type[1] \in {"n", "q"}

\* A call that ends at a wrapper either stored in every location the value the
\* method gave for that argument, or failed with the error the method raised, with
\* the error of an argument or a value that could not be converted, or because the
\* method cannot be called that way (Wrapper, SyncReply, AsyncReply, Collected).  A
\* reply ends the caller only where dbus_g_method_return left a value out of it, so
\* that the others moved up.
ResultsArrive ==
  /\ "caller" \in aborted =>
       \E c \in DOMAIN given : /\ call[c].state = "waiting" /\ answers[c] = 1
                               /\ "outs" \in DOMAIN given[c]
                               /\ \E k \in DOMAIN given[c].outs : given[c].outs[k].fault = "unwritable"
  /\ \A c \in Calls :
       LET w == call[c].wrapper
           r == call[c].result
       IN  call[c].state = "done" /\ w # None =>
             IF "outs" \in DOMAIN r
             THEN \A k \in DOMAIN w.outs : r.outs[k].d = <<c, w.outs[k].name>>
             ELSE IF c \notin DOMAIN seen
             THEN \/ Narrow(w) /\ r.error = GError("UNKNOWN_METHOD")
                  \/ /\ \E k \in DOMAIN w.ins : call[c].message.args[k].fault = "deep"
                     /\ r.error = GError("NO_MEMORY")
             ELSE /\ c \in DOMAIN given
                  /\ LET g == given[c] IN
                     IF "error" \in DOMAIN g THEN SameError(g.error, r.error, w.iface)
                     ELSE \E k \in DOMAIN g.outs : g.outs[k].fault # None

\* A property of the object changes only to the value that the variant of a Set
\* holds, which its own type can be read from, and only when the Set names an
\* interface that the object implements, and a property that the document of that
\* interface lets be written (lookup_object_info_by_iface,
\* property_info_from_object_info, check_property_access, set_object_property).
SetNeedsWriteAccess ==
  [][property' # property =>
       LET m == Head(requests) IN
       /\ m.iface = PropertiesIface /\ m.member = "Set"
       /\ \E g \in DOMAIN GProperties :
            /\ GProperties[g].writable
            /\ Demarshals(m.args[3].of, GType(GProperties[g].type))
            /\ property' = [property EXCEPT ![g] = m.args[3].d]
       /\ LetsWrite(m)]_vars

\* The method gave a result of which no reply can be made: a value that cannot be
\* marshalled, or an error whose text is not UTF-8.
Unwritable(c) ==
  /\ c \in DOMAIN given
  /\ LET g == given[c] IN
     IF "error" \in DOMAIN g THEN g.error # None /\ ~g.error.utf8
     ELSE \E k \in DOMAIN g.outs : g.outs[k].fault = "unwritable"

\* Nobody will answer the call: nor has the service.
Unanswered(c) ==
  /\ answers[c] = 0
  /\ \/ "service" \in aborted
     \/ c \notin DOMAIN context \cup {requests[k].serial : k \in DOMAIN requests}

\* Where a call stands for Rpc, which knows neither "twice" nor "forgotten".
Status == [c \in Calls |->
  IF answers[c] > 1 THEN "twice"
  ELSE CASE call[c].state = "idle" -> "idle"
         [] call[c].state = "done" -> "answered"
         [] call[c].state = "oneway" -> IF answers[c] = 1 THEN "answered" ELSE "oneway"
         [] call[c].state = "waiting" ->
              IF "caller" \in aborted \/ (Unanswered(c) /\ ("service" \in aborted \/ Unwritable(c))) THEN "lost"
              ELSE IF Unanswered(c) THEN "forgotten" ELSE "waiting"]

\* Every call is answered at most once, by whichever of the paths it takes, and one
\* that waits is settled under fair dispatching: the service implements Rpc
\* (invoke_object_method, dbus_g_method_return and its relatives).
Abstract == INSTANCE Rpc WITH status <- Status
ImplementsRpc == Abstract!Spec

\* A method that was called without wanting a reply sends none, as the comment in
\* invoke_object_method demands.
NoReplyRespected ==
  \A c \in Calls :
    call[c].state = "oneway" /\ lookup_object_and_method(call[c].message) # None => answers[c] = 0
===============================================================================
