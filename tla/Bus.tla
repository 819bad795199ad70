---------------------------------- MODULE Bus ----------------------------------
(******************************************************************************)
(* The message bus and the connection to it, as the proxy code sees them.     *)
(* None of this is under src/: it is libdbus and the bus daemon, modelled     *)
(* from the calls dbus-gproxy.c makes (dbus_bus_add_match,                    *)
(* dbus_bus_remove_match, the GetNameOwner call) and from the messages its    *)
(* filter handles (NameOwnerChanged, other signals, Disconnected).            *)
(*                                                                            *)
(* Both directions of the connection are FIFO, so a request is processed      *)
(* after every earlier request, and a reply reaches the client after every    *)
(* signal the bus sent before it.  The properties of the proxies depend on    *)
(* that order.                                                                *)
(******************************************************************************)
EXTENDS Naturals, Sequences, FiniteSets

CONSTANTS
  Names,      \* well-known bus names
  Uniques,    \* unique names (":1.5"): the connections that can own a name
  NoName,     \* the name of a proxy for a peer: NULL
  NoOwner,    \* the empty owner of NameOwnerChanged and NameHasNoOwner
  Ifaces,     \* a (path, interface) pair: what a proxy listens to below a name
  Proxies,    \* the proxy objects; a name call is identified by its proxy
  Budget      \* how often each unforced event may happen: bounds the model

BusNames == Names \union Uniques
Owners == Uniques \union {NoOwner}

\* The match rules the client asks for: g_proxy_get_signal_match_rule and
\* get_owner_match_rule.
SignalRule(n, i) == [kind |-> "signal", name |-> n, iface |-> i]
OwnerRule(n) == [kind |-> "owner", name |-> n, iface |-> NoName]
Rules == [kind : {"signal"}, name : BusNames \union {NoName}, iface : Ifaces]
           \union [kind : {"owner"}, name : BusNames, iface : {NoName}]

\* A message nobody waits for any more: the call was cancelled or timed out.
Ignored == [type |-> "ignored"]
Requests == [type : {"AddMatch", "RemoveMatch"}, rule : Rules]
              \union [type : {"GetNameOwner"}, call : Proxies, name : Names]
              \union {Ignored}
Messages == [type : {"reply"}, call : Proxies, owner : Owners]
              \union {m \in [type : {"NameOwnerChanged"}, name : BusNames,
                             old : Owners, new : Owners] : m.old # m.new}
              \union [type : {"signal"}, sender : Uniques, iface : Ifaces, owned : SUBSET Names]
              \union {[type |-> "Disconnected"], Ignored}

Events == {"changes", "signals", "moves", "failures", "losses"}

ASSUME BusAssumption ==
  /\ NoName \notin BusNames
  /\ NoOwner \notin Uniques
  /\ Names \intersect Uniques = {}
  /\ IsFiniteSet(Proxies)
  /\ IsFiniteSet(Ifaces)
  /\ Budget \in [Events -> Nat]

VARIABLES
  toBus,      \* requests sent and not yet processed by the bus
  toClient,   \* messages received and not yet dispatched by the main loop
  owner,      \* owner[n]: the connection that owns well-known name n now
  alive,      \* the unique names still on the bus
  rules,      \* rules[r]: how many times the client added rule r to the bus
  connected,  \* FALSE once the connection is lost
  budget      \* what is left of Budget

busVars == <<toBus, toClient, owner, alive, rules, connected, budget>>

BusTypeOK ==
  /\ toBus \in Seq(Requests)
  /\ toClient \in Seq(Messages)
  /\ owner \in [Names -> Owners]
  /\ alive \in SUBSET Uniques
  /\ rules \in [Rules -> Nat]
  /\ connected \in BOOLEAN
  /\ budget \in [Events -> Nat]

BusInit ==
  /\ toBus = <<>>
  /\ toClient = <<>>
  /\ owner \in [Names -> Owners]
  /\ alive = Uniques
  /\ rules = [r \in Rules |-> 0]
  /\ connected = TRUE
  /\ budget = Budget

Spend(event) == budget[event] > 0 /\ budget' = [budget EXCEPT ![event] = @ - 1]

\* What the client's sends do: on a dead connection libdbus drops them.
Sent(queue, requests) == IF connected THEN queue \o requests ELSE queue

\* A cancelled call's request is still processed and its reply still arrives,
\* but no pending call is left to receive it.
Forget(queue, calls) ==
  [k \in DOMAIN queue |->
     IF queue[k].type \in {"GetNameOwner", "reply"} /\ queue[k].call \in calls
     THEN Ignored
     ELSE queue[k]]

--------------------------------------------------------------------------------
\* The bus processes the client's oldest request.  Removing a rule that was
\* never added is an error the client did not ask to hear of.
BusHandlesRequest ==
  /\ toBus # <<>>
  /\ LET req == Head(toBus) IN
       \/ /\ req.type = "AddMatch"
          /\ rules' = [rules EXCEPT ![req.rule] = @ + 1]
          /\ UNCHANGED toClient
       \/ /\ req.type = "RemoveMatch"
          /\ rules' = [rules EXCEPT ![req.rule] = IF @ > 0 THEN @ - 1 ELSE 0]
          /\ UNCHANGED toClient
       \/ /\ req.type = "GetNameOwner"
          /\ toClient' = Append(toClient, [type |-> "reply", call |-> req.call,
                                           owner |-> owner[req.name]])
          /\ UNCHANGED rules
       \/ /\ req.type = "ignored"
          /\ UNCHANGED <<toClient, rules>>
  /\ toBus' = Tail(toBus)
  /\ UNCHANGED <<owner, alive, connected, budget>>

\* NameOwnerChanged is sent to a client that has a rule for that name.
Announced(queue, n, old, new) ==
  IF connected /\ rules[OwnerRule(n)] > 0
  THEN Append(queue, [type |-> "NameOwnerChanged", name |-> n, old |-> old, new |-> new])
  ELSE queue

\* A name gets an owner, is taken over, or is released.
OwnerChanges(n, new) ==
  /\ new # owner[n]
  /\ new \in alive \union {NoOwner}
  /\ Spend("changes")
  /\ owner' = [owner EXCEPT ![n] = new]
  /\ toClient' = Announced(toClient, n, owner[n], new)
  /\ UNCHANGED <<toBus, alive, rules, connected>>

\* A connection leaves the bus, which has released its names first.  Unique
\* names are never given out twice.
UniqueVanishes(u) ==
  /\ u \in alive
  /\ \A n \in Names : owner[n] # u
  /\ Spend("changes")
  /\ alive' = alive \ {u}
  /\ toClient' = Announced(toClient, u, u, NoOwner)
  /\ UNCHANGED <<toBus, owner, rules, connected>>

\* A connection emits a signal; the bus routes it here if a rule matches.  The
\* message records which names its sender owned when the bus routed it.
OwnerEmits(u, i) ==
  /\ u \in alive
  /\ connected
  /\ \E n \in {u} \union {m \in Names : owner[m] = u} : rules[SignalRule(n, i)] > 0
  /\ Spend("signals")
  /\ toClient' = Append(toClient, [type |-> "signal", sender |-> u, iface |-> i,
                                   owned |-> {n \in Names : owner[n] = u}])
  /\ UNCHANGED <<toBus, owner, alive, rules, connected>>

\* The connection is lost: what was not sent is dropped, what was received can
\* still be dispatched, and Disconnected comes last.
ConnectionLost ==
  /\ connected
  /\ Spend("losses")
  /\ connected' = FALSE
  /\ toBus' = <<>>
  /\ toClient' = Append(toClient, [type |-> "Disconnected"])
  /\ UNCHANGED <<owner, alive, rules>>

BusEvent ==
  \/ \E n \in Names, new \in Owners : OwnerChanges(n, new)
  \/ \E u \in Uniques : UniqueVanishes(u)
  \/ \E u \in Uniques, i \in Ifaces : OwnerEmits(u, i)
  \/ ConnectionLost
================================================================================
