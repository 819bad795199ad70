----------------------------- MODULE ProxyManager ------------------------------
(******************************************************************************)
(* DBusGProxyManager and the life of the DBusGProxy objects registered with   *)
(* it (dbus/dbus-gproxy.c): match-rule bookkeeping, tracking of the owners of *)
(* well-known names, routing of signals, destruction of proxies when the      *)
(* owner of a unique name or the connection goes away.                        *)
(*                                                                            *)
(* Everything here runs in one thread (dbus-gthread.c: the GObject mapping is *)
(* never thread-safe).  An action runs to the next point where the code calls *)
(* the application or returns to the main loop: the loops of the filter that  *)
(* run handlers are split, because a handler may create, destroy and          *)
(* re-target proxies before the next turn.                                    *)
(*                                                                            *)
(* No proxy of the application is bound to org.freedesktop.DBus: to such a    *)
(* proxy the filter also routes NameOwnerChanged, after it has followed it.   *)
(******************************************************************************)
EXTENDS Bus

CONSTANTS
  ProxyName,  \* ProxyName[p]: priv->name, fixed when the proxy is constructed
  FirstIface, \* FirstIface[p]: the path and interface it is constructed with
  Reuse       \* may a well-known name be watched again after its last proxy left?

ASSUME ProxyAssumption ==
  /\ ProxyName \in [Proxies -> BusNames \union {NoName}]
  /\ FirstIface \in [Proxies -> Ifaces]
  /\ Reuse \in BOOLEAN

VARIABLES
  status,       \* life cycle of each proxy
  iface,        \* priv->path and priv->interface
  associated,   \* priv->associated
  nameCall,     \* priv->name_call # NULL: GetNameOwner is in flight
  refcount,     \* manager->refcount; 0: there is no manager
  ownerNames,   \* manager->owner_names: the refcounts of the infos for a name
                \* under an owner, in list order (at most one if all is well)
  namesTable,   \* manager->owner_names # NULL
  matchRefs,    \* manager->owner_match_rules; 0: no entry
  rulesTable,   \* manager->owner_match_rules # NULL
  unassociated, \* manager->unassociated_proxies: links to a proxy in the list
  filter,       \* progress of dbus_g_proxy_manager_filter
  fault         \* the failed assertion or NULL dereference that ended the process

managerVars == <<refcount, ownerNames, namesTable, matchRefs, rulesTable, unassociated>>
proxyVars == <<status, iface, associated, nameCall>>
vars == <<busVars, managerVars, proxyVars, filter, fault>>

Statuses == {"unborn",     \* not constructed
             "resolved",   \* new_for_name_owner got its unique name
             "registered",
             "moving",     \* between the two halves of set_interface
             "disposed"}
Faults == {"none", "stale owner_names", "no owner_match_rules entry",
           "name_call while associated", "name has no info", "tables not empty",
           "proxy not listed"}
Idle == [pc |-> "idle", todo |-> {}]
Running == fault = "none"

\* The thread is not inside dbus_g_proxy_set_interface, which calls nobody.
Free == Running /\ \A p \in Proxies : status[p] # "moving"

TypeOK ==
  /\ BusTypeOK
  /\ status \in [Proxies -> Statuses]
  /\ iface \in [Proxies -> Ifaces]
  /\ associated \in [Proxies -> BOOLEAN]
  /\ nameCall \in [Proxies -> BOOLEAN]
  /\ refcount \in Nat
  /\ ownerNames \in [Uniques -> [Names -> Seq(Nat \ {0})]]
  /\ namesTable \in BOOLEAN
  /\ matchRefs \in [BusNames -> Nat]
  /\ rulesTable \in BOOLEAN
  /\ unassociated \in [Proxies -> Nat]
  /\ filter \in [pc : {"idle", "emit", "destroy", "disconnect"}, todo : SUBSET Proxies]
  /\ fault \in Faults

Init ==
  /\ BusInit
  /\ status = [p \in Proxies |-> "unborn"]
  /\ iface = FirstIface
  /\ associated = [p \in Proxies |-> FALSE]
  /\ nameCall = [p \in Proxies |-> FALSE]
  /\ refcount = 0
  /\ ownerNames = [u \in Uniques |-> [n \in Names |-> <<>>]]
  /\ namesTable = FALSE
  /\ matchRefs = [n \in BusNames |-> 0]
  /\ rulesTable = FALSE
  /\ unassociated = [p \in Proxies |-> 0]
  /\ filter = Idle
  /\ fault = "none"

--------------------------------------------------------------------------------
\* Mutant: set_property does not look at the first character of the name.
ForOwner_always(p) == TRUE

\* priv->for_owner: a proxy for a unique name or for a peer tracks no owner.
ForOwner(p) == ProxyName[p] \notin Names

Listed == {p \in Proxies : status[p] = "registered"}

\* The proxies in the list whose tristring is (n, i); manager->proxy_lists is
\* NULL when every list is empty.
ListOf(n, i) == {p \in Listed : ProxyName[p] = n /\ iface[p] = i}

\* Mutant: a list that still has one proxy counts as empty.
LastOfList_early(p) == TRUE

\* Without p its list is empty.
LastOfList(p) == ListOf(ProxyName[p], iface[p]) = {p}

\* Mutant: list_all leaves out the proxies that track no owner.
ListAll_named == {p \in Listed : ~ForOwner(p)}

\* dbus_g_proxy_manager_list_all
ListAll == Listed

\* Mutant: unassociate_proxies forgets to collect the proxies to destroy.
BoundTo_named(n) == {p \in Listed : ProxyName[p] = n /\ ~ForOwner(p)}

\* The proxies unassociate_proxies finds for a name that lost its owner.
BoundTo(n) == {p \in Listed : ProxyName[p] = n}

\* Mutant: the call in flight is not cancelled (freedesktop.org bug 18573).
Calling_none(S) == {}

\* Those of them whose GetNameOwner is in flight and is cancelled.
Calling(S) == {p \in S : nameCall[p]}

\* dbus_g_proxy_manager_lookup_name_owner takes any one of these: it stops at
\* the first hit of a walk over a hash table.
TrackedOwners(n) == {u \in Uniques : ownerNames[u][n] # <<>>}

\* Mutant: an info that exists is not referenced once more.
Monitored_once(table, u, n, k) ==
  [table EXCEPT ![u][n] = IF @ = <<>> THEN <<k>> ELSE @]

\* info->refcount of the first info for n in u's list grows by k; an info is
\* made if there is none.
Monitored(table, u, n, k) ==
  [table EXCEPT ![u][n] = IF @ = <<>> THEN <<k>> ELSE <<Head(@) + k>> \o Tail(@)]

\* Mutant: an info without references stays in the list.
Unmonitored_kept(table, u, n) ==
  [table EXCEPT ![u][n] = <<Head(@) - 1>> \o Tail(@)]

\* One reference less; an info without references leaves the list.
Unmonitored(table, u, n) ==
  [table EXCEPT ![u][n] = IF Head(@) = 1 THEN Tail(@) ELSE <<Head(@) - 1>> \o Tail(@)]

\* Mutant: the new owner gets the info and the old owner keeps it.
Replaced_copied(table, n, old, new) ==
  IF table[old][n] = <<>> \/ new = NoOwner THEN table
  ELSE [table EXCEPT ![new][n] = Append(@, Head(table[old][n]))]

\* replace_name_owner takes the info out of the old owner's list and, if there
\* is a new owner, appends it to the new owner's.
Replaced(table, n, old, new) ==
  IF table[old][n] = <<>> THEN table
  ELSE LET without == [table EXCEPT ![old][n] = Tail(@)] IN
         IF new = NoOwner THEN without
         ELSE [without EXCEPT ![new][n] = Append(@, Head(table[old][n]))]

\* Mutant: the names are compared the wrong way round.
LinksFor_others(n) ==
  UNION {{p} \X (1 .. unassociated[p]) : p \in {q \in Proxies : ProxyName[q] # n}}

\* The links of unassociated_proxies that lead to proxies for n.
LinksFor(n) ==
  UNION {{p} \X (1 .. unassociated[p]) : p \in {q \in Proxies : ProxyName[q] = n}}

TablesEmpty ==
  /\ \A n \in BusNames : matchRefs[n] = 0
  /\ \A n \in Names : TrackedOwners(n) = {}
  /\ \A p \in Proxies : unassociated[p] = 0

\* The process aborts; the step that dies has no other effect.
Dies(f) ==
  /\ fault' = f
  /\ UNCHANGED <<busVars, managerVars, proxyVars>>

--------------------------------------------------------------------------------
(* Registration and unregistration of a proxy *)

\* g_assert (manager->owner_names == NULL) when the first list is made.
RegisterFault ==
  IF Listed = {} /\ (namesTable \/ rulesTable) THEN "stale owner_names" ELSE "none"

\* dbus_g_proxy_manager_register: match rules for a new list, then either one
\* more reference to a tracked owner or a GetNameOwner call.  A call on a dead
\* connection has no pending call: it is forgotten at once.
Register(p, i) ==
  LET n == ProxyName[p]
      newList == n # NoName /\ ListOf(n, i) = {}
      newName == newList /\ matchRefs[n] = 0
      found == ~ForOwner(p) /\ TrackedOwners(n) # {}
      asks == ~ForOwner(p) /\ ~found /\ connected
      requests ==
        (IF newList THEN <<[type |-> "AddMatch", rule |-> SignalRule(n, i)]>> ELSE <<>>)
        \o (IF newName THEN <<[type |-> "AddMatch", rule |-> OwnerRule(n)]>> ELSE <<>>)
        \o (IF asks THEN <<[type |-> "GetNameOwner", call |-> p, name |-> n]>> ELSE <<>>)
  IN /\ status' = [status EXCEPT ![p] = "registered"]
     /\ iface' = [iface EXCEPT ![p] = i]
     /\ namesTable' = TRUE
     /\ rulesTable' = (rulesTable \/ Listed = {})
     /\ matchRefs' = IF newList /\ rulesTable' THEN [matchRefs EXCEPT ![n] = @ + 1]
                     ELSE matchRefs
     /\ toBus' = Sent(toBus, requests)
     /\ associated' = [associated EXCEPT ![p] = found]
     /\ nameCall' = [nameCall EXCEPT ![p] = asks]
     /\ \/ ~found /\ UNCHANGED ownerNames
        \/ found /\ \E u \in TrackedOwners(n) : ownerNames' = Monitored(ownerNames, u, n, 1)
     /\ UNCHANGED <<toClient, owner, alive, rules, connected, unassociated>>

\* The assertions of unregister and unmonitor_name_owner, the refcount it
\* decrements without looking whether the hash table returned one, and the
\* early return that keeps the lock when the proxy is in no list.
UnregisterFault(p) ==
  IF status[p] # "registered" THEN "proxy not listed"
  ELSE IF ~ForOwner(p) /\ associated[p] /\ nameCall[p]
    THEN "name_call while associated"
  ELSE IF ~ForOwner(p) /\ associated[p] /\ TrackedOwners(ProxyName[p]) = {}
    THEN "name has no info"
  ELSE IF /\ ProxyName[p] # NoName
          /\ LastOfList(p)
          /\ matchRefs[ProxyName[p]] = 0
    THEN "no owner_match_rules entry"
  ELSE "none"

\* What unregister does to the tracking state of a proxy for a well-known name:
\* give the info back, or cancel the call, or leave the list of unassociated
\* proxies (one link of it).
StopsTracking(p) ==
  LET n == ProxyName[p] IN
  \/ /\ associated[p]
     /\ \E u \in TrackedOwners(n) : ownerNames' = Unmonitored(ownerNames, u, n)
     /\ UNCHANGED <<nameCall, unassociated>>
  \/ /\ ~associated[p] /\ nameCall[p]
     /\ nameCall' = [nameCall EXCEPT ![p] = FALSE]
     /\ UNCHANGED <<ownerNames, unassociated>>
  \/ /\ ~associated[p] /\ ~nameCall[p]
     /\ unassociated' = [unassociated EXCEPT ![p] = IF @ > 0 THEN @ - 1 ELSE 0]
     /\ UNCHANGED <<ownerNames, nameCall>>

\* dbus_g_proxy_manager_unregister; a rule for a peer proxy is removed although
\* none was added.
Unregister(p, newStatus) ==
  LET n == ProxyName[p]
      lastOfName == LastOfList(p) /\ n # NoName /\ matchRefs[n] = 1
      cancelled == IF ~ForOwner(p) /\ ~associated[p] /\ nameCall[p] THEN {p} ELSE {}
      requests ==
        (IF LastOfList(p) THEN <<[type |-> "RemoveMatch", rule |-> SignalRule(n, iface[p])]>>
                          ELSE <<>>)
        \o (IF lastOfName THEN <<[type |-> "RemoveMatch", rule |-> OwnerRule(n)]>> ELSE <<>>)
  IN /\ status' = [status EXCEPT ![p] = newStatus]
     /\ \/ ForOwner(p) /\ UNCHANGED <<ownerNames, nameCall, unassociated>>
        \/ ~ForOwner(p) /\ StopsTracking(p)
     /\ matchRefs' = IF LastOfList(p) /\ n # NoName THEN [matchRefs EXCEPT ![n] = @ - 1]
                     ELSE matchRefs
     /\ rulesTable' = (rulesTable /\ \E m \in BusNames : matchRefs'[m] > 0)
     /\ toBus' = Sent(Forget(toBus, cancelled), requests)
     /\ toClient' = Forget(toClient, cancelled)
     /\ UNCHANGED <<owner, alive, rules, connected, iface, associated>>

\* Mutant: the proxy gives its reference back twice.
Unref_twice ==
  /\ refcount' = refcount - 2
  /\ namesTable' = (namesTable /\ refcount' > 0)
  /\ fault' = "none"

\* dbus_g_proxy_manager_unref, after whatever else the step did to the tables:
\* the last reference frees the manager, which asserts that they are empty.
Unref ==
  /\ refcount' = refcount - 1
  /\ namesTable' = (namesTable /\ refcount' > 0)
  /\ fault' = IF refcount' = 0 /\ ~TablesEmpty' THEN "tables not empty" ELSE "none"

--------------------------------------------------------------------------------
(* What the application does, from its own code or from a handler of a signal *)

\* Reuse = FALSE keeps the application from watching a well-known name again
\* after the last proxy for it was unregistered.
MayWatch(p) ==
  \/ Reuse
  \/ ForOwner(p)
  \/ \E q \in Listed \ {p} : ProxyName[q] = ProxyName[p]
  \/ \A q \in Proxies : ProxyName[q] = ProxyName[p] => status[q] = "unborn"

\* dbus_g_proxy_new_for_name, _new_for_peer, _new_from_proxy, and the last step
\* of _new_for_name_owner: manager_get, then the constructor registers.
New(p) ==
  /\ Free
  /\ status[p] \in {"unborn", "resolved"}
  /\ MayWatch(p)
  /\ \/ RegisterFault # "none" /\ Dies(RegisterFault)
     \/ /\ RegisterFault = "none"
        /\ Register(p, FirstIface[p])
        /\ refcount' = refcount + 1
        /\ UNCHANGED <<budget, fault>>
  /\ UNCHANGED filter

\* dbus_g_proxy_new_for_name_owner blocks until the bus has processed all it
\* was sent, and learns who owns some name at that moment.
ResolveOwner(p) ==
  /\ Free
  /\ status[p] = "unborn"
  /\ connected /\ toBus = <<>>
  /\ \E n \in Names : owner[n] = ProxyName[p]
  /\ status' = [status EXCEPT ![p] = "resolved"]
  /\ UNCHANGED <<busVars, managerVars, iface, associated, nameCall, filter, fault>>

\* dbus_g_proxy_dispose of a proxy that is still registered: unregister, unref.
Unregisters(p) ==
  \/ UnregisterFault(p) # "none" /\ Dies(UnregisterFault(p))
  \/ /\ UnregisterFault(p) = "none"
     /\ Unregister(p, "disposed") /\ Unref /\ UNCHANGED budget

Dispose(p) ==
  /\ Free
  /\ status[p] = "registered"
  /\ Unregisters(p)
  /\ UNCHANGED filter

\* dbus_g_proxy_set_interface unregisters the proxy, changes its interface and
\* registers it, and gives up no reference; only the bus acts in between.
SetInterfaceBegins(p) ==
  /\ Free
  /\ status[p] = "registered"
  /\ MayWatch(p)
  /\ budget["moves"] > 0
  /\ \/ UnregisterFault(p) # "none" /\ Dies(UnregisterFault(p))
     \/ /\ UnregisterFault(p) = "none"
        /\ Unregister(p, "moving")
        /\ Spend("moves")
        /\ UNCHANGED <<refcount, namesTable, fault>>
  /\ UNCHANGED filter

SetInterfaceEnds(p, i) ==
  /\ Running
  /\ status[p] = "moving"
  /\ \/ RegisterFault # "none" /\ Dies(RegisterFault)
     \/ /\ RegisterFault = "none"
        /\ Register(p, i)
        /\ UNCHANGED <<budget, refcount, fault>>
  /\ UNCHANGED filter

--------------------------------------------------------------------------------
(* What the main loop dispatches: the filter and the GetNameOwner callback *)

Dispatching == Free /\ filter = Idle /\ toClient # <<>>

\* A message with no manager to filter it, or that nothing here waits for.
IgnoreMessage ==
  /\ Dispatching
  /\ refcount = 0 \/ Head(toClient) = Ignored
  /\ toClient' = Tail(toClient)
  /\ UNCHANGED <<toBus, owner, alive, rules, connected, budget,
                 managerVars, proxyVars, filter, fault>>

\* Mutant: the error path returns before name_call is cleared.
GotNameOwner_early ==
  LET m == Head(toClient)
      p == m.call
      none == m.owner = NoOwner
  IN /\ Dispatching /\ refcount > 0
     /\ m.type = "reply"
     /\ unassociated' = [unassociated EXCEPT ![p] = IF none THEN @ + 1 ELSE @]
     /\ ownerNames' = IF none THEN ownerNames
                      ELSE Monitored(ownerNames, m.owner, ProxyName[p], 1)
     /\ associated' = [associated EXCEPT ![p] = ~none]
     /\ nameCall' = [nameCall EXCEPT ![p] = none]
     /\ toClient' = Tail(toClient)
     /\ UNCHANGED <<toBus, owner, alive, rules, connected, budget, status, iface,
                    refcount, namesTable, matchRefs, rulesTable, filter, fault>>

\* got_name_owner_cb with a reply from the bus.
GotNameOwner ==
  LET m == Head(toClient)
      p == m.call
  IN /\ Dispatching /\ refcount > 0
     /\ m.type = "reply"
     /\ IF m.owner = NoOwner
          THEN /\ unassociated' = [unassociated EXCEPT ![p] = @ + 1]
               /\ UNCHANGED <<ownerNames, associated>>
          ELSE /\ ownerNames' = Monitored(ownerNames, m.owner, ProxyName[p], 1)
               /\ associated' = [associated EXCEPT ![p] = TRUE]
               /\ UNCHANGED unassociated
     /\ nameCall' = [nameCall EXCEPT ![p] = FALSE]
     /\ toClient' = Tail(toClient)
     /\ UNCHANGED <<toBus, owner, alive, rules, connected, budget, status, iface,
                    refcount, namesTable, matchRefs, rulesTable, filter, fault>>

\* got_name_owner_cb with any other error, which is only logged: the reply did
\* not come in time (failures), or the connection was lost.
NameCallFails(p) ==
  /\ Free
  /\ filter = Idle
  /\ nameCall[p]
  /\ \A k \in DOMAIN toClient : toClient[k].type = "reply" => toClient[k].call # p
  /\ \/ ~connected /\ UNCHANGED budget
     \/ connected /\ Spend("failures")
  /\ nameCall' = [nameCall EXCEPT ![p] = FALSE]
  /\ toBus' = Forget(toBus, {p})
  /\ UNCHANGED <<toClient, owner, alive, rules, connected, status, iface, associated,
                 managerVars, filter, fault>>

\* replace_name_owner, NameOwnerChanged (n, "", new): every link to a proxy for
\* n leaves the unassociated list and adds a reference to the new owner's info.
NameAppears ==
  LET m == Head(toClient)
      links == LinksFor(m.name)
      hits == {link[1] : link \in links}
  IN /\ Dispatching /\ refcount > 0
     /\ m.type = "NameOwnerChanged" /\ m.old = NoOwner
     /\ ownerNames' = IF links = {} THEN ownerNames
                      ELSE Monitored(ownerNames, m.new, m.name, Cardinality(links))
     /\ associated' = [p \in Proxies |-> associated[p] \/ p \in hits]
     /\ unassociated' = [p \in Proxies |-> IF p \in hits THEN 0 ELSE unassociated[p]]
     /\ toClient' = Tail(toClient)
     /\ UNCHANGED <<toBus, owner, alive, rules, connected, budget, status, iface, nameCall,
                    refcount, namesTable, matchRefs, rulesTable, filter, fault>>

\* replace_name_owner, NameOwnerChanged (n, old, new): the info moves to the new
\* owner; without one, proxies that track n become unassociated and proxies
\* bound to n itself are destroyed one by one with the lock released.
NameMovesOrGoes ==
  LET m == Head(toClient)
      gone == IF m.new = NoOwner THEN BoundTo(m.name) ELSE {}
      left == {p \in gone : ~ForOwner(p)}
      doomed == gone \ left
  IN /\ Dispatching /\ refcount > 0
     /\ m.type = "NameOwnerChanged" /\ m.old # NoOwner
     /\ ownerNames' = IF m.name \in Names THEN Replaced(ownerNames, m.name, m.old, m.new)
                      ELSE ownerNames
     /\ nameCall' = [p \in Proxies |-> nameCall[p] /\ p \notin Calling(left)]
     /\ associated' = [p \in Proxies |-> associated[p] /\ p \notin left]
     /\ unassociated' = [p \in Proxies |-> unassociated[p] + (IF p \in left THEN 1 ELSE 0)]
     /\ toBus' = Forget(toBus, Calling(left))
     /\ toClient' = Forget(Tail(toClient), Calling(left))
     /\ filter' = IF doomed = {} THEN Idle ELSE [pc |-> "destroy", todo |-> doomed]
     /\ refcount' = refcount + (IF doomed = {} THEN 0 ELSE 1)
     /\ UNCHANGED <<owner, alive, rules, connected, budget, status, iface,
                    namesTable, matchRefs, rulesTable, fault>>

\* Mutant: every tracked name matches, whoever owns it.
Recipients_anyOwner(m) ==
  ListOf(m.sender, m.iface)
    \union UNION {ListOf(n, m.iface) : n \in {k \in Names : TrackedOwners(k) # {}}}

\* The proxies a signal is for: those bound to its sender, and those bound to a
\* name that owner_names lists under its sender.
Recipients(m) ==
  ListOf(m.sender, m.iface)
    \union UNION {ListOf(n, m.iface) : n \in {k \in Names : m.sender \in TrackedOwners(k)}}

RoutesSignal ==
  LET m == Head(toClient) IN
  /\ Dispatching /\ refcount > 0
  /\ m.type = "signal"
  /\ filter' = IF Recipients(m) = {} THEN Idle
               ELSE [pc |-> "emit", todo |-> Recipients(m)]
  /\ refcount' = refcount + (IF Recipients(m) = {} THEN 0 ELSE 1)
  /\ toClient' = Tail(toClient)
  /\ UNCHANGED <<toBus, owner, alive, rules, connected, budget, proxyVars, ownerNames,
                 namesTable, matchRefs, rulesTable, unassociated, fault>>

\* The filter on Disconnected: reference every listed proxy, then destroy them.
HandlesDisconnected ==
  /\ Dispatching /\ refcount > 0
  /\ Head(toClient).type = "Disconnected"
  /\ \A p \in Proxies : ~nameCall[p]  \* libdbus completes all calls first
  /\ filter' = IF ListAll = {} THEN Idle ELSE [pc |-> "disconnect", todo |-> ListAll]
  /\ refcount' = refcount + (IF ListAll = {} THEN 0 ELSE 1)
  /\ toClient' = Tail(toClient)
  /\ UNCHANGED <<toBus, owner, alive, rules, connected, budget, proxyVars, ownerNames,
                 namesTable, matchRefs, rulesTable, unassociated, fault>>

--------------------------------------------------------------------------------
(* One turn of a loop of the filter, and its end *)

\* emit_remote_signal refuses a proxy that an earlier handler destroyed.
EmitsTo(p) ==
  /\ Free
  /\ filter.pc = "emit" /\ p \in filter.todo
  /\ filter' = [filter EXCEPT !.todo = @ \ {p}]
  /\ UNCHANGED <<busVars, managerVars, proxyVars, fault>>

\* dbus_g_proxy_destroy, which does nothing to a proxy already disposed.
Destroys(p) ==
  /\ Free
  /\ filter.pc \in {"destroy", "disconnect"} /\ p \in filter.todo
  /\ \/ /\ status[p] # "disposed"
        /\ Unregisters(p)
     \/ /\ status[p] = "disposed"
        /\ UNCHANGED <<busVars, managerVars, proxyVars, fault>>
  /\ filter' = [filter EXCEPT !.todo = @ \ {p}]

\* The filter gives back its own reference, perhaps the last one.
FilterReturns ==
  /\ Free
  /\ filter.pc # "idle" /\ filter.todo = {}
  /\ filter' = Idle
  /\ UNCHANGED <<busVars, proxyVars, ownerNames, matchRefs, rulesTable, unassociated>>
  /\ Unref

--------------------------------------------------------------------------------
Dispatch ==
  \/ IgnoreMessage \/ GotNameOwner \/ NameAppears \/ NameMovesOrGoes
  \/ RoutesSignal \/ HandlesDisconnected
  \/ \E p \in Proxies : EmitsTo(p) \/ Destroys(p)
  \/ FilterReturns

Application ==
  \E p \in Proxies :
    \/ New(p) \/ ResolveOwner(p) \/ Dispose(p) \/ SetInterfaceBegins(p)
    \/ \E i \in Ifaces : SetInterfaceEnds(p, i)

BusStep == Running /\ BusHandlesRequest /\ UNCHANGED <<managerVars, proxyVars, filter, fault>>
OutsideStep == Running /\ BusEvent /\ UNCHANGED <<managerVars, proxyVars, filter, fault>>
SetInterfaceReturns == \E p \in Proxies, i \in Ifaces : SetInterfaceEnds(p, i)
CallFails == \E p \in Proxies : NameCallFails(p)

Next == Dispatch \/ CallFails \/ Application \/ BusStep \/ OutsideStep

\* The main loop keeps dispatching, libdbus completes the calls of a dead
\* connection, the bus keeps serving requests, and set_interface returns.
\* Nothing obliges the application, the owners of names or the network to do
\* anything.
Fairness ==
  /\ WF_vars(Dispatch)
  /\ WF_vars(~connected /\ CallFails)
  /\ WF_vars(BusStep)
  /\ WF_vars(SetInterfaceReturns)

Spec == Init /\ [][Next]_vars
FairSpec == Spec /\ Fairness
================================================================================
