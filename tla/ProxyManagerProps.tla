--------------------------- MODULE ProxyManagerProps ---------------------------
(******************************************************************************)
(* What dbus-gproxy.c promises its users, stated over ProxyManager.           *)
(******************************************************************************)
EXTENDS ProxyManager, FiniteSetsExt

Tracking(p) == p \in Listed /\ ~ForOwner(p)
TrackingFor(n) == {p \in Listed : ProxyName[p] = n}

\* The owner of n at the point of the bus's history the client has reached: what
\* the next announcement still to be dispatched takes the name from.
View(n) ==
  LET later == {k \in DOMAIN toClient : toClient[k].type = "NameOwnerChanged"
                                          /\ toClient[k].name = n}
  IN IF later = {} THEN owner[n] ELSE toClient[Min(later)].old

--------------------------------------------------------------------------------
\* A proxy that is associated follows the owner of its name in bus order, and
\* one in the unassociated list is there because the name has no owner: replies
\* to GetNameOwner, NameOwnerChanged and cancellation (replace_name_owner,
\* got_name_owner_cb) never leave the manager with another owner.
TrackingFollowsBus ==
  connected =>
    \A p \in Proxies : Tracking(p) =>
      /\ associated[p] => TrackedOwners(ProxyName[p]) = {View(ProxyName[p])}
      /\ unassociated[p] > 0 => View(ProxyName[p]) = NoOwner

\* A name has one info while it has associated proxies, under one owner, and its
\* refcount is their number, through take-overs, cancellations and interface
\* changes; otherwise an info outlives its proxies or is freed under them
\* (monitor_name_owner, unmonitor_name_owner, unassociate_proxies).
Followers(n) == {p \in TrackingFor(n) : associated[p]}
InfosCountProxies ==
  \A n \in Names :
    IF Followers(n) = {} THEN TrackedOwners(n) = {}
    ELSE \E u \in Uniques :
           TrackedOwners(n) = {u} /\ ownerNames[u][n] = <<Cardinality(Followers(n))>>

\* A proxy waits in at most one place: for a reply, in the unassociated list
\* (once), or on a tracked owner.  In particular no link of the list outlives
\* the registration of its proxy, which unregister gives no second chance to
\* remove.
OnePlace ==
  \A p \in Proxies :
    /\ nameCall[p] => Tracking(p) /\ ~associated[p] /\ unassociated[p] = 0
    /\ unassociated[p] > 0 => Tracking(p) /\ ~associated[p] /\ unassociated[p] = 1

\* Once its requests have been processed, the bus holds one signal rule for
\* each list and one NameOwnerChanged rule for each name some proxy is bound
\* to, and no other rule of ours (register, unregister, owner_match_rules).
Needed(r) ==
  IF r.kind = "signal" THEN ListOf(r.name, r.iface) # {} ELSE TrackingFor(r.name) # {}
InFlight(type, r) ==
  Cardinality({k \in DOMAIN toBus : toBus[k].type = type /\ toBus[k].rule = r})
RulesFollowProxies ==
  connected =>
    \A r \in Rules :
      rules[r] + InFlight("AddMatch", r)
        = InFlight("RemoveMatch", r) + (IF Needed(r) /\ r.name # NoName THEN 1 ELSE 0)

\* manager->refcount counts the proxies that are bound to the manager and the
\* filter while it has dropped the lock: the manager is neither freed under one
\* of them nor leaked (manager_get, manager_ref, manager_unref).
Holders == {p \in Proxies : status[p] \in {"registered", "moving"}}
RefcountExact ==
  refcount = Cardinality(Holders) + (IF filter.pc = "idle" THEN 0 ELSE 1)

\* The signal about to be routed goes to exactly those associated proxies whose
\* name its sender owned when the bus sent it, although the manager only knows
\* the owners by earlier messages; and to every proxy bound to the sender.
RoutingExact ==
  Dispatching /\ connected /\ Head(toClient).type = "signal" =>
    LET m == Head(toClient) IN
      \A p \in Listed : iface[p] = m.iface =>
        /\ associated[p] => (p \in Recipients(m) <=> ProxyName[p] \in m.owned)
        /\ ForOwner(p) => (p \in Recipients(m) <=> ProxyName[p] = m.sender)

\* Outside Disconnected, the manager destroys only proxies bound to a unique
\* name that has left the bus (the contract of dbus_g_proxy_new_for_name).
OnlyOrphansDestroyed ==
  filter.pc = "destroy" => \A p \in filter.todo : ProxyName[p] \in Uniques \ alive

\* The assertions and lookups of unregister and unmonitor_name_owner hold, and
\* unregister finds the proxy in its list: it would return with the lock held.
UnregisterSucceeds ==
  fault \notin {"name_call while associated", "name has no info",
               "no owner_match_rules entry", "proxy not listed"}

\* manager_unref: "Since we destroyed all proxies, none can be tracking name
\* owners"; its assertions that the tables are empty hold.
FreedManagerEmpty == fault # "tables not empty"

\* dbus_g_proxy_manager_register: the first list of a manager finds no
\* owner_names and no owner_match_rules left (its assertions).
NoStaleTables == fault # "stale owner_names"

--------------------------------------------------------------------------------
\* Every GetNameOwner call is over at some time: answered, cancelled or failed.
NameCallResolves == \A p \in Proxies : nameCall[p] ~> (~nameCall[p] \/ ~Running)

\* When Disconnected is received, every proxy registered by then is destroyed,
\* or leaves the manager's lists in another way.
DisconnectDestroysAll ==
  \A p \in Proxies :
    (p \in Listed /\ \E k \in DOMAIN toClient : toClient[k].type = "Disconnected")
      ~> (p \notin Listed \/ ~Running)

\* A proxy bound to a unique name is destroyed after that name leaves the bus,
\* given that the name was still there when the bus added the proxy's rule.
Watched(p) == p \in Listed /\ ProxyName[p] \in alive /\ rules[OwnerRule(ProxyName[p])] > 0
Orphaned(p) == p \in Listed /\ ProxyName[p] \in Uniques \ alive
OrphanDestroyed ==
  \A p \in Proxies : ProxyName[p] \in Uniques =>
    [](Watched(p) => [](Orphaned(p) => <>(p \notin Listed \/ ~connected \/ ~Running)))

\* When owners stop changing, every proxy for a well-known name that stays
\* registered ends up associated with the name's owner, if there is one: "the
\* signal connections over this proxy will go to the name owner".
Settled(p) ==
  LET n == ProxyName[p] IN
    IF owner[n] = NoOwner THEN ~associated[p]
    ELSE associated[p] /\ TrackedOwners(n) = {owner[n]}
TrackingSettles ==
  <>[](Running /\ connected => \A p \in Proxies : Tracking(p) => Settled(p))
================================================================================
