---------------------------- MODULE MCProxyManager -----------------------------
(******************************************************************************)
(* Instances of ProxyManager for TLC.  Each run picks one set of proxies and  *)
(* one budget of outside events; the names of the budgets say what they are   *)
(* about.                                                                     *)
(******************************************************************************)
EXTENDS ProxyManagerProps, TLC

\* The names the proxies are bound to.
TwoForName == [p \in {"p1", "p2"} |-> "n"]
ThreeForName == [p \in {"p1", "p2", "p3"} |-> "n"]
NameAndOwner == "p1" :> "n" @@ "p2" :> "u1"
TwoNames == "p1" :> "n" @@ "p2" :> "m"

\* The interfaces they are constructed with.
SameIface2 == [p \in {"p1", "p2"} |-> "i"]
SameIface3 == [p \in {"p1", "p2", "p3"} |-> "i"]
TwoIfaces == "p1" :> "i" @@ "p2" :> "j"

\* How many owner changes, signals, interface changes, lost replies and lost
\* connections a run allows.
Budgeted(c, s, m, f, l) ==
  "changes" :> c @@ "signals" :> s @@ "moves" :> m @@ "failures" :> f @@ "losses" :> l
NamesBudget == Budgeted(3, 0, 0, 1, 0)
MovesBudget == Budgeted(2, 1, 1, 0, 0)
LiveBudget == Budgeted(2, 0, 0, 0, 1)
RoutingBudget == Budgeted(2, 1, 0, 0, 0)
MoveBudget == Budgeted(0, 0, 1, 0, 0)
================================================================================
