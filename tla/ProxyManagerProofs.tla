-------------------------- MODULE ProxyManagerProofs ---------------------------
(******************************************************************************)
(* Proofs about ProxyManager for every number of proxies, names and owners.   *)
(*                                                                            *)
(* The type invariant is not inductive alone: that the reference count stays  *)
(* a natural number rests on its being exact, that an info's count does rests *)
(* on infos without references being freed.  Inv puts the parts together.     *)
(******************************************************************************)
EXTENDS ProxyManagerProps, FiniteSetTheorems, Induction, TLAPS

Inv == TypeOK /\ RefcountExact

--------------------------------------------------------------------------------
(* Types of the helpers *)

\* dbus_connection_send queues requests behind those already queued.
LEMMA SentType ==
  ASSUME TypeOK, NEW q \in Seq(Requests), NEW r \in Seq(Requests)
  PROVE  Sent(q, r) \in Seq(Requests)
BY DEF Sent

\* Cancelling calls turns messages into ignored ones, in both directions.
LEMMA ForgetType ==
  ASSUME NEW calls
  PROVE  /\ \A q \in Seq(Requests) : Forget(q, calls) \in Seq(Requests)
         /\ \A q \in Seq(Messages) : Forget(q, calls) \in Seq(Messages)
<1>1. Ignored \in Requests /\ Ignored \in Messages
  BY DEF Requests, Messages
<1>2. ASSUME NEW S, Ignored \in S, NEW q \in Seq(S)
      PROVE  Forget(q, calls) \in Seq(S)
  <2>1. DOMAIN q = 1 .. Len(q) /\ Len(q) \in Nat
    OBVIOUS
  <2>2. \A k \in DOMAIN q : q[k] \in S
    OBVIOUS
  <2>3. Forget(q, calls) \in [1 .. Len(q) -> S]
    BY <1>2, <2>1, <2>2 DEF Forget
  <2> QED
    BY <2>1, <2>3
<1> QED
  BY <1>1, <1>2

Infos == [Uniques -> [Names -> Seq(Nat \ {0})]]

\* monitor_name_owner keeps the counts of infos positive.
LEMMA MonitoredType ==
  ASSUME NEW table \in Infos, NEW u \in Uniques, NEW n, NEW k \in Nat \ {0}
  PROVE  Monitored(table, u, n, k) \in Infos
<1>1. CASE n \in Names
  <2> DEFINE s == table[u][n]
             t == IF s = <<>> THEN <<k>> ELSE <<Head(s) + k>> \o Tail(s)
  <2>1. s \in Seq(Nat \ {0})
    BY <1>1 DEF Infos
  <2>2. t \in Seq(Nat \ {0})
    <3>1. CASE s = <<>>
      BY <3>1
    <3>2. CASE s # <<>>
      <4> HIDE DEF s
      <4>a. Head(s) \in Nat \ {0}
        BY <2>1, <3>2
      <4>b. Tail(s) \in Seq(Nat \ {0})
        BY <2>1, <3>2
      <4>1. Head(s) + k \in Nat \ {0} /\ Tail(s) \in Seq(Nat \ {0})
        BY <4>a, <4>b
      <4>2. <<Head(s) + k>> \in Seq(Nat \ {0})
        BY <4>1
      <4> QED
        BY <3>2, <4>1, <4>2
    <3> QED
      BY <3>1, <3>2
  <2>3. Monitored(table, u, n, k) = [table EXCEPT ![u] = [table[u] EXCEPT ![n] = t]]
    BY DEF Monitored, Infos
  <2> HIDE DEF t
  <2>4. [table[u] EXCEPT ![n] = t] \in [Names -> Seq(Nat \ {0})]
    BY <2>2 DEF Infos
  <2> QED
    BY <2>3, <2>4 DEF Infos
<1>2. CASE n \notin Names
  BY <1>2 DEF Monitored, Infos
<1> QED
  BY <1>1, <1>2

\* unmonitor_name_owner frees the info instead of keeping a count of zero.
LEMMA UnmonitoredType ==
  ASSUME NEW table \in Infos, NEW u \in Uniques, NEW n \in Names, table[u][n] # <<>>
  PROVE  Unmonitored(table, u, n) \in Infos
<1> DEFINE s == table[u][n]
           t == IF Head(s) = 1 THEN Tail(s) ELSE <<Head(s) - 1>> \o Tail(s)
<1>1. s \in Seq(Nat \ {0}) /\ s # <<>>
  BY DEF Infos
<1>2. Head(s) \in Nat \ {0} /\ Tail(s) \in Seq(Nat \ {0})
  BY <1>1
<1>3. t \in Seq(Nat \ {0})
  <2>1. CASE Head(s) = 1
    BY <1>2, <2>1
  <2>2. CASE Head(s) # 1
    <3>1. Head(s) - 1 \in Nat \ {0}
      BY <1>2, <2>2
    <3>2. <<Head(s) - 1>> \in Seq(Nat \ {0})
      BY <3>1
    <3> QED
      BY <1>2, <2>2, <3>2
  <2> QED
    BY <2>1, <2>2
<1>4. Unmonitored(table, u, n) = [table EXCEPT ![u] = [table[u] EXCEPT ![n] = t]]
  BY DEF Unmonitored, Infos
<1> HIDE DEF t
<1> QED
  BY <1>3, <1>4 DEF Infos

\* replace_name_owner moves infos about and changes none.
LEMMA ReplacedType ==
  ASSUME NEW table \in Infos, NEW n \in Names, NEW old \in Uniques, NEW new \in Owners
  PROVE  Replaced(table, n, old, new) \in Infos
<1> DEFINE s == table[old][n]
           without == [table EXCEPT ![old][n] = Tail(@)]
<1>1. CASE s = <<>>
  BY <1>1 DEF Replaced
<1>2. CASE s # <<>>
  <2>1. s \in Seq(Nat \ {0}) /\ Head(s) \in Nat \ {0} /\ Tail(s) \in Seq(Nat \ {0})
    BY <1>2 DEF Infos
  <2>2. without \in Infos
    <3>1. without = [table EXCEPT ![old] = [table[old] EXCEPT ![n] = Tail(s)]]
      BY DEF Infos
    <3> HIDE DEF without
    <3> QED
      BY <2>1, <3>1 DEF Infos
  <2>3. CASE new = NoOwner
    BY <1>2, <2>2, <2>3 DEF Replaced
  <2>4. CASE new # NoOwner
    <3>1. new \in Uniques
      BY <2>4 DEF Owners
    <3> HIDE DEF without
    <3> DEFINE t == Append(without[new][n], Head(s))
    <3>2. t \in Seq(Nat \ {0})
      <4>1. without[new][n] \in Seq(Nat \ {0})
        BY <2>2, <3>1 DEF Infos
      <4> QED
        BY <2>1, <4>1
    <3>3. Replaced(table, n, old, new) = [without EXCEPT ![new][n] = Append(@, Head(s))]
      BY <1>2, <2>4 DEF Replaced, without
    <3>4. Replaced(table, n, old, new)
            = [without EXCEPT ![new] = [without[new] EXCEPT ![n] = t]]
      BY <2>2, <3>1, <3>3 DEF Infos
    <3> HIDE DEF t
    <3> QED
      BY <2>2, <3>1, <3>2, <3>4 DEF Infos
  <2> QED
    BY <2>3, <2>4
<1> QED
  BY <1>1, <1>2

\* The unassociated list is finite, so its matching links can be counted.
LEMMA LinksForFinite ==
  ASSUME TypeOK, NEW n
  PROVE  /\ IsFiniteSet(LinksFor(n))
         /\ LinksFor(n) # {} => Cardinality(LinksFor(n)) \in Nat \ {0}
<1> DEFINE P == {q \in Proxies : ProxyName[q] = n}
           f == [p \in P |-> {p} \X (1 .. unassociated[p])]
           S == {f[p] : p \in P}
<1>1. IsFiniteSet(P)
  BY BusAssumption, FS_Subset
<1>2. IsFiniteSet(S)
  <2>1. f \in Surjection(P, S)
    BY DEF Surjection
  <2> HIDE DEF f, S, P
  <2> QED
    BY <1>1, <2>1, FS_Surjection
<1>3. \A T \in S : IsFiniteSet(T)
  <2> SUFFICES ASSUME NEW p \in P
               PROVE  IsFiniteSet(f[p])
    OBVIOUS
  <2>1. IsFiniteSet({p})
    BY FS_Singleton
  <2>2. IsFiniteSet(1 .. unassociated[p])
    <3>1. unassociated[p] \in Int
      BY DEF TypeOK
    <3> QED
      BY <3>1, FS_Interval
  <2>3. f[p] = {p} \X (1 .. unassociated[p])
    OBVIOUS
  <2>4. IsFiniteSet({p} \X (1 .. unassociated[p]))
    BY <2>1, <2>2, FS_Product
  <2> HIDE DEF f, P
  <2> QED
    BY <2>3, <2>4
<1>4. LinksFor(n) = UNION S
  BY DEF LinksFor
<1> HIDE DEF S
<1>5. IsFiniteSet(LinksFor(n))
  BY <1>2, <1>3, <1>4, FS_UNION
<1> QED
  BY <1>5, FS_EmptySet, FS_CardinalityType

--------------------------------------------------------------------------------
(* Types after registration and unregistration *)

\* What Register and Unregister assign between them.
BooksType ==
  /\ toBus \in Seq(Requests)
  /\ toClient \in Seq(Messages)
  /\ owner \in [Names -> Owners]
  /\ alive \in SUBSET Uniques
  /\ rules \in [Rules -> Nat]
  /\ connected \in BOOLEAN
  /\ status \in [Proxies -> Statuses]
  /\ iface \in [Proxies -> Ifaces]
  /\ associated \in [Proxies -> BOOLEAN]
  /\ nameCall \in [Proxies -> BOOLEAN]
  /\ ownerNames \in [Uniques -> [Names -> Seq(Nat \ {0})]]
  /\ matchRefs \in [BusNames -> Nat]
  /\ rulesTable \in BOOLEAN
  /\ unassociated \in [Proxies -> Nat]

\* The requests the client makes have the shapes the bus knows.
LEMMA RequestTypes ==
  ASSUME NEW n \in BusNames \union {NoName}, NEW i \in Ifaces, NEW p \in Proxies
  PROVE  /\ [type |-> "RemoveMatch", rule |-> SignalRule(n, i)] \in Requests
         /\ [type |-> "AddMatch", rule |-> SignalRule(n, i)] \in Requests
         /\ n # NoName => /\ [type |-> "AddMatch", rule |-> OwnerRule(n)] \in Requests
                          /\ [type |-> "RemoveMatch", rule |-> OwnerRule(n)] \in Requests
         /\ n \in Names => [type |-> "GetNameOwner", call |-> p, name |-> n] \in Requests
<1>1. SignalRule(n, i) \in Rules
  BY DEF SignalRule, Rules
<1>2. n # NoName => OwnerRule(n) \in Rules
  BY DEF OwnerRule, Rules
<1> QED
  BY <1>1, <1>2 DEF Requests

\* A request that is sent or not is a sequence of requests.
LEMMA ShortSeq ==
  ASSUME NEW sent, NEW r, sent => r \in Requests
  PROVE  (IF sent THEN <<r>> ELSE <<>>) \in Seq(Requests)
<1>1. CASE sent
  BY <1>1
<1>2. CASE ~sent
  BY <1>2
<1> QED
  BY <1>1, <1>2

\* dbus_g_proxy_manager_register keeps every table well typed.
LEMMA RegisterType ==
  ASSUME TypeOK, NEW p \in Proxies, NEW i \in Ifaces, Register(p, i)
  PROVE  BooksType' /\ namesTable' \in BOOLEAN
<1> DEFINE n == ProxyName[p]
           newList == n # NoName /\ ListOf(n, i) = {}
           newName == newList /\ matchRefs[n] = 0
           found == ~ForOwner(p) /\ TrackedOwners(n) # {}
           asks == ~ForOwner(p) /\ ~found /\ connected
           r1 == IF newList THEN <<[type |-> "AddMatch", rule |-> SignalRule(n, i)]>> ELSE <<>>
           r2 == IF newName THEN <<[type |-> "AddMatch", rule |-> OwnerRule(n)]>> ELSE <<>>
           r3 == IF asks THEN <<[type |-> "GetNameOwner", call |-> p, name |-> n]>> ELSE <<>>
<1>1. n \in BusNames \union {NoName}
  BY ProxyAssumption
<1>2. toBus' \in Seq(Requests)
  <2>1. r1 \in Seq(Requests) /\ r2 \in Seq(Requests) /\ r3 \in Seq(Requests)
    <3>1. asks => n \in Names
      BY DEF ForOwner
    <3>2. [type |-> "AddMatch", rule |-> SignalRule(n, i)] \in Requests
      BY <1>1, RequestTypes
    <3>3. newName => [type |-> "AddMatch", rule |-> OwnerRule(n)] \in Requests
      BY <1>1, RequestTypes
    <3>4. asks => [type |-> "GetNameOwner", call |-> p, name |-> n] \in Requests
      BY <1>1, <3>1, RequestTypes
    <3> HIDE DEF newList, newName, asks
    <3> QED
      BY <3>2, <3>3, <3>4, ShortSeq
  <2>2. toBus' = Sent(toBus, r1 \o r2 \o r3)
    BY DEF Register
  <2>3. toBus \in Seq(Requests)
    BY DEF TypeOK, BusTypeOK
  <2> HIDE DEF r1, r2, r3
  <2>4. r1 \o r2 \o r3 \in Seq(Requests)
    BY <2>1
  <2> QED
    BY <2>2, <2>3, <2>4, SentType
<1>3. ownerNames' \in [Uniques -> [Names -> Seq(Nat \ {0})]]
  <2>1. ownerNames \in Infos
    BY DEF TypeOK, Infos
  <2>2. CASE UNCHANGED ownerNames
    BY <2>1, <2>2 DEF Infos
  <2>3. CASE found /\ \E u \in TrackedOwners(n) : ownerNames' = Monitored(ownerNames, u, n, 1)
    <3>1. PICK u \in TrackedOwners(n) : ownerNames' = Monitored(ownerNames, u, n, 1)
      BY <2>3
    <3>2. u \in Uniques
      BY DEF TrackedOwners
    <3>3. 1 \in Nat \ {0}
      OBVIOUS
    <3>4. Monitored(ownerNames, u, n, 1) \in Infos
      BY <2>1, <3>2, <3>3, MonitoredType
    <3> QED
      BY <3>1, <3>4 DEF Infos
  <2> QED
    BY <2>2, <2>3 DEF Register
<1>4. matchRefs' \in [BusNames -> Nat]
  <2>1. CASE newList /\ rulesTable'
    <3>1. n \in BusNames
      BY <1>1, <2>1
    <3>2. matchRefs' = [matchRefs EXCEPT ![n] = @ + 1]
      BY <2>1 DEF Register
    <3> QED
      BY <3>1, <3>2 DEF TypeOK
  <2>2. CASE ~(newList /\ rulesTable')
    BY <2>2 DEF Register, TypeOK
  <2> QED
    BY <2>1, <2>2
<1>5. /\ status' \in [Proxies -> Statuses]
      /\ iface' \in [Proxies -> Ifaces]
  BY DEF Register, TypeOK, Statuses
<1>6. /\ associated' \in [Proxies -> BOOLEAN]
      /\ nameCall' \in [Proxies -> BOOLEAN]
  <2>1. associated' = [associated EXCEPT ![p] = found] /\ nameCall' = [nameCall EXCEPT ![p] = asks]
    BY DEF Register
  <2>2. found \in BOOLEAN /\ asks \in BOOLEAN
    BY DEF TypeOK, BusTypeOK
  <2> HIDE DEF found, asks
  <2> QED
    BY <2>1, <2>2 DEF TypeOK
<1>7. /\ rulesTable' \in BOOLEAN
      /\ namesTable' \in BOOLEAN
      /\ unassociated' \in [Proxies -> Nat]
      /\ toClient' \in Seq(Messages)
      /\ owner' \in [Names -> Owners]
      /\ alive' \in SUBSET Uniques
      /\ rules' \in [Rules -> Nat]
      /\ connected' \in BOOLEAN
  BY DEF Register, TypeOK, BusTypeOK
<1> QED
  BY <1>2, <1>3, <1>4, <1>5, <1>6, <1>7 DEF BooksType

\* dbus_g_proxy_manager_unregister keeps every table well typed, given that its
\* checks pass: no count it decrements is zero.
LEMMA UnregisterType ==
  ASSUME TypeOK, NEW p \in Proxies, NEW st \in Statuses,
         UnregisterFault(p) = "none", Unregister(p, st)
  PROVE  BooksType'
<1> DEFINE n == ProxyName[p]
           lastOfName == LastOfList(p) /\ n # NoName /\ matchRefs[n] = 1
           cancelled == IF ~ForOwner(p) /\ ~associated[p] /\ nameCall[p] THEN {p} ELSE {}
           r1 == IF LastOfList(p)
                 THEN <<[type |-> "RemoveMatch", rule |-> SignalRule(n, iface[p])]>> ELSE <<>>
           r2 == IF lastOfName THEN <<[type |-> "RemoveMatch", rule |-> OwnerRule(n)]>> ELSE <<>>
<1>1. n \in BusNames \union {NoName} /\ iface[p] \in Ifaces
  BY ProxyAssumption DEF TypeOK
<1>2. toBus' \in Seq(Requests)
  <2>1. r1 \in Seq(Requests) /\ r2 \in Seq(Requests)
    <3>1. [type |-> "RemoveMatch", rule |-> SignalRule(n, iface[p])] \in Requests
      BY <1>1, RequestTypes
    <3>2. lastOfName => [type |-> "RemoveMatch", rule |-> OwnerRule(n)] \in Requests
      BY <1>1, RequestTypes
    <3> QED
      BY <3>1, <3>2, ShortSeq
  <2>2. toBus' = Sent(Forget(toBus, cancelled), r1 \o r2)
    BY DEF Unregister
  <2> HIDE DEF r1, r2
  <2>3. r1 \o r2 \in Seq(Requests)
    BY <2>1
  <2>4. Forget(toBus, cancelled) \in Seq(Requests)
    BY ForgetType DEF TypeOK, BusTypeOK
  <2> QED
    BY <2>2, <2>3, <2>4, SentType
<1>3. toClient' \in Seq(Messages)
  <2>1. toClient' = Forget(toClient, cancelled)
    BY DEF Unregister
  <2> QED
    BY <2>1, ForgetType DEF TypeOK, BusTypeOK
<1>4. /\ ownerNames' \in [Uniques -> [Names -> Seq(Nat \ {0})]]
      /\ nameCall' \in [Proxies -> BOOLEAN]
      /\ unassociated' \in [Proxies -> Nat]
  <2>1. CASE ForOwner(p)
    BY <2>1 DEF Unregister, TypeOK
  <2>2. CASE ~ForOwner(p)
    <3>1. n \in Names
      BY <2>2 DEF ForOwner
    <3>2. StopsTracking(p)
      BY <2>2 DEF Unregister
    <3>3. CASE associated[p]
      <4>1. UNCHANGED <<nameCall, unassociated>>
        BY <3>2, <3>3 DEF StopsTracking
      <4>2. PICK u \in TrackedOwners(n) : ownerNames' = Unmonitored(ownerNames, u, n)
        BY <3>2, <3>3 DEF StopsTracking
      <4>3. u \in Uniques /\ ownerNames[u][n] # <<>>
        BY DEF TrackedOwners
      <4>4. ownerNames' \in Infos
        BY <3>1, <4>2, <4>3, UnmonitoredType DEF TypeOK, Infos
      <4> QED
        BY <4>1, <4>4 DEF TypeOK, Infos
    <3>4. CASE ~associated[p]
      <4>1. UNCHANGED ownerNames
        BY <3>2, <3>4 DEF StopsTracking
      <4>2. nameCall' = nameCall \/ nameCall' = [nameCall EXCEPT ![p] = FALSE]
        BY <3>2, <3>4 DEF StopsTracking
      <4>3. nameCall' \in [Proxies -> BOOLEAN]
        BY <4>2 DEF TypeOK
      <4>4. \/ unassociated' = unassociated
            \/ unassociated' = [unassociated EXCEPT ![p] = IF @ > 0 THEN @ - 1 ELSE 0]
        BY <3>2, <3>4 DEF StopsTracking
      <4>5. unassociated' \in [Proxies -> Nat]
        <5> DEFINE k == IF unassociated[p] > 0 THEN unassociated[p] - 1 ELSE 0
        <5>1. unassociated[p] \in Nat
          BY DEF TypeOK
        <5>2. k \in Nat
          BY <5>1
        <5>3. unassociated' = unassociated \/ unassociated' = [unassociated EXCEPT ![p] = k]
          BY <4>4
        <5> HIDE DEF k
        <5> QED
          BY <5>2, <5>3 DEF TypeOK
      <4> QED
        BY <4>1, <4>3, <4>5 DEF TypeOK
    <3> QED
      BY <3>3, <3>4
  <2> QED
    BY <2>1, <2>2
<1>5. matchRefs' \in [BusNames -> Nat]
  <2>1. CASE LastOfList(p) /\ n # NoName
    <3>1. matchRefs[n] # 0
      BY <2>1 DEF UnregisterFault
    <3>2. n \in BusNames
      BY <1>1, <2>1
    <3>3. matchRefs' = [matchRefs EXCEPT ![n] = @ - 1]
      BY <2>1 DEF Unregister
    <3> QED
      BY <3>1, <3>2, <3>3 DEF TypeOK
  <2>2. CASE ~(LastOfList(p) /\ n # NoName)
    BY <2>2 DEF Unregister, TypeOK
  <2> QED
    BY <2>1, <2>2
<1>6. /\ status' \in [Proxies -> Statuses]
      /\ rulesTable' \in BOOLEAN
      /\ iface' \in [Proxies -> Ifaces]
      /\ associated' \in [Proxies -> BOOLEAN]
      /\ owner' \in [Names -> Owners]
      /\ alive' \in SUBSET Uniques
      /\ rules' \in [Rules -> Nat]
      /\ connected' \in BOOLEAN
  BY DEF Unregister, TypeOK, BusTypeOK
<1> QED
  BY <1>2, <1>3, <1>4, <1>5, <1>6 DEF BooksType

--------------------------------------------------------------------------------
(* The proxies that hold a reference *)

\* A reference more when a proxy is constructed, one less when it is disposed
\* of, and the same number while it changes its interface.
LEMMA HoldersCounted ==
  ASSUME TypeOK, NEW p \in Proxies, NEW st \in Statuses,
         status' = [status EXCEPT ![p] = st]
  PROVE  /\ Cardinality(Holders) \in Nat
         /\ p \in Holders => Cardinality(Holders) > 0
         /\ (p \notin Holders /\ st \in {"registered", "moving"})
              => Cardinality(Holders') = Cardinality(Holders) + 1
         /\ (p \in Holders /\ st \notin {"registered", "moving"})
              => Cardinality(Holders') = Cardinality(Holders) - 1
         /\ (p \in Holders <=> st \in {"registered", "moving"})
              => Cardinality(Holders') = Cardinality(Holders)
<1>1. IsFiniteSet(Holders)
  BY BusAssumption, FS_Subset DEF Holders
<1>2. Cardinality(Holders) \in Nat /\ (p \in Holders => Cardinality(Holders) # 0)
  BY <1>1, FS_CardinalityType, FS_EmptySet
<1>3. CASE st \in {"registered", "moving"}
  <2>1. Holders' = Holders \union {p}
    BY <1>3 DEF Holders, TypeOK
  <2>2. Cardinality(Holders \union {p})
          = IF p \in Holders THEN Cardinality(Holders) ELSE Cardinality(Holders) + 1
    BY <1>1, FS_AddElement
  <2>3. Cardinality(Holders')
          = IF p \in Holders THEN Cardinality(Holders) ELSE Cardinality(Holders) + 1
    BY <2>1, <2>2
  <2> QED
    BY <1>2, <1>3, <2>3
<1>4. CASE st \notin {"registered", "moving"}
  <2>1. Holders' = Holders \ {p}
    BY <1>4 DEF Holders, TypeOK
  <2>2. Cardinality(Holders \ {p})
          = IF p \in Holders THEN Cardinality(Holders) - 1 ELSE Cardinality(Holders)
    BY <1>1, FS_RemoveElement
  <2>3. Cardinality(Holders')
          = IF p \in Holders THEN Cardinality(Holders) - 1 ELSE Cardinality(Holders)
    BY <2>1, <2>2
  <2> QED
    BY <1>2, <1>4, <2>3
<1> QED
  BY <1>3, <1>4

\* Steps that leave the status of the proxies alone leave their references.
LEMMA HoldersSame ==
  ASSUME UNCHANGED status
  PROVE  Holders' = Holders
BY DEF Holders

\* How many proxies hold a reference is a number.
LEMMA HoldersType == Cardinality(Holders) \in Nat
<1>1. IsFiniteSet(Holders)
  BY BusAssumption, FS_Subset DEF Holders
<1> QED
  BY <1>1, FS_CardinalityType

--------------------------------------------------------------------------------
(* Every step keeps Inv *)

\* A program that starts has no manager and no proxies.
LEMMA InitInv ==
  ASSUME Init
  PROVE  Inv
<1>1. toBus = <<>> /\ toClient = <<>> /\ <<>> \in Seq(Requests) /\ <<>> \in Seq(Messages)
  BY DEF Init, BusInit
<1>2. BusTypeOK
  BY <1>1, BusAssumption DEF Init, BusInit, BusTypeOK
<1>3. ownerNames \in [Uniques -> [Names -> Seq(Nat \ {0})]]
  <2>1. <<>> \in Seq(Nat \ {0})
    OBVIOUS
  <2> QED
    BY <2>1 DEF Init
<1>4. TypeOK
  BY <1>2, <1>3, ProxyAssumption DEF Init, TypeOK, Statuses, Idle, Faults
<1>5. Holders = {}
  BY DEF Init, Holders
<1>6. RefcountExact
  BY <1>5, FS_EmptySet DEF Init, RefcountExact, Idle
<1> QED
  BY <1>4, <1>6 DEF Inv

\* A process that dies leaves everything as it was, but for the filter's loop.
LEMMA DiesInv ==
  ASSUME Inv, NEW f \in Faults, Dies(f),
         filter' = filter \/ \E p \in Proxies : filter' = [filter EXCEPT !.todo = @ \ {p}]
  PROVE  Inv'
<1>1. filter' \in [pc : {"idle", "emit", "destroy", "disconnect"}, todo : SUBSET Proxies]
  BY DEF Inv, TypeOK
<1>2. filter'.pc = filter.pc
  BY DEF Inv, TypeOK
<1>3. TypeOK'
  BY <1>1 DEF Inv, TypeOK, BusTypeOK, Dies, busVars, managerVars, proxyVars
<1>4. RefcountExact'
  BY <1>2, HoldersSame DEF Inv, RefcountExact, Dies, managerVars, proxyVars
<1> QED
  BY <1>3, <1>4 DEF Inv

\* The faults that registration and unregistration can end in.
LEMMA FaultTypes ==
  /\ RegisterFault \in Faults
  /\ \A p : UnregisterFault(p) \in Faults
<1>1. RegisterFault \in Faults
  BY DEF RegisterFault, Faults
<1>2. ASSUME NEW p
      PROVE  UnregisterFault(p) \in Faults
  BY DEF UnregisterFault, Faults
<1> QED
  BY <1>1, <1>2

\* What a message of each type carries.
LEMMA MessageTypes ==
  ASSUME Inv, toClient # <<>>
  PROVE  /\ Head(toClient).type = "reply"
              => Head(toClient).call \in Proxies /\ Head(toClient).owner \in Owners
         /\ Head(toClient).type = "NameOwnerChanged"
              => /\ Head(toClient).name \in BusNames
                 /\ Head(toClient).old \in Owners
                 /\ Head(toClient).new \in Owners
                 /\ Head(toClient).old # Head(toClient).new
         /\ Tail(toClient) \in Seq(Messages)
<1>1. toClient \in Seq(Messages)
  BY DEF Inv, TypeOK, BusTypeOK
<1>2. Head(toClient) \in Messages /\ Tail(toClient) \in Seq(Messages)
  BY <1>1
<1> QED
  BY <1>2 DEF Messages, Ignored

\* A step that only dispatches a message and changes no reference.
LEMMA DispatchInv ==
  ASSUME Inv, BooksType', refcount' = refcount, namesTable' = namesTable,
         status' = status, filter' = filter, fault' = fault, budget' = budget
  PROVE  Inv'
<1>1. TypeOK'
  BY DEF Inv, TypeOK, BusTypeOK, BooksType
<1>2. RefcountExact'
  BY HoldersSame DEF Inv, RefcountExact
<1> QED
  BY <1>1, <1>2 DEF Inv

\* A message that may start a loop of the filter, which takes a reference.
LEMMA LoopInv ==
  ASSUME Inv, BooksType', NEW todo \in SUBSET Proxies,
         NEW pc \in {"emit", "destroy", "disconnect"},
         filter = Idle,
         filter' = IF todo = {} THEN Idle ELSE [pc |-> pc, todo |-> todo],
         refcount' = refcount + (IF todo = {} THEN 0 ELSE 1),
         UNCHANGED <<status, namesTable, fault, budget>>
  PROVE  Inv'
<1>1. filter' \in [pc : {"idle", "emit", "destroy", "disconnect"}, todo : SUBSET Proxies]
  BY DEF Idle
<1>2. refcount \in Nat /\ refcount' \in Nat
  BY DEF Inv, TypeOK
<1>3. TypeOK'
  BY <1>1, <1>2 DEF Inv, TypeOK, BusTypeOK, BooksType
<1>4. refcount = Cardinality(Holders) /\ Holders' = Holders
  BY <1>2, HoldersSame, HoldersType DEF Inv, RefcountExact, Idle
<1>5. RefcountExact'
  BY <1>2, <1>4 DEF RefcountExact, Idle
<1> QED
  BY <1>3, <1>5 DEF Inv

\* dbus_g_proxy_new_*: the new proxy brings its reference.
LEMMA NewInv ==
  ASSUME Inv, NEW p \in Proxies, New(p)
  PROVE  Inv'
<1>1. CASE RegisterFault # "none" /\ Dies(RegisterFault)
  BY <1>1, DiesInv, FaultTypes DEF New
<1>2. CASE /\ Register(p, FirstIface[p])
           /\ refcount' = refcount + 1
           /\ UNCHANGED <<budget, fault, filter>>
  <2>1. BooksType' /\ namesTable' \in BOOLEAN
    BY <1>2, ProxyAssumption, RegisterType DEF Inv
  <2>2. TypeOK'
    BY <1>2, <2>1 DEF Inv, TypeOK, BusTypeOK, BooksType
  <2>3. status' = [status EXCEPT ![p] = "registered"]
    BY <1>2 DEF Register
  <2>4. p \notin Holders
    BY DEF New, Holders
  <2>5. Cardinality(Holders') = Cardinality(Holders) + 1 /\ Cardinality(Holders) \in Nat
    BY <2>3, <2>4, HoldersCounted DEF Inv, Statuses
  <2>6. RefcountExact'
    BY <1>2, <2>5 DEF Inv, RefcountExact
  <2> QED
    BY <2>2, <2>6 DEF Inv
<1> QED
  BY <1>1, <1>2 DEF New

\* dbus_g_proxy_new_for_name_owner has not made its proxy yet.
LEMMA ResolveOwnerInv ==
  ASSUME Inv, NEW p \in Proxies, ResolveOwner(p)
  PROVE  Inv'
<1>1. status' = [status EXCEPT ![p] = "resolved"]
  BY DEF ResolveOwner
<1>2. TypeOK'
  BY <1>1 DEF ResolveOwner, Inv, TypeOK, BusTypeOK, busVars, managerVars, Statuses
<1>3. p \notin Holders
  BY DEF ResolveOwner, Holders
<1>4. Cardinality(Holders') = Cardinality(Holders)
  BY <1>1, <1>3, HoldersCounted DEF Inv, Statuses
<1>5. RefcountExact'
  BY <1>4 DEF ResolveOwner, Inv, RefcountExact, managerVars
<1> QED
  BY <1>2, <1>5 DEF Inv

\* A registered proxy that is disposed of takes its reference along.
LEMMA UnregistersInv ==
  ASSUME Inv, NEW p \in Proxies, Unregisters(p),
         filter' = filter \/ filter' = [filter EXCEPT !.todo = @ \ {p}]
  PROVE  Inv'
<1>1. CASE UnregisterFault(p) # "none" /\ Dies(UnregisterFault(p))
  BY <1>1, DiesInv, FaultTypes
<1>2. CASE /\ UnregisterFault(p) = "none"
           /\ Unregister(p, "disposed") /\ Unref /\ UNCHANGED budget
  <2>1. BooksType'
    BY <1>2, UnregisterType DEF Inv, Statuses
  <2>2. status' = [status EXCEPT ![p] = "disposed"] /\ refcount' = refcount - 1
    BY <1>2 DEF Unregister, Unref
  <2>3. p \in Holders
    BY <1>2 DEF UnregisterFault, Holders
  <2>4. /\ Cardinality(Holders') = Cardinality(Holders) - 1
        /\ Cardinality(Holders) \in Nat /\ Cardinality(Holders) > 0
    BY <2>2, <2>3, HoldersCounted DEF Inv, Statuses
  <2>5. filter' \in [pc : {"idle", "emit", "destroy", "disconnect"}, todo : SUBSET Proxies]
        /\ filter'.pc = filter.pc
    BY DEF Inv, TypeOK
  <2>6. RefcountExact'
    BY <2>2, <2>4, <2>5 DEF Inv, RefcountExact
  <2>7. refcount' \in Nat
    BY <2>2, <2>4 DEF Inv, RefcountExact
  <2>8. namesTable' \in BOOLEAN /\ fault' \in Faults
    BY <1>2 DEF Unref, Faults
  <2>9. TypeOK'
    BY <1>2, <2>1, <2>5, <2>7, <2>8 DEF Inv, TypeOK, BusTypeOK, BooksType
  <2> QED
    BY <2>6, <2>9 DEF Inv
<1> QED
  BY <1>1, <1>2 DEF Unregisters

\* dbus_g_proxy_set_interface keeps the proxy's reference across its two halves.
LEMMA SetInterfaceInv ==
  ASSUME Inv, NEW p \in Proxies,
         SetInterfaceBegins(p) \/ \E i \in Ifaces : SetInterfaceEnds(p, i)
  PROVE  Inv'
<1>1. CASE \/ UnregisterFault(p) # "none" /\ Dies(UnregisterFault(p)) /\ UNCHANGED filter
           \/ RegisterFault # "none" /\ Dies(RegisterFault) /\ UNCHANGED filter
  BY <1>1, DiesInv, FaultTypes
<1>2. CASE /\ status[p] = "registered" /\ UnregisterFault(p) = "none"
           /\ Unregister(p, "moving") /\ Spend("moves")
           /\ UNCHANGED <<refcount, namesTable, fault, filter>>
  <2>1. BooksType'
    BY <1>2, UnregisterType DEF Inv, Statuses
  <2>2. budget' \in [Events -> Nat]
    BY <1>2 DEF Spend, Events, Inv, TypeOK, BusTypeOK
  <2>3. TypeOK'
    BY <1>2, <2>1, <2>2 DEF Inv, TypeOK, BusTypeOK, BooksType
  <2>4. status' = [status EXCEPT ![p] = "moving"] /\ p \in Holders
    BY <1>2 DEF Unregister, Holders
  <2>5. Cardinality(Holders') = Cardinality(Holders)
    BY <2>4, HoldersCounted DEF Inv, Statuses
  <2> QED
    BY <1>2, <2>3, <2>5 DEF Inv, RefcountExact
<1>3. ASSUME NEW i \in Ifaces, status[p] = "moving", Register(p, i),
             UNCHANGED <<budget, refcount, fault, filter>>
      PROVE  Inv'
  <2>1. BooksType' /\ namesTable' \in BOOLEAN
    BY <1>3, RegisterType DEF Inv
  <2>2. TypeOK'
    BY <1>3, <2>1 DEF Inv, TypeOK, BusTypeOK, BooksType
  <2>3. status' = [status EXCEPT ![p] = "registered"] /\ p \in Holders
    BY <1>3 DEF Register, Holders
  <2>4. Cardinality(Holders') = Cardinality(Holders)
    BY <2>3, HoldersCounted DEF Inv, Statuses
  <2> QED
    BY <1>3, <2>2, <2>4 DEF Inv, RefcountExact
<1> QED
  BY <1>1, <1>2, <1>3 DEF SetInterfaceBegins, SetInterfaceEnds

\* A message that nobody here handles.
LEMMA IgnoreMessageInv ==
  ASSUME Inv, IgnoreMessage
  PROVE  Inv'
<1>1. toClient' \in Seq(Messages)
  BY MessageTypes DEF IgnoreMessage, Dispatching
<1>2. BooksType'
  BY <1>1 DEF IgnoreMessage, Inv, TypeOK, BusTypeOK, BooksType, managerVars, proxyVars
<1> QED
  BY <1>2, DispatchInv DEF IgnoreMessage, managerVars, proxyVars

\* got_name_owner_cb: the proxy is associated or gets a link, never both.
LEMMA GotNameOwnerInv ==
  ASSUME Inv, GotNameOwner
  PROVE  Inv'
<1> DEFINE m == Head(toClient)
           p == m.call
<1>1. p \in Proxies /\ m.owner \in Owners /\ toClient' \in Seq(Messages)
  BY MessageTypes DEF GotNameOwner, Dispatching
<1>2. /\ ownerNames' \in [Uniques -> [Names -> Seq(Nat \ {0})]]
      /\ associated' \in [Proxies -> BOOLEAN]
      /\ unassociated' \in [Proxies -> Nat]
  <2>1. CASE m.owner = NoOwner
    <3>1. /\ unassociated' = [unassociated EXCEPT ![p] = @ + 1]
          /\ UNCHANGED <<ownerNames, associated>>
      BY <2>1 DEF GotNameOwner
    <3> QED
      BY <1>1, <3>1 DEF Inv, TypeOK
  <2>2. CASE m.owner # NoOwner
    <3>1. /\ ownerNames' = Monitored(ownerNames, m.owner, ProxyName[p], 1)
          /\ associated' = [associated EXCEPT ![p] = TRUE]
          /\ UNCHANGED unassociated
      BY <2>2 DEF GotNameOwner
    <3>2. m.owner \in Uniques
      BY <1>1, <2>2 DEF Owners
    <3>3. ownerNames \in Infos
      BY DEF Inv, TypeOK, Infos
    <3>4. ownerNames' \in Infos
      <4> HIDE DEF m, p
      <4> QED
        BY <3>1, <3>2, <3>3, MonitoredType
    <3> QED
      BY <3>1, <3>4 DEF Infos, Inv, TypeOK
  <2> QED
    BY <2>1, <2>2
<1>3. nameCall' \in [Proxies -> BOOLEAN]
  BY DEF GotNameOwner, Inv, TypeOK
<1>4. BooksType'
  BY <1>1, <1>2, <1>3 DEF GotNameOwner, Inv, TypeOK, BusTypeOK, BooksType
<1> QED
  BY <1>4, DispatchInv DEF GotNameOwner

\* A GetNameOwner call that fails changes no table.
LEMMA NameCallFailsInv ==
  ASSUME Inv, NEW p \in Proxies, NameCallFails(p)
  PROVE  Inv'
<1>1. toBus' \in Seq(Requests)
  BY ForgetType DEF NameCallFails, Inv, TypeOK, BusTypeOK
<1>2. nameCall' \in [Proxies -> BOOLEAN]
  BY DEF NameCallFails, Inv, TypeOK
<1>3. budget' \in [Events -> Nat]
  BY DEF NameCallFails, Spend, Events, Inv, TypeOK, BusTypeOK
<1>4. TypeOK'
  BY <1>1, <1>2, <1>3 DEF NameCallFails, Inv, TypeOK, BusTypeOK, managerVars
<1>5. RefcountExact'
  BY HoldersSame DEF NameCallFails, Inv, RefcountExact, managerVars
<1> QED
  BY <1>4, <1>5 DEF Inv

\* replace_name_owner, a new owner: the info's count is the number of links.
LEMMA NameAppearsInv ==
  ASSUME Inv, NameAppears
  PROVE  Inv'
<1> DEFINE m == Head(toClient)
           links == LinksFor(m.name)
<1>1. m.name \in BusNames /\ m.new \in Owners /\ toClient' \in Seq(Messages)
  BY MessageTypes DEF NameAppears, Dispatching
<1>2. m.new \in Uniques
  <2>1. m.old = NoOwner /\ m.new # m.old
    BY MessageTypes DEF NameAppears, Dispatching
  <2> QED
    BY <1>1, <2>1 DEF Owners
<1>3. ownerNames' \in [Uniques -> [Names -> Seq(Nat \ {0})]]
  <2>1. CASE links = {}
    BY <2>1 DEF NameAppears, Inv, TypeOK
  <2>2. CASE links # {}
    <3>1. Cardinality(links) \in Nat \ {0}
      BY <2>2, LinksForFinite DEF Inv
    <3>2. ownerNames' = Monitored(ownerNames, m.new, m.name, Cardinality(links))
      BY <2>2 DEF NameAppears
    <3> HIDE DEF links, m
    <3> QED
      BY <1>2, <3>1, <3>2, MonitoredType DEF Inv, TypeOK, Infos
  <2> QED
    BY <2>1, <2>2
<1>4. associated' \in [Proxies -> BOOLEAN] /\ unassociated' \in [Proxies -> Nat]
  BY DEF NameAppears, Inv, TypeOK
<1>5. BooksType'
  BY <1>1, <1>3, <1>4 DEF NameAppears, Inv, TypeOK, BusTypeOK, BooksType
<1> QED
  BY <1>5, DispatchInv DEF NameAppears

\* replace_name_owner, an old owner: infos move, calls are cancelled, and the
\* filter takes a reference before it destroys proxies without the lock.
LEMMA NameMovesOrGoesInv ==
  ASSUME Inv, NameMovesOrGoes
  PROVE  Inv'
<1> DEFINE m == Head(toClient)
           gone == IF m.new = NoOwner THEN BoundTo(m.name) ELSE {}
           left == {p \in gone : ~ForOwner(p)}
           doomed == gone \ left
<1>1. m.old \in Uniques /\ m.new \in Owners /\ Tail(toClient) \in Seq(Messages)
  BY MessageTypes DEF NameMovesOrGoes, Dispatching, Owners
<1>2. toBus' \in Seq(Requests) /\ toClient' \in Seq(Messages)
  <2>1. toBus \in Seq(Requests)
    BY DEF Inv, TypeOK, BusTypeOK
  <2>2. toBus' = Forget(toBus, Calling(left)) /\ toClient' = Forget(Tail(toClient), Calling(left))
    BY DEF NameMovesOrGoes
  <2> QED
    BY <1>1, <2>1, <2>2, ForgetType
<1>3. ownerNames' \in [Uniques -> [Names -> Seq(Nat \ {0})]]
  <2>1. ownerNames \in Infos
    BY DEF Inv, TypeOK, Infos
  <2>2. CASE m.name \in Names
    <3>1. ownerNames' = Replaced(ownerNames, m.name, m.old, m.new)
      BY <2>2 DEF NameMovesOrGoes
    <3> HIDE DEF m
    <3>2. ownerNames' \in Infos
      BY <1>1, <2>1, <2>2, <3>1, ReplacedType
    <3> QED
      BY <3>2 DEF Infos
  <2>3. CASE m.name \notin Names
    BY <2>1, <2>3 DEF NameMovesOrGoes, Infos
  <2> QED
    BY <2>2, <2>3
<1>4. /\ nameCall' \in [Proxies -> BOOLEAN]
      /\ associated' \in [Proxies -> BOOLEAN]
  BY DEF NameMovesOrGoes, Inv, TypeOK
<1>5. unassociated' \in [Proxies -> Nat]
  <2>1. unassociated' = [p \in Proxies |-> unassociated[p] + (IF p \in left THEN 1 ELSE 0)]
    BY DEF NameMovesOrGoes
  <2> HIDE DEF left
  <2> QED
    BY <2>1 DEF Inv, TypeOK
<1>6. BooksType'
  BY <1>2, <1>3, <1>4, <1>5 DEF NameMovesOrGoes, Inv, TypeOK, BusTypeOK, BooksType
<1>7. doomed \subseteq Proxies
  BY DEF BoundTo, Listed
<1>8. /\ filter' = IF doomed = {} THEN Idle ELSE [pc |-> "destroy", todo |-> doomed]
      /\ refcount' = refcount + (IF doomed = {} THEN 0 ELSE 1)
      /\ filter = Idle
      /\ UNCHANGED <<status, namesTable, fault, budget>>
  BY DEF NameMovesOrGoes, Dispatching
<1> HIDE DEF doomed
<1> QED
  BY <1>6, <1>7, <1>8, LoopInv

\* The filter on a signal takes its reference before it emits without the lock.
LEMMA RoutesSignalInv ==
  ASSUME Inv, RoutesSignal
  PROVE  Inv'
<1> DEFINE todo == Recipients(Head(toClient))
<1>1. toClient' \in Seq(Messages)
  BY MessageTypes DEF RoutesSignal, Dispatching
<1>2. BooksType'
  BY <1>1 DEF RoutesSignal, Inv, TypeOK, BusTypeOK, BooksType, proxyVars
<1>3. todo \subseteq Proxies
  BY DEF Recipients, ListOf, Listed
<1>4. /\ filter' = IF todo = {} THEN Idle ELSE [pc |-> "emit", todo |-> todo]
      /\ refcount' = refcount + (IF todo = {} THEN 0 ELSE 1)
      /\ filter = Idle
      /\ UNCHANGED <<status, namesTable, fault, budget>>
  BY DEF RoutesSignal, Dispatching, proxyVars
<1> HIDE DEF todo
<1> QED
  BY <1>2, <1>3, <1>4, LoopInv

\* The filter on Disconnected does the same before it destroys all proxies.
LEMMA HandlesDisconnectedInv ==
  ASSUME Inv, HandlesDisconnected
  PROVE  Inv'
<1>1. toClient' \in Seq(Messages)
  BY MessageTypes DEF HandlesDisconnected, Dispatching
<1>2. BooksType'
  BY <1>1 DEF HandlesDisconnected, Inv, TypeOK, BusTypeOK, BooksType, proxyVars
<1>3. ListAll \subseteq Proxies
  BY DEF ListAll, Listed
<1>4. /\ filter' = IF ListAll = {} THEN Idle ELSE [pc |-> "disconnect", todo |-> ListAll]
      /\ refcount' = refcount + (IF ListAll = {} THEN 0 ELSE 1)
      /\ filter = Idle
      /\ UNCHANGED <<status, namesTable, fault, budget>>
  BY DEF HandlesDisconnected, Dispatching, proxyVars
<1> QED
  BY <1>2, <1>3, <1>4, LoopInv

\* A turn of the emitting loop: the handler's own effects are other steps.
LEMMA EmitsToInv ==
  ASSUME Inv, NEW p \in Proxies, EmitsTo(p)
  PROVE  Inv'
<1>1. /\ filter' \in [pc : {"idle", "emit", "destroy", "disconnect"}, todo : SUBSET Proxies]
      /\ filter'.pc = filter.pc
  BY DEF EmitsTo, Inv, TypeOK
<1>2. TypeOK'
  BY <1>1 DEF EmitsTo, Inv, TypeOK, BusTypeOK, busVars, managerVars, proxyVars
<1>3. RefcountExact'
  BY <1>1, HoldersSame DEF EmitsTo, Inv, RefcountExact, managerVars, proxyVars
<1> QED
  BY <1>2, <1>3 DEF Inv

\* A turn of a destroying loop.
LEMMA DestroysInv ==
  ASSUME Inv, NEW p \in Proxies, Destroys(p)
  PROVE  Inv'
<1>1. filter' = [filter EXCEPT !.todo = @ \ {p}]
  BY DEF Destroys
<1>2. CASE Unregisters(p)
  BY <1>1, <1>2, UnregistersInv
<1>3. CASE UNCHANGED <<busVars, managerVars, proxyVars, fault>>
  <2>1. /\ filter' \in [pc : {"idle", "emit", "destroy", "disconnect"}, todo : SUBSET Proxies]
        /\ filter'.pc = filter.pc
    BY <1>1 DEF Inv, TypeOK
  <2>2. TypeOK'
    BY <1>3, <2>1 DEF Inv, TypeOK, BusTypeOK, busVars, managerVars, proxyVars
  <2>3. RefcountExact'
    BY <1>3, <2>1, HoldersSame DEF Inv, RefcountExact, managerVars, proxyVars
  <2> QED
    BY <2>2, <2>3 DEF Inv
<1> QED
  BY <1>2, <1>3 DEF Destroys

\* The filter gives its reference back at the end of its loop.
LEMMA FilterReturnsInv ==
  ASSUME Inv, FilterReturns
  PROVE  Inv'
<1>1. /\ refcount = Cardinality(Holders) + 1
      /\ refcount' = refcount - 1
      /\ filter' = Idle
      /\ Cardinality(Holders) \in Nat
  BY HoldersType DEF FilterReturns, Unref, Inv, RefcountExact
<1>2. namesTable' \in BOOLEAN /\ fault' \in Faults
  BY DEF FilterReturns, Unref, Faults
<1>3. Holders' = Holders
  BY HoldersSame DEF FilterReturns, proxyVars
<1>4. RefcountExact'
  BY <1>1, <1>3 DEF RefcountExact, Idle
<1>5. filter' \in [pc : {"idle", "emit", "destroy", "disconnect"}, todo : SUBSET Proxies]
  BY <1>1 DEF Idle
<1>6. TypeOK'
  BY <1>1, <1>2, <1>5 DEF FilterReturns, Inv, TypeOK, BusTypeOK, busVars, proxyVars
<1> QED
  BY <1>4, <1>6 DEF Inv

\* What happens on the bus changes nothing in the manager.
LEMMA OutsideInv ==
  ASSUME Inv, BusTypeOK', UNCHANGED <<managerVars, proxyVars, filter, fault>>
  PROVE  Inv'
<1>1. TypeOK'
  BY DEF Inv, TypeOK, managerVars, proxyVars
<1>2. RefcountExact'
  BY HoldersSame DEF Inv, RefcountExact, managerVars, proxyVars
<1> QED
  BY <1>1, <1>2 DEF Inv

\* The bus answers a request with a well-formed message.
LEMMA BusStepInv ==
  ASSUME Inv, BusStep
  PROVE  Inv'
<1> DEFINE req == Head(toBus)
<1>1. toBus \in Seq(Requests) /\ toClient \in Seq(Messages) /\ rules \in [Rules -> Nat]
      /\ owner \in [Names -> Owners]
  BY DEF Inv, TypeOK, BusTypeOK
<1>2. req \in Requests /\ toBus' \in Seq(Requests)
  BY <1>1 DEF BusStep, BusHandlesRequest
<1>3. rules' \in [Rules -> Nat]
  BY <1>1 DEF BusStep, BusHandlesRequest
<1>4. toClient' \in Seq(Messages)
  <2>1. CASE UNCHANGED toClient
    BY <1>1, <2>1
  <2>2. CASE /\ req.type = "GetNameOwner"
             /\ toClient' = Append(toClient, [type |-> "reply", call |-> req.call,
                                              owner |-> owner[req.name]])
    <3>1. req.call \in Proxies /\ req.name \in Names
      BY <1>2, <2>2 DEF Requests, Ignored
    <3>2. [type |-> "reply", call |-> req.call, owner |-> owner[req.name]] \in Messages
      BY <1>1, <3>1 DEF Messages
    <3> QED
      BY <1>1, <2>2, <3>2
  <2> QED
    BY <2>1, <2>2 DEF BusStep, BusHandlesRequest
<1>5. BusTypeOK'
  BY <1>2, <1>3, <1>4 DEF BusStep, BusHandlesRequest, Inv, TypeOK, BusTypeOK
<1> QED
  BY <1>5, OutsideInv DEF BusStep

\* Announcements are well formed when the name really changes hands.
LEMMA AnnouncedType ==
  ASSUME NEW q \in Seq(Messages), NEW n \in BusNames, NEW old \in Owners, NEW new \in Owners,
         old # new
  PROVE  Announced(q, n, old, new) \in Seq(Messages)
<1>1. [type |-> "NameOwnerChanged", name |-> n, old |-> old, new |-> new] \in Messages
  BY DEF Messages
<1> QED
  BY <1>1 DEF Announced

\* The events outside keep the bus well typed.
LEMMA OutsideStepInv ==
  ASSUME Inv, OutsideStep
  PROVE  Inv'
<1>1. BusTypeOK
  BY DEF Inv, TypeOK
<1>2. ASSUME NEW n \in Names, NEW new \in Owners, OwnerChanges(n, new)
      PROVE  BusTypeOK'
  <2>1. toClient' \in Seq(Messages)
    <3>1. n \in BusNames /\ owner[n] \in Owners /\ owner[n] # new
      BY <1>1, <1>2 DEF BusNames, BusTypeOK, OwnerChanges
    <3> QED
      BY <1>1, <1>2, <3>1, AnnouncedType DEF BusTypeOK, OwnerChanges
  <2>2. owner' \in [Names -> Owners] /\ budget' \in [Events -> Nat]
    BY <1>1, <1>2 DEF BusTypeOK, OwnerChanges, Spend, Events
  <2> QED
    BY <1>1, <1>2, <2>1, <2>2 DEF BusTypeOK, OwnerChanges
<1>3. ASSUME NEW u \in Uniques, UniqueVanishes(u)
      PROVE  BusTypeOK'
  <2>1. toClient' \in Seq(Messages)
    <3>1. u \in BusNames /\ u \in Owners /\ NoOwner \in Owners /\ u # NoOwner
      BY BusAssumption DEF BusNames, Owners
    <3> QED
      BY <1>1, <1>3, <3>1, AnnouncedType DEF BusTypeOK, UniqueVanishes
  <2>2. alive' \in SUBSET Uniques /\ budget' \in [Events -> Nat]
    BY <1>1, <1>3 DEF BusTypeOK, UniqueVanishes, Spend, Events
  <2> QED
    BY <1>1, <1>3, <2>1, <2>2 DEF BusTypeOK, UniqueVanishes
<1>4. ASSUME NEW u \in Uniques, NEW i \in Ifaces, OwnerEmits(u, i)
      PROVE  BusTypeOK'
  <2>1. [type |-> "signal", sender |-> u, iface |-> i,
         owned |-> {n \in Names : owner[n] = u}] \in Messages
    BY DEF Messages
  <2>2. toClient' \in Seq(Messages)
    BY <1>1, <1>4, <2>1 DEF BusTypeOK, OwnerEmits
  <2>3. budget' \in [Events -> Nat]
    BY <1>1, <1>4 DEF BusTypeOK, OwnerEmits, Spend, Events
  <2> QED
    BY <1>1, <1>4, <2>2, <2>3 DEF BusTypeOK, OwnerEmits
<1>5. ASSUME ConnectionLost
      PROVE  BusTypeOK'
  <2>1. [type |-> "Disconnected"] \in Messages
    BY DEF Messages
  <2>2. toBus' \in Seq(Requests) /\ toClient' \in Seq(Messages)
    BY <1>1, <1>5, <2>1 DEF BusTypeOK, ConnectionLost
  <2>3. budget' \in [Events -> Nat]
    BY <1>1, <1>5 DEF BusTypeOK, ConnectionLost, Spend, Events
  <2> QED
    BY <1>1, <1>5, <2>2, <2>3 DEF BusTypeOK, ConnectionLost
<1>6. BusTypeOK'
  BY <1>2, <1>3, <1>4, <1>5 DEF OutsideStep, BusEvent
<1> QED
  BY <1>6, OutsideInv DEF OutsideStep

--------------------------------------------------------------------------------
(* The theorems *)

\* Inv is inductive.
LEMMA StepInv ==
  ASSUME Inv, [Next]_vars
  PROVE  Inv'
<1>1. CASE Dispatch
  <2>1. CASE IgnoreMessage \/ GotNameOwner \/ NameAppears \/ NameMovesOrGoes
    BY <2>1, IgnoreMessageInv, GotNameOwnerInv, NameAppearsInv, NameMovesOrGoesInv
  <2>2. CASE RoutesSignal \/ HandlesDisconnected \/ FilterReturns
    BY <2>2, RoutesSignalInv, HandlesDisconnectedInv, FilterReturnsInv
  <2>3. CASE \E p \in Proxies : EmitsTo(p) \/ Destroys(p)
    BY <2>3, EmitsToInv, DestroysInv
  <2> QED
    BY <1>1, <2>1, <2>2, <2>3 DEF Dispatch
<1>2. CASE CallFails
  BY <1>2, NameCallFailsInv DEF CallFails
<1>3. CASE Application
  <2>1. PICK p \in Proxies :
          \/ New(p) \/ ResolveOwner(p) \/ Dispose(p) \/ SetInterfaceBegins(p)
          \/ \E i \in Ifaces : SetInterfaceEnds(p, i)
    BY <1>3 DEF Application
  <2>2. CASE Dispose(p)
    BY <2>2, UnregistersInv DEF Dispose
  <2> QED
    BY <2>1, <2>2, NewInv, ResolveOwnerInv, SetInterfaceInv
<1>4. CASE BusStep \/ OutsideStep
  BY <1>4, BusStepInv, OutsideStepInv
<1>5. CASE UNCHANGED vars
  <2>1. BusTypeOK'
    BY <1>5 DEF Inv, TypeOK, BusTypeOK, vars, busVars
  <2> QED
    BY <1>5, <2>1, OutsideInv DEF vars
<1> QED
  BY <1>1, <1>2, <1>3, <1>4, <1>5 DEF Next

\* Inv holds in every reachable state.
THEOREM Invariance == Spec => []Inv
<1>1. Init => Inv
  BY InitInv
<1>2. Inv /\ [Next]_vars => Inv'
  BY StepInv
<1> QED
  BY <1>1, <1>2, PTL DEF Spec

\* Every variable keeps its type, whatever the application, the bus and the
\* network do; in particular no count of the manager goes below zero.
THEOREM TypeCorrect == Spec => []TypeOK
<1>1. Inv => TypeOK
  BY DEF Inv
<1> QED
  BY <1>1, Invariance, PTL

\* The manager's reference count is exact: one for each proxy bound to it and
\* one for a filter in a loop, so that it is freed with the last of them and
\* never earlier (dbus_g_proxy_manager_ref, dbus_g_proxy_manager_unref).
THEOREM RefcountCorrect == Spec => []RefcountExact
<1>1. Inv => RefcountExact
  BY DEF Inv
<1> QED
  BY <1>1, Invariance, PTL

--------------------------------------------------------------------------------
(******************************************************************************)
(* What the manager asks of the bus: the match rules it adds and removes, the *)
(* GetNameOwner calls, and the proxies it destroys when a unique name goes.   *)
(* Nothing here depends on Reuse.                                             *)
(*                                                                            *)
(* The steps of ProxyManager are first reduced to a few shapes that say what  *)
(* they do to the queues and tables; an invariant then has one lemma for each *)
(* shape that can disturb it.                                                 *)
(******************************************************************************)
(* The shapes of the steps *)

wire == <<toBus, toClient, owner, alive, rules, connected>>
tables == <<ownerNames, matchRefs, rulesTable, unassociated>>

\* A proxy enters its list: it is new, or it comes back from the first half of
\* set_interface.
Registers(p, i) ==
  /\ status[p] = "moving" \/ (status[p] \in {"unborn", "resolved"} /\ Free /\ MayWatch(p))
  /\ RegisterFault = "none"
  /\ Register(p, i)

\* A proxy leaves its list, for good or for the second half of set_interface.
Leaves(p, st) ==
  /\ Free
  /\ st = "disposed" \/ (st = "moving" /\ MayWatch(p))
  /\ UnregisterFault(p) = "none"
  /\ Unregister(p, st)

\* A message is taken that tells the tables nothing.
Skips ==
  /\ toClient # <<>>
  /\ refcount = 0 \/ Head(toClient).type \notin {"reply", "NameOwnerChanged"}
  /\ toClient' = Tail(toClient)
  /\ UNCHANGED <<toBus, owner, alive, rules, connected, proxyVars, tables>>

\* Nothing that the queues and tables can see.
Rests == UNCHANGED <<wire, proxyVars, tables>>

Shapes ==
  \/ \E p \in Proxies, i \in Ifaces : Registers(p, i)
  \/ \E p \in Proxies, st \in Statuses : Leaves(p, st)
  \/ GotNameOwner
  \/ NameAppears
  \/ NameMovesOrGoes
  \/ Skips
  \/ \E p \in Proxies : NameCallFails(p) \/ ResolveOwner(p)
  \/ BusHandlesRequest /\ UNCHANGED <<proxyVars, tables>>
  \/ BusEvent /\ UNCHANGED <<proxyVars, tables>>
  \/ Rests

\* A process that dies leaves the queues and tables as they were.
LEMMA DiesRests ==
  ASSUME NEW f, Dies(f)
  PROVE  Rests
BY DEF Dies, Rests, wire, tables, busVars, managerVars

\* Disposal, from the application or from a loop of the filter.
LEMMA UnregistersShape ==
  ASSUME NEW p \in Proxies, Free, Unregisters(p)
  PROVE  Shapes
<1>1. CASE Dies(UnregisterFault(p))
  BY <1>1, DiesRests DEF Shapes
<1>2. CASE UnregisterFault(p) = "none" /\ Unregister(p, "disposed")
  <2>1. Leaves(p, "disposed")
    BY <1>2 DEF Leaves
  <2> QED
    BY <2>1 DEF Shapes, Statuses
<1> QED
  BY <1>1, <1>2 DEF Unregisters

\* Every step has one of the shapes.
LEMMA StepShape ==
  ASSUME [Next]_vars
  PROVE  Shapes
<1>1. CASE GotNameOwner \/ NameAppears \/ NameMovesOrGoes
  BY <1>1 DEF Shapes
<1>2. CASE IgnoreMessage \/ RoutesSignal \/ HandlesDisconnected
  <2>1. Skips
    BY <1>2 DEF IgnoreMessage, RoutesSignal, HandlesDisconnected, Dispatching, Skips,
                Ignored, managerVars, tables
  <2> QED
    BY <2>1 DEF Shapes
<1>3. CASE FilterReturns
  <2>1. Rests
    BY <1>3 DEF FilterReturns, Rests, wire, tables, busVars
  <2> QED
    BY <2>1 DEF Shapes
<1>4. ASSUME NEW p \in Proxies, EmitsTo(p) \/ Destroys(p)
      PROVE  Shapes
  <2>1. CASE UNCHANGED <<busVars, managerVars, proxyVars, fault>>
    BY <2>1 DEF Shapes, Rests, wire, tables, busVars, managerVars
  <2>2. CASE Free /\ Unregisters(p)
    BY <2>2, UnregistersShape
  <2> QED
    BY <1>4, <2>1, <2>2 DEF EmitsTo, Destroys
<1>5. ASSUME NEW p \in Proxies, New(p)
      PROVE  Shapes
  <2>1. CASE Dies(RegisterFault)
    BY <2>1, DiesRests DEF Shapes
  <2>2. CASE RegisterFault = "none" /\ Register(p, FirstIface[p])
    <3>1. Registers(p, FirstIface[p])
      BY <1>5, <2>2 DEF New, Registers
    <3> QED
      BY <3>1, ProxyAssumption DEF Shapes
  <2> QED
    BY <1>5, <2>1, <2>2 DEF New
<1>6. ASSUME NEW p \in Proxies, Dispose(p)
      PROVE  Shapes
  BY <1>6, UnregistersShape DEF Dispose
<1>7. ASSUME NEW p \in Proxies, SetInterfaceBegins(p)
      PROVE  Shapes
  <2>1. CASE Dies(UnregisterFault(p))
    BY <2>1, DiesRests DEF Shapes
  <2>2. CASE UnregisterFault(p) = "none" /\ Unregister(p, "moving")
    <3>1. Leaves(p, "moving")
      BY <1>7, <2>2 DEF SetInterfaceBegins, Leaves
    <3> QED
      BY <3>1 DEF Shapes, Statuses
  <2> QED
    BY <1>7, <2>1, <2>2 DEF SetInterfaceBegins
<1>8. ASSUME NEW p \in Proxies, NEW i \in Ifaces, SetInterfaceEnds(p, i)
      PROVE  Shapes
  <2>1. CASE Dies(RegisterFault)
    BY <2>1, DiesRests DEF Shapes
  <2>2. CASE RegisterFault = "none" /\ Register(p, i)
    <3>1. Registers(p, i)
      BY <1>8, <2>2 DEF SetInterfaceEnds, Registers
    <3> QED
      BY <3>1 DEF Shapes
  <2> QED
    BY <1>8, <2>1, <2>2 DEF SetInterfaceEnds
<1>9. CASE BusStep \/ OutsideStep
  BY <1>9 DEF BusStep, OutsideStep, Shapes, managerVars, tables
<1>10. CASE UNCHANGED vars
  BY <1>10 DEF Shapes, Rests, wire, tables, vars, busVars, managerVars
<1>11. CASE CallFails \/ \E p \in Proxies : ResolveOwner(p)
  BY <1>11 DEF CallFails, Shapes
<1> QED
  BY <1>1, <1>2, <1>3, <1>4, <1>5, <1>6, <1>7, <1>8, <1>9, <1>10, <1>11
     DEF Next, Dispatch, Application

--------------------------------------------------------------------------------
(* Queues *)

Asks(q, k) == q[k].type = "GetNameOwner"
Replies(q, k) == q[k].type = "reply"
Adds(q, r, k) == q[k].type = "AddMatch" /\ q[k].rule = r
Drops(q, r, k) == q[k].type = "RemoveMatch" /\ q[k].rule = r
Announces(q, n, k) == q[k].type = "NameOwnerChanged" /\ q[k].name = n

\* A request that is queued on a condition.
Queued(q, c, r) == IF c THEN Append(q, r) ELSE q
Maybe(c, r) == IF c THEN <<r>> ELSE <<>>

\* What the queues hold.
LEMMA QueueTypes ==
  ASSUME Inv
  PROVE  /\ toBus \in Seq(Requests) /\ DOMAIN toBus = 1 .. Len(toBus) /\ Len(toBus) \in Nat
         /\ toClient \in Seq(Messages) /\ DOMAIN toClient = 1 .. Len(toClient)
         /\ Len(toClient) \in Nat
BY DEF Inv, TypeOK, BusTypeOK

\* Cancelling leaves an item alone or makes it one that nobody waits for, and
\* only questions and answers of the cancelled calls suffer this.
LEMMA ForgetItems ==
  ASSUME NEW T, NEW q \in Seq(T), NEW calls
  PROVE  /\ Forget(q, calls) \in Seq(T \union {Ignored})
         /\ Len(Forget(q, calls)) = Len(q)
         /\ \A k \in 1 .. Len(q) :
              /\ Forget(q, calls)[k] = q[k] \/ Forget(q, calls)[k] = Ignored
              /\ (Asks(q, k) \/ Replies(q, k)) /\ q[k].call \in calls
                   => Forget(q, calls)[k] = Ignored
              /\ ~Asks(q, k) /\ ~Replies(q, k) => Forget(q, calls)[k] = q[k]
<1>1. DOMAIN q = 1 .. Len(q) /\ Len(q) \in Nat /\ \A k \in DOMAIN q : q[k] \in T
  OBVIOUS
<1>2. Forget(q, calls) \in [1 .. Len(q) -> T \union {Ignored}]
  BY <1>1 DEF Forget
<1>3. Forget(q, calls) \in Seq(T \union {Ignored}) /\ Len(Forget(q, calls)) = Len(q)
  BY <1>1, <1>2
<1> QED
  BY <1>1, <1>3 DEF Forget, Asks, Replies

\* Sending a request on a condition is queueing it.
LEMMA QueuedSent ==
  ASSUME NEW T, NEW q \in Seq(T), NEW c, NEW r \in T
  PROVE  /\ Maybe(c, r) \in Seq(T)
         /\ q \o Maybe(c, r) = Queued(q, c, r)
<1>1. q \o <<r>> = Append(q, r) /\ <<r>> \in Seq(T)
  OBVIOUS
<1> QED
  BY <1>1 DEF Queued, Maybe

\* What registration queues: the rule of a new list, the rule of a new name, and
\* the question for the owner, in this order.
LEMMA RegisterSends ==
  ASSUME Inv, NEW p \in Proxies, NEW i \in Ifaces, Register(p, i)
  PROVE  LET n == ProxyName[p]
             newList == n # NoName /\ ListOf(n, i) = {}
             one == Queued(toBus, newList, [type |-> "AddMatch", rule |-> SignalRule(n, i)])
             two == Queued(one, newList /\ matchRefs[n] = 0,
                           [type |-> "AddMatch", rule |-> OwnerRule(n)])
             three == Queued(two, nameCall'[p],
                             [type |-> "GetNameOwner", call |-> p, name |-> n])
         IN toBus' = IF connected THEN three ELSE toBus
<1> DEFINE n == ProxyName[p]
           newList == n # NoName /\ ListOf(n, i) = {}
           newName == newList /\ matchRefs[n] = 0
           a == [type |-> "AddMatch", rule |-> SignalRule(n, i)]
           b == [type |-> "AddMatch", rule |-> OwnerRule(n)]
           c == [type |-> "GetNameOwner", call |-> p, name |-> n]
<1>1. toBus' = Sent(toBus, (IF newList THEN <<a>> ELSE <<>>) \o (IF newName THEN <<b>> ELSE <<>>)
                             \o (IF nameCall'[p] THEN <<c>> ELSE <<>>))
  BY DEF Register, Inv, TypeOK
<1>2. toBus \in Seq(Requests)
  BY QueueTypes
<1> DEFINE T == Requests \union {a, b, c}
           r1 == Maybe(newList, a)
           r2 == Maybe(newName, b)
           r3 == Maybe(nameCall'[p], c)
<1> HIDE DEF newList, newName, a, b, c
<1>5. toBus \in Seq(T) /\ a \in T /\ b \in T /\ c \in T
  BY <1>2
<1> HIDE DEF T
<1>6. r1 \in Seq(T) /\ r2 \in Seq(T) /\ r3 \in Seq(T)
  BY <1>5, QueuedSent
<1>7. toBus \o r1 = Queued(toBus, newList, a)
  BY <1>5, QueuedSent
<1>8. \A q \in Seq(T) : q \o r2 = Queued(q, newName, b) /\ q \o r3 = Queued(q, nameCall'[p], c)
  BY <1>5, QueuedSent
<1> HIDE DEF r1, r2, r3
<1>9. toBus \o (r1 \o r2 \o r3)
        = Queued(Queued(Queued(toBus, newList, a), newName, b), nameCall'[p], c)
  <2>1. toBus \o r1 \in Seq(T) /\ toBus \o r1 \o r2 \in Seq(T)
    BY <1>5, <1>6
  <2>2. toBus \o (r1 \o r2 \o r3) = toBus \o r1 \o r2 \o r3
    BY <1>5, <1>6
  <2> QED
    BY <1>7, <1>8, <2>1, <2>2
<1>10. toBus' = Sent(toBus, r1 \o r2 \o r3)
  BY <1>1 DEF r1, r2, r3, Maybe
<1> QED
  BY <1>9, <1>10 DEF Sent, newList, newName, a, b, c

\* What unregistration queues: the rule of an empty list, the rule of a name
\* without lists; its own question and the answer to it are cancelled.
LEMMA UnregisterSends ==
  ASSUME Inv, NEW p \in Proxies, NEW st, Unregister(p, st)
  PROVE  LET n == ProxyName[p]
             cancelled == IF ~ForOwner(p) /\ ~associated[p] /\ nameCall[p] THEN {p} ELSE {}
             left == Forget(toBus, cancelled)
             one == Queued(left, LastOfList(p),
                           [type |-> "RemoveMatch", rule |-> SignalRule(n, iface[p])])
             two == Queued(one, LastOfList(p) /\ n # NoName /\ matchRefs[n] = 1,
                           [type |-> "RemoveMatch", rule |-> OwnerRule(n)])
         IN /\ toBus' = IF connected THEN two ELSE left
            /\ toClient' = Forget(toClient, cancelled)
<1> DEFINE n == ProxyName[p]
           cancelled == IF ~ForOwner(p) /\ ~associated[p] /\ nameCall[p] THEN {p} ELSE {}
           left == Forget(toBus, cancelled)
           last == LastOfList(p)
           lastOfName == last /\ n # NoName /\ matchRefs[n] = 1
           a == [type |-> "RemoveMatch", rule |-> SignalRule(n, iface[p])]
           b == [type |-> "RemoveMatch", rule |-> OwnerRule(n)]
<1>1. /\ toBus' = Sent(left, (IF last THEN <<a>> ELSE <<>>) \o (IF lastOfName THEN <<b>> ELSE <<>>))
      /\ toClient' = Forget(toClient, cancelled)
  BY DEF Unregister
<1>2. left \in Seq(Requests)
  BY QueueTypes, ForgetType
<1> HIDE DEF cancelled, left, last, lastOfName, a, b
<1>3. ASSUME NEW x, NEW y
      PROVE  /\ left \o (<<>> \o <<>>) = left
             /\ left \o (<<x>> \o <<>>) = Append(left, x)
             /\ left \o (<<>> \o <<x>>) = Append(left, x)
             /\ left \o (<<x>> \o <<y>>) = Append(Append(left, x), y)
  BY <1>2
<1>4. toBus' = IF connected THEN Queued(Queued(left, last, a), lastOfName, b) ELSE left
  BY <1>1, <1>3 DEF Sent, Queued
<1> QED
  BY <1>1, <1>4 DEF cancelled, left, last, lastOfName, a, b

--------------------------------------------------------------------------------
(* GetNameOwner calls *)

\* In queues b to the bus and c to the client, with nc the proxies that wait: a
\* question belongs to a waiting proxy and asks for its name, an answer belongs
\* to a waiting proxy, and no proxy has two questions or answers under way.
OneCallIn(b, c, nc) ==
  /\ \A k \in 1 .. Len(b) : Asks(b, k) =>
       /\ nc[b[k].call] /\ b[k].name = ProxyName[b[k].call]
       /\ \A j \in 1 .. Len(b) : Asks(b, j) /\ b[j].call = b[k].call => j = k
       /\ \A j \in 1 .. Len(c) : Replies(c, j) => c[j].call # b[k].call
  /\ \A k \in 1 .. Len(c) : Replies(c, k) =>
       /\ nc[c[k].call]
       /\ \A j \in 1 .. Len(c) : Replies(c, j) /\ c[j].call = c[k].call => j = k

CallsInv ==
  /\ OneCallIn(toBus, toClient, nameCall)
  /\ ~connected => toBus = <<>>
  /\ \A p \in Proxies : nameCall[p] => Tracking(p)

\* The questions of b2 are questions of b, s places further back, of proxies
\* that wait in nc; the same for answers.
FewerAsks(b2, b, s, nc) ==
  /\ Len(b2) \in Nat /\ Len(b) = Len(b2) + s
  /\ \A k \in 1 .. Len(b2) : Asks(b2, k) => b2[k] = b[k + s] /\ nc[b2[k].call]
FewerReplies(c2, c, t, nc) ==
  /\ Len(c2) \in Nat /\ Len(c) = Len(c2) + t
  /\ \A k \in 1 .. Len(c2) : Replies(c2, k) => c2[k] = c[k + t] /\ nc[c2[k].call]

\* Fewer questions and answers, from the heads of the queues or by cancelling.
LEMMA OneCallFewer ==
  ASSUME NEW b, NEW c, NEW nc, OneCallIn(b, c, nc), NEW b2, NEW c2, NEW nc2,
         NEW s \in Nat, NEW t \in Nat, FewerAsks(b2, b, s, nc2), FewerReplies(c2, c, t, nc2)
  PROVE  OneCallIn(b2, c2, nc2)
<1> USE DEF FewerAsks, FewerReplies
<1>1. \A k \in 1 .. Len(b2) : k + s \in 1 .. Len(b)
  OBVIOUS
<1>2. \A k \in 1 .. Len(c2) : k + t \in 1 .. Len(c)
  OBVIOUS
<1>3. ASSUME NEW k \in 1 .. Len(b2), Asks(b2, k)
      PROVE  /\ nc2[b2[k].call] /\ b2[k].name = ProxyName[b2[k].call]
             /\ \A j \in 1 .. Len(b2) : Asks(b2, j) /\ b2[j].call = b2[k].call => j = k
             /\ \A j \in 1 .. Len(c2) : Replies(c2, j) => c2[j].call # b2[k].call
  <2>1. b2[k] = b[k + s] /\ k + s \in 1 .. Len(b) /\ Asks(b, k + s) /\ nc2[b2[k].call]
    BY <1>1, <1>3 DEF Asks
  <2>2. /\ b[k + s].name = ProxyName[b[k + s].call]
        /\ \A j \in 1 .. Len(b) : Asks(b, j) /\ b[j].call = b[k + s].call => j = k + s
        /\ \A j \in 1 .. Len(c) : Replies(c, j) => c[j].call # b[k + s].call
    BY <2>1 DEF OneCallIn
  <2>3. ASSUME NEW j \in 1 .. Len(b2), Asks(b2, j), b2[j].call = b2[k].call
        PROVE  j = k
    <3>1. b2[j] = b[j + s] /\ j + s \in 1 .. Len(b)
      BY <1>1, <2>3
    <3>2. j + s = k + s
      BY <2>1, <2>2, <2>3, <3>1 DEF Asks
    <3> QED
      BY <3>2
  <2>4. ASSUME NEW j \in 1 .. Len(c2), Replies(c2, j)
        PROVE  c2[j].call # b2[k].call
    <3>1. c2[j] = c[j + t] /\ j + t \in 1 .. Len(c) /\ Replies(c, j + t)
      BY <1>2, <2>4 DEF Replies
    <3> QED
      BY <2>1, <2>2, <3>1
  <2> QED
    BY <2>1, <2>2, <2>3, <2>4
<1>4. ASSUME NEW k \in 1 .. Len(c2), Replies(c2, k)
      PROVE  /\ nc2[c2[k].call]
             /\ \A j \in 1 .. Len(c2) : Replies(c2, j) /\ c2[j].call = c2[k].call => j = k
  <2>1. c2[k] = c[k + t] /\ k + t \in 1 .. Len(c) /\ Replies(c, k + t) /\ nc2[c2[k].call]
    BY <1>2, <1>4 DEF Replies
  <2>2. \A j \in 1 .. Len(c) : Replies(c, j) /\ c[j].call = c[k + t].call => j = k + t
    BY <2>1 DEF OneCallIn
  <2>3. ASSUME NEW j \in 1 .. Len(c2), Replies(c2, j), c2[j].call = c2[k].call
        PROVE  j = k
    <3>1. c2[j] = c[j + t] /\ j + t \in 1 .. Len(c)
      BY <1>2, <2>3
    <3>2. j + t = k + t
      BY <2>1, <2>2, <2>3, <3>1 DEF Replies
    <3> QED
      BY <3>2
  <2> QED
    BY <2>1, <2>3
<1> QED
  BY <1>3, <1>4 DEF OneCallIn

\* A match rule is queued.
LEMMA OneCallRule ==
  ASSUME NEW T, NEW b \in Seq(T), NEW c, NEW nc, OneCallIn(b, c, nc),
         NEW on, NEW r \in T, r.type # "GetNameOwner"
  PROVE  OneCallIn(Queued(b, on, r), c, nc)
<1>1. CASE on
  <2>1. /\ Len(Append(b, r)) = Len(b) + 1 /\ Len(b) \in Nat
        /\ \A k \in 1 .. Len(b) : Append(b, r)[k] = b[k]
        /\ Append(b, r)[Len(b) + 1] = r
    OBVIOUS
  <2> DEFINE d == Append(b, r)
  <2>2. Queued(b, on, r) = d
    BY <1>1 DEF Queued
  <2> HIDE DEF d
  <2>3. \A k \in 1 .. Len(d) : Asks(d, k) => k \in 1 .. Len(b) /\ d[k] = b[k]
    BY <2>1 DEF Asks, d
  <2>4. OneCallIn(d, c, nc)
    BY <2>3 DEF OneCallIn, Asks
  <2> QED
    BY <2>2, <2>4
<1>2. CASE ~on
  BY <1>2 DEF Queued
<1> QED
  BY <1>1, <1>2

\* A proxy that did not wait asks for the owner of its name.
LEMMA OneCallAsks ==
  ASSUME Inv, NEW b \in Seq(Requests), NEW c \in Seq(Messages),
         NEW nc \in [Proxies -> BOOLEAN], OneCallIn(b, c, nc),
         NEW p \in Proxies, ~nc[p]
  PROVE  OneCallIn(Append(b, [type |-> "GetNameOwner", call |-> p, name |-> ProxyName[p]]),
                   c, [nc EXCEPT ![p] = TRUE])
<1> DEFINE r == [type |-> "GetNameOwner", call |-> p, name |-> ProxyName[p]]
           d == Append(b, r)
           nc2 == [nc EXCEPT ![p] = TRUE]
<1>1. /\ Len(d) = Len(b) + 1 /\ Len(b) \in Nat
      /\ \A k \in 1 .. Len(b) : d[k] = b[k]
      /\ d[Len(b) + 1] = r
  OBVIOUS
<1>2. r.type = "GetNameOwner" /\ r.call = p /\ r.name = ProxyName[p]
  OBVIOUS
<1>3. \A k \in 1 .. Len(b) : Asks(b, k) => b[k].call # p /\ b[k].call \in Proxies
  <2>1. \A k \in 1 .. Len(b) : b[k] \in Requests
    OBVIOUS
  <2> QED
    BY <2>1 DEF OneCallIn, Asks, Requests, Ignored
<1>4. \A k \in 1 .. Len(c) : Replies(c, k) => c[k].call # p /\ c[k].call \in Proxies
  <2>1. \A k \in 1 .. Len(c) : c[k] \in Messages
    OBVIOUS
  <2> QED
    BY <2>1 DEF OneCallIn, Replies, Messages, Ignored
<1>5. nc2[p] /\ \A q \in Proxies : q # p => nc2[q] = nc[q]
  OBVIOUS
<1>6. \A k \in 1 .. Len(d) : k \in 1 .. Len(b) \/ k = Len(b) + 1
  BY <1>1
<1> HIDE DEF r, d, nc2
<1>7. ASSUME NEW k \in 1 .. Len(d), Asks(d, k)
      PROVE  /\ nc2[d[k].call] /\ d[k].name = ProxyName[d[k].call]
             /\ \A j \in 1 .. Len(d) : Asks(d, j) /\ d[j].call = d[k].call => j = k
             /\ \A j \in 1 .. Len(c) : Replies(c, j) => c[j].call # d[k].call
  <2>1. CASE k = Len(b) + 1
    BY <1>1, <1>2, <1>3, <1>4, <1>5, <1>6, <2>1 DEF Asks
  <2>2. CASE k \in 1 .. Len(b)
    <3>1. d[k] = b[k] /\ Asks(b, k) /\ b[k].call # p /\ b[k].call \in Proxies
      BY <1>1, <1>3, <1>7, <2>2 DEF Asks
    <3>2. \A j \in 1 .. Len(d) : Asks(d, j) /\ d[j].call = d[k].call => j \in 1 .. Len(b)
      BY <1>1, <1>2, <1>6, <3>1
    <3> QED
      BY <1>1, <1>5, <2>2, <3>1, <3>2 DEF OneCallIn, Asks
  <2> QED
    BY <1>6, <2>1, <2>2
<1>8. ASSUME NEW k \in 1 .. Len(c), Replies(c, k)
      PROVE  /\ nc2[c[k].call]
             /\ \A j \in 1 .. Len(c) : Replies(c, j) /\ c[j].call = c[k].call => j = k
  BY <1>4, <1>5, <1>8 DEF OneCallIn
<1>9. OneCallIn(d, c, nc2)
  BY <1>7, <1>8 DEF OneCallIn
<1> QED
  BY <1>9 DEF d, r, nc2

\* The bus answers the oldest question; the answer takes its place.
LEMMA OneCallAnswered ==
  ASSUME NEW T, NEW b \in Seq(T), NEW M, NEW c \in Seq(M), NEW nc, OneCallIn(b, c, nc),
         b # <<>>, Asks(b, 1), NEW m \in M, m.type = "reply", m.call = b[1].call
  PROVE  OneCallIn(Tail(b), Append(c, m), nc)
<1> DEFINE b2 == Tail(b)
           c2 == Append(c, m)
<1>1. /\ Len(b) = Len(b2) + 1 /\ Len(b2) \in Nat /\ Len(c) \in Nat /\ Len(c2) = Len(c) + 1
      /\ \A k \in 1 .. Len(b2) : b2[k] = b[k + 1] /\ k + 1 \in 1 .. Len(b)
      /\ \A k \in 1 .. Len(c) : c2[k] = c[k]
      /\ c2[Len(c) + 1] = m
      /\ 1 \in 1 .. Len(b)
  OBVIOUS
<1>2. \A k \in 1 .. Len(c2) : k \in 1 .. Len(c) \/ k = Len(c) + 1
  BY <1>1
<1> HIDE DEF b2, c2
<1>3. ASSUME NEW k \in 1 .. Len(b2), Asks(b2, k)
      PROVE  /\ nc[b2[k].call] /\ b2[k].name = ProxyName[b2[k].call]
             /\ \A j \in 1 .. Len(b2) : Asks(b2, j) /\ b2[j].call = b2[k].call => j = k
             /\ \A j \in 1 .. Len(c2) : Replies(c2, j) => c2[j].call # b2[k].call
  <2>1. Asks(b, k + 1) /\ b2[k] = b[k + 1] /\ k + 1 \in 1 .. Len(b)
    BY <1>1, <1>3 DEF Asks
  <2>2. ASSUME NEW j \in 1 .. Len(b2), Asks(b2, j), b2[j].call = b2[k].call
        PROVE  j = k
    <3>1. Asks(b, j + 1) /\ b[j + 1].call = b[k + 1].call /\ j + 1 \in 1 .. Len(b)
      BY <1>1, <2>1, <2>2 DEF Asks
    <3>2. j + 1 = k + 1
      BY <2>1, <3>1 DEF OneCallIn
    <3> QED
      BY <3>2
  <2>3. b[1].call # b[k + 1].call
    BY <1>1, <2>1 DEF OneCallIn
  <2> QED
    BY <1>1, <1>2, <2>1, <2>2, <2>3 DEF OneCallIn, Replies
<1>4. ASSUME NEW k \in 1 .. Len(c2), Replies(c2, k)
      PROVE  /\ nc[c2[k].call]
             /\ \A j \in 1 .. Len(c2) : Replies(c2, j) /\ c2[j].call = c2[k].call => j = k
  <2>1. nc[m.call] /\ \A j \in 1 .. Len(c) : Replies(c, j) => c[j].call # m.call
    BY <1>1 DEF OneCallIn
  <2>2. CASE k = Len(c) + 1
    BY <1>1, <1>2, <2>1, <2>2 DEF Replies
  <2>3. CASE k \in 1 .. Len(c)
    <3>1. c2[k] = c[k] /\ Replies(c, k) /\ c[k].call # m.call /\ nc[c[k].call]
      BY <1>1, <1>4, <2>1, <2>3 DEF OneCallIn, Replies
    <3>2. \A j \in 1 .. Len(c) : Replies(c, j) /\ c[j].call = c[k].call => j = k
      BY <2>3, <3>1 DEF OneCallIn
    <3> QED
      BY <1>1, <1>2, <3>1, <3>2 DEF Replies
  <2> QED
    BY <1>2, <2>2, <2>3
<1> QED
  BY <1>3, <1>4 DEF OneCallIn, b2, c2

\* A queue with one more request of the right type.
LEMMA QueuedType ==
  ASSUME NEW q \in Seq(Requests), NEW on, NEW r, on => r \in Requests
  PROVE  Queued(q, on, r) \in Seq(Requests)
BY DEF Queued

\* Registration: only a proxy without a question under way asks.
LEMMA RegistersCalls ==
  ASSUME Inv, CallsInv, NEW p \in Proxies, NEW i \in Ifaces, Registers(p, i)
  PROVE  CallsInv'
<1> DEFINE n == ProxyName[p]
           newList == n # NoName /\ ListOf(n, i) = {}
           newName == newList /\ matchRefs[n] = 0
           a == [type |-> "AddMatch", rule |-> SignalRule(n, i)]
           b == [type |-> "AddMatch", rule |-> OwnerRule(n)]
           c == [type |-> "GetNameOwner", call |-> p, name |-> n]
           two == Queued(Queued(toBus, newList, a), newName, b)
<1>1. Register(p, i) /\ p \notin Listed
  BY DEF Registers, Listed
<1>2. /\ status' = [status EXCEPT ![p] = "registered"]
      /\ nameCall' = [nameCall EXCEPT ![p] = nameCall'[p]]
      /\ nameCall'[p] \in BOOLEAN
      /\ nameCall'[p] => ~ForOwner(p) /\ connected
      /\ UNCHANGED <<toClient, connected>>
  BY <1>1 DEF Register, Inv, TypeOK, BusTypeOK
<1>3. nameCall \in [Proxies -> BOOLEAN] /\ ~nameCall[p]
  BY <1>1 DEF Inv, TypeOK, CallsInv, Tracking
<1>4. toBus' = IF connected THEN Queued(two, nameCall'[p], c) ELSE toBus
  BY <1>1, RegisterSends
<1>5. two \in Seq(Requests) /\ OneCallIn(two, toClient, nameCall)
  <2>1. n \in BusNames \union {NoName}
    BY ProxyAssumption
  <2>2. a \in Requests /\ (newName => b \in Requests)
    BY <2>1, RequestTypes
  <2>3. a.type # "GetNameOwner" /\ b.type # "GetNameOwner"
    OBVIOUS
  <2> DEFINE one == Queued(toBus, newList, a)
             T == Requests \union {b}
  <2> HIDE DEF a, b, newList, newName
  <2>4. one \in Seq(Requests) /\ OneCallIn(one, toClient, nameCall)
    BY <2>2, <2>3, QueueTypes, QueuedType, OneCallRule DEF CallsInv
  <2>5. two \in Seq(Requests)
    BY <2>2, <2>4, QueuedType
  <2>6. one \in Seq(T) /\ b \in T
    BY <2>4
  <2> HIDE DEF one, T
  <2>7. OneCallIn(Queued(one, newName, b), toClient, nameCall)
    BY <2>3, <2>4, <2>6, OneCallRule
  <2> QED
    BY <2>5, <2>7 DEF one
<1> HIDE DEF two
<1>6. OneCallIn(toBus, toClient, nameCall)'
  <2>1. CASE nameCall'[p]
    <3>1. toBus' = Append(two, c) /\ nameCall' = [nameCall EXCEPT ![p] = TRUE]
      BY <1>2, <1>4, <2>1 DEF Queued
    <3>2. OneCallIn(Append(two, c), toClient, [nameCall EXCEPT ![p] = TRUE])
      BY <1>3, <1>5, QueueTypes, OneCallAsks
    <3>3. OneCallIn(toBus', toClient', nameCall')
      BY <1>2, <3>1, <3>2
    <3> QED
      BY <3>3
  <2>2. CASE ~nameCall'[p]
    <3>1. nameCall' = nameCall
      BY <1>2, <1>3, <2>2
    <3>2. toBus' = two \/ toBus' = toBus
      BY <1>4, <2>2 DEF Queued
    <3>3. OneCallIn(toBus', toClient', nameCall')
      BY <1>2, <1>5, <3>1, <3>2 DEF CallsInv
    <3> QED
      BY <3>3
  <2> QED
    BY <2>1, <2>2
<1>7. ~connected' => toBus' = <<>>
  BY <1>2, <1>4 DEF CallsInv
<1>8. \A q \in Proxies : nameCall'[q] => Tracking(q)'
  BY <1>2, <1>3 DEF CallsInv, Tracking, Listed, ForOwner, Inv, TypeOK
<1> QED
  BY <1>6, <1>7, <1>8 DEF CallsInv

\* Calls are cancelled whose proxies wait no longer.
LEMMA OneCallForget ==
  ASSUME NEW b \in Seq(Requests), NEW c \in Seq(Messages), NEW nc, OneCallIn(b, c, nc),
         NEW calls, NEW nc2, \A q \in Proxies : nc[q] /\ q \notin calls => nc2[q]
  PROVE  OneCallIn(Forget(b, calls), Forget(c, calls), nc2)
<1> DEFINE b2 == Forget(b, calls)
           c2 == Forget(c, calls)
<1>1. /\ Len(b2) = Len(b) /\ Len(c2) = Len(c)
      /\ \A k \in 1 .. Len(b) : b2[k] = b[k] \/ b2[k] = Ignored
      /\ \A k \in 1 .. Len(c) : c2[k] = c[k] \/ c2[k] = Ignored
  BY ForgetItems
<1>2. /\ \A k \in 1 .. Len(b) : Asks(b, k) /\ b[k].call \in calls => b2[k] = Ignored
      /\ \A k \in 1 .. Len(c) : Replies(c, k) /\ c[k].call \in calls => c2[k] = Ignored
  BY ForgetItems
<1>8. Len(b) \in Nat /\ Len(c) \in Nat
  OBVIOUS
<1> HIDE DEF b2, c2
<1>3. Ignored.type = "ignored"
  BY DEF Ignored
<1>4. ASSUME NEW k \in 1 .. Len(b2), Asks(b2, k)
      PROVE  b2[k] = b[k + 0] /\ nc2[b2[k].call]
  <2>1. b2[k] = b[k] /\ Asks(b, k) /\ b[k].call \notin calls
    BY <1>1, <1>2, <1>3, <1>4 DEF Asks
  <2>2. b[k] \in Requests /\ k \in 1 .. Len(b)
    BY <1>1
  <2>3. b[k].call \in Proxies
    BY <2>1, <2>2 DEF Asks, Requests, Ignored
  <2>4. nc[b[k].call]
    BY <2>1, <2>2 DEF OneCallIn
  <2> QED
    BY <2>1, <2>3, <2>4
<1>5. ASSUME NEW k \in 1 .. Len(c2), Replies(c2, k)
      PROVE  c2[k] = c[k + 0] /\ nc2[c2[k].call]
  <2>1. c2[k] = c[k] /\ Replies(c, k) /\ c[k].call \notin calls
    BY <1>1, <1>2, <1>3, <1>5 DEF Replies
  <2>2. c[k] \in Messages /\ k \in 1 .. Len(c)
    BY <1>1
  <2>3. c[k].call \in Proxies
    BY <2>1, <2>2 DEF Replies, Messages, Ignored
  <2>4. nc[c[k].call]
    BY <2>1, <2>2 DEF OneCallIn
  <2> QED
    BY <2>1, <2>3, <2>4
<1>6. Len(b) = Len(b2) + 0 /\ Len(c) = Len(c2) + 0
  BY <1>1, <1>8
<1>7. OneCallIn(b2, c2, nc2)
  <2>1. FewerAsks(b2, b, 0, nc2) /\ FewerReplies(c2, c, 0, nc2)
    BY <1>1, <1>4, <1>5, <1>6, <1>8 DEF FewerAsks, FewerReplies
  <2> QED
    BY <2>1, OneCallFewer
<1> QED
  BY <1>7 DEF b2, c2

\* Unregistration: the proxy's own question or answer is cancelled.
LEMMA LeavesCalls ==
  ASSUME Inv, CallsInv, NEW p \in Proxies, NEW st \in Statuses, Leaves(p, st)
  PROVE  CallsInv'
<1> DEFINE n == ProxyName[p]
           cancelled == IF ~ForOwner(p) /\ ~associated[p] /\ nameCall[p] THEN {p} ELSE {}
           left == Forget(toBus, cancelled)
           a == [type |-> "RemoveMatch", rule |-> SignalRule(n, iface[p])]
           b == [type |-> "RemoveMatch", rule |-> OwnerRule(n)]
           last == LastOfList(p)
           lastOfName == last /\ n # NoName /\ matchRefs[n] = 1
           one == Queued(left, last, a)
           two == Queued(one, lastOfName, b)
<1>1. Unregister(p, st) /\ UnregisterFault(p) = "none" /\ p \in Listed
      /\ st \notin {"registered"}
  BY DEF Leaves, UnregisterFault, Listed
<1>2. /\ toBus' = IF connected THEN two ELSE left
      /\ toClient' = Forget(toClient, cancelled)
  BY <1>1, UnregisterSends
<1>3. /\ nameCall' = [q \in Proxies |-> nameCall[q] /\ q # p]
      /\ \A q \in Proxies : nameCall[q] /\ q \notin cancelled => nameCall'[q]
  <2>1. nameCall \in [Proxies -> BOOLEAN]
    BY DEF Inv, TypeOK
  <2>2. nameCall[p] => ~ForOwner(p) /\ ~associated[p]
    BY <1>1 DEF CallsInv, Tracking, UnregisterFault
  <2>3. nameCall' = IF nameCall[p] THEN [nameCall EXCEPT ![p] = FALSE] ELSE nameCall
    BY <1>1, <2>1, <2>2 DEF Unregister, StopsTracking
  <2> QED
    BY <2>1, <2>2, <2>3
<1>4. left \in Seq(Requests) /\ OneCallIn(left, toClient', nameCall')
  BY <1>2, <1>3, QueueTypes, ForgetType, OneCallForget DEF CallsInv
<1>5. OneCallIn(two, toClient', nameCall')
  <2>3. a.type # "GetNameOwner" /\ b.type # "GetNameOwner"
    OBVIOUS
  <2> DEFINE T == Requests \union {a, b}
  <2> HIDE DEF a, b, last, lastOfName, left
  <2>4. left \in Seq(T) /\ a \in T /\ b \in T
    BY <1>4
  <2> HIDE DEF T
  <2>5. OneCallIn(one, toClient', nameCall')
    BY <1>4, <2>3, <2>4, OneCallRule
  <2>6. one \in Seq(T)
    BY <2>4 DEF Queued
  <2> HIDE DEF one
  <2> QED
    BY <2>3, <2>4, <2>5, <2>6, OneCallRule
<1> HIDE DEF left, two
<1>6. OneCallIn(toBus, toClient, nameCall)'
  BY <1>2, <1>4, <1>5
<1>7. ~connected' => toBus' = <<>>
  <2>1. connected' = connected
    BY <1>1 DEF Unregister
  <2>2. toBus = <<>> => left = <<>>
    <3>1. Len(left) = Len(toBus) /\ left \in Seq(Requests)
      BY <1>4, QueueTypes, ForgetItems DEF left
    <3> QED
      BY <3>1
  <2> QED
    BY <1>2, <2>1, <2>2 DEF CallsInv
<1>8. \A q \in Proxies : nameCall'[q] => Tracking(q)'
  <2>1. \A q \in Proxies : q # p => (q \in Listed => q \in Listed')
    BY <1>1 DEF Unregister, Listed, Inv, TypeOK
  <2> QED
    BY <1>3, <2>1 DEF CallsInv, Tracking, ForOwner
<1> QED
  BY <1>6, <1>7, <1>8 DEF CallsInv

\* A message is taken: its proxy, if it was an answer, waits no longer.
LEMMA OneCallTaken ==
  ASSUME NEW b \in Seq(Requests), NEW c \in Seq(Messages), NEW nc, OneCallIn(b, c, nc),
         c # <<>>, NEW nc2,
         \A q \in Proxies : nc[q] /\ (Replies(c, 1) => q # c[1].call) => nc2[q]
  PROVE  OneCallIn(b, Tail(c), nc2)
<1> DEFINE c2 == Tail(c)
<1>1. /\ Len(c) = Len(c2) + 1 /\ Len(c2) \in Nat /\ Len(b) = Len(b) + 0 /\ Len(b) \in Nat
      /\ \A k \in 1 .. Len(c2) : c2[k] = c[k + 1] /\ k + 1 \in 1 .. Len(c)
      /\ 1 \in 1 .. Len(c)
  OBVIOUS
<1>2. ASSUME NEW k \in 1 .. Len(b), Asks(b, k)
      PROVE  b[k] = b[k + 0] /\ nc2[b[k].call]
  <2>1. b[k] \in Requests
    OBVIOUS
  <2>2. nc[b[k].call] /\ b[k].call \in Proxies
    BY <1>2, <2>1 DEF OneCallIn, Asks, Requests, Ignored
  <2>3. Replies(c, 1) => b[k].call # c[1].call
    BY <1>1, <1>2 DEF OneCallIn
  <2> QED
    BY <2>2, <2>3
<1>3. ASSUME NEW k \in 1 .. Len(c2), Replies(c2, k)
      PROVE  c2[k] = c[k + 1] /\ nc2[c2[k].call]
  <2>1. c2[k] = c[k + 1] /\ Replies(c, k + 1) /\ k + 1 \in 1 .. Len(c) /\ k + 1 # 1
    BY <1>1, <1>3 DEF Replies
  <2>2. c[k + 1] \in Messages
    BY <2>1
  <2>3. nc[c[k + 1].call] /\ c[k + 1].call \in Proxies
    BY <2>1, <2>2 DEF OneCallIn, Replies, Messages, Ignored
  <2>4. Replies(c, 1) => c[k + 1].call # c[1].call
    BY <1>1, <2>1 DEF OneCallIn
  <2> QED
    BY <2>1, <2>3, <2>4
<1> HIDE DEF c2
<1>4. OneCallIn(b, c2, nc2)
  <2>1. FewerAsks(b, b, 0, nc2)
    BY <1>1, <1>2 DEF FewerAsks
  <2>2. FewerReplies(c2, c, 1, nc2)
    BY <1>1, <1>3 DEF FewerReplies
  <2> QED
    BY <2>1, <2>2, OneCallFewer
<1> QED
  BY <1>4 DEF c2

\* Messages taken from the queue: answers, announcements and the rest.
LEMMA TakenCalls ==
  ASSUME Inv, CallsInv, GotNameOwner \/ NameAppears \/ NameMovesOrGoes \/ Skips
  PROVE  CallsInv'
<1>1. toClient # <<>> /\ toBus \in Seq(Requests) /\ toClient \in Seq(Messages)
      /\ nameCall \in [Proxies -> BOOLEAN] /\ Head(toClient) = toClient[1]
      /\ Tail(toClient) \in Seq(Messages)
      /\ OneCallIn(toBus, toClient, nameCall)
  BY QueueTypes DEF GotNameOwner, NameAppears, NameMovesOrGoes, Skips, Dispatching,
                    Inv, TypeOK, CallsInv
<1>2. UNCHANGED <<status, connected>>
  BY DEF GotNameOwner, NameAppears, NameMovesOrGoes, Skips, proxyVars
<1>3. \A p : Tracking(p)' = Tracking(p)
  BY <1>2 DEF Tracking, Listed, ForOwner
<1>4. CASE GotNameOwner
  <2>1. UNCHANGED toBus /\ toClient' = Tail(toClient) /\ Replies(toClient, 1)
        /\ nameCall' = [nameCall EXCEPT ![toClient[1].call] = FALSE]
    BY <1>1, <1>4 DEF GotNameOwner, Replies
  <2>2. OneCallIn(toBus, Tail(toClient), nameCall')
    BY <1>1, <2>1, OneCallTaken
  <2>3. OneCallIn(toBus', toClient', nameCall')
    BY <2>1, <2>2
  <2>4. \A p \in Proxies : nameCall'[p] => nameCall[p]
    BY <1>1, <2>1
  <2> QED
    BY <1>2, <1>3, <2>1, <2>3, <2>4 DEF CallsInv
<1>5. CASE NameAppears
  <2>1. UNCHANGED <<toBus, nameCall>> /\ toClient' = Tail(toClient) /\ ~Replies(toClient, 1)
    BY <1>1, <1>5 DEF NameAppears, Replies
  <2>2. OneCallIn(toBus, Tail(toClient), nameCall)
    BY <1>1, <2>1, OneCallTaken
  <2>3. OneCallIn(toBus', toClient', nameCall')
    BY <2>1, <2>2
  <2> QED
    BY <1>2, <1>3, <2>1, <2>3 DEF CallsInv
<1>6. CASE NameMovesOrGoes
  <2> DEFINE m == Head(toClient)
             gone == IF m.new = NoOwner THEN BoundTo(m.name) ELSE {}
             left == {p \in gone : ~ForOwner(p)}
  <2>1. /\ toBus' = Forget(toBus, Calling(left))
        /\ toClient' = Forget(Tail(toClient), Calling(left))
        /\ nameCall' = [p \in Proxies |-> nameCall[p] /\ p \notin Calling(left)]
        /\ ~Replies(toClient, 1)
    BY <1>1, <1>6 DEF NameMovesOrGoes, Replies
  <2> HIDE DEF left
  <2>2. OneCallIn(toBus, Tail(toClient), nameCall)
    BY <1>1, <2>1, OneCallTaken
  <2>3. \A q \in Proxies : nameCall[q] /\ q \notin Calling(left) => nameCall'[q]
    BY <2>1
  <2>4. OneCallIn(Forget(toBus, Calling(left)), Forget(Tail(toClient), Calling(left)), nameCall')
    BY <1>1, <2>2, <2>3, OneCallForget
  <2>5. OneCallIn(toBus', toClient', nameCall')
    BY <2>1, <2>4
  <2>6. toBus = <<>> => toBus' = <<>>
    <3>1. Len(toBus') = Len(toBus) /\ toBus' \in Seq(Requests \union {Ignored})
      BY <1>1, <2>1, ForgetItems
    <3> QED
      BY <3>1
  <2> QED
    BY <1>2, <1>3, <2>1, <2>5, <2>6 DEF CallsInv
<1>7. CASE Skips
  <2>1. UNCHANGED <<toBus, nameCall>> /\ toClient' = Tail(toClient)
    BY <1>7 DEF Skips, proxyVars
  <2>2. Replies(toClient, 1) => ~nameCall[toClient[1].call]
    <3>1. SUFFICES ASSUME Replies(toClient, 1), nameCall[toClient[1].call] PROVE FALSE
      OBVIOUS
    <3>2. refcount = 0
      BY <1>1, <1>7, <3>1 DEF Skips, Replies
    <3>3. toClient[1] \in Messages
      BY <1>1
    <3>4. toClient[1].call \in Holders
      BY <3>1, <3>3 DEF CallsInv, Tracking, Listed, Holders, Replies, Messages, Ignored
    <3>5. Cardinality(Holders) # 0
      <4>1. IsFiniteSet(Holders)
        BY BusAssumption, FS_Subset DEF Holders
      <4> QED
        BY <3>4, <4>1, FS_EmptySet
    <3> QED
      BY <3>2, <3>5, HoldersType DEF Inv, RefcountExact
  <2>3. OneCallIn(toBus, Tail(toClient), nameCall)
    BY <1>1, <2>2, OneCallTaken
  <2>4. OneCallIn(toBus', toClient', nameCall')
    BY <2>1, <2>3
  <2> QED
    BY <1>2, <1>3, <2>1, <2>4 DEF CallsInv
<1> QED
  BY <1>4, <1>5, <1>6, <1>7

\* A message that is no answer is received.
LEMMA OneCallOther ==
  ASSUME NEW b, NEW T, NEW c \in Seq(T), NEW nc, OneCallIn(b, c, nc),
         NEW m \in T, m.type # "reply"
  PROVE  OneCallIn(b, Append(c, m), nc)
<1> DEFINE d == Append(c, m)
<1>1. /\ Len(d) = Len(c) + 1 /\ Len(c) \in Nat
      /\ \A k \in 1 .. Len(c) : d[k] = c[k]
      /\ d[Len(c) + 1] = m
  OBVIOUS
<1> HIDE DEF d
<1>2. \A k \in 1 .. Len(d) : Replies(d, k) => k \in 1 .. Len(c) /\ d[k] = c[k] /\ Replies(c, k)
  <2> SUFFICES ASSUME NEW k \in 1 .. Len(d), Replies(d, k)
               PROVE  k \in 1 .. Len(c) /\ d[k] = c[k] /\ Replies(c, k)
    OBVIOUS
  <2>1. k # Len(c) + 1
    BY <1>1 DEF Replies
  <2> QED
    BY <1>1, <2>1 DEF Replies
<1>3. OneCallIn(b, d, nc)
  BY <1>1, <1>2 DEF OneCallIn
<1> QED
  BY <1>3 DEF d

\* A call that fails is forgotten where its question still waits.
LEMMA FailsCalls ==
  ASSUME Inv, CallsInv, NEW p \in Proxies, NameCallFails(p)
  PROVE  CallsInv'
<1>1. toBus \in Seq(Requests) /\ toClient \in Seq(Messages) /\ DOMAIN toClient = 1 .. Len(toClient)
      /\ OneCallIn(toBus, toClient, nameCall)
      /\ nameCall \in [Proxies -> BOOLEAN]
  BY QueueTypes DEF Inv, TypeOK, CallsInv
<1>2. /\ UNCHANGED <<toClient, connected, status>>
      /\ nameCall' = [nameCall EXCEPT ![p] = FALSE]
      /\ toBus' = Forget(toBus, {p})
  BY DEF NameCallFails
<1>3. Forget(toClient, {p}) = toClient
  <2>1. \A k \in DOMAIN toClient : toClient[k].type = "reply" => toClient[k].call # p
    BY DEF NameCallFails
  <2>2. \A k \in DOMAIN toClient : toClient[k].type # "GetNameOwner"
    <3>1. \A k \in DOMAIN toClient : toClient[k] \in Messages
      BY <1>1
    <3> QED
      BY <3>1 DEF Messages, Ignored
  <2>3. Forget(toClient, {p}) = [k \in DOMAIN toClient |-> toClient[k]]
    BY <2>1, <2>2 DEF Forget
  <2> QED
    BY <1>1, <2>3
<1>4. \A q \in Proxies : nameCall[q] /\ q \notin {p} => nameCall'[q]
  BY <1>1, <1>2
<1>5. OneCallIn(Forget(toBus, {p}), Forget(toClient, {p}), nameCall')
  BY <1>1, <1>4, OneCallForget
<1>6. OneCallIn(toBus, toClient, nameCall)'
  BY <1>2, <1>3, <1>5
<1>7. toBus = <<>> => toBus' = <<>>
  <2>1. Len(toBus') = Len(toBus) /\ toBus' \in Seq(Requests \union {Ignored})
    BY <1>1, <1>2, ForgetItems
  <2> QED
    BY <2>1
<1>8. \A q \in Proxies : nameCall'[q] => Tracking(q)'
  BY <1>1, <1>2 DEF CallsInv, Tracking, Listed, ForOwner
<1> QED
  BY <1>2, <1>6, <1>7, <1>8 DEF CallsInv

\* The bus processes a request; answers take the places of their questions.
LEMMA BusCalls ==
  ASSUME Inv, CallsInv, BusHandlesRequest, UNCHANGED <<proxyVars, tables>>
  PROVE  CallsInv'
<1> DEFINE req == Head(toBus)
<1>1. /\ toBus \in Seq(Requests) /\ toBus # <<>> /\ req = toBus[1] /\ req \in Requests
      /\ toClient \in Seq(Messages)
      /\ OneCallIn(toBus, toClient, nameCall) /\ connected
      /\ toBus' = Tail(toBus)
  BY QueueTypes DEF BusHandlesRequest, CallsInv
<1>2. UNCHANGED <<status, nameCall, connected>>
  BY DEF BusHandlesRequest, proxyVars
<1>3. OneCallIn(Tail(toBus), toClient', nameCall)
  <2>1. CASE req.type = "GetNameOwner"
    <3> DEFINE m == [type |-> "reply", call |-> req.call, owner |-> owner[req.name]]
               M == Messages \union {m}
    <3>1. toClient' = Append(toClient, m)
      BY <2>1 DEF BusHandlesRequest
    <3>2. m.type = "reply" /\ m.call = toBus[1].call /\ Asks(toBus, 1)
      BY <1>1, <2>1 DEF Asks
    <3>3. toClient \in Seq(M) /\ m \in M
      BY <1>1
    <3> HIDE DEF m, M
    <3>4. OneCallIn(Tail(toBus), Append(toClient, m), nameCall)
      BY <1>1, <3>2, <3>3, OneCallAnswered
    <3> QED
      BY <3>1, <3>4
  <2>2. CASE req.type # "GetNameOwner"
    <3>1. toClient' = toClient
      BY <2>2 DEF BusHandlesRequest
    <3> DEFINE b2 == Tail(toBus)
    <3>2. /\ Len(toBus) = Len(b2) + 1 /\ Len(b2) \in Nat
          /\ \A k \in 1 .. Len(b2) : b2[k] = toBus[k + 1] /\ k + 1 \in 1 .. Len(toBus)
      BY <1>1
    <3> HIDE DEF b2
    <3>3. FewerAsks(b2, toBus, 1, nameCall)
      BY <1>1, <3>2 DEF FewerAsks, OneCallIn, Asks
    <3>4. FewerReplies(toClient, toClient, 0, nameCall)
      BY <1>1 DEF FewerReplies, OneCallIn
    <3>5. OneCallIn(b2, toClient, nameCall)
      BY <1>1, <3>3, <3>4, OneCallFewer
    <3> QED
      BY <3>1, <3>5 DEF b2
  <2> QED
    BY <2>1, <2>2
<1>4. OneCallIn(toBus, toClient, nameCall)'
  BY <1>1, <1>2, <1>3
<1> QED
  BY <1>1, <1>2, <1>4 DEF CallsInv, Tracking, Listed, ForOwner

\* What happens outside makes no answers.
LEMMA EventCalls ==
  ASSUME Inv, CallsInv, BusEvent, UNCHANGED <<proxyVars, tables>>
  PROVE  CallsInv'
<1>1. toClient \in Seq(Messages) /\ OneCallIn(toBus, toClient, nameCall)
  BY QueueTypes DEF CallsInv
<1>2. \/ toClient' = toClient
      \/ \E m : m.type # "reply" /\ toClient' = Append(toClient, m)
  BY DEF BusEvent, OwnerChanges, UniqueVanishes, OwnerEmits, ConnectionLost, Announced
<1>3. UNCHANGED <<status, nameCall>>
  BY DEF proxyVars
<1>4. OneCallIn(toBus, toClient', nameCall)
  <2>1. ASSUME NEW m, m.type # "reply", toClient' = Append(toClient, m)
        PROVE  OneCallIn(toBus, toClient', nameCall)
    <3> DEFINE M == Messages \union {m}
    <3>1. toClient \in Seq(M) /\ m \in M
      BY <1>1
    <3> HIDE DEF M
    <3> QED
      BY <1>1, <2>1, <3>1, OneCallOther
  <2> QED
    BY <1>1, <1>2, <2>1
<1>5. (toBus' = toBus /\ connected' = connected) \/ (toBus' = <<>> /\ ~connected')
  BY DEF BusEvent, OwnerChanges, UniqueVanishes, OwnerEmits, ConnectionLost
<1>6. OneCallIn(toBus', toClient', nameCall')
  <2>1. CASE toBus' = toBus
    BY <1>3, <1>4, <2>1
  <2>2. CASE toBus' = <<>>
    BY <1>3, <1>4, <2>2 DEF OneCallIn
  <2> QED
    BY <1>5, <2>1, <2>2
<1> QED
  BY <1>3, <1>5, <1>6 DEF CallsInv, Tracking, Listed, ForOwner

\* Every step keeps the calls in order.
LEMMA StepCalls ==
  ASSUME Inv, CallsInv, Shapes
  PROVE  CallsInv'
<1>1. ASSUME NEW p \in Proxies, ResolveOwner(p)
      PROVE  CallsInv'
  <2>1. UNCHANGED <<toBus, toClient, nameCall, connected>> /\ Listed' = Listed
    BY <1>1 DEF ResolveOwner, busVars, Listed, Inv, TypeOK
  <2> QED
    BY <2>1 DEF CallsInv, Tracking, ForOwner
<1>2. CASE Rests
  BY <1>2 DEF Rests, wire, proxyVars, CallsInv, Tracking, Listed, ForOwner
<1> QED
  BY <1>1, <1>2, RegistersCalls, LeavesCalls, TakenCalls, FailsCalls, BusCalls, EventCalls
     DEF Shapes

--------------------------------------------------------------------------------
(* The counts in owner_match_rules *)

\* The paths and interfaces for which there is a list of proxies bound to n.
Lists(n) == {i \in Ifaces : ListOf(n, i) # {}}

MatchRefsCount ==
  \A n \in BusNames : matchRefs[n] = IF rulesTable THEN Cardinality(Lists(n)) ELSE 0

\* The number of lists of a name.
LEMMA ListsFinite ==
  ASSUME NEW n
  PROVE  /\ IsFiniteSet(Lists(n)) /\ Cardinality(Lists(n)) \in Nat
         /\ Cardinality(Lists(n)) = 0 <=> Lists(n) = {}
<1>1. IsFiniteSet(Lists(n))
  BY BusAssumption, FS_Subset DEF Lists
<1> QED
  BY <1>1, FS_CardinalityType, FS_EmptySet

\* A proxy enters the list of its name and interface and no other.
LEMMA RegistersLists ==
  ASSUME Inv, NEW p \in Proxies, NEW i \in Ifaces, Registers(p, i)
  PROVE  /\ p \notin Listed
         /\ Listed' = Listed \union {p}
         /\ \A n, j : ListOf(n, j)' = IF n = ProxyName[p] /\ j = i THEN ListOf(n, j) \union {p}
                                      ELSE ListOf(n, j)
<1>1. /\ status' = [status EXCEPT ![p] = "registered"]
      /\ iface' = [iface EXCEPT ![p] = i]
      /\ p \notin Listed
  BY DEF Registers, Register, Listed
<1>2. Listed' = Listed \union {p}
  BY <1>1 DEF Listed, Inv, TypeOK
<1>3. \A q \in Proxies : iface'[q] = IF q = p THEN i ELSE iface[q]
  BY <1>1 DEF Inv, TypeOK
<1>4. Listed \subseteq Proxies
  BY DEF Listed
<1> QED
  BY <1>1, <1>2, <1>3, <1>4 DEF ListOf

\* A proxy leaves the list of its name and interface and no other.
LEMMA LeavesLists ==
  ASSUME Inv, NEW p \in Proxies, NEW st \in Statuses, Leaves(p, st)
  PROVE  /\ p \in Listed
         /\ Listed' = Listed \ {p}
         /\ \A n, j : ListOf(n, j)' = ListOf(n, j) \ {p}
         /\ \A n, j : p \in ListOf(n, j) <=> n = ProxyName[p] /\ j = iface[p]
<1>1. /\ status' = [status EXCEPT ![p] = st]
      /\ iface' = iface
      /\ st # "registered" /\ p \in Listed
  BY DEF Leaves, Unregister, UnregisterFault, Listed
<1>2. Listed' = Listed \ {p}
  BY <1>1 DEF Listed, Inv, TypeOK
<1> QED
  BY <1>1, <1>2 DEF ListOf

\* register counts a new list.
LEMMA RegistersRefs ==
  ASSUME Inv, MatchRefsCount, NEW p \in Proxies, NEW i \in Ifaces, Registers(p, i)
  PROVE  MatchRefsCount'
<1> DEFINE n == ProxyName[p]
           newList == n # NoName /\ ListOf(n, i) = {}
<1>1. /\ rulesTable' = (rulesTable \/ Listed = {})
      /\ matchRefs' = IF newList /\ rulesTable' THEN [matchRefs EXCEPT ![n] = @ + 1]
                      ELSE matchRefs
      /\ Listed = {} => ~rulesTable
  BY DEF Registers, Register, RegisterFault
<1>2. matchRefs \in [BusNames -> Nat] /\ rulesTable \in BOOLEAN
  BY DEF Inv, TypeOK
<1>3. \A m \in BusNames : m # n => Lists(m)' = Lists(m)
  BY RegistersLists DEF Lists
<1>4. Lists(n)' = Lists(n) \union {i}
  BY RegistersLists DEF Lists
<1>5. i \in Lists(n) <=> ListOf(n, i) # {}
  BY DEF Lists
<1>6. Cardinality(Lists(n)') = IF ListOf(n, i) = {} THEN Cardinality(Lists(n)) + 1
                               ELSE Cardinality(Lists(n))
  BY <1>4, <1>5, ListsFinite, FS_AddElement
<1>7. Listed = {} => \A m \in BusNames : Cardinality(Lists(m)) = 0
  <2>1. Listed = {} => \A m \in BusNames : Lists(m) = {}
    BY DEF Lists, ListOf
  <2> QED
    BY <2>1, ListsFinite
<1>8. ASSUME NEW m \in BusNames
      PROVE  matchRefs'[m] = IF rulesTable' THEN Cardinality(Lists(m)') ELSE 0
  <2>1. m # NoName
    BY BusAssumption
  <2>2. matchRefs[m] = IF rulesTable THEN Cardinality(Lists(m)) ELSE 0
    BY DEF MatchRefsCount
  <2>3. CASE rulesTable'
    <3>1. matchRefs[m] = Cardinality(Lists(m))
      BY <1>1, <1>7, <2>2, <2>3
    <3>2. CASE m = n
      BY <1>1, <1>2, <1>6, <2>1, <2>3, <3>1, <3>2
    <3>3. CASE m # n
      BY <1>1, <1>2, <1>3, <2>3, <3>1, <3>3
    <3> QED
      BY <3>2, <3>3
  <2>4. CASE ~rulesTable'
    BY <1>1, <2>2, <2>4
  <2> QED
    BY <2>3, <2>4
<1> QED
  BY <1>8 DEF MatchRefsCount

\* unregister forgets a list that is empty.
LEMMA LeavesCounted ==
  ASSUME Inv, MatchRefsCount, NEW p \in Proxies, NEW st \in Statuses, Leaves(p, st)
  PROVE  \A m \in BusNames :
           /\ matchRefs'[m] = (IF rulesTable THEN Cardinality(Lists(m)') ELSE 0)
           /\ matchRefs'[m] \in Nat
<1> DEFINE n == ProxyName[p]
<1>1. /\ matchRefs' = IF LastOfList(p) /\ n # NoName THEN [matchRefs EXCEPT ![n] = @ - 1]
                      ELSE matchRefs
      /\ n # NoName /\ LastOfList(p) => matchRefs[n] # 0
  BY DEF Leaves, Unregister, UnregisterFault
<1>2. matchRefs \in [BusNames -> Nat] /\ rulesTable \in BOOLEAN
      /\ n \in BusNames \union {NoName} /\ iface[p] \in Ifaces
  BY ProxyAssumption DEF Inv, TypeOK
<1>3. \A m \in BusNames : m # n => Lists(m)' = Lists(m)
  BY LeavesLists DEF Lists
<1>4. Lists(n)' = IF LastOfList(p) THEN Lists(n) \ {iface[p]} ELSE Lists(n)
  BY LeavesLists DEF Lists, LastOfList
<1>5. iface[p] \in Lists(n)
  BY <1>2, LeavesLists DEF Lists
<1>6. Cardinality(Lists(n)') = IF LastOfList(p) THEN Cardinality(Lists(n)) - 1
                               ELSE Cardinality(Lists(n))
  BY <1>4, <1>5, ListsFinite, FS_RemoveElement
<1>7. ASSUME NEW m \in BusNames
      PROVE  matchRefs'[m] = (IF rulesTable THEN Cardinality(Lists(m)') ELSE 0)
             /\ matchRefs'[m] \in Nat
  <2>1. m # NoName /\ matchRefs[m] \in Nat
    BY <1>2, BusAssumption
  <2>2. matchRefs[m] = IF rulesTable THEN Cardinality(Lists(m)) ELSE 0
    BY DEF MatchRefsCount
  <2>3. CASE m = n
    BY <1>1, <1>2, <1>6, <2>1, <2>2, <2>3
  <2>4. CASE m # n
    BY <1>1, <1>2, <1>3, <2>1, <2>2, <2>4
  <2> QED
    BY <2>3, <2>4
<1> QED
  BY <1>7

\* The table goes with the last entry.
LEMMA LeavesRefs ==
  ASSUME Inv, MatchRefsCount, NEW p \in Proxies, NEW st \in Statuses, Leaves(p, st)
  PROVE  MatchRefsCount'
<1>1. rulesTable' = (rulesTable /\ \E m \in BusNames : matchRefs'[m] > 0)
  BY DEF Leaves, Unregister
<1>2. ASSUME NEW m \in BusNames
      PROVE  matchRefs'[m] = IF rulesTable' THEN Cardinality(Lists(m)') ELSE 0
  <2>1. /\ matchRefs'[m] = (IF rulesTable THEN Cardinality(Lists(m)') ELSE 0)
        /\ matchRefs'[m] \in Nat
    BY LeavesCounted
  <2>2. CASE rulesTable'
    BY <1>1, <2>1, <2>2
  <2>3. CASE ~rulesTable'
    <3>1. ~(rulesTable /\ matchRefs'[m] > 0)
      BY <1>1, <2>3
    <3>2. matchRefs'[m] = 0
      BY <2>1, <3>1
    <3> QED
      BY <2>3, <3>2
  <2> QED
    BY <2>2, <2>3
<1> QED
  BY <1>2 DEF MatchRefsCount

\* No other step changes the lists or the counts.
LEMMA StepRefs ==
  ASSUME Inv, MatchRefsCount, Shapes
  PROVE  MatchRefsCount'
<1>1. ASSUME UNCHANGED <<iface, matchRefs, rulesTable>>, Listed' = Listed
      PROVE  MatchRefsCount'
  BY <1>1 DEF MatchRefsCount, Lists, ListOf
<1>2. ASSUME NEW p \in Proxies, NameCallFails(p) \/ ResolveOwner(p)
      PROVE  MatchRefsCount'
  <2>1. UNCHANGED <<iface, matchRefs, rulesTable>>
    BY <1>2 DEF NameCallFails, ResolveOwner, managerVars
  <2>2. Listed' = Listed
    BY <1>2 DEF NameCallFails, ResolveOwner, Listed, Inv, TypeOK
  <2> QED
    BY <1>1, <2>1, <2>2
<1>3. CASE GotNameOwner \/ NameAppears \/ NameMovesOrGoes
  <2>1. UNCHANGED <<iface, matchRefs, rulesTable, status>>
    BY <1>3 DEF GotNameOwner, NameAppears, NameMovesOrGoes
  <2> QED
    BY <1>1, <2>1 DEF Listed
<1>4. CASE Skips \/ Rests \/ UNCHANGED <<proxyVars, tables>>
  <2>1. UNCHANGED <<iface, matchRefs, rulesTable, status>>
    BY <1>4 DEF Skips, Rests, proxyVars, tables
  <2> QED
    BY <1>1, <2>1 DEF Listed
<1> QED
  BY <1>2, <1>3, <1>4, RegistersRefs, LeavesRefs DEF Shapes

--------------------------------------------------------------------------------
(* The proxies that die with their unique name *)

\* Is an announcement for n in the queue?
Heard(n) == \E k \in 1 .. Len(toClient) : Announces(toClient, n, k)

\* The client makes no announcements, and the bus does where names change.
LEMMA NewsFromOutside ==
  ASSUME Inv, Shapes, NEW n, Heard(n)'
  PROVE  \/ Heard(n)
         \/ \E new \in Owners : n \in Names /\ OwnerChanges(n, new) /\ rules[OwnerRule(n)] > 0
         \/ n \in Uniques /\ UniqueVanishes(n)
<1>1. toClient \in Seq(Messages) /\ Len(toClient) \in Nat
  BY QueueTypes
<1>2. ASSUME UNCHANGED toClient
      PROVE  Heard(n)
  BY <1>2 DEF Heard
<1>3. ASSUME NEW q \in Seq(Messages), NEW calls, toClient' = Forget(q, calls)
      PROVE  \E k \in 1 .. Len(q) : Announces(q, n, k)
  <2>1. Len(toClient') = Len(q)
    BY <1>3, ForgetItems
  <2>2. PICK k \in 1 .. Len(q) : Announces(toClient', n, k)
    BY <2>1 DEF Heard
  <2>3. toClient'[k] = q[k] \/ toClient'[k] = Ignored
    BY <1>3, ForgetItems
  <2> QED
    BY <2>2, <2>3 DEF Announces, Ignored
<1>4. ASSUME toClient # <<>>, \E k \in 1 .. Len(Tail(toClient)) : Announces(Tail(toClient), n, k)
      PROVE  Heard(n)
  <2>1. PICK k \in 1 .. Len(Tail(toClient)) : Announces(Tail(toClient), n, k)
    BY <1>4
  <2>2. k + 1 \in 1 .. Len(toClient) /\ Tail(toClient)[k] = toClient[k + 1]
    BY <1>1, <1>4
  <2> QED
    BY <2>1, <2>2 DEF Heard, Announces
<1>5. ASSUME NEW m, toClient' = Append(toClient, m)
      PROVE  Heard(n) \/ (m.type = "NameOwnerChanged" /\ m.name = n)
  <2>1. /\ Len(toClient') = Len(toClient) + 1
        /\ \A k \in 1 .. Len(toClient) : toClient'[k] = toClient[k]
        /\ toClient'[Len(toClient) + 1] = m
    <3> DEFINE T == Messages \union {m}
    <3>1. toClient \in Seq(T) /\ m \in T
      BY <1>1
    <3> HIDE DEF T
    <3> QED
      BY <1>5, <3>1
  <2>2. PICK k \in 1 .. Len(toClient') : Announces(toClient', n, k)
    BY DEF Heard
  <2>3. k \in 1 .. Len(toClient) \/ k = Len(toClient) + 1
    BY <1>1, <2>1
  <2> QED
    BY <2>1, <2>2, <2>3 DEF Heard, Announces
<1>6. ASSUME NEW p \in Proxies, NEW st \in Statuses, Leaves(p, st)
      PROVE  Heard(n)
  BY <1>1, <1>3, <1>6 DEF Leaves, Unregister, Heard
<1>7. ASSUME NEW p \in Proxies,
             NameCallFails(p) \/ ResolveOwner(p) \/ \E i \in Ifaces : Registers(p, i)
      PROVE  Heard(n)
  BY <1>2, <1>7 DEF Registers, Register, NameCallFails, ResolveOwner, busVars
<1>8. CASE GotNameOwner \/ NameAppears \/ Skips
  <2>1. toClient # <<>> /\ toClient' = Tail(toClient)
    BY <1>8 DEF GotNameOwner, NameAppears, Skips, Dispatching
  <2> QED
    BY <1>4, <2>1 DEF Heard
<1>9. CASE NameMovesOrGoes
  <2>1. toClient # <<>> /\ Tail(toClient) \in Seq(Messages)
    BY <1>1, <1>9 DEF NameMovesOrGoes, Dispatching
  <2> QED
    BY <1>3, <1>4, <1>9, <2>1 DEF NameMovesOrGoes
<1>10. CASE BusHandlesRequest
  <2>1. toClient' = toClient \/ \E m : m.type = "reply" /\ toClient' = Append(toClient, m)
    BY <1>10 DEF BusHandlesRequest
  <2> QED
    BY <1>2, <1>5, <2>1
<1>11. CASE BusEvent
  <2>1. ASSUME NEW m \in Names, NEW new \in Owners, OwnerChanges(m, new)
        PROVE  Heard(n) \/ (m = n /\ rules[OwnerRule(m)] > 0)
    BY <1>2, <1>5, <2>1 DEF OwnerChanges, Announced
  <2>2. ASSUME NEW u \in Uniques, UniqueVanishes(u)
        PROVE  Heard(n) \/ u = n
    BY <1>2, <1>5, <2>2 DEF UniqueVanishes, Announced
  <2>3. ASSUME NEW u \in Uniques, NEW i \in Ifaces, OwnerEmits(u, i)
        PROVE  Heard(n)
    BY <1>5, <2>3 DEF OwnerEmits
  <2>4. CASE ConnectionLost
    BY <1>5, <2>4 DEF ConnectionLost
  <2> QED
    BY <1>11, <2>1, <2>2, <2>3, <2>4 DEF BusEvent
<1>12. CASE Rests
  BY <1>2, <1>12 DEF Rests, wire
<1> QED
  BY <1>6, <1>7, <1>8, <1>9, <1>10, <1>11, <1>12 DEF Shapes

\* A unique name is announced only after it has left the bus.
OrphansInv ==
  /\ \A u \in Uniques : Heard(u) => u \notin alive
  /\ OnlyOrphansDestroyed

\* Every step keeps what is announced of unique names true.
LEMMA StepOrphans ==
  ASSUME Inv, OrphansInv, [Next]_vars
  PROVE  OrphansInv'
<1>1. Shapes
  BY StepShape
<1>2. \A u \in Uniques : u \notin alive => u \notin alive'
  BY <1>1 DEF Shapes, Registers, Register, Leaves, Unregister, GotNameOwner, NameAppears,
     NameMovesOrGoes, Skips, NameCallFails, ResolveOwner, busVars, BusHandlesRequest, BusEvent,
     OwnerChanges, UniqueVanishes, OwnerEmits, ConnectionLost, Rests, wire
<1>3. \A u \in Uniques : Heard(u)' => u \notin alive'
  <2> SUFFICES ASSUME NEW u \in Uniques, Heard(u)' PROVE u \notin alive'
    OBVIOUS
  <2>1. CASE Heard(u)
    BY <1>2, <2>1 DEF OrphansInv
  <2>2. CASE UniqueVanishes(u)
    BY <2>2 DEF UniqueVanishes
  <2>3. u \notin Names
    BY BusAssumption
  <2> QED
    BY <1>1, <2>1, <2>2, <2>3, NewsFromOutside
<1>4. OnlyOrphansDestroyed'
  <2>1. CASE NameMovesOrGoes
    <3> DEFINE m == Head(toClient)
               gone == IF m.new = NoOwner THEN BoundTo(m.name) ELSE {}
               doomed == gone \ {p \in gone : ~ForOwner(p)}
    <3>1. filter' = IF doomed = {} THEN Idle ELSE [pc |-> "destroy", todo |-> doomed]
      BY <2>1 DEF NameMovesOrGoes
    <3>2. toClient # <<>> /\ m = toClient[1] /\ 1 \in 1 .. Len(toClient)
          /\ m.type = "NameOwnerChanged" /\ m.name \in BusNames
      BY <2>1, QueueTypes, MessageTypes DEF NameMovesOrGoes, Dispatching
    <3>3. \A p \in doomed : ProxyName[p] = m.name /\ m.name \in Uniques
      BY <3>2 DEF BoundTo, ForOwner, BusNames
    <3>4. Heard(m.name)
      BY <3>2 DEF Heard, Announces
    <3>5. \A p \in doomed : ProxyName[p] \in Uniques /\ ProxyName[p] \notin alive'
      BY <1>2, <3>3, <3>4 DEF OrphansInv
    <3> HIDE DEF doomed
    <3> QED
      BY <3>1, <3>5 DEF OnlyOrphansDestroyed, Idle
  <2>2. ASSUME filter'.pc = filter.pc, filter'.todo \subseteq filter.todo
        PROVE  OnlyOrphansDestroyed'
    BY <1>2, <2>2 DEF OrphansInv, OnlyOrphansDestroyed
  <2>3. CASE filter' = filter
    BY <2>2, <2>3
  <2>4. ASSUME NEW p \in Proxies, filter' = [filter EXCEPT !.todo = @ \ {p}]
        PROVE  OnlyOrphansDestroyed'
    BY <2>2, <2>4 DEF Inv, TypeOK
  <2>5. ASSUME filter'.pc # "destroy"
        PROVE  OnlyOrphansDestroyed'
    BY <2>5 DEF OnlyOrphansDestroyed
  <2>6. CASE RoutesSignal \/ HandlesDisconnected \/ FilterReturns
    <3>1. filter'.pc # "destroy"
      BY <2>6 DEF RoutesSignal, HandlesDisconnected, FilterReturns, Idle
    <3> QED
      BY <2>5, <3>1
  <2>7. CASE IgnoreMessage \/ GotNameOwner \/ NameAppears
    BY <2>3, <2>7 DEF IgnoreMessage, GotNameOwner, NameAppears
  <2>8. ASSUME NEW p \in Proxies, EmitsTo(p) \/ Destroys(p)
        PROVE  OnlyOrphansDestroyed'
    BY <2>4, <2>8 DEF EmitsTo, Destroys
  <2>9. CASE CallFails \/ BusStep \/ OutsideStep \/ UNCHANGED vars
    BY <2>3, <2>9 DEF CallFails, NameCallFails, BusStep, OutsideStep, vars
  <2>10. CASE Application
    BY <2>3, <2>10 DEF Application, New, ResolveOwner, Dispose, SetInterfaceBegins, SetInterfaceEnds
  <2> QED
    BY <2>1, <2>6, <2>7, <2>8, <2>9, <2>10 DEF Next, Dispatch
<1> QED
  BY <1>3, <1>4 DEF OrphansInv

--------------------------------------------------------------------------------
(* The rules on the bus *)

NoPeers == \A p \in Proxies : ProxyName[p] # NoName

\* Along the queue q, the number of times the bus has rule r goes from s to e:
\* g[k] is that number once the first k requests are processed.  A rule is only
\* added when the bus does not have it, and only removed when it has.
Turns(q, r, g) ==
  \A k \in 1 .. Len(q) :
    /\ Adds(q, r, k) => g[k - 1] = 0 /\ g[k] = 1
    /\ Drops(q, r, k) => g[k - 1] = 1 /\ g[k] = 0
    /\ ~Adds(q, r, k) /\ ~Drops(q, r, k) => g[k] = g[k - 1]
Turning(q, r, s, e) ==
  \E g \in [0 .. Len(q) -> {0, 1}] : Turns(q, r, g) /\ g[0] = s /\ g[Len(q)] = e

RulesInv ==
  /\ Listed # {} => rulesTable
  /\ connected => \A r \in Rules : Turning(toBus, r, rules[r], IF Needed(r) THEN 1 ELSE 0)

\* A request is queued.
LEMMA TurningAppend ==
  ASSUME NEW T, NEW q \in Seq(T), NEW r, NEW s, NEW e \in {0, 1}, Turning(q, r, s, e),
         NEW x \in T, NEW e2 \in {0, 1},
         x.type = "AddMatch" /\ x.rule = r => e = 0 /\ e2 = 1,
         x.type = "RemoveMatch" /\ x.rule = r => e = 1 /\ e2 = 0,
         ~(x.type = "AddMatch" /\ x.rule = r) /\ ~(x.type = "RemoveMatch" /\ x.rule = r) => e2 = e
  PROVE  Turning(Append(q, x), r, s, e2)
<1> DEFINE d == Append(q, x)
<1>1. /\ Len(d) = Len(q) + 1 /\ Len(q) \in Nat
      /\ \A k \in 1 .. Len(q) : d[k] = q[k]
      /\ d[Len(q) + 1] = x
  OBVIOUS
<1> HIDE DEF d
<1>2. PICK g \in [0 .. Len(q) -> {0, 1}] : Turns(q, r, g) /\ g[0] = s /\ g[Len(q)] = e
  BY DEF Turning
<1> DEFINE h == [k \in 0 .. Len(d) |-> IF k = Len(d) THEN e2 ELSE g[k]]
<1>3. h \in [0 .. Len(d) -> {0, 1}] /\ h[0] = s /\ h[Len(d)] = e2
  BY <1>1, <1>2
<1>4. Turns(d, r, h)
  <2> SUFFICES ASSUME NEW k \in 1 .. Len(d)
               PROVE  /\ Adds(d, r, k) => h[k - 1] = 0 /\ h[k] = 1
                      /\ Drops(d, r, k) => h[k - 1] = 1 /\ h[k] = 0
                      /\ ~Adds(d, r, k) /\ ~Drops(d, r, k) => h[k] = h[k - 1]
    BY DEF Turns
  <2>1. CASE k = Len(d)
    <3>1. h[k - 1] = e /\ h[k] = e2 /\ d[k] = x
      BY <1>1, <1>2, <2>1
    <3> QED
      BY <3>1 DEF Adds, Drops
  <2>2. CASE k # Len(d)
    <3>1. k \in 1 .. Len(q) /\ k - 1 \in 0 .. Len(q) /\ k - 1 # Len(d) /\ d[k] = q[k]
      BY <1>1, <2>2
    <3>2. h[k] = g[k] /\ h[k - 1] = g[k - 1]
      BY <1>1, <2>2, <3>1
    <3> HIDE DEF h
    <3> QED
      BY <1>2, <3>1, <3>2 DEF Turns, Adds, Drops
  <2> QED
    BY <2>1, <2>2
<1> HIDE DEF h
<1> QED
  BY <1>3, <1>4 DEF Turning, d

\* A request is processed.
LEMMA TurningTail ==
  ASSUME NEW T, NEW q \in Seq(T), q # <<>>, NEW r, NEW s, NEW e, Turning(q, r, s, e)
  PROVE  /\ Adds(q, r, 1) => s = 0 /\ Turning(Tail(q), r, 1, e)
         /\ Drops(q, r, 1) => s = 1 /\ Turning(Tail(q), r, 0, e)
         /\ ~Adds(q, r, 1) /\ ~Drops(q, r, 1) => Turning(Tail(q), r, s, e)
<1> DEFINE d == Tail(q)
<1>1. /\ Len(q) = Len(d) + 1 /\ Len(d) \in Nat
      /\ \A k \in 1 .. Len(d) : d[k] = q[k + 1] /\ k + 1 \in 1 .. Len(q)
      /\ 1 \in 1 .. Len(q)
  OBVIOUS
<1> HIDE DEF d
<1>2. PICK g \in [0 .. Len(q) -> {0, 1}] : Turns(q, r, g) /\ g[0] = s /\ g[Len(q)] = e
  BY DEF Turning
<1> DEFINE h == [k \in 0 .. Len(d) |-> g[k + 1]]
<1>3. h \in [0 .. Len(d) -> {0, 1}] /\ h[0] = g[1] /\ h[Len(d)] = e
  BY <1>1, <1>2
<1>4. Turns(d, r, h)
  <2> SUFFICES ASSUME NEW k \in 1 .. Len(d)
               PROVE  /\ Adds(d, r, k) => h[k - 1] = 0 /\ h[k] = 1
                      /\ Drops(d, r, k) => h[k - 1] = 1 /\ h[k] = 0
                      /\ ~Adds(d, r, k) /\ ~Drops(d, r, k) => h[k] = h[k - 1]
    BY DEF Turns
  <2>1. d[k] = q[k + 1] /\ k + 1 \in 1 .. Len(q) /\ (k + 1) - 1 = k
    BY <1>1
  <2>2. h[k] = g[k + 1] /\ h[k - 1] = g[k]
    BY <1>1
  <2> HIDE DEF h
  <2>3. /\ Adds(q, r, k + 1) => g[k] = 0 /\ g[k + 1] = 1
        /\ Drops(q, r, k + 1) => g[k] = 1 /\ g[k + 1] = 0
        /\ ~Adds(q, r, k + 1) /\ ~Drops(q, r, k + 1) => g[k + 1] = g[k]
    BY <1>2, <2>1 DEF Turns
  <2> QED
    BY <2>1, <2>2, <2>3 DEF Adds, Drops
<1>5. Turning(d, r, g[1], e)
  <2> HIDE DEF h
  <2> QED
    BY <1>3, <1>4 DEF Turning
<1>6. /\ Adds(q, r, 1) => g[0] = 0 /\ g[1] = 1
      /\ Drops(q, r, 1) => g[0] = 1 /\ g[1] = 0
      /\ ~Adds(q, r, 1) /\ ~Drops(q, r, 1) => g[1] = g[0]
  <2>1. 1 - 1 = 0
    OBVIOUS
  <2> QED
    BY <1>1, <1>2, <2>1 DEF Turns
<1> QED
  BY <1>2, <1>5, <1>6 DEF d

\* Cancelled calls are no match rules.
LEMMA TurningForget ==
  ASSUME NEW T, NEW q \in Seq(T), NEW calls, NEW r, NEW s, NEW e, Turning(q, r, s, e)
  PROVE  Turning(Forget(q, calls), r, s, e)
<1> DEFINE d == Forget(q, calls)
<1>1. Len(d) = Len(q)
  BY ForgetItems
<1>2. \A k \in 1 .. Len(q) : d[k] = q[k] \/ (d[k] = Ignored /\ (Asks(q, k) \/ Replies(q, k)))
  BY ForgetItems
<1> HIDE DEF d
<1>3. \A k \in 1 .. Len(q) : (Adds(d, r, k) <=> Adds(q, r, k)) /\ (Drops(d, r, k) <=> Drops(q, r, k))
  BY <1>2 DEF Adds, Drops, Asks, Replies, Ignored
<1>4. PICK g \in [0 .. Len(q) -> {0, 1}] : Turns(q, r, g) /\ g[0] = s /\ g[Len(q)] = e
  BY DEF Turning
<1>5. Turns(d, r, g)
  BY <1>1, <1>3, <1>4 DEF Turns
<1> QED
  BY <1>1, <1>4, <1>5 DEF Turning, d


\* A request is queued on a condition.
LEMMA TurningQueued ==
  ASSUME NEW T, NEW q \in Seq(T), NEW r, NEW s, NEW e \in {0, 1}, Turning(q, r, s, e),
         NEW x \in T, NEW on, NEW e2 \in {0, 1},
         on /\ x.type = "AddMatch" /\ x.rule = r => e = 0 /\ e2 = 1,
         on /\ x.type = "RemoveMatch" /\ x.rule = r => e = 1 /\ e2 = 0,
         ~(on /\ x.type = "AddMatch" /\ x.rule = r)
           /\ ~(on /\ x.type = "RemoveMatch" /\ x.rule = r) => e2 = e
  PROVE  Turning(Queued(q, on, x), r, s, e2)
<1>1. CASE on
  <2>1. Turning(Append(q, x), r, s, e2)
    BY <1>1, TurningAppend
  <2> QED
    BY <1>1, <2>1 DEF Queued
<1>2. CASE ~on
  BY <1>2 DEF Queued
<1> QED
  BY <1>1, <1>2

\* A name has an entry exactly while there is a proxy for it.
LEMMA EntryKnown ==
  ASSUME NoPeers, Inv, MatchRefsCount, RulesInv, NEW p \in Proxies
  PROVE  /\ ProxyName[p] \in BusNames
         /\ matchRefs[ProxyName[p]] = Cardinality(Lists(ProxyName[p]))
         /\ matchRefs[ProxyName[p]] = 0 <=> TrackingFor(ProxyName[p]) = {}
         /\ p \in Listed => rulesTable /\ matchRefs[ProxyName[p]] # 0
<1> DEFINE n == ProxyName[p]
<1>1. n \in BusNames
  BY ProxyAssumption DEF NoPeers
<1>2. Lists(n) = {} <=> TrackingFor(n) = {}
  <2>1. \A q \in TrackingFor(n) : q \in ListOf(n, iface[q]) /\ iface[q] \in Ifaces
    BY DEF TrackingFor, ListOf, Listed, Inv, TypeOK
  <2>2. \A i : ListOf(n, i) \subseteq TrackingFor(n)
    BY DEF TrackingFor, ListOf
  <2> QED
    BY <2>1, <2>2 DEF Lists
<1>3. matchRefs[n] = Cardinality(Lists(n))
  <2>1. CASE rulesTable
    BY <1>1, <2>1 DEF MatchRefsCount
  <2>2. CASE ~rulesTable
    <3>1. TrackingFor(n) = {}
      BY <2>2 DEF RulesInv, TrackingFor
    <3> QED
      BY <1>1, <1>2, <2>2, <3>1, ListsFinite DEF MatchRefsCount
  <2> QED
    BY <2>1, <2>2
<1>4. p \in Listed => p \in TrackingFor(n) /\ rulesTable
  BY DEF TrackingFor, RulesInv
<1> QED
  BY <1>1, <1>2, <1>3, <1>4, ListsFinite

\* A rule is needed from the first proxy of its list or name on.
LEMMA RegistersNeeded ==
  ASSUME NoPeers, Inv, MatchRefsCount, RulesInv,
         NEW p \in Proxies, NEW i \in Ifaces, Registers(p, i), NEW r \in Rules
  PROVE  LET n == ProxyName[p] IN
         /\ r = SignalRule(n, i) => (Needed(r) <=> ListOf(n, i) # {}) /\ Needed(r)'
         /\ r = OwnerRule(n) => (Needed(r) <=> matchRefs[n] # 0) /\ Needed(r)'
         /\ r = OwnerRule(n) /\ ~Needed(r) => ListOf(n, i) = {}
         /\ r # SignalRule(n, i) /\ r # OwnerRule(n) => (Needed(r) <=> Needed(r)')
<1> DEFINE n == ProxyName[p]
<1>1. /\ ListOf(n, i)' = ListOf(n, i) \union {p}
      /\ \A m, j : m # n \/ j # i => ListOf(m, j)' = ListOf(m, j)
      /\ TrackingFor(n)' = TrackingFor(n) \union {p}
      /\ \A m : m # n => TrackingFor(m)' = TrackingFor(m)
  BY RegistersLists DEF TrackingFor
<1>2. r.kind \in {"signal", "owner"} /\ (r.kind = "owner" => r.iface = NoName)
      /\ r = [kind |-> r.kind, name |-> r.name, iface |-> r.iface]
  BY DEF Rules
<1>3. /\ SignalRule(n, i).kind = "signal" /\ SignalRule(n, i).name = n /\ SignalRule(n, i).iface = i
      /\ OwnerRule(n).kind = "owner" /\ OwnerRule(n).name = n
      /\ r.kind = "signal" /\ r.name = n /\ r.iface = i => r = SignalRule(n, i)
      /\ r.kind = "owner" /\ r.name = n => r = OwnerRule(n)
  BY <1>2 DEF SignalRule, OwnerRule
<1>4. matchRefs[n] # 0 <=> TrackingFor(n) # {}
  BY EntryKnown
<1>5. ListOf(n, i) \subseteq TrackingFor(n)
  BY DEF ListOf, TrackingFor
<1> QED
  BY <1>1, <1>2, <1>3, <1>4, <1>5 DEF Needed

\* A rule is needed up to the last proxy of its list or name.
LEMMA LeavesNeeded ==
  ASSUME NoPeers, Inv, MatchRefsCount, RulesInv,
         NEW p \in Proxies, NEW st \in Statuses, Leaves(p, st), NEW r \in Rules
  PROVE  LET n == ProxyName[p] IN
         /\ r = SignalRule(n, iface[p]) => Needed(r) /\ (Needed(r)' <=> ~LastOfList(p))
         /\ r = OwnerRule(n) =>
              Needed(r) /\ (Needed(r)' <=> ~(LastOfList(p) /\ matchRefs[n] = 1))
         /\ r # SignalRule(n, iface[p]) /\ r # OwnerRule(n) => (Needed(r) <=> Needed(r)')
<1> DEFINE n == ProxyName[p]
<1>1. /\ p \in Listed
      /\ \A m, j : ListOf(m, j)' = ListOf(m, j) \ {p}
      /\ \A m, j : p \in ListOf(m, j) <=> m = n /\ j = iface[p]
      /\ \A m : TrackingFor(m)' = TrackingFor(m) \ {p}
      /\ \A m : p \in TrackingFor(m) <=> m = n
  BY LeavesLists DEF TrackingFor
<1>2. r.kind \in {"signal", "owner"} /\ (r.kind = "owner" => r.iface = NoName)
      /\ r = [kind |-> r.kind, name |-> r.name, iface |-> r.iface]
  BY DEF Rules
<1>3. /\ SignalRule(n, iface[p]).kind = "signal" /\ SignalRule(n, iface[p]).name = n
      /\ SignalRule(n, iface[p]).iface = iface[p]
      /\ OwnerRule(n).kind = "owner" /\ OwnerRule(n).name = n
      /\ r.kind = "signal" /\ r.name = n /\ r.iface = iface[p] => r = SignalRule(n, iface[p])
      /\ r.kind = "owner" /\ r.name = n => r = OwnerRule(n)
  BY <1>2 DEF SignalRule, OwnerRule
<1>4. matchRefs[n] = Cardinality(Lists(n)) /\ iface[p] \in Ifaces
  BY EntryKnown DEF Inv, TypeOK
<1>5. LastOfList(p) /\ Cardinality(Lists(n)) = 1 <=> TrackingFor(n) = {p}
  <2>1. iface[p] \in Lists(n) /\ p \in ListOf(n, iface[p])
    BY <1>1, <1>4 DEF Lists
  <2>2. \A q \in TrackingFor(n) : q \in ListOf(n, iface[q]) /\ iface[q] \in Lists(n)
    BY DEF TrackingFor, ListOf, Lists, Listed, Inv, TypeOK
  <2>3. \A i : ListOf(n, i) \subseteq TrackingFor(n)
    BY DEF ListOf, TrackingFor
  <2>4. ASSUME LastOfList(p), Cardinality(Lists(n)) = 1
        PROVE  TrackingFor(n) = {p}
    <3>1. Lists(n) = {iface[p]}
      <4>1. PICK i : Lists(n) = {i}
        BY <2>4, ListsFinite, FS_Singleton
      <4> QED
        BY <2>1, <4>1
    <3> QED
      BY <1>1, <2>2, <2>4, <3>1 DEF LastOfList
  <2>5. ASSUME TrackingFor(n) = {p}
        PROVE  LastOfList(p) /\ Cardinality(Lists(n)) = 1
    <3>1. LastOfList(p)
      BY <2>1, <2>3, <2>5 DEF LastOfList
    <3>2. \A i \in Lists(n) : i = iface[p]
      BY <1>1, <2>3, <2>5 DEF Lists
    <3>3. Lists(n) = {iface[p]}
      BY <2>1, <3>2
    <3> QED
      BY <3>1, <3>3, FS_Singleton
  <2> QED
    BY <2>4, <2>5
<1>6. ListOf(n, iface[p]) \ {p} # {} <=> ~LastOfList(p)
  BY <1>1 DEF LastOfList
<1>7. TrackingFor(n) \ {p} # {} <=> TrackingFor(n) # {p}
  BY <1>1
<1> QED
  BY <1>1, <1>2, <1>3, <1>4, <1>5, <1>6, <1>7 DEF Needed


\* register adds exactly the rules that were not needed before.
LEMMA RegistersRules ==
  ASSUME NoPeers, Inv, MatchRefsCount, RulesInv, NEW p \in Proxies, NEW i \in Ifaces,
         Registers(p, i)
  PROVE  RulesInv'
<1> DEFINE n == ProxyName[p]
           newList == n # NoName /\ ListOf(n, i) = {}
           newName == newList /\ matchRefs[n] = 0
           a == [type |-> "AddMatch", rule |-> SignalRule(n, i)]
           b == [type |-> "AddMatch", rule |-> OwnerRule(n)]
           c == [type |-> "GetNameOwner", call |-> p, name |-> n]
           T == Requests \union {a, b, c}
           one == Queued(toBus, newList, a)
           two == Queued(one, newName, b)
<1>1. /\ toBus' = IF connected THEN Queued(two, nameCall'[p], c) ELSE toBus
      /\ UNCHANGED <<rules, connected>>
      /\ rulesTable' = (rulesTable \/ Listed = {})
  BY RegisterSends DEF Registers, Register
<1>2. ASSUME connected, NEW r \in Rules
      PROVE  Turning(Queued(two, nameCall'[p], c), r, rules[r], IF Needed(r)' THEN 1 ELSE 0)
  <2> DEFINE e == IF Needed(r) THEN 1 ELSE 0
             e1 == IF r = SignalRule(n, i) THEN 1 ELSE e
             e2 == IF Needed(r)' THEN 1 ELSE 0
  <2>1. /\ a.type = "AddMatch" /\ a.rule = SignalRule(n, i)
        /\ b.type = "AddMatch" /\ b.rule = OwnerRule(n)
        /\ c.type = "GetNameOwner"
        /\ SignalRule(n, i) # OwnerRule(n)
    BY DEF SignalRule, OwnerRule
  <2>2. n # NoName
    BY DEF NoPeers
  <2>3. /\ r = SignalRule(n, i) => (Needed(r) <=> ListOf(n, i) # {}) /\ Needed(r)'
        /\ r = OwnerRule(n) => (Needed(r) <=> matchRefs[n] # 0) /\ Needed(r)'
        /\ r = OwnerRule(n) /\ ~Needed(r) => ListOf(n, i) = {}
        /\ r # SignalRule(n, i) /\ r # OwnerRule(n) => (Needed(r) <=> Needed(r)')
    BY RegistersNeeded
  <2>4. e \in {0, 1} /\ e1 \in {0, 1} /\ e2 \in {0, 1} /\ Turning(toBus, r, rules[r], e)
    BY <1>2 DEF RulesInv
  <2>5. /\ newList /\ r = SignalRule(n, i) => e = 0 /\ e1 = 1
        /\ ~(newList /\ r = SignalRule(n, i)) => e1 = e
    BY <2>2, <2>3
  <2>6. /\ newName /\ r = OwnerRule(n) => e1 = 0 /\ e2 = 1
        /\ ~(newName /\ r = OwnerRule(n)) => e2 = e1
    BY <2>1, <2>2, <2>3
  <2>7. toBus \in Seq(T) /\ a \in T /\ b \in T /\ c \in T
    BY QueueTypes
  <2> HIDE DEF a, b, c, T, newList, newName, e, e1, e2
  <2>8. Turning(one, r, rules[r], e1) /\ one \in Seq(T)
    <3>1. Turning(one, r, rules[r], e1)
      BY <2>1, <2>4, <2>5, <2>7, TurningQueued
    <3>2. one \in Seq(T)
      BY <2>7 DEF Queued
    <3> QED
      BY <3>1, <3>2
  <2> HIDE DEF one
  <2>9. Turning(two, r, rules[r], e2) /\ two \in Seq(T)
    <3>1. Turning(two, r, rules[r], e2)
      BY <2>1, <2>4, <2>6, <2>7, <2>8, TurningQueued
    <3>2. two \in Seq(T)
      BY <2>7, <2>8 DEF Queued
    <3> QED
      BY <3>1, <3>2
  <2> HIDE DEF two
  <2>10. Turning(Queued(two, nameCall'[p], c), r, rules[r], e2)
    BY <2>1, <2>4, <2>7, <2>9, TurningQueued
  <2> QED
    BY <2>10 DEF e2
<1>3. Listed' # {} => rulesTable'
  BY <1>1 DEF RulesInv
<1> HIDE DEF two, c
<1> QED
  BY <1>1, <1>2, <1>3 DEF RulesInv

\* unregister removes exactly the rules that are not needed afterwards.
LEMMA LeavesRules ==
  ASSUME NoPeers, Inv, MatchRefsCount, RulesInv, NEW p \in Proxies, NEW st \in Statuses,
         Leaves(p, st)
  PROVE  RulesInv'
<1> DEFINE n == ProxyName[p]
           cancelled == IF ~ForOwner(p) /\ ~associated[p] /\ nameCall[p] THEN {p} ELSE {}
           left == Forget(toBus, cancelled)
           a == [type |-> "RemoveMatch", rule |-> SignalRule(n, iface[p])]
           b == [type |-> "RemoveMatch", rule |-> OwnerRule(n)]
           last == LastOfList(p)
           lastOfName == last /\ n # NoName /\ matchRefs[n] = 1
           T == Requests \union {a, b}
           one == Queued(left, last, a)
           two == Queued(one, lastOfName, b)
<1>1. /\ toBus' = IF connected THEN two ELSE left
      /\ UNCHANGED <<rules, connected>>
      /\ rulesTable' = (rulesTable /\ \E m \in BusNames : matchRefs'[m] > 0)
  BY UnregisterSends DEF Leaves, Unregister
<1>2. ASSUME connected, NEW r \in Rules
      PROVE  Turning(two, r, rules[r], IF Needed(r)' THEN 1 ELSE 0)
  <2> DEFINE e == IF Needed(r) THEN 1 ELSE 0
             e1 == IF r = SignalRule(n, iface[p]) /\ last THEN 0 ELSE e
             e2 == IF Needed(r)' THEN 1 ELSE 0
  <2>1. /\ a.type = "RemoveMatch" /\ a.rule = SignalRule(n, iface[p])
        /\ b.type = "RemoveMatch" /\ b.rule = OwnerRule(n)
        /\ SignalRule(n, iface[p]) # OwnerRule(n)
    BY DEF SignalRule, OwnerRule
  <2>2. n # NoName
    BY DEF NoPeers
  <2>3. /\ r = SignalRule(n, iface[p]) => Needed(r) /\ (Needed(r)' <=> ~last)
        /\ r = OwnerRule(n) => Needed(r) /\ (Needed(r)' <=> ~(last /\ matchRefs[n] = 1))
        /\ r # SignalRule(n, iface[p]) /\ r # OwnerRule(n) => (Needed(r) <=> Needed(r)')
    BY LeavesNeeded
  <2>4. /\ e \in {0, 1} /\ e1 \in {0, 1} /\ e2 \in {0, 1}
        /\ left \in Seq(Requests)
        /\ Turning(left, r, rules[r], e)
    BY <1>2, QueueTypes, ForgetType, TurningForget DEF RulesInv
  <2>5. /\ last /\ r = SignalRule(n, iface[p]) => e = 1 /\ e1 = 0
        /\ ~(last /\ r = SignalRule(n, iface[p])) => e1 = e
    BY <2>3
  <2>6. /\ lastOfName /\ r = OwnerRule(n) => e1 = 1 /\ e2 = 0
        /\ ~(lastOfName /\ r = OwnerRule(n)) => e2 = e1
    BY <2>1, <2>2, <2>3
  <2>7. left \in Seq(T) /\ a \in T /\ b \in T
    BY <2>4
  <2> HIDE DEF a, b, T, left, last, lastOfName, e, e1, e2
  <2>8. Turning(one, r, rules[r], e1) /\ one \in Seq(T)
    <3>1. Turning(one, r, rules[r], e1)
      BY <2>1, <2>4, <2>5, <2>7, TurningQueued
    <3>2. one \in Seq(T)
      BY <2>7 DEF Queued
    <3> QED
      BY <3>1, <3>2
  <2> HIDE DEF one
  <2>9. Turning(two, r, rules[r], e2)
    BY <2>1, <2>4, <2>6, <2>7, <2>8, TurningQueued
  <2> QED
    BY <2>9 DEF e2
<1>3. Listed' # {} => rulesTable'
  <2> SUFFICES ASSUME NEW q \in Listed'
               PROVE  rulesTable'
    OBVIOUS
  <2>1. rulesTable /\ q \in Proxies
    BY LeavesLists DEF RulesInv, Listed
  <2>2. ProxyName[q] \in BusNames
    BY <2>1, EntryKnown
  <2>3. iface'[q] \in Lists(ProxyName[q])'
    <3>1. iface'[q] \in Ifaces
      BY <2>1 DEF Leaves, Unregister, Inv, TypeOK
    <3> QED
      BY <3>1 DEF Lists, ListOf
  <2>4. IsFiniteSet(Lists(ProxyName[q])')
    BY BusAssumption, FS_Subset DEF Lists
  <2>5. Cardinality(Lists(ProxyName[q])') # 0
    BY <2>3, <2>4, FS_EmptySet
  <2>6. matchRefs'[ProxyName[q]] > 0
    <3>1. /\ matchRefs'[ProxyName[q]] = Cardinality(Lists(ProxyName[q])')
          /\ matchRefs'[ProxyName[q]] \in Nat
      BY <2>1, <2>2, LeavesCounted
    <3> QED
      BY <2>5, <3>1
  <2> QED
    BY <1>1, <2>1, <2>2, <2>6
<1> HIDE DEF two, left
<1> QED
  BY <1>1, <1>2, <1>3 DEF RulesInv

\* The bus adds a rule it does not have, or removes one it has.
LEMMA BusRules ==
  ASSUME Inv, RulesInv, CallsInv, BusHandlesRequest, UNCHANGED <<proxyVars, tables>>
  PROVE  RulesInv'
<1> DEFINE req == Head(toBus)
<1>1. /\ toBus \in Seq(Requests) /\ toBus # <<>> /\ req = toBus[1]
      /\ rules \in [Rules -> Nat] /\ connected
      /\ toBus' = Tail(toBus)
  BY QueueTypes DEF BusHandlesRequest, CallsInv, Inv, TypeOK, BusTypeOK
<1>2. UNCHANGED <<status, iface, rulesTable, connected>>
  BY DEF BusHandlesRequest, proxyVars, tables
<1>3. ASSUME NEW r \in Rules
      PROVE  Turning(toBus, r, rules[r], IF Needed(r) THEN 1 ELSE 0)'
  <2> DEFINE e == IF Needed(r) THEN 1 ELSE 0
  <2>1. Turning(toBus, r, rules[r], e)
    BY <1>1 DEF RulesInv
  <2> HIDE DEF e
  <2>2. /\ Adds(toBus, r, 1) => rules[r] = 0 /\ Turning(Tail(toBus), r, 1, e)
        /\ Drops(toBus, r, 1) => rules[r] = 1 /\ Turning(Tail(toBus), r, 0, e)
        /\ ~Adds(toBus, r, 1) /\ ~Drops(toBus, r, 1) => Turning(Tail(toBus), r, rules[r], e)
    BY <1>1, <2>1, TurningTail
  <2>3. rules'[r] = IF Adds(toBus, r, 1) THEN rules[r] + 1
                    ELSE IF Drops(toBus, r, 1) /\ rules[r] > 0 THEN rules[r] - 1
                    ELSE rules[r]
    BY <1>1 DEF BusHandlesRequest, Adds, Drops
  <2>4. Turning(Tail(toBus), r, rules'[r], e)
    BY <2>2, <2>3
  <2>5. e' = e
    BY <1>2 DEF e, Needed, ListOf, TrackingFor, Listed
  <2>6. Turning(toBus', r, rules'[r], e')
    BY <1>1, <2>4, <2>5
  <2> QED
    BY <2>6 DEF e
<1> QED
  BY <1>2, <1>3 DEF RulesInv, Listed

\* Every step keeps the rules on the bus and the requests under way in step
\* with the lists.
LEMMA StepRules ==
  ASSUME NoPeers, Inv, MatchRefsCount, CallsInv, RulesInv, Shapes
  PROVE  RulesInv'
<1>1. ASSUME Listed' = Listed, UNCHANGED <<iface, rulesTable, rules, connected>>,
             toBus' = toBus \/ \E calls : toBus' = Forget(toBus, calls)
      PROVE  RulesInv'
  <2>1. \A r : Needed(r)' = Needed(r)
    BY <1>1 DEF Needed, ListOf, TrackingFor
  <2>2. \A r, s, e : Turning(toBus, r, s, e) => Turning(toBus', r, s, e)
    BY <1>1, QueueTypes, TurningForget
  <2> QED
    BY <1>1, <2>1, <2>2 DEF RulesInv
<1>2. ASSUME ~connected', Listed' = Listed, UNCHANGED rulesTable
      PROVE  RulesInv'
  BY <1>2 DEF RulesInv
<1>3. ASSUME NEW p \in Proxies, NameCallFails(p) \/ ResolveOwner(p)
      PROVE  RulesInv'
  <2>1. Listed' = Listed
    BY <1>3 DEF NameCallFails, ResolveOwner, Listed, Inv, TypeOK
  <2> QED
    BY <1>1, <1>3, <2>1 DEF NameCallFails, ResolveOwner, busVars, managerVars
<1>4. CASE GotNameOwner \/ NameAppears \/ NameMovesOrGoes
  BY <1>1, <1>4 DEF GotNameOwner, NameAppears, NameMovesOrGoes, Listed
<1>5. CASE Skips \/ Rests
  BY <1>1, <1>5 DEF Skips, Rests, wire, proxyVars, tables, Listed
<1>6. CASE BusEvent /\ UNCHANGED <<proxyVars, tables>>
  <2>1. Listed' = Listed /\ UNCHANGED <<iface, rulesTable>>
    BY <1>6 DEF proxyVars, tables, Listed
  <2>2. ~connected' \/ UNCHANGED <<toBus, rules, connected>>
    BY <1>6 DEF BusEvent, OwnerChanges, UniqueVanishes, OwnerEmits, ConnectionLost
  <2> QED
    BY <1>1, <1>2, <2>1, <2>2
<1> QED
  BY <1>3, <1>4, <1>5, <1>6, RegistersRules, LeavesRules, BusRules DEF Shapes

\* Along such a queue, additions and removals differ by what the number of the
\* rule changes.
LEMMA TurningCount ==
  ASSUME NEW T, NEW q \in Seq(T), NEW r, NEW s \in {0, 1}, NEW e \in {0, 1},
         Turning(q, r, s, e)
  PROVE  s + Cardinality({k \in DOMAIN q : q[k].type = "AddMatch" /\ q[k].rule = r})
           = Cardinality({k \in DOMAIN q : q[k].type = "RemoveMatch" /\ q[k].rule = r}) + e
<1>1. PICK g \in [0 .. Len(q) -> {0, 1}] : Turns(q, r, g) /\ g[0] = s /\ g[Len(q)] = e
  BY DEF Turning
<1>2. Len(q) \in Nat /\ DOMAIN q = 1 .. Len(q)
  OBVIOUS
<1> DEFINE A(k) == {j \in 1 .. k : Adds(q, r, j)}
           D(k) == {j \in 1 .. k : Drops(q, r, j)}
           S == {k \in Nat : k <= Len(q) =>
                   g[0] + Cardinality(A(k)) = Cardinality(D(k)) + g[k]}
<1>3. \A k \in Nat : /\ IsFiniteSet(A(k)) /\ Cardinality(A(k)) \in Nat
                    /\ IsFiniteSet(D(k)) /\ Cardinality(D(k)) \in Nat
  <2> TAKE k \in Nat
  <2>1. IsFiniteSet(1 .. k)
    BY FS_Interval
  <2>2. A(k) \subseteq 1 .. k /\ D(k) \subseteq 1 .. k
    OBVIOUS
  <2> QED
    BY <2>1, <2>2, FS_Subset, FS_CardinalityType
<1>4. 0 \in S
  <2>1. A(0) = {} /\ D(0) = {}
    OBVIOUS
  <2>2. g[0] \in {0, 1}
    BY <1>1, <1>2
  <2> QED
    BY <2>1, <2>2, FS_EmptySet
<1>5. ASSUME NEW k \in Nat, k \in S
      PROVE  k + 1 \in S
  <2> SUFFICES ASSUME k + 1 <= Len(q)
               PROVE  g[0] + Cardinality(A(k + 1)) = Cardinality(D(k + 1)) + g[k + 1]
    OBVIOUS
  <2>1. k + 1 \in 1 .. Len(q) /\ (k + 1) - 1 = k /\ k + 1 \notin 1 .. k
    BY <1>2
  <2>2. /\ Adds(q, r, k + 1) => g[k] = 0 /\ g[k + 1] = 1
        /\ Drops(q, r, k + 1) => g[k] = 1 /\ g[k + 1] = 0
        /\ ~Adds(q, r, k + 1) /\ ~Drops(q, r, k + 1) => g[k + 1] = g[k]
    BY <1>1, <2>1 DEF Turns
  <2>3. g[0] + Cardinality(A(k)) = Cardinality(D(k)) + g[k]
    BY <1>2, <1>5
  <2>4. g[0] \in {0, 1} /\ g[k] \in {0, 1} /\ g[k + 1] \in {0, 1}
    BY <1>1, <1>2
  <2>5. ~(Adds(q, r, k + 1) /\ Drops(q, r, k + 1))
    BY DEF Adds, Drops
  <2>6. Cardinality(A(k + 1)) = IF Adds(q, r, k + 1) THEN Cardinality(A(k)) + 1
                                ELSE Cardinality(A(k))
    <3>1. A(k + 1) = IF Adds(q, r, k + 1) THEN A(k) \union {k + 1} ELSE A(k)
      OBVIOUS
    <3>2. k + 1 \notin A(k)
      BY <2>1
    <3> HIDE DEF A
    <3> QED
      BY <1>3, <3>1, <3>2, FS_AddElement
  <2>7. Cardinality(D(k + 1)) = IF Drops(q, r, k + 1) THEN Cardinality(D(k)) + 1
                                ELSE Cardinality(D(k))
    <3>1. D(k + 1) = IF Drops(q, r, k + 1) THEN D(k) \union {k + 1} ELSE D(k)
      OBVIOUS
    <3>2. k + 1 \notin D(k)
      BY <2>1
    <3> HIDE DEF D
    <3> QED
      BY <1>3, <3>1, <3>2, FS_AddElement
  <2>8. Cardinality(A(k)) \in Nat /\ Cardinality(D(k)) \in Nat
    BY <1>3
  <2> HIDE DEF A, D
  <2>9. CASE Adds(q, r, k + 1)
    BY <2>2, <2>3, <2>4, <2>5, <2>6, <2>7, <2>8, <2>9
  <2>10. CASE Drops(q, r, k + 1)
    BY <2>2, <2>3, <2>4, <2>5, <2>6, <2>7, <2>8, <2>10
  <2>11. CASE ~Adds(q, r, k + 1) /\ ~Drops(q, r, k + 1)
    BY <2>2, <2>3, <2>6, <2>7, <2>11
  <2> QED
    BY <2>9, <2>10, <2>11
<1>6. Len(q) \in S
  <2> HIDE DEF S
  <2> QED
    BY <1>2, <1>4, <1>5, SetInduction
<1>7. g[0] + Cardinality(A(Len(q))) = Cardinality(D(Len(q))) + g[Len(q)]
  BY <1>2, <1>6
<1> QED
  BY <1>1, <1>2, <1>7 DEF Adds, Drops

--------------------------------------------------------------------------------
(* The theorems *)

BooksInv == Inv /\ CallsInv /\ MatchRefsCount /\ OrphansInv

\* A program that starts has sent and heard nothing.
LEMMA InitBooks ==
  ASSUME Init
  PROVE  BooksInv
<1>1. Inv
  BY InitInv
<1>2. toBus = <<>> /\ toClient = <<>> /\ nameCall = [p \in Proxies |-> FALSE] /\ connected
  BY DEF Init, BusInit
<1>3. CallsInv
  BY <1>2 DEF CallsInv, OneCallIn
<1>4. MatchRefsCount
  BY DEF Init, MatchRefsCount
<1>5. OrphansInv
  BY <1>2 DEF Init, Idle, OrphansInv, Heard, OnlyOrphansDestroyed
<1> QED
  BY <1>1, <1>3, <1>4, <1>5 DEF BooksInv

\* The books are kept by every step, whatever names are watched and when.
THEOREM BooksInvariance == Spec => []BooksInv
<1>1. Init => BooksInv
  BY InitBooks
<1>2. BooksInv /\ [Next]_vars => BooksInv'
  BY StepShape, StepInv, StepCalls, StepRefs, StepOrphans DEF BooksInv
<1> QED
  BY <1>1, <1>2, PTL DEF Spec

\* Outside Disconnected, only proxies bound to a unique name that has left the
\* bus are destroyed by the manager (unassociate_proxies).
THEOREM OrphansCorrect == Spec => []OnlyOrphansDestroyed
<1>1. BooksInv => OnlyOrphansDestroyed
  BY DEF BooksInv, OrphansInv
<1> QED
  BY <1>1, BooksInvariance, PTL

\* A program that starts needs no rule and has none.
LEMMA InitRules ==
  ASSUME Init
  PROVE  RulesInv
<1>1. toBus = <<>> /\ Listed = {} /\ rules = [r \in Rules |-> 0]
  BY DEF Init, BusInit, Listed
<1>2. ASSUME NEW r \in Rules
      PROVE  Turning(toBus, r, rules[r], IF Needed(r) THEN 1 ELSE 0)
  <2> DEFINE g == [k \in 0 .. Len(toBus) |-> 0]
  <2>1. g \in [0 .. Len(toBus) -> {0, 1}] /\ g[0] = 0 /\ g[Len(toBus)] = 0 /\ Len(toBus) = 0
    BY <1>1
  <2>2. Turns(toBus, r, g)
    BY <2>1 DEF Turns
  <2>3. rules[r] = 0 /\ ~Needed(r)
    BY <1>1 DEF Needed, ListOf, TrackingFor
  <2> HIDE DEF g
  <2> QED
    BY <2>1, <2>2, <2>3 DEF Turning
<1> QED
  BY <1>1, <1>2 DEF RulesInv

\* Without peer proxies, the bus has the rule for a list or a name exactly once
\* while it is needed, whatever requests are under way.
THEOREM RulesInvariance ==
  ASSUME NoPeers
  PROVE  Spec => [](BooksInv /\ RulesInv)
<1>1. Init => BooksInv /\ RulesInv
  BY InitBooks, InitRules
<1>2. BooksInv /\ RulesInv /\ [Next]_vars => BooksInv' /\ RulesInv'
  BY StepShape, StepInv, StepCalls, StepRefs, StepOrphans, StepRules DEF BooksInv
<1> QED
  BY <1>1, <1>2, PTL DEF Spec

\* The rules on the bus follow the lists and names of the proxies, for proxies
\* that are bound to a name (register, unregister, owner_match_rules).
THEOREM RulesCorrect ==
  ASSUME NoPeers
  PROVE  Spec => []RulesFollowProxies
<1>1. BooksInv /\ RulesInv => RulesFollowProxies
  <2> SUFFICES ASSUME Inv, RulesInv, connected, NEW r \in Rules
               PROVE  rules[r] + InFlight("AddMatch", r)
                        = InFlight("RemoveMatch", r)
                            + (IF Needed(r) /\ r.name # NoName THEN 1 ELSE 0)
    BY DEF BooksInv, RulesFollowProxies
  <2> DEFINE e == IF Needed(r) THEN 1 ELSE 0
  <2>1. Turning(toBus, r, rules[r], e) /\ e \in {0, 1} /\ toBus \in Seq(Requests)
    BY QueueTypes DEF RulesInv
  <2>2. rules[r] \in {0, 1}
    BY <2>1, QueueTypes DEF Turning
  <2>3. Needed(r) => r.name # NoName
    BY DEF Needed, ListOf, TrackingFor, Listed, NoPeers
  <2> HIDE DEF e
  <2>4. rules[r] + InFlight("AddMatch", r) = InFlight("RemoveMatch", r) + e
    BY <2>1, <2>2, TurningCount DEF InFlight
  <2> QED
    BY <2>3, <2>4 DEF e
<1> QED
  BY <1>1, RulesInvariance, PTL
================================================================================
