-------------------------- MODULE ProxyTrackingProofs --------------------------
(******************************************************************************)
(* Proofs about the tracking of owners: what owner_names, associated and the  *)
(* unassociated list say of a well-known name is what the bus said, as far as *)
(* the client has read its messages.                                          *)
(*                                                                            *)
(* All of it is for programs that do not watch a name again after its last    *)
(* proxy left (~Reuse): with Reuse, an announcement for the earlier proxies   *)
(* may meet the later ones, and the invariants below do not hold.             *)
(*                                                                            *)
(* The argument has three layers.  Requests: while there is a proxy for a     *)
(* name, its rule is on the bus or on the way there, before any question for  *)
(* its owner.  Histories: from the moment the client knows the owner of a     *)
(* name, the messages in its queue tell every change of it (Follows).         *)
(* Tables: what the manager holds agrees with the first owner of that history *)
(* (Sure).                                                                    *)
(******************************************************************************)
EXTENDS ProxyManagerProofs

--------------------------------------------------------------------------------
(* Names that were never watched, and proxies inside set_interface *)

InForce(n) == rules[OwnerRule(n)] > 0
Unborn(n) == \A p \in Proxies : ProxyName[p] = n => status[p] = "unborn"

\* A proxy for a well-known name is only moved while another one stays.
MovingInv ==
  \A p \in Proxies : status[p] = "moving" /\ ~ForOwner(p) => TrackingFor(ProxyName[p]) # {}

\* Of a name no proxy was ever made for, the bus has not heard, and the client
\* has not heard of it.
FreshInv ==
  \A n \in Names : Unborn(n) =>
    /\ ~InForce(n) /\ ~Heard(n)
    /\ \A k \in 1 .. Len(toBus) :
         ~Adds(toBus, OwnerRule(n), k) /\ ~Drops(toBus, OwnerRule(n), k)

\* Which proxies there are for a name.
LEMMA TrackingShapes ==
  ASSUME Inv
  PROVE  /\ \A p \in Proxies, i \in Ifaces : Registers(p, i) =>
              \A n : TrackingFor(n)' = IF n = ProxyName[p] THEN TrackingFor(n) \union {p}
                                       ELSE TrackingFor(n)
         /\ \A p \in Proxies, st \in Statuses : Leaves(p, st) =>
              \A n : TrackingFor(n)' = TrackingFor(n) \ {p}
         /\ UNCHANGED status \/ (\E p \in Proxies : ResolveOwner(p)) =>
              Listed' = Listed /\ \A n : TrackingFor(n)' = TrackingFor(n)
<1>1. ASSUME NEW p \in Proxies, NEW i \in Ifaces, Registers(p, i), NEW n
      PROVE  TrackingFor(n)' = IF n = ProxyName[p] THEN TrackingFor(n) \union {p}
                               ELSE TrackingFor(n)
  BY <1>1, RegistersLists DEF TrackingFor
<1>2. ASSUME NEW p \in Proxies, NEW st \in Statuses, Leaves(p, st), NEW n
      PROVE  TrackingFor(n)' = TrackingFor(n) \ {p}
  BY <1>2, LeavesLists DEF TrackingFor
<1>3. ASSUME UNCHANGED status \/ (\E p \in Proxies : ResolveOwner(p)), NEW n
      PROVE  Listed' = Listed /\ TrackingFor(n)' = TrackingFor(n)
  <2>1. Listed' = Listed
    BY <1>3 DEF ResolveOwner, Listed, Inv, TypeOK
  <2> QED
    BY <2>1 DEF TrackingFor
<1> QED
  BY <1>1, <1>2, <1>3

\* Only registration, unregistration and ResolveOwner change a status.
LEMMA StatusShapes ==
  ASSUME Shapes
  PROVE  \/ \E p \in Proxies, i \in Ifaces : Registers(p, i)
         \/ \E p \in Proxies, st \in Statuses : Leaves(p, st)
         \/ \E p \in Proxies : ResolveOwner(p)
         \/ UNCHANGED status
BY DEF Shapes, GotNameOwner, NameAppears, NameMovesOrGoes, Skips, Rests, NameCallFails, proxyVars

\* set_interface is allowed on a proxy only if another one keeps the name.
LEMMA StepMoving ==
  ASSUME ~Reuse, Inv, MovingInv, Shapes
  PROVE  MovingInv'
<1> SUFFICES ASSUME NEW q \in Proxies, status'[q] = "moving", ~ForOwner(q)
             PROVE  TrackingFor(ProxyName[q])' # {}
  BY DEF MovingInv, ForOwner
<1>1. ASSUME NEW p \in Proxies, NEW i \in Ifaces, Registers(p, i)
      PROVE  TrackingFor(ProxyName[q])' # {}
  <2>1. status[q] = "moving" /\ q # p
    BY <1>1 DEF Registers, Register, Inv, TypeOK
  <2> QED
    BY <1>1, <2>1, TrackingShapes DEF MovingInv
<1>2. ASSUME NEW p \in Proxies, NEW st \in Statuses, Leaves(p, st)
      PROVE  TrackingFor(ProxyName[q])' # {}
  <2>1. status[q] # "moving" /\ status[p] = "registered"
    BY <1>2 DEF Leaves, Free, UnregisterFault
  <2>2. q = p /\ MayWatch(p)
    BY <1>2, <2>1 DEF Leaves, Unregister, Inv, TypeOK
  <2>3. PICK r \in Listed \ {p} : ProxyName[r] = ProxyName[p]
    BY <2>1, <2>2 DEF MayWatch
  <2> QED
    BY <1>2, <2>2, <2>3, TrackingShapes DEF TrackingFor
<1>3. CASE UNCHANGED status \/ \E p \in Proxies : ResolveOwner(p)
  <2>1. status[q] = "moving"
    BY <1>3 DEF ResolveOwner, Inv, TypeOK
  <2> QED
    BY <1>3, <2>1, TrackingShapes DEF MovingInv
<1> QED
  BY <1>1, <1>2, <1>3, StatusShapes

\* The first proxy for a well-known name finds it fresh.
LEMMA FirstIsFresh ==
  ASSUME ~Reuse, Inv, MovingInv, NEW p \in Proxies, NEW i \in Ifaces, Registers(p, i),
         ProxyName[p] \in Names, TrackingFor(ProxyName[p]) = {}
  PROVE  Unborn(ProxyName[p])
<1>1. ~ForOwner(p) /\ status[p] # "moving"
  BY DEF ForOwner, MovingInv
<1>2. MayWatch(p) /\ ~\E q \in Listed \ {p} : ProxyName[q] = ProxyName[p]
  BY <1>1 DEF Registers, TrackingFor
<1> QED
  BY <1>1, <1>2 DEF MayWatch, Unborn

\* What the shapes do to the queue of requests.
LEMMA StepFresh ==
  ASSUME Inv, FreshInv, Shapes
  PROVE  FreshInv'
<1> SUFFICES ASSUME NEW n \in Names, Unborn(n)'
             PROVE  /\ ~InForce(n)' /\ ~Heard(n)'
                    /\ \A k \in 1 .. Len(toBus') :
                         ~Adds(toBus', OwnerRule(n), k) /\ ~Drops(toBus', OwnerRule(n), k)
  BY DEF FreshInv
<1> DEFINE r == OwnerRule(n)
           Quiet(q) == \A k \in 1 .. Len(q) : ~Adds(q, r, k) /\ ~Drops(q, r, k)
<1>1. Unborn(n)
  <2>1. status \in [Proxies -> Statuses]
    BY DEF Inv, TypeOK
  <2>2. \A q \in Proxies : status'[q] = "unborn" => status[q] = "unborn"
    <3>1. ASSUME NEW p \in Proxies, NEW i \in Ifaces, Registers(p, i)
          PROVE  \A q \in Proxies : status'[q] = "unborn" => status[q] = "unborn"
      BY <2>1, <3>1 DEF Registers, Register
    <3>2. ASSUME NEW p \in Proxies, NEW st \in Statuses, Leaves(p, st)
          PROVE  \A q \in Proxies : status'[q] = "unborn" => status[q] = "unborn"
      BY <2>1, <3>2 DEF Leaves, Unregister
    <3>3. ASSUME NEW p \in Proxies, ResolveOwner(p)
          PROVE  \A q \in Proxies : status'[q] = "unborn" => status[q] = "unborn"
      BY <2>1, <3>3 DEF ResolveOwner
    <3> QED
      BY <3>1, <3>2, <3>3, StatusShapes
  <2> QED
    BY <2>2 DEF Unborn
<1>2. ~InForce(n) /\ ~Heard(n) /\ Quiet(toBus) /\ toBus \in Seq(Requests)
  BY <1>1, QueueTypes DEF FreshInv
<1>3. rules \in [Rules -> Nat] /\ r \in Rules
  BY DEF Inv, TypeOK, BusTypeOK, Rules, OwnerRule, BusNames
<1>4. ~Heard(n)'
  <2>1. n \notin Uniques
    BY BusAssumption
  <2> QED
    BY <1>2, <2>1, NewsFromOutside DEF InForce
<1>5. ASSUME NEW T, NEW q \in Seq(T), Quiet(q), NEW c, NEW x \in T,
             x.type = "AddMatch" => x.rule # r, x.type = "RemoveMatch" => x.rule # r
      PROVE  Quiet(Queued(q, c, x)) /\ Queued(q, c, x) \in Seq(T)
  <2>1. /\ Append(q, x) \in Seq(T) /\ Len(Append(q, x)) = Len(q) + 1 /\ Len(q) \in Nat
        /\ \A k \in 1 .. Len(q) : Append(q, x)[k] = q[k]
        /\ Append(q, x)[Len(q) + 1] = x
    OBVIOUS
  <2>2. Quiet(Append(q, x))
    <3> SUFFICES ASSUME NEW k \in 1 .. Len(q) + 1
                 PROVE  ~Adds(Append(q, x), r, k) /\ ~Drops(Append(q, x), r, k)
      BY <2>1
    <3>1. k \in 1 .. Len(q) \/ k = Len(q) + 1
      BY <2>1
    <3> HIDE DEF r
    <3> QED
      BY <1>5, <2>1, <3>1 DEF Adds, Drops
  <2> HIDE DEF Quiet
  <2> QED
    BY <1>5, <2>1, <2>2 DEF Queued
<1>6. \A calls : Quiet(Forget(toBus, calls)) /\ Forget(toBus, calls) \in Seq(Requests)
  <2> TAKE calls
  <2>1. Len(Forget(toBus, calls)) = Len(toBus)
    BY <1>2, ForgetItems
  <2>2. \A k \in 1 .. Len(toBus) : Forget(toBus, calls)[k] = toBus[k]
                                     \/ Forget(toBus, calls)[k] = Ignored
    BY <1>2, ForgetItems
  <2>3. Forget(toBus, calls) \in Seq(Requests)
    BY <1>2, ForgetType
  <2> HIDE DEF r
  <2> QED
    BY <1>2, <2>1, <2>2, <2>3 DEF Adds, Drops, Ignored
<1>7. \A m, i : m # n => SignalRule(m, i) # r /\ OwnerRule(m) # r /\ SignalRule(n, i) # r
  BY DEF SignalRule, OwnerRule
<1>8. ASSUME NEW p \in Proxies, NEW i \in Ifaces, Registers(p, i)
      PROVE  Quiet(toBus') /\ ~InForce(n)'
  <2> DEFINE m == ProxyName[p]
             a == [type |-> "AddMatch", rule |-> SignalRule(m, i)]
             b == [type |-> "AddMatch", rule |-> OwnerRule(m)]
             c == [type |-> "GetNameOwner", call |-> p, name |-> m]
             T == Requests \union {a, b, c}
             ca == m # NoName /\ ListOf(m, i) = {}
             cb == ca /\ matchRefs[m] = 0
  <2>1. m # n
    BY <1>8 DEF Registers, Register, Unborn, Inv, TypeOK
  <2>2. toBus \in Seq(T) /\ a \in T /\ b \in T /\ c \in T
    BY <1>2
  <2>3. toBus' = IF connected THEN Queued(Queued(Queued(toBus, ca, a), cb, b), nameCall'[p], c)
                 ELSE toBus
    BY <1>8, RegisterSends DEF Registers
  <2>4. /\ a.type # "RemoveMatch" /\ a.rule # r
        /\ b.type # "RemoveMatch" /\ b.rule # r
        /\ c.type # "RemoveMatch" /\ c.type # "AddMatch"
    BY <1>7, <2>1
  <2>5. UNCHANGED rules
    BY <1>8 DEF Registers, Register
  <2> HIDE DEF a, b, c, T, ca, cb, r, Quiet
  <2>6. Quiet(Queued(toBus, ca, a)) /\ Queued(toBus, ca, a) \in Seq(T)
    BY <1>2, <1>5, <2>2, <2>4
  <2>7. Quiet(Queued(Queued(toBus, ca, a), cb, b)) /\ Queued(Queued(toBus, ca, a), cb, b) \in Seq(T)
    BY <1>5, <2>2, <2>4, <2>6
  <2>8. Quiet(Queued(Queued(Queued(toBus, ca, a), cb, b), nameCall'[p], c))
    BY <1>5, <2>2, <2>4, <2>7
  <2> QED
    BY <1>2, <2>3, <2>5, <2>8 DEF InForce
<1>9. ASSUME NEW p \in Proxies, NEW st \in Statuses, Leaves(p, st)
      PROVE  Quiet(toBus') /\ ~InForce(n)'
  <2> DEFINE m == ProxyName[p]
             cancelled == IF ~ForOwner(p) /\ ~associated[p] /\ nameCall[p] THEN {p} ELSE {}
             left == Forget(toBus, cancelled)
             a == [type |-> "RemoveMatch", rule |-> SignalRule(m, iface[p])]
             b == [type |-> "RemoveMatch", rule |-> OwnerRule(m)]
             T == Requests \union {a, b}
             ca == LastOfList(p)
             cb == ca /\ m # NoName /\ matchRefs[m] = 1
  <2>1. m # n
    <3>1. status[p] = "registered"
      BY <1>9 DEF Leaves, UnregisterFault
    <3> QED
      BY <1>1, <3>1 DEF Unborn
  <2>2. Quiet(left) /\ left \in Seq(Requests)
    BY <1>6
  <2>3. toBus' = IF connected THEN Queued(Queued(left, ca, a), cb, b) ELSE left
    BY <1>9, UnregisterSends DEF Leaves
  <2>4. /\ a.type # "AddMatch" /\ a.rule # r
        /\ b.type # "AddMatch" /\ b.rule # r
    BY <1>7, <2>1
  <2>5. UNCHANGED rules
    BY <1>9 DEF Leaves, Unregister
  <2> HIDE DEF left
  <2>6. left \in Seq(T) /\ a \in T /\ b \in T
    BY <2>2
  <2> HIDE DEF a, b, T, ca, cb, r, Quiet
  <2>7. Quiet(Queued(left, ca, a)) /\ Queued(left, ca, a) \in Seq(T)
    BY <1>5, <2>2, <2>4, <2>6
  <2>8. Quiet(Queued(Queued(left, ca, a), cb, b))
    BY <1>5, <2>4, <2>6, <2>7
  <2> QED
    BY <1>2, <2>2, <2>3, <2>5, <2>8 DEF InForce
<1>10. CASE BusHandlesRequest
  <2>1. toBus # <<>> /\ toBus' = Tail(toBus) /\ Head(toBus) = toBus[1] /\ 1 \in 1 .. Len(toBus)
    BY <1>2, <1>10 DEF BusHandlesRequest
  <2>2. \A k \in 1 .. Len(Tail(toBus)) : Tail(toBus)[k] = toBus[k + 1] /\ k + 1 \in 1 .. Len(toBus)
    BY <1>2, <2>1
  <2>3. Quiet(toBus')
    <3> HIDE DEF r
    <3> QED
      BY <1>2, <2>1, <2>2 DEF Adds, Drops
  <2>4. rules'[r] = rules[r]
    BY <1>2, <1>3, <1>10, <2>1 DEF BusHandlesRequest, Adds, Drops
  <2>5. ~InForce(n)'
    BY <1>2, <2>4 DEF InForce
  <2> QED
    BY <1>4, <2>3, <2>5
<1>11. CASE UNCHANGED rules
             /\ (toBus' = toBus \/ toBus' = <<>> \/ \E calls : toBus' = Forget(toBus, calls))
  <2>1. Quiet(<<>>)
    OBVIOUS
  <2>2. ~InForce(n)'
    BY <1>2, <1>11 DEF InForce
  <2> HIDE DEF Quiet
  <2>3. Quiet(toBus')
    BY <1>2, <1>6, <1>11, <2>1
  <2> QED
    BY <1>4, <2>2, <2>3 DEF Quiet
<1>12. CASE BusEvent
  BY <1>11, <1>12 DEF BusEvent, OwnerChanges, UniqueVanishes, OwnerEmits, ConnectionLost
<1>13. CASE GotNameOwner \/ NameAppears \/ NameMovesOrGoes \/ Skips
  BY <1>11, <1>13 DEF GotNameOwner, NameAppears, NameMovesOrGoes, Skips
<1>14. CASE Rests \/ \E p \in Proxies : NameCallFails(p) \/ ResolveOwner(p)
  BY <1>11, <1>14 DEF Rests, NameCallFails, ResolveOwner, wire, busVars
<1> QED
  BY <1>4, <1>8, <1>9, <1>10, <1>12, <1>13, <1>14 DEF Shapes

--------------------------------------------------------------------------------
(* Requests: the rule for a name precedes every question for its owner *)

\* Is an answer for n in the queue?
Answered(n) ==
  \E k \in 1 .. Len(toClient) : Replies(toClient, k) /\ ProxyName[toClient[k].call] = n

\* Messages of a kind M come from earlier ones, or are put last.
LEMMA MessageOrigin ==
  ASSUME Inv, Shapes, NEW M, Ignored \notin M,
         NEW i \in 1 .. Len(toClient'), toClient'[i] \in M
  PROVE  \/ \E k \in 1 .. Len(toClient) : toClient[k] \in M
         \/ (BusHandlesRequest \/ BusEvent) /\ toClient' = Append(toClient, toClient'[i])
<1> DEFINE Old == \E k \in 1 .. Len(toClient) : toClient[k] \in M
<1>1. toClient \in Seq(Messages) /\ Len(toClient) \in Nat
  BY QueueTypes
<1>2. ASSUME UNCHANGED toClient
      PROVE  Old
  BY <1>2
<1>3. ASSUME NEW q \in Seq(Messages), NEW calls, toClient' = Forget(q, calls)
      PROVE  i \in 1 .. Len(q) /\ q[i] \in M
  <2>1. Len(toClient') = Len(q) /\ \A k \in 1 .. Len(q) : toClient'[k] = q[k] \/ toClient'[k] = Ignored
    BY <1>3, ForgetItems
  <2> QED
    BY <2>1
<1>4. ASSUME toClient # <<>>, i \in 1 .. Len(Tail(toClient)), Tail(toClient)[i] \in M
      PROVE  Old
  <2>1. i + 1 \in 1 .. Len(toClient) /\ Tail(toClient)[i] = toClient[i + 1]
    BY <1>1, <1>4
  <2> QED
    BY <1>4, <2>1
<1>5. ASSUME NEW m, toClient' = Append(toClient, m)
      PROVE  Old \/ toClient'[i] = m
  <2> DEFINE T == Messages \union {m}
  <2>1. toClient \in Seq(T) /\ m \in T
    BY <1>1
  <2> HIDE DEF T
  <2>2. /\ Len(toClient') = Len(toClient) + 1
        /\ \A k \in 1 .. Len(toClient) : toClient'[k] = toClient[k]
        /\ toClient'[Len(toClient) + 1] = m
    BY <1>5, <2>1
  <2>3. i \in 1 .. Len(toClient) \/ i = Len(toClient) + 1
    BY <1>1, <2>2
  <2> QED
    BY <2>2, <2>3
<1> HIDE DEF Old
<1>6. ASSUME NEW p \in Proxies, NEW st \in Statuses, Leaves(p, st)
      PROVE  Old
  BY <1>1, <1>3, <1>6 DEF Leaves, Unregister, Old
<1>7. ASSUME NEW p \in Proxies,
             NameCallFails(p) \/ ResolveOwner(p) \/ \E j \in Ifaces : Registers(p, j)
      PROVE  Old
  BY <1>2, <1>7 DEF Registers, Register, NameCallFails, ResolveOwner, busVars
<1>8. CASE GotNameOwner \/ NameAppears \/ Skips
  <2>1. toClient # <<>> /\ toClient' = Tail(toClient)
    BY <1>8 DEF GotNameOwner, NameAppears, Skips, Dispatching
  <2>2. Old
    BY <1>4, <2>1
  <2> QED
    BY <2>2 DEF Old
<1>9. CASE NameMovesOrGoes
  <2>1. toClient # <<>> /\ Tail(toClient) \in Seq(Messages)
    BY <1>1, <1>9 DEF NameMovesOrGoes, Dispatching
  <2>2. PICK calls : toClient' = Forget(Tail(toClient), calls)
    BY <1>9 DEF NameMovesOrGoes
  <2>3. Old
    BY <1>3, <1>4, <2>1, <2>2
  <2> QED
    BY <2>3 DEF Old
<1>10. ASSUME BusHandlesRequest \/ BusEvent
       PROVE  toClient' = toClient \/ \E m : toClient' = Append(toClient, m)
  BY <1>10 DEF BusHandlesRequest, BusEvent, OwnerChanges, UniqueVanishes, OwnerEmits,
               ConnectionLost, Announced
<1>11. ASSUME BusHandlesRequest \/ BusEvent
       PROVE  Old \/ toClient' = Append(toClient, toClient'[i])
  BY <1>2, <1>5, <1>10, <1>11
<1>12. CASE Rests
  BY <1>2, <1>12 DEF Rests, wire, Old
<1> QED
  BY <1>6, <1>7, <1>8, <1>9, <1>11, <1>12 DEF Shapes, Old

\* Answers come from the bus, for a proxy that is waiting.
LEMMA AnswersFromBus ==
  ASSUME Inv, CallsInv, Shapes, NEW n
  PROVE  /\ Answered(n) => TrackingFor(n) # {}
         /\ \A k \in 1 .. Len(toBus) : Asks(toBus, k) /\ toBus[k].name = n => TrackingFor(n) # {}
         /\ Answered(n)' => \/ Answered(n)
                            \/ /\ BusHandlesRequest
                               /\ toBus # <<>> /\ Asks(toBus, 1) /\ toBus[1].name = n
<1>1. /\ toClient \in Seq(Messages) /\ toBus \in Seq(Requests)
      /\ DOMAIN toBus = 1 .. Len(toBus) /\ DOMAIN toClient = 1 .. Len(toClient)
  BY QueueTypes
<1>2. ASSUME Answered(n)
      PROVE  TrackingFor(n) # {}
  <2>1. PICK k \in 1 .. Len(toClient) : Replies(toClient, k) /\ ProxyName[toClient[k].call] = n
    BY <1>2 DEF Answered
  <2>2. toClient[k] \in Messages
    BY <1>1
  <2>3. toClient[k].call \in Proxies
    BY <2>1, <2>2 DEF Messages, Replies, Ignored
  <2> QED
    BY <2>1, <2>3 DEF CallsInv, OneCallIn, Tracking, TrackingFor
<1>3. ASSUME NEW k \in 1 .. Len(toBus), Asks(toBus, k), toBus[k].name = n
      PROVE  TrackingFor(n) # {}
  <2>1. toBus[k] \in Requests
    BY <1>1
  <2>2. toBus[k].call \in Proxies
    BY <1>3, <2>1 DEF Requests, Asks, Ignored
  <2> QED
    BY <1>3, <2>2 DEF CallsInv, OneCallIn, Tracking, TrackingFor
<1>4. ASSUME Answered(n)', ~Answered(n)
      PROVE  BusHandlesRequest /\ toBus # <<>> /\ Asks(toBus, 1) /\ toBus[1].name = n
  <2> DEFINE M == {m \in {toClient'[k] : k \in 1 .. Len(toClient')} :
                     m.type = "reply" /\ ProxyName[m.call] = n}
  <2>1. PICK i \in 1 .. Len(toClient') : toClient'[i] \in M
    BY <1>4 DEF Answered, Replies
  <2>2. Ignored \notin M
    BY DEF Ignored
  <2>3. ~\E k \in 1 .. Len(toClient) : toClient[k] \in M
    BY <1>4 DEF Answered, Replies
  <2>4. toClient'[i].type = "reply" /\ ProxyName[toClient'[i].call] = n
    BY <2>1
  <2> HIDE DEF M
  <2>5. (BusHandlesRequest \/ BusEvent) /\ toClient' = Append(toClient, toClient'[i])
    BY <2>1, <2>2, <2>3, MessageOrigin
  <2> DEFINE x == toClient'[i]
  <2>6. \A y : toClient' = Append(toClient, y) => y = x
    <3> SUFFICES ASSUME NEW y, toClient' = Append(toClient, y) PROVE y = x
      OBVIOUS
    <3> DEFINE T == Messages \union {x, y}
    <3>1. toClient \in Seq(T) /\ x \in T /\ y \in T
      BY <1>1
    <3> HIDE DEF T
    <3>2. toClient'[Len(toClient) + 1] = y
      BY <3>1
    <3>3. Append(toClient, x)[Len(toClient) + 1] = x
      <4> HIDE DEF x
      <4> QED
        BY <3>1
    <3> QED
      BY <2>5, <3>2, <3>3
  <2>7. toClient' # toClient
    <3> DEFINE T == Messages \union {x}
    <3>1. toClient \in Seq(T) /\ x \in T
      BY <1>1
    <3> HIDE DEF T, x
    <3>2. Append(toClient, x) # toClient
      BY <3>1
    <3> QED
      BY <2>5, <3>2 DEF x
  <2>8. ~BusEvent
    <3>1. BusEvent => toClient' = toClient \/ \E y : y.type # "reply" /\ toClient' = Append(toClient, y)
      BY DEF BusEvent, OwnerChanges, UniqueVanishes, OwnerEmits, ConnectionLost, Announced
    <3> HIDE DEF x
    <3> QED
      BY <2>4, <2>6, <2>7, <3>1 DEF x
  <2>9. toBus # <<>> /\ Head(toBus) = toBus[1] /\ 1 \in 1 .. Len(toBus)
    BY <1>1, <2>5, <2>8 DEF BusHandlesRequest
  <2>10. /\ toBus[1].type = "GetNameOwner"
         /\ toClient' = Append(toClient, [type |-> "reply", call |-> toBus[1].call,
                                          owner |-> owner[toBus[1].name]])
    BY <2>5, <2>7, <2>8, <2>9 DEF BusHandlesRequest
  <2>11. x.call = toBus[1].call
    BY <2>6, <2>10
  <2> QED
    BY <2>4, <2>5, <2>8, <2>9, <2>10, <2>11 DEF CallsInv, OneCallIn, Asks
<1> QED
  BY <1>2, <1>3, <1>4

\* In the queue q of requests, with f: the rule of n is on the bus, and t: there
\* are proxies for n.
Forcing(q, n, f, t) ==
  /\ t /\ ~f => \E k \in 1 .. Len(q) : Adds(q, OwnerRule(n), k)
  /\ \A j \in 1 .. Len(q) : Asks(q, j) /\ q[j].name = n /\ ~f =>
       \E k \in 1 .. Len(q) : k < j /\ Adds(q, OwnerRule(n), k)
  /\ \A j \in 1 .. Len(q) : Drops(q, OwnerRule(n), j) => ~t

ForcedInv ==
  \A n \in Names :
    /\ connected => Forcing(toBus, n, InForce(n), TrackingFor(n) # {})
    /\ connected /\ TrackingFor(n) # {} /\ ~InForce(n) => ~Heard(n) /\ ~Answered(n)

\* A request is queued that does not need the rule more than the proxies do.
LEMMA ForcingQueued ==
  ASSUME NEW T, NEW q \in Seq(T), NEW n, NEW f, NEW t, Forcing(q, n, f, t),
         NEW on, NEW x \in T,
         on /\ x.type = "GetNameOwner" /\ x.name = n => t,
         on /\ x.type = "RemoveMatch" /\ x.rule = OwnerRule(n) => ~t
  PROVE  Forcing(Queued(q, on, x), n, f, t) /\ Queued(q, on, x) \in Seq(T)
<1> DEFINE d == Append(q, x)
<1>1. /\ Len(d) = Len(q) + 1 /\ Len(q) \in Nat /\ d \in Seq(T)
      /\ \A k \in 1 .. Len(q) : d[k] = q[k] /\ k < Len(q) + 1
      /\ \A k \in 1 .. Len(d) : k \in 1 .. Len(q) \/ k = Len(q) + 1
      /\ d[Len(q) + 1] = x
  OBVIOUS
<1> HIDE DEF d
<1>2. \A k \in 1 .. Len(q) : Adds(q, OwnerRule(n), k) => k \in 1 .. Len(d) /\ Adds(d, OwnerRule(n), k)
  BY <1>1 DEF Adds
<1>3. on => Forcing(d, n, f, t)
  <2> SUFFICES ASSUME on PROVE Forcing(d, n, f, t)
    OBVIOUS
  <2>1. t /\ ~f => \E k \in 1 .. Len(d) : Adds(d, OwnerRule(n), k)
    BY <1>2 DEF Forcing
  <2>2. ASSUME NEW j \in 1 .. Len(d), Asks(d, j), d[j].name = n, ~f
        PROVE  \E k \in 1 .. Len(d) : k < j /\ Adds(d, OwnerRule(n), k)
    <3>1. CASE j \in 1 .. Len(q)
      <4>1. Asks(q, j) /\ q[j].name = n
        BY <1>1, <2>2, <3>1 DEF Asks
      <4> QED
        BY <1>2, <2>2, <3>1, <4>1 DEF Forcing
    <3>2. CASE j = Len(q) + 1
      <4>1. t
        BY <1>1, <2>2, <3>2 DEF Asks
      <4> QED
        BY <1>1, <1>2, <2>2, <3>2, <4>1 DEF Forcing
    <3> QED
      BY <1>1, <3>1, <3>2
  <2>3. ASSUME NEW j \in 1 .. Len(d), Drops(d, OwnerRule(n), j)
        PROVE  ~t
    BY <1>1, <2>3 DEF Forcing, Drops
  <2> QED
    BY <2>1, <2>2, <2>3 DEF Forcing
<1> QED
  BY <1>1, <1>3 DEF Queued, d

\* The rule of the first proxy for a name is queued.
LEMMA ForcingStarts ==
  ASSUME NEW T, NEW q \in Seq(T), NEW n, NEW f, Forcing(q, n, f, FALSE), NEW x \in T,
         x.type = "AddMatch", x.rule = OwnerRule(n),
         \A k \in 1 .. Len(q) : ~Drops(q, OwnerRule(n), k)
  PROVE  Forcing(Append(q, x), n, f, TRUE) /\ Append(q, x) \in Seq(T)
<1> DEFINE d == Append(q, x)
<1>1. /\ Len(d) = Len(q) + 1 /\ Len(q) \in Nat /\ d \in Seq(T)
      /\ \A k \in 1 .. Len(q) : d[k] = q[k] /\ k \in 1 .. Len(d)
      /\ \A k \in 1 .. Len(d) : k \in 1 .. Len(q) \/ k = Len(q) + 1
      /\ Len(q) + 1 \in 1 .. Len(d)
      /\ d[Len(q) + 1] = x
  OBVIOUS
<1> HIDE DEF d
<1>2. Adds(d, OwnerRule(n), Len(q) + 1)
  BY <1>1 DEF Adds
<1>3. ASSUME NEW j \in 1 .. Len(d), Asks(d, j), d[j].name = n, ~f
      PROVE  \E k \in 1 .. Len(d) : k < j /\ Adds(d, OwnerRule(n), k)
  <2>1. j \in 1 .. Len(q)
    BY <1>1, <1>2, <1>3 DEF Asks, Adds
  <2>2. Asks(q, j) /\ q[j].name = n
    BY <1>1, <1>3, <2>1 DEF Asks
  <2>3. PICK k \in 1 .. Len(q) : k < j /\ Adds(q, OwnerRule(n), k)
    BY <1>3, <2>1, <2>2 DEF Forcing
  <2> QED
    BY <1>1, <2>3 DEF Adds
<1>4. \A j \in 1 .. Len(d) : ~Drops(d, OwnerRule(n), j)
  BY <1>1, <1>2 DEF Drops, Adds
<1>5. Forcing(d, n, f, TRUE)
  BY <1>1, <1>2, <1>3, <1>4 DEF Forcing
<1> QED
  BY <1>1, <1>5 DEF d

\* Cancelled calls are no rules, and the bus does not need the rule for them.
LEMMA ForcingForget ==
  ASSUME NEW T, NEW q \in Seq(T), NEW n, NEW f, NEW t, Forcing(q, n, f, t), NEW calls
  PROVE  Forcing(Forget(q, calls), n, f, t)
<1> DEFINE d == Forget(q, calls)
<1>1. Len(d) = Len(q)
  BY ForgetItems
<1>2. \A k \in 1 .. Len(q) : d[k] = q[k] \/ (d[k] = Ignored /\ (Asks(q, k) \/ Replies(q, k)))
  BY ForgetItems
<1> HIDE DEF d
<1>3. \A k \in 1 .. Len(q) : (Adds(d, OwnerRule(n), k) <=> Adds(q, OwnerRule(n), k))
                               /\ (Drops(d, OwnerRule(n), k) <=> Drops(q, OwnerRule(n), k))
  BY <1>2 DEF Adds, Drops, Asks, Replies, Ignored
<1>4. \A k \in 1 .. Len(q) : Asks(d, k) => Asks(q, k) /\ d[k] = q[k]
  BY <1>2 DEF Asks, Replies, Ignored
<1>5. Forcing(d, n, f, t)
  BY <1>1, <1>3, <1>4 DEF Forcing
<1> QED
  BY <1>5 DEF d

\* The bus processes the first request, which leaves the rule as it is or adds
\* it; or it removes it when there are neither proxies nor questions.
LEMMA ForcingTail ==
  ASSUME NEW T, NEW q \in Seq(T), q # <<>>, NEW n, NEW f, NEW t, Forcing(q, n, f, t), NEW f2,
         Adds(q, OwnerRule(n), 1) => f2,
         Drops(q, OwnerRule(n), 1) => \A j \in 1 .. Len(q) : Asks(q, j) => q[j].name # n,
         ~Adds(q, OwnerRule(n), 1) /\ ~Drops(q, OwnerRule(n), 1) => f2 = f
  PROVE  Forcing(Tail(q), n, f2, t)
<1> DEFINE d == Tail(q)
<1>1. /\ Len(q) = Len(d) + 1 /\ Len(d) \in Nat
      /\ \A k \in 1 .. Len(d) : d[k] = q[k + 1] /\ k + 1 \in 1 .. Len(q)
      /\ \A k \in 1 .. Len(q) : k = 1 \/ (k - 1 \in 1 .. Len(d) /\ d[k - 1] = q[k])
      /\ 1 \in 1 .. Len(q)
  <2>1. /\ Len(q) = Len(d) + 1 /\ Len(d) \in Nat
        /\ \A k \in 1 .. Len(d) : d[k] = q[k + 1] /\ k + 1 \in 1 .. Len(q)
    OBVIOUS
  <2> HIDE DEF d
  <2>2. \A k \in 1 .. Len(q) : k = 1 \/ (k - 1 \in 1 .. Len(d) /\ (k - 1) + 1 = k)
    BY <2>1
  <2>3. \A k \in 1 .. Len(q) : k = 1 \/ (k - 1 \in 1 .. Len(d) /\ d[k - 1] = q[k])
    BY <2>1, <2>2
  <2> QED
    BY <2>1, <2>3
<1> HIDE DEF d
<1> SUFFICES Forcing(d, n, f2, t)
  BY DEF d
<1>2. \A j \in 1 .. Len(d) : Drops(d, OwnerRule(n), j) => ~t
  BY <1>1 DEF Forcing, Drops
<1>3. \A j \in 1 .. Len(d) : Asks(d, j) => Asks(q, j + 1) /\ q[j + 1] = d[j]
  BY <1>1 DEF Asks
<1>4. CASE Adds(q, OwnerRule(n), 1)
  BY <1>2, <1>4 DEF Forcing
<1>5. CASE Drops(q, OwnerRule(n), 1)
  <2>1. ~t
    BY <1>1, <1>5 DEF Forcing
  <2>2. \A j \in 1 .. Len(d) : Asks(d, j) => d[j].name # n
    BY <1>1, <1>3, <1>5
  <2> QED
    BY <1>2, <2>1, <2>2 DEF Forcing
<1>6. CASE ~Adds(q, OwnerRule(n), 1) /\ ~Drops(q, OwnerRule(n), 1)
  <2>1. \A k \in 1 .. Len(q) : Adds(q, OwnerRule(n), k) =>
          k - 1 \in 1 .. Len(d) /\ Adds(d, OwnerRule(n), k - 1)
    BY <1>1, <1>6 DEF Adds
  <2>2. t /\ ~f2 => \E k \in 1 .. Len(d) : Adds(d, OwnerRule(n), k)
    BY <1>6, <2>1 DEF Forcing
  <2>3. ASSUME NEW j \in 1 .. Len(d), Asks(d, j), d[j].name = n, ~f2
        PROVE  \E k \in 1 .. Len(d) : k < j /\ Adds(d, OwnerRule(n), k)
    <3>1. PICK k \in 1 .. Len(q) : k < j + 1 /\ Adds(q, OwnerRule(n), k)
      BY <1>1, <1>3, <1>6, <2>3 DEF Forcing
    <3>2. k - 1 \in 1 .. Len(d) /\ k - 1 < j
      BY <1>1, <2>1, <3>1
    <3> QED
      BY <2>1, <3>1, <3>2
  <2> QED
    BY <1>2, <2>2, <2>3 DEF Forcing
<1> QED
  BY <1>4, <1>5, <1>6

\* What is said of proxies and rules is a truth value.
LEMMA ForcingSame ==
  ASSUME NEW q, NEW n, NEW f, NEW t, Forcing(q, n, f, t), NEW f2, NEW t2,
         f => f2, t2 => t, t => t2 \/ f
  PROVE  Forcing(q, n, f2, t2)
BY DEF Forcing

\* A proxy registers: its question comes after the rule.
LEMMA RegistersForced ==
  ASSUME ~Reuse, BooksInv, MovingInv, FreshInv, ForcedInv,
         NEW p \in Proxies, NEW i \in Ifaces, Registers(p, i)
  PROVE  ForcedInv'
<1> SUFFICES ASSUME NEW n \in Names
             PROVE  /\ connected' => Forcing(toBus', n, InForce(n)', TrackingFor(n)' # {})
                    /\ connected' /\ TrackingFor(n)' # {} /\ ~InForce(n)' => ~Heard(n)' /\ ~Answered(n)'
  BY DEF ForcedInv
<1> DEFINE m == ProxyName[p]
           a == [type |-> "AddMatch", rule |-> SignalRule(m, i)]
           b == [type |-> "AddMatch", rule |-> OwnerRule(m)]
           c == [type |-> "GetNameOwner", call |-> p, name |-> m]
           T == Requests \union {a, b, c}
           ca == m # NoName /\ ListOf(m, i) = {}
           cb == ca /\ matchRefs[m] = 0
           one == Queued(toBus, ca, a)
           two == Queued(one, cb, b)
           f == InForce(n)
           t == TrackingFor(n) # {}
<1>1. /\ toBus' = IF connected THEN Queued(two, nameCall'[p], c) ELSE toBus
      /\ UNCHANGED <<rules, connected, toClient>>
  BY RegisterSends DEF BooksInv, Registers, Register
<1>2. InForce(n)' = InForce(n) /\ Heard(n)' = Heard(n) /\ Answered(n)' = Answered(n)
  BY <1>1 DEF InForce, Heard, Answered
<1>3. TrackingFor(n)' = IF n = m THEN TrackingFor(n) \union {p} ELSE TrackingFor(n)
  BY TrackingShapes DEF BooksInv
<1>4. toBus \in Seq(T) /\ a \in T /\ b \in T /\ c \in T
  BY QueueTypes DEF BooksInv
<1>5. /\ a.type = "AddMatch" /\ a.rule = SignalRule(m, i)
      /\ b.type = "AddMatch" /\ b.rule = OwnerRule(m)
      /\ c.type = "GetNameOwner" /\ c.name = m
  OBVIOUS
<1>6. CASE n # m \/ t
  <2>1. ASSUME connected
        PROVE  Forcing(toBus', n, f, t)
    <3>1. Forcing(toBus, n, f, t)
      BY <2>1 DEF ForcedInv
    <3> HIDE DEF a, b, c, T, ca, cb, f, t, m
    <3>2. Forcing(one, n, f, t) /\ one \in Seq(T)
      BY <1>4, <1>5, <3>1, ForcingQueued
    <3> HIDE DEF one
    <3>3. Forcing(two, n, f, t) /\ two \in Seq(T)
      BY <1>4, <1>5, <3>2, ForcingQueued
    <3> HIDE DEF two
    <3>4. Forcing(Queued(two, nameCall'[p], c), n, f, t)
      BY <1>4, <1>5, <1>6, <3>3, ForcingQueued
    <3> QED
      BY <1>1, <2>1, <3>4
  <2>2. t <=> TrackingFor(n)' # {}
    BY <1>3, <1>6
  <2>3. connected' /\ t /\ ~f => ~Heard(n) /\ ~Answered(n)
    BY <1>1 DEF ForcedInv
  <2>4. connected' => Forcing(toBus', n, f, TrackingFor(n)' # {})
    BY <1>1, <2>1, <2>2, ForcingSame
  <2> QED
    BY <1>2, <2>2, <2>3, <2>4
<1>7. CASE n = m /\ ~t
  <2>1. Unborn(n)
    BY <1>7, FirstIsFresh DEF BooksInv
  <2>2. /\ ~InForce(n) /\ ~Heard(n)
        /\ \A k \in 1 .. Len(toBus) :
             ~Adds(toBus, OwnerRule(n), k) /\ ~Drops(toBus, OwnerRule(n), k)
    BY <2>1 DEF FreshInv
  <2>3. ~Answered(n)
    <3>1. [Next]_vars \/ Shapes
      BY DEF Shapes
    <3> QED
      BY <1>7, AnswersFromBus, <3>1 DEF BooksInv, Shapes
  <2>4. ca /\ cb
    <3>1. n \in BusNames /\ n # NoName
      BY BusAssumption DEF BusNames
    <3>2. \A j : ListOf(n, j) = {}
      BY <1>7 DEF ListOf, TrackingFor
    <3>3. Cardinality(Lists(n)) = 0
      BY <3>2, ListsFinite DEF Lists
    <3> QED
      BY <1>7, <3>1, <3>2, <3>3 DEF BooksInv, MatchRefsCount
  <2>5. ASSUME connected
        PROVE  Forcing(toBus', n, f, TRUE)
    <3>1. Forcing(toBus, n, f, FALSE)
      BY <1>7, <2>5, ForcingSame DEF ForcedInv
    <3>2. SignalRule(m, i) # OwnerRule(n)
      BY DEF SignalRule, OwnerRule
    <3>3. Forcing(one, n, f, FALSE) /\ one \in Seq(T) /\ one = Append(toBus, a)
      <4>1. one = Append(toBus, a)
        BY <2>4 DEF Queued
      <4> HIDE DEF a, b, c, T, ca, cb, f, m
      <4> QED
        BY <1>4, <1>5, <3>1, <4>1, ForcingQueued
    <3>4. \A k \in 1 .. Len(one) : ~Drops(one, OwnerRule(n), k)
      <4> HIDE DEF a, b, c, T, ca, cb, f, m, one
      <4>1. /\ Len(one) = Len(toBus) + 1 /\ Len(toBus) \in Nat
            /\ \A k \in 1 .. Len(toBus) : one[k] = toBus[k]
            /\ one[Len(toBus) + 1] = a
        BY <1>4, <3>3
      <4>2. \A k \in 1 .. Len(one) : k \in 1 .. Len(toBus) \/ k = Len(toBus) + 1
        BY <4>1
      <4> QED
        BY <1>5, <2>2, <4>1, <4>2 DEF Drops
    <3>5. two = Append(one, b)
      BY <2>4 DEF Queued
    <3> HIDE DEF a, b, c, T, ca, cb, f, one, two
    <3>6. Forcing(two, n, f, TRUE) /\ two \in Seq(T)
      BY <1>4, <1>5, <1>7, <3>3, <3>4, <3>5, ForcingStarts
    <3>7. Forcing(Queued(two, nameCall'[p], c), n, f, TRUE)
      BY <1>4, <1>5, <3>6, ForcingQueued
    <3> QED
      BY <1>1, <2>5, <3>7
  <2>6. TrackingFor(n)' # {}
    BY <1>3, <1>7
  <2>7. connected' => Forcing(toBus', n, f, TrackingFor(n)' # {})
    BY <1>1, <2>5, <2>6, ForcingSame
  <2> QED
    BY <1>2, <2>2, <2>3, <2>7
<1> QED
  BY <1>6, <1>7

\* The last list of the last interface of a name.
LEMMA LastOfName ==
  ASSUME Inv, MatchRefsCount, NEW p \in Listed, LastOfList(p),
         ProxyName[p] \in BusNames, matchRefs[ProxyName[p]] = 1
  PROVE  TrackingFor(ProxyName[p]) = {p}
<1> DEFINE n == ProxyName[p]
<1>1. Cardinality(Lists(n)) = 1
  BY DEF MatchRefsCount
<1>2. PICK i : Lists(n) = {i}
  BY <1>1, ListsFinite, FS_Singleton
<1>3. \A q \in TrackingFor(n) : q \in ListOf(n, iface[q]) /\ iface[q] \in Lists(n)
  BY DEF TrackingFor, ListOf, Lists, Listed, Inv, TypeOK
<1>4. p \in TrackingFor(n)
  BY DEF TrackingFor
<1> QED
  BY <1>2, <1>3, <1>4 DEF LastOfList

\* A proxy leaves: the rule goes with the last one.
LEMMA LeavesForced ==
  ASSUME BooksInv, ForcedInv, NEW p \in Proxies, NEW st \in Statuses, Leaves(p, st)
  PROVE  ForcedInv'
<1> SUFFICES ASSUME NEW n \in Names
             PROVE  /\ connected' => Forcing(toBus', n, InForce(n)', TrackingFor(n)' # {})
                    /\ connected' /\ TrackingFor(n)' # {} /\ ~InForce(n)' => ~Heard(n)' /\ ~Answered(n)'
  BY DEF ForcedInv
<1> DEFINE m == ProxyName[p]
           cancelled == IF ~ForOwner(p) /\ ~associated[p] /\ nameCall[p] THEN {p} ELSE {}
           left == Forget(toBus, cancelled)
           a == [type |-> "RemoveMatch", rule |-> SignalRule(m, iface[p])]
           b == [type |-> "RemoveMatch", rule |-> OwnerRule(m)]
           T == Requests \union {a, b}
           ca == LastOfList(p)
           cb == ca /\ m # NoName /\ matchRefs[m] = 1
           one == Queued(left, ca, a)
           two == Queued(one, cb, b)
           f == InForce(n)
           t == TrackingFor(n) # {}
           t2 == TrackingFor(n)' # {}
<1>1. /\ toBus' = IF connected THEN two ELSE left
      /\ UNCHANGED <<rules, connected>>
  BY UnregisterSends DEF BooksInv, Leaves, Unregister
<1>2. InForce(n)' = InForce(n)
  BY <1>1 DEF InForce
<1>3. (Heard(n)' /\ ~InForce(n) => Heard(n)) /\ (Answered(n)' => Answered(n))
  <2>1. n \notin Uniques /\ Shapes
    BY BusAssumption DEF Shapes
  <2>2. Heard(n)' /\ ~InForce(n) => Heard(n)
    BY <2>1, NewsFromOutside DEF BooksInv, InForce
  <2>3. PICK calls : toClient' = Forget(toClient, calls)
    BY DEF Leaves, Unregister
  <2>4. toClient \in Seq(Messages)
    BY QueueTypes DEF BooksInv
  <2>5. Len(toClient') = Len(toClient)
        /\ \A k \in 1 .. Len(toClient) : toClient'[k] = toClient[k] \/ toClient'[k] = Ignored
    BY <2>3, <2>4, ForgetItems
  <2>6. Answered(n)' => Answered(n)
    BY <2>5 DEF Answered, Replies, Ignored
  <2> QED
    BY <2>2, <2>6
<1>4. t2 => t
  BY TrackingShapes DEF BooksInv
<1>5. left \in Seq(T) /\ a \in T /\ b \in T
  BY QueueTypes, ForgetType DEF BooksInv
<1>6. /\ a.type = "RemoveMatch" /\ a.rule = SignalRule(m, iface[p])
      /\ b.type = "RemoveMatch" /\ b.rule = OwnerRule(m)
  OBVIOUS
<1>7. cb /\ m = n => ~t2
  <2> SUFFICES ASSUME cb, m = n PROVE TrackingFor(n)' = {}
    OBVIOUS
  <2>1. p \in Listed /\ n \in BusNames
    BY LeavesLists DEF BusNames, BooksInv
  <2>2. TrackingFor(n) = {p}
    BY <2>1, LastOfName DEF BooksInv
  <2> QED
    BY <2>2, TrackingShapes DEF BooksInv
<1>8. ASSUME connected
      PROVE  Forcing(two, n, f, t2)
  <2>1. Forcing(toBus, n, f, t) /\ toBus \in Seq(Requests)
    BY <1>8, QueueTypes DEF ForcedInv, BooksInv
  <2>2. SignalRule(m, iface[p]) # OwnerRule(n) /\ (OwnerRule(m) = OwnerRule(n) => m = n)
    BY DEF SignalRule, OwnerRule
  <2> HIDE DEF f, t, t2
  <2>3. Forcing(left, n, f, t)
    BY <2>1, ForcingForget
  <2> HIDE DEF a, b, T, ca, cb, m, left
  <2>4. Forcing(left, n, f, t2)
    BY <1>4, <2>3 DEF Forcing
  <2>5. Forcing(one, n, f, t2) /\ one \in Seq(T)
    BY <1>5, <1>6, <2>2, <2>4, ForcingQueued
  <2> HIDE DEF one
  <2> QED
    BY <1>5, <1>6, <1>7, <2>2, <2>5, ForcingQueued
<1>9. connected' => Forcing(toBus', n, f, t2)
  BY <1>1, <1>8
<1>10. connected' /\ t2 /\ ~f => ~Heard(n)' /\ ~Answered(n)'
  <2>1. connected /\ t /\ ~f => ~Heard(n) /\ ~Answered(n)
    BY DEF ForcedInv
  <2> QED
    BY <1>1, <1>3, <1>4, <2>1
<1> HIDE DEF two, left
<1> QED
  BY <1>2, <1>9, <1>10

\* The bus processes a request: it answers when the rule is there.
LEMMA BusForced ==
  ASSUME BooksInv, ForcedInv, BusHandlesRequest, UNCHANGED <<proxyVars, tables>>
  PROVE  ForcedInv'
<1> SUFFICES ASSUME NEW n \in Names
             PROVE  /\ connected' => Forcing(toBus', n, InForce(n)', TrackingFor(n)' # {})
                    /\ connected' /\ TrackingFor(n)' # {} /\ ~InForce(n)' => ~Heard(n)' /\ ~Answered(n)'
  BY DEF ForcedInv
<1> DEFINE r == OwnerRule(n)
           f == InForce(n)
           t == TrackingFor(n) # {}
<1>1. /\ toBus \in Seq(Requests) /\ toBus # <<>> /\ Head(toBus) = toBus[1] /\ 1 \in 1 .. Len(toBus)
      /\ connected /\ connected' /\ toBus' = Tail(toBus)
      /\ rules \in [Rules -> Nat] /\ r \in Rules
      /\ UNCHANGED status
  <2>1. r \in Rules /\ rules \in [Rules -> Nat]
    BY DEF Rules, OwnerRule, BusNames, BooksInv, Inv, TypeOK, BusTypeOK
  <2>2. toBus \in Seq(Requests) /\ toBus # <<>>
    BY QueueTypes DEF BooksInv, BusHandlesRequest
  <2> QED
    BY <2>1, <2>2 DEF BusHandlesRequest, proxyVars, BooksInv, CallsInv
<1>2. TrackingFor(n)' = TrackingFor(n)
  BY <1>1, TrackingShapes DEF BooksInv
<1>3. Shapes
  BY DEF Shapes
<1>4. rules'[r] = IF Adds(toBus, r, 1) THEN rules[r] + 1
                  ELSE IF Drops(toBus, r, 1) /\ rules[r] > 0 THEN rules[r] - 1
                  ELSE rules[r]
  BY <1>1 DEF BusHandlesRequest, Adds, Drops
<1>5. Forcing(toBus, n, f, t)
  BY <1>1 DEF ForcedInv
<1>6. Drops(toBus, r, 1) => ~t
  BY <1>1, <1>5 DEF Forcing
<1>7. Forcing(Tail(toBus), n, InForce(n)', t)
  <2>1. Adds(toBus, r, 1) => InForce(n)'
    BY <1>1, <1>4 DEF InForce
  <2>2. Drops(toBus, r, 1) => \A j \in 1 .. Len(toBus) : Asks(toBus, j) => toBus[j].name # n
    BY <1>3, <1>6, AnswersFromBus DEF BooksInv
  <2>3. ~Adds(toBus, r, 1) /\ ~Drops(toBus, r, 1) => InForce(n)' = f
    BY <1>4 DEF InForce
  <2> HIDE DEF f, t
  <2> QED
    BY <1>1, <1>5, <2>1, <2>2, <2>3, ForcingTail
<1>8. ASSUME t, ~InForce(n)'
      PROVE  ~Heard(n)' /\ ~Answered(n)'
  <2>1. ~f
    BY <1>1, <1>4, <1>6, <1>8 DEF InForce
  <2>2. ~Heard(n) /\ ~Answered(n)
    BY <1>1, <1>8, <2>1 DEF ForcedInv
  <2>3. ~(Asks(toBus, 1) /\ toBus[1].name = n)
    BY <1>1, <1>5, <2>1 DEF Forcing
  <2>4. n \notin Uniques
    BY BusAssumption
  <2> QED
    BY <1>3, <2>1, <2>2, <2>3, <2>4, NewsFromOutside, AnswersFromBus DEF BooksInv, InForce
<1> QED
  BY <1>1, <1>2, <1>7, <1>8

\* No other step sends requests or makes answers, and names are announced to
\* those that have the rule.
LEMMA StepForced ==
  ASSUME ~Reuse, BooksInv, MovingInv, FreshInv, ForcedInv, Shapes
  PROVE  ForcedInv'
<1>1. ASSUME UNCHANGED <<rules, connected>>, Listed' = Listed,
             \/ toBus' = toBus
             \/ \E calls : toBus' = Forget(toBus, calls),
             \A n \in Names : Answered(n)' => Answered(n)
      PROVE  ForcedInv'
  <2> SUFFICES ASSUME NEW n \in Names, connected'
               PROVE  /\ Forcing(toBus', n, InForce(n)', TrackingFor(n)' # {})
                      /\ TrackingFor(n)' # {} /\ ~InForce(n)' => ~Heard(n)' /\ ~Answered(n)'
    BY DEF ForcedInv
  <2>1. TrackingFor(n)' = TrackingFor(n) /\ InForce(n)' = InForce(n) /\ connected
    BY <1>1 DEF TrackingFor, InForce
  <2>2. Forcing(toBus, n, InForce(n), TrackingFor(n) # {}) /\ toBus \in Seq(Requests)
    BY <2>1, QueueTypes DEF ForcedInv, BooksInv
  <2>3. Forcing(toBus', n, InForce(n), TrackingFor(n) # {})
    BY <1>1, <2>2, ForcingForget
  <2>4. n \notin Uniques
    BY BusAssumption
  <2>5. TrackingFor(n) # {} /\ ~InForce(n) => ~Heard(n)' /\ ~Answered(n)'
    BY <1>1, <2>1, <2>4, NewsFromOutside DEF ForcedInv, BooksInv, InForce
  <2> QED
    BY <2>1, <2>3, <2>5
<1>2. ASSUME UNCHANGED toBus
      PROVE  \A n \in Names : Answered(n)' => Answered(n)
  <2>1. toBus \in Seq(Requests)
    BY QueueTypes DEF BooksInv
  <2>2. BusHandlesRequest => toBus # <<>> /\ Tail(toBus) = toBus
    BY <1>2 DEF BusHandlesRequest
  <2>3. ~BusHandlesRequest
    BY <2>1, <2>2
  <2> QED
    BY <2>3, AnswersFromBus DEF BooksInv
<1>3. CASE GotNameOwner \/ NameAppears \/ Skips
  <2>1. UNCHANGED <<toBus, rules, connected, status>>
    BY <1>3 DEF GotNameOwner, NameAppears, Skips, proxyVars
  <2> QED
    BY <1>1, <1>2, <2>1 DEF Listed
<1>4. CASE Rests \/ \E p \in Proxies : ResolveOwner(p)
  <2>1. UNCHANGED <<toBus, rules, connected>>
    BY <1>4 DEF Rests, ResolveOwner, wire, busVars
  <2>2. Listed' = Listed
    BY <1>4, TrackingShapes DEF BooksInv, Rests, proxyVars
  <2> QED
    BY <1>1, <1>2, <2>1, <2>2
<1>5. ASSUME NEW p \in Proxies, NameCallFails(p)
      PROVE  ForcedInv'
  <2>1. /\ UNCHANGED <<toClient, rules, connected, status>>
        /\ toBus' = Forget(toBus, {p})
    BY <1>5 DEF NameCallFails
  <2>2. \A n \in Names : Answered(n)' => Answered(n)
    BY <2>1 DEF Answered
  <2> QED
    BY <1>1, <2>1, <2>2 DEF Listed
<1>6. CASE NameMovesOrGoes
  <2>1. /\ UNCHANGED <<rules, connected, status>> /\ toClient # <<>>
        /\ \E calls : toBus' = Forget(toBus, calls)
    BY <1>6 DEF NameMovesOrGoes, Dispatching
  <2>2. PICK calls : toClient' = Forget(Tail(toClient), calls)
    BY <1>6 DEF NameMovesOrGoes
  <2>3. toClient \in Seq(Messages)
    BY QueueTypes DEF BooksInv
  <2>4. Tail(toClient) \in Seq(Messages)
        /\ \A k \in 1 .. Len(Tail(toClient)) : Tail(toClient)[k] = toClient[k + 1]
                                              /\ k + 1 \in 1 .. Len(toClient)
    BY <2>1, <2>3
  <2>5. Len(toClient') = Len(Tail(toClient))
        /\ \A k \in 1 .. Len(Tail(toClient)) :
             toClient'[k] = Tail(toClient)[k] \/ toClient'[k] = Ignored
    BY <2>2, <2>4, ForgetItems
  <2>6. \A n \in Names : Answered(n)' => Answered(n)
    BY <2>4, <2>5 DEF Answered, Replies, Ignored
  <2> QED
    BY <1>1, <2>1, <2>6 DEF Listed
<1>7. CASE BusEvent /\ UNCHANGED <<proxyVars, tables>>
  <2>1. ~connected' \/ UNCHANGED <<toBus, rules, connected>>
    BY <1>7 DEF BusEvent, OwnerChanges, UniqueVanishes, OwnerEmits, ConnectionLost
  <2>2. Listed' = Listed
    BY <1>7 DEF proxyVars, Listed
  <2>3. CASE ~connected'
    BY <2>3 DEF ForcedInv
  <2> QED
    BY <1>1, <1>2, <2>1, <2>2, <2>3
<1> QED
  BY <1>3, <1>4, <1>5, <1>6, <1>7, RegistersForced, LeavesForced, BusForced DEF Shapes

--------------------------------------------------------------------------------
(* Histories: the owners of a name along the queue of messages *)

Answers(q, n, k) == Replies(q, k) /\ ProxyName[q[k].call] = n
Signals(q, k) == q[k].type = "signal"

\* h[k] is the owner of n when the bus sent the k-th message of q, from the
\* d-th on; announcements, answers and signals in q agree with it.
Trace(q, n, d, h) ==
  \A k \in 1 .. Len(q) :
    /\ Announces(q, n, k) => d < k /\ h[k - 1] = q[k].old /\ h[k] = q[k].new
    /\ Answers(q, n, k) => d < k /\ h[k] = q[k].owner
    /\ Signals(q, k) /\ d < k => (h[k] = q[k].sender <=> n \in q[k].owned)
    /\ d < k /\ ~Announces(q, n, k) => h[k] = h[k - 1]

\* The messages in q tell every change of n's owner from some message on until
\* it is e.  If kn, they do so from the first message on, before which it is s.
Follows(q, n, kn, s, e) ==
  \E d \in 0 .. Len(q) : \E h \in [0 .. Len(q) -> Owners] :
    Trace(q, n, d, h) /\ h[Len(q)] = e /\ (kn => d = 0 /\ h[0] = s)

\* A message is received; the owner is e2 then.
LEMMA FollowsAppend ==
  ASSUME NEW T, NEW q \in Seq(T), NEW n, NEW kn, NEW s, NEW e, Follows(q, n, kn, s, e),
         NEW x \in T, NEW e2 \in Owners,
         x.type = "NameOwnerChanged" /\ x.name = n => x.old = e /\ x.new = e2,
         x.type = "reply" /\ ProxyName[x.call] = n => x.owner = e2,
         x.type = "signal" => (e2 = x.sender <=> n \in x.owned),
         ~(x.type = "NameOwnerChanged" /\ x.name = n) => e2 = e
  PROVE  Follows(Append(q, x), n, kn, s, e2)
<1> DEFINE b == Append(q, x)
<1>1. /\ Len(b) = Len(q) + 1 /\ Len(q) \in Nat
      /\ \A k \in 1 .. Len(q) : b[k] = q[k]
      /\ b[Len(q) + 1] = x
  OBVIOUS
<1> HIDE DEF b
<1> SUFFICES Follows(b, n, kn, s, e2)
  BY DEF b
<1>2. PICK d \in 0 .. Len(q) : \E h \in [0 .. Len(q) -> Owners] :
        Trace(q, n, d, h) /\ h[Len(q)] = e /\ (kn => d = 0 /\ h[0] = s)
  BY DEF Follows
<1>3. PICK h \in [0 .. Len(q) -> Owners] :
        Trace(q, n, d, h) /\ h[Len(q)] = e /\ (kn => d = 0 /\ h[0] = s)
  BY <1>2
<1> DEFINE g == [k \in 0 .. Len(b) |-> IF k = Len(b) THEN e2 ELSE h[k]]
<1>4. /\ g \in [0 .. Len(b) -> Owners] /\ g[Len(b)] = e2
      /\ \A k \in 0 .. Len(q) : g[k] = h[k]
  BY <1>1
<1> HIDE DEF g
<1>5. Trace(b, n, d, g)
  <2> SUFFICES ASSUME NEW k \in 1 .. Len(b)
               PROVE  /\ Announces(b, n, k) => d < k /\ g[k - 1] = b[k].old /\ g[k] = b[k].new
                      /\ Answers(b, n, k) => d < k /\ g[k] = b[k].owner
                      /\ Signals(b, k) /\ d < k => (g[k] = b[k].sender <=> n \in b[k].owned)
                      /\ d < k /\ ~Announces(b, n, k) => g[k] = g[k - 1]
    BY DEF Trace
  <2>1. CASE k = Len(b)
    <3>1. d < k /\ g[k - 1] = e /\ g[k] = e2 /\ b[k] = x
      BY <1>1, <1>2, <1>3, <1>4, <2>1
    <3> QED
      BY <3>1 DEF Announces, Answers, Replies, Signals
  <2>2. CASE k # Len(b)
    <3>1. k \in 1 .. Len(q) /\ k - 1 \in 0 .. Len(q) /\ b[k] = q[k]
      BY <1>1, <2>2
    <3>2. g[k] = h[k] /\ g[k - 1] = h[k - 1]
      BY <1>4, <3>1
    <3>3. /\ Announces(b, n, k) <=> Announces(q, n, k)
          /\ Answers(b, n, k) <=> Answers(q, n, k)
          /\ Signals(b, k) <=> Signals(q, k)
      BY <3>1 DEF Announces, Answers, Replies, Signals
    <3> QED
      BY <1>3, <3>1, <3>2, <3>3 DEF Trace
  <2> QED
    BY <2>1, <2>2
<1>6. d \in 0 .. Len(b) /\ (kn => d = 0 /\ g[0] = s)
  BY <1>1, <1>2, <1>3, <1>4
<1> QED
  BY <1>4, <1>5, <1>6 DEF Follows

\* A message is read: an announcement or an answer tells the owner; any other
\* message tells nothing new.
LEMMA FollowsTail ==
  ASSUME NEW T, NEW q \in Seq(T), q # <<>>, NEW n, NEW kn, NEW s, NEW e, Follows(q, n, kn, s, e)
  PROVE  /\ ~Announces(q, n, 1) => Follows(Tail(q), n, kn, s, e)
         /\ Announces(q, n, 1) =>
              Follows(Tail(q), n, TRUE, q[1].new, e) /\ (kn => s = q[1].old)
         /\ Answers(q, n, 1) =>
              Follows(Tail(q), n, TRUE, q[1].owner, e) /\ (kn => s = q[1].owner)
         /\ Signals(q, 1) /\ kn => (s = q[1].sender <=> n \in q[1].owned)
<1> DEFINE b == Tail(q)
<1>1. /\ Len(q) = Len(b) + 1 /\ Len(b) \in Nat
      /\ \A k \in 1 .. Len(b) : b[k] = q[k + 1] /\ k + 1 \in 1 .. Len(q)
      /\ 1 \in 1 .. Len(q)
  OBVIOUS
<1>2. PICK d \in 0 .. Len(q) : \E h \in [0 .. Len(q) -> Owners] :
        Trace(q, n, d, h) /\ h[Len(q)] = e /\ (kn => d = 0 /\ h[0] = s)
  BY DEF Follows
<1>3. PICK h \in [0 .. Len(q) -> Owners] :
        Trace(q, n, d, h) /\ h[Len(q)] = e /\ (kn => d = 0 /\ h[0] = s)
  BY <1>2
<1> DEFINE c == IF d = 0 THEN 0 ELSE d - 1
           g == [k \in 0 .. Len(b) |-> h[k + 1]]
<1> HIDE DEF b
<1>4. /\ g \in [0 .. Len(b) -> Owners] /\ g[Len(b)] = e
      /\ \A k \in 0 .. Len(b) : g[k] = h[k + 1]
      /\ c \in 0 .. Len(b) /\ (d = 0 => c = 0)
      /\ \A k \in 1 .. Len(b) : c < k <=> d < k + 1
  BY <1>1, <1>2, <1>3
<1> HIDE DEF c, g
<1>5. Trace(b, n, c, g)
  <2> SUFFICES ASSUME NEW k \in 1 .. Len(b)
               PROVE  /\ Announces(b, n, k) => c < k /\ g[k - 1] = b[k].old /\ g[k] = b[k].new
                      /\ Answers(b, n, k) => c < k /\ g[k] = b[k].owner
                      /\ Signals(b, k) /\ c < k => (g[k] = b[k].sender <=> n \in b[k].owned)
                      /\ c < k /\ ~Announces(b, n, k) => g[k] = g[k - 1]
    BY DEF Trace
  <2>1. b[k] = q[k + 1] /\ k + 1 \in 1 .. Len(q) /\ (k + 1) - 1 = k /\ (c < k <=> d < k + 1)
    BY <1>1, <1>4
  <2>2. g[k] = h[k + 1] /\ g[k - 1] = h[k]
    BY <1>1, <1>4
  <2>3. /\ Announces(b, n, k) <=> Announces(q, n, k + 1)
        /\ Answers(b, n, k) <=> Answers(q, n, k + 1)
        /\ Signals(b, k) <=> Signals(q, k + 1)
    BY <2>1 DEF Announces, Answers, Replies, Signals
  <2>4. /\ Announces(q, n, k + 1) => d < k + 1 /\ h[k] = q[k + 1].old /\ h[k + 1] = q[k + 1].new
        /\ Answers(q, n, k + 1) => d < k + 1 /\ h[k + 1] = q[k + 1].owner
        /\ Signals(q, k + 1) /\ d < k + 1 =>
             (h[k + 1] = q[k + 1].sender <=> n \in q[k + 1].owned)
        /\ d < k + 1 /\ ~Announces(q, n, k + 1) => h[k + 1] = h[k]
    BY <1>3, <2>1 DEF Trace
  <2> QED
    BY <2>1, <2>2, <2>3, <2>4
<1>6. /\ Announces(q, n, 1) => d < 1 /\ h[0] = q[1].old /\ h[1] = q[1].new
      /\ Answers(q, n, 1) => d < 1 /\ h[1] = q[1].owner
      /\ Signals(q, 1) /\ d < 1 => (h[1] = q[1].sender <=> n \in q[1].owned)
      /\ d < 1 /\ ~Announces(q, n, 1) => h[1] = h[0]
  <2>1. 1 - 1 = 0
    OBVIOUS
  <2> QED
    BY <1>1, <1>3, <2>1 DEF Trace
<1>7. /\ d < 1 <=> d = 0
      /\ g[0] = h[1]
  BY <1>1, <1>4
<1>8. ~Announces(q, n, 1) => Follows(b, n, kn, s, e)
  BY <1>3, <1>4, <1>5, <1>6, <1>7 DEF Follows
<1>9. Announces(q, n, 1) => Follows(b, n, TRUE, q[1].new, e) /\ (kn => s = q[1].old)
  BY <1>3, <1>4, <1>5, <1>6, <1>7 DEF Follows
<1>10. Answers(q, n, 1) => ~Announces(q, n, 1)
  BY DEF Answers, Replies, Announces
<1>11. Answers(q, n, 1) => Follows(b, n, TRUE, q[1].owner, e) /\ (kn => s = q[1].owner)
  BY <1>3, <1>4, <1>5, <1>6, <1>7, <1>10 DEF Follows
<1>12. Signals(q, 1) => ~Announces(q, n, 1)
  BY DEF Signals, Announces
<1>13. Signals(q, 1) /\ kn => (s = q[1].sender <=> n \in q[1].owned)
  BY <1>3, <1>6, <1>7, <1>12
<1> QED
  BY <1>8, <1>9, <1>11, <1>13 DEF b

\* Cancelled answers tell nothing.
LEMMA FollowsForget ==
  ASSUME NEW T, NEW q \in Seq(T), NEW n, NEW kn, NEW s, NEW e, Follows(q, n, kn, s, e), NEW calls
  PROVE  Follows(Forget(q, calls), n, kn, s, e)
<1> DEFINE b == Forget(q, calls)
<1>1. Len(b) = Len(q)
  BY ForgetItems
<1>2. \A k \in 1 .. Len(q) : b[k] = q[k] \/ (b[k] = Ignored /\ (Asks(q, k) \/ Replies(q, k)))
  BY ForgetItems
<1> HIDE DEF b
<1> SUFFICES Follows(b, n, kn, s, e)
  BY DEF b
<1>3. \A k \in 1 .. Len(q) : /\ Announces(b, n, k) <=> Announces(q, n, k)
                             /\ Answers(b, n, k) => Answers(q, n, k)
                             /\ Signals(b, k) <=> Signals(q, k)
                             /\ b[k] # Ignored => b[k] = q[k]
                             /\ b[k] = Ignored => ~Announces(b, n, k) /\ ~Answers(b, n, k) /\ ~Signals(b, k)
  BY <1>2 DEF Announces, Answers, Signals, Asks, Replies, Ignored
<1>4. ASSUME NEW d, NEW h, Trace(q, n, d, h)
      PROVE  Trace(b, n, d, h)
  <2> SUFFICES ASSUME NEW k \in 1 .. Len(q)
               PROVE  /\ Announces(b, n, k) => d < k /\ h[k - 1] = b[k].old /\ h[k] = b[k].new
                      /\ Answers(b, n, k) => d < k /\ h[k] = b[k].owner
                      /\ Signals(b, k) /\ d < k => (h[k] = b[k].sender <=> n \in b[k].owned)
                      /\ d < k /\ ~Announces(b, n, k) => h[k] = h[k - 1]
    BY <1>1 DEF Trace
  <2> QED
    BY <1>3, <1>4 DEF Trace
<1> QED
  BY <1>1, <1>4 DEF Follows

\* Without news or answers in the queue, only the last owner is known.
LEMMA FollowsFresh ==
  ASSUME NEW T, NEW q \in Seq(T), NEW n, NEW s, NEW e \in Owners,
         \A k \in 1 .. Len(q) : ~Announces(q, n, k) /\ ~Answers(q, n, k)
  PROVE  Follows(q, n, FALSE, s, e)
<1> DEFINE h == [k \in 0 .. Len(q) |-> e]
<1>1. Len(q) \in Nat /\ Len(q) \in 0 .. Len(q)
  OBVIOUS
<1>2. h \in [0 .. Len(q) -> Owners] /\ h[Len(q)] = e
  BY <1>1
<1>3. \A k \in 1 .. Len(q) : ~(Len(q) < k)
  BY <1>1
<1>4. Trace(q, n, Len(q), h)
  BY <1>3 DEF Trace
<1> HIDE DEF h
<1> QED
  BY <1>1, <1>2, <1>4 DEF Follows

\* Less is known.
LEMMA FollowsLess ==
  ASSUME NEW q, NEW n, NEW kn, NEW s, NEW e, Follows(q, n, kn, s, e), NEW kn2, kn2 => kn
  PROVE  Follows(q, n, kn2, s, e)
BY DEF Follows

\* What the owner is now and what it was differ by the announcements to come.
LEMMA FollowsView ==
  ASSUME NEW T, NEW q \in Seq(T), NEW n, NEW s, NEW e, Follows(q, n, TRUE, s, e)
  PROVE  /\ (\A k \in 1 .. Len(q) : ~Announces(q, n, k)) => s = e
         /\ \A m \in 1 .. Len(q) : Announces(q, n, m) /\ (\A k \in 1 .. Len(q) :
              Announces(q, n, k) => m <= k) => s = q[m].old
<1>1. Len(q) \in Nat
  OBVIOUS
<1>2. PICK h \in [0 .. Len(q) -> Owners] : Trace(q, n, 0, h) /\ h[Len(q)] = e /\ h[0] = s
  BY DEF Follows
<1>3. ASSUME NEW m \in 0 .. Len(q), \A k \in 1 .. m : ~Announces(q, n, k)
      PROVE  h[m] = s
  <2> DEFINE S == {k \in Nat : k <= m => h[k] = s}
  <2>1. 0 \in S
    BY <1>2
  <2>2. ASSUME NEW k \in Nat, k \in S
        PROVE  k + 1 \in S
    <3> SUFFICES ASSUME k + 1 <= m PROVE h[k + 1] = s
      OBVIOUS
    <3>1. k + 1 \in 1 .. Len(q) /\ k + 1 \in 1 .. m /\ (k + 1) - 1 = k /\ 0 < k + 1 /\ k <= m
      BY <1>1
    <3>2. h[k + 1] = h[k]
      BY <1>2, <1>3, <3>1 DEF Trace
    <3> QED
      BY <2>2, <3>1, <3>2
  <2>3. m \in S
    <3>1. m \in Nat
      BY <1>1
    <3> HIDE DEF S
    <3> QED
      BY <2>1, <2>2, <3>1, SetInduction
  <2> QED
    BY <1>1, <2>3
<1>4. (\A k \in 1 .. Len(q) : ~Announces(q, n, k)) => s = e
  BY <1>1, <1>2, <1>3
<1>5. ASSUME NEW m \in 1 .. Len(q), Announces(q, n, m),
             \A k \in 1 .. Len(q) : Announces(q, n, k) => m <= k
      PROVE  s = q[m].old
  <2>1. m - 1 \in 0 .. Len(q) /\ \A k \in 1 .. m - 1 : k \in 1 .. Len(q) /\ ~(m <= k)
    BY <1>1
  <2>2. h[m - 1] = s
    BY <1>3, <1>5, <2>1
  <2>3. h[m - 1] = q[m].old
    BY <1>2, <1>5 DEF Trace
  <2> QED
    BY <2>2, <2>3
<1> QED
  BY <1>4, <1>5

\* The client's queue tells what became of n's owner up to the owner it has now,
\* or had when the connection was lost.
Ongoing(n, kn, s) ==
  \E e \in Owners : (connected => e = owner[n]) /\ Follows(toClient, n, kn, s, e)

\* Nothing is read.
LEMMA OngoingQueue ==
  ASSUME Inv, NEW n, NEW kn, NEW s, Ongoing(n, kn, s), UNCHANGED <<owner, connected>>,
         toClient' = toClient \/ \E calls : toClient' = Forget(toClient, calls)
  PROVE  Ongoing(n, kn, s)'
<1>1. PICK e \in Owners : (connected => e = owner[n]) /\ Follows(toClient, n, kn, s, e)
  BY DEF Ongoing
<1>2. toClient \in Seq(Messages)
  BY QueueTypes
<1>3. Follows(toClient', n, kn, s, e)
  BY <1>1, <1>2, FollowsForget
<1> QED
  BY <1>1, <1>3 DEF Ongoing

\* A message is read, and perhaps calls are cancelled.
LEMMA OngoingTaken ==
  ASSUME Inv, NEW n, NEW kn, NEW s, Ongoing(n, kn, s), UNCHANGED <<owner, connected>>,
         toClient # <<>>,
         toClient' = Tail(toClient) \/ \E calls : toClient' = Forget(Tail(toClient), calls),
         NEW v
  PROVE  /\ ~Announces(toClient, n, 1) => Ongoing(n, kn, s)'
         /\ Announces(toClient, n, 1) =>
              (v = toClient[1].new => Ongoing(n, TRUE, v)') /\ (kn => s = toClient[1].old)
         /\ Answers(toClient, n, 1) =>
              (v = toClient[1].owner => Ongoing(n, TRUE, v)') /\ (kn => s = toClient[1].owner)
<1>1. PICK e \in Owners : (connected => e = owner[n]) /\ Follows(toClient, n, kn, s, e)
  BY DEF Ongoing
<1>2. toClient \in Seq(Messages) /\ Tail(toClient) \in Seq(Messages)
  BY QueueTypes
<1>3. /\ ~Announces(toClient, n, 1) => Follows(Tail(toClient), n, kn, s, e)
      /\ Announces(toClient, n, 1) =>
           Follows(Tail(toClient), n, TRUE, toClient[1].new, e) /\ (kn => s = toClient[1].old)
      /\ Answers(toClient, n, 1) =>
           Follows(Tail(toClient), n, TRUE, toClient[1].owner, e) /\ (kn => s = toClient[1].owner)
  BY <1>1, <1>2, FollowsTail
<1>4. \A k2, s2 : Follows(Tail(toClient), n, k2, s2, e) => Ongoing(n, k2, s2)'
  <2> TAKE k2, s2
  <2> HAVE Follows(Tail(toClient), n, k2, s2, e)
  <2>1. Follows(toClient', n, k2, s2, e)
    BY <1>2, FollowsForget
  <2> QED
    BY <1>1, <2>1 DEF Ongoing
<1> QED
  BY <1>3, <1>4

\* The bus answers a question with the owner of that moment.
LEMMA OngoingBus ==
  ASSUME Inv, CallsInv, NEW n \in Names, NEW kn, NEW s, Ongoing(n, kn, s), BusHandlesRequest
  PROVE  Ongoing(n, kn, s)'
<1>1. PICK e \in Owners : (connected => e = owner[n]) /\ Follows(toClient, n, kn, s, e)
  BY DEF Ongoing
<1>2. /\ toBus \in Seq(Requests) /\ toBus # <<>> /\ Head(toBus) = toBus[1] /\ 1 \in 1 .. Len(toBus)
      /\ toClient \in Seq(Messages) /\ connected /\ UNCHANGED <<owner, connected>>
  <2>1. toBus \in Seq(Requests) /\ toBus # <<>> /\ toClient \in Seq(Messages)
    BY QueueTypes DEF BusHandlesRequest
  <2> QED
    BY <2>1 DEF BusHandlesRequest, CallsInv
<1>3. CASE UNCHANGED toClient
  BY <1>2, <1>3, OngoingQueue
<1>4. CASE Head(toBus).type = "GetNameOwner"
           /\ toClient' = Append(toClient, [type |-> "reply", call |-> Head(toBus).call,
                                            owner |-> owner[Head(toBus).name]])
  <2> DEFINE x == [type |-> "reply", call |-> Head(toBus).call, owner |-> owner[Head(toBus).name]]
             T == Messages \union {x}
  <2>1. x.type = "reply" /\ x.call = toBus[1].call /\ x.owner = owner[toBus[1].name]
    BY <1>2
  <2>2. toBus[1].name = ProxyName[toBus[1].call]
    BY <1>2, <1>4 DEF CallsInv, OneCallIn, Asks
  <2>3. toClient \in Seq(T) /\ x \in T
    BY <1>2
  <2>4. ProxyName[x.call] = n => x.owner = e
    BY <1>1, <1>2, <2>1, <2>2
  <2> HIDE DEF x, T
  <2>5. Follows(Append(toClient, x), n, kn, s, e)
    BY <1>1, <2>1, <2>3, <2>4, FollowsAppend
  <2> QED
    BY <1>1, <1>2, <1>4, <2>5 DEF Ongoing, x
<1> QED
  BY <1>2, <1>3, <1>4 DEF BusHandlesRequest

\* What happens outside is announced to a client that has the rule.
LEMMA OngoingEvent ==
  ASSUME Inv, NEW n \in Names, NEW kn, NEW s, Ongoing(n, kn, s), BusEvent,
         connected /\ ~InForce(n) => ~kn /\ ~Heard(n) /\ ~Answered(n)
  PROVE  Ongoing(n, kn, s)'
<1>1. PICK e \in Owners : (connected => e = owner[n]) /\ Follows(toClient, n, kn, s, e)
  BY DEF Ongoing
<1>2. toClient \in Seq(Messages) /\ owner \in [Names -> Owners] /\ n \notin Uniques
  BY QueueTypes, BusAssumption DEF Inv, TypeOK, BusTypeOK
<1>3. ASSUME NEW x, toClient' = Append(toClient, x), UNCHANGED owner, connected' => connected,
             x.type \notin {"reply", "signal"}, x.type = "NameOwnerChanged" => x.name # n
      PROVE  Ongoing(n, kn, s)'
  <2> DEFINE T == Messages \union {x}
  <2>1. toClient \in Seq(T) /\ x \in T
    BY <1>2
  <2> HIDE DEF T
  <2>2. Follows(Append(toClient, x), n, kn, s, e)
    BY <1>1, <1>3, <2>1, FollowsAppend
  <2> QED
    BY <1>1, <1>3, <2>2 DEF Ongoing
<1>4. ASSUME NEW m \in Names, NEW new \in Owners, OwnerChanges(m, new)
      PROVE  Ongoing(n, kn, s)'
  <2> DEFINE x == [type |-> "NameOwnerChanged", name |-> m, old |-> owner[m], new |-> new]
             T == Messages \union {x}
  <2>1. /\ toClient' = IF connected /\ InForce(m) THEN Append(toClient, x) ELSE toClient
        /\ owner' = [owner EXCEPT ![m] = new]
        /\ UNCHANGED connected
    BY <1>4 DEF OwnerChanges, Announced, InForce
  <2>2. /\ x.type = "NameOwnerChanged" /\ x.name = m /\ x.old = owner[m] /\ x.new = new
        /\ toClient \in Seq(T) /\ x \in T
    BY <1>2
  <2> HIDE DEF x, T
  <2>3. CASE m # n
    <3>1. owner'[n] = owner[n]
      BY <1>2, <2>1, <2>3
    <3>2. Follows(Append(toClient, x), n, kn, s, e)
      BY <1>1, <2>2, <2>3, FollowsAppend
    <3>3. Follows(toClient', n, kn, s, e)
      BY <1>1, <2>1, <3>2
    <3> QED
      BY <1>1, <2>1, <3>1, <3>3 DEF Ongoing
  <2>4. CASE m = n
    <3>1. owner'[n] = new
      BY <1>2, <2>1, <2>4
    <3>2. CASE connected /\ InForce(n)
      <4>1. Follows(Append(toClient, x), n, kn, s, new)
        BY <1>1, <2>2, <2>4, <3>2, FollowsAppend
      <4>2. Follows(toClient', n, kn, s, new)
        BY <2>1, <2>4, <3>2, <4>1
      <4> QED
        BY <3>1, <4>2 DEF Ongoing
    <3>3. CASE connected /\ ~InForce(n)
      <4>1. \A k \in 1 .. Len(toClient) : ~Announces(toClient, n, k) /\ ~Answers(toClient, n, k)
        BY <3>3 DEF Heard, Answered, Answers
      <4>2. Follows(toClient, n, FALSE, s, new)
        BY <1>2, <4>1, FollowsFresh
      <4>3. Follows(toClient', n, kn, s, new)
        BY <2>1, <2>4, <3>3, <4>2, FollowsLess
      <4> QED
        BY <3>1, <4>3 DEF Ongoing
    <3>4. CASE ~connected
      <4>1. toClient' = toClient
        BY <2>1, <3>4
      <4> QED
        BY <1>1, <2>1, <3>4, <4>1 DEF Ongoing
    <3> QED
      BY <3>2, <3>3, <3>4
  <2> QED
    BY <2>3, <2>4
<1>5. ASSUME NEW u \in Uniques, UniqueVanishes(u)
      PROVE  Ongoing(n, kn, s)'
  <2>1. UNCHANGED <<owner, connected>>
        /\ (\/ toClient' = toClient
            \/ toClient' = Append(toClient, [type |-> "NameOwnerChanged", name |-> u,
                                             old |-> u, new |-> NoOwner]))
    BY <1>5 DEF UniqueVanishes, Announced
  <2> QED
    BY <1>2, <1>3, <2>1, OngoingQueue
<1>6. ASSUME NEW u \in Uniques, NEW i \in Ifaces, OwnerEmits(u, i)
      PROVE  Ongoing(n, kn, s)'
  <2> DEFINE x == [type |-> "signal", sender |-> u, iface |-> i,
                   owned |-> {m \in Names : owner[m] = u}]
             T == Messages \union {x}
  <2>1. connected /\ UNCHANGED <<owner, connected>> /\ toClient' = Append(toClient, x)
    BY <1>6 DEF OwnerEmits
  <2>2. /\ x.type = "signal" /\ x.sender = u /\ (n \in x.owned <=> owner[n] = u)
        /\ toClient \in Seq(T) /\ x \in T
    BY <1>2
  <2> HIDE DEF x, T
  <2>3. Follows(Append(toClient, x), n, kn, s, e)
    BY <1>1, <2>1, <2>2, FollowsAppend
  <2> QED
    BY <1>1, <2>1, <2>3 DEF Ongoing
<1>7. CASE ConnectionLost
  <2>1. ~connected' /\ UNCHANGED owner /\ toClient' = Append(toClient, [type |-> "Disconnected"])
    BY <1>7 DEF ConnectionLost
  <2> QED
    BY <1>3, <2>1
<1> QED
  BY <1>4, <1>5, <1>6, <1>7 DEF BusEvent

--------------------------------------------------------------------------------
(* Tables: what the manager holds agrees with the history *)

\* The proxies for n in the unassociated list; Followers(n) share its info.
Waiters(n) == {p \in TrackingFor(n) : unassociated[p] > 0}
Placed(n) == Followers(n) # {} \/ Waiters(n) # {}

\* A proxy waits in one place, and only one for a well-known name.
PlacesInv ==
  /\ OnePlace
  /\ \A p \in Listed : associated[p] => ~ForOwner(p)

\* The tables take s for the owner of n.
Sure(n, s) ==
  /\ Followers(n) # {} =>
       /\ s \in Uniques
       /\ \A u \in Uniques :
            ownerNames[u][n] = IF u = s THEN <<Cardinality(Followers(n))>> ELSE <<>>
  /\ Waiters(n) # {} => s = NoOwner

\* No info without proxies; nothing is known without the rule; and what is known
\* is where the history of the queue begins.
Tracked(n) ==
  /\ Followers(n) = {} => \A u \in Uniques : ownerNames[u][n] = <<>>
  /\ connected /\ ~InForce(n) => ~Placed(n)
  /\ TrackingFor(n) # {} => \E s \in Owners : Ongoing(n, Placed(n), s) /\ Sure(n, s)

TrackedInv == \A n \in Names : Tracked(n)

RequestsInv == MovingInv /\ FreshInv /\ ForcedInv

LEMMA FollowersFinite ==
  ASSUME NEW n
  PROVE  /\ IsFiniteSet(Followers(n)) /\ Cardinality(Followers(n)) \in Nat
         /\ Cardinality(Followers(n)) = 0 <=> Followers(n) = {}
<1>1. IsFiniteSet(Followers(n))
  BY BusAssumption, FS_Subset DEF Followers, TrackingFor, Listed
<1> QED
  BY <1>1, FS_CardinalityType, FS_EmptySet

\* The owner a name is tracked under, with the knowledge as a constant.
LEMMA TrackedFrom ==
  ASSUME NEW n, Tracked(n), TrackingFor(n) # {}
  PROVE  \E kn \in BOOLEAN, s \in Owners :
           (kn <=> Placed(n)) /\ Ongoing(n, kn, s) /\ Sure(n, s)
<1>1. PICK s \in Owners : Ongoing(n, Placed(n), s) /\ Sure(n, s)
  BY DEF Tracked
<1>2. PICK kn \in BOOLEAN : kn <=> Placed(n)
  OBVIOUS
<1>3. Ongoing(n, kn, s)
  BY <1>1, <1>2, FollowsLess DEF Ongoing
<1> QED
  BY <1>1, <1>2, <1>3

\* The other direction, after a step.
LEMMA TrackedTo ==
  ASSUME NEW n, NEW kn, NEW s \in Owners,
         Ongoing(n, kn, s)', Sure(n, s)', Placed(n)' => kn,
         (Followers(n) = {} => \A u \in Uniques : ownerNames[u][n] = <<>>)',
         (connected /\ ~InForce(n) => ~Placed(n))'
  PROVE  Tracked(n)'
<1>1. Ongoing(n, Placed(n), s)'
  BY FollowsLess DEF Ongoing
<1> QED
  BY <1>1 DEF Tracked

\* A step that changes nothing for n in the tables and only continues its
\* history; proxies may leave the unassociated list.
LEMMA TrackedKept ==
  ASSUME NEW n \in Names, Tracked(n),
         Followers(n)' = Followers(n), Waiters(n)' \subseteq Waiters(n),
         TrackingFor(n)' # {} => TrackingFor(n) # {},
         \A u \in Uniques : ownerNames'[u][n] = ownerNames[u][n],
         connected' /\ ~InForce(n)' => ~Placed(n),
         \A kn \in BOOLEAN, s \in Owners :
           TrackingFor(n)' # {} /\ (kn => Placed(n)) /\ Ongoing(n, kn, s) => Ongoing(n, kn, s)'
  PROVE  Tracked(n)'
<1>1. Placed(n)' => Placed(n)
  BY DEF Placed
<1>2. (Followers(n) = {} => \A u \in Uniques : ownerNames[u][n] = <<>>)'
  BY DEF Tracked
<1>3. (connected /\ ~InForce(n) => ~Placed(n))'
  BY <1>1
<1>4. CASE TrackingFor(n)' # {}
  <2>1. PICK kn \in BOOLEAN, s \in Owners : (kn <=> Placed(n)) /\ Ongoing(n, kn, s) /\ Sure(n, s)
    BY <1>4, TrackedFrom
  <2>2. Ongoing(n, kn, s)'
    BY <1>4, <2>1
  <2>3. Sure(n, s)'
    BY <2>1 DEF Sure
  <2>4. Placed(n)' => kn
    BY <1>1, <2>1
  <2> QED
    BY <1>2, <1>3, <2>1, <2>2, <2>3, <2>4, TrackedTo
<1>5. CASE TrackingFor(n)' = {}
  BY <1>2, <1>3, <1>5 DEF Tracked
<1> QED
  BY <1>4, <1>5

\* A manager without references has no proxies.
LEMMA NoManager ==
  ASSUME Inv, refcount = 0
  PROVE  \A n : TrackingFor(n) = {}
<1>1. IsFiniteSet(Holders) /\ Cardinality(Holders) \in Nat
  BY BusAssumption, FS_Subset, HoldersType DEF Holders
<1>2. Cardinality(Holders) = 0
  BY <1>1 DEF Inv, RefcountExact
<1>3. Holders = {}
  BY <1>1, <1>2, FS_EmptySet
<1> QED
  BY <1>3 DEF Holders, TrackingFor, Listed

\* Steps that leave the tables alone.
LEMMA RestTracked ==
  ASSUME BooksInv, RequestsInv, PlacesInv, TrackedInv, UNCHANGED tables,
         \/ Skips
         \/ Rests
         \/ \E p \in Proxies : NameCallFails(p) \/ ResolveOwner(p)
         \/ BusHandlesRequest /\ UNCHANGED proxyVars
         \/ BusEvent /\ UNCHANGED proxyVars
  PROVE  PlacesInv' /\ TrackedInv'
<1>1. UNCHANGED <<ownerNames, unassociated, associated>>
  BY DEF tables, Skips, Rests, NameCallFails, ResolveOwner, proxyVars
<1>2. Listed' = Listed /\ \A n : TrackingFor(n)' = TrackingFor(n)
  <2>1. UNCHANGED status \/ \E p \in Proxies : ResolveOwner(p)
    BY DEF Skips, Rests, NameCallFails, proxyVars
  <2> QED
    BY <2>1, TrackingShapes DEF BooksInv
<1>3. \A p \in Proxies : nameCall'[p] => nameCall[p]
  BY DEF Skips, Rests, NameCallFails, ResolveOwner, proxyVars, BooksInv, Inv, TypeOK
<1>4. PlacesInv'
  BY <1>1, <1>2, <1>3 DEF PlacesInv, OnePlace, Tracking, ForOwner
<1>5. ASSUME NEW n \in Names
      PROVE  Tracked(n)'
  <2>1. Followers(n)' = Followers(n) /\ Waiters(n)' = Waiters(n)
    BY <1>1, <1>2 DEF Followers, Waiters
  <2>2. Placed(n) => TrackingFor(n) # {}
    BY DEF Placed, Followers, Waiters
  <2>3. Tracked(n)
    BY DEF TrackedInv
  <2>4. connected' /\ ~InForce(n)' => ~Placed(n)
    <3>1. CASE UNCHANGED rules
      <4>1. connected' => connected
        BY DEF Skips, Rests, NameCallFails, ResolveOwner, BusHandlesRequest, BusEvent,
               OwnerChanges, UniqueVanishes, OwnerEmits, ConnectionLost, wire, busVars
      <4> QED
        BY <2>3, <3>1, <4>1 DEF Tracked, InForce
    <3>2. CASE BusHandlesRequest
      <4>1. /\ toBus # <<>> /\ toBus \in Seq(Requests) /\ Head(toBus) = toBus[1]
            /\ 1 \in 1 .. Len(toBus) /\ connected
            /\ rules \in [Rules -> Nat] /\ OwnerRule(n) \in Rules
        <5>1. toBus # <<>> /\ toBus \in Seq(Requests)
          BY <3>2, QueueTypes DEF BusHandlesRequest, BooksInv
        <5>2. rules \in [Rules -> Nat] /\ OwnerRule(n) \in Rules
          BY DEF BooksInv, Inv, TypeOK, BusTypeOK, Rules, OwnerRule, BusNames
        <5> QED
          BY <5>1, <5>2 DEF BooksInv, CallsInv
      <4>2. Drops(toBus, OwnerRule(n), 1) => TrackingFor(n) = {}
        BY <4>1 DEF RequestsInv, ForcedInv, Forcing
      <4>3. ~Drops(toBus, OwnerRule(n), 1) /\ InForce(n) => InForce(n)'
        BY <3>2, <4>1 DEF BusHandlesRequest, InForce, Drops
      <4> QED
        BY <2>2, <2>3, <4>1, <4>2, <4>3 DEF Tracked
    <3>3. UNCHANGED rules \/ BusHandlesRequest
      BY DEF Skips, Rests, NameCallFails, ResolveOwner, BusEvent,
             OwnerChanges, UniqueVanishes, OwnerEmits, ConnectionLost, wire, busVars
    <3> QED
      BY <3>1, <3>2, <3>3
  <2>5. ASSUME NEW kn \in BOOLEAN, NEW s \in Owners,
               TrackingFor(n)' # {}, kn => Placed(n), Ongoing(n, kn, s)
        PROVE  Ongoing(n, kn, s)'
    <3>1. CASE Skips
      <4>1. refcount # 0
        BY <1>2, <2>5, NoManager DEF BooksInv
      <4>2. toClient # <<>> /\ toClient \in Seq(Messages) /\ toClient' = Tail(toClient)
            /\ UNCHANGED <<owner, connected>>
        BY <3>1, QueueTypes DEF Skips, BooksInv
      <4>3. ~Announces(toClient, n, 1)
        BY <3>1, <4>1, <4>2 DEF Skips, Announces
      <4> QED
        BY <2>5, <4>2, <4>3, OngoingTaken DEF BooksInv
    <3>2. CASE Rests \/ \E p \in Proxies : NameCallFails(p) \/ ResolveOwner(p)
      <4>1. UNCHANGED <<owner, connected, toClient>>
        BY <3>2 DEF Rests, NameCallFails, ResolveOwner, wire, busVars
      <4> QED
        BY <2>5, <4>1, OngoingQueue DEF BooksInv
    <3>3. CASE BusHandlesRequest
      BY <2>5, <3>3, OngoingBus DEF BooksInv
    <3>4. CASE BusEvent
      <4>1. connected /\ ~InForce(n) => ~kn /\ ~Heard(n) /\ ~Answered(n)
        BY <1>2, <2>3, <2>5 DEF Tracked, RequestsInv, ForcedInv
      <4> QED
        BY <2>5, <3>4, <4>1, OngoingEvent DEF BooksInv
    <3> QED
      BY <3>1, <3>2, <3>3, <3>4
  <2> QED
    BY <1>1, <1>2, <2>1, <2>3, <2>4, <2>5, TrackedKept
<1> QED
  BY <1>4, <1>5 DEF TrackedInv

\* What the operations on infos do to the info of n under u, and to no other.
LEMMA MonitoredEntry ==
  ASSUME NEW table \in Infos, NEW u \in Uniques, NEW n \in Names, NEW k \in Nat
  PROVE  LET new == Monitored(table, u, n, k) IN
         /\ \A v \in Uniques, m \in Names : v # u \/ m # n => new[v][m] = table[v][m]
         /\ table[u][n] = <<>> => new[u][n] = <<k>>
         /\ \A c \in Nat : table[u][n] = <<c>> => new[u][n] = <<c + k>>
<1> DEFINE s == table[u][n]
           t == IF s = <<>> THEN <<k>> ELSE <<Head(s) + k>> \o Tail(s)
<1>1. Monitored(table, u, n, k) = [table EXCEPT ![u][n] = t]
  BY DEF Monitored, Infos
<1>2. s = <<>> => t = <<k>>
  OBVIOUS
<1>3. ASSUME NEW c \in Nat, s = <<c>>
      PROVE  t = <<c + k>>
  <2>1. s # <<>> /\ Head(s) = c /\ Tail(s) = <<>>
    BY <1>3
  <2>2. <<c + k>> \o <<>> = <<c + k>>
    OBVIOUS
  <2> QED
    BY <2>1, <2>2
<1> HIDE DEF t
<1>4. /\ \A v \in Uniques, m \in Names : v # u \/ m # n =>
           [table EXCEPT ![u][n] = t][v][m] = table[v][m]
      /\ [table EXCEPT ![u][n] = t][u][n] = t
  BY DEF Infos
<1> QED
  BY <1>1, <1>2, <1>3, <1>4

LEMMA UnmonitoredEntry ==
  ASSUME NEW table \in Infos, NEW u \in Uniques, NEW n \in Names, NEW c \in Nat, table[u][n] = <<c>>
  PROVE  LET new == Unmonitored(table, u, n) IN
         /\ \A v \in Uniques, m \in Names : v # u \/ m # n => new[v][m] = table[v][m]
         /\ new[u][n] = IF c = 1 THEN <<>> ELSE <<c - 1>>
<1> DEFINE s == table[u][n]
           t == IF Head(s) = 1 THEN Tail(s) ELSE <<Head(s) - 1>> \o Tail(s)
<1>1. Unmonitored(table, u, n) = [table EXCEPT ![u][n] = t]
  BY DEF Unmonitored, Infos
<1>2. t = IF c = 1 THEN <<>> ELSE <<c - 1>>
  <2>1. Head(s) = c /\ Tail(s) = <<>>
    OBVIOUS
  <2>2. <<c - 1>> \o <<>> = <<c - 1>>
    OBVIOUS
  <2> QED
    BY <2>1, <2>2
<1> HIDE DEF t
<1>3. /\ \A v \in Uniques, m \in Names : v # u \/ m # n =>
           [table EXCEPT ![u][n] = t][v][m] = table[v][m]
      /\ [table EXCEPT ![u][n] = t][u][n] = t
  BY DEF Infos
<1> QED
  BY <1>1, <1>2, <1>3

LEMMA ReplacedEntry ==
  ASSUME NEW table \in Infos, NEW n \in Names, NEW old \in Uniques, NEW new \in Owners, new # old
  PROVE  LET moved == Replaced(table, n, old, new) IN
         /\ \A v \in Uniques, m \in Names : m # n => moved[v][m] = table[v][m]
         /\ table[old][n] = <<>> => moved = table
         /\ \A c \in Nat : table[old][n] = <<c>> =>
              /\ moved[old][n] = <<>>
              /\ \A v \in Uniques : v # old /\ v # new => moved[v][n] = table[v][n]
              /\ new \in Uniques /\ table[new][n] = <<>> => moved[new][n] = <<c>>
<1> DEFINE s == table[old][n]
           without == [table EXCEPT ![old][n] = Tail(s)]
           t == Append(without[new][n], Head(s))
           moved == Replaced(table, n, old, new)
<1>1. moved = IF s = <<>> THEN table
              ELSE IF new = NoOwner THEN without ELSE [without EXCEPT ![new][n] = t]
  BY DEF Replaced, Infos
<1>2. /\ \A v \in Uniques, m \in Names : v # old \/ m # n => without[v][m] = table[v][m]
      /\ without[old][n] = Tail(s)
      /\ DOMAIN without = Uniques /\ \A v \in Uniques : DOMAIN without[v] = Names
  BY DEF Infos
<1> HIDE DEF without
<1>3. new # NoOwner => new \in Uniques
  BY DEF Owners
<1>4. new \in Uniques =>
        /\ \A v \in Uniques, m \in Names : v # new \/ m # n =>
             [without EXCEPT ![new][n] = t][v][m] = without[v][m]
        /\ [without EXCEPT ![new][n] = t][new][n] = t
  <2> HIDE DEF t
  <2> QED
    BY <1>2
<1>5. \A v \in Uniques, m \in Names : m # n => moved[v][m] = table[v][m]
  <2> HIDE DEF t, s
  <2> QED
    BY <1>1, <1>2, <1>3, <1>4
<1>6. ASSUME NEW c \in Nat, s = <<c>>
      PROVE  /\ moved[old][n] = <<>>
             /\ \A v \in Uniques : v # old /\ v # new => moved[v][n] = table[v][n]
             /\ new \in Uniques /\ table[new][n] = <<>> => moved[new][n] = <<c>>
  <2>1. s # <<>> /\ Tail(s) = <<>> /\ Head(s) = c
    BY <1>6
  <2>2. new \in Uniques /\ table[new][n] = <<>> => t = <<c>>
    <3>1. new \in Uniques => without[new][n] = table[new][n]
      BY <1>2
    <3>2. Append(<<>>, c) = <<c>>
      OBVIOUS
    <3> QED
      BY <2>1, <3>1, <3>2
  <2> HIDE DEF t, s
  <2>3. moved = without \/ (new \in Uniques /\ moved = [without EXCEPT ![new][n] = t])
    BY <1>1, <1>3, <2>1
  <2>4. new \in Uniques => new # NoOwner
    BY BusAssumption
  <2>5. new \in Uniques => moved = [without EXCEPT ![new][n] = t]
    BY <1>1, <2>1, <2>4
  <2>6. moved[old][n] = <<>>
    BY <1>2, <1>4, <2>1, <2>3
  <2>7. \A v \in Uniques : v # old /\ v # new => moved[v][n] = table[v][n]
    BY <1>2, <1>4, <2>3
  <2>8. new \in Uniques /\ table[new][n] = <<>> => moved[new][n] = <<c>>
    BY <1>4, <2>2, <2>5
  <2> QED
    BY <2>6, <2>7, <2>8
<1> HIDE DEF moved
<1> QED
  BY <1>1, <1>5, <1>6 DEF moved

\* The owners a name is tracked under: the one the tables are sure of.
LEMMA TrackedOwnersSure ==
  ASSUME Inv, NEW n \in Names, Tracked(n)
  PROVE  /\ Followers(n) = {} <=> TrackedOwners(n) = {}
         /\ \A s \in Owners : Sure(n, s) /\ Followers(n) # {} =>
              /\ s \in Uniques /\ s # NoOwner /\ TrackedOwners(n) = {s}
              /\ ownerNames[s][n] = <<Cardinality(Followers(n))>>
              /\ \A u \in Uniques : u # s => ownerNames[u][n] = <<>>
              /\ Waiters(n) = {}
<1>1. ASSUME NEW s \in Owners, Sure(n, s), Followers(n) # {}
      PROVE  /\ s \in Uniques /\ s # NoOwner /\ TrackedOwners(n) = {s}
             /\ ownerNames[s][n] = <<Cardinality(Followers(n))>>
             /\ \A u \in Uniques : u # s => ownerNames[u][n] = <<>>
             /\ Waiters(n) = {}
  <2>1. s \in Uniques
        /\ \A u \in Uniques :
             ownerNames[u][n] = IF u = s THEN <<Cardinality(Followers(n))>> ELSE <<>>
    BY <1>1 DEF Sure
  <2>2. s # NoOwner
    BY <2>1, BusAssumption
  <2>3. <<Cardinality(Followers(n))>> # <<>>
    OBVIOUS
  <2>4. TrackedOwners(n) = {s}
    BY <2>1, <2>3 DEF TrackedOwners
  <2>5. Waiters(n) = {}
    BY <1>1, <2>2 DEF Sure
  <2> QED
    BY <2>1, <2>2, <2>4, <2>5
<1>2. ASSUME Followers(n) # {}
      PROVE  TrackedOwners(n) # {}
  <2>1. TrackingFor(n) # {}
    BY <1>2 DEF Followers
  <2>2. PICK s \in Owners : Sure(n, s)
    BY <2>1 DEF Tracked
  <2> QED
    BY <1>1, <1>2, <2>2
<1>3. Followers(n) = {} => TrackedOwners(n) = {}
  BY DEF Tracked, TrackedOwners
<1> QED
  BY <1>1, <1>2, <1>3

\* A proxy registers and shares the info there is, or asks.
LEMMA RegistersTracked ==
  ASSUME ~Reuse, BooksInv, RequestsInv, PlacesInv, TrackedInv,
         NEW p \in Proxies, NEW i \in Ifaces, Registers(p, i)
  PROVE  PlacesInv' /\ TrackedInv'
<1> DEFINE m == ProxyName[p]
           found == ~ForOwner(p) /\ TrackedOwners(m) # {}
           asks == ~ForOwner(p) /\ ~found /\ connected
<1>1. /\ associated' = [associated EXCEPT ![p] = found]
      /\ nameCall' = [nameCall EXCEPT ![p] = asks]
      /\ \/ ~found /\ UNCHANGED ownerNames
         \/ found /\ \E u \in TrackedOwners(m) : ownerNames' = Monitored(ownerNames, u, m, 1)
      /\ UNCHANGED <<toClient, owner, rules, connected, unassociated>>
  BY DEF Registers, Register
<1>2. /\ associated \in [Proxies -> BOOLEAN] /\ nameCall \in [Proxies -> BOOLEAN]
      /\ ownerNames \in Infos /\ owner \in [Names -> Owners]
      /\ unassociated \in [Proxies -> Nat]
      /\ toClient \in Seq(Messages) /\ Inv
  BY QueueTypes DEF BooksInv, Inv, TypeOK, BusTypeOK, Infos
<1>3. /\ p \notin Listed /\ Listed' = Listed \union {p}
      /\ \A n : TrackingFor(n)' = IF n = m THEN TrackingFor(n) \union {p} ELSE TrackingFor(n)
      /\ \A n : TrackingFor(n) \subseteq Listed
  BY <1>2, RegistersLists, TrackingShapes DEF TrackingFor
<1>4. unassociated[p] = 0
  BY <1>2, <1>3 DEF PlacesInv, OnePlace, Tracking
<1>5. /\ \A q \in Proxies : q # p => associated'[q] = associated[q] /\ nameCall'[q] = nameCall[q]
      /\ associated'[p] = found /\ nameCall'[p] = asks
  <2> HIDE DEF found, asks
  <2> QED
    BY <1>1, <1>2
<1>6. PlacesInv'
  <2>1. \A q \in Proxies : Tracking(q) => Tracking(q)'
    BY <1>3 DEF Tracking, ForOwner
  <2>2. nameCall'[p] => Tracking(p)' /\ ~associated'[p]
    BY <1>3, <1>5 DEF Tracking, ForOwner
  <2>3. OnePlace'
    BY <1>1, <1>4, <1>5, <2>1, <2>2 DEF PlacesInv, OnePlace
  <2>4. \A q \in Listed' : associated'[q] => ~ForOwner(q)
    BY <1>3, <1>5 DEF PlacesInv, Listed
  <2> QED
    BY <2>3, <2>4 DEF PlacesInv, ForOwner
<1>7. \A q \in Listed : q # p /\ q \in Proxies
  BY <1>3 DEF Listed
<1>8. \A n : /\ Followers(n)' = IF n = m /\ found THEN Followers(n) \union {p} ELSE Followers(n)
             /\ Waiters(n)' = Waiters(n)
  <2> TAKE n
  <2>1. \A q \in TrackingFor(n) : q # p /\ associated'[q] = associated[q]
    BY <1>3, <1>5, <1>7
  <2>2. Followers(n)' = IF n = m /\ found THEN Followers(n) \union {p} ELSE Followers(n)
    BY <1>3, <1>5, <2>1 DEF Followers
  <2>3. Waiters(n)' = Waiters(n)
    BY <1>1, <1>3, <1>4 DEF Waiters
  <2> QED
    BY <2>2, <2>3
<1>9. ASSUME NEW n \in Names, n # m \/ (~found /\ TrackingFor(n) # {})
      PROVE  Tracked(n)'
  <2>1. Followers(n)' = Followers(n) /\ Waiters(n)' = Waiters(n)
    BY <1>8, <1>9
  <2>2. \A u \in Uniques : ownerNames'[u][n] = ownerNames[u][n]
    <3>1. CASE ~found
      BY <1>1, <3>1
    <3>2. CASE found
      <4>1. m \in Names /\ n # m
        BY <1>9, <3>2 DEF ForOwner
      <4>2. PICK u \in Uniques : ownerNames' = Monitored(ownerNames, u, m, 1)
        BY <1>1, <3>2 DEF TrackedOwners
      <4>3. ownerNames \in Infos /\ 1 \in Nat
        BY <1>2
      <4> HIDE DEF m
      <4>4. \A v \in Uniques : Monitored(ownerNames, u, m, 1)[v][n] = ownerNames[v][n]
        BY <4>1, <4>3, MonitoredEntry
      <4> QED
        BY <4>2, <4>4
    <3> QED
      BY <3>1, <3>2
  <2>3. Tracked(n) /\ (TrackingFor(n)' # {} => TrackingFor(n) # {})
    BY <1>3, <1>9 DEF TrackedInv
  <2>4. connected' /\ ~InForce(n)' => ~Placed(n)
    BY <1>1, <2>3 DEF Tracked, InForce
  <2>5. \A kn \in BOOLEAN, s \in Owners :
          TrackingFor(n)' # {} /\ (kn => Placed(n)) /\ Ongoing(n, kn, s) => Ongoing(n, kn, s)'
    BY <1>1, <1>2, OngoingQueue
  <2> QED
    BY <2>1, <2>2, <2>3, <2>4, <2>5, TrackedKept
<1>10. ASSUME m \in Names, TrackingFor(m) = {}
       PROVE  Tracked(m)'
  <2>1. Followers(m) = {} /\ Waiters(m) = {} /\ Tracked(m)
    BY <1>10 DEF Followers, Waiters, TrackedInv
  <2>2. ~found
    BY <1>2, <1>10, <2>1, TrackedOwnersSure
  <2>3. Followers(m)' = {} /\ Waiters(m)' = {} /\ UNCHANGED ownerNames
    BY <1>1, <1>8, <2>1, <2>2
  <2>4. Unborn(m)
    BY <1>2, <1>10, FirstIsFresh DEF RequestsInv
  <2>5. ~Heard(m)
    BY <1>10, <2>4 DEF RequestsInv, FreshInv
  <2>6. ~Answered(m)
    <3>1. Shapes
      BY DEF Shapes
    <3> QED
      BY <1>2, <1>10, <3>1, AnswersFromBus DEF BooksInv
  <2>7. \A k \in 1 .. Len(toClient) : ~Announces(toClient, m, k) /\ ~Answers(toClient, m, k)
    BY <2>5, <2>6 DEF Heard, Answered, Answers
  <2>8. Ongoing(m, FALSE, NoOwner)'
    <3>1. Follows(toClient, m, FALSE, NoOwner, owner[m])
      BY <1>2, <1>10, <2>7, FollowsFresh
    <3>2. owner[m] \in Owners
      BY <1>2, <1>10
    <3> QED
      BY <1>1, <3>1, <3>2 DEF Ongoing
  <2>9. Sure(m, NoOwner)' /\ NoOwner \in Owners /\ ~Placed(m)'
    BY <2>3 DEF Sure, Owners, Placed
  <2>10. (Followers(m) = {} => \A u \in Uniques : ownerNames[u][m] = <<>>)'
    BY <2>1, <2>3 DEF Tracked
  <2> QED
    BY <2>8, <2>9, <2>10, TrackedTo
<1>11. ASSUME m \in Names, TrackingFor(m) # {}, found
       PROVE  Tracked(m)'
  <2>1. Tracked(m)
    BY <1>11 DEF TrackedInv
  <2>2. Followers(m) # {}
    BY <1>2, <1>11, <2>1, TrackedOwnersSure
  <2>3. PICK kn \in BOOLEAN, s \in Owners : (kn <=> Placed(m)) /\ Ongoing(m, kn, s) /\ Sure(m, s)
    BY <1>11, <2>1, TrackedFrom
  <2> DEFINE C == Cardinality(Followers(m))
  <2>4. /\ s \in Uniques /\ s # NoOwner /\ TrackedOwners(m) = {s}
        /\ ownerNames[s][m] = <<C>>
        /\ \A u \in Uniques : u # s => ownerNames[u][m] = <<>>
        /\ Waiters(m) = {}
    BY <1>2, <1>11, <2>1, <2>2, <2>3, TrackedOwnersSure
  <2>5. ownerNames' = Monitored(ownerNames, s, m, 1)
    BY <1>1, <1>11, <2>4
  <2>6. C \in Nat /\ Cardinality(Followers(m)') = C + 1
    <3>1. p \notin Followers(m) /\ Followers(m)' = Followers(m) \union {p}
      BY <1>3, <1>8, <1>11 DEF Followers
    <3> QED
      BY <3>1, FollowersFinite, FS_AddElement
  <2> HIDE DEF C
  <2>7. /\ ownerNames'[s][m] = <<C + 1>>
        /\ \A u \in Uniques : u # s => ownerNames'[u][m] = <<>>
    <3>1. ownerNames \in Infos /\ 1 \in Nat /\ m \in Names /\ C \in Nat
      BY <1>2, <1>11, <2>6
    <3> HIDE DEF m
    <3>2. Monitored(ownerNames, s, m, 1)[s][m] = <<C + 1>>
      BY <2>4, <3>1, MonitoredEntry
    <3>3. \A u \in Uniques : u # s => Monitored(ownerNames, s, m, 1)[u][m] = ownerNames[u][m]
      BY <2>4, <3>1, MonitoredEntry
    <3> QED
      BY <2>4, <2>5, <3>2, <3>3
  <2>8. Followers(m)' # {} /\ Waiters(m)' = {} /\ kn
    BY <1>8, <2>2, <2>3, <2>4 DEF Placed
  <2>9. Sure(m, s)'
    BY <2>4, <2>6, <2>7, <2>8 DEF Sure
  <2>10. Ongoing(m, kn, s)'
    BY <1>1, <1>2, <2>3, OngoingQueue
  <2>11. (connected /\ ~InForce(m) => ~Placed(m))'
    <3>1. Placed(m)
      BY <2>2 DEF Placed
    <3>2. ~(connected /\ ~InForce(m))
      BY <2>1, <3>1 DEF Tracked
    <3> QED
      BY <1>1, <3>2 DEF InForce
  <2> QED
    BY <2>8, <2>9, <2>10, <2>11, TrackedTo
<1>12. TrackedInv'
  <2> SUFFICES ASSUME NEW n \in Names PROVE Tracked(n)'
    BY DEF TrackedInv
  <2> HIDE DEF found
  <2> QED
    BY <1>9, <1>10, <1>11
<1> QED
  BY <1>6, <1>12

\* A proxy leaves its info, its call or the unassociated list.
LEMMA LeavesTracked ==
  ASSUME BooksInv, PlacesInv, TrackedInv, NEW p \in Proxies, NEW st \in Statuses, Leaves(p, st)
  PROVE  PlacesInv' /\ TrackedInv'
<1> DEFINE m == ProxyName[p]
<1>1. /\ \/ ForOwner(p) /\ UNCHANGED <<ownerNames, nameCall, unassociated>>
         \/ ~ForOwner(p) /\ StopsTracking(p)
      /\ UNCHANGED <<owner, rules, connected, associated>>
      /\ \E calls : toClient' = Forget(toClient, calls)
  BY DEF Leaves, Unregister
<1>2. /\ associated \in [Proxies -> BOOLEAN] /\ nameCall \in [Proxies -> BOOLEAN]
      /\ ownerNames \in Infos
      /\ unassociated \in [Proxies -> Nat]
      /\ Inv
  BY DEF BooksInv, Inv, TypeOK, Infos
<1>3. /\ p \in Listed /\ Listed' = Listed \ {p}
      /\ \A n : TrackingFor(n)' = TrackingFor(n) \ {p}
      /\ \A n : p \in TrackingFor(n) <=> n = m
      /\ \A n : TrackingFor(n) \subseteq Proxies
  BY <1>2, LeavesLists, TrackingShapes DEF TrackingFor, Listed
<1>4. /\ \A q \in Proxies : q # p => nameCall'[q] = nameCall[q] /\ unassociated'[q] = unassociated[q]
      /\ ~nameCall'[p] /\ unassociated'[p] = 0
  <2>1. CASE ForOwner(p)
    BY <1>1, <1>2, <2>1 DEF PlacesInv, OnePlace, Tracking
  <2>2. CASE ~ForOwner(p)
    BY <1>1, <1>2, <2>2 DEF PlacesInv, OnePlace, StopsTracking
  <2> QED
    BY <2>1, <2>2
<1>5. PlacesInv'
  <2>1. \A q \in Proxies : q # p /\ Tracking(q) => Tracking(q)'
    BY <1>3 DEF Tracking, ForOwner
  <2>2. OnePlace'
    BY <1>1, <1>4, <2>1 DEF PlacesInv, OnePlace
  <2> QED
    BY <1>1, <1>3, <2>2 DEF PlacesInv, ForOwner
<1>6. \A n : Followers(n)' = Followers(n) \ {p} /\ Waiters(n)' \subseteq Waiters(n)
  BY <1>1, <1>3, <1>4 DEF Followers, Waiters
<1>7. ASSUME p \in Followers(m)
      PROVE  /\ m \in Names
             /\ \E s \in TrackedOwners(m) : ownerNames' = Unmonitored(ownerNames, s, m)
  BY <1>1, <1>7 DEF Followers, TrackingFor, PlacesInv, ForOwner, StopsTracking
<1>8. ASSUME p \notin Followers(m)
      PROVE  UNCHANGED ownerNames
  BY <1>1, <1>3, <1>8 DEF Followers, StopsTracking
<1>9. ASSUME p \in Followers(m)
      PROVE  \E s \in Uniques :
               LET c == Cardinality(Followers(m)) IN
               /\ \A t \in Owners : Sure(m, t) => t = s
               /\ ownerNames'[s][m] = IF c = 1 THEN <<>> ELSE <<c - 1>>
               /\ \A u \in Uniques : u # s => ownerNames'[u][m] = <<>>
               /\ \A u \in Uniques, n \in Names : n # m => ownerNames'[u][n] = ownerNames[u][n]
               /\ Waiters(m) = {}
  <2> DEFINE C == Cardinality(Followers(m))
  <2>1. Tracked(m) /\ TrackingFor(m) # {} /\ m \in Names /\ Followers(m) # {}
    BY <1>7, <1>9 DEF TrackedInv, Followers
  <2>2. PICK s \in Owners : Sure(m, s)
    BY <2>1 DEF Tracked
  <2>3. /\ s \in Uniques /\ TrackedOwners(m) = {s}
        /\ ownerNames[s][m] = <<C>>
        /\ \A u \in Uniques : u # s => ownerNames[u][m] = <<>>
        /\ Waiters(m) = {}
    BY <1>2, <2>1, <2>2, TrackedOwnersSure
  <2>4. \A t \in Owners : Sure(m, t) => t = s
    BY <1>2, <2>1, <2>3, TrackedOwnersSure
  <2>5. ownerNames' = Unmonitored(ownerNames, s, m)
    BY <1>7, <1>9, <2>3
  <2>6. C \in Nat /\ ownerNames \in Infos /\ m \in Names
    BY <1>2, <2>1, FollowersFinite
  <2> HIDE DEF m, C
  <2>7. ownerNames'[s][m] = IF C = 1 THEN <<>> ELSE <<C - 1>>
    BY <2>3, <2>5, <2>6, UnmonitoredEntry
  <2>8. \A u \in Uniques, n \in Names : u # s \/ n # m => ownerNames'[u][n] = ownerNames[u][n]
    <3> DEFINE new == Unmonitored(ownerNames, s, m)
    <3>1. s \in Uniques /\ ownerNames[s][m] = <<C>>
      BY <2>3
    <3>2. \A v \in Uniques, n \in Names : v # s \/ n # m => new[v][n] = ownerNames[v][n]
      BY <2>6, <3>1, UnmonitoredEntry
    <3> HIDE DEF new
    <3> QED
      BY <2>5, <3>2 DEF new
  <2> QED
    <3>1. /\ ownerNames'[s][m] = IF C = 1 THEN <<>> ELSE <<C - 1>>
          /\ \A u \in Uniques : u # s => ownerNames'[u][m] = <<>>
          /\ \A u \in Uniques, n \in Names : n # m => ownerNames'[u][n] = ownerNames[u][n]
      BY <2>3, <2>6, <2>7, <2>8
    <3> QED
      BY <2>3, <2>4, <3>1 DEF C, m
<1>10. \A n, kn, s : Ongoing(n, kn, s) => Ongoing(n, kn, s)'
  BY <1>1, <1>2, OngoingQueue
<1>11. ASSUME NEW n \in Names
       PROVE  connected' /\ ~InForce(n)' => ~Placed(n)
  BY <1>1 DEF TrackedInv, Tracked, InForce
<1>12. ASSUME NEW n \in Names, n # m \/ p \notin Followers(m)
       PROVE  Tracked(n)'
  <2>1. Followers(n)' = Followers(n) /\ Waiters(n)' \subseteq Waiters(n)
    BY <1>3, <1>6, <1>12 DEF Followers
  <2>2. \A u \in Uniques : ownerNames'[u][n] = ownerNames[u][n]
    BY <1>8, <1>9, <1>12
  <2>3. Tracked(n) /\ (TrackingFor(n)' # {} => TrackingFor(n) # {})
    BY <1>3 DEF TrackedInv
  <2> QED
    BY <1>10, <1>11, <2>1, <2>2, <2>3, TrackedKept
<1>13. ASSUME p \in Followers(m)
       PROVE  Tracked(m)'
  <2> DEFINE C == Cardinality(Followers(m))
  <2>1. Tracked(m) /\ TrackingFor(m) # {} /\ m \in Names /\ Placed(m)
    BY <1>7, <1>13 DEF TrackedInv, Followers, Placed
  <2>2. PICK kn \in BOOLEAN, s \in Owners : (kn <=> Placed(m)) /\ Ongoing(m, kn, s) /\ Sure(m, s)
    BY <2>1, TrackedFrom
  <2>3. /\ s \in Uniques
        /\ ownerNames'[s][m] = IF C = 1 THEN <<>> ELSE <<C - 1>>
        /\ \A u \in Uniques : u # s => ownerNames'[u][m] = <<>>
        /\ Waiters(m)' = {}
    BY <1>6, <1>9, <1>13, <2>2
  <2>4. C \in Nat /\ Cardinality(Followers(m)') = C - 1
    BY <1>6, <1>13, FollowersFinite, FS_RemoveElement
  <2>5. Cardinality(Followers(m)') = 0 <=> Followers(m)' = {}
    <3>1. IsFiniteSet(Followers(m)')
      BY <1>6, FollowersFinite, FS_Subset
    <3> QED
      BY <3>1, FS_EmptySet
  <2> HIDE DEF C
  <2>6. Followers(m)' = {} <=> C = 1
    BY <2>4, <2>5
  <2>7. (Followers(m) = {} => \A u \in Uniques : ownerNames[u][m] = <<>>)'
    BY <2>3, <2>6
  <2>8. Sure(m, s)'
    <3>1. Followers(m)' # {} => \A u \in Uniques :
            ownerNames'[u][m] = IF u = s THEN <<Cardinality(Followers(m)')>> ELSE <<>>
      BY <2>3, <2>4, <2>6
    <3> QED
      BY <2>3, <3>1 DEF Sure
  <2>9. (connected /\ ~InForce(m) => ~Placed(m))'
    BY <1>11, <2>1
  <2>10. Ongoing(m, kn, s)' /\ kn
    BY <1>10, <2>1, <2>2
  <2> QED
    BY <2>7, <2>8, <2>9, <2>10, TrackedTo
<1>14. TrackedInv'
  <2> SUFFICES ASSUME NEW n \in Names PROVE Tracked(n)'
    BY DEF TrackedInv
  <2> QED
    BY <1>12, <1>13
<1> QED
  BY <1>5, <1>14

\* Proxies that come to share the info of n are counted in it.
LEMMA InfoGrows ==
  ASSUME Inv, NEW n \in Names, NEW u \in Uniques, NEW k \in Nat, Tracked(n),
         Followers(n) = {} \/ Sure(n, u)
  PROVE  LET new == Monitored(ownerNames, u, n, k) IN
         /\ \A v \in Uniques, m \in Names : m # n => new[v][m] = ownerNames[v][m]
         /\ new[u][n] = <<Cardinality(Followers(n)) + k>>
         /\ \A v \in Uniques : v # u => new[v][n] = <<>>
<1> DEFINE C == Cardinality(Followers(n))
           new == Monitored(ownerNames, u, n, k)
<1>1. ownerNames \in Infos
  BY DEF Inv, TypeOK, Infos
<1>2. /\ \A v \in Uniques, m \in Names : v # u \/ m # n => new[v][m] = ownerNames[v][m]
      /\ ownerNames[u][n] = <<>> => new[u][n] = <<k>>
      /\ \A c \in Nat : ownerNames[u][n] = <<c>> => new[u][n] = <<c + k>>
  BY <1>1, MonitoredEntry
<1>3. C \in Nat /\ (Followers(n) = {} => C = 0)
  BY FollowersFinite
<1>4. CASE Followers(n) = {}
  <2>1. \A v \in Uniques : ownerNames[v][n] = <<>>
    BY <1>4 DEF Tracked
  <2>2. <<0 + k>> = <<k>>
    OBVIOUS
  <2> HIDE DEF new
  <2> QED
    BY <1>2, <1>3, <1>4, <2>1, <2>2 DEF new
<1>5. CASE Followers(n) # {} /\ Sure(n, u)
  <2>1. ownerNames[u][n] = <<C>> /\ \A v \in Uniques : v # u => ownerNames[v][n] = <<>>
    BY <1>5 DEF Sure
  <2> HIDE DEF new, C
  <2> QED
    BY <1>2, <1>3, <2>1 DEF new, C
<1> QED
  BY <1>4, <1>5

\* The reply to GetNameOwner: it is the first the proxy hears of the owner, and
\* the owner the tables are sure of, if they are sure.
LEMMA AnswerTracked ==
  ASSUME BooksInv, RequestsInv, PlacesInv, TrackedInv, GotNameOwner
  PROVE  PlacesInv' /\ TrackedInv'
<1>1. PICK p \in Proxies, u \in Owners, m \in Names :
        /\ p = toClient[1].call /\ u = toClient[1].owner /\ m = ProxyName[p]
        /\ toClient # <<>> /\ toClient \in Seq(Messages) /\ Head(toClient) = toClient[1]
        /\ 1 \in 1 .. Len(toClient) /\ Inv
        /\ Replies(toClient, 1) /\ Answers(toClient, m, 1) /\ \A n : ~Announces(toClient, n, 1)
        /\ nameCall[p] /\ Tracking(p)
  <2>1. toClient # <<>> /\ toClient \in Seq(Messages) /\ Inv
    BY QueueTypes DEF BooksInv, GotNameOwner, Dispatching
  <2>2. Head(toClient) = toClient[1] /\ 1 \in 1 .. Len(toClient)
    BY <2>1
  <2>3. toClient[1].type = "reply"
    BY <2>2 DEF GotNameOwner
  <2>4. toClient[1].call \in Proxies /\ toClient[1].owner \in Owners
    BY <2>1, <2>2, <2>3, MessageTypes
  <2>5. nameCall[toClient[1].call] /\ Tracking(toClient[1].call)
    BY <2>2, <2>3, <2>4 DEF BooksInv, CallsInv, OneCallIn, Replies
  <2>6. ProxyName[toClient[1].call] \in Names
    BY <2>5 DEF Tracking, ForOwner
  <2> QED
    BY <2>1, <2>2, <2>3, <2>4, <2>5, <2>6 DEF Replies, Answers, Announces
<1>2. /\ associated \in [Proxies -> BOOLEAN] /\ nameCall \in [Proxies -> BOOLEAN]
      /\ unassociated \in [Proxies -> Nat] /\ ownerNames \in Infos
  BY <1>1 DEF Inv, TypeOK, Infos
<1>3. /\ ~associated[p] /\ unassociated[p] = 0 /\ p \in TrackingFor(m)
      /\ \A n : p \in TrackingFor(n) => n = m
  BY <1>1 DEF PlacesInv, OnePlace, Tracking, TrackingFor
<1>4. /\ u = NoOwner => /\ unassociated' = [unassociated EXCEPT ![p] = @ + 1]
                        /\ UNCHANGED <<ownerNames, associated>>
      /\ u # NoOwner => /\ ownerNames' = Monitored(ownerNames, u, m, 1)
                        /\ associated' = [associated EXCEPT ![p] = TRUE]
                        /\ UNCHANGED unassociated
      /\ nameCall' = [nameCall EXCEPT ![p] = FALSE]
      /\ toClient' = Tail(toClient)
      /\ UNCHANGED <<owner, rules, connected, status>>
  BY <1>1 DEF GotNameOwner
<1>5. Listed' = Listed /\ \A n : TrackingFor(n)' = TrackingFor(n)
  BY <1>1, <1>4, TrackingShapes
<1>6. /\ \A q \in Proxies : q # p => /\ associated'[q] = associated[q]
                                     /\ unassociated'[q] = unassociated[q]
                                     /\ nameCall'[q] = nameCall[q]
      /\ ~nameCall'[p]
      /\ u = NoOwner => unassociated'[p] = 1 /\ ~associated'[p]
      /\ u # NoOwner => unassociated'[p] = 0 /\ associated'[p]
  <2>1. /\ \A q \in Proxies : q # p => nameCall'[q] = nameCall[q]
        /\ ~nameCall'[p]
    BY <1>1, <1>2, <1>4
  <2>2. CASE u = NoOwner
    <3>1. /\ \A q \in Proxies : q # p => unassociated'[q] = unassociated[q]
          /\ unassociated'[p] = 1
      BY <1>1, <1>2, <1>3, <1>4, <2>2
    <3> QED
      BY <1>3, <1>4, <2>1, <2>2, <3>1
  <2>3. CASE u # NoOwner
    <3>1. /\ \A q \in Proxies : q # p => associated'[q] = associated[q]
          /\ associated'[p]
      BY <1>1, <1>2, <1>4, <2>3
    <3> QED
      BY <1>3, <1>4, <2>1, <2>3, <3>1
  <2> QED
    BY <2>2, <2>3
<1>7. PlacesInv'
  <2>1. \A q \in Proxies : Tracking(q)' = Tracking(q)
    BY <1>5 DEF Tracking, ForOwner
  <2>2. OnePlace'
    BY <1>1, <1>2, <1>3, <1>6, <2>1 DEF PlacesInv, OnePlace
  <2>3. \A q \in Listed' : associated'[q] => ~ForOwner(q)
    BY <1>1, <1>5, <1>6 DEF PlacesInv, Listed, Tracking, ForOwner
  <2> QED
    BY <2>2, <2>3 DEF PlacesInv, ForOwner
<1>8. \A n : TrackingFor(n) \subseteq Proxies
  BY DEF TrackingFor, Listed
<1>9. /\ \A n : n # m => Followers(n)' = Followers(n) /\ Waiters(n)' = Waiters(n)
      /\ u = NoOwner => Followers(m)' = Followers(m) /\ Waiters(m)' = Waiters(m) \union {p}
      /\ u # NoOwner => Followers(m)' = Followers(m) \union {p} /\ Waiters(m)' = Waiters(m)
      /\ p \notin Followers(m)
  BY <1>3, <1>5, <1>6, <1>8 DEF Followers, Waiters
<1>10. PICK kn \in BOOLEAN, s \in Owners : (kn <=> Placed(m)) /\ Ongoing(m, kn, s) /\ Sure(m, s)
  BY <1>1, <1>3, TrackedFrom DEF TrackedInv
<1>11. Ongoing(m, TRUE, u)' /\ (kn => s = u)
  BY <1>1, <1>4, <1>10, OngoingTaken
<1>12. Tracked(m) /\ ~(connected /\ ~InForce(m))
  <2>1. Answered(m)
    BY <1>1 DEF Answered
  <2> QED
    BY <1>3, <2>1 DEF RequestsInv, ForcedInv, TrackedInv
<1>13. u # NoOwner =>
         /\ u \in Uniques /\ Waiters(m) = {}
         /\ Followers(m) = {} \/ Sure(m, u)
  BY <1>10, <1>11 DEF Owners, Placed, Sure
<1>14. u # NoOwner =>
         /\ \A v \in Uniques, n \in Names : n # m => ownerNames'[v][n] = ownerNames[v][n]
         /\ ownerNames'[u][m] = <<Cardinality(Followers(m)) + 1>>
         /\ \A v \in Uniques : v # u => ownerNames'[v][m] = <<>>
  <2> SUFFICES ASSUME u # NoOwner
               PROVE  /\ \A v \in Uniques, n \in Names : n # m => ownerNames'[v][n] = ownerNames[v][n]
                      /\ ownerNames'[u][m] = <<Cardinality(Followers(m)) + 1>>
                      /\ \A v \in Uniques : v # u => ownerNames'[v][m] = <<>>
    OBVIOUS
  <2>1. ownerNames' = Monitored(ownerNames, u, m, 1) /\ 1 \in Nat
    BY <1>4
  <2>2. m \in Names /\ u \in Uniques /\ Tracked(m) /\ (Followers(m) = {} \/ Sure(m, u)) /\ Inv
    BY <1>1, <1>3, <1>12, <1>13
  <2> DEFINE new == Monitored(ownerNames, u, m, 1)
  <2>3. /\ \A v \in Uniques, n \in Names : n # m => new[v][n] = ownerNames[v][n]
        /\ new[u][m] = <<Cardinality(Followers(m)) + 1>>
        /\ \A v \in Uniques : v # u => new[v][m] = <<>>
    BY <2>1, <2>2, InfoGrows
  <2> HIDE DEF new
  <2>4. ownerNames' = new
    BY <2>1 DEF new
  <2> QED
    BY <2>3, <2>4
<1>15. ASSUME NEW n \in Names, n # m
       PROVE  Tracked(n)'
  <2>1. Followers(n)' = Followers(n) /\ Waiters(n)' = Waiters(n) /\ TrackingFor(n)' = TrackingFor(n)
    BY <1>5, <1>9, <1>15
  <2>2. \A v \in Uniques : ownerNames'[v][n] = ownerNames[v][n]
    BY <1>4, <1>14, <1>15
  <2>3. Tracked(n)
    BY DEF TrackedInv
  <2>4. connected' /\ ~InForce(n)' => ~Placed(n)
    BY <1>4, <2>3 DEF Tracked, InForce
  <2>5. ASSUME NEW k2 \in BOOLEAN, NEW t \in Owners, Ongoing(n, k2, t)
        PROVE  Ongoing(n, k2, t)'
    BY <1>1, <1>4, <2>5, OngoingTaken
  <2> QED
    BY <2>1, <2>2, <2>3, <2>4, <2>5, TrackedKept
<1>16. CASE u = NoOwner
  <2>1. Followers(m) = {}
    BY <1>10, <1>11, <1>16, BusAssumption DEF Placed, Sure
  <2>2. Followers(m)' = {} /\ UNCHANGED ownerNames
    BY <1>4, <1>9, <1>16, <2>1
  <2>3. (Followers(m) = {} => \A v \in Uniques : ownerNames[v][m] = <<>>)'
    BY <1>12, <2>1, <2>2 DEF Tracked
  <2>4. Sure(m, u)'
    BY <1>16, <2>2 DEF Sure
  <2>5. (connected /\ ~InForce(m) => ~Placed(m))'
    BY <1>4, <1>12 DEF InForce
  <2>6. Tracked(m)'
    BY <1>1, <1>11, <2>3, <2>4, <2>5, TrackedTo
  <2> QED
    BY <1>7, <1>15, <2>6 DEF TrackedInv
<1>17. CASE u # NoOwner
  <2>1. Cardinality(Followers(m)') = Cardinality(Followers(m)) + 1
    BY <1>9, <1>17, FollowersFinite, FS_AddElement
  <2>2. Followers(m)' # {} /\ Waiters(m)' = {}
    BY <1>9, <1>13, <1>17
  <2>3. Sure(m, u)'
    BY <1>13, <1>14, <1>17, <2>1, <2>2 DEF Sure
  <2>4. (Followers(m) = {} => \A v \in Uniques : ownerNames[v][m] = <<>>)'
    BY <2>2
  <2>5. (connected /\ ~InForce(m) => ~Placed(m))'
    BY <1>4, <1>12 DEF InForce
  <2>6. Tracked(m)'
    BY <1>1, <1>11, <2>3, <2>4, <2>5, TrackedTo
  <2> QED
    BY <1>7, <1>15, <2>6 DEF TrackedInv
<1> QED
  BY <1>16, <1>17

\* A waiting proxy has one link, so the links are as many as the proxies.
LEMMA LinksWait ==
  ASSUME Inv, PlacesInv, NEW n
  PROVE  /\ LinksFor(n) = Waiters(n) \X {1}
         /\ {link[1] : link \in LinksFor(n)} = Waiters(n)
         /\ Cardinality(LinksFor(n)) = Cardinality(Waiters(n))
         /\ LinksFor(n) = {} <=> Waiters(n) = {}
         /\ n \notin Names => Waiters(n) = {}
<1> DEFINE W == Waiters(n)
<1>1. unassociated \in [Proxies -> Nat]
  BY DEF Inv, TypeOK
<1>2. \A p \in Proxies : unassociated[p] > 0 => p \in Listed /\ ~ForOwner(p) /\ unassociated[p] = 1
  BY DEF PlacesInv, OnePlace, Tracking
<1>3. \A p : p \in W <=> p \in Proxies /\ ProxyName[p] = n /\ unassociated[p] > 0
  BY <1>2 DEF Waiters, TrackingFor, Listed
<1>4. \A p \in Proxies : ProxyName[p] = n =>
        {p} \X (1 .. unassociated[p]) = IF p \in W THEN {<<p, 1>>} ELSE {}
  <2> SUFFICES ASSUME NEW p \in Proxies, ProxyName[p] = n
               PROVE  {p} \X (1 .. unassociated[p]) = IF p \in W THEN {<<p, 1>>} ELSE {}
    OBVIOUS
  <2>1. CASE p \in W
    <3>1. 1 .. unassociated[p] = {1}
      BY <1>2, <1>3, <2>1
    <3> QED
      BY <2>1, <3>1
  <2>2. CASE p \notin W
    <3>1. 1 .. unassociated[p] = {}
      BY <1>1, <1>3, <2>2
    <3> QED
      BY <2>2, <3>1
  <2> QED
    BY <2>1, <2>2
<1> HIDE DEF W
<1>5. LinksFor(n) = W \X {1}
  <2>1. ASSUME NEW x \in LinksFor(n)
        PROVE  x \in W \X {1}
    <3>1. PICK p \in Proxies : ProxyName[p] = n /\ x \in {p} \X (1 .. unassociated[p])
      BY <2>1 DEF LinksFor
    <3> QED
      BY <1>4, <3>1
  <2>2. ASSUME NEW p \in W
        PROVE  <<p, 1>> \in LinksFor(n)
    <3>1. p \in Proxies /\ ProxyName[p] = n /\ <<p, 1>> \in {p} \X (1 .. unassociated[p])
      BY <1>3, <1>4, <2>2
    <3> QED
      BY <3>1 DEF LinksFor
  <2> QED
    BY <2>1, <2>2
<1>6. {link[1] : link \in LinksFor(n)} = W
  <2>1. \A p \in W : <<p, 1>> \in LinksFor(n) /\ <<p, 1>>[1] = p
    BY <1>5
  <2>2. \A link \in LinksFor(n) : link[1] \in W
    BY <1>5
  <2> QED
    BY <2>1, <2>2
<1>7. Cardinality(LinksFor(n)) = Cardinality(W)
  <2> DEFINE L == LinksFor(n)
             f == [p \in W |-> <<p, 1>>]
  <2>1. f \in Bijection(W, L)
    <3>1. \A p \in W : <<p, 1>> \in L /\ <<p, 1>>[1] = p
      BY <1>5
    <3>2. f \in [W -> L] /\ \A p, q \in W : f[p] = f[q] => p = q
      BY <3>1
    <3>3. \A x \in L : \E p \in W : f[p] = x
      BY <1>5
    <3> HIDE DEF f, L
    <3> QED
      BY <3>2, <3>3 DEF Bijection, Injection, Surjection, IsInjective
  <2>2. IsFiniteSet(W)
    BY <1>3, BusAssumption, FS_Subset
  <2> HIDE DEF f, L
  <2>3. Cardinality(L) = Cardinality(W)
    BY <2>1, <2>2, FS_Bijection DEF ExistsBijection
  <2> QED
    BY <2>3 DEF L
<1>8. n \notin Names => W = {}
  BY <1>2, <1>3 DEF ForOwner
<1> QED
  BY <1>5, <1>6, <1>7, <1>8 DEF W

\* A name gets an owner: every proxy that waited for one follows it now.
LEMMA AppearsTracked ==
  ASSUME BooksInv, RequestsInv, PlacesInv, TrackedInv, NameAppears
  PROVE  PlacesInv' /\ TrackedInv'
<1>1. PICK m \in BusNames, u \in Uniques :
        /\ m = toClient[1].name /\ u = toClient[1].new /\ toClient[1].old = NoOwner
        /\ toClient # <<>> /\ toClient \in Seq(Messages) /\ Head(toClient) = toClient[1]
        /\ 1 \in 1 .. Len(toClient) /\ Inv
        /\ \A n : Announces(toClient, n, 1) <=> n = m
        /\ u \in Owners
  <2>1. toClient # <<>> /\ toClient \in Seq(Messages) /\ Inv
    BY QueueTypes DEF BooksInv, NameAppears, Dispatching
  <2>2. Head(toClient) = toClient[1] /\ 1 \in 1 .. Len(toClient)
    BY <2>1
  <2>3. toClient[1].type = "NameOwnerChanged" /\ toClient[1].old = NoOwner
    BY <2>2 DEF NameAppears
  <2>4. toClient[1].name \in BusNames /\ toClient[1].new \in Owners /\ toClient[1].new # NoOwner
    BY <2>1, <2>2, <2>3, MessageTypes
  <2> QED
    BY <2>1, <2>2, <2>3, <2>4 DEF Announces, Owners
<1> DEFINE W == Waiters(m)
           k == Cardinality(W)
<1>2. /\ associated \in [Proxies -> BOOLEAN] /\ nameCall \in [Proxies -> BOOLEAN]
      /\ unassociated \in [Proxies -> Nat] /\ ownerNames \in Infos
  BY <1>1 DEF Inv, TypeOK, Infos
<1>3. /\ {link[1] : link \in LinksFor(m)} = W
      /\ Cardinality(LinksFor(m)) = k
      /\ LinksFor(m) = {} <=> W = {}
      /\ m \notin Names => W = {}
      /\ IsFiniteSet(W) /\ k \in Nat /\ k = Cardinality(W)
  <2>1. W \subseteq Proxies
    BY DEF Waiters, TrackingFor, Listed
  <2> QED
    BY <1>1, <2>1, LinksWait, BusAssumption, FS_Subset, FS_CardinalityType
<1>4. /\ ownerNames' = IF W = {} THEN ownerNames ELSE Monitored(ownerNames, u, m, k)
      /\ associated' = [p \in Proxies |-> associated[p] \/ p \in W]
      /\ unassociated' = [p \in Proxies |-> IF p \in W THEN 0 ELSE unassociated[p]]
      /\ toClient' = Tail(toClient)
      /\ UNCHANGED <<owner, rules, connected, status, nameCall>>
  BY <1>1, <1>3 DEF NameAppears
<1>5. Listed' = Listed /\ \A n : TrackingFor(n)' = TrackingFor(n)
  BY <1>1, <1>4, TrackingShapes
<1>6. \A p \in Proxies : /\ p \in W => associated'[p] /\ unassociated'[p] = 0
                         /\ p \notin W => /\ associated'[p] = associated[p]
                                          /\ unassociated'[p] = unassociated[p]
  BY <1>2, <1>4
<1>7. \A p \in W : /\ p \in Proxies /\ p \in Listed /\ ~ForOwner(p) /\ ~nameCall[p] /\ Tracking(p)
                   /\ ProxyName[p] = m /\ unassociated[p] > 0 /\ ~associated[p]
  BY DEF Waiters, TrackingFor, Listed, PlacesInv, OnePlace, Tracking
<1> HIDE DEF W, k
<1>8. PlacesInv'
  <2>1. \A q \in Proxies : Tracking(q)' = Tracking(q)
    BY <1>5 DEF Tracking, ForOwner
  <2>2. OnePlace'
    BY <1>2, <1>4, <1>6, <1>7, <2>1 DEF PlacesInv, OnePlace
  <2>3. \A q \in Listed' : associated'[q] => ~ForOwner(q)
    BY <1>5, <1>6, <1>7 DEF PlacesInv, Listed
  <2> QED
    BY <2>2, <2>3 DEF PlacesInv, ForOwner
<1>9. ASSUME NEW n, n # m \/ W = {}
      PROVE  Followers(n)' = Followers(n) /\ Waiters(n)' = Waiters(n)
  <2>1. \A p \in TrackingFor(n) : p \in Proxies /\ p \notin W
    BY <1>7, <1>9 DEF TrackingFor, Listed
  <2> QED
    BY <1>5, <1>6, <2>1 DEF Followers, Waiters
<1>10. Followers(m)' = Followers(m) \union W /\ Waiters(m)' = {}
  <2>1. \A p : p \in W <=> p \in TrackingFor(m) /\ unassociated[p] > 0
    BY DEF Waiters, W
  <2>2. TrackingFor(m) \subseteq Proxies
    BY DEF TrackingFor, Listed
  <2>3. Followers(m)' = Followers(m) \union W
    BY <1>5, <1>6, <2>1, <2>2 DEF Followers
  <2>4. Waiters(m)' = {}
    BY <1>2, <1>5, <1>6, <2>1, <2>2 DEF Waiters
  <2> QED
    BY <2>3, <2>4
<1>11. ASSUME m \in Names, TrackingFor(m) # {}
       PROVE  Followers(m) = {} /\ Ongoing(m, TRUE, u)' /\ ~(connected /\ ~InForce(m))
  <2>1. PICK kn \in BOOLEAN, s \in Owners : (kn <=> Placed(m)) /\ Ongoing(m, kn, s) /\ Sure(m, s)
    BY <1>11, TrackedFrom DEF TrackedInv
  <2>2. Ongoing(m, TRUE, u)' /\ (kn => s = NoOwner)
    BY <1>1, <1>4, <2>1, OngoingTaken
  <2>3. Followers(m) = {}
    BY <2>1, <2>2, BusAssumption DEF Placed, Sure
  <2>4. Heard(m)
    BY <1>1 DEF Heard
  <2> QED
    BY <1>11, <2>2, <2>3, <2>4 DEF RequestsInv, ForcedInv
<1>12. W # {} => m \in Names /\ TrackingFor(m) # {}
  BY <1>3 DEF W, Waiters
<1>13. W # {} =>
         /\ \A v \in Uniques, n \in Names : n # m => ownerNames'[v][n] = ownerNames[v][n]
         /\ ownerNames'[u][m] = <<k>>
         /\ \A v \in Uniques : v # u => ownerNames'[v][m] = <<>>
  <2> SUFFICES ASSUME W # {}
               PROVE  /\ \A v \in Uniques, n \in Names : n # m => ownerNames'[v][n] = ownerNames[v][n]
                      /\ ownerNames'[u][m] = <<k>>
                      /\ \A v \in Uniques : v # u => ownerNames'[v][m] = <<>>
    OBVIOUS
  <2>1. ownerNames' = Monitored(ownerNames, u, m, k) /\ k \in Nat
    BY <1>3, <1>4
  <2>2. m \in Names /\ u \in Uniques /\ Tracked(m) /\ Followers(m) = {} /\ Inv
    BY <1>1, <1>11, <1>12 DEF TrackedInv
  <2>3. Cardinality(Followers(m)) = 0
    BY <2>2, FollowersFinite
  <2> DEFINE new == Monitored(ownerNames, u, m, k)
  <2>4. /\ \A v \in Uniques, n \in Names : n # m => new[v][n] = ownerNames[v][n]
        /\ new[u][m] = <<Cardinality(Followers(m)) + k>>
        /\ \A v \in Uniques : v # u => new[v][m] = <<>>
    BY <2>1, <2>2, InfoGrows
  <2> HIDE DEF new
  <2>5. ownerNames' = new
    BY <2>1 DEF new
  <2>6. <<Cardinality(Followers(m)) + k>> = <<k>>
    BY <2>1, <2>3
  <2> QED
    BY <2>4, <2>5, <2>6
<1>14. ASSUME NEW n \in Names, n # m
       PROVE  Tracked(n)'
  <2>1. Followers(n)' = Followers(n) /\ Waiters(n)' = Waiters(n) /\ TrackingFor(n)' = TrackingFor(n)
    BY <1>5, <1>9, <1>14
  <2>2. \A v \in Uniques : ownerNames'[v][n] = ownerNames[v][n]
    BY <1>4, <1>13, <1>14
  <2>3. Tracked(n)
    BY DEF TrackedInv
  <2>4. connected' /\ ~InForce(n)' => ~Placed(n)
    BY <1>4, <2>3 DEF Tracked, InForce
  <2>5. ASSUME NEW k2 \in BOOLEAN, NEW t \in Owners, Ongoing(n, k2, t)
        PROVE  Ongoing(n, k2, t)'
    BY <1>1, <1>4, <1>14, <2>5, OngoingTaken
  <2> QED
    BY <2>1, <2>2, <2>3, <2>4, <2>5, TrackedKept
<1>15. ASSUME m \in Names, TrackingFor(m) = {}
       PROVE  Tracked(m)'
  <2>1. W = {}
    BY <1>12, <1>15
  <2>2. Followers(m)' = {} /\ Waiters(m)' = {} /\ TrackingFor(m)' = {} /\ Followers(m) = {}
    BY <1>5, <1>10, <1>15, <2>1 DEF Followers
  <2>3. UNCHANGED ownerNames
    BY <1>4, <2>1
  <2> QED
    BY <1>15, <2>2, <2>3 DEF Tracked, TrackedInv, Placed
<1>16. ASSUME m \in Names, TrackingFor(m) # {}
       PROVE  Tracked(m)'
  <2>1. Followers(m) = {} /\ Ongoing(m, TRUE, u)' /\ ~(connected /\ ~InForce(m))
    BY <1>11, <1>16
  <2>2. Followers(m)' = W /\ Waiters(m)' = {}
    BY <1>10, <2>1
  <2>3. (connected /\ ~InForce(m) => ~Placed(m))'
    BY <1>4, <2>1 DEF InForce
  <2>4. W = {} => UNCHANGED ownerNames
    BY <1>4
  <2>5. (Followers(m) = {} => \A v \in Uniques : ownerNames[v][m] = <<>>)'
    BY <1>16, <2>1, <2>2, <2>4 DEF Tracked, TrackedInv
  <2>6. Sure(m, u)'
    <3>1. Cardinality(Followers(m)') = k
      BY <2>2 DEF k
    <3> HIDE DEF k
    <3> QED
      BY <1>1, <1>13, <2>2, <3>1 DEF Sure
  <2> QED
    BY <1>1, <2>1, <2>3, <2>5, <2>6, TrackedTo
<1>17. TrackedInv'
  <2> SUFFICES ASSUME NEW n \in Names PROVE Tracked(n)'
    BY DEF TrackedInv
  <2> QED
    BY <1>14, <1>15, <1>16
<1> QED
  BY <1>8, <1>17

\* A name changes hands or loses its owner, and everything moves along.
LEMMA MovesTracked ==
  ASSUME BooksInv, RequestsInv, PlacesInv, TrackedInv, NameMovesOrGoes
  PROVE  PlacesInv' /\ TrackedInv'
<1>1. PICK m \in BusNames, old \in Uniques, new \in Owners :
        /\ m = toClient[1].name /\ old = toClient[1].old /\ new = toClient[1].new
        /\ toClient # <<>> /\ toClient \in Seq(Messages) /\ Head(toClient) = toClient[1]
        /\ 1 \in 1 .. Len(toClient) /\ Inv
        /\ \A n : Announces(toClient, n, 1) <=> n = m
        /\ old # new /\ old # NoOwner
  <2>1. toClient # <<>> /\ toClient \in Seq(Messages) /\ Inv
    BY QueueTypes DEF BooksInv, NameMovesOrGoes, Dispatching
  <2>2. Head(toClient) = toClient[1] /\ 1 \in 1 .. Len(toClient)
    BY <2>1
  <2>3. toClient[1].type = "NameOwnerChanged" /\ toClient[1].old # NoOwner
    BY <2>2 DEF NameMovesOrGoes
  <2>4. /\ toClient[1].name \in BusNames /\ toClient[1].old \in Owners
        /\ toClient[1].new \in Owners /\ toClient[1].old # toClient[1].new
    BY <2>1, <2>2, <2>3, MessageTypes
  <2> QED
    BY <2>1, <2>2, <2>3, <2>4 DEF Announces, Owners
<1> DEFINE gone == IF new = NoOwner THEN BoundTo(m) ELSE {}
           left == {p \in gone : ~ForOwner(p)}
<1>2. /\ associated \in [Proxies -> BOOLEAN] /\ nameCall \in [Proxies -> BOOLEAN]
      /\ unassociated \in [Proxies -> Nat] /\ ownerNames \in Infos
  BY <1>1 DEF Inv, TypeOK, Infos
<1>3. /\ ownerNames' = IF m \in Names THEN Replaced(ownerNames, m, old, new) ELSE ownerNames
      /\ nameCall' = [p \in Proxies |-> nameCall[p] /\ p \notin Calling(left)]
      /\ associated' = [p \in Proxies |-> associated[p] /\ p \notin left]
      /\ unassociated' = [p \in Proxies |-> unassociated[p] + (IF p \in left THEN 1 ELSE 0)]
      /\ \E calls : toClient' = Forget(Tail(toClient), calls)
      /\ UNCHANGED <<owner, rules, connected, status>>
  BY <1>1 DEF NameMovesOrGoes
<1>4. left = IF new = NoOwner /\ m \in Names THEN TrackingFor(m) ELSE {}
  BY DEF BoundTo, TrackingFor, ForOwner
<1> HIDE DEF left
<1>5. Listed' = Listed /\ \A n : TrackingFor(n)' = TrackingFor(n)
  BY <1>1, <1>3, TrackingShapes
<1>6. \A p \in Proxies : /\ p \in left => /\ ~associated'[p] /\ ~nameCall'[p]
                                          /\ unassociated'[p] = unassociated[p] + 1
                         /\ p \notin left => /\ associated'[p] = associated[p]
                                             /\ unassociated'[p] = unassociated[p]
                         /\ nameCall'[p] => nameCall[p]
  <2> SUFFICES ASSUME NEW p \in Proxies
               PROVE  /\ p \in left => /\ ~associated'[p] /\ ~nameCall'[p]
                                       /\ unassociated'[p] = unassociated[p] + 1
                      /\ p \notin left => /\ associated'[p] = associated[p]
                                          /\ unassociated'[p] = unassociated[p]
                      /\ nameCall'[p] => nameCall[p]
    OBVIOUS
  <2>1. associated'[p] <=> associated[p] /\ p \notin left
    BY <1>3
  <2>2. nameCall'[p] <=> nameCall[p] /\ p \notin Calling(left)
    BY <1>3
  <2>3. unassociated'[p] = unassociated[p] + (IF p \in left THEN 1 ELSE 0)
    BY <1>3
  <2>4. associated[p] \in BOOLEAN /\ associated'[p] \in BOOLEAN /\ unassociated[p] \in Nat
    BY <1>2, <1>3
  <2>5. p \in Calling(left) <=> p \in left /\ nameCall[p]
    BY DEF Calling
  <2> QED
    BY <2>1, <2>2, <2>3, <2>4, <2>5
<1>7. \A p \in left : p \in Proxies /\ p \in Listed /\ Tracking(p) /\ ProxyName[p] = m
  BY <1>4 DEF TrackingFor, Listed, Tracking, ForOwner
<1>8. \A n : TrackingFor(n) \subseteq Proxies
  BY DEF TrackingFor, Listed
<1>9. ASSUME m \in Names, TrackingFor(m) # {}
      PROVE  /\ Waiters(m) = {} /\ Ongoing(m, TRUE, new)' /\ ~(connected /\ ~InForce(m))
             /\ Followers(m) = {} \/ Sure(m, old)
  <2>1. PICK kn \in BOOLEAN, s \in Owners : (kn <=> Placed(m)) /\ Ongoing(m, kn, s) /\ Sure(m, s)
    BY <1>9, TrackedFrom DEF TrackedInv
  <2>2. Ongoing(m, TRUE, new)' /\ (kn => s = old)
    BY <1>1, <1>3, <2>1, OngoingTaken
  <2>3. Waiters(m) = {}
    BY <1>1, <2>1, <2>2 DEF Placed, Sure
  <2>4. Followers(m) = {} \/ Sure(m, old)
    BY <2>1, <2>2 DEF Placed
  <2>5. Heard(m)
    BY <1>1 DEF Heard
  <2> QED
    BY <1>9, <2>2, <2>3, <2>4, <2>5 DEF RequestsInv, ForcedInv
<1>10. \A p \in left : unassociated[p] = 0
  <2>1. left # {} => m \in Names /\ TrackingFor(m) # {} /\ left = TrackingFor(m)
    BY <1>4
  <2>2. left # {} => Waiters(m) = {}
    BY <1>9, <2>1
  <2>3. \A p \in left : ~(unassociated[p] > 0)
    BY <2>1, <2>2 DEF Waiters
  <2> QED
    BY <1>2, <1>7, <2>3
<1>11. PlacesInv'
  <2>1. \A q \in Proxies : Tracking(q)' = Tracking(q)
    BY <1>5 DEF Tracking, ForOwner
  <2>2. OnePlace'
    BY <1>2, <1>6, <1>7, <1>10, <2>1 DEF PlacesInv, OnePlace
  <2>3. \A q \in Listed' : associated'[q] => ~ForOwner(q)
    BY <1>5, <1>6 DEF PlacesInv, Listed
  <2> QED
    BY <2>2, <2>3 DEF PlacesInv, ForOwner
<1>12. ASSUME NEW n, n # m \/ left = {}
       PROVE  Followers(n)' = Followers(n) /\ Waiters(n)' = Waiters(n)
  <2>1. \A p \in TrackingFor(n) : p \in Proxies /\ p \notin left
    BY <1>7, <1>8, <1>12 DEF TrackingFor
  <2> QED
    BY <1>5, <1>6, <2>1 DEF Followers, Waiters
<1>13. m \in Names /\ new = NoOwner => Followers(m)' = {} /\ Waiters(m)' = TrackingFor(m)
  <2> SUFFICES ASSUME m \in Names, new = NoOwner
               PROVE  Followers(m)' = {} /\ Waiters(m)' = TrackingFor(m)
    OBVIOUS
  <2>1. left = TrackingFor(m)
    BY <1>4
  <2>2. \A p \in left : ~associated'[p] /\ unassociated'[p] > 0
    BY <1>6, <1>7, <1>10
  <2> QED
    BY <1>5, <2>1, <2>2 DEF Followers, Waiters
<1>14. /\ \A v \in Uniques, n \in Names : n # m => ownerNames'[v][n] = ownerNames[v][n]
       /\ m \in Names => \A v \in Uniques :
            ownerNames'[v][m] = IF Followers(m) # {} /\ v = new THEN <<Cardinality(Followers(m))>>
                                ELSE <<>>
  <2>1. CASE m \notin Names
    BY <1>3, <2>1
  <2>2. CASE m \in Names
    <3> DEFINE C == Cardinality(Followers(m))
               moved == Replaced(ownerNames, m, old, new)
    <3>1. Followers(m) = {} => \A v \in Uniques : ownerNames[v][m] = <<>>
      BY <2>2 DEF TrackedInv, Tracked
    <3>2. Followers(m) # {} => \A v \in Uniques : ownerNames[v][m] = IF v = old THEN <<C>> ELSE <<>>
      <4>1. Followers(m) # {} => Sure(m, old)
        BY <1>9, <2>2 DEF Followers
      <4> QED
        BY <4>1 DEF Sure
    <3>3. C \in Nat /\ ownerNames \in Infos /\ m \in Names /\ old \in Uniques /\ new \in Owners
          /\ new # old /\ ownerNames' = moved
      BY <1>1, <1>2, <1>3, <2>2, FollowersFinite
    <3> HIDE DEF C
    <3>4. /\ \A v \in Uniques, n \in Names : n # m => moved[v][n] = ownerNames[v][n]
          /\ ownerNames[old][m] = <<>> => moved = ownerNames
          /\ ownerNames[old][m] = <<C>> =>
               /\ moved[old][m] = <<>>
               /\ \A v \in Uniques : v # old /\ v # new => moved[v][m] = ownerNames[v][m]
               /\ new \in Uniques /\ ownerNames[new][m] = <<>> => moved[new][m] = <<C>>
      BY <3>3, ReplacedEntry
    <3> HIDE DEF moved
    <3>5. ASSUME NEW v \in Uniques
          PROVE  ownerNames'[v][m] = IF Followers(m) # {} /\ v = new THEN <<C>> ELSE <<>>
      <4>1. CASE Followers(m) = {}
        BY <3>1, <3>3, <3>4, <4>1
      <4>2. CASE Followers(m) # {}
        <5>1. ownerNames[old][m] = <<C>> /\ \A w \in Uniques : w # old => ownerNames[w][m] = <<>>
          BY <3>2, <3>3, <4>2
        <5> QED
          BY <3>3, <3>4, <4>2, <5>1
      <4> QED
        BY <4>1, <4>2
    <3> QED
      BY <3>3, <3>4, <3>5 DEF C
  <2> QED
    BY <2>1, <2>2
<1>15. ASSUME NEW n \in Names, n # m
       PROVE  Tracked(n)'
  <2>1. Followers(n)' = Followers(n) /\ Waiters(n)' = Waiters(n) /\ TrackingFor(n)' = TrackingFor(n)
    BY <1>5, <1>12, <1>15
  <2>2. \A v \in Uniques : ownerNames'[v][n] = ownerNames[v][n]
    BY <1>14, <1>15
  <2>3. Tracked(n)
    BY DEF TrackedInv
  <2>4. connected' /\ ~InForce(n)' => ~Placed(n)
    BY <1>3, <2>3 DEF Tracked, InForce
  <2>5. ASSUME NEW k2 \in BOOLEAN, NEW t \in Owners, Ongoing(n, k2, t)
        PROVE  Ongoing(n, k2, t)'
    BY <1>1, <1>3, <1>15, <2>5, OngoingTaken
  <2> QED
    BY <2>1, <2>2, <2>3, <2>4, <2>5, TrackedKept
<1>16. ASSUME m \in Names, TrackingFor(m) = {}
       PROVE  Tracked(m)'
  <2>1. Followers(m) = {} /\ TrackingFor(m)' = {} /\ ~Placed(m)'
    BY <1>5, <1>16 DEF Followers, Waiters, Placed
  <2> QED
    BY <1>14, <1>16, <2>1 DEF Tracked
<1>17. ASSUME m \in Names, TrackingFor(m) # {}
       PROVE  Tracked(m)'
  <2>1. /\ Waiters(m) = {} /\ Ongoing(m, TRUE, new)'
        /\ (connected /\ ~InForce(m) => ~Placed(m))'
    BY <1>3, <1>9, <1>17 DEF InForce
  <2>2. CASE new = NoOwner
    <3>1. Followers(m)' = {}
      BY <1>13, <1>17, <2>2
    <3>2. \A v \in Uniques : ownerNames'[v][m] = <<>>
      BY <1>14, <1>17, <2>2, BusAssumption
    <3>3. Sure(m, new)'
      BY <2>2, <3>1 DEF Sure
    <3> QED
      BY <1>1, <2>1, <3>2, <3>3, TrackedTo
  <2>3. CASE new # NoOwner
    <3>1. Followers(m)' = Followers(m) /\ Waiters(m)' = {} /\ new \in Uniques
      BY <1>1, <1>4, <1>12, <2>1, <2>3 DEF Owners
    <3>2. (Followers(m) = {} => \A v \in Uniques : ownerNames[v][m] = <<>>)'
      BY <1>14, <1>17, <3>1
    <3>3. Sure(m, new)'
      BY <1>14, <1>17, <3>1 DEF Sure
    <3> QED
      BY <1>1, <2>1, <3>2, <3>3, TrackedTo
  <2> QED
    BY <2>2, <2>3
<1>18. TrackedInv'
  <2> SUFFICES ASSUME NEW n \in Names PROVE Tracked(n)'
    BY DEF TrackedInv
  <2> QED
    BY <1>15, <1>16, <1>17
<1> QED
  BY <1>11, <1>18

\* Every step keeps the tables in agreement with the history.
LEMMA StepTracked ==
  ASSUME ~Reuse, BooksInv, RequestsInv, PlacesInv, TrackedInv, Shapes
  PROVE  PlacesInv' /\ TrackedInv'
<1>1. UNCHANGED proxyVars /\ UNCHANGED tables /\ (BusHandlesRequest \/ BusEvent)
        => PlacesInv' /\ TrackedInv'
  BY RestTracked
<1>2. CASE Skips \/ Rests \/ \E p \in Proxies : NameCallFails(p) \/ ResolveOwner(p)
  <2>1. UNCHANGED tables
    BY <1>2 DEF Skips, Rests, NameCallFails, ResolveOwner, managerVars, tables
  <2> QED
    BY <1>2, <2>1, RestTracked
<1> QED
  BY <1>1, <1>2, RegistersTracked, LeavesTracked, AnswerTracked, AppearsTracked, MovesTracked
  DEF Shapes

--------------------------------------------------------------------------------
(* The invariant, and what follows from it *)

TrackingBooks == BooksInv /\ RequestsInv /\ PlacesInv /\ TrackedInv

LEMMA InitTracking ==
  ASSUME Init
  PROVE  TrackingBooks
<1>1. BooksInv
  BY InitBooks
<1>2. /\ Listed = {} /\ \A n : TrackingFor(n) = {}
      /\ toBus = <<>> /\ toClient = <<>> /\ Len(toBus) = 0 /\ Len(toClient) = 0
      /\ \A n \in Names : ~InForce(n)
  <2>1. status = [p \in Proxies |-> "unborn"] /\ toBus = <<>> /\ toClient = <<>>
        /\ rules = [r \in Rules |-> 0]
    BY DEF Init, BusInit
  <2>2. Listed = {}
    BY <2>1 DEF Listed
  <2>3. \A n \in Names : OwnerRule(n) \in Rules
    BY DEF Rules, OwnerRule, BusNames
  <2> QED
    BY <2>1, <2>2, <2>3 DEF TrackingFor, InForce
<1>3. RequestsInv
  <2>1. MovingInv
    BY DEF Init, MovingInv
  <2>2. FreshInv
    BY <1>2 DEF FreshInv, Heard
  <2>3. ForcedInv
    BY <1>2 DEF ForcedInv, Forcing
  <2> QED
    BY <2>1, <2>2, <2>3 DEF RequestsInv
<1>4. PlacesInv
  BY <1>2 DEF Init, PlacesInv, OnePlace
<1>5. TrackedInv
  <2> SUFFICES ASSUME NEW n \in Names PROVE Tracked(n)
    BY DEF TrackedInv
  <2>1. \A u \in Uniques : ownerNames[u][n] = <<>>
    BY DEF Init
  <2>2. ~Placed(n)
    BY <1>2 DEF Placed, Followers, Waiters
  <2> QED
    BY <1>2, <2>1, <2>2 DEF Tracked
<1> QED
  BY <1>1, <1>3, <1>4, <1>5 DEF TrackingBooks

LEMMA StepTracking ==
  ASSUME ~Reuse, TrackingBooks, [Next]_vars
  PROVE  TrackingBooks'
<1>1. BooksInv /\ Inv /\ Shapes /\ RequestsInv
  BY StepShape DEF TrackingBooks, BooksInv
<1>2. BooksInv'
  BY <1>1, StepInv, StepCalls, StepRefs, StepOrphans DEF BooksInv
<1>3. RequestsInv'
  BY <1>1, StepMoving, StepFresh, StepForced DEF RequestsInv
<1> QED
  BY <1>1, <1>2, <1>3, StepTracked DEF TrackingBooks

\* The tables agree with the history in every reachable state, for a program
\* that does not watch a name again after its last proxy left.
THEOREM TrackingInvariance ==
  ASSUME ~Reuse
  PROVE  Spec => []TrackingBooks
<1>1. Init => TrackingBooks
  BY InitTracking
<1>2. TrackingBooks /\ [Next]_vars => TrackingBooks'
  BY StepTracking
<1> QED
  BY <1>1, <1>2, PTL DEF Spec

\* The owner that the queue starts from is the one the client has read so far.
LEMMA ViewKnown ==
  ASSUME Inv, connected, NEW n, NEW s, Ongoing(n, TRUE, s)
  PROVE  View(n) = s
<1> DEFINE later == {k \in DOMAIN toClient : toClient[k].type = "NameOwnerChanged"
                                               /\ toClient[k].name = n}
<1>1. toClient \in Seq(Messages) /\ DOMAIN toClient = 1 .. Len(toClient)
      /\ \A k \in 1 .. Len(toClient) : k \in later <=> Announces(toClient, n, k)
  BY QueueTypes DEF Announces
<1>2. Follows(toClient, n, TRUE, s, owner[n])
  BY DEF Ongoing
<1>3. View(n) = IF later = {} THEN owner[n] ELSE toClient[Min(later)].old
  BY DEF View
<1>4. later \subseteq 1 .. Len(toClient)
  BY <1>1
<1> HIDE DEF later
<1>5. CASE later = {}
  <2>1. s = owner[n]
    BY <1>1, <1>2, <1>5, FollowsView
  <2> QED
    BY <1>3, <1>5, <2>1
<1>6. CASE later # {}
  <2>1. later \subseteq Nat
    BY <1>4
  <2>2. \E x \in later : \A y \in later : x <= y
    BY <1>6, <2>1, LeastNatural
  <2>3. Min(later) \in later /\ \A y \in later : Min(later) <= y
    BY <2>2 DEF Min
  <2>4. s = toClient[Min(later)].old
    BY <1>1, <1>2, <1>4, <2>3, FollowsView
  <2> QED
    BY <1>3, <1>6, <2>4
<1> QED
  BY <1>5, <1>6

\* What the tables say of a proxy that follows an owner, or waits for one.
LEMMA ProxyPlaced ==
  ASSUME TrackingBooks, NEW p \in Proxies, p \in Listed, associated[p] \/ unassociated[p] > 0
  PROVE  LET n == ProxyName[p] IN
         /\ n \in Names
         /\ associated[p] => p \in Followers(n)
         /\ \E s \in Owners :
              /\ Ongoing(n, TRUE, s)
              /\ associated[p] => s \in Uniques /\ TrackedOwners(n) = {s}
              /\ unassociated[p] > 0 => s = NoOwner
<1> DEFINE n == ProxyName[p]
<1>1. Inv /\ TrackedInv /\ PlacesInv
  BY DEF TrackingBooks, BooksInv
<1>2. n \in Names /\ p \in TrackingFor(n)
  BY <1>1 DEF PlacesInv, OnePlace, Tracking, ForOwner, TrackingFor
<1>3. /\ associated[p] => p \in Followers(n)
      /\ unassociated[p] > 0 => p \in Waiters(n)
      /\ Placed(n)
  BY <1>2 DEF Followers, Waiters, Placed
<1>4. PICK kn \in BOOLEAN, s \in Owners : (kn <=> Placed(n)) /\ Ongoing(n, kn, s) /\ Sure(n, s)
  BY <1>1, <1>2, TrackedFrom DEF TrackedInv
<1>5. kn = TRUE
  BY <1>3, <1>4
<1>6. associated[p] => s \in Uniques /\ TrackedOwners(n) = {s}
  BY <1>1, <1>2, <1>3, <1>4, TrackedOwnersSure DEF TrackedInv
<1>7. unassociated[p] > 0 => s = NoOwner
  BY <1>3, <1>4 DEF Sure
<1> QED
  BY <1>2, <1>3, <1>4, <1>5, <1>6, <1>7

\* A proxy waits for the owner of its name in one place (got_name_owner_cb,
\* unassociate_proxies, unregister).
THEOREM PlaceCorrect ==
  ASSUME ~Reuse
  PROVE  Spec => []OnePlace
<1>1. TrackingBooks => OnePlace
  BY DEF TrackingBooks, PlacesInv
<1> QED
  BY <1>1, TrackingInvariance, PTL

\* The refcount of an info is the number of proxies that share it
\* (monitor_name_owner, unmonitor_name_owner).
THEOREM InfosCorrect ==
  ASSUME ~Reuse
  PROVE  Spec => []InfosCountProxies
<1>1. TrackingBooks => InfosCountProxies
  <2> SUFFICES ASSUME TrackingBooks, NEW n \in Names
               PROVE  IF Followers(n) = {} THEN TrackedOwners(n) = {}
                      ELSE \E u \in Uniques :
                             /\ TrackedOwners(n) = {u}
                             /\ ownerNames[u][n] = <<Cardinality(Followers(n))>>
    BY DEF InfosCountProxies
  <2>1. Inv /\ Tracked(n)
    BY DEF TrackingBooks, BooksInv, TrackedInv
  <2>2. CASE Followers(n) = {}
    BY <2>1, <2>2, TrackedOwnersSure
  <2>3. CASE Followers(n) # {}
    <3>1. PICK s \in Owners : Sure(n, s)
      BY <2>1, <2>3 DEF Tracked, Followers
    <3>2. s \in Uniques /\ TrackedOwners(n) = {s} /\ ownerNames[s][n] = <<Cardinality(Followers(n))>>
      BY <2>1, <2>3, <3>1, TrackedOwnersSure
    <3> QED
      BY <2>3, <3>2
  <2> QED
    BY <2>2, <2>3
<1> QED
  BY <1>1, TrackingInvariance, PTL

\* An associated proxy follows the owner of its name in bus order, and one in
\* the unassociated list has a name without owner (replace_name_owner).
THEOREM TrackingCorrect ==
  ASSUME ~Reuse
  PROVE  Spec => []TrackingFollowsBus
<1>1. TrackingBooks => TrackingFollowsBus
  <2> SUFFICES ASSUME TrackingBooks, connected, NEW p \in Proxies, Tracking(p)
               PROVE  /\ associated[p] => TrackedOwners(ProxyName[p]) = {View(ProxyName[p])}
                      /\ unassociated[p] > 0 => View(ProxyName[p]) = NoOwner
    BY DEF TrackingFollowsBus
  <2> SUFFICES ASSUME associated[p] \/ unassociated[p] > 0
               PROVE  /\ associated[p] => TrackedOwners(ProxyName[p]) = {View(ProxyName[p])}
                      /\ unassociated[p] > 0 => View(ProxyName[p]) = NoOwner
    OBVIOUS
  <2>1. PICK s \in Owners :
          /\ Ongoing(ProxyName[p], TRUE, s)
          /\ associated[p] => s \in Uniques /\ TrackedOwners(ProxyName[p]) = {s}
          /\ unassociated[p] > 0 => s = NoOwner
    BY ProxyPlaced DEF Tracking
  <2>2. View(ProxyName[p]) = s
    BY <2>1, ViewKnown DEF TrackingBooks, BooksInv
  <2> QED
    BY <2>1, <2>2
<1> QED
  BY <1>1, TrackingInvariance, PTL

\* A signal goes to the proxies whose name its sender owned when the bus sent
\* it, and to those bound to the sender itself (dbus_g_proxy_manager_filter).
THEOREM RoutingCorrect ==
  ASSUME ~Reuse
  PROVE  Spec => []RoutingExact
<1>1. TrackingBooks => RoutingExact
  <2> DEFINE m == Head(toClient)
  <2> SUFFICES ASSUME TrackingBooks, Dispatching, connected, m.type = "signal",
                      NEW p \in Listed, iface[p] = m.iface
               PROVE  /\ associated[p] => (p \in Recipients(m) <=> ProxyName[p] \in m.owned)
                      /\ ForOwner(p) => (p \in Recipients(m) <=> ProxyName[p] = m.sender)
    BY DEF RoutingExact
  <2>1. /\ toClient # <<>> /\ toClient \in Seq(Messages) /\ m = toClient[1]
        /\ 1 \in 1 .. Len(toClient) /\ Signals(toClient, 1)
    <3>1. toClient # <<>> /\ toClient \in Seq(Messages)
      BY QueueTypes DEF TrackingBooks, BooksInv, Dispatching
    <3> QED
      BY <3>1 DEF Signals
  <2>2. m.sender \in Uniques
    <3>1. m \in Messages
      BY <2>1
    <3> QED
      BY <3>1 DEF Messages, Ignored
  <2>3. p \in Proxies
    BY DEF Listed
  <2>4. p \in Recipients(m) <=>
          \/ ProxyName[p] = m.sender
          \/ ProxyName[p] \in Names /\ m.sender \in TrackedOwners(ProxyName[p])
    BY DEF Recipients, ListOf
  <2>5. ForOwner(p) => (p \in Recipients(m) <=> ProxyName[p] = m.sender)
    BY <2>4 DEF ForOwner
  <2>6. ASSUME associated[p]
        PROVE  p \in Recipients(m) <=> ProxyName[p] \in m.owned
    <3> DEFINE n == ProxyName[p]
    <3>1. n \in Names
      BY <2>3, <2>6, ProxyPlaced
    <3>2. PICK s \in Owners : Ongoing(n, TRUE, s) /\ TrackedOwners(n) = {s}
      BY <2>3, <2>6, ProxyPlaced
    <3>3. s = m.sender <=> n \in m.owned
      <4>1. PICK e \in Owners : Follows(toClient, n, TRUE, s, e)
        BY <3>2 DEF Ongoing
      <4> HIDE DEF n
      <4>2. s = toClient[1].sender <=> n \in toClient[1].owned
        BY <2>1, <4>1, FollowsTail
      <4> QED
        BY <2>1, <4>2
    <3>4. n # m.sender
      BY <2>2, <3>1, BusAssumption
    <3> QED
      BY <2>4, <3>1, <3>2, <3>3, <3>4
  <2> QED
    BY <2>5, <2>6
<1> QED
  BY <1>1, TrackingInvariance, PTL

\* A manager that nobody refers to has nothing left in its tables.
LEMMA UnreferencedEmpty ==
  ASSUME TrackingBooks, refcount = 0
  PROVE  TablesEmpty
<1>1. Inv /\ \A n : TrackingFor(n) = {}
  BY NoManager DEF TrackingBooks, BooksInv
<1>2. \A n : Followers(n) = {} /\ \A i : ListOf(n, i) = {}
  BY <1>1 DEF Followers, ListOf, TrackingFor
<1>3. \A n \in BusNames : matchRefs[n] = 0
  <2> SUFFICES ASSUME NEW n \in BusNames PROVE matchRefs[n] = 0
    OBVIOUS
  <2>1. Lists(n) = {}
    BY <1>2 DEF Lists
  <2>2. Cardinality(Lists(n)) = 0
    BY <2>1, FS_EmptySet
  <2> QED
    BY <2>2 DEF TrackingBooks, BooksInv, MatchRefsCount
<1>4. \A n \in Names : TrackedOwners(n) = {}
  BY <1>2 DEF TrackingBooks, TrackedInv, Tracked, TrackedOwners
<1>5. \A p \in Proxies : unassociated[p] = 0
  <2>1. \A p \in Proxies : ~Tracking(p)
    BY <1>1 DEF Tracking, TrackingFor
  <2>2. unassociated \in [Proxies -> Nat]
    BY <1>1 DEF Inv, TypeOK
  <2> QED
    BY <2>1, <2>2 DEF TrackingBooks, PlacesInv, OnePlace
<1> QED
  BY <1>3, <1>4, <1>5 DEF TablesEmpty

\* Where faults come from.
LEMMA FaultShapes ==
  ASSUME [Next]_vars
  PROVE  \/ fault' \in {fault, "none", "stale owner_names"}
         \/ \E p \in Proxies : /\ status[p] = "registered" \/ p \in filter.todo
                               /\ status[p] # "disposed" /\ Free
                               /\ fault' = UnregisterFault(p)
         \/ fault' = "tables not empty" /\ refcount' = 0 /\ ~TablesEmpty'
<1>1. ASSUME NEW p \in Proxies, Unregisters(p)
      PROVE  \/ fault' = "none"
             \/ fault' = UnregisterFault(p)
             \/ fault' = "tables not empty" /\ refcount' = 0 /\ ~TablesEmpty'
  BY <1>1 DEF Unregisters, Dies, Unref
<1>2. ASSUME NEW p \in Proxies, New(p) \/ \E i \in Ifaces : SetInterfaceEnds(p, i)
      PROVE  fault' \in {fault, "none", "stale owner_names"}
  BY <1>2 DEF New, SetInterfaceEnds, Dies, RegisterFault
<1>3. ASSUME NEW p \in Proxies, SetInterfaceBegins(p)
      PROVE  fault' = fault \/ (Free /\ status[p] = "registered" /\ fault' = UnregisterFault(p))
  BY <1>3 DEF SetInterfaceBegins, Dies
<1>4. FilterReturns => fault' = "none" \/ (fault' = "tables not empty" /\ refcount' = 0 /\ ~TablesEmpty')
  BY DEF FilterReturns, Unref
<1>5. ASSUME NEW p \in Proxies, Dispose(p)
      PROVE  Unregisters(p) /\ status[p] = "registered" /\ Free
  BY <1>5 DEF Dispose
<1>6. ASSUME NEW p \in Proxies, Destroys(p)
      PROVE  fault' = fault \/ (Unregisters(p) /\ p \in filter.todo /\ status[p] # "disposed" /\ Free)
  BY <1>6 DEF Destroys
<1>7. \/ IgnoreMessage \/ GotNameOwner \/ NameAppears \/ NameMovesOrGoes
      \/ RoutesSignal \/ HandlesDisconnected \/ BusStep \/ OutsideStep
      \/ \E p \in Proxies : EmitsTo(p) \/ ResolveOwner(p) \/ NameCallFails(p)
      => fault' = fault
  BY DEF IgnoreMessage, GotNameOwner, NameAppears, NameMovesOrGoes, RoutesSignal,
         HandlesDisconnected, EmitsTo, ResolveOwner, NameCallFails, BusStep, OutsideStep
<1>8. UNCHANGED vars => fault' = fault
  BY DEF vars
<1>9. CASE Dispatch
  BY <1>1, <1>4, <1>6, <1>7, <1>9 DEF Dispatch
<1>10. CASE Application
  BY <1>1, <1>2, <1>3, <1>5, <1>7, <1>10 DEF Application
<1>11. CASE CallFails \/ BusStep \/ OutsideStep
  BY <1>7, <1>11 DEF CallFails
<1> QED
  BY <1>8, <1>9, <1>10, <1>11 DEF Next

\* No table outlives the last reference.
NothingLeft == refcount = 0 => TablesEmpty

\* FreedManagerEmpty: the manager is freed with empty tables, as
\* dbus_g_proxy_manager_unref asserts.
THEOREM FreedCorrect ==
  ASSUME ~Reuse
  PROVE  Spec => []FreedManagerEmpty
<1>1. Init => FreedManagerEmpty
  BY DEF Init, FreedManagerEmpty
<1>2. TrackingBooks => NothingLeft
  BY UnreferencedEmpty DEF NothingLeft
<1>3. NothingLeft' /\ FreedManagerEmpty /\ [Next]_vars => FreedManagerEmpty'
  <2> SUFFICES ASSUME NothingLeft', FreedManagerEmpty, [Next]_vars, fault' = "tables not empty"
               PROVE  FALSE
    BY DEF FreedManagerEmpty
  <2>1. \A p : UnregisterFault(p) # "tables not empty"
    BY DEF UnregisterFault
  <2>2. fault # "tables not empty"
    BY DEF FreedManagerEmpty
  <2>3. refcount' = 0 /\ ~TablesEmpty'
    BY <2>1, <2>2, FaultShapes
  <2> QED
    BY <2>3 DEF NothingLeft
<1> QED
  BY <1>1, <1>2, <1>3, TrackingInvariance, PTL DEF Spec

\* The proxies the filter still has to visit have been in a list, and leave it
\* only for good.
TodoInv == \A p \in filter.todo : status[p] \in {"registered", "moving", "disposed"}

LEMMA StepTodo ==
  ASSUME Inv, TodoInv, [Next]_vars
  PROVE  TodoInv'
<1>1. filter'.todo \subseteq filter.todo \/ (filter'.todo \subseteq Listed /\ UNCHANGED status)
  <2>1. CASE Dispatch
    <3>1. IgnoreMessage \/ GotNameOwner \/ NameAppears => UNCHANGED filter
      BY DEF IgnoreMessage, GotNameOwner, NameAppears
    <3>2. \A p \in Proxies : EmitsTo(p) \/ Destroys(p) => filter'.todo \subseteq filter.todo
      BY DEF EmitsTo, Destroys, Inv, TypeOK
    <3>3. FilterReturns => filter'.todo \subseteq filter.todo
      BY DEF FilterReturns, Idle
    <3>4. NameMovesOrGoes \/ RoutesSignal \/ HandlesDisconnected =>
            UNCHANGED status /\ filter'.todo \subseteq Listed
      <4>1. NameMovesOrGoes => UNCHANGED status /\ filter'.todo \subseteq Listed
        BY DEF NameMovesOrGoes, Idle, BoundTo
      <4>2. RoutesSignal => UNCHANGED status /\ filter'.todo \subseteq Listed
        BY DEF RoutesSignal, proxyVars, Idle, Recipients, ListOf
      <4>3. HandlesDisconnected => UNCHANGED status /\ filter'.todo \subseteq Listed
        BY DEF HandlesDisconnected, proxyVars, Idle, ListAll
      <4> QED
        BY <4>1, <4>2, <4>3
    <3> QED
      BY <2>1, <3>1, <3>2, <3>3, <3>4 DEF Dispatch
  <2>2. CASE CallFails \/ Application \/ BusStep \/ OutsideStep \/ UNCHANGED vars
    <3>1. CallFails \/ BusStep \/ OutsideStep \/ UNCHANGED vars => UNCHANGED filter
      BY DEF CallFails, NameCallFails, BusStep, OutsideStep, vars
    <3>2. Application => UNCHANGED filter
      BY DEF Application, New, ResolveOwner, Dispose, SetInterfaceBegins, SetInterfaceEnds
    <3> QED
      BY <2>2, <3>1, <3>2
  <2> QED
    BY <2>1, <2>2 DEF Next
<1>2. ASSUME NEW p \in Proxies, status[p] \in {"registered", "moving", "disposed"}
      PROVE  status'[p] \in {"registered", "moving", "disposed"}
  <2>1. Shapes /\ status \in [Proxies -> Statuses]
    BY StepShape DEF Inv, TypeOK
  <2>2. ASSUME NEW q \in Proxies, NEW i \in Ifaces, Registers(q, i)
        PROVE  status'[p] \in {"registered", "moving", "disposed"}
    BY <1>2, <2>1, <2>2 DEF Registers, Register
  <2>3. ASSUME NEW q \in Proxies, NEW st \in Statuses, Leaves(q, st)
        PROVE  status'[p] \in {"registered", "moving", "disposed"}
    BY <1>2, <2>1, <2>3 DEF Leaves, Unregister
  <2>4. ASSUME NEW q \in Proxies, ResolveOwner(q)
        PROVE  status'[p] = status[p]
    BY <1>2, <2>1, <2>4 DEF ResolveOwner
  <2> QED
    BY <1>2, <2>1, <2>2, <2>3, <2>4, StatusShapes
<1>3. filter.todo \subseteq Proxies
  BY DEF Inv, TypeOK
<1> QED
  BY <1>1, <1>2, <1>3 DEF TodoInv, Listed

\* The assertions and lookups of unregister and unmonitor_name_owner hold, for
\* proxies that are bound to a name.
THEOREM UnregisterCorrect ==
  ASSUME ~Reuse, NoPeers
  PROVE  Spec => []UnregisterSucceeds
<1>1. Init => UnregisterSucceeds /\ TodoInv
  BY DEF Init, Idle, UnregisterSucceeds, TodoInv
<1>2. TrackingBooks /\ BooksInv /\ RulesInv /\ UnregisterSucceeds /\ TodoInv /\ [Next]_vars
        => UnregisterSucceeds' /\ TodoInv'
  <2> SUFFICES ASSUME TrackingBooks, BooksInv, RulesInv, UnregisterSucceeds, TodoInv, [Next]_vars
               PROVE  UnregisterSucceeds'
    BY StepTodo DEF BooksInv
  <2>1. ASSUME NEW p \in Proxies, status[p] = "registered" \/ p \in filter.todo,
               status[p] # "disposed", Free
        PROVE  UnregisterFault(p) = "none"
    <3>1. status[p] = "registered" /\ p \in Listed
      BY <2>1 DEF TodoInv, Free, Listed
    <3>2. ~(associated[p] /\ nameCall[p])
      BY DEF TrackingBooks, PlacesInv, OnePlace
    <3>3. associated[p] => TrackedOwners(ProxyName[p]) # {}
      BY <3>1, ProxyPlaced
    <3>4. matchRefs[ProxyName[p]] # 0
      BY <3>1, EntryKnown DEF BooksInv
    <3> QED
      BY <3>1, <3>2, <3>3, <3>4 DEF UnregisterFault
  <2> QED
    BY <2>1, FaultShapes DEF UnregisterSucceeds
<1> QED
  BY <1>1, <1>2, TrackingInvariance, RulesInvariance, PTL DEF Spec
================================================================================
