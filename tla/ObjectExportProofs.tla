--------------------------- MODULE ObjectExportProofs ---------------------------
(******************************************************************************)
(* Exported objects, for any objects, connections and paths: proofs over      *)
(* ObjectExport.  The first part is about the weak reference alone: the death *)
(* of an object is seen once, wherever it is registered (DeathInv).  The      *)
(* second adds lists, trees and handlers: the list of an object and the trees *)
(* agree, no message reaches a dead object, a signal leaves once from each    *)
(* place (ExportInv).                                                         *)
(******************************************************************************)
EXTENDS ObjectExportProps, Induction, TLAPS

\* The weak reference is there exactly while oe->object is.
Watched ==
  /\ weakRefs \in [Objects -> {0, 1}]
  /\ object \in [Objects -> BOOLEAN]
  /\ \A o \in Objects : object[o] <=> weakRefs[o] = 1

\* The inductive invariant.
DeathInv == Watched /\ fault # "dead # oe->object"

LEMMA RegisterWatches ==
  ASSUME DeathInv, NEW o \in Objects, NEW at \in Places, Register(o, at)
  PROVE  DeathInv'
<1>1. /\ object' = [object EXCEPT ![o] = object[o] \/ ~object[o]]
      /\ weakRefs' = [weakRefs EXCEPT ![o] = weakRefs[o] + (IF ~object[o] THEN 1 ELSE 0)]
  BY DEF Register, Watches
<1>2. object'[o] = TRUE /\ weakRefs'[o] = 1
  <2>1. object[o] \/ ~object[o] <=> TRUE
    OBVIOUS
  <2>2. object'[o] = (object[o] \/ ~object[o])
    BY <1>1, Zenon DEF DeathInv, Watched
  <2>3. weakRefs'[o] = weakRefs[o] + (IF ~object[o] THEN 1 ELSE 0)
    BY <1>1 DEF DeathInv, Watched
  <2>4. weakRefs[o] = IF object[o] THEN 1 ELSE 0
    BY DEF DeathInv, Watched
  <2>5. weakRefs'[o] = 1
    BY <2>3, <2>4
  <2> QED
    BY <2>2, <2>5, Zenon
<1>3. \A x \in Objects : x # o => object'[x] = object[x] /\ weakRefs'[x] = weakRefs[x]
  BY <1>1 DEF DeathInv, Watched
<1>4. weakRefs' \in [Objects -> {0, 1}]
  BY <1>1, <1>2, <1>3 DEF DeathInv, Watched
<1>5. object' \in [Objects -> BOOLEAN]
  BY <1>1, Zenon DEF DeathInv, Watched
<1>6. fault' # "dead # oe->object"
  BY DEF Register, DeathInv
<1> QED
  BY <1>2, <1>3, <1>4, <1>5, <1>6 DEF DeathInv, Watched

LEMMA DiedWatches ==
  ASSUME DeathInv, NEW o \in Objects, Died(o)
  PROVE  DeathInv'
<1>1. /\ object' = [object EXCEPT ![o] = object[o] /\ weakRefs[o] = 0]
      /\ weakRefs' = [weakRefs EXCEPT ![o] = 0]
      /\ fault' = IF weakRefs[o] > 1 THEN "dead # oe->object" ELSE fault
  BY DEF Died
<1>2. object'[o] = FALSE /\ weakRefs'[o] = 0
  <2>1. object'[o] = (object[o] /\ weakRefs[o] = 0)
    BY <1>1, Zenon DEF DeathInv, Watched
  <2>2. object[o] => weakRefs[o] = 1
    BY Zenon DEF DeathInv, Watched
  <2>3. weakRefs'[o] = 0
    BY <1>1 DEF DeathInv, Watched
  <2>4. ~(weakRefs[o] = 1 /\ weakRefs[o] = 0)
    OBVIOUS
  <2> QED
    BY <2>1, <2>2, <2>3, <2>4, Zenon
<1>3. \A x \in Objects : x # o => object'[x] = object[x] /\ weakRefs'[x] = weakRefs[x]
  BY <1>1 DEF DeathInv, Watched
<1>4. weakRefs' \in [Objects -> {0, 1}]
  BY <1>1, <1>2, <1>3 DEF DeathInv, Watched
<1>5. object' \in [Objects -> BOOLEAN]
  BY <1>1, Zenon DEF DeathInv, Watched
<1>6. fault' # "dead # oe->object"
  <2>1. weakRefs[o] \in {0, 1}
    BY DEF DeathInv, Watched
  <2>2. ~(weakRefs[o] > 1)
    BY <2>1
  <2>3. fault' = IF weakRefs[o] > 1 THEN "dead # oe->object" ELSE fault
    BY Zenon DEF Died
  <2> QED
    BY <2>2, <2>3, Zenon DEF DeathInv
<1>7. \A x \in Objects : object'[x] <=> weakRefs'[x] = 1
  <2>1. 0 # 1
    OBVIOUS
  <2>2. \A x \in Objects : object[x] <=> weakRefs[x] = 1
    BY DEF DeathInv, Watched
  <2> QED
    BY <1>2, <1>3, <2>1, <2>2, Zenon
<1> QED
  BY <1>4, <1>5, <1>6, <1>7, Zenon DEF DeathInv, Watched

\* Every other step leaves the reference alone and reaches no assertion of it.
LEMMA OthersWatch ==
  ASSUME DeathInv, UNCHANGED <<object, weakRefs>>,
         fault' \in {fault, "none", "message for a dead object"}
  PROVE  DeathInv'
BY DEF DeathInv, Watched

\* A weak reference is taken when there is none, and given up by the death it
\* announces (dbus_g_connection_register_g_object, object_export_object_died).
THEOREM DeathInvariance == Spec => []DeathInv
<1>1. Init => DeathInv
  BY DEF Init, DeathInv, Watched
<1>2. DeathInv /\ [Next]_vars => DeathInv'
  <2> SUFFICES ASSUME DeathInv, [Next]_vars PROVE DeathInv'
    OBVIOUS
  <2>1. ASSUME NEW o \in Objects, NEW at \in Places, Register(o, at) PROVE DeathInv'
    BY <2>1, RegisterWatches
  <2>2. ASSUME NEW o \in Objects, NEW c \in Conns, Unregister(o, c) PROVE DeathInv'
    BY <2>2, OthersWatch DEF Unregister
  <2>3. ASSUME NEW c \in Conns, Finalizes(c) PROVE DeathInv'
    BY <2>3, OthersWatch DEF Finalizes
  <2>4. ASSUME NEW o \in Objects, BeginsDispose(o) PROVE DeathInv'
    BY <2>4, OthersWatch DEF BeginsDispose
  <2>5. ASSUME NEW o \in Objects, NotifiesDeath(o) PROVE DeathInv'
    BY <2>5, DiedWatches DEF NotifiesDeath
  <2>6. ASSUME NEW o \in Objects, Resurrected(o) PROVE DeathInv'
    BY <2>6, OthersWatch DEF Resurrected, exportVars
  <2>7. ASSUME NEW o \in Objects, FinalizesObject(o) PROVE DeathInv'
    BY <2>7, DiedWatches DEF FinalizesObject
  <2>8. ASSUME NEW o \in Objects, Emit(o) PROVE DeathInv'
    BY <2>8, OthersWatch DEF Emit, exportVars
  <2>9. ASSUME NEW at \in Places, Message(at) PROVE DeathInv'
    BY <2>9, OthersWatch DEF Message, exportVars
  <2>10. CASE UNCHANGED vars
    BY <2>10, OthersWatch DEF vars, exportVars
  <2> QED
    BY <2>1, <2>2, <2>3, <2>4, <2>5, <2>6, <2>7, <2>8, <2>9, <2>10 DEF Next
<1> QED
  BY <1>1, <1>2, PTL DEF Spec

\* DeathSeenOnce: object_export_object_died finds the object it asserts, also
\* when the object is registered again between its dispose and its end.
THEOREM DeathCorrect == Spec => []DeathSeenOnce
<1>1. DeathInv => DeathSeenOnce
  BY DEF DeathInv, Watched, DeathSeenOnce
<1> QED
  BY <1>1, DeathInvariance, PTL

--------------------------------------------------------------------------------
(* The list of registrations *)

\* An item put last in a list.
LEMMA AppendItem ==
  ASSUME NEW T, NEW s \in Seq(T), NEW x \in T
  PROVE  LET t == Append(s, x) IN
         /\ t \in Seq(T) /\ t # <<>> /\ (s # <<>> => t[1] = s[1]) /\ (s = <<>> => t[1] = x)
         /\ \A y : Contains(t, y) <=> Contains(s, y) \/ y = x
         /\ IsInjective(s) /\ ~Contains(s, x) => IsInjective(t)
<1> DEFINE t == Append(s, x)
<1>1. /\ t \in Seq(T) /\ Len(t) = Len(s) + 1 /\ Len(s) \in Nat
      /\ \A k \in 1 .. Len(s) : t[k] = s[k]
      /\ t[Len(t)] = x
      /\ DOMAIN s = 1 .. Len(s) /\ DOMAIN t = 1 .. Len(t)
      /\ s # <<>> => 1 \in 1 .. Len(s)
      /\ s = <<>> => Len(s) = 0
  OBVIOUS
<1> HIDE DEF t
<1>2. \A k : k \in 1 .. Len(t) <=> k \in 1 .. Len(s) \/ k = Len(t)
  BY <1>1
<1>3. \A y : Contains(t, y) <=> Contains(s, y) \/ y = x
  BY <1>1, <1>2 DEF Contains
<1>4. IsInjective(s) /\ ~Contains(s, x) => IsInjective(t)
  BY <1>1, <1>2 DEF Contains, IsInjective
<1>5. t # <<>>
  BY <1>1
<1> QED
  BY <1>1, <1>3, <1>4, <1>5 DEF t

\* f computes Without for the first n items of list.
Keeps(list, c, n, f) ==
  f = [k \in 0 .. n |-> IF k = 0 THEN <<>>
                        ELSE IF list[k].conn = c THEN f[k - 1]
                        ELSE Append(f[k - 1], list[k])]

\* There is such a function: the recursive definition of Without has a meaning.
LEMMA KeepsExists ==
  ASSUME NEW list, NEW c, NEW n \in Nat
  PROVE  \E f : Keeps(list, c, n, f)
<1> DEFINE S == {m \in Nat : \E f : Keeps(list, c, m, f)}
<1>1. 0 \in S
  <2>1. Keeps(list, c, 0, [k \in 0 .. 0 |-> <<>>])
    BY DEF Keeps
  <2> QED
    BY <2>1
<1>2. ASSUME NEW m \in Nat, m \in S
      PROVE  m + 1 \in S
  <2>1. PICK f : Keeps(list, c, m, f)
    BY <1>2
  <2> DEFINE x == IF list[m + 1].conn = c THEN f[m] ELSE Append(f[m], list[m + 1])
             g == [k \in 0 .. m + 1 |-> IF k = m + 1 THEN x ELSE f[k]]
             h == [k \in 0 .. m + 1 |-> IF k = 0 THEN <<>>
                                        ELSE IF list[k].conn = c THEN g[k - 1]
                                        ELSE Append(g[k - 1], list[k])]
  <2>2. ASSUME NEW k \in 0 .. m + 1
        PROVE  g[k] = h[k]
    <3>1. CASE k = m + 1
      <4>1. k # 0 /\ k - 1 = m /\ m \in 0 .. m + 1 /\ m # m + 1
        BY <3>1
      <4>2. g[k - 1] = f[m]
        BY <4>1
      <4> QED
        BY <3>1, <4>1, <4>2
    <3>2. CASE k # m + 1
      <4>1. k \in 0 .. m /\ (k # 0 => k - 1 \in 0 .. m + 1 /\ k - 1 # m + 1)
        BY <3>2
      <4>2. f[k] = IF k = 0 THEN <<>>
                   ELSE IF list[k].conn = c THEN f[k - 1] ELSE Append(f[k - 1], list[k])
        BY <2>1, <4>1 DEF Keeps
      <4>3. g[k] = f[k] /\ (k # 0 => g[k - 1] = f[k - 1])
        BY <3>2, <4>1
      <4> HIDE DEF g
      <4> QED
        BY <4>2, <4>3
    <3> QED
      BY <3>1, <3>2
  <2>3. DOMAIN g = DOMAIN h /\ g = [k \in DOMAIN g |-> g[k]] /\ h = [k \in DOMAIN h |-> h[k]]
    OBVIOUS
  <2>4. g = h
    <3>1. DOMAIN g = 0 .. m + 1
      OBVIOUS
    <3> HIDE DEF g, h
    <3> QED
      BY <2>2, <2>3, <3>1
  <2>5. Keeps(list, c, m + 1, g)
    BY <2>4 DEF Keeps
  <2> QED
    BY <2>5
<1>3. n \in S
  <2> HIDE DEF S
  <2> QED
    BY <1>1, <1>2, SetInduction
<1> QED
  BY <1>3

\* What Without leaves in a list, and that the first item stays the first if it
\* stays at all.
LEMMA WithoutItems ==
  ASSUME NEW T, NEW list \in Seq(T), NEW c
  PROVE  LET w == Without(list, c) IN
         /\ w \in Seq(T)
         /\ \A x : Contains(w, x) <=> Contains(list, x) /\ x.conn # c
         /\ IsInjective(list) => IsInjective(w)
         /\ list # <<>> /\ list[1].conn # c => w # <<>> /\ w[1] = list[1]
<1> DEFINE L == Len(list)
           f == CHOOSE g : Keeps(list, c, L, g)
           Good(n) ==
             /\ f[n] \in Seq(T)
             /\ \A x : Contains(f[n], x) <=> x.conn # c /\ \E k \in 1 .. n : list[k] = x
             /\ IsInjective(list) => IsInjective(f[n])
             /\ 1 <= n /\ list[1].conn # c => f[n] # <<>> /\ f[n][1] = list[1]
           S == {n \in Nat : n <= L => Good(n)}
<1>1. L \in Nat /\ DOMAIN list = 1 .. L /\ \A k \in 1 .. L : list[k] \in T
  OBVIOUS
<1>2. Keeps(list, c, L, f)
  <2>1. \E g : Keeps(list, c, L, g)
    BY <1>1, KeepsExists
  <2> QED
    BY <2>1
<1>3. Without(list, c) = f[L]
  BY DEF Without, Keeps
<1> HIDE DEF f
<1>4. f[0] = <<>>
  BY <1>1, <1>2 DEF Keeps
<1>5. ASSUME NEW n \in Nat, n + 1 <= L
      PROVE  f[n + 1] = IF list[n + 1].conn = c THEN f[n] ELSE Append(f[n], list[n + 1])
  <2>1. n + 1 \in 0 .. L /\ n + 1 # 0 /\ (n + 1) - 1 = n
    BY <1>1, <1>5
  <2> QED
    BY <1>2, <2>1 DEF Keeps
<1>6. 0 \in S
  <2>1. \A x : ~Contains(<<>>, x)
    BY DEF Contains
  <2>2. IsInjective(<<>>)
    BY DEF IsInjective
  <2>3. <<>> \in Seq(T)
    OBVIOUS
  <2>4. \A x : ~\E k \in 1 .. 0 : list[k] = x
    OBVIOUS
  <2>5. ~(1 <= 0)
    OBVIOUS
  <2>6. \A x : Contains(f[0], x) <=> x.conn # c /\ \E k \in 1 .. 0 : list[k] = x
    BY <1>4, <2>1, <2>4, Zenon
  <2>7. Good(0)
    BY <1>4, <2>2, <2>3, <2>5, <2>6, Zenon
  <2> QED
    BY <2>7
<1>7. ASSUME NEW n \in Nat, n \in S
      PROVE  n + 1 \in S
  <2> SUFFICES ASSUME n + 1 <= L
               PROVE  Good(n + 1)
    OBVIOUS
  <2> DEFINE y == list[n + 1]
  <2>1. n <= L /\ y \in T /\ n + 1 \in 1 .. L
    BY <1>1
  <2>2. Good(n)
    BY <1>7, <2>1
  <2>3. \A x : (\E k \in 1 .. n + 1 : list[k] = x) <=> x = y \/ \E k \in 1 .. n : list[k] = x
    <3>1. \A k : k \in 1 .. n + 1 <=> k = n + 1 \/ k \in 1 .. n
      OBVIOUS
    <3> QED
      BY <3>1
  <2>4. n = 0 => y = list[1] /\ f[n] = <<>>
    BY <1>4
  <2>5. CASE y.conn = c
    <3>1. f[n + 1] = f[n]
      BY <1>5, <2>5
    <3>2. list[1].conn # c => 1 <= n
      BY <2>4, <2>5
    <3>3. \A x : Contains(f[n + 1], x) <=> x.conn # c /\ \E k \in 1 .. n + 1 : list[k] = x
      BY <2>2, <2>3, <2>5, <3>1
    <3> QED
      BY <2>2, <3>1, <3>2, <3>3
  <2>6. CASE y.conn # c
    <3> DEFINE s == f[n]
               t == Append(s, y)
    <3>1. f[n + 1] = t
      BY <1>5, <2>6
    <3>2. s \in Seq(T)
      BY <2>2
    <3>3. /\ t \in Seq(T) /\ t # <<>> /\ (s # <<>> => t[1] = s[1]) /\ (s = <<>> => t[1] = y)
          /\ \A x : Contains(t, x) <=> Contains(s, x) \/ x = y
          /\ IsInjective(s) /\ ~Contains(s, y) => IsInjective(t)
      <4> HIDE DEF s, y
      <4> QED
        BY <2>1, <3>2, AppendItem
    <3>4. IsInjective(list) => ~Contains(s, y)
      <4>1. ASSUME IsInjective(list), Contains(s, y)
            PROVE  FALSE
        <5>1. PICK k \in 1 .. n : list[k] = y
          BY <2>2, <4>1
        <5>2. k \in 1 .. L /\ k # n + 1
          BY <1>1, <2>1
        <5> QED
          BY <1>1, <2>1, <4>1, <5>1, <5>2 DEF IsInjective
      <4> QED
        BY <4>1
    <3> HIDE DEF t
    <3>5. \A x : Contains(f[n + 1], x) <=> x.conn # c /\ \E k \in 1 .. n + 1 : list[k] = x
      BY <2>2, <2>3, <2>6, <3>1, <3>3
    <3>6. IsInjective(list) => IsInjective(f[n + 1])
      BY <2>2, <3>1, <3>3, <3>4
    <3>7. list[1].conn # c => f[n + 1] # <<>> /\ f[n + 1][1] = list[1]
      <4>1. n # 0 => 1 <= n
        OBVIOUS
      <4> QED
        BY <2>2, <2>4, <3>1, <3>3, <4>1
    <3> QED
      BY <3>1, <3>3, <3>5, <3>6, <3>7
  <2> QED
    BY <2>5, <2>6
<1>8. Good(L)
  <2>1. L \in S
    <3> HIDE DEF S
    <3> QED
      BY <1>1, <1>6, <1>7, SetInduction
  <2> QED
    BY <1>1, <2>1
<1>9. list # <<>> => 1 <= L
  BY <1>1
<1> QED
  BY <1>3, <1>8, <1>9 DEF Contains

--------------------------------------------------------------------------------
(* The object trees *)

\* What is registered is watched, and its object is not finalized.
Anchored ==
  \A o \in Objects : registrations[o] # <<>> => object[o] /\ life[o] # "finalized"

\* The signals of an object are exported when it is, and once.
HookedOnce ==
  \A o \in Objects : hooks[o] \in {0, 1} /\ (hooks[o] = 1 => exported[o])

\* The inductive invariant.
ExportInv ==
  /\ TypeOK
  /\ DeathInv
  /\ TreeAgrees
  /\ Anchored
  /\ HookedOnce
  /\ fault # "message for a dead object"
  /\ SentOnce

\* The part of it that the trees and the lists are.
TreeInv ==
  /\ registrations \in [Objects -> Seq(Places)]
  /\ tree \in [Places -> Objects \union {Nobody}]
  /\ TreeAgrees

\* An empty list has no item.
LEMMA EmptyList ==
  ASSUME NEW T, NEW s \in Seq(T)
  PROVE  /\ s = <<>> => IsInjective(s) /\ \A x : ~Contains(s, x)
         /\ \A x : Contains(s, x) => s # <<>> /\ x \in T
         /\ s # <<>> => s[1] = Head(s) /\ Contains(s, Head(s)) /\ Head(s) \in T
<1>1. s = <<>> => IsInjective(s)
  BY DEF IsInjective
<1>2. \A x : Contains(s, x) => s # <<>> /\ x \in T
  BY DEF Contains
<1>3. s # <<>> => s[1] = Head(s) /\ 1 \in 1 .. Len(s) /\ Head(s) \in T
  OBVIOUS
<1> QED
  BY <1>1, <1>2, <1>3 DEF Contains

\* An object whose list becomes empty leaves the trees.
LEMMA TreeForgets ==
  ASSUME TreeInv, NEW o \in Objects,
         registrations' = [registrations EXCEPT ![o] = <<>>],
         tree' = [at \in Places |->
                    IF Contains(registrations[o], at) THEN Nobody ELSE tree[at]]
  PROVE  TreeInv'
<1>1. /\ registrations' \in [Objects -> Seq(Places)]
      /\ registrations'[o] = <<>>
      /\ \A x \in Objects : x # o => registrations'[x] = registrations[x]
  BY DEF TreeInv
<1>2. /\ tree' \in [Places -> Objects \union {Nobody}]
      /\ \A at \in Places :
           tree'[at] = IF Contains(registrations[o], at) THEN Nobody ELSE tree[at]
  BY DEF TreeInv
<1>3. ASSUME NEW x \in Objects
      PROVE  /\ \A at \in Places : tree'[at] = x <=> Contains(registrations'[x], at)
             /\ IsInjective(registrations'[x])
  <2>1. x # Nobody
    BY NobodyAssumption
  <2>2. /\ \A at \in Places : tree[at] = x <=> Contains(registrations[x], at)
        /\ \A at \in Places : tree[at] = o <=> Contains(registrations[o], at)
        /\ IsInjective(registrations[x])
    BY DEF TreeInv, TreeAgrees
  <2>3. CASE x = o
    <3>1. IsInjective(registrations'[o]) /\ \A at : ~Contains(registrations'[o], at)
      BY <1>1, EmptyList
    <3> QED
      BY <1>2, <2>1, <2>2, <2>3, <3>1
  <2>4. CASE x # o
    BY <1>1, <1>2, <2>1, <2>2, <2>4
  <2> QED
    BY <2>3, <2>4
<1> QED
  BY <1>1, <1>2, <1>3 DEF TreeInv, TreeAgrees

\* Without, for one object, and the same in the tree of the connection.
LEMMA TreeWithout ==
  ASSUME TreeInv, NEW c, NEW D \in SUBSET Objects,
         registrations' \in [Objects -> Seq(Places)],
         \A x \in Objects :
           registrations'[x] = IF x \in D THEN Without(registrations[x], c)
                               ELSE registrations[x],
         tree' = [at \in Places |->
                    IF at.conn = c /\ tree[at] \in D THEN Nobody ELSE tree[at]]
  PROVE  TreeInv'
<1>1. /\ tree' \in [Places -> Objects \union {Nobody}]
      /\ \A at \in Places :
           tree'[at] = IF at.conn = c /\ tree[at] \in D THEN Nobody ELSE tree[at]
  BY DEF TreeInv
<1>2. ASSUME NEW x \in Objects
      PROVE  /\ \A at \in Places : tree'[at] = x <=> Contains(registrations'[x], at)
             /\ IsInjective(registrations'[x])
  <2>1. x # Nobody
    BY NobodyAssumption
  <2>2. /\ \A at \in Places : tree[at] = x <=> Contains(registrations[x], at)
        /\ IsInjective(registrations[x])
        /\ registrations[x] \in Seq(Places)
    BY DEF TreeInv, TreeAgrees
  <2>3. CASE x \in D
    <3> DEFINE w == Without(registrations[x], c)
    <3>1. /\ \A at : Contains(w, at) <=> Contains(registrations[x], at) /\ at.conn # c
          /\ IsInjective(registrations[x]) => IsInjective(w)
      BY <2>2, WithoutItems
    <3>2. registrations'[x] = w
      BY <2>3
    <3> HIDE DEF w
    <3> QED
      BY <1>1, <2>1, <2>2, <2>3, <3>1, <3>2
  <2>4. CASE x \notin D
    <3>1. registrations'[x] = registrations[x]
      BY <2>4
    <3> QED
      BY <1>1, <2>1, <2>2, <2>4, <3>1
  <2> QED
    BY <2>3, <2>4
<1> QED
  BY <1>1, <1>2 DEF TreeInv, TreeAgrees

\* A registration added to the list and to the tree, at a free place.
LEMMA TreeRegisters ==
  ASSUME TreeInv, NEW o \in Objects, NEW at \in Places, tree[at] = Nobody,
         registrations' = [registrations EXCEPT ![o] = Append(registrations[o], at)],
         tree' = [tree EXCEPT ![at] = o]
  PROVE  TreeInv'
<1> DEFINE t == Append(registrations[o], at)
<1>1. o # Nobody /\ registrations[o] \in Seq(Places) /\ \A x \in Objects : x # Nobody
  BY NobodyAssumption DEF TreeInv
<1>2. /\ \A x \in Objects, p \in Places : tree[p] = x <=> Contains(registrations[x], p)
      /\ \A x \in Objects : IsInjective(registrations[x])
  BY DEF TreeInv, TreeAgrees
<1>3. /\ t \in Seq(Places)
      /\ \A y : Contains(t, y) <=> Contains(registrations[o], y) \/ y = at
      /\ IsInjective(registrations[o]) /\ ~Contains(registrations[o], at) => IsInjective(t)
  BY <1>1, AppendItem
<1>4. /\ registrations'[o] = t
      /\ \A x \in Objects : x # o => registrations'[x] = registrations[x]
  BY DEF TreeInv
<1>5. /\ registrations' \in [Objects -> Seq(Places)]
      /\ tree' \in [Places -> Objects \union {Nobody}]
      /\ tree'[at] = o
      /\ \A p \in Places : p # at => tree'[p] = tree[p]
  BY <1>3 DEF TreeInv
<1> HIDE DEF t
<1>6. ASSUME NEW x \in Objects
      PROVE  /\ \A p \in Places : tree'[p] = x <=> Contains(registrations'[x], p)
             /\ IsInjective(registrations'[x])
  <2>1. CASE x = o
    BY <1>1, <1>2, <1>3, <1>4, <1>5, <2>1
  <2>2. CASE x # o
    BY <1>1, <1>2, <1>4, <1>5, <2>2
  <2> QED
    BY <2>1, <2>2
<1> QED
  BY <1>5, <1>6 DEF TreeInv, TreeAgrees

--------------------------------------------------------------------------------
(* The other parts of the invariant *)

HooksInv ==
  /\ exported \in [Objects -> BOOLEAN]
  /\ hooks \in [Objects -> Nat]
  /\ HookedOnce

LivesInv ==
  /\ life \in [Objects -> {"alive", "disposing", "died", "finalized"}]
  /\ open \in [Conns -> BOOLEAN]
  /\ Anchored

SentInv ==
  /\ sent \in Seq(Places)
  /\ emitter \in Objects \union {Nobody}
  /\ SentOnce

FaultInv == fault \in {"none", "path taken"}

\* The parts make the whole.
LEMMA ExportParts ==
  ExportInv <=> DeathInv /\ TreeInv /\ HooksInv /\ LivesInv /\ SentInv /\ FaultInv
<1>1. {0, 1} \subseteq Nat
  OBVIOUS
<1>2. DeathInv => weakRefs \in [Objects -> Nat] /\ object \in [Objects -> BOOLEAN]
  BY <1>1 DEF DeathInv, Watched
<1>3. DeathInv => fault # "dead # oe->object"
  BY DEF DeathInv
<1> QED
  BY <1>2, <1>3
  DEF ExportInv, TypeOK, TreeInv, HooksInv, LivesInv, SentInv, FaultInv

\* Between signals nothing is being sent.
LEMMA SilentStep ==
  ASSUME Silent
  PROVE  SentInv'
<1>1. sent' = <<>> /\ emitter' = Nobody
  BY DEF Silent
<1>2. <<>> \in Seq(Places)
  OBVIOUS
<1> QED
  BY <1>1, <1>2 DEF SentInv, SentOnce

\* The handlers of an object are destroyed, whether or not its export is freed.
LEMMA HooksGo ==
  ASSUME HooksInv, NEW o \in Objects, hooks' = [hooks EXCEPT ![o] = 0],
         \/ exported' = exported
         \/ exported' = [exported EXCEPT ![o] = FALSE]
  PROVE  HooksInv'
<1>1. /\ hooks' \in [Objects -> Nat]
      /\ hooks'[o] = 0
      /\ \A x \in Objects : x # o => hooks'[x] = hooks[x]
  BY DEF HooksInv
<1>2. exported' \in [Objects -> BOOLEAN]
  BY Zenon DEF HooksInv
<1>3. \A x \in Objects : x # o => exported'[x] = exported[x]
  BY DEF HooksInv
<1>4. \A x \in Objects : hooks[x] \in {0, 1} /\ (hooks[x] = 1 => exported[x])
  BY DEF HooksInv, HookedOnce
<1>5. \A x \in Objects : hooks'[x] \in {0, 1} /\ (hooks'[x] = 1 => exported'[x])
  <2>1. 0 # 1
    OBVIOUS
  <2> QED
    BY <1>1, <1>3, <1>4, <2>1, Zenon
<1> QED
  BY <1>1, <1>2, <1>5 DEF HooksInv, HookedOnce

\* The signals are exported with the object.
LEMMA HooksCome ==
  ASSUME HooksInv, NEW o \in Objects,
         exported' = [exported EXCEPT ![o] = TRUE],
         hooks' = [hooks EXCEPT ![o] = Hooked(o)]
  PROVE  HooksInv'
<1>1. \A x \in Objects : hooks[x] \in {0, 1} /\ (hooks[x] = 1 => exported[x])
  BY DEF HooksInv, HookedOnce
<1>2. Hooked(o) \in {0, 1}
  <2>1. hooks[o] = 0 \/ (hooks[o] = 1 /\ exported[o])
    BY <1>1
  <2>2. Hooked(o) = hooks[o] + (IF exported[o] THEN 0 ELSE 1)
    BY DEF Hooked
  <2> QED
    BY <2>1, <2>2
<1>3. /\ hooks'[o] = Hooked(o)
      /\ \A x \in Objects : x # o => hooks'[x] = hooks[x]
      /\ hooks' \in [Objects -> Nat]
  BY <1>2 DEF HooksInv
<1>4. /\ exported' \in [Objects -> BOOLEAN]
      /\ exported'[o]
      /\ \A x \in Objects : x # o => exported'[x] = exported[x]
  BY DEF HooksInv
<1>5. \A x \in Objects : hooks'[x] \in {0, 1} /\ (hooks'[x] = 1 => exported'[x])
  BY <1>1, <1>2, <1>3, <1>4
<1> QED
  BY <1>3, <1>4, <1>5 DEF HooksInv, HookedOnce

\* object_export_object_died empties the list of what it found watched, and no
\* other list is watched.
LEMMA DiedLeaves ==
  ASSUME ExportInv, NEW o \in Objects, Died(o)
  PROVE  /\ DeathInv' /\ TreeInv' /\ fault' = fault
         /\ registrations'[o] = <<>>
         /\ \A x \in Objects :
              x # o => registrations'[x] = registrations[x] /\ object'[x] = object[x]
<1>1. /\ DeathInv /\ TreeInv /\ LivesInv
      /\ object' = [object EXCEPT ![o] = object[o] /\ weakRefs[o] = 0]
      /\ fault' = IF weakRefs[o] > 1 THEN "dead # oe->object" ELSE fault
      /\ registrations' =
           [registrations EXCEPT ![o] = IF weakRefs[o] > 0 THEN <<>> ELSE registrations[o]]
      /\ tree' = [at \in Places |->
                    IF weakRefs[o] > 0 /\ Contains(registrations[o], at) THEN Nobody
                    ELSE tree[at]]
  BY ExportParts DEF Died
<1>2. weakRefs[o] \in {0, 1} /\ (object[o] <=> weakRefs[o] = 1)
  BY <1>1 DEF DeathInv, Watched
<1>3. registrations[o] # <<>> => weakRefs[o] > 0
  <2>1. registrations[o] # <<>> => object[o]
    BY <1>1, Zenon DEF LivesInv, Anchored
  <2>2. registrations[o] # <<>> => weakRefs[o] = 1
    BY <1>2, <2>1, Zenon
  <2> QED
    BY <2>2
<1>4. registrations[o] \in Seq(Places)
  BY <1>1 DEF TreeInv
<1>5. registrations' = [registrations EXCEPT ![o] = <<>>]
  BY <1>1, <1>3
<1>6. tree' = [at \in Places |->
                 IF Contains(registrations[o], at) THEN Nobody ELSE tree[at]]
  BY <1>1, <1>3, <1>4, EmptyList
<1>7. TreeInv'
  BY <1>1, <1>5, <1>6, TreeForgets
<1>8. DeathInv'
  BY <1>1, DiedWatches
<1>9. fault' = fault
  <2>1. weakRefs[o] \in {0, 1}
    BY <1>2, Zenon
  <2>2. ~(weakRefs[o] > 1)
    BY <2>1
  <2> QED
    BY <1>1, <2>2, Zenon
<1>10. /\ registrations'[o] = <<>>
       /\ \A x \in Objects : x # o => registrations'[x] = registrations[x]
  BY <1>1, <1>5 DEF TreeInv
<1>11. \A x \in Objects : x # o => object'[x] = object[x]
  BY <1>1 DEF DeathInv, Watched
<1> QED
  BY <1>7, <1>8, <1>9, <1>10, <1>11

--------------------------------------------------------------------------------
(* The actions *)

LEMMA RegisterKeeps ==
  ASSUME ExportInv, NEW o \in Objects, NEW at \in Places, Register(o, at)
  PROVE  ExportInv'
<1>1. DeathInv /\ TreeInv /\ HooksInv /\ LivesInv /\ FaultInv
  BY ExportParts
<1>2. DeathInv'
  BY <1>1, RegisterWatches
<1>3. HooksInv'
  BY <1>1, HooksCome DEF Register
<1>4. /\ SentInv'
      /\ FaultInv'
  BY <1>1, SilentStep DEF Register, FaultInv
<1>5. TreeInv' /\ \A x \in Objects : x # o => registrations'[x] = registrations[x]
  <2>1. CASE UNCHANGED <<registrations, tree>>
    BY <1>1, <2>1 DEF TreeInv, TreeAgrees
  <2>2. CASE /\ tree[at] = Nobody
             /\ registrations' = [registrations EXCEPT ![o] = Listed(o, at)]
             /\ tree' = [tree EXCEPT ![at] = o]
    <3>1. registrations' = [registrations EXCEPT ![o] = Append(registrations[o], at)]
      BY <2>2 DEF Listed
    <3>2. TreeInv'
      BY <1>1, <2>2, <3>1, TreeRegisters
    <3> QED
      BY <1>1, <3>1, <3>2 DEF TreeInv
  <2> QED
    BY <2>1, <2>2 DEF Register
<1>6. /\ object'[o]
      /\ \A x \in Objects : x # o => object'[x] = object[x]
  <2>1. object' = [object EXCEPT ![o] = object[o] \/ ~object[o]]
    BY DEF Register, Watches
  <2>2. object'[o] = (object[o] \/ ~object[o])
    BY <1>1, <2>1, Zenon DEF DeathInv, Watched
  <2>3. \A x \in Objects : x # o => object'[x] = object[x]
    BY <1>1, <2>1 DEF DeathInv, Watched
  <2> QED
    BY <2>2, <2>3, Zenon
<1>7. LivesInv'
  <2>1. life' = life /\ open' = open /\ life[o] # "finalized"
    BY DEF Register, Usable
  <2>2. \A x \in Objects : registrations[x] # <<>> => object[x] /\ life[x] # "finalized"
    BY <1>1, Zenon DEF LivesInv, Anchored
  <2>3. \A x \in Objects : registrations'[x] # <<>> => object'[x] /\ life'[x] # "finalized"
    BY <1>5, <1>6, <2>1, <2>2, Zenon
  <2> QED
    BY <1>1, <2>1, <2>3, Zenon DEF LivesInv, Anchored
<1> QED
  BY <1>2, <1>3, <1>4, <1>5, <1>7, ExportParts, PTL

\* A step that only takes registrations off keeps what is said of the others.
LEMMA LivesOn ==
  ASSUME LivesInv, open' \in [Conns -> BOOLEAN], UNCHANGED <<object, life>>,
         \A x \in Objects : registrations'[x] # <<>> => registrations[x] # <<>>
  PROVE  LivesInv'
<1>1. \A x \in Objects : registrations[x] # <<>> => object[x] /\ life[x] # "finalized"
  BY Zenon DEF LivesInv, Anchored
<1>2. \A x \in Objects : registrations'[x] # <<>> => object'[x] /\ life'[x] # "finalized"
  BY <1>1, Zenon
<1> QED
  BY <1>2, Zenon DEF LivesInv, Anchored

\* Without makes no list of an empty one.
LEMMA WithoutEmpties ==
  ASSUME NEW T, NEW list \in Seq(T), NEW c, Without(list, c) # <<>>
  PROVE  list # <<>>
<1> DEFINE w == Without(list, c)
<1>1. w \in Seq(T) /\ \A x : Contains(w, x) => Contains(list, x)
  BY WithoutItems
<1> HIDE DEF w
<1>2. Contains(w, Head(w))
  BY <1>1, EmptyList DEF w
<1> QED
  BY <1>1, <1>2, EmptyList

LEMMA UnregisterKeeps ==
  ASSUME ExportInv, NEW o \in Objects, NEW c \in Conns, Unregister(o, c)
  PROVE  ExportInv'
<1>1. DeathInv /\ TreeInv /\ HooksInv /\ LivesInv /\ FaultInv
  BY ExportParts
<1>2. /\ registrations' = [registrations EXCEPT ![o] = Without(registrations[o], c)]
      /\ tree' = [at \in Places |->
                    IF Contains(registrations[o], at) /\ at.conn = c THEN Nobody
                    ELSE tree[at]]
      /\ UNCHANGED <<exported, object, weakRefs, hooks, life, open, fault>>
  BY DEF Unregister
<1>3. Without(registrations[o], c) \in Seq(Places) /\ registrations[o] \in Seq(Places)
  BY <1>1, WithoutItems DEF TreeInv
<1>4. /\ registrations' \in [Objects -> Seq(Places)]
      /\ registrations'[o] = Without(registrations[o], c)
      /\ \A x \in Objects : x # o => registrations'[x] = registrations[x]
  BY <1>1, <1>2, <1>3 DEF TreeInv
<1>5. TreeInv'
  <2>1. \A at \in Places : tree[at] = o <=> Contains(registrations[o], at)
    BY <1>1 DEF TreeInv, TreeAgrees
  <2>2. tree' = [at \in Places |->
                   IF at.conn = c /\ tree[at] \in {o} THEN Nobody ELSE tree[at]]
    BY <1>2, <2>1
  <2>3. \A x \in Objects : registrations'[x] = IF x \in {o} THEN Without(registrations[x], c)
                                               ELSE registrations[x]
    BY <1>4
  <2>4. {o} \in SUBSET Objects
    OBVIOUS
  <2> QED
    BY <1>1, <1>4, <2>2, <2>3, <2>4, TreeWithout
<1>6. LivesInv'
  <2>1. \A x \in Objects : registrations'[x] # <<>> => registrations[x] # <<>>
    BY <1>3, <1>4, WithoutEmpties
  <2>2. open' \in [Conns -> BOOLEAN]
    BY <1>1, <1>2 DEF LivesInv
  <2> QED
    BY <1>1, <1>2, <2>1, <2>2, LivesOn
<1>7. DeathInv' /\ HooksInv' /\ FaultInv'
  BY <1>1, <1>2, OthersWatch DEF HooksInv, HookedOnce, FaultInv
<1>8. SentInv'
  BY SilentStep DEF Unregister
<1> QED
  BY <1>5, <1>6, <1>7, <1>8, ExportParts, PTL

LEMMA FinalizesKeeps ==
  ASSUME ExportInv, NEW c \in Conns, Finalizes(c)
  PROVE  ExportInv'
<1>1. DeathInv /\ TreeInv /\ HooksInv /\ LivesInv /\ FaultInv
  BY ExportParts
<1>2. /\ registrations' = [x \in Objects |-> Without(registrations[x], c)]
      /\ tree' = [at \in Places |-> IF at.conn = c THEN Nobody ELSE tree[at]]
      /\ open' = [open EXCEPT ![c] = FALSE]
      /\ UNCHANGED <<exported, object, weakRefs, hooks, life, fault>>
  BY DEF Finalizes
<1>3. ASSUME NEW x \in Objects
      PROVE  registrations[x] \in Seq(Places) /\ Without(registrations[x], c) \in Seq(Places)
  BY <1>1, WithoutItems DEF TreeInv
<1>4. registrations' \in [Objects -> Seq(Places)]
  BY <1>2, <1>3
<1>5. TreeInv'
  <2>1. \A at \in Places : tree[at] \in Objects \union {Nobody}
    BY <1>1 DEF TreeInv
  <2>2. tree' = [at \in Places |->
                   IF at.conn = c /\ tree[at] \in Objects THEN Nobody ELSE tree[at]]
    BY <1>2, <2>1
  <2>3. \A x \in Objects :
          registrations'[x] = IF x \in Objects THEN Without(registrations[x], c)
                              ELSE registrations[x]
    BY <1>2
  <2>4. Objects \in SUBSET Objects
    OBVIOUS
  <2> QED
    BY <1>1, <1>4, <2>2, <2>3, <2>4, TreeWithout
<1>6. LivesInv'
  <2>1. \A x \in Objects : registrations'[x] # <<>> => registrations[x] # <<>>
    BY <1>2, <1>3, WithoutEmpties
  <2>2. open' \in [Conns -> BOOLEAN]
    BY <1>1, <1>2, Zenon DEF LivesInv
  <2> QED
    BY <1>1, <1>2, <2>1, <2>2, LivesOn
<1>7. DeathInv' /\ HooksInv' /\ FaultInv'
  BY <1>1, <1>2, OthersWatch DEF HooksInv, HookedOnce, FaultInv
<1>8. SentInv'
  BY SilentStep DEF Finalizes
<1> QED
  BY <1>5, <1>6, <1>7, <1>8, ExportParts, PTL

\* A step of an object's life that is not its end.
LEMMA LifeGoesOn ==
  ASSUME LivesInv, NEW o \in Objects, NEW l \in {"alive", "disposing", "died"},
         life' = [life EXCEPT ![o] = l],
         open' = open,
         \A x \in Objects : registrations'[x] # <<>> =>
           registrations[x] # <<>> /\ object'[x] = object[x]
  PROVE  LivesInv'
<1>1. /\ life' \in [Objects -> {"alive", "disposing", "died", "finalized"}]
      /\ \A x \in Objects : x # o => life'[x] = life[x]
      /\ life'[o] # "finalized"
  BY DEF LivesInv
<1>2. \A x \in Objects : registrations[x] # <<>> => object[x] /\ life[x] # "finalized"
  BY Zenon DEF LivesInv, Anchored
<1>3. \A x \in Objects : registrations'[x] # <<>> => object'[x] /\ life'[x] # "finalized"
  BY <1>1, <1>2, Zenon
<1> QED
  BY <1>1, <1>3, Zenon DEF LivesInv, Anchored

LEMMA BeginsDisposeKeeps ==
  ASSUME ExportInv, NEW o \in Objects, BeginsDispose(o)
  PROVE  ExportInv'
<1>1. DeathInv /\ TreeInv /\ HooksInv /\ LivesInv /\ FaultInv
  BY ExportParts
<1>2. /\ life' = [life EXCEPT ![o] = "disposing"]
      /\ hooks' = [hooks EXCEPT ![o] = 0]
      /\ UNCHANGED <<exported, registrations, object, weakRefs, tree, open, fault>>
  BY DEF BeginsDispose
<1>3. LivesInv'
  BY <1>1, <1>2, LifeGoesOn
<1>4. HooksInv'
  BY <1>1, <1>2, HooksGo
<1>5. DeathInv' /\ TreeInv' /\ FaultInv'
  BY <1>1, <1>2, OthersWatch DEF TreeInv, TreeAgrees, FaultInv
<1>6. SentInv'
  BY SilentStep DEF BeginsDispose
<1> QED
  BY <1>3, <1>4, <1>5, <1>6, ExportParts, PTL

LEMMA NotifiesDeathKeeps ==
  ASSUME ExportInv, NEW o \in Objects, NotifiesDeath(o)
  PROVE  ExportInv'
<1>1. HooksInv /\ LivesInv /\ FaultInv
  BY ExportParts
<1>2. /\ life' = [life EXCEPT ![o] = "died"]
      /\ UNCHANGED <<exported, hooks, open>>
  BY DEF NotifiesDeath
<1>3. /\ DeathInv' /\ TreeInv' /\ fault' = fault
      /\ registrations'[o] = <<>>
      /\ \A x \in Objects :
           x # o => registrations'[x] = registrations[x] /\ object'[x] = object[x]
  BY DiedLeaves DEF NotifiesDeath
<1>4. LivesInv'
  <2>1. \A x \in Objects : registrations'[x] # <<>> =>
          registrations[x] # <<>> /\ object'[x] = object[x]
    BY <1>3
  <2> QED
    BY <1>1, <1>2, <2>1, LifeGoesOn
<1>5. HooksInv' /\ FaultInv'
  BY <1>1, <1>2, <1>3 DEF HooksInv, HookedOnce, FaultInv
<1>6. SentInv'
  BY SilentStep DEF NotifiesDeath
<1> QED
  BY <1>3, <1>4, <1>5, <1>6, ExportParts, PTL

LEMMA ResurrectedKeeps ==
  ASSUME ExportInv, NEW o \in Objects, Resurrected(o)
  PROVE  ExportInv'
<1>1. DeathInv /\ TreeInv /\ HooksInv /\ LivesInv /\ FaultInv
  BY ExportParts
<1>2. /\ life' = [life EXCEPT ![o] = "alive"]
      /\ UNCHANGED <<exported, registrations, object, weakRefs, hooks, tree, open, fault>>
  BY DEF Resurrected, exportVars
<1>3. LivesInv'
  BY <1>1, <1>2, LifeGoesOn
<1>4. DeathInv' /\ TreeInv' /\ HooksInv' /\ FaultInv'
  BY <1>1, <1>2, OthersWatch DEF TreeInv, TreeAgrees, HooksInv, HookedOnce, FaultInv
<1>5. SentInv'
  BY SilentStep DEF Resurrected
<1> QED
  BY <1>3, <1>4, <1>5, ExportParts, PTL

LEMMA FinalizesObjectKeeps ==
  ASSUME ExportInv, NEW o \in Objects, FinalizesObject(o)
  PROVE  ExportInv'
<1>1. HooksInv /\ LivesInv /\ FaultInv
  BY ExportParts
<1>2. /\ life' = [life EXCEPT ![o] = "finalized"]
      /\ exported' = [exported EXCEPT ![o] = FALSE]
      /\ hooks' = [hooks EXCEPT ![o] = 0]
      /\ open' = open
  BY DEF FinalizesObject
<1>3. /\ DeathInv' /\ TreeInv' /\ fault' = fault
      /\ registrations'[o] = <<>>
      /\ \A x \in Objects :
           x # o => registrations'[x] = registrations[x] /\ object'[x] = object[x]
  BY DiedLeaves DEF FinalizesObject
<1>4. LivesInv'
  <2>1. /\ life' \in [Objects -> {"alive", "disposing", "died", "finalized"}]
        /\ \A x \in Objects : x # o => life'[x] = life[x]
    BY <1>1, <1>2 DEF LivesInv
  <2>2. \A x \in Objects : registrations[x] # <<>> => object[x] /\ life[x] # "finalized"
    BY <1>1, Zenon DEF LivesInv, Anchored
  <2>3. \A x \in Objects : registrations'[x] # <<>> => object'[x] /\ life'[x] # "finalized"
    BY <1>3, <2>1, <2>2, Zenon
  <2> QED
    BY <1>1, <1>2, <2>1, <2>3, Zenon DEF LivesInv, Anchored
<1>5. HooksInv'
  BY <1>1, <1>2, HooksGo
<1>6. FaultInv'
  BY <1>1, <1>3 DEF FaultInv
<1>7. SentInv'
  BY SilentStep DEF FinalizesObject
<1> QED
  BY <1>3, <1>4, <1>5, <1>6, <1>7, ExportParts, PTL

\* What n handlers, one or none, send.
LEMMA SentByHandlers ==
  ASSUME NEW T, NEW s \in Seq(T), NEW n \in {0, 1}
  PROVE  FlattenSeq([k \in 1 .. n |-> s]) = IF n = 0 THEN <<>> ELSE s
<1> DEFINE seqs == [k \in 1 .. n |-> s]
<1>1. seqs \in Seq(Seq(T)) /\ Len(seqs) = n
  OBVIOUS
<1>2. CASE n = 0
  <2>1. seqs = <<>>
    BY <1>1, <1>2
  <2>2. FlattenSeq(seqs) = seqs
    BY <1>1, <1>2 DEF FlattenSeq
  <2> QED
    BY <1>2, <2>1, <2>2
<1>3. CASE n = 1
  <2> DEFINE Flat(f) == f = [i \in 1 .. Len(seqs) |->
                               IF i = 1 THEN seqs[i] ELSE f[i - 1] \o seqs[i]]
             f == CHOOSE g : Flat(g)
             g == [i \in 1 .. 1 |-> s]
  <2>1. 1 .. Len(seqs) = {1} /\ seqs[1] = s
    BY <1>1, <1>3
  <2>2. Flat(g)
    <3> DEFINE h == [i \in 1 .. Len(seqs) |->
                       IF i = 1 THEN seqs[i] ELSE g[i - 1] \o seqs[i]]
    <3>1. DOMAIN h = {1} /\ h[1] = s /\ h = [i \in {1} |-> h[i]]
      BY <2>1
    <3>2. DOMAIN g = {1} /\ g[1] = s /\ g = [i \in {1} |-> g[i]]
      OBVIOUS
    <3>3. g = h
      <4> HIDE DEF g, h
      <4> QED
        BY <3>1, <3>2
    <3> QED
      BY <3>3
  <2>3. Flat(f)
    <3> HIDE DEF Flat, g
    <3> QED
      BY <2>2
  <2>4. f[1] = s
    <3> HIDE DEF f
    <3> QED
      BY <2>1, <2>3
  <2>5. FlattenSeq(seqs) = f[Len(seqs)]
    BY <1>1, <1>3 DEF FlattenSeq
  <2> QED
    BY <1>1, <1>3, <2>4, <2>5
<1> QED
  BY <1>2, <1>3

LEMMA EmitKeeps ==
  ASSUME ExportInv, NEW o \in Objects, Emit(o)
  PROVE  ExportInv'
<1>1. DeathInv /\ TreeInv /\ HooksInv /\ LivesInv /\ FaultInv
  BY ExportParts
<1>2. /\ emitter' = o
      /\ sent' = FlattenSeq([k \in 1 .. hooks[o] |-> registrations[o]])
      /\ UNCHANGED <<exported, registrations, object, weakRefs, hooks, tree, life, open, fault>>
  BY DEF Emit, exportVars
<1>3. registrations[o] \in Seq(Places) /\ hooks[o] \in {0, 1} /\ o # Nobody
  BY <1>1, NobodyAssumption DEF TreeInv, HooksInv, HookedOnce
<1>4. sent' = IF hooks[o] = 0 THEN <<>> ELSE registrations[o]
  BY <1>2, <1>3, SentByHandlers
<1>5. sent' = <<>> \/ sent' = registrations'[emitter']
  BY <1>2, <1>4
<1>6. SentInv'
  <2>1. sent' \in Seq(Places)
    BY <1>3, <1>4
  <2>2. IsInjective(sent') /\ ToSet(sent') \subseteq ToSet(registrations'[emitter'])
    <3>1. CASE sent' = <<>>
      BY <3>1 DEF IsInjective, ToSet
    <3>2. CASE sent' = registrations'[emitter']
      <4>1. IsInjective(registrations[o])
        BY <1>1 DEF TreeInv, TreeAgrees
      <4> QED
        BY <1>2, <3>2, <4>1
    <3> QED
      BY <1>5, <3>1, <3>2
  <2> QED
    BY <1>2, <2>1, <2>2 DEF SentInv, SentOnce
<1>7. DeathInv' /\ TreeInv' /\ HooksInv' /\ LivesInv' /\ FaultInv'
  BY <1>1, <1>2, OthersWatch
  DEF TreeInv, TreeAgrees, HooksInv, HookedOnce, LivesInv, Anchored, FaultInv
<1> QED
  BY <1>6, <1>7, ExportParts, PTL

\* A message finds the object: what is in a tree is registered, and so watched.
LEMMA TreesWatched ==
  ASSUME ExportInv, NEW at \in Places, tree[at] # Nobody
  PROVE  tree[at] \in Objects /\ object[tree[at]] /\ life[tree[at]] # "finalized"
<1>1. TreeInv /\ LivesInv
  BY ExportParts
<1>2. PICK o \in Objects : tree[at] = o
  BY <1>1 DEF TreeInv
<1>3. Contains(registrations[o], at) /\ registrations[o] \in Seq(Places)
  BY <1>1, <1>2 DEF TreeInv, TreeAgrees
<1>4. registrations[o] # <<>>
  BY <1>3, EmptyList
<1> QED
  BY <1>1, <1>2, <1>4, Zenon DEF LivesInv, Anchored

LEMMA MessageKeeps ==
  ASSUME ExportInv, NEW at \in Places, Message(at)
  PROVE  ExportInv'
<1>1. DeathInv /\ TreeInv /\ HooksInv /\ LivesInv /\ FaultInv
  BY ExportParts
<1>2. UNCHANGED <<exported, registrations, object, weakRefs, hooks, tree, life, open>>
  BY DEF Message, exportVars
<1>3. fault' = "none"
  <2>1. object[tree[at]]
    BY TreesWatched DEF Message
  <2> QED
    BY <2>1, Zenon DEF Message
<1>4. DeathInv' /\ TreeInv' /\ HooksInv' /\ LivesInv' /\ FaultInv'
  BY <1>1, <1>2, <1>3, OthersWatch
  DEF TreeInv, TreeAgrees, HooksInv, HookedOnce, LivesInv, Anchored, FaultInv
<1>5. SentInv'
  BY SilentStep DEF Message
<1> QED
  BY <1>4, <1>5, ExportParts, PTL

LEMMA StutterKeeps ==
  ASSUME ExportInv, UNCHANGED vars
  PROVE  ExportInv'
<1>1. UNCHANGED <<exported, registrations, object, weakRefs, hooks, tree, life, open,
                  sent, emitter, fault>>
  BY DEF vars, exportVars
<1>2. DeathInv /\ TreeInv /\ HooksInv /\ LivesInv /\ FaultInv /\ SentInv
  BY ExportParts
<1>3. DeathInv' /\ TreeInv' /\ HooksInv' /\ LivesInv' /\ FaultInv' /\ SentInv'
  BY <1>1, <1>2, OthersWatch
  DEF TreeInv, TreeAgrees, HooksInv, HookedOnce, LivesInv, Anchored, FaultInv, SentInv, SentOnce
<1> QED
  BY <1>3, ExportParts, PTL

LEMMA InitExport ==
  ASSUME Init
  PROVE  ExportInv
<1>1. /\ \A x \in Objects : registrations[x] = <<>> /\ hooks[x] = 0
      /\ \A at \in Places : tree[at] = Nobody
      /\ \A x \in Objects : x # Nobody
  BY NobodyAssumption DEF Init
<1>2. DeathInv /\ HooksInv /\ FaultInv
  BY DEF Init, DeathInv, Watched, HooksInv, HookedOnce, FaultInv
<1>3. registrations \in [Objects -> Seq(Places)]
  <2>1. <<>> \in Seq(Places)
    OBVIOUS
  <2> QED
    BY <2>1 DEF Init
<1>4. TreeInv
  <2>1. tree \in [Places -> Objects \union {Nobody}]
    BY DEF Init
  <2>2. \A x \in Objects : IsInjective(registrations[x])
                           /\ \A at : ~Contains(registrations[x], at)
    BY <1>1, <1>3, EmptyList
  <2>3. TreeAgrees
    BY <1>1, <2>2, Zenon DEF TreeAgrees
  <2> QED
    BY <1>3, <2>1, <2>3 DEF TreeInv
<1>5. LivesInv
  <2>1. Anchored
    BY <1>1 DEF Anchored
  <2> QED
    BY <2>1 DEF Init, LivesInv
<1>6. SentInv
  <2>1. sent = <<>> /\ emitter = Nobody /\ <<>> \in Seq(Places)
    BY DEF Init
  <2> QED
    BY <2>1 DEF SentInv, SentOnce
<1> QED
  BY <1>2, <1>4, <1>5, <1>6, ExportParts

--------------------------------------------------------------------------------
(* The theorems *)

\* The lists of registrations, the trees of the connections, the weak references
\* and the handlers go together through every registration, dispose and close
\* (dbus-gobject.c).
THEOREM ExportInvariance == Spec => []ExportInv
<1>1. Init => ExportInv
  BY InitExport
<1>2. ExportInv /\ [Next]_vars => ExportInv'
  <2> SUFFICES ASSUME ExportInv, [Next]_vars PROVE ExportInv'
    OBVIOUS
  <2>1. ASSUME NEW o \in Objects, NEW at \in Places, Register(o, at) PROVE ExportInv'
    BY <2>1, RegisterKeeps
  <2>2. ASSUME NEW o \in Objects, NEW c \in Conns, Unregister(o, c) PROVE ExportInv'
    BY <2>2, UnregisterKeeps
  <2>3. ASSUME NEW c \in Conns, Finalizes(c) PROVE ExportInv'
    BY <2>3, FinalizesKeeps
  <2>4. ASSUME NEW o \in Objects, BeginsDispose(o) PROVE ExportInv'
    BY <2>4, BeginsDisposeKeeps
  <2>5. ASSUME NEW o \in Objects, NotifiesDeath(o) PROVE ExportInv'
    BY <2>5, NotifiesDeathKeeps
  <2>6. ASSUME NEW o \in Objects, Resurrected(o) PROVE ExportInv'
    BY <2>6, ResurrectedKeeps
  <2>7. ASSUME NEW o \in Objects, FinalizesObject(o) PROVE ExportInv'
    BY <2>7, FinalizesObjectKeeps
  <2>8. ASSUME NEW o \in Objects, Emit(o) PROVE ExportInv'
    BY <2>8, EmitKeeps
  <2>9. ASSUME NEW at \in Places, Message(at) PROVE ExportInv'
    BY <2>9, MessageKeeps
  <2>10. CASE UNCHANGED vars
    BY <2>10, StutterKeeps
  <2> QED
    BY <2>1, <2>2, <2>3, <2>4, <2>5, <2>6, <2>7, <2>8, <2>9, <2>10 DEF Next
<1> QED
  BY <1>1, <1>2, PTL DEF Spec

\* TypeOK: the state keeps its types.
THEOREM ExportTypes == Spec => []TypeOK
<1>1. ExportInv => TypeOK
  BY DEF ExportInv
<1> QED
  BY <1>1, ExportInvariance, PTL

\* TreeAgrees: an object is at a path exactly if its list says so, and once
\* (dbus_g_connection_register_g_object, object_registration_unregistered).
THEOREM TreeCorrect == Spec => []TreeAgrees
<1>1. ExportInv => TreeAgrees
  BY DEF ExportInv
<1> QED
  BY <1>1, ExportInvariance, PTL

\* NoDeadObject: object_registration_message finds the object of the path it is
\* called for, and dbus_g_connection_lookup_g_object returns it.
THEOREM LookupCorrect == Spec => []NoDeadObject
<1>1. ASSUME ExportInv PROVE NoDeadObject
  <2>1. fault # "message for a dead object"
    BY <1>1 DEF ExportInv
  <2>2. ASSUME NEW at \in Places, tree[at] # Nobody
        PROVE  LookupObject(at) = tree[at] /\ life[tree[at]] # "finalized"
    <3>1. object[tree[at]] /\ life[tree[at]] # "finalized"
      BY <1>1, <2>2, TreesWatched
    <3> QED
      BY <2>2, <3>1, Zenon DEF LookupObject
  <2> QED
    BY <2>1, <2>2 DEF NoDeadObject
<1> QED
  BY <1>1, ExportInvariance, PTL

\* SentOnce: signal_emitter_marshaller runs once for a signal, and sends it from
\* each place of the object and from no other.
THEOREM SignalsCorrect == Spec => []SentOnce
<1>1. ExportInv => SentOnce
  BY DEF ExportInv
<1> QED
  BY <1>1, ExportInvariance, PTL

\* The first item of a list is lost only by taking it off.
LEMMA FirstStays ==
  ASSUME ExportInv, [Next]_vars, NEW o \in Objects,
         registrations[o] # <<>>, registrations'[o] # <<>>,
         Contains(registrations'[o], Head(registrations[o])),
         registrations'[o] \in Seq(Places)
  PROVE  Head(registrations'[o]) = Head(registrations[o])
<1> DEFINE s == registrations[o]
           t == registrations'[o]
<1>1. registrations \in [Objects -> Seq(Places)] /\ s \in Seq(Places) /\ s[1] = Head(s)
  BY EmptyList DEF ExportInv, TypeOK
<1>2. t[1] = Head(t)
  BY EmptyList
<1>3. ASSUME NEW c, t = Without(s, c)
      PROVE  t[1] = s[1]
  <2>1. /\ \A x : Contains(t, x) <=> Contains(s, x) /\ x.conn # c
        /\ s # <<>> /\ s[1].conn # c => t[1] = s[1]
    <3> HIDE DEF s, t
    <3> QED
      BY <1>1, <1>3, WithoutItems
  <2> QED
    BY <1>1, <2>1
<1>4. ASSUME NEW x \in Objects, Died(x)
      PROVE  t = s
  <2>1. registrations'[x] = <<>> /\ \A y \in Objects : y # x => registrations'[y] = registrations[y]
    BY <1>4, DiedLeaves
  <2> QED
    BY <2>1
<1>5. ASSUME NEW x \in Objects, NEW at \in Places, Register(x, at)
      PROVE  t[1] = s[1]
  <2>1. CASE registrations' = registrations
    BY <2>1
  <2>2. CASE registrations' = [registrations EXCEPT ![x] = Listed(x, at)]
    <3>1. x # o => t = s
      BY <1>1, <2>2
    <3>2. x = o => t = Append(s, at)
      BY <1>1, <2>2 DEF Listed
    <3>3. Append(s, at)[1] = s[1]
      <4> HIDE DEF s
      <4> QED
        BY <1>1, AppendItem DEF s
    <3> QED
      BY <3>1, <3>2, <3>3
  <2> QED
    BY <1>5, <2>1, <2>2 DEF Register
<1>6. ASSUME NEW x \in Objects, NEW c \in Conns, Unregister(x, c)
      PROVE  t[1] = s[1]
  <2>1. registrations' = [registrations EXCEPT ![x] = Without(registrations[x], c)]
    BY <1>6 DEF Unregister
  <2>2. x # o => t = s
    BY <1>1, <2>1
  <2>3. x = o => t = Without(s, c)
    BY <1>1, <2>1
  <2> QED
    BY <1>3, <2>2, <2>3
<1>7. ASSUME NEW c \in Conns, Finalizes(c)
      PROVE  t[1] = s[1]
  <2>1. t = Without(s, c)
    BY <1>7 DEF Finalizes
  <2> QED
    BY <1>3, <2>1
<1>8. ASSUME NEW x \in Objects,
             \/ BeginsDispose(x) \/ NotifiesDeath(x) \/ Resurrected(x)
             \/ FinalizesObject(x) \/ Emit(x)
      PROVE  t[1] = s[1]
  <2>1. CASE NotifiesDeath(x) \/ FinalizesObject(x)
    BY <1>4, <2>1 DEF NotifiesDeath, FinalizesObject
  <2>2. CASE BeginsDispose(x) \/ Resurrected(x) \/ Emit(x)
    BY <2>2 DEF BeginsDispose, Resurrected, Emit, exportVars
  <2> QED
    BY <1>8, <2>1, <2>2
<1>9. ASSUME NEW at \in Places, Message(at)
      PROVE  t[1] = s[1]
  BY <1>9 DEF Message, exportVars
<1>10. CASE UNCHANGED vars
  BY <1>10 DEF vars, exportVars
<1>11. t[1] = s[1]
  <2>1. CASE Next
    BY <1>5, <1>6, <1>7, <1>8, <1>9, <2>1 DEF Next
  <2> QED
    BY <1>10, <2>1
<1> QED
  BY <1>1, <1>2, <1>11

\* PathStable: _dbus_gobject_get_path gives the same path until it is lost.
THEOREM PathCorrect == Spec => PathStable
<1>1. ASSUME ExportInv, ExportInv', [Next]_vars, NEW o \in Objects,
             HasPath(o), HasPath(o)', PathOf(o)' # PathOf(o)
      PROVE  tree'[PathOf(o)] # o
  <2>1. /\ registrations[o] # <<>> /\ registrations'[o] # <<>>
        /\ registrations[o] \in Seq(Places) /\ registrations'[o] \in Seq(Places)
    BY <1>1 DEF HasPath, ExportInv, TypeOK
  <2>2. Head(registrations'[o]) # Head(registrations[o]) /\ Head(registrations[o]) \in Places
    BY <1>1, <2>1, EmptyList DEF PathOf
  <2>3. ~Contains(registrations'[o], Head(registrations[o]))
    BY <1>1, <2>1, <2>2, FirstStays
  <2>4. \A at \in Places : tree'[at] = o <=> Contains(registrations'[o], at)
    BY <1>1 DEF ExportInv, TreeAgrees
  <2> QED
    BY <2>2, <2>3, <2>4 DEF PathOf
<1>2. ExportInv /\ ExportInv' /\ [Next]_vars =>
        [\A o \in Objects :
           HasPath(o) /\ HasPath(o)' /\ PathOf(o)' # PathOf(o) => tree'[PathOf(o)] # o]_vars
  BY <1>1
<1> QED
  BY <1>2, ExportInvariance, PTL DEF Spec, PathStable
================================================================================
