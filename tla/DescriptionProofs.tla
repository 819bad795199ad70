--------------------------- MODULE DescriptionProofs ----------------------------
(******************************************************************************)
(* The reader of introspection documents, for any tags and documents of any   *)
(* length: proofs over Description.                                           *)
(*                                                                            *)
(* It accepts an element exactly where the format has it.  What the elements  *)
(* of a document are for the format is told by the document alone (Around);   *)
(* what the parser decides by is its slots, its stack and two counters.  The  *)
(* invariant says that the two speak of the same open elements                *)
(* (ParserFollows), that these are the ones around the next element           *)
(* (OpenShape), and that they are nested as the format has it (Nested).       *)
(*                                                                            *)
(* What it builds is the tree of the document, and nothing of it is freed     *)
(* early or twice.  The invariant TreeInv says that the infos form a forest   *)
(* whose lists lead to later infos (Forest), that they are numbered as their  *)
(* elements are (Made), that the lists are those of the document (Lists) and  *)
(* that the parser's handles are the infos of the open elements (Following).  *)
(* From the forest follows that one release drops each info at most once, and *)
(* from that the counts (Held, Counted).                                      *)
(******************************************************************************)
EXTENDS DescriptionProps, FiniteSetTheorems, SequenceTheorems, Induction, TLAPS

--------------------------------------------------------------------------------
(* The elements around an element *)

\* Elements lie inside of earlier ones.
Backward(doc) == \A k \in 1 .. Len(doc) : doc[k].parent \in 0 .. k - 1

\* f tells, for the first m elements, what is around them.
Surrounds(doc, m, f) ==
  f = [k \in 0 .. m |-> IF k = 0 THEN {}
                        ELSE ({doc[k].parent} \ {0}) \union f[doc[k].parent]]

\* There is such a function: the recursive definition of Around has a meaning.
LEMMA SurroundsExists ==
  ASSUME NEW doc, Len(doc) \in Nat, Backward(doc)
  PROVE  \E f : Surrounds(doc, Len(doc), f)
<1> DEFINE S == {m \in Nat : m <= Len(doc) => \E f : Surrounds(doc, m, f)}
<1>1. 0 \in S
  <2>1. Surrounds(doc, 0, [k \in 0 .. 0 |-> {}])
    BY DEF Surrounds
  <2> QED
    BY <2>1
<1>2. ASSUME NEW m \in Nat, m \in S
      PROVE  m + 1 \in S
  <2> SUFFICES ASSUME m + 1 <= Len(doc)
               PROVE  \E f : Surrounds(doc, m + 1, f)
    OBVIOUS
  <2>1. PICK f : Surrounds(doc, m, f)
    BY <1>2
  <2> DEFINE p == doc[m + 1].parent
             x == ({p} \ {0}) \union f[p]
             g == [k \in 0 .. m + 1 |-> IF k = m + 1 THEN x ELSE f[k]]
             h == [k \in 0 .. m + 1 |-> IF k = 0 THEN {}
                                        ELSE ({doc[k].parent} \ {0}) \union g[doc[k].parent]]
  <2>2. ASSUME NEW k \in 0 .. m + 1
        PROVE  g[k] = h[k]
    <3>1. CASE k = m + 1
      <4>1. p \in 0 .. m
        BY DEF Backward
      <4>2. k # 0 /\ p \in 0 .. m + 1 /\ p # m + 1
        BY <3>1, <4>1
      <4>3. g[p] = f[p]
        BY <4>2
      <4>4. g[k] = x
        BY <3>1
      <4>5. h[k] = ({p} \ {0}) \union g[p]
        <5> HIDE DEF g
        <5> QED
          BY <3>1, <4>2
      <4> QED
        BY <4>3, <4>4, <4>5
    <3>2. CASE k # m + 1
      <4>1. k \in 0 .. m /\ (k # 0 => k \in 1 .. Len(doc))
        BY <3>2
      <4>2. k # 0 => doc[k].parent \in 0 .. m + 1 /\ doc[k].parent # m + 1
        BY <4>1 DEF Backward
      <4>3. f[k] = IF k = 0 THEN {}
                   ELSE ({doc[k].parent} \ {0}) \union f[doc[k].parent]
        BY <2>1, <4>1 DEF Surrounds
      <4>4. g[k] = f[k] /\ (k # 0 => g[doc[k].parent] = f[doc[k].parent])
        BY <3>2, <4>1, <4>2
      <4> HIDE DEF g
      <4> QED
        BY <4>3, <4>4
    <3> QED
      BY <3>1, <3>2
  <2>3. DOMAIN g = DOMAIN h /\ g = [k \in DOMAIN g |-> g[k]] /\ h = [k \in DOMAIN h |-> h[k]]
    OBVIOUS
  <2>4. g = h
    <3>1. DOMAIN g = 0 .. m + 1
      OBVIOUS
    <3> HIDE DEF g, h
    <3> QED
      BY <2>2, <2>3, <3>1
  <2>5. Surrounds(doc, m + 1, g)
    BY <2>4 DEF Surrounds
  <2> QED
    BY <2>5
<1>3. Len(doc) \in S
  <2> HIDE DEF S
  <2> QED
    BY <1>1, <1>2, SetInduction
<1> QED
  BY <1>3

\* What is around an element does not depend on what follows.
LEMMA SurroundsSame ==
  ASSUME NEW d, NEW e, Len(d) \in Nat, Len(e) \in Nat, Len(d) <= Len(e), Backward(d),
         \A k \in 1 .. Len(d) : e[k].parent = d[k].parent,
         NEW f, NEW g, Surrounds(d, Len(d), f), Surrounds(e, Len(e), g)
  PROVE  \A k \in 0 .. Len(d) : g[k] = f[k]
<1> DEFINE S == {k \in 0 .. Len(d) : g[k] # f[k]}
<1> SUFFICES ASSUME S # {} PROVE FALSE
  OBVIOUS
<1>1. PICK k \in S : \A j \in S : k <= j
  <2>1. S \subseteq Nat
    OBVIOUS
  <2> HIDE DEF S
  <2> QED
    BY <2>1, LeastNatural
<1>2. k \in 0 .. Len(d) /\ k \in 0 .. Len(e)
  BY <1>1
<1>3. /\ f[k] = IF k = 0 THEN {} ELSE ({d[k].parent} \ {0}) \union f[d[k].parent]
      /\ g[k] = IF k = 0 THEN {} ELSE ({e[k].parent} \ {0}) \union g[e[k].parent]
  BY <1>2 DEF Surrounds
<1>4. k # 0 => d[k].parent \in 0 .. Len(d) /\ d[k].parent < k /\ e[k].parent = d[k].parent
  BY <1>2 DEF Backward
<1>5. k # 0 => g[d[k].parent] = f[d[k].parent]
  <2>1. k # 0 => d[k].parent \notin S
    BY <1>1, <1>2, <1>4
  <2> QED
    BY <1>4, <2>1
<1> QED
  BY <1>1, <1>3, <1>4, <1>5

\* It lies before it.
LEMMA SurroundsEarlier ==
  ASSUME NEW d, Len(d) \in Nat, Backward(d), NEW f, Surrounds(d, Len(d), f)
  PROVE  \A k \in 0 .. Len(d) : f[k] \subseteq 1 .. k - 1
<1> DEFINE S == {k \in 0 .. Len(d) : ~(f[k] \subseteq 1 .. k - 1)}
<1> SUFFICES ASSUME S # {} PROVE FALSE
  OBVIOUS
<1>1. PICK k \in S : \A j \in S : k <= j
  <2>1. S \subseteq Nat
    OBVIOUS
  <2> HIDE DEF S
  <2> QED
    BY <2>1, LeastNatural
<1>2. k \in 0 .. Len(d) /\ ~(f[k] \subseteq 1 .. k - 1)
  BY <1>1
<1>3. f[k] = IF k = 0 THEN {} ELSE ({d[k].parent} \ {0}) \union f[d[k].parent]
  BY <1>2 DEF Surrounds
<1>4. k # 0
  BY <1>2, <1>3
<1>5. d[k].parent \in 0 .. k - 1
  BY <1>2, <1>4 DEF Backward
<1>6. f[d[k].parent] \subseteq 1 .. d[k].parent - 1
  <2>1. d[k].parent \notin S /\ d[k].parent \in 0 .. Len(d)
    BY <1>1, <1>2, <1>5
  <2> QED
    BY <2>1
<1>7. f[k] \subseteq 1 .. k - 1
  BY <1>3, <1>4, <1>5, <1>6
<1> QED
  BY <1>2, <1>7

DocumentShape ==
  /\ document \in Seq([tag : Tags, parent : Nat])
  /\ Backward(document)

Surrounded ==
  /\ Surrounds(document, Len(document), Around)
  /\ \A k \in 0 .. Len(document) : Around[k] \subseteq 1 .. k - 1
  /\ \A k \in 1 .. Len(document) :
       Around[k] = ({document[k].parent} \ {0}) \union Around[document[k].parent]

LEMMA AroundShape ==
  DocumentShape => Surrounded
<1> SUFFICES ASSUME DocumentShape PROVE Surrounded
  OBVIOUS
<1>1. Len(document) \in Nat /\ Backward(document)
  BY DEF DocumentShape
<1>2. Around = CHOOSE f : Surrounds(document, Len(document), f)
  BY DEF Around, Surrounds
<1>3. Surrounds(document, Len(document), Around)
  <2>1. \E f : Surrounds(document, Len(document), f)
    BY <1>1, SurroundsExists
  <2> QED
    BY <1>2, <2>1
<1>4. \A k \in 0 .. Len(document) : Around[k] \subseteq 1 .. k - 1
  <2> HIDE DEF Around
  <2> QED
    BY <1>1, <1>3, SurroundsEarlier
<1>5. \A k \in 1 .. Len(document) :
        Around[k] = ({document[k].parent} \ {0}) \union Around[document[k].parent]
  <2>1. \A k \in 1 .. Len(document) : k \in 0 .. Len(document) /\ k # 0
    BY <1>1
  <2> QED
    BY <1>3, <2>1 DEF Surrounds
<1> QED
  BY <1>3, <1>4, <1>5 DEF Surrounded

\* The greatest of some numbers.
LEMMA MaxUpTo ==
  ASSUME NEW n \in Nat, NEW S, S \subseteq 0 .. n, S # {}
  PROVE  Max(S) \in S /\ \A x \in S : x <= Max(S)
<1> DEFINE D == {n - x : x \in S}
<1>1. D \subseteq Nat /\ D # {}
  <2>1. \A x \in S : n - x \in Nat
    OBVIOUS
  <2>2. D # {}
    OBVIOUS
  <2> QED
    BY <2>1, <2>2
<1>2. PICK m \in D : \A d \in D : m <= d
  <2> HIDE DEF D
  <2> QED
    BY <1>1, LeastNatural
<1>3. PICK x \in S : m = n - x
  BY <1>2
<1>4. \A y \in S : x >= y
  <2>1. \A y \in S : n - x <= n - y
    BY <1>2, <1>3
  <2> QED
    BY <2>1
<1>5. Max(S) \in S /\ \A y \in S : Max(S) >= y
  BY <1>4 DEF Max
<1> QED
  BY <1>5

\* The greatest of some positions.
LEMMA MaxIn ==
  ASSUME NEW n \in Nat, NEW S, S \subseteq 1 .. n, S # {}
  PROVE  Max(S) \in S /\ \A x \in S : x <= Max(S)
<1>1. S \subseteq 0 .. n
  OBVIOUS
<1> QED
  BY <1>1, MaxUpTo

\* What the format says of the elements there are does not change when another
\* one begins.
LEMMA OldPlaces ==
  ASSUME DocumentShape, DocumentShape', Len(document) <= Len(document'),
         \A j \in 1 .. Len(document) : document'[j] = document[j],
         NEW k \in 1 .. Len(document)
  PROVE  /\ Element(k)' = Element(k)
         /\ Around'[k] = Around[k]
         /\ WellPlaced(k)' <=> WellPlaced(k)
         /\ WellAttributed(k)' <=> WellAttributed(k)
<1> DEFINE n == Len(document)
<1>1. /\ n \in Nat /\ Len(document') \in Nat /\ n <= Len(document')
      /\ \A j \in 1 .. n : document'[j] = document[j]
  BY DEF DocumentShape
<1>2. Surrounded /\ Surrounded'
  BY AroundShape, PTL
<1>3. \A j \in 0 .. n : Around'[j] = Around[j]
  <2> HIDE DEF Around
  <2>1. n <= Len(document') /\ Backward(document)
    BY <1>1 DEF DocumentShape
  <2>2. \A j \in 1 .. n : document'[j].parent = document[j].parent
    BY <1>1
  <2>3. Surrounds(document, n, Around) /\ Surrounds(document', Len(document'), Around')
    BY <1>2 DEF Surrounded
  <2>4. Len(document') \in Nat
    BY <1>1
  <2>5. ASSUME NEW d, NEW x, NEW f, NEW g,
               d = document, x = document', f = Around, g = Around'
        PROVE  \A j \in 0 .. Len(d) : g[j] = f[j]
    <3>1. /\ Len(d) \in Nat /\ Len(x) \in Nat /\ Len(d) <= Len(x) /\ Backward(d)
          /\ \A j \in 1 .. Len(d) : x[j].parent = d[j].parent
          /\ Surrounds(d, Len(d), f) /\ Surrounds(x, Len(x), g)
      BY <1>1, <2>1, <2>2, <2>3, <2>4, <2>5
    <3> QED
      BY <3>1, SurroundsSame
  <2> QED
    BY <2>5
<1>4. Around[k] \subseteq 1 .. k - 1 /\ k \in 0 .. n
  BY <1>1, <1>2 DEF Surrounded
<1>5. \A j \in 1 .. n : Element(j)' = Element(j)
  BY <1>1 DEF Element
<1>6. Around'[k] = Around[k] /\ \A j \in Around[k] : j \in 1 .. n
  BY <1>1, <1>3, <1>4
<1> HIDE DEF Around
<1>7. Enclosing(k)' = Enclosing(k) /\ Enclosing(k) \in 0 .. n
  <2> DEFINE known == {p \in Around[k] : Element(p) \in Known}
  <2>1. known = {p \in Around'[k] : Element(p)' \in Known}
    BY <1>5, <1>6
  <2>2. Enclosing(k) = IF known = {} THEN 0 ELSE Max(known)
    BY DEF Enclosing
  <2>3. Enclosing(k)' = IF known = {} THEN 0 ELSE Max(known)
    BY <2>1 DEF Enclosing
  <2>4. known # {} => Max(known) \in 1 .. n
    <3>1. known \subseteq 1 .. n
      BY <1>6
    <3> HIDE DEF known
    <3> QED
      BY <1>1, <3>1, MaxIn
  <2> HIDE DEF known
  <2> QED
    BY <1>1, <2>2, <2>3, <2>4
<1>8. Within(k)' = Within(k)
  <2>1. Enclosing(k) # 0 => Enclosing(k) \in 1 .. n
    BY <1>1, <1>7
  <2> QED
    BY <1>5, <1>7, <2>1 DEF Within
<1>9. InForeign(k)' <=> InForeign(k)
  BY <1>5, <1>6 DEF InForeign
<1>10. Element(k)' = Element(k) /\ document'[k] = document[k]
  BY <1>1, <1>5
<1>11. WellPlaced(k)' <=> WellPlaced(k)
  BY <1>8, <1>9, <1>10 DEF WellPlaced
<1>12. WellAttributed(k)' <=> WellAttributed(k)
  BY <1>8, <1>10 DEF WellAttributed
<1> QED
  BY <1>6, <1>10, <1>11, <1>12

--------------------------------------------------------------------------------
(* The open elements *)

OpenOf(kind) == {p \in Range(open) : Element(p) = kind}
Has(kind) == OpenOf(kind) # {}
Free(kinds) == \A s \in kinds : ~Has(s)

\* An element of this kind may be open around one of kind in.
Fits(kind, in) ==
  CASE in = "node" -> kind = "node"
    [] in = "interface" -> kind = "node"
    [] in \in {"method", "signal", "property"} -> kind \in {"node", "interface"}
    [] in = "arg" -> kind \in {"node", "interface", "method", "signal"}
    [] in = "annotation" -> kind \in Known \ {"annotation"}
    [] OTHER -> FALSE

\* Each open element is inside of those opened before it, and of no others.
OpenShape ==
  /\ open \in Seq(1 .. Len(document))
  /\ \A j, k \in DOMAIN open : j < k => open[j] < open[k]
  /\ \A p \in Range(open) : Around[p] = {q \in Range(open) : q < p}

\* They are nested as the format has it.
Nested ==
  /\ \A p, q \in Range(open) :
       p < q /\ Element(p) \in Known /\ Element(q) \in Known => Fits(Element(p), Element(q))
  /\ Has("interface") => Has("node")
  /\ Has("method") \/ Has("signal") \/ Has("property") => Has("interface")
  /\ Has("arg") => Has("method") \/ Has("signal")
  /\ Has("annotation") => \E s \in Slots : Has(s)

\* The parser knows them by its slots, its stack and its counters.
ParserFollows ==
  /\ \A s \in Slots : parser[s] # 0 <=> Has(s)
  /\ parser.annotation <=> Has("annotation")
  /\ Len(parser.stack) = Cardinality(OpenOf("node"))
  /\ parser.foreign = Cardinality(OpenOf("x:y"))

\* The innermost of them that the format knows.
Outer ==
  LET known == {p \in Range(open) : Element(p) \in Known}
  IN  IF known = {} THEN "document" ELSE Element(Max(known))

LEMMA OpenPositions ==
  ASSUME OpenShape, DocumentShape
  PROVE  Range(open) \subseteq 1 .. Len(document) /\ Len(document) \in Nat
BY DEF OpenShape, DocumentShape, Range

LEMMA OuterInnermost ==
  ASSUME OpenShape, DocumentShape, Nested
  PROVE  /\ Outer \in Known \union {"document"}
         /\ Outer = "document" => \A kind \in Known : ~Has(kind)
         /\ Outer # "document" =>
              Has(Outer) /\ \A kind \in Known : Has(kind) => kind = Outer \/ Fits(kind, Outer)
<1> DEFINE known == {p \in Range(open) : Element(p) \in Known}
           m == Max(known)
<1>1. Range(open) \subseteq 1 .. Len(document) /\ Len(document) \in Nat
  BY OpenPositions
<1>2. \A kind \in Known : Has(kind) <=> \E p \in known : Element(p) = kind
  BY DEF Has, OpenOf
<1>3. "document" \notin Known
  BY DEF Known
<1>4. CASE known = {}
  <2>1. Outer = "document"
    BY <1>4 DEF Outer
  <2> QED
    BY <1>2, <1>4, <2>1
<1>5. CASE known # {}
  <2>1. m \in known /\ \A p \in known : p <= m
    <3>1. known \subseteq 1 .. Len(document)
      BY <1>1
    <3> HIDE DEF known
    <3> QED
      BY <1>1, <1>5, <3>1, MaxIn
  <2>2. Outer = Element(m) /\ Element(m) \in Known /\ m \in Range(open)
    BY <1>5, <2>1 DEF Outer
  <2>3. ASSUME NEW kind \in Known, Has(kind)
        PROVE  kind = Outer \/ Fits(kind, Outer)
    <3>1. PICK p \in known : Element(p) = kind
      BY <1>2, <2>3
    <3>2. p = m \/ p < m
      BY <1>1, <2>1, <3>1
    <3> QED
      BY <2>2, <3>1, <3>2 DEF Nested
  <2>4. Has(Outer)
    BY <1>2, <2>1, <2>2
  <2> QED
    BY <1>3, <2>2, <2>3, <2>4
<1> QED
  BY <1>4, <1>5

\* What the innermost open element is, told by what is open at all.
LEMMA OuterTells ==
  ASSUME OpenShape, DocumentShape, Nested
  PROVE  /\ Outer \in {"document", "node"} <=> Free(Slots) /\ ~Has("annotation")
         /\ Outer = "document" <=> Free(Slots) /\ ~Has("annotation") /\ ~Has("node")
         /\ Outer = "interface" <=>
              Has("interface") /\ Free(Slots \ {"interface"}) /\ ~Has("annotation")
         /\ Outer \in {"method", "signal"} <=>
              /\ Has("method") \/ Has("signal")
              /\ Free({"property", "arg"}) /\ ~Has("annotation")
         /\ Outer = "signal" => Has("signal")
         /\ Outer = "method" => ~Has("signal") /\ Has("method")
         /\ Outer \in {"interface", "method", "signal", "property", "arg"} <=>
              ~Free(Slots) /\ ~Has("annotation")
         /\ ~Free(Slots) => Has("node")
<1>1. /\ Outer \in Known \union {"document"}
      /\ Outer = "document" => \A kind \in Known : ~Has(kind)
      /\ Outer # "document" =>
           Has(Outer) /\ \A kind \in Known : Has(kind) => kind = Outer \/ Fits(kind, Outer)
  BY OuterInnermost
<1>2. /\ Has("interface") => Has("node")
      /\ Has("method") \/ Has("signal") \/ Has("property") => Has("interface")
      /\ Has("arg") => Has("method") \/ Has("signal")
      /\ Has("annotation") =>
           \/ Has("interface") \/ Has("method") \/ Has("signal")
           \/ Has("property") \/ Has("arg")
  BY DEF Nested, Slots
<1>3. /\ Free(Slots) <=> /\ ~Has("interface") /\ ~Has("method") /\ ~Has("signal")
                         /\ ~Has("property") /\ ~Has("arg")
      /\ Free(Slots \ {"interface"}) <=>
           ~Has("method") /\ ~Has("signal") /\ ~Has("property") /\ ~Has("arg")
      /\ Free({"property", "arg"}) <=> ~Has("property") /\ ~Has("arg")
  BY DEF Slots, Free
<1>4. CASE Outer = "document"
  <2>1. /\ ~Has("node") /\ ~Has("interface") /\ ~Has("method") /\ ~Has("signal")
        /\ ~Has("property") /\ ~Has("arg") /\ ~Has("annotation")
    BY <1>1, <1>4 DEF Known
  <2> QED
    BY <1>3, <1>4, <2>1
<1>5. CASE Outer # "document"
  <2>1. Has(Outer) /\ Outer \in Known
    BY <1>1, <1>5
  <2>2. /\ Has("node") => Outer = "node" \/ Fits("node", Outer)
        /\ Has("interface") => Outer = "interface" \/ Fits("interface", Outer)
        /\ Has("method") => Outer = "method" \/ Fits("method", Outer)
        /\ Has("signal") => Outer = "signal" \/ Fits("signal", Outer)
        /\ Has("property") => Outer = "property" \/ Fits("property", Outer)
        /\ Has("arg") => Outer = "arg" \/ Fits("arg", Outer)
        /\ Has("annotation") => Outer = "annotation" \/ Fits("annotation", Outer)
    BY <1>1, <1>5 DEF Known
  <2>3. \/ Outer = "node" \/ Outer = "interface" \/ Outer = "method" \/ Outer = "signal"
        \/ Outer = "property" \/ Outer = "arg" \/ Outer = "annotation"
    BY <2>1 DEF Known
  <2>4. CASE Outer = "node"
    <3>1. /\ Has("node") /\ ~Has("interface") /\ ~Has("method") /\ ~Has("signal")
          /\ ~Has("property") /\ ~Has("arg") /\ ~Has("annotation")
      BY <2>1, <2>2, <2>4 DEF Fits, Known
    <3> QED
      BY <1>2, <1>3, <2>4, <3>1
  <2>5. CASE Outer = "interface"
    <3>1. /\ Has("interface") /\ ~Has("method") /\ ~Has("signal")
          /\ ~Has("property") /\ ~Has("arg") /\ ~Has("annotation")
      BY <2>1, <2>2, <2>5 DEF Fits, Known
    <3> QED
      BY <1>2, <1>3, <2>5, <3>1
  <2>6. CASE Outer = "method"
    <3>1. /\ Has("method") /\ ~Has("signal") /\ ~Has("property")
          /\ ~Has("arg") /\ ~Has("annotation")
      BY <2>1, <2>2, <2>6 DEF Fits, Known
    <3> QED
      BY <1>2, <1>3, <2>6, <3>1
  <2>7. CASE Outer = "signal"
    <3>1. /\ Has("signal") /\ ~Has("method") /\ ~Has("property")
          /\ ~Has("arg") /\ ~Has("annotation")
      BY <2>1, <2>2, <2>7 DEF Fits, Known
    <3> QED
      BY <1>2, <1>3, <2>7, <3>1
  <2>8. CASE Outer = "property"
    <3>1. /\ Has("property") /\ ~Has("method") /\ ~Has("signal")
          /\ ~Has("arg") /\ ~Has("annotation")
      BY <2>1, <2>2, <2>8 DEF Fits, Known
    <3> QED
      BY <1>2, <1>3, <2>8, <3>1
  <2>9. CASE Outer = "arg"
    <3>1. Has("arg") /\ ~Has("property") /\ ~Has("annotation")
      BY <2>1, <2>2, <2>9 DEF Fits, Known
    <3> QED
      BY <1>2, <1>3, <2>9, <3>1
  <2>10. CASE Outer = "annotation"
    <3>1. Has("annotation")
      BY <2>1, <2>2, <2>10 DEF Fits, Known
    <3> QED
      BY <1>2, <1>3, <2>10, <3>1
  <2> QED
    BY <2>3, <2>4, <2>5, <2>6, <2>7, <2>8, <2>9, <2>10
<1> QED
  BY <1>4, <1>5

--------------------------------------------------------------------------------
(* A new element *)

\* What the invariant says while the document is accepted.
Sound == OpenShape /\ Nested /\ ParserFollows

\* The document and the open elements after expat_StartElementHandler.
LEMMA NewElement ==
  ASSUME DocumentShape, OpenShape, NEW tag \in Tags, Opens(tag)
  PROVE  /\ DocumentShape' /\ OpenShape'
         /\ Len(document) \in Nat /\ Len(document') = Len(document) + 1
         /\ document'[Len(document) + 1].tag = tag
         /\ Range(open)' = Range(open) \union {Len(document) + 1}
         /\ \A p \in Range(open) : p \in 1 .. Len(document) /\ Element(p)' = Element(p)
         /\ Around'[Len(document) + 1] = Range(open)
<1> DEFINE n == Len(document)
           parent == IF open = <<>> THEN 0 ELSE Last(open)
           e == [tag |-> tag, parent |-> parent]
<1>1. /\ document' = Append(document, e)
      /\ open' = Append(open, n + 1)
  BY DEF Opens
<1>2. /\ n \in Nat /\ document \in Seq([tag : Tags, parent : Nat])
      /\ open \in Seq(1 .. n) /\ DOMAIN open = 1 .. Len(open) /\ Len(open) \in Nat
      /\ \A k \in DOMAIN open : open[k] \in 1 .. n
  BY DEF DocumentShape, OpenShape
<1>3. parent \in 0 .. n
  <2>1. open # <<>> => Len(open) \in DOMAIN open
    BY <1>2
  <2> QED
    BY <1>2, <2>1 DEF Last
<1> HIDE DEF parent
<1>4. e \in [tag : Tags, parent : Nat] /\ e.parent = parent /\ e.tag = tag
  BY <1>2, <1>3
<1> HIDE DEF e
<1>5. /\ document' \in Seq([tag : Tags, parent : Nat])
      /\ Len(document') = n + 1
      /\ \A k \in 1 .. n : document'[k] = document[k]
      /\ document'[n + 1] = e
  BY <1>1, <1>2, <1>4
<1>6. DocumentShape'
  <2>1. \A k \in 1 .. n + 1 : k \in 1 .. n \/ k = n + 1
    BY <1>2
  <2>2. \A k \in 1 .. n : document[k].parent \in 0 .. k - 1
    BY DEF DocumentShape, Backward
  <2>3. ASSUME NEW k \in 1 .. n + 1
        PROVE  document'[k].parent \in 0 .. k - 1
    <3>1. CASE k \in 1 .. n
      BY <1>5, <2>2, <3>1
    <3>2. CASE k = n + 1
      <4>1. document'[k].parent = parent /\ k - 1 = n
        BY <1>2, <1>4, <1>5, <3>2
      <4> QED
        BY <1>3, <4>1
    <3> QED
      BY <2>1, <3>1, <3>2
  <2>4. Backward(document)'
    BY <1>5, <2>3 DEF Backward
  <2> QED
    BY <1>5, <2>4 DEF DocumentShape
<1>7. \A k \in 1 .. n : Element(k)' = Element(k) /\ Around'[k] = Around[k]
  <2>1. n <= Len(document')
    BY <1>2, <1>5
  <2> QED
    BY <1>5, <1>6, <2>1, OldPlaces
<1>8. /\ open' \in Seq(1 .. n + 1) /\ Len(open') = Len(open) + 1
      /\ DOMAIN open' = 1 .. Len(open) + 1
      /\ \A k \in 1 .. Len(open) : open'[k] = open[k]
      /\ open'[Len(open) + 1] = n + 1
  <2>1. 1 .. n \subseteq 1 .. n + 1 /\ n + 1 \in 1 .. n + 1
    BY <1>2
  <2>2. open \in Seq(1 .. n + 1)
    BY <1>2, <2>1
  <2> QED
    BY <1>1, <1>2, <2>1, <2>2
<1>9. Range(open)' = Range(open) \union {n + 1}
  <2>1. \A k : k \in DOMAIN open' <=> k \in DOMAIN open \/ k = Len(open) + 1
    BY <1>2, <1>8
  <2> QED
    BY <1>2, <1>8, <2>1 DEF Range
<1>10. \A p \in Range(open) : p \in 1 .. n
  BY <1>2 DEF Range
<1>11. Around'[n + 1] = Range(open)
  <2> HIDE DEF Around
  <2>1. Surrounded'
    BY <1>6, AroundShape, PTL
  <2>2. /\ Around'[n + 1] = ({parent} \ {0}) \union Around'[parent]
        /\ Around'[0] = {}
    <3>1. n + 1 \in 1 .. Len(document') /\ document'[n + 1].parent = parent
      BY <1>2, <1>4, <1>5
    <3>2. 0 \in 0 .. Len(document') /\ 1 .. 0 - 1 = {}
      BY <1>2, <1>5
    <3> QED
      BY <2>1, <3>1, <3>2 DEF Surrounded
  <2>3. CASE open = <<>>
    <3>1. parent = 0 /\ Range(open) = {}
      BY <2>3 DEF parent, Range
    <3> QED
      BY <2>2, <3>1
  <2>4. CASE open # <<>>
    <3>1. parent = open[Len(open)] /\ Len(open) \in DOMAIN open
      BY <1>2, <2>4 DEF parent, Last
    <3>2. parent \in Range(open) /\ parent \in 1 .. n
      BY <1>2, <3>1 DEF Range
    <3>3. \A p \in Range(open) : p = parent \/ p < parent
      <4>1. ASSUME NEW k \in DOMAIN open
            PROVE  open[k] = parent \/ open[k] < parent
        <5>1. k = Len(open) \/ k < Len(open)
          BY <1>2
        <5> QED
          BY <3>1, <5>1 DEF OpenShape
      <4> QED
        BY <4>1 DEF Range
    <3>4. Around[parent] = {q \in Range(open) : q < parent}
      BY <3>2 DEF OpenShape
    <3>5. Around'[parent] = Around[parent] /\ parent # 0
      BY <1>2, <1>7, <3>2
    <3> QED
      BY <1>10, <2>2, <3>2, <3>3, <3>4, <3>5
  <2> QED
    BY <2>3, <2>4
<1>12. OpenShape'
  <2> HIDE DEF Around
  <2>1. ASSUME NEW j \in DOMAIN open', NEW k \in DOMAIN open', j < k
        PROVE  open'[j] < open'[k]
    <3>1. j \in 1 .. Len(open)
      BY <1>2, <1>8, <2>1
    <3>2. CASE k \in 1 .. Len(open)
      BY <1>2, <1>8, <2>1, <3>1, <3>2 DEF OpenShape
    <3>3. CASE k = Len(open) + 1
      <4>1. open[j] \in 1 .. n
        BY <1>2, <3>1
      <4> QED
        BY <1>2, <1>8, <3>1, <3>3, <4>1
    <3> QED
      BY <1>2, <1>8, <3>2, <3>3
  <2>2. ASSUME NEW p \in Range(open)'
        PROVE  Around'[p] = {q \in Range(open)' : q < p}
    <3>1. CASE p \in Range(open)
      <4>1. p \in 1 .. n /\ ~(n + 1 < p)
        BY <1>2, <1>10, <3>1
      <4>2. Around'[p] = {q \in Range(open) : q < p}
        BY <1>7, <3>1, <4>1 DEF OpenShape
      <4> QED
        BY <1>9, <4>1, <4>2
    <3>2. CASE p = n + 1
      <4>1. \A q \in Range(open) : q < p
        BY <1>2, <1>10, <3>2
      <4>2. ~(n + 1 < n + 1)
        BY <1>2
      <4> QED
        BY <1>9, <1>11, <3>2, <4>1, <4>2
    <3> QED
      BY <1>9, <3>1, <3>2
  <2>3. (open \in Seq(1 .. Len(document)))'
    BY <1>5, <1>8
  <2> QED
    BY <2>1, <2>2, <2>3 DEF OpenShape
<1> QED
  BY <1>2, <1>4, <1>5, <1>6, <1>7, <1>9, <1>10, <1>11, <1>12

\* What the format has to say of the new element is said by what is open.
LEMMA NewPlace ==
  ASSUME DocumentShape, OpenShape, NEW tag \in Tags, Opens(tag),
         NEW k, k = Len(document) + 1
  PROVE  /\ document'[k].tag = tag /\ Element(k)' = tag.element
         /\ Within(k)' = Outer
         /\ InForeign(k)' <=> Has("x:y")
<1> DEFINE n == Len(document)
           known == {p \in Range(open) : Element(p) \in Known}
<1>1. /\ n \in Nat
      /\ document'[k].tag = tag
      /\ \A p \in Range(open) : p \in 1 .. n /\ Element(p)' = Element(p)
      /\ Around'[k] = Range(open)
  BY NewElement
<1> HIDE DEF Around
<1>2. Element(k)' = tag.element
  BY <1>1 DEF Element
<1>3. known = {p \in Around'[k] : Element(p)' \in Known}
  BY <1>1
<1>4. Enclosing(k)' = IF known = {} THEN 0 ELSE Max(known)
  BY <1>3 DEF Enclosing
<1>5. Outer = IF known = {} THEN "document" ELSE Element(Max(known))
  BY DEF Outer
<1>6. Within(k)' = Outer
  <2>1. CASE known = {}
    BY <1>4, <1>5, <2>1 DEF Within
  <2>2. CASE known # {}
    <3>1. known \subseteq 1 .. n
      BY <1>1
    <3>2. Max(known) \in known
      <4> HIDE DEF known
      <4> QED
        BY <1>1, <2>2, <3>1, MaxIn
    <3>3. PICK m \in known : m = Max(known)
      BY <3>2
    <3>4. m # 0 /\ Element(m)' = Element(m)
      BY <1>1
    <3>5. Enclosing(k)' = m /\ Outer = Element(m)
      BY <1>4, <1>5, <2>2, <3>3
    <3>6. Within(k)' = IF Enclosing(k)' = 0 THEN "document" ELSE Element(m)'
      BY <3>5 DEF Within, Element
    <3> QED
      BY <3>4, <3>5, <3>6
  <2> QED
    BY <2>1, <2>2
<1>7. InForeign(k)' <=> Has("x:y")
  BY <1>1 DEF InForeign, Has, OpenOf
<1> QED
  BY <1>1, <1>2, <1>6, <1>7

ParserShape ==
  /\ DOMAIN parser = {"stack", "annotation", "foreign", "result"} \union Slots
  /\ parser.stack \in Seq(Nat) /\ parser.foreign \in Nat /\ parser.annotation \in BOOLEAN

LEMMA OpenFinite ==
  ASSUME DocumentShape, OpenShape
  PROVE  \A kind : /\ IsFiniteSet(OpenOf(kind))
                   /\ Cardinality(OpenOf(kind)) \in Nat
                   /\ Cardinality(OpenOf(kind)) = 0 <=> ~Has(kind)
<1> TAKE kind
<1>1. Range(open) \subseteq 1 .. Len(document) /\ Len(document) \in Nat
  BY OpenPositions
<1>2. IsFiniteSet(1 .. Len(document))
  BY <1>1, FS_Interval
<1>3. OpenOf(kind) \in SUBSET (1 .. Len(document))
  BY <1>1 DEF OpenOf
<1>4. IsFiniteSet(OpenOf(kind))
  BY <1>2, <1>3, FS_Subset
<1> QED
  BY <1>4, FS_CardinalityType, FS_EmptySet DEF Has

\* What the guards of the parse functions ask the parser, asked of what is open.
LEMMA GuardsTell ==
  ASSUME DocumentShape, ParserShape, Sound
  PROVE  /\ \A kinds \in SUBSET Slots : Inside(kinds) <=> ~Free(kinds)
         /\ parser.annotation <=> Has("annotation")
         /\ parser.stack = <<>> <=> ~Has("node")
         /\ parser.foreign > 0 <=> Has("x:y")
<1>1. \A kind : /\ Cardinality(OpenOf(kind)) \in Nat
                /\ Cardinality(OpenOf(kind)) = 0 <=> ~Has(kind)
  BY OpenFinite DEF Sound
<1>2. ASSUME NEW kinds \in SUBSET Slots
      PROVE  Inside(kinds) <=> ~Free(kinds)
  BY DEF Sound, ParserFollows, Inside, Free
<1>3. parser.annotation <=> Has("annotation")
  BY DEF Sound, ParserFollows
<1>4. parser.stack = <<>> <=> ~Has("node")
  <2>1. parser.stack \in Seq(Nat)
    BY DEF ParserShape
  <2>2. Len(parser.stack) = Cardinality(OpenOf("node"))
    BY DEF Sound, ParserFollows
  <2>3. Cardinality(OpenOf("node")) = 0 <=> ~Has("node")
    BY <1>1
  <2>4. parser.stack = <<>> <=> Len(parser.stack) = 0
    BY <2>1
  <2> QED
    BY <2>2, <2>3, <2>4
<1>5. parser.foreign > 0 <=> Has("x:y")
  <2>1. parser.foreign = Cardinality(OpenOf("x:y"))
    BY DEF Sound, ParserFollows
  <2>2. Cardinality(OpenOf("x:y")) \in Nat /\ (Cardinality(OpenOf("x:y")) = 0 <=> ~Has("x:y"))
    BY <1>1
  <2>3. Cardinality(OpenOf("x:y")) > 0 <=> Cardinality(OpenOf("x:y")) # 0
    BY <2>2
  <2> QED
    BY <2>1, <2>2, <2>3
<1> QED
  BY <1>2, <1>3, <1>4, <1>5

\* An element of this kind may begin here.
Nests(kind) ==
  /\ kind \in Known => \A outer \in Known : Has(outer) => Fits(outer, kind)
  /\ kind = "interface" => Has("node")
  /\ kind \in {"method", "signal", "property"} => Has("interface")
  /\ kind = "arg" => Has("method") \/ Has("signal")
  /\ kind = "annotation" => ~Free(Slots)

\* The parser takes an element of this kind.
Takes(kind) ==
  /\ ParserShape'
  /\ \A s \in Slots : parser'[s] # 0 <=> parser[s] # 0 \/ s = kind
  /\ parser'.annotation <=> parser.annotation \/ kind = "annotation"
  /\ Len(parser'.stack) = Len(parser.stack) + (IF kind = "node" THEN 1 ELSE 0)
  /\ parser'.foreign = parser.foreign + (IF kind = "x:y" THEN 1 ELSE 0)

\* The format's judgement of an element at position k and the reader's agree.
Judges(tag, k) ==
  \/ /\ failed' = TRUE /\ ~(WellPlaced(k)' /\ WellAttributed(k)')
     /\ UNCHANGED <<parser, infos>>
  \/ /\ failed' = FALSE /\ WellPlaced(k)' /\ WellAttributed(k)'
     /\ Nests(tag.element) /\ Takes(tag.element)

\* A slot is filled.
LEMMA SlotTaken ==
  ASSUME ParserShape, NEW s \in Slots, NEW i \in Nat, i # 0,
         parser' = [parser EXCEPT ![s] = i]
  PROVE  Takes(s)
<1>1. /\ DOMAIN parser' = DOMAIN parser
      /\ parser'[s] = i
      /\ \A x \in DOMAIN parser : x # s => parser'[x] = parser[x]
  BY DEF ParserShape
<1>2. /\ s # "stack" /\ s # "foreign" /\ s # "annotation" /\ s # "node" /\ s # "x:y"
      /\ {"stack", "foreign", "annotation"} \subseteq DOMAIN parser
      /\ Slots \subseteq DOMAIN parser
  BY DEF ParserShape, Slots
<1>3. /\ parser'.stack = parser.stack /\ parser'.foreign = parser.foreign
      /\ parser'.annotation = parser.annotation
  BY <1>1, <1>2
<1>4. ParserShape'
  BY <1>1, <1>3 DEF ParserShape
<1>5. \A x \in Slots : parser'[x] # 0 <=> parser[x] # 0 \/ x = s
  BY <1>1, <1>2
<1>6. Len(parser.stack) \in Nat /\ parser.foreign \in Nat
  BY DEF ParserShape
<1> QED
  BY <1>2, <1>3, <1>4, <1>5, <1>6 DEF Takes

\* A node is pushed.
LEMMA NodeTaken ==
  ASSUME ParserShape, NEW i \in Nat, parser' = [parser EXCEPT !.stack = Append(parser.stack, i)]
  PROVE  Takes("node")
<1>1. /\ "stack" \in DOMAIN parser /\ {"foreign", "annotation"} \subseteq DOMAIN parser
      /\ Slots \subseteq DOMAIN parser
      /\ \A s \in Slots : s # "stack" /\ s # "node"
      /\ parser.stack \in Seq(Nat) /\ Len(parser.stack) \in Nat
      /\ parser.foreign \in Nat /\ parser.annotation \in BOOLEAN
  BY DEF ParserShape, Slots
<1>2. /\ DOMAIN parser' = DOMAIN parser
      /\ parser'.stack = Append(parser.stack, i)
      /\ \A x \in DOMAIN parser : x # "stack" => parser'[x] = parser[x]
  BY <1>1
<1>3. parser'.stack \in Seq(Nat) /\ Len(parser'.stack) = Len(parser.stack) + 1
  BY <1>1, <1>2
<1>4. /\ parser'.foreign = parser.foreign /\ parser'.annotation = parser.annotation
      /\ \A s \in Slots : parser'[s] = parser[s]
  BY <1>1, <1>2
<1>5. ParserShape'
  BY <1>1, <1>2, <1>3, <1>4 DEF ParserShape
<1>6. \A s \in Slots : parser'[s] # 0 <=> parser[s] # 0 \/ s = "node"
  BY <1>1, <1>4
<1> QED
  BY <1>1, <1>3, <1>4, <1>5, <1>6 DEF Takes

\* An annotation begins.
LEMMA AnnotationTaken ==
  ASSUME ParserShape, parser' = [parser EXCEPT !.annotation = TRUE]
  PROVE  Takes("annotation")
<1>1. /\ "annotation" \in DOMAIN parser /\ {"foreign", "stack"} \subseteq DOMAIN parser
      /\ Slots \subseteq DOMAIN parser
      /\ \A s \in Slots : s # "annotation"
      /\ parser.stack \in Seq(Nat) /\ Len(parser.stack) \in Nat
      /\ parser.foreign \in Nat
  BY DEF ParserShape, Slots
<1>2. /\ DOMAIN parser' = DOMAIN parser
      /\ parser'.annotation = TRUE
      /\ \A x \in DOMAIN parser : x # "annotation" => parser'[x] = parser[x]
  BY <1>1
<1>3. /\ parser'.foreign = parser.foreign /\ parser'.stack = parser.stack
      /\ \A s \in Slots : parser'[s] = parser[s]
  BY <1>1, <1>2
<1>4. ParserShape'
  BY <1>1, <1>2, <1>3 DEF ParserShape
<1>5. \A s \in Slots : parser'[s] # 0 <=> parser[s] # 0 \/ s = "annotation"
  BY <1>1, <1>3
<1> QED
  BY <1>1, <1>2, <1>3, <1>4, <1>5 DEF Takes

\* A foreign element is counted.
LEMMA ForeignTaken ==
  ASSUME ParserShape, parser' = [parser EXCEPT !.foreign = parser.foreign + 1]
  PROVE  Takes("x:y")
<1>1. /\ "foreign" \in DOMAIN parser /\ {"annotation", "stack"} \subseteq DOMAIN parser
      /\ Slots \subseteq DOMAIN parser
      /\ \A s \in Slots : s # "foreign" /\ s # "x:y"
      /\ parser.stack \in Seq(Nat) /\ Len(parser.stack) \in Nat
      /\ parser.foreign \in Nat /\ parser.annotation \in BOOLEAN
  BY DEF ParserShape, Slots
<1>2. /\ DOMAIN parser' = DOMAIN parser
      /\ parser'.foreign = parser.foreign + 1
      /\ \A x \in DOMAIN parser : x # "foreign" => parser'[x] = parser[x]
  BY <1>1
<1>3. /\ parser'.annotation = parser.annotation /\ parser'.stack = parser.stack
      /\ \A s \in Slots : parser'[s] = parser[s]
  BY <1>1, <1>2
<1>4. ParserShape'
  BY <1>1, <1>2, <1>3 DEF ParserShape
<1>5. \A s \in Slots : parser'[s] # 0 <=> parser[s] # 0 \/ s = "x:y"
  BY <1>1, <1>3
<1> QED
  BY <1>1, <1>2, <1>3, <1>4, <1>5 DEF Takes

\* Another element inside of a foreign one leaves the parser as it is.
LEMMA NothingTaken ==
  ASSUME ParserShape, parser' = parser, NEW kind, kind \notin Known, kind # "x:y"
  PROVE  Takes(kind)
<1>1. kind \notin Slots /\ kind # "node" /\ kind # "annotation"
  BY DEF Known, Slots
<1>2. ParserShape' /\ Len(parser.stack) \in Nat /\ parser.foreign \in Nat
  BY DEF ParserShape
<1> QED
  BY <1>1, <1>2 DEF Takes

--------------------------------------------------------------------------------
(* The infos are numbered as they are allocated *)

Numbered(all) == all \in Seq(Range(all))

LEMMA IsNumbered ==
  ASSUME NEW n \in Nat, NEW f, f = [k \in 1 .. n |-> f[k]]
  PROVE  Numbered(f)
<1>1. f \in [1 .. n -> Range(f)]
  BY DEF Range
<1>2. Seq(Range(f)) = UNION {[1 .. m -> Range(f)] : m \in Nat}
  BY SeqDef
<1> HIDE DEF Numbered
<1> QED
  BY <1>1, <1>2 DEF Numbered

LEMMA ExceptNumbered ==
  ASSUME NEW all, Numbered(all), NEW f, f = [k \in DOMAIN all |-> f[k]]
  PROVE  Numbered(f)
<1>1. Len(all) \in Nat /\ DOMAIN all = 1 .. Len(all)
  BY LenProperties DEF Numbered
<1> QED
  BY <1>1, IsNumbered

LEMMA AppendNumbered ==
  ASSUME NEW all, Numbered(all), NEW info
  PROVE  Numbered(Append(all, info))
<1> DEFINE f == Append(all, info)
<1>1. all \in Seq(Range(all) \union {info})
  <2>1. Len(all) \in Nat /\ all \in [1 .. Len(all) -> Range(all)]
    BY LenProperties DEF Numbered
  <2> QED
    BY <2>1, SeqDef
<1>2. f \in Seq(Range(all) \union {info}) /\ Len(f) = Len(all) + 1
  BY <1>1
<1>3. f = [k \in 1 .. Len(f) |-> f[k]] /\ Len(f) \in Nat
  BY <1>2, LenProperties
<1>4. Numbered(f)
  <2> HIDE DEF f
  <2> QED
    BY <1>3, IsNumbered
<1> QED
  BY <1>4

\* What is added to a list or as an annotation adds no info.
LEMMA AddedNumbered ==
  ASSUME NEW all, Numbered(all), NEW owner, NEW i, NEW tag
  PROVE  Numbered(Added(all, owner, i)) /\ Numbered(Owned(all, owner, i))
         /\ Numbered(Annotated(all, owner, tag))
<1>1. Numbered(Added(all, owner, i))
  <2> DEFINE f == Added(all, owner, i)
  <2>1. f = [k \in DOMAIN all |-> f[k]]
    BY DEF Added
  <2>2. Numbered(f)
    <3> HIDE DEF f
    <3> QED
      BY <2>1, ExceptNumbered
  <2> QED
    BY <2>2
<1>2. Numbered(Owned(all, owner, i))
  <2> DEFINE a == Added(all, owner, i)
             f == Owned(all, owner, i)
  <2> HIDE DEF a
  <2>1. f = [k \in DOMAIN a |-> f[k]]
    BY DEF Owned, a
  <2>2. Numbered(f)
    <3> HIDE DEF f
    <3>1. Numbered(a)
      BY <1>1 DEF a
    <3> QED
      BY <2>1, <3>1, ExceptNumbered
  <2> QED
    BY <2>2
<1>3. Numbered(Annotated(all, owner, tag))
  <2> DEFINE f == Annotated(all, owner, tag)
  <2>1. f = [k \in DOMAIN all |-> f[k]]
    BY DEF Annotated
  <2>2. Numbered(f)
    <3> HIDE DEF f
    <3> QED
      BY <2>1, ExceptNumbered
  <2> QED
    BY <2>2
<1> QED
  BY <1>1, <1>2, <1>3

--------------------------------------------------------------------------------
(* Each parse function judges as the format does *)

\* What is known where an element begins.
Begins(tag, k) ==
  /\ DocumentShape /\ ParserShape /\ Numbered(infos) /\ Sound /\ failed \in BOOLEAN
  /\ Opens(tag) /\ k = Len(document) + 1

LEMMA BeginFacts ==
  ASSUME NEW tag \in Tags, NEW k, Begins(tag, k)
  PROVE  /\ failed = FALSE /\ New \in Nat /\ New # 0
         /\ AttributesFine(tag) <=> tag.odd \notin {"unknown", "repeated"}
         /\ None \notin Paths /\ None \notin ValidNames /\ None \notin Signatures
         /\ document'[k].tag = tag /\ Element(k)' = tag.element
         /\ Within(k)' = Outer
         /\ InForeign(k)' <=> Has("x:y")
<1>1. failed = FALSE
  BY DEF Begins, Opens
<1>2. New \in Nat /\ New # 0
  BY LenProperties DEF Begins, Numbered, New
<1>3. AttributesFine(tag) <=> tag.odd \notin {"unknown", "repeated"}
  BY DescriptionAssumption DEF AttributesFine
<1>4. None \notin Paths /\ None \notin ValidNames /\ None \notin Signatures
  BY DescriptionAssumption
<1>5. /\ document'[k].tag = tag /\ Element(k)' = tag.element
      /\ Within(k)' = Outer
      /\ InForeign(k)' <=> Has("x:y")
  BY NewPlace DEF Begins, Sound
<1> QED
  BY <1>1, <1>2, <1>3, <1>4, <1>5

\* What the guards of the parse functions ask is where the element is.
LEMMA BeginGuards ==
  ASSUME NEW tag \in Tags, NEW k, Begins(tag, k)
  PROVE  /\ Outer \in {"document", "node"} <=> ~Inside(Slots) /\ ~parser.annotation
         /\ Outer = "document" =>  parser.stack = <<>>
         /\ Outer = "node" => parser.stack # <<>>
         /\ Outer = "interface" <=> MemberFits
         /\ Outer \in {"method", "signal"} <=>
              /\ parser.method # 0 \/ parser.signal # 0
              /\ ~Inside({"property", "arg"}) /\ ~parser.annotation
         /\ Outer = "signal" => parser.signal # 0
         /\ Outer = "method" => parser.signal = 0 /\ parser.method # 0
         /\ Outer \in {"interface", "method", "signal", "property", "arg"} <=>
              Inside(Slots) /\ ~parser.annotation
         /\ Inside(Slots) => parser.stack # <<>>
         /\ parser.stack = <<>> <=> ~Has("node")
         /\ parser.foreign > 0 <=> Has("x:y")
<1>1. /\ \A kinds \in SUBSET Slots : Inside(kinds) <=> ~Free(kinds)
      /\ parser.annotation <=> Has("annotation")
      /\ parser.stack = <<>> <=> ~Has("node")
      /\ parser.foreign > 0 <=> Has("x:y")
  BY GuardsTell DEF Begins
<1>2. /\ Inside(Slots) <=> ~Free(Slots)
      /\ Inside(Slots \ {"interface"}) <=> ~Free(Slots \ {"interface"})
      /\ Inside({"property", "arg"}) <=> ~Free({"property", "arg"})
  <2>1. {"property", "arg"} \in SUBSET Slots
    BY DEF Slots
  <2> QED
    BY <1>1, <2>1
<1>3. /\ parser["interface"] # 0 <=> Has("interface")
      /\ parser["method"] # 0 <=> Has("method")
      /\ parser["signal"] # 0 <=> Has("signal")
  BY DEF Begins, Sound, ParserFollows, Slots
<1>4. /\ Outer \in {"document", "node"} <=> Free(Slots) /\ ~Has("annotation")
      /\ Outer = "document" <=> Free(Slots) /\ ~Has("annotation") /\ ~Has("node")
      /\ Outer = "interface" <=>
           Has("interface") /\ Free(Slots \ {"interface"}) /\ ~Has("annotation")
      /\ Outer \in {"method", "signal"} <=>
           /\ Has("method") \/ Has("signal")
           /\ Free({"property", "arg"}) /\ ~Has("annotation")
      /\ Outer = "signal" => Has("signal")
      /\ Outer = "method" => ~Has("signal") /\ Has("method")
      /\ Outer \in {"interface", "method", "signal", "property", "arg"} <=>
           ~Free(Slots) /\ ~Has("annotation")
      /\ ~Free(Slots) => Has("node")
  BY OuterTells DEF Begins, Sound
<1>5. Has("interface") => ~Free(Slots)
  BY DEF Free, Slots
<1>6. Outer = "interface" <=> MemberFits
  BY <1>1, <1>2, <1>3, <1>4, <1>5 DEF MemberFits
<1>7. "document" # "node"
  OBVIOUS
<1> QED
  BY <1>1, <1>2, <1>3, <1>4, <1>6, <1>7

\* What is open where an element may begin.
LEMMA BeginNests ==
  ASSUME NEW tag \in Tags, NEW k, Begins(tag, k)
  PROVE  /\ Outer \in {"document", "node"} => Nests("node")
         /\ Outer = "node" => Nests("interface")
         /\ Outer = "interface" => Nests("method") /\ Nests("signal") /\ Nests("property")
         /\ Outer \in {"method", "signal"} => Nests("arg")
         /\ Outer \in {"interface", "method", "signal", "property", "arg"} => Nests("annotation")
<1>1. /\ Outer \in Known \union {"document"}
      /\ Outer = "document" => \A kind \in Known : ~Has(kind)
      /\ Outer # "document" =>
           Has(Outer) /\ \A kind \in Known : Has(kind) => kind = Outer \/ Fits(kind, Outer)
  BY OuterInnermost DEF Begins, Sound
<1>2. Outer \in {"document", "node"} => \A kind \in Known : Has(kind) => kind = "node"
  BY <1>1 DEF Fits
<1>3. Outer = "interface" => \A kind \in Known : Has(kind) => kind \in {"node", "interface"}
  BY <1>1 DEF Fits
<1>4. Outer \in {"method", "signal"} =>
        \A kind \in Known : Has(kind) => kind \in {"node", "interface", "method", "signal"}
  BY <1>1 DEF Fits
<1>5. Outer \in {"interface", "method", "signal", "property", "arg"} =>
        /\ \A kind \in Known : Has(kind) => kind \in Known \ {"annotation"}
        /\ ~Free(Slots)
  <2>1. Outer = "property" => \A kind \in Known : Has(kind) => kind \in {"property", "node", "interface"}
    BY <1>1 DEF Fits
  <2>2. Outer = "arg" => \A kind \in Known : Has(kind) => kind \in {"arg", "node", "interface", "method", "signal"}
    BY <1>1 DEF Fits
  <2>3. Outer \in Slots => ~Free(Slots)
    BY <1>1 DEF Slots, Free
  <2> QED
    BY <1>3, <1>4, <2>1, <2>2, <2>3 DEF Known, Slots
<1>6. Outer # "document" => Has(Outer)
  BY <1>1
<1>7. Outer \in {"document", "node"} => Nests("node")
  BY <1>2 DEF Nests, Fits
<1>8. Outer = "node" => Nests("interface")
  BY <1>2, <1>6 DEF Nests, Fits
<1>9. Outer = "interface" => Nests("method") /\ Nests("signal") /\ Nests("property")
  BY <1>3, <1>6 DEF Nests, Fits
<1>10. Outer \in {"method", "signal"} => Nests("arg")
  BY <1>4, <1>6 DEF Nests, Fits
<1>11. Outer \in {"interface", "method", "signal", "property", "arg"} => Nests("annotation")
  BY <1>5 DEF Nests, Fits
<1> QED
  BY <1>7, <1>8, <1>9, <1>10, <1>11

\* parse_node.
LEMMA NodeJudged ==
  ASSUME NEW tag \in Tags, NEW k, Begins(tag, k), StartNode(tag)
  PROVE  Judges(tag, k) /\ Numbered(infos)'
<1> DEFINE root == parser.stack = <<>>
           grown == Append(infos, NewInfo("node", tag))
           fits == /\ ~Inside(Slots) /\ ~parser.annotation
                   /\ AttributesFine(tag)
                   /\ IF root THEN tag.name \in Paths \union {None}
                      ELSE tag.name \notin Paths \union {None}
           newInfos == IF root THEN grown ELSE Added(grown, Last(parser.stack), New)
<1>1. /\ tag.element = "node"
      /\ IF fits THEN Accepts([parser EXCEPT !.stack = Append(parser.stack, New)], newInfos)
         ELSE Refuses
  BY DEF StartNode
<1>2. Numbered(newInfos)
  BY AppendNumbered, AddedNumbered DEF Begins
<1>3. fits <=> WellPlaced(k)' /\ WellAttributed(k)'
  <2>1. WellPlaced(k)' <=> Outer \in {"document", "node"}
    BY <1>1, BeginFacts DEF WellPlaced
  <2>2. WellAttributed(k)' <=>
          /\ tag.odd \notin {"unknown", "repeated"}
          /\ tag.name = None => Outer = "document"
          /\ tag.name # None => (tag.name \in Paths <=> Outer = "document")
    BY <1>1, BeginFacts DEF WellAttributed, Known
  <2>3. /\ Outer \in {"document", "node"} <=> ~Inside(Slots) /\ ~parser.annotation
        /\ Outer = "document" => root
        /\ Outer = "node" => ~root
    BY BeginGuards
  <2>4. /\ AttributesFine(tag) <=> tag.odd \notin {"unknown", "repeated"}
        /\ None \notin Paths
    BY BeginFacts
  <2> QED
    BY <2>1, <2>2, <2>3, <2>4
<1> HIDE DEF newInfos, fits
<1>4. CASE fits
  <2>1. parser' = [parser EXCEPT !.stack = Append(parser.stack, New)] /\ infos' = newInfos
        /\ failed' = FALSE
    BY <1>1, <1>4, BeginFacts DEF Accepts
  <2>2. Takes("node")
    BY <2>1, NodeTaken, BeginFacts DEF Begins
  <2>3. Nests("node")
    BY <1>1, <1>3, <1>4, BeginFacts, BeginNests DEF WellPlaced
  <2> QED
    BY <1>1, <1>2, <1>3, <1>4, <2>1, <2>2, <2>3 DEF Judges
<1>5. CASE ~fits
  BY <1>1, <1>3, <1>5 DEF Refuses, Judges, Begins
<1> QED
  BY <1>4, <1>5

\* parse_interface.
LEMMA InterfaceJudged ==
  ASSUME NEW tag \in Tags, NEW k, Begins(tag, k), StartInterface(tag)
  PROVE  Judges(tag, k) /\ Numbered(infos)'
<1> DEFINE grown == Append(infos, NewInfo("interface", tag))
           fits == /\ ~Inside(Slots) /\ ~parser.annotation /\ parser.stack # <<>>
                   /\ AttributesFine(tag) /\ tag.name \in ValidNames
           newInfos == Owned(grown, Last(parser.stack), New)
<1>1. /\ tag.element = "interface"
      /\ IF fits THEN Accepts([parser EXCEPT !.interface = New], newInfos) ELSE Refuses
  BY DEF StartInterface
<1>2. Numbered(newInfos)
  BY AppendNumbered, AddedNumbered DEF Begins
<1>3. fits <=> WellPlaced(k)' /\ WellAttributed(k)'
  <2>1. WellPlaced(k)' <=> Outer = "node"
    BY <1>1, BeginFacts DEF WellPlaced
  <2>2. WellAttributed(k)' <=>
          tag.odd \notin {"unknown", "repeated"} /\ tag.name \in ValidNames
    BY <1>1, BeginFacts DEF WellAttributed, Known
  <2>3. /\ Outer \in {"document", "node"} <=> ~Inside(Slots) /\ ~parser.annotation
        /\ Outer = "document" => parser.stack = <<>>
        /\ Outer = "node" => parser.stack # <<>>
    BY BeginGuards
  <2>4. AttributesFine(tag) <=> tag.odd \notin {"unknown", "repeated"}
    BY BeginFacts
  <2> QED
    BY <2>1, <2>2, <2>3, <2>4
<1> HIDE DEF newInfos, fits
<1>4. CASE fits
  <2>1. parser' = [parser EXCEPT !["interface"] = New] /\ infos' = newInfos /\ failed' = FALSE
    BY <1>1, <1>4, BeginFacts DEF Accepts
  <2>2. "interface" \in Slots
    BY DEF Slots
  <2>3. Takes("interface")
    BY <2>1, <2>2, SlotTaken, BeginFacts DEF Begins
  <2>4. Nests("interface")
    BY <1>1, <1>3, <1>4, BeginFacts, BeginNests DEF WellPlaced
  <2> QED
    BY <1>1, <1>2, <1>3, <1>4, <2>1, <2>3, <2>4 DEF Judges
<1>5. CASE ~fits
  BY <1>1, <1>3, <1>5 DEF Refuses, Judges, Begins
<1> QED
  BY <1>4, <1>5

\* parse_method, parse_signal.
LEMMA MemberJudged ==
  ASSUME NEW tag \in Tags, NEW k, Begins(tag, k), StartMember(tag)
  PROVE  Judges(tag, k) /\ Numbered(infos)'
<1> DEFINE kind == tag.element
           grown == Append(infos, NewInfo(tag.element, tag))
           fits == MemberFits /\ AttributesFine(tag) /\ tag.name \in ValidNames
           newInfos == Owned(grown, parser.interface, New)
<1>1. /\ kind \in {"method", "signal"}
      /\ IF fits THEN Accepts([parser EXCEPT ![kind] = New], newInfos) ELSE Refuses
  BY DEF StartMember
<1>2. Numbered(newInfos)
  BY AppendNumbered, AddedNumbered DEF Begins
<1>3. WellPlaced(k)' <=> Outer = "interface"
  BY <1>1, BeginFacts DEF WellPlaced
<1>4. fits <=> WellPlaced(k)' /\ WellAttributed(k)'
  <2>1. WellAttributed(k)' <=>
          tag.odd \notin {"unknown", "repeated"} /\ tag.name \in ValidNames
    BY <1>1, BeginFacts DEF WellAttributed, Known
  <2>2. Outer = "interface" <=> MemberFits
    BY BeginGuards
  <2>3. AttributesFine(tag) <=> tag.odd \notin {"unknown", "repeated"}
    BY BeginFacts
  <2> QED
    BY <1>3, <2>1, <2>2, <2>3
<1> HIDE DEF newInfos, fits
<1>5. CASE fits
  <2>1. parser' = [parser EXCEPT ![kind] = New] /\ infos' = newInfos /\ failed' = FALSE
    BY <1>1, <1>5, BeginFacts DEF Accepts
  <2>2. kind \in Slots
    BY <1>1 DEF Slots
  <2>3. Takes(kind)
    <3> HIDE DEF kind
    <3> QED
      BY <2>1, <2>2, SlotTaken, BeginFacts DEF Begins
  <2>4. Nests(kind)
    BY <1>1, <1>3, <1>4, <1>5, BeginNests
  <2> QED
    BY <1>1, <1>2, <1>4, <1>5, <2>1, <2>3, <2>4 DEF Judges
<1>6. CASE ~fits
  BY <1>1, <1>4, <1>6 DEF Refuses, Judges, Begins
<1> QED
  BY <1>5, <1>6

\* parse_property.
LEMMA PropertyJudged ==
  ASSUME NEW tag \in Tags, NEW k, Begins(tag, k), StartProperty(tag)
  PROVE  Judges(tag, k) /\ Numbered(infos)'
<1> DEFINE grown == Append(infos, NewInfo("property", tag))
           fits == /\ MemberFits /\ AttributesFine(tag)
                   /\ tag.name # None /\ tag.type \in Signatures
                   /\ tag.access \in {"read", "write", "readwrite"}
           newInfos == Owned(grown, parser.interface, New)
<1>1. /\ tag.element = "property"
      /\ IF fits THEN Accepts([parser EXCEPT !.property = New], newInfos) ELSE Refuses
  BY DEF StartProperty
<1>2. Numbered(newInfos)
  BY AppendNumbered, AddedNumbered DEF Begins
<1>3. WellPlaced(k)' <=> Outer = "interface"
  BY <1>1, BeginFacts DEF WellPlaced
<1>4. fits <=> WellPlaced(k)' /\ WellAttributed(k)'
  <2>1. WellAttributed(k)' <=>
          /\ tag.odd \notin {"unknown", "repeated"}
          /\ tag.name # None /\ tag.access \in {"read", "write", "readwrite"}
          /\ tag.type \in Signatures
    BY <1>1, BeginFacts DEF WellAttributed, Known
  <2>2. Outer = "interface" <=> MemberFits
    BY BeginGuards
  <2>3. AttributesFine(tag) <=> tag.odd \notin {"unknown", "repeated"}
    BY BeginFacts
  <2> QED
    BY <1>3, <2>1, <2>2, <2>3
<1> HIDE DEF newInfos, fits
<1>5. CASE fits
  <2>1. parser' = [parser EXCEPT !["property"] = New] /\ infos' = newInfos /\ failed' = FALSE
    BY <1>1, <1>5, BeginFacts DEF Accepts
  <2>2. "property" \in Slots
    BY DEF Slots
  <2>3. Takes("property")
    BY <2>1, <2>2, SlotTaken, BeginFacts DEF Begins
  <2>4. Nests("property")
    BY <1>3, <1>4, <1>5, BeginNests
  <2> QED
    BY <1>1, <1>2, <1>4, <1>5, <2>1, <2>3, <2>4 DEF Judges
<1>6. CASE ~fits
  BY <1>1, <1>4, <1>6 DEF Refuses, Judges, Begins
<1> QED
  BY <1>5, <1>6

\* parse_arg.
LEMMA ArgJudged ==
  ASSUME NEW tag \in Tags, NEW k, Begins(tag, k), StartArg(tag)
  PROVE  Judges(tag, k) /\ Numbered(infos)'
<1> DEFINE owner == IF parser.method # 0 THEN parser.method ELSE parser.signal
           natural == IF parser.method # 0 THEN "in" ELSE "out"
           direction == IF tag.direction = None THEN natural ELSE tag.direction
           name == IF tag.name # None THEN tag.name
                   ELSE "arg" \o ToString(Len(infos[owner].children))
           grown == Append(infos, [NewInfo("arg", tag) EXCEPT !.name = name,
                                                            !.direction = direction])
           fits == /\ owner # 0 /\ parser.stack # <<>>
                   /\ ~Inside({"property", "arg"}) /\ ~parser.annotation
                   /\ AttributesFine(tag) /\ tag.type \in Signatures
                   /\ direction \in (IF parser.signal # 0 THEN {"out"} ELSE {"in", "out"})
           newInfos == Owned(grown, owner, New)
<1>1. /\ tag.element = "arg"
      /\ IF fits THEN Accepts([parser EXCEPT !.arg = New], newInfos) ELSE Refuses
  BY DEF StartArg
<1>2. Numbered(newInfos)
  BY AppendNumbered, AddedNumbered DEF Begins
<1>3. WellPlaced(k)' <=> Outer \in {"method", "signal"}
  BY <1>1, BeginFacts DEF WellPlaced
<1>4. fits <=> WellPlaced(k)' /\ WellAttributed(k)'
  <2>1. WellAttributed(k)' <=>
          /\ tag.odd \notin {"unknown", "repeated"}
          /\ tag.type \in Signatures
          /\ tag.direction \in {None, "out"} \union
               (IF Outer = "signal" THEN {} ELSE {"in"})
    BY <1>1, BeginFacts DEF WellAttributed, Known
  <2>2. /\ Outer \in {"method", "signal"} <=>
              /\ parser.method # 0 \/ parser.signal # 0
              /\ ~Inside({"property", "arg"}) /\ ~parser.annotation
        /\ Outer = "signal" => parser.signal # 0
        /\ Outer = "method" => parser.signal = 0 /\ parser.method # 0
        /\ Outer = "signal" => parser.method = 0
        /\ Outer \in {"method", "signal"} => parser.stack # <<>>
    <3>1. Outer = "signal" => parser.method = 0
      <4>1. Outer = "signal" => ~Has("method")
        BY OuterInnermost DEF Begins, Sound, Fits, Known
      <4> QED
        BY <4>1 DEF Begins, Sound, ParserFollows, Slots
    <3>2. (parser.method # 0 \/ parser.signal # 0) => Inside(Slots)
      BY DEF Inside, Slots
    <3> QED
      BY <3>1, <3>2, BeginGuards
  <2>3. AttributesFine(tag) <=> tag.odd \notin {"unknown", "repeated"}
    BY BeginFacts
  <2>4. owner # 0 <=> parser.method # 0 \/ parser.signal # 0
    OBVIOUS
  <2>5. Outer \in {"method", "signal"} =>
          (direction \in (IF parser.signal # 0 THEN {"out"} ELSE {"in", "out"})
             <=> tag.direction \in {None, "out"} \union (IF Outer = "signal" THEN {} ELSE {"in"}))
    BY <2>2 DEF None
  <2> HIDE DEF owner, direction
  <2> QED
    BY <1>3, <2>1, <2>2, <2>3, <2>4, <2>5
<1> HIDE DEF newInfos, fits
<1>5. CASE fits
  <2>1. parser' = [parser EXCEPT !["arg"] = New] /\ infos' = newInfos /\ failed' = FALSE
    BY <1>1, <1>5, BeginFacts DEF Accepts
  <2>2. "arg" \in Slots
    BY DEF Slots
  <2>3. Takes("arg")
    BY <2>1, <2>2, SlotTaken, BeginFacts DEF Begins
  <2>4. Nests("arg")
    BY <1>3, <1>4, <1>5, BeginNests
  <2> QED
    BY <1>1, <1>2, <1>4, <1>5, <2>1, <2>3, <2>4 DEF Judges
<1>6. CASE ~fits
  BY <1>1, <1>4, <1>6 DEF Refuses, Judges, Begins
<1> QED
  BY <1>5, <1>6

\* parse_annotation.
LEMMA AnnotationJudged ==
  ASSUME NEW tag \in Tags, NEW k, Begins(tag, k), StartAnnotation(tag)
  PROVE  Judges(tag, k) /\ Numbered(infos)'
<1> DEFINE fits == /\ Inside(Slots) /\ parser.stack # <<>> /\ ~parser.annotation
                   /\ AttributesFine(tag) /\ tag.name # None /\ tag.value # None
           newInfos == Annotated(infos, NoteOwner(parser), tag)
<1>1. /\ tag.element = "annotation"
      /\ IF fits THEN Accepts([parser EXCEPT !.annotation = TRUE], newInfos) ELSE Refuses
  BY DEF StartAnnotation
<1>2. Numbered(newInfos)
  BY AddedNumbered DEF Begins
<1>3. WellPlaced(k)' <=> Outer \in {"interface", "method", "signal", "property", "arg"}
  BY <1>1, BeginFacts DEF WellPlaced
<1>4. fits <=> WellPlaced(k)' /\ WellAttributed(k)'
  <2>1. WellAttributed(k)' <=>
          /\ tag.odd \notin {"unknown", "repeated"}
          /\ tag.name # None /\ tag.value # None
    BY <1>1, BeginFacts DEF WellAttributed, Known
  <2>2. /\ Outer \in {"interface", "method", "signal", "property", "arg"} <=>
              Inside(Slots) /\ ~parser.annotation
        /\ Inside(Slots) => parser.stack # <<>>
    BY BeginGuards
  <2>3. AttributesFine(tag) <=> tag.odd \notin {"unknown", "repeated"}
    BY BeginFacts
  <2> QED
    BY <1>3, <2>1, <2>2, <2>3
<1> HIDE DEF newInfos, fits
<1>5. CASE fits
  <2>1. parser' = [parser EXCEPT !.annotation = TRUE] /\ infos' = newInfos /\ failed' = FALSE
    BY <1>1, <1>5, BeginFacts DEF Accepts
  <2>2. Takes("annotation")
    BY <2>1, AnnotationTaken DEF Begins
  <2>3. Nests("annotation")
    BY <1>3, <1>4, <1>5, BeginNests
  <2> QED
    BY <1>1, <1>2, <1>4, <1>5, <2>1, <2>2, <2>3 DEF Judges
<1>6. CASE ~fits
  BY <1>1, <1>4, <1>6 DEF Refuses, Judges, Begins
<1> QED
  BY <1>5, <1>6

\* Elements of other formats.
LEMMA OtherJudged ==
  ASSUME NEW tag \in Tags, NEW k, Begins(tag, k), StartOther(tag)
  PROVE  Judges(tag, k) /\ Numbered(infos)'
<1> DEFINE kind == tag.element
<1>1. kind \notin Known
  BY DEF StartOther
<1>2. WellAttributed(k)'
  BY <1>1, BeginFacts DEF WellAttributed, Known
<1>3. WellPlaced(k)' <=> kind = "x:y" \/ Has("x:y")
  BY <1>1, BeginFacts DEF WellPlaced, Known
<1>4. parser.foreign > 0 <=> Has("x:y")
  BY BeginGuards
<1>5. Nests(kind)
  BY <1>1 DEF Nests, Known
<1>6. failed = FALSE /\ Numbered(infos) /\ ParserShape
  BY BeginFacts DEF Begins
<1>7. CASE kind = "x:y"
  <2>1. parser' = [parser EXCEPT !.foreign = parser.foreign + 1] /\ infos' = infos
        /\ failed' = FALSE
    BY <1>6, <1>7 DEF StartOther, Accepts
  <2>2. Takes(kind)
    BY <1>6, <1>7, <2>1, ForeignTaken
  <2> QED
    BY <1>2, <1>3, <1>5, <1>6, <1>7, <2>1, <2>2 DEF Judges
<1>8. CASE kind # "x:y" /\ Has("x:y")
  <2>1. parser' = parser /\ infos' = infos /\ failed' = FALSE
    BY <1>4, <1>6, <1>8 DEF StartOther, Accepts
  <2>2. Takes(kind)
    BY <1>1, <1>6, <1>8, <2>1, NothingTaken
  <2> QED
    BY <1>2, <1>3, <1>5, <1>6, <1>8, <2>1, <2>2 DEF Judges
<1>9. CASE kind # "x:y" /\ ~Has("x:y")
  <2>1. Refuses
    BY <1>4, <1>9 DEF StartOther
  <2> QED
    BY <1>3, <1>6, <1>9, <2>1 DEF Judges, Refuses
<1> QED
  BY <1>7, <1>8, <1>9

--------------------------------------------------------------------------------
(* Each step preserves the invariant *)

\* What is around the elements, what the format says of them, and so what was
\* decided about them, stays while the document does.
LEMMA SamePlaces ==
  ASSUME DocumentShape, document' = document
  PROVE  /\ DocumentShape'
         /\ \A k \in 1 .. Len(document) :
              /\ Element(k)' = Element(k) /\ Around'[k] = Around[k]
              /\ WellPlaced(k)' <=> WellPlaced(k)
              /\ WellAttributed(k)' <=> WellAttributed(k)
<1>1. DocumentShape'
  BY DEF DocumentShape
<1>2. Len(document) <= Len(document')
  BY DEF DocumentShape
<1> QED
  BY <1>1, <1>2, OldPlaces

LEMMA SamePlacesElements ==
  ASSUME DocumentShape, document' = document, failed' = failed, PlacesElements
  PROVE  PlacesElements'
<1>1. /\ DOMAIN document = 1 .. Len(document) /\ DOMAIN document' = DOMAIN document
      /\ Len(document') = Len(document)
  BY DEF DocumentShape
<1>2. \A k \in 1 .. Len(document) : /\ WellPlaced(k)' <=> WellPlaced(k)
                                    /\ WellAttributed(k)' <=> WellAttributed(k)
  BY SamePlaces
<1> QED
  BY <1>1, <1>2 DEF PlacesElements

LEMMA SameSound ==
  ASSUME DocumentShape, Sound, UNCHANGED <<document, open, parser>>
  PROVE  Sound'
<1>1. Range(open) \subseteq 1 .. Len(document) /\ Range(open)' = Range(open)
  BY OpenPositions DEF Sound
<1>2. \A p \in Range(open) : Element(p)' = Element(p) /\ Around'[p] = Around[p]
  BY <1>1, SamePlaces
<1> HIDE DEF Around
<1>3. OpenShape'
  BY <1>1, <1>2 DEF Sound, OpenShape
<1>4. \A kind : OpenOf(kind)' = OpenOf(kind) /\ (Has(kind)' <=> Has(kind))
  BY <1>1, <1>2 DEF OpenOf, Has
<1>5. Nested'
  BY <1>1, <1>2, <1>4 DEF Sound, Nested
<1>6. ParserFollows'
  BY <1>4 DEF Sound, ParserFollows
<1> QED
  BY <1>3, <1>5, <1>6 DEF Sound

\* An element that is accepted is open, and the parser knows of it.
LEMMA AcceptedSound ==
  ASSUME NEW tag \in Tags, NEW k, Begins(tag, k), Nests(tag.element), Takes(tag.element)
  PROVE  Sound'
<1> DEFINE kind == tag.element
<1>1. /\ OpenShape' /\ k = Len(document) + 1 /\ Len(document) \in Nat
      /\ Range(open)' = Range(open) \union {k}
      /\ \A p \in Range(open) : p \in 1 .. Len(document) /\ Element(p)' = Element(p)
      /\ Element(k)' = kind
  BY NewElement, NewPlace DEF Begins, Sound
<1>2. \A s : OpenOf(s)' = IF s = kind THEN OpenOf(s) \union {k} ELSE OpenOf(s)
  <2>1. ASSUME NEW s
        PROVE  \A p : p \in OpenOf(s)' <=> p \in OpenOf(s) \/ (p = k /\ s = kind)
    <3>1. \A p \in Range(open) : Element(p)' = s <=> Element(p) = s
      BY <1>1
    <3> QED
      BY <1>1, <3>1 DEF OpenOf
  <2> HIDE DEF kind
  <2> QED
    BY <2>1
<1>3. \A s : Has(s)' <=> Has(s) \/ s = kind
  BY <1>2 DEF Has
<1>4. /\ kind \in Known => \A outer \in Known : Has(outer) => Fits(outer, kind)
      /\ kind = "interface" => Has("node")
      /\ kind \in {"method", "signal", "property"} => Has("interface")
      /\ kind = "arg" => Has("method") \/ Has("signal")
      /\ kind = "annotation" => ~Free(Slots)
  BY DEF Nests
<1>5. Sound /\ DocumentShape
  BY DEF Begins
<1> HIDE DEF kind
<1>6. Nested'
  <2>1. ASSUME NEW p \in Range(open)', NEW q \in Range(open)', p < q,
               Element(p)' \in Known, Element(q)' \in Known
        PROVE  Fits(Element(p)', Element(q)')
    <3>1. p \in Range(open)
      <4>1. \A x \in Range(open) : ~(k < x)
        BY <1>1
      <4>2. ~(k < k)
        BY <1>1
      <4> QED
        BY <1>1, <2>1, <4>1, <4>2
    <3>2. CASE q \in Range(open)
      BY <1>1, <1>5, <2>1, <3>1, <3>2 DEF Sound, Nested
    <3>3. CASE q = k
      <4>1. Has(Element(p)) /\ Element(p)' = Element(p) /\ Element(q)' = kind
        BY <1>1, <3>1, <3>3 DEF Has, OpenOf
      <4> QED
        BY <1>4, <2>1, <4>1
    <3> QED
      BY <1>1, <3>2, <3>3
  <2>2. /\ Has("interface") => Has("node")
        /\ Has("method") \/ Has("signal") \/ Has("property") => Has("interface")
        /\ Has("arg") => Has("method") \/ Has("signal")
        /\ Has("annotation") => \E s \in Slots : Has(s)
    BY <1>5 DEF Sound, Nested
  <2>3. kind = "annotation" => \E s \in Slots : Has(s)
    BY <1>4 DEF Free
  <2>4. Has("annotation")' => \E s \in Slots : Has(s)'
    BY <1>3, <2>2, <2>3
  <2>5. /\ Has("interface")' => Has("node")'
        /\ Has("method")' \/ Has("signal")' \/ Has("property")' => Has("interface")'
        /\ Has("arg")' => Has("method")' \/ Has("signal")'
    BY <1>3, <1>4, <2>2
  <2> QED
    BY <2>1, <2>4, <2>5 DEF Nested, Element
<1>7. ParserFollows'
  <2>1. /\ \A s \in Slots : parser'[s] # 0 <=> parser[s] # 0 \/ s = kind
        /\ parser'.annotation <=> parser.annotation \/ kind = "annotation"
        /\ Len(parser'.stack) = Len(parser.stack) + (IF kind = "node" THEN 1 ELSE 0)
        /\ parser'.foreign = parser.foreign + (IF kind = "x:y" THEN 1 ELSE 0)
    BY DEF Takes, kind
  <2>2. /\ \A s \in Slots : parser[s] # 0 <=> Has(s)
        /\ parser.annotation <=> Has("annotation")
        /\ Len(parser.stack) = Cardinality(OpenOf("node"))
        /\ parser.foreign = Cardinality(OpenOf("x:y"))
    BY <1>5 DEF Sound, ParserFollows
  <2>3. \A s : Cardinality(OpenOf(s)') = Cardinality(OpenOf(s)) + (IF s = kind THEN 1 ELSE 0)
    <3>1. ASSUME NEW s
          PROVE  Cardinality(OpenOf(s)') = Cardinality(OpenOf(s)) + (IF s = kind THEN 1 ELSE 0)
      <4>1. IsFiniteSet(OpenOf(s)) /\ Cardinality(OpenOf(s)) \in Nat
        BY <1>5, OpenFinite DEF Sound
      <4>2. k \notin OpenOf(s)
        <5>1. k \notin Range(open)
          BY <1>1
        <5> QED
          BY <5>1 DEF OpenOf
      <4>3. Cardinality(OpenOf(s) \union {k}) = Cardinality(OpenOf(s)) + 1
        BY <4>1, <4>2, FS_AddElement
      <4>4. CASE s = kind
        BY <1>2, <4>3, <4>4
      <4>5. CASE s # kind
        <5>1. OpenOf(s)' = OpenOf(s)
          BY <1>2, <4>5
        <5> QED
          BY <4>1, <4>5, <5>1
      <4> QED
        BY <4>4, <4>5
    <3> QED
      BY <3>1
  <2>4. /\ Cardinality(OpenOf("node")') = Len(parser'.stack)
        /\ Cardinality(OpenOf("x:y")') = parser'.foreign
    BY <2>1, <2>2, <2>3
  <2>5. \A s \in Slots : parser'[s] # 0 <=> Has(s)'
    BY <1>3, <2>1, <2>2
  <2>6. parser'.annotation <=> Has("annotation")'
    BY <1>3, <2>1, <2>2
  <2> QED
    BY <2>4, <2>5, <2>6 DEF ParserFollows
<1> QED
  BY <1>1, <1>6, <1>7 DEF Sound

\* A new element and what the parser does with it.
LEMMA StartKeeps ==
  ASSUME NEW tag \in Tags, Start(tag), PlacesElements,
         DocumentShape, ParserShape, Numbered(infos), Sound, failed \in BOOLEAN
  PROVE  /\ DocumentShape' /\ ParserShape' /\ Numbered(infos)' /\ failed' \in BOOLEAN
         /\ failed' = FALSE => Sound'
         /\ PlacesElements'
<1> DEFINE n == Len(document)
<1>1. PICK k : k = n + 1
  OBVIOUS
<1>2. Opens(tag)
  BY DEF Start, StartNode, StartInterface, StartMember, StartProperty, StartArg,
         StartAnnotation, StartOther
<1>3. Begins(tag, k)
  BY <1>1, <1>2 DEF Begins
<1>4. Judges(tag, k) /\ Numbered(infos)'
  BY <1>3, NodeJudged, InterfaceJudged, MemberJudged, PropertyJudged, ArgJudged,
     AnnotationJudged, OtherJudged DEF Start
<1>5. DocumentShape' /\ Len(document') = k /\ n \in Nat
      /\ \A j \in 1 .. n : document'[j] = document[j]
  <2>1. DocumentShape' /\ Len(document') = k /\ n \in Nat
    BY <1>1, <1>2, NewElement DEF Sound
  <2>2. \A j \in 1 .. n : document'[j] = document[j]
    BY <1>2 DEF Opens, DocumentShape
  <2> QED
    BY <2>1, <2>2
<1>6. ParserShape' /\ failed' \in BOOLEAN
  BY <1>4 DEF Judges, Takes, ParserShape
<1>7. failed' = FALSE => Sound'
  BY <1>3, <1>4, AcceptedSound DEF Judges
<1>8. PlacesElements'
  <2>1. \A j \in 1 .. n : WellPlaced(j) /\ WellAttributed(j)
    <3>1. failed = FALSE
      BY <1>3, BeginFacts
    <3>2. DOMAIN document = 1 .. n
      BY DEF DocumentShape
    <3> QED
      BY <3>1, <3>2 DEF PlacesElements
  <2>2. n <= Len(document')
    BY <1>1, <1>5
  <2>3. \A j \in 1 .. n : WellPlaced(j)' /\ WellAttributed(j)'
    BY <1>5, <2>1, <2>2, OldPlaces
  <2>4. (WellPlaced(k)' /\ WellAttributed(k)') <=> ~failed'
    BY <1>4 DEF Judges
  <2>5. \A j \in DOMAIN document' : j \in 1 .. n \/ j = k
    BY <1>1, <1>5 DEF DocumentShape
  <2>6. ASSUME NEW j \in DOMAIN document'
        PROVE  (WellPlaced(j)' /\ WellAttributed(j)') <=> ~(failed' /\ j = Len(document'))
    <3>1. j \in 1 .. n => j # Len(document')
      BY <1>1, <1>5
    <3> QED
      BY <1>5, <2>3, <2>4, <2>5, <3>1
  <2> QED
    BY <2>6 DEF PlacesElements, WellPlaced, WellAttributed
<1> QED
  BY <1>4, <1>5, <1>6, <1>7, <1>8

\* The innermost open element ends.
LEMMA EndOpen ==
  ASSUME DocumentShape, Sound, open # <<>>, document' = document, open' = Front(open),
         NEW last, last = Last(open)
  PROVE  /\ last \in Range(open) /\ \A p \in Range(open) : p = last \/ p < last
         /\ Range(open)' = Range(open) \ {last}
         /\ OpenShape'
<1>1. /\ open \in Seq(1 .. Len(document)) /\ Len(document) \in Nat
      /\ DOMAIN open = 1 .. Len(open) /\ Len(open) \in Nat \ {0}
      /\ \A k \in 1 .. Len(open) : open[k] \in 1 .. Len(document)
      /\ last = open[Len(open)]
  <2>1. open \in Seq(1 .. Len(document)) /\ Len(document) \in Nat
    BY DEF Sound, OpenShape, DocumentShape
  <2>2. DOMAIN open = 1 .. Len(open) /\ Len(open) \in Nat \ {0}
    BY <2>1
  <2>3. \A k \in 1 .. Len(open) : open[k] \in 1 .. Len(document)
    BY <2>1
  <2>4. last = open[Len(open)]
    BY DEF Last
  <2> QED
    BY <2>1, <2>2, <2>3, <2>4
<1>2. \A j, k \in 1 .. Len(open) : j < k => open[j] < open[k]
  BY <1>1 DEF Sound, OpenShape
<1>3. /\ Len(open') = Len(open) - 1 /\ DOMAIN open' = 1 .. Len(open) - 1
      /\ \A k \in 1 .. Len(open) - 1 : open'[k] = open[k]
      /\ open' \in Seq(1 .. Len(document))
  BY <1>1 DEF Front
<1>4. last \in Range(open)
  BY <1>1 DEF Range
<1>5. \A p \in Range(open) : p = last \/ p < last
  <2>1. ASSUME NEW k \in 1 .. Len(open)
        PROVE  open[k] = last \/ open[k] < last
    <3>1. k = Len(open) \/ k < Len(open)
      <4>1. Len(open) \in Nat
        BY <1>1
      <4> QED
        BY <4>1
    <3>2. Len(open) \in 1 .. Len(open)
      BY <1>1
    <3>3. k < Len(open) => open[k] < open[Len(open)]
      BY <1>2, <3>2
    <3> QED
      BY <1>1, <3>1, <3>3
  <2>2. \A p \in Range(open) : \E k \in 1 .. Len(open) : p = open[k]
    BY <1>1 DEF Range
  <2> QED
    BY <2>1, <2>2
<1>6. Range(open)' = Range(open) \ {last}
  <2>1. ASSUME NEW k \in 1 .. Len(open) - 1
        PROVE  open'[k] \in Range(open) \ {last}
    <3>1. k \in 1 .. Len(open) /\ k < Len(open) /\ Len(open) \in 1 .. Len(open)
      BY <1>1
    <3>2. open[k] < last /\ open[k] \in 1 .. Len(document) /\ last \in 1 .. Len(document)
      BY <1>1, <1>2, <3>1
    <3>3. open[k] # last
      BY <3>2
    <3> QED
      BY <1>1, <1>3, <3>1, <3>3 DEF Range
  <2>2. ASSUME NEW p \in Range(open), p # last
        PROVE  p \in Range(open')
    <3>1. PICK k \in 1 .. Len(open) : p = open[k]
      BY <1>1 DEF Range
    <3>2. k \in 1 .. Len(open) - 1
      BY <1>1, <2>2, <3>1
    <3> QED
      BY <1>3, <3>1, <3>2 DEF Range
  <2>3. \A p \in Range(open') : \E k \in 1 .. Len(open) - 1 : p = open'[k]
    BY <1>3 DEF Range
  <2> QED
    BY <2>1, <2>2, <2>3
<1>7. OpenShape'
  <2>1. \A p \in Range(open) : p \in 1 .. Len(document)
    BY OpenPositions DEF Sound
  <2>2. \A p \in Range(open) : Around'[p] = Around[p]
    BY <2>1, SamePlaces
  <2> HIDE DEF Around
  <2>3. ASSUME NEW p \in Range(open)'
        PROVE  Around'[p] = {q \in Range(open)' : q < p}
    <3>1. p \in Range(open) /\ p < last /\ p \in Nat /\ last \in Nat
      BY <1>1, <1>4, <1>5, <1>6, <2>1
    <3>2. ~(last < p)
      BY <3>1
    <3>3. Around[p] = {q \in Range(open) : q < p}
      BY <3>1 DEF Sound, OpenShape
    <3> QED
      BY <1>6, <2>2, <3>1, <3>2, <3>3
  <2>4. ASSUME NEW j \in DOMAIN open', NEW k \in DOMAIN open', j < k
        PROVE  open'[j] < open'[k]
    <3>1. j \in 1 .. Len(open) - 1 /\ k \in 1 .. Len(open) - 1
      BY <1>3
    <3>2. j \in 1 .. Len(open) /\ k \in 1 .. Len(open)
      BY <1>1, <3>1
    <3> QED
      BY <1>2, <1>3, <2>4, <3>1, <3>2
  <2> QED
    BY <1>3, <2>3, <2>4 DEF OpenShape
<1> QED
  BY <1>4, <1>5, <1>6, <1>7

\* What the parser does with the end of an element of this kind.
Drops(kind) ==
  /\ ParserShape'
  /\ \A s \in Slots : parser'[s] # 0 <=> parser[s] # 0 /\ s # kind
  /\ parser'.annotation <=> parser.annotation /\ kind # "annotation"
  /\ Len(parser'.stack) = Len(parser.stack) - (IF kind = "node" THEN 1 ELSE 0)
  /\ parser'.foreign = parser.foreign - (IF kind = "x:y" THEN 1 ELSE 0)

LEMMA EndDrops ==
  ASSUME ParserShape, NEW kind, parser' = Closed(parser, kind),
         kind = "node" => parser.stack # <<>>,
         kind = "x:y" => parser.foreign # 0
  PROVE  Drops(kind)
<1>1. /\ DOMAIN parser = {"stack", "annotation", "foreign", "result"} \union Slots
      /\ parser.stack \in Seq(Nat) /\ Len(parser.stack) \in Nat
      /\ parser.foreign \in Nat /\ parser.annotation \in BOOLEAN
      /\ \A s \in Slots : s \notin {"stack", "annotation", "foreign", "result", "node", "x:y"}
  BY DEF ParserShape, Slots
<1>2. CASE kind \in Slots
  <2>1. parser' = [parser EXCEPT ![kind] = 0]
    BY <1>2 DEF Closed
  <2>2. /\ DOMAIN parser' = DOMAIN parser /\ parser'[kind] = 0
        /\ \A x \in DOMAIN parser : x # kind => parser'[x] = parser[x]
    BY <1>1, <1>2, <2>1
  <2>3. /\ parser'.stack = parser.stack /\ parser'.foreign = parser.foreign
        /\ parser'.annotation = parser.annotation
    BY <1>1, <1>2, <2>2
  <2>4. \A s \in Slots : parser'[s] # 0 <=> parser[s] # 0 /\ s # kind
    BY <1>1, <2>2
  <2>5. kind # "annotation" /\ kind # "node" /\ kind # "x:y"
    BY <1>1, <1>2
  <2>6. ParserShape'
    BY <1>1, <2>2, <2>3 DEF ParserShape
  <2> QED
    BY <1>1, <2>3, <2>4, <2>5, <2>6 DEF Drops
<1>3. CASE kind = "annotation"
  <2>1. parser' = [parser EXCEPT !.annotation = FALSE]
    BY <1>1, <1>3 DEF Closed
  <2>2. /\ DOMAIN parser' = DOMAIN parser /\ parser'.annotation = FALSE
        /\ \A x \in DOMAIN parser : x # "annotation" => parser'[x] = parser[x]
    BY <1>1, <2>1
  <2>3. /\ parser'.stack = parser.stack /\ parser'.foreign = parser.foreign
        /\ \A s \in Slots : parser'[s] = parser[s] /\ s # kind
    BY <1>1, <1>3, <2>2
  <2>4. ParserShape'
    BY <1>1, <2>2, <2>3 DEF ParserShape
  <2> QED
    BY <1>1, <1>3, <2>2, <2>3, <2>4 DEF Drops
<1>4. CASE kind = "node"
  <2> DEFINE result == IF Len(parser.stack) = 1 THEN parser.stack[1] ELSE parser.result
  <2>1. parser' = [parser EXCEPT !.stack = Front(parser.stack), !.result = result]
    BY <1>1, <1>4 DEF Closed
  <2> HIDE DEF result
  <2>2. /\ DOMAIN parser' = DOMAIN parser /\ parser'.stack = Front(parser.stack)
        /\ \A x \in DOMAIN parser : x # "stack" /\ x # "result" => parser'[x] = parser[x]
    BY <1>1, <2>1
  <2>3. /\ parser'.annotation = parser.annotation /\ parser'.foreign = parser.foreign
        /\ \A s \in Slots : parser'[s] = parser[s] /\ s # kind
    BY <1>1, <1>4, <2>2
  <2>4. parser'.stack \in Seq(Nat) /\ Len(parser'.stack) = Len(parser.stack) - 1
    <3>1. parser.stack # <<>> /\ Len(parser.stack) \in Nat \ {0}
      BY <1>1, <1>4
    <3>2. parser'.stack = SubSeq(parser.stack, 1, Len(parser.stack) - 1)
      BY <2>2 DEF Front
    <3>3. ASSUME NEW s \in Seq(Nat), Len(s) \in Nat \ {0}
          PROVE  SubSeq(s, 1, Len(s) - 1) \in Seq(Nat)
                 /\ Len(SubSeq(s, 1, Len(s) - 1)) = Len(s) - 1
      <4>1. PICK n \in Nat : n = Len(s) - 1
        BY <3>3
      <4>2. \A i \in 1 .. n : s[i] \in Nat
        <5>1. \A i \in 1 .. n : i \in 1 .. Len(s)
          BY <3>3, <4>1
        <5> QED
          BY <5>1, ElementOfSeq
      <4>3. SubSeq(s, 1, n) \in Seq(Nat) /\ Len(SubSeq(s, 1, n)) = IF 1 <= n THEN n - 1 + 1 ELSE 0
        BY <4>2, SubSeqProperties
      <4>4. (IF 1 <= n THEN n - 1 + 1 ELSE 0) = n
        OBVIOUS
      <4> QED
        BY <4>1, <4>3, <4>4
    <3> QED
      BY <1>1, <3>1, <3>2, <3>3
  <2>5. ParserShape'
    BY <1>1, <2>2, <2>3, <2>4 DEF ParserShape
  <2> QED
    BY <1>1, <1>4, <2>3, <2>4, <2>5 DEF Drops
<1>5. CASE kind = "x:y"
  <2>1. parser' = [parser EXCEPT !.foreign = parser.foreign - 1]
    BY <1>1, <1>5 DEF Closed
  <2>2. /\ DOMAIN parser' = DOMAIN parser /\ parser'.foreign = parser.foreign - 1
        /\ \A x \in DOMAIN parser : x # "foreign" => parser'[x] = parser[x]
    BY <1>1, <2>1
  <2>3. /\ parser'.stack = parser.stack /\ parser'.annotation = parser.annotation
        /\ \A s \in Slots : parser'[s] = parser[s] /\ s # kind
    BY <1>1, <1>5, <2>2
  <2>4. parser'.foreign \in Nat
    BY <1>1, <1>5, <2>2
  <2>5. ParserShape'
    BY <1>1, <2>2, <2>3, <2>4 DEF ParserShape
  <2> QED
    BY <1>1, <1>5, <2>2, <2>3, <2>5 DEF Drops
<1>6. CASE kind \notin Slots \union {"annotation", "node", "x:y"}
  <2>1. parser' = parser
    BY <1>6 DEF Closed
  <2>2. ParserShape'
    BY <2>1 DEF ParserShape
  <2> QED
    BY <1>1, <1>6, <2>1, <2>2 DEF Drops
<1> QED
  BY <1>2, <1>3, <1>4, <1>5, <1>6

LEMMA EndSound ==
  ASSUME DocumentShape, ParserShape, Sound, ~failed, End
  PROVE  ParserShape' /\ Sound'
<1>1. PICK last : last = Last(open)
  OBVIOUS
<1>2. open # <<>> /\ document' = document /\ open' = Front(open)
      /\ parser' = Closed(parser, Element(last))
  BY <1>1 DEF End, Element
<1>3. /\ last \in Range(open) /\ \A p \in Range(open) : p = last \/ p < last
      /\ Range(open)' = Range(open) \ {last}
      /\ OpenShape'
  BY <1>1, <1>2, EndOpen
<1>4. PICK kind : kind = Element(last)
  OBVIOUS
<1>5. \A p \in Range(open) : Element(p)' = Element(p)
  BY <1>2 DEF Element
<1>6. \A s : OpenOf(s)' = IF s = kind THEN OpenOf(s) \ {last} ELSE OpenOf(s)
  BY <1>3, <1>4, <1>5 DEF OpenOf
<1>7. last \in OpenOf(kind) /\ Has(kind)
  BY <1>3, <1>4 DEF OpenOf, Has
<1>8. Drops(kind)
  <2>1. kind = "node" => parser.stack # <<>>
    BY <1>7, GuardsTell
  <2>2. kind = "x:y" => parser.foreign # 0
    <3>1. parser.foreign > 0 <=> Has("x:y")
      BY GuardsTell
    <3> QED
      BY <1>7, <3>1
  <2> QED
    BY <1>2, <1>4, <2>1, <2>2, EndDrops
<1>9. \A s \in Known : Has(s)' /\ kind \in Known => Fits(s, kind)
  <2>1. ASSUME NEW s \in Known, Has(s)', kind \in Known
        PROVE  Fits(s, kind)
    <3>1. PICK p \in Range(open) : p # last /\ Element(p) = s
      BY <1>3, <1>5, <2>1 DEF Has, OpenOf
    <3>2. p < last
      BY <1>3, <3>1
    <3> QED
      BY <1>3, <1>4, <2>1, <3>1, <3>2 DEF Sound, Nested
  <2> QED
    BY <2>1
<1>10. \A s : /\ Has(s)' => Has(s)
              /\ Has(s) => Has(s)' \/ s = kind
  BY <1>6 DEF Has
<1>11. Nested'
  <2>1. ASSUME NEW p \in Range(open)', NEW q \in Range(open)', p < q,
               Element(p)' \in Known, Element(q)' \in Known
        PROVE  Fits(Element(p)', Element(q)')
    BY <1>3, <1>5, <2>1 DEF Sound, Nested
  <2>2. /\ Has("interface") => Has("node")
        /\ Has("method") \/ Has("signal") \/ Has("property") => Has("interface")
        /\ Has("arg") => Has("method") \/ Has("signal")
        /\ Has("annotation") => \E s \in Slots : Has(s)
    BY DEF Sound, Nested
  <2>3. Has("interface")' => Has("node")'
    <3>1. kind = "node" => ~Has("interface")'
      BY <1>9 DEF Known, Fits
    <3> QED
      BY <1>10, <2>2, <3>1
  <2>4. Has("method")' \/ Has("signal")' \/ Has("property")' => Has("interface")'
    <3>1. kind = "interface" => ~Has("method")' /\ ~Has("signal")' /\ ~Has("property")'
      BY <1>9 DEF Known, Fits
    <3> QED
      BY <1>10, <2>2, <3>1
  <2>5. Has("arg")' => Has("method")' \/ Has("signal")'
    <3>1. kind = "method" \/ kind = "signal" => ~Has("arg")'
      BY <1>9 DEF Known, Fits
    <3> QED
      BY <1>10, <2>2, <3>1
  <2>6. Has("annotation")' => \E s \in Slots : Has(s)'
    <3>1. kind \in Slots => ~Has("annotation")'
      BY <1>9 DEF Known, Slots, Fits
    <3> QED
      BY <1>10, <2>2, <3>1
  <2> QED
    BY <2>1, <2>3, <2>4, <2>5, <2>6 DEF Nested, Element
<1>12. ParserFollows'
  <2>1. /\ \A s \in Slots : parser'[s] # 0 <=> parser[s] # 0 /\ s # kind
        /\ parser'.annotation <=> parser.annotation /\ kind # "annotation"
        /\ Len(parser'.stack) = Len(parser.stack) - (IF kind = "node" THEN 1 ELSE 0)
        /\ parser'.foreign = parser.foreign - (IF kind = "x:y" THEN 1 ELSE 0)
    BY <1>8 DEF Drops
  <2>2. /\ \A s \in Slots : parser[s] # 0 <=> Has(s)
        /\ parser.annotation <=> Has("annotation")
        /\ Len(parser.stack) = Cardinality(OpenOf("node"))
        /\ parser.foreign = Cardinality(OpenOf("x:y"))
    BY DEF Sound, ParserFollows
  <2>3. ASSUME NEW s
        PROVE  Cardinality(OpenOf(s)') = Cardinality(OpenOf(s)) - (IF s = kind THEN 1 ELSE 0)
    <3>1. IsFiniteSet(OpenOf(s)) /\ Cardinality(OpenOf(s)) \in Nat
      BY OpenFinite DEF Sound
    <3>2. CASE s = kind
      <4>1. Cardinality(OpenOf(s) \ {last}) = Cardinality(OpenOf(s)) - 1
        BY <1>7, <3>1, <3>2, FS_RemoveElement
      <4> QED
        BY <1>6, <3>2, <4>1
    <3>3. CASE s # kind
      <4>1. OpenOf(s)' = OpenOf(s)
        BY <1>6, <3>3
      <4> QED
        BY <3>1, <3>3, <4>1
    <3> QED
      BY <3>2, <3>3
  <2>4. /\ Cardinality(OpenOf("node")') = Len(parser'.stack)
        /\ Cardinality(OpenOf("x:y")') = parser'.foreign
    BY <2>1, <2>2, <2>3
  <2>5. \A s \in Slots \union {"annotation"} : Has(s)' <=> Has(s) /\ s # kind
    <3>1. ASSUME NEW s \in Slots \union {"annotation"}, s = kind
          PROVE  ~Has(s)'
      <4>1. ~Fits(s, s) /\ s \in Known
        BY DEF Fits, Slots, Known
      <4> QED
        BY <1>9, <3>1, <4>1
    <3> QED
      BY <1>10, <3>1
  <2>6. \A s \in Slots : parser'[s] # 0 <=> Has(s)'
    BY <2>1, <2>2, <2>5
  <2>7. parser'.annotation <=> Has("annotation")'
    BY <2>1, <2>2, <2>5
  <2> QED
    BY <2>4, <2>6, <2>7 DEF ParserFollows
<1> QED
  BY <1>3, <1>8, <1>11, <1>12 DEF Sound, Drops

\* The reader's slots, stack and counters agree with the open elements as long as
\* the document is accepted, and what was accepted is what the format has.
PlacesInv ==
  /\ DocumentShape /\ ParserShape /\ failed \in BOOLEAN
  /\ phase = "reading" => Numbered(infos)
  /\ PlacesElements
  /\ ~failed => Sound

LEMMA PlacesInit ==
  Init => PlacesInv
<1> SUFFICES ASSUME Init PROVE PlacesInv
  OBVIOUS
<1>1. /\ document = <<>> /\ open = <<>> /\ infos = <<>> /\ parser = NewParser
      /\ failed = FALSE
  BY DEF Init
<1>2. DocumentShape
  BY <1>1 DEF DocumentShape, Backward
<1>3. ParserShape
  BY <1>1 DEF ParserShape, NewParser, Slots
<1>4. Numbered(infos)
  BY <1>1 DEF Numbered
<1>5. PlacesElements
  BY <1>1 DEF PlacesElements
<1>6. Range(open) = {}
  BY <1>1 DEF Range
<1>7. \A kind : OpenOf(kind) = {} /\ ~Has(kind)
  BY <1>6 DEF OpenOf, Has
<1>8. OpenShape
  BY <1>1, <1>6 DEF OpenShape
<1>9. Nested
  BY <1>6, <1>7 DEF Nested
<1>10. ParserFollows
  <2>1. Cardinality({}) = 0
    BY FS_EmptySet
  <2>2. Len(parser.stack) = 0 /\ parser.foreign = 0 /\ ~parser.annotation
        /\ \A s \in Slots : parser[s] = 0
    BY <1>1 DEF NewParser, Slots
  <2> QED
    BY <1>7, <2>1, <2>2 DEF ParserFollows
<1> QED
  BY <1>1, <1>2, <1>3, <1>4, <1>5, <1>8, <1>9, <1>10 DEF PlacesInv, Sound

LEMMA PlacesNext ==
  PlacesInv /\ [Next]_vars => PlacesInv'
<1> SUFFICES ASSUME PlacesInv, [Next]_vars
             PROVE  PlacesInv'
  OBVIOUS
<1> USE DEF PlacesInv
\* A step that leaves the document, the open elements and the parser alone.
<1>1. ASSUME UNCHANGED <<document, open, parser, failed>>,
             phase' = "reading" => phase = "reading" /\ infos' = infos
      PROVE  PlacesInv'
  <2>1. DocumentShape' /\ PlacesElements'
    BY <1>1, SamePlaces, SamePlacesElements
  <2>2. ParserShape'
    BY <1>1 DEF ParserShape
  <2>3. Numbered(infos) /\ infos' = infos => Numbered(infos)'
    BY DEF Numbered
  <2>4. ~failed' => Sound'
    BY <1>1, SameSound
  <2> QED
    BY <1>1, <2>1, <2>2, <2>3, <2>4
<1>2. CASE \E tag \in Tags : Start(tag)
  <2>1. PICK tag \in Tags : Start(tag)
    BY <1>2
  <2>2. phase = "reading" /\ ~failed
    BY <2>1 DEF Start, StartNode, StartInterface, StartMember, StartProperty, StartArg,
                StartAnnotation, StartOther, Opens
  <2> QED
    BY <2>1, <2>2, StartKeeps
\* A step after a failure, and the end of an element.
<1>3. CASE StartIgnored \/ (End /\ failed)
  <2>1. UNCHANGED <<document, parser, infos, failed, phase>> /\ failed
    BY <1>3 DEF StartIgnored, End
  <2>2. DocumentShape' /\ PlacesElements'
    BY <2>1, SamePlaces, SamePlacesElements
  <2>3. ParserShape'
    BY <2>1 DEF ParserShape
  <2>4. phase' = "reading" => Numbered(infos)'
    BY <2>1 DEF Numbered
  <2> QED
    BY <2>1, <2>2, <2>3, <2>4
<1>4. CASE End /\ ~failed
  <2>1. UNCHANGED <<document, infos, failed, phase>>
    BY <1>4 DEF End
  <2>2. DocumentShape' /\ PlacesElements'
    BY <2>1, SamePlaces, SamePlacesElements
  <2>3. ParserShape' /\ Sound'
    BY <1>4, EndSound
  <2>4. phase' = "reading" => Numbered(infos)'
    BY <2>1 DEF Numbered
  <2> QED
    BY <2>1, <2>2, <2>3, <2>4
<1>5. CASE Loads \/ Malformed \/ Releases \/ UNCHANGED vars
  <2>1. UNCHANGED <<document, open, parser, failed>>
    BY <1>5 DEF Loads, Malformed, Releases, vars
  <2>2. phase' = "reading" => phase = "reading" /\ infos' = infos
    BY <1>5 DEF Loads, Malformed, Releases, vars
  <2> QED
    BY <1>1, <2>1, <2>2
<1> QED
  BY <1>2, <1>3, <1>4, <1>5 DEF Next

\* The invariant by which the reader's judgement is the format's: its slots, its
\* stack and its counters tell the elements around the next one
\* (parser_start_element, parser_end_element).
THEOREM PlacesInvariance == Spec => []PlacesInv
BY PlacesInit, PlacesNext, PTL DEF Spec

\* The reader accepts an element exactly where the format has it and with the
\* attributes the format asks for, in any document.
THEOREM PlacesCorrect == Spec => []PlacesElements
<1>1. PlacesInv => PlacesElements
  BY DEF PlacesInv
<1> QED
  BY <1>1, PlacesInvariance, PTL

--------------------------------------------------------------------------------
(* Lists with one more *)

\* What stands where in a list with one more.
Placed(t, s, m, e) ==
  /\ t \in Seq(Nat) /\ Len(t) = Len(s) + 1
  /\ \A k \in 1 .. Len(s) + 1 :
       t[k] = IF k <= m THEN s[k] ELSE IF k = m + 1 THEN e ELSE s[k - 1]

\* What InsertAt makes of a list.
LEMMA Inserted ==
  ASSUME NEW s \in Seq(Nat), NEW m \in 0 .. Len(s), NEW e \in Nat,
         NEW t, t = InsertAt(s, m + 1, e)
  PROVE  Placed(t, s, m, e)
<1>1. Len(s) \in Nat /\ m \in Nat /\ m <= Len(s)
  OBVIOUS
<1>2. PICK p : p = (m + 1) - 1
  OBVIOUS
<1>3. PICK a : a = SubSeq(s, 1, p)
  OBVIOUS
<1>4. PICK b : b = SubSeq(s, m + 1, Len(s))
  OBVIOUS
<1>5. PICK c : c = a \o <<e>>
  OBVIOUS
<1>12. t = c \o b
  BY <1>2, <1>3, <1>4, <1>5, Zenon DEF InsertAt
<1>13. p = m
  BY <1>1, <1>2
<1>6. /\ a \in Seq(Nat) /\ Len(a) = m
      /\ \A k \in 1 .. m : a[k] = s[k]
  BY <1>1, <1>3, <1>13
<1>7. /\ b \in Seq(Nat) /\ Len(b) = Len(s) - m
      /\ \A k \in 1 .. Len(s) - m : b[k] = s[m + k]
  BY <1>1, <1>4
<1>8. /\ c \in Seq(Nat) /\ Len(c) = m + 1
      /\ \A k \in 1 .. m + 1 : c[k] = IF k <= m THEN s[k] ELSE e
  BY <1>1, <1>5, <1>6
<1>9. t \in Seq(Nat) /\ Len(t) = Len(c) + Len(b)
      /\ \A k \in 1 .. Len(c) + Len(b) : t[k] = IF k <= Len(c) THEN c[k] ELSE b[k - Len(c)]
  <2>1. b \in Seq(Nat) /\ c \in Seq(Nat)
    BY <1>7, <1>8
  <2> QED
    BY <1>12, <2>1, ConcatProperties
<1>10. Len(c) + Len(b) = Len(s) + 1
  BY <1>1, <1>7, <1>8
<1>11. ASSUME NEW k \in 1 .. Len(s) + 1
       PROVE  t[k] = IF k <= m THEN s[k] ELSE IF k = m + 1 THEN e ELSE s[k - 1]
  <2>1. t[k] = IF k <= m + 1 THEN c[k] ELSE b[k - (m + 1)]
    BY <1>8, <1>9, <1>10
  <2>2. CASE k <= m + 1
    BY <1>1, <1>8, <2>1, <2>2
  <2>3. CASE k > m + 1
    <3>1. k - (m + 1) \in 1 .. Len(s) - m /\ m + (k - (m + 1)) = k - 1
      BY <1>1, <2>3
    <3>2. b[k - (m + 1)] = s[k - 1]
      BY <1>7, <3>1
    <3> QED
      BY <1>1, <2>1, <2>3, <3>2
  <2> QED
    BY <1>1, <2>2, <2>3
<1> QED
  BY <1>9, <1>10, <1>11 DEF Placed

--------------------------------------------------------------------------------
(* The tree *)

\* The fields of an info.
InfoFields == {"kind", "name", "type", "access", "direction", "notes", "children", "refs"}

\* An info that was just made.
Fresh(info) ==
  /\ DOMAIN info = InfoFields /\ info.kind \in Slots \union {"node"}
  /\ info.children = <<>> /\ info.refs = 1
  /\ info.kind = "arg" => info.direction \in {"in", "out"}

\* Lists hold later infos, and each info is in at most one.
Forest(all) ==
  /\ Numbered(all)
  /\ \A i \in 1 .. Len(all) :
       /\ DOMAIN all[i] = InfoFields /\ all[i].kind \in Slots \union {"node"}
       /\ all[i].refs \in Nat /\ all[i].children \in Seq(Nat)
       /\ \A c \in Range(all[i].children) : i < c /\ c <= Len(all)
  /\ \A p, q \in 1 .. Len(all) : \A i \in Range(all[p].children) :
       i \in Range(all[q].children) => p = q

\* It is in some list.
Listed(all, i) == \E p \in 1 .. Len(all) : i \in Range(all[p].children)

\* What stays of an info whatever is added to it or below it.
Alike(x, y) ==
  /\ DOMAIN x = InfoFields /\ x.kind = y.kind /\ x.direction = y.direction
  /\ DOMAIN y.notes \subseteq DOMAIN x.notes

\* The owner's list with the new info.
Enlarged(all, owner, info) ==
  IF all[owner].kind = "method" THEN Sorted(Append(all, info), all[owner].children, Len(all) + 1)
  ELSE Append(all[owner].children, Len(all) + 1)

\* An info was added to the owner's list, if there is an owner.
Grown(all, new, owner, info, refs) ==
  /\ Numbered(new) /\ Len(new) = Len(all) + 1
  /\ \A i \in 1 .. Len(all) :
       /\ Alike(new[i], all[i]) /\ new[i].refs = all[i].refs
       /\ new[i].children = IF i = owner THEN Enlarged(all, owner, info) ELSE all[i].children
  /\ Alike(new[Len(all) + 1], info) /\ new[Len(all) + 1].children = <<>>
  /\ new[Len(all) + 1].refs = refs

\* node_info_new of the root.
LEMMA RootGrown ==
  ASSUME NEW all, Forest(all), NEW info, Fresh(info)
  PROVE  Grown(all, Append(all, info), 0, info, 1)
<1> DEFINE new == Append(all, info)
<1>1. Numbered(new)
  BY AppendNumbered DEF Forest
<1>2. Len(all) \in Nat /\ Len(new) = Len(all) + 1 /\ new[Len(all) + 1] = info
      /\ \A i \in 1 .. Len(all) : new[i] = all[i]
  BY LenProperties DEF Forest, Numbered
<1> HIDE DEF new
<1>3. \A i \in 1 .. Len(all) : i # 0 /\ Alike(new[i], all[i])
  BY <1>2 DEF Forest, Alike
<1>4. Alike(new[Len(all) + 1], info)
  BY <1>2 DEF Fresh, Alike
<1>5. Grown(all, new, 0, info, 1)
  <2>1. new[Len(all) + 1].children = <<>> /\ new[Len(all) + 1].refs = 1
    BY <1>2 DEF Fresh
  <2>2. ASSUME NEW i \in 1 .. Len(all)
        PROVE  /\ Alike(new[i], all[i]) /\ new[i].refs = all[i].refs
               /\ new[i].children = IF i = 0 THEN Enlarged(all, 0, info) ELSE all[i].children
    BY <1>2, <1>3
  <2> QED
    BY <1>1, <1>2, <1>4, <2>1, <2>2 DEF Grown
<1> QED
  BY <1>5 DEF new

\* node_info_add_node: the list takes a reference.
LEMMA AddedGrown ==
  ASSUME NEW all, Forest(all), NEW info, Fresh(info), NEW owner \in 1 .. Len(all),
         NEW i, i = Len(all) + 1
  PROVE  Grown(all, Added(Append(all, info), owner, i), owner, info, 2)
<1> DEFINE new == Append(all, info)
           kept == IF new[owner].kind = "method" THEN Sorted(new, new[owner].children, i)
                   ELSE Append(new[owner].children, i)
<1>1. Numbered(new)
  BY AppendNumbered DEF Forest
<1>2. Len(all) \in Nat /\ Len(new) = Len(all) + 1 /\ new[i] = info
      /\ DOMAIN new = 1 .. Len(all) + 1
      /\ \A k \in 1 .. Len(all) : new[k] = all[k] /\ k # i
  BY LenProperties DEF Forest, Numbered
<1>3. kept = Enlarged(all, owner, info)
  BY <1>2 DEF Enlarged
<1> DEFINE f == Added(new, owner, i)
<1>4. f = [new EXCEPT ![owner].children = kept, ![i].refs = @ + 1]
  BY DEF Added
<1>5. Numbered(f)
  BY <1>1, AddedNumbered
<1> HIDE DEF new, kept
<1>6. DOMAIN f = DOMAIN new
  BY <1>4
<1>7. /\ f[owner] = [new[owner] EXCEPT !.children = kept]
      /\ f[i] = [new[i] EXCEPT !.refs = @ + 1]
      /\ \A k \in 1 .. Len(all) : k # owner => f[k] = new[k]
  <2>1. owner \in DOMAIN new /\ i \in DOMAIN new /\ owner # i
    BY <1>2
  <2>2. f[owner] = [new[owner] EXCEPT !.children = kept]
    BY <1>4, <2>1
  <2>3. f[i] = [new[i] EXCEPT !.refs = @ + 1]
    BY <1>4, <2>1
  <2>4. \A k \in 1 .. Len(all) : k # owner => f[k] = new[k]
    <3>1. \A k \in 1 .. Len(all) : k \in DOMAIN new /\ k # i
      BY <1>2
    <3> QED
      BY <1>4, <3>1
  <2> QED
    BY <2>2, <2>3, <2>4
<1> HIDE DEF f
<1>8. Len(f) = Len(all) + 1
  <2>1. Len(f) \in Nat /\ DOMAIN f = 1 .. Len(f)
    BY <1>5, LenProperties DEF Numbered
  <2> QED
    BY <1>2, <1>6, <2>1
<1>9. ASSUME NEW k \in 1 .. Len(all)
      PROVE  /\ Alike(f[k], all[k]) /\ f[k].refs = all[k].refs
             /\ f[k].children = IF k = owner THEN Enlarged(all, owner, info) ELSE all[k].children
  <2>1. DOMAIN all[k] = InfoFields
    BY DEF Forest
  <2>2. CASE k = owner
    BY <1>2, <1>3, <1>7, <2>1, <2>2 DEF Alike, InfoFields
  <2>3. CASE k # owner
    BY <1>2, <1>7, <2>1, <2>3 DEF Alike
  <2> QED
    BY <2>2, <2>3
<1>10. Alike(f[i], info) /\ f[i].children = <<>> /\ f[i].refs = 2
  <2>1. DOMAIN info = InfoFields /\ info.children = <<>> /\ info.refs = 1
    BY DEF Fresh
  <2>2. f[i] = [info EXCEPT !.refs = 2]
    BY <1>2, <1>7, <2>1
  <2> QED
    BY <2>1, <2>2 DEF Alike, InfoFields
<1>11. Grown(all, f, owner, info, 2)
  BY <1>5, <1>8, <1>9, <1>10 DEF Grown
<1> QED
  BY <1>11 DEF f, new

\* node_info_add_interface, interface_info_add_method, ... and the release of the
\* parse function's own reference.
LEMMA OwnedGrown ==
  ASSUME NEW all, Forest(all), NEW info, Fresh(info), NEW owner \in 1 .. Len(all),
         NEW i, i = Len(all) + 1
  PROVE  Grown(all, Owned(Append(all, info), owner, i), owner, info, 1)
<1> DEFINE a == Added(Append(all, info), owner, i)
           f == Owned(Append(all, info), owner, i)
<1>1. Grown(all, a, owner, info, 2)
  BY AddedGrown
<1>2. f = [a EXCEPT ![i].refs = @ - 1]
  BY DEF Owned
<1>3. Numbered(f)
  <2>1. Numbered(Append(all, info))
    BY AppendNumbered DEF Forest
  <2> QED
    BY <2>1, AddedNumbered
<1> HIDE DEF a, f
<1>4. Len(all) \in Nat /\ DOMAIN a = 1 .. Len(all) + 1
  BY <1>1, LenProperties DEF Grown, Numbered, Forest
<1>5. DOMAIN f = DOMAIN a /\ f[i] = [a[i] EXCEPT !.refs = @ - 1]
      /\ \A k \in 1 .. Len(all) : f[k] = a[k]
  BY <1>2, <1>4
<1>6. Len(f) = Len(all) + 1
  <2>1. Len(f) \in Nat /\ DOMAIN f = 1 .. Len(f)
    BY <1>3, LenProperties DEF Numbered
  <2> QED
    BY <1>4, <1>5, <2>1
<1>7. Alike(f[i], info) /\ f[i].children = <<>> /\ f[i].refs = 1
  BY <1>1, <1>5 DEF Grown, Alike, InfoFields
<1>8. Grown(all, f, owner, info, 1)
  BY <1>1, <1>3, <1>5, <1>6, <1>7 DEF Grown
<1> QED
  BY <1>8 DEF f

\* Where the new info is put.
LEMMA EnlargedAt ==
  ASSUME NEW all, Forest(all), NEW info, NEW owner \in 1 .. Len(all),
         NEW i, i = Len(all) + 1, NEW old, old = all[owner].children,
         NEW list, list = Enlarged(all, owner, info)
  PROVE  \E m \in 0 .. Len(old) :
           /\ Placed(list, old, m, i)
           /\ IF all[owner].kind = "method" /\ info.direction = "in"
              THEN /\ m # 0 => all[old[m]].direction = "in"
                   /\ \A k \in 1 .. Len(old) : k > m => all[old[k]].direction # "in"
              ELSE m = Len(old)
<1>1. old \in Seq(Nat) /\ Len(old) \in Nat /\ DOMAIN old = 1 .. Len(old)
      /\ Len(all) \in Nat /\ i \in Nat
      /\ \A k \in 1 .. Len(old) : old[k] \in 1 .. Len(all)
  <2>1. old \in Seq(Nat) /\ \A c \in Range(old) : owner < c /\ c <= Len(all)
    BY DEF Forest
  <2>2. Len(all) \in Nat
    BY LenProperties DEF Forest, Numbered
  <2>3. Len(old) \in Nat /\ DOMAIN old = 1 .. Len(old) /\ \A k \in 1 .. Len(old) : old[k] \in Nat /\ old[k] \in Range(old)
    BY <2>1 DEF Range
  <2> QED
    BY <2>1, <2>2, <2>3
<1>2. CASE all[owner].kind = "method" /\ info.direction = "in"
  <2> DEFINE new == Append(all, info)
             ins == {k \in DOMAIN old : new[old[k]].direction = "in"}
             S == ins \union {0}
  <2>1. new[i] = info /\ \A k \in 1 .. Len(all) : new[k] = all[k]
    BY LenProperties DEF Forest, Numbered
  <2>2. list = Sorted(new, old, i)
    BY <1>2 DEF Enlarged
  <2> HIDE DEF new
  <2>3. list = InsertAt(old, Max(S) + 1, i)
    BY <1>2, <2>1, <2>2 DEF Sorted
  <2>4. S \subseteq 0 .. Len(old) /\ S # {}
    BY <1>1
  <2>5. Max(S) \in S /\ \A x \in S : x <= Max(S)
    <3> HIDE DEF S
    <3> QED
      BY <1>1, <2>4, MaxUpTo
  <2>6. PICK m : m = Max(S)
    OBVIOUS
  <2>7. m \in 0 .. Len(old)
    BY <2>4, <2>5, <2>6
  <2>11. \A k \in 1 .. Len(old) : k > m => k \notin ins
    <3> HIDE DEF ins
    <3>1. \A k \in ins : k <= m
      BY <2>5, <2>6
    <3> QED
      BY <1>1, <2>7, <3>1
  <2>12. list = InsertAt(old, m + 1, i)
    BY <2>3, <2>6
  <2> HIDE DEF S
  <2>8. Placed(list, old, m, i)
    BY <1>1, <2>7, <2>12, Inserted
  <2>9. m # 0 => all[old[m]].direction = "in"
    BY <1>1, <2>1, <2>5, <2>6, <2>7 DEF S
  <2>10. \A k \in 1 .. Len(old) : k > m => all[old[k]].direction # "in"
    BY <1>1, <2>1, <2>11
  <2> QED
    BY <1>2, <2>7, <2>8, <2>9, <2>10
<1>3. CASE ~(all[owner].kind = "method" /\ info.direction = "in")
  <2>1. list = Append(old, i)
    <3>1. CASE all[owner].kind # "method"
      BY <3>1 DEF Enlarged
    <3>2. CASE all[owner].kind = "method"
      <4>1. Append(all, info)[i] = info
        BY LenProperties DEF Forest, Numbered
      <4>2. list = Sorted(Append(all, info), old, i)
        BY <3>2 DEF Enlarged
      <4> QED
        BY <1>3, <3>2, <4>1, <4>2 DEF Sorted
    <3> QED
      BY <3>1, <3>2
  <2>2. /\ list \in Seq(Nat) /\ Len(list) = Len(old) + 1
        /\ \A k \in 1 .. Len(old) : list[k] = old[k]
        /\ list[Len(old) + 1] = i
    BY <1>1, <2>1
  <2>3. \A k \in 1 .. Len(old) + 1 :
          list[k] = IF k <= Len(old) THEN old[k] ELSE IF k = Len(old) + 1 THEN i ELSE old[k - 1]
    BY <1>1, <2>2
  <2>4. Len(old) \in 0 .. Len(old)
    BY <1>1
  <2> QED
    BY <1>3, <2>2, <2>3, <2>4 DEF Placed
<1> QED
  BY <1>2, <1>3

\* One more is in the list, and nothing else.
LEMMA EnlargedRange ==
  ASSUME NEW all, Forest(all), NEW info, NEW owner \in 1 .. Len(all),
         NEW list, list = Enlarged(all, owner, info)
  PROVE  list \in Seq(Nat) /\ Range(list) = Range(all[owner].children) \union {Len(all) + 1}
<1>1. PICK old : old = all[owner].children
  OBVIOUS
<1>2. PICK i : i = Len(all) + 1
  OBVIOUS
<1>3. PICK m \in 0 .. Len(old) :
        Placed(list, old, m, i)
  BY <1>1, <1>2, EnlargedAt
<1>8. /\ list \in Seq(Nat) /\ Len(list) = Len(old) + 1
      /\ \A k \in 1 .. Len(old) + 1 :
           list[k] = IF k <= m THEN old[k] ELSE IF k = m + 1 THEN i ELSE old[k - 1]
  BY <1>3 DEF Placed
<1>4. old \in Seq(Nat) /\ Len(old) \in Nat /\ DOMAIN old = 1 .. Len(old)
      /\ DOMAIN list = 1 .. Len(old) + 1
  BY <1>1, <1>8 DEF Forest
<1>5. ASSUME NEW x \in Range(list)
      PROVE  x \in Range(old) \/ x = i
  <2>1. PICK k \in 1 .. Len(old) + 1 : x = list[k]
    BY <1>4 DEF Range
  <2>2. k <= m => k \in DOMAIN old
    BY <1>4
  <2>3. k > m + 1 => k - 1 \in DOMAIN old
    BY <1>4
  <2>4. \A j \in DOMAIN old : old[j] \in Range(old)
    BY DEF Range
  <2>5. list[k] = IF k <= m THEN old[k] ELSE IF k = m + 1 THEN i ELSE old[k - 1]
    BY <1>8, <2>1
  <2>6. k <= m \/ k = m + 1 \/ k > m + 1
    BY <1>4
  <2> QED
    BY <2>1, <2>2, <2>3, <2>4, <2>5, <2>6
<1>6. ASSUME NEW x \in Range(old)
      PROVE  x \in Range(list)
  <2>1. PICK k \in 1 .. Len(old) : x = old[k]
    BY <1>4 DEF Range
  <2>2. CASE k <= m
    <3>1. k \in DOMAIN list /\ list[k] = x
      <4>1. k \in 1 .. Len(old) + 1
        BY <1>4
      <4> QED
        BY <1>8, <1>4, <2>1, <2>2, <4>1
    <3> QED
      BY <3>1 DEF Range
  <2>3. CASE k > m
    <3>1. k + 1 \in DOMAIN list /\ list[k + 1] = x
      <4>1. k + 1 \in 1 .. Len(old) + 1 /\ ~(k + 1 <= m) /\ k + 1 # m + 1 /\ (k + 1) - 1 = k
        BY <1>4, <2>3
      <4> QED
        BY <1>8, <1>4, <2>1, <4>1
    <3> QED
      BY <3>1 DEF Range
  <2> QED
    BY <1>4, <2>2, <2>3
<1>7. i \in Range(list)
  <2>1. m + 1 \in DOMAIN list /\ list[m + 1] = i
    <3>1. m + 1 \in 1 .. Len(old) + 1 /\ ~(m + 1 <= m)
      BY <1>4
    <3> QED
      BY <1>8, <1>4, <3>1
  <2> QED
    BY <2>1 DEF Range
<1> QED
  BY <1>1, <1>2, <1>8, <1>5, <1>6, <1>7

\* The order of a list, and the directions in a method's.
InOrder(all, i, x, y) ==
  IF all[i].kind # "method" \/ (all[x].direction = "out" <=> all[y].direction = "out") THEN x < y
  ELSE all[y].direction = "out"
\* The list of an info is in order.
Arranged(all, i) ==
  \A a, b \in DOMAIN all[i].children :
    a < b => InOrder(all, i, all[i].children[a], all[i].children[b])
\* The arguments of a method have directions.
Directed(all, i) ==
  all[i].kind = "method" => \A c \in Range(all[i].children) : all[c].direction \in {"in", "out"}

\* What an enlarged list is in the tree it is in.
LEMMA GrownList ==
  ASSUME NEW all, Forest(all), NEW info, NEW owner \in 1 .. Len(all),
         NEW new, NEW refs, Grown(all, new, owner, info, refs)
  PROVE  \E m \in 0 .. Len(all[owner].children) :
           /\ Placed(new[owner].children, all[owner].children, m, Len(all) + 1)
           /\ IF all[owner].kind = "method" /\ info.direction = "in"
              THEN /\ m # 0 => all[all[owner].children[m]].direction = "in"
                   /\ \A k \in 1 .. Len(all[owner].children) :
                        k > m => all[all[owner].children[k]].direction # "in"
              ELSE m = Len(all[owner].children)
<1>1. new[owner].children = Enlarged(all, owner, info)
  BY DEF Grown
<1>2. PICK list : list = new[owner].children
  OBVIOUS
<1>3. PICK old : old = all[owner].children
  OBVIOUS
<1>4. PICK i : i = Len(all) + 1
  OBVIOUS
<1>5. list = Enlarged(all, owner, info)
  BY <1>1, <1>2
<1>6. \E m \in 0 .. Len(old) :
           /\ Placed(list, old, m, i)
           /\ IF all[owner].kind = "method" /\ info.direction = "in"
              THEN /\ m # 0 => all[old[m]].direction = "in"
                   /\ \A k \in 1 .. Len(old) : k > m => all[old[k]].direction # "in"
              ELSE m = Len(old)
  BY <1>3, <1>4, <1>5, EnlargedAt
<1> QED
  BY <1>2, <1>3, <1>4, <1>6

\* A list in order stays so when an info is added to it.
LEMMA GrownArranged ==
  ASSUME NEW all, Forest(all), NEW info, NEW owner \in 1 .. Len(all),
         all[owner].kind = "method" => info.direction \in {"in", "out"},
         Arranged(all, owner), Directed(all, owner),
         NEW new, NEW refs, Grown(all, new, owner, info, refs)
  PROVE  Arranged(new, owner) /\ Directed(new, owner)
<1>1. PICK i : i = Len(all) + 1
  OBVIOUS
<1>2. PICK old : old = all[owner].children
  OBVIOUS
<1>3. PICK list : list = new[owner].children
  OBVIOUS
<1>4. PICK m \in 0 .. Len(old) :
        /\ Placed(list, old, m, i)
        /\ IF all[owner].kind = "method" /\ info.direction = "in"
           THEN /\ m # 0 => all[old[m]].direction = "in"
                /\ \A k \in 1 .. Len(old) : k > m => all[old[k]].direction # "in"
           ELSE m = Len(old)
  BY <1>1, <1>2, <1>3, GrownList
<1>5. /\ list \in Seq(Nat) /\ Len(list) = Len(old) + 1
      /\ \A k \in 1 .. Len(old) + 1 :
           list[k] = IF k <= m THEN old[k] ELSE IF k = m + 1 THEN i ELSE old[k - 1]
  BY <1>4 DEF Placed
<1>6. /\ old \in Seq(Nat) /\ Len(old) \in Nat /\ DOMAIN old = 1 .. Len(old)
      /\ DOMAIN list = 1 .. Len(old) + 1 /\ Len(all) \in Nat
      /\ \A k \in 1 .. Len(old) : old[k] \in Nat /\ old[k] \in Range(old) /\ old[k] \in 1 .. Len(all)
  <2>1. old \in Seq(Nat) /\ \A c \in Range(old) : owner < c /\ c <= Len(all)
    BY <1>2 DEF Forest
  <2>2. Len(all) \in Nat
    BY LenProperties DEF Forest, Numbered
  <2>3. Len(old) \in Nat /\ DOMAIN old = 1 .. Len(old)
        /\ \A k \in 1 .. Len(old) : old[k] \in Nat /\ old[k] \in Range(old)
    BY <2>1 DEF Range
  <2> QED
    BY <1>5, <2>1, <2>2, <2>3
<1>7. /\ new[owner].kind = all[owner].kind
      /\ \A k \in 1 .. Len(all) : new[k].direction = all[k].direction
      /\ new[i].direction = info.direction
  BY <1>1 DEF Grown, Alike
<1> DEFINE Outgoing(c) == new[c].direction = "out"
           Method == all[owner].kind = "method"
           Order(x, y) == IF ~Method \/ (Outgoing(x) <=> Outgoing(y)) THEN x < y ELSE Outgoing(y)
<1>8. \A a, b \in 1 .. Len(old) : a < b => Order(old[a], old[b])
  <2> SUFFICES ASSUME NEW a \in 1 .. Len(old), NEW b \in 1 .. Len(old), a < b
               PROVE  Order(old[a], old[b])
    OBVIOUS
  <2>1. IF ~Method \/ (all[old[a]].direction = "out" <=> all[old[b]].direction = "out")
        THEN old[a] < old[b] ELSE all[old[b]].direction = "out"
    BY <1>2, <1>6 DEF Arranged, InOrder
  <2>2. new[old[a]].direction = all[old[a]].direction /\ new[old[b]].direction = all[old[b]].direction
    BY <1>6, <1>7
  <2> QED
    BY <2>1, <2>2
<1>9. Method => \A k \in 1 .. Len(old) : new[old[k]].direction \in {"in", "out"}
  BY <1>2, <1>6, <1>7 DEF Directed
<1>10. \A k \in 1 .. Len(old) : old[k] < i
  BY <1>1, <1>6
<1>11. Method => Outgoing(i) \/ new[i].direction = "in"
  BY <1>7
<1>14. Directed(new, owner)
  <2>1. ASSUME Method, NEW c \in Range(list)
        PROVE  new[c].direction \in {"in", "out"}
    <3>1. PICK k \in 1 .. Len(old) + 1 : c = list[k]
      BY <1>6 DEF Range
    <3>2. c = i \/ \E j \in 1 .. Len(old) : c = old[j]
      <4>1. k > m + 1 => k - 1 \in 1 .. Len(old)
        BY <1>6
      <4>2. k <= m => k \in 1 .. Len(old)
        BY <1>6
      <4>3. k <= m \/ k = m + 1 \/ k > m + 1
        BY <1>6
      <4> QED
        BY <1>5, <3>1, <4>1, <4>2, <4>3
    <3> QED
      BY <1>9, <1>11, <2>1, <3>2
  <2> QED
    BY <1>3, <1>7, <2>1 DEF Directed
<1>12. CASE Method /\ info.direction = "in"
  <2>1. \A k \in 1 .. Len(old) : k > m => Outgoing(old[k])
    BY <1>4, <1>6, <1>7, <1>9, <1>12
  <2>2. ~Outgoing(i)
    BY <1>7, <1>12
  <2>3. \A k \in 1 .. Len(old) : k <= m => ~Outgoing(old[k])
    <3> SUFFICES ASSUME NEW k \in 1 .. Len(old), k <= m
                 PROVE  ~Outgoing(old[k])
      OBVIOUS
    <3>1. m \in 1 .. Len(old) /\ ~Outgoing(old[m])
      BY <1>4, <1>6, <1>7, <1>12
    <3>2. k < m => Order(old[k], old[m])
      BY <1>8, <3>1
    <3>3. k = m \/ k < m
      BY <1>6
    <3> QED
      BY <1>12, <3>1, <3>2, <3>3
  <2>4. ASSUME NEW a \in 1 .. Len(old) + 1, NEW b \in 1 .. Len(old) + 1, a < b
        PROVE  Order(list[a], list[b])
    <3>1. CASE b <= m
      <4>1. list[a] = old[a] /\ list[b] = old[b] /\ a \in 1 .. Len(old) /\ b \in 1 .. Len(old)
        BY <1>5, <1>6, <2>4, <3>1
      <4> QED
        BY <1>8, <2>4, <4>1
    <3>2. CASE b = m + 1
      <4>1. list[a] = old[a] /\ list[b] = i /\ a \in 1 .. Len(old) /\ a <= m
        BY <1>5, <1>6, <2>4, <3>2
      <4> QED
        BY <1>10, <2>2, <2>3, <4>1
    <3>3. CASE b > m + 1 /\ a <= m
      <4>1. list[a] = old[a] /\ list[b] = old[b - 1] /\ a \in 1 .. Len(old) /\ b - 1 \in 1 .. Len(old)
            /\ a < b - 1
        BY <1>5, <1>6, <2>4, <3>3
      <4> QED
        BY <1>8, <4>1
    <3>4. CASE b > m + 1 /\ a = m + 1
      <4>1. list[a] = i /\ list[b] = old[b - 1] /\ b - 1 \in 1 .. Len(old) /\ b - 1 > m
        BY <1>5, <1>6, <2>4, <3>4
      <4> QED
        BY <1>12, <2>1, <2>2, <4>1
    <3>5. CASE a > m + 1
      <4>1. list[a] = old[a - 1] /\ list[b] = old[b - 1] /\ a - 1 \in 1 .. Len(old)
            /\ b - 1 \in 1 .. Len(old) /\ a - 1 < b - 1
        BY <1>5, <1>6, <2>4, <3>5
      <4> QED
        BY <1>8, <4>1
    <3> QED
      BY <1>6, <3>1, <3>2, <3>3, <3>4, <3>5
  <2> HIDE DEF Order
  <2>6. \A a, b \in DOMAIN list : a < b => Order(list[a], list[b])
    BY <1>6, <2>4
  <2>7. \A a, b \in DOMAIN list : a < b =>
          InOrder(new, owner, list[a], list[b])
    BY <1>7, <2>6 DEF Order, InOrder
  <2> QED
    BY <1>3, <1>14, <2>7 DEF Arranged
<1>13. CASE ~(Method /\ info.direction = "in")
  <2>1. m = Len(old)
    BY <1>4, <1>13
  <2>2. Method => Outgoing(i)
    BY <1>7, <1>11, <1>13
  <2>3. ASSUME NEW a \in 1 .. Len(old) + 1, NEW b \in 1 .. Len(old) + 1, a < b
        PROVE  Order(list[a], list[b])
    <3>1. CASE b <= m
      <4>1. list[a] = old[a] /\ list[b] = old[b] /\ a \in 1 .. Len(old) /\ b \in 1 .. Len(old)
        BY <1>5, <1>6, <2>3, <3>1
      <4> QED
        BY <1>8, <2>3, <4>1
    <3>2. CASE b = m + 1
      <4>1. list[a] = old[a] /\ list[b] = i /\ a \in 1 .. Len(old)
        BY <1>5, <1>6, <2>1, <2>3, <3>2
      <4> QED
        BY <1>10, <2>2, <4>1
    <3> QED
      BY <1>6, <2>1, <3>1, <3>2
  <2> HIDE DEF Order
  <2>6. \A a, b \in DOMAIN list : a < b => Order(list[a], list[b])
    BY <1>6, <2>3
  <2>7. \A a, b \in DOMAIN list : a < b =>
          InOrder(new, owner, list[a], list[b])
    BY <1>7, <2>6 DEF Order, InOrder
  <2> QED
    BY <1>3, <1>14, <2>7 DEF Arranged
<1> QED
  BY <1>12, <1>13

\* The tree after an info was added.
LEMMA ForestGrown ==
  ASSUME NEW all, Forest(all), NEW info, Fresh(info), NEW owner \in 0 .. Len(all),
         NEW refs \in Nat, NEW new, Grown(all, new, owner, info, refs)
  PROVE  /\ Forest(new)
         /\ \A p \in 1 .. Len(all) :
              \A i : i \in Range(new[p].children) <=>
                      i \in Range(all[p].children) \/ (p = owner /\ i = Len(all) + 1)
         /\ Range(new[Len(all) + 1].children) = {}
         /\ \A i \in 1 .. Len(all) : Listed(new, i) <=> Listed(all, i)
         /\ Listed(new, Len(all) + 1) <=> owner # 0
<1> DEFINE n == Len(all) + 1
<1>0. n = Len(all) + 1
  OBVIOUS
<1> HIDE DEF n
<1>1. Len(all) \in Nat /\ Len(new) = n /\ Numbered(new) /\ n \notin 1 .. Len(all)
  BY <1>0, LenProperties DEF Forest, Numbered, Grown
<1>2. ASSUME NEW p \in 1 .. Len(all)
      PROVE  /\ new[p].children \in Seq(Nat)
             /\ Range(new[p].children) = IF p = owner THEN Range(all[p].children) \union {n}
                                         ELSE Range(all[p].children)
  <2>1. CASE p = owner
    <3>1. new[p].children = Enlarged(all, owner, info)
      BY <2>1 DEF Grown
    <3> QED
      BY <1>0, <2>1, <3>1, EnlargedRange
  <2>2. CASE p # owner
    BY <2>2 DEF Grown, Forest
  <2> QED
    BY <2>1, <2>2
<1>3. new[n].children = <<>> /\ Range(new[n].children) = {} /\ new[n].children \in Seq(Nat)
  <2>1. new[n].children = <<>>
    BY <1>0 DEF Grown
  <2>2. Range(<<>>) = {} /\ <<>> \in Seq(Nat)
    BY DEF Range
  <2> QED
    BY <2>1, <2>2
<1>4. \A p \in 1 .. Len(all) : \A c \in Range(all[p].children) : c \in Nat /\ p < c /\ c <= Len(all)
  <2>1. ASSUME NEW p \in 1 .. Len(all), NEW c \in Range(all[p].children)
        PROVE  c \in Nat
    <3>1. all[p].children \in Seq(Nat)
      BY DEF Forest
    <3> QED
      BY <3>1 DEF Range
  <2> QED
    BY <2>1 DEF Forest
<1>5. \A i \in 1 .. n : i \in 1 .. Len(all) \/ i = n
  BY <1>0, <1>1
<1>6. ASSUME NEW i \in 1 .. n
      PROVE  /\ DOMAIN new[i] = InfoFields /\ new[i].kind \in Slots \union {"node"}
             /\ new[i].refs \in Nat /\ new[i].children \in Seq(Nat)
             /\ \A c \in Range(new[i].children) : i < c /\ c <= n
  <2>1. CASE i = n
    BY <1>0, <1>3, <2>1 DEF Grown, Alike, Fresh
  <2>2. CASE i \in 1 .. Len(all)
    <3>1. DOMAIN new[i] = InfoFields /\ new[i].kind \in Slots \union {"node"} /\ new[i].refs \in Nat
      BY <2>2 DEF Grown, Alike, Forest
    <3>2. \A c \in Range(all[i].children) : i < c /\ c <= n
      <4>1. \A c \in Nat : c <= Len(all) => c <= n
        BY <1>1
      <4> QED
        BY <1>4, <2>2, <4>1
    <3>3. i < n /\ n <= n
      BY <1>1, <2>2
    <3> QED
      BY <1>2, <2>2, <3>1, <3>2, <3>3
  <2> QED
    BY <1>5, <2>1, <2>2
<1>7. \A i \in 1 .. Len(all) : \A p \in 1 .. Len(all) :
        i \in Range(new[p].children) <=> i \in Range(all[p].children)
  BY <1>1, <1>2
<1>8. \A p \in 1 .. Len(all) : n \in Range(new[p].children) <=> p = owner
  <2>1. \A p \in 1 .. Len(all) : n \notin Range(all[p].children)
    BY <1>1, <1>4
  <2> QED
    BY <1>2, <2>1
<1>9. \A i \in 1 .. Len(all) : Listed(new, i) <=> Listed(all, i)
  BY <1>0, <1>1, <1>3, <1>5, <1>7 DEF Listed
<1>10. Listed(new, n) <=> owner # 0
  BY <1>0, <1>1, <1>3, <1>5, <1>8 DEF Listed
<1>11. ASSUME NEW p \in 1 .. n, NEW q \in 1 .. n, NEW i \in Range(new[p].children),
              i \in Range(new[q].children)
       PROVE  p = q
  <2>1. p \in 1 .. Len(all) /\ q \in 1 .. Len(all)
    BY <1>3, <1>5, <1>11
  <2>2. CASE i = n
    BY <1>8, <1>11, <2>1, <2>2
  <2>3. CASE i # n
    <3>1. i \in Range(all[p].children)
      BY <1>2, <1>11, <2>1, <2>3
    <3>2. i \in Range(all[q].children)
      BY <1>2, <1>11, <2>1, <2>3
    <3> QED
      BY <2>1, <3>1, <3>2 DEF Forest
  <2> QED
    BY <2>2, <2>3
<1>12. Forest(new)
  <2>1. 1 .. Len(new) = 1 .. n /\ Len(new) = n
    BY <1>1
  <2> QED
    BY <1>1, <1>6, <1>11, <2>1 DEF Forest
<1>13. ASSUME NEW p \in 1 .. Len(all), NEW i
       PROVE  i \in Range(new[p].children) <=>
                i \in Range(all[p].children) \/ (p = owner /\ i = n)
  BY <1>2
<1> QED
  BY <1>0, <1>3, <1>9, <1>10, <1>12, <1>13

\* While the document is read an info has one reference of its list, and a node
\* another one, of parse_node.
Held(all) ==
  \A i \in 1 .. Len(all) :
    /\ all[i].refs = (IF Listed(all, i) THEN 1 ELSE 0) + (IF all[i].kind = "node" THEN 1 ELSE 0)
    /\ all[i].kind # "node" => Listed(all, i)

\* A new info has its references.
LEMMA HeldGrown ==
  ASSUME NEW all, Forest(all), Held(all), NEW info, Fresh(info), NEW owner \in 0 .. Len(all),
         NEW refs, refs = (IF owner # 0 THEN 1 ELSE 0) + (IF info.kind = "node" THEN 1 ELSE 0),
         info.kind # "node" => owner # 0,
         NEW new, Grown(all, new, owner, info, refs)
  PROVE  Held(new)
<1>1. PICK n : n = Len(all) + 1
  OBVIOUS
<1>2. refs \in Nat
  OBVIOUS
<1>3. /\ \A i \in 1 .. Len(all) : Listed(new, i) <=> Listed(all, i)
      /\ Listed(new, n) <=> owner # 0
  BY <1>1, <1>2, ForestGrown
<1>4. Len(new) = n /\ \A i \in 1 .. n : i \in 1 .. Len(all) \/ i = n
  BY <1>1, LenProperties DEF Forest, Numbered, Grown
<1>5. /\ \A i \in 1 .. Len(all) : new[i].refs = all[i].refs /\ new[i].kind = all[i].kind
      /\ new[n].refs = refs /\ new[n].kind = info.kind
  BY <1>1 DEF Grown, Alike
<1>6. ASSUME NEW i \in 1 .. n
      PROVE  /\ new[i].refs = (IF Listed(new, i) THEN 1 ELSE 0)
                                + (IF new[i].kind = "node" THEN 1 ELSE 0)
             /\ new[i].kind # "node" => Listed(new, i)
  <2>1. CASE i = n
    BY <1>3, <1>5, <2>1
  <2>2. CASE i \in 1 .. Len(all)
    BY <1>3, <1>5, <2>2 DEF Held
  <2> QED
    BY <1>4, <2>1, <2>2
<1> QED
  BY <1>4, <1>6 DEF Held

--------------------------------------------------------------------------------
(* What is released with a node *)

\* The lists that drop an info, when f tells how many references are dropped of
\* each, and f itself (node_info_unref).
Droppers(all, f, i) == {p \in 1 .. i - 1 : f[p] = all[p].refs /\ i \in Range(all[p].children)}
\* f tells what the first m infos lose when one reference to the node is
\* dropped.
Dropping(all, node, m, f) ==
  f = [i \in 1 .. m |-> Cardinality(Droppers(all, f, i)) + IF i = node THEN 1 ELSE 0]

\* The tree when so many references of each were dropped.
Lessened(all, f) == [i \in 1 .. Len(all) |-> [all[i] EXCEPT !.refs = @ - f[i]]]

\* There is such a function: NodeUnref has a meaning.
LEMMA DropsExist ==
  ASSUME NEW all, NEW node, Len(all) \in Nat
  PROVE  \E f : Dropping(all, node, Len(all), f)
<1> DEFINE S == {m \in Nat : \E f : Dropping(all, node, m, f)}
<1>1. 0 \in S
  <2> DEFINE f == [i \in 1 .. 0 |-> 0]
  <2>1. f = [i \in 1 .. 0 |-> Cardinality(Droppers(all, f, i)) + IF i = node THEN 1 ELSE 0]
    OBVIOUS
  <2> QED
    BY <2>1 DEF Dropping
<1>2. ASSUME NEW m \in Nat, m \in S
      PROVE  m + 1 \in S
  <2>1. PICK f : Dropping(all, node, m, f)
    BY <1>2
  <2>2. PICK x : x = Cardinality(Droppers(all, f, m + 1)) + IF m + 1 = node THEN 1 ELSE 0
    OBVIOUS
  <2>3. PICK g : g = [i \in 1 .. m + 1 |-> IF i = m + 1 THEN x ELSE f[i]]
    OBVIOUS
  <2>4. \A i \in 1 .. m : g[i] = f[i]
    BY <2>3
  <2>5. ASSUME NEW i \in 1 .. m + 1
        PROVE  Droppers(all, g, i) = Droppers(all, f, i)
    <3>1. \A p \in 1 .. i - 1 : p \in 1 .. m
      OBVIOUS
    <3> QED
      BY <2>4, <3>1 DEF Droppers
  <2>6. ASSUME NEW i \in 1 .. m + 1
        PROVE  g[i] = Cardinality(Droppers(all, g, i)) + IF i = node THEN 1 ELSE 0
    <3>1. CASE i = m + 1
      <4>1. g[i] = x
        BY <2>3, <3>1
      <4> QED
        BY <2>2, <2>5, <3>1, <4>1
    <3>2. CASE i # m + 1
      <4>1. i \in 1 .. m
        BY <3>2
      <4>2. f[i] = Cardinality(Droppers(all, f, i)) + IF i = node THEN 1 ELSE 0
        BY <2>1, <4>1 DEF Dropping
      <4> QED
        BY <2>4, <2>5, <4>1, <4>2
    <3> QED
      BY <3>1, <3>2
  <2>7. g = [i \in 1 .. m + 1 |-> g[i]]
    BY <2>3
  <2>8. Dropping(all, node, m + 1, g)
    BY <2>6, <2>7 DEF Dropping
  <2> QED
    BY <2>8
<1>3. Len(all) \in S
  <2> HIDE DEF S
  <2> QED
    BY <1>1, <1>2, SetInduction
<1> QED
  BY <1>3

\* The tree without a reference of a root, and what was dropped with it.
LEMMA UnrefDrops ==
  ASSUME NEW all, Len(all) \in Nat, NEW node, NEW new, new = NodeUnref(all, node)
  PROVE  \E f : /\ Dropping(all, node, Len(all), f)
                /\ new = Lessened(all, f)
<1>1. PICK f : f = CHOOSE g : Dropping(all, node, Len(all), g)
  OBVIOUS
<1>2. Dropping(all, node, Len(all), f)
  BY <1>1, DropsExist
<1>3. new = Lessened(all, f)
  BY <1>1 DEF NodeUnref, Dropping, Droppers, Lessened
<1> QED
  BY <1>2, <1>3

\* An info is dropped once, by what listed it.
LEMMA DroppedOnce ==
  ASSUME NEW all, Forest(all), NEW node, ~Listed(all, node), NEW f,
         Dropping(all, node, Len(all), f), NEW i \in 1 .. Len(all)
  PROVE  f[i] = IF i = node \/ (\E p \in 1 .. Len(all) :
                                  f[p] = all[p].refs /\ i \in Range(all[p].children))
                THEN 1 ELSE 0
<1>1. f[i] = Cardinality(Droppers(all, f, i)) + IF i = node THEN 1 ELSE 0
  BY DEF Dropping
<1>2. Len(all) \in Nat
  BY LenProperties DEF Forest, Numbered
<1>3. \A p \in 1 .. Len(all) : i \in Range(all[p].children) => p < i
  BY DEF Forest
<1>4. \A p : p \in Droppers(all, f, i) <=>
        p \in 1 .. Len(all) /\ f[p] = all[p].refs /\ i \in Range(all[p].children)
  BY <1>2, <1>3 DEF Droppers
<1>5. \A p, q \in Droppers(all, f, i) : p = q
  BY <1>4 DEF Forest
<1>6. CASE Droppers(all, f, i) = {}
  BY <1>1, <1>4, <1>6, FS_EmptySet
<1>7. CASE Droppers(all, f, i) # {}
  <2>1. PICK p \in Droppers(all, f, i) : TRUE
    BY <1>7
  <2>2. Droppers(all, f, i) = {p}
    BY <1>5, <2>1
  <2>3. Cardinality(Droppers(all, f, i)) = 1
    BY <2>2, FS_Singleton
  <2>4. i # node
    BY <1>4, <2>1 DEF Listed
  <2> QED
    BY <1>1, <1>4, <2>1, <2>3, <2>4
<1> QED
  BY <1>6, <1>7

\* The same tree but for the counts.
Kept(all, new) ==
  /\ Numbered(new) /\ Len(new) = Len(all)
  /\ \A i \in 1 .. Len(all) : Alike(new[i], all[i]) /\ new[i].children = all[i].children

\* With the same lists it is the same forest.
LEMMA KeptForest ==
  ASSUME NEW all, Forest(all), NEW new, Kept(all, new), \A i \in 1 .. Len(all) : new[i].refs \in Nat
  PROVE  Forest(new) /\ \A i : Listed(new, i) <=> Listed(all, i)
<1>1. \A i \in 1 .. Len(all) : /\ DOMAIN new[i] = InfoFields /\ new[i].kind = all[i].kind
                               /\ new[i].children = all[i].children
  BY DEF Kept, Alike
<1>2. Numbered(new) /\ Len(new) = Len(all)
  BY DEF Kept
<1>3. \A i \in 1 .. Len(all) :
       /\ DOMAIN new[i] = InfoFields /\ new[i].kind \in Slots \union {"node"}
       /\ new[i].refs \in Nat /\ new[i].children \in Seq(Nat)
       /\ \A c \in Range(new[i].children) : i < c /\ c <= Len(all)
  BY <1>1 DEF Forest
<1>4. \A p, q \in 1 .. Len(all) : \A i \in Range(new[p].children) :
       i \in Range(new[q].children) => p = q
  BY <1>1 DEF Forest
<1>5. \A i : Listed(new, i) <=> Listed(all, i)
  BY <1>1, <1>2 DEF Listed
<1> QED
  BY <1>2, <1>3, <1>4, <1>5 DEF Forest

\* The counts when the reader is done with the tree: a root that was released is
\* gone, and only infos that were not freed hold others.
Counted(all, gone) ==
  \A i \in 1 .. Len(all) :
    all[i].refs = (IF \E p \in 1 .. Len(all) : all[p].refs > 0 /\ i \in Range(all[p].children)
                   THEN 1 ELSE 0)
                  + (IF all[i].kind = "node" /\ i # gone THEN 1 ELSE 0)

\* While nothing was released the counts are those of a parser without a result.
LEMMA HeldCounted ==
  ASSUME NEW all, Held(all)
  PROVE  Counted(all, 0) /\ \A i \in 1 .. Len(all) : all[i].refs \in {1, 2}
<1>1. \A i \in 1 .. Len(all) : all[i].refs \in {1, 2}
  BY DEF Held
<1>2. \A i \in 1 .. Len(all) : i # 0 /\ all[i].refs > 0
  BY <1>1
<1> QED
  BY <1>1, <1>2 DEF Held, Counted, Listed

\* The counts change, and nothing else (node_info_unref).
LEMMA UnrefKeeps ==
  ASSUME NEW all, Forest(all), NEW f,
         NEW new, new = Lessened(all, f)
  PROVE  Kept(all, new) /\ \A i \in 1 .. Len(all) : new[i].refs = all[i].refs - f[i]
<1>1. Len(all) \in Nat
  BY LenProperties DEF Forest, Numbered
<1>2. Numbered(new)
  <2>1. new = [k \in 1 .. Len(all) |-> new[k]]
    BY DEF Lessened
  <2> QED
    BY <1>1, <2>1, IsNumbered
<1>3. Len(new) = Len(all)
  <2>1. Len(new) \in Nat /\ DOMAIN new = 1 .. Len(new)
    BY <1>2, LenProperties DEF Numbered
  <2> QED
    BY <1>1, <2>1 DEF Lessened
<1>4. ASSUME NEW i \in 1 .. Len(all)
      PROVE  /\ Alike(new[i], all[i]) /\ new[i].children = all[i].children
             /\ new[i].refs = all[i].refs - f[i]
  <2>1. DOMAIN all[i] = InfoFields
    BY DEF Forest
  <2>2. new[i] = [all[i] EXCEPT !.refs = @ - f[i]]
    BY DEF Lessened
  <2> QED
    BY <2>1, <2>2 DEF Alike, InfoFields
<1> QED
  BY <1>2, <1>3, <1>4 DEF Kept

\* A root is released by its last holder.
LEMMA RootReleased ==
  ASSUME NEW all, Forest(all), Held(all), NEW node \in 1 .. Len(all), ~Listed(all, node),
         all[node].kind = "node", NEW new, new = NodeUnref(all, node)
  PROVE  Kept(all, new) /\ Counted(new, node) /\ \A i \in 1 .. Len(all) : new[i].refs \in Nat
<1>1. Len(all) \in Nat
  BY LenProperties DEF Forest, Numbered
<1>2. PICK f : /\ Dropping(all, node, Len(all), f)
               /\ new = Lessened(all, f)
  BY <1>1, UnrefDrops
<1>3. Kept(all, new) /\ \A i \in 1 .. Len(all) : new[i].refs = all[i].refs - f[i]
  BY <1>2, UnrefKeeps
<1>4. Len(new) = Len(all)
      /\ \A i \in 1 .. Len(all) : new[i].kind = all[i].kind /\ new[i].children = all[i].children
  BY <1>3 DEF Kept, Alike
<1>5. \A i \in 1 .. Len(all) :
        f[i] = IF i = node \/ (\E p \in 1 .. Len(all) :
                                 f[p] = all[p].refs /\ i \in Range(all[p].children))
               THEN 1 ELSE 0
  BY <1>2, DroppedOnce
<1>6. \A i \in 1 .. Len(all) : all[i].refs \in {1, 2} /\ f[i] \in {0, 1}
  BY <1>5, HeldCounted
<1>7. \A i \in 1 .. Len(all) : new[i].refs \in Nat /\ (new[i].refs > 0 <=> f[i] # all[i].refs)
  BY <1>3, <1>6
<1>8. ASSUME NEW i \in 1 .. Len(all)
      PROVE  new[i].refs = (IF \E p \in 1 .. Len(all) : new[p].refs > 0 /\ i \in Range(new[p].children)
                            THEN 1 ELSE 0)
                           + (IF new[i].kind = "node" /\ i # node THEN 1 ELSE 0)
  <2>1. all[i].refs = (IF Listed(all, i) THEN 1 ELSE 0) + (IF all[i].kind = "node" THEN 1 ELSE 0)
    BY DEF Held
  <2>2. CASE i = node
    <3>1. \A p \in 1 .. Len(all) : i \notin Range(new[p].children)
      BY <1>4, <2>2 DEF Listed
    <3>2. new[i].refs = 0
      BY <1>3, <1>5, <2>1, <2>2
    <3> QED
      BY <2>2, <3>1, <3>2
  <2>3. CASE i # node /\ ~Listed(all, i)
    <3>1. \A p \in 1 .. Len(all) : i \notin Range(all[p].children) /\ i \notin Range(new[p].children)
      BY <1>4, <2>3 DEF Listed
    <3>2. f[i] = 0
      BY <1>5, <2>3, <3>1
    <3>3. new[i].refs = all[i].refs
      BY <1>3, <1>6, <3>2
    <3> QED
      BY <1>4, <2>1, <2>3, <3>1, <3>3
  <2>4. CASE i # node /\ Listed(all, i)
    <3>1. PICK p \in 1 .. Len(all) : i \in Range(all[p].children)
      BY <2>4 DEF Listed
    <3>2. \A q \in 1 .. Len(all) : i \in Range(all[q].children) <=> q = p
      BY <3>1 DEF Forest
    <3>3. f[i] = IF f[p] = all[p].refs THEN 1 ELSE 0
      BY <1>5, <2>4, <3>2
    <3>4. (\E q \in 1 .. Len(all) : new[q].refs > 0 /\ i \in Range(new[q].children))
            <=> f[p] # all[p].refs
      BY <1>4, <1>7, <3>2
    <3>5. new[i].refs = all[i].refs - f[i] /\ new[i].kind = all[i].kind
      BY <1>3, <1>4
    <3> QED
      BY <2>1, <2>4, <3>3, <3>4, <3>5
  <2> QED
    BY <2>2, <2>3, <2>4
<1> QED
  BY <1>3, <1>4, <1>7, <1>8 DEF Counted

\* A root of which one of two references is dropped keeps its lists.
LEMMA RootStays ==
  ASSUME NEW more, Forest(more), NEW node \in 1 .. Len(more), ~Listed(more, node),
         more[node].refs = 2, \A i \in 1 .. Len(more) : more[i].refs \in {1, 2},
         NEW new, new = NodeUnref(more, node)
  PROVE  /\ Kept(more, new)
         /\ \A i \in 1 .. Len(more) : new[i].refs = more[i].refs - (IF i = node THEN 1 ELSE 0)
<1>1. Len(more) \in Nat
  BY LenProperties DEF Forest, Numbered
<1>2. PICK f : /\ Dropping(more, node, Len(more), f)
               /\ new = Lessened(more, f)
  BY <1>1, UnrefDrops
<1>3. \A i \in 1 .. Len(more) :
        f[i] = IF i = node \/ (\E p \in 1 .. Len(more) :
                                 f[p] = more[p].refs /\ i \in Range(more[p].children))
               THEN 1 ELSE 0
  BY <1>2, DroppedOnce
<1>4. \A i \in 1 .. Len(more) : f[i] # more[i].refs
  <2> DEFINE S == {i \in 1 .. Len(more) : f[i] = more[i].refs}
  <2> SUFFICES ASSUME S # {} PROVE FALSE
    OBVIOUS
  <2>1. PICK i \in S : \A j \in S : i <= j
    <3>1. S \subseteq Nat
      OBVIOUS
    <3> HIDE DEF S
    <3> QED
      BY <3>1, LeastNatural
  <2>2. i \in 1 .. Len(more) /\ f[i] = more[i].refs
    OBVIOUS
  <2>3. i # node
    BY <1>3, <2>2
  <2>4. f[i] = 1
    BY <1>3, <2>2, <2>3
  <2>5. PICK p \in 1 .. Len(more) : f[p] = more[p].refs /\ i \in Range(more[p].children)
    BY <1>3, <2>2, <2>3, <2>4
  <2>6. p < i
    BY <2>5 DEF Forest
  <2> QED
    BY <1>1, <2>1, <2>2, <2>5, <2>6
<1>5. \A i \in 1 .. Len(more) : f[i] = IF i = node THEN 1 ELSE 0
  BY <1>3, <1>4
<1>6. Kept(more, new) /\ \A i \in 1 .. Len(more) : new[i].refs = more[i].refs - f[i]
  BY <1>2, UnrefKeeps
<1> QED
  BY <1>5, <1>6

\* node_info_ref.
Raised(all, node) == [all EXCEPT ![node].refs = @ + 1]

\* The parser gives up the root that the caller took a reference of.
LEMMA RootHandedOver ==
  ASSUME NEW all, Forest(all), Held(all), NEW node \in 1 .. Len(all), ~Listed(all, node),
         all[node].kind = "node", NEW more, more = Raised(all, node),
         NEW new, new = NodeUnref(more, node)
  PROVE  Kept(all, new) /\ \A i \in 1 .. Len(all) : new[i].refs = all[i].refs
<1>1. /\ Len(all) \in Nat /\ DOMAIN all = 1 .. Len(all)
      /\ \A i \in 1 .. Len(all) : DOMAIN all[i] = InfoFields /\ all[i].refs \in {1, 2}
      /\ all[node].refs = 1
  <2>1. all[node].refs = 1
    BY DEF Held
  <2> QED
    BY <2>1, HeldCounted, LenProperties DEF Forest, Numbered
<1>2. Numbered(more)
  <2>1. more = [k \in DOMAIN all |-> more[k]]
    BY DEF Raised
  <2> QED
    BY <2>1, ExceptNumbered DEF Forest
<1>3. Len(more) = Len(all)
  <2>1. Len(more) \in Nat /\ DOMAIN more = 1 .. Len(more)
    BY <1>2, LenProperties DEF Numbered
  <2> QED
    BY <1>1, <2>1 DEF Raised
<1>4. ASSUME NEW i \in 1 .. Len(all)
      PROVE  /\ Alike(more[i], all[i]) /\ more[i].children = all[i].children
             /\ more[i].refs = IF i = node THEN 2 ELSE all[i].refs
  <2>1. CASE i = node
    <3>1. more[i] = [all[i] EXCEPT !.refs = @ + 1]
      BY <1>1, <2>1 DEF Raised
    <3> QED
      BY <1>1, <2>1, <3>1 DEF Alike, InfoFields
  <2>2. CASE i # node
    <3>1. more[i] = all[i]
      BY <1>1, <2>2 DEF Raised
    <3> QED
      BY <1>1, <2>2, <3>1 DEF Alike
  <2> QED
    BY <2>1, <2>2
<1>5. Kept(all, more)
  BY <1>2, <1>3, <1>4 DEF Kept
<1>6. Forest(more) /\ ~Listed(more, node)
  <2>1. \A i \in 1 .. Len(all) : more[i].refs \in Nat
    BY <1>1, <1>4
  <2> QED
    BY <1>5, <2>1, KeptForest
<1>7. /\ Kept(more, new)
      /\ \A i \in 1 .. Len(more) : new[i].refs = more[i].refs - (IF i = node THEN 1 ELSE 0)
  <2>1. node \in 1 .. Len(more) /\ more[node].refs = 2
        /\ \A i \in 1 .. Len(more) : more[i].refs \in {1, 2}
    BY <1>1, <1>3, <1>4
  <2> QED
    BY <1>6, <2>1, RootStays
<1>12. Kept(all, new)
  BY <1>3, <1>4, <1>7 DEF Kept, Alike
<1>13. \A i \in 1 .. Len(all) : new[i].refs = all[i].refs
  <2> TAKE i \in 1 .. Len(all)
  <2>1. new[i].refs = more[i].refs - (IF i = node THEN 1 ELSE 0)
    BY <1>3, <1>7
  <2>2. CASE i = node
    BY <1>1, <1>4, <2>1, <2>2
  <2>3. CASE i # node
    BY <1>1, <1>4, <2>1, <2>3
  <2> QED
    BY <2>2, <2>3
<1> QED
  BY <1>12, <1>13

\* An annotation is kept, and nothing is lost.
LEMMA AnnotatedKept ==
  ASSUME NEW all, Forest(all), NEW owner \in 1 .. Len(all), NEW tag,
         NEW new, new = Annotated(all, owner, tag)
  PROVE  /\ Kept(all, new) /\ \A i \in 1 .. Len(all) : new[i].refs = all[i].refs
         /\ tag.name \in DOMAIN new[owner].notes
<1>1. Len(all) \in Nat /\ DOMAIN all = 1 .. Len(all)
  BY LenProperties DEF Forest, Numbered
<1>2. Numbered(new)
  BY AddedNumbered DEF Forest
<1>3. PICK notes : /\ new = [all EXCEPT ![owner].notes = notes]
                   /\ DOMAIN notes = DOMAIN all[owner].notes \union {tag.name}
  <2>1. PICK old : old = all[owner].notes
    OBVIOUS
  <2>2. PICK notes : notes = [n \in DOMAIN old \union {tag.name} |->
                                IF n = tag.name THEN tag.value ELSE old[n]]
    OBVIOUS
  <2>3. new = [all EXCEPT ![owner].notes = notes]
    BY <2>1, <2>2 DEF Annotated
  <2>4. DOMAIN notes = DOMAIN all[owner].notes \union {tag.name}
    BY <2>1, <2>2
  <2> QED
    BY <2>3, <2>4
<1>4. DOMAIN new = DOMAIN all
  BY <1>3
<1>5. Len(new) = Len(all)
  <2>1. Len(new) \in Nat /\ DOMAIN new = 1 .. Len(new)
    BY <1>2, LenProperties DEF Numbered
  <2> QED
    BY <1>1, <1>4, <2>1
<1>6. \A i \in 1 .. Len(all) :
        new[i] = IF i = owner THEN [all[i] EXCEPT !.notes = notes] ELSE all[i]
  BY <1>1, <1>3
<1>7. ASSUME NEW i \in 1 .. Len(all)
      PROVE  /\ Alike(new[i], all[i]) /\ new[i].children = all[i].children
             /\ new[i].refs = all[i].refs
             /\ i = owner => new[i].notes = notes
  <2>1. DOMAIN all[i] = InfoFields
    BY DEF Forest
  <2>2. CASE i = owner
    <3>1. new[i] = [all[i] EXCEPT !.notes = notes]
      BY <1>6, <2>2
    <3> QED
      BY <1>3, <2>1, <2>2, <3>1 DEF Alike, InfoFields
  <2>3. CASE i # owner
    BY <1>6, <2>1, <2>3 DEF Alike
  <2> QED
    BY <2>2, <2>3
<1> QED
  BY <1>2, <1>3, <1>5, <1>7 DEF Kept

--------------------------------------------------------------------------------
(* The infos and the elements they were made of *)

\* The elements that were accepted.
Accepted == IF failed THEN Len(document) - 1 ELSE Len(document)

\* There is an info for each of them that has one.
Made ==
  /\ failed => document # <<>>
  /\ Len(infos) = InfoOf(Accepted)
  /\ \A i \in 1 .. Len(infos) : \E k \in 1 .. Accepted : Producing(k) /\ InfoOf(k) = i

\* The producing elements up to one of them.
Producers(k) == {j \in 1 .. k : Producing(j)}

\* InfoOf counts.
LEMMA ProducersFinite ==
  ASSUME NEW k \in Nat
  PROVE  IsFiniteSet(Producers(k)) /\ InfoOf(k) = Cardinality(Producers(k)) /\ InfoOf(k) \in Nat
<1>1. IsFiniteSet(1 .. k)
  BY FS_Interval
<1>2. Producers(k) \in SUBSET (1 .. k)
  BY DEF Producers
<1>3. IsFiniteSet(Producers(k))
  BY <1>1, <1>2, FS_Subset
<1>4. InfoOf(k) = Cardinality(Producers(k))
  BY DEF InfoOf, Producers
<1> QED
  BY <1>3, <1>4, FS_CardinalityType

\* Later elements have greater infos.
LEMMA InfoOfGrows ==
  ASSUME NEW j \in Nat, NEW k \in Nat, j <= k
  PROVE  /\ InfoOf(j) \in Nat /\ InfoOf(k) \in Nat /\ InfoOf(j) <= InfoOf(k)
         /\ j < k /\ Producing(k) => InfoOf(j) < InfoOf(k)
<1>1. /\ IsFiniteSet(Producers(j)) /\ InfoOf(j) = Cardinality(Producers(j)) /\ InfoOf(j) \in Nat
      /\ IsFiniteSet(Producers(k)) /\ InfoOf(k) = Cardinality(Producers(k)) /\ InfoOf(k) \in Nat
  BY ProducersFinite
<1>2. \A x \in 1 .. j : x \in 1 .. k
  OBVIOUS
<1>3. Producers(j) \in SUBSET Producers(k)
  BY <1>2 DEF Producers
<1>4. InfoOf(j) <= InfoOf(k)
  BY <1>1, <1>3, FS_Subset
<1>5. ASSUME j < k, Producing(k)
      PROVE  InfoOf(j) < InfoOf(k)
  <2>1. k \notin Producers(j) /\ k \in Producers(k)
    BY <1>5 DEF Producers
  <2>2. Cardinality(Producers(j) \union {k}) = Cardinality(Producers(j)) + 1
    BY <1>1, <2>1, FS_AddElement
  <2>3. Producers(j) \union {k} \in SUBSET Producers(k)
    BY <1>3, <2>1
  <2>4. Cardinality(Producers(j) \union {k}) <= Cardinality(Producers(k))
    BY <1>1, <2>3, FS_Subset
  <2> QED
    BY <1>1, <2>2, <2>4
<1> QED
  BY <1>1, <1>4, <1>5

\* The count from one element to the next.
LEMMA InfoOfNext ==
  ASSUME NEW j \in Nat
  PROVE  InfoOf(j + 1) = InfoOf(j) + (IF Producing(j + 1) THEN 1 ELSE 0)
<1>1. /\ IsFiniteSet(Producers(j)) /\ InfoOf(j) = Cardinality(Producers(j)) /\ InfoOf(j) \in Nat
      /\ InfoOf(j + 1) = Cardinality(Producers(j + 1))
  BY ProducersFinite
<1>2. \A x : x \in 1 .. j + 1 <=> x \in 1 .. j \/ x = j + 1
  OBVIOUS
<1>3. j + 1 \notin Producers(j)
  BY DEF Producers
<1>4. CASE Producing(j + 1)
  <2>1. Producers(j + 1) = Producers(j) \union {j + 1}
    BY <1>2, <1>4 DEF Producers
  <2> QED
    BY <1>1, <1>3, <1>4, <2>1, FS_AddElement
<1>5. CASE ~Producing(j + 1)
  <2>1. Producers(j + 1) = Producers(j)
    BY <1>2, <1>5 DEF Producers
  <2> QED
    BY <1>1, <1>5, <2>1
<1> QED
  BY <1>4, <1>5

\* Which elements have an info, and which info.
Told ==
  /\ Accepted \in 0 .. Len(document) /\ Len(document) \in Nat
  /\ \A k : k \in Positions <=> k \in 1 .. Accepted /\ Producing(k)
  /\ \A k \in Positions : InfoOf(k) \in 1 .. Len(infos)
  /\ \A j, k \in Positions : /\ j < k <=> InfoOf(j) < InfoOf(k)
                             /\ InfoOf(j) = InfoOf(k) => j = k
  /\ \A i \in 1 .. Len(infos) : PositionOf(i) \in Positions /\ InfoOf(PositionOf(i)) = i
  /\ \A k \in Positions : PositionOf(InfoOf(k)) = k

\* Elements and infos correspond.
LEMMA Numbering ==
  DocumentShape /\ Made /\ Len(infos) \in Nat => Told
<1> SUFFICES ASSUME DocumentShape, Made, Len(infos) \in Nat
             PROVE  Told
  OBVIOUS
<1>1. Len(document) \in Nat /\ DOMAIN document = 1 .. Len(document)
      /\ (document # <<>> => Len(document) # 0)
  BY DEF DocumentShape
<1>2. Accepted \in 0 .. Len(document) /\ Len(infos) = InfoOf(Accepted)
  BY <1>1 DEF Accepted, Made
<1>3. \A j, k \in Nat : j <= k => /\ InfoOf(j) \in Nat /\ InfoOf(k) \in Nat /\ InfoOf(j) <= InfoOf(k)
                                  /\ j < k /\ Producing(k) => InfoOf(j) < InfoOf(k)
  BY InfoOfGrows
<1>4. ASSUME NEW k
      PROVE  k \in Positions <=> k \in 1 .. Accepted /\ Producing(k)
  <2>1. ASSUME k \in 1 .. Len(document), Producing(k)
        PROVE  InfoOf(k) <= Len(infos) <=> k <= Accepted
    <3>1. CASE k <= Accepted
      BY <1>2, <1>3, <2>1, <3>1
    <3>2. CASE k > Accepted
      <4>1. InfoOf(Accepted) < InfoOf(k) /\ InfoOf(k) \in Nat /\ InfoOf(Accepted) \in Nat
        BY <1>1, <1>2, <1>3, <2>1, <3>2
      <4> QED
        BY <1>1, <1>2, <2>1, <3>2, <4>1
    <3> QED
      BY <1>1, <1>2, <2>1, <3>1, <3>2
  <2> QED
    BY <1>1, <1>2, <2>1 DEF Positions
<1>5. ASSUME NEW k \in Positions
      PROVE  InfoOf(k) \in 1 .. Len(infos)
  <2>1. k \in 1 .. Accepted /\ Producing(k)
    BY <1>4
  <2>2. InfoOf(0) < InfoOf(k) /\ InfoOf(0) \in Nat /\ InfoOf(k) \in Nat
    BY <1>2, <1>3, <2>1
  <2>3. InfoOf(k) <= InfoOf(Accepted)
    BY <1>2, <1>3, <2>1
  <2> QED
    BY <1>2, <2>2, <2>3
<1>6. ASSUME NEW j \in Positions, NEW k \in Positions
      PROVE  (j < k <=> InfoOf(j) < InfoOf(k)) /\ (InfoOf(j) = InfoOf(k) => j = k)
  <2>1. j \in Nat /\ k \in Nat /\ Producing(j) /\ Producing(k) /\ InfoOf(j) \in Nat /\ InfoOf(k) \in Nat
    <3>1. j \in 1 .. Accepted /\ k \in 1 .. Accepted /\ Producing(j) /\ Producing(k)
      BY <1>4
    <3>2. j \in Nat /\ k \in Nat
      BY <3>1
    <3> QED
      BY <3>1, <3>2, ProducersFinite
  <2>2. j < k => InfoOf(j) < InfoOf(k)
    BY <1>3, <2>1
  <2>3. k < j => InfoOf(k) < InfoOf(j)
    BY <1>3, <2>1
  <2> QED
    BY <2>1, <2>2, <2>3
<1>7. ASSUME NEW i \in 1 .. Len(infos)
      PROVE  PositionOf(i) \in Positions /\ InfoOf(PositionOf(i)) = i
  <2>1. \E k \in Positions : InfoOf(k) = i
    BY <1>4 DEF Made
  <2> QED
    BY <2>1 DEF PositionOf
<1>8. \A k \in Positions : PositionOf(InfoOf(k)) = k
  BY <1>5, <1>6, <1>7
<1> QED
  BY <1>1, <1>2, <1>4, <1>5, <1>6, <1>7, <1>8 DEF Told

--------------------------------------------------------------------------------
(* The elements directly around an element *)

\* The innermost element around one is an earlier one.
LEMMA EnclosingShape ==
  ASSUME DocumentShape, NEW k \in 1 .. Len(document)
  PROVE  /\ Enclosing(k) \in 0 .. k - 1
         /\ Enclosing(k) # 0 =>
              Enclosing(k) \in Around[k] /\ Element(Enclosing(k)) \in Known
<1> DEFINE known == {p \in Around[k] : Element(p) \in Known}
<1>1. Surrounded /\ Len(document) \in Nat
  BY AroundShape DEF DocumentShape
<1>2. known \subseteq 1 .. k - 1 /\ k - 1 \in Nat
  <2> HIDE DEF Around
  <2> QED
    BY <1>1 DEF Surrounded
<1>3. Enclosing(k) = IF known = {} THEN 0 ELSE Max(known)
  BY DEF Enclosing
<1>4. known # {} => Max(known) \in known
  <2> HIDE DEF known
  <2> QED
    BY <1>2, MaxIn
<1>5. CASE known = {}
  BY <1>2, <1>3, <1>5
<1>6. CASE known # {}
  <2>1. Enclosing(k) \in known
    BY <1>3, <1>4, <1>6
  <2>2. Enclosing(k) \in 1 .. k - 1
    BY <1>2, <2>1
  <2> QED
    BY <1>2, <2>1, <2>2
<1> QED
  BY <1>5, <1>6

\* The elements around an element stay when the document grows.
LEMMA OldEnclosing ==
  ASSUME DocumentShape, DocumentShape', Len(document) <= Len(document'),
         \A j \in 1 .. Len(document) : document'[j] = document[j],
         NEW k \in 1 .. Len(document)
  PROVE  /\ Element(k)' = Element(k) /\ (Producing(k)' <=> Producing(k))
         /\ Around'[k] = Around[k] /\ Enclosing(k)' = Enclosing(k)
<1>1. /\ \A j \in 1 .. Len(document) : Element(j)' = Element(j)
      /\ Around'[k] = Around[k]
  BY OldPlaces
<1>2. Around[k] \subseteq 1 .. k - 1 /\ Len(document) \in Nat
  <2>1. Surrounded
    BY AroundShape
  <2> HIDE DEF Around
  <2> QED
    BY <2>1 DEF Surrounded, DocumentShape
<1> HIDE DEF Around
<1>3. \A p \in Around[k] : p \in 1 .. Len(document)
  BY <1>2
<1>4. {p \in Around'[k] : Element(p)' \in Known} = {p \in Around[k] : Element(p) \in Known}
  BY <1>1, <1>3
<1>5. Enclosing(k)' = Enclosing(k)
  BY <1>4 DEF Enclosing
<1>6. Producing(k)' <=> Producing(k)
  BY <1>1 DEF Producing
<1> QED
  BY <1>1, <1>5, <1>6

\* The innermost element around a new one is the innermost open one.
LEMMA NewEnclosing ==
  ASSUME DocumentShape, OpenShape, NEW tag \in Tags, Opens(tag), NEW k, k = Len(document) + 1
  PROVE  /\ Outer = "document" => Enclosing(k)' = 0
         /\ Outer # "document" =>
              /\ Enclosing(k)' \in OpenOf(Outer)
              /\ \A p \in Range(open) : Element(p) \in Known => p <= Enclosing(k)'
<1> DEFINE known == {p \in Range(open) : Element(p) \in Known}
<1>1. /\ Len(document) \in Nat
      /\ \A p \in Range(open) : p \in 1 .. Len(document) /\ Element(p)' = Element(p)
      /\ Around'[k] = Range(open)
  BY NewElement
<1> HIDE DEF Around
<1>2. known = {p \in Around'[k] : Element(p)' \in Known}
  BY <1>1
<1>3. Enclosing(k)' = IF known = {} THEN 0 ELSE Max(known)
  BY <1>2 DEF Enclosing
<1>4. Outer = IF known = {} THEN "document" ELSE Element(Max(known))
  BY DEF Outer
<1>5. known # {} => Max(known) \in known /\ \A p \in known : p <= Max(known)
  <2>1. known \subseteq 1 .. Len(document)
    BY <1>1
  <2> HIDE DEF known
  <2> QED
    BY <1>1, <2>1, MaxIn
<1>6. "document" \notin Known
  BY DEF Known
<1>7. CASE known = {}
  BY <1>3, <1>4, <1>7
<1>8. CASE known # {}
  <2>1. Enclosing(k)' \in known /\ Outer = Element(Enclosing(k)') /\ \A p \in known : p <= Enclosing(k)'
    <3>1. PICK m : m = Max(known)
      OBVIOUS
    <3>2. Enclosing(k)' = m /\ Outer = Element(m)
      BY <1>3, <1>4, <1>8, <3>1
    <3>3. m \in known /\ \A p \in known : p <= m
      BY <1>5, <1>8, <3>1
    <3> QED
      BY <3>2, <3>3
  <2>2. Outer \in Known
    BY <2>1
  <2> QED
    BY <1>6, <2>1, <2>2 DEF OpenOf
<1> QED
  BY <1>7, <1>8

--------------------------------------------------------------------------------
(* The parser knows the infos of the open elements *)

\* The slots and the stack hold the infos of the open elements.
Following ==
  /\ \A s \in Slots : \A p \in OpenOf(s) : parser[s] = InfoOf(p)
  /\ \A j, k \in DOMAIN parser.stack : j < k => parser.stack[j] < parser.stack[k]
  /\ Range(parser.stack) = {InfoOf(p) : p \in OpenOf("node")}

\* What the parser adds to is what is around the element.
LEMMA OwnerTold ==
  ASSUME DocumentShape, ParserShape, OpenShape, Following, NEW tag \in Tags, Opens(tag),
         NEW k, k = Len(document) + 1, NEW e, e = Enclosing(k)'
  PROVE  /\ Outer \in Slots => parser[Outer] = InfoOf(e)
         /\ Outer = "node" => Last(parser.stack) = InfoOf(e)
<1>1. Outer \notin {"document"} =>
        e \in OpenOf(Outer) /\ \A p \in Range(open) : Element(p) \in Known => p <= e
  BY NewEnclosing
<1>2. Range(open) \subseteq 1 .. Len(document) /\ Len(document) \in Nat
  BY OpenPositions
<1>3. Outer \in Slots => parser[Outer] = InfoOf(e)
  BY <1>1 DEF Following, Slots
<1>4. ASSUME Outer = "node"
      PROVE  Last(parser.stack) = InfoOf(e)
  <2>1. e \in OpenOf("node") /\ \A p \in OpenOf("node") : p \in Nat /\ e \in Nat /\ p <= e
    BY <1>1, <1>2, <1>4 DEF OpenOf, Known
  <2>2. parser.stack \in Seq(Nat) /\ DOMAIN parser.stack = 1 .. Len(parser.stack)
        /\ Len(parser.stack) \in Nat /\ \A j \in DOMAIN parser.stack : parser.stack[j] \in Nat
    BY DEF ParserShape
  <2>3. PICK j \in DOMAIN parser.stack : parser.stack[j] = InfoOf(e)
    <3>1. InfoOf(e) \in Range(parser.stack)
      BY <2>1 DEF Following
    <3> QED
      BY <3>1 DEF Range
  <2>4. PICK m : m = Len(parser.stack)
    OBVIOUS
  <2>5. m \in DOMAIN parser.stack /\ j <= m /\ Last(parser.stack) = parser.stack[m]
    BY <2>2, <2>3, <2>4 DEF Last
  <2>6. PICK p \in OpenOf("node") : parser.stack[m] = InfoOf(p)
    <3>1. parser.stack[m] \in Range(parser.stack)
      BY <2>5 DEF Range
    <3> QED
      BY <3>1 DEF Following
  <2>7. InfoOf(p) <= InfoOf(e)
    BY <2>1, <2>6, InfoOfGrows
  <2>8. j < m => parser.stack[j] < parser.stack[m]
    BY <2>3, <2>5 DEF Following
  <2>9. j = m
    BY <2>2, <2>3, <2>5, <2>6, <2>7, <2>8
  <2> QED
    BY <2>3, <2>5, <2>9
<1> QED
  BY <1>3, <1>4

\* The parser's handles on the tree.
Handles ==
  /\ \A s \in Slots : /\ parser[s] \in 0 .. Len(infos)
                      /\ parser[s] # 0 => infos[parser[s]].kind = s
  /\ \A j \in DOMAIN parser.stack : /\ parser.stack[j] \in 1 .. Len(infos)
                                    /\ infos[parser.stack[j]].kind = "node"
  /\ parser.stack # <<>> => ~Listed(infos, parser.stack[1])
  /\ parser.result \in 0 .. Len(infos)
  /\ parser.result # 0 => /\ infos[parser.result].kind = "node"
                          /\ ~Listed(infos, parser.result)
                          /\ parser.result \notin Range(parser.stack)

\* An element that has an info is accepted.
Makes(tag, k, owner, info, refs) ==
  /\ tag.element \in Known \ {"annotation"} /\ Fresh(info) /\ info.kind = tag.element
  /\ owner \in 0 .. Len(infos)
  /\ owner = IF Enclosing(k)' = 0 THEN 0 ELSE InfoOf(Enclosing(k)')
  /\ IF tag.element = "node" THEN owner # 0 => parser.stack # <<>> ELSE owner # 0
  /\ owner # 0 /\ infos[owner].kind = "method" => info.direction \in {"in", "out"}
  /\ refs = (IF owner # 0 THEN 1 ELSE 0) + (IF info.kind = "node" THEN 1 ELSE 0)
  /\ Grown(infos, infos', owner, info, refs)
  /\ parser' = IF tag.element = "node" THEN [parser EXCEPT !.stack = Append(parser.stack, New)]
               ELSE [parser EXCEPT ![tag.element] = New]

\* What holds besides where an element begins.
Builds(tag, k) ==
  Begins(tag, k) /\ Forest(infos) /\ Handles /\ Following

\* What the constructors make.
LEMMA MadeFresh ==
  ASSUME NEW kind \in Slots \union {"node"}, kind # "arg", NEW tag
  PROVE  Fresh(NewInfo(kind, tag)) /\ NewInfo(kind, tag).kind = kind
BY DEF Fresh, NewInfo, InfoFields

\* An info that belongs to its list alone.
LEMMA SlotMakes ==
  ASSUME NEW tag \in Tags, NEW k, Builds(tag, k), tag.element \in Slots, Outer \in Known,
         NEW info, Fresh(info), info.kind = tag.element, info.direction \in {"in", "out"} \/ Outer # "method",
         NEW owner, owner = IF Outer = "node" THEN Last(parser.stack) ELSE parser[Outer],
         Outer = "node" \/ Outer \in Slots, owner # 0, Outer = "node" => parser.stack # <<>>,
         infos' = Owned(Append(infos, info), owner, New),
         parser' = [parser EXCEPT ![tag.element] = New]
  PROVE  \E o, i, refs : Makes(tag, k, o, i, refs)
<1>1. PICK e : e = Enclosing(k)'
  OBVIOUS
<1>2. DocumentShape /\ ParserShape /\ OpenShape /\ Following /\ Opens(tag) /\ k = Len(document) + 1
  BY DEF Builds, Begins, Sound
<1>3. owner = InfoOf(e)
  BY <1>1, <1>2, OwnerTold
<1>4. e # 0
  <2>1. e \in OpenOf(Outer)
    <3>1. Outer # "document"
      BY DEF Known
    <3> QED
      BY <1>1, <1>2, <3>1, NewEnclosing
  <2>2. Range(open) \subseteq 1 .. Len(document)
    BY <1>2, OpenPositions
  <2> QED
    BY <2>1, <2>2 DEF OpenOf
<1>5. owner \in 1 .. Len(infos) /\ infos[owner].kind = Outer
  <2>1. CASE Outer \in Slots
    <3>1. owner = parser[Outer]
      BY <2>1 DEF Slots
    <3>2. Len(infos) \in Nat
      BY LenProperties DEF Builds, Forest, Numbered
    <3> QED
      BY <2>1, <3>1, <3>2 DEF Builds, Handles
  <2>2. CASE Outer = "node"
    <3>1. parser.stack \in Seq(Nat) /\ parser.stack # <<>>
      BY <1>2, <2>2 DEF ParserShape
    <3>2. Len(parser.stack) \in DOMAIN parser.stack /\ owner = parser.stack[Len(parser.stack)]
      BY <2>2, <3>1 DEF Last
    <3> QED
      BY <2>2, <3>2 DEF Builds, Handles
  <2> QED
    BY <2>1, <2>2
<1>6. Grown(infos, infos', owner, info, 1)
  <2>1. New = Len(infos) + 1 /\ Forest(infos)
    BY DEF New, Builds
  <2> QED
    BY <1>5, <2>1, OwnedGrown
<1>7. tag.element \in Known \ {"annotation"} /\ tag.element # "node"
  BY DEF Slots, Known
<1>8. owner \in 0 .. Len(infos)
  BY <1>5
<1>9. Makes(tag, k, owner, info, 1)
  <2>1. owner = IF Enclosing(k)' = 0 THEN 0 ELSE InfoOf(Enclosing(k)')
    BY <1>1, <1>3, <1>4
  <2>2. 1 = (IF owner # 0 THEN 1 ELSE 0) + (IF info.kind = "node" THEN 1 ELSE 0)
    BY <1>7
  <2>3. owner # 0 /\ infos[owner].kind = "method" => info.direction \in {"in", "out"}
    BY <1>5
  <2>4. parser' = IF tag.element = "node" THEN [parser EXCEPT !.stack = Append(parser.stack, New)]
                  ELSE [parser EXCEPT ![tag.element] = New]
    BY <1>7
  <2> QED
    BY <1>6, <1>7, <1>8, <2>1, <2>2, <2>3, <2>4 DEF Makes
<1> QED
  BY <1>9

\* parse_interface.
LEMMA InterfaceMakes ==
  ASSUME NEW tag \in Tags, NEW k, Builds(tag, k), StartInterface(tag), failed' = FALSE
  PROVE  \E owner, info, refs : Makes(tag, k, owner, info, refs)
<1>1. Judges(tag, k)
  BY InterfaceJudged DEF Builds
<1>2. tag.element = "interface" /\ WellPlaced(k)'
  BY <1>1 DEF Judges, StartInterface
<1>3. Outer = "node"
  BY <1>2, BeginFacts DEF WellPlaced, Builds
<1>4. parser.stack # <<>>
  BY <1>3, BeginGuards DEF Builds
<1>5. parser' = [parser EXCEPT !.interface = New]
      /\ infos' = Owned(Append(infos, NewInfo("interface", tag)), Last(parser.stack), New)
  BY DEF StartInterface, Refuses, Accepts
<1>6. Fresh(NewInfo("interface", tag)) /\ NewInfo("interface", tag).kind = "interface"
  BY MadeFresh DEF Slots
<1>7. Last(parser.stack) # 0
  <2>1. parser.stack \in Seq(Nat)
    BY DEF Builds, Begins, ParserShape
  <2>2. Len(parser.stack) \in DOMAIN parser.stack
    BY <1>4, <2>1
  <2> QED
    BY <2>2 DEF Last, Builds, Handles
<1>8. PICK info : info = NewInfo("interface", tag)
  OBVIOUS
<1>9. PICK owner : owner = Last(parser.stack)
  OBVIOUS
<1>10. /\ tag.element \in Slots /\ Outer \in Known /\ Outer # "method"
       /\ Outer = "node" \/ Outer \in Slots
  BY <1>2, <1>3 DEF Slots, Known
<1>11. /\ owner = IF Outer = "node" THEN Last(parser.stack) ELSE parser[Outer]
       /\ parser' = [parser EXCEPT ![tag.element] = New]
  BY <1>2, <1>3, <1>5, <1>9
<1> QED
  BY <1>2, <1>4, <1>5, <1>6, <1>7, <1>8, <1>9, <1>10, <1>11, SlotMakes

\* parse_method, parse_signal.
LEMMA MemberMakes ==
  ASSUME NEW tag \in Tags, NEW k, Builds(tag, k), StartMember(tag), failed' = FALSE
  PROVE  \E owner, info, refs : Makes(tag, k, owner, info, refs)
<1>1. Judges(tag, k)
  BY MemberJudged DEF Builds
<1>2. tag.element \in {"method", "signal"} /\ WellPlaced(k)'
  BY <1>1 DEF Judges, StartMember
<1>3. Outer = "interface"
  BY <1>2, BeginFacts DEF WellPlaced, Builds
<1>4. parser.interface # 0
  BY <1>3, BeginGuards DEF Builds, MemberFits
<1>5. PICK info : info = NewInfo(tag.element, tag)
  OBVIOUS
<1>6. parser' = [parser EXCEPT ![tag.element] = New]
      /\ infos' = Owned(Append(infos, info), parser.interface, New)
  BY <1>5 DEF StartMember, Refuses, Accepts
<1>7. Fresh(info) /\ info.kind = tag.element
  BY <1>2, <1>5, MadeFresh DEF Slots
<1>8. PICK owner : owner = parser.interface
  OBVIOUS
<1>9. /\ tag.element \in Slots /\ Outer \in Known /\ Outer # "method"
      /\ Outer = "node" \/ Outer \in Slots
      /\ Outer = "node" => parser.stack # <<>>
  BY <1>2, <1>3 DEF Slots, Known
<1>10. owner = IF Outer = "node" THEN Last(parser.stack) ELSE parser[Outer]
  BY <1>3, <1>8
<1> QED
  BY <1>4, <1>6, <1>7, <1>8, <1>9, <1>10, SlotMakes

\* parse_property.
LEMMA PropertyMakes ==
  ASSUME NEW tag \in Tags, NEW k, Builds(tag, k), StartProperty(tag), failed' = FALSE
  PROVE  \E owner, info, refs : Makes(tag, k, owner, info, refs)
<1>1. Judges(tag, k)
  BY PropertyJudged DEF Builds
<1>2. tag.element = "property" /\ WellPlaced(k)'
  BY <1>1 DEF Judges, StartProperty
<1>3. Outer = "interface"
  BY <1>2, BeginFacts DEF WellPlaced, Builds
<1>4. parser.interface # 0
  BY <1>3, BeginGuards DEF Builds, MemberFits
<1>5. PICK info : info = NewInfo("property", tag)
  OBVIOUS
<1>6. parser' = [parser EXCEPT ![tag.element] = New]
      /\ infos' = Owned(Append(infos, info), parser.interface, New)
  BY <1>2, <1>5 DEF StartProperty, Refuses, Accepts
<1>7. Fresh(info) /\ info.kind = tag.element
  BY <1>2, <1>5, MadeFresh DEF Slots
<1>8. PICK owner : owner = parser.interface
  OBVIOUS
<1>9. /\ tag.element \in Slots /\ Outer \in Known /\ Outer # "method"
      /\ Outer = "node" \/ Outer \in Slots
      /\ Outer = "node" => parser.stack # <<>>
  BY <1>2, <1>3 DEF Slots, Known
<1>10. owner = IF Outer = "node" THEN Last(parser.stack) ELSE parser[Outer]
  BY <1>3, <1>8
<1> QED
  BY <1>4, <1>6, <1>7, <1>8, <1>9, <1>10, SlotMakes

\* parse_arg.
LEMMA ArgMakes ==
  ASSUME NEW tag \in Tags, NEW k, Builds(tag, k), StartArg(tag), failed' = FALSE
  PROVE  \E owner, info, refs : Makes(tag, k, owner, info, refs)
<1>1. Judges(tag, k)
  BY ArgJudged DEF Builds
<1>2. tag.element = "arg" /\ WellPlaced(k)'
  BY <1>1 DEF Judges, StartArg
<1>3. Outer \in {"method", "signal"}
  BY <1>2, BeginFacts DEF WellPlaced, Builds
<1>4. PICK owner : owner = IF parser.method # 0 THEN parser.method ELSE parser.signal
  OBVIOUS
<1>5. PICK direction : direction = IF tag.direction = None
                                   THEN IF parser.method # 0 THEN "in" ELSE "out" ELSE tag.direction
  OBVIOUS
<1>6. PICK name : name = IF tag.name # None THEN tag.name
                         ELSE "arg" \o ToString(Len(infos[owner].children))
  OBVIOUS
<1>7. PICK info : info = [NewInfo("arg", tag) EXCEPT !.name = name, !.direction = direction]
  OBVIOUS
<1>8. /\ owner # 0 /\ parser.stack # <<>>
      /\ direction \in (IF parser.signal # 0 THEN {"out"} ELSE {"in", "out"})
      /\ parser' = [parser EXCEPT !.arg = New]
      /\ infos' = Owned(Append(infos, info), owner, New)
  BY <1>4, <1>5, <1>6, <1>7 DEF StartArg, Refuses, Accepts
<1>9. Fresh(info) /\ info.kind = "arg" /\ info.direction \in {"in", "out"}
  <2>1. DOMAIN info = InfoFields /\ info.kind = "arg" /\ info.children = <<>> /\ info.refs = 1
        /\ info.direction = direction
    BY <1>7 DEF NewInfo, InfoFields
  <2>2. direction \in {"in", "out"}
    BY <1>8
  <2> QED
    BY <2>1, <2>2 DEF Fresh, Slots
<1>10. owner = parser[Outer]
  <2>1. CASE Outer = "method"
    <3>1. parser.method # 0
      BY <2>1, BeginGuards DEF Builds
    <3> QED
      BY <1>4, <2>1, <3>1
  <2>2. CASE Outer = "signal"
    <3>1. ~Has("method")
      <4>1. Outer # "document" => \A kind \in Known : Has(kind) => kind = Outer \/ Fits(kind, Outer)
        BY OuterInnermost DEF Builds, Begins, Sound
      <4>2. "method" \in Known /\ ~Fits("method", "signal")
        BY DEF Known, Fits
      <4> QED
        BY <2>2, <4>1, <4>2
    <3>2. parser.method = 0
      BY <3>1 DEF Builds, Begins, Sound, ParserFollows, Slots
    <3> QED
      BY <1>4, <2>2, <3>2
  <2> QED
    BY <1>3, <2>1, <2>2
<1>11. /\ tag.element \in Slots /\ Outer \in Known /\ Outer # "node"
       /\ Outer \in Slots
  BY <1>2, <1>3 DEF Slots, Known
<1>12. /\ owner = IF Outer = "node" THEN Last(parser.stack) ELSE parser[Outer]
       /\ parser' = [parser EXCEPT ![tag.element] = New]
       /\ info.kind = tag.element
  BY <1>2, <1>8, <1>9, <1>10, <1>11
<1> QED
  BY <1>8, <1>9, <1>11, <1>12, SlotMakes

\* parse_node.
LEMMA NodeMakes ==
  ASSUME NEW tag \in Tags, NEW k, Builds(tag, k), StartNode(tag), failed' = FALSE
  PROVE  \E owner, info, refs : Makes(tag, k, owner, info, refs)
<1>1. Judges(tag, k)
  BY NodeJudged DEF Builds
<1>2. tag.element = "node" /\ WellPlaced(k)'
  BY <1>1 DEF Judges, StartNode
<1>3. Outer \in {"document", "node"}
  BY <1>2, BeginFacts DEF WellPlaced, Builds
<1>4. PICK info : info = NewInfo("node", tag)
  OBVIOUS
<1>5. /\ parser' = [parser EXCEPT !.stack = Append(parser.stack, New)]
      /\ infos' = IF parser.stack = <<>> THEN Append(infos, info)
                  ELSE Added(Append(infos, info), Last(parser.stack), New)
  BY <1>4 DEF StartNode, Refuses, Accepts
<1>6. Fresh(info) /\ info.kind = "node"
  BY <1>4, MadeFresh
<1>7. Forest(infos) /\ New = Len(infos) + 1 /\ Len(infos) \in Nat
  BY LenProperties DEF Builds, New, Forest, Numbered
<1>8. PICK e : e = Enclosing(k)'
  OBVIOUS
<1>9. DocumentShape /\ ParserShape /\ OpenShape /\ Following /\ Opens(tag) /\ k = Len(document) + 1
  BY DEF Builds, Begins, Sound
<1>10. tag.element \in Known \ {"annotation"}
  BY <1>2 DEF Known
<1>11. parser' = IF tag.element = "node" THEN [parser EXCEPT !.stack = Append(parser.stack, New)]
                 ELSE [parser EXCEPT ![tag.element] = New]
  BY <1>2, <1>5
<1>12. CASE Outer = "document"
  <2>1. e = 0
    BY <1>8, <1>9, <1>12, NewEnclosing
  <2>2. parser.stack = <<>>
    BY <1>12, BeginGuards DEF Builds
  <2>3. Grown(infos, infos', 0, info, 1)
    BY <1>5, <1>6, <1>7, <2>2, RootGrown
  <2>4. Makes(tag, k, 0, info, 1)
    BY <1>2, <1>6, <1>7, <1>8, <1>10, <1>11, <2>1, <2>3 DEF Makes
  <2> QED
    BY <2>4
<1>13. CASE Outer = "node"
  <2>1. parser.stack # <<>>
    BY <1>13, BeginGuards DEF Builds
  <2>2. PICK owner : owner = Last(parser.stack)
    OBVIOUS
  <2>3. owner \in 1 .. Len(infos) /\ infos[owner].kind = "node"
    <3>1. parser.stack \in Seq(Nat)
      BY <1>9 DEF ParserShape
    <3>2. Len(parser.stack) \in DOMAIN parser.stack
      BY <2>1, <3>1
    <3> QED
      BY <2>2, <3>2 DEF Last, Builds, Handles
  <2>4. owner = InfoOf(e)
    BY <1>8, <1>9, <1>13, <2>2, OwnerTold
  <2>5. e # 0
    <3>1. e \in OpenOf("node")
      BY <1>8, <1>9, <1>13, NewEnclosing
    <3>2. Range(open) \subseteq 1 .. Len(document)
      BY <1>9, OpenPositions
    <3> QED
      BY <3>1, <3>2 DEF OpenOf
  <2>6. Grown(infos, infos', owner, info, 2)
    BY <1>5, <1>6, <1>7, <2>1, <2>2, <2>3, AddedGrown
  <2>7. owner \in 0 .. Len(infos) /\ owner # 0
    BY <1>7, <2>3
  <2>8. Makes(tag, k, owner, info, 2)
    BY <1>2, <1>6, <1>8, <1>10, <1>11, <2>1, <2>3, <2>4, <2>5, <2>6, <2>7 DEF Makes
  <2> QED
    BY <2>8
<1> QED
  BY <1>3, <1>12, <1>13

--------------------------------------------------------------------------------
(* The invariant of the tree *)

\* The list of each info holds those that were made of the elements directly
\* inside of its own, and is in order.
Lists ==
  \A i \in 1 .. Len(infos) :
    /\ Arranged(infos, i) /\ Directed(infos, i)
    /\ Range(infos[i].children) = {InfoOf(k) : k \in {j \in Positions : Enclosing(j) = PositionOf(i)}}

\* The elements around an element that keep annotations.
Keepers(k) == {p \in Around[k] : Element(p) \in {"arg", "method", "interface"}}

\* The annotations are with the innermost of them.
NotesKept ==
  \A k \in 1 .. Accepted : Element(k) = "annotation" =>
    /\ Keepers(k) # {} /\ InfoOf(Max(Keepers(k))) \in 1 .. Len(infos)
    /\ document[k].tag.name \in DOMAIN infos[InfoOf(Max(Keepers(k)))].notes

\* What was made of the outermost nodes.
Rooted ==
  /\ parser.result # 0 => Enclosing(PositionOf(parser.result)) = 0
  /\ ~failed /\ parser.result = 0 =>
       \A k \in 1 .. Len(document) : Element(k) = "node" => Has("node")
  /\ phase = "loaded" => ~failed /\ parser.result # 0
  /\ phase = "crashed" => ~failed /\ open = <<>> /\ parser.result = 0

\* The rest of the types.
Shape ==
  /\ Len(document) <= MaxElements
  /\ open \in Seq(0 .. Len(document))
  /\ phase \in {"reading", "loaded", "rejected", "crashed", "released"}

\* Whose references are counted, before and after the parser and the caller are
\* done.
References ==
  IF phase \in {"rejected", "released"} THEN Counted(infos, parser.result) ELSE Held(infos)

\* All of it.
TreeInv ==
  /\ PlacesInv /\ Shape
  /\ Forest(infos) /\ Made /\ Lists /\ NotesKept
  /\ Handles /\ Rooted /\ References
  /\ phase = "reading" /\ ~failed => Following

--------------------------------------------------------------------------------
(* What the document tells of the elements there are stays *)

\* The document did not get shorter.
Remains ==
  /\ DocumentShape /\ DocumentShape' /\ Len(document) \in Nat /\ Len(document) <= Len(document')
  /\ \A j \in 0 .. Len(document) : InfoOf(j)' = InfoOf(j)
  /\ \A j \in 1 .. Len(document) :
       /\ document'[j] = document[j] /\ Element(j)' = Element(j)
       /\ Producing(j)' <=> Producing(j)
       /\ Enclosing(j)' = Enclosing(j) /\ Keepers(j)' = Keepers(j)

\* What follows when the tags are still there.
LEMMA DocumentRemains ==
  ASSUME DocumentShape, DocumentShape', Len(document) <= Len(document'),
         \A j \in 1 .. Len(document) : document'[j] = document[j]
  PROVE  Remains
<1>1. Len(document) \in Nat
  BY DEF DocumentShape
<1>2. \A j \in 1 .. Len(document) :
        /\ Element(j)' = Element(j) /\ (Producing(j)' <=> Producing(j))
        /\ Around'[j] = Around[j] /\ Enclosing(j)' = Enclosing(j)
  BY OldEnclosing
<1> HIDE DEF Around
<1>3. ASSUME NEW j \in 0 .. Len(document)
      PROVE  InfoOf(j)' = InfoOf(j)
  <2>1. \A x \in 1 .. j : x \in 1 .. Len(document)
    BY <1>1
  <2>2. {x \in 1 .. j : Producing(x)'} = {x \in 1 .. j : Producing(x)}
    BY <1>2, <2>1
  <2> QED
    BY <2>2 DEF InfoOf
<1>4. ASSUME NEW j \in 1 .. Len(document)
      PROVE  Keepers(j)' = Keepers(j)
  <2>1. Surrounded
    BY AroundShape
  <2>2. Around[j] \subseteq 1 .. j - 1
    BY <1>1, <2>1 DEF Surrounded
  <2>3. \A x \in 1 .. j - 1 : x \in 1 .. Len(document)
    BY <1>1
  <2>4. \A x \in Around[j] : Element(x)' = Element(x)
    BY <1>2, <2>2, <2>3
  <2> QED
    BY <1>2, <2>4 DEF Keepers
<1> QED
  BY <1>1, <1>2, <1>3, <1>4 DEF Remains

\* Those that keep an annotation.
LEMMA KeepersShape ==
  ASSUME DocumentShape, NEW k \in 1 .. Len(document), Keepers(k) # {}
  PROVE  Max(Keepers(k)) \in Keepers(k) /\ Max(Keepers(k)) \in 1 .. k - 1
<1>1. Surrounded /\ Len(document) \in Nat
  BY AroundShape DEF DocumentShape
<1>2. Keepers(k) \subseteq 1 .. k - 1 /\ k - 1 \in Nat
  <2> HIDE DEF Around
  <2> QED
    BY <1>1 DEF Surrounded, Keepers
<1>3. Max(Keepers(k)) \in Keepers(k)
  BY <1>2, MaxIn
<1> QED
  BY <1>2, <1>3

\* The count of the elements with an info, from one to the next.
LEMMA CountSteps ==
  \A j \in Nat : InfoOf(j + 1) = InfoOf(j) + (IF Producing(j + 1) THEN 1 ELSE 0)
BY InfoOfNext

\* The infos and their elements after a step, with one more for the last element
\* or not.
Renumbered(more, k, n) ==
  /\ Made' /\ Told /\ Told'
  /\ Positions' = IF more THEN Positions \union {k} ELSE Positions
  /\ \A i \in 1 .. Len(infos) : PositionOf(i)' = PositionOf(i)
  /\ more => InfoOf(k)' = n /\ PositionOf(n)' = k

\* The last element got an info or not.
LEMMA Numbers ==
  ASSUME Remains, Made, Len(infos) \in Nat, Len(infos') \in Nat, Len(infos) <= Len(infos'), Made',
         NEW more \in BOOLEAN,
         NEW k, k = Len(document'), NEW n, n = Len(infos'),
         \A j : j \in 1 .. Accepted' /\ Producing(j)' <=>
                  (j \in 1 .. Accepted /\ Producing(j)) \/ (more /\ j = k),
         more => InfoOf(k)' = n
  PROVE  Renumbered(more, k, n)
<1>1. Told /\ Told'
  <2>1. DocumentShape /\ DocumentShape'
    BY DEF Remains
  <2>2. Told
    BY <2>1, Numbering
  <2>3. DocumentShape' /\ Made' /\ (Len(infos) \in Nat)'
    BY <2>1
  <2>4. Told'
    BY <2>3, Numbering, PTL
  <2> QED
    BY <2>2, <2>4
<1>2. \A j : j \in Positions <=> j \in 1 .. Accepted /\ Producing(j)
  BY <1>1 DEF Told
<1>3. \A j : j \in Positions' <=> j \in 1 .. Accepted' /\ Producing(j)'
  BY <1>1 DEF Told
<1>4. Positions' = IF more THEN Positions \union {k} ELSE Positions
  BY <1>2, <1>3
<1>5. \A j \in Positions : j \in 0 .. Len(document)
  BY <1>1, <1>2 DEF Told
<1>6. ASSUME NEW i \in 1 .. n, NEW q \in Positions', InfoOf(q)' = i
      PROVE  PositionOf(i)' = q
  <2>1. PICK p : p = PositionOf(i)'
    OBVIOUS
  <2>2. p \in Positions' /\ InfoOf(p)' = i
    BY <1>1, <2>1 DEF Told
  <2> QED
    BY <1>1, <1>6, <2>1, <2>2 DEF Told
<1>7. ASSUME NEW i \in 1 .. Len(infos)
      PROVE  PositionOf(i)' = PositionOf(i)
  <2>1. PICK q : q = PositionOf(i)
    OBVIOUS
  <2>2. q \in Positions /\ InfoOf(q) = i
    BY <1>1, <2>1 DEF Told
  <2>3. InfoOf(q)' = i /\ q \in Positions'
    BY <1>4, <1>5, <2>2 DEF Remains
  <2>4. i \in 1 .. n
    OBVIOUS
  <2> QED
    BY <1>6, <2>1, <2>3, <2>4
<1>8. more => PositionOf(n)' = k
  <2> SUFFICES ASSUME more PROVE PositionOf(n)' = k
    OBVIOUS
  <2>1. k \in Positions' /\ InfoOf(k)' = n
    BY <1>4
  <2>2. n \in 1 .. n
    BY <1>1, <2>1 DEF Told
  <2> QED
    BY <1>6, <2>1, <2>2
<1> QED
  BY <1>1, <1>4, <1>7, <1>8 DEF Renumbered

\* When the document stays.
LEMMA SameNumbers ==
  ASSUME DocumentShape, Made, Len(infos) \in Nat, Len(infos') = Len(infos),
         document' = document, failed' = failed
  PROVE  Remains /\ \E k, n : Renumbered(FALSE, k, n)
<1>1. DocumentShape' /\ Len(document) <= Len(document')
  BY DEF DocumentShape
<1>2. Remains
  BY <1>1, DocumentRemains
<1>3. Accepted' = Accepted /\ Accepted \in 0 .. Len(document) /\ Len(document) \in Nat
  <2>1. Len(document) \in Nat /\ (document # <<>> => Len(document) # 0)
    BY DEF DocumentShape
  <2> QED
    BY <2>1 DEF Accepted, Made
<1>4. \A j \in 1 .. Accepted : Producing(j)' <=> Producing(j)
  BY <1>2, <1>3 DEF Remains
<1>5. \A j \in 1 .. Accepted : InfoOf(j)' = InfoOf(j)
  BY <1>2, <1>3 DEF Remains
<1>6. InfoOf(Accepted)' = InfoOf(Accepted)
  <2>1. PICK a \in 0 .. Len(document) : a = Accepted /\ a = Accepted'
    BY <1>3
  <2>2. InfoOf(a)' = InfoOf(a)
    BY <1>2 DEF Remains
  <2>3. InfoOf(Accepted)' = InfoOf(a)' /\ InfoOf(Accepted) = InfoOf(a)
    BY <2>1 DEF InfoOf
  <2> QED
    BY <2>2, <2>3
<1>7. Made'
  <2>1. failed' => document' # <<>>
    BY DEF Made
  <2>2. Len(infos') = InfoOf(Accepted)'
    BY <1>6 DEF Made
  <2>3. \A i \in 1 .. Len(infos') : \E k \in 1 .. Accepted' : Producing(k)' /\ InfoOf(k)' = i
    BY <1>3, <1>4, <1>5 DEF Made
  <2> QED
    BY <2>1, <2>2, <2>3 DEF Made
<1>8. \A j : j \in 1 .. Accepted' /\ Producing(j)' <=> j \in 1 .. Accepted /\ Producing(j)
  BY <1>3, <1>4
<1>9. PICK k, n : k = Len(document') /\ n = Len(infos')
  OBVIOUS
<1>10. Renumbered(FALSE, k, n)
  <2>1. Len(infos') \in Nat /\ Len(infos) <= Len(infos')
    OBVIOUS
  <2> QED
    BY <1>2, <1>7, <1>8, <1>9, <2>1, Numbers
<1> QED
  BY <1>2, <1>9, <1>10

\* When an element begins.
LEMMA NextNumbers ==
  ASSUME Remains, Made, ~failed, failed' \in BOOLEAN, Len(infos) \in Nat,
         Len(document') = Len(document) + 1, NEW k, k = Len(document'),
         NEW more \in BOOLEAN, more <=> ~failed' /\ Producing(k)',
         Len(infos') = Len(infos) + (IF more THEN 1 ELSE 0), NEW n, n = Len(infos')
  PROVE  Renumbered(more, k, n)
<1>1. Len(document) \in Nat /\ k = Len(document) + 1 /\ Accepted = Len(document)
  BY DEF Remains, Accepted
<1>2. Accepted' = IF failed' THEN Len(document) ELSE k
  BY <1>1 DEF Accepted
<1>3. InfoOf(k)' = InfoOf(Len(document)) + (IF Producing(k)' THEN 1 ELSE 0)
  <2>1. (\A j \in Nat : InfoOf(j + 1) = InfoOf(j) + (IF Producing(j + 1) THEN 1 ELSE 0))'
    BY CountSteps, PTL
  <2>2. PICK m \in Nat : m = Len(document)
    BY <1>1
  <2>3. InfoOf(m)' = InfoOf(m) /\ k = m + 1 /\ m \in 0 .. Len(document)
    BY <1>1, <2>2 DEF Remains
  <2>4. InfoOf(m + 1)' = InfoOf(m)' + (IF Producing(m + 1)' THEN 1 ELSE 0)
    BY <2>1
  <2> QED
    BY <2>2, <2>3, <2>4
<1>4. Len(infos) = InfoOf(Len(document))
  BY <1>1 DEF Made
<1>5. Len(infos') = InfoOf(Accepted)'
  <2>1. CASE failed'
    <3>1. PICK a \in 0 .. Len(document) : a = Accepted' /\ a = Len(document)
      BY <1>1, <1>2, <2>1
    <3>2. InfoOf(a)' = InfoOf(a) /\ InfoOf(Accepted)' = InfoOf(a)' /\ InfoOf(a) = InfoOf(Len(document))
      BY <3>1 DEF Remains, InfoOf
    <3> QED
      BY <1>4, <2>1, <3>2
  <2>2. CASE ~failed'
    <3>1. InfoOf(Accepted)' = InfoOf(k)'
      BY <1>2, <2>2 DEF InfoOf
    <3> QED
      BY <1>3, <1>4, <2>2, <3>1
  <2> QED
    BY <2>1, <2>2
<1>6. more => InfoOf(k)' = Len(infos')
  BY <1>3, <1>4
<1>7. \A j \in 1 .. Accepted : j \in 1 .. Accepted' /\ (Producing(j)' <=> Producing(j)) /\ InfoOf(j)' = InfoOf(j)
  BY <1>1, <1>2 DEF Remains
<1>8. Made'
  <2>1. document' # <<>>
    BY <1>1
  <2>2. ASSUME NEW i \in 1 .. Len(infos')
        PROVE  \E j \in 1 .. Accepted' : Producing(j)' /\ InfoOf(j)' = i
    <3>1. CASE i \in 1 .. Len(infos)
      <4>1. PICK j \in 1 .. Accepted : Producing(j) /\ InfoOf(j) = i
        BY <3>1 DEF Made
      <4> QED
        BY <1>7, <4>1
    <3>2. CASE i \notin 1 .. Len(infos)
      <4>1. more /\ i = Len(infos')
        BY <3>2
      <4>2. k \in 1 .. Accepted' /\ Producing(k)' /\ InfoOf(k)' = i
        BY <1>1, <1>2, <1>6, <4>1
      <4> QED
        BY <4>2
    <3> QED
      BY <3>1, <3>2
  <2> QED
    BY <1>5, <2>1, <2>2 DEF Made
<1>9. ASSUME NEW j
      PROVE  j \in 1 .. Accepted' /\ Producing(j)' <=>
               (j \in 1 .. Accepted /\ Producing(j)) \/ (more /\ j = k)
  <2>1. CASE j \in 1 .. Accepted
    <3>1. j # k
      BY <1>1, <2>1
    <3> QED
      BY <1>7, <2>1, <3>1
  <2>2. CASE j \notin 1 .. Accepted
    <3>1. j \in 1 .. Accepted' <=> ~failed' /\ j = k
      BY <1>1, <1>2, <2>2
    <3> QED
      BY <2>2, <3>1
  <2> QED
    BY <2>1, <2>2
<1>11. Len(infos') \in Nat /\ Len(infos) <= Len(infos')
  OBVIOUS
<1> QED
  BY <1>6, <1>8, <1>9, <1>11, Numbers

--------------------------------------------------------------------------------
(* The lists of the infos *)

\* The order of a list depends on kinds and directions only.
LEMMA KeptArranged ==
  ASSUME NEW all, Forest(all), NEW new, \A c \in 1 .. Len(all) : Alike(new[c], all[c]),
         NEW i \in 1 .. Len(all), new[i].children = all[i].children,
         Arranged(all, i), Directed(all, i)
  PROVE  Arranged(new, i) /\ Directed(new, i)
<1>1. PICK list : list = all[i].children
  OBVIOUS
<1>2. \A a \in DOMAIN list : list[a] \in 1 .. Len(all)
  <2>1. list \in Seq(Nat) /\ \A c \in Range(list) : i < c /\ c <= Len(all)
    BY <1>1 DEF Forest
  <2>2. \A a \in DOMAIN list : list[a] \in Range(list) /\ list[a] \in Nat
    BY <2>1 DEF Range
  <2>3. Len(all) \in Nat
    BY LenProperties DEF Forest, Numbered
  <2> QED
    BY <2>1, <2>2, <2>3
<1>3. new[i].kind = all[i].kind /\ \A c \in 1 .. Len(all) : new[c].direction = all[c].direction
  BY DEF Alike
<1>4. Arranged(new, i)
  <2>1. ASSUME NEW a \in DOMAIN list, NEW b \in DOMAIN list, a < b
        PROVE  InOrder(new, i, list[a], list[b])
    <3>1. InOrder(all, i, list[a], list[b])
      BY <1>1, <2>1 DEF Arranged
    <3> QED
      BY <1>2, <1>3, <3>1 DEF InOrder
  <2> QED
    BY <1>1, <2>1 DEF Arranged
<1>5. Directed(new, i)
  <2>1. \A c \in Range(list) : c \in 1 .. Len(all)
    BY <1>2 DEF Range
  <2> QED
    BY <1>1, <1>3, <2>1 DEF Directed
<1> QED
  BY <1>4, <1>5

\* When nothing is made.
LEMMA KeepsLists ==
  ASSUME Remains, NEW k, NEW n, Renumbered(FALSE, k, n), Forest(infos), Kept(infos, infos'), Lists
  PROVE  Lists'
<1>1. Len(infos') = Len(infos) /\ \A i \in 1 .. Len(infos) : Alike(infos'[i], infos[i])
  BY DEF Kept
<1>2. Positions' = Positions /\ \A j \in Positions : j \in 1 .. Len(document)
  BY DEF Renumbered, Told
<1>3. \A j \in Positions : j \in 0 .. Len(document) /\ InfoOf(j)' = InfoOf(j) /\ Enclosing(j)' = Enclosing(j)
  BY <1>2 DEF Remains
<1>4. ASSUME NEW i \in 1 .. Len(infos)
      PROVE  /\ Arranged(infos', i) /\ Directed(infos', i)
             /\ Range(infos'[i].children)
                  = {InfoOf(j)' : j \in {x \in Positions' : Enclosing(x)' = PositionOf(i)'}}
  <2>1. infos'[i].children = infos[i].children
    BY DEF Kept
  <2>2. Arranged(infos, i) /\ Directed(infos, i)
        /\ Range(infos[i].children) = {InfoOf(j) : j \in {x \in Positions : Enclosing(x) = PositionOf(i)}}
    BY DEF Lists
  <2>3. PositionOf(i)' = PositionOf(i)
    BY DEF Renumbered
  <2>4. {x \in Positions' : Enclosing(x)' = PositionOf(i)'} = {x \in Positions : Enclosing(x) = PositionOf(i)}
    BY <1>2, <1>3, <2>3
  <2>5. {InfoOf(j)' : j \in {x \in Positions : Enclosing(x) = PositionOf(i)}}
          = {InfoOf(j) : j \in {x \in Positions : Enclosing(x) = PositionOf(i)}}
    BY <1>3
  <2> QED
    BY <1>1, <2>1, <2>2, <2>4, <2>5, KeptArranged
<1> QED
  BY <1>1, <1>4 DEF Lists

\* The innermost element around one that has an info has one too.
LEMMA EnclosingProduces ==
  ASSUME DocumentShape, NEW k \in 1 .. Len(document), WellPlaced(k), Producing(k), Enclosing(k) # 0
  PROVE  Enclosing(k) \in 1 .. k - 1 /\ Producing(Enclosing(k))
<1>1. Enclosing(k) \in 0 .. k - 1 /\ k \in Nat
  BY EnclosingShape DEF DocumentShape
<1>2. Within(k) = Element(Enclosing(k))
  BY DEF Within
<1>3. Within(k) \in {"document", "node", "interface", "method", "signal"}
  BY DEF WellPlaced, Producing, Known
<1>4. Element(Enclosing(k)) \in Known
  BY EnclosingShape
<1>5. Producing(Enclosing(k))
  BY <1>2, <1>3, <1>4 DEF Producing, Known
<1> QED
  BY <1>1, <1>5

\* The innermost element around one is an earlier one, for all of them at once.
EnclosesEarlier == \A k \in 1 .. Len(document) : Enclosing(k) \in 0 .. k - 1

\* It holds of every document.
LEMMA EnclosingEarlier ==
  DocumentShape => EnclosesEarlier
BY EnclosingShape DEF EnclosesEarlier

\* The lists when an info is made.
LEMMA GrownRanges ==
  ASSUME Forest(infos), NEW info, Fresh(info), NEW owner \in 0 .. Len(infos),
         NEW refs \in Nat, Grown(infos, infos', owner, info, refs)
  PROVE  /\ \A p \in 1 .. Len(infos) :
              \A c : c \in Range(infos'[p].children) <=>
                      c \in Range(infos[p].children) \/ (p = owner /\ c = Len(infos) + 1)
         /\ Range(infos'[Len(infos) + 1].children) = {}
<1>1. \A p \in 1 .. Len(infos) :
        \A c : c \in Range(infos'[p].children) <=>
                c \in Range(infos[p].children) \/ (p = owner /\ c = Len(infos) + 1)
  BY ForestGrown
<1>2. Range(infos'[Len(infos) + 1].children) = {}
  BY ForestGrown
<1> QED
  BY <1>1, <1>2

\* When an info is made.
LEMMA GrowsLists ==
  ASSUME Remains, NEW k, NEW n, Renumbered(TRUE, k, n), Forest(infos), Lists,
         k = Len(document) + 1, k = Len(document'), n = Len(infos) + 1,
         NEW e, e = Enclosing(k)', e = 0 \/ e \in Positions,
         NEW owner \in 0 .. Len(infos), owner = IF e = 0 THEN 0 ELSE InfoOf(e),
         NEW info, Fresh(info), owner # 0 /\ infos[owner].kind = "method" => info.direction \in {"in", "out"},
         NEW refs \in Nat, Grown(infos, infos', owner, info, refs)
  PROVE  Lists'
<1>1. Len(infos') = n /\ Len(infos) \in Nat /\ \A i \in 1 .. Len(infos) : Alike(infos'[i], infos[i])
  BY LenProperties DEF Grown, Forest, Numbered
<1>2. Positions' = Positions \union {k} /\ k \notin Positions
      /\ \A j \in Positions : j \in 1 .. Len(document)
  BY DEF Renumbered, Told
<1>3. \A j \in Positions : j \in 0 .. Len(document) /\ InfoOf(j)' = InfoOf(j) /\ Enclosing(j)' = Enclosing(j)
  BY <1>2 DEF Remains
<1>4. /\ \A p \in 1 .. Len(infos) :
           \A c : c \in Range(infos'[p].children) <=>
                   c \in Range(infos[p].children) \/ (p = owner /\ c = n)
      /\ Range(infos'[n].children) = {}
  BY GrownRanges
<1>5. InfoOf(k)' = n /\ PositionOf(n)' = k
  BY DEF Renumbered
<1>6. ASSUME NEW i \in 1 .. Len(infos)
      PROVE  /\ Arranged(infos', i) /\ Directed(infos', i)
             /\ Range(infos'[i].children)
                  = {InfoOf(j)' : j \in {x \in Positions' : Enclosing(x)' = PositionOf(i)'}}
  <2>1. Arranged(infos, i) /\ Directed(infos, i)
        /\ Range(infos[i].children) = {InfoOf(j) : j \in {x \in Positions : Enclosing(x) = PositionOf(i)}}
    BY DEF Lists
  <2>2. PICK q : q = PositionOf(i) /\ q = PositionOf(i)' /\ q \in Positions /\ InfoOf(q) = i
    BY DEF Renumbered, Told
  <2>3. Arranged(infos', i) /\ Directed(infos', i)
    <3>1. CASE i = owner
      BY <2>1, <3>1, GrownArranged
    <3>2. CASE i # owner
      <4>1. infos'[i].children = infos[i].children
        BY <3>2 DEF Grown
      <4> QED
        BY <1>1, <2>1, <4>1, KeptArranged
    <3> QED
      BY <3>1, <3>2
  <2>4. i = owner <=> e = q
    <3>1. q # 0
      BY <1>2, <2>2
    <3>2. CASE e = 0
      BY <3>1, <3>2
    <3>3. CASE e # 0
      <4>1. PositionOf(InfoOf(e)) = e /\ owner = InfoOf(e)
        BY <3>3 DEF Renumbered, Told
      <4> QED
        BY <2>2, <4>1
    <3> QED
      BY <3>2, <3>3
  <2>5. {x \in Positions' : Enclosing(x)' = q}
          = {x \in Positions : Enclosing(x) = q} \union (IF i = owner THEN {k} ELSE {})
    BY <1>2, <1>3, <2>4
  <2>6. \A j \in {x \in Positions : Enclosing(x) = q} : InfoOf(j)' = InfoOf(j)
    BY <1>3
  <2>7. ASSUME NEW S, NEW T, S = {x \in Positions : Enclosing(x) = q},
               T = {x \in Positions' : Enclosing(x)' = q}
        PROVE  {InfoOf(j)' : j \in T} = {InfoOf(j) : j \in S} \union (IF i = owner THEN {n} ELSE {})
    <3>1. T = S \union (IF i = owner THEN {k} ELSE {}) /\ \A j \in S : InfoOf(j)' = InfoOf(j)
      BY <2>5, <2>6, <2>7
    <3> QED
      BY <1>5, <3>1
  <2>8. Range(infos[i].children) = {InfoOf(j) : j \in {x \in Positions : Enclosing(x) = q}}
    BY <2>1, <2>2
  <2>9. Range(infos'[i].children) = {InfoOf(j)' : j \in {x \in Positions' : Enclosing(x)' = q}}
    <3>1. Range(infos'[i].children) = Range(infos[i].children) \union (IF i = owner THEN {n} ELSE {})
      BY <1>4
    <3> QED
      BY <2>7, <2>8, <3>1
  <2> QED
    BY <2>2, <2>3, <2>9
<1>7. /\ Arranged(infos', n) /\ Directed(infos', n)
      /\ Range(infos'[n].children)
           = {InfoOf(j)' : j \in {x \in Positions' : Enclosing(x)' = PositionOf(n)'}}
  <2>1. infos'[n].children = <<>>
    BY DEF Grown
  <2>2. Arranged(infos', n) /\ Directed(infos', n)
    <3>1. DOMAIN infos'[n].children = {} /\ Range(infos'[n].children) = {}
      BY <2>1 DEF Range
    <3> QED
      BY <3>1 DEF Arranged, Directed
  <2>3. \A x \in Positions' : Enclosing(x)' # k
    <3>1. \A x \in 1 .. Len(document') : Enclosing(x)' \in 0 .. x - 1
      <4>1. DocumentShape'
        BY DEF Remains
      <4>2. EnclosesEarlier'
        BY <4>1, EnclosingEarlier, PTL
      <4> QED
        BY <4>2 DEF EnclosesEarlier
    <3>2. \A x \in Positions' : x \in 1 .. k /\ x \in Nat
      BY <1>2 DEF Remains
    <3> QED
      BY <3>1, <3>2
  <2>4. {x \in Positions' : Enclosing(x)' = k} = {}
    BY <2>3
  <2> QED
    BY <1>4, <1>5, <2>2, <2>4
<1>8. \A i \in 1 .. n : i \in 1 .. Len(infos) \/ i = n
  BY <1>1
<1> QED
  BY <1>1, <1>6, <1>7, <1>8 DEF Lists

\* The annotations there are stay with what they are kept with.
LEMMA OldNotesKept ==
  ASSUME Remains, Numbered(infos), Len(infos') \in Nat, Len(infos) <= Len(infos'),
         Accepted \in 0 .. Len(document),
         \A i \in 1 .. Len(infos) : DOMAIN infos[i].notes \subseteq DOMAIN infos'[i].notes,
         NotesKept, NEW k \in 1 .. Accepted, Element(k)' = "annotation"
  PROVE  /\ Keepers(k)' # {} /\ InfoOf(Max(Keepers(k)))' \in 1 .. Len(infos')
         /\ document'[k].tag.name \in DOMAIN infos'[InfoOf(Max(Keepers(k)))'].notes
<1>1. k \in 1 .. Len(document) /\ Len(document) \in Nat /\ Len(infos) \in Nat
  BY LenProperties DEF Remains, Numbered
<1>2. Element(k) = "annotation" /\ document'[k] = document[k] /\ Keepers(k)' = Keepers(k)
  BY <1>1 DEF Remains
<1>3. PICK m : m = Max(Keepers(k))
  OBVIOUS
<1>4. /\ Keepers(k) # {} /\ InfoOf(m) \in 1 .. Len(infos)
      /\ document[k].tag.name \in DOMAIN infos[InfoOf(m)].notes
  BY <1>2, <1>3 DEF NotesKept
<1>5. m \in 0 .. Len(document)
  BY <1>1, <1>3, <1>4, KeepersShape DEF Remains
<1>6. InfoOf(m)' = InfoOf(m)
  BY <1>5 DEF Remains
<1>7. InfoOf(Max(Keepers(k)))' = InfoOf(m)
  <2>1. Max(Keepers(k)') = m
    BY <1>2, <1>3
  <2>2. InfoOf(Max(Keepers(k)))' = InfoOf(m)'
    BY <2>1 DEF InfoOf
  <2> QED
    BY <1>6, <2>2
<1> QED
  BY <1>1, <1>2, <1>4, <1>7

--------------------------------------------------------------------------------
(* The parser's handles *)

\* The infos that were there still are.
Stays ==
  /\ Len(infos) \in Nat /\ Len(infos') \in Nat /\ Len(infos) <= Len(infos')
  /\ \A i \in 1 .. Len(infos) :
       /\ infos'[i].kind = infos[i].kind /\ (Listed(infos', i) <=> Listed(infos, i))
       /\ DOMAIN infos[i].notes \subseteq DOMAIN infos'[i].notes

\* An info that was there.
LEMMA StaysBelow ==
  ASSUME Stays, NEW i \in 1 .. Len(infos)
  PROVE  i \in 1 .. Len(infos') /\ infos'[i].kind = infos[i].kind
BY DEF Stays

\* When nothing is made.
LEMMA KeptStays ==
  ASSUME Forest(infos), Kept(infos, infos'), \A i \in 1 .. Len(infos) : infos'[i].refs \in Nat
  PROVE  Stays /\ Forest(infos')
<1>1. Len(infos) \in Nat /\ Len(infos') = Len(infos)
  BY LenProperties DEF Forest, Numbered, Kept
<1>2. Forest(infos') /\ \A i : Listed(infos', i) <=> Listed(infos, i)
  BY KeptForest
<1>3. \A i \in 1 .. Len(infos) : /\ infos'[i].kind = infos[i].kind
                                 /\ DOMAIN infos[i].notes \subseteq DOMAIN infos'[i].notes
  BY DEF Kept, Alike
<1> QED
  BY <1>1, <1>2, <1>3 DEF Stays

\* When an info is made.
LEMMA GrownStays ==
  ASSUME Forest(infos), NEW info, Fresh(info), NEW owner \in 0 .. Len(infos),
         NEW refs \in Nat, Grown(infos, infos', owner, info, refs)
  PROVE  /\ Stays /\ Forest(infos') /\ Len(infos') = Len(infos) + 1
         /\ infos'[Len(infos) + 1].kind = info.kind
         /\ Listed(infos', Len(infos) + 1) <=> owner # 0
<1>1. Len(infos) \in Nat /\ Len(infos') = Len(infos) + 1
  BY LenProperties DEF Forest, Numbered, Grown
<1>2. /\ Forest(infos')
      /\ Listed(infos', Len(infos) + 1) <=> owner # 0
  BY ForestGrown
<1>3. \A i \in 1 .. Len(infos) : Listed(infos', i) <=> Listed(infos, i)
  BY ForestGrown
<1>4. \A i \in 1 .. Len(infos) : /\ infos'[i].kind = infos[i].kind
                                 /\ DOMAIN infos[i].notes \subseteq DOMAIN infos'[i].notes
  BY DEF Grown, Alike
<1>5. infos'[Len(infos) + 1].kind = info.kind
  BY DEF Grown, Alike
<1> QED
  BY <1>1, <1>2, <1>3, <1>4, <1>5 DEF Stays

\* Slots may be emptied.
LEMMA HandlesSame ==
  ASSUME Handles, Stays, \A s \in Slots : parser'[s] = 0 \/ parser'[s] = parser[s],
         parser'.stack = parser.stack, parser'.result = parser.result,
         parser.stack \in Seq(Nat)
  PROVE  Handles'
<1>1. \A s \in Slots : parser'[s] \in 0 .. Len(infos') /\ (parser'[s] # 0 => infos'[parser'[s]].kind = s)
  <2>1. ASSUME NEW s \in Slots
        PROVE  parser'[s] \in 0 .. Len(infos') /\ (parser'[s] # 0 => infos'[parser'[s]].kind = s)
    <3>1. parser[s] \in 0 .. Len(infos) /\ (parser[s] # 0 => infos[parser[s]].kind = s)
      BY DEF Handles
    <3>2. parser[s] # 0 => parser[s] \in 1 .. Len(infos)
      BY <3>1 DEF Stays
    <3> QED
      BY <3>1, <3>2 DEF Stays
  <2> QED
    BY <2>1
<1>2. \A j \in DOMAIN parser.stack : /\ parser.stack[j] \in 1 .. Len(infos')
                                     /\ infos'[parser.stack[j]].kind = "node"
  BY StaysBelow DEF Handles
<1>3. parser.stack # <<>> => ~Listed(infos', parser.stack[1])
  <2>1. parser.stack # <<>> => 1 \in DOMAIN parser.stack
    OBVIOUS
  <2> QED
    BY <2>1 DEF Handles, Stays
<1>4. /\ parser.result \in 0 .. Len(infos')
      /\ parser.result # 0 => /\ infos'[parser.result].kind = "node"
                              /\ ~Listed(infos', parser.result)
                              /\ parser.result \notin Range(parser.stack)
  <2>1. parser.result \in 0 .. Len(infos)
        /\ (parser.result # 0 => parser.result \in 1 .. Len(infos))
    BY DEF Handles, Stays
  <2> QED
    BY <2>1 DEF Handles, Stays
<1> QED
  BY <1>1, <1>2, <1>3, <1>4 DEF Handles

\* A slot is filled.
LEMMA HandlesSlot ==
  ASSUME Handles, Stays, ParserShape, NEW s \in Slots, NEW n \in 1 .. Len(infos'),
         infos'[n].kind = s, parser' = [parser EXCEPT ![s] = n]
  PROVE  Handles'
<1>1. DOMAIN parser = {"stack", "annotation", "foreign", "result"} \union Slots
      /\ parser.stack \in Seq(Nat)
      /\ s # "stack" /\ s # "result" /\ s # "annotation" /\ s # "foreign"
  BY DEF ParserShape, Slots
<1>2. /\ parser'[s] = n /\ parser'.stack = parser.stack /\ parser'.result = parser.result
      /\ \A x \in Slots : x # s => parser'[x] = parser[x]
  BY <1>1
<1>3. \A x \in Slots : parser'[x] \in 0 .. Len(infos') /\ (parser'[x] # 0 => infos'[parser'[x]].kind = x)
  <2>1. ASSUME NEW x \in Slots, x # s
        PROVE  parser'[x] \in 0 .. Len(infos') /\ (parser'[x] # 0 => infos'[parser'[x]].kind = x)
    <3>1. parser[x] \in 0 .. Len(infos) /\ (parser[x] # 0 => infos[parser[x]].kind = x)
      BY DEF Handles
    <3>2. parser[x] # 0 => parser[x] \in 1 .. Len(infos)
      BY <3>1 DEF Stays
    <3> QED
      BY <1>2, <2>1, <3>1, <3>2 DEF Stays
  <2>2. n \in 0 .. Len(infos')
    BY DEF Stays
  <2> QED
    BY <1>2, <2>1, <2>2
<1>4. \A j \in DOMAIN parser.stack : /\ parser.stack[j] \in 1 .. Len(infos')
                                     /\ infos'[parser.stack[j]].kind = "node"
  BY DEF Handles, Stays
<1>5. parser.stack # <<>> => ~Listed(infos', parser.stack[1])
  <2>1. parser.stack # <<>> => 1 \in DOMAIN parser.stack
    BY <1>1
  <2> QED
    BY <2>1 DEF Handles, Stays
<1>6. /\ parser.result \in 0 .. Len(infos')
      /\ parser.result # 0 => /\ infos'[parser.result].kind = "node"
                              /\ ~Listed(infos', parser.result)
                              /\ parser.result \notin Range(parser.stack)
  <2>1. parser.result \in 0 .. Len(infos)
        /\ (parser.result # 0 => parser.result \in 1 .. Len(infos))
    BY DEF Handles, Stays
  <2> QED
    BY <2>1 DEF Handles, Stays
<1> QED
  BY <1>2, <1>3, <1>4, <1>5, <1>6 DEF Handles

\* A node is pushed.
LEMMA HandlesNode ==
  ASSUME Handles, Stays, ParserShape, NEW n, n = Len(infos) + 1, n \in 1 .. Len(infos'),
         infos'[n].kind = "node", parser.stack = <<>> => ~Listed(infos', n),
         parser' = [parser EXCEPT !.stack = Append(parser.stack, n)]
  PROVE  Handles'
<1>1. DOMAIN parser = {"stack", "annotation", "foreign", "result"} \union Slots
      /\ parser.stack \in Seq(Nat) /\ Len(parser.stack) \in Nat
      /\ DOMAIN parser.stack = 1 .. Len(parser.stack)
      /\ \A s \in Slots : s # "stack"
  BY DEF ParserShape, Slots
<1>2. PICK stack : stack = parser'.stack
  OBVIOUS
<1>3. /\ stack = Append(parser.stack, n) /\ parser'.result = parser.result
      /\ \A x \in Slots : parser'[x] = parser[x]
  BY <1>1, <1>2
<1>4. n \in Nat
  BY DEF Stays
<1>5. /\ DOMAIN stack = 1 .. Len(parser.stack) + 1 /\ stack # <<>>
      /\ \A j \in 1 .. Len(parser.stack) : stack[j] = parser.stack[j]
      /\ stack[Len(parser.stack) + 1] = n
  BY <1>1, <1>3, <1>4
<1>6. \A s \in Slots : parser'[s] \in 0 .. Len(infos') /\ (parser'[s] # 0 => infos'[parser'[s]].kind = s)
  <2>1. ASSUME NEW s \in Slots
        PROVE  parser'[s] \in 0 .. Len(infos') /\ (parser'[s] # 0 => infos'[parser'[s]].kind = s)
    <3>1. parser[s] \in 0 .. Len(infos) /\ (parser[s] # 0 => infos[parser[s]].kind = s)
      BY DEF Handles
    <3>2. parser[s] # 0 => parser[s] \in 1 .. Len(infos)
      BY <3>1 DEF Stays
    <3>3. parser'[s] = parser[s]
      BY <1>3, Zenon
    <3>5. 0 \in 0 .. Len(infos')
      BY DEF Stays
    <3>4. parser[s] # 0 => parser[s] \in 0 .. Len(infos') /\ infos'[parser[s]].kind = s
      BY <3>1, <3>2 DEF Stays
    <3> QED
      BY <3>3, <3>4, <3>5
  <2> QED
    BY <2>1
<1>7. \A j \in DOMAIN stack : j \in 1 .. Len(parser.stack) \/ j = Len(parser.stack) + 1
  BY <1>1, <1>5
<1>8. \A j \in DOMAIN stack : stack[j] \in 1 .. Len(infos') /\ infos'[stack[j]].kind = "node"
  <2>1. \A j \in 1 .. Len(parser.stack) : /\ parser.stack[j] \in 1 .. Len(infos')
                                          /\ infos'[parser.stack[j]].kind = "node"
    BY <1>1, StaysBelow DEF Handles
  <2> QED
    BY <1>5, <1>7, <2>1
<1>9. ~Listed(infos', stack[1])
  <2>1. CASE parser.stack = <<>>
    BY <1>5, <2>1
  <2>2. CASE parser.stack # <<>>
    <3>1. 1 \in DOMAIN parser.stack /\ stack[1] = parser.stack[1]
      BY <1>1, <1>5, <2>2
    <3> QED
      BY <2>2, <3>1 DEF Handles, Stays
  <2> QED
    BY <2>1, <2>2
<1>10. /\ parser.result \in 0 .. Len(infos')
       /\ parser.result # 0 => /\ infos'[parser.result].kind = "node"
                               /\ ~Listed(infos', parser.result)
                               /\ parser.result \notin Range(stack)
  <2>1. parser.result \in 0 .. Len(infos) /\ parser.result # n
        /\ (parser.result # 0 => parser.result \in 1 .. Len(infos))
    BY DEF Handles, Stays
  <2>2. \A j \in DOMAIN stack : stack[j] = n \/ stack[j] \in Range(parser.stack)
    <3>1. ASSUME NEW j \in 1 .. Len(parser.stack) PROVE stack[j] \in Range(parser.stack)
      <4>1. stack[j] = parser.stack[j] /\ j \in DOMAIN parser.stack
        BY <1>1, <1>5
      <4> QED
        BY <4>1 DEF Range
    <3> QED
      BY <1>5, <1>7, <3>1
  <2>3. parser.result \notin Range(parser.stack) => parser.result \notin Range(stack)
    BY <2>1, <2>2 DEF Range
  <2> QED
    BY <2>1, <2>3 DEF Handles, Stays
<1> QED
  BY <1>2, <1>3, <1>5, <1>6, <1>8, <1>9, <1>10 DEF Handles

\* A node is popped.
LEMMA HandlesPopped ==
  ASSUME Handles, Stays, parser.stack \in Seq(Nat), parser.stack # <<>>,
         \A s \in Slots : parser'[s] = parser[s],
         parser'.stack = Front(parser.stack),
         parser'.result = IF Len(parser.stack) = 1 THEN parser.stack[1] ELSE parser.result
  PROVE  Handles'
<1>1. PICK old, stack : old = parser.stack /\ stack = parser'.stack
  OBVIOUS
<1>2. /\ DOMAIN old = 1 .. Len(old) /\ Len(old) \in Nat \ {0}
      /\ DOMAIN stack = 1 .. Len(old) - 1 /\ Len(stack) = Len(old) - 1
      /\ \A j \in 1 .. Len(old) - 1 : stack[j] = old[j] /\ j \in 1 .. Len(old)
  BY <1>1 DEF Front
<1>3. \A s \in Slots : parser'[s] \in 0 .. Len(infos') /\ (parser'[s] # 0 => infos'[parser'[s]].kind = s)
  <2>1. ASSUME NEW s \in Slots
        PROVE  parser'[s] \in 0 .. Len(infos') /\ (parser'[s] # 0 => infos'[parser'[s]].kind = s)
    <3>1. parser[s] \in 0 .. Len(infos) /\ (parser[s] # 0 => infos[parser[s]].kind = s)
      BY DEF Handles
    <3>2. parser[s] # 0 => parser[s] \in 1 .. Len(infos)
      BY <3>1 DEF Stays
    <3> QED
      BY <3>1, <3>2 DEF Stays
  <2> QED
    BY <2>1
<1>4. \A j \in DOMAIN old : /\ old[j] \in 1 .. Len(infos) /\ old[j] \in 1 .. Len(infos')
                            /\ infos'[old[j]].kind = "node"
  BY <1>1, StaysBelow DEF Handles
<1>5. ~Listed(infos', old[1])
  <2>1. 1 \in DOMAIN old
    BY <1>2
  <2> QED
    BY <1>1, <1>4, <2>1 DEF Handles, Stays
<1>6. stack # <<>> => stack[1] = old[1]
  <2>1. stack # <<>> => Len(stack) # 0
    <3>1. stack \in Seq(Nat)
      BY <1>1 DEF Front
    <3> QED
      BY <3>1
  <2> QED
    BY <1>2, <2>1
<1>7. \A c \in Range(stack) : c \in Range(old)
  BY <1>2 DEF Range
<1>8. /\ parser'.result \in 0 .. Len(infos')
      /\ parser'.result # 0 => /\ infos'[parser'.result].kind = "node"
                               /\ ~Listed(infos', parser'.result)
                               /\ parser'.result \notin Range(stack)
  <2>1. CASE Len(old) = 1
    <3>1. parser'.result = old[1] /\ Range(stack) = {}
      BY <1>1, <1>2, <2>1 DEF Range
    <3> QED
      BY <1>2, <1>4, <1>5, <3>1
  <2>2. CASE Len(old) # 1
    <3>1. parser'.result = parser.result
      BY <1>1, <2>2
    <3>2. parser.result \in 0 .. Len(infos)
          /\ (parser.result # 0 => parser.result \in 1 .. Len(infos))
      BY DEF Handles, Stays
    <3> QED
      BY <1>1, <1>7, <3>1, <3>2 DEF Handles, Stays
  <2> QED
    BY <2>1, <2>2
<1>9. \A j \in DOMAIN stack : stack[j] \in 1 .. Len(infos') /\ infos'[stack[j]].kind = "node"
  BY <1>2, <1>4
<1>10. stack # <<>> => ~Listed(infos', stack[1])
  BY <1>5, <1>6
<1> QED
  BY <1>1, <1>3, <1>8, <1>9, <1>10 DEF Handles

--------------------------------------------------------------------------------
(* The slots and the stack after a step *)

\* A new element is open.
LEMMA NewOpen ==
  ASSUME DocumentShape, OpenShape, NEW tag \in Tags, Opens(tag), NEW k, k = Len(document) + 1
  PROVE  \A s : OpenOf(s)' = IF s = tag.element THEN OpenOf(s) \union {k} ELSE OpenOf(s)
<1>1. /\ Range(open)' = Range(open) \union {k}
      /\ \A p \in Range(open) : p \in 1 .. Len(document) /\ Element(p)' = Element(p)
      /\ Element(k)' = tag.element
  BY NewElement, NewPlace
<1>2. ASSUME NEW s
      PROVE  OpenOf(s)' = IF s = tag.element THEN OpenOf(s) \union {k} ELSE OpenOf(s)
  <2>1. \A p : p \in OpenOf(s)' <=> p \in OpenOf(s) \/ (p = k /\ s = tag.element)
    <3>1. \A p \in Range(open) : Element(p)' = s <=> Element(p) = s
      BY <1>1
    <3> QED
      BY <1>1, <3>1 DEF OpenOf
  <2> QED
    BY <2>1
<1> QED
  BY <1>2

\* The infos of the open elements stay.
LEMMA OpenInfos ==
  ASSUME Remains, OpenShape
  PROVE  \A s : \A p \in OpenOf(s) : p \in 1 .. Len(document) /\ p \in Nat /\ InfoOf(p)' = InfoOf(p)
<1>1. Range(open) \subseteq 1 .. Len(document) /\ Len(document) \in Nat
  BY OpenPositions DEF Remains
<1>2. \A s : \A p \in OpenOf(s) : p \in 1 .. Len(document) /\ p \in 0 .. Len(document) /\ p \in Nat
  BY <1>1 DEF OpenOf
<1> QED
  BY <1>2 DEF Remains

\* A slot is filled.
LEMMA FollowingSlot ==
  ASSUME Remains, OpenShape, ParserShape, Following, NEW kind \in Slots, ~Has(kind), NEW k, NEW n,
         \A s : OpenOf(s)' = IF s = kind THEN OpenOf(s) \union {k} ELSE OpenOf(s),
         parser' = [parser EXCEPT ![kind] = n], InfoOf(k)' = n
  PROVE  Following'
<1>1. DOMAIN parser = {"stack", "annotation", "foreign", "result"} \union Slots
      /\ kind # "stack" /\ kind # "node"
  BY DEF ParserShape, Slots
<1>2. /\ parser'[kind] = n /\ parser'.stack = parser.stack
      /\ \A s \in Slots : s # kind => parser'[s] = parser[s]
  BY <1>1
<1>3. OpenOf(kind)' = {k} /\ OpenOf("node")' = OpenOf("node")
      /\ \A s : s # kind => OpenOf(s)' = OpenOf(s)
  BY <1>1 DEF Has
<1>4. \A s : \A p \in OpenOf(s) : InfoOf(p)' = InfoOf(p)
  BY OpenInfos
<1>5. \A s \in Slots : \A p \in OpenOf(s)' : parser'[s] = InfoOf(p)'
  <2>1. ASSUME NEW s \in Slots, NEW p \in OpenOf(s)'
        PROVE  parser'[s] = InfoOf(p)'
    <3>1. CASE s = kind
      <4>1. p = k
        BY <1>3, <2>1, <3>1
      <4> QED
        BY <1>2, <3>1, <4>1
    <3>2. CASE s # kind
      <4>1. p \in OpenOf(s) /\ InfoOf(p)' = InfoOf(p) /\ parser'[s] = parser[s]
        BY <1>2, <1>3, <1>4, <2>1, <3>2
      <4>2. parser[s] = InfoOf(p)
        BY <4>1 DEF Following
      <4> QED
        BY <4>1, <4>2
    <3> QED
      BY <3>1, <3>2
  <2> QED
    BY <2>1
<1>6. Range(parser'.stack) = {InfoOf(p)' : p \in OpenOf("node")'}
  <2>1. Range(parser.stack) = {InfoOf(p) : p \in OpenOf("node")}
    BY DEF Following
  <2>2. \A p \in OpenOf("node") : InfoOf(p)' = InfoOf(p)
    BY <1>4
  <2>3. {InfoOf(p)' : p \in OpenOf("node")} = {InfoOf(p) : p \in OpenOf("node")}
    BY <2>2
  <2> QED
    BY <1>2, <1>3, <2>1, <2>3
<1>7. \A i, j \in DOMAIN parser'.stack : i < j => parser'.stack[i] < parser'.stack[j]
  BY <1>2 DEF Following
<1> QED
  BY <1>5, <1>6, <1>7 DEF Following

\* A node is pushed.
LEMMA FollowingNode ==
  ASSUME Remains, OpenShape, ParserShape, Following, NEW k, NEW n \in Nat,
         \A s : OpenOf(s)' = IF s = "node" THEN OpenOf(s) \union {k} ELSE OpenOf(s),
         parser' = [parser EXCEPT !.stack = Append(parser.stack, n)], InfoOf(k)' = n,
         \A j \in DOMAIN parser.stack : parser.stack[j] < n
  PROVE  Following'
<1>1. DOMAIN parser = {"stack", "annotation", "foreign", "result"} \union Slots
      /\ parser.stack \in Seq(Nat) /\ Len(parser.stack) \in Nat
      /\ DOMAIN parser.stack = 1 .. Len(parser.stack)
      /\ \A s \in Slots : s # "stack" /\ s # "node"
  BY DEF ParserShape, Slots
<1>2. PICK stack : stack = parser'.stack
  OBVIOUS
<1>3. /\ stack = Append(parser.stack, n)
      /\ \A x \in Slots : parser'[x] = parser[x]
  BY <1>1, <1>2
<1>4. /\ DOMAIN stack = 1 .. Len(parser.stack) + 1
      /\ \A j \in 1 .. Len(parser.stack) : stack[j] = parser.stack[j]
      /\ stack[Len(parser.stack) + 1] = n
      /\ \A j \in DOMAIN stack : j \in 1 .. Len(parser.stack) \/ j = Len(parser.stack) + 1
  BY <1>1, <1>3
<1>5. \A s : \A p \in OpenOf(s) : InfoOf(p)' = InfoOf(p)
  BY OpenInfos
<1>6. \A s \in Slots : \A p \in OpenOf(s)' : parser'[s] = InfoOf(p)'
  <2>1. ASSUME NEW s \in Slots, NEW p \in OpenOf(s)'
        PROVE  parser'[s] = InfoOf(p)'
    <3>1. p \in OpenOf(s) /\ InfoOf(p)' = InfoOf(p)
      <4>1. OpenOf(s)' = OpenOf(s)
        BY <1>1
      <4> QED
        BY <1>5, <2>1, <4>1
    <3>2. parser'[s] = parser[s]
      BY <1>3, Zenon
    <3>3. parser[s] = InfoOf(p)
      BY <3>1 DEF Following
    <3> QED
      BY <3>1, <3>2, <3>3
  <2> QED
    BY <2>1
<1>7. Range(stack) = {InfoOf(p)' : p \in OpenOf("node")'}
  <2>1. Range(stack) = Range(parser.stack) \union {n}
    BY <1>1, <1>4 DEF Range
  <2>2. Range(parser.stack) = {InfoOf(p) : p \in OpenOf("node")}
    BY DEF Following
  <2>3. OpenOf("node")' = OpenOf("node") \union {k} /\ \A p \in OpenOf("node") : InfoOf(p)' = InfoOf(p)
    BY <1>5
  <2>4. ASSUME NEW S, NEW T, S = OpenOf("node"), T = OpenOf("node")'
        PROVE  {InfoOf(p)' : p \in T} = {InfoOf(p) : p \in S} \union {n}
    <3>1. T = S \union {k} /\ \A p \in S : InfoOf(p)' = InfoOf(p)
      BY <2>3, <2>4
    <3> QED
      BY <3>1
  <2> QED
    BY <2>1, <2>2, <2>4
<1>8. ASSUME NEW i \in DOMAIN stack, NEW j \in DOMAIN stack, i < j
      PROVE  stack[i] < stack[j]
  <2>1. i \in 1 .. Len(parser.stack)
    BY <1>1, <1>4, <1>8
  <2>2. CASE j \in 1 .. Len(parser.stack)
    BY <1>1, <1>4, <1>8, <2>1, <2>2 DEF Following
  <2>3. CASE j = Len(parser.stack) + 1
    BY <1>1, <1>4, <2>1, <2>3
  <2> QED
    BY <1>4, <2>2, <2>3
<1> QED
  BY <1>2, <1>6, <1>7, <1>8 DEF Following

\* Neither the slots nor the stack change.
LEMMA FollowingSame ==
  ASSUME Remains, OpenShape, Following,
         \A s \in Slots \union {"node"} : OpenOf(s)' = OpenOf(s),
         \A s \in Slots : parser'[s] = parser[s], parser'.stack = parser.stack
  PROVE  Following'
<1>1. \A s : \A p \in OpenOf(s) : InfoOf(p)' = InfoOf(p)
  BY OpenInfos
<1>2. \A s \in Slots : \A p \in OpenOf(s)' : parser'[s] = InfoOf(p)'
  <2>1. ASSUME NEW s \in Slots, NEW p \in OpenOf(s)'
        PROVE  parser'[s] = InfoOf(p)'
    <3>1. p \in OpenOf(s) /\ InfoOf(p)' = InfoOf(p)
      BY <1>1, <2>1
    <3>2. parser[s] = InfoOf(p)
      BY <3>1 DEF Following
    <3> QED
      BY <3>1, <3>2
  <2> QED
    BY <2>1
<1>3. Range(parser'.stack) = {InfoOf(p)' : p \in OpenOf("node")'}
  <2>1. Range(parser.stack) = {InfoOf(p) : p \in OpenOf("node")}
    BY DEF Following
  <2>2. \A p \in OpenOf("node") : InfoOf(p)' = InfoOf(p)
    BY <1>1
  <2>3. {InfoOf(p)' : p \in OpenOf("node")} = {InfoOf(p) : p \in OpenOf("node")}
    BY <2>2
  <2> QED
    BY <2>1, <2>3
<1>4. \A i, j \in DOMAIN parser'.stack : i < j => parser'.stack[i] < parser'.stack[j]
  BY DEF Following
<1> QED
  BY <1>2, <1>3, <1>4 DEF Following

\* The innermost open node is on top of the stack.
LEMMA TopOfStack ==
  ASSUME OpenShape, DocumentShape, Following, parser.stack \in Seq(Nat),
         NEW last \in OpenOf("node"), \A p \in OpenOf("node") : p = last \/ p < last
  PROVE  /\ Len(parser.stack) \in DOMAIN parser.stack
         /\ parser.stack[Len(parser.stack)] = InfoOf(last)
         /\ \A p \in OpenOf("node") : p # last => InfoOf(p) < InfoOf(last)
<1>1. PICK stack, m : stack = parser.stack /\ m = Len(stack)
  OBVIOUS
<1>2. stack \in Seq(Nat) /\ m \in Nat /\ DOMAIN stack = 1 .. m /\ \A j \in 1 .. m : stack[j] \in Nat
  BY <1>1
<1>3. \A p \in OpenOf("node") : p \in Nat /\ p \in 1 .. Len(document)
  BY OpenPositions DEF OpenOf
<1>4. ASSUME NEW p \in OpenOf("node"), p # last
      PROVE  InfoOf(p) < InfoOf(last)
  <2>1. Producing(last)
    BY DEF OpenOf, Producing, Known
  <2>2. p < last /\ p <= last /\ p \in Nat /\ last \in Nat
    BY <1>3, <1>4
  <2> QED
    BY <2>1, <2>2, InfoOfGrows
<1>5. PICK j \in 1 .. m : stack[j] = InfoOf(last)
  <2>1. InfoOf(last) \in Range(stack)
    BY <1>1 DEF Following
  <2> QED
    BY <1>2, <2>1 DEF Range
<1>6. m \in 1 .. m /\ j <= m
  BY <1>2
<1>7. PICK p \in OpenOf("node") : stack[m] = InfoOf(p)
  <2>1. stack[m] \in Range(stack)
    BY <1>2, <1>6 DEF Range
  <2> QED
    BY <1>1, <2>1 DEF Following
<1>8. j = m
  <2>1. j < m => stack[j] < stack[m]
    BY <1>1, <1>2, <1>6 DEF Following
  <2>2. stack[m] = stack[j] \/ stack[m] < stack[j]
    BY <1>4, <1>5, <1>7
  <2> QED
    BY <1>2, <1>6, <2>1, <2>2
<1> QED
  BY <1>1, <1>2, <1>4, <1>5, <1>6, <1>8

\* A node is popped.
LEMMA FollowingPopped ==
  ASSUME Remains, OpenShape, Following, parser.stack \in Seq(Nat),
         NEW last \in OpenOf("node"), \A p \in OpenOf("node") : p = last \/ p < last,
         OpenOf("node")' = OpenOf("node") \ {last}, \A s \in Slots : OpenOf(s)' = OpenOf(s),
         \A s \in Slots : parser'[s] = parser[s], parser'.stack = Front(parser.stack)
  PROVE  Following'
<1>1. PICK old, stack, m : old = parser.stack /\ stack = parser'.stack /\ m = Len(old)
  OBVIOUS
<1>2. /\ m \in DOMAIN old /\ old[m] = InfoOf(last)
      /\ \A p \in OpenOf("node") : p # last => InfoOf(p) < InfoOf(last)
  BY <1>1, TopOfStack DEF Remains
<1>3. /\ DOMAIN old = 1 .. m /\ m \in Nat \ {0} /\ DOMAIN stack = 1 .. m - 1
      /\ \A j \in 1 .. m - 1 : stack[j] = old[j] /\ j \in 1 .. m /\ j < m
      /\ \A j \in 1 .. m : old[j] \in Nat /\ (j = m \/ j \in 1 .. m - 1)
  BY <1>1, <1>2 DEF Front
<1>4. \A s : \A p \in OpenOf(s) : InfoOf(p)' = InfoOf(p)
  BY OpenInfos
<1>5. \A i, j \in DOMAIN old : i < j => old[i] < old[j]
  BY <1>1 DEF Following
<1>6. ASSUME NEW c
      PROVE  c \in Range(stack) <=> c \in Range(old) /\ c # InfoOf(last)
  <2>1. ASSUME NEW j \in 1 .. m - 1
        PROVE  stack[j] = old[j] /\ old[j] # old[m]
    <3>1. old[j] < old[m] /\ old[j] \in Nat /\ old[m] \in Nat
      BY <1>3, <1>5
    <3> QED
      BY <1>3, <3>1
  <2> QED
    BY <1>2, <1>3, <2>1 DEF Range
<1>7. Range(stack) = {InfoOf(p)' : p \in OpenOf("node")'}
  <2>1. Range(old) = {InfoOf(p) : p \in OpenOf("node")}
    BY <1>1 DEF Following
  <2>2. \A p \in OpenOf("node") : p # last => InfoOf(p) # InfoOf(last)
    <3>1. \A p \in OpenOf("node") : InfoOf(p) \in Nat
      BY OpenInfos, ProducersFinite
    <3> QED
      BY <1>2, <3>1
  <2>3. ASSUME NEW c
        PROVE  c \in Range(stack) <=> \E p \in OpenOf("node")' : c = InfoOf(p)'
    <3>1. ASSUME c \in Range(stack)
          PROVE  \E p \in OpenOf("node")' : c = InfoOf(p)'
      <4>1. c \in Range(old) /\ c # InfoOf(last)
        BY <1>6, <3>1
      <4>2. PICK p \in OpenOf("node") : c = InfoOf(p)
        BY <2>1, <4>1
      <4>3. p \in OpenOf("node")' /\ InfoOf(p)' = InfoOf(p)
        BY <1>4, <4>1, <4>2
      <4> QED
        BY <4>2, <4>3
    <3>2. ASSUME NEW p \in OpenOf("node")', c = InfoOf(p)'
          PROVE  c \in Range(stack)
      <4>1. p \in OpenOf("node") /\ p # last
        BY <3>2
      <4>2. c = InfoOf(p) /\ c # InfoOf(last)
        BY <1>4, <2>2, <3>2, <4>1
      <4>3. c \in Range(old)
        BY <2>1, <4>1, <4>2
      <4> QED
        BY <1>6, <4>2, <4>3
    <3> QED
      BY <3>1, <3>2
  <2> QED
    BY <2>3
<1>8. \A s \in Slots : \A p \in OpenOf(s)' : parser'[s] = InfoOf(p)'
  <2>1. ASSUME NEW s \in Slots, NEW p \in OpenOf(s)'
        PROVE  parser'[s] = InfoOf(p)'
    <3>1. p \in OpenOf(s) /\ InfoOf(p)' = InfoOf(p)
      <4>1. OpenOf(s)' = OpenOf(s)
        OBVIOUS
      <4> QED
        BY <1>4, <2>1, <4>1
    <3>2. parser[s] = InfoOf(p)
      BY <3>1 DEF Following
    <3> QED
      BY <3>1, <3>2
  <2> QED
    BY <2>1
<1>9. \A i, j \in DOMAIN stack : i < j => stack[i] < stack[j]
  BY <1>3, <1>5
<1> QED
  BY <1>1, <1>7, <1>8, <1>9 DEF Following

\* The open elements of each kind after the innermost one ended.
LEMMA EndedOpen ==
  ASSUME DocumentShape, Sound, open # <<>>, document' = document, open' = Front(open),
         NEW last, last = Last(open), NEW kind, kind = Element(last)
  PROVE  /\ last \in OpenOf(kind) /\ \A p \in OpenOf(kind) : p = last \/ p < last
         /\ \A s : OpenOf(s)' = IF s = kind THEN OpenOf(s) \ {last} ELSE OpenOf(s)
<1>1. /\ last \in Range(open) /\ \A p \in Range(open) : p = last \/ p < last
      /\ Range(open)' = Range(open) \ {last}
  BY EndOpen
<1>2. \A p \in Range(open) : Element(p)' = Element(p)
  BY DEF Element
<1>3. \A s : OpenOf(s)' = IF s = kind THEN OpenOf(s) \ {last} ELSE OpenOf(s)
  BY <1>1, <1>2 DEF OpenOf
<1> QED
  BY <1>1, <1>3 DEF OpenOf

\* An element ends.
LEMMA EndFollows ==
  ASSUME DocumentShape, ParserShape, Sound, Following, Remains, ~failed, End, Sound'
  PROVE  Following'
<1>1. PICK last, kind : last = Last(open) /\ kind = Element(last)
  OBVIOUS
<1>2. open # <<>> /\ document' = document /\ open' = Front(open) /\ parser' = Closed(parser, kind)
  BY <1>1 DEF End, Element
<1>3. /\ last \in OpenOf(kind) /\ \A p \in OpenOf(kind) : p = last \/ p < last
      /\ \A s : OpenOf(s)' = IF s = kind THEN OpenOf(s) \ {last} ELSE OpenOf(s)
  BY <1>1, <1>2, EndedOpen
<1>4. /\ DOMAIN parser = {"stack", "annotation", "foreign", "result"} \union Slots
      /\ parser.stack \in Seq(Nat)
      /\ \A s \in Slots : s \notin {"stack", "annotation", "foreign", "result", "node", "x:y"}
  BY DEF ParserShape, Slots
<1>5. OpenShape
  BY DEF Sound
<1>6. CASE kind \in Slots
  <2>1. parser' = [parser EXCEPT ![kind] = 0]
    BY <1>2, <1>6 DEF Closed
  <2>2. /\ parser'[kind] = 0 /\ parser'.stack = parser.stack
        /\ \A s \in Slots : s # kind => parser'[s] = parser[s]
    BY <1>4, <1>6, <2>1
  <2>3. OpenOf(kind)' = {}
    BY <1>6, <2>2 DEF Sound, ParserFollows, Has
  <2>4. \A s : s # kind => OpenOf(s)' = OpenOf(s)
    BY <1>3
  <2>5. kind # "node"
    BY <1>4, <1>6
  <2>6. \A s : \A p \in OpenOf(s) : InfoOf(p)' = InfoOf(p)
    BY <1>5, OpenInfos
  <2>7. \A s \in Slots : \A p \in OpenOf(s)' : parser'[s] = InfoOf(p)'
    <3>1. ASSUME NEW s \in Slots, NEW p \in OpenOf(s)'
          PROVE  parser'[s] = InfoOf(p)'
      <4>1. s # kind
        BY <2>3, <3>1
      <4>2. p \in OpenOf(s)
        BY <2>4, <3>1, <4>1
      <4>3. InfoOf(p)' = InfoOf(p) /\ parser[s] = InfoOf(p) /\ parser'[s] = parser[s]
        BY <2>2, <2>6, <4>1, <4>2 DEF Following
      <4> QED
        BY <4>3
    <3> QED
      BY <3>1
  <2>8. Range(parser'.stack) = {InfoOf(p)' : p \in OpenOf("node")'}
    <3>1. Range(parser.stack) = {InfoOf(p) : p \in OpenOf("node")}
      BY DEF Following
    <3>2. \A p \in OpenOf("node") : InfoOf(p)' = InfoOf(p)
      BY <2>6
    <3>3. {InfoOf(p)' : p \in OpenOf("node")} = {InfoOf(p) : p \in OpenOf("node")}
      BY <3>2
    <3>4. OpenOf("node")' = OpenOf("node")
      BY <2>4, <2>5
    <3> QED
      BY <2>2, <3>1, <3>3, <3>4
  <2>9. \A i, j \in DOMAIN parser'.stack : i < j => parser'.stack[i] < parser'.stack[j]
    BY <2>2 DEF Following
  <2> QED
    BY <2>7, <2>8, <2>9 DEF Following
<1>7. CASE kind = "node"
  <2>1. parser' = [parser EXCEPT !.stack = Front(parser.stack),
                                 !.result = IF Len(parser.stack) = 1 THEN parser.stack[1] ELSE parser.result]
    BY <1>2, <1>7 DEF Closed, Slots
  <2>2. parser'.stack = Front(parser.stack) /\ \A s \in Slots : parser'[s] = parser[s]
    BY <1>4, <2>1
  <2>3. OpenOf("node")' = OpenOf("node") \ {last} /\ \A s \in Slots : OpenOf(s)' = OpenOf(s)
    BY <1>3, <1>4, <1>7
  <2>4. last \in OpenOf("node") /\ \A p \in OpenOf("node") : p = last \/ p < last
    BY <1>3, <1>7
  <2> QED
    BY <1>4, <1>5, <2>2, <2>3, <2>4, FollowingPopped
<1>8. CASE kind \notin Slots /\ kind # "node"
  <2>1. parser' = IF kind = "annotation" THEN [parser EXCEPT !.annotation = FALSE]
                  ELSE IF kind = "x:y" THEN [parser EXCEPT !.foreign = @ - 1] ELSE parser
    BY <1>2, <1>8 DEF Closed
  <2>2. parser'.stack = parser.stack /\ \A s \in Slots : parser'[s] = parser[s]
    <3>1. CASE kind = "annotation"
      BY <1>4, <2>1, <3>1
    <3>2. CASE kind = "x:y"
      BY <1>4, <2>1, <3>2
    <3>3. CASE kind # "annotation" /\ kind # "x:y"
      BY <2>1, <3>3
    <3> QED
      BY <3>1, <3>2, <3>3
  <2>3. \A s \in Slots \union {"node"} : OpenOf(s)' = OpenOf(s)
    BY <1>3, <1>8
  <2> QED
    BY <1>5, <2>2, <2>3, FollowingSame
<1> QED
  BY <1>6, <1>7, <1>8

--------------------------------------------------------------------------------
(* Each step preserves the invariant of the tree *)

\* A step that leaves the infos.
LEMMA KeptSame ==
  ASSUME NEW all, Forest(all)
  PROVE  Kept(all, all) /\ \A i \in 1 .. Len(all) : all[i].refs \in Nat
BY DEF Kept, Forest, Alike

\* Before the document there is no tree.
LEMMA TreeInit ==
  Init => TreeInv
<1> SUFFICES ASSUME Init PROVE TreeInv
  OBVIOUS
<1>1. /\ document = <<>> /\ open = <<>> /\ infos = <<>> /\ parser = NewParser
      /\ failed = FALSE /\ phase = "reading"
  BY DEF Init
<1>2. Len(infos) = 0 /\ Len(document) = 0 /\ Len(open) = 0 /\ DOMAIN open = {}
  BY <1>1
<1>3. \A s \in Slots : parser[s] = 0
  BY <1>1 DEF NewParser, Slots
<1>4. parser.stack = <<>> /\ parser.result = 0 /\ DOMAIN parser.stack = {} /\ Range(parser.stack) = {}
  BY <1>1 DEF NewParser, Range
<1>5. Range(open) = {} /\ \A s : OpenOf(s) = {}
  BY <1>2 DEF Range, OpenOf
<1>6. Shape
  BY <1>1, <1>2, DescriptionAssumption DEF Shape
<1>7. Forest(infos)
  <2>1. Numbered(infos)
    BY <1>1 DEF Numbered
  <2> QED
    BY <1>2, <2>1 DEF Forest
<1>8. Accepted = 0
  BY <1>1, <1>2 DEF Accepted
<1>9. Made
  <2>1. InfoOf(0) = 0
    <3>1. Producers(0) = {}
      BY DEF Producers
    <3> QED
      BY <3>1, ProducersFinite, FS_EmptySet
  <2>2. InfoOf(Accepted) = 0
    BY <1>8, <2>1
  <2> QED
    BY <1>1, <1>2, <2>2 DEF Made
<1>10. Lists /\ NotesKept
  BY <1>2, <1>8 DEF Lists, NotesKept
<1>11. Handles
  BY <1>2, <1>3, <1>4 DEF Handles
<1>12. Rooted
  BY <1>1, <1>2, <1>4 DEF Rooted
<1>13. References
  BY <1>1, <1>2 DEF References, Held
<1>14. Following
  BY <1>4, <1>5 DEF Following
<1> QED
  BY <1>6, <1>7, <1>9, <1>10, <1>11, <1>12, <1>13, <1>14, PlacesInit DEF TreeInv

\* The document stays, and the tree but for the counts.
LEMMA SameTree ==
  ASSUME TreeInv, document' = document, failed' = failed,
         Kept(infos, infos'), \A i \in 1 .. Len(infos) : infos'[i].refs \in Nat
  PROVE  /\ Remains /\ Stays /\ Forest(infos') /\ Made' /\ Lists' /\ NotesKept'
         /\ \A i \in 1 .. Len(infos) : PositionOf(i)' = PositionOf(i)
         /\ Told
<1>1. DocumentShape /\ Made /\ Forest(infos) /\ Numbered(infos) /\ Len(infos) \in Nat
      /\ Lists /\ NotesKept
  BY LenProperties DEF TreeInv, PlacesInv, Forest, Numbered
<1>2. Len(infos') = Len(infos)
  BY DEF Kept
<1>3. PICK k, n : Remains /\ Renumbered(FALSE, k, n)
  BY <1>1, <1>2, SameNumbers
<1>4. Stays /\ Forest(infos')
  BY <1>1, KeptStays
<1>5. Lists'
  BY <1>1, <1>3, KeepsLists
<1>6. Made' /\ Told /\ \A i \in 1 .. Len(infos) : PositionOf(i)' = PositionOf(i)
  BY <1>3 DEF Renumbered
<1>7. Accepted \in 0 .. Len(document) /\ Accepted' = Accepted
  BY <1>6 DEF Told, Accepted
<1>8. \A i \in 1 .. Len(infos) : DOMAIN infos[i].notes \subseteq DOMAIN infos'[i].notes
  BY <1>4 DEF Stays
<1>9. \A p \in 1 .. Accepted' : Element(p)' = "annotation" =>
        /\ Keepers(p)' # {} /\ InfoOf(Max(Keepers(p)))' \in 1 .. Len(infos')
        /\ document'[p].tag.name \in DOMAIN infos'[InfoOf(Max(Keepers(p)))'].notes
  <2>1. ASSUME NEW p \in 1 .. Accepted, Element(p)' = "annotation"
        PROVE  /\ Keepers(p)' # {} /\ InfoOf(Max(Keepers(p)))' \in 1 .. Len(infos')
               /\ document'[p].tag.name \in DOMAIN infos'[InfoOf(Max(Keepers(p)))'].notes
    <3>1. Len(infos') \in Nat /\ Len(infos) <= Len(infos')
      BY <1>1, <1>2
    <3> QED
      BY <1>1, <1>3, <1>7, <1>8, <2>1, <3>1, OldNotesKept
  <2> QED
    BY <1>7, <2>1
<1>10. NotesKept'
  BY <1>9 DEF NotesKept
<1> QED
  BY <1>3, <1>4, <1>5, <1>6, <1>10

\* What holds of the outermost nodes when one ends.
LEMMA EndRooted ==
  ASSUME TreeInv, PlacesInv', ~failed, End
  PROVE  /\ parser'.result # 0 => Enclosing(PositionOf(parser'.result)) = 0
         /\ parser'.result = 0 =>
              \A k \in 1 .. Len(document) : Element(k) = "node" => Has("node")'
         /\ Handles'
<1>1. PICK last, kind : last = Last(open) /\ kind = Element(last)
  OBVIOUS
<1>2. /\ open # <<>> /\ document' = document /\ open' = Front(open)
      /\ parser' = Closed(parser, kind) /\ infos' = infos /\ failed' = failed /\ phase = "reading"
  BY <1>1 DEF End, Element
<1>3. /\ DocumentShape /\ ParserShape /\ Sound /\ OpenShape /\ Following /\ Handles /\ Rooted
      /\ Forest(infos) /\ Made
  BY <1>2 DEF TreeInv, PlacesInv, Sound
<1>4. Kept(infos, infos') /\ \A i \in 1 .. Len(infos) : infos'[i].refs \in Nat
  BY <1>2, <1>3, KeptSame
<1>5. Remains /\ Stays /\ Told
  BY <1>2, <1>4, SameTree
<1>6. /\ last \in OpenOf(kind) /\ \A p \in OpenOf(kind) : p = last \/ p < last
      /\ \A s : OpenOf(s)' = IF s = kind THEN OpenOf(s) \ {last} ELSE OpenOf(s)
  BY <1>1, <1>2, <1>3, EndedOpen
<1>7. /\ DOMAIN parser = {"stack", "annotation", "foreign", "result"} \union Slots
      /\ parser.stack \in Seq(Nat)
      /\ \A s \in Slots : s \notin {"stack", "annotation", "foreign", "result", "node", "x:y"}
  BY <1>3 DEF ParserShape, Slots
<1>8. CASE kind # "node"
  <2>1. parser' = IF kind \in Slots THEN [parser EXCEPT ![kind] = 0]
                  ELSE IF kind = "annotation" THEN [parser EXCEPT !.annotation = FALSE]
                  ELSE IF kind = "x:y" THEN [parser EXCEPT !.foreign = @ - 1] ELSE parser
    BY <1>2, <1>8 DEF Closed
  <2>2. /\ parser'.stack = parser.stack /\ parser'.result = parser.result
        /\ \A s \in Slots : parser'[s] = 0 \/ parser'[s] = parser[s]
    <3>1. CASE kind \in Slots
      BY <1>7, <2>1, <3>1
    <3>2. CASE kind = "annotation"
      BY <1>7, <2>1, <3>2
    <3>3. CASE kind = "x:y"
      BY <1>7, <2>1, <3>3
    <3>4. CASE kind \notin Slots /\ kind # "annotation" /\ kind # "x:y"
      BY <2>1, <3>4
    <3> QED
      BY <3>1, <3>2, <3>3, <3>4
  <2>3. Handles'
    BY <1>3, <1>5, <1>7, <2>2, HandlesSame
  <2>4. Has("node")' <=> Has("node")
    BY <1>6, <1>8 DEF Has
  <2> QED
    BY <1>3, <2>2, <2>3, <2>4 DEF Rooted
<1>9. CASE kind = "node"
  <2>1. parser' = [parser EXCEPT !.stack = Front(parser.stack),
                                 !.result = IF Len(parser.stack) = 1 THEN parser.stack[1] ELSE parser.result]
    BY <1>2, <1>9 DEF Closed, Slots
  <2>2. /\ parser'.stack = Front(parser.stack) /\ \A s \in Slots : parser'[s] = parser[s]
        /\ parser'.result = IF Len(parser.stack) = 1 THEN parser.stack[1] ELSE parser.result
    BY <1>7, <2>1
  <2>3. last \in OpenOf("node") /\ \A p \in OpenOf("node") : p = last \/ p < last
    BY <1>6, <1>9
  <2>4. PICK m : m = Len(parser.stack)
    OBVIOUS
  <2>5. m \in DOMAIN parser.stack /\ parser.stack[m] = InfoOf(last)
        /\ \A p \in OpenOf("node") : p # last => InfoOf(p) < InfoOf(last)
    BY <1>3, <1>7, <2>3, <2>4, TopOfStack
  <2>10. DOMAIN parser.stack = 1 .. m /\ m \in Nat
    BY <1>7, <2>4
  <2>6. parser.stack # <<>> /\ m \in Nat \ {0}
    BY <1>7, <2>4, <2>5, <2>10
  <2>7. Handles'
    BY <1>3, <1>5, <1>7, <2>2, <2>6, HandlesPopped
  <2>8. CASE m = 1
    <3>1. parser'.result = InfoOf(last)
      BY <2>2, <2>4, <2>5, <2>8
    <3>2. last \in Positions /\ InfoOf(last) \in 1 .. Len(infos) /\ PositionOf(InfoOf(last)) = last
      <4>1. last \in 1 .. Len(document) /\ Producing(last)
        BY <1>3, <2>3, OpenPositions DEF OpenOf, Producing, Known
      <4>2. Accepted = Len(document)
        BY DEF Accepted
      <4> QED
        BY <1>5, <4>1, <4>2 DEF Told
    <3>3. Enclosing(last) = 0
      <4> SUFFICES ASSUME Enclosing(last) # 0 PROVE FALSE
        OBVIOUS
      <4>1. PICK e : e = Enclosing(last)
        OBVIOUS
      <4>2. last \in 1 .. Len(document) /\ last \in Range(open) /\ Element(last) = "node"
        BY <1>3, <2>3, OpenPositions DEF OpenOf
      <4>3. e \in Around[last] /\ Element(e) \in Known
        BY <1>3, <4>1, <4>2, EnclosingShape
      <4>4. e \in Range(open) /\ e < last
        BY <1>3, <4>2, <4>3 DEF OpenShape
      <4>5. Fits(Element(e), "node")
        BY <1>3, <4>2, <4>3, <4>4 DEF Sound, Nested, Known
      <4>6. e \in OpenOf("node")
        BY <4>4, <4>5 DEF Fits, OpenOf
      <4>7. e # last
        <5>1. last \in Nat
          BY <4>2
        <5> QED
          BY <4>4, <5>1
      <4>8. InfoOf(e) < InfoOf(last)
        BY <2>5, <4>6, <4>7
      <4>9. PICK j \in DOMAIN parser.stack : parser.stack[j] = InfoOf(e)
        <5>1. InfoOf(e) \in Range(parser.stack)
          BY <1>3, <4>6 DEF Following
        <5> QED
          BY <5>1 DEF Range
      <4>10. j = m
        BY <2>8, <2>10, <4>9
      <4>11. InfoOf(last) \in Nat
        BY <3>2
      <4> QED
        BY <2>5, <4>8, <4>9, <4>10, <4>11
    <3>4. parser'.result # 0 => Enclosing(PositionOf(parser'.result)) = 0
      BY <3>1, <3>2, <3>3
    <3>5. parser'.result # 0
      BY <3>1, <3>2
    <3> QED
      BY <2>7, <3>4, <3>5
  <2>9. CASE m # 1
    <3>1. parser'.result = parser.result
      BY <2>2, <2>4, <2>9
    <3>2. Has("node")'
      <4>1. 1 \in DOMAIN parser.stack /\ 1 < m /\ m \in DOMAIN parser.stack
        BY <2>6, <2>9, <2>10
      <4>2. parser.stack[1] < parser.stack[m]
        BY <1>3, <4>1 DEF Following
      <4>3. PICK p \in OpenOf("node") : parser.stack[1] = InfoOf(p)
        <5>1. parser.stack[1] \in Range(parser.stack)
          BY <4>1 DEF Range
        <5> QED
          BY <1>3, <5>1 DEF Following
      <4>4. parser.stack[1] \in Nat
        BY <1>7, <4>1
      <4>5. p # last
        BY <2>5, <4>2, <4>3, <4>4
      <4> QED
        BY <1>6, <1>9, <4>3, <4>5 DEF Has
    <3> QED
      BY <1>3, <2>7, <3>1, <3>2 DEF Rooted
  <2> QED
    BY <2>8, <2>9
<1> QED
  BY <1>8, <1>9

\* The end of an element.
LEMMA EndTree ==
  ASSUME TreeInv, PlacesInv', End
  PROVE  TreeInv'
<1>1. /\ document' = document /\ open' = Front(open) /\ infos' = infos /\ failed' = failed
      /\ phase = "reading" /\ phase' = phase /\ open # <<>>
  BY DEF End
<1>2. /\ Forest(infos) /\ Handles /\ Rooted /\ Held(infos) /\ Shape
      /\ DocumentShape /\ ParserShape /\ failed \in BOOLEAN
      /\ ~failed => Sound /\ Sound' /\ Following
  BY <1>1 DEF TreeInv, PlacesInv, References
<1>3. Kept(infos, infos') /\ \A i \in 1 .. Len(infos) : infos'[i].refs \in Nat
  BY <1>1, <1>2, KeptSame
<1>4. /\ Remains /\ Stays /\ Forest(infos') /\ Made' /\ Lists' /\ NotesKept'
      /\ \A i \in 1 .. Len(infos) : PositionOf(i)' = PositionOf(i)
      /\ Told
  BY <1>1, <1>3, SameTree
<1>5. Shape'
  <2>1. open \in Seq(0 .. Len(document))
    BY <1>2 DEF Shape
  <2>2. Len(open) \in Nat \ {0} /\ \A k \in 1 .. Len(open) : open[k] \in 0 .. Len(document)
    BY <1>1, <2>1
  <2>3. Front(open) \in Seq(0 .. Len(document))
    BY <2>2 DEF Front
  <2> QED
    BY <1>1, <1>2, <2>3 DEF Shape
<1>6. References'
  BY <1>1, <1>2 DEF References
<1>7. Handles'
  <2>1. CASE failed
    <3>1. parser' = parser /\ parser.stack \in Seq(Nat)
      BY <1>2, <2>1 DEF End, ParserShape
    <3> QED
      BY <1>2, <1>4, <3>1, HandlesSame
  <2>2. CASE ~failed
    BY <2>2, EndRooted
  <2> QED
    BY <2>1, <2>2
<1>8. Following' \/ failed'
  BY <1>1, <1>2, <1>4, EndFollows
<1>9. \A j \in 1 .. Len(document) : Enclosing(j)' = Enclosing(j) /\ Element(j)' = Element(j)
  BY <1>4 DEF Remains
<1>10. parser'.result # 0 => Enclosing(PositionOf(parser'.result)) = 0
  <2>1. CASE failed
    BY <1>2, <2>1 DEF End, Rooted
  <2>2. CASE ~failed
    BY <2>2, EndRooted
  <2> QED
    BY <2>1, <2>2
<1>11. ASSUME parser'.result # 0
       PROVE  Enclosing(PositionOf(parser.result))' = 0
  <2>1. PICK r : r = parser'.result
    OBVIOUS
  <2>2. r \in 1 .. Len(infos)
    <3>1. r \in 0 .. Len(infos) /\ Len(infos) \in Nat
      BY <1>1, <1>4, <1>7, <2>1 DEF Handles, Stays
    <3> QED
      BY <1>11, <2>1, <3>1
  <2>3. PICK q : q = PositionOf(r)
    OBVIOUS
  <2>4. q \in 1 .. Len(document) /\ PositionOf(r)' = q
    BY <1>4, <2>2, <2>3 DEF Told
  <2>5. Enclosing(q) = 0
    BY <1>10, <1>11, <2>1, <2>3
  <2>6. Enclosing(q)' = 0
    BY <1>9, <2>4, <2>5
  <2>7. Enclosing(PositionOf(parser.result))' = Enclosing(q)'
    <3>1. PositionOf(parser.result)' = q
      BY <2>1, <2>4 DEF PositionOf
    <3> QED
      BY <3>1 DEF Enclosing
  <2> QED
    BY <2>6, <2>7
<1>12. ~failed' /\ parser'.result = 0 =>
         \A k \in 1 .. Len(document') : Element(k)' = "node" => Has("node")'
  <2>1. ~failed /\ parser'.result = 0 =>
          \A k \in 1 .. Len(document) : Element(k) = "node" => Has("node")'
    BY EndRooted
  <2> QED
    BY <1>1, <1>9, <2>1
<1>13. Rooted'
  BY <1>1, <1>11, <1>12 DEF Rooted
<1> QED
  BY <1>1, <1>4, <1>5, <1>6, <1>7, <1>8, <1>13 DEF TreeInv

\* A step that leaves the document, the parser and the tree but for the counts.
LEMMA FinishTree ==
  ASSUME TreeInv, PlacesInv', UNCHANGED <<document, parser, failed>>,
         Kept(infos, infos'), \A i \in 1 .. Len(infos) : infos'[i].refs \in Nat,
         Shape', References', Range(open)' = Range(open) \/ failed,
         phase' = "loaded" => ~failed /\ parser.result # 0,
         phase' = "crashed" => ~failed /\ open' = <<>> /\ parser.result = 0,
         phase' = "reading" /\ ~failed => phase = "reading" /\ open' = open
  PROVE  TreeInv'
<1>1. /\ Remains /\ Stays /\ Forest(infos') /\ Made' /\ Lists' /\ NotesKept'
      /\ \A i \in 1 .. Len(infos) : PositionOf(i)' = PositionOf(i)
      /\ Told
  BY SameTree
<1>2. Handles /\ Rooted /\ ParserShape /\ parser.stack \in Seq(Nat)
  BY DEF TreeInv, PlacesInv, ParserShape
<1>3. Handles'
  BY <1>1, <1>2, HandlesSame
<1>4. \A j \in 1 .. Len(document) : Enclosing(j)' = Enclosing(j) /\ Element(j)' = Element(j)
  BY <1>1 DEF Remains
<1>5. ASSUME parser.result # 0
      PROVE  Enclosing(PositionOf(parser.result))' = 0
  <2>1. PICK r : r = parser.result
    OBVIOUS
  <2>2. r \in 1 .. Len(infos)
    <3>1. r \in 0 .. Len(infos) /\ Len(infos) \in Nat
      BY <1>1, <1>2, <2>1 DEF Handles, Stays
    <3> QED
      BY <1>5, <2>1, <3>1
  <2>3. PICK q : q = PositionOf(r)
    OBVIOUS
  <2>4. q \in 1 .. Len(document) /\ PositionOf(r)' = q
    BY <1>1, <2>2, <2>3 DEF Told
  <2>5. Enclosing(q) = 0
    BY <1>2, <1>5, <2>1, <2>3 DEF Rooted
  <2>6. Enclosing(q)' = 0
    BY <1>4, <2>4, <2>5
  <2>7. Enclosing(PositionOf(parser.result))' = Enclosing(q)'
    <3>1. PositionOf(parser.result)' = q
      BY <2>1, <2>4 DEF PositionOf
    <3> QED
      BY <3>1 DEF Enclosing
  <2> QED
    BY <2>6, <2>7
<1>6. ~failed /\ parser.result = 0 =>
        \A k \in 1 .. Len(document') : Element(k)' = "node" => Has("node")'
  <2> SUFFICES ASSUME ~failed, parser.result = 0, NEW k \in 1 .. Len(document'), Element(k)' = "node"
               PROVE  Has("node")'
    OBVIOUS
  <2>1. k \in 1 .. Len(document) /\ Element(k) = "node"
    BY <1>4
  <2>2. Has("node")
    BY <1>2, <2>1 DEF Rooted
  <2>3. Range(open)' = Range(open) /\ \A p : Element(p)' = Element(p)
    BY DEF Element
  <2>4. OpenOf("node")' = OpenOf("node")
    BY <2>3 DEF OpenOf
  <2> QED
    BY <2>2, <2>4 DEF Has
<1>7. Rooted'
  BY <1>5, <1>6 DEF Rooted
<1>8. ASSUME phase' = "reading", ~failed
      PROVE  Following'
  <2>1. Following /\ OpenShape /\ open' = open
    BY <1>8 DEF TreeInv, PlacesInv, Sound
  <2>2. Range(open)' = Range(open) /\ \A p : Element(p)' = Element(p)
    BY <2>1 DEF Element
  <2>3. \A s \in Slots \union {"node"} : OpenOf(s)' = OpenOf(s)
    BY <2>2 DEF OpenOf
  <2>4. \A s \in Slots : parser'[s] = parser[s]
    OBVIOUS
  <2>5. parser'.stack = parser.stack
    OBVIOUS
  <2> QED
    BY <1>1, <2>1, <2>3, <2>4, <2>5, FollowingSame
<1> QED
  BY <1>1, <1>3, <1>7, <1>8 DEF TreeInv

\* The parser drops its result.
LEMMA Freed ==
  ASSUME TreeInv, phase = "reading", NEW new, new = ParserFreed(infos)
  PROVE  /\ Kept(infos, new) /\ Counted(new, parser.result)
         /\ \A i \in 1 .. Len(infos) : new[i].refs \in Nat
<1>1. Forest(infos) /\ Held(infos) /\ Handles
  BY DEF TreeInv, References
<1>2. CASE parser.result = 0
  <2>1. new = infos
    BY <1>2 DEF ParserFreed
  <2> QED
    BY <1>1, <1>2, <2>1, HeldCounted, KeptSame
<1>3. CASE parser.result # 0
  <2>1. new = NodeUnref(infos, parser.result)
    BY <1>3 DEF ParserFreed
  <2>2. PICK r : r = parser.result
    OBVIOUS
  <2>3. r \in 1 .. Len(infos) /\ infos[r].kind = "node" /\ ~Listed(infos, r)
    <3>1. r \in 0 .. Len(infos) /\ Len(infos) \in Nat
      BY <1>1, <2>2, LenProperties DEF Handles, Forest, Numbered
    <3> QED
      BY <1>1, <1>3, <2>2, <3>1 DEF Handles
  <2>4. new = NodeUnref(infos, r)
    BY <2>1, <2>2
  <2> QED
    BY <1>1, <2>2, <2>3, <2>4, RootReleased
<1> QED
  BY <1>2, <1>3

\* The counts stay.
LEMMA HeldKept ==
  ASSUME NEW all, Forest(all), Held(all), NEW new, Kept(all, new),
         \A i \in 1 .. Len(all) : new[i].refs = all[i].refs
  PROVE  Held(new)
<1>1. Len(new) = Len(all) /\ \A i \in 1 .. Len(all) : new[i].kind = all[i].kind
  BY DEF Kept, Alike
<1>2. \A i : Listed(new, i) <=> Listed(all, i)
  <2>1. \A i \in 1 .. Len(all) : new[i].refs \in Nat
    BY DEF Forest
  <2> QED
    BY <2>1, KeptForest
<1> QED
  BY <1>1, <1>2 DEF Held

\* A step that leaves the infos, the parser and the phase.
LEMMA SameReferences ==
  ASSUME References, infos' = infos, parser' = parser, phase' = phase
  PROVE  References'
BY DEF References

\* A step that leaves everything.
LEMMA StutterTree ==
  ASSUME TreeInv, PlacesInv', UNCHANGED vars
  PROVE  TreeInv'
<1>1. UNCHANGED <<document, parser, failed, open, phase>> /\ infos' = infos
  BY DEF vars
<1>2. Kept(infos, infos') /\ \A i \in 1 .. Len(infos) : infos'[i].refs \in Nat
  BY <1>1, KeptSame DEF TreeInv
<1>3. References'
  BY <1>1, SameReferences DEF TreeInv
<1>4. Shape'
  BY <1>1 DEF TreeInv, Shape
<1>5. /\ phase' = "loaded" => ~failed /\ parser.result # 0
      /\ phase' = "crashed" => ~failed /\ open' = <<>> /\ parser.result = 0
  BY <1>1 DEF TreeInv, Rooted
<1>6. Range(open)' = Range(open)
  BY <1>1
<1> QED
  BY <1>1, <1>2, <1>3, <1>4, <1>5, <1>6, FinishTree

\* An element after a failure.
LEMMA IgnoredTree ==
  ASSUME TreeInv, PlacesInv', StartIgnored
  PROVE  TreeInv'
<1>1. UNCHANGED <<document, parser, failed, phase>> /\ infos' = infos /\ failed
      /\ phase = "reading" /\ open' = Append(open, 0)
  BY DEF StartIgnored
<1>2. Kept(infos, infos') /\ \A i \in 1 .. Len(infos) : infos'[i].refs \in Nat
  BY <1>1, KeptSame DEF TreeInv
<1>3. References'
  BY <1>1, SameReferences DEF TreeInv
<1>4. Shape'
  <2>1. open \in Seq(0 .. Len(document)) /\ Len(document) \in Nat
    BY DEF TreeInv, Shape, PlacesInv, DocumentShape
  <2>2. 0 \in 0 .. Len(document)
    BY <2>1
  <2>3. open' \in Seq(0 .. Len(document))
    BY <1>1, <2>1, <2>2
  <2> QED
    BY <1>1, <2>3 DEF TreeInv, Shape
<1> QED
  BY <1>1, <1>2, <1>3, <1>4, FinishTree

\* The document is not well-formed, or was refused.
LEMMA RejectedTree ==
  ASSUME TreeInv, PlacesInv', UNCHANGED <<document, open, parser, failed>>,
         phase = "reading", phase' = "rejected", infos' = ParserFreed(infos)
  PROVE  TreeInv'
<1>1. /\ Kept(infos, infos') /\ Counted(infos', parser.result)
      /\ \A i \in 1 .. Len(infos) : infos'[i].refs \in Nat
  BY Freed
<1>2. References'
  BY <1>1 DEF References
<1>3. Shape'
  BY DEF TreeInv, Shape
<1>4. Range(open)' = Range(open)
  OBVIOUS
<1> QED
  BY <1>1, <1>2, <1>3, <1>4, FinishTree

\* description_load_from_string.
LEMMA LoadsTree ==
  ASSUME TreeInv, PlacesInv', Loads
  PROVE  TreeInv'
<1>1. UNCHANGED <<document, open, parser, failed>> /\ phase = "reading" /\ open = <<>>
  BY DEF Loads
<1>2. Forest(infos) /\ Held(infos) /\ Handles
  BY <1>1 DEF TreeInv, References
<1>3. Range(open)' = Range(open)
  BY <1>1
<1>4. CASE failed
  BY <1>1, <1>4, RejectedTree DEF Loads
<1>5. CASE ~failed /\ parser.result = 0
  <2>1. phase' = "crashed" /\ infos' = infos
    BY <1>5 DEF Loads
  <2>2. Kept(infos, infos') /\ \A i \in 1 .. Len(infos) : infos'[i].refs \in Nat
    BY <1>2, <2>1, KeptSame
  <2>3. References'
    BY <1>2, <2>1 DEF References
  <2>4. Shape'
    BY <1>1, <2>1 DEF TreeInv, Shape
  <2> QED
    BY <1>1, <1>3, <1>5, <2>1, <2>2, <2>3, <2>4, FinishTree
<1>6. CASE ~failed /\ parser.result # 0
  <2>1. PICK r, more : r = parser.result /\ more = Raised(infos, r)
    OBVIOUS
  <2>2. phase' = "loaded" /\ infos' = NodeUnref(more, r)
    BY <1>6, <2>1 DEF Loads, ParserFreed, Raised
  <2>3. r \in 1 .. Len(infos) /\ infos[r].kind = "node" /\ ~Listed(infos, r)
    <3>1. r \in 0 .. Len(infos) /\ Len(infos) \in Nat
      BY <1>2, <2>1, LenProperties DEF Handles, Forest, Numbered
    <3> QED
      BY <1>2, <1>6, <2>1, <3>1 DEF Handles
  <2>4. Kept(infos, infos') /\ \A i \in 1 .. Len(infos) : infos'[i].refs = infos[i].refs
    BY <1>2, <2>1, <2>2, <2>3, RootHandedOver
  <2>5. \A i \in 1 .. Len(infos) : infos'[i].refs \in Nat
    BY <1>2, <2>4 DEF Forest
  <2>6. Held(infos')
    BY <1>2, <2>4, HeldKept
  <2>7. References'
    BY <2>2, <2>6 DEF References
  <2>8. Shape'
    BY <1>1, <2>2 DEF TreeInv, Shape
  <2> QED
    BY <1>1, <1>3, <1>6, <2>2, <2>4, <2>5, <2>7, <2>8, FinishTree
<1>7. failed \in BOOLEAN
  BY DEF TreeInv, PlacesInv
<1> QED
  BY <1>4, <1>5, <1>6, <1>7

\* The caller is done.
LEMMA ReleasesTree ==
  ASSUME TreeInv, PlacesInv', Releases
  PROVE  TreeInv'
<1>1. UNCHANGED <<document, open, parser, failed>> /\ phase = "loaded" /\ phase' = "released"
      /\ infos' = NodeUnref(infos, parser.result)
  BY DEF Releases
<1>2. Forest(infos) /\ Held(infos) /\ Handles /\ Rooted
  BY <1>1 DEF TreeInv, References
<1>3. PICK r : r = parser.result
  OBVIOUS
<1>4. r \in 1 .. Len(infos) /\ infos[r].kind = "node" /\ ~Listed(infos, r)
  <2>1. r \in 0 .. Len(infos) /\ Len(infos) \in Nat /\ r # 0
    BY <1>1, <1>2, <1>3, LenProperties DEF Handles, Forest, Numbered, Rooted
  <2> QED
    BY <1>2, <1>3, <2>1 DEF Handles
<1>5. infos' = NodeUnref(infos, r)
  BY <1>1, <1>3
<1>6. /\ Kept(infos, infos') /\ Counted(infos', r)
      /\ \A i \in 1 .. Len(infos) : infos'[i].refs \in Nat
  BY <1>2, <1>4, <1>5, RootReleased
<1>7. References'
  BY <1>1, <1>3, <1>6 DEF References
<1>8. Shape'
  BY <1>1 DEF TreeInv, Shape
<1>9. Range(open)' = Range(open)
  BY <1>1
<1> QED
  BY <1>1, <1>6, <1>7, <1>8, <1>9, FinishTree

\* The greatest of some positions is the one that none is behind.
LEMMA MaxIs ==
  ASSUME NEW n \in Nat, NEW S, S \subseteq 1 .. n, NEW m \in S, \A x \in S : ~(x > m)
  PROVE  Max(S) = m
<1>1. Max(S) \in S /\ \A x \in S : x <= Max(S)
  BY MaxIn
<1>2. PICK x : x = Max(S)
  OBVIOUS
<1>3. x \in 1 .. n /\ m \in 1 .. n
  BY <1>1, <1>2
<1>4. m <= x /\ ~(x > m)
  BY <1>1, <1>2
<1> QED
  BY <1>2, <1>3, <1>4

\* The parser keeps an annotation with the innermost argument, method or
\* interface around it.
LEMMA KeeperTold ==
  ASSUME NEW tag \in Tags, NEW k, Builds(tag, k), Inside(Slots)
  PROVE  \E m \in 1 .. Len(document) :
           /\ Keepers(k)' # {} /\ Max(Keepers(k)') = m
           /\ NoteOwner(parser) = InfoOf(m) /\ NoteOwner(parser) \in 1 .. Len(infos)
<1>1. DocumentShape /\ OpenShape /\ Nested /\ ParserFollows /\ Following /\ Handles /\ Opens(tag)
      /\ k = Len(document) + 1 /\ ParserShape
  BY DEF Builds, Begins, Sound
<1>2. DEFINE keepers == {p \in Range(open) : Element(p) \in {"arg", "method", "interface"}}
<1>3. Keepers(k)' = keepers
  <2>1. /\ Around'[Len(document) + 1] = Range(open)
        /\ \A p \in Range(open) : Element(p)' = Element(p)
    BY <1>1, NewElement
  <2>2. {p \in Around'[k] : Element(p)' \in {"arg", "method", "interface"}} = keepers
    <3> HIDE DEF Around
    <3> QED
      BY <1>1, <2>1
  <2> QED
    BY <2>2 DEF Keepers
<1>4. Len(document) \in Nat /\ Range(open) \subseteq 1 .. Len(document)
  BY <1>1, OpenPositions
<1>5. \A s \in {"arg", "method", "interface"} : (parser[s] # 0 <=> Has(s)) /\ s \in Slots
  BY <1>1 DEF ParserFollows, Slots
<1>6. \A s \in {"arg", "method", "interface"} : \A p \in OpenOf(s) :
        /\ parser[s] = InfoOf(p) /\ p \in keepers /\ p \in Nat /\ Element(p) = s /\ p \in Range(open)
  BY <1>1, <1>4, <1>5 DEF Following, OpenOf
<1>7. \A p, q \in keepers : q > p => Fits(Element(p), Element(q))
  <2>1. ASSUME NEW p \in keepers, NEW q \in keepers, q > p
        PROVE  Fits(Element(p), Element(q))
    <3>1. p < q /\ p \in Range(open) /\ q \in Range(open) /\ Element(p) \in Known /\ Element(q) \in Known
      BY <1>4, <2>1 DEF Known
    <3> QED
      BY <1>1, <3>1 DEF Nested
  <2> QED
    BY <2>1
<1>8. \A q \in keepers : q \in Range(open) /\ q \in OpenOf(Element(q))
                         /\ Element(q) \in {"arg", "method", "interface"}
  BY DEF OpenOf
<1>9. keepers \subseteq 1 .. Len(document)
  BY <1>4
\* The innermost of a kind is the innermost of all.
<1>10. ASSUME NEW s \in {"arg", "method", "interface"}, Has(s), NoteOwner(parser) = parser[s],
              \A q \in keepers : ~Fits(s, Element(q))
       PROVE  \E m \in 1 .. Len(document) :
                /\ Keepers(k)' # {} /\ Max(Keepers(k)') = m
                /\ NoteOwner(parser) = InfoOf(m) /\ NoteOwner(parser) \in 1 .. Len(infos)
  <2>1. PICK m \in OpenOf(s) : TRUE
    BY <1>10 DEF Has
  <2>2. m \in keepers /\ parser[s] = InfoOf(m) /\ Element(m) = s
    BY <1>6, <2>1
  <2>3. \A q \in keepers : ~(q > m)
    BY <1>7, <1>10, <2>2
  <2>4. Max(keepers) = m
    <3> HIDE DEF keepers
    <3> QED
      BY <1>4, <1>9, <2>2, <2>3, MaxIs
  <2>5. NoteOwner(parser) \in 1 .. Len(infos)
    <3>1. parser[s] \in 0 .. Len(infos) /\ parser[s] # 0
      BY <1>1, <1>5, <1>10 DEF Handles
    <3>2. Len(infos) \in Nat
      BY LenProperties DEF Builds, Forest, Numbered
    <3> QED
      BY <1>10, <3>1, <3>2
  <2>6. m \in 1 .. Len(document)
    BY <1>9, <2>2
  <2> QED
    BY <1>3, <1>10, <2>2, <2>4, <2>5, <2>6
<1> HIDE DEF keepers
<1>11. CASE Has("arg")
  <2>1. NoteOwner(parser) = parser["arg"]
    BY <1>5, <1>11 DEF NoteOwner
  <2>2. \A q \in keepers : ~Fits("arg", Element(q))
    BY <1>8 DEF Fits
  <2> QED
    BY <1>10, <1>11, <2>1, <2>2
<1>12. CASE ~Has("arg") /\ Has("method")
  <2>1. NoteOwner(parser) = parser["method"]
    BY <1>5, <1>12 DEF NoteOwner
  <2>2. \A q \in keepers : ~Fits("method", Element(q))
    <3>1. \A q \in keepers : Element(q) # "arg"
      BY <1>8, <1>12 DEF Has
    <3> QED
      BY <1>8, <3>1 DEF Fits
  <2> QED
    BY <1>10, <1>12, <2>1, <2>2
<1>13. CASE ~Has("arg") /\ ~Has("method")
  <2>1. Has("interface")
    <3>1. PICK s \in Slots : Has(s)
      BY <1>1 DEF Inside, ParserFollows
    <3> QED
      BY <1>1, <1>13, <3>1 DEF Nested, Slots
  <2>2. NoteOwner(parser) = parser["interface"]
    BY <1>5, <1>13 DEF NoteOwner
  <2>3. \A q \in keepers : ~Fits("interface", Element(q))
    <3>1. \A q \in keepers : Element(q) # "arg" /\ Element(q) # "method"
      BY <1>8, <1>13 DEF Has
    <3> QED
      BY <1>8, <3>1 DEF Fits
  <2> QED
    BY <1>10, <2>1, <2>2, <2>3
<1> QED
  BY <1>11, <1>12, <1>13

\* What is known when an element begins.
LEMMA StartFacts ==
  ASSUME TreeInv, PlacesInv', NEW tag \in Tags, Opens(tag), NEW k, k = Len(document) + 1
  PROVE  /\ Begins(tag, k) /\ Builds(tag, k) /\ Remains /\ Len(document') = k
         /\ failed = FALSE /\ failed' \in BOOLEAN /\ phase = "reading" /\ phase' = phase
         /\ Held(infos) /\ Made /\ Lists /\ NotesKept /\ Rooted /\ Shape'
         /\ Len(infos) \in Nat /\ Element(k)' = tag.element
<1>1. failed = FALSE /\ phase = "reading" /\ phase' = phase /\ Len(document) < MaxElements
      /\ document' = Append(document, [tag |-> tag, parent |-> IF open = <<>> THEN 0 ELSE Last(open)])
      /\ open' = Append(open, Len(document) + 1)
  BY DEF Opens
<1>2. /\ DocumentShape /\ ParserShape /\ Numbered(infos) /\ Sound /\ Forest(infos) /\ Handles
      /\ Following /\ Held(infos) /\ Made /\ Lists /\ NotesKept /\ Rooted /\ Shape
      /\ DocumentShape' /\ failed' \in BOOLEAN
  BY <1>1 DEF TreeInv, PlacesInv, References
<1>3. Begins(tag, k)
  BY <1>1, <1>2 DEF Begins
<1>4. Len(document) \in Nat /\ Len(document') = k /\ \A j \in 1 .. Len(document) : document'[j] = document[j]
  BY <1>1, <1>2 DEF DocumentShape
<1>5. Remains
  <2>1. Len(document) <= Len(document')
    BY <1>4
  <2> QED
    BY <1>2, <1>4, <2>1, DocumentRemains
<1>6. Shape'
  <2>1. open \in Seq(0 .. k) /\ k \in 0 .. k
    <3>1. open \in Seq(0 .. Len(document))
      BY <1>2 DEF Shape
    <3>2. \A x \in 0 .. Len(document) : x \in 0 .. k
      BY <1>4
    <3>3. \A x \in 1 .. Len(open) : open[x] \in 0 .. k
      BY <3>1, <3>2
    <3> QED
      BY <1>4, <3>1, <3>3
  <2>2. open' \in Seq(0 .. k)
    BY <1>1, <2>1
  <2>3. Len(document') <= MaxElements
    <3>1. MaxElements \in Nat
      BY DescriptionAssumption
    <3> QED
      BY <1>1, <1>4, <3>1
  <2> QED
    BY <1>1, <1>2, <1>4, <2>2, <2>3 DEF Shape
<1>7. Element(k)' = tag.element
  BY <1>3, BeginFacts
<1>8. Len(infos) \in Nat
  BY <1>2, LenProperties DEF Numbered
<1> QED
  BY <1>1, <1>2, <1>3, <1>4, <1>5, <1>6, <1>7, <1>8 DEF Builds

\* The outermost nodes when an element began.
LEMMA StartRooted ==
  ASSUME TreeInv, PlacesInv', NEW tag \in Tags, Opens(tag), parser'.result = parser.result,
         Handles, \A i \in 1 .. Len(infos) : PositionOf(i)' = PositionOf(i), Told,
         NEW k, k = Len(document) + 1
  PROVE  Rooted'
<1>1. /\ Begins(tag, k) /\ Remains /\ Len(document') = k
      /\ failed = FALSE /\ phase = "reading" /\ phase' = phase
      /\ Rooted /\ Len(infos) \in Nat /\ Element(k)' = tag.element
  <2>1. Begins(tag, k) /\ Remains /\ Len(document') = k
    BY StartFacts
  <2>2. failed = FALSE /\ phase = "reading" /\ phase' = phase
    BY StartFacts
  <2>3. Rooted
    BY StartFacts
  <2>4. Len(infos) \in Nat
    BY StartFacts
  <2>5. Element(k)' = tag.element
    BY StartFacts, Zenon
  <2> QED
    BY <2>1, <2>2, <2>3, <2>4, <2>5
<1>2. \A j \in 1 .. Len(document) : Enclosing(j)' = Enclosing(j) /\ Element(j)' = Element(j)
  BY <1>1 DEF Remains
<1>3. ASSUME parser.result # 0
      PROVE  Enclosing(PositionOf(parser.result))' = 0
  <2>1. PICK r : r = parser.result /\ r = parser'.result
    OBVIOUS
  <2>2. r \in 1 .. Len(infos)
    <3>1. r \in 0 .. Len(infos)
      BY <2>1 DEF Handles
    <3> QED
      BY <1>1, <1>3, <2>1, <3>1
  <2>3. PICK q : q = PositionOf(r)
    OBVIOUS
  <2>4. q \in 1 .. Len(document) /\ PositionOf(r)' = q
    BY <2>2, <2>3 DEF Told
  <2>5. Enclosing(q) = 0
    BY <1>1, <1>3, <2>1, <2>3 DEF Rooted
  <2>6. Enclosing(q)' = 0
    BY <1>2, <2>4, <2>5
  <2>7. Enclosing(PositionOf(parser.result))' = Enclosing(q)'
    <3>1. PositionOf(parser.result)' = q
      BY <2>1, <2>4 DEF PositionOf
    <3> QED
      BY <3>1 DEF Enclosing
  <2> QED
    BY <2>6, <2>7
<1>4. ASSUME ~failed', parser.result = 0, NEW j \in 1 .. Len(document'), Element(j)' = "node"
      PROVE  Has("node")'
  <2>1. \A s : OpenOf(s)' = IF s = tag.element THEN OpenOf(s) \union {k} ELSE OpenOf(s)
    BY <1>1, NewOpen DEF Begins, Sound
  <2>2. j \in 1 .. Len(document) \/ j = k
    BY <1>1 DEF Remains
  <2>3. CASE j = k
    <3>1. tag.element = "node"
      BY <1>1, <1>4, <2>3
    <3>2. k \in OpenOf("node")'
      BY <2>1, <3>1
    <3> QED
      BY <3>2 DEF Has
  <2>4. CASE j \in 1 .. Len(document)
    <3>1. Element(j) = "node"
      BY <1>2, <1>4, <2>4
    <3>2. Has("node")
      BY <1>1, <1>4, <2>4, <3>1 DEF Rooted
    <3>3. OpenOf("node") \subseteq OpenOf("node")'
      BY <2>1
    <3> QED
      BY <3>2, <3>3 DEF Has
  <2> QED
    BY <2>2, <2>3, <2>4
<1>5. phase' # "loaded" /\ phase' # "crashed"
  BY <1>1
<1> QED
  BY <1>3, <1>4, <1>5 DEF Rooted

\* An element of which nothing is made: it is refused, it is not for the tree, or
\* it is an annotation.
LEMMA NothingMade ==
  ASSUME TreeInv, PlacesInv', NEW tag \in Tags, Opens(tag), NEW k, k = Len(document) + 1,
         Kept(infos, infos'), \A i \in 1 .. Len(infos) : infos'[i].refs = infos[i].refs,
         failed' \/ tag.element \notin Known \ {"annotation"},
         \A s \in Slots \union {"stack", "result"} : parser'[s] = parser[s],
         ~failed' /\ tag.element = "annotation" =>
           Inside(Slots) /\ tag.name \in DOMAIN infos'[NoteOwner(parser)].notes
  PROVE  TreeInv'
<1>1. Begins(tag, k) /\ Builds(tag, k) /\ Remains /\ Len(document') = k
  BY StartFacts
<1>2. failed = FALSE /\ failed' \in BOOLEAN /\ phase = "reading" /\ phase' = phase
  BY StartFacts
<1>3. Held(infos) /\ Made /\ Lists /\ NotesKept /\ Rooted /\ Shape' /\ Len(infos) \in Nat
  BY StartFacts
<1>4. /\ document'[k].tag = tag /\ Element(k)' = tag.element
  BY <1>1, BeginFacts
<1>5. Forest(infos) /\ Handles /\ Following /\ OpenShape /\ DocumentShape /\ Numbered(infos)
      /\ parser.stack \in Seq(Nat)
  BY <1>1 DEF Builds, Begins, Sound, ParserShape
<1>6. Len(infos') = Len(infos) /\ Len(document) \in Nat /\ k \in Nat
      /\ Accepted = Len(document) /\ Accepted' = IF failed' THEN Len(document) ELSE k
  <2>1. Len(infos') = Len(infos)
    BY DEF Kept
  <2>2. Len(document) \in Nat
    BY <1>1 DEF Remains
  <2> QED
    BY <1>1, <1>2, <2>1, <2>2 DEF Accepted
<1>7. Stays /\ Forest(infos')
  <2>1. \A i \in 1 .. Len(infos) : infos'[i].refs \in Nat
    BY <1>5 DEF Forest
  <2> QED
    BY <1>5, <2>1, KeptStays
<1>8. PICK more, n : more \in BOOLEAN /\ more = FALSE /\ n = Len(infos')
  OBVIOUS
<1>9. Renumbered(more, k, n)
  <2>1. Producing(k)' <=> tag.element \in Known \ {"annotation"}
    BY <1>4 DEF Producing
  <2>2. more <=> ~failed' /\ Producing(k)'
    BY <1>8, <2>1
  <2>3. Len(infos') = Len(infos) + (IF more THEN 1 ELSE 0)
    BY <1>3, <1>6, <1>8
  <2>4. Len(document') = Len(document) + 1
    BY <1>1
  <2> QED
    BY <1>1, <1>2, <1>3, <1>8, <2>2, <2>3, <2>4, NextNumbers
<1>10. Made' /\ Told /\ \A i \in 1 .. Len(infos) : PositionOf(i)' = PositionOf(i)
  BY <1>9 DEF Renumbered
<1>11. Lists'
  <2>1. Renumbered(FALSE, k, n)
    BY <1>8, <1>9
  <2> QED
    BY <1>1, <1>3, <1>5, <2>1, KeepsLists
<1>12. Handles'
  <2>1. \A s \in Slots : parser'[s] = 0 \/ parser'[s] = parser[s]
    OBVIOUS
  <2>2. parser'.stack = parser.stack /\ parser'.result = parser.result
    OBVIOUS
  <2> QED
    BY <1>5, <1>7, <2>1, <2>2, HandlesSame
<1>13. Rooted'
  <2>1. parser'.result = parser.result
    OBVIOUS
  <2> QED
    BY <1>5, <1>10, <2>1, StartRooted
<1>14. References'
  <2>1. Held(infos')
    BY <1>3, <1>5, HeldKept
  <2> QED
    BY <1>2, <2>1 DEF References
<1>15. \A j \in 1 .. Accepted' : Element(j)' = "annotation" =>
         /\ Keepers(j)' # {} /\ InfoOf(Max(Keepers(j)))' \in 1 .. Len(infos')
         /\ document'[j].tag.name \in DOMAIN infos'[InfoOf(Max(Keepers(j)))'].notes
  <2>1. ASSUME NEW j \in 1 .. Accepted', Element(j)' = "annotation", j \in 1 .. Accepted
        PROVE  /\ Keepers(j)' # {} /\ InfoOf(Max(Keepers(j)))' \in 1 .. Len(infos')
               /\ document'[j].tag.name \in DOMAIN infos'[InfoOf(Max(Keepers(j)))'].notes
    <3>1. \A i \in 1 .. Len(infos) : DOMAIN infos[i].notes \subseteq DOMAIN infos'[i].notes
      BY <1>7 DEF Stays
    <3>2. Len(infos') \in Nat /\ Len(infos) <= Len(infos') /\ Accepted \in 0 .. Len(document)
      BY <1>3, <1>6
    <3> QED
      BY <1>1, <1>3, <1>5, <2>1, <3>1, <3>2, OldNotesKept
  <2>2. ASSUME ~failed', Element(k)' = "annotation"
        PROVE  /\ Keepers(k)' # {} /\ InfoOf(Max(Keepers(k)))' \in 1 .. Len(infos')
               /\ document'[k].tag.name \in DOMAIN infos'[InfoOf(Max(Keepers(k)))'].notes
    <3>1. Inside(Slots) /\ tag.name \in DOMAIN infos'[NoteOwner(parser)].notes
      BY <1>4, <2>2
    <3>2. PICK m \in 1 .. Len(document) :
            /\ Keepers(k)' # {} /\ Max(Keepers(k)') = m
            /\ NoteOwner(parser) = InfoOf(m) /\ NoteOwner(parser) \in 1 .. Len(infos)
      BY <1>1, <3>1, KeeperTold
    <3>3. InfoOf(m)' = InfoOf(m)
      BY <1>1, <1>6 DEF Remains
    <3>4. InfoOf(Max(Keepers(k)))' = InfoOf(m)'
      BY <3>2 DEF InfoOf
    <3> QED
      BY <1>4, <1>6, <3>1, <3>2, <3>3, <3>4
  <2>3. \A j \in 1 .. Accepted' : j \in 1 .. Accepted \/ (~failed' /\ j = k)
    BY <1>6
  <2> QED
    BY <2>1, <2>2, <2>3
<1>16. NotesKept'
  BY <1>15 DEF NotesKept
<1>17. failed' \/ Following'
  <2> SUFFICES ASSUME ~failed' PROVE Following'
    OBVIOUS
  <2>1. \A s \in Slots \union {"node"} : s # tag.element
    BY DEF Slots, Known
  <2>2. \A s \in Slots \union {"node"} : OpenOf(s)' = OpenOf(s)
    BY <1>5, <2>1, NewOpen
  <2>3. \A s \in Slots : parser'[s] = parser[s]
    OBVIOUS
  <2>4. parser'.stack = parser.stack
    OBVIOUS
  <2> QED
    BY <1>1, <1>5, <2>2, <2>3, <2>4, FollowingSame
<1> QED
  BY <1>3, <1>7, <1>10, <1>11, <1>12, <1>13, <1>14, <1>16, <1>17 DEF TreeInv

\* The innermost element around a well-placed one with an info has one too, for
\* all at once.
EnclosersProduce ==
  \A k \in 1 .. Len(document) :
    WellPlaced(k) /\ Producing(k) /\ Enclosing(k) # 0 =>
      \E e \in 1 .. k - 1 : e = Enclosing(k) /\ Producing(e)

\* It holds of every document.
LEMMA EnclosersHaveInfos ==
  DocumentShape => EnclosersProduce
BY EnclosingProduces DEF EnclosersProduce

\* An element of which an info is made.
LEMMA SomethingMade ==
  ASSUME TreeInv, PlacesInv', NEW tag \in Tags, Opens(tag), NEW k, k = Len(document) + 1,
         ~failed', WellPlaced(k)', Nests(tag.element),
         NEW owner, NEW info, NEW refs, Makes(tag, k, owner, info, refs)
  PROVE  TreeInv'
<1>1. Begins(tag, k) /\ Builds(tag, k) /\ Remains /\ Len(document') = k
  BY StartFacts
<1>2. failed = FALSE /\ failed' \in BOOLEAN /\ phase = "reading" /\ phase' = phase
  BY StartFacts
<1>3. Held(infos) /\ Made /\ Lists /\ NotesKept /\ Rooted /\ Shape' /\ Len(infos) \in Nat
  BY StartFacts
<1>4. /\ document'[k].tag = tag /\ Element(k)' = tag.element
  BY <1>1, BeginFacts
<1>5. Forest(infos) /\ Handles /\ Following /\ OpenShape /\ DocumentShape /\ Numbered(infos)
      /\ ParserShape /\ parser.stack \in Seq(Nat)
  BY <1>1 DEF Builds, Begins, Sound, ParserShape
<1>6. /\ tag.element \in Known \ {"annotation"} /\ Fresh(info) /\ info.kind = tag.element
      /\ owner \in 0 .. Len(infos)
      /\ owner # 0 /\ infos[owner].kind = "method" => info.direction \in {"in", "out"}
      /\ Grown(infos, infos', owner, info, refs)
  BY DEF Makes
<1>7. /\ refs = (IF owner # 0 THEN 1 ELSE 0) + (IF info.kind = "node" THEN 1 ELSE 0)
      /\ refs \in Nat
      /\ tag.element = "node" /\ owner # 0 => parser.stack # <<>>
      /\ tag.element # "node" => owner # 0
  BY DEF Makes
<1>8. /\ Stays /\ Forest(infos') /\ Len(infos') = Len(infos) + 1
      /\ infos'[Len(infos) + 1].kind = info.kind
      /\ Listed(infos', Len(infos) + 1) <=> owner # 0
  BY <1>5, <1>6, <1>7, GrownStays
<1>9. Held(infos')
  BY <1>3, <1>5, <1>6, <1>7, HeldGrown
<1>10. PICK more, n : more \in BOOLEAN /\ more = TRUE /\ n = Len(infos')
  OBVIOUS
<1>11. Len(document) \in Nat /\ k \in Nat /\ Accepted = Len(document) /\ Accepted' = k
       /\ n = Len(infos) + 1 /\ n = New /\ n \in 1 .. Len(infos') /\ n \in Nat
       /\ infos'[n].kind = tag.element /\ (Listed(infos', n) <=> owner # 0)
  <2>1. Len(document) \in Nat
    BY <1>1 DEF Remains
  <2> QED
    BY <1>1, <1>2, <1>3, <1>6, <1>8, <1>10, <2>1 DEF Accepted, New
<1>12. Renumbered(more, k, n)
  <2>1. Producing(k)'
    BY <1>4, <1>6 DEF Producing
  <2>2. more <=> ~failed' /\ Producing(k)'
    BY <1>10, <2>1
  <2>3. Len(infos') = Len(infos) + (IF more THEN 1 ELSE 0)
    BY <1>8, <1>10
  <2>4. Len(document') = Len(document) + 1
    BY <1>1
  <2> QED
    BY <1>1, <1>2, <1>3, <1>10, <2>2, <2>3, <2>4, NextNumbers
<1>13. /\ Made' /\ Told /\ \A i \in 1 .. Len(infos) : PositionOf(i)' = PositionOf(i)
       /\ InfoOf(k)' = n
  BY <1>10, <1>12 DEF Renumbered
<1>14. PICK e : e = Enclosing(k)'
  OBVIOUS
<1>15. e = 0 \/ e \in Positions
  <2>1. DocumentShape'
    BY <1>1 DEF Remains
  <2>2. EnclosersProduce'
    BY <2>1, EnclosersHaveInfos, PTL
  <2>3. k \in 1 .. Len(document') /\ Producing(k)'
    BY <1>1, <1>4, <1>6, <1>11 DEF Producing
  <2>4. e # 0 => \E d \in 1 .. k - 1 : d = e /\ Producing(d)'
    BY <1>14, <2>2, <2>3 DEF EnclosersProduce
  <2>5. \A d \in 1 .. k - 1 : d \in 1 .. Len(document) /\ (Producing(d)' <=> Producing(d))
    BY <1>1, <1>11 DEF Remains
  <2>6. e # 0 => e \in 1 .. Accepted /\ Producing(e)
    BY <1>11, <2>4, <2>5
  <2> QED
    BY <1>13, <2>6 DEF Told
<1>16. Lists'
  <2>1. owner = IF e = 0 THEN 0 ELSE InfoOf(e)
    BY <1>14 DEF Makes
  <2>2. Renumbered(TRUE, k, n)
    BY <1>10, <1>12
  <2> QED
    BY <1>1, <1>3, <1>5, <1>6, <1>7, <1>11, <1>14, <1>15, <2>1, <2>2, GrowsLists
<1>17. \A j \in 1 .. Accepted' : Element(j)' = "annotation" =>
         /\ Keepers(j)' # {} /\ InfoOf(Max(Keepers(j)))' \in 1 .. Len(infos')
         /\ document'[j].tag.name \in DOMAIN infos'[InfoOf(Max(Keepers(j)))'].notes
  <2>1. ASSUME NEW j \in 1 .. Accepted', Element(j)' = "annotation"
        PROVE  /\ Keepers(j)' # {} /\ InfoOf(Max(Keepers(j)))' \in 1 .. Len(infos')
               /\ document'[j].tag.name \in DOMAIN infos'[InfoOf(Max(Keepers(j)))'].notes
    <3>1. \A i \in 1 .. Len(infos) : DOMAIN infos[i].notes \subseteq DOMAIN infos'[i].notes
      BY <1>8 DEF Stays
    <3>2. Len(infos') \in Nat /\ Len(infos) <= Len(infos') /\ Accepted \in 0 .. Len(document)
      BY <1>3, <1>8, <1>11
    <3>3. j \in 1 .. Accepted
      <4>1. j # k
        BY <1>4, <1>6, <2>1
      <4> QED
        BY <1>11, <2>1, <4>1
    <3> QED
      BY <1>1, <1>3, <1>5, <2>1, <3>1, <3>2, <3>3, OldNotesKept
  <2> QED
    BY <2>1
<1>18. NotesKept'
  BY <1>17 DEF NotesKept
<1>19. References'
  BY <1>2, <1>9 DEF References
<1>20. \A s : OpenOf(s)' = IF s = tag.element THEN OpenOf(s) \union {k} ELSE OpenOf(s)
  BY <1>5, NewOpen
<1>21. DOMAIN parser = {"stack", "annotation", "foreign", "result"} \union Slots
       /\ "result" \notin Slots /\ "stack" \notin Slots /\ "node" \notin Slots
  BY <1>5 DEF ParserShape, Slots
<1>22. Handles' /\ Following' /\ parser'.result = parser.result
  <2>1. CASE tag.element = "node"
    <3>1. parser' = [parser EXCEPT !.stack = Append(parser.stack, n)]
      BY <1>11, <2>1 DEF Makes
    <3>2. parser.stack = <<>> => ~Listed(infos', n)
      BY <1>7, <1>11, <2>1
    <3>3. Handles'
      BY <1>5, <1>8, <1>11, <2>1, <3>1, <3>2, HandlesNode
    <3>4. \A j \in DOMAIN parser.stack : parser.stack[j] < n
      BY <1>3, <1>5, <1>11 DEF Handles
    <3>5. Following'
      BY <1>1, <1>5, <1>11, <1>13, <1>20, <2>1, <3>1, <3>4, FollowingNode
    <3> QED
      BY <1>21, <3>1, <3>3, <3>5
  <2>2. CASE tag.element # "node"
    <3>1. tag.element \in Slots
      BY <1>6, <2>2 DEF Known, Slots
    <3>2. PICK s \in Slots : s = tag.element
      BY <3>1
    <3>3. parser' = [parser EXCEPT ![s] = n]
      BY <1>11, <2>2, <3>2 DEF Makes
    <3>4. Handles'
      BY <1>5, <1>8, <1>11, <3>2, <3>3, HandlesSlot
    <3>5. ~Has(s)
      BY <3>2 DEF Nests, Fits, Slots, Known
    <3>6. \A x : OpenOf(x)' = IF x = s THEN OpenOf(x) \union {k} ELSE OpenOf(x)
      BY <1>20, <3>2
    <3>7. Following'
      BY <1>1, <1>5, <1>13, <3>3, <3>5, <3>6, FollowingSlot
    <3> QED
      BY <1>21, <3>3, <3>4, <3>7
  <2> QED
    BY <2>1, <2>2
<1>23. Rooted'
  BY <1>5, <1>13, <1>22, StartRooted
<1> QED
  BY <1>3, <1>8, <1>13, <1>16, <1>18, <1>19, <1>22, <1>23 DEF TreeInv

\* The start of an element.
LEMMA StartTree ==
  ASSUME TreeInv, PlacesInv', NEW tag \in Tags, Start(tag)
  PROVE  TreeInv'
<1>1. PICK k : k = Len(document) + 1
  OBVIOUS
<1>2. Opens(tag)
  BY DEF Start, StartNode, StartInterface, StartMember, StartProperty, StartArg,
         StartAnnotation, StartOther
<1>3. Begins(tag, k) /\ Builds(tag, k)
  BY <1>1, <1>2, StartFacts
<1>4. Judges(tag, k)
  BY <1>3, NodeJudged, InterfaceJudged, MemberJudged, PropertyJudged, ArgJudged,
     AnnotationJudged, OtherJudged DEF Start
<1>5. Forest(infos) /\ ParserShape /\ failed = FALSE
  BY <1>2, <1>3 DEF Builds, Begins, Opens
<1>6. DOMAIN parser = {"stack", "annotation", "foreign", "result"} \union Slots
      /\ \A s \in Slots \union {"stack", "result"} : s # "annotation" /\ s # "foreign"
  BY <1>5 DEF ParserShape, Slots
<1>7. Kept(infos, infos)
  BY <1>5, KeptSame
<1>8. CASE failed' = TRUE
  <2>1. parser' = parser /\ infos' = infos
    BY <1>4, <1>8 DEF Judges
  <2>2. Kept(infos, infos') /\ \A i \in 1 .. Len(infos) : infos'[i].refs = infos[i].refs
    BY <1>7, <2>1
  <2>3. \A s \in Slots \union {"stack", "result"} : parser'[s] = parser[s]
    BY <2>1
  <2> QED
    BY <1>1, <1>2, <1>8, <2>2, <2>3, NothingMade
<1>9. CASE failed' = FALSE
  <2>1. WellPlaced(k)' /\ Nests(tag.element)
    BY <1>4, <1>9 DEF Judges
  <2>2. CASE \E owner, info, refs : Makes(tag, k, owner, info, refs)
    <3>1. PICK owner, info, refs : Makes(tag, k, owner, info, refs)
      BY <2>2
    <3> QED
      BY <1>1, <1>2, <1>9, <2>1, <3>1, SomethingMade
  <2>3. CASE StartAnnotation(tag)
    <3>1. /\ tag.element = "annotation" /\ Inside(Slots)
          /\ parser' = [parser EXCEPT !.annotation = TRUE]
          /\ infos' = Annotated(infos, NoteOwner(parser), tag)
      BY <1>9, <2>3 DEF StartAnnotation, Accepts, Refuses
    <3>2. PICK owner : owner = NoteOwner(parser)
      OBVIOUS
    <3>3. owner \in 1 .. Len(infos)
      BY <1>3, <3>1, <3>2, KeeperTold
    <3>4. infos' = Annotated(infos, owner, tag)
      BY <3>1, <3>2
    <3>5. /\ Kept(infos, infos') /\ \A i \in 1 .. Len(infos) : infos'[i].refs = infos[i].refs
          /\ tag.name \in DOMAIN infos'[owner].notes
      <4>1. PICK new : new = infos'
        OBVIOUS
      <4>2. /\ Kept(infos, new) /\ \A i \in 1 .. Len(infos) : new[i].refs = infos[i].refs
            /\ tag.name \in DOMAIN new[owner].notes
        <5>1. new = Annotated(infos, owner, tag) /\ owner \in 1 .. Len(infos) /\ Forest(infos)
          BY <1>5, <3>3, <3>4, <4>1
        <5> HIDE DEF Annotated
        <5>2. Kept(infos, new)
          BY <5>1, AnnotatedKept
        <5>3. ASSUME NEW i \in 1 .. Len(infos)
              PROVE  new[i].refs = infos[i].refs
          BY <5>1, AnnotatedKept
        <5>4. tag.name \in DOMAIN new[owner].notes
          BY <5>1, AnnotatedKept
        <5> QED
          BY <5>2, <5>3, <5>4
      <4> QED
        BY <4>1, <4>2
    <3>6. \A s \in Slots \union {"stack", "result"} : parser'[s] = parser[s]
      BY <1>6, <3>1
    <3>7. tag.element \notin Known \ {"annotation"}
      BY <3>1
    <3> QED
      BY <1>1, <1>2, <3>1, <3>2, <3>5, <3>6, <3>7, NothingMade
  <2>4. CASE StartOther(tag)
    <3>1. tag.element \notin Known /\ infos' = infos
          /\ (parser' = [parser EXCEPT !.foreign = @ + 1] \/ parser' = parser)
      BY <1>9, <2>4 DEF StartOther, Accepts, Refuses
    <3>2. Kept(infos, infos') /\ \A i \in 1 .. Len(infos) : infos'[i].refs = infos[i].refs
      BY <1>7, <3>1
    <3>3. \A s \in Slots \union {"stack", "result"} : parser'[s] = parser[s]
      BY <1>6, <3>1
    <3>4. tag.element \notin Known \ {"annotation"} /\ tag.element # "annotation"
      BY <3>1 DEF Known
    <3> QED
      BY <1>1, <1>2, <3>2, <3>3, <3>4, NothingMade
  <2> QED
    BY <1>3, <1>9, <2>2, <2>3, <2>4, NodeMakes, InterfaceMakes, MemberMakes, PropertyMakes, ArgMakes
       DEF Start
<1> QED
  BY <1>4, <1>8, <1>9 DEF Judges

\* No step breaks the invariant.
LEMMA TreeNext ==
  TreeInv /\ [Next]_vars => TreeInv'
<1> SUFFICES ASSUME TreeInv, [Next]_vars PROVE TreeInv'
  OBVIOUS
<1>1. PlacesInv'
  BY PlacesNext DEF TreeInv
<1>2. ASSUME NEW tag \in Tags, Start(tag) PROVE TreeInv'
  BY <1>1, <1>2, StartTree
<1>3. CASE StartIgnored
  BY <1>1, <1>3, IgnoredTree
<1>4. CASE End
  BY <1>1, <1>4, EndTree
<1>5. CASE Loads
  BY <1>1, <1>5, LoadsTree
<1>6. CASE Malformed
  BY <1>1, <1>6, RejectedTree DEF Malformed
<1>7. CASE Releases
  BY <1>1, <1>7, ReleasesTree
<1>8. CASE UNCHANGED vars
  BY <1>1, <1>8, StutterTree
<1> QED
  BY <1>2, <1>3, <1>4, <1>5, <1>6, <1>7, <1>8 DEF Next

--------------------------------------------------------------------------------
(* The theorems about the tree *)

\* Whatever the document, what the parser has built when it has read a part of it
\* is the tree of that part (dbus-gparser.c, dbus-gidl.c).
THEOREM TreeInvariance == Spec => []TreeInv
BY TreeInit, TreeNext, PTL DEF Spec

\* No handle of the parser ever is of an info of another kind, and no info is
\* referred to more than twice (struct Parser, node_info_ref).
THEOREM DescriptionTypeCorrect == Spec => []TypeOK
<1>1. ASSUME TreeInv PROVE TypeOK
  <2>1. /\ DocumentShape /\ ParserShape /\ failed \in BOOLEAN /\ Shape /\ Forest(infos)
        /\ Handles /\ References
    BY <1>1 DEF TreeInv, PlacesInv
  <2>2. DOMAIN infos = 1 .. Len(infos)
    BY <2>1, LenProperties DEF Forest, Numbered
  <2>3. \A i \in DOMAIN infos : infos[i].refs \in 0 .. 2
    BY <2>1, <2>2 DEF References, Counted, Held
  <2>4. document \in Seq([tag : Tags, parent : Nat]) /\ Len(document) <= MaxElements
        /\ open \in Seq(0 .. Len(document))
        /\ phase \in {"reading", "loaded", "rejected", "crashed", "released"}
    BY <2>1 DEF DocumentShape, Shape
  <2>5. /\ \A s \in Slots : parser[s] \in 0 .. Len(infos)
        /\ \A s \in Slots : parser[s] # 0 => infos[parser[s]].kind = s
        /\ \A k \in DOMAIN parser.stack : infos[parser.stack[k]].kind = "node"
        /\ parser.result \in 0 .. Len(infos)
    BY <2>1 DEF Handles
  <2>6. parser.foreign \in Nat /\ parser.annotation \in BOOLEAN
    BY <2>1 DEF ParserShape
  <2> QED
    BY <2>1, <2>3, <2>4, <2>5, <2>6 DEF TypeOK
<1> QED
  BY <1>1, TreeInvariance, PTL

\* Of the infos that are left at most one lists an info.
LEMMA ListingCount ==
  ASSUME Forest(infos), NEW i
  PROVE  Cardinality(Listing(i)) = IF \E p \in 1 .. Len(infos) :
                                        infos[p].refs > 0 /\ i \in Range(infos[p].children)
                                   THEN 1 ELSE 0
<1>1. DOMAIN infos = 1 .. Len(infos)
  BY LenProperties DEF Forest, Numbered
<1>2. Listing(i) = {p \in 1 .. Len(infos) : infos[p].refs > 0 /\ i \in Range(infos[p].children)}
  BY <1>1 DEF Listing
<1>3. CASE \E p \in 1 .. Len(infos) : infos[p].refs > 0 /\ i \in Range(infos[p].children)
  <2>1. PICK p \in 1 .. Len(infos) : infos[p].refs > 0 /\ i \in Range(infos[p].children)
    BY <1>3
  <2>2. \A q \in 1 .. Len(infos) : i \in Range(infos[q].children) => q = p
    BY <2>1 DEF Forest
  <2>3. Listing(i) = {p}
    BY <1>2, <2>1, <2>2
  <2> QED
    BY <1>3, <2>3, FS_Singleton
<1>4. CASE ~\E p \in 1 .. Len(infos) : infos[p].refs > 0 /\ i \in Range(infos[p].children)
  <2>1. Listing(i) = {}
    BY <1>2, <1>4
  <2> QED
    BY <1>4, <2>1, FS_EmptySet
<1> QED
  BY <1>3, <1>4

\* An info is freed when, and not before, nobody refers to it any more, however
\* the document ends (node_info_unref, parser_unref, description_load_from_string).
THEOREM FreedCorrect == Spec => []FreedWhenUnheld
<1>1. ASSUME TreeInv PROVE FreedWhenUnheld
  <2>1. Shape /\ Forest(infos) /\ Handles /\ References
    BY <1>1 DEF TreeInv
  <2>2. DOMAIN infos = 1 .. Len(infos) /\ Len(infos) \in Nat
    BY <2>1, LenProperties DEF Forest, Numbered
  <2>3. ASSUME NEW i \in 1 .. Len(infos)
        PROVE  IF infos[i].refs = 0 THEN Holders(i) = 0
               ELSE infos[i].refs = Holders(i)
                      + (IF infos[i].kind = "node" /\ ~Stacked(i) /\ ~Resulting(i) THEN 1 ELSE 0)
    <3>1. PICK listed : listed = Cardinality(Listing(i))
      OBVIOUS
    <3>2. Holders(i) = listed + (IF Stacked(i) THEN 1 ELSE 0) + (IF Resulting(i) THEN 1 ELSE 0)
      BY <3>1 DEF Holders
    <3>3. listed = IF \E p \in 1 .. Len(infos) :
                        infos[p].refs > 0 /\ i \in Range(infos[p].children) THEN 1 ELSE 0
      BY <2>1, <3>1, ListingCount
    <3>4. CASE phase \notin {"rejected", "released"}
      <4>1. Held(infos)
        BY <2>1, <3>4 DEF References
      <4>2. \A p \in 1 .. Len(infos) : infos[p].refs > 0
        BY <4>1, HeldCounted
      <4>3. listed = IF Listed(infos, i) THEN 1 ELSE 0
        BY <3>3, <4>2 DEF Listed
      <4>4. infos[i].refs = listed + (IF infos[i].kind = "node" THEN 1 ELSE 0)
        BY <4>1, <4>3 DEF Held
      <4>5. Stacked(i) => infos[i].kind = "node" /\ i \in Range(parser.stack)
        BY <2>1 DEF Stacked, Range, Handles
      <4>6. Resulting(i) => infos[i].kind = "node" /\ i \notin Range(parser.stack)
        BY <2>1, <2>2 DEF Resulting, Handles
      <4>7. listed \in 0 .. 1
        BY <4>3
      <4>8. infos[i].refs # 0
        BY <4>2
      <4> QED
        BY <3>2, <4>4, <4>5, <4>6, <4>7, <4>8
    <3>5. CASE phase \in {"rejected", "released"}
      <4>1. Counted(infos, parser.result)
        BY <2>1, <3>5 DEF References
      <4>2. infos[i].refs = listed
                + (IF infos[i].kind = "node" /\ i # parser.result THEN 1 ELSE 0)
        BY <3>3, <4>1 DEF Counted
      <4>3. ~Stacked(i) /\ ~Resulting(i)
        BY <3>5 DEF Stacked, Resulting
      <4>4. i = parser.result => listed = 0
        BY <2>1, <2>2, <3>3 DEF Handles, Listed
      <4>5. listed \in 0 .. 1
        BY <3>3
      <4> QED
        BY <3>2, <4>2, <4>3, <4>4, <4>5
    <3> QED
      BY <3>4, <3>5
  <2> QED
    BY <2>2, <2>3 DEF FreedWhenUnheld
<1> QED
  BY <1>1, TreeInvariance, PTL

\* The tree follows the document: every info is in the list of its element's
\* parent, in the order of the document but for the "in" arguments of a method
\* that come first; every annotation is kept where it belongs; what is loaded is
\* a root, and only a document without any node is accepted and not loaded
\* (parser_start_element, method_info_add_arg, description_load_from_string).
THEOREM TreeCorrect == Spec => []TreeFollowsDocument
<1>1. ASSUME TreeInv PROVE TreeFollowsDocument
  <2>1. DocumentShape /\ Shape /\ Forest(infos) /\ Made /\ Lists /\ NotesKept /\ Rooted
        /\ failed \in BOOLEAN
    BY <1>1 DEF TreeInv, PlacesInv
  <2>2. DOMAIN infos = 1 .. Len(infos) /\ DOMAIN document = 1 .. Len(document)
        /\ Len(document) \in Nat
    BY <2>1, LenProperties DEF Forest, Numbered, DocumentShape
  <2>3. phase = "loaded" => ~failed /\ Enclosing(PositionOf(parser.result)) = 0
    BY <2>1 DEF Rooted
  <2>4. phase = "crashed" => ~failed /\ \A k \in DOMAIN document : Element(k) # "node"
    <3> SUFFICES ASSUME phase = "crashed"
                 PROVE  ~failed /\ \A k \in DOMAIN document : Element(k) # "node"
      OBVIOUS
    <3>1. ~failed /\ open = <<>> /\ parser.result = 0
      BY <2>1 DEF Rooted
    <3>2. ~Has("node")
      BY <3>1 DEF Has, OpenOf, Range
    <3> QED
      BY <2>1, <2>2, <3>1, <3>2 DEF Rooted
  <2>5. \A i \in DOMAIN infos :
          /\ Ordered(i)
          /\ Range(infos[i].children)
               = {InfoOf(k) : k \in {j \in Positions : Enclosing(j) = PositionOf(i)}}
    <3>1. ASSUME NEW i \in 1 .. Len(infos) PROVE Ordered(i)
      <4>1. Arranged(infos, i)
        BY <2>1 DEF Lists
      <4> QED
        BY <4>1 DEF Arranged, InOrder, Ordered, Out
    <3> QED
      BY <2>1, <2>2, <3>1 DEF Lists
  <2>6. ASSUME NEW k \in DOMAIN document, Element(k) = "annotation", ~(failed /\ k = Len(document))
        PROVE  LET keepers == {p \in Around[k] : Element(p) \in {"arg", "method", "interface"}}
                   notes == infos[InfoOf(Max(keepers))].notes
               IN  document[k].tag.name \in DOMAIN notes
    <3>1. k \in 1 .. Accepted
      BY <2>2, <2>6 DEF Accepted
    <3>2. document[k].tag.name \in DOMAIN infos[InfoOf(Max(Keepers(k)))].notes
      BY <2>1, <2>6, <3>1 DEF NotesKept
    <3> QED
      BY <3>2 DEF Keepers
  <2> QED
    BY <2>3, <2>4, <2>5, <2>6 DEF TreeFollowsDocument
<1> QED
  BY <1>1, TreeInvariance, PTL
================================================================================
