---------------------------- MODULE DescriptionProps ----------------------------
(******************************************************************************)
(* What the reader of introspection documents promises, over Description.     *)
(******************************************************************************)
EXTENDS Description

Element(k) == document[k].tag.element

\* The positions of the elements around the one at position k.
Around[k \in 0 .. Len(document)] ==
  IF k = 0 THEN {}
  ELSE ({document[k].parent} \ {0}) \union Around[document[k].parent]

\* The innermost of them that the format knows; 0 for none.
Enclosing(k) ==
  LET known == {p \in Around[k] : Element(p) \in Known}
  IN  IF known = {} THEN 0 ELSE Max(known)

InForeign(k) == \E p \in Around[k] : Element(p) = "x:y"
Within(k) == IF Enclosing(k) = 0 THEN "document" ELSE Element(Enclosing(k))

\* Where the format has its elements (the introspection DTD), foreign elements
\* left out.
WellPlaced(k) ==
  CASE Element(k) = "node" -> Within(k) \in {"document", "node"}
    [] Element(k) = "interface" -> Within(k) = "node"
    [] Element(k) \in {"method", "signal", "property"} -> Within(k) = "interface"
    [] Element(k) = "arg" -> Within(k) \in {"method", "signal"}
    [] Element(k) = "annotation" ->
         Within(k) \in {"interface", "method", "signal", "property", "arg"}
    [] OTHER -> Element(k) = "x:y" \/ InForeign(k)

\* The attributes each element needs.
WellAttributed(k) ==
  LET t == document[k].tag
      in == Within(k)
  IN  /\ Element(k) \in Known => t.odd \notin {"unknown", "repeated"}
      /\ Element(k) = "node" => (t.name = None => in = "document")
                                /\ (t.name # None => (t.name \in Paths <=> in = "document"))
      /\ Element(k) \in {"interface", "method", "signal"} => t.name \in ValidNames
      /\ Element(k) = "property" => t.name # None /\ t.access \in {"read", "write", "readwrite"}
      /\ Element(k) \in {"property", "arg"} => t.type \in Signatures
      /\ Element(k) = "arg" => t.direction \in {None, "out"} \union
                                 (IF in = "signal" THEN {} ELSE {"in"})
      /\ Element(k) = "annotation" => None \notin {t.name, t.value}

\* The reader accepts an element exactly where the format has it, whatever
\* elements were closed before and whatever foreign elements are around it
\* (parser_start_element, parser_end_element: slots and stack).
PlacesElements ==
  \A k \in DOMAIN document :
    (WellPlaced(k) /\ WellAttributed(k)) <=> ~(failed /\ k = Len(document))

Producing(k) == Element(k) \in Known \ {"annotation"}
\* The info that the element at position k became.
InfoOf(k) == Cardinality({j \in 1 .. k : Producing(j)})
Positions == {k \in DOMAIN document : Producing(k) /\ InfoOf(k) <= Len(infos)}
PositionOf(i) == CHOOSE k \in Positions : InfoOf(k) = i
Out(i) == infos[i].direction = "out"
\* The list of an info is in the order of the document, but that of a method has
\* its "in" arguments before its "out" arguments.
Ordered(i) ==
  LET list == infos[i].children
  IN  \A a, b \in DOMAIN list : a < b =>
        IF infos[i].kind # "method" \/ (Out(list[a]) <=> Out(list[b])) THEN list[a] < list[b]
        ELSE Out(list[b])

\* The tree has the shape of the document: each info is in one list, its
\* element's parent's, in document order except that a method's "in" arguments
\* come first, and each annotation is with the innermost argument, method or
\* interface around it (parse_arg, method_info_add_arg, parse_annotation).  What
\* is loaded is the tree of a root node, and only a document without any node is
\* accepted and not loaded (description_load_from_string does not guard itself).
TreeFollowsDocument ==
    /\ phase = "loaded" => ~failed /\ Enclosing(PositionOf(parser.result)) = 0
    /\ phase = "crashed" => ~failed /\ \A k \in DOMAIN document : Element(k) # "node"
    /\ \A i \in DOMAIN infos :
         /\ Ordered(i)
         /\ Range(infos[i].children) =
              {InfoOf(k) : k \in {j \in Positions : Enclosing(j) = PositionOf(i)}}
    /\ \A k \in DOMAIN document :
         (Element(k) = "annotation" /\ ~(failed /\ k = Len(document))) =>
           LET keepers == {p \in Around[k] : Element(p) \in {"arg", "method", "interface"}}
               notes == infos[InfoOf(Max(keepers))].notes
           IN  document[k].tag.name \in DOMAIN notes

\* Who refers to an info: the list it is in, the parser, the caller.
Listing(i) == {p \in DOMAIN infos : infos[p].refs > 0 /\ i \in Range(infos[p].children)}
Stacked(i) == phase = "reading" /\ i \in Range(parser.stack)
Resulting(i) == phase \in {"reading", "loaded", "crashed"} /\ parser.result = i
Holders(i) == Cardinality(Listing(i)) + (IF Stacked(i) THEN 1 ELSE 0)
                                      + (IF Resulting(i) THEN 1 ELSE 0)

\* An info is freed when, and not before, nobody refers to it any more, also
\* when the document is refused halfway; but a node that leaves the stack
\* without becoming the result keeps the reference of parse_node.
FreedWhenUnheld ==
  \A i \in DOMAIN infos :
    IF infos[i].refs = 0 THEN Holders(i) = 0
    ELSE LET leaked == infos[i].kind = "node" /\ ~Stacked(i) /\ ~Resulting(i)
         IN  infos[i].refs = Holders(i) + (IF leaked THEN 1 ELSE 0)
================================================================================
