------------------------------ MODULE Description ------------------------------
(******************************************************************************)
(* dbus/dbus-gparser.c, dbus-gidl.c and dbus-gloader-expat.c: an introspection *)
(* document is read, element by element, into a tree of reference counted      *)
(* infos.                                                                      *)
(*                                                                            *)
(* External: expat, which hands over the elements of a well-formed document,   *)
(* cannot be stopped after an error, and may find that the document is not     *)
(* well-formed at any point.  A tag has every attribute field; None is one     *)
(* that was not given, "odd" says whether another attribute, or a repeated one, *)
(* is there too.                                                               *)
(******************************************************************************)
EXTENDS Naturals, Sequences, SequencesExt

CONSTANTS
  Tags,         \* the start tags of documents
  Paths,        \* object paths, for the name of the root
  ValidNames,   \* interface and member names
  Signatures,   \* valid signatures
  MaxElements   \* bound: elements of a document

None == "NULL"
Known == {"node", "interface", "method", "signal", "property", "arg", "annotation"}
Fields == {"element", "name", "type", "access", "direction", "value", "odd"}

ASSUME DescriptionAssumption ==
  /\ \A t \in Tags : DOMAIN t = Fields /\ t.odd \in {"no", "namespaced", "unknown", "repeated"}
  /\ None \notin Paths \union ValidNames \union Signatures
  /\ MaxElements \in Nat

VARIABLES
  document,  \* the tags so far, each with the position of its parent
  open,      \* positions of the open elements; 0 for one that nobody looks at
  parser,    \* struct Parser
  infos,     \* the infos allocated
  failed,    \* ExpatParseContext.failed
  phase      \* of description_load_from_string and its caller

vars == <<document, open, parser, infos, failed, phase>>

Slots == {"interface", "method", "signal", "property", "arg"}
NewParser == [stack |-> <<>>, interface |-> 0, method |-> 0, signal |-> 0, property |-> 0,
              arg |-> 0, annotation |-> FALSE, foreign |-> 0, result |-> 0]

TypeOK ==
  /\ document \in Seq([tag : Tags, parent : Nat]) /\ Len(document) <= MaxElements
  /\ open \in Seq(0 .. Len(document))
  /\ \A s \in Slots : parser[s] \in 0 .. Len(infos)
  /\ \A s \in Slots : parser[s] # 0 => infos[parser[s]].kind = s
  /\ \A k \in DOMAIN parser.stack : infos[parser.stack[k]].kind = "node"
  /\ parser.foreign \in Nat /\ parser.annotation \in BOOLEAN
  /\ parser.result \in 0 .. Len(infos)
  /\ \A i \in DOMAIN infos : infos[i].refs \in 0 .. 2
  /\ failed \in BOOLEAN
  /\ phase \in {"reading", "loaded", "rejected", "crashed", "released"}

Init ==
  /\ document = <<>> /\ open = <<>>
  /\ parser = NewParser /\ infos = <<>>
  /\ failed = FALSE /\ phase = "reading"

--------------------------------------------------------------------------------
(* The infos of dbus-gidl.c *)

\* node_info_new, interface_info_new, method_info_new, ...
NewInfo(kind, tag) ==
  [kind |-> kind, name |-> tag.name, type |-> tag.type, access |-> tag.access,
   direction |-> tag.direction, notes |-> <<>>, children |-> <<>>, refs |-> 1]

\* method_info_add_arg: appended and sorted by direction, stably; the list was
\* sorted before, so that an "in" argument goes behind the last of its kind.
Sorted(all, args, i) ==
  LET ins == {k \in DOMAIN args : all[args[k]].direction = "in"}
  IN  IF all[i].direction = "in" THEN InsertAt(args, Max(ins \union {0}) + 1, i) ELSE Append(args, i)

\* Mutant: the arguments stay in the order of the document.
Added_unsorted(all, owner, i) ==
  [all EXCEPT ![owner].children = Append(@, i), ![i].refs = @ + 1]

\* node_info_add_node, node_info_add_interface, interface_info_add_method,
\* method_info_add_arg, ...: the list takes a reference.
Added(all, owner, i) ==
  LET list == all[owner].children
      kept == IF all[owner].kind = "method" THEN Sorted(all, list, i) ELSE Append(list, i)
  IN  [all EXCEPT ![owner].children = kept, ![i].refs = @ + 1]

\* Mutant: an element's own reference is kept.
Owned_twice(all, owner, i) == Added(all, owner, i)

\* A new info that belongs to its owner's list alone.
Owned(all, owner, i) == [Added(all, owner, i) EXCEPT ![i].refs = @ - 1]

\* interface_info_add_annotation, method_info_add_annotation, ...: a later one
\* with the same name replaces it.
Annotated(all, owner, tag) ==
  LET old == all[owner].notes
      new == [n \in DOMAIN old \union {tag.name} |-> IF n = tag.name THEN tag.value ELSE old[n]]
  IN  [all EXCEPT ![owner].notes = new]

\* node_info_unref: what is freed drops its lists, and so on down the tree; an
\* info is behind those that list it.
NodeUnref(all, node) ==
  LET dropped[i \in 1 .. Len(all)] ==
        Cardinality({p \in 1 .. i - 1 : dropped[p] = all[p].refs /\ i \in Range(all[p].children)})
          + IF i = node THEN 1 ELSE 0
  IN  [i \in 1 .. Len(all) |-> [all[i] EXCEPT !.refs = @ - dropped[i]]]

--------------------------------------------------------------------------------
(* Start elements *)

Inside(slots) == \E s \in slots : parser[s] # 0
New == Len(infos) + 1

\* locate_attributes.
AttributesFine(tag) == tag.odd \in {"no", "namespaced"}

\* expat_StartElementHandler, up to the parser.
Opens(tag) ==
  /\ phase = "reading" /\ ~failed
  /\ Len(document) < MaxElements
  /\ document # <<>> => open # <<>>
  /\ document' = Append(document, [tag |-> tag, parent |-> IF open = <<>> THEN 0 ELSE Last(open)])
  /\ open' = Append(open, Len(document) + 1)
  /\ UNCHANGED phase

Accepts(newParser, newInfos) == parser' = newParser /\ infos' = newInfos /\ UNCHANGED failed
Refuses == failed' = TRUE /\ UNCHANGED <<parser, infos>>

\* parse_node.
StartNode(tag) ==
  /\ tag.element = "node" /\ Opens(tag)
  /\ LET root == parser.stack = <<>>
         grown == Append(infos, NewInfo("node", tag))
     IN  IF /\ ~Inside(Slots) /\ ~parser.annotation
            /\ AttributesFine(tag)
            /\ IF root THEN tag.name \in Paths \union {None} ELSE tag.name \notin Paths \union {None}
         THEN Accepts([parser EXCEPT !.stack = Append(@, New)],
                      IF root THEN grown ELSE Added(grown, Last(parser.stack), New))
         ELSE Refuses

\* parse_interface.
StartInterface(tag) ==
  /\ tag.element = "interface" /\ Opens(tag)
  /\ IF /\ ~Inside(Slots) /\ ~parser.annotation /\ parser.stack # <<>>
        /\ AttributesFine(tag) /\ tag.name \in ValidNames
     THEN Accepts([parser EXCEPT !.interface = New],
                  Owned(Append(infos, NewInfo("interface", tag)), Last(parser.stack), New))
     ELSE Refuses

MemberFits == /\ parser.interface # 0 /\ parser.stack # <<>>
              /\ ~Inside(Slots \ {"interface"}) /\ ~parser.annotation

\* parse_method, parse_signal.
StartMember(tag) ==
  /\ tag.element \in {"method", "signal"} /\ Opens(tag)
  /\ IF MemberFits /\ AttributesFine(tag) /\ tag.name \in ValidNames
     THEN Accepts([parser EXCEPT ![tag.element] = New],
                  Owned(Append(infos, NewInfo(tag.element, tag)), parser.interface, New))
     ELSE Refuses

\* parse_property: the name may be any text.
StartProperty(tag) ==
  /\ tag.element = "property" /\ Opens(tag)
  /\ IF /\ MemberFits /\ AttributesFine(tag)
        /\ tag.name # None /\ tag.type \in Signatures
        /\ tag.access \in {"read", "write", "readwrite"}
     THEN Accepts([parser EXCEPT !.property = New],
                  Owned(Append(infos, NewInfo("property", tag)), parser.interface, New))
     ELSE Refuses

\* parse_arg: the direction's default and the name that is made up.
StartArg(tag) ==
  /\ tag.element = "arg" /\ Opens(tag)
  /\ LET owner == IF parser.method # 0 THEN parser.method ELSE parser.signal
         natural == IF parser.method # 0 THEN "in" ELSE "out"
         direction == IF tag.direction = None THEN natural ELSE tag.direction
         name == IF tag.name # None THEN tag.name
                 ELSE "arg" \o ToString(Len(infos[owner].children))
     IN  IF /\ owner # 0 /\ parser.stack # <<>>
            /\ ~Inside({"property", "arg"}) /\ ~parser.annotation
            /\ AttributesFine(tag) /\ tag.type \in Signatures
            /\ direction \in (IF parser.signal # 0 THEN {"out"} ELSE {"in", "out"})
         THEN Accepts([parser EXCEPT !.arg = New],
                      Owned(Append(infos, [NewInfo("arg", tag) EXCEPT !.name = name,
                                                            !.direction = direction]), owner, New))
         ELSE Refuses

\* What an annotation is kept with: a signal's and a property's, with their
\* interface.
NoteOwner(p) ==
  IF p.arg # 0 THEN p.arg ELSE IF p.method # 0 THEN p.method ELSE p.interface

\* parse_annotation.
StartAnnotation(tag) ==
  /\ tag.element = "annotation" /\ Opens(tag)
  /\ IF /\ Inside(Slots) /\ parser.stack # <<>> /\ ~parser.annotation
        /\ AttributesFine(tag) /\ tag.name # None /\ tag.value # None
     THEN Accepts([parser EXCEPT !.annotation = TRUE], Annotated(infos, NoteOwner(parser), tag))
     ELSE Refuses

\* parser_start_element, of another element: one with a namespace is passed
\* through, and so is everything unknown inside of it.
StartOther(tag) ==
  /\ tag.element \notin Known /\ Opens(tag)
  /\ IF tag.element = "x:y" THEN Accepts([parser EXCEPT !.foreign = @ + 1], infos)
     ELSE IF parser.foreign > 0 THEN Accepts(parser, infos)
     ELSE Refuses

\* expat_StartElementHandler after a failure (bound: one such element is open).
StartIgnored ==
  /\ phase = "reading" /\ failed /\ open # <<>> /\ 0 \notin Range(open)
  /\ open' = Append(open, 0)
  /\ UNCHANGED <<document, parser, infos, failed, phase>>

--------------------------------------------------------------------------------
(* End elements and the end of the document *)

\* Mutant: an argument that ends stays the parser's argument.
Closed_argument(p, element) ==
  IF element \in Slots \ {"arg"} THEN [p EXCEPT ![element] = 0]
  ELSE IF element = "annotation" THEN [p EXCEPT !.annotation = FALSE]
  ELSE IF element = "node"
  THEN [p EXCEPT !.stack = Front(@), !.result = IF Len(p.stack) = 1 THEN p.stack[1] ELSE @]
  ELSE p

\* parser_end_element.
Closed(p, element) ==
  IF element \in Slots THEN [p EXCEPT ![element] = 0]
  ELSE IF element = "annotation" THEN [p EXCEPT !.annotation = FALSE]
  ELSE IF element = "node"
  THEN [p EXCEPT !.stack = Front(@), !.result = IF Len(p.stack) = 1 THEN p.stack[1] ELSE @]
  ELSE IF element = "x:y" THEN [p EXCEPT !.foreign = @ - 1]
  ELSE p

\* expat_EndElementHandler.
End ==
  /\ phase = "reading" /\ open # <<>>
  /\ open' = Front(open)
  /\ parser' = IF failed THEN parser ELSE Closed(parser, document[Last(open)].tag.element)
  /\ UNCHANGED <<document, infos, failed, phase>>

\* parser_unref: the nodes that are still on the stack are not freed.
ParserFreed(all) == IF parser.result = 0 THEN all ELSE NodeUnref(all, parser.result)

\* Mutant: the caller gets the parser's own reference.
Loads_borrowed ==
  /\ phase = "reading" /\ document # <<>> /\ open = <<>>
  /\ IF failed THEN phase' = "rejected" /\ infos' = ParserFreed(infos)
     ELSE IF parser.result = 0 THEN phase' = "crashed" /\ UNCHANGED infos
     ELSE phase' = "loaded" /\ infos' = ParserFreed(infos)
  /\ UNCHANGED <<document, open, parser, failed>>

\* description_load_from_string, when the document is read.
Loads ==
  /\ phase = "reading" /\ document # <<>> /\ open = <<>>
  /\ IF failed THEN phase' = "rejected" /\ infos' = ParserFreed(infos)
     ELSE IF parser.result = 0 THEN phase' = "crashed" /\ UNCHANGED infos
     ELSE /\ phase' = "loaded"
          /\ infos' = ParserFreed([infos EXCEPT ![parser.result].refs = @ + 1])
  /\ UNCHANGED <<document, open, parser, failed>>

\* The document turns out not to be well-formed: before, inside or after its element.
Malformed ==
  /\ phase = "reading"
  /\ phase' = "rejected" /\ infos' = ParserFreed(infos)
  /\ UNCHANGED <<document, open, parser, failed>>

\* The caller is done with the description.
Releases ==
  /\ phase = "loaded"
  /\ phase' = "released" /\ infos' = NodeUnref(infos, parser.result)
  /\ UNCHANGED <<document, open, parser, failed>>

Start(tag) ==
  \/ StartNode(tag) \/ StartInterface(tag) \/ StartMember(tag) \/ StartProperty(tag)
  \/ StartArg(tag) \/ StartAnnotation(tag) \/ StartOther(tag)

Next ==
  \/ \E tag \in Tags : Start(tag)
  \/ StartIgnored \/ End \/ Loads \/ Malformed \/ Releases

Spec == Init /\ [][Next]_vars
================================================================================
