----------------------------- MODULE MCDescription ------------------------------
(******************************************************************************)
(* Instances of Description for TLC.                                          *)
(******************************************************************************)
EXTENDS DescriptionProps

Blank == [element |-> None, name |-> None, type |-> None, access |-> None,
          direction |-> None, value |-> None, odd |-> "no"]
Tag(element, name) == [Blank EXCEPT !.element = element, !.name = name]
Arg(name, type, direction) ==
  [Tag("arg", name) EXCEPT !.type = type, !.direction = direction]
Property(type, access) == [Tag("property", "Prop") EXCEPT !.type = type, !.access = access]

SomeTags ==
  {Tag("node", None), Tag("node", "/obj"), Tag("node", "child"),
   Tag("interface", "org.I"), [Tag("interface", "org.I") EXCEPT !.odd = "unknown"],
   Tag("method", "Do"), [Tag("signal", "Did") EXCEPT !.odd = "namespaced"],
   Property("s", "readwrite"),
   Arg(None, "s", None), Arg("a", "s", "out"), Arg("a", "!", "in"),
   [Tag("annotation", "A") EXCEPT !.value = "1"], Tag("x:y", None), Tag("z", None)}
SomePaths == {"/obj"}
SomeNames == {"org.I", "Do", "Did"}
SomeSignatures == {"s", "u"}
================================================================================
