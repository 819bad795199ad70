------------------------------ MODULE ObjectInfo ------------------------------
(* How the library reads a DBusGObjectInfo: the string tables of methods,       *)
(* signals and properties that the binding tool writes (dbus-gobject.c          *)
(* 168-631).  A table is a sequence of strings, of which "" is the empty one,   *)
(* and a position in it an index.                                               *)
EXTENDS Signatures

CONSTANTS Uscored,   \* [names with capitals -> the same in lower case with underscores]
          Undashed   \* [names with a dash -> the same with underscores]

wincaps_to_uscore(n) == IF n \in DOMAIN Uscored THEN Uscored[n] ELSE n

\* compare_strings_ignoring_uscore_vs_dash.
SameName(a, b) == LET plain(n) == IF n \in DOMAIN Undashed THEN Undashed[n] ELSE n
                  IN  plain(a) = plain(b)

\* string_table_lookup.
Lookup(table, at, index) == table[at + index]

MethodInterface(info, m) == Lookup(info.data, m.offset, 0)
MethodName(info, m)      == Lookup(info.data, m.offset, 1)
IsAsync(info, m)         == Lookup(info.data, m.offset, 2) = "A"

\* arg_iterate: the argument at a position, and the position of the next one.
arg_iterate(table, at) ==
  IF table[at + 1] = "I"
  THEN [name |-> table[at], in |-> TRUE, constval |-> FALSE, retval |-> "N",
        type |-> table[at + 2], next |-> at + 3]
  ELSE [name |-> table[at], in |-> FALSE, constval |-> table[at + 2] = "C",
        retval |-> table[at + 3], type |-> table[at + 4], next |-> at + 5]

\* The loops over the arguments of a method, until an empty name.
MethodArgs(info, m) ==
  LET from[at \in DOMAIN info.data] ==
        IF info.data[at] = "" THEN <<>>
        ELSE LET arg == arg_iterate(info.data, at) IN <<arg>> \o from[arg.next]
  IN  from[m.offset + 3]

\* method_dir_signature_from_object_info.
DirSignature(info, m, in) ==
  LET args == SelectSeq(MethodArgs(info, m), LAMBDA arg : arg.in = in)
  IN  [k \in DOMAIN args |-> args[k].type]

\* signal_iterate, until the end of the table.
Signals(info) ==
  [k \in 1..(Len(info.signals) \div 2) |->
     [iface |-> info.signals[2 * k - 1], name |-> info.signals[2 * k]]]

\* property_iterate, until the end of the table, by format version.
Properties(info) ==
  LET step == IF info.version = 1 THEN 4 ELSE 2
  IN  [k \in 1..(Len(info.properties) \div step) |->
         LET at == step * (k - 1) + 1
         IN  [iface |-> info.properties[at], name |-> info.properties[at + 1],
              uscored |-> IF step = 4 THEN info.properties[at + 2] ELSE None,
              access |-> IF step = 4 THEN info.properties[at + 3] ELSE "readwrite"]]

\* The comparison in property_info_from_object_info.
NameFits(asked, p) ==
  \/ SameName(asked, p.name)
  \/ /\ p.uscored = None \/ SameName(asked, p.uscored)
     /\ SameName(asked, wincaps_to_uscore(p.name))

\* property_info_from_object_info: the access of the first that fits, or None.
PropertyAccess(info, iface, asked) ==
  LET ps   == Properties(info)
      fits == {k \in DOMAIN ps : ps[k].iface = iface /\ NameFits(asked, ps[k])}
  IN  IF fits = {} THEN None ELSE ps[Min(fits)].access

\* lookup_object_info: of the types that have an info, in the order
\* foreach_object_info meets them, the last one first.
InfoList(interfaces, classes, info) ==
  Reverse(SelectSeq(interfaces \o classes, LAMBDA t : info[t] # None))

\* lookup_object_info_by_iface_cb: only the first string of the properties counts.
AnswersFor(info, iface, fallback) ==
  \/ fallback /\ iface = ""
  \/ iface = IF info.properties = <<>> THEN "" ELSE info.properties[1]

\* lookup_object_info_by_iface, the type it finds.  The callback stops only the
\* loop it is called from: the first class is asked in any case.
TypeByIface(interfaces, classes, info, iface, fallback) ==
  LET has(t)  == info[t] # None
      fits(t) == has(t) /\ AnswersFor(info[t], iface, fallback)
      is  == {k \in DOMAIN interfaces : fits(interfaces[k])}
      own == {k \in DOMAIN classes : has(classes[k])}
      cs  == {k \in DOMAIN classes : fits(classes[k])}
  IN  IF is = {} THEN IF cs = {} THEN None ELSE classes[Min(cs)]
      ELSE IF own # {} /\ fits(classes[Min(own)]) THEN classes[Min(own)]
      ELSE interfaces[Min(is)]
===============================================================================
