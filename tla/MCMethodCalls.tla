---------------------------- MODULE MCMethodCalls ----------------------------
EXTENDS MethodCallsProps

MCInterfaces == <<"Iface">>
MCClasses    == <<"Own", "Parent">>
MCDBusTypes  == {<<c>> : c \in {"b", "n", "i", "u", "s", "o", "v"}}
                  \cup {<<"array", <<"s">>>>, <<"struct", <<"s">>, <<"o">>>>, <<"dict", <<"s">>, <<"v">>>>}
MCUscored    == [Size |-> "size", Bork |-> "bork"]
MCUndashed   == ("own-bork" :> "own_bork") @@ ("a-size" :> "a_size")

In(name, t)  == [name |-> name, in |-> TRUE, type |-> t, const |-> FALSE, ret |-> None]
Out(name, t) == [name |-> name, in |-> FALSE, type |-> t, const |-> FALSE, ret |-> None]
Ret(name, t, r) == [Out(name, t) EXCEPT !.ret = r, !.const = TRUE]
Method(name, args) == [name |-> name, async |-> FALSE, noreply |-> FALSE, args |-> args]

\* A method of each kind: its own return value, with and without an error, an
\* asynchronous one, one that wants no reply, one with a 16-bit integer.
Swap  == Method("Swap", <<In("a", <<"s">>), Ret("r", <<"s">>, "error"), In("b", <<"v">>), Out("o", <<"struct", <<"s">>, <<"o">>>>)>>)
Late  == [Method("Late", <<Out("x", <<"s">>), In("a", <<"array", <<"s">>>>),
                          Out("y", <<"dict", <<"s">>, <<"v">>>>)>>) EXCEPT !.async = TRUE]
Total == Method("Total", <<Ret("r", <<"u">>, "")>>)
Fire  == [Method("Fire", <<In("a", <<"v">>)>>) EXCEPT !.noreply = TRUE]
Short == Method("Short", <<In("a", <<"n">>), Out("o", <<"n">>)>>)
\* The tool refuses this one.
Wrong == Method("Wrong", <<Out("o", <<"s">>), Ret("r", <<"s">>, "")>>)

Rw == {"read", "write"}
A(methods) == [name |-> "A", methods |-> methods, signals |-> <<>>,
               properties |-> <<[name |-> "Size", type |-> <<"u">>, access |-> Rw]>>]
B == [name |-> "B", methods |-> <<Fire, Short>>, signals |-> <<[name |-> "Done"]>>,
      properties |-> <<[name |-> "Size", type |-> <<"u">>, access |-> {"read"}],
                       [name |-> "Bork", type |-> <<"s">>, access |-> {"write"}]>>]
C == [name |-> "C", methods |-> <<Total>>, signals |-> <<>>,
      properties |-> <<[name |-> "own-bork", type |-> <<"s">>, access |-> {"read"}]>>]

World(i, o, p) == [Iface |-> i, Own |-> o, Parent |-> p]
MCWorlds == [built   |-> World(<<B>>, <<A(<<Swap, Late>>)>>, <<>>),
             refused |-> World(<<B>>, <<A(<<Wrong>>)>>, <<C>>)]

MCGProperties ==
  [size |-> [type |-> <<"u">>, readable |-> TRUE, writable |-> TRUE, marshals |-> TRUE],
   bork |-> [type |-> <<"s">>, readable |-> FALSE, writable |-> TRUE, marshals |-> TRUE],
   own_bork |-> [type |-> <<"s">>, readable |-> TRUE, writable |-> FALSE, marshals |-> FALSE]]
MCShadows == {<<"Iface", "Size", "own_bork">>}
MCErrorDomains == [E |-> [iface |-> None, codes |-> {"OutOfOil"}]]
Raised(domain, code) == [domain |-> domain, code |-> code, name |-> None, utf8 |-> TRUE]
MCErrors == {Raised("E", "OutOfOil"), Raised("DBUS_GERROR", "TIMEOUT"),
             [Raised("DBUS_GERROR", "REMOTE_EXCEPTION") EXCEPT !.name = <<"x.Y", "Remote">>],
             [Raised("DBUS_GERROR", "FAILED") EXCEPT !.utf8 = FALSE]}

Str(d) == Value(<<"s">>, <<d>>)
Raw(iface, member, args) == [iface |-> iface, member |-> member, args |-> args, noreply |-> FALSE]
New(t) == Variant(Value(t, <<"new">>))
MCRawMessages ==
  {Raw("org.Introspectable", "Introspect", <<>>), Raw(None, "Total", <<>>),
   [Raw("B", "Fire", <<[Value(<<"v">>, <<"x">>) EXCEPT !.fault = "foreign"]>>) EXCEPT !.noreply = TRUE],
   [Raw(None, "Short", <<Value(<<"n">>, <<"x">>)>>) EXCEPT !.noreply = TRUE],
   Raw("org.Properties", "GetAll", <<Str("B")>>), Raw("org.Properties", "GetAll", <<Str("")>>),
   Raw("org.Properties", "Get", <<Str("B"), Str("Size")>>),
   Raw("org.Properties", "Set", <<Str("A"), Str("size"), New(<<"u">>)>>),
   Raw("org.Properties", "Set", <<Str("B"), Str("Size"), New(<<"u">>)>>),
   Raw("org.Properties", "Set", <<Str("A"), Str("size"), New(<<"array", <<"s">>>>)>>),
   Raw("org.Properties", "Set", <<Str("B"), Str("Size"), New(<<"array", <<"s">>>>)>>),
   [Raw("org.Properties", "Set", <<Str("B"), Str("Bork"), New(<<"s">>)>>) EXCEPT !.noreply = TRUE],
   Raw("org.Properties", "Set", <<Str("B"), Str("Bork"), New(<<"u">>)>>),
   Raw("org.Properties", "Set", <<Str("A"), Str("Bork"), New(<<"s">>)>>),
   Raw("org.Properties", "Set", <<Str("B"), Str("bork")>>)}
===============================================================================
