# A TLA+ verification of dbus-glib

dbus-glib maps D-Bus onto GLib and GObject. These modules model the client's
proxies and the manager that serves them, the method calls of a proxy, the objects
a service exports and how their methods and properties are reached through
generated code, the introspection parser, and the main loop integration. TLC checks
small instances; TLAPS proves the theorems for every value of the constants. File
names below are relative to `src/`.

## The system

| component | code | state | operations | modules |
|---|---|---|---|---|
| proxy manager | `dbus/dbus-gproxy.c` 132-1450 | `proxy_lists`, `owner_match_rules`, `owner_names`, `unassociated_proxies`, `refcount`; per proxy `name_call`, `associated` | register, unregister, set_interface, the message filter, the GetNameOwner callback | `ProxyManager`, `Bus` |
| method calls of a proxy | `dbus/dbus-gproxy.c` 1832-3004 | `pending_calls`, `call_id_counter` | begin_call, end_call, call, cancel_call, dispose, notification; collecting return values | `PendingCalls`; values in `MethodCalls` |
| exported objects | `dbus/dbus-gobject.c` 633-712, 2179-2506, 2781-2981, 3231-3245 | `ObjectExport`, its registrations, libdbus's object tree | register, unregister, death, emission, lookup | `ObjectExport` |
| method invocation | `dbus/dbus-gobject.c` 1406-2110, 3040-3190 | `DBusGMethodInvocation`, the reply | lookup, synchronous, asynchronous and error replies | `MethodCalls`, `Rpc` |
| properties, introspection | `dbus/dbus-gobject.c` 720-1400, 2112-2330 | shadow properties, legacy access | Get, Set, GetAll, Introspect | `ObjectInfo`, `MethodCalls` |
| error mapping | `dbus/dbus-gobject.c` 1465-1600, `dbus-gproxy.c` | registered domains | GError to D-Bus error and back | `MethodCalls` |
| type system | `dbus/dbus-gsignature.c`, `dbus-gvalue*.c`, `dbus-gtype-specialized.c` | registered types | signature to GType and back, marshal, demarshal | `Signatures` (what is accepted, not how it is copied) |
| binding tool | `dbus/dbus-binding-tool-glib.c`, `dbus-glib-tool.c` | none | object info, marshallers and wrappers of a document | `BindingTool` (the data, not the C text) |
| introspection parser | `dbus/dbus-gparser.c`, `dbus-gidl.c`, `dbus-gloader-expat.c` | the parser's slots and stack, the tree of infos | start, end, load, unref | `Description` |
| main loop | `dbus-gmain/dbus-gmain.c` | `ConnectionSetup`, sources, handlers | add, remove, toggle, dispatch, move to another context, free | `MainLoop` |
| `dbus-glib.c`, closure marshallers, variant bridge, completion helper, threads, helpers | see `PROJECT.json` | none to speak of | wrappers, text | not modelled |

How they interact. An application makes a `DBusGProxy`; its constructor registers
it with the `DBusGProxyManager` of the connection, which adds match rules on the
bus and asks it with GetNameOwner who owns the proxy's name. That call is itself
a pending call of the manager's own `bus_proxy`. The main loop (`dbus-gmain`)
dispatches messages of the connection to the manager's filter, which follows
NameOwnerChanged, routes signals to proxies, and destroys proxies when an owner
or the connection is lost. Handlers of those signals are application code: they
run with the manager's lock released and may call every entry point. On the
other side a service registers objects at paths of a connection's object tree,
which leads messages back to them and each GObject signal out to every place the
object is registered at.

Threads. `dbus/dbus-gthread.c` says that "dbus-glib's GObject mapping is explicitly
*not* thread-safe". The models have one thread. What is concurrent is the bus,
the owners of names, the network, and application code that runs at every
callback. The lock of the manager is therefore not a variable: it marks the
places where the code calls the application, and an action ends there.

## Modules

**`Bus`** is external: the bus daemon and the connection, written from the calls
`dbus-gproxy.c` makes and the messages it handles. Requests (`toBus`) and messages
(`toClient`) are FIFO; the bus keeps match rules (a multiset) and owners. A
message that nobody waits for any more becomes `Ignored`. Outside events (owner
changes, signals, failed calls, lost connections) are bounded by `Budget`, as is
set_interface ("moves").

**`ProxyManager`** extends it. `ownerNames[u][n]` is the list of info refcounts for
name `n` under owner `u` (one entry is normal; the code can make more, since
replace_name_owner appends without looking). `namesTable` and `rulesTable` say
whether the hash tables exist, because the code's assertions distinguish NULL
from empty. `proxy_lists` is derived: the list of a tristring is `ListOf(name,
interface)`. `unassociated` counts links, because a proxy can be prepended twice.
The actions:

| action | code |
|---|---|
| `New`, `ResolveOwner` | constructor, register; new_for_name_owner's blocking call |
| `Dispose`, `Destroys` | dispose, from the application and from the filter |
| `SetInterfaceBegins`, `SetInterfaceEnds` | set_interface's unregister and register |
| `GotNameOwner`, `NameCallFails` | got_name_owner_cb |
| `NameAppears`, `NameMovesOrGoes` | replace_name_owner, unassociate_proxies |
| `RoutesSignal`, `EmitsTo`, `HandlesDisconnected`, `FilterReturns` | the filter and its loops |

A loop of the filter that runs handlers is a set of proxies still to do
(`filter.todo`), so that any application action may come between two turns. A
failed assertion or a NULL dereference sets `fault` and nothing happens after it.
No proxy of the application is bound to org.freedesktop.DBus: once the filter has
followed a NameOwnerChanged it goes on and routes the message to such proxies as a
signal, and the model leaves that out.

`Reuse` says whether the application may watch a well-known name again after the
last proxy for it was released. The code goes wrong when it does while old
announcements are in flight (see below); the run `names` checks what holds
otherwise, `moves` what holds in any case.

**`PendingCalls`** is one proxy's method calls. `refs` is the reference count of each
libdbus pending call; `stack` the callbacks and end_calls in progress, since
end_call blocks in libdbus, may run a callback there, and a callback may call
end_call, cancel_call or drop the proxy. Identifiers are taken modulo `IdCount`.
begin_call and cancel_call check that the proxy was not disposed of; end_call does
not, so `EndBegins` may come after `Dispose`, when the table is gone: it finds no
call, and its assertion ends the process (`fault` is "no such call").
`CancelsLate` says whether the application cancels calls that were completed but
not ended (see below).

**`ObjectExport`** is objects, connections and paths. `tree` is libdbus's object
tree, `hooks` and `weakRefs` what GObject keeps. A dispose is three steps
(handlers destroyed, weak references notified, then kept or finalized) because
other weak notifications and dispose methods, which are application code, run
between them.

**`MainLoop`** is one connection and its sources. A handler structure
(`IOHandler`, `TimeoutHandler`) is a record that is reused once it is freed:
`setup` is the ConnectionSetup it belongs to, `thing` its watch or timeout,
`attached` whether its source is in the context. `data` is what libdbus keeps
for the watch. Handlers are changed by functions on `[handler, data]`
(`Attached`, `Removed`, `ThingFreed`, ...), one for each C function, so that a
move of the connection (`SetUp`) is the composition the code makes: the new
setup takes the handlers over, the old one is freed, then libdbus adds
everything with the new functions and removes it with the old ones. `stack` is
the dispatches in progress: application code runs in one of the message queue and may
move or release the connection there; libdbus's runs in one of a watch or a timeout
and may remove or disable what is being dispatched.

| action | code |
|---|---|
| `SetUp`, `Release` | set_up_connection with connection_setup_new_from_old; the last unref |
| `Adds`, `Removes`, `Enables`, `Disables` | add_, remove_ and toggle functions of watches and timeouts |
| `DispatchesMessages`, `DispatchesSource`, `DispatchReturns` | the dispatch functions, and the finalizers of their handlers |

**`Description`** reads a document. `document` is what expat has handed over, with the
position of each element's parent; `parser` is `struct Parser`, `infos` every info that
was allocated, with its reference count. There is one action for each kind of start
element, one for the end of an element (`End`), and `Loads`, `Malformed` and `Releases`
for the ways in which reading ends; a document may be malformed before its first
element. `failed` is the loader's flag: expat goes on after an error, and the handlers
must do nothing. `Sorted` is the insertion of an argument, inputs first; `NodeUnref` is
a release: how often each info is dropped is a function down the tree, and those that
reach zero are freed.

**`Signatures`**, **`ObjectInfo`** and **`BindingTool`** are functions. `Signatures`
maps a signature (a tree of codes) to a GType and back and says what each demarshaller
accepts, as recursive functions over `DBusTypes`: the D-Bus types that occur, which
contain the types they are made of (`TypesAreClosed`). Reading a value of one type as
another is a refusal with an error code or "aborted", the end of the process:
demarshal_basic asserts that what it reads is basic, demarshal_struct that no member is
left over, and libdbus that its iterators are asked for what they stand at. Three
assumptions are made there. Arrays have at least one element; types that do not match
are met before a value that is faulty in itself; an array of fixed elements that is read
as one of other fixed elements is read. `ObjectInfo` reads the string tables of a
`DBusGObjectInfo`: `arg_iterate` and its relatives walk a sequence of strings by index,
as the code does. `BindingTool` writes those tables, the marshallers and the wrappers of
callers from a document.

**`MethodCalls`** composes them. The object infos (`infos`) and the wrappers are made
from the same documents (`Worlds`) before anything runs, and a call travels from a
wrapper (`Call`) or a handmade message (`SendRaw`) over `requests`, `Dispatch` and
`replies` to `Receive`. `Dispatch` is object_registration_message: introspection,
methods, then the properties interface, each with its error answers, which include
FAILED for a property whose value has no signature or cannot be marshalled. `aborted`
holds the processes that an assertion has ended: the service while it reads the value of
a Set or an argument, the caller while it reads a reply. Nothing moves in such a process
afterwards, and no call is made any more. A synchronous method answers in that step; an
asynchronous one is handed a context, which `MethodReturn`, `MethodReturnError` or
`MethodSendReply` uses up. Values carry a token of their call and argument instead of
contents, and a fault for those that cannot be written or read; so a value that ends up
in the wrong place is seen. `seen`, `given` and `answers` are history. The application's
setup (`RegisterShadow`, `DisableLegacy`, `RegisterDomain`) comes before the first call.

**`Rpc`** is the abstract specification: a call is issued, and answered at most once;
one that waits is answered or lost, alone or with others (`Lose(S)`). `MethodCalls`
implements it under the mapping `Status` (`MethodCallsProps`): "lost" is allowed only for
results that cannot be written and for calls whose caller or service has ended, which
are left to the bus and the caller's timeout. A call that was answered twice, or that waits
with nobody left to answer it, maps to a value `Rpc` does not have.

`ProxyManagerProps`, `PendingCallsProps`, `ObjectExportProps`, `MainLoopProps`,
`DescriptionProps` and `MethodCallsProps` state the properties, `MC*` are the
instances for TLC. The proofs are in `ProxyManagerProofs` and `ProxyTrackingProofs`
(which extends it), `PendingCallsProofs`, `ObjectExportProofs`, `MainLoopProofs`,
`DescriptionProofs`, `MethodCallsProofs`, and `Induction`, which holds the facts about
natural numbers, finite sets and folds that the others induct with.
Operators whose name ends in an underscore and a word (`Unref_twice`) are mutations
of the definition before the underscore: replaced by one, a property must fail.

## What the runs check

| run | instance | properties |
|---|---|---|
| `names` | 3 proxies for one name, 2 owners, 3 owner changes, 1 failed call | the manager's idea of the owner is the bus's at the point of its history the client has reached (`TrackingFollowsBus`); infos count their proxies; a proxy waits in one place; the manager is freed with empty tables |
| `moves` | 2 proxies, 2 interfaces, 1 set_interface, 1 signal, 2 changes, names watched again | the bus ends up with exactly the rules needed; references to the manager; the lookups of unregister |
| `routing` | 2 names, 2 owners that may hold both, 2 changes, 1 signal | a signal reaches exactly the right proxies |
| `settles` | a name and a unique name, 2 changes, 1 lost connection | only orphans are destroyed; calls end; Disconnected and vanished owners destroy proxies; tracking settles |
| `calls` | 3 calls | references, identifiers, replies and callbacks of calls; end_call finds its reply unless the proxy was disposed of; nothing outlives dispose |
| `objects` | 2 objects, 2 connections, 2 paths | registrations and tree agree; no message for a dead object; one death per life; no signal twice; the first path wins |
| `mainloop` | a watch, a timeout, 2 contexts, 3 setups, 3 nested dispatches | the watch has its one source in the present context; handlers, watches and setups know each other; a handler that was taken off is freed, also inside its own dispatch |
| `documents` | up to 5 elements over 14 tags | elements are accepted exactly where the format has them; the tree has the document's shape; references balance |
| `services` | 2 calls; a document that the tool builds and one it refuses, 3 types, 15 handmade messages, 4 errors | arguments and results arrive; a property changes only to the value of a Set that names a writable property of an interface of the object, and that its type can be read from; no message but a Set of a writable property ends the service, no reply ends the caller unless a value was left out of it; `Rpc` is implemented |

The bounds. Two proxies per name are needed for every question about sharing an info, a
list or a rule; `names` has three so that one may come while another goes. Three owner
changes make appear-move-vanish and vanish-appear-vanish possible around one
GetNameOwner call. Two names are needed only for routing. Three calls let one nest in
another's callback while a third waits; they are fewer than `IdCount`, so an identifier
is not used twice: what happens after 2^32 calls is outside the run. The object run
needs no bound at all. Three setups let a connection move back to a context it left,
three dispatches one move inside a dispatch inside a dispatch; `Room` keeps as many
handler structures free as one step may allocate, and with eight of them it never stops
a step. Five elements reach an argument of a method of an interface of a node with one
element before or after it, and every pair of siblings; the tags have each attribute
missing, wrong and right. Two calls are enough for one to be answered late while another
passes it; there is a method of each kind (own return value with and without an error,
asynchronous, without reply, with a 16-bit argument), and a document of each type is
written so that the types overlap in member and property names. The handmade messages
have Sets whose variant holds what the property's type can be read from, what it
refuses, and a container where a basic type is read. The types that occur are seven
basic ones (with the 16-bit integer, the object path and the variant), an array, a
struct and a map: one of each way in which a type is read.

The finding runs each show one place where the code and a sentence of its
documentation or an assertion disagree:

- `finding_tables`: set_interface on a manager's only proxy fails
  `g_assert (manager->owner_names == NULL)`.
- `finding_timeouts`: after a move to another context no context watches the
  connection's timeouts: the old remove_timeout, unlike remove_watch, does not ask
  whose handler it is given and destroys the new source.
- `finding_noreply`: a method call with NO_REPLY is answered with an error when its
  arguments cannot be read.

More was met on the way and has no run of its own. The hazards in `PROJECT.json`
name these cases, and the brackets say how the instances avoid or contain them:

- owner_match_rules is not made again while a peer proxy keeps the lists alive;
  unregister then dereferences NULL (no instance has a peer proxy).
- A name watched again while old announcements are queued: a stale one cancels the
  new GetNameOwner, and the manager is freed with its tables in use (`Reuse`).
- The owner leaves between new_for_name_owner's answer and its match rule;
  "destroy" never comes (`OrphanDestroyed` asks only about owners that leave later).
- end_call on a proxy that was disposed of in the meantime, as the manager does with
  every proxy on Disconnected, fails `g_assert (reply != NULL)` (dbus-gproxy.c:2451).
  begin_call, cancel_call and call check for a destroyed proxy (2632, 2985, 2808);
  end_call does not (`fault` "no such call", which `EndFindsReply` allows only there; the
  instance reaches it).
- A Set whose variant holds a container, of a property of a basic type that may be
  written, fails `g_assert (dbus_type_is_basic (current_type))` (dbus-gvalue.c:542) in
  the service, where other types that do not match are answered with an error
  (`EndedBySet`; the instance has such a message).
- dbus_g_method_return leaves a value that cannot be marshalled out of the reply, and
  the caller reads the others in the wrong place, which may meet the same assertion
  (`ResultsArrive`; the instance has such a method).
- cancel_call drops the last reference before it cancels (`CancelsLate`).
- An object exported again after a dispose it survived has lost its signal hooks
  and gets no new ones (`SentOnce` asks only for "at most once").
- After a GetNameOwner error other than NameHasNoOwner, got_name_owner_cb only
  warns, and the proxy stays associated with nobody although its name has an
  owner (the budget of `settles` has no such failure).
- An array of 16-bit integers is read with the element size of its GType, which is
  twice that on the wire (`Demarshalled`; no method of the instance takes one).
- A generated wrapper cannot call a method with a 16-bit argument: it sends 32
  bits, and the lookup compares signatures (`Narrow` in `ResultsArrive`; the instance
  has one).
- A document of elements without a node ends without a result, which
  description_load_from_string dereferences (phase "crashed" of `Description`; the
  instance has such documents).

## Fairness

`ProxyManager`: the main loop keeps dispatching while something is queued
(`WF(Dispatch)`), the bus keeps serving requests, libdbus completes the calls of a dead
connection, and set_interface, which has no exit in the middle, returns. The handlers'
own actions, the owners and the network have no fairness. `PendingCalls`: libdbus
completes each call, if only by timeout, and callbacks return. A failed assertion stops
both, so `DataFreed` excepts it. Both are `WF` of an action that stays enabled until it
is taken. `MainLoop`: a dispatch returns, nothing else; sources need not fire.
`MethodCalls`: each queue of messages advances, because the main loop dispatches what
waits, and a context that was handed out is used in the end, which is what dbus-glib
asks of an asynchronous method. These are `WF` of the change of a queue or a context,
whichever action makes it, as long as the process that makes it has not ended. Callers
have no fairness. Runs switch deadlock checking off where the system rests once budgets
are spent and everything is disposed of; `services` keeps it on, with a step `Done` for
the state in which every call was made and nothing is left to do.

## What is proved

`ProxyManagerProofs`, for any finite set of proxies, any names, owners and budget:

- `TypeCorrect`: `Spec => []TypeOK`.
- `RefcountCorrect`: `Spec => []RefcountExact`: the manager's reference count is
  the number of proxies bound to it plus one for the filter while it runs
  handlers.

Neither is inductive alone. That `refcount - 1` is still a natural number needs the
count to be exact; exactness needs the types. `Inv == TypeOK /\ RefcountExact` is
inductive: each action has its step, the helpers (`Sent`, `Forget`, `Monitored`,
`Unmonitored`, `Replaced`, `Register`, `Unregister`, `Unref`) a lemma each, and
the change of the number of holders rests on the library's facts about
cardinality. The proof assumes `BusAssumption` and `ProxyAssumption`.

Its second part, under the same assumptions and any `Reuse`:

- `OrphansCorrect`: `Spec => []OnlyOrphansDestroyed`.
- `RulesCorrect`: `Spec => []RulesFollowProxies`, assuming `NoPeers`, every proxy is
  bound to a name. The assumption is the code's: a peer proxy's unregister sends
  RemoveMatch for a rule that was never added, and owner_match_rules may be gone
  while a peer remains (see above).

`BooksInv` adds to `Inv`: each proxy that waits for a GetNameOwner call has one
question or one answer in the queues (`CallsInv`), owner_match_rules counts the lists
of each name (`MatchRefsCount`), and a unique name is announced only after it left
(`OrphansInv`). `RulesFollowProxies` speaks of the number of AddMatch and RemoveMatch
requests under way, which no step changes in a way one could induct on: a queue may
hold several of each. `RulesInv` says instead that they alternate (`Turning`): along the
queue the rule is now there and now not, each AddMatch finds it missing and each
RemoveMatch finds it, and at the end it is there exactly if it is needed. The count
follows from that by induction over the queue.

`ProxyTrackingProofs`, assuming `~Reuse`: a name is not watched again after its last
proxy was released. With `Reuse` the properties are false in the code, as the findings
above say.

- `PlaceCorrect`, `InfosCorrect`, `TrackingCorrect`: `OnePlace`, `InfosCountProxies`
  and `TrackingFollowsBus`.
- `RoutingCorrect`: `RoutingExact`.
- `FreedCorrect`: `FreedManagerEmpty`.
- `UnregisterCorrect`: `UnregisterSucceeds`, assuming `NoPeers` too.

The invariant `TrackingBooks` has three layers on top of `BooksInv`. Requests
(`RequestsInv`): while a name has a proxy its rule is on the bus, or its AddMatch is
under way in front of every question for its owner; a name without proxies was never
heard of. So no answer is ever given without the rule in force. Histories (`Trace`,
`Follows`): once the rule is in force, the announcements and answers in the client's
queue are the successive owners of the name, ending with the one it has now or had when
the connection was lost. Tables (`Sure`): where the tables know a name, in an info or in
the unassociated list, what they take for its owner is where that history begins; where
they do not, it begins with the next answer or announcement. A step of the bus extends
the history at its end, a step of the client takes its first message off, and the
tables follow. `PlacesInv` says that a proxy has one place, so that the refcount of an
info is a cardinality. Every part was first checked by TLC on the instance `names`.

`PendingCallsProofs`, for any finite set of calls and any number of identifiers:

- `CallsTypeCorrect`: `Spec => []TypeOK`; no reference count drops below zero.
- `RefsCorrect`: `Spec => []RefsExact`: a pending call is referenced once by the
  connection while it waits, once by `pending_calls` and once by its callback
  while that runs, and by nobody else.

Two facts strengthen them. `TableFollowsHandles`: an entry stands under the
identifier its call was given, so no call has two entries, and removing one gives
up one reference. `FramesDistinct`: callbacks in progress are of different
calls, none of which still waits, so the return of one gives up one reference.
With them the counts survive the wrap of the identifiers, when an entry is
overwritten and its call goes on waiting without one: such a call can no longer
be ended or cancelled by its identifier, but it is never freed too early. The
proof has a lemma per action and assumes `CallsAssumption` and `NoCallAssumption`.

Its second part, for any finite set of calls that is smaller than the number of
identifiers (`Few`, which stands in every theorem as an assumption):

- `HandlesCorrect`: an identifier the application holds leads to its call.
- `DisposeCorrect`: after dispose no call waits that could run a callback.
- `EndCorrect`: end_call finds its call and a reply, unless the proxy was disposed of;
  there, and only there, its assertion fails.
- `NotifiedCorrect`: a callback runs at most once, and only for a call that is
  neither ended nor cancelled (an action property).

Their invariant `HInv` adds five parts to `Inv`. `HandlesGiven`: the calls made so far
have the identifiers 1 to the counter, each its own. This is where `Few` is used:
the counter has not wrapped, because it counts calls. `EntriesKept`: an open call
that was made still has its entry. `EndsKnown`, `EndsDistinct`: what end_call waits
for is a call that it alone is ending. `WaitsForSomebody`: a call that waits is
open or being ended, and the proxy is not disposed of. `TableGone`, proved first, says that
a disposed proxy has no entry left, so that a lookup that fails after dispose is
told from one that should have succeeded. Without `Few` an identifier
may be given twice, and the first no longer holds.

`ObjectExportProofs`, for any objects, connections and paths:

- `DeathCorrect`: `Spec => []DeathSeenOnce`. The invariant `DeathInv` says that there is
  one weak reference exactly while oe->object is set; it needs neither the
  registrations nor the tree.
- `ExportTypes`, `TreeCorrect`, `LookupCorrect`, `SignalsCorrect`: `TypeOK`,
  `TreeAgrees`, `NoDeadObject` and `SentOnce`.
- `PathCorrect`: `Spec => PathStable`, an action property.

Their invariant `ExportInv` adds `Anchored`: an object with registrations is watched and
not finalized, so the trees lead to no dead one; and `HookedOnce`: a signal has one
handler, and only on an object whose signals were exported, so that a second
registration or one after a dispose adds none. What a list is after the registrations
of a connection are taken out (`WithoutItems`) is shown by induction over the list:
the rest, in order, without repetition, its head kept unless it was taken.

`MainLoopProofs`, for any contexts, finite sets of watches, timeouts and handlers,
number of moves and depth of nested dispatches:

- `LoopTypes`, `WatchesMonitored`, `HandlersAgree`: `TypeOK`, `WatchesFollowContext`
  and `HandlersConsistent`; with the last, that a move to another context comes to an
  end.

Their invariant is `LoopInv`. `Linked`: a handler and its watch know each other, and
a handler that is off is in use by a dispatch. So a watch has at most one source,
and `Source` tells in which setup. `Placed`: only what is enabled has a source, in
the present setup, and every enabled watch has one; of timeouts it says no more,
because a move loses them (`finding_timeouts`). `Numbered`: the queue is that of the
present setup. Each C function has a lemma that says where the source of its watch is
afterwards and that all others stay (`Becomes`). The loops are folds over sets in an
order that is chosen; a lemma for each loop (`MovedSources`, `AddedSources`,
`RemovedSources`, `UnsetSources`) tells `Source` after any part of it, whatever the
order, and that as many structures are taken as it has rounds. `FoldExists` and
`SubsetInduction` of `Induction` give the folds their meaning. The proof assumes
`MainLoopAssumption`. TLC checked `LoopInv` on the instance `mainloop` first.

`DescriptionProofs`, for any tags and documents of any length:

- `PlacesCorrect`: `Spec => []PlacesElements`: the reader accepts an element exactly
  where the format has it.

The property is stated over the document alone, with the elements around each element
defined recursively; the code decides by its slots, its stack and two counters.
`PlacesInv` says that the two agree while the document is accepted. `OpenShape`: the
elements around the next one are the open ones. `Nested`: these are nested as the
format has it, each slot's element inside of those it needs. `ParserFollows`: a slot is
filled exactly if an element of its kind is open, the stack is as high as there are
open nodes, `foreign` counts the open elements with a namespace. From the first two the
innermost known element can be told by what is open at all (`OuterTells`), and with
the third by the parser (`GuardsTell`); each parse function then has a lemma that its
guard is the format's condition. An end element empties the right slot because no two
elements of its kind are open. That the recursive definition has a meaning, and that
it does not change when the document grows, are `SurroundsExists` and
`SurroundsSame`, by induction over positions.

Its second part, for the same documents:

- `DescriptionTypeCorrect`: `Spec => []TypeOK`.
- `TreeCorrect`: `Spec => []TreeFollowsDocument`: each info's list holds the infos of the
  elements directly inside of its own, in the format's order, and what is loaded is
  the tree of a root node.
- `FreedCorrect`: `Spec => []FreedWhenUnheld`: an info's count is the number of those who
  refer to it: the parser, the caller, a list that is itself alive. The one exception is
  stated and real: a node that leaves the stack without becoming the result keeps
  the reference of parse_node.

Their invariant `TreeInv` adds to `PlacesInv`: `Forest`, the lists of an info lead to
later infos and no info is in two lists; `Made`, the infos are numbered as the elements
they were made for; `Lists` and `NotesKept`, lists and annotations are those of the
document, with arguments inputs first; `Following`, slots and stack hold the infos of
the open elements; `Handles` and `Rooted`, the parser's result is the info of an
outermost node, and in no list; `References`, before a release each info is counted once
per holder (`Held`), and after one as `Counted` says. The release is what makes this
hard: how often it drops an info is defined recursively down the tree. That the
recursion has a meaning (`DropsExist`) is shown by induction over positions. From the
forest it follows that each info is dropped at most once (`DroppedOnce`), and what that
leaves in each count (`RootReleased`): none passes zero, and an info loses the reference
of its list exactly when the list's owner is gone. The proof assumes
`DescriptionAssumption`. TLC checked `TreeInv` on the instance `documents` first.

`MethodCallsProofs`, for any documents, types, messages, errors and
calls:

- `MethodsTypeCorrect`: `Spec => []TypeOK`.
- `StepsImplementRpc`: the safety half of `ImplementsRpc`,
  `Spec => Abstract!Init /\ [][Abstract!Next]_Status`: every step of the service is a
  step of `Rpc` or leaves the state of every call alone. So no call is answered twice
  and none waits while nobody is left to answer it, unless its result cannot be written
  or a failed assertion has ended its caller or its service. With any messages the service may
  end: the theorem then says that all calls waiting at that moment are lost in one
  step, and that none is answered after it.
- `PropertiesCorrect`: `Spec => []PropertiesHoldValues`: a property of the object holds
  what it began with, or, if it is writable, the value inside of the variant that a Set
  carried, which its own type can be read from.
- `SetCorrect`: `Spec => SetNeedsWriteAccess`, an action property.

The invariant `Inv` says where a call is: not made, in `requests`, in a context handed
to a method, or over (`CallsCounted`), in one of these places only, and answered on the
way from one to the next (`RequestsOpen`, `ContextsOpen`, `RepliesCounted`). When the
service ends, its contexts go with it (`ContextsGone`), and what it left in its queues
stays there. Each action makes a call (`MakesCall`), takes one from its place
(`LeavesPlace`) or leaves all where they are (`SamePlace`); the end of a process loses
what waits for it (`LosingStands`, `EndsStands`). Under each of these the abstract state
of a call, told case by case in `Stands`, changes as `Rpc` lets it. `SetCorrect` goes
through data: the rows of the table that the tool writes (`Quads` of the document's
`Entries`, by induction over the interfaces and properties that were joined), the walk
over them by property_iterate, the lookup by interface and by name, and the access
check; what passes it is a property whose document has write access. The proof assumes
`DocumentsAssumption` (a document is a sequence of interfaces with sequences of
properties) and `TypesAreClosed`.

Only model-checked, and why. `ArgumentsArrive` and `ResultsArrive` say what marshallers,
wrappers and readers, each its own recursion over types and argument lists, do with the
values of a call when one is applied to the output of another, and which of them meets
an assertion. The theorems above say that a call and its answer reach each other, TLC
says in the instance that the values do. All liveness is out of TLAPS's reach:
`NameCallResolves`, `DisconnectDestroysAll`, `OrphanDestroyed` and `TrackingSettles` of
proxies, `DataFreed` of calls, `HandlersFreed` of the main loop, and the half of
`ImplementsRpc` that says a waiting call is answered or lost. `NoStaleTables`,
`TimeoutsFollowContext` and `NoReplyRespected` are findings, not theorems. Nothing is
proved of peer proxies or of names watched again beyond what is said above.

## Plan

Done: the three core components, the main loop, the parser, the path of a method
call from wrapper to method and back, and `Rpc`; as theorems, every safety property of
the proxy manager, of pending calls, of exported objects, of the main loop and of the
parser, and of method calls all but what becomes of each value. What is left:

1. `ArgumentsArrive` and `ResultsArrive` as theorems: a lemma per type that each
   marshaller and its demarshaller fit together, then one per position of a list.
2. An abstract name follower (a proxy has the owner of a prefix of the bus's
   history) that `ProxyManager` implements for `Reuse = FALSE`; `Trace` is that prefix.
3. The registry of specialized types (`dbus-gtype-specialized.c`) and the copying of
   elements: which destructor runs for which element, and once.

## Not modelled

The copying, freeing and iterating of elements of collections, maps and structs
(`dbus-gvalue-utils.c`, most of `dbus-gvalue.c`) and the registry of specialized
types: which values are accepted and refused is in `Signatures`, how their memory
is laid out is not. The GVariant bridge, the closure marshallers of
`dbus-gmarshal.c`, the completion helper, the command line of the binding tool and
its pretty printer: text and data without control of their own. `dbus-glib.c`: thin
wrappers over libdbus. The unwinding of return values that were collected before
an error. What TLC was left without on purpose: peer proxies, names watched again
in `names`, 16-bit arrays, late cancellation, identifiers that wrap.
Memory allocation failure (the code aborts). Threads, by the documentation's own
word. Contents of messages beyond what decides control. Printing of XML, of
generated code and of log messages. The examples and the test programs.
