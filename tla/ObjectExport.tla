----------------------------- MODULE ObjectExport ------------------------------
(******************************************************************************)
(* GObjects exported on connections (dbus/dbus-gobject.c): the ObjectExport   *)
(* that hangs on each object, its list of registrations, and the object tree  *)
(* of each connection that leads back to them.                                *)
(*                                                                            *)
(* Three things are external and modelled from how the code uses them: the    *)
(* object tree of libdbus (tree), which calls object_registration_unregistered*)
(* for each path it drops; and of GObject the handlers connected to an        *)
(* object's signals (hooks) and its weak references.  A dispose of an object  *)
(* first destroys the former and then notifies the latter; the application    *)
(* may run in between and may keep the object (g_object_run_dispose, or a     *)
(* reference taken while it is disposed of).                                  *)
(******************************************************************************)
EXTENDS Naturals, Sequences, SequencesExt

CONSTANTS
  Objects,  \* GObjects of an exportable class
  Conns,    \* connections
  Paths,    \* object paths
  Nobody    \* no object

ASSUME NobodyAssumption == Nobody \notin Objects

VARIABLES
  exported,       \* "dbus_glib_object_registrations" is set on the object
  registrations,  \* oe->registrations, in order of registration
  object,         \* oe->object # NULL
  weakRefs,       \* how many weak references of the object are oe's
  hooks,          \* how often the handlers of export_signals are connected
  tree,           \* what each connection exports at each path
  life,           \* of the object
  open,           \* the connection has not been finalized
  sent,           \* the last step's D-Bus signals, if it emitted a signal:
  emitter,        \* the object that emitted it
  fault           \* the failed assertion, or the g_error

exportVars == <<exported, registrations, object, weakRefs, hooks>>
vars == <<exportVars, tree, life, open, sent, emitter, fault>>

Places == [conn : Conns, path : Paths]

TypeOK ==
  /\ exported \in [Objects -> BOOLEAN]
  /\ registrations \in [Objects -> Seq(Places)]
  /\ object \in [Objects -> BOOLEAN]
  /\ weakRefs \in [Objects -> Nat]
  /\ hooks \in [Objects -> Nat]
  /\ tree \in [Places -> Objects \union {Nobody}]
  /\ life \in [Objects -> {"alive", "disposing", "died", "finalized"}]
  /\ open \in [Conns -> BOOLEAN]
  /\ sent \in Seq(Places)
  /\ emitter \in Objects \union {Nobody}
  /\ fault \in {"none", "path taken", "dead # oe->object", "message for a dead object"}

Init ==
  /\ exported = [o \in Objects |-> FALSE]
  /\ registrations = [o \in Objects |-> <<>>]
  /\ object = [o \in Objects |-> FALSE]
  /\ weakRefs = [o \in Objects |-> 0]
  /\ hooks = [o \in Objects |-> 0]
  /\ tree = [at \in Places |-> Nobody]
  /\ life = [o \in Objects |-> "alive"]
  /\ open = [c \in Conns |-> TRUE]
  /\ sent = <<>>
  /\ emitter = Nobody
  /\ fault = "none"

Running == fault = "none"
Silent == sent' = <<>> /\ emitter' = Nobody

\* The application can call the API with this object and this connection.
Usable(o, c) == Running /\ life[o] # "finalized" /\ open[c]

\* Mutant: the registration stays in the list when its path is dropped.
Without_kept(list, c) == list

\* object_registration_free, for each registration on connection c.
Without(list, c) ==
  LET kept[k \in 0 .. Len(list)] ==
        IF k = 0 THEN <<>>
        ELSE IF list[k].conn = c THEN kept[k - 1]
        ELSE Append(kept[k - 1], list[k])
  IN kept[Len(list)]

--------------------------------------------------------------------------------
(* Registration *)

\* Mutants: the signals are exported whenever the list was empty; the object is
\* referenced weakly at every registration, or only at the first; the new
\* registration goes first in the list.
Hooked_again(o) == hooks[o] + (IF registrations[o] = <<>> THEN 1 ELSE 0)
Watches_always(o) == TRUE
Watches_new(o) == ~exported[o]
Listed_first(o, at) == <<at>> \o registrations[o]

\* export_signals, only when the object is exported for the first time.
Hooked(o) == hooks[o] + (IF exported[o] THEN 0 ELSE 1)

\* The weak reference is taken when oe->object is NULL.
Watches(o) == ~object[o]

\* The new registration is appended.
Listed(o, at) == Append(registrations[o], at)

\* dbus_g_connection_register_g_object.  A duplicate is silently ignored; a
\* path at which the connection exports something else is fatal (g_error).
Register(o, at) ==
  /\ Usable(o, at.conn)
  /\ exported' = [exported EXCEPT ![o] = TRUE]
  /\ hooks' = [hooks EXCEPT ![o] = Hooked(o)]
  /\ object' = [object EXCEPT ![o] = @ \/ Watches(o)]
  /\ weakRefs' = [weakRefs EXCEPT ![o] = @ + (IF Watches(o) THEN 1 ELSE 0)]
  /\ \/ /\ Contains(registrations[o], at)
        /\ UNCHANGED <<registrations, tree, fault>>
     \/ /\ ~Contains(registrations[o], at) /\ tree[at] = Nobody
        /\ registrations' = [registrations EXCEPT ![o] = Listed(o, at)]
        /\ tree' = [tree EXCEPT ![at] = o]
        /\ UNCHANGED fault
     \/ /\ ~Contains(registrations[o], at) /\ tree[at] # Nobody
        /\ fault' = "path taken"
        /\ UNCHANGED <<registrations, tree>>
  /\ Silent
  /\ UNCHANGED <<life, open>>

\* dbus_g_connection_unregister_g_object, which complains and does nothing
\* about an object without registrations.
Unregister(o, c) ==
  /\ Usable(o, c)
  /\ registrations[o] # <<>>
  /\ tree' = [at \in Places |->
                IF Contains(registrations[o], at) /\ at.conn = c THEN Nobody ELSE tree[at]]
  /\ registrations' = [registrations EXCEPT ![o] = Without(@, c)]
  /\ Silent
  /\ UNCHANGED <<exported, object, weakRefs, hooks, life, open, fault>>

\* The last reference to the connection goes, and its object tree with it.
Finalizes(c) ==
  /\ Running /\ open[c]
  /\ open' = [open EXCEPT ![c] = FALSE]
  /\ registrations' = [o \in Objects |-> Without(registrations[o], c)]
  /\ tree' = [at \in Places |-> IF at.conn = c THEN Nobody ELSE tree[at]]
  /\ Silent
  /\ UNCHANGED <<exported, object, weakRefs, hooks, life, fault>>

--------------------------------------------------------------------------------
(* The end of an object *)

\* Mutant: a reference is taken off without a look whether there was one.
Died_uncounted(o) ==
  /\ object' = [object EXCEPT ![o] = FALSE]
  /\ weakRefs' = [weakRefs EXCEPT ![o] = @ - 1]
  /\ registrations' = [registrations EXCEPT ![o] = <<>>]
  /\ tree' = [at \in Places |-> IF Contains(registrations[o], at) THEN Nobody ELSE tree[at]]
  /\ UNCHANGED fault

\* object_export_object_died, for each weak reference: oe->object is reset and
\* every registration removed.
Died(o) ==
  /\ object' = [object EXCEPT ![o] = @ /\ weakRefs[o] = 0]
  /\ weakRefs' = [weakRefs EXCEPT ![o] = 0]
  /\ fault' = IF weakRefs[o] > 1 THEN "dead # oe->object" ELSE fault
  /\ registrations' =
       [registrations EXCEPT ![o] = IF weakRefs[o] > 0 THEN <<>> ELSE @]
  /\ tree' = [at \in Places |->
                IF weakRefs[o] > 0 /\ Contains(registrations[o], at) THEN Nobody
                ELSE tree[at]]

\* A dispose: GObject destroys the handlers, then notifies weak references.
BeginsDispose(o) ==
  /\ Running /\ life[o] = "alive"
  /\ life' = [life EXCEPT ![o] = "disposing"]
  /\ hooks' = [hooks EXCEPT ![o] = 0]
  /\ Silent
  /\ UNCHANGED <<exported, registrations, object, weakRefs, tree, open, fault>>

NotifiesDeath(o) ==
  /\ Running /\ life[o] = "disposing"
  /\ life' = [life EXCEPT ![o] = "died"]
  /\ Died(o)
  /\ Silent
  /\ UNCHANGED <<exported, hooks, open>>

\* Somebody holds a reference to the object: it lives on.
Resurrected(o) ==
  /\ Running /\ life[o] = "died"
  /\ life' = [life EXCEPT ![o] = "alive"]
  /\ Silent
  /\ UNCHANGED <<exportVars, tree, open, fault>>

\* Nobody does: GObject does both again, then frees the ObjectExport.
FinalizesObject(o) ==
  /\ Running /\ life[o] = "died"
  /\ life' = [life EXCEPT ![o] = "finalized"]
  /\ Died(o)
  /\ exported' = [exported EXCEPT ![o] = FALSE]
  /\ hooks' = [hooks EXCEPT ![o] = 0]
  /\ Silent
  /\ UNCHANGED open

--------------------------------------------------------------------------------
(* What an exported object is for *)

\* Every handler sends the signal once for each registration
\* (signal_emitter_marshaller).
Emit(o) ==
  /\ Running /\ life[o] # "finalized"
  /\ exported[o]
  /\ emitter' = o
  /\ sent' = FlattenSeq([k \in 1 .. hooks[o] |-> registrations[o]])
  /\ UNCHANGED <<exportVars, tree, life, open, fault>>

\* object_registration_message asserts that the object is still there.
Message(at) ==
  /\ Running /\ open[at.conn]
  /\ tree[at] # Nobody
  /\ fault' = IF object[tree[at]] THEN "none" ELSE "message for a dead object"
  /\ Silent
  /\ UNCHANGED <<exportVars, tree, life, open>>

\* dbus_g_connection_lookup_g_object
LookupObject(at) ==
  IF tree[at] # Nobody /\ object[tree[at]] THEN tree[at] ELSE Nobody

\* _dbus_gobject_get_path: the place an object has when it is sent by value.
HasPath(o) == exported[o] /\ registrations[o] # <<>>
PathOf(o) == Head(registrations[o])

--------------------------------------------------------------------------------
Next ==
  \/ \E o \in Objects, at \in Places : Register(o, at)
  \/ \E o \in Objects, c \in Conns : Unregister(o, c)
  \/ \E c \in Conns : Finalizes(c)
  \/ \E o \in Objects :
       BeginsDispose(o) \/ NotifiesDeath(o) \/ Resurrected(o) \/ FinalizesObject(o) \/ Emit(o)
  \/ \E at \in Places : Message(at)

Spec == Init /\ [][Next]_vars
================================================================================
