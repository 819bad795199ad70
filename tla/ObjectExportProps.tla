--------------------------- MODULE ObjectExportProps ----------------------------
(******************************************************************************)
(* What the users of exported objects rely on, over ObjectExport.             *)
(******************************************************************************)
EXTENDS ObjectExport

\* The list of an object's registrations and the object trees of the
\* connections agree, whatever was registered twice, unregistered, disposed of
\* or closed: the object is at a path exactly if the list has it, once
\* (test_reregister: "removing all record of the registrations while leaving
\* the object registered with libdbus").
TreeAgrees ==
  \A o \in Objects :
    /\ \A at \in Places : tree[at] = o <=> Contains(registrations[o], at)
    /\ IsInjective(registrations[o])

\* No path leads to an object that was disposed of, between the two passes of
\* its destruction or after: object_registration_message "should never be
\* reached with object = NULL", and the export is not freed under a path.
NoDeadObject ==
  /\ fault # "message for a dead object"
  /\ \A at \in Places : tree[at] # Nobody =>
       /\ LookupObject(at) = tree[at]
       /\ life[tree[at]] # "finalized"

\* The death of an object is noticed exactly once for each life it was exported
\* in: object_export_object_died finds the object it asserts.
DeathSeenOnce ==
  /\ fault # "dead # oe->object"
  /\ \A o \in Objects : object[o] <=> weakRefs[o] = 1

\* A GObject signal is never sent twice from one place, and never from a place
\* the object has left ("bug: in 0.92, this would be emitted twice because the
\* hook was added twice", test_clean_slate).
SentOnce ==
  emitter # Nobody =>
    /\ IsInjective(sent)
    /\ ToSet(sent) \subseteq ToSet(registrations[emitter])

\* "First one to have been registered wins": the path an object is known by
\* changes only when it loses that very registration.
PathStable ==
  [][\A o \in Objects :
       HasPath(o) /\ HasPath(o)' /\ PathOf(o)' # PathOf(o)
         => tree'[PathOf(o)] # o]_vars
================================================================================
