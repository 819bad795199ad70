-------------------------------- MODULE MainLoop --------------------------------
(******************************************************************************)
(* dbus-gmain/dbus-gmain.c: the watches and timeouts of one DBusConnection as *)
(* sources of a GMainContext, and the move of the connection to another       *)
(* context, from the application's own code or inside a dispatch of messages. *)
(* (A DBusServer has the same, without a message queue.)                      *)
(*                                                                            *)
(* External: libdbus owns the watches and timeouts and calls add, remove and  *)
(* toggle; when the functions are replaced it calls the new add for each, then *)
(* the old remove for each.  A GSource's callback data is finalized when the  *)
(* source is destroyed, or when its dispatch returns if it is being dispatched. *)
(******************************************************************************)
EXTENDS Naturals, Sequences, FiniteSets, FiniteSetsExt

CONSTANTS
  Contexts,   \* GMainContexts
  Watches,    \* DBusWatches
  Timeouts,   \* DBusTimeouts
  Handlers,   \* IOHandler and TimeoutHandler structures
  MaxSetups,  \* bound: ConnectionSetups made
  MaxDepth    \* bound: nested dispatches

Things == Watches \union Timeouts
Setups == 1 .. MaxSetups
None == "NULL"
Free == [setup |-> 0, thing |-> None, attached |-> FALSE]

ASSUME MainLoopAssumption ==
  /\ Watches \intersect Timeouts = {} /\ None \notin Things \union Handlers
  /\ IsFiniteSet(Things) /\ IsFiniteSet(Handlers)
  /\ MaxSetups \in Nat /\ MaxDepth \in Nat

VARIABLES
  held,      \* the application holds a reference to the connection
  gone,      \* the connection is finalized
  known,     \* the watches and timeouts libdbus has
  enabled,   \* those of them it wants watched
  setup,     \* the connection's data slot: its ConnectionSetup, 0 for none
  context,   \* the context of each setup that was made
  queues,    \* the setups whose message_queue_source is attached
  handler,   \* the handler structures
  data,      \* dbus_watch_get_data, dbus_timeout_get_data
  stack,     \* the dispatches in progress, innermost last
  spinning   \* connection_setup_new_from_old loops for ever

vars == <<held, gone, known, enabled, setup, context, queues, handler, data, stack, spinning>>

Frames == [kind : {"queue", "watch", "timeout"}, handler : Handlers \union {None}]

TypeOK ==
  /\ held \in BOOLEAN /\ gone \in BOOLEAN /\ spinning \in BOOLEAN
  /\ known \subseteq Things /\ enabled \subseteq Things
  /\ setup \in Setups \union {0}
  /\ context \in Seq(Contexts) /\ Len(context) <= MaxSetups
  /\ queues \subseteq Setups
  /\ handler \in [Handlers ->
       {Free} \union [setup : Setups, thing : Things \union {None}, attached : BOOLEAN]]
  /\ data \in [Things -> Handlers \union {None}]
  /\ stack \in Seq(Frames) /\ Len(stack) <= MaxDepth

Init ==
  /\ held = TRUE /\ gone = FALSE /\ spinning = FALSE
  /\ known = {} /\ enabled = {}
  /\ setup = 0 /\ context = <<>> /\ queues = {}
  /\ handler = [h \in Handlers |-> Free]
  /\ data = [t \in Things |-> None]
  /\ stack = <<>>

Busy == {stack[k].handler : k \in DOMAIN stack} \ {None}

\* The application runs: outside of the main loop, or in a message's handlers.
Inside == IF stack = <<>> THEN "application" ELSE stack[Len(stack)].kind
AppRuns == ~spinning /\ Inside \in {"application", "queue"}

\* A dispatch that holds a reference to the connection: of its messages, of a watch.
HoldsConnection(frame) == frame.kind \in {"queue", "watch"}

--------------------------------------------------------------------------------
(* Handlers.  These functions work on w = [handler, data]. *)

\* Mutant: a handler that is finalized stays the watch's data.
Finalized_dangling(w, h) == [w EXCEPT !.handler[h] = Free]

\* io_handler_source_finalized, timeout_handler_source_finalized.
Finalized(w, h) ==
  LET t == w.handler[h].thing IN
  IF t = None THEN [w EXCEPT !.handler[h] = Free]
  ELSE [w EXCEPT !.handler[h] = Free, !.data[t] = None]

\* Mutant: the reference to the source is kept.
SourceDestroyed_kept(w, h) == [w EXCEPT !.handler[h].attached = FALSE]

\* io_handler_destroy_source, timeout_handler_destroy_source: the list of the
\* setup is that of the handlers attached for it.
SourceDestroyed(w, h) ==
  IF ~w.handler[h].attached THEN w
  ELSE LET off == [w EXCEPT !.handler[h].attached = FALSE]
       IN  IF h \in Busy THEN off ELSE Finalized(off, h)

\* io_handler_watch_freed, timeout_handler_timeout_freed.
ThingFreed(w, h) == SourceDestroyed([w EXCEPT !.handler[h].thing = None], h)

\* dbus_watch_set_data, dbus_timeout_set_data: what was there is freed first.
DataSet(w, t, h) ==
  LET freed == IF w.data[t] = None THEN w ELSE ThingFreed(w, w.data[t])
  IN  [freed EXCEPT !.data[t] = h]

Unused(w) == CHOOSE h \in Handlers \ Busy : w.handler[h] = Free

\* Bound: there are structures left for whatever one step allocates.
Room == Cardinality({h \in Handlers \ Busy : handler[h] = Free}) >= 2 * Cardinality(Things)

\* Mutant: the handler does not know its setup.
Attached_nowhere(w, t, s) ==
  LET h == Unused(w)
  IN  DataSet([w EXCEPT !.handler[h] = [setup |-> 0, thing |-> t, attached |-> TRUE]], t, h)

\* connection_setup_add_watch, connection_setup_add_timeout, of one that is enabled.
Attached(w, t, s) ==
  LET h == Unused(w)
  IN  DataSet([w EXCEPT !.handler[h] = [setup |-> s, thing |-> t, attached |-> TRUE]], t, h)

Added(w, t, s) == IF t \in enabled THEN Attached(w, t, s) ELSE w

\* Mutant: connection_setup_remove_watch does not ask whose handler it is.
Removed_others(w, t, s) ==
  IF w.data[t] = None THEN w ELSE SourceDestroyed(w, w.data[t])

\* connection_setup_remove_watch; connection_setup_remove_timeout does not ask
\* whose handler it is.
Removed(w, t, s) ==
  IF w.data[t] = None \/ (t \in Watches /\ w.handler[w.data[t]].setup # s) THEN w
  ELSE SourceDestroyed(w, w.data[t])

\* The handlers in the lists ios and timeouts of a setup.
ListedFor(w, s) == {h \in Handlers : w.handler[h].setup = s /\ w.handler[h].attached}

\* connection_setup_free.
SetupFreed(w, s) == FoldSet(LAMBDA h, v : SourceDestroyed(v, h), w, ListedFor(w, s))

\* The loops of connection_setup_new_from_old.  A handler whose watch is
\* disabled would stay at the head of its list.
Moved(w, old, new) ==
  FoldSet(LAMBDA h, v : Added(v, w.handler[h].thing, new), w, ListedFor(w, old))
Spins(w, old) == \E h \in ListedFor(w, old) : w.handler[h].thing \notin enabled

\* dbus_connection_set_watch_functions, set_timeout_functions: the new functions
\* add what there is, then the old ones, if any, remove it.
FunctionsSet(w, old, new) ==
  LET added == FoldSet(LAMBDA t, v : Added(v, t, new), w, known)
  IN  IF old = 0 THEN added ELSE FoldSet(LAMBDA t, v : Removed(v, t, old), added, known)

World == [handler |-> handler, data |-> data]
SetWorld(w) == handler' = w.handler /\ data' = w.data

--------------------------------------------------------------------------------
(* What the application does *)

\* The context that monitors the connection.
Monitor == IF setup = 0 THEN None ELSE context[setup]

\* dbus_gmain_set_up_connection, dbus_gmain_set_up_server: for a context that
\* does not monitor the connection yet.
SetUp(c) ==
  /\ AppRuns /\ held /\ ~gone
  /\ Len(context) < MaxSetups /\ Room
  /\ c # Monitor
  /\ LET new == Len(context) + 1
         moved == Moved(World, setup, new)
         freed == SetupFreed(moved, setup)
     IN  /\ context' = Append(context, c)
         /\ spinning' = (setup # 0 /\ Spins(World, setup))
         /\ setup' = new
         /\ queues' = (queues \ {setup}) \union {new}
         /\ SetWorld(FunctionsSet(IF setup = 0 THEN World ELSE freed, setup, new))
  /\ UNCHANGED <<held, gone, known, enabled, stack>>

\* The last reference is dropped: libdbus takes away watches and timeouts and
\* frees the setup.
ConnectionFreed(w) ==
  LET removed == FoldSet(LAMBDA t, v : DataSet(Removed(v, t, setup), t, None), w, known)
  IN  IF setup = 0 THEN w ELSE SetupFreed(removed, setup)

\* The application drops its reference.
Release ==
  /\ AppRuns /\ held
  /\ held' = FALSE
  /\ IF \E k \in DOMAIN stack : HoldsConnection(stack[k])
     THEN UNCHANGED <<gone, known, enabled, setup, queues, handler, data>>
     ELSE /\ gone' = TRUE /\ known' = {} /\ enabled' = {} /\ setup' = 0 /\ queues' = {}
          /\ SetWorld(ConnectionFreed(World))
  /\ UNCHANGED <<context, stack, spinning>>

--------------------------------------------------------------------------------
(* What libdbus does, whoever runs *)

\* add_watch, add_timeout.
Adds(t, on) ==
  /\ ~gone /\ ~spinning /\ Room
  /\ t \notin known
  /\ known' = known \union {t}
  /\ enabled' = IF on THEN enabled \union {t} ELSE enabled
  /\ IF setup = 0 \/ ~on THEN UNCHANGED <<handler, data>>
     ELSE SetWorld(Attached(World, t, setup))
  /\ UNCHANGED <<held, gone, setup, context, queues, stack, spinning>>

\* remove_watch, remove_timeout; then libdbus frees it.
Removes(t) ==
  /\ ~gone /\ ~spinning
  /\ t \in known
  /\ known' = known \ {t} /\ enabled' = enabled \ {t}
  /\ SetWorld(DataSet(IF setup = 0 THEN World ELSE Removed(World, t, setup), t, None))
  /\ UNCHANGED <<held, gone, setup, context, queues, stack, spinning>>

\* watch_toggled, timeout_toggled.
Enables(t) ==
  /\ ~gone /\ ~spinning /\ Room
  /\ t \in known \ enabled
  /\ enabled' = enabled \union {t}
  /\ IF setup = 0 THEN UNCHANGED <<handler, data>>
     ELSE SetWorld(Attached(World, t, setup))
  /\ UNCHANGED <<held, gone, known, setup, context, queues, stack, spinning>>

Disables(t) ==
  /\ ~gone /\ ~spinning
  /\ t \in known \intersect enabled
  /\ enabled' = enabled \ {t}
  /\ IF setup = 0 THEN UNCHANGED <<handler, data>> ELSE SetWorld(Removed(World, t, setup))
  /\ UNCHANGED <<held, gone, known, setup, context, queues, stack, spinning>>

--------------------------------------------------------------------------------
(* What the main loop does *)

\* message_queue_dispatch, up to dbus_connection_dispatch.  A source is not
\* dispatched inside its own dispatch; a new setup has a new source.
DispatchesMessages ==
  /\ AppRuns /\ Len(stack) < MaxDepth
  /\ queues # {}
  /\ stack' = Append(stack, [kind |-> "queue", handler |-> None])
  /\ UNCHANGED <<held, gone, known, enabled, setup, context, queues, handler, data, spinning>>

\* io_handler_dispatch, timeout_handler_dispatch.
DispatchesSource(h) ==
  /\ AppRuns /\ Len(stack) < MaxDepth
  /\ handler[h].attached /\ h \notin Busy
  /\ stack' = Append(stack, [kind |-> IF handler[h].thing \in Watches THEN "watch" ELSE "timeout",
                                handler |-> h])
  /\ UNCHANGED <<held, gone, known, enabled, setup, context, queues, handler, data, spinning>>

\* A dispatch returns: it drops its reference to the connection, and a handler
\* whose source was destroyed meanwhile is finalized.
DispatchReturns ==
  /\ ~spinning
  /\ stack # <<>>
  /\ LET frame == stack[Len(stack)]
         outer == SubSeq(stack, 1, Len(stack) - 1)
         last == ~held /\ ~gone /\ ~\E k \in DOMAIN outer : HoldsConnection(outer[k])
         world == IF last THEN ConnectionFreed(World) ELSE World
     IN  /\ stack' = outer
         /\ IF last THEN gone' = TRUE /\ known' = {} /\ enabled' = {} /\ setup' = 0 /\ queues' = {}
            ELSE UNCHANGED <<gone, known, enabled, setup, queues>>
         /\ IF frame.handler # None /\ ~world.handler[frame.handler].attached
            THEN SetWorld(Finalized(world, frame.handler)) ELSE SetWorld(world)
  /\ UNCHANGED <<held, context, spinning>>

LibDBus == \E t \in Things : Adds(t, TRUE) \/ Adds(t, FALSE) \/ Removes(t) \/ Enables(t) \/ Disables(t)

Next ==
  \/ \E c \in Contexts : SetUp(c)
  \/ Release
  \/ LibDBus
  \/ DispatchesMessages
  \/ \E h \in Handlers : DispatchesSource(h)
  \/ DispatchReturns

Spec == Init /\ [][Next]_vars

\* A dispatch comes to an end.
FairSpec == Spec /\ WF_vars(DispatchReturns)
================================================================================
