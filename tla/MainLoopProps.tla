------------------------------ MODULE MainLoopProps ------------------------------
(******************************************************************************)
(* What dbus_gmain_set_up_connection promises, over MainLoop.                 *)
(******************************************************************************)
EXTENDS MainLoop

SourcesOf(t) == {h \in Handlers : handler[h].attached /\ handler[h].thing = t}

Monitored(t) ==
  IF setup # 0 /\ t \in known \intersect enabled
  THEN \E h \in Handlers : SourcesOf(t) = {h} /\ handler[h].setup = setup
  ELSE SourcesOf(t) = {}

\* Each enabled watch has one source, in the context that monitors the
\* connection now, wherever the connection was moved from and whatever dispatch
\* is in progress; a disabled or removed one has none (set_up_connection,
\* connection_setup_new_from_old, watch_toggled).  So has the message queue.
WatchesFollowContext ==
  ~spinning =>
    /\ \A w \in Watches : Monitored(w)
    /\ queues = {setup} \ {0}

\* "context B replaces context A as the context monitoring the connection":
\* the connection's timeouts too.
TimeoutsFollowContext == ~spinning => \A t \in Timeouts : Monitored(t)

\* A handler and its watch know each other, no source outlives its setup or
\* fires for a watch that is freed, a handler that is off lasts no longer than
\* its dispatch, and every handler on a list is for a watch that is enabled
\* (else connection_setup_new_from_old would not come to an end).
HandlersConsistent ==
  /\ ~spinning
  /\ \A t \in Things : data[t] # None => handler[data[t]].thing = t
  /\ \A h \in Handlers : handler[h] # Free =>
       /\ handler[h].thing # None => data[handler[h].thing] = h
       /\ IF handler[h].attached
          THEN handler[h].setup = setup /\ handler[h].thing \in known \intersect enabled
          ELSE h \in Busy

\* Every handler whose source was destroyed is freed in the end, also one that was
\* destroyed, freed by its watch or replaced while it was being dispatched; and so
\* is every handler when the connection is gone (io_handler_destroy_source,
\* io_handler_watch_freed, io_handler_source_finalized).
HandlersFreed ==
  \A h \in Handlers :
    handler[h] # Free /\ (gone \/ ~handler[h].attached) ~> handler[h] = Free
==================================================================================
