--------------------------- MODULE PendingCallsProps ----------------------------
(******************************************************************************)
(* What the callers of dbus_g_proxy_begin_call rely on, over PendingCalls.    *)
(******************************************************************************)
EXTENDS PendingCalls

B(condition) == IF condition THEN 1 ELSE 0

InTable(c) == \E i \in Ids : table[i] = c
Notifying(c) == \E k \in DOMAIN stack : stack[k].kind = "notify" /\ stack[k].call = c

\* The references to each pending call are those of the connection while it
\* waits, of pending_calls, and of a callback that runs: neither the call nor
\* the callback's data is freed under one of them or kept after the last
\* (begin_call_internal, end_call_internal, cancel_call, dispose).
RefsExact ==
  Running =>
    \A c \in Calls :
      refs[c] = B(phase[c] = "waiting") + B(InTable(c)) + B(Notifying(c))

\* A disposed proxy has no call left that could still run its callback, which
\* holds the proxy without a reference ("No need to ref as the lifecycle is
\* tied to proxy").
NoCallbackAfterDispose == disposed => \A c \in Calls : phase[c] # "waiting"

\* An identifier the application still holds leads to the call it was given
\* for; 0 is given only when nothing was sent ("Being disconnected is the only
\* reason this can happen").
HandleLeadsToCall ==
  Running /\ ~disposed =>
    \A c \in Calls : open[c] =>
      IF phase[c] = "refused" THEN handle[c] = 0
      ELSE handle[c] # 0 /\ table[handle[c]] = c

\* A call that was cancelled or ended before it was completed by the main loop
\* does not run its callback any more, and none runs it twice.
NotifiedOnce ==
  [][\A c \in Calls :
       notified'[c] # notified[c] =>
         /\ notified[c] = 0
         /\ open[c] \/ (Inside("end") /\ Top.call = c)]_vars

\* end_call finds a reply, whether it had to block or not, as long as the proxy
\* was not disposed of: its assertion fails only where dispose took the table
\* away (end_call_internal, dispose).
EndFindsReply == fault # "no reply" /\ (fault = "no such call" => disposed)

\* Once the proxy is disposed of, every pending call and the data of every
\* callback is freed, whatever callbacks are still running, unless one of them
\* ends a call of that proxy and the assertion stops the process.
DataFreed == disposed ~> (fault = "no such call" \/ \A c \in Calls : refs[c] = 0)
================================================================================
