----------------------------- MODULE PendingCalls ------------------------------
(******************************************************************************)
(* The method calls of one DBusGProxy (dbus/dbus-gproxy.c): its table         *)
(* priv->pending_calls, the identifiers it hands out, and the references that *)
(* keep a pending call, its callback and the callback's data alive.           *)
(*                                                                            *)
(* DBusPendingCall is libdbus.  It is modelled from how the code uses it: the *)
(* connection owns one reference until the call is completed or cancelled,    *)
(* and the code that completes it owns one while the callback runs.  One      *)
(* thread runs everything; callbacks nest when end_call blocks in a callback. *)
(******************************************************************************)
EXTENDS Naturals, Sequences, FiniteSets

CONSTANTS
  Calls,        \* the pending call objects libdbus may create
  IdCount,      \* identifiers are a guint: 2^32 of them, reduced modulo this
  CancelsLate   \* does the application cancel calls that have been completed?

ASSUME CallsAssumption ==
  /\ IsFiniteSet(Calls)
  /\ IdCount \in Nat \ {0}
  /\ CancelsLate \in BOOLEAN

Ids == 0 .. IdCount - 1
NoCall == "none"
ASSUME NoCallAssumption == NoCall \notin Calls

VARIABLES
  connected,  \* the connection still takes calls
  counter,    \* priv->call_id_counter
  table,      \* priv->pending_calls: the call each identifier leads to
  disposed,   \* priv->pending_calls = NULL
  phase,      \* what libdbus has done with each call
  handle,     \* the identifier begin_call returned for it
  wanted,     \* begin_call was given a callback for it
  open,       \* the application has neither ended nor cancelled it
  refs,       \* the reference count of the DBusPendingCall
  notified,   \* how often its callback was called
  stack,      \* the callbacks and end_calls in progress, innermost last
  fault       \* the failed assertion or use after free

callVars == <<phase, handle, wanted, open, refs, notified>>
vars == <<connected, counter, table, disposed, callVars, stack, fault>>

Phases == {"unused", "refused", "waiting", "completed", "stolen", "cancelled"}
Frames == [kind : {"notify", "end"}, call : Calls, id : Ids]

TypeOK ==
  /\ connected \in BOOLEAN
  /\ counter \in Ids
  /\ table \in [Ids -> Calls \union {NoCall}]
  /\ disposed \in BOOLEAN
  /\ phase \in [Calls -> Phases]
  /\ handle \in [Calls -> Ids]
  /\ wanted \in [Calls -> BOOLEAN]
  /\ open \in [Calls -> BOOLEAN]
  /\ refs \in [Calls -> Nat]
  /\ notified \in [Calls -> Nat]
  /\ stack \in Seq(Frames)
  /\ fault \in {"none", "no reply", "freed call cancelled", "no such call"}

Init ==
  /\ connected = TRUE
  /\ counter = 0
  /\ table = [i \in Ids |-> NoCall]
  /\ disposed = FALSE
  /\ phase = [c \in Calls |-> "unused"]
  /\ handle = [c \in Calls |-> 0]
  /\ wanted = [c \in Calls |-> FALSE]
  /\ open = [c \in Calls |-> FALSE]
  /\ refs = [c \in Calls |-> 0]
  /\ notified = [c \in Calls |-> 0]
  /\ stack = <<>>
  /\ fault = "none"

Running == fault = "none"

\* The innermost callback or end_call in progress.
Inside(kind) == stack # <<>> /\ stack[Len(stack)].kind = kind
Top == stack[Len(stack)]
Pop == SubSeq(stack, 1, Len(stack) - 1)

\* The application runs: from its own code, or in a callback.
AppRuns == Running /\ (stack = <<>> \/ Inside("notify"))

\* Mutants: an entry that is overwritten or removed keeps its reference; it
\* gives up two.
Released_not(count, S) == count

Released_twice(count, S) == [c \in Calls |-> IF c \in S THEN count[c] - 2 ELSE count[c]]

\* The value destructor of pending_calls, dbus_pending_call_unref, for each of S.
Released(count, S) == [c \in Calls |-> IF c \in S THEN count[c] - 1 ELSE count[c]]

--------------------------------------------------------------------------------
(* What the application does *)

\* Mutant: the identifier is taken before it is counted up.
NextId_late == counter

\* ++priv->call_id_counter, a guint.
NextId == (counter + 1) % IdCount

\* dbus_g_proxy_begin_call and its variants, and the first half of
\* dbus_g_proxy_call.  An entry with the same identifier is overwritten.
Begin(c, callback) ==
  /\ AppRuns
  /\ ~disposed /\ connected
  /\ phase[c] = "unused"
  /\ counter' = (counter + 1) % IdCount
  /\ table' = [table EXCEPT ![NextId] = c]
  /\ phase' = [phase EXCEPT ![c] = "waiting"]
  /\ handle' = [handle EXCEPT ![c] = NextId]
  /\ wanted' = [wanted EXCEPT ![c] = callback]
  /\ open' = [open EXCEPT ![c] = TRUE]
  /\ refs' = Released([refs EXCEPT ![c] = 2], {table[NextId]})
  /\ UNCHANGED <<connected, disposed, notified, stack, fault>>

\* The same without a connection: no pending call, and identifier 0.
BeginRefused(c) ==
  /\ AppRuns
  /\ ~disposed /\ ~connected
  /\ phase[c] = "unused"
  /\ phase' = [phase EXCEPT ![c] = "refused"]
  /\ handle' = [handle EXCEPT ![c] = 0]
  /\ open' = [open EXCEPT ![c] = TRUE]
  /\ UNCHANGED <<connected, counter, table, disposed, wanted, refs, notified, stack, fault>>

\* dbus_g_proxy_end_call up to dbus_pending_call_block.  Identifier 0 means
\* that there is no call to wait for.  Unlike begin_call and cancel_call it does
\* not ask whether the proxy was disposed of: no identifier is in the table then.
EndBegins(c) ==
  /\ AppRuns
  /\ open[c]
  /\ open' = [open EXCEPT ![c] = FALSE]
  /\ \/ /\ handle[c] = 0
        /\ UNCHANGED <<stack, fault>>
     \/ /\ handle[c] # 0 /\ table[handle[c]] = NoCall
        /\ fault' = "no such call"
        /\ UNCHANGED stack
     \/ /\ handle[c] # 0 /\ table[handle[c]] # NoCall
        /\ stack' = Append(stack, [kind |-> "end", call |-> table[handle[c]],
                                   id |-> handle[c]])
        /\ UNCHANGED fault
  /\ UNCHANGED <<connected, counter, table, disposed, phase, handle, wanted, refs, notified>>

\* Mutant: end_call does not block.
EndReturns_unblocked ==
  /\ Running
  /\ Inside("end")
  /\ \/ /\ phase[Top.call] # "completed"
        /\ fault' = "no reply"
        /\ UNCHANGED <<table, phase, refs, stack>>
     \/ /\ phase[Top.call] = "completed"
        /\ phase' = [phase EXCEPT ![Top.call] = "stolen"]
        /\ refs' = Released(refs, {table[Top.id]})
        /\ table' = [table EXCEPT ![Top.id] = NoCall]
        /\ stack' = Pop
        /\ UNCHANGED fault
  /\ UNCHANGED <<connected, counter, disposed, handle, wanted, open, notified>>

\* dbus_g_proxy_end_call once the call is completed: the reply is taken out,
\* which works once, and the entry is removed.
EndReturns ==
  /\ Running
  /\ Inside("end")
  /\ phase[Top.call] # "waiting"
  /\ \/ /\ phase[Top.call] # "completed"
        /\ fault' = "no reply"
        /\ UNCHANGED <<table, phase, refs, stack>>
     \/ /\ phase[Top.call] = "completed"
        /\ phase' = [phase EXCEPT ![Top.call] = "stolen"]
        /\ refs' = Released(refs, {table[Top.id]})
        /\ table' = [table EXCEPT ![Top.id] = NoCall]
        /\ stack' = Pop
        /\ UNCHANGED fault
  /\ UNCHANGED <<connected, counter, disposed, handle, wanted, open, notified>>

\* The call is over and so is its callback, if it had one.
Late(c) ==
  /\ phase[c] = "completed"
  /\ \A k \in DOMAIN stack : stack[k].kind = "notify" => stack[k].call # c

\* Mutant: the pending call is not cancelled, only forgotten.
CancelCall_forgets(c) ==
  LET e == table[handle[c]] IN
  /\ AppRuns
  /\ ~disposed
  /\ open[c]
  /\ handle[c] # 0 /\ e # NoCall
  /\ phase[c] = "waiting"
  /\ open' = [open EXCEPT ![c] = FALSE]
  /\ table' = [table EXCEPT ![handle[c]] = NoCall]
  /\ refs' = Released(refs, {e})
  /\ UNCHANGED <<connected, counter, disposed, phase, handle, wanted, notified, stack, fault>>

\* dbus_g_proxy_cancel_call: the entry is removed first, and with it perhaps
\* the last reference; then the call is cancelled.
CancelCall(c) ==
  LET e == table[handle[c]] IN
  /\ AppRuns
  /\ ~disposed
  /\ open[c]
  /\ CancelsLate \/ ~Late(c)
  /\ open' = [open EXCEPT ![c] = FALSE]
  /\ \/ /\ handle[c] = 0 \/ e = NoCall
        /\ UNCHANGED <<table, phase, refs, fault>>
     \/ /\ handle[c] # 0 /\ e # NoCall
        /\ table' = [table EXCEPT ![handle[c]] = NoCall]
        /\ IF phase[e] = "waiting"
             THEN /\ phase' = [phase EXCEPT ![e] = "cancelled"]
                  /\ refs' = Released(Released(refs, {e}), {e})
                  /\ UNCHANGED fault
             ELSE /\ refs' = Released(refs, {e})
                  /\ fault' = IF refs'[e] = 0 THEN "freed call cancelled" ELSE "none"
                  /\ UNCHANGED phase
  /\ UNCHANGED <<connected, counter, disposed, handle, wanted, notified, stack>>

\* Mutant: dispose empties the table and cancels nothing.
Dispose_forgets ==
  /\ AppRuns
  /\ ~disposed
  /\ \A k \in DOMAIN stack : stack[k].kind # "end"
  /\ disposed' = TRUE
  /\ table' = [i \in Ids |-> NoCall]
  /\ refs' = Released(refs, {table[i] : i \in Ids})
  /\ UNCHANGED <<connected, counter, phase, handle, wanted, open, notified, stack, fault>>

\* Mutant: dispose cancels the calls and leaves them in the table.
Dispose_keeps ==
  LET waiting == {c \in Calls : phase[c] = "waiting" /\ \E i \in Ids : table[i] = c}
  IN /\ AppRuns
     /\ ~disposed
     /\ \A k \in DOMAIN stack : stack[k].kind # "end"
     /\ disposed' = TRUE
     /\ phase' = [c \in Calls |-> IF c \in waiting THEN "cancelled" ELSE phase[c]]
     /\ refs' = Released(refs, waiting)
     /\ UNCHANGED <<connected, counter, table, handle, wanted, open, notified, stack, fault>>

\* dbus_g_proxy_dispose: every call in the table is cancelled, then released.
\* Whoever is in end_call holds a reference to the proxy.
Dispose ==
  LET listed == {table[i] : i \in Ids} \ {NoCall}
      waiting == {c \in listed : phase[c] = "waiting"}
  IN /\ AppRuns
     /\ ~disposed
     /\ \A k \in DOMAIN stack : stack[k].kind # "end"
     /\ disposed' = TRUE
     /\ table' = [i \in Ids |-> NoCall]
     /\ phase' = [c \in Calls |-> IF c \in waiting THEN "cancelled" ELSE phase[c]]
     /\ refs' = Released(Released(refs, waiting), listed)
     /\ UNCHANGED <<connected, counter, handle, wanted, open, notified, stack, fault>>

--------------------------------------------------------------------------------
(* What libdbus does *)

\* The reply is dispatched, or an error for a timeout or a lost connection:
\* from the main loop, or inside dbus_pending_call_block for the call that
\* end_call waits for.  d_pending_call_notify runs the callback.
Completes(c) ==
  /\ Running
  /\ phase[c] = "waiting"
  /\ stack = <<>> \/ (Inside("end") /\ Top.call = c)
  /\ phase' = [phase EXCEPT ![c] = "completed"]
  /\ IF wanted[c]
       THEN /\ stack' = Append(stack, [kind |-> "notify", call |-> c, id |-> handle[c]])
            /\ notified' = [notified EXCEPT ![c] = @ + 1]
            /\ UNCHANGED refs
       ELSE /\ refs' = Released(refs, {c})
            /\ UNCHANGED <<stack, notified>>
  /\ UNCHANGED <<connected, counter, table, disposed, handle, wanted, open, fault>>

\* The callback returns and the code that completed the call lets go of it.
NotifyReturns ==
  /\ Running
  /\ Inside("notify")
  /\ refs' = Released(refs, {Top.call})
  /\ stack' = Pop
  /\ UNCHANGED <<connected, counter, table, disposed, phase, handle, wanted, open,
                 notified, fault>>

\* The connection is lost: calls that wait are completed one by one.
Disconnects ==
  /\ Running
  /\ connected
  /\ connected' = FALSE
  /\ UNCHANGED <<counter, table, disposed, callVars, stack, fault>>

--------------------------------------------------------------------------------
Application ==
  \/ \E c \in Calls :
       \/ \E callback \in BOOLEAN : Begin(c, callback)
       \/ BeginRefused(c) \/ EndBegins(c) \/ CancelCall(c)
  \/ Dispose

Completion == \E c \in Calls : Completes(c)
Returns == EndReturns \/ NotifyReturns

Next == Application \/ Completion \/ Returns \/ Disconnects

\* libdbus completes every call: by the reply, by the timeout, or because the
\* connection is lost.  Callbacks and end_call return.
Fairness == WF_vars(Completion) /\ WF_vars(Returns)

Spec == Init /\ [][Next]_vars
FairSpec == Spec /\ Fairness
================================================================================
